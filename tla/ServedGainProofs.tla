--------------------------- MODULE ServedGainProofs ---------------------------
(***************************************************************************)
(* Proofs about ServedGain for any dish, artifacts, requests, failing      *)
(* integrations and cache: whichever way a gain is served, its terms are   *)
(* those of one direction of its cell, spillover and scatter are counted   *)
(* once, and the warnings say what was done.                               *)
(***************************************************************************)
EXTENDS ServedGain, SequenceTheorems, FiniteSetTheorems, TLAPS

(* What is served of a request on the strength of another one of its cell. *)
OnStrengthOf(r, s) == FromStored(r, Stored(s))

CellsHonest ==
  \A k \in DOMAIN cache : \E s \in Requests : Key(s) = k /\ cache[k] = Stored(s)

OutcomeGrounded ==
  pc = "assemble" =>
    \E s \in Requests : Key(s) = Key(request) /\ physics = OnStrengthOf(request, s)

ReplyGrounded ==
  Served =>
    \E s \in Requests :
      Key(s) = Key(request) /\ reply = Assembled(request, OnStrengthOf(request, s))

IInv ==
  /\ calibration \in Artifacts /\ request \in Requests
  /\ CellsHonest /\ OutcomeGrounded /\ ReplyGrounded

-----------------------------------------------------------------------------
(* The direct evaluation warns of the same as a miss that reconstructs.    *)
LEMMA DirectAsStored ==
  ASSUME NEW r \in Requests
  PROVE  PhysicsDirect(r) = OnStrengthOf(r, r)
BY DEF PhysicsDirect, OnStrengthOf, FromStored, Stored, Outcome, Warnings, Reconstruct

LEMMA InitGrounded == Init => IInv
  BY ServedAssumption
  DEF Init, IInv, CellsHonest, OutcomeGrounded, ReplyGrounded, NoCells, Served, NoReply

(* A step that keeps the artifact keeps what everything is computed from.  *)
LEMMA CalibrationKept ==
  ASSUME UNCHANGED calibration
  PROVE  /\ \A s : Stored(s)' = Stored(s)
         /\ \A r, s : OnStrengthOf(r, s)' = OnStrengthOf(r, s)
         /\ \A r, o : Assembled(r, o)' = Assembled(r, o)
<1>1. \A s : Stored(s)' = Stored(s)
  BY DEF Stored, Here, Gates
<1>2. \A r, s : OnStrengthOf(r, s)' = OnStrengthOf(r, s)
  BY DEF OnStrengthOf, FromStored, Reconstruct, Stored, Here, Gates
<1>3. \A r, o : Assembled(r, o)' = Assembled(r, o)
  BY DEF Assembled, ReferenceTerms
<1> QED
  BY <1>1, <1>2, <1>3

LEMMA CellsKept ==
  ASSUME CellsHonest, UNCHANGED <<calibration, cache>>
  PROVE  CellsHonest'
BY CalibrationKept DEF CellsHonest

LEMMA MissGrounded ==
  ASSUME IInv, Miss
  PROVE  IInv'
<1>1. UNCHANGED <<calibration, request, reply>> /\ pc = "physics" /\ pc' = "assemble"
  BY DEF Miss
<1>2. PICK victims \in SUBSET DOMAIN cache :
        cache' = Put(Key(request), Stored(request), victims)
  BY DEF Miss
<1>3. ASSUME NEW k \in DOMAIN cache'
      PROVE  \E s \in Requests : Key(s) = k /\ cache'[k] = Stored(s)
  <2>1. k \in (DOMAIN cache \ victims) \cup {Key(request)}
    BY <1>2 DEF Put
  <2>2. cache'[k] = IF k = Key(request) THEN Stored(request) ELSE cache[k]
    BY <1>2, <2>1 DEF Put
  <2> QED
    BY <2>1, <2>2 DEF IInv, CellsHonest
<1>4. CellsHonest'
  BY <1>1, <1>3, CalibrationKept DEF CellsHonest
<1>5. physics' = OnStrengthOf(request, request)
  BY DEF Miss, OnStrengthOf
<1>6. OutcomeGrounded'
  BY <1>1, <1>5, CalibrationKept DEF IInv, OutcomeGrounded
<1>7. ReplyGrounded'
  BY <1>1, CalibrationKept DEF IInv, ReplyGrounded, Served
<1> QED
  BY <1>1, <1>4, <1>6, <1>7 DEF IInv

LEMMA NextGrounded == IInv /\ [Next]_vars => IInv'
<1> SUFFICES ASSUME IInv, [Next]_vars PROVE IInv'
  OBVIOUS
<1>1. CASE Ask
  <2>1. CellsHonest'
    BY <1>1, CellsKept DEF IInv, Ask
  <2> QED
    BY <1>1, <2>1 DEF IInv, Ask, OutcomeGrounded, ReplyGrounded, Served, NoReply
<1>2. CASE Integrate
  <2>1. CellsHonest'
    BY <1>2, CellsKept DEF IInv, Integrate
  <2>2. physics' = OnStrengthOf(request, request)
    BY <1>2, DirectAsStored DEF IInv, Integrate
  <2>3. OutcomeGrounded'
    BY <1>2, <2>2, CalibrationKept DEF IInv, Integrate, OutcomeGrounded
  <2>4. ReplyGrounded'
    BY <1>2, CalibrationKept DEF IInv, Integrate, ReplyGrounded, Served
  <2> QED
    BY <1>2, <2>1, <2>3, <2>4 DEF IInv, Integrate
<1>3. CASE Hit
  <2>1. CellsHonest'
    BY <1>3, CellsKept DEF IInv, Hit
  <2>2. PICK s \in Requests : Key(s) = Key(request) /\ cache[Key(request)] = Stored(s)
    BY <1>3 DEF IInv, CellsHonest, Hit
  <2>3. physics' = OnStrengthOf(request, s)
    BY <1>3, <2>2 DEF Hit, OnStrengthOf
  <2>4. OutcomeGrounded'
    BY <1>3, <2>2, <2>3, CalibrationKept DEF Hit, OutcomeGrounded
  <2>5. ReplyGrounded'
    BY <1>3, CalibrationKept DEF IInv, Hit, ReplyGrounded, Served
  <2> QED
    BY <1>3, <2>1, <2>4, <2>5 DEF IInv, Hit
<1>4. CASE Miss
  BY <1>4, MissGrounded
<1>5. CASE PhysicsOverBudget \/ ReferenceOverBudget
  <2>1. CellsHonest'
    BY <1>5, CellsKept DEF IInv, PhysicsOverBudget, ReferenceOverBudget
  <2> QED
    BY <1>5, <2>1
    DEF IInv, PhysicsOverBudget, ReferenceOverBudget, OutcomeGrounded, ReplyGrounded,
        Served, Failed
<1>6. CASE Assemble
  <2>1. CellsHonest'
    BY <1>6, CellsKept DEF IInv, Assemble
  <2>2. PICK s \in Requests : Key(s) = Key(request) /\ physics = OnStrengthOf(request, s)
    BY <1>6 DEF IInv, OutcomeGrounded, Assemble
  <2>3. ReplyGrounded'
    BY <1>6, <2>2, CalibrationKept DEF Assemble, ReplyGrounded
  <2> QED
    BY <1>6, <2>1, <2>3 DEF IInv, Assemble, OutcomeGrounded
<1>7. CASE UNCHANGED vars
  <2>1. CellsHonest'
    BY <1>7, CellsKept DEF IInv, vars
  <2>2. OutcomeGrounded' /\ ReplyGrounded'
    BY <1>7, CalibrationKept DEF IInv, vars, OutcomeGrounded, ReplyGrounded, Served
  <2> QED
    BY <1>7, <2>1, <2>2 DEF IInv, vars
<1> QED
  BY <1>1, <1>2, <1>3, <1>4, <1>5, <1>6, <1>7 DEF Next

LEMMA Grounded == Spec => []IInv
  BY InitGrounded, NextGrounded, PTL DEF Spec

-----------------------------------------------------------------------------
(* Regimes.                                                                *)

LEMMA FocusTrusted ==
  SpilloverTrusted(AtFocus)
BY DishAssumption DEF SpilloverTrusted, Beyond, AtFocus, Square

LEMMA RaysAreBeyondTrust ==
  ASSUME NEW r \in Requests, RayTracing(r.feed)
  PROVE  ~SpilloverTrusted(r.feed)
<1> DEFINE d == 100 * (Square(r.feed.lateral) + Square(r.feed.axial))
           q == Square(FocalLength)
<1>1. r.feed.lateral \in Nat /\ r.feed.axial \in Nat
  BY ServedAssumption DEF Request
<1>2. d \in Int /\ q \in Nat
  BY <1>1, DishAssumption DEF Square
<1>3. d > 25 * q
  BY DEF RayTracing, Beyond, Square
<1>4. d > 9 * q
  <2> HIDE DEF d, q
  <2> QED
    BY <1>2, <1>3
<1> QED
  BY <1>4 DEF SpilloverTrusted, Beyond, Square

LEMMA ConeType ==
  ASSUME NEW r \in Requests
  PROVE  Corrected(r) \in Int
<1>1. /\ r.cone \in Int /\ r.freq \in Int /\ r.pointing \in Int
      /\ r.pointing >= 1000
      /\ r.feed.lateral \in Int /\ FocalLength \in Nat \ {0}
  <2>1. MinFrequency = 1000 /\ MinFrequency \in Int /\ MaxFrequency \in Int
        /\ Broadside \in Nat
    BY DEF MinFrequency, MaxFrequency, Broadside
  <2>2. r \in Request
    BY ServedAssumption
  <2> QED
    BY <2>1, <2>2, DishAssumption DEF Request, Frequencies
<1>2. r.pointing \div 1000 \in Nat \ {0}
  BY <1>1
<1>3. Squint(r.freq, r.pointing, r.feed) \in Int
  <2> DEFINE n == 573 * (r.freq - r.pointing)  p == r.pointing \div 1000
  <2>1. n \in Int
    BY <1>1
  <2>2. n \div p \in Int
    <3> HIDE DEF n, p
    <3>1. p \in Nat \ {0}
      BY <1>2 DEF p
    <3> QED
      BY <2>1, <3>1
  <2> DEFINE m == (n \div p) * r.feed.lateral
  <2>3. m \in Int
    <3> HIDE DEF n, p
    <3> QED
      BY <1>1, <2>2
  <2>4. m \div FocalLength \in Int
    <3> HIDE DEF m
    <3> QED
      BY <1>1, <2>3
  <2> QED
    BY <2>4 DEF Squint
<1> QED
  <2>1. Broadside \in Int
    BY DEF Broadside
  <2> QED
    BY <1>1, <1>3, <2>1 DEF Corrected, Squinted, Lower, Absolute

(* The terms of a request, of either regime.                               *)
LEMMA TermsOf ==
  ASSUME NEW s \in Requests
  PROVE  LET t == Here(s)
         IN /\ t.feed = s.feed /\ t.freq = s.freq /\ t.cone = Corrected(s)
            /\ t.floor = Gates(calibration).floor
            /\ t.from = IF FloorOnly(Gates(calibration), Corrected(s)) THEN "floor"
                        ELSE IF RayTracing(s.feed) THEN "rays" ELSE "aperture"
            /\ t.spillover =
                 IF ~FloorOnly(Gates(calibration), Corrected(s))
                    /\ Gates(calibration).spillover /\ SpilloverTrusted(s.feed)
                 THEN {SpilloverFraction(s.feed)} ELSE {}
<1> DEFINE g == Gates(calibration)  cone == Corrected(s)
<1>1. Here(s) = Terms(g, s.feed, s.freq, cone)
  BY DEF Here
<1>2. FloorOnly(g, cone) => g.floor
  BY DEF FloorOnly
<1>3. g.floor \in BOOLEAN
  BY DEF Gates
<1> HIDE DEF g, cone
<1>4. CASE FloorOnly(g, cone)
  <2>1. Here(s) = [from |-> "floor", feed |-> s.feed, freq |-> s.freq, cone |-> cone,
                   refined |-> FALSE, spillover |-> {}, floor |-> TRUE]
    BY <1>1, <1>4 DEF Terms
  <2>2. /\ Here(s).feed = s.feed /\ Here(s).freq = s.freq /\ Here(s).cone = cone
        /\ Here(s).floor = TRUE /\ Here(s).from = "floor" /\ Here(s).spillover = {}
    BY <2>1
  <2>3. g.floor = TRUE
    BY <1>2, <1>3, <1>4
  <2> QED
    BY <1>4, <2>2, <2>3 DEF g, cone
<1>5. CASE ~FloorOnly(g, cone)
  <2>1. Here(s) = [from |-> IF RayTracing(s.feed) THEN "rays" ELSE "aperture",
                   feed |-> s.feed, freq |-> s.freq, cone |-> cone,
                   refined   |-> ~RayTracing(s.feed) /\ cone > 57296,
                   spillover |-> SpilloverApplied(g, s.feed),
                   floor     |-> g.floor]
    BY <1>1, <1>5 DEF Terms
  <2>2. /\ Here(s).feed = s.feed /\ Here(s).freq = s.freq /\ Here(s).cone = cone
        /\ Here(s).floor = g.floor
        /\ Here(s).from = IF RayTracing(s.feed) THEN "rays" ELSE "aperture"
        /\ Here(s).spillover = SpilloverApplied(g, s.feed)
    BY <2>1
  <2> QED
    BY <1>5, <2>2 DEF SpilloverApplied, g, cone
<1> QED
  BY <1>4, <1>5

-----------------------------------------------------------------------------
(* Lists of warnings.                                                      *)
Says(list, code) == \E i \in 1..Len(list) : list[i] = code

(* A list of one warning at most, given if "holds". *)
Tells(list, holds, warning) ==
  /\ list \in Seq(Codes)
  /\ \A code : Says(list, code) <=> holds /\ code = warning

LEMMA SaysWhen ==
  ASSUME NEW holds \in BOOLEAN, NEW warning \in Codes
  PROVE  Tells(When(holds, warning), holds, warning)
<1>1. CASE holds
  <2>1. When(holds, warning) = <<warning>>
    BY <1>1 DEF When
  <2>2. /\ <<warning>> \in Seq(Codes) /\ Len(<<warning>>) = 1
        /\ <<warning>>[1] = warning
    OBVIOUS
  <2>3. 1..1 = {1}
    OBVIOUS
  <2> DEFINE list == <<warning>>
  <2>4. \A code : Says(list, code) <=> code = warning
    <3> HIDE DEF list
    <3>1. list \in Seq(Codes) /\ Len(list) = 1 /\ list[1] = warning
      BY <2>2 DEF list
    <3> QED
      BY <2>3, <3>1 DEF Says
  <2> QED
    BY <1>1, <2>1, <2>2, <2>4 DEF Tells
<1>2. CASE ~holds
  <2>1. When(holds, warning) = <<>>
    BY <1>2 DEF When
  <2>2. <<>> \in Seq(Codes) /\ Len(<<>>) = 0
    BY EmptySeq
  <2> QED
    BY <1>2, <2>1, <2>2 DEF Says, Tells
<1> QED
  BY <1>1, <1>2

LEMMA SaysConcat ==
  ASSUME NEW s \in Seq(Codes), NEW t \in Seq(Codes)
  PROVE  /\ s \o t \in Seq(Codes)
         /\ \A code : Says(s \o t, code) <=> Says(s, code) \/ Says(t, code)
<1>1. /\ s \o t \in Seq(Codes) /\ Len(s \o t) = Len(s) + Len(t)
      /\ \A i \in 1..(Len(s) + Len(t)) :
           (s \o t)[i] = IF i <= Len(s) THEN s[i] ELSE t[i - Len(s)]
  BY ConcatProperties
<1>2. Len(s) \in Nat /\ Len(t) \in Nat
  OBVIOUS
<1>3. ASSUME NEW code, Says(s \o t, code) PROVE Says(s, code) \/ Says(t, code)
  <2>1. PICK i \in 1..(Len(s) + Len(t)) : (s \o t)[i] = code
    BY <1>1, <1>3 DEF Says
  <2>2. CASE i <= Len(s)
    <3>1. i \in 1..Len(s) /\ s[i] = code
      BY <1>1, <1>2, <2>1, <2>2
    <3> QED
      BY <3>1 DEF Says
  <2>3. CASE ~(i <= Len(s))
    <3>1. i - Len(s) \in 1..Len(t) /\ t[i - Len(s)] = code
      BY <1>1, <1>2, <2>1, <2>3
    <3> QED
      BY <3>1 DEF Says
  <2> QED
    BY <2>2, <2>3
<1>4. ASSUME NEW code, Says(s, code) PROVE Says(s \o t, code)
  <2>1. PICK i \in 1..Len(s) : s[i] = code
    BY <1>4 DEF Says
  <2>2. i \in 1..(Len(s) + Len(t)) /\ (s \o t)[i] = code
    BY <1>1, <1>2, <2>1
  <2> QED
    BY <1>1, <2>2 DEF Says
<1>5. ASSUME NEW code, Says(t, code) PROVE Says(s \o t, code)
  <2>1. PICK i \in 1..Len(t) : t[i] = code
    BY <1>5 DEF Says
  <2>2. i + Len(s) \in 1..(Len(s) + Len(t)) /\ ~(i + Len(s) <= Len(s))
        /\ (i + Len(s)) - Len(s) = i
    BY <1>2
  <2>3. (s \o t)[i + Len(s)] = code
    BY <1>1, <2>1, <2>2
  <2> QED
    BY <1>1, <2>2, <2>3 DEF Says
<1> QED
  BY <1>1, <1>3, <1>4, <1>5

(* Every warning of an answer, and when it is given: the first three are   *)
(* of the feed, the next of the physics, the others of the direction.      *)
LEMMA WarningsOfReply ==
  ASSUME NEW r \in Requests, NEW s \in Requests
  PROVE  LET said(code) == Says(Assembled(r, OnStrengthOf(r, s)).warnings, code)
             cone == Corrected(r)
             a == calibration
         IN /\ said("SevereFeedOffset") <=> RayTracing(r.feed)
            /\ said("RayTraceDegraded") <=>
                 RayTracing(r.feed) /\ ~FloorOnly(Gates(a), cone)
            /\ said("NonConvergence") <=> ~Stored(s).converged
            /\ said("OutOfCoverage") <=> OutsideMeasured(a, cone)
            /\ said("CorrectionNotApplied") <=>
                 Disposition(a, cone, r.freq) \in {"outside_coverage", "outside_support"}
            /\ said("RearHemisphereInvalid") <=> Behind(cone)
<1> DEFINE a == calibration
           cone == Corrected(r)
           w1 == When(RayTracing(r.feed), "SevereFeedOffset")
           w2 == When(~RayTracing(r.feed) /\ ~SpilloverTrusted(r.feed), "FeedOffsetSpilloverUnmodeled")
           w3 == When(SpilloverFraction(r.feed) > 10, "SpilloverSignificant")
           w4 == When(RayTracing(r.feed) /\ ~FloorOnly(Gates(a), cone), "RayTraceDegraded")
           w5 == When(~Stored(s).converged, "NonConvergence")
           w6 == When(a.status = "uncalibrated", "Uncalibrated")
           w7 == When(a.status = "partial", "PartiallyCalibrated")
           w8 == When(OutsideMeasured(a, cone), "OutOfCoverage")
           w9 == When(Disposition(a, cone, r.freq) \in {"outside_coverage", "outside_support"}, "CorrectionNotApplied")
           w10 == When(a.surface = {} /\ OffAxis(cone, r.freq), "OffAxisUnvalidated")
           w11 == When(Behind(cone), "RearHemisphereInvalid")
<1>1. Assembled(r, OnStrengthOf(r, s)).warnings =
        ((((w1 \o w2) \o w3) \o w4) \o w5) \o (((w6 \o w7) \o w8) \o w9) \o (w10 \o w11)
  BY DEF Assembled, OnStrengthOf, FromStored, Outcome, Reconstruct,
         ConfigurationWarnings, CalibrationWarnings, ValidityWarnings
<1>2. /\ (RayTracing(r.feed)) \in BOOLEAN
      /\ (SpilloverFraction(r.feed) > 10) \in BOOLEAN
      /\ FloorOnly(Gates(a), cone) \in BOOLEAN
      /\ Behind(cone) \in BOOLEAN
      /\ OutsideMeasured(a, cone) \in BOOLEAN
      /\ OffAxis(cone, r.freq) \in BOOLEAN
  BY DEF RayTracing, Beyond, FloorOnly, Behind, OutsideMeasured, OffAxis
<1>3. /\ Tells(w1, RayTracing(r.feed), "SevereFeedOffset")
      /\ Tells(w2, ~RayTracing(r.feed) /\ ~SpilloverTrusted(r.feed), "FeedOffsetSpilloverUnmodeled")
      /\ Tells(w3, SpilloverFraction(r.feed) > 10, "SpilloverSignificant")
      /\ Tells(w4, RayTracing(r.feed) /\ ~FloorOnly(Gates(a), cone), "RayTraceDegraded")
      /\ Tells(w5, ~Stored(s).converged, "NonConvergence")
  <2>1. "SevereFeedOffset" \in Codes /\ "FeedOffsetSpilloverUnmodeled" \in Codes
        /\ "SpilloverSignificant" \in Codes /\ "RayTraceDegraded" \in Codes
        /\ "NonConvergence" \in Codes
    BY DEF Codes
  <2>2. Tells(w1, RayTracing(r.feed), "SevereFeedOffset")
    BY <1>2, <2>1, SaysWhen
  <2>3. Tells(w2, ~RayTracing(r.feed) /\ ~SpilloverTrusted(r.feed), "FeedOffsetSpilloverUnmodeled")
    BY <2>1, SaysWhen
  <2>4. Tells(w3, SpilloverFraction(r.feed) > 10, "SpilloverSignificant")
    BY <1>2, <2>1, SaysWhen
  <2>5. Tells(w4, RayTracing(r.feed) /\ ~FloorOnly(Gates(a), cone), "RayTraceDegraded")
    BY <2>1, SaysWhen
  <2>6. Tells(w5, ~Stored(s).converged, "NonConvergence")
    BY <2>1, SaysWhen
  <2> QED
    BY <2>2, <2>3, <2>4, <2>5, <2>6
<1>4. /\ Tells(w6, a.status = "uncalibrated", "Uncalibrated")
      /\ Tells(w7, a.status = "partial", "PartiallyCalibrated")
      /\ Tells(w8, OutsideMeasured(a, cone), "OutOfCoverage")
      /\ Tells(w9, Disposition(a, cone, r.freq) \in {"outside_coverage", "outside_support"}, "CorrectionNotApplied")
      /\ Tells(w10, a.surface = {} /\ OffAxis(cone, r.freq), "OffAxisUnvalidated")
      /\ Tells(w11, Behind(cone), "RearHemisphereInvalid")
  <2>1. "Uncalibrated" \in Codes /\ "PartiallyCalibrated" \in Codes
        /\ "OutOfCoverage" \in Codes /\ "CorrectionNotApplied" \in Codes
        /\ "OffAxisUnvalidated" \in Codes /\ "RearHemisphereInvalid" \in Codes
    BY DEF Codes
  <2>2. Tells(w6, a.status = "uncalibrated", "Uncalibrated")
    BY <2>1, SaysWhen
  <2>3. Tells(w7, a.status = "partial", "PartiallyCalibrated")
    BY <2>1, SaysWhen
  <2>4. Tells(w8, OutsideMeasured(a, cone), "OutOfCoverage")
    BY <1>2, <2>1, SaysWhen
  <2>5. Tells(w9, Disposition(a, cone, r.freq) \in {"outside_coverage", "outside_support"}, "CorrectionNotApplied")
    <3> DEFINE skipped == Disposition(a, cone, r.freq) \in {"outside_coverage", "outside_support"}
    <3>1. skipped \in BOOLEAN
      OBVIOUS
    <3> HIDE DEF skipped
    <3>2. Tells(When(skipped, "CorrectionNotApplied"), skipped, "CorrectionNotApplied")
      BY <2>1, <3>1, SaysWhen
    <3> QED
      BY <3>2 DEF skipped
  <2>6. Tells(w10, a.surface = {} /\ OffAxis(cone, r.freq), "OffAxisUnvalidated")
    BY <2>1, SaysWhen
  <2>7. Tells(w11, Behind(cone), "RearHemisphereInvalid")
    BY <1>2, <2>1, SaysWhen
  <2> QED
    BY <2>2, <2>3, <2>4, <2>5, <2>6, <2>7
<1> HIDE DEF w1, w2, w3, w4, w5, w6, w7, w8, w9, w10, w11
<1> DEFINE v5 == (((w1 \o w2) \o w3) \o w4) \o w5
           v9 == ((w6 \o w7) \o w8) \o w9
           v11 == w10 \o w11
<1>5. v5 \in Seq(Codes)
      /\ \A code : Says(v5, code) <=>
           Says(w1, code) \/ Says(w2, code) \/ Says(w3, code) \/ Says(w4, code) \/ Says(w5, code)
  <2> DEFINE v2 == w1 \o w2  v3 == v2 \o w3  v4 == v3 \o w4
  <2>1. v2 \in Seq(Codes) /\ \A code : Says(v2, code) <=> Says(w1, code) \/ Says(w2, code)
    BY <1>3, SaysConcat DEF Tells
  <2> HIDE DEF v2
  <2>2. v3 \in Seq(Codes) /\ \A code : Says(v3, code) <=> Says(v2, code) \/ Says(w3, code)
    BY <1>3, <2>1, SaysConcat DEF Tells
  <2> HIDE DEF v3
  <2>3. v4 \in Seq(Codes) /\ \A code : Says(v4, code) <=> Says(v3, code) \/ Says(w4, code)
    BY <1>3, <2>2, SaysConcat DEF Tells
  <2> HIDE DEF v4
  <2>4. v4 \o w5 \in Seq(Codes) /\ \A code : Says(v4 \o w5, code) <=> Says(v4, code) \/ Says(w5, code)
    BY <1>3, <2>3, SaysConcat DEF Tells
  <2>5. v5 = v4 \o w5
    BY DEF v2, v3, v4
  <2> HIDE DEF v5
  <2> QED
    BY <2>1, <2>2, <2>3, <2>4, <2>5
<1>6. v9 \in Seq(Codes)
      /\ \A code : Says(v9, code) <=>
           Says(w6, code) \/ Says(w7, code) \/ Says(w8, code) \/ Says(w9, code)
  <2> DEFINE v7 == w6 \o w7  v8 == v7 \o w8
  <2>1. v7 \in Seq(Codes) /\ \A code : Says(v7, code) <=> Says(w6, code) \/ Says(w7, code)
    BY <1>4, SaysConcat DEF Tells
  <2> HIDE DEF v7
  <2>2. v8 \in Seq(Codes) /\ \A code : Says(v8, code) <=> Says(v7, code) \/ Says(w8, code)
    BY <1>4, <2>1, SaysConcat DEF Tells
  <2> HIDE DEF v8
  <2>3. v8 \o w9 \in Seq(Codes) /\ \A code : Says(v8 \o w9, code) <=> Says(v8, code) \/ Says(w9, code)
    BY <1>4, <2>2, SaysConcat DEF Tells
  <2>4. v9 = v8 \o w9
    BY DEF v7, v8
  <2> HIDE DEF v9
  <2> QED
    BY <2>1, <2>2, <2>3, <2>4
<1>7. v11 \in Seq(Codes)
      /\ \A code : Says(v11, code) <=> Says(w10, code) \/ Says(w11, code)
  BY <1>4, SaysConcat DEF Tells
<1> HIDE DEF v5, v9, v11
<1>8. \A code : Says((v5 \o v9) \o v11, code) <=> Says(v5, code) \/ Says(v9, code) \/ Says(v11, code)
  <2> DEFINE v == v5 \o v9
  <2>1. v \in Seq(Codes) /\ \A code : Says(v, code) <=> Says(v5, code) \/ Says(v9, code)
    BY <1>5, <1>6, SaysConcat
  <2> HIDE DEF v
  <2>2. \A code : Says(v \o v11, code) <=> Says(v, code) \/ Says(v11, code)
    BY <1>7, <2>1, SaysConcat
  <2> QED
    BY <2>1, <2>2 DEF v
<1>9. Assembled(r, OnStrengthOf(r, s)).warnings = (v5 \o v9) \o v11
  BY <1>1 DEF v5, v9, v11
<1>10. \A code : Says(Assembled(r, OnStrengthOf(r, s)).warnings, code) <=>
         \/ Says(w1, code) \/ Says(w2, code) \/ Says(w3, code) \/ Says(w4, code)
         \/ Says(w5, code) \/ Says(w6, code) \/ Says(w7, code) \/ Says(w8, code)
         \/ Says(w9, code) \/ Says(w10, code) \/ Says(w11, code)
  BY <1>5, <1>6, <1>7, <1>8, <1>9
<1> DEFINE said(code) == Says(Assembled(r, OnStrengthOf(r, s)).warnings, code)
<1>11. said("SevereFeedOffset") <=> RayTracing(r.feed)
  <2>1. /\ ~Says(w2, "SevereFeedOffset") /\ ~Says(w3, "SevereFeedOffset")
        /\ ~Says(w4, "SevereFeedOffset") /\ ~Says(w5, "SevereFeedOffset")
    BY <1>3 DEF Tells
  <2>2. /\ ~Says(w6, "SevereFeedOffset") /\ ~Says(w7, "SevereFeedOffset")
        /\ ~Says(w8, "SevereFeedOffset") /\ ~Says(w9, "SevereFeedOffset")
        /\ ~Says(w10, "SevereFeedOffset") /\ ~Says(w11, "SevereFeedOffset")
    BY <1>4 DEF Tells
  <2>3. said("SevereFeedOffset") <=> Says(w1, "SevereFeedOffset")
    BY <1>10, <2>1, <2>2
  <2> QED
    BY <1>3, <2>3 DEF Tells
<1>12. said("RayTraceDegraded") <=> RayTracing(r.feed) /\ ~FloorOnly(Gates(a), cone)
  <2>1. /\ ~Says(w1, "RayTraceDegraded") /\ ~Says(w2, "RayTraceDegraded")
        /\ ~Says(w3, "RayTraceDegraded") /\ ~Says(w5, "RayTraceDegraded")
    BY <1>3 DEF Tells
  <2>2. /\ ~Says(w6, "RayTraceDegraded") /\ ~Says(w7, "RayTraceDegraded")
        /\ ~Says(w8, "RayTraceDegraded") /\ ~Says(w9, "RayTraceDegraded")
        /\ ~Says(w10, "RayTraceDegraded") /\ ~Says(w11, "RayTraceDegraded")
    BY <1>4 DEF Tells
  <2>3. said("RayTraceDegraded") <=> Says(w4, "RayTraceDegraded")
    BY <1>10, <2>1, <2>2
  <2> QED
    BY <1>3, <2>3 DEF Tells
<1>13. said("NonConvergence") <=> ~Stored(s).converged
  <2> DEFINE lost == ~Stored(s).converged
  <2>1. Tells(w5, lost, "NonConvergence")
    BY <1>3
  <2> HIDE DEF lost
  <2>2. Says(w5, "NonConvergence") <=> lost
    BY <2>1, Zenon DEF Tells
  <2>3. said("NonConvergence") <=> Says(w5, "NonConvergence")
    <3>1. /\ ~Says(w1, "NonConvergence") /\ ~Says(w2, "NonConvergence")
          /\ ~Says(w3, "NonConvergence") /\ ~Says(w4, "NonConvergence")
      BY <1>3 DEF Tells
    <3>2. /\ ~Says(w6, "NonConvergence") /\ ~Says(w7, "NonConvergence")
          /\ ~Says(w8, "NonConvergence") /\ ~Says(w9, "NonConvergence")
          /\ ~Says(w10, "NonConvergence") /\ ~Says(w11, "NonConvergence")
      BY <1>4 DEF Tells
    <3> QED
      BY <1>10, <3>1, <3>2
  <2> QED
    BY <2>2, <2>3 DEF lost
<1>14. said("OutOfCoverage") <=> OutsideMeasured(a, cone)
  <2>1. /\ ~Says(w1, "OutOfCoverage") /\ ~Says(w2, "OutOfCoverage")
        /\ ~Says(w3, "OutOfCoverage") /\ ~Says(w4, "OutOfCoverage")
        /\ ~Says(w5, "OutOfCoverage")
    BY <1>3 DEF Tells
  <2>2. /\ ~Says(w6, "OutOfCoverage") /\ ~Says(w7, "OutOfCoverage")
        /\ ~Says(w9, "OutOfCoverage") /\ ~Says(w10, "OutOfCoverage")
        /\ ~Says(w11, "OutOfCoverage")
    BY <1>4 DEF Tells
  <2>3. said("OutOfCoverage") <=> Says(w8, "OutOfCoverage")
    BY <1>10, <2>1, <2>2
  <2> QED
    BY <1>4, <2>3 DEF Tells
<1>15. said("CorrectionNotApplied") <=>
         Disposition(a, cone, r.freq) \in {"outside_coverage", "outside_support"}
  <2> DEFINE skipped == Disposition(a, cone, r.freq) \in {"outside_coverage", "outside_support"}
  <2>1. Tells(w9, skipped, "CorrectionNotApplied")
    BY <1>4
  <2> HIDE DEF skipped
  <2>2. said("CorrectionNotApplied") <=> skipped
    BY <1>3, <1>4, <1>10, <2>1 DEF Tells
  <2> QED
    BY <2>2 DEF skipped
<1>16. said("RearHemisphereInvalid") <=> Behind(cone)
  <2>1. /\ ~Says(w1, "RearHemisphereInvalid") /\ ~Says(w2, "RearHemisphereInvalid")
        /\ ~Says(w3, "RearHemisphereInvalid") /\ ~Says(w4, "RearHemisphereInvalid")
        /\ ~Says(w5, "RearHemisphereInvalid")
    BY <1>3 DEF Tells
  <2>2. /\ ~Says(w6, "RearHemisphereInvalid") /\ ~Says(w7, "RearHemisphereInvalid")
        /\ ~Says(w8, "RearHemisphereInvalid") /\ ~Says(w9, "RearHemisphereInvalid")
        /\ ~Says(w10, "RearHemisphereInvalid")
    BY <1>4 DEF Tells
  <2>3. said("RearHemisphereInvalid") <=> Says(w11, "RearHemisphereInvalid")
    BY <1>10, <2>1, <2>2
  <2> QED
    BY <1>4, <2>3 DEF Tells
<1> QED
  BY <1>11, <1>12, <1>13, <1>14, <1>15, <1>16

-----------------------------------------------------------------------------
(* What became of the correction.                                          *)
LEMMA DispositionCases ==
  ASSUME NEW r \in Requests
  PROVE  LET cone == Corrected(r)
             a == calibration
             d == Disposition(a, cone, r.freq)
         IN \/ a.surface = {} /\ OutsideMeasured(a, cone) /\ d = "unavailable_outside_coverage"
            \/ a.surface = {} /\ ~OutsideMeasured(a, cone) /\ d = "unavailable"
            \/ a.surface # {} /\ ~Covered(a, cone, r.freq) /\ d = "outside_coverage"
            \/ /\ a.surface # {} /\ Covered(a, cone, r.freq)
               /\ d = IF \A s \in a.surface : Covers(s, cone, r.freq) THEN "applied"
                      ELSE "outside_support"
<1> DEFINE a == calibration  cone == Corrected(r)
<1>1. OutsideMeasured(a, cone) \in BOOLEAN /\ Covered(a, cone, r.freq) \in BOOLEAN
  BY DEF OutsideMeasured, Covered
<1> HIDE DEF a, cone
<1> DEFINE bare == a.surface = {}  out == OutsideMeasured(a, cone)
           in == Covered(a, cone, r.freq)
           served == IF \A s \in a.surface : Covers(s, cone, r.freq) THEN "applied"
                     ELSE "outside_support"
<1>2. Disposition(a, cone, r.freq) =
        CASE bare /\ out   -> "unavailable_outside_coverage"
          [] bare /\ ~out  -> "unavailable"
          [] ~bare /\ ~in  -> "outside_coverage"
          [] ~bare /\ in   -> served
  BY Zenon DEF Disposition
<1>3. bare \in BOOLEAN /\ out \in BOOLEAN /\ in \in BOOLEAN
  BY <1>1
<1> HIDE DEF bare, out, in, served
<1>4. \/ bare /\ out /\ Disposition(a, cone, r.freq) = "unavailable_outside_coverage"
      \/ bare /\ ~out /\ Disposition(a, cone, r.freq) = "unavailable"
      \/ ~bare /\ ~in /\ Disposition(a, cone, r.freq) = "outside_coverage"
      \/ ~bare /\ in /\ Disposition(a, cone, r.freq) = served
  BY <1>2, <1>3
<1> QED
  BY <1>4 DEF bare, out, in, served, a, cone

(* What a surface covers, its support contains.                            *)
LEMMA CoveredIsSupported ==
  ASSUME calibration \in Artifacts, NEW r \in Requests,
         Covered(calibration, Corrected(r), r.freq)
  PROVE  \A s \in calibration.surface : Covers(s, Corrected(r), r.freq)
<1> SUFFICES ASSUME NEW s \in calibration.surface
             PROVE  Covers(s, Corrected(r), r.freq)
  OBVIOUS
<1>1. Artifact(calibration)
  BY ServedAssumption
<1>2. PICK c \in calibration.coverage : Covers(c, Corrected(r), r.freq)
  BY DEF Covered
<1>3. s \in Region /\ c \in Region
  BY <1>1, <1>2 DEF Artifact
<1>4. c.cone <= s.cone /\ s.low <= c.low /\ c.high <= s.high
  BY <1>1, <1>2 DEF Artifact
<1>5. Corrected(r) \in Int
  BY ConeType
<1>6. r.freq \in c.low..c.high /\ Corrected(r) <= c.cone
  BY <1>2 DEF Covers
<1> QED
  BY <1>3, <1>4, <1>5, <1>6 DEF Covers, Region

-----------------------------------------------------------------------------
(* An answer whose physics was integrated for the direction, frequency and *)
(* feed asked for is the one a direct evaluation gives.                    *)
THEOREM CachedLikeDirect == Spec => []CachedAsDirect
<1>1. IInv => CachedAsDirect
  <2> SUFFICES ASSUME IInv, Served, reply.terms = Here(request)
               PROVE  reply = Assembled(request, PhysicsDirect(request))
    BY DEF CachedAsDirect
  <2>1. PICK s \in Requests : reply = Assembled(request, OnStrengthOf(request, s))
    BY DEF IInv, ReplyGrounded
  <2>2. request \in Requests
    BY DEF IInv
  <2>3. reply.terms = Here(s)
    BY <2>1 DEF Assembled, OnStrengthOf, FromStored, Outcome, Stored
  <2>4. Here(s).feed = Here(request).feed /\ Here(s).freq = Here(request).freq
        /\ Here(s).cone = Here(request).cone
    BY <2>3
  <2>5. s.feed = request.feed /\ s.freq = request.freq
        /\ Corrected(s) = Corrected(request)
    BY <2>2, <2>4, TermsOf
  <2>6. Stored(s) = Stored(request)
    BY <2>3, <2>5 DEF Stored
  <2> QED
    BY <2>1, <2>2, <2>6, DirectAsStored DEF OnStrengthOf
<1> QED
  BY <1>1, Grounded, PTL

(* The physics of an answer is that of some request of its own cell.       *)
THEOREM FromOwnCell ==
  Spec => [](Served => \E s \in Requests : Key(s) = Key(request) /\ reply.terms = Here(s))
<1>1. IInv => (Served => \E s \in Requests : Key(s) = Key(request) /\ reply.terms = Here(s))
  BY DEF IInv, ReplyGrounded, Assembled, OnStrengthOf, FromStored, Outcome, Stored
<1> QED
  BY <1>1, Grounded, PTL

(* Spillover and scatter are in the physics or in the correction, never in *)
(* both; and the ideal antenna a loss is measured against has spillover    *)
(* exactly if the term served has it.                                      *)
THEOREM NothingCountedTwice == Spec => []CountedOnce
<1>1. IInv => CountedOnce
  <2> SUFFICES ASSUME IInv, Served PROVE CountedOnce
    BY DEF CountedOnce
  <2>1. PICK s \in Requests : reply = Assembled(request, OnStrengthOf(request, s))
    BY DEF IInv, ReplyGrounded
  <2> DEFINE t == Here(s)  a == calibration
  <2>2. /\ request \in Requests
        /\ reply.terms = t
        /\ reply.correction = Disposition(a, Corrected(request), request.freq)
        /\ reply.reference = IF request.reference THEN {ReferenceTerms(t)} ELSE {}
    BY <2>1 DEF IInv, Assembled, OnStrengthOf, FromStored, Outcome, Stored
  <2>3. /\ t.freq = s.freq /\ t.feed = s.feed /\ t.cone = Corrected(s)
        /\ t.floor = (a.surface = {})
        /\ t.spillover = IF ~FloorOnly(Gates(a), Corrected(s))
                            /\ a.surface = {} /\ SpilloverTrusted(s.feed)
                         THEN {SpilloverFraction(s.feed)} ELSE {}
    BY TermsOf DEF Gates
  <2>4. FloorOnly(Gates(a), Corrected(s)) => Behind(t.cone)
    BY <2>3 DEF FloorOnly
  <2>5. ASSUME a.surface # {} PROVE t.spillover = {} /\ ~t.floor
    BY <2>3, <2>5
  <2>6. ASSUME a.surface = {}
        PROVE  /\ reply.correction # "applied" /\ t.floor
               /\ t.spillover = {} => Behind(t.cone) \/ Beyond(t.feed, 3)
    <3>1. reply.correction # "applied"
      BY <2>2, <2>6, DispositionCases
    <3> QED
      BY <2>3, <2>4, <2>6, <3>1 DEF SpilloverTrusted
  <2>7. LET ideal == ReferenceTerms(t)
        IN  /\ (ideal.spillover # {}) = (t.spillover # {})
            /\ ideal.freq = t.freq /\ ~ideal.floor
    <3> DEFINE gates == [spillover |-> t.spillover # {}, floor |-> FALSE]
    <3>1. ~FloorOnly(gates, 0)
      BY DEF FloorOnly
    <3>2. ReferenceTerms(t) = Terms(gates, AtFocus, t.freq, 0)
      BY DEF ReferenceTerms
    <3>3. ReferenceTerms(t) =
            [from |-> IF RayTracing(AtFocus) THEN "rays" ELSE "aperture",
             feed |-> AtFocus, freq |-> t.freq, cone |-> 0,
             refined   |-> ~RayTracing(AtFocus) /\ 0 > 57296,
             spillover |-> SpilloverApplied(gates, AtFocus),
             floor     |-> gates.floor]
      <4> HIDE DEF gates
      <4> QED
        BY <3>1, <3>2 DEF Terms
    <3>4. SpilloverApplied(gates, AtFocus) =
            IF t.spillover # {} THEN {SpilloverFraction(AtFocus)} ELSE {}
      BY FocusTrusted DEF SpilloverApplied
    <3>5. /\ ReferenceTerms(t).freq = t.freq /\ ReferenceTerms(t).floor = FALSE
          /\ ReferenceTerms(t).spillover =
               IF t.spillover # {} THEN {SpilloverFraction(AtFocus)} ELSE {}
      BY <3>3, <3>4
    <3> QED
      BY <3>5
  <2> QED
    BY <2>2, <2>5, <2>6, <2>7 DEF CountedOnce
<1> QED
  BY <1>1, Grounded, PTL

(* The flag and the warnings agree on what was extrapolated, and what was  *)
(* corrected was covered.                                                  *)
THEOREM ExtrapolationIsTold == Spec => []ExtrapolationTold
<1>1. IInv => ExtrapolationTold
  <2> SUFFICES ASSUME IInv, Served PROVE ExtrapolationTold
    BY DEF ExtrapolationTold
  <2>1. PICK s \in Requests : reply = Assembled(request, OnStrengthOf(request, s))
    BY DEF IInv, ReplyGrounded
  <2> DEFINE a == calibration  cone == Corrected(request)
             d == Disposition(a, cone, request.freq)
  <2>2. /\ request \in Requests /\ a \in Artifacts
        /\ reply.correction = d /\ reply.cone = cone
    BY <2>1 DEF IInv, Assembled
  <2>3. /\ Warned("OutOfCoverage") <=> OutsideMeasured(a, cone)
        /\ Warned("CorrectionNotApplied") <=> d \in {"outside_coverage", "outside_support"}
    BY <2>1, <2>2, WarningsOfReply DEF Warned, Says
  <2>4. OutsideMeasured(a, cone) => ~Covered(a, cone, request.freq)
    <3>1. \A c \in a.coverage : c.cone \in Nat
      BY <2>2, ServedAssumption DEF Artifact, Region
    <3>2. cone \in Int
      BY <2>2, ConeType
    <3> HIDE DEF a, cone
    <3> QED
      BY <3>1, <3>2 DEF OutsideMeasured, Covered, Covers
  <2>5. Covered(a, cone, request.freq) =>
          \A x \in a.surface : Covers(x, cone, request.freq)
    BY <2>2, CoveredIsSupported
  <2>6. Covered(a, cone, request.freq) =>
          \A c \in a.coverage : Covers(c, cone, request.freq)
    BY <2>2, ServedAssumption DEF Covered, Artifact
  <2>7. \/ a.surface = {} /\ OutsideMeasured(a, cone) /\ d = "unavailable_outside_coverage"
        \/ a.surface = {} /\ ~OutsideMeasured(a, cone) /\ d = "unavailable"
        \/ a.surface # {} /\ ~Covered(a, cone, request.freq) /\ d = "outside_coverage"
        \/ a.surface # {} /\ Covered(a, cone, request.freq) /\ d = "applied"
    BY <2>2, <2>5, DispositionCases
  <2> HIDE DEF a, cone, d
  <2>8. Extrapolated(reply.correction)
          <=> Warned("OutOfCoverage") \/ Warned("CorrectionNotApplied")
    BY <2>2, <2>3, <2>4, <2>7 DEF Extrapolated
  <2>9. /\ reply.correction # "outside_support"
        /\ reply.correction = "applied" =>
             \A c \in a.coverage : Covers(c, reply.cone, request.freq)
    BY <2>2, <2>6, <2>7
  <2> QED
    BY <2>8, <2>9 DEF ExtrapolationTold, a
<1> QED
  BY <1>1, Grounded, PTL

(* Within a regime, what an answer says of its physics is true of the term *)
(* it serves, though another direction of the cell left that behind.       *)
THEOREM PhysicsIsTold == Spec => []ToldAsServed
<1>1. IInv => ToldAsServed
  <2> SUFFICES ASSUME IInv, Served PROVE ToldAsServed
    BY DEF ToldAsServed
  <2>1. PICK s \in Requests : reply = Assembled(request, OnStrengthOf(request, s))
    BY DEF IInv, ReplyGrounded
  <2> DEFINE t == Here(s)  g == Gates(calibration)  cone == Corrected(request)
  <2>2. /\ request \in Requests /\ reply.terms = t /\ reply.cone = cone
    BY <2>1 DEF IInv, Assembled, OnStrengthOf, FromStored, Outcome, Stored
  <2>3. /\ Warned("SevereFeedOffset") <=> RayTracing(request.feed)
        /\ Warned("RayTraceDegraded") <=> RayTracing(request.feed) /\ ~FloorOnly(g, cone)
        /\ Warned("RearHemisphereInvalid") <=> Behind(cone)
    <3> DEFINE list == Assembled(request, OnStrengthOf(request, s)).warnings
    <3>1. /\ Says(list, "SevereFeedOffset") <=> RayTracing(request.feed)
          /\ Says(list, "RayTraceDegraded")
               <=> RayTracing(request.feed) /\ ~FloorOnly(g, cone)
          /\ Says(list, "RearHemisphereInvalid") <=> Behind(cone)
      BY <2>2, WarningsOfReply
    <3>2. list = reply.warnings
      BY <2>1
    <3> HIDE DEF list
    <3>3. \A code : Warned(code) <=> Says(list, code)
      BY <3>2 DEF Warned, Says
    <3> QED
      BY <3>1, <3>3
  <2>4. Warned("NonConvergence") <=> ~Converges(g, s.feed, s.freq, Corrected(s))
    <3>1. Warned("NonConvergence") <=> ~Stored(s).converged
      BY <2>1, <2>2, WarningsOfReply DEF Warned, Says
    <3>2. Stored(s).converged = Converges(g, s.feed, s.freq, Corrected(s))
      BY DEF Stored
    <3> QED
      BY <3>1, <3>2
  <2>5. /\ t.feed = s.feed /\ t.freq = s.freq /\ t.cone = Corrected(s)
        /\ t.from = IF FloorOnly(g, Corrected(s)) THEN "floor"
                    ELSE IF RayTracing(s.feed) THEN "rays" ELSE "aperture"
        /\ t.spillover # {} => SpilloverTrusted(s.feed)
    BY TermsOf
  <2> DEFINE same == /\ Behind(t.cone) = Behind(reply.cone)
                     /\ RayTracing(t.feed) = RayTracing(request.feed)
  <2>6. ASSUME same PROVE Warned("RayTraceDegraded") <=> t.from = "rays"
    <3>1. FloorOnly(g, Corrected(s)) = FloorOnly(g, cone)
      BY <2>2, <2>5, <2>6 DEF FloorOnly
    <3>2. RayTracing(s.feed) = RayTracing(request.feed)
      BY <2>5, <2>6
    <3> QED
      BY <2>3, <2>5, <3>1, <3>2
  <2>7. ASSUME same, t.from = "floor" PROVE Warned("RearHemisphereInvalid")
    BY <2>2, <2>3, <2>5, <2>7 DEF FloorOnly
  <2>8. ASSUME t.spillover # {}
        PROVE  ~Beyond(t.feed, 3) /\ (same => ~Warned("SevereFeedOffset"))
    BY <2>3, <2>5, <2>8, RaysAreBeyondTrust DEF SpilloverTrusted
  <2> HIDE DEF t, same
  <2>9. Warned("NonConvergence") <=> ~Converges(g, t.feed, t.freq, t.cone)
    BY <2>4, <2>5
  <2> QED
    BY <2>2, <2>6, <2>7, <2>8, <2>9 DEF ToldAsServed, same
<1> QED
  BY <1>1, Grounded, PTL

-----------------------------------------------------------------------------
(* Types.  A list without repetition whose members are in S.               *)
Distinct(list, S) ==
  /\ list \in Seq(S)
  /\ \A i, j \in 1..Len(list) : list[i] = list[j] => i = j

(* One warning at most is not given twice,                                 *)
LEMMA DistinctWhen ==
  ASSUME NEW holds, NEW warning
  PROVE  Distinct(When(holds, warning), {warning})
<1>1. When(holds, warning) = <<warning>> \/ When(holds, warning) = <<>>
  BY DEF When
<1>2. Distinct(<<warning>>, {warning})
  <2> DEFINE list == <<warning>>
  <2>1. list \in Seq({warning}) /\ Len(list) = 1
    OBVIOUS
  <2> HIDE DEF list
  <2>2. \A i \in 1..Len(list) : i = 1
    BY <2>1
  <2> QED
    BY <2>1, <2>2 DEF Distinct, list
<1>3. Distinct(<<>>, {warning})
  <2>1. <<>> \in Seq({warning}) /\ Len(<<>>) = 0
    BY EmptySeq
  <2> QED
    BY <2>1 DEF Distinct
<1> QED
  BY <1>1, <1>2, <1>3

(* nor are lists that have nothing in common, one after the other.         *)
LEMMA DistinctConcat ==
  ASSUME NEW s, NEW t, NEW S, NEW T, Distinct(s, S), Distinct(t, T), S \cap T = {}
  PROVE  Distinct(s \o t, S \cup T)
<1> DEFINE U == S \cup T  m == Len(s)  n == Len(t)
<1>1. s \in Seq(U) /\ t \in Seq(U) /\ m \in Nat /\ n \in Nat
  <2>1. s \in Seq(S) /\ t \in Seq(T)
    BY DEF Distinct
  <2>2. Len(s) \in Nat /\ s \in [1..Len(s) -> U]
    BY <2>1
  <2>3. Len(t) \in Nat /\ t \in [1..Len(t) -> U]
    BY <2>1
  <2> HIDE DEF U
  <2> QED
    BY <2>2, <2>3
<1> HIDE DEF U
<1>2. /\ s \o t \in Seq(U) /\ Len(s \o t) = m + n
      /\ \A i \in 1..(m + n) : (s \o t)[i] = IF i <= m THEN s[i] ELSE t[i - m]
  BY <1>1, ConcatProperties
<1>3. /\ \A i \in 1..m : s[i] \in S
      /\ \A i \in 1..n : t[i] \in T
  BY DEF Distinct
<1> HIDE DEF m, n
<1>4. ASSUME NEW i \in 1..(m + n), NEW j \in 1..(m + n), (s \o t)[i] = (s \o t)[j]
      PROVE  i = j
  <2>1. CASE i <= m /\ j <= m
    BY <1>1, <1>2, <1>4, <2>1 DEF Distinct, m
  <2>2. CASE i > m /\ j > m
    <3>1. i - m \in 1..n /\ j - m \in 1..n /\ t[i - m] = t[j - m]
      BY <1>1, <1>2, <1>4, <2>2
    <3>2. i - m = j - m
      BY <3>1 DEF Distinct, n
    <3> QED
      BY <1>1, <3>2
  <2>3. CASE i <= m /\ j > m
    <3>1. s[i] \in S /\ t[j - m] \in T /\ s[i] = t[j - m]
      BY <1>1, <1>2, <1>3, <1>4, <2>3
    <3> QED
      BY <3>1
  <2>4. CASE i > m /\ j <= m
    <3>1. s[j] \in S /\ t[i - m] \in T /\ s[j] = t[i - m]
      BY <1>1, <1>2, <1>3, <1>4, <2>4
    <3> QED
      BY <3>1
  <2> QED
    BY <1>1, <2>1, <2>2, <2>3, <2>4
<1> QED
  BY <1>2, <1>4 DEF Distinct, U, m, n

(* Every place that warns has a code of its own.                           *)
LEMMA WarningsDistinct ==
  ASSUME NEW r, NEW s
  PROVE  Distinct(Assembled(r, OnStrengthOf(r, s)).warnings, Codes)
<1> DEFINE a == calibration
           cone == Corrected(r)
           w1 == When(RayTracing(r.feed), "SevereFeedOffset")
           w2 == When(~RayTracing(r.feed) /\ ~SpilloverTrusted(r.feed), "FeedOffsetSpilloverUnmodeled")
           w3 == When(SpilloverFraction(r.feed) > 10, "SpilloverSignificant")
           w4 == When(RayTracing(r.feed) /\ ~FloorOnly(Gates(a), cone), "RayTraceDegraded")
           w5 == When(~Stored(s).converged, "NonConvergence")
           w6 == When(a.status = "uncalibrated", "Uncalibrated")
           w7 == When(a.status = "partial", "PartiallyCalibrated")
           w8 == When(OutsideMeasured(a, cone), "OutOfCoverage")
           w9 == When(Disposition(a, cone, r.freq) \in {"outside_coverage", "outside_support"}, "CorrectionNotApplied")
           w10 == When(a.surface = {} /\ OffAxis(cone, r.freq), "OffAxisUnvalidated")
           w11 == When(Behind(cone), "RearHemisphereInvalid")
<1>1. Assembled(r, OnStrengthOf(r, s)).warnings =
        ((((w1 \o w2) \o w3) \o w4) \o w5) \o (((w6 \o w7) \o w8) \o w9) \o (w10 \o w11)
  BY DEF Assembled, OnStrengthOf, FromStored, Outcome, Reconstruct,
         ConfigurationWarnings, CalibrationWarnings, ValidityWarnings
<1>2. /\ Distinct(w1, {"SevereFeedOffset"}) /\ Distinct(w2, {"FeedOffsetSpilloverUnmodeled"})
      /\ Distinct(w3, {"SpilloverSignificant"}) /\ Distinct(w4, {"RayTraceDegraded"})
      /\ Distinct(w5, {"NonConvergence"}) /\ Distinct(w6, {"Uncalibrated"})
      /\ Distinct(w7, {"PartiallyCalibrated"}) /\ Distinct(w8, {"OutOfCoverage"})
      /\ Distinct(w9, {"CorrectionNotApplied"}) /\ Distinct(w10, {"OffAxisUnvalidated"})
      /\ Distinct(w11, {"RearHemisphereInvalid"})
  BY DistinctWhen
<1> HIDE DEF w1, w2, w3, w4, w5, w6, w7, w8, w9, w10, w11
<1> DEFINE v2 == w1 \o w2  v3 == v2 \o w3  v4 == v3 \o w4  v5 == v4 \o w5
           v7 == w6 \o w7  v8 == v7 \o w8  v9 == v8 \o w9
           v11 == w10 \o w11
           C2 == {"SevereFeedOffset"} \cup {"FeedOffsetSpilloverUnmodeled"}
           C3 == C2 \cup {"SpilloverSignificant"}
           C4 == C3 \cup {"RayTraceDegraded"}
           C5 == C4 \cup {"NonConvergence"}
           C7 == {"Uncalibrated"} \cup {"PartiallyCalibrated"}
           C8 == C7 \cup {"OutOfCoverage"}
           C9 == C8 \cup {"CorrectionNotApplied"}
           C11 == {"OffAxisUnvalidated"} \cup {"RearHemisphereInvalid"}
<1>3. Distinct(v2, C2)
  BY <1>2, DistinctConcat
<1>4. Distinct(v3, C3)
  <2> HIDE DEF v2
  <2>1. C2 \cap {"SpilloverSignificant"} = {}
    OBVIOUS
  <2> HIDE DEF C2
  <2> QED
    BY <1>2, <1>3, <2>1, DistinctConcat
<1>5. Distinct(v4, C4)
  <2> HIDE DEF v3
  <2>1. C3 \cap {"RayTraceDegraded"} = {}
    OBVIOUS
  <2> HIDE DEF C3
  <2> QED
    BY <1>2, <1>4, <2>1, DistinctConcat
<1>6. Distinct(v5, C5)
  <2> HIDE DEF v4
  <2>1. C4 \cap {"NonConvergence"} = {}
    OBVIOUS
  <2> HIDE DEF C4
  <2> QED
    BY <1>2, <1>5, <2>1, DistinctConcat
<1>7. Distinct(v7, C7)
  BY <1>2, DistinctConcat
<1>8. Distinct(v8, C8)
  <2> HIDE DEF v7
  <2>1. C7 \cap {"OutOfCoverage"} = {}
    OBVIOUS
  <2> HIDE DEF C7
  <2> QED
    BY <1>2, <1>7, <2>1, DistinctConcat
<1>9. Distinct(v9, C9)
  <2> HIDE DEF v8
  <2>1. C8 \cap {"CorrectionNotApplied"} = {}
    OBVIOUS
  <2> HIDE DEF C8
  <2> QED
    BY <1>2, <1>8, <2>1, DistinctConcat
<1>10. Distinct(v11, C11)
  BY <1>2, DistinctConcat
<1>11. C5 \cap C9 = {} /\ (C5 \cup C9) \cap C11 = {} /\ (C5 \cup C9) \cup C11 = Codes
  BY DEF Codes
<1> HIDE DEF C5, C9, C11
<1>12. Distinct((v5 \o v9) \o v11, Codes)
  <2> DEFINE v == v5 \o v9
  <2> HIDE DEF v5, v9, v11
  <2>1. Distinct(v, C5 \cup C9)
    BY <1>6, <1>9, <1>11, DistinctConcat
  <2> HIDE DEF v
  <2>2. Distinct(v \o v11, (C5 \cup C9) \cup C11)
    BY <1>10, <1>11, <2>1, DistinctConcat
  <2> QED
    BY <1>11, <2>2 DEF v
<1> QED
  BY <1>1, <1>12

(* What no other part of the invariant says: the cache holds finitely many *)
(* cells, no more than it has room for.                                    *)
Bounded ==
  /\ route \in {NoRoute, "direct", "cached"}
  /\ pc \in {"idle", "physics", "assemble"}
  /\ IsFiniteSet(DOMAIN cache) /\ Cardinality(DOMAIN cache) <= Capacity
  /\ reply.kind \in {"none", "over_budget", "served"}

(* It begins with no cell, and there is room for one. *)
LEMMA InitBounded == Init => Bounded
<1>1. DOMAIN NoCells = {}
  BY DEF NoCells
<1>2. IsFiniteSet({}) /\ Cardinality({}) = 0 /\ Capacity \in Nat
  BY FS_EmptySet, ServedAssumption
<1> QED
  BY <1>1, <1>2 DEF Init, Bounded, NoReply

(* A miss adds one cell and evicts one if there was no room for it. *)
LEMMA MissBounded == Bounded /\ Miss => Bounded'
<1> SUFFICES ASSUME Bounded, Miss PROVE Bounded'
  OBVIOUS
<1> DEFINE D == DOMAIN cache  k == Key(request)
<1>1. PICK victims \in SUBSET D :
        /\ Cardinality(victims) = IF Cardinality(D) = Capacity THEN 1 ELSE 0
        /\ cache' = Put(k, Stored(request), victims)
  BY DEF Miss
<1>2. DOMAIN cache' = (D \ victims) \cup {k} /\ k \notin D
  BY <1>1 DEF Put, Miss
<1>3. IsFiniteSet(D) /\ Cardinality(D) \in Nat /\ Capacity \in Nat \ {0}
      /\ Cardinality(D) <= Capacity
  BY FS_CardinalityType, ServedAssumption DEF Bounded
<1> HIDE DEF D, k
<1>4. IsFiniteSet(D \ victims) /\ Cardinality(D \ victims) = Cardinality(D) - Cardinality(victims)
  <2>1. D \cap victims = victims
    BY <1>1
  <2> QED
    BY <1>3, <2>1, FS_Difference
<1>5. IsFiniteSet((D \ victims) \cup {k})
      /\ Cardinality((D \ victims) \cup {k}) = Cardinality(D \ victims) + 1
  <2>1. k \notin D \ victims
    BY <1>2
  <2> QED
    BY <1>4, <2>1, FS_AddElement
<1>6. Cardinality((D \ victims) \cup {k}) <= Capacity
  BY <1>1, <1>3, <1>4, <1>5
<1> QED
  BY <1>2, <1>5, <1>6 DEF Bounded, Miss

(* Nothing else touches the cells; answers are of the three kinds. *)
LEMMA NextBounded == Bounded /\ [Next]_vars => Bounded'
<1> SUFFICES ASSUME Bounded, [Next]_vars PROVE Bounded'
  OBVIOUS
<1>1. CASE Miss
  BY <1>1, MissBounded
<1>2. CASE Ask
  BY <1>2 DEF Bounded, Ask, NoReply
<1>3. CASE Integrate \/ Hit
  BY <1>3 DEF Bounded, Integrate, Hit
<1>4. CASE PhysicsOverBudget \/ ReferenceOverBudget
  BY <1>4 DEF Bounded, PhysicsOverBudget, ReferenceOverBudget, Failed
<1>5. CASE Assemble
  BY <1>5 DEF Bounded, Assemble, Assembled
<1>6. CASE UNCHANGED vars
  BY <1>6 DEF Bounded, vars
<1> QED
  BY <1>1, <1>2, <1>3, <1>4, <1>5, <1>6 DEF Next

(* Every cell is named by the term it holds, there are no more than the    *)
(* cache has room for, and no answer gives a warning twice.                *)
THEOREM TypeCorrect == Spec => []TypeOK
<1>1. IInv /\ Bounded => TypeOK
  <2> SUFFICES ASSUME IInv, Bounded PROVE TypeOK
    OBVIOUS
  <2>1. ASSUME NEW k \in DOMAIN cache
        PROVE  /\ k.cone = (cache[k].terms.cone + 5) \div 10
               /\ k.x_mm = (cache[k].terms.feed.lateral + 2) \div 4
    <3>1. PICK s \in Requests : Key(s) = k /\ cache[k] = Stored(s)
      BY DEF IInv, CellsHonest
    <3>2. cache[k].terms = Here(s)
      BY <3>1 DEF Stored
    <3>3. Here(s).cone = Corrected(s) /\ Here(s).feed = s.feed
      BY TermsOf
    <3> QED
      BY <3>1, <3>2, <3>3 DEF Key
  <2>2. ASSUME Served
        PROVE  /\ \A i \in 1..Len(reply.warnings) : reply.warnings[i] \in Codes
               /\ \A i, j \in 1..Len(reply.warnings) :
                    reply.warnings[i] = reply.warnings[j] => i = j
    <3>1. PICK s \in Requests : reply = Assembled(request, OnStrengthOf(request, s))
      BY <2>2 DEF IInv, ReplyGrounded
    <3>2. Distinct(reply.warnings, Codes)
      BY <3>1, WarningsDistinct
    <3> QED
      BY <3>2 DEF Distinct
  <2> QED
    BY <2>1, <2>2 DEF TypeOK, IInv, Bounded
<1> QED
  BY <1>1, Grounded, InitBounded, NextBounded, PTL DEF Spec
=============================================================================
