-------------------------- MODULE IntegrationProofs --------------------------
(***************************************************************************)
(* Proofs about Integration for any caps, strides, tolerances and sets of  *)
(* antennas: every answer was compared with a second density, the verdict  *)
(* "converged" was earned, a deadline stops the call within a stride, and  *)
(* without one its legs cost no more than doubling the first density.      *)
(***************************************************************************)
EXTENDS Integration, WellFoundedInduction, TLAPS

(* What Sizing promises to the sweep. *)
Sized(s) ==
  /\ s \in [n_start : Nat, n_phi : Nat, m_max : Nat, resolved : BOOLEAN]
  /\ s.n_start \in 2..RadialMax /\ s.n_start % 2 = 1
  /\ 2 * (s.m_max + 1) < s.n_phi

-----------------------------------------------------------------------------
(* A non-empty set of natural numbers has a least element. *)
LEMMA LeastOfNaturals ==
  ASSUME NEW T \in SUBSET Nat, T # {}
  PROVE  \E x \in T : \A y \in T : x <= y
<1>1. PICK x \in T : \A y \in T : ~ (<<y, x>> \in OpToRel(<, Nat))
  BY WFMin, NatLessThanWellFounded
<1>2. \A y \in T : ~ (y < x)
  BY <1>1 DEF OpToRel
<1> QED
  BY <1>2

LEMMA OddFacts ==
  ASSUME NEW n \in Nat
  PROVE  Odd(n) \in Nat /\ Odd(n) % 2 = 1 /\ Odd(n) \in n..(n + 1)
                        /\ (n % 2 = 1 => Odd(n) = n)
  BY SMT DEF Odd

LEMMA CubeRootType == ASSUME NEW x \in Nat PROVE CubeRoot(x) \in Nat
<1> DEFINE T == {r \in Nat : x < (r + 1) * (r + 1) * (r + 1)}
<1>1. x \in T
  <2>1. (x + 1) * (x + 1) >= x + 1
    OBVIOUS
  <2>2. \A a \in Nat : a >= x + 1 => a * (x + 1) > x
    OBVIOUS
  <2> QED
    BY <2>1, <2>2
<1>2. PICK r \in T : \A y \in T : r <= y
  BY <1>1, LeastOfNaturals
<1>3. r \in 0..x /\ x < (r + 1) * (r + 1) * (r + 1)
  BY <1>1, <1>2
<1>4. r * r * r <= x
  <2>1. CASE r = 0
    BY <2>1
  <2>2. CASE r > 0
    <3>1. r - 1 \in Nat /\ r - 1 \notin T
      BY <1>2, <2>2
    <3>2. ~ (x < ((r - 1) + 1) * ((r - 1) + 1) * ((r - 1) + 1))
      BY <3>1
    <3>3. (r - 1) + 1 = r
      BY <1>3
    <3>4. ~ (x < r * r * r)
      BY <3>2, <3>3
    <3>5. r * r * r \in Nat
      BY <1>3
    <3> QED
      BY <3>4, <3>5
  <2> QED
    BY <1>3, <2>1, <2>2
<1> HIDE DEF T
<1> QED
  BY <1>3, <1>4 DEF CubeRoot

LEMMA NextFastLenType == ASSUME NEW n \in Nat PROVE NextFastLen(n) \in Nat
<1> DEFINE long == {m \in FastLengths : m >= n}
<1>1. long \in SUBSET Nat
  BY SizesAssumption DEF FastLengths
<1>2. CASE long = {}
  BY <1>2, SizesAssumption DEF NextFastLen
<1>3. CASE long # {}
  <2>1. PICK m \in long : \A k \in long : m <= k
    BY <1>1, <1>3, LeastOfNaturals
  <2> HIDE DEF long
  <2>2. (CHOOSE x \in long : \A k \in long : x <= k) \in long
    BY <2>1
  <2>3. NextFastLen(n) = CHOOSE x \in long : \A k \in long : x <= k
    BY <1>3 DEF NextFastLen, long
  <2> QED
    BY <1>1, <2>2, <2>3
<1> QED
  BY <1>2, <1>3

(* The trigonometry of the four directions. *)
LEMMA TrigTypes ==
  ASSUME NEW t \in {0, 30, 90, 180}
  PROVE  Sin(t) \in Nat /\ OneMinusCos(t) \in Nat
  BY DEF Sin, OneMinusCos

LEMMA ProductType == ASSUME NEW a \in Nat, NEW b \in Nat PROVE a * b \in Nat
  OBVIOUS

LEMMA QuotientType ==
  ASSUME NEW a \in Nat, NEW d \in Nat \ {0}
  PROVE  a \div d \in Nat
  OBVIOUS

LEMMA BandwidthType == ASSUME NEW g \in Geometry PROVE Bandwidth(g) \in Nat
<1>1. g.dl \in Nat /\ g.off \in Nat
  BY DEF Geometry
<1>2. 314 * g.dl \in Nat /\ (314 * g.dl) * g.off \in Nat
  BY <1>1, ProductType
<1> DEFINE p == (314 * g.dl) * g.off
<1>3. p \div 100 \in Nat
  BY <1>2, QuotientType
<1> QED
  BY <1>2, <1>3 DEF Bandwidth, Least, Greatest

LEMMA RadialTargetType == ASSUME NEW g \in Geometry PROVE RadialTarget(g) \in Nat
<1>1. g.dl \in Nat /\ g.off \in Nat /\ g.ax \in Nat /\ g.rof \in Nat
      /\ g.theta \in {0, 30, 90, 180}
  BY DEF Geometry
<1>2. Sin(g.theta) \in Nat /\ OneMinusCos(g.theta) \in Nat
  BY <1>1, TrigTypes
<1> DEFINE ceiling == 200 * g.dl
           kernel  == 4 * g.dl * Sin(g.theta)
           coma    == Least(2 * g.dl * g.off,
                        IF BeyondPoScope(g) THEN Least(400 * CycleCap, ceiling)
                        ELSE ceiling)
           defocus == Least((2 * g.dl * g.ax * g.rof) \div 100, ceiling)
           chirp   == (g.dl * g.rof * OneMinusCos(g.theta)) \div 200
<1>3. ceiling \in Nat /\ 400 * CycleCap \in Nat
  BY <1>1, SizesAssumption
<1>4. 4 * g.dl \in Nat /\ kernel \in Nat
  BY <1>1, <1>2, ProductType
<1>5. 2 * g.dl \in Nat /\ 2 * g.dl * g.off \in Nat
  BY <1>1, ProductType
<1>6. coma \in Nat
  BY <1>3, <1>5 DEF Least
<1>7. 2 * g.dl * g.ax \in Nat /\ 2 * g.dl * g.ax * g.rof \in Nat
  BY <1>1, <1>5, ProductType
<1>8. defocus \in Nat
  BY <1>3, <1>7, QuotientType DEF Least
<1>9. g.dl * g.rof \in Nat /\ g.dl * g.rof * OneMinusCos(g.theta) \in Nat
  BY <1>1, <1>2, ProductType
<1>10. chirp \in Nat
  BY <1>9, QuotientType
<1>11. RadialTarget(g) = kernel + coma + defocus + chirp
  BY DEF RadialTarget
<1> HIDE DEF kernel, coma, defocus, chirp
<1> QED
  BY <1>4, <1>6, <1>8, <1>10, <1>11

(* The first density is odd, above one and within the cap. *)
LEMMA RadialPointsRange ==
  ASSUME NEW g \in Geometry
  PROVE  RadialPoints(g) \in 2..RadialMax /\ RadialPoints(g) % 2 = 1
<1> DEFINE n == Least(Greatest(Ceil100(RadialTarget(g)), MinRho), RadialMax)
<1>1. n \in 2..RadialMax
  BY RadialTargetType, SizesAssumption DEF Ceil100, Least, Greatest
<1>2. Odd(n) \in 2..RadialMax /\ Odd(n) % 2 = 1
  <2> HIDE DEF n
  <2>1. n \in Nat /\ RadialMax \in Nat /\ RadialMax % 2 = 1
    BY <1>1, SizesAssumption
  <2>2. /\ Odd(n) \in Nat /\ Odd(n) % 2 = 1 /\ Odd(n) \in n..(n + 1)
        /\ (n % 2 = 1 => Odd(n) = n)
    BY <2>1, OddFacts
  <2>3. Odd(n) <= RadialMax
    BY <1>1, <2>1, <2>2
  <2> QED
    BY <1>1, <2>1, <2>2, <2>3
<1> QED
  BY <1>2 DEF RadialPoints

LEMMA PhiPointsRange ==
  ASSUME NEW g \in Geometry
  PROVE  PhiPoints(g) \in Nat /\ PhiPoints(g) >= PhiMin
<1>1. Ceil100(2 * Bandwidth(g)) + 8 \in Nat
  BY BandwidthType DEF Ceil100
<1>2. NextFastLen(Ceil100(2 * Bandwidth(g)) + 8) \in Nat
  BY <1>1, NextFastLenType
<1> QED
  BY <1>2, SizesAssumption DEF PhiPoints, Greatest

LEMMA ModesNeededType == ASSUME NEW g \in Geometry PROVE ModesNeeded(g) \in Nat
<1> DEFINE x == Ceil100((314 * g.dl * Sin(g.theta)) \div 100)
<1>1. x \in Nat
  <2>1. g.dl \in Nat /\ Sin(g.theta) \in Nat
    BY TrigTypes DEF Geometry
  <2>2. 314 * g.dl \in Nat /\ 314 * g.dl * Sin(g.theta) \in Nat
    BY <2>1, ProductType
  <2>3. (314 * g.dl * Sin(g.theta)) \div 100 \in Nat
    BY <2>2, QuotientType
  <2> QED
    BY <2>3 DEF Ceil100
<1>2. CubeRoot(64 * x) \in Nat
  BY <1>1, CubeRootType
<1>3. Ceil100((3 * Bandwidth(g)) \div 2) + 6 \in Nat
  BY BandwidthType DEF Ceil100
<1>4. ModesNeeded(g) =
        Least(Ceil100((3 * Bandwidth(g)) \div 2) + 6, x + CubeRoot(64 * x) + 6)
  BY DEF ModesNeeded
<1> HIDE DEF x
<1> QED
  BY <1>1, <1>2, <1>3, <1>4 DEF Least

(* The probe mode keeps clear of the folding frequency. *)
LEMMA ModeCountRange ==
  ASSUME NEW g \in Geometry
  PROVE  ModeCount(g) \in Nat /\ 2 * (ModeCount(g) + 1) < PhiPoints(g)
<1>1. PhiPoints(g) \in Nat /\ PhiPoints(g) >= 6 /\ PhiMin >= 6
  BY PhiPointsRange, SizesAssumption
<1>2. ModeCap(PhiPoints(g)) \in Nat /\ 2 * ModeCap(PhiPoints(g)) + 4 <= PhiPoints(g)
  BY <1>1 DEF ModeCap
<1> QED
  BY <1>1, <1>2, ModesNeededType, SizesAssumption DEF ModeCount, Least, Greatest

LEMMA SizingIsSized == ASSUME NEW g \in Geometry PROVE Sized(Sizing(g))
<1>1. RadialPoints(g) \in Nat /\ PhiPoints(g) \in Nat /\ ModeCount(g) \in Nat
  BY RadialPointsRange, PhiPointsRange, ModeCountRange, SizesAssumption
<1>2. AzimuthallyResolved(g) \in BOOLEAN
  BY DEF AzimuthallyResolved
<1> QED
  BY <1>1, <1>2, RadialPointsRange, ModeCountRange DEF Sized, Sizing

-----------------------------------------------------------------------------
(* The clock is read at every multiple of the stride, and nowhere else.    *)
LEMMA NextPoll ==
  ASSUME NEW p \in Nat, p % Stride = 0
  PROVE  (p + Stride) % Stride = 0
<1> DEFINE q == p \div Stride
           e == (p + Stride) \div Stride
           r == (p + Stride) % Stride
<1>1. Stride \in Nat /\ Stride > 0 /\ p + Stride \in Nat
  BY SizesAssumption
<1>2. q \in Int /\ p = Stride * q
  BY <1>1
<1>3. e \in Int /\ r \in 0..(Stride - 1) /\ p + Stride = Stride * e + r
  BY <1>1
<1> HIDE DEF q, e, r
<1>4. r = Stride * (q + 1 - e)
  BY <1>1, <1>2, <1>3
<1>5. q + 1 - e = 0
  BY <1>1, <1>2, <1>3, <1>4
<1>6. r = 0
  BY <1>1, <1>4, <1>5
<1> QED
  BY <1>6 DEF r

(* The density of the next leg: odd, and larger unless the cap was passed. *)
LEMMA CheckPointsFacts ==
  ASSUME NEW n \in Nat, n > 1
  PROVE  /\ CheckPoints(n) \in Nat /\ CheckPoints(n) % 2 = 1
         /\ CheckPoints(n) = Least(2 * n - 1, 2 * RadialMax + 1)
         /\ n <= RadialMax => CheckPoints(n) > n
<1> DEFINE m == Least(2 * n - 1, 2 * RadialMax + 1)
<1>1. m \in Nat /\ m % 2 = 1 /\ (n <= RadialMax => m > n)
  BY SizesAssumption DEF Least
<1>2. Odd(m) = m
  BY <1>1, OddFacts
<1> QED
  BY <1>1, <1>2 DEF CheckPoints

(* Once the call has begun, its sampling is what the geometry calls for.   *)
SizedByGeometry ==
  IF pc = "entry" THEN sizing = NoSizing
  ELSE sizing = NoSizing \/ (sizing = Sizing(geo) /\ Sized(sizing))

Begun == pc \in {"poll", "panel", "swept", "judge"} => sizing # NoSizing

(* The legs so far: none, one that nothing was compared with, or two that  *)
(* were compared and of which the later is the finer.                      *)
LegsInOrder ==
  /\ sweep.n = 0 => sweep = NoLeg /\ coarse.n = 0 /\ refinements = 0 /\ ~converged
  /\ sweep.n > 0 => sweep.n > 1
  /\ sweep.n > 0 /\ coarse.n = 0 =>
       sweep.n = sizing.n_start /\ refinements = 0 /\ ~converged
  /\ coarse.n > 0 =>
       /\ coarse.n > 1 /\ sweep.n = CheckPoints(coarse.n) /\ sweep.n > coarse.n
       /\ refinements > 0
       /\ converged = Agree(Distance(coarse.total, sweep.total), sweep.total, HankelRtol)

(* What is being swept is the first leg or the one the last leg calls for. *)
LegInHand ==
  /\ pc \in {"poll", "panel", "swept"} =>
       /\ sweep.n = 0 => n_fine = sizing.n_start
       /\ sweep.n > 0 =>
            n_fine = CheckPoints(sweep.n) /\ n_fine > sweep.n /\ refinements < MaxRefinements
  /\ pc = "judge" => sweep.n > 0
  /\ pc = "entry" => sweep.n = 0

(* A panel starts at a poll, and one that ends late is the last.           *)
Polled ==
  /\ late => budgeted
  /\ pc \in {"poll", "panel"} => pos % Stride = 0
  /\ pc \in {"entry", "panel"} => overrun = 0
  /\ overrun > 0 => late
  /\ overrun <= Stride

(* An answer is given once, of the last leg and the comparison it ended.   *)
AnswerOfLastLeg ==
  /\ pc # "done" => outcome.kind = "none"
  /\ outcome.kind = "over_budget" => late /\ budgeted
  /\ Answered =>
       /\ sizing # NoSizing /\ coarse.n > 0
       /\ outcome.field = sweep.total
       /\ outcome.error = ErrorEstimate
       /\ outcome.converged = Verdict

Shape == TypeOK /\ SizedByGeometry /\ Begun
Legs  == LegsInOrder /\ LegInHand /\ DensityBounded

Inv == Shape /\ Legs /\ Polled /\ AnswerOfLastLeg

-----------------------------------------------------------------------------
LEMMA GeoIsGeometry == ASSUME TypeOK PROVE geo \in Geometry
  BY InputsAssumption DEF TypeOK

LEMMA NoSizingType ==
  NoSizing \in [n_start : Nat, n_phi : Nat, m_max : Nat, resolved : BOOLEAN]
  BY DEF NoSizing

LEMMA WorkType == ASSUME TypeOK, NEW n \in Nat PROVE Work(n) \in Nat
<1>1. sizing.n_phi + sizing.m_max + 2 \in Nat
  BY DEF TypeOK
<1>2. n * (sizing.n_phi + sizing.m_max + 2) \in Nat
  BY <1>1, ProductType
<1> QED
  BY <1>2 DEF Work

LEMMA SizedFacts ==
  ASSUME Shape, sizing # NoSizing
  PROVE  /\ sizing.n_start \in 2..RadialMax /\ sizing.n_start % 2 = 1
         /\ sizing = Sizing(geo) /\ Sized(sizing)
  BY DEF Shape, SizedByGeometry, Sized

LEMMA InitEstablishes == Init => Inv
<1> SUFFICES ASSUME Init PROVE Inv
  OBVIOUS
<1>1. Shape
  <2>1. outcome \in Answers
    BY DEF Init, Answers
  <2>2. coarse \in Leg /\ sweep \in Leg
    BY DEF Init, Leg, NoLeg
  <2>3. sizing = NoSizing /\ pc = "entry"
    BY DEF Init
  <2>4. TypeOK
    <3>1. n_fine \in Nat /\ pos \in 0..n_fine /\ refinements \in Nat /\ evaluations \in Nat
          /\ overrun \in Nat
      BY DEF Init
    <3>2. geo \in Geometries /\ valid \in BOOLEAN /\ budgeted \in BOOLEAN /\ late \in BOOLEAN
          /\ converged \in BOOLEAN
      BY Zenon DEF Init
    <3> QED
      BY <2>1, <2>2, <2>3, <3>1, <3>2, NoSizingType DEF TypeOK
  <2> QED
    BY <2>3, <2>4 DEF Shape, SizedByGeometry, Begun
<1>2. Legs
  BY SizesAssumption DEF Init, Legs, LegsInOrder, LegInHand, DensityBounded, NoLeg
<1>3. Polled /\ AnswerOfLastLeg
  BY SizesAssumption DEF Init, Polled, AnswerOfLastLeg, Answered
<1> QED
  BY <1>1, <1>2, <1>3 DEF Inv

(* A step that leaves the legs and the sizing alone, and the call running. *)
LEMMA ExpireKeeps == ASSUME Inv, Expire PROVE Inv'
<1> USE DEF Expire, Given, Request, Judged
<1>1. Shape'
  BY DEF Inv, Shape, TypeOK, SizedByGeometry, Begun
<1>2. Legs'
  BY DEF Inv, Legs, LegsInOrder, LegInHand, DensityBounded
<1>3. Polled'
  BY DEF Inv, Polled
<1>4. AnswerOfLastLeg'
  BY DEF Inv, AnswerOfLastLeg, Answered
<1> QED
  BY <1>1, <1>2, <1>3, <1>4 DEF Inv

LEMMA RejectKeeps == ASSUME Inv, Reject PROVE Inv'
<1> USE DEF Reject, Return, Given, Request, Judged
<1>1. Shape'
  BY DEF Inv, Shape, TypeOK, SizedByGeometry, Begun, Answers
<1>2. Legs'
  BY DEF Inv, Legs, LegsInOrder, LegInHand, DensityBounded
<1>3. Polled'
  BY DEF Inv, Polled
<1>4. AnswerOfLastLeg'
  BY DEF AnswerOfLastLeg, Answered
<1> QED
  BY <1>1, <1>2, <1>3, <1>4 DEF Inv

LEMMA StartKeeps == ASSUME Inv, Start PROVE Inv'
<1> USE DEF Start, BeginLeg, Request, Judged
<1>1. Sized(sizing') /\ sizing' = Sizing(geo') /\ sizing' # NoSizing
  <2>1. Sized(Sizing(geo))
    BY GeoIsGeometry, SizingIsSized DEF Inv, Shape
  <2>2. ~Sized(NoSizing)
    BY DEF Sized, NoSizing
  <2> QED
    BY <2>1, <2>2
<1>2. n_fine' = sizing'.n_start /\ n_fine' \in 2..RadialMax /\ n_fine' % 2 = 1
  BY <1>1 DEF Sized
<1>3. n_fine' \in Nat /\ pos' \in 0..n_fine'
  BY <1>2, SizesAssumption
<1>4. Shape'
  BY <1>1, <1>3 DEF Inv, Shape, TypeOK, SizedByGeometry, Begun, Sized
<1>5. sweep.n = 0 /\ coarse.n = 0
  BY DEF Inv, Legs, LegsInOrder, LegInHand
<1>6. Legs'
  BY <1>2, <1>5, SizesAssumption DEF Inv, Legs, LegsInOrder, LegInHand, DensityBounded
<1>7. Polled'
  BY SizesAssumption DEF Inv, Polled
<1>8. AnswerOfLastLeg'
  BY DEF Inv, AnswerOfLastLeg, Answered
<1> QED
  BY <1>4, <1>6, <1>7, <1>8 DEF Inv

LEMMA OverBudgetKeeps == ASSUME Inv, OverBudget PROVE Inv'
<1> USE DEF OverBudget, Return, Given, Request, Judged
<1>1. Shape'
  BY DEF Inv, Shape, TypeOK, SizedByGeometry, Begun, Answers
<1>2. Legs'
  BY DEF Inv, Legs, LegsInOrder, LegInHand, DensityBounded
<1>3. Polled'
  BY DEF Inv, Polled
<1>4. AnswerOfLastLeg'
  BY DEF AnswerOfLastLeg, Answered
<1> QED
  BY <1>1, <1>2, <1>3, <1>4 DEF Inv

(* Past a poll there is still time, so nothing has run late yet.           *)
LEMMA GoOnKeeps == ASSUME Inv, GoOn PROVE Inv'
<1> USE DEF GoOn, Given, Request, Judged
<1>1. Shape'
  BY DEF Inv, Shape, TypeOK, SizedByGeometry, Begun
<1>2. Legs'
  BY DEF Inv, Legs, LegsInOrder, LegInHand, DensityBounded
<1>3. Polled'
  <2>1. overrun = 0
    BY DEF Inv, Shape, TypeOK, Polled, PollsAt
  <2> QED
    BY <2>1 DEF Inv, Polled
<1>4. AnswerOfLastLeg'
  BY DEF Inv, AnswerOfLastLeg, Answered
<1> QED
  BY <1>1, <1>2, <1>3, <1>4 DEF Inv

LEMMA PanelKeeps == ASSUME Inv, Panel PROVE Inv'
<1> USE DEF Panel, Given, Request, Judged
<1>1. pos \in 0..n_fine /\ n_fine \in Nat /\ overrun = 0 /\ pos % Stride = 0
  BY DEF Inv, Shape, TypeOK, Polled
<1>2. pos' \in 0..n_fine /\ pos' - pos \in 0..Stride
  BY <1>1, SizesAssumption DEF PanelEnd, Least
<1>3. overrun' \in 0..Stride /\ (overrun' > 0 => late)
  BY <1>1, <1>2, SizesAssumption
<1>4. Shape'
  BY <1>2, <1>3, SizesAssumption DEF Inv, Shape, TypeOK, SizedByGeometry, Begun
<1>5. Legs'
  BY DEF Inv, Legs, LegsInOrder, LegInHand, DensityBounded
<1>6. pc' = "poll" => pos' % Stride = 0
  <2> SUFFICES ASSUME pos' # n_fine PROVE pos' % Stride = 0
    OBVIOUS
  <2>1. pos' = pos + Stride
    BY <1>1, SizesAssumption DEF PanelEnd, Least
  <2> QED
    BY <1>1, <2>1, NextPoll
<1>7. Polled'
  BY <1>3, <1>6 DEF Inv, Polled
<1>8. AnswerOfLastLeg'
  BY DEF Inv, AnswerOfLastLeg, Answered
<1> QED
  BY <1>4, <1>5, <1>7, <1>8 DEF Inv

(* The leg in hand becomes the last leg, and what it was compared with is  *)
(* the leg it was refined from.                                            *)
LEMMA EndLegKeeps == ASSUME Inv, EndLeg PROVE Inv'
<1>1. PICK total \in Totals, top \in Tops :
        /\ sweep' = [n |-> n_fine, total |-> total, top |-> top]
        /\ converged' = (sweep # NoLeg
                         /\ Agree(Distance(sweep.total, total), total, HankelRtol))
  BY DEF EndLeg
<1>2. /\ pc = "swept" /\ pc' = "judge" /\ coarse' = sweep
      /\ refinements' = (IF sweep = NoLeg THEN 0 ELSE refinements + 1)
      /\ evaluations' = evaluations + Work(n_fine)
      /\ UNCHANGED <<geo, valid, budgeted, sizing, late, n_fine, pos, outcome, overrun>>
  BY DEF EndLeg, Given, Request
<1>3. TypeOK /\ n_fine \in Nat /\ sweep \in Leg /\ refinements \in Nat
  BY DEF Inv, Shape, TypeOK
<1>4. Work(n_fine) \in Nat
  BY <1>3, WorkType
<1>5. sweep' \in Leg /\ sweep'.n = n_fine /\ sweep'.total = total
  BY <1>1, <1>3, InputsAssumption DEF Leg
<1>6. Shape'
  BY <1>1, <1>2, <1>3, <1>4, <1>5 DEF Inv, Shape, TypeOK, SizedByGeometry, Begun
<1>7. sizing # NoSizing /\ sizing.n_start \in 2..RadialMax
  BY <1>2, SizedFacts DEF Inv, Shape, Begun
<1>8. n_fine > 1
  BY <1>2, <1>3, <1>7, SizesAssumption DEF Inv, Legs, LegsInOrder, LegInHand, Leg
<1>9. (sweep.n = 0) <=> (sweep = NoLeg)
  BY <1>3 DEF Inv, Legs, LegsInOrder, NoLeg
<1>10. Legs'
  <2>1. CASE sweep.n = 0
    <3>1. coarse'.n = 0 /\ refinements' = 0 /\ ~converged'
      BY <2>1, <1>1, <1>2, <1>9
    <3>2. sweep'.n = sizing.n_start /\ sweep'.n > 1
      BY <2>1, <1>2, <1>5, <1>8 DEF Inv, Legs, LegInHand
    <3>3. LegsInOrder'
      BY <3>1, <3>2, <1>2 DEF LegsInOrder
    <3> QED
      BY <3>1, <3>2, <3>3, <1>2, <1>3, <1>5, SizesAssumption
      DEF Inv, Legs, LegInHand, DensityBounded
  <2>2. CASE sweep.n > 0
    <3>1. /\ coarse'.n = sweep.n /\ sweep.n > 1
          /\ sweep'.n = CheckPoints(coarse'.n) /\ sweep'.n > coarse'.n
          /\ refinements' = refinements + 1 /\ refinements < MaxRefinements
      BY <2>2, <1>2, <1>5, <1>9 DEF Inv, Legs, LegsInOrder, LegInHand
    <3>2. converged' = Agree(Distance(coarse.total, sweep.total), sweep.total, HankelRtol)'
      <4>1. sweep # NoLeg /\ coarse'.total = sweep.total /\ sweep'.total = total
        BY <2>2, <1>2, <1>5, <1>9
      <4>2. converged' = Agree(Distance(sweep.total, total), total, HankelRtol)
        <5>1. Agree(Distance(sweep.total, total), total, HankelRtol) \in BOOLEAN
          BY DEF Agree
        <5> QED
          BY <4>1, <5>1, <1>1
      <4> QED
        BY <4>1, <4>2
    <3> QED
      BY <3>1, <3>2, <1>2, <1>3, <1>5, <1>8, SizesAssumption
      DEF Inv, Legs, LegsInOrder, LegInHand, DensityBounded
  <2> QED
    BY <1>3, <2>1, <2>2 DEF Leg
<1>11. Polled' /\ AnswerOfLastLeg'
  BY <1>2 DEF Inv, Polled, AnswerOfLastLeg, Answered
<1> QED
  BY <1>6, <1>10, <1>11 DEF Inv

(* At the first leg there is always a finer one, and it is always wanted.  *)
LEMMA FirstLegIsRefined ==
  ASSUME Inv, pc = "judge"
  PROVE  /\ sweep.n > 1 /\ sweep.n \in Nat
         /\ coarse.n = 0 => WantsFinerLeg /\ FinerLegExists(sweep.n)
         /\ WantsFinerLeg => FinerLegExists(sweep.n) /\ refinements < MaxRefinements
<1>1. sizing # NoSizing /\ sizing.n_start \in 2..RadialMax
  BY SizedFacts DEF Inv, Shape, Begun
<1>2. sweep.n > 1 /\ sweep.n \in Nat /\ coarse.n \in Nat
  BY DEF Inv, Shape, TypeOK, Legs, LegsInOrder, LegInHand, Leg
<1>3. ASSUME coarse.n = 0
      PROVE  refinements = 0 /\ ~converged /\ FinerLegExists(sweep.n)
  <2>1. sweep.n = sizing.n_start /\ refinements = 0 /\ ~converged
    BY <1>2, <1>3 DEF Inv, Legs, LegsInOrder
  <2> QED
    BY <1>1, <1>2, <2>1, CheckPointsFacts, SizesAssumption DEF FinerLegExists
<1>4. coarse.n > 0 => refinements > 0
  BY DEF Inv, Legs, LegsInOrder
<1> QED
  BY <1>2, <1>3, <1>4, SizesAssumption DEF WantsFinerLeg

LEMMA RefineKeeps == ASSUME Inv, Refine PROVE Inv'
<1> USE DEF Refine, BeginLeg, Given, Request, Judged
<1>1. sweep.n > 1 /\ sweep.n \in Nat /\ CheckPoints(sweep.n) > sweep.n
      /\ refinements < MaxRefinements
  BY FirstLegIsRefined DEF FinerLegExists
<1>2. /\ n_fine' = CheckPoints(sweep.n) /\ n_fine' \in Nat /\ n_fine' % 2 = 1
      /\ n_fine' <= 2 * RadialMax + 1
  BY <1>1, CheckPointsFacts, SizesAssumption DEF Least
<1>3. Shape'
  BY <1>2 DEF Inv, Shape, TypeOK, SizedByGeometry, Begun
<1>4. Legs'
  BY <1>1, <1>2 DEF Inv, Legs, LegsInOrder, LegInHand, DensityBounded
<1>5. Polled'
  BY SizesAssumption DEF Inv, Polled
<1>6. AnswerOfLastLeg'
  BY DEF Inv, AnswerOfLastLeg, Answered
<1> QED
  BY <1>3, <1>4, <1>5, <1>6 DEF Inv

LEMMA ErrorType == ASSUME TypeOK PROVE ErrorEstimate \in Nat
  BY DEF TypeOK, Leg, ErrorEstimate, Distance

LEMMA AnswerKeeps == ASSUME Inv, Answer PROVE Inv'
<1> USE DEF Answer, Return, Given, Request, Judged
<1>1. coarse.n > 0 /\ sizing # NoSizing
  BY FirstLegIsRefined DEF Inv, Shape, TypeOK, Begun, Leg
<1>2. ErrorEstimate \in Nat /\ Verdict \in BOOLEAN /\ sweep.total \in Nat
  BY ErrorType DEF Inv, Shape, TypeOK, Verdict, Leg
<1>3. outcome' \in Answers
  BY <1>2 DEF Answers
<1>4. Shape'
  BY <1>3 DEF Inv, Shape, TypeOK, SizedByGeometry, Begun
<1>5. Legs'
  BY DEF Inv, Legs, LegsInOrder, LegInHand, DensityBounded
<1>6. Polled'
  BY DEF Inv, Polled
<1>7. ErrorEstimate' = ErrorEstimate /\ Verdict' = Verdict
  BY DEF ErrorEstimate, Verdict
<1>8. AnswerOfLastLeg'
  BY <1>1, <1>7 DEF AnswerOfLastLeg, Answered
<1> QED
  BY <1>4, <1>5, <1>6, <1>8 DEF Inv

LEMMA StepKeeps == Inv /\ [Next]_vars => Inv'
<1> SUFFICES ASSUME Inv, [Next]_vars PROVE Inv'
  OBVIOUS
<1>1. CASE Next
  BY <1>1, ExpireKeeps, RejectKeeps, StartKeeps, OverBudgetKeeps, GoOnKeeps, PanelKeeps,
     EndLegKeeps, RefineKeeps, AnswerKeeps DEF Next
<1>2. CASE UNCHANGED vars
  <2> USE <1>2 DEF vars
  <2>1. Shape'
    BY DEF Inv, Shape, TypeOK, SizedByGeometry, Begun
  <2>2. Legs'
    BY DEF Inv, Legs, LegsInOrder, LegInHand, DensityBounded
  <2>3. Polled'
    BY DEF Inv, Polled
  <2>4. AnswerOfLastLeg'
    BY DEF Inv, AnswerOfLastLeg, Answered, ErrorEstimate, Verdict
  <2> QED
    BY <2>1, <2>2, <2>3, <2>4 DEF Inv
<1> QED
  BY <1>1, <1>2

LEMMA Inductive == Spec => []Inv
  BY InitEstablishes, StepKeeps, PTL DEF Spec

-----------------------------------------------------------------------------
(* Every state of a call is of the right shape: sizes, legs and answers.   *)
THEOREM TypeCorrect == Spec => []TypeOK
<1>1. Inv => TypeOK
  BY DEF Inv, Shape
<1> QED
  BY <1>1, Inductive, PTL

(* No answer leaves without a comparison, even at the density cap, and its *)
(* error is at least what the comparison and the top mode showed.          *)
THEOREM EstimatesMeasured == Spec => []EstimateIsMeasured
<1>1. Inv => EstimateIsMeasured
  <2> SUFFICES ASSUME Inv, Answered
               PROVE  /\ coarse.n > 0 /\ sweep.n > coarse.n
                      /\ outcome.field = sweep.total
                      /\ outcome.error >= Distance(coarse.total, sweep.total) + sweep.top
    BY DEF EstimateIsMeasured
  <2>1. coarse.n > 0 /\ outcome.field = sweep.total /\ outcome.error = ErrorEstimate
    BY DEF Inv, AnswerOfLastLeg
  <2>2. refinements > 0 /\ sweep.n > coarse.n
    BY <2>1 DEF Inv, Legs, LegsInOrder
  <2>3. outcome.error = Distance(coarse.total, sweep.total) + sweep.top
    BY <2>1, <2>2 DEF ErrorEstimate
  <2>4. Distance(coarse.total, sweep.total) + sweep.top \in Nat
    BY DEF Inv, Shape, TypeOK, Leg, Distance
  <2> QED
    BY <2>1, <2>2, <2>3, <2>4
<1> QED
  BY <1>1, Inductive, PTL

(* "converged" is earned: by the comparison, by the top mode, by azimuthal *)
(* samples enough for the aperture and for telling the probe mode apart.   *)
THEOREM VerdictsEarned == Spec => []VerdictIsEarned
<1>1. Inv => VerdictIsEarned
  <2> SUFFICES ASSUME Inv, Answered, outcome.converged
               PROVE  /\ ProbeAliasFree
                      /\ Agree(Distance(coarse.total, sweep.total), sweep.total, HankelRtol)
                      /\ sweep.n >= 2 * coarse.n - 1 \/ sweep.n >= 2 * RadialMax
                      /\ Agree(sweep.top, sweep.total, ModeRtol)
                      /\ 50 * sizing.n_phi >= Bandwidth(geo)
    BY DEF VerdictIsEarned
  <2>1. coarse.n > 0 /\ sizing # NoSizing /\ Verdict
    BY DEF Inv, AnswerOfLastLeg
  <2>2. sizing = Sizing(geo) /\ Sized(sizing)
    BY <2>1, SizedFacts DEF Inv
  <2>3. ProbeAliasFree
    BY <2>2 DEF ProbeAliasFree, Sized
  <2>4. Agree(Distance(coarse.total, sweep.total), sweep.total, HankelRtol)
    BY <2>1 DEF Inv, Legs, LegsInOrder, Verdict
  <2>5. sweep.n >= 2 * coarse.n - 1 \/ sweep.n >= 2 * RadialMax
    <3>1. coarse.n > 1 /\ coarse.n \in Nat /\ sweep.n = CheckPoints(coarse.n)
      BY <2>1 DEF Inv, Shape, TypeOK, Leg, Legs, LegsInOrder
    <3> QED
      BY <3>1, CheckPointsFacts, SizesAssumption DEF Least
  <2>6. Agree(sweep.top, sweep.total, ModeRtol) /\ sizing.resolved
    BY <2>1 DEF Verdict
  <2>7. 50 * sizing.n_phi >= Bandwidth(geo)
    <3>1. sizing.n_phi = PhiPoints(geo) /\ sizing.resolved = AzimuthallyResolved(geo)
      BY <2>2 DEF Sizing
    <3>2. PhiPoints(geo) \in Nat /\ Bandwidth(geo) \in Nat
      BY GeoIsGeometry, PhiPointsRange, BandwidthType DEF Inv, Shape
    <3>3. 100 * PhiPoints(geo) >= 2 * Bandwidth(geo)
      <4>1. AzimuthallyResolved(geo)
        BY <2>6, <3>1
      <4> QED
        BY <4>1 DEF AzimuthallyResolved
    <3> QED
      BY <3>1, <3>2, <3>3
  <2> QED
    BY <2>3, <2>4, <2>5, <2>6, <2>7
<1> QED
  BY <1>1, Inductive, PTL

(* The modes of every sweep are told apart, the probe mode included.       *)
THEOREM ProbesAliasFree == Spec => []ProbeAliasFree
<1>1. Inv => ProbeAliasFree
  BY SizedFacts DEF Inv, ProbeAliasFree, Sized
<1> QED
  BY <1>1, Inductive, PTL

-----------------------------------------------------------------------------
(* The first values of Doubled, computed as its equation says.             *)
DoublesTo(n, g) ==
  /\ g \in [0..n -> Nat]
  /\ g[0] = 1
  /\ \A k \in 0..n : k > 0 => g[k] = 2 * g[k - 1]

(* They can be computed up to any number: were there a least one they      *)
(* cannot be computed up to, one more doubling would do.                   *)
LEMMA DoublesExist == \A n \in Nat : \E g : DoublesTo(n, g)
<1> DEFINE Stuck == {n \in Nat : ~ \E g : DoublesTo(n, g)}
<1> SUFFICES ASSUME Stuck # {} PROVE FALSE
  OBVIOUS
<1>1. PICK n \in Stuck : \A y \in Stuck : n <= y
  BY LeastOfNaturals
<1>2. n \in Nat /\ ~ \E g : DoublesTo(n, g)
  BY <1>1
<1>3. CASE n = 0
  <2>1. DoublesTo(0, [k \in 0..0 |-> 1])
    BY DEF DoublesTo
  <2> QED
    BY <1>2, <1>3, <2>1
<1>4. CASE n > 0
  <2>1. n - 1 \in Nat /\ n - 1 \notin Stuck
    BY <1>1, <1>2, <1>4
  <2>2. PICK g : DoublesTo(n - 1, g)
    BY <2>1
  <2> DEFINE h == [k \in 0..n |-> IF k = n THEN 2 * g[n - 1] ELSE g[k]]
  <2>3. g \in [0..(n - 1) -> Nat] /\ g[n - 1] \in Nat /\ 2 * g[n - 1] \in Nat
    BY <2>1, <2>2 DEF DoublesTo
  <2>4. h \in [0..n -> Nat] /\ h[0] = 1
    BY <2>2, <2>3, <1>2, <1>4 DEF DoublesTo
  <2>5. ASSUME NEW k \in 0..n, k > 0 PROVE h[k] = 2 * h[k - 1]
    <3>1. k - 1 \in 0..n /\ k - 1 # n /\ h[k - 1] = g[k - 1]
      BY <2>5, <1>2
    <3>2. CASE k = n
      BY <3>1, <3>2
    <3>3. CASE k # n
      <4>1. k \in 0..(n - 1) /\ h[k] = g[k]
        BY <3>3, <1>2
      <4> QED
        BY <4>1, <3>1, <2>2, <2>5 DEF DoublesTo
    <3> QED
      BY <3>2, <3>3
  <2> HIDE DEF h
  <2>6. DoublesTo(n, h)
    BY <2>4, <2>5 DEF DoublesTo
  <2> QED
    BY <1>2, <2>6
<1> QED
  BY <1>2, <1>3, <1>4

(* However far they are computed, the values in common agree.              *)
LEMMA DoublesAgree ==
  ASSUME NEW m \in Nat, NEW n \in Nat, NEW g, NEW h, DoublesTo(m, g), DoublesTo(n, h)
  PROVE  \A k \in Nat : k <= m /\ k <= n => g[k] = h[k]
<1> DEFINE Apart == {k \in Nat : k <= m /\ k <= n /\ g[k] # h[k]}
<1> SUFFICES ASSUME Apart # {} PROVE FALSE
  OBVIOUS
<1>1. PICK k \in Apart : \A y \in Apart : k <= y
  BY LeastOfNaturals
<1>2. k \in Nat /\ k <= m /\ k <= n /\ g[k] # h[k] /\ k # 0
  BY <1>1 DEF DoublesTo
<1>3. k - 1 \in Nat /\ k - 1 \notin Apart
  BY <1>1, <1>2
<1>4. g[k - 1] = h[k - 1]
  BY <1>2, <1>3
<1>5. g[k] = 2 * g[k - 1] /\ h[k] = 2 * h[k - 1]
  BY <1>2 DEF DoublesTo
<1> QED
  BY <1>2, <1>4, <1>5

(* Doubled is one at zero and doubles with every step.                     *)
LEMMA DoubledFacts ==
  /\ Doubled[0] = 1
  /\ \A k \in Nat : Doubled[k] \in Nat /\ Doubled[k + 1] = 2 * Doubled[k]
<1> DEFINE upTo(n) == CHOOSE g : DoublesTo(n, g)
           G == [k \in Nat |-> upTo(k)[k]]
<1>1. \A n \in Nat : DoublesTo(n, upTo(n))
  BY DoublesExist
<1> HIDE DEF upTo
<1>2. ASSUME NEW k \in Nat PROVE G[k] \in Nat /\ (k > 0 => G[k] = 2 * G[k - 1])
  <2>1. DoublesTo(k, upTo(k)) /\ G[k] = upTo(k)[k]
    BY <1>1
  <2>2. G[k] \in Nat
    BY <2>1 DEF DoublesTo
  <2>3. ASSUME k > 0 PROVE G[k] = 2 * G[k - 1]
    <3>1. k - 1 \in Nat /\ DoublesTo(k - 1, upTo(k - 1)) /\ G[k - 1] = upTo(k - 1)[k - 1]
      BY <1>1, <2>3
    <3>2. upTo(k)[k - 1] = upTo(k - 1)[k - 1]
      BY <2>1, <3>1, DoublesAgree
    <3>3. upTo(k)[k] = 2 * upTo(k)[k - 1]
      BY <2>1, <2>3 DEF DoublesTo
    <3> QED
      BY <2>1, <3>1, <3>2, <3>3
  <2> QED
    BY <2>2, <2>3
<1>3. G[0] = 1
  BY <1>1 DEF DoublesTo
<1> DEFINE Equation(f) == f = [k \in Nat |-> IF k = 0 THEN 1 ELSE 2 * f[k - 1]]
<1>4. Equation(G)
  <2> DEFINE H == [k \in Nat |-> IF k = 0 THEN 1 ELSE 2 * G[k - 1]]
  <2>1. \A k \in Nat : G[k] = H[k]
    BY <1>2, <1>3
  <2>2. G = [k \in Nat |-> G[k]] /\ H = [k \in Nat |-> H[k]]
    OBVIOUS
  <2> HIDE DEF G, H
  <2>3. G = H
    BY <2>1, <2>2
  <2> QED
    BY <2>3 DEF H
<1> HIDE DEF G
<1>5. Equation(Doubled)
  <2>1. Doubled = CHOOSE f : Equation(f)
    BY DEF Doubled
  <2> HIDE DEF Equation
  <2> QED
    BY <2>1, <1>4
<1>6. Doubled[0] = 1 /\ \A k \in Nat : Doubled[k + 1] = 2 * Doubled[k]
  <2>1. Doubled = [k \in Nat |-> IF k = 0 THEN 1 ELSE 2 * Doubled[k - 1]]
    BY <1>5
  <2>2. \A k \in Nat : Doubled[k] = IF k = 0 THEN 1 ELSE 2 * Doubled[k - 1]
    BY <2>1
  <2>3. Doubled[0] = 1
    BY <2>2
  <2>4. ASSUME NEW k \in Nat PROVE Doubled[k + 1] = 2 * Doubled[k]
    <3>1. k + 1 \in Nat /\ k + 1 # 0 /\ (k + 1) - 1 = k
      OBVIOUS
    <3> QED
      BY <2>2, <3>1
  <2> QED
    BY <2>3, <2>4
<1>7. ASSUME NEW k \in Nat PROVE Doubled[k] \in Nat
  <2> DEFINE Wild == {n \in Nat : Doubled[n] \notin Nat}
  <2> SUFFICES ASSUME Wild # {} PROVE FALSE
    OBVIOUS
  <2>1. PICK n \in Wild : \A y \in Wild : n <= y
    BY LeastOfNaturals
  <2>2. n \in Nat /\ n # 0 /\ n - 1 \in Nat
    BY <2>1, <1>6
  <2>3. Doubled[n - 1] \in Nat
    BY <2>1, <2>2
  <2>4. Doubled[n] = 2 * Doubled[n - 1]
    <3>1. (n - 1) + 1 = n
      BY <2>2
    <3> QED
      BY <2>2, <3>1, <1>6
  <2> QED
    BY <2>1, <2>3, <2>4
<1> QED
  BY <1>6, <1>7

(* It never falls below one, and never falls.                              *)
LEMMA DoubledGrows ==
  ASSUME NEW m \in Nat, NEW n \in Nat, m <= n
  PROVE  Doubled[m] >= 1 /\ Doubled[m] <= Doubled[n]
<1>1. \A k \in Nat : Doubled[k] >= 1
  <2> DEFINE Low == {k \in Nat : ~ (Doubled[k] >= 1)}
  <2> SUFFICES ASSUME Low # {} PROVE FALSE
    OBVIOUS
  <2>1. PICK k \in Low : \A y \in Low : k <= y
    BY LeastOfNaturals
  <2>2. k \in Nat /\ k # 0 /\ k - 1 \in Nat /\ (k - 1) + 1 = k
    BY <2>1, DoubledFacts
  <2>3. Doubled[k - 1] >= 1
    BY <2>1, <2>2
  <2>4. Doubled[k] = 2 * Doubled[k - 1] /\ Doubled[k - 1] \in Nat
    BY <2>2, DoubledFacts
  <2> QED
    BY <2>1, <2>3, <2>4
<1>2. Doubled[m] <= Doubled[n]
  <2> DEFINE Falls == {k \in Nat : m <= k /\ ~ (Doubled[m] <= Doubled[k])}
  <2> SUFFICES ASSUME Falls # {} PROVE FALSE
    BY DEF Falls
  <2>1. PICK k \in Falls : \A y \in Falls : k <= y
    BY LeastOfNaturals
  <2>2. Doubled[m] \in Nat /\ Doubled[k] \in Nat /\ k # m
    BY <2>1, DoubledFacts
  <2>3. k - 1 \in Nat /\ m <= k - 1 /\ (k - 1) + 1 = k
    BY <2>1, <2>2
  <2>4. Doubled[m] <= Doubled[k - 1]
    BY <2>1, <2>3
  <2>5. Doubled[k] = 2 * Doubled[k - 1] /\ Doubled[k - 1] \in Nat
    BY <2>3, DoubledFacts
  <2> QED
    BY <2>1, <2>2, <2>4, <2>5
<1> QED
  BY <1>1, <1>2

-----------------------------------------------------------------------------
(* What a sample costs: one evaluation, or one for each azimuthal sample   *)
(* and mode.                                                               *)
SampleCost ==
  IF IsSymmetric(geo) THEN 1 ELSE sizing.n_phi + sizing.m_max + 2

(* Work is proportional to the samples.                                    *)
LEMMA WorkIsProduct ==
  ASSUME TypeOK, NEW n \in Nat
  PROVE  SampleCost \in Nat /\ Work(n) = n * SampleCost
<1>1. sizing.n_phi + sizing.m_max + 2 \in Nat
  BY DEF TypeOK
<1> QED
  BY <1>1 DEF SampleCost, Work

(* The density and the work so far are within what doubling the first      *)
(* density at every comparison allows: the last leg is at most             *)
(* 2^refinements times the first, and the legs up to it at most            *)
(* 1 + 2 + ... + 2^refinements times its work.                             *)
WithinDoubling ==
  IF sweep.n = 0 THEN evaluations = 0
  ELSE /\ sizing # NoSizing
       /\ sweep.n <= Doubled[refinements] * sizing.n_start
       /\ evaluations <= (Doubled[refinements + 1] - 1) * Work(sizing.n_start)

(* One doubling more: a leg of at most twice d samples a start, on top of  *)
(* the legs that cost 2d - 1 of the first.                                 *)
LEMMA OneMoreLeg ==
  ASSUME NEW d \in Nat, d >= 1, NEW start \in Nat, NEW cost \in Nat,
         NEW last \in Nat, NEW spent \in Nat, NEW next \in Nat,
         last <= d * start, next <= 2 * last,
         spent <= (2 * d - 1) * (start * cost)
  PROVE  /\ next <= (2 * d) * start
         /\ spent + next * cost <= (2 * (2 * d) - 1) * (start * cost)
<1> DEFINE w == start * cost
           t == d * start
<1>1. w \in Nat /\ t \in Nat
  OBVIOUS
<1>2. next <= 2 * t /\ (2 * d) * start = 2 * t
  BY <1>1
<1>3. next * cost <= (2 * t) * cost
  <2>1. 2 * t - next \in Nat
    BY <1>1, <1>2
  <2>2. (2 * t - next) * cost \in Nat
    BY <2>1, ProductType
  <2>3. (2 * t - next) * cost = (2 * t) * cost - next * cost
    BY <1>1
  <2>4. next * cost \in Nat /\ (2 * t) * cost \in Nat
    BY <1>1, ProductType
  <2> HIDE DEF t
  <2> QED
    BY <2>2, <2>3, <2>4
<1>4. (2 * t) * cost = (2 * d) * w
  OBVIOUS
<1>5. (2 * (2 * d) - 1) * w = (2 * d - 1) * w + (2 * d) * w
  BY <1>1
<1>6. next * cost \in Nat /\ (2 * d) * w \in Int /\ (2 * d - 1) * w \in Int
  BY <1>1
<1> QED
  <2>1. spent + next * cost <= (2 * d - 1) * w + (2 * d) * w
    <3>1. spent <= (2 * d - 1) * w
      OBVIOUS
    <3>2. next * cost <= (2 * d) * w
      BY <1>3, <1>4
    <3> HIDE DEF w, t
    <3> QED
      BY <1>6, <3>1, <3>2
  <2> QED
    BY <1>2, <1>5, <2>1

(* Only the end of a leg adds work.                                        *)
LEMMA CostStep == Inv /\ WithinDoubling /\ [Next]_vars => WithinDoubling'
<1> SUFFICES ASSUME Inv, WithinDoubling, [Next]_vars PROVE WithinDoubling'
  OBVIOUS
<1>1. CASE EndLeg
  <2>1. /\ pc = "swept" /\ sweep'.n = n_fine /\ coarse' = sweep
        /\ refinements' = (IF sweep = NoLeg THEN 0 ELSE refinements + 1)
        /\ evaluations' = evaluations + Work(n_fine)
        /\ UNCHANGED <<geo, sizing>>
    BY <1>1 DEF EndLeg, Given, Request
  <2>2. TypeOK /\ n_fine \in Nat /\ sweep.n \in Nat /\ refinements \in Nat
        /\ evaluations \in Nat
    BY DEF Inv, Shape, TypeOK, Leg
  <2>3. sizing # NoSizing /\ sizing.n_start \in Nat /\ sizing.n_start > 1
    BY <2>1, SizedFacts, SizesAssumption DEF Inv, Shape, Begun
  <2> DEFINE start == sizing.n_start
             cost  == SampleCost
  <2>4. cost \in Nat /\ Work(start) = start * cost /\ Work(n_fine) = n_fine * cost
    BY <2>2, <2>3, WorkIsProduct
  <2>5. Work(start)' = Work(start)
    BY <2>1 DEF Work
  <2>6. CASE sweep.n = 0
    <3>1. sweep = NoLeg /\ n_fine = start /\ evaluations = 0
      BY <2>1, <2>6 DEF Inv, Legs, LegsInOrder, LegInHand, WithinDoubling
    <3>2. refinements' = 0 /\ evaluations' = Work(start)
      BY <2>1, <2>2, <2>3, <2>4, <3>1, WorkType
    <3>3. Doubled[0] = 1 /\ Doubled[0 + 1] = 2
      BY DoubledFacts
    <3>4. Work(start) \in Nat
      BY <2>2, <2>3, WorkType
    <3>5. start <= Doubled[0] * start /\ Work(start) <= (Doubled[0 + 1] - 1) * Work(start)
      BY <2>3, <3>3, <3>4
    <3>6. sweep'.n # 0 /\ sizing' = sizing /\ sizing'.n_start = start
      BY <2>1, <2>3, <3>1
    <3> QED
      BY <2>1, <2>3, <2>5, <3>1, <3>2, <3>5, <3>6 DEF WithinDoubling
  <2>7. CASE sweep.n > 0
    <3>1. /\ sweep.n > 1 /\ n_fine = CheckPoints(sweep.n) /\ n_fine > sweep.n
          /\ sweep # NoLeg
      BY <2>1, <2>7 DEF Inv, Legs, LegsInOrder, LegInHand, NoLeg
    <3>2. n_fine <= 2 * sweep.n
      BY <2>2, <3>1, CheckPointsFacts, SizesAssumption DEF Least
    <3> DEFINE d == Doubled[refinements]
    <3>3. d \in Nat /\ d >= 1 /\ Doubled[refinements + 1] = 2 * d
          /\ Doubled[(refinements + 1) + 1] = 2 * (2 * d)
      BY <2>2, DoubledFacts, DoubledGrows
    <3>4. sweep.n <= d * start /\ evaluations <= (2 * d - 1) * (start * cost)
      BY <2>4, <2>7, <3>3 DEF WithinDoubling
    <3> HIDE DEF d, start, cost
    <3>5. start \in Nat
      BY <2>3 DEF start
    <3>6. /\ n_fine <= (2 * d) * start
          /\ evaluations + n_fine * cost <= (2 * (2 * d) - 1) * (start * cost)
      BY <2>2, <2>4, <3>2, <3>3, <3>4, <3>5, OneMoreLeg
    <3>7. refinements' = refinements + 1 /\ evaluations' = evaluations + n_fine * cost
      BY <2>1, <2>4, <3>1
    <3>8. /\ sweep'.n <= Doubled[refinements'] * start
          /\ evaluations' <= (Doubled[refinements' + 1] - 1) * Work(start)
      BY <2>1, <2>4, <3>3, <3>6, <3>7
    <3>9. sweep'.n # 0 /\ sizing' = sizing /\ sizing' # NoSizing
      BY <2>1, <2>2, <2>3, <3>1
    <3> QED
      BY <2>1, <2>5, <3>8, <3>9 DEF WithinDoubling, start
  <2> QED
    BY <2>2, <2>6, <2>7
<1>2. CASE Start
  <2>1. sweep.n = 0 /\ UNCHANGED <<sweep, evaluations>>
    BY <1>2 DEF Start, Judged, Inv, Legs, LegInHand
  <2> QED
    BY <2>1 DEF WithinDoubling
<1>3. CASE UNCHANGED <<geo, sizing, sweep, refinements, evaluations>>
  <2>1. Work(sizing.n_start)' = Work(sizing.n_start)
    BY <1>3 DEF Work
  <2> QED
    BY <1>3, <2>1 DEF WithinDoubling
<1>4. Next => EndLeg \/ Start \/ UNCHANGED <<geo, sizing, sweep, refinements, evaluations>>
  BY DEF Next, Expire, Reject, OverBudget, GoOn, Panel, Refine, Answer, Given, Request, Judged
<1> QED
  BY <1>1, <1>2, <1>3, <1>4 DEF vars

(* So a call that has compared at most MaxRefinements times has done at    *)
(* most the work of as many doublings.                                     *)
LEMMA DoublingBoundsCost == Inv /\ WithinDoubling => CostBounded
<1> SUFFICES ASSUME Inv, WithinDoubling PROVE CostBounded
  OBVIOUS
<1>1. TypeOK /\ refinements \in Nat /\ refinements <= MaxRefinements
      /\ MaxRefinements \in Nat /\ sizing.n_start \in Nat
  BY SizesAssumption DEF Inv, Shape, TypeOK, Legs, DensityBounded
<1> DEFINE w == Work(sizing.n_start)
           a == Doubled[refinements + 1] - 1
           b == Doubled[MaxRefinements + 1] - 1
<1>2. w \in Nat
  BY <1>1, WorkType
<1>3. a \in Nat /\ b \in Nat /\ a <= b
  <2>1. refinements + 1 \in Nat /\ MaxRefinements + 1 \in Nat
        /\ refinements + 1 <= MaxRefinements + 1
    BY <1>1
  <2>2. Doubled[refinements + 1] \in Nat /\ Doubled[MaxRefinements + 1] \in Nat
    BY <2>1, DoubledFacts
  <2> QED
    BY <2>1, <2>2, DoubledGrows
<1>4. evaluations = 0 \/ evaluations <= a * w
  BY DEF WithinDoubling
<1>5. CostBounded <=> evaluations <= b * w
  BY DEF CostBounded
<1>6. evaluations \in Nat
  BY <1>1 DEF TypeOK
<1> HIDE DEF w, a, b
<1>7. a * w \in Nat /\ b * w \in Nat /\ a * w <= b * w
  <2>1. b - a \in Nat
    BY <1>3
  <2>2. (b - a) * w \in Nat
    BY <1>2, <2>1, ProductType
  <2>3. (b - a) * w = b * w - a * w
    BY <1>2, <1>3
  <2>4. a * w \in Nat /\ b * w \in Nat
    BY <1>2, <1>3, ProductType
  <2> QED
    BY <2>2, <2>3, <2>4
<1> QED
  BY <1>4, <1>5, <1>6, <1>7

(* A deadline stops a call within one stride; without one the density and  *)
(* the number of refinements do, and the work of all legs together is at   *)
(* most that of doubling the first density MaxRefinements times.           *)
THEOREM CallsEnd == Spec => []WorkBounded
<1>1. Inv => OverrunBounded /\ DensityBounded
  BY DEF Inv, Polled, AnswerOfLastLeg, Legs, OverrunBounded
<1>2. Init => WithinDoubling
  BY DEF Init, WithinDoubling, NoLeg
<1>3. Inv /\ WithinDoubling => WorkBounded
  BY <1>1, DoublingBoundsCost DEF WorkBounded
<1> QED
  BY <1>2, <1>3, CostStep, Inductive, PTL DEF Spec
=============================================================================
