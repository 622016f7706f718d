------------------------------ MODULE ServedGain ------------------------------
(***************************************************************************)
(* The served gain law (antenna-model, service/served_gain.rs): squint, the *)
(* physics term taken directly or out of the shared cache, the correction  *)
(* and its disposition, the ideal reference, the warnings.  Requests are   *)
(* served one at a time; GainCache has the races for the cache.            *)
(***************************************************************************)
EXTENDS Pattern, FiniteSets

CONSTANTS
  Artifacts, (* the calibration artifacts the antenna may have, see Artifact *)
  Requests,  (* what may be asked, see Request                              *)
  Capacity   (* physics terms the cache holds                               *)

(* Directions up to a cone and frequencies of a band.                      *)
Region == [cone : Nat, low : Nat, high : Nat]
Covers(r, cone, freq) == cone <= r.cone /\ freq \in r.low..r.high

(* What the loader lets through: surface is the support of a correction    *)
(* surface and coverage the one claim of coverage, each a set of at most   *)
(* one region.  A surface has a claim that its support contains, and so    *)
(* has a partial calibration.                                              *)
Artifact(a) ==
  /\ a.status \in {"uncalibrated", "partial", "full", "none"}
  /\ \A opt \in {a.surface, a.coverage} :
       \A r, other \in opt : r \in Region /\ r = other
  /\ a.surface # {} \/ a.status = "partial" => a.coverage # {}
  /\ \A s \in a.surface, c \in a.coverage :
       c.cone <= s.cone /\ s.low <= c.low /\ c.high <= s.high

(* MIN_FREQUENCY_MHZ and MAX_FREQUENCY_MHZ; both frequencies of a request  *)
(* were validated before they get here.                                    *)
MinFrequency == 1000
MaxFrequency == 500000
Frequencies  == MinFrequency..MaxFrequency

(* reference: whether the ideal gain and the loss are wanted as well.      *)
Request == [cone : 0..(2 * Broadside), feed : [lateral : Nat, axial : Nat],
            freq : Frequencies, pointing : Frequencies, reference : BOOLEAN]

ASSUME ServedAssumption ==
  /\ \A a \in Artifacts : Artifact(a)
  /\ Requests \subseteq Request
  /\ Capacity \in Nat \ {0}

VARIABLES
  calibration, (* the artifact being served                                 *)
  cache,       (* the cells held and the physics term of each               *)
  request,     (* the request being served                                  *)
  route,       (* evaluate_direct or evaluate_cached                        *)
  pc,          (* what the evaluation does next                             *)
  physics,     (* PhysicsOutcome: the terms, convergence, warnings          *)
  reply        (* the last answer                                           *)

vars == <<calibration, cache, request, route, pc, physics, reply>>

(* physics_is_uncorrected: nothing empirical absorbs spillover and scatter. *)
Gates(a) == [spillover |-> a.surface = {}, floor |-> a.surface = {}]

(* The direction everything but the request itself is about.               *)
Corrected(r) == Squinted(r.cone, r.freq, r.pointing, r.feed)

Here(r) == Terms(Gates(calibration), r.feed, r.freq, Corrected(r))

(* Mutant: the key names the direction asked for. *)
KeyOfRequested(r) ==
  [cone |-> (r.cone + 5) \div 10, khz |-> 100 * r.freq,
   x_mm |-> (r.feed.lateral + 2) \div 4, z_mm |-> (r.feed.axial + 2) \div 4]

(* GainCacheKey::new: millidegrees, kilohertz and millimetres.             *)
Key(r) ==
  [cone |-> (Corrected(r) + 5) \div 10, khz |-> 100 * r.freq,
   x_mm |-> (r.feed.lateral + 2) \div 4, z_mm |-> (r.feed.axial + 2) \div 4]

-----------------------------------------------------------------------------
(* How the physics term is obtained.                                       *)

Outcome(terms, converged, warnings) ==
  [terms |-> terms, converged |-> converged, warnings |-> warnings]

PhysicsDirect(r) ==
  Outcome(Here(r),
          Converges(Gates(calibration), r.feed, r.freq, Corrected(r)),
          Warnings(Gates(calibration), r.feed, r.freq, Corrected(r)))

(* Mutant: the severe offset earns its warning also where the model never  *)
(* gets as far as tracing rays.                                            *)
ReconstructUnreached(r, converged) ==
  ConfigurationWarnings(r.feed)
  \o When(RayTracing(r.feed), "RayTraceDegraded")
  \o When(~converged, "NonConvergence")

(* reconstruct_physics_warnings: those of the direction asked for now, and *)
(* what the stored term says of its own convergence.                       *)
Reconstruct(r, converged) ==
  ConfigurationWarnings(r.feed)
  \o When(RayTracing(r.feed) /\ ~FloorOnly(Gates(calibration), Corrected(r)),
          "RayTraceDegraded")
  \o When(~converged, "NonConvergence")

(* Mutant: a stored term is taken to have converged. *)
StoredConverged(r) == [terms |-> Here(r), converged |-> TRUE]

(* CachedGain: value and provenance, without the warnings.                 *)
Stored(r) ==
  [terms |-> Here(r),
   converged |-> Converges(Gates(calibration), r.feed, r.freq, Corrected(r))]

FromStored(r, s) == Outcome(s.terms, s.converged, Reconstruct(r, s.converged))

-----------------------------------------------------------------------------
(* assemble: everything that follows the physics term.                     *)

OutsideMeasured(a, cone) ==
  a.status = "partial" /\ \A c \in a.coverage : cone > c.cone

(* Mutant: the correction asks only whether the direction is covered. *)
CoveredAnywhere(a, cone, freq) == \E c \in a.coverage : cone <= c.cone

Covered(a, cone, freq) == \E c \in a.coverage : Covers(c, cone, freq)

Disposition(a, cone, freq) ==
  CASE a.surface = {} /\ OutsideMeasured(a, cone) -> "unavailable_outside_coverage"
    [] a.surface = {} /\ ~OutsideMeasured(a, cone) -> "unavailable"
    [] a.surface # {} /\ ~Covered(a, cone, freq) -> "outside_coverage"
    [] a.surface # {} /\ Covered(a, cone, freq) ->
         IF \A s \in a.surface : Covers(s, cone, freq) THEN "applied"
         ELSE "outside_support"

(* CorrectionDisposition::extrapolated *)
Extrapolated(d) ==
  d \in {"unavailable_outside_coverage", "outside_coverage", "outside_support"}

CalibrationWarnings(a, cone, freq) ==
  When(a.status = "uncalibrated", "Uncalibrated")
  \o When(a.status = "partial", "PartiallyCalibrated")
  \o When(OutsideMeasured(a, cone), "OutOfCoverage")
  \o When(Disposition(a, cone, freq) \in {"outside_coverage", "outside_support"},
          "CorrectionNotApplied")

ValidityWarnings(a, cone, freq) ==
  When(a.surface = {} /\ OffAxis(cone, freq), "OffAxisUnvalidated")
  \o When(Behind(cone), "RearHemisphereInvalid")

(* Mutant: the reference follows the gate and not what was applied. *)
ReferenceTermsByGate(terms) ==
  Terms([spillover |-> Gates(calibration).spillover, floor |-> FALSE],
        AtFocus, terms.freq, 0)

(* reference_gain: a perfect surface scatters no floor.                    *)
ReferenceTerms(terms) ==
  Terms([spillover |-> terms.spillover # {}, floor |-> FALSE],
        AtFocus, terms.freq, 0)

(* The answer; the gain is the terms and, where applied, the correction.   *)
Assembled(r, outcome) ==
  LET cone == Corrected(r)
      a    == calibration
  IN  [kind |-> "served", cone |-> cone, terms |-> outcome.terms,
       correction |-> Disposition(a, cone, r.freq),
       reference |-> IF r.reference THEN {ReferenceTerms(outcome.terms)} ELSE {},
       warnings |-> outcome.warnings \o CalibrationWarnings(a, cone, r.freq)
                    \o ValidityWarnings(a, cone, r.freq)]

-----------------------------------------------------------------------------
NoReply  == [kind |-> "none"]
NoRoute  == "none"
Failed   == [kind |-> "over_budget"]
NoOutcome == Outcome({}, TRUE, <<>>)
NoCells  == [k \in {} |-> {}]

Init ==
  /\ calibration \in Artifacts
  /\ cache = NoCells
  /\ request \in Requests /\ route = NoRoute
  /\ pc = "idle" /\ physics = NoOutcome /\ reply = NoReply

(* /gain, batch and heatmap evaluate directly, the H3 grid by the cache.   *)
Ask ==
  /\ pc = "idle"
  /\ request' \in Requests /\ route' \in {"direct", "cached"}
  /\ pc' = "physics" /\ reply' = NoReply
  /\ UNCHANGED <<calibration, cache, physics>>

Integrate ==
  /\ pc = "physics" /\ route = "direct"
  /\ physics' = PhysicsDirect(request)
  /\ pc' = "assemble"
  /\ UNCHANGED <<calibration, cache, request, route, reply>>

Hit ==
  /\ pc = "physics" /\ route = "cached" /\ Key(request) \in DOMAIN cache
  /\ physics' = FromStored(request, cache[Key(request)])
  /\ pc' = "assemble"
  /\ UNCHANGED <<calibration, cache, request, route, reply>>

Put(k, s, victims) ==
  [c \in (DOMAIN cache \ victims) \cup {k} |-> IF c = k THEN s ELSE cache[c]]

(* The term is stored before the rest of the evaluation, which may fail.   *)
(* A full cache drops one cell; which is GainCache's matter.               *)
Miss ==
  /\ pc = "physics" /\ route = "cached" /\ Key(request) \notin DOMAIN cache
  /\ \E victims \in SUBSET DOMAIN cache :
       /\ Cardinality(victims)
            = IF Cardinality(DOMAIN cache) = Capacity THEN 1 ELSE 0
       /\ cache' = Put(Key(request), Stored(request), victims)
  /\ physics' = FromStored(request, Stored(request))
  /\ pc' = "assemble"
  /\ UNCHANGED <<calibration, request, route, reply>>

(* An integration runs out of time: not on a hit, nor for the floor alone. *)
PhysicsOverBudget ==
  /\ pc = "physics"
  /\ route = "cached" => Key(request) \notin DOMAIN cache
  /\ ~FloorOnly(Gates(calibration), Corrected(request))
  /\ reply' = Failed /\ pc' = "idle"
  /\ UNCHANGED <<calibration, cache, request, route, physics>>

ReferenceOverBudget ==
  /\ pc = "assemble" /\ request.reference
  /\ reply' = Failed /\ pc' = "idle" /\ physics' = NoOutcome
  /\ UNCHANGED <<calibration, cache, request, route>>

Assemble ==
  /\ pc = "assemble"
  /\ reply' = Assembled(request, physics)
  /\ pc' = "idle" /\ physics' = NoOutcome
  /\ UNCHANGED <<calibration, cache, request, route>>

Next ==
  \/ Ask \/ Integrate \/ Hit \/ Miss
  \/ PhysicsOverBudget \/ ReferenceOverBudget \/ Assemble

Spec == Init /\ [][Next]_vars
-----------------------------------------------------------------------------
Codes ==
  {"SevereFeedOffset", "FeedOffsetSpilloverUnmodeled", "SpilloverSignificant",
   "RayTraceDegraded", "NonConvergence", "Uncalibrated", "PartiallyCalibrated",
   "OutOfCoverage", "CorrectionNotApplied", "OffAxisUnvalidated",
   "RearHemisphereInvalid"}

Served == reply.kind = "served"
Warned(code) == \E i \in 1..Len(reply.warnings) : reply.warnings[i] = code

(* The state is of the right shape: no more cells than the cache holds,    *)
(* each naming the term it stores, and no warning given twice.             *)
TypeOK ==
  /\ calibration \in Artifacts /\ request \in Requests
  /\ route \in {NoRoute, "direct", "cached"}
  /\ pc \in {"idle", "physics", "assemble"}
  /\ Cardinality(DOMAIN cache) <= Capacity
  /\ \A k \in DOMAIN cache :
       /\ k.cone = (cache[k].terms.cone + 5) \div 10
       /\ k.x_mm = (cache[k].terms.feed.lateral + 2) \div 4
  /\ reply.kind \in {"none", "over_budget", "served"}
  /\ Served =>
       /\ \A i \in 1..Len(reply.warnings) : reply.warnings[i] \in Codes
       /\ \A i, j \in 1..Len(reply.warnings) :
            reply.warnings[i] = reply.warnings[j] => i = j

(* An answer is, term for term and warning for warning, the one a direct   *)
(* evaluation gives, whenever the physics it serves was integrated for the *)
(* direction and the feed asked for, be it now or when the cell was filled. *)
CachedAsDirect ==
  Served /\ reply.terms = Here(request) =>
    reply = Assembled(request, PhysicsDirect(request))

(* A physics term that some other direction of the cell left behind may be *)
(* served; within its regime, the warnings are still true of the term: of  *)
(* rays, of the floor alone and, in any regime, of convergence.            *)
ToldAsServed ==
  Served =>
    LET t == reply.terms
        same == /\ Behind(t.cone) = Behind(reply.cone)
                /\ RayTracing(t.feed) = RayTracing(request.feed)
    IN  /\ Warned("NonConvergence")
             <=> ~Converges(Gates(calibration), t.feed, t.freq, t.cone)
        /\ same => (Warned("RayTraceDegraded") <=> t.from = "rays")
        /\ same /\ t.from = "floor" => Warned("RearHemisphereInvalid")
        /\ t.spillover # {} =>
             ~Beyond(t.feed, 3) /\ (same => ~Warned("SevereFeedOffset"))

(* Spillover and scatter are accounted for once: by a correction surface,  *)
(* which is only ever applied to the bare aperture, or by the model, which *)
(* then always adds the floor and adds spillover wherever it is trusted.   *)
(* And the loss compares like with like: the ideal antenna suffers         *)
(* spillover exactly when the term served does, on a hit as on a miss,     *)
(* whatever the gate says.                                                 *)
CountedOnce ==
  Served =>
    /\ calibration.surface # {} =>
         reply.terms.spillover = {} /\ ~reply.terms.floor
    /\ calibration.surface = {} =>
         /\ reply.correction # "applied" /\ reply.terms.floor
         /\ reply.terms.spillover = {} =>
              Behind(reply.terms.cone) \/ Beyond(reply.terms.feed, 3)
    /\ \A ideal \in reply.reference :
         /\ (ideal.spillover # {}) = (reply.terms.spillover # {})
         /\ ideal.freq = reply.terms.freq /\ ~ideal.floor

(* An answer is marked extrapolated exactly when a warning says so, and a  *)
(* correction is applied only within the coverage claimed, which the       *)
(* surface supports.                                                       *)
ExtrapolationTold ==
  Served =>
    /\ Extrapolated(reply.correction)
         <=> Warned("OutOfCoverage") \/ Warned("CorrectionNotApplied")
    /\ reply.correction # "outside_support"
    /\ reply.correction = "applied" =>
         \A c \in calibration.coverage : Covers(c, reply.cone, request.freq)

(* Documented: the rear-hemisphere warning fires for any query more than   *)
(* ninety degrees off boresight.                                           *)
RearIsTold ==
  Served /\ Behind(request.cone) => Warned("RearHemisphereInvalid")
=============================================================================
