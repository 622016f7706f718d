----------------------------- MODULE Integration -----------------------------
(***************************************************************************)
(* One call of integrate_aperture (antenna-core, model/integration.rs): how *)
(* densely the aperture is sampled, how the result is refined and judged,  *)
(* and how the wall-clock budget stops it.                                 *)
(*                                                                         *)
(* What a sweep of the aperture adds up to is the environment's choice out *)
(* of Totals and Tops: the control is checked for every answer quadrature  *)
(* could give.  Lengths are relative to the wavelength or the focal length,*)
(* fractions are in hundredths, tolerances in ten-thousandths.             *)
(***************************************************************************)
EXTENDS Integers

CONSTANTS
  PhiMin,         (* MODE_PHI_MIN                                           *)
  PhiMax,         (* MODE_PHI_MAX                                           *)
  ModeMax,        (* MODE_M_MAX                                             *)
  RadialMax,      (* RADIAL_POINTS_SAFETY_MAX                               *)
  MaxRefinements, (* MAX_RADIAL_REFINEMENTS                                 *)
  Stride,         (* BUDGET_CHECK_STRIDE                                    *)
  CycleCap,       (* BEYOND_SCOPE_COMA_CYCLE_CAP                            *)
  MinRho,         (* params.min_rho_points                                  *)
  RelTol,         (* params.relative_tolerance                              *)
  AbsTol,         (* params.absolute_tolerance                              *)
  Geometries,     (* antennas and directions asked for, see Geometry        *)
  Totals,         (* field magnitudes a sweep may add up to                 *)
  Tops            (* contributions the probe mode may make                  *)

(* D / lambda; the feed's lateral and axial offset over the focal length; R *)
(* over the focal length; asymmetry_factor # 1; the polar angle in degrees. *)
Geometry == [dl : Nat \ {0}, off : Nat, ax : Nat, rof : Nat \ {0},
             asym : BOOLEAN, theta : {0, 30, 90, 180}]

(* The const assertion of MODE_M_MAX, and what the arithmetic needs.       *)
ASSUME ProbeFits == PhiMax > 2 * (ModeMax + 1)
ASSUME SizesAssumption ==
  /\ PhiMin \in Nat /\ PhiMin >= 6 /\ PhiMin % 2 = 0
  /\ PhiMax \in Nat /\ PhiMin <= PhiMax /\ PhiMax % 2 = 0
  /\ ModeMax \in Nat \ {0}
  /\ RadialMax \in Nat \ {0} /\ RadialMax % 2 = 1
  /\ MaxRefinements \in Nat \ {0} /\ Stride \in Nat \ {0}
  /\ CycleCap \in Nat /\ MinRho \in 2..RadialMax
  /\ RelTol \in Nat /\ AbsTol \in Nat
ASSUME InputsAssumption ==
  Geometries \subseteq Geometry /\ Totals \subseteq Nat /\ Tops \subseteq Nat

VARIABLES
  geo,         (* the request                                               *)
  valid,       (* angles and frequency finite, frequency positive           *)
  budgeted,    (* params.time_budget is Some                                *)
  late,        (* the clock has passed the deadline                         *)
  pc,          (* what the call does next                                   *)
  sizing,      (* first density, azimuthal samples, modes, all resolved     *)
  n_fine,      (* density of the leg being swept                            *)
  pos,         (* samples of that leg added up so far                       *)
  coarse,      (* history: the leg before the last one                      *)
  sweep,       (* the last leg completed                                    *)
  refinements, (* comparisons made                                          *)
  converged,   (* whether the last comparison agreed                        *)
  evaluations, (* work of all completed legs                                *)
  outcome,     (* what the call returned                                    *)
  overrun      (* history: samples swept after the deadline                 *)

vars == <<geo, valid, budgeted, late, pc, sizing, n_fine, pos, coarse, sweep,
          refinements, converged, evaluations, outcome, overrun>>

Least(a, b)   == IF a <= b THEN a ELSE b
Greatest(a, b) == IF a <= b THEN b ELSE a
Ceil100(x)    == (x + 99) \div 100
Distance(a, b) == IF a <= b THEN b - a ELSE a - b
Odd(n)        == IF n % 2 = 0 THEN n + 1 ELSE n

Sin(theta)         == CASE theta = 0 -> 0 [] theta = 30 -> 50
                        [] theta = 90 -> 100 [] theta = 180 -> 0
OneMinusCos(theta) == CASE theta = 0 -> 0 [] theta = 30 -> 13
                        [] theta = 90 -> 100 [] theta = 180 -> 200

-----------------------------------------------------------------------------
(* How many samples: radial_points_for, mode_count_for.                    *)

IsSymmetric(g)   == g.off = 0 /\ ~g.asym
BeyondPoScope(g) == g.off > 50

(* Four samples per radial cycle of the kernel, the coma, the defocus and  *)
(* the dish-depth chirp; no term of the aperture plane passes D/(2 lambda) *)
(* cycles.  In hundredths of a sample.                                     *)
RadialTarget(g) ==
  LET ceiling == 200 * g.dl
      kernel  == 4 * g.dl * Sin(g.theta)
      coma    == Least(2 * g.dl * g.off,
                       IF BeyondPoScope(g) THEN Least(400 * CycleCap, ceiling)
                       ELSE ceiling)
      defocus == Least((2 * g.dl * g.ax * g.rof) \div 100, ceiling)
      chirp   == (g.dl * g.rof * OneMinusCos(g.theta)) \div 200
  IN  kernel + coma + defocus + chirp

RadialPoints(g) ==
  Odd(Least(Greatest(Ceil100(RadialTarget(g)), MinRho), RadialMax))

(* k R and the coma spread k delta (R/f), with pi as 3.14; in hundredths.  *)
Bandwidth(g) ==
  LET k_r == 314 * g.dl
  IN  Greatest(Least((k_r * g.off) \div 100, k_r), IF g.asym THEN 600 ELSE 0)

(* is_smooth, of the lengths up to the ceiling: those beyond are clamped.  *)
FastLengths ==
  {n \in 1..PhiMax : \E a \in 1..11, b \in 0..6, c \in 0..4 : n = 2^a * 3^b * 5^c}

NextFastLen(n) ==
  LET long == {m \in FastLengths : m >= n}
  IN  IF long = {} THEN PhiMax ELSE CHOOSE m \in long : \A k \in long : m <= k

CubeRoot(x) ==
  CHOOSE r \in 0..x : r * r * r <= x /\ x < (r + 1) * (r + 1) * (r + 1)

ModeCap(n_phi) == n_phi \div 2 - 2

(* Modes that survive the kernel and lie in the spectrum; CubeRoot(64 x) is *)
(* four times the cube root of x.                                          *)
ModesNeeded(g) ==
  LET x == Ceil100((314 * g.dl * Sin(g.theta)) \div 100)
  IN  Least(Ceil100((3 * Bandwidth(g)) \div 2) + 6, x + CubeRoot(64 * x) + 6)

PhiPoints(g) ==
  IF Bandwidth(g) = 0 \/ BeyondPoScope(g) THEN PhiMin
  ELSE Greatest(PhiMin, NextFastLen(Ceil100(2 * Bandwidth(g)) + 8))

ModeCount(g) ==
  IF Bandwidth(g) = 0 THEN 1
  ELSE Greatest(1, Least(ModesNeeded(g), Least(ModeCap(PhiPoints(g)), ModeMax)))

AzimuthallyResolved(g) == 100 * PhiPoints(g) >= 2 * Bandwidth(g)

Sizing(g) == [n_start |-> RadialPoints(g), n_phi |-> PhiPoints(g),
              m_max |-> ModeCount(g), resolved |-> AzimuthallyResolved(g)]

(* mode_sweep_work; the symmetric branch counts its samples.               *)
Work(n) ==
  IF IsSymmetric(geo) THEN n ELSE n * (sizing.n_phi + sizing.m_max + 2)

-----------------------------------------------------------------------------
(* How a finer leg is chosen and two legs are compared.                    *)

CheckPoints(n) == Odd(Least(2 * n - 1, 2 * RadialMax + 1))

HankelRtol == 200
ModeRtol   == 50

(* self_check: whether two values of magnitude about fine agree.           *)
Agree(difference, fine, floor) ==
  \/ 10000 * difference <= Greatest(RelTol, floor) * Greatest(fine, AbsTol)
  \/ difference < AbsTol

(* Mutant: the refinement loop stops at the density cap, the defect the    *)
(* code had until 2026-08-01.                                              *)
MayRefineBelowCap(n) == n < RadialMax /\ CheckPoints(n) > n

FinerLegExists(n) == CheckPoints(n) > n

(* The symmetric branch always sweeps a second leg and then stops.         *)
WantsFinerLeg ==
  IF IsSymmetric(geo) THEN refinements = 0
  ELSE ~converged /\ refinements < MaxRefinements /\ FinerLegExists(sweep.n)

(* Mutant: the verdict leaves out the azimuthal sampling, as it did until  *)
(* 2026-07-31.                                                             *)
VerdictBlindToAliasing == converged /\ Agree(sweep.top, sweep.total, ModeRtol)

(* mode_path_result; a symmetric sweep has no top mode and no azimuth.     *)
Verdict ==
  /\ converged
  /\ Agree(sweep.top, sweep.total, ModeRtol)
  /\ sizing.resolved

NoLeg    == [n |-> 0, total |-> 0, top |-> 0]
NoSizing == [n_start |-> 0, n_phi |-> 0, m_max |-> 0, resolved |-> FALSE]

(* The error reported: what the last comparison differed by and what the   *)
(* top mode adds.                                                          *)
ErrorEstimate ==
  (IF refinements = 0 THEN 0 ELSE Distance(coarse.total, sweep.total)) + sweep.top

-----------------------------------------------------------------------------
Init ==
  /\ geo \in Geometries
  /\ valid \in BOOLEAN
  /\ budgeted \in BOOLEAN
  /\ late = FALSE
  /\ pc = "entry"
  /\ sizing = NoSizing
  /\ n_fine = 0 /\ pos = 0
  /\ coarse = NoLeg /\ sweep = NoLeg
  /\ refinements = 0 /\ converged = FALSE /\ evaluations = 0
  /\ outcome = [kind |-> "none"]
  /\ overrun = 0

Request == <<geo, valid, budgeted>>
Given   == <<Request, sizing>>
Judged  == <<coarse, sweep, refinements, converged, evaluations>>

(* The deadline passes while the call runs.                                *)
Expire ==
  /\ budgeted /\ ~late
  /\ pc \notin {"entry", "done"}
  /\ late' = TRUE
  /\ UNCHANGED <<Given, pc, n_fine, pos, Judged, outcome, overrun>>

Return(answer) == pc' = "done" /\ outcome' = answer

Reject ==
  /\ pc = "entry" /\ ~valid
  /\ Return([kind |-> "unstable"])
  /\ UNCHANGED <<Given, late, n_fine, pos, Judged, overrun>>

BeginLeg(n) == pc' = "poll" /\ n_fine' = n /\ pos' = 0

Start ==
  /\ pc = "entry" /\ valid
  /\ sizing' = Sizing(geo)
  /\ BeginLeg(sizing'.n_start)
  /\ UNCHANGED <<Request, late, Judged, outcome, overrun>>

(* Mutant: the clock is read only before the first sample of a leg. *)
PollsAtStart(i) == i = 0

PollsAt(i) == i % Stride = 0

OverBudget ==
  /\ pc = "poll" /\ budgeted /\ late /\ PollsAt(pos)
  /\ Return([kind |-> "over_budget"])
  /\ UNCHANGED <<Given, late, n_fine, pos, Judged, overrun>>

GoOn ==
  /\ pc = "poll" /\ ~(budgeted /\ late /\ PollsAt(pos))
  /\ pc' = "panel"
  /\ UNCHANGED <<Given, late, n_fine, pos, Judged, outcome, overrun>>

(* Mutant: the last panel runs past the end of the leg. *)
PanelEndUnclipped == pos + Stride

PanelEnd == Least(pos + Stride, n_fine)

(* The samples from one poll to the next, or to the end of the leg.        *)
Panel ==
  /\ pc = "panel"
  /\ pos' = PanelEnd
  /\ pc' = IF pos' = n_fine THEN "swept" ELSE "poll"
  /\ overrun' = IF late THEN overrun + (pos' - pos) ELSE overrun
  /\ UNCHANGED <<Given, late, n_fine, Judged, outcome>>

(* A leg is complete: the first is kept, any other is compared with the    *)
(* one before it and takes its place.                                      *)
EndLeg ==
  /\ pc = "swept"
  /\ \E total \in Totals, top \in Tops :
       /\ IsSymmetric(geo) => top = 0
       /\ sweep' = [n |-> n_fine, total |-> total, top |-> top]
       /\ converged' = (sweep # NoLeg
                        /\ Agree(Distance(sweep.total, total), total, HankelRtol))
  /\ coarse' = sweep
  /\ refinements' = IF sweep = NoLeg THEN 0 ELSE refinements + 1
  /\ evaluations' = evaluations + Work(n_fine)
  /\ pc' = "judge"
  /\ UNCHANGED <<Given, late, n_fine, pos, outcome, overrun>>

Refine ==
  /\ pc = "judge" /\ WantsFinerLeg
  /\ BeginLeg(CheckPoints(sweep.n))
  /\ UNCHANGED <<Given, late, Judged, outcome, overrun>>

Answer ==
  /\ pc = "judge" /\ ~WantsFinerLeg
  /\ Return([kind |-> "ok", field |-> sweep.total, error |-> ErrorEstimate,
             converged |-> Verdict])
  /\ UNCHANGED <<Given, late, n_fine, pos, Judged, overrun>>

Next ==
  \/ Expire \/ Reject \/ Start \/ OverBudget \/ GoOn
  \/ Panel \/ EndLeg \/ Refine \/ Answer

Spec == Init /\ [][Next]_vars

-----------------------------------------------------------------------------
(* The state is of the right shape: legs, verdicts and answers.            *)
Leg == [n : Nat, total : Nat, top : Nat]

Answers ==
  [kind : {"none", "unstable", "over_budget"}] \cup
  [kind : {"ok"}, field : Nat, error : Nat, converged : BOOLEAN]

TypeOK ==
  /\ geo \in Geometries /\ valid \in BOOLEAN /\ budgeted \in BOOLEAN
  /\ late \in BOOLEAN
  /\ pc \in {"entry", "poll", "panel", "swept", "judge", "done"}
  /\ sizing \in [n_start : Nat, n_phi : Nat, m_max : Nat, resolved : BOOLEAN]
  /\ n_fine \in Nat /\ pos \in 0..n_fine
  /\ coarse \in Leg /\ sweep \in Leg
  /\ refinements \in Nat /\ converged \in BOOLEAN
  /\ evaluations \in Nat /\ overrun \in Nat
  /\ outcome \in Answers

Answered == outcome.kind = "ok"

(* An answer is the densest leg swept and has been compared with another   *)
(* one, and its error owns up to all that comparison and the top mode      *)
(* showed: also when the density was capped, where the loop once left      *)
(* without comparing and reported an error of zero.                        *)
EstimateIsMeasured ==
  Answered =>
    /\ coarse.n > 0 /\ sweep.n > coarse.n
    /\ outcome.field = sweep.total
    /\ outcome.error >= Distance(coarse.total, sweep.total) + sweep.top

(* The modes a sweep sums, the probe included, are told apart by the       *)
(* azimuthal samples: none folds onto another.                             *)
ProbeAliasFree ==
  sizing # NoSizing => 2 * (sizing.m_max + 1) < sizing.n_phi

(* converged is claimed only of an answer that two densities agree on, the *)
(* finer of which doubles the coarser unless the cap on the density stands *)
(* in the way, with the top mode -- which no other one folds onto -- within *)
(* its tolerance and every mode of the aperture sampled twice per turn.    *)
VerdictIsEarned ==
  Answered /\ outcome.converged =>
    /\ ProbeAliasFree
    /\ Agree(Distance(coarse.total, sweep.total), sweep.total, HankelRtol)
    /\ sweep.n >= 2 * coarse.n - 1 \/ sweep.n >= 2 * RadialMax
    /\ Agree(sweep.top, sweep.total, ModeRtol)
    /\ 50 * sizing.n_phi >= Bandwidth(geo)

(* The deadline stops a call within one stride of samples, over all its    *)
(* legs together, and only a call that has one.                            *)
OverrunBounded ==
  /\ overrun <= Stride
  /\ outcome.kind = "over_budget" => late /\ budgeted

(* However the comparisons turn out, the density passes twice the cap by   *)
(* one sample at most and the comparisons run out.                         *)
DensityBounded ==
  /\ n_fine <= 2 * RadialMax + 1
  /\ n_fine > 0 => n_fine % 2 = 1
  /\ refinements <= MaxRefinements

(* Twice as many at each step, from one: 2^k.                              *)
Doubled[k \in Nat] == IF k = 0 THEN 1 ELSE 2 * Doubled[k - 1]

(* Refinement costs at most what doubling the density MaxRefinements times *)
(* does: running out of refinements is an answer, not a search without end. *)
CostBounded ==
  evaluations <= (Doubled[MaxRefinements + 1] - 1) * Work(sizing.n_start)

(* A call's work is bounded twice: by the clock, if it has a deadline, and *)
(* by the density and the refinements, if it has none.                     *)
WorkBounded == OverrunBounded /\ DensityBounded /\ CostBounded
=============================================================================
