------------------------------- MODULE Pattern -------------------------------
(***************************************************************************)
(* What one evaluation of the physics model is made of (antenna-core,      *)
(* model/edge_cases.rs, pattern.rs and coordinates_3d.rs): which regime it *)
(* runs in, which terms its gain contains and what it warns of.            *)
(*                                                                         *)
(* A gain is not a number here but the account of the terms it is summed   *)
(* from.  Directions are polar angles in ten-thousandths of a degree, all  *)
(* in the plane of the feed's displacement; feed displacements are in      *)
(* quarters of a millimetre, frequencies in tenths of a megahertz.         *)
(***************************************************************************)
EXTENDS Integers, Sequences

CONSTANTS
  FocalLength, (* reflector.focal_length                                    *)
  EdgeAngle,   (* half the angle the dish subtends at the focus, in degrees *)
  NullsScale,  (* 3 x 1.6 x c / D: OFF_AXIS_FIRST_NULL_MULTIPLE nulls       *)
  Unconverged  (* integrations whose self-check fails: feed, freq, cone     *)

ASSUME DishAssumption ==
  /\ FocalLength \in Nat \ {0} /\ EdgeAngle \in 1..89 /\ NullsScale \in Nat

Broadside == 900000
Behind(cone) == cone > Broadside

AtFocus == [lateral |-> 0, axial |-> 0]

Square(x) == x * x
Absolute(x) == IF x < 0 THEN -x ELSE x
Lower(a, b) == IF a <= b THEN a ELSE b

When(holds, warning) == IF holds THEN <<warning>> ELSE <<>>

-----------------------------------------------------------------------------
(* Regimes of the feed: calculate_feed_offset, select_computation_mode.    *)

(* Displacement from the focus over the focal length is more than tenths/10 *)
Beyond(feed, tenths) ==
  100 * (Square(feed.lateral) + Square(feed.axial))
    > Square(tenths) * Square(FocalLength)

RayTracing(feed)         == Beyond(feed, 5)
SpilloverTrusted(feed)   == ~Beyond(feed, 3)

Displacement(feed) ==
  IF feed.axial = 0 THEN feed.lateral
  ELSE CHOOSE d \in 0..(feed.lateral + feed.axial) :
         LET s == Square(feed.lateral) + Square(feed.axial)
         IN  Square(d) <= s /\ s < Square(d + 1)

(* The cosine of an angle in degrees, in hundredths, by Bhaskara's formula. *)
Cosine(x) == (100 * (32400 - 4 * Square(x))) \div (32400 + Square(x))

(* estimate_spillover, for a feed of q = 1: the percentage of the power    *)
(* that misses a dish seen wider by the offset.                            *)
SpilloverFraction(feed) ==
  LET edge == (EdgeAngle * (FocalLength + 2 * Displacement(feed))) \div FocalLength
  IN  IF edge >= 90 THEN 100 ELSE Square(Cosine(edge)) \div 100

(* analyze_edge_cases: the warnings of a configuration, in their order.    *)
ConfigurationWarnings(feed) ==
  When(RayTracing(feed), "SevereFeedOffset")
  \o When(~RayTracing(feed) /\ ~SpilloverTrusted(feed), "FeedOffsetSpilloverUnmodeled")
  \o When(SpilloverFraction(feed) > 10, "SpilloverSignificant")

-----------------------------------------------------------------------------
(* One gain: compute_gain.  gates are apply_spillover and                  *)
(* apply_sidelobe_floor; a spillover applied is a set of one percentage.   *)

(* The whole rear hemisphere is the statistical floor, without integration. *)
FloorOnly(gates, cone) == gates.floor /\ Behind(cone)

(* Ray tracing is anchored by an integration on boresight.                 *)
IntegratedAt(feed, cone) == IF RayTracing(feed) THEN 0 ELSE cone

Converges(gates, feed, freq, cone) ==
  \/ FloorOnly(gates, cone)
  \/ <<feed, freq, IntegratedAt(feed, cone)>> \notin Unconverged

SpilloverApplied(gates, feed) ==
  IF gates.spillover /\ SpilloverTrusted(feed) THEN {SpilloverFraction(feed)} ELSE {}

(* The account of a gain: what it was evaluated for and what was added up. *)
Terms(gates, feed, freq, cone) ==
  IF FloorOnly(gates, cone)
  THEN [from |-> "floor", feed |-> feed, freq |-> freq, cone |-> cone,
        refined |-> FALSE, spillover |-> {}, floor |-> TRUE]
  ELSE [from |-> IF RayTracing(feed) THEN "rays" ELSE "aperture",
        feed |-> feed, freq |-> freq, cone |-> cone,
        refined   |-> ~RayTracing(feed) /\ cone > 57296,
        spillover |-> SpilloverApplied(gates, feed),
        floor     |-> gates.floor]

(* The warnings of a gain, in the order the evaluation pushes them.        *)
Warnings(gates, feed, freq, cone) ==
  ConfigurationWarnings(feed)
  \o When(RayTracing(feed) /\ ~FloorOnly(gates, cone), "RayTraceDegraded")
  \o When(~Converges(gates, feed, freq, cone), "NonConvergence")

-----------------------------------------------------------------------------
(* Beam squint: squint_corrected_direction, apply_beam_squint_correction.  *)

SquintApplies(freq, pointing, feed) ==
  LET apart == Absolute(pointing - freq)
  IN  apart > 1 /\ 1000 * apart >= pointing /\ feed.lateral > 0

(* The frequency shift over the pointing frequency, times the lateral      *)
(* displacement over the focal length, as an angle; 57296 is a tenth of a  *)
(* radian.                                                                 *)
Squint(freq, pointing, feed) ==
  (((573 * (freq - pointing)) \div (pointing \div 1000)) * feed.lateral)
    \div FocalLength

(* The direction's sine is shifted and taken back to a polar angle by asin, *)
(* which knows no angle beyond 90 degrees.  The shift of the sine is taken *)
(* for a shift of the angle.                                               *)
Squinted(cone, freq, pointing, feed) ==
  IF ~SquintApplies(freq, pointing, feed) THEN cone
  ELSE LET forward == IF Behind(cone) THEN 2 * Broadside - cone ELSE cone
       IN  Lower(Absolute(forward + Squint(freq, pointing, feed)), Broadside)

-----------------------------------------------------------------------------
(* Three first nulls off boresight, where the pattern stops being validated. *)
OffAxis(cone, freq) == cone > NullsScale \div (freq \div 10)
=============================================================================
