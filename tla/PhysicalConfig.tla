---------------------------- MODULE PhysicalConfig ----------------------------
(***************************************************************************)
(* The physical configuration of an antenna, and the three places that     *)
(* judge it between a configuration file and a gain: the design specs'     *)
(* own validation, the validation of an artifact, and the builders of the  *)
(* physics model, which run at every request.  They differ in two points:  *)
(* only the last looks at the quotient of the two lengths, where the       *)
(* others look at a ratio stated beside them, and only the last refuses a  *)
(* uniform feed pattern (q = 0).                                           *)
(*                                                                         *)
(* Numbers are finite.  Lengths are in one unit, ratios in thousandths, q  *)
(* and the asymmetry in tenths.  A solid reflector has no mesh.            *)
(***************************************************************************)
EXTENDS Integers

Meshes == [spacing : Int, wire : Int]
Dishes == [diameter : Int, focal : Int, ratio : Int, rms : Int, mesh : SUBSET Meshes]
Horns  == [q : Int, asym : Int, band : [lo : Int, hi : Int]]

FOverDMin  == 200
FOverDMax  == 1000
QFactorMax == 200

RatioSupported(dish) == FOverDMin <= dish.ratio /\ dish.ratio <= FOverDMax

MeshSound(mesh) == 0 < mesh.spacing /\ 0 < mesh.wire /\ mesh.wire < mesh.spacing

MeshesSound(dish) == \A mesh \in dish.mesh : MeshSound(mesh)

-----------------------------------------------------------------------------
(* Design specs in the antenna file. *)
DishAccepted(dish) ==
  /\ dish.diameter > 0 /\ dish.focal > 0 /\ dish.rms >= 0
  /\ RatioSupported(dish)
  /\ MeshesSound(dish)

(* Mutant: the asymmetry is left to the artifact. *)
HornAcceptedLax(horn) ==
  /\ 0 <= horn.q /\ horn.q <= QFactorMax
  /\ 0 < horn.band.lo /\ horn.band.lo < horn.band.hi

HornAccepted(horn) ==
  /\ 0 <= horn.q /\ horn.q <= QFactorMax
  /\ horn.asym > 0
  /\ 0 < horn.band.lo /\ horn.band.lo < horn.band.hi

-----------------------------------------------------------------------------
(* An artifact, whether it was read or built from design specs: the ratio  *)
(* is within one per cent of the quotient.                                 *)
RatioConsistent(dish) ==
  LET off == dish.ratio * dish.diameter - 1000 * dish.focal
  IN  100 * off <= 1000 * dish.focal /\ -100 * off <= 1000 * dish.focal

DishValid(dish) == DishAccepted(dish) /\ RatioConsistent(dish)

HornValid(horn) ==
  /\ 0 <= horn.q /\ horn.q <= QFactorMax
  /\ horn.asym > 0
  /\ horn.band.lo <= horn.band.hi

ArtifactValid(dish, horn) == DishValid(dish) /\ HornValid(horn)

-----------------------------------------------------------------------------
(* The builders of the physics model.                                      *)
QuotientSupported(dish) ==
  /\ FOverDMin * dish.diameter <= 1000 * dish.focal
  /\ 1000 * dish.focal <= FOverDMax * dish.diameter

ReflectorBuilds(dish) ==
  /\ dish.diameter > 0 /\ dish.focal > 0 /\ dish.rms >= 0
  /\ QuotientSupported(dish)

FeedBuilds(horn) == horn.q > 0 /\ horn.asym > 0

(* PreparedServedGain: what every request for the feed begins with. *)
Prepares(dish, horn) == ReflectorBuilds(dish) /\ FeedBuilds(horn) /\ MeshesSound(dish)

(* What an artifact may be and a request cannot use: a quotient within one *)
(* per cent of the supported ones, or a uniform pattern.                   *)
Marginal(dish, horn) ==
  \/ horn.q = 0
  \/ /\ ~QuotientSupported(dish)
     /\ 20 * dish.diameter <= 101 * dish.focal
     /\ 99 * dish.focal <= 100 * dish.diameter
=============================================================================
