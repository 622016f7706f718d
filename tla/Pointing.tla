------------------------------- MODULE Pointing -------------------------------
(***************************************************************************)
(* From positions to antenna frame (antenna-core, model/coordinates_3d.rs): *)
(* the frame of a vehicle that points its reflector at a boresight, what   *)
(* the transform refuses, the clock angle of a target, and the side of the *)
(* axis to which a feed is moved to steer its beam to an aim.              *)
(*                                                                         *)
(* Positions are lattice vectors, ECEF, in thousands of kilometres, whose  *)
(* differences doubles represent exactly.  Axes are not normalised, and of *)
(* a clock angle only its compass is kept, the signs of the two lateral    *)
(* coordinates: <<1, 0>> is azimuth 0, <<1, 1>> is between 0 and 90.       *)
(***************************************************************************)
EXTENDS Integers

CONSTANT
  Residue  (* the compass that rounding leaves of the boresight itself, by frame *)

Vectors     == Int \X Int \X Int
Quaternions == Int \X Int \X Int \X Int  (* w, x, y, z, to be normalised   *)
Compasses   == (-1..1) \X (-1..1)

(* attitude: at most one, from body to ECEF, body Z along the boresight.   *)
Poses ==
  [vehicle : Vectors, boresight : Vectors, aim : Vectors, emitter : Vectors,
   attitude : {opt \in SUBSET Quaternions : \A p, q \in opt : p = q}]

(* The transform of the boresight has zero lateral coordinates but for     *)
(* rounding, which leaves anything of a few nanometres; the frames for     *)
(* which it leaves one coordinate at exactly zero are enough here.         *)
ASSUME PointingAssumption ==
  \A frame \in DOMAIN Residue :
    Residue[frame] \in {<<1, 0>>, <<0, 1>>, <<-1, 0>>, <<0, -1>>}

Minus(a, b) == <<a[1] - b[1], a[2] - b[2], a[3] - b[3]>>
Scale(k, a) == <<k * a[1], k * a[2], k * a[3]>>
Dot(a, b)   == a[1] * b[1] + a[2] * b[2] + a[3] * b[3]
Cross(a, b) ==
  <<a[2] * b[3] - a[3] * b[2], a[3] * b[1] - a[1] * b[3], a[1] * b[2] - a[2] * b[1]>>
Zero        == <<0, 0, 0>>
Sign(n)     == IF n > 0 THEN 1 ELSE IF n < 0 THEN -1 ELSE 0
-----------------------------------------------------------------------------
(* The frame: Z towards the boresight, Y completes the right hand.         *)
AxisZ(pose) == Minus(pose.boresight, pose.vehicle)

(* quaternion_rotate of (1, 0, 0). *)
BodyX(q) ==
  <<q[1] * q[1] + q[2] * q[2] - q[3] * q[3] - q[4] * q[4],
    2 * (q[2] * q[3] + q[1] * q[4]), 2 * (q[2] * q[4] - q[1] * q[3])>>

(* Earth's axis, or where the boresight is within 8 degrees of it, "East". *)
Reference(z) ==
  IF 10000 * z[3] * z[3] < 9801 * Dot(z, z) THEN <<0, 0, 1>> ELSE <<0, 1, 0>>

(* With an attitude, body X projected onto the plane across the boresight. *)
AxisX(pose) ==
  LET z == AxisZ(pose)
  IN  IF pose.attitude = {} THEN Cross(Reference(z), z)
      ELSE LET b == BodyX(CHOOSE q \in pose.attitude : TRUE)
           IN  Minus(Scale(Dot(z, z), b), Scale(Dot(b, z), z))

AxisY(pose) == Cross(AxisZ(pose), AxisX(pose))

(* position_to_ecef refuses what is farther from the Earth's centre than   *)
(* its radius and the greatest altitude make, 406378 km; the validator,    *)
(* which bounds each coordinate alone, lets it pass.                       *)
MaxEcefSquared   == 165143
TooFar(position) == Dot(position, position) > MaxEcefSquared

(* No frame: the boresight at the vehicle, or no direction across it.      *)
Frameless(pose) == AxisZ(pose) = Zero \/ AxisX(pose) = Zero

(* What is refused, in the order of the checks; a target at the vehicle    *)
(* itself is found last, and is not the client's error.                    *)
Fault3D(pose, target) ==
  IF (\E p \in {target, pose.vehicle, pose.boresight} : TooFar(p)) \/ Frameless(pose)
  THEN "invalid_coordinate"
  ELSE IF target = pose.vehicle THEN "internal_error" ELSE "none"

(* The compass of a target, and what the program computes for it.          *)
Compass(pose, target) ==
  LET t == Minus(target, pose.vehicle)
  IN  <<Sign(Dot(t, AxisX(pose))), Sign(Dot(t, AxisY(pose)))>>

OnAxis(pose, target) == Compass(pose, target) = <<0, 0>>

Clock(pose, target) ==
  IF OnAxis(pose, target) THEN Residue[<<AxisZ(pose), pose.attitude>>]
  ELSE Compass(pose, target)
-----------------------------------------------------------------------------
(* The clock angle c less the clock angle r, a multiple of ninety degrees. *)
TurnedBack(c, r) == <<c[1] * r[1] + c[2] * r[2], c[2] * r[1] - c[1] * r[2]>>

Opposite(c) == <<-c[1], -c[2]>>

Centred == <<0, 0>>

(* compute_feed_position_from_pointing: the difference of two azimuths, of *)
(* the aim and of the boresight; a beam is steered away from its feed.     *)
Steering(pose) ==
  IF OnAxis(pose, pose.aim) THEN Centred
  ELSE Opposite(TurnedBack(Clock(pose, pose.aim), Clock(pose, pose.boresight)))
=============================================================================
