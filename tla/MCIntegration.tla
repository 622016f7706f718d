---------------------------- MODULE MCIntegration ----------------------------
(* The sizes are those of the code; the geometries are a feed at the focus *)
(* of a small and of an electrically huge dish, an elliptical feed, beam   *)
(* steers by 0.09 and 0.4 of the focal length, a feed beyond the scope of  *)
(* physical optics, and an elliptical feed at the density cap.              *)
EXTENDS Integration

At(dl, off, ax, rof, asym, theta) ==
  [dl |-> dl, off |-> off, ax |-> ax, rof |-> rof, asym |-> asym, theta |-> theta]

MCGeometries ==
  { At(20, 0, 0, 70, FALSE, 0),      At(20000, 0, 0, 100, FALSE, 90),
    At(40, 0, 2, 70, TRUE, 30),      At(400, 9, 0, 70, FALSE, 0),
    At(400, 9, 5, 125, FALSE, 30),   At(400, 60, 0, 70, FALSE, 30),
    At(6000, 40, 0, 70, FALSE, 180), At(20000, 0, 0, 100, TRUE, 90) }
=============================================================================
