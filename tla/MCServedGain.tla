----------------------------- MODULE MCServedGain -----------------------------
(* A dish of a metre's focal length and two metres across, at 8 and 9 GHz. *)
EXTENDS ServedGain

Grid == [cone |-> 200000, low |-> 79000, high |-> 81000]
Wide == [cone |-> 300000, low |-> 79000, high |-> 81000]

Calibrated(status, surface, coverage) ==
  [status |-> status, surface |-> surface, coverage |-> coverage]

(* Design data only; boresight sweeps without and with a correction; a     *)
(* grid; and an artifact of the time before the status was recorded.       *)
MCArtifacts ==
  { Calibrated("uncalibrated", {}, {}), Calibrated("partial", {}, {Grid}),
    Calibrated("partial", {Wide}, {Grid}), Calibrated("full", {Wide}, {Grid}),
    Calibrated("none", {}, {}) }

Feed(lateral) == [lateral |-> lateral, axial |-> 0]

At(cone, lateral, freq, pointing, reference) ==
  [cone |-> cone, feed |-> Feed(lateral), freq |-> freq, pointing |-> pointing,
   reference |-> reference]

(* Boresight, the grid's edge and beyond; the two sides of ninety degrees  *)
(* within a cell, the two sides of 0.3 and of 0.5 focal lengths within a   *)
(* cell, and behind a steered feed.                                        *)
Plain ==
  { At(0, 0, 80000, 80000, TRUE),          At(200000, 0, 80000, 80000, FALSE),
    At(200001, 0, 90000, 90000, TRUE),     At(200000, 0, 90000, 90000, FALSE),
    At(900000, 0, 80000, 80000, TRUE),     At(900001, 0, 80000, 80000, TRUE),
    At(100000, 1200, 80000, 80000, TRUE),  At(100000, 1201, 80000, 80000, TRUE),
    At(100000, 2000, 80000, 80000, TRUE),  At(100000, 2001, 80000, 80000, TRUE),
    At(1700000, 2001, 80000, 80000, FALSE) }

(* A feed pointed for another frequency: the direction asked for is not    *)
(* the one evaluated.                                                      *)
Squinting ==
  { At(150000, 800, 80000, 84000, TRUE),
    At(Squinted(150000, 80000, 84000, Feed(800)), 800, 80000, 80000, FALSE) }

MCRequests    == Plain \cup Squinting
BehindSquint  == {At(1700000, 800, 80000, 84000, FALSE)} \cup Squinting

(* The integrations of the ninety degree cell's forward side, of a         *)
(* direction at the grid's edge, and of the anchor of the steered feed.    *)
MCUnconverged ==
  { <<Feed(0), 80000, 900000>>, <<Feed(0), 90000, 200000>>,
    <<Feed(2001), 80000, 0>> }
=============================================================================
