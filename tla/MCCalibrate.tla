----------------------------- MODULE MCCalibrate -----------------------------
(* Command lines and measurement files for Calibrate: grids that are fitted *)
(* whole, refused or validated in parts, sweeps that can be corrected or    *)
(* not, design data that is sound or not.                                   *)
EXTENDS Calibrate

CONSTANT Clocks   (* clock angles of the larger grids *)

NewRow(clock, cone, freq) == [clock |-> clock, cone |-> cone, freq |-> freq, readable |-> TRUE]

(* Clock varies fastest. *)
GridOf(clocks, cones, freqs) ==
  LET nk == Len(clocks)
      nc == Len(cones)
  IN  [i \in 1..(nk * nc * Len(freqs)) |->
         NewRow(clocks[1 + ((i - 1) % nk)], cones[1 + (((i - 1) \div nk) % nc)],
             freqs[1 + ((i - 1) \div (nk * nc))])]

Freqs == <<8000, 8200, 8400>>

Whole     == GridOf(Clocks, <<0, 5, 10>>, Freqs)
Signed    == GridOf(Clocks, <<-90, 5, 20>>, Freqs)
               \o <<NewRow(400, 5, 8000), [NewRow(0, 5, 8000) EXCEPT !.readable = FALSE]>>
(* Enough points, none of them far out in both angles. *)
Bent      == SelectSeq(GridOf(Clocks, <<0, 2, 5, 10, 15>>, Freqs),
                       LAMBDA r : r.clock <= Clocks[2] \/ r.cone <= 2)
Exact     == GridOf(<<0, 90, 180>>, <<0, 2, 6>>, <<8000, 8200, 8300, 8400>>)
Few       == GridOf(<<0, 90>>, <<0, 5>>, <<8000, 8400>>)
NarrowRow == GridOf(<<0, 90, 180, 270>>, <<0, 5, 10, 15, 20, 25, 30>>, <<8000>>)
NoneUsable == <<NewRow(0, 95, 8000), NewRow(0, 5, 0)>>

Sweep(freqs) == GridOf(<<0>>, <<0>>, freqs)
Sweeps == {Sweep(<<8000, 8100, 8200, 8300>>), Sweep(<<8000, 8010, 8020, 8100, 8250, 8300>>),
           Sweep(<<8000, 8100, 8100, 8300>>),
           Sweep(<<8000, 8100>>), <<>>,
           Sweep(<<8000, 8100>>) \o <<[NewRow(0, 0, 8200) EXCEPT !.readable = FALSE]>>}

Mesh == [known |-> TRUE, rms |-> 10, q |-> 80, spacing |-> 100, wire |-> 20,
           asym |-> 1, position |-> 0]
Solid  == [Mesh EXCEPT !.spacing = 0]

Base == [mode |-> "full", validate |-> FALSE, folds |-> 5, tune |-> FALSE,
         tuning |-> "surface-only", metadata |-> FALSE, report |-> FALSE,
         feed_id |-> TRUE, specs |-> TRUE, rows |-> Whole, design |-> Mesh]

(* Files and folds of full mode. *)
GridJobs ==
  {[Base EXCEPT !.rows = r, !.validate = v, !.folds = f, !.metadata = m, !.report = p] :
     r \in {Whole, Signed, Exact}, v, m, p \in BOOLEAN, f \in {1, 3, 4, 5, 37}}
  \cup {[Base EXCEPT !.rows = r] : r \in {Bent, Few, NarrowRow, NoneUsable, <<>>}}

(* Tuning and design data of full mode. *)
TuneJobs ==
  {[Base EXCEPT !.tune = t, !.tuning = u, !.design = d] :
     t \in BOOLEAN, u \in {"surface-only", "surface-and-mesh", "all", "other"},
     d \in {Mesh, [Mesh EXCEPT !.q = 250], [Mesh EXCEPT !.q = 0],
            [Mesh EXCEPT !.wire = 100], [Mesh EXCEPT !.known = FALSE],
            [Mesh EXCEPT !.position = 1]}}

BoresightJobs ==
  {[Base EXCEPT !.mode = "boresight", !.rows = r, !.design = d] :
     r \in Sweeps,
     d \in {Solid, [Solid EXCEPT !.q = 160], [Solid EXCEPT !.position = 1],
            [Solid EXCEPT !.q = 310], [Solid EXCEPT !.known = FALSE]}}
  \cup {[Base EXCEPT !.mode = "boresight", !.rows = Sweep(<<8000, 8100>>),
                     !.design.wire = w, !.metadata = TRUE, !.report = TRUE] : w \in {20, 40}}
  \cup {[Base EXCEPT !.mode = "boresight", !.feed_id = f, !.specs = s] : f, s \in BOOLEAN}

MCJobs == GridJobs \cup TuneJobs \cup BoresightJobs \cup {[Base EXCEPT !.mode = "other"]}

(* Accurate; inaccurate at boresight; at the borders of the lobes, far and *)
(* slight; and far from boresight.                                         *)
Off(cones, db) == [cone \in 0..90 |-> IF cone \in cones THEN db ELSE 0]
MCErrors     == {Off({}, 0), Off({0}, 4), Off({2, 5}, 4), Off({2, 5}, 2), Off({20, 90}, 4)}

MCNumKnots   == [clock |-> 1, cone |-> 1, freq |-> 2]
MCMinSpacing == [clock |-> 10, cone |-> 2, freq |-> 50]
MCClocks     == <<0, 90, 180, 270>>
FullTurn     == <<180, 240, 300, 360>>
=============================================================================
