------------------------------ MODULE Calibrate ------------------------------
(***************************************************************************)
(* One run of the calibrate command: from the measurement file and the     *)
(* antenna's design data to the artifact the service loads, and its        *)
(* sidecars.  Two pipelines share the artifact and its writer: "full"      *)
(* (class, optional tuning, correction surface over a grid) and            *)
(* "boresight" (design specification, tuning, frequency correction).       *)
(*                                                                         *)
(* A physical model is the record of what a gain is computed from.  Gains  *)
(* are not computed: what the optimizer returns, whether residuals are     *)
(* large and whether a computation succeeds are choices.  Lengths are in   *)
(* units in which every nominal value is divisible by 10.                  *)
(***************************************************************************)
EXTENDS CalibrationReport

CONSTANTS
  Jobs,      (* command lines with the files they name                      *)
  None,      (* no cross-validation, no model                               *)
  Errors     (* what a fit may leave of errors, in dB, by cone angle        *)

(* A row of a measurement file, the nominal values of a feed.             *)
Row    == [clock : Int, cone : Int, freq : Int, readable : BOOLEAN]
Design == [known : BOOLEAN, rms : Nat, q : Nat, spacing : Nat, wire : Nat,
           asym : Nat, position : Nat]

ASSUME JobsAssumption ==
  \A j \in Jobs :
    /\ {j.validate, j.tune, j.metadata, j.report, j.feed_id, j.specs} \subseteq BOOLEAN
    /\ j.folds \in Nat
    /\ j.rows \in Seq(Row)
    /\ j.design \in Design
    /\ j.design.rms > 0 /\ j.design.rms % 10 = 0 /\ j.design.q % 10 = 0

ASSUME ErrorsAssumption == Errors \subseteq [0..90 -> Nat]

(* None is no cross-validation result.                                     *)
ASSUME NoneAssumption ==
  None \notin [n : Nat, scored : SUBSET [fold : Nat, points : Nat, outside : Nat],
               failed : SUBSET [fold : Nat, training : Nat]]

VARIABLES
  job,       (* Args, the measurement file's rows, the design data          *)
  pc,        (* the step that is next, "done" or "refused"                  *)
  stage,     (* the step that refused, "" if none did                       *)
  points,    (* measurements after parsing                                  *)
  first,     (* boresight: the model of tuning pass 1                       *)
  fitted,    (* the model whose residuals are corrected or reported         *)
  surface,   (* {} or the correction; its slab is the model it corrects     *)
  cv,        (* the cross-validation result the surface carries             *)
  report,    (* {} or the validation report                                 *)
  artifact,  (* {} or the calibration that was built                        *)
  disk       (* output files: "old" (as before the run), "torn" or "new"    *)

vars == <<job, pc, stage, points, first, fitted, surface, cv, report, artifact, disk>>

Outputs == {"artifact", "metadata", "report"}

-----------------------------------------------------------------------------
(* Measurements. *)
RowValid(row) ==
  /\ row.readable
  /\ 0 <= row.clock /\ row.clock <= 360
  /\ -90 <= row.cone /\ row.cone <= 90
  /\ 0 < row.freq /\ row.freq <= 100000

(* Mutant: a negative cone is clamped, not reflected. *)
ToPolarClamped(row) ==
  [clock |-> row.clock, cone |-> IF row.cone >= 0 THEN row.cone ELSE 0, freq |-> row.freq]

(* Mutant: the reflected clock angle is not wrapped. *)
ToPolarUnwrapped(row) ==
  IF row.cone >= 0
  THEN [clock |-> row.clock, cone |-> row.cone, freq |-> row.freq]
  ELSE [clock |-> row.clock + 180, cone |-> -row.cone, freq |-> row.freq]

ToPolar(row) ==
  IF row.cone >= 0
  THEN [clock |-> row.clock, cone |-> row.cone, freq |-> row.freq]
  ELSE [clock |-> (row.clock + 180) % 360, cone |-> -row.cone, freq |-> row.freq]

OnBoresight(row) == [clock |-> 0, cone |-> 0, freq |-> row.freq]

-----------------------------------------------------------------------------
(* Design data: an antenna class (full) or a feed of a design              *)
(* specification (boresight).  spacing 0 stands for a solid reflector.     *)
MeshSound(m) == 0 < m.wire /\ m.wire < m.spacing

ClassValid(d) == d.rms >= 0 /\ d.q >= 0 /\ d.asym > 0 /\ MeshSound(d)

SpecsValid(d) ==
  /\ d.rms >= 0
  /\ 10 <= d.q /\ d.q <= 300       (* q is in tenths *)
  /\ d.asym > 0
  /\ d.spacing = 0 \/ MeshSound(d)

(* Calibration puts the feed at the focus, whatever its design offset.     *)
WithParameters(d, gates, r, q, s, w) ==
  [rms |-> r, q |-> q, spacing |-> s, wire |-> w,
   asym |-> d.asym, position |-> 0, gates |-> gates]

Nominal(d, gates) == WithParameters(d, gates, d.rms, d.q, d.spacing, d.wire)

Buildable(m) == m.q > 0 /\ m.asym > 0 /\ (m.spacing = 0 \/ MeshSound(m))

(* The ends of a search bracket and the nominal value stand for it.        *)
Bracket(n) == {n \div 5, n, n * 5}

SpacingProbes(d, tuning) ==
  IF tuning \in {"surface-and-mesh", "all"} THEN Bracket(d.spacing) ELSE {d.spacing}

WireProbes(d, tuning) == IF tuning = "all" THEN Bracket(d.wire) ELSE {d.wire}

ClassProbes(d, gates, tuning) ==
  {WithParameters(d, gates, r, d.q, s, w) :
     r \in Bracket(d.rms), s \in SpacingProbes(d, tuning), w \in WireProbes(d, tuning)}

HalfToDouble(n) == {n \div 2, n, n * 2}

SpecsProbes(d, gates) ==
  {WithParameters(d, gates, r, q, s, w) :
     r \in {3 * (d.rms \div 10), d.rms, d.rms * 3},
     q \in HalfToDouble(d.q),
     s \in HalfToDouble(d.spacing),
     w \in HalfToDouble(d.wire)}

-----------------------------------------------------------------------------
Init ==
  /\ job \in Jobs
  /\ pc = "start" /\ stage = ""
  /\ points = <<>>
  /\ first = None /\ fitted = None /\ cv = None
  /\ surface = {} /\ report = {} /\ artifact = {}
  /\ disk = [o \in Outputs |-> "old"]

(* Every error is propagated to main, which exits with status 1.           *)
Refuse ==
  /\ pc' = "refused" /\ stage' = pc
  /\ UNCHANGED <<job, points, first, fitted, surface, cv, report, artifact, disk>>

Goto(step) == pc' = step /\ stage' = stage

(* main: an unknown mode exits; boresight mode needs two more options.     *)
Dispatch ==
  /\ pc = "start"
  /\ IF \/ job.mode \notin {"full", "boresight"}
        \/ job.mode = "boresight" /\ ~(job.feed_id /\ job.specs)
     THEN Refuse
     ELSE /\ Goto(IF job.mode = "full" THEN "parse" ELSE "specs")
          /\ UNCHANGED <<job, points, first, fitted, surface, cv, report, artifact, disk>>

-----------------------------------------------------------------------------
(* Full mode. *)

(* parse_csv_content: unusable rows are dropped, the others are reflected  *)
(* onto the polar convention.                                              *)
Parse ==
  /\ pc = "parse"
  /\ LET kept == Only({row \in ToSet(job.rows) : RowValid(row)}, job.rows)
     IN  IF kept = <<>> THEN Refuse
         ELSE /\ points' = [i \in DOMAIN kept |-> ToPolar(kept[i])]
              /\ Goto("class")
              /\ UNCHANGED <<job, first, fitted, surface, cv, report, artifact, disk>>

(* The registry refuses the file for any invalid class.                    *)
LoadClass ==
  /\ pc = "class"
  /\ IF ~(ClassValid(job.design) /\ job.design.known) THEN Refuse
     ELSE /\ fitted' = Nominal(job.design, FALSE)
          /\ Goto(IF job.tune THEN "tune" ELSE "predict")
          /\ UNCHANGED <<job, points, first, surface, cv, report, artifact, disk>>

(* tune_parameters: a failing computation and a value out of bounds are    *)
(* penalized, but a mesh that cannot be built ends the run.                *)
TuneClass ==
  /\ pc = "tune"
  /\ LET probes == ClassProbes(job.design, FALSE, job.tuning)
     IN  \/ \E m \in probes :
              /\ Buildable(m)
              /\ fitted' = m
              /\ Goto("predict")
              /\ UNCHANGED <<job, points, first, surface, cv, report, artifact, disk>>
         \/ (\E m \in probes : ~Buildable(m)) /\ Refuse

(* compute_model_predictions: one failing point fails the run.             *)
Predict ==
  /\ pc = "predict"
  /\ \/ /\ Buildable(fitted)
        /\ Goto("fit")
        /\ UNCHANGED <<job, points, first, fitted, surface, cv, report, artifact, disk>>
     \/ Refuse

WantedFolds == IF job.validate THEN job.folds ELSE 0

(* fit_correction_surface up to its cross-validation.                      *)
Fit ==
  /\ pc = "fit"
  /\ \/ /\ FitRefusal(points, DOMAIN points) = "none"
        /\ surface' = {[axes |-> FittedAxes(points, DOMAIN points), order |-> SplineOrder,
                        slab |-> fitted]}
        /\ Goto(IF WantedFolds > 1 THEN "folds" ELSE "assess")
        /\ UNCHANGED <<job, points, first, fitted, cv, report, artifact, disk>>
     \/ Refuse   (* too few points, a narrow axis, ... or a singular system *)

(* cross_validate.                                                         *)
StartFolds ==
  /\ pc = "folds"
  /\ IF WantedFolds > Len(points) THEN Refuse
     ELSE /\ cv' = [n |-> WantedFolds, scored |-> {}, failed |-> {}]
          /\ Goto("score")
          /\ UNCHANGED <<job, points, first, fitted, surface, report, artifact, disk>>

(* score_fold for the next fold: one that cannot be refitted is recorded.  *)
NextFold == Cardinality(cv.scored) + Cardinality(cv.failed)

ScoreFold ==
  /\ pc = "score"
  /\ NextFold < cv.n
  /\ LET scored == ScoredFold(points, NextFold, cv.n)
         failed == FailedFold(points, NextFold, cv.n)
     IN  \/ /\ FitRefusal(points, Training(points, NextFold, cv.n)) = "none"
            /\ cv' = [cv EXCEPT !.scored = @ \cup {scored}]
            /\ UNCHANGED <<job, pc, stage, points, first, fitted, surface, report, artifact, disk>>
         \/ /\ cv' = [cv EXCEPT !.failed = @ \cup {failed}]
            /\ UNCHANGED <<job, pc, stage, points, first, fitted, surface, report, artifact, disk>>

(* from_fold_results.                                                      *)
CollectFolds ==
  /\ pc = "score"
  /\ NextFold = cv.n
  /\ IF ~FoldsComplete(cv.scored, cv.failed) THEN Refuse
     ELSE /\ Goto("assess")
          /\ UNCHANGED <<job, points, first, fitted, surface, cv, report, artifact, disk>>

(* validate_calibration reports the fit's own cross-validation, and        *)
(* refuses one over another number of folds.  Error figures are reported,  *)
(* never enforced.                                                         *)
Assess ==
  /\ pc = "assess"
  /\ IF WantedFolds > 1 /\ (cv = None \/ NextFold # WantedFolds) THEN Refuse
     ELSE /\ \E errors \in Errors, s \in surface :
               report' = {Report(points, [i \in DOMAIN points |-> errors[points[i].cone]], s.axes,
                                 IF WantedFolds > 1 THEN cv ELSE None)}
          /\ Goto("build")
          /\ UNCHANGED <<job, points, first, fitted, surface, cv, artifact, disk>>

-----------------------------------------------------------------------------
(* Boresight mode. *)
LoadSpecs ==
  /\ pc = "specs"
  /\ IF ~SpecsValid(job.design) THEN Refuse
     ELSE /\ Goto("sweep")
          /\ UNCHANGED <<job, points, first, fitted, surface, cv, report, artifact, disk>>

(* BoresightMeasurements::from_csv: one unreadable row fails the file.     *)
ParseSweep ==
  /\ pc = "sweep"
  /\ IF job.rows = <<>> \/ (\E i \in DOMAIN job.rows : ~job.rows[i].readable) THEN Refuse
     ELSE /\ points' = [i \in DOMAIN job.rows |-> OnBoresight(job.rows[i])]
          /\ Goto("pass1")
          /\ UNCHANGED <<job, first, fitted, surface, cv, report, artifact, disk>>

(* tune_boresight_parameters: the feed must exist; out-of-bounds values    *)
(* are penalized, any other failure ends the run.                          *)
Tuned(gates) ==
  IF job.design.known THEN {m \in SpecsProbes(job.design, gates) : Buildable(m)} ELSE {}

(* Pass 1 tunes the model a correction-free artifact is served with.       *)
(* Residuals of at most 0.5 dB need no correction.                         *)
TunePass1 ==
  /\ pc = "pass1"
  /\ \/ \E m \in Tuned(TRUE), large \in BOOLEAN :
          /\ first' = m
          /\ fitted' = IF large THEN fitted ELSE m
          /\ Goto(IF large THEN "pass2" ELSE "build")
          /\ UNCHANGED <<job, points, surface, cv, report, artifact, disk>>
     \/ Refuse

(* frequency_correction::validate_inputs.                                  *)
SweepUsable ==
  /\ Len(points) >= 4
  /\ \A i \in 2..Len(points) : points[i - 1].freq < points[i].freq

(* frequency_axis: one control point for each sample of the sweep, interior *)
(* knots evenly spaced over the measured frequencies.                      *)
FrequencyAxis(freqs, order) ==
  LET n        == Len(freqs)
      interior == [i \in 1..(n - order) |-> freqs[1 + (i * (n - 1)) \div (n - order + 1)]]
  IN  ClampedAxis(Head(freqs), Last(freqs), interior)

(* BORESIGHT_SPLINE_ORDER *)
BoresightOrder == 3

(* The correction spans the whole sphere and varies with frequency only.   *)
FlatSurface(model) ==
  LET freqs == [i \in DOMAIN points |-> points[i].freq]
  IN  [axes  |-> [clock |-> FlatAxis(0, 360), cone |-> FlatAxis(0, 180),
                  freq |-> FrequencyAxis(freqs, BoresightOrder)],
       order |-> BoresightOrder, slab |-> model]

(* Mutant: without a correction, the parameters of pass 2 are kept. *)
WithoutCorrectionKeep(pass1, pass2) == pass2

WithoutCorrection(pass1, pass2) == pass1

(* Pass 2 tunes the model an artifact with a correction is served with,    *)
(* and corrects its residuals; if that fails, pass 1 stands.               *)
TunePass2 ==
  /\ pc = "pass2"
  /\ \/ \E m \in Tuned(FALSE) :
          /\ IF SweepUsable /\ LayoutValid(FlatSurface(m).axes, BoresightOrder)
             THEN fitted' = m /\ surface' = {FlatSurface(m)}
             ELSE fitted' = WithoutCorrection(first, m) /\ UNCHANGED surface
          /\ Goto("build")
          /\ UNCHANGED <<job, points, first, cv, report, artifact, disk>>
     \/ Refuse

-----------------------------------------------------------------------------
(* Both modes: the artifact and the output files. *)

(* What a sweep measured: the boresight, whatever the azimuth.  Its cone    *)
(* of 0.01 degree is rounded to 0.                                         *)
ConeCoverage ==
  [clock |-> [lo |-> 0, hi |-> 360], cone |-> [lo |-> 0, hi |-> 0],
   freq  |-> Extent({points[i].freq : i \in DOMAIN points})]

Coverage ==
  IF job.mode = "full" THEN MeasuredDomain(points, DOMAIN points) ELSE ConeCoverage

(* Kelvin: an interval around the one temperature measured, or a constant. *)
TemperatureAxis ==
  IF job.mode = "full" THEN FlatAxis(299, 301) ELSE FlatAxis(0, 1000)

Written(correction) == {ToModel4D(s, TemperatureAxis) : s \in correction}

SupportOf(wire) == [a \in Axes |-> Support(wire.knots[a], wire.order)]

(* Full mode stamps a feed at the focus, boresight mode the design offset. *)
(* The service applies the uncorrected-physics terms to an artifact        *)
(* without a surface, and to no other.  (The phase-centre offset, which no *)
(* gain depends on, is left out: full mode stamps 0 for it.)               *)
Stamped ==
  [rms |-> fitted.rms, q |-> fitted.q, spacing |-> fitted.spacing, wire |-> fitted.wire,
   asym |-> fitted.asym,
   position |-> IF job.mode = "full" THEN 0 ELSE job.design.position,
   gates |-> (surface = {})]

(* Only full mode records how fine a structure its surface can follow.     *)
Assessed ==
  {Resolution(s.axes, s.order) : s \in IF job.mode = "full" THEN surface ELSE {}}

(* AntennaCalibrationBuilder::build validates what it builds.              *)
ArtifactSound(a) ==
  /\ 0 <= a.model.q /\ a.model.q <= 200
  /\ a.model.asym > 0
  /\ a.model.spacing = 0 \/ MeshSound(a.model)
  /\ 0 <= a.coverage.cone.lo /\ a.coverage.cone.hi <= 90
  /\ \A wire \in a.surface : Model4DValid(wire) /\ DomainWithin(a.coverage, SupportOf(wire))
  /\ \A r \in a.resolution : r["clock"] > 0 /\ r["cone"] > 0

Build ==
  /\ pc = "build"
  /\ LET built == [model |-> Stamped, coverage |-> Coverage,
                   surface |-> Written(surface), resolution |-> Assessed]
     IN  IF ~ArtifactSound(built) THEN Refuse
         ELSE /\ artifact' = {built}
              /\ Goto("export")
              /\ UNCHANGED <<job, points, first, fitted, surface, cv, report, disk>>

(* Boresight mode writes no report.                                        *)
Requested(o) ==
  CASE o = "artifact" -> TRUE
    [] o = "metadata" -> job.metadata
    [] o = "report"   -> job.report /\ job.mode = "full"

(* Mutant: the sidecars are written first. *)
ExportOrderSidecarsFirst == [artifact |-> 3, metadata |-> 1, report |-> 2]

ExportOrder == [artifact |-> 1, metadata |-> 2, report |-> 3]

Pending == {o \in Outputs : Requested(o) /\ disk[o] = "old"}

(* A file that cannot be opened keeps its content; one that cannot be      *)
(* written completely is left torn.                                        *)
Export(o) ==
  /\ pc = "export"
  /\ o \in Pending /\ \A p \in Pending : ExportOrder[o] <= ExportOrder[p]
  /\ \/ /\ disk' = [disk EXCEPT ![o] = "new"]
        /\ UNCHANGED <<pc, stage>>
     \/ /\ disk' \in {disk, [disk EXCEPT ![o] = "torn"]}
        /\ pc' = "refused" /\ stage' = pc
  /\ UNCHANGED <<job, points, first, fitted, surface, cv, report, artifact>>

Finish ==
  /\ pc = "export" /\ Pending = {}
  /\ Goto("done")
  /\ UNCHANGED <<job, points, first, fitted, surface, cv, report, artifact, disk>>

Next ==
  \/ Dispatch
  \/ Parse \/ LoadClass \/ TuneClass \/ Predict
  \/ Fit \/ StartFolds \/ ScoreFold \/ CollectFolds \/ Assess
  \/ LoadSpecs \/ ParseSweep \/ TunePass1 \/ TunePass2
  \/ Build \/ (\E o \in Outputs : Export(o)) \/ Finish

Spec == Init /\ [][Next]_vars

-----------------------------------------------------------------------------
(* Properties. *)
Models ==
  [rms : Nat, q : Nat, spacing : Nat, wire : Nat, asym : Nat, position : Nat, gates : BOOLEAN]

PolarPoints == [clock : 0..360, cone : 0..90, freq : Int]

Steps == {"start", "parse", "class", "tune", "predict", "fit", "folds", "score", "assess",
          "specs", "sweep", "pass1", "pass2", "build", "export"}

(* The variables have their types; in particular every measurement that is *)
(* fitted is in the polar convention of the served path.                   *)
CalibrateTypeOK ==
  /\ job \in Jobs
  /\ pc \in Steps \cup {"done", "refused"}
  /\ stage \in Steps \cup {""} /\ (stage = "") = (pc # "refused")
  /\ points \in Seq(PolarPoints)
  /\ {first, fitted} \subseteq Models \cup {None}
  /\ \A s \in surface : s.slab \in Models /\ LayoutValid(s.axes, s.order)
  /\ Cardinality(surface) <= 1 /\ Cardinality(artifact) <= 1
  /\ cv = None \/ cv.n \in 2..Len(points)
  /\ Cardinality(report) <= 1
  /\ disk \in [Outputs -> {"old", "torn", "new"}]

(* Wherever in the support one looks, a knot is within "gap", and no       *)
(* smaller figure has that property.                                       *)
ResolvesTo(knots, support, gap) ==
  LET Reaches(g) == \A v \in support.lo..support.hi - g : ToSet(knots) \cap v..v + g # {}
      Opens(g)   == \E v \in support.lo..support.hi - g : ToSet(knots) \cap v..v + g = {v, v + g}
  IN  Reaches(gap) /\ Opens(gap)

(* The service rebuilds the very model whose residuals the calibration     *)
(* corrected or reported; the correction it decodes is the one that was    *)
(* fitted, knot by knot, and resolves what the artifact says it does; and  *)
(* it is applied to the model it was fitted to -- for a feed that is       *)
(* designed to be at the focus.                                            *)
ModelServedAsFitted ==
  \A a \in artifact :
    /\ job.design.position = 0 => a.model = fitted
    /\ (a.surface = {}) = (surface = {})
    /\ \A s \in surface :
         /\ s.slab.gates = a.model.gates
         /\ job.design.position = 0 => s.slab = a.model

ServedAsFitted ==
  /\ ModelServedAsFitted
  /\ \A a \in artifact :
       /\ {FromModel4D(wire) : wire \in a.surface} = surface
       /\ \A r \in a.resolution, wire \in a.surface : \A axis \in DOMAIN r :
            ResolvesTo(wire.knots[axis], SupportOf(wire)[axis], r[axis])

(* The directions a row can be said to name.                               *)
Namings(row) ==
  {n \in [clock : {row.clock, (row.clock + 180) % 360}, cone : {row.cone, -row.cone},
          freq : {row.freq}] :
     \/ n.cone = row.cone /\ n.clock = row.clock
     \/ n.cone = -row.cone /\ n.clock # row.clock}

UsableRows == {i \in DOMAIN job.rows : RowValid(job.rows[i])}

(* Every measured clock angle was measured with every cone angle and       *)
(* every frequency, and there are more of each than the ends of its axis:  *)
(* between two ends alone a spline of higher order has coefficients that   *)
(* count at neither.                                                       *)
GridComplete ==
  LET values(axis) == Values(points, DOMAIN points, axis)
  IN  /\ ToSet(points) = [clock : values("clock"), cone : values("cone"), freq : values("freq")]
      /\ \A axis \in Axes : Cardinality(values(axis)) > 2

(* A full-mode artifact covers every usable measurement under one of its   *)
(* names, and no measurement was lost on the way to it.                    *)
RowsCovered ==
  \A a \in artifact :
    job.mode = "full" =>
      /\ Len(points) = Cardinality(UsableRows)
      /\ \A i \in UsableRows : \E n \in Namings(job.rows[i]) : Inside(n, a.coverage)

(* In either mode the artifact covers nothing its surface cannot evaluate, *)
(* and once it is served the surface is, wherever it was measured, an      *)
(* average of coefficients that exist, each counted once; after a complete *)
(* grid of full mode they all rest on measurements, none on the            *)
(* regularization.                                                         *)
SurfaceCovers ==
  \A a \in artifact : \A wire \in a.surface :
    LET served == FromModel4D(wire)
    IN  /\ DomainWithin(a.coverage, SupportOf(wire))
        /\ pc = "done" => \A i \in DOMAIN points : Averages(served.axes, served.order, points[i])
        /\ pc = "done" /\ job.mode = "full" /\ GridComplete =>
             Informed(served.axes, points, DOMAIN points) = 0..Coefficients(served.axes) - 1

(* What was measured is covered, and covered by what was measured.         *)
MeasuredIsCovered == RowsCovered /\ SurfaceCovers

(* As the service names a direction: cone not negative, clock in [0, 360). *)
ServedName(row) ==
  [clock |-> (IF row.cone < 0 THEN row.clock + 180 ELSE row.clock) % 360,
   cone  |-> IF row.cone < 0 THEN -row.cone ELSE row.cone,
   freq  |-> row.freq]

(* The comment on to_polar_convention: "This point in the polar            *)
(* convention: E-cone non-negative, E-clock in [0, 360)", so that a        *)
(* measured direction off the pole is one the artifact covers when served. *)
MeasuredIsServed ==
  job.mode = "full" =>
    \A a \in artifact, i \in UsableRows :
      job.rows[i].cone # 0 => Inside(ServedName(job.rows[i]), a.coverage)

(* Every measurement is scored by exactly one fold or belongs to a fold    *)
(* that is named as failed; the cross-validation figure exists only if     *)
(* every measurement was scored; the record of it in the report is read    *)
(* back, and the older form of that record still names the folds scored;   *)
(* and a fold that failed never withholds the artifact: past this point    *)
(* only an impossible number of folds does.                                *)
FoldsAccountForEveryPoint ==
  LET scoredPoints == PointsIn(cv.scored)
      failedPoints == PointsLeftOut(points, cv.failed)
  IN  /\ cv # None /\ pc \notin {"score", "refused"} =>
           /\ scoredPoints + failedPoints = Len(points)
           /\ HasFigure(cv.scored, cv.failed) <=> scoredPoints = Len(points)
           /\ LET record == ScoredRecord(cv.scored, cv.failed)
              IN  /\ RecordReadable(record) /\ LegacyReadable(record)
                  /\ LegacyScored(record) = {r.fold : r \in cv.scored}
      /\ stage \in {"score", "assess"} => FALSE
      /\ stage = "folds" => job.validate /\ job.folds > Len(points)

(* The report deals every measurement to one lobe and, short of 90 degrees *)
(* off boresight, to one angular region; it judges what is served, which   *)
(* is the correction wherever it was fitted; and it calls no calibration   *)
(* accurate that it lists an outlier of in the lobes it judges by.         *)
ReportCountsEveryPoint ==
  \A r \in report :
    LET beyond == {i \in DOMAIN points : points[i].cone > FirstSidelobeEnd}
        edge   == {i \in DOMAIN points : points[i].cone = 90}
    IN  /\ r.points = Cardinality(UsableRows) /\ r.unserved = 0
        /\ r.main + r.sidelobe + Cardinality(beyond) = r.points
        /\ PointsIn(r.regions) = r.points - Cardinality(edge)
        /\ r.accurate => \A o \in r.outliers : o.lobe = "Far Field"
        /\ r.folds = IF WantedFolds > 1 THEN cv ELSE None

EveryPointAccounted == FoldsAccountForEveryPoint /\ ReportCountsEveryPoint

(* "done" means that every file that was asked for was written whole; a    *)
(* sidecar on disk describes an artifact that is there; and a run refused  *)
(* before its first write left every file as it was.                       *)
OutcomeHonest ==
  /\ pc = "done" => \A o \in Outputs : disk[o] = IF Requested(o) THEN "new" ELSE "old"
  /\ \A o \in Outputs : disk[o] # "old" => artifact # {}
  /\ \A o \in Outputs \ {"artifact"} : disk[o] # "old" => disk["artifact"] = "new"
  /\ pc = "refused" /\ stage # "export" => \A o \in Outputs : disk[o] = "old"
=============================================================================
