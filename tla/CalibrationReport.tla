-------------------------- MODULE CalibrationReport --------------------------
(***************************************************************************)
(* The validation report of a full calibration: into which lobes, bands    *)
(* and regions it deals the measurements, which it lists as outliers, and  *)
(* whether it calls the calibration accurate.  No state: Calibrate uses    *)
(* these operators.                                                        *)
(*                                                                         *)
(* The error of each served prediction, in whole decibels, is given; mean  *)
(* errors and their comparison with the bare physics are left out.         *)
(***************************************************************************)
EXTENDS CorrectionFit

(* validation_config, as the command line sets it. *)
MainLobeEnd      == 2
FirstSidelobeEnd == 5
Target           == 1
OutlierThreshold == 3
FrequencyBands   == {}

(* classify_points_by_region: a point on a border belongs to the inner     *)
(* lobe.                                                                   *)
Lobe(p) ==
  CASE p.cone <= MainLobeEnd      -> "Main Lobe"
    [] p.cone \in (MainLobeEnd + 1)..FirstSidelobeEnd -> "First Sidelobe"
    [] OTHER                      -> "Far Field"

InLobe(pts, lobe) == {i \in DOMAIN pts : Lobe(pts[i]) = lobe}

(* compute_region_stats: no point, no error. *)
MaxError(errors, rows) == Max({errors[i] : i \in rows} \cup {0})

MeetsTarget(pts, errors, lobe) == MaxError(errors, InLobe(pts, lobe)) <= Target

(* identify_outliers. *)
OutlierRows(errors) == {i \in DOMAIN errors : errors[i] > OutlierThreshold}

(* analyze_by_frequency_band, analyze_by_angular_region: the upper end of  *)
(* an interval is not in it, and an interval without points is left out.   *)
Within(value, interval) == interval.lo <= value /\ value < interval.hi

Analysis(pts, axis, intervals) ==
  LET counted(r) == [interval |-> r,
                     points |-> Cardinality({i \in DOMAIN pts : Within(pts[i][axis], r)})]
  IN  {entry \in {counted(r) : r \in intervals} : entry.points > 0}

AngularRegions ==
  {[lo |-> 0, hi |-> 2], [lo |-> 2, hi |-> 5], [lo |-> 5, hi |-> 10],
   [lo |-> 10, hi |-> 20], [lo |-> 20, hi |-> 90]}

(* validate_calibration, for points that are there: served from a surface  *)
(* on these axes, and with the folds that are to be reported.              *)
Report(pts, errors, axes, folds) ==
  LET support == [a \in Axes |-> [lo |-> axes[a].lower, hi |-> axes[a].upper]]
  IN  [points    |-> Len(pts),
       unserved  |-> Cardinality({i \in DOMAIN pts : ~Inside(pts[i], support)}),
       main      |-> Cardinality(InLobe(pts, "Main Lobe")),
       sidelobe  |-> Cardinality(InLobe(pts, "First Sidelobe")),
       outliers  |-> {[row |-> i, lobe |-> Lobe(pts[i])] : i \in OutlierRows(errors)},
       bands     |-> Analysis(pts, "freq", FrequencyBands),
       regions   |-> Analysis(pts, "cone", AngularRegions),
       folds     |-> folds,
       accurate  |-> /\ MeetsTarget(pts, errors, "Main Lobe")
                     /\ MeetsTarget(pts, errors, "First Sidelobe")]
=============================================================================
