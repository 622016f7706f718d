---------------------------- MODULE CorrectionFit ----------------------------
(***************************************************************************)
(* The correction surface of full calibration, as far as a run can be      *)
(* refused or misreported by it: which axis gets which knots, what a fit   *)
(* demands of its points, over which domain it can be evaluated, and how   *)
(* cross-validation deals the points to its folds.  No state: Calibrate    *)
(* uses these operators.                                                   *)
(*                                                                         *)
(* Coefficients are abstracted away.  The normal equations can be solved   *)
(* or not; a fit that exists applies a correction inside its support and   *)
(* none outside.  Angles and frequencies are integers.                     *)
(***************************************************************************)
EXTENDS CorrectionSpline

CONSTANTS
  SplineOrder,   (* CorrectionSurfaceParams::spline_order                   *)
  NumKnots,      (* by axis: interior knots asked for                       *)
  MinSpacing     (* by axis: least distance of two knots, and least extent  *)

(* validate_fitting_inputs refuses other orders, and a spacing that could  *)
(* not keep a degenerate axis out.                                         *)
ASSUME FitAssumption ==
  /\ SplineOrder \in Nat /\ SplineOrder >= 2
  /\ NumKnots \in [Axes -> Nat]
  /\ MinSpacing \in [Axes -> Nat \ {0}]

Points   == [Axes -> Int]
Interval == [lo : Int, hi : Int]
Domains  == [Axes -> Interval]

-----------------------------------------------------------------------------
(* Domains.  A fit is given some of the measured points: "rows" is a set   *)
(* of indices into the sequence "pts".                                     *)
Values(pts, rows, axis) == {pts[i][axis] : i \in rows}

MeasuredDomain(pts, rows) == [axis \in Axes |-> Extent(Values(pts, rows, axis))]

Inside(p, domain) ==
  \A axis \in Axes : domain[axis].lo <= p[axis] /\ p[axis] <= domain[axis].hi

DomainWithin(inner, outer) ==
  \A axis \in Axes : outer[axis].lo <= inner[axis].lo /\ inner[axis].hi <= outer[axis].hi

-----------------------------------------------------------------------------
(* Knots.  Candidates are quantiles of the data, strictly inside its       *)
(* extent; a candidate too close to the last one kept is dropped.          *)
Quantile(pts, rows, axis, rank) ==
  CHOOSE v \in Values(pts, rows, axis) :
    /\ Cardinality({i \in rows : pts[i][axis] < v}) <= rank
    /\ rank < Cardinality({i \in rows : pts[i][axis] <= v})

Quantiles(pts, rows, axis) ==
  LET n    == Cardinality(rows)
      step == n \div (NumKnots[axis] + 1)
  IN [k \in 1..NumKnots[axis] |-> Quantile(pts, rows, axis, Min({k * step, n - 1}))]

(* The elements that are wanted, in their order. *)
Only(wanted, seq) ==
  FoldLeft(LAMBDA kept, e : IF e \in wanted THEN Append(kept, e) ELSE kept, <<>>, seq)

StrictlyInside(domain, axis, v) == domain[axis].lo < v /\ v < domain[axis].hi

Thin(knots, spacing) ==
  FoldLeft(LAMBDA kept, k : IF kept = <<>> \/ k - Last(kept) >= spacing
                              THEN Append(kept, k) ELSE kept,
           <<>>, knots)

InteriorKnots(pts, rows, axis) ==
  LET domain     == MeasuredDomain(pts, rows)
      candidates == Quantiles(pts, rows, axis)
      inside     == {v \in ToSet(candidates) : StrictlyInside(domain, axis, v)}
  IN  Thin(Only(inside, candidates), MinSpacing[axis])

(* Each axis is clamped to the measured domain.                            *)
FittedAxes(pts, rows) ==
  LET domain == MeasuredDomain(pts, rows)
  IN  [axis \in Axes |->
         ClampedAxis(domain[axis].lo, domain[axis].hi, InteriorKnots(pts, rows, axis))]

Coefficients(axes) ==
  LET n(axis) == CoefficientCount(axes[axis], SplineOrder)
  IN  n("clock") * n("cone") * n("freq")

(* assess_angular_resolution: the structure an axis can follow is no finer *)
(* than the widest gap between neighbouring knots.                         *)
WidestGap(knots) == Max({knots[i] - knots[i - 1] : i \in 2..Len(knots)})

Resolution(axes, order) ==
  [a \in {"clock", "cone"} |-> WidestGap(KnotVector(axes[a], order))]

-----------------------------------------------------------------------------
(* What fit_correction_surface refuses before it solves anything, in the   *)
(* order in which it looks.                                                *)
Refusals == {"none", "too_few_points", "narrow_axis", "invalid_layout", "underdetermined",
             "outside_layout"}

TooFew(rows) == Cardinality(rows) < (SplineOrder + 1) ^ 3

Narrow(pts, rows) ==
  LET domain == MeasuredDomain(pts, rows)
  IN  \E axis \in Axes : domain[axis].hi - domain[axis].lo < MinSpacing[axis]

(* Every point is within the support of the layout, when the equations are *)
(* set up and when the fit is judged by them.                              *)
Reached(axes, pts, rows) ==
  LET support == [a \in Axes |-> Support(KnotVector(axes[a], SplineOrder), SplineOrder)]
  IN  \A i \in rows : Inside(pts[i], support)

(* accumulate_normal_equations: the coefficients that some point bears on. *)
(* The others are zero by regularization alone.                            *)
Informed(axes, pts, rows) == UNION {Stencil(axes, SplineOrder, pts[i]) : i \in rows}

FitRefusal(pts, rows) ==
  IF TooFew(rows) THEN "too_few_points"
  ELSE IF Narrow(pts, rows) THEN "narrow_axis"
  ELSE LET axes == FittedAxes(pts, rows)
       IN  IF ~LayoutValid(axes, SplineOrder) THEN "invalid_layout"
           ELSE IF Cardinality(rows) < Coefficients(axes) THEN "underdetermined"
           ELSE IF ~Reached(axes, pts, rows) THEN "outside_layout"
           ELSE "none"

-----------------------------------------------------------------------------
(* Folds.  Fold f in 0..n-1 holds out every n-th point; it is trained on   *)
(* the others.  Results number folds from 1.                               *)

(* Mutant: contiguous slices, the last of which is dropped if n does not   *)
(* divide the number of points.                                            *)
IsHeldOutSliced(index, fold, num_folds, total) ==
  index \div (total \div num_folds) = fold

IsHeldOut(index, fold, num_folds, total) == index % num_folds = fold

HeldOut(pts, fold, n) == {i \in DOMAIN pts : IsHeldOut(i - 1, fold, n, Len(pts))}

Training(pts, fold, n) == DOMAIN pts \ HeldOut(pts, fold, n)

(* Held-out points the refitted surface cannot correct are served, and     *)
(* scored, with physics only.                                              *)
OutOfSupport(pts, fold, n) ==
  LET support == MeasuredDomain(pts, Training(pts, fold, n))
  IN  {i \in HeldOut(pts, fold, n) : ~Inside(pts[i], support)}

ScoredFold(pts, fold, n) ==
  [fold    |-> fold + 1,
   points  |-> Cardinality(HeldOut(pts, fold, n)),
   outside |-> Cardinality(OutOfSupport(pts, fold, n))]

FailedFold(pts, fold, n) ==
  [fold |-> fold + 1, training |-> Cardinality(Training(pts, fold, n))]

(* from_fold_results: numbers 1..n, each once.                             *)
FoldsComplete(scored, failed) ==
  LET numbers == {r.fold : r \in scored} \cup {r.fold : r \in failed}
  IN  /\ Cardinality(numbers) = Cardinality(scored) + Cardinality(failed)
      /\ numbers = 1..Cardinality(numbers)

(* All points of the results; all that the failed folds were not trained on. *)
PointsIn(results) == MapThenSumSet(LAMBDA r : r.points, results)

PointsLeftOut(pts, failed) == MapThenSumSet(LAMBDA r : Len(pts) - r.training, failed)

(* complete_point_weighted_served_rmse has a value.                        *)
HasFigure(scored, failed) == failed = {} /\ PointsIn(scored) > 0

-----------------------------------------------------------------------------
(* The record of a cross-validation in the report.  Older records carry an *)
(* error figure for each scored fold, but not which fold it is of.         *)

(* valid_fold_metrics: the counts; there is an error of corrected points   *)
(* exactly if there are such points.                                       *)
FoldReadable(r) == r.fold > 0 /\ r.points > 0 /\ r.outside <= r.points

ScoredRecord(scored, failed) ==
  [num_folds |-> Cardinality(scored) + Cardinality(failed), scored |-> scored,
   figures |-> Cardinality(scored), failed |-> failed]

(* A record is read as scored folds if it has them. *)
RecordReadable(record) ==
  /\ \A r \in record.scored : FoldReadable(r)
  /\ FoldsComplete(record.scored, record.failed)
  /\ record.num_folds = Cardinality(record.scored) + Cardinality(record.failed)

(* legacy_scored_fold_numbers: the folds that did not fail.                *)
LegacyScored(record) == 1..record.num_folds \ {r.fold : r \in record.failed}

(* from_legacy: a record without them. *)
LegacyReadable(record) ==
  /\ record.figures + Cardinality(record.failed) = record.num_folds
  /\ Cardinality(LegacyScored(record)) = record.figures
=============================================================================
