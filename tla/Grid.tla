--------------------------------- MODULE Grid ---------------------------------
(***************************************************************************)
(* What happens inside one compute task: a request of the gain, batch,     *)
(* heatmap or h3-heatmap endpoint is validated, each of its points is      *)
(* evaluated by the served-gain law, on rayon's threads if there are many, *)
(* and the results are assembled into one response.  Any point may fail    *)
(* on its own; the module is about what that failure takes with it, and    *)
(* about every number of the response being that of its own point.         *)
(*                                                                         *)
(* Floats are abstracted: physics and correction are constant functions of *)
(* the direction, a gain is an integer.  The model layer puts a floor      *)
(* under every gain, so a gain that was computed is a number.              *)
(***************************************************************************)
EXTENDS Pointing, Sequences, FiniteSets

CONSTANTS
  Directions,    (* pairs of clock and cone angle                           *)
  Squint,        (* the direction that is evaluated for a requested one     *)
  Spreading,     (* free-space path loss to the h3 cell in a direction      *)
  Served,        (* the repository: calibrations by antenna and feed        *)
  Requests,      (* the requests that may arrive                            *)
  MaxBatch,      (* bound: MAX_BATCH_SIZE                                   *)
  MaxPoints,     (* bound: MAX_HEATMAP_POINTS                               *)
  MaxRings,      (* bound: rings of an h3 disk                              *)
  ParallelFrom,  (* the number of points from which rayon takes over        *)
  Sentinel       (* FAILED_POINT_LOSS_DB, and negated NO_PEAK_GAIN_DB       *)

Codes == {"antenna_not_found", "feed_not_found", "validation_error", "invalid_coordinate",
          "computation_budget_exceeded", "internal_error"}

(* A calibration; "region" is its coverage in space.                       *)
Calibrations ==
  [status : {"full", "partial", "none"}, surface : BOOLEAN, region : SUBSET Directions,
   physics : [Directions -> Int], correction : [Directions -> Int]]

(* A point: whether its parameters are in range, whether its frequency is  *)
(* covered where it is calibrated, and where everything is.                *)
Points ==
  [pair : STRING \X STRING, params : BOOLEAN, band : BOOLEAN, pose : Poses,
   direction : Directions]

Ranges == [min : Int, max : Int, step : Int]

(* What a body decodes to.  A grid is of directions that exist, the cells  *)
(* of a disk differ, and a disk that is not refused is smaller than a grid *)
(* may be.                                                                 *)
Request(r) ==
  \/ /\ r \in [endpoint : {"gain"}, items : Seq(Points)]
     /\ Len(r.items) = 1
  \/ r \in [endpoint : {"batch"}, items : Seq(Points)]
  \/ /\ r \in [endpoint : {"heatmap"}, common : Points, az : Ranges, el : Ranges]
     /\ (r.az.min..r.az.max) \X (r.el.min..r.el.max) \subseteq Directions
  \/ /\ r \in [endpoint : {"h3"}, common : Points, rings : Nat, disk : Seq(Directions)]
     /\ \A j, k \in 1..Len(r.disk) : r.disk[j] = r.disk[k] => j = k
     /\ r.rings <= MaxRings => Len(r.disk) \in 1..MaxPoints

(* A frame that a target can be seen in leaves some residue.               *)
HasResidue(pose) ==
  Fault3D(pose, pose.aim) = "none" => <<AxisZ(pose), pose.attitude>> \in DOMAIN Residue

(* Gains are of the order of tens of dB, by the floor and the aperture;    *)
(* the sentinel is far from all of them.                                   *)
Modest(gain) == -Sentinel < 2 * gain /\ 2 * gain < Sentinel

ASSUME RequestsAssumption ==
  \A r \in Requests :
    /\ Request(r)
    /\ r.endpoint \in {"gain", "batch"} => \A k \in 1..Len(r.items) : HasResidue(r.items[k].pose)

ASSUME GridAssumption ==
  /\ Directions \subseteq Int \X Int
  /\ Squint \in [Directions -> Directions]
  /\ Spreading \in [Directions -> Int]
  /\ \A pair \in DOMAIN Served : Served[pair] \in Calibrations
  /\ \A pair \in DOMAIN Served : Served[pair].status = "none" => ~Served[pair].surface
  /\ MaxBatch \in Nat /\ MaxPoints \in Nat \ {0} /\ MaxRings \in Nat /\ ParallelFrom \in Nat
  /\ Sentinel \in Nat \ {0}
  /\ \A pair \in DOMAIN Served : \A d \in Directions :
       LET c == Served[pair]
       IN  Modest(c.physics[d]) /\ Modest(c.physics[d] + c.correction[d])

VARIABLES
  request,   (* the request, fixed once it has arrived                      *)
  phase,     (* how far its handling has come                               *)
  slot,      (* the outcome of each point                                   *)
  reply      (* status, code, field and body                                *)

vars == <<request, phase, slot, reply>>

-----------------------------------------------------------------------------
(* Rectangular grids.  num_points rounds up; the loop that makes the axis  *)
(* stops at max.                                                           *)
Span(range) == range.max - range.min

(* Mutant: the end points are forgotten. *)
NumPointsExclusive(range) ==
  IF range.step <= 0 THEN 0 ELSE (Span(range) + range.step - 1) \div range.step

NumPoints(range) ==
  IF range.step <= 0 THEN 0 ELSE ((Span(range) + range.step - 1) \div range.step) + 1

Axis(range) ==
  [k \in 1..((Span(range) \div range.step) + 1) |-> range.min + (k - 1) * range.step]

(* Row-major: the outer loop is over elevations. *)
Rectangle(az, el) ==
  LET cols == Len(az)
  IN [k \in 1..cols * Len(el) |-> <<az[((k - 1) % cols) + 1], el[((k - 1) \div cols) + 1]>>]

(* The emitter of a heatmap's point is placed 400 km off, in the direction *)
(* of the grid, and an h3 cell's is on the ground: not at the vehicle (nor *)
(* farther than is allowed, where the vehicle is not).                     *)
Placed(pose) == [pose EXCEPT !.emitter = Minus(pose.vehicle, <<1, 0, 0>>)]

(* A heatmap takes no attitude.                                            *)
OfGrid(point, direction) ==
  [point EXCEPT !.direction = direction, !.pose = [Placed(point.pose) EXCEPT !.attitude = {}]]

OfCell(point, direction) ==
  [point EXCEPT !.direction = direction, !.pose = Placed(point.pose)]

(* The points of a request, in the order of its items, grid or disk. *)
PointsOf(r) ==
  CASE r.endpoint \in {"gain", "batch"} -> r.items
    [] r.endpoint = "heatmap" ->
         LET grid == Rectangle(Axis(r.az), Axis(r.el))
         IN [k \in 1..Len(grid) |-> OfGrid(r.common, grid[k])]
    [] r.endpoint = "h3" ->
         [k \in 1..Len(r.disk) |-> OfCell(r.common, r.disk[k])]

-----------------------------------------------------------------------------
(* Validation.  A verdict is a code and, for a batch, the item it is about *)
(* (0 for the request itself).                                             *)
Fine          == [code |-> "none", field |-> 0]
Fault(code)   == [code |-> code, field |-> 0]

Exists(pair) ==
  IF pair \in DOMAIN Served THEN Fine
  ELSE IF \E p \in DOMAIN Served : p[1] = pair[1] THEN Fault("feed_not_found")
  ELSE Fault("antenna_not_found")

ValidParams(point) == IF point.params THEN Fine ELSE Fault("validation_error")

(* The first check that fails decides. *)
Both(first, second) == IF first = Fine THEN second ELSE first

ValidateGain(point) == Both(Exists(point.pair), ValidParams(point))

(* Mutant: items are not checked, as they once were not. *)
ValidateBatchSizeOnly(items) ==
  IF Len(items) > MaxBatch \/ items = <<>> THEN Fault("validation_error") ELSE Fine

ValidateBatch(items) ==
  LET bad == {i \in 1..Len(items) : ValidateGain(items[i]) # Fine}
  IN IF Len(items) > MaxBatch \/ items = <<>> THEN Fault("validation_error")
     ELSE IF bad = {} THEN Fine
     ELSE LET i == CHOOSE i \in bad : \A j \in bad : i <= j
          IN [ValidateGain(items[i]) EXCEPT !.field = i]

ValidRange(range) == range.min < range.max /\ range.step > 0 /\ NumPoints(range) <= MaxPoints

ValidateGrid(az, el) ==
  IF ValidRange(az) /\ ValidRange(el) /\ NumPoints(az) * NumPoints(el) <= MaxPoints
  THEN Fine ELSE Fault("validation_error")

ValidateHeatmap(r) == Both(ValidateGain(r.common), ValidateGrid(r.az, r.el))

(* This endpoint looks at the parameters before it looks the antenna up. *)
ValidateH3(r) ==
  Both(IF r.common.params /\ r.rings <= MaxRings THEN Fine ELSE Fault("validation_error"),
       Exists(r.common.pair))

Validate(r) ==
  CASE r.endpoint = "gain"    -> ValidateGain(r.items[1])
    [] r.endpoint = "batch"   -> ValidateBatch(r.items)
    [] r.endpoint = "heatmap" -> ValidateHeatmap(r)
    [] r.endpoint = "h3"      -> ValidateH3(r)

(* Mutant: a coordinate fault is bad syntax, as it once was. *)
StatusCoordinate400(code) ==
  CASE code \in {"antenna_not_found", "feed_not_found"} -> 404
    [] code = "validation_error"                        -> 422
    [] code = "invalid_coordinate"                      -> 400
    [] code = "computation_budget_exceeded"             -> 504
    [] OTHER                                            -> 500

(* validation_status and service_status agree on the codes they share. *)
Status(code) ==
  CASE code \in {"antenna_not_found", "feed_not_found"}    -> 404
    [] code \in {"validation_error", "invalid_coordinate"} -> 422
    [] code = "computation_budget_exceeded"                -> 504
    [] OTHER                                               -> 500

-----------------------------------------------------------------------------
(* The served-gain law, for the squinted direction throughout. *)
Covers(c, point) == point.band /\ Squint[point.direction] \in c.region

OutsideRegion(c, point) == c.status = "partial" /\ Squint[point.direction] \notin c.region

Disposition(point) ==
  LET c == Served[point.pair]
  IN CASE ~c.surface /\ OutsideRegion(c, point)  -> "unavailable_outside_coverage"
       [] ~c.surface /\ ~OutsideRegion(c, point) -> "unavailable"
       [] c.surface /\ ~Covers(c, point)         -> "outside_coverage"
       [] c.surface /\ Covers(c, point)          -> "applied"

Extrapolated(point) == Disposition(point) \in {"unavailable_outside_coverage", "outside_coverage"}

Gain(point) ==
  LET c == Served[point.pair]
      d == Squint[point.direction]
  IN c.physics[d] + (IF Disposition(point) = "applied" THEN c.correction[d] ELSE 0)

(* The warnings that depend on the calibration. *)
Warnings(point) ==
  LET c == Served[point.pair]
  IN {w \in {"uncalibrated"} : c.status = "none"}
       \cup {w \in {"partially_calibrated"} : c.status = "partial"}
       \cup {w \in {"out_of_coverage"} : OutsideRegion(c, point)}
       \cup {w \in {"correction_not_applied"} : Disposition(point) = "outside_coverage"}

(* How evaluating a point may end: the emitter's geometry comes before the *)
(* lookup, the aim's after it.                                             *)
Outcomes(point) ==
  LET seen  == Fault3D(point.pose, point.pose.emitter)
      aimed == Fault3D(point.pose, point.pose.aim)
  IN  IF seen # "none" THEN {seen}
      ELSE IF point.pair \notin DOMAIN Served THEN {"feed_not_found"}
      ELSE IF aimed # "none" THEN {aimed}
      ELSE {"ok", "computation_budget_exceeded", "internal_error"}

-----------------------------------------------------------------------------
(* Assembling.  "pts" are the points and "out" their outcomes. *)
Ok(out)     == {k \in 1..Len(out) : out[k] = "ok"}
Failed(out) == {k \in 1..Len(out) : out[k] # "ok"}

(* Mutant: the failed points count as uncorrected. *)
SummarizeAll(pts, out) ==
  LET corrected == {k \in Ok(out) : Disposition(pts[k]) = "applied"}
  IN IF ~Served[pts[1].pair].surface THEN "unavailable"
     ELSE IF corrected = {} THEN "none"
     ELSE IF Cardinality(corrected) = Len(out) THEN "all" ELSE "partial"

Peak(pts, out) ==
  IF Ok(out) = {} THEN -Sentinel
  ELSE Gain(pts[CHOOSE k \in Ok(out) : \A j \in Ok(out) : Gain(pts[k]) >= Gain(pts[j])])

Loss(pts, out, k) == IF k \in Ok(out) THEN Peak(pts, out) - Gain(pts[k]) ELSE Sentinel

Summarize(pts, out) ==
  LET corrected == {k \in Ok(out) : Disposition(pts[k]) = "applied"}
  IN IF ~Served[pts[1].pair].surface THEN "unavailable"
     ELSE IF corrected = {} THEN "none"
     ELSE IF Cardinality(corrected) = Cardinality(Ok(out)) THEN "all" ELSE "partial"

Aggregated(pts, out) ==
  (UNION {Warnings(pts[k]) : k \in Ok(out)})
    \cup {w \in {"point_computation_failed"} : Failed(out) # {}}

Item(point, outcome) ==
  IF outcome = "ok"
  THEN [error |-> "none", gain |-> Gain(point), feed |-> Steering(point.pose),
        warnings |-> Warnings(point)]
  ELSE [error |-> outcome, gain |-> Sentinel, feed |-> Centred, warnings |-> {}]

BatchBody(pts, out) ==
  [results  |-> [k \in 1..Len(out) |-> Item(pts[k], out[k])],
   failures |-> Cardinality(Failed(out))]

(* Mutant: rows are taken for columns. *)
ReshapeTransposed(losses, rows, cols) ==
  [r \in 1..rows |-> [c \in 1..cols |-> losses[((c - 1) * rows) + r]]]

Reshape(losses, rows, cols) ==
  [r \in 1..rows |-> [c \in 1..cols |-> losses[((r - 1) * cols) + c]]]

Summary(pts, out) ==
  [evaluated |-> Len(out), failed |-> Cardinality(Failed(out)), peak |-> Peak(pts, out),
   application |-> Summarize(pts, out)]

HeatmapBody(r, pts, out) ==
  [loss |-> Reshape([k \in 1..Len(out) |-> Loss(pts, out, k)], Len(Axis(r.el)), Len(Axis(r.az))),
   summary |-> Summary(pts, out),
   warnings |-> Aggregated(pts, out)
     \cup {w \in {"points_extrapolated"} : \E k \in Ok(out) : Extrapolated(pts[k])}]

(* What is known of a cell before the peak is: it is named by where it is, *)
(* and its angles are those that were evaluated.                           *)
PeakIndependent(point) ==
  [cell |-> point.direction, angles |-> Squint[point.direction], gain |-> Gain(point),
   spreading |-> Spreading[point.direction]]

(* The second pass; failed cells are left out, and the others stay in the  *)
(* order of the disk: a cell is known by its place in it.                  *)
H3Body(pts, out) ==
  LET first == [k \in Ok(out) |-> PeakIndependent(pts[k])]
  IN [cells |-> [k \in Ok(out) |->
                   [known |-> first[k], loss |-> Loss(pts, out, k),
                    total |-> Loss(pts, out, k) + first[k].spreading]],
      summary  |-> Summary(pts, out),
      warnings |-> Aggregated(pts, out)]

-----------------------------------------------------------------------------
NoReply == [status |-> 0, code |-> "none", field |-> 0, body |-> <<>>]
Refuse(verdict) ==
  [status |-> Status(verdict.code), code |-> verdict.code, field |-> verdict.field, body |-> <<>>]
Accept(body) == [status |-> 200, code |-> "none", field |-> 0, body |-> body]

Init ==
  /\ request \in Requests
  /\ phase = "received"
  /\ slot  = <<>>
  /\ reply = NoReply

(* The handler's check before it submits the task. *)
ValidateRequest ==
  /\ phase = "received"
  /\ \/ /\ Validate(request) # Fine
        /\ reply' = Refuse(Validate(request))
        /\ phase' = "answered"
        /\ UNCHANGED slot
     \/ /\ Validate(request) = Fine
        /\ phase' = "preparing"
        /\ slot' = [k \in 1..Len(PointsOf(request)) |-> "todo"]
        /\ UNCHANGED reply
  /\ UNCHANGED request

(* The h3 endpoint positions the feed and builds its model once for all    *)
(* cells, and fails as a whole if it cannot; the others do so for each     *)
(* point.                                                                  *)
Preparations(r) ==
  IF r.endpoint # "h3" THEN {"none"}
  ELSE LET aimed == Fault3D(r.common.pose, r.common.pose.aim)
       IN  IF aimed # "none" THEN {aimed} ELSE {"none", "internal_error"}

Prepare ==
  /\ phase = "preparing"
  /\ \E fault \in Preparations(request) :
       \/ /\ fault # "none"
          /\ reply' = Refuse(Fault(fault))
          /\ phase' = "answered"
       \/ /\ fault = "none"
          /\ phase' = "evaluating"
          /\ UNCHANGED reply
  /\ UNCHANGED <<request, slot>>

(* In order, or in any order under rayon. *)
Turn(k) ==
  /\ slot[k] = "todo"
  /\ Len(slot) < ParallelFrom => \A j \in 1..k-1 : slot[j] # "todo"

EvaluatePoint(k) ==
  /\ phase = "evaluating"
  /\ Turn(k)
  /\ \E outcome \in Outcomes(PointsOf(request)[k]) : slot' = [slot EXCEPT ![k] = outcome]
  /\ UNCHANGED <<request, phase, reply>>

Body(r, pts, out) ==
  CASE r.endpoint = "gain"    -> Item(pts[1], out[1])
    [] r.endpoint = "batch"   -> BatchBody(pts, out)
    [] r.endpoint = "heatmap" -> HeatmapBody(r, pts, out)
    [] r.endpoint = "h3"      -> H3Body(pts, out)

(* A single gain that fails is an HTTP error. *)
Assemble ==
  /\ phase = "evaluating"
  /\ \A k \in 1..Len(slot) : slot[k] # "todo"
  /\ reply' = IF request.endpoint = "gain" /\ slot[1] # "ok"
                THEN Refuse(Fault(slot[1]))
                ELSE Accept(Body(request, PointsOf(request), slot))
  /\ phase' = "answered"
  /\ UNCHANGED <<request, slot>>

Next ==
  \/ ValidateRequest \/ Prepare \/ Assemble
  \/ \E k \in 1..Len(slot) : EvaluatePoint(k)

Spec == Init /\ [][Next]_vars

-----------------------------------------------------------------------------
TypeOK ==
  /\ request \in Requests
  /\ phase \in {"received", "preparing", "evaluating", "answered"}
  /\ slot \in Seq({"todo", "ok"} \cup Codes)
  /\ reply.status \in {0, 200, 404, 422, 500, 504}
  /\ reply.code \in Codes \cup {"none"}
  /\ reply.field \in 0..MaxBatch

Answered(endpoint) == phase = "answered" /\ reply.status = 200 /\ request.endpoint = endpoint
Pts == PointsOf(request)

FeedOpposite(pose, feed) == feed = Opposite(Compass(pose, pose.aim))
AtZero(pose) == ~OnAxis(pose, pose.aim) /\ Clock(pose, pose.boresight) = <<1, 0>>

(* Every number is its own point's, by content and not by position in some *)
(* list: a batch keeps the order of its items, a heatmap's entry belongs   *)
(* to the angles of its row and column, an h3 cell carries its own gain,   *)
(* in whatever order the points were evaluated and whichever failed; and   *)
(* only a failed point's loss is the sentinel.  The feed is moved away     *)
(* from its own item's aim, where rounding leaves the boresight at azimuth *)
(* zero.                                                                   *)
ResultsPlaced ==
  /\ Answered("batch") =>
       /\ Len(reply.body.results) = Len(request.items)
       /\ \A k \in 1..Len(request.items) :
            LET res == reply.body.results[k]
                item == request.items[k]
            IN  IF slot[k] = "ok"
                THEN /\ res.error = "none" /\ res.gain = Gain(item)
                     /\ res.feed = Centred <=> OnAxis(item.pose, item.pose.aim)
                     /\ AtZero(item.pose) => FeedOpposite(item.pose, res.feed)
                ELSE res.error = slot[k] /\ res.feed = Centred
  /\ Answered("heatmap") =>
       LET az == Axis(request.az)
           el == Axis(request.el)
       IN  /\ Len(reply.body.loss) = Len(el)
           /\ \A r \in 1..Len(el) : \A c \in 1..Len(az) :
                LET loss == reply.body.loss[r][c]
                    here == [request.common EXCEPT !.direction = <<az[c], el[r]>>]
                    k    == CHOOSE k \in 1..Len(Pts) : Pts[k].direction = here.direction
                IN  IF slot[k] = "ok"
                    THEN loss = reply.body.summary.peak - Gain(here) /\ loss < Sentinel
                    ELSE loss = Sentinel
  /\ Answered("h3") =>
       \A k \in DOMAIN reply.body.cells :
         LET cell == reply.body.cells[k]
             here == [request.common EXCEPT !.direction = cell.known.cell]
         IN  /\ slot[k] = "ok" /\ cell.known.cell = request.disk[k]
             /\ cell.known.gain = Gain(here)
             /\ cell.total =
                  reply.body.summary.peak - Gain(here) + Spreading[cell.known.cell]

(* The losses an answer speaks of.                                         *)
Losses(body, endpoint) ==
  IF endpoint = "h3" THEN {body.cells[k].loss : k \in DOMAIN body.cells}
  ELSE UNION {{body.loss[r][c] : c \in 1..Len(body.loss[r])} : r \in 1..Len(body.loss)}

(* A failed point costs only itself: all are accounted for, every loss is  *)
(* relative to one peak that some evaluated point attains and none         *)
(* exceeds, and where there is no peak the sentinel says so.  The          *)
(* correction summary speaks of the points that were evaluated, and never  *)
(* contradicts the warnings, which come another way: "all" is not said     *)
(* beside a correction that was not applied, nor withheld because other    *)
(* points failed.                                                          *)
SummaryHonest ==
  /\ Answered("batch") =>
       reply.body.failures =
         Cardinality({k \in 1..Len(reply.body.results) : reply.body.results[k].error # "none"})
  /\ \A e \in {"heatmap", "h3"} : Answered(e) =>
       LET s == reply.body.summary
           real == Losses(reply.body, e) \ {Sentinel}
       IN  /\ s.evaluated = Len(Pts)
           /\ e = "h3" => s.evaluated = s.failed + Cardinality(DOMAIN reply.body.cells)
           /\ (s.failed = s.evaluated) <=> (s.peak = -Sentinel)
           /\ s.failed < s.evaluated => 0 \in real /\ \A l \in real : l >= 0
           /\ "point_computation_failed" \in reply.body.warnings <=> s.failed > 0
  /\ \A e \in {"heatmap", "h3"} : Answered(e) =>
       LET said    == reply.body.summary.application
           skipped == "correction_not_applied" \in reply.body.warnings
           some    == reply.body.summary.failed < reply.body.summary.evaluated
       IN  /\ said = "unavailable" <=> ~Served[request.common.pair].surface
           /\ said = "all" => some /\ ~skipped
           /\ said = "partial" => skipped
           /\ some /\ ~skipped /\ said # "unavailable" => said = "all"

(* No physics for a request that is refused, whole batches included, and   *)
(* no lookup that fails after the check: what the evaluator would answer   *)
(* with 404 was answered before.                                           *)
CheckedFirst ==
  /\ slot # <<>> => \A k \in 1..Len(slot) :
       Pts[k].params /\ slot[k] \notin {"antenna_not_found", "feed_not_found", "validation_error"}
  /\ phase = "answered" /\ reply.status = 404 => slot = <<>>
  /\ Len(slot) <= (IF request.endpoint = "batch" THEN MaxBatch ELSE MaxPoints)

(* Documented: the reflector's boresight is at azimuth zero by definition, *)
(* so that the feed is moved, across the axis, away from its aim, and the  *)
(* beam lands there.                                                       *)
SteeredAsAimed ==
  Answered("gain") =>
    FeedOpposite(request.items[1].pose, reply.body.feed)

=============================================================================
