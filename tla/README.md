# A TLA+ development of the antenna model service

This directory holds TLA+ modules that model the antenna-model repository, TLC
configurations that check them on small instances, and TLAPS proofs of what they
promise for every instance. Every definition is read off the source; the lines it
stands for are in `PROJECT.json` under `map`.

    tlc -workers 2 -config MCAdmission.cfg MCAdmission.tla
    tlapm ServiceProofs.tla

## 1. Inventory

The repository is a Rust workspace of three crates. `antenna-core` is the physics model
and the artifact format, `calibrate` is a command-line tool that fits an antenna's model
to measurements and writes an artifact, and `antenna-model` is the HTTP service that
loads artifacts and answers gain queries.

    measurements --> calibrate --> artifact file --> repository --> served gain --> HTTP
                                                         ^             |
                                      configuration -----'        gain cache

| Component | State | Operations | Hard behaviour | What makes it correct |
|---|---|---|---|---|
| request pipeline (`api/middleware.rs`, `routes.rs`, `handlers.rs`) | semaphore permits, each request's future, its blocking task | buffer a body, enter the timeout window, take a permit, reject, submit a task, deliver, time out, drop | the future and its task end independently; timers, clients and tasks race | slots are neither lost nor minted; one honest answer; the window always closes |
| process lifecycle (`main.rs`, `api/mod.rs`) | readiness flag, loaded repository, signal handlers, accept loop, exit status | load, bind, serve, signal, begin shutdown, drain, clean up, exit | signals at any time, handlers that cannot be installed, a bounded drain, tasks that outlive it | readiness is earned and withdrawn in time; shutdown ends; nothing is left behind |
| gain cache (`service/cache.rs`, `served_gain.rs`) | one LRU per feed behind an `Arc` in a concurrent map | probe, compute outside the mutex, store, invalidate | racing misses, stores into a cache that was replaced, eviction | an entry belongs where it is found; an invalidation is final |
| configuration (`config/settings.rs`, `main.rs`) | the configuration in force | layer defaults, file, environment; validate; fall back | a rejected layer takes others with it | what is in force is valid; the environment survives a bad file |
| repository (`data/repository.rs`) | antenna, feed -> calibration | load entries, add, look up | some of several entries fail | an antenna is whole or absent; fail-fast is all or nothing |
| artifact (`antenna-core/artifact`) | a file | encode, write, read, decode, validate | a write that is torn by a crash or read half-way, foreign versions | what is accepted is what was written |
| served gain (`service/served_gain.rs`, `antenna-core/model/pattern.rs`, `edge_cases.rs`) | the shared cache's cells | squint, physics directly or from a cell, correction, reference, warnings | a cell answers for directions and feeds it was not filled by; regimes and gates change which terms are summed | each effect is counted once; what was extrapolated or approximated is said |
| batch, heatmap, H3 (`service/`) | none of their own | validate, evaluate points in parallel, assemble | one of many points fails; the budget runs out | order is kept, a point's failure stays its own |
| aperture integration (`antenna-core/model/integration.rs`) | density, azimuthal samples, modes, the last two sweeps, the clock | size, sweep, poll, compare, refine, judge | caps on the density and on refinements, aliasing, a deadline polled by the stride | an estimate is measured, a verdict is earned, the work is bounded |
| correction surface (`antenna-core/model/correction_surface.rs`) | knots, order, coefficients | validate axes, find the span, evaluate the basis, to and from the wire form | knots on bounds, repeated knots, the upper end | what was fitted is what is evaluated, everywhere it was measured |
| calibration (`calibrate/`) | tuned parameters, correction surface, report, files | parse, tune, fit, cross-validate, report, export | underdetermined fits, failed folds, two passes of tuning | every point is held out once and reported once; the export is what was fitted |
| listings, lookups, health (`api/handlers.rs`) | none, they read the repository | list, look up, report | - | what is listed can be used |
| schemas, numerics, deployment | none that changes | - | - | - |

## 2. Modules

| Module | Models | Kind |
|---|---|---|
| `Admission` | the request pipeline | component |
| `Lifecycle` | the life of the process | component (actions only) |
| `Service` | `Admission` inside `Lifecycle` | composition |
| `GainMemo` | what a cache promises | abstract specification |
| `GainCache` | the LRU cache, refining `GainMemo` | component |
| `Startup` | configuration layers, antenna list, repository load and discovery, refining `Lifecycle`'s load | component |
| `PhysicalConfig` | what configuration, artifact and model builder each accept of a physical configuration | operators |
| `ArtifactFile` | the artifact on disk: writes, torn writes, reads, decode | component |
| `Pointing` | the antenna frame of positions and attitude, clock angles, and where a feed is moved to | operators |
| `Grid` | one compute task over `Pointing`: validation, the gain, batch, heatmap and h3 endpoints | component |
| `Integration` | one aperture integration | component |
| `Pattern` | regimes, terms and warnings of one evaluation of the physics | operators |
| `ServedGain` | the served gain law over `Pattern`, on both routes | component |
| `CorrectionSpline` | knots, span search, basis and wire form of a correction surface | operators |
| `CorrectionFit` | what a fit demands and builds, folds and their record | operators |
| `CalibrationReport` | the validation report | operators |
| `Calibrate` | one run of the calibration command, both pipelines | component |
| `ServiceProofs` (with `Admission`'s), `GainCacheProofs`, `StartupProofs`, `ArtifactFileProofs`, `GridProofs`, `IntegrationProofs`, `ServedGainProofs`, `CalibrateProofs` | proofs about the component each is named after | proofs |
| `MCAdmission`, `MCService`, `MCGainCache`, `MCStartup`, `MCArtifactFile`, `MCGrid`, `MCIntegration`, `MCServedGain`, `MCCalibrate` | instances for TLC | model checking |

    Lifecycle <-- Service --> Admission          CorrectionSpline <-- CorrectionFit
        ^                                                                  ^
        | implements                                       CalibrationReport
     Startup        GainCache --> GainMemo                                 ^
        |                     implements         Pattern <-- ServedGain    Calibrate
        v
     PhysicalConfig                             Pointing <-- Grid

### Admission

| Variable | Code |
|---|---|
| `endpoint` | the route: light is `/gain`; heavy is batch, heatmap and h3-heatmap, the routes wrapped in `ConcurrencyLimit` |
| `phase` | the await point where the request's future is suspended |
| `permits`, `holders` | the one semaphore `build_app` shares between the heavy routes, and which futures own an `OwnedSemaphorePermit` |
| `task` | the `spawn_blocking` task, or what it returned |
| `reply` | the `ErrorCode` of the response, or `ok` |

`ReceiveDeclared`, `ReceiveChunked` and `BufferBody` are `RequestSizeTracker`, which buffers
a body of undeclared length before the timeout window opens. `EnterWindow` is
`RequestTimeout` starting and `ConcurrencyLimit` trying to take a permit, with no await in
between. `Reject`, `Submit` and `Deliver` are a handler. `TimeOut` and `Disconnect` drop the
handler's future, and with it the permit; the task goes on. `StartTask` and `FinishTask` are
the blocking pool (tokio, external). `CutConnections` and `DiscardQueued` are what the server
and the runtime do as they stop.

### Lifecycle and Service

`Lifecycle` has one action per stage of `main`, `bind_server_with_config`,
`BoundServer::serve`, `shutdown_signal` and `begin_shutdown`. It says *when* a drain may end;
`Service` says *which* requests make it end: `Drained` when none is alive, `DrainTimeout` with
`CutConnections` when some are. It also adds that an empty repository submits nothing, that the
runtime's drop discards queued tasks, and that `Exit` waits for the running ones.

### GainCache and GainMemo

A cache is named by its feed and the number of invalidations before it, so a call that holds a
removed `Arc` is a call whose `epoch` is behind `epoch[feed]`. With `enabled` off a call computes
and nothing else. Each critical section of the
mutex is one action (`Probe`, `Store`); `Compute` lies between them without it. A direction's
physics is named by feed and direction, because it is a function of the two. `Slot` and `Front`
are the `lru` crate's `put` and promotion (external).

`GainMemo` has no locks, recency, capacity or stale handles. A call joins the epoch current
at one moment of its life and then fails, recalls a value memoized in that epoch under its
key, or evaluates its own. `GainCache!ImplementsMemo` is the refinement.

### Startup

| Variable | Code |
|---|---|
| `file`, `env` | the two sources `load_unvalidated` layers over the defaults; one key stands for all that `validate` checks |
| `antennas` | the antenna file, which `AntennaConfig::from_file` reads and validates as a whole |
| `config` | the configuration in force, each key with the layer it came from |
| `next`, `repo`, `count` | the loop of `load_from_config`: position, `add_calibration`s so far, `loaded_count` |
| `phase` | where `main` has come; `aborted` is an exit, `degraded` the empty repository |

`LoadConfiguration` is `load_configuration` with both of its fallbacks, `ReadAntennas` is the
antenna file, `LoadEntry` one turn of the loop, `SkipDisabled` what `enabled_antennas` leaves out
of it, `FinishLoad` its end, and `GiveUp` the choice of `initialize_repository` between exiting
and starting empty. An artifact file is reduced to
what the repository learns of it: it does not read, or it is the calibration of one antenna and
feed with its dish and horn. Entries with design specs keep their feeds, because the builder adds
them one at a time and can fail between two. `PhysicalConfig` has the three places that judge a dish
and a horn: the validation of design specs, the validation of an artifact, and the builders of the
physics model. `ImplementsLoad` maps the whole of it to `Lifecycle!LoadCalibration`,
which `Service` composes, so the abstraction there is shown and not assumed.

The repository does not change after that, so discovery is a set of views of it:
`ListedAntennas`, `FeedsOf` and `AntennaList` are the listing, `FeedList` and `AntennaDetails` what
is told of one antenna (its dish is read off one of its feeds), `Lookup` is what a feed's details
are answered with, `Answer` what a request that names it begins with, which is to build the model,
and `Health` the liveness probe.

### ArtifactFile

A file is a sequence of pieces: a header and then parts of the payload, each marked with the
artifact it encodes. `Open`, `WritePiece`, `Close` and `Fail` are `std::fs::write` seen from
outside: it truncates, fills and may stop anywhere, and two `calibrate` runs may overlap, each
at its own offset. `StartRead`, `ReadPiece` and `EndRead` are `read`, which is not atomic
either. `Decode` keeps the order of checks in `decode`. The checksum is the payload itself: CRC32 is taken to have no collisions.

### Grid

`Admission` treats a handler's compute as one task with an outcome; `Grid` opens that task.

| Variable | Code |
|---|---|
| `request` | the deserialized request of one of the four endpoints |
| `phase` | validation, preparation, evaluation, answer |
| `slot` | the `Result` of each item, grid point or cell |
| `reply` | the status, code, field and body of the response |

`ValidateRequest` is the validator in each endpoint's own order of checks; `Prepare` is what h3
does once for all cells and the others once per point: steering the feed and building its model, and
either may fail (`Preparations`); `EvaluatePoint` is
`evaluate_gain_from_request_with_budget` or `compute_cell_result`, in the order of the points,
or in any order from `ParallelFrom` points on, as rayon has it; `Assemble` builds the response
from operators that carry the names of what they translate (`Peak`, `Loss`, `Reshape`,
`Summarize`, `Aggregated`). The body of h3 takes two passes: `PeakIndependent` is what is known of a
cell by itself, its free-space loss included; its loss and its total are relative to the peak of
all cells.

Directions are pairs of integers and squint a function on them. Physics and correction are
functions of the squinted direction, so that a number which belongs to another point is seen.
The model layer floors every gain, so a gain that was computed is finite and the code's
`is_finite` filters drop nothing. The physics h3 takes from the cache is that of its own
direction here; the difference is `ServedGain`'s subject.

`Pointing` is the geometry each point begins with. Positions are integer vectors, so differences,
cross products and their signs are exact; axes are left unnormalised and of a clock angle only its
quadrant or axis is kept. That decides everything `Grid` asks: what the transform refuses and in which
order (`Fault3D`; `TooFar` are the positions each of whose coordinates the validator allows), where azimuth zero is with and without an attitude (`AxisX`), and to which side the
feed goes (`Steering`). What is not exact in the code is the azimuth of the boresight itself, two
coordinates that would be zero but for rounding. `Residue` is a constant that gives it by frame;
`MCResidue` has what IEEE doubles yield for these vectors in the code's order of operations.

### Integration

One call of `integrate_aperture`.

| Variable | Code |
|---|---|
| `geo`, `valid`, `budgeted` | the antenna and direction; whether the inputs are finite; `params.time_budget` |
| `sizing` | `ModeSizing` and the first density: `radial_points_for`, `mode_count_for` |
| `n_fine`, `pos` | the leg being swept, the samples added up so far |
| `sweep`, `coarse` | the last two completed sweeps (`ModeSweep`) |
| `refinements`, `converged`, `evaluations` | the counters of `refine_radial` |
| `late`, `outcome`, `overrun` | the clock, the result, and (history) the samples swept after the deadline |

`Start` sizes the call, `GoOn`, `OverBudget` and `Panel` are the radial loop and its poll,
`EndLeg`, `Refine` and `Answer` are `refine_radial`'s loop and what follows it. `Expire` is the
clock. The sizes are the code's own arithmetic on integers: lengths in wavelengths or relative to
the focal length, fractions in hundredths, rounded up where the code rounds up. What a sweep adds
up to is an arbitrary choice, so nothing here depends on quadrature being right. The path of a
rotationally symmetric aperture is the same loop with one mode and no top mode.

### Pattern and ServedGain

`Pattern` reduces a gain to the account of the terms it is summed from: bare aperture, rays or
the floor alone; for which feed, frequency and angle; whether spillover and floor were added.
Regimes follow `select_computation_mode` and the gates in `compute_gain`, warnings
`analyze_edge_cases` in its order. A spillover is a percentage computed as the code does it, for a
feed of q = 1, because a property compares two of them.

`ServedGain` is `evaluate_direct` and `evaluate_cached` one request after another, over a cache
that stores what `CachedGain` stores: a term and whether it converged, without its warnings.
`Integrate` is the direct route; `Hit` and `Miss` the cached one, with
`reconstruct_physics_warnings`; `Assemble` is the tail both share (`Assembled`: correction
disposition, reference gain, calibration and validity warnings). Either integration may run out of
budget. Since an account names what a term was integrated for, "the cached answer is the direct
one" is an equation. Units are fine enough (ten-thousandths of a degree, quarter millimetres) that
several directions and feeds fall into one key, on either side of 90 degrees, of the grid's edge
and of the offsets where the regime changes.

### Calibrate, CorrectionSpline, CorrectionFit and CalibrationReport

| Variable | Code |
|---|---|
| `job` | `Args` with what the named files hold: measurement rows, the class or the feed's design specification |
| `pc`, `stage` | the step of `run_calibration` or `run_boresight_calibration` that is next; the step whose error `main` reported |
| `points` | the measurements `parse_csv_content` or `from_csv` keeps |
| `first`, `fitted` | the model tuned by pass 1 of `calibrate_boresight`; the model whose residuals are corrected or reported |
| `surface`, `cv` | the fitted correction, with its axes and the model it belongs to; its cross-validation |
| `report` | the `ValidationReport` of full mode |
| `artifact`, `disk` | the calibration that was built; the output files as they were, torn or new |

A physical model is the record of what a gain is computed from, so that "the service evaluates
the model that was tuned" is an equation between two records: `Stamped` is what the artifact
carries, and its `gates` are what the service will derive from the presence of a surface. Gains
are not computed. The optimizer may return the ends or the middle of each bracket, residuals
may be large or small, any computation and any solve may fail. Wherever the code turns a
failure into a penalty instead of an error (values out of bounds, in both tuners), the model
has no refusal; where it does not (a mesh that cannot be built), it has one. `q` is counted in
tenths; the boresight coverage cone of 0.01 degree is rounded to 0. The phase-centre offset is left
out: full mode fits with the class's value (`main.rs:320`, `parameter_tuner.rs:192`) and stamps 0.0
(`main.rs:274`), boresight mode stamps the design's, and no gain depends on it
(`antenna-core/src/model/geometry.rs:209-212`).

`CorrectionSpline` is the geometry both sides share: an axis as a producer states it, its clamped
knot vector, `validated_axis`, the bisection of `find_knot_span`, de Boor's triangle with exact
integer weights (`Basis` over the common denominator `Product`), the stencil at a point, and the
way to the four-dimensional wire form and back with its synthetic temperature axis.

`CorrectionFit` has the data-dependent part of the fit: the domain, the quantile knots strictly
inside it, thinning, the counts that make a fit underdetermined, the coefficients measurements bear
on (`Informed`), the recorded angular resolution (`Resolution`: the widest gap between knots; the
lobe period it is compared with in a log line is left out), how folds are dealt, which figures
a set of folds has, and the record of them in its current and its older form. Whether
a fold can be refitted is computed from its training split, and may fail for numerical reasons on
top of that.

`CalibrationReport` is `validate_calibration` without its averages: the lobes and regions a
measurement is dealt to, the outliers, the folds reported, and the verdict. The error of a
prediction is an arbitrary choice per cone angle.

## 3. What the runs check

| Run | Instance | States | Shows |
|---|---|---|---|
| `admission` | 3 requests, 2 slots, 2 pool threads | 459 477 | slots conserved and owned by live requests only; replies honest and final; the window closes by the timer alone; abandoned tasks drain |
| `service` | 2 requests, 1 slot, 1 pool thread, both settings of `fail_fast` and delay | 362 158 | types, the request pipeline's included; readiness is earned; a drain, a cleanup and an exit leave nothing behind; shutdown terminates |
| `gain_cache` | 2 threads, 1 feed, 4 directions on 3 keys, capacity 2, 1 invalidation, cache on and off | 279 832 | LRU shape, ownership of entries, refinement of `GainMemo` |
| `startup` | 3 antennas, 2 feeds, every pair of 39 entries and triples of readable and unreadable ones, all layers | 608 766 | fallbacks keep what can be kept; antennas are served and listed whole; what is listed has its model built, unless it is marginal; fail-fast is all or nothing; refinement of `LoadCalibration` |
| `artifact_file` | 2 writers, 10 artifacts of 1 or 2 parts, repeated reads | 327 544 | what is accepted was written whole, and nothing foreign is decoded; an undisturbed file is judged on its merits |
| `grid` | 4 calibrations, 560 requests: batches of up to 3 items of 6 kinds and full ones, grids of up to 6 points, disks of 5 cells; 13 poses, of which 6 are refused (boresight, emitter or aim at the vehicle, a degenerate attitude, a vehicle or an aim too far off) | 148 721 | numbers stay with their points, and feeds with their aims where rounding allows; failed points cost only themselves and the summary is honest; nothing is computed for a refused request |
| `grid_steered` | single gains in three poses, one with a residue | - | **violated**: a feed moved to a side that is not opposite its aim (finding 3) |
| `integration` | 8 geometries under the code's own sizes | 393 054 | an estimate was measured and a verdict earned; work is bounded by the clock or by the caps |
| `served_gain` | 5 artifacts, 13 requests, both routes, 2 cells | 30 812 | cached as direct; warnings true of what is served; spillover and floor counted once; extrapolation told |
| `served_gain_squint` | the same, and a query behind a squinting feed | - | **violated**: the rear hemisphere is served as the front (finding 2) |
| `calibrate` | 209 command lines: grids of 8 to 42 rows, complete and not, sweeps of 0 to 6, 1, 3, 4, 5 and 37 folds, 5 patterns of errors, sound and unsound designs, all tuning modes | 51 216 | the served model and correction are the fitted ones and as fine as recorded; what was measured is covered, and coefficients rest on it; folds and report account for every point; "done" means written, and a refusal leaves files alone |
| `calibrate_full_turn` | grids measured at clock angles 180 to 360 | - | **violated**: a measured direction that the artifact does not cover as the service names it (finding 1) |

Why the bounds are enough. Three requests are one more than the slots, so a full semaphore, a
503 and a reuse of a freed slot all happen, and one more than the threads, so a task queues
behind abandoned ones. In `service` two requests are one more than the slot and the thread. Two
threads are what it takes to race on a key; three keys are one more than the capacity, so
eviction happens; two directions share a key, so a hit can return another direction's
value; one invalidation separates two epochs. `MaxEpoch` is the only bound on a counter. One
feed is enough for TLC because caches of different feeds share no state. In `startup` entries
interact through duplicate ids, through the repository and through the loop's early end:
pairs show the first two, and a failure before, between and after two loads needs three. Two
writers are what it takes to overlap, two parts what it takes to tear a payload or to mix two;
`MaxParts` is the only bound there. In `grid` the limits are scaled down and both
sides of each are among the requests: `MaxBatch` is 5, `MaxPoints` 6, `MaxRings` 2, and rayon
starts at 4 (`ParallelFrom`; the code has 5, 100 and 20). A grid of 3 by 2 tells rows from
columns, and its points lie in and out of the coverage; `Sentinel` is larger than any loss.

`integration` keeps every constant of the code. Its geometries reach each cap: an electrically
huge dish starts at `RadialMax`, so a first leg has no finer one but twice the cap; beam steers
by 0.09 and 0.4 of the focal length bind the mode cap and the azimuthal cap; one feed is beyond
the scope of physical optics, and one elliptical feed is at the density cap. `Totals` holds values
that agree, agree within one tolerance but not the other, and differ. In `served_gain` the
requests are pairs about the edges of each regime that share a cell, and two
cells make every order of fill, hit and eviction of three keys happen; the set `Unconverged` has
an integration of each kind.

In `calibrate` the spline
order is 2 (the code's is 4; the boresight correction keeps its own, 3), so a fit needs 27 points
and grids of 36 are enough to have one whose
folds can be refitted or not depending on their number, one that fits whole and in no fold because
it has exactly as many points as coefficients, and ones that are too small or too narrow; knots and spacings are
scaled with it. The fold counts include 1 (no cross-validation), divisors and non-divisors of the
number of points, and more folds than points. The patterns of errors put inaccuracy on the borders
of the lobes, inside and outside the ones the verdict looks at, and below the outlier threshold.

Deadlock is checked in `gain_cache`, `artifact_file` and `served_gain`. The other models stop:
every request of a finite set ends, the process exits, or has settled how it starts, a task or an
integration ends with its answer and a command with its exit status.

### Fairness

- `TimerFairness`: the runtime's timer fires. It is justified by the code only because the
  handlers move compute off the async workers; the mutant `TimeOutNotPreemptive` breaks
  `WindowCloses`.
- `PoolFairness`: a free thread takes a queued task, and compute ends, being a finite loop
  under `integration_budget_ms`.
- `ServiceSpec`: weak fairness of the process's own steps and of finishing tasks. Requests,
  clients, uploads and signals are never assumed fair: a stalled upload is what
  `DrainTimeout` is for.

### Findings

1. `to_polar_convention` promises a clock angle in [0, 360) but keeps a measured 360. A grid
   that starts at 180 and ends at 360 yields coverage [180, 360]; the service names the last
   direction 0 and does not find it covered.
2. `apply_beam_squint_correction` shifts the sine of the polar angle and takes it back by `asin`,
   which ends at 90 degrees. With a displaced feed that was pointed for another frequency, a query
   behind the dish is evaluated at its mirror image in front of it, and answered without the
   `rear_hemisphere_invalid` that the API documentation promises for any such query.
3. `compute_feed_position_from_pointing` subtracts the azimuth of the boresight from that of the aim,
   on the ground that it is zero "by definition". It is the `atan2` of two coordinates that are zero
   but for rounding: exactly zero for some geometries, and for others any angle. The feed is then
   moved the right distance in a direction that has nothing to do with its aim, and the beam lands
   somewhere else on the cone. An attitude does not help; its two tests compare the function
   with itself, and ask that two vehicles get different feeds.

Met on the way, without a run of their own:

- The limit on heavy requests bounds requests, not computations: a timeout frees the slot and
  leaves the task running (`api/middleware.rs:744`). A comment there concedes it; the
  documentation in `settings.rs:192` promises more.
- A signal handler that cannot be installed ends `shutdown_signal` (`api/mod.rs:528`), so the
  service shuts itself down; `serve` documents that it runs until a signal arrives.
- `evaluate_cached` documents that it is observationally identical to `evaluate_direct`, but cache
  keys are rounded to 0.001 degree (`service/cache.rs:96`). Where a cell lies across 90 degrees or
  an offset at which the regime changes, the term served is one of the other regime, under the
  warnings of this one; `ToldAsServed` says which warnings stay true regardless.
- `estimate_spillover` says that a feed offset increases spillover (`edge_cases.rs:193`). It widens the
  angle within which power counts as captured, so the estimate falls until the angle passes 90
  degrees, where it jumps to 100 %; its test uses an offset beyond the jump. A moderately steered feed is
  credited with less spillover than the ideal antenna its loss is measured against.
- The angles of a heatmap are azimuth and elevation at the vehicle, from north and from the horizon
  (`heatmap.rs:381`), while every other angle of the service is of the antenna frame. It takes no
  attitude, so its clock angles are those of the reference that jumps near the Earth's axis. What
  the comments there call East is the second ECEF axis (`coordinates_3d.rs:519-520`).
- The reference gain may fail to converge without a warning: its own outcome is dropped.
- At the density cap the comparison is between 65 537, 131 073 and then 131 075 samples, not between
  N and 2N as the documentation of the estimate has it (`integration.rs`, `refine_radial`).
- The API documentation (line 243) gives each feed of an antenna a calibration of its own. An
  artifact holds one feed, an entry names one artifact, and an antenna id may occur once
  (`settings.rs:916`). What a listing says of an antenna is taken from its alphabetically
  first feed (`api/handlers.rs`).
- A geometry only the transform can reject is a 422 for single gains and h3, as the status policy of
  the API documentation has it (lines 712-725), but failed items or points of a 200 for batch and
  heatmap (`heatmap.rs:368`). Such a geometry is also a position farther off than 406378 km: the
  validator bounds each coordinate by 400000 km (`validator.rs:308`), the transform their magnitude
  (`coordinates_3d.rs:183`). In a batch an unknown antenna is reported as an unknown feed
  (`batch.rs:448`).
- A boresight feed is tuned at the focus and stamped, and served, at its design offset
  (`boresight_calibration.rs:726`). `design_specs/medium_groundstation.yaml` has such a feed;
  `ServedAsFitted` excepts it by name.
- A reflector whose focal length and diameter have a quotient up to 1 % outside the supported range,
  while the ratio stated beside them is inside it, passes the validation of design specs
  (`settings.rs:798`) and of the artifact (`antenna-core/src/artifact/validation.rs:87-96`), and so
  does a uniform feed pattern, q = 0. The model builder refuses both at every request
  (`geometry.rs:118`, `:248`), so such a feed is listed and never answers. The comment at
  `geometry.rs:20` has the range "shared by every f/D validation site". `AntennasWhole` excepts them
  by name (`Marginal`). `evaluator.rs:174` calls a reflector error "unreachable" there,
  because artifact validation rejected before whatever the builder could.
- A fit is refused if it has fewer points than coefficients, because that count "decides whether the
  least-squares system is determined" (`calibrate/src/correction_surface.rs:1065`). It does not where
  the points are no grid: with the outer angles measured near one principal plane only, there are
  points enough, and the coefficients of the far corner are determined by the ridge term alone. Nor
  does it where an axis was measured at its two ends only, say at two frequencies: it gets no interior
  knot and four coefficients, of which the two in the middle count at neither end.
  `MeasuredIsCovered` asks for measurements behind every coefficient where `GridComplete`, which excludes both.
- A heatmap's axis is filled up to an absolute tolerance of 1e-9 (`heatmap.rs:296-309`): for steps
  not larger than that it has more points than the validator counted.
- Folds are strided by index, so where the length of the fastest axis is a multiple of the number
  of folds, whole slabs are held out together. The support-aware figures report that.
- A mesh the optimizer makes impossible ends a tuned run, where a value out of bounds is only
  penalized.
- The report: `frequency_bands: vec![]` is commented "Use default bands" (`calibrate/src/main.rs:198`)
  and yields no band analysis at all; the region titled "Main lobe" begins where the main lobe of the
  verdict ends, "Far field (>20)" includes 20 and excludes 90 degrees, the summary says "error >1 dB"
  of a threshold of 3 dB, and a lobe without measurements meets its target. `--report` is ignored in
  boresight mode.

## 4. What is proved

Every theorem is of the whole specification and for every value of the constants that the named
assumptions allow. Each proof module has one inductive invariant, one lemma per action that keeps
it, and theorems that follow from it.

`ServiceProofs` begins with `Admission` by itself, for every finite set of requests, every limit and
every pool: types, the accounting of slots, `ReplyMatchesTask`, and the action properties
`OverloadIsHonest` and `AnswerIsFinal`. `PermitConservation` alone is not inductive: a release must
know that a request is in `holders` exactly when it leaves, which is `HoldersAreLive`, and that
`holders` is finite, which is `TypeOK` (TLC checks it as a conjunct of `ServiceTypeOK`). `HoldersAreLive` needs that a request outside the window holds
nothing, and a reply is matched with its task only because `TaskFollowsPhase` and `ReplyFollowsPhase`
say which tasks and replies each phase can have. `ReleaseKeepsPermits` and `TakeKeepsPermits` do the
arithmetic of cardinalities once. Of the whole process it then proves types, `ReadyIsEarned` and
`DrainLeavesNothing`: the same invariant, whose lemmas about steps are reused inside the process,
with what each stage of the process implies: nobody is in before serving, nobody is left after the
drain, a closing pool starts nothing, and whoever comes to the end of the way has cleaned up.

`GainCacheProofs`, for any threads, feeds, directions, quantization and capacity: types,
`LruWellFormed`, `EntriesBelong`, and the refinement `CacheIsMemo == Spec => ImplementsMemo`.
`FrontFacts` says once what `put` and promotion do to a sequence: it stays duplicate-free, within
capacity and loses at most what they evict. The refinement needs no more than that, for a memo may
forget: each step of a call is a step of `GainMemo`'s client or a stutter.

`StartupProofs`, for any ids and lists: types, `LayersSurvive`, `AllOrNothing`, `AntennasWhole`, and
the refinement `StartupIsLoad == Spec => ImplementsLoad`. The loop's invariant is that the
repository holds what the entries already passed yield, that the count is positive exactly if one of
them loaded, and that under `fail_fast` all of them did. `AntennasWhole` further needs that in a valid
list an entry that cannot be loaded yields nothing, and that ids are unique, so that no entry adds
to another's antenna; that what an entry yields is of one dish and valid as an artifact
(`WholeOrNothing`); and that a valid artifact has its model built or is marginal
(`ValidBuildsOrMarginal`), which is arithmetic on quotients within one per cent.

`ArtifactFileProofs`, for any number of runs and any artifacts: types, `OnlyWholeAccepted`,
`OwnFormatOnly` and `QuietReadFaithful`. `AcceptedIsWhole` speaks of a verdict, which is only as good
as the header it was reached with: every header in the file is one that `Encode` made
(`HeadersInFile`), so is the one a reader holds (`HeadersRead`), and a payload that matches such a
header's length and checksum is that artifact (`VerdictWhole`). `QuietReadFaithful` rests on a second
invariant about who had the file to himself since it was opened (`QInv`).

`GridProofs`, for any repository, requests, squint and limits: types (that an answer is finished and
well-shaped), `CheckedFirst`, `SummaryHonest` and `ResultsPlaced`. First comes the arithmetic of rows
and columns: one index names one cell of a grid, so that `Reshape` puts no number under the wrong
angles. Then what the validators let through: a checked request has at least one and at most so many
points as its endpoint takes, each with an aim, a frame and a residue (`PointsFacts`). The inductive
invariant says of each phase what is known of the request and of the slots filled so far, and of an
answer that it was a refusal, a preparation that failed, or assembled from one slot for each point.
The theorems are then about one vector of slots: its peak is one of its values and none is above it, a
failed slot takes part in no figure, a loss is relative to the peak of those that did not fail, and the
sentinel stays beside failures only. Of gains, corrected or not, it is assumed that they
are less than half the sentinel in size (`Modest`), so that no difference of two reaches it; the code's
floor of -60 dB and its sentinel of 999 999 leave far more.

`IntegrationProofs`, for any caps, strides, tolerances and geometries: types, `EstimatesMeasured`,
`VerdictsEarned`, `ProbesAliasFree` and `CallsEnd`, which is all of `WorkBounded`. The invariant relates
the leg under way to the last two completed ones, and the samples since the last poll to the overrun.
Its arithmetic is that of the sizes: densities are odd and at most one sample above twice the cap,
and the mode cap leaves the probe mode below half the azimuthal samples. That the cost of a call stays
within that of doubling (`CostBounded`) needs powers of two: `Doubled` is shown to exist as the
function it recurs to, by its least failure instead of an induction, and a second invariant
(`WithinDoubling`) ties what was spent to the number of refinements.

`ServedGainProofs`, for any dish, artifacts, requests, failing integrations and cache: types,
`CachedLikeDirect`, `FromOwnCell`, `NothingCountedTwice`, `ExtrapolationIsTold`, `PhysicsIsTold`. The
invariant says that every cell stores what some request of that cell would have stored, hence that
every answer is assembled on the strength of some request of its own cell; the theorems are then
about that one request. Types need a second invariant, that the cache holds no more cells than it
may (`Bounded`). That a claim of coverage lies within the surface's support is an assumption on
artifacts (`Artifact`), which is what the repository validates.

`CalibrateProofs`, for any command lines, data and design, orders of splines, numbers and
spacings of knots:

- `OutcomeIsHonest`, and `ModelAsFitted`, the part of `ServedAsFitted` that is about models. The
  invariant follows the steps: a correction belongs to the model whose residuals are judged, the
  gates of that model foretell whether a correction ships, and a file is touched only once the
  artifact exists.
- `TypeCorrect`, `EveryPointIsAccounted`, `ArtifactServedAsFitted` and `MeasuredAndCovered`, from a second
  invariant `AllKept`, which says what each stage has made of the data. `DataKept`: the points are the
  usable rows, in polar convention, in their order. `SurfaceKept`: a surface clamps its axes to
  what was measured, with knots in between. `BuiltKept`: the artifact has coverage, resolution and wire form
  of that surface. `FoldsKept`: the folds already run hold each point out exactly once, as far as
  they have come. `ReportKept`: lobes and regions split the measurements, none is lost or counted
  twice, and the outliers are some of them.
- `FoldsPartition`: every measurement is held out by exactly one fold whatever their number; and
  `LegacyNamesScored`: the older form of a cross-validation record still names the folds that
  were scored.

What these rest on is what sums, filters and quantiles return. The community modules define
such folds by a function chosen to satisfy a recursion. `FoldExists` builds it for finite sets, so that
the choice is known to be good, and what it returns is then shown of all subsets by taking a least
one of which it fails. `ArtifactServedAsFitted` adds that reading the wire form gives the surface
back (`SurfaceReadBack`), since a clamped knot vector determines its axis, and that the recorded resolution
is the widest gap of the knots served.

`MeasuredAndCovered` is the whole of `MeasuredIsCovered`. That no usable row is lost and each lies in the
coverage follows from `AllKept`. What remains is about the spline, for any order up to 10, any knots
that `AxisValid` admits and any value in the support:

- The bounds of a valid axis are repeated exactly as often as the order, so no other knot lies on them
  (`ClampedKnots`), and the bisection ends at the span that holds the value (`SearchFinds`, by the
  least interval of which it would not).
- In such a span no denominator vanishes, no weight is negative and the weights of each level add up
  to those of the level below times its common denominator (`LevelFacts`); hence the weights of the
  last level add up to `total` (`BasisFacts`). The same step says which of them are positive.
- The stencil numbers the coefficients of the three axes in mixed radix: they exist, and no two
  share a number (`NumberedFacts`). That is `Averages`, for every point inside the surface.
- A third invariant, `FittedKept`, says that a sweep is on boresight and that in full mode the surface is the
  one fitted to all measurements. Its interior knots are measured values and rise strictly (`AxisFitted`,
  `ThinRises`). At an interior knot all but the last of the coefficients that count there have a positive
  weight, the first of an axis has one at its lower bound and the last at its upper
  (`AxisCoefficients`), so after a complete grid every coefficient has a measurement (`GridInforms`).

Assumptions are the named ASSUMEs of the modules (finitely many requests, capacities at least one,
sizes with the parity the code's own assertion has, artifacts as the loader lets them through); TLC
evaluates them in the runs.

Only model-checked: liveness (`WindowCloses`, `TasksDrain`, `ShutdownTerminates`), which is beyond the prover.

## 5. What is not modelled, and why

- Numerics: quadrature, Bessel functions, FFT, phases, illumination, mesh and ray geometry, path
  loss, G/T, geodetic conversion, the size of angles and the least-squares solve are functions on floats. Where a
  property depends on their outcome, the model leaves that outcome open.
- The rounding of a heatmap's axis (`heatmap.rs:299`), where repeated addition of a step drifts or
  never advances: axes are integers here.
- Schemas, OpenAPI, logging, CORS, tracing and deployment files hold no state and neither reject
  nor suspend a request.
- Fetching measurements from S3, the syntax of CSV and data-quality reports.
- The reference-grid tool (`calibrate/src/bin/cr159703_grid.rs`), which prints a table.

About 11 200 source lines are mapped, of some 29 000 that are not tests, 16 500 of which are code. Much
of the remainder is the numerics above, records, and documentation comments; nearly half of the
lines of the source files are unit tests.

## 6. Plan

What could be carried further, in this order:

1. `Admission` and `ServedGain` composed: a request's compute as the evaluation it runs, with the
   budget of `Integration` as what ends it.

No module that a proof reaches declares a `RECURSIVE` operator.
