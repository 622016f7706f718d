------------------------------ MODULE Lifecycle ------------------------------
(***************************************************************************)
(* The life of the service process: calibration load, readiness, socket    *)
(* bind, accept loop, shutdown signal, readiness delay, bounded drain,     *)
(* cleanup and exit.  Which connections and tasks are alive is the         *)
(* business of Admission; Service composes the two.                        *)
(***************************************************************************)
EXTENDS Naturals

VARIABLES
  settings,  (* the configuration the process was started with              *)
  stage,     (* how far the process has come                                *)
  ready,     (* AppState.ready, what GET /ready reports                     *)
  loaded,    (* the repository holds at least one antenna                   *)
  handlers,  (* state of the SIGINT and SIGTERM handlers                    *)
  signalled, (* a SIGINT or SIGTERM was delivered to the process            *)
  cleaned,   (* shutdown_cleanup ran                                        *)
  status     (* exit status of the process                                  *)

vars == <<settings, stage, ready, loaded, handlers, signalled, cleaned, status>>

Stages == {"loading", "loaded", "bound", "serving", "announcing", "draining",
           "drained", "returned", "closing", "exited"}

(* The accept loop runs; a request can be in flight; shutdown has begun. *)
Accepting    == stage \in {"serving", "announcing"}
Connected    == stage \in {"serving", "announcing", "draining"}
ShuttingDown == stage \in {"announcing", "draining", "drained", "returned", "closing"}

(* fail_fast, and whether shutdown_readiness_delay_secs is not zero *)
Init ==
  /\ settings  \in [failFast : BOOLEAN, delayed : BOOLEAN]
  /\ stage     = "loading"
  /\ ready     = FALSE
  /\ loaded    = FALSE
  /\ handlers  = "none"
  /\ signalled = FALSE
  /\ cleaned   = FALSE
  /\ status    = "none"

(* Mutant: a degraded start is reported as ready. *)
LoadCalibrationReadyAnyway ==
  /\ stage = "loading"
  /\ \/ /\ stage'  = "loaded"
        /\ loaded' = TRUE
        /\ ready'  = TRUE
        /\ UNCHANGED status
     \/ /\ ~settings.failFast
        /\ stage' = "loaded"
        /\ ready' = TRUE
        /\ UNCHANGED <<loaded, status>>
     \/ /\ settings.failFast
        /\ stage'  = "exited"
        /\ status' = "failed"
        /\ UNCHANGED <<loaded, ready>>
  /\ UNCHANGED <<settings, handlers, signalled, cleaned>>

(***************************************************************************)
(* initialize_repository and the readiness decision: a failed load aborts  *)
(* startup under fail_fast and otherwise leaves an empty repository and a  *)
(* service that never becomes ready.                                       *)
(***************************************************************************)
LoadCalibration ==
  /\ stage = "loading"
  /\ \/ /\ stage'  = "loaded"
        /\ loaded' = TRUE
        /\ ready'  = TRUE
        /\ UNCHANGED status
     \/ /\ ~settings.failFast
        /\ stage' = "loaded"
        /\ UNCHANGED <<loaded, ready, status>>
     \/ /\ settings.failFast
        /\ stage'  = "exited"
        /\ status' = "failed"
        /\ UNCHANGED <<loaded, ready>>
  /\ UNCHANGED <<settings, handlers, signalled, cleaned>>

(* The listening socket is bound, or startup fails after cleaning up. *)
Bind ==
  /\ stage = "loaded"
  /\ \/ /\ stage' = "bound"
        /\ UNCHANGED <<cleaned, status>>
     \/ /\ stage'   = "exited"
        /\ cleaned' = TRUE
        /\ status'  = "failed"
  /\ UNCHANGED <<settings, ready, loaded, handlers, signalled>>

(* serve starts the accept loop; polling shutdown_signal installs the two  *)
(* handlers, and an installation may fail.                                 *)
Serve ==
  /\ stage = "bound"
  /\ stage' = "serving"
  /\ handlers' \in {"installed", "failed"}
  /\ UNCHANGED <<settings, ready, loaded, signalled, cleaned, status>>

(* SIGINT or SIGTERM.  Before the handlers exist the default disposition   *)
(* kills the process; afterwards they consume it for good (external).      *)
Signal ==
  /\ ~signalled
  /\ stage # "exited"
  /\ signalled' = TRUE
  /\ IF stage \in {"loading", "loaded", "bound"}
       THEN stage' = "exited" /\ status' = "killed"
       ELSE UNCHANGED <<stage, status>>
  /\ UNCHANGED <<settings, ready, loaded, handlers, cleaned>>

(* shutdown_signal returns, on a signal or on a handler that could not be  *)
(* installed; begin_shutdown lowers readiness before anything else.        *)
BeginShutdown ==
  /\ stage = "serving"
  /\ signalled \/ handlers = "failed"
  /\ ready' = FALSE
  /\ stage' = IF settings.delayed THEN "announcing" ELSE "draining"
  /\ UNCHANGED <<settings, loaded, handlers, signalled, cleaned, status>>

(* The readiness delay is over and poem stops accepting (external). *)
StopAccepting ==
  /\ stage = "announcing"
  /\ stage' = "draining"
  /\ UNCHANGED <<settings, ready, loaded, handlers, signalled, cleaned, status>>

(* The drain ends: no connection is left, or the drain timeout has elapsed *)
(* and the rest were cancelled (external; Service says which).             *)
EndDrain ==
  /\ stage = "draining"
  /\ stage' = "drained"
  /\ UNCHANGED <<settings, ready, loaded, handlers, signalled, cleaned, status>>

(* shutdown_cleanup, then serve and main return. *)
Cleanup ==
  /\ stage = "drained"
  /\ cleaned' = TRUE
  /\ stage' = "returned"
  /\ status' = "ok"
  /\ UNCHANGED <<settings, ready, loaded, handlers, signalled>>

(* main's runtime is dropped (external): it closes its pool, then waits    *)
(* without a limit for the tasks that are running.                         *)
DropRuntime ==
  /\ stage = "returned"
  /\ stage' = "closing"
  /\ UNCHANGED <<settings, ready, loaded, handlers, signalled, cleaned, status>>

Exit ==
  /\ stage = "closing"
  /\ stage' = "exited"
  /\ UNCHANGED <<settings, ready, loaded, handlers, signalled, cleaned, status>>

-----------------------------------------------------------------------------
TypeOK ==
  /\ settings \in [failFast : BOOLEAN, delayed : BOOLEAN]
  /\ stage \in Stages
  /\ ready \in BOOLEAN /\ loaded \in BOOLEAN
  /\ signalled \in BOOLEAN /\ cleaned \in BOOLEAN
  /\ handlers \in {"none", "installed", "failed"}
  /\ status \in {"none", "ok", "failed", "killed"}
=============================================================================
