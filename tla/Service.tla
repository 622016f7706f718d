------------------------------- MODULE Service -------------------------------
(***************************************************************************)
(* The running service: the request pipeline of Admission inside the       *)
(* process life of Lifecycle.  The accept loop decides which requests get  *)
(* in, the repository decides which can be computed, and a drain waits for *)
(* the requests and, last of all, the process waits for the tasks.         *)
(***************************************************************************)
EXTENDS Admission

VARIABLES settings, stage, ready, loaded, handlers, signalled, cleaned, status

L == INSTANCE Lifecycle

pipeline  == vars
lifecycle == <<settings, stage, ready, loaded, handlers, signalled, cleaned, status>>
allVars   == <<pipeline, lifecycle>>

Alive == {r \in Requests : phase[r] \in Pending}

ServiceInit == Init /\ L!Init

(* The accept loop hands a connection's request to the middleware. *)
Accept(r) == L!Accepting /\ Receive(r) /\ UNCHANGED lifecycle

(* With an empty repository the validator rejects every request, so none   *)
(* of them reaches the pool.                                               *)
Handle(r) ==
  /\ L!Connected
  /\ \/ BufferBody(r) \/ Reject(r) \/ Deliver(r) \/ TimeOut(r) \/ Disconnect(r)
     \/ loaded /\ Submit(r)
  /\ UNCHANGED lifecycle

Compute(r) ==
  /\ \/ FinishTask(r)
     \/ stage # "closing" /\ StartTask(r)
  /\ UNCHANGED lifecycle

Startup ==
  /\ L!LoadCalibration \/ L!Bind \/ L!Serve
  /\ UNCHANGED pipeline

Signal == L!Signal /\ UNCHANGED pipeline

(* Mutant: the drain waits for the accept loop only. *)
DrainedRegardless == L!EndDrain /\ UNCHANGED pipeline

Drained == Alive = {} /\ L!EndDrain /\ UNCHANGED pipeline

(* Mutant: no drain timeout (None), as before the shutdown rework. *)
DrainTimeoutNone == FALSE /\ UNCHANGED allVars

DrainTimeout == Alive # {} /\ L!EndDrain /\ CutConnections

StopServing == (L!BeginShutdown \/ L!StopAccepting) /\ UNCHANGED pipeline

Finish == L!Cleanup /\ UNCHANGED pipeline

CloseRuntime == L!DropRuntime /\ DiscardQueued

Exit == Running = {} /\ L!Exit /\ UNCHANGED pipeline

ServiceNext ==
  \/ \E r \in Requests : Accept(r) \/ Handle(r) \/ Compute(r)
  \/ Startup
  \/ Signal
  \/ StopServing
  \/ Drained
  \/ DrainTimeout
  \/ Finish
  \/ CloseRuntime
  \/ Exit

(***************************************************************************)
(* The process keeps running its own code, timers fire and compute is      *)
(* finite.  Clients and operators owe nothing: requests, disconnects and   *)
(* signals are not fair, and neither is a body upload.                     *)
(***************************************************************************)
ServiceSpec ==
  /\ ServiceInit /\ [][ServiceNext]_allVars
  /\ WF_allVars(Startup) /\ WF_allVars(StopServing)
  /\ WF_allVars(Drained) /\ WF_allVars(DrainTimeout)
  /\ WF_allVars(Finish) /\ WF_allVars(CloseRuntime) /\ WF_allVars(Exit)
  /\ \A r \in Requests : WF_allVars(FinishTask(r) /\ UNCHANGED lifecycle)

-----------------------------------------------------------------------------
ServiceTypeOK == TypeOK /\ L!TypeOK

(* The service advertises readiness only while it holds calibration data   *)
(* and has not begun to shut down.                                         *)
ReadyIsEarned == ready => loaded /\ ~L!ShuttingDown

(* Once the drain is over no request is left inside the pipeline and every *)
(* permit is back, whether requests finished or were cut.  A process that  *)
(* built its state never leaves without cleanup, except when a signal      *)
(* kills it during startup; and no compute outlives it.                    *)
DrainLeavesNothing ==
  /\ stage \in {"drained", "returned", "closing"} =>
       /\ Alive = {}
       /\ permits = HeavyLimit
  /\ stage = "exited" =>
       /\ Running = {}
       /\ (loaded /\ status # "killed") => cleaned

(* A shutdown that has begun ends, however slow the clients are: the drain *)
(* is bounded and the running tasks are finite.                            *)
ShutdownTerminates == L!ShuttingDown ~> stage = "exited"
=============================================================================
