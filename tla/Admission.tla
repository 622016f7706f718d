------------------------------ MODULE Admission ------------------------------
(***************************************************************************)
(* The request pipeline of the compute endpoints: body-size enforcement,   *)
(* request timeout, admission control, and the compute that a handler      *)
(* hands to the blocking pool.                                             *)
(*                                                                         *)
(* A request crosses RequestSizeTracker, RequestTimeout and, on the heavy  *)
(* endpoints only, ConcurrencyLimit before its handler runs.  The handler  *)
(* extracts and validates the body, submits a blocking task and awaits it. *)
(* A timeout or a departed client drops the handler's future, and with it  *)
(* the semaphore permit, but never the task: from then on the two lead     *)
(* separate lives, which is what this module is about.                     *)
(***************************************************************************)
EXTENDS Integers, FiniteSets

CONSTANTS
  Requests,      (* the requests clients may send                           *)
  HeavyLimit,    (* performance.max_concurrent_heavy_requests; 0: unlimited *)
  PoolThreads    (* threads of the runtime's blocking pool                  *)

ASSUME AdmissionAssumption ==
  /\ IsFiniteSet(Requests)
  /\ HeavyLimit \in Nat
  /\ PoolThreads \in Nat \ {0}

VARIABLES
  endpoint,  (* "light" (/gain) or "heavy" (batch, heatmap, h3-heatmap)     *)
  phase,     (* where the request's future is suspended                     *)
  permits,   (* permits left in the shared semaphore                        *)
  holders,   (* requests whose future owns a permit                         *)
  task,      (* the blocking task of each request, or its outcome           *)
  reply      (* the code of the answer sent to the client                   *)

vars == <<endpoint, phase, permits, holders, task, reply>>

Endpoints == {"none", "light", "heavy"}

(* "upload": RequestSizeTracker buffers a body of undeclared length, which *)
(* happens outside the timeout window.  "extracting": the handler's Json   *)
(* extractor reads a declared body.  "awaiting": the handler awaits its    *)
(* blocking task.  "dropped": the connection died before an answer.        *)
Phases == {"idle", "upload", "extracting", "awaiting", "answered", "dropped"}

InWindow == {"extracting", "awaiting"}
Pending  == InWindow \cup {"upload"}

(* What a finished task yields: the response, one of the service errors    *)
(* that service_status tells apart, or a panic seen as a JoinError.        *)
Outcomes == {"served", "absent", "invalid", "over_budget", "fault", "panic"}
Tasks    == {"none", "queued", "running", "discarded"} \cup Outcomes

Codes == {"none", "ok", "invalid_request_body", "payload_too_large",
          "service_overloaded", "request_timeout", "not_found",
          "validation_error", "computation_budget_exceeded", "internal_error"}

(* Mutant: the handler unwraps a panicked task into an empty success. *)
CodeOfSwallowsPanic(outcome) ==
  CASE outcome \in {"served", "panic"} -> "ok"
    [] outcome = "absent"      -> "not_found"
    [] outcome = "invalid"     -> "validation_error"
    [] outcome = "over_budget" -> "computation_budget_exceeded"
    [] OTHER                   -> "internal_error"

(* service_status, and the handlers' JoinError arm *)
CodeOf(outcome) ==
  CASE outcome = "served"      -> "ok"
    [] outcome = "absent"      -> "not_found"
    [] outcome = "invalid"     -> "validation_error"
    [] outcome = "over_budget" -> "computation_budget_exceeded"
    [] OTHER                   -> "internal_error"

Limited(e) == HeavyLimit > 0 /\ e = "heavy"

Running == {r \in Requests : task[r] = "running"}

Init ==
  /\ endpoint = [r \in Requests |-> "none"]
  /\ phase    = [r \in Requests |-> "idle"]
  /\ permits  = HeavyLimit
  /\ holders  = {}
  /\ task     = [r \in Requests |-> "none"]
  /\ reply    = [r \in Requests |-> "none"]

(* Mutant: leaving the pipeline returns a permit to a request without one. *)
ReleasePermitUnowned(r) ==
  /\ holders' = holders \ {r}
  /\ permits' = permits + 1

(***************************************************************************)
(* Dropping a request's future drops the permit it owns.                   *)
(***************************************************************************)
ReleasePermit(r) ==
  /\ holders' = holders \ {r}
  /\ permits' = IF r \in holders THEN permits + 1 ELSE permits

KeepPermits == UNCHANGED <<permits, holders>>

Answer(r, code) ==
  /\ phase' = [phase EXCEPT ![r] = "answered"]
  /\ reply' = [reply EXCEPT ![r] = code]

(* Mutant: the last free permit is refused. *)
EnterWindowOffByOne(r, e) ==
  \/ /\ ~Limited(e) \/ permits > 1
     /\ phase' = [phase EXCEPT ![r] = "extracting"]
     /\ IF Limited(e)
          THEN permits' = permits - 1 /\ holders' = holders \cup {r}
          ELSE KeepPermits
     /\ UNCHANGED reply
  \/ /\ Limited(e)
     /\ permits <= 1
     /\ Answer(r, "service_overloaded")
     /\ KeepPermits

(***************************************************************************)
(* RequestTimeout starts its window and polls ConcurrencyLimit, which      *)
(* takes a permit without waiting or rejects at once: no await separates   *)
(* the two, so they are one step.                                          *)
(***************************************************************************)
EnterWindow(r, e) ==
  \/ /\ ~Limited(e)
     /\ phase' = [phase EXCEPT ![r] = "extracting"]
     /\ KeepPermits
     /\ UNCHANGED reply
  \/ /\ Limited(e)
     /\ permits > 0
     /\ permits' = permits - 1
     /\ holders' = holders \cup {r}
     /\ phase' = [phase EXCEPT ![r] = "extracting"]
     /\ UNCHANGED reply
  \/ /\ Limited(e)
     /\ permits = 0
     /\ Answer(r, "service_overloaded")
     /\ KeepPermits

(* A request whose Content-Length is within the limit, or above it. *)
ReceiveDeclared(r) ==
  /\ phase[r] = "idle"
  /\ \E e \in {"light", "heavy"} :
       /\ endpoint' = [endpoint EXCEPT ![r] = e]
       /\ \/ EnterWindow(r, e)
          \/ Answer(r, "payload_too_large") /\ KeepPermits
  /\ UNCHANGED task

(* A request of undeclared length: its body is buffered first. *)
ReceiveChunked(r) ==
  /\ phase[r] = "idle"
  /\ \E e \in {"light", "heavy"} : endpoint' = [endpoint EXCEPT ![r] = e]
  /\ phase' = [phase EXCEPT ![r] = "upload"]
  /\ UNCHANGED <<permits, holders, task, reply>>

(* The buffered body fits, exceeds the limit, or breaks off. *)
BufferBody(r) ==
  /\ phase[r] = "upload"
  /\ \/ EnterWindow(r, endpoint[r])
     \/ Answer(r, "payload_too_large") /\ KeepPermits
     \/ Answer(r, "invalid_request_body") /\ KeepPermits
  /\ UNCHANGED <<endpoint, task>>

(* The extractor or the validator rejects: no task is ever submitted. *)
Reject(r) ==
  /\ phase[r] = "extracting"
  /\ \E code \in {"invalid_request_body", "not_found", "validation_error"} :
       Answer(r, code)
  /\ ReleasePermit(r)
  /\ UNCHANGED <<endpoint, task>>

(* The request is valid: spawn_blocking, then await the join handle. *)
Submit(r) ==
  /\ phase[r] = "extracting"
  /\ phase' = [phase EXCEPT ![r] = "awaiting"]
  /\ task'  = [task EXCEPT ![r] = "queued"]
  /\ UNCHANGED <<endpoint, permits, holders, reply>>

(* Mutant: dropping the join handle aborts a task that is still queued. *)
StartTaskIfAwaited(r) ==
  /\ task[r] = "queued"
  /\ phase[r] = "awaiting"
  /\ Cardinality(Running) < PoolThreads
  /\ task' = [task EXCEPT ![r] = "running"]
  /\ UNCHANGED <<endpoint, phase, permits, holders, reply>>

(* The blocking pool (external) picks a queued task and runs it to its end *)
(* whether or not anybody still awaits it.                                 *)
StartTask(r) ==
  /\ task[r] = "queued"
  /\ Cardinality(Running) < PoolThreads
  /\ task' = [task EXCEPT ![r] = "running"]
  /\ UNCHANGED <<endpoint, phase, permits, holders, reply>>

FinishTask(r) ==
  /\ task[r] = "running"
  /\ \E outcome \in Outcomes : task' = [task EXCEPT ![r] = outcome]
  /\ UNCHANGED <<endpoint, phase, permits, holders, reply>>

(* Mutant: the result of an abandoned task is still delivered. *)
DeliverLate(r) ==
  /\ phase[r] \in {"awaiting", "answered"}
  /\ task[r] \in Outcomes
  /\ Answer(r, CodeOf(task[r]))
  /\ ReleasePermit(r)
  /\ UNCHANGED <<endpoint, task>>

(* The join handle resolves and the handler answers with its result. *)
Deliver(r) ==
  /\ phase[r] = "awaiting"
  /\ task[r] \in Outcomes
  /\ Answer(r, CodeOf(task[r]))
  /\ ReleasePermit(r)
  /\ UNCHANGED <<endpoint, task>>

(* Mutants: the permit is forgotten with the future; compute on the async  *)
(* worker keeps the timer from firing.                                     *)
TimeOutLeaksPermit(r) ==
  /\ phase[r] \in InWindow
  /\ Answer(r, "request_timeout")
  /\ holders' = holders \ {r}
  /\ UNCHANGED <<endpoint, task, permits>>

TimeOutNotPreemptive(r) ==
  /\ phase[r] = "extracting"
  /\ Answer(r, "request_timeout")
  /\ ReleasePermit(r)
  /\ UNCHANGED <<endpoint, task>>

(* The request timer fires first: 504, and the future below it is dropped. *)
TimeOut(r) ==
  /\ phase[r] \in InWindow
  /\ Answer(r, "request_timeout")
  /\ ReleasePermit(r)
  /\ UNCHANGED <<endpoint, task>>

(* The connection ends (external: hyper drops the whole future). *)
Disconnect(r) ==
  /\ phase[r] \in Pending
  /\ phase' = [phase EXCEPT ![r] = "dropped"]
  /\ ReleasePermit(r)
  /\ UNCHANGED <<endpoint, task, reply>>

(***************************************************************************)
(* Two steps the server takes as it stops (Service composes them; Next     *)
(* does not).  When the drain timeout elapses poem cancels every remaining *)
(* connection, and when the runtime is dropped the pool forgets the tasks  *)
(* it has not started.                                                     *)
(***************************************************************************)
CutConnections ==
  /\ phase' = [r \in Requests |-> IF phase[r] \in Pending THEN "dropped" ELSE phase[r]]
  /\ permits' = permits + Cardinality(holders)
  /\ holders' = {}
  /\ UNCHANGED <<endpoint, task, reply>>

DiscardQueued ==
  /\ task' = [r \in Requests |-> IF task[r] = "queued" THEN "discarded" ELSE task[r]]
  /\ UNCHANGED <<endpoint, phase, permits, holders, reply>>

Receive(r) == ReceiveDeclared(r) \/ ReceiveChunked(r)

RequestStep(r) ==
  \/ BufferBody(r)
  \/ Reject(r)
  \/ Submit(r)
  \/ Deliver(r)
  \/ TimeOut(r)
  \/ Disconnect(r)

PoolStep(r) == StartTask(r) \/ FinishTask(r)

Next == \E r \in Requests : Receive(r) \/ RequestStep(r) \/ PoolStep(r)

(***************************************************************************)
(* The runtime's timer fires; nothing else is promised to a request.       *)
(* Separately, a pool thread that is free takes a queued task, and compute *)
(* is a finite loop.                                                       *)
(***************************************************************************)
TimerFairness == \A r \in Requests : WF_vars(TimeOut(r))
PoolFairness  == \A r \in Requests : WF_vars(StartTask(r)) /\ WF_vars(FinishTask(r))

Spec == Init /\ [][Next]_vars

-----------------------------------------------------------------------------
(* Every variable stays within its type. *)
TypeOK ==
  /\ endpoint \in [Requests -> Endpoints]
  /\ phase    \in [Requests -> Phases]
  /\ permits  \in 0..HeavyLimit
  /\ holders  \in SUBSET Requests
  /\ task     \in [Requests -> Tasks]
  /\ reply    \in [Requests -> Codes]

(* No slot is ever lost or minted: whichever way a request ends (answer,   *)
(* rejection, panic, timeout, departed client), free permits and owned     *)
(* permits add up to the configured limit.                                 *)
PermitConservation == permits + Cardinality(holders) = HeavyLimit

(* A permit is owned by exactly the heavy requests inside the handler: a   *)
(* request that left keeps no slot, and none runs without one.             *)
HoldersAreLive ==
  holders = {r \in Requests : Limited(endpoint[r]) /\ phase[r] \in InWindow}

(* Both at once: every slot is free or owned by a request that needs it.   *)
SlotsAccounted == PermitConservation /\ HoldersAreLive

(* The answer tells the truth about the compute: "ok" only for a task that *)
(* was served, 400/413/503 only when nothing was computed.                 *)
ReplyMatchesTask ==
  \A r \in Requests :
    /\ reply[r] = "ok" => task[r] = "served"
    /\ reply[r] \in {"payload_too_large", "service_overloaded", "invalid_request_body"}
         => task[r] = "none"
    /\ reply[r] \in {"computation_budget_exceeded", "internal_error"}
         => task[r] \in Outcomes /\ CodeOf(task[r]) = reply[r]

(* A 503 is only ever sent while HeavyLimit other requests hold every slot *)
(* and still await their answers.                                          *)
OverloadIsHonest ==
  [][\A r \in Requests :
       reply[r] = "none" /\ reply'[r] = "service_overloaded" =>
         /\ Cardinality(holders) = HeavyLimit
         /\ \A h \in holders : h # r /\ reply[h] = "none"]_vars

(* An answer is final: a task that outlives its request (504 sent, client  *)
(* gone) never produces a second or a different answer.                    *)
AnswerIsFinal ==
  [][\A r \in Requests :
       phase[r] \in {"answered", "dropped"} => reply'[r] = reply[r]]_vars

(* Whoever enters the timeout window leaves it, even if the blocking pool  *)
(* never runs the task: only the timer is assumed fair here.               *)
WindowCloses ==
  TimerFairness =>
    \A r \in Requests : phase[r] \in InWindow ~> phase[r] \in {"answered", "dropped"}

(* An abandoned task still drains from the pool. *)
TasksDrain ==
  PoolFairness => \A r \in Requests : task[r] = "queued" ~> task[r] \in Outcomes

=============================================================================
