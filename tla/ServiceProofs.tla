---------------------------- MODULE ServiceProofs ----------------------------
(***************************************************************************)
(* Proofs about the request pipeline and the process around it, for any    *)
(* finite set of requests, any limit and any pool.  First about Admission: *)
(* slots are conserved and owned by exactly the requests inside a heavy    *)
(* handler, replies tell the truth about the compute, a 503 means that     *)
(* every slot was taken, and an answer is final.  Then about Service: all  *)
(* of that still holds inside a process that starts, fails, is signalled,  *)
(* drains and exits, and the shutdown leaves nothing behind.               *)
(***************************************************************************)
EXTENDS Service, FiniteSetTheorems, TLAPS

(***************************************************************************)
(* The pipeline by itself.                                                 *)
(***************************************************************************)

(* Nothing is submitted before the handler validated the body, and nobody  *)
(* is answered without leaving the pipeline.                               *)
TaskFollowsPhase ==
  \A r \in Requests : phase[r] \in {"idle", "upload", "extracting"} => task[r] = "none"

ReplyFollowsPhase ==
  \A r \in Requests : phase[r] # "answered" => reply[r] = "none"

Permits == permits \in 0..HeavyLimit /\ holders \in SUBSET Requests /\ PermitConservation

IInv ==
  /\ TypeOK
  /\ PermitConservation
  /\ HoldersAreLive
  /\ TaskFollowsPhase
  /\ ReplyFollowsPhase
  /\ ReplyMatchesTask

-----------------------------------------------------------------------------
(* Every way out of the pipeline gives back what the request owned, and    *)
(* nothing else.                                                           *)
LEMMA ReleaseKeepsPermits ==
  ASSUME Permits, NEW r \in Requests, ReleasePermit(r)
  PROVE  Permits' /\ holders' = holders \ {r}
<1>1. IsFiniteSet(holders) /\ Cardinality(holders) \in Nat
  BY FS_Subset, FS_CardinalityType, AdmissionAssumption DEF Permits
<1>2. /\ IsFiniteSet(holders \ {r})
      /\ Cardinality(holders \ {r}) =
           IF r \in holders THEN Cardinality(holders) - 1 ELSE Cardinality(holders)
  BY <1>1, FS_RemoveElement
<1>3. Cardinality(holders \ {r}) \in Nat
  BY <1>2, FS_CardinalityType
<1> QED
  BY <1>1, <1>2, <1>3, AdmissionAssumption
  DEF Permits, PermitConservation, ReleasePermit

(* Taking a free permit moves it to its new owner. *)
LEMMA TakeKeepsPermits ==
  ASSUME Permits, NEW r \in Requests, r \notin holders, permits > 0,
         permits' = permits - 1, holders' = holders \cup {r}
  PROVE  Permits'
<1>1. IsFiniteSet(holders) /\ Cardinality(holders) \in Nat
  BY FS_Subset, FS_CardinalityType, AdmissionAssumption DEF Permits
<1>2. Cardinality(holders \cup {r}) = Cardinality(holders) + 1
  BY <1>1, FS_AddElement
<1> QED
  BY <1>1, <1>2, AdmissionAssumption DEF Permits, PermitConservation

(* EnterWindow, whatever the endpoint: the request leaves the window with  *)
(* a 503 or is inside it, and owns a permit if and only if it must.        *)
LEMMA EnterWindowKeeps ==
  ASSUME IInv, NEW r \in Requests, NEW e \in Endpoints,
         phase[r] \in {"idle", "upload"}, EnterWindow(r, e)
  PROVE  /\ Permits'
         /\ holders' = IF Limited(e) /\ phase'[r] = "extracting"
                         THEN holders \cup {r} ELSE holders
         /\ \/ phase' = [phase EXCEPT ![r] = "extracting"] /\ reply' = reply
            \/ /\ phase' = [phase EXCEPT ![r] = "answered"]
               /\ reply' = [reply EXCEPT ![r] = "service_overloaded"]
               /\ Limited(e) /\ permits = 0
<1>1. Permits
  BY DEF IInv, TypeOK, Permits
<1>2. r \notin holders
  BY DEF IInv, HoldersAreLive, InWindow
<1>3. phase \in [Requests -> Phases]
  BY DEF IInv, TypeOK
<1>4. CASE /\ ~Limited(e)
           /\ phase' = [phase EXCEPT ![r] = "extracting"]
           /\ KeepPermits
           /\ UNCHANGED reply
  BY <1>1, <1>3, <1>4 DEF KeepPermits, Permits, PermitConservation
<1>5. CASE /\ Limited(e)
           /\ permits > 0
           /\ permits' = permits - 1
           /\ holders' = holders \cup {r}
           /\ phase' = [phase EXCEPT ![r] = "extracting"]
           /\ UNCHANGED reply
  <2>1. Permits'
    BY <1>1, <1>2, <1>5, TakeKeepsPermits
  <2> QED
    BY <2>1, <1>3, <1>5
<1>6. CASE /\ Limited(e)
           /\ permits = 0
           /\ Answer(r, "service_overloaded")
           /\ KeepPermits
  BY <1>1, <1>3, <1>6 DEF KeepPermits, Permits, PermitConservation, Answer, Phases
<1> QED
  BY <1>4, <1>5, <1>6 DEF EnterWindow

-----------------------------------------------------------------------------
LEMMA InitEstablishes == Init => IInv
<1> SUFFICES ASSUME Init PROVE IInv
  OBVIOUS
<1>1. Cardinality({}) = 0
  BY FS_EmptySet
<1>2. TypeOK /\ PermitConservation
  BY <1>1, AdmissionAssumption
  DEF Init, TypeOK, PermitConservation, Endpoints, Phases, Tasks, Codes
<1> QED
  BY <1>2
  DEF Init, IInv, HoldersAreLive, TaskFollowsPhase, ReplyFollowsPhase,
      ReplyMatchesTask, InWindow, Pending

(* The invariant after a step in which request r leaves with a code that   *)
(* its task justifies, or without a code.                                  *)
LEMMA LeaveKeeps ==
  ASSUME IInv, NEW r \in Requests, phase[r] \in Pending, ReleasePermit(r),
         UNCHANGED <<endpoint, task>>,
         NEW p \in {"answered", "dropped"}, NEW c \in Codes,
         phase' = [phase EXCEPT ![r] = p], reply' = [reply EXCEPT ![r] = c],
         p = "dropped" => c = "none",
         c = "ok" => task[r] = "served",
         c \in {"payload_too_large", "service_overloaded", "invalid_request_body"}
           => task[r] = "none",
         c \in {"computation_budget_exceeded", "internal_error"}
           => task[r] \in Outcomes /\ CodeOf(task[r]) = c
  PROVE  IInv'
<1>1. Permits' /\ holders' = holders \ {r}
  BY ReleaseKeepsPermits DEF IInv, TypeOK, Permits
<1>2. TypeOK'
  BY <1>1 DEF IInv, TypeOK, Permits, Phases
<1>3. PermitConservation'
  BY <1>1 DEF Permits
<1>4. HoldersAreLive'
  BY <1>1 DEF IInv, TypeOK, HoldersAreLive, InWindow, Limited
<1>5. TaskFollowsPhase'
  BY DEF IInv, TypeOK, TaskFollowsPhase
<1>6. ReplyFollowsPhase'
  BY DEF IInv, TypeOK, ReplyFollowsPhase
<1>7. ReplyMatchesTask'
  BY DEF IInv, TypeOK, ReplyMatchesTask
<1> QED
  BY <1>2, <1>3, <1>4, <1>5, <1>6, <1>7 DEF IInv

(* The invariant after a step in which request r is handed to the window,  *)
(* or turned away at its door, with an endpoint it has from now on.        *)
LEMMA EnterKeeps ==
  ASSUME IInv, NEW r \in Requests, NEW e \in Endpoints,
         phase[r] \in {"idle", "upload"}, EnterWindow(r, e),
         endpoint' = [endpoint EXCEPT ![r] = e], UNCHANGED task
  PROVE  IInv'
<1>1. /\ Permits'
      /\ holders' = IF Limited(e) /\ phase'[r] = "extracting"
                      THEN holders \cup {r} ELSE holders
      /\ \/ phase' = [phase EXCEPT ![r] = "extracting"] /\ reply' = reply
         \/ /\ phase' = [phase EXCEPT ![r] = "answered"]
            /\ reply' = [reply EXCEPT ![r] = "service_overloaded"]
            /\ Limited(e) /\ permits = 0
  BY EnterWindowKeeps
<1>2. r \notin holders /\ task[r] = "none" /\ reply[r] = "none"
  BY DEF IInv, HoldersAreLive, InWindow, TaskFollowsPhase, ReplyFollowsPhase
<1>3. TypeOK'
  BY <1>1 DEF IInv, TypeOK, Permits, Phases, Codes, Endpoints
<1>4. PermitConservation'
  BY <1>1 DEF Permits
<1>5. HoldersAreLive'
  BY <1>1, <1>2 DEF IInv, TypeOK, HoldersAreLive, InWindow, Limited
<1>6. TaskFollowsPhase'
  BY <1>1, <1>2 DEF IInv, TypeOK, TaskFollowsPhase
<1>7. ReplyFollowsPhase'
  BY <1>1 DEF IInv, TypeOK, ReplyFollowsPhase
<1>8. ReplyMatchesTask'
  BY <1>1, <1>2 DEF IInv, TypeOK, ReplyMatchesTask
<1> QED
  BY <1>3, <1>4, <1>5, <1>6, <1>7, <1>8 DEF IInv

(* The same for a request turned away before the window. *)
LEMMA TurnAwayKeeps ==
  ASSUME IInv, NEW r \in Requests, NEW e \in Endpoints,
         phase[r] \in {"idle", "upload"},
         NEW c \in {"payload_too_large", "invalid_request_body"},
         Answer(r, c), KeepPermits,
         endpoint' = [endpoint EXCEPT ![r] = e], UNCHANGED task
  PROVE  IInv'
<1>1. r \notin holders /\ task[r] = "none"
  BY DEF IInv, HoldersAreLive, InWindow, TaskFollowsPhase
<1>2. TypeOK' /\ PermitConservation'
  BY DEF IInv, TypeOK, PermitConservation, Answer, KeepPermits, Phases, Codes, Endpoints
<1>3. HoldersAreLive'
  BY <1>1 DEF IInv, TypeOK, HoldersAreLive, Answer, KeepPermits, InWindow, Limited
<1>4. TaskFollowsPhase' /\ ReplyFollowsPhase'
  BY <1>1 DEF IInv, TypeOK, TaskFollowsPhase, ReplyFollowsPhase, Answer
<1>5. ReplyMatchesTask'
  BY <1>1 DEF IInv, TypeOK, ReplyMatchesTask, Answer
<1> QED
  BY <1>2, <1>3, <1>4, <1>5 DEF IInv

LEMMA ReceiveKeeps ==
  ASSUME IInv, NEW r \in Requests, Receive(r)
  PROVE  IInv'
<1>1. CASE ReceiveDeclared(r)
  <2>1. PICK e \in {"light", "heavy"} :
          /\ endpoint' = [endpoint EXCEPT ![r] = e]
          /\ EnterWindow(r, e) \/ (Answer(r, "payload_too_large") /\ KeepPermits)
    BY <1>1 DEF ReceiveDeclared
  <2>2. phase[r] \in {"idle", "upload"} /\ UNCHANGED task
    BY <1>1 DEF ReceiveDeclared
  <2> QED
    BY <2>1, <2>2, EnterKeeps, TurnAwayKeeps DEF Endpoints
<1>2. CASE ReceiveChunked(r)
  <2> USE <1>2 DEF ReceiveChunked
  <2>1. TypeOK' /\ PermitConservation'
    BY DEF IInv, TypeOK, PermitConservation, Phases, Endpoints
  <2>2. HoldersAreLive'
    BY DEF IInv, TypeOK, HoldersAreLive, InWindow, Limited
  <2>3. TaskFollowsPhase' /\ ReplyFollowsPhase' /\ ReplyMatchesTask'
    BY DEF IInv, TypeOK, TaskFollowsPhase, ReplyFollowsPhase, ReplyMatchesTask
  <2> QED
    BY <2>1, <2>2, <2>3 DEF IInv
<1> QED
  BY <1>1, <1>2 DEF Receive

LEMMA RequestStepKeeps ==
  ASSUME IInv, NEW r \in Requests, RequestStep(r)
  PROVE  IInv'
<1> USE DEF Pending, InWindow
<1>1. CASE BufferBody(r)
  <2>1. endpoint[r] \in Endpoints /\ phase[r] \in {"idle", "upload"}
    BY <1>1 DEF BufferBody, IInv, TypeOK
  <2>2. endpoint' = [endpoint EXCEPT ![r] = endpoint[r]] /\ UNCHANGED task
    BY <1>1 DEF BufferBody, IInv, TypeOK
  <2>3. \/ EnterWindow(r, endpoint[r])
        \/ Answer(r, "payload_too_large") /\ KeepPermits
        \/ Answer(r, "invalid_request_body") /\ KeepPermits
    BY <1>1 DEF BufferBody
  <2> QED
    BY <2>1, <2>2, <2>3, EnterKeeps, TurnAwayKeeps
<1>2. CASE Reject(r)
  <2>1. PICK code \in {"invalid_request_body", "not_found", "validation_error"} :
          Answer(r, code)
    BY <1>2 DEF Reject
  <2>2. code \in Codes /\ phase[r] \in Pending /\ task[r] = "none"
    BY <1>2 DEF Reject, Codes, IInv, TaskFollowsPhase
  <2> QED
    BY <1>2, <2>1, <2>2, LeaveKeeps DEF Reject, Answer
<1>3. CASE Submit(r)
  <2> USE <1>3 DEF Submit
  <2>1. TypeOK' /\ PermitConservation'
    BY DEF IInv, TypeOK, PermitConservation, Phases, Tasks
  <2>2. HoldersAreLive'
    BY DEF IInv, TypeOK, HoldersAreLive, Limited
  <2>3. TaskFollowsPhase' /\ ReplyFollowsPhase'
    BY DEF IInv, TypeOK, TaskFollowsPhase, ReplyFollowsPhase
  <2>4. ReplyMatchesTask'
    BY DEF IInv, TypeOK, ReplyFollowsPhase, ReplyMatchesTask
  <2> QED
    BY <2>1, <2>2, <2>3, <2>4 DEF IInv
<1>4. CASE Deliver(r)
  <2>1. CodeOf(task[r]) \in
          {"ok", "not_found", "validation_error", "computation_budget_exceeded", "internal_error"}
    BY DEF CodeOf
  <2>2. CodeOf(task[r]) = "ok" => task[r] = "served"
    BY DEF CodeOf
  <2> QED
    BY <1>4, <2>1, <2>2, LeaveKeeps DEF Deliver, Answer, Codes
<1>5. CASE TimeOut(r)
  BY <1>5, LeaveKeeps DEF TimeOut, Answer, Codes
<1>6. CASE Disconnect(r)
  <2>1. reply[r] = "none"
    BY <1>6 DEF Disconnect, IInv, ReplyFollowsPhase
  <2>2. reply' = [reply EXCEPT ![r] = "none"]
    BY <1>6, <2>1 DEF Disconnect, IInv, TypeOK
  <2> QED
    BY <1>6, <2>2, LeaveKeeps DEF Disconnect, Codes
<1> QED
  BY <1>1, <1>2, <1>3, <1>4, <1>5, <1>6 DEF RequestStep

(* The pool changes tasks only, and never one whose result is known. *)
LEMMA PoolStepKeeps ==
  ASSUME IInv, NEW r \in Requests, PoolStep(r)
  PROVE  IInv'
<1>1. /\ UNCHANGED <<endpoint, phase, permits, holders, reply>>
      /\ task[r] \in {"queued", "running"}
      /\ \E o \in Outcomes \cup {"running"} : task' = [task EXCEPT ![r] = o]
  BY DEF PoolStep, StartTask, FinishTask
<1>2. TypeOK' /\ PermitConservation' /\ HoldersAreLive'
  BY <1>1 DEF IInv, TypeOK, PermitConservation, HoldersAreLive, Tasks
<1>3. TaskFollowsPhase' /\ ReplyFollowsPhase'
  BY <1>1 DEF IInv, TypeOK, TaskFollowsPhase, ReplyFollowsPhase
<1>4. ReplyMatchesTask'
  BY <1>1 DEF IInv, TypeOK, ReplyMatchesTask, Outcomes
<1> QED
  BY <1>2, <1>3, <1>4 DEF IInv

LEMMA StepKeeps == IInv /\ [Next]_vars => IInv'
<1> SUFFICES ASSUME IInv, [Next]_vars PROVE IInv'
  OBVIOUS
<1>1. CASE Next
  BY <1>1, ReceiveKeeps, RequestStepKeeps, PoolStepKeeps DEF Next
<1>2. CASE UNCHANGED vars
  BY <1>2 DEF vars, IInv, TypeOK, PermitConservation, HoldersAreLive, TaskFollowsPhase,
              ReplyFollowsPhase, ReplyMatchesTask, Limited
<1> QED
  BY <1>1, <1>2

LEMMA Inductive == Spec => []IInv
  BY InitEstablishes, StepKeeps, PTL DEF Spec

-----------------------------------------------------------------------------
(* Every variable stays within its type; in particular the semaphore never *)
(* holds more permits than were configured.                                *)
THEOREM TypeCorrect == Spec => []TypeOK
<1>1. IInv => TypeOK
  BY DEF IInv
<1> QED
  BY <1>1, Inductive, PTL

(* No slot is lost or minted, by any interleaving of answers, rejections,  *)
(* panics, timeouts and departures of any number of requests.              *)
THEOREM SlotsConserved == Spec => []PermitConservation
<1>1. IInv => PermitConservation
  BY DEF IInv
<1> QED
  BY <1>1, Inductive, PTL

(* The owners of the slots are the heavy requests inside the window.       *)
THEOREM SlotsOwnedByLive == Spec => []HoldersAreLive
<1>1. IInv => HoldersAreLive
  BY DEF IInv
<1> QED
  BY <1>1, Inductive, PTL

(* The permits out and the owners of the slots tell the same story.        *)
THEOREM SlotsAreAccounted == Spec => []SlotsAccounted
<1>1. PermitConservation /\ HoldersAreLive => SlotsAccounted
  BY DEF SlotsAccounted
<1> QED
  BY <1>1, SlotsConserved, SlotsOwnedByLive, PTL

(* An answer agrees with what became of the request's task.                *)
THEOREM RepliesHonest == Spec => []ReplyMatchesTask
<1>1. IInv => ReplyMatchesTask
  BY DEF IInv
<1> QED
  BY <1>1, Inductive, PTL

-----------------------------------------------------------------------------
(* Only the semaphore says "overloaded", and only when it is empty.        *)
LEMMA OverloadStep ==
  ASSUME IInv, NEW r \in Requests, [Next]_vars,
         reply[r] = "none", reply'[r] = "service_overloaded"
  PROVE  /\ Cardinality(holders) = HeavyLimit
         /\ \A h \in holders : h # r /\ reply[h] = "none"
<1>1. reply \in [Requests -> Codes] /\ permits \in Nat /\ reply' # reply
  BY AdmissionAssumption DEF IInv, TypeOK
<1>2. Next
  BY <1>1 DEF vars
<1>3. PICK q \in Requests : Receive(q) \/ RequestStep(q) \/ PoolStep(q)
  BY <1>2 DEF Next
<1>4. permits = 0 /\ phase[r] \in {"idle", "upload"}
  <2>1. CASE Receive(q)
    BY <2>1, <1>1 DEF Receive, ReceiveDeclared, ReceiveChunked, EnterWindow, Answer
  <2>2. CASE BufferBody(q)
    BY <2>2, <1>1 DEF BufferBody, EnterWindow, Answer
  <2>3. CASE Reject(q)
    BY <2>3, <1>1 DEF Reject, Answer
  <2>4. CASE Deliver(q)
    <3>1. CodeOf(task[q]) # "service_overloaded"
      BY DEF CodeOf
    <3> QED
      BY <2>4, <3>1, <1>1 DEF Deliver, Answer
  <2>5. CASE TimeOut(q)
    BY <2>5, <1>1 DEF TimeOut, Answer
  <2>6. CASE Submit(q) \/ Disconnect(q) \/ PoolStep(q)
    BY <2>6, <1>1 DEF Submit, Disconnect, PoolStep, StartTask, FinishTask
  <2> QED
    BY <1>3, <2>1, <2>2, <2>3, <2>4, <2>5, <2>6 DEF RequestStep
<1>5. Cardinality(holders) = HeavyLimit
  <2>1. Cardinality(holders) \in Nat
    BY FS_Subset, FS_CardinalityType, AdmissionAssumption DEF IInv, TypeOK
  <2> QED
    BY <1>4, <2>1, AdmissionAssumption DEF IInv, PermitConservation
<1>6. \A h \in holders : h # r /\ reply[h] = "none"
  BY <1>4 DEF IInv, TypeOK, HoldersAreLive, InWindow, ReplyFollowsPhase
<1> QED
  BY <1>5, <1>6

(* A 503 is sent only while as many other requests as the limit allows     *)
(* hold the slots and wait for their answers.                              *)
THEOREM OverloadsHonest == Spec => OverloadIsHonest
<1>1. IInv /\ [Next]_vars =>
        [\A r \in Requests :
           reply[r] = "none" /\ reply'[r] = "service_overloaded" =>
             /\ Cardinality(holders) = HeavyLimit
             /\ \A h \in holders : h # r /\ reply[h] = "none"]_vars
  BY OverloadStep
<1> QED
  BY <1>1, Inductive, PTL DEF Spec, OverloadIsHonest

(* No step gives an answered or abandoned request another answer.          *)
THEOREM AnswersFinal == Spec => AnswerIsFinal
<1>1. IInv /\ [Next]_vars =>
        [\A r \in Requests :
           phase[r] \in {"answered", "dropped"} => reply'[r] = reply[r]]_vars
  <2> SUFFICES ASSUME IInv, Next, NEW r \in Requests, phase[r] \in {"answered", "dropped"}
               PROVE  reply'[r] = reply[r]
    BY DEF vars
  <2> USE DEF IInv, TypeOK, Answer
  <2>1. PICK q \in Requests : Receive(q) \/ RequestStep(q) \/ PoolStep(q)
    BY DEF Next
  <2>2. CASE Receive(q)
    BY <2>2 DEF Receive, ReceiveDeclared, ReceiveChunked, EnterWindow
  <2>3. CASE RequestStep(q)
    BY <2>3 DEF RequestStep, BufferBody, EnterWindow, Reject, Submit, Deliver, TimeOut,
                Disconnect, InWindow
  <2>4. CASE PoolStep(q)
    BY <2>4 DEF PoolStep, StartTask, FinishTask
  <2> QED
    BY <2>1, <2>2, <2>3, <2>4
<1> QED
  BY <1>1, Inductive, PTL DEF Spec, AnswerIsFinal

-----------------------------------------------------------------------------
(***************************************************************************)
(* The process.                                                            *)
(***************************************************************************)

(* Nobody is in before the accept loop runs. *)
QuietBeforeServing ==
  stage \in {"loading", "loaded", "bound"} =>
    /\ \A r \in Requests : phase[r] = "idle" /\ task[r] = "none"
    /\ ~cleaned

(* Nobody is left once the drain is over. *)
QuietAfterDrain ==
  stage \in {"drained", "returned", "closing", "exited"} =>
    \A r \in Requests : phase[r] \notin Pending

(* A closed pool has nothing to start, and a dead process runs nothing.    *)
PoolCloses ==
  /\ stage \in {"closing", "exited"} => \A r \in Requests : task[r] # "queued"
  /\ stage = "exited" => \A r \in Requests : task[r] # "running"

CleanedOnTheWay ==
  /\ stage = "loading" => ~loaded
  /\ stage \in {"returned", "closing"} => cleaned
  /\ stage = "exited" /\ loaded /\ status # "killed" => cleaned

ServiceInv ==
  /\ IInv
  /\ L!TypeOK
  /\ ReadyIsEarned
  /\ QuietBeforeServing
  /\ QuietAfterDrain
  /\ PoolCloses
  /\ CleanedOnTheWay

(* The parts that only the process's own steps can disturb. *)
Process == L!TypeOK /\ ReadyIsEarned /\ CleanedOnTheWay

-----------------------------------------------------------------------------
(* The two steps of a stopping server keep what Admission guarantees.      *)
LEMMA CutKeeps ==
  ASSUME IInv, CutConnections
  PROVE  IInv' /\ \A r \in Requests : phase'[r] \notin Pending
<1> USE DEF CutConnections
<1>1. IsFiniteSet(holders) /\ Cardinality(holders) \in Nat /\ Cardinality({}) = 0
  BY FS_Subset, FS_CardinalityType, FS_EmptySet, AdmissionAssumption DEF IInv, TypeOK
<1>2. TypeOK' /\ PermitConservation'
  BY <1>1, AdmissionAssumption DEF IInv, TypeOK, PermitConservation, Phases
<1>3. \A r \in Requests : phase'[r] \notin Pending
  BY DEF Pending, InWindow
<1>4. HoldersAreLive'
  BY <1>3 DEF HoldersAreLive, Pending
<1>5. TaskFollowsPhase' /\ ReplyFollowsPhase' /\ ReplyMatchesTask'
  BY DEF IInv, TypeOK, TaskFollowsPhase, ReplyFollowsPhase, ReplyMatchesTask, Pending,
         InWindow
<1> QED
  BY <1>2, <1>3, <1>4, <1>5 DEF IInv

LEMMA DiscardKeeps ==
  ASSUME IInv, DiscardQueued
  PROVE  IInv' /\ \A r \in Requests :
           task'[r] = (IF task[r] = "queued" THEN "discarded" ELSE task[r])
<1> USE DEF DiscardQueued
<1>1. TypeOK' /\ PermitConservation' /\ HoldersAreLive'
  BY DEF IInv, TypeOK, PermitConservation, HoldersAreLive, Limited, Tasks
<1>2. TaskFollowsPhase' /\ ReplyFollowsPhase'
  BY DEF IInv, TypeOK, TaskFollowsPhase, ReplyFollowsPhase
<1>3. ReplyMatchesTask'
  BY DEF IInv, TypeOK, ReplyMatchesTask, Outcomes
<1> QED
  BY <1>1, <1>2, <1>3 DEF IInv

(* A process that stands still keeps its part. *)
LEMMA ProcessRests == ASSUME Process, UNCHANGED lifecycle PROVE Process'
  BY DEF Process, lifecycle, L!TypeOK, L!Stages, ReadyIsEarned, L!ShuttingDown,
         CleanedOnTheWay

(* Admission's invariant does not look at the process. *)
LEMMA PipelineRests == ASSUME IInv, UNCHANGED pipeline PROVE IInv'
  BY DEF pipeline, vars, IInv, TypeOK, PermitConservation, HoldersAreLive, Limited,
         TaskFollowsPhase, ReplyFollowsPhase, ReplyMatchesTask

-----------------------------------------------------------------------------
LEMMA ServiceInitEstablishes == ServiceInit => ServiceInv
<1> SUFFICES ASSUME ServiceInit PROVE ServiceInv
  OBVIOUS
<1>1. IInv
  BY InitEstablishes DEF ServiceInit
<1>2. Process
  BY DEF ServiceInit, L!Init, Process, L!TypeOK, L!Stages, ReadyIsEarned, CleanedOnTheWay
<1>3. QuietBeforeServing /\ QuietAfterDrain /\ PoolCloses
  BY DEF ServiceInit, L!Init, Init, QuietBeforeServing, QuietAfterDrain, PoolCloses
<1> QED
  BY <1>1, <1>2, <1>3 DEF ServiceInv, Process

(* A request steps only while the accept loop or the drain holds its       *)
(* connection, so the stages without requests are not concerned.           *)
LEMMA RequestKeepsService ==
  ASSUME ServiceInv, NEW r \in Requests, Accept(r) \/ Handle(r)
  PROVE  ServiceInv'
<1>1. UNCHANGED lifecycle /\ stage \in {"serving", "announcing", "draining"}
  BY DEF Accept, Handle, L!Accepting, L!Connected
<1>2. IInv'
  BY ReceiveKeeps, RequestStepKeeps DEF ServiceInv, Accept, Handle, RequestStep
<1>3. Process'
  BY <1>1, ProcessRests DEF ServiceInv, Process
<1>4. QuietBeforeServing' /\ QuietAfterDrain' /\ PoolCloses'
  BY <1>1 DEF lifecycle, QuietBeforeServing, QuietAfterDrain, PoolCloses
<1> QED
  BY <1>2, <1>3, <1>4 DEF ServiceInv, Process

(* The pool works on in every stage, on what was submitted before.         *)
LEMMA ComputeKeepsService ==
  ASSUME ServiceInv, NEW r \in Requests, Compute(r)
  PROVE  ServiceInv'
<1>1. UNCHANGED lifecycle /\ UNCHANGED phase /\ IInv'
  BY PoolStepKeeps DEF Compute, PoolStep, StartTask, FinishTask, ServiceInv
<1>2. Process'
  BY <1>1, ProcessRests DEF ServiceInv, Process
<1>3. task \in [Requests -> Tasks]
  BY DEF ServiceInv, IInv, TypeOK
<1>4. CASE FinishTask(r)
  <2>1. task[r] = "running"
    BY <1>4 DEF FinishTask
  <2>2. \A q \in Requests : task'[q] \in Outcomes \/ task'[q] = task[q]
    BY <1>3, <1>4 DEF FinishTask
  <2> QED
    BY <1>1, <1>2, <2>1, <2>2
    DEF ServiceInv, Process, lifecycle, QuietBeforeServing, QuietAfterDrain, PoolCloses,
        Outcomes
<1>5. CASE StartTask(r) /\ stage # "closing"
  <2>1. task[r] = "queued" /\ stage \notin {"loading", "loaded", "bound", "closing", "exited"}
    BY <1>5 DEF StartTask, ServiceInv, QuietBeforeServing, PoolCloses
  <2> QED
    BY <1>1, <1>2, <2>1
    DEF ServiceInv, Process, lifecycle, QuietBeforeServing, QuietAfterDrain, PoolCloses
<1> QED
  BY <1>4, <1>5 DEF Compute

(* Startup: nothing is in the pipeline, whichever way it goes. *)
LEMMA StartupKeepsService ==
  ASSUME ServiceInv, Startup
  PROVE  ServiceInv'
<1>1. IInv' /\ UNCHANGED <<phase, task>>
  BY PipelineRests DEF Startup, ServiceInv, pipeline, vars
<1>2. /\ stage \in {"loading", "loaded", "bound"}
      /\ \A q \in Requests : phase[q] = "idle" /\ task[q] = "none"
  BY DEF Startup, L!LoadCalibration, L!Bind, L!Serve, ServiceInv, QuietBeforeServing
<1>3. \A q \in Requests : phase'[q] = "idle" /\ task'[q] = "none"
  BY <1>1, <1>2
<1>4. QuietAfterDrain' /\ PoolCloses'
  BY <1>3 DEF QuietAfterDrain, PoolCloses, Pending, InWindow
<1>5. QuietBeforeServing'
  BY <1>3
  DEF Startup, L!LoadCalibration, L!Bind, L!Serve, ServiceInv, QuietBeforeServing
<1>6. Process'
  <2> USE DEF ServiceInv, Process, L!TypeOK, L!Stages, ReadyIsEarned, L!ShuttingDown,
              CleanedOnTheWay, QuietBeforeServing
  <2>1. CASE L!LoadCalibration
    <3>1. ~loaded /\ ~cleaned /\ ~L!ShuttingDown
      BY <2>1 DEF L!LoadCalibration
    <3>2. L!TypeOK'
      BY <2>1 DEF L!LoadCalibration
    <3>3. ReadyIsEarned'
      BY <2>1, <3>1 DEF L!LoadCalibration
    <3>4. CleanedOnTheWay'
      BY <2>1, <3>1 DEF L!LoadCalibration
    <3> QED
      BY <3>2, <3>3, <3>4
  <2>2. CASE L!Bind
    BY <2>2 DEF L!Bind
  <2>3. CASE L!Serve
    BY <2>3 DEF L!Serve
  <2> QED
    BY <2>1, <2>2, <2>3 DEF Startup
<1> QED
  BY <1>1, <1>4, <1>5, <1>6 DEF ServiceInv, Process

(* A signal kills a process that has no handler yet, and with it nothing.  *)
LEMMA SignalKeepsService ==
  ASSUME ServiceInv, Signal
  PROVE  ServiceInv'
<1>1. IInv' /\ UNCHANGED <<phase, task>>
  BY PipelineRests DEF Signal, ServiceInv, pipeline, vars
<1>2. Process'
  BY DEF Signal, L!Signal, ServiceInv, Process, L!TypeOK, L!Stages, ReadyIsEarned,
         L!ShuttingDown, CleanedOnTheWay
<1>3. QuietBeforeServing' /\ QuietAfterDrain' /\ PoolCloses'
  BY <1>1 DEF Signal, L!Signal, ServiceInv, QuietBeforeServing, QuietAfterDrain,
              PoolCloses, Pending, InWindow
<1> QED
  BY <1>1, <1>2, <1>3 DEF ServiceInv, Process

(* The way down: the drain is where the requests end, the closing runtime  *)
(* where the queue ends, the exit where the running tasks have ended.      *)
LEMMA ShutdownKeepsService ==
  ASSUME ServiceInv,
         StopServing \/ Drained \/ DrainTimeout \/ Finish \/ CloseRuntime \/ Exit
  PROVE  ServiceInv'
<1> USE DEF Process, L!TypeOK, L!Stages, ReadyIsEarned, L!ShuttingDown, CleanedOnTheWay,
            QuietBeforeServing, QuietAfterDrain, PoolCloses
<1>1. CASE StopServing \/ Finish
  <2>1. IInv' /\ UNCHANGED <<phase, task>>
    BY <1>1, PipelineRests DEF StopServing, Finish, ServiceInv, pipeline, vars
  <2>2. CASE L!BeginShutdown
    BY <2>1, <2>2 DEF L!BeginShutdown, ServiceInv
  <2>3. CASE L!StopAccepting
    BY <2>1, <2>3 DEF L!StopAccepting, ServiceInv
  <2>4. CASE L!Cleanup
    BY <2>1, <2>4 DEF L!Cleanup, ServiceInv
  <2> QED
    BY <1>1, <2>2, <2>3, <2>4 DEF StopServing, Finish
<1>2. CASE Drained
  <2>1. IInv' /\ UNCHANGED <<phase, task>>
    BY <1>2, PipelineRests DEF Drained, ServiceInv, pipeline, vars
  <2>2. \A r \in Requests : phase[r] \notin Pending
    BY <1>2 DEF Drained, Alive
  <2> QED
    BY <1>2, <2>1, <2>2 DEF Drained, L!EndDrain, ServiceInv
<1>3. CASE DrainTimeout
  <2>1. IInv' /\ \A r \in Requests : phase'[r] \notin Pending
    BY <1>3, CutKeeps DEF DrainTimeout, ServiceInv
  <2> QED
    BY <1>3, <2>1 DEF DrainTimeout, L!EndDrain, ServiceInv
<1>4. CASE CloseRuntime
  <2>1. IInv' /\ \A r \in Requests :
          task'[r] = (IF task[r] = "queued" THEN "discarded" ELSE task[r])
    BY <1>4, DiscardKeeps DEF CloseRuntime, ServiceInv
  <2> QED
    BY <1>4, <2>1 DEF CloseRuntime, L!DropRuntime, DiscardQueued, ServiceInv
<1>5. CASE Exit
  <2>1. IInv' /\ UNCHANGED <<phase, task>>
    BY <1>5, PipelineRests DEF Exit, ServiceInv, pipeline, vars
  <2>2. \A r \in Requests : task[r] # "running"
    BY <1>5 DEF Exit, Running
  <2> QED
    BY <1>5, <2>1, <2>2 DEF Exit, L!Exit, ServiceInv
<1> QED
  BY <1>1, <1>2, <1>3, <1>4, <1>5

LEMMA ServiceStepKeeps == ServiceInv /\ [ServiceNext]_allVars => ServiceInv'
<1> SUFFICES ASSUME ServiceInv, [ServiceNext]_allVars PROVE ServiceInv'
  OBVIOUS
<1>1. CASE ServiceNext
  BY <1>1, RequestKeepsService, ComputeKeepsService, StartupKeepsService,
     SignalKeepsService, ShutdownKeepsService DEF ServiceNext
<1>2. CASE UNCHANGED allVars
  <2>1. IInv' /\ Process'
    BY <1>2, PipelineRests, ProcessRests DEF allVars, ServiceInv, Process
  <2> QED
    BY <1>2, <2>1
    DEF allVars, pipeline, vars, lifecycle, ServiceInv, Process, QuietBeforeServing,
        QuietAfterDrain, PoolCloses
<1> QED
  BY <1>1, <1>2

LEMMA ServiceInductive == ServiceSpec => []ServiceInv
  BY ServiceInitEstablishes, ServiceStepKeeps, PTL DEF ServiceSpec

-----------------------------------------------------------------------------
(* The pipeline and the process stay within their types, through startup,  *)
(* drain and exit alike.                                                   *)
THEOREM ServiceTypeCorrect == ServiceSpec => []ServiceTypeOK
<1>1. ServiceInv => ServiceTypeOK
  BY DEF ServiceInv, IInv, ServiceTypeOK
<1> QED
  BY <1>1, ServiceInductive, PTL

(* Readiness is advertised only with calibration data loaded and before    *)
(* the shutdown begins.                                                    *)
THEOREM ReadinessEarned == ServiceSpec => []ReadyIsEarned
<1>1. ServiceInv => ReadyIsEarned
  BY DEF ServiceInv
<1> QED
  BY <1>1, ServiceInductive, PTL

(* However many requests were in flight and whichever way each of them     *)
(* ended, the drain leaves no request and no permit out, and the exit no   *)
(* compute and no skipped cleanup.                                         *)
THEOREM DrainIsComplete == ServiceSpec => []DrainLeavesNothing
<1>1. ServiceInv => DrainLeavesNothing
  <2> SUFFICES ASSUME ServiceInv PROVE DrainLeavesNothing
    OBVIOUS
  <2>1. ASSUME stage \in {"drained", "returned", "closing"}
        PROVE  Alive = {} /\ permits = HeavyLimit
    <3>1. Alive = {}
      BY <2>1 DEF ServiceInv, QuietAfterDrain, Alive
    <3>2. holders = {}
      BY <3>1 DEF ServiceInv, IInv, HoldersAreLive, Alive, Pending
    <3> QED
      BY <3>1, <3>2, FS_EmptySet, AdmissionAssumption
      DEF ServiceInv, IInv, TypeOK, PermitConservation
  <2>2. stage = "exited" => Running = {} /\ ((loaded /\ status # "killed") => cleaned)
    BY DEF ServiceInv, PoolCloses, CleanedOnTheWay, Running
  <2> QED
    BY <2>1, <2>2 DEF DrainLeavesNothing
<1> QED
  BY <1>1, ServiceInductive, PTL
=============================================================================
