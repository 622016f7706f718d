------------------------------- MODULE GainMemo -------------------------------
(***************************************************************************)
(* What the gain cache promises its callers, without locks, recency or     *)
(* capacity.  A call ends with its own computation, with a failure, or     *)
(* with a value memoized for its feed and key.  Invalidation starts a new  *)
(* epoch of the feed.  A call joins the epoch current at some moment of    *)
(* its life, and is served from and contributes to that epoch alone: one   *)
(* that starts after an invalidation never sees what was memoized before,  *)
(* and one that joined before it never fills the epoch after it.           *)
(***************************************************************************)
EXTENDS Naturals

CONSTANTS
  Threads,      (* threads that may call the cache                          *)
  Feeds,        (* (antenna_id, feed_id) pairs                              *)
  Directions,   (* directions evaluated, squint applied                     *)
  KeyOf,        (* the quantized key of each direction                      *)
  MaxEpoch,     (* bound: invalidations per feed                            *)
  Failed        (* what a call returns when its evaluation fails            *)

VARIABLES
  epoch,   (* invalidations so far, per feed                                *)
  memo,    (* what each epoch of each feed has memoized                     *)
  client   (* what each thread is doing                                     *)

memoVars == <<epoch, memo, client>>

Physics == [feed : Feeds, direction : Directions]
Idle    == [state |-> "idle"]

Init ==
  /\ epoch  = [f \in Feeds |-> 0]
  /\ memo   = [f \in Feeds |-> [e \in 0..MaxEpoch |-> {}]]
  /\ client = [t \in Threads |-> Idle]

Call(t, f, d) ==
  /\ client[t].state = "idle"
  /\ client' = [client EXCEPT ![t] = [state |-> "busy", feed |-> f, direction |-> d]]
  /\ UNCHANGED <<epoch, memo>>

Join(t) ==
  /\ client[t].state = "busy"
  /\ client' = [client EXCEPT ![t] =
       [state |-> "joined", feed |-> client[t].feed,
        direction |-> client[t].direction, epoch |-> epoch[client[t].feed]]]
  /\ UNCHANGED <<epoch, memo>>

End(t, result) ==
  client' = [client EXCEPT ![t] =
    [state |-> "done", feed |-> client[t].feed,
     direction |-> client[t].direction, result |-> result]]

Own(t) == [feed |-> client[t].feed, direction |-> client[t].direction]

Fail(t) ==
  /\ client[t].state = "joined"
  /\ End(t, Failed)
  /\ UNCHANGED <<epoch, memo>>

Recall(t) ==
  /\ client[t].state = "joined"
  /\ \E v \in memo[client[t].feed][client[t].epoch] :
       /\ KeyOf[v.direction] = KeyOf[client[t].direction]
       /\ End(t, v)
  /\ UNCHANGED <<epoch, memo>>

(* The value may be memoized, at the price of forgetting any others. *)
Evaluate(t) ==
  /\ client[t].state = "joined"
  /\ End(t, Own(t))
  /\ \/ UNCHANGED memo
     \/ \E kept \in SUBSET memo[client[t].feed][client[t].epoch] :
          memo' = [memo EXCEPT ![client[t].feed][client[t].epoch] = kept \cup {Own(t)}]
  /\ UNCHANGED epoch

Leave(t) ==
  /\ client[t].state = "done"
  /\ client' = [client EXCEPT ![t] = Idle]
  /\ UNCHANGED <<epoch, memo>>

Invalidate(f) ==
  /\ epoch[f] < MaxEpoch
  /\ epoch' = [epoch EXCEPT ![f] = epoch[f] + 1]
  /\ UNCHANGED <<memo, client>>

Next ==
  \/ \E t \in Threads :
       \/ \E f \in Feeds, d \in Directions : Call(t, f, d)
       \/ Join(t) \/ Fail(t) \/ Recall(t) \/ Evaluate(t) \/ Leave(t)
  \/ \E f \in Feeds : Invalidate(f)

Spec == Init /\ [][Next]_memoVars
=============================================================================
