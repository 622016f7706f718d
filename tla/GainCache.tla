------------------------------ MODULE GainCache ------------------------------
(***************************************************************************)
(* The per-feed LRU cache of physics results (service/cache.rs) under the  *)
(* concurrent calls of evaluate_cached.  Each (antenna_id, feed_id) has a  *)
(* cache behind an Arc in a concurrent map; a call clones the Arc, probes  *)
(* under the cache's mutex, computes WITHOUT it, and stores under it       *)
(* again.  Invalidation removes the map entry; calls that hold the old Arc *)
(* keep it alive.  A cache is named by its feed and the number of          *)
(* invalidations before it: the map entry of feed f is cache epoch[f].     *)
(*                                                                         *)
(* A mutex section has no step of another thread inside it and calls       *)
(* nothing that can panic, so each section is one action.  Physics is a    *)
(* deterministic function of feed and direction, named by the two.         *)
(***************************************************************************)
EXTENDS Naturals, Sequences

CONSTANTS
  Threads,      (* threads that may call the cache                          *)
  Feeds,        (* (antenna_id, feed_id) pairs                              *)
  Directions,   (* directions evaluated, squint applied                     *)
  Keys,         (* quantized keys                                           *)
  KeyOf,        (* GainCacheKey::new: the key of each direction             *)
  MaxEntries,   (* cache.max_entries_per_feed                               *)
  MaxEpoch,     (* bound: invalidations per feed                            *)
  Failed        (* what a call returns when its evaluation fails            *)

ASSUME GainCacheAssumption ==
  /\ KeyOf \in [Directions -> Keys]
  /\ MaxEntries \in Nat
  /\ MaxEpoch \in Nat
  /\ Failed \notin [feed : Feeds, direction : Directions]

VARIABLES
  enabled, (* cache.enabled, read once when the state is built              *)
  epoch,   (* which cache the map holds for each feed                       *)
  cache,   (* the entries of every cache, most recently used first          *)
  call     (* the call each thread is executing                             *)

vars == <<enabled, epoch, cache, call>>

Physics == [feed : Feeds, direction : Directions]
Entry   == [key : Keys, value : Physics]
Idle    == [pc |-> "idle"]

(* LruCache is built with NonZeroUsize::new(max).unwrap_or(MIN). *)
Capacity == IF MaxEntries = 0 THEN 1 ELSE MaxEntries

Init ==
  /\ enabled \in BOOLEAN
  /\ epoch = [f \in Feeds |-> 0]
  /\ cache = [f \in Feeds |-> [e \in 0..MaxEpoch |-> <<>>]]
  /\ call  = [t \in Threads |-> Idle]

(***************************************************************************)
(* LruCache (external).  Front(s, i, x) puts x in front and takes out what *)
(* was at position i; i = Len(s) + 1 takes out nothing.                    *)
(***************************************************************************)
Front(s, i, x) ==
  [j \in 1..(IF i > Len(s) THEN i ELSE Len(s)) |->
     IF j = 1 THEN x ELSE IF j <= i THEN s[j - 1] ELSE s[j]]

Positions(s, k) == {i \in 1..Len(s) : s[i].key = k}

(* Mutant: put before checking the capacity. *)
SlotUnbounded(s, k) ==
  IF Positions(s, k) # {} THEN CHOOSE i \in Positions(s, k) : TRUE
  ELSE Len(s) + 1

(* Where put makes room: the key's own entry, the oldest entry of a full   *)
(* cache, or nowhere.                                                      *)
Slot(s, k) ==
  IF Positions(s, k) # {} THEN CHOOSE i \in Positions(s, k) : TRUE
  ELSE IF Len(s) >= Capacity THEN Len(s) ELSE Len(s) + 1

-----------------------------------------------------------------------------
CacheOf(t) == cache[call[t].feed][call[t].epoch]
KeyFor(t)  == KeyOf[call[t].direction]
Own(t)     == [feed |-> call[t].feed, direction |-> call[t].direction]

Goto(t, pc)       == call' = [call EXCEPT ![t].pc = pc]
Return(t, result) == call' = [call EXCEPT ![t].pc = "done", ![t].result = result]

SetCache(t, s) == cache' = [cache EXCEPT ![call[t].feed][call[t].epoch] = s]

(* evaluate_cached reaches get_or_compute. *)
Begin(t, f, d) ==
  /\ call[t].pc = "idle"
  /\ call' = [call EXCEPT ![t] =
       [pc |-> "called", feed |-> f, direction |-> d, epoch |-> 0, result |-> Failed]]
  /\ UNCHANGED <<enabled, epoch, cache>>

(* A disabled cache computes; otherwise the map entry's Arc is cloned, a   *)
(* new empty cache being inserted where there was none.                    *)
Fetch(t) ==
  /\ call[t].pc = "called"
  /\ call' = [call EXCEPT ![t].pc = IF enabled THEN "fetched" ELSE "computing",
                          ![t].epoch = epoch[call[t].feed]]
  /\ UNCHANGED <<enabled, epoch, cache>>

(* First mutex section: return a hit, refreshing its recency, or go on. *)
Probe(t) ==
  /\ call[t].pc = "fetched"
  /\ \/ /\ Positions(CacheOf(t), KeyFor(t)) = {}
        /\ Goto(t, "computing")
        /\ UNCHANGED cache
     \/ \E i \in Positions(CacheOf(t), KeyFor(t)) :
          /\ Return(t, CacheOf(t)[i].value)
          /\ SetCache(t, Front(CacheOf(t), i, CacheOf(t)[i]))
  /\ UNCHANGED <<enabled, epoch>>

(* The integration, outside the mutex.  An error or a panic ends the call  *)
(* with nothing stored.                                                    *)
Compute(t) ==
  /\ call[t].pc = "computing"
  /\ \/ Return(t, Failed)
     \/ enabled /\ Goto(t, "computed")
     \/ ~enabled /\ Return(t, Own(t))
  /\ UNCHANGED <<enabled, epoch, cache>>

(* Mutants: the store looks the map entry up again; it names its entry by  *)
(* another direction's key; it keeps the Result, errors included.          *)
StoreInCurrent(t) ==
  /\ call[t].pc = "computed"
  /\ LET s == cache[call[t].feed][epoch[call[t].feed]]
         x == [key |-> KeyFor(t), value |-> Own(t)]
     IN cache' = [cache EXCEPT ![call[t].feed][epoch[call[t].feed]] =
                    Front(s, Slot(s, x.key), x)]
  /\ Return(t, Own(t))
  /\ UNCHANGED <<enabled, epoch>>

StoreUnderWrongKey(t) ==
  /\ call[t].pc = "computed"
  /\ \E k \in Keys : LET x == [key |-> k, value |-> Own(t)]
     IN SetCache(t, Front(CacheOf(t), Slot(CacheOf(t), x.key), x))
  /\ Return(t, Own(t))
  /\ UNCHANGED <<enabled, epoch>>

StoreFailure(t) ==
  /\ call[t].pc = "computed"
  /\ \E v \in {Own(t), Failed} :
       LET x == [key |-> KeyFor(t), value |-> v]
       IN /\ SetCache(t, Front(CacheOf(t), Slot(CacheOf(t), x.key), x))
          /\ Return(t, v)
  /\ UNCHANGED <<enabled, epoch>>

(* Second mutex section: put, evicting the oldest entry of a full cache. *)
Store(t) ==
  /\ call[t].pc = "computed"
  /\ LET x == [key |-> KeyFor(t), value |-> Own(t)]
     IN SetCache(t, Front(CacheOf(t), Slot(CacheOf(t), x.key), x))
  /\ Return(t, Own(t))
  /\ UNCHANGED <<enabled, epoch>>

Finish(t) ==
  /\ call[t].pc = "done"
  /\ call' = [call EXCEPT ![t] = Idle]
  /\ UNCHANGED <<enabled, epoch, cache>>

(* GainCache::invalidate: the map entry is removed. *)
Invalidate(f) ==
  /\ epoch[f] < MaxEpoch
  /\ epoch' = [epoch EXCEPT ![f] = epoch[f] + 1]
  /\ UNCHANGED <<enabled, cache, call>>

Work(t) == Fetch(t) \/ Probe(t) \/ Compute(t) \/ Store(t) \/ Finish(t)

Next ==
  \/ \E t \in Threads :
       \/ \E f \in Feeds, d \in Directions : Begin(t, f, d)
       \/ Work(t)
  \/ \E f \in Feeds : Invalidate(f)

Spec == Init /\ [][Next]_vars

-----------------------------------------------------------------------------
Calls ==
  [pc : {"called", "fetched", "computing", "computed", "done"},
   feed : Feeds, direction : Directions, epoch : 0..MaxEpoch,
   result : Physics \cup {Failed}]

TypeOK ==
  /\ enabled \in BOOLEAN
  /\ epoch \in [Feeds -> 0..MaxEpoch]
  /\ cache \in [Feeds -> [0..MaxEpoch -> Seq(Entry)]]
  /\ call  \in [Threads -> Calls \cup {Idle}]

(* A cache never exceeds its capacity and holds a key at most once,        *)
(* however many threads missed on that key and computed it at once.        *)
LruWellFormed ==
  \A f \in Feeds, e \in 0..MaxEpoch :
    LET s == cache[f][e]
    IN /\ Len(s) <= Capacity
       /\ \A i, j \in 1..Len(s) : s[i].key = s[j].key => i = j

(* An entry belongs where it is found: it was computed for this feed and   *)
(* for a direction of this key, whatever calls were interleaved.           *)
EntriesBelong ==
  \A f \in Feeds, e \in 0..MaxEpoch : \A i \in 1..Len(cache[f][e]) :
    LET x == cache[f][e][i]
    IN x.value.feed = f /\ KeyOf[x.value.direction] = x.key

(* What a cache remembers, and what a call has come to, as GainMemo sees   *)
(* them: recency and keys are gone, and so are the locks.                  *)
Values(s) == {s[i].value : i \in 1..Len(s)}

Memoized == [f \in Feeds |-> [e \in 0..MaxEpoch |-> Values(cache[f][e])]]

ClientOf(c) ==
  CASE c.pc = "idle" -> [state |-> "idle"]
    [] c.pc = "called" -> [state |-> "busy", feed |-> c.feed, direction |-> c.direction]
    [] c.pc \in {"fetched", "computing", "computed"} ->
         [state |-> "joined", feed |-> c.feed, direction |-> c.direction,
          epoch |-> c.epoch]
    [] c.pc = "done" ->
         [state |-> "done", feed |-> c.feed, direction |-> c.direction,
          result |-> c.result]

Client == [t \in Threads |-> ClientOf(call[t])]

(* The cache implements what GainMemo promises. *)
Memo == INSTANCE GainMemo WITH memo <- Memoized, client <- Client

ImplementsMemo == Memo!Spec
=============================================================================
