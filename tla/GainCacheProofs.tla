--------------------------- MODULE GainCacheProofs ---------------------------
(***************************************************************************)
(* Proofs about GainCache for any threads, feeds, directions, quantization *)
(* and capacity: the caches stay well formed, an entry belongs where it is *)
(* found, and the cache implements GainMemo.                               *)
(***************************************************************************)
EXTENDS GainCache, SequenceTheorems, TLAPS

Distinct(s) == \A i, j \in 1..Len(s) : s[i].key = s[j].key => i = j
Belong(s, f) ==
  \A i \in 1..Len(s) : s[i].value.feed = f /\ KeyOf[s[i].value.direction] = s[i].key

(* What every section under the mutex finds and must leave. *)
Good(s, f) == s \in Seq(Entry) /\ Len(s) <= Capacity /\ Distinct(s) /\ Belong(s, f)

Inv ==
  /\ enabled \in BOOLEAN
  /\ epoch \in [Feeds -> 0..MaxEpoch]
  /\ call  \in [Threads -> Calls \cup {Idle}]
  /\ cache \in [Feeds -> [0..MaxEpoch -> Seq(Entry)]]
  /\ \A f \in Feeds, e \in 0..MaxEpoch : Good(cache[f][e], f)

-----------------------------------------------------------------------------
LEMMA CapacityType == Capacity \in Nat /\ Capacity >= 1
  BY GainCacheAssumption DEF Capacity

(* Front is a sequence of the same entries but the one taken out. *)
LEMMA FrontFacts ==
  ASSUME NEW s \in Seq(Entry), NEW x \in Entry, NEW i \in 1..Len(s) + 1
  PROVE  LET n == IF i > Len(s) THEN i ELSE Len(s)
         IN  /\ Front(s, i, x) \in Seq(Entry)
             /\ Len(Front(s, i, x)) = n
             /\ \A j \in 1..n : Front(s, i, x)[j] =
                  IF j = 1 THEN x ELSE IF j <= i THEN s[j - 1] ELSE s[j]
<1> DEFINE n == IF i > Len(s) THEN i ELSE Len(s)
           el(j) == IF j = 1 THEN x ELSE IF j <= i THEN s[j - 1] ELSE s[j]
<1>1. n \in Nat /\ Len(s) \in Nat
  OBVIOUS
<1>2. \A j \in 1..n : el(j) \in Entry
  <2> SUFFICES ASSUME NEW j \in 1..n PROVE el(j) \in Entry
    OBVIOUS
  <2>1. CASE j = 1
    BY <2>1
  <2>2. CASE j # 1 /\ j <= i
    <3>1. j - 1 \in 1..Len(s)
      BY <2>2, <1>1
    <3> QED
      BY <2>2, <3>1
  <2>3. CASE j # 1 /\ ~(j <= i)
    <3>1. j \in 1..Len(s)
      BY <2>3, <1>1
    <3> QED
      BY <2>3, <3>1
  <2> QED
    BY <2>1, <2>2, <2>3
<1>3. Front(s, i, x) = [j \in 1..n |-> el(j)]
  BY DEF Front
<1> HIDE DEF n, el
<1>4. Front(s, i, x) \in [1..n -> Entry]
  BY <1>2, <1>3
<1>5. Front(s, i, x) \in Seq(Entry) /\ Len(Front(s, i, x)) = n
  BY <1>1, <1>4, SeqDef, LenProperties
<1>6. \A j \in 1..n : Front(s, i, x)[j] = el(j)
  BY <1>3
<1> QED
  BY <1>5, <1>6 DEF n, el

(* Moving an entry to the front, or storing one in the slot put finds.     *)
LEMMA FrontIsGood ==
  ASSUME NEW f \in Feeds, NEW s, Good(s, f), NEW x \in Entry,
         NEW i \in 1..Len(s) + 1, i <= Capacity,
         \A j \in 1..Len(s) : s[j].key = x.key => j = i,
         x.value.feed = f, KeyOf[x.value.direction] = x.key
  PROVE  Good(Front(s, i, x), f)
<1> DEFINE t == Front(s, i, x)
           n == IF i > Len(s) THEN i ELSE Len(s)
<1>1. s \in Seq(Entry) /\ Len(s) \in Nat /\ Len(s) <= Capacity /\ Distinct(s) /\ Belong(s, f)
  BY DEF Good
<1>2. /\ t \in Seq(Entry) /\ Len(t) = n
      /\ \A j \in 1..n : t[j] = IF j = 1 THEN x ELSE IF j <= i THEN s[j - 1] ELSE s[j]
  BY <1>1, FrontFacts
<1>3. Len(t) <= Capacity
  BY <1>1, <1>2, CapacityType
<1>4. \A j \in 1..n : j # 1 =>
        \E o \in 1..Len(s) : t[j] = s[o] /\ o # i /\ o = (IF j <= i THEN j - 1 ELSE j)
  <2> SUFFICES ASSUME NEW j \in 1..n, j # 1
               PROVE  \E o \in 1..Len(s) : t[j] = s[o] /\ o # i /\ o = (IF j <= i THEN j - 1 ELSE j)
    OBVIOUS
  <2>1. CASE j <= i
    BY <1>1, <1>2, <2>1
  <2>2. CASE ~(j <= i)
    BY <1>1, <1>2, <2>2
  <2> QED
    BY <2>1, <2>2
<1> HIDE DEF t
<1>5. t[1] = x /\ 1 \in 1..n
  BY <1>1, <1>2
<1>6. Distinct(t)
  <2> SUFFICES ASSUME NEW a \in 1..n, NEW b \in 1..n, t[a].key = t[b].key PROVE a = b
    BY <1>2 DEF Distinct
  <2>1. CASE a = 1 \/ b = 1
    BY <1>4, <1>5, <2>1
  <2>2. CASE a # 1 /\ b # 1
    BY <1>1, <1>4, <2>2 DEF Distinct
  <2> QED
    BY <2>1, <2>2
<1>7. Belong(t, f)
  <2> SUFFICES ASSUME NEW a \in 1..n
               PROVE  t[a].value.feed = f /\ KeyOf[t[a].value.direction] = t[a].key
    BY <1>2 DEF Belong
  <2> QED
    BY <1>1, <1>4, <1>5 DEF Belong
<1> QED
  BY <1>2, <1>3, <1>6, <1>7 DEF Good, t

LEMMA SlotFacts ==
  ASSUME NEW f \in Feeds, NEW s, Good(s, f), NEW k \in Keys
  PROVE  /\ Slot(s, k) \in 1..Len(s) + 1 /\ Slot(s, k) <= Capacity
         /\ \A j \in 1..Len(s) : s[j].key = k => j = Slot(s, k)
<1>1. s \in Seq(Entry) /\ Len(s) \in Nat /\ Len(s) <= Capacity /\ Distinct(s)
  BY DEF Good
<1>2. CASE Positions(s, k) # {}
  <2>1. Slot(s, k) \in Positions(s, k)
    BY <1>2 DEF Slot
  <2> QED
    BY <1>1, <2>1, CapacityType DEF Positions, Distinct
<1>3. CASE Positions(s, k) = {}
  <2>1. Slot(s, k) = IF Len(s) >= Capacity THEN Len(s) ELSE Len(s) + 1
    BY <1>3 DEF Slot
  <2>2. \A j \in 1..Len(s) : s[j].key # k
    BY <1>3 DEF Positions
  <2> QED
    BY <1>1, <2>1, <2>2, CapacityType
<1> QED
  BY <1>2, <1>3

(* What a cache remembers after an entry moved or came to the front.       *)
LEMMA FrontValues ==
  ASSUME NEW s \in Seq(Entry), NEW x \in Entry, NEW i \in 1..Len(s) + 1
  PROVE  Values(Front(s, i, x)) = {x.value} \cup {s[j].value : j \in (1..Len(s)) \ {i}}
<1> DEFINE t == Front(s, i, x)
           n == IF i > Len(s) THEN i ELSE Len(s)
<1>1. /\ t \in Seq(Entry) /\ Len(t) = n /\ Len(s) \in Nat
      /\ \A j \in 1..n : t[j] = IF j = 1 THEN x ELSE IF j <= i THEN s[j - 1] ELSE s[j]
  BY FrontFacts
<1> HIDE DEF t
<1>2. ASSUME NEW j \in 1..n
      PROVE  t[j] = x \/ \E o \in (1..Len(s)) \ {i} : t[j] = s[o]
  <2>1. CASE j = 1
    BY <1>1, <2>1
  <2>2. CASE j # 1 /\ j <= i
    <3>1. j - 1 \in (1..Len(s)) \ {i} /\ t[j] = s[j - 1]
      BY <1>1, <2>2
    <3> QED
      BY <3>1
  <2>3. CASE j # 1 /\ ~(j <= i)
    <3>1. j \in (1..Len(s)) \ {i} /\ t[j] = s[j]
      BY <1>1, <2>3
    <3> QED
      BY <3>1
  <2> QED
    BY <2>1, <2>2, <2>3
<1>3. ASSUME NEW o \in (1..Len(s)) \ {i}
      PROVE  \E j \in 1..n : t[j] = s[o]
  <2>1. CASE o < i
    <3>1. o + 1 \in 1..n /\ t[o + 1] = s[(o + 1) - 1] /\ (o + 1) - 1 = o
      BY <1>1, <2>1
    <3> QED
      BY <3>1
  <2>2. CASE o > i
    <3>1. o \in 1..n /\ t[o] = s[o]
      BY <1>1, <2>2
    <3> QED
      BY <3>1
  <2> QED
    BY <1>1, <2>1, <2>2
<1>4. 1 \in 1..n /\ t[1] = x
  BY <1>1
<1>5. Values(t) = {x.value} \cup {s[j].value : j \in (1..Len(s)) \ {i}}
  <2>1. Values(t) = {t[j].value : j \in 1..n}
    BY <1>1 DEF Values
  <2> HIDE DEF n
  <2> QED
    BY <1>2, <1>3, <1>4, <2>1
<1> QED
  BY <1>5 DEF t

-----------------------------------------------------------------------------
LEMMA InitEstablishes == Init => Inv
<1> SUFFICES ASSUME Init PROVE Inv
  OBVIOUS
<1>1. /\ enabled \in BOOLEAN /\ epoch \in [Feeds -> 0..MaxEpoch]
      /\ call \in [Threads -> Calls \cup {Idle}]
      /\ cache \in [Feeds -> [0..MaxEpoch -> Seq(Entry)]]
  BY GainCacheAssumption DEF Init
<1>2. \A f \in Feeds, e \in 0..MaxEpoch : Good(cache[f][e], f)
  BY CapacityType DEF Init, Good, Distinct, Belong
<1> QED
  BY <1>1, <1>2 DEF Inv

(* A call that is under way, and the cache it works on. *)
LEMMA CallFacts ==
  ASSUME Inv, NEW t \in Threads, call[t].pc # "idle"
  PROVE  /\ call[t] \in Calls
         /\ call[t].feed \in Feeds /\ call[t].epoch \in 0..MaxEpoch
         /\ call[t].direction \in Directions
         /\ Own(t) \in Physics /\ KeyFor(t) \in Keys
         /\ Own(t).feed = call[t].feed /\ KeyOf[Own(t).direction] = KeyFor(t)
         /\ Good(CacheOf(t), call[t].feed) /\ CacheOf(t) \in Seq(Entry)
<1>1. call[t] \in Calls
  BY DEF Inv, Idle
<1>2. call[t].feed \in Feeds /\ call[t].epoch \in 0..MaxEpoch /\ call[t].direction \in Directions
  BY <1>1 DEF Calls
<1> QED
  BY <1>1, <1>2, GainCacheAssumption DEF Inv, Own, KeyFor, CacheOf, Physics, Good

(* Steps of a call that leave the caches alone. *)
LEMMA CallStepKeeps ==
  ASSUME Inv, UNCHANGED <<enabled, epoch, cache>>,
         call' \in [Threads -> Calls \cup {Idle}]
  PROVE  Inv'
  BY DEF Inv

(* A section under the mutex replaces one good cache by another. *)
LEMMA SectionKeeps ==
  ASSUME Inv, NEW t \in Threads, call[t].pc # "idle", NEW s, Good(s, call[t].feed),
         SetCache(t, s), UNCHANGED <<enabled, epoch>>,
         call' \in [Threads -> Calls \cup {Idle}]
  PROVE  Inv'
<1>1. call[t].feed \in Feeds /\ call[t].epoch \in 0..MaxEpoch /\ s \in Seq(Entry)
  BY CallFacts DEF Good
<1>2. cache' \in [Feeds -> [0..MaxEpoch -> Seq(Entry)]]
  BY <1>1 DEF Inv, SetCache
<1>3. ASSUME NEW f \in Feeds, NEW e \in 0..MaxEpoch
      PROVE  cache'[f][e] = IF f = call[t].feed /\ e = call[t].epoch THEN s ELSE cache[f][e]
  BY <1>1 DEF Inv, SetCache
<1>4. \A f \in Feeds, e \in 0..MaxEpoch : Good(cache'[f][e], f)
  BY <1>3 DEF Inv
<1> QED
  BY <1>2, <1>4 DEF Inv

(* Moving on, and returning, keep a call a call. *)
LEMMA CallMoves ==
  ASSUME Inv, NEW t \in Threads, call[t].pc # "idle"
  PROVE  /\ \A pc \in {"computing", "computed"} :
              Goto(t, pc) => call' \in [Threads -> Calls \cup {Idle}]
         /\ \A r \in Physics \cup {Failed} :
              Return(t, r) => call' \in [Threads -> Calls \cup {Idle}]
<1>1. call[t] \in Calls /\ call \in [Threads -> Calls \cup {Idle}]
  BY CallFacts DEF Inv
<1>2. \A pc \in {"computing", "computed"} : [call[t] EXCEPT !.pc = pc] \in Calls
  BY <1>1 DEF Calls
<1>3. \A r \in Physics \cup {Failed} :
        [call[t] EXCEPT !.pc = "done", !.result = r] \in Calls
  BY <1>1 DEF Calls
<1>4. \A pc : Goto(t, pc) => call' = [call EXCEPT ![t] = [call[t] EXCEPT !.pc = pc]]
  BY <1>1 DEF Goto
<1>5. \A r : Return(t, r) =>
        call' = [call EXCEPT ![t] = [call[t] EXCEPT !.pc = "done", !.result = r]]
  BY <1>1 DEF Return
<1>6. \A c \in Calls : [call EXCEPT ![t] = c] \in [Threads -> Calls \cup {Idle}]
  BY <1>1
<1>7. ASSUME NEW pc \in {"computing", "computed"}, Goto(t, pc)
      PROVE  call' \in [Threads -> Calls \cup {Idle}]
  BY <1>2, <1>4, <1>6, <1>7
<1>8. ASSUME NEW r \in Physics \cup {Failed}, Return(t, r)
      PROVE  call' \in [Threads -> Calls \cup {Idle}]
  BY <1>3, <1>5, <1>6, <1>8
<1> QED
  BY <1>7, <1>8

(* The entry a hit finds. *)
LEMMA HitFacts ==
  ASSUME Inv, NEW t \in Threads, call[t].pc # "idle",
         NEW i \in Positions(CacheOf(t), KeyFor(t))
  PROVE  /\ i \in 1..Len(CacheOf(t)) /\ CacheOf(t)[i] \in Entry
         /\ CacheOf(t)[i].value \in Physics /\ CacheOf(t)[i].key = KeyFor(t)
         /\ CacheOf(t)[i].value.feed = call[t].feed
         /\ KeyOf[CacheOf(t)[i].value.direction] = KeyFor(t)
         /\ Good(Front(CacheOf(t), i, CacheOf(t)[i]), call[t].feed)
<1> DEFINE s == CacheOf(t)
<1>1. s \in Seq(Entry) /\ Good(s, call[t].feed) /\ call[t].feed \in Feeds
  BY CallFacts
<1>2. Len(s) \in Nat /\ Len(s) <= Capacity /\ Distinct(s) /\ Belong(s, call[t].feed)
  BY <1>1 DEF Good
<1>3. i \in 1..Len(s) /\ s[i].key = KeyFor(t)
  BY DEF Positions
<1> HIDE DEF s
<1>4. s[i] \in Entry
  BY <1>1, <1>3
<1>5. s[i].value \in Physics
  BY <1>4 DEF Entry
<1>6. s[i].value.feed = call[t].feed /\ KeyOf[s[i].value.direction] = s[i].key
  BY <1>2, <1>3 DEF Belong
<1>7. \A j \in 1..Len(s) : s[j].key = s[i].key => j = i
  BY <1>2, <1>3 DEF Distinct
<1>8. i \in 1..Len(s) + 1 /\ i <= Capacity
  BY <1>2, <1>3, CapacityType
<1>9. Good(Front(s, i, s[i]), call[t].feed)
  BY <1>1, <1>4, <1>6, <1>7, <1>8, FrontIsGood
<1> QED
  BY <1>3, <1>4, <1>5, <1>6, <1>9 DEF s

(* What the store puts in front, and where. *)
LEMMA StoreFacts ==
  ASSUME Inv, NEW t \in Threads, call[t].pc # "idle"
  PROVE  LET x == [key |-> KeyFor(t), value |-> Own(t)]
         IN  /\ x \in Entry /\ Slot(CacheOf(t), KeyFor(t)) \in 1..Len(CacheOf(t)) + 1
             /\ Good(Front(CacheOf(t), Slot(CacheOf(t), KeyFor(t)), x), call[t].feed)
<1> DEFINE x == [key |-> KeyFor(t), value |-> Own(t)]
<1>1. x \in Entry /\ x.key = KeyFor(t) /\ x.value = Own(t)
  BY CallFacts DEF Entry
<1>2. x.value.feed = call[t].feed /\ KeyOf[x.value.direction] = x.key
  BY <1>1, CallFacts
<1> HIDE DEF x
<1> DEFINE s == CacheOf(t)
           i == Slot(CacheOf(t), KeyFor(t))
<1>3. Good(s, call[t].feed) /\ call[t].feed \in Feeds /\ KeyFor(t) \in Keys
  BY CallFacts
<1>4. /\ i \in 1..Len(s) + 1 /\ i <= Capacity
      /\ \A j \in 1..Len(s) : s[j].key = KeyFor(t) => j = i
  BY <1>3, SlotFacts
<1> HIDE DEF s, i
<1>5. Good(Front(s, i, x), call[t].feed)
  BY <1>1, <1>2, <1>3, <1>4, FrontIsGood
<1> QED
  BY <1>1, <1>4, <1>5 DEF x, s, i

LEMMA WorkKeeps == ASSUME Inv, NEW t \in Threads, Work(t) PROVE Inv'
<1>1. CASE Fetch(t)
  <2>1. call[t] \in Calls /\ epoch[call[t].feed] \in 0..MaxEpoch
    BY <1>1, CallFacts DEF Fetch, Inv
  <2>2. \A pc \in {"fetched", "computing"} :
          [call[t] EXCEPT !.pc = pc, !.epoch = epoch[call[t].feed]] \in Calls
    BY <2>1 DEF Calls
  <2>3. call' \in [Threads -> Calls \cup {Idle}]
    BY <1>1, <2>2 DEF Fetch, Inv
  <2> QED
    BY <1>1, <2>3, CallStepKeeps DEF Fetch
<1>2. CASE Probe(t)
  <2>1. CASE Goto(t, "computing") /\ UNCHANGED cache
    BY <1>2, <2>1, CallMoves, CallStepKeeps DEF Probe
  <2>2. ASSUME NEW i \in Positions(CacheOf(t), KeyFor(t)),
               Return(t, CacheOf(t)[i].value),
               SetCache(t, Front(CacheOf(t), i, CacheOf(t)[i]))
        PROVE  Inv'
    <3>1. call[t].pc # "idle" /\ UNCHANGED <<enabled, epoch>>
      BY <1>2 DEF Probe
    <3>2. call' \in [Threads -> Calls \cup {Idle}]
      BY <2>2, <3>1, HitFacts, CallMoves
    <3>3. Good(Front(CacheOf(t), i, CacheOf(t)[i]), call[t].feed)
      BY <3>1, HitFacts
    <3> QED
      BY <2>2, <3>1, <3>2, <3>3, SectionKeeps
  <2> QED
    BY <1>2, <2>1, <2>2 DEF Probe
<1>3. CASE Compute(t)
  <2>1. call[t].pc # "idle" /\ Own(t) \in Physics
    BY <1>3, CallFacts DEF Compute
  <2> QED
    BY <1>3, <2>1, CallMoves, CallStepKeeps DEF Compute
<1>4. CASE Store(t)
  <2>1. call[t].pc # "idle" /\ Own(t) \in Physics /\ UNCHANGED <<enabled, epoch>>
    BY <1>4, CallFacts DEF Store
  <2>2. call' \in [Threads -> Calls \cup {Idle}]
    BY <1>4, <2>1, CallMoves DEF Store
  <2> DEFINE s == Front(CacheOf(t), Slot(CacheOf(t), KeyFor(t)),
                        [key |-> KeyFor(t), value |-> Own(t)])
  <2>3. Good(s, call[t].feed)
    BY <2>1, StoreFacts
  <2>4. SetCache(t, s)
    BY <1>4 DEF Store
  <2> HIDE DEF s
  <2> QED
    BY <2>1, <2>2, <2>3, <2>4, SectionKeeps
<1>5. CASE Finish(t)
  <2>1. call' \in [Threads -> Calls \cup {Idle}]
    BY <1>5 DEF Finish, Inv
  <2> QED
    BY <1>5, <2>1, CallStepKeeps DEF Finish
<1> QED
  BY <1>1, <1>2, <1>3, <1>4, <1>5 DEF Work

LEMMA StepKeeps == Inv /\ [Next]_vars => Inv'
<1> SUFFICES ASSUME Inv, [Next]_vars PROVE Inv'
  OBVIOUS
<1>1. ASSUME NEW t \in Threads, NEW f \in Feeds, NEW d \in Directions, Begin(t, f, d)
      PROVE  Inv'
  <2>1. [pc |-> "called", feed |-> f, direction |-> d, epoch |-> 0, result |-> Failed] \in Calls
    BY GainCacheAssumption DEF Calls
  <2>2. call' \in [Threads -> Calls \cup {Idle}]
    BY <1>1, <2>1 DEF Begin, Inv
  <2> QED
    BY <1>1, <2>2, CallStepKeeps DEF Begin
<1>2. ASSUME NEW f \in Feeds, Invalidate(f)
      PROVE  Inv'
  BY <1>2, GainCacheAssumption DEF Invalidate, Inv
<1>3. CASE UNCHANGED vars
  BY <1>3 DEF vars, Inv
<1> QED
  BY <1>1, <1>2, <1>3, WorkKeeps DEF Next

LEMMA Inductive == Spec => []Inv
  BY InitEstablishes, StepKeeps, PTL DEF Spec

-----------------------------------------------------------------------------
(* Every variable stays within its type. *)
THEOREM TypeCorrect == Spec => []TypeOK
<1>1. Inv => TypeOK
  BY DEF Inv, TypeOK
<1> QED
  BY <1>1, Inductive, PTL

(* No interleaving of hits, stores and evictions overfills a cache or      *)
(* leaves two entries under one key in it.                                 *)
THEOREM CachesWellFormed == Spec => []LruWellFormed
<1>1. Inv => LruWellFormed
  BY DEF Inv, Good, Distinct, LruWellFormed
<1> QED
  BY <1>1, Inductive, PTL

(* An entry was computed for the feed and the key it is found under.       *)
THEOREM NoForeignEntry == Spec => []EntriesBelong
<1>1. Inv => EntriesBelong
  BY DEF Inv, Good, Belong, EntriesBelong
<1> QED
  BY <1>1, Inductive, PTL

-----------------------------------------------------------------------------
(* The refinement.  What a step does to one call, it does to one client.   *)
LEMMA ClientMoves ==
  ASSUME Inv, NEW t \in Threads, NEW c \in Calls \cup {Idle}, call' = [call EXCEPT ![t] = c]
  PROVE  Client' = [Client EXCEPT ![t] = ClientOf(c)]
  BY DEF Inv, Client

LEMMA ClientFacts ==
  ASSUME NEW t \in Threads
  PROVE  Client[t] = ClientOf(call[t])
  BY DEF Client

LEMMA ClientOfState ==
  ASSUME NEW c \in Calls
  PROVE  /\ c.pc = "called" =>
              ClientOf(c) = [state |-> "busy", feed |-> c.feed, direction |-> c.direction]
         /\ c.pc \in {"fetched", "computing", "computed"} =>
              ClientOf(c) = [state |-> "joined", feed |-> c.feed, direction |-> c.direction,
                             epoch |-> c.epoch]
         /\ c.pc = "done" =>
              ClientOf(c) = [state |-> "done", feed |-> c.feed, direction |-> c.direction,
                             result |-> c.result]
  BY DEF ClientOf

LEMMA ClientOfIdle == ClientOf(Idle) = [state |-> "idle"]
  BY DEF ClientOf, Idle

(* A section under the mutex changes what one epoch of one feed remembers. *)
LEMMA MemoMoves ==
  ASSUME Inv, NEW t \in Threads, call[t].pc # "idle", NEW s, SetCache(t, s)
  PROVE  Memoized' = [Memoized EXCEPT ![call[t].feed][call[t].epoch] = Values(s)]
<1>1. call[t].feed \in Feeds /\ call[t].epoch \in 0..MaxEpoch
  BY CallFacts
<1>2. ASSUME NEW f \in Feeds, NEW e \in 0..MaxEpoch
      PROVE  cache'[f][e] = IF f = call[t].feed /\ e = call[t].epoch THEN s ELSE cache[f][e]
  BY <1>1 DEF Inv, SetCache
<1> DEFINE here(f, e) == f = call[t].feed /\ e = call[t].epoch
           after == [f \in Feeds |-> [e \in 0..MaxEpoch |->
                       IF here(f, e) THEN Values(s) ELSE Values(cache[f][e])]]
<1>3. \A f \in Feeds, e \in 0..MaxEpoch :
        Values(cache'[f][e]) = IF here(f, e) THEN Values(s) ELSE Values(cache[f][e])
  BY <1>2
<1>4. Memoized' = [f \in Feeds |-> [e \in 0..MaxEpoch |-> Values(cache'[f][e])]]
  BY DEF Memoized, Values
<1>5. Memoized' = after
  BY <1>3, <1>4
<1>6. [Memoized EXCEPT ![call[t].feed][call[t].epoch] = Values(s)] = after
  BY <1>1 DEF Memoized
<1> QED
  BY <1>5, <1>6

LEMMA MemoFacts ==
  ASSUME Inv, NEW t \in Threads, call[t].pc # "idle"
  PROVE  Memoized[call[t].feed][call[t].epoch] = Values(CacheOf(t))
  BY CallFacts DEF Memoized, CacheOf

LEMMA MemoRests == ASSUME UNCHANGED cache PROVE Memoized' = Memoized
  BY DEF Memoized

LEMMA FetchJoins == ASSUME Inv, NEW t \in Threads, Fetch(t) PROVE Memo!Join(t)
<1> DEFINE c == [call[t] EXCEPT !.pc = IF enabled THEN "fetched" ELSE "computing",
                                !.epoch = epoch[call[t].feed]]
<1>1. call[t] \in Calls /\ call[t].pc = "called" /\ epoch[call[t].feed] \in 0..MaxEpoch
  BY CallFacts DEF Fetch, Inv
<1>2. /\ c \in Calls /\ c.pc \in {"fetched", "computing"} /\ c.feed = call[t].feed
      /\ c.direction = call[t].direction /\ c.epoch = epoch[call[t].feed]
  BY <1>1 DEF Calls
<1>3. call' = [call EXCEPT ![t] = c]
  BY DEF Fetch, Inv
<1> HIDE DEF c
<1>4. Client' = [Client EXCEPT ![t] = ClientOf(c)]
  BY <1>2, <1>3, ClientMoves
<1>5. ClientOf(c) = [state |-> "joined", feed |-> call[t].feed,
                     direction |-> call[t].direction, epoch |-> epoch[call[t].feed]]
  BY <1>2, ClientOfState
<1>6. Client[t] = [state |-> "busy", feed |-> call[t].feed, direction |-> call[t].direction]
  BY <1>1, ClientFacts, ClientOfState
<1>7. Memoized' = Memoized /\ epoch' = epoch
  BY MemoRests DEF Fetch
<1> QED
  BY <1>4, <1>5, <1>6, <1>7 DEF Memo!Join

(* A joined call, as GainMemo sees it. *)
LEMMA JoinedFacts ==
  ASSUME Inv, NEW t \in Threads, call[t].pc \in {"fetched", "computing", "computed"}
  PROVE  /\ Client[t].state = "joined"
         /\ Client[t].feed = call[t].feed
         /\ Client[t].direction = call[t].direction
         /\ Client[t].epoch = call[t].epoch
         /\ Memo!Own(t) = Own(t)
<1>1. call[t] \in Calls
  BY CallFacts
<1>2. Client[t] = [state |-> "joined", feed |-> call[t].feed,
                   direction |-> call[t].direction, epoch |-> call[t].epoch]
  BY <1>1, ClientFacts, ClientOfState
<1>3. /\ Client[t].state = "joined" /\ Client[t].feed = call[t].feed
      /\ Client[t].direction = call[t].direction /\ Client[t].epoch = call[t].epoch
  BY <1>2
<1> QED
  BY <1>3 DEF Memo!Own, Own

(* Returning ends the call of a joined client. *)
LEMMA ReturnEnds ==
  ASSUME Inv, NEW t \in Threads, call[t].pc \in {"fetched", "computing", "computed"},
         NEW r \in Physics \cup {Failed}, Return(t, r)
  PROVE  Memo!End(t, r)
<1> DEFINE c == [call[t] EXCEPT !.pc = "done", !.result = r]
<1>1. call[t] \in Calls
  BY CallFacts
<1>2. /\ c \in Calls /\ c.pc = "done" /\ c.feed = call[t].feed
      /\ c.direction = call[t].direction /\ c.result = r
  BY <1>1 DEF Calls
<1>3. call' = [call EXCEPT ![t] = c]
  BY DEF Return, Inv
<1> HIDE DEF c
<1>4. Client' = [Client EXCEPT ![t] = ClientOf(c)]
  BY <1>2, <1>3, ClientMoves
<1>5. ClientOf(c) = [state |-> "done", feed |-> call[t].feed,
                     direction |-> call[t].direction, result |-> r]
  BY <1>2, ClientOfState
<1>6. Client[t].feed = call[t].feed /\ Client[t].direction = call[t].direction
  BY JoinedFacts
<1> QED
  BY <1>4, <1>5, <1>6 DEF Memo!End

(* Moving on within the call is invisible. *)
LEMMA GotoIsInvisible ==
  ASSUME Inv, NEW t \in Threads, call[t].pc \in {"fetched", "computing"},
         NEW pc \in {"computing", "computed"}, Goto(t, pc), UNCHANGED <<epoch, cache>>
  PROVE  UNCHANGED <<epoch, Memoized, Client>>
<1> DEFINE c == [call[t] EXCEPT !.pc = pc]
<1>1. call[t] \in Calls /\ Client[t] = ClientOf(call[t])
  BY CallFacts, ClientFacts
<1>2. /\ c \in Calls /\ c.pc \in {"computing", "computed"} /\ c.feed = call[t].feed
      /\ c.direction = call[t].direction /\ c.epoch = call[t].epoch
  BY <1>1 DEF Calls
<1>3. call' = [call EXCEPT ![t] = c]
  BY DEF Goto, Inv
<1> HIDE DEF c
<1>4. Client' = [Client EXCEPT ![t] = ClientOf(c)]
  BY <1>2, <1>3, ClientMoves
<1>5. ClientOf(c) = ClientOf(call[t])
  BY <1>1, <1>2, ClientOfState
<1>6. Client' = Client
  BY <1>1, <1>4, <1>5 DEF Client
<1> QED
  BY <1>6, MemoRests

LEMMA ProbeRecalls ==
  ASSUME Inv, NEW t \in Threads, Probe(t)
  PROVE  Memo!Recall(t) \/ UNCHANGED <<epoch, Memoized, Client>>
<1>1. call[t].pc = "fetched" /\ epoch' = epoch
  BY DEF Probe
<1>2. CASE Goto(t, "computing") /\ UNCHANGED cache
  BY <1>1, <1>2, GotoIsInvisible
<1>3. ASSUME NEW i \in Positions(CacheOf(t), KeyFor(t)),
             Return(t, CacheOf(t)[i].value),
             SetCache(t, Front(CacheOf(t), i, CacheOf(t)[i]))
      PROVE  Memo!Recall(t)
  <2> DEFINE s == CacheOf(t)
             v == CacheOf(t)[i].value
  <2>1. /\ i \in 1..Len(s) /\ s[i] \in Entry /\ v \in Physics /\ s \in Seq(Entry)
        /\ KeyOf[v.direction] = KeyFor(t)
    BY <1>1, HitFacts, CallFacts
  <2>2. Memo!End(t, v)
    BY <1>1, <1>3, <2>1, ReturnEnds
  <2>3. Values(Front(s, i, s[i])) = Values(s)
    <3>1. Len(s) \in Nat /\ i \in 1..Len(s) + 1
      BY <2>1
    <3>2. Values(Front(s, i, s[i])) = {s[i].value} \cup {s[j].value : j \in (1..Len(s)) \ {i}}
      BY <2>1, <3>1, FrontValues
    <3> HIDE DEF s
    <3> QED
      BY <2>1, <3>2 DEF Values
  <2>4. Memoized[call[t].feed][call[t].epoch] = Values(s)
    BY <1>1, MemoFacts
  <2>5. Memoized' = [Memoized EXCEPT ![call[t].feed][call[t].epoch] = Values(s)]
    BY <1>1, <1>3, <2>3, MemoMoves
  <2>6. Memoized' = Memoized
    <3>1. Memoized = [f \in Feeds |-> Memoized[f]]
          /\ \A f \in Feeds : Memoized[f] = [e \in 0..MaxEpoch |-> Memoized[f][e]]
      BY DEF Memoized
    <3> QED
      BY <2>4, <2>5, <3>1
  <2>7. v \in Memoized[call[t].feed][call[t].epoch]
    BY <2>1, <2>4 DEF Values
  <2> HIDE DEF v
  <2>8. /\ Client[t].state = "joined" /\ Client[t].feed = call[t].feed
        /\ Client[t].epoch = call[t].epoch /\ Client[t].direction = call[t].direction
    BY <1>1, JoinedFacts
  <2>9. KeyOf[v.direction] = KeyOf[Client[t].direction]
    BY <2>1, <2>8 DEF KeyFor, v
  <2> QED
    BY <1>1, <2>2, <2>6, <2>7, <2>8, <2>9 DEF Memo!Recall
<1> QED
  BY <1>2, <1>3 DEF Probe

LEMMA ComputeEvaluates ==
  ASSUME Inv, NEW t \in Threads, Compute(t)
  PROVE  Memo!Fail(t) \/ Memo!Evaluate(t) \/ UNCHANGED <<epoch, Memoized, Client>>
<1>1. call[t].pc = "computing" /\ UNCHANGED <<epoch, cache>> /\ Memoized' = Memoized
  BY MemoRests DEF Compute
<1>2. Client[t].state = "joined" /\ Memo!Own(t) = Own(t) /\ Own(t) \in Physics
  BY <1>1, JoinedFacts, CallFacts
<1>3. CASE Return(t, Failed)
  <2>1. Memo!End(t, Failed)
    BY <1>1, <1>3, ReturnEnds
  <2> QED
    BY <1>1, <1>2, <2>1 DEF Memo!Fail
<1>4. CASE Goto(t, "computed")
  BY <1>1, <1>4, GotoIsInvisible
<1>5. CASE Return(t, Own(t))
  <2>1. Memo!End(t, Memo!Own(t))
    BY <1>1, <1>2, <1>5, ReturnEnds
  <2> QED
    BY <1>1, <1>2, <2>1 DEF Memo!Evaluate
<1> QED
  BY <1>3, <1>4, <1>5 DEF Compute

LEMMA StoreEvaluates ==
  ASSUME Inv, NEW t \in Threads, Store(t)
  PROVE  Memo!Evaluate(t)
<1> DEFINE s == CacheOf(t)
           i == Slot(CacheOf(t), KeyFor(t))
           x == [key |-> KeyFor(t), value |-> Own(t)]
           kept == {s[j].value : j \in (1..Len(s)) \ {i}}
<1>1. call[t].pc = "computed" /\ epoch' = epoch /\ SetCache(t, Front(s, i, x))
      /\ Return(t, Own(t))
  BY DEF Store
<1>2. s \in Seq(Entry) /\ Own(t) \in Physics /\ x \in Entry /\ i \in 1..Len(s) + 1
  BY <1>1, CallFacts, StoreFacts
<1>3. Client[t].state = "joined" /\ Memo!Own(t) = Own(t)
      /\ Client[t].feed = call[t].feed /\ Client[t].epoch = call[t].epoch
  BY <1>1, JoinedFacts
<1>4. Memo!End(t, Memo!Own(t))
  BY <1>1, <1>2, <1>3, ReturnEnds
<1>5. Values(Front(s, i, x)) = kept \cup {Own(t)}
  <2>1. Values(Front(s, i, x)) = {x.value} \cup kept
    BY <1>2, FrontValues
  <2>2. x.value = Own(t)
    OBVIOUS
  <2> HIDE DEF x, kept
  <2> QED
    BY <2>1, <2>2
<1>6. kept \in SUBSET Memoized[call[t].feed][call[t].epoch]
  <2>1. Memoized[call[t].feed][call[t].epoch] = Values(s)
    BY <1>1, MemoFacts
  <2> HIDE DEF s, i
  <2> QED
    BY <2>1 DEF Values
<1>7. Memoized' = [Memoized EXCEPT ![call[t].feed][call[t].epoch] = kept \cup {Own(t)}]
  BY <1>1, <1>5, MemoMoves
<1> HIDE DEF kept
<1> QED
  BY <1>1, <1>3, <1>4, <1>6, <1>7 DEF Memo!Evaluate

LEMMA FinishLeaves == ASSUME Inv, NEW t \in Threads, Finish(t) PROVE Memo!Leave(t)
<1>1. call[t] \in Calls /\ call[t].pc = "done" /\ call' = [call EXCEPT ![t] = Idle]
      /\ epoch' = epoch /\ Memoized' = Memoized
  BY CallFacts, MemoRests DEF Finish
<1>2. Client' = [Client EXCEPT ![t] = [state |-> "idle"]]
  BY <1>1, ClientMoves, ClientOfIdle
<1>3. Client[t] = [state |-> "done", feed |-> call[t].feed, direction |-> call[t].direction,
                   result |-> call[t].result]
  BY <1>1, ClientFacts, ClientOfState
<1>4. Client[t].state = "done"
  BY <1>3
<1> QED
  BY <1>1, <1>2, <1>4 DEF Memo!Leave, Memo!Idle

LEMMA BeginCalls ==
  ASSUME Inv, NEW t \in Threads, NEW f \in Feeds, NEW d \in Directions, Begin(t, f, d)
  PROVE  Memo!Call(t, f, d)
<1> DEFINE c == [pc |-> "called", feed |-> f, direction |-> d, epoch |-> 0, result |-> Failed]
<1>1. c \in Calls /\ c.pc = "called" /\ c.feed = f /\ c.direction = d
  BY GainCacheAssumption DEF Calls
<1>2. call[t].pc = "idle" /\ call' = [call EXCEPT ![t] = c] /\ epoch' = epoch
      /\ Memoized' = Memoized
  BY MemoRests DEF Begin
<1> HIDE DEF c
<1>3. Client' = [Client EXCEPT ![t] = [state |-> "busy", feed |-> f, direction |-> d]]
  BY <1>1, <1>2, ClientMoves, ClientOfState
<1>4. call[t] = Idle
  BY <1>2 DEF Inv, Calls
<1>5. Client[t] = [state |-> "idle"]
  BY <1>4, ClientFacts, ClientOfIdle
<1>6. Client[t].state = "idle"
  BY <1>5
<1> QED
  BY <1>2, <1>3, <1>6 DEF Memo!Call

LEMMA InitIsMemoInit == Init => Memo!Init
<1> SUFFICES ASSUME Init PROVE Memo!Init
  OBVIOUS
<1>1. \A t \in Threads : ClientOf(call[t]) = [state |-> "idle"]
  BY ClientOfIdle DEF Init
<1>2. Client = [t \in Threads |-> Memo!Idle]
  BY <1>1 DEF Client, Memo!Idle
<1>3. \A f \in Feeds, e \in 0..MaxEpoch : Values(cache[f][e]) = {}
  BY DEF Init, Values
<1>4. Memoized = [f \in Feeds |-> [e \in 0..MaxEpoch |-> {}]]
  BY <1>3 DEF Memoized
<1> QED
  BY <1>2, <1>4 DEF Init, Memo!Init

LEMMA StepIsMemoStep == Inv /\ [Next]_vars => [Memo!Next]_(Memo!memoVars)
<1> SUFFICES ASSUME Inv, [Next]_vars PROVE [Memo!Next]_(Memo!memoVars)
  OBVIOUS
<1>1. ASSUME NEW t \in Threads, Work(t)
      PROVE  \/ Memo!Join(t) \/ Memo!Fail(t) \/ Memo!Recall(t) \/ Memo!Evaluate(t)
             \/ Memo!Leave(t) \/ UNCHANGED <<epoch, Memoized, Client>>
  BY <1>1, FetchJoins, ProbeRecalls, ComputeEvaluates, StoreEvaluates, FinishLeaves DEF Work
<1>2. ASSUME NEW t \in Threads, NEW f \in Feeds, NEW d \in Directions, Begin(t, f, d)
      PROVE  Memo!Call(t, f, d)
  BY <1>2, BeginCalls
<1>3. ASSUME NEW f \in Feeds, Invalidate(f)
      PROVE  Memo!Invalidate(f)
  <2>1. Memoized' = Memoized /\ Client' = Client
    BY <1>3, MemoRests DEF Invalidate, Client
  <2> QED
    BY <1>3, <2>1 DEF Invalidate, Memo!Invalidate
<1>4. CASE UNCHANGED vars
  <2>1. Memoized' = Memoized /\ Client' = Client /\ epoch' = epoch
    BY <1>4, MemoRests DEF vars, Client
  <2> QED
    BY <2>1 DEF Memo!memoVars
<1> QED
  BY <1>1, <1>2, <1>3, <1>4 DEF Next, Memo!Next, Memo!memoVars

(* However the calls interleave with each other and with invalidations,    *)
(* the locked, bounded, evicting caches do what one memo per feed would.   *)
THEOREM CacheIsMemo == Spec => ImplementsMemo
  BY InitIsMemoInit, StepIsMemoStep, Inductive, PTL DEF Spec, ImplementsMemo, Memo!Spec
=============================================================================
