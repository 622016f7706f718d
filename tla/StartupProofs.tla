---------------------------- MODULE StartupProofs ----------------------------
(***************************************************************************)
(* Proofs about Startup for any ids and any antenna lists: the layers of   *)
(* the configuration survive, the antennas served are whole, startup is    *)
(* all or nothing under fail_fast, and it is the load step of Lifecycle.   *)
(***************************************************************************)
EXTENDS Startup, TLAPS

Values == {"good", "on", "off"}

Configured ==
  /\ file \in [state : {"read", "absent", "unparsable"}, layer : Layer]
  /\ env \in Layer
  /\ config = IF phase = "configuring" THEN Merge(Unset, Unset) ELSE InForce

(* Before the list is read nothing is loaded; afterwards it is a valid one. *)
ListInHand ==
  /\ antennas.list \in Seq(Entries)
  /\ antennas \in [state : {"unread", "unreadable", "read"}, list : Lists \cup {<<>>}]
  /\ phase \in {"configuring", "reading"} => antennas.list = <<>> /\ next = 1 /\ count = 0
  /\ phase \in {"loading", "healthy"} => ListValid(antennas.list)

(* The entries the loop is through with. *)
Past == {i \in Due : i < next}

Loaded(list, past) == UNION {Yield(list[i]) : i \in past}

LoopInvariant ==
  /\ next \in 1..Len(antennas.list) + 1
  /\ count \in Nat
  /\ repo = IF phase \in {"loading", "healthy"} THEN Loaded(antennas.list, Past) ELSE {}
  /\ count > 0 => \E i \in Past : Yield(antennas.list[i]) # {}
  /\ phase \in {"loading", "healthy"} /\ FailFast => \A i \in Past : Loads(antennas.list[i])
  /\ phase = "healthy" => count > 0 /\ next > Len(antennas.list)
  /\ phase = "degraded" => ~FailFast

Inv == phase \in Phases /\ Configured /\ ListInHand /\ LoopInvariant

-----------------------------------------------------------------------------
LEMMA MergeType ==
  ASSUME NEW f \in Layer, NEW e \in Layer, NEW k \in Keys
  PROVE  /\ Merge(f, e)[k].from \in Layers
         /\ Merge(f, e)[k].value \in {"good", "bad", "mistyped", "on", "off"}
         /\ e[k] # "unset" => Merge(f, e)[k] = [from |-> "env", value |-> e[k]]
         /\ e[k] = "unset" /\ f[k] # "unset" =>
              Merge(f, e)[k] = [from |-> "file", value |-> f[k]]
<1>1. CASE k = "server"
  BY <1>1 DEF Merge, Layer, Layers, Keys, Defaults
<1>2. CASE k = "fail_fast"
  BY <1>2 DEF Merge, Layer, Layers, Keys, Defaults
<1> QED
  BY <1>1, <1>2 DEF Keys

LEMMA UnsetType ==
  /\ Unset \in Layer
  /\ \A k \in Keys : Unset[k] = "unset" /\ Defaults[k] \in Values
  BY DEF Unset, Layer, Keys, Defaults, Values

LEMMA DefaultsInForce ==
  ASSUME NEW k \in Keys
  PROVE  Merge(Unset, Unset)[k] = [from |-> "default", value |-> Defaults[k]]
  BY UnsetType DEF Merge

LEMMA AcceptedValues ==
  ASSUME NEW f \in Layer, NEW e \in Layer, Accepts(Merge(f, e)), NEW k \in Keys
  PROVE  Merge(f, e)[k].from \in Layers /\ Merge(f, e)[k].value \in Values
  BY MergeType DEF Accepts, Values

LEMMA ConfigType ==
  ASSUME Configured, NEW k \in Keys
  PROVE  config[k].from \in Layers /\ config[k].value \in Values
<1>1. Merge(Unset, Unset)[k].from \in Layers /\ Merge(Unset, Unset)[k].value \in Values
  <2>1. Merge(Unset, Unset)[k] = [from |-> "default", value |-> Defaults[k]]
    BY DefaultsInForce
  <2> QED
    BY <2>1, UnsetType DEF Layers
<1>2. ASSUME FileLoads
      PROVE  Merge(file.layer, env)[k].from \in Layers
             /\ Merge(file.layer, env)[k].value \in Values
  BY <1>2, AcceptedValues DEF FileLoads, Configured
<1>3. ASSUME EnvLoads
      PROVE  Merge(Unset, env)[k].from \in Layers /\ Merge(Unset, env)[k].value \in Values
  BY <1>3, AcceptedValues, UnsetType DEF EnvLoads, Configured
<1> QED
  BY <1>1, <1>2, <1>3 DEF Configured, InForce

-----------------------------------------------------------------------------
(* What an entry yields is what it declares: the ids are its own.          *)
LEMMA EntryFacts ==
  ASSUME ListInHand, NEW i \in 1..Len(antennas.list)
  PROVE  antennas.list[i] \in Entries
  BY DEF ListInHand

LEMMA YieldType ==
  ASSUME NEW entry \in Entries, entry.id # NoId, EntryValid(entry)
  PROVE  Yield(entry) \subseteq Calibrations /\ \A c \in Yield(entry) : c.antenna = entry.id
<1>1. CASE FromFile(entry)
  BY <1>1 DEF Yield, Loads, FileCalibration, Calibration, Calibrations, Entries, Artifacts
<1>2. CASE ~FromFile(entry)
  <2>1. entry.status = "uncalibrated" /\ SpecsValid(entry.specs)
    BY <1>2 DEF FromFile, EntryValid
  <2>2. /\ entry.specs.feeds \in Seq(FeedSpecs) /\ entry.specs.dish \in Dishes
        /\ entry.id \in Ids
    BY DEF Entries, Specs
  <2>3. ASSUME NEW j \in Built(entry)
        PROVE  SpecsCalibration(entry, j) \in Calibrations
    <3>1. j \in 1..Len(entry.specs.feeds)
      BY DEF Built
    <3>2. FeedValid(entry.specs.feeds[j]) /\ entry.specs.feeds[j] \in FeedSpecs
      BY <2>1, <2>2, <3>1 DEF SpecsValid
    <3>3. entry.specs.feeds[j].id \in FeedIds /\ entry.specs.feeds[j].horn \in Horns
      BY <3>2 DEF FeedValid, FeedSpecs
    <3> QED
      BY <2>2, <3>3 DEF SpecsCalibration, Calibration, Calibrations
  <2>4. Yield(entry) = {SpecsCalibration(entry, j) : j \in Built(entry)}
    BY <1>2 DEF Yield
  <2>5. \A j \in Built(entry) : SpecsCalibration(entry, j).antenna = entry.id
    BY DEF SpecsCalibration, Calibration
  <2> QED
    BY <2>3, <2>4, <2>5
<1> QED
  BY <1>1, <1>2

(* An entry that loads and has a size yields something. *)
LEMMA LoadYields ==
  ASSUME NEW entry \in Entries, Loads(entry), Size(entry) > 0
  PROVE  Yield(entry) # {}
<1>1. CASE FromFile(entry)
  BY <1>1 DEF Yield
<1>2. CASE ~FromFile(entry)
  <2>1. Built(entry) = 1..Len(entry.specs.feeds) /\ Len(entry.specs.feeds) > 0
    BY <1>2 DEF Loads, Size
  <2>2. entry.specs.feeds \in Seq(FeedSpecs)
    BY DEF Entries, Specs
  <2>3. 1 \in Built(entry)
    BY <2>1, <2>2
  <2> QED
    BY <1>2, <2>3 DEF Yield
<1> QED
  BY <1>1, <1>2

LEMMA SizeType == ASSUME NEW entry \in Entries PROVE Size(entry) \in Nat
<1>1. entry.specs.feeds \in Seq(FeedSpecs)
  BY DEF Entries, Specs
<1> QED
  BY <1>1 DEF Size

(* A valid entry yields everything it declares or nothing at all, once     *)
(* each, and every calibration it yields is of the same dish and valid as  *)
(* an artifact.                                                            *)
LEMMA WholeOrNothing ==
  ASSUME NEW entry \in Entries, EntryValid(entry), Yield(entry) # {}
  PROVE  /\ Loads(entry) /\ {d.feed : d \in Yield(entry)} = Declares(entry)
         /\ \A c, d \in Yield(entry) : c.dish = d.dish /\ (c.feed = d.feed => c = d)
         /\ \A c \in Yield(entry) : ArtifactValid(c.dish, c.horn)
<1>0. CASE FromFile(entry)
  <2>1. Yield(entry) = {FileCalibration(entry.artifact)} /\ Loads(entry)
    BY <1>0 DEF Yield
  <2>2. /\ FileCalibration(entry.artifact).feed = entry.artifact.feed
        /\ FileCalibration(entry.artifact).dish = entry.artifact.dish
        /\ FileCalibration(entry.artifact).horn = entry.artifact.horn
    BY DEF FileCalibration, Calibration
  <2>3. {d.feed : d \in Yield(entry)} = {entry.artifact.feed}
    BY <2>1, <2>2
  <2>4. ArtifactValid(entry.artifact.dish, entry.artifact.horn)
    BY <1>0, <2>1 DEF Loads
  <2> QED
    BY <1>0, <2>1, <2>2, <2>3, <2>4 DEF Declares
<1> DEFINE n    == 1..Len(entry.specs.feeds)
           c(i) == SpecsCalibration(entry, i)
<1> SUFFICES ASSUME ~FromFile(entry)
             PROVE  /\ Loads(entry) /\ {d.feed : d \in Yield(entry)} = Declares(entry)
                    /\ \A d, e \in Yield(entry) : d.dish = e.dish /\ (d.feed = e.feed => d = e)
                    /\ \A d \in Yield(entry) : ArtifactValid(d.dish, d.horn)
  BY <1>0
<1>1. SpecsValid(entry.specs) /\ entry.specs.feeds \in Seq(FeedSpecs)
  BY DEF FromFile, EntryValid, Entries, Specs
<1>2. Yield(entry) = {c(j) : j \in Built(entry)}
  BY DEF Yield
<1>3. PICK j \in Built(entry) : TRUE
  BY <1>2
<1>4. DishValid(entry.specs.dish)
  <2>1. j \in 1..Len(entry.specs.feeds) /\ \A i \in 1..j : Builds(entry, entry.specs.feeds[i])
    BY <1>3 DEF Built
  <2>2. 1 \in 1..j
    BY <2>1, <1>1
  <2> QED
    BY <2>1, <2>2 DEF Builds, ArtifactValid
<1>5. \A i \in n : Builds(entry, entry.specs.feeds[i])
  <2> SUFFICES ASSUME NEW i \in n PROVE Builds(entry, entry.specs.feeds[i])
    OBVIOUS
  <2>1. FeedValid(entry.specs.feeds[i]) /\ entry.specs.feeds[i] \in FeedSpecs
    BY <1>1 DEF SpecsValid
  <2>2. HornValid(entry.specs.feeds[i].horn)
    BY <2>1 DEF FeedValid, FeedSpecs, Horns, HornAccepted, HornValid
  <2> QED
    BY <1>4, <2>1, <2>2 DEF Builds, ArtifactValid, FeedValid
<1>6. Built(entry) = n
  <2>1. \A i \in n : \A k \in 1..i : k \in n
    BY <1>1
  <2> QED
    BY <1>5, <2>1 DEF Built
<1>7. \A i \in n : /\ c(i).feed = entry.specs.feeds[i].id
                   /\ c(i).dish = entry.specs.dish /\ c(i).horn = entry.specs.feeds[i].horn
  BY DEF SpecsCalibration, Calibration
<1>8. \A i \in n : \A k \in n : entry.specs.feeds[i].id = entry.specs.feeds[k].id => i = k
  <2>1. \A i \in n : \A k \in 1..i-1 : entry.specs.feeds[k].id # entry.specs.feeds[i].id
    BY <1>1 DEF SpecsValid
  <2>2. \A i, k \in n : i = k \/ k \in 1..i-1 \/ i \in 1..k-1
    BY <1>1
  <2> QED
    BY <2>1, <2>2
<1>9. Loads(entry)
  BY <1>1, <1>6 DEF Loads, SpecsValid
<1>10. Declares(entry) = {entry.specs.feeds[i].id : i \in n}
  BY DEF Declares
<1>11. \A i \in n : ArtifactValid(c(i).dish, c(i).horn)
  BY <1>5, <1>7 DEF Builds
<1> HIDE DEF n, c
<1> QED
  BY <1>2, <1>6, <1>7, <1>8, <1>9, <1>10, <1>11

(* A valid entry that can be loaded yields something.                      *)
LEMMA ServedYields ==
  ASSUME NEW entry \in Entries, EntryValid(entry), Loads(entry)
  PROVE  Yield(entry) # {}
<1>1. CASE FromFile(entry)
  BY <1>1 DEF Yield
<1>2. CASE ~FromFile(entry)
  <2>1. entry.specs.feeds \in Seq(FeedSpecs) /\ entry.specs.feeds # <<>>
    BY <1>2 DEF FromFile, EntryValid, SpecsValid, Entries, Specs
  <2>2. Size(entry) > 0
    BY <1>2, <2>1 DEF Size
  <2> QED
    BY <2>2, LoadYields
<1> QED
  BY <1>1, <1>2

-----------------------------------------------------------------------------
LEMMA InitEstablishes == Init => Inv
<1> SUFFICES ASSUME Init PROVE Inv
  OBVIOUS
<1>1. Configured /\ phase \in Phases
  BY DEF Init, Configured, Phases
<1>2. antennas.list = <<>> /\ antennas.state \in {"unread", "unreadable"}
      /\ antennas = [state |-> antennas.state, list |-> antennas.list]
  BY DEF Init
<1>3. ListInHand
  BY <1>2 DEF Init, ListInHand
<1>4. LoopInvariant
  BY <1>2 DEF Init, LoopInvariant
<1> QED
  BY <1>1, <1>3, <1>4 DEF Inv

LEMMA FailFastStays ==
  ASSUME UNCHANGED config
  PROVE  FailFast' <=> FailFast
  BY DEF FailFast

(* While the settings and the list stay, what they say stays. *)
LEMMA ConfiguredStays ==
  ASSUME Configured, UNCHANGED <<file, env, config>>,
         (phase = "configuring") <=> (phase' = "configuring")
  PROVE  Configured'
  BY DEF Configured, InForce, FileLoads, EnvLoads

LEMMA LoadConfigurationKeeps == ASSUME Inv, LoadConfiguration PROVE Inv'
<1> USE DEF LoadConfiguration
<1>1. Configured' /\ phase' \in Phases
  BY DEF Inv, Configured, InForce, FileLoads, EnvLoads, Phases
<1>2. ListInHand'
  BY DEF Inv, ListInHand
<1>3. LoopInvariant'
  BY DEF Inv, LoopInvariant, ListInHand
<1> QED
  BY <1>1, <1>2, <1>3 DEF Inv

(* Giving up leaves nothing behind, and no fail_fast service running. *)
LEMMA GiveUpKeeps ==
  ASSUME Inv, GiveUp, UNCHANGED <<file, env, antennas, config, next>>, count' = 0,
         phase \notin {"configuring", "healthy"}
  PROVE  Inv'
<1>1. phase' \in {"aborted", "degraded"} /\ (phase' = "degraded" => ~FailFast) /\ repo' = {}
  BY DEF GiveUp
<1>2. Configured'
  BY <1>1, ConfiguredStays DEF Inv
<1>3. ListInHand'
  BY <1>1 DEF Inv, ListInHand
<1>4. LoopInvariant'
  BY <1>1, FailFastStays DEF Inv, LoopInvariant
<1> QED
  BY <1>1, <1>2, <1>3, <1>4 DEF Inv, Phases

LEMMA ReadAntennasKeeps == ASSUME Inv, ReadAntennas PROVE Inv'
<1>1. /\ phase = "reading" /\ count = 0 /\ next = 1 /\ antennas.list = <<>>
      /\ UNCHANGED <<file, env, config, next, count>>
  BY DEF Inv, ListInHand, ReadAntennas
<1>2. CASE antennas.state = "unreadable" /\ GiveUp /\ UNCHANGED antennas
  BY <1>1, <1>2, GiveUpKeeps
<1>3. ASSUME NEW list \in Lists, antennas' = [state |-> "read", list |-> list],
             IF ListValid(list) THEN phase' = "loading" /\ UNCHANGED repo ELSE GiveUp
      PROVE  Inv'
  <2>1. list \in Seq(Entries) /\ antennas'.list = list
    BY <1>3, StartupAssumption
  <2>2. phase' \in {"loading", "aborted", "degraded"}
    BY <1>3 DEF GiveUp
  <2>3. Configured' /\ phase' \in Phases
    BY <1>1, <2>2, ConfiguredStays DEF Inv, Phases
  <2>4. ListInHand'
    BY <1>1, <1>3, <2>1, <2>2 DEF ListInHand, GiveUp
  <2>5. Past' = {}
    BY <1>1, <2>1 DEF Past, Due
  <2>6. repo' = {} /\ Loaded(antennas'.list, Past') = {}
    BY <1>1, <1>3, <2>5 DEF Inv, LoopInvariant, GiveUp, Loaded
  <2>7. phase' = "degraded" => ~FailFast
    BY <1>3 DEF GiveUp
  <2>8. next' \in 1..Len(antennas'.list) + 1
    BY <1>1, <2>1
  <2>9. LoopInvariant'
    BY <1>1, <2>2, <2>5, <2>6, <2>7, <2>8, FailFastStays DEF LoopInvariant
  <2> QED
    BY <2>3, <2>4, <2>9 DEF Inv
<1> QED
  BY <1>2, <1>3 DEF ReadAntennas

(* What the loop is through with after one more entry. *)
LEMMA PastGrows ==
  ASSUME ListInHand, AtEntry, next \in Nat \ {0}, next' = next + 1, UNCHANGED antennas
  PROVE  /\ next \in 1..Len(antennas.list) /\ Current \in Entries
         /\ Past' = IF Current.enabled THEN Past \cup {next} ELSE Past
<1>1. Len(antennas.list) \in Nat /\ next \in 1..Len(antennas.list)
  BY DEF ListInHand, AtEntry
<1>2. Due' = Due
  BY DEF Due
<1>3. \A i \in Due : i \in Nat /\ (i < next + 1 <=> i < next \/ i = next)
  BY <1>1 DEF Due
<1>4. next \in Due <=> Current.enabled
  BY <1>1 DEF Due, Current
<1> QED
  BY <1>1, <1>2, <1>3, <1>4, EntryFacts DEF Past, Current

LEMMA SkipDisabledKeeps == ASSUME Inv, SkipDisabled PROVE Inv'
<1> USE DEF SkipDisabled
<1>1. phase = "loading" /\ next \in Nat \ {0} /\ antennas.list \in Seq(Entries)
  BY DEF AtEntry, Inv, LoopInvariant, ListInHand
<1>2. next \in 1..Len(antennas.list) /\ Past' = Past
  BY <1>1, PastGrows DEF Inv
<1>3. Configured'
  BY ConfiguredStays DEF Inv
<1>4. ListInHand'
  BY <1>1 DEF Inv, ListInHand
<1>5. next' \in 1..Len(antennas'.list) + 1
  BY <1>1, <1>2
<1>6. LoopInvariant'
  BY <1>1, <1>2, <1>5, FailFastStays DEF Inv, LoopInvariant
<1> QED
  BY <1>1, <1>3, <1>4, <1>6 DEF Inv

LEMMA LoadEntryKeeps == ASSUME Inv, LoadEntry PROVE Inv'
<1>1. /\ phase = "loading" /\ Current.enabled
      /\ next \in Nat \ {0} /\ count \in Nat /\ ListInHand /\ Configured
      /\ repo = Loaded(antennas.list, Past)
      /\ UNCHANGED <<file, env, antennas, config>>
  BY DEF LoadEntry, AtEntry, Inv, LoopInvariant
<1>2. CASE GiveUp /\ UNCHANGED <<next, count>>
  <2>1. phase' \in {"aborted", "degraded"} /\ (phase' = "degraded" => ~FailFast) /\ repo' = {}
    BY <1>2 DEF GiveUp
  <2>2. Configured' /\ ListInHand'
    BY <1>1, <2>1, ConfiguredStays DEF ListInHand
  <2>3. Past' = Past
    BY <1>1, <1>2 DEF Past, Due
  <2>4. LoopInvariant'
    BY <1>1, <1>2, <2>1, <2>3, FailFastStays DEF Inv, LoopInvariant
  <2> QED
    BY <2>1, <2>2, <2>4 DEF Inv, Phases
<1>3. ASSUME next' = next + 1, repo' = repo \cup Yield(Current), UNCHANGED phase,
             \/ Loads(Current) /\ count' = count + Size(Current)
             \/ ~FailFast /\ UNCHANGED count
      PROVE  Inv'
  <2>1. /\ next \in 1..Len(antennas.list) /\ Current \in Entries
        /\ Past' = Past \cup {next}
    BY <1>1, <1>3, PastGrows DEF LoadEntry
  <2>2. Configured' /\ ListInHand'
    BY <1>1, <1>3, ConfiguredStays DEF ListInHand
  <2>3. Size(Current) \in Nat /\ count' \in Nat
    BY <1>1, <1>3, <2>1, SizeType
  <2>4. repo' = Loaded(antennas.list, Past')
    BY <1>1, <1>3, <2>1 DEF Loaded, Current
  <2>5. ASSUME count' > 0
        PROVE  \E i \in Past' : Yield(antennas.list[i]) # {}
    <3>1. CASE count > 0
      BY <3>1, <2>1 DEF Inv, LoopInvariant
    <3>2. CASE count = 0
      <4>1. Loads(Current) /\ Size(Current) > 0
        BY <1>3, <2>3, <2>5, <3>2
      <4> QED
        BY <4>1, <2>1, LoadYields DEF Current
    <3> QED
      BY <1>1, <3>1, <3>2
  <2>6. FailFast => \A i \in Past' : Loads(antennas.list[i])
    BY <1>1, <1>3, <2>1 DEF Inv, LoopInvariant, Current, LoadEntry
  <2>7. next' \in 1..Len(antennas.list) + 1
    BY <1>1, <1>3, <2>1 DEF ListInHand
  <2>8. LoopInvariant'
    BY <1>1, <1>3, <2>3, <2>4, <2>5, <2>6, <2>7, FailFastStays DEF LoopInvariant
  <2> QED
    BY <1>1, <1>3, <2>2, <2>8 DEF Inv
<1> QED
  BY <1>2, <1>3 DEF LoadEntry

LEMMA FinishLoadKeeps == ASSUME Inv, FinishLoad PROVE Inv'
<1> USE DEF FinishLoad
<1>1. CASE count > 0 /\ phase' = "healthy" /\ UNCHANGED repo
  <2>1. Configured' /\ ListInHand'
    BY <1>1, ConfiguredStays DEF Inv, ListInHand
  <2>2. Past' = Past
    BY DEF Past, Due
  <2>3. LoopInvariant'
    BY <1>1, <2>2, FailFastStays DEF Inv, LoopInvariant
  <2> QED
    BY <1>1, <2>1, <2>3 DEF Inv, Phases
<1>2. CASE count = 0 /\ GiveUp
  BY <1>2, GiveUpKeeps
<1> QED
  BY <1>1, <1>2

LEMMA StepKeeps == Inv /\ [Next]_vars => Inv'
<1> SUFFICES ASSUME Inv, [Next]_vars PROVE Inv'
  OBVIOUS
<1>1. CASE Next
  BY <1>1, LoadConfigurationKeeps, ReadAntennasKeeps, SkipDisabledKeeps, LoadEntryKeeps,
     FinishLoadKeeps DEF Next
<1>2. CASE UNCHANGED vars
  <2> USE <1>2 DEF vars
  <2>1. Configured' /\ ListInHand'
    BY ConfiguredStays DEF Inv, ListInHand
  <2>2. Past' = Past
    BY DEF Past, Due
  <2>3. LoopInvariant'
    BY <2>2, FailFastStays DEF Inv, LoopInvariant
  <2> QED
    BY <2>1, <2>3 DEF Inv
<1> QED
  BY <1>1, <1>2

LEMMA Inductive == Spec => []Inv
  BY InitEstablishes, StepKeeps, PTL DEF Spec

-----------------------------------------------------------------------------
(* Every variable stays within its type: above all, what is loaded is of   *)
(* known antennas and feeds, and what is in force was accepted.            *)
THEOREM TypeCorrect == Spec => []TypeOK
<1>1. Inv => TypeOK
  <2> SUFFICES ASSUME Inv PROVE TypeOK
    OBVIOUS
  <2>1. \A k \in Keys : config[k].from \in Layers /\ config[k].value \in {"good", "on", "off"}
    BY ConfigType DEF Inv, Values
  <2>2. repo \subseteq Calibrations
    <3>1. CASE phase \in {"loading", "healthy"}
      <4>1. \A i \in Past : antennas.list[i] \in Entries
                            /\ antennas.list[i].id # NoId /\ EntryValid(antennas.list[i])
        BY <3>1, EntryFacts DEF Inv, ListInHand, ListValid, Past, Due
      <4>2. \A i \in Past : Yield(antennas.list[i]) \subseteq Calibrations
        BY <4>1, YieldType
      <4>3. repo = Loaded(antennas.list, Past)
        BY <3>1 DEF Inv, LoopInvariant
      <4> QED
        BY <4>2, <4>3 DEF Loaded
    <3>2. CASE phase \notin {"loading", "healthy"}
      BY <3>2 DEF Inv, LoopInvariant
    <3> QED
      BY <3>1, <3>2
  <2> QED
    BY <2>1, <2>2 DEF Inv, Configured, ListInHand, LoopInvariant, TypeOK
<1> QED
  BY <1>1, Inductive, PTL

(* The environment is in force whenever it can be, and so is the file.     *)
THEOREM NoLayerLost == Spec => []LayersSurvive
<1>1. Inv => LayersSurvive
  <2> SUFFICES ASSUME Inv, phase # "configuring"
               PROVE  /\ FileLoads \/ EnvLoads =>
                           \A k \in Keys : env[k] # "unset" => config[k].from = "env"
                      /\ FileLoads =>
                           \A k \in Keys : file.layer[k] # "unset" /\ env[k] = "unset" =>
                             config[k].from = "file"
    BY DEF LayersSurvive
  <2>1. file.layer \in Layer /\ env \in Layer /\ config = InForce
    BY DEF Inv, Configured
  <2>2. \A k \in Keys : env[k] # "unset" =>
          Merge(file.layer, env)[k].from = "env" /\ Merge(Unset, env)[k].from = "env"
    <3> SUFFICES ASSUME NEW k \in Keys, env[k] # "unset"
                 PROVE  Merge(file.layer, env)[k].from = "env" /\ Merge(Unset, env)[k].from = "env"
      OBVIOUS
    <3>1. Merge(file.layer, env)[k] = [from |-> "env", value |-> env[k]]
      BY <2>1, MergeType
    <3>2. Merge(Unset, env)[k] = [from |-> "env", value |-> env[k]]
      BY <2>1, MergeType, UnsetType
    <3> QED
      BY <3>1, <3>2
  <2>3. \A k \in Keys : file.layer[k] # "unset" /\ env[k] = "unset" =>
          Merge(file.layer, env)[k].from = "file"
    <3> SUFFICES ASSUME NEW k \in Keys, file.layer[k] # "unset", env[k] = "unset"
                 PROVE  Merge(file.layer, env)[k].from = "file"
      OBVIOUS
    <3>1. Merge(file.layer, env)[k] = [from |-> "file", value |-> file.layer[k]]
      BY <2>1, MergeType
    <3> QED
      BY <3>1
  <2> QED
    BY <2>1, <2>2, <2>3 DEF InForce
<1> QED
  BY <1>1, Inductive, PTL

(* With fail_fast the service starts whole or not at all, and "healthy"    *)
(* always means that something is served.                                  *)
THEOREM StartsWhole == Spec => []AllOrNothing
<1>1. Inv => AllOrNothing
  <2> SUFFICES ASSUME Inv PROVE AllOrNothing
    OBVIOUS
  <2>1. ASSUME phase = "healthy" PROVE Past = Due /\ repo = Loaded(antennas.list, Due)
    <3>1. next \in Nat /\ next > Len(antennas.list) /\ Len(antennas.list) \in Nat
      <4>1. Len(antennas.list) \in Nat
        BY DEF Inv, ListInHand
      <4> QED
        BY <2>1, <4>1 DEF Inv, LoopInvariant
    <3>2. Past = Due
      BY <3>1 DEF Past, Due
    <3> QED
      BY <2>1, <3>2 DEF Inv, LoopInvariant
  <2>2. phase = "healthy" /\ FailFast => \A entry \in EnabledEntries : Loads(entry)
    BY <2>1 DEF Inv, LoopInvariant, EnabledEntries
  <2>3. phase = "healthy" => repo # {}
    BY <2>1 DEF Inv, LoopInvariant, Loaded
  <2>4. phase \in {"degraded", "aborted"} => repo = {}
    BY DEF Inv, LoopInvariant
  <2>5. Health = "healthy" <=> repo # {}
    BY DEF Health, ListedAntennas
  <2> QED
    BY <2>2, <2>3, <2>4, <2>5 DEF AllOrNothing, Settled, Ready, Inv, LoopInvariant
<1> QED
  BY <1>1, Inductive, PTL

(* The products that compare a stated ratio with the quotient.             *)
LEMMA RatioBounds ==
  ASSUME NEW d \in Int, NEW r \in Int, d > 0, FOverDMin <= r, r <= FOverDMax
  PROVE  r * d \in Int /\ 200 * d <= r * d /\ r * d <= 1000 * d
<1>1. (r - 200) * d >= 0 /\ (1000 - r) * d >= 0
  BY DEF FOverDMin, FOverDMax
<1>2. (r - 200) * d = r * d - 200 * d /\ (1000 - r) * d = 1000 * d - r * d
  OBVIOUS
<1> QED
  BY <1>1, <1>2

(* What is valid as an artifact either builds or is marginal.              *)
LEMMA ValidBuildsOrMarginal ==
  ASSUME NEW dish \in Dishes, NEW horn \in Horns, ArtifactValid(dish, horn)
  PROVE  Prepares(dish, horn) \/ Marginal(dish, horn)
<1>1. /\ dish.diameter \in Int /\ dish.focal \in Int /\ dish.ratio \in Int
      /\ horn.q \in Int
  BY DEF Dishes, Horns
<1>2. /\ dish.diameter > 0 /\ dish.focal > 0 /\ dish.rms >= 0 /\ MeshesSound(dish)
      /\ FOverDMin <= dish.ratio /\ dish.ratio <= FOverDMax
      /\ horn.q >= 0 /\ horn.asym > 0
  BY DEF ArtifactValid, DishValid, DishAccepted, RatioSupported, HornValid
<1>3. CASE horn.q = 0
  BY <1>3 DEF Marginal
<1>4. CASE horn.q # 0 /\ QuotientSupported(dish)
  BY <1>1, <1>2, <1>4 DEF Prepares, ReflectorBuilds, FeedBuilds
<1>5. CASE ~QuotientSupported(dish)
  <2> DEFINE product == dish.ratio * dish.diameter
  <2>1. product \in Int /\ 200 * dish.diameter <= product /\ product <= 1000 * dish.diameter
    BY <1>1, <1>2, RatioBounds
  <2>2. /\ 100 * (product - 1000 * dish.focal) <= 1000 * dish.focal
        /\ -100 * (product - 1000 * dish.focal) <= 1000 * dish.focal
    BY DEF ArtifactValid, DishValid, RatioConsistent
  <2> HIDE DEF product
  <2>3. 20 * dish.diameter <= 101 * dish.focal /\ 99 * dish.focal <= 100 * dish.diameter
    BY <1>1, <2>1, <2>2
  <2> QED
    BY <1>5, <2>3 DEF Marginal
<1> QED
  BY <1>3, <1>4, <1>5

(* What discovery lists is what the entries that can be loaded declare, no *)
(* more and no less, each once; lookups tell one absence from the other;   *)
(* what is found builds, unless it is marginal; and the feeds of an        *)
(* antenna share the dish that is shown for it.                            *)
THEOREM ServesWholeAntennas == Spec => []AntennasWhole
<1>1. Inv => AntennasWhole
  <2> SUFFICES ASSUME Inv, phase = "healthy" PROVE AntennasWhole
    BY DEF AntennasWhole
  <2> DEFINE entry(i) == antennas.list[i]
             Good     == {i \in Due : Loads(entry(i))}
             served   == {e \in EnabledEntries : Loads(e)}
  <2>1. next \in Nat /\ next > Len(antennas.list) /\ Len(antennas.list) \in Nat
    BY DEF Inv, ListInHand, LoopInvariant
  <2>2. Past = Due /\ repo = Loaded(antennas.list, Due)
    <3>1. Past = Due
      BY <2>1 DEF Past, Due
    <3> QED
      BY <3>1 DEF Inv, LoopInvariant
  <2>3. \A i \in Due : /\ antennas.list[i] \in Entries
                       /\ antennas.list[i].id # NoId /\ EntryValid(antennas.list[i])
    BY EntryFacts DEF Inv, ListInHand, ListValid, Due
  <2>4. \A i \in Due : \A c \in Yield(antennas.list[i]) : c.antenna = antennas.list[i].id
    BY <2>3, YieldType
  <2>5. \A i, j \in Due : antennas.list[i].id = antennas.list[j].id => i = j
    <3>1. \A i \in 1..Len(antennas.list) : \A j \in 1..i-1 :
            antennas.list[j].id # antennas.list[i].id
      BY DEF Inv, ListInHand, ListValid
    <3>2. \A i, j \in Due : i = j \/ j \in 1..i-1 \/ i \in 1..j-1
      BY <2>1 DEF Due
    <3> QED
      BY <3>1, <3>2 DEF Due
  <2>6. \A i \in Good : /\ Yield(entry(i)) # {}
                        /\ {d.feed : d \in Yield(entry(i))} = Declares(entry(i))
                        /\ \A c, d \in Yield(entry(i)) :
                             c.dish = d.dish /\ (c.feed = d.feed => c = d)
                        /\ \A c \in Yield(entry(i)) : ArtifactValid(c.dish, c.horn)
                        /\ Yield(entry(i)) \subseteq Calibrations
    BY <2>3, WholeOrNothing, ServedYields, YieldType
  <2>7. ASSUME NEW c \in repo
        PROVE  \E i \in Good : c \in Yield(entry(i)) /\ entry(i).id = c.antenna
    <3>1. PICK i \in Due : c \in Yield(entry(i))
      BY <2>2 DEF Loaded
    <3>2. Loads(entry(i))
      BY <2>3, <3>1, WholeOrNothing
    <3> QED
      BY <2>4, <3>1, <3>2
  <2>8. ASSUME NEW i \in Good
        PROVE  /\ FeedsOf(entry(i).id) = Declares(entry(i)) /\ Declares(entry(i)) # {}
               /\ entry(i).id \in ListedAntennas
    <3>1. ASSUME NEW d \in repo, d.antenna = entry(i).id
          PROVE  d \in Yield(entry(i))
      <4>1. PICK j \in Good : d \in Yield(entry(j)) /\ entry(j).id = d.antenna
        BY <2>7
      <4>2. j = i
        BY <2>5, <3>1, <4>1
      <4> QED
        BY <4>1, <4>2
    <3>2. ASSUME NEW d \in Yield(entry(i))
          PROVE  d \in repo /\ d.antenna = entry(i).id
      BY <2>2, <2>4 DEF Loaded
    <3>3. {d \in repo : d.antenna = entry(i).id} = Yield(entry(i))
      BY <3>1, <3>2
    <3>4. FeedsOf(entry(i).id) = {d.feed : d \in Yield(entry(i))}
      BY <3>3 DEF FeedsOf
    <3>5. PICK d \in Yield(entry(i)) : TRUE
      BY <2>6
    <3>6. d.feed \in Declares(entry(i)) /\ entry(i).id \in ListedAntennas
      BY <2>6, <3>2, <3>5 DEF ListedAntennas
    <3> QED
      BY <2>6, <3>4, <3>6
  <2>9. ASSUME NEW a \in ListedAntennas
        PROVE  \E i \in Good : entry(i).id = a
    BY <2>7 DEF ListedAntennas
  <2>10. ASSUME NEW a, \A i \in Good : entry(i).id # a
         PROVE  FeedsOf(a) = {}
    <3>1. {d \in repo : d.antenna = a} = {}
      BY <2>7, <2>10
    <3> QED
      BY <3>1 DEF FeedsOf
  <2>11. served = {entry(i) : i \in Good}
    BY DEF EnabledEntries
  <2> HIDE DEF Good, served
  <2>12. AntennaList = {[id |-> e.id, feeds |-> Declares(e)] : e \in served}
    <3>1. ASSUME NEW x \in AntennaList
          PROVE  \E i \in Good : x = [id |-> entry(i).id, feeds |-> Declares(entry(i))]
      <4>1. PICK a \in ListedAntennas : x = [id |-> a, feeds |-> FeedsOf(a)]
        BY DEF AntennaList
      <4>2. PICK i \in Good : entry(i).id = a
        BY <2>9
      <4> QED
        BY <2>8, <4>1, <4>2
    <3>2. ASSUME NEW i \in Good
          PROVE  [id |-> entry(i).id, feeds |-> Declares(entry(i))] \in AntennaList
      BY <2>8 DEF AntennaList
    <3> QED
      BY <2>11, <3>1, <3>2
  <2>13. ASSUME NEW a \in Ids, NEW f \in FeedIds
         PROVE  Lookup(a, f) =
                  IF \A e \in served : e.id # a THEN "antenna_not_found"
                  ELSE IF \E e \in served : e.id = a /\ f \in Declares(e) THEN "ok"
                  ELSE "feed_not_found"
    <3>1. CASE \A i \in Good : entry(i).id # a
      BY <2>10, <2>11, <3>1 DEF Lookup
    <3>2. ASSUME NEW i \in Good, entry(i).id = a
          PROVE  Lookup(a, f) =
                  IF \A e \in served : e.id # a THEN "antenna_not_found"
                  ELSE IF \E e \in served : e.id = a /\ f \in Declares(e) THEN "ok"
                  ELSE "feed_not_found"
      <4>1. FeedsOf(a) = Declares(entry(i)) /\ FeedsOf(a) # {}
        BY <2>8, <3>2
      <4>2. \A e \in served : e.id = a => Declares(e) = FeedsOf(a)
        BY <2>8, <2>11
      <4>3. entry(i) \in served
        BY <2>11
      <4> QED
        BY <3>2, <4>1, <4>2, <4>3 DEF Lookup
    <3> QED
      BY <3>1, <3>2
  <2>14. ASSUME NEW c \in repo, NEW d \in repo, c.antenna = d.antenna, c.feed = d.feed
         PROVE  c = d
    <3>1. PICK i \in Good : c \in Yield(entry(i)) /\ entry(i).id = c.antenna
      BY <2>7
    <3>2. PICK j \in Good : d \in Yield(entry(j)) /\ entry(j).id = d.antenna
      BY <2>7
    <3>3. i = j
      BY <2>5, <2>14, <3>1, <3>2 DEF Good
    <3> QED
      BY <2>6, <2>14, <3>1, <3>2, <3>3
  <2>15. ASSUME NEW c \in repo
         PROVE  Answer(c.antenna, c.feed) = "ok" \/ Marginal(c.dish, c.horn)
    <3>1. PICK i \in Good : c \in Yield(entry(i))
      BY <2>7
    <3>2. c \in Calibrations /\ ArtifactValid(c.dish, c.horn)
      BY <2>6, <3>1
    <3>3. Prepares(c.dish, c.horn) \/ Marginal(c.dish, c.horn)
      BY <3>2, ValidBuildsOrMarginal DEF Calibrations
    <3>4. Lookup(c.antenna, c.feed) = "ok"
      BY DEF Lookup, FeedsOf
    <3>5. Prepares(c.dish, c.horn) => Answer(c.antenna, c.feed) = "ok"
      BY <2>14, <3>4 DEF Answer
    <3> QED
      BY <3>3, <3>5
  <2>16. ASSUME NEW c \in repo
         PROVE  AntennaDetails(c.antenna).dish = c.dish
    <3> DEFINE first == CHOOSE d \in repo : d.antenna = c.antenna
    <3>1. first \in repo /\ first.antenna = c.antenna
      OBVIOUS
    <3>2. PICK i \in Good : c \in Yield(entry(i)) /\ entry(i).id = c.antenna
      BY <2>7
    <3>3. PICK j \in Good : first \in Yield(entry(j)) /\ entry(j).id = first.antenna
      BY <2>7, <3>1
    <3>4. i = j
      BY <2>5, <3>1, <3>2, <3>3 DEF Good
    <3>5. first.dish = c.dish
      BY <2>6, <3>2, <3>3, <3>4
    <3> QED
      BY <3>5 DEF AntennaDetails
  <2> QED
    BY <2>12, <2>13, <2>14, <2>15, <2>16 DEF AntennasWhole, served
<1> QED
  BY <1>1, Inductive, PTL

-----------------------------------------------------------------------------
(* The settings that Lifecycle starts from do not change under it. *)
LEMMA SettingsStay ==
  ASSUME UNCHANGED <<file, env>>
  PROVE  InForce' = InForce
  BY DEF InForce, FileLoads, EnvLoads

LEMMA FailFastInForce ==
  ASSUME Inv, phase # "configuring"
  PROVE  FailFast <=> InForce["fail_fast"].value = "on"
  BY DEF FailFast, Inv, Configured

(* Startup, however many entries it loads, is the one load step of the     *)
(* process's life, or no step of it yet.                                   *)
THEOREM StartupIsLoad == Spec => ImplementsLoad
<1>1. Init => L!Init
  BY DEF Init, L!Init, Settled
<1>2. Inv /\ Inv' /\ [Next]_vars => [L!LoadCalibration]_(L!vars)
  <2> SUFFICES ASSUME Inv, Inv', Next PROVE [L!LoadCalibration]_(L!vars)
    BY SettingsStay DEF vars, L!vars, Settled
  <2>1. InForce' = InForce
    BY SettingsStay DEF Next, LoadConfiguration, ReadAntennas, SkipDisabled, LoadEntry,
                        FinishLoad
  <2>2. ~Settled
    BY DEF Next, LoadConfiguration, ReadAntennas, SkipDisabled, LoadEntry, FinishLoad,
           AtEntry, Settled
  <2>3. CASE ~Settled'
    BY <2>1, <2>2, <2>3 DEF Settled, L!vars
  <2>4. CASE Settled'
    <3>1. phase # "configuring" /\ (FailFast <=> InForce["fail_fast"].value = "on")
      BY <2>2, <2>4, FailFastInForce
      DEF Next, LoadConfiguration, ReadAntennas, SkipDisabled, LoadEntry, FinishLoad,
          AtEntry, Settled
    <3>2. phase' = "healthy" => repo' # {}
      BY DEF Inv, LoopInvariant, Loaded
    <3>3. phase' = "degraded" => ~FailFast
      <4>1. UNCHANGED config
        BY <3>1 DEF Next, LoadConfiguration, ReadAntennas, SkipDisabled, LoadEntry, FinishLoad
      <4> QED
        BY <4>1, FailFastStays DEF Inv, LoopInvariant
    <3>4. phase' = "aborted" => FailFast
      BY <2>2, <3>1 DEF Next, LoadConfiguration, ReadAntennas, SkipDisabled, LoadEntry,
                 FinishLoad, GiveUp, AtEntry, Settled
    <3> QED
      BY <2>1, <2>2, <2>4, <3>1, <3>2, <3>3, <3>4 DEF Settled, L!LoadCalibration
  <2> QED
    BY <2>3, <2>4
<1> QED
  BY <1>1, <1>2, Inductive, PTL DEF Spec, ImplementsLoad
=============================================================================
