-------------------------------- MODULE Startup --------------------------------
(***************************************************************************)
(* How the service gets from a configuration file, the environment and an  *)
(* antenna file to a repository, or refuses to start: load_configuration,  *)
(* AntennaConfig::from_file, CalibrationRepository::load_from_config and   *)
(* initialize_repository.  Every one of them can reject a part of its      *)
(* input; the module is about what a rejected part takes with it.          *)
(***************************************************************************)
EXTENDS PhysicalConfig, Sequences

CONSTANTS
  Ids,         (* non-empty antenna ids                                     *)
  FeedIds,     (* non-empty feed ids                                        *)
  NoId,        (* the empty id                                              *)
  Lists        (* the antenna lists an operator may write                   *)

(***************************************************************************)
(* Settings.  "server" stands for every key that validate checks, and a    *)
(* "mistyped" value is one that does not deserialize.                      *)
(***************************************************************************)
Keys   == {"server", "fail_fast"}
Layer  == [server    : {"unset", "good", "bad", "mistyped"},
           fail_fast : {"unset", "on", "off", "mistyped"}]
Unset  == [server |-> "unset", fail_fast |-> "unset"]
Defaults == [server |-> "good", fail_fast |-> "on"]
Layers == {"default", "file", "env"}

(***************************************************************************)
(* Antenna entries.  An artifact file reads as a calibration of one        *)
(* antenna and feed, or not at all.                                        *)
(***************************************************************************)
Artifacts == [kind : {"none", "unreadable", "readable"}, antenna : Ids, feed : FeedIds,
              dish : Dishes, horn : Horns]
FeedSpecs == [id : FeedIds \cup {NoId}, horn : Horns]
Specs     == [given : BOOLEAN, dish : Dishes, feeds : Seq(FeedSpecs)]
Entries   == [id : Ids \cup {NoId}, enabled : BOOLEAN,
              status : {"calibrated", "uncalibrated", "unknown"},
              artifact : Artifacts, specs : Specs]

ASSUME StartupAssumption ==
  /\ NoId \notin Ids \cup FeedIds
  /\ \A list \in Lists : list \in Seq(Entries)

VARIABLES
  file,      (* the configuration file: its state and its layer             *)
  env,       (* the ANTENNA_MODEL__ environment                             *)
  antennas,  (* the antenna file: its state and its list                    *)
  phase,     (* how far startup has come                                    *)
  config,    (* the configuration in force: each key's value and layer      *)
  next,      (* the entry the load comes to next                            *)
  repo,      (* the calibrations added so far, by antenna and feed          *)
  count      (* loaded_count                                                *)

vars == <<file, env, antennas, phase, config, next, repo, count>>

Phases == {"configuring", "reading", "loading", "healthy", "degraded", "aborted"}
Settled == phase \in {"healthy", "degraded", "aborted"}

-----------------------------------------------------------------------------
(* load_unvalidated: each key has the value of the strongest layer that    *)
(* sets it.                                                                *)
Merge(f, e) ==
  [k \in Keys |-> IF e[k] # "unset" THEN [from |-> "env", value |-> e[k]]
                  ELSE IF f[k] # "unset" THEN [from |-> "file", value |-> f[k]]
                  ELSE [from |-> "default", value |-> Defaults[k]]]

(* Mutant: what deserializes is accepted. *)
AcceptsUnvalidated(settings) == \A k \in Keys : settings[k].value # "mistyped"

(* It deserializes and validates. *)
Accepts(settings) == \A k \in Keys : settings[k].value \notin {"bad", "mistyped"}

FileLoads == file.state # "unparsable" /\ Accepts(Merge(file.layer, env))
EnvLoads  == Accepts(Merge(Unset, env))

(* Mutant: a rejected file falls back to bare defaults, as it once did. *)
InForceBareFallback == IF FileLoads THEN Merge(file.layer, env) ELSE Merge(Unset, Unset)

(* The file with the environment over it, else the environment alone, else *)
(* bare defaults.                                                          *)
InForce ==
  IF FileLoads THEN Merge(file.layer, env)
  ELSE IF EnvLoads THEN Merge(Unset, env)
  ELSE Merge(Unset, Unset)

FailFast == config["fail_fast"].value = "on"

-----------------------------------------------------------------------------
FeedValid(feed) == feed.id # NoId /\ HornAccepted(feed.horn)

SpecsValid(specs) ==
  /\ specs.given
  /\ DishAccepted(specs.dish)
  /\ specs.feeds # <<>>
  /\ \A i \in 1..Len(specs.feeds) :
       /\ FeedValid(specs.feeds[i])
       /\ \A j \in 1..i-1 : specs.feeds[j].id # specs.feeds[i].id

EntryValid(entry) ==
  \/ entry.status = "calibrated" /\ entry.artifact.kind # "none"
  \/ entry.status = "uncalibrated" /\ SpecsValid(entry.specs)

(* AntennaConfig::validate looks at disabled entries too. *)
ListValid(list) ==
  /\ list # <<>>
  /\ \A i \in 1..Len(list) :
       /\ list[i].id # NoId
       /\ EntryValid(list[i])
       /\ \A j \in 1..i-1 : list[j].id # list[i].id

-----------------------------------------------------------------------------
(* Which source load_antenna takes depends on the file alone. *)
FromFile(entry) == entry.artifact.kind # "none"

Calibration(antenna, feed, from, dish, horn) ==
  [antenna |-> antenna, feed |-> feed, from |-> from, dish |-> dish, horn |-> horn]

(* The builder's verdict on one feed of the design specs. *)
Builds(entry, feed) == feed.id # NoId /\ ArtifactValid(entry.specs.dish, feed.horn)

(* The feeds that are added before the first one the builder rejects. *)
Built(entry) ==
  {i \in 1..Len(entry.specs.feeds) : \A j \in 1..i : Builds(entry, entry.specs.feeds[j])}

Loads(entry) ==
  IF FromFile(entry)
  THEN /\ entry.artifact.kind = "readable"
       /\ ArtifactValid(entry.artifact.dish, entry.artifact.horn)
       /\ entry.artifact.antenna = entry.id
  ELSE entry.specs.given /\ Built(entry) = 1..Len(entry.specs.feeds)

FileCalibration(a) == Calibration(a.antenna, a.feed, "file", a.dish, a.horn)

SpecsCalibration(entry, i) ==
  Calibration(entry.id, entry.specs.feeds[i].id, "specs", entry.specs.dish,
              entry.specs.feeds[i].horn)

Yield(entry) ==
  IF FromFile(entry)
  THEN IF Loads(entry) THEN {FileCalibration(entry.artifact)} ELSE {}
  ELSE {SpecsCalibration(entry, i) : i \in Built(entry)}

Size(entry) == IF FromFile(entry) THEN 1 ELSE Len(entry.specs.feeds)

(* The entry the loop stands at, if it has not come to the end.            *)
AtEntry == phase = "loading" /\ next <= Len(antennas.list)
Current == antennas.list[next]

-----------------------------------------------------------------------------
Init ==
  /\ file \in [state : {"read", "absent", "unparsable"}, layer : Layer]
  /\ file.state # "read" => file.layer = Unset
  /\ env \in Layer
  /\ antennas \in [state : {"unread", "unreadable"}, list : {<<>>}]
  /\ phase  = "configuring"
  /\ config = Merge(Unset, Unset)
  /\ next   = 1
  /\ repo   = {}
  /\ count  = 0

(* load_configuration.  An absent file is an empty one. *)
LoadConfiguration ==
  /\ phase = "configuring"
  /\ config' = InForce
  /\ phase' = "reading"
  /\ UNCHANGED <<file, env, antennas, next, repo, count>>

(* initialize_repository on a load error: give up, or start empty. *)
GiveUp ==
  /\ phase' = IF FailFast THEN "aborted" ELSE "degraded"
  /\ repo'  = {}

(* The antenna file does not read or parse, or the operator wrote one of   *)
(* Lists, which is validated as a whole.                                   *)
ReadAntennas ==
  /\ phase = "reading"
  /\ \/ antennas.state = "unreadable" /\ GiveUp /\ UNCHANGED antennas
     \/ /\ antennas.state = "unread"
        /\ \E list \in Lists :
             /\ antennas' = [state |-> "read", list |-> list]
             /\ IF ListValid(list)
                  THEN phase' = "loading" /\ UNCHANGED repo
                  ELSE GiveUp
  /\ UNCHANGED <<file, env, config, next, count>>

(* Mutant: an error is passed over, whatever fail_fast says. *)
LoadEntryTolerant ==
  /\ AtEntry /\ Current.enabled
  /\ repo'  = repo \cup Yield(Current)
  /\ next'  = next + 1
  /\ count' = IF Loads(Current) THEN count + Size(Current) ELSE count
  /\ UNCHANGED <<file, env, antennas, phase, config>>

(* enabled_antennas leaves the disabled entries out of the loop. *)
SkipDisabled ==
  /\ AtEntry /\ ~Current.enabled
  /\ next' = next + 1
  /\ UNCHANGED <<file, env, antennas, phase, config, repo, count>>

(***************************************************************************)
(* One turn of load_from_config's loop.  What load_antenna added before it *)
(* failed stays added; it is only not counted.                             *)
(***************************************************************************)
LoadEntry ==
  /\ AtEntry /\ Current.enabled
  /\ \/ /\ Loads(Current)
        /\ repo'  = repo \cup Yield(Current)
        /\ next'  = next + 1
        /\ count' = count + Size(Current)
        /\ UNCHANGED phase
     \/ /\ ~Loads(Current)
        /\ FailFast
        /\ GiveUp
        /\ UNCHANGED <<next, count>>
     \/ /\ ~Loads(Current)
        /\ ~FailFast
        /\ repo' = repo \cup Yield(Current)
        /\ next' = next + 1
        /\ UNCHANGED <<phase, count>>
  /\ UNCHANGED <<file, env, antennas, config>>

(* Mutant: the end of the loop is a success even if nothing was loaded. *)
FinishLoadEmpty ==
  /\ phase = "loading"
  /\ next > Len(antennas.list)
  /\ phase' = "healthy"
  /\ UNCHANGED <<file, env, antennas, config, next, repo, count>>

(* The loop is over: something was loaded, or the load has failed. *)
FinishLoad ==
  /\ phase = "loading"
  /\ next > Len(antennas.list)
  /\ \/ count > 0 /\ phase' = "healthy" /\ UNCHANGED repo
     \/ count = 0 /\ GiveUp
  /\ UNCHANGED <<file, env, antennas, config, next, count>>

Next == LoadConfiguration \/ ReadAntennas \/ SkipDisabled \/ LoadEntry \/ FinishLoad

Spec == Init /\ [][Next]_vars

-----------------------------------------------------------------------------
(* Discovery: what the handlers answer from the repository, which does not *)
(* change once startup is over.  A lookup answers alike for the details of *)
(* a feed and for a request that names it.                                 *)
ListedAntennas == {c.antenna : c \in repo}

FeedsOf(antenna) == {c.feed : c \in {d \in repo : d.antenna = antenna}}

AntennaList ==
  {[id |-> a, feeds |-> FeedsOf(a)] : a \in {b \in ListedAntennas : FeedsOf(b) # {}}}

(* An antenna's feeds, each with its own horn.                             *)
FeedList(antenna) ==
  {[id |-> c.feed, horn |-> c.horn] : c \in {d \in repo : d.antenna = antenna}}

(* What is said of the antenna as a whole is read off one of its feeds.    *)
AntennaDetails(antenna) ==
  LET first == CHOOSE c \in repo : c.antenna = antenna
  IN  [id |-> antenna, feeds |-> FeedList(antenna), dish |-> first.dish]

Lookup(antenna, feed) ==
  IF feed \in FeedsOf(antenna) THEN "ok"
  ELSE IF FeedsOf(antenna) = {} THEN "antenna_not_found"
  ELSE "feed_not_found"

(* A request that names a feed begins by building the model from it. *)
Answer(antenna, feed) ==
  IF Lookup(antenna, feed) # "ok" THEN Lookup(antenna, feed)
  ELSE IF \A c \in repo : c.antenna = antenna /\ c.feed = feed => Prepares(c.dish, c.horn)
  THEN "ok"
  ELSE "internal_error"

Health == IF ListedAntennas = {} THEN "degraded" ELSE "healthy"
Ready  == phase = "healthy"

-----------------------------------------------------------------------------
Calibrations ==
  [antenna : Ids, feed : FeedIds, from : {"file", "specs"}, dish : Dishes, horn : Horns]

TypeOK ==
  /\ file \in [state : {"read", "absent", "unparsable"}, layer : Layer]
  /\ env \in Layer
  /\ antennas \in [state : {"unread", "unreadable", "read"}, list : Lists \cup {<<>>}]
  /\ phase \in Phases
  /\ \A k \in Keys : config[k].from \in Layers /\ config[k].value \in {"good", "on", "off"}
  /\ next \in 1..Len(antennas.list) + 1
  /\ repo \subseteq Calibrations
  /\ count \in Nat

(* No layer is lost in vain: the environment is in force whenever it is    *)
(* acceptable by itself, even if the file is not, and the file whenever    *)
(* the two together are.                                                   *)
LayersSurvive ==
  phase # "configuring" =>
    /\ FileLoads \/ EnvLoads => \A k \in Keys : env[k] # "unset" => config[k].from = "env"
    /\ FileLoads =>
         \A k \in Keys : file.layer[k] # "unset" /\ env[k] = "unset" => config[k].from = "file"

Due == {i \in 1..Len(antennas.list) : antennas.list[i].enabled}
EnabledEntries == {antennas.list[i] : i \in Due}

Declares(entry) ==
  IF FromFile(entry) THEN {entry.artifact.feed}
  ELSE {entry.specs.feeds[i].id : i \in 1..Len(entry.specs.feeds)}

(* Whoever discovers an antenna can use all of it: listed is exactly what  *)
(* the enabled entries that can be loaded declare, whole although loads    *)
(* fail half-way and wherever the entry stands in the list; no calibration *)
(* displaces another; a lookup tells an antenna that is not served from a  *)
(* feed it does not have; a request for a feed that is found has its model *)
(* built, unless the configuration is marginal; and the dish that is shown *)
(* for an antenna is the one each of its feeds is computed with.           *)
AntennasWhole ==
  phase = "healthy" =>
    LET served == {entry \in EnabledEntries : Loads(entry)}
    IN  /\ AntennaList = {[id |-> entry.id, feeds |-> Declares(entry)] : entry \in served}
        /\ \A a \in Ids, f \in FeedIds :
             Lookup(a, f) =
               IF \A entry \in served : entry.id # a THEN "antenna_not_found"
               ELSE IF \E entry \in served : entry.id = a /\ f \in Declares(entry) THEN "ok"
               ELSE "feed_not_found"
        /\ \A c, d \in repo : c.antenna = d.antenna /\ c.feed = d.feed => c = d
        /\ \A c \in repo : Answer(c.antenna, c.feed) = "ok" \/ Marginal(c.dish, c.horn)
        /\ \A c \in repo : AntennaDetails(c.antenna).dish = c.dish

(* With fail_fast the service starts with every enabled entry or not at    *)
(* all; without, it may start with none, but then it is never ready, and   *)
(* the liveness probe says so.                                             *)
AllOrNothing ==
  /\ phase = "healthy" /\ FailFast => \A entry \in EnabledEntries : Loads(entry)
  /\ phase = "degraded" => ~FailFast
  /\ Settled => (Ready <=> Health = "healthy")

(* Startup is what the process life calls LoadCalibration, under the       *)
(* fail_fast that the layers decide on.                                    *)
L == INSTANCE Lifecycle WITH
  settings  <- [failFast |-> InForce["fail_fast"].value = "on", delayed |-> FALSE],
  stage     <- IF phase = "aborted" THEN "exited"
               ELSE IF Settled THEN "loaded" ELSE "loading",
  ready     <- phase = "healthy",
  loaded    <- phase = "healthy" /\ repo # {},
  handlers  <- "none",
  signalled <- FALSE,
  cleaned   <- FALSE,
  status    <- IF phase = "aborted" THEN "failed" ELSE "none"

ImplementsLoad == L!Init /\ [][L!LoadCalibration]_(L!vars)
=============================================================================
