----------------------------- MODULE Replication -----------------------------
(***************************************************************************)
(* One resolver's agent replicates its config from the control plane.      *)
(*                                                                         *)
(* The agent polls; the control plane reads the parts of the node's config *)
(* one after the other and answers either a snapshot or "not modified".    *)
(* The agent stores a snapshot part by part, records which version it      *)
(* holds, and only then puts it in force.  The administrator edits the     *)
(* config between any two steps, and the agent may crash between any two   *)
(* writes; a poll may be lost, and local reads and writes may fail.        *)
(*                                                                         *)
(* Data.  "policy" stands for the served rules and rewrites, and a version *)
(* (a hash of rules, rewrites and forwarders) for what it hashes.  A       *)
(* fingerprint keeps MAX(id) of the policy's rows, 0 when there are none.  *)
(***************************************************************************)
EXTENDS Integers

CONSTANTS
  Policies, NoRows,          \* replicated policies; one has no rows
  Forwarders, NoForwarders,  \* conditional forwarders; none
  Settings, NoSettings,      \* resolver settings; none saved
  Absent,                    \* no version, no fingerprint, no state, no request
  Editable,                  \* the parts the administrator edits
  Failures,                  \* the kinds of mishap that happen
  MaxEdits,                  \* bound: edits
  MaxMishaps,                \* bound: crashes, lost polls and local failures
  MaxSerial                  \* bound: applied policies with rows

Value == [policy |-> Policies, forwarders |-> Forwarders, settings |-> Settings,
          pause |-> BOOLEAN, maint |-> BOOLEAN]

Config       == [policy : Policies, forwarders : Forwarders, settings : Settings,
                 pause : BOOLEAN, maint : BOOLEAN]
Seen         == [policy : SUBSET Policies, forwarders : SUBSET Forwarders]
Versions     == [policy : Policies, forwarders : Forwarders]
Fingerprints == [rows : Nat, forwarders : Forwarders]
Applied      == [pause : BOOLEAN, maint : BOOLEAN]
HeldState    == [pause : BOOLEAN, maint : BOOLEAN, settings : Settings]
HandlerStages ==
  {"node", "pause", "settings", "lookup", "policy", "forwarders", "unchanged", "snapshot"}
Requests == [stage : HandlerStages, version : Versions \cup {Absent},
             holds : HeldState \cup {Absent}, snap : Config, seen : Seen]

ASSUME ReplicationAssumption ==
  /\ NoRows \in Policies /\ NoForwarders \in Forwarders /\ NoSettings \in Settings
  /\ Absent \notin Config \cup Requests \cup Versions \cup Fingerprints
  /\ Editable \subseteq {"policy", "forwarders", "settings", "pause", "maint"}
  /\ Failures \subseteq {"crash", "lost", "write", "apply", "reload", "read"}
  /\ MaxEdits \in Nat /\ MaxMishaps \in Nat /\ MaxSerial \in Nat

VARIABLES
  config,       \* the control plane's config for the node
  recent,       \* what the versioned parts were since a write was last published
  edits,        \* edits so far
  step,         \* what the agent does next; "down": not running
  ret,          \* where recording a version returns to
  version,      \* Agent.version
  setVer,       \* Agent.settingsVer
  stateApplied, \* Agent.stateApplied, appliedPause and appliedMaint
  snap,         \* the snapshot being applied
  changed,      \* settingsChanged
  database,     \* the agent's database
  force,        \* what its resolver runs with
  poll,         \* the poll in progress and its handler
  mishaps       \* mishaps so far

plane     == <<config, recent, edits>>
agentVars == <<step, ret, version, setVer, stateApplied, snap, changed, database, force>>
rpVars    == <<plane, agentVars, poll, mishaps>>

\* What a version hashes, and the fingerprint of the agent's tables.
Version(c) == [policy |-> c.policy, forwarders |-> c.forwarders]
Fingerprint(d) ==
  [rows |-> IF d.policy = NoRows THEN 0 ELSE d.serial, forwarders |-> d.forwarders]

\* What a resolver started from database d runs with: pause and maintenance
\* are not kept.
InForce(d) == [policy |-> d.policy, forwarders |-> d.forwarders, settings |-> d.settings,
               pause |-> FALSE, maint |-> FALSE]
Unset == [policy |-> NoRows, forwarders |-> NoForwarders, settings |-> NoSettings,
          pause |-> FALSE, maint |-> FALSE]

RpInit ==
  /\ config = Unset /\ edits = 0
  /\ recent = [policy |-> {NoRows}, forwarders |-> {NoForwarders}]
  /\ step = "down" /\ ret = "send"
  /\ version = Absent /\ setVer = NoSettings /\ stateApplied = Absent
  /\ snap = Absent /\ changed = FALSE
  /\ database = [policy |-> NoRows, forwarders |-> NoForwarders, settings |-> NoSettings,
                 serial |-> 0, version |-> Absent, print |-> Absent]
  /\ force = Unset
  /\ poll = Absent /\ mishaps = 0

-----------------------------------------------------------------------------
(* The control plane's config.                                             *)

Add(seen, part, v) == IF part \in DOMAIN seen THEN [seen EXCEPT ![part] = @ \cup {v}] ELSE seen

\* An edit commits.  A version lookup under way may see it or not.
EditConfig(part, v) ==
  /\ edits < MaxEdits /\ v # config[part]
  /\ config' = [config EXCEPT ![part] = v]
  /\ recent' = Add(recent, part, v)
  /\ edits' = edits + 1
  /\ poll' = IF poll = Absent THEN Absent ELSE [poll EXCEPT !.seen = Add(@, part, v)]
  /\ UNCHANGED <<agentVars, mishaps>>

\* The generation is incremented: later lookups see the config as it is.
Publish ==
  /\ recent' = [policy |-> {config.policy}, forwarders |-> {config.forwarders}]
  /\ UNCHANGED <<config, edits, agentVars, poll, mishaps>>

-----------------------------------------------------------------------------
(* The handler of a poll.                                                  *)

\* It works on the request at this stage, and gets to that one.
Handle(stage, next) ==
  /\ poll # Absent /\ poll.stage = stage
  /\ poll' = next
  /\ UNCHANGED <<plane, agentVars, mishaps>>

ReadNode  == Handle("node", [poll EXCEPT !.stage = "pause", !.snap.maint = config.maint])
ReadPause == Handle("pause", [poll EXCEPT !.stage = "settings", !.snap.pause = config.pause])

\* agentHoldsSnapshotState: the agent has applied a snapshot in this process
\* and reports everything that no version covers as it was read here.
HoldsState(s) ==
  /\ poll.version # Absent /\ poll.holds # Absent
  /\ poll.holds = [pause |-> s.pause, maint |-> s.maint, settings |-> s.settings]

\* Changed: the pause is not compared, as if a version covered it.
ReadSettingsButPause ==
  LET s == [poll.snap EXCEPT !.settings = config.settings]
  IN  Handle("settings", [poll EXCEPT !.stage = IF HoldsState([s EXCEPT !.pause = poll.holds.pause])
                                               THEN "lookup" ELSE "policy",
                                     !.snap = s, !.seen = recent])

ReadSettings ==
  LET s == [poll.snap EXCEPT !.settings = config.settings]
  IN  Handle("settings", [poll EXCEPT !.stage = IF HoldsState(s) THEN "lookup" ELSE "policy",
                                     !.snap = s, !.seen = recent])

\* The cached version is compared; what it may be is what FreshRead promises.
Lookup ==
  /\ poll # Absent
  /\ \E p \in poll.seen.policy, f \in poll.seen.forwarders :
       Handle("lookup", [poll EXCEPT
         !.stage = IF poll.version = [policy |-> p, forwarders |-> f] THEN "unchanged" ELSE "policy"])

\* SnapshotForNode reads the tables in turn; the version served is that of
\* what it read.
ReadPolicy     == Handle("policy", [poll EXCEPT !.stage = "forwarders",
                                                !.snap.policy = config.policy])
ReadForwarders == Handle("forwarders", [poll EXCEPT !.stage = "snapshot",
                                                    !.snap.forwarders = config.forwarders])

PollHandler == ReadNode \/ ReadPause \/ ReadSettings \/ Lookup \/ ReadPolicy \/ ReadForwarders

-----------------------------------------------------------------------------
(* The agent.  Each action ends at its next write, request or crash point. *)

Mishap(kind) ==
  /\ kind \in Failures /\ mishaps < MaxMishaps
  /\ mishaps' = mishaps + 1

\* The process starts: the resolver runs what the database holds.
StartAgent ==
  /\ step = "down"
  /\ step' = "idle" /\ ret' = "send"
  /\ force' = InForce(database) /\ setVer' = database.settings
  /\ version' = Absent /\ stateApplied' = Absent /\ snap' = Absent /\ changed' = FALSE
  /\ UNCHANGED <<plane, database, poll, mishaps>>

CrashAgent ==
  /\ step # "down" /\ Mishap("crash")
  /\ step' = "down" /\ poll' = Absent
  /\ ret' = "send" /\ version' = Absent /\ stateApplied' = Absent /\ snap' = Absent /\ changed' = FALSE
  /\ force' = InForce(database) /\ setVer' = database.settings
  /\ UNCHANGED <<plane, database>>

\* localVersion: the version in memory, else the recorded one if it was
\* recorded for these tables, else it is computed and recorded.
LocalVersion(from, next) ==
  /\ step = from
  /\ \/ version # Absent /\ step' = next /\ UNCHANGED <<ret, version>>
     \/ /\ version = Absent /\ database.version # Absent /\ database.print = Fingerprint(database)
        /\ version' = database.version /\ step' = next /\ UNCHANGED ret
     \/ /\ version = Absent /\ (database.version = Absent \/ database.print # Fingerprint(database))
        /\ step' = "clear" /\ ret' = next /\ UNCHANGED version
  /\ UNCHANGED <<plane, setVer, stateApplied, snap, changed, database, force, poll, mishaps>>

StartCycle == LocalVersion("idle", "send")
Compare    == LocalVersion("compare", "compared")

\* recordLocalConfigVersion: three writes ...
Write(from, next, d) ==
  /\ step = from /\ step' = next /\ database' = d
  /\ UNCHANGED <<plane, ret, setVer, stateApplied, snap, changed, force, poll, mishaps>>

\* Changed: the fingerprint is written before the version it is to vouch for.
PrintFirst    == Write("clear", "version", [database EXCEPT !.print = Fingerprint(database)])
                 /\ UNCHANGED version
ClearPrint    == Write("clear", "version", [database EXCEPT !.print = Absent]) /\ UNCHANGED version
RecordVersion == Write("version", "print", [database EXCEPT !.version = Version(database)])
                 /\ UNCHANGED version
RecordPrint   == Write("print", ret, [database EXCEPT !.print = Fingerprint(database)])
                 /\ version' = Version(database)

\* ... any of which may fail; the agent goes on without a version.
RecordFails ==
  /\ step \in {"clear", "version", "print"} /\ Mishap("write")
  /\ step' = ret
  /\ UNCHANGED <<plane, ret, version, setVer, stateApplied, snap, changed, database, force, poll>>

\* fetch: the poll carries what the agent holds ...
SendPoll ==
  /\ step = "send" /\ step' = "wait"
  /\ poll' = [stage |-> "node", version |-> version, snap |-> Unset, seen |-> recent,
              holds |-> IF stateApplied = Absent THEN Absent
                        ELSE [pause |-> stateApplied.pause, maint |-> stateApplied.maint,
                              settings |-> setVer]]
  /\ UNCHANGED <<plane, ret, version, setVer, stateApplied, snap, changed, database, force, mishaps>>

\* ... and times out, or is refused, or its answer is lost ...
Lose ==
  /\ step = "wait" /\ Mishap("lost")
  /\ step' = "idle" /\ poll' = Absent
  /\ UNCHANGED <<plane, ret, version, setVer, stateApplied, snap, changed, database, force>>

\* ... or is answered: nothing changed,
Unchanged ==
  /\ step = "wait" /\ poll.stage = "unchanged"
  /\ step' = "idle" /\ poll' = Absent
  /\ UNCHANGED <<plane, ret, version, setVer, stateApplied, snap, changed, database, force, mishaps>>

\* or here is the config.  Pause and maintenance are in force at once.
Adopt ==
  /\ step = "wait" /\ poll.stage = "snapshot"
  /\ step' = "settings" /\ poll' = Absent
  /\ snap' = poll.snap
  /\ stateApplied' = [pause |-> poll.snap.pause, maint |-> poll.snap.maint]
  /\ force' = [force EXCEPT !.pause = poll.snap.pause, !.maint = poll.snap.maint]
  /\ UNCHANGED <<plane, ret, version, setVer, changed, database, mishaps>>

\* Changed settings are stored; if that fails, the next poll brings them again.
StoreSettings ==
  /\ step = "settings" /\ step' = "compare"
  /\ \/ /\ changed' = (snap.settings # setVer)
        /\ setVer' = snap.settings
        /\ database' = IF changed' THEN [database EXCEPT !.settings = snap.settings] ELSE database
        /\ UNCHANGED mishaps
     \/ /\ snap.settings # setVer /\ Mishap("write")
        /\ changed' = FALSE
        /\ UNCHANGED <<setVer, database>>
  /\ UNCHANGED <<plane, ret, version, stateApplied, snap, force, poll>>

\* applySettings puts the stored settings and forwarders in force; a read that
\* fails leaves the node's own instead.
Activated(c) == [c EXCEPT !.settings = database.settings, !.forwarders = database.forwarders]
ActivatedNot(c) == {[c EXCEPT !.settings = NoSettings, !.forwarders = database.forwarders],
                    [c EXCEPT !.settings = database.settings, !.forwarders = NoForwarders]}

Activate(next) ==
  /\ step' = next
  /\ \/ force' = Activated(force) /\ UNCHANGED mishaps
     \/ force' \in ActivatedNot(force) /\ Mishap("read")
  /\ UNCHANGED <<plane, ret, version, setVer, stateApplied, snap, changed, database, poll>>

\* Changed: settings are put in force only along with another version.
UpToDateSkipping ==
  /\ step = "compared" /\ Version(snap) = version
  /\ step' = "idle"
  /\ UNCHANGED <<plane, ret, version, setVer, stateApplied, snap, changed, database, force, poll,
                 mishaps>>

\* The version is the agent's: the settings, at most, are put in force.
UpToDate ==
  /\ step = "compared" /\ Version(snap) = version
  /\ \/ changed /\ Activate("idle")
     \/ /\ ~ changed /\ step' = "idle"
        /\ UNCHANGED <<plane, ret, version, setVer, stateApplied, snap, changed, database, force, poll,
                       mishaps>>

\* Otherwise the forwarders are stored, then the policy in one transaction.
StoreForwarders ==
  /\ step = "compared" /\ Version(snap) # version
  /\ version' = Absent
  /\ \/ /\ database' = [database EXCEPT !.forwarders = snap.forwarders]
        /\ step' = "apply" /\ UNCHANGED mishaps
     \/ step' = "idle" /\ Mishap("write") /\ UNCHANGED database
  /\ UNCHANGED <<plane, ret, setVer, stateApplied, snap, changed, force, poll>>

ApplySnapshot ==
  /\ step = "apply"
  /\ \/ /\ snap.policy # NoRows => database.serial < MaxSerial
        /\ database' = [database EXCEPT !.policy = snap.policy,
                                !.serial = IF snap.policy = NoRows THEN @ ELSE @ + 1]
        /\ step' = "clear" /\ ret' = "activate" /\ UNCHANGED mishaps
     \/ step' = "idle" /\ Mishap("apply") /\ UNCHANGED <<database, ret>>
  /\ UNCHANGED <<plane, version, setVer, stateApplied, snap, changed, force, poll>>

ApplySettings == step = "activate" /\ Activate("reload")

\* Changed: only the settings and forwarders of a new version are put in force.
ReloadSkipped ==
  /\ step = "reload" /\ step' = "idle"
  /\ UNCHANGED <<plane, ret, version, setVer, stateApplied, snap, changed, database, force, poll,
                 mishaps>>

\* The policy is put in force; that it failed is not noticed.
Reload ==
  /\ step = "reload" /\ step' = "idle"
  /\ \/ force' = [force EXCEPT !.policy = database.policy] /\ UNCHANGED mishaps
     \/ UNCHANGED force /\ Mishap("reload")
  /\ UNCHANGED <<plane, ret, version, setVer, stateApplied, snap, changed, database, poll>>

Agent ==
  \/ StartAgent \/ StartCycle \/ SendPoll \/ Unchanged \/ Adopt \/ StoreSettings
  \/ Compare \/ UpToDate \/ StoreForwarders \/ ApplySnapshot
  \/ ClearPrint \/ RecordVersion \/ RecordPrint \/ RecordFails \/ ApplySettings \/ Reload

RpNext ==
  \/ \E part \in Editable : \E v \in Value[part] : EditConfig(part, v)
  \/ Publish \/ PollHandler \/ Agent \/ CrashAgent \/ Lose

RpSpec == RpInit /\ [][RpNext]_rpVars

\* The agent and the handlers go on; edits end, and so do mishaps.
RpFairSpec == RpSpec /\ WF_rpVars(Agent) /\ WF_rpVars(PollHandler) /\ WF_rpVars(Publish)

-----------------------------------------------------------------------------
(* Properties.                                                             *)

AgentPoints == {"down", "idle", "send", "wait", "settings", "compare", "compared", "apply",
                "clear", "version", "print", "activate", "reload"}
RpTypeOK ==
  /\ config \in Config /\ recent \in Seen /\ edits \in 0 .. MaxEdits
  /\ step \in AgentPoints /\ ret \in {"send", "compared", "activate"}
  /\ version \in Versions \cup {Absent} /\ setVer \in Settings
  /\ stateApplied \in Applied \cup {Absent}
  /\ snap \in Config \cup {Absent} /\ changed \in BOOLEAN
  /\ database \in [policy : Policies, forwarders : Forwarders, settings : Settings, serial : Nat,
                   version : Versions \cup {Absent}, print : Fingerprints \cup {Absent}]
  /\ force \in Config /\ poll \in Requests \cup {Absent} /\ mishaps \in 0 .. MaxMishaps
  /\ step = "wait" <=> poll # Absent
  /\ snap = Absent => ret = "send" /\ step \notin {"settings", "compare", "compared", "apply"}

\* The agent never takes its tables for another version's: neither the version
\* in memory nor, after crashes between any two writes, the recorded one if its
\* fingerprint matches the tables.
VersionSound ==
  /\ version # Absent => version = Version(database)
  /\ database.version # Absent /\ database.print = Fingerprint(database) =>
       database.version = Version(database)

\* A resolver told that nothing changed runs with the pause, maintenance and
\* settings the handler read, and with rules and forwarders the control plane
\* had during the poll or had not yet published.
UnchangedIsInForce ==
  step = "wait" /\ poll.stage = "unchanged" =>
    /\ force.policy \in poll.seen.policy /\ force.forwarders \in poll.seen.forwarders
    /\ force.settings = poll.snap.settings
    /\ force.pause = poll.snap.pause /\ force.maint = poll.snap.maint

\* Whenever a cycle ends, the resolver runs with what the agent has stored.
StoredInForce ==
  step \in {"idle", "send", "wait"} =>
    /\ force.policy = database.policy /\ force.forwarders = database.forwarders
    /\ force.settings = database.settings

\* Once edits and mishaps are over, the resolver comes to run with the
\* control plane's config and keeps it.
EventuallyInForce == <>[](force = config)

\* The same of its settings alone.
SettingsReachForce == <>[](force.settings = config.settings)
=============================================================================
