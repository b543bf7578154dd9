-------------------------- MODULE ReplicationProofs --------------------------
(* Proofs about Replication for every config, and any number of edits,       *)
(* crashes, lost polls and failing reads and writes.                         *)
EXTENDS Replication, TLAPS

LEMMA InitTypeOK == RpInit => RpTypeOK
<1> SUFFICES ASSUME RpInit PROVE RpTypeOK
  OBVIOUS
<1> USE ReplicationAssumption DEF RpInit
<1>1. Unset \in Config
  BY DEF Unset, Config
<1>2. recent \in Seen
  BY DEF Seen
<1>3. database \in [policy : Policies, forwarders : Forwarders, settings : Settings, serial : Nat,
                version : Versions \cup {Absent}, print : Fingerprints \cup {Absent}]
  OBVIOUS
<1>4. edits \in 0 .. MaxEdits /\ mishaps \in 0 .. MaxMishaps /\ setVer \in Settings
  OBVIOUS
<1>5. step \in AgentPoints /\ ret \in {"send", "compared", "activate"} /\ changed \in BOOLEAN
  BY DEF AgentPoints
<1>6. version \in Versions \cup {Absent} /\ stateApplied \in Applied \cup {Absent} /\ poll \in Requests \cup {Absent}
      /\ snap \in Config \cup {Absent}
  OBVIOUS
<1>7. config \in Config /\ force \in Config
  BY <1>1
<1>8. (step = "wait" <=> poll # Absent) /\ ret = "send"
      /\ step \notin {"settings", "compare", "compared", "apply"}
  OBVIOUS
<1> QED BY <1>2, <1>3, <1>4, <1>5, <1>6, <1>7, <1>8 DEF RpTypeOK

LEMMA EditTypeOK ==
  ASSUME RpTypeOK, NEW part \in Editable, NEW v \in Value[part], EditConfig(part, v) PROVE RpTypeOK'
<1>1. config' \in Config /\ recent' \in Seen
      /\ \A s \in Seen : Add(s, part, v) \in Seen
  <2>1. part \in {"policy", "forwarders", "settings", "pause", "maint"}
    BY ReplicationAssumption
  <2>2. CASE part = "policy"
    BY <2>2 DEF EditConfig, Add, RpTypeOK, Config, Seen, Value
  <2>3. CASE part = "forwarders"
    BY <2>3 DEF EditConfig, Add, RpTypeOK, Config, Seen, Value
  <2>4. CASE part \in {"settings", "pause", "maint"}
    <3>1. \A s \in Seen : Add(s, part, v) = s
      BY <2>4 DEF Add, Seen
    <3>2. config' \in Config
      BY <2>4 DEF EditConfig, RpTypeOK, Config, Value
    <3> QED BY <3>1, <3>2 DEF EditConfig, RpTypeOK
  <2> QED BY <2>1, <2>2, <2>3, <2>4
<1>2. edits' \in 0 .. MaxEdits
  BY ReplicationAssumption DEF EditConfig, RpTypeOK
<1>3. poll' \in Requests \cup {Absent} /\ (poll' # Absent <=> poll # Absent)
  <2>1. CASE poll = Absent
    BY <2>1 DEF EditConfig
  <2>2. CASE poll # Absent
    <3>1. poll \in Requests /\ poll.seen \in Seen
      BY <2>2 DEF RpTypeOK, Requests
    <3>2. poll' = [poll EXCEPT !.seen = Add(poll.seen, part, v)]
      BY <2>2 DEF EditConfig
    <3>3. Add(poll.seen, part, v) \in Seen
      BY <1>1, <3>1
    <3>4. poll' \in Requests
      BY <3>1, <3>2, <3>3 DEF Requests
    <3> QED BY <2>2, <3>4, ReplicationAssumption
  <2> QED BY <2>1, <2>2
<1> QED BY <1>1, <1>2, <1>3 DEF EditConfig, RpTypeOK, agentVars

LEMMA PublishTypeOK == ASSUME RpTypeOK, Publish PROVE RpTypeOK'
<1>1. recent' \in Seen
  BY DEF Publish, RpTypeOK, Config, Seen
<1> QED BY <1>1 DEF Publish, RpTypeOK, agentVars

LEMMA HandleTypeOK ==
  ASSUME RpTypeOK, NEW stage, NEW next \in Requests, Handle(stage, next) PROVE RpTypeOK'
BY ReplicationAssumption DEF Handle, RpTypeOK, plane, agentVars

LEMMA HandlerTypeOK == ASSUME RpTypeOK, PollHandler PROVE RpTypeOK'
<1>1. poll \in Requests
  BY DEF PollHandler, ReadNode, ReadPause, ReadSettings, Lookup, ReadPolicy, ReadForwarders, Handle, RpTypeOK
<1>2. config \in Config /\ recent \in Seen
  BY DEF RpTypeOK
<1>3. [poll EXCEPT !.stage = "pause", !.snap.maint = config.maint] \in Requests
  BY <1>1, <1>2 DEF Requests, Config, HandlerStages
<1>4. [poll EXCEPT !.stage = "settings", !.snap.pause = config.pause] \in Requests
  BY <1>1, <1>2 DEF Requests, Config, HandlerStages
<1>5. ASSUME NEW s \in Config, NEW st \in HandlerStages
      PROVE  [poll EXCEPT !.stage = st, !.snap = s, !.seen = recent] \in Requests
  BY <1>1, <1>2 DEF Requests
<1>6. [poll.snap EXCEPT !.settings = config.settings] \in Config
  BY <1>1, <1>2 DEF Requests, Config
<1>7. ASSUME NEW st \in HandlerStages PROVE [poll EXCEPT !.stage = st] \in Requests
  BY <1>1 DEF Requests
<1>8. [poll EXCEPT !.stage = "forwarders", !.snap.policy = config.policy] \in Requests
  BY <1>1, <1>2 DEF Requests, Config, HandlerStages
<1>9. [poll EXCEPT !.stage = "snapshot", !.snap.forwarders = config.forwarders] \in Requests
  BY <1>1, <1>2 DEF Requests, Config, HandlerStages
<1>10. CASE ReadNode
  BY <1>3, <1>10, HandleTypeOK DEF ReadNode
<1>11. CASE ReadPause
  BY <1>4, <1>11, HandleTypeOK DEF ReadPause
<1>12. CASE ReadSettings
  <2> DEFINE s == [poll.snap EXCEPT !.settings = config.settings]
             st == IF HoldsState(s) THEN "lookup" ELSE "policy"
             next == [poll EXCEPT !.stage = st, !.snap = s, !.seen = recent]
  <2>1. Handle("settings", next)
    BY <1>12 DEF ReadSettings
  <2>2. st \in HandlerStages
    BY DEF HandlerStages
  <2>3. next \in Requests
    BY <1>5, <1>6, <2>2
  <2> QED BY <2>1, <2>3, HandleTypeOK
<1>13. CASE Lookup
  <2>1. PICK p, f : Handle("lookup", [poll EXCEPT
           !.stage = IF poll.version = [policy |-> p, forwarders |-> f] THEN "unchanged" ELSE "policy"])
    BY <1>13 DEF Lookup
  <2> DEFINE st == IF poll.version = [policy |-> p, forwarders |-> f] THEN "unchanged" ELSE "policy"
  <2>2. st \in HandlerStages
    BY DEF HandlerStages
  <2>3. [poll EXCEPT !.stage = st] \in Requests
    BY <1>7, <2>2
  <2> QED BY <2>1, <2>3, HandleTypeOK
<1>14. CASE ReadPolicy
  BY <1>8, <1>14, HandleTypeOK DEF ReadPolicy
<1>15. CASE ReadForwarders
  BY <1>9, <1>15, HandleTypeOK DEF ReadForwarders
<1> QED BY <1>10, <1>11, <1>12, <1>13, <1>14, <1>15 DEF PollHandler

Disks == [policy : Policies, forwarders : Forwarders, settings : Settings, serial : Nat,
          version : Versions \cup {Absent}, print : Fingerprints \cup {Absent}]

LEMMA DiskTypes ==
  ASSUME RpTypeOK
  PROVE  /\ database \in Disks /\ InForce(database) \in Config
         /\ Version(database) \in Versions /\ Fingerprint(database) \in Fingerprints
BY DEF RpTypeOK, Disks, InForce, Config, Version, Versions, Fingerprint, Fingerprints

LEMMA MishapTypeOK ==
  ASSUME RpTypeOK, NEW kind, Mishap(kind) PROVE mishaps' \in 0 .. MaxMishaps
BY ReplicationAssumption DEF RpTypeOK, Mishap

LEMMA AgentTypeOK == ASSUME RpTypeOK, Agent \/ CrashAgent \/ Lose PROVE RpTypeOK'
<1> USE DEF RpTypeOK, plane, AgentPoints
<1>a. database \in Disks /\ InForce(database) \in Config /\ Version(database) \in Versions
      /\ Fingerprint(database) \in Fingerprints
  BY DiskTypes
<1>b. \A kind : Mishap(kind) => mishaps' \in 0 .. MaxMishaps
  BY MishapTypeOK
<1>1. CASE StartAgent
  BY <1>1, <1>a, ReplicationAssumption DEF StartAgent, Disks
<1>2. CASE CrashAgent
  BY <1>2, <1>a, <1>b, ReplicationAssumption DEF CrashAgent, Disks
<1>3. ASSUME NEW from, NEW next \in {"send", "compared"}, LocalVersion(from, next),
             from # "wait", from \in {"settings", "compare", "compared", "apply"} \/ next = "send"
      PROVE  RpTypeOK'
  BY <1>3, <1>a DEF LocalVersion, Disks
<1>4. CASE StartCycle \/ Compare
  BY <1>3, <1>4 DEF StartCycle, Compare
<1>5. CASE ClearPrint \/ RecordVersion
  BY <1>5, <1>a DEF ClearPrint, RecordVersion, Write, Disks
<1>6. CASE RecordPrint
  <2>1. database' \in Disks /\ version' \in Versions /\ step' = ret
    BY <1>6, <1>a DEF RecordPrint, Write, Disks
  <2>2. ret \in AgentPoints /\ ret \notin {"wait", "settings", "compare", "apply"}
    OBVIOUS
  <2>3. snap = Absent => ret # "compared"
    OBVIOUS
  <2> QED BY <1>6, <2>1, <2>2, <2>3 DEF RecordPrint, Write, Disks
<1>7. CASE RecordFails
  <2>1. mishaps' \in 0 .. MaxMishaps /\ step' = ret /\ step # "wait"
    BY <1>7, <1>b DEF RecordFails
  <2>2. ret \in AgentPoints /\ ret \notin {"wait", "settings", "compare", "apply"}
    OBVIOUS
  <2> QED BY <1>7, <2>1, <2>2 DEF RecordFails
<1>8. CASE SendPoll
  <2> DEFINE h == IF stateApplied = Absent THEN Absent
                  ELSE [pause |-> stateApplied.pause, maint |-> stateApplied.maint, settings |-> setVer]
             r == [stage |-> "node", version |-> version, snap |-> Unset, seen |-> recent, holds |-> h]
  <2>1. h \in HeldState \cup {Absent}
    BY DEF HeldState, Applied
  <2>2. Unset \in Config
    BY ReplicationAssumption DEF Unset, Config
  <2>3. r \in Requests
    BY <2>1, <2>2 DEF Requests, HandlerStages
  <2>4. poll' = r /\ step' = "wait"
    BY <1>8 DEF SendPoll
  <2>5. poll' \in Requests /\ poll' # Absent
    BY <2>3, <2>4, ReplicationAssumption
  <2> QED BY <1>8, <2>4, <2>5 DEF SendPoll
<1>9. CASE Lose
  BY <1>9, <1>b DEF Lose
<1>10. CASE Unchanged
  BY <1>10 DEF Unchanged
<1>11. CASE Adopt
  <2>1. poll \in Requests /\ poll.snap \in Config
    BY <1>11 DEF Adopt, Requests
  <2>2. /\ snap' \in Config /\ snap' # Absent /\ stateApplied' \in Applied /\ force' \in Config
    BY <1>11, <2>1, ReplicationAssumption DEF Adopt, Applied, Config
  <2> QED BY <1>11, <2>2 DEF Adopt
<1>12. CASE StoreSettings
  <2>1. snap \in Config /\ snap.settings \in Settings
    BY <1>12 DEF StoreSettings, Config
  <2>2. database' \in Disks /\ setVer' \in Settings /\ changed' \in BOOLEAN
    BY <1>12, <1>a, <2>1 DEF StoreSettings, Disks
  <2>3. mishaps' \in 0 .. MaxMishaps
    BY <1>12, <1>b DEF StoreSettings
  <2> QED BY <1>12, <2>2, <2>3 DEF StoreSettings, Disks
<1>13. ASSUME NEW next \in {"idle", "reload"}, Activate(next), step \in {"compared", "activate"} PROVE RpTypeOK'
  <2>1. database.settings \in Settings /\ database.forwarders \in Forwarders
    BY <1>a DEF Disks
  <2>2. force' \in Config
    BY <1>13, <2>1, ReplicationAssumption DEF Activate, Activated, ActivatedNot, Config
  <2>3. mishaps' \in 0 .. MaxMishaps
    BY <1>13, <1>b DEF Activate
  <2> QED BY <1>13, <2>2, <2>3 DEF Activate
<1>14. CASE UpToDate
  BY <1>13, <1>14 DEF UpToDate
<1>15. CASE StoreForwarders
  <2>1. snap \in Config /\ snap.forwarders \in Forwarders
    BY <1>15 DEF StoreForwarders, Config
  <2>2. database' \in Disks /\ mishaps' \in 0 .. MaxMishaps
    BY <1>15, <1>a, <1>b, <2>1 DEF StoreForwarders, Disks
  <2> QED BY <1>15, <2>2 DEF StoreForwarders, Disks
<1>16. CASE ApplySnapshot
  <2>1. snap \in Config /\ snap.policy \in Policies
    BY <1>16 DEF ApplySnapshot, Config
  <2> DEFINE n == IF snap.policy = NoRows THEN database.serial ELSE database.serial + 1
  <2>2. database' \in Disks
    <3>1. n \in Nat
      BY <1>a DEF Disks
    <3>2. database' = [database EXCEPT !.policy = snap.policy, !.serial = n] \/ UNCHANGED database
      BY <1>16 DEF ApplySnapshot
    <3> HIDE DEF n
    <3> QED BY <1>a, <2>1, <3>1, <3>2 DEF Disks
  <2>3. mishaps' \in 0 .. MaxMishaps /\ ret' \in {"send", "compared", "activate"}
        /\ step' \in {"clear", "idle"} /\ snap # Absent
    BY <1>16, <1>b DEF ApplySnapshot
  <2> QED BY <1>16, <2>2, <2>3 DEF ApplySnapshot, Disks
<1>17. CASE ApplySettings
  BY <1>13, <1>17 DEF ApplySettings
<1>18. CASE Reload
  <2>1. force' \in Config
    BY <1>18, <1>a DEF Reload, Config, Disks
  <2>2. mishaps' \in 0 .. MaxMishaps
    BY <1>18, <1>b DEF Reload
  <2> QED BY <1>18, <2>1, <2>2 DEF Reload
<1> QED BY <1>1, <1>2, <1>4, <1>5, <1>6, <1>7, <1>8, <1>9, <1>10, <1>11, <1>12, <1>14, <1>15,
           <1>16, <1>17, <1>18 DEF Agent

LEMMA NextTypeOK == RpTypeOK /\ [RpNext]_rpVars => RpTypeOK'
<1> SUFFICES ASSUME RpTypeOK, [RpNext]_rpVars PROVE RpTypeOK'
  OBVIOUS
<1>1. CASE UNCHANGED rpVars
  BY <1>1 DEF rpVars, plane, agentVars, RpTypeOK
<1>2. CASE RpNext
  BY <1>2, EditTypeOK, PublishTypeOK, HandlerTypeOK, AgentTypeOK DEF RpNext
<1> QED BY <1>1, <1>2

\* Every variable keeps its type: a handler has a request exactly while the
\* agent waits, and the agent applies nothing without a snapshot.
THEOREM TypeCorrect == RpSpec => []RpTypeOK
BY InitTypeOK, NextTypeOK, PTL DEF RpSpec

-----------------------------------------------------------------------------
(* What the recorded version rests on.  A fingerprint names the rows of one  *)
(* applied policy, or none; the version recorded with it hashes those rows   *)
(* and the forwarders it names, whatever the tables have become since.       *)

RecordInv ==
  /\ step \in {"apply", "clear", "version", "print"} => version = Absent
  /\ step \in {"version", "print"} => database.print = Absent
  /\ step = "print" => database.version = Version(database)
  /\ database.policy # NoRows => database.serial > 0
  /\ database.print # Absent =>
       /\ database.version # Absent
       /\ database.version.forwarders = database.print.forwarders
       /\ database.print.rows <= database.serial
       /\ database.print.rows = 0 => database.version.policy = NoRows
       /\ database.print.rows = database.serial /\ database.policy # NoRows => database.version.policy = database.policy

VersionInv == RecordInv /\ VersionSound

LEMMA InitVersionInv == RpInit => VersionInv
BY DEF RpInit, VersionInv, RecordInv, VersionSound

\* Steps that write no table and begin no recording.
LEMMA VersionKept ==
  ASSUME VersionInv, UNCHANGED database, version' \in {version, Absent},
         step' \notin {"apply", "clear", "version", "print"}
  PROVE  VersionInv'
BY DEF VersionInv, RecordInv, VersionSound, Version, Fingerprint

LEMMA SnapshotVersionInv == ASSUME RpTypeOK, RpTypeOK', VersionInv, ApplySnapshot PROVE VersionInv'
<1> USE DEF VersionInv
<1>1. version = Absent /\ version' = Absent
  BY DEF ApplySnapshot, RecordInv
<1>2. CASE UNCHANGED database /\ step' = "idle"
  BY <1>1, <1>2, VersionKept
<1>3. CASE /\ database' = [database EXCEPT !.policy = snap.policy,
                                   !.serial = IF snap.policy = NoRows THEN @ ELSE @ + 1]
           /\ step' = "clear"
  <2>1. database \in Disks
    BY DiskTypes
  <2>2. database.serial \in Nat /\ (database.print # Absent => database.print.rows \in Nat)
    BY <2>1 DEF Disks, Fingerprints
  <2>3. /\ database'.policy = snap.policy /\ database'.forwarders = database.forwarders
        /\ database'.serial = IF snap.policy = NoRows THEN database.serial ELSE database.serial + 1
        /\ database'.version = database.version /\ database'.print = database.print
    BY <1>3, <2>1 DEF Disks
  <2>4. RecordInv'
    BY <1>1, <1>3, <2>2, <2>3 DEF RecordInv
  <2>5. VersionSound'
    <3> SUFFICES ASSUME database'.version # Absent, database'.print = Fingerprint(database')
                 PROVE  database'.version = Version(database')
      BY <1>1 DEF VersionSound
    <3>1. database' \in Disks
      BY DEF RpTypeOK, Disks
    <3>2. database'.version \in Versions /\ database'.print # Absent
      BY <3>1, ReplicationAssumption DEF Disks, Fingerprint, Fingerprints
    <3>3. /\ database'.print.forwarders = database'.forwarders
          /\ database'.print.rows = IF database'.policy = NoRows THEN 0 ELSE database'.serial
      BY DEF Fingerprint
    <3>4. database'.version.policy = database'.policy /\ database'.version.forwarders = database'.forwarders
      BY <2>4, <3>2, <3>3 DEF RecordInv
    <3> QED BY <3>2, <3>4 DEF Version, Versions
  <2> QED BY <2>4, <2>5
<1> QED BY <1>2, <1>3 DEF ApplySnapshot

\* The three writes of a recording, and its failures.
LEMMA RecordingVersionInv ==
  ASSUME RpTypeOK, VersionInv, ClearPrint \/ RecordVersion \/ RecordPrint \/ RecordFails
  PROVE  VersionInv'
<1> USE DEF VersionInv
<1>1. database \in Disks /\ Version(database) \in Versions /\ Fingerprint(database) \in Fingerprints
  BY DiskTypes
<1>2. ret \in {"send", "compared", "activate"}
  BY DEF RpTypeOK
<1>3. Absent \notin Versions /\ Absent \notin Fingerprints
  BY ReplicationAssumption
<1>4. CASE ClearPrint
  <2>1. /\ database' = [database EXCEPT !.print = Absent] /\ step' = "version"
        /\ version = Absent /\ version' = Absent
    BY <1>4 DEF ClearPrint, Write, RecordInv
  <2>2. database'.print = Absent /\ database'.policy = database.policy /\ database'.serial = database.serial
    BY <1>1, <2>1 DEF Disks
  <2>3. Fingerprint(database') \in Fingerprints
    BY <1>1, <2>1 DEF Disks, Fingerprint, Fingerprints
  <2> QED BY <1>3, <2>1, <2>2, <2>3 DEF RecordInv, VersionSound
<1>5. CASE RecordVersion
  <2>1. /\ database' = [database EXCEPT !.version = Version(database)] /\ step' = "print"
        /\ version = Absent /\ version' = Absent /\ database.print = Absent
    BY <1>5 DEF RecordVersion, Write, RecordInv
  <2>2. /\ database'.print = Absent /\ database'.policy = database.policy /\ database'.serial = database.serial
        /\ database'.forwarders = database.forwarders /\ database'.version = Version(database)
    BY <1>1, <2>1 DEF Disks
  <2>3. Version(database') = Version(database)
    BY <2>2 DEF Version
  <2> QED BY <2>1, <2>2, <2>3 DEF RecordInv, VersionSound
<1>6. CASE RecordPrint
  <2>1. /\ database' = [database EXCEPT !.print = Fingerprint(database)] /\ step' = ret
        /\ version' = Version(database) /\ database.version = Version(database)
    BY <1>6 DEF RecordPrint, Write, RecordInv
  <2>2. /\ database'.print = Fingerprint(database) /\ database'.policy = database.policy /\ database'.serial = database.serial
        /\ database'.forwarders = database.forwarders /\ database'.version = database.version
    BY <1>1, <2>1 DEF Disks
  <2>3. Version(database') = Version(database)
    BY <2>2 DEF Version
  <2>4. /\ database'.version.policy = database'.policy /\ database'.version.forwarders = database'.forwarders
        /\ database'.print.forwarders = database'.forwarders
        /\ database'.print.rows = IF database'.policy = NoRows THEN 0 ELSE database'.serial
    BY <2>1, <2>2 DEF Version, Fingerprint
  <2>5. database.serial \in Nat /\ database'.version # Absent
    BY <1>1, <1>3, <2>1, <2>2 DEF Disks
  <2>6. database.policy # NoRows => database.serial > 0
    BY DEF RecordInv
  <2>7. RecordInv'
    BY <1>2, <2>1, <2>2, <2>4, <2>5, <2>6 DEF RecordInv
  <2> QED BY <2>1, <2>2, <2>3, <2>7 DEF VersionSound
<1>7. CASE RecordFails
  BY <1>2, <1>7, VersionKept DEF RecordFails
<1> QED BY <1>4, <1>5, <1>6, <1>7

\* A write that leaves what a version and a fingerprint are taken from.
LEMMA SettingsVersionInv == ASSUME RpTypeOK, VersionInv, StoreSettings PROVE VersionInv'
<1>1. CASE UNCHANGED database
  BY <1>1, VersionKept DEF StoreSettings
<1>2. CASE database' = [database EXCEPT !.settings = snap.settings]
  <2>1. database \in Disks
    BY DiskTypes
  <2>2. /\ database'.print = database.print /\ database'.policy = database.policy /\ database'.serial = database.serial
        /\ database'.forwarders = database.forwarders /\ database'.version = database.version
    BY <1>2, <2>1 DEF Disks
  <2>3. step' = "compare" /\ version' = version
    BY DEF StoreSettings
  <2> QED BY <2>2, <2>3 DEF VersionInv, RecordInv, VersionSound, Version, Fingerprint
<1> QED BY <1>1, <1>2 DEF StoreSettings

LEMMA ForwardersVersionInv ==
  ASSUME RpTypeOK, RpTypeOK', VersionInv, StoreForwarders PROVE VersionInv'
<1>1. version' = Absent /\ step' \in {"apply", "idle"}
  BY DEF StoreForwarders
<1>2. database \in Disks /\ database' \in Disks
  BY DEF RpTypeOK, Disks
<1>3. /\ database'.print = database.print /\ database'.policy = database.policy /\ database'.serial = database.serial
      /\ database'.version = database.version
  BY <1>2 DEF StoreForwarders, Disks
<1>4. RecordInv'
  BY <1>1, <1>3 DEF RecordInv, VersionInv
<1>5. ASSUME database'.version # Absent, database'.print = Fingerprint(database') PROVE database'.version = Version(database')
  <2>1. database'.version \in Versions /\ database'.print # Absent
    BY <1>2, <1>5, ReplicationAssumption DEF Disks, Fingerprint, Fingerprints
  <2>2. /\ database'.print.forwarders = database'.forwarders
        /\ database'.print.rows = IF database'.policy = NoRows THEN 0 ELSE database'.serial
    BY <1>5 DEF Fingerprint
  <2>3. database'.version.policy = database'.policy /\ database'.version.forwarders = database'.forwarders
    BY <1>4, <2>1, <2>2 DEF RecordInv
  <2> QED BY <2>1, <2>3 DEF Version, Versions
<1> QED BY <1>1, <1>4, <1>5 DEF VersionInv, VersionSound

LEMMA NextVersionInv == RpTypeOK /\ RpTypeOK' /\ VersionInv /\ [RpNext]_rpVars => VersionInv'
<1> SUFFICES ASSUME RpTypeOK, RpTypeOK', VersionInv, [RpNext]_rpVars PROVE VersionInv'
  OBVIOUS
<1>1. ASSUME UNCHANGED <<step, version, database>> PROVE VersionInv'
  BY <1>1 DEF VersionInv, RecordInv, VersionSound, Version, Fingerprint
<1>2. CASE UNCHANGED rpVars
  BY <1>1, <1>2 DEF rpVars, agentVars
<1>3. ASSUME NEW part \in Editable, NEW v \in Value[part], EditConfig(part, v) PROVE VersionInv'
  BY <1>1, <1>3 DEF EditConfig, agentVars
<1>4. CASE Publish \/ PollHandler
  BY <1>1, <1>4 DEF Publish, PollHandler, ReadNode, ReadPause, ReadSettings, Lookup, ReadPolicy,
                    ReadForwarders, Handle, agentVars
<1>5. CASE StartAgent \/ CrashAgent \/ SendPoll \/ Lose \/ Unchanged \/ Adopt
  BY <1>5, VersionKept DEF StartAgent, CrashAgent, SendPoll, Lose, Unchanged, Adopt, VersionInv, RecordInv, VersionSound,
                           Version, Fingerprint
<1>6. ASSUME NEW from, NEW next \in {"send", "compared"}, LocalVersion(from, next) PROVE VersionInv'
  <2>1. UNCHANGED database
    BY <1>6 DEF LocalVersion
  <2>2. CASE version # Absent /\ step' = next /\ UNCHANGED version
    BY <2>1, <2>2, VersionKept
  <2>3. CASE /\ version = Absent /\ database.version # Absent /\ database.print = Fingerprint(database)
             /\ version' = database.version /\ step' = next
    BY <1>6, <2>1, <2>3 DEF VersionInv, RecordInv, VersionSound, Version, Fingerprint
  <2>4. CASE version = Absent /\ step' = "clear" /\ UNCHANGED version
    BY <2>1, <2>4 DEF VersionInv, RecordInv, VersionSound, Version, Fingerprint
  <2> QED BY <1>6, <2>2, <2>3, <2>4 DEF LocalVersion
<1>7. CASE StartCycle \/ Compare
  BY <1>6, <1>7 DEF StartCycle, Compare
<1>8. ASSUME NEW next \in {"idle", "reload"}, Activate(next) PROVE VersionInv'
  BY <1>8, VersionKept DEF Activate
<1>9. CASE UpToDate \/ ApplySettings \/ Reload
  BY <1>8, <1>9, VersionKept DEF UpToDate, ApplySettings, Reload
<1> QED BY <1>2, <1>3, <1>4, <1>5, <1>7, <1>9, RecordingVersionInv, SettingsVersionInv,
           ForwardersVersionInv, SnapshotVersionInv DEF RpNext, Agent

\* Whatever crashes and failures come between the agent's writes, it never
\* takes its tables for another version's.
THEOREM VersionsAreSound == RpSpec => []VersionSound
<1>1. VersionInv => VersionSound
  BY DEF VersionInv
<1> QED BY <1>1, InitTypeOK, NextTypeOK, InitVersionInv, NextVersionInv, PTL DEF RpSpec

-----------------------------------------------------------------------------
(* What the resolver has in force, while no local read or write fails.       *)

StorageWorks == Failures \subseteq {"crash", "lost"}

Recording == {"clear", "version", "print"}
Applying  == step = "apply" \/ step = "activate" \/ (step \in Recording /\ ret = "activate")
Comparing == step \in {"compare", "compared"} \/ (step \in Recording /\ ret = "compared")

ForceInv ==
  /\ setVer = database.settings
  /\ step = "down" => version = Absent
  /\ ~ Applying /\ step # "reload" => force.policy = database.policy
  /\ ~ Applying => force.forwarders = database.forwarders
  /\ Applying \/ (Comparing /\ changed) \/ force.settings = database.settings
  /\ stateApplied # Absent => force.pause = stateApplied.pause /\ force.maint = stateApplied.maint

RequestInv ==
  poll # Absent =>
    /\ poll.version = version
    /\ poll.holds # Absent => poll.holds = [pause |-> force.pause, maint |-> force.maint, settings |-> setVer]
    /\ poll.stage \in {"lookup", "unchanged"} =>
         /\ poll.version # Absent /\ poll.holds # Absent
         /\ poll.holds = [pause |-> poll.snap.pause, maint |-> poll.snap.maint, settings |-> poll.snap.settings]
    /\ poll.stage = "unchanged" =>
         poll.version.policy \in poll.seen.policy /\ poll.version.forwarders \in poll.seen.forwarders

----------------------------------------------------------------

LEMMA InitReplicaInv == RpInit => ForceInv /\ RequestInv
BY ReplicationAssumption DEF RpInit, ForceInv, RequestInv, Applying, Comparing, Recording, Unset

LEMMA NoMishap == StorageWorks => \A kind \in {"write", "apply", "reload", "read"} : ~ Mishap(kind)
BY DEF StorageWorks, Mishap

\* The administrator and the handler do not touch the agent.
LEMMA HandlerReplicaInv ==
  ASSUME RpTypeOK, ForceInv, RequestInv, PollHandler PROVE ForceInv' /\ RequestInv'
<1>1. UNCHANGED agentVars
  BY DEF PollHandler, ReadNode, ReadPause, ReadSettings, Lookup, ReadPolicy, ReadForwarders, Handle
<1>2. ForceInv'
  BY <1>1 DEF agentVars, ForceInv, Applying, Comparing, Recording
<1>3. poll \in Requests
  BY DEF PollHandler, ReadNode, ReadPause, ReadSettings, Lookup, ReadPolicy, ReadForwarders, Handle, RpTypeOK
<1>4. poll # Absent /\ poll.version = version
      /\ (poll.holds # Absent =>
            poll.holds = [pause |-> force.pause, maint |-> force.maint, settings |-> setVer])
  BY <1>3, ReplicationAssumption DEF RequestInv
\* A step to a stage before the comparisons, or after them.
<1>5. ASSUME NEW st \in HandlerStages \ {"lookup", "unchanged"},
             poll'.stage = st, poll'.version = poll.version, poll'.holds = poll.holds
      PROVE  RequestInv'
  BY <1>1, <1>4, <1>5 DEF RequestInv, agentVars
<1>6. CASE ReadNode \/ ReadPause \/ ReadPolicy \/ ReadForwarders
  BY <1>2, <1>3, <1>5, <1>6 DEF ReadNode, ReadPause, ReadPolicy, ReadForwarders, Handle, Requests, HandlerStages, Config
<1>7. CASE ReadSettings
  <2> DEFINE s == [poll.snap EXCEPT !.settings = config.settings]
             st == IF HoldsState(s) THEN "lookup" ELSE "policy"
  <2>1. poll' = [poll EXCEPT !.stage = st, !.snap = s, !.seen = recent]
    BY <1>7 DEF ReadSettings, Handle
  <2>2. poll'.stage = st /\ poll'.snap = s /\ poll'.version = poll.version /\ poll'.holds = poll.holds
    BY <1>3, <2>1 DEF Requests
  <2>3. CASE HoldsState(s)
    <3>1. /\ poll'.stage = "lookup" /\ poll.version # Absent /\ poll.holds # Absent
          /\ poll.holds = [pause |-> s.pause, maint |-> s.maint, settings |-> s.settings]
      BY <2>2, <2>3 DEF HoldsState
    <3> QED BY <1>1, <1>2, <1>4, <2>2, <3>1 DEF RequestInv, agentVars
  <2>4. CASE ~ HoldsState(s)
    BY <1>2, <1>5, <2>2, <2>4 DEF HandlerStages
  <2> QED BY <2>3, <2>4
<1>8. CASE Lookup
  <2>1. PICK p \in poll.seen.policy, f \in poll.seen.forwarders :
          Handle("lookup", [poll EXCEPT
            !.stage = IF poll.version = [policy |-> p, forwarders |-> f] THEN "unchanged" ELSE "policy"])
    BY <1>8 DEF Lookup
  <2> DEFINE st == IF poll.version = [policy |-> p, forwarders |-> f] THEN "unchanged" ELSE "policy"
  <2>2. poll.stage = "lookup" /\ poll' = [poll EXCEPT !.stage = st]
    BY <2>1 DEF Handle
  <2>3. /\ poll'.stage = st /\ poll'.snap = poll.snap /\ poll'.version = poll.version
        /\ poll'.holds = poll.holds /\ poll'.seen = poll.seen
    BY <1>3, <2>2 DEF Requests
  <2>4. /\ poll.version # Absent /\ poll.holds # Absent
        /\ poll.holds = [pause |-> poll.snap.pause, maint |-> poll.snap.maint, settings |-> poll.snap.settings]
    BY <1>4, <2>2 DEF RequestInv
  <2>5. CASE poll.version = [policy |-> p, forwarders |-> f]
    <3>1. poll'.version.policy \in poll'.seen.policy /\ poll'.version.forwarders \in poll'.seen.forwarders
      BY <2>1, <2>3, <2>5
    <3> QED BY <1>1, <1>2, <1>4, <2>3, <2>4, <2>5, <3>1 DEF RequestInv, agentVars
  <2>6. CASE poll.version # [policy |-> p, forwarders |-> f]
    BY <1>2, <1>5, <2>3, <2>6 DEF HandlerStages
  <2> QED BY <2>5, <2>6
<1> QED BY <1>2, <1>6, <1>7, <1>8 DEF PollHandler

LEMMA EditReplicaInv ==
  ASSUME RpTypeOK, ForceInv, RequestInv, NEW part \in Editable, NEW v \in Value[part], EditConfig(part, v)
  PROVE  ForceInv' /\ RequestInv'
<1>1. UNCHANGED agentVars
  BY DEF EditConfig
<1>2. ForceInv'
  BY <1>1 DEF agentVars, ForceInv, Applying, Comparing, Recording
<1>3. CASE poll = Absent
  BY <1>2, <1>3 DEF EditConfig, RequestInv
<1>4. CASE poll # Absent
  <2>1. poll \in Requests /\ poll.seen \in Seen
    BY <1>4 DEF RpTypeOK, Requests
  <2>2. /\ poll'.stage = poll.stage /\ poll'.snap = poll.snap /\ poll'.version = poll.version
        /\ poll'.holds = poll.holds /\ poll'.seen = Add(poll.seen, part, v)
    BY <1>4, <2>1 DEF EditConfig, Requests
  <2>3. /\ poll.seen.policy \subseteq poll'.seen.policy
        /\ poll.seen.forwarders \subseteq poll'.seen.forwarders
    <3>1. part \in {"policy", "forwarders", "settings", "pause", "maint"}
      BY ReplicationAssumption
    <3>2. CASE part = "policy"
      BY <2>1, <2>2, <3>2 DEF Add, Seen
    <3>3. CASE part = "forwarders"
      BY <2>1, <2>2, <3>3 DEF Add, Seen
    <3>4. CASE part \in {"settings", "pause", "maint"}
      BY <2>1, <2>2, <3>4 DEF Add, Seen
    <3> QED BY <3>1, <3>2, <3>3, <3>4
  <2> QED BY <1>1, <1>2, <1>4, <2>2, <2>3 DEF RequestInv, agentVars
<1> QED BY <1>2, <1>3, <1>4

LEMMA AgentRequestInv == ASSUME RpTypeOK, RpTypeOK', Agent \/ CrashAgent \/ Lose, ForceInv PROVE RequestInv'
<1>1. CASE poll' = Absent
  BY <1>1 DEF RequestInv
<1>2. CASE poll' # Absent
  <2>1. step' = "wait"
    BY <1>2 DEF RpTypeOK
  <2>2. SendPoll
    BY <2>1, <1>2 DEF Agent, StartAgent, CrashAgent, Lose, StartCycle, Compare, LocalVersion, Unchanged, Adopt,
         StoreSettings, UpToDate, Activate, StoreForwarders, ApplySnapshot, ClearPrint, RecordVersion,
         RecordPrint, Write, RecordFails, ApplySettings, Reload, RpTypeOK
  <2>3. stateApplied # Absent => force.pause = stateApplied.pause /\ force.maint = stateApplied.maint
    BY DEF ForceInv
  <2>4. /\ poll'.stage = "node" /\ poll'.version = version
        /\ poll'.holds = IF stateApplied = Absent THEN Absent
                        ELSE [pause |-> stateApplied.pause, maint |-> stateApplied.maint, settings |-> setVer]
        /\ UNCHANGED <<version, force, setVer>>
    BY <2>2 DEF SendPoll
  <2> QED BY <2>3, <2>4 DEF RequestInv
<1> QED BY <1>1, <1>2

LEMMA AgentForceInv ==
  ASSUME StorageWorks, RpTypeOK, ForceInv, Agent \/ CrashAgent \/ Lose PROVE ForceInv'
<1> USE DEF ForceInv, Applying, Comparing, Recording
<1>a. database \in Disks /\ force \in Config /\ ret \in {"send", "compared", "activate"}
  BY DiskTypes DEF RpTypeOK
<1>b. ~ Mishap("write") /\ ~ Mishap("apply") /\ ~ Mishap("reload") /\ ~ Mishap("read")
  BY NoMishap
<1>1. CASE StartAgent \/ CrashAgent
  BY <1>1 DEF StartAgent, CrashAgent, InForce
<1>2. ASSUME NEW from \in {"idle", "compare"}, NEW next \in {"send", "compared"},
             from = "idle" <=> next = "send", LocalVersion(from, next)
      PROVE  ForceInv'
  BY <1>2, <1>a DEF LocalVersion
<1>3. CASE StartCycle \/ Compare
  BY <1>2, <1>3 DEF StartCycle, Compare
<1>4. CASE ClearPrint \/ RecordVersion \/ RecordPrint
  <2>1. /\ database'.policy = database.policy /\ database'.forwarders = database.forwarders
        /\ database'.settings = database.settings
    BY <1>4, <1>a DEF ClearPrint, RecordVersion, RecordPrint, Write, Disks
  <2>2. /\ step \in Recording /\ step' \in Recording \cup {ret}
        /\ UNCHANGED <<ret, setVer, stateApplied, changed, force>>
    BY <1>4 DEF ClearPrint, RecordVersion, RecordPrint, Write
  <2> QED BY <1>a, <2>1, <2>2
<1>5. CASE RecordFails
  BY <1>b, <1>5 DEF RecordFails
<1>6. CASE SendPoll \/ Lose \/ Unchanged
  BY <1>6 DEF SendPoll, Lose, Unchanged
<1>7. CASE Adopt
  <2>1. /\ force'.policy = force.policy /\ force'.forwarders = force.forwarders
        /\ force'.settings = force.settings
        /\ force'.pause = stateApplied'.pause /\ force'.maint = stateApplied'.maint
    BY <1>7, <1>a DEF Adopt, Config
  <2> QED BY <1>7, <2>1 DEF Adopt
<1>8. CASE StoreSettings
  <2>1. /\ changed' = (snap.settings # setVer) /\ setVer' = snap.settings
        /\ database' = IF changed' THEN [database EXCEPT !.settings = snap.settings] ELSE database
        /\ step = "settings" /\ step' = "compare" /\ UNCHANGED <<stateApplied, force>>
    BY <1>8, <1>b DEF StoreSettings
  <2>2. /\ database'.settings = setVer' /\ database'.policy = database.policy /\ database'.forwarders = database.forwarders
    BY <2>1, <1>a DEF Disks
  <2> QED BY <2>1, <2>2
<1>9. ASSUME NEW next \in {"idle", "reload"}, Activate(next),
             next = "idle" => force.policy = database.policy
      PROVE  ForceInv'
  <2>1. force' = Activated(force)
    BY <1>9, <1>b DEF Activate
  <2>2. /\ force'.policy = force.policy /\ force'.forwarders = database.forwarders
        /\ force'.settings = database.settings /\ force'.pause = force.pause /\ force'.maint = force.maint
    BY <2>1, <1>a DEF Activated, Config
  <2> QED BY <1>9, <2>2 DEF Activate
<1>10. CASE UpToDate
  BY <1>9, <1>10 DEF UpToDate
<1>11. CASE ApplySettings
  BY <1>9, <1>11 DEF ApplySettings
<1>12. CASE StoreForwarders
  <2>1. database' = [database EXCEPT !.forwarders = snap.forwarders] /\ step' = "apply"
    BY <1>12, <1>b DEF StoreForwarders
  <2>2. database'.settings = database.settings
    BY <2>1, <1>a DEF Disks
  <2> QED BY <1>12, <2>1, <2>2 DEF StoreForwarders
<1>13. CASE ApplySnapshot
  <2>1. database'.settings = database.settings /\ step' = "clear" /\ ret' = "activate"
    BY <1>13, <1>a, <1>b DEF ApplySnapshot, Disks
  <2> QED BY <1>13, <2>1 DEF ApplySnapshot
<1>14. CASE Reload
  <2>1. force' = [force EXCEPT !.policy = database.policy]
    BY <1>14, <1>b DEF Reload
  <2>2. /\ force'.policy = database.policy /\ force'.forwarders = force.forwarders
        /\ force'.settings = force.settings /\ force'.pause = force.pause /\ force'.maint = force.maint
    BY <2>1, <1>a DEF Config
  <2> QED BY <1>14, <2>2 DEF Reload
<1> QED BY <1>1, <1>3, <1>4, <1>5, <1>6, <1>7, <1>8, <1>10, <1>11, <1>12, <1>13, <1>14 DEF Agent

LEMMA NextReplicaInv ==
  StorageWorks /\ RpTypeOK /\ RpTypeOK' /\ ForceInv /\ RequestInv /\ [RpNext]_rpVars => ForceInv' /\ RequestInv'
<1> SUFFICES ASSUME StorageWorks, RpTypeOK, RpTypeOK', ForceInv, RequestInv, [RpNext]_rpVars
             PROVE  ForceInv' /\ RequestInv'
  OBVIOUS
<1>1. CASE UNCHANGED rpVars \/ Publish
  BY <1>1 DEF Publish, rpVars, agentVars, ForceInv, RequestInv, Applying, Comparing, Recording
<1> QED BY <1>1, EditReplicaInv, HandlerReplicaInv, AgentRequestInv, AgentForceInv DEF RpNext

\* While the agent's local reads and writes succeed, between two cycles the
\* resolver runs with what is stored, whatever crashes and lost polls came.
THEOREM StoredIsInForce == ASSUME StorageWorks PROVE RpSpec => []StoredInForce
<1>1. ForceInv => StoredInForce
  BY DEF ForceInv, StoredInForce, Applying, Comparing, Recording
<1>2. RpTypeOK /\ RpTypeOK' /\ ForceInv /\ RequestInv /\ [RpNext]_rpVars => ForceInv' /\ RequestInv'
  BY NextReplicaInv
<1> QED BY <1>1, <1>2, InitTypeOK, NextTypeOK, InitReplicaInv, PTL DEF RpSpec

\* ... and a poll is answered "not modified" only to a resolver that runs with
\* what the control plane holds.
THEOREM UnchangedMeansInForce == ASSUME StorageWorks PROVE RpSpec => []UnchangedIsInForce
<1>1. RpTypeOK /\ VersionSound /\ ForceInv /\ RequestInv => UnchangedIsInForce
  <2> SUFFICES ASSUME RpTypeOK, VersionSound, ForceInv, RequestInv, step = "wait", poll.stage = "unchanged"
               PROVE  /\ force.policy \in poll.seen.policy /\ force.forwarders \in poll.seen.forwarders
                      /\ force.settings = poll.snap.settings
                      /\ force.pause = poll.snap.pause /\ force.maint = poll.snap.maint
    BY DEF UnchangedIsInForce
  <2>1. poll # Absent
    BY DEF RpTypeOK
  <2>2. /\ poll.version = version /\ version # Absent
        /\ poll.version.policy \in poll.seen.policy /\ poll.version.forwarders \in poll.seen.forwarders
        /\ poll.holds = [pause |-> force.pause, maint |-> force.maint, settings |-> setVer]
        /\ poll.holds = [pause |-> poll.snap.pause, maint |-> poll.snap.maint, settings |-> poll.snap.settings]
    BY <2>1 DEF RequestInv
  <2>3. poll.version.policy = database.policy /\ poll.version.forwarders = database.forwarders
    BY <2>2 DEF VersionSound, Version
  <2>4. /\ force.policy = database.policy /\ force.forwarders = database.forwarders
        /\ force.settings = setVer
    BY DEF ForceInv, Applying, Comparing, Recording
  <2>5. force.pause = poll.snap.pause /\ force.maint = poll.snap.maint /\ setVer = poll.snap.settings
    BY <2>2
  <2> QED BY <2>2, <2>3, <2>4, <2>5
<1>2. RpTypeOK /\ RpTypeOK' /\ ForceInv /\ RequestInv /\ [RpNext]_rpVars => ForceInv' /\ RequestInv'
  BY NextReplicaInv
<1> QED BY <1>1, <1>2, InitTypeOK, NextTypeOK, InitReplicaInv, VersionsAreSound, PTL DEF RpSpec
=============================================================================
