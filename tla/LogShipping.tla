---------------------------- MODULE LogShipping ----------------------------
(***************************************************************************)
(* How a resolver's query log reaches the control plane.                   *)
(*                                                                         *)
(* The resolver logs queries into its local query_log, whose ids are never *)
(* reused.  On every cycle its agent reads the entries past a cursor, at   *)
(* most shipBatch of them, posts them, and advances the cursor, first in   *)
(* memory and then in the database; with the privacy level on it deletes   *)
(* what it has shipped.  The control plane inserts a batch in one          *)
(* transaction and answers.  A request the agent gave up on may still be   *)
(* served later.                                                           *)
(*                                                                         *)
(* An entry is identified with its id.  A process that starts makes its    *)
(* agent only once it is enrolled, and queries are logged before that.     *)
(***************************************************************************)
EXTENDS Integers, FiniteSets

CONSTANTS
  ShipBatch,   \* shipBatch, the most entries of one request
  Mishaps,     \* which disturbances happen, of the ones below
  MaxLogged,   \* bound: entries logged in a behaviour
  MaxMishaps   \* bound: disturbances in a behaviour

AllMishaps == {"crash",     \* the resolver stops at any point
               "timeout",   \* the agent stops waiting; the request may be served yet
               "drop",      \* a request is lost on its way
               "refuse",    \* the control plane answers an error and stores nothing
               "save",      \* the cursor is not written to the database
               "purge",     \* the purge fails
               "prune",     \* entries reach the local retention of 48 hours
               "read"}      \* the saved cursor cannot be read at start

ASSUME ShippingAssumption ==
  /\ ShipBatch \in Nat \ {0}
  /\ Mishaps \subseteq AllMishaps
  /\ MaxLogged \in Nat /\ MaxMishaps \in Nat

VARIABLES
  logged,    \* entries 1..logged have been inserted into the local query_log
  rows,      \* the ones still there
  saved,     \* meta shipped_log_id
  pc,        \* the agent: down, unborn, idle, posting, saving, purging
  cursor,    \* lastShipped
  batch,     \* the entries of the request under way
  wire,      \* requests on their way: sets of entries, by serial number
  serial,    \* the number of the last request
  answered,  \* whether the request under way was answered with success
  stored,    \* stored[i] is how often the control plane stored entry i
  first,     \* history: the entries logged when the first agent was made
  made,      \* history: whether an agent has been made
  skipped,   \* history: the last entry an agent skipped as backlog
  pruned,    \* history: entries removed by retention
  mishaps    \* disturbances so far

local   == <<logged, rows, saved>>
request == <<batch, wire, serial, answered>>
history == <<first, made, skipped, pruned>>
vars    == <<local, pc, cursor, request, stored, history, mishaps>>

Entries == 1 .. MaxLogged
MaxSerial == MaxLogged * (1 + MaxMishaps)
IsHighest(m, S) == m \in S /\ \A i \in S : i <= m

Init ==
  /\ logged = 0 /\ rows = {} /\ saved = 0
  /\ pc = "down" /\ cursor = 0
  /\ batch = {} /\ wire = [n \in 1 .. MaxSerial |-> {}] /\ serial = 0 /\ answered = FALSE
  /\ stored = [i \in Entries |-> 0]
  /\ first = 0 /\ made = FALSE /\ skipped = 0 /\ pruned = {}
  /\ mishaps = 0

Mishap(m) == m \in Mishaps /\ mishaps < MaxMishaps /\ mishaps' = mishaps + 1

-----------------------------------------------------------------------------
(* The local query log.                                                    *)

\* QueryLogWriter flushes a batch in one transaction.
Flush ==
  /\ pc # "down"
  /\ \E n \in 1 .. 2 :
       /\ logged + n <= MaxLogged
       /\ logged' = logged + n
       /\ rows' = rows \cup (logged + 1 .. logged + n)
  /\ UNCHANGED <<saved, pc, cursor, request, stored, history, mishaps>>

\* The hourly PruneQueryLog removes the oldest entries, shipped or not.
Prune ==
  /\ pc # "down" /\ rows # {}
  /\ Mishap("prune")
  /\ \E i \in rows :
       /\ rows' = {j \in rows : j > i}
       /\ pruned' = pruned \cup {j \in rows : j <= i}
  /\ UNCHANGED <<logged, saved, pc, cursor, request, stored, first, made, skipped>>

-----------------------------------------------------------------------------
(* The agent.                                                              *)

Start ==
  /\ pc = "down"
  /\ pc' = "unborn"
  /\ UNCHANGED <<local, cursor, request, stored, history, mishaps>>

\* NewAgent: resume at the saved cursor ...
Resume ==
  /\ saved # 0
  /\ cursor' = saved
  /\ UNCHANGED <<saved, skipped, mishaps>>

\* ... or, without one, skip the backlog and save its end.
SkipBacklog ==
  \E m \in rows \cup {0} :
    /\ IsHighest(m, rows \cup {0})
    /\ cursor' = m
    /\ skipped' = IF m > skipped THEN m ELSE skipped
    /\ \/ saved = 0 /\ saved' = m /\ UNCHANGED mishaps
       \/ saved = 0 /\ UNCHANGED saved /\ Mishap("save")
       \/ saved' = m /\ Mishap("read")

\* Neither the cursor nor the end of the backlog can be read: everything is
\* shipped from the start.
ShipBacklog ==
  /\ Mishap("read")
  /\ cursor' = 0
  /\ UNCHANGED <<saved, skipped>>

NewAgent ==
  /\ pc = "unborn"
  /\ Resume \/ SkipBacklog \/ ShipBacklog
  /\ pc' = "idle"
  /\ made' = TRUE
  /\ first' = IF made THEN first ELSE logged
  /\ UNCHANGED <<logged, rows, request, stored, pruned>>

\* QueryLogSince: the oldest entries past the cursor.
Since(after) ==
  LET past == {i \in rows : i > after}
  IN  {i \in past : Cardinality({j \in past : j <= i}) <= ShipBatch}

\* Changed: the cursor moves before the entries are posted.
PostAdvancing ==
  /\ pc = "idle" /\ serial < MaxSerial
  /\ Since(cursor) # {}
  /\ batch' = Since(cursor)
  /\ serial' = serial + 1
  /\ wire' = [wire EXCEPT ![serial + 1] = Since(cursor)]
  /\ answered' = FALSE
  /\ pc' = "posting"
  /\ \E m \in Since(cursor) : IsHighest(m, Since(cursor)) /\ cursor' = m
  /\ UNCHANGED <<local, stored, history, mishaps>>

\* Changed: only a full batch is posted.
PostFullBatch ==
  /\ pc = "idle" /\ serial < MaxSerial
  /\ Cardinality(Since(cursor)) = ShipBatch
  /\ batch' = Since(cursor)
  /\ serial' = serial + 1
  /\ wire' = [wire EXCEPT ![serial + 1] = Since(cursor)]
  /\ answered' = FALSE
  /\ pc' = "posting"
  /\ UNCHANGED <<local, cursor, stored, history, mishaps>>

\* shipLogs reads a batch and posts it.
Post ==
  /\ pc = "idle" /\ serial < MaxSerial
  /\ Since(cursor) # {}
  /\ batch' = Since(cursor)
  /\ serial' = serial + 1
  /\ wire' = [wire EXCEPT ![serial + 1] = Since(cursor)]
  /\ answered' = FALSE
  /\ pc' = "posting"
  /\ UNCHANGED <<local, cursor, stored, history, mishaps>>

\* The post failed or timed out: the cycle ends.
PostFails ==
  /\ pc = "posting" /\ Mishap("timeout")
  /\ pc' = "idle"
  /\ UNCHANGED <<local, cursor, request, stored, history>>

\* Changed: the cursor stays.
ShippedStaying ==
  /\ pc = "posting" /\ answered
  /\ pc' = "saving"
  /\ UNCHANGED <<local, cursor, request, stored, history, mishaps>>

\* The post succeeded: the cursor moves to the end of the batch.
Shipped ==
  /\ pc = "posting" /\ answered
  /\ \E m \in batch : IsHighest(m, batch) /\ cursor' = m
  /\ pc' = "saving"
  /\ UNCHANGED <<local, request, stored, history, mishaps>>

\* The cursor is persisted; an error is ignored.
Save ==
  /\ pc = "saving"
  /\ \/ saved' = cursor /\ UNCHANGED mishaps
     \/ UNCHANGED saved /\ Mishap("save")
  /\ pc' = "purging"
  /\ UNCHANGED <<logged, rows, cursor, request, stored, history>>

\* Changed: the purge empties the log.
PurgeAll ==
  /\ pc = "purging"
  /\ \/ rows' = {} /\ UNCHANGED mishaps
     \/ UNCHANGED <<rows, mishaps>>
     \/ UNCHANGED rows /\ Mishap("purge")
  /\ pc' = "idle"
  /\ UNCHANGED <<logged, saved, cursor, request, stored, history>>

\* DeleteQueryLogThrough, if the privacy level is on by now.
Purge ==
  /\ pc = "purging"
  /\ \/ rows' = {i \in rows : i > cursor} /\ UNCHANGED mishaps
     \/ UNCHANGED <<rows, mishaps>>
     \/ UNCHANGED rows /\ Mishap("purge")
  /\ pc' = "idle"
  /\ UNCHANGED <<logged, saved, cursor, request, stored, history>>

Crash ==
  /\ pc # "down" /\ Mishap("crash")
  /\ pc' = "down"
  /\ UNCHANGED <<local, cursor, request, stored, history>>

-----------------------------------------------------------------------------
(* The control plane and the network.                                      *)

Arrived(n) == wire' = [wire EXCEPT ![n] = {}]

\* clusterLog inserts the batch and answers; only the agent that still waits
\* for this request hears of it.
Ingest(n) ==
  /\ wire[n] # {}
  /\ Arrived(n)
  /\ stored' = [i \in Entries |-> IF i \in wire[n] THEN stored[i] + 1 ELSE stored[i]]
  /\ answered' = (answered \/ (pc = "posting" /\ n = serial))
  /\ UNCHANGED <<local, pc, cursor, batch, serial, history, mishaps>>

\* It answers an error: the key is refused or the insert fails.
Refuse(n) ==
  /\ wire[n] # {} /\ Mishap("refuse")
  /\ Arrived(n)
  /\ pc' = IF n = serial /\ pc = "posting" THEN "idle" ELSE pc
  /\ UNCHANGED <<local, cursor, batch, serial, answered, stored, history>>

\* The request is lost; the agent gets an error.
Drop(n) ==
  /\ wire[n] # {} /\ Mishap("drop")
  /\ Arrived(n)
  /\ pc' = IF n = serial /\ pc = "posting" THEN "idle" ELSE pc
  /\ UNCHANGED <<local, cursor, batch, serial, answered, stored, history>>

AgentStep == Start \/ NewAgent \/ Post \/ Shipped \/ Save \/ Purge
ServerStep == \E n \in 1 .. MaxSerial : Ingest(n)

Next ==
  \/ Flush \/ Prune
  \/ AgentStep \/ PostFails \/ Crash
  \/ ServerStep \/ \E n \in 1 .. MaxSerial : Refuse(n) \/ Drop(n)

Spec == Init /\ [][Next]_vars

\* The agent's loop runs on, and the control plane serves what reaches it.
FairSpec == Spec /\ WF_vars(AgentStep) /\ WF_vars(ServerStep)

-----------------------------------------------------------------------------
(* Properties.                                                             *)

TypeOK ==
  /\ logged \in 0 .. MaxLogged /\ rows \subseteq 1 .. logged /\ saved \in 0 .. logged
  /\ pc \in {"down", "unborn", "idle", "posting", "saving", "purging"}
  /\ cursor \in 0 .. logged
  /\ batch \subseteq 1 .. logged /\ wire \in [1 .. MaxSerial -> SUBSET (1 .. logged)]
  /\ serial \in 0 .. MaxSerial /\ answered \in BOOLEAN
  /\ stored \in [Entries -> Nat]
  /\ first \in 0 .. logged /\ made \in BOOLEAN /\ skipped \in 0 .. logged
  /\ pruned \subseteq 1 .. logged
  /\ mishaps \in 0 .. MaxMishaps

Arrives(i) == stored[i] > 0

\* An entry the agent has nothing more to do about: it arrived, it was removed
\* by retention, or it was skipped as the backlog of an agent without a cursor.
Settled(i) == Arrives(i) \/ i \in pruned \/ i <= skipped

\* The cursor passes, and the purge removes, no entry that has not arrived,
\* although entries are logged and pruned while a batch is under way, requests
\* are answered late and the resolver stops between any two steps.
NothingUnshippedIsDropped ==
  /\ \A i \in 1 .. logged : i <= saved \/ (pc \notin {"down", "unborn"} /\ i <= cursor) => Settled(i)
  /\ \A i \in (1 .. logged) \ rows : Settled(i)

\* The control plane's log of a node has no hole: entries arrive in the order
\* of their ids but for repetitions.
ArrivesInOrder ==
  \A i \in Entries : Arrives(i) => \A j \in 1 .. i : Settled(j)

\* A disturbance makes the control plane store an entry at most once more.
RepetitionsNeedMishaps == \A i \in Entries : stored[i] <= 1 + mishaps

\* Every entry that is logged gets to the control plane, unless retention
\* removes it first.
EventuallyShipped == \A i \in Entries : [](i <= logged => <>Settled(i))

\* Only the backlog of the first run is skipped: an agent forwards the entries
\* logged from then on.
SkipsOnlyFirstBacklog == skipped <= first
=============================================================================
