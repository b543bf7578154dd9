---------------------------- MODULE LogConsumers ----------------------------
(***************************************************************************)
(* What the control plane does with the query log its resolvers ship.      *)
(*                                                                         *)
(* Each shipped batch is inserted by a transaction of its own handler.     *)
(* Two consumers follow the log by id.  The rollup folds the rows between  *)
(* its cursor and the highest id, at most a chunk of ids at a time, into   *)
(* several aggregate tables, in one transaction that also moves the        *)
(* cursor.  The exporter reads the rows past its own cursor, sends them to *)
(* VictoriaLogs, and moves the cursor in memory and then in the database.  *)
(*                                                                         *)
(* An id is taken when a row is inserted and becomes visible when its      *)
(* transaction commits.  With SQLite the store has one connection to write *)
(* through, so transactions are serial; with PostgreSQL they are not, and  *)
(* each statement of a transaction sees what has committed by then.        *)
(* Aggregates are kept per row: how often a table has counted it.          *)
(***************************************************************************)
EXTENDS Integers, FiniteSets

CONSTANTS
  Handlers,   \* clusterLog requests, each inserting one batch
  NTables,    \* rollup tables, folded in order
  Chunk,      \* ids one advance of the rollup covers at most
  ExportMax,  \* rows one request of the exporter carries at most
  Serial,     \* TRUE with SQLite, FALSE with PostgreSQL
  Failures,   \* which failures happen, of the ones below
  MaxRows,    \* bound: ids taken in a behaviour
  MaxFailures \* bound: failures in a behaviour

AllFailures == {"abort",   \* a transaction fails before its commit
                "crash",   \* the control plane stops at any point
                "send",    \* a post to VictoriaLogs fails or its answer is lost
                "save",    \* the exporter's cursor is not saved
                "read",    \* the exporter's cursor cannot be read at start
                "cursor"}  \* the rollup's cursor cannot be read

ASSUME ConsumersAssumption ==
  /\ NTables \in Nat \ {0} /\ Chunk \in Nat \ {0} /\ ExportMax \in Nat \ {0}
  /\ Serial \in BOOLEAN /\ Failures \subseteq AllFailures
  /\ MaxRows \in Nat /\ MaxFailures \in Nat

VARIABLES
  taken,     \* ids 1..taken have been taken
  tx,        \* tx[h] is the state of handler h's transaction
  own,       \* own[h] is the ids of its rows
  log,       \* the committed rows
  rolled,    \* the rollup's cursor in the database
  counted,   \* counted[t][i] is how often rollup table t counts row i
  roll,      \* the rollup: control state, the range it folds, and its tables
  sent,      \* rows the exporter sent
  held,      \* rows the privacy filter kept back
  exporter,  \* the exporter: control state, cursor, and the rows it read
  savedAt,   \* the exporter's cursor in the database
  skippedTo, \* history: the last row an exporter skipped as backlog
  failures   \* failures so far

inserts == <<taken, tx, own, log>>
folded  == <<rolled, counted>>
export  == <<sent, held, exporter, savedAt, skippedTo>>
lcVars  == <<inserts, folded, roll, export, failures>>

Ids    == 1 .. MaxRows
Tables == 1 .. NTables

IsLast(m, S) == m \in S /\ \A i \in S : i <= m

Resting   == [pc |-> "idle", from |-> 0, upto |-> 0, at |-> 0, part |-> [t \in Tables |-> {}]]
Unstarted == [pc |-> "unborn", cursor |-> 0, batch |-> {}]

LcInit ==
  /\ taken = 0 /\ log = {}
  /\ tx = [h \in Handlers |-> "none"] /\ own = [h \in Handlers |-> {}]
  /\ rolled = 0 /\ counted = [t \in Tables |-> [i \in Ids |-> 0]]
  /\ roll = Resting
  /\ sent = {} /\ held = {} /\ exporter = Unstarted
  /\ savedAt = 0 /\ skippedTo = 0
  /\ failures = 0

Fails(f) == f \in Failures /\ failures < MaxFailures /\ failures' = failures + 1

\* The write connection of SQLite is free.
Free == Serial => roll.pc # "folding" /\ \A h \in Handlers : tx[h] # "open"

-----------------------------------------------------------------------------
(* InsertNodeQueryLog.                                                     *)

BeginInsert(h) ==
  /\ tx[h] = "none" /\ taken < MaxRows /\ Free
  /\ tx' = [tx EXCEPT ![h] = "open"]
  /\ UNCHANGED <<taken, own, log, folded, roll, export, failures>>

InsertRow(h) ==
  /\ tx[h] = "open" /\ taken < MaxRows
  /\ taken' = taken + 1
  /\ own' = [own EXCEPT ![h] = @ \cup {taken + 1}]
  /\ UNCHANGED <<tx, log, folded, roll, export, failures>>

CommitInsert(h) ==
  /\ tx[h] = "open" /\ own[h] # {}
  /\ tx' = [tx EXCEPT ![h] = "done"]
  /\ log' = log \cup own[h]
  /\ UNCHANGED <<taken, own, folded, roll, export, failures>>

\* Rolled back.  SQLite takes the ids again and PostgreSQL does not; nobody can
\* tell, since no row of them was visible.
AbortInsert(h) ==
  /\ tx[h] = "open" /\ Fails("abort")
  /\ tx' = [tx EXCEPT ![h] = "done"]
  /\ own' = [own EXCEPT ![h] = {}]
  /\ UNCHANGED <<taken, log, folded, roll, export>>

-----------------------------------------------------------------------------
(* RollupAdvance, under rollupMu.                                          *)

\* Changed: an advance waits for a full chunk.
PlanFullChunk ==
  /\ roll.pc = "idle"
  /\ \E m \in log :
       /\ IsLast(m, log)
       /\ rolled + Chunk <= m
       /\ roll' = [roll EXCEPT !.pc = "planned", !.from = rolled, !.upto = rolled + Chunk]
  /\ UNCHANGED <<inserts, folded, export, failures>>

\* The cursor and the highest id are read.
Plan ==
  /\ roll.pc = "idle"
  /\ \E m \in log : \E from \in {rolled, 0} :
       /\ IsLast(m, log)
       /\ from < m
       /\ \/ from = rolled /\ UNCHANGED failures
          \/ from = 0 /\ rolled # 0 /\ Fails("cursor")
       /\ roll' = [roll EXCEPT !.pc = "planned", !.from = from,
                               !.upto = IF from + Chunk > m THEN m ELSE from + Chunk]
  /\ UNCHANGED <<inserts, folded, export>>

BeginFold ==
  /\ roll.pc = "planned" /\ Free
  /\ roll' = [roll EXCEPT !.pc = "folding", !.at = 0]
  /\ UNCHANGED <<inserts, folded, export, failures>>

\* One of rollupStatements.
Fold ==
  /\ roll.pc = "folding" /\ roll.at < NTables
  /\ roll' = [roll EXCEPT !.at = @ + 1,
                          !.part[roll.at + 1] = {i \in log : roll.from < i /\ i <= roll.upto}]
  /\ UNCHANGED <<inserts, folded, export, failures>>

\* Changed: the cursor is not moved by the transaction.
CommitFoldOnly ==
  /\ roll.pc = "folding" /\ roll.at = NTables
  /\ counted' = [t \in Tables |-> [i \in Ids |->
                   IF i \in roll.part[t] THEN counted[t][i] + 1 ELSE counted[t][i]]]
  /\ roll' = Resting
  /\ UNCHANGED <<inserts, rolled, export, failures>>

CommitFold ==
  /\ roll.pc = "folding" /\ roll.at = NTables
  /\ counted' = [t \in Tables |-> [i \in Ids |->
                   IF i \in roll.part[t] THEN counted[t][i] + 1 ELSE counted[t][i]]]
  /\ rolled' = roll.upto
  /\ roll' = Resting
  /\ UNCHANGED <<inserts, export, failures>>

AbortFold ==
  /\ roll.pc \in {"planned", "folding"} /\ Fails("abort")
  /\ roll' = Resting
  /\ UNCHANGED <<inserts, folded, export>>

-----------------------------------------------------------------------------
(* The exporter to VictoriaLogs.                                           *)

\* NewExporter: resume at the saved cursor ...
ResumeExport ==
  /\ savedAt # 0
  /\ exporter' = [exporter EXCEPT !.pc = "idle", !.cursor = savedAt]
  /\ UNCHANGED <<savedAt, skippedTo, failures>>

\* ... or, without one, skip the backlog and save its end ...
SkipOlder ==
  \E m \in log \cup {0} :
    /\ IsLast(m, log \cup {0})
    /\ exporter' = [exporter EXCEPT !.pc = "idle", !.cursor = m]
    /\ skippedTo' = IF m > skippedTo THEN m ELSE skippedTo
    /\ \/ savedAt = 0 /\ Free /\ savedAt' = m /\ UNCHANGED failures
       \/ savedAt = 0 /\ UNCHANGED savedAt /\ Fails("save")
       \/ Free /\ savedAt' = m /\ Fails("read")

\* ... or, if neither can be read, export from the start.
ExportBacklog ==
  /\ Fails("read")
  /\ exporter' = [exporter EXCEPT !.pc = "idle", !.cursor = 0]
  /\ UNCHANGED <<savedAt, skippedTo>>

NewExporter ==
  /\ exporter.pc = "unborn"
  /\ ResumeExport \/ SkipOlder \/ ExportBacklog
  /\ UNCHANGED <<inserts, folded, roll, sent, held>>

\* QueryLogSince: the oldest rows past the cursor.
RowsPast(after) ==
  LET past == {i \in log : i > after}
  IN  {i \in past : Cardinality({j \in past : j <= i}) <= ExportMax}

ReadExport ==
  /\ exporter.pc = "idle"
  /\ RowsPast(exporter.cursor) # {}
  /\ exporter' = [exporter EXCEPT !.pc = "read", !.batch = RowsPast(exporter.cursor)]
  /\ UNCHANGED <<inserts, folded, roll, sent, held, savedAt, skippedTo, failures>>

\* Changed: the cursor moves to the newest row there is.
SendToNewest ==
  /\ exporter.pc = "read"
  /\ sent' = sent \cup exporter.batch
  /\ held' = held
  /\ \E m \in log : IsLast(m, log) /\ exporter' = [exporter EXCEPT !.pc = "sent", !.cursor = m]
  /\ UNCHANGED <<inserts, folded, roll, savedAt, skippedTo, failures>>

\* ship: what the privacy filter leaves is posted; it may leave nothing.
Send ==
  /\ exporter.pc = "read"
  /\ \E out \in SUBSET exporter.batch :
       /\ sent' = sent \cup out
       /\ held' = held \cup (exporter.batch \ out)
  /\ \E m \in exporter.batch :
       /\ IsLast(m, exporter.batch)
       /\ exporter' = [exporter EXCEPT !.pc = "sent", !.cursor = m]
  /\ UNCHANGED <<inserts, folded, roll, savedAt, skippedTo, failures>>

\* The post fails, perhaps after VictoriaLogs has taken the rows.
SendFails ==
  /\ exporter.pc = "read" /\ Fails("send")
  /\ \E out \in {{}, exporter.batch} : sent' = sent \cup out
  /\ exporter' = [exporter EXCEPT !.pc = "idle", !.batch = {}]
  /\ UNCHANGED <<inserts, folded, roll, held, savedAt, skippedTo>>

SaveExport ==
  /\ exporter.pc = "sent"
  /\ \/ Free /\ savedAt' = exporter.cursor /\ UNCHANGED failures
     \/ UNCHANGED savedAt /\ Fails("save")
  /\ exporter' = [exporter EXCEPT !.pc = "idle", !.batch = {}]
  /\ UNCHANGED <<inserts, folded, roll, sent, held, skippedTo>>

-----------------------------------------------------------------------------

\* The control plane stops: open transactions are rolled back.
CrashCP ==
  /\ Fails("crash")
  /\ tx' = [h \in Handlers |-> IF tx[h] = "open" THEN "done" ELSE tx[h]]
  /\ own' = [h \in Handlers |-> IF tx[h] = "open" THEN {} ELSE own[h]]
  /\ roll' = Resting
  /\ exporter' = Unstarted
  /\ UNCHANGED <<taken, log, folded, sent, held, savedAt, skippedTo>>

Insert(h)  == BeginInsert(h) \/ InsertRow(h) \/ CommitInsert(h)
RollupStep == Plan \/ BeginFold \/ Fold \/ CommitFold
ExportStep == NewExporter \/ ReadExport \/ Send \/ SaveExport

LcNext ==
  \/ \E h \in Handlers : Insert(h) \/ AbortInsert(h)
  \/ RollupStep \/ AbortFold
  \/ ExportStep \/ SendFails
  \/ CrashCP

LcSpec == LcInit /\ [][LcNext]_lcVars

\* The rollup's loop runs on, connections are granted in the order they are
\* asked for, and no handler keeps its transaction open for ever.
LcFairSpec ==
  /\ LcSpec
  /\ SF_lcVars(RollupStep)
  /\ \A h \in Handlers : WF_lcVars(InsertRow(h) \/ CommitInsert(h))

-----------------------------------------------------------------------------
(* Properties.                                                             *)

Rolls ==
  [pc: {"idle", "planned", "folding"}, from: 0 .. taken, upto: 0 .. taken,
   at: 0 .. NTables, part: [Tables -> SUBSET (1 .. taken)]]
Exporters ==
  [pc: {"unborn", "idle", "read", "sent"}, cursor: 0 .. taken, batch: SUBSET (1 .. taken)]

LcTypeOK ==
  /\ taken \in 0 .. MaxRows /\ log \subseteq 1 .. taken
  /\ tx \in [Handlers -> {"none", "open", "done"}] /\ own \in [Handlers -> SUBSET (1 .. taken)]
  /\ rolled \in 0 .. taken /\ counted \in [Tables -> [Ids -> Nat]]
  /\ roll \in Rolls
  /\ sent \subseteq 1 .. taken /\ held \subseteq 1 .. taken
  /\ exporter \in Exporters
  /\ savedAt \in 0 .. taken /\ skippedTo \in 0 .. taken /\ failures \in 0 .. MaxFailures

\* Every row the rollup's cursor has passed is counted exactly once in every
\* table, and no other row is counted at all, wherever batches are inserted,
\* transactions fail and the control plane stops.
CountedExactlyOnce ==
  \A t \in Tables : \A i \in Ids :
    counted[t][i] = IF i \in log /\ i <= rolled THEN 1 ELSE 0

\* The exporter's cursor passes no row that it has not sent, kept back or
\* skipped.
ExportsEveryRow ==
  \A i \in log : i <= savedAt \/ i <= exporter.cursor =>
    i \in sent \/ i \in held \/ i <= skippedTo

\* Every row gets counted.
EventuallyCounted == \A i \in Ids : [](i \in log => <>(\A t \in Tables : counted[t][i] > 0))
=============================================================================
