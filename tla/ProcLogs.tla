------------------------------ MODULE ProcLogs ------------------------------
(***************************************************************************)
(* The process log of a resolver, from its ring to the control plane.      *)
(*                                                                         *)
(* The resolver keeps its last lines in a ring, numbered from 1 at every   *)
(* boot, and ships those above its cursor in each cycle.  The control      *)
(* plane keeps a ring for each node, and tells lines it has by the boot    *)
(* they are from and their number.  Rings and cursors live in memory.  The *)
(* resolver's ring is modelled slot by slot; the control plane's is one of *)
(* the same type, of which only what it holds is kept.                     *)
(*                                                                         *)
(* A line is the boot and the number it got.  A request can be lost before *)
(* or after it was handled, or arrive after the resolver gave up on it.    *)
(***************************************************************************)
EXTENDS Naturals, Sequences, FiniteSets, SequencesExt, Selection

CONSTANTS
  RingCap,        \* lines a ring holds
  NodeCap,        \* nodeProcLogCap
  ProcLogBatch,   \* procLogBatch
  MaxLines,       \* bound: lines logged in a boot
  MaxBoots,       \* bound: boots of the resolver
  MaxLate,        \* bound: batches on their way after they were given up
  MaxForgets      \* bound: restarts of the control plane, removals of the node

ASSUME ProcLogsAssumption ==
  /\ RingCap \in Nat \ {0} /\ NodeCap \in Nat \ {0} /\ ProcLogBatch \in Nat \ {0}
  /\ MaxLines \in Nat /\ MaxBoots \in Nat \ {0} /\ MaxForgets \in Nat /\ MaxLate \in Nat

VARIABLES
  boot, ring, nextSeq,   \* the resolver's boot, its ring and its last number
  procLogCursor,
  sending,               \* the batch that is on its way, <<>> if none
  late,                  \* batches that were given up and may arrive yet
  nodeLog,               \* nodeProcLog: the lines of the ring, the boot and the last number
  forgets, forgotten,    \* forgotten: lines that had landed when the log was last forgotten
  landed, refused, evicted,   \* lines that reached the control plane, were refused, fell out of the ring
  crossed                \* a batch landed after one of a later boot

plVars == <<boot, ring, nextSeq, procLogCursor, sending, late, nodeLog, forgets, forgotten, landed, refused, evicted, crossed>>

NoLine   == [boot |-> 0, seq |-> 0]
Empty(cap) == [slots |-> [i \in 0 .. cap - 1 |-> NoLine], start |-> 0, count |-> 0]
NewLog   == [lines |-> <<>>, bootID |-> 0, lastSeq |-> 0]

-----------------------------------------------------------------------------
(* logbuf.Buffer.                                                          *)

put(b, cap, e) ==
  IF b.count < cap
  THEN [b EXCEPT !.slots[(b.start + b.count) % cap] = e, !.count = @ + 1]
  ELSE [slots |-> [b.slots EXCEPT ![b.start] = e], start |-> (b.start + 1) % cap, count |-> b.count]

\* What the ring holds, the oldest line first.
All(b, cap) == [i \in 1 .. b.count |-> b.slots[(b.start + i - 1) % cap]]

\* The first max lines above a number.
Since(b, cap, after, max) ==
  LET above == Chosen(All(b, cap), {i \in 1 .. b.count : All(b, cap)[i].seq > after})
  IN  SubSeq(above, 1, IF Len(above) < max THEN Len(above) ELSE max)

\* What a ring keeps of lines put into it one after another.
Newest(lines, cap) == IF Len(lines) <= cap THEN lines ELSE SubSeq(lines, Len(lines) - cap + 1, Len(lines))

-----------------------------------------------------------------------------

PlInit ==
  /\ boot = 1 /\ ring = Empty(RingCap) /\ nextSeq = 0 /\ procLogCursor = 0
  /\ sending = <<>> /\ late = {} /\ nodeLog = NewLog /\ forgets = 0 /\ forgotten = {}
  /\ landed = {} /\ refused = {} /\ evicted = {} /\ crossed = FALSE

\* Buffer.Append, of any goroutine that logs.
Handle ==
  /\ nextSeq < MaxLines /\ nextSeq' = nextSeq + 1
  /\ ring' = put(ring, RingCap, [boot |-> boot, seq |-> nextSeq + 1])
  /\ evicted' = evicted \cup {e \in ToSet(All(ring, RingCap)) : e \notin ToSet(All(ring', RingCap))}
  /\ UNCHANGED <<boot, procLogCursor, sending, late, nodeLog, forgets, forgotten, landed, refused, crossed>>

\* The batch: as many of the next lines as fit the budget of bytes, one at least.
Sends ==
  /\ sending = <<>>
  /\ LET entries == Since(ring, RingCap, procLogCursor, ProcLogBatch)
     IN \E k \in 1 .. Len(entries) : sending' = SubSeq(entries, 1, k)
  /\ UNCHANGED <<boot, ring, nextSeq, procLogCursor, late, nodeLog, forgets, forgotten, landed, refused, evicted, crossed>>

\* The lines above a number are put into the ring.
Added(log, id, known, entries) ==
  LET new == Chosen(entries, {i \in DOMAIN entries : entries[i].seq > known})
  IN  [lines   |-> Newest(log.lines \o new, NodeCap),
       bootID  |-> id,
       lastSeq |-> IF new = <<>> THEN known ELSE Last(new).seq]

\* Changed: the boot is not looked at.
IngestBySeq(log, id, entries) == Added(log, id, log.lastSeq, entries)

\* ingest: lines the control plane has from this boot are left out.
ingest(log, id, entries) == Added(log, id, IF log.bootID = id THEN log.lastSeq ELSE 0, entries)

\* clusterProcLog: the lines of one request are taken in.
Ingests(entries) ==
  /\ nodeLog' = ingest(nodeLog, Head(entries).boot, entries)
  /\ landed' = landed \cup ToSet(entries)
  /\ crossed' = (crossed \/ \E e \in landed : e.boot > Head(entries).boot)

\* What the resolver does with the status: refused lines are skipped, for they
\* would be refused again.
shipProcLogs(status) ==
  /\ procLogCursor' = IF status \in {"ok", "refused"} THEN Last(sending).seq ELSE procLogCursor
  /\ sending' = <<>>

Delivered ==
  /\ sending # <<>> /\ Ingests(sending)
  /\ \E status \in {"ok", "lost"} : shipProcLogs(status)
  /\ UNCHANGED <<boot, ring, nextSeq, late, forgets, forgotten, refused, evicted>>

\* A control plane without the endpoint, or one that rejects the batch.
Refused ==
  /\ sending # <<>> /\ shipProcLogs("refused") /\ refused' = refused \cup ToSet(sending)
  /\ UNCHANGED <<boot, ring, nextSeq, late, nodeLog, forgets, forgotten, landed, evicted, crossed>>

\* A request that nobody waits for is lost, or is on its way for a while.
LetGo(entries) ==
  \/ UNCHANGED late
  \/ entries # <<>> /\ Cardinality(late) < MaxLate /\ late' = late \cup {entries}

\* The resolver gives up; the request is gone, or arrives some time.
GivesUp ==
  /\ sending # <<>> /\ shipProcLogs("error")
  /\ LetGo(sending)
  /\ UNCHANGED <<boot, ring, nextSeq, nodeLog, forgets, forgotten, landed, refused, evicted, crossed>>

ArrivesLate(entries) ==
  /\ late' = late \ {entries} /\ Ingests(entries)
  /\ UNCHANGED <<boot, ring, nextSeq, procLogCursor, sending, forgets, forgotten, refused, evicted>>

\* A restart: everything the resolver knew of its log is gone.
Reboots ==
  /\ boot < MaxBoots /\ boot' = boot + 1
  /\ ring' = Empty(RingCap) /\ nextSeq' = 0 /\ procLogCursor' = 0 /\ sending' = <<>>
  /\ LetGo(sending)
  /\ UNCHANGED <<nodeLog, forgets, forgotten, landed, refused, evicted, crossed>>

\* The node is removed, or the control plane restarts.
forget ==
  /\ forgets < MaxForgets /\ forgets' = forgets + 1 /\ nodeLog' = NewLog /\ forgotten' = landed
  /\ UNCHANGED <<boot, ring, nextSeq, procLogCursor, sending, late, landed, refused, evicted, crossed>>

PlNext == Handle \/ Sends \/ Delivered \/ Refused \/ GivesUp \/ Reboots \/ forget
          \/ \E entries \in late : ArrivesLate(entries)

PlSpec == PlInit /\ [][PlNext]_plVars

-----------------------------------------------------------------------------
(* Properties.                                                             *)

\* A ring holds exactly the last lines that were logged, in their order,
\* wherever it wrapped.
RingKeepsLast ==
  /\ All(ring, RingCap) = [i \in 1 .. ring.count |-> [boot |-> boot, seq |-> nextSeq - ring.count + i]]
  /\ ring.count = IF nextSeq < RingCap THEN nextSeq ELSE RingCap

\* What the dashboard shows of a boot is in order and without repetitions,
\* although batches are sent again when an answer is lost and arrive late,
\* unless one landed after a batch of a later boot.
ShownOnce ==
  crossed \/ \A i, j \in DOMAIN nodeLog.lines :
    i < j /\ nodeLog.lines[i].boot = nodeLog.lines[j].boot => nodeLog.lines[i].seq < nodeLog.lines[j].seq

\* The cursor passes a line only if it reached the control plane, was refused
\* by it, or had fallen out of the ring.
CursorIsBacked == \A n \in 1 .. procLogCursor : [boot |-> boot, seq |-> n] \in landed \cup refused \cup evicted

\* A line that landed is shown until newer ones push it out or the node's log is
\* forgotten: numbers of another boot never hide it, whatever arrives late.  Lines
\* that were refused before, or that left the resolver's ring while they were on
\* their way, may be missing.
NothingHidden ==
  \/ Len(nodeLog.lines) = NodeCap
  \/ landed \ (refused \cup evicted \cup forgotten) \subseteq ToSet(nodeLog.lines)

\* The parts above, of the lines on their way from an agent to its viewer.
ProcLogsInv == RingKeepsLast /\ ShownOnce /\ CursorIsBacked /\ NothingHidden
=============================================================================
