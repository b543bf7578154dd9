------------------------------ MODULE PipePool ------------------------------
(***************************************************************************)
(* The pool of pipelined connections to one stream upstream.               *)
(*                                                                         *)
(* A query reserves a slot on the connection with the fewest queries,      *)
(* opens another when all are at the limit, or waits for one to be freed.  *)
(* It sends its message under an ID that is unique on the connection and   *)
(* waits for the reply under that ID, which the connection's reader hands  *)
(* over.  A connection that fails fails every query waiting on it; those   *)
(* whose connection was dropped try again.  The pool learns how many       *)
(* queries the server takes on one connection: the limit grows with        *)
(* success and shrinks when the server drops a busy connection.            *)
(*                                                                         *)
(* Steps are the sections under the pool's or a connection's mutex, the    *)
(* dial, the write, and what the server does.  Time is what has run out.   *)
(***************************************************************************)
EXTENDS Integers, Sequences, FiniteSets, FiniteSetsExt

CONSTANTS
  PoolQueries,    \* queries, each with a goroutine of its own
  NoQuery,
  StartInflight,  \* pipeStartInflight
  MaxInflight,    \* pipeMaxInflight
  Capacity,       \* pipeCapacity
  MinConns,       \* pipeMinConns
  MaxDials,       \* pipeMaxDials
  Attempts,       \* pipeAttempts
  FirstID,        \* the ID a connection draws to start with
  MaxOpened       \* bound: connections that are opened

\* An ID has two octets.
IDCount == 65536

ASSUME PoolAssumption ==
  /\ StartInflight \in 1 .. MaxInflight /\ MaxInflight \in Nat /\ MaxInflight < IDCount
  /\ Capacity \in Nat \ {0} /\ MinConns \in Nat \ {0} /\ MaxDials \in Nat \ {0}
  /\ Attempts \in Nat \ {0} /\ FirstID \in 0 .. IDCount - 1 /\ MaxOpened \in Nat
  /\ NoQuery \notin PoolQueries

Conns == 1 .. MaxOpened

VARIABLES
  conns,      \* the connections of the pool
  dialing,    \* who is opening a connection
  backoff,    \* a dial failed less than a moment ago
  limit, learned, grown, ceiling,   \* what was learned; ceiling: 0 when it is over
  conn,       \* the connections: slots, messages, whether they are alive
  wire,       \* the messages a server has and may answer yet
  query       \* the queries

ppVars == <<conns, dialing, backoff, limit, learned, grown, ceiling, conn, wire, query>>

NewConn == [load |-> 0, counted |-> FALSE, pending |-> {}, nextID |-> FirstID,
            dead |-> "no", age |-> "warm", cuts |-> 0]
Fresh   == [at |-> "get", attempt |-> 1, conn |-> 0, fresh |-> FALSE, atLimit |-> FALSE, suspect |-> FALSE,
            unheard |-> FALSE, id |-> 0, inbox |-> <<>>, res |-> "none", from |-> NoQuery]
\* What a query that is over leaves behind.
Over(res, from) == [Fresh EXCEPT !.at = "done", !.res = res, !.from = from]

PpInit ==
  /\ conns = {} /\ dialing = {} /\ backoff = FALSE
  /\ limit = StartInflight /\ learned = FALSE /\ grown = 0 /\ ceiling = 0
  /\ conn = [c \in Conns |-> [NewConn EXCEPT !.dead = "unborn"]]
  /\ wire = {} /\ query = [q \in PoolQueries |-> Fresh]

maxLimitLocked == IF ceiling > 0 THEN ceiling ELSE MaxInflight
limitLocked    == Min({limit, maxLimitLocked})
maxConnsLocked == Max({MinConns, Min({Capacity, Capacity \div Max({1, limitLocked})})})
Alive(c)       == conn[c].dead = "no"

\* Changed: nobody is told that a slot is free.
TellsNobody(qs) == qs

\* signalLocked: whoever waits for a slot looks again.
signalLocked(qs) ==
  [q \in PoolQueries |-> IF qs[q].at = "wait" THEN [qs[q] EXCEPT !.at = "get", !.unheard = FALSE] ELSE qs[q]]

\* fail: every query still waiting on the connection gets nothing; a time-out
\* and a close of ours are no drop.
Fails(cs, c, err) == IF cs[c].dead = "no" THEN [cs EXCEPT ![c].dead = err, ![c].pending = {}] ELSE cs
Told(qs, c) ==
  [q \in PoolQueries |-> IF \E p \in conn[c].pending : p[2] = q
                         THEN [qs[q] EXCEPT !.inbox = Append(@, NoQuery)] ELSE qs[q]]

-----------------------------------------------------------------------------
(* get: one turn of its loop, under the pool's mutex.                      *)

\* The dead connections leave the pool, and so do those that are idle and went
\* quiet for so long that the server may have dropped them.
Silent  == {c \in conns : Alive(c) /\ conn[c].load = 0 /\ conn[c].age = "idle"}
Live    == {c \in conns : Alive(c)} \ Silent
Pruned  == [c \in Conns |-> IF c \in Silent THEN [conn[c] EXCEPT !.dead = "closed"] ELSE conn[c]]
leastLoadedLocked == {c \in Live : \A d \in Live : conn[c].load <= conn[d].load}

PoolKeeps == UNCHANGED <<limit, learned, grown, ceiling, wire>>

\* The query takes a slot on a connection that lives.
Reserves(q, c) ==
  /\ conns' = Live
  /\ conn' = [Pruned EXCEPT ![c].load = @ + 1]
  /\ query' = [query EXCEPT ![q].at = "send", ![q].conn = c, ![q].fresh = FALSE,
                 ![q].atLimit = conn[c].load + 1 >= limitLocked,
                 ![q].suspect = conn[c].age # "warm"]
  /\ UNCHANGED <<dialing, backoff>>

\* Nothing is open and the last dial has just failed.
FailsFast(q) ==
  /\ Live = {} /\ backoff /\ dialing = {}
  /\ query' = [query EXCEPT ![q] = Over("error", NoQuery)]

MayDial == Cardinality(Live) + Cardinality(dialing) < maxConnsLocked /\ Cardinality(dialing) < MaxDials

get(q) ==
  /\ query[q].at = "get"
  /\ \/ \E c \in leastLoadedLocked : conn[c].load < limitLocked /\ Reserves(q, c)
     \/ /\ \A c \in leastLoadedLocked : conn[c].load >= limitLocked
        /\ conns' = Live /\ conn' = Pruned /\ UNCHANGED backoff
        /\ \/ FailsFast(q) /\ UNCHANGED dialing
           \/ /\ ~(Live = {} /\ backoff /\ dialing = {}) /\ MayDial
              /\ dialing' = dialing \cup {q} /\ query' = [query EXCEPT ![q].at = "dial"]
           \/ /\ ~(Live = {} /\ backoff /\ dialing = {}) /\ ~MayDial
              /\ query' = [query EXCEPT ![q].at = "wait"] /\ UNCHANGED dialing
  /\ PoolKeeps

\* The dial is over: its connection joins the pool with this query on it.
DialSucceeds(q) ==
  /\ query[q].at = "dial"
  /\ dialing' = dialing \ {q} /\ backoff' = FALSE
  /\ \E c \in Conns :
       /\ conn[c].dead = "unborn" /\ \A d \in Conns : d < c => conn[d].dead # "unborn"
       /\ conns' = conns \cup {c} /\ conn' = [conn EXCEPT ![c] = [NewConn EXCEPT !.load = 1]]
       /\ query' = [signalLocked(query) EXCEPT ![q].at = "send", ![q].conn = c, ![q].fresh = TRUE,
                      ![q].suspect = FALSE, ![q].atLimit = limitLocked <= 1]
  /\ PoolKeeps

\* It failed: the query is over if nothing is open, else it waits, whether a
\* slot was freed meanwhile or not.
DialFails(q) ==
  /\ query[q].at = "dial"
  /\ dialing' = dialing \ {q} /\ backoff' = TRUE
  /\ query' = IF conns = {} THEN [signalLocked(query) EXCEPT ![q] = Over("error", NoQuery)]
                            ELSE [signalLocked(query) EXCEPT ![q].at = "wait", ![q].unheard = TRUE]
  /\ PoolKeeps /\ UNCHANGED <<conns, conn>>

\* The query's own time is over before there is a slot.
PoolIsBusy(q) ==
  /\ query[q].at = "wait" /\ query' = [query EXCEPT ![q] = Over("busy", NoQuery)]
  /\ PoolKeeps /\ UNCHANGED <<conns, conn, dialing, backoff>>

-----------------------------------------------------------------------------
(* pipeConn.exchange and the reader.                                       *)

PoolSame == UNCHANGED <<conns, dialing, backoff, limit, learned, grown, ceiling>>

Used(c) == {p[1] : p \in conn[c].pending}

\* The first ID from an ID on that nobody uses.
NextFree(c, from) ==
  (from + Min({d \in 0 .. MaxInflight : (from + d) % IDCount \notin Used(c)})) % IDCount

FreeID(c) == NextFree(c, conn[c].nextID)

\* The query's entry is made and its message written.  A connection that fails
\* between the two fails the query as one that failed before.
Sends(q) ==
  /\ query[q].at = "send"
  /\ LET c  == query[q].conn
         id == FreeID(c)
     IN \/ /\ ~Alive(c) /\ query' = [query EXCEPT ![q].at = "held", ![q].res = conn[c].dead]
           /\ UNCHANGED <<conn, wire>>
        \/ /\ Alive(c) /\ wire' = wire \cup {<<c, id, q>>}
           /\ conn' = [conn EXCEPT ![c].pending = @ \cup {<<id, q>>}, ![c].nextID = (id + 1) % IDCount]
           /\ query' = [query EXCEPT ![q].at = "sent", ![q].id = id]
        \/ \E err \in {"dropped", "closed"} :   \* it cannot be written
             /\ Alive(c) /\ conn' = Fails(conn, c, err) /\ wire' = {m \in wire : m[1] # c}
             /\ query' = [Told(query, c) EXCEPT ![q].at = "held", ![q].res = err]
  /\ PoolSame

\* The server answers: the reader hands the reply to whoever waits under its
\* ID, if anyone still does.
readLoop(m) ==
  /\ m \in wire /\ Alive(m[1]) /\ wire' = wire \ {m}
  /\ LET c == m[1]
     IN /\ conn' = [conn EXCEPT ![c].pending = {p \in @ : p[1] # m[2]}, ![c].age = "warm"]
        /\ query' = [q \in PoolQueries |-> IF <<m[2], q>> \in conn[c].pending
                                           THEN [query[q] EXCEPT !.inbox = Append(@, m[3])] ELSE query[q]]
  /\ PoolSame

\* The server, or a box on the way, drops the connection.
fail(c) ==
  /\ c \in Conns /\ Alive(c)
  /\ conn' = Fails(conn, c, "dropped") /\ query' = Told(query, c)
  /\ wire' = {m \in wire : m[1] # c}
  /\ PoolSame

Receives(q) ==
  /\ query[q].at = "sent" /\ query[q].inbox # <<>>
  /\ LET from == Head(query[q].inbox)
     IN query' = [query EXCEPT ![q].at = "held", ![q].from = from,
                    ![q].res = IF from = NoQuery THEN conn[query[q].conn].dead ELSE "ok"]
  /\ PoolSame /\ UNCHANGED <<conn, wire>>

\* The time for the reply is over; a connection that had gone quiet is closed.
TimesOut(q) ==
  /\ query[q].at = "sent"
  /\ LET c   == query[q].conn
         cut == [conn EXCEPT ![c].pending = {p \in @ : p[1] # query[q].id}]
     IN /\ conn' = IF query[q].suspect THEN Fails(cut, c, "closed") ELSE cut
        /\ query' = [(IF query[q].suspect /\ Alive(c) THEN Told(query, c) ELSE query)
                       EXCEPT ![q].at = "held", ![q].res = "timeout", ![q].inbox = <<>>]
        /\ wire' = {m \in wire : conn'[m[1]].dead = "no"}
  /\ PoolSame

-----------------------------------------------------------------------------
(* release, and whether there is another try.                              *)

Again(q) == query[q].attempt < Attempts
            /\ (query[q].res \in {"dropped", "closed"} \/ (query[q].res = "timeout" /\ query[q].suspect))
Released(q) == IF Again(q) THEN [Fresh EXCEPT !.attempt = query[q].attempt + 1]
               ELSE Over(query[q].res, query[q].from)

\* One adjustment for each connection that is dropped.
CutsOnce(c, inflight) == inflight >= 2 /\ ~conn[c].counted

Grows(q) ==
  IF query[q].res # "ok" \/ ~query[q].atLimit THEN UNCHANGED <<limit, grown>>
  ELSE IF grown + 1 < limit THEN grown' = grown + 1 /\ UNCHANGED limit
  ELSE /\ grown' = 0
       /\ limit' = Min({IF learned THEN limit + 1 ELSE limit * 2, maxLimitLocked})

release(q) ==
  /\ query[q].at = "held"
  /\ LET c        == query[q].conn
         inflight == conn[c].load
     IN IF query[q].res = "dropped" /\ CutsOnce(c, inflight)
        THEN /\ conn' = [conn EXCEPT ![c].load = @ - 1, ![c].counted = TRUE, ![c].cuts = @ + 1]
             /\ learned' = TRUE /\ grown' = 0
             /\ limit' = Max({1, inflight \div 2}) /\ ceiling' = Max({1, inflight - 1})
        ELSE conn' = [conn EXCEPT ![c].load = @ - 1] /\ Grows(q) /\ UNCHANGED <<learned, ceiling>>
  /\ query' = [signalLocked(query) EXCEPT ![q] = Released(q)]
  /\ UNCHANGED <<conns, dialing, backoff, wire>>

-----------------------------------------------------------------------------
(* Time.                                                                   *)

CeilingEnds == /\ ceiling > 0 /\ ceiling' = 0
               /\ UNCHANGED <<conns, dialing, backoff, limit, learned, grown, conn, wire, query>>
BackoffEnds == /\ backoff /\ backoff' = FALSE
               /\ UNCHANGED <<conns, dialing, limit, learned, grown, ceiling, conn, wire, query>>
GoesQuiet(c) ==
  /\ Alive(c) /\ conn[c].age # "idle"
  /\ conn' = [conn EXCEPT ![c].age = IF @ = "warm" THEN "suspect" ELSE "idle"]
  /\ PoolSame /\ UNCHANGED <<wire, query>>

exchange(q) == \/ get(q) \/ DialSucceeds(q) \/ DialFails(q) \/ PoolIsBusy(q) \/ Sends(q) \/ Receives(q)
               \/ TimesOut(q) \/ release(q)

PpNext == \/ \E q \in PoolQueries : exchange(q)
          \/ \E m \in wire : readLoop(m)
          \/ \E c \in Conns : fail(c) \/ GoesQuiet(c)
          \/ CeilingEnds \/ BackoffEnds

PpSpec == PpInit /\ [][PpNext]_ppVars

-----------------------------------------------------------------------------
(* Properties.                                                             *)

Holding(c) == {q \in PoolQueries : query[q].at \in {"send", "sent", "held"} /\ query[q].conn = c}

\* A slot is held by exactly the queries that use the connection, however they
\* end, so no slot leaks and none is freed twice.
LoadIsSlots == \A c \in Conns : conn[c].load = Cardinality(Holding(c))

\* A reply goes to the query that asked: also the late one to a query that gave
\* up, on a connection others use by then.  A channel never gets a second
\* message, so neither the reader nor a failing connection blocks on it.
RepliesReachTheirQuery == \A q \in PoolQueries :
  /\ query[q].res = "ok" => query[q].from = q
  /\ Len(query[q].inbox) <= 1
  /\ \A c \in Conns : \A p \in conn[c].pending :
       p[2] = q => query[q].at = "sent" /\ query[q].conn = c /\ query[q].id = p[1]

\* A dropped connection lowers the limit once, whatever number of queries were
\* on it; while a limit that failed is remembered, no growth reaches it.
LimitLearned ==
  /\ \A c \in Conns : conn[c].cuts <= 1
  /\ limit \in 1 .. MaxInflight /\ (ceiling > 0 => limit <= ceiling)
  /\ \A c \in Conns : conn[c].load <= MaxInflight

\* A query waits only while it has to: while every connection that lives is at
\* the limit, and no other may be opened or a query is about to give back its
\* slot on a dropped connection, which wakes it.  The exception is the query
\* whose own dial failed: it waits without a look at what was freed meanwhile.
NoneStranded == \A q \in PoolQueries : query[q].at = "wait" /\ ~query[q].unheard =>
  /\ \A c \in conns : Alive(c) => conn[c].load >= limitLocked
  /\ \/ Cardinality(conns) + Cardinality(dialing) >= maxConnsLocked
     \/ Cardinality(dialing) >= MaxDials
     \/ \E p \in PoolQueries : query[p].at \in {"send", "sent", "held"} /\ ~Alive(query[p].conn)

\* The parts above, of the pool's slots, replies, limit and waiting queries.
PoolInv == LoadIsSlots /\ RepliesReachTheirQuery /\ LimitLearned /\ NoneStranded
=============================================================================
