----------------------------- MODULE ClientNames -----------------------------
(***************************************************************************)
(* The names of clients: those an operator gave, those of the Local DNS    *)
(* rewrites that point at an address, and those a reverse lookup found.    *)
(*                                                                         *)
(* The enricher holds a copy of the operator's names, an index of the      *)
(* rewrites and the node that serves each client, refreshed by a ticker    *)
(* and by the handlers that change something, and a cache of lookups.  A   *)
(* step is what happens between two calls of the store or under one mutex. *)
(* A rewrite is one name of one client for one node or for all; a tick is  *)
(* the ten minutes for which a failed lookup is kept.                      *)
(***************************************************************************)
EXTENDS Naturals, FiniteSets

CONSTANTS
  ClientIPs, Admins, NodeNames,
  Lookers,       \* requests that look clients up
  HostNames,     \* of clients
  Everywhere,    \* the scope of a rewrite that every node serves
  Master,        \* the control plane, in the map of resolvers
  Unnamed,
  Ticker,
  TTL,           \* ticks that a name found is kept
  MaxTime,       \* bound: ticks
  MaxEdits       \* bound: changes and failures

Scopes    == NodeNames \cup {Everywhere}
MaybeName == HostNames \cup {Unnamed}
Callers   == Admins \cup {Ticker}

ASSUME ClientNamesAssumption ==
  /\ TTL \in Nat \ {0} /\ {MaxTime, MaxEdits} \subseteq Nat
  /\ Everywhere \notin NodeNames /\ Master \notin NodeNames /\ Unnamed \notin HostNames /\ Ticker \notin Admins

VARIABLES
  client_names, rewrites,   \* the map in app_meta, the table
  ClientNodes,   \* which node serves a client, by the query log
  resolvers,     \* the nodes that have an internal resolver
  ptr, ptrAt,    \* what the resolver of a client's site says, and since when
  manual, cnode, index, rdns,   \* the enricher's copies and its cache
  calls,         \* of the ticker and the admins
  asking,        \* the lookups under way
  wanted,        \* history: what the operator last saved, for each client
  lost,          \* history: a save overwrote another, or the names could not be read
  crossing,      \* since the last refresh, saves that crossed each other or that refresh
  overlapped,    \* history: refreshes of the index overlapped, or one failed
  edits, time

tables  == <<client_names, rewrites, wanted, lost>>
enrich  == <<manual, cnode, index, rdns, crossing, overlapped>>
outside == <<ClientNodes, resolvers, ptr, ptrAt, time>>
nmVars  == <<tables, enrich, outside, calls, asking, edits>>

Nobody    == [c \in ClientIPs |-> Unnamed]
Idle      == [at |-> "idle", of |-> Unnamed, to |-> Unnamed, names |-> Nobody, cn |-> [c \in ClientIPs |-> Master], rows |-> {}]
NoIndex   == [all |-> {}, byNode |-> [n \in NodeNames |-> {}]]
NotAsking == [of |-> Unnamed, site |-> FALSE, since |-> 0, got |-> FALSE, name |-> Unnamed]

NmInit ==
  /\ client_names = Nobody /\ wanted = Nobody /\ rewrites = {} /\ resolvers = {} /\ ptrAt = [c \in ClientIPs |-> 0]
  /\ ClientNodes \in [ClientIPs -> NodeNames] /\ ptr \in [ClientIPs -> MaybeName]
  /\ manual = Nobody /\ cnode = [c \in ClientIPs |-> Master] /\ index = NoIndex
  /\ rdns = [c \in ClientIPs |-> [name |-> Unnamed, exp |-> 0]]
  /\ calls = [a \in Callers |-> Idle] /\ asking = [l \in Lookers |-> NotAsking]
  /\ lost = FALSE /\ crossing = FALSE /\ overlapped = FALSE /\ edits = 0 /\ time = 0

At(a, at) == calls[a].at = at
Calls(a, call) == calls' = [calls EXCEPT ![a] = call] /\ UNCHANGED <<asking, outside>>
Edit == edits < MaxEdits /\ edits' = edits + 1
Fails(failed) == (failed => edits < MaxEdits) /\ edits' = edits + (IF failed THEN 1 ELSE 0)

-----------------------------------------------------------------------------
(* A name is saved: SaveClientName reads the map, changes it and writes it *)
(* whole, then SetClientName changes the copy.                             *)

\* A read that fails finds no names.
LoadClientNames(a) ==
  /\ At(a, "idle") /\ Edit
  /\ \E c \in ClientIPs, n \in MaybeName, names \in {client_names, Nobody} :
       Calls(a, [Idle EXCEPT !.at = "save", !.of = c, !.to = n, !.names = names])
  /\ UNCHANGED <<tables, enrich>>

SaveClientName(a) ==
  /\ At(a, "save") /\ Calls(a, [calls[a] EXCEPT !.at = "copy"])
  /\ client_names' = [calls[a].names EXCEPT ![calls[a].of] = calls[a].to]
  /\ wanted' = [wanted EXCEPT ![calls[a].of] = calls[a].to]
  /\ lost' = (lost \/ calls[a].names # client_names)
  /\ crossing' = (crossing \/ calls[a].names # client_names)
  /\ UNCHANGED <<rewrites, manual, cnode, index, rdns, overlapped, edits>>

SetClientName(a) ==
  /\ At(a, "copy") /\ Calls(a, Idle)
  /\ manual' = [manual EXCEPT ![calls[a].of] = calls[a].to]
  /\ crossing' = (crossing \/ \E b \in Admins \ {a} : At(b, "copy") /\ calls[b].of = calls[a].of)
  /\ UNCHANGED <<tables, cnode, index, rdns, overlapped, edits>>

putClientName(a) == LoadClientNames(a) \/ SaveClientName(a) \/ SetClientName(a)

-----------------------------------------------------------------------------
(* The copies are refreshed, by the ticker or after a change.              *)

\* A failing read of the nodes keeps the old map.
Refreshes ==
  /\ At(Ticker, "idle")
  /\ \E names \in {client_names, Nobody}, cn \in {ClientNodes, cnode} :
       /\ Fails(names # client_names \/ cn # ClientNodes)
       /\ Calls(Ticker, [Idle EXCEPT !.at = "refresh", !.names = names, !.cn = cn])
  /\ UNCHANGED <<tables, enrich>>

refresh ==
  /\ At(Ticker, "refresh") /\ Calls(Ticker, [Idle EXCEPT !.at = "list"])
  /\ manual' = calls[Ticker].names /\ cnode' = calls[Ticker].cn
  /\ crossing' = (calls[Ticker].names # client_names \/ \E a \in Admins : At(a, "copy"))
  /\ UNCHANGED <<tables, index, rdns, overlapped, edits>>

\* A handler changes a rewrite, and afterChange refreshes the index.
ChangeRewrite(a) ==
  /\ At(a, "idle") /\ Edit /\ Calls(a, [Idle EXCEPT !.at = "list"])
  /\ \E r \in [of : ClientIPs, name : HostNames, scope : Scopes] :
       rewrites' = IF r \in rewrites THEN rewrites \ {r} ELSE rewrites \cup {r}
  /\ UNCHANGED <<client_names, wanted, lost, enrich>>

ListRewrites(a) ==
  /\ At(a, "list") /\ Calls(a, [calls[a] EXCEPT !.at = "build", !.rows = rewrites])
  /\ UNCHANGED <<tables, enrich, edits>>

\* FilterRewritesForNode: a name's row for the node, else the one for all.
FilterRewritesForNode(rows, n) ==
  {r \in rows : r.scope = n \/ (r.scope = Everywhere /\ ~\E s \in rows : s.scope = n /\ s.name = r.name)}
buildRewriteIndex(rows, nodes) ==
  [all |-> rows, byNode |-> [n \in NodeNames |-> IF n \in nodes THEN FilterRewritesForNode(rows, n) ELSE {}]]

\* The nodes may not be read; the rows that were read may be old by now.
RefreshRewrites(a) ==
  /\ At(a, "build") /\ Calls(a, Idle)
  /\ \E nodes \in {NodeNames, {}} :
       /\ Fails(nodes = {}) /\ index' = buildRewriteIndex(calls[a].rows, nodes)
       /\ overlapped' = (overlapped \/ nodes = {} \/ \E b \in Callers \ {a} : At(b, "build"))
  /\ UNCHANGED <<tables, manual, cnode, rdns, crossing>>

CallFails(a) ==
  /\ calls[a].at \in {"save", "list"} /\ Edit /\ Calls(a, Idle)
  /\ overlapped' = (overlapped \/ At(a, "list"))
  /\ UNCHANGED <<tables, manual, cnode, index, rdns, crossing>>

-----------------------------------------------------------------------------
(* A client is looked up.                                                  *)

NamesIn(rows, c) == {r.name : r \in {s \in rows : s.of = c}}
rewriteNames(c) ==
  IF cnode[c] \in NodeNames /\ NamesIn(index.byNode[cnode[c]], c) # {} THEN NamesIn(index.byNode[cnode[c]], c)
  ELSE NamesIn(index.all, c)

\* The names shown, but for one of a reverse lookup.
Lookup(c) == IF manual[c] # Unnamed THEN {manual[c]} ELSE rewriteNames(c)

resolverFor(c) == IF cnode[c] \in resolvers THEN cnode[c] ELSE IF Master \in resolvers THEN Master ELSE Unnamed

Asks(asked) == asking' = asked /\ UNCHANGED <<tables, outside, calls, edits, manual, cnode, index, crossing, overlapped>>

Ask(l, c) ==
  /\ asking[l] = NotAsking /\ Lookup(c) = {} /\ rdns[c].exp <= time /\ UNCHANGED rdns
  /\ Asks([asking EXCEPT ![l] = [NotAsking EXCEPT !.of = c, !.site = resolverFor(c) = ClientNodes[c], !.since = time]])

\* The page asks for each of its clients that has no name.
resolveClients(l) == \E c \in ClientIPs : Ask(l, c)

\* What it answers, or nothing; another site's resolver, or the system's, does
\* not know the client.
LookupAddr(l) ==
  /\ asking[l] # NotAsking /\ ~asking[l].got /\ UNCHANGED rdns
  /\ \E name \in {IF asking[l].site THEN ptr[asking[l].of] ELSE Unnamed, Unnamed} :
       Asks([asking EXCEPT ![l].got = TRUE, ![l].name = name])

\* Changed: a name is kept from when it is stored, not asked.
FromTheAnswer(l) == time + (IF asking[l].name = Unnamed THEN 1 ELSE TTL)
exp(l) == asking[l].since + (IF asking[l].name = Unnamed THEN 1 ELSE TTL)

reverseDNS(l) ==
  /\ asking[l].got /\ Asks([asking EXCEPT ![l] = NotAsking])
  /\ rdns' = [rdns EXCEPT ![asking[l].of] = [name |-> asking[l].name, exp |-> exp(l)]]

-----------------------------------------------------------------------------
(* The sites: a client moves, its name changes, resolvers are set.         *)

Elsewhere == UNCHANGED <<tables, enrich, calls, asking>>

\* A lookup takes seconds: it does not last two ticks.
Passes ==
  /\ time < MaxTime /\ time' = time + 1 /\ \A l \in Lookers : asking[l] # NotAsking => asking[l].since = time
  /\ Elsewhere /\ UNCHANGED <<ClientNodes, resolvers, ptr, ptrAt, edits>>

Renames ==
  /\ Edit /\ \E c \in ClientIPs, n \in MaybeName :
       n # ptr[c] /\ ptr' = [ptr EXCEPT ![c] = n] /\ ptrAt' = [ptrAt EXCEPT ![c] = time]
  /\ Elsewhere /\ UNCHANGED <<ClientNodes, resolvers, time>>

Moves ==
  /\ Edit /\ \E c \in ClientIPs, n \in NodeNames : n # ClientNodes[c] /\ ClientNodes' = [ClientNodes EXCEPT ![c] = n]
  /\ Elsewhere /\ UNCHANGED <<resolvers, ptr, ptrAt, time>>

putReverseDNS ==
  /\ Edit /\ \E r \in SUBSET (NodeNames \cup {Master}) : r # resolvers /\ resolvers' = r
  /\ Elsewhere /\ UNCHANGED <<ClientNodes, ptr, ptrAt, time>>

NmNext ==
  \/ \E a \in Admins : putClientName(a) \/ ChangeRewrite(a)
  \/ Refreshes \/ refresh \/ \E a \in Callers : ListRewrites(a) \/ RefreshRewrites(a) \/ CallFails(a)
  \/ \E l \in Lookers : LookupAddr(l) \/ reverseDNS(l) \/ resolveClients(l)
  \/ Passes \/ Renames \/ Moves \/ putReverseDNS

NmSpec == NmInit /\ [][NmNext]_nmVars

-----------------------------------------------------------------------------
(* Properties.                                                             *)

NmTypeOK ==
  /\ {client_names, wanted, manual, ptr} \subseteq [ClientIPs -> MaybeName]
  /\ rewrites \subseteq [of : ClientIPs, name : HostNames, scope : Scopes]
  /\ resolvers \subseteq NodeNames \cup {Master} /\ ClientNodes \in [ClientIPs -> NodeNames] /\ cnode \in [ClientIPs -> NodeNames \cup {Master}]
  /\ rdns \in [ClientIPs -> [name : MaybeName, exp : 0 .. MaxTime + TTL]]

\* What the operator saved last is what is stored, for every client, and what
\* is shown, once nobody is between the two: unless saves raced or a read failed.
NamesStay ==
  /\ lost \/ client_names = wanted
  /\ crossing \/ (\E a \in Admins : At(a, "copy")) \/ manual = client_names

\* The index is that of the table, once the changes have been followed.
IndexFollows ==
  overlapped \/ (\E a \in Callers : calls[a].at \in {"list", "build"}) \/ index = buildRewriteIndex(rewrites, NodeNames)

\* A name found is not shown longer than its TTL after it changed, whichever
\* lookup stored it last.
AnswersExpire ==
  \A c \in ClientIPs : rdns[c].name \notin {Unnamed, ptr[c]} => rdns[c].exp <= ptrAt[c] + TTL

\* The names shown follow what they are taken from.
NamesInv == NmTypeOK /\ NamesStay /\ IndexFollows /\ AnswersExpire
=============================================================================
