----------------------------- MODULE AnswerPath -----------------------------
(***************************************************************************)
(* How a resolver answers from its cache and its upstreams.                *)
(*                                                                         *)
(* A query loads the runtime in force (its settings and its answer cache), *)
(* may be answered locally (maintenance, rate limit, zones, rewrites,      *)
(* blocking), then looks into the cache and at last goes upstream, where   *)
(* queries for one question share one exchange.  A hit that is stale or    *)
(* close to its end starts a refresh in the background, one per question.  *)
(* New settings replace the runtime while queries and refreshes still run  *)
(* with the one they loaded; the agent's poll is the only caller.          *)
(*                                                                         *)
(* Steps are the atomic loads, the mutex sections, and the exchange.  Time *)
(* is what an entry has left of its TTL.  An answer is abstracted to the   *)
(* upstreams it came from, whether it carries signatures and which state   *)
(* of the zone it tells; how the strategies choose among the upstreams of  *)
(* a list is left to the exchange, which ends with an answer or a failure. *)
(* The cache's shards have a capacity each; the keys here share one shard. *)
(***************************************************************************)
EXTENDS Naturals, FiniteSets

CONSTANTS
  Queries,        \* queries, each handled by a goroutine of its own
  Names,          \* questions: a class, a type and a name
  Upstreams,      \* values of the upstream and forwarder lists
  Bounds, Off,    \* bounds of the answer cache; Off: it is not enabled
  Rest,           \* the settings no cached answer depends on
  Offered,        \* the settings that are applied
  Initial,        \* the settings in force first
  None,           \* no entry, no answer, no flight
  Failed,         \* the exchange failed: SERVFAIL
  Local,          \* answered without the cache
  MaxItems,       \* capacity of a shard
  EvictionSample, \* evictionSample
  MaxApplies,     \* bound: settings applied
  MaxChanges      \* bound: changes of the zone

Settings == [upstreams: Upstreams, dnssec: BOOLEAN, cache: Bounds \cup {Off}, rest: Rest]

ASSUME AnswerAssumption ==
  /\ Offered \subseteq Settings /\ Initial \in Settings /\ Off \notin Bounds
  /\ MaxItems \in Nat \ {0} /\ EvictionSample \in Nat \ {0}
  /\ MaxApplies \in Nat /\ MaxChanges \in Nat
  /\ IsFiniteSet(Names) /\ Names # {}

\* A query is handled by its main task, a refresh it starts by its side task.
Tasks    == Queries \X {"main", "side"}
Main(q)  == <<q, "main">>
Side(q)  == <<q, "side">>
IsMain(t) == t[2] = "main"
Variants == {"plain", "signed"}
Keys     == Names \X Variants
NoCache  == 0
CacheIds == 1 .. MaxApplies + 1
Runtime  == [settings: Settings, cache: CacheIds \cup {NoCache}]
Ages     == {"fresh", "ahead", "stale", "dead"}
Answers  == [from: Upstreams, variant: Variants, ver: 0 .. MaxChanges, ttl: BOOLEAN]
Entries  == [from: Upstreams, variant: Variants, ver: 0 .. MaxChanges, age: Ages]

ASSUME MarksAssumption ==
  /\ None \notin Tasks \cup Answers \cup Entries \cup {Failed, Local}
  /\ Failed \notin Answers \cup Entries \cup {Local} /\ Local \notin Answers \cup Entries

VARIABLES
  rt,         \* Resolver.rt
  caches,     \* how many caches were made
  cache,      \* the entries of each
  flight,     \* singleflight: the task that leads the flight of a key
  refreshing, \* Resolver.refreshing
  pc,         \* where a task is
  mine,       \* the runtime it loaded
  key,        \* its forward key: question and whether it wants the signed answer
  do,         \* the DO bit of its request, as the variant it asks for
  leader,     \* the task whose flight it waits for
  result,     \* sfCall: the outcome of the flight it leads
  got,        \* what a query was answered
  applied,    \* settings applied so far
  zone        \* the state of the zone upstream

resolver == <<rt, caches, applied>>
task     == <<mine, key, do>>
vars     == <<resolver, cache, flight, refreshing, pc, task, leader, result, got, zone>>

Places == {"idle", "lookup", "drop", "refresh", "flight", "exchange", "store", "finish",
           "release", "wait", "unmark", "done"}
\* The call a task made of singleflight.Do runs fn, or has run it.
Running   == {"exchange", "store", "finish"}
Completed == {"release", "unmark", "done"}

answerKey(s) == <<s.upstreams, s.dnssec, s.cache>>

Held(c) == {k \in Keys : cache[c][k] # None}

Init ==
  /\ applied = 0 /\ zone = 0
  /\ caches = IF Initial.cache = Off THEN 0 ELSE 1
  /\ rt = [settings |-> Initial, cache |-> caches]
  /\ cache = [c \in CacheIds |-> [k \in Keys |-> None]]
  /\ flight = [k \in Keys |-> None] /\ refreshing = {}
  /\ pc = [t \in Tasks |-> "idle"]
  /\ mine = [t \in Tasks |-> rt]
  /\ key = [t \in Tasks |-> CHOOSE k \in Keys : TRUE]
  /\ do = [t \in Tasks |-> "plain"]
  /\ leader = [t \in Tasks |-> t] /\ result = [t \in Tasks |-> None]
  /\ got = [q \in Queries |-> None]

Goto(t, place) == pc' = [pc EXCEPT ![t] = place]

-----------------------------------------------------------------------------
(* The query.                                                              *)

\* A probe, maintenance, the rate limit, a zone, a rewrite or a block answers.
AnswerLocally(q) ==
  /\ pc[Main(q)] = "idle"
  /\ Goto(Main(q), "done")
  /\ got' = [got EXCEPT ![q] = Local]
  /\ UNCHANGED <<resolver, cache, flight, refreshing, task, leader, result, zone>>

\* resolve loads the runtime, and wants the signed answer when the client does
\* or when the settings force it.
Arrive(q, name, asked) ==
  LET t == Main(q) IN
  /\ pc[t] = "idle"
  /\ Goto(t, "lookup")
  /\ mine' = [mine EXCEPT ![t] = rt]
  /\ do' = [do EXCEPT ![t] = asked]
  /\ key' = [key EXCEPT ![t] = <<name, IF rt.settings.dnssec THEN "signed" ELSE asked>>]
  /\ UNCHANGED <<resolver, cache, flight, refreshing, leader, result, got, zone>>

\* Cache.Get: a hit answers the query, and asks for a refresh when it is stale
\* or in the last tenth of its TTL.
Lookup(q) ==
  LET t == Main(q)
      c == mine[t].cache
      e == IF c = NoCache THEN None ELSE cache[c][key[t]] IN
  /\ pc[t] = "lookup"
  /\ \/ e = None /\ Goto(t, "flight") /\ UNCHANGED got
     \/ e # None /\ e.age = "dead" /\ Goto(t, "drop") /\ UNCHANGED got
     \/ /\ e # None /\ e.age # "dead"
        /\ Goto(t, IF e.age = "fresh" THEN "done" ELSE "refresh")
        /\ got' = [got EXCEPT ![q] = e]
  /\ UNCHANGED <<resolver, cache, flight, refreshing, task, leader, result, zone>>

\* Changed: Get drops the key it found dead without looking again.
DropUnchecked(q) ==
  LET t == Main(q) IN
  /\ pc[t] = "drop"
  /\ Goto(t, "flight")
  /\ cache' = [cache EXCEPT ![mine[t].cache][key[t]] = None]
  /\ UNCHANGED <<resolver, flight, refreshing, task, leader, result, got, zone>>

\* Past the stale window the entry is dropped, unless it has been refreshed
\* before Get got the write lock.
Drop(q) ==
  LET t == Main(q)
      c == mine[t].cache
      k == key[t] IN
  /\ pc[t] = "drop"
  /\ Goto(t, "flight")
  /\ cache' = IF cache[c][k] # None /\ cache[c][k].age = "dead"
              THEN [cache EXCEPT ![c][k] = None] ELSE cache
  /\ UNCHANGED <<resolver, flight, refreshing, task, leader, result, got, zone>>

\* A refresh of the key is running ...
Busy(q) ==
  /\ key[Main(q)] \in refreshing
  /\ Goto(Main(q), "done")
  /\ UNCHANGED <<refreshing, task>>

\* ... or a goroutine begins one, with the runtime of the query and a copy of
\* its request whose DO bit is bit.
Begin(q, bit) ==
  LET t == Main(q)
      r == Side(q) IN
  /\ pc' = [pc EXCEPT ![t] = "done", ![r] = "flight"]
  /\ refreshing' = refreshing \cup {key[t]}
  /\ mine' = [mine EXCEPT ![r] = mine[t]]
  /\ key' = [key EXCEPT ![r] = key[t]]
  /\ do' = [do EXCEPT ![r] = bit]

\* The request's DO bit after ensureDO.
ensureDO(t) == IF mine[t].settings.dnssec THEN "signed" ELSE do[t]

\* Changed: the mark is set, and nobody looks at it.
RefreshAgain(q) ==
  /\ pc[Main(q)] = "refresh"
  /\ Begin(q, ensureDO(Main(q)))
  /\ UNCHANGED <<resolver, cache, flight, leader, result, got, zone>>

\* refreshStale: one refresh per key at a time.
RefreshStale(q) ==
  LET t == Main(q) IN
  /\ pc[t] = "refresh"
  /\ Busy(q) \/ (key[t] \notin refreshing /\ Begin(q, ensureDO(t)))
  /\ UNCHANGED <<resolver, cache, flight, leader, result, got, zone>>

-----------------------------------------------------------------------------
(* Going upstream.                                                         *)

\* A task leads the flight of its key ...
Lead(t) ==
  /\ flight' = [flight EXCEPT ![key[t]] = t]
  /\ Goto(t, "exchange")
  /\ UNCHANGED leader

\* ... or waits for the task that does.
Follow(t) ==
  /\ leader' = [leader EXCEPT ![t] = flight[key[t]]]
  /\ Goto(t, "wait")
  /\ UNCHANGED flight

\* A query sets its DO bit when it goes upstream, a refresh was given it.
Prepare(t) == do' = [do EXCEPT ![t] = IF IsMain(t) THEN ensureDO(t) ELSE @]

\* Changed: only tasks of the same runtime share a flight.
DoPerRuntime(t) ==
  /\ pc[t] = "flight"
  /\ Prepare(t)
  /\ LET f == flight[key[t]] IN IF f # None /\ mine[f] = mine[t] THEN Follow(t) ELSE Lead(t)
  /\ UNCHANGED <<resolver, cache, refreshing, mine, key, result, got, zone>>

\* The first mutex section of singleflight.Do.
Do(t) ==
  /\ pc[t] = "flight"
  /\ Prepare(t)
  /\ \/ flight[key[t]] = None /\ Lead(t)
     \/ flight[key[t]] # None /\ Follow(t)
  /\ UNCHANGED <<resolver, cache, refreshing, mine, key, result, got, zone>>

Answer(t, ttl) ==
  [from |-> mine[t].settings.upstreams, variant |-> do[t], ver |-> zone, ttl |-> ttl]

\* Changed: the key is released once the answer is there, before it is stored.
ExchangeReleases(t, ttl) ==
  /\ pc[t] = "exchange"
  /\ result' = [result EXCEPT ![t] = Answer(t, ttl)]
  /\ flight' = [flight EXCEPT ![key[t]] = None]
  /\ Goto(t, "store")
  /\ UNCHANGED <<resolver, cache, refreshing, task, leader, got, zone>>

\* forward returns an answer of the upstreams of the task's runtime, which has
\* a TTL to be cached with or none ...
Exchange(t, ttl) ==
  /\ pc[t] = "exchange"
  /\ result' = [result EXCEPT ![t] = Answer(t, ttl)]
  /\ Goto(t, "store")
  /\ UNCHANGED <<resolver, cache, flight, refreshing, task, leader, got, zone>>

\* ... or fails.
ExchangeFails(t) ==
  /\ pc[t] = "exchange"
  /\ result' = [result EXCEPT ![t] = Failed]
  /\ Goto(t, "finish")
  /\ UNCHANGED <<resolver, cache, flight, refreshing, task, leader, got, zone>>

\* How near the end of its life an entry is.
Nearness(e) == CASE e.age = "fresh" -> 0 [] e.age = "ahead" -> 1
                 [] e.age = "stale" -> 2 [] e.age = "dead"  -> 3

\* evictLocked looks at some of the entries, and removes the one nearest expiry.
Victims(c) ==
  {v \in Held(c) : \E sample \in SUBSET Held(c) :
     /\ v \in sample
     /\ Cardinality(sample) = EvictionSample \/ sample = Held(c)
     /\ \A k \in sample : Nearness(cache[c][k]) <= Nearness(cache[c][v])}

Entry(a) == [from |-> a.from, variant |-> a.variant, ver |-> a.ver, age |-> "fresh"]

\* Cache.Set
Set(c, k, a) ==
  IF cache[c][k] = None /\ Cardinality(Held(c)) >= MaxItems
  THEN \E v \in Victims(c) : cache' = [cache EXCEPT ![c] = [@ EXCEPT ![v] = None, ![k] = Entry(a)]]
  ELSE cache' = [cache EXCEPT ![c][k] = Entry(a)]

\* Changed: the answer goes into the cache in force.
StoreInForce(t) ==
  /\ pc[t] = "store"
  /\ Goto(t, "finish")
  /\ IF rt.cache # NoCache /\ result[t].ttl
     THEN Set(rt.cache, key[t], result[t]) ELSE UNCHANGED cache
  /\ UNCHANGED <<resolver, flight, refreshing, task, leader, result, got, zone>>

\* forwardAndCache caches the answer in the cache of the task's runtime.
Store(t) ==
  /\ pc[t] = "store"
  /\ Goto(t, "finish")
  /\ IF mine[t].cache # NoCache /\ result[t].ttl
     THEN Set(mine[t].cache, key[t], result[t]) ELSE UNCHANGED cache
  /\ UNCHANGED <<resolver, flight, refreshing, task, leader, result, got, zone>>

\* Changed: a refresh that failed keeps its mark.
ReturnMarked(t, outcome) ==
  \/ IsMain(t) /\ Goto(t, "done") /\ got' = [got EXCEPT ![t[1]] = outcome]
  \/ ~IsMain(t) /\ Goto(t, IF outcome = Failed THEN "done" ELSE "unmark") /\ UNCHANGED got

\* What follows singleflight.Do: a query is answered, a refresh is over.
Return(t, outcome) ==
  IF IsMain(t)
  THEN Goto(t, "done") /\ got' = [got EXCEPT ![t[1]] = outcome]
  ELSE Goto(t, "unmark") /\ UNCHANGED got

\* wg.Done
Finish(t) ==
  /\ pc[t] = "finish"
  /\ Goto(t, "release")
  /\ UNCHANGED <<resolver, cache, flight, refreshing, task, leader, result, got, zone>>

\* The second mutex section of Do: the key is released.
Release(t) ==
  /\ pc[t] = "release"
  /\ flight' = [flight EXCEPT ![key[t]] = None]
  /\ Return(t, result[t])
  /\ UNCHANGED <<resolver, cache, refreshing, task, leader, result, zone>>

\* wg.Wait returns: the task shares the outcome of the flight.
Share(t) ==
  /\ pc[t] = "wait" /\ pc[leader[t]] \in Completed
  /\ Return(t, result[leader[t]])
  /\ leader' = [leader EXCEPT ![t] = t]
  /\ UNCHANGED <<resolver, cache, flight, refreshing, task, result, zone>>

\* The refresh's deferred deletion of its mark.
Unmark(t) ==
  /\ pc[t] = "unmark"
  /\ refreshing' = refreshing \ {key[t]}
  /\ Goto(t, "done")
  /\ UNCHANGED <<resolver, cache, flight, task, leader, result, got, zone>>

-----------------------------------------------------------------------------
(* The settings, the clock and the zone.                                   *)

\* The cache is kept when nothing a cached answer depends on has changed.
ApplySettings(s) ==
  /\ applied < MaxApplies /\ applied' = applied + 1
  /\ LET keep == rt.cache # NoCache /\ answerKey(rt.settings) = answerKey(s) IN
       /\ caches' = IF s.cache = Off \/ keep THEN caches ELSE caches + 1
       /\ rt' = [settings |-> s, cache |-> IF s.cache = Off THEN NoCache
                                           ELSE IF keep THEN rt.cache ELSE caches']
  /\ UNCHANGED <<cache, flight, refreshing, pc, task, leader, result, got, zone>>

\* A cache nobody can reach any more is garbage.
Reachable(c) == c = rt.cache \/ \E t \in Tasks : pc[t] # "done" /\ mine[t].cache = c

Older == [fresh |-> "ahead", ahead |-> "stale", stale |-> "dead"]

TimePasses(c, k) ==
  /\ Reachable(c) /\ cache[c][k] # None /\ cache[c][k].age # "dead"
  /\ cache' = [cache EXCEPT ![c][k].age = Older[@]]
  /\ UNCHANGED <<resolver, flight, refreshing, pc, task, leader, result, got, zone>>

ZoneChanges ==
  /\ zone < MaxChanges /\ zone' = zone + 1
  /\ UNCHANGED <<resolver, cache, flight, refreshing, pc, task, leader, result, got>>

-----------------------------------------------------------------------------
Serve(q) == Lookup(q) \/ Drop(q) \/ RefreshStale(q)

GoUpstream(t) ==
  \/ Do(t) \/ ExchangeFails(t) \/ Store(t) \/ Finish(t) \/ Release(t) \/ Share(t) \/ Unmark(t)
  \/ \E ttl \in BOOLEAN : Exchange(t, ttl)

Next ==
  \/ \E q \in Queries :
       \/ AnswerLocally(q) \/ Serve(q)
       \/ \E name \in Names, asked \in Variants : Arrive(q, name, asked)
  \/ \E t \in Tasks : GoUpstream(t)
  \/ \E s \in Offered : ApplySettings(s)
  \/ \E c \in CacheIds, k \in Keys : TimePasses(c, k)
  \/ ZoneChanges

Spec == Init /\ [][Next]_vars

-----------------------------------------------------------------------------
(* Properties.                                                             *)

VarsOK ==
  /\ rt \in Runtime /\ applied \in 0 .. MaxApplies /\ caches \in 0 .. applied + 1
  /\ zone \in 0 .. MaxChanges
  /\ cache \in [CacheIds -> [Keys -> Entries \cup {None}]]
  /\ flight \in [Keys -> Tasks \cup {None}] /\ refreshing \subseteq Keys
  /\ pc \in [Tasks -> Places] /\ mine \in [Tasks -> Runtime]
  /\ key \in [Tasks -> Keys] /\ do \in [Tasks -> Variants]
  /\ leader \in [Tasks -> Tasks] /\ result \in [Tasks -> Answers \cup {None, Failed}]
  /\ \A t \in Tasks : pc[t] = "store" => result[t] \in Answers
  /\ got \in [Queries -> Answers \cup Entries \cup {None, Failed, Local}]

\* Every variable has its type, and no shard outgrows its capacity.
TypeOK == VarsOK /\ \A c \in CacheIds : Cardinality(Held(c)) <= MaxItems

\* Answers of an upstream that was replaced do not outlive it in the cache: what
\* the cache in force holds came from the upstreams in force, although queries
\* and refreshes that began under older settings are still storing.
CacheFollowsUpstreams ==
  rt.cache # NoCache =>
    \A k \in Held(rt.cache) : cache[rt.cache][k].from = rt.settings.upstreams

\* A client never gets the wrong variant: what is stored, shared or served under
\* a key carries signatures exactly when the key asks for them, whichever query,
\* refresh or settings had it fetched.
VariantFits ==
  /\ \A c \in CacheIds : \A k \in Held(c) : cache[c][k].variant = k[2]
  /\ \A q \in Queries :
       got[q] \notin {None, Failed, Local} => got[q].variant = key[Main(q)][2]

\* One exchange runs per question, whether queries or refreshes ask for it and
\* whatever settings they run with.
OneExchange ==
  \A t, u \in Tasks : pc[t] \in Running /\ pc[u] \in Running /\ key[t] = key[u] => t = u

\* The goroutine of a refresh runs.
Refreshes(q) == pc[Side(q)] \notin {"idle", "done"}

\* A question is refreshed by one goroutine at a time.
RefreshOnce ==
  \A p, q \in Queries :
    Refreshes(p) /\ Refreshes(q) /\ key[Side(p)] = key[Side(q)] => p = q

\* A cached answer is never replaced by one that was given earlier.
CacheMovesForward ==
  [][\A c \in CacheIds : \A k \in Keys :
       cache[c][k] # None /\ cache'[c][k] # None => cache'[c][k].ver >= cache[c][k].ver]_vars

\* An entry leaves the cache only past its stale window, or when it is full.
LiveEntriesStay ==
  [][\A c \in CacheIds : \A k \in Held(c) :
       cache'[c][k] = None =>
         \/ cache[c][k].age = "dead"
         \/ Cardinality(Held(c)) >= MaxItems /\ \E l \in Keys \ Held(c) : cache'[c][l] # None]_vars

\* Nobody is stranded: a task that waits does so for a flight of its question
\* that is led by a task at work, a question in flight has such a leader, and a
\* question marked as being refreshed has a goroutine that will unmark it.
NobodyStranded ==
  /\ \A t \in Tasks : pc[t] = "wait" =>
       pc[leader[t]] \in Running \cup Completed /\ key[leader[t]] = key[t]
  /\ \A k \in Keys : flight[k] # None =>
       pc[flight[k]] \in Running \cup {"release"} /\ key[flight[k]] = k
  /\ \A k \in refreshing : \E q \in Queries : key[Side(q)] = k /\ Refreshes(q)

=============================================================================
