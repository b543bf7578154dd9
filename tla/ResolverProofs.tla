-------------------------- MODULE ResolverProofs --------------------------
(* Proofs about the resolver: the answer path, for any number of queries,    *)
(* names, settings and changes; the strategies over the upstreams, for any   *)
(* number of them; the pool of connections to one, for any limits and any    *)
(* number of queries.                                                        *)
EXTENDS AnswerPath, Forwarding, PipePool, FiniteSetTheorems, WellFoundedInduction, TLAPS

USE DEF NoCache

Active == Running \cup {"release"}

(* The flights.  A task is at work on a key exactly when the key's flight    *)
(* names it, a task that waits does so for one that is at work or through,   *)
(* and a side task begins when its main task ends.                           *)
LeadInv  == \A t \in Tasks : pc[t] \in Active => flight[key[t]] = t
FlownInv == \A k \in Keys : flight[k] # None => pc[flight[k]] \in Active /\ key[flight[k]] = k
WaitInv  == \A t \in Tasks : pc[t] = "wait" =>
             pc[leader[t]] \in Running \cup Completed /\ key[leader[t]] = key[t]
SideInv  == \A q \in Queries : pc[Main(q)] # "done" => pc[Side(q)] = "idle"
FlightInv == LeadInv /\ FlownInv /\ WaitInv /\ SideInv

(* The marks.  A key is marked exactly while a refresh of it runs, and by    *)
(* one refresh only.                                                         *)
MarkInv ==
  /\ \A q \in Queries : Refreshes(q) => key[Side(q)] \in refreshing
  /\ \A k \in refreshing : \E q \in Queries : key[Side(q)] = k /\ Refreshes(q)
  /\ \A q \in Queries : pc[Main(q)] # "unmark"
  /\ RefreshOnce

(* The runtimes.  Tasks that hold one cache have settings that agree on what *)
(* a cached answer depends on, and what the cache holds came from there.     *)
Runtimes == {rt} \cup {mine[t] : t \in Tasks}
NumberInv == /\ \A r \in Runtimes : r.cache <= caches
             /\ \A c \in CacheIds : c > caches => Held(c) = {}
AgreeInv  == \A r, s \in Runtimes :
               r.cache = s.cache /\ r.cache # NoCache => answerKey(r.settings) = answerKey(s.settings)
OriginInv == \A r \in Runtimes : r.cache # NoCache =>
               \A k \in Held(r.cache) : cache[r.cache][k].from = r.settings.upstreams
ResultInv == \A t \in Tasks : pc[t] = "store" => result[t].from = mine[t].settings.upstreams
RuntimeInv == NumberInv /\ AgreeInv /\ OriginInv /\ ResultInv

(* The variants.  Before a task goes upstream its key is what its request    *)
(* and its settings ask for; from then on its request asks for the key's.    *)
TaskFits(t) ==
  /\ pc[t] \in {"lookup", "drop", "refresh", "flight"} => ensureDO(t) = key[t][2]
  /\ pc[t] = "exchange" \/ (pc[t] = "flight" /\ ~IsMain(t)) => do[t] = key[t][2]
  /\ pc[t] \in {"idle", "lookup", "drop", "refresh", "flight", "exchange"} => result[t] = None
  /\ result[t] \in Answers => result[t].variant = key[t][2]
ReplyFits(q) ==
  /\ pc[Main(q)] = "idle" => got[q] = None
  /\ got[q] \in Answers \cup Entries => got[q].variant = key[Main(q)][2]
CacheFits == \A c \in CacheIds : \A k \in Held(c) : cache[c][k].variant = k[2]
VariantInv == CacheFits /\ (\A t \in Tasks : TaskFits(t)) /\ \A q \in Queries : ReplyFits(q)

(* The versions.  An answer about to be stored is as recent as what the      *)
(* caches hold for its key.                                                  *)
VersionInv ==
  /\ \A c \in CacheIds : \A k \in Held(c) : cache[c][k].ver <= zone
  /\ \A t \in Tasks : pc[t] = "store" =>
       /\ result[t].ver <= zone
       /\ \A c \in CacheIds : key[t] \in Held(c) => cache[c][key[t]].ver <= result[t].ver
-----------------------------------------------------------------------------
(* Types and capacity.                                                       *)

LEMMA KeysFinite == IsFiniteSet(Keys)
<1>1. IsFiniteSet({"plain"}) /\ IsFiniteSet({"signed"})
  BY FS_Singleton
<1>2. Variants = {"plain"} \cup {"signed"}
  BY DEF Variants
<1>3. IsFiniteSet(Variants)
  BY <1>1, <1>2, FS_Union
<1> QED  BY <1>3, FS_Product, AnswerAssumption DEF Keys

LEMMA InitVars == Init => VarsOK
<1> SUFFICES ASSUME Init PROVE VarsOK
  OBVIOUS
<1>1. (CHOOSE k \in Keys : TRUE) \in Keys
  <2>1. PICK num \in Names : TRUE
    BY AnswerAssumption
  <2>2. <<num, "plain">> \in Keys
    BY DEF Keys, Variants
  <2> QED  BY <2>2
<1>2. rt \in Runtime /\ caches \in 0 .. applied + 1 /\ applied \in 0 .. MaxApplies
  BY AnswerAssumption DEF Init, Runtime, CacheIds
<1> QED  BY <1>1, <1>2, AnswerAssumption DEF Init, VarsOK, Places, Variants, CacheIds

(* A record of an answer, and the entry made of it.                          *)
LEMMA AnswerTyped ==
  ASSUME VarsOK, NEW t \in Tasks, NEW ttl \in BOOLEAN
  PROVE  Answer(t, ttl) \in Answers
BY DEF VarsOK, Answer, Answers, Runtime, Settings

LEMMA EntryTyped ==
  ASSUME NEW a \in Answers
  PROVE  /\ Entry(a) \in Entries
         /\ Entry(a).from = a.from /\ Entry(a).variant = a.variant /\ Entry(a).ver = a.ver
BY DEF Answers, Entry, Entries, Ages

(* What Cache.Set does to the caches: the key gets the entry, every other    *)
(* place keeps its own or loses it.                                          *)
LEMMA SetEffect ==
  ASSUME VarsOK, NEW c \in CacheIds, NEW k \in Keys, NEW a \in Answers, Set(c, k, a)
  PROVE  /\ cache' \in [CacheIds -> [Keys -> Entries \cup {None}]]
         /\ cache'[c][k] = Entry(a)
         /\ \A l \in Keys \ {k} : cache'[c][l] \in {cache[c][l], None}
         /\ \A d \in CacheIds \ {c} : cache'[d] = cache[d]
<1>1. Entry(a) \in Entries
  BY EntryTyped
<1>2. CASE cache[c][k] = None /\ Cardinality(Held(c)) >= MaxItems
  <2>1. PICK v \in Victims(c) :
          cache' = [cache EXCEPT ![c] = [@ EXCEPT ![v] = None, ![k] = Entry(a)]]
    BY <1>2 DEF Set
  <2>2. v \in Keys /\ v # k
    BY <1>2 DEF Victims, Held
  <2> QED  BY <1>1, <2>1, <2>2 DEF VarsOK
<1>3. CASE ~(cache[c][k] = None /\ Cardinality(Held(c)) >= MaxItems)
  <2>1. cache' = [cache EXCEPT ![c][k] = Entry(a)]
    BY <1>3 DEF Set
  <2> QED  BY <1>1, <2>1 DEF VarsOK
<1> QED  BY <1>2, <1>3

(* Where a task or a query is in the sets its parts are in.                  *)
LEMMA TaskParts ==
  /\ \A q \in Queries : Main(q) \in Tasks /\ Side(q) \in Tasks /\ IsMain(Main(q)) /\ ~IsMain(Side(q))
  /\ \A p, q \in Queries : Main(p) # Side(q)
  /\ \A p, q \in Queries : Main(p) = Main(q) => p = q
  /\ \A p, q \in Queries : Side(p) = Side(q) => p = q
  /\ \A t \in Tasks : t[1] \in Queries /\ t = IF IsMain(t) THEN Main(t[1]) ELSE Side(t[1])
BY DEF Tasks, Main, Side, IsMain

LEMMA NextVars == VarsOK /\ [Next]_vars => VarsOK'
<1> SUFFICES ASSUME VarsOK, [Next]_vars PROVE VarsOK'
  OBVIOUS
<1> USE TaskParts
<1>1. ASSUME NEW q \in Queries, AnswerLocally(q) PROVE VarsOK'
  BY <1>1 DEF AnswerLocally, Goto, VarsOK, resolver, task, Places
<1>2. ASSUME NEW q \in Queries, Lookup(q) PROVE VarsOK'
  <2> DEFINE t == Main(q)
             c == mine[t].cache
             e == IF c = NoCache THEN None ELSE cache[c][key[t]]
  <2>0. c \in CacheIds \cup {NoCache} /\ key[t] \in Keys
    BY DEF VarsOK, Runtime
  <2>1. e \in Entries \cup {None}
    BY <2>0 DEF VarsOK
  <2>2. got' \in [Queries -> Answers \cup Entries \cup {None, Failed, Local}]
    BY <1>2, <2>1 DEF Lookup, VarsOK
  <2>3. \E p \in {"flight", "drop", "done", "refresh"} : pc' = [pc EXCEPT ![t] = p]
    BY <1>2 DEF Lookup, Goto
  <2>4. pc' \in [Tasks -> Places] /\ \A u \in Tasks : pc'[u] = "store" => pc[u] = "store"
    BY <2>3 DEF VarsOK, Places
  <2> QED  BY <1>2, <2>2, <2>4 DEF Lookup, VarsOK, resolver, task
<1>3. ASSUME NEW q \in Queries, Drop(q) PROVE VarsOK'
  <2>1. cache' \in [CacheIds -> [Keys -> Entries \cup {None}]]
    BY <1>3 DEF Drop, VarsOK
  <2> QED  BY <1>3, <2>1 DEF Drop, Goto, VarsOK, resolver, task, Places
<1>4. ASSUME NEW q \in Queries, RefreshStale(q) PROVE VarsOK'
  <2>1. ensureDO(Main(q)) \in Variants
    BY DEF ensureDO, VarsOK, Variants
  <2>2. CASE Busy(q)
    BY <1>4, <2>2 DEF RefreshStale, Busy, Goto, VarsOK, resolver, task, Places
  <2>3. CASE Begin(q, ensureDO(Main(q)))
    <3>1. /\ pc' \in [Tasks -> Places] /\ \A u \in Tasks : pc'[u] = "store" => pc[u] = "store"
          /\ refreshing' \subseteq Keys
      BY <2>3 DEF Begin, VarsOK, Places
    <3>2. mine' \in [Tasks -> Runtime] /\ key' \in [Tasks -> Keys] /\ do' \in [Tasks -> Variants]
      BY <2>1, <2>3 DEF Begin, VarsOK
    <3> QED  BY <1>4, <3>1, <3>2 DEF RefreshStale, VarsOK, resolver
  <2> QED  BY <1>4, <2>2, <2>3 DEF RefreshStale
<1>5. ASSUME NEW q \in Queries, NEW name \in Names, NEW wants \in Variants, Arrive(q, name, wants)
      PROVE  VarsOK'
  <2>1. <<name, IF rt.settings.dnssec THEN "signed" ELSE wants>> \in Keys
    BY DEF Keys, Variants
  <2> QED  BY <1>5, <2>1 DEF Arrive, Goto, VarsOK, resolver, Places
<1>6. ASSUME NEW t \in Tasks, Do(t) PROVE VarsOK'
  <2>1. ensureDO(t) \in Variants
    BY DEF ensureDO, VarsOK, Variants
  <2>2. do' \in [Tasks -> Variants]
    BY <1>6, <2>1 DEF Do, Prepare, VarsOK
  <2>3. /\ leader' \in [Tasks -> Tasks] /\ flight' \in [Keys -> Tasks \cup {None}]
        /\ \E p \in {"exchange", "wait"} : pc' = [pc EXCEPT ![t] = p]
    <3>1. CASE flight[key[t]] = None /\ Lead(t)
      BY <3>1 DEF Lead, Goto, VarsOK
    <3>2. CASE flight[key[t]] # None /\ Follow(t)
      BY <3>2 DEF Follow, Goto, VarsOK
    <3> QED  BY <1>6, <3>1, <3>2 DEF Do
  <2>4. pc' \in [Tasks -> Places] /\ \A u \in Tasks : pc'[u] = "store" => pc[u] = "store"
    BY <2>3 DEF VarsOK, Places
  <2> QED  BY <1>6, <2>2, <2>3, <2>4 DEF Do, VarsOK, resolver
<1>7. ASSUME NEW t \in Tasks, NEW ttl \in BOOLEAN, Exchange(t, ttl) PROVE VarsOK'
  BY <1>7, AnswerTyped DEF Exchange, Goto, VarsOK, resolver, task, Places
<1>8. ASSUME NEW t \in Tasks, ExchangeFails(t) PROVE VarsOK'
  BY <1>8 DEF ExchangeFails, Goto, VarsOK, resolver, task, Places
<1>9. ASSUME NEW t \in Tasks, Store(t) PROVE VarsOK'
  <2>0. result[t] \in Answers
    BY <1>9 DEF Store, VarsOK
  <2>1. cache' \in [CacheIds -> [Keys -> Entries \cup {None}]]
    <3>1. CASE mine[t].cache # NoCache /\ result[t].ttl
      <4>1. mine[t].cache \in CacheIds /\ key[t] \in Keys
        BY <3>1 DEF VarsOK, Runtime
      <4> QED  BY <1>9, <2>0, <3>1, <4>1, SetEffect DEF Store
    <3>2. CASE ~(mine[t].cache # NoCache /\ result[t].ttl)
      BY <1>9, <3>2 DEF Store, VarsOK
    <3> QED  BY <3>1, <3>2
  <2> QED  BY <1>9, <2>1 DEF Store, Goto, VarsOK, resolver, task, Places
<1>10. ASSUME NEW t \in Tasks, Finish(t) PROVE VarsOK'
  BY <1>10 DEF Finish, Goto, VarsOK, resolver, task, Places
<1>11. ASSUME NEW t \in Tasks, Release(t) PROVE VarsOK'
  <2>1. got' \in [Queries -> Answers \cup Entries \cup {None, Failed, Local}]
    BY <1>11 DEF Release, Return, VarsOK
  <2>0. \E p \in {"done", "unmark"} : pc' = [pc EXCEPT ![t] = p]
    BY <1>11 DEF Release, Return, Goto
  <2>2. pc' \in [Tasks -> Places] /\ \A u \in Tasks : pc'[u] = "store" => pc[u] = "store"
    BY <2>0 DEF VarsOK, Places
  <2>3. flight' \in [Keys -> Tasks \cup {None}]
    BY <1>11 DEF Release, VarsOK
  <2> QED  BY <1>11, <2>1, <2>2, <2>3 DEF Release, VarsOK, resolver, task
<1>12. ASSUME NEW t \in Tasks, Share(t) PROVE VarsOK'
  <2>1. got' \in [Queries -> Answers \cup Entries \cup {None, Failed, Local}]
    BY <1>12 DEF Share, Return, VarsOK
  <2>0. \E p \in {"done", "unmark"} : pc' = [pc EXCEPT ![t] = p]
    BY <1>12 DEF Share, Return, Goto
  <2>2. pc' \in [Tasks -> Places] /\ \A u \in Tasks : pc'[u] = "store" => pc[u] = "store"
    BY <2>0 DEF VarsOK, Places
  <2>3. leader' \in [Tasks -> Tasks]
    BY <1>12 DEF Share, VarsOK
  <2> QED  BY <1>12, <2>1, <2>2, <2>3 DEF Share, VarsOK, resolver, task
<1>13. ASSUME NEW t \in Tasks, Unmark(t) PROVE VarsOK'
  BY <1>13 DEF Unmark, Goto, VarsOK, resolver, task, Places
<1>14. ASSUME NEW s \in Offered, ApplySettings(s) PROVE VarsOK'
  <2>1. s \in Settings /\ applied' \in 0 .. MaxApplies /\ applied' = applied + 1
    BY <1>14, AnswerAssumption DEF ApplySettings, VarsOK
  <2>2. caches' \in 0 .. applied' + 1
    BY <1>14, <2>1 DEF ApplySettings, VarsOK
  <2>3. /\ rt' = [settings |-> s, cache |-> rt'.cache]
        /\ rt'.cache \in {NoCache, rt.cache} \/ (rt'.cache = caches' /\ caches' = caches + 1)
    BY <1>14 DEF ApplySettings
  <2>4. rt' \in Runtime
    BY <2>1, <2>2, <2>3, AnswerAssumption DEF VarsOK, Runtime, CacheIds
  <2> QED  BY <1>14, <2>1, <2>2, <2>4 DEF ApplySettings, VarsOK, task
<1>15. ASSUME NEW c \in CacheIds, NEW k \in Keys, TimePasses(c, k) PROVE VarsOK'
  <2>1. cache[c][k] \in Entries /\ Older[cache[c][k].age] \in Ages
    BY <1>15 DEF TimePasses, VarsOK, Entries, Ages, Older
  <2>2. cache' \in [CacheIds -> [Keys -> Entries \cup {None}]]
    BY <1>15, <2>1 DEF TimePasses, VarsOK, Entries
  <2> QED  BY <1>15, <2>2 DEF TimePasses, VarsOK, resolver, task
<1>16. CASE ZoneChanges
  BY <1>16, AnswerAssumption DEF ZoneChanges, VarsOK, resolver, task
<1>17. CASE UNCHANGED vars
  BY <1>17 DEF vars, VarsOK, resolver, task
<1> QED  BY <1>1, <1>2, <1>3, <1>4, <1>5, <1>6, <1>7, <1>8, <1>9, <1>10, <1>11, <1>12, <1>13,
            <1>14, <1>15, <1>16, <1>17 DEF Next, Serve, GoUpstream

(* Which steps change the caches, and how.                                   *)
LEMMA CacheSteps ==
  ASSUME [Next]_vars
  PROVE  \/ UNCHANGED cache
         \/ \E q \in Queries : Drop(q)
         \/ \E t \in Tasks : Store(t)
         \/ \E c \in CacheIds, k \in Keys : TimePasses(c, k)
BY DEF Next, vars, Serve, GoUpstream, AnswerLocally, Arrive, Lookup, RefreshStale, Do, Exchange,
       ExchangeFails, Finish, Release, Share, Unmark, ApplySettings, ZoneChanges

LEMMA DropEffect ==
  ASSUME VarsOK, NEW q \in Queries, Drop(q)
  PROVE  \A c \in CacheIds : \A k \in Keys :
           \/ cache'[c][k] = cache[c][k]
           \/ cache'[c][k] = None /\ cache[c][k] # None /\ cache[c][k].age = "dead"
BY TaskParts DEF Drop, VarsOK

LEMMA TimeEffect ==
  ASSUME VarsOK, NEW c \in CacheIds, NEW k \in Keys, TimePasses(c, k)
  PROVE  /\ cache[c][k] \in Entries /\ cache'[c][k] = [cache[c][k] EXCEPT !.age = Older[@]]
         /\ cache'[c][k] # None
         /\ \A d \in CacheIds : \A l \in Keys :
              d # c \/ l # k => cache'[d][l] = cache[d][l]
<1>1. cache[c][k] \in Entries
  BY DEF TimePasses, VarsOK
<1>2. cache'[c][k] = [cache[c][k] EXCEPT !.age = Older[@]]
  BY DEF TimePasses, VarsOK
<1>3. cache'[c][k] \in Entries
  BY <1>1, <1>2 DEF TimePasses, Entries, Ages, Older
<1>4. \A d \in CacheIds : \A l \in Keys : d # c \/ l # k => cache'[d][l] = cache[d][l]
  BY DEF TimePasses, VarsOK
<1> QED  BY <1>1, <1>2, <1>3, <1>4, MarksAssumption

LEMMA StoreEffect ==
  ASSUME VarsOK, NEW t \in Tasks, Store(t)
  PROVE  \/ UNCHANGED cache
         \/ /\ mine[t].cache \in CacheIds /\ key[t] \in Keys /\ result[t] \in Answers
            /\ Set(mine[t].cache, key[t], result[t])
BY DEF Store, VarsOK, Runtime

LEMMA NextCapacity ==
  ASSUME VarsOK, [Next]_vars, NEW c \in CacheIds, Cardinality(Held(c)) <= MaxItems
  PROVE  Cardinality(Held(c)') <= MaxItems
<1>1. IsFiniteSet(Held(c)) /\ Cardinality(Held(c)) \in Nat
  BY KeysFinite, FS_Subset, FS_CardinalityType DEF Held
<1>2. ASSUME Held(c)' \subseteq Held(c) PROVE Cardinality(Held(c)') <= MaxItems
  <2>1. Cardinality(Held(c)') \in Nat /\ Cardinality(Held(c)') <= Cardinality(Held(c))
    BY <1>1, <1>2, FS_Subset, FS_CardinalityType
  <2> QED  BY <1>1, <2>1, AnswerAssumption
<1>3. CASE UNCHANGED cache
  BY <1>2, <1>3 DEF Held
<1>4. ASSUME NEW q \in Queries, Drop(q) PROVE Held(c)' \subseteq Held(c)
  BY <1>4, DropEffect DEF Held
<1>5. ASSUME NEW d \in CacheIds, NEW k \in Keys, TimePasses(d, k) PROVE Held(c)' \subseteq Held(c)
  <2>1. cache[d][k] # None
    BY <1>5 DEF TimePasses
  <2>2. \A l \in Keys : cache'[c][l] = cache[c][l] \/ (d = c /\ l = k)
    BY <1>5 DEF TimePasses, VarsOK
  <2> QED  BY <2>1, <2>2 DEF Held
<1>6. ASSUME NEW k \in Keys, NEW a \in Answers, Set(c, k, a)
      PROVE  Cardinality(Held(c)') <= MaxItems
  <2>1. Entry(a) # None
    BY EntryTyped, MarksAssumption
  <2>2. CASE cache[c][k] = None /\ Cardinality(Held(c)) >= MaxItems
    <3>1. PICK v \in Victims(c) :
            cache' = [cache EXCEPT ![c] = [@ EXCEPT ![v] = None, ![k] = Entry(a)]]
      BY <1>6, <2>2 DEF Set
    <3>2. v \in Held(c) /\ k \notin Held(c)
      BY <2>2 DEF Victims, Held
    <3>3. Held(c)' = (Held(c) \ {v}) \cup {k}
      BY <2>1, <3>1, <3>2 DEF Held, VarsOK
    <3>4. Cardinality(Held(c) \ {v}) = Cardinality(Held(c)) - 1 /\ IsFiniteSet(Held(c) \ {v})
      BY <1>1, <3>2, FS_RemoveElement
    <3>5. Cardinality(Held(c)') = Cardinality(Held(c) \ {v}) + 1
      BY <3>2, <3>3, <3>4, FS_AddElement
    <3> QED  BY <1>1, <3>4, <3>5
  <2>3. CASE ~(cache[c][k] = None /\ Cardinality(Held(c)) >= MaxItems)
    <3>1. cache' = [cache EXCEPT ![c][k] = Entry(a)]
      BY <1>6, <2>3 DEF Set
    <3>2. Held(c)' = Held(c) \cup {k}
      BY <2>1, <3>1 DEF Held, VarsOK
    <3>3. CASE k \in Held(c)
      BY <1>2, <3>2, <3>3
    <3>4. CASE k \notin Held(c)
      <4>1. Cardinality(Held(c)) < MaxItems
        BY <1>1, <2>3, <3>4, AnswerAssumption DEF Held
      <4>2. Cardinality(Held(c)') = Cardinality(Held(c)) + 1
        BY <1>1, <3>2, <3>4, FS_AddElement
      <4> QED  BY <1>1, <4>1, <4>2, AnswerAssumption
    <3> QED  BY <3>3, <3>4
  <2> QED  BY <2>2, <2>3
<1>7. ASSUME NEW t \in Tasks, Store(t) PROVE Cardinality(Held(c)') <= MaxItems
  <2>1. CASE UNCHANGED cache
    BY <1>2, <2>1 DEF Held
  <2>2. CASE /\ mine[t].cache \in CacheIds /\ key[t] \in Keys /\ result[t] \in Answers
             /\ Set(mine[t].cache, key[t], result[t])
    <3>1. CASE mine[t].cache = c
      BY <1>6, <2>2, <3>1
    <3>2. CASE mine[t].cache # c
      <4>1. cache'[c] = cache[c]
        BY <2>2, <3>2, SetEffect
      <4> QED  BY <1>2, <4>1 DEF Held
    <3> QED  BY <3>1, <3>2
  <2> QED  BY <1>7, <2>1, <2>2, StoreEffect
<1> QED  BY <1>2, <1>3, <1>4, <1>5, <1>7, CacheSteps

LEMMA InitCapacity == Init => \A c \in CacheIds : Cardinality(Held(c)) <= MaxItems
<1> SUFFICES ASSUME Init, NEW c \in CacheIds PROVE Cardinality(Held(c)) <= MaxItems
  OBVIOUS
<1>1. Held(c) = {}
  BY DEF Init, Held
<1> QED  BY <1>1, FS_EmptySet, AnswerAssumption

(* No reply, refresh or change of settings leaves a variable out of its type *)
(* or a shard of the cache with more entries than Cache.New allows it.       *)
THEOREM TypeCorrect == Spec => []TypeOK
<1>1. Init => TypeOK
  BY InitVars, InitCapacity DEF TypeOK
<1>2. TypeOK /\ [Next]_vars => TypeOK'
  <2> SUFFICES ASSUME TypeOK, [Next]_vars PROVE TypeOK'
    OBVIOUS
  <2>1. VarsOK'
    BY NextVars DEF TypeOK
  <2>2. ASSUME NEW c \in CacheIds PROVE Cardinality(Held(c)') <= MaxItems
    BY NextCapacity DEF TypeOK
  <2> QED  BY <2>1, <2>2 DEF TypeOK
<1> QED  BY <1>1, <1>2, PTL DEF Spec

-----------------------------------------------------------------------------
(* Flights and marks.                                                        *)

LEMMA InitFlight == Init => FlightInv /\ MarkInv
<1> SUFFICES ASSUME Init PROVE FlightInv /\ MarkInv
  OBVIOUS
<1>1. /\ \A t \in Tasks : pc[t] = "idle"
      /\ \A k \in Keys : flight[k] = None
      /\ refreshing = {}
  BY DEF Init
<1>2. FlightInv
  BY <1>1, TaskParts DEF FlightInv, LeadInv, FlownInv, WaitInv, SideInv, Active, Running
<1>3. RefreshOnce
  BY <1>1, TaskParts DEF RefreshOnce, Refreshes
<1> QED  BY <1>1, <1>2, <1>3, TaskParts DEF MarkInv, Refreshes

LEMMA NextFlight == VarsOK /\ FlightInv /\ [Next]_vars => FlightInv'
<1> SUFFICES ASSUME VarsOK, FlightInv, [Next]_vars PROVE FlightInv'
  OBVIOUS
<1> USE TaskParts, MarksAssumption DEF Active, Running, Completed
<1>1. ASSUME NEW q \in Queries, AnswerLocally(q) PROVE FlightInv'
  BY <1>1 DEF AnswerLocally, Goto, VarsOK, FlightInv, LeadInv, FlownInv, WaitInv, SideInv, task
<1>2. ASSUME NEW q \in Queries, Lookup(q) PROVE FlightInv'
  <2>1. \E p \in {"flight", "drop", "done", "refresh"} : pc' = [pc EXCEPT ![Main(q)] = p]
    BY <1>2 DEF Lookup, Goto
  <2> QED  BY <1>2, <2>1 DEF Lookup, VarsOK, FlightInv, LeadInv, FlownInv, WaitInv, SideInv, task
<1>3. ASSUME NEW q \in Queries, Drop(q) PROVE FlightInv'
  BY <1>3 DEF Drop, Goto, VarsOK, FlightInv, LeadInv, FlownInv, WaitInv, SideInv, task
<1>4. ASSUME NEW q \in Queries, RefreshStale(q) PROVE FlightInv'
  <2>1. CASE Busy(q)
    BY <1>4, <2>1 DEF RefreshStale, Busy, Goto, VarsOK, FlightInv, LeadInv, FlownInv, WaitInv, SideInv, task
  <2>2. CASE Begin(q, ensureDO(Main(q)))
    <3>1. pc[Main(q)] = "refresh" /\ pc[Side(q)] = "idle" /\ UNCHANGED <<flight, leader>>
      BY <1>4 DEF RefreshStale, FlightInv, SideInv
    <3>2. /\ pc' = [pc EXCEPT ![Main(q)] = "done", ![Side(q)] = "flight"]
          /\ \A t \in Tasks : t # Side(q) => key'[t] = key[t]
      BY <2>2 DEF Begin, VarsOK
    <3>3. LeadInv' /\ FlownInv'
      BY <3>1, <3>2 DEF VarsOK, FlightInv, LeadInv, FlownInv
    <3>4. WaitInv'
      BY <3>1, <3>2 DEF VarsOK, FlightInv, WaitInv
    <3>5. SideInv'
      BY <3>1, <3>2 DEF VarsOK, FlightInv, SideInv
    <3> QED  BY <3>3, <3>4, <3>5 DEF FlightInv
  <2> QED  BY <1>4, <2>1, <2>2 DEF RefreshStale
<1>5. ASSUME NEW q \in Queries, NEW name \in Names, NEW wants \in Variants, Arrive(q, name, wants)
      PROVE  FlightInv'
  BY <1>5 DEF Arrive, Goto, VarsOK, FlightInv, LeadInv, FlownInv, WaitInv, SideInv
<1>6. ASSUME NEW t \in Tasks, Do(t) PROVE FlightInv'
  <2>1. CASE flight[key[t]] = None /\ Lead(t)
    BY <1>6, <2>1 DEF Do, Lead, Goto, VarsOK, FlightInv, LeadInv, FlownInv, WaitInv, SideInv
  <2>2. CASE flight[key[t]] # None /\ Follow(t)
    BY <1>6, <2>2 DEF Do, Follow, Goto, VarsOK, FlightInv, LeadInv, FlownInv, WaitInv, SideInv
  <2> QED  BY <1>6, <2>1, <2>2 DEF Do
<1>7. ASSUME NEW t \in Tasks, NEW ttl \in BOOLEAN, Exchange(t, ttl) PROVE FlightInv'
  BY <1>7 DEF Exchange, Goto, VarsOK, FlightInv, LeadInv, FlownInv, WaitInv, SideInv, task
<1>8. ASSUME NEW t \in Tasks, ExchangeFails(t) PROVE FlightInv'
  BY <1>8 DEF ExchangeFails, Goto, VarsOK, FlightInv, LeadInv, FlownInv, WaitInv, SideInv, task
<1>9. ASSUME NEW t \in Tasks, Store(t) PROVE FlightInv'
  BY <1>9 DEF Store, Goto, VarsOK, FlightInv, LeadInv, FlownInv, WaitInv, SideInv, task
<1>10. ASSUME NEW t \in Tasks, Finish(t) PROVE FlightInv'
  BY <1>10 DEF Finish, Goto, VarsOK, FlightInv, LeadInv, FlownInv, WaitInv, SideInv, task
<1>11. ASSUME NEW t \in Tasks, Release(t) PROVE FlightInv'
  <2>1. pc' = [pc EXCEPT ![t] = IF IsMain(t) THEN "done" ELSE "unmark"]
    BY <1>11 DEF Release, Return, Goto
  <2>2. LeadInv' /\ FlownInv'
    BY <1>11, <2>1 DEF Release, VarsOK, FlightInv, LeadInv, FlownInv, task
  <2>3. WaitInv'
    BY <1>11, <2>1 DEF Release, VarsOK, FlightInv, WaitInv, task
  <2>4. SideInv'
    BY <1>11, <2>1 DEF Release, VarsOK, FlightInv, SideInv
  <2> QED  BY <2>2, <2>3, <2>4 DEF FlightInv
<1>12. ASSUME NEW t \in Tasks, Share(t) PROVE FlightInv'
  <2>1. pc' = [pc EXCEPT ![t] = IF IsMain(t) THEN "done" ELSE "unmark"]
    BY <1>12 DEF Share, Return, Goto
  <2>2. LeadInv' /\ FlownInv'
    BY <1>12, <2>1 DEF Share, VarsOK, FlightInv, LeadInv, FlownInv, task
  <2>3. WaitInv'
    BY <1>12, <2>1 DEF Share, VarsOK, FlightInv, WaitInv, task
  <2>4. SideInv'
    BY <1>12, <2>1 DEF Share, VarsOK, FlightInv, SideInv
  <2> QED  BY <2>2, <2>3, <2>4 DEF FlightInv
<1>13. ASSUME NEW t \in Tasks, Unmark(t) PROVE FlightInv'
  BY <1>13 DEF Unmark, Goto, VarsOK, FlightInv, LeadInv, FlownInv, WaitInv, SideInv, task
<1>14. ASSUME UNCHANGED <<flight, pc, key, leader>> PROVE FlightInv'
  BY <1>14 DEF FlightInv, LeadInv, FlownInv, WaitInv, SideInv
<1> QED  BY <1>1, <1>2, <1>3, <1>4, <1>5, <1>6, <1>7, <1>8, <1>9, <1>10, <1>11, <1>12, <1>13, <1>14
         DEF Next, Serve, GoUpstream, ApplySettings, TimePasses, ZoneChanges, vars, task

LEMMA NextMark == VarsOK /\ FlightInv /\ MarkInv /\ [Next]_vars => MarkInv'
<1> SUFFICES ASSUME VarsOK, FlightInv, MarkInv, [Next]_vars PROVE MarkInv'
  OBVIOUS
(* Steps that leave the refreshes where they are, or take one from a place   *)
(* of its run to another.                                                    *)
<1>1. ASSUME UNCHANGED refreshing,
             \A q \in Queries : pc'[Main(q)] # "unmark",
             \A q \in Queries : /\ Refreshes(q)' <=> Refreshes(q)
                                /\ Refreshes(q) => key'[Side(q)] = key[Side(q)]
      PROVE  MarkInv'
  <2>1. \A q \in Queries : Refreshes(q)' => key'[Side(q)] \in refreshing'
    BY <1>1 DEF MarkInv
  <2>2. \A k \in refreshing' : \E q \in Queries : key'[Side(q)] = k /\ Refreshes(q)'
    BY <1>1 DEF MarkInv
  <2>3. RefreshOnce'
    BY <1>1 DEF MarkInv, RefreshOnce
  <2> QED  BY <1>1, <2>1, <2>2, <2>3 DEF MarkInv
(* A step of one task that changes no key and no mark.                       *)
<1>2. ASSUME NEW t \in Tasks, NEW p \in Places \ {"idle"},
             UNCHANGED <<refreshing, key>>, pc' = [pc EXCEPT ![t] = p],
             IsMain(t) => p # "unmark",
             ~IsMain(t) => pc[t] \notin {"idle", "done"} /\ p # "done"
      PROVE  MarkInv'
  <2>1. \A q \in Queries : pc'[Main(q)] # "unmark"
    BY <1>2, TaskParts DEF MarkInv, VarsOK
  <2>2. \A q \in Queries : Refreshes(q)' <=> Refreshes(q)
    BY <1>2, TaskParts DEF Refreshes, VarsOK
  <2> QED  BY <1>1, <1>2, <2>1, <2>2
<1>3. ASSUME NEW q \in Queries, AnswerLocally(q) PROVE MarkInv'
  BY <1>2, <1>3, TaskParts DEF AnswerLocally, Goto, task, Places
<1>4. ASSUME NEW q \in Queries, Lookup(q) PROVE MarkInv'
  <2>1. \E p \in {"flight", "drop", "done", "refresh"} : pc' = [pc EXCEPT ![Main(q)] = p]
    BY <1>4 DEF Lookup, Goto
  <2> QED  BY <1>2, <1>4, <2>1, TaskParts DEF Lookup, task, Places
<1>5. ASSUME NEW q \in Queries, Drop(q) PROVE MarkInv'
  BY <1>2, <1>5, TaskParts DEF Drop, Goto, task, Places
<1>6. ASSUME NEW q \in Queries, RefreshStale(q) PROVE MarkInv'
  <2>1. CASE Busy(q)
    BY <1>2, <2>1, TaskParts DEF Busy, Goto, task, Places
  <2>2. CASE key[Main(q)] \notin refreshing /\ Begin(q, ensureDO(Main(q)))
    <3>1. pc[Side(q)] = "idle"
      BY <1>6 DEF RefreshStale, FlightInv, SideInv
    <3>2. /\ pc' = [pc EXCEPT ![Main(q)] = "done", ![Side(q)] = "flight"]
          /\ refreshing' = refreshing \cup {key[Main(q)]}
          /\ key'[Side(q)] = key[Main(q)] /\ \A t \in Tasks : t # Side(q) => key'[t] = key[t]
      BY <2>2, TaskParts DEF Begin, VarsOK
    <3>3. /\ Refreshes(q)' /\ ~Refreshes(q)
          /\ \A r \in Queries : pc'[Main(r)] # "unmark"
          /\ \A r \in Queries \ {q} : (Refreshes(r)' <=> Refreshes(r)) /\ key'[Side(r)] = key[Side(r)]
      BY <3>1, <3>2, TaskParts DEF Refreshes, VarsOK, MarkInv
    <3>4. \A r \in Queries : Refreshes(r)' => key'[Side(r)] \in refreshing'
      BY <3>2, <3>3 DEF MarkInv
    <3>5. \A k \in refreshing' : \E r \in Queries : key'[Side(r)] = k /\ Refreshes(r)'
      BY <3>2, <3>3 DEF MarkInv
    <3>6. RefreshOnce'
      BY <2>2, <3>2, <3>3 DEF MarkInv, RefreshOnce
    <3> QED  BY <3>3, <3>4, <3>5, <3>6 DEF MarkInv
  <2> QED  BY <1>6, <2>1, <2>2 DEF RefreshStale
<1>7. ASSUME NEW q \in Queries, NEW name \in Names, NEW wants \in Variants, Arrive(q, name, wants)
      PROVE  MarkInv'
  <2>1. /\ pc' = [pc EXCEPT ![Main(q)] = "lookup"] /\ UNCHANGED refreshing
        /\ \A t \in Tasks : t # Main(q) => key'[t] = key[t]
    BY <1>7, TaskParts DEF Arrive, Goto, VarsOK
  <2>2. /\ \A r \in Queries : pc'[Main(r)] # "unmark"
        /\ \A r \in Queries : (Refreshes(r)' <=> Refreshes(r)) /\ key'[Side(r)] = key[Side(r)]
    BY <2>1, TaskParts DEF Refreshes, VarsOK, MarkInv
  <2> QED  BY <1>1, <2>1, <2>2
<1>8. ASSUME NEW t \in Tasks, Do(t) PROVE MarkInv'
  <2>1. \E p \in {"exchange", "wait"} : pc' = [pc EXCEPT ![t] = p]
    BY <1>8 DEF Do, Lead, Follow, Goto
  <2> QED  BY <1>2, <1>8, <2>1 DEF Do, Places
<1>9. ASSUME NEW t \in Tasks, NEW ttl \in BOOLEAN, Exchange(t, ttl) PROVE MarkInv'
  BY <1>2, <1>9 DEF Exchange, Goto, task, Places
<1>10. ASSUME NEW t \in Tasks, ExchangeFails(t) PROVE MarkInv'
  BY <1>2, <1>10 DEF ExchangeFails, Goto, task, Places
<1>11. ASSUME NEW t \in Tasks, Store(t) PROVE MarkInv'
  BY <1>2, <1>11 DEF Store, Goto, task, Places
<1>12. ASSUME NEW t \in Tasks, Finish(t) PROVE MarkInv'
  BY <1>2, <1>12 DEF Finish, Goto, task, Places
<1>13. ASSUME NEW t \in Tasks, Release(t) \/ Share(t) PROVE MarkInv'
  <2>1. /\ pc' = [pc EXCEPT ![t] = IF IsMain(t) THEN "done" ELSE "unmark"]
        /\ UNCHANGED <<refreshing, key>> /\ pc[t] \in {"release", "wait"}
    BY <1>13 DEF Release, Share, Return, Goto, task
  <2> QED  BY <1>2, <2>1 DEF Places
<1>14. ASSUME NEW t \in Tasks, Unmark(t) PROVE MarkInv'
  <2>1. PICK q \in Queries : t = Side(q)
    BY <1>14, TaskParts DEF Unmark, MarkInv
  <2>2. /\ pc' = [pc EXCEPT ![Side(q)] = "done"] /\ pc[Side(q)] = "unmark"
        /\ refreshing' = refreshing \ {key[Side(q)]} /\ UNCHANGED key
    BY <1>14, <2>1 DEF Unmark, Goto, task
  <2>3. /\ Refreshes(q) /\ ~Refreshes(q)'
        /\ \A r \in Queries : pc'[Main(r)] # "unmark"
        /\ \A r \in Queries \ {q} : Refreshes(r)' <=> Refreshes(r)
    BY <2>2, TaskParts DEF Refreshes, VarsOK, MarkInv
  <2>4. \A r \in Queries : Refreshes(r)' => key'[Side(r)] \in refreshing'
    BY <2>2, <2>3 DEF MarkInv, RefreshOnce
  <2>5. \A k \in refreshing' : \E r \in Queries : key'[Side(r)] = k /\ Refreshes(r)'
    BY <2>2, <2>3 DEF MarkInv
  <2>6. RefreshOnce'
    BY <2>2, <2>3 DEF MarkInv, RefreshOnce
  <2> QED  BY <2>3, <2>4, <2>5, <2>6 DEF MarkInv
<1>15. ASSUME UNCHANGED <<refreshing, pc, key>> PROVE MarkInv'
  BY <1>1, <1>15 DEF MarkInv, Refreshes
<1> QED  BY <1>3, <1>4, <1>5, <1>6, <1>7, <1>8, <1>9, <1>10, <1>11, <1>12, <1>13, <1>14, <1>15
         DEF Next, Serve, GoUpstream, ApplySettings, TimePasses, ZoneChanges, vars, task

(* Whatever queries and refreshes of any settings go upstream, one exchange  *)
(* runs per question: singleflight.Do names one leader per key.              *)
THEOREM ExchangesAreSingle == Spec => []OneExchange
<1>1. Init => VarsOK /\ FlightInv
  BY InitVars, InitFlight
<1>2. VarsOK /\ FlightInv /\ [Next]_vars => (VarsOK /\ FlightInv)'
  BY NextVars, NextFlight
<1>3. FlightInv => OneExchange
  BY DEF FlightInv, LeadInv, OneExchange, Active
<1> QED  BY <1>1, <1>2, <1>3, PTL DEF Spec

(* refreshStale's mark keeps a question to one refresh at a time, and nobody *)
(* waits for a flight or is kept from refreshing by a mark that no running   *)
(* task will end.                                                            *)
THEOREM RefreshesAreSingle == Spec => [](RefreshOnce /\ NobodyStranded)
<1>1. Init => VarsOK /\ FlightInv /\ MarkInv
  BY InitVars, InitFlight
<1>2. VarsOK /\ FlightInv /\ MarkInv /\ [Next]_vars => (VarsOK /\ FlightInv /\ MarkInv)'
  BY NextVars, NextFlight, NextMark
<1>3. VarsOK /\ FlightInv /\ MarkInv => RefreshOnce /\ NobodyStranded
  BY DEF FlightInv, FlownInv, WaitInv, MarkInv, NobodyStranded, Active
<1> QED  BY <1>1, <1>2, <1>3, PTL DEF Spec

-----------------------------------------------------------------------------
(* What the caches hold.                                                     *)

(* Where an entry comes from: it was there before, possibly younger, or a    *)
(* task has just stored it in the cache of its runtime.                      *)
Stored(c, k) ==
  \E t \in Tasks :
    /\ pc[t] = "store" /\ result[t] \in Answers /\ Store(t)
    /\ mine[t].cache = c /\ key[t] = k
    /\ cache'[c][k].from = result[t].from /\ cache'[c][k].variant = result[t].variant
    /\ cache'[c][k].ver = result[t].ver
Kept(c, k) ==
  /\ k \in Held(c)
  /\ cache'[c][k].from = cache[c][k].from /\ cache'[c][k].variant = cache[c][k].variant
  /\ cache'[c][k].ver = cache[c][k].ver

LEMMA EntryOrigin ==
  ASSUME VarsOK, [Next]_vars, NEW c \in CacheIds, NEW k \in Keys, cache'[c][k] # None
  PROVE  Kept(c, k) \/ Stored(c, k)
<1>1. CASE cache'[c][k] = cache[c][k]
  BY <1>1 DEF Kept, Held
<1>2. ASSUME NEW q \in Queries, Drop(q) PROVE Kept(c, k)
  BY <1>1, <1>2, DropEffect DEF Kept, Held
<1>3. ASSUME NEW d \in CacheIds, NEW l \in Keys, TimePasses(d, l) PROVE Kept(c, k)
  <2>1. CASE d = c /\ l = k
    <3>1. cache[c][k] \in Entries /\ cache'[c][k] = [cache[c][k] EXCEPT !.age = Older[@]]
      BY <1>3, <2>1, TimeEffect
    <3>2. cache[c][k] # None
      BY <3>1, MarksAssumption
    <3> QED  BY <3>1, <3>2 DEF Kept, Held, Entries
  <2>2. CASE ~(d = c /\ l = k)
    <3>1. cache'[c][k] = cache[c][k]
      BY <1>3, <2>2 DEF TimePasses, VarsOK
    <3> QED  BY <3>1 DEF Kept, Held
  <2> QED  BY <2>1, <2>2
<1>4. ASSUME NEW t \in Tasks, Store(t), cache'[c][k] # cache[c][k] PROVE Stored(c, k)
  <2>1. /\ mine[t].cache \in CacheIds /\ key[t] \in Keys /\ result[t] \in Answers
        /\ Set(mine[t].cache, key[t], result[t])
    BY <1>4, StoreEffect
  <2>2. /\ cache'[mine[t].cache][key[t]] = Entry(result[t])
        /\ \A l \in Keys \ {key[t]} : cache'[mine[t].cache][l] \in {cache[mine[t].cache][l], None}
        /\ \A d \in CacheIds \ {mine[t].cache} : cache'[d] = cache[d]
    BY <2>1, SetEffect
  <2>3. mine[t].cache = c /\ key[t] = k
    BY <1>4, <2>2
  <2>4. pc[t] = "store"
    BY <1>4 DEF Store
  <2> QED  BY <1>4, <2>1, <2>2, <2>3, <2>4, EntryTyped DEF Stored
<1> QED  BY <1>1, <1>2, <1>3, <1>4, CacheSteps

(* Settings and runtimes change only when settings are applied; a task loads *)
(* the runtime in force, or takes over that of its query.                    *)
LEMMA RuntimeSteps ==
  ASSUME VarsOK, [Next]_vars
  PROVE  \/ \E s \in Offered : ApplySettings(s)
         \/ rt' = rt /\ caches' = caches /\ Runtimes' \subseteq Runtimes
<1>1. CASE \E s \in Offered : ApplySettings(s)
  BY <1>1
<1>2. CASE UNCHANGED <<resolver, mine>>
  BY <1>2 DEF resolver, Runtimes
<1>3. ASSUME NEW q \in Queries, NEW name \in Names, NEW wants \in Variants, Arrive(q, name, wants)
      PROVE  rt' = rt /\ caches' = caches /\ Runtimes' \subseteq Runtimes
  <2>1. rt' = rt /\ caches' = caches /\ mine' = [mine EXCEPT ![Main(q)] = rt]
    BY <1>3 DEF Arrive, resolver
  <2> QED  BY <2>1 DEF Runtimes, VarsOK
<1>4. ASSUME NEW q \in Queries, RefreshStale(q)
      PROVE  rt' = rt /\ caches' = caches /\ Runtimes' \subseteq Runtimes
  <2>1. rt' = rt /\ caches' = caches /\ mine' \in {mine, [mine EXCEPT ![Side(q)] = mine[Main(q)]]}
    BY <1>4 DEF RefreshStale, Busy, Begin, resolver, task
  <2> QED  BY <2>1, TaskParts DEF Runtimes, VarsOK
<1> QED  BY <1>1, <1>2, <1>3, <1>4
         DEF Next, Serve, GoUpstream, AnswerLocally, Lookup, Drop, Do, Exchange, ExchangeFails, Store,
             Finish, Release, Share, Unmark, TimePasses, ZoneChanges, vars, task, resolver

LEMMA RuntimesTyped == ASSUME VarsOK PROVE \A r \in Runtimes : r \in Runtime
BY DEF VarsOK, Runtimes

(* A task that is about to store was so before, or its exchange has just     *)
(* brought an answer.                                                        *)
Storing(t) == pc[t] = "store" /\ result'[t] = result[t] /\ mine'[t] = mine[t] /\ key'[t] = key[t]

LEMMA StoreComes ==
  ASSUME VarsOK, [Next]_vars, NEW t \in Tasks, pc'[t] = "store"
  PROVE  Storing(t) \/ \E ttl \in BOOLEAN : Exchange(t, ttl)
<1> USE TaskParts DEF Storing
<1>1. CASE UNCHANGED <<result, mine, pc, key>>
  BY <1>1
<1>2. ASSUME NEW q \in Queries, NEW name \in Names, NEW wants \in Variants, Arrive(q, name, wants)
      PROVE  Storing(t)
  BY <1>2 DEF Arrive, Goto, VarsOK
<1>3. ASSUME NEW q \in Queries, RefreshStale(q) PROVE Storing(t)
  <2>1. CASE Busy(q)
    BY <1>3, <2>1 DEF RefreshStale, Busy, Goto, VarsOK, task
  <2>2. CASE Begin(q, ensureDO(Main(q)))
    BY <1>3, <2>2 DEF RefreshStale, Begin, VarsOK
  <2> QED  BY <1>3, <2>1, <2>2 DEF RefreshStale
<1>4. ASSUME NEW u \in Tasks, NEW p \in Places \ {"store"}, pc' = [pc EXCEPT ![u] = p],
             UNCHANGED <<mine, key>>, \A v \in Tasks \ {u} : result'[v] = result[v]
      PROVE  Storing(t)
  BY <1>4 DEF VarsOK
<1>5. ASSUME NEW q \in Queries, AnswerLocally(q) \/ Lookup(q) \/ Drop(q) PROVE Storing(t)
  <2>1. \E p \in {"flight", "drop", "done", "refresh"} : pc' = [pc EXCEPT ![Main(q)] = p]
    BY <1>5 DEF AnswerLocally, Lookup, Drop, Goto
  <2>2. UNCHANGED <<mine, key, result>>
    BY <1>5 DEF AnswerLocally, Lookup, Drop, task
  <2> QED  BY <1>4, <2>1, <2>2 DEF Places
<1>6. ASSUME NEW u \in Tasks, Do(u) \/ ExchangeFails(u) \/ Store(u) \/ Finish(u) \/ Release(u)
                              \/ Share(u) \/ Unmark(u)
      PROVE  Storing(t)
  <2>1. \E p \in {"exchange", "wait", "finish", "release", "done", "unmark"} :
          pc' = [pc EXCEPT ![u] = p]
    BY <1>6 DEF Do, Lead, Follow, ExchangeFails, Store, Finish, Release, Share, Return, Unmark, Goto
  <2>2. UNCHANGED <<mine, key>> /\ \A v \in Tasks \ {u} : result'[v] = result[v]
    BY <1>6 DEF Do, ExchangeFails, Store, Finish, Release, Share, Unmark, task, VarsOK
  <2> QED  BY <1>4, <2>1, <2>2 DEF Places
<1>7. ASSUME NEW u \in Tasks \ {t}, NEW ttl \in BOOLEAN, Exchange(u, ttl) PROVE Storing(t)
  BY <1>7 DEF Exchange, Goto, VarsOK, task
<1> QED  BY <1>1, <1>2, <1>3, <1>5, <1>6, <1>7
         DEF Next, Serve, GoUpstream, ApplySettings, TimePasses, ZoneChanges, vars, task

(* A result about to be stored comes from the upstreams of its task.         *)
LEMMA NextResult ==
  ASSUME VarsOK, [Next]_vars, ResultInv PROVE ResultInv'
<1> SUFFICES ASSUME NEW t \in Tasks, pc'[t] = "store"
             PROVE  result'[t].from = mine'[t].settings.upstreams
  BY DEF ResultInv
<1>1. CASE Storing(t)
  BY <1>1 DEF Storing, ResultInv
<1>2. ASSUME NEW ttl \in BOOLEAN, Exchange(t, ttl) PROVE result'[t].from = mine'[t].settings.upstreams
  BY <1>2 DEF Exchange, Answer, VarsOK, task
<1> QED  BY <1>1, <1>2, StoreComes

LEMMA InitRuntime == Init => RuntimeInv
<1> SUFFICES ASSUME Init PROVE RuntimeInv
  OBVIOUS
<1>1. Runtimes = {rt} /\ rt.cache = caches /\ rt.cache \in {0, 1}
  BY DEF Init, Runtimes
<1>2. \A c \in CacheIds : Held(c) = {}
  BY DEF Init, Held
<1>3. \A t \in Tasks : pc[t] # "store"
  BY DEF Init
<1>4. rt.cache = NoCache \/ rt.cache \in CacheIds
  BY <1>1, AnswerAssumption DEF CacheIds
<1> QED  BY <1>1, <1>2, <1>3, <1>4 DEF RuntimeInv, NumberInv, AgreeInv, OriginInv, ResultInv

LEMMA NextRuntime == VarsOK /\ FlightInv /\ RuntimeInv /\ [Next]_vars => RuntimeInv'
<1> SUFFICES ASSUME VarsOK, FlightInv, RuntimeInv, [Next]_vars PROVE RuntimeInv'
  OBVIOUS
<1> USE DEF RuntimeInv
<1>1. ResultInv'
  BY NextResult
<1>2. \A r \in Runtimes : r.cache \in CacheIds \cup {NoCache}
  BY RuntimesTyped DEF Runtime
<1>3. ASSUME NEW s \in Offered, ApplySettings(s) PROVE RuntimeInv'
  <2>1. /\ UNCHANGED <<cache, mine>> /\ rt \in Runtimes
        /\ Runtimes' \subseteq Runtimes \cup {rt'}
        /\ \A c \in CacheIds : Held(c)' = Held(c)
    BY <1>3 DEF ApplySettings, Runtimes, Held, task
  <2>2. rt'.settings = s /\ caches \in Nat /\ caches' \in {caches, caches + 1}
    BY <1>3 DEF ApplySettings, VarsOK
  <2>3. \/ rt'.cache = NoCache
        \/ rt'.cache = rt.cache /\ rt.cache # NoCache /\ answerKey(rt.settings) = answerKey(s)
        \/ rt'.cache = caches + 1 /\ caches' = caches + 1
    BY <1>3 DEF ApplySettings
  <2>4. VarsOK'
    BY NextVars
  <2>5. rt'.cache \in CacheIds \cup {NoCache} /\ rt.cache \in CacheIds \cup {NoCache}
    BY <2>4 DEF VarsOK, Runtime
  <2>6. NumberInv'
    <3>1. \A r \in Runtimes : r.cache <= caches'
      BY <1>2, <2>2 DEF NumberInv, CacheIds
    <3>2. rt'.cache <= caches'
      BY <2>1, <2>2, <2>3, <3>1
    <3>3. \A c \in CacheIds : c > caches' => Held(c)' = {}
      BY <2>1, <2>2 DEF NumberInv, CacheIds
    <3> QED  BY <2>1, <3>1, <3>2, <3>3 DEF NumberInv
  <2>7. \A r \in Runtimes : r.cache = rt'.cache /\ r.cache # NoCache =>
          answerKey(r.settings) = answerKey(rt'.settings)
    <3>1. CASE rt'.cache = caches + 1
      BY <1>2, <2>2, <3>1 DEF NumberInv, CacheIds
    <3>2. CASE rt'.cache = rt.cache /\ rt.cache # NoCache /\ answerKey(rt.settings) = answerKey(s)
      BY <2>1, <2>2, <3>2 DEF AgreeInv
    <3> QED  BY <2>3, <3>1, <3>2
  <2>8. AgreeInv'
    BY <2>1, <2>7 DEF AgreeInv
  <2>9. OriginInv'
    <3>1. ASSUME rt'.cache # NoCache, NEW k \in Held(rt'.cache)
          PROVE  cache[rt'.cache][k].from = rt'.settings.upstreams
      <4>1. CASE rt'.cache = caches + 1
        BY <2>2, <2>5, <3>1, <4>1 DEF NumberInv, CacheIds
      <4>2. CASE rt'.cache = rt.cache /\ rt.cache # NoCache /\ answerKey(rt.settings) = answerKey(s)
        BY <2>1, <2>2, <3>1, <4>2 DEF OriginInv, answerKey
      <4> QED  BY <2>3, <3>1, <4>1, <4>2
    <3>2. ASSUME NEW r \in Runtimes', r.cache # NoCache, NEW k \in Held(r.cache)'
          PROVE  cache'[r.cache][k].from = r.settings.upstreams
      <4>1. r.cache \in CacheIds
        BY <1>2, <2>1, <2>5, <3>2
      <4>2. k \in Held(r.cache)
        BY <2>1, <3>2 DEF Held
      <4>3. CASE r \in Runtimes
        BY <2>1, <3>2, <4>2, <4>3 DEF OriginInv
      <4>4. CASE r = rt'
        BY <2>1, <3>1, <3>2, <4>2, <4>4
      <4> QED  BY <2>1, <4>3, <4>4
    <3> QED  BY <3>2 DEF OriginInv
  <2> QED  BY <1>1, <2>6, <2>8, <2>9
<1>4. ASSUME rt' = rt, caches' = caches, Runtimes' \subseteq Runtimes PROVE RuntimeInv'
  <2>1. AgreeInv'
    BY <1>4 DEF AgreeInv
  <2>2. ASSUME NEW c \in CacheIds, NEW k \in Held(c)', k \notin Held(c)
        PROVE  \E r \in Runtimes : r.cache = c
    <3>1. cache'[c][k] # None /\ k \in Keys
      BY <2>2 DEF Held
    <3>2. Stored(c, k)
      BY <2>2, <3>1, EntryOrigin DEF Kept
    <3> QED  BY <3>2 DEF Stored, Runtimes
  <2>3. NumberInv'
    <3>1. \A c \in CacheIds : c > caches' => Held(c)' = {}
      BY <1>2, <1>4, <2>2 DEF NumberInv, CacheIds, VarsOK
    <3> QED  BY <1>4, <3>1 DEF NumberInv
  <2>4. OriginInv'
    <3>1. ASSUME NEW r \in Runtimes, r.cache # NoCache, NEW k \in Held(r.cache)'
          PROVE  cache'[r.cache][k].from = r.settings.upstreams
      <4>1. r.cache \in CacheIds /\ k \in Keys /\ cache'[r.cache][k] # None
        BY <1>2, <3>1 DEF Held
      <4>2. CASE Kept(r.cache, k)
        BY <3>1, <4>2 DEF Kept, OriginInv
      <4>3. CASE Stored(r.cache, k)
        <5>1. PICK t \in Tasks : /\ pc[t] = "store" /\ mine[t].cache = r.cache
                                 /\ cache'[r.cache][k].from = result[t].from
          BY <4>3 DEF Stored
        <5>2. mine[t] \in Runtimes /\ result[t].from = mine[t].settings.upstreams
          BY <5>1 DEF Runtimes, ResultInv
        <5>3. answerKey(mine[t].settings) = answerKey(r.settings)
          BY <3>1, <5>1, <5>2 DEF AgreeInv
        <5> QED  BY <5>1, <5>2, <5>3 DEF answerKey
      <4> QED  BY <4>1, <4>2, <4>3, EntryOrigin
    <3> QED  BY <1>4, <3>1 DEF OriginInv
  <2> QED  BY <1>1, <2>1, <2>3, <2>4
<1> QED  BY <1>3, <1>4, RuntimeSteps

(* Answers of upstreams that ApplySettings has replaced never turn up in the *)
(* cache in force, whatever queries and refreshes of older settings store.   *)
THEOREM CacheIsOfTheUpstreamsInForce == Spec => []CacheFollowsUpstreams
<1>1. Init => VarsOK /\ FlightInv /\ RuntimeInv
  BY InitVars, InitFlight, InitRuntime
<1>2. VarsOK /\ FlightInv /\ RuntimeInv /\ [Next]_vars => (VarsOK /\ FlightInv /\ RuntimeInv)'
  BY NextVars, NextFlight, NextRuntime
<1>3. RuntimeInv => CacheFollowsUpstreams
  BY DEF RuntimeInv, OriginInv, Runtimes, CacheFollowsUpstreams
<1> QED  BY <1>1, <1>2, <1>3, PTL DEF Spec

-----------------------------------------------------------------------------
(* Ages of the answers.                                                      *)

LEMMA NextVersion == VarsOK /\ FlightInv /\ VersionInv /\ [Next]_vars => VersionInv'
<1> SUFFICES ASSUME VarsOK, FlightInv, VersionInv, [Next]_vars PROVE VersionInv'
  OBVIOUS
<1>0. VarsOK'
  BY NextVars
<1>1. zone \in Nat /\ zone' \in Nat /\ zone <= zone'
  <2>1. ZoneChanges \/ zone' = zone
    BY DEF Next, Serve, GoUpstream, AnswerLocally, Arrive, Lookup, Drop, RefreshStale, Do, Exchange,
           ExchangeFails, Store, Finish, Release, Share, Unmark, ApplySettings, TimePasses, vars
  <2> QED  BY <1>0, <2>1 DEF VarsOK, ZoneChanges
<1>2. \A c \in CacheIds : \A k \in Held(c) : cache[c][k].ver \in Nat
  BY DEF VarsOK, Held, Entries
<1>3. \A t \in Tasks : pc[t] = "store" => result[t].ver \in Nat
  BY DEF VarsOK, Answers
<1>4. ASSUME NEW c \in CacheIds, NEW k \in Held(c)'
      PROVE  cache'[c][k].ver \in Nat /\ cache'[c][k].ver <= zone
  <2>1. k \in Keys /\ cache'[c][k] # None
    BY <1>4 DEF Held
  <2>2. CASE Kept(c, k)
    BY <1>2, <2>2 DEF Kept, VersionInv
  <2>3. CASE Stored(c, k)
    BY <1>3, <2>3 DEF Stored, VersionInv
  <2> QED  BY <2>1, <2>2, <2>3, EntryOrigin
<1>5. ASSUME NEW t \in Tasks, NEW ttl \in BOOLEAN, Exchange(t, ttl)
      PROVE  /\ result'[t].ver = zone /\ zone' = zone
             /\ \A c \in CacheIds : key'[t] \in Held(c)' => cache'[c][key'[t]].ver <= zone
  BY <1>4, <1>5 DEF Exchange, Answer, VarsOK
<1>6. ASSUME NEW t \in Tasks, pc'[t] = "store", Storing(t), NEW c \in CacheIds, key[t] \in Held(c)'
      PROVE  cache'[c][key[t]].ver <= result[t].ver
  <2>1. key[t] \in Keys /\ cache'[c][key[t]] # None
    BY <1>6 DEF Held
  <2>2. CASE Kept(c, key[t])
    BY <1>6, <2>2 DEF Kept, Storing, VersionInv
  <2>3. CASE Stored(c, key[t])
    <3>1. PICK u \in Tasks : pc[u] = "store" /\ Store(u) /\ key[u] = key[t]
      BY <2>3 DEF Stored
    <3>2. u = t
      BY <1>6, <3>1 DEF Storing, FlightInv, LeadInv, Active, Running
    <3>3. pc'[t] = "finish"
      BY <3>1, <3>2 DEF Store, Goto, VarsOK
    <3> QED  BY <1>6, <3>3
  <2> QED  BY <2>1, <2>2, <2>3, EntryOrigin
<1>7. \A c \in CacheIds : \A k \in Held(c)' : cache'[c][k].ver <= zone'
  BY <1>1, <1>4
<1>8. ASSUME NEW t \in Tasks, pc'[t] = "store"
      PROVE  /\ result'[t].ver <= zone'
             /\ \A c \in CacheIds : key'[t] \in Held(c)' => cache'[c][key'[t]].ver <= result'[t].ver
  <2>1. CASE Storing(t)
    <3>1. result[t].ver <= zone /\ result[t].ver \in Nat /\ result'[t] = result[t] /\ key'[t] = key[t]
      BY <1>3, <2>1 DEF Storing, VersionInv
    <3> QED  BY <1>1, <1>6, <1>8, <2>1, <3>1
  <2>2. CASE \E ttl \in BOOLEAN : Exchange(t, ttl)
    BY <1>1, <1>5, <2>2
  <2> QED  BY <1>8, <2>1, <2>2, StoreComes
<1> QED  BY <1>7, <1>8 DEF VersionInv

(* forwardAndCache stores inside the flight, so a cached answer is never     *)
(* replaced by one an upstream gave before it.                               *)
THEOREM AnswersMoveForward == Spec => CacheMovesForward
<1>1. Init => VarsOK /\ FlightInv /\ VersionInv
  <2>1. Init => VersionInv
    BY DEF Init, VersionInv, Held
  <2> QED  BY <2>1, InitVars, InitFlight
<1>2. VarsOK /\ FlightInv /\ VersionInv /\ [Next]_vars => (VarsOK /\ FlightInv /\ VersionInv)'
  BY NextVars, NextFlight, NextVersion
<1>3. VarsOK /\ VersionInv /\ [Next]_vars =>
        [\A c \in CacheIds : \A k \in Keys :
           cache[c][k] # None /\ cache'[c][k] # None => cache'[c][k].ver >= cache[c][k].ver]_vars
  <2> SUFFICES ASSUME VarsOK, VersionInv, [Next]_vars, NEW c \in CacheIds, NEW k \in Keys,
                      cache[c][k] # None, cache'[c][k] # None
               PROVE  cache'[c][k].ver >= cache[c][k].ver
    OBVIOUS
  <2>1. k \in Held(c) /\ cache[c][k].ver \in Nat
    BY DEF Held, VarsOK, Entries
  <2>2. CASE Kept(c, k)
    BY <2>1, <2>2 DEF Kept
  <2>3. CASE Stored(c, k)
    <3>1. PICK t \in Tasks : /\ pc[t] = "store" /\ key[t] = k /\ result[t] \in Answers
                             /\ cache'[c][k].ver = result[t].ver
      BY <2>3 DEF Stored
    <3>2. result[t].ver \in Nat
      BY <3>1 DEF Answers
    <3> QED  BY <2>1, <3>1, <3>2 DEF VersionInv
  <2> QED  BY <2>2, <2>3, EntryOrigin
<1> QED  BY <1>1, <1>2, <1>3, PTL DEF Spec, CacheMovesForward

(* An entry leaves its cache only when Get finds it past its stale window,   *)
(* or when evictLocked makes room for another in a full shard.               *)
THEOREM EntriesStay == Spec => LiveEntriesStay
<1>1. Init => VarsOK
  BY InitVars
<1>2. VarsOK /\ [Next]_vars => VarsOK'
  BY NextVars
<1>3. VarsOK /\ [Next]_vars =>
        [\A c \in CacheIds : \A k \in Held(c) :
           cache'[c][k] = None =>
             \/ cache[c][k].age = "dead"
             \/ Cardinality(Held(c)) >= MaxItems /\ \E l \in Keys \ Held(c) : cache'[c][l] # None]_vars
  <2> SUFFICES ASSUME VarsOK, [Next]_vars, NEW c \in CacheIds, NEW k \in Held(c), cache'[c][k] = None
               PROVE  \/ cache[c][k].age = "dead"
                      \/ /\ Cardinality(Held(c)) >= MaxItems
                         /\ \E l \in Keys \ Held(c) : cache'[c][l] # None
    OBVIOUS
  <2>0. k \in Keys /\ cache[c][k] # None
    BY DEF Held
  <2>1. CASE UNCHANGED cache
    BY <2>0, <2>1
  <2>2. ASSUME NEW q \in Queries, Drop(q) PROVE cache[c][k].age = "dead"
    BY <2>0, <2>2, DropEffect
  <2>3. ASSUME NEW d \in CacheIds, NEW l \in Keys, TimePasses(d, l) PROVE FALSE
    BY <2>0, <2>3, TimeEffect
  <2>4. ASSUME NEW t \in Tasks, Store(t), cache' # cache
        PROVE  /\ Cardinality(Held(c)) >= MaxItems
               /\ \E l \in Keys \ Held(c) : cache'[c][l] # None
    <3> DEFINE d == mine[t].cache
               l == key[t]
               a == result[t]
    <3>1. d \in CacheIds /\ l \in Keys /\ a \in Answers /\ Set(d, l, a)
      BY <2>4, StoreEffect
    <3>2. /\ cache'[d][l] = Entry(a) /\ Entry(a) # None
          /\ \A e \in CacheIds \ {d} : cache'[e] = cache[e]
      BY <3>1, SetEffect, EntryTyped, MarksAssumption
    <3>3. c = d /\ k # l
      BY <2>0, <3>2
    <3>4. CASE cache[d][l] = None /\ Cardinality(Held(d)) >= MaxItems
      BY <3>1, <3>2, <3>3, <3>4 DEF Held
    <3>5. CASE ~(cache[d][l] = None /\ Cardinality(Held(d)) >= MaxItems)
      <4>1. cache' = [cache EXCEPT ![d][l] = Entry(a)]
        BY <3>1, <3>5 DEF Set
      <4> QED  BY <2>0, <3>1, <3>3, <4>1 DEF VarsOK
    <3> QED  BY <3>4, <3>5
  <2> QED  BY <2>1, <2>2, <2>3, <2>4, CacheSteps
<1> QED  BY <1>1, <1>2, <1>3, PTL DEF Spec, LiveEntriesStay

-----------------------------------------------------------------------------
(* Variants.                                                                 *)

(* What leaves a task, or the reply to a query, alone.                       *)
LEMMA TaskKeeps ==
  ASSUME NEW t \in Tasks, TaskFits(t), pc'[t] = pc[t], key'[t] = key[t], do'[t] = do[t],
         mine'[t] = mine[t], result'[t] = result[t]
  PROVE  TaskFits(t)'
BY DEF TaskFits, ensureDO

LEMMA ReplyKeeps ==
  ASSUME NEW q \in Queries, ReplyFits(q), pc[Main(q)] = "idle" \/ pc'[Main(q)] # "idle",
         key'[Main(q)] = key[Main(q)], got'[q] = got[q]
  PROVE  ReplyFits(q)'
BY DEF ReplyFits

(* A task that goes from one place to another, and changes nothing else.     *)
LEMMA TaskMoves ==
  ASSUME VarsOK, NEW t \in Tasks, NEW p \in Places, pc' = [pc EXCEPT ![t] = p],
         UNCHANGED <<task, result>>, \A u \in Tasks : TaskFits(u),
         \/ p \in {"store", "finish", "release", "done", "unmark", "wait"}
         \/ IsMain(t) /\ pc[t] = "lookup" /\ p \in {"flight", "drop", "refresh"}
         \/ IsMain(t) /\ pc[t] = "drop" /\ p = "flight"
  PROVE  \A u \in Tasks : TaskFits(u)'
<1> USE DEF task
<1>1. ASSUME NEW u \in Tasks \ {t} PROVE TaskFits(u)'
  BY <1>1, TaskKeeps DEF VarsOK
<1>2. TaskFits(t)'
  BY DEF TaskFits, ensureDO, VarsOK
<1> QED  BY <1>1, <1>2

LEMMA NextVariant == VarsOK /\ FlightInv /\ VariantInv /\ [Next]_vars => VariantInv'
<1> SUFFICES ASSUME VarsOK, FlightInv, VariantInv, [Next]_vars PROVE VariantInv'
  OBVIOUS
<1> DEFINE Tasks1   == \A t \in Tasks : TaskFits(t)
           Replies1 == \A q \in Queries : ReplyFits(q)
<1>0. CacheFits /\ Tasks1 /\ Replies1
  BY DEF VariantInv
<1> USE TaskParts
<1>1. CacheFits'
  <2> SUFFICES ASSUME NEW c \in CacheIds, NEW k \in Held(c)' PROVE cache'[c][k].variant = k[2]
    BY DEF CacheFits
  <2>1. k \in Keys /\ cache'[c][k] # None
    BY DEF Held
  <2>2. CASE Kept(c, k)
    BY <1>0, <2>2 DEF Kept, CacheFits
  <2>3. CASE Stored(c, k)
    BY <1>0, <2>3 DEF Stored, TaskFits
  <2> QED  BY <2>1, <2>2, <2>3, EntryOrigin
(* Steps that answer nobody and load no query.                               *)
<1>2. ASSUME UNCHANGED got, \A q \in Queries : key'[Main(q)] = key[Main(q)],
             \A q \in Queries : pc[Main(q)] = "idle" \/ pc'[Main(q)] # "idle"
      PROVE  Replies1'
  BY <1>0, <1>2, ReplyKeeps
(* A query gets what fits its key.                                           *)
<1>3. ASSUME NEW q \in Queries, NEW a, got' = [got EXCEPT ![q] = a], UNCHANGED key,
             pc'[Main(q)] # "idle", \A r \in Queries \ {q} : pc'[Main(r)] = pc[Main(r)],
             a \in Answers \cup Entries => a.variant = key[Main(q)][2]
      PROVE  Replies1'
  <2>1. ASSUME NEW r \in Queries \ {q} PROVE ReplyFits(r)'
    BY <1>0, <1>3, <2>1, ReplyKeeps DEF VarsOK
  <2>2. ReplyFits(q)'
    BY <1>3 DEF ReplyFits, VarsOK
  <2> QED  BY <2>1, <2>2
<1>4. ASSUME NEW q \in Queries, AnswerLocally(q) PROVE Tasks1' /\ Replies1'
  <2>1. /\ pc' = [pc EXCEPT ![Main(q)] = "done"] /\ UNCHANGED <<task, result>>
        /\ got' = [got EXCEPT ![q] = Local] /\ UNCHANGED key
    BY <1>4 DEF AnswerLocally, Goto, task
  <2>2. Tasks1'
    BY <1>0, <2>1, TaskMoves DEF Places
  <2>3. Local \notin Answers \cup Entries
    BY MarksAssumption
  <2>4. pc'[Main(q)] # "idle" /\ \A r \in Queries \ {q} : pc'[Main(r)] = pc[Main(r)]
    BY <2>1 DEF VarsOK
  <2> QED  BY <1>3, <2>1, <2>2, <2>3, <2>4
<1>5. ASSUME NEW q \in Queries, NEW name \in Names, NEW wants \in Variants, Arrive(q, name, wants)
      PROVE  Tasks1' /\ Replies1'
  <2>1. /\ pc[Main(q)] = "idle" /\ pc' = [pc EXCEPT ![Main(q)] = "lookup"]
        /\ mine' = [mine EXCEPT ![Main(q)] = rt] /\ do' = [do EXCEPT ![Main(q)] = wants]
        /\ key' = [key EXCEPT ![Main(q)] =
                     <<name, IF rt.settings.dnssec THEN "signed" ELSE wants>>]
        /\ UNCHANGED <<result, got>>
    BY <1>5 DEF Arrive, Goto
  <2>2. ASSUME NEW t \in Tasks \ {Main(q)} PROVE TaskFits(t)'
    BY <1>0, <2>1, <2>2, TaskKeeps DEF VarsOK
  <2>3. TaskFits(Main(q))'
    <3>1. result'[Main(q)] = None /\ None \notin Answers
      BY <1>0, <2>1, MarksAssumption DEF TaskFits
    <3>2. pc'[Main(q)] = "lookup" /\ ensureDO(Main(q))' = key'[Main(q)][2]
      BY <2>1 DEF ensureDO, VarsOK
    <3> QED  BY <3>1, <3>2 DEF TaskFits
  <2>4. ASSUME NEW r \in Queries \ {q} PROVE ReplyFits(r)'
    BY <1>0, <2>1, <2>4, ReplyKeeps DEF VarsOK
  <2>5. ReplyFits(q)'
    <3>1. got'[q] = None /\ pc'[Main(q)] = "lookup"
      BY <1>0, <2>1 DEF ReplyFits, VarsOK
    <3> QED  BY <3>1, MarksAssumption DEF ReplyFits
  <2> QED  BY <2>2, <2>3, <2>4, <2>5
<1>6. ASSUME NEW q \in Queries, Lookup(q) PROVE Tasks1' /\ Replies1'
  <2> DEFINE t == Main(q)
             c == mine[t].cache
             e == IF c = NoCache THEN None ELSE cache[c][key[t]]
  <2>1. \E p \in {"flight", "drop", "done", "refresh"} : pc' = [pc EXCEPT ![t] = p]
    BY <1>6 DEF Lookup, Goto
  <2>2. UNCHANGED <<task, result>> /\ pc[t] = "lookup"
    BY <1>6 DEF Lookup
  <2>3. Tasks1'
    BY <1>0, <2>1, <2>2, TaskMoves DEF Places
  <2>4. UNCHANGED key /\ pc'[t] # "idle" /\ \A r \in Queries \ {q} : pc'[Main(r)] = pc[Main(r)]
    BY <2>1, <2>2 DEF task, VarsOK
  <2>5. CASE UNCHANGED got
    BY <1>2, <2>3, <2>4, <2>5
  <2>6. CASE e # None /\ got' = [got EXCEPT ![q] = e]
    <3>1. c \in CacheIds /\ key[t] \in Held(c)
      BY <2>6 DEF VarsOK, Runtime, Held
    <3>2. e.variant = key[t][2]
      BY <1>0, <2>6, <3>1 DEF CacheFits
    <3> QED  BY <1>3, <2>3, <2>4, <2>6, <3>2
  <2> QED  BY <1>6, <2>5, <2>6 DEF Lookup
<1>7. ASSUME NEW q \in Queries, Drop(q) PROVE Tasks1' /\ Replies1'
  <2>1. /\ pc[Main(q)] = "drop" /\ pc' = [pc EXCEPT ![Main(q)] = "flight"]
        /\ UNCHANGED <<task, result>> /\ UNCHANGED <<key, got>>
    BY <1>7 DEF Drop, Goto, task
  <2>2. Tasks1'
    BY <1>0, <2>1, TaskMoves DEF Places
  <2> QED  BY <1>2, <2>1, <2>2 DEF VarsOK
<1>8. ASSUME NEW q \in Queries, RefreshStale(q) PROVE Tasks1' /\ Replies1'
  <2>1. CASE Busy(q)
    <3>1. /\ pc' = [pc EXCEPT ![Main(q)] = "done"]
          /\ UNCHANGED <<task, result>> /\ UNCHANGED <<key, got>>
      BY <1>8, <2>1 DEF RefreshStale, Busy, Goto, task
    <3>2. Tasks1'
      BY <1>0, <3>1, TaskMoves DEF Places
    <3> QED  BY <1>2, <3>1, <3>2 DEF VarsOK
  <2>2. CASE Begin(q, ensureDO(Main(q)))
    <3>1. /\ pc' = [pc EXCEPT ![Main(q)] = "done", ![Side(q)] = "flight"]
          /\ mine' = [mine EXCEPT ![Side(q)] = mine[Main(q)]]
          /\ key' = [key EXCEPT ![Side(q)] = key[Main(q)]]
          /\ do' = [do EXCEPT ![Side(q)] = ensureDO(Main(q))]
          /\ UNCHANGED <<result, got>>
          /\ pc[Main(q)] = "refresh" /\ pc[Side(q)] = "idle"
      BY <1>8, <2>2 DEF RefreshStale, Begin, FlightInv, SideInv
    <3>2. ASSUME NEW t \in Tasks \ {Main(q), Side(q)} PROVE TaskFits(t)'
      BY <1>0, <3>1, <3>2, TaskKeeps DEF VarsOK
    <3>3. TaskFits(Main(q))'
      BY <1>0, <3>1 DEF TaskFits, VarsOK
    <3>4. TaskFits(Side(q))'
      <4>1. result'[Side(q)] = None /\ None \notin Answers
        BY <1>0, <3>1, MarksAssumption DEF TaskFits
      <4>2. ensureDO(Main(q)) = key[Main(q)][2]
        BY <1>0, <3>1 DEF TaskFits
      <4>3. pc'[Side(q)] = "flight" /\ do'[Side(q)] = key'[Side(q)][2]
        BY <3>1, <4>2 DEF VarsOK
      <4>4. mine'[Side(q)] = mine[Main(q)] /\ do'[Side(q)] = ensureDO(Main(q))
        BY <3>1 DEF VarsOK
      <4>5. ensureDO(Side(q))' = do'[Side(q)]
        BY <4>4 DEF ensureDO
      <4> QED  BY <4>1, <4>3, <4>5 DEF TaskFits
    <3>5. Tasks1'
      BY <3>2, <3>3, <3>4
    <3>6. Replies1'
      BY <1>2, <3>1 DEF VarsOK
    <3> QED  BY <3>5, <3>6
  <2> QED  BY <1>8, <2>1, <2>2 DEF RefreshStale
<1>9. ASSUME NEW t \in Tasks, Do(t) PROVE Tasks1' /\ Replies1'
  <2>1. /\ pc[t] = "flight" /\ UNCHANGED <<mine, key, result, got>>
        /\ do' = [do EXCEPT ![t] = IF IsMain(t) THEN ensureDO(t) ELSE @]
        /\ \E p \in {"exchange", "wait"} : pc' = [pc EXCEPT ![t] = p]
    BY <1>9 DEF Do, Prepare, Lead, Follow, Goto
  <2>2. ASSUME NEW u \in Tasks \ {t} PROVE TaskFits(u)'
    BY <1>0, <2>1, <2>2, TaskKeeps DEF VarsOK
  <2>3. TaskFits(t)'
    <3>1. do'[t] = key[t][2]
      BY <1>0, <2>1 DEF TaskFits, VarsOK
    <3>2. result'[t] = None /\ None \notin Answers /\ pc'[t] \in {"exchange", "wait"} /\ key' = key
      BY <1>0, <2>1, MarksAssumption DEF TaskFits, VarsOK
    <3> QED  BY <3>1, <3>2 DEF TaskFits
  <2>4. Replies1'
    BY <1>2, <2>1 DEF VarsOK
  <2> QED  BY <2>2, <2>3, <2>4
<1>10. ASSUME NEW t \in Tasks, NEW a \in Answers \cup {Failed}, NEW p \in {"store", "finish"},
              pc[t] = "exchange", pc' = [pc EXCEPT ![t] = p], result' = [result EXCEPT ![t] = a],
              UNCHANGED <<task, got>>, a \in Answers => a.variant = do[t]
       PROVE  Tasks1' /\ Replies1'
  <2> USE DEF task
  <2>1. ASSUME NEW u \in Tasks \ {t} PROVE TaskFits(u)'
    BY <1>0, <1>10, <2>1, TaskKeeps DEF VarsOK
  <2>2. TaskFits(t)'
    BY <1>0, <1>10 DEF TaskFits, VarsOK
  <2>3. Replies1'
    BY <1>2, <1>10 DEF VarsOK
  <2> QED  BY <2>1, <2>2, <2>3
<1>11. ASSUME NEW t \in Tasks, NEW ttl \in BOOLEAN, Exchange(t, ttl) PROVE Tasks1' /\ Replies1'
  <2>1. Answer(t, ttl) \in Answers /\ Answer(t, ttl).variant = do[t]
    BY AnswerTyped DEF Answer
  <2> QED  BY <1>10, <1>11, <2>1 DEF Exchange, Goto
<1>12. ASSUME NEW t \in Tasks, ExchangeFails(t) PROVE Tasks1' /\ Replies1'
  BY <1>10, <1>12, MarksAssumption DEF ExchangeFails, Goto
<1>13. ASSUME NEW t \in Tasks, Store(t) \/ Finish(t) \/ Unmark(t) PROVE Tasks1' /\ Replies1'
  <2>1. /\ \E p \in {"finish", "release", "done"} : pc' = [pc EXCEPT ![t] = p]
        /\ UNCHANGED <<task, result>> /\ UNCHANGED <<key, got>>
    BY <1>13 DEF Store, Finish, Unmark, Goto, task
  <2>2. Tasks1'
    BY <1>0, <2>1, TaskMoves DEF Places
  <2> QED  BY <1>2, <2>1, <2>2 DEF VarsOK
<1>14. ASSUME NEW t \in Tasks, NEW l \in Tasks, key[l] = key[t], Return(t, result[l]),
              UNCHANGED <<task, result>>
       PROVE  Tasks1' /\ Replies1'
  <2>1. \E p \in {"done", "unmark"} : pc' = [pc EXCEPT ![t] = p]
    BY <1>14 DEF Return, Goto
  <2>2. Tasks1'
    BY <1>0, <1>14, <2>1, TaskMoves DEF Places
  <2>3. UNCHANGED key
    BY <1>14 DEF task
  <2>4. CASE ~IsMain(t)
    BY <1>2, <1>14, <2>1, <2>2, <2>3, <2>4 DEF Return, VarsOK
  <2>5. CASE IsMain(t)
    <3>1. PICK q \in Queries : t = Main(q) /\ t[1] = q
      BY <2>5
    <3>2. got' = [got EXCEPT ![q] = result[l]] /\ pc' = [pc EXCEPT ![Main(q)] = "done"]
      BY <1>14, <2>5, <3>1 DEF Return, Goto
    <3>3. result[l] \in Answers \cup Entries => result[l].variant = key[Main(q)][2]
      BY <1>0, <1>14, <3>1, MarksAssumption DEF TaskFits, VarsOK
    <3>4. pc'[Main(q)] # "idle" /\ \A r \in Queries \ {q} : pc'[Main(r)] = pc[Main(r)]
      BY <3>2 DEF VarsOK
    <3> QED  BY <1>3, <2>2, <2>3, <3>2, <3>3, <3>4
  <2> QED  BY <2>4, <2>5
<1>15. ASSUME NEW t \in Tasks, Release(t) PROVE Tasks1' /\ Replies1'
  BY <1>14, <1>15 DEF Release
<1>16. ASSUME NEW t \in Tasks, Share(t) PROVE Tasks1' /\ Replies1'
  <2>1. leader[t] \in Tasks /\ key[leader[t]] = key[t]
    BY <1>16 DEF Share, FlightInv, WaitInv, VarsOK
  <2> QED  BY <1>14, <1>16, <2>1 DEF Share
<1>17. ASSUME UNCHANGED <<pc, task, result, got>> PROVE Tasks1' /\ Replies1'
  <2>1. \A t \in Tasks : TaskFits(t)'
    BY <1>0, <1>17, TaskKeeps DEF task
  <2> QED  BY <1>2, <1>17, <2>1 DEF task
<1>18. Tasks1' /\ Replies1'
  BY <1>4, <1>5, <1>6, <1>7, <1>8, <1>9, <1>11, <1>12, <1>13, <1>15, <1>16, <1>17
     DEF Next, Serve, GoUpstream, ApplySettings, TimePasses, ZoneChanges, vars
<1> QED  BY <1>1, <1>18 DEF VariantInv

(* Whichever query, refresh or settings had an answer fetched, ensureDO and  *)
(* the forward key see to it that a client gets the variant it is owed.      *)
THEOREM VariantsFit == Spec => []VariantFits
<1>1. Init => VarsOK /\ FlightInv /\ VariantInv
  <2> SUFFICES ASSUME Init PROVE VariantInv
    BY InitVars, InitFlight
  <2>1. /\ \A t \in Tasks : pc[t] = "idle" /\ result[t] = None
        /\ \A q \in Queries : got[q] = None
        /\ \A c \in CacheIds : Held(c) = {}
    BY DEF Init, Held
  <2> QED  BY <2>1, MarksAssumption DEF VariantInv, CacheFits, TaskFits, ReplyFits
<1>2. VarsOK /\ FlightInv /\ VariantInv /\ [Next]_vars => (VarsOK /\ FlightInv /\ VariantInv)'
  BY NextVars, NextFlight, NextVariant
<1>3. VarsOK /\ VariantInv => VariantFits
  BY DEF VarsOK, VariantInv, CacheFits, ReplyFits, VariantFits
<1> QED  BY <1>1, <1>2, <1>3, PTL DEF Spec

-----------------------------------------------------------------------------
(* How one query is forwarded.                                             *)

Exchanges == [who : Ups, outcome : Outcomes]
TookRes   == {took[i] : i \in 1 .. Len(took)}
TookWho   == {t.who : t \in TookRes}
ChanWho   == {results[i].who : i \in 1 .. Len(results)}
AskedSet  == {u \in Ups : asked[u] # "idle"}
Out       == AskedSet \ TookWho

ForwardTypes ==
  /\ hedged \in BOOLEAN /\ launched \in BOOLEAN /\ spent \in BOOLEAN
  /\ n \in 1 .. MaxUpstreams /\ asked \in [Ups -> {"idle", "running", "done"}]
  /\ results \in Seq(Exchanges) /\ took \in Seq(Exchanges)
  /\ next \in 2 .. n + 1 /\ slow \subseteq Ups
  /\ soft \in Exchanges \cup {Nobody} /\ ret \in Exchanges \cup {Pending, Failure}

\* An exchange that is over is in the channel or was taken from it, and not twice.
ResultsInv ==
  /\ \A i, j \in 1 .. Len(results) : i # j => results[i].who # results[j].who
  /\ {u \in Ups : asked[u] = "done"} = ChanWho \cup TookWho
  /\ ChanWho \cap TookWho = {}

\* Which upstreams were asked, and what the timer waits for.
AskedInv ==
  /\ ~hedged => \A u \in Ups : asked[u] = "idle" <=> u >= next
  /\ ~hedged /\ n > 1 => timer \in {"step", "budget"} /\ (next > n => timer = "budget")
  /\ hedged => asked[1] # "idle" /\ \A u \in Behind : asked[u] = "idle" <=> ~launched
  /\ hedged => (timer = "hedge" <=> (~launched /\ n > 1))

WaitingInv == Waits =>
  /\ pending = Cardinality(Out)
  /\ \A t \in TookRes : t.outcome # "answer"
  /\ soft = Nobody => \A t \in TookRes : t.outcome = "error"
  /\ soft # Nobody => soft \in TookRes /\ soft.outcome \in {"servfail", "refused"}
  /\ soft.outcome = "refused" => \A t \in TookRes : t.outcome # "servfail"

ReturnedInv == ~Waits =>
  /\ ret # Failure => ret \in TookRes
  /\ ret.outcome # "answer" => \A t \in TookRes : t.outcome # "answer"
  /\ ret.outcome = "refused" => \A t \in TookRes : t.outcome # "servfail"
  /\ ret = Failure => \A t \in TookRes : t.outcome = "error"
  /\ ret.outcome \in {"servfail", "refused", "error"} /\ ~spent => Ups \subseteq TookWho

DueInv ==
  /\ ~hedged => \A u \in Ups \ {1} : asked[u] # "idle" =>
       u - 1 \in slow \/ \E t \in TookRes : t.who = u - 1 /\ t.outcome # "answer"
  /\ hedged => \A u \in Behind : asked[u] # "idle" => 1 \in slow \/ \E t \in TookRes : t.outcome # "answer"

ForwardIInv == ForwardTypes /\ ResultsInv /\ AskedInv /\ WaitingInv /\ ReturnedInv /\ DueInv

LEMMA EndingsAreOutcomes == Endings \subseteq Outcomes
BY DEF Endings, Outcomes, PlainExchange, DohExchange

LEMMA CountAdd ==
  ASSUME NEW S, IsFiniteSet(S), NEW x, x \notin S
  PROVE  IsFiniteSet(S \cup {x}) /\ Cardinality(S \cup {x}) = Cardinality(S) + 1 /\ Cardinality(S) \in Nat
BY FS_AddElement, FS_CardinalityType

LEMMA CountLess ==
  ASSUME NEW S, IsFiniteSet(S), NEW x \in S
  PROVE  IsFiniteSet(S \ {x}) /\ Cardinality(S \ {x}) = Cardinality(S) - 1 /\ Cardinality(S) \in Nat
BY FS_RemoveElement, FS_CardinalityType

LEMMA CountJoin ==
  ASSUME NEW S, NEW T, IsFiniteSet(S), IsFiniteSet(T), S \cap T = {}
  PROVE  IsFiniteSet(S \cup T) /\ Cardinality(S \cup T) = Cardinality(S) + Cardinality(T)
<1>1. IsFiniteSet(S \cup T) /\ Cardinality(S \cup T) = Cardinality(S) + Cardinality(T) - Cardinality(S \cap T)
  BY FS_Union
<1>2. Cardinality(S \cap T) = 0
  BY FS_EmptySet
<1> QED BY <1>1, <1>2, FS_CardinalityType

\* The upstreams that are out are no more than there are.
LEMMA OutIsFinite ==
  ASSUME ForwardTypes
  PROVE  IsFiniteSet(Ups) /\ IsFiniteSet(Out) /\ n \in Nat \ {0} /\ Cardinality(Ups) = n /\ AskedSet \subseteq Ups
<1>1. n \in Nat \ {0}
  BY ForwardingAssumption DEF ForwardTypes
<1>2. IsFiniteSet(Ups) /\ Cardinality(Ups) = n
  BY <1>1, FS_Interval DEF Ups
<1>3. Out \subseteq Ups /\ AskedSet \subseteq Ups
  BY DEF Out, AskedSet
<1> QED BY <1>1, <1>2, <1>3, FS_Subset

\* What is taken was in the channel, and is not any more.
LEMMA TakenOnce ==
  ASSUME ForwardTypes, ResultsInv, Takes
  PROVE  LET r == Head(results) IN
         /\ r \in Exchanges /\ asked[r.who] = "done" /\ r.who \notin TookWho
         /\ took' \in Seq(Exchanges) /\ results' \in Seq(Exchanges)
         /\ TookRes' = TookRes \cup {r} /\ TookWho' = TookWho \cup {r.who}
         /\ ChanWho' = ChanWho \ {r.who} /\ r.who \in ChanWho
         /\ \A i, j \in 1 .. Len(results') : i # j => results'[i].who # results'[j].who
<1> DEFINE r == Head(results)
<1>1. results \in Seq(Exchanges) /\ results # <<>> /\ took \in Seq(Exchanges) /\ results' = Tail(results) /\ took' = Append(took, r)
  BY DEF ForwardTypes, Takes
<1>2. r \in Exchanges /\ Len(results) \in Nat \ {0} /\ r = results[1]
  BY <1>1
<1>3. took' \in Seq(Exchanges) /\ results' \in Seq(Exchanges)
  BY <1>1, <1>2
<1>4. Len(results') = Len(results) - 1 /\ \A i \in 1 .. Len(results') : results'[i] = results[i + 1]
  BY <1>1
<1>5. Len(took') = Len(took) + 1 /\ took'[Len(took) + 1] = r /\ \A i \in 1 .. Len(took) : took'[i] = took[i]
  BY <1>1, <1>2
<1>6. Len(took) \in Nat
  BY <1>1
<1> HIDE DEF r
<1>7. TookRes' = TookRes \cup {r}
  <2>1. \A t \in TookRes' : t \in TookRes \cup {r}
    BY <1>5, <1>6 DEF TookRes
  <2>2. TookRes \subseteq TookRes'
    BY <1>5, <1>6 DEF TookRes
  <2>3. r \in TookRes'
    BY <1>5, <1>6 DEF TookRes
  <2> QED BY <2>1, <2>2, <2>3
<1>8. TookWho' = TookWho \cup {r.who}
  BY <1>7 DEF TookWho
<1>9. r.who \in ChanWho
  BY <1>2 DEF ChanWho
<1>10. r.who \notin TookWho
  BY <1>9 DEF ResultsInv
<1>11. asked[r.who] = "done"
  BY <1>9 DEF ResultsInv
<1>12. ChanWho' = ChanWho \ {r.who}
  <2>1. \A w \in ChanWho' : w \in ChanWho /\ w # r.who
    <3> TAKE w \in ChanWho'
    <3>1. PICK i \in 1 .. Len(results') : w = results'[i].who
      BY DEF ChanWho
    <3>2. i + 1 \in 1 .. Len(results) /\ i + 1 # 1 /\ w = results[i + 1].who
      BY <1>2, <1>4, <3>1
    <3> QED BY <1>2, <3>2 DEF ChanWho, ResultsInv
  <2>2. \A w \in ChanWho : w # r.who => w \in ChanWho'
    <3> SUFFICES ASSUME NEW w \in ChanWho, w # r.who PROVE w \in ChanWho'
      OBVIOUS
    <3>1. PICK i \in 1 .. Len(results) : w = results[i].who
      BY DEF ChanWho
    <3>2. i # 1
      BY <1>2, <3>1
    <3>3. i - 1 \in 1 .. Len(results') /\ results'[i - 1] = results[(i - 1) + 1]
      BY <1>2, <1>4, <3>2
    <3>4. (i - 1) + 1 = i
      OBVIOUS
    <3>5. w = results'[i - 1].who
      BY <3>1, <3>3, <3>4
    <3> QED BY <3>3, <3>5 DEF ChanWho
  <2> QED BY <2>1, <2>2
<1>13. \A i, j \in 1 .. Len(results') : i # j => results'[i].who # results'[j].who
  <2> SUFFICES ASSUME NEW i \in 1 .. Len(results'), NEW j \in 1 .. Len(results'), i # j PROVE results'[i].who # results'[j].who
    OBVIOUS
  <2>1. i + 1 \in 1 .. Len(results) /\ j + 1 \in 1 .. Len(results) /\ i + 1 # j + 1
    BY <1>2, <1>4
  <2>2. results[i + 1].who # results[j + 1].who
    BY <2>1 DEF ResultsInv
  <2> QED BY <1>4, <2>2
<1> QED BY <1>2, <1>3, <1>7, <1>8, <1>9, <1>10, <1>11, <1>12, <1>13 DEF r

\* Goroutines are started for upstreams nobody asked yet.
LEMMA Launched ==
  ASSUME ForwardTypes, NEW L, \A u \in L : u \in Ups /\ asked[u] = "idle", Launch(L), n' = n
  PROVE  /\ asked' \in [Ups' -> {"idle", "running", "done"}] /\ Ups' = Ups
         /\ {u \in Ups' : asked'[u] = "done"} = {u \in Ups : asked[u] = "done"}
         /\ AskedSet' = AskedSet \cup L /\ AskedSet \cap L = {}
         /\ \A u \in Ups : asked'[u] = IF u \in L THEN "running" ELSE asked[u]
<1>1. Ups' = Ups
  BY DEF Ups
<1>2. asked' = [u \in Ups |-> IF u \in L THEN "running" ELSE asked[u]] /\ asked \in [Ups -> {"idle", "running", "done"}]
  BY DEF Launch, ForwardTypes
<1>3. \A u \in Ups : asked'[u] = IF u \in L THEN "running" ELSE asked[u]
  BY <1>2
<1>4. asked' \in [Ups' -> {"idle", "running", "done"}]
  BY <1>1, <1>2
<1>5. {u \in Ups' : asked'[u] = "done"} = {u \in Ups : asked[u] = "done"}
  BY <1>1, <1>3
<1>6. AskedSet' = AskedSet \cup L /\ AskedSet \cap L = {}
  BY <1>1, <1>3 DEF AskedSet
<1> QED BY <1>1, <1>3, <1>4, <1>5, <1>6

LEMMA NoneLaunched == ASSUME ForwardTypes, asked' = asked PROVE Launch({})
BY DEF ForwardTypes, Launch

\* After something was taken and others were asked.
LEMMA ChannelAfterTake ==
  ASSUME ForwardTypes, ResultsInv, Takes, NEW L, \A u \in L : u \in Ups /\ asked[u] = "idle", Launch(L), n' = n
  PROVE  /\ ResultsInv' /\ Head(results).who \in Out
         /\ Out' = (Out \ {Head(results).who}) \cup L /\ Out \cap L = {}
<1>1. ResultsInv'
  BY TakenOnce, Launched DEF ResultsInv
<1>2. Head(results).who \in Out
  BY TakenOnce DEF Out, AskedSet, Exchanges
<1>3. L \cap TookWho = {} /\ Head(results).who \notin L
  BY TakenOnce DEF ResultsInv
<1>4. Out' = (Out \ {Head(results).who}) \cup L /\ Out \cap L = {}
  BY <1>3, TakenOnce, Launched DEF Out
<1> QED BY <1>1, <1>2, <1>4

\* What is remembered of results that are no answer.
LEMMA Remembered ==
  ASSUME ForwardTypes, ResultsInv, WaitingInv, Waits, Takes, Head(results).outcome # "answer", Remembers(Head(results))
  PROVE  /\ soft' \in Exchanges \cup {Nobody}
         /\ \A t \in TookRes' : t.outcome # "answer"
         /\ soft' = Nobody => \A t \in TookRes' : t.outcome = "error"
         /\ soft' # Nobody => soft' \in TookRes' /\ soft'.outcome \in {"servfail", "refused"}
         /\ soft'.outcome = "refused" => \A t \in TookRes' : t.outcome # "servfail"
<1> DEFINE r == Head(results)
<1>1. r \in Exchanges /\ TookRes' = TookRes \cup {r}
  BY TakenOnce
<1>2. r.outcome \in {"servfail", "refused", "error"} /\ r # Nobody
  BY <1>1 DEF Exchanges, Outcomes, Nobody
<1>3. soft' = IF softFailure(r.outcome) THEN betterSoft(soft, r) ELSE soft
  BY DEF Remembers
<1>4. Nobody.outcome = "none"
  BY DEF Nobody
<1>5. /\ \A t \in TookRes : t.outcome # "answer"
      /\ soft = Nobody => \A t \in TookRes : t.outcome = "error"
      /\ soft # Nobody => soft \in TookRes /\ soft.outcome \in {"servfail", "refused"}
      /\ soft.outcome = "refused" => \A t \in TookRes : t.outcome # "servfail"
  BY DEF WaitingInv
<1>6. soft \in Exchanges \cup {Nobody}
  BY DEF ForwardTypes
<1> HIDE DEF r
<1>7. CASE r.outcome = "error"
  <2>1. soft' = soft
    BY <1>3, <1>7 DEF softFailure
  <2> QED BY <1>1, <1>4, <1>5, <1>6, <1>7, <2>1
<1>8. CASE r.outcome # "error"
  <2>1. soft' = betterSoft(soft, r)
    BY <1>2, <1>3, <1>8 DEF softFailure
  <2>2. CASE soft = Nobody
    BY <1>1, <1>2, <1>4, <1>5, <1>8, <2>1, <2>2 DEF betterSoft
  <2>3. CASE soft # Nobody /\ soft.outcome # "servfail" /\ r.outcome = "servfail"
    BY <1>1, <1>2, <1>4, <1>5, <1>8, <2>1, <2>3 DEF betterSoft
  <2>4. CASE soft # Nobody /\ ~(soft.outcome # "servfail" /\ r.outcome = "servfail")
    BY <1>1, <1>2, <1>4, <1>5, <1>6, <1>8, <2>1, <2>4 DEF betterSoft
  <2> QED BY <2>2, <2>3, <2>4
<1> QED BY <1>1, <1>2, <1>5, <1>7, <1>8 DEF r

\* What FinishWith returns is no promise of more, and no answer.
LEMMA FinishIsOver ==
  ASSUME NEW best, best \in Exchanges \cup {Nobody}, n \in 1 .. MaxUpstreams,
         best # Nobody => best.outcome \in {"servfail", "refused"}
  PROVE  /\ FinishWith(best) \in Exchanges \cup {Pending, Failure} /\ FinishWith(best) # Pending
         /\ FinishWith(best) = Failure <=> best = Nobody
         /\ best # Nobody => FinishWith(best) = best
         /\ FinishWith(best).outcome \in {"servfail", "refused", "error"}
<1>1. Failure \notin Exchanges /\ Pending.outcome = "pending" /\ Failure.outcome = "error"
  BY ForwardingAssumption DEF Failure, Exchanges, Pending, Ups
<1> QED BY <1>1 DEF FinishWith

\* An exchange is no promise of more, and no failure of all.
LEMMA ExchangeIsOver ==
  ASSUME NEW r \in Exchanges, n \in 1 .. MaxUpstreams
  PROVE  r # Pending /\ r # Failure /\ r.outcome \in Outcomes /\ r.who \in Ups
<1>1. Pending.outcome = "pending" /\ Failure.who = NoUpstream /\ NoUpstream \notin Ups
  BY ForwardingAssumption DEF Failure, Pending, Ups
<1> QED BY <1>1 DEF Exchanges, Outcomes

LEMMA ForwardStart == ASSUME FwInit PROVE ForwardIInv
<1>1. n \in 1 .. MaxUpstreams /\ n \in Nat \ {0}
  BY ForwardingAssumption DEF FwInit
<1>2. \A u \in Ups : asked[u] = IF u = 1 THEN "running" ELSE "idle"
  BY DEF FwInit
<1>3. TookRes = {} /\ TookWho = {} /\ ChanWho = {} /\ results = <<>> /\ took = <<>>
  BY DEF FwInit, TookRes, TookWho, ChanWho
<1>4. AskedSet = {1} /\ 1 \in Ups
  BY <1>1, <1>2 DEF AskedSet, Ups
<1>5. Waits /\ soft = Nobody /\ pending = 1 /\ next = 2 /\ ~launched /\ ~spent /\ slow = {}
  BY DEF FwInit, Waits
<1>6. hedged \in BOOLEAN
  BY DEF FwInit
<1>7. ForwardTypes
  <2>1. asked \in [Ups -> {"idle", "running", "done"}] /\ ret = Pending /\ launched = FALSE /\ spent = FALSE
    BY DEF FwInit
  <2>2. next \in 2 .. n + 1
    BY <1>1, <1>5
  <2>3. results \in Seq(Exchanges) /\ took \in Seq(Exchanges)
    BY <1>3
  <2> QED BY <1>1, <1>5, <1>6, <2>1, <2>2, <2>3 DEF ForwardTypes
<1>8. ResultsInv
  BY <1>2, <1>3 DEF ResultsInv
<1>9. AskedInv
  <2>1. timer = IF n = 1 THEN "never" ELSE IF hedged THEN "hedge" ELSE "step"
    BY DEF FwInit
  <2>2. ~hedged => \A u \in Ups : asked[u] = "idle" <=> u >= next
    BY <1>1, <1>2, <1>5 DEF Ups
  <2>3. hedged => asked[1] # "idle" /\ \A u \in Behind : asked[u] = "idle" <=> ~launched
    BY <1>1, <1>2, <1>5 DEF Ups, Behind
  <2> QED BY <1>1, <1>5, <1>6, <2>1, <2>2, <2>3 DEF AskedInv
<1>10. WaitingInv
  <2>1. Out = {1}
    BY <1>3, <1>4 DEF Out
  <2>2. Cardinality(Out) = 1
    BY <2>1, FS_Singleton
  <2>3. soft.outcome = "none"
    BY <1>5 DEF Nobody
  <2> QED BY <1>3, <1>5, <2>2, <2>3 DEF WaitingInv
<1>11. ReturnedInv /\ DueInv
  BY <1>1, <1>2, <1>5 DEF ReturnedInv, DueInv, Ups, Behind
<1> QED BY <1>7, <1>8, <1>9, <1>10, <1>11 DEF ForwardIInv

LEMMA ExchangeEndsKeeps ==
  ASSUME ForwardIInv, NEW u \in Ups, ExchangeEnds(u)
  PROVE  ForwardIInv'
<1>0. ForwardTypes /\ ResultsInv
  BY DEF ForwardIInv
<1>1. UNCHANGED <<hedged, n, next, pending, launched, soft, lastErr, timer, spent, slow, took, ret>>
  BY DEF ExchangeEnds
<1>2. asked[u] = "running" /\ asked' = [asked EXCEPT ![u] = "done"] /\ asked \in [Ups -> {"idle", "running", "done"}]
  BY <1>0 DEF ExchangeEnds, ForwardTypes
<1>3. PICK o \in Outcomes : results' = Append(results, [who |-> u, outcome |-> o])
  BY EndingsAreOutcomes DEF ExchangeEnds
<1>4. results \in Seq(Exchanges) /\ [who |-> u, outcome |-> o] \in Exchanges /\ Len(results) \in Nat
  BY <1>0 DEF ForwardTypes, Exchanges
<1>5. /\ results' \in Seq(Exchanges) /\ Len(results') = Len(results) + 1 /\ results'[Len(results) + 1].who = u
      /\ \A i \in 1 .. Len(results) : results'[i] = results[i]
  BY <1>3, <1>4
<1>6. Ups' = Ups /\ TookRes' = TookRes /\ TookWho' = TookWho /\ Exchanges' = Exchanges /\ Behind' = Behind
  BY <1>1 DEF Ups, TookRes, TookWho, Exchanges, Behind
<1>7. \A v \in Ups : asked'[v] = IF v = u THEN "done" ELSE asked[v]
  BY <1>2
<1>8. AskedSet' = AskedSet /\ Out' = Out
  BY <1>2, <1>6, <1>7 DEF AskedSet, Out
<1>9. u \notin ChanWho /\ u \notin TookWho
  BY <1>0, <1>2 DEF ResultsInv
<1>10. ChanWho' = ChanWho \cup {u}
  <2>1. \A w \in ChanWho' : w \in ChanWho \cup {u}
    BY <1>4, <1>5 DEF ChanWho
  <2>2. ChanWho \subseteq ChanWho'
    BY <1>4, <1>5 DEF ChanWho
  <2>3. u \in ChanWho'
    BY <1>4, <1>5 DEF ChanWho
  <2> QED BY <2>1, <2>2, <2>3
<1>11. ForwardTypes'
  <2>1. asked' \in [Ups' -> {"idle", "running", "done"}]
    BY <1>2, <1>6
  <2> QED BY <1>0, <1>1, <1>5, <1>6, <2>1 DEF ForwardTypes, Nobody, Pending, Failure
<1>12. ResultsInv'
  <2>1. \A i \in 1 .. Len(results) : results[i].who # u
    BY <1>9 DEF ChanWho
  <2>2. \A i, j \in 1 .. Len(results') : i # j => results'[i].who # results'[j].who
    BY <1>0, <1>4, <1>5, <2>1 DEF ResultsInv
  <2>3. {v \in Ups' : asked'[v] = "done"} = {v \in Ups : asked[v] = "done"} \cup {u}
    BY <1>6, <1>7
  <2> QED BY <1>0, <1>6, <1>9, <1>10, <2>2, <2>3 DEF ResultsInv
<1>13. \A v \in Ups : asked'[v] = "idle" <=> asked[v] = "idle"
  BY <1>2, <1>7
<1>14. Behind \subseteq Ups /\ 1 \in Ups
  BY <1>0, ForwardingAssumption DEF Behind, Ups, ForwardTypes
<1>15. AskedInv'
  BY <1>1, <1>6, <1>13, <1>14 DEF ForwardIInv, AskedInv
<1>16. WaitingInv' /\ ReturnedInv'
  BY <1>1, <1>6, <1>8 DEF ForwardIInv, WaitingInv, ReturnedInv, Waits, Nobody, Failure, Pending
<1>17. DueInv'
  BY <1>1, <1>6, <1>13, <1>14 DEF ForwardIInv, DueInv
<1> QED BY <1>11, <1>12, <1>15, <1>16, <1>17 DEF ForwardIInv

LEMMA BudgetEndsKeeps == ASSUME ForwardIInv, BudgetEnds PROVE ForwardIInv'
<1>1. UNCHANGED <<hedged, n, asked, results, next, pending, launched, soft, lastErr, timer, slow, took, ret>> /\ spent' = TRUE /\ Waits
  BY DEF BudgetEnds
<1>2. /\ Ups' = Ups /\ TookRes' = TookRes /\ TookWho' = TookWho /\ ChanWho' = ChanWho /\ Exchanges' = Exchanges
      /\ Behind' = Behind /\ Out' = Out /\ (Waits' <=> Waits)
  BY <1>1 DEF Ups, TookRes, TookWho, ChanWho, Exchanges, Behind, Out, AskedSet, Waits, Pending
<1>3. ForwardTypes' /\ ResultsInv' /\ AskedInv'
  BY <1>1, <1>2 DEF ForwardIInv, ForwardTypes, ResultsInv, AskedInv, Nobody, Pending, Failure
<1>4. WaitingInv' /\ ReturnedInv' /\ DueInv'
  BY <1>1, <1>2 DEF ForwardIInv, WaitingInv, ReturnedInv, DueInv, Nobody
<1> QED BY <1>3, <1>4 DEF ForwardIInv

\* Who was asked for a reason was so still when more is known.
LEMMA DueGrows ==
  ASSUME ForwardTypes, DueInv, UNCHANGED <<hedged, n>>, \A u \in Ups : asked'[u] = "idle" <=> asked[u] = "idle",
         slow \subseteq slow', TookRes \subseteq TookRes'
  PROVE  DueInv'
<1>1. Ups' = Ups /\ Behind' = Behind /\ Behind \subseteq Ups
  BY ForwardingAssumption DEF Ups, Behind, ForwardTypes
<1> QED BY <1>1 DEF DueInv

\* An answer is returned at once.
LEMMA AnswerKeeps ==
  ASSUME ForwardIInv, Waits, Takes, Head(results).outcome = "answer", ret' = Head(results),
         UNCHANGED <<hedged, n, asked, next, launched, timer, soft, spent, slow>>
  PROVE  ForwardIInv'
<1> DEFINE r == Head(results)
<1>0. ForwardTypes /\ ResultsInv /\ AskedInv /\ DueInv
  BY DEF ForwardIInv
<1>1. Launch({})
  BY <1>0, NoneLaunched
<1>2. ResultsInv'
  BY <1>0, <1>1, ChannelAfterTake
<1>3. r \in Exchanges /\ TookRes' = TookRes \cup {r} /\ took' \in Seq(Exchanges) /\ results' \in Seq(Exchanges)
  BY <1>0, TakenOnce
<1>4. r # Pending /\ r # Failure
  BY <1>0, <1>3, ExchangeIsOver DEF ForwardTypes
<1>5. r.outcome = "answer" /\ ret' = r
  OBVIOUS
<1> HIDE DEF r
<1>6. Ups' = Ups /\ Exchanges' = Exchanges /\ Behind' = Behind
  BY DEF Ups, Exchanges, Behind
<1>7. ForwardTypes'
  BY <1>0, <1>3, <1>5, <1>6 DEF ForwardTypes, Nobody, Pending, Failure
<1>8. AskedInv'
  BY <1>0, <1>6 DEF AskedInv
<1>9. DueInv'
  BY <1>0, <1>3, DueGrows
<1>10. WaitingInv' /\ ReturnedInv'
  BY <1>3, <1>4, <1>5 DEF WaitingInv, ReturnedInv, Waits, Pending, Failure
<1> QED BY <1>2, <1>7, <1>8, <1>9, <1>10 DEF ForwardIInv

LEMMA ExchangeOnlyKeeps == ASSUME ForwardIInv, exchangeOnly PROVE ForwardIInv'
<1> DEFINE r == Head(results)
<1>0. ForwardTypes /\ ResultsInv /\ AskedInv /\ DueInv /\ n = 1
  BY DEF ForwardIInv, exchangeOnly
<1>1. Waits /\ Takes /\ UNCHANGED <<hedged, n, asked, next, launched, soft, lastErr, timer, spent, slow>>
  BY DEF exchangeOnly
<1>2. CASE r.outcome = "answer"
  <2>1. ret' = r
    BY <1>2 DEF exchangeOnly
  <2> QED BY <1>1, <1>2, <2>1, AnswerKeeps
<1>3. CASE r.outcome # "answer"
  <2>1. Launch({})
    BY <1>0, <1>1, NoneLaunched
  <2>2. ResultsInv'
    BY <1>0, <1>1, <2>1, ChannelAfterTake
  <2>3. /\ r \in Exchanges /\ TookRes' = TookRes \cup {r} /\ took' \in Seq(Exchanges) /\ results' \in Seq(Exchanges)
        /\ r.who \notin TookWho /\ TookWho' = TookWho \cup {r.who}
    BY <1>0, <1>1, TakenOnce
  <2>4. r # Pending /\ r # Failure /\ r.who \in Ups
    BY <1>0, <2>3, ExchangeIsOver DEF ForwardTypes
  <2>5. ret' = IF r.outcome = "error" THEN Failure ELSE r
    BY DEF exchangeOnly
  <2>6. Ups = {1} /\ TookWho \subseteq Ups
    BY <1>0 DEF Ups, ResultsInv
  <2>7. TookRes = {} /\ Ups \subseteq TookWho'
    BY <2>3, <2>4, <2>6 DEF TookWho
  <2> HIDE DEF r
  <2>8. Ups' = Ups /\ Exchanges' = Exchanges /\ Behind' = Behind
    BY <1>1 DEF Ups, Exchanges, Behind
  <2>9. ForwardTypes'
    BY <1>0, <1>1, <2>3, <2>5, <2>8 DEF ForwardTypes, Nobody, Pending, Failure
  <2>10. AskedInv'
    BY <1>0, <1>1, <2>8 DEF AskedInv
  <2>11. DueInv'
    BY <1>0, <1>1, <2>3, DueGrows
  <2>12. ret' # Pending /\ (ret' = r \/ (ret' = Failure /\ r.outcome = "error"))
    BY <2>4, <2>5 DEF Pending, Failure
  <2>13. WaitingInv'
    BY <2>12 DEF WaitingInv, Waits, Pending
  <2>14. ReturnedInv'
    BY <1>3, <2>3, <2>4, <2>7, <2>8, <2>12 DEF ReturnedInv, Failure
  <2> QED BY <2>2, <2>9, <2>10, <2>11, <2>13, <2>14 DEF ForwardIInv
<1> QED BY <1>2, <1>3

LEMMA TakeOrderedKeeps == ASSUME ForwardIInv, TakeOrdered PROVE ForwardIInv'
<1> DEFINE r == Head(results)
<1>0. ForwardTypes /\ ResultsInv /\ AskedInv /\ WaitingInv /\ DueInv
  BY DEF ForwardIInv
<1>1. Waits /\ ~hedged /\ n > 1 /\ Takes /\ UNCHANGED <<hedged, n, launched, spent, slow>>
  BY DEF TakeOrdered
<1>2. CASE r.outcome = "answer"
  <2>1. ret' = r /\ UNCHANGED <<asked, next, timer, soft, lastErr>>
    BY <1>2 DEF TakeOrdered
  <2> QED BY <1>1, <1>2, <2>1, AnswerKeeps
<1>3. CASE r.outcome # "answer"
  <2>1. /\ r \in Exchanges /\ TookRes' = TookRes \cup {r} /\ took' \in Seq(Exchanges) /\ results' \in Seq(Exchanges)
        /\ r.who \notin TookWho /\ TookWho' = TookWho \cup {r.who}
    BY <1>0, <1>1, TakenOnce
  <2>2. Remembers(r)
    BY <1>3 DEF TakeOrdered
  <2>3. /\ soft' \in Exchanges \cup {Nobody}
        /\ \A t \in TookRes' : t.outcome # "answer"
        /\ soft' = Nobody => \A t \in TookRes' : t.outcome = "error"
        /\ soft' # Nobody => soft' \in TookRes' /\ soft'.outcome \in {"servfail", "refused"}
        /\ soft'.outcome = "refused" => \A t \in TookRes' : t.outcome # "servfail"
    BY <1>0, <1>1, <1>3, <2>2, Remembered
  <2>4. r.who \in Out /\ IsFiniteSet(Out) /\ pending = Cardinality(Out)
    <3>1. r.who \in Out
      BY <1>0, <1>1, TakenOnce DEF Out, AskedSet, Exchanges
    <3> QED BY <1>0, <1>1, <3>1, OutIsFinite DEF WaitingInv
  <2>5. n \in Nat \ {0} /\ next \in 2 .. n + 1
    BY <1>0, OutIsFinite DEF ForwardTypes
  <2>6. r.who \in Ups /\ r # Pending
    BY <1>0, <2>1, ExchangeIsOver DEF ForwardTypes
  <2>7. Ups' = Ups /\ Exchanges' = Exchanges /\ Behind' = Behind
    BY <1>1 DEF Ups, Exchanges, Behind
  <2>8. CASE UNCHANGED <<asked, next>> /\ (UNCHANGED ret \/ (ret' = FinishWith(soft') /\ pending = 1 /\ ~CanAdvance))
             /\ timer' \in {timer, "budget"} /\ (UNCHANGED ret => pending' = pending - 1)
    <3>1. Launch({})
      BY <1>0, <2>8, NoneLaunched
    <3>2. ResultsInv' /\ Out' = Out \ {r.who}
      BY <1>0, <1>1, <3>1, ChannelAfterTake
    <3>3. Cardinality(Out') = pending - 1
      BY <2>4, <3>2, CountLess
    <3>4. /\ FinishWith(soft') \in Exchanges \cup {Pending, Failure} /\ FinishWith(soft') # Pending
          /\ FinishWith(soft') = Failure <=> soft' = Nobody
          /\ soft' # Nobody => FinishWith(soft') = soft'
          /\ FinishWith(soft').outcome \in {"servfail", "refused", "error"}
      BY <1>0, <2>3, FinishIsOver DEF ForwardTypes
    <3>5. ret' \in Exchanges \cup {Pending, Failure}
      BY <1>0, <2>8, <3>4 DEF ForwardTypes
    <3> HIDE DEF r
    <3>6. ForwardTypes'
      BY <1>0, <1>1, <2>1, <2>3, <2>7, <2>8, <3>5 DEF ForwardTypes, Nobody, Pending, Failure
    <3>7. AskedInv'
      BY <1>0, <1>1, <2>7, <2>8 DEF AskedInv
    <3>8. DueInv'
      BY <1>0, <1>1, <2>1, <2>8, DueGrows
    <3>9. WaitingInv'
      <4> SUFFICES ASSUME Waits' PROVE WaitingInv'
        BY DEF WaitingInv
      <4>1. ret' = Pending
        BY DEF Waits, Pending
      <4>2. UNCHANGED ret
        BY <2>8, <3>4, <4>1
      <4> QED BY <2>3, <2>8, <3>3, <4>2 DEF WaitingInv, Nobody
    <3>10. ReturnedInv'
      <4> SUFFICES ASSUME ~Waits' PROVE ReturnedInv'
        BY DEF ReturnedInv
      <4>1. ret' = FinishWith(soft') /\ pending = 1 /\ ~CanAdvance
        BY <1>1, <2>8 DEF Waits, Pending
      <4>2. spent \/ \A u \in Ups : asked[u] # "idle"
        BY <1>0, <1>1, <2>5, <4>1 DEF CanAdvance, AskedInv, Ups
      <4>3. Out' = {}
        <5>1. IsFiniteSet(Out') /\ Cardinality(Out') = 0
          BY <2>4, <3>2, <3>3, <4>1, CountLess
        <5> QED BY <5>1, FS_EmptySet
      <4>4. spent \/ Ups \subseteq TookWho'
        BY <2>7, <2>8, <4>2, <4>3 DEF Out, AskedSet
      <4>5. spent' = spent /\ Failure' = Failure
        BY <1>1 DEF Failure
      <4> QED BY <2>3, <2>7, <3>4, <4>1, <4>4, <4>5 DEF ReturnedInv
    <3> QED BY <3>2, <3>6, <3>7, <3>8, <3>9, <3>10 DEF ForwardIInv
  <2>9. CASE r.who = next - 1 /\ CanAdvance /\ Advance /\ pending' = pending /\ UNCHANGED ret
    <3>1. next \in Ups /\ asked[next] = "idle"
      BY <1>0, <1>1, <2>5, <2>9 DEF CanAdvance, AskedInv, Ups
    <3>2. Launch({next}) /\ next' = next + 1 /\ timer' = (IF next = n THEN "budget" ELSE "step")
      BY <2>9 DEF Advance
    <3>3. ResultsInv' /\ Out' = (Out \ {r.who}) \cup {next} /\ Out \cap {next} = {}
      BY <1>0, <1>1, <3>1, <3>2, ChannelAfterTake
    <3>4. Cardinality(Out') = pending
      <4>1. IsFiniteSet(Out \ {r.who}) /\ Cardinality(Out \ {r.who}) = pending - 1 /\ Cardinality(Out) \in Nat
        BY <2>4, CountLess
      <4>2. next \notin Out \ {r.who}
        BY <3>3
      <4> QED BY <2>4, <3>3, <4>1, <4>2, CountAdd
    <3>5. /\ asked' \in [Ups' -> {"idle", "running", "done"}]
          /\ \A u \in Ups : asked'[u] = IF u \in {next} THEN "running" ELSE asked[u]
      BY <1>0, <1>1, <3>1, <3>2, Launched
    <3>6. r.who = next - 1
      BY <2>9
    <3> HIDE DEF r
    <3>7. next' \in 2 .. n' + 1
      BY <1>1, <2>5, <2>9, <3>2 DEF CanAdvance
    <3>8. ForwardTypes'
      BY <1>0, <1>1, <2>1, <2>3, <2>7, <2>9, <3>5, <3>7 DEF ForwardTypes, Nobody, Pending, Failure
    <3>9. AskedInv'
      <4>1. \A u \in Ups' : asked'[u] = "idle" <=> u >= next'
        BY <1>0, <1>1, <2>5, <2>7, <3>2, <3>5 DEF AskedInv, Ups
      <4>2. timer' \in {"step", "budget"} /\ (next' > n' => timer' = "budget")
        BY <1>1, <2>5, <2>9, <3>2 DEF CanAdvance
      <4> QED BY <1>1, <4>1, <4>2 DEF AskedInv
    <3>10. DueInv'
      <4>1. \A u \in Ups \ {1} : asked'[u] # "idle" =>
              u - 1 \in slow' \/ \E t \in TookRes' : t.who = u - 1 /\ t.outcome # "answer"
        BY <1>0, <1>1, <1>3, <2>1, <3>5, <3>6 DEF DueInv
      <4> QED BY <1>1, <2>7, <4>1 DEF DueInv
    <3>11. WaitingInv' /\ ReturnedInv'
      BY <1>1, <2>3, <2>9, <3>4 DEF WaitingInv, ReturnedInv, Waits, Nobody, Pending
    <3> QED BY <3>3, <3>8, <3>9, <3>10, <3>11 DEF ForwardIInv
  <2>10. pending \in Int
    BY <2>4, FS_CardinalityType
  <2> QED
    <3>1. \/ UNCHANGED <<asked, next, timer, ret>> /\ pending' = pending - 1
          \/ r.who = next - 1 /\ CanAdvance /\ Advance /\ pending' = pending /\ UNCHANGED ret
          \/ ~CanAdvance /\ pending = 1 /\ ret' = FinishWith(soft') /\ UNCHANGED <<asked, next, timer>>
          \/ timer' = "budget" /\ pending' = pending - 1 /\ UNCHANGED <<asked, next, ret>>
      BY <1>3 DEF TakeOrdered
    <3>2. ASSUME ret' = FinishWith(soft') PROVE ~UNCHANGED ret
      BY <1>0, <1>1, <2>3, <3>2, FinishIsOver DEF ForwardTypes, Waits
    <3> HIDE DEF r
    <3> QED BY <2>8, <2>9, <3>1, <3>2
<1> QED BY <1>2, <1>3

LEMMA TimerOrderedKeeps == ASSUME ForwardIInv, TimerOrdered PROVE ForwardIInv'
<1>0. ForwardTypes /\ ResultsInv /\ AskedInv /\ WaitingInv /\ DueInv
  BY DEF ForwardIInv
<1>1. /\ Waits /\ ~hedged /\ n > 1 /\ (timer = "budget" => spent) /\ slow' = slow \cup {next - 1}
      /\ UNCHANGED <<hedged, n, results, launched, soft, lastErr, spent, took>>
  BY DEF TimerOrdered
<1>2. n \in Nat \ {0} /\ next \in 2 .. n + 1 /\ IsFiniteSet(Out) /\ pending = Cardinality(Out)
  BY <1>0, <1>1, OutIsFinite DEF ForwardTypes, WaitingInv
<1>3. slow' \subseteq Ups
  BY <1>0, <1>1, <1>2 DEF ForwardTypes, Ups
<1>4. /\ Ups' = Ups /\ Exchanges' = Exchanges /\ Behind' = Behind /\ TookRes' = TookRes /\ TookWho' = TookWho
      /\ ChanWho' = ChanWho
  BY <1>1 DEF Ups, Exchanges, Behind, TookRes, TookWho, ChanWho
<1>5. CASE CanAdvance
  <2>1. Launch({next}) /\ next' = next + 1 /\ timer' = (IF next = n THEN "budget" ELSE "step")
        /\ pending' = pending + 1 /\ UNCHANGED ret
    BY <1>5 DEF TimerOrdered, Advance
  <2>2. next \in Ups /\ asked[next] = "idle"
    BY <1>0, <1>1, <1>2, <1>5 DEF CanAdvance, AskedInv, Ups
  <2>3. /\ asked' \in [Ups' -> {"idle", "running", "done"}]
        /\ {u \in Ups' : asked'[u] = "done"} = {u \in Ups : asked[u] = "done"}
        /\ AskedSet' = AskedSet \cup {next} /\ next \notin AskedSet
        /\ \A u \in Ups : asked'[u] = IF u \in {next} THEN "running" ELSE asked[u]
    BY <1>0, <1>1, <2>1, <2>2, Launched
  <2>4. ResultsInv'
    BY <1>0, <1>1, <1>4, <2>3 DEF ResultsInv
  <2>5. next \notin TookWho
    BY <1>0, <2>2 DEF ResultsInv
  <2>6. Out' = Out \cup {next} /\ next \notin Out
    BY <1>4, <2>3, <2>5 DEF Out
  <2>7. Cardinality(Out') = pending + 1
    BY <1>2, <2>6, CountAdd
  <2>8. next' \in 2 .. n' + 1
    BY <1>1, <1>2, <1>5, <2>1 DEF CanAdvance
  <2>9. ForwardTypes'
    BY <1>0, <1>1, <1>3, <1>4, <2>1, <2>3, <2>8 DEF ForwardTypes, Nobody, Pending, Failure
  <2>10. AskedInv'
    <3>1. \A u \in Ups' : asked'[u] = "idle" <=> u >= next'
      BY <1>0, <1>1, <1>2, <1>4, <2>1, <2>3 DEF AskedInv, Ups
    <3>2. timer' \in {"step", "budget"} /\ (next' > n' => timer' = "budget")
      BY <1>1, <1>2, <1>5, <2>1 DEF CanAdvance
    <3> QED BY <1>1, <3>1, <3>2 DEF AskedInv
  <2>11. DueInv'
    <3>1. \A u \in Ups \ {1} : asked'[u] # "idle" =>
            u - 1 \in slow' \/ \E t \in TookRes' : t.who = u - 1 /\ t.outcome # "answer"
      BY <1>0, <1>1, <1>4, <2>3 DEF DueInv
    <3> QED BY <1>1, <1>4, <3>1 DEF DueInv
  <2>12. WaitingInv' /\ ReturnedInv'
    BY <1>0, <1>1, <1>4, <2>1, <2>7 DEF WaitingInv, ReturnedInv, Waits, Nobody, Pending
  <2> QED BY <2>4, <2>9, <2>10, <2>11, <2>12 DEF ForwardIInv
<1>6. CASE ~CanAdvance
  <2>1. ret' = FinishWith(soft) /\ UNCHANGED <<asked, next, timer, pending>>
    BY <1>6 DEF TimerOrdered
  <2>2. /\ soft \in Exchanges \cup {Nobody}
        /\ \A t \in TookRes : t.outcome # "answer"
        /\ soft = Nobody => \A t \in TookRes : t.outcome = "error"
        /\ soft # Nobody => soft \in TookRes /\ soft.outcome \in {"servfail", "refused"}
        /\ soft.outcome = "refused" => \A t \in TookRes : t.outcome # "servfail"
    BY <1>0, <1>1 DEF ForwardTypes, WaitingInv
  <2>3. /\ FinishWith(soft) \in Exchanges \cup {Pending, Failure} /\ FinishWith(soft) # Pending
        /\ FinishWith(soft) = Failure <=> soft = Nobody
        /\ soft # Nobody => FinishWith(soft) = soft
        /\ FinishWith(soft).outcome \in {"servfail", "refused", "error"}
    BY <1>0, <2>2, FinishIsOver DEF ForwardTypes
  <2>4. spent
    BY <1>0, <1>1, <1>2, <1>6 DEF CanAdvance, AskedInv
  <2>5. ForwardTypes'
    BY <1>0, <1>1, <1>3, <1>4, <2>1, <2>3 DEF ForwardTypes, Nobody, Pending, Failure
  <2>6. ResultsInv' /\ AskedInv'
    BY <1>0, <1>1, <1>4, <2>1 DEF ResultsInv, AskedInv
  <2>7. DueInv'
    BY <1>0, <1>1, <1>4, <2>1, DueGrows
  <2>8. WaitingInv' /\ ReturnedInv'
    BY <1>1, <1>4, <2>1, <2>2, <2>3, <2>4 DEF WaitingInv, ReturnedInv, Waits, Failure, Pending
  <2> QED BY <2>5, <2>6, <2>7, <2>8 DEF ForwardIInv
<1> QED BY <1>5, <1>6

\* launchRest: all that are behind are asked, if they are not yet.
LEMMA RestIsAsked ==
  ASSUME ForwardTypes, ResultsInv, AskedInv, hedged, launchRest, UNCHANGED <<hedged, n>>
  PROVE  \E L : /\ \A u \in L : u \in Ups /\ asked[u] = "idle"
                /\ Launch(L) /\ IsFiniteSet(L) /\ Cardinality(L) = Started
                /\ AskedInv' /\ AskedSet' = Ups /\ L \subseteq Behind
<1> DEFINE L == IF launched THEN {} ELSE Behind
<1>1. n \in Nat \ {0} /\ Ups' = Ups /\ Behind' = Behind /\ Behind = Ups \ {1} /\ 1 \in Ups
  BY OutIsFinite DEF Ups, Behind
<1>2. \A u \in L : u \in Ups /\ asked[u] = "idle"
  BY <1>1 DEF AskedInv
<1>3. Launch(L) /\ launched' = TRUE /\ timer' = "never"
  BY DEF launchRest
<1>4. IsFiniteSet(L) /\ Cardinality(L) = Started
  <2>1. CASE launched
    BY <2>1, FS_EmptySet DEF Started
  <2>2. CASE ~launched
    <3>1. IsFiniteSet(2 .. n) /\ Cardinality(2 .. n) = IF 2 > n THEN 0 ELSE n - 2 + 1
      BY <1>1, FS_Interval
    <3>2. Cardinality(2 .. n) = n - 1
      BY <1>1, <3>1
    <3> QED BY <2>2, <3>1, <3>2 DEF Started, Behind
  <2> QED BY <2>1, <2>2
<1>5. \A u \in Ups : asked'[u] = IF u \in L THEN "running" ELSE asked[u]
  BY <1>2, <1>3, Launched
<1>6. \A u \in Ups : asked'[u] # "idle"
  BY <1>1, <1>5 DEF AskedInv
<1>7. AskedInv' /\ AskedSet' = Ups
  BY <1>1, <1>3, <1>6 DEF AskedInv, AskedSet
<1> QED BY <1>1, <1>2, <1>3, <1>4, <1>7

LEMMA HedgeFiresKeeps == ASSUME ForwardIInv, HedgeFires PROVE ForwardIInv'
<1>0. ForwardTypes /\ ResultsInv /\ AskedInv /\ WaitingInv /\ DueInv
  BY DEF ForwardIInv
<1>1. /\ Waits /\ hedged /\ launchRest /\ launched' = TRUE /\ pending' = pending + Started /\ slow' = slow \cup {1}
      /\ UNCHANGED <<hedged, n, results, next, soft, lastErr, spent, took, ret>>
  BY DEF HedgeFires, launchRest
<1>2. PICK L : /\ \A u \in L : u \in Ups /\ asked[u] = "idle"
               /\ Launch(L) /\ IsFiniteSet(L) /\ Cardinality(L) = Started
               /\ AskedInv' /\ AskedSet' = Ups /\ L \subseteq Behind
  BY <1>0, <1>1, RestIsAsked
<1>3. /\ Ups' = Ups /\ Exchanges' = Exchanges /\ Behind' = Behind /\ TookRes' = TookRes /\ TookWho' = TookWho
      /\ ChanWho' = ChanWho
  BY <1>1 DEF Ups, Exchanges, Behind, TookRes, TookWho, ChanWho
<1>4. /\ asked' \in [Ups' -> {"idle", "running", "done"}]
      /\ {u \in Ups' : asked'[u] = "done"} = {u \in Ups : asked[u] = "done"}
      /\ AskedSet' = AskedSet \cup L /\ AskedSet \cap L = {}
  BY <1>0, <1>1, <1>2, Launched
<1>5. ResultsInv'
  BY <1>0, <1>1, <1>3, <1>4 DEF ResultsInv
<1>6. L \cap TookWho = {}
  BY <1>0, <1>2 DEF ResultsInv
<1>7. Out' = Out \cup L /\ Out \cap L = {}
  BY <1>3, <1>4, <1>6 DEF Out
<1>8. Cardinality(Out') = pending + Started
  BY <1>0, <1>1, <1>2, <1>7, OutIsFinite, CountJoin DEF WaitingInv
<1>9. 1 \in Ups
  BY <1>0, OutIsFinite DEF Ups
<1>10. ForwardTypes'
  BY <1>0, <1>1, <1>3, <1>4, <1>9 DEF ForwardTypes, Nobody, Pending, Failure
<1>11. DueInv'
  BY <1>1, <1>3 DEF DueInv
<1>12. WaitingInv' /\ ReturnedInv'
  BY <1>0, <1>1, <1>3, <1>8 DEF WaitingInv, ReturnedInv, Waits, Nobody, Pending
<1> QED BY <1>2, <1>5, <1>10, <1>11, <1>12 DEF ForwardIInv

LEMMA TakeHedgedKeeps == ASSUME ForwardIInv, TakeHedged PROVE ForwardIInv'
<1> DEFINE r == Head(results)
<1>0. ForwardTypes /\ ResultsInv /\ AskedInv /\ WaitingInv /\ DueInv
  BY DEF ForwardIInv
<1>1. Waits /\ hedged /\ n > 1 /\ Takes /\ UNCHANGED <<hedged, n, next, spent, slow>>
  BY DEF TakeHedged
<1>2. CASE r.outcome = "answer"
  <2>1. ret' = r /\ UNCHANGED <<asked, launched, timer, soft, lastErr>>
    BY <1>2 DEF TakeHedged
  <2> QED BY <1>1, <1>2, <2>1, AnswerKeeps
<1>3. CASE r.outcome # "answer"
  <2>1. /\ r \in Exchanges /\ TookRes' = TookRes \cup {r} /\ took' \in Seq(Exchanges) /\ results' \in Seq(Exchanges)
        /\ r.who \notin TookWho /\ TookWho' = TookWho \cup {r.who}
    BY <1>0, <1>1, TakenOnce
  <2>2. /\ Remembers(r) /\ launchRest /\ launched' = TRUE /\ pending' = pending - 1 + Started
        /\ ret' = IF pending' = 0 THEN FinishWith(soft') ELSE ret
    BY <1>3 DEF TakeHedged, launchRest
  <2>3. /\ soft' \in Exchanges \cup {Nobody}
        /\ \A t \in TookRes' : t.outcome # "answer"
        /\ soft' = Nobody => \A t \in TookRes' : t.outcome = "error"
        /\ soft' # Nobody => soft' \in TookRes' /\ soft'.outcome \in {"servfail", "refused"}
        /\ soft'.outcome = "refused" => \A t \in TookRes' : t.outcome # "servfail"
    BY <1>0, <1>1, <1>3, <2>2, Remembered
  <2>4. PICK L : /\ \A u \in L : u \in Ups /\ asked[u] = "idle"
                 /\ Launch(L) /\ IsFiniteSet(L) /\ Cardinality(L) = Started
                 /\ AskedInv' /\ AskedSet' = Ups /\ L \subseteq Behind
    BY <1>0, <1>1, <2>2, RestIsAsked
  <2>5. Ups' = Ups /\ Exchanges' = Exchanges /\ Behind' = Behind
    BY <1>1 DEF Ups, Exchanges, Behind
  <2>6. asked' \in [Ups' -> {"idle", "running", "done"}]
    BY <1>0, <1>1, <2>4, Launched
  <2>7. ResultsInv' /\ r.who \in Out /\ Out' = (Out \ {r.who}) \cup L /\ Out \cap L = {}
    BY <1>0, <1>1, <2>4, ChannelAfterTake
  <2>8. IsFiniteSet(Out') /\ Cardinality(Out') = pending'
    <3>1. IsFiniteSet(Out) /\ pending = Cardinality(Out)
      BY <1>0, <1>1, OutIsFinite DEF WaitingInv
    <3>2. IsFiniteSet(Out \ {r.who}) /\ Cardinality(Out \ {r.who}) = pending - 1
      BY <2>7, <3>1, CountLess
    <3>3. (Out \ {r.who}) \cap L = {}
      BY <2>7
    <3> QED BY <2>2, <2>4, <2>7, <3>2, <3>3, CountJoin
  <2>9. /\ FinishWith(soft') \in Exchanges \cup {Pending, Failure} /\ FinishWith(soft') # Pending
        /\ FinishWith(soft') = Failure <=> soft' = Nobody
        /\ soft' # Nobody => FinishWith(soft') = soft'
        /\ FinishWith(soft').outcome \in {"servfail", "refused", "error"}
    BY <1>0, <2>3, FinishIsOver DEF ForwardTypes
  <2> HIDE DEF r
  <2>10. ret' \in Exchanges \cup {Pending, Failure}
    BY <1>0, <2>2, <2>9 DEF ForwardTypes
  <2>11. ForwardTypes'
    BY <1>0, <1>1, <2>1, <2>2, <2>3, <2>5, <2>6, <2>10 DEF ForwardTypes, Nobody, Pending, Failure
  <2>12. DueInv'
    BY <1>1, <1>3, <2>1, <2>5 DEF DueInv
  <2>13. WaitingInv'
    BY <2>2, <2>3, <2>8, <2>9 DEF WaitingInv, Waits, Nobody, Pending
  <2>14. ReturnedInv'
    <3> SUFFICES ASSUME ~Waits' PROVE ReturnedInv'
      BY DEF ReturnedInv
    <3>1. pending' = 0 /\ ret' = FinishWith(soft')
      BY <1>1, <2>2 DEF Waits, Pending
    <3>2. Out' = {}
      BY <2>8, <3>1, FS_EmptySet
    <3>3. Ups' \subseteq TookWho'
      BY <2>4, <2>5, <3>2 DEF Out
    <3>4. Failure' = Failure
      BY DEF Failure
    <3> QED BY <2>3, <2>9, <3>1, <3>3, <3>4 DEF ReturnedInv
  <2> QED BY <2>4, <2>7, <2>11, <2>12, <2>13, <2>14 DEF ForwardIInv
<1> QED BY <1>2, <1>3

\* The inductive invariant implies the property.
LEMMA ForwardIInvSuffices == ForwardIInv => ForwardingInv
<1> SUFFICES ASSUME ForwardIInv PROVE ForwardingInv
  OBVIOUS
<1>0. ForwardTypes /\ ResultsInv /\ AskedInv /\ WaitingInv /\ ReturnedInv /\ DueInv
  BY DEF ForwardIInv
<1>1. /\ \A outs : Taken(outs) = {} <=> \A t \in TookRes : t.outcome \notin outs
      /\ \A x : x \in TookRes <=> \E i \in 1 .. Len(took) : x = took[i]
      /\ \A u : u \in TookWho <=> \E i \in 1 .. Len(took) : took[i].who = u
      /\ \A t \in TookRes : t.outcome \in Outcomes
  <2>1. \A t \in TookRes : t.outcome \in Outcomes
    <3> TAKE t \in TookRes
    <3>1. PICK i \in 1 .. Len(took) : t = took[i]
      BY DEF TookRes
    <3>2. took \in Seq(Exchanges)
      BY <1>0 DEF ForwardTypes
    <3>3. t \in Exchanges
      BY <3>1, <3>2
    <3> QED BY <3>3 DEF Exchanges
  <2> QED BY <2>1 DEF Taken, TookRes, TookWho
<1>2. BestIsReturned
  <2>1. Waits => Taken({"answer"}) = {}
    BY <1>0, <1>1 DEF WaitingInv
  <2>2. ~Waits => /\ ret # Failure => \E i \in 1 .. Len(took) : ret = took[i]
                  /\ ret.outcome # "answer" => Taken({"answer"}) = {}
                  /\ ret.outcome = "refused" => Taken({"servfail"}) = {}
                  /\ ret = Failure => Taken(Outcomes \ {"error"}) = {}
    BY <1>0, <1>1 DEF ReturnedInv
  <2> QED BY <2>1, <2>2 DEF BestIsReturned
<1>3. FailoverIsDue
  <2>1. ~hedged => \A u \in Ups \ {1} : asked[u] # "idle" =>
          u - 1 \in slow \/ \E i \in 1 .. Len(took) : took[i].who = u - 1 /\ took[i].outcome # "answer"
    BY <1>0 DEF DueInv, TookRes
  <2>2. hedged => \A u \in Behind : asked[u] # "idle" => 1 \in slow \/ Taken(Outcomes \ {"answer"}) # {}
    BY <1>0, <1>1 DEF DueInv
  <2>3. ret.outcome \in {"servfail", "refused", "error"} /\ ~spent =>
          \A u \in Ups : \E i \in 1 .. Len(took) : took[i].who = u
    <3>1. ret.outcome \in {"servfail", "refused", "error"} => ~Waits
      BY DEF Waits, Pending
    <3> QED BY <1>0, <1>1, <3>1 DEF ReturnedInv
  <2> QED BY <2>1, <2>2, <2>3 DEF FailoverIsDue
<1>4. NoneBlocks
  <2> DEFINE R == {u \in Ups : asked[u] = "running"}
             f == [i \in 1 .. Len(results) |-> results[i].who]
  <2>1. IsFiniteSet(Ups) /\ Cardinality(Ups) = n /\ n \in Nat /\ Len(results) \in Nat
    BY <1>0, OutIsFinite DEF ForwardTypes
  <2>2. R \subseteq Ups /\ IsFiniteSet(R) /\ Cardinality(R) \in Nat
    <3>1. R \subseteq Ups
      OBVIOUS
    <3> QED BY <2>1, <3>1, FS_Subset, FS_CardinalityType
  <2>3. \A i \in 1 .. Len(results) : results[i].who \in Ups \ R
    <3> TAKE i \in 1 .. Len(results)
    <3>1. results[i].who \in ChanWho
      BY DEF ChanWho
    <3> QED BY <1>0, <3>1 DEF ResultsInv
  <2>4. f \in Injection(1 .. Len(results), Ups \ R)
    <3>1. f \in [1 .. Len(results) -> Ups \ R]
      BY <2>3
    <3>2. \A i, j \in 1 .. Len(results) : f[i] = f[j] => i = j
      BY <1>0 DEF ResultsInv
    <3> HIDE DEF R, f
    <3> QED BY <3>1, <3>2 DEF Injection, IsInjective
  <2> HIDE DEF R, f
  <2>5. IsFiniteSet(Ups \ R) /\ Cardinality(Ups \ R) = n - Cardinality(R)
    <3>1. (Ups \ R) \cup R = Ups /\ (Ups \ R) \cap R = {}
      BY <2>2
    <3>2. IsFiniteSet(Ups \ R)
      BY <2>1, FS_Difference
    <3>3. Cardinality(Ups) = Cardinality(Ups \ R) + Cardinality(R)
      BY <2>2, <3>1, <3>2, CountJoin
    <3> QED BY <2>1, <2>2, <3>2, <3>3, FS_CardinalityType
  <2>6. Cardinality(1 .. Len(results)) = Len(results)
    <3>1. \A k \in Nat : Cardinality(1 .. k) = k
      BY FS_Interval
    <3> QED BY <2>1, <3>1
  <2>7. Len(results) <= n - Cardinality(R)
    BY <2>4, <2>5, <2>6, FS_Injection
  <2>8. Out = Abandoned
    BY <1>1 DEF Out, Abandoned, AskedSet, TookWho, TookRes
  <2> QED BY <1>0, <2>1, <2>2, <2>7, <2>8 DEF NoneBlocks, WaitingInv, R
<1> QED BY <1>2, <1>3, <1>4 DEF ForwardingInv

\* One query asked of several upstreams: what it gets is the best the upstreams
\* said, attributed to the one that sent it; nobody is asked before those ahead
\* failed or were slow, and nobody given up on before the budget is spent; and
\* the channel has room for the result of every goroutine that runs
\* (forwardOrdered, forwardHedged), whatever the number of upstreams.
THEOREM ForwardingHolds == FwSpec => []ForwardingInv
<1>1. FwInit => ForwardIInv
  BY ForwardStart
<1>2. ForwardIInv /\ [FwNext]_fwVars => ForwardIInv'
  <2> SUFFICES ASSUME ForwardIInv, [FwNext]_fwVars PROVE ForwardIInv'
    OBVIOUS
  <2>1. CASE UNCHANGED fwVars
    <3>1. UNCHANGED <<hedged, n, asked, results, next, pending, launched, soft, timer, spent, slow, took, ret>>
      BY <2>1 DEF fwVars
    <3>2. /\ Ups' = Ups /\ Behind' = Behind /\ Exchanges' = Exchanges /\ TookRes' = TookRes /\ TookWho' = TookWho
          /\ ChanWho' = ChanWho /\ Out' = Out /\ (Waits' <=> Waits)
      BY <3>1 DEF Ups, Behind, Exchanges, TookRes, TookWho, ChanWho, Out, AskedSet, Waits, Pending
    <3>3. ForwardTypes' /\ ResultsInv' /\ AskedInv'
      BY <3>1, <3>2 DEF ForwardIInv, ForwardTypes, ResultsInv, AskedInv, Nobody, Pending, Failure
    <3>4. WaitingInv' /\ ReturnedInv' /\ DueInv'
      BY <3>1, <3>2 DEF ForwardIInv, WaitingInv, ReturnedInv, DueInv, Nobody, Failure
    <3> QED BY <3>3, <3>4 DEF ForwardIInv
  <2>2. ASSUME NEW u \in Ups, ExchangeEnds(u) PROVE ForwardIInv'
    BY <2>2, ExchangeEndsKeeps
  <2>3. CASE BudgetEnds
    BY <2>3, BudgetEndsKeeps
  <2>4. CASE exchangeOnly
    BY <2>4, ExchangeOnlyKeeps
  <2>5. CASE TakeOrdered
    BY <2>5, TakeOrderedKeeps
  <2>6. CASE TimerOrdered
    BY <2>6, TimerOrderedKeeps
  <2>7. CASE HedgeFires
    BY <2>7, HedgeFiresKeeps
  <2>8. CASE TakeHedged
    BY <2>8, TakeHedgedKeeps
  <2> QED BY <2>1, <2>2, <2>3, <2>4, <2>5, <2>6, <2>7, <2>8 DEF FwNext
<1> QED BY <1>1, <1>2, ForwardIInvSuffices, PTL DEF FwSpec

-----------------------------------------------------------------------------
(* The pool of connections.                                                *)

IDs        == 0 .. IDCount - 1
PoolPlaces == {"get", "dial", "wait", "send", "sent", "held", "done"}
Holds      == {"send", "sent", "held"}
Inboxes    == {<<>>} \cup {<<x>> : x \in PoolQueries \cup {NoQuery}}
Tries      == 1 .. Attempts
ConnRefs   == 0 .. MaxOpened
QueryEnds    == {"none", "error", "busy", "timeout", "ok", "no", "unborn", "dropped", "closed"}
Fates      == {"no", "unborn", "dropped", "closed"}
ConnAges       == {"warm", "suspect", "idle"}
Askers     == PoolQueries \cup {NoQuery}
Waiters    == SUBSET (IDs \X PoolQueries)

QueryRecord ==
  [at : PoolPlaces, attempt : Tries, conn : ConnRefs, fresh : BOOLEAN, atLimit : BOOLEAN, suspect : BOOLEAN,
   unheard : BOOLEAN, id : IDs, inbox : Inboxes, res : QueryEnds, from : Askers]
ConnRecord ==
  [load : Nat, counted : BOOLEAN, pending : Waiters, nextID : IDs, dead : Fates, age : ConnAges, cuts : Nat]

PoolTypes ==
  /\ conns \subseteq Conns /\ backoff \in BOOLEAN /\ learned \in BOOLEAN /\ grown \in Nat
  /\ limit \in 1 .. MaxInflight /\ ceiling \in 0 .. MaxInflight
  /\ conn \in [Conns -> ConnRecord] /\ query \in [PoolQueries -> QueryRecord]
  /\ wire \subseteq Conns \X IDs \X PoolQueries

\* Who dials, and that what is used was opened.
PlaceInv ==
  /\ dialing = {q \in PoolQueries : query[q].at = "dial"} /\ IsFiniteSet(dialing)
  /\ \A c \in conns : conn[c].dead # "unborn"
  /\ \A q \in PoolQueries : query[q].at \in Holds => query[q].conn \in Conns /\ conn[query[q].conn].dead # "unborn"

\* A query waits for a message exactly while none has come for it.
ChannelInv ==
  /\ \A q \in PoolQueries : query[q].at \notin {"sent", "held"} => query[q].inbox = <<>>
  /\ \A c \in Conns : \A p \in conn[c].pending :
       query[p[2]].at = "sent" /\ query[p[2]].conn = c /\ query[p[2]].id = p[1] /\ query[p[2]].inbox = <<>>

\* Those who wait on a connection do so under IDs of their own.
OwnIDs == \A c \in Conns : \A p, r \in conn[c].pending : p[1] = r[1] => p = r

SlotInv == \A c \in Conns : IsFiniteSet(Holding(c)) /\ conn[c].load = Cardinality(Holding(c))

CutInv ==
  /\ \A c \in Conns : conn[c].cuts <= 1 /\ (~conn[c].counted => conn[c].cuts = 0) /\ conn[c].load <= MaxInflight
  /\ ceiling > 0 => limit <= ceiling

\* A query is about to give back a slot on a connection that is gone.
OnGone == \E p \in PoolQueries : query[p].at \in Holds /\ ~Alive(query[p].conn)

WaitersInv == \A q \in PoolQueries : query[q].at = "wait" /\ ~query[q].unheard =>
  /\ \A c \in conns : Alive(c) => conn[c].load >= limitLocked
  /\ \/ Cardinality(conns) + Cardinality(dialing) >= maxConnsLocked \/ Cardinality(dialing) >= MaxDials \/ OnGone
  /\ (\E c \in conns : ~Alive(c)) => OnGone

PoolIInv == PoolTypes /\ PlaceInv /\ ChannelInv /\ SlotInv /\ CutInv /\ WaitersInv

-----------------------------------------------------------------------------
(* Numbers.                                                                *)

LEMMA PoolNumbers ==
  /\ IDCount \in Nat \ {0} /\ FirstID \in IDs
  /\ MaxInflight \in Nat /\ MaxInflight < IDCount /\ StartInflight \in 1 .. MaxInflight
  /\ Capacity \in Nat \ {0} /\ MinConns \in Nat \ {0} /\ MaxDials \in Nat \ {0}
  /\ Attempts \in Nat \ {0} /\ MaxOpened \in Nat /\ NoQuery \notin PoolQueries
<1>1. IDCount \in Nat \ {0}
  BY DEF IDCount
<1> QED BY <1>1, PoolAssumption DEF IDs

LEMMA LeastNumber == ASSUME NEW S \in SUBSET Nat, S # {} PROVE Min(S) \in S /\ \A y \in S : Min(S) <= y
<1>1. \E x \in S : \A y \in S : x <= y
  <2>1. PICK x \in S : \A y \in S : ~(<<y, x>> \in OpToRel(<, Nat))
    BY NatLessThanWellFounded, WFMin
  <2>2. \A y \in S : ~(y < x)
    BY <2>1 DEF OpToRel
  <2> QED BY <2>2
<1> QED BY <1>1 DEF Min

LEMMA MinOfTwo == ASSUME NEW a \in Int, NEW b \in Int PROVE Min({a, b}) = IF a <= b THEN a ELSE b
<1>1. \E x \in {a, b} : \A y \in {a, b} : x <= y
  OBVIOUS
<1>2. Min({a, b}) \in {a, b} /\ \A y \in {a, b} : Min({a, b}) <= y
  BY <1>1 DEF Min
<1> QED BY <1>2

LEMMA MaxOfTwo == ASSUME NEW a \in Int, NEW b \in Int PROVE Max({a, b}) = IF a >= b THEN a ELSE b
<1>1. \E x \in {a, b} : \A y \in {a, b} : x >= y
  OBVIOUS
<1>2. Max({a, b}) \in {a, b} /\ \A y \in {a, b} : Max({a, b}) >= y
  BY <1>1 DEF Max
<1> QED BY <1>2

\* The limits, as numbers.
LEMMA LimitFacts ==
  ASSUME PoolTypes
  PROVE  /\ maxLimitLocked = (IF ceiling > 0 THEN ceiling ELSE MaxInflight)
         /\ maxLimitLocked \in 1 .. MaxInflight
         /\ limitLocked \in 1 .. MaxInflight /\ limitLocked <= limit
         /\ (ceiling > 0 => limit <= ceiling) => limitLocked = limit
         /\ maxConnsLocked \in Nat /\ maxConnsLocked >= 1
<1>1. limit \in 1 .. MaxInflight /\ ceiling \in 0 .. MaxInflight /\ MaxInflight \in Nat /\ Capacity \in Nat /\ MinConns \in Nat \ {0}
  BY PoolAssumption DEF PoolTypes
<1>2. maxLimitLocked = (IF ceiling > 0 THEN ceiling ELSE MaxInflight) /\ maxLimitLocked \in 1 .. MaxInflight
  BY <1>1 DEF maxLimitLocked
<1>3. limitLocked = (IF limit <= maxLimitLocked THEN limit ELSE maxLimitLocked)
  BY <1>1, <1>2, MinOfTwo DEF limitLocked
<1>4. limitLocked \in 1 .. MaxInflight /\ limitLocked <= limit
  BY <1>1, <1>2, <1>3
<1>5. maxConnsLocked \in Nat /\ maxConnsLocked >= 1
  <2> DEFINE m == Max({1, limitLocked})
             k == Capacity \div m
  <2>1. m \in Nat /\ m >= 1
    BY <1>4, MaxOfTwo
  <2> HIDE DEF m
  <2>2. k \in Nat
    BY <1>1, <2>1
  <2> HIDE DEF k
  <2> DEFINE l == Min({Capacity, k})
  <2>3. l \in Nat
    BY <1>1, <2>2, MinOfTwo
  <2>4. maxConnsLocked = Max({MinConns, l})
    BY DEF maxConnsLocked, k, m
  <2> HIDE DEF l
  <2> QED BY <1>1, <2>3, <2>4, MaxOfTwo
<1> QED BY <1>1, <1>2, <1>3, <1>4, <1>5

-----------------------------------------------------------------------------
(* IDs.                                                                    *)

\* As many queries wait on a connection as hold a slot on it, at most.
LEMMA UsedIsFew ==
  ASSUME PoolTypes, ChannelInv, SlotInv, CutInv, NEW c \in Conns
  PROVE  IsFiniteSet(Used(c)) /\ Cardinality(Used(c)) <= MaxInflight
<1>0. conn[c] \in ConnRecord /\ conn[c].pending \subseteq IDs \X PoolQueries
  BY DEF PoolTypes, ConnRecord, Waiters
<1>1. IsFiniteSet(Holding(c)) /\ Cardinality(Holding(c)) <= MaxInflight
  BY DEF SlotInv, CutInv
<1> DEFINE W == {p[2] : p \in conn[c].pending}
           f == [q \in W |-> query[q].id]
<1>2. W \subseteq Holding(c)
  BY <1>0 DEF ChannelInv, Holding
<1>3. IsFiniteSet(W) /\ Cardinality(W) <= Cardinality(Holding(c))
  BY <1>1, <1>2, FS_Subset
<1>4. f \in Surjection(W, Used(c))
  <2>1. \A p \in conn[c].pending : query[p[2]].id = p[1] /\ p[2] \in W
    BY DEF ChannelInv
  <2>2. \A i \in Used(c) : \E q \in W : f[q] = i
    BY <2>1 DEF Used
  <2>3. \A q \in W : f[q] \in Used(c)
    BY <2>1 DEF Used
  <2> QED BY <2>2, <2>3 DEF Surjection
<1>5. IsFiniteSet(Used(c)) /\ Cardinality(Used(c)) <= Cardinality(W)
  BY <1>3, <1>4, FS_Surjection
<1> HIDE DEF W
<1>6. Cardinality(W) \in Nat /\ Cardinality(Used(c)) \in Nat /\ Cardinality(Holding(c)) \in Nat
  BY <1>1, <1>3, <1>5, FS_CardinalityType
<1>7. MaxInflight \in Nat
  BY PoolNumbers
<1> QED BY <1>1, <1>3, <1>5, <1>6, <1>7

\* The loop in exchange ends: an ID is free, and the one it finds is.
LEMMA IdIsFree ==
  ASSUME PoolTypes, ChannelInv, SlotInv, CutInv, NEW c \in Conns
  PROVE  FreeID(c) \in IDs /\ FreeID(c) \notin Used(c)
<1>0. conn[c].nextID \in Nat /\ MaxInflight \in Nat /\ MaxInflight < IDCount
  <2>1. conn[c].nextID \in Nat
    BY DEF PoolTypes, ConnRecord, IDs
  <2> QED BY <2>1, PoolNumbers
<1>1. IsFiniteSet(Used(c)) /\ Cardinality(Used(c)) <= MaxInflight
  BY UsedIsFew
<1> DEFINE from == conn[c].nextID
           S == 0 .. MaxInflight
           g(d) == (from + d) % IDCount
           free == {d \in S : g(d) \notin Used(c)}
<1>2. free # {}
  <2> SUFFICES ASSUME free = {} PROVE FALSE
    OBVIOUS
  <2> DEFINE f == [d \in S |-> g(d)]
  <2>1. f \in [S -> Used(c)]
    OBVIOUS
  <2>2. IsFiniteSet(S) /\ Cardinality(S) = MaxInflight + 1
    BY <1>0, FS_Interval
  <2>3. Cardinality(Used(c)) < Cardinality(S)
    BY <1>0, <1>1, <2>2, FS_CardinalityType
  <2>4. \E x, y \in S : x # y /\ f[x] = f[y]
    <3> HIDE DEF f, S
    <3> QED BY <1>1, <2>1, <2>2, <2>3, FS_PigeonHole
  <2>5. PICK x \in S, y \in S : x # y /\ g(x) = g(y)
    BY <2>4
  <2> QED BY <1>0, <2>5 DEF IDCount
<1>3. free \in SUBSET Nat
  BY <1>0
<1>4. Min(free) \in free
  <2> HIDE DEF free
  <2> QED BY <1>2, <1>3, LeastNumber
<1>5. FreeID(c) = g(Min(free))
  BY DEF FreeID, NextFree
<1> HIDE DEF g
<1>6. Min(free) \in Nat /\ g(Min(free)) \notin Used(c)
  <2> DEFINE m == Min(free)
  <2>1. m \in free
    BY <1>4
  <2> HIDE DEF m
  <2>2. m \in Nat /\ g(m) \notin Used(c)
    BY <1>0, <2>1
  <2> QED BY <2>2 DEF m
<1> HIDE DEF free
<1>7. g(Min(free)) \in IDs
  <2> DEFINE m == Min(free)
  <2> HIDE DEF m
  <2> SUFFICES g(m) \in IDs
    BY DEF m
  <2>1. m \in Nat
    BY <1>6 DEF m
  <2>2. from + m \in Nat
    BY <1>0, <2>1
  <2>3. \A k \in Nat : k % IDCount \in IDs
    BY PoolNumbers DEF IDs
  <2> QED BY <2>2, <2>3 DEF g
<1> QED BY <1>5, <1>6, <1>7

-----------------------------------------------------------------------------
(* Slots, waiting queries and records.                                     *)

\* Nobody takes a slot or gives one back.
LEMMA SlotsKept ==
  ASSUME SlotInv, \A c \in Conns : conn'[c].load = conn[c].load,
         \A q \in PoolQueries : \/ (query'[q].at \in Holds <=> query[q].at \in Holds) /\ query'[q].conn = query[q].conn
                                \/ query'[q].at \notin Holds /\ query[q].at \notin Holds
  PROVE  SlotInv'
<1>1. \A c \in Conns : Holding(c)' = Holding(c)
  BY DEF Holding, Holds
<1> QED BY <1>1 DEF SlotInv

\* One query takes a slot.
LEMMA SlotTaken ==
  ASSUME SlotInv, NEW q \in PoolQueries, NEW c \in Conns, query[q].at \notin Holds, query'[q].at \in Holds, query'[q].conn = c,
         \A d \in Conns : conn'[d].load = IF d = c THEN conn[d].load + 1 ELSE conn[d].load,
         \A p \in PoolQueries : p # q => \/ (query'[p].at \in Holds <=> query[p].at \in Holds) /\ query'[p].conn = query[p].conn
                                         \/ query'[p].at \notin Holds /\ query[p].at \notin Holds
  PROVE  SlotInv'
<1>1. \A d \in Conns : d # c => Holding(d)' = Holding(d)
  BY DEF Holding, Holds
<1>2. Holding(c)' = Holding(c) \cup {q} /\ q \notin Holding(c)
  BY DEF Holding, Holds
<1>3. IsFiniteSet(Holding(c)) /\ conn[c].load = Cardinality(Holding(c))
  BY DEF SlotInv
<1>4. IsFiniteSet(Holding(c)') /\ Cardinality(Holding(c)') = conn[c].load + 1
  BY <1>2, <1>3, FS_AddElement
<1>5. SUFFICES ASSUME NEW d \in Conns PROVE IsFiniteSet(Holding(d)') /\ conn'[d].load = Cardinality(Holding(d)')
  BY DEF SlotInv
<1>6. CASE d = c
  BY <1>4, <1>6
<1>7. CASE d # c
  BY <1>1, <1>7 DEF SlotInv
<1> QED BY <1>6, <1>7

\* One query gives its slot back.
LEMMA SlotGiven ==
  ASSUME SlotInv, NEW q \in PoolQueries, NEW c \in Conns, query[q].at \in Holds, query[q].conn = c, query'[q].at \notin Holds,
         \A d \in Conns : conn'[d].load = IF d = c THEN conn[d].load - 1 ELSE conn[d].load,
         \A p \in PoolQueries : p # q => \/ (query'[p].at \in Holds <=> query[p].at \in Holds) /\ query'[p].conn = query[p].conn
                                         \/ query'[p].at \notin Holds /\ query[p].at \notin Holds
  PROVE  SlotInv'
<1>1. \A d \in Conns : d # c => Holding(d)' = Holding(d)
  BY DEF Holding, Holds
<1>2. Holding(c)' = Holding(c) \ {q} /\ q \in Holding(c)
  BY DEF Holding, Holds
<1>3. IsFiniteSet(Holding(c)) /\ conn[c].load = Cardinality(Holding(c))
  BY DEF SlotInv
<1>4. IsFiniteSet(Holding(c)') /\ Cardinality(Holding(c)') = conn[c].load - 1
  BY <1>2, <1>3, FS_RemoveElement
<1>5. SUFFICES ASSUME NEW d \in Conns PROVE IsFiniteSet(Holding(d)') /\ conn'[d].load = Cardinality(Holding(d)')
  BY DEF SlotInv
<1>6. CASE d = c
  BY <1>4, <1>6
<1>7. CASE d # c
  BY <1>1, <1>7 DEF SlotInv
<1> QED BY <1>6, <1>7

\* A connection with a query on it is in use, one without is not.
LEMMA LoadedIsHeld ==
  ASSUME SlotInv, NEW c \in Conns
  PROVE  /\ conn[c].load \in Nat
         /\ conn[c].load = 0 <=> \A q \in PoolQueries : ~(query[q].at \in Holds /\ query[q].conn = c)
<1>1. IsFiniteSet(Holding(c)) /\ conn[c].load = Cardinality(Holding(c))
  BY DEF SlotInv
<1>2. conn[c].load \in Nat /\ (conn[c].load = 0 <=> Holding(c) = {})
  BY <1>1, FS_CardinalityType, FS_EmptySet
<1> QED BY <1>2 DEF Holding, Holds

\* No query begins to wait, and what it waits for is as it was, or a query is
\* about to give its slot back.
LEMMA WaitKept ==
  ASSUME WaitersInv, conns' = conns, dialing' = dialing, limitLocked' = limitLocked, maxConnsLocked' = maxConnsLocked,
         \A q \in PoolQueries : query'[q].at = "wait" /\ ~query'[q].unheard => query[q].at = "wait" /\ ~query[q].unheard,
         \A c \in conns : conn'[c].load = conn[c].load /\ (Alive(c)' => Alive(c)),
         OnGone => OnGone',
         \A c \in conns : Alive(c) /\ ~Alive(c)' /\ (\E q \in PoolQueries : query[q].at = "wait" /\ ~query[q].unheard) => OnGone'
  PROVE  WaitersInv'
<1> SUFFICES ASSUME NEW q \in PoolQueries, query'[q].at = "wait", ~query'[q].unheard
             PROVE  /\ \A c \in conns' : Alive(c)' => conn'[c].load >= limitLocked'
                    /\ \/ Cardinality(conns') + Cardinality(dialing') >= maxConnsLocked' \/ Cardinality(dialing') >= MaxDials
                       \/ OnGone'
                    /\ (\E c \in conns' : ~Alive(c)') => OnGone'
  BY DEF WaitersInv
<1>1. query[q].at = "wait" /\ ~query[q].unheard
  OBVIOUS
<1>2. /\ \A c \in conns : Alive(c) => conn[c].load >= limitLocked
      /\ \/ Cardinality(conns) + Cardinality(dialing) >= maxConnsLocked \/ Cardinality(dialing) >= MaxDials \/ OnGone
      /\ (\E c \in conns : ~Alive(c)) => OnGone
  BY <1>1 DEF WaitersInv
<1>3. (\E c \in conns : ~Alive(c)') => OnGone'
  BY <1>1, <1>2
<1>4. \A c \in conns : Alive(c)' => conn'[c].load >= limitLocked'
  BY <1>2
<1>5. Cardinality(conns') = Cardinality(conns) /\ Cardinality(dialing') = Cardinality(dialing)
  OBVIOUS
<1> QED BY <1>2, <1>3, <1>4, <1>5

\* The limits are as they were, or would be told apart.
LEMMA LimitsKept ==
  ASSUME UNCHANGED <<limit, ceiling>>
  PROVE  limitLocked' = limitLocked /\ maxConnsLocked' = maxConnsLocked /\ maxLimitLocked' = maxLimitLocked
<1>1. maxLimitLocked' = maxLimitLocked
  BY DEF maxLimitLocked
<1>2. limitLocked' = limitLocked
  BY <1>1 DEF limitLocked
<1> QED BY <1>1, <1>2 DEF maxConnsLocked

-----------------------------------------------------------------------------
(* What the steps have in common.                                          *)

LEMMA PoolStart == PpInit => PoolIInv
<1> SUFFICES ASSUME PpInit PROVE PoolIInv
  OBVIOUS
<1>0. /\ MaxInflight \in Nat /\ StartInflight \in 1 .. MaxInflight /\ Attempts \in Nat \ {0} /\ MaxOpened \in Nat
      /\ FirstID \in IDs /\ 0 \in IDs
  BY PoolNumbers DEF IDs
<1>1. Fresh \in QueryRecord /\ Fresh.at = "get" /\ Fresh.inbox = <<>>
  BY <1>0 DEF Fresh, QueryRecord, PoolPlaces, Tries, ConnRefs, Inboxes, QueryEnds, Askers
<1> DEFINE n0 == [NewConn EXCEPT !.dead = "unborn"]
<1>2. n0 \in ConnRecord /\ n0.load = 0 /\ n0.counted = FALSE /\ n0.pending = {} /\ n0.cuts = 0 /\ n0.dead = "unborn"
  BY <1>0 DEF NewConn, ConnRecord, Waiters, Fates, ConnAges
<1> HIDE DEF n0
<1>3. /\ conns = {} /\ dialing = {} /\ wire = {} /\ limit = StartInflight /\ ceiling = 0 /\ grown = 0
      /\ backoff = FALSE /\ learned = FALSE
      /\ conn = [c \in Conns |-> n0] /\ query = [q \in PoolQueries |-> Fresh]
  BY DEF PpInit, n0
<1>4. PoolTypes
  <2>1. conn \in [Conns -> ConnRecord] /\ query \in [PoolQueries -> QueryRecord]
    BY <1>1, <1>2, <1>3
  <2>2. limit \in 1 .. MaxInflight /\ ceiling \in 0 .. MaxInflight /\ grown \in Nat
    BY <1>0, <1>3
  <2>3. conns \subseteq Conns /\ wire \subseteq Conns \X IDs \X PoolQueries
    BY <1>3
  <2> QED BY <1>3, <2>1, <2>2, <2>3 DEF PoolTypes
<1>5. PlaceInv
  BY <1>1, <1>3, FS_EmptySet DEF PlaceInv, Holds
<1>6. ChannelInv
  BY <1>1, <1>2, <1>3 DEF ChannelInv
<1>7. SlotInv
  <2>1. \A c \in Conns : Holding(c) = {} /\ conn[c].load = 0
    BY <1>1, <1>2, <1>3 DEF Holding
  <2> QED BY <2>1, FS_EmptySet DEF SlotInv
<1>8. CutInv /\ WaitersInv
  BY <1>0, <1>1, <1>2, <1>3 DEF CutInv, WaitersInv
<1> QED BY <1>4, <1>5, <1>6, <1>7, <1>8 DEF PoolIInv

\* A query is what it was, or waits no more.
LEMMA Signalled ==
  ASSUME PoolTypes
  PROVE  /\ signalLocked(query) \in [PoolQueries -> QueryRecord]
         /\ \A q \in PoolQueries : signalLocked(query)[q].at =
              IF query[q].at = "wait" THEN "get" ELSE query[q].at
         /\ \A q \in PoolQueries :
              /\ signalLocked(query)[q].conn = query[q].conn /\ signalLocked(query)[q].inbox = query[q].inbox
              /\ signalLocked(query)[q].id = query[q].id /\ signalLocked(query)[q].attempt = query[q].attempt
              /\ signalLocked(query)[q].res = query[q].res /\ signalLocked(query)[q].from = query[q].from
<1>1. \A q \in PoolQueries : signalLocked(query)[q] =
        IF query[q].at = "wait" THEN [query[q] EXCEPT !.at = "get", !.unheard = FALSE] ELSE query[q]
  BY DEF signalLocked
<1>2. \A d \in QueryRecord : /\ [d EXCEPT !.at = "get", !.unheard = FALSE] \in QueryRecord
                             /\ [d EXCEPT !.at = "get", !.unheard = FALSE].at = "get"
                             /\ [d EXCEPT !.at = "get", !.unheard = FALSE].conn = d.conn
                             /\ [d EXCEPT !.at = "get", !.unheard = FALSE].inbox = d.inbox
                             /\ [d EXCEPT !.at = "get", !.unheard = FALSE].id = d.id
                             /\ [d EXCEPT !.at = "get", !.unheard = FALSE].attempt = d.attempt
                             /\ [d EXCEPT !.at = "get", !.unheard = FALSE].res = d.res
                             /\ [d EXCEPT !.at = "get", !.unheard = FALSE].from = d.from
  BY DEF QueryRecord, PoolPlaces
<1>3. \A q \in PoolQueries : query[q] \in QueryRecord
  BY DEF PoolTypes
<1>4. \A q \in PoolQueries : signalLocked(query)[q] \in QueryRecord
  BY <1>1, <1>2, <1>3
<1>5. signalLocked(query) \in [PoolQueries -> QueryRecord]
  BY <1>4 DEF signalLocked
<1>6. ASSUME NEW q \in PoolQueries
      PROVE  /\ signalLocked(query)[q].at = IF query[q].at = "wait" THEN "get" ELSE query[q].at
             /\ signalLocked(query)[q].conn = query[q].conn /\ signalLocked(query)[q].inbox = query[q].inbox
             /\ signalLocked(query)[q].id = query[q].id /\ signalLocked(query)[q].attempt = query[q].attempt
             /\ signalLocked(query)[q].res = query[q].res /\ signalLocked(query)[q].from = query[q].from
  <2>1. PICK d \in QueryRecord : query[q] = d
    BY <1>3
  <2>2. CASE d.at = "wait"
    BY <1>1, <1>2, <2>1, <2>2
  <2>3. CASE d.at # "wait"
    BY <1>1, <2>1, <2>3
  <2> QED BY <2>2, <2>3
<1> QED BY <1>5, <1>6

\* What a query that is over, or tries again, is left with.
LEMMA OverIsEmpty ==
  ASSUME NEW res \in QueryEnds, NEW from \in Askers, NEW k \in Tries
  PROVE  /\ Over(res, from) \in QueryRecord /\ Over(res, from).at = "done" /\ Over(res, from).inbox = <<>>
         /\ [Fresh EXCEPT !.attempt = k] \in QueryRecord /\ [Fresh EXCEPT !.attempt = k].at = "get"
         /\ [Fresh EXCEPT !.attempt = k].inbox = <<>> /\ [Fresh EXCEPT !.attempt = k].unheard = FALSE
<1>0. MaxOpened \in Nat /\ Attempts \in Nat \ {0} /\ 0 \in IDs
  BY PoolNumbers DEF IDs
<1>1. Fresh \in QueryRecord /\ Fresh.inbox = <<>> /\ Fresh.at = "get" /\ Fresh.unheard = FALSE
  BY <1>0 DEF Fresh, QueryRecord, PoolPlaces, Tries, ConnRefs, Inboxes, QueryEnds, Askers
<1>2. [Fresh EXCEPT !.at = "done", !.res = res, !.from = from] \in QueryRecord
  BY <1>1 DEF QueryRecord, PoolPlaces
<1>3. /\ [Fresh EXCEPT !.at = "done", !.res = res, !.from = from].at = "done"
      /\ [Fresh EXCEPT !.at = "done", !.res = res, !.from = from].inbox = <<>>
  BY <1>1 DEF QueryRecord
<1>4. /\ [Fresh EXCEPT !.attempt = k] \in QueryRecord /\ [Fresh EXCEPT !.attempt = k].at = "get"
      /\ [Fresh EXCEPT !.attempt = k].inbox = <<>> /\ [Fresh EXCEPT !.attempt = k].unheard = FALSE
  BY <1>1 DEF QueryRecord
<1> QED BY <1>2, <1>3, <1>4 DEF Over

\* The connections without those that were idle for too long.
LEMMA PrunedIs ==
  ASSUME PoolTypes
  PROVE  /\ Pruned \in [Conns -> ConnRecord] /\ Live \subseteq conns /\ Live \subseteq Conns
         /\ \A c \in Conns : /\ Pruned[c].load = conn[c].load /\ Pruned[c].pending = conn[c].pending
                             /\ Pruned[c].counted = conn[c].counted /\ Pruned[c].cuts = conn[c].cuts
                             /\ Pruned[c].dead = IF c \in Silent THEN "closed" ELSE conn[c].dead
         /\ \A c \in Live : c \notin Silent /\ Alive(c)
<1>1. \A c \in Conns : Pruned[c] = IF c \in Silent THEN [conn[c] EXCEPT !.dead = "closed"] ELSE conn[c]
  BY DEF Pruned
<1>2. \A d \in ConnRecord : LET e == [d EXCEPT !.dead = "closed"] IN
         /\ e \in ConnRecord /\ e.dead = "closed" /\ e.load = d.load /\ e.pending = d.pending
         /\ e.counted = d.counted /\ e.cuts = d.cuts
  BY DEF ConnRecord, Fates
<1>3. \A c \in Conns : conn[c] \in ConnRecord
  BY DEF PoolTypes
<1>4. \A c \in Conns : Pruned[c] \in ConnRecord
  BY <1>1, <1>2, <1>3
<1>5. Pruned \in [Conns -> ConnRecord]
  BY <1>4 DEF Pruned
<1>6. Live \subseteq conns /\ conns \subseteq Conns /\ \A c \in Live : c \notin Silent /\ Alive(c)
  BY DEF Live, PoolTypes
<1>7. ASSUME NEW c \in Conns
      PROVE  /\ Pruned[c].load = conn[c].load /\ Pruned[c].pending = conn[c].pending
             /\ Pruned[c].counted = conn[c].counted /\ Pruned[c].cuts = conn[c].cuts
             /\ Pruned[c].dead = IF c \in Silent THEN "closed" ELSE conn[c].dead
  <2>1. PICK d \in ConnRecord : conn[c] = d
    BY <1>3
  <2>2. CASE c \in Silent
    BY <1>1, <1>2, <2>1, <2>2
  <2>3. CASE c \notin Silent
    BY <1>1, <2>1, <2>3
  <2> QED BY <2>2, <2>3
<1> QED BY <1>5, <1>6, <1>7

\* While somebody waits that was told of everything, no connection is idle, and
\* the dead ones leave the pool only while their queries are about to follow.
LEMMA WaitersSeePool ==
  ASSUME PoolIInv, NEW q \in PoolQueries, query[q].at = "wait", ~query[q].unheard
  PROVE  /\ Silent = {} /\ Live = {c \in conns : Alive(c)} /\ (OnGone \/ Live = conns)
         /\ \A c \in Live : conn[c].load >= limitLocked /\ conn[c].load >= 1
<1>1. /\ \A c \in conns : Alive(c) => conn[c].load >= limitLocked
      /\ (\E c \in conns : ~Alive(c)) => OnGone
  BY DEF PoolIInv, WaitersInv
<1>2. limitLocked \in 1 .. MaxInflight /\ MaxInflight \in Nat
  BY LimitFacts, PoolNumbers DEF PoolIInv
<1>3. \A c \in conns : conn[c].load \in Nat
  BY DEF PoolIInv, PoolTypes, ConnRecord
<1>4. \A c \in conns : Alive(c) => conn[c].load >= 1
  BY <1>1, <1>2, <1>3
<1>5. Silent = {}
  BY <1>4 DEF Silent
<1>6. Live = {c \in conns : Alive(c)}
  BY <1>5 DEF Live
<1> QED BY <1>1, <1>4, <1>5, <1>6

-----------------------------------------------------------------------------
(* get.                                                                    *)

LEMMA PoolParts == PoolIInv <=> PoolTypes /\ PlaceInv /\ ChannelInv /\ SlotInv /\ CutInv /\ WaitersInv
BY DEF PoolIInv

\* A slot is taken: nobody waits who was told of it.
LEMMA ReservesKeeps ==
  ASSUME PoolIInv, NEW q \in PoolQueries, query[q].at = "get", NEW c \in leastLoadedLocked, conn[c].load < limitLocked,
         Reserves(q, c), PoolKeeps
  PROVE  PoolIInv'
<1>0. PoolTypes /\ PlaceInv /\ ChannelInv /\ SlotInv /\ CutInv /\ WaitersInv
  BY PoolParts
<1>1. /\ conns' = Live /\ conn' = [Pruned EXCEPT ![c].load = @ + 1] /\ UNCHANGED <<dialing, backoff>>
      /\ UNCHANGED <<limit, learned, grown, ceiling, wire>>
  BY DEF Reserves, PoolKeeps
<1>2. /\ Pruned \in [Conns -> ConnRecord] /\ Live \subseteq conns /\ Live \subseteq Conns
      /\ \A x \in Conns : /\ Pruned[x].load = conn[x].load /\ Pruned[x].pending = conn[x].pending
                          /\ Pruned[x].counted = conn[x].counted /\ Pruned[x].cuts = conn[x].cuts
                          /\ Pruned[x].dead = IF x \in Silent THEN "closed" ELSE conn[x].dead
      /\ \A x \in Live : x \notin Silent /\ Alive(x)
  BY <1>0, PrunedIs
<1>3. c \in Live /\ c \in Conns
  BY <1>2 DEF leastLoadedLocked
<1>4. limitLocked \in 1 .. MaxInflight /\ MaxInflight \in Nat
  BY <1>0, LimitFacts, PoolNumbers
<1>5. conn' \in [Conns -> ConnRecord] /\
      \A x \in Conns : /\ conn'[x].load = (IF x = c THEN conn[x].load + 1 ELSE conn[x].load)
                       /\ conn'[x].pending = conn[x].pending /\ conn'[x].counted = conn[x].counted
                       /\ conn'[x].cuts = conn[x].cuts /\ conn'[x].dead = IF x \in Silent THEN "closed" ELSE conn[x].dead
  <2>1. PICK d \in ConnRecord : Pruned[c] = d
    BY <1>2, <1>3
  <2>2. [d EXCEPT !.load = @ + 1] \in ConnRecord
    BY DEF ConnRecord
  <2>3. conn' = [Pruned EXCEPT ![c] = [d EXCEPT !.load = @ + 1]]
    BY <1>1, <2>1
  <2>4. \A x \in Conns : conn'[x] = IF x = c THEN [d EXCEPT !.load = @ + 1] ELSE Pruned[x]
    BY <1>2, <2>3
  <2>5. conn' \in [Conns -> ConnRecord]
    BY <1>2, <2>2, <2>3
  <2>6. LET e == [d EXCEPT !.load = @ + 1] IN
        e.load = d.load + 1 /\ e.pending = d.pending /\ e.counted = d.counted /\ e.cuts = d.cuts /\ e.dead = d.dead
    BY DEF ConnRecord
  <2>7. ASSUME NEW x \in Conns
        PROVE  /\ conn'[x].load = (IF x = c THEN conn[x].load + 1 ELSE conn[x].load)
               /\ conn'[x].pending = conn[x].pending /\ conn'[x].counted = conn[x].counted
               /\ conn'[x].cuts = conn[x].cuts /\ conn'[x].dead = IF x \in Silent THEN "closed" ELSE conn[x].dead
    <3>1. CASE x = c
      BY <1>2, <2>1, <2>4, <2>6, <3>1
    <3>2. CASE x # c
      BY <1>2, <2>4, <3>2
    <3> QED BY <3>1, <3>2
  <2> QED BY <2>5, <2>7
<1>6. query' \in [PoolQueries -> QueryRecord] /\ query'[q].at = "send" /\ query'[q].conn = c
      /\ query'[q].inbox = query[q].inbox /\ \A p \in PoolQueries : p # q => query'[p] = query[p]
  <2>1. PICK d \in QueryRecord : query[q] = d
    BY <1>0 DEF PoolTypes
  <2> DEFINE b1 == conn[c].load + 1 >= limitLocked
             b2 == conn[c].age # "warm"
             e == [d EXCEPT !.at = "send", !.conn = c, !.fresh = FALSE, !.atLimit = b1, !.suspect = b2]
  <2>2. b1 \in BOOLEAN /\ b2 \in BOOLEAN
    OBVIOUS
  <2>3. query' = [query EXCEPT ![q] = e]
    BY <2>1 DEF Reserves
  <2> HIDE DEF b1, b2
  <2>4. c \in ConnRefs
    BY <1>3, PoolNumbers DEF Conns, ConnRefs
  <2>5. e \in QueryRecord /\ e.at = "send" /\ e.conn = c /\ e.inbox = d.inbox
    BY <2>2, <2>4 DEF QueryRecord, PoolPlaces
  <2> HIDE DEF e
  <2> QED BY <1>0, <2>1, <2>3, <2>5 DEF PoolTypes
<1>7. PoolTypes'
  BY <1>0, <1>1, <1>2, <1>5, <1>6 DEF PoolTypes
<1>8. PlaceInv'
  <2>1. dialing' = {p \in PoolQueries : query'[p].at = "dial"} /\ IsFiniteSet(dialing')
    BY <1>0, <1>1, <1>6 DEF PlaceInv
  <2>2. \A x \in conns' : conn'[x].dead # "unborn"
    BY <1>0, <1>1, <1>2, <1>5 DEF PlaceInv
  <2>3. \A p \in PoolQueries : query'[p].at \in Holds => query'[p].conn \in Conns /\ conn'[query'[p].conn].dead # "unborn"
    <3> TAKE p \in PoolQueries
    <3>1. CASE p = q
      BY <1>2, <1>3, <1>5, <1>6, <3>1 DEF Alive
    <3>2. CASE p # q
      BY <1>0, <1>5, <1>6, <3>2 DEF PlaceInv
    <3> QED BY <3>1, <3>2
  <2> QED BY <2>1, <2>2, <2>3 DEF PlaceInv
<1>9. ChannelInv'
  <2>1. \A x \in Conns : \A p \in conn[x].pending : p[2] # q
    BY <1>0 DEF ChannelInv
  <2>2. \A x \in Conns : \A p \in conn[x].pending : p[2] \in PoolQueries
    BY <1>0 DEF PoolTypes, ConnRecord, Waiters
  <2>3. \A x \in Conns : \A p \in conn'[x].pending :
          query'[p[2]].at = "sent" /\ query'[p[2]].conn = x /\ query'[p[2]].id = p[1] /\ query'[p[2]].inbox = <<>>
    BY <1>0, <1>5, <1>6, <2>1, <2>2 DEF ChannelInv
  <2>4. \A p \in PoolQueries : query'[p].at \notin {"sent", "held"} => query'[p].inbox = <<>>
    BY <1>0, <1>6 DEF ChannelInv
  <2> QED BY <2>3, <2>4 DEF ChannelInv
<1>10. SlotInv'
  BY <1>0, <1>3, <1>5, <1>6, SlotTaken DEF Holds
<1>11. CutInv'
  <2>1. conn[c].load + 1 <= MaxInflight
    BY <1>0, <1>3, <1>4, LoadedIsHeld
  <2> QED BY <1>0, <1>1, <1>5, <2>1 DEF CutInv
<1>12. WaitersInv'
  <2>1. \A p \in PoolQueries : ~(query[p].at = "wait" /\ ~query[p].unheard)
    <3> SUFFICES ASSUME NEW p \in PoolQueries, query[p].at = "wait", ~query[p].unheard PROVE FALSE
      OBVIOUS
    <3>1. conn[c].load >= limitLocked
      BY <1>3, WaitersSeePool
    <3> QED BY <1>0, <1>3, <1>4, <3>1, LoadedIsHeld
  <2> QED BY <1>6, <2>1 DEF WaitersInv
<1> QED BY <1>7, <1>8, <1>9, <1>10, <1>11, <1>12, PoolParts DEF PoolIInv

\* No slot is taken: the query is over, dials or waits.
LEMMA LookKeeps ==
  ASSUME PoolIInv, NEW q \in PoolQueries, query[q].at = "get", conns' = Live, conn' = Pruned, backoff' \in BOOLEAN, PoolKeeps,
         NEW d \in QueryRecord, query' = [query EXCEPT ![q] = d], d.at \in {"done", "dial", "wait"}, d.inbox = <<>>,
         dialing' = IF d.at = "dial" THEN dialing \cup {q} ELSE dialing
  PROVE  /\ PoolTypes' /\ PlaceInv' /\ ChannelInv' /\ SlotInv' /\ CutInv'
         /\ (d.at = "wait" /\ ~d.unheard => (\A c \in leastLoadedLocked : conn[c].load >= limitLocked) /\ ~MayDial) => WaitersInv'
<1>0. PoolTypes /\ PlaceInv /\ ChannelInv /\ SlotInv /\ CutInv /\ WaitersInv
  BY PoolParts
<1>1. UNCHANGED <<limit, learned, grown, ceiling, wire>>
  BY DEF PoolKeeps
<1>2. /\ Pruned \in [Conns -> ConnRecord] /\ Live \subseteq conns /\ Live \subseteq Conns
      /\ \A x \in Conns : /\ Pruned[x].load = conn[x].load /\ Pruned[x].pending = conn[x].pending
                          /\ Pruned[x].counted = conn[x].counted /\ Pruned[x].cuts = conn[x].cuts
                          /\ Pruned[x].dead = IF x \in Silent THEN "closed" ELSE conn[x].dead
      /\ \A x \in Live : x \notin Silent /\ Alive(x)
  BY <1>0, PrunedIs
<1>3. \A p \in PoolQueries : query'[p] = IF p = q THEN d ELSE query[p]
  BY <1>0 DEF PoolTypes
<1>4. PoolTypes'
  <2>1. query' \in [PoolQueries -> QueryRecord]
    BY <1>0 DEF PoolTypes
  <2> QED BY <1>0, <1>1, <1>2, <2>1 DEF PoolTypes
<1>5. PlaceInv'
  <2>1. dialing' = {p \in PoolQueries : query'[p].at = "dial"} /\ IsFiniteSet(dialing')
    <3>1. dialing = {p \in PoolQueries : query[p].at = "dial"} /\ IsFiniteSet(dialing)
      BY <1>0 DEF PlaceInv
    <3>2. IsFiniteSet(dialing')
      BY <3>1, FS_AddElement
    <3>3. dialing' = {p \in PoolQueries : query'[p].at = "dial"}
      BY <1>3, <3>1
    <3> QED BY <3>2, <3>3
  <2>2. \A x \in conns' : conn'[x].dead # "unborn"
    BY <1>0, <1>2 DEF PlaceInv
  <2>3. \A p \in PoolQueries : query'[p].at \in Holds => query'[p].conn \in Conns /\ conn'[query'[p].conn].dead # "unborn"
    BY <1>0, <1>2, <1>3 DEF PlaceInv, Holds
  <2> QED BY <2>1, <2>2, <2>3 DEF PlaceInv
<1>6. ChannelInv'
  <2>1. \A x \in Conns : \A p \in conn[x].pending : p[2] # q /\ p[2] \in PoolQueries
    BY <1>0 DEF ChannelInv, PoolTypes, ConnRecord, Waiters
  <2>2. \A x \in Conns : \A p \in conn'[x].pending :
          query'[p[2]].at = "sent" /\ query'[p[2]].conn = x /\ query'[p[2]].id = p[1] /\ query'[p[2]].inbox = <<>>
    BY <1>0, <1>2, <1>3, <2>1 DEF ChannelInv
  <2>3. \A p \in PoolQueries : query'[p].at \notin {"sent", "held"} => query'[p].inbox = <<>>
    BY <1>0, <1>3 DEF ChannelInv
  <2> QED BY <2>2, <2>3 DEF ChannelInv
<1>7. SlotInv'
  BY <1>0, <1>2, <1>3, SlotsKept DEF Holds
<1>8. CutInv'
  BY <1>0, <1>1, <1>2 DEF CutInv
<1>9. ASSUME d.at = "wait" /\ ~d.unheard => (\A c \in leastLoadedLocked : conn[c].load >= limitLocked) /\ ~MayDial
      PROVE  WaitersInv'
  <2>0. limitLocked' = limitLocked /\ maxConnsLocked' = maxConnsLocked /\ maxConnsLocked \in Nat /\ limitLocked \in Nat
    BY <1>0, <1>1, LimitsKept, LimitFacts
  <2>1. \A c \in conns' : Alive(c)'
    BY <1>2 DEF Alive
  <2>2. OnGone => OnGone'
    <3> SUFFICES ASSUME NEW p \in PoolQueries, query[p].at \in Holds, ~Alive(query[p].conn) PROVE OnGone'
      BY DEF OnGone
    <3>1. p # q /\ query'[p] = query[p] /\ query[p].conn \in Conns
      BY <1>0, <1>3 DEF Holds, PlaceInv
    <3>2. conn'[query'[p].conn].dead # "no"
      BY <1>2, <3>1 DEF Alive
    <3> QED BY <3>1, <3>2 DEF OnGone, Alive
  <2>3. IsFiniteSet(dialing) /\ IsFiniteSet(dialing') /\ Cardinality(dialing) <= Cardinality(dialing')
        /\ Cardinality(dialing) \in Nat /\ Cardinality(dialing') \in Nat
    <3>1. IsFiniteSet(dialing)
      BY <1>0 DEF PlaceInv
    <3>2. IsFiniteSet(dialing') /\ dialing \in SUBSET dialing'
      BY <3>1, FS_AddElement
    <3> QED BY <3>1, <3>2, FS_Subset, FS_CardinalityType
  <2>4. IsFiniteSet(conns) /\ Cardinality(conns) \in Nat /\ IsFiniteSet(Live) /\ Cardinality(Live) \in Nat
    <3>1. IsFiniteSet(Conns)
      BY PoolNumbers, FS_Interval DEF Conns
    <3>2. conns \subseteq Conns
      BY <1>0 DEF PoolTypes
    <3> QED BY <1>2, <3>1, <3>2, FS_Subset, FS_CardinalityType
  <2> SUFFICES ASSUME NEW p \in PoolQueries, query'[p].at = "wait", ~query'[p].unheard
               PROVE  /\ \A c \in conns' : Alive(c)' => conn'[c].load >= limitLocked'
                      /\ \/ Cardinality(conns') + Cardinality(dialing') >= maxConnsLocked'
                         \/ Cardinality(dialing') >= MaxDials \/ OnGone'
                      /\ (\E c \in conns' : ~Alive(c)') => OnGone'
    BY DEF WaitersInv
  <2>5. CASE p # q
    <3>1. query[p].at = "wait" /\ ~query[p].unheard
      BY <1>3, <2>5
    <3>2. (OnGone \/ Live = conns) /\ \A c \in Live : conn[c].load >= limitLocked
      BY <3>1, WaitersSeePool
    <3>3. Cardinality(conns) + Cardinality(dialing) >= maxConnsLocked \/ Cardinality(dialing) >= MaxDials \/ OnGone
      BY <1>0, <3>1 DEF WaitersInv
    <3>4. \A c \in conns' : conn'[c].load >= limitLocked'
      BY <1>2, <2>0, <3>2
    <3>5. CASE OnGone
      BY <2>1, <2>2, <3>4, <3>5
    <3>6. CASE ~OnGone
      <4>1. conns' = conns
        BY <3>2, <3>6
      <4>2. MaxDials \in Nat
        BY PoolNumbers
      <4>3. Cardinality(conns') + Cardinality(dialing') >= maxConnsLocked' \/ Cardinality(dialing') >= MaxDials
        BY <2>0, <2>3, <2>4, <3>3, <3>6, <4>1, <4>2
      <4> QED BY <2>1, <3>4, <4>3
    <3> QED BY <3>5, <3>6
  <2>6. CASE p = q
    <3>1. d.at = "wait" /\ ~d.unheard
      BY <1>3, <2>6
    <3>2. (\A c \in leastLoadedLocked : conn[c].load >= limitLocked) /\ ~MayDial
      BY <1>9, <3>1
    <3>3. dialing' = dialing
      BY <3>1
    <3>4. MaxDials \in Nat
      BY PoolNumbers
    <3>5. Cardinality(conns') + Cardinality(dialing') >= maxConnsLocked' \/ Cardinality(dialing') >= MaxDials
      BY <2>0, <2>3, <2>4, <3>2, <3>3, <3>4 DEF MayDial
    <3>6. \A c \in Live : conn[c].load >= limitLocked
      <4> SUFFICES ASSUME NEW c \in Live PROVE conn[c].load >= limitLocked
        OBVIOUS
      <4> DEFINE loads == {conn[x].load : x \in Live}
      <4>1. \A x \in Live : conn[x].load \in Nat
        BY <1>0, <1>2 DEF PoolTypes, ConnRecord
      <4>2. loads \in SUBSET Nat /\ loads # {}
        BY <4>1
      <4>3. \E l \in loads : \A y \in loads : l <= y
        <5> HIDE DEF loads
        <5> QED BY <4>2, LeastNumber
      <4>4. PICK x \in Live : \A y \in Live : conn[x].load <= conn[y].load
        BY <4>3
      <4>5. conn[x].load >= limitLocked
        BY <3>2, <4>4 DEF leastLoadedLocked
      <4> QED BY <2>0, <4>1, <4>4, <4>5
    <3>7. \A c \in conns' : conn'[c].load >= limitLocked'
      BY <1>2, <2>0, <3>6
    <3> QED BY <2>1, <3>5, <3>7
  <2> QED BY <2>5, <2>6
<1> QED BY <1>4, <1>5, <1>6, <1>7, <1>8, <1>9

LEMMA GetKeeps == ASSUME PoolIInv, NEW q \in PoolQueries, get(q) PROVE PoolIInv'
<1>0. PoolTypes /\ PlaceInv /\ ChannelInv /\ query[q].at = "get" /\ PoolKeeps
  BY DEF PoolIInv, get
<1>1. CASE \E c \in leastLoadedLocked : conn[c].load < limitLocked /\ Reserves(q, c)
  BY <1>0, <1>1, ReservesKeeps
<1>2. CASE ~(\E c \in leastLoadedLocked : conn[c].load < limitLocked /\ Reserves(q, c))
  <2>1. /\ \A c \in leastLoadedLocked : conn[c].load >= limitLocked
        /\ conns' = Live /\ conn' = Pruned /\ UNCHANGED backoff
        /\ \/ FailsFast(q) /\ UNCHANGED dialing
           \/ /\ ~(Live = {} /\ backoff /\ dialing = {}) /\ MayDial
              /\ dialing' = dialing \cup {q} /\ query' = [query EXCEPT ![q].at = "dial"]
           \/ /\ ~(Live = {} /\ backoff /\ dialing = {}) /\ ~MayDial
              /\ query' = [query EXCEPT ![q].at = "wait"] /\ UNCHANGED dialing
    BY <1>2 DEF get
  <2>2. backoff' \in BOOLEAN
    BY <1>0, <2>1 DEF PoolTypes
  <2>3. PICK d \in QueryRecord : query[q] = d
    BY <1>0 DEF PoolTypes
  <2>4. query[q].inbox = <<>>
    BY <1>0 DEF ChannelInv
  <2>5. CASE FailsFast(q) /\ UNCHANGED dialing
    <3> DEFINE e == Over("error", NoQuery)
    <3>1. "error" \in QueryEnds /\ NoQuery \in Askers /\ 1 \in Tries
      BY PoolNumbers DEF QueryEnds, Askers, Tries
    <3>2. e \in QueryRecord /\ e.at = "done" /\ e.inbox = <<>>
      BY <3>1, OverIsEmpty
    <3>3. query' = [query EXCEPT ![q] = e]
      BY <2>5 DEF FailsFast
    <3> HIDE DEF e
    <3> QED BY <1>0, <2>1, <2>2, <2>5, <3>2, <3>3, LookKeeps, PoolParts DEF PoolIInv
  <2>6. CASE MayDial /\ dialing' = dialing \cup {q} /\ query' = [query EXCEPT ![q].at = "dial"]
    <3> DEFINE e == [d EXCEPT !.at = "dial"]
    <3>1. e \in QueryRecord /\ e.at = "dial" /\ e.inbox = <<>>
      BY <2>3, <2>4 DEF QueryRecord, PoolPlaces
    <3>2. query' = [query EXCEPT ![q] = e]
      BY <2>3, <2>6
    <3> HIDE DEF e
    <3> QED BY <1>0, <2>1, <2>2, <2>6, <3>1, <3>2, LookKeeps, PoolParts DEF PoolIInv
  <2>7. CASE ~MayDial /\ query' = [query EXCEPT ![q].at = "wait"] /\ UNCHANGED dialing
    <3> DEFINE e == [d EXCEPT !.at = "wait"]
    <3>1. e \in QueryRecord /\ e.at = "wait" /\ e.inbox = <<>>
      BY <2>3, <2>4 DEF QueryRecord, PoolPlaces
    <3>2. query' = [query EXCEPT ![q] = e]
      BY <2>3, <2>7
    <3> HIDE DEF e
    <3> QED BY <1>0, <2>1, <2>2, <2>7, <3>1, <3>2, LookKeeps, PoolParts DEF PoolIInv
  <2> QED BY <2>1, <2>5, <2>6, <2>7
<1> QED BY <1>1, <1>2

-----------------------------------------------------------------------------
(* Dials.                                                                  *)

\* Whoever waits looks again, and one query goes on as d.
LEMMA SignalledBut ==
  ASSUME PoolTypes, NEW q \in PoolQueries, NEW d \in QueryRecord, query' = [signalLocked(query) EXCEPT ![q] = d]
  PROVE  /\ query' \in [PoolQueries -> QueryRecord] /\ query'[q] = d
         /\ \A p \in PoolQueries : p # q =>
              /\ query'[p].at = IF query[p].at = "wait" THEN "get" ELSE query[p].at
              /\ query'[p].conn = query[p].conn /\ query'[p].inbox = query[p].inbox /\ query'[p].id = query[p].id
              /\ query'[p].attempt = query[p].attempt /\ query'[p].res = query[p].res /\ query'[p].from = query[p].from
<1>1. /\ signalLocked(query) \in [PoolQueries -> QueryRecord]
      /\ \A p \in PoolQueries : signalLocked(query)[p].at = IF query[p].at = "wait" THEN "get" ELSE query[p].at
      /\ \A p \in PoolQueries :
              /\ signalLocked(query)[p].conn = query[p].conn /\ signalLocked(query)[p].inbox = query[p].inbox
              /\ signalLocked(query)[p].id = query[p].id /\ signalLocked(query)[p].attempt = query[p].attempt
              /\ signalLocked(query)[p].res = query[p].res /\ signalLocked(query)[p].from = query[p].from
  BY Signalled
<1>2. \A p \in PoolQueries : query'[p] = IF p = q THEN d ELSE signalLocked(query)[p]
  BY <1>1
<1>3. query' \in [PoolQueries -> QueryRecord]
  BY <1>1
<1> QED BY <1>1, <1>2, <1>3

LEMMA DialSucceedsKeeps == ASSUME PoolIInv, NEW q \in PoolQueries, DialSucceeds(q) PROVE PoolIInv'
<1>0. PoolTypes /\ PlaceInv /\ ChannelInv /\ SlotInv /\ CutInv /\ WaitersInv
  BY PoolParts
<1>1. PICK c \in Conns :
       /\ conn[c].dead = "unborn"
       /\ conns' = conns \cup {c} /\ conn' = [conn EXCEPT ![c] = [NewConn EXCEPT !.load = 1]]
       /\ query' = [signalLocked(query) EXCEPT ![q].at = "send", ![q].conn = c, ![q].fresh = TRUE,
                      ![q].suspect = FALSE, ![q].atLimit = limitLocked <= 1]
  BY DEF DialSucceeds
<1>2. /\ query[q].at = "dial" /\ dialing' = dialing \ {q} /\ backoff' = FALSE
      /\ UNCHANGED <<limit, learned, grown, ceiling, wire>>
  BY DEF DialSucceeds, PoolKeeps
<1>3. MaxInflight \in Nat /\ MaxInflight >= 1 /\ FirstID \in IDs
  BY PoolNumbers
<1> DEFINE num == [NewConn EXCEPT !.load = 1]
<1>4. /\ num \in ConnRecord /\ num.load = 1 /\ num.pending = {} /\ num.counted = FALSE /\ num.cuts = 0 /\ num.dead = "no"
  BY <1>3 DEF NewConn, ConnRecord, Waiters, Fates, ConnAges
<1>5. conn' = [conn EXCEPT ![c] = num]
  BY <1>1
<1> HIDE DEF num
<1>6. conn' \in [Conns -> ConnRecord] /\ \A x \in Conns : conn'[x] = IF x = c THEN num ELSE conn[x]
  BY <1>0, <1>4, <1>5 DEF PoolTypes
<1>7. PICK e \in QueryRecord : query' = [signalLocked(query) EXCEPT ![q] = e] /\ e.at = "send" /\ e.conn = c
         /\ e.inbox = query[q].inbox
  <2>1. PICK d \in QueryRecord : signalLocked(query)[q] = d /\ d.inbox = query[q].inbox
    BY <1>0, Signalled
  <2> DEFINE b == limitLocked <= 1
             e == [d EXCEPT !.at = "send", !.conn = c, !.fresh = TRUE, !.suspect = FALSE, !.atLimit = b]
  <2>2. b \in BOOLEAN
    OBVIOUS
  <2>3. query' = [signalLocked(query) EXCEPT ![q] = e]
    BY <1>1, <2>1
  <2> HIDE DEF b
  <2>4. c \in ConnRefs
    BY PoolNumbers DEF Conns, ConnRefs
  <2>5. e \in QueryRecord /\ e.at = "send" /\ e.conn = c /\ e.inbox = d.inbox
    BY <2>2, <2>4 DEF QueryRecord, PoolPlaces
  <2> HIDE DEF e
  <2> QED BY <2>1, <2>3, <2>5
<1>8. /\ query' \in [PoolQueries -> QueryRecord] /\ query'[q] = e
      /\ \A p \in PoolQueries : p # q =>
           /\ query'[p].at = IF query[p].at = "wait" THEN "get" ELSE query[p].at
           /\ query'[p].conn = query[p].conn /\ query'[p].inbox = query[p].inbox /\ query'[p].id = query[p].id
  BY <1>0, <1>7, SignalledBut
<1>9. PoolTypes'
  BY <1>0, <1>1, <1>2, <1>6, <1>8 DEF PoolTypes
<1>10. PlaceInv'
  <2>1. dialing' = {p \in PoolQueries : query'[p].at = "dial"}
    BY <1>0, <1>2, <1>7, <1>8 DEF PlaceInv
  <2>2. IsFiniteSet(dialing')
    BY <1>0, <1>2, FS_RemoveElement DEF PlaceInv
  <2>3. \A x \in conns' : conn'[x].dead # "unborn"
    BY <1>0, <1>1, <1>4, <1>6 DEF PlaceInv, PoolTypes
  <2>4. \A p \in PoolQueries : query'[p].at \in Holds => query'[p].conn \in Conns /\ conn'[query'[p].conn].dead # "unborn"
    BY <1>0, <1>4, <1>6, <1>7, <1>8 DEF PlaceInv, Holds
  <2> QED BY <2>1, <2>2, <2>3, <2>4 DEF PlaceInv
<1>11. ChannelInv'
  <2>1. \A x \in Conns : \A p \in conn[x].pending : p[2] # q /\ p[2] \in PoolQueries
    BY <1>0, <1>2 DEF ChannelInv, PoolTypes, ConnRecord, Waiters
  <2>2. \A x \in Conns : \A p \in conn'[x].pending :
          query'[p[2]].at = "sent" /\ query'[p[2]].conn = x /\ query'[p[2]].id = p[1] /\ query'[p[2]].inbox = <<>>
    BY <1>0, <1>4, <1>6, <1>8, <2>1 DEF ChannelInv
  <2>3. \A p \in PoolQueries : query'[p].at \notin {"sent", "held"} => query'[p].inbox = <<>>
    BY <1>0, <1>2, <1>7, <1>8 DEF ChannelInv
  <2> QED BY <2>2, <2>3 DEF ChannelInv
<1>12. SlotInv'
  <2>1. conn[c].load = 0
    BY <1>0, <1>1, LoadedIsHeld DEF PlaceInv
  <2>2. \A x \in Conns : conn'[x].load = IF x = c THEN conn[x].load + 1 ELSE conn[x].load
    BY <1>4, <1>6, <2>1
  <2>3. \A p \in PoolQueries : p # q => \/ (query'[p].at \in Holds <=> query[p].at \in Holds) /\ query'[p].conn = query[p].conn
                                        \/ query'[p].at \notin Holds /\ query[p].at \notin Holds
    BY <1>8 DEF Holds
  <2>4. query[q].at \notin Holds /\ query'[q].at \in Holds /\ query'[q].conn = c
    BY <1>2, <1>7, <1>8 DEF Holds
  <2> QED BY <1>0, <2>2, <2>3, <2>4, SlotTaken
<1>13. CutInv'
  BY <1>0, <1>2, <1>3, <1>4, <1>6 DEF CutInv
<1>14. WaitersInv'
  BY <1>7, <1>8 DEF WaitersInv
<1> QED BY <1>9, <1>10, <1>11, <1>12, <1>13, <1>14 DEF PoolIInv

LEMMA DialFailsKeeps == ASSUME PoolIInv, NEW q \in PoolQueries, DialFails(q) PROVE PoolIInv'
<1>0. PoolTypes /\ PlaceInv /\ ChannelInv /\ SlotInv /\ CutInv /\ WaitersInv
  BY PoolParts
<1>1. /\ query[q].at = "dial" /\ dialing' = dialing \ {q} /\ backoff' = TRUE
      /\ query' = IF conns = {} THEN [signalLocked(query) EXCEPT ![q] = Over("error", NoQuery)]
                                ELSE [signalLocked(query) EXCEPT ![q].at = "wait", ![q].unheard = TRUE]
      /\ UNCHANGED <<limit, learned, grown, ceiling, wire, conns, conn>>
  BY DEF DialFails, PoolKeeps
<1>2. PICK e \in QueryRecord : query' = [signalLocked(query) EXCEPT ![q] = e] /\ e.inbox = <<>>
         /\ (e.at = "done" \/ (e.at = "wait" /\ e.unheard))
  <2>1. CASE conns = {}
    <3>1. "error" \in QueryEnds /\ NoQuery \in Askers /\ 1 \in Tries
      BY PoolNumbers DEF QueryEnds, Askers, Tries
    <3> QED BY <1>1, <2>1, <3>1, OverIsEmpty
  <2>2. CASE conns # {}
    <3>1. PICK d \in QueryRecord : signalLocked(query)[q] = d /\ d.inbox = query[q].inbox
      BY <1>0, Signalled
    <3> DEFINE e == [d EXCEPT !.at = "wait", !.unheard = TRUE]
    <3>2. query' = [signalLocked(query) EXCEPT ![q] = e]
      BY <1>1, <2>2, <3>1
    <3>3. e \in QueryRecord /\ e.at = "wait" /\ e.unheard /\ e.inbox = d.inbox
      BY DEF QueryRecord, PoolPlaces
    <3>4. d.inbox = <<>>
      BY <1>0, <1>1, <3>1 DEF ChannelInv
    <3> HIDE DEF e
    <3> QED BY <3>2, <3>3, <3>4
  <2> QED BY <2>1, <2>2
<1>3. /\ query' \in [PoolQueries -> QueryRecord] /\ query'[q] = e
      /\ \A p \in PoolQueries : p # q =>
           /\ query'[p].at = IF query[p].at = "wait" THEN "get" ELSE query[p].at
           /\ query'[p].conn = query[p].conn /\ query'[p].inbox = query[p].inbox /\ query'[p].id = query[p].id
  BY <1>0, <1>2, SignalledBut
<1>4. PoolTypes'
  BY <1>0, <1>1, <1>3 DEF PoolTypes
<1>5. PlaceInv'
  <2>1. dialing' = {p \in PoolQueries : query'[p].at = "dial"}
    BY <1>0, <1>1, <1>2, <1>3 DEF PlaceInv
  <2>2. IsFiniteSet(dialing')
    BY <1>0, <1>1, FS_RemoveElement DEF PlaceInv
  <2>3. \A p \in PoolQueries : query'[p].at \in Holds => query'[p].conn \in Conns /\ conn'[query'[p].conn].dead # "unborn"
    BY <1>0, <1>1, <1>2, <1>3 DEF PlaceInv, Holds
  <2> QED BY <1>0, <1>1, <2>1, <2>2, <2>3 DEF PlaceInv
<1>6. ChannelInv'
  <2>1. \A x \in Conns : \A p \in conn[x].pending : p[2] # q /\ p[2] \in PoolQueries
    BY <1>0, <1>1 DEF ChannelInv, PoolTypes, ConnRecord, Waiters
  <2>2. \A x \in Conns : \A p \in conn'[x].pending :
          query'[p[2]].at = "sent" /\ query'[p[2]].conn = x /\ query'[p[2]].id = p[1] /\ query'[p[2]].inbox = <<>>
    BY <1>0, <1>1, <1>3, <2>1 DEF ChannelInv
  <2>3. \A p \in PoolQueries : query'[p].at \notin {"sent", "held"} => query'[p].inbox = <<>>
    BY <1>0, <1>2, <1>3 DEF ChannelInv
  <2> QED BY <2>2, <2>3 DEF ChannelInv
<1>7. SlotInv'
  <2>1. \A p \in PoolQueries : \/ (query'[p].at \in Holds <=> query[p].at \in Holds) /\ query'[p].conn = query[p].conn
                               \/ query'[p].at \notin Holds /\ query[p].at \notin Holds
    BY <1>1, <1>2, <1>3 DEF Holds
  <2> QED BY <1>0, <1>1, <2>1, SlotsKept
<1>8. CutInv' /\ WaitersInv'
  BY <1>0, <1>1, <1>2, <1>3 DEF CutInv, WaitersInv
<1> QED BY <1>4, <1>5, <1>6, <1>7, <1>8 DEF PoolIInv

LEMMA PoolIsBusyKeeps == ASSUME PoolIInv, NEW q \in PoolQueries, PoolIsBusy(q) PROVE PoolIInv'
<1>0. PoolTypes /\ PlaceInv /\ ChannelInv /\ SlotInv /\ CutInv /\ WaitersInv
  BY PoolParts
<1> DEFINE e == Over("busy", NoQuery)
<1>1. /\ query[q].at = "wait" /\ query' = [query EXCEPT ![q] = e]
      /\ UNCHANGED <<limit, learned, grown, ceiling, wire, conns, conn, dialing, backoff>>
  BY DEF PoolIsBusy, PoolKeeps
<1>2. e \in QueryRecord /\ e.at = "done" /\ e.inbox = <<>>
  <2>1. "busy" \in QueryEnds /\ NoQuery \in Askers /\ 1 \in Tries
    BY PoolNumbers DEF QueryEnds, Askers, Tries
  <2> QED BY <2>1, OverIsEmpty
<1> HIDE DEF e
<1>3. query' \in [PoolQueries -> QueryRecord] /\ \A p \in PoolQueries : query'[p] = IF p = q THEN e ELSE query[p]
  BY <1>0, <1>1, <1>2 DEF PoolTypes
<1>4. PoolTypes'
  BY <1>0, <1>1, <1>3 DEF PoolTypes
<1>5. PlaceInv'
  <2>1. dialing' = {p \in PoolQueries : query'[p].at = "dial"}
    BY <1>0, <1>1, <1>2, <1>3 DEF PlaceInv
  <2>2. \A p \in PoolQueries : query'[p].at \in Holds => query'[p].conn \in Conns /\ conn'[query'[p].conn].dead # "unborn"
    BY <1>0, <1>1, <1>2, <1>3 DEF PlaceInv, Holds
  <2> QED BY <1>0, <1>1, <2>1, <2>2 DEF PlaceInv
<1>6. ChannelInv'
  <2>1. \A x \in Conns : \A p \in conn[x].pending : p[2] # q /\ p[2] \in PoolQueries
    BY <1>0, <1>1 DEF ChannelInv, PoolTypes, ConnRecord, Waiters
  <2> QED BY <1>0, <1>1, <1>2, <1>3, <2>1 DEF ChannelInv
<1>7. SlotInv'
  BY <1>0, <1>1, <1>2, <1>3, SlotsKept DEF Holds
<1>8. CutInv'
  BY <1>0, <1>1 DEF CutInv
<1>9. WaitersInv'
  <2>1. limitLocked' = limitLocked /\ maxConnsLocked' = maxConnsLocked
    BY <1>1, LimitsKept
  <2>2. \A c \in Conns : Alive(c)' <=> Alive(c)
    BY <1>1 DEF Alive
  <2>3. OnGone => OnGone'
    BY <1>1, <1>3 DEF OnGone, Alive, Holds
  <2> QED BY <1>0, <1>1, <1>2, <1>3, <2>1, <2>2, <2>3, WaitKept DEF PoolTypes
<1> QED BY <1>4, <1>5, <1>6, <1>7, <1>8, <1>9 DEF PoolIInv

-----------------------------------------------------------------------------
(* The steps of exchange and the reader: they move no slot.                *)

\* What is left to show of such a step is what it does to the channels.
LEMMA ExchangeKeeps ==
  ASSUME PoolIInv, PoolSame,
         conn' \in [Conns -> ConnRecord], query' \in [PoolQueries -> QueryRecord], wire' \subseteq Conns \X IDs \X PoolQueries,
         \A c \in Conns : /\ conn'[c].load = conn[c].load /\ conn'[c].counted = conn[c].counted /\ conn'[c].cuts = conn[c].cuts
                          /\ (conn'[c].dead = "no" => conn[c].dead = "no")
                          /\ (conn'[c].dead = "unborn" => conn[c].dead = "unborn"),
         \A q \in PoolQueries : /\ query'[q].conn = query[q].conn /\ query'[q].unheard = query[q].unheard
                                /\ (query'[q].at = query[q].at \/ (query'[q].at \in Holds /\ query[q].at \in Holds)),
         ChannelInv'
  PROVE  PoolIInv'
<1>0. PoolTypes /\ PlaceInv /\ ChannelInv /\ SlotInv /\ CutInv /\ WaitersInv
  BY PoolParts
<1>1. UNCHANGED <<conns, dialing, backoff, limit, learned, grown, ceiling>>
  BY DEF PoolSame
<1>2. PoolTypes'
  BY <1>0, <1>1 DEF PoolTypes
<1>3. \A q \in PoolQueries : query'[q].at \in Holds <=> query[q].at \in Holds
  OBVIOUS
<1>4. PlaceInv'
  <2>1. \A q \in PoolQueries : query'[q].at = "dial" <=> query[q].at = "dial"
    BY DEF Holds
  <2>2. dialing' = {q \in PoolQueries : query'[q].at = "dial"} /\ IsFiniteSet(dialing')
    BY <1>0, <1>1, <2>1 DEF PlaceInv
  <2>3. conns \subseteq Conns
    BY <1>0 DEF PoolTypes
  <2>4. \A c \in conns' : conn'[c].dead # "unborn"
    BY <1>0, <1>1, <2>3 DEF PlaceInv
  <2>5. \A q \in PoolQueries : query'[q].at \in Holds => query'[q].conn \in Conns /\ conn'[query'[q].conn].dead # "unborn"
    BY <1>0, <1>3 DEF PlaceInv
  <2> QED BY <2>2, <2>4, <2>5 DEF PlaceInv
<1>5. SlotInv'
  BY <1>0, <1>3, SlotsKept
<1>6. CutInv'
  BY <1>0, <1>1 DEF CutInv
<1>7. WaitersInv'
  <2>1. limitLocked' = limitLocked /\ maxConnsLocked' = maxConnsLocked
    BY <1>1, LimitsKept
  <2>2. conns \subseteq Conns
    BY <1>0 DEF PoolTypes
  <2>3. \A q \in PoolQueries : query'[q].at = "wait" /\ ~query'[q].unheard => query[q].at = "wait" /\ ~query[q].unheard
    BY DEF Holds
  <2>4. \A c \in Conns : Alive(c)' => Alive(c)
    BY DEF Alive
  <2>5. OnGone => OnGone'
    <3> SUFFICES ASSUME NEW p \in PoolQueries, query[p].at \in Holds, ~Alive(query[p].conn) PROVE OnGone'
      BY DEF OnGone
    <3>1. query[p].conn \in Conns
      BY <1>0 DEF PlaceInv
    <3> QED BY <1>3, <2>4, <3>1 DEF OnGone, Alive
  <2>6. ASSUME NEW c \in conns, Alive(c), ~Alive(c)', NEW q \in PoolQueries, query[q].at = "wait", ~query[q].unheard
        PROVE  OnGone'
    <3>1. conn[c].load >= limitLocked
      BY <1>0, <2>6 DEF WaitersInv
    <3>2. limitLocked \in 1 .. MaxInflight /\ MaxInflight \in Nat /\ conn[c].load \in Nat
      BY <1>0, <2>2, LimitFacts, PoolNumbers, LoadedIsHeld
    <3>3. conn[c].load # 0
      BY <3>1, <3>2
    <3>4. PICK p \in PoolQueries : query[p].at \in Holds /\ query[p].conn = c
      BY <1>0, <2>2, <3>3, LoadedIsHeld
    <3> QED BY <1>3, <2>6, <3>4 DEF OnGone, Alive
  <2> QED BY <1>0, <1>1, <2>1, <2>2, <2>3, <2>4, <2>5, <2>6, WaitKept
<1> QED BY <1>2, <1>4, <1>5, <1>6, <1>7, PoolParts DEF PoolIInv

LEMMA FailsIs ==
  ASSUME NEW cs \in [Conns -> ConnRecord], NEW c \in Conns, NEW err \in {"dropped", "closed"}
  PROVE  /\ Fails(cs, c, err) \in [Conns -> ConnRecord]
         /\ \A d \in Conns : /\ Fails(cs, c, err)[d].load = cs[d].load /\ Fails(cs, c, err)[d].counted = cs[d].counted
                             /\ Fails(cs, c, err)[d].cuts = cs[d].cuts
                             /\ (d # c \/ cs[c].dead # "no") =>
                                   Fails(cs, c, err)[d].dead = cs[d].dead /\ Fails(cs, c, err)[d].pending = cs[d].pending
         /\ cs[c].dead = "no" => Fails(cs, c, err)[c].dead = err /\ Fails(cs, c, err)[c].pending = {}
<1>1. CASE cs[c].dead # "no"
  BY <1>1 DEF Fails
<1>2. CASE cs[c].dead = "no"
  <2>1. PICK r \in ConnRecord : cs[c] = r
    OBVIOUS
  <2> DEFINE e == [r EXCEPT !.dead = err, !.pending = {}]
  <2>2. Fails(cs, c, err) = [cs EXCEPT ![c] = e]
    BY <1>2, <2>1 DEF Fails
  <2>3. e \in ConnRecord /\ e.dead = err /\ e.pending = {} /\ e.load = r.load /\ e.counted = r.counted /\ e.cuts = r.cuts
    BY DEF ConnRecord, Fates, Waiters
  <2> HIDE DEF e
  <2>4. /\ Fails(cs, c, err) \in [Conns -> ConnRecord]
        /\ \A d \in Conns : Fails(cs, c, err)[d] = IF d = c THEN e ELSE cs[d]
    BY <2>2, <2>3
  <2>5. ASSUME NEW d \in Conns
        PROVE  /\ Fails(cs, c, err)[d].load = cs[d].load /\ Fails(cs, c, err)[d].counted = cs[d].counted
               /\ Fails(cs, c, err)[d].cuts = cs[d].cuts
               /\ d # c => Fails(cs, c, err)[d].dead = cs[d].dead /\ Fails(cs, c, err)[d].pending = cs[d].pending
    BY <2>1, <2>3, <2>4
  <2> QED BY <1>2, <2>3, <2>4, <2>5
<1> QED BY <1>1, <1>2

\* Who waits on a connection that fails gets nothing, and nobody else does.
LEMMA ToldIs ==
  ASSUME PoolTypes, ChannelInv, NEW c \in Conns
  PROVE  /\ Told(query, c) \in [PoolQueries -> QueryRecord]
         /\ \A q \in PoolQueries :
              /\ Told(query, c)[q].at = query[q].at /\ Told(query, c)[q].conn = query[q].conn
              /\ Told(query, c)[q].unheard = query[q].unheard /\ Told(query, c)[q].id = query[q].id
              /\ Told(query, c)[q].attempt = query[q].attempt
              /\ Told(query, c)[q].res = query[q].res /\ Told(query, c)[q].from = query[q].from
              /\ Told(query, c)[q].inbox = IF \E p \in conn[c].pending : p[2] = q THEN <<NoQuery>> ELSE query[q].inbox
<1>1. \A q \in PoolQueries : query[q] \in QueryRecord
  BY DEF PoolTypes
<1>2. ASSUME NEW q \in PoolQueries
      PROVE  /\ Told(query, c)[q] \in QueryRecord
             /\ Told(query, c)[q].at = query[q].at /\ Told(query, c)[q].conn = query[q].conn
             /\ Told(query, c)[q].unheard = query[q].unheard /\ Told(query, c)[q].id = query[q].id
             /\ Told(query, c)[q].attempt = query[q].attempt
             /\ Told(query, c)[q].res = query[q].res /\ Told(query, c)[q].from = query[q].from
             /\ Told(query, c)[q].inbox = IF \E p \in conn[c].pending : p[2] = q THEN <<NoQuery>> ELSE query[q].inbox
  <2>1. PICK d \in QueryRecord : query[q] = d
    BY <1>1
  <2>2. CASE \E p \in conn[c].pending : p[2] = q
    <3>1. d.inbox = <<>>
      BY <2>1, <2>2 DEF ChannelInv
    <3>2. Append(d.inbox, NoQuery) = <<NoQuery>>
      BY <3>1
    <3>3. Told(query, c)[q] = [d EXCEPT !.inbox = Append(@, NoQuery)]
      BY <2>1, <2>2 DEF Told
    <3>4. Told(query, c)[q] = [d EXCEPT !.inbox = <<NoQuery>>]
      BY <3>2, <3>3
    <3>5. <<NoQuery>> \in Inboxes
      BY DEF Inboxes
    <3> QED BY <2>1, <2>2, <3>4, <3>5 DEF QueryRecord
  <2>3. CASE ~(\E p \in conn[c].pending : p[2] = q)
    BY <2>1, <2>3 DEF Told
  <2> QED BY <2>2, <2>3
<1>3. Told(query, c) \in [PoolQueries -> QueryRecord]
  BY <1>2 DEF Told
<1> QED BY <1>2, <1>3

\* The lists are as they were, or shorter.
LEMMA OwnIDsKept ==
  ASSUME OwnIDs, \A c \in Conns : conn'[c].pending \subseteq conn[c].pending
  PROVE  OwnIDs'
BY DEF OwnIDs

LEMMA SendsKeeps == ASSUME PoolIInv, OwnIDs, NEW q \in PoolQueries, Sends(q) PROVE PoolIInv' /\ OwnIDs'
<1>0. PoolTypes /\ PlaceInv /\ ChannelInv /\ SlotInv /\ CutInv /\ WaitersInv
  BY PoolParts
<1> DEFINE s == query[q].conn
<1>1. query[q].at = "send" /\ PoolSame
  BY DEF Sends
<1>2. s \in Conns /\ query[q].inbox = <<>>
  BY <1>0, <1>1 DEF PlaceInv, ChannelInv, Holds
<1>3. PICK c \in Conns : c = s
  BY <1>2
<1>4. PICK d \in QueryRecord : query[q] = d
  BY <1>0 DEF PoolTypes
<1>5. PICK r \in ConnRecord : conn[c] = r
  BY <1>0 DEF PoolTypes
<1>6. d.at = "send" /\ d.inbox = <<>> /\ d.conn = c
  BY <1>1, <1>2, <1>3, <1>4
<1>7. \A x \in Conns : \A p \in conn[x].pending : p[2] # q /\ p[2] \in PoolQueries /\ p = <<p[1], p[2]>>
  BY <1>0, <1>1 DEF ChannelInv, PoolTypes, ConnRecord, Waiters
<1>8. CASE ~Alive(c) /\ query' = [query EXCEPT ![q].at = "held", ![q].res = conn[c].dead] /\ UNCHANGED <<conn, wire>>
  <2> DEFINE e == [d EXCEPT !.at = "held", !.res = r.dead]
  <2>1. r.dead \in QueryEnds
    BY DEF ConnRecord, Fates, QueryEnds
  <2>2. e \in QueryRecord /\ e.at = "held" /\ e.conn = d.conn /\ e.inbox = d.inbox /\ e.unheard = d.unheard
    BY <2>1 DEF QueryRecord, PoolPlaces
  <2>3. query' = [query EXCEPT ![q] = e]
    BY <1>4, <1>5, <1>8
  <2> HIDE DEF e
  <2>4. query' \in [PoolQueries -> QueryRecord] /\ \A p \in PoolQueries : query'[p] = IF p = q THEN e ELSE query[p]
    BY <1>0, <2>2, <2>3 DEF PoolTypes
  <2>5. conn' \in [Conns -> ConnRecord] /\ wire' \subseteq Conns \X IDs \X PoolQueries
    BY <1>0, <1>8 DEF PoolTypes
  <2>6. ChannelInv'
    <3>1. \A x \in Conns : \A p \in conn'[x].pending :
            query'[p[2]].at = "sent" /\ query'[p[2]].conn = x /\ query'[p[2]].id = p[1] /\ query'[p[2]].inbox = <<>>
      BY <1>0, <1>7, <1>8, <2>4 DEF ChannelInv
    <3>2. \A p \in PoolQueries : query'[p].at \notin {"sent", "held"} => query'[p].inbox = <<>>
      BY <1>0, <2>2, <2>4 DEF ChannelInv
    <3> QED BY <3>1, <3>2 DEF ChannelInv
  <2>7. \A p \in PoolQueries : /\ query'[p].conn = query[p].conn /\ query'[p].unheard = query[p].unheard
                               /\ (query'[p].at = query[p].at \/ (query'[p].at \in Holds /\ query[p].at \in Holds))
    BY <1>1, <1>4, <2>2, <2>4 DEF Holds
  <2>8. PoolIInv'
    BY <1>1, <1>8, <2>4, <2>5, <2>6, <2>7, ExchangeKeeps
  <2>9. OwnIDs'
    BY <1>8, OwnIDsKept
  <2> QED BY <2>8, <2>9
<1>9. CASE \E id \in IDs :
        /\ id \notin Used(c) /\ Alive(c) /\ wire' = wire \cup {<<c, id, q>>}
        /\ conn' = [conn EXCEPT ![c].pending = @ \cup {<<id, q>>}, ![c].nextID = (id + 1) % IDCount]
        /\ query' = [query EXCEPT ![q].at = "sent", ![q].id = id]
  <2>1. PICK id \in IDs :
        /\ id \notin Used(c) /\ Alive(c) /\ wire' = wire \cup {<<c, id, q>>}
        /\ conn' = [conn EXCEPT ![c].pending = @ \cup {<<id, q>>}, ![c].nextID = (id + 1) % IDCount]
        /\ query' = [query EXCEPT ![q].at = "sent", ![q].id = id]
    BY <1>9
  <2> DEFINE e == [d EXCEPT !.at = "sent", !.id = id]
             nxt == (id + 1) % IDCount
             w == r.pending \cup {<<id, q>>}
             k == [r EXCEPT !.pending = w, !.nextID = nxt]
  <2>2. e \in QueryRecord /\ e.at = "sent" /\ e.conn = d.conn /\ e.inbox = d.inbox /\ e.unheard = d.unheard /\ e.id = id
    BY DEF QueryRecord, PoolPlaces
  <2>3. query' = [query EXCEPT ![q] = e]
    BY <1>4, <2>1
  <2>4. nxt \in IDs
    <3>1. \A num \in Nat : num % IDCount \in IDs
      BY PoolNumbers DEF IDs
    <3>2. id + 1 \in Nat
      BY DEF IDs
    <3> QED BY <3>1, <3>2
  <2>5. w \in Waiters /\ w = r.pending \cup {<<id, q>>}
    BY DEF ConnRecord, Waiters
  <2>6. conn' = [conn EXCEPT ![c] = k]
    BY <1>5, <2>1
  <2> HIDE DEF w, nxt
  <2>7. k \in ConnRecord /\ k.pending = w /\ k.load = r.load /\ k.counted = r.counted /\ k.cuts = r.cuts /\ k.dead = r.dead
    BY <2>4, <2>5 DEF ConnRecord
  <2> HIDE DEF e, k
  <2>8. query' \in [PoolQueries -> QueryRecord] /\ \A p \in PoolQueries : query'[p] = IF p = q THEN e ELSE query[p]
    BY <1>0, <2>2, <2>3 DEF PoolTypes
  <2>9. conn' \in [Conns -> ConnRecord] /\ \A x \in Conns : conn'[x] = IF x = c THEN k ELSE conn[x]
    BY <1>0, <2>6, <2>7 DEF PoolTypes
  <2>10. wire' \subseteq Conns \X IDs \X PoolQueries
    BY <1>0, <2>1 DEF PoolTypes
  <2>11. ChannelInv'
    <3>1. ASSUME NEW x \in Conns, NEW p \in conn'[x].pending
          PROVE  query'[p[2]].at = "sent" /\ query'[p[2]].conn = x /\ query'[p[2]].id = p[1] /\ query'[p[2]].inbox = <<>>
      <4>1. CASE p \in conn[x].pending
        BY <1>0, <1>7, <2>8, <4>1 DEF ChannelInv
      <4>2. CASE p \notin conn[x].pending
        <5>1. x = c /\ p = <<id, q>>
          BY <1>5, <2>5, <2>7, <2>9, <4>2
        <5> QED BY <1>6, <2>2, <2>8, <5>1
      <4> QED BY <4>1, <4>2
    <3>2. \A p \in PoolQueries : query'[p].at \notin {"sent", "held"} => query'[p].inbox = <<>>
      BY <1>0, <2>2, <2>8 DEF ChannelInv
    <3> QED BY <3>1, <3>2 DEF ChannelInv
  <2>12. \A p \in PoolQueries : /\ query'[p].conn = query[p].conn /\ query'[p].unheard = query[p].unheard
                                /\ (query'[p].at = query[p].at \/ (query'[p].at \in Holds /\ query[p].at \in Holds))
    BY <1>1, <1>4, <2>2, <2>8 DEF Holds
  <2>13. \A x \in Conns : /\ conn'[x].load = conn[x].load /\ conn'[x].counted = conn[x].counted /\ conn'[x].cuts = conn[x].cuts
                          /\ conn'[x].dead = conn[x].dead
    BY <1>5, <2>7, <2>9
  <2>14. PoolIInv'
    BY <1>1, <2>8, <2>9, <2>10, <2>11, <2>12, <2>13, ExchangeKeeps
  <2>15. OwnIDs'
    <3>3. ASSUME NEW x \in Conns, NEW a \in conn'[x].pending, NEW b \in conn'[x].pending, a[1] = b[1]
          PROVE  a = b
      <4>1. CASE x # c
        BY <2>9, <3>3, <4>1 DEF OwnIDs
      <4>2. CASE x = c
        <5>1. conn'[x].pending = conn[c].pending \cup {<<id, q>>}
          BY <1>5, <2>5, <2>7, <2>9, <4>2
        <5>2. \A p \in conn[c].pending : p[1] # id
          BY <2>1 DEF Used
        <5> QED BY <3>3, <5>1, <5>2 DEF OwnIDs
      <4> QED BY <4>1, <4>2
    <3> QED BY <3>3 DEF OwnIDs
  <2> QED BY <2>14, <2>15
<1>10. CASE \E err \in {"dropped", "closed"} :
             /\ Alive(c) /\ conn' = Fails(conn, c, err) /\ wire' = {m \in wire : m[1] # c}
             /\ query' = [Told(query, c) EXCEPT ![q].at = "held", ![q].res = err]
  <2>1. PICK err \in {"dropped", "closed"} :
             /\ Alive(c) /\ conn' = Fails(conn, c, err) /\ wire' = {m \in wire : m[1] # c}
             /\ query' = [Told(query, c) EXCEPT ![q].at = "held", ![q].res = err]
    BY <1>10
  <2>2. conn \in [Conns -> ConnRecord] /\ conn[c].dead = "no"
    BY <1>0, <2>1 DEF PoolTypes, Alive
  <2>3. /\ conn' \in [Conns -> ConnRecord]
        /\ \A x \in Conns : /\ conn'[x].load = conn[x].load /\ conn'[x].counted = conn[x].counted
                            /\ conn'[x].cuts = conn[x].cuts
                            /\ x # c => conn'[x].dead = conn[x].dead /\ conn'[x].pending = conn[x].pending
        /\ conn'[c].dead = err /\ conn'[c].pending = {}
    BY <2>1, <2>2, FailsIs
  <2>4. /\ Told(query, c) \in [PoolQueries -> QueryRecord]
        /\ \A p \in PoolQueries :
              /\ Told(query, c)[p].at = query[p].at /\ Told(query, c)[p].conn = query[p].conn
              /\ Told(query, c)[p].unheard = query[p].unheard /\ Told(query, c)[p].id = query[p].id
              /\ Told(query, c)[p].inbox = IF \E x \in conn[c].pending : x[2] = p THEN <<NoQuery>> ELSE query[p].inbox
    BY <1>0, ToldIs
  <2>5. PICK t \in QueryRecord : Told(query, c)[q] = t
    BY <2>4
  <2>6. t.at = "send" /\ t.conn = c /\ t.unheard = d.unheard /\ t.inbox = <<>>
    BY <1>4, <1>6, <1>7, <2>4, <2>5
  <2> DEFINE e == [t EXCEPT !.at = "held", !.res = err]
  <2>7. e \in QueryRecord /\ e.at = "held" /\ e.conn = t.conn /\ e.inbox = t.inbox /\ e.unheard = t.unheard
    BY DEF QueryRecord, PoolPlaces, QueryEnds
  <2>8. query' = [Told(query, c) EXCEPT ![q] = e]
    BY <2>1, <2>5
  <2> HIDE DEF e
  <2>9. query' \in [PoolQueries -> QueryRecord] /\ \A p \in PoolQueries : query'[p] = IF p = q THEN e ELSE Told(query, c)[p]
    BY <2>4, <2>7, <2>8
  <2>10. wire' \subseteq Conns \X IDs \X PoolQueries
    BY <1>0, <2>1 DEF PoolTypes
  <2>11. ChannelInv'
    <3>1. ASSUME NEW x \in Conns, NEW p \in conn'[x].pending
          PROVE  query'[p[2]].at = "sent" /\ query'[p[2]].conn = x /\ query'[p[2]].id = p[1] /\ query'[p[2]].inbox = <<>>
      <4>1. x # c /\ p \in conn[x].pending
        BY <2>3
      <4>2. query[p[2]].conn = x /\ query[p[2]].at = "sent" /\ query[p[2]].id = p[1] /\ query[p[2]].inbox = <<>>
        BY <1>0, <4>1 DEF ChannelInv
      <4>3. ~ \E y \in conn[c].pending : y[2] = p[2]
        BY <1>0, <4>1, <4>2 DEF ChannelInv
      <4> QED BY <1>7, <2>4, <2>9, <4>1, <4>2, <4>3
    <3>2. ASSUME NEW p \in PoolQueries, query'[p].at \notin {"sent", "held"} PROVE query'[p].inbox = <<>>
      <4>1. p # q /\ query[p].at \notin {"sent", "held"}
        BY <2>4, <2>7, <2>9, <3>2
      <4>2. ~ \E y \in conn[c].pending : y[2] = p
        BY <1>0, <4>1 DEF ChannelInv
      <4> QED BY <1>0, <2>4, <2>9, <4>1, <4>2 DEF ChannelInv
    <3> QED BY <3>1, <3>2 DEF ChannelInv
  <2>12. \A p \in PoolQueries : /\ query'[p].conn = query[p].conn /\ query'[p].unheard = query[p].unheard
                                /\ (query'[p].at = query[p].at \/ (query'[p].at \in Holds /\ query[p].at \in Holds))
    BY <1>1, <1>4, <1>6, <2>4, <2>6, <2>7, <2>9 DEF Holds
  <2>13. PoolIInv'
    <3>1. err # "no" /\ err # "unborn"
      OBVIOUS
    <3>2. \A x \in Conns : (conn'[x].dead = "no" => conn[x].dead = "no") /\ (conn'[x].dead = "unborn" => conn[x].dead = "unborn")
      BY <2>3, <3>1
    <3> QED BY <1>1, <2>3, <2>9, <2>10, <2>11, <2>12, <3>2, ExchangeKeeps
  <2>14. OwnIDs'
    <3>1. \A x \in Conns : conn'[x].pending \subseteq conn[x].pending
      BY <2>3
    <3> QED BY <3>1, OwnIDsKept
  <2> QED BY <2>13, <2>14
<1> QED
  <2>1. FreeID(c) \in IDs /\ FreeID(c) \notin Used(c)
    BY <1>0, IdIsFree
  <2> QED BY <1>3, <1>8, <1>9, <1>10, <2>1 DEF Sends

LEMMA FailKeeps == ASSUME PoolIInv, OwnIDs, NEW c \in Conns, fail(c) PROVE PoolIInv' /\ OwnIDs'
<1>0. PoolTypes /\ PlaceInv /\ ChannelInv /\ SlotInv /\ CutInv /\ WaitersInv
  BY PoolParts
<1>1. /\ Alive(c) /\ conn' = Fails(conn, c, "dropped") /\ query' = Told(query, c)
      /\ wire' = {m \in wire : m[1] # c} /\ PoolSame
  BY DEF fail
<1>2. conn \in [Conns -> ConnRecord] /\ conn[c].dead = "no"
  BY <1>0, <1>1 DEF PoolTypes, Alive
<1>3. /\ conn' \in [Conns -> ConnRecord]
      /\ \A x \in Conns : /\ conn'[x].load = conn[x].load /\ conn'[x].counted = conn[x].counted
                          /\ conn'[x].cuts = conn[x].cuts
                          /\ x # c => conn'[x].dead = conn[x].dead /\ conn'[x].pending = conn[x].pending
      /\ conn'[c].dead = "dropped" /\ conn'[c].pending = {}
  BY <1>1, <1>2, FailsIs
<1>4. /\ query' \in [PoolQueries -> QueryRecord]
      /\ \A p \in PoolQueries :
            /\ query'[p].at = query[p].at /\ query'[p].conn = query[p].conn
            /\ query'[p].unheard = query[p].unheard /\ query'[p].id = query[p].id
            /\ query'[p].inbox = IF \E x \in conn[c].pending : x[2] = p THEN <<NoQuery>> ELSE query[p].inbox
  BY <1>0, <1>1, ToldIs
<1>5. wire' \subseteq Conns \X IDs \X PoolQueries
  BY <1>0, <1>1 DEF PoolTypes
<1>6. \A x \in Conns : \A p \in conn[x].pending : p[2] \in PoolQueries
  BY <1>0 DEF PoolTypes, ConnRecord, Waiters
<1>7. ChannelInv'
  <2>1. ASSUME NEW x \in Conns, NEW p \in conn'[x].pending
        PROVE  query'[p[2]].at = "sent" /\ query'[p[2]].conn = x /\ query'[p[2]].id = p[1] /\ query'[p[2]].inbox = <<>>
    <3>1. x # c /\ p \in conn[x].pending
      BY <1>3
    <3>2. query[p[2]].conn = x /\ query[p[2]].at = "sent" /\ query[p[2]].id = p[1] /\ query[p[2]].inbox = <<>>
      BY <1>0, <3>1 DEF ChannelInv
    <3>3. ~ \E y \in conn[c].pending : y[2] = p[2]
      BY <1>0, <3>1, <3>2 DEF ChannelInv
    <3> QED BY <1>4, <1>6, <3>1, <3>2, <3>3
  <2>2. ASSUME NEW p \in PoolQueries, query'[p].at \notin {"sent", "held"} PROVE query'[p].inbox = <<>>
    <3>1. query[p].at \notin {"sent", "held"}
      BY <1>4, <2>2
    <3>2. ~ \E y \in conn[c].pending : y[2] = p
      BY <1>0, <3>1 DEF ChannelInv
    <3> QED BY <1>0, <1>4, <3>1, <3>2 DEF ChannelInv
  <2> QED BY <2>1, <2>2 DEF ChannelInv
<1>8. PoolIInv'
  <2>1. \A x \in Conns : (conn'[x].dead = "no" => conn[x].dead = "no") /\ (conn'[x].dead = "unborn" => conn[x].dead = "unborn")
    BY <1>3
  <2> QED BY <1>1, <1>3, <1>4, <1>5, <1>7, <2>1, ExchangeKeeps
<1>9. OwnIDs'
  <2>1. \A x \in Conns : conn'[x].pending \subseteq conn[x].pending
    BY <1>3
  <2> QED BY <2>1, OwnIDsKept
<1> QED BY <1>8, <1>9

LEMMA ReadLoopKeeps == ASSUME PoolIInv, OwnIDs, NEW m \in wire, readLoop(m) PROVE PoolIInv' /\ OwnIDs'
<1>0. PoolTypes /\ PlaceInv /\ ChannelInv /\ SlotInv /\ CutInv /\ WaitersInv
  BY PoolParts
<1>1. PICK c \in Conns, i \in IDs, a \in PoolQueries : m[1] = c /\ m[2] = i /\ m[3] = a
  BY <1>0 DEF PoolTypes
<1>2. /\ wire' = wire \ {m} /\ PoolSame
      /\ conn' = [conn EXCEPT ![c].pending = {p \in @ : p[1] # i}, ![c].age = "warm"]
      /\ query' = [q \in PoolQueries |-> IF <<i, q>> \in conn[c].pending
                                         THEN [query[q] EXCEPT !.inbox = Append(@, a)] ELSE query[q]]
  BY <1>1 DEF readLoop
<1>3. PICK r \in ConnRecord : conn[c] = r
  BY <1>0 DEF PoolTypes
<1> DEFINE w == {p \in r.pending : p[1] # i}
           k == [r EXCEPT !.pending = w, !.age = "warm"]
<1>4. w \in Waiters /\ w = {p \in r.pending : p[1] # i}
  BY DEF ConnRecord, Waiters
<1>5. conn' = [conn EXCEPT ![c] = k]
  BY <1>2, <1>3
<1> HIDE DEF w
<1>6. k \in ConnRecord /\ k.pending = w /\ k.load = r.load /\ k.counted = r.counted /\ k.cuts = r.cuts /\ k.dead = r.dead
  BY <1>4 DEF ConnRecord, ConnAges
<1> HIDE DEF k
<1>7. /\ conn' \in [Conns -> ConnRecord] /\ conn'[c].pending = {p \in conn[c].pending : p[1] # i}
      /\ \A x \in Conns : x # c => conn'[x] = conn[x]
      /\ \A x \in Conns : /\ conn'[x].load = conn[x].load /\ conn'[x].counted = conn[x].counted
                          /\ conn'[x].cuts = conn[x].cuts /\ conn'[x].dead = conn[x].dead
                          /\ conn'[x].pending \subseteq conn[x].pending
  <2>1. conn' \in [Conns -> ConnRecord] /\ \A x \in Conns : conn'[x] = IF x = c THEN k ELSE conn[x]
    BY <1>0, <1>5, <1>6 DEF PoolTypes
  <2> QED BY <1>3, <1>4, <1>6, <2>1
<1>8. /\ query' \in [PoolQueries -> QueryRecord]
      /\ \A q \in PoolQueries : /\ query'[q].at = query[q].at /\ query'[q].conn = query[q].conn
                                /\ query'[q].unheard = query[q].unheard /\ query'[q].id = query[q].id
                                /\ query'[q].inbox = IF <<i, q>> \in conn[c].pending THEN <<a>> ELSE query[q].inbox
  <2>1. ASSUME NEW q \in PoolQueries
        PROVE  /\ query'[q] \in QueryRecord
               /\ query'[q].at = query[q].at /\ query'[q].conn = query[q].conn
               /\ query'[q].unheard = query[q].unheard /\ query'[q].id = query[q].id
               /\ query'[q].inbox = IF <<i, q>> \in conn[c].pending THEN <<a>> ELSE query[q].inbox
    <3>1. PICK d \in QueryRecord : query[q] = d
      BY <1>0 DEF PoolTypes
    <3>2. CASE <<i, q>> \in conn[c].pending
      <4>1. d.inbox = <<>>
        BY <1>0, <3>1, <3>2 DEF ChannelInv
      <4>2. Append(d.inbox, a) = <<a>>
        BY <4>1
      <4>3. query'[q] = [d EXCEPT !.inbox = Append(@, a)]
        BY <1>2, <3>1, <3>2
      <4>4. query'[q] = [d EXCEPT !.inbox = <<a>>]
        BY <4>2, <4>3
      <4>5. <<a>> \in Inboxes
        BY DEF Inboxes
      <4> QED BY <3>1, <3>2, <4>4, <4>5 DEF QueryRecord
    <3>3. CASE <<i, q>> \notin conn[c].pending
      BY <1>2, <3>1, <3>3
    <3> QED BY <3>2, <3>3
  <2>2. query' \in [PoolQueries -> QueryRecord]
    BY <1>2, <2>1
  <2> QED BY <2>1, <2>2
<1>9. wire' \subseteq Conns \X IDs \X PoolQueries
  BY <1>0, <1>2 DEF PoolTypes
<1>10. \A x \in Conns : \A p \in conn[x].pending : p[2] \in PoolQueries
  BY <1>0 DEF PoolTypes, ConnRecord, Waiters
<1>11. ChannelInv'
  <2>1. ASSUME NEW x \in Conns, NEW p \in conn'[x].pending
        PROVE  query'[p[2]].at = "sent" /\ query'[p[2]].conn = x /\ query'[p[2]].id = p[1] /\ query'[p[2]].inbox = <<>>
    <3>1. p \in conn[x].pending /\ p[2] \in PoolQueries
      BY <1>7, <1>10
    <3>2. query[p[2]].conn = x /\ query[p[2]].at = "sent" /\ query[p[2]].id = p[1] /\ query[p[2]].inbox = <<>>
      BY <1>0, <3>1 DEF ChannelInv
    <3>3. <<i, p[2]>> \notin conn[c].pending
      <4> SUFFICES ASSUME <<i, p[2]>> \in conn[c].pending PROVE FALSE
        OBVIOUS
      <4>1. query[p[2]].conn = c /\ query[p[2]].id = i
        BY <1>0 DEF ChannelInv
      <4> QED BY <1>7, <3>2, <4>1
    <3> QED BY <1>8, <3>1, <3>2, <3>3
  <2>2. ASSUME NEW p \in PoolQueries, query'[p].at \notin {"sent", "held"} PROVE query'[p].inbox = <<>>
    <3>1. query[p].at \notin {"sent", "held"}
      BY <1>8, <2>2
    <3>2. <<i, p>> \notin conn[c].pending
      BY <1>0, <3>1 DEF ChannelInv
    <3> QED BY <1>0, <1>8, <3>1, <3>2 DEF ChannelInv
  <2> QED BY <2>1, <2>2 DEF ChannelInv
<1>12. PoolIInv'
  BY <1>2, <1>7, <1>8, <1>9, <1>11, ExchangeKeeps
<1>13. OwnIDs'
  BY <1>7, OwnIDsKept
<1> QED BY <1>12, <1>13

LEMMA ReceivesKeeps == ASSUME PoolIInv, OwnIDs, NEW q \in PoolQueries, Receives(q) PROVE PoolIInv' /\ OwnIDs'
<1>0. PoolTypes /\ PlaceInv /\ ChannelInv /\ SlotInv /\ CutInv /\ WaitersInv
  BY PoolParts
<1>1. PICK d \in QueryRecord : query[q] = d
  BY <1>0 DEF PoolTypes
<1>2. d.at = "sent" /\ d.inbox # <<>> /\ d.conn \in Conns /\ PoolSame /\ UNCHANGED <<conn, wire>>
  BY <1>0, <1>1 DEF Receives, PlaceInv, Holds
<1> DEFINE from == Head(d.inbox)
           res == IF from = NoQuery THEN conn[d.conn].dead ELSE "ok"
           e == [d EXCEPT !.at = "held", !.from = from, !.res = res]
<1>3. from \in Askers
  <2>1. d.inbox \in Inboxes
    BY DEF QueryRecord
  <2>2. PICK x \in Askers : d.inbox = <<x>>
    BY <1>2, <2>1 DEF Inboxes, Askers
  <2> QED BY <2>2
<1>4. res \in QueryEnds
  <2>1. conn[d.conn].dead \in Fates
    BY <1>0, <1>2 DEF PoolTypes, ConnRecord
  <2> QED BY <2>1 DEF Fates, QueryEnds
<1>5. query' = [query EXCEPT ![q] = e]
  BY <1>1 DEF Receives
<1> HIDE DEF from, res
<1>6. e \in QueryRecord /\ e.at = "held" /\ e.conn = d.conn /\ e.unheard = d.unheard
  BY <1>3, <1>4 DEF QueryRecord, PoolPlaces
<1> HIDE DEF e
<1>7. query' \in [PoolQueries -> QueryRecord] /\ \A p \in PoolQueries : query'[p] = IF p = q THEN e ELSE query[p]
  BY <1>0, <1>5, <1>6 DEF PoolTypes
<1>8. \A x \in Conns : \A p \in conn[x].pending : p[2] # q /\ p[2] \in PoolQueries
  BY <1>0, <1>1, <1>2 DEF ChannelInv, PoolTypes, ConnRecord, Waiters
<1>9. ChannelInv'
  <2>1. \A x \in Conns : \A p \in conn'[x].pending :
          query'[p[2]].at = "sent" /\ query'[p[2]].conn = x /\ query'[p[2]].id = p[1] /\ query'[p[2]].inbox = <<>>
    BY <1>0, <1>2, <1>7, <1>8 DEF ChannelInv
  <2>2. \A p \in PoolQueries : query'[p].at \notin {"sent", "held"} => query'[p].inbox = <<>>
    BY <1>0, <1>6, <1>7 DEF ChannelInv
  <2> QED BY <2>1, <2>2 DEF ChannelInv
<1>10. PoolIInv'
  <2>1. \A p \in PoolQueries : /\ query'[p].conn = query[p].conn /\ query'[p].unheard = query[p].unheard
                               /\ (query'[p].at = query[p].at \/ (query'[p].at \in Holds /\ query[p].at \in Holds))
    BY <1>1, <1>2, <1>6, <1>7 DEF Holds
  <2>2. conn' \in [Conns -> ConnRecord] /\ wire' \subseteq Conns \X IDs \X PoolQueries
    BY <1>0, <1>2 DEF PoolTypes
  <2> QED BY <1>2, <1>7, <1>9, <2>1, <2>2, ExchangeKeeps
<1>11. OwnIDs'
  BY <1>2, OwnIDsKept
<1> QED BY <1>10, <1>11

LEMMA TimesOutKeeps == ASSUME PoolIInv, OwnIDs, NEW q \in PoolQueries, TimesOut(q) PROVE PoolIInv' /\ OwnIDs'
<1>0. PoolTypes /\ PlaceInv /\ ChannelInv /\ SlotInv /\ CutInv /\ WaitersInv
  BY PoolParts
<1>1. PICK d \in QueryRecord : query[q] = d
  BY <1>0 DEF PoolTypes
<1>2. d.at = "sent" /\ d.conn \in Conns /\ PoolSame
  BY <1>0, <1>1 DEF TimesOut, PlaceInv, Holds
<1>3. PICK c \in Conns : c = d.conn
  BY <1>2
<1>4. PICK r \in ConnRecord : conn[c] = r
  BY <1>0 DEF PoolTypes
<1> DEFINE w   == {p \in r.pending : p[1] # d.id}
           k   == [r EXCEPT !.pending = w]
           cut == [conn EXCEPT ![c] = k]
<1>5. w \in Waiters /\ w = {p \in r.pending : p[1] # d.id}
  BY DEF ConnRecord, Waiters
<1>6. /\ conn' = (IF d.suspect THEN Fails(cut, c, "closed") ELSE cut)
      /\ query' = [(IF d.suspect /\ Alive(c) THEN Told(query, c) ELSE query)
                       EXCEPT ![q].at = "held", ![q].res = "timeout", ![q].inbox = <<>>]
      /\ wire' \subseteq wire
  BY <1>1, <1>3, <1>4 DEF TimesOut
<1> HIDE DEF w
<1>7. k \in ConnRecord /\ k.pending = w /\ k.load = r.load /\ k.counted = r.counted /\ k.cuts = r.cuts /\ k.dead = r.dead
  BY <1>5 DEF ConnRecord
<1> HIDE DEF k
<1>8. cut \in [Conns -> ConnRecord] /\ cut[c] = k /\ \A x \in Conns : x # c => cut[x] = conn[x]
  BY <1>0, <1>7 DEF PoolTypes
<1> HIDE DEF cut
<1>9. PICK tells \in BOOLEAN : tells = (d.suspect /\ Alive(c))
  OBVIOUS
<1>10. /\ conn' \in [Conns -> ConnRecord]
       /\ \A x \in Conns : /\ conn'[x].load = conn[x].load /\ conn'[x].counted = conn[x].counted
                           /\ conn'[x].cuts = conn[x].cuts
                           /\ (x # c \/ ~tells) => conn'[x].dead = conn[x].dead
                           /\ x # c => conn'[x].pending = conn[x].pending
       /\ conn'[c].pending = (IF tells THEN {} ELSE {p \in conn[c].pending : p[1] # d.id})
       /\ tells => conn'[c].dead = "closed"
  <2>1. cut[c].dead = "no" <=> Alive(c)
    BY <1>4, <1>7, <1>8 DEF Alive
  <2>2. \A x \in Conns : /\ cut[x].load = conn[x].load /\ cut[x].counted = conn[x].counted
                         /\ cut[x].cuts = conn[x].cuts /\ cut[x].dead = conn[x].dead
                         /\ x # c => cut[x].pending = conn[x].pending
    BY <1>4, <1>7, <1>8
  <2>3. cut[c].pending = {p \in conn[c].pending : p[1] # d.id}
    BY <1>4, <1>5, <1>7, <1>8
  <2>4. CASE ~d.suspect
    BY <1>6, <1>8, <1>9, <2>2, <2>3, <2>4
  <2>5. CASE d.suspect
    <3>1. /\ conn' \in [Conns -> ConnRecord]
          /\ \A x \in Conns : /\ conn'[x].load = cut[x].load /\ conn'[x].counted = cut[x].counted
                              /\ conn'[x].cuts = cut[x].cuts
                              /\ (x # c \/ cut[c].dead # "no") => conn'[x].dead = cut[x].dead /\ conn'[x].pending = cut[x].pending
          /\ cut[c].dead = "no" => conn'[c].dead = "closed" /\ conn'[c].pending = {}
      BY <1>6, <1>8, <2>5, FailsIs
    <3>2. CASE tells
      <4>1. cut[c].dead = "no"
        BY <1>9, <2>1, <3>2
      <4> QED BY <2>2, <3>1, <3>2, <4>1
    <3>3. CASE ~tells
      <4>1. cut[c].dead # "no"
        BY <1>9, <2>1, <2>5, <3>3
      <4>2. \A x \in Conns : conn'[x].dead = conn[x].dead
        BY <2>2, <3>1, <4>1
      <4>3. conn'[c].pending = {p \in conn[c].pending : p[1] # d.id}
        BY <2>3, <3>1, <4>1
      <4>4. \A x \in Conns : x # c => conn'[x].pending = conn[x].pending
        BY <2>2, <3>1
      <4> QED BY <2>2, <3>1, <3>3, <4>2, <4>3, <4>4
    <3> QED BY <3>2, <3>3
  <2> QED BY <2>4, <2>5
<1>11. PICK old \in [PoolQueries -> QueryRecord] :
         /\ old = (IF tells THEN Told(query, c) ELSE query)
         /\ \A p \in PoolQueries :
              /\ old[p].at = query[p].at /\ old[p].conn = query[p].conn /\ old[p].unheard = query[p].unheard
              /\ old[p].id = query[p].id
              /\ old[p].inbox = IF tells /\ (\E x \in conn[c].pending : x[2] = p) THEN <<NoQuery>> ELSE query[p].inbox
  <2>1. CASE tells
    <3>1. /\ Told(query, c) \in [PoolQueries -> QueryRecord]
          /\ \A p \in PoolQueries :
            /\ Told(query, c)[p].at = query[p].at /\ Told(query, c)[p].conn = query[p].conn
            /\ Told(query, c)[p].unheard = query[p].unheard /\ Told(query, c)[p].id = query[p].id
            /\ Told(query, c)[p].inbox = IF \E x \in conn[c].pending : x[2] = p THEN <<NoQuery>> ELSE query[p].inbox
      BY <1>0, ToldIs
    <3> QED BY <2>1, <3>1
  <2>2. CASE ~tells
    BY <1>0, <2>2 DEF PoolTypes
  <2> QED BY <2>1, <2>2
<1>12. PICK t \in QueryRecord : old[q] = t
  OBVIOUS
<1> DEFINE e == [t EXCEPT !.at = "held", !.res = "timeout", !.inbox = <<>>]
<1>13. query' = [old EXCEPT ![q] = e]
  BY <1>6, <1>9, <1>11, <1>12
<1>14. e \in QueryRecord /\ e.at = "held" /\ e.conn = t.conn /\ e.inbox = <<>> /\ e.unheard = t.unheard
  BY DEF QueryRecord, PoolPlaces, QueryEnds, Inboxes
<1> HIDE DEF e
<1>15. query' \in [PoolQueries -> QueryRecord] /\ \A p \in PoolQueries : query'[p] = IF p = q THEN e ELSE old[p]
  BY <1>13, <1>14
<1>16. wire' \subseteq Conns \X IDs \X PoolQueries
  BY <1>0, <1>6 DEF PoolTypes
<1>17. \A x \in Conns : conn'[x].pending \subseteq conn[x].pending /\ \A p \in conn[x].pending : p[2] \in PoolQueries
  BY <1>0, <1>10 DEF PoolTypes, ConnRecord, Waiters
<1>18. ChannelInv'
  <2>1. ASSUME NEW x \in Conns, NEW p \in conn'[x].pending
        PROVE  query'[p[2]].at = "sent" /\ query'[p[2]].conn = x /\ query'[p[2]].id = p[1] /\ query'[p[2]].inbox = <<>>
    <3>1. p \in conn[x].pending /\ p[2] \in PoolQueries /\ (x = c => ~tells /\ p[1] # d.id)
      BY <1>10, <1>17
    <3>2. query[p[2]].conn = x /\ query[p[2]].at = "sent" /\ query[p[2]].id = p[1] /\ query[p[2]].inbox = <<>>
      BY <1>0, <3>1 DEF ChannelInv
    <3>3. p[2] # q
      BY <1>1, <1>3, <3>1, <3>2
    <3>4. ~(tells /\ (\E y \in conn[c].pending : y[2] = p[2]))
      <4> SUFFICES ASSUME tells, NEW y \in conn[c].pending, y[2] = p[2] PROVE FALSE
        OBVIOUS
      <4>1. query[y[2]].conn = c
        BY <1>0 DEF ChannelInv
      <4> QED BY <3>1, <3>2, <4>1
    <3> QED BY <1>11, <1>15, <3>1, <3>2, <3>3, <3>4
  <2>2. ASSUME NEW p \in PoolQueries, query'[p].at \notin {"sent", "held"} PROVE query'[p].inbox = <<>>
    <3>1. p # q /\ query[p].at \notin {"sent", "held"}
      BY <1>11, <1>14, <1>15, <2>2
    <3>2. ~ \E y \in conn[c].pending : y[2] = p
      BY <1>0, <3>1 DEF ChannelInv
    <3> QED BY <1>0, <1>11, <1>15, <3>1, <3>2 DEF ChannelInv
  <2> QED BY <2>1, <2>2 DEF ChannelInv
<1>19. PoolIInv'
  <2>1. \A p \in PoolQueries : /\ query'[p].conn = query[p].conn /\ query'[p].unheard = query[p].unheard
                               /\ (query'[p].at = query[p].at \/ (query'[p].at \in Holds /\ query[p].at \in Holds))
    BY <1>1, <1>2, <1>11, <1>12, <1>14, <1>15 DEF Holds
  <2>2. \A x \in Conns : (conn'[x].dead = "no" => conn[x].dead = "no") /\ (conn'[x].dead = "unborn" => conn[x].dead = "unborn")
    BY <1>10
  <2> QED BY <1>2, <1>10, <1>15, <1>16, <1>18, <2>1, <2>2, ExchangeKeeps
<1>20. OwnIDs'
  BY <1>17, OwnIDsKept
<1> QED BY <1>19, <1>20

-----------------------------------------------------------------------------
(* release, and time.                                                      *)

\* What is learned: the limit stays in bounds and below what failed.
LEMMA Learns ==
  ASSUME PoolTypes, CutInv, NEW q \in PoolQueries, NEW c \in Conns,
         IF query[q].res = "dropped" /\ CutsOnce(c, conn[c].load)
         THEN learned' = TRUE /\ grown' = 0 /\ limit' = Max({1, conn[c].load \div 2}) /\ ceiling' = Max({1, conn[c].load - 1})
         ELSE Grows(q) /\ UNCHANGED <<learned, ceiling>>
  PROVE  /\ limit' \in 1 .. MaxInflight /\ ceiling' \in 0 .. MaxInflight /\ grown' \in Nat /\ learned' \in BOOLEAN
         /\ ceiling' > 0 => limit' <= ceiling'
<1>0. /\ limit \in 1 .. MaxInflight /\ ceiling \in 0 .. MaxInflight /\ grown \in Nat /\ learned \in BOOLEAN /\ MaxInflight \in Nat
      /\ ceiling > 0 => limit <= ceiling
  BY PoolNumbers DEF PoolTypes, CutInv
<1>1. CASE query[q].res = "dropped" /\ CutsOnce(c, conn[c].load)
  <2>1. PICK num \in Nat : num = conn[c].load /\ num >= 2 /\ num <= MaxInflight
    BY <1>1 DEF PoolTypes, ConnRecord, CutInv, CutsOnce
  <2>2. learned' = TRUE /\ grown' = 0 /\ limit' = Max({1, num \div 2}) /\ ceiling' = Max({1, num - 1})
    BY <1>1, <2>1
  <2>3. PICK h \in Nat : h = num \div 2 /\ h >= 1 /\ h <= num - 1
    BY <2>1
  <2>4. limit' = h
    BY <2>2, <2>3, MaxOfTwo
  <2>5. ceiling' = num - 1
    BY <2>1, <2>2, MaxOfTwo
  <2>6. limit' \in 1 .. MaxInflight /\ ceiling' \in 0 .. MaxInflight /\ limit' <= ceiling'
    BY <1>0, <2>1, <2>3, <2>4, <2>5
  <2> QED BY <2>2, <2>6
<1>2. CASE ~(query[q].res = "dropped" /\ CutsOnce(c, conn[c].load))
  <2>1. Grows(q) /\ UNCHANGED <<learned, ceiling>>
    BY <1>2
  <2>2. CASE UNCHANGED <<limit, grown>>
    BY <1>0, <2>1, <2>2
  <2>3. CASE grown' = grown + 1 /\ UNCHANGED limit
    BY <1>0, <2>1, <2>3
  <2>4. CASE grown' = 0 /\ limit' = Min({IF learned THEN limit + 1 ELSE limit * 2, maxLimitLocked})
    <3> DEFINE x == IF learned THEN limit + 1 ELSE limit * 2
    <3>1. x \in Nat /\ x >= 1
      BY <1>0
    <3>2. /\ maxLimitLocked \in 1 .. MaxInflight
          /\ maxLimitLocked = (IF ceiling > 0 THEN ceiling ELSE MaxInflight)
      BY LimitFacts
    <3>3. limit' = Min({x, maxLimitLocked})
      BY <2>4
    <3> HIDE DEF x
    <3>4. limit' = IF x <= maxLimitLocked THEN x ELSE maxLimitLocked
      BY <3>1, <3>2, <3>3, MinOfTwo
    <3>5. limit' \in 1 .. MaxInflight /\ limit' <= maxLimitLocked
      BY <1>0, <3>1, <3>2, <3>4
    <3> QED BY <1>0, <2>1, <2>4, <3>2, <3>5
  <2> QED BY <2>1, <2>2, <2>3, <2>4 DEF Grows
<1> QED BY <1>1, <1>2

LEMMA ReleaseKeeps == ASSUME PoolIInv, NEW q \in PoolQueries, release(q) PROVE PoolIInv' /\ (OwnIDs => OwnIDs')
<1>0. PoolTypes /\ PlaceInv /\ ChannelInv /\ SlotInv /\ CutInv /\ WaitersInv
  BY PoolParts
<1>1. PICK d \in QueryRecord : query[q] = d
  BY <1>0 DEF PoolTypes
<1>2. d.at = "held" /\ d.conn \in Conns
  BY <1>0, <1>1 DEF release, PlaceInv, Holds
<1>3. PICK c \in Conns : c = d.conn
  BY <1>2
<1>4. PICK r \in ConnRecord : conn[c] = r
  BY <1>0 DEF PoolTypes
<1>5. r.load \in Nat /\ r.load >= 1
  <2>1. conn[c].load \in Nat /\ conn[c].load # 0
    BY <1>0, <1>1, <1>2, <1>3, LoadedIsHeld DEF Holds
  <2> QED BY <1>4, <2>1
<1>6. /\ query' = [signalLocked(query) EXCEPT ![q] = Released(q)]
      /\ UNCHANGED <<conns, dialing, backoff, wire>>
  BY DEF release
<1>7. PICK cuts \in BOOLEAN : cuts = (query[q].res = "dropped" /\ CutsOnce(c, r.load))
  OBVIOUS
<1>8. /\ conn' = (IF cuts THEN [conn EXCEPT ![c].load = @ - 1, ![c].counted = TRUE, ![c].cuts = @ + 1]
                          ELSE [conn EXCEPT ![c].load = @ - 1])
      /\ IF cuts THEN learned' = TRUE /\ grown' = 0 /\ limit' = Max({1, conn[c].load \div 2}) /\ ceiling' = Max({1, conn[c].load - 1})
                 ELSE Grows(q) /\ UNCHANGED <<learned, ceiling>>
  BY <1>1, <1>3, <1>4, <1>7 DEF release
<1>9. /\ limit' \in 1 .. MaxInflight /\ ceiling' \in 0 .. MaxInflight /\ grown' \in Nat /\ learned' \in BOOLEAN
      /\ ceiling' > 0 => limit' <= ceiling'
  BY <1>0, <1>4, <1>7, <1>8, Learns
<1>10. PICK k \in ConnRecord : /\ conn' = [conn EXCEPT ![c] = k] /\ k.load = r.load - 1 /\ k.pending = r.pending
                               /\ k.dead = r.dead /\ k.cuts <= 1 /\ (~k.counted => k.cuts = 0)
  <2>1. r.cuts \in Nat /\ r.cuts <= 1 /\ (~r.counted => r.cuts = 0)
    BY <1>0, <1>4 DEF CutInv, ConnRecord
  <2>2. CASE ~cuts
    <3> DEFINE k == [r EXCEPT !.load = @ - 1]
    <3>1. conn' = [conn EXCEPT ![c] = k]
      BY <1>4, <1>8, <2>2
    <3>2. k \in ConnRecord /\ k.load = r.load - 1 /\ k.pending = r.pending /\ k.dead = r.dead /\ k.cuts = r.cuts /\ k.counted = r.counted
      BY <1>5 DEF ConnRecord
    <3> HIDE DEF k
    <3> QED BY <2>1, <3>1, <3>2
  <2>3. CASE cuts
    <3> DEFINE num == r.cuts + 1
               k == [r EXCEPT !.load = @ - 1, !.counted = TRUE, !.cuts = num]
    <3>1. conn' = [conn EXCEPT ![c] = k]
      BY <1>4, <1>8, <2>3
    <3>2. num \in Nat /\ num <= 1
      <4>1. CutsOnce(c, r.load)
        BY <1>7, <2>3
      <4>2. ~r.counted
        BY <1>4, <4>1 DEF CutsOnce
      <4> QED BY <2>1, <4>2
    <3>4. r.load - 1 \in Nat /\ TRUE \in BOOLEAN
      BY <1>5
    <3> HIDE DEF num
    <3>3. k \in ConnRecord /\ k.load = r.load - 1 /\ k.pending = r.pending /\ k.dead = r.dead /\ k.cuts = num /\ k.counted = TRUE
      BY <3>2, <3>4 DEF ConnRecord
    <3> HIDE DEF k
    <3> QED BY <3>1, <3>2, <3>3
  <2> QED BY <2>2, <2>3
<1>11. conn' \in [Conns -> ConnRecord] /\ \A x \in Conns : conn'[x] = IF x = c THEN k ELSE conn[x]
  BY <1>0, <1>10 DEF PoolTypes
<1>12. PICK e \in QueryRecord : query' = [signalLocked(query) EXCEPT ![q] = e] /\ e.at \in {"get", "done"} /\ e.inbox = <<>>
  <2>1. CASE Again(q)
    <3>1. d.attempt + 1 \in Tries
      BY <1>1, <2>1, PoolNumbers DEF QueryRecord, Tries, Again
    <3>2. "error" \in QueryEnds /\ NoQuery \in Askers
      BY DEF QueryEnds, Askers
    <3>3. PICK a \in Tries : a = d.attempt + 1
      BY <3>1
    <3>4. [Fresh EXCEPT !.attempt = a] \in QueryRecord /\ [Fresh EXCEPT !.attempt = a].at = "get" /\ [Fresh EXCEPT !.attempt = a].inbox = <<>>
      BY <3>2, OverIsEmpty
    <3>5. Released(q) = [Fresh EXCEPT !.attempt = a]
      BY <1>1, <2>1, <3>3 DEF Released
    <3> QED BY <1>6, <3>4, <3>5
  <2>2. CASE ~Again(q)
    <3>1. d.res \in QueryEnds /\ d.from \in Askers /\ 1 \in Tries
      BY PoolNumbers DEF QueryRecord, Tries
    <3>2. Over(d.res, d.from) \in QueryRecord /\ Over(d.res, d.from).at = "done" /\ Over(d.res, d.from).inbox = <<>>
      BY <3>1, OverIsEmpty
    <3>3. Released(q) = Over(d.res, d.from)
      BY <1>1, <2>2 DEF Released
    <3> QED BY <1>6, <3>2, <3>3
  <2> QED BY <2>1, <2>2
<1>13. /\ query' \in [PoolQueries -> QueryRecord] /\ query'[q] = e
       /\ \A p \in PoolQueries : p # q =>
            /\ query'[p].at = IF query[p].at = "wait" THEN "get" ELSE query[p].at
            /\ query'[p].conn = query[p].conn /\ query'[p].inbox = query[p].inbox /\ query'[p].id = query[p].id
  BY <1>0, <1>12, SignalledBut
<1>14. PoolTypes'
  BY <1>0, <1>6, <1>9, <1>11, <1>13 DEF PoolTypes
<1>15. \A x \in Conns : conn'[x].pending = conn[x].pending /\ conn'[x].dead = conn[x].dead
                        /\ conn'[x].load = IF x = c THEN conn[x].load - 1 ELSE conn[x].load
  BY <1>4, <1>10, <1>11
<1>16. PlaceInv'
  <2>1. dialing' = {p \in PoolQueries : query'[p].at = "dial"} /\ IsFiniteSet(dialing')
    BY <1>0, <1>1, <1>2, <1>6, <1>12, <1>13 DEF PlaceInv
  <2>2. \A x \in conns' : conn'[x].dead # "unborn"
    BY <1>0, <1>6, <1>15 DEF PlaceInv, PoolTypes
  <2>3. \A p \in PoolQueries : query'[p].at \in Holds => query'[p].conn \in Conns /\ conn'[query'[p].conn].dead # "unborn"
    BY <1>0, <1>12, <1>13, <1>15 DEF PlaceInv, Holds
  <2> QED BY <2>1, <2>2, <2>3 DEF PlaceInv
<1>17. ChannelInv'
  <2>1. \A x \in Conns : \A p \in conn[x].pending : p[2] # q /\ p[2] \in PoolQueries
    BY <1>0, <1>1, <1>2 DEF ChannelInv, PoolTypes, ConnRecord, Waiters
  <2>2. \A x \in Conns : \A p \in conn'[x].pending :
          query'[p[2]].at = "sent" /\ query'[p[2]].conn = x /\ query'[p[2]].id = p[1] /\ query'[p[2]].inbox = <<>>
    BY <1>0, <1>13, <1>15, <2>1 DEF ChannelInv
  <2>3. \A p \in PoolQueries : query'[p].at \notin {"sent", "held"} => query'[p].inbox = <<>>
    BY <1>0, <1>12, <1>13 DEF ChannelInv
  <2> QED BY <2>2, <2>3 DEF ChannelInv
<1>18. SlotInv'
  <2>1. \A p \in PoolQueries : p # q => \/ (query'[p].at \in Holds <=> query[p].at \in Holds) /\ query'[p].conn = query[p].conn
                                        \/ query'[p].at \notin Holds /\ query[p].at \notin Holds
    BY <1>13 DEF Holds
  <2>2. query[q].at \in Holds /\ query[q].conn = c /\ query'[q].at \notin Holds
    BY <1>1, <1>2, <1>3, <1>12, <1>13 DEF Holds
  <2> QED BY <1>0, <1>15, <2>1, <2>2, SlotGiven
<1>19. CutInv'
  <2>1. \A x \in Conns : conn'[x].cuts <= 1 /\ (~conn'[x].counted => conn'[x].cuts = 0)
    BY <1>0, <1>10, <1>11 DEF CutInv
  <2>2. \A x \in Conns : conn'[x].load <= MaxInflight
    <3>1. \A x \in Conns : conn[x].load <= MaxInflight /\ conn[x].load \in Nat
      BY <1>0 DEF CutInv, PoolTypes, ConnRecord
    <3> QED BY <1>15, <3>1, PoolNumbers
  <2> QED BY <1>9, <2>1, <2>2 DEF CutInv
<1>20. WaitersInv'
  BY <1>12, <1>13 DEF WaitersInv
<1>21. OwnIDs => OwnIDs'
  BY <1>15, OwnIDsKept
<1> QED BY <1>14, <1>16, <1>17, <1>18, <1>19, <1>20, <1>21, PoolParts DEF PoolIInv

\* The pool forgets the limit that failed, or the dial that did: nothing that
\* is in use depends on either.
LEMMA ForgetsKeeps ==
  ASSUME PoolIInv, (CeilingEnds \/ BackoffEnds)
  PROVE  PoolIInv' /\ UNCHANGED conn
<1>0. PoolTypes /\ PlaceInv /\ ChannelInv /\ SlotInv /\ CutInv /\ WaitersInv
  BY PoolParts
<1>1. /\ UNCHANGED <<conns, dialing, limit, learned, grown, conn, wire, query>>
      /\ \/ ceiling > 0 /\ ceiling' = 0 /\ backoff' = backoff
         \/ ceiling' = ceiling /\ backoff' = FALSE
  BY DEF CeilingEnds, BackoffEnds
<1>2. PoolTypes'
  <2>1. ceiling \in 0 .. MaxInflight /\ backoff \in BOOLEAN /\ 0 \in 0 .. MaxInflight
    BY <1>0, PoolNumbers DEF PoolTypes
  <2>2. ceiling' \in 0 .. MaxInflight /\ backoff' \in BOOLEAN
    BY <1>1, <2>1
  <2> QED BY <1>0, <1>1, <2>2 DEF PoolTypes
<1>3. PlaceInv' /\ ChannelInv'
  BY <1>0, <1>1 DEF PlaceInv, ChannelInv
<1>4. SlotInv'
  BY <1>0, <1>1, SlotsKept
<1>5. CutInv'
  BY <1>0, <1>1 DEF CutInv
<1>6. limitLocked' = limitLocked
  <2>1. limitLocked = limit
    BY <1>0, LimitFacts DEF CutInv
  <2>2. limitLocked' = limit'
    <3>1. CASE ceiling' = ceiling
      <4>1. limitLocked' = limitLocked
        BY <1>1, <3>1, LimitsKept
      <4> QED BY <1>1, <2>1, <4>1
    <3>2. CASE ceiling' = 0
      <4>1. maxLimitLocked' = MaxInflight
        BY <3>2 DEF maxLimitLocked
      <4>2. limitLocked' = Min({limit', MaxInflight})
        BY <4>1 DEF limitLocked
      <4>3. limit' \in 1 .. MaxInflight /\ MaxInflight \in Nat
        BY <1>2, PoolNumbers DEF PoolTypes
      <4> QED BY <4>2, <4>3, MinOfTwo
    <3> QED BY <1>1, <3>1, <3>2
  <2> QED BY <1>1, <2>1, <2>2
<1>7. maxConnsLocked' = maxConnsLocked
  BY <1>6 DEF maxConnsLocked
<1>8. WaitersInv'
  <2>1. OnGone => OnGone'
    BY <1>1 DEF OnGone, Alive
  <2>2. \A c \in conns : conn'[c].load = conn[c].load /\ (Alive(c)' <=> Alive(c))
    BY <1>1 DEF Alive
  <2> QED BY <1>0, <1>1, <1>6, <1>7, <2>1, <2>2, WaitKept
<1> QED BY <1>1, <1>2, <1>3, <1>4, <1>5, <1>8, PoolParts DEF PoolIInv

LEMMA GoesQuietKeeps == ASSUME PoolIInv, NEW c \in Conns, GoesQuiet(c) PROVE PoolIInv' /\ (OwnIDs => OwnIDs')
<1>0. PoolTypes /\ ChannelInv
  BY PoolParts
<1>1. PICK r \in ConnRecord : conn[c] = r
  BY <1>0 DEF PoolTypes
<1> DEFINE age == IF r.age = "warm" THEN "suspect" ELSE "idle"
           k   == [r EXCEPT !.age = age]
<1>2. age \in ConnAges
  BY DEF ConnAges
<1>3. conn' = [conn EXCEPT ![c] = k] /\ PoolSame /\ UNCHANGED <<wire, query>>
  BY <1>1 DEF GoesQuiet
<1> HIDE DEF age
<1>4. k \in ConnRecord /\ k.pending = r.pending /\ k.load = r.load /\ k.counted = r.counted /\ k.cuts = r.cuts /\ k.dead = r.dead
  BY <1>2 DEF ConnRecord
<1> HIDE DEF k
<1>5. conn' \in [Conns -> ConnRecord] /\ \A x \in Conns : conn'[x] = IF x = c THEN k ELSE conn[x]
  BY <1>0, <1>3, <1>4 DEF PoolTypes
<1>6. \A x \in Conns : /\ conn'[x].load = conn[x].load /\ conn'[x].counted = conn[x].counted /\ conn'[x].cuts = conn[x].cuts
                       /\ conn'[x].dead = conn[x].dead /\ conn'[x].pending = conn[x].pending
  BY <1>1, <1>4, <1>5
<1>7. ChannelInv'
  BY <1>0, <1>3, <1>6 DEF ChannelInv
<1>8. PoolIInv'
  BY <1>0, <1>3, <1>5, <1>6, <1>7, ExchangeKeeps DEF PoolTypes
<1> QED BY <1>6, <1>8, OwnIDsKept

-----------------------------------------------------------------------------
(* IDs that do not come round: while no more messages can be sent than     *)
(* there are IDs, an ID stands for one query, so that a reply finds it.    *)

\* The tries that may have sent their message.
Sent == {t \in PoolQueries \X Tries : \/ query[t[1]].at = "done" \/ t[2] < query[t[1]].attempt
                                      \/ t[2] = query[t[1]].attempt /\ query[t[1]].at \in {"sent", "held"}}

InUse(c) == Used(c) \cup {m[2] : m \in {w \in wire : w[1] = c}}

\* The IDs in use on a connection are among the first num from the first one on.
RoundInv == \A c \in Conns : \E num \in Nat :
  /\ num <= Cardinality(Sent) /\ conn[c].nextID = (FirstID + num) % IDCount
  /\ \A i \in InUse(c) : \E k \in Nat : k < num /\ i = (FirstID + k) % IDCount

MatchInv ==
  /\ \A m \in wire : conn[m[1]].dead # "unborn" /\ \A p \in conn[m[1]].pending : p[1] = m[2] => p[2] = m[3]
  /\ \A q \in PoolQueries : /\ query[q].inbox \in {<<>>, <<q>>, <<NoQuery>>}
                            /\ query[q].res = "ok" => query[q].from = q

FewTries == IsFiniteSet(PoolQueries) /\ Cardinality(PoolQueries) * Attempts <= IDCount

\* How a query goes on: its tries are not taken back, and what it hears is its
\* own.
Moves(q) ==
  \/ /\ query'[q].at = "done" /\ query'[q].inbox = <<>>
     /\ query'[q].res = "ok" => query[q].res = "ok" /\ query'[q].from = query[q].from
  \/ /\ query[q].at # "done" /\ query'[q].at # "done" /\ query'[q].attempt = query[q].attempt
     /\ query[q].at \in {"sent", "held"} => query'[q].at \in {"sent", "held"}
     /\ query'[q].inbox \in {query[q].inbox, <<>>, <<q>>, <<NoQuery>>}
     /\ query'[q].res = "ok" => \/ query[q].res = "ok" /\ query'[q].from = query[q].from
                                \/ query'[q].from = q
  \/ /\ query[q].at # "done" /\ query'[q].attempt = query[q].attempt + 1
     /\ query'[q].inbox = <<>> /\ query'[q].res # "ok"

LEMMA SentIsFew ==
  ASSUME FewTries, PoolTypes
  PROVE  /\ IsFiniteSet(Sent) /\ Cardinality(Sent) \in Nat
         /\ \A t \in (PoolQueries \X Tries) \ Sent : Cardinality(Sent) < IDCount
<1> DEFINE all == PoolQueries \X Tries
<1>1. Attempts \in Nat /\ IDCount \in Nat
  BY PoolNumbers
<1>2. IsFiniteSet(Tries) /\ Cardinality(Tries) = Attempts
  <2>1. \A k \in Nat : IsFiniteSet(1 .. k) /\ Cardinality(1 .. k) = k
    BY FS_Interval
  <2> QED BY <1>1, <2>1 DEF Tries
<1>3. IsFiniteSet(PoolQueries)
  BY DEF FewTries
<1>4. IsFiniteSet(all) /\ Cardinality(all) = Cardinality(PoolQueries) * Cardinality(Tries)
  BY <1>2, <1>3, FS_Product
<1>5. Cardinality(all) \in Nat /\ Cardinality(all) <= IDCount
  <2>1. Cardinality(all) = Cardinality(PoolQueries) * Attempts
    BY <1>2, <1>4
  <2>2. Cardinality(all) <= IDCount
    BY <2>1 DEF FewTries
  <2> HIDE DEF all
  <2> QED BY <1>4, <2>2, FS_CardinalityType
<1> HIDE DEF all
<1>6. Sent \subseteq all
  BY DEF Sent, all
<1>7. IsFiniteSet(Sent) /\ Cardinality(Sent) <= Cardinality(all) /\ Cardinality(Sent) \in Nat
  BY <1>4, <1>6, FS_Subset, FS_CardinalityType
<1>8. ASSUME NEW t \in all \ Sent PROVE Cardinality(Sent) < IDCount
  <2>1. Sent # all
    OBVIOUS
  <2>2. Cardinality(Sent) < Cardinality(all)
    <3>1. Cardinality(Sent) # Cardinality(all)
      BY <1>4, <1>6, <2>1, FS_Subset
    <3> QED BY <1>5, <1>7, <3>1
  <2> QED BY <1>1, <1>5, <1>7, <2>2
<1> QED BY <1>7, <1>8 DEF all

LEMMA SentGrows ==
  ASSUME FewTries, PoolTypes, PoolTypes', \A q \in PoolQueries : Moves(q)
  PROVE  Sent \subseteq Sent' /\ Cardinality(Sent) <= Cardinality(Sent')
<1>1. ASSUME NEW t \in Sent PROVE t \in Sent'
  <2>1. PICK q \in PoolQueries, k \in Tries : t = <<q, k>>
    BY DEF Sent
  <2>2. query[q].at = "done" \/ k < query[q].attempt \/ (k = query[q].attempt /\ query[q].at \in {"sent", "held"})
    BY <2>1 DEF Sent
  <2>3. query[q].attempt \in Nat /\ query'[q].attempt \in Nat /\ k \in Nat
    BY PoolNumbers DEF PoolTypes, QueryRecord, Tries
  <2>4. query'[q].at = "done" \/ k < query'[q].attempt \/ (k = query'[q].attempt /\ query'[q].at \in {"sent", "held"})
    <3>1. Moves(q)
      OBVIOUS
    <3>2. CASE query'[q].at = "done"
      BY <3>2
    <3>3. CASE query[q].at # "done" /\ query'[q].attempt = query[q].attempt
               /\ (query[q].at \in {"sent", "held"} => query'[q].at \in {"sent", "held"})
      BY <2>2, <3>3
    <3>4. CASE query[q].at # "done" /\ query'[q].attempt = query[q].attempt + 1
      BY <2>2, <2>3, <3>4
    <3> QED BY <3>1, <3>2, <3>3, <3>4 DEF Moves
  <2> QED BY <2>1, <2>4 DEF Sent
<1>2. Sent \subseteq Sent'
  BY <1>1
<1>3. IsFiniteSet(Sent)'
  <2>1. FewTries'
    BY DEF FewTries
  <2> QED BY <2>1, SentIsFew, PTL
<1> QED BY <1>2, <1>3, FS_Subset

LEMMA HeardIsOwn ==
  ASSUME MatchInv, \A q \in PoolQueries : Moves(q)
  PROVE  \A q \in PoolQueries : /\ query'[q].inbox \in {<<>>, <<q>>, <<NoQuery>>}
                                /\ query'[q].res = "ok" => query'[q].from = q
<1> SUFFICES ASSUME NEW q \in PoolQueries
             PROVE  /\ query'[q].inbox \in {<<>>, <<q>>, <<NoQuery>>}
                    /\ query'[q].res = "ok" => query'[q].from = q
  OBVIOUS
<1>1. query[q].inbox \in {<<>>, <<q>>, <<NoQuery>>} /\ (query[q].res = "ok" => query[q].from = q)
  BY DEF MatchInv
<1>2. query'[q].inbox \in {query[q].inbox, <<>>, <<q>>, <<NoQuery>>}
  BY DEF Moves
<1>3. query'[q].res = "ok" => (query[q].res = "ok" /\ query'[q].from = query[q].from) \/ query'[q].from = q
  BY DEF Moves
<1> QED BY <1>1, <1>2, <1>3

\* Nothing is sent, and no connection joins.
LEMMA NothingSent ==
  ASSUME FewTries, PoolTypes, PoolTypes', RoundInv, MatchInv, \A q \in PoolQueries : Moves(q), wire' \subseteq wire,
         \A c \in Conns : /\ conn'[c].nextID = conn[c].nextID /\ conn'[c].pending \subseteq conn[c].pending
                          /\ (conn'[c].dead = "unborn" => conn[c].dead = "unborn")
  PROVE  RoundInv' /\ MatchInv'
<1>1. Sent \subseteq Sent' /\ Cardinality(Sent) <= Cardinality(Sent')
  BY SentGrows
<1>2. Cardinality(Sent) \in Nat /\ Cardinality(Sent)' \in Nat
  <2>1. FewTries'
    BY DEF FewTries
  <2>2. Cardinality(Sent) \in Nat
    BY SentIsFew
  <2>3. (Cardinality(Sent) \in Nat)'
    BY <2>1, SentIsFew, PTL
  <2> QED BY <2>2, <2>3
<1>3. \A c \in Conns : InUse(c)' \subseteq InUse(c)
  BY DEF InUse, Used
<1>4. RoundInv'
  <2> SUFFICES ASSUME NEW c \in Conns
               PROVE  \E num \in Nat : /\ num <= Cardinality(Sent)' /\ conn'[c].nextID = (FirstID + num) % IDCount
                                     /\ \A i \in InUse(c)' : \E k \in Nat : k < num /\ i = (FirstID + k) % IDCount
    BY DEF RoundInv
  <2>1. PICK num \in Nat : /\ num <= Cardinality(Sent) /\ conn[c].nextID = (FirstID + num) % IDCount
                         /\ \A i \in InUse(c) : \E k \in Nat : k < num /\ i = (FirstID + k) % IDCount
    BY DEF RoundInv
  <2>2. num <= Cardinality(Sent)'
    BY <1>1, <1>2, <2>1
  <2>3. \A i \in InUse(c)' : \E k \in Nat : k < num /\ i = (FirstID + k) % IDCount
    BY <1>3, <2>1
  <2> QED BY <2>1, <2>2, <2>3
<1>5. MatchInv'
  <2>1. ASSUME NEW m \in wire'
        PROVE  conn'[m[1]].dead # "unborn" /\ \A p \in conn'[m[1]].pending : p[1] = m[2] => p[2] = m[3]
    <3>1. m \in wire /\ m[1] \in Conns
      BY DEF PoolTypes
    <3> QED BY <3>1 DEF MatchInv
  <2> QED BY <2>1, HeardIsOwn DEF MatchInv
<1> QED BY <1>4, <1>5

\* A connection joins: nothing was sent on it.
LEMMA NewIsClean ==
  ASSUME FewTries, PoolTypes, PoolTypes', RoundInv, MatchInv, \A q \in PoolQueries : Moves(q), wire' = wire, NEW c \in Conns,
         conn[c].dead = "unborn", conn'[c].nextID = FirstID, conn'[c].pending = {},
         \A x \in Conns : x # c => conn'[x] = conn[x]
  PROVE  RoundInv' /\ MatchInv'
<1>1. Sent \subseteq Sent' /\ Cardinality(Sent) <= Cardinality(Sent')
  BY SentGrows
<1>2. Cardinality(Sent) \in Nat /\ Cardinality(Sent)' \in Nat
  <2>1. FewTries'
    BY DEF FewTries
  <2>2. Cardinality(Sent) \in Nat
    BY SentIsFew
  <2>3. (Cardinality(Sent) \in Nat)'
    BY <2>1, SentIsFew, PTL
  <2> QED BY <2>2, <2>3
<1>3. \A m \in wire : m[1] # c /\ m[1] \in Conns
  BY DEF MatchInv, PoolTypes
<1>4. RoundInv'
  <2> SUFFICES ASSUME NEW x \in Conns
               PROVE  \E num \in Nat : /\ num <= Cardinality(Sent)' /\ conn'[x].nextID = (FirstID + num) % IDCount
                                     /\ \A i \in InUse(x)' : \E k \in Nat : k < num /\ i = (FirstID + k) % IDCount
    BY DEF RoundInv
  <2>1. CASE x = c
    <3>1. InUse(c)' = {}
      BY <1>3 DEF InUse, Used
    <3>2. (FirstID + 0) % IDCount = FirstID
      BY PoolNumbers DEF IDs
    <3> QED BY <1>2, <2>1, <3>1, <3>2
  <2>2. CASE x # c
    <3>1. PICK num \in Nat : /\ num <= Cardinality(Sent) /\ conn[x].nextID = (FirstID + num) % IDCount
                           /\ \A i \in InUse(x) : \E k \in Nat : k < num /\ i = (FirstID + k) % IDCount
      BY DEF RoundInv
    <3>2. num <= Cardinality(Sent)'
      BY <1>1, <1>2, <3>1
    <3>3. InUse(x)' = InUse(x) /\ conn'[x].nextID = conn[x].nextID
      BY <2>2 DEF InUse, Used
    <3> QED BY <3>1, <3>2, <3>3
  <2> QED BY <2>1, <2>2
<1>5. MatchInv'
  <2>1. \A m \in wire' : conn'[m[1]].dead # "unborn" /\ \A p \in conn'[m[1]].pending : p[1] = m[2] => p[2] = m[3]
    BY <1>3 DEF MatchInv
  <2> QED BY <2>1, HeardIsOwn DEF MatchInv
<1> QED BY <1>4, <1>5

\* While IDs do not come round, the nxt one is free and was never used here.
LEMMA NextIsNew ==
  ASSUME FewTries, PoolTypes, NEW c \in Conns, NEW num \in Nat, num < IDCount, conn[c].nextID = (FirstID + num) % IDCount,
         \A i \in InUse(c) : \E k \in Nat : k < num /\ i = (FirstID + k) % IDCount
  PROVE  /\ conn[c].nextID \notin InUse(c) /\ FreeID(c) = conn[c].nextID
         /\ (conn[c].nextID + 1) % IDCount = (FirstID + (num + 1)) % IDCount
<1>0. IDCount \in Nat \ {0} /\ FirstID \in Nat /\ FirstID < IDCount /\ MaxInflight \in Nat /\ MaxInflight >= 1
  BY PoolNumbers DEF IDs
<1>1. \A x \in Nat : x < 2 * IDCount => x % IDCount = IF x < IDCount THEN x ELSE x - IDCount
  BY <1>0 DEF IDCount
<1>2. \A k \in Nat : k < num => (FirstID + k) % IDCount # (FirstID + num) % IDCount
  BY <1>0, <1>1
<1>3. conn[c].nextID \notin InUse(c)
  BY <1>2
<1> DEFINE i == conn[c].nextID
<1>4. i \in Nat /\ i < IDCount
  BY <1>0 DEF PoolTypes, ConnRecord, IDs
<1>5. (i + 0) % IDCount = i
  BY <1>0, <1>1, <1>4
<1>6. FreeID(c) = i
  <2> DEFINE free == {d \in 0 .. MaxInflight : (i + d) % IDCount \notin Used(c)}
  <2>1. i \notin Used(c)
    BY <1>3 DEF InUse
  <2>2. 0 \in free /\ free \in SUBSET Nat
    BY <1>0, <1>5, <2>1
  <2>3. Min(free) = 0
    <3> HIDE DEF free
    <3>1. Min(free) \in free /\ \A y \in free : Min(free) <= y
      BY <2>2, LeastNumber
    <3>2. PICK m \in Nat : m = Min(free) /\ m <= 0
      BY <2>2, <3>1
    <3> QED BY <3>2
  <2>4. FreeID(c) = (i + Min(free)) % IDCount
    BY DEF FreeID, NextFree
  <2> QED BY <1>5, <2>3, <2>4
<1>7. (i + 1) % IDCount = (FirstID + (num + 1)) % IDCount
  <2> HIDE DEF i
  <2>1. i = IF FirstID + num < IDCount THEN FirstID + num ELSE FirstID + num - IDCount
    BY <1>0, <1>1 DEF i
  <2>2. (i + 1) % IDCount = IF i + 1 < IDCount THEN i + 1 ELSE i + 1 - IDCount
    BY <1>0, <1>1, <1>4
  <2>3. PICK x \in Nat : x = FirstID + (num + 1) /\ x < 2 * IDCount
    BY <1>0
  <2>4. x % IDCount = IF x < IDCount THEN x ELSE x - IDCount
    BY <1>1, <2>3
  <2>5. (FirstID + (num + 1)) % IDCount = IF FirstID + (num + 1) < IDCount THEN FirstID + (num + 1) ELSE FirstID + (num + 1) - IDCount
    BY <1>0, <2>3, <2>4
  <2>6. CASE FirstID + num < IDCount
    BY <1>0, <1>4, <2>1, <2>2, <2>5, <2>6
  <2>7. CASE ~(FirstID + num < IDCount)
    BY <1>0, <1>4, <2>1, <2>2, <2>5, <2>7
  <2> QED BY <2>6, <2>7
<1> QED BY <1>3, <1>6, <1>7

\* A connection that fails keeps its nxt ID, and nobody waits on it.
LEMMA FailsLess ==
  ASSUME NEW cs \in [Conns -> ConnRecord], NEW c \in Conns, NEW err \in {"dropped", "closed"}
  PROVE  \A x \in Conns : /\ Fails(cs, c, err)[x].nextID = cs[x].nextID
                          /\ Fails(cs, c, err)[x].pending \subseteq cs[x].pending
                          /\ (Fails(cs, c, err)[x].dead = "unborn" => cs[x].dead = "unborn")
<1>1. PICK r \in ConnRecord : cs[c] = r
  OBVIOUS
<1> DEFINE e == [r EXCEPT !.dead = err, !.pending = {}]
<1>2. Fails(cs, c, err) = cs \/ Fails(cs, c, err) = [cs EXCEPT ![c] = e]
  BY <1>1 DEF Fails
<1>3. e.nextID = r.nextID /\ e.pending = {} /\ e.dead = err /\ err # "unborn"
  BY DEF ConnRecord
<1> HIDE DEF e
<1>4. CASE Fails(cs, c, err) = cs
  BY <1>4
<1>5. CASE Fails(cs, c, err) = [cs EXCEPT ![c] = e]
  <2>1. \A x \in Conns : Fails(cs, c, err)[x] = IF x = c THEN e ELSE cs[x]
    BY <1>5
  <2> QED BY <1>1, <1>3, <2>1
<1> QED BY <1>2, <1>4, <1>5

\* Only one query goes on, the others look for a slot again or are told that
\* their connection failed.
LEMMA OthersMove ==
  ASSUME PoolTypes, NEW q \in PoolQueries, Moves(q),
         \A p \in PoolQueries : p # q => /\ query'[p].at = (IF query[p].at = "wait" THEN "get" ELSE query[p].at) \/ query'[p].at = query[p].at
                                         /\ query'[p].inbox \in {query[p].inbox, <<NoQuery>>}
                                         /\ (query[p].at = "done" => query'[p].inbox = <<>>)
                                         /\ query'[p].attempt = query[p].attempt /\ query'[p].res = query[p].res
                                         /\ query'[p].from = query[p].from
  PROVE  \A p \in PoolQueries : Moves(p)
<1> SUFFICES ASSUME NEW p \in PoolQueries, p # q PROVE Moves(p)
  OBVIOUS
<1> QED BY DEF Moves

LEMMA SendsReplies ==
  ASSUME PoolIInv, PoolIInv', OwnIDs, FewTries, RoundInv, MatchInv, NEW q \in PoolQueries, Sends(q)
  PROVE  RoundInv' /\ MatchInv'
<1>0. PoolTypes /\ PoolTypes' /\ PlaceInv /\ ChannelInv /\ query[q].at = "send"
  BY PoolParts DEF PoolIInv, Sends
<1>1. PICK d \in QueryRecord : query[q] = d
  BY <1>0 DEF PoolTypes
<1>2. d.at = "send" /\ d.inbox = <<>> /\ d.conn \in Conns
  BY <1>0, <1>1 DEF PlaceInv, ChannelInv, Holds
<1>3. PICK c \in Conns : c = d.conn
  BY <1>2
<1>4. CASE ~Alive(c) /\ query' = [query EXCEPT ![q].at = "held", ![q].res = conn[c].dead] /\ UNCHANGED <<conn, wire>>
  <2>1. PICK x \in Fates : x = conn[c].dead
    BY <1>0 DEF PoolTypes, ConnRecord
  <2> DEFINE e == [d EXCEPT !.at = "held", !.res = x]
  <2>2. query' = [query EXCEPT ![q] = e]
    BY <1>1, <1>4, <2>1
  <2>3. e.at = "held" /\ e.inbox = d.inbox /\ e.attempt = d.attempt /\ e.res = x /\ x # "ok"
    BY DEF QueryRecord, Fates
  <2> HIDE DEF e
  <2>4. \A p \in PoolQueries : query'[p] = IF p = q THEN e ELSE query[p]
    BY <1>0, <2>2 DEF PoolTypes
  <2>5. Moves(q)
    BY <1>1, <1>2, <2>3, <2>4 DEF Moves
  <2>6. \A p \in PoolQueries : query[p].at = "done" => query[p].inbox = <<>>
    BY <1>0 DEF ChannelInv
  <2>7. \A p \in PoolQueries : Moves(p)
    BY <1>0, <2>4, <2>5, <2>6, OthersMove
  <2> QED BY <1>0, <1>4, <2>7, NothingSent
<1>5. CASE /\ Alive(c) /\ wire' = wire \cup {<<c, FreeID(c), q>>}
           /\ conn' = [conn EXCEPT ![c].pending = @ \cup {<<FreeID(c), q>>}, ![c].nextID = (FreeID(c) + 1) % IDCount]
           /\ query' = [query EXCEPT ![q].at = "sent", ![q].id = FreeID(c)]
  <2>1. PICK num \in Nat : /\ num <= Cardinality(Sent) /\ conn[c].nextID = (FirstID + num) % IDCount
                         /\ \A i \in InUse(c) : \E k \in Nat : k < num /\ i = (FirstID + k) % IDCount
    BY DEF RoundInv
  <2>2. d.attempt \in Tries
    BY DEF QueryRecord
  <2>3. <<q, d.attempt>> \in (PoolQueries \X Tries) \ Sent
    <3>1. d.attempt \in Nat
      BY <2>2, PoolNumbers DEF Tries
    <3> QED BY <1>1, <1>2, <2>2, <3>1 DEF Sent
  <2>4. Cardinality(Sent) \in Nat /\ Cardinality(Sent) < IDCount /\ IsFiniteSet(Sent)
    BY <1>0, <2>3, SentIsFew
  <2>5. num < IDCount
    BY <2>1, <2>4, PoolNumbers
  <2>6. PICK id \in IDs : id = FreeID(c)
    BY <1>0, IdIsFree DEF PoolIInv
  <2>7. id \notin InUse(c) /\ id = conn[c].nextID /\ (id + 1) % IDCount = (FirstID + (num + 1)) % IDCount
    BY <1>0, <2>1, <2>5, <2>6, NextIsNew
  <2>8. PICK r \in ConnRecord : conn[c] = r
    BY <1>0 DEF PoolTypes
  <2> DEFINE nxt == (id + 1) % IDCount
             w == r.pending \cup {<<id, q>>}
             k == [r EXCEPT !.pending = w, !.nextID = nxt]
             e == [d EXCEPT !.at = "sent", !.id = id]
  <2>9. conn' = [conn EXCEPT ![c] = k] /\ query' = [query EXCEPT ![q] = e] /\ wire' = wire \cup {<<c, id, q>>}
    BY <1>1, <1>5, <2>6, <2>8
  <2> HIDE DEF w, nxt
  <2>10. k.pending = w /\ k.nextID = nxt /\ k.dead = r.dead
    BY DEF ConnRecord
  <2>11. e.at = "sent" /\ e.inbox = d.inbox /\ e.attempt = d.attempt /\ e.res = d.res /\ e.from = d.from
    BY DEF QueryRecord
  <2> HIDE DEF e, k
  <2>12. /\ \A p \in PoolQueries : query'[p] = IF p = q THEN e ELSE query[p]
         /\ \A x \in Conns : conn'[x] = IF x = c THEN k ELSE conn[x]
    BY <1>0, <2>9 DEF PoolTypes
  <2>13. \A p \in PoolQueries : Moves(p)
    <3>1. Moves(q)
      BY <1>1, <1>2, <2>11, <2>12 DEF Moves
    <3>2. \A p \in PoolQueries : query[p].at = "done" => query[p].inbox = <<>>
      BY <1>0 DEF ChannelInv
    <3> QED BY <1>0, <2>12, <3>1, <3>2, OthersMove
  <2>14. Cardinality(Sent)' \in Nat /\ Cardinality(Sent)' >= Cardinality(Sent) + 1
    <3>1. Sent \subseteq Sent'
      BY <1>0, <2>13, SentGrows
    <3>2. <<q, d.attempt>> \in Sent'
      BY <2>2, <2>11, <2>12 DEF Sent
    <3>3. FewTries'
      BY DEF FewTries
    <3>4. (IsFiniteSet(Sent) /\ Cardinality(Sent) \in Nat)'
      BY <1>0, <3>3, SentIsFew, PTL
    <3> DEFINE S == Sent \cup {<<q, d.attempt>>}
    <3>5. IsFiniteSet(S) /\ Cardinality(S) = Cardinality(Sent) + 1
      BY <2>3, <2>4, FS_AddElement
    <3>6. S \subseteq Sent'
      BY <3>1, <3>2
    <3> HIDE DEF S
    <3>7. Cardinality(S) <= Cardinality(Sent')
      BY <3>4, <3>6, FS_Subset
    <3> QED BY <3>4, <3>5, <3>7
  <2>15. RoundInv'
    <3> SUFFICES ASSUME NEW x \in Conns
                 PROVE  \E m \in Nat : /\ m <= Cardinality(Sent)' /\ conn'[x].nextID = (FirstID + m) % IDCount
                                       /\ \A i \in InUse(x)' : \E j \in Nat : j < m /\ i = (FirstID + j) % IDCount
      BY DEF RoundInv
    <3>1. CASE x = c
      <4>1. InUse(c)' \subseteq InUse(c) \cup {id}
        BY <2>8, <2>9, <2>10, <2>12 DEF InUse, Used, w
      <4>2. \A i \in InUse(c)' : \E j \in Nat : j < num + 1 /\ i = (FirstID + j) % IDCount
        <5>1. \A i \in InUse(c) : \E j \in Nat : j < num + 1 /\ i = (FirstID + j) % IDCount
          BY <2>1
        <5>2. num < num + 1 /\ id = (FirstID + num) % IDCount
          BY <2>1, <2>7
        <5> QED BY <4>1, <5>1, <5>2
      <4>3. num + 1 \in Nat /\ num + 1 <= Cardinality(Sent)'
        BY <2>1, <2>4, <2>14
      <4>4. conn'[c].nextID = (FirstID + (num + 1)) % IDCount
        BY <2>7, <2>10, <2>12 DEF nxt
      <4> QED BY <3>1, <4>2, <4>3, <4>4
    <3>2. CASE x # c
      <4>1. PICK m \in Nat : /\ m <= Cardinality(Sent) /\ conn[x].nextID = (FirstID + m) % IDCount
                             /\ \A i \in InUse(x) : \E j \in Nat : j < m /\ i = (FirstID + j) % IDCount
        BY DEF RoundInv
      <4>2. InUse(x)' = InUse(x) /\ conn'[x].nextID = conn[x].nextID
        BY <2>9, <2>12, <3>2 DEF InUse, Used
      <4>3. m <= Cardinality(Sent)'
        BY <2>4, <2>14, <4>1
      <4> QED BY <4>1, <4>2, <4>3
    <3> QED BY <3>1, <3>2
  <2>16. MatchInv'
    <3>1. ASSUME NEW m \in wire', NEW p \in conn'[m[1]].pending, p[1] = m[2] PROVE p[2] = m[3]
      <4>1. m[1] \in Conns
        BY <1>0 DEF PoolTypes
      <4>2. CASE m[1] # c
        <5>1. m \in wire /\ p \in conn[m[1]].pending
          BY <2>9, <2>12, <4>1, <4>2
        <5> QED BY <3>1, <5>1 DEF MatchInv
      <4>3. CASE m[1] = c
        <5>1. p \in conn[c].pending \/ p = <<id, q>>
          BY <2>8, <2>10, <2>12, <4>3 DEF w
        <5>2. m \in wire \/ m = <<c, id, q>>
          BY <2>9
        <5>3. \A y \in conn[c].pending : y[1] # id
          BY <2>7 DEF InUse, Used
        <5>4. \A y \in wire : y[1] = c => y[2] # id
          BY <2>7 DEF InUse
        <5>5. CASE m \in wire
          <6>1. p \in conn[c].pending
            BY <3>1, <4>3, <5>1, <5>4, <5>5
          <6> QED BY <3>1, <4>3, <5>5, <6>1 DEF MatchInv
        <5>6. CASE m = <<c, id, q>>
          <6>1. p = <<id, q>>
            BY <3>1, <5>1, <5>3, <5>6
          <6> QED BY <5>6, <6>1
        <5> QED BY <5>2, <5>5, <5>6
      <4> QED BY <4>2, <4>3
    <3>2. ASSUME NEW m \in wire' PROVE conn'[m[1]].dead # "unborn"
      <4>1. m[1] \in Conns /\ (m \in wire \/ m[1] = c)
        BY <1>0, <2>9 DEF PoolTypes
      <4>2. conn[c].dead = "no"
        BY <1>5 DEF Alive
      <4> QED BY <2>8, <2>10, <2>12, <4>1, <4>2 DEF MatchInv
    <3> QED BY <2>13, <3>1, <3>2, HeardIsOwn DEF MatchInv
  <2> QED BY <2>15, <2>16
<1>6. CASE \E err \in {"dropped", "closed"} :
             /\ Alive(c) /\ conn' = Fails(conn, c, err) /\ wire' = {m \in wire : m[1] # c}
             /\ query' = [Told(query, c) EXCEPT ![q].at = "held", ![q].res = err]
  <2>1. PICK err \in {"dropped", "closed"} :
             /\ Alive(c) /\ conn' = Fails(conn, c, err) /\ wire' = {m \in wire : m[1] # c}
             /\ query' = [Told(query, c) EXCEPT ![q].at = "held", ![q].res = err]
    BY <1>6
  <2>2. /\ Told(query, c) \in [PoolQueries -> QueryRecord]
        /\ \A p \in PoolQueries :
              /\ Told(query, c)[p].at = query[p].at /\ Told(query, c)[p].attempt = query[p].attempt
              /\ Told(query, c)[p].res = query[p].res /\ Told(query, c)[p].from = query[p].from
              /\ Told(query, c)[p].inbox = IF \E x \in conn[c].pending : x[2] = p THEN <<NoQuery>> ELSE query[p].inbox
    BY <1>0, ToldIs
  <2>3. PICK t \in QueryRecord : Told(query, c)[q] = t
    BY <2>2
  <2> DEFINE e == [t EXCEPT !.at = "held", !.res = err]
  <2>4. query' = [Told(query, c) EXCEPT ![q] = e]
    BY <2>1, <2>3
  <2>5. e.at = "held" /\ e.inbox = t.inbox /\ e.attempt = t.attempt /\ e.res = err /\ err # "ok"
    BY DEF QueryRecord
  <2> HIDE DEF e
  <2>6. \A p \in PoolQueries : query'[p] = IF p = q THEN e ELSE Told(query, c)[p]
    BY <2>2, <2>4
  <2>7. Moves(q)
    BY <1>1, <1>2, <2>2, <2>3, <2>5, <2>6 DEF Moves
  <2>8. \A p \in PoolQueries : query[p].at = "done" => query[p].inbox = <<>> /\ ~\E x \in conn[c].pending : x[2] = p
    BY <1>0 DEF ChannelInv
  <2>9. \A p \in PoolQueries : Moves(p)
    BY <1>0, <2>2, <2>6, <2>7, <2>8, OthersMove
  <2>10. \A x \in Conns : /\ conn'[x].nextID = conn[x].nextID /\ conn'[x].pending \subseteq conn[x].pending
                          /\ (conn'[x].dead = "unborn" => conn[x].dead = "unborn")
    BY <1>0, <2>1, FailsLess DEF PoolTypes
  <2> QED BY <1>0, <2>1, <2>9, <2>10, NothingSent
<1> QED
  BY <1>1, <1>3, <1>4, <1>5, <1>6 DEF Sends

\* A query that looks for a slot, dials or waits: nobody hears anything.
LEMMA LooksReplies ==
  ASSUME PoolIInv, PoolIInv', OwnIDs, NEW q \in PoolQueries, get(q) \/ DialFails(q) \/ PoolIsBusy(q)
  PROVE  OwnIDs' /\ (FewTries /\ RoundInv /\ MatchInv => RoundInv' /\ MatchInv')
<1>0. PoolTypes /\ PoolTypes' /\ ChannelInv /\ query[q].at \in {"get", "dial", "wait"} /\ wire' = wire
  BY PoolParts DEF PoolIInv, get, DialFails, PoolIsBusy, PoolKeeps
<1>1. PICK d \in QueryRecord : query[q] = d
  BY <1>0 DEF PoolTypes
<1>2. d.inbox = <<>> /\ d.at # "done" /\ d.at \notin {"sent", "held"}
  BY <1>0, <1>1 DEF ChannelInv
<1>3. \A x \in Conns : /\ conn'[x].nextID = conn[x].nextID /\ conn'[x].pending = conn[x].pending
                       /\ (conn'[x].dead = "unborn" => conn[x].dead = "unborn")
  <2>1. \A x \in Conns : Pruned[x].nextID = conn[x].nextID /\ Pruned[x].pending = conn[x].pending
                         /\ (Pruned[x].dead = "unborn" => conn[x].dead = "unborn")
    <3> SUFFICES ASSUME NEW x \in Conns
                 PROVE  Pruned[x].nextID = conn[x].nextID /\ Pruned[x].pending = conn[x].pending
                        /\ (Pruned[x].dead = "unborn" => conn[x].dead = "unborn")
      OBVIOUS
    <3>1. PICK r \in ConnRecord : conn[x] = r
      BY <1>0 DEF PoolTypes
    <3>2. Pruned[x] = IF x \in Silent THEN [r EXCEPT !.dead = "closed"] ELSE r
      BY <3>1 DEF Pruned
    <3>3. LET e == [r EXCEPT !.dead = "closed"] IN e.nextID = r.nextID /\ e.pending = r.pending /\ e.dead = "closed"
      BY DEF ConnRecord
    <3> QED BY <3>1, <3>2, <3>3
  <2>2. CASE conn' = conn
    BY <2>2
  <2>3. CASE conn' = Pruned
    BY <2>1, <2>3
  <2>4. CASE \E c \in leastLoadedLocked : conn' = [Pruned EXCEPT ![c].load = @ + 1]
    <3>1. PICK c \in leastLoadedLocked : conn' = [Pruned EXCEPT ![c].load = @ + 1]
      BY <2>4
    <3>2. c \in Conns /\ Pruned \in [Conns -> ConnRecord]
      BY <1>0, PrunedIs DEF leastLoadedLocked
    <3>3. PICK r \in ConnRecord : Pruned[c] = r
      BY <3>2
    <3> DEFINE e == [r EXCEPT !.load = @ + 1]
    <3>4. conn' = [Pruned EXCEPT ![c] = e]
      BY <3>1, <3>3
    <3>5. e.nextID = r.nextID /\ e.pending = r.pending /\ e.dead = r.dead
      BY DEF ConnRecord
    <3> HIDE DEF e
    <3>6. \A x \in Conns : conn'[x] = IF x = c THEN e ELSE Pruned[x]
      BY <3>2, <3>4
    <3> QED BY <2>1, <3>3, <3>5, <3>6
  <2>5. conn' = conn \/ conn' = Pruned \/ \E c \in leastLoadedLocked : conn' = [Pruned EXCEPT ![c].load = @ + 1]
    BY DEF get, DialFails, PoolIsBusy, Reserves
  <2> QED BY <2>2, <2>3, <2>4, <2>5
<1>4. OwnIDs'
  BY <1>3, OwnIDsKept
<1>5. /\ signalLocked(query) \in [PoolQueries -> QueryRecord]
      /\ \A p \in PoolQueries :
           /\ signalLocked(query)[p].at = (IF query[p].at = "wait" THEN "get" ELSE query[p].at)
           /\ signalLocked(query)[p].inbox = query[p].inbox /\ signalLocked(query)[p].attempt = query[p].attempt
           /\ signalLocked(query)[p].res = query[p].res /\ signalLocked(query)[p].from = query[p].from
  BY <1>0, Signalled
<1>6. PICK old \in [PoolQueries -> QueryRecord], e \in QueryRecord :
        /\ old \in {query, signalLocked(query)} /\ query' = [old EXCEPT ![q] = e]
        /\ \/ e.at = "done" /\ e.inbox = <<>> /\ e.res # "ok"
           \/ /\ e.at \in {"send", "dial", "wait"} /\ e.inbox = d.inbox /\ e.attempt = d.attempt
              /\ e.res = d.res /\ e.from = d.from
  <2>1. query \in [PoolQueries -> QueryRecord]
    BY <1>0 DEF PoolTypes
  <2>2. \A res \in {"error", "busy"} : /\ Over(res, NoQuery) \in QueryRecord /\ Over(res, NoQuery).at = "done"
                                       /\ Over(res, NoQuery).inbox = <<>> /\ Over(res, NoQuery).res # "ok"
    <3> SUFFICES ASSUME NEW res \in {"error", "busy"}
                 PROVE  /\ Over(res, NoQuery) \in QueryRecord /\ Over(res, NoQuery).at = "done"
                        /\ Over(res, NoQuery).inbox = <<>> /\ Over(res, NoQuery).res # "ok"
      OBVIOUS
    <3>1. res \in QueryEnds /\ NoQuery \in Askers /\ 1 \in Tries
      BY PoolNumbers DEF QueryEnds, Askers, Tries
    <3>2. Over(res, NoQuery) \in QueryRecord /\ Over(res, NoQuery).at = "done" /\ Over(res, NoQuery).inbox = <<>>
      BY <3>1, OverIsEmpty
    <3>3. Over(res, NoQuery).res = res
      BY DEF Over, Fresh
    <3> QED BY <3>2, <3>3
  <2>3. CASE \E res \in {"error", "busy"} : query' = [query EXCEPT ![q] = Over(res, NoQuery)]
                                            \/ query' = [signalLocked(query) EXCEPT ![q] = Over(res, NoQuery)]
    BY <1>5, <2>1, <2>2, <2>3
  <2>4. CASE \E x \in {"dial", "wait"} : query' = [query EXCEPT ![q].at = x]
    <3>1. PICK x \in {"dial", "wait"} : query' = [query EXCEPT ![q].at = x]
      BY <2>4
    <3> DEFINE e == [d EXCEPT !.at = x]
    <3>2. query' = [query EXCEPT ![q] = e]
      BY <1>1, <3>1
    <3>3. e \in QueryRecord /\ e.at = x /\ e.inbox = d.inbox /\ e.attempt = d.attempt /\ e.res = d.res /\ e.from = d.from
      BY DEF QueryRecord, PoolPlaces
    <3> HIDE DEF e
    <3> QED BY <2>1, <3>2, <3>3
  <2>5. CASE query' = [signalLocked(query) EXCEPT ![q].at = "wait", ![q].unheard = TRUE]
    <3>1. PICK t \in QueryRecord : /\ signalLocked(query)[q] = t /\ t.inbox = d.inbox /\ t.attempt = d.attempt
                                   /\ t.res = d.res /\ t.from = d.from
      BY <1>1, <1>5
    <3> DEFINE e == [t EXCEPT !.at = "wait", !.unheard = TRUE]
    <3>2. query' = [signalLocked(query) EXCEPT ![q] = e]
      BY <2>5, <3>1
    <3>3. e \in QueryRecord /\ e.at = "wait" /\ e.inbox = t.inbox /\ e.attempt = t.attempt /\ e.res = t.res /\ e.from = t.from
      BY DEF QueryRecord, PoolPlaces
    <3> HIDE DEF e
    <3> QED BY <1>5, <3>1, <3>2, <3>3
  <2>6. CASE \E c \in leastLoadedLocked : Reserves(q, c)
    <3>1. PICK c \in leastLoadedLocked : Reserves(q, c)
      BY <2>6
    <3> DEFINE b1 == conn[c].load + 1 >= limitLocked
               b2 == conn[c].age # "warm"
               e == [d EXCEPT !.at = "send", !.conn = c, !.fresh = FALSE, !.atLimit = b1, !.suspect = b2]
    <3>2. query' = [query EXCEPT ![q] = e]
      BY <1>1, <3>1 DEF Reserves
    <3>3. b1 \in BOOLEAN /\ b2 \in BOOLEAN
      OBVIOUS
    <3>4. c \in ConnRefs
      <4>1. c \in Conns
        BY <1>0, PrunedIs DEF leastLoadedLocked
      <4> QED BY <4>1, PoolNumbers DEF Conns, ConnRefs
    <3> HIDE DEF b1, b2
    <3>5. e \in QueryRecord /\ e.at = "send" /\ e.inbox = d.inbox /\ e.attempt = d.attempt /\ e.res = d.res /\ e.from = d.from
      BY <3>3, <3>4 DEF QueryRecord, PoolPlaces
    <3> HIDE DEF e
    <3> QED BY <2>1, <3>2, <3>5
  <2>7. CASE get(q)
    BY <2>3, <2>4, <2>6, <2>7 DEF get, FailsFast
  <2>8. CASE DialFails(q) \/ PoolIsBusy(q)
    BY <2>3, <2>5, <2>8 DEF DialFails, PoolIsBusy
  <2> QED BY <2>7, <2>8
<1>7. query'[q] = e /\ \A p \in PoolQueries : p # q => query'[p] = old[p]
  BY <1>6
<1>8. \A p \in PoolQueries : Moves(p)
  <2>1. Moves(q)
    BY <1>1, <1>2, <1>6, <1>7 DEF Moves
  <2>2. \A p \in PoolQueries : query[p].at = "done" => query[p].inbox = <<>>
    BY <1>0 DEF ChannelInv
  <2>3. \A p \in PoolQueries : p # q =>
          /\ query'[p].at = (IF query[p].at = "wait" THEN "get" ELSE query[p].at) \/ query'[p].at = query[p].at
          /\ query'[p].inbox = query[p].inbox /\ query'[p].attempt = query[p].attempt /\ query'[p].res = query[p].res
          /\ query'[p].from = query[p].from
    <3>1. CASE old = query
      BY <1>7, <3>1
    <3>2. CASE old = signalLocked(query)
      BY <1>5, <1>7, <3>2
    <3> QED BY <1>6, <3>1, <3>2
  <2> QED BY <1>0, <2>1, <2>2, <2>3, OthersMove
<1> QED BY <1>0, <1>3, <1>4, <1>8, NothingSent

LEMMA DialReplies ==
  ASSUME PoolIInv, PoolIInv', OwnIDs, NEW q \in PoolQueries, DialSucceeds(q)
  PROVE  OwnIDs' /\ (FewTries /\ RoundInv /\ MatchInv => RoundInv' /\ MatchInv')
<1>0. PoolTypes /\ PoolTypes' /\ ChannelInv /\ query[q].at = "dial" /\ wire' = wire
  BY PoolParts DEF PoolIInv, DialSucceeds, PoolKeeps
<1>1. PICK c \in Conns :
       /\ conn[c].dead = "unborn" /\ conn' = [conn EXCEPT ![c] = [NewConn EXCEPT !.load = 1]]
       /\ query' = [signalLocked(query) EXCEPT ![q].at = "send", ![q].conn = c, ![q].fresh = TRUE,
                      ![q].suspect = FALSE, ![q].atLimit = limitLocked <= 1]
  BY DEF DialSucceeds
<1>2. conn'[c].nextID = FirstID /\ conn'[c].pending = {} /\ \A x \in Conns : x # c => conn'[x] = conn[x]
  BY <1>0, <1>1 DEF PoolTypes, NewConn
<1>3. OwnIDs'
  <2>1. \A x \in Conns : conn'[x].pending \subseteq conn[x].pending
    BY <1>2
  <2> QED BY <2>1, OwnIDsKept
<1>4. /\ signalLocked(query) \in [PoolQueries -> QueryRecord]
      /\ \A p \in PoolQueries :
           /\ signalLocked(query)[p].at = (IF query[p].at = "wait" THEN "get" ELSE query[p].at)
           /\ signalLocked(query)[p].inbox = query[p].inbox /\ signalLocked(query)[p].attempt = query[p].attempt
           /\ signalLocked(query)[p].res = query[p].res /\ signalLocked(query)[p].from = query[p].from
  BY <1>0, Signalled
<1>5. PICK t \in QueryRecord : t = signalLocked(query)[q]
  BY <1>4
<1> DEFINE b == limitLocked <= 1
           e == [t EXCEPT !.at = "send", !.conn = c, !.fresh = TRUE, !.suspect = FALSE, !.atLimit = b]
<1>6. query' = [signalLocked(query) EXCEPT ![q] = e]
  BY <1>1, <1>5
<1> HIDE DEF b
<1>7. e.at = "send" /\ e.inbox = t.inbox /\ e.attempt = t.attempt /\ e.res = t.res /\ e.from = t.from
  BY DEF QueryRecord
<1> HIDE DEF e
<1>8. \A p \in PoolQueries : query'[p] = IF p = q THEN e ELSE signalLocked(query)[p]
  BY <1>4, <1>6
<1>9. \A p \in PoolQueries : Moves(p)
  <2>1. Moves(q)
    BY <1>0, <1>4, <1>5, <1>7, <1>8 DEF Moves
  <2>2. \A p \in PoolQueries : query[p].at = "done" => query[p].inbox = <<>>
    BY <1>0 DEF ChannelInv
  <2> QED BY <1>0, <1>4, <1>8, <2>1, <2>2, OthersMove
<1> QED BY <1>0, <1>1, <1>2, <1>3, <1>9, NewIsClean

LEMMA ReleaseReplies ==
  ASSUME PoolIInv, PoolIInv', FewTries, RoundInv, MatchInv, NEW q \in PoolQueries, release(q)
  PROVE  RoundInv' /\ MatchInv'
<1>0. PoolTypes /\ PoolTypes' /\ ChannelInv /\ query[q].at = "held" /\ wire' = wire
      /\ query' = [signalLocked(query) EXCEPT ![q] = Released(q)]
  BY PoolParts DEF PoolIInv, release
<1>1. PICK d \in QueryRecord : query[q] = d
  BY <1>0 DEF PoolTypes
<1>2. /\ signalLocked(query) \in [PoolQueries -> QueryRecord]
      /\ \A p \in PoolQueries :
           /\ signalLocked(query)[p].at = (IF query[p].at = "wait" THEN "get" ELSE query[p].at)
           /\ signalLocked(query)[p].inbox = query[p].inbox /\ signalLocked(query)[p].attempt = query[p].attempt
           /\ signalLocked(query)[p].res = query[p].res /\ signalLocked(query)[p].from = query[p].from
  BY <1>0, Signalled
<1>3. query'[q] = Released(q) /\ \A p \in PoolQueries : p # q => query'[p] = signalLocked(query)[p]
  BY <1>0, <1>2
<1>4. Moves(q)
  <2>1. CASE Again(q)
    <3>1. Released(q) = [Fresh EXCEPT !.attempt = d.attempt + 1]
      BY <1>1, <2>1 DEF Released
    <3>2. LET e == [Fresh EXCEPT !.attempt = d.attempt + 1] IN e.attempt = d.attempt + 1 /\ e.inbox = <<>> /\ e.res # "ok"
      BY DEF Fresh
    <3> QED BY <1>0, <1>1, <1>3, <3>1, <3>2 DEF Moves
  <2>2. CASE ~Again(q)
    <3>1. Released(q) = Over(d.res, d.from)
      BY <1>1, <2>2 DEF Released
    <3>2. LET e == Over(d.res, d.from) IN e.at = "done" /\ e.inbox = <<>> /\ e.res = d.res /\ e.from = d.from
      BY DEF Over, Fresh
    <3> QED BY <1>1, <1>3, <3>1, <3>2 DEF Moves
  <2> QED BY <2>1, <2>2
<1>5. \A p \in PoolQueries : Moves(p)
  <2>1. \A p \in PoolQueries : query[p].at = "done" => query[p].inbox = <<>>
    BY <1>0 DEF ChannelInv
  <2> QED BY <1>0, <1>2, <1>3, <1>4, <2>1, OthersMove
<1>6. \A x \in Conns : /\ conn'[x].nextID = conn[x].nextID /\ conn'[x].pending = conn[x].pending /\ conn'[x].dead = conn[x].dead
  <2>1. PICK c \in Conns : conn' = [conn EXCEPT ![c].load = @ - 1, ![c].counted = TRUE, ![c].cuts = @ + 1]
                           \/ conn' = [conn EXCEPT ![c].load = @ - 1]
    <3>1. query[q].conn \in Conns
      BY <1>0, PoolParts DEF PlaceInv, Holds
    <3> QED BY <3>1 DEF release
  <2>2. PICK r \in ConnRecord : conn[c] = r
    BY <1>0 DEF PoolTypes
  <2> DEFINE k1 == [r EXCEPT !.load = @ - 1, !.counted = TRUE, !.cuts = @ + 1]
             k2 == [r EXCEPT !.load = @ - 1]
  <2>3. conn' = [conn EXCEPT ![c] = k1] \/ conn' = [conn EXCEPT ![c] = k2]
    BY <2>1, <2>2
  <2>4. /\ k1.nextID = r.nextID /\ k1.pending = r.pending /\ k1.dead = r.dead
        /\ k2.nextID = r.nextID /\ k2.pending = r.pending /\ k2.dead = r.dead
    BY DEF ConnRecord
  <2> HIDE DEF k1, k2
  <2>5. \A x \in Conns : conn'[x] = IF x = c THEN conn'[c] ELSE conn[x]
    BY <1>0, <2>3 DEF PoolTypes
  <2>6. conn'[c] \in {k1, k2}
    BY <1>0, <2>3 DEF PoolTypes
  <2> QED BY <2>2, <2>4, <2>5, <2>6
<1> QED BY <1>0, <1>5, <1>6, NothingSent

\* A reply, a failure, a time that is over.
LEMMA HearsReplies ==
  ASSUME PoolIInv, PoolIInv', FewTries, RoundInv, MatchInv,
         \/ \E m \in wire : readLoop(m)
         \/ \E c \in Conns : fail(c) \/ GoesQuiet(c)
         \/ \E q \in PoolQueries : Receives(q)
         \/ CeilingEnds \/ BackoffEnds
  PROVE  RoundInv' /\ MatchInv'
<1>0. PoolTypes /\ PoolTypes' /\ ChannelInv
  BY PoolParts DEF PoolIInv
<1>1. \A p \in PoolQueries : query[p].at = "done" => query[p].inbox = <<>>
  BY <1>0 DEF ChannelInv
<1>2. ASSUME NEW m \in wire, readLoop(m) PROVE RoundInv' /\ MatchInv'
  <2>1. PICK c \in Conns, i \in IDs, a \in PoolQueries : m = <<c, i, a>>
    BY <1>0 DEF PoolTypes
  <2>2. /\ wire' = wire \ {m}
        /\ conn' = [conn EXCEPT ![c].pending = {p \in @ : p[1] # i}, ![c].age = "warm"]
        /\ query' = [q \in PoolQueries |-> IF <<i, q>> \in conn[c].pending
                                           THEN [query[q] EXCEPT !.inbox = Append(@, a)] ELSE query[q]]
    BY <1>2, <2>1 DEF readLoop
  <2>3. PICK r \in ConnRecord : conn[c] = r
    BY <1>0 DEF PoolTypes
  <2> DEFINE w == {p \in r.pending : p[1] # i}
             k == [r EXCEPT !.pending = w, !.age = "warm"]
  <2>4. conn' = [conn EXCEPT ![c] = k] /\ w \subseteq r.pending
    BY <2>2, <2>3
  <2> HIDE DEF w
  <2>5. k.nextID = r.nextID /\ k.pending = w /\ k.dead = r.dead
    BY DEF ConnRecord
  <2> HIDE DEF k
  <2>6. \A x \in Conns : conn'[x] = IF x = c THEN k ELSE conn[x]
    BY <1>0, <2>4 DEF PoolTypes
  <2>7. ASSUME NEW q \in PoolQueries PROVE Moves(q)
    <3>1. PICK d \in QueryRecord : query[q] = d
      BY <1>0 DEF PoolTypes
    <3>2. CASE <<i, q>> \in conn[c].pending
      <4>1. a = q
        BY <2>1, <3>2 DEF MatchInv
      <4>2. d.at = "sent" /\ d.inbox = <<>>
        BY <1>0, <3>1, <3>2 DEF ChannelInv
      <4>3. query'[q] = [d EXCEPT !.inbox = <<q>>]
        BY <2>2, <3>1, <3>2, <4>1, <4>2
      <4>4. LET e == [d EXCEPT !.inbox = <<q>>] IN
              e.at = d.at /\ e.inbox = <<q>> /\ e.attempt = d.attempt /\ e.res = d.res /\ e.from = d.from
        BY DEF QueryRecord
      <4> QED BY <3>1, <4>2, <4>3, <4>4 DEF Moves
    <3>3. CASE <<i, q>> \notin conn[c].pending
      <4>1. query'[q] = query[q]
        BY <2>2, <3>3
      <4> QED BY <1>1, <4>1 DEF Moves
    <3> QED BY <3>2, <3>3
  <2>8. \A x \in Conns : /\ conn'[x].nextID = conn[x].nextID /\ conn'[x].pending \subseteq conn[x].pending
                         /\ conn'[x].dead = conn[x].dead
    BY <2>3, <2>4, <2>5, <2>6
  <2> QED BY <1>0, <2>2, <2>7, <2>8, NothingSent
<1>3. ASSUME NEW c \in Conns, fail(c) PROVE RoundInv' /\ MatchInv'
  <2>1. conn' = Fails(conn, c, "dropped") /\ query' = Told(query, c) /\ wire' \subseteq wire
    BY <1>3 DEF fail
  <2>2. \A p \in PoolQueries :
              /\ query'[p].at = query[p].at /\ query'[p].attempt = query[p].attempt
              /\ query'[p].res = query[p].res /\ query'[p].from = query[p].from
              /\ query'[p].inbox = IF \E x \in conn[c].pending : x[2] = p THEN <<NoQuery>> ELSE query[p].inbox
    BY <1>0, <2>1, ToldIs
  <2>3. \A p \in PoolQueries : query[p].at = "done" => query'[p].inbox = <<>>
    <3>1. \A p \in PoolQueries : query[p].at = "done" => ~\E x \in conn[c].pending : x[2] = p
      BY <1>0 DEF ChannelInv
    <3> QED BY <1>1, <2>2, <3>1
  <2>4. \A p \in PoolQueries : query'[p].inbox \in {query[p].inbox, <<NoQuery>>}
    BY <2>2
  <2>5. \A p \in PoolQueries : Moves(p)
    BY <2>2, <2>3, <2>4 DEF Moves
  <2>6. \A x \in Conns : /\ conn'[x].nextID = conn[x].nextID /\ conn'[x].pending \subseteq conn[x].pending
                          /\ (conn'[x].dead = "unborn" => conn[x].dead = "unborn")
    BY <1>0, <2>1, FailsLess DEF PoolTypes
  <2> QED BY <1>0, <2>1, <2>5, <2>6, NothingSent
<1>4. ASSUME NEW q \in PoolQueries, Receives(q) PROVE RoundInv' /\ MatchInv'
  <2>1. PICK d \in QueryRecord : query[q] = d
    BY <1>0 DEF PoolTypes
  <2>2. d.at = "sent" /\ d.inbox # <<>> /\ d.conn \in Conns /\ UNCHANGED <<conn, wire>>
    BY <1>4, <2>1, PoolParts DEF Receives, PlaceInv, Holds
  <2>3. d.inbox \in {<<q>>, <<NoQuery>>}
    BY <2>1, <2>2 DEF MatchInv
  <2> DEFINE from == Head(d.inbox)
             res == IF from = NoQuery THEN conn[d.conn].dead ELSE "ok"
             e == [d EXCEPT !.at = "held", !.from = from, !.res = res]
  <2>4. query' = [query EXCEPT ![q] = e]
    BY <1>4, <2>1 DEF Receives
  <2>5. from \in {q, NoQuery} /\ conn[d.conn].dead # "ok"
    <3>1. from \in {q, NoQuery}
      BY <2>3
    <3>2. conn[d.conn] \in ConnRecord
      BY <1>0, <2>2 DEF PoolTypes
    <3>3. conn[d.conn].dead \in Fates
      BY <3>2 DEF ConnRecord
    <3> QED BY <3>1, <3>3 DEF Fates
  <2>6. res = "ok" => from = q
    BY <2>5
  <2> HIDE DEF from, res
  <2>7. e.at = "held" /\ e.inbox = d.inbox /\ e.attempt = d.attempt /\ e.res = res /\ e.from = from
    BY DEF QueryRecord
  <2> HIDE DEF e
  <2>8. \A p \in PoolQueries : query'[p] = IF p = q THEN e ELSE query[p]
    BY <1>0, <2>4 DEF PoolTypes
  <2>9. Moves(q)
    BY <2>1, <2>2, <2>6, <2>7, <2>8 DEF Moves
  <2>10. \A p \in PoolQueries : Moves(p)
    BY <1>0, <1>1, <2>8, <2>9, OthersMove
  <2> QED BY <1>0, <2>2, <2>10, NothingSent
<1>5. ASSUME query' = query, wire' = wire, conn' = conn \/ \E c \in Conns : GoesQuiet(c) PROVE RoundInv' /\ MatchInv'
  <2>1. \A p \in PoolQueries : Moves(p)
    BY <1>1, <1>5 DEF Moves
  <2>2. \A x \in Conns : conn'[x].nextID = conn[x].nextID /\ conn'[x].pending = conn[x].pending /\ conn'[x].dead = conn[x].dead
    <3>1. CASE conn' = conn
      BY <3>1
    <3>2. ASSUME NEW c \in Conns, GoesQuiet(c)
          PROVE  \A x \in Conns : conn'[x].nextID = conn[x].nextID /\ conn'[x].pending = conn[x].pending
                                  /\ conn'[x].dead = conn[x].dead
      <4>1. PICK r \in ConnRecord : conn[c] = r
        BY <1>0 DEF PoolTypes
      <4> DEFINE age == IF r.age = "warm" THEN "suspect" ELSE "idle"
                 k   == [r EXCEPT !.age = age]
      <4>2. conn' = [conn EXCEPT ![c] = k]
        BY <3>2, <4>1 DEF GoesQuiet
      <4> HIDE DEF age
      <4>3. k.nextID = r.nextID /\ k.pending = r.pending /\ k.dead = r.dead
        BY DEF ConnRecord
      <4> HIDE DEF k
      <4>4. \A x \in Conns : conn'[x] = IF x = c THEN k ELSE conn[x]
        BY <1>0, <4>2 DEF PoolTypes
      <4> QED BY <4>1, <4>3, <4>4
    <3> QED BY <1>5, <3>1, <3>2
  <2> QED BY <1>0, <1>5, <2>1, <2>2, NothingSent
<1>6. ASSUME NEW c \in Conns, GoesQuiet(c) PROVE query' = query /\ wire' = wire
  BY <1>6 DEF GoesQuiet
<1>7. ASSUME CeilingEnds \/ BackoffEnds PROVE query' = query /\ wire' = wire /\ conn' = conn
  BY <1>7 DEF CeilingEnds, BackoffEnds
<1> QED BY <1>2, <1>3, <1>4, <1>5, <1>6, <1>7

LEMMA TimesOutReplies ==
  ASSUME PoolIInv, PoolIInv', FewTries, RoundInv, MatchInv, NEW q \in PoolQueries, TimesOut(q)
  PROVE  RoundInv' /\ MatchInv'
<1>0. PoolTypes /\ PoolTypes' /\ PlaceInv /\ ChannelInv
  BY PoolParts DEF PoolIInv
<1>1. PICK d \in QueryRecord : query[q] = d
  BY <1>0 DEF PoolTypes
<1>2. d.at = "sent" /\ d.conn \in Conns
  BY <1>0, <1>1 DEF TimesOut, PlaceInv, Holds
<1>3. PICK c \in Conns : c = d.conn
  BY <1>2
<1>4. PICK r \in ConnRecord : conn[c] = r
  BY <1>0 DEF PoolTypes
<1> DEFINE w   == {p \in r.pending : p[1] # d.id}
           k   == [r EXCEPT !.pending = w]
           cut == [conn EXCEPT ![c] = k]
<1>5. /\ conn' = (IF d.suspect THEN Fails(cut, c, "closed") ELSE cut)
      /\ query' = [(IF d.suspect /\ Alive(c) THEN Told(query, c) ELSE query)
                       EXCEPT ![q].at = "held", ![q].res = "timeout", ![q].inbox = <<>>]
      /\ wire' \subseteq wire
  BY <1>1, <1>3, <1>4 DEF TimesOut
<1>6. w \in Waiters /\ w \subseteq r.pending
  BY DEF ConnRecord, Waiters
<1> HIDE DEF w
<1>7. k \in ConnRecord /\ k.pending = w /\ k.nextID = r.nextID /\ k.dead = r.dead
  BY <1>6 DEF ConnRecord
<1> HIDE DEF k
<1>8. cut \in [Conns -> ConnRecord] /\ \A x \in Conns : cut[x] = IF x = c THEN k ELSE conn[x]
  BY <1>0, <1>7 DEF PoolTypes
<1> HIDE DEF cut
<1>9. \A x \in Conns : cut[x].nextID = conn[x].nextID /\ cut[x].pending \subseteq conn[x].pending /\ cut[x].dead = conn[x].dead
  BY <1>4, <1>6, <1>7, <1>8
<1>10. \A x \in Conns : /\ conn'[x].nextID = conn[x].nextID /\ conn'[x].pending \subseteq conn[x].pending
                        /\ (conn'[x].dead = "unborn" => conn[x].dead = "unborn")
  <2>1. CASE d.suspect
    <3>1. \A x \in Conns : /\ conn'[x].nextID = cut[x].nextID /\ conn'[x].pending \subseteq cut[x].pending
                           /\ (conn'[x].dead = "unborn" => cut[x].dead = "unborn")
      BY <1>5, <1>8, <2>1, FailsLess
    <3> QED BY <1>9, <3>1
  <2>2. CASE ~d.suspect
    BY <1>5, <1>9, <2>2
  <2> QED BY <2>1, <2>2
<1>11. PICK old \in [PoolQueries -> QueryRecord] :
         /\ old = (IF d.suspect /\ Alive(c) THEN Told(query, c) ELSE query)
         /\ \A p \in PoolQueries :
              /\ old[p].at = query[p].at /\ old[p].attempt = query[p].attempt
              /\ old[p].res = query[p].res /\ old[p].from = query[p].from
              /\ old[p].inbox \in {query[p].inbox, <<NoQuery>>}
              /\ query[p].at = "done" => old[p].inbox = <<>>
  <2>0. \A p \in PoolQueries : query[p].at = "done" => query[p].inbox = <<>> /\ ~\E x \in conn[c].pending : x[2] = p
    BY <1>0 DEF ChannelInv
  <2>1. CASE d.suspect /\ Alive(c)
    <3>1. /\ Told(query, c) \in [PoolQueries -> QueryRecord]
          /\ \A p \in PoolQueries :
            /\ Told(query, c)[p].at = query[p].at /\ Told(query, c)[p].attempt = query[p].attempt
            /\ Told(query, c)[p].res = query[p].res /\ Told(query, c)[p].from = query[p].from
            /\ Told(query, c)[p].inbox = IF \E x \in conn[c].pending : x[2] = p THEN <<NoQuery>> ELSE query[p].inbox
      BY <1>0, ToldIs
    <3>2. \A p \in PoolQueries : /\ Told(query, c)[p].inbox \in {query[p].inbox, <<NoQuery>>}
                                 /\ query[p].at = "done" => Told(query, c)[p].inbox = <<>>
      BY <2>0, <3>1
    <3> QED BY <2>1, <3>1, <3>2
  <2>2. CASE ~(d.suspect /\ Alive(c))
    BY <1>0, <2>0, <2>2 DEF PoolTypes
  <2> QED BY <2>1, <2>2
<1>12. PICK t \in QueryRecord : old[q] = t
  OBVIOUS
<1> DEFINE e == [t EXCEPT !.at = "held", !.res = "timeout", !.inbox = <<>>]
<1>13. query' = [old EXCEPT ![q] = e]
  BY <1>5, <1>11, <1>12
<1>14. e.at = "held" /\ e.inbox = <<>> /\ e.attempt = t.attempt /\ e.res = "timeout"
  BY DEF QueryRecord
<1> HIDE DEF e
<1>15. \A p \in PoolQueries : query'[p] = IF p = q THEN e ELSE old[p]
  BY <1>13
<1>16. Moves(q)
  BY <1>1, <1>2, <1>11, <1>12, <1>14, <1>15 DEF Moves
<1>17. \A p \in PoolQueries : Moves(p)
  BY <1>0, <1>11, <1>15, <1>16, OthersMove
<1> QED BY <1>0, <1>5, <1>10, <1>17, NothingSent

-----------------------------------------------------------------------------
(* What holds of the pool.                                                 *)

LEMMA PoolStep == PoolIInv /\ OwnIDs /\ [PpNext]_ppVars => PoolIInv' /\ OwnIDs'
<1> SUFFICES ASSUME PoolIInv, OwnIDs, [PpNext]_ppVars PROVE PoolIInv' /\ OwnIDs'
  OBVIOUS
<1>1. ASSUME NEW q \in PoolQueries, exchange(q) PROVE PoolIInv' /\ OwnIDs'
  <2>1. CASE get(q) \/ DialFails(q) \/ PoolIsBusy(q)
    <3>1. PoolIInv'
      BY <2>1, GetKeeps, DialFailsKeeps, PoolIsBusyKeeps
    <3> QED BY <2>1, <3>1, LooksReplies
  <2>2. CASE DialSucceeds(q)
    <3>1. PoolIInv'
      BY <2>2, DialSucceedsKeeps
    <3> QED BY <2>2, <3>1, DialReplies
  <2>3. CASE Sends(q)
    BY <2>3, SendsKeeps
  <2>4. CASE Receives(q)
    BY <2>4, ReceivesKeeps
  <2>5. CASE TimesOut(q)
    BY <2>5, TimesOutKeeps
  <2>6. CASE release(q)
    BY <2>6, ReleaseKeeps
  <2> QED BY <1>1, <2>1, <2>2, <2>3, <2>4, <2>5, <2>6 DEF exchange
<1>2. ASSUME NEW m \in wire, readLoop(m) PROVE PoolIInv' /\ OwnIDs'
  BY <1>2, ReadLoopKeeps
<1>3. ASSUME NEW c \in Conns, fail(c) PROVE PoolIInv' /\ OwnIDs'
  BY <1>3, FailKeeps
<1>4. ASSUME NEW c \in Conns, GoesQuiet(c) PROVE PoolIInv' /\ OwnIDs'
  BY <1>4, GoesQuietKeeps
<1>5. ASSUME CeilingEnds \/ BackoffEnds PROVE PoolIInv' /\ OwnIDs'
  <2>1. PoolIInv' /\ conn' = conn
    BY <1>5, ForgetsKeeps
  <2> QED BY <2>1, OwnIDsKept
<1>6. CASE UNCHANGED ppVars
  <2>1. UNCHANGED <<conns, dialing, backoff, limit, learned, grown, ceiling, conn, wire, query>>
    BY <1>6 DEF ppVars
  <2>2. PoolTypes' /\ PlaceInv' /\ ChannelInv' /\ CutInv'
    BY <2>1, PoolParts DEF PoolTypes, PlaceInv, ChannelInv, CutInv
  <2>3. SlotInv'
    BY <2>1, PoolParts, SlotsKept
  <2>4. WaitersInv'
    BY <2>1, PoolParts, LimitsKept, WaitKept DEF OnGone, Alive
  <2> QED BY <2>1, <2>2, <2>3, <2>4, OwnIDsKept DEF PoolIInv
<1> QED BY <1>1, <1>2, <1>3, <1>4, <1>5, <1>6 DEF PpNext

\* The step of replies, while IDs do not come round.
LEMMA RepliesStep ==
  ASSUME FewTries, PoolIInv, PoolIInv', OwnIDs, RoundInv, MatchInv, [PpNext]_ppVars
  PROVE  RoundInv' /\ MatchInv'
<1>1. ASSUME NEW q \in PoolQueries, exchange(q) PROVE RoundInv' /\ MatchInv'
  BY <1>1, LooksReplies, DialReplies, SendsReplies, HearsReplies, TimesOutReplies, ReleaseReplies DEF exchange
<1>2. CASE (\E m \in wire : readLoop(m)) \/ (\E c \in Conns : fail(c) \/ GoesQuiet(c)) \/ CeilingEnds \/ BackoffEnds
  BY <1>2, HearsReplies
<1>3. CASE UNCHANGED ppVars
  <2>1. UNCHANGED <<conn, wire, query>>
    BY <1>3 DEF ppVars
  <2>2. PoolTypes /\ PoolTypes' /\ ChannelInv
    BY PoolParts DEF PoolIInv
  <2>3. \A p \in PoolQueries : Moves(p)
    BY <2>1, <2>2 DEF Moves, ChannelInv
  <2> QED BY <2>1, <2>2, <2>3, NothingSent
<1> QED BY <1>1, <1>2, <1>3 DEF PpNext

\* What the invariant says of the pool.
LEMMA PoolMeans ==
  PoolIInv /\ OwnIDs => /\ LoadIsSlots /\ LimitLearned /\ NoneStranded
                        /\ \A q \in PoolQueries : Len(query[q].inbox) <= 1
                        /\ \A c \in Conns : \A p \in conn[c].pending :
                             query[p[2]].at = "sent" /\ query[p[2]].conn = c /\ query[p[2]].id = p[1]
<1> SUFFICES ASSUME PoolIInv, OwnIDs
             PROVE  /\ LoadIsSlots /\ LimitLearned /\ NoneStranded
                    /\ \A q \in PoolQueries : Len(query[q].inbox) <= 1
                    /\ \A c \in Conns : \A p \in conn[c].pending :
                         query[p[2]].at = "sent" /\ query[p[2]].conn = c /\ query[p[2]].id = p[1]
  OBVIOUS
<1>1. PoolTypes /\ ChannelInv /\ SlotInv /\ CutInv /\ WaitersInv
  BY PoolParts
<1>2. LoadIsSlots
  BY <1>1 DEF SlotInv, LoadIsSlots
<1>3. LimitLearned
  BY <1>1 DEF CutInv, LimitLearned, PoolTypes
<1>4. NoneStranded
  BY <1>1 DEF WaitersInv, NoneStranded, OnGone, Holds
<1>5. ASSUME NEW q \in PoolQueries PROVE Len(query[q].inbox) <= 1
  <2>1. query[q].inbox \in Inboxes
    BY <1>1 DEF PoolTypes, QueryRecord
  <2>2. query[q].inbox = <<>> \/ \E x \in PoolQueries \cup {NoQuery} : query[q].inbox = <<x>>
    BY <2>1 DEF Inboxes
  <2>3. \A x : Len(<<x>>) = 1
    OBVIOUS
  <2>4. Len(<<>>) = 0
    OBVIOUS
  <2>5. Len(query[q].inbox) = 0 \/ Len(query[q].inbox) = 1
    <3>1. CASE query[q].inbox = <<>>
      BY <2>4, <3>1
    <3>2. ASSUME NEW x, query[q].inbox = <<x>> PROVE Len(query[q].inbox) = 1
      BY <2>3, <3>2
    <3> QED BY <2>2, <3>1, <3>2
  <2> DEFINE l == Len(query[q].inbox)
  <2>6. l = 0 \/ l = 1
    BY <2>5
  <2> HIDE DEF l
  <2>7. l <= 1
    BY <2>6
  <2> QED BY <2>7 DEF l
<1> QED BY <1>1, <1>2, <1>3, <1>4, <1>5 DEF ChannelInv

\* Of the pool in every state: a slot is held by exactly the queries that use
\* the connection, a dropped connection lowers the limit once and the limit
\* stays below what failed, no query waits that need not, a channel gets one
\* message, and whoever waits on a connection does so under an ID of its own
\* (get, exchange, readLoop, fail, release).
THEOREM PoolHolds ==
  PpSpec => [](/\ LoadIsSlots /\ LimitLearned /\ NoneStranded /\ OwnIDs
               /\ \A q \in PoolQueries : Len(query[q].inbox) <= 1
               /\ \A c \in Conns : \A p \in conn[c].pending :
                    query[p[2]].at = "sent" /\ query[p[2]].conn = c /\ query[p[2]].id = p[1])
<1>1. PpInit => PoolIInv /\ OwnIDs
  BY PoolStart DEF PpInit, OwnIDs, NewConn
<1> QED BY <1>1, PoolStep, PoolMeans, PTL DEF PpSpec

\* A reply goes to the query that asked, as long as no more messages are sent
\* than there are IDs: readLoop matches by the ID alone, so a late reply finds
\* the query whose ID came round.
THEOREM RepliesFindTheirQuery == ASSUME FewTries PROVE PpSpec => []PoolInv
<1>1. PpInit => PoolIInv /\ OwnIDs
  BY PoolStart DEF PpInit, OwnIDs, NewConn
<1>2. PpInit => RoundInv /\ MatchInv
  <2> SUFFICES ASSUME PpInit PROVE RoundInv /\ MatchInv
    OBVIOUS
  <2>1. PoolTypes
    BY PoolStart DEF PoolIInv
  <2>2. MatchInv
    BY DEF PpInit, MatchInv, Fresh
  <2>3. Cardinality(Sent) \in Nat
    BY <2>1, SentIsFew
  <2>4. ASSUME NEW c \in Conns
        PROVE  InUse(c) = {} /\ conn[c].nextID = (FirstID + 0) % IDCount
    <3>1. conn[c].nextID = FirstID /\ conn[c].pending = {} /\ wire = {}
      BY DEF PpInit, NewConn
    <3>2. (FirstID + 0) % IDCount = FirstID
      BY PoolNumbers DEF IDs
    <3> QED BY <3>1, <3>2 DEF InUse, Used
  <2>5. RoundInv
    <3>1. 0 \in Nat /\ 0 <= Cardinality(Sent)
      BY <2>3
    <3> QED BY <2>4, <3>1 DEF RoundInv
  <2> QED BY <2>2, <2>5
<1>3. PoolIInv /\ OwnIDs /\ RoundInv /\ MatchInv /\ [PpNext]_ppVars => PoolIInv' /\ OwnIDs' /\ RoundInv' /\ MatchInv'
  BY PoolStep, RepliesStep
<1>4. PoolIInv /\ OwnIDs /\ MatchInv => PoolInv
  <2> SUFFICES ASSUME PoolIInv, OwnIDs, MatchInv PROVE PoolInv
    OBVIOUS
  <2>1. RepliesReachTheirQuery
    BY PoolMeans DEF MatchInv, RepliesReachTheirQuery
  <2> QED BY <2>1, PoolMeans DEF PoolInv
<1> QED BY <1>1, <1>2, <1>3, <1>4, PTL DEF PpSpec
=============================================================================
