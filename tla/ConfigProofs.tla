--------------------------- MODULE ConfigProofs ---------------------------
(* Proofs about how the control plane keeps what an administrator           *)
(* configures: the version cache its readers poll (VersionCache), the rules *)
(* and rule lists (RuleLists), the rewrites, forwarders and sites           *)
(* (ScopedConfig) and the stored settings (LiveSettings).                   *)
EXTENDS VersionCache, RuleLists, ScopedConfig, LiveSettings, FiniteSetTheorems, SequenceTheorems, TLAPS

LEMMA InitTypeOK == Init => TypeOK
BY CacheAssumption DEF Init, TypeOK, Zero, Empty, View, Tables

LEMMA WriterTypeOK ==
  ASSUME TypeOK, NEW w \in Writers,
         CommitNothing(w) \/ Bump(w) \/ \E t \in Tables : Commit(w, t)
  PROVE  TypeOK'
<1>1. UNCHANGED <<cache, reader>>
  BY DEF CommitNothing, Bump, Commit
<1>2. /\ tables' \in View /\ gen' \in 0 .. MaxGen /\ writing' \subseteq Writers
      /\ floorAt' \in [0 .. MaxGen -> View]
  <2>1. CASE CommitNothing(w)
    BY <2>1 DEF CommitNothing, TypeOK
  <2>2. CASE Bump(w)
    <3>1. gen + 1 \in 0 .. MaxGen
      BY <2>2, CacheAssumption DEF Bump, TypeOK
    <3> QED BY <2>2, <3>1 DEF Bump, TypeOK
  <2>3. ASSUME NEW t \in Tables, Commit(w, t)
        PROVE  /\ tables' \in View /\ writing' \subseteq Writers
               /\ UNCHANGED <<gen, floorAt>>
    BY <2>3 DEF Commit, TypeOK, View
  <2> QED BY <2>1, <2>2, <2>3 DEF TypeOK
<1> QED BY <1>1, <1>2 DEF TypeOK, cache, reader

LEMMA ReaderTypeOK == ASSUME TypeOK, NEW r \in Readers, ReaderStep(r) PROVE TypeOK'
<1> USE DEF TypeOK, Step
<1>1. Zero \in View /\ Empty \in [Keys -> View \cup {NoAnswer}] /\ 0 \in 0 .. NTables
  BY CacheAssumption DEF Zero, Empty, View
<1>2. ASSUME NEW keys \in SUBSET Keys, NEW lookup \in BOOLEAN, Begin(r, keys, lookup) PROVE TypeOK'
  BY <1>1, <1>2 DEF Begin, store, cache
<1>3. ASSUME NEW k \in Keys, Get(r, k) PROVE TypeOK'
  <2>1. cacheGen' \in 0 .. MaxGen /\ entries' \in [Keys -> View \cup {NoAnswer}]
    BY <1>1, <1>3 DEF Get, cache
  <2>2. answer' \in [Readers -> [Keys -> View \cup {NoAnswer}]]
    <3>1. entries[k] \in View \cup {NoAnswer}
      OBVIOUS
    <3> DEFINE f == [answer[r] EXCEPT ![k] = entries[k]]
    <3>2. answer' = [answer EXCEPT ![r] = f] \/ UNCHANGED answer
      BY <1>3 DEF Get
    <3>3. f \in [Keys -> View \cup {NoAnswer}]
      BY <3>1
    <3> HIDE DEF f
    <3> QED BY <3>2, <3>3
  <2>3. todo' \in [Readers -> SUBSET Keys] /\ missing' \in [Readers -> SUBSET Keys]
    <3>1. todo[r] \ {k} \in SUBSET Keys /\ missing[r] \cup {k} \in SUBSET Keys
      OBVIOUS
    <3>2. /\ todo' = [todo EXCEPT ![r] = todo[r] \ {k}]
          /\ missing' = [missing EXCEPT ![r] = missing[r] \cup {k}] \/ UNCHANGED missing
      BY <1>3 DEF Get
    <3> QED BY <3>1, <3>2
  <2> QED BY <1>3, <2>1, <2>2, <2>3 DEF Get, store
<1>4. ASSUME NEW k \in Keys, Put(r, k) PROVE TypeOK'
  <2>1. data[r] \in View
    OBVIOUS
  <2>2. cacheGen' \in 0 .. MaxGen /\ entries' \in [Keys -> View \cup {NoAnswer}]
    <3> DEFINE base == IF cacheGen = readGen[r] THEN entries ELSE Empty
    <3>1. base \in [Keys -> View \cup {NoAnswer}]
      BY <1>1
    <3>2. \/ cacheGen' = readGen[r] /\ entries' = [base EXCEPT ![k] = data[r]]
          \/ UNCHANGED cache
      BY <1>4 DEF Put
    <3>3. readGen[r] \in 0 .. MaxGen /\ cacheGen \in 0 .. MaxGen
      OBVIOUS
    <3> HIDE DEF base
    <3>4. [base EXCEPT ![k] = data[r]] \in [Keys -> View \cup {NoAnswer}]
      BY <2>1, <3>1
    <3> QED BY <3>2, <3>3, <3>4 DEF cache
  <2>3. answer' \in [Readers -> [Keys -> View \cup {NoAnswer}]]
    BY <1>4, <2>1 DEF Put
  <2> QED BY <1>4, <2>2, <2>3 DEF Put, store
<1>5. CASE Load(r)
  <2>1. at[r] + 1 \in 0 .. NTables /\ at[r] + 1 \in Tables
    BY <1>5, CacheAssumption DEF Load, Tables
  <2>2. data' \in [Readers -> View]
    BY <1>5, <2>1 DEF Load, View
  <2> QED BY <1>5, <2>1, <2>2 DEF Load, store, cache
<1>6. CASE Looked(r) \/ LoadFails(r) \/ Reread(r) \/ Finish(r)
  BY <1>6 DEF Looked, LoadFails, Reread, Finish, store, cache
<1> QED BY <1>2, <1>3, <1>4, <1>5, <1>6 DEF ReaderStep

LEMMA NextTypeOK == TypeOK /\ [Next]_vars => TypeOK'
<1>1. ASSUME TypeOK, UNCHANGED vars PROVE TypeOK'
  BY <1>1 DEF vars, store, cache, reader, TypeOK
<1> QED BY <1>1, WriterTypeOK, ReaderTypeOK DEF Next

\* Every variable keeps its type, in every behaviour.
THEOREM TypeCorrect == Spec => []TypeOK
BY InitTypeOK, NextTypeOK, PTL DEF Spec

-----------------------------------------------------------------------------
CacheInv == GenInv /\ DataInv /\ EntryInv /\ OnceInv /\ AnswersFresh

LEMMA AtLeastFacts ==
  /\ \A v \in View : AtLeast(v, v) /\ AtLeast(v, Zero)
  /\ \A u, v, w \in View : AtLeast(u, v) /\ AtLeast(v, w) => AtLeast(u, w)
<1>1. \A v \in View : AtLeast(v, v) /\ AtLeast(v, Zero)
  BY DEF View, AtLeast, Zero
<1>2. ASSUME NEW u \in View, NEW v \in View, NEW w \in View, AtLeast(u, v), AtLeast(v, w),
             NEW t \in Tables
      PROVE  w[t] <= u[t]
  <2>1. u[t] \in Nat /\ v[t] \in Nat /\ w[t] \in Nat
    BY DEF View
  <2> QED BY <1>2, <2>1 DEF AtLeast
<1> QED BY <1>1, <1>2 DEF AtLeast

LEMMA InitCacheInv == Init => CacheInv
<1> SUFFICES ASSUME Init PROVE CacheInv
  OBVIOUS
<1>1. Zero \in View
  BY DEF Zero, View
<1>2. \A r \in Readers : 1 .. at[r] = {}
  <2>1. \A r \in Readers : at[r] = 0
    BY DEF Init
  <2>2. 1 .. 0 = {}
    OBVIOUS
  <2> QED BY <2>1, <2>2
<1> QED
  BY <1>1, <1>2, AtLeastFacts, CacheAssumption
  DEF Init, CacheInv, GenInv, DataInv, EntryInv, OnceInv, AnswersFresh, Empty

\* A write leaves everything known of the tables' past as it was.
LEMMA WriterCacheInv ==
  ASSUME TypeOK, CacheInv, NEW w \in Writers,
         CommitNothing(w) \/ Bump(w) \/ \E t \in Tables : Commit(w, t)
  PROVE  CacheInv'
<1>1. UNCHANGED <<cache, reader>>
  BY DEF CommitNothing, Bump, Commit
<1>2. tables' \in View /\ tables \in View /\ AtLeast(tables', tables)
  <2>1. tables' \in View /\ tables \in View
    BY WriterTypeOK DEF TypeOK
  <2>2. ASSUME NEW t \in Tables, Commit(w, t) PROVE AtLeast(tables', tables)
    BY <2>1, <2>2 DEF Commit, AtLeast, View
  <2>3. CASE UNCHANGED tables
    BY <2>1, <2>3, AtLeastFacts
  <2> QED BY <2>1, <2>2, <2>3 DEF CommitNothing, Bump
<1>3. \A v \in View : AtLeast(tables, v) => AtLeast(tables', v)
  BY <1>2, AtLeastFacts
<1>4. /\ gen \in Nat /\ gen <= gen' /\ gen' \in 0 .. MaxGen
      /\ \A g \in 0 .. gen : floorAt'[g] = floorAt[g]
  <2>1. gen \in 0 .. MaxGen /\ gen' \in 0 .. MaxGen /\ MaxGen \in Nat
    BY WriterTypeOK, CacheAssumption DEF TypeOK
  <2>2. CASE Bump(w)
    BY <2>1, <2>2 DEF Bump, TypeOK
  <2>3. CASE UNCHANGED <<gen, floorAt>>
    BY <2>1, <2>3
  <2> QED BY <2>2, <2>3 DEF CommitNothing, Commit
<1>5. cacheGen \in 0 .. gen /\ \A r \in Readers : readGen[r] \in 0 .. gen
  BY DEF CacheInv, GenInv, TypeOK
<1>6. GenInv'
  <2>1. \A g \in 0 .. MaxGen : AtLeast(tables', floorAt'[g])
    <3> SUFFICES ASSUME NEW g \in 0 .. MaxGen PROVE AtLeast(tables', floorAt'[g])
      OBVIOUS
    <3>1. floorAt[g] \in View /\ AtLeast(tables, floorAt[g])
      BY DEF TypeOK, CacheInv, GenInv
    <3>2. floorAt'[g] = floorAt[g] \/ floorAt'[g] = tables
      BY <3>1 DEF TypeOK, CommitNothing, Bump, Commit
    <3> QED BY <1>2, <1>3, <3>1, <3>2
  <2>2. writing' = {} => tables' = floorAt'[gen']
    <3>1. CASE Bump(w)
      BY <1>4, <3>1 DEF Bump, TypeOK
    <3>2. CASE ~Bump(w)
      BY <3>2 DEF CommitNothing, Commit
    <3> QED BY <3>1, <3>2
  <2>3. cacheGen' <= gen' /\ \A r \in Readers : readGen'[r] <= gen'
    BY <1>1, <1>4, <1>5 DEF cache, reader
  <2> QED BY <2>1, <2>2, <2>3 DEF GenInv
<1>7. DataInv'
  <2>1. \A r \in Readers : data[r] \in View /\ AtLeast(tables, data[r])
    BY DEF TypeOK, CacheInv, DataInv
  <2> QED BY <1>1, <1>3, <1>4, <1>5, <2>1 DEF CacheInv, DataInv, reader
<1>8. EntryInv'
  <2>1. \A k \in Keys : entries[k] # NoAnswer => entries[k] \in View
    BY DEF TypeOK
  <2> QED BY <1>1, <1>3, <1>4, <1>5, <2>1 DEF CacheInv, EntryInv, cache
<1>9. AnswersFresh'
  <2>1. \A r \in Readers : \A k \in Keys : answer[r][k] # NoAnswer => answer[r][k] \in View
    BY DEF TypeOK
  <2> QED BY <1>1, <1>3, <1>4, <1>5, <2>1 DEF CacheInv, AnswersFresh, reader
<1>10. OnceInv'
  BY <1>1 DEF CacheInv, OnceInv, reader
<1> QED BY <1>6, <1>7, <1>8, <1>9, <1>10 DEF CacheInv

LEMMA ReaderCacheInv == ASSUME TypeOK, CacheInv, NEW r \in Readers, ReaderStep(r) PROVE CacheInv'
<1>0. TypeOK'
  BY ReaderTypeOK
<1>1. UNCHANGED store
  BY DEF ReaderStep, Begin, Get, Put, Looked, Load, LoadFails, Reread, Finish
<1>2. \A q \in Readers \ {r} : /\ readGen'[q] = readGen[q] /\ data'[q] = data[q] /\ at'[q] = at[q]
                               /\ pc'[q] = pc[q] /\ answer'[q] = answer[q]
                               /\ todo'[q] = todo[q] /\ missing'[q] = missing[q]
  BY DEF ReaderStep, Begin, Get, Put, Looked, Load, LoadFails, Reread, Finish, Step, TypeOK
<1>3. readGen[r] <= gen /\ readGen'[r] <= gen /\ cacheGen' <= gen
  BY DEF ReaderStep, Begin, Get, Put, Looked, Load, LoadFails, Reread, Finish, cache,
         TypeOK, CacheInv, GenInv
<1>4. GenInv'
  BY <1>1, <1>2, <1>3 DEF CacheInv, GenInv, store
\* What must be shown of the reader itself.
<1>5. ASSUME AtLeast(tables, data'[r]),
             \A t \in 1 .. at'[r] : floorAt[readGen'[r]][t] <= data'[r][t],
             pc'[r] = "put" => at'[r] = NTables
      PROVE  DataInv'
  BY <1>1, <1>2, <1>5 DEF CacheInv, DataInv, store
<1>6. ASSUME \A k \in Keys : answer'[r][k] # NoAnswer =>
               AtLeast(answer'[r][k], floorAt[readGen'[r]]) /\ AtLeast(tables, answer'[r][k])
      PROVE  AnswersFresh'
  BY <1>1, <1>2, <1>6 DEF CacheInv, AnswersFresh, store
<1>7. ASSUME todo'[r] \cap missing'[r] = {},
             \A k \in todo'[r] \cup missing'[r] : answer'[r][k] = NoAnswer
      PROVE  OnceInv'
  BY <1>2, <1>7 DEF CacheInv, OnceInv
<1>8. data[r] \in View /\ tables \in View /\ floorAt[readGen[r]] \in View
  BY DEF TypeOK
<1>9. ASSUME NEW keys \in SUBSET Keys, NEW lookup \in BOOLEAN, Begin(r, keys, lookup)
      PROVE  CacheInv'
  <2>1. /\ data'[r] = Zero /\ at'[r] = 0 /\ pc'[r] = "lookup" /\ answer'[r] = Empty
        /\ todo'[r] \cap missing'[r] = {}
    BY <1>9 DEF Begin, Step, TypeOK
  <2>2. 1 .. 0 = {}
    OBVIOUS
  <2>3. DataInv'
    BY <1>5, <1>8, <2>1, <2>2, AtLeastFacts
  <2>4. AnswersFresh' /\ OnceInv'
    BY <1>6, <1>7, <1>9, <2>1 DEF Empty, Begin, TypeOK
  <2>5. EntryInv'
    BY <1>1, <1>9 DEF Begin, CacheInv, EntryInv, store, cache
  <2> QED BY <1>4, <2>3, <2>4, <2>5 DEF CacheInv
<1>10. ASSUME NEW k \in Keys, Get(r, k) PROVE CacheInv'
  <2>1. UNCHANGED <<pc, readGen, data, at>> /\ todo'[r] = todo[r] \ {k}
    BY <1>10 DEF Get, TypeOK
  <2>2. DataInv'
    BY <1>1, <2>1 DEF CacheInv, DataInv, store
  <2>3. CASE cacheGen = readGen[r] /\ entries[k] # NoAnswer /\ UNCHANGED <<cache, missing>>
             /\ answer' = [answer EXCEPT ![r][k] = entries[k]]
    <3>1. EntryInv'
      BY <1>1, <2>3 DEF CacheInv, EntryInv, store, cache
    <3>2. answer'[r] = [answer[r] EXCEPT ![k] = entries[k]] /\ answer[r] \in [Keys -> View \cup {NoAnswer}]
      BY <2>3 DEF TypeOK
    <3>3. AnswersFresh'
      BY <1>6, <2>1, <2>3, <3>2 DEF CacheInv, AnswersFresh, EntryInv
    <3>4. OnceInv'
      BY <1>7, <1>10, <2>1, <2>3, <3>2 DEF CacheInv, OnceInv, Get, TypeOK
    <3> QED BY <1>4, <2>2, <3>1, <3>3, <3>4 DEF CacheInv
  <2>4. CASE /\ missing' = [missing EXCEPT ![r] = @ \cup {k}] /\ UNCHANGED answer
             /\ cacheGen' = IF readGen[r] > cacheGen THEN readGen[r] ELSE cacheGen
             /\ entries' = IF readGen[r] > cacheGen THEN Empty ELSE entries
    <3>1. EntryInv'
      BY <1>1, <2>4 DEF CacheInv, EntryInv, store, Empty
    <3>2. AnswersFresh'
      BY <1>1, <2>1, <2>4 DEF CacheInv, AnswersFresh, store
    <3>3. missing'[r] = missing[r] \cup {k} /\ k \in todo[r]
      BY <1>10, <2>4 DEF Get, TypeOK
    <3>4. OnceInv'
      BY <1>7, <2>1, <2>4, <3>3 DEF CacheInv, OnceInv
    <3> QED BY <1>4, <2>2, <3>1, <3>2, <3>4 DEF CacheInv
  <2> QED BY <1>10, <2>3, <2>4 DEF Get
<1>11. ASSUME NEW k \in Keys, Put(r, k) PROVE CacheInv'
  <2>1. UNCHANGED <<pc, readGen, data, at, todo>> /\ missing'[r] = missing[r] \ {k}
    BY <1>11 DEF Put, TypeOK
  <2>2. DataInv'
    BY <1>1, <2>1 DEF CacheInv, DataInv, store
  <2>3. AtLeast(data[r], floorAt[readGen[r]]) /\ AtLeast(tables, data[r])
    BY <1>11 DEF Put, CacheInv, DataInv, AtLeast, Tables
  <2>4. answer'[r] = [answer[r] EXCEPT ![k] = data[r]] /\ answer[r] \in [Keys -> View \cup {NoAnswer}]
    BY <1>11 DEF Put, TypeOK
  <2>5. AnswersFresh'
    BY <1>6, <2>1, <2>3, <2>4 DEF CacheInv, AnswersFresh
  <2>6. OnceInv'
    BY <1>7, <2>1, <2>4, <1>11 DEF CacheInv, OnceInv, Put, TypeOK
  <2>7. EntryInv'
    <3>1. CASE UNCHANGED cache
      BY <1>1, <3>1 DEF CacheInv, EntryInv, store, cache
    <3>2. CASE /\ cacheGen' = readGen[r]
               /\ entries' = [IF cacheGen = readGen[r] THEN entries ELSE Empty EXCEPT ![k] = data[r]]
      <4> SUFFICES ASSUME NEW j \in Keys, entries'[j] # NoAnswer
                   PROVE  AtLeast(entries'[j], floorAt[readGen[r]]) /\ AtLeast(tables, entries'[j])
        BY <1>1, <3>2 DEF EntryInv, store
      <4>1. CASE j = k
        BY <2>3, <3>2, <4>1 DEF TypeOK, Empty
      <4>2. CASE j # k
        <5>1. entries'[j] = entries[j] /\ cacheGen = readGen[r]
          BY <3>2, <4>2 DEF TypeOK, Empty
        <5> QED BY <5>1 DEF CacheInv, EntryInv
      <4> QED BY <4>1, <4>2
    <3> QED BY <1>11, <3>1, <3>2 DEF Put
  <2> QED BY <1>4, <2>2, <2>5, <2>6, <2>7 DEF CacheInv
<1>12. CASE Load(r)
  <2> DEFINE n == at[r] + 1
  <2>1. /\ n \in Tables /\ at'[r] = n /\ data'[r] = [data[r] EXCEPT ![n] = tables[n]]
        /\ UNCHANGED <<cache, pc, readGen, answer, todo, missing>> /\ pc[r] = "load"
    BY <1>12, CacheAssumption DEF Load, TypeOK, Tables
  <2>2. AtLeast(tables, data'[r])
    BY <1>8, <2>1 DEF AtLeast, View, CacheInv, DataInv
  <2>3. \A t \in 1 .. at'[r] : floorAt[readGen'[r]][t] <= data'[r][t]
    <3> SUFFICES ASSUME NEW t \in 1 .. n PROVE floorAt[readGen[r]][t] <= data'[r][t]
      BY <2>1
    <3>1. t \in Tables /\ at[r] \in Nat
      BY <2>1, CacheAssumption DEF Tables, TypeOK
    <3>2. CASE t = n
      <4>1. data'[r][t] = tables[t]
        BY <1>8, <2>1, <3>1, <3>2 DEF View
      <4>2. readGen[r] \in 0 .. MaxGen
        BY DEF TypeOK
      <4> QED BY <3>1, <4>1, <4>2 DEF CacheInv, GenInv, AtLeast
    <3>3. CASE t # n
      <4>1. data'[r][t] = data[r][t] /\ t \in 1 .. at[r]
        BY <1>8, <2>1, <3>1, <3>3 DEF View
      <4> QED BY <4>1 DEF CacheInv, DataInv
    <3> QED BY <3>2, <3>3
  <2>4. DataInv'
    BY <1>5, <2>1, <2>2, <2>3
  <2> QED
    BY <1>1, <1>4, <2>1, <2>4 DEF CacheInv, EntryInv, OnceInv, AnswersFresh, store, cache
<1>13. CASE Looked(r) \/ LoadFails(r) \/ Reread(r) \/ Finish(r)
  <2>1. UNCHANGED <<cache, readGen, data, at, answer, todo, missing>>
    BY <1>13 DEF Looked, LoadFails, Reread, Finish
  <2>2. pc'[r] = "put" => at[r] = NTables
    BY <1>13 DEF Looked, LoadFails, Reread, Finish, Step, TypeOK
  <2>3. DataInv'
    BY <1>1, <1>5, <2>1, <2>2 DEF CacheInv, DataInv
  <2> QED
    BY <1>1, <1>4, <2>1, <2>3 DEF CacheInv, EntryInv, OnceInv, AnswersFresh, store, cache
<1> QED BY <1>9, <1>10, <1>11, <1>12, <1>13 DEF ReaderStep

LEMMA NextCacheInv == TypeOK /\ CacheInv /\ [Next]_vars => CacheInv'
<1>1. ASSUME TypeOK, CacheInv, UNCHANGED vars PROVE CacheInv'
  BY <1>1
  DEF vars, store, cache, reader, CacheInv, GenInv, DataInv, EntryInv, OnceInv, AnswersFresh
<1> QED BY <1>1, WriterCacheInv, ReaderCacheInv DEF Next

LEMMA CacheInvHolds == Spec => [](TypeOK /\ CacheInv)
BY InitTypeOK, InitCacheInv, NextTypeOK, NextCacheInv, PTL DEF Spec

\* No reader is answered contents older than what was published when it began.
THEOREM AnswersAreFresh == Spec => []AnswersFresh
<1>1. CacheInv => AnswersFresh
  BY DEF CacheInv
<1> QED BY <1>1, CacheInvHolds, PTL

\* With no write in flight, an entry of the current generation is current.
THEOREM EntriesAreCurrent == Spec => []EntriesCurrent
<1>1. TypeOK /\ CacheInv => EntriesCurrent
  <2> SUFFICES ASSUME TypeOK, CacheInv, cacheGen = gen, writing = {}, NEW k \in Keys,
                      entries[k] # NoAnswer
               PROVE  entries[k] = tables
    BY DEF EntriesCurrent
  <2>1. AtLeast(entries[k], tables) /\ AtLeast(tables, entries[k])
    BY DEF CacheInv, EntryInv, GenInv
  <2>2. entries[k] \in View /\ tables \in View
    BY DEF TypeOK
  <2>3. ASSUME NEW t \in Tables PROVE entries[k][t] = tables[t]
    BY <2>1, <2>2 DEF AtLeast, View
  <2> QED BY <2>2, <2>3 DEF View
<1> QED BY <1>1, CacheInvHolds, PTL

-----------------------------------------------------------------------------
(* The promise of FreshRead.                                                 *)

LEMMA PromiseInit == Init => Promise!Init
BY CacheAssumption DEF Init, Promise!Init, Zero, Empty, Tables, Promise!Tables

LEMMA PromiseNext ==
  TypeOK /\ TypeOK' /\ CacheInv /\ CacheInv' /\ [Next]_vars => [Promise!Next]_(Promise!vars)
<1> SUFFICES ASSUME TypeOK, TypeOK', CacheInv, CacheInv', [Next]_vars
             PROVE  [Promise!Next]_(Promise!vars)
  OBVIOUS
<1> DEFINE Busy == {r \in Readers : pc[r] # "idle"}
           Since == [r \in Readers |-> floorAt[readGen[r]]]
<1>0. Promise!Tables = Tables /\ Promise!View = View
  BY DEF Promise!Tables, Promise!View, Tables, View
<1>1. ASSUME UNCHANGED <<tables, floorAt, gen, pc, readGen, answer>> PROVE UNCHANGED Promise!vars
  BY <1>1 DEF Promise!vars
<1>2. ASSUME NEW w \in Writers, NEW t \in Tables, Commit(w, t) PROVE Promise!Next
  BY <1>0, <1>2 DEF Commit, cache, reader, Promise!Next, Promise!Commit
<1>3. ASSUME NEW w \in Writers, CommitNothing(w) PROVE UNCHANGED Promise!vars
  BY <1>1, <1>3 DEF CommitNothing, reader
<1>4. ASSUME NEW w \in Writers, Bump(w) PROVE Promise!Next
  <2>1. floorAt'[gen'] = tables /\ UNCHANGED <<tables, pc, answer, readGen>>
    BY <1>4 DEF Bump, reader, TypeOK
  <2>2. \A r \in Readers : floorAt'[readGen[r]] = floorAt[readGen[r]]
    BY <1>4, CacheAssumption DEF Bump, TypeOK, CacheInv, GenInv
  <2>3. Promise!Publish
    BY <2>1, <2>2 DEF Promise!Publish
  <2> QED BY <2>3 DEF Promise!Next
<1>5. ASSUME NEW r \in Readers, NEW keys \in SUBSET Keys, NEW lookup \in BOOLEAN,
             Begin(r, keys, lookup)
      PROVE  Promise!Next
  <2>1. /\ UNCHANGED <<tables, gen, floorAt>> /\ pc[r] = "idle"
        /\ pc' = [pc EXCEPT ![r] = "lookup"]
        /\ readGen' = [readGen EXCEPT ![r] = gen]
        /\ answer' = [answer EXCEPT ![r] = [k \in Keys |-> NoAnswer]]
    BY <1>5 DEF Begin, Step, store, Empty
  <2>2. Busy' = Busy \cup {r} /\ r \notin Busy
    BY <2>1 DEF TypeOK
  <2>3. Since' = [Since EXCEPT ![r] = floorAt[gen]]
    BY <2>1 DEF TypeOK
  <2>4. Promise!Begin(r)
    BY <2>1, <2>2, <2>3 DEF Promise!Begin
  <2> QED BY <2>4 DEF Promise!Next
<1>6. ASSUME NEW r \in Readers, NEW k \in Keys, NEW v, v \in View,
             AtLeast(v, floorAt[readGen[r]]), AtLeast(tables, v),
             pc[r] # "idle", answer[r][k] = NoAnswer,
             answer' = [answer EXCEPT ![r][k] = v],
             UNCHANGED <<tables, floorAt, gen, pc, readGen>>
      PROVE  Promise!Next
  <2>1. answer'[r][k] = v
    BY <1>6 DEF TypeOK
  <2>2. Promise!AtLeast(v, floorAt[readGen[r]]) /\ Promise!AtLeast(tables, v)
    BY <1>0, <1>6 DEF AtLeast, Promise!AtLeast
  <2>3. r \in Busy /\ Since[r] = floorAt[readGen[r]]
    BY <1>6
  <2>4. answer' = [answer EXCEPT ![r][k] = answer'[r][k]]
    BY <1>6, <2>1
  <2>5. /\ UNCHANGED <<tables, floorAt[gen], Busy, Since>>
        /\ answer'[r][k] \in Promise!View
        /\ Promise!AtLeast(answer'[r][k], Since[r]) /\ Promise!AtLeast(tables, answer'[r][k])
    BY <1>0, <1>6, <2>1, <2>2, <2>3
  <2> HIDE DEF Busy, Since
  <2>6. /\ r \in Busy /\ answer[r][k] = NoAnswer
        /\ answer'[r][k] \in Promise!View
        /\ Promise!AtLeast(answer'[r][k], Since[r]) /\ Promise!AtLeast(tables, answer'[r][k])
        /\ answer' = [answer EXCEPT ![r][k] = answer'[r][k]]
        /\ UNCHANGED <<tables, floorAt[gen], Busy, Since>>
    BY <1>6, <2>3, <2>4, <2>5
  <2>7. Promise!Answer(r, k)
    BY <2>6 DEF Promise!Answer, Busy, Since
  <2> QED BY <2>7 DEF Promise!Next
<1>7. ASSUME NEW r \in Readers, NEW k \in Keys, Get(r, k) PROVE [Promise!Next]_(Promise!vars)
  <2>1. CASE /\ cacheGen = readGen[r] /\ entries[k] # NoAnswer
             /\ answer' = [answer EXCEPT ![r][k] = entries[k]]
    <3>1. entries[k] \in View /\ AtLeast(entries[k], floorAt[readGen[r]]) /\ AtLeast(tables, entries[k])
      BY <2>1 DEF TypeOK, CacheInv, EntryInv
    <3>2. answer[r][k] = NoAnswer /\ pc[r] # "idle"
      BY <1>7 DEF Get, CacheInv, OnceInv
    <3> QED BY <1>6, <1>7, <2>1, <3>1, <3>2 DEF Get, store
  <2>2. CASE UNCHANGED answer
    BY <1>1, <1>7, <2>2 DEF Get, store
  <2> QED BY <1>7, <2>1, <2>2 DEF Get
<1>8. ASSUME NEW r \in Readers, NEW k \in Keys, Put(r, k) PROVE Promise!Next
  <2>1. data[r] \in View /\ AtLeast(data[r], floorAt[readGen[r]]) /\ AtLeast(tables, data[r])
    BY <1>8 DEF Put, TypeOK, CacheInv, DataInv, AtLeast, Tables
  <2>2. answer[r][k] = NoAnswer /\ pc[r] # "idle"
    BY <1>8 DEF Put, CacheInv, OnceInv
  <2> QED BY <1>6, <1>8, <2>1, <2>2 DEF Put, store
<1>9. ASSUME NEW r \in Readers, Looked(r) \/ LoadFails(r) \/ Finish(r), pc'[r] = "idle"
      PROVE  Promise!Next
  <2>1. /\ UNCHANGED <<tables, gen, floorAt, readGen, answer>> /\ pc[r] # "idle"
        /\ pc' = [pc EXCEPT ![r] = "idle"]
    BY <1>9 DEF Looked, LoadFails, Finish, Step, store, TypeOK
  <2>2. Busy' = Busy \ {r} /\ r \in Busy
    BY <2>1 DEF TypeOK
  <2>3. Promise!End(r)
    BY <2>1, <2>2 DEF Promise!End
  <2> QED BY <2>3 DEF Promise!Next
<1>10. ASSUME NEW r \in Readers, Looked(r) \/ Load(r) \/ Reread(r), pc'[r] # "idle"
       PROVE  UNCHANGED Promise!vars
  <2>1. UNCHANGED <<tables, gen, floorAt, readGen, answer>> /\ pc[r] # "idle"
    BY <1>10 DEF Looked, Load, Reread, store
  <2>2. \A q \in Readers \ {r} : pc'[q] = pc[q]
    BY <1>10 DEF Looked, Load, Reread, Step, TypeOK
  <2>3. Busy' = Busy
    BY <1>10, <2>1, <2>2
  <2> QED BY <2>1, <2>3 DEF Promise!vars
<1>11. \A r \in Readers : (Load(r) \/ Reread(r) => pc'[r] # "idle")
                          /\ (LoadFails(r) \/ Finish(r) => pc'[r] = "idle")
  BY DEF Load, Reread, LoadFails, Finish, Step, TypeOK
<1>12. CASE UNCHANGED vars
  BY <1>1, <1>12 DEF vars, store, reader
<1> QED
  BY <1>2, <1>3, <1>4, <1>5, <1>7, <1>8, <1>9, <1>10, <1>11, <1>12 DEF Next, ReaderStep

\* The cache implements FreshRead.
THEOREM CacheKeepsPromise == Spec => KeepsPromise
<1>1. TypeOK /\ CacheInv /\ TypeOK' /\ CacheInv' /\ [Next]_vars => [Promise!Next]_(Promise!vars)
  BY PromiseNext
<1> QED
  BY <1>1, PromiseInit, CacheInvHolds, PTL DEF Spec, KeepsPromise, Promise!Spec

-----------------------------------------------------------------------------
-----------------------------------------------------------------------------
(* Rules and rule lists.                                                   *)

Places == {"free", "bulk", "build", "install", "replace", "get", "fetch", "enable", "interval", "mark", "next", "done"}
Job == [at : Places, id : 0 .. MaxLists, keys : SUBSET Rules, todo : SUBSET ListIds, changed : BOOLEAN]
ListRow == [source : {"none", "url", "paste"}, enabled : BOOLEAN, auto : BOOLEAN, due : BOOLEAN]

ListTypes ==
  /\ owner \in [Rules -> {NoRow, ByHand} \cup ListIds]
  /\ lists \in [ListIds -> ListRow] /\ lastList \in 0 .. MaxLists /\ policy \subseteq Rules
  /\ jobs \in [Workers -> Job] /\ applied \in [ListIds -> SUBSET Rules]
  /\ orphaned \subseteq ListIds /\ excuse \in {"none", "raced", "failed"}

\* Ids are given once: no row, list or worker has one that is yet to be given.
Given ==
  /\ \A i \in ListIds : Listed(i) => i <= lastList /\ lists[i].source # "none"
  /\ \A k \in Rules : owner[k] <= lastList
  /\ \A w \in Workers : jobs[w].id <= lastList /\ \A i \in jobs[w].todo : i <= lastList

\* A list that a worker is about to fill is there, or is remembered as removed.
Filling ==
  /\ \A w \in Workers : jobs[w].at \in {"get", "fetch", "replace", "mark", "enable", "interval"} => jobs[w].id \in ListIds
  /\ \A w \in Workers : jobs[w].at \in {"fetch", "replace"} => Listed(jobs[w].id) \/ jobs[w].id \in orphaned
  /\ \A w \in Editors : jobs[w].todo = {}
  /\ \A w \in Workers : jobs[w].at = "free" => ~jobs[w].changed
  /\ \A i \in jobs[Ticker].todo : Listed(i) \/ i \in orphaned

\* A reload that has not read the rules yet.
Due(w)    == jobs[w].at \in {"bulk", "interval", "build"} \/ (jobs[w].changed /\ jobs[w].at # "install")
ReloadDue == \E w \in Workers : Due(w)

\* Without an excuse one reload installs at a time, and it installs what the
\* tables say, unless another is due.
InStep ==
  excuse = "none" =>
    /\ \A w, q \in Workers : At_(w, "install") /\ At_(q, "install") => w = q
    /\ \/ ReloadDue
       \/ policy = ActiveRules /\ \A w \in Workers : ~At_(w, "install")
       \/ \E w \in Workers : At_(w, "install") /\ jobs[w].keys = ActiveRules

ListsIInv == ListTypes /\ Given /\ Filling /\ InStep /\ ListOwnsItsContents /\ NoOrphans

LEMMA ListsIInvImplies == ListsIInv => ListsInv
<1> SUFFICES ASSUME ListsIInv PROVE ListsInv
  OBVIOUS
<1> USE RuleListsConstants
<1>1. RlTypeOK
  <2>1. \A w \in Workers : jobs[w].id \in 0 .. MaxLists /\ jobs[w].keys \subseteq Rules /\ jobs[w].todo \subseteq ListIds
    <3> SUFFICES ASSUME NEW w \in Workers
                 PROVE  jobs[w].id \in 0 .. MaxLists /\ jobs[w].keys \subseteq Rules /\ jobs[w].todo \subseteq ListIds
      OBVIOUS
    <3>1. jobs[w] \in Job
      BY DEF ListsIInv, ListTypes
    <3> QED BY <3>1 DEF Job
  <2>2. \A i \in ListIds : i > lastList => ~Listed(i)
    BY DEF ListsIInv, Given, ListTypes, ListIds
  <2> QED BY <2>1, <2>2 DEF RlTypeOK, ListsIInv, ListTypes, ListRow
<1>2. PolicyInStep
  BY Zenon DEF PolicyInStep, ListsIInv, InStep, ReloadDue, Due, Reloading, At_
<1> QED BY <1>1, <1>2 DEF ListsInv, ListsIInv

LEMMA ListsInit == RlInit => ListsIInv
<1> SUFFICES ASSUME RlInit PROVE ListsIInv
  OBVIOUS
<1> USE RuleListsConstants
<1>1. ListTypes
  <2>1. Free \in Job /\ NoList \in ListRow
    BY DEF Free, NoList, ListRow, Job, Places
  <2>2. lists \in [ListIds -> ListRow]
    BY <2>1 DEF RlInit, ListRow
  <2> QED BY <2>1, <2>2 DEF RlInit, ListTypes, ListIds, ActiveRules, ByHand, NoRow
<1>2. Given /\ Filling /\ InStep
  BY DEF RlInit, Given, Filling, InStep, Listed, Free, NoList, ListIds, At_, Workers, ByHand, NoRow
<1>3. ListOwnsItsContents /\ NoOrphans
  BY DEF RlInit, ListOwnsItsContents, NoOrphans, ListIds, ByHand, NoRow
<1> QED BY <1>1, <1>2, <1>3 DEF ListsIInv

LEMMA JobMoves ==
  ASSUME ListTypes, NEW w \in Workers, NEW e \in Job, jobs' = [jobs EXCEPT ![w] = e]
  PROVE  jobs' \in [Workers -> Job] /\ jobs'[w] = e /\ \A q \in Workers \ {w} : jobs'[q] = jobs[q]
BY DEF ListTypes

\* A worker goes on to another place.
LEMMA JobAt ==
  ASSUME ListTypes, NEW w \in Workers, NEW s \in Places, NEW b \in BOOLEAN, NEW K \in SUBSET Rules,
         jobs' = [jobs EXCEPT ![w].at = s, ![w].keys = K, ![w].changed = b]
  PROVE  \E e \in Job : /\ jobs' = [jobs EXCEPT ![w] = e]
                        /\ e.at = s /\ e.id = jobs[w].id /\ e.todo = jobs[w].todo
                        /\ e.keys = K /\ e.changed = b
<1>1. PICK d \in Job : jobs[w] = d
  BY DEF ListTypes
<1> DEFINE e == [d EXCEPT !.at = s, !.keys = K, !.changed = b]
<1>2. /\ e \in Job /\ e.at = s /\ e.id = d.id /\ e.keys = K /\ e.todo = d.todo
      /\ e.changed = b
  BY DEF Job
<1>3. jobs' = [jobs EXCEPT ![w] = e]
  BY <1>1 DEF ListTypes
<1> QED BY <1>1, <1>2, <1>3

LEMMA JobGoes ==
  ASSUME ListTypes, NEW w \in Workers, NEW s \in Places, Goto(w, s)
  PROVE  \E e \in Job : /\ jobs' = [jobs EXCEPT ![w] = e]
                        /\ e.at = s /\ e.id = jobs[w].id /\ e.todo = jobs[w].todo
                        /\ e.keys = jobs[w].keys /\ e.changed = jobs[w].changed
<1>1. PICK d \in Job : jobs[w] = d
  BY DEF ListTypes
<1> DEFINE e == [d EXCEPT !.at = s]
<1>2. /\ e \in Job /\ e.at = s /\ e.id = d.id /\ e.keys = d.keys /\ e.todo = d.todo /\ e.changed = d.changed
  BY DEF Job
<1>3. jobs' = [jobs EXCEPT ![w] = e]
  BY <1>1 DEF Goto, ListTypes
<1> QED BY <1>1, <1>2, <1>3

\* A job that begins, and one that is over.
NewJob(s, i) == [Free EXCEPT !.at = s, !.id = i]

LEMMA NewJobIn == ASSUME NEW s \in Places, NEW i \in 0 .. MaxLists PROVE NewJob(s, i) \in Job
BY DEF Job, Free, NewJob

LEMMA JobEnds ==
  ASSUME ListTypes, NEW w \in Workers, EndJob(w)
  PROVE  \E e \in Job : /\ jobs' = [jobs EXCEPT ![w] = e]
                        /\ e.at \in {"free", "done"} /\ e.id = 0 /\ e.todo = {} /\ e.keys = {} /\ ~e.changed
<1>1. Free \in Job /\ Free.at = "free" /\ Free.id = 0 /\ Free.todo = {} /\ Free.keys = {} /\ ~Free.changed
  BY RuleListsConstants DEF Free, Job, Places
<1> DEFINE e == [Free EXCEPT !.at = "done"]
<1>2. e.at = "done" /\ e.id = 0 /\ e.todo = {} /\ e.keys = {} /\ ~e.changed
  BY DEF Free
<1>4. e \in Job
  BY <1>1 DEF Job, Places
<1>3. jobs' = [jobs EXCEPT ![w] = Free] \/ jobs' = [jobs EXCEPT ![w] = e]
  BY DEF EndJob, Set
<1> QED BY <1>1, <1>2, <1>3, <1>4

\* A worker that is about to reload accounts for any change of the tables.
LEMMA DueCovers ==
  ASSUME ListTypes, InStep, NEW w \in Workers, NEW e \in Job, jobs' = [jobs EXCEPT ![w] = e],
         e.at \in {"bulk", "interval", "build"} \/ (e.changed /\ e.at # "install"), excuse' = excuse
  PROVE  InStep'
<1>1. jobs' \in [Workers -> Job] /\ jobs'[w] = e /\ \A q \in Workers \ {w} : jobs'[q] = jobs[q]
  BY JobMoves
<1> QED BY <1>1 DEF InStep, ReloadDue, Due, At_

\* One that has no reload to make may go on as long as the tables stay.
LEMMA QuietStays ==
  ASSUME ListTypes, InStep, NEW w \in Workers, NEW e \in Job, jobs' = [jobs EXCEPT ![w] = e],
         ~Due(w), jobs[w].at # "install", e.at # "install",
         excuse' = excuse, policy' = policy, ActiveRules' = ActiveRules
  PROVE  InStep'
<1>1. jobs' \in [Workers -> Job] /\ jobs'[w] = e /\ \A q \in Workers \ {w} : jobs'[q] = jobs[q]
  BY JobMoves
<1> QED BY <1>1 DEF InStep, ReloadDue, Due, At_

\* A worker goes on; the lists that workers fill are still there, or remembered.
LEMMA FillingStays ==
  ASSUME ListTypes, Filling, NEW w \in Workers, NEW e \in Job, jobs' = [jobs EXCEPT ![w] = e],
         \A i \in ListIds : Listed(i) => (Listed(i))',
         orphaned \subseteq orphaned',
         e.at \in {"get", "fetch", "replace", "mark", "enable", "interval"} => e.id \in ListIds,
         e.at \in {"fetch", "replace"} => (Listed(e.id))' \/ e.id \in orphaned',
         w \in Editors => e.todo = {},
         w = Ticker => \A i \in e.todo : (Listed(i))' \/ i \in orphaned',
         e.at = "free" => ~e.changed
  PROVE  Filling'
<1>1. jobs' \in [Workers -> Job] /\ jobs'[w] = e /\ \A q \in Workers \ {w} : jobs'[q] = jobs[q]
  BY JobMoves
<1>2. \A q \in Workers : jobs'[q].at \in {"get", "fetch", "replace", "mark", "enable", "interval"} => jobs'[q].id \in ListIds
  BY <1>1 DEF Filling
<1>3. \A q \in Workers : jobs'[q].at \in {"fetch", "replace"} => (Listed(jobs[q].id))' \/ jobs'[q].id \in orphaned'
  <2> SUFFICES ASSUME NEW q \in Workers, jobs'[q].at \in {"fetch", "replace"}
               PROVE  (Listed(jobs[q].id))' \/ jobs'[q].id \in orphaned'
    OBVIOUS
  <2>1. CASE q = w
    BY <1>1, <2>1 DEF Listed
  <2>2. CASE q # w
    BY <1>1, <1>2, <2>2 DEF Filling, Listed
  <2> QED BY <2>1, <2>2
<1>4. \A q \in Editors : jobs'[q].todo = {}
  BY <1>1 DEF Filling, Workers
<1>5. \A i \in jobs'[Ticker].todo : (Listed(i))' \/ i \in orphaned'
  <2>1. Ticker \in Workers
    BY DEF Workers
  <2>2. CASE w = Ticker
    BY <1>1, <2>2
  <2>3. CASE w # Ticker
    <3>1. jobs'[Ticker] = jobs[Ticker] /\ jobs[Ticker] \in Job
      BY <1>1, <2>1, <2>3 DEF ListTypes
    <3>2. jobs[Ticker].todo \subseteq ListIds
      BY <3>1 DEF Job
    <3> QED BY <3>1, <3>2 DEF Filling
  <2> QED BY <2>2, <2>3
<1>6. \A q \in Workers : jobs'[q].at = "free" => ~jobs'[q].changed
  BY <1>1 DEF Filling
<1> QED BY <1>2, <1>3, <1>4, <1>5, <1>6 DEF Filling

LEMMA addRuleKeeps == ASSUME ListsIInv, NEW w \in Editors, addRule(w) PROVE ListsIInv'
<1> USE RuleListsConstants DEF ListsIInv
<1>w. w \in Workers
  BY DEF Workers
<1>1. PICK e \in Job : jobs' = [jobs EXCEPT ![w] = e] /\ e.at = "build" /\ e.id = jobs[w].id /\ e.todo = jobs[w].todo /\ e.keys = jobs[w].keys /\ e.changed = jobs[w].changed
  BY <1>w, JobGoes DEF addRule, Places
<1>2. jobs' \in [Workers -> Job] /\ jobs'[w] = e /\ \A q \in Workers \ {w} : jobs'[q] = jobs[q]
  BY <1>w, <1>1, JobMoves
<1>3. ListTypes'
  BY <1>2 DEF addRule, AddRulesBulk, ListTypes, ListRow, NoRow, ByHand
<1>4. Given'
  BY <1>w, <1>1, <1>2 DEF addRule, AddRulesBulk, Given, ListTypes, Listed, NoRow, ByHand, Workers
<1>5. Filling'
  BY <1>w, <1>1, <1>2 DEF addRule, AddRulesBulk, Filling, Listed, Workers
<1>6. InStep'
  BY <1>w, <1>1, DueCovers DEF addRule
<1>7. ListOwnsItsContents' /\ NoOrphans'
  BY DEF addRule, AddRulesBulk, ListOwnsItsContents, NoOrphans, Listed, NoRow, ByHand, ListIds, ListTypes
<1> QED BY <1>3, <1>4, <1>5, <1>6, <1>7

LEMMA importRulesKeeps == ASSUME ListsIInv, NEW w \in Editors, importRules(w) PROVE ListsIInv'
<1> USE RuleListsConstants DEF ListsIInv
<1>w. w \in Workers
  BY DEF Workers
<1>1. PICK e \in Job : jobs' = [jobs EXCEPT ![w] = e] /\ e.at = "build" /\ e.id = jobs[w].id /\ e.todo = jobs[w].todo /\ e.keys = jobs[w].keys /\ e.changed = jobs[w].changed
  BY <1>w, JobGoes DEF importRules, Places
<1>2. jobs' \in [Workers -> Job] /\ jobs'[w] = e /\ \A q \in Workers \ {w} : jobs'[q] = jobs[q]
  BY <1>w, <1>1, JobMoves
<1>3. ListTypes'
  BY <1>2 DEF importRules, AddRulesBulk, ListTypes, ListRow, NoRow, ByHand
<1>4. Given'
  BY <1>w, <1>1, <1>2 DEF importRules, AddRulesBulk, Given, ListTypes, Listed, NoRow, ByHand, Workers
<1>5. Filling'
  BY <1>w, <1>1, <1>2 DEF importRules, AddRulesBulk, Filling, Listed, Workers
<1>6. InStep'
  BY <1>w, <1>1, DueCovers DEF importRules
<1>7. ListOwnsItsContents' /\ NoOrphans'
  BY DEF importRules, AddRulesBulk, ListOwnsItsContents, NoOrphans, Listed, NoRow, ByHand, ListIds, ListTypes
<1> QED BY <1>3, <1>4, <1>5, <1>6, <1>7

LEMMA deleteRuleKeeps == ASSUME ListsIInv, NEW w \in Editors, deleteRule(w) PROVE ListsIInv'
<1> USE RuleListsConstants DEF ListsIInv
<1>w. w \in Workers
  BY DEF Workers
<1>1. PICK e \in Job : jobs' = [jobs EXCEPT ![w] = e] /\ e.at = "build" /\ e.id = jobs[w].id /\ e.todo = jobs[w].todo /\ e.keys = jobs[w].keys /\ e.changed = jobs[w].changed
  BY <1>w, JobGoes DEF deleteRule, Places
<1>2. jobs' \in [Workers -> Job] /\ jobs'[w] = e /\ \A q \in Workers \ {w} : jobs'[q] = jobs[q]
  BY <1>w, <1>1, JobMoves
<1>3. ListTypes'
  BY <1>2 DEF deleteRule, ListTypes, ListRow, NoRow, ByHand
<1>4. Given'
  BY <1>w, <1>1, <1>2 DEF deleteRule, Given, ListTypes, Listed, NoRow, ByHand, Workers
<1>5. Filling'
  BY <1>w, <1>1, <1>2 DEF deleteRule, Filling, Listed, Workers
<1>6. InStep'
  BY <1>w, <1>1, DueCovers DEF deleteRule
<1>7. ListOwnsItsContents' /\ NoOrphans'
  BY DEF deleteRule, ListOwnsItsContents, NoOrphans, Listed, NoRow, ByHand, ListIds, ListTypes
<1> QED BY <1>3, <1>4, <1>5, <1>6, <1>7

LEMMA importConfigKeeps == ASSUME ListsIInv, NEW w \in Editors, importConfig(w) PROVE ListsIInv'
<1> USE RuleListsConstants DEF ListsIInv
<1>w. w \in Workers
  BY DEF Workers
<1>1. PICK e \in Job : jobs' = [jobs EXCEPT ![w] = e] /\ e.at = "bulk" /\ e.id = jobs[w].id /\ e.todo = jobs[w].todo /\ e.keys = jobs[w].keys /\ e.changed = jobs[w].changed
  BY <1>w, JobGoes DEF importConfig, Places
<1>2. jobs' \in [Workers -> Job] /\ jobs'[w] = e /\ \A q \in Workers \ {w} : jobs'[q] = jobs[q]
  BY <1>w, <1>1, JobMoves
<1>3. ListTypes'
  BY <1>2 DEF importConfig, ListTypes, ListRow, NoRow, ByHand
<1>4. Given'
  BY <1>w, <1>1, <1>2 DEF importConfig, Given, ListTypes, Listed, NoRow, ByHand, Workers
<1>5. Filling'
  BY <1>w, <1>1, <1>2 DEF importConfig, Filling, Listed, Workers
<1>6. InStep'
  BY <1>w, <1>1, DueCovers DEF importConfig
<1>7. ListOwnsItsContents' /\ NoOrphans'
  BY DEF importConfig, ListOwnsItsContents, NoOrphans, Listed, NoRow, ByHand, ListIds, ListTypes
<1> QED BY <1>3, <1>4, <1>5, <1>6, <1>7

LEMMA ImportBulkKeeps == ASSUME ListsIInv, NEW w \in Editors, ImportBulk(w) PROVE ListsIInv'
<1> USE RuleListsConstants DEF ListsIInv
<1>w. w \in Workers
  BY DEF Workers
<1>1. PICK e \in Job : /\ jobs' = [jobs EXCEPT ![w] = e]
                       /\ \/ e.at = "build" /\ e.id = jobs[w].id /\ e.todo = jobs[w].todo /\ excuse' = excuse
                          \/ e.at \in {"free", "done"} /\ e.id = 0 /\ e.todo = {} /\ ~e.changed /\ excuse' = "failed"
  <2>1. CASE Goto(w, "build") /\ excuse' = excuse
    BY <1>w, <2>1, JobGoes DEF Places
  <2>2. CASE EndJob(w) /\ excuse' = "failed"
    BY <1>w, <2>2, JobEnds
  <2> QED BY <2>1, <2>2 DEF ImportBulk
<1>2. jobs' \in [Workers -> Job] /\ jobs'[w] = e /\ \A q \in Workers \ {w} : jobs'[q] = jobs[q]
  BY <1>w, <1>1, JobMoves
<1>3. ListTypes'
  BY <1>1, <1>2 DEF ImportBulk, AddRulesBulk, ListTypes, NoRow, ByHand
<1>4. Given'
  BY <1>w, <1>1, <1>2 DEF ImportBulk, AddRulesBulk, Given, ListTypes, Listed, NoRow, ByHand, Workers
<1>5. Filling'
  BY <1>w, <1>1, <1>2 DEF ImportBulk, AddRulesBulk, Filling, Listed, Workers
<1>6. InStep'
  BY <1>w, <1>1, DueCovers DEF InStep
<1>7. ListOwnsItsContents' /\ NoOrphans'
  BY DEF ImportBulk, AddRulesBulk, ListOwnsItsContents, NoOrphans, Listed, NoRow, ByHand, ListIds, ListTypes
<1> QED BY <1>3, <1>4, <1>5, <1>6, <1>7

Filled == {"get", "replace"}

LEMMA CreateListKeeps ==
  ASSUME ListsIInv, NEW w \in Editors, NEW source \in {"url", "paste"}, NEW auto \in BOOLEAN, NEW then \in Filled,
         At_(w, "free"), CreateList(w, source, auto, then)
  PROVE  ListsIInv'
<1> USE RuleListsConstants DEF ListsIInv
<1> DEFINE made == [source |-> source, enabled |-> TRUE, auto |-> auto, due |-> auto]
<1>i. PICK id \in ListIds : id = lastList + 1
  BY DEF ListIds, CreateList, ListTypes
<1>w. w \in Workers /\ id \in ListIds /\ id \in 0 .. MaxLists /\ then \in Places /\ lastList' = id
  BY <1>i DEF Workers, ListIds, CreateList, ListTypes, Places, Filled
<1>m. made \in ListRow /\ made # NoList /\ made.source # "none"
  BY DEF ListRow, NoList
<1>l. /\ lists' \in [ListIds -> ListRow] /\ lists'[id] = made
      /\ \A i \in ListIds : i # id => lists'[i] = lists[i]
  BY <1>i, <1>w, <1>m DEF CreateList, ListTypes
<1>s. jobs' = [jobs EXCEPT ![w] = NewJob(then, id)]
  BY <1>i DEF CreateList, Set, NewJob
<1>g. \A i \in 0 .. MaxLists : i <= lastList => i # id /\ i <= id
  BY <1>i DEF ListTypes
<1>u. UNCHANGED <<owner, policy, applied, orphaned, excuse>>
  BY DEF CreateList
<1> HIDE DEF made
<1>b. PICK e \in Job : e = NewJob(then, id)
  BY <1>w, NewJobIn
<1>1. jobs' = [jobs EXCEPT ![w] = e] /\ e.at = then /\ e.id = id /\ e.todo = {} /\ e.keys = {} /\ ~e.changed
  BY <1>b, <1>s DEF NewJob, Free
<1>2. jobs' \in [Workers -> Job] /\ jobs'[w] = e /\ \A q \in Workers \ {w} : jobs'[q] = jobs[q]
  BY <1>w, <1>1, JobMoves
<1>3. ListTypes'
  BY <1>2, <1>l, <1>w, <1>u DEF ListTypes
<1>4. Given'
  <2>1. \A i \in ListIds : (Listed(i) => i <= lastList /\ lists[i].source # "none")'
    BY <1>l, <1>m, <1>w, <1>g DEF Given, Listed, ListIds
  <2>2. \A k \in Rules : owner'[k] <= lastList'
    BY <1>u, <1>w, <1>i DEF Given, ListTypes, NoRow, ByHand, ListIds
  <2>3. \A q \in Workers : jobs[q].id \in 0 .. MaxLists /\ jobs[q].todo \subseteq ListIds
    BY DEF ListTypes, Job
  <2>4. \A q \in Workers : jobs'[q].id <= lastList' /\ \A i \in jobs'[q].todo : i <= lastList'
    BY <1>1, <1>2, <2>3, <1>w, <1>g DEF Given, ListIds
  <2> QED BY <2>1, <2>2, <2>4 DEF Given
<1>5. Filling'
  <2>1. \A i \in ListIds : Listed(i) => (Listed(i))'
    BY <1>l, <1>m DEF Listed
  <2>2. (Listed(id))'
    <3>1. lists'[id] = made /\ made # NoList
      BY <1>l, <1>m, <1>w
    <3> QED BY <3>1 DEF Listed
  <2> QED BY <1>1, <1>2, <1>w, <1>u, <2>1, <2>2, FillingStays
<1>6. ActiveRules' = ActiveRules
  <2>1. \A k \in Rules : owner[k] # id
    BY <1>i DEF Given, ListTypes
  <2> QED BY <2>1, <1>l, <1>u DEF ActiveRules
<1>7. InStep'
  <2>1. jobs[w].at = "free" /\ then # "install" /\ ~Due(w)
    BY <1>w DEF At_, Due, Filling, Filled
  <2> QED BY <2>1, <1>w, <1>1, <1>6, <1>u, QuietStays
<1>8. ListOwnsItsContents' /\ NoOrphans'
  BY <1>l, <1>m, <1>u DEF ListOwnsItsContents, NoOrphans, Listed
<1> QED BY <1>3, <1>4, <1>5, <1>7, <1>8

\* What is left to show of a step that changes no list's place and no row.
LEMMA EditKeeps ==
  ASSUME ListsIInv, NEW w \in Workers, NEW e \in Job, jobs' = [jobs EXCEPT ![w] = e],
         lists' \in [ListIds -> ListRow], \A i \in ListIds : lists'[i].source = lists[i].source /\ (Listed(i) <=> (Listed(i))'),
         UNCHANGED <<owner, lastList, policy, applied, orphaned, excuse>>,
         e.id <= lastList, e.todo \subseteq ListIds, \A i \in e.todo : (i <= lastList /\ Listed(i)) \/ i \in jobs[w].todo,
         w \in Editors => e.todo = {},
         e.at \in {"get", "fetch", "replace", "mark", "enable", "interval"} => e.id \in ListIds,
         e.at \in {"fetch", "replace"} => Listed(e.id) \/ e.id \in orphaned,
         e.at = "free" => ~e.changed,
         \/ e.at \in {"bulk", "interval", "build"} \/ (e.changed /\ e.at # "install")
         \/ ~Due(w) /\ jobs[w].at # "install" /\ e.at # "install" /\ ActiveRules' = ActiveRules
  PROVE  ListsIInv'
<1> USE RuleListsConstants DEF ListsIInv
<1>2. jobs' \in [Workers -> Job] /\ jobs'[w] = e /\ \A q \in Workers \ {w} : jobs'[q] = jobs[q]
  BY JobMoves
<1>3. ListTypes'
  BY <1>2 DEF ListTypes
<1>4. Given'
  <2>1. \A i \in ListIds : (Listed(i))' => i <= lastList' /\ lists'[i].source # "none"
    BY DEF Given
  <2>2. \A k \in Rules : owner'[k] <= lastList'
    BY DEF Given
  <2>3. \A q \in Workers : jobs'[q].id <= lastList' /\ \A i \in jobs'[q].todo : i <= lastList'
    BY <1>2 DEF Given
  <2> QED BY <2>1, <2>2, <2>3 DEF Given
<1>5. Filling'
  <2>1. e.at \in {"fetch", "replace"} => (Listed(e.id))' \/ e.id \in orphaned'
    <3>1. ASSUME e.at \in {"fetch", "replace"} PROVE e.id \in ListIds
      BY <3>1
    <3>2. e.id \in ListIds /\ Listed(e.id) => lists'[e.id] # NoList
      BY DEF Listed
    <3> QED BY <3>1, <3>2 DEF Listed
  <2>2. w = Ticker => \A i \in e.todo : (Listed(i))' \/ i \in orphaned'
    BY DEF Filling
  <2> QED BY <2>1, <2>2, FillingStays
<1>6. InStep'
  <2>1. CASE e.at \in {"bulk", "interval", "build"} \/ (e.changed /\ e.at # "install")
    BY <2>1, DueCovers
  <2>2. CASE ~Due(w) /\ jobs[w].at # "install" /\ e.at # "install" /\ ActiveRules' = ActiveRules
    BY <2>2, QuietStays
  <2> QED BY <2>1, <2>2
<1>7. ListOwnsItsContents' /\ NoOrphans'
  BY DEF ListOwnsItsContents, NoOrphans, ListTypes
<1> QED BY <1>3, <1>4, <1>5, <1>6, <1>7

\* ... and of one that changes no table at all.
LEMMA OnlyJobKeeps ==
  ASSUME ListsIInv, NEW w \in Workers, NEW e \in Job, jobs' = [jobs EXCEPT ![w] = e],
         UNCHANGED <<owner, lists, lastList, policy, applied, orphaned, excuse>>,
         e.id <= lastList, e.todo \subseteq ListIds, \A i \in e.todo : (i <= lastList /\ Listed(i)) \/ i \in jobs[w].todo,
         w \in Editors => e.todo = {},
         e.at \in {"get", "fetch", "replace", "mark", "enable", "interval"} => e.id \in ListIds,
         e.at \in {"fetch", "replace"} => Listed(e.id) \/ e.id \in orphaned,
         e.at = "free" => ~e.changed,
         \/ e.at \in {"bulk", "interval", "build"} \/ (e.changed /\ e.at # "install")
         \/ ~Due(w) /\ jobs[w].at # "install" /\ e.at # "install"
  PROVE  ListsIInv'
<1>1. lists' \in [ListIds -> ListRow] /\ \A i \in ListIds : lists'[i].source = lists[i].source /\ (Listed(i) <=> (Listed(i))')
  BY DEF ListsIInv, ListTypes, Listed
<1>2. ActiveRules' = ActiveRules
  BY DEF ActiveRules
<1> QED BY <1>1, <1>2, EditKeeps

LEMMA refreshListKeeps == ASSUME ListsIInv, NEW w \in Editors, refreshList(w) PROVE ListsIInv'
<1> USE RuleListsConstants
<1>1. PICK i \in ListIds : lists[i].source = "url" /\ Set(w, NewJob("fetch", i))
  BY DEF refreshList, NewJob
<1>2. w \in Workers /\ i \in 0 .. MaxLists /\ "fetch" \in Places /\ Listed(i) /\ i <= lastList
  BY <1>1 DEF Workers, ListIds, Places, Listed, NoList, ListsIInv, Given
<1>3. PICK e \in Job : e = NewJob("fetch", i)
  BY <1>2, NewJobIn
<1>4. jobs' = [jobs EXCEPT ![w] = e] /\ e.at = "fetch" /\ e.id = i /\ e.todo = {} /\ ~e.changed
  BY <1>1, <1>3 DEF NewJob, Free, Set
<1>5. jobs[w].at = "free" /\ ~Due(w) /\ UNCHANGED <<owner, lists, lastList, policy, applied, orphaned, excuse>>
  BY <1>2 DEF refreshList, Arrives, At_, Due, ListsIInv, Filling
<1> QED BY <1>2, <1>4, <1>5, OnlyJobKeeps

LEMMA updateListKeeps == ASSUME ListsIInv, NEW w \in Editors, updateList(w) PROVE ListsIInv'
<1> USE RuleListsConstants
<1>1. PICK i \in ListIds, s \in {"enable", "interval"} : Listed(i) /\ Set(w, NewJob(s, i))
  BY DEF updateList, NewJob
<1>2. w \in Workers /\ i \in 0 .. MaxLists /\ s \in Places /\ i <= lastList
  BY <1>1 DEF Workers, ListIds, Places, ListsIInv, Given
<1>3. PICK e \in Job : e = NewJob(s, i)
  BY <1>2, NewJobIn
<1>4. jobs' = [jobs EXCEPT ![w] = e] /\ e.at \in {"enable", "interval"} /\ e.id = i /\ e.todo = {} /\ ~e.changed
  BY <1>1, <1>3 DEF NewJob, Free, Set
<1>5. jobs[w].at = "free" /\ ~Due(w) /\ UNCHANGED <<owner, lists, lastList, policy, applied, orphaned, excuse>>
  BY <1>2 DEF updateList, Arrives, At_, Due, ListsIInv, Filling
<1> QED BY <1>2, <1>4, <1>5, OnlyJobKeeps

LEMMA JobHas ==
  ASSUME ListsIInv, NEW w \in Workers
  PROVE  /\ jobs[w] \in Job /\ jobs[w].id \in 0 .. MaxLists /\ jobs[w].id <= lastList
         /\ jobs[w].todo \subseteq ListIds /\ jobs[w].keys \subseteq Rules /\ jobs[w].changed \in BOOLEAN
         /\ jobs[w].at \in Places /\ (w \in Editors => jobs[w].todo = {})
<1>1. jobs[w] \in Job
  BY DEF ListsIInv, ListTypes
<1> QED BY <1>1 DEF Job, ListsIInv, Given, Filling

LEMMA GetListKeeps == ASSUME ListsIInv, NEW w \in Editors, GetList(w) PROVE ListsIInv'
<1>1. w \in Workers /\ ListTypes
  BY DEF Workers, ListsIInv
<1>2. PICK s \in Places : Goto(w, s) /\ ((s = "fetch" /\ Listed(jobs[w].id)) \/ s = "build")
  BY DEF GetList, Places
<1>3. PICK e \in Job : /\ jobs' = [jobs EXCEPT ![w] = e]
                       /\ e.at = s /\ e.id = jobs[w].id /\ e.todo = jobs[w].todo
                       /\ e.keys = jobs[w].keys /\ e.changed = jobs[w].changed
  BY <1>1, <1>2, JobGoes
<1>4. jobs[w].at = "get" /\ jobs[w].id \in ListIds /\ UNCHANGED <<owner, lists, lastList, policy, applied, orphaned, excuse>>
  BY <1>1 DEF GetList, At_, ListsIInv, Filling
<1>5. /\ e.id <= lastList /\ e.todo \subseteq ListIds /\ (w \in Editors => e.todo = {})
  BY <1>1, <1>3, JobHas
<1>6. \/ e.at \in {"bulk", "interval", "build"} \/ (e.changed /\ e.at # "install")
      \/ ~Due(w) /\ jobs[w].at # "install" /\ e.at # "install"
  BY <1>2, <1>3, <1>4 DEF Due
<1> QED BY <1>1, <1>2, <1>3, <1>4, <1>5, <1>6, OnlyJobKeeps

LEMMA FetchKeeps == ASSUME ListsIInv, NEW w \in Workers, Fetch(w) PROVE ListsIInv'
<1>1. ListTypes
  BY DEF ListsIInv
<1>2. PICK s \in Places : Goto(w, s) /\ s \in {"replace", "mark"}
  BY DEF Fetch, Places
<1>3. PICK e \in Job : /\ jobs' = [jobs EXCEPT ![w] = e]
                       /\ e.at = s /\ e.id = jobs[w].id /\ e.todo = jobs[w].todo
                       /\ e.keys = jobs[w].keys /\ e.changed = jobs[w].changed
  BY <1>1, <1>2, JobGoes
<1>4. /\ jobs[w].at = "fetch" /\ jobs[w].id \in ListIds /\ (Listed(jobs[w].id) \/ jobs[w].id \in orphaned)
      /\ UNCHANGED <<owner, lists, lastList, policy, applied, orphaned, excuse>>
  BY <1>1 DEF Fetch, At_, ListsIInv, Filling
<1>5. /\ e.id <= lastList /\ e.todo \subseteq ListIds /\ (w \in Editors => e.todo = {})
  BY <1>1, <1>3, JobHas
<1>6. \/ e.at \in {"bulk", "interval", "build"} \/ (e.changed /\ e.at # "install")
      \/ ~Due(w) /\ jobs[w].at # "install" /\ e.at # "install"
  BY <1>2, <1>3, <1>4 DEF Due
<1> QED BY <1>1, <1>2, <1>3, <1>4, <1>5, <1>6, OnlyJobKeeps

LEMMA tickKeeps == ASSUME ListsIInv, tick PROVE ListsIInv'
<1> USE RuleListsConstants
<1> DEFINE w == Ticker
<1>1. w \in Workers /\ DueURLLists \subseteq ListIds /\ \A i \in DueURLLists : Listed(i) /\ i <= lastList
  BY DEF Workers, DueURLLists, Listed, NoList, ListsIInv, Given
<1>2. PICK T \in SUBSET ListIds : T = DueURLLists
  BY <1>1
<1>3. PICK e \in Job : e = [Free EXCEPT !.at = "next", !.todo = T]
  <2> DEFINE f == [Free EXCEPT !.at = "next", !.todo = T]
  <2>1. "next" \in Places /\ 0 \in 0 .. MaxLists
    BY DEF Places
  <2>2. f \in Job
    BY <2>1 DEF Free, Job
  <2> QED BY <2>2
<1>4. jobs' = [jobs EXCEPT ![w] = e] /\ e.at = "next" /\ e.id = 0 /\ e.todo = T /\ ~e.changed
  BY <1>2, <1>3 DEF tick, Free, Set
<1>5. jobs[w].at = "free" /\ ~Due(w) /\ UNCHANGED <<owner, lists, lastList, policy, applied, orphaned, excuse>>
  BY <1>1 DEF tick, At_, Due, ListsIInv, Filling
<1>6. e.id <= lastList
  BY <1>4 DEF ListsIInv, ListTypes
<1>7. w \notin Editors
  OBVIOUS
<1> HIDE DEF w
<1> QED BY <1>1, <1>2, <1>4, <1>5, <1>6, <1>7, OnlyJobKeeps

LEMMA NextDueKeeps == ASSUME ListsIInv, NextDue PROVE ListsIInv'
<1> USE RuleListsConstants
<1> DEFINE w == Ticker
<1>1. w \in Workers /\ w \notin Editors /\ ListTypes
  BY DEF Workers, ListsIInv
<1>2. jobs[w].at = "next" /\ UNCHANGED <<owner, lists, lastList, policy, applied, orphaned, excuse>>
  BY DEF NextDue, At_
<1>3. jobs[w].todo \subseteq ListIds /\ jobs[w].id <= lastList /\ lastList \in Nat
  BY <1>1, JobHas DEF ListTypes
<1>4. CASE \E i \in jobs[w].todo : jobs' = [jobs EXCEPT ![w].at = "fetch", ![w].id = i, ![w].todo = @ \ {i}]
  <2>1. PICK i \in ListIds : i \in jobs[w].todo /\ jobs' = [jobs EXCEPT ![w].at = "fetch", ![w].id = i, ![w].todo = @ \ {i}]
    BY <1>3, <1>4
  <2>2. PICK d \in Job : d = jobs[w]
    BY <1>1, JobHas
  <2>3. PICK e \in Job : e = [d EXCEPT !.at = "fetch", !.id = i, !.todo = @ \ {i}]
    <3> DEFINE f == [d EXCEPT !.at = "fetch", !.id = i, !.todo = @ \ {i}]
    <3>1. "fetch" \in Places /\ i \in 0 .. MaxLists
      BY DEF Places, ListIds
    <3>2. f \in Job
      BY <3>1 DEF Job
    <3> QED BY <3>2
  <2>4. e.at = "fetch" /\ e.id = i /\ e.todo = d.todo \ {i} /\ e.changed = d.changed
    BY <2>3 DEF Job
  <2>5. jobs' = [jobs EXCEPT ![w] = e]
    BY <1>1, <2>1, <2>2, <2>3 DEF ListTypes
  <2>6. i <= lastList /\ (Listed(i) \/ i \in orphaned)
    BY <1>1, <2>1 DEF ListsIInv, Given, Filling
  <2>7. (e.changed /\ e.at # "install") \/ (~Due(w) /\ jobs[w].at # "install" /\ e.at # "install")
    BY <1>2, <2>2, <2>4 DEF Due
  <2>8. e.todo \subseteq ListIds /\ \A j \in e.todo : j \in jobs[w].todo
    BY <1>3, <2>2, <2>4
  <2> HIDE DEF w
  <2> QED BY <1>1, <1>2, <2>1, <2>4, <2>5, <2>6, <2>7, <2>8, OnlyJobKeeps
<1>5. CASE jobs[w].changed /\ Goto(w, "build")
  <2>1. PICK e \in Job : jobs' = [jobs EXCEPT ![w] = e] /\ e.at = "build" /\ e.id = jobs[w].id /\ e.todo = jobs[w].todo
    BY <1>1, <1>5, JobGoes DEF Places
  <2> HIDE DEF w
  <2> QED BY <1>1, <1>2, <1>3, <2>1, OnlyJobKeeps
<1>6. CASE ~jobs[w].changed /\ EndJob(w)
  <2>1. PICK e \in Job : jobs' = [jobs EXCEPT ![w] = e] /\ e.at \in {"free", "done"} /\ e.id = 0 /\ e.todo = {} /\ ~e.changed
    BY <1>1, <1>6, JobEnds
  <2>2. ~Due(w) /\ jobs[w].at # "install" /\ e.at # "install"
    BY <1>2, <1>6, <2>1 DEF Due
  <2>3. e.id <= lastList /\ e.todo \subseteq ListIds /\ ~\E i \in e.todo : TRUE
    BY <1>3, <2>1
  <2>4. e.at \notin {"get", "fetch", "replace", "mark", "enable", "interval"} /\ e.at \notin {"fetch", "replace"}
    BY <2>1
  <2> HIDE DEF w
  <2> QED BY <1>1, <1>2, <2>1, <2>2, <2>3, <2>4, OnlyJobKeeps
<1> QED BY <1>4, <1>5, <1>6 DEF NextDue

LEMMA ListRowFields == ASSUME NEW r \in ListRow, r.source # "none" PROVE r # NoList
BY DEF NoList

LEMMA SetListEnabledKeeps == ASSUME ListsIInv, NEW w \in Editors, SetListEnabled(w) PROVE ListsIInv'
<1>1. w \in Workers /\ ListTypes
  BY DEF Workers, ListsIInv
<1>2. PICK s \in {"interval", "build"}, b \in BOOLEAN :
        Goto(w, s) /\ lists' = IF Listed(jobs[w].id) THEN [lists EXCEPT ![jobs[w].id].enabled = b] ELSE lists
  BY DEF SetListEnabled
<1>3. PICK e \in Job : jobs' = [jobs EXCEPT ![w] = e] /\ e.at = s /\ e.id = jobs[w].id /\ e.todo = jobs[w].todo
  BY <1>1, <1>2, JobGoes DEF Places
<1>4. jobs[w].at = "enable" /\ UNCHANGED <<owner, lastList, policy, applied, orphaned, excuse>>
  BY DEF SetListEnabled, At_
<1>5. PICK i \in ListIds : i = jobs[w].id
  BY <1>1, <1>4 DEF ListsIInv, Filling
<1>6. lists' \in [ListIds -> ListRow] /\ \A j \in ListIds : lists'[j].source = lists[j].source /\ (Listed(j) <=> (Listed(j))')
  <2>1. CASE Listed(i)
    <3>1. PICK r \in ListRow : r = lists[i]
      BY <1>1 DEF ListTypes
    <3> DEFINE f == [r EXCEPT !.enabled = b]
    <3>2. f \in ListRow /\ f.source = r.source
      BY DEF ListRow
    <3>3. lists' = [lists EXCEPT ![i] = f]
      BY <1>1, <1>2, <1>5, <2>1, <3>1 DEF ListTypes
    <3>4. r.source # "none"
      BY <2>1, <3>1 DEF ListsIInv, Given
    <3>5. f # NoList
      BY <3>2, <3>4 DEF NoList
    <3> HIDE DEF f
    <3>6. lists'[i] = f /\ \A j \in ListIds : j # i => lists'[j] = lists[j]
      BY <1>1, <3>3 DEF ListTypes
    <3> QED BY <1>1, <2>1, <3>1, <3>2, <3>3, <3>5, <3>6 DEF ListTypes, Listed
  <2>2. CASE ~Listed(i)
    BY <1>1, <1>2, <1>5, <2>2 DEF ListTypes, Listed
  <2> QED BY <2>1, <2>2
<1>7. e.id <= lastList /\ e.todo \subseteq ListIds /\ (w \in Editors => e.todo = {}) /\ \A j \in e.todo : j \in jobs[w].todo
  BY <1>1, <1>3, JobHas
<1> QED BY <1>1, <1>2, <1>3, <1>4, <1>5, <1>6, <1>7, EditKeeps

LEMMA UpdateListIntervalKeeps == ASSUME ListsIInv, NEW w \in Editors, UpdateListInterval(w) PROVE ListsIInv'
<1>1. w \in Workers /\ ListTypes
  BY DEF Workers, ListsIInv
<1>2. PICK b \in BOOLEAN :
        lists' = IF Listed(jobs[w].id) THEN [lists EXCEPT ![jobs[w].id].auto = b, ![jobs[w].id].due = @ /\ b] ELSE lists
  BY DEF UpdateListInterval
<1>3. PICK e \in Job : jobs' = [jobs EXCEPT ![w] = e] /\ e.at = "build" /\ e.id = jobs[w].id /\ e.todo = jobs[w].todo
  BY <1>1, JobGoes DEF UpdateListInterval, Places
<1>4. jobs[w].at = "interval" /\ UNCHANGED <<owner, lastList, policy, applied, orphaned, excuse>>
  BY DEF UpdateListInterval, At_
<1>5. PICK i \in ListIds : i = jobs[w].id
  BY <1>1, <1>4 DEF ListsIInv, Filling
<1>6. lists' \in [ListIds -> ListRow] /\ \A j \in ListIds : lists'[j].source = lists[j].source /\ (Listed(j) <=> (Listed(j))')
  <2>1. CASE Listed(i)
    <3>1. PICK r \in ListRow : r = lists[i]
      BY <1>1 DEF ListTypes
    <3> DEFINE f == [r EXCEPT !.auto = b, !.due = @ /\ b]
    <3>2. f \in ListRow /\ f.source = r.source
      BY DEF ListRow
    <3>3. lists' = [lists EXCEPT ![i] = f]
      BY <1>1, <1>2, <1>5, <2>1, <3>1 DEF ListTypes
    <3>4. r.source # "none"
      BY <2>1, <3>1 DEF ListsIInv, Given
    <3>5. f # NoList
      BY <3>2, <3>4 DEF NoList
    <3> HIDE DEF f
    <3>6. lists'[i] = f /\ \A j \in ListIds : j # i => lists'[j] = lists[j]
      BY <1>1, <3>3 DEF ListTypes
    <3> QED BY <1>1, <2>1, <3>1, <3>2, <3>3, <3>5, <3>6 DEF ListTypes, Listed
  <2>2. CASE ~Listed(i)
    BY <1>1, <1>2, <1>5, <2>2 DEF ListTypes, Listed
  <2> QED BY <2>1, <2>2
<1>7. e.id <= lastList /\ e.todo \subseteq ListIds /\ (w \in Editors => e.todo = {}) /\ \A j \in e.todo : j \in jobs[w].todo
  BY <1>1, <1>3, JobHas
<1> QED BY <1>1, <1>2, <1>3, <1>4, <1>5, <1>6, <1>7, EditKeeps

LEMMA MarkListFetchedKeeps == ASSUME ListsIInv, NEW w \in Workers, MarkListFetched(w) PROVE ListsIInv'
<1>1. ListTypes
  BY DEF ListsIInv
<1>2. lists' = IF Listed(jobs[w].id) THEN [lists EXCEPT ![jobs[w].id].due = FALSE] ELSE lists
  BY DEF MarkListFetched
<1>3. PICK s \in {"next", "build"} : Goto(w, s) /\ (s = "next" => w = Ticker)
  BY DEF MarkListFetched
<1>3a. PICK e \in Job : jobs' = [jobs EXCEPT ![w] = e] /\ e.at = s /\ e.id = jobs[w].id /\ e.todo = jobs[w].todo /\ e.changed = jobs[w].changed
  BY <1>1, <1>3, JobGoes DEF MarkListFetched, Places
<1>4. jobs[w].at = "mark" /\ UNCHANGED <<owner, lastList, policy, applied, orphaned, excuse>>
  BY DEF MarkListFetched, At_
<1>5. PICK i \in ListIds : i = jobs[w].id
  BY <1>1, <1>4 DEF ListsIInv, Filling
<1>6. /\ lists' \in [ListIds -> ListRow] /\ ActiveRules' = ActiveRules
      /\ \A j \in ListIds : lists'[j].source = lists[j].source /\ (Listed(j) <=> (Listed(j))')
  <2>1. CASE Listed(i)
    <3>1. PICK r \in ListRow : r = lists[i]
      BY <1>1 DEF ListTypes
    <3> DEFINE f == [r EXCEPT !.due = FALSE]
    <3>2. f \in ListRow /\ f.source = r.source /\ f.enabled = r.enabled
      BY DEF ListRow
    <3>3. lists' = [lists EXCEPT ![i] = f]
      BY <1>1, <1>2, <1>5, <2>1, <3>1 DEF ListTypes
    <3>4. r.source # "none"
      BY <2>1, <3>1 DEF ListsIInv, Given
    <3>5. f # NoList
      BY <3>2, <3>4 DEF NoList
    <3> HIDE DEF f
    <3>6. lists'[i] = f /\ \A j \in ListIds : j # i => lists'[j] = lists[j]
      BY <1>1, <3>3 DEF ListTypes
    <3>7. \A j \in ListIds : lists'[j].enabled = lists[j].enabled
      BY <3>1, <3>2, <3>6
    <3>8. ActiveRules' = ActiveRules
      BY <1>4, <3>7 DEF ActiveRules
    <3> QED BY <1>1, <2>1, <3>1, <3>2, <3>3, <3>5, <3>6, <3>8 DEF ListTypes, Listed
  <2>2. CASE ~Listed(i)
    BY <1>1, <1>2, <1>4, <1>5, <2>2 DEF ListTypes, Listed, ActiveRules
  <2> QED BY <2>1, <2>2
<1>7. e.id <= lastList /\ e.todo \subseteq ListIds /\ (w \in Editors => e.todo = {}) /\ \A j \in e.todo : j \in jobs[w].todo
  BY <1>1, <1>3a, JobHas
<1>8. \/ e.at = "build" \/ (e.changed /\ e.at # "install")
      \/ ~Due(w) /\ jobs[w].at # "install" /\ e.at # "install"
  BY <1>3, <1>3a, <1>4 DEF Due
<1> QED BY <1>3, <1>3a, <1>4, <1>5, <1>6, <1>7, <1>8, EditKeeps

LEMMA deleteListKeeps == ASSUME ListsIInv, NEW w \in Editors, deleteList(w) PROVE ListsIInv'
<1> USE RuleListsConstants DEF ListsIInv
<1>w. w \in Workers
  BY DEF Workers
<1>0. PICK i \in ListIds :
       /\ owner' = [k \in Rules |-> IF owner[k] = i THEN NoRow ELSE owner[k]]
       /\ lists' = [lists EXCEPT ![i] = NoList]
       /\ applied' = [applied EXCEPT ![i] = {}]
       /\ orphaned' = IF \/ \E q \in Workers : jobs[q].id = i /\ jobs[q].at \in {"fetch", "replace"}
                         \/ i \in jobs[Ticker].todo
                      THEN orphaned \cup {i} ELSE orphaned
  BY DEF deleteList
<1>1. PICK e \in Job : /\ jobs' = [jobs EXCEPT ![w] = e] /\ e.at = "build" /\ e.id = jobs[w].id /\ e.todo = jobs[w].todo
                       /\ e.changed = jobs[w].changed
  BY <1>w, JobGoes DEF deleteList, Places
<1>u. UNCHANGED <<lastList, policy, excuse>>
  BY DEF deleteList
<1>2. jobs' \in [Workers -> Job] /\ jobs'[w] = e /\ \A q \in Workers \ {w} : jobs'[q] = jobs[q]
  BY <1>w, <1>1, JobMoves
<1>3. ListTypes'
  <2>1. NoList \in ListRow
    BY DEF NoList, ListRow
  <2> QED BY <2>1, <1>0, <1>2, <1>u DEF ListTypes
<1>4. Given'
  <2>1. \A j \in ListIds : (Listed(j))' => j <= lastList' /\ lists'[j].source # "none"
    BY <1>0, <1>u DEF Given, ListTypes, Listed
  <2>2. \A k \in Rules : owner'[k] <= lastList'
    BY <1>0, <1>u DEF Given, ListTypes, NoRow
  <2>3. \A q \in Workers : jobs'[q].id <= lastList' /\ \A j \in jobs'[q].todo : j <= lastList'
    BY <1>1, <1>2, <1>w, <1>u DEF Given
  <2> QED BY <2>1, <2>2, <2>3 DEF Given
<1>5. Filling'
  <2>1. \A j \in ListIds : Listed(j) => (Listed(j))' \/ j = i
    BY <1>0 DEF Listed, ListTypes
  <2>2. orphaned \subseteq orphaned'
    BY <1>0
  <2>3. \A q \in Workers : jobs[q].at \in {"fetch", "replace"} /\ jobs[q].id = i => i \in orphaned'
    BY <1>0
  <2>4. i \in jobs[Ticker].todo => i \in orphaned'
    BY <1>0
  <2>5. Ticker # w /\ jobs'[Ticker] = jobs[Ticker] /\ jobs[Ticker].todo \subseteq ListIds
    BY <1>2, JobHas DEF Workers
  <2>6. \A q \in Workers : jobs'[q].at \in {"get", "fetch", "replace", "mark", "enable", "interval"} => jobs'[q].id \in ListIds
    BY <1>1, <1>2, <1>w DEF Filling
  <2>7. \A q \in Workers : jobs'[q].at \in {"fetch", "replace"} => (Listed(jobs[q].id))' \/ jobs'[q].id \in orphaned'
    <3> SUFFICES ASSUME NEW q \in Workers, jobs'[q].at \in {"fetch", "replace"}
                 PROVE  (Listed(jobs[q].id))' \/ jobs'[q].id \in orphaned'
      OBVIOUS
    <3>1. q # w /\ jobs'[q] = jobs[q] /\ jobs[q].id \in ListIds
      BY <1>1, <1>2, <2>6
    <3>2. PICK j \in ListIds : j = jobs[q].id
      BY <3>1
    <3>3. Listed(j) \/ j \in orphaned
      BY <3>1, <3>2 DEF Filling
    <3>4. (Listed(j))' \/ j \in orphaned'
      BY <3>1, <3>2, <3>3, <2>1, <2>2, <2>3
    <3> QED BY <3>1, <3>2, <3>4 DEF Listed
  <2>8. \A j \in jobs'[Ticker].todo : (Listed(j))' \/ j \in orphaned'
    BY <2>1, <2>2, <2>4, <2>5 DEF Filling
  <2>9. (\A q \in Editors : jobs'[q].todo = {}) /\ \A q \in Workers : jobs'[q].at = "free" => ~jobs'[q].changed
    BY <1>1, <1>2, <1>w DEF Filling, Workers
  <2> QED BY <2>6, <2>7, <2>8, <2>9 DEF Filling
<1>6. InStep'
  BY <1>w, <1>1, <1>u, DueCovers
<1>7. ListOwnsItsContents' /\ NoOrphans'
  BY <1>0 DEF ListOwnsItsContents, NoOrphans, Listed, NoRow, ByHand, ListIds, ListTypes
<1> QED BY <1>3, <1>4, <1>5, <1>6, <1>7

LEMMA ReplaceListRulesKeeps == ASSUME ListsIInv, NEW w \in Workers, ReplaceListRules(w) PROVE ListsIInv'
<1> USE RuleListsConstants DEF ListsIInv
<1>0. jobs[w].at = "replace" /\ UNCHANGED <<lists, lastList, policy, orphaned, excuse>>
  BY DEF ReplaceListRules, At_
<1>i. PICK i \in ListIds : i = jobs[w].id
  BY <1>0 DEF Filling
<1>j. i <= lastList /\ (Listed(i) \/ i \in orphaned)
  BY <1>0, <1>i DEF Given, Filling
<1>r. PICK K \in SUBSET Rules :
        /\ owner' = [k \in Rules |-> IF k \in K THEN i ELSE IF owner[k] = i THEN NoRow ELSE owner[k]]
        /\ applied' = [applied EXCEPT ![i] = K]
  BY <1>i DEF ReplaceListRules
<1>1. PICK e \in Job : /\ jobs' = [jobs EXCEPT ![w] = e] /\ e.at = "mark" /\ e.id = i /\ e.todo = jobs[w].todo /\ e.changed
  <2>1. PICK d \in Job : d = jobs[w]
    BY DEF ListTypes
  <2> DEFINE f == [d EXCEPT !.at = "mark", !.changed = TRUE]
  <2>2. "mark" \in Places
    BY DEF Places
  <2>3. f \in Job /\ f.at = "mark" /\ f.id = d.id /\ f.todo = d.todo /\ f.changed
    BY <2>2 DEF Job
  <2>4. jobs' = [jobs EXCEPT ![w] = f]
    BY <2>1 DEF ReplaceListRules, ListTypes
  <2> QED BY <1>i, <2>1, <2>3, <2>4
<1>2. jobs' \in [Workers -> Job] /\ jobs'[w] = e /\ \A q \in Workers \ {w} : jobs'[q] = jobs[q]
  BY <1>1, JobMoves
<1>3. ListTypes'
  BY <1>0, <1>r, <1>2 DEF ListTypes
<1>4. Given'
  <2>1. \A k \in Rules : owner'[k] <= lastList'
    BY <1>0, <1>r, <1>j DEF Given, ListTypes, NoRow
  <2>2. \A q \in Workers : jobs'[q].id <= lastList' /\ \A j \in jobs'[q].todo : j <= lastList'
    BY <1>0, <1>1, <1>2, <1>j DEF Given
  <2> QED BY <1>0, <2>1, <2>2 DEF Given, Listed
<1>5. Filling'
  <2>1. \A j \in ListIds : Listed(j) => (Listed(j))'
    BY <1>0 DEF Listed
  <2>2. w \in Editors => e.todo = {}
    BY <1>1 DEF Filling
  <2>3. w = Ticker => \A j \in e.todo : (Listed(j))' \/ j \in orphaned'
    BY <1>0, <1>1 DEF Filling, Listed
  <2> QED BY <1>0, <1>1, <2>1, <2>2, <2>3, FillingStays
<1>6. InStep'
  BY <1>0, <1>1, DueCovers
<1>7. ListOwnsItsContents'
  BY <1>0, <1>r DEF ListOwnsItsContents, ListTypes, NoRow, ListIds
<1>8. NoOrphans'
  BY <1>0, <1>r, <1>j DEF NoOrphans, ListTypes, NoRow, ListIds, Listed
<1> QED BY <1>3, <1>4, <1>5, <1>6, <1>7, <1>8

LEMMA BuildPolicyKeeps == ASSUME ListsIInv, NEW w \in Workers, BuildPolicy(w) PROVE ListsIInv'
<1> USE RuleListsConstants DEF ListsIInv
<1>0. jobs[w].at = "build" /\ UNCHANGED <<owner, lists, lastList, policy, applied, orphaned>>
  BY DEF BuildPolicy, At_
<1>1. PICK e \in Job : /\ jobs' = [jobs EXCEPT ![w] = e] /\ e.at = "install" /\ e.id = jobs[w].id /\ e.todo = jobs[w].todo
                       /\ e.keys = ActiveRules
  <2>1. PICK d \in Job : d = jobs[w]
    BY DEF ListTypes
  <2>2. PICK K \in SUBSET Rules : K = ActiveRules
    BY DEF ActiveRules
  <2> DEFINE f == [d EXCEPT !.at = "install", !.keys = K]
  <2>3. "install" \in Places
    BY DEF Places
  <2>4. f \in Job /\ f.at = "install" /\ f.id = d.id /\ f.todo = d.todo /\ f.keys = K
    BY <2>3 DEF Job
  <2>5. jobs' = [jobs EXCEPT ![w] = f]
    BY <2>1, <2>2 DEF BuildPolicy, ListTypes
  <2> QED BY <2>1, <2>2, <2>4, <2>5
<1>2. jobs' \in [Workers -> Job] /\ jobs'[w] = e /\ \A q \in Workers \ {w} : jobs'[q] = jobs[q]
  BY <1>1, JobMoves
<1>3. ListTypes'
  BY <1>0, <1>2 DEF ListTypes, BuildPolicy
<1>4. Given'
  BY <1>0, <1>1, <1>2 DEF Given, Listed
<1>5. Filling'
  <2>1. \A j \in ListIds : Listed(j) => (Listed(j))'
    BY <1>0 DEF Listed
  <2>2. w \in Editors => e.todo = {}
    BY <1>1 DEF Filling
  <2>3. w = Ticker => \A j \in e.todo : (Listed(j))' \/ j \in orphaned'
    BY <1>0, <1>1 DEF Filling, Listed
  <2> QED BY <1>0, <1>1, <2>1, <2>2, <2>3, FillingStays
<1>6. InStep'
  <2> SUFFICES ASSUME excuse' = "none"
               PROVE  /\ \A p, q \in Workers : jobs'[p].at = "install" /\ jobs'[q].at = "install" => p = q
                      /\ \E p \in Workers : jobs'[p].at = "install" /\ jobs'[p].keys = ActiveRules'
    BY DEF InStep, At_
  <2>1. \A q \in Workers \ {w} : jobs[q].at # "install"
    BY DEF BuildPolicy, At_
  <2>2. ActiveRules' = ActiveRules
    BY <1>0 DEF ActiveRules
  <2> QED BY <1>1, <1>2, <2>1, <2>2
<1>7. ListOwnsItsContents' /\ NoOrphans'
  BY <1>0 DEF ListOwnsItsContents, NoOrphans, ListTypes, Listed
<1> QED BY <1>3, <1>4, <1>5, <1>6, <1>7

LEMMA SetPolicyKeeps == ASSUME ListsIInv, NEW w \in Workers, SetPolicy(w) PROVE ListsIInv'
<1> USE RuleListsConstants DEF ListsIInv
<1>0. jobs[w].at = "install" /\ policy' = jobs[w].keys /\ UNCHANGED <<owner, lists, lastList, applied, orphaned, excuse>>
  BY DEF SetPolicy, At_
<1>1. PICK e \in Job : jobs' = [jobs EXCEPT ![w] = e] /\ e.at \in {"free", "done"} /\ e.id = 0 /\ e.todo = {} /\ ~e.changed
  BY JobEnds DEF SetPolicy
<1>2. jobs' \in [Workers -> Job] /\ jobs'[w] = e /\ \A q \in Workers \ {w} : jobs'[q] = jobs[q]
  BY <1>1, JobMoves
<1>3. ListTypes'
  BY <1>0, <1>2, JobHas DEF ListTypes
<1>4. Given'
  <2>1. 0 <= lastList
    BY DEF ListTypes
  <2> QED BY <1>0, <1>1, <1>2, <2>1 DEF Given, Listed
<1>5. Filling'
  <2>1. \A j \in ListIds : Listed(j) => (Listed(j))'
    BY <1>0 DEF Listed
  <2> QED BY <1>0, <1>1, <2>1, FillingStays
<1>6. InStep'
  <2> SUFFICES ASSUME excuse' = "none"
               PROVE  /\ \A p, q \in Workers : jobs'[p].at = "install" /\ jobs'[q].at = "install" => p = q
                      /\ \/ ReloadDue'
                         \/ policy' = ActiveRules' /\ \A q \in Workers : jobs'[q].at # "install"
    BY DEF InStep, At_
  <2>1. \A p, q \in Workers : jobs[p].at = "install" /\ jobs[q].at = "install" => p = q
    BY <1>0 DEF InStep, At_
  <2>2. \A q \in Workers : jobs'[q].at # "install"
    BY <1>0, <1>1, <1>2, <2>1
  <2>3. ActiveRules' = ActiveRules
    BY <1>0 DEF ActiveRules
  <2>4. CASE ReloadDue
    <3>1. PICK q \in Workers : Due(q)
      BY <2>4 DEF ReloadDue
    <3>2. q # w
      BY <1>0, <3>1 DEF Due
    <3>3. Due(q)'
      BY <1>2, <3>1, <3>2 DEF Due
    <3> QED BY <2>2, <3>3 DEF ReloadDue
  <2>5. CASE \E q \in Workers : jobs[q].at = "install" /\ jobs[q].keys = ActiveRules
    BY <1>0, <2>1, <2>2, <2>3, <2>5
  <2> QED BY <1>0, <2>4, <2>5 DEF InStep, At_
<1>7. ListOwnsItsContents' /\ NoOrphans'
  BY <1>0 DEF ListOwnsItsContents, NoOrphans, ListTypes, Listed
<1> QED BY <1>3, <1>4, <1>5, <1>6, <1>7

LEMMA RebootKeeps == ASSUME ListsIInv, NEW w \in Editors, Reboot(w) PROVE ListsIInv'
<1> USE RuleListsConstants DEF ListsIInv
<1>0. /\ jobs' = [q \in Workers |-> IF q # w /\ (q = Ticker \/ jobs[q].at = "free") THEN Free ELSE [Free EXCEPT !.at = "done"]]
      /\ policy' = ActiveRules /\ excuse' = "none" /\ UNCHANGED <<owner, lists, lastList, applied, orphaned>>
  BY DEF Reboot, At_
<1>1. Free \in Job /\ Free.at = "free" /\ Free.id = 0 /\ Free.todo = {} /\ ~Free.changed
  BY DEF Free, Job, Places
<1>2. PICK d \in Job : d = [Free EXCEPT !.at = "done"]
  <2>1. "done" \in Places
    BY DEF Places
  <2>2. [Free EXCEPT !.at = "done"] \in Job
    BY <1>1, <2>1 DEF Job
  <2> QED BY <2>2
<1>3. d.at = "done" /\ d.id = 0 /\ d.todo = {} /\ ~d.changed
  BY <1>2 DEF Free
<1>4. jobs' \in [Workers -> Job] /\ \A q \in Workers : jobs'[q] \in {Free, d}
  BY <1>0, <1>1, <1>2
<1>5. \A q \in Workers : jobs'[q].at \in {"free", "done"} /\ jobs'[q].id = 0 /\ jobs'[q].todo = {} /\ ~jobs'[q].changed
  BY <1>1, <1>3, <1>4
<1>6. ActiveRules' = ActiveRules
  BY <1>0 DEF ActiveRules
<1>7. ListTypes'
  BY <1>0, <1>4 DEF ListTypes, ActiveRules
<1>8. Given'
  <2>1. 0 <= lastList
    BY DEF ListTypes
  <2> QED BY <1>0, <1>5, <2>1 DEF Given, Listed
<1>9. Filling'
  BY <1>5 DEF Filling, Workers
<1>10. InStep'
  BY <1>0, <1>5, <1>6 DEF InStep, At_
<1>11. ListOwnsItsContents' /\ NoOrphans'
  BY <1>0 DEF ListOwnsItsContents, NoOrphans, ListTypes, Listed
<1> QED BY <1>7, <1>8, <1>9, <1>10, <1>11

LEMMA ListsNext == ListsIInv /\ [RlNext]_rlVars => ListsIInv'
<1> SUFFICES ASSUME ListsIInv, [RlNext]_rlVars PROVE ListsIInv'
  OBVIOUS
<1>1. Ticker \in Workers /\ \A w \in Editors : w \in Workers
  BY DEF Workers
<1>2. ASSUME NEW w \in Workers, Work(w) PROVE ListsIInv'
  BY <1>2, FetchKeeps, ReplaceListRulesKeeps, MarkListFetchedKeeps, BuildPolicyKeeps, SetPolicyKeeps DEF Work
<1>3. ASSUME NEW w \in Editors, importList(w) \/ addURLList(w) PROVE ListsIInv'
  BY <1>3, CreateListKeeps DEF importList, addURLList, Arrives, Filled
<1>4. ASSUME NEW w \in Editors, Edit(w) PROVE ListsIInv'
  BY <1>3, <1>4, addRuleKeeps, importRulesKeeps, deleteRuleKeeps, importConfigKeeps, ImportBulkKeeps, refreshListKeeps,
     GetListKeeps, updateListKeeps, SetListEnabledKeeps, UpdateListIntervalKeeps, deleteListKeeps
     DEF Edit
<1>5. CASE TickerStep
  BY <1>1, <1>2, <1>5, tickKeeps, NextDueKeeps DEF TickerStep
<1>6. CASE UNCHANGED rlVars
  <2>1. UNCHANGED <<owner, lists, lastList, policy, jobs, applied, orphaned, excuse>>
    BY <1>6 DEF rlVars
  <2> QED BY <2>1 DEF ListsIInv, ListTypes, Given, Filling, InStep, ReloadDue, Due, At_, ActiveRules, ListOwnsItsContents, NoOrphans,
                      Listed
<1> QED BY <1>1, <1>2, <1>4, <1>5, <1>6, RebootKeeps DEF RlNext

\* Rules and lists, whatever edits, removals, refreshes, imports and restarts
\* overlap (internal/lists, internal/store/lists.go): the policy in force lags
\* behind the tables only while a reload is due or with an excuse, no list owns
\* a rule it was not last given, and no rule is left without its list but by a
\* worker that filled a list just removed.
THEOREM ListsHold == RlSpec => []ListsInv
<1>1. RlInit => ListsIInv
  BY ListsInit
<1>2. ListsIInv /\ [RlNext]_rlVars => ListsIInv'
  BY ListsNext
<1>3. ListsIInv => ListsInv
  BY ListsIInvImplies
<1> QED BY <1>1, <1>2, <1>3, PTL DEF RlSpec

-----------------------------------------------------------------------------
-----------------------------------------------------------------------------
(* Rewrites, forwarders, scopes and sites.                                 *)

CallPlaces == {"fresh", "over", "upsert", "recheck", "update", "delete", "detach", "bulk"}
Call == [at : CallPlaces, id : 0 .. MaxRows, row : Row \cup {NoEntry}, moved : BOOLEAN]

ScopeTypes ==
  /\ kind \in {"rewrite", "forwarder"} /\ rows \in [RowIds -> Row \cup {NoEntry}] /\ lastRow \in 0 .. MaxRows
  /\ sites \subseteq Sites /\ siteOf \in [Nodes -> Sites \cup {NoSite}] /\ roleOf \in [Nodes -> Roles]
  /\ calls \in [Calls -> Call] /\ tainted \in BOOLEAN

\* Ids are given once, and the indexes hold.
Indexed ==
  /\ \A i \in Held : i <= lastRow
  /\ \A c \in Calls : calls[c].id <= lastRow
  /\ Unique(rows)
  /\ \A i, j \in Held : i # j /\ rows[i].ext /\ rows[j].ext => rows[i].owner # rows[j].owner

\* What a call has decided, once it has decided on a row.
Decided(c)  == calls[c].at \in {"upsert", "recheck", "update"}
CallsDecide ==
  /\ \A c \in Calls : calls[c].at \in {"recheck", "update", "delete", "detach"} => calls[c].id \in RowIds
  /\ \A c \in Calls : calls[c].at = "fresh" => ~calls[c].moved
  /\ \A c \in Calls : Decided(c) => calls[c].row \in Row

\* Rows overlap only after a race, an import or a rename; a call that has
\* checked the scope of its row is still right if no other has written since.
Apart(scope, except) == \A i \in Held : i # except => ~scopeValuesIntersect(rows[i].scope, scope)
NoOverlap ==
  tainted \/ /\ \A i \in Held : Apart(rows[i].scope, i)
             /\ \A c \in Calls : calls[c].at \in {"upsert", "update"} /\ ~calls[c].moved
                  => Apart(calls[c].row.scope, calls[c].id)
Unowned(r) == r.owner = Manual /\ r.by = Manual /\ ~r.ext
\* A value is the owner's, that of a row as that which a call is to write.
Owned ==
  /\ \A i \in Held : rows[i].by = rows[i].owner \/ rows[i].passed
  /\ \A c \in Calls : calls[c].at = "upsert" => calls[c].id = 0 /\ calls[c].row.by = calls[c].row.owner
  /\ \A c \in Calls : calls[c].at \in {"recheck", "update"} /\ calls[c].id \in Held
       => rows[calls[c].id].passed \/ calls[c].row.by = rows[calls[c].id].owner
  /\ kind = "forwarder" => /\ \A i \in Held : Unowned(rows[i])
                           /\ \A c \in Calls : Decided(c) => Unowned(calls[c].row)

OnePrimary ==
  /\ OnePrimaryPerSite
  /\ \A n \in Nodes : siteOf[n] = NoSite => roleOf[n] # "primary"

ScopesIInv == ScopeTypes /\ Indexed /\ CallsDecide /\ NoOverlap /\ Owned /\ OnePrimary

LEMMA NoEntryIsNoRow == NoEntry \notin Row
BY ScopedConfigConstants DEF NoEntry, Row, Owners, Manual

LEMMA RowFields ==
  ASSUME NEW r \in Row
  PROVE  /\ r.scope \in CanonicalScope /\ r.owner \in Owners /\ r.by \in Owners
         /\ r.enabled \in BOOLEAN /\ r.ext \in BOOLEAN /\ r.passed \in BOOLEAN
BY DEF Row

LEMMA ScopeCases ==
  ASSUME NEW s \in CanonicalScope
  PROVE  \/ s = AllScope
         \/ s.type = "nodes" /\ s.values \subseteq Nodes
         \/ s.type = "sites" /\ s.values \subseteq Sites
BY DEF CanonicalScope, AllScope

LEMMA AllIsAll == AllScope.type = "all"
BY DEF AllScope

\* Rows that both apply to a node with the same rank are of one type.
LEMMA SameRankMeets ==
  ASSUME NEW r \in CanonicalScope, NEW s \in CanonicalScope, NEW n \in Nodes,
         ScopeMatches(r, n), ScopeMatches(s, n), scopeRank(r) = scopeRank(s)
  PROVE  r = s \/ scopeValuesIntersect(r, s)
<1>1. CASE r = AllScope
  <2>1. scopeRank(r) = 1 /\ scopeRank(s) = 1
    BY <1>1, AllIsAll DEF scopeRank
  <2>2. s = AllScope
    BY <2>1, ScopeCases DEF scopeRank
  <2> QED BY <1>1, <2>2
<1>2. CASE r.type = "nodes"
  <2>1. scopeRank(s) = 3
    BY <1>2 DEF scopeRank
  <2>2. s.type = "nodes"
    BY <2>1, ScopeCases, AllIsAll DEF scopeRank
  <2> QED BY <1>2, <2>2 DEF ScopeMatches, scopeValuesIntersect
<1>3. CASE r.type = "sites"
  <2>1. scopeRank(s) = 2
    BY <1>3 DEF scopeRank
  <2>2. s.type = "sites"
    BY <2>1, ScopeCases, AllIsAll DEF scopeRank
  <2> QED BY <1>3, <2>2 DEF ScopeMatches, scopeValuesIntersect
<1> QED BY <1>1, <1>2, <1>3, ScopeCases

LEMMA RanksAre == ASSUME NEW s PROVE scopeRank(s) \in 1 .. 3
BY DEF scopeRank

LEMMA OneOrNone ==
  ASSUME NEW S, \A i, j \in S : i = j
  PROVE  Cardinality(S) <= 1
<1>1. CASE S = {}
  BY <1>1, FS_EmptySet
<1>2. CASE S # {}
  <2>1. PICK x \in S : TRUE
    BY <1>2
  <2>2. S = {x}
    BY <2>1
  <2> QED BY <2>2, FS_Singleton
<1> QED BY <1>1, <1>2

LEMMA WinnerIsOne == ScopesIInv => OneWinner
<1> SUFFICES ASSUME ScopesIInv, ~tainted, NEW n \in Nodes PROVE Cardinality(Served(n)) <= 1
  BY DEF OneWinner
<1>1. \A i \in Held : rows[i] \in Row /\ rows[i].scope \in CanonicalScope /\ rows[i].enabled \in BOOLEAN
  BY RowFields DEF ScopesIInv, ScopeTypes, Held
<1>2. ASSUME NEW i \in Held, NEW j \in Held, ScopeMatches(rows[i].scope, n), ScopeMatches(rows[j].scope, n),
             scopeRank(rows[i].scope) = scopeRank(rows[j].scope)
      PROVE  i = j
  <2>1. rows[i].scope = rows[j].scope \/ scopeValuesIntersect(rows[i].scope, rows[j].scope)
    BY <1>1, <1>2, SameRankMeets
  <2> QED BY <2>1 DEF ScopesIInv, NoOverlap, Apart, Indexed, Unique, Held
<1>3. \A i, j \in Served(n) : i = j
  <2> SUFFICES ASSUME NEW i \in Served(n), NEW j \in Served(n) PROVE i = j
    OBVIOUS
  <2>1. i \in Held /\ j \in Held /\ ScopeMatches(rows[i].scope, n) /\ ScopeMatches(rows[j].scope, n)
    BY DEF Served, filterRewritesForNode, filterForwardersForNode
  <2> DEFINE ri == scopeRank(rows[i].scope)
             rj == scopeRank(rows[j].scope)
  <2>2. ri \in 1 .. 3 /\ rj \in 1 .. 3
    BY RanksAre
  <2>3. CASE kind = "rewrite"
    <3>1. ri + (IF rows[i].enabled THEN 3 ELSE 0) = rj + (IF rows[j].enabled THEN 3 ELSE 0)
      <4>1. ri + (IF rows[i].enabled THEN 3 ELSE 0) <= rj + (IF rows[j].enabled THEN 3 ELSE 0)
        BY <2>1, <2>3 DEF Served, filterRewritesForNode
      <4>2. rj + (IF rows[j].enabled THEN 3 ELSE 0) <= ri + (IF rows[i].enabled THEN 3 ELSE 0)
        BY <2>1, <2>3 DEF Served, filterRewritesForNode
      <4> HIDE DEF ri, rj
      <4> QED BY <2>2, <4>1, <4>2
    <3>2. ri = rj
      <4> HIDE DEF ri, rj
      <4> QED BY <2>2, <3>1
    <3> QED BY <1>2, <2>1, <3>2
  <2>4. CASE kind # "rewrite"
    <3>1. ri <= rj /\ rj <= ri
      BY <2>4 DEF Served, filterForwardersForNode
    <3>2. ri = rj
      <4> HIDE DEF ri, rj
      <4> QED BY <2>2, <3>1
    <3> QED BY <1>2, <2>1, <3>2
  <2> QED BY <2>3, <2>4
<1> QED BY <1>3, OneOrNone

LEMMA ScopesIInvImplies == ScopesIInv => ScopesInv
<1> SUFFICES ASSUME ScopesIInv PROVE ScopesInv
  OBVIOUS
<1>1. ScTypeOK
  BY DEF ScopesIInv, ScopeTypes, Indexed, ScTypeOK, Held
<1>2. OwnersWroteThem /\ OnePrimaryPerSite
  BY DEF ScopesIInv, Owned, OwnersWroteThem, OnePrimary
<1> QED BY <1>1, <1>2, WinnerIsOne DEF ScopesInv

LEMMA ScopesInit == ScInit => ScopesIInv
<1> SUFFICES ASSUME ScInit PROVE ScopesIInv
  OBVIOUS
<1>0. PICK s \in Sites, n \in Nodes : /\ siteOf = [m \in Nodes |-> IF m = n THEN s ELSE NoSite]
                                      /\ roleOf = [m \in Nodes |-> IF m = n THEN "primary" ELSE ""]
  BY DEF ScInit
<1> USE ScopedConfigConstants
<1>1. PICK scope \in CanonicalScope, source \in Owners :
       /\ lastRow = 0 \/ kind = "forwarder" => source = Manual
       /\ rows = [i \in RowIds |-> IF i = 1 /\ lastRow = 1
                     THEN [scope |-> scope, owner |-> source, enabled |-> TRUE, ext |-> FALSE, by |-> source, passed |-> FALSE]
                     ELSE NoEntry]
  BY DEF ScInit
<1>2. PICK r \in Row : r = [scope |-> scope, owner |-> source, enabled |-> TRUE, ext |-> FALSE, by |-> source, passed |-> FALSE]
  BY DEF Row
<1>3. r.by = source /\ r.owner = source /\ ~r.ext
  BY <1>2
<1>4. rows \in [RowIds -> Row \cup {NoEntry}] /\ \A i \in Held : i = 1 /\ lastRow = 1 /\ rows[i] = r
  BY <1>1, <1>2 DEF Held
<1>5. calls = [c \in Calls |-> Fresh] /\ Fresh.at = "fresh" /\ Fresh.id = 0 /\ ~Fresh.moved
  BY DEF ScInit, Fresh
<1>6. ScopeTypes
  <2>1. "fresh" \in CallPlaces /\ 0 \in 0 .. MaxRows
    BY DEF CallPlaces
  <2>2. Fresh \in Call
    BY <2>1 DEF Fresh, Call
  <2>3. calls \in [Calls -> Call]
    BY <1>5, <2>2
  <2>4. /\ lastRow \in 0 .. MaxRows /\ kind \in {"rewrite", "forwarder"} /\ tainted \in BOOLEAN
        /\ siteOf \in [Nodes -> Sites \cup {NoSite}] /\ roleOf \in [Nodes -> Roles] /\ sites \subseteq Sites
    <3>3. sites \subseteq Sites
      BY DEF ScInit
    <3>1. lastRow \in {0, 1} /\ kind \in {"rewrite", "forwarder"} /\ tainted \in BOOLEAN
      BY DEF ScInit
    <3>2. lastRow \in 0 .. MaxRows
      BY <3>1
    <3> QED BY <1>0, <3>1, <3>2, <3>3 DEF Roles
  <2> QED BY <1>4, <2>3, <2>4 DEF ScopeTypes
<1>7. Indexed /\ CallsDecide /\ NoOverlap
  <2>1. \A c \in Calls : calls[c].at = "fresh" /\ calls[c].id = 0 /\ ~calls[c].moved
    BY <1>5
  <2>2. lastRow \in {0, 1}
    BY DEF ScInit
  <2>3. Indexed
    BY <1>4, <2>1, <2>2 DEF Indexed, Unique, Held
  <2>4. CallsDecide /\ NoOverlap
    BY <1>4, <2>1 DEF CallsDecide, NoOverlap, Apart, Decided
  <2> QED BY <2>3, <2>4
<1>8. Owned
  BY <1>1, <1>4, <1>5, <1>3 DEF ScInit, Owned, Decided, Unowned
<1>9. OnePrimary
  <2> QED BY <1>0 DEF OnePrimary, OnePrimaryPerSite
<1> QED BY <1>6, <1>7, <1>8, <1>9 DEF ScopesIInv

\* The rows of a table: typed, under their indexes, with the values of their
\* owners.
TableOK(t) ==
  /\ t \in [RowIds -> Row \cup {NoEntry}]
  /\ Unique(t)
  /\ \A i, j \in RowIds : t[i] # NoEntry /\ t[j] # NoEntry /\ i # j /\ t[i].ext /\ t[j].ext => t[i].owner # t[j].owner
  /\ \A i \in RowIds : t[i] # NoEntry => /\ t[i].by = t[i].owner \/ t[i].passed
                                         /\ kind = "forwarder" => Unowned(t[i])

LEMMA TableNow == ScopesIInv => TableOK(rows)
BY DEF ScopesIInv, ScopeTypes, Indexed, Owned, TableOK, Held

\* What a pending call knows of its row stays so.
RowsFollow ==
  \A i \in Held' : i <= lastRow =>
    /\ i \in Held
    /\ \/ rows'[i].passed
       \/ rows'[i].owner = rows[i].owner /\ (rows[i].passed => rows'[i].passed)
       \/ kind = "forwarder"

\* The other calls go on; those that have decided may learn that they are late.
OthersFollow(c) ==
  /\ calls' \in [Calls -> Call]
  /\ \A d \in Calls \ {c} :
       /\ calls'[d].at = calls[d].at /\ calls'[d].id = calls[d].id /\ calls'[d].row = calls[d].row
       /\ calls[d].moved => calls'[d].moved
       /\ calls[d].at = "fresh" => calls'[d].moved = calls[d].moved

\* What a call decides itself.
OwnCall(c) ==
  /\ calls[c].id <= lastRow
  /\ calls[c].at \in {"recheck", "update", "delete", "detach"} => calls[c].id \in RowIds
  /\ calls[c].at = "fresh" => ~calls[c].moved
  /\ Decided(c) => calls[c].row \in Row
  /\ tainted \/ (calls[c].at \in {"upsert", "update"} /\ ~calls[c].moved => Apart(calls[c].row.scope, calls[c].id))
  /\ calls[c].at = "upsert" => calls[c].id = 0 /\ calls[c].row.by = calls[c].row.owner
  /\ calls[c].at \in {"recheck", "update"} /\ calls[c].id \in Held
       => rows[calls[c].id].passed \/ calls[c].row.by = rows[calls[c].id].owner
  /\ kind = "forwarder" => (Decided(c) => Unowned(calls[c].row))

LEMMA OwnCallNow == ASSUME ScopesIInv, NEW c \in Calls PROVE OwnCall(c)
BY DEF ScopesIInv, Indexed, CallsDecide, NoOverlap, Owned, OwnCall

\* What is left to show of a step: what it does to the table and to its call.
LEMMA StepKeeps ==
  ASSUME ScopesIInv, NEW c \in Calls, OthersFollow(c), OwnCall(c)', kind' = kind,
         TableOK(rows'), lastRow' \in 0 .. MaxRows, lastRow <= lastRow', \A i \in Held' : i <= lastRow', RowsFollow,
         tainted' \in BOOLEAN, tainted' \/ (\A i \in Held : Apart(rows[i].scope, i))',
         \/ tainted' \/ Held' = {} \/ (rows' = rows /\ tainted' = tainted)
         \/ \A d \in Calls \ {c} : calls[d].at \in {"upsert", "update"} => calls'[d].moved,
         sites' \subseteq Sites, siteOf' \in [Nodes -> Sites \cup {NoSite}], roleOf' \in [Nodes -> Roles], OnePrimary'
  PROVE  ScopesIInv'
<1>1. ScopeTypes'
  BY DEF ScopesIInv, ScopeTypes, OthersFollow, TableOK
<1>2. Indexed'
  <2>1. \A d \in Calls : calls'[d].id <= lastRow'
    <3> SUFFICES ASSUME NEW d \in Calls PROVE calls'[d].id <= lastRow'
      OBVIOUS
    <3>1. CASE d = c
      BY <3>1 DEF OwnCall
    <3>2. CASE d # c
      <4>1. calls'[d].id = calls[d].id /\ calls[d].id <= lastRow /\ calls[d].id \in 0 .. MaxRows
        BY <3>2 DEF OthersFollow, ScopesIInv, Indexed, ScopeTypes, Call
      <4> QED BY <4>1, ScopedConfigConstants DEF ScopesIInv, ScopeTypes
    <3> QED BY <3>1, <3>2
  <2> QED BY <2>1 DEF Indexed, TableOK, Held
<1>3. CallsDecide'
  BY DEF ScopesIInv, CallsDecide, Decided, OwnCall, OthersFollow
<1>4. NoOverlap'
  <2> SUFFICES ASSUME ~tainted', NEW d \in Calls, d # c, calls'[d].at \in {"upsert", "update"}, ~calls'[d].moved
               PROVE  (Apart(calls[d].row.scope, calls[d].id))'
    BY DEF NoOverlap, OwnCall
  <2>1. calls[d].at \in {"upsert", "update"} /\ ~calls[d].moved /\ calls'[d].row = calls[d].row /\ calls'[d].id = calls[d].id
    BY DEF OthersFollow
  <2>2. CASE Held' = {}
    BY <2>2 DEF Apart
  <2>3. CASE rows' = rows /\ tainted' = tainted
    BY <2>1, <2>3 DEF ScopesIInv, NoOverlap, Apart, Held
  <2> QED BY <2>1, <2>2, <2>3
<1>5. Owned'
  <2>1. \A i \in Held' : rows'[i].by = rows'[i].owner \/ rows'[i].passed
    BY DEF TableOK, Held
  <2>2. \A d \in Calls : calls'[d].at = "upsert" => calls'[d].id = 0 /\ calls'[d].row.by = calls'[d].row.owner
    BY DEF ScopesIInv, Owned, OwnCall, OthersFollow
  <2>3. kind' = "forwarder" => /\ \A i \in Held' : Unowned(rows'[i])
                               /\ \A d \in Calls : Decided(d)' => Unowned(calls'[d].row)
    BY DEF ScopesIInv, Owned, OwnCall, OthersFollow, Decided, TableOK, Held
  <2>4. \A d \in Calls : calls'[d].at \in {"recheck", "update"} /\ calls'[d].id \in Held'
           => rows'[calls'[d].id].passed \/ calls'[d].row.by = rows'[calls'[d].id].owner
    <3> SUFFICES ASSUME NEW d \in Calls, d # c, calls'[d].at \in {"recheck", "update"}, calls'[d].id \in Held'
                 PROVE  rows'[calls'[d].id].passed \/ calls'[d].row.by = rows'[calls'[d].id].owner
      BY DEF OwnCall
    <3>1. PICK i \in Held' : i = calls'[d].id
      OBVIOUS
    <3>2. calls[d].at \in {"recheck", "update"} /\ calls[d].id = i /\ calls'[d].row = calls[d].row
      BY <3>1 DEF OthersFollow
    <3>3. i <= lastRow
      BY <3>2 DEF ScopesIInv, Indexed
    <3>4. i \in Held /\ (rows[i].passed \/ calls[d].row.by = rows[i].owner)
      BY <3>2, <3>3 DEF ScopesIInv, Owned, RowsFollow
    <3>5. CASE kind = "forwarder"
      BY <2>3, <3>1, <3>2, <3>5 DEF Decided, Unowned
    <3> QED BY <3>1, <3>2, <3>3, <3>4, <3>5 DEF RowsFollow
  <2> QED BY <2>1, <2>2, <2>3, <2>4 DEF Owned
<1> QED BY <1>1, <1>2, <1>3, <1>4, <1>5 DEF ScopesIInv

LEMMA OverIs == Over \in Call /\ Over.at = "over" /\ Over.id = 0 /\ ~Over.moved
<1>1. "over" \in CallPlaces /\ 0 \in 0 .. MaxRows
  BY ScopedConfigConstants DEF CallPlaces
<1> QED BY <1>1 DEF Over, Fresh, Call

LEMMA CallTurns ==
  ASSUME ScopesIInv, NEW c \in Calls, NEW e \in Call, calls' = [calls EXCEPT ![c] = e]
  PROVE  OthersFollow(c) /\ calls'[c] = e
BY DEF ScopesIInv, ScopeTypes, OthersFollow

LEMMA CallGoes ==
  ASSUME ScopesIInv, NEW c \in Calls, NEW s \in CallPlaces, NEW i \in 0 .. MaxRows, NEW r \in Row \cup {NoEntry},
         Goes(c, s, i, r)
  PROVE  OthersFollow(c) /\ calls'[c].at = s /\ calls'[c].id = i /\ calls'[c].row = r /\ ~calls'[c].moved
<1>1. PICK e \in Call : e = [at |-> s, id |-> i, row |-> r, moved |-> FALSE]
  BY DEF Call
<1>2. e.at = s /\ e.id = i /\ e.row = r /\ ~e.moved
  BY <1>1
<1>3. calls' = [calls EXCEPT ![c] = e]
  BY <1>1 DEF Goes
<1> QED BY <1>2, <1>3, CallTurns

LEMMA CallEnds ==
  ASSUME ScopesIInv, NEW c \in Calls, Ends(c)
  PROVE  OthersFollow(c) /\ calls'[c] = Over
BY CallTurns, OverIs DEF Ends

\* A write: the calls under way learn that they are late.
LEMMA PutsFollow ==
  ASSUME ScopesIInv, NEW c \in Calls, NEW new, Puts(c, new)
  PROVE  /\ rows' = new /\ OthersFollow(c) /\ calls'[c] = Over
         /\ \A d \in Calls \ {c} : calls[d].at \in {"upsert", "update"} => calls'[d].moved
<1>1. \A d \in Calls : calls[d] \in Call
  BY DEF ScopesIInv, ScopeTypes
<1>2. rows' = new /\ calls'[c] = Over
  BY DEF Puts
<1>3. \A d \in Calls : calls'[d] \in Call
  <2> SUFFICES ASSUME NEW d \in Calls PROVE calls'[d] \in Call
    OBVIOUS
  <2>1. CASE d = c
    BY <1>2, <2>1, OverIs
  <2>2. PICK e \in Call : e = calls[d]
    BY <1>1
  <2>3. [e EXCEPT !.moved = TRUE] \in Call
    BY DEF Call
  <2> QED BY <2>1, <2>2, <2>3 DEF Puts
<1>4. \A d \in Calls \ {c} : \/ calls'[d] = calls[d] /\ calls[d].at \in {"fresh", "over"}
                             \/ calls'[d] = [calls[d] EXCEPT !.moved = TRUE] /\ calls[d].at \notin {"fresh", "over"}
  BY DEF Puts
<1>5. \A e \in Call : LET f == [e EXCEPT !.moved = TRUE] IN f.at = e.at /\ f.id = e.id /\ f.row = e.row /\ f.moved
  BY DEF Call
<1>6. calls' \in [Calls -> Call]
  <2>1. calls' = [d \in Calls |-> calls'[d]]
    BY DEF Puts
  <2> QED BY <1>3, <2>1
<1>7. \A d \in Calls \ {c} :
        /\ calls'[d].at = calls[d].at /\ calls'[d].id = calls[d].id /\ calls'[d].row = calls[d].row
        /\ calls[d].at \notin {"fresh", "over"} => calls'[d].moved
        /\ calls[d].at \in {"fresh", "over"} => calls'[d] = calls[d]
  BY <1>1, <1>4, <1>5
<1> QED BY <1>1, <1>2, <1>6, <1>7 DEF OthersFollow

LEMMA OverDecides ==
  ASSUME ScopesIInv, NEW c \in Calls, calls'[c] = Over, lastRow' \in 0 .. MaxRows
  PROVE  OwnCall(c)'
<1>1. 0 <= lastRow'
  BY ScopedConfigConstants
<1> QED BY <1>1, OverIs DEF OwnCall, Decided

\* A step of a call that leaves everything else as it is.
LEMMA OnlyCallKeeps ==
  ASSUME ScopesIInv, NEW c \in Calls, OthersFollow(c), OwnCall(c)', UNCHANGED <<kind, rows, lastRow, placement, tainted>>
  PROVE  ScopesIInv'
<1>1. TableOK(rows') /\ Held' = Held /\ lastRow \in Nat
  BY TableNow, ScopedConfigConstants DEF Held, ScopesIInv, ScopeTypes
<1>2. OnePrimary'
  BY DEF placement, ScopesIInv, OnePrimary, OnePrimaryPerSite
<1>3. tainted' \/ (\A i \in Held : Apart(rows[i].scope, i))'
  BY <1>1 DEF ScopesIInv, NoOverlap, Apart
<1>4. RowsFollow
  BY <1>1 DEF RowsFollow
<1>5. kind' = kind /\ lastRow' \in 0 .. MaxRows /\ lastRow <= lastRow' /\ (\A i \in Held' : i <= lastRow') /\ tainted' \in BOOLEAN
      /\ sites' \subseteq Sites /\ siteOf' \in [Nodes -> Sites \cup {NoSite}] /\ roleOf' \in [Nodes -> Roles]
  BY <1>1 DEF ScopesIInv, ScopeTypes, Indexed, placement
<1> QED BY <1>1, <1>2, <1>3, <1>4, <1>5, StepKeeps

LEMMA EndKeeps ==
  ASSUME ScopesIInv, NEW c \in Calls, Ends(c), UNCHANGED <<kind, rows, lastRow, placement, tainted>>
  PROVE  ScopesIInv'
BY CallEnds, OverDecides, OnlyCallKeeps DEF ScopesIInv, ScopeTypes

\* A write of the table that ends the call.
LEMMA WriteKeeps ==
  ASSUME ScopesIInv, NEW c \in Calls, OthersFollow(c), calls'[c] = Over, UNCHANGED <<kind, placement>>,
         TableOK(rows'), lastRow' \in 0 .. MaxRows, lastRow <= lastRow', \A i \in Held' : i <= lastRow', RowsFollow,
         tainted' \in BOOLEAN, tainted' \/ (\A i \in Held : Apart(rows[i].scope, i))',
         tainted' \/ \A d \in Calls \ {c} : calls[d].at \in {"upsert", "update"} => calls'[d].moved
  PROVE  ScopesIInv'
<1>1. OwnCall(c)'
  BY OverDecides
<1>2. OnePrimary'
  BY DEF placement, ScopesIInv, OnePrimary, OnePrimaryPerSite
<1>3. kind' = kind /\ sites' \subseteq Sites /\ siteOf' \in [Nodes -> Sites \cup {NoSite}] /\ roleOf' \in [Nodes -> Roles]
  BY DEF ScopesIInv, ScopeTypes, placement
<1> QED BY <1>1, <1>2, <1>3, StepKeeps

LEMMA WritesTaint == ASSUME ScopesIInv, NEW c \in Calls, NEW new, Writes(c, new)
                     PROVE  tainted' \in BOOLEAN /\ (~tainted' => ~tainted /\ ~calls[c].moved) /\ Puts(c, new)
<1>1. calls[c].moved \in BOOLEAN /\ tainted \in BOOLEAN
  BY DEF ScopesIInv, ScopeTypes, Call
<1> QED BY <1>1 DEF Writes

\* One row is put where its scope is not taken by another.
LEMMA PutOne ==
  ASSUME ScopesIInv, NEW i \in RowIds, NEW r \in Row, rows' = [rows EXCEPT ![i] = r],
         With(r.scope) \subseteq {i}, r.by = r.owner \/ r.passed, kind = "forwarder" => Unowned(r),
         r.ext => \A j \in Held : j # i /\ rows[j].ext => rows[j].owner # r.owner
  PROVE  /\ TableOK(rows') /\ Held' = Held \cup {i} /\ rows'[i] = r /\ \A j \in Held' : j # i => rows'[j] = rows[j]
         /\ (\A j \in Held : Apart(rows[j].scope, j)) /\ Apart(r.scope, i) => (\A j \in Held : Apart(rows[j].scope, j))'
<1>1. rows \in [RowIds -> Row \cup {NoEntry}] /\ TableOK(rows) /\ r # NoEntry
  BY TableNow, NoEntryIsNoRow DEF ScopesIInv, ScopeTypes
<1>2. \A j \in RowIds : rows'[j] = IF j = i THEN r ELSE rows[j]
  BY <1>1
<1>3. rows' \in [RowIds -> Row \cup {NoEntry}]
  BY <1>1
<1>4. Held' = Held \cup {i}
  BY <1>1, <1>2 DEF Held
<1>5. Unique(rows')
  BY <1>1, <1>2 DEF TableOK, Unique, With, Held
<1>6. \A j, k \in RowIds : rows'[j] # NoEntry /\ rows'[k] # NoEntry /\ j # k /\ rows'[j].ext /\ rows'[k].ext
         => rows'[j].owner # rows'[k].owner
  BY <1>1, <1>2 DEF TableOK, Held
<1>7. \A j \in RowIds : rows'[j] # NoEntry => /\ rows'[j].by = rows'[j].owner \/ rows'[j].passed
                                              /\ kind = "forwarder" => Unowned(rows'[j])
  BY <1>1, <1>2 DEF TableOK
<1>8. ASSUME \A j \in Held : Apart(rows[j].scope, j), Apart(r.scope, i)
      PROVE  (\A j \in Held : Apart(rows[j].scope, j))'
  <2> SUFFICES ASSUME NEW j \in Held', NEW k \in Held', j # k
               PROVE  ~scopeValuesIntersect(rows'[k].scope, rows'[j].scope)
    BY DEF Apart
  <2>1. j \in RowIds /\ k \in RowIds
    BY DEF Held
  <2>2. CASE j = i
    BY <1>2, <1>4, <1>8, <2>1, <2>2 DEF Apart
  <2>3. CASE k = i
    <3>1. j \in Held /\ rows'[k] = r /\ rows'[j] = rows[j]
      BY <1>2, <1>4, <2>1, <2>3
    <3>2. ~scopeValuesIntersect(rows[j].scope, r.scope)
      BY <1>8, <2>3, <3>1 DEF Apart
    <3> QED BY <3>1, <3>2 DEF scopeValuesIntersect
  <2>4. CASE j # i /\ k # i
    BY <1>2, <1>4, <1>8, <2>1, <2>4 DEF Apart
  <2> QED BY <2>2, <2>3, <2>4
<1> QED BY <1>2, <1>3, <1>4, <1>5, <1>6, <1>7, <1>8 DEF TableOK, Held

LEMMA RemoveOne ==
  ASSUME ScopesIInv, NEW i \in RowIds, rows' = [rows EXCEPT ![i] = NoEntry]
  PROVE  /\ TableOK(rows') /\ Held' = Held \ {i} /\ \A j \in Held' : rows'[j] = rows[j]
         /\ (\A j \in Held : Apart(rows[j].scope, j)) => (\A j \in Held : Apart(rows[j].scope, j))'
<1>1. rows \in [RowIds -> Row \cup {NoEntry}] /\ TableOK(rows)
  BY TableNow DEF ScopesIInv, ScopeTypes
<1>2. \A j \in RowIds : rows'[j] = IF j = i THEN NoEntry ELSE rows[j]
  BY <1>1
<1>3. rows' \in [RowIds -> Row \cup {NoEntry}]
  BY <1>1
<1>4. Held' = Held \ {i}
  BY <1>1, <1>2 DEF Held
<1>5. TableOK(rows')
  BY <1>1, <1>2, <1>3 DEF TableOK, Unique
<1>6. \A j \in Held' : j \in Held /\ rows'[j] = rows[j]
  BY <1>2, <1>4 DEF Held
<1> QED BY <1>4, <1>5, <1>6 DEF Apart

LEMMA HeldRow == ASSUME ScopesIInv, NEW i \in Held PROVE i \in RowIds /\ rows[i] \in Row /\ i <= lastRow
BY DEF ScopesIInv, ScopeTypes, Indexed, Held

LEMMA Numbers == ScopesIInv => /\ lastRow \in 0 .. MaxRows /\ MaxRows \in Nat /\ lastRow \in Nat
                               /\ RowIds \subseteq 0 .. MaxRows /\ 0 \in 0 .. MaxRows
BY ScopedConfigConstants DEF ScopesIInv, ScopeTypes, RowIds

\* Another row of the same scope there is not.
LEMMA WithOne == ASSUME ScopesIInv, NEW i \in Held PROVE With(rows[i].scope) = {i}
BY DEF ScopesIInv, Indexed, Unique, With, Held

\* A write that gives a new row its id.
LEMMA NewKeeps ==
  ASSUME ScopesIInv, NEW c \in Calls, NEW r \in Row, OthersFollow(c), calls'[c] = Over, UNCHANGED <<kind, placement>>,
         With(r.scope) = {}, lastRow < MaxRows, lastRow' = lastRow + 1, rows' = New(r),
         r.by = r.owner \/ r.passed, kind = "forwarder" => Unowned(r),
         r.ext => \A j \in Held : rows[j].ext => rows[j].owner # r.owner,
         tainted' \in BOOLEAN, tainted' \/ (~tainted /\ Apart(r.scope, 0)),
         tainted' \/ \A d \in Calls \ {c} : calls[d].at \in {"upsert", "update"} => calls'[d].moved
  PROVE  ScopesIInv'
<1>1. PICK i \in RowIds : i = lastRow + 1
  BY Numbers DEF RowIds
<1>2. i \notin Held /\ \A j \in Held : j <= lastRow /\ j \in RowIds
  BY <1>1, HeldRow, Numbers
<1>3. rows' = [rows EXCEPT ![i] = r]
  BY <1>1 DEF New
<1>4. /\ TableOK(rows') /\ Held' = Held \cup {i} /\ rows'[i] = r /\ \A j \in Held' : j # i => rows'[j] = rows[j]
      /\ (\A j \in Held : Apart(rows[j].scope, j)) /\ Apart(r.scope, i) => (\A j \in Held : Apart(rows[j].scope, j))'
  BY <1>3, PutOne
<1>5. tainted' \/ (\A j \in Held : Apart(rows[j].scope, j))'
  <2> SUFFICES ASSUME ~tainted' PROVE (\A j \in Held : Apart(rows[j].scope, j))'
    OBVIOUS
  <2>1. \A j \in Held : Apart(rows[j].scope, j)
    BY DEF ScopesIInv, NoOverlap
  <2>2. Apart(r.scope, i)
    <3>1. 0 \notin Held
      BY DEF Held, RowIds
    <3> QED BY <1>2, <3>1 DEF Apart
  <2> QED BY <1>4, <2>1, <2>2
<1>6. RowsFollow
  <2> SUFFICES ASSUME NEW j \in Held', j <= lastRow PROVE j \in Held /\ rows'[j] = rows[j]
    BY DEF RowsFollow
  <2>1. j # i
    BY <1>1, Numbers
  <2> QED BY <1>4, <2>1
<1>7. lastRow' \in 0 .. MaxRows /\ lastRow <= lastRow' /\ \A j \in Held' : j <= lastRow'
  BY <1>1, <1>2, <1>4, Numbers DEF RowIds
<1> QED BY <1>4, <1>5, <1>6, <1>7, WriteKeeps

\* A write of a row that is there.
LEMMA ChangeKeeps ==
  ASSUME ScopesIInv, NEW c \in Calls, NEW i \in Held, NEW r \in Row, OthersFollow(c), calls'[c] = Over,
         UNCHANGED <<kind, placement, lastRow>>, rows' = [rows EXCEPT ![i] = r],
         With(r.scope) \subseteq {i}, r.by = r.owner \/ r.passed, kind = "forwarder" => Unowned(r),
         r.ext => \A j \in Held : j # i /\ rows[j].ext => rows[j].owner # r.owner,
         \/ r.passed \/ kind = "forwarder" \/ (r.owner = rows[i].owner /\ (rows[i].passed => r.passed)),
         tainted' \in BOOLEAN, tainted' \/ (~tainted /\ Apart(r.scope, i)),
         tainted' \/ \A d \in Calls \ {c} : calls[d].at \in {"upsert", "update"} => calls'[d].moved
  PROVE  ScopesIInv'
<1>1. i \in RowIds
  BY HeldRow
<1>4. /\ TableOK(rows') /\ Held' = Held \cup {i} /\ rows'[i] = r /\ \A j \in Held' : j # i => rows'[j] = rows[j]
      /\ (\A j \in Held : Apart(rows[j].scope, j)) /\ Apart(r.scope, i) => (\A j \in Held : Apart(rows[j].scope, j))'
  BY <1>1, PutOne
<1>5. tainted' \/ (\A j \in Held : Apart(rows[j].scope, j))'
  BY <1>4 DEF ScopesIInv, NoOverlap
<1>6. RowsFollow
  BY <1>4 DEF RowsFollow
<1>7. lastRow' \in 0 .. MaxRows /\ lastRow <= lastRow' /\ \A j \in Held' : j <= lastRow'
  BY <1>4, HeldRow, Numbers
<1> QED BY <1>4, <1>5, <1>6, <1>7, WriteKeeps

-----------------------------------------------------------------------------

LEMMA NoConflictApart ==
  ASSUME NEW scope, NEW except, ~RewriteScopeConflict(scope, except) \/ ~ForwarderScopeConflict(scope, except)
  PROVE  Apart(scope, except)
BY DEF RewriteScopeConflict, ForwarderScopeConflict, Apart

LEMMA addRewriteKeeps == ASSUME ScopesIInv, NEW c \in Calls, addRewrite(c) PROVE ScopesIInv'
<1>1. PICK scope \in CanonicalScope, source \in Owners, ext \in BOOLEAN :
        LET r == [scope |-> scope, owner |-> source, enabled |-> TRUE, ext |-> ext, by |-> source, passed |-> FALSE]
        IN IF RewriteScopeConflict(scope, 0) THEN Ends(c) ELSE Goes(c, "upsert", 0, r)
  BY DEF addRewrite
<1>2. UNCHANGED <<kind, rows, lastRow, placement, tainted>> /\ kind = "rewrite"
  BY DEF addRewrite, Starts
<1>3. PICK r \in Row : r = [scope |-> scope, owner |-> source, enabled |-> TRUE, ext |-> ext, by |-> source, passed |-> FALSE]
  BY DEF Row
<1>4. r.scope = scope /\ r.by = r.owner
  BY <1>3
<1>5. CASE RewriteScopeConflict(scope, 0)
  BY <1>1, <1>2, <1>5, EndKeeps
<1>6. CASE ~RewriteScopeConflict(scope, 0)
  <2>1. Goes(c, "upsert", 0, r)
    BY <1>1, <1>3, <1>6
  <2>2. "upsert" \in CallPlaces
    BY DEF CallPlaces
  <2>3. OthersFollow(c) /\ calls'[c].at = "upsert" /\ calls'[c].id = 0 /\ calls'[c].row = r /\ ~calls'[c].moved
    BY <2>1, <2>2, CallGoes, Numbers
  <2>4. Apart(r.scope, 0)'
    BY <1>2, <1>4, <1>6, NoConflictApart DEF Apart, Held
  <2>5. 0 <= lastRow'
    BY <1>2, Numbers
  <2>6. OwnCall(c)'
    BY <1>2, <1>4, <2>3, <2>4, <2>5 DEF OwnCall, Decided
  <2> QED BY <1>2, <2>3, <2>6, OnlyCallKeeps
<1> QED BY <1>5, <1>6

LEMMA UpsertRewriteKeeps == ASSUME ScopesIInv, NEW c \in Calls, UpsertRewrite(c) PROVE ScopesIInv'
<1>0. calls[c].at = "upsert" /\ kind = "rewrite" /\ UNCHANGED <<kind, placement>>
  BY DEF UpsertRewrite
<1>1. PICK r \in Row : r = calls[c].row
  BY <1>0 DEF ScopesIInv, CallsDecide, Decided
<1>2. r.by = r.owner /\ calls[c].id = 0 /\ (tainted \/ calls[c].moved \/ Apart(r.scope, 0))
  BY <1>0, <1>1 DEF ScopesIInv, Owned, NoOverlap
<1>3. CASE ExternalTaken(r, r.scope)
  BY <1>0, <1>1, <1>3, EndKeeps DEF UpsertRewrite
<1>4. CASE ~ExternalTaken(r, r.scope) /\ With(r.scope) = {}
  <2>1. lastRow < MaxRows /\ lastRow' = lastRow + 1 /\ Writes(c, New(r))
    BY <1>1, <1>4 DEF UpsertRewrite
  <2>2. tainted' \in BOOLEAN /\ (~tainted' => ~tainted /\ ~calls[c].moved) /\ Puts(c, New(r))
    BY <2>1, WritesTaint
  <2>3. rows' = New(r) /\ OthersFollow(c) /\ calls'[c] = Over
        /\ \A d \in Calls \ {c} : calls[d].at \in {"upsert", "update"} => calls'[d].moved
    BY <2>2, PutsFollow
  <2>4. r.ext => \A j \in Held : rows[j].ext => rows[j].owner # r.owner
    BY <1>4 DEF ExternalTaken, With
  <2> QED BY <1>0, <1>2, <1>4, <2>1, <2>2, <2>3, <2>4, NewKeeps
<1>5. CASE ~ExternalTaken(r, r.scope) /\ With(r.scope) # {}
  <2>1. PICK i \in With(r.scope) :
          /\ IF rows[i].owner = r.owner
             THEN Writes(c, [rows EXCEPT ![i].by = r.by, ![i].ext = r.ext, ![i].enabled = @ \/ r.owner = Manual])
             ELSE Ends(c) /\ UNCHANGED <<rows, tainted>>
          /\ UNCHANGED lastRow
    BY <1>1, <1>5 DEF UpsertRewrite
  <2>2. i \in Held /\ rows[i].scope = r.scope /\ rows[i] \in Row /\ i \in RowIds /\ With(r.scope) = {i}
    BY HeldRow, WithOne DEF With
  <2>3. CASE rows[i].owner # r.owner
    BY <1>0, <2>1, <2>3, EndKeeps
  <2>4. CASE rows[i].owner = r.owner
    <3> DEFINE new == [rows EXCEPT ![i].by = r.by, ![i].ext = r.ext, ![i].enabled = @ \/ r.owner = Manual]
    <3>1. PICK q \in Row : q = [rows[i] EXCEPT !.by = r.by, !.ext = r.ext, !.enabled = @ \/ r.owner = Manual]
      <4>1. r.by \in Owners /\ r.ext \in BOOLEAN /\ (rows[i].enabled \/ r.owner = Manual) \in BOOLEAN
        BY <2>2, RowFields
      <4> QED BY <2>2, <4>1 DEF Row
    <3>2. q.scope = r.scope /\ q.by = q.owner /\ q.owner = r.owner /\ q.ext = r.ext /\ q.owner = rows[i].owner
          /\ q.passed = rows[i].passed
      BY <1>2, <2>2, <2>4, <3>1 DEF Row
    <3>3. new = [rows EXCEPT ![i] = q]
      BY <2>2, <3>1 DEF ScopesIInv, ScopeTypes
    <3>4. Writes(c, new)
      BY <2>1, <2>4
    <3> HIDE DEF new
    <3>5. tainted' \in BOOLEAN /\ (~tainted' => ~tainted /\ ~calls[c].moved) /\ Puts(c, new)
      BY <3>4, WritesTaint
    <3>6. rows' = new /\ OthersFollow(c) /\ calls'[c] = Over
          /\ \A d \in Calls \ {c} : calls[d].at \in {"upsert", "update"} => calls'[d].moved
      BY <3>5, PutsFollow
    <3>7. q.ext => \A j \in Held : j # i /\ rows[j].ext => rows[j].owner # q.owner
      BY <1>5, <2>2, <3>2 DEF ExternalTaken, With
    <3>8. tainted' \/ (~tainted /\ Apart(q.scope, i))
      <4>1. 0 \notin Held
        BY DEF Held, RowIds
      <4> QED BY <1>2, <3>2, <3>5, <4>1 DEF Apart
    <3> QED BY <1>0, <2>1, <2>2, <3>2, <3>3, <3>5, <3>6, <3>7, <3>8, ChangeKeeps
  <2> QED BY <2>3, <2>4
<1> QED BY <1>3, <1>4, <1>5

LEMMA updateRewriteKeeps == ASSUME ScopesIInv, NEW c \in Calls, updateRewrite(c) PROVE ScopesIInv'
<1>1. PICK i \in Held, scope \in CanonicalScope, source \in Owners, sameValue \in BOOLEAN, enabled \in BOOLEAN :
       /\ rows[i].owner = source \/ (sameValue /\ scope = rows[i].scope)
       /\ Goes(c, "recheck", i, [rows[i] EXCEPT !.scope = scope, !.enabled = enabled, !.by = IF sameValue THEN @ ELSE source])
  BY DEF updateRewrite
<1>2. UNCHANGED <<kind, rows, lastRow, placement, tainted>> /\ kind = "rewrite"
  BY DEF updateRewrite, Starts
<1>3. i \in RowIds /\ rows[i] \in Row /\ i <= lastRow /\ i \in 0 .. MaxRows
  BY HeldRow, Numbers
<1>4. PICK q \in Row : q = [rows[i] EXCEPT !.scope = scope, !.enabled = enabled, !.by = IF sameValue THEN @ ELSE source]
  <2>1. (IF sameValue THEN rows[i].by ELSE source) \in Owners
    BY <1>3, RowFields
  <2> QED BY <1>3, <2>1 DEF Row
<1>5. q.by = (IF sameValue THEN rows[i].by ELSE source)
  BY <1>3, <1>4 DEF Row
<1>6. rows[i].passed \/ q.by = rows[i].owner
  BY <1>1, <1>5 DEF ScopesIInv, Owned
<1>7. "recheck" \in CallPlaces
  BY DEF CallPlaces
<1>8. OthersFollow(c) /\ calls'[c].at = "recheck" /\ calls'[c].id = i /\ calls'[c].row = q
  BY <1>1, <1>3, <1>4, <1>7, CallGoes
<1>9. OwnCall(c)'
  BY <1>2, <1>3, <1>6, <1>8 DEF OwnCall, Decided
<1> QED BY <1>2, <1>8, <1>9, OnlyCallKeeps

LEMMA CallKnows == ASSUME ScopesIInv, NEW c \in Calls PROVE calls[c].id \in 0 .. MaxRows /\ calls[c].row \in Row \cup {NoEntry}
BY DEF ScopesIInv, ScopeTypes, Call

\* RecheckRewrite and RecheckForwarder.
LEMMA RecheckKeeps ==
  ASSUME ScopesIInv, NEW c \in Calls, calls[c].at = "recheck", Apart(calls[c].row.scope, calls[c].id),
         Goes(c, "update", calls[c].id, calls[c].row), UNCHANGED <<kind, rows, lastRow, placement, tainted>>
  PROVE  ScopesIInv'
<1>1. "update" \in CallPlaces
  BY DEF CallPlaces
<1>2. OthersFollow(c) /\ calls'[c].at = "update" /\ calls'[c].id = calls[c].id /\ calls'[c].row = calls[c].row
  BY <1>1, CallKnows, CallGoes
<1>3. Apart(calls[c].row.scope, calls[c].id)'
  BY <1>2 DEF Apart, Held
<1>4. OwnCall(c)'
  BY <1>2, <1>3, OwnCallNow DEF OwnCall, Decided, Held
<1> QED BY <1>2, <1>4, OnlyCallKeeps

LEMMA RecheckRewriteKeeps == ASSUME ScopesIInv, NEW c \in Calls, RecheckRewrite(c) PROVE ScopesIInv'
BY RecheckKeeps, EndKeeps, NoConflictApart DEF RecheckRewrite

LEMMA RecheckForwarderKeeps == ASSUME ScopesIInv, NEW c \in Calls, RecheckForwarder(c) PROVE ScopesIInv'
BY RecheckKeeps, EndKeeps, NoConflictApart DEF RecheckForwarder

LEMMA UpdateRewriteKeeps == ASSUME ScopesIInv, NEW c \in Calls, UpdateRewrite(c) PROVE ScopesIInv'
<1>0. calls[c].at = "update" /\ kind = "rewrite" /\ UNCHANGED <<kind, lastRow, placement>>
  BY DEF UpdateRewrite
<1>1. PICK r \in Row : r = calls[c].row
  BY <1>0 DEF ScopesIInv, CallsDecide, Decided
<1>2. PICK i \in RowIds : i = calls[c].id
  BY <1>0 DEF ScopesIInv, CallsDecide
<1>3. CASE ~(i \in Held /\ With(r.scope) \subseteq {i})
  BY <1>0, <1>1, <1>2, <1>3, EndKeeps DEF UpdateRewrite
<1>4. CASE i \in Held /\ With(r.scope) \subseteq {i}
  <2> DEFINE new == [rows EXCEPT ![i].scope = r.scope, ![i].enabled = r.enabled, ![i].by = r.by]
  <2>1. Writes(c, new)
    BY <1>1, <1>2, <1>4 DEF UpdateRewrite
  <2>2. rows[i] \in Row /\ (rows[i].passed \/ r.by = rows[i].owner)
    BY <1>0, <1>1, <1>2, <1>4, HeldRow DEF ScopesIInv, Owned
  <2>3. PICK q \in Row : q = [rows[i] EXCEPT !.scope = r.scope, !.enabled = r.enabled, !.by = r.by]
    <3>1. r.by \in Owners /\ r.scope \in CanonicalScope /\ r.enabled \in BOOLEAN
      BY RowFields
    <3> QED BY <2>2, <3>1 DEF Row
  <2>4. /\ q.scope = r.scope /\ q.by = r.by /\ q.owner = rows[i].owner /\ q.ext = rows[i].ext /\ q.passed = rows[i].passed
        /\ (q.by = q.owner \/ q.passed)
    BY <2>2, <2>3 DEF Row
  <2>5. new = [rows EXCEPT ![i] = q]
    BY <1>2, <2>3 DEF ScopesIInv, ScopeTypes
  <2> HIDE DEF new
  <2>6. tainted' \in BOOLEAN /\ (~tainted' => ~tainted /\ ~calls[c].moved) /\ Puts(c, new)
    BY <2>1, WritesTaint
  <2>7. rows' = new /\ OthersFollow(c) /\ calls'[c] = Over
        /\ \A d \in Calls \ {c} : calls[d].at \in {"upsert", "update"} => calls'[d].moved
    BY <2>6, PutsFollow
  <2>8. q.ext => \A j \in Held : j # i /\ rows[j].ext => rows[j].owner # q.owner
    BY <1>4, <2>4 DEF ScopesIInv, Indexed
  <2>9. tainted' \/ (~tainted /\ Apart(q.scope, i))
    BY <1>0, <1>1, <1>2, <2>4, <2>6 DEF ScopesIInv, NoOverlap
  <2> QED BY <1>0, <1>4, <2>4, <2>5, <2>6, <2>7, <2>8, <2>9, ChangeKeeps
<1> QED BY <1>3, <1>4

\* deleteRewrite and detachRewrite: the row they have read.
LEMMA ReadsKeeps ==
  ASSUME ScopesIInv, NEW c \in Calls, NEW i \in Held, NEW s \in {"delete", "detach"}, Goes(c, s, i, NoEntry),
         UNCHANGED <<kind, rows, lastRow, placement, tainted>>
  PROVE  ScopesIInv'
<1>1. s \in CallPlaces /\ s \notin {"fresh", "upsert", "recheck", "update"}
  BY DEF CallPlaces
<1>2. i \in RowIds /\ i \in 0 .. MaxRows /\ i <= lastRow
  BY HeldRow, Numbers
<1>3. OthersFollow(c) /\ calls'[c].at = s /\ calls'[c].id = i
  BY <1>1, <1>2, CallGoes
<1>4. OwnCall(c)'
  BY <1>1, <1>2, <1>3 DEF OwnCall, Decided
<1> QED BY <1>3, <1>4, OnlyCallKeeps

LEMMA deleteRewriteKeeps == ASSUME ScopesIInv, NEW c \in Calls, deleteRewrite(c) PROVE ScopesIInv'
BY ReadsKeeps DEF deleteRewrite

LEMMA detachRewriteKeeps == ASSUME ScopesIInv, NEW c \in Calls, detachRewrite(c) PROVE ScopesIInv'
BY ReadsKeeps DEF detachRewrite

LEMMA RemoveKeeps ==
  ASSUME ScopesIInv, NEW c \in Calls, NEW i \in RowIds, Writes(c, [rows EXCEPT ![i] = NoEntry]),
         UNCHANGED <<kind, lastRow, placement>>
  PROVE  ScopesIInv'
<1>1. tainted' \in BOOLEAN /\ (~tainted' => ~tainted) /\ Puts(c, [rows EXCEPT ![i] = NoEntry])
  BY WritesTaint
<1>2. rows' = [rows EXCEPT ![i] = NoEntry] /\ OthersFollow(c) /\ calls'[c] = Over
      /\ \A d \in Calls \ {c} : calls[d].at \in {"upsert", "update"} => calls'[d].moved
  BY <1>1, PutsFollow
<1>3. /\ TableOK(rows') /\ Held' = Held \ {i} /\ \A j \in Held' : rows'[j] = rows[j]
      /\ (\A j \in Held : Apart(rows[j].scope, j)) => (\A j \in Held : Apart(rows[j].scope, j))'
  BY <1>2, RemoveOne
<1>4. tainted' \/ (\A j \in Held : Apart(rows[j].scope, j))'
  BY <1>1, <1>3 DEF ScopesIInv, NoOverlap
<1>5. RowsFollow
  BY <1>3 DEF RowsFollow
<1>6. lastRow' \in 0 .. MaxRows /\ lastRow <= lastRow' /\ \A j \in Held' : j <= lastRow'
  BY <1>3, HeldRow, Numbers
<1> QED BY <1>1, <1>2, <1>3, <1>4, <1>5, <1>6, WriteKeeps

LEMMA DeleteRewriteKeeps == ASSUME ScopesIInv, NEW c \in Calls, DeleteRewrite(c) PROVE ScopesIInv'
<1>1. calls[c].id \in RowIds
  BY DEF DeleteRewrite, ScopesIInv, CallsDecide
<1> QED BY <1>1, RemoveKeeps DEF DeleteRewrite

LEMMA deleteForwarderKeeps == ASSUME ScopesIInv, NEW c \in Calls, deleteForwarder(c) PROVE ScopesIInv'
BY HeldRow, RemoveKeeps DEF deleteForwarder

LEMMA DetachRewriteKeeps == ASSUME ScopesIInv, NEW c \in Calls, DetachRewrite(c) PROVE ScopesIInv'
<1>0. calls[c].at = "detach" /\ UNCHANGED <<kind, lastRow, placement>>
  BY DEF DetachRewrite
<1>1. PICK i \in RowIds : i = calls[c].id
  BY <1>0 DEF ScopesIInv, CallsDecide
<1>2. CASE i \notin Held
  BY <1>0, <1>1, <1>2, EndKeeps DEF DetachRewrite
<1>3. CASE i \in Held
  <2> DEFINE new == [rows EXCEPT ![i].owner = Manual, ![i].ext = FALSE, ![i].passed = TRUE]
  <2>1. Writes(c, new)
    BY <1>1, <1>3 DEF DetachRewrite
  <2>2. rows[i] \in Row
    BY <1>3, HeldRow
  <2>3. PICK q \in Row : q = [rows[i] EXCEPT !.owner = Manual, !.ext = FALSE, !.passed = TRUE]
    BY <2>2 DEF Row, Owners
  <2>4. q.scope = rows[i].scope /\ q.by = rows[i].by /\ q.owner = Manual /\ ~q.ext /\ q.passed
    BY <2>2, <2>3 DEF Row
  <2>5. new = [rows EXCEPT ![i] = q]
    BY <1>1, <2>3 DEF ScopesIInv, ScopeTypes
  <2> HIDE DEF new
  <2>6. tainted' \in BOOLEAN /\ (~tainted' => ~tainted) /\ Puts(c, new)
    BY <2>1, WritesTaint
  <2>7. rows' = new /\ OthersFollow(c) /\ calls'[c] = Over
        /\ \A d \in Calls \ {c} : calls[d].at \in {"upsert", "update"} => calls'[d].moved
    BY <2>6, PutsFollow
  <2>8. With(q.scope) \subseteq {i} /\ (kind = "forwarder" => Unowned(q))
    BY <1>3, <2>4, WithOne DEF ScopesIInv, Owned, Unowned
  <2>9. tainted' \/ (~tainted /\ Apart(q.scope, i))
    BY <1>3, <2>4, <2>6 DEF ScopesIInv, NoOverlap
  <2> QED BY <1>0, <1>3, <2>4, <2>5, <2>6, <2>7, <2>8, <2>9, ChangeKeeps
<1> QED BY <1>2, <1>3

LEMMA ClearRewritesKeeps == ASSUME ScopesIInv, NEW c \in Calls, ClearRewrites(c) PROVE ScopesIInv'
<1>0. rows' = [i \in RowIds |-> NoEntry] /\ Goes(c, "bulk", 0, NoEntry) /\ UNCHANGED <<kind, lastRow, placement, tainted>>
  BY DEF ClearRewrites
<1>1. "bulk" \in CallPlaces
  BY DEF CallPlaces
<1>2. OthersFollow(c) /\ calls'[c].at = "bulk" /\ calls'[c].id = 0
  BY <1>0, <1>1, CallGoes, Numbers
<1>3. Held' = {} /\ TableOK(rows')
  BY <1>0 DEF Held, TableOK, Unique
<1>4. OwnCall(c)'
  BY <1>0, <1>2, Numbers DEF OwnCall, Decided
<1>5. OnePrimary' /\ sites' \subseteq Sites /\ siteOf' \in [Nodes -> Sites \cup {NoSite}] /\ roleOf' \in [Nodes -> Roles]
  BY <1>0 DEF placement, ScopesIInv, ScopeTypes, OnePrimary, OnePrimaryPerSite
<1>6. RowsFollow /\ (\A i \in Held : Apart(rows[i].scope, i))' /\ \A i \in Held' : i <= lastRow'
  BY <1>3 DEF RowsFollow
<1>7. lastRow' \in 0 .. MaxRows /\ lastRow <= lastRow' /\ tainted' \in BOOLEAN /\ kind' = kind
  BY <1>0, Numbers DEF ScopesIInv, ScopeTypes
<1> QED BY <1>2, <1>3, <1>4, <1>5, <1>6, <1>7, StepKeeps

LEMMA AddRewritesBulkKeeps == ASSUME ScopesIInv, NEW c \in Calls, AddRewritesBulk(c) PROVE ScopesIInv'
<1>0. kind = "rewrite" /\ Ends(c) /\ tainted' = TRUE /\ UNCHANGED <<kind, placement>>
  BY DEF AddRewritesBulk
<1>1. PICK scope \in CanonicalScope, source \in Owners, ext \in BOOLEAN :
       LET r == [scope |-> scope, owner |-> source, enabled |-> TRUE, by |-> source, passed |-> TRUE,
                 ext |-> ext /\ source # Manual
                         /\ ~ExternalTaken([NoEntry EXCEPT !.owner = source, !.ext = TRUE], scope)]
       IN IF With(scope) = {}
          THEN lastRow < MaxRows /\ lastRow' = lastRow + 1 /\ rows' = New(r)
          ELSE rows' = [i \in RowIds |-> IF i \in With(scope) THEN r ELSE rows[i]] /\ UNCHANGED lastRow
  BY DEF AddRewritesBulk
<1>2. PICK x \in BOOLEAN : x = (ext /\ source # Manual /\ ~ExternalTaken([NoEntry EXCEPT !.owner = source, !.ext = TRUE], scope))
  OBVIOUS
<1>3. PICK r \in Row : r = [scope |-> scope, owner |-> source, enabled |-> TRUE, by |-> source, passed |-> TRUE, ext |-> x]
  BY DEF Row
<1>4. r.scope = scope /\ r.owner = source /\ r.passed /\ r.ext = x
  BY <1>3
<1>5. /\ With(scope) = {} => lastRow < MaxRows /\ lastRow' = lastRow + 1 /\ rows' = New(r)
      /\ With(scope) # {} => rows' = [i \in RowIds |-> IF i \in With(scope) THEN r ELSE rows[i]] /\ UNCHANGED lastRow
  BY <1>1, <1>2, <1>3
<1>6. r.ext => \A j \in Held : rows[j].ext /\ rows[j].scope # scope => rows[j].owner # r.owner
  <2>1. [NoEntry EXCEPT !.owner = source, !.ext = TRUE].owner = source /\ [NoEntry EXCEPT !.owner = source, !.ext = TRUE].ext
    BY DEF NoEntry
  <2> QED BY <1>2, <1>4, <2>1 DEF ExternalTaken
<1>7. OthersFollow(c) /\ calls'[c] = Over
  BY <1>0, CallEnds
<1>8. CASE With(scope) = {}
  <2>1. r.ext => \A j \in Held : rows[j].ext => rows[j].owner # r.owner
    BY <1>6, <1>8 DEF With
  <2> QED BY <1>0, <1>4, <1>5, <1>7, <1>8, <2>1, NewKeeps
<1>9. CASE With(scope) # {}
  <2>1. PICK i \in With(scope) : TRUE
    BY <1>9
  <2>2. i \in Held /\ rows[i].scope = scope /\ With(scope) = {i}
    BY WithOne DEF With
  <2>3. rows' = [rows EXCEPT ![i] = r]
    BY <1>5, <1>9, <2>2 DEF ScopesIInv, ScopeTypes
  <2>4. r.ext => \A j \in Held : j # i /\ rows[j].ext => rows[j].owner # r.owner
    BY <1>6, <2>2 DEF With
  <2> QED BY <1>0, <1>4, <1>5, <1>7, <1>9, <2>2, <2>3, <2>4, ChangeKeeps
<1> QED BY <1>8, <1>9

LEMMA ForwarderRow ==
  ASSUME NEW scope \in CanonicalScope, NEW enabled \in BOOLEAN
  PROVE  Forwarder(scope, enabled) \in Row /\ Unowned(Forwarder(scope, enabled)) /\ Forwarder(scope, enabled).scope = scope
BY DEF Forwarder, Row, Owners, Unowned

LEMMA addForwarderKeeps == ASSUME ScopesIInv, NEW c \in Calls, addForwarder(c) PROVE ScopesIInv'
<1>1. PICK scope \in CanonicalScope :
        IF ForwarderScopeConflict(scope, 0) THEN Ends(c) ELSE Goes(c, "upsert", 0, Forwarder(scope, TRUE))
  BY DEF addForwarder
<1>2. UNCHANGED <<kind, rows, lastRow, placement, tainted>>
  BY DEF addForwarder
<1>3. PICK r \in Row : r = Forwarder(scope, TRUE) /\ Unowned(r) /\ r.scope = scope
  BY ForwarderRow
<1>5. CASE ForwarderScopeConflict(scope, 0)
  BY <1>1, <1>2, <1>5, EndKeeps
<1>6. CASE ~ForwarderScopeConflict(scope, 0)
  <2>1. Goes(c, "upsert", 0, r)
    BY <1>1, <1>3, <1>6
  <2>2. "upsert" \in CallPlaces
    BY DEF CallPlaces
  <2>3. OthersFollow(c) /\ calls'[c].at = "upsert" /\ calls'[c].id = 0 /\ calls'[c].row = r /\ ~calls'[c].moved
    BY <2>1, <2>2, CallGoes, Numbers
  <2>4. Apart(r.scope, 0)'
    BY <1>2, <1>3, <1>6, NoConflictApart DEF Apart, Held
  <2>5. 0 <= lastRow'
    BY <1>2, Numbers
  <2>6. OwnCall(c)'
    BY <1>2, <1>3, <2>3, <2>4, <2>5 DEF OwnCall, Decided, Unowned
  <2> QED BY <1>2, <2>3, <2>6, OnlyCallKeeps
<1> QED BY <1>5, <1>6

\* AddForwarder and AddForwardersBulk: a new row, or the one of that scope.
LEMMA UpsertedKeeps ==
  ASSUME ScopesIInv, NEW c \in Calls, NEW r \in Row, kind = "forwarder", Counted(r), rows' = Upserted(r), Unowned(r),
         OthersFollow(c), calls'[c] = Over, UNCHANGED <<kind, placement>>,
         tainted' \in BOOLEAN, tainted' \/ (~tainted /\ Apart(r.scope, 0)),
         tainted' \/ \A d \in Calls \ {c} : calls[d].at \in {"upsert", "update"} => calls'[d].moved
  PROVE  ScopesIInv'
<1>1. r.by = r.owner /\ ~r.ext
  BY DEF Unowned
<1>2. CASE With(r.scope) = {}
  BY <1>1, <1>2, NewKeeps DEF Upserted, Counted
<1>3. CASE With(r.scope) # {}
  <2>1. PICK i \in With(r.scope) : TRUE
    BY <1>3
  <2>2. i \in Held /\ With(r.scope) = {i}
    BY WithOne DEF With
  <2>3. rows' = [rows EXCEPT ![i] = r] /\ UNCHANGED lastRow
    BY <1>3, <2>2 DEF ScopesIInv, ScopeTypes, Upserted, Counted
  <2>4. tainted' \/ (~tainted /\ Apart(r.scope, i))
    <3>1. 0 \notin Held
      BY DEF Held, RowIds
    <3> QED BY <3>1 DEF Apart
  <2> QED BY <1>1, <2>2, <2>3, <2>4, ChangeKeeps
<1> QED BY <1>2, <1>3

LEMMA AddForwarderKeeps == ASSUME ScopesIInv, NEW c \in Calls, AddForwarder(c) PROVE ScopesIInv'
<1>0. calls[c].at = "upsert" /\ kind = "forwarder" /\ UNCHANGED <<kind, placement>>
  BY DEF AddForwarder
<1>1. PICK r \in Row : r = calls[c].row
  BY <1>0 DEF ScopesIInv, CallsDecide, Decided
<1>2. Unowned(r) /\ (tainted \/ calls[c].moved \/ Apart(r.scope, 0))
  BY <1>0, <1>1 DEF ScopesIInv, Owned, NoOverlap, Decided
<1>3. Counted(r) /\ Writes(c, Upserted(r))
  BY <1>1 DEF AddForwarder
<1>4. tainted' \in BOOLEAN /\ (~tainted' => ~tainted /\ ~calls[c].moved) /\ Puts(c, Upserted(r))
  BY <1>3, WritesTaint
<1>5. rows' = Upserted(r) /\ OthersFollow(c) /\ calls'[c] = Over
      /\ \A d \in Calls \ {c} : calls[d].at \in {"upsert", "update"} => calls'[d].moved
  BY <1>4, PutsFollow
<1> QED BY <1>0, <1>2, <1>3, <1>4, <1>5, UpsertedKeeps

LEMMA AddForwardersBulkKeeps == ASSUME ScopesIInv, NEW c \in Calls, AddForwardersBulk(c) PROVE ScopesIInv'
<1>0. kind = "forwarder" /\ Ends(c) /\ tainted' = TRUE /\ UNCHANGED <<kind, placement>>
  BY DEF AddForwardersBulk
<1>1. PICK scope \in CanonicalScope, enabled \in BOOLEAN :
        Counted(Forwarder(scope, enabled)) /\ rows' = Upserted(Forwarder(scope, enabled))
  BY DEF AddForwardersBulk
<1>2. PICK r \in Row : r = Forwarder(scope, enabled) /\ Unowned(r)
  BY ForwarderRow
<1>3. OthersFollow(c) /\ calls'[c] = Over
  BY <1>0, CallEnds
<1> QED BY <1>0, <1>1, <1>2, <1>3, UpsertedKeeps

LEMMA updateForwarderKeeps == ASSUME ScopesIInv, NEW c \in Calls, updateForwarder(c) PROVE ScopesIInv'
<1>1. PICK i \in Held, scope \in CanonicalScope, enabled \in BOOLEAN : Goes(c, "recheck", i, Forwarder(scope, enabled))
  BY DEF updateForwarder
<1>2. UNCHANGED <<kind, rows, lastRow, placement, tainted>> /\ kind = "forwarder"
  BY DEF updateForwarder, Starts
<1>3. i \in RowIds /\ i <= lastRow /\ i \in 0 .. MaxRows
  BY HeldRow, Numbers
<1>4. PICK r \in Row : r = Forwarder(scope, enabled) /\ Unowned(r)
  BY ForwarderRow
<1>5. rows[i].owner = Manual /\ r.by = Manual
  BY <1>2, <1>4 DEF ScopesIInv, Owned, Unowned
<1>7. "recheck" \in CallPlaces
  BY DEF CallPlaces
<1>8. OthersFollow(c) /\ calls'[c].at = "recheck" /\ calls'[c].id = i /\ calls'[c].row = r
  BY <1>1, <1>3, <1>4, <1>7, CallGoes
<1>9. OwnCall(c)'
  BY <1>2, <1>3, <1>4, <1>5, <1>8 DEF OwnCall, Decided
<1> QED BY <1>2, <1>8, <1>9, OnlyCallKeeps

LEMMA UpdateForwarderKeeps == ASSUME ScopesIInv, NEW c \in Calls, UpdateForwarder(c) PROVE ScopesIInv'
<1>0. calls[c].at = "update" /\ kind = "forwarder" /\ UNCHANGED <<kind, lastRow, placement>>
  BY DEF UpdateForwarder
<1>1. PICK r \in Row : r = calls[c].row
  BY <1>0 DEF ScopesIInv, CallsDecide, Decided
<1>2. PICK i \in RowIds : i = calls[c].id
  BY <1>0 DEF ScopesIInv, CallsDecide
<1>3. CASE ~(i \in Held /\ With(r.scope) \subseteq {i})
  BY <1>0, <1>1, <1>2, <1>3, EndKeeps DEF UpdateForwarder
<1>4. CASE i \in Held /\ With(r.scope) \subseteq {i}
  <2>1. Writes(c, [rows EXCEPT ![i] = r])
    BY <1>1, <1>2, <1>4 DEF UpdateForwarder
  <2>2. Unowned(r) /\ r.by = r.owner /\ ~r.ext
    BY <1>0, <1>1 DEF ScopesIInv, Owned, Decided, Unowned
  <2>6. tainted' \in BOOLEAN /\ (~tainted' => ~tainted /\ ~calls[c].moved) /\ Puts(c, [rows EXCEPT ![i] = r])
    BY <2>1, WritesTaint
  <2>7. rows' = [rows EXCEPT ![i] = r] /\ OthersFollow(c) /\ calls'[c] = Over
        /\ \A d \in Calls \ {c} : calls[d].at \in {"upsert", "update"} => calls'[d].moved
    BY <2>6, PutsFollow
  <2>9. tainted' \/ (~tainted /\ Apart(r.scope, i))
    BY <1>0, <1>1, <1>2, <2>6 DEF ScopesIInv, NoOverlap
  <2> QED BY <1>0, <1>4, <2>2, <2>6, <2>7, <2>9, ChangeKeeps
<1> QED BY <1>3, <1>4

\* Steps of the sites that leave the rows alone.
LEMMA PlacesKeep ==
  ASSUME ScopesIInv, NEW c \in Calls, Ends(c), UNCHANGED <<kind, lastRow, rows, tainted>>,
         sites' \subseteq Sites, siteOf' \in [Nodes -> Sites \cup {NoSite}], roleOf' \in [Nodes -> Roles], OnePrimary'
  PROVE  ScopesIInv'
<1>1. OthersFollow(c) /\ calls'[c] = Over /\ OwnCall(c)'
  BY CallEnds, OverDecides, Numbers
<1>2. TableOK(rows') /\ Held' = Held
  BY TableNow DEF Held
<1>3. tainted' \/ (\A i \in Held : Apart(rows[i].scope, i))'
  BY <1>2 DEF ScopesIInv, NoOverlap, Apart
<1>4. RowsFollow
  BY <1>2 DEF RowsFollow
<1>5. kind' = kind /\ lastRow' \in 0 .. MaxRows /\ lastRow <= lastRow' /\ (\A i \in Held' : i <= lastRow') /\ tainted' \in BOOLEAN
  BY <1>2, Numbers DEF ScopesIInv, ScopeTypes, Indexed
<1> QED BY <1>1, <1>2, <1>3, <1>4, <1>5, StepKeeps

LEMMA createSiteKeeps == ASSUME ScopesIInv, NEW c \in Calls, createSite(c) PROVE ScopesIInv'
<1>1. sites' \subseteq Sites /\ siteOf' \in [Nodes -> Sites \cup {NoSite}] /\ roleOf' \in [Nodes -> Roles]
  BY DEF createSite, ScopesIInv, ScopeTypes
<1>2. OnePrimary'
  BY DEF createSite, ScopesIInv, OnePrimary, OnePrimaryPerSite
<1> QED BY <1>1, <1>2, PlacesKeep DEF createSite, Settles

LEMMA deleteSiteKeeps == ASSUME ScopesIInv, NEW c \in Calls, deleteSite(c) PROVE ScopesIInv'
<1>0. PICK s \in Sites :
       /\ sites' = sites \ {s}
       /\ siteOf' = [n \in Nodes |-> IF siteOf[n] = s THEN NoSite ELSE siteOf[n]]
       /\ roleOf' = [n \in Nodes |-> IF siteOf[n] = s THEN "" ELSE roleOf[n]]
  BY DEF deleteSite
<1>1. sites' \subseteq Sites /\ siteOf' \in [Nodes -> Sites \cup {NoSite}] /\ roleOf' \in [Nodes -> Roles]
  BY <1>0 DEF ScopesIInv, ScopeTypes, Roles
<1>2. OnePrimary'
  BY <1>0 DEF ScopesIInv, OnePrimary, OnePrimaryPerSite
<1> QED BY <1>1, <1>2, PlacesKeep DEF deleteSite, Settles

LEMMA setNodeSiteKeeps == ASSUME ScopesIInv, NEW c \in Calls, setNodeSite(c) PROVE ScopesIInv'
<1>0. PICK n \in Nodes, s \in Sites \cup {NoSite}, role \in Roles :
       siteOf' = [siteOf EXCEPT ![n] = s] /\ roleOf' = SetNodeSite(n, s, role)
  BY DEF setNodeSite
<1>1. RoleIn(s, role) \in Roles /\ (s = NoSite => RoleIn(s, role) # "primary")
  BY DEF RoleIn, Roles
<1>2. siteOf \in [Nodes -> Sites \cup {NoSite}] /\ roleOf \in [Nodes -> Roles]
  BY DEF ScopesIInv, ScopeTypes
<1>3. \A m \in Nodes : /\ siteOf'[m] = IF m = n THEN s ELSE siteOf[m]
                       /\ roleOf'[m] = IF m = n THEN RoleIn(s, role)
                                       ELSE IF RoleIn(s, role) = "primary" /\ siteOf[m] = s /\ roleOf[m] = "primary" THEN "secondary"
                                       ELSE roleOf[m]
  BY <1>0, <1>2 DEF SetNodeSite
<1>4. sites' \subseteq Sites /\ siteOf' \in [Nodes -> Sites \cup {NoSite}] /\ roleOf' \in [Nodes -> Roles]
  <2>1. \A m \in Nodes : roleOf'[m] \in Roles
    BY <1>1, <1>2, <1>3 DEF Roles
  <2>2. roleOf' = [m \in Nodes |-> roleOf'[m]]
    BY <1>0 DEF SetNodeSite
  <2>3. siteOf' \in [Nodes -> Sites \cup {NoSite}]
    BY <1>0, <1>2
  <2>4. sites' \subseteq Sites
    BY DEF setNodeSite, ScopesIInv, ScopeTypes
  <2> QED BY <2>1, <2>2, <2>3, <2>4
<1>5. OnePrimary'
  BY <1>1, <1>3 DEF ScopesIInv, OnePrimary, OnePrimaryPerSite
<1> QED BY <1>4, <1>5, PlacesKeep DEF setNodeSite, Settles

\* What a rename does to a scope.
LEMMA RenamedScope ==
  ASSUME NEW s \in CanonicalScope, NEW old \in Sites, NEW new \in Sites
  PROVE  /\ RenamedIn(s, old, new) \in CanonicalScope /\ RenamedIn(s, old, new).type = s.type
         /\ s.type # "sites" \/ old \notin s.values => RenamedIn(s, old, new) = s
         /\ s.type = "sites" /\ old \in s.values => RenamedIn(s, old, new).values = (s.values \ {old}) \cup {new}
<1>1. CASE s.type # "sites" \/ old \notin s.values
  BY <1>1 DEF RenamedIn
<1>2. CASE s.type = "sites" /\ old \in s.values
  <2>1. s \in [type : {"sites"}, values : (SUBSET Sites) \ {{}}]
    BY <1>2 DEF CanonicalScope
  <2>2. RenamedIn(s, old, new) = [s EXCEPT !.values = (s.values \ {old}) \cup {new}]
    BY <1>2 DEF RenamedIn
  <2>5. s.values \subseteq Sites
    BY <2>1
  <2>3. PICK v \in (SUBSET Sites) \ {{}} : v = (s.values \ {old}) \cup {new}
    <3>1. PICK v \in SUBSET Sites : v = (s.values \ {old}) \cup {new} /\ new \in v
      BY <2>5
    <3>2. v \notin {{}}
      BY <3>1
    <3> QED BY <3>1, <3>2
  <2>4. RenamedIn(s, old, new) \in [type : {"sites"}, values : (SUBSET Sites) \ {{}}]
        /\ RenamedIn(s, old, new).values = (s.values \ {old}) \cup {new}
    BY <2>1, <2>2, <2>3
  <2> QED BY <1>2, <2>4 DEF CanonicalScope
<1> QED BY <1>1, <1>2

LEMMA RenamedRows ==
  ASSUME ScopesIInv, NEW old \in Sites, NEW new \in Sites, rows' = renameScopedSite(old, new)
  PROVE  /\ rows' \in [RowIds -> Row \cup {NoEntry}] /\ Held' = Held
         /\ \A i \in Held : /\ rows'[i].scope = RenamedIn(rows[i].scope, old, new) /\ rows'[i] \in Row
                            /\ rows'[i].owner = rows[i].owner /\ rows'[i].by = rows[i].by /\ rows'[i].ext = rows[i].ext
                            /\ rows'[i].enabled = rows[i].enabled /\ rows'[i].passed = rows[i].passed
<1>1. \A i \in Held : i \in RowIds /\ rows[i] \in Row
  BY HeldRow
<1>2. \A i \in RowIds : rows'[i] = IF i \in Held THEN [rows[i] EXCEPT !.scope = RenamedIn(rows[i].scope, old, new)] ELSE NoEntry
  BY DEF renameScopedSite, Held
<1>3. \A i \in Held : /\ rows'[i].scope = RenamedIn(rows[i].scope, old, new) /\ rows'[i] \in Row
                      /\ rows'[i].owner = rows[i].owner /\ rows'[i].by = rows[i].by /\ rows'[i].ext = rows[i].ext
                      /\ rows'[i].enabled = rows[i].enabled /\ rows'[i].passed = rows[i].passed
  <2> SUFFICES ASSUME NEW i \in Held
               PROVE  /\ rows'[i].scope = RenamedIn(rows[i].scope, old, new) /\ rows'[i] \in Row
                      /\ rows'[i].owner = rows[i].owner /\ rows'[i].by = rows[i].by /\ rows'[i].ext = rows[i].ext
                      /\ rows'[i].enabled = rows[i].enabled /\ rows'[i].passed = rows[i].passed
    OBVIOUS
  <2>1. PICK r \in Row : r = rows[i]
    BY <1>1
  <2>2. PICK s \in CanonicalScope : s = RenamedIn(rows[i].scope, old, new)
    BY <1>1, RowFields, RenamedScope
  <2>3. rows'[i] = [r EXCEPT !.scope = s]
    BY <1>1, <1>2, <2>1, <2>2
  <2> QED BY <2>1, <2>2, <2>3 DEF Row
<1>4. \A i \in RowIds : rows'[i] \in Row \cup {NoEntry}
  BY <1>2, <1>3
<1>5. rows' \in [RowIds -> Row \cup {NoEntry}]
  <2>1. rows' = [i \in RowIds |-> rows'[i]]
    BY DEF renameScopedSite
  <2> QED BY <1>4, <2>1
<1>6. Held' = Held
  BY <1>1, <1>2, <1>3, NoEntryIsNoRow DEF Held
<1> QED BY <1>3, <1>5, <1>6

LEMMA RenamedStayApart ==
  ASSUME NEW r \in CanonicalScope, NEW s \in CanonicalScope, NEW old \in Sites, NEW new \in Sites,
         r.type = "sites" => new \notin r.values, s.type = "sites" => new \notin s.values,
         scopeValuesIntersect(RenamedIn(r, old, new), RenamedIn(s, old, new))
  PROVE  scopeValuesIntersect(r, s)
<1>1. r.type = s.type /\ r # s
  BY RenamedScope DEF scopeValuesIntersect
<1>2. CASE r.type # "sites"
  BY <1>1, <1>2, RenamedScope DEF scopeValuesIntersect
<1>3. CASE r.type = "sites"
  <2> DEFINE rv == RenamedIn(r, old, new).values
             sv == RenamedIn(s, old, new).values
  <2>1. PICK x \in rv \cap sv : TRUE
    BY DEF scopeValuesIntersect
  <2>2. rv = IF old \in r.values THEN (r.values \ {old}) \cup {new} ELSE r.values
    BY <1>3, RenamedScope
  <2>5. s.type = "sites"
    BY <1>1, <1>3
  <2>3. sv = IF old \in s.values THEN (s.values \ {old}) \cup {new} ELSE s.values
    <3>1. /\ s.type # "sites" \/ old \notin s.values => RenamedIn(s, old, new) = s
          /\ s.type = "sites" /\ old \in s.values => RenamedIn(s, old, new).values = (s.values \ {old}) \cup {new}
      BY RenamedScope
    <3> QED BY <2>5, <3>1
  <2> HIDE DEF rv, sv
  <2>4. r.values \cap s.values # {}
    BY <1>1, <1>3, <2>1, <2>2, <2>3
  <2> QED BY <1>1, <2>4 DEF scopeValuesIntersect
<1> QED BY <1>2, <1>3

LEMMA updateSiteKeeps ==
  ASSUME ScopesIInv, NEW c \in Calls, NEW old \in Sites, NEW new \in Sites, updateSite(c, old, new)
  PROVE  ScopesIInv'
<1>0. /\ \A n \in Nodes : siteOf[n] # new
      /\ Unique(renameScopedSite(old, new)) /\ sites' = (sites \ {old}) \cup {new}
      /\ siteOf' = [n \in Nodes |-> IF siteOf[n] = old THEN new ELSE siteOf[n]]
      /\ Puts(c, renameScopedSite(old, new)) /\ tainted' = (tainted \/ Named(new)) /\ UNCHANGED <<kind, lastRow, roleOf>>
  BY DEF updateSite, Settles
<1>1. rows' = renameScopedSite(old, new) /\ OthersFollow(c) /\ calls'[c] = Over
      /\ \A d \in Calls \ {c} : calls[d].at \in {"upsert", "update"} => calls'[d].moved
  BY <1>0, PutsFollow
<1>2. /\ rows' \in [RowIds -> Row \cup {NoEntry}] /\ Held' = Held
      /\ \A i \in Held : /\ rows'[i].scope = RenamedIn(rows[i].scope, old, new) /\ rows'[i] \in Row
                         /\ rows'[i].owner = rows[i].owner /\ rows'[i].by = rows[i].by /\ rows'[i].ext = rows[i].ext
                         /\ rows'[i].enabled = rows[i].enabled /\ rows'[i].passed = rows[i].passed
  BY <1>1, RenamedRows
<1>3. TableOK(rows')
  <2>1. \A i \in RowIds : rows'[i] # NoEntry => i \in Held
    BY <1>2 DEF Held
  <2>2. TableOK(rows)
    BY TableNow
  <2>3. \A i \in Held : i \in RowIds /\ rows[i] # NoEntry
    BY DEF Held
  <2>4. \A i, j \in RowIds : rows'[i] # NoEntry /\ rows'[j] # NoEntry /\ i # j /\ rows'[i].ext /\ rows'[j].ext
           => rows'[i].owner # rows'[j].owner
    BY <1>2, <2>1, <2>2, <2>3 DEF TableOK
  <2>5. \A i \in RowIds : rows'[i] # NoEntry => /\ rows'[i].by = rows'[i].owner \/ rows'[i].passed
                                                /\ kind = "forwarder" => Unowned(rows'[i])
    BY <1>2, <2>1, <2>2, <2>3 DEF TableOK, Unowned
  <2> QED BY <1>0, <1>1, <1>2, <2>4, <2>5 DEF TableOK
<1>4. tainted' \/ (\A i \in Held : Apart(rows[i].scope, i))'
  <2> SUFFICES ASSUME ~tainted', NEW i \in Held, NEW j \in Held, j # i
               PROVE  ~scopeValuesIntersect(rows'[j].scope, rows'[i].scope)
    BY <1>2 DEF Apart
  <2>1. ~scopeValuesIntersect(rows[j].scope, rows[i].scope)
    BY <1>0 DEF ScopesIInv, NoOverlap, Apart
  <2>2. rows[i].scope \in CanonicalScope /\ rows[j].scope \in CanonicalScope
    BY HeldRow, RowFields
  <2>3. (rows[i].scope.type = "sites" => new \notin rows[i].scope.values)
        /\ (rows[j].scope.type = "sites" => new \notin rows[j].scope.values)
    BY <1>0 DEF Named
  <2> QED BY <1>2, <2>1, <2>2, <2>3, RenamedStayApart
<1>5. RowsFollow
  BY <1>2 DEF RowsFollow
<1>6. tainted' \in BOOLEAN /\ kind' = kind /\ lastRow' \in 0 .. MaxRows /\ lastRow <= lastRow' /\ \A i \in Held' : i <= lastRow'
  BY <1>0, <1>2, HeldRow, Numbers DEF ScopesIInv, ScopeTypes, Named
<1>7. OwnCall(c)'
  BY <1>1, <1>6, OverDecides
<1>8. sites' \subseteq Sites /\ siteOf' \in [Nodes -> Sites \cup {NoSite}] /\ roleOf' \in [Nodes -> Roles]
  BY <1>0 DEF ScopesIInv, ScopeTypes
<1>9. OnePrimary'
  <2>1. new # NoSite /\ old # NoSite
    BY ScopedConfigConstants
  <2> QED BY <1>0, <2>1 DEF ScopesIInv, OnePrimary, OnePrimaryPerSite
<1> QED BY <1>1, <1>3, <1>4, <1>5, <1>6, <1>7, <1>8, <1>9, StepKeeps

LEMMA ScopesNext == ScopesIInv /\ [ScNext]_scVars => ScopesIInv'
<1> SUFFICES ASSUME ScopesIInv, [ScNext]_scVars PROVE ScopesIInv'
  OBVIOUS
<1>1. CASE UNCHANGED scVars
  BY <1>1 DEF scVars, ScopesIInv, ScopeTypes, Indexed, CallsDecide, NoOverlap, Owned, OnePrimary, Held, Unique, Apart,
              Decided, OnePrimaryPerSite
<1>2. ASSUME NEW c \in Calls, RewriteCalls(c) PROVE ScopesIInv'
  BY <1>2, addRewriteKeeps, UpsertRewriteKeeps, updateRewriteKeeps, RecheckRewriteKeeps, UpdateRewriteKeeps,
     deleteRewriteKeeps, DeleteRewriteKeeps, detachRewriteKeeps, DetachRewriteKeeps, ClearRewritesKeeps,
     AddRewritesBulkKeeps DEF RewriteCalls
<1>3. ASSUME NEW c \in Calls, ForwarderCalls(c) PROVE ScopesIInv'
  BY <1>3, addForwarderKeeps, AddForwarderKeeps, updateForwarderKeeps, RecheckForwarderKeeps, UpdateForwarderKeeps,
     deleteForwarderKeeps, AddForwardersBulkKeeps DEF ForwarderCalls
<1>4. ASSUME NEW c \in Calls, SiteCalls(c) PROVE ScopesIInv'
  BY <1>4, createSiteKeeps, updateSiteKeeps, deleteSiteKeeps, setNodeSiteKeeps DEF SiteCalls
<1> QED BY <1>1, <1>2, <1>3, <1>4 DEF ScNext

LEMMA ScopesIInvHolds == ScSpec => []ScopesIInv
BY ScopesInit, ScopesNext, PTL DEF ScSpec

\* ScopesInv, whatever requests race, for every number of nodes, sites, owners
\* and requests: the tables keep their indexes, a node is served one row of a
\* name unless a race, an import or a rename made rows overlap, a row's value is
\* its owner's, and a site has one primary.
THEOREM ScopesHold == ScSpec => []ScopesInv
BY ScopesIInvHolds, ScopesIInvImplies, PTL

LEMMA RenameServesNode ==
  ASSUME ScopesIInv, NEW c \in Calls, NEW old \in Sites, NEW new \in Sites, updateSite(c, old, new), ~Named(new), NEW n \in Nodes
  PROVE  Served(n)' = Served(n)
<1>0. /\ siteOf[n] # new /\ siteOf'[n] = (IF siteOf[n] = old THEN new ELSE siteOf[n])
      /\ rows' = renameScopedSite(old, new) /\ kind' = kind
  BY DEF updateSite, Settles, Puts
<1>1. Held' = Held /\ \A i \in Held : rows'[i].scope = RenamedIn(rows[i].scope, old, new) /\ rows'[i].enabled = rows[i].enabled
  BY <1>0, RenamedRows
<1>2. \A i \in Held : ScopeMatches(rows[i].scope, n)' = ScopeMatches(rows[i].scope, n)
                      /\ scopeRank(rows'[i].scope) = scopeRank(rows[i].scope)
  <2> SUFFICES ASSUME NEW i \in Held
               PROVE  ScopeMatches(rows[i].scope, n)' = ScopeMatches(rows[i].scope, n)
                      /\ scopeRank(rows'[i].scope) = scopeRank(rows[i].scope)
    OBVIOUS
  <2>1. PICK s \in CanonicalScope : s = rows[i].scope
    BY HeldRow, RowFields
  <2>2. PICK t \in CanonicalScope : t = RenamedIn(s, old, new)
    BY RenamedScope
  <2>7. t = rows'[i].scope
    BY <1>1, <2>1, <2>2
  <2>3. /\ RenamedIn(s, old, new).type = s.type
        /\ s.type # "sites" \/ old \notin s.values => RenamedIn(s, old, new) = s
        /\ s.type = "sites" /\ old \in s.values => RenamedIn(s, old, new).values = (s.values \ {old}) \cup {new}
    BY RenamedScope
  <2>4. s.type = "sites" => new \notin s.values
    BY <2>1 DEF Named
  <2>5. s.type = "sites" => (siteOf'[n] \in t.values <=> siteOf[n] \in s.values)
    BY <1>0, <2>2, <2>3, <2>4
  <2>6. ScopeMatches(rows[i].scope, n)' = ScopeMatches(rows[i].scope, n)
    BY <2>1, <2>2, <2>3, <2>5, <2>7 DEF ScopeMatches
  <2> QED BY <2>1, <2>2, <2>3, <2>6, <2>7 DEF scopeRank
<1>3. filterForwardersForNode(n)' = filterForwardersForNode(n)
  BY <1>1, <1>2 DEF filterForwardersForNode
<1>4. filterRewritesForNode(n)' = filterRewritesForNode(n)
  BY <1>1, <1>2 DEF filterRewritesForNode
<1> QED BY <1>0, <1>3, <1>4 DEF Served

\* UpdateSite: a rename to a name no scope uses changes no node's answers, for
\* every table, every placement and whatever requests are under way.
THEOREM RenameServes == ScSpec => RenameKeepsServed
<1>1. ScopesIInv /\ [ScNext]_scVars
        => [\A c \in Calls, old, new \in Sites :
              updateSite(c, old, new) /\ ~Named(new) => \A n \in Nodes : Served(n)' = Served(n)]_scVars
  BY RenameServesNode
<1> QED BY <1>1, ScopesIInvHolds, PTL DEF ScSpec, RenameKeepsServed

-----------------------------------------------------------------------------
-----------------------------------------------------------------------------
(* The stored settings.                                                    *)

Stages  == {"idle", "save", "mirror", "apply", "log", "append", "done"}
Ops     == {"none", "put", "categories", "import", "cp", "token", "export", "pause"}
Fields  == [settings |-> {"privacy", "blocked"}, cp |-> {"token", "ttl", "addr"}, export |-> {"password"}, pause |-> {"until"}]
AnyDoc  == UNION {[Fields[d] -> Bit] : d \in Docs}
AnyField == {"privacy", "blocked", "token", "ttl", "addr", "password", "until"}
Save    == [at : Stages, op : Ops, doc : Docs, val : AnyDoc, sent : SUBSET AnyField, moved : BOOLEAN, blind : BOOLEAN,
            log : Seq(Saves)]

SettingsTypes ==
  /\ stored \in [Docs -> AnyDoc] /\ live \in [Docs -> AnyDoc]
  /\ \A d \in Docs : stored[d] \in [Fields[d] -> Bit] /\ live[d] \in [Fields[d] -> Bit]
  /\ mirror \in Bit /\ audit \in Seq(Saves) /\ Len(audit) <= AuditMax /\ appended \in Seq(Saves)
  /\ excuses \subseteq Docs \cup {"mirror", "audit"}
  /\ saves \in [Saves -> Save]
  /\ \A c \in Saves : saves[c].val \in [Fields[saves[c].doc] -> Bit] /\ saves[c].sent \subseteq Fields[saves[c].doc]

\* What a save read and does not mention is still stored when it writes, unless
\* the document was written in between or could not be read.
Reads(c) ==
  saves[c].at = "save" =>
    /\ ~saves[c].moved /\ ~saves[c].blind
         => \A f \in Fields[saves[c].doc] \ saves[c].sent : saves[c].val[f] = stored[saves[c].doc][f]
    /\ saves[c].op = "token" => saves[c].doc = "cp" /\ saves[c].sent = {"token"}
    /\ saves[c].doc = "cp" => saves[c].op \in {"cp", "token"}

\* Between write and application the document is the one that is stored, unless
\* saves of it overlapped.
Between(c) == saves[c].at \in {"mirror", "apply"}
Applies(c) ==
  Between(c) =>
    /\ saves[c].doc \in {"settings", "pause", "cp"} /\ (saves[c].at = "mirror" => saves[c].doc = "cp")
    /\ saves[c].doc = "cp" => saves[c].op \in {"cp", "token"} /\ (saves[c].at = "apply" => saves[c].op = "cp")
    /\ saves[c].op = "token" => saves[c].doc = "cp"
    /\ saves[c].doc \notin excuses => saves[c].val = stored[saves[c].doc]
    /\ saves[c].op = "token" /\ "cp" \notin excuses => live["cp"]["ttl"] = stored["cp"]["ttl"]
    /\ saves[c].doc = "cp" /\ saves[c].at = "apply" => {"cp", "mirror"} \cap excuses # {} \/ mirror = stored["cp"]["addr"]

\* An append has the log as it is, unless another came in between or the log
\* could not be read.
Appends(c) == saves[c].at = "append" /\ ~saves[c].moved /\ ~saves[c].blind => saves[c].log = audit

SettingsIInv ==
  /\ SettingsTypes /\ LiveIsStored /\ MirrorInStep /\ AuditComplete
  /\ \A c \in Saves : Reads(c) /\ Applies(c) /\ Appends(c)

LEMMA DocsAre == /\ Docs = {"settings", "cp", "export", "pause"}
                 /\ \A d \in Docs : Document[d] = [Fields[d] -> Bit]
<1>1. Docs = {"settings", "cp", "export", "pause"}
  BY DEF Docs, Document
<1>2. Document["settings"] = [Fields["settings"] -> Bit]
  BY DEF Document, Fields
<1>3. Document["cp"] = [Fields["cp"] -> Bit]
  BY DEF Document, Fields
<1>4. Document["export"] = [Fields["export"] -> Bit]
  BY DEF Document, Fields
<1>5. Document["pause"] = [Fields["pause"] -> Bit]
  BY DEF Document, Fields
<1> QED BY <1>1, <1>2, <1>3, <1>4, <1>5

LEMMA NewestIs ==
  ASSUME NEW s \in Seq(Saves)
  PROVE  /\ Newest(s) \in Seq(Saves) /\ Len(Newest(s)) = (IF Len(s) > AuditMax THEN AuditMax ELSE Len(s))
         /\ \A i \in 1 .. Len(Newest(s)) : Newest(s)[i] = s[i + (IF Len(s) > AuditMax THEN Len(s) - AuditMax ELSE 0)]
<1> DEFINE off == IF Len(s) > AuditMax THEN Len(s) - AuditMax ELSE 0
<1>1. Len(s) \in Nat /\ AuditMax \in Nat \ {0}
  BY LiveSettingsConstants
<1>2. Newest(s) = SubSeq(s, 1 + off, Len(s)) /\ off \in 0 .. Len(s)
  BY <1>1 DEF Newest
<1>3. Len(s) - off = IF Len(s) > AuditMax THEN AuditMax ELSE Len(s)
  BY <1>1
<1> HIDE DEF off
<1>4. /\ SubSeq(s, 1 + off, Len(s)) \in Seq(Saves) /\ Len(SubSeq(s, 1 + off, Len(s))) = Len(s) - off
      /\ \A i \in 1 .. Len(s) - off : SubSeq(s, 1 + off, Len(s))[i] = s[i + off]
  BY <1>1, <1>2
<1> QED BY <1>2, <1>3, <1>4 DEF off

LEMMA NewestAppend ==
  ASSUME NEW s \in Seq(Saves), NEW c \in Saves
  PROVE  Newest(Append(Newest(s), c)) = Newest(Append(s, c))
<1> DEFINE a == Append(Newest(s), c)
           b == Append(s, c)
<1>1. a \in Seq(Saves) /\ b \in Seq(Saves) /\ Len(a) = Len(Newest(s)) + 1 /\ Len(b) = Len(s) + 1
  BY NewestIs
<1>2. \A i \in 1 .. Len(Newest(s)) : a[i] = Newest(s)[i]
  BY NewestIs
<1>3. \A i \in 1 .. Len(s) : b[i] = s[i]
  OBVIOUS
<1>4. a[Len(a)] = c /\ b[Len(b)] = c
  BY NewestIs, <1>1
<1> HIDE DEF a, b
<1> DEFINE off(t) == IF Len(t) > AuditMax THEN Len(t) - AuditMax ELSE 0
<1>8. \A t \in Seq(Saves) : /\ Newest(t) \in Seq(Saves) /\ Len(Newest(t)) = (IF Len(t) > AuditMax THEN AuditMax ELSE Len(t))
                            /\ \A i \in 1 .. Len(Newest(t)) : Newest(t)[i] = t[i + off(t)]
  BY NewestIs
<1>9. Len(a) \in Nat /\ Len(b) \in Nat /\ Len(s) \in Nat /\ Len(Newest(s)) \in Nat /\ AuditMax \in Nat \ {0}
  <2>1. Newest(s) \in Seq(Saves)
    BY <1>8
  <2> QED BY <1>1, <2>1, LiveSettingsConstants
<1>10. Len(Newest(s)) = (IF Len(s) > AuditMax THEN AuditMax ELSE Len(s))
  BY <1>8
<1>5. Len(Newest(a)) = Len(Newest(b)) /\ Newest(a) \in Seq(Saves) /\ Newest(b) \in Seq(Saves)
  <2>1. Len(Newest(a)) = (IF Len(a) > AuditMax THEN AuditMax ELSE Len(a)) /\ Newest(a) \in Seq(Saves)
    BY <1>1, <1>8
  <2>2. Len(Newest(b)) = (IF Len(b) > AuditMax THEN AuditMax ELSE Len(b)) /\ Newest(b) \in Seq(Saves)
    BY <1>1, <1>8
  <2> QED BY <1>1, <1>9, <1>10, <2>1, <2>2
<1>6. \A i \in 1 .. Len(Newest(a)) : Newest(a)[i] = Newest(b)[i]
  <2> SUFFICES ASSUME NEW i \in 1 .. Len(Newest(a)) PROVE Newest(a)[i] = Newest(b)[i]
    OBVIOUS
  <2>1. Newest(a)[i] = a[i + off(a)] /\ Newest(b)[i] = b[i + off(b)]
    BY <1>1, <1>5, <1>8
  <2>2. Len(Newest(a)) = (IF Len(a) > AuditMax THEN AuditMax ELSE Len(a))
    BY <1>1, <1>8
  <2>7. i \in 1 .. Len(a) /\ i \in Nat \ {0}
    BY <1>9, <2>2
  <2>8. off(a) \in Nat /\ off(b) \in Nat
    BY <1>9
  <2>3. PICK j \in Nat : j = i + off(a)
    BY <2>7, <2>8
  <2>4. PICK k \in Nat : k = i + off(b)
    BY <2>7, <2>8
  <2>5. CASE j = Len(a)
    <3>1. k = Len(b)
      BY <1>1, <1>9, <1>10, <2>2, <2>3, <2>4, <2>5
    <3> QED BY <1>4, <2>1, <2>3, <2>4, <2>5, <3>1
  <2>6. CASE j # Len(a)
    <3>1. j \in 1 .. Len(Newest(s)) /\ k = j + off(s) /\ k \in 1 .. Len(s)
      <4>1. CASE Len(s) < AuditMax
        <5>1. off(a) = 0 /\ off(b) = 0 /\ off(s) = 0 /\ Len(Newest(s)) = Len(s) /\ Len(a) = Len(s) + 1
          BY <1>1, <1>9, <1>10, <4>1
        <5> HIDE DEF off
        <5> QED BY <1>9, <2>3, <2>4, <2>6, <2>7, <5>1
      <4>2. CASE Len(s) = AuditMax
        BY <1>1, <1>9, <1>10, <2>2, <2>3, <2>4, <2>6, <2>7, <4>2
      <4>3. CASE Len(s) > AuditMax
        <5>1. off(a) = 1 /\ off(s) = Len(s) - AuditMax /\ off(b) = off(s) + 1 /\ Len(Newest(s)) = AuditMax /\ Len(a) = AuditMax + 1
          BY <1>1, <1>9, <1>10, <4>3
        <5>2. Len(Newest(a)) = AuditMax
          BY <1>9, <2>2, <5>1
        <5>3. i \in 1 .. AuditMax
          BY <5>2
        <5> HIDE DEF off
        <5> QED BY <1>9, <2>3, <2>4, <2>6, <4>3, <5>1, <5>3
      <4> QED BY <1>9, <4>1, <4>2, <4>3
    <3>2. a[j] = Newest(s)[j] /\ b[k] = s[k] /\ Newest(s)[j] = s[j + off(s)]
      BY <1>2, <1>3, <1>8, <3>1
    <3> QED BY <2>1, <2>3, <2>4, <3>1, <3>2
  <2> QED BY <2>5, <2>6
<1>7. Newest(a) = Newest(b)
  BY <1>5, <1>6, SeqEqual
<1> QED BY <1>7 DEF a, b

\* What holds of a request.
Typed(c)   == saves[c].val \in [Fields[saves[c].doc] -> Bit] /\ saves[c].sent \subseteq Fields[saves[c].doc]
SaveOK(c)  == Typed(c) /\ Reads(c) /\ Applies(c) /\ Appends(c)

LEMMA SaveOKNow == ASSUME SettingsIInv, NEW c \in Saves PROVE SaveOK(c) /\ saves[c] \in Save
BY DEF SettingsIInv, SettingsTypes, SaveOK, Typed

LEMMA SaveHas ==
  ASSUME NEW j \in Save
  PROVE  /\ j.at \in Stages /\ j.op \in Ops /\ j.doc \in Docs /\ j.val \in AnyDoc /\ j.sent \in SUBSET AnyField
         /\ j.moved \in BOOLEAN /\ j.blind \in BOOLEAN /\ j.log \in Seq(Saves)
BY DEF Save

LEMMA FieldsAre ==
  /\ Fields["settings"] = {"privacy", "blocked"} /\ Fields["cp"] = {"token", "ttl", "addr"}
  /\ Fields["export"] = {"password"} /\ Fields["pause"] = {"until"}
  /\ \A d \in Docs : Fields[d] \subseteq AnyField
<1>1. /\ Fields["settings"] = {"privacy", "blocked"} /\ Fields["cp"] = {"token", "ttl", "addr"}
      /\ Fields["export"] = {"password"} /\ Fields["pause"] = {"until"}
  BY DEF Fields
<1> QED BY <1>1, DocsAre DEF AnyField

LEMMA BlankIs == \A d \in Docs : Blank[d] \in [Fields[d] -> Bit]
<1>1. Blank["settings"] \in [Fields["settings"] -> Bit]
  BY FieldsAre DEF Blank, Bit
<1>2. Blank["cp"] \in [Fields["cp"] -> Bit]
  BY FieldsAre DEF Blank, Bit
<1>3. Blank["export"] \in [Fields["export"] -> Bit]
  BY FieldsAre DEF Blank, Bit
<1>4. Blank["pause"] \in [Fields["pause"] -> Bit]
  BY FieldsAre DEF Blank, Bit
<1> QED BY <1>1, <1>2, <1>3, <1>4, DocsAre

LEMMA IdleIs ==
  /\ Idle \in Save /\ Idle.at = "idle" /\ Idle.op = "none" /\ Idle.doc = "pause" /\ Idle.val \in [Fields["pause"] -> Bit]
  /\ Idle.sent = {} /\ ~Idle.moved /\ ~Idle.blind /\ Idle.log = <<>>
<1>1. "pause" \in Docs /\ Blank["pause"] \in [Fields["pause"] -> Bit]
  BY DocsAre, BlankIs
<1>2. Blank["pause"] \in AnyDoc
  BY <1>1 DEF AnyDoc
<1>3. "idle" \in Stages /\ "none" \in Ops /\ <<>> \in Seq(Saves) /\ {} \in SUBSET AnyField
  BY DEF Stages, Ops
<1> QED BY <1>1, <1>2, <1>3 DEF Idle, Save

\* The record of a request that has nothing more to do with documents.
Resting(s) == [Idle EXCEPT !.at = s]

LEMMA RestingIs ==
  ASSUME NEW s \in Stages
  PROVE  /\ Resting(s) \in Save /\ Resting(s).at = s /\ Resting(s).doc = "pause" /\ Resting(s).val \in [Fields["pause"] -> Bit]
         /\ Resting(s).sent = {} /\ ~Resting(s).moved /\ ~Resting(s).blind /\ Resting(s).op = "none"
BY IdleIs DEF Resting, Save

LEMMA RestingOK ==
  ASSUME NEW c \in Saves, NEW s \in {"idle", "log", "done"}, saves'[c] = Resting(s)
  PROVE  SaveOK(c)'
<1>1. s \in Stages /\ s \notin {"save", "mirror", "apply", "append"}
  BY DEF Stages
<1> QED BY <1>1, RestingIs DEF SaveOK, Typed, Reads, Applies, Between, Appends

LEMMA IdleOK == ASSUME NEW c \in Saves, saves'[c] = Idle PROVE SaveOK(c)'
BY IdleIs DEF SaveOK, Typed, Reads, Applies, Between, Appends

LEMMA OtherOK ==
  ASSUME SettingsIInv, NEW e \in Saves, saves'[e] = saves[e], UNCHANGED <<stored, live, mirror, audit, excuses>>
  PROVE  SaveOK(e)'
BY SaveOKNow DEF SaveOK, Typed, Reads, Applies, Between, Appends

LEMMA Parts ==
  ASSUME SettingsIInv
  PROVE  /\ stored \in [Docs -> AnyDoc] /\ live \in [Docs -> AnyDoc]
         /\ \A d \in Docs : stored[d] \in [Fields[d] -> Bit] /\ live[d] \in [Fields[d] -> Bit]
         /\ mirror \in Bit /\ audit \in Seq(Saves) /\ Len(audit) <= AuditMax /\ appended \in Seq(Saves)
         /\ excuses \subseteq Docs \cup {"mirror", "audit"}
         /\ saves \in [Saves -> Save] /\ LiveIsStored /\ MirrorInStep /\ AuditComplete
BY DEF SettingsIInv, SettingsTypes

\* A step of a request that is not between write and application.
LEMMA RequestStep ==
  ASSUME SettingsIInv, NEW c \in Saves, NEW e \in Save, saves' = [saves EXCEPT ![c] = e],
         UNCHANGED <<stored, live, mirror, audit, appended, excuses>>, SaveOK(c)', ~Between(c)
  PROVE  SettingsIInv'
<1>1. saves' \in [Saves -> Save] /\ \A f \in Saves \ {c} : saves'[f] = saves[f]
  BY Parts
<1>2. \A f \in Saves : SaveOK(f)'
  BY <1>1, OtherOK
<1>3. \A d : Settling(d) => Settling(d)'
  BY <1>1 DEF Settling, Between
<1>4. LiveIsStored' /\ MirrorInStep' /\ AuditComplete'
  BY <1>3, Parts DEF LiveIsStored, MirrorInStep, AuditComplete, Newest
<1>5. SettingsTypes'
  BY <1>1, <1>2, Parts DEF SettingsTypes, SaveOK, Typed
<1> QED BY <1>2, <1>4, <1>5 DEF SettingsIInv, SaveOK

LEMMA RestStep ==
  ASSUME SettingsIInv, NEW c \in Saves, NEW s \in {"log", "done"}, saves' = [saves EXCEPT ![c] = Resting(s)],
         UNCHANGED <<stored, live, mirror, audit, appended, excuses>>, ~Between(c)
  PROVE  SettingsIInv'
<1>1. s \in Stages /\ Resting(s) \in Save /\ saves'[c] = Resting(s)
  BY RestingIs, Parts DEF Stages
<1>2. SaveOK(c)'
  BY <1>1, RestingOK
<1> QED BY <1>1, <1>2, RequestStep

LEMMA SaveFailsKeeps == ASSUME SettingsIInv, NEW c \in Saves, SaveFails(c) PROVE SettingsIInv'
BY RestStep DEF SaveFails, Been, Resting, Between

LEMMA putCategoryOverrideKeeps == ASSUME SettingsIInv, NEW c \in Saves, putCategoryOverride(c) PROVE SettingsIInv'
BY RestStep DEF putCategoryOverride, Moves, Resting, Between

LEMMA EditsKeeps ==
  ASSUME SettingsIInv, NEW c \in Saves, NEW op \in Ops, NEW d \in Docs, NEW sent, sent \subseteq Fields[d],
         NEW old \in [Fields[d] -> Bit], NEW blind \in BOOLEAN, ~blind => old = stored[d],
         op = "token" => d = "cp" /\ sent = {"token"}, d = "cp" => op \in {"cp", "token"},
         Edits(c, op, d, sent, old, blind)
  PROVE  SettingsIInv'
<1>1. saves[c].at = "idle" /\ UNCHANGED <<stored, live, mirror, audit, appended, excuses>>
  BY DEF Edits
<1>2. PICK new \in Document[d] :
       saves' = [saves EXCEPT ![c] = [Idle EXCEPT !.at = "save", !.op = op, !.doc = d, !.sent = sent, !.blind = blind,
                                       !.val = [f \in DOMAIN new |-> IF f \in sent THEN new[f] ELSE old[f]]]]
  BY DEF Edits
<1>9. new \in [Fields[d] -> Bit] /\ DOMAIN new = Fields[d]
  BY DocsAre
<1>3. PICK v \in [Fields[d] -> Bit] : v = [f \in Fields[d] |-> IF f \in sent THEN new[f] ELSE old[f]]
  BY <1>9
<1>4. PICK e \in Save : e = [Idle EXCEPT !.at = "save", !.op = op, !.doc = d, !.sent = sent, !.blind = blind, !.val = v]
  <2>1. v \in AnyDoc /\ sent \in SUBSET AnyField /\ "save" \in Stages
    BY FieldsAre DEF AnyDoc, Stages
  <2> QED BY <2>1, IdleIs DEF Save
<1>5. e.at = "save" /\ e.op = op /\ e.doc = d /\ e.sent = sent /\ e.val = v /\ e.blind = blind
  BY <1>4, IdleIs DEF Save
<1>6. saves' = [saves EXCEPT ![c] = e]
  BY <1>2, <1>3, <1>4, <1>9
<1>7. saves'[c] = e
  BY <1>6, Parts
<1>8. SaveOK(c)'
  <2>1. ~blind => \A f \in Fields[d] \ sent : v[f] = stored[d][f]
    BY <1>3
  <2>2. stored' = stored
    BY <1>1
  <2> QED BY <1>5, <1>7, <2>1, <2>2 DEF SaveOK, Typed, Reads, Applies, Between, Appends
<1> QED BY <1>1, <1>6, <1>8, RequestStep DEF Between

LEMMA putSettingsKeeps == ASSUME SettingsIInv, NEW c \in Saves, putSettings(c) PROVE SettingsIInv'
<1>1. PICK sent \in SUBSET {"privacy", "blocked"}, blind \in BOOLEAN :
        Edits(c, "put", "settings", sent, IF blind THEN Blank["settings"] ELSE stored["settings"], blind)
  BY DEF putSettings
<1>2. "settings" \in Docs /\ "put" \in Ops /\ sent \subseteq Fields["settings"]
  BY DocsAre, FieldsAre DEF Ops
<1>3. PICK old \in [Fields["settings"] -> Bit] : old = IF blind THEN Blank["settings"] ELSE stored["settings"]
  BY <1>2, BlankIs, Parts
<1>4. Edits(c, "put", "settings", sent, old, blind)
  BY <1>1, <1>3
<1> QED BY <1>2, <1>3, <1>4, EditsKeeps

LEMMA putBlockedCategoriesKeeps == ASSUME SettingsIInv, NEW c \in Saves, putBlockedCategories(c) PROVE SettingsIInv'
<1>1. "settings" \in Docs /\ "categories" \in Ops /\ {"blocked"} \subseteq Fields["settings"]
  BY DocsAre, FieldsAre DEF Ops
<1>2. stored["settings"] \in [Fields["settings"] -> Bit]
  BY <1>1, Parts
<1> QED BY <1>1, <1>2, EditsKeeps DEF putBlockedCategories

LEMMA importSettingsKeeps == ASSUME SettingsIInv, NEW c \in Saves, importSettings(c) PROVE SettingsIInv'
<1>1. "settings" \in Docs /\ "import" \in Ops /\ {"privacy", "blocked"} \subseteq Fields["settings"]
  BY DocsAre, FieldsAre DEF Ops
<1>2. stored["settings"] \in [Fields["settings"] -> Bit]
  BY <1>1, Parts
<1> QED BY <1>1, <1>2, EditsKeeps DEF importSettings

LEMMA CPIs ==
  ASSUME SettingsIInv
  PROVE  /\ "cp" \in Docs /\ "cp" \in Ops /\ "token" \in Ops /\ {"ttl", "addr"} \subseteq Fields["cp"] /\ {"token"} \subseteq Fields["cp"]
         /\ stored["cp"] \in [Fields["cp"] -> Bit]
         /\ \A blind \in BOOLEAN : LoadCPSettings(blind) \in [Fields["cp"] -> Bit] /\ (~blind => LoadCPSettings(blind) = stored["cp"])
<1>1. "cp" \in Docs /\ "cp" \in Ops /\ "token" \in Ops /\ {"ttl", "addr"} \subseteq Fields["cp"] /\ {"token"} \subseteq Fields["cp"]
  BY DocsAre, FieldsAre DEF Ops
<1> QED BY <1>1, Parts, BlankIs DEF LoadCPSettings

LEMMA putCPSettingsKeeps == ASSUME SettingsIInv, NEW c \in Saves, putCPSettings(c) PROVE SettingsIInv'
<1>1. PICK blind \in BOOLEAN : Edits(c, "cp", "cp", {"ttl", "addr"}, LoadCPSettings(blind), blind)
  BY DEF putCPSettings
<1> QED BY <1>1, CPIs, EditsKeeps

LEMMA generateMetricsTokenKeeps == ASSUME SettingsIInv, NEW c \in Saves, generateMetricsToken(c) PROVE SettingsIInv'
<1>1. PICK blind \in BOOLEAN : Edits(c, "token", "cp", {"token"}, LoadCPSettings(blind), blind)
  BY DEF generateMetricsToken
<1> QED BY <1>1, CPIs, EditsKeeps

LEMMA clearMetricsTokenKeeps == ASSUME SettingsIInv, NEW c \in Saves, clearMetricsToken(c) PROVE SettingsIInv'
BY CPIs, EditsKeeps DEF clearMetricsToken

LEMMA putMetricsExportKeeps == ASSUME SettingsIInv, NEW c \in Saves, putMetricsExport(c) PROVE SettingsIInv'
<1>1. PICK sent \in SUBSET {"password"}, blind \in BOOLEAN :
        Edits(c, "export", "export", sent, IF blind THEN Blank["export"] ELSE stored["export"], blind)
  BY DEF putMetricsExport
<1>2. "export" \in Docs /\ "export" \in Ops /\ sent \subseteq Fields["export"]
  BY DocsAre, FieldsAre DEF Ops
<1>3. PICK old \in [Fields["export"] -> Bit] : old = IF blind THEN Blank["export"] ELSE stored["export"]
  BY <1>2, BlankIs, Parts
<1>4. Edits(c, "export", "export", sent, old, blind)
  BY <1>1, <1>3
<1> QED BY <1>2, <1>3, <1>4, EditsKeeps

\* disableProtection and enableProtection.
LEMMA PauseKeeps ==
  ASSUME SettingsIInv, NEW c \in Saves, Edits(c, "pause", "pause", {"until"}, stored["pause"], FALSE) PROVE SettingsIInv'
<1>1. "pause" \in Docs /\ "pause" \in Ops /\ {"until"} \subseteq Fields["pause"]
  BY DocsAre, FieldsAre DEF Ops
<1>2. stored["pause"] \in [Fields["pause"] -> Bit]
  BY <1>1, Parts
<1> QED BY <1>1, <1>2, EditsKeeps

LEMMA RestartKeeps == ASSUME SettingsIInv, NEW c \in Saves, Restart(c) PROVE SettingsIInv'
<1>1. /\ saves' = [e \in Saves |-> IF e # c /\ saves[e].at = "idle" THEN Idle ELSE Resting("done")]
      /\ live' = stored /\ UNCHANGED <<stored, mirror, audit, appended>>
      /\ excuses' = (excuses \cap {"mirror", "audit"}) \cup (IF \E e \in Saves : saves[e].at = "mirror" THEN {"mirror"} ELSE {})
                      \cup (IF "cp" \in excuses THEN {"mirror"} ELSE {})
  BY DEF Restart, Resting
<1>2. Resting("done") \in Save
  BY RestingIs DEF Stages
<1>3. \A e \in Saves : saves'[e] = Idle \/ saves'[e] = Resting("done")
  BY <1>1
<1>4. \A e \in Saves : SaveOK(e)' /\ saves'[e] \in Save
  BY <1>2, <1>3, RestingOK, IdleIs, IdleOK
<1>5. saves' \in [Saves -> Save]
  BY <1>1, <1>4
<1>6. LiveIsStored'
  <2>1. "cp" \in Docs /\ "settings" \in Docs /\ "pause" \in Docs
    BY DocsAre
  <2> QED BY <1>1, <2>1 DEF LiveIsStored
<1>7. MirrorInStep'
  <2> SUFFICES ASSUME "mirror" \notin excuses' PROVE mirror = stored["cp"].addr
    BY <1>1 DEF MirrorInStep
  <2>1. "mirror" \notin excuses /\ "cp" \notin excuses /\ \A e \in Saves : saves[e].at # "mirror"
    BY <1>1
  <2>2. CASE ~Settling("cp")
    BY <2>1, <2>2, Parts DEF MirrorInStep
  <2>3. CASE Settling("cp")
    <3>1. PICK e \in Saves : saves[e].doc = "cp" /\ saves[e].at = "apply"
      BY <2>1, <2>3 DEF Settling
    <3> QED BY <2>1, <3>1, SaveOKNow DEF SaveOK, Applies, Between
  <2> QED BY <2>2, <2>3
<1>8. AuditComplete'
  BY <1>1, Parts DEF AuditComplete, Newest
<1>9. SettingsTypes'
  <2>1. excuses' \subseteq Docs \cup {"mirror", "audit"}
    BY <1>1
  <2> QED BY <1>1, <1>4, <1>5, <2>1, Parts DEF SettingsTypes, SaveOK, Typed
<1> QED BY <1>4, <1>6, <1>7, <1>8, <1>9 DEF SettingsIInv, SaveOK

LEMMA ArriveKeeps == ASSUME SettingsIInv, NEW c \in Saves, Arrive(c) PROVE SettingsIInv'
BY putSettingsKeeps, putBlockedCategoriesKeeps, importSettingsKeeps, putCPSettingsKeeps, generateMetricsTokenKeeps,
   clearMetricsTokenKeeps, putMetricsExportKeeps, PauseKeeps, putCategoryOverrideKeeps, RestartKeeps
   DEF Arrive, disableProtection, enableProtection

LEMMA ListAuditKeeps == ASSUME SettingsIInv, NEW c \in Saves, ListAudit(c) PROVE SettingsIInv'
<1>1. PICK blind \in BOOLEAN :
       saves' = [saves EXCEPT ![c].at = "append", ![c].log = IF blind THEN <<>> ELSE audit, ![c].blind = blind, ![c].moved = FALSE]
  BY DEF ListAudit
<1>2. saves[c].at = "log" /\ UNCHANGED <<stored, live, mirror, audit, appended, excuses>>
  BY DEF ListAudit
<1>3. PICK l \in Seq(Saves) : l = IF blind THEN <<>> ELSE audit
  <2>1. <<>> \in Seq(Saves) /\ audit \in Seq(Saves)
    BY Parts
  <2>2. CASE blind
    BY <2>1, <2>2
  <2>3. CASE ~blind
    BY <2>1, <2>3
  <2> QED BY <2>2, <2>3
<1>4. PICK j \in Save : j = saves[c]
  BY SaveOKNow
<1>5. PICK e \in Save : e = [j EXCEPT !.at = "append", !.log = l, !.blind = blind, !.moved = FALSE]
  <2>1. "append" \in Stages
    BY DEF Stages
  <2> QED BY <2>1 DEF Save
<1>6. e.at = "append" /\ e.log = l /\ e.blind = blind /\ e.doc = j.doc /\ e.val = j.val /\ e.sent = j.sent
  BY <1>5 DEF Save
<1>7. saves' = [saves EXCEPT ![c] = e]
  BY <1>1, <1>3, <1>4, <1>5, Parts
<1>8. saves'[c] = e
  BY <1>7, Parts
<1>9. SaveOK(c)'
  BY <1>2, <1>3, <1>4, <1>6, <1>8, SaveOKNow DEF SaveOK, Typed, Reads, Applies, Between, Appends
<1> QED BY <1>2, <1>7, <1>9, RequestStep DEF Between

LEMMA ExcusesGrow ==
  ASSUME SettingsIInv, NEW e \in Saves, saves'[e] = saves[e], excuses \subseteq excuses', UNCHANGED <<stored, live, audit>>,
         {"cp", "mirror"} \cap excuses' = {} /\ saves[e].doc = "cp" => mirror' = mirror \/ mirror' = stored["cp"]["addr"]
  PROVE  SaveOK(e)'
BY SaveOKNow DEF SaveOK, Typed, Reads, Applies, Between, Appends

LEMMA SetMasterAdvertiseAddrKeeps == ASSUME SettingsIInv, NEW c \in Saves, SetMasterAdvertiseAddr(c) PROVE SettingsIInv'
<1>0. saves[c].at = "mirror" /\ UNCHANGED <<stored, live, audit, appended>>
  BY DEF SetMasterAdvertiseAddr
<1>1. PICK j \in Save : j = saves[c]
  BY SaveOKNow
<1>2. /\ j.doc = "cp" /\ j.op \in {"cp", "token"} /\ j.val \in [Fields["cp"] -> Bit] /\ j.sent \subseteq Fields["cp"]
      /\ "cp" \notin excuses => j.val = stored["cp"]
      /\ j.op = "token" /\ "cp" \notin excuses => live["cp"]["ttl"] = stored["cp"]["ttl"]
  BY <1>0, <1>1, SaveOKNow DEF SaveOK, Typed, Applies, Between
<1>3. "cp" \in Docs /\ Fields["cp"] = {"token", "ttl", "addr"}
  BY DocsAre, FieldsAre
<1>4. \A d \in {"settings", "pause"}, e \in Saves : saves[e].doc = d => e # c
  BY <1>1, <1>2
<1>5. CASE UNCHANGED mirror /\ excuses' = excuses \cup {"cp", "mirror"} /\ Been(c)
  <2>1. saves' = [saves EXCEPT ![c] = Resting("done")]
    BY <1>5 DEF Been, Resting
  <2>2. Resting("done") \in Save
    BY RestingIs DEF Stages
  <2>3. saves' \in [Saves -> Save] /\ saves'[c] = Resting("done") /\ \A e \in Saves \ {c} : saves'[e] = saves[e]
    BY <2>1, <2>2, Parts
  <2>4. \A e \in Saves : SaveOK(e)'
    BY <1>0, <1>5, <2>3, RestingOK, ExcusesGrow
  <2>5. \A d \in {"settings", "pause"} : Settling(d) => Settling(d)'
    BY <1>4, <2>3 DEF Settling
  <2>6. LiveIsStored' /\ MirrorInStep' /\ AuditComplete'
    BY <1>0, <1>5, <2>5, Parts DEF LiveIsStored, MirrorInStep, AuditComplete, Newest
  <2>7. SettingsTypes'
    BY <1>0, <1>3, <1>5, <2>3, <2>4, Parts DEF SettingsTypes, SaveOK, Typed
  <2> QED BY <2>4, <2>6, <2>7 DEF SettingsIInv, SaveOK
<1>6. ASSUME mirror' = saves[c].val.addr, UNCHANGED excuses, Moves(c, IF saves[c].op = "cp" THEN "apply" ELSE "log")
      PROVE  SettingsIInv'
  <2>1. mirror' = j.val["addr"] /\ mirror' \in Bit /\ ("cp" \notin excuses => mirror' = stored["cp"]["addr"])
    BY <1>1, <1>2, <1>3, <1>6
  <2>2. CASE j.op = "cp"
    <3>1. PICK e \in Save : e = [j EXCEPT !.at = "apply"]
      <4>1. "apply" \in Stages
        BY DEF Stages
      <4> QED BY <4>1 DEF Save
    <3>2. e.at = "apply" /\ e.doc = "cp" /\ e.op = "cp" /\ e.val = j.val /\ e.sent = j.sent
      BY <1>2, <2>2, <3>1 DEF Save
    <3>3. saves' = [saves EXCEPT ![c] = e]
      BY <1>1, <1>6, <2>2, <3>1, Parts DEF Moves
    <3>4. saves' \in [Saves -> Save] /\ saves'[c] = e /\ \A f \in Saves \ {c} : saves'[f] = saves[f]
      BY <3>3, Parts
    <3>5. SaveOK(c)'
      BY <1>0, <1>2, <1>6, <2>1, <3>2, <3>4 DEF SaveOK, Typed, Reads, Applies, Between, Appends
    <3>6. \A f \in Saves : SaveOK(f)'
      BY <1>0, <1>6, <2>1, <3>4, <3>5, ExcusesGrow
    <3>7. Settling("cp")' /\ \A d \in {"settings", "pause"} : Settling(d) => Settling(d)'
      BY <1>4, <3>2, <3>4 DEF Settling
    <3>8. LiveIsStored' /\ MirrorInStep' /\ AuditComplete'
      BY <1>0, <1>6, <3>7, Parts DEF LiveIsStored, MirrorInStep, AuditComplete, Newest
    <3>9. SettingsTypes'
      BY <1>0, <1>6, <2>1, <3>4, <3>6, Parts DEF SettingsTypes, SaveOK, Typed
    <3> QED BY <3>6, <3>8, <3>9 DEF SettingsIInv, SaveOK
  <2>3. CASE j.op # "cp"
    <3>1. saves' = [saves EXCEPT ![c] = Resting("log")]
      BY <1>1, <1>6, <2>3 DEF Moves, Resting
    <3>2. Resting("log") \in Save
      BY RestingIs DEF Stages
    <3>3. saves' \in [Saves -> Save] /\ saves'[c] = Resting("log") /\ \A e \in Saves \ {c} : saves'[e] = saves[e]
      BY <3>1, <3>2, Parts
    <3>4. \A e \in Saves : SaveOK(e)'
      BY <1>0, <1>6, <2>1, <3>3, RestingOK, ExcusesGrow
    <3>5. \A d \in {"settings", "pause"} : Settling(d) => Settling(d)'
      BY <1>4, <3>3 DEF Settling
    <3>6. LiveIsStored' /\ MirrorInStep' /\ AuditComplete'
      BY <1>0, <1>2, <1>6, <2>1, <2>3, <3>5, Parts DEF LiveIsStored, MirrorInStep, AuditComplete, Newest
    <3>7. SettingsTypes'
      BY <1>0, <1>6, <2>1, <3>3, <3>4, Parts DEF SettingsTypes, SaveOK, Typed
    <3> QED BY <3>4, <3>6, <3>7 DEF SettingsIInv, SaveOK
  <2> QED BY <2>2, <2>3
<1> QED BY <1>5, <1>6 DEF SetMasterAdvertiseAddr

LEMMA ApplyDocKeeps == ASSUME SettingsIInv, NEW c \in Saves, ApplyDoc(c) PROVE SettingsIInv'
<1>0. saves[c].at = "apply" /\ UNCHANGED <<stored, mirror, audit, appended, excuses>>
  BY DEF ApplyDoc
<1>1. PICK j \in Save : j = saves[c]
  BY SaveOKNow
<1>2. PICK d \in Docs : d = j.doc
  BY SaveHas
<1>3. /\ d \in {"settings", "pause", "cp"} /\ j.val \in [Fields[d] -> Bit] /\ j.val \in AnyDoc
      /\ d \notin excuses => j.val = stored[d]
      /\ d = "cp" => {"cp", "mirror"} \cap excuses # {} \/ mirror = stored["cp"]["addr"]
  BY <1>0, <1>1, <1>2, SaveOKNow, SaveHas DEF SaveOK, Typed, Applies, Between
<1>4. live' = [live EXCEPT ![d] = j.val]
  BY <1>1, <1>2 DEF ApplyDoc
<1>5. PICK s \in {"log", "done"} : saves' = [saves EXCEPT ![c] = Resting(s)]
  BY DEF ApplyDoc, Moves, Been, Resting
<1>6. Resting(s) \in Save
  BY RestingIs DEF Stages
<1>7. saves' \in [Saves -> Save] /\ saves'[c] = Resting(s) /\ \A e \in Saves \ {c} : saves'[e] = saves[e]
  BY <1>5, <1>6, Parts
<1>8. /\ live' \in [Docs -> AnyDoc] /\ live'[d] = j.val /\ \A x \in Docs \ {d} : live'[x] = live[x]
      /\ \A x \in Docs : live'[x] \in [Fields[x] -> Bit]
  BY <1>3, <1>4, Parts
<1>9. "cp" \in Docs /\ "settings" \in Docs /\ "pause" \in Docs
  BY DocsAre
<1>10. \A e \in Saves : SaveOK(e)'
  <2> SUFFICES ASSUME NEW e \in Saves, e # c PROVE SaveOK(e)'
    BY <1>7, RestingOK
  <2>1. "cp" \notin excuses => live'["cp"] = live["cp"] \/ live'["cp"] = stored["cp"]
    BY <1>3, <1>8, <1>9
  <2>2. saves'[e] = saves[e]
    BY <1>7
  <2> QED BY <1>0, <2>1, <2>2, SaveOKNow DEF SaveOK, Typed, Reads, Applies, Between, Appends
<1>11. \A x : x # d /\ Settling(x) => Settling(x)'
  BY <1>1, <1>2, <1>7 DEF Settling
<1>12. \A x \in {"settings", "pause"} : x \in excuses \/ Settling(x)' \/ live'[x] = stored[x]
  BY <1>3, <1>8, <1>9, <1>11, Parts DEF LiveIsStored
<1>13. "cp" \in excuses \/ Settling("cp")' \/ live'["cp"].ttl = stored["cp"].ttl
  BY <1>3, <1>8, <1>9, <1>11, Parts DEF LiveIsStored
<1>14. MirrorInStep'
  BY <1>0, <1>3, <1>11, Parts DEF MirrorInStep
<1>15. LiveIsStored' /\ AuditComplete'
  BY <1>0, <1>12, <1>13, Parts DEF LiveIsStored, AuditComplete, Newest
<1>16. SettingsTypes'
  BY <1>0, <1>7, <1>8, <1>10, Parts DEF SettingsTypes, SaveOK, Typed
<1> QED BY <1>10, <1>14, <1>15, <1>16 DEF SettingsIInv, SaveOK

LEMMA SavedIs ==
  ASSUME NEW j \in Save
  PROVE  /\ Saved(j) \in Save
         /\ j.doc = "export" => Saved(j) = Resting("done")
         /\ j.doc # "export" => /\ Saved(j).doc = j.doc /\ Saved(j).op = j.op /\ Saved(j).val = j.val /\ Saved(j).sent = {}
                                /\ Saved(j).at = IF j.doc = "cp" THEN "mirror" ELSE "apply"
<1>1. "mirror" \in Stages /\ "apply" \in Stages /\ "done" \in Stages /\ {} \in SUBSET AnyField
  BY DEF Stages
<1>2. CASE j.doc = "export"
  <2>1. Saved(j) = Resting("done")
    BY <1>2 DEF Saved, Resting
  <2> QED BY <1>1, <1>2, <2>1, RestingIs
<1>3. CASE j.doc = "cp"
  <2>1. Saved(j) = [j EXCEPT !.at = "mirror", !.sent = {}, !.moved = FALSE, !.blind = FALSE]
    BY <1>3 DEF Saved
  <2> QED BY <1>1, <1>3, <2>1 DEF Save
<1>4. CASE j.doc \notin {"export", "cp"}
  <2>1. Saved(j) = [j EXCEPT !.at = "apply", !.sent = {}, !.moved = FALSE, !.blind = FALSE]
    BY <1>4 DEF Saved
  <2> QED BY <1>1, <1>4, <2>1 DEF Save
<1> QED BY <1>2, <1>3, <1>4

\* Another's write or append: all that a request learns is that it came.
LEMMA MovedIs ==
  ASSUME NEW j \in Save, NEW m \in BOOLEAN, NEW k, k = [j EXCEPT !.moved = m]
  PROVE  /\ k \in Save /\ k.at = j.at /\ k.op = j.op /\ k.doc = j.doc /\ k.val = j.val /\ k.sent = j.sent
         /\ k.blind = j.blind /\ k.log = j.log /\ k.moved = m
BY DEF Save

LEMMA SaveDocKeeps == ASSUME SettingsIInv, NEW c \in Saves, SaveDoc(c) PROVE SettingsIInv'
<1>0. saves[c].at = "save" /\ UNCHANGED <<live, mirror, audit, appended>>
  BY DEF SaveDoc
<1>1. PICK j \in Save : j = saves[c]
  BY SaveOKNow
<1>2. PICK d \in Docs : d = j.doc
  BY SaveHas
<1>3. /\ j.val \in [Fields[d] -> Bit] /\ j.val \in AnyDoc
      /\ ~j.moved /\ ~j.blind => \A f \in Fields[d] \ j.sent : j.val[f] = stored[d][f]
      /\ j.op = "token" => d = "cp" /\ j.sent = {"token"}
      /\ d = "cp" => j.op \in {"cp", "token"}
  BY <1>0, <1>1, <1>2, SaveOKNow, SaveHas DEF SaveOK, Typed, Reads
<1>4. stored' = [stored EXCEPT ![d] = j.val]
  BY <1>1, <1>2 DEF SaveDoc
<1>5. /\ excuses \subseteq excuses' /\ excuses' \subseteq excuses \cup {d}
      /\ d \notin excuses' => /\ ~j.moved /\ (d = "cp" => ~j.blind)
                              /\ \A e \in Saves \ {c} : ~(saves[e].doc = d /\ Between(e))
  BY <1>1, <1>2 DEF SaveDoc, Between
<1>6. /\ stored' \in [Docs -> AnyDoc] /\ stored'[d] = j.val /\ \A x \in Docs \ {d} : stored'[x] = stored[x]
      /\ \A x \in Docs : stored'[x] \in [Fields[x] -> Bit]
  BY <1>3, <1>4, Parts
<1>7. "cp" \in Docs /\ "settings" \in Docs /\ "pause" \in Docs /\ Docs = {"settings", "cp", "export", "pause"}
  BY DocsAre
<1>8. saves'[c] = Saved(j) /\ Saved(j) \in Save
  BY <1>1, SavedIs DEF SaveDoc
<1>9. \A e \in Saves \ {c} :
        /\ saves'[e] \in Save /\ saves'[e].at = saves[e].at /\ saves'[e].op = saves[e].op /\ saves'[e].doc = saves[e].doc
        /\ saves'[e].val = saves[e].val /\ saves'[e].sent = saves[e].sent /\ saves'[e].blind = saves[e].blind
        /\ saves'[e].log = saves[e].log
        /\ ~saves'[e].moved => ~saves[e].moved /\ ~(saves[e].doc = d /\ saves[e].at = "save")
  <2> SUFFICES ASSUME NEW e \in Saves, e # c
      PROVE  /\ saves'[e] \in Save /\ saves'[e].at = saves[e].at /\ saves'[e].op = saves[e].op /\ saves'[e].doc = saves[e].doc
             /\ saves'[e].val = saves[e].val /\ saves'[e].sent = saves[e].sent /\ saves'[e].blind = saves[e].blind
             /\ saves'[e].log = saves[e].log
             /\ ~saves'[e].moved => ~saves[e].moved /\ ~(saves[e].doc = d /\ saves[e].at = "save")
    OBVIOUS
  <2>1. PICK b \in BOOLEAN : b = (saves[e].doc = d /\ saves[e].at = "save")
    OBVIOUS
  <2>2. saves'[e] = [saves[e] EXCEPT !.moved = @ \/ b]
    BY <1>1, <1>2, <2>1 DEF SaveDoc
  <2>3. saves[e] \in Save
    BY SaveOKNow
  <2>4. PICK k : k = saves'[e]
    OBVIOUS
  <2>5. PICK i \in Save : i = saves[e]
    BY <2>3
  <2>8. PICK m \in BOOLEAN : m = (i.moved \/ b)
    OBVIOUS
  <2>6. k = [i EXCEPT !.moved = m]
    BY <2>2, <2>4, <2>5, <2>8
  <2>7. /\ k \in Save /\ k.at = i.at /\ k.op = i.op /\ k.doc = i.doc /\ k.val = i.val /\ k.sent = i.sent
        /\ k.blind = i.blind /\ k.log = i.log /\ k.moved = m
    BY <2>6, MovedIs
  <2> QED BY <2>1, <2>4, <2>5, <2>7, <2>8
<1>10. saves' \in [Saves -> Save]
  <2>1. saves' = [e \in Saves |-> saves'[e]]
    BY DEF SaveDoc
  <2> QED BY <1>8, <1>9, <2>1
<1>11. SaveOK(c)'
  <2>1. CASE d = "export"
    BY <1>1, <1>2, <1>8, <2>1, SavedIs, RestingOK
  <2>2. CASE d # "export"
    <3>1. /\ saves'[c].doc = d /\ saves'[c].op = j.op /\ saves'[c].val = j.val /\ saves'[c].sent = {}
          /\ saves'[c].at = IF d = "cp" THEN "mirror" ELSE "apply"
      BY <1>2, <1>8, <2>2, SavedIs
    <3>2. j.op = "token" /\ "cp" \notin excuses' => live["cp"]["ttl"] = stored'["cp"]["ttl"]
      <4> SUFFICES ASSUME j.op = "token", "cp" \notin excuses' PROVE live["cp"]["ttl"] = stored'["cp"]["ttl"]
        OBVIOUS
      <4>1. d = "cp" /\ j.sent = {"token"} /\ ~j.moved /\ ~j.blind /\ "cp" \notin excuses
        BY <1>3, <1>5
      <4>2. stored'["cp"]["ttl"] = stored["cp"]["ttl"]
        BY <1>3, <1>6, <4>1, FieldsAre
      <4>3. ~Settling("cp")
        BY <1>0, <1>5, <4>1 DEF Settling, Between
      <4> QED BY <4>1, <4>2, <4>3, Parts DEF LiveIsStored
    <3>3. d \in {"settings", "pause", "cp"}
      BY <1>7, <2>2
    <3> QED BY <1>0, <1>3, <1>6, <3>1, <3>2, <3>3 DEF SaveOK, Typed, Reads, Applies, Between, Appends
  <2> QED BY <2>1, <2>2
<1>12. ASSUME NEW e \in Saves \ {c} PROVE SaveOK(e)'
  <2>1. SaveOK(e) /\ saves[e].doc \in Docs
    BY SaveOKNow, SaveHas
  <2>2. Typed(e)' /\ Appends(e)'
    BY <1>0, <1>9, <2>1 DEF SaveOK, Typed, Appends
  <2>3. Reads(e)'
    BY <1>6, <1>9, <2>1 DEF SaveOK, Reads
  <2>4. Applies(e)'
    <3>1. CASE ~Between(e)
      BY <1>9, <3>1 DEF Applies, Between
    <3>2. CASE Between(e) /\ saves[e].doc = d
      BY <1>5, <1>9, <2>1, <3>2 DEF SaveOK, Applies, Between
    <3>3. CASE Between(e) /\ saves[e].doc # d
      <4>1. saves[e].doc \notin excuses' => saves[e].val = stored'[saves[e].doc]
        BY <1>5, <1>6, <2>1, <3>3 DEF SaveOK, Applies
      <4>2. saves[e].doc = "cp" => stored'["cp"] = stored["cp"] /\ ("cp" \notin excuses' => "cp" \notin excuses)
        BY <1>5, <1>6, <1>7, <3>3
      <4>3. "mirror" \in excuses => "mirror" \in excuses'
        BY <1>5
      <4> QED BY <1>0, <1>5, <1>9, <2>1, <3>3, <4>1, <4>2, <4>3 DEF SaveOK, Applies, Between
    <3> QED BY <3>1, <3>2, <3>3
  <2> QED BY <2>2, <2>3, <2>4 DEF SaveOK
<1>13. \A x : Settling(x) => Settling(x)'
  BY <1>0, <1>9 DEF Settling
<1>14. d # "export" => Settling(d)'
  BY <1>2, <1>8, SavedIs DEF Settling
<1>15. \A x \in {"settings", "pause"} : x \in excuses' \/ Settling(x)' \/ live[x] = stored'[x]
  BY <1>5, <1>6, <1>7, <1>13, <1>14, Parts DEF LiveIsStored
<1>16. "cp" \in excuses' \/ Settling("cp")' \/ live["cp"].ttl = stored'["cp"].ttl
  BY <1>5, <1>6, <1>7, <1>13, <1>14, Parts DEF LiveIsStored
<1>17. MirrorInStep'
  <2>1. CASE d = "cp"
    BY <1>14, <2>1 DEF MirrorInStep
  <2>2. CASE d # "cp"
    BY <1>0, <1>5, <1>6, <1>7, <1>13, <2>2, Parts DEF MirrorInStep
  <2> QED BY <2>1, <2>2
<1>18. LiveIsStored' /\ AuditComplete'
  BY <1>0, <1>5, <1>7, <1>15, <1>16, Parts DEF LiveIsStored, AuditComplete, Newest
<1>19. \A e \in Saves : SaveOK(e)'
  BY <1>11, <1>12
<1>20. SettingsTypes'
  <2>1. excuses' \subseteq Docs \cup {"mirror", "audit"}
    BY <1>5, Parts
  <2> QED BY <1>0, <1>6, <1>10, <1>19, <2>1, Parts DEF SettingsTypes, SaveOK, Typed
<1> QED BY <1>17, <1>18, <1>19, <1>20 DEF SettingsIInv, SaveOK

LEMMA AppendAuditKeeps == ASSUME SettingsIInv, NEW c \in Saves, AppendAudit(c) PROVE SettingsIInv'
<1>0. /\ saves[c].at = "append" /\ appended' = Append(appended, c) /\ UNCHANGED <<stored, live, mirror>>
      /\ audit' = Newest(Append(saves[c].log, c))
  BY DEF AppendAudit, Logged
<1>1. PICK j \in Save : j = saves[c]
  BY SaveOKNow
<1>2. j.log \in Seq(Saves) /\ (~j.moved /\ ~j.blind => j.log = audit)
  BY <1>0, <1>1, SaveOKNow, SaveHas DEF SaveOK, Appends
<1>3. excuses \subseteq excuses' /\ excuses' \subseteq excuses \cup {"audit"} /\ ("audit" \notin excuses' => ~j.moved /\ ~j.blind)
  BY <1>1 DEF AppendAudit, Logged
<1>4. audit' \in Seq(Saves) /\ Len(audit') <= AuditMax /\ appended' \in Seq(Saves)
  <2>4. Append(j.log, c) \in Seq(Saves)
    BY <1>2
  <2>1. PICK l \in Seq(Saves) : l = Append(j.log, c)
    BY <2>4
  <2>2. Newest(l) \in Seq(Saves) /\ Len(Newest(l)) = (IF Len(l) > AuditMax THEN AuditMax ELSE Len(l))
    BY NewestIs
  <2>3. Len(Newest(l)) <= AuditMax
    BY <2>2, LiveSettingsConstants
  <2> QED BY <1>0, <1>1, <2>1, <2>2, <2>3, Parts
<1>5. saves'[c] = Resting("done") /\ Resting("done") \in Save
  BY RestingIs DEF AppendAudit, Logged, Resting, Stages
<1>6. \A e \in Saves \ {c} :
        /\ saves'[e] \in Save /\ saves'[e].at = saves[e].at /\ saves'[e].op = saves[e].op /\ saves'[e].doc = saves[e].doc
        /\ saves'[e].val = saves[e].val /\ saves'[e].sent = saves[e].sent /\ saves'[e].blind = saves[e].blind
        /\ saves'[e].log = saves[e].log
        /\ ~saves'[e].moved => ~saves[e].moved /\ saves[e].at # "append"
  <2> SUFFICES ASSUME NEW e \in Saves, e # c
      PROVE  /\ saves'[e] \in Save /\ saves'[e].at = saves[e].at /\ saves'[e].op = saves[e].op /\ saves'[e].doc = saves[e].doc
             /\ saves'[e].val = saves[e].val /\ saves'[e].sent = saves[e].sent /\ saves'[e].blind = saves[e].blind
             /\ saves'[e].log = saves[e].log
             /\ ~saves'[e].moved => ~saves[e].moved /\ saves[e].at # "append"
    OBVIOUS
  <2>1. PICK b \in BOOLEAN : b = (saves[e].at = "append")
    OBVIOUS
  <2>2. saves'[e] = [saves[e] EXCEPT !.moved = @ \/ b]
    BY <2>1 DEF AppendAudit, Logged
  <2>3. saves[e] \in Save
    BY SaveOKNow
  <2>4. PICK k : k = saves'[e]
    OBVIOUS
  <2>5. PICK i \in Save : i = saves[e]
    BY <2>3
  <2>8. PICK m \in BOOLEAN : m = (i.moved \/ b)
    OBVIOUS
  <2>6. k = [i EXCEPT !.moved = m]
    BY <2>2, <2>4, <2>5, <2>8
  <2>7. /\ k \in Save /\ k.at = i.at /\ k.op = i.op /\ k.doc = i.doc /\ k.val = i.val /\ k.sent = i.sent
        /\ k.blind = i.blind /\ k.log = i.log /\ k.moved = m
    BY <2>6, MovedIs
  <2> QED BY <2>1, <2>4, <2>5, <2>7, <2>8
<1>7. saves' \in [Saves -> Save]
  <2>1. saves' = [e \in Saves |-> saves'[e]]
    BY DEF AppendAudit, Logged
  <2> QED BY <1>5, <1>6, <2>1
<1>8. ASSUME NEW e \in Saves PROVE SaveOK(e)'
  <2>1. CASE e = c
    BY <1>5, <2>1, RestingOK
  <2>2. CASE e # c
    BY <1>0, <1>3, <1>6, <2>2, SaveOKNow DEF SaveOK, Typed, Reads, Applies, Between, Appends
  <2> QED BY <2>1, <2>2
<1>9. \A x : Settling(x) => Settling(x)'
  BY <1>0, <1>6 DEF Settling
<1>10. LiveIsStored' /\ MirrorInStep'
  BY <1>0, <1>3, <1>9, Parts DEF LiveIsStored, MirrorInStep
<1>11. AuditComplete'
  <2> SUFFICES ASSUME "audit" \notin excuses' PROVE audit' = Newest(appended')
    BY DEF AuditComplete, Newest
  <2>1. j.log = audit /\ audit = Newest(appended)
    BY <1>2, <1>3, Parts DEF AuditComplete
  <2> QED BY <1>0, <1>1, <2>1, NewestAppend, Parts
<1>12. SettingsTypes'
  <2>1. excuses' \subseteq Docs \cup {"mirror", "audit"}
    BY <1>3, Parts
  <2> QED BY <1>0, <1>4, <1>7, <1>8, <2>1, Parts DEF SettingsTypes, SaveOK, Typed
<1> QED BY <1>8, <1>10, <1>11, <1>12 DEF SettingsIInv, SaveOK

LEMMA SettingsInit == LsInit => SettingsIInv
<1> SUFFICES ASSUME LsInit PROVE SettingsIInv
  OBVIOUS
<1>1. PICK p \in Bit : stored = [Blank EXCEPT !.settings.privacy = p]
  BY DEF LsInit
<1>2. /\ live = stored /\ mirror = 0 /\ audit = <<>> /\ appended = <<>> /\ excuses = {} /\ saves = [c \in Saves |-> Idle]
  BY DEF LsInit
<1>3. DOMAIN Blank = Docs /\ Blank["settings"] \in [{"privacy", "blocked"} -> Bit]
  BY DocsAre, BlankIs, FieldsAre DEF Blank
<1>4. [Blank["settings"] EXCEPT !.privacy = p] \in [{"privacy", "blocked"} -> Bit]
  BY <1>3
<1>5. \A d \in Docs : stored[d] \in [Fields[d] -> Bit]
  <2>1. stored["settings"] = [Blank["settings"] EXCEPT !.privacy = p]
    BY <1>1, <1>3, DocsAre
  <2>2. \A d \in Docs \ {"settings"} : stored[d] = Blank[d]
    BY <1>1, <1>3
  <2> QED BY <1>4, <2>1, <2>2, BlankIs, FieldsAre
<1>6. stored \in [Docs -> AnyDoc]
  <2>1. DOMAIN stored = Docs /\ stored = [d \in Docs |-> stored[d]]
    BY <1>1, <1>3 DEF Blank
  <2> QED BY <1>5, <2>1 DEF AnyDoc
<1>7. \A c \in Saves : saves[c] = Idle
  BY <1>2
<1>8. saves \in [Saves -> Save] /\ \A c \in Saves : Typed(c) /\ Reads(c) /\ Applies(c) /\ Appends(c)
  BY <1>2, <1>7, IdleIs DEF Typed, Reads, Applies, Between, Appends
<1>9. audit \in Seq(Saves) /\ Len(audit) <= AuditMax /\ appended \in Seq(Saves) /\ mirror \in Bit
  BY <1>2, LiveSettingsConstants DEF Bit
<1>10. SettingsTypes
  BY <1>2, <1>5, <1>6, <1>8, <1>9 DEF SettingsTypes, Typed
<1>11. LiveIsStored
  BY <1>2 DEF LiveIsStored
<1>12. MirrorInStep
  <2>1. stored["cp"] = Blank["cp"]
    BY <1>1, <1>3, DocsAre
  <2> QED BY <1>2, <2>1 DEF MirrorInStep, Blank
<1>13. AuditComplete
  <2>3. Newest(appended) \in Seq(Saves) /\ Len(Newest(appended)) = (IF Len(appended) > AuditMax THEN AuditMax ELSE Len(appended))
    BY <1>9, NewestIs
  <2>4. Len(appended) = 0
    BY <1>2
  <2>1. Newest(appended) \in Seq(Saves) /\ Len(Newest(appended)) = 0
    BY <2>3, <2>4, LiveSettingsConstants
  <2>2. Newest(appended) = <<>>
    BY <2>1, SeqEqual
  <2> QED BY <1>2, <2>2 DEF AuditComplete
<1> QED BY <1>8, <1>10, <1>11, <1>12, <1>13 DEF SettingsIInv

LEMMA SettingsNext == SettingsIInv /\ [LsNext]_lsVars => SettingsIInv'
<1> SUFFICES ASSUME SettingsIInv, [LsNext]_lsVars PROVE SettingsIInv'
  OBVIOUS
<1>1. CASE UNCHANGED lsVars
  BY <1>1 DEF lsVars, SettingsIInv, SettingsTypes, LiveIsStored, MirrorInStep, AuditComplete, Reads, Applies, Appends,
              Settling, Between, Newest
<1>2. CASE LsNext
  BY <1>2, ArriveKeeps, SaveDocKeeps, SaveFailsKeeps, SetMasterAdvertiseAddrKeeps, ApplyDocKeeps, ListAuditKeeps,
     AppendAuditKeeps DEF LsNext
<1> QED BY <1>1, <1>2

LEMMA SettingsIInvHolds == LsSpec => []SettingsIInv
BY SettingsInit, SettingsNext, PTL DEF LsSpec

LEMMA SettingsIInvImplies == SettingsIInv => SettingsInv
<1> SUFFICES ASSUME SettingsIInv PROVE SettingsInv
  OBVIOUS
<1>1. \A c \in Saves : saves[c].doc \in Docs /\ saves[c].val \in Document[saves[c].doc] /\ saves[c].sent \subseteq DOMAIN saves[c].val
  <2> SUFFICES ASSUME NEW c \in Saves
               PROVE  saves[c].doc \in Docs /\ saves[c].val \in Document[saves[c].doc] /\ saves[c].sent \subseteq DOMAIN saves[c].val
    OBVIOUS
  <2>1. saves[c].doc \in Docs /\ saves[c].val \in [Fields[saves[c].doc] -> Bit] /\ saves[c].sent \subseteq Fields[saves[c].doc]
    BY SaveOKNow, SaveHas DEF SaveOK, Typed
  <2> QED BY <2>1, DocsAre
<1>2. LsTypeOK
  BY <1>1, Parts, DocsAre DEF LsTypeOK
<1> QED BY <1>2, Parts DEF SettingsInv

\* SettingsInv, however many requests save documents and log changes at once
\* and wherever the control plane dies: what runs, and what enrollment is
\* given, is what is stored, and the audit log is the newest entries, unless
\* saves of one document overlapped, a step failed half way, or appends did.
THEOREM SettingsHold == LsSpec => []SettingsInv
BY SettingsIInvHolds, SettingsIInvImplies, PTL

LEMMA SaveKeepsFields ==
  ASSUME SettingsIInv, NEW c \in Saves, SaveDoc(c), ~saves[c].moved, ~saves[c].blind
  PROVE  LET d == saves[c].doc IN \A f \in DOMAIN stored[d] \ saves[c].sent : stored'[d][f] = stored[d][f]
<1>1. PICK d \in Docs : d = saves[c].doc
  BY SaveOKNow, SaveHas
<1>2. DOMAIN stored[d] = Fields[d] /\ stored' = [stored EXCEPT ![d] = saves[c].val] /\ stored'[d] = saves[c].val
  BY <1>1, Parts DEF SaveDoc
<1>3. \A f \in Fields[d] \ saves[c].sent : saves[c].val[f] = stored[d][f]
  BY <1>1, SaveOKNow DEF SaveOK, Reads, SaveDoc
<1> QED BY <1>1, <1>2, <1>3

\* putSettings, putCPSettings, putMetricsExport and the others: a save leaves
\* the fields it does not mention as they are, for every number of requests.
THEOREM FieldsStay == LsSpec => UnmentionedStays
<1>1. SettingsIInv /\ [LsNext]_lsVars
        => [\A c \in Saves : SaveDoc(c) /\ ~saves[c].moved /\ ~saves[c].blind =>
              LET d == saves[c].doc IN \A f \in DOMAIN stored[d] \ saves[c].sent : stored'[d][f] = stored[d][f]]_lsVars
  BY SaveKeepsFields
<1> QED BY <1>1, SettingsIInvHolds, PTL DEF LsSpec, UnmentionedStays
=============================================================================
