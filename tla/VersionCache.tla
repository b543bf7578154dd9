---------------------------- MODULE VersionCache ----------------------------
(***************************************************************************)
(* The control plane's cache of config versions.                           *)
(*                                                                         *)
(* A config version is a hash of the contents of the tables that feed the  *)
(* replicated config.  It is computed table by table, without a            *)
(* transaction, and memoized per key (a node's name and site, or the       *)
(* global key) under a generation counter that every write to one of those *)
(* tables increments after it has committed.  Readers are the handlers     *)
(* that ask for versions (a poll, the snapshot of a poll, the dashboard's  *)
(* versions of all nodes); they interleave with each other and with the    *)
(* writes at every table read, atomic load and mutex section.              *)
(*                                                                         *)
(* Contents are abstracted to the number of writes a table has seen, and a *)
(* hash to the contents hashed.  An entry older than configVersionTTL is a *)
(* miss; here any entry may be one.                                        *)
(***************************************************************************)
EXTENDS Integers

CONSTANTS
  Readers, Writers, \* threads of the control plane
  Keys,             \* cache keys
  NTables,          \* tables that feed the config version, in the order read
  NoAnswer,         \* no entry, no answer
  MaxGen,           \* bound: increments of the generation
  MaxWrites         \* bound: writes per table

ASSUME CacheAssumption ==
  /\ NTables \in Nat /\ MaxGen \in Nat /\ MaxWrites \in Nat
  /\ NoAnswer \notin [1 .. NTables -> Nat]

Tables == 1 .. NTables
View   == [Tables -> Nat]
Zero   == [t \in Tables |-> 0]
Empty  == [k \in Keys |-> NoAnswer]

VARIABLES
  tables,    \* tables[t] counts the writes committed to table t
  gen,       \* Store.configGen
  writing,   \* writers between a statement and its increment of gen
  cacheGen,  \* versionCache.gen
  entries,   \* versionCache.entries
  pc,        \* what a reader does next
  readGen,   \* the generation it read first
  curGen,    \* the generation it read before storing
  todo,      \* keys it has yet to look up
  missing,   \* keys it computes
  data,      \* the contents it has read
  at,        \* how many tables it has read
  answer,    \* history: what it answered
  floorAt    \* history: the tables when a generation began

store  == <<tables, gen, writing, floorAt>>
cache  == <<cacheGen, entries>>
reader == <<pc, readGen, curGen, todo, missing, data, at, answer>>
vars   == <<store, cache, reader>>

Init ==
  /\ tables = Zero /\ gen = 0 /\ writing = {}
  /\ floorAt = [g \in 0 .. MaxGen |-> Zero]
  /\ cacheGen = 0 /\ entries = Empty
  /\ pc = [r \in Readers |-> "idle"]
  /\ readGen = [r \in Readers |-> 0] /\ curGen = [r \in Readers |-> 0]
  /\ todo = [r \in Readers |-> {}] /\ missing = [r \in Readers |-> {}]
  /\ data = [r \in Readers |-> Zero] /\ at = [r \in Readers |-> 0]
  /\ answer = [r \in Readers |-> Empty]

-----------------------------------------------------------------------------
(* Writers: dbh.Exec and txh.Commit.                                       *)

\* The statement or transaction takes effect, on table t.
Commit(w, t) ==
  /\ w \notin writing /\ tables[t] < MaxWrites
  /\ tables' = [tables EXCEPT ![t] = @ + 1]
  /\ writing' = writing \cup {w}
  /\ UNCHANGED <<gen, floorAt, cache, reader>>

\* It has no effect: it failed, or touched nothing that is hashed.
CommitNothing(w) ==
  /\ w \notin writing
  /\ writing' = writing \cup {w}
  /\ UNCHANGED <<tables, gen, floorAt, cache, reader>>

\* Either way the generation is incremented afterwards.
Bump(w) ==
  /\ w \in writing /\ gen < MaxGen
  /\ gen' = gen + 1
  /\ floorAt' = [floorAt EXCEPT ![gen + 1] = tables]
  /\ writing' = writing \ {w}
  /\ UNCHANGED <<tables, cache, reader>>

-----------------------------------------------------------------------------
(* Readers.                                                                *)

Step(r, p) == pc' = [pc EXCEPT ![r] = p]

\* CachedConfigVersionForNode, CachedConfigVersion and ConfigVersionsForNodes
\* look keys up; SnapshotForNode computes its node's version in any case.
Begin(r, keys, lookup) ==
  /\ pc[r] = "idle"
  /\ readGen' = [readGen EXCEPT ![r] = gen]
  /\ todo' = [todo EXCEPT ![r] = IF lookup THEN keys ELSE {}]
  /\ missing' = [missing EXCEPT ![r] = IF lookup THEN {} ELSE keys]
  /\ data' = [data EXCEPT ![r] = Zero] /\ at' = [at EXCEPT ![r] = 0]
  /\ answer' = [answer EXCEPT ![r] = Empty]
  /\ Step(r, "lookup")
  /\ UNCHANGED <<store, cache, curGen>>

\* versionCache.get: entries of another generation are not used, and those of
\* an older one are dropped.
Get(r, k) ==
  /\ pc[r] = "lookup" /\ k \in todo[r]
  /\ todo' = [todo EXCEPT ![r] = @ \ {k}]
  /\ \/ /\ cacheGen = readGen[r] /\ entries[k] # NoAnswer
        /\ answer' = [answer EXCEPT ![r][k] = entries[k]]
        /\ UNCHANGED <<cache, missing>>
     \/ /\ missing' = [missing EXCEPT ![r] = @ \cup {k}]
        /\ cacheGen' = IF readGen[r] > cacheGen THEN readGen[r] ELSE cacheGen
        /\ entries' = IF readGen[r] > cacheGen THEN Empty ELSE entries
        /\ UNCHANGED answer
  /\ UNCHANGED <<store, pc, readGen, curGen, data, at>>

\* The lookups are over.
Looked(r) ==
  /\ pc[r] = "lookup" /\ todo[r] = {}
  /\ Step(r, IF missing[r] = {} THEN "idle" ELSE "load")
  /\ UNCHANGED <<store, cache, readGen, curGen, todo, missing, data, at, answer>>

\* The next table is read ...
Load(r) ==
  /\ pc[r] = "load" /\ at[r] < NTables
  /\ at' = [at EXCEPT ![r] = @ + 1]
  /\ data' = [data EXCEPT ![r][at[r] + 1] = tables[at[r] + 1]]
  /\ UNCHANGED <<store, cache, pc, readGen, curGen, todo, missing, answer>>

\* ... or the query fails and nothing is answered.
LoadFails(r) ==
  /\ pc[r] = "load" /\ at[r] < NTables
  /\ Step(r, "idle")
  /\ UNCHANGED <<store, cache, readGen, curGen, todo, missing, data, at, answer>>

\* Changed: the versions are stored under the generation read last.
RereadAdopting(r) ==
  /\ pc[r] = "load" /\ at[r] = NTables
  /\ curGen' = [curGen EXCEPT ![r] = gen]
  /\ readGen' = [readGen EXCEPT ![r] = gen]
  /\ Step(r, "put")
  /\ UNCHANGED <<store, cache, todo, missing, data, at, answer>>

\* The generation is read again before the versions are stored.
Reread(r) ==
  /\ pc[r] = "load" /\ at[r] = NTables
  /\ curGen' = [curGen EXCEPT ![r] = gen]
  /\ Step(r, "put")
  /\ UNCHANGED <<store, cache, readGen, todo, missing, data, at, answer>>

\* versionCache.put, and the version is answered.
Put(r, k) ==
  /\ pc[r] = "put" /\ k \in missing[r]
  /\ missing' = [missing EXCEPT ![r] = @ \ {k}]
  /\ answer' = [answer EXCEPT ![r][k] = data[r]]
  /\ \/ /\ curGen[r] = readGen[r]
        /\ cacheGen' = readGen[r]
        /\ entries' = [IF cacheGen = readGen[r] THEN entries ELSE Empty EXCEPT ![k] = data[r]]
     \/ curGen[r] # readGen[r] /\ UNCHANGED cache
  /\ UNCHANGED <<store, pc, readGen, curGen, todo, data, at>>

Finish(r) ==
  /\ pc[r] = "put" /\ missing[r] = {}
  /\ Step(r, "idle")
  /\ UNCHANGED <<store, cache, readGen, curGen, todo, missing, data, at, answer>>

ReaderStep(r) ==
  \/ \E keys \in (SUBSET Keys) \ {{}} : Begin(r, keys, TRUE)
  \/ \E k \in Keys : Begin(r, {k}, FALSE) \/ Get(r, k) \/ Put(r, k)
  \/ Looked(r) \/ Load(r) \/ LoadFails(r) \/ Reread(r) \/ Finish(r)

Next ==
  \/ \E w \in Writers : CommitNothing(w) \/ Bump(w) \/ \E t \in Tables : Commit(w, t)
  \/ \E r \in Readers : ReaderStep(r)

Spec == Init /\ [][Next]_vars

-----------------------------------------------------------------------------
(* Properties.                                                             *)

TypeOK ==
  /\ tables \in View /\ gen \in 0 .. MaxGen /\ writing \subseteq Writers
  /\ floorAt \in [0 .. MaxGen -> View]
  /\ cacheGen \in 0 .. MaxGen /\ entries \in [Keys -> View \cup {NoAnswer}]
  /\ pc \in [Readers -> {"idle", "lookup", "load", "put"}]
  /\ readGen \in [Readers -> 0 .. MaxGen] /\ curGen \in [Readers -> 0 .. MaxGen]
  /\ todo \in [Readers -> SUBSET Keys] /\ missing \in [Readers -> SUBSET Keys]
  /\ data \in [Readers -> View] /\ at \in [Readers -> 0 .. NTables]
  /\ answer \in [Readers -> [Keys -> View \cup {NoAnswer}]]

AtLeast(v, w) == \A t \in Tables : w[t] <= v[t]

\* A reader is answered contents that include every write whose increment came
\* before the reader began, and none that was never made.
AnswersFresh ==
  \A r \in Readers : \A k \in Keys :
    answer[r][k] # NoAnswer =>
      AtLeast(answer[r][k], floorAt[readGen[r]]) /\ AtLeast(tables, answer[r][k])

\* While no write waits for its increment, an entry of the current generation
\* is the version of what the tables hold: nobody is told a stale version, in
\* whatever order lookups, table reads, stores and writes interleave.
EntriesCurrent ==
  cacheGen = gen /\ writing = {} => \A k \in Keys : entries[k] \in {NoAnswer, tables}

\* What these rest on.  A generation begins with everything committed by then;
\* nothing commits after it without a writer that has still to increment it.
GenInv ==
  /\ \A g \in 0 .. MaxGen : AtLeast(tables, floorAt[g])
  /\ writing = {} => tables = floorAt[gen]
  /\ cacheGen <= gen
  /\ \A r \in Readers : readGen[r] <= gen

\* What a reader has read, and what the cache keeps, includes everything
\* committed when the generation it is filed under began.
DataInv ==
  /\ \A r \in Readers : AtLeast(tables, data[r])
  /\ \A r \in Readers : \A t \in 1 .. at[r] : floorAt[readGen[r]][t] <= data[r][t]
  /\ \A r \in Readers : pc[r] = "put" => at[r] = NTables
EntryInv ==
  \A k \in Keys : entries[k] # NoAnswer =>
    AtLeast(entries[k], floorAt[cacheGen]) /\ AtLeast(tables, entries[k])

\* A key is answered once: from the cache, or when it has been computed.
OnceInv ==
  \A r \in Readers :
    /\ todo[r] \cap missing[r] = {}
    /\ \A k \in todo[r] \cup missing[r] : answer[r][k] = NoAnswer

\* The cache and its readers implement the promise of FreshRead.
Promise == INSTANCE FreshRead
  WITH published <- floorAt[gen],
       busy      <- {r \in Readers : pc[r] # "idle"},
       since     <- [r \in Readers |-> floorAt[readGen[r]]]

\* versionCache.get and put implement FreshRead: every answer is at least as new
\* as what was published when its reader began.
KeepsPromise == Promise!Spec

=============================================================================
