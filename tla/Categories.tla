------------------------------ MODULE Categories ------------------------------
(***************************************************************************)
(* What a domain is, who says so, and what follows from it.                *)
(*                                                                         *)
(* The control plane labels each query as it arrives (Categorizer) from    *)
(* what it holds in memory: operators' overrides, enforced verdicts, the   *)
(* published database, a built-in list, the model's labels.  The counts    *)
(* per label are folded from the log behind a cursor, and a pass labels    *)
(* again the queries that were "other", moving their counts too.  An     *)
(* agent blocks categories: it is sent corrections per domain (DomainsFor) *)
(* and loads the database for the blocked categories only (Holder), in a   *)
(* goroutine of its own.                                                   *)
(*                                                                         *)
(* A name is known by its suffixes.  Steps are reads of the store, what a  *)
(* lock or a transaction covers, and loads of the database.                *)
(***************************************************************************)
EXTENDS Naturals, Sequences, FiniteSets, SequencesExt, FiniteSetsExt

CONSTANTS
  Names,
  Chain,          \* of each name, itself first, up to the public suffix
  RegisteredDomain,  \* of each name; a public suffix has none
  Platforms,         \* names of customers on a hosting platform
  Private,           \* names that only exist inside a network
  BuiltinList,       \* a set of <<name, category>>, one for each name in it
  Publications,      \* what the database may hold: sets of such pairs
  Precedence,        \* the categories that can be blocked, the first one wins
  Security,          \* those that verdicts enforce
  None,
  MaxChanges,        \* bound: changes by operators, the worker and the clock, failures, restarts
  MaxSyncs,          \* bound: settings applied by the agent
  MaxQueries         \* bound: rows of the log

\* A suffix of a name has the rest of its chain; names down to the registered
\* domain share it, and the platform they are on.
ASSUME CategoriesAssumption ==
  /\ \A n \in Names : Chain[n] \in Seq(Names) /\ Chain[n] # <<>> /\ Chain[n][1] = n
  /\ \A n \in Names : \A i \in DOMAIN Chain[n] : Range(Chain[Chain[n][i]]) \subseteq Range(Chain[n])
  /\ \A n \in Names : \A i, j \in DOMAIN Chain[n] : i <= j => Chain[n][j] \in Range(Chain[Chain[n][i]])
  /\ \A n \in Names : RegisteredDomain[n] \in Range(Chain[n]) \cup {None}
  /\ \A n \in Names : \A i, k \in DOMAIN Chain[n] :
       i <= k /\ Chain[n][k] = RegisteredDomain[n] => RegisteredDomain[Chain[n][i]] = RegisteredDomain[n]
  /\ \A n \in Names : n \in Platforms <=> RegisteredDomain[n] \in Platforms
  /\ None \notin Names \cup Range(Precedence) /\ Platforms \subseteq Names
  /\ Precedence \in Seq(Range(Precedence)) /\ Security \subseteq Range(Precedence)
  /\ {"local", "other"} \cap Range(Precedence) = {}
  /\ \A idx \in Publications \cup {BuiltinList} : idx \subseteq Names \X Range(Precedence)
  /\ \A e, f \in BuiltinList : e[1] = f[1] => e = f
  /\ \A e \in BuiltinList : e[1] \notin Platforms
  /\ {MaxChanges, MaxSyncs, MaxQueries} \subseteq Nat

VARIABLES
  published,      \* the database, the same for the control plane and its agents
  override,       \* category_overrides: domain -> category or None
  verdict,        \* classifications: the category enforced, the model's label, asked or not
  held,           \* the Categorizer's overrides and verdicts
  reading,        \* refreshes under way: the overrides that each has read, or None
  ready,          \* the control plane has loaded the database
  blocked,        \* settings: the blocked categories
  agent,          \* the settings in force at the agent
  holder,         \* the agent's Holder
  log,            \* query_log: name, answered locally or not, label
  cursor, rollup, \* rows folded, and the counts by label
  page,           \* the labels a relabelling pass has found: row -> category
  changes, syncs  \* what the bounds count

cgVars == <<published, override, verdict, held, reading, ready, blocked, agent, holder, log, cursor, rollup, page,
            changes, syncs>>

RegisteredDomains   == {RegisteredDomain[n] : n \in Names} \ {None}
Cats      == Range(Precedence)
Labels    == Cats \cup {"local", "other"}
Refreshers == {"ticker", "handler"}
Unscored  == [scored |-> FALSE, enforced |-> None, content |-> None, checked |-> FALSE]
NoneOf    == [d \in RegisteredDomains |-> None]
Off       == [blocked |-> {}, domains |-> {}]
Empty     == [wanted |-> {}, kick |-> FALSE, at |-> "load", cats |-> {}, idx |-> {}, error |-> FALSE]
Changes   == changes < MaxChanges /\ changes' = changes + 1

CgInit ==
  /\ published \in Publications
  /\ override = NoneOf /\ verdict = [d \in RegisteredDomains |-> Unscored]
  /\ held = [override |-> NoneOf, enforced |-> NoneOf, content |-> NoneOf]
  /\ reading = [r \in Refreshers |-> None] /\ ready = FALSE /\ blocked = {} /\ agent = Off /\ holder = Empty
  /\ log = <<>> /\ cursor = 0 /\ rollup = [c \in Labels |-> 0] /\ page = <<>>
  /\ changes = 0 /\ syncs = 0

-----------------------------------------------------------------------------
(* The database and the built-in list.                                     *)

Rank(c) == CHOOSE i \in DOMAIN Precedence : Precedence[i] = c

\* The best category of a name that is listed.
lookupExact(idx, n) == CHOOSE c \in Cats : <<n, c>> \in idx /\ \A o \in Cats : <<n, o>> \in idx => Rank(c) <= Rank(o)

\* The place in its chain of the most specific suffix that is one of D, 0 if none is.
MostSpecific(n, D) == SelectInSeq(Chain[n], LAMBDA s : s \in D)

ListedSuffix(idx, n) == MostSpecific(n, {e[1] : e \in idx})

\* The most specific suffix decides.
Lookup(idx, n) == IF ListedSuffix(idx, n) = 0 THEN None ELSE lookupExact(idx, Chain[n][ListedSuffix(idx, n)])

Builtin(n)   == Lookup(BuiltinList, n)
Database(n)  == IF ready THEN Lookup(published, n) ELSE None
inDB(n)      == Database(n) # None

\* An archive read for some categories keeps only theirs.
parseArchive(want) == {e \in published : e[2] \in want}

-----------------------------------------------------------------------------
(* Categorizer.                                                            *)

Said(c, source) == [cat |-> c, source |-> source]

\* What is held of the registered domain of a name.
Of(f, n) == IF RegisteredDomain[n] = None THEN None ELSE f[RegisteredDomain[n]]

\* The built-in list says nothing certain of a platform's customers.
builtinCovers(n) == n \notin Platforms /\ Builtin(n) # None

\* The sources in their order, after the override and the names of the network.
Known(n) ==
  IF Of(held.enforced, n) # None          THEN Said(Of(held.enforced, n), "classifier")
  ELSE IF inDB(n)                         THEN Said(Database(n), "database")
  ELSE IF builtinCovers(n)                THEN Said(Builtin(n), "builtin")
  ELSE IF Of(held.content, n) # None      THEN Said(Of(held.content, n), "model")
  ELSE IF Builtin(n) # None               THEN Said(Builtin(n), "builtin")
  ELSE                                         Said("other", "none")

Category(n) ==
  IF Of(held.override, n) # None THEN Said(Of(held.override, n), "override")
  ELSE IF n \in Private THEN Said("local", "local")
  ELSE Known(n)

queryCategory(n, local) ==
  IF local /\ Category(n).source \notin {"override", "classifier"} THEN "local" ELSE Category(n).cat

\* The built-in names of the categories, and the more specific ones under them.
BuiltinDomains(want) ==
  {e \in BuiltinList : \/ e[2] \in want
                       \/ \E s \in Range(Chain[e[1]]) \ {e[1]}, c \in want : <<s, c>> \in BuiltinList}

\* What agents are told: all overrides, then the built-in names, then the
\* model's labels, each where the ones before and the database say nothing.
DomainsFor(want) ==
  LET overridden == {<<d, held.override[d]>> : d \in {d \in RegisteredDomains : held.override[d] # None}}
      Set(es, d) == \E e \in es : e[1] = d
      listed     == {e \in BuiltinDomains(want) : ~Set(overridden, e[1]) /\ ~inDB(e[1])}
      model      == {<<d, held.content[d]>> : d \in {d \in RegisteredDomains :
                       held.content[d] \in want /\ ~Set(overridden \cup listed, d) /\ ~inDB(d) /\ ~builtinCovers(d)}}
  IN IF want = {} THEN {} ELSE overridden \cup listed \cup model

\* Refresh reads the overrides, then the verdicts, and keeps both.
Refresh(r) ==
  /\ reading[r] = None /\ reading' = [reading EXCEPT ![r] = override]
  /\ UNCHANGED <<published, override, verdict, held, ready, blocked, agent, holder, log, cursor, rollup, page, changes, syncs>>
Refreshed(r) ==
  /\ reading[r] # None /\ reading' = [reading EXCEPT ![r] = None]
  /\ held' = [override |-> reading[r], enforced |-> [d \in RegisteredDomains |-> verdict[d].enforced],
              content |-> [d \in RegisteredDomains |-> verdict[d].content]]
  /\ UNCHANGED <<published, override, verdict, ready, blocked, agent, holder, log, cursor, rollup, page, changes, syncs>>

-----------------------------------------------------------------------------
(* Operators and the classifier.                                           *)

Stored == UNCHANGED <<published, held, ready, agent, holder, log, cursor, rollup, page, syncs>>

SetCategoryOverride(d, c) == override' = [override EXCEPT ![d] = c]
DeleteCategoryOverride(d) == override' = [override EXCEPT ![d] = None]

\* The handler then refreshes (afterCategoryChange) from what it has stored.
afterCategoryChange == reading' = [reading EXCEPT !["handler"] = override']

putCategoryOverride(d, c) ==
  /\ Changes /\ reading["handler"] = None /\ SetCategoryOverride(d, c) /\ afterCategoryChange
  /\ Stored /\ UNCHANGED <<verdict, blocked>>
deleteCategoryOverride(d) ==
  /\ Changes /\ reading["handler"] = None /\ override[d] # None /\ DeleteCategoryOverride(d) /\ afterCategoryChange
  /\ Stored /\ UNCHANGED <<verdict, blocked>>

\* Neither local nor other.
cleanBlockedCategories == SUBSET Cats

putBlockedCategories(cats) ==
  /\ cats # blocked /\ Changes /\ blocked' = cats /\ Stored /\ UNCHANGED <<override, verdict, reading>>

SetContentCategory(d, c) == verdict' = [verdict EXCEPT ![d] = [@ EXCEPT !.content = c, !.checked = TRUE]]

\* A domain is scored, enforced or not (ClassifierCategories), and not asked about yet.
Scored(d, e) ==
  /\ ~verdict[d].scored /\ Changes
  /\ verdict' = [verdict EXCEPT ![d] = [Unscored EXCEPT !.scored = TRUE, !.enforced = e]]
  /\ Stored /\ UNCHANGED <<override, blocked, reading>>

\* What the model is asked, once the database is known not to list the domain;
\* if it cannot be asked or fails, the domain stays unasked.
categorize(d, answer) == IF inDB(d) THEN SetContentCategory(d, None) ELSE ready /\ SetContentCategory(d, answer)

UncheckedContent == {d \in RegisteredDomains : verdict[d].scored /\ ~verdict[d].checked}

backfillContent(d, answer) ==
  /\ d \in UncheckedContent /\ categorize(d, answer)
  /\ Stored /\ UNCHANGED <<override, blocked, reading, changes>>

-----------------------------------------------------------------------------
(* The log, its counts, and its relabelling.                               *)

Quiet == UNCHANGED <<published, override, verdict, held, reading, ready, blocked, agent, holder, changes, syncs>>

labelEntries(n, local) ==
  /\ Len(log) < MaxQueries
  /\ log' = Append(log, [name |-> n, local |-> local, label |-> queryCategory(n, local)])
  /\ Quiet /\ UNCHANGED <<cursor, rollup, page>>

CountOf(ids, c) == Cardinality({i \in ids : log[i].label = c})

RollupAdvance ==
  /\ cursor < Len(log)
  /\ \E upto \in cursor + 1 .. Len(log) :
       cursor' = upto /\ rollup' = [c \in Labels |-> rollup[c] + CountOf(cursor + 1 .. upto, c)]
  /\ Quiet /\ UNCHANGED <<log, page>>

OtherQueries == {i \in DOMAIN log : log[i].label = "other"}

\* A pass reads the rows that are "other" and labels them, unless the database
\* is not there yet.
Relabel ==
  /\ page = <<>> /\ ready
  /\ LET found == {i \in OtherQueries : queryCategory(log[i].name, log[i].local) # "other"} IN
     found # {} /\ page' = [i \in found |-> queryCategory(log[i].name, log[i].local)]
  /\ Quiet /\ UNCHANGED <<log, cursor, rollup>>

\* Changed: the counts of all its rows are moved, folded or not.
AllRows(ids) == ids

\* The rows whose counts are in the rollup already.
FoldedRows(ids) == {i \in ids : i <= cursor}

\* Then their rows move, and with them what is counted of them.
RelabelContent ==
  /\ page # <<>> /\ page' = <<>>
  /\ LET moved  == (DOMAIN page) \cap OtherQueries
         counts == FoldedRows(moved)
     IN /\ log' = [i \in DOMAIN log |-> IF i \in moved THEN [log[i] EXCEPT !.label = page[i]] ELSE log[i]]
        /\ rollup' = [c \in Labels |->
             IF c = "other" THEN IF rollup[c] > Cardinality(counts) THEN rollup[c] - Cardinality(counts) ELSE 0
             ELSE rollup[c] + Cardinality({i \in counts : page[i] = c})]
  /\ Quiet /\ UNCHANGED cursor

-----------------------------------------------------------------------------
(* The databases' loads and the agent.                                     *)

Ready ==
  /\ ~ready /\ ready' = TRUE
  /\ UNCHANGED <<published, override, verdict, held, reading, blocked, agent, holder, log, cursor, rollup, page, changes, syncs>>

Agent == UNCHANGED <<published, override, verdict, held, reading, ready, blocked, log, cursor, rollup, page>>

SetWanted(cats) == holder' = [holder EXCEPT !.wanted = cats, !.kick = @ \/ cats # holder.wanted]

\* What the control plane replicates now.
replicatedSettings == [blocked |-> blocked, domains |-> DomainsFor(blocked)]

ApplySettings ==
  /\ syncs < MaxSyncs /\ syncs' = syncs + 1
  /\ agent' = replicatedSettings /\ agent' # agent
  /\ SetWanted(blocked)
  /\ Agent /\ UNCHANGED changes

\* Holder.load, its start: with nothing to block there is nothing to load.
load ==
  /\ holder.at = "load"
  /\ holder' = IF holder.wanted = {} THEN [holder EXCEPT !.at = "wait", !.idx = {}, !.cats = {}, !.error = FALSE]
               ELSE [holder EXCEPT !.at = "loading", !.cats = holder.wanted]
  /\ Agent /\ UNCHANGED <<agent, changes, syncs>>

\* And its end, after the archives have been fetched and read: what was loaded
\* is of use only if the categories are still the wanted ones.
Loaded ==
  /\ holder.at = "loading"
  /\ holder' = IF holder.cats = holder.wanted THEN [holder EXCEPT !.at = "wait", !.idx = parseArchive(holder.cats), !.error = FALSE]
               ELSE [holder EXCEPT !.at = "load"]
  /\ Agent /\ UNCHANGED <<agent, changes, syncs>>
LoadFails ==
  /\ holder.at = "loading" /\ Changes /\ holder' = [holder EXCEPT !.at = "wait", !.error = TRUE]
  /\ Agent /\ UNCHANGED <<agent, syncs>>

\* Holder.Run waits for the time of the next load, or for a kick.
Run ==
  /\ holder.at = "wait" /\ (holder.kick \/ holder.error)
  /\ \E kick \in {holder.kick, FALSE} : holder' = [holder EXCEPT !.at = "load", !.kick = kick]
  /\ Agent /\ UNCHANGED <<agent, changes, syncs>>

\* A restarted agent starts from its settings on disk, with nothing loaded.
Restart ==
  /\ Changes /\ holder' = [Empty EXCEPT !.wanted = agent.blocked, !.kick = agent.blocked # {}]
  /\ Agent /\ UNCHANGED <<agent, syncs>>

CgNext ==
  \/ \E r \in Refreshers : Refreshed(r) \/ (r = "ticker" /\ Refresh(r))
  \/ \E d \in RegisteredDomains :
       \/ deleteCategoryOverride(d)
       \/ \E c \in Cats : putCategoryOverride(d, c)
       \/ \E c \in Security \cup {None} : Scored(d, c)
       \/ \E c \in (Cats \ Security) \cup {None} : backfillContent(d, c)
  \/ \E cats \in cleanBlockedCategories : putBlockedCategories(cats)
  \/ \E n \in Names, local \in BOOLEAN : labelEntries(n, local)
  \/ RollupAdvance \/ Relabel \/ RelabelContent \/ Ready
  \/ ApplySettings \/ load \/ Loaded \/ LoadFails \/ Run \/ Restart

CgSpec == CgInit /\ [][CgNext]_cgVars

-----------------------------------------------------------------------------
(* Properties.                                                             *)

CgTypeOK ==
  /\ held.override \in [RegisteredDomains -> Cats \cup {None}] /\ blocked \subseteq Cats
  /\ agent.domains \subseteq Names \X Cats
  /\ cursor \in 0 .. Len(log) /\ rollup \in [Labels -> Nat] /\ \A i \in DOMAIN log : log[i].label \in Labels

\* The dashboard's counts are those of the rows they are folded from, label by
\* label, though rows arrive, are folded and change their label at any time.
CountsFollowRows == \A c \in Labels : rollup[c] = CountOf(1 .. cursor, c)

\* blockedCategory, at the agent.
Correction(n) == MostSpecific(n, {e[1] : e \in agent.domains})
blockedCategory(n) ==
  IF agent.blocked = {} THEN FALSE
  ELSE IF Correction(n) # 0
       THEN \E e \in agent.domains : e[1] = Chain[n][Correction(n)] /\ e[2] \in agent.blocked
  ELSE Lookup(holder.idx, n) \in agent.blocked

\* The agent has what the control plane would send it now.
Current == agent = replicatedSettings /\ agent # Off
\* And waits for its next load, the last having gone well.
Settled == holder.at = "wait" /\ ~holder.kick /\ ~holder.error

\* An agent goes by the most specific correction it has, whatever it is for.  A
\* name that is registered under a platform's own domain comes under an override
\* of the latter,
OverriddenAbove(n) == \E d \in Range(Chain[n]) \ {RegisteredDomain[n]} : d \in RegisteredDomains /\ held.override[d] # None
\* and one that the database lists, under a built-in name that is not blocked and
\* was sent to stand out from one that is.
ListedBelow(n) == inDB(n) /\ \E e \in BuiltinDomains(blocked) : e[1] \in Range(Chain[n]) /\ e[2] \notin blocked

\* Once an agent is up to date and its database has settled, no name gets
\* through that the control plane labels with a blocked category: neither one
\* of the database nor one of the built-in list or the model, but for the names
\* above; and an override into a blocked category blocks its domain.
NothingSlipsThrough ==
  Current /\ Settled => \A n \in Names :
    /\ Category(n).source \in {"database", "builtin", "model"} /\ Category(n).cat \in blocked
         => blockedCategory(n) \/ OverriddenAbove(n) \/ ListedBelow(n)
    /\ Category(n).source = "override" /\ n = RegisteredDomain[n] => (blockedCategory(n) <=> Category(n).cat \in blocked)

\* A settled database is that of the categories wanted last, whatever was
\* asked for while it was loaded.
LoadsWhatIsWanted == Settled => holder.idx = parseArchive(holder.wanted)

\* What must hold of labels, counts and the categories blocked.
CategoriesInv == CgTypeOK /\ CountsFollowRows /\ NothingSlipsThrough /\ LoadsWhatIsWanted
=============================================================================
