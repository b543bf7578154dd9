------------------------------- MODULE Privacy -------------------------------
(***************************************************************************)
(* The privacy of the query log: what is kept of the names and the clients *)
(* of queries, as they arrive and once their window of detail has passed.  *)
(*                                                                         *)
(* A handler reduces what arrives by the policy it reads, then stores it.  *)
(* The scrubber walks what is stored, day by day, up to the cutoff of its  *)
(* policy, and remembers how far it came and how strict it was.  Clients   *)
(* become pseudonyms under a key per day; a name may be kept if enough     *)
(* devices of that day or the day before asked for it, which is counted    *)
(* by their pseudonyms.  The rollup per client is folded from the log.     *)
(*                                                                         *)
(* Time is in ticks of an hour; entries arrive one at a time.  The names   *)
(* are those under one registered domain.  Keys are stored as they are     *)
(* made; a read of the store for the counts does not fail (it would hide   *)
(* more).  A handler stores an entry in the tick it reduces it.            *)
(***************************************************************************)
EXTENDS Naturals, FiniteSets, FiniteSetsExt

CONSTANTS
  Clients, Names,
  Registered,   \* the registered domain of the names
  Hidden,
  NoClient,     \* client = ""
  Policies,     \* of level, window (DetailHours) and k (DomainK)
  DayLen,       \* ticks of a day
  Overlap,      \* scrubOverlap, in ticks
  MaxNow,       \* bound: ticks
  MaxRows,      \* bound: entries that arrive
  MaxPolicies   \* bound: changes of the policy, failures, restarts

LevelShowAll     == 0
LevelHideDomains == 1
LevelHideClients == 2
LevelAnonymous   == 3
MaxDomainK       == 100

ASSUME PrivacyAssumption ==
  /\ Policies \subseteq [level : 0 .. 3, window : Nat, k : {0} \cup 2 .. MaxDomainK]
  /\ DayLen \in Nat \ {0} /\ {Overlap, MaxNow, MaxRows, MaxPolicies} \subseteq Nat
  /\ Registered \notin Names /\ Hidden \notin Names \cup {Registered} /\ NoClient \notin Clients
  /\ \A c \in Clients \cup {NoClient} : c \notin [day : Nat, key : Nat, of : Clients]   \* no address is a pseudonym

VARIABLES
  now, policy,
  log,           \* query_log: rows with their number, and whether they slipped in or were left behind
  entry,         \* what a handler has reduced and is about to store, or Nothing
  arrived, cursor, rollup,   \* numbers given, rows folded, client_rollup
  keys, made,    \* the keys of the days, 0 for none, and how many were made
  renewed,       \* days whose key was made again
  tracker,       \* the counts per day of the names and the registered domain, and the threshold they are for
  marks,         \* what the last scrub has stored: how far, which level, how strict
  scrub,         \* the scrub under way
  torn,          \* a scrub ended after it stored how far it came, and before how strict it was
  asked,         \* history: which name which client asked for, on which day
  changes

prVars == <<now, policy, log, entry, asked, arrived, cursor, rollup, keys, made, renewed, tracker, marks, scrub, torn, changes>>

Day(ts)     == ts \div DayLen
Days        == 0 .. Day(MaxNow)
Nothing     == [ts |-> 0, id |-> 0, name |-> Hidden, client |-> NoClient]
Uncounted   == [at |-> FALSE, names |-> {}, regs |-> {}]
NoCounts(k) == [k |-> k, days |-> [d \in Days |-> Uncounted]]
Asleep      == [at |-> "no", policy |-> [level |-> 0, window |-> 0, k |-> 0], cutoff |-> 0, from |-> 0, lo |-> 0]
Changes     == changes < MaxPolicies /\ changes' = changes + 1

IsPseudonym(c) == c \notin Clients \cup {NoClient}

PrInit ==
  /\ now = 0 /\ policy \in Policies /\ log = {} /\ entry = Nothing /\ asked = {} /\ arrived = 0 /\ cursor = 0 /\ rollup = {}
  /\ keys = [d \in Days |-> 0] /\ made = 0 /\ renewed = {} /\ tracker = NoCounts(0)
  /\ marks = [ts |-> 0, level |-> 0, strict |-> 0] /\ scrub = Asleep /\ torn = FALSE /\ changes = 0

-----------------------------------------------------------------------------
(* The policy.                                                             *)

rareOnly(p) == p.k > 0 /\ p.level \in {LevelHideDomains, LevelHideClients}

domainStrictness(p) == IF p.level = LevelShowAll THEN 0 ELSE IF rareOnly(p) THEN p.k ELSE MaxDomainK + 1

Cutoff(p) == IF now < p.window THEN 0 ELSE now - p.window

-----------------------------------------------------------------------------
(* The keyring and the domain tracker: m holds both.                       *)

Mem(ks, n, re, tr) == [keys |-> ks, made |-> n, renewed |-> re, tracker |-> tr]
Memory == Mem(keys, made, renewed, tracker)
Keeps(m) == keys' = m.keys /\ made' = m.made /\ renewed' = m.renewed /\ tracker' = m.tracker

\* The day's key is made on first use, and again once it was pruned.
key(m, d) == IF m.keys[d] # 0 THEN m ELSE [m EXCEPT !.keys[d] = m.made + 1, !.made = @ + 1]

\* The keys of some days.
keysFor(m, D) ==
  LET new == {d \in D : m.keys[d] = 0}
  IN  [m EXCEPT !.keys = [d \in Days |-> IF d \in new THEN m.made + Cardinality({x \in new : x <= d}) ELSE @[d]],
                !.made = @ + Cardinality(new)]

Pseudonym(m, c, d) == [day |-> d, key |-> key(m, d).keys[d], of |-> c]

Device(m, c, d) == IF IsPseudonym(c) THEN c ELSE Pseudonym(m, c, d)

\* Changed: a query is a device of its own, whoever asked.
EachQuery(day, name, dev) ==
  [day EXCEPT !.names = IF name \in Names THEN @ \cup {<<name, [dev EXCEPT !.key = Cardinality(day.names)]>>} ELSE @]

count(day, name, dev) ==
  [day EXCEPT !.names = @ \cup {<<name, dev>>}, !.regs = @ \cup {dev}]

counts(m, d, c) == [m EXCEPT !.tracker.days[d] = c]

QueryLogDayPairs(d) == {r \in log : Day(r.ts) = d /\ r.name # Hidden /\ r.client # NoClient}

\* A day is counted from what the store has of it, on first use since a start.
day(m, d) ==
  IF m.tracker.days[d].at THEN m
  ELSE LET pairs == QueryLogDayPairs(d)
           with  == IF \E r \in pairs : ~IsPseudonym(r.client) THEN key(m, d) ELSE m
       IN  counts(with, d, [at    |-> TRUE,
                            names |-> {<<r.name, Device(with, r.client, d)>> : r \in pairs},
                            regs  |-> {Device(with, r.client, d) : r \in pairs}])

setK(m, k) == IF m.tracker.k = k THEN m ELSE [m EXCEPT !.tracker = NoCounts(k)]

observe(m, e, k) ==
  IF e.name = Hidden \/ e.client = NoClient THEN m
  ELSE LET d    == Day(e.ts)
           with == IF IsPseudonym(e.client) THEN m ELSE key(m, d)
           here == day(setK(with, k), d)
       IN  counts(here, d, count(here.tracker.days[d], e.name, Device(here, e.client, d)))

\* The day before the first has nobody.
Before(m, d) == IF d = 0 THEN Uncounted ELSE m.tracker.days[d - 1]

\* The counts of the day and the day before.
Counted(m, d, k) == LET today == day(setK(m, k), d) IN IF d = 0 THEN today ELSE day(today, d - 1)

common(m, name, d) ==
  LET shared(c) == Cardinality({e \in c.names : e[1] = name}) >= m.tracker.k
  IN  shared(m.tracker.days[d]) \/ shared(Before(m, d))
commonDomain(m, d) ==
  LET shared(c) == Cardinality(c.regs) >= m.tracker.k IN shared(m.tracker.days[d]) \/ shared(Before(m, d))

\* What is stored for a name, once the two days are counted.
keep(m, name, d) ==
  IF name = Hidden \/ common(m, name, d) THEN name ELSE IF commonDomain(m, d) THEN Registered ELSE Hidden

-----------------------------------------------------------------------------
(* What arrives.                                                           *)

\* apply: the memory and the entry after it.
apply(m, p, e) ==
  LET named   == IF rareOnly(p) THEN Counted(m, Day(e.ts), p.k) ELSE m
      renames == p.level = LevelHideClients /\ e.client # NoClient /\ ~IsPseudonym(e.client)
      all     == IF renames THEN key(named, Day(e.ts)) ELSE named
  IN  [mem |-> all,
       entry |-> [e EXCEPT
         !.name = IF rareOnly(p) THEN keep(named, e.name, Day(e.ts))
                  ELSE IF p.level >= LevelHideDomains THEN Hidden ELSE @,
         !.client = IF p.level = LevelAnonymous THEN NoClient
                    ELSE IF renames THEN Pseudonym(all, e.client, Day(e.ts)) ELSE @]]

\* An entry that met a laxer policy than the one that was scrubbed for, is, or
\* will be: of a lower level, or with a window that has the entry's time in it.
SlippedIn(e) ==
  \/ e.met.level < Max({marks.level, scrub.policy.level, policy.level})
  \/ domainStrictness(e.met) < Max({marks.strict, domainStrictness(scrub.policy), domainStrictness(policy)})
  \/ e.ts >= Cutoff(e.met) /\ e.met.window > 0 /\ e.ts < Max({marks.ts, scrub.cutoff, Cutoff(policy)})

Rest == UNCHANGED <<now, policy, cursor, rollup, marks, scrub, torn, changes>>

\* Anonymizer.Ingest, in clusterLog: everything is counted, what is past the
\* window is reduced.
Ingest(c, n, ts) ==
  /\ entry = Nothing /\ arrived < MaxRows /\ arrived' = arrived + 1
  /\ asked' = asked \cup {<<n, c, Day(ts)>>}
  /\ LET e    == [ts |-> ts, id |-> arrived + 1, name |-> n, client |-> c, met |-> policy]
         seen == IF rareOnly(policy) THEN observe(Memory, e, policy.k) ELSE Memory
         out  == apply(seen, policy, e)
     IN  IF policy.level # LevelShowAll /\ (ts < Cutoff(policy) \/ policy.window = 0)
         THEN entry' = out.entry /\ Keeps(out.mem) ELSE entry' = e /\ Keeps(seen)
  /\ Rest /\ UNCHANGED log

\* InsertNodeQueryLog, or it fails.
InsertNodeQueryLog ==
  /\ entry # Nothing /\ entry' = Nothing
  /\ \/ log' = log \cup {[ts |-> entry.ts, id |-> entry.id, name |-> entry.name, client |-> entry.client,
                              slipped |-> SlippedIn(entry), left |-> FALSE]}
        /\ UNCHANGED changes
     \/ Changes /\ UNCHANGED log
  /\ UNCHANGED <<now, policy, asked, arrived, cursor, rollup, keys, made, renewed, tracker, marks, scrub, torn>>

RollupAdvance ==
  /\ cursor < arrived
  /\ \E upto \in {r.id : r \in log} :
       /\ cursor < upto /\ cursor' = upto
       /\ rollup' = rollup \cup {[ts |-> r.ts, client |-> r.client, slipped |-> r.slipped, left |-> r.left] :
                             r \in {s \in log : cursor < s.id /\ s.id <= upto /\ s.client # NoClient}}
  /\ UNCHANGED <<now, policy, log, entry, asked, arrived, keys, made, renewed, tracker, marks, scrub, torn, changes>>

-----------------------------------------------------------------------------
(* The scrubber.                                                           *)

Stored == UNCHANGED <<now, policy, entry, asked, arrived, cursor, torn, changes>>
Ends   == scrub' = Asleep /\ torn' = (torn \/ scrub.at = "mark")
Kept   == UNCHANGED <<keys, made, renewed, tracker>>

\* What must be scrubbed again: all of it if the policy is stricter than what
\* was applied, else from where the last scrub ended.
From(p) ==
  IF p.level > marks.level \/ domainStrictness(p) > marks.strict THEN 0
  ELSE IF marks.ts < Overlap THEN 0 ELSE marks.ts - Overlap

\* The time of the log's oldest row, 0 if there is none.
OldestQueryLogTS(ts) == IF log = {} THEN ts = 0 ELSE (\E r \in log : ts = r.ts) /\ \A r \in log : ts <= r.ts

Scrub ==
  /\ scrub.at = "no"
  /\ IF policy.level = LevelShowAll
     THEN /\ marks' = [marks EXCEPT !.level = 0, !.strict = 0] /\ marks' # marks /\ UNCHANGED scrub
     ELSE \E first \in 0 .. now :
            /\ OldestQueryLogTS(first)
            /\ LET from == Max({From(policy), first})
               IN  scrub' = [at |-> IF log # {} /\ from < Cutoff(policy) THEN "names" ELSE "rollup",
                             policy |-> policy, cutoff |-> Cutoff(policy), from |-> from, lo |-> from]
            /\ UNCHANGED marks
  /\ Stored /\ Kept /\ UNCHANGED <<log, rollup>>

\* The end of the day that is being scrubbed.
hi == Min({(Day(scrub.lo) + 1) * DayLen, scrub.cutoff})
InRange(r) == scrub.lo <= r.ts /\ r.ts < hi
NextDay == [scrub EXCEPT !.lo = hi, !.at = IF hi < scrub.cutoff THEN "names" ELSE "rollup"]

Named == {r \in log : InRange(r) /\ r.name # Hidden}

HideQueryLogNames == log' = (log \ Named) \cup {[r EXCEPT !.name = Hidden] : r \in Named} /\ Kept

\* Name by name.
ReduceQueryLogNames(k) ==
  LET m == IF Named # {} THEN Counted(Memory, Day(scrub.lo), k) ELSE Memory
  IN  log' = (log \ Named) \cup {[r EXCEPT !.name = keep(m, @, Day(r.ts))] : r \in Named} /\ Keeps(m)

ScrubNames ==
  /\ scrub.at = "names"
  /\ IF rareOnly(scrub.policy) THEN ReduceQueryLogNames(scrub.policy.k) ELSE HideQueryLogNames
  /\ scrub' = IF scrub.policy.level = LevelHideClients THEN [scrub EXCEPT !.at = "clients"] ELSE NextDay
  /\ Stored /\ UNCHANGED <<rollup, marks>>

PseudonymizeQueryLog ==
  /\ scrub.at = "clients" /\ scrub' = NextDay
  /\ LET rows == {r \in log : InRange(r) /\ r.client \in Clients}
         m    == IF rows # {} THEN key(Memory, Day(scrub.lo)) ELSE Memory
     IN  log' = (log \ rows) \cup {[r EXCEPT !.client = Pseudonym(m, r.client, Day(r.ts))] : r \in rows} /\ Keeps(m)
  /\ Stored /\ UNCHANGED <<rollup, marks>>

\* The rollup's hours from the first to that of the cutoff, which is included.
RekeyClientRollup ==
  /\ scrub.at = "rollup" /\ scrub.policy.level = LevelHideClients /\ scrub' = [scrub EXCEPT !.at = "prune"]
  /\ LET todo == {e \in rollup : scrub.from <= e.ts /\ e.ts <= scrub.cutoff /\ ~IsPseudonym(e.client)}
         m    == keysFor(Memory, {Day(e.ts) : e \in todo})
     IN  rollup' = (rollup \ todo) \cup {[e EXCEPT !.client = Pseudonym(m, @, Day(e.ts))] : e \in todo} /\ Keeps(m)
  /\ Stored /\ UNCHANGED <<log, marks>>

\* Anonymous: what the rollups have counted goes; the rest is left, with its
\* clients, to a later scrub of the same level, as is the rollup until it went.
DeleteRolledUpQueryLog ==
  /\ scrub.at = "rollup" /\ scrub.policy.level = LevelAnonymous /\ scrub' = [scrub EXCEPT !.at = "delete"]
  /\ log' = {[r EXCEPT !.left = @ \/ r.ts < scrub.cutoff] : r \in {s \in log : ~(s.ts < scrub.cutoff /\ s.id <= cursor)}}
  /\ rollup' = {[e EXCEPT !.left = @ \/ e.ts <= scrub.cutoff] : e \in rollup}
  /\ Stored /\ Kept /\ UNCHANGED marks
DeleteClientRollup ==
  /\ scrub.at = "delete" /\ scrub' = [scrub EXCEPT !.at = "prune"]
  /\ rollup' = {e \in rollup : e.ts > scrub.cutoff}
  /\ Stored /\ Kept /\ UNCHANGED <<log, marks>>
OnlyNames ==
  /\ scrub.at = "rollup" /\ scrub.policy.level = LevelHideDomains /\ scrub' = [scrub EXCEPT !.at = "prune"]
  /\ Stored /\ Kept /\ UNCHANGED <<log, rollup, marks>>

\* domainTracker.prune: the day before the cutoff's is still used.
prune(c) == [tracker EXCEPT !.days = [d \in Days |-> IF d + 1 < Day(c) THEN Uncounted ELSE @[d]]]

\* Keyring.Prune, with the counts, and how far the scrub came is stored.
Prune ==
  /\ scrub.at = "prune" /\ scrub' = [scrub EXCEPT !.at = "mark"]
  /\ keys' = [d \in Days |-> IF d < Day(scrub.cutoff) THEN 0 ELSE keys[d]]
  /\ renewed' = renewed \cup {d \in Days : d < Day(scrub.cutoff) /\ keys[d] # 0}
  /\ tracker' = prune(scrub.cutoff)
  /\ marks' = [marks EXCEPT !.ts = scrub.cutoff]
  /\ Stored /\ UNCHANGED <<log, rollup, made>>

Mark ==
  /\ scrub.at = "mark" /\ scrub' = Asleep
  /\ marks' = [marks EXCEPT !.strict = domainStrictness(scrub.policy), !.level = scrub.policy.level]
  /\ Stored /\ Kept /\ UNCHANGED <<log, rollup>>

\* A statement fails: the next scrub begins anew.
ScrubFails ==
  /\ scrub.at # "no" /\ Changes /\ Ends
  /\ Kept /\ UNCHANGED <<now, policy, entry, asked, arrived, cursor, log, rollup, marks>>

-----------------------------------------------------------------------------
(* Time, the operator, and restarts.                                       *)

Tick ==
  /\ now < MaxNow /\ entry = Nothing /\ now' = now + 1
  /\ UNCHANGED <<policy, log, entry, asked, arrived, cursor, rollup, keys, made, renewed, tracker, marks, scrub, torn, changes>>

SetPolicy(p) ==
  /\ p # policy /\ Changes /\ policy' = p
  /\ UNCHANGED <<now, log, entry, asked, arrived, cursor, rollup, keys, made, renewed, tracker, marks, scrub, torn>>

Restart ==
  /\ Changes /\ Ends /\ entry' = Nothing /\ tracker' = NoCounts(0)
  /\ UNCHANGED <<now, policy, log, asked, arrived, cursor, rollup, keys, made, renewed, marks>>

PrNext ==
  \/ \E c \in Clients, n \in Names, ts \in 0 .. now : Ingest(c, n, ts)
  \/ InsertNodeQueryLog \/ RollupAdvance
  \/ Scrub \/ ScrubNames \/ PseudonymizeQueryLog \/ RekeyClientRollup \/ DeleteRolledUpQueryLog
  \/ DeleteClientRollup \/ OnlyNames \/ Prune \/ Mark \/ ScrubFails
  \/ Tick \/ Restart \/ \E p \in Policies : SetPolicy(p)

PrSpec == PrInit /\ [][PrNext]_prVars

-----------------------------------------------------------------------------
(* Properties.                                                             *)

PrTypeOK ==
  /\ now \in 0 .. MaxNow /\ policy \in Policies /\ cursor \in 0 .. arrived /\ arrived \in 0 .. MaxRows
  /\ \A r \in log : r.ts \in 0 .. now /\ r.id \in 1 .. arrived /\ r.name \in Names \cup {Registered, Hidden}
  /\ marks.ts <= now /\ scrub.cutoff <= now /\ \A d \in Days : keys[d] \in 0 .. made

\* A scrub reaches everything: a row from before the last cutoff is reduced as
\* far as the last scrub was strict, whenever it arrived and under whichever
\* policy, unless it met a laxer one than those it comes under.  A row that an
\* anonymous scrub left keeps its client if the level is then lowered.
ScrubReachesAll ==
  \A r \in log : r.ts < marks.ts /\ ~r.slipped =>
    /\ marks.strict > MaxDomainK => r.name = Hidden
    /\ marks.level = LevelHideClients => r.client \notin Clients \/ r.left

\* So does what was folded from it.
RollupReached ==
  marks.level = LevelHideClients => \A e \in rollup : e.ts < marks.ts /\ ~e.slipped => IsPseudonym(e.client) \/ e.left

\* A device keeps its pseudonym for a day, in the log as in the counts.
StableForTheDay ==
  \A r, s \in log : IsPseudonym(r.client) /\ IsPseudonym(s.client) /\ r.client # s.client
     => r.client.of # s.client.of \/ r.client.day # s.client.day \/ r.client.day \in renewed

\* A name is left to read only if as many devices asked for it as the last scrub
\* wanted, that day or the day before.
Askers(n, d) == {a[2] : a \in {b \in asked : b[1] = n /\ b[3] = d}}
KeptAreShared ==
  marks.strict \in 2 .. MaxDomainK => \A r \in log : r.ts < marks.ts /\ r.name \in Names /\ ~r.slipped
     => \E d \in {Day(r.ts), Day(r.ts) - 1} : Cardinality(Askers(r.name, d)) >= marks.strict

BetweenScrubs == scrub.at # "mark" /\ ~torn

\* The privacy of what is stored.  A day whose key is made again counts its
\* devices again.
PrivacyInv ==
  /\ PrTypeOK
  /\ StableForTheDay
  /\ BetweenScrubs => ScrubReachesAll /\ RollupReached /\ (renewed = {} => KeptAreShared)
=============================================================================
