------------------------------ MODULE RuleLists ------------------------------
(* Rules, rule lists and the policy built from them: internal/lists,         *)
(* internal/store/lists.go and the rules of store.go, their handlers in      *)
(* internal/api, and the reload of the control plane (boot.BuildPolicy).     *)
(*                                                                           *)
(* A rule is its (action, domain), which a UNIQUE index covers; a row says   *)
(* which list it belongs to.  Handlers and the refresher are cut where they  *)
(* use the database or the network, so a list can be edited or removed while *)
(* it is fetched.  Contents of a list are any non-empty set of rules, chosen *)
(* where they are first used; what the parser makes of a text is not         *)
(* modelled.  A list becomes due once.                                       *)
EXTENDS Integers, FiniteSets

CONSTANTS
  Rules,      \* pairs of action and domain
  Editors,    \* HTTP requests, each sent once (or, instead of one, a restart)
  Ticker,     \* the refresher's goroutine
  MaxLists    \* list ids are 1..MaxLists, and not reused

ASSUME RuleListsConstants == MaxLists \in Nat \ {0} /\ Ticker \notin Editors

Workers == Editors \cup {Ticker}
ListIds == 1..MaxLists
ByHand  == 0      \* list_id of a rule no list owns
NoRow   == -1
NoList  == [source |-> "none", enabled |-> FALSE, auto |-> FALSE, due |-> FALSE]

VARIABLES
  owner,    \* the table rules: the list of each row, NoRow where there is none
  lists,    \* the table lists; due: last_fetch + interval_sec has passed
  lastList, \* the highest list id given
  policy,   \* the rules the resolver enforces
  jobs,     \* what every worker does: its list, the lists still to fetch, the rules it read
  applied,  \* history: the contents each list was last given
  orphaned, \* history: lists removed while a worker was about to fill them
  excuse    \* history: why the policy may lag: overlapping reloads, an import that failed

rlVars == <<owner, lists, lastList, policy, jobs, applied, orphaned, excuse>>

Free == [at |-> "free", id |-> 0, keys |-> {}, todo |-> {}, changed |-> FALSE]

\* LEFT JOIN lists: a rule counts by hand or through an enabled list.
ActiveRules == {k \in Rules : owner[k] = ByHand \/ (owner[k] \in ListIds /\ lists[owner[k]].enabled)}

\* The control plane starts with one rule by hand and one URL list, and loads
\* its policy.
RlInit ==
  /\ \E k \in Rules : owner = [x \in Rules |-> IF x = k THEN ByHand ELSE NoRow]
  /\ lists = [i \in ListIds |-> IF i = 1 THEN [source |-> "url", enabled |-> TRUE, auto |-> TRUE, due |-> TRUE] ELSE NoList]
  /\ lastList = 1
  /\ policy = ActiveRules
  /\ jobs = [w \in Workers |-> Free]
  /\ applied = [i \in ListIds |-> {}]
  /\ orphaned = {} /\ excuse = "none"

At_(w, s)   == jobs[w].at = s
Set(w, r)   == jobs' = [jobs EXCEPT ![w] = r]
Goto(w, s)  == jobs' = [jobs EXCEPT ![w].at = s]
Listed(i)   == lists[i] # NoList
EndJob(w)   == Set(w, IF w = Ticker THEN Free ELSE [Free EXCEPT !.at = "done"])
Arrives(w)  == w \in Editors /\ At_(w, "free")

\* Rows keep their list, new ones have none.
AddRulesBulk(K) == owner' = [k \in Rules |-> IF k \in K /\ owner[k] = NoRow THEN ByHand ELSE owner[k]]

addRule(w) ==
  /\ Arrives(w)
  /\ \E k \in Rules : AddRulesBulk({k})
  /\ Goto(w, "build")
  /\ UNCHANGED <<lists, lastList, policy, applied, orphaned, excuse>>

importRules(w) ==
  /\ Arrives(w)
  /\ \E K \in (SUBSET Rules) \ {{}} : AddRulesBulk(K)
  /\ Goto(w, "build")
  /\ UNCHANGED <<lists, lastList, policy, applied, orphaned, excuse>>

deleteRule(w) ==
  /\ Arrives(w)
  /\ \E k \in Rules : owner' = [owner EXCEPT ![k] = NoRow]
  /\ Goto(w, "build")
  /\ UNCHANGED <<lists, lastList, policy, applied, orphaned, excuse>>

\* importConfig: replace clears the table first; rules, rewrites, forwarders and
\* settings follow in transactions of their own.
importConfig(w) ==
  /\ Arrives(w)
  /\ \E replace \in BOOLEAN : owner' = IF replace THEN [k \in Rules |-> NoRow] ELSE owner
  /\ Goto(w, "bulk")
  /\ UNCHANGED <<lists, lastList, policy, applied, orphaned, excuse>>

\* A later part that fails ends the import without a reload.
ImportBulk(w) ==
  /\ At_(w, "bulk")
  /\ \E K \in SUBSET Rules : AddRulesBulk(K)
  /\ \/ Goto(w, "build") /\ UNCHANGED excuse
     \/ EndJob(w) /\ excuse' = "failed"
  /\ UNCHANGED <<lists, lastList, policy, applied, orphaned>>

CreateList(w, source, auto, then) ==
  /\ lastList < MaxLists
  /\ lastList' = lastList + 1
  /\ lists' = [lists EXCEPT ![lastList + 1] = [source |-> source, enabled |-> TRUE, auto |-> auto, due |-> auto]]
  /\ Set(w, [Free EXCEPT !.at = then, !.id = lastList + 1])
  /\ UNCHANGED <<owner, policy, applied, orphaned, excuse>>

importList(w) == Arrives(w) /\ CreateList(w, "paste", FALSE, "replace")
addURLList(w) == Arrives(w) /\ \E auto \in BOOLEAN : CreateList(w, "url", auto, "get")

\* refreshList wants a URL list.
refreshList(w) ==
  /\ Arrives(w)
  /\ \E i \in ListIds : /\ lists[i].source = "url"
                        /\ Set(w, [Free EXCEPT !.at = "fetch", !.id = i])
  /\ UNCHANGED <<owner, lists, lastList, policy, applied, orphaned, excuse>>

\* The list addURLList has made may be gone already.
GetList(w) ==
  /\ At_(w, "get")
  /\ Goto(w, IF Listed(jobs[w].id) THEN "fetch" ELSE "build")
  /\ UNCHANGED <<owner, lists, lastList, policy, applied, orphaned, excuse>>

updateList(w) ==
  /\ Arrives(w)
  /\ \E i \in ListIds, s \in {"enable", "interval"} : Listed(i) /\ Set(w, [Free EXCEPT !.at = s, !.id = i])
  /\ UNCHANGED <<owner, lists, lastList, policy, applied, orphaned, excuse>>

\* An update of a list that is gone changes nothing.
SetListEnabled(w) ==
  /\ At_(w, "enable")
  /\ \E e \in BOOLEAN, s \in {"interval", "build"} :
       /\ lists' = IF Listed(jobs[w].id) THEN [lists EXCEPT ![jobs[w].id].enabled = e] ELSE lists
       /\ Goto(w, s)
  /\ UNCHANGED <<owner, lastList, policy, applied, orphaned, excuse>>

UpdateListInterval(w) ==
  /\ At_(w, "interval")
  /\ \E auto \in BOOLEAN :
       lists' = IF Listed(jobs[w].id) THEN [lists EXCEPT ![jobs[w].id].auto = auto, ![jobs[w].id].due = @ /\ auto] ELSE lists
  /\ Goto(w, "build")
  /\ UNCHANGED <<owner, lastList, policy, applied, orphaned, excuse>>

\* DeleteList: one transaction removes its rules and the list.
deleteList(w) ==
  /\ Arrives(w)
  /\ \E i \in ListIds :
       /\ owner' = [k \in Rules |-> IF owner[k] = i THEN NoRow ELSE owner[k]]
       /\ lists' = [lists EXCEPT ![i] = NoList]
       /\ applied' = [applied EXCEPT ![i] = {}]
       /\ orphaned' = IF \/ \E q \in Workers : jobs[q].id = i /\ jobs[q].at \in {"fetch", "replace"}
                         \/ i \in jobs[Ticker].todo
                      THEN orphaned \cup {i} ELSE orphaned
  /\ Goto(w, "build")
  /\ UNCHANGED <<lastList, policy, excuse>>

DueURLLists == {i \in ListIds : lists[i].source = "url" /\ lists[i].enabled /\ lists[i].auto /\ lists[i].due}

\* The refresher's tick: all due lists as they are now, one after the other.
tick ==
  /\ At_(Ticker, "free") /\ DueURLLists # {}
  /\ Set(Ticker, [Free EXCEPT !.at = "next", !.todo = DueURLLists])
  /\ UNCHANGED <<owner, lists, lastList, policy, applied, orphaned, excuse>>

NextDue ==
  /\ At_(Ticker, "next")
  /\ \/ \E i \in jobs[Ticker].todo :
          jobs' = [jobs EXCEPT ![Ticker].at = "fetch", ![Ticker].id = i, ![Ticker].todo = @ \ {i}]
     \/ /\ jobs[Ticker].todo = {}
        /\ IF jobs[Ticker].changed THEN Goto(Ticker, "build") ELSE EndJob(Ticker)
  /\ UNCHANGED <<owner, lists, lastList, policy, applied, orphaned, excuse>>

\* fetchAndApply: up to 30 s on the network; an error or an empty text changes
\* nothing.
Fetch(w) ==
  /\ At_(w, "fetch")
  /\ Goto(w, "replace") \/ Goto(w, "mark")
  /\ UNCHANGED <<owner, lists, lastList, policy, applied, orphaned, excuse>>

\* Changed: the rules the list no longer has stay.
ReplaceMerges(w) ==
  /\ At_(w, "replace")
  /\ LET i == jobs[w].id IN
       \E K \in (SUBSET Rules) \ {{}} :
         /\ owner' = [k \in Rules |-> IF k \in K THEN i ELSE owner[k]]
         /\ applied' = [applied EXCEPT ![i] = K]
  /\ jobs' = [jobs EXCEPT ![w].at = "mark", ![w].changed = TRUE]
  /\ UNCHANGED <<lists, lastList, policy, orphaned, excuse>>

\* One transaction: the list's rules are deleted, and the fetched ones become
\* the list's, whoever had them.
ReplaceListRules(w) ==
  /\ At_(w, "replace")
  /\ LET i == jobs[w].id IN
       \E K \in (SUBSET Rules) \ {{}} :
         /\ owner' = [k \in Rules |-> IF k \in K THEN i ELSE IF owner[k] = i THEN NoRow ELSE owner[k]]
         /\ applied' = [applied EXCEPT ![i] = K]
  /\ jobs' = [jobs EXCEPT ![w].at = "mark", ![w].changed = TRUE]
  /\ UNCHANGED <<lists, lastList, policy, orphaned, excuse>>

\* last_fetch is now, after an error too.
MarkListFetched(w) ==
  /\ At_(w, "mark")
  /\ lists' = IF Listed(jobs[w].id) THEN [lists EXCEPT ![jobs[w].id].due = FALSE] ELSE lists
  /\ Goto(w, IF w = Ticker THEN "next" ELSE "build")
  /\ UNCHANGED <<owner, lastList, policy, applied, orphaned, excuse>>

\* The reload of afterChange and of the tick: the rules are read ...
BuildPolicy(w) ==
  /\ At_(w, "build")
  /\ jobs' = [jobs EXCEPT ![w].at = "install", ![w].keys = ActiveRules]
  /\ excuse' = IF \E q \in Workers \ {w} : At_(q, "install") THEN "raced" ELSE "none"
  /\ UNCHANGED <<owner, lists, lastList, policy, applied, orphaned>>

\* ... and the policy made of them replaces the one in force, whatever another
\* reload has installed meanwhile.
SetPolicy(w) ==
  /\ At_(w, "install")
  /\ policy' = jobs[w].keys
  /\ EndJob(w)
  /\ UNCHANGED <<owner, lists, lastList, applied, orphaned, excuse>>

\* The control plane dies and starts again: requests under way are lost.
Reboot(w) ==
  /\ Arrives(w)
  /\ jobs' = [q \in Workers |-> IF q # w /\ (q = Ticker \/ At_(q, "free")) THEN Free ELSE [Free EXCEPT !.at = "done"]]
  /\ policy' = ActiveRules /\ excuse' = "none"
  /\ UNCHANGED <<owner, lists, lastList, applied, orphaned>>

Edit(w) ==
  \/ addRule(w) \/ importRules(w) \/ deleteRule(w) \/ importConfig(w) \/ ImportBulk(w)
  \/ importList(w) \/ addURLList(w) \/ refreshList(w) \/ GetList(w)
  \/ updateList(w) \/ SetListEnabled(w) \/ UpdateListInterval(w) \/ deleteList(w)

Work(w) == Fetch(w) \/ ReplaceListRules(w) \/ MarkListFetched(w) \/ BuildPolicy(w) \/ SetPolicy(w)

TickerStep == tick \/ NextDue \/ Work(Ticker)

RlNext ==
  \/ \E w \in Editors : Edit(w) \/ Work(w) \/ Reboot(w)
  \/ TickerStep

RlSpec == RlInit /\ [][RlNext]_rlVars

\* The tables, the policy and every worker keep their types.
RlTypeOK ==
  /\ owner \in [Rules -> {NoRow, ByHand} \cup ListIds]
  /\ \A i \in ListIds : lists[i] \in [source : {"none", "url", "paste"}, enabled : BOOLEAN, auto : BOOLEAN, due : BOOLEAN]
  /\ lastList \in 0..MaxLists /\ policy \subseteq Rules
  /\ \A w \in Workers : jobs[w].id \in 0..MaxLists /\ jobs[w].keys \subseteq Rules /\ jobs[w].todo \subseteq ListIds
  /\ applied \in [ListIds -> SUBSET Rules] /\ orphaned \subseteq ListIds
  /\ \A i \in ListIds : i > lastList => ~Listed(i)

\* A reload is due or under way.
Reloading == \E w \in Workers : jobs[w].at \in {"bulk", "interval", "build", "install"} \/ jobs[w].changed

\* Every handler and the refresher bring the policy back in step with the
\* tables: it lags only while a reload is due, after reloads that overlapped
\* (the older one may win) or after an import that failed half way.
PolicyInStep == policy = ActiveRules \/ Reloading \/ excuse # "none"

\* A list owns no rule but those it was last given, however fetches, edits and
\* other lists race with it.
ListOwnsItsContents == \A k \in Rules : owner[k] \in ListIds => k \in applied[owner[k]]

\* The rules of a removed list go with it; rows without a list are left only by
\* a worker that filled the list after its removal.
NoOrphans == \A k \in Rules : owner[k] \in ListIds /\ ~Listed(owner[k]) => owner[k] \in orphaned

\* The parts above: rows, lists and requests keep their types, the policy lags
\* only for a reason, and no rule of a list is owned wrongly or by nobody.
ListsInv == RlTypeOK /\ PolicyInStep /\ ListOwnsItsContents /\ NoOrphans
=============================================================================
