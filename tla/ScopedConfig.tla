----------------------------- MODULE ScopedConfig -----------------------------
(* Scoped rewrites and forwarders, the sites they are scoped to, and what a   *)
(* node is served of them: store.go, forwarders.go, scope.go, sites.go and    *)
(* filterRewritesForNode in internal/store, and their handlers in             *)
(* internal/api.                                                              *)
(*                                                                            *)
(* The rows are those of one domain and record type, or of one suffix: kind   *)
(* says which table a behaviour is about, since the two meet only in scopes.  *)
(* A handler is cut where it uses the database; a transaction is one step.    *)
(* Values and upstreams are left out, but for who wrote them (by).            *)
EXTENDS Integers, FiniteSets

CONSTANTS
  Nodes, Sites,    \* names of nodes and of sites
  Integrations,    \* owners of rewrites besides the operator
  Calls,           \* HTTP requests, each sent once
  MaxRows          \* row ids are 1..MaxRows, and not reused

Manual == "manual"
NoSite == "no site"
Owners == Integrations \cup {Manual}
RowIds == 1..MaxRows
Roles  == {"primary", "secondary", "backup", ""}

ASSUME ScopedConfigConstants == MaxRows \in Nat \ {0} /\ {Manual, "none"} \cap Integrations = {} /\ NoSite \notin Sites

\* CanonicalScope: everything, or a non-empty set of nodes or of sites.
CanonicalScope ==
  {[type |-> "all", values |-> {}]}
    \cup [type : {"nodes"}, values : (SUBSET Nodes) \ {{}}]
    \cup [type : {"sites"}, values : (SUBSET Sites) \ {{}}]
AllScope == [type |-> "all", values |-> {}]

\* ext: whether the row carries the integration's external id; by: who wrote
\* its value; passed (history): whether it was detached or imported.
Row == [scope : CanonicalScope, owner : Owners, enabled : BOOLEAN, ext : BOOLEAN, by : Owners, passed : BOOLEAN]
NoEntry == [scope |-> AllScope, owner |-> "none", enabled |-> FALSE, ext |-> FALSE, by |-> "none", passed |-> FALSE]

VARIABLES
  kind,     \* "rewrite" or "forwarder"
  rows,     \* the table, by id
  lastRow,  \* the highest id given
  sites,    \* the table sites
  siteOf,   \* nodes.site
  roleOf,   \* nodes.role
  calls,    \* what each request has decided, and does next
  tainted   \* history: rows may overlap, by a race, an import or a rename

scVars == <<kind, rows, lastRow, sites, siteOf, roleOf, calls, tainted>>
placement == <<sites, siteOf, roleOf>>

\* moved: another write came between a request's check and its own write.
Fresh == [at |-> "fresh", id |-> 0, row |-> NoEntry, moved |-> FALSE]
Over  == [Fresh EXCEPT !.at = "over"]

ScInit ==
  /\ kind \in {"rewrite", "forwarder"}
  /\ lastRow \in {0, 1}
  /\ \E scope \in CanonicalScope, source \in Owners :
       /\ lastRow = 0 \/ kind = "forwarder" => source = Manual
       /\ lastRow = 0 => scope = AllScope
       /\ rows = [i \in RowIds |-> IF i = 1 /\ lastRow = 1
                     THEN [scope |-> scope, owner |-> source, enabled |-> TRUE, ext |-> FALSE, by |-> source, passed |-> FALSE]
                     ELSE NoEntry]
  /\ \E s \in Sites, n \in Nodes :
       /\ sites = {s}
       /\ siteOf = [m \in Nodes |-> IF m = n THEN s ELSE NoSite]
       /\ roleOf = [m \in Nodes |-> IF m = n THEN "primary" ELSE ""]
  /\ calls = [c \in Calls |-> Fresh] /\ tainted = FALSE

Held == {i \in RowIds : rows[i] # NoEntry}
With(scope) == {i \in Held : rows[i].scope = scope}

\* scopeValuesIntersect, and the two conflict checks: a row of the same type
\* whose values differ and intersect.
scopeValuesIntersect(a, b) == a.type = b.type /\ a # b /\ a.values \cap b.values # {}
RewriteScopeConflict(scope, except) == \E i \in Held \ {except} : scopeValuesIntersect(rows[i].scope, scope)
ForwarderScopeConflict(scope, except) == \E i \in Held \ {except} : scopeValuesIntersect(rows[i].scope, scope)

\* The index over (source, external_id): another row has the external id.
ExternalTaken(r, scope) == r.ext /\ \E i \in Held : rows[i].ext /\ rows[i].owner = r.owner /\ rows[i].scope # scope

Starts(c, k)     == kind = k /\ calls[c].at = "fresh"
Goes(c, s, i, r) == calls' = [calls EXCEPT ![c] = [at |-> s, id |-> i, row |-> r, moved |-> FALSE]]
Ends(c)          == calls' = [calls EXCEPT ![c] = Over]

\* A write of the table: those who have checked it have not seen it.
Puts(c, new) ==
  /\ rows' = new
  /\ calls' = [d \in Calls |-> IF d = c THEN Over
                               ELSE IF calls[d].at \in {"fresh", "over"} THEN calls[d]
                               ELSE [calls[d] EXCEPT !.moved = TRUE]]
Writes(c, new) == Puts(c, new) /\ tainted' = (tainted \/ calls[c].moved)

New(r) == [rows EXCEPT ![lastRow + 1] = r]

-----------------------------------------------------------------------------
(* Rewrites.                                                                *)

addRewrite(c) ==
  /\ Starts(c, "rewrite")
  /\ \E scope \in CanonicalScope, source \in Owners, ext \in BOOLEAN :
       /\ ext => source # Manual
       /\ LET r == [scope |-> scope, owner |-> source, enabled |-> TRUE, ext |-> ext, by |-> source, passed |-> FALSE]
          IN IF RewriteScopeConflict(scope, 0) THEN Ends(c) ELSE Goes(c, "upsert", 0, r)
  /\ UNCHANGED <<kind, rows, lastRow, placement, tainted>>

\* Changed: the upsert updates a row of any owner.
UpsertAnyOwner(c) ==
  /\ calls[c].at = "upsert" /\ kind = "rewrite"
  /\ LET r == calls[c].row IN
       IF ExternalTaken(r, r.scope) THEN Ends(c) /\ UNCHANGED <<rows, lastRow, tainted>>
       ELSE IF With(r.scope) = {}
         THEN lastRow < MaxRows /\ lastRow' = lastRow + 1 /\ Writes(c, New(r))
         ELSE /\ Writes(c, [i \in RowIds |-> IF i \in With(r.scope) THEN [rows[i] EXCEPT !.by = r.by] ELSE rows[i]])
              /\ UNCHANGED lastRow
  /\ UNCHANGED <<kind, placement>>

\* The row of that scope, if there is one, is updated if it has the same owner;
\* a manual one is enabled again.  The index makes the check of the external id
\* and the write one step.
UpsertRewrite(c) ==
  /\ calls[c].at = "upsert" /\ kind = "rewrite"
  /\ LET r == calls[c].row IN
       IF ExternalTaken(r, r.scope) THEN Ends(c) /\ UNCHANGED <<rows, lastRow, tainted>>
       ELSE IF With(r.scope) = {}
         THEN lastRow < MaxRows /\ lastRow' = lastRow + 1 /\ Writes(c, New(r))
         ELSE \E i \in With(r.scope) :
                /\ IF rows[i].owner = r.owner
                   THEN Writes(c, [rows EXCEPT ![i].by = r.by, ![i].ext = r.ext, ![i].enabled = @ \/ r.owner = Manual])
                   ELSE Ends(c) /\ UNCHANGED <<rows, tainted>>
                /\ UNCHANGED lastRow
  /\ UNCHANGED <<kind, placement>>

\* It reads the table once: the row, its owner unless only enabled changes, and
\* no other row of exactly the new scope.
updateRewrite(c) ==
  /\ Starts(c, "rewrite")
  /\ \E i \in Held, scope \in CanonicalScope, source \in Owners, sameValue, enabled \in BOOLEAN :
       /\ rows[i].owner = source \/ (sameValue /\ scope = rows[i].scope)
       /\ With(scope) \subseteq {i}
       /\ Goes(c, "recheck", i, [rows[i] EXCEPT !.scope = scope, !.enabled = enabled, !.by = IF sameValue THEN @ ELSE source])
  /\ UNCHANGED <<kind, rows, lastRow, placement, tainted>>

RecheckRewrite(c) ==
  /\ calls[c].at = "recheck" /\ kind = "rewrite"
  /\ IF RewriteScopeConflict(calls[c].row.scope, calls[c].id) THEN Ends(c)
     ELSE Goes(c, "update", calls[c].id, calls[c].row)
  /\ UNCHANGED <<kind, rows, lastRow, placement, tainted>>

\* An UPDATE by id, refused by the UNIQUE index if a row got that scope.
UpdateRewrite(c) ==
  /\ calls[c].at = "update" /\ kind = "rewrite"
  /\ LET i == calls[c].id r == calls[c].row IN
       IF i \in Held /\ With(r.scope) \subseteq {i}
       THEN Writes(c, [rows EXCEPT ![i].scope = r.scope, ![i].enabled = r.enabled, ![i].by = r.by])
       ELSE Ends(c) /\ UNCHANGED <<rows, tainted>>
  /\ UNCHANGED <<kind, lastRow, placement>>

\* It must name the row's owner.
deleteRewrite(c) ==
  /\ Starts(c, "rewrite")
  /\ \E i \in Held : Goes(c, "delete", i, NoEntry)
  /\ UNCHANGED <<kind, rows, lastRow, placement, tainted>>

DeleteRewrite(c) ==
  /\ calls[c].at = "delete"
  /\ Writes(c, [rows EXCEPT ![calls[c].id] = NoEntry])
  /\ UNCHANGED <<kind, lastRow, placement>>

detachRewrite(c) ==
  /\ Starts(c, "rewrite")
  /\ \E i \in Held : Goes(c, "detach", i, NoEntry)
  /\ UNCHANGED <<kind, rows, lastRow, placement, tainted>>

DetachRewrite(c) ==
  /\ calls[c].at = "detach"
  /\ IF calls[c].id \in Held
     THEN Writes(c, [rows EXCEPT ![calls[c].id].owner = Manual, ![calls[c].id].ext = FALSE, ![calls[c].id].passed = TRUE])
     ELSE Ends(c) /\ UNCHANGED <<rows, tainted>>
  /\ UNCHANGED <<kind, lastRow, placement>>

\* An import, after it cleared the table or not: the bundle's row wins, whoever
\* had it; no scope is checked.
ClearRewrites(c) ==
  /\ Starts(c, kind)
  /\ rows' = [i \in RowIds |-> NoEntry] /\ Goes(c, "bulk", 0, NoEntry)
  /\ UNCHANGED <<kind, lastRow, placement, tainted>>

AddRewritesBulk(c) ==
  /\ kind = "rewrite" /\ calls[c].at \in {"fresh", "bulk"}
  /\ \E scope \in CanonicalScope, source \in Owners, ext \in BOOLEAN :
       LET r == [scope |-> scope, owner |-> source, enabled |-> TRUE, by |-> source, passed |-> TRUE,
                 ext |-> ext /\ source # Manual
                         /\ ~ExternalTaken([NoEntry EXCEPT !.owner = source, !.ext = TRUE], scope)]
       IN IF With(scope) = {}
          THEN lastRow < MaxRows /\ lastRow' = lastRow + 1 /\ rows' = New(r)
          ELSE rows' = [i \in RowIds |-> IF i \in With(scope) THEN r ELSE rows[i]] /\ UNCHANGED lastRow
  /\ Ends(c) /\ tainted' = TRUE
  /\ UNCHANGED <<kind, placement>>

-----------------------------------------------------------------------------
(* Forwarders, which nobody owns.                                           *)

Forwarder(scope, enabled) ==
  [scope |-> scope, owner |-> Manual, enabled |-> enabled, ext |-> FALSE, by |-> Manual, passed |-> FALSE]

addForwarder(c) ==
  /\ Starts(c, "forwarder")
  /\ \E scope \in CanonicalScope :
       IF ForwarderScopeConflict(scope, 0) THEN Ends(c) ELSE Goes(c, "upsert", 0, Forwarder(scope, TRUE))
  /\ UNCHANGED <<kind, rows, lastRow, placement, tainted>>

Upserted(r) == IF With(r.scope) = {} THEN New(r) ELSE [i \in RowIds |-> IF i \in With(r.scope) THEN r ELSE rows[i]]
Counted(r)  == IF With(r.scope) = {} THEN lastRow < MaxRows /\ lastRow' = lastRow + 1 ELSE UNCHANGED lastRow

AddForwarder(c) ==
  /\ calls[c].at = "upsert" /\ kind = "forwarder"
  /\ Counted(calls[c].row) /\ Writes(c, Upserted(calls[c].row))
  /\ UNCHANGED <<kind, placement>>

\* In an import the bundle's enabled flag counts, and no scope is checked.
AddForwardersBulk(c) ==
  /\ kind = "forwarder" /\ calls[c].at \in {"fresh", "bulk"}
  /\ \E scope \in CanonicalScope, enabled \in BOOLEAN :
       Counted(Forwarder(scope, enabled)) /\ rows' = Upserted(Forwarder(scope, enabled))
  /\ Ends(c) /\ tainted' = TRUE
  /\ UNCHANGED <<kind, placement>>

updateForwarder(c) ==
  /\ Starts(c, "forwarder")
  /\ \E i \in Held, scope \in CanonicalScope, enabled \in BOOLEAN :
       /\ With(scope) \subseteq {i}
       /\ Goes(c, "recheck", i, Forwarder(scope, enabled))
  /\ UNCHANGED <<kind, rows, lastRow, placement, tainted>>

RecheckForwarder(c) ==
  /\ calls[c].at = "recheck" /\ kind = "forwarder"
  /\ IF ForwarderScopeConflict(calls[c].row.scope, calls[c].id) THEN Ends(c)
     ELSE Goes(c, "update", calls[c].id, calls[c].row)
  /\ UNCHANGED <<kind, rows, lastRow, placement, tainted>>

UpdateForwarder(c) ==
  /\ calls[c].at = "update" /\ kind = "forwarder"
  /\ LET i == calls[c].id r == calls[c].row IN
       IF i \in Held /\ With(r.scope) \subseteq {i}
       THEN Writes(c, [rows EXCEPT ![i] = r]) ELSE Ends(c) /\ UNCHANGED <<rows, tainted>>
  /\ UNCHANGED <<kind, lastRow, placement>>

deleteForwarder(c) ==
  /\ Starts(c, "forwarder")
  /\ \E i \in Held : Writes(c, [rows EXCEPT ![i] = NoEntry])
  /\ UNCHANGED <<kind, lastRow, placement>>

-----------------------------------------------------------------------------
(* Sites.                                                                   *)

Settles == UNCHANGED <<kind, lastRow>>

createSite(c) ==
  /\ calls[c].at = "fresh"
  /\ \E s \in Sites : sites' = sites \cup {s}
  /\ Ends(c) /\ Settles /\ UNCHANGED <<rows, siteOf, roleOf, tainted>>

\* Changed: the scopes keep the old name.
RenamedNowhere(scope, old, new) == scope

\* The site scopes that name the old site name the new one instead.
RenamedIn(scope, old, new) ==
  IF scope.type = "sites" /\ old \in scope.values
  THEN [scope EXCEPT !.values = (@ \ {old}) \cup {new}] ELSE scope

renameScopedSite(old, new) ==
  [i \in RowIds |-> IF i \in Held THEN [rows[i] EXCEPT !.scope = RenamedIn(@, old, new)] ELSE rows[i]]

Unique(table) == \A i, j \in RowIds : i # j /\ table[i] # NoEntry /\ table[j] # NoEntry => table[i].scope # table[j].scope

\* Rows that name the new site, from before it was removed or is made.
Named(new) == \E i \in Held : rows[i].scope.type = "sites" /\ new \in rows[i].scope.values

\* UpdateSite: one transaction, refused if the new name is in use, or if two
\* rows would come to have one scope; a site known from its nodes becomes a row.
updateSite(c, old, new) ==
  /\ calls[c].at = "fresh"
  /\ new \notin sites /\ \A n \in Nodes : siteOf[n] # new
  /\ old \in sites \/ \E n \in Nodes : siteOf[n] = old
  /\ Unique(renameScopedSite(old, new))
  /\ sites' = (sites \ {old}) \cup {new}
  /\ siteOf' = [n \in Nodes |-> IF siteOf[n] = old THEN new ELSE siteOf[n]]
  /\ Puts(c, renameScopedSite(old, new))
  /\ tainted' = (tainted \/ Named(new))
  /\ Settles /\ UNCHANGED roleOf

\* Its nodes are unassigned; scopes go on naming it.
deleteSite(c) ==
  /\ calls[c].at = "fresh"
  /\ \E s \in Sites :
       /\ sites' = sites \ {s}
       /\ siteOf' = [n \in Nodes |-> IF siteOf[n] = s THEN NoSite ELSE siteOf[n]]
       /\ roleOf' = [n \in Nodes |-> IF siteOf[n] = s THEN "" ELSE roleOf[n]]
  /\ Ends(c) /\ Settles /\ UNCHANGED <<rows, tainted>>

\* normalizeRole, and no role without a site.
RoleIn(s, role) == IF s = NoSite THEN "" ELSE role

\* SetNodeSite: one transaction; a new primary demotes the site's other one.
SetNodeSite(n, s, role) ==
  [m \in Nodes |-> IF m = n THEN RoleIn(s, role)
                   ELSE IF RoleIn(s, role) = "primary" /\ siteOf[m] = s /\ roleOf[m] = "primary" THEN "secondary"
                   ELSE roleOf[m]]

\* The site need not be one of the table.
setNodeSite(c) ==
  /\ calls[c].at = "fresh"
  /\ \E n \in Nodes, s \in Sites \cup {NoSite}, role \in Roles :
       /\ siteOf' = [siteOf EXCEPT ![n] = s]
       /\ roleOf' = SetNodeSite(n, s, role)
  /\ Ends(c) /\ Settles /\ UNCHANGED <<rows, sites, tainted>>

-----------------------------------------------------------------------------
RewriteCalls(c) ==
  \/ addRewrite(c) \/ UpsertRewrite(c) \/ updateRewrite(c) \/ RecheckRewrite(c) \/ UpdateRewrite(c)
  \/ deleteRewrite(c) \/ DeleteRewrite(c) \/ detachRewrite(c) \/ DetachRewrite(c)
  \/ ClearRewrites(c) \/ AddRewritesBulk(c)

ForwarderCalls(c) ==
  \/ addForwarder(c) \/ AddForwarder(c) \/ updateForwarder(c) \/ RecheckForwarder(c) \/ UpdateForwarder(c)
  \/ deleteForwarder(c) \/ AddForwardersBulk(c)

SiteCalls(c) == createSite(c) \/ (\E old, new \in Sites : updateSite(c, old, new)) \/ deleteSite(c) \/ setNodeSite(c)

ScNext == \E c \in Calls : RewriteCalls(c) \/ ForwarderCalls(c) \/ SiteCalls(c)

ScSpec == ScInit /\ [][ScNext]_scVars

-----------------------------------------------------------------------------
(* What a node is served.                                                   *)

ScopeMatches(scope, n) ==
  \/ scope.type = "all"
  \/ scope.type = "nodes" /\ n \in scope.values
  \/ scope.type = "sites" /\ siteOf[n] \in scope.values

scopeRank(scope) == CASE scope.type = "nodes" -> 3 [] scope.type = "sites" -> 2 [] OTHER -> 1

\* The most specific enabled row wins; of rewrites, a disabled one if none is
\* enabled.  Of two with the same rank either may come first.
filterRewritesForNode(n) ==
  LET rank(i)  == scopeRank(rows[i].scope) + IF rows[i].enabled THEN 3 ELSE 0
      match    == {i \in Held : ScopeMatches(rows[i].scope, n)}
  IN {i \in match : \A j \in match : rank(j) <= rank(i)}

filterForwardersForNode(n) ==
  LET match == {i \in Held : rows[i].enabled /\ ScopeMatches(rows[i].scope, n)}
  IN {i \in match : \A j \in match : scopeRank(rows[j].scope) <= scopeRank(rows[i].scope)}

Served(n) == IF kind = "rewrite" THEN filterRewritesForNode(n) ELSE filterForwardersForNode(n)

-----------------------------------------------------------------------------
(* Properties.                                                              *)

\* Types, and the UNIQUE indexes over scopes and external ids.
ScTypeOK ==
  /\ \A i \in Held : rows[i] \in Row /\ i <= lastRow
  /\ lastRow \in 0..MaxRows /\ sites \subseteq Sites
  /\ siteOf \in [Nodes -> Sites \cup {NoSite}] /\ roleOf \in [Nodes -> Roles]
  /\ Unique(rows)
  /\ \A i, j \in Held : i # j /\ rows[i].ext /\ rows[j].ext => rows[i].owner # rows[j].owner

\* Whatever add, update, detach and removal do one after the other, a node is
\* served one rewrite, and one forwarder, of a name: rows of the same
\* specificity overlap only after requests that raced between check and
\* write, an import, or a site renamed to a name some row still had.
OneWinner == tainted \/ \A n \in Nodes : Cardinality(Served(n)) <= 1

\* UpsertRewrite and updateRewrite: the value of a row is one its owner wrote,
\* unless the row was imported or detached.
OwnersWroteThem == \A i \in Held : rows[i].by = rows[i].owner \/ rows[i].passed

\* SetNodeSite, UpdateSite and DeleteSite, in any order: a site has one primary.
OnePrimaryPerSite ==
  \A n, m \in Nodes : n # m /\ siteOf[n] = siteOf[m] => ~(roleOf[n] = "primary" /\ roleOf[m] = "primary")

\* The parts above: scoped rows stay unique, one wins per node and name, their
\* values are their owners', and a site has one primary.
ScopesInv == ScTypeOK /\ OneWinner /\ OwnersWroteThem /\ OnePrimaryPerSite

\* UpdateSite: a renamed site keeps exactly what it was served, if no row had
\* the new name before.
RenameKeepsServed ==
  [][\A c \in Calls, old, new \in Sites :
       updateSite(c, old, new) /\ ~Named(new) => \A n \in Nodes : Served(n)' = Served(n)]_scVars
===============================================================================
