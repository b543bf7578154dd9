------------------------------ MODULE FreshRead ------------------------------
(***************************************************************************)
(* What readers of the config version are promised.                        *)
(*                                                                         *)
(* Writes commit to the tables that feed the replicated config, and are    *)
(* published some time later.  A version answered to a reader is computed  *)
(* from contents that include every write published before the reader      *)
(* began; nothing is promised of a write committed but not yet published.  *)
(***************************************************************************)
EXTENDS Integers

CONSTANTS Readers, Keys, NTables, NoAnswer

Tables == 1 .. NTables

VARIABLES
  tables,     \* tables[t] counts the writes committed to table t
  published,  \* the counts when a write was last published
  busy,       \* readers with a lookup under way
  since,      \* since[r] is what was published when r began
  answer      \* answer[r][k] is the contents r's answer for key k was computed from

vars == <<tables, published, busy, since, answer>>

View == [Tables -> Nat]
AtLeast(v, w) == \A t \in Tables : w[t] <= v[t]

Init ==
  /\ tables = [t \in Tables |-> 0]
  /\ published = [t \in Tables |-> 0]
  /\ busy = {}
  /\ since = [r \in Readers |-> published]
  /\ answer = [r \in Readers |-> [k \in Keys |-> NoAnswer]]

Commit(t) ==
  /\ tables' = [tables EXCEPT ![t] = @ + 1]
  /\ UNCHANGED <<published, busy, since, answer>>

Publish ==
  /\ published' = tables
  /\ UNCHANGED <<tables, busy, since, answer>>

Begin(r) ==
  /\ r \notin busy
  /\ busy' = busy \cup {r}
  /\ since' = [since EXCEPT ![r] = published]
  /\ answer' = [answer EXCEPT ![r] = [k \in Keys |-> NoAnswer]]
  /\ UNCHANGED <<tables, published>>

Answer(r, k) ==
  /\ r \in busy
  /\ answer[r][k] = NoAnswer
  /\ answer'[r][k] \in View
  /\ AtLeast(answer'[r][k], since[r]) /\ AtLeast(tables, answer'[r][k])
  /\ answer' = [answer EXCEPT ![r][k] = answer'[r][k]]
  /\ UNCHANGED <<tables, published, busy, since>>

End(r) ==
  /\ r \in busy
  /\ busy' = busy \ {r}
  /\ UNCHANGED <<tables, published, since, answer>>

Next ==
  \/ \E t \in Tables : Commit(t)
  \/ Publish
  \/ \E r \in Readers : Begin(r) \/ End(r) \/ \E k \in Keys : Answer(r, k)

Spec == Init /\ [][Next]_vars
=============================================================================
