---------------------------- MODULE MCConnections ----------------------------
(* Small instances, for TLC, of what passes between a host and the servers it *)
(* depends on: the strategies over the upstreams, the pool of connections to  *)
(* one, and the identities that hosts have at the control plane.  The modules *)
(* share no state: part says which of them a behaviour is about, the others   *)
(* stay where they began.                                                     *)
EXTENDS Forwarding, PipePool, NodeKeys, TLC

CONSTANTS q1, q2, q3, a, b, n1

VARIABLE part

\* A pool that has learned nothing, with queries that wait for it at once.
Crowd == INSTANCE PipePool WITH StartInflight <- 3, Attempts <- 1

\* Two hosts of one name, with every writer of a node's row racing and a
\* grace window that closes.
OneName      == [h \in Agents |-> n1]
SharedBudget == [e \in Events |-> IF e \in {"age", "renew", "stale", "endkey", "expire"} THEN 1 ELSE 0]

SuiteInit ==
  /\ part \in {"forward", "pool", "crowd", "nodes"}
  /\ FwInit /\ (part # "forward" => n = 1 /\ ~hedged)
  /\ IF part = "crowd" THEN Crowd!PpInit ELSE PpInit
  /\ Init

SuiteNext ==
  /\ \/ part = "forward" /\ FwNext       /\ UNCHANGED <<ppVars, vars>>
     \/ part = "pool"    /\ PpNext       /\ UNCHANGED <<fwVars, vars>>
     \/ part = "crowd"   /\ Crowd!PpNext /\ UNCHANGED <<fwVars, vars>>
     \/ part = "nodes"   /\ Next         /\ UNCHANGED <<fwVars, ppVars>>
  /\ UNCHANGED part

SuiteSpec == SuiteInit /\ [][SuiteNext]_<<part, fwVars, ppVars, vars>>

Symmetry == Permutations({q1, q2, q3}) \cup Permutations({a, b})
==============================================================================
