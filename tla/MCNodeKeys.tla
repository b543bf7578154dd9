----------------------------- MODULE MCNodeKeys -----------------------------
(* An instance of NodeKeys for TLC: one agent, a rotation and a renewal.     *)
EXTENDS NodeKeys

CONSTANTS a1, n1

OneName         == [a \in Agents |-> n1]
RenewOnceBudget == [e \in Events |-> IF e \in {"renew", "age"} THEN 1 ELSE 0]
=============================================================================
