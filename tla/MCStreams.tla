------------------------------ MODULE MCStreams ------------------------------
(* Small instances, for TLC, of what is shown of the queries and their clients: *)
(* the live stream, the agents' own logs, what is kept of the query log, and   *)
(* the names of clients.  The modules share no state: part says which of them  *)
(* a behaviour is about, the others stay where they began.                     *)
EXTENDS ProcLogs, LiveStream, Privacy, ClientNames, TLC

\* The modules are given the same model values, so that a state has few
\* permutations.
CONSTANTS r1, r2, v1, v2, k1, k2, a1, a2

VARIABLE part

\* Off, anonymous, and the two levels between with a window, a threshold or both.
SomePolicies ==
  {[level |-> 0, window |-> 0, k |-> 0], [level |-> 3, window |-> 0, k |-> 0],
   [level |-> 1, window |-> 0, k |-> 2], [level |-> 1, window |-> 1, k |-> 0],
   [level |-> 2, window |-> 1, k |-> 2]}

Init ==
  /\ part \in {"lines", "live", "privacy", "names"}
  /\ PlInit /\ LvInit /\ PrInit /\ NmInit
  /\ part # "privacy" => policy.level = 0
  /\ part # "names" => ptr = Nobody

Next ==
  /\ \/ part = "lines"   /\ PlNext /\ UNCHANGED <<lvVars, prVars, nmVars>>
                         /\ boot' + forgets' <= 2      \* a reboot, or the log forgotten
     \/ part = "live"    /\ LvNext /\ UNCHANGED <<plVars, prVars, nmVars>>
     \/ part = "privacy" /\ PrNext /\ UNCHANGED <<plVars, lvVars, nmVars>>
                         /\ changes' + arrived' <= 3   \* two rows and a change, or one row and two
     \/ part = "names"   /\ NmNext /\ UNCHANGED <<plVars, lvVars, prVars>>
  /\ UNCHANGED part

Spec == Init /\ [][Next]_<<part, plVars, lvVars, prVars, nmVars>>

Symmetry == Permutations({v1, v2}) \cup Permutations({a1, a2})
==============================================================================
