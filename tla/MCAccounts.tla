------------------------------ MODULE MCAccounts ------------------------------
(* Small instances of the sign-in modules for TLC.  The two share no state:  *)
(* part says which of them a behaviour is about, the other one stays where   *)
(* it began.                                                                 *)
EXTENDS SecondFactor, Accounts, TLC

\* The two modules are given the same model values, so that a state has few
\* permutations.
CONSTANTS r1, r2, r3, a, b, s1

VARIABLE part

Init ==
  \/ part = "factor" /\ MfaInit /\ AccInit /\ lastId = 0 /\ provider.gen = 0
  \/ part = "accounts" /\ AccInit /\ MfaInit /\ factor = Off /\ sessions = {}

Next ==
  /\ \/ part = "factor" /\ MfaNext /\ UNCHANGED accVars
     \/ part = "accounts" /\ AccNext /\ UNCHANGED mfaVars
  /\ UNCHANGED part

Spec == Init /\ [][Next]_<<part, mfaVars, accVars>>

Symmetry == UNION {Permutations(S) : S \in {Requests, Challenge}}
===============================================================================
