------------------------------- MODULE MCPolls -------------------------------
(* Instances, for TLC, of what an agent gets done by polling, whatever fails: *)
(* that the control plane knows it, and that the config it is served is in    *)
(* force.  The modules share no state: part says which of them a behaviour is *)
(* about, the other stays where it began.                                     *)
EXTENDS Replication, NodeKeys

CONSTANTS empty, rules, direct, conditional, default, saved, a1, n1

VARIABLE part

OneName == [a \in Agents |-> n1]

\* One agent through two rotations, and once whatever else happens to it.
AgentBudget == [lose |-> 1, crash |-> 1, wipe |-> 1, savefail |-> 1, age |-> 2, expire |-> 0, stale |-> 1,
                renew |-> 0, approve |-> 1, delete |-> 1, unrevoke |-> 1, endkey |-> 0]

SuiteInit == part \in {"config", "keys"} /\ RpInit /\ Init

SuiteNext ==
  /\ \/ part = "config" /\ RpNext /\ UNCHANGED vars
     \/ part = "keys"   /\ Next   /\ UNCHANGED rpVars
  /\ UNCHANGED part

\* The fairness of the two modules' fair specifications, each in the behaviours about it.
SuiteSpec ==
  /\ SuiteInit /\ [][SuiteNext]_<<part, vars, rpVars>>
  /\ WF_rpVars(part = "config" /\ Agent)
  /\ WF_rpVars(part = "config" /\ PollHandler)
  /\ WF_rpVars(part = "config" /\ Publish)
  /\ WF_vars(part = "keys" /\ AgentStep(a1))
  /\ WF_vars(part = "keys" /\ Handler(a1))
  /\ WF_vars(part = "keys" /\ Discard(a1))
  /\ WF_vars(part = "keys" /\ RenewWrite)

\* An agent ends up authenticated with the key it keeps, unless it may not join
\* again or its disk fails.
KeyWorksAtLast == part = "keys" => EventuallyAuthenticated

\* What is served ends up in force.
ConfigInForce == part = "config" => EventuallyInForce
==============================================================================
