------------------------------- MODULE MCLogs -------------------------------
(* Instances, for TLC, of the way of the query log: what an agent ships, and  *)
(* what the control plane folds and exports.  The modules share no state:     *)
(* part says which of them a behaviour is about, the other stays where it     *)
(* began.                                                                     *)
EXTENDS LogShipping, LogConsumers

CONSTANTS h1, h2

VARIABLE part

SuiteInit == part \in {"ship", "consume"} /\ Init /\ LcInit

SuiteNext ==
  /\ \/ part = "ship"    /\ Next   /\ UNCHANGED lcVars
     \/ part = "consume" /\ LcNext /\ UNCHANGED vars
  /\ UNCHANGED part

\* The fairness of FairSpec and of LcFairSpec, each in the behaviours about its
\* module.
SuiteSpec ==
  /\ SuiteInit /\ [][SuiteNext]_<<part, vars, lcVars>>
  /\ WF_vars(part = "ship" /\ AgentStep)
  /\ WF_vars(part = "ship" /\ ServerStep)
  /\ SF_lcVars(part = "consume" /\ RollupStep)
  /\ \A h \in Handlers : WF_lcVars(part = "consume" /\ (InsertRow(h) \/ CommitInsert(h)))

\* Every entry an agent may ship gets to the control plane, whatever fails.
AllShipped == part = "ship" => EventuallyShipped
\* Every row there gets counted.
AllCounted == part = "consume" => EventuallyCounted
=============================================================================
