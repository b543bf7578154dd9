----------------------------- MODULE MCConfigAdmin -----------------------------
(* Small instances, for TLC, of what happens to the configuration on the      *)
(* control plane, and to its copy on an agent that crashes.  The modules      *)
(* share no state: part says which of them a behaviour is about, the others   *)
(* stay where they began.                                                     *)
EXTENDS VersionCache, RuleLists, ScopedConfig, LiveSettings, Replication, TLC

\* The modules are given the same model values, so that a state has few
\* permutations.
CONSTANTS r1, r2, k1, k2, s1, s2, owner1, empty, rules1, direct, conditional, default, saved

VARIABLE part

suite == <<vars, rlVars, scVars, lsVars, rpVars>>

SuiteInit ==
  /\ part \in {"versions", "lists", "scopes", "settings", "agent"}
  /\ Init /\ RpInit
  /\ RlInit /\ owner[k1] = ByHand   \* without loss: the rules are alike
  /\ ScInit /\ (part # "scopes" => kind = "rewrite" /\ lastRow = 0 /\ siteOf[s1] = k1)
  /\ LsInit /\ (part # "settings" => live["settings"].privacy = 0)

SuiteNext ==
  /\ \/ part = "versions" /\ Next   /\ UNCHANGED <<rlVars, scVars, lsVars, rpVars>>
     \/ part = "lists"    /\ RlNext /\ UNCHANGED <<vars, scVars, lsVars, rpVars>>
     \/ part = "scopes"   /\ ScNext /\ UNCHANGED <<vars, rlVars, lsVars, rpVars>>
     \/ part = "settings" /\ LsNext /\ UNCHANGED <<vars, rlVars, scVars, rpVars>>
     \/ part = "agent"    /\ RpNext /\ UNCHANGED <<vars, rlVars, scVars, lsVars>>
  /\ UNCHANGED part

SuiteSpec == SuiteInit /\ [][SuiteNext]_<<part, suite>>

Symmetry == Permutations({r1, r2})
================================================================================
