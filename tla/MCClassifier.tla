----------------------------- MODULE MCClassifier -----------------------------
(* Small instances, for TLC, of what the control plane thinks of domains: the *)
(* score, the worker that gives verdicts, and the categories.  The modules    *)
(* share no state: part says which of them a behaviour is about, the others   *)
(* stay where they began.                                                     *)
EXTENDS Scoring, ClassifierWorker, Categories

CONSTANTS d1, d2

VARIABLE part

\* Two domains and one event, or more that happens to one of them.
Brief  == events' <= 1
OnlyD2 == /\ d1 \notin recent' \cup ToSet(queue') \cup forwarded' \cup settings'.private /\ feeds'[d1] = 0
          /\ row'[d1] \in {row[d1], NoRow}

\* Labels of names but no log, or the log of one name.
NoLog   == log' = <<>>
OneName == /\ \A i \in DOMAIN log' : log'[i].name = "cloud"
           /\ \A d \in RegisteredDomains \ {"cloud"} : override'[d] = None /\ verdict'[d] = Unscored
           /\ UNCHANGED <<blocked, agent, holder>>

Reports  == {<<0, 0, 60>>, <<1, 3, 40>>, <<6, 0, 50>>}
Registrations == {{}, {"lock", "registrant", "term", "dnssec"}}
NameKinds     == {{}, {"riskyTLD", "lookalike"}}

\* A site, one of its services and a name of that; a customer's shop on a
\* platform that is registered itself; a printer.
SiteNames  == {"search", "assistant", "bot", "cloud", "pages", "shop", "printer"}
Chains     == [search |-> <<"search">>, assistant |-> <<"assistant", "search">>, bot |-> <<"bot", "assistant", "search">>,
               cloud |-> <<"cloud">>, pages |-> <<"pages", "cloud">>, shop |-> <<"shop", "pages", "cloud">>,
               printer |-> <<"printer">>]
Registrars == [search |-> "search", assistant |-> "search", bot |-> "search", cloud |-> "cloud", pages |-> None,
               shop |-> "shop", printer |-> "printer"]
BuiltIn    == {<<"search", "social">>, <<"assistant", "ai">>, <<"pages", "social">>}
Databases  == {{<<"bot", "phishing">>}, {<<"search", "ai">>, <<"cloud", "social">>},
               {<<"assistant", "social">>, <<"assistant", "ai">>, <<"shop", "ai">>}}
ByRank     == <<"social", "ai", "phishing">>

NoScore == in = CHOOSE e \in ScoreInput : TRUE
NoLabels == CgInit /\ published = {<<"bot", "phishing">>}

Init ==
  \/ part = "score"  /\ ScoreInit /\ CwInit      /\ NoLabels
  \/ part \in {"worker", "long"} /\ NoScore /\ CwInit /\ NoLabels
  \/ part \in {"labels", "log"}  /\ NoScore /\ CwInit /\ CgInit

Next ==
  /\ \/ part = "score"  /\ ScoreNext    /\ UNCHANGED <<cwVars, cgVars>>
     \/ part = "worker" /\ CwNext       /\ Brief  /\ UNCHANGED <<in, cgVars>>
     \/ part = "long"   /\ CwNext       /\ OnlyD2 /\ UNCHANGED <<in, cgVars>>
     \/ part = "labels" /\ CgNext       /\ NoLog   /\ UNCHANGED <<in, cwVars>>
     \/ part = "log"    /\ CgNext       /\ OneName /\ UNCHANGED <<in, cwVars>>
  /\ UNCHANGED part

Spec == Init /\ [][Next]_<<part, in, cwVars, cgVars>>
================================================================================
