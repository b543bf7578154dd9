----------------------------- MODULE Forwarding -----------------------------
(***************************************************************************)
(* How one query is forwarded to a list of upstreams.                      *)
(*                                                                         *)
(* Each upstream that is asked has a goroutine that ends with one result,  *)
(* put into a channel that has room for all of them.  The ordered strategy *)
(* asks the next upstream when the one it waits for failed or kept it      *)
(* waiting too long, as long as the query's budget is not spent.  The      *)
(* hedged one asks the first, and all the others when the first failed or  *)
(* the hedge's delay is over.                                              *)
(*                                                                         *)
(* Steps are one turn of the select, the end of one exchange, and the end  *)
(* of the budget.  An answer is what the strategies tell apart: a real one *)
(* (NXDOMAIN and NODATA too), SERVFAIL, REFUSED, or an error.              *)
(***************************************************************************)
EXTENDS Naturals, Sequences, FiniteSets

CONSTANTS
  MaxUpstreams,   \* bound: length of the list
  NoUpstream      \* no upstream, no outcome

ASSUME ForwardingAssumption ==
  MaxUpstreams \in Nat \ {0} /\ NoUpstream \notin 1 .. MaxUpstreams

VARIABLES
  hedged,     \* the runtime's strategy
  n,          \* how many upstreams there are
  asked,      \* what became of each upstream's exchange
  results,    \* the channel
  next, pending, launched,
  soft,       \* the best soft failure, and who sent it
  lastErr,    \* an upstream failed with an error
  timer,      \* what the timer waits for
  spent,      \* the budget of the query is spent
  slow,       \* upstreams the timer went off on
  took,       \* the results that were taken, in their order
  ret         \* what forward returned

fwVars == <<hedged, n, asked, results, next, pending, launched, soft, lastErr, timer, spent, slow, took, ret>>

Ups == 1 .. n
Outcomes  == {"answer", "servfail", "refused", "error"}
Nobody    == [who |-> NoUpstream, outcome |-> "none"]
Pending   == [who |-> NoUpstream, outcome |-> "pending"]
Failure   == [who |-> NoUpstream, outcome |-> "error"]

-----------------------------------------------------------------------------
(* One upstream.                                                           *)

\* What a plain upstream makes of the reply by UDP and the one by TCP: a
\* truncated reply is only good for something if TCP fails.
PlainExchange(udp, tcp) == IF udp = "truncated" THEN (IF tcp = "error" THEN "answer" ELSE tcp) ELSE udp

\* What a DoH upstream makes of a response: anything but a message is an error.
DohExchange(http) == IF http \in Outcomes THEN http ELSE "error"

\* What an exchange of any upstream may end with.
Endings ==
  {PlainExchange(udp, tcp) : udp \in Outcomes \cup {"truncated"}, tcp \in Outcomes}
    \cup {DohExchange(http) : http \in Outcomes \cup {"status", "garbage"}}

softFailure(outcome) == outcome \in {"servfail", "refused"}

\* Changed: the first soft failure is kept.
FirstSoft(cur, res) == IF cur = Nobody THEN res ELSE cur

\* SERVFAIL before REFUSED, else the first.
betterSoft(cur, res) ==
  IF cur = Nobody \/ (cur.outcome # "servfail" /\ res.outcome = "servfail") THEN res ELSE cur

-----------------------------------------------------------------------------

NormalizeUpstreamStrategy(s) == IF s = "hedged" THEN "hedged" ELSE "ordered"

\* The goroutines of a set of upstreams are started.
Launch(us) == asked' = [u \in Ups |-> IF u \in us THEN "running" ELSE asked[u]]

\* exchangeOnly: a list of one is asked as it is, without a strategy.
FwInit ==
  /\ \E s \in {"hedged", "ordered", "other"} : hedged = (NormalizeUpstreamStrategy(s) = "hedged")
  /\ n \in 1 .. MaxUpstreams
  /\ asked = [u \in Ups |-> IF u = 1 THEN "running" ELSE "idle"]
  /\ results = <<>> /\ next = 2 /\ pending = 1 /\ launched = FALSE
  /\ soft = Nobody /\ lastErr = FALSE /\ spent = FALSE /\ slow = {} /\ took = <<>> /\ ret = Pending
  /\ timer = IF n = 1 THEN "never" ELSE IF hedged THEN "hedge" ELSE "step"

Waits == ret = Pending

\* An exchange ends, whoever still waits for it.
ExchangeEnds(u) ==
  /\ asked[u] = "running" /\ asked' = [asked EXCEPT ![u] = "done"]
  /\ \E o \in Endings : results' = Append(results, [who |-> u, outcome |-> o])
  /\ UNCHANGED <<hedged, n, next, pending, launched, soft, lastErr, timer, spent, slow, took, ret>>

BudgetEnds ==
  /\ ~spent /\ Waits /\ spent' = TRUE
  /\ UNCHANGED <<hedged, n, asked, results, next, pending, launched, soft, lastErr, timer, slow, took, ret>>

Takes == results # <<>> /\ results' = Tail(results) /\ took' = Append(took, Head(results))

\* What the strategies remember of a result that is not a real answer.
Remembers(res) ==
  /\ soft' = IF softFailure(res.outcome) THEN betterSoft(soft, res) ELSE soft
  /\ lastErr' = (lastErr \/ res.outcome = "error")

exchangeOnly ==
  /\ Waits /\ n = 1 /\ Takes /\ pending' = 0
  /\ ret' = IF Head(results).outcome = "error" THEN Failure ELSE Head(results)
  /\ UNCHANGED <<hedged, n, asked, next, launched, soft, lastErr, timer, spent, slow>>

\* What is returned when nobody is left to wait for.
FinishWith(best) == IF best # Nobody THEN best ELSE Failure

-----------------------------------------------------------------------------
(* forwardOrdered.                                                         *)

CanAdvance == next <= n /\ ~spent

\* advance: the last upstream gets what is left of the budget.
Advance ==
  /\ Launch({next}) /\ next' = next + 1
  /\ timer' = IF next = n THEN "budget" ELSE "step"

\* A result: a real answer wins, whoever sent it.
TakeOrdered ==
  /\ Waits /\ ~hedged /\ n > 1 /\ Takes
  /\ LET res     == Head(results)
         current == res.who = next - 1
     IN \/ /\ res.outcome = "answer" /\ ret' = res /\ pending' = pending - 1
           /\ UNCHANGED <<asked, next, timer, soft, lastErr>>
        \/ /\ res.outcome # "answer" /\ Remembers(res)
           /\ \/ /\ ~current   \* an upstream it already moved on from
                 /\ pending' = pending - 1 /\ UNCHANGED <<asked, next, timer, ret>>
              \/ /\ current /\ CanAdvance   \* the current one failed: on to the next
                 /\ Advance /\ pending' = pending /\ UNCHANGED ret
              \/ /\ current /\ ~CanAdvance /\ pending = 1
                 /\ ret' = FinishWith(soft') /\ pending' = 0 /\ UNCHANGED <<asked, next, timer>>
              \/ /\ current /\ ~CanAdvance /\ pending > 1   \* an earlier one may answer late
                 /\ timer' = "budget" /\ pending' = pending - 1 /\ UNCHANGED <<asked, next, ret>>
  /\ UNCHANGED <<hedged, n, launched, spent, slow>>

\* The timer goes off: what is left of the budget was less than a step, or the
\* upstream had its time.
TimerOrdered ==
  /\ Waits /\ ~hedged /\ n > 1
  /\ timer = "budget" => spent
  /\ slow' = slow \cup {next - 1}
  /\ IF CanAdvance THEN Advance /\ pending' = pending + 1 /\ UNCHANGED ret
     ELSE ret' = FinishWith(soft) /\ UNCHANGED <<asked, next, timer, pending>>
  /\ UNCHANGED <<hedged, n, results, launched, soft, lastErr, spent, took>>

-----------------------------------------------------------------------------
(* forwardHedged.                                                          *)

Behind == 2 .. n

\* launchRest: once.
launchRest == Launch(IF launched THEN {} ELSE Behind) /\ launched' = TRUE /\ timer' = "never"
Started    == IF launched THEN 0 ELSE n - 1

HedgeFires ==
  /\ Waits /\ hedged /\ timer = "hedge"
  /\ launchRest /\ pending' = pending + Started /\ slow' = slow \cup {1}
  /\ UNCHANGED <<hedged, n, results, next, soft, lastErr, spent, took, ret>>

TakeHedged ==
  /\ Waits /\ hedged /\ n > 1 /\ Takes
  /\ LET res == Head(results)
     IN \/ /\ res.outcome = "answer" /\ ret' = res /\ pending' = pending - 1
           /\ UNCHANGED <<asked, launched, timer, soft, lastErr>>
        \/ /\ res.outcome # "answer" /\ Remembers(res) /\ launchRest
           /\ pending' = pending - 1 + Started
           /\ ret' = IF pending' = 0 THEN FinishWith(soft') ELSE ret
  /\ UNCHANGED <<hedged, n, next, spent, slow>>

FwNext ==
  \/ \E u \in Ups : ExchangeEnds(u)
  \/ BudgetEnds \/ exchangeOnly \/ TakeOrdered \/ TimerOrdered \/ HedgeFires \/ TakeHedged

FwSpec == FwInit /\ [][FwNext]_fwVars

-----------------------------------------------------------------------------
(* Properties.                                                             *)

Taken(outcomes) == {i \in 1 .. Len(took) : took[i].outcome \in outcomes}
Abandoned       == {u \in Ups : asked[u] # "idle"} \ {took[i].who : i \in 1 .. Len(took)}

\* What the client gets is what the upstreams said: a real answer is returned
\* as soon as it is taken, SERVFAIL is preferred to REFUSED whatever the order
\* of the two, an error is returned only if no upstream sent a message, and the
\* answer is attributed to the upstream that sent it.
BestIsReturned ==
  /\ Waits => Taken({"answer"}) = {}
  /\ ~Waits =>
       /\ ret # Failure => \E i \in 1 .. Len(took) : ret = took[i]
       /\ ret.outcome # "answer" => Taken({"answer"}) = {}
       /\ ret.outcome = "refused" => Taken({"servfail"}) = {}
       /\ ret = Failure => Taken(Outcomes \ {"error"}) = {}

\* An upstream is asked only after every one before it failed or kept the
\* query waiting, once; and the query gives up on an upstream that was asked,
\* or does not ask one, only because its budget is spent.
FailoverIsDue ==
  /\ ~hedged => \A u \in Ups \ {1} : asked[u] # "idle" =>
       \/ u - 1 \in slow
       \/ \E i \in 1 .. Len(took) : took[i].who = u - 1 /\ took[i].outcome # "answer"
  /\ hedged => \A u \in Behind : asked[u] # "idle" => 1 \in slow \/ Taken(Outcomes \ {"answer"}) # {}
  /\ ret.outcome \in {"servfail", "refused", "error"} /\ ~spent =>
       \A u \in Ups : \E i \in 1 .. Len(took) : took[i].who = u

\* Every exchange ends with one result, and the channel has room for it
\* whoever left: no goroutine waits for a reader that is gone.  pending counts
\* those that are out.
NoneBlocks ==
  /\ Len(results) + Cardinality({u \in Ups : asked[u] = "running"}) <= n
  /\ Waits => pending = Cardinality(Abandoned)

\* The parts above, of one query asked of several upstreams.
ForwardingInv == BestIsReturned /\ FailoverIsDue /\ NoneBlocks
=============================================================================
