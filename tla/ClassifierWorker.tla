--------------------------- MODULE ClassifierWorker ---------------------------
(***************************************************************************)
(* The classifier's worker, the rescans after a threat list is loaded, the *)
(* rescoring of old verdicts, and the administrator who reviews.           *)
(*                                                                         *)
(* A queried domain is queued once an hour and gets a verdict once.  The   *)
(* worker takes one domain at a time; the threat lists are loaded again    *)
(* every hour by another goroutine, which flips the clean verdicts they    *)
(* contradict; at a start, a third removes the verdicts of retired rules   *)
(* and queues their domains.  Verdicts that are enforced are part of the   *)
(* policy the resolver has in force, which is built anew (reload) after a  *)
(* change of theirs.                                                       *)
(*                                                                         *)
(* Steps are database statements, reads of what others change, and loads   *)
(* of lists.  The evidence is what Scoring makes of it: clean, to review,  *)
(* or low enough to block at once.                                         *)
(***************************************************************************)
EXTENDS Naturals, Sequences, FiniteSets, SequencesExt

CONSTANTS
  Domains, NoDomain,
  Popular,       \* domains the trusted list has
  Providers,     \* domains that are infrastructure of a CDN
  Old,           \* domains with a verdict of a retired rule to begin with
  QueueCap,      \* room in the queue
  FirstMode,     \* the mode to begin with
  MaxEvents      \* bound: hours that pass, news of the feeds, reviews, changes of settings, restarts

ASSUME WorkerAssumption ==
  /\ NoDomain \notin Domains /\ Popular \cup Providers \cup Old \subseteq Domains
  /\ QueueCap \in Nat \ {0} /\ FirstMode \in {"off", "suggest", "auto"} /\ MaxEvents \in Nat

VARIABLES
  settings,             \* on, mode, and the domains the operator keeps private
  forwarded, suffixes,  \* domains of forwarders, and the worker's copy of them
  queue, recent,
  row,                  \* classifications
  policy, stale,        \* the domains blocked in force; stale: a reload failed or was left out
  feeds,                \* how many feeds list each domain
  listed, loaded,       \* the threat list in memory, and whether it is that of the settings
  trusts,               \* the trusted list is in memory
  busy,                 \* a load of the threat list runs
  worker, scan, loop, rescorer, admin,   \* the goroutines
  rescored,             \* app_meta: the old verdicts are removed
  owed, failed,         \* domains to score again, and whether their removal failed
  events                \* what the bound counts

cwVars == <<settings, forwarded, suffixes, queue, recent, row, policy, stale, feeds, listed, loaded, trusts,
            busy, worker, scan, loop, rescorer, admin, rescored, owed, failed, events>>

Modes  == {"off", "suggest", "auto"}
Settings == [on : BOOLEAN, mode : Modes, private : SUBSET Domains]
NoRow  == [status |-> "none", trusted |-> FALSE, block |-> FALSE, old |-> FALSE]
Idle   == [at |-> "idle", d |-> NoDomain, mode |-> "off", status |-> "none"]
NoScan == [by |-> "nobody", at |-> "no", todo |-> {}, auto |-> FALSE, flipped |-> FALSE]
Unlisted == [d \in Domains |-> 0]

On(s)   == s.on /\ s.mode # "off"
Happens == events < MaxEvents /\ events' = events + 1

CwInit ==
  /\ settings \in {s \in Settings : s.on /\ s.mode = FirstMode /\ s.private = {}}
  /\ forwarded = {} /\ suffixes = {} /\ queue = <<>> /\ recent = {}
  /\ row = [d \in Domains |-> IF d \in Old THEN [NoRow EXCEPT !.status = "clean", !.trusted = TRUE, !.old = TRUE]
                              ELSE NoRow]
  /\ policy = {} /\ stale = FALSE /\ feeds = Unlisted /\ listed = Unlisted /\ loaded = FALSE /\ trusts = FALSE
  /\ busy = FALSE /\ worker = Idle /\ scan = NoScan /\ loop = "wait"
  /\ rescorer = [at |-> "start", todo |-> {}, queued |-> {}] /\ admin = "idle"
  /\ rescored = FALSE /\ owed = {} /\ failed = FALSE
  /\ events = 0

-----------------------------------------------------------------------------
(* What is never looked at.                                                *)

\* forwarderSuffixes: the copy is at most a minute old, or what it was if the
\* read fails.
forwarderSuffixes(known) == known \in {suffixes, forwarded} /\ suffixes' = known
Excluded(d, known)       == d \in settings.private \cup known

-----------------------------------------------------------------------------
(* Queueing.                                                               *)

Kept == UNCHANGED <<row, policy, stale, feeds, listed, loaded, trusts, busy, scan, loop, admin, rescored, failed>>

\* A full queue drops the domain, which counts as seen all the same.
Enqueue(d) ==
  /\ On(settings) /\ d \notin recent
  /\ \E known \in {suffixes, forwarded} : forwarderSuffixes(known) /\ ~Excluded(d, known)
  /\ recent' = recent \cup {d}
  /\ queue' = IF Len(queue) < QueueCap THEN Append(queue, d) ELSE queue
  /\ Kept /\ UNCHANGED <<settings, forwarded, worker, rescorer, owed, events>>

\* An hour later the domain may be queued again.
pruneLocked(d) ==
  /\ d \in recent /\ Happens /\ recent' = recent \ {d}
  /\ Kept /\ UNCHANGED <<settings, forwarded, suffixes, queue, worker, rescorer, owed>>

-----------------------------------------------------------------------------
(* The store.                                                              *)

\* A row that is there stays.
InsertClassification(d, r) == row' = [row EXCEPT ![d] = IF @ = NoRow THEN r ELSE @]

TrustedCleanVerdicts == {d \in Domains : row[d].status = "clean" /\ row[d].trusted}

CleanDomains == {d \in Domains : row[d].status = "clean" /\ ~row[d].trusted}

\* Changed: whatever has become of the row is overwritten.
FlagAny(d, status) == row[d] # NoRow

\* Only a row that is still clean, and not trusted, is flipped.
FlagThreat(d, status) == row[d].status = "clean" /\ ~row[d].trusted

SetClassificationDecision(d, status) ==
  row' = [row EXCEPT ![d].status = status, ![d].block = (status = "approved")]
DeleteAllClassifications == row' = [d \in Domains |-> NoRow]

ActiveAIBlocked == {d \in Domains : row[d].block /\ row[d].status \in {"approved", "auto"}}

\* The policy is built from the verdicts, or the reload fails unnoticed.
reload == policy' = ActiveAIBlocked /\ stale' = FALSE
ReloadOrFail == reload \/ (stale' = TRUE /\ UNCHANGED policy)

-----------------------------------------------------------------------------
(* Worker.process, of the domain at the head of the queue.                 *)

Others == UNCHANGED <<settings, forwarded, feeds, loop, rescorer, admin, rescored, failed, events>>

\* ensureSync: a load of the threat list that succeeds starts a rescan; one
\* that runs already is not waited for.
ensureSync ==
  /\ trusts' \in {trusts, TRUE}
  /\ \/ UNCHANGED <<listed, loaded, busy, scan>>   \* loaded, busy, or it fails
     \/ /\ ~loaded /\ ~busy
        /\ listed' = feeds /\ loaded' = TRUE /\ busy' = TRUE /\ scan' = [NoScan EXCEPT !.by = "worker", !.at = "list"]

\* The settings, whether it was excluded after it was queued, and the lists.
WorkerRun ==
  /\ worker.at = "idle" /\ scan.by # "worker" /\ queue # <<>>
  /\ queue' = Tail(queue) /\ owed' = owed \ {Head(queue)}
  /\ \E known \in {suffixes, forwarded} :
       /\ forwarderSuffixes(known)
       /\ \/ /\ On(settings) /\ ~Excluded(Head(queue), known) /\ ensureSync
             /\ worker' = [at |-> "look", d |-> Head(queue), mode |-> settings.mode, status |-> "none"]
          \/ /\ ~On(settings) \/ Excluded(Head(queue), known)
             /\ UNCHANGED <<worker, trusts, listed, loaded, busy, scan>>
  /\ Others /\ UNCHANGED <<recent, row, policy, stale>>

Step(at) == worker.at = at /\ scan.by # "worker"
Lists    == UNCHANGED <<suffixes, queue, recent, listed, loaded, trusts, busy, scan, owed>>

IsClassified(d) == row[d] # NoRow

Classified ==
  /\ Step("look") /\ IsClassified(worker.d) /\ worker' = Idle
  /\ Others /\ Lists /\ UNCHANGED <<row, policy, stale>>

\* The shortcut of the trusted list and the CDNs.
cdnInfrastructure(d) == d \in Providers
Shortcut(d)          == (trusts /\ d \in Popular) \/ cdnInfrastructure(d)

recordTrusted ==
  /\ Step("look") /\ ~IsClassified(worker.d) /\ Shortcut(worker.d) /\ worker' = Idle
  /\ InsertClassification(worker.d, [NoRow EXCEPT !.status = "clean", !.trusted = TRUE])
  /\ Others /\ Lists /\ UNCHANGED <<policy, stale>>

\* What the score may say: two feeds leave no choice, and nothing is blocked
\* that no feed, service or model accuses.
Evidence(hits, accused) == IF hits >= 2 THEN {"low"} ELSE IF hits = 1 \/ accused THEN {"clean", "review", "low"}
                           ELSE {"clean"}
StatusOf(score, mode) ==
  IF score = "clean" THEN "clean" ELSE IF score = "low" /\ mode = "auto" THEN "auto" ELSE "suggested"

\* The lookups, and the model, which may fail: then there is no verdict.
Classify ==
  /\ Step("look") /\ ~IsClassified(worker.d) /\ ~Shortcut(worker.d)
  /\ \/ \E accused \in BOOLEAN : \E score \in Evidence(listed[worker.d], accused) :
          worker' = [worker EXCEPT !.at = "insert", !.status = StatusOf(score, worker.mode)]
     \/ listed[worker.d] < 2 /\ worker' = Idle
  /\ Others /\ Lists /\ UNCHANGED <<row, policy, stale>>

process ==
  /\ Step("insert")
  /\ InsertClassification(worker.d, [NoRow EXCEPT !.status = worker.status, !.block = worker.status # "clean"])
  /\ worker' = IF row[worker.d] = NoRow /\ worker.status = "auto" THEN [worker EXCEPT !.at = "reload"] ELSE Idle
  /\ Others /\ Lists /\ UNCHANGED <<policy, stale>>

Enforce ==
  /\ Step("reload") /\ worker' = Idle /\ ReloadOrFail
  /\ Others /\ Lists /\ UNCHANGED row

-----------------------------------------------------------------------------
(* The hourly load of the threat list, and the rescan after every load.    *)

Working == UNCHANGED <<settings, forwarded, suffixes, queue, recent, feeds, worker, rescorer, admin, rescored,
                       owed, failed>>

\* A tick: nothing is loaded while classification is off, and the lists go when
\* it is disabled.
refreshThreatLoop ==
  /\ loop = "wait" /\ Happens
  /\ \/ /\ ~settings.on /\ listed' = Unlisted /\ loaded' = FALSE /\ trusts' = FALSE /\ UNCHANGED <<loop, busy>>
     \/ /\ On(settings) /\ ~busy /\ busy' = TRUE /\ loop' = "load" /\ UNCHANGED <<listed, loaded, trusts>>
  /\ Working /\ UNCHANGED <<row, policy, stale, scan>>

refresh ==
  /\ loop = "load"
  /\ \/ listed' = feeds /\ loaded' = TRUE /\ loop' = "scan" /\ scan' = [NoScan EXCEPT !.by = "loop", !.at = "list"]
        /\ UNCHANGED busy
     \/ loop' = "wait" /\ busy' = FALSE /\ UNCHANGED <<listed, loaded, scan>>   \* it fails
  /\ Working /\ UNCHANGED <<row, policy, stale, trusts, events>>

Scanned(s) == /\ scan' = s
              /\ IF s = NoScan THEN busy' = FALSE /\ loop' = (IF scan.by = "loop" THEN "wait" ELSE loop)
                 ELSE UNCHANGED <<busy, loop>>
              /\ Working /\ UNCHANGED <<listed, loaded, trusts, events>>

\* rescanThreat: the settings and the clean domains are read.
ScanStarts ==
  /\ scan.at = "list"
  /\ Scanned(IF On(settings) /\ CleanDomains # {}
             THEN [scan EXCEPT !.at = "each", !.todo = CleanDomains, !.auto = settings.mode = "auto"] ELSE NoScan)
  /\ UNCHANGED <<row, policy, stale>>

\* Two feeds block in automatic mode; a lone one is sent to review.
rescanThreat(d) ==
  /\ scan.at = "each" /\ d \in scan.todo
  /\ LET hits   == listed[d]
         status == IF hits >= 2 /\ scan.auto THEN "auto" ELSE "suggested"
         flips  == hits > 0 /\ FlagThreat(d, status)
         rest   == [scan EXCEPT !.todo = @ \ {d}, !.flipped = @ \/ (flips /\ status = "auto")]
     IN /\ row' = IF flips THEN [row EXCEPT ![d].status = status, ![d].block = TRUE] ELSE row
        /\ Scanned(IF rest.todo # {} THEN rest ELSE IF rest.flipped THEN [rest EXCEPT !.at = "reload"] ELSE NoScan)
  /\ UNCHANGED <<policy, stale>>

ScanEnds == scan.at = "reload" /\ Scanned(NoScan) /\ ReloadOrFail /\ UNCHANGED row

-----------------------------------------------------------------------------
(* rescoreLegacyTrusted, once after a start with the classifier on.        *)

Rescoring == UNCHANGED <<settings, forwarded, suffixes, policy, stale, feeds, listed, loaded, trusts, busy, worker,
                         scan, loop, admin, events>>

legacyTrustToRescore(d) == row[d].old

rescoreLegacyTrusted ==
  /\ rescorer.at = "start"
  /\ rescorer' = IF ~On(settings) \/ rescored THEN [rescorer EXCEPT !.at = "over"]
                 ELSE [at |-> "delete", queued |-> {},
                       todo |-> {d \in TrustedCleanVerdicts : legacyTrustToRescore(d)}]
  /\ Rescoring /\ UNCHANGED <<row, rescored, queue, recent, owed, failed>>

\* Only what is still trusted and clean goes.
DeletesIfTrusted(d) == d \in TrustedCleanVerdicts

\* If a deletion fails, the rest is
\* left for the next start, and what was deleted is not queued.
DeleteTrustedCleanVerdict(d) ==
  /\ rescorer.at = "delete" /\ d \in rescorer.todo
  /\ LET goes == DeletesIfTrusted(d)
     IN \/ /\ row' = (IF goes THEN [row EXCEPT ![d] = NoRow] ELSE row)
           /\ owed' = (IF goes THEN owed \cup {d} ELSE owed)
           /\ rescorer' = [rescorer EXCEPT !.todo = @ \ {d}, !.queued = IF goes THEN @ \cup {d} ELSE @]
           /\ UNCHANGED failed
        \/ rescorer' = [at |-> "over", todo |-> {}, queued |-> {}] /\ failed' = TRUE /\ UNCHANGED <<row, owed>>
  /\ Rescoring /\ UNCHANGED <<rescored, queue, recent>>

MarkDone ==
  /\ rescorer.at = "delete" /\ rescorer.todo = {} /\ rescored' \in {rescored, TRUE}
  /\ rescorer' = [rescorer EXCEPT !.at = "queue"]
  /\ Rescoring /\ UNCHANGED <<row, queue, recent, owed, failed>>

\* Changed: a full queue drops, as Enqueue does.
RoomOrDrop(d) == queue' = IF Len(queue) < QueueCap THEN Append(queue, d) ELSE queue

\* It waits for room in the queue.
WaitsForRoom(d) == Len(queue) < QueueCap /\ queue' = Append(queue, d)

QueueAll(d) ==
  /\ rescorer.at = "queue" /\ d \in rescorer.queued /\ WaitsForRoom(d)
  /\ recent' = recent \ {d} /\ rescorer' = [rescorer EXCEPT !.queued = @ \ {d}]
  /\ Rescoring /\ UNCHANGED <<row, rescored, owed, failed>>

-----------------------------------------------------------------------------
(* The administrator, the feeds, and restarts.                             *)

Reviewing == UNCHANGED <<forwarded, suffixes, queue, recent, feeds, listed, loaded, trusts, busy, worker, scan, loop,
                         rescorer, rescored, owed, failed>>

\* decideClassification: the decision, then the reload; a dismissal does without.
decideClassification(d) ==
  /\ admin = "idle" /\ row[d] # NoRow /\ Happens
  /\ \/ \E status \in {"approved", "rejected"} :
          /\ SetClassificationDecision(d, status)
          /\ admin' = "reload" /\ UNCHANGED stale
     \/ row' = [row EXCEPT ![d] = NoRow] /\ stale' = TRUE /\ UNCHANGED admin
  /\ Reviewing /\ UNCHANGED <<settings, policy>>

clearClassifications ==
  /\ admin = "idle" /\ Happens
  /\ DeleteAllClassifications /\ admin' = "reload"
  /\ Reviewing /\ UNCHANGED <<settings, policy, stale>>

Decided == admin = "reload" /\ admin' = "idle" /\ ReloadOrFail /\ Reviewing /\ UNCHANGED <<settings, row, events>>

\* putClassifierSettings and setClassifierMode.
SaveSettings ==
  /\ Happens
  /\ \/ \E mode \in Modes : settings' = [settings EXCEPT !.mode = mode]
     \/ settings' = [settings EXCEPT !.on = ~@]
     \/ \E d \in Domains : settings' = [settings EXCEPT !.private = @ \cup {d}]
  /\ Reviewing /\ UNCHANGED <<row, policy, stale, admin>>

Forwards(d) ==
  /\ d \notin forwarded /\ Happens /\ forwarded' = forwarded \cup {d}
  /\ UNCHANGED <<settings, suffixes, queue, recent, row, policy, stale, feeds, listed, loaded, trusts, busy,
                 worker, scan, loop, rescorer, admin, rescored, owed, failed>>

News(d) ==
  /\ feeds[d] < 2 /\ Happens /\ \E hits \in feeds[d] + 1 .. 2 : feeds' = [feeds EXCEPT ![d] = hits]
  /\ UNCHANGED <<settings, forwarded, suffixes, queue, recent, row, policy, stale, listed, loaded, trusts, busy,
                 worker, scan, loop, rescorer, admin, rescored, owed, failed>>

\* Everything in memory is gone; the policy is built at the start.
WorkerRestarts ==
  /\ Happens
  /\ queue' = <<>> /\ recent' = {} /\ suffixes' = forwarded /\ listed' = Unlisted /\ loaded' = FALSE /\ trusts' = FALSE
  /\ busy' = FALSE /\ worker' = Idle /\ scan' = NoScan /\ loop' = "wait" /\ admin' = "idle"
  /\ rescorer' = [at |-> "start", todo |-> {}, queued |-> {}] /\ owed' = {} /\ reload
  /\ UNCHANGED <<settings, forwarded, row, feeds, rescored, failed>>

Review == Decided \/ clearClassifications \/ \E d \in Domains : decideClassification(d)

CwNext ==
  \/ \E d \in Domains : \/ Enqueue(d) \/ pruneLocked(d) \/ rescanThreat(d) \/ DeleteTrustedCleanVerdict(d)
                        \/ QueueAll(d) \/ Forwards(d) \/ News(d)
  \/ WorkerRun \/ Classified \/ recordTrusted \/ Classify \/ process \/ Enforce
  \/ refreshThreatLoop \/ refresh \/ ScanStarts \/ ScanEnds
  \/ rescoreLegacyTrusted \/ MarkDone \/ Review \/ SaveSettings \/ WorkerRestarts

CwSpec == CwInit /\ [][CwNext]_cwVars

-----------------------------------------------------------------------------
(* Properties.                                                             *)

\* Only a review undoes a review: a rescan that listed the domain as clean
\* before, a worker that looked before, and the removal of old verdicts leave
\* the decision alone.
OnlyReviewed == \A d \in Domains : row[d].status \in {"approved", "rejected"} /\ row'[d] # row[d] => Review
ReviewsStand == [][OnlyReviewed]_cwVars

\* A verdict that trusts is never one that blocks, whichever list was loaded
\* last and whatever a rescan took the domain for.
TrustedNeverBlocked == \A d \in Domains : row[d].trusted => row[d].status \notin {"auto", "suggested"}

\* What is blocked in force is what the verdicts say, once those who changed
\* them have built the policy anew; unless that failed, or a verdict that was
\* enforced was dismissed.
PolicyFollowsVerdicts ==
  stale \/ worker.at = "reload" \/ admin = "reload" \/ scan.flipped \/ policy = ActiveAIBlocked

\* A domain whose verdict was removed to score it again is in the queue or
\* about to be, however full it is, unless a removal failed.
RescoredIsQueued == failed \/ owed \subseteq rescorer.queued \cup ToSet(queue)

\* The parts above, of the verdicts, the queue and the policy made of them.
WorkerInv == TrustedNeverBlocked /\ PolicyFollowsVerdicts /\ RescoredIsQueued
===============================================================================
