------------------------------- MODULE Scoring -------------------------------
(***************************************************************************)
(* How the classifier scores the evidence about a domain, and what verdict *)
(* the score gives.                                                        *)
(*                                                                         *)
(* A domain starts at baseLegitimacy.  Risk deducts; trust adds, up to a   *)
(* cap; two floors keep soft signals from sinking a domain that is old or  *)
(* that VirusTotal reports clean.  A domain is blocked when a feed, a      *)
(* service or the model accuses it and its score is low.                   *)
(*                                                                         *)
(* The state is the evidence about one domain: a step changes one piece of *)
(* it, as a feed lists the domain, a lookup ends otherwise or time passes. *)
(* What a factor is made from is kept only as far as its weight depends on *)
(* it; the factors' wording is left out.  The score is checked for every   *)
(* evidence, also for what the worker never puts together because it stops *)
(* asking when what it has is decisive.                                    *)
(***************************************************************************)
EXTENDS Integers

CONSTANTS
  Ages,         \* AgeDays a domain may have, 0 when it is not known
  Hits,         \* numbers of feeds that list a domain
  VTReports,    \* <<malicious, suspicious, harmless>> vendors of VirusTotal
  AbuseScores,  \* confidences of AbuseIPDB
  Confidences,  \* the model's, in percent: whatever number its reply says
  Details,      \* what is known of the registration
  NameSigns,        \* the shapes of the domain's name
  NoReport      \* a service was not asked or did not answer

AllDetails == {"hold", "lock", "registrant", "term", "dnssec"}
Shapes     == {"riskyTLD", "punycode", "hyphens", "digits", "length", "randomness", "lookalike", "brand"}
Zones      == {"Red", "Orange", "Yellow", "Grey", "Green"}

ASSUME ScoringAssumption ==
  /\ Ages \subseteq Int /\ Hits \subseteq Nat
  /\ VTReports \subseteq Nat \X Nat \X Nat /\ AbuseScores \subseteq 0 .. 100
  /\ Confidences \subseteq Nat
  /\ Details \subseteq SUBSET AllDetails /\ NameSigns \subseteq SUBSET Shapes
  /\ NoReport \notin (Nat \X Nat \X Nat) \cup (0 .. 100) \cup Zones

baseLegitimacy   == 85
trustCap         == 40
strongTrustCap   == 10
blockThreshold   == 50
autoThreshold    == 35
establishedFloor == 55
reputationFloor  == 65
establishedDays  == 730

\* ScoreInput, with the model's category reduced to whether it is one to block.
ScoreInput == [hits: Hits, age: Ages, source: {"rdap", "whois"}, details: Details, platform: BOOLEAN,
               owner: BOOLEAN, name: NameSigns, vt: VTReports \cup {NoReport}, abuse: AbuseScores \cup {NoReport},
               zone: Zones \cup {NoReport}, accused: BOOLEAN, confidence: Confidences, listTrusted: BOOLEAN]

VARIABLE in

-----------------------------------------------------------------------------
(* The factors.                                                            *)

Least(a, b)  == IF a < b THEN a ELSE b
Most(a, b)   == IF a < b THEN b ELSE a
If(p, delta) == IF p THEN delta ELSE 0

VTMalicious(e) == IF e.vt = NoReport THEN 0 ELSE e.vt[1]

\* The services' own verdict.
Malicious(e)    == VTMalicious(e) >= 2 \/ (e.abuse # NoReport /\ e.abuse >= 50) \/ e.zone = "Red"
RepMalicious(e) == Malicious(e)
StrongThreat(e) == e.hits >= 2 \/ RepMalicious(e)

ThreatIntel(e) == IF e.hits = 0 THEN 0 ELSE IF e.hits = 1 THEN -45 ELSE IF e.hits = 2 THEN -70 ELSE -90

\* A site on a hosting platform has no registration of its own.
AgeFactor(e) ==
  IF e.platform THEN -10
  ELSE IF e.age <= 0   THEN 0
  ELSE IF e.age < 30   THEN -45
  ELSE IF e.age < 90   THEN -28
  ELSE IF e.age < 180  THEN -15
  ELSE IF e.age < 365  THEN -6
  ELSE IF e.age < establishedDays THEN 0
  ELSE IF e.age < 5 * 365  THEN 8
  ELSE IF e.age < 10 * 365 THEN 14 ELSE 20

\* What plain-text WHOIS says may lower the score and never raises it.
plainWhois(e)        == e.source = "whois"
vouchWhois(e, delta) == IF plainWhois(e) /\ delta > 0 THEN 0 ELSE delta

registrationFactors(e) ==
  If("hold" \in e.details, -20)
    + vouchWhois(e, If("lock" \in e.details, 8)) + vouchWhois(e, If("registrant" \in e.details, 5))
    + vouchWhois(e, If("term" \in e.details, 5)) + vouchWhois(e, If("dnssec" \in e.details, 4))

riskyTLD(e) == If("riskyTLD" \in e.name, -15)

\* A name imitates a brand in one way at most.
brandImpersonationFactor(e) == IF "lookalike" \in e.name THEN -28 ELSE If("brand" \in e.name, -22)

lexicalFactors(e) ==
  If("punycode" \in e.name, -20) + If("hyphens" \in e.name, -8) + If("digits" \in e.name, -8)
    + If("length" \in e.name, -8) + If("randomness" \in e.name, -12) + brandImpersonationFactor(e)

repClean(e) == e.vt # NoReport /\ e.vt[1] = 0 /\ e.vt[2] = 0 /\ e.vt[3] > 0

VirusTotal(e) ==
  IF e.vt = NoReport THEN 0
  ELSE IF e.vt[1] >= 2 THEN -Least(60, e.vt[1] * 12)
  ELSE IF e.vt[2] >= 3 THEN -Least(30, e.vt[2] * 6)
  ELSE If(repClean(e), 10)

AbuseIPDB(e) ==
  IF e.abuse = NoReport THEN 0 ELSE IF e.abuse >= 25 THEN -Least(50, e.abuse \div 2) ELSE If(e.abuse = 0, 3)

KasperskyOpenTIP(e) ==
  IF e.zone = "Red" THEN -60 ELSE IF e.zone = "Orange" THEN -25 ELSE IF e.zone = "Yellow" THEN -12
  ELSE If(e.zone = "Green", 10)

\* The model's read: rounded, and half as sure as can be when it does not say.
ModelAssessment(e) == If(e.accused, -(((IF e.confidence = 0 THEN 50 ELSE e.confidence) + 1) \div 2))

-----------------------------------------------------------------------------
(* The score.                                                              *)

\* What vouches for the domain.
Trust(e) ==
  Most(0, vouchWhois(e, AgeFactor(e))) + If(e.owner, 15)
    + (registrationFactors(e) - If("hold" \in e.details, -20))
    + Most(0, VirusTotal(e)) + If(e.abuse = 0, 3) + If(e.zone = "Green", 10)

\* Changed: trust is capped alike, whatever accuses the domain.
OneCap(e) == trustCap

Cap(e) == IF StrongThreat(e) THEN strongTrustCap ELSE trustCap

Weighed(e) ==
  baseLegitimacy + ThreatIntel(e) + vouchWhois(e, AgeFactor(e)) + If(e.owner, 15) + registrationFactors(e)
    + riskyTLD(e) + lexicalFactors(e) + VirusTotal(e) + AbuseIPDB(e) + KasperskyOpenTIP(e) + ModelAssessment(e)
    + Least(0, Cap(e) - Trust(e))

\* The floors, which only raise.
Established(e, legit) ==
  IF e.age >= establishedDays /\ ~plainWhois(e) /\ ~StrongThreat(e) THEN Most(legit, establishedFloor) ELSE legit
ReportedClean(e, legit) ==
  IF repClean(e) /\ ~StrongThreat(e) THEN Most(legit, reputationFloor) ELSE legit

\* A domain on the trusted list, or of a CDN, is not weighed.
computeScore(e) ==
  IF e.listTrusted THEN 100
  ELSE Most(0, Least(100, ReportedClean(e, Established(e, Weighed(e)))))

\* The verdict of process, in automatic mode.
Candidate(e) == e.accused \/ e.hits > 0 \/ RepMalicious(e)
Block(e)     == ~e.listTrusted /\ Candidate(e) /\ computeScore(e) < blockThreshold
Status(e)    == IF ~Block(e) THEN "clean" ELSE IF computeScore(e) < autoThreshold THEN "auto" ELSE "suggested"

-----------------------------------------------------------------------------

ScoreInit == in \in {e \in ScoreInput : e.hits = 0 /\ e.vt = NoReport /\ e.abuse = NoReport /\ e.zone = NoReport
                                        /\ ~e.accused /\ e.confidence = 0 /\ ~e.listTrusted}

\* A piece of the evidence changes.
Listed     == \E h \in Hits : in' = [in EXCEPT !.hits = h]
GrowsOlder == \E a \in Ages : in.age < a /\ in' = [in EXCEPT !.age = a]
Looked     == \/ \E v \in VTReports \cup {NoReport} : in' = [in EXCEPT !.vt = v]
              \/ \E a \in AbuseScores \cup {NoReport} : in' = [in EXCEPT !.abuse = a]
              \/ \E z \in Zones \cup {NoReport} : in' = [in EXCEPT !.zone = z]
Asked      == \E c \in Confidences, a \in BOOLEAN : in' = [in EXCEPT !.accused = a, !.confidence = c]
Trusts     == in' = [in EXCEPT !.listTrusted = ~@]

ScoreNext == Listed \/ GrowsOlder \/ Looked \/ Asked \/ Trusts
ScoreSpec == ScoreInit /\ [][ScoreNext]_in

-----------------------------------------------------------------------------
(* Properties.                                                             *)

\* Two feeds decide: whatever vouches for a domain that is not trusted, it is
\* blocked, and without a review where that is the mode.
TwoFeedsDecide == in.hits >= 2 /\ ~in.listTrusted => Status(in) = "auto"

\* A lone feed, the model and the look of the name together do not block a
\* domain that is old by its registry's word, or that VirusTotal finds clean.
SoftSignalsSpare ==
  ~StrongThreat(in) /\ ((in.age >= establishedDays /\ ~plainWhois(in)) \/ repClean(in)) => ~Block(in)

\* The model alone never blocks without a review, as sure as it may be: it takes
\* other evidence to bring the score under the threshold.
ModelAloneIsReviewed ==
  in.confidence <= 100 /\ computeScore([in EXCEPT !.accused = FALSE]) >= baseLegitimacy => Status(in) # "auto"

\* Data anyone on the path can forge is worth nothing to who forges it: with
\* plain-text WHOIS the score is not above what it is without registration data.
ForgedWhoisNeverHelps ==
  plainWhois(in) => computeScore(in) <= computeScore([in EXCEPT !.age = 0, !.details = {}])

\* One more feed never raises a score, though it changes the cap and the floors.
MoreFeedsNeverHelp == computeScore([in EXCEPT !.hits = @ + 1]) <= computeScore(in)

\* The parts above: how signals, feeds and the model weigh against each other.
ScoringInv == /\ TwoFeedsDecide /\ SoftSignalsSpare /\ ModelAloneIsReviewed
              /\ ForgedWhoisNeverHelps /\ MoreFeedsNeverHelp
=============================================================================
