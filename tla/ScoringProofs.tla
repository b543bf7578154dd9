--------------------------- MODULE ScoringProofs ---------------------------
(* Proofs about what the control plane thinks of domains: how signals, feeds *)
(* and the model weigh against each other, for all evidence, whatever ages,  *)
(* reports and confidences there are; the worker, the rescans and the        *)
(* reviews, for any number of domains and a queue of any length; labels,     *)
(* their counts and what agents block, for any names and databases.          *)
EXTENDS Scoring, ClassifierWorker, Categories, FiniteSetTheorems, TLAPS

-----------------------------------------------------------------------------
(* What the factors may weigh.                                             *)

\* Evidence of the types that the weights depend on.
Weighable(e) ==
  /\ e.hits \in Nat /\ e.age \in Int /\ e.confidence \in Nat
  /\ e.vt # NoReport => e.vt[1] \in Nat /\ e.vt[2] \in Nat /\ e.vt[3] \in Nat
  /\ e.abuse # NoReport => e.abuse \in 0 .. 100
  /\ e.listTrusted \in BOOLEAN

LEMMA InputEvidence == ASSUME NEW e \in ScoreInput PROVE Weighable(e)
BY ScoringAssumption DEF ScoreInput, Weighable

\* The registration's weight, but for the lock the registry put on it.
Vouching(e) ==
  vouchWhois(e, If("lock" \in e.details, 8)) + vouchWhois(e, If("registrant" \in e.details, 5))
    + vouchWhois(e, If("term" \in e.details, 5)) + vouchWhois(e, If("dnssec" \in e.details, 4))

LEMMA AgeRange ==
  ASSUME NEW e, Weighable(e)
  PROVE  vouchWhois(e, AgeFactor(e)) \in -45 .. 20 /\ AgeFactor(e) \in -45 .. 20
BY DEF vouchWhois, AgeFactor, Weighable, establishedDays

LEMMA VouchingRange == ASSUME NEW e PROVE Vouching(e) \in 0 .. 22
BY DEF Vouching, vouchWhois, If

LEMMA NameRange == ASSUME NEW e PROVE riskyTLD(e) \in -15 .. 0 /\ lexicalFactors(e) \in -84 .. 0
BY DEF riskyTLD, lexicalFactors, brandImpersonationFactor, If

LEMMA ServiceRange ==
  ASSUME NEW e, Weighable(e)
  PROVE  /\ VirusTotal(e) \in -60 .. 10 /\ KasperskyOpenTIP(e) \in -60 .. 10 /\ AbuseIPDB(e) \in -50 .. 3
         /\ ModelAssessment(e) \in Int /\ ModelAssessment(e) <= 0
<1>1. VirusTotal(e) \in -60 .. 10
  BY DEF VirusTotal, Least, If, repClean, Weighable
<1>2. KasperskyOpenTIP(e) \in -60 .. 10
  BY DEF KasperskyOpenTIP, If
<1>3. AbuseIPDB(e) \in -50 .. 3
  BY DEF AbuseIPDB, Least, If, Weighable
<1>4. ModelAssessment(e) \in Int /\ ModelAssessment(e) <= 0
  BY DEF ModelAssessment, If, Weighable
<1> QED BY <1>1, <1>2, <1>3, <1>4

-----------------------------------------------------------------------------
(* What a score may be.                                                    *)

\* What is weighed beside feeds, age, registration and the model.
OtherFactors(e) == riskyTLD(e) + lexicalFactors(e) + VirusTotal(e) + AbuseIPDB(e) + KasperskyOpenTIP(e) + If(e.owner, 15)
OtherTrust(e) == If(e.owner, 15) + Most(0, VirusTotal(e)) + If(e.abuse = 0, 3) + If(e.zone = "Green", 10)
Hold(e)   == If("hold" \in e.details, -20)

LEMMA WeighedParts ==
  ASSUME NEW e, Weighable(e)
  PROVE  /\ Trust(e) = Most(0, vouchWhois(e, AgeFactor(e))) + Vouching(e) + OtherTrust(e)
         /\ Weighed(e) = baseLegitimacy + ThreatIntel(e) + vouchWhois(e, AgeFactor(e)) + Hold(e) + Vouching(e)
                         + OtherFactors(e) + ModelAssessment(e) + Least(0, Cap(e) - Trust(e))
         /\ OtherFactors(e) \in Int /\ OtherTrust(e) \in 0 .. 38 /\ OtherFactors(e) <= OtherTrust(e)
         /\ Hold(e) \in {-20, 0} /\ Trust(e) \in Int /\ Cap(e) \in {10, 40} /\ Weighed(e) \in Int
         /\ ThreatIntel(e) \in -90 .. 0
<1> DEFINE A == vouchWhois(e, AgeFactor(e))
           V == Vouching(e)
           H == Hold(e)
           O == If(e.owner, 15)
           T == VirusTotal(e)
           B == AbuseIPDB(e)
           K == KasperskyOpenTIP(e)
           M == ModelAssessment(e)
           B0 == If(e.abuse = 0, 3)
           K0 == If(e.zone = "Green", 10)
<1>1. A \in -45 .. 20 /\ V \in 0 .. 22 /\ T \in -60 .. 10 /\ B \in -50 .. 3 /\ K \in -60 .. 10 /\ M \in Int
      /\ riskyTLD(e) \in -15 .. 0 /\ lexicalFactors(e) \in -84 .. 0
  BY AgeRange, VouchingRange, NameRange, ServiceRange
<1>2. O \in {0, 15} /\ B0 \in {0, 3} /\ K0 \in {0, 10} /\ H \in {-20, 0}
  BY DEF If, Hold
<1>3. B <= B0
  BY DEF AbuseIPDB, If, Least, Weighable
<1>4. K <= K0
  BY DEF KasperskyOpenTIP, If
<1>5. Most(0, T) \in 0 .. 10 /\ T <= Most(0, T) /\ Most(0, A) \in 0 .. 20
  BY <1>1 DEF Most
<1>6. registrationFactors(e) = H + V
  BY <1>2, VouchingRange DEF registrationFactors, Vouching, Hold, vouchWhois, If
<1>7. Cap(e) \in {10, 40}
  BY DEF Cap, strongTrustCap, trustCap
<1>8. ThreatIntel(e) \in -90 .. 0
  BY DEF ThreatIntel
<1> HIDE DEF A, V, H, O, T, B, K, M, B0, K0
<1>9. Trust(e) = Most(0, A) + O + ((H + V) - H) + Most(0, T) + B0 + K0
  BY <1>6 DEF Trust, A, V, H, O, T, B0, K0, Hold
<1>10. OtherTrust(e) = O + Most(0, T) + B0 + K0
  BY DEF OtherTrust, O, T, B0, K0
<1>11. OtherFactors(e) = riskyTLD(e) + lexicalFactors(e) + T + B + K + O
  BY DEF OtherFactors, O, T, B, K
<1>12. Trust(e) = Most(0, A) + V + OtherTrust(e) /\ Trust(e) \in Int
  BY <1>1, <1>2, <1>5, <1>9, <1>10
<1>13. Weighed(e) = baseLegitimacy + ThreatIntel(e) + A + O + (H + V) + riskyTLD(e) + lexicalFactors(e)
                    + T + B + K + M + Least(0, Cap(e) - Trust(e))
  BY <1>6 DEF Weighed, A, O, T, B, K, M
<1>14. Least(0, Cap(e) - Trust(e)) \in Int
  BY <1>7, <1>12 DEF Least
<1>15. OtherFactors(e) \in Int /\ OtherTrust(e) \in 0 .. 38 /\ OtherFactors(e) <= OtherTrust(e)
  <2>1. OtherFactors(e) \in Int
    BY <1>1, <1>2, <1>11
  <2>2. OtherTrust(e) \in 0 .. 38
    BY <1>2, <1>5, <1>10
  <2> DEFINE N == riskyTLD(e)
             X == lexicalFactors(e)
             P == Most(0, T)
  <2>3. /\ N <= 0 /\ X <= 0 /\ T <= P /\ B <= B0 /\ K <= K0
        /\ N \in Int /\ X \in Int /\ T \in Int /\ P \in Int /\ B \in Int /\ B0 \in Int /\ K \in Int /\ K0 \in Int /\ O \in Int
    BY <1>1, <1>2, <1>3, <1>4, <1>5
  <2>4. OtherFactors(e) = N + X + T + B + K + O /\ OtherTrust(e) = O + P + B0 + K0
    BY <1>10, <1>11
  <2> HIDE DEF N, X, P
  <2>5. OtherFactors(e) <= OtherTrust(e)
    BY <2>3, <2>4
  <2> QED BY <2>1, <2>2, <2>5
<1>16. /\ Weighed(e) = baseLegitimacy + ThreatIntel(e) + A + H + V + OtherFactors(e) + M + Least(0, Cap(e) - Trust(e))
       /\ Weighed(e) \in Int
  <2> DEFINE N == riskyTLD(e)
             X == lexicalFactors(e)
             Y == Least(0, Cap(e) - Trust(e))
             I == ThreatIntel(e)
  <2>1. A \in Int /\ V \in Int /\ T \in Int /\ B \in Int /\ K \in Int /\ O \in Int /\ H \in Int /\ N \in Int /\ X \in Int
        /\ M \in Int /\ Y \in Int /\ I \in Int /\ baseLegitimacy \in Int
    BY <1>1, <1>2, <1>8, <1>14 DEF baseLegitimacy
  <2>2. Weighed(e) = baseLegitimacy + I + A + O + (H + V) + N + X + T + B + K + M + Y /\ OtherFactors(e) = N + X + T + B + K + O
    BY <1>11, <1>13
  <2> HIDE DEF N, X, Y, I
  <2>3. Weighed(e) \in Int /\ Weighed(e) = baseLegitimacy + I + A + H + V + OtherFactors(e) + M + Y
    BY <2>1, <2>2
  <2> QED BY <2>3 DEF Y, I
<1> QED BY <1>2, <1>7, <1>8, <1>12, <1>15, <1>16 DEF A, V, H, M

\* The cap bounds what vouches for a domain.
LEMMA WeighedBound == ASSUME NEW e, Weighable(e) PROVE Weighed(e) <= baseLegitimacy + ThreatIntel(e) + Cap(e)
<1> DEFINE A == vouchWhois(e, AgeFactor(e))
           M == ModelAssessment(e)
<1>1. A \in -45 .. 20 /\ Vouching(e) \in 0 .. 22 /\ M \in Int /\ M <= 0
  BY AgeRange, VouchingRange, ServiceRange
<1> HIDE DEF A, M
<1>2. /\ Trust(e) = Most(0, A) + Vouching(e) + OtherTrust(e)
      /\ Weighed(e) = baseLegitimacy + ThreatIntel(e) + A + Hold(e) + Vouching(e) + OtherFactors(e) + M + Least(0, Cap(e) - Trust(e))
      /\ OtherFactors(e) \in Int /\ OtherTrust(e) \in 0 .. 38 /\ OtherFactors(e) <= OtherTrust(e)
      /\ Hold(e) \in {-20, 0} /\ Trust(e) \in Int /\ Cap(e) \in {10, 40} /\ ThreatIntel(e) \in -90 .. 0
  BY WeighedParts DEF A, M
<1>3. Most(0, A) \in Int /\ A <= Most(0, A)
  BY <1>1 DEF Most
<1>4. Least(0, Cap(e) - Trust(e)) \in Int /\ Least(0, Cap(e) - Trust(e)) <= Cap(e) - Trust(e)
  BY <1>2 DEF Least
<1> DEFINE I == ThreatIntel(e)
           V == Vouching(e)
           H == Hold(e)
           X == OtherFactors(e)
           R == OtherTrust(e)
           Y == Least(0, Cap(e) - Trust(e))
           P == Most(0, A)
<1>5. /\ A \in Int /\ V \in Int /\ M \in Int /\ I \in Int /\ H \in Int /\ X \in Int /\ R \in Int /\ Y \in Int /\ P \in Int
      /\ Cap(e) \in Int /\ baseLegitimacy \in Int
  BY <1>1, <1>2, <1>3, <1>4 DEF baseLegitimacy
<1>6. Trust(e) = P + V + R /\ Weighed(e) = baseLegitimacy + I + A + H + V + X + M + Y
  BY <1>2
<1>7. M <= 0 /\ X <= R /\ H <= 0 /\ A <= P /\ Y <= Cap(e) - Trust(e)
  BY <1>1, <1>2, <1>3, <1>4
<1> HIDE DEF I, V, H, X, R, Y, P
<1>8. Weighed(e) <= baseLegitimacy + I + Cap(e)
  BY <1>5, <1>6, <1>7
<1> QED BY <1>8 DEF I

LEMMA ScoreRange ==
  ASSUME NEW e, Weighable(e)
  PROVE  /\ computeScore(e) \in 0 .. 100
         /\ StrongThreat(e) /\ ~ e.listTrusted => computeScore(e) = Most(0, Least(100, Weighed(e)))
<1>1. Weighed(e) \in Int
  BY WeighedParts
<1> QED BY <1>1 DEF computeScore, ReportedClean, Established, Most, Least, establishedFloor, reputationFloor

\* A score falls with what is weighed, if the floors do not come back.
LEMMA ScoreMono ==
  ASSUME NEW e, NEW f, Weighable(e), Weighable(f), Weighed(f) <= Weighed(e), f.listTrusted = e.listTrusted,
         StrongThreat(e) => StrongThreat(f),
         f.age >= establishedDays /\ ~ plainWhois(f) => e.age >= establishedDays /\ ~ plainWhois(e),
         repClean(f) = repClean(e)
  PROVE  computeScore(f) <= computeScore(e)
<1>1. Weighed(e) \in Int /\ Weighed(f) \in Int
  BY WeighedParts
<1>2. Established(e, Weighed(e)) \in Int /\ Established(f, Weighed(f)) \in Int
  BY <1>1 DEF Established, Most, establishedFloor
<1>3. Established(f, Weighed(f)) <= Established(e, Weighed(e))
  BY <1>1 DEF Established, Most, establishedFloor
<1> DEFINE x == Established(e, Weighed(e))
           y == Established(f, Weighed(f))
<1> HIDE DEF x, y
<1>4. x \in Int /\ y \in Int /\ y <= x
  BY <1>2, <1>3 DEF x, y
<1>5. ReportedClean(e, x) \in Int /\ ReportedClean(f, y) \in Int /\ ReportedClean(f, y) <= ReportedClean(e, x)
  BY <1>4 DEF ReportedClean, Most, reputationFloor
<1> DEFINE u == ReportedClean(e, x)
           v == ReportedClean(f, y)
<1> HIDE DEF u, v
<1>6. u \in Int /\ v \in Int /\ v <= u
  BY <1>5 DEF u, v
<1>7. Most(0, Least(100, v)) <= Most(0, Least(100, u))
  BY <1>6 DEF Most, Least
<1> QED BY <1>7 DEF computeScore, u, v, x, y

-----------------------------------------------------------------------------
(* The parts of ScoringInv, for any evidence.                              *)

LEMMA TwoFeeds ==
  ASSUME NEW e, Weighable(e), e.hits >= 2, ~ e.listTrusted
  PROVE  Status(e) = "auto"
<1>1. StrongThreat(e) /\ Candidate(e)
  BY DEF StrongThreat, Candidate, Weighable
<1>2. ThreatIntel(e) <= -70 /\ ThreatIntel(e) \in Int /\ Cap(e) = 10
  BY <1>1 DEF ThreatIntel, Cap, strongTrustCap, Weighable
<1>3. Weighed(e) <= 25 /\ Weighed(e) \in Int
  <2>1. Weighed(e) <= baseLegitimacy + ThreatIntel(e) + Cap(e) /\ Weighed(e) \in Int
    BY WeighedBound, WeighedParts
  <2> QED BY <1>2, <2>1 DEF baseLegitimacy
<1>4. computeScore(e) = Most(0, Least(100, Weighed(e)))
  BY <1>1, ScoreRange
<1>5. computeScore(e) < 35 /\ computeScore(e) < 50
  BY <1>3, <1>4 DEF Most, Least
<1> QED BY <1>1, <1>5 DEF Status, Block, blockThreshold, autoThreshold

LEMMA SoftSignals ==
  ASSUME NEW e, Weighable(e), ~ StrongThreat(e), (e.age >= establishedDays /\ ~ plainWhois(e)) \/ repClean(e)
  PROVE  ~ Block(e)
<1>1. CASE e.listTrusted
  BY <1>1 DEF Block
<1>2. CASE ~ e.listTrusted
  <2>1. Weighed(e) \in Int
    BY WeighedParts
  <2> DEFINE x == Established(e, Weighed(e))
  <2>2. x \in Int /\ (e.age >= establishedDays /\ ~ plainWhois(e) => x >= 55)
    BY <2>1 DEF Established, Most, establishedFloor
  <2> HIDE DEF x
  <2> DEFINE y == ReportedClean(e, x)
  <2>3. y \in Int /\ y >= 55
    BY <2>2 DEF ReportedClean, Most, reputationFloor
  <2>4. computeScore(e) = Most(0, Least(100, y))
    BY <1>2 DEF computeScore, x, y
  <2> HIDE DEF y
  <2>5. computeScore(e) >= 55 /\ computeScore(e) \in Int
    BY <2>3, <2>4 DEF Most, Least
  <2> QED BY <2>5 DEF Block, blockThreshold
<1> QED BY <1>1, <1>2

\* Weighable that is alike in what is named weighs alike.
LEMMA SameServices ==
  ASSUME NEW e, NEW f, f.vt = e.vt, f.abuse = e.abuse, f.zone = e.zone, f.owner = e.owner, f.name = e.name
  PROVE  OtherFactors(f) = OtherFactors(e) /\ OtherTrust(f) = OtherTrust(e) /\ repClean(f) = repClean(e)
         /\ RepMalicious(f) = RepMalicious(e)
BY DEF OtherFactors, OtherTrust, riskyTLD, lexicalFactors, brandImpersonationFactor, VirusTotal, AbuseIPDB, KasperskyOpenTIP,
       repClean, RepMalicious, Malicious, VTMalicious

LEMMA SameRegistration ==
  ASSUME NEW e, NEW f, f.age = e.age, f.source = e.source, f.details = e.details, f.platform = e.platform
  PROVE  /\ vouchWhois(f, AgeFactor(f)) = vouchWhois(e, AgeFactor(e)) /\ plainWhois(f) = plainWhois(e)
         /\ Vouching(f) = Vouching(e) /\ Hold(f) = Hold(e)
<1>1. AgeFactor(f) = AgeFactor(e) /\ plainWhois(f) = plainWhois(e)
  BY DEF AgeFactor, plainWhois
<1>2. \A d : vouchWhois(f, d) = vouchWhois(e, d)
  BY <1>1 DEF vouchWhois
<1> QED BY <1>1, <1>2 DEF Vouching, Hold

LEMMA ModelReviewed ==
  ASSUME NEW e, NEW f, Weighable(e), Weighable(f), e.confidence <= 100, computeScore(f) >= baseLegitimacy,
         ~ f.accused, f.hits = e.hits, f.age = e.age, f.source = e.source, f.details = e.details,
         f.platform = e.platform, f.owner = e.owner, f.name = e.name, f.vt = e.vt, f.abuse = e.abuse,
         f.zone = e.zone, f.listTrusted = e.listTrusted
  PROVE  Status(e) # "auto"
<1>1. CASE e.listTrusted
  BY <1>1 DEF Status, Block
<1>2. CASE ~ e.listTrusted
  <2> DEFINE M == ModelAssessment(e)
             w == Weighed(f)
  <2>1. M \in -50 .. 0 /\ ModelAssessment(f) = 0
    BY DEF ModelAssessment, If, Weighable
  <2>2. Weighed(f) \in Int /\ Weighed(e) \in Int
    BY WeighedParts
  <2>3. Weighed(e) = Weighed(f) + M
    <3>1. ThreatIntel(f) = ThreatIntel(e) /\ Cap(f) = Cap(e) /\ Trust(f) = Trust(e)
      <4>1. ThreatIntel(f) = ThreatIntel(e) /\ Cap(f) = Cap(e)
        BY SameServices DEF ThreatIntel, Cap, StrongThreat
      <4>2. Trust(f) = Trust(e)
        BY SameServices, SameRegistration, WeighedParts
      <4> QED BY <4>1, <4>2
    <3> DEFINE S == baseLegitimacy + ThreatIntel(e) + vouchWhois(e, AgeFactor(e)) + Hold(e) + Vouching(e) + OtherFactors(e)
               Y == Least(0, Cap(e) - Trust(e))
    <3>2. Weighed(e) = S + M + Y
      BY WeighedParts
    <3>3. Weighed(f) = S + 0 + Y
      BY <2>1, <3>1, WeighedParts, SameServices, SameRegistration
    <3>4. S \in Int /\ Y \in Int
      <4>1. /\ ThreatIntel(e) \in Int /\ vouchWhois(e, AgeFactor(e)) \in Int /\ Hold(e) \in Int /\ Vouching(e) \in Int
            /\ OtherFactors(e) \in Int /\ Cap(e) \in Int /\ Trust(e) \in Int /\ baseLegitimacy \in Int
        BY WeighedParts, AgeRange, VouchingRange DEF baseLegitimacy
      <4> QED BY <4>1 DEF Least
    <3> HIDE DEF S, Y
    <3> QED BY <2>1, <3>2, <3>3, <3>4
  <2>4. w >= 85
    <3>1. w \in Int
      BY <2>2
    <3> DEFINE x == Established(f, w)
    <3>2. x \in Int /\ (x >= 85 => w >= 85)
      BY <3>1 DEF Established, Most, establishedFloor
    <3> HIDE DEF x
    <3> DEFINE y == ReportedClean(f, x)
    <3>3. y \in Int /\ (y >= 85 => x >= 85)
      BY <3>2 DEF ReportedClean, Most, reputationFloor
    <3>4. computeScore(f) = Most(0, Least(100, y))
      BY <1>2 DEF computeScore, x, y
    <3> HIDE DEF y
    <3>5. y >= 85
      BY <3>3, <3>4 DEF Most, Least, baseLegitimacy
    <3> QED BY <3>2, <3>3, <3>5
  <2>5. Weighed(e) >= 35
    BY <2>1, <2>2, <2>3, <2>4
  <2>6. computeScore(e) >= 35
    <3> DEFINE z == Weighed(e)
    <3>1. z \in Int /\ z >= 35
      BY <2>2, <2>5
    <3> HIDE DEF z
    <3> DEFINE x == Established(e, z)
    <3>2. x \in Int /\ x >= 35
      BY <3>1 DEF Established, Most, establishedFloor
    <3> HIDE DEF x
    <3> DEFINE y == ReportedClean(e, x)
    <3>3. y \in Int /\ y >= 35
      BY <3>2 DEF ReportedClean, Most, reputationFloor
    <3>4. computeScore(e) = Most(0, Least(100, y))
      BY <1>2 DEF computeScore, x, y, z
    <3> HIDE DEF y
    <3> QED BY <3>3, <3>4 DEF Most, Least
  <2>7. ~ (computeScore(e) < autoThreshold)
    BY <2>6, ScoreRange DEF autoThreshold
  <2> QED BY <2>7 DEF Status
<1> QED BY <1>1, <1>2

LEMMA ForgedWhois ==
  ASSUME NEW e, NEW f, Weighable(e), Weighable(f), plainWhois(e), f.age = 0, f.details = {},
         f.accused = e.accused, f.confidence = e.confidence, f.hits = e.hits, f.source = e.source,
         f.platform = e.platform, f.owner = e.owner, f.name = e.name, f.vt = e.vt, f.abuse = e.abuse,
         f.zone = e.zone, f.listTrusted = e.listTrusted
  PROVE  computeScore(e) <= computeScore(f)
<1>1. plainWhois(f)
  BY DEF plainWhois
<1> DEFINE A == vouchWhois(e, AgeFactor(e))
           B == vouchWhois(f, AgeFactor(f))
<1>2. A \in Int /\ B \in Int /\ A <= B /\ B <= 0
  <2>1. AgeFactor(e) \in -45 .. 20
    BY AgeRange
  <2>2. A \in Int /\ A <= 0
    BY <2>1 DEF vouchWhois
  <2>3. CASE e.platform
    BY <2>2, <2>3 DEF vouchWhois, AgeFactor
  <2>4. CASE ~ e.platform
    <3>1. B = 0
      BY <2>4 DEF vouchWhois, AgeFactor
    <3> QED BY <2>2, <3>1
  <2> QED BY <2>3, <2>4
<1>3. Vouching(e) = 0 /\ Vouching(f) = 0 /\ Hold(e) \in {-20, 0} /\ Hold(f) = 0
  BY <1>1 DEF Vouching, Hold, vouchWhois, If
<1>4. Most(0, A) = 0 /\ Most(0, B) = 0
  BY <1>2 DEF Most
<1>5. OtherFactors(f) = OtherFactors(e) /\ OtherTrust(f) = OtherTrust(e) /\ repClean(f) = repClean(e) /\ RepMalicious(f) = RepMalicious(e)
  BY SameServices
<1>6. StrongThreat(f) = StrongThreat(e)
  BY <1>5 DEF StrongThreat
<1>7. ThreatIntel(f) = ThreatIntel(e) /\ Cap(f) = Cap(e) /\ ModelAssessment(f) = ModelAssessment(e)
  BY <1>6 DEF ThreatIntel, Cap, ModelAssessment
<1>8. Trust(f) = Trust(e)
  BY <1>3, <1>4, <1>5, WeighedParts
<1>9. Weighed(e) <= Weighed(f)
  <2> DEFINE I == ThreatIntel(e)
             X == OtherFactors(e)
             M == ModelAssessment(e)
             Y == Least(0, Cap(e) - Trust(e))
             H == Hold(e)
  <2>1. Weighed(e) = baseLegitimacy + I + A + H + 0 + X + M + Y
    BY <1>3, WeighedParts
  <2>2. Weighed(f) = baseLegitimacy + I + B + 0 + 0 + X + M + Y
    BY <1>3, <1>5, <1>7, <1>8, WeighedParts
  <2>3. I \in Int /\ X \in Int /\ M \in Int /\ H \in Int /\ H <= 0 /\ baseLegitimacy \in Int
    BY <1>3, WeighedParts, ServiceRange DEF baseLegitimacy
  <2>4. Y \in Int
    BY WeighedParts DEF Least
  <2> HIDE DEF A, B, I, X, M, Y, H
  <2> QED BY <1>2, <2>1, <2>2, <2>3, <2>4
<1> QED BY <1>1, <1>5, <1>6, <1>9, ScoreMono

LEMMA MoreFeeds ==
  ASSUME NEW e, NEW f, Weighable(e), Weighable(f), f.hits = e.hits + 1, f.age = e.age, f.details = e.details,
         f.accused = e.accused, f.confidence = e.confidence, f.source = e.source,
         f.platform = e.platform, f.owner = e.owner, f.name = e.name, f.vt = e.vt, f.abuse = e.abuse,
         f.zone = e.zone, f.listTrusted = e.listTrusted
  PROVE  computeScore(f) <= computeScore(e)
<1>1. OtherFactors(f) = OtherFactors(e) /\ OtherTrust(f) = OtherTrust(e) /\ repClean(f) = repClean(e) /\ RepMalicious(f) = RepMalicious(e)
  BY SameServices
<1>2. StrongThreat(e) => StrongThreat(f)
  BY <1>1 DEF StrongThreat, Weighable
<1>3. ThreatIntel(f) <= ThreatIntel(e) /\ ThreatIntel(f) \in Int /\ ThreatIntel(e) \in Int
  BY DEF ThreatIntel, Weighable
<1>4. Cap(f) <= Cap(e) /\ Cap(f) \in Int /\ Cap(e) \in Int
  BY <1>2 DEF Cap, trustCap, strongTrustCap
<1>5. /\ vouchWhois(f, AgeFactor(f)) = vouchWhois(e, AgeFactor(e)) /\ plainWhois(f) = plainWhois(e)
      /\ Vouching(f) = Vouching(e) /\ Hold(f) = Hold(e) /\ ModelAssessment(f) = ModelAssessment(e)
  BY SameRegistration DEF ModelAssessment
<1>6. Trust(f) = Trust(e) /\ Trust(e) \in Int
  BY <1>1, <1>5, WeighedParts
<1>7. Weighed(f) <= Weighed(e)
  <2> DEFINE S == vouchWhois(e, AgeFactor(e))
             H == Hold(e)
             V == Vouching(e)
             X == OtherFactors(e)
             M == ModelAssessment(e)
             Y == Least(0, Cap(e) - Trust(e))
             Z == Least(0, Cap(f) - Trust(e))
             I == ThreatIntel(e)
             J == ThreatIntel(f)
  <2>1. Weighed(e) = baseLegitimacy + I + S + H + V + X + M + Y
    BY WeighedParts
  <2>2. Weighed(f) = baseLegitimacy + J + S + H + V + X + M + Z
    BY <1>1, <1>5, <1>6, WeighedParts
  <2>3. S \in Int /\ H \in Int /\ V \in Int /\ X \in Int /\ M \in Int /\ baseLegitimacy \in Int
    BY WeighedParts, ServiceRange, AgeRange, VouchingRange DEF baseLegitimacy
  <2>4. Y \in Int /\ Z \in Int /\ Z <= Y
    BY <1>4, <1>6 DEF Least
  <2>5. I \in Int /\ J \in Int /\ J <= I
    BY <1>3
  <2> HIDE DEF S, H, V, X, M, Y, Z, I, J
  <2> QED BY <2>1, <2>2, <2>3, <2>4, <2>5
<1> QED BY <1>1, <1>2, <1>5, <1>7, ScoreMono

-----------------------------------------------------------------------------
(* The theorems.                                                           *)

\* The evidence is of the kinds the worker gathers.
InputOK == in \in ScoreInput

LEMMA InputStays == ScoreSpec => []InputOK
<1>1. ScoreInit => InputOK
  BY DEF ScoreInit, InputOK
<1>2. InputOK /\ [ScoreNext]_in => InputOK'
  <2> SUFFICES ASSUME in \in ScoreInput, [ScoreNext]_in PROVE in' \in ScoreInput
    BY DEF InputOK
  <2>1. CASE Listed
    BY <2>1 DEF Listed, ScoreInput
  <2>2. CASE GrowsOlder
    BY <2>2 DEF GrowsOlder, ScoreInput
  <2>3. CASE Looked
    <3>1. CASE \E v \in VTReports \cup {NoReport} : in' = [in EXCEPT !.vt = v]
      BY <3>1 DEF ScoreInput
    <3>2. CASE \E a \in AbuseScores \cup {NoReport} : in' = [in EXCEPT !.abuse = a]
      BY <3>2 DEF ScoreInput
    <3>3. CASE \E z \in Zones \cup {NoReport} : in' = [in EXCEPT !.zone = z]
      BY <3>3 DEF ScoreInput
    <3> QED BY <2>3, <3>1, <3>2, <3>3 DEF Looked
  <2>4. CASE Asked
    BY <2>4 DEF Asked, ScoreInput
  <2>5. CASE Trusts
    BY <2>5 DEF Trusts, ScoreInput
  <2>6. CASE UNCHANGED in
    BY <2>6
  <2> QED BY <2>1, <2>2, <2>3, <2>4, <2>5, <2>6 DEF ScoreNext
<1> QED BY <1>1, <1>2, PTL DEF ScoreSpec

\* What computeScore makes of any evidence: two feeds always block without a
\* review, soft signals never block what is old or clean, the model alone is
\* reviewed, forged registration data never helps, and a feed never helps.
THEOREM ScoreHolds == ScoreSpec => []ScoringInv
<1>1. ASSUME in \in ScoreInput PROVE ScoringInv
  <2>1. Weighable(in)
    BY <1>1, InputEvidence
  <2>2. TwoFeedsDecide
    BY <2>1, TwoFeeds DEF TwoFeedsDecide
  <2>3. SoftSignalsSpare
    BY <2>1, SoftSignals DEF SoftSignalsSpare
  <2>4. ModelAloneIsReviewed
    <3> DEFINE f == [in EXCEPT !.accused = FALSE]
    <3>1. /\ ~ f.accused /\ f.hits = in.hits /\ f.age = in.age /\ f.source = in.source /\ f.details = in.details
          /\ f.platform = in.platform /\ f.owner = in.owner /\ f.name = in.name /\ f.vt = in.vt /\ f.abuse = in.abuse
          /\ f.zone = in.zone /\ f.listTrusted = in.listTrusted /\ f.confidence = in.confidence
      BY <1>1 DEF ScoreInput
    <3> HIDE DEF f
    <3>2. Weighable(f)
      BY <2>1, <3>1 DEF Weighable
    <3>3. in.confidence <= 100 /\ computeScore(f) >= baseLegitimacy => Status(in) # "auto"
      BY <2>1, <3>1, <3>2, ModelReviewed
    <3> QED BY <3>3 DEF ModelAloneIsReviewed, f
  <2>5. ForgedWhoisNeverHelps
    <3> DEFINE f == [in EXCEPT !.age = 0, !.details = {}]
    <3>1. /\ f.age = 0 /\ f.details = {} /\ f.accused = in.accused /\ f.confidence = in.confidence /\ f.hits = in.hits
          /\ f.source = in.source /\ f.platform = in.platform /\ f.owner = in.owner /\ f.name = in.name /\ f.vt = in.vt
          /\ f.abuse = in.abuse /\ f.zone = in.zone /\ f.listTrusted = in.listTrusted
      BY <1>1 DEF ScoreInput
    <3> HIDE DEF f
    <3>2. Weighable(f)
      BY <2>1, <3>1 DEF Weighable
    <3>3. plainWhois(in) => computeScore(in) <= computeScore(f)
      BY <2>1, <3>1, <3>2, ForgedWhois
    <3> QED BY <3>3 DEF ForgedWhoisNeverHelps, f
  <2>6. MoreFeedsNeverHelp
    <3> DEFINE f == [in EXCEPT !.hits = @ + 1]
    <3>1. /\ f.hits = in.hits + 1 /\ f.age = in.age /\ f.details = in.details /\ f.accused = in.accused
          /\ f.confidence = in.confidence /\ f.source = in.source /\ f.platform = in.platform /\ f.owner = in.owner
          /\ f.name = in.name /\ f.vt = in.vt /\ f.abuse = in.abuse /\ f.zone = in.zone /\ f.listTrusted = in.listTrusted
      BY <1>1 DEF ScoreInput
    <3> HIDE DEF f
    <3>2. Weighable(f)
      BY <2>1, <3>1 DEF Weighable
    <3>3. computeScore(f) <= computeScore(in)
      BY <2>1, <3>1, <3>2, MoreFeeds
    <3> QED BY <3>3 DEF MoreFeedsNeverHelp, f
  <2> QED BY <2>2, <2>3, <2>4, <2>5, <2>6 DEF ScoringInv
<1>2. InputOK => ScoringInv
  BY <1>1 DEF InputOK
<1> QED BY <1>2, InputStays, PTL

-----------------------------------------------------------------------------
(* The worker, the rescans and the reviews.                                *)

Verdict  == [status : {"none", "clean", "suggested", "auto", "approved", "rejected"}, trusted : BOOLEAN, block : BOOLEAN,
             old : BOOLEAN]
Task     == [at : {"idle", "look", "insert", "reload"}, d : Domains \cup {NoDomain}, mode : Modes,
             status : {"none", "clean", "suggested", "auto"}]
Rescan   == [by : {"nobody", "worker", "loop"}, at : {"no", "list", "each", "reload"}, todo : SUBSET Domains,
             auto : BOOLEAN, flipped : BOOLEAN]
Rescorer == [at : {"start", "delete", "queue", "over"}, todo : SUBSET Domains, queued : SUBSET Domains]

WorkerTypes ==
  /\ row \in [Domains -> Verdict] /\ queue \in Seq(Domains)
  /\ settings \in Settings
  /\ worker \in Task /\ (worker.at # "idle" => worker.d \in Domains)
  /\ worker.at = "insert" => worker.status # "none"
  /\ scan \in Rescan /\ busy \in BOOLEAN /\ loop \in {"wait", "load", "scan"}
  /\ rescorer \in Rescorer /\ policy \subseteq Domains /\ owed \subseteq Domains
  /\ stale \in BOOLEAN /\ failed \in BOOLEAN /\ admin \in {"idle", "reload"}

\* One load of the threat list at a time, and its rescan is part of it.
OneLoad ==
  /\ scan.at \in {"no", "list"} => ~scan.flipped
  /\ scan.at # "no" => busy /\ loop # "load"
  /\ loop = "load" => busy

\* Nothing is owed before the old verdicts are looked for.
OwedLater == rescorer.at = "start" => owed = {}

WorkerIInv == WorkerTypes /\ OneLoad /\ OwedLater /\ WorkerInv

\* The decisions of a review stay.
DecisionsKept == \A d \in Domains : row[d].status \in {"approved", "rejected"} => row'[d] = row[d]

Active(r) == r.block /\ r.status \in {"approved", "auto"}

LEMMA ToSetAppend ==
  ASSUME NEW s \in Seq(Domains), NEW d \in Domains
  PROVE  Append(s, d) \in Seq(Domains) /\ ToSet(Append(s, d)) = ToSet(s) \cup {d}
<1>1. Append(s, d) \in Seq(Domains) /\ Len(Append(s, d)) = Len(s) + 1 /\ Append(s, d)[Len(s) + 1] = d /\ Len(s) \in Nat
  OBVIOUS
<1>2. \A i \in 1 .. Len(s) : Append(s, d)[i] = s[i]
  OBVIOUS
<1>3. DOMAIN s = 1 .. Len(s) /\ DOMAIN Append(s, d) = 1 .. Len(s) + 1
  BY <1>1
<1>4. \A i : i \in 1 .. Len(s) + 1 <=> i \in 1 .. Len(s) \/ i = Len(s) + 1
  BY <1>1
<1>5. ToSet(Append(s, d)) \subseteq ToSet(s) \cup {d}
  BY <1>1, <1>2, <1>3, <1>4 DEF ToSet
<1>6. ToSet(s) \cup {d} \subseteq ToSet(Append(s, d))
  BY <1>1, <1>2, <1>3, <1>4 DEF ToSet
<1> QED BY <1>1, <1>5, <1>6

LEMMA ToSetTail ==
  ASSUME NEW s \in Seq(Domains), s # <<>>
  PROVE  Tail(s) \in Seq(Domains) /\ Head(s) \in Domains /\ ToSet(s) \subseteq {Head(s)} \cup ToSet(Tail(s))
<1>1. Tail(s) \in Seq(Domains) /\ Head(s) = s[1] /\ Head(s) \in Domains /\ Len(s) \in Nat /\ Len(s) >= 1
      /\ Len(Tail(s)) = Len(s) - 1
  OBVIOUS
<1>2. \A i \in 1 .. Len(s) - 1 : Tail(s)[i] = s[i + 1]
  OBVIOUS
<1>3. DOMAIN s = 1 .. Len(s) /\ DOMAIN Tail(s) = 1 .. Len(s) - 1
  BY <1>1
<1>4. ASSUME NEW i \in 1 .. Len(s), i # 1 PROVE s[i] \in ToSet(Tail(s))
  <2>1. i - 1 \in 1 .. Len(s) - 1 /\ i - 1 + 1 = i
    BY <1>1, <1>4
  <2> QED BY <1>2, <1>3, <2>1 DEF ToSet
<1> QED BY <1>1, <1>3, <1>4 DEF ToSet

LEMMA WorkerStart == CwInit => WorkerIInv
<1> SUFFICES ASSUME CwInit PROVE WorkerIInv
  OBVIOUS
<1>1. NoRow \in Verdict /\ ~NoRow.trusted /\ ~NoRow.block /\ NoRow.status = "none"
  BY DEF NoRow, Verdict
<1>2. \A d \in Domains : /\ row[d] \in Verdict
                         /\ row[d] = [NoRow EXCEPT !.status = "clean", !.trusted = TRUE, !.old = TRUE] \/ row[d] = NoRow
  <2>1. [NoRow EXCEPT !.status = "clean", !.trusted = TRUE, !.old = TRUE] \in Verdict
    BY DEF NoRow, Verdict
  <2> QED BY <1>1, <2>1 DEF CwInit
<1>3. \A d \in Domains : row[d].status \in {"clean", "none"}
  BY <1>1, <1>2 DEF NoRow
<1>4. Idle \in Task /\ Idle.at = "idle"
  BY DEF Idle, Task, Modes
<1>5. NoScan \in Rescan /\ NoScan.at = "no" /\ ~NoScan.flipped
  BY DEF NoScan, Rescan
<1>6. WorkerTypes
  <2>1. rescorer \in Rescorer
    BY DEF CwInit, Rescorer
  <2>2. settings \in Settings
    BY DEF CwInit, Settings
  <2>3. row \in [Domains -> Verdict]
    BY <1>2 DEF CwInit
  <2>4. queue \in Seq(Domains)
    BY DEF CwInit
  <2> QED BY <1>4, <1>5, <2>1, <2>2, <2>3, <2>4 DEF CwInit, WorkerTypes
<1>7. OneLoad /\ OwedLater
  BY <1>5 DEF CwInit, OneLoad, OwedLater
<1>8. WorkerInv
  BY <1>3 DEF CwInit, WorkerInv, TrustedNeverBlocked, PolicyFollowsVerdicts, RescoredIsQueued, ActiveAIBlocked
<1> QED BY <1>6, <1>7, <1>8 DEF WorkerIInv

\* Steps that leave the verdicts and the policy alone, and end no reload.
LEMMA VerdictsStay ==
  ASSUME WorkerIInv, UNCHANGED <<row, policy>>, stale => stale', worker.at = "reload" => worker'.at = "reload",
         admin = "reload" => admin' = "reload", scan.flipped => scan'.flipped
  PROVE  TrustedNeverBlocked' /\ PolicyFollowsVerdicts' /\ DecisionsKept
<1>1. TrustedNeverBlocked' /\ DecisionsKept
  BY DEF WorkerIInv, WorkerInv, TrustedNeverBlocked, DecisionsKept
<1>2. PolicyFollowsVerdicts'
  BY DEF WorkerIInv, WorkerInv, PolicyFollowsVerdicts, ActiveAIBlocked
<1> QED BY <1>1, <1>2

\* Steps that change one verdict.
LEMMA VerdictChanged ==
  ASSUME WorkerIInv, NEW d \in Domains, NEW r \in Verdict, row' = [row EXCEPT ![d] = r]
  PROVE  /\ row' \in [Domains -> Verdict] /\ row'[d] = r /\ \A e \in Domains \ {d} : row'[e] = row[e]
         /\ (r.trusted => r.status \notin {"auto", "suggested"}) => TrustedNeverBlocked'
         /\ (row[d].status \notin {"approved", "rejected"} \/ r = row[d]) => DecisionsKept
         /\ (Active(r) <=> Active(row[d])) => ActiveAIBlocked' = ActiveAIBlocked
<1>1. /\ row' \in [Domains -> Verdict] /\ row'[d] = r /\ \A e \in Domains \ {d} : row'[e] = row[e]
  BY DEF WorkerIInv, WorkerTypes
<1>2. (r.trusted => r.status \notin {"auto", "suggested"}) => TrustedNeverBlocked'
  BY <1>1 DEF WorkerIInv, WorkerInv, TrustedNeverBlocked
<1>3. (row[d].status \notin {"approved", "rejected"} \/ r = row[d]) => DecisionsKept
  BY <1>1 DEF DecisionsKept
<1>4. (Active(r) <=> Active(row[d])) => ActiveAIBlocked' = ActiveAIBlocked
  <2> SUFFICES ASSUME Active(r) <=> Active(row[d]) PROVE ActiveAIBlocked' = ActiveAIBlocked
    OBVIOUS
  <2>1. \A e \in Domains : Active(row'[e]) <=> Active(row[e])
    BY <1>1
  <2>2. ActiveAIBlocked = {e \in Domains : Active(row[e])} /\ ActiveAIBlocked' = {e \in Domains : Active(row'[e])}
    BY DEF ActiveAIBlocked, Active
  <2> QED BY <2>1, <2>2
<1> QED BY <1>1, <1>2, <1>3, <1>4

\* Steps that leave what is owed and the queue alone.
LEMMA OwedStay ==
  ASSUME WorkerIInv, UNCHANGED <<queue, rescorer, owed, failed>>
  PROVE  RescoredIsQueued' /\ OwedLater'
BY DEF WorkerIInv, WorkerInv, RescoredIsQueued, OwedLater

LEMMA LoadStay ==
  ASSUME WorkerIInv, UNCHANGED <<scan, busy, loop>>
  PROVE  OneLoad'
BY DEF WorkerIInv, OneLoad

LEMMA Apart ==
  ASSUME WorkerIInv, UNCHANGED <<row, policy, stale, queue, worker, scan, busy, loop, rescorer, admin, owed, failed>>,
         settings' \in Settings
  PROVE  WorkerIInv' /\ DecisionsKept
<1>1. WorkerTypes'
  BY DEF WorkerIInv, WorkerTypes
<1>2. TrustedNeverBlocked' /\ PolicyFollowsVerdicts' /\ DecisionsKept
  BY VerdictsStay
<1> QED BY <1>1, <1>2, OwedStay, LoadStay DEF WorkerIInv, WorkerInv

LEMMA ApartSteps ==
  ASSUME WorkerIInv, NEW d \in Domains, pruneLocked(d) \/ Forwards(d) \/ News(d)
  PROVE  WorkerIInv' /\ DecisionsKept
<1>1. UNCHANGED <<row, policy, stale, queue, worker, scan, busy, loop, rescorer, admin, owed, failed, settings>>
  BY DEF pruneLocked, Forwards, News, Kept
<1>2. settings' \in Settings
  BY <1>1 DEF WorkerIInv, WorkerTypes
<1> QED BY <1>1, <1>2, Apart

LEMMA SaveSettingsKeeps == ASSUME WorkerIInv, SaveSettings PROVE WorkerIInv' /\ DecisionsKept
<1>1. UNCHANGED <<row, policy, stale, queue, worker, scan, busy, loop, rescorer, admin, owed, failed>>
  BY DEF SaveSettings, Reviewing
<1>2. settings \in Settings
  BY DEF WorkerIInv, WorkerTypes
<1>3. settings' \in Settings
  BY <1>2 DEF SaveSettings, Settings
<1> QED BY <1>1, <1>3, Apart

LEMMA EnqueueKeeps == ASSUME WorkerIInv, NEW d \in Domains, Enqueue(d) PROVE WorkerIInv' /\ DecisionsKept
<1>1. UNCHANGED <<row, policy, stale, worker, scan, busy, loop, rescorer, admin, owed, failed, settings>>
  BY DEF Enqueue, Kept
<1>2. WorkerTypes
  BY DEF WorkerIInv
<1>3. queue' \in Seq(Domains) /\ ToSet(queue) \subseteq ToSet(queue')
  BY <1>2, ToSetAppend DEF Enqueue, WorkerTypes
<1>4. WorkerTypes'
  BY <1>1, <1>2, <1>3 DEF WorkerTypes
<1>5. RescoredIsQueued' /\ OwedLater'
  BY <1>1, <1>3 DEF WorkerIInv, WorkerInv, RescoredIsQueued, OwedLater
<1>6. TrustedNeverBlocked' /\ PolicyFollowsVerdicts' /\ DecisionsKept
  BY <1>1, VerdictsStay
<1>7. OneLoad'
  BY <1>1, LoadStay
<1> QED BY <1>4, <1>5, <1>6, <1>7 DEF WorkerIInv, WorkerInv

LEMMA WorkerRunKeeps == ASSUME WorkerIInv, WorkerRun PROVE WorkerIInv' /\ DecisionsKept
<1>1. WorkerTypes /\ OneLoad
  BY DEF WorkerIInv
<1>2. /\ worker.at = "idle" /\ queue # <<>> /\ queue' = Tail(queue) /\ owed' = owed \ {Head(queue)}
      /\ UNCHANGED <<row, policy, stale, loop, rescorer, admin, failed, settings>>
  BY DEF WorkerRun, Others
<1>3. Tail(queue) \in Seq(Domains) /\ Head(queue) \in Domains /\ ToSet(queue) \subseteq {Head(queue)} \cup ToSet(Tail(queue))
  BY <1>1, <1>2, ToSetTail DEF WorkerTypes
<1>4. worker' = worker \/ worker' = [at |-> "look", d |-> Head(queue), mode |-> settings.mode, status |-> "none"]
  BY DEF WorkerRun
<1>5. worker' \in Task /\ (worker'.at # "idle" => worker'.d \in Domains) /\ worker'.at # "insert"
  <2>1. CASE worker' = worker
    BY <1>1, <1>2, <2>1 DEF WorkerTypes
  <2>2. CASE worker' = [at |-> "look", d |-> Head(queue), mode |-> settings.mode, status |-> "none"]
    BY <1>1, <1>3, <2>2 DEF WorkerTypes, Task, Settings
  <2> QED BY <1>4, <2>1, <2>2
<1>6. \/ UNCHANGED <<busy, scan>>
      \/ ~busy /\ busy' = TRUE /\ scan' = [NoScan EXCEPT !.by = "worker", !.at = "list"]
  BY DEF WorkerRun, ensureSync
<1>7. scan' \in Rescan /\ busy' \in BOOLEAN /\ OneLoad' /\ (scan.flipped => scan'.flipped)
  <2>1. CASE UNCHANGED <<busy, scan>>
    BY <1>1, <1>2, <2>1 DEF WorkerTypes, OneLoad
  <2>2. CASE ~busy /\ busy' = TRUE /\ scan' = [NoScan EXCEPT !.by = "worker", !.at = "list"]
    <3>1. scan' \in Rescan /\ scan'.at = "list" /\ ~scan'.flipped
      BY <2>2 DEF Rescan, NoScan
    <3>2. scan.at = "no" /\ loop # "load" /\ ~scan.flipped
      BY <1>1, <2>2 DEF OneLoad
    <3> QED BY <1>2, <2>2, <3>1, <3>2 DEF OneLoad
  <2> QED BY <1>6, <2>1, <2>2
<1>8. WorkerTypes'
  BY <1>1, <1>2, <1>3, <1>5, <1>7 DEF WorkerTypes
<1>9. RescoredIsQueued' /\ OwedLater'
  BY <1>2, <1>3 DEF WorkerIInv, WorkerInv, RescoredIsQueued, OwedLater
<1>10. TrustedNeverBlocked' /\ PolicyFollowsVerdicts' /\ DecisionsKept
  BY <1>2, <1>7, VerdictsStay
<1> QED BY <1>7, <1>8, <1>9, <1>10 DEF WorkerIInv, WorkerInv

LEMMA IdleIsATask == Idle \in Task /\ Idle.at = "idle"
BY DEF Idle, Task, Modes

LEMMA ClassifiedKeeps == ASSUME WorkerIInv, Classified PROVE WorkerIInv' /\ DecisionsKept
<1>1. /\ worker.at = "look" /\ worker' = Idle
      /\ UNCHANGED <<row, policy, stale, queue, scan, busy, loop, rescorer, admin, owed, failed, settings>>
  BY DEF Classified, Step, Others, Lists
<1>2. WorkerTypes'
  BY <1>1, IdleIsATask DEF WorkerIInv, WorkerTypes
<1>3. TrustedNeverBlocked' /\ PolicyFollowsVerdicts' /\ DecisionsKept
  BY <1>1, VerdictsStay
<1> QED BY <1>1, <1>2, <1>3, OwedStay, LoadStay DEF WorkerIInv, WorkerInv

LEMMA ClassifyKeeps == ASSUME WorkerIInv, Classify PROVE WorkerIInv' /\ DecisionsKept
<1>1. /\ worker.at = "look"
      /\ UNCHANGED <<row, policy, stale, queue, scan, busy, loop, rescorer, admin, owed, failed, settings>>
  BY DEF Classify, Step, Others, Lists
<1>2. worker \in Task /\ worker.d \in Domains
  BY <1>1 DEF WorkerIInv, WorkerTypes
<1>3. \/ worker' = Idle
      \/ \E s \in {"clean", "suggested", "auto"} : worker' = [worker EXCEPT !.at = "insert", !.status = s]
  BY DEF Classify, StatusOf
<1>4. worker' \in Task /\ (worker'.at # "idle" => worker'.d \in Domains) /\ (worker'.at = "insert" => worker'.status # "none")
  <2>1. CASE worker' = Idle
    BY <2>1, IdleIsATask
  <2>2. ASSUME NEW s \in {"clean", "suggested", "auto"}, worker' = [worker EXCEPT !.at = "insert", !.status = s]
        PROVE  worker' \in Task /\ worker'.d \in Domains /\ worker'.status # "none"
    BY <1>2, <2>2 DEF Task
  <2> QED BY <1>3, <2>1, <2>2
<1>5. WorkerTypes'
  BY <1>1, <1>4 DEF WorkerIInv, WorkerTypes
<1>6. TrustedNeverBlocked' /\ PolicyFollowsVerdicts' /\ DecisionsKept
  BY <1>1, VerdictsStay
<1> QED BY <1>1, <1>5, <1>6, OwedStay, LoadStay DEF WorkerIInv, WorkerInv

\* InsertClassification: a row that is there stays.
LEMMA Inserted ==
  ASSUME WorkerIInv, NEW d \in Domains, NEW r \in Verdict, InsertClassification(d, r)
  PROVE  \/ row[d] # NoRow /\ row' = row
         \/ row[d] = NoRow /\ row' = [row EXCEPT ![d] = r]
<1>1. row \in [Domains -> Verdict]
  BY DEF WorkerIInv, WorkerTypes
<1>2. CASE row[d] = NoRow
  BY <1>2 DEF InsertClassification
<1>3. CASE row[d] # NoRow
  BY <1>1, <1>3 DEF InsertClassification
<1> QED BY <1>2, <1>3

LEMMA NoRowIs == NoRow \in Verdict /\ ~NoRow.trusted /\ NoRow.status = "none" /\ ~Active(NoRow)
BY DEF NoRow, Verdict, Active

LEMMA TrustedKeeps == ASSUME WorkerIInv, recordTrusted PROVE WorkerIInv' /\ DecisionsKept
<1>1. /\ worker.at = "look" /\ worker' = Idle
      /\ UNCHANGED <<policy, stale, queue, scan, busy, loop, rescorer, admin, owed, failed, settings>>
  BY DEF recordTrusted, Step, Others, Lists
<1>2. PICK d \in Domains : d = worker.d
  BY <1>1 DEF WorkerIInv, WorkerTypes
<1>3. PICK r \in Verdict : r = [NoRow EXCEPT !.status = "clean", !.trusted = TRUE]
  BY DEF NoRow, Verdict
<1>4. r.status = "clean" /\ ~Active(r)
  BY <1>3 DEF NoRow, Active
<1>5. \/ row[d] # NoRow /\ row' = row
      \/ row[d] = NoRow /\ row' = [row EXCEPT ![d] = r]
  <2>1. InsertClassification(d, r)
    BY <1>2, <1>3 DEF recordTrusted
  <2> QED BY <2>1, Inserted
<1>6. row' \in [Domains -> Verdict] /\ TrustedNeverBlocked' /\ DecisionsKept /\ PolicyFollowsVerdicts'
  <2>1. CASE row' = row
    BY <1>1, <2>1, VerdictsStay DEF WorkerIInv, WorkerTypes
  <2>2. CASE row[d] = NoRow /\ row' = [row EXCEPT ![d] = r]
    <3>1. row' \in [Domains -> Verdict] /\ TrustedNeverBlocked' /\ DecisionsKept /\ ActiveAIBlocked' = ActiveAIBlocked
      BY <1>4, <2>2, NoRowIs, VerdictChanged
    <3> QED BY <1>1, <3>1 DEF WorkerIInv, WorkerInv, PolicyFollowsVerdicts
  <2> QED BY <1>5, <2>1, <2>2
<1>7. WorkerTypes'
  BY <1>1, <1>6, IdleIsATask DEF WorkerIInv, WorkerTypes
<1> QED BY <1>1, <1>6, <1>7, OwedStay, LoadStay DEF WorkerIInv, WorkerInv

LEMMA ProcessKeeps == ASSUME WorkerIInv, process PROVE WorkerIInv' /\ DecisionsKept
<1>1. /\ worker.at = "insert"
      /\ UNCHANGED <<policy, stale, queue, scan, busy, loop, rescorer, admin, owed, failed, settings>>
  BY DEF process, Step, Others, Lists
<1>2. worker \in Task /\ worker.status # "none" /\ worker.d \in Domains
  BY <1>1 DEF WorkerIInv, WorkerTypes
<1>3. PICK d \in Domains : d = worker.d
  BY <1>2
<1>4. PICK s \in {"clean", "suggested", "auto"} : s = worker.status
  BY <1>2 DEF Task
<1>5. PICK b \in BOOLEAN : b = (s # "clean")
  OBVIOUS
<1>6. PICK r \in Verdict : r = [NoRow EXCEPT !.status = s, !.block = b]
  BY DEF NoRow, Verdict
<1>7. r.status = s /\ ~r.trusted /\ (s # "auto" => ~Active(r))
  BY <1>6 DEF NoRow, Active
<1>8. \/ row[d] # NoRow /\ row' = row
      \/ row[d] = NoRow /\ row' = [row EXCEPT ![d] = r]
  <2>1. InsertClassification(d, r)
    BY <1>3, <1>4, <1>5, <1>6 DEF process
  <2> QED BY <2>1, Inserted
<1>9. /\ row[d] = NoRow /\ s = "auto" => worker' = [worker EXCEPT !.at = "reload"]
      /\ ~(row[d] = NoRow /\ s = "auto") => worker' = Idle
  BY <1>3, <1>4 DEF process
<1>10. worker' \in Task /\ (worker'.at # "idle" => worker'.d \in Domains) /\ worker'.at # "insert"
       /\ (row[d] = NoRow /\ s = "auto" => worker'.at = "reload")
  BY <1>2, <1>9, IdleIsATask DEF Task
<1>11. row' \in [Domains -> Verdict] /\ TrustedNeverBlocked' /\ DecisionsKept /\ PolicyFollowsVerdicts'
  <2>1. CASE row' = row
    BY <1>1, <2>1, VerdictsStay DEF WorkerIInv, WorkerTypes
  <2>2. CASE row[d] = NoRow /\ row' = [row EXCEPT ![d] = r]
    <3>1. row' \in [Domains -> Verdict] /\ TrustedNeverBlocked' /\ DecisionsKept
      BY <1>7, <2>2, NoRowIs, VerdictChanged
    <3>2. CASE s = "auto"
      BY <1>10, <2>2, <3>1, <3>2 DEF PolicyFollowsVerdicts
    <3>3. CASE s # "auto"
      <4>1. ActiveAIBlocked' = ActiveAIBlocked
        BY <1>7, <2>2, <3>3, NoRowIs, VerdictChanged
      <4> QED BY <1>1, <3>1, <4>1 DEF WorkerIInv, WorkerInv, PolicyFollowsVerdicts
    <3> QED BY <3>2, <3>3
  <2> QED BY <1>8, <2>1, <2>2
<1>12. WorkerTypes'
  BY <1>1, <1>10, <1>11 DEF WorkerIInv, WorkerTypes
<1> QED BY <1>1, <1>11, <1>12, OwedStay, LoadStay DEF WorkerIInv, WorkerInv

\* Once the policy is built, or that has failed, it is what the verdicts say.
LEMMA Reloaded ==
  ASSUME WorkerIInv, ReloadOrFail, row' = row
  PROVE  /\ TrustedNeverBlocked' /\ PolicyFollowsVerdicts' /\ DecisionsKept
         /\ policy' \subseteq Domains /\ stale' \in BOOLEAN
<1>1. ActiveAIBlocked' = ActiveAIBlocked /\ ActiveAIBlocked \subseteq Domains
  BY DEF ActiveAIBlocked
<1>2. PolicyFollowsVerdicts' /\ policy' \subseteq Domains /\ stale' \in BOOLEAN
  BY <1>1 DEF ReloadOrFail, reload, PolicyFollowsVerdicts, WorkerIInv, WorkerTypes
<1>3. TrustedNeverBlocked' /\ DecisionsKept
  BY DEF WorkerIInv, WorkerInv, TrustedNeverBlocked, DecisionsKept
<1> QED BY <1>2, <1>3

LEMMA EnforceKeeps == ASSUME WorkerIInv, Enforce PROVE WorkerIInv' /\ DecisionsKept
<1>1. /\ worker' = Idle /\ ReloadOrFail
      /\ UNCHANGED <<row, queue, scan, busy, loop, rescorer, admin, owed, failed, settings>>
  BY DEF Enforce, Others, Lists
<1>2. /\ TrustedNeverBlocked' /\ PolicyFollowsVerdicts' /\ DecisionsKept
      /\ policy' \subseteq Domains /\ stale' \in BOOLEAN
  BY <1>1, Reloaded
<1>3. WorkerTypes'
  BY <1>1, <1>2, IdleIsATask DEF WorkerIInv, WorkerTypes
<1> QED BY <1>1, <1>2, <1>3, OwedStay, LoadStay DEF WorkerIInv, WorkerInv

LEMMA DecidedKeeps == ASSUME WorkerIInv, Decided PROVE WorkerIInv' /\ DecisionsKept
<1>1. /\ admin' = "idle" /\ ReloadOrFail
      /\ UNCHANGED <<row, queue, scan, busy, loop, rescorer, worker, owed, failed, settings>>
  BY DEF Decided, Reviewing
<1>2. /\ TrustedNeverBlocked' /\ PolicyFollowsVerdicts' /\ DecisionsKept
      /\ policy' \subseteq Domains /\ stale' \in BOOLEAN
  BY <1>1, Reloaded
<1>3. WorkerTypes'
  BY <1>1, <1>2 DEF WorkerIInv, WorkerTypes
<1> QED BY <1>1, <1>2, <1>3, OwedStay, LoadStay DEF WorkerIInv, WorkerInv

LEMMA NoScanIs == NoScan \in Rescan /\ NoScan.at = "no" /\ ~NoScan.flipped
BY DEF NoScan, Rescan

LEMMA HourlyKeeps == ASSUME WorkerIInv, refreshThreatLoop PROVE WorkerIInv' /\ DecisionsKept
<1>1. UNCHANGED <<row, policy, stale, queue, worker, scan, rescorer, admin, owed, failed, settings>>
  BY DEF refreshThreatLoop, Working
<1>2. /\ loop = "wait"
      /\ \/ UNCHANGED <<loop, busy>>
         \/ ~busy /\ busy' = TRUE /\ loop' = "load"
  BY DEF refreshThreatLoop
<1>3. OneLoad' /\ busy' \in BOOLEAN /\ loop' \in {"wait", "load", "scan"}
  BY <1>1, <1>2 DEF WorkerIInv, WorkerTypes, OneLoad
<1>4. WorkerTypes'
  BY <1>1, <1>3 DEF WorkerIInv, WorkerTypes
<1>5. TrustedNeverBlocked' /\ PolicyFollowsVerdicts' /\ DecisionsKept
  BY <1>1, VerdictsStay
<1> QED BY <1>1, <1>3, <1>4, <1>5, OwedStay DEF WorkerIInv, WorkerInv

LEMMA LoadKeepsVerdicts == ASSUME WorkerIInv, refresh PROVE WorkerIInv' /\ DecisionsKept
<1>1. UNCHANGED <<row, policy, stale, queue, worker, rescorer, admin, owed, failed, settings>>
  BY DEF refresh, Working
<1>2. /\ loop = "load"
      /\ \/ /\ loop' = "scan" /\ scan' = [NoScan EXCEPT !.by = "loop", !.at = "list"] /\ UNCHANGED busy
         \/ loop' = "wait" /\ busy' = FALSE /\ UNCHANGED scan
  BY DEF refresh
<1>3. busy /\ scan.at = "no" /\ ~scan.flipped /\ scan \in Rescan /\ busy \in BOOLEAN
  BY <1>2 DEF WorkerIInv, WorkerTypes, OneLoad, Rescan
<1>4. [NoScan EXCEPT !.by = "loop", !.at = "list"] \in Rescan /\ ~[NoScan EXCEPT !.by = "loop", !.at = "list"].flipped
      /\ [NoScan EXCEPT !.by = "loop", !.at = "list"].at = "list"
  BY DEF NoScan, Rescan
<1>5. OneLoad' /\ scan' \in Rescan /\ busy' \in BOOLEAN /\ loop' \in {"wait", "load", "scan"}
  BY <1>2, <1>3, <1>4 DEF OneLoad
<1>6. WorkerTypes'
  BY <1>1, <1>5 DEF WorkerIInv, WorkerTypes
<1>7. TrustedNeverBlocked' /\ PolicyFollowsVerdicts' /\ DecisionsKept
  BY <1>1, <1>3, VerdictsStay
<1> QED BY <1>1, <1>5, <1>6, <1>7, OwedStay DEF WorkerIInv, WorkerInv

\* A rescan goes on or ends.
LEMMA ScannedKeeps ==
  ASSUME WorkerIInv, scan.at # "no", NEW s \in Rescan, Scanned(s),
         s = NoScan \/ s.at = "each" \/ s.at = "reload"
  PROVE  /\ OneLoad' /\ scan' = s /\ busy' \in BOOLEAN /\ loop' \in {"wait", "load", "scan"}
         /\ UNCHANGED <<queue, worker, rescorer, admin, owed, failed, settings>>
<1>1. scan' = s /\ UNCHANGED <<queue, worker, rescorer, admin, owed, failed, settings>>
  BY DEF Scanned, Working
<1>2. busy /\ busy \in BOOLEAN /\ loop \in {"wait", "load", "scan"} /\ loop # "load"
  BY DEF WorkerIInv, WorkerTypes, OneLoad
<1>3. CASE s = NoScan
  <2>1. busy' = FALSE /\ loop' \in {"wait", loop}
    BY <1>3 DEF Scanned
  <2> QED BY <1>1, <1>2, <1>3, <2>1, NoScanIs DEF OneLoad
<1>4. CASE s # NoScan
  <2>1. busy' = busy /\ loop' = loop
    BY <1>4 DEF Scanned
  <2> QED BY <1>1, <1>2, <1>4, <2>1 DEF OneLoad
<1> QED BY <1>3, <1>4

LEMMA ScanStartsKeeps == ASSUME WorkerIInv, ScanStarts PROVE WorkerIInv' /\ DecisionsKept
<1>1. scan.at = "list" /\ UNCHANGED <<row, policy, stale>>
  BY DEF ScanStarts
<1>2. scan \in Rescan /\ ~scan.flipped
  BY <1>1 DEF WorkerIInv, WorkerTypes, OneLoad
<1>3. PICK auto \in BOOLEAN : auto = (settings.mode = "auto")
  OBVIOUS
<1>4. CleanDomains \in SUBSET Domains
  BY DEF CleanDomains
<1>5. PICK each \in Rescan : each = [scan EXCEPT !.at = "each", !.todo = CleanDomains, !.auto = auto]
  BY <1>2, <1>4 DEF Rescan
<1>6. each.at = "each"
  BY <1>2, <1>5 DEF Rescan
<1>7. Scanned(each) \/ Scanned(NoScan)
  <2>1. CASE On(settings) /\ CleanDomains # {}
    BY <1>3, <1>5, <2>1 DEF ScanStarts
  <2>2. CASE ~(On(settings) /\ CleanDomains # {})
    BY <2>2 DEF ScanStarts
  <2> QED BY <2>1, <2>2
<1>8. /\ OneLoad' /\ scan' \in Rescan /\ busy' \in BOOLEAN /\ loop' \in {"wait", "load", "scan"}
      /\ UNCHANGED <<queue, worker, rescorer, admin, owed, failed, settings>>
  BY <1>1, <1>6, <1>7, NoScanIs, ScannedKeeps
<1>9. WorkerTypes'
  BY <1>1, <1>8 DEF WorkerIInv, WorkerTypes
<1>10. TrustedNeverBlocked' /\ PolicyFollowsVerdicts' /\ DecisionsKept
  BY <1>1, <1>2, <1>8, VerdictsStay
<1> QED BY <1>8, <1>9, <1>10, OwedStay DEF WorkerIInv, WorkerInv

LEMMA ScanEndsKeeps == ASSUME WorkerIInv, ScanEnds PROVE WorkerIInv' /\ DecisionsKept
<1>1. scan.at = "reload" /\ Scanned(NoScan) /\ ReloadOrFail /\ row' = row
  BY DEF ScanEnds
<1>2. /\ OneLoad' /\ scan' \in Rescan /\ busy' \in BOOLEAN /\ loop' \in {"wait", "load", "scan"}
      /\ UNCHANGED <<queue, worker, rescorer, admin, owed, failed, settings>>
  BY <1>1, NoScanIs, ScannedKeeps
<1>3. /\ TrustedNeverBlocked' /\ PolicyFollowsVerdicts' /\ DecisionsKept
      /\ policy' \subseteq Domains /\ stale' \in BOOLEAN
  BY <1>1, Reloaded
<1>4. WorkerTypes'
  BY <1>1, <1>2, <1>3 DEF WorkerIInv, WorkerTypes
<1> QED BY <1>2, <1>3, <1>4, OwedStay DEF WorkerIInv, WorkerInv

LEMMA RescanKeeps == ASSUME WorkerIInv, NEW d \in Domains, rescanThreat(d) PROVE WorkerIInv' /\ DecisionsKept
<1>1. scan.at = "each" /\ UNCHANGED <<policy, stale>>
  BY DEF rescanThreat
<1>2. scan \in Rescan /\ row \in [Domains -> Verdict] /\ row[d] \in Verdict
  BY DEF WorkerIInv, WorkerTypes
<1>3. PICK status \in {"auto", "suggested"} : status = IF listed[d] >= 2 /\ scan.auto THEN "auto" ELSE "suggested"
  OBVIOUS
<1>4. PICK flips \in BOOLEAN : flips = (listed[d] > 0 /\ FlagThreat(d, status))
  OBVIOUS
<1>5. PICK flipped \in BOOLEAN : flipped = (scan.flipped \/ (flips /\ status = "auto"))
  OBVIOUS
<1>6. PICK rest \in Rescan : rest = [scan EXCEPT !.todo = @ \ {d}, !.flipped = flipped]
  BY <1>2 DEF Rescan
<1>7. rest.at = "each" /\ rest.flipped = flipped
  BY <1>1, <1>2, <1>6 DEF Rescan
<1>8. PICK last \in Rescan : last = [rest EXCEPT !.at = "reload"]
  BY DEF Rescan
<1>9. last.at = "reload" /\ last.flipped = flipped
  BY <1>7, <1>8 DEF Rescan
<1>10. /\ row' = IF flips THEN [row EXCEPT ![d].status = status, ![d].block = TRUE] ELSE row
       /\ Scanned(IF rest.todo # {} THEN rest ELSE IF rest.flipped THEN last ELSE NoScan)
  BY <1>3, <1>4, <1>5, <1>6, <1>8 DEF rescanThreat
<1>11. PICK s \in Rescan : /\ Scanned(s) /\ (s = rest \/ s = last \/ (s = NoScan /\ ~flipped))
  BY <1>7, <1>10, NoScanIs
<1>12. /\ OneLoad' /\ scan' = s /\ busy' \in BOOLEAN /\ loop' \in {"wait", "load", "scan"}
       /\ UNCHANGED <<queue, worker, rescorer, admin, owed, failed, settings>>
  BY <1>1, <1>7, <1>9, <1>11, ScannedKeeps
<1>13. flipped => scan'.flipped
  BY <1>7, <1>9, <1>11, <1>12
<1>14. row' \in [Domains -> Verdict] /\ TrustedNeverBlocked' /\ DecisionsKept /\ PolicyFollowsVerdicts'
  <2>1. CASE ~flips
    <3>1. row' = row /\ (scan.flipped => scan'.flipped)
      BY <1>5, <1>10, <1>13, <2>1
    <3> QED BY <1>1, <1>2, <1>12, <3>1, VerdictsStay
  <2>2. CASE flips
    <3>1. row[d].status = "clean" /\ ~row[d].trusted
      BY <1>4, <2>2 DEF FlagThreat
    <3>2. PICK r \in Verdict : r = [row[d] EXCEPT !.status = status, !.block = TRUE]
      BY <1>2 DEF Verdict
    <3>3. r.status = status /\ ~r.trusted
      BY <1>2, <3>1, <3>2 DEF Verdict
    <3>4. row' = [row EXCEPT ![d] = r]
      BY <1>2, <1>10, <2>2, <3>2
    <3>5. row' \in [Domains -> Verdict] /\ TrustedNeverBlocked' /\ DecisionsKept
      BY <3>1, <3>3, <3>4, VerdictChanged
    <3>6. CASE status = "auto"
      BY <1>5, <1>13, <2>2, <3>5, <3>6 DEF PolicyFollowsVerdicts
    <3>7. CASE status = "suggested"
      <4>1. ~Active(r) /\ ~Active(row[d])
        BY <3>1, <3>3, <3>7 DEF Active
      <4>2. ActiveAIBlocked' = ActiveAIBlocked
        BY <3>4, <4>1, VerdictChanged
      <4>3. scan.flipped => scan'.flipped
        BY <1>5, <1>13
      <4> QED BY <1>1, <1>12, <3>5, <4>2, <4>3 DEF WorkerIInv, WorkerInv, PolicyFollowsVerdicts
    <3> QED BY <3>6, <3>7
  <2> QED BY <2>1, <2>2
<1>15. WorkerTypes'
  BY <1>1, <1>12, <1>14 DEF WorkerIInv, WorkerTypes
<1> QED BY <1>12, <1>14, <1>15, OwedStay DEF WorkerIInv, WorkerInv

LEMMA RescoreKeeps == ASSUME WorkerIInv, rescoreLegacyTrusted PROVE WorkerIInv' /\ DecisionsKept
<1>1. /\ rescorer.at = "start"
      /\ UNCHANGED <<row, policy, stale, queue, worker, scan, busy, loop, admin, owed, failed, settings>>
  BY DEF rescoreLegacyTrusted, Rescoring
<1>2. owed = {} /\ rescorer \in Rescorer
  BY <1>1 DEF WorkerIInv, OwedLater, WorkerTypes
<1>3. {d \in TrustedCleanVerdicts : legacyTrustToRescore(d)} \subseteq Domains
  BY DEF TrustedCleanVerdicts
<1>4. rescorer' \in Rescorer
  BY <1>2, <1>3 DEF rescoreLegacyTrusted, Rescorer
<1>5. WorkerTypes'
  BY <1>1, <1>4 DEF WorkerIInv, WorkerTypes
<1>6. RescoredIsQueued' /\ OwedLater'
  BY <1>1, <1>2 DEF RescoredIsQueued, OwedLater
<1>7. TrustedNeverBlocked' /\ PolicyFollowsVerdicts' /\ DecisionsKept
  BY <1>1, VerdictsStay
<1> QED BY <1>1, <1>5, <1>6, <1>7, LoadStay DEF WorkerIInv, WorkerInv

LEMMA DeleteKeeps == ASSUME WorkerIInv, NEW d \in Domains, DeleteTrustedCleanVerdict(d) PROVE WorkerIInv' /\ DecisionsKept
<1>1. /\ rescorer.at = "delete"
      /\ UNCHANGED <<policy, stale, queue, worker, scan, busy, loop, admin, settings>>
  BY DEF DeleteTrustedCleanVerdict, Rescoring
<1>2. rescorer \in Rescorer /\ row \in [Domains -> Verdict] /\ owed \subseteq Domains /\ failed \in BOOLEAN
  BY DEF WorkerIInv, WorkerTypes
<1>3. DeletesIfTrusted(d) => row[d].status = "clean"
  BY DEF DeletesIfTrusted, TrustedCleanVerdicts
<1>4. \/ /\ DeletesIfTrusted(d) /\ row' = [row EXCEPT ![d] = NoRow] /\ owed' = owed \cup {d} /\ failed' = failed
         /\ rescorer' = [rescorer EXCEPT !.todo = @ \ {d}, !.queued = @ \cup {d}]
      \/ /\ ~DeletesIfTrusted(d) /\ UNCHANGED <<row, owed, failed>>
         /\ rescorer' = [rescorer EXCEPT !.todo = @ \ {d}, !.queued = @]
      \/ rescorer' = [at |-> "over", todo |-> {}, queued |-> {}] /\ failed' = TRUE /\ UNCHANGED <<row, owed>>
  BY DEF DeleteTrustedCleanVerdict
<1>5. failed \/ owed \subseteq rescorer.queued \cup ToSet(queue)
  BY DEF WorkerIInv, WorkerInv, RescoredIsQueued
<1>6. /\ rescorer' \in Rescorer /\ rescorer'.at # "start" /\ owed' \subseteq Domains /\ failed' \in BOOLEAN
      /\ RescoredIsQueued'
  <2>1. CASE /\ DeletesIfTrusted(d) /\ owed' = owed \cup {d} /\ failed' = failed
             /\ rescorer' = [rescorer EXCEPT !.todo = @ \ {d}, !.queued = @ \cup {d}]
    <3>1. rescorer' \in Rescorer /\ rescorer'.at = "delete" /\ rescorer'.queued = rescorer.queued \cup {d}
      BY <1>1, <1>2, <2>1 DEF Rescorer
    <3> QED BY <1>1, <1>2, <1>5, <2>1, <3>1 DEF RescoredIsQueued
  <2>2. CASE /\ UNCHANGED <<row, owed, failed>>
             /\ rescorer' = [rescorer EXCEPT !.todo = @ \ {d}, !.queued = @]
    <3>1. rescorer' \in Rescorer /\ rescorer'.at = "delete" /\ rescorer'.queued = rescorer.queued
      BY <1>1, <1>2, <2>2 DEF Rescorer
    <3> QED BY <1>1, <1>2, <1>5, <2>2, <3>1 DEF RescoredIsQueued
  <2>3. CASE rescorer' = [at |-> "over", todo |-> {}, queued |-> {}] /\ failed' = TRUE /\ UNCHANGED <<row, owed>>
    <3>1. rescorer' \in Rescorer /\ rescorer'.at = "over"
      BY <2>3 DEF Rescorer
    <3> QED BY <1>2, <2>3, <3>1 DEF RescoredIsQueued
  <2> QED BY <1>4, <2>1, <2>2, <2>3
<1>7. row' \in [Domains -> Verdict] /\ TrustedNeverBlocked' /\ DecisionsKept /\ PolicyFollowsVerdicts'
  <2>1. CASE row' = row
    BY <1>1, <1>2, <2>1, VerdictsStay
  <2>2. CASE DeletesIfTrusted(d) /\ row' = [row EXCEPT ![d] = NoRow]
    <3>1. ~Active(row[d])
      BY <1>3, <2>2 DEF Active
    <3>2. row' \in [Domains -> Verdict] /\ TrustedNeverBlocked' /\ DecisionsKept /\ ActiveAIBlocked' = ActiveAIBlocked
      BY <1>3, <2>2, <3>1, NoRowIs, VerdictChanged
    <3> QED BY <1>1, <3>2 DEF WorkerIInv, WorkerInv, PolicyFollowsVerdicts
  <2> QED BY <1>4, <2>1, <2>2
<1>8. WorkerTypes'
  BY <1>1, <1>6, <1>7 DEF WorkerIInv, WorkerTypes
<1>9. OwedLater' /\ OneLoad'
  BY <1>1, <1>6, LoadStay DEF OwedLater
<1> QED BY <1>6, <1>7, <1>8, <1>9 DEF WorkerIInv, WorkerInv

LEMMA MarkKeeps == ASSUME WorkerIInv, MarkDone PROVE WorkerIInv' /\ DecisionsKept
<1>1. /\ rescorer' = [rescorer EXCEPT !.at = "queue"]
      /\ UNCHANGED <<row, policy, stale, queue, worker, scan, busy, loop, admin, owed, failed, settings>>
  BY DEF MarkDone, Rescoring
<1>2. rescorer \in Rescorer
  BY DEF WorkerIInv, WorkerTypes
<1>3. rescorer' \in Rescorer /\ rescorer'.at # "start" /\ rescorer'.queued = rescorer.queued
  BY <1>1, <1>2 DEF Rescorer
<1>4. WorkerTypes'
  BY <1>1, <1>3 DEF WorkerIInv, WorkerTypes
<1>5. RescoredIsQueued' /\ OwedLater'
  BY <1>1, <1>3 DEF WorkerIInv, WorkerInv, RescoredIsQueued, OwedLater
<1>6. TrustedNeverBlocked' /\ PolicyFollowsVerdicts' /\ DecisionsKept
  BY <1>1, VerdictsStay
<1> QED BY <1>1, <1>4, <1>5, <1>6, LoadStay DEF WorkerIInv, WorkerInv

LEMMA QueueAllKeeps == ASSUME WorkerIInv, NEW d \in Domains, QueueAll(d) PROVE WorkerIInv' /\ DecisionsKept
<1>1. /\ rescorer' = [rescorer EXCEPT !.queued = @ \ {d}] /\ queue' = Append(queue, d) /\ rescorer.at = "queue"
      /\ UNCHANGED <<row, policy, stale, worker, scan, busy, loop, admin, owed, failed, settings>>
  BY DEF QueueAll, Rescoring, WaitsForRoom
<1>2. rescorer \in Rescorer /\ queue \in Seq(Domains)
  BY DEF WorkerIInv, WorkerTypes
<1>3. rescorer' \in Rescorer /\ rescorer'.at = "queue" /\ rescorer'.queued = rescorer.queued \ {d}
  BY <1>1, <1>2 DEF Rescorer
<1>4. queue' \in Seq(Domains) /\ ToSet(queue') = ToSet(queue) \cup {d}
  BY <1>1, <1>2, ToSetAppend
<1>5. WorkerTypes'
  BY <1>1, <1>3, <1>4 DEF WorkerIInv, WorkerTypes
<1>6. RescoredIsQueued' /\ OwedLater'
  BY <1>1, <1>3, <1>4 DEF WorkerIInv, WorkerInv, RescoredIsQueued, OwedLater
<1>7. TrustedNeverBlocked' /\ PolicyFollowsVerdicts' /\ DecisionsKept
  BY <1>1, VerdictsStay
<1> QED BY <1>1, <1>5, <1>6, <1>7, LoadStay DEF WorkerIInv, WorkerInv

LEMMA DecisionKeeps == ASSUME WorkerIInv, NEW d \in Domains, decideClassification(d) PROVE WorkerIInv'
<1>1. /\ row[d] # NoRow /\ UNCHANGED <<policy, queue, worker, scan, busy, loop, rescorer, owed, failed, settings>>
  BY DEF decideClassification, Reviewing
<1>2. row \in [Domains -> Verdict] /\ row[d] \in Verdict /\ stale \in BOOLEAN /\ admin \in {"idle", "reload"}
  BY DEF WorkerIInv, WorkerTypes
<1>3. \/ \E status \in {"approved", "rejected"} : SetClassificationDecision(d, status) /\ admin' = "reload" /\ stale' = stale
      \/ row' = [row EXCEPT ![d] = NoRow] /\ stale' = TRUE /\ admin' = admin
  BY DEF decideClassification
<1>4. row' \in [Domains -> Verdict] /\ TrustedNeverBlocked' /\ (admin' = "reload" \/ stale' = TRUE)
      /\ admin' \in {"idle", "reload"} /\ stale' \in BOOLEAN
  <2>1. ASSUME NEW status \in {"approved", "rejected"}, SetClassificationDecision(d, status)
        PROVE  row' \in [Domains -> Verdict] /\ TrustedNeverBlocked'
    <3>1. PICK b \in BOOLEAN : b = (status = "approved")
      OBVIOUS
    <3>2. PICK r \in Verdict : r = [row[d] EXCEPT !.status = status, !.block = b]
      BY <1>2 DEF Verdict
    <3>3. r.status = status
      BY <1>2, <3>2 DEF Verdict
    <3>4. row' = [row EXCEPT ![d] = r]
      BY <1>2, <2>1, <3>1, <3>2 DEF SetClassificationDecision
    <3> QED BY <3>3, <3>4, VerdictChanged
  <2>2. ASSUME row' = [row EXCEPT ![d] = NoRow] PROVE row' \in [Domains -> Verdict] /\ TrustedNeverBlocked'
    BY <2>2, NoRowIs, VerdictChanged
  <2> QED BY <1>2, <1>3, <2>1, <2>2
<1>5. PolicyFollowsVerdicts'
  BY <1>4 DEF PolicyFollowsVerdicts
<1>6. WorkerTypes'
  BY <1>1, <1>4 DEF WorkerIInv, WorkerTypes
<1> QED BY <1>1, <1>4, <1>5, <1>6, OwedStay, LoadStay DEF WorkerIInv, WorkerInv

LEMMA ClearKeeps == ASSUME WorkerIInv, clearClassifications PROVE WorkerIInv'
<1>1. /\ row' = [d \in Domains |-> NoRow] /\ admin' = "reload"
      /\ UNCHANGED <<policy, stale, queue, worker, scan, busy, loop, rescorer, owed, failed, settings>>
  BY DEF clearClassifications, Reviewing, DeleteAllClassifications
<1>2. row' \in [Domains -> Verdict] /\ TrustedNeverBlocked'
  BY <1>1, NoRowIs DEF TrustedNeverBlocked
<1>3. PolicyFollowsVerdicts'
  BY <1>1 DEF PolicyFollowsVerdicts
<1>4. WorkerTypes'
  BY <1>1, <1>2 DEF WorkerIInv, WorkerTypes
<1> QED BY <1>1, <1>2, <1>3, <1>4, OwedStay, LoadStay DEF WorkerIInv, WorkerInv

LEMMA RestartKeeps == ASSUME WorkerIInv, WorkerRestarts PROVE WorkerIInv' /\ DecisionsKept
<1>1. /\ queue' = <<>> /\ busy' = FALSE /\ worker' = Idle /\ scan' = NoScan /\ loop' = "wait" /\ admin' = "idle"
      /\ rescorer' = [at |-> "start", todo |-> {}, queued |-> {}] /\ owed' = {} /\ reload
      /\ UNCHANGED <<settings, row, failed>>
  BY DEF WorkerRestarts
<1>2. /\ TrustedNeverBlocked' /\ PolicyFollowsVerdicts' /\ DecisionsKept
      /\ policy' \subseteq Domains /\ stale' \in BOOLEAN
  BY <1>1, Reloaded DEF ReloadOrFail
<1>3. rescorer' \in Rescorer /\ queue' \in Seq(Domains)
  BY <1>1 DEF Rescorer
<1>4. WorkerTypes'
  BY <1>1, <1>2, <1>3, IdleIsATask, NoScanIs DEF WorkerIInv, WorkerTypes
<1>5. OneLoad' /\ RescoredIsQueued' /\ OwedLater'
  BY <1>1, NoScanIs DEF OneLoad, RescoredIsQueued, OwedLater
<1> QED BY <1>2, <1>4, <1>5 DEF WorkerIInv, WorkerInv

LEMMA WorkerNext == WorkerIInv /\ [CwNext]_cwVars => WorkerIInv' /\ (DecisionsKept \/ Review)
<1> SUFFICES ASSUME WorkerIInv, [CwNext]_cwVars PROVE WorkerIInv' /\ (DecisionsKept \/ Review)
  OBVIOUS
<1>1. ASSUME NEW d \in Domains, \/ Enqueue(d) \/ pruneLocked(d) \/ rescanThreat(d) \/ DeleteTrustedCleanVerdict(d)
                                \/ QueueAll(d) \/ Forwards(d) \/ News(d)
      PROVE  WorkerIInv' /\ DecisionsKept
  BY <1>1, EnqueueKeeps, ApartSteps, RescanKeeps, DeleteKeeps, QueueAllKeeps
<1>2. CASE WorkerRun \/ Classified \/ recordTrusted \/ Classify \/ process \/ Enforce
  BY <1>2, WorkerRunKeeps, ClassifiedKeeps, TrustedKeeps, ClassifyKeeps, ProcessKeeps, EnforceKeeps
<1>3. CASE refreshThreatLoop \/ refresh \/ ScanStarts \/ ScanEnds
  BY <1>3, HourlyKeeps, LoadKeepsVerdicts, ScanStartsKeeps, ScanEndsKeeps
<1>4. CASE rescoreLegacyTrusted \/ MarkDone \/ SaveSettings \/ WorkerRestarts
  BY <1>4, RescoreKeeps, MarkKeeps, SaveSettingsKeeps, RestartKeeps
<1>5. CASE Review
  BY <1>5, DecidedKeeps, ClearKeeps, DecisionKeeps DEF Review
<1>6. CASE UNCHANGED cwVars
  <2>1. UNCHANGED <<row, policy, stale, queue, worker, scan, busy, loop, rescorer, admin, owed, failed, settings>>
    BY <1>6 DEF cwVars
  <2>2. settings' \in Settings
    BY <2>1 DEF WorkerIInv, WorkerTypes
  <2> QED BY <2>1, <2>2, Apart
<1> QED BY <1>1, <1>2, <1>3, <1>4, <1>5, <1>6 DEF CwNext

LEMMA WorkerIInvHolds == CwSpec => []WorkerIInv
<1>1. WorkerIInv /\ [CwNext]_cwVars => WorkerIInv'
  BY WorkerNext
<1> QED BY <1>1, WorkerStart, PTL DEF CwSpec

\* The verdicts, whatever the worker, the hourly load and its rescan, the
\* rescoring of old verdicts, reviews and restarts interleave
\* (internal/classifier, internal/api/classifier.go): the trusted are not
\* blocked, the policy in force is that of the verdicts once those who changed
\* them have built it anew, and what is to be scored again is in the queue or
\* about to be.
THEOREM VerdictsHold == CwSpec => []WorkerInv
<1>1. WorkerIInv => WorkerInv
  BY DEF WorkerIInv
<1> QED BY <1>1, WorkerIInvHolds, PTL

\* A decision of the administrator stays until another review: the worker, the
\* rescans and the rescoring, which looked at the verdict before, leave it alone.
THEOREM ReviewsStay == CwSpec => ReviewsStand
<1>1. WorkerIInv /\ [CwNext]_cwVars => [OnlyReviewed]_cwVars
  <2>1. DecisionsKept \/ Review => OnlyReviewed
    BY DEF DecisionsKept, OnlyReviewed
  <2> QED BY <2>1, WorkerNext
<1> QED BY <1>1, WorkerIInvHolds, PTL DEF CwSpec, ReviewsStand

-----------------------------------------------------------------------------
-----------------------------------------------------------------------------
(* Lookups by suffix.                                                      *)

LEMMA LeastPlace == ASSUME NEW S \in SUBSET Nat, S # {} PROVE Min(S) \in S /\ \A y \in S : Min(S) <= y
<1>1. \E x \in S : \A y \in S : x <= y
  <2>1. PICK x \in S : \A y \in S : ~(<<y, x>> \in OpToRel(<, Nat))
    BY NatLessThanWellFounded, WFMin
  <2>2. \A y \in S : ~(y < x)
    BY <2>1 DEF OpToRel
  <2> QED BY <2>2
<1> QED BY <1>1 DEF Min

LEMMA ChainIs ==
  ASSUME NEW n \in Names
  PROVE  /\ Chain[n] \in Seq(Names) /\ DOMAIN Chain[n] = 1 .. Len(Chain[n]) /\ DOMAIN Chain[n] \subseteq Nat
         /\ 1 \in DOMAIN Chain[n] /\ Chain[n][1] = n
         /\ \A i \in DOMAIN Chain[n] : Chain[n][i] \in Names
         /\ n \in Range(Chain[n]) /\ Range(Chain[n]) \subseteq Names
<1>1. Chain[n] \in Seq(Names) /\ Chain[n] # <<>> /\ Chain[n][1] = n
  BY CategoriesAssumption
<1>2. DOMAIN Chain[n] = 1 .. Len(Chain[n]) /\ 1 \in 1 .. Len(Chain[n]) /\ \A i \in 1 .. Len(Chain[n]) : Chain[n][i] \in Names
  BY <1>1
<1>3. 1 .. Len(Chain[n]) \subseteq Nat
  BY <1>1
<1> QED BY <1>1, <1>2, <1>3 DEF Range

\* A suffix has the rest of the chain.
LEMMA SuffixChain ==
  ASSUME NEW n \in Names, NEW i \in DOMAIN Chain[n]
  PROVE  /\ Range(Chain[Chain[n][i]]) \subseteq Range(Chain[n])
         /\ \A j \in DOMAIN Chain[n] : i <= j => Chain[n][j] \in Range(Chain[Chain[n][i]])
BY CategoriesAssumption

LEMMA MostSpecificIs ==
  ASSUME NEW n \in Names, NEW D
  PROVE  /\ MostSpecific(n, D) = 0 <=> Range(Chain[n]) \cap D = {}
         /\ MostSpecific(n, D) # 0 => /\ MostSpecific(n, D) \in DOMAIN Chain[n]
                                      /\ Chain[n][MostSpecific(n, D)] \in D
                                      /\ \A j \in DOMAIN Chain[n] : Chain[n][j] \in D => MostSpecific(n, D) <= j
<1>1. PICK I : I = {i \in 1 .. Len(Chain[n]) : Chain[n][i] \in D}
  OBVIOUS
<1>2. MostSpecific(n, D) = IF I # {} THEN Min(I) ELSE 0
  BY <1>1 DEF MostSpecific, SelectInSeq
<1>3. DOMAIN Chain[n] = 1 .. Len(Chain[n]) /\ 1 .. Len(Chain[n]) \subseteq Nat \ {0}
  <2>1. PICK m \in Nat : m = Len(Chain[n])
    BY ChainIs
  <2>2. 1 .. m \subseteq Nat \ {0}
    OBVIOUS
  <2> QED BY <2>1, <2>2, ChainIs
<1>4. I \in SUBSET Nat /\ 0 \notin I /\ I = {i \in DOMAIN Chain[n] : Chain[n][i] \in D}
  BY <1>1, <1>3
<1>5. I = {} <=> Range(Chain[n]) \cap D = {}
  BY <1>4 DEF Range
<1>6. I # {} => Min(I) \in I /\ \A y \in I : Min(I) <= y
  BY <1>4, LeastPlace
<1> QED BY <1>2, <1>4, <1>5, <1>6

IsIndex(idx) == idx \subseteq Names \X Cats

LEMMA IndexesAre == (\A idx \in Publications : IsIndex(idx)) /\ IsIndex(BuiltinList)
BY CategoriesAssumption DEF IsIndex, Cats

LEMMA PairOf == ASSUME NEW idx, IsIndex(idx), NEW e \in idx PROVE e = <<e[1], e[2]>> /\ e[1] \in Names /\ e[2] \in Cats
BY DEF IsIndex

LEMMA RankIs == ASSUME NEW c \in Cats PROVE Rank(c) \in Nat /\ Precedence[Rank(c)] = c
<1>1. Precedence \in Seq(Range(Precedence))
  BY CategoriesAssumption
<1>2. DOMAIN Precedence \subseteq Nat
  <2>1. DOMAIN Precedence = 1 .. Len(Precedence) /\ Len(Precedence) \in Nat
    BY <1>1
  <2> QED BY <2>1
<1>3. \E i \in DOMAIN Precedence : Precedence[i] = c
  BY DEF Cats, Range
<1>4. Rank(c) \in DOMAIN Precedence /\ Precedence[Rank(c)] = c
  BY <1>3 DEF Rank
<1> QED BY <1>2, <1>4

\* A name that is listed has a best category.
LEMMA LookupExactIs ==
  ASSUME NEW idx, IsIndex(idx), NEW s \in {e[1] : e \in idx}
  PROVE  lookupExact(idx, s) \in Cats /\ <<s, lookupExact(idx, s)>> \in idx
<1>1. PICK S : S = {c \in Cats : <<s, c>> \in idx}
  OBVIOUS
<1>2. S # {}
  <2>1. PICK e \in idx : e[1] = s
    OBVIOUS
  <2> QED BY <1>1, <2>1, PairOf
<1>3. PICK R : R = {Rank(c) : c \in S}
  OBVIOUS
<1>4. R \in SUBSET Nat /\ R # {}
  BY <1>1, <1>2, <1>3, RankIs
<1>5. PICK c \in S : Rank(c) = Min(R)
  BY <1>3, <1>4, LeastPlace
<1>6. \A o \in S : Rank(c) <= Rank(o)
  BY <1>3, <1>4, <1>5, LeastPlace
<1>7. c \in Cats /\ <<s, c>> \in idx /\ \A o \in Cats : <<s, o>> \in idx => Rank(c) <= Rank(o)
  BY <1>1, <1>5, <1>6
<1> QED BY <1>7 DEF lookupExact

\* What a lookup finds: the category of the most specific suffix that is listed.
LEMMA LookupIs ==
  ASSUME NEW idx, IsIndex(idx), NEW n \in Names
  PROVE  /\ Lookup(idx, n) \in Cats \cup {None}
         /\ Lookup(idx, n) = None <=> Range(Chain[n]) \cap {e[1] : e \in idx} = {}
         /\ Lookup(idx, n) # None =>
              \E i \in DOMAIN Chain[n] :
                /\ <<Chain[n][i], Lookup(idx, n)>> \in idx
                /\ \A j \in DOMAIN Chain[n] : Chain[n][j] \in {e[1] : e \in idx} => i <= j
<1>1. PICK D : D = {e[1] : e \in idx}
  OBVIOUS
<1>2. PICK k : k = MostSpecific(n, D)
  OBVIOUS
<1>3. /\ k = 0 <=> Range(Chain[n]) \cap D = {}
      /\ k # 0 => k \in DOMAIN Chain[n] /\ Chain[n][k] \in D /\ \A j \in DOMAIN Chain[n] : Chain[n][j] \in D => k <= j
  BY <1>2, MostSpecificIs
<1>4. Lookup(idx, n) = IF k = 0 THEN None ELSE lookupExact(idx, Chain[n][k])
  BY <1>1, <1>2 DEF Lookup, ListedSuffix
<1>5. None \notin Cats
  BY CategoriesAssumption DEF Cats
<1>6. k # 0 => lookupExact(idx, Chain[n][k]) \in Cats /\ <<Chain[n][k], lookupExact(idx, Chain[n][k])>> \in idx
  BY <1>1, <1>3, LookupExactIs
<1> QED BY <1>1, <1>3, <1>4, <1>5, <1>6

\* A name comes under whatever lists one of its suffixes.
LEMMA ListedBySuffix ==
  ASSUME NEW idx, IsIndex(idx), NEW n \in Names, NEW i \in DOMAIN Chain[n], Lookup(idx, Chain[n][i]) # None
  PROVE  Lookup(idx, n) # None
<1>1. Chain[n][i] \in Names /\ Range(Chain[Chain[n][i]]) \subseteq Range(Chain[n])
  BY ChainIs, SuffixChain
<1> QED BY <1>1, LookupIs

-----------------------------------------------------------------------------
(* What agents block.                                                      *)

Over       == [RegisteredDomains -> Cats \cup {None}]
VerdictRow == [scored : BOOLEAN, enforced : Cats \cup {None}, content : Cats \cup {None}, checked : BOOLEAN]
Query      == [name : Names, local : BOOLEAN, label : Labels]

LabelTypes ==
  /\ published \in Publications /\ ready \in BOOLEAN /\ override \in Over /\ verdict \in [RegisteredDomains -> VerdictRow]
  /\ held \in [override : Over, enforced : Over, content : Over]
  /\ reading \in [Refreshers -> Over \cup {None}]

AgentTypes ==
  /\ blocked \subseteq Cats /\ agent \in [blocked : SUBSET Cats, domains : SUBSET (Names \X Cats)]
  /\ holder \in [wanted : SUBSET Cats, kick : BOOLEAN, at : {"load", "loading", "wait"}, cats : SUBSET Cats,
                 idx : SUBSET (Names \X Cats), error : BOOLEAN]

LogTypes ==
  /\ log \in Seq(Query) /\ cursor \in Nat /\ cursor <= Len(log) /\ rollup \in [Labels -> Nat]
  /\ DOMAIN page \subseteq DOMAIN log /\ \A i \in DOMAIN page : page[i] \in Labels \ {"other"}

\* What is loaded is for the settings that are in force.
HolderFollows == holder.wanted = agent.blocked

LEMMA RegisteredIs ==
  ASSUME NEW d \in RegisteredDomains
  PROVE  d \in Names /\ d # None /\ RegisteredDomain[d] = d
<1>1. PICK n \in Names : d = RegisteredDomain[n] /\ d # None
  BY DEF RegisteredDomains
<1>2. d \in Range(Chain[n])
  BY <1>1, CategoriesAssumption
<1>3. PICK k \in DOMAIN Chain[n] : Chain[n][k] = d
  BY <1>2 DEF Range
<1>4. k <= k
  BY ChainIs
<1>5. RegisteredDomain[Chain[n][k]] = RegisteredDomain[n]
  BY <1>1, <1>3, <1>4, CategoriesAssumption
<1> QED BY <1>1, <1>2, <1>3, <1>5, ChainIs

LEMMA RegisteredOf ==
  ASSUME NEW n \in Names, RegisteredDomain[n] # None
  PROVE  RegisteredDomain[n] \in RegisteredDomains /\ \E k \in DOMAIN Chain[n] : Chain[n][k] = RegisteredDomain[n]
BY CategoriesAssumption DEF RegisteredDomains, Range

LEMMA ListsAre == ASSUME LabelTypes PROVE IsIndex(published) /\ IsIndex(BuiltinList)
BY IndexesAre DEF LabelTypes

LEMMA OfIs ==
  ASSUME NEW f \in Over, NEW n \in Names
  PROVE  /\ Of(f, n) \in Cats \cup {None}
         /\ Of(f, n) # None => RegisteredDomain[n] # None /\ Of(f, n) = f[RegisteredDomain[n]]
         /\ RegisteredDomain[n] # None => Of(f, n) = f[RegisteredDomain[n]]
BY RegisteredOf DEF Of, Over

\* A suffix of which the database knows nothing.
LEMMA UnknownSuffix ==
  ASSUME LabelTypes, NEW n \in Names, NEW i \in DOMAIN Chain[n], ~inDB(n)
  PROVE  ~inDB(Chain[n][i])
BY ListedBySuffix, ListsAre DEF inDB, Database

\* Which corrections are sent: all overrides, each as it is,
LEMMA OverridesAreSent ==
  ASSUME NEW W, NEW d \in RegisteredDomains, held.override[d] # None, W # {}
  PROVE  /\ <<d, held.override[d]>> \in DomainsFor(W)
         /\ \A e \in DomainsFor(W) : e[1] = d => e[2] = held.override[d]
<1> DEFINE overridden == {<<d2, held.override[d2]>> : d2 \in {d2 \in RegisteredDomains : held.override[d2] # None}}
           Set(es, d2) == \E e \in es : e[1] = d2
           builtins   == {e \in BuiltinDomains(W) : ~Set(overridden, e[1]) /\ ~inDB(e[1])}
           model      == {<<d2, held.content[d2]>> : d2 \in {d2 \in RegisteredDomains :
                            held.content[d2] \in W /\ ~Set(overridden \cup builtins, d2) /\ ~inDB(d2) /\ ~builtinCovers(d2)}}
<1>1. DomainsFor(W) = overridden \cup builtins \cup model
  BY DEF DomainsFor
<1>2. <<d, held.override[d]>> \in overridden
  OBVIOUS
<1>3. Set(overridden, d)
  BY <1>2
<1>4. \A e \in overridden : e[1] = d => e[2] = held.override[d]
  OBVIOUS
<1>5. \A e \in builtins : e[1] # d
  BY <1>3
<1>6. \A e \in model : e[1] # d
  <2> SUFFICES ASSUME NEW d2 \in RegisteredDomains, ~Set(overridden \cup builtins, d2) PROVE d2 # d
    OBVIOUS
  <2>1. <<d, held.override[d]>> \in overridden \cup builtins
    BY <1>2
  <2>2. Set(overridden \cup builtins, d)
    BY <2>1
  <2> QED BY <2>2
<1> HIDE DEF overridden, builtins, model, Set
<1> QED BY <1>1, <1>2, <1>4, <1>5, <1>6

\* the built-in names of the blocked categories and those that stand out from
\* them, and the model's labels, in blocked categories;
LEMMA WhatIsSent ==
  ASSUME NEW W, NEW e \in DomainsFor(W)
  PROVE  \/ e[1] \in RegisteredDomains /\ held.override[e[1]] # None
         \/ e \in BuiltinDomains(W) /\ ~inDB(e[1])
         \/ e[2] \in W
BY DEF DomainsFor

\* and nothing that is labelled so is left out.
LEMMA BuiltinIsSent ==
  ASSUME NEW W, W # {}, NEW e \in BuiltinList, e[2] \in W, ~inDB(e[1])
  PROVE  e[1] \in {f[1] : f \in DomainsFor(W)}
<1> DEFINE overridden == {<<d2, held.override[d2]>> : d2 \in {d2 \in RegisteredDomains : held.override[d2] # None}}
           Set(es, d2) == \E f \in es : f[1] = d2
           builtins   == {f \in BuiltinDomains(W) : ~Set(overridden, f[1]) /\ ~inDB(f[1])}
<1>1. overridden \cup builtins \subseteq DomainsFor(W)
  BY DEF DomainsFor
<1>2. e \in BuiltinDomains(W)
  BY DEF BuiltinDomains
<1>3. Set(overridden, e[1]) \/ e \in builtins
  BY <1>2
<1> QED BY <1>1, <1>3

LEMMA ModelIsSent ==
  ASSUME NEW W, W # {}, NEW d \in RegisteredDomains, held.content[d] \in W, ~inDB(d), ~builtinCovers(d)
  PROVE  d \in {f[1] : f \in DomainsFor(W)}
<1> DEFINE overridden == {<<d2, held.override[d2]>> : d2 \in {d2 \in RegisteredDomains : held.override[d2] # None}}
           Set(es, d2) == \E f \in es : f[1] = d2
           builtins   == {f \in BuiltinDomains(W) : ~Set(overridden, f[1]) /\ ~inDB(f[1])}
           model      == {<<d2, held.content[d2]>> : d2 \in {d2 \in RegisteredDomains :
                            held.content[d2] \in W /\ ~Set(overridden \cup builtins, d2) /\ ~inDB(d2) /\ ~builtinCovers(d2)}}
<1>1. DomainsFor(W) = overridden \cup builtins \cup model
  BY DEF DomainsFor
<1>2. CASE Set(overridden \cup builtins, d)
  <2>1. PICK f \in overridden \cup builtins : f[1] = d
    BY <1>2
  <2>2. f \in DomainsFor(W)
    BY <1>1, <2>1
  <2> QED BY <2>1, <2>2
<1>3. CASE ~Set(overridden \cup builtins, d)
  <2>1. <<d, held.content[d]>> \in model
    BY <1>3
  <2>2. <<d, held.content[d]>> \in DomainsFor(W)
    BY <1>1, <2>1
  <2> QED BY <2>2
<1> QED BY <1>2, <1>3

\* Who has the last word on a name that the control plane labels.
LEMMA Sources ==
  ASSUME LabelTypes, NEW n \in Names, Category(n).source \in {"database", "builtin", "model"}
  PROVE  /\ Of(held.override, n) = None
         /\ Category(n).source = "database" => inDB(n) /\ ready /\ Category(n).cat = Lookup(published, n)
         /\ Category(n).source = "builtin"  => ~inDB(n) /\ Builtin(n) # None /\ Category(n).cat = Builtin(n)
         /\ Category(n).source = "model" =>
              ~inDB(n) /\ ~builtinCovers(n) /\ Of(held.content, n) # None /\ Category(n).cat = Of(held.content, n)
<1>1. Of(held.override, n) = None
  BY DEF Category, Said
<1>2. n \notin Private /\ Category(n) = Known(n)
  BY <1>1 DEF Category, Said
<1>3. inDB(n) => ready /\ Database(n) = Lookup(published, n)
  BY DEF inDB, Database
<1>4. builtinCovers(n) => Builtin(n) # None
  BY DEF builtinCovers
<1>5. Of(held.enforced, n) = None
  BY <1>2 DEF Known, Said
<1> QED BY <1>1, <1>2, <1>3, <1>4, <1>5 DEF Known, Said

\* A name of the built-in list that is sent although it is not blocked.
StandsOut(n, t) == \E e \in BuiltinDomains(blocked) : e[1] = t /\ e[2] \notin blocked /\ t \in Range(Chain[n]) /\ ~inDB(t)

\* A correction that does not block is an override of a domain above the name's
\* own, or one of those names.
LEMMA CorrectedOpen ==
  ASSUME LabelTypes, AgentTypes, NEW n \in Names, Of(held.override, n) = None, Current, blocked # {},
         Correction(n) # 0, ~blockedCategory(n)
  PROVE  OverriddenAbove(n) \/ StandsOut(n, Chain[n][Correction(n)])
<1>1. agent.domains = DomainsFor(blocked) /\ agent.blocked = blocked
  BY DEF Current, replicatedSettings
<1>2. PICK k : k = Correction(n)
  OBVIOUS
<1>3. k \in DOMAIN Chain[n] /\ Chain[n][k] \in {e[1] : e \in agent.domains}
  BY <1>2, MostSpecificIs DEF Correction
<1>4. PICK e \in agent.domains : e[1] = Chain[n][k]
  BY <1>3
<1>5. e[2] \notin blocked
  BY <1>1, <1>2, <1>4 DEF blockedCategory
<1>6. CASE e[1] \in RegisteredDomains /\ held.override[e[1]] # None
  <2>1. e[1] # RegisteredDomain[n]
    <3>1. RegisteredDomain[n] # None => held.override[RegisteredDomain[n]] = None
      BY DEF Of
    <3> QED BY <1>6, <3>1, RegisteredIs
  <2>2. e[1] \in Range(Chain[n])
    BY <1>3, <1>4 DEF Range
  <2> QED BY <1>6, <2>1, <2>2 DEF OverriddenAbove
<1>7. CASE e \in BuiltinDomains(blocked) /\ ~inDB(e[1])
  <2>1. e[1] \in Range(Chain[n])
    BY <1>3, <1>4 DEF Range
  <2> QED BY <1>2, <1>4, <1>5, <1>7, <2>1 DEF StandsOut
<1> QED BY <1>1, <1>5, <1>6, <1>7, WhatIsSent

\* What the database says is blocked: nothing more specific was cut away.
LEMMA ParsedLookup ==
  ASSUME LabelTypes, NEW W, NEW n \in Names, Lookup(published, n) \in W, Lookup(published, n) # None
  PROVE  Lookup(parseArchive(W), n) \in W
<1>1. PICK c : c = Lookup(published, n)
  OBVIOUS
<1>2. PICK i \in DOMAIN Chain[n] :
        /\ <<Chain[n][i], c>> \in published
        /\ \A j \in DOMAIN Chain[n] : Chain[n][j] \in {e[1] : e \in published} => i <= j
  BY <1>1, LookupIs, ListsAre
<1>3. IsIndex(parseArchive(W)) /\ parseArchive(W) \subseteq published
  BY ListsAre DEF parseArchive, IsIndex
<1>4. <<Chain[n][i], c>> \in parseArchive(W)
  BY <1>1, <1>2 DEF parseArchive
<1>5. Lookup(parseArchive(W), n) # None
  <2>1. Chain[n][i] \in Range(Chain[n])
    BY DEF Range
  <2>2. Chain[n][i] \in {e[1] : e \in parseArchive(W)}
    BY <1>4
  <2> QED BY <1>3, <2>1, <2>2, LookupIs
<1>6. PICK j \in DOMAIN Chain[n] : <<Chain[n][j], Lookup(parseArchive(W), n)>> \in parseArchive(W)
  BY <1>3, <1>5, LookupIs
<1> QED BY <1>6 DEF parseArchive

LEMMA DatabaseBlocks ==
  ASSUME LabelTypes, AgentTypes, NEW n \in Names, Current, HolderFollows, holder.idx = parseArchive(holder.wanted),
         Category(n).source = "database", Category(n).cat \in blocked
  PROVE  blockedCategory(n) \/ OverriddenAbove(n) \/ ListedBelow(n)
<1>1. agent.blocked = blocked /\ holder.wanted = blocked
  BY DEF Current, replicatedSettings, HolderFollows
<1>2. Of(held.override, n) = None /\ inDB(n) /\ Category(n).cat = Lookup(published, n) /\ blocked # {}
  BY Sources
<1>3. Lookup(published, n) # None
  BY <1>2 DEF inDB, Database
<1>4. Lookup(holder.idx, n) \in blocked
  BY <1>1, <1>2, <1>3, ParsedLookup
<1>5. CASE Correction(n) = 0
  BY <1>1, <1>2, <1>4, <1>5 DEF blockedCategory
<1>6. CASE Correction(n) # 0 /\ ~blockedCategory(n)
  <2>1. OverriddenAbove(n) \/ StandsOut(n, Chain[n][Correction(n)])
    BY <1>2, <1>6, CorrectedOpen
  <2> QED BY <1>2, <2>1 DEF StandsOut, ListedBelow
<1> QED BY <1>5, <1>6

\* The most specific built-in name of one that is labelled so is sent, and comes first.
LEMMA BuiltinBlocks ==
  ASSUME LabelTypes, AgentTypes, NEW n \in Names, Current, Category(n).source = "builtin", Category(n).cat \in blocked
  PROVE  blockedCategory(n) \/ OverriddenAbove(n)
<1>1. agent.blocked = blocked /\ agent.domains = DomainsFor(blocked)
  BY DEF Current, replicatedSettings
<1>2. Of(held.override, n) = None /\ ~inDB(n) /\ Builtin(n) # None /\ Builtin(n) \in blocked /\ blocked # {}
  BY Sources
<1>3. PICK i \in DOMAIN Chain[n] :
        /\ <<Chain[n][i], Builtin(n)>> \in BuiltinList
        /\ \A j \in DOMAIN Chain[n] : Chain[n][j] \in {e[1] : e \in BuiltinList} => i <= j
  BY <1>2, LookupIs, ListsAre DEF Builtin
<1>4. ~inDB(Chain[n][i])
  BY <1>2, UnknownSuffix
<1>5. Chain[n][i] \in {e[1] : e \in agent.domains}
  BY <1>1, <1>2, <1>3, <1>4, BuiltinIsSent
<1>6. PICK k : k = Correction(n)
  OBVIOUS
<1>7. k # 0 /\ k \in DOMAIN Chain[n] /\ k <= i
  <2>1. Chain[n][i] \in Range(Chain[n])
    BY DEF Range
  <2> QED BY <1>5, <1>6, <2>1, MostSpecificIs DEF Correction
<1>8. ASSUME StandsOut(n, Chain[n][k]) PROVE FALSE
  <2>1. PICK e \in BuiltinDomains(blocked) : e[1] = Chain[n][k] /\ e[2] \notin blocked
    BY <1>8 DEF StandsOut
  <2>2. e \in BuiltinList
    BY <2>1 DEF BuiltinDomains
  <2>3. i <= k
    BY <1>3, <1>7, <2>1, <2>2
  <2>4. i \in Nat /\ k \in Nat
    BY <1>7, ChainIs
  <2>5. k = i
    BY <1>7, <2>3, <2>4
  <2>6. \A f \in BuiltinList : f[1] = e[1] => f = e
    BY <2>2, CategoriesAssumption
  <2>7. <<Chain[n][i], Builtin(n)>> = e
    BY <1>3, <2>1, <2>5, <2>6
  <2> QED BY <1>2, <2>1, <2>7
<1> QED BY <1>2, <1>6, <1>7, <1>8, CorrectedOpen

\* The model's label of a name's registered domain is sent, unless the built-in
\* list is certain of it, and no built-in name is a platform's customer.
LEMMA ModelBlocks ==
  ASSUME LabelTypes, AgentTypes, NEW n \in Names, Current, Category(n).source = "model", Category(n).cat \in blocked
  PROVE  blockedCategory(n) \/ OverriddenAbove(n)
<1>1. agent.blocked = blocked /\ agent.domains = DomainsFor(blocked)
  BY DEF Current, replicatedSettings
<1>2. /\ Of(held.override, n) = None /\ ~inDB(n) /\ ~builtinCovers(n)
      /\ Of(held.content, n) # None /\ Of(held.content, n) \in blocked /\ blocked # {}
  BY Sources
<1>3. PICK d \in RegisteredDomains : d = RegisteredDomain[n] /\ held.content[d] \in blocked
  BY <1>2, RegisteredOf DEF Of
<1>4. PICK i \in DOMAIN Chain[n] : Chain[n][i] = d
  BY <1>3, RegisteredIs, RegisteredOf
<1>5. ~inDB(d)
  BY <1>2, <1>4, UnknownSuffix
<1>6. n \in Platforms <=> d \in Platforms
  BY <1>3, CategoriesAssumption
<1>7. ~builtinCovers(d)
  <2>1. Builtin(d) # None => Builtin(n) # None
    BY <1>4, ListedBySuffix, IndexesAre DEF Builtin
  <2> QED BY <1>2, <1>6, <2>1 DEF builtinCovers
<1>8. d \in {e[1] : e \in agent.domains}
  BY <1>1, <1>2, <1>3, <1>5, <1>7, ModelIsSent
<1>9. PICK k : k = Correction(n)
  OBVIOUS
<1>10. k # 0 /\ k \in DOMAIN Chain[n] /\ k <= i
  <2>1. d \in Range(Chain[n])
    BY <1>4 DEF Range
  <2> QED BY <1>4, <1>8, <1>9, <2>1, MostSpecificIs DEF Correction
<1>11. ASSUME StandsOut(n, Chain[n][k]) PROVE FALSE
  <2>1. PICK e \in BuiltinList : e[1] = Chain[n][k]
    BY <1>11 DEF StandsOut, BuiltinDomains
  <2>2. Chain[n][k] \in Range(Chain[n]) /\ Chain[n][k] \in {f[1] : f \in BuiltinList}
    BY <1>10, <2>1 DEF Range
  <2>3. Builtin(n) # None
    BY <2>2, LookupIs, IndexesAre DEF Builtin
  <2>4. d \in Platforms
    BY <1>2, <1>6, <2>3 DEF builtinCovers
  <2>5. RegisteredDomain[Chain[n][k]] = d
    BY <1>3, <1>4, <1>10, CategoriesAssumption
  <2>6. Chain[n][k] \in Names
    BY <1>10, ChainIs
  <2>7. Chain[n][k] \in Platforms
    BY <2>4, <2>5, <2>6, CategoriesAssumption
  <2> QED BY <2>1, <2>7, CategoriesAssumption
<1> QED BY <1>2, <1>9, <1>10, <1>11, CorrectedOpen

\* An override of a domain is the first correction of its name.
LEMMA OverrideDecides ==
  ASSUME LabelTypes, AgentTypes, NEW n \in Names, Current, Category(n).source = "override", n = RegisteredDomain[n]
  PROVE  blockedCategory(n) <=> Category(n).cat \in blocked
<1>1. agent.blocked = blocked /\ agent.domains = DomainsFor(blocked)
  BY DEF Current, replicatedSettings
<1>2. None \notin Names
  BY CategoriesAssumption
<1>3. Of(held.override, n) # None
  BY DEF Category, Known, Said
<1>4. n \in RegisteredDomains /\ held.override[n] # None /\ Category(n).cat = held.override[n]
  BY <1>2, <1>3 DEF RegisteredDomains, Of, Category, Said
<1>5. CASE blocked = {}
  BY <1>1, <1>5 DEF blockedCategory
<1>6. CASE blocked # {}
  <2>1. /\ <<n, held.override[n]>> \in agent.domains
        /\ \A e \in agent.domains : e[1] = n => e[2] = held.override[n]
    <3>1. n \in RegisteredDomains /\ held.override[n] # None
      BY <1>4
    <3>2. /\ <<n, held.override[n]>> \in DomainsFor(blocked)
          /\ \A e \in DomainsFor(blocked) : e[1] = n => e[2] = held.override[n]
      BY <1>6, <3>1, OverridesAreSent
    <3> QED BY <1>1, <3>2
  <2>2. PICK k : k = Correction(n)
    OBVIOUS
  <2>3. k # 0 /\ k \in DOMAIN Chain[n] /\ k <= 1
    <3>1. n \in Range(Chain[n]) /\ 1 \in DOMAIN Chain[n] /\ Chain[n][1] = n
      BY ChainIs
    <3>2. n \in {e[1] : e \in agent.domains}
      BY <2>1
    <3> QED BY <2>2, <3>1, <3>2, MostSpecificIs DEF Correction
  <2>4. k = 1 /\ Chain[n][k] = n
    <3>1. k \in Nat
      BY <2>3, ChainIs
    <3>2. k = 1
      BY <2>3, <3>1
    <3> QED BY <3>2, ChainIs
  <2>5. blockedCategory(n) <=> \E e \in agent.domains : e[1] = n /\ e[2] \in blocked
    BY <1>1, <1>6, <2>2, <2>3, <2>4 DEF blockedCategory
  <2> QED BY <1>4, <2>1, <2>5
<1> QED BY <1>5, <1>6

LEMMA Blocks ==
  ASSUME LabelTypes, AgentTypes, HolderFollows, LoadsWhatIsWanted PROVE NothingSlipsThrough
<1> SUFFICES ASSUME Current, Settled, NEW n \in Names
             PROVE  /\ Category(n).source \in {"database", "builtin", "model"} /\ Category(n).cat \in blocked
                         => blockedCategory(n) \/ OverriddenAbove(n) \/ ListedBelow(n)
                    /\ Category(n).source = "override" /\ n = RegisteredDomain[n]
                         => (blockedCategory(n) <=> Category(n).cat \in blocked)
  BY DEF NothingSlipsThrough
<1>1. holder.idx = parseArchive(holder.wanted)
  BY DEF LoadsWhatIsWanted
<1> QED BY <1>1, DatabaseBlocks, BuiltinBlocks, ModelBlocks, OverrideDecides

-----------------------------------------------------------------------------
(* The labels, the counts and the loads, step by step.                     *)

LabelsIInv == LabelTypes /\ AgentTypes /\ LogTypes /\ HolderFollows /\ LoadsWhatIsWanted /\ CountsFollowRows

LEMMA LabelsIInvSuffices == LabelsIInv => CategoriesInv
<1> SUFFICES ASSUME LabelsIInv PROVE CategoriesInv
  OBVIOUS
<1>1. NothingSlipsThrough
  BY Blocks DEF LabelsIInv
<1>2. held.override \in [RegisteredDomains -> Cats \cup {None}] /\ blocked \subseteq Cats /\ agent.domains \subseteq Names \X Cats
  BY DEF LabelsIInv, LabelTypes, AgentTypes, Over
<1>3. cursor \in 0 .. Len(log) /\ rollup \in [Labels -> Nat]
  <2>1. log \in Seq(Query) /\ cursor \in Nat /\ cursor <= Len(log)
    BY DEF LabelsIInv, LogTypes
  <2> QED BY <2>1 DEF LabelsIInv, LogTypes
<1>4. \A i \in DOMAIN log : log[i].label \in Labels
  <2>1. log \in Seq(Query)
    BY DEF LabelsIInv, LogTypes
  <2>2. \A i \in DOMAIN log : log[i] \in Query
    BY <2>1
  <2> QED BY <2>2 DEF Query
<1> QED BY <1>1, <1>2, <1>3, <1>4 DEF LabelsIInv, CategoriesInv, CgTypeOK

LEMMA LabelsStart == CgInit => LabelsIInv
<1> SUFFICES ASSUME CgInit PROVE LabelsIInv
  OBVIOUS
<1> USE DEF CgInit
<1>1. NoneOf \in Over /\ Unscored \in VerdictRow
  BY DEF NoneOf, Over, Unscored, VerdictRow
<1>2. LabelTypes
  <2>1. held \in [override : Over, enforced : Over, content : Over]
    BY <1>1
  <2> QED BY <1>1, <2>1 DEF LabelTypes
<1>3. AgentTypes /\ HolderFollows /\ LoadsWhatIsWanted
  BY DEF AgentTypes, HolderFollows, LoadsWhatIsWanted, Settled, Off, Empty
<1>4. LogTypes
  BY DEF LogTypes
<1>5. CountsFollowRows
  <2> SUFFICES ASSUME NEW c \in Labels PROVE rollup[c] = CountOf(1 .. cursor, c)
    BY DEF CountsFollowRows
  <2>1. {i \in 1 .. cursor : log[i].label = c} = {}
    OBVIOUS
  <2> QED BY <2>1, FS_EmptySet DEF CountOf
<1> QED BY <1>2, <1>3, <1>4, <1>5 DEF LabelsIInv

LEMMA LabelsStay ==
  ASSUME LabelsIInv, UNCHANGED <<published, override, verdict, held, reading, ready>> PROVE LabelTypes'
BY DEF LabelsIInv, LabelTypes

LEMMA AgentStays ==
  ASSUME LabelsIInv, UNCHANGED <<published, blocked, agent, holder>> PROVE AgentTypes' /\ HolderFollows' /\ LoadsWhatIsWanted'
BY DEF LabelsIInv, AgentTypes, HolderFollows, LoadsWhatIsWanted, Settled, parseArchive

LEMMA LogStays == ASSUME LabelsIInv, UNCHANGED <<log, cursor, rollup, page>> PROVE LogTypes' /\ CountsFollowRows'
BY DEF LabelsIInv, LogTypes, CountsFollowRows, CountOf

\* What operators, the classifier and the refreshes write.
LEMMA RefreshKeeps == ASSUME LabelsIInv, NEW r \in Refreshers, Refresh(r) PROVE LabelsIInv'
<1>1. LabelTypes'
  BY DEF Refresh, LabelsIInv, LabelTypes
<1> QED BY <1>1, AgentStays, LogStays DEF Refresh, LabelsIInv

LEMMA RefreshedKeeps == ASSUME LabelsIInv, NEW r \in Refreshers, Refreshed(r) PROVE LabelsIInv'
<1>1. reading[r] \in Over
  BY DEF Refreshed, LabelsIInv, LabelTypes
<1>2. [d \in RegisteredDomains |-> verdict[d].enforced] \in Over /\ [d \in RegisteredDomains |-> verdict[d].content] \in Over
  BY DEF LabelsIInv, LabelTypes, Over, VerdictRow
<1>3. held' \in [override : Over, enforced : Over, content : Over]
  BY <1>1, <1>2 DEF Refreshed
<1>4. reading' \in [Refreshers -> Over \cup {None}]
  BY DEF Refreshed, LabelsIInv, LabelTypes
<1>5. LabelTypes'
  BY <1>3, <1>4 DEF Refreshed, LabelsIInv, LabelTypes
<1> QED BY <1>5, AgentStays, LogStays DEF Refreshed, LabelsIInv

LEMMA OverrideKeeps ==
  ASSUME LabelsIInv, NEW d \in RegisteredDomains, NEW c \in Cats, putCategoryOverride(d, c) \/ deleteCategoryOverride(d)
  PROVE  LabelsIInv'
<1>1. override' \in Over
  BY DEF putCategoryOverride, deleteCategoryOverride, SetCategoryOverride, DeleteCategoryOverride, LabelsIInv, LabelTypes, Over
<1>2. reading' = [reading EXCEPT !["handler"] = override'] /\ UNCHANGED <<verdict, blocked>> /\ Stored
  BY DEF putCategoryOverride, deleteCategoryOverride, afterCategoryChange
<1>3. LabelTypes'
  BY <1>1, <1>2 DEF Stored, LabelsIInv, LabelTypes
<1> QED BY <1>2, <1>3, AgentStays, LogStays DEF Stored, LabelsIInv

LEMMA VerdictKeeps ==
  ASSUME LabelsIInv, NEW d \in RegisteredDomains, NEW v \in VerdictRow, verdict' = [verdict EXCEPT ![d] = v],
         UNCHANGED <<override, blocked, reading>>, Stored
  PROVE  LabelsIInv'
<1>1. LabelTypes'
  BY DEF Stored, LabelsIInv, LabelTypes
<1> QED BY <1>1, AgentStays, LogStays DEF Stored, LabelsIInv

LEMMA ScoredKeeps == ASSUME LabelsIInv, NEW d \in RegisteredDomains, NEW e \in Security \cup {None}, Scored(d, e) PROVE LabelsIInv'
<1>1. e \in Cats \cup {None}
  BY CategoriesAssumption DEF Cats
<1>2. PICK v : v = [Unscored EXCEPT !.scored = TRUE, !.enforced = e]
  OBVIOUS
<1>3. v \in VerdictRow
  BY <1>1, <1>2 DEF Unscored, VerdictRow
<1>4. verdict' = [verdict EXCEPT ![d] = v] /\ UNCHANGED <<override, blocked, reading>> /\ Stored
  BY <1>2 DEF Scored
<1> QED BY <1>3, <1>4, VerdictKeeps

LEMMA ContentKeeps ==
  ASSUME LabelsIInv, NEW d \in RegisteredDomains, NEW c \in (Cats \ Security) \cup {None}, backfillContent(d, c) PROVE LabelsIInv'
<1>1. PICK o \in {c, None} : SetContentCategory(d, o)
  BY DEF backfillContent, categorize
<1>2. PICK v : v = [verdict[d] EXCEPT !.content = o, !.checked = TRUE]
  OBVIOUS
<1>3. verdict[d] \in VerdictRow
  BY DEF LabelsIInv, LabelTypes
<1>4. v \in VerdictRow
  BY <1>1, <1>2, <1>3 DEF VerdictRow
<1>5. verdict' = [verdict EXCEPT ![d] = v] /\ UNCHANGED <<override, blocked, reading>> /\ Stored
  BY <1>1, <1>2 DEF SetContentCategory, backfillContent
<1> QED BY <1>4, <1>5, VerdictKeeps

LEMMA ReadyKeeps == ASSUME LabelsIInv, Ready PROVE LabelsIInv'
<1>1. LabelTypes'
  BY DEF Ready, LabelsIInv, LabelTypes
<1> QED BY <1>1, AgentStays, LogStays DEF Ready, LabelsIInv

LEMMA BlockedKeeps == ASSUME LabelsIInv, NEW cats \in cleanBlockedCategories, putBlockedCategories(cats) PROVE LabelsIInv'
<1>1. AgentTypes' /\ HolderFollows' /\ LoadsWhatIsWanted'
  BY DEF putBlockedCategories, cleanBlockedCategories, Stored, LabelsIInv, AgentTypes, HolderFollows, LoadsWhatIsWanted,
         Settled, parseArchive
<1> QED BY <1>1, LabelsStay, LogStays DEF putBlockedCategories, Stored, LabelsIInv

\* The agent: while a load runs or another is to come, nothing is settled.
LEMMA SentIsTyped == ASSUME LabelsIInv PROVE DomainsFor(blocked) \subseteq Names \X Cats
<1>1. \A d \in RegisteredDomains : d \in Names /\ (held.override[d] # None => held.override[d] \in Cats)
  BY RegisteredIs DEF LabelsIInv, LabelTypes, Over
<1>2. BuiltinDomains(blocked) \subseteq Names \X Cats
  BY IndexesAre DEF BuiltinDomains, IsIndex
<1>3. blocked \subseteq Cats
  BY DEF LabelsIInv, AgentTypes
<1> QED BY <1>1, <1>2, <1>3 DEF DomainsFor

LEMMA ApplyKeeps == ASSUME LabelsIInv, ApplySettings PROVE LabelsIInv'
<1>1. /\ agent' = [blocked |-> blocked, domains |-> DomainsFor(blocked)]
      /\ holder' = [holder EXCEPT !.wanted = blocked, !.kick = @ \/ blocked # holder.wanted]
      /\ Agent
  BY DEF ApplySettings, SetWanted, replicatedSettings
<1>2. AgentTypes'
  BY <1>1, SentIsTyped DEF Agent, LabelsIInv, AgentTypes
<1>3. HolderFollows'
  BY <1>1 DEF LabelsIInv, AgentTypes, HolderFollows
<1>4. LoadsWhatIsWanted'
  <2> SUFFICES ASSUME Settled' PROVE holder'.idx = parseArchive(holder.wanted)'
    BY DEF LoadsWhatIsWanted
  <2>1. holder'.idx = holder.idx /\ holder'.wanted = blocked /\ holder'.at = holder.at /\ holder'.error = holder.error
        /\ (holder'.kick <=> (holder.kick \/ blocked # holder.wanted))
    BY <1>1 DEF LabelsIInv, AgentTypes
  <2>2. Settled /\ holder.wanted = blocked
    BY <2>1 DEF Settled
  <2>3. holder.idx = parseArchive(holder.wanted)
    BY <2>2 DEF LabelsIInv, LoadsWhatIsWanted
  <2>4. published' = published
    BY <1>1 DEF Agent
  <2> QED BY <2>1, <2>2, <2>3, <2>4 DEF parseArchive
<1> QED BY <1>1, <1>2, <1>3, <1>4, LabelsStay, LogStays DEF Agent, LabelsIInv

LEMMA HolderKeeps ==
  ASSUME LabelsIInv, Agent, agent' = agent, AgentTypes', holder'.wanted = holder.wanted, LoadsWhatIsWanted'
  PROVE  LabelsIInv'
<1>1. HolderFollows'
  BY DEF LabelsIInv, HolderFollows
<1> QED BY <1>1, LabelsStay, LogStays DEF Agent, LabelsIInv

LEMMA LoadKeeps == ASSUME LabelsIInv, load PROVE LabelsIInv'
<1>1. Agent /\ agent' = agent
  BY DEF load
<1>2. CASE holder.wanted = {}
  <2>1. holder' = [holder EXCEPT !.at = "wait", !.idx = {}, !.cats = {}, !.error = FALSE]
    BY <1>2 DEF load
  <2>2. AgentTypes' /\ holder'.wanted = holder.wanted /\ holder'.idx = {}
    BY <1>1, <2>1 DEF Agent, LabelsIInv, AgentTypes
  <2>3. LoadsWhatIsWanted'
    BY <1>2, <2>2 DEF LoadsWhatIsWanted, parseArchive
  <2> QED BY <1>1, <2>2, <2>3, HolderKeeps
<1>3. CASE holder.wanted # {}
  <2>1. holder' = [holder EXCEPT !.at = "loading", !.cats = holder.wanted]
    BY <1>3 DEF load
  <2>2. AgentTypes' /\ holder'.wanted = holder.wanted /\ holder'.at = "loading"
    BY <1>1, <2>1 DEF Agent, LabelsIInv, AgentTypes
  <2>3. LoadsWhatIsWanted'
    BY <2>2 DEF LoadsWhatIsWanted, Settled
  <2> QED BY <1>1, <2>2, <2>3, HolderKeeps
<1> QED BY <1>2, <1>3

LEMMA LoadedKeeps == ASSUME LabelsIInv, Loaded PROVE LabelsIInv'
<1>1. Agent /\ agent' = agent
  BY DEF Loaded
<1>2. CASE holder.cats = holder.wanted
  <2>1. holder' = [holder EXCEPT !.at = "wait", !.idx = parseArchive(holder.cats), !.error = FALSE]
    BY <1>2 DEF Loaded
  <2>2. parseArchive(holder.cats) \subseteq Names \X Cats
    BY ListsAre DEF LabelsIInv, IsIndex, parseArchive
  <2>3. AgentTypes' /\ holder'.wanted = holder.wanted /\ holder'.idx = parseArchive(holder.wanted)
    BY <1>1, <1>2, <2>1, <2>2 DEF Agent, LabelsIInv, AgentTypes
  <2>4. LoadsWhatIsWanted'
    BY <1>1, <2>3 DEF LoadsWhatIsWanted, parseArchive, Agent
  <2> QED BY <1>1, <2>3, <2>4, HolderKeeps
<1>3. CASE holder.cats # holder.wanted
  <2>1. holder' = [holder EXCEPT !.at = "load"]
    BY <1>3 DEF Loaded
  <2>2. AgentTypes' /\ holder'.wanted = holder.wanted /\ holder'.at = "load"
    BY <1>1, <2>1 DEF Agent, LabelsIInv, AgentTypes
  <2>3. LoadsWhatIsWanted'
    BY <2>2 DEF LoadsWhatIsWanted, Settled
  <2> QED BY <1>1, <2>2, <2>3, HolderKeeps
<1> QED BY <1>2, <1>3

LEMMA LoadFailsKeeps == ASSUME LabelsIInv, LoadFails PROVE LabelsIInv'
<1>1. Agent /\ agent' = agent /\ holder' = [holder EXCEPT !.at = "wait", !.error = TRUE]
  BY DEF LoadFails
<1>2. AgentTypes' /\ holder'.wanted = holder.wanted /\ holder'.error = TRUE
  BY <1>1 DEF Agent, LabelsIInv, AgentTypes
<1>3. LoadsWhatIsWanted'
  BY <1>2 DEF LoadsWhatIsWanted, Settled
<1> QED BY <1>1, <1>2, <1>3, HolderKeeps

LEMMA RunKeeps == ASSUME LabelsIInv, Run PROVE LabelsIInv'
<1>1. PICK kick \in {holder.kick, FALSE} : Agent /\ agent' = agent /\ holder' = [holder EXCEPT !.at = "load", !.kick = kick]
  BY DEF Run
<1>2. AgentTypes' /\ holder'.wanted = holder.wanted /\ holder'.at = "load"
  BY <1>1 DEF Agent, LabelsIInv, AgentTypes
<1>3. LoadsWhatIsWanted'
  BY <1>2 DEF LoadsWhatIsWanted, Settled
<1> QED BY <1>1, <1>2, <1>3, HolderKeeps

LEMMA AgentRestarts == ASSUME LabelsIInv, Restart PROVE LabelsIInv'
<1>1. Agent /\ agent' = agent /\ holder' = [Empty EXCEPT !.wanted = agent.blocked, !.kick = agent.blocked # {}]
  BY DEF Restart
<1>2. AgentTypes' /\ holder'.wanted = agent.blocked /\ holder'.at = "load"
  BY <1>1 DEF Agent, LabelsIInv, AgentTypes, Empty
<1>3. LoadsWhatIsWanted'
  BY <1>2 DEF LoadsWhatIsWanted, Settled
<1>4. holder.wanted = agent.blocked
  BY DEF LabelsIInv, HolderFollows
<1> QED BY <1>1, <1>2, <1>3, <1>4, HolderKeeps

\* The log: what is counted are the rows up to the cursor.
LEMMA CardOfTwo ==
  ASSUME NEW A, NEW B, IsFiniteSet(A), IsFiniteSet(B), A \cap B = {}
  PROVE  /\ IsFiniteSet(A \cup B) /\ Cardinality(A \cup B) = Cardinality(A) + Cardinality(B)
         /\ Cardinality(A) \in Nat /\ Cardinality(B) \in Nat
<1>1. Cardinality(A \cap B) = 0
  BY FS_EmptySet
<1>2. Cardinality(A) \in Nat /\ Cardinality(B) \in Nat
  BY FS_CardinalityType
<1>3. IsFiniteSet(A \cup B) /\ Cardinality(A \cup B) = Cardinality(A) + Cardinality(B) - Cardinality(A \cap B)
  BY FS_Union
<1> QED BY <1>1, <1>2, <1>3

\* The rows of a stretch of the log that have a label.
RowsOf(a, b, c) == {i \in a .. b : log[i].label = c}

LEMMA RowsAreFinite == ASSUME NEW a \in Nat, NEW b \in Nat, NEW S \in SUBSET (a .. b) PROVE IsFiniteSet(S)
<1>1. IsFiniteSet(a .. b)
  BY FS_Interval
<1> QED BY <1>1, FS_Subset

LEMMA RowsTyped ==
  ASSUME LogTypes
  PROVE  /\ DOMAIN log = 1 .. Len(log) /\ Len(log) \in Nat /\ cursor \in Nat /\ cursor <= Len(log)
         /\ \A i \in 1 .. Len(log) : log[i] \in Query /\ log[i].label \in Labels /\ log[i].name \in Names
<1>1. log \in Seq(Query) /\ cursor \in Nat /\ cursor <= Len(log)
  BY DEF LogTypes
<1>2. \A i \in 1 .. Len(log) : log[i] \in Query
  BY <1>1
<1> QED BY <1>1, <1>2 DEF Query

LEMMA LabelIs == ASSUME LabelTypes, NEW n \in Names, NEW local \in BOOLEAN PROVE queryCategory(n, local) \in Labels
<1>1. Of(held.override, n) \in Cats \cup {None} /\ Of(held.enforced, n) \in Cats \cup {None} /\ Of(held.content, n) \in Cats \cup {None}
  BY OfIs DEF LabelTypes
<1>2. Builtin(n) \in Cats \cup {None} /\ Database(n) \in Cats \cup {None}
  BY LookupIs, ListsAre DEF Builtin, Database
<1>3. Known(n).cat \in Labels
  BY <1>1, <1>2 DEF Known, Said, inDB, builtinCovers, Labels
<1>4. Category(n).cat \in Labels
  BY <1>1, <1>3 DEF Category, Said, Labels
<1> QED BY <1>4 DEF queryCategory, Labels

LEMMA RowKeeps ==
  ASSUME LabelsIInv, Quiet, LogTypes', CountsFollowRows' PROVE LabelsIInv'
BY LabelsStay, AgentStays DEF Quiet, LabelsIInv

LEMMA LabelEntriesKeeps ==
  ASSUME LabelsIInv, NEW n \in Names, NEW local \in BOOLEAN, labelEntries(n, local) PROVE LabelsIInv'
<1>1. PICK e : e = [name |-> n, local |-> local, label |-> queryCategory(n, local)]
  OBVIOUS
<1>2. e \in Query /\ log' = Append(log, e) /\ UNCHANGED <<cursor, rollup, page>> /\ Quiet
  BY <1>1, LabelIs DEF labelEntries, Query, LabelsIInv
<1>3. /\ log \in Seq(Query) /\ Len(log) \in Nat /\ cursor \in Nat /\ cursor <= Len(log)
      /\ DOMAIN log = 1 .. Len(log)
  BY DEF LabelsIInv, LogTypes
<1>4. /\ log' \in Seq(Query) /\ Len(log') = Len(log) + 1 /\ DOMAIN log' = 1 .. Len(log) + 1
      /\ \A i \in 1 .. Len(log) : log'[i] = log[i]
  BY <1>2, <1>3
<1>5. LogTypes'
  <2>1. DOMAIN page' \subseteq DOMAIN log' /\ cursor' <= Len(log')
    <3>1. DOMAIN page \subseteq 1 .. Len(log)
      BY <1>3 DEF LabelsIInv, LogTypes
    <3>2. 1 .. Len(log) \subseteq 1 .. Len(log) + 1
      BY <1>3
    <3> QED BY <1>2, <1>3, <1>4, <3>1, <3>2
  <2> QED BY <1>2, <1>4, <2>1 DEF LabelsIInv, LogTypes
<1>6. CountsFollowRows'
  <2> SUFFICES ASSUME NEW c \in Labels PROVE rollup'[c] = CountOf(1 .. cursor, c)'
    BY DEF CountsFollowRows
  <2>1. \A i \in 1 .. cursor : i \in 1 .. Len(log)
    BY <1>3
  <2>2. {i \in 1 .. cursor' : log'[i].label = c} = {i \in 1 .. cursor : log[i].label = c}
    BY <1>2, <1>4, <2>1
  <2>3. CountOf(1 .. cursor, c)' = CountOf(1 .. cursor, c)
    BY <2>2 DEF CountOf
  <2> QED BY <1>2, <2>3 DEF LabelsIInv, CountsFollowRows
<1> QED BY <1>2, <1>5, <1>6, RowKeeps

LEMMA FoldKeeps == ASSUME LabelsIInv, RollupAdvance PROVE LabelsIInv'
<1>1. PICK upto \in cursor + 1 .. Len(log) :
        cursor' = upto /\ rollup' = [c \in Labels |-> rollup[c] + CountOf(cursor + 1 .. upto, c)]
  BY DEF RollupAdvance
<1>2. Len(log) \in Nat /\ cursor \in Nat /\ upto \in Nat /\ cursor <= upto /\ upto <= Len(log) /\ log' = log /\ page' = page /\ Quiet
  BY RowsTyped DEF LabelsIInv, RollupAdvance
<1>3. ASSUME NEW c \in Labels
      PROVE  /\ CountOf(1 .. upto, c) = CountOf(1 .. cursor, c) + CountOf(cursor + 1 .. upto, c)
             /\ CountOf(cursor + 1 .. upto, c) \in Nat
  <2>1. RowsOf(1, upto, c) = RowsOf(1, cursor, c) \cup RowsOf(cursor + 1, upto, c)
    <3>1. 1 .. upto = 1 .. cursor \cup cursor + 1 .. upto
      BY <1>2
    <3> QED BY <3>1 DEF RowsOf
  <2>2. RowsOf(1, cursor, c) \cap RowsOf(cursor + 1, upto, c) = {}
    <3>1. (1 .. cursor) \cap (cursor + 1 .. upto) = {}
      BY <1>2
    <3> QED BY <3>1 DEF RowsOf
  <2>3. IsFiniteSet(RowsOf(1, cursor, c)) /\ IsFiniteSet(RowsOf(cursor + 1, upto, c))
    <3>1. RowsOf(1, cursor, c) \in SUBSET (1 .. cursor) /\ RowsOf(cursor + 1, upto, c) \in SUBSET (cursor + 1 .. upto)
      BY DEF RowsOf
    <3>2. cursor + 1 \in Nat /\ 1 \in Nat
      BY <1>2
    <3> QED BY <1>2, <3>1, <3>2, RowsAreFinite
  <2>4. /\ Cardinality(RowsOf(1, upto, c)) = Cardinality(RowsOf(1, cursor, c)) + Cardinality(RowsOf(cursor + 1, upto, c))
        /\ Cardinality(RowsOf(cursor + 1, upto, c)) \in Nat
    BY <2>1, <2>2, <2>3, CardOfTwo
  <2> QED BY <2>4 DEF RowsOf, CountOf
<1>4. LogTypes'
  <2>1. rollup \in [Labels -> Nat]
    BY DEF LabelsIInv, LogTypes
  <2>2. rollup' \in [Labels -> Nat]
    BY <1>1, <1>3, <2>1
  <2> QED BY <1>1, <1>2, <2>2 DEF LabelsIInv, LogTypes
<1>5. CountsFollowRows'
  <2> SUFFICES ASSUME NEW c \in Labels PROVE rollup'[c] = CountOf(1 .. cursor, c)'
    BY DEF CountsFollowRows
  <2>1. CountOf(1 .. cursor, c)' = CountOf(1 .. upto, c)
    BY <1>1, <1>2 DEF CountOf
  <2>2. rollup[c] = CountOf(1 .. cursor, c)
    BY DEF LabelsIInv, CountsFollowRows
  <2> QED BY <1>1, <1>3, <2>1, <2>2
<1> QED BY <1>2, <1>4, <1>5, RowKeeps

LEMMA PageKeeps == ASSUME LabelsIInv, Relabel PROVE LabelsIInv'
<1>1. PICK found : /\ found = {i \in OtherQueries : queryCategory(log[i].name, log[i].local) # "other"}
                   /\ page' = [i \in found |-> queryCategory(log[i].name, log[i].local)]
  BY DEF Relabel
<1>2. Quiet /\ UNCHANGED <<log, cursor, rollup>>
  BY DEF Relabel
<1>3. found \subseteq DOMAIN log
  BY <1>1 DEF OtherQueries
<1>4. \A i \in found : page'[i] \in Labels \ {"other"}
  <2> SUFFICES ASSUME NEW i \in found PROVE queryCategory(log[i].name, log[i].local) \in Labels \ {"other"}
    BY <1>1
  <2>1. log[i] \in Query
    BY <1>3, RowsTyped DEF LabelsIInv
  <2>2. log[i].name \in Names /\ log[i].local \in BOOLEAN
    BY <2>1 DEF Query
  <2>3. queryCategory(log[i].name, log[i].local) # "other"
    BY <1>1
  <2> QED BY <2>2, <2>3, LabelIs DEF LabelsIInv
<1>5. LogTypes'
  BY <1>1, <1>2, <1>3, <1>4 DEF LabelsIInv, LogTypes
<1>6. CountsFollowRows'
  BY <1>2 DEF LabelsIInv, CountsFollowRows, CountOf
<1> QED BY <1>2, <1>5, <1>6, RowKeeps

\* The rows that move and are counted leave "other" and come to their new labels.
LEMMA MoveKeeps == ASSUME LabelsIInv, RelabelContent PROVE LabelsIInv'
<1>1. PICK moved : moved = (DOMAIN page) \cap OtherQueries
  OBVIOUS
<1>2. PICK counts : counts = {i \in moved : i <= cursor}
  OBVIOUS
<1>3. /\ log' = [i \in DOMAIN log |-> IF i \in moved THEN [log[i] EXCEPT !.label = page[i]] ELSE log[i]]
      /\ rollup' = [c \in Labels |->
             IF c = "other" THEN IF rollup[c] > Cardinality(counts) THEN rollup[c] - Cardinality(counts) ELSE 0
             ELSE rollup[c] + Cardinality({i \in counts : page[i] = c})]
      /\ page' = <<>> /\ cursor' = cursor /\ Quiet
  BY <1>1, <1>2 DEF RelabelContent, FoldedRows
<1>4. /\ DOMAIN log = 1 .. Len(log) /\ Len(log) \in Nat /\ cursor \in Nat /\ cursor <= Len(log)
      /\ \A i \in 1 .. Len(log) : log[i] \in Query /\ log[i].label \in Labels
      /\ \A c \in Labels : rollup[c] \in Nat /\ rollup[c] = Cardinality(RowsOf(1, cursor, c))
  BY RowsTyped DEF LabelsIInv, LogTypes, CountsFollowRows, CountOf, RowsOf
<1>5. /\ moved \subseteq 1 .. Len(log) /\ counts \subseteq 1 .. cursor
      /\ \A i \in moved : log[i].label = "other" /\ page[i] \in Labels \ {"other"}
  <2>1. moved \subseteq 1 .. Len(log) /\ \A i \in moved : log[i].label = "other" /\ page[i] \in Labels \ {"other"}
    BY <1>1, <1>4 DEF LabelsIInv, LogTypes, OtherQueries
  <2>2. \A i \in counts : i \in 1 .. Len(log) /\ i <= cursor
    BY <1>2, <2>1
  <2>3. \A i \in 1 .. Len(log) : i <= cursor => i \in 1 .. cursor
    BY <1>4
  <2> QED BY <2>1, <2>2, <2>3
<1>6. /\ DOMAIN log' = 1 .. Len(log)
      /\ \A i \in 1 .. Len(log) : /\ log'[i] \in Query
                                  /\ log'[i].label = IF i \in moved THEN page[i] ELSE log[i].label
  <2>1. ASSUME NEW i \in 1 .. Len(log)
        PROVE  log'[i] \in Query /\ log'[i].label = IF i \in moved THEN page[i] ELSE log[i].label
    <3>1. CASE i \in moved
      <4>1. log'[i] = [log[i] EXCEPT !.label = page[i]]
        BY <1>3, <1>4, <3>1
      <4> QED BY <1>4, <1>5, <3>1, <4>1 DEF Query
    <3>2. CASE i \notin moved
      BY <1>3, <1>4, <3>2
    <3> QED BY <3>1, <3>2
  <2> QED BY <1>3, <1>4, <2>1
<1>7. PICK After : After = [c \in Labels |-> {i \in 1 .. cursor : log'[i].label = c}]
  OBVIOUS
<1>8. /\ IsFiniteSet(counts) /\ \A c \in Labels : IsFiniteSet(After[c]) /\ IsFiniteSet(RowsOf(1, cursor, c))
      /\ \A c : IsFiniteSet({i \in counts : page[i] = c})
  <2>1. \A S \in SUBSET (1 .. cursor) : IsFiniteSet(S)
    BY <1>4, RowsAreFinite
  <2>2. \A c \in Labels : After[c] \in SUBSET (1 .. cursor) /\ RowsOf(1, cursor, c) \in SUBSET (1 .. cursor)
    BY <1>7 DEF RowsOf
  <2>3. \A c : {i \in counts : page[i] = c} \in SUBSET (1 .. cursor)
    BY <1>5
  <2> QED BY <1>5, <2>1, <2>2, <2>3
<1>9. \A i \in 1 .. cursor : i \in 1 .. Len(log) /\ (i \in moved <=> i \in counts)
  BY <1>2, <1>4
<1>10. ASSUME NEW c \in Labels, c # "other"
       PROVE  Cardinality(After[c]) = rollup[c] + Cardinality({i \in counts : page[i] = c})
              /\ Cardinality({i \in counts : page[i] = c}) \in Nat
  <2>1. PICK new : new = {i \in counts : page[i] = c}
    OBVIOUS
  <2>2. After[c] = RowsOf(1, cursor, c) \cup new
    BY <1>5, <1>6, <1>7, <1>9, <1>10, <2>1 DEF RowsOf
  <2>3. RowsOf(1, cursor, c) \cap new = {}
    BY <1>2, <1>5, <1>10, <2>1 DEF RowsOf
  <2>4. IsFiniteSet(RowsOf(1, cursor, c)) /\ IsFiniteSet(new)
    BY <1>8, <2>1
  <2>5. Cardinality(After[c]) = Cardinality(RowsOf(1, cursor, c)) + Cardinality(new) /\ Cardinality(new) \in Nat
    BY <2>2, <2>3, <2>4, CardOfTwo
  <2> QED BY <1>4, <2>1, <2>5
<1>11. "other" \in Labels
  BY DEF Labels
<1>12. /\ rollup["other"] = Cardinality(After["other"]) + Cardinality(counts)
       /\ Cardinality(After["other"]) \in Nat /\ Cardinality(counts) \in Nat
  <2>1. RowsOf(1, cursor, "other") = After["other"] \cup counts
    BY <1>2, <1>5, <1>6, <1>7, <1>9, <1>11 DEF RowsOf
  <2>2. After["other"] \cap counts = {}
    BY <1>5, <1>6, <1>7, <1>9, <1>11
  <2>3. IsFiniteSet(After["other"]) /\ IsFiniteSet(counts)
    BY <1>8, <1>11
  <2> QED BY <1>4, <1>11, <2>1, <2>2, <2>3, CardOfTwo
<1>13. \A c \in Labels : rollup'[c] = Cardinality(After[c]) /\ rollup'[c] \in Nat
  <2> SUFFICES ASSUME NEW c \in Labels PROVE rollup'[c] = Cardinality(After[c]) /\ rollup'[c] \in Nat
    OBVIOUS
  <2>1. CASE c = "other"
    <3>1. rollup'[c] = IF rollup[c] > Cardinality(counts) THEN rollup[c] - Cardinality(counts) ELSE 0
      BY <1>3, <2>1
    <3> QED BY <1>12, <2>1, <3>1
  <2>2. CASE c # "other"
    <3>1. rollup'[c] = rollup[c] + Cardinality({i \in counts : page[i] = c})
      BY <1>3, <2>2
    <3>2. Cardinality(After[c]) = rollup[c] + Cardinality({i \in counts : page[i] = c})
          /\ Cardinality({i \in counts : page[i] = c}) \in Nat
      BY <1>10, <2>2
    <3>3. rollup[c] \in Nat
      BY <1>4
    <3>4. PICK m \in Nat : m = Cardinality({i \in counts : page[i] = c})
      BY <3>2
    <3> QED BY <3>1, <3>2, <3>3, <3>4
  <2> QED BY <2>1, <2>2
<1>14. LogTypes'
  <2>1. log' \in Seq(Query) /\ Len(log') = Len(log)
    <3>1. log' \in [1 .. Len(log) -> Query]
      <4>1. log' = [i \in 1 .. Len(log) |-> log'[i]]
        BY <1>3, <1>4
      <4> QED BY <1>6, <4>1
    <3> QED BY <1>4, <3>1
  <2>2. rollup' \in [Labels -> Nat]
    <3>1. rollup' = [c \in Labels |-> rollup'[c]]
      BY <1>3
    <3> QED BY <1>13, <3>1
  <2>3. DOMAIN page' = {}
    BY <1>3
  <2> QED BY <1>3, <1>4, <2>1, <2>2, <2>3 DEF LogTypes
<1>15. CountsFollowRows'
  <2> SUFFICES ASSUME NEW c \in Labels PROVE rollup'[c] = CountOf(1 .. cursor, c)'
    BY DEF CountsFollowRows
  <2>1. CountOf(1 .. cursor, c)' = Cardinality({i \in 1 .. cursor : log'[i].label = c})
    BY <1>3 DEF CountOf
  <2> QED BY <1>7, <1>13, <2>1
<1> QED BY <1>3, <1>14, <1>15, RowKeeps

LEMMA LabelsNext == LabelsIInv /\ [CgNext]_cgVars => LabelsIInv'
<1> SUFFICES ASSUME LabelsIInv, [CgNext]_cgVars PROVE LabelsIInv'
  OBVIOUS
<1>1. CASE UNCHANGED cgVars
  BY <1>1, LabelsStay, AgentStays, LogStays DEF cgVars, LabelsIInv
<1>2. ASSUME NEW r \in Refreshers, Refreshed(r) \/ (r = "ticker" /\ Refresh(r)) PROVE LabelsIInv'
  BY <1>2, RefreshKeeps, RefreshedKeeps
<1>3. ASSUME NEW d \in RegisteredDomains,
             \/ deleteCategoryOverride(d)
             \/ \E c \in Cats : putCategoryOverride(d, c)
             \/ \E c \in Security \cup {None} : Scored(d, c)
             \/ \E c \in (Cats \ Security) \cup {None} : backfillContent(d, c)
      PROVE  LabelsIInv'
  <2>1. CASE deleteCategoryOverride(d)
    <3>1. CASE Cats = {}
      <4>1. override[d] = None
        BY <3>1 DEF LabelsIInv, LabelTypes, Over
      <4> QED BY <2>1, <4>1 DEF deleteCategoryOverride
    <3>2. CASE Cats # {}
      BY <2>1, <3>2, OverrideKeeps
    <3> QED BY <3>1, <3>2
  <2> QED BY <1>3, <2>1, OverrideKeeps, ScoredKeeps, ContentKeeps
<1>4. ASSUME NEW n \in Names, NEW local \in BOOLEAN, labelEntries(n, local) PROVE LabelsIInv'
  BY <1>4, LabelEntriesKeeps
<1>5. ASSUME NEW cats \in cleanBlockedCategories, putBlockedCategories(cats) PROVE LabelsIInv'
  BY <1>5, BlockedKeeps
<1>6. CASE RollupAdvance \/ Relabel \/ RelabelContent \/ Ready
  BY <1>6, FoldKeeps, PageKeeps, MoveKeeps, ReadyKeeps
<1>7. CASE ApplySettings \/ load \/ Loaded \/ LoadFails \/ Run \/ Restart
  BY <1>7, ApplyKeeps, LoadKeeps, LoadedKeeps, LoadFailsKeeps, RunKeeps, AgentRestarts
<1> QED BY <1>1, <1>2, <1>3, <1>4, <1>5, <1>6, <1>7 DEF CgNext

\* Labels, counts and blocked categories agree, for any names and suffixes, any
\* database and any interleaving of refreshes, loads, folds and relabelling: the
\* counts are those of the rows, and what an up-to-date agent lets through the
\* control plane does not label as blocked, but for the two kinds of names that
\* its corrections get wrong.
THEOREM LabelsHold == CgSpec => []CategoriesInv
<1> QED BY LabelsStart, LabelsNext, LabelsIInvSuffices, PTL DEF CgSpec
=============================================================================
