-------------------------- MODULE AccountsProofs --------------------------
(* Proofs about the control plane's sign-in and accounts, for any number of  *)
(* requests.  SecondFactor: no code is accepted twice and the recovery codes *)
(* that are left are exactly the unused ones, whatever the number of         *)
(* challenges, secrets, lists, codes and time steps.  Accounts: no session   *)
(* or token outlives its account except by a race the code leaves open,      *)
(* setup is completed once, the last administrator stays, and a single       *)
(* sign-on gets its own subject's account, whatever the number of rows,      *)
(* names and subjects.                                                       *)
EXTENDS SecondFactor, Accounts, FiniteSetTheorems, TLAPS

\* What a request keeps, and where a handler may be.
Work == [op : Ops, at : Steps, ch : Challenge \cup {NoToken},
         kind : {"none", "verify", "setup"}, step : 0..MaxStep + 1, code : 0..NCodes,
         secret : 0..MaxSecrets, list : Lists, tries : 0..SwapTries]

Path ==
  [login      |-> {"unsent", "factor", "policy", "challenge", "session", "done"},
   verify     |-> {"attempt", "guess", "code", "spend", "list", "swap", "close", "session"},
   setup      |-> {"factor", "pending"},
   enable     |-> {"attempt", "guess", "code", "enable", "close", "session"},
   disable    |-> {"guess", "policy", "code", "spend", "list", "swap", "off"},
   regenerate |-> {"guess", "code", "spend", "codes"},
   reset      |-> {"wipe", "drop", "signout"}]

\* Where a handler holds a code it has looked at, and where none is looked at next.
Holding   == {"spend", "list", "swap", "enable"}
Branching == {"unsent", "code", "list", "done"}

\* A request that holds a code holds one it may.
HoldsInv(w) ==
  /\ w.at \in Path[w.op]
  /\ w.at = "enable" => w.secret # 0
  /\ w.at \in {"list", "swap"} => w.code # 0
  /\ w.at = "swap" => w.code \in w.list.left

\* No accepted step is newer than the last one recorded for its secret, and no
\* pending secret has been used.
StepsInv ==
  /\ factor.secret <= made.secrets /\ factor.pending <= made.secrets
  /\ factor.pending # 0 => factor.pending # factor.secret
  /\ \A u \in usedSteps : /\ u.secret # 0 /\ u.secret <= made.secrets
                          /\ u.secret = factor.pending => factor.pending = 0
                          /\ u.secret = factor.secret => u.step <= factor.last

\* The codes used are of lists made; without a list no code is left.
CodesInv ==
  /\ factor.codes.n <= made.lists
  /\ \A u \in usedCodes : u.list # 0 /\ u.list <= made.lists
  /\ factor.codes.n = 0 => factor.codes.left = {}
  /\ RecoveryListExact

SpendInv == MfaTypeOK /\ StepsInv /\ CodesInv /\ \A r \in Requests : HoldsInv(work[r])

-----------------------------------------------------------------------------
(* The handlers.                                                           *)

LEMMA OpNames == Ops = {"login", "verify", "setup", "enable", "disable", "regenerate", "reset"}
BY DEF Ops, Handlers

\* A statement that goes well leads on in its handler, and to no statement
\* that needs a code in hand.
LEMMA Onward ==
  ASSUME NEW op \in Ops, NEW s \in Path[op], s \notin Branching
  PROVE  /\ Handlers[op][s] \in (Path[op] \cup {"done"}) \ Holding
         /\ Handlers[op][s] \in Steps
<1>1. CASE op = "login"
  BY <1>1 DEF Path, Branching, Holding, Steps, Handlers, login
<1>2. CASE op = "verify"
  BY <1>2 DEF Path, Branching, Holding, Steps, Handlers, mfaVerify
<1>3. CASE op = "setup"
  BY <1>3 DEF Path, Branching, Holding, Steps, Handlers, mfaSetup
<1>4. CASE op = "enable"
  BY <1>4 DEF Path, Branching, Holding, Steps, Handlers, mfaEnable
<1>5. CASE op = "disable"
  BY <1>5 DEF Path, Branching, Holding, Steps, Handlers, mfaDisable
<1>6. CASE op = "regenerate"
  BY <1>6 DEF Path, Branching, Holding, Steps, Handlers, mfaRegenerateCodes
<1>7. CASE op = "reset"
  BY <1>7 DEF Path, Branching, Holding, Steps, Handlers, resetUserMFA
<1> QED BY <1>1, <1>2, <1>3, <1>4, <1>5, <1>6, <1>7, OpNames

\* The facts about one request's locals that a step of it must bring about.
Moves(r) ==
  /\ work' \in [Requests -> Work]
  /\ HoldsInv(work'[r])
  /\ \A q \in Requests \ {r} : work'[q] = work[q]

LEMMA WorkType == MfaTypeOK => work \in [Requests -> Work]
BY DEF MfaTypeOK, Work

LEMMA IdleType == NCodes \in Nat => Idle \in Work
<1> SUFFICES ASSUME NCodes \in Nat PROVE Idle \in Work
  OBVIOUS
<1>1. "login" \in Ops /\ "unsent" \in Steps
  BY OpNames DEF Steps
<1>2. 0 \in 0..MaxStep + 1 /\ 0 \in 0..NCodes /\ 0 \in 0..MaxSecrets /\ 0 \in 0..MaxLists /\ 0 \in 0..SwapTries
  BY SecondFactorConstants
<1> QED BY <1>1, <1>2 DEF Idle, Work, Lists

\* A request goes to a place of its handler where it holds no code.
LEMMA GoMoves ==
  ASSUME SpendInv, NEW r \in Requests, NEW s \in Steps, Go(r, s), s \notin Holding,
         s \in Path[work[r].op] \cup {"done"}
  PROVE  Moves(r) /\ work'[r].at = s
<1>1. work \in [Requests -> Work] /\ Idle \in Work
  BY WorkType, IdleType, SecondFactorConstants DEF SpendInv
<1>2. CASE s = "done"
  <2>1. work' = [work EXCEPT ![r] = [Idle EXCEPT !.at = "done"]]
    BY <1>2 DEF Go
  <2>2. [Idle EXCEPT !.at = "done"] \in Work
    BY <1>1, <1>2 DEF Work
  <2>3. HoldsInv([Idle EXCEPT !.at = "done"])
    BY DEF HoldsInv, Idle, Path
  <2> QED BY <1>1, <1>2, <2>1, <2>2, <2>3 DEF Moves, Idle
<1>3. CASE s # "done"
  <2>1. work' = [work EXCEPT ![r] = [@ EXCEPT !.at = s]]
    BY <1>3 DEF Go
  <2>2. [work[r] EXCEPT !.at = s] \in Work
    BY <1>1 DEF Work
  <2>3. [work[r] EXCEPT !.at = s].at = s /\ [work[r] EXCEPT !.at = s].op = work[r].op
    BY <1>1 DEF Work
  <2>4. HoldsInv([work[r] EXCEPT !.at = s])
    BY <1>3, <2>3 DEF HoldsInv, Holding
  <2> QED BY <1>1, <2>1, <2>2, <2>3, <2>4 DEF Moves
<1> QED BY <1>2, <1>3

LEMMA DoneMoves ==
  ASSUME SpendInv, NEW r \in Requests, Done(r)
  PROVE  Moves(r) /\ work'[r].at = "done"
BY GoMoves DEF Done, Steps, Holding

LEMMA ThenMoves ==
  ASSUME SpendInv, NEW r \in Requests, Then(r), work[r].at \notin Branching
  PROVE  Moves(r) /\ work'[r].at = Handlers[work[r].op][work[r].at] /\ work'[r].at \notin Holding
<1>1. work[r] \in Work /\ HoldsInv(work[r])
  BY WorkType DEF SpendInv
<1>2. work[r].op \in Ops /\ work[r].at \in Path[work[r].op]
  BY <1>1 DEF Work, HoldsInv
<1> DEFINE s == Handlers[work[r].op][work[r].at]
<1>3. s \in (Path[work[r].op] \cup {"done"}) \ Holding /\ s \in Steps
  BY <1>2, Onward
<1>4. Go(r, s)
  BY DEF Then
<1> HIDE DEF s
<1>5. Moves(r) /\ work'[r].at = s
  BY <1>3, <1>4, GoMoves
<1> QED BY <1>3, <1>5 DEF s

-----------------------------------------------------------------------------
(* Every step keeps the invariant.                                         *)

\* Types of what the requests share.
FactorType == factor \in [secret : 0..MaxSecrets, pending : 0..MaxSecrets, last : 0..MaxStep + 1, codes : Lists]
TableType  == challenges \in [Challenge -> [kind : {"none", "verify", "setup"}, attempts : 0..MaxAttempts, live : BOOLEAN]]
CountType  == /\ guesses \in 0..CodeLimit /\ clock \in 1..MaxStep
              /\ sessions \subseteq {"earlier", "password", "code"}
              /\ compared \in [Challenge -> Nat]
MadeType   == made \in [secrets : 0..MaxSecrets, lists : 0..MaxLists]
UsedType   == usedSteps \subseteq Totp /\ usedCodes \subseteq [list : 0..MaxLists, n : 1..NCodes]

LEMMA TypeParts ==
  MfaTypeOK <=> FactorType /\ TableType /\ CountType /\ MadeType /\ UsedType /\ work \in [Requests -> Work]
BY DEF MfaTypeOK, FactorType, TableType, CountType, MadeType, UsedType, Work

\* What is spent and what is left does not depend on the rest.
LEMMA DataKept ==
  ASSUME SpendInv, UNCHANGED <<factor, made, usedSteps, usedCodes>>
  PROVE  StepsInv' /\ CodesInv' /\ FactorType' /\ MadeType' /\ UsedType'
<1>1. FactorType /\ MadeType /\ UsedType
  BY TypeParts DEF SpendInv
<1> QED BY <1>1 DEF SpendInv, StepsInv, CodesInv, RecoveryListExact, FactorType, MadeType, UsedType

LEMMA Combine ==
  ASSUME SpendInv, NEW r \in Requests, Moves(r), StepsInv', CodesInv',
         FactorType', TableType', CountType', MadeType', UsedType'
  PROVE  SpendInv'
<1>1. \A q \in Requests : HoldsInv(work'[q])
  BY DEF Moves, SpendInv
<1>2. work' \in [Requests -> Work]
  BY DEF Moves
<1>3. MfaTypeOK'
  BY <1>2 DEF MfaTypeOK, FactorType, TableType, CountType, MadeType, UsedType, Work
<1> QED BY <1>1, <1>3 DEF SpendInv, HoldsInv

\* A request arrives, with no code in hand.
Sends(r, op, s, c) == work' = [work EXCEPT ![r] = [@ EXCEPT !.op = op, !.at = s, !.ch = c]]

LEMMA SendMoves ==
  ASSUME SpendInv, NEW r \in Requests, NEW op \in Ops, NEW s \in Path[op], s \notin Holding,
         NEW c \in Challenge \cup {NoToken}, Sends(r, op, s, c)
  PROVE  Moves(r)
<1>1. work \in [Requests -> Work]
  BY WorkType DEF SpendInv
<1>2. s \in Steps
  BY OpNames DEF Path, Steps
<1>3. [work[r] EXCEPT !.op = op, !.at = s, !.ch = c] \in Work
  BY <1>1, <1>2 DEF Work
<1>4. HoldsInv([work[r] EXCEPT !.op = op, !.at = s, !.ch = c])
  BY <1>1 DEF HoldsInv, Holding, Work
<1> QED BY <1>1, <1>3, <1>4 DEF Moves, Sends

LEMMA ArriveStep == ASSUME SpendInv, NEW r \in Requests, Arrive(r) PROVE Moves(r)
<1>1. work[r] \in Work /\ work \in [Requests -> Work]
  BY WorkType DEF SpendInv
<1>2. work[r].ch \in Challenge \cup {NoToken}
  BY <1>1 DEF Work
<1>3. ASSUME NEW op \in Ops, NEW s \in Path[op], s \notin Holding,
             work' = [work EXCEPT ![r].op = op, ![r].at = s]
      PROVE  Moves(r)
  <2>1. Sends(r, op, s, work[r].ch)
    BY <1>1, <1>3 DEF Work, Sends
  <2> QED BY <1>2, <1>3, <2>1, SendMoves
<1>4. ASSUME NEW op \in Ops, NEW s \in Path[op], s \notin Holding, NEW c \in Challenge,
             work' = [work EXCEPT ![r].op = op, ![r].ch = c, ![r].at = s]
      PROVE  Moves(r)
  <2>1. Sends(r, op, s, c)
    BY <1>1, <1>4 DEF Work, Sends
  <2> QED BY <1>4, <2>1, SendMoves
<1>5. /\ "factor" \in Path["login"] \ Holding /\ "wipe" \in Path["reset"] \ Holding
      /\ "attempt" \in Path["verify"] \ Holding /\ "factor" \in Path["setup"] \ Holding
      /\ {"guess", "attempt"} \subseteq Path["enable"] \ Holding
      /\ "guess" \in Path["disable"] \ Holding /\ "guess" \in Path["regenerate"] \ Holding
  BY DEF Path, Holding
<1>6. ASSUME NEW op \in {"setup", "enable"}, mfaAccount(r, op) PROVE Moves(r)
  <2>1. CASE op = "setup"
    BY <1>3, <1>4, <1>5, <1>6, <2>1, OpNames DEF mfaAccount
  <2>2. CASE op = "enable"
    BY <1>3, <1>4, <1>5, <1>6, <2>2, OpNames DEF mfaAccount
  <2> QED BY <1>6, <2>1, <2>2
<1> QED BY <1>3, <1>4, <1>5, <1>6, OpNames DEF Arrive

\* Steps that leave the account and its history alone.
Shared == <<factor, made, usedSteps, usedCodes>>

LEMMA KindMoves ==
  ASSUME SpendInv, NEW r \in Requests, work[r].op = "login", NEW k \in {"verify", "setup"},
         work' = [work EXCEPT ![r].kind = k, ![r].at = "challenge"]
  PROVE  Moves(r)
<1>1. work[r] \in Work /\ work \in [Requests -> Work]
  BY WorkType DEF SpendInv
<1>2. work' = [work EXCEPT ![r] = [@ EXCEPT !.kind = k, !.at = "challenge"]]
  BY <1>1 DEF Work
<1>3. [work[r] EXCEPT !.kind = k, !.at = "challenge"] \in Work
  BY <1>1 DEF Work, Steps
<1>4. HoldsInv([work[r] EXCEPT !.kind = k, !.at = "challenge"])
  BY <1>1 DEF HoldsInv, Work, Path
<1> QED BY <1>1, <1>2, <1>3, <1>4 DEF Moves

LEMMA AskMoves ==
  ASSUME SpendInv, NEW r \in Requests, mfaEnabled(r) \/ passwordLoginNeedsMFA(r)
  PROVE  Moves(r)
<1>1. work[r].at \notin Branching
  BY DEF mfaEnabled, passwordLoginNeedsMFA, At, Branching
<1>2. Then(r) \/ Done(r) => Moves(r)
  BY <1>1, ThenMoves, DoneMoves
<1> QED BY <1>2, KindMoves DEF mfaEnabled, passwordLoginNeedsMFA, Is

\* A code is looked at: it is held, or the request ends.
LEMMA CodeMoves ==
  ASSUME SpendInv, NEW r \in Requests, checkCode(r) \/ CheckPending(r)
  PROVE  Moves(r)
<1>1. work[r] \in Work /\ work \in [Requests -> Work] /\ HoldsInv(work[r])
  BY WorkType DEF SpendInv
<1>2. ASSUME NEW t \in 0..MaxStep + 1, work[r].op \in {"verify", "disable", "regenerate"},
             work' = [work EXCEPT ![r].step = t, ![r].at = "spend"]
      PROVE  Moves(r)
  <2>1. work' = [work EXCEPT ![r] = [@ EXCEPT !.step = t, !.at = "spend"]]
    BY <1>1, <1>2 DEF Work
  <2>2. [work[r] EXCEPT !.step = t, !.at = "spend"] \in Work
    BY <1>1, <1>2 DEF Work, Steps
  <2>3. HoldsInv([work[r] EXCEPT !.step = t, !.at = "spend"])
    BY <1>1, <1>2 DEF HoldsInv, Work, Path
  <2> QED BY <1>1, <2>1, <2>2, <2>3 DEF Moves
<1>3. ASSUME NEW n \in 1..NCodes, work[r].op \in {"verify", "disable"},
             work' = [work EXCEPT ![r].code = n, ![r].at = "list"]
      PROVE  Moves(r)
  <2>1. work' = [work EXCEPT ![r] = [@ EXCEPT !.code = n, !.at = "list"]]
    BY <1>1, <1>3 DEF Work
  <2>2. [work[r] EXCEPT !.code = n, !.at = "list"] \in Work
    <3>1. n \in 0..NCodes /\ "list" \in Steps
      BY <1>3, SecondFactorConstants DEF Steps
    <3> QED BY <1>1, <3>1 DEF Work
  <2>3. HoldsInv([work[r] EXCEPT !.code = n, !.at = "list"])
    BY <1>1, <1>3, SecondFactorConstants DEF HoldsInv, Work, Path
  <2> QED BY <1>1, <2>1, <2>2, <2>3 DEF Moves
<1>4. ASSUME NEW t \in 0..MaxStep + 1, work[r].op = "enable", factor.pending # 0,
             work' = [work EXCEPT ![r].step = t, ![r].secret = factor.pending, ![r].at = mfaEnable.code]
      PROVE  Moves(r)
  <2>1. mfaEnable.code = "enable" /\ factor.pending \in 0..MaxSecrets
    BY TypeParts DEF mfaEnable, SpendInv, FactorType
  <2>2. work' = [work EXCEPT ![r] = [@ EXCEPT !.step = t, !.secret = factor.pending, !.at = "enable"]]
    BY <1>1, <1>4, <2>1 DEF Work
  <2>3. [work[r] EXCEPT !.step = t, !.secret = factor.pending, !.at = "enable"] \in Work
    BY <1>1, <1>4, <2>1 DEF Work, Steps
  <2>4. HoldsInv([work[r] EXCEPT !.step = t, !.secret = factor.pending, !.at = "enable"])
    BY <1>1, <1>4 DEF HoldsInv, Work, Path
  <2> QED BY <1>1, <2>2, <2>3, <2>4 DEF Moves
<1>5. CASE checkCode(r)
  BY <1>2, <1>3, <1>5, DoneMoves DEF checkCode, Is, Totp
<1>6. CASE CheckPending(r)
  BY <1>4, <1>6, DoneMoves DEF CheckPending, Is, Totp
<1> QED BY <1>5, <1>6

LEMMA CalmStep ==
  ASSUME SpendInv, NEW r \in Requests,
         \/ Arrive(r) \/ mfaEnabled(r) \/ passwordLoginNeedsMFA(r) \/ CreateMFAChallenge(r)
         \/ MFAChallengeAttempt(r) \/ allowCodeGuess(r) \/ checkCode(r) \/ CheckPending(r)
         \/ DeleteMFAChallenge(r) \/ DeleteMFAChallengesForUser(r) \/ startSession(r) \/ SignOut(r)
  PROVE  SpendInv'
<1>1. FactorType /\ TableType /\ CountType /\ MadeType /\ UsedType /\ work[r] \in Work
  BY TypeParts DEF SpendInv
<1>2. UNCHANGED Shared
  BY DEF Shared, Arrive, mfaEnabled, passwordLoginNeedsMFA, CreateMFAChallenge, MFAChallengeAttempt, allowCodeGuess,
         checkCode, CheckPending, DeleteMFAChallenge, DeleteMFAChallengesForUser, startSession, SignOut
<1>3. StepsInv' /\ CodesInv' /\ FactorType' /\ MadeType' /\ UsedType'
  BY <1>2, DataKept DEF Shared
<1>4. CASE Arrive(r) \/ mfaEnabled(r) \/ passwordLoginNeedsMFA(r)
  <2>1. TableType' /\ CountType'
    BY <1>1, <1>4 DEF Arrive, mfaEnabled, passwordLoginNeedsMFA, TableType, CountType
  <2> QED BY <1>3, <1>4, <2>1, ArriveStep, AskMoves, Combine
<1>5. CASE CreateMFAChallenge(r)
  <2>1. Moves(r)
    BY <1>5, ThenMoves DEF CreateMFAChallenge, At, Branching
  <2>2. work[r].kind \in {"none", "verify", "setup"} /\ 0 \in 0..MaxAttempts
    BY <1>1, SecondFactorConstants DEF Work
  <2>3. TableType' /\ CountType'
    BY <1>1, <1>5, <2>2 DEF CreateMFAChallenge, TableType, CountType, NoChallenge
  <2> QED BY <1>3, <2>1, <2>3, Combine
<1>6. CASE MFAChallengeAttempt(r)
  <2>1. Then(r) \/ Done(r)
    BY <1>6 DEF MFAChallengeAttempt, challengeUser
  <2>2. Moves(r)
    BY <1>6, <2>1, ThenMoves, DoneMoves DEF MFAChallengeAttempt, At, Branching
  <2>3. 0 \in 0..MaxAttempts /\ \A n \in 0..MaxAttempts : n < MaxAttempts => n + 1 \in 0..MaxAttempts
    BY SecondFactorConstants
  <2>4. NoChallenge \in [kind : {"none", "verify", "setup"}, attempts : 0..MaxAttempts, live : BOOLEAN]
    BY <2>3 DEF NoChallenge
  <2>5. TableType' /\ CountType'
    BY <1>1, <1>6, <2>3, <2>4 DEF MFAChallengeAttempt, TableType, CountType
  <2> QED BY <1>3, <2>2, <2>5, Combine
<1>7. CASE allowCodeGuess(r)
  <2>1. Moves(r)
    BY <1>7, ThenMoves, DoneMoves DEF allowCodeGuess, At, Branching
  <2>2. TableType' /\ CountType'
    BY <1>1, <1>7, SecondFactorConstants DEF allowCodeGuess, TableType, CountType
  <2> QED BY <1>3, <2>1, <2>2, Combine
<1>8. CASE checkCode(r) \/ CheckPending(r)
  <2>1. \/ UNCHANGED compared
        \/ compared' = [compared EXCEPT ![work[r].ch] = @ + 1]
    BY <1>8 DEF checkCode, CheckPending
  <2>2. compared' \in [Challenge -> Nat]
    BY <1>1, <2>1 DEF CountType
  <2>3. UNCHANGED <<challenges, guesses, clock, sessions>>
    BY <1>8 DEF checkCode, CheckPending
  <2>4. TableType' /\ CountType'
    BY <1>1, <2>2, <2>3 DEF TableType, CountType
  <2> QED BY <1>3, <1>8, <2>4, CodeMoves, Combine
<1>9. CASE DeleteMFAChallenge(r) \/ DeleteMFAChallengesForUser(r)
  <2>1. Moves(r)
    BY <1>9, ThenMoves DEF DeleteMFAChallenge, DeleteMFAChallengesForUser, At, Branching
  <2>2. TableType' /\ CountType'
    <3>1. NoChallenge \in [kind : {"none", "verify", "setup"}, attempts : 0..MaxAttempts, live : BOOLEAN]
      BY SecondFactorConstants DEF NoChallenge
    <3>2. TableType'
      BY <1>1, <1>9, <3>1 DEF DeleteMFAChallenge, DeleteMFAChallengesForUser, TableType
    <3> QED BY <1>1, <1>9, <3>2 DEF DeleteMFAChallenge, DeleteMFAChallengesForUser, CountType
  <2> QED BY <1>3, <2>1, <2>2, Combine
<1>10. CASE startSession(r) \/ SignOut(r)
  <2>1. Moves(r)
    BY <1>10, ThenMoves DEF startSession, SignOut, At, Branching
  <2>2. TableType' /\ CountType'
    BY <1>1, <1>10 DEF startSession, SignOut, TableType, CountType
  <2> QED BY <1>3, <2>1, <2>2, Combine
<1> QED BY <1>4, <1>5, <1>6, <1>7, <1>8, <1>9, <1>10

\* A step is recorded that is newer than every one accepted before.
LEMMA StepSpent ==
  ASSUME SpendInv, NEW r \in Requests, UseTOTPStep(r)
  PROVE  /\ SpendInv'
         /\ work'[r].at \in {"close", "off", "codes"} => usedSteps' # usedSteps
<1>1. FactorType /\ TableType /\ CountType /\ MadeType /\ UsedType /\ work[r] \in Work
  BY TypeParts DEF SpendInv
<1>2. Moves(r)
  BY ThenMoves, DoneMoves DEF UseTOTPStep, At, Branching
<1>3. TableType' /\ CountType' /\ MadeType'
  BY <1>1 DEF UseTOTPStep, TableType, CountType, MadeType
<1>4. CodesInv'
  BY <1>1 DEF UseTOTPStep, SpendInv, CodesInv, RecoveryListExact, FactorType
<1>5. CASE factor.secret # 0 /\ factor.last < work[r].step
  <2> DEFINE u == [secret |-> factor.secret, step |-> work[r].step]
  <2>1. factor' = [factor EXCEPT !.last = work[r].step] /\ usedSteps' = usedSteps \cup {u} /\ UNCHANGED <<made, usedCodes>>
    BY <1>5 DEF UseTOTPStep
  <2>2. work[r].step \in 0..MaxStep + 1 /\ factor.last \in 0..MaxStep + 1 /\ factor.secret \in 0..MaxSecrets
    BY <1>1 DEF Work, FactorType
  <2>3. u \in Totp
    BY <2>2 DEF Totp
  <2>4. FactorType' /\ UsedType'
    BY <1>1, <2>1, <2>2, <2>3 DEF FactorType, UsedType
  <2>5. u \notin usedSteps
    BY <1>5, <2>2 DEF SpendInv, StepsInv
  <2>6. StepsInv'
    <3>1. factor'.secret = factor.secret /\ factor'.pending = factor.pending /\ factor'.last = work[r].step
      BY <1>1, <2>1 DEF FactorType
    <3>2. \A v \in usedSteps : v.step \in 0..MaxStep + 1
      BY <1>1 DEF UsedType, Totp
    <3>3. StepsInv
      BY DEF SpendInv
    <3> QED BY <1>5, <2>1, <2>2, <3>1, <3>2, <3>3 DEF StepsInv
  <2> QED BY <1>2, <1>3, <1>4, <2>1, <2>4, <2>5, <2>6, Combine
<1>6. CASE ~(factor.secret # 0 /\ factor.last < work[r].step)
  <2>1. Done(r) /\ UNCHANGED Shared
    BY <1>6 DEF UseTOTPStep, Shared
  <2>2. work'[r].at = "done"
    BY <2>1, DoneMoves
  <2> QED BY <1>2, <1>3, <2>1, <2>2, DataKept, Combine DEF Shared
<1> QED BY <1>5, <1>6

\* A recovery code is taken off the list in force, which had it.
LEMMA CodeSpent ==
  ASSUME SpendInv, NEW r \in Requests, SwapRecoveryCodes(r)
  PROVE  /\ SpendInv' /\ Moves(r)
         /\ work'[r].at \in {"close", "off", "codes"} => usedCodes' # usedCodes
<1>1. FactorType /\ TableType /\ CountType /\ MadeType /\ UsedType /\ work[r] \in Work /\ work \in [Requests -> Work]
  BY TypeParts DEF SpendInv
<1>2. work[r].at = "swap" /\ HoldsInv(work[r]) /\ StepsInv /\ CodesInv
  BY DEF SwapRecoveryCodes, At, SpendInv
<1>3. TableType' /\ CountType' /\ MadeType'
  BY <1>1 DEF SwapRecoveryCodes, TableType, CountType, MadeType
<1>4. CASE factor.codes = work[r].list
  <2> DEFINE c    == work[r].code
             used == [list |-> factor.codes.n, n |-> c]
  <2>1. /\ factor' = [factor EXCEPT !.codes = [factor.codes EXCEPT !.left = @ \ {c}]]
        /\ usedCodes' = usedCodes \cup {used} /\ Then(r) /\ UNCHANGED <<made, usedSteps>>
    BY <1>4 DEF SwapRecoveryCodes
  <2>2. c \in factor.codes.left /\ c \in 1..NCodes /\ factor.codes \in Lists
    BY <1>1, <1>2, <1>4 DEF HoldsInv, FactorType, Lists
  <2>3. factor.codes.n # 0
    BY <1>2, <2>2 DEF CodesInv
  <2>4. used \notin usedCodes
    BY <1>2, <2>2, <2>3 DEF CodesInv, RecoveryListExact
  <2>5. [factor.codes EXCEPT !.left = @ \ {c}] \in Lists /\ used \in [list : 0..MaxLists, n : 1..NCodes]
    BY <2>2 DEF Lists
  <2>6. FactorType' /\ UsedType'
    BY <1>1, <2>1, <2>5 DEF FactorType, UsedType
  <2>7. /\ factor'.codes.n = factor.codes.n /\ factor'.codes.left = factor.codes.left \ {c}
        /\ factor'.secret = factor.secret /\ factor'.pending = factor.pending /\ factor'.last = factor.last
    BY <1>1, <2>1, <2>2 DEF FactorType, Lists
  <2>8. StepsInv'
    BY <1>2, <2>1, <2>7 DEF StepsInv
  <2>9. RecoveryListExact'
    <3>1. \A n \in 1..NCodes : [list |-> factor.codes.n, n |-> n] \in usedCodes' <=>
                                 [list |-> factor.codes.n, n |-> n] \in usedCodes \/ n = c
      BY <2>1
    <3>2. factor.codes.left = {n \in 1..NCodes : [list |-> factor.codes.n, n |-> n] \notin usedCodes}
      BY <1>2, <2>3 DEF CodesInv, RecoveryListExact
    <3> QED BY <2>7, <3>1, <3>2 DEF RecoveryListExact
  <2>10. CodesInv'
    BY <1>2, <2>1, <2>3, <2>7, <2>9 DEF CodesInv
  <2>11. Moves(r)
    BY <1>2, <2>1, ThenMoves DEF Branching
  <2> QED BY <1>3, <2>1, <2>4, <2>6, <2>8, <2>10, <2>11, Combine
<1>5. CASE factor.codes # work[r].list
  <2>1. UNCHANGED Shared
    BY <1>5 DEF SwapRecoveryCodes, Shared
  <2>2. Moves(r) /\ work'[r].at \in {"list", "done"}
    <3>1. CASE work[r].tries + 1 < SwapTries /\ work' = [work EXCEPT ![r].tries = @ + 1, ![r].at = "list"]
      <4> DEFINE w == [work[r] EXCEPT !.tries = work[r].tries + 1, !.at = "list"]
      <4>1. work' = [work EXCEPT ![r] = w]
        BY <1>1, <3>1 DEF Work
      <4>2. work[r].tries + 1 \in 0..SwapTries /\ "list" \in Steps
        BY <1>1, <3>1, SecondFactorConstants DEF Work, Steps
      <4>3. w \in Work
        BY <1>1, <4>2 DEF Work
      <4>4. HoldsInv(w) /\ w.at = "list"
        <5>1. "swap" \in Path[work[r].op] => "list" \in Path[work[r].op]
          BY <1>1, OpNames DEF Path, Work
        <5> QED BY <1>1, <1>2, <5>1 DEF HoldsInv, Work
      <4> HIDE DEF w
      <4> QED BY <1>1, <4>1, <4>3, <4>4 DEF Moves
    <3>2. CASE Done(r)
      BY <3>2, DoneMoves
    <3> QED BY <1>5, <3>1, <3>2 DEF SwapRecoveryCodes
  <2> QED BY <1>3, <2>1, <2>2, DataKept, Combine DEF Shared
<1> QED BY <1>4, <1>5

\* The list is read, and the code is in it.
LEMMA ListStep == ASSUME SpendInv, NEW r \in Requests, ReadRecoveryCodes(r) PROVE SpendInv' /\ Moves(r)
<1>1. FactorType /\ TableType /\ CountType /\ work[r] \in Work /\ work \in [Requests -> Work] /\ HoldsInv(work[r])
  BY TypeParts DEF SpendInv
<1>2. TableType' /\ CountType' /\ UNCHANGED Shared
  BY <1>1 DEF ReadRecoveryCodes, TableType, CountType, Shared
<1>3. Moves(r) /\ work'[r].at \in {"swap", "done"}
  <2>1. CASE Done(r)
    BY <2>1, DoneMoves
  <2>2. CASE work[r].code \in factor.codes.left /\ work' = [work EXCEPT ![r].list = factor.codes, ![r].at = "swap"]
    <3> DEFINE w == [work[r] EXCEPT !.list = factor.codes, !.at = "swap"]
    <3>1. work' = [work EXCEPT ![r] = w]
      BY <1>1, <2>2 DEF Work
    <3>2. w \in Work
      BY <1>1 DEF Work, Steps, FactorType
    <3>3. HoldsInv(w) /\ w.at = "swap"
      <4>1. "list" \in Path[work[r].op] => "swap" \in Path[work[r].op]
        BY <1>1, OpNames DEF Path, Work
      <4>2. work[r].at = "list"
        BY DEF ReadRecoveryCodes, At
      <4> QED BY <1>1, <2>2, <4>1, <4>2 DEF HoldsInv, Work
    <3> HIDE DEF w
    <3> QED BY <1>1, <3>1, <3>2, <3>3 DEF Moves
  <2> QED BY <2>1, <2>2 DEF ReadRecoveryCodes
<1> QED BY <1>2, <1>3, DataKept, Combine DEF Shared

\* Without the factor nothing is left to spend.
LEMMA OffStep == ASSUME SpendInv, NEW r \in Requests, DisableTOTP(r) PROVE SpendInv'
<1>1. FactorType /\ TableType /\ CountType /\ MadeType /\ UsedType
  BY TypeParts DEF SpendInv
<1>2. TableType' /\ CountType' /\ MadeType' /\ UsedType' /\ factor' = Off /\ UNCHANGED <<made, usedSteps, usedCodes>>
  BY <1>1 DEF DisableTOTP, TableType, CountType, MadeType, UsedType
<1>3. FactorType'
  BY <1>2, SecondFactorConstants DEF Off, FactorType, Lists
<1>4. Moves(r)
  BY ThenMoves DEF DisableTOTP, At, Branching
<1>5. made.secrets \in Nat /\ made.lists \in Nat
  BY <1>1 DEF MadeType
<1>6. StepsInv'
  BY <1>2, <1>5 DEF SpendInv, StepsInv, Off
<1>7. CodesInv'
  BY <1>2, <1>5 DEF SpendInv, CodesInv, RecoveryListExact, Off
<1> QED BY <1>2, <1>3, <1>4, <1>6, <1>7, Combine

\* A new list is whole, and no code of it is used.
LEMMA FreshList ==
  ASSUME SpendInv, made.lists < MaxLists, made'.lists = made.lists + 1,
         factor'.codes = [n |-> made.lists + 1, left |-> 1..NCodes], usedCodes' = usedCodes
  PROVE  CodesInv' /\ factor'.codes \in Lists
<1>1. made.lists \in Nat /\ \A u \in usedCodes : u.list \in Nat
  BY TypeParts DEF SpendInv, MadeType, UsedType
<1>2. \A u \in usedCodes : u.list # 0 /\ u.list <= made.lists
  BY DEF SpendInv, CodesInv
<1>3. RecoveryListExact'
  BY <1>1, <1>2 DEF RecoveryListExact
<1> QED BY <1>1, <1>2, <1>3, SecondFactorConstants DEF CodesInv, Lists

LEMMA ListsLater ==
  ASSUME SpendInv, made'.lists = made.lists + 1, factor'.codes = factor.codes, usedCodes' = usedCodes
  PROVE  CodesInv'
<1>1. made.lists \in Nat /\ factor.codes.n \in Nat /\ \A u \in usedCodes : u.list \in Nat
  BY TypeParts DEF SpendInv, MadeType, UsedType, FactorType, Lists
<1> QED BY <1>1 DEF SpendInv, CodesInv, RecoveryListExact

LEMMA NewCodesStep == ASSUME SpendInv, NEW r \in Requests, SetRecoveryCodes(r) PROVE SpendInv'
<1>1. FactorType /\ TableType /\ CountType /\ MadeType /\ UsedType /\ StepsInv
  BY TypeParts DEF SpendInv
<1>2. TableType' /\ CountType' /\ UsedType' /\ UNCHANGED <<usedSteps, usedCodes>>
  BY <1>1 DEF SetRecoveryCodes, TableType, CountType, UsedType
<1>3. made.lists < MaxLists /\ made'.lists = made.lists + 1 /\ made'.secrets = made.secrets /\ MadeType'
  BY <1>1, SecondFactorConstants DEF SetRecoveryCodes, MadeType
<1>4. Moves(r)
  BY ThenMoves DEF SetRecoveryCodes, At, Branching
<1>5. factor'.secret = factor.secret /\ factor'.pending = factor.pending /\ factor'.last = factor.last
  BY <1>1 DEF SetRecoveryCodes, FactorType
<1>6. StepsInv'
  BY <1>1, <1>2, <1>3, <1>5 DEF StepsInv
<1>7. CASE factor.secret = 0
  <2>1. factor' = factor
    BY <1>7 DEF SetRecoveryCodes
  <2>2. FactorType' /\ CodesInv'
    BY <1>1, <1>2, <1>3, <2>1, ListsLater DEF FactorType
  <2> QED BY <1>2, <1>3, <1>4, <1>6, <2>2, Combine
<1>8. CASE factor.secret # 0
  <2>1. factor' = [factor EXCEPT !.codes = [n |-> made.lists + 1, left |-> 1..NCodes]]
    BY <1>8 DEF SetRecoveryCodes
  <2>2. factor'.codes = [n |-> made.lists + 1, left |-> 1..NCodes]
    BY <1>1, <2>1 DEF FactorType
  <2>3. CodesInv' /\ factor'.codes \in Lists
    BY <1>2, <1>3, <2>2, FreshList
  <2>4. FactorType'
    BY <1>1, <2>1, <2>2, <2>3 DEF FactorType
  <2> QED BY <1>2, <1>3, <1>4, <1>6, <2>3, <2>4, Combine
<1> QED BY <1>7, <1>8

\* A new pending secret has never been used.
LEMMA PendingStep == ASSUME SpendInv, NEW r \in Requests, SetTOTPPending(r) PROVE SpendInv'
<1>1. FactorType /\ TableType /\ CountType /\ MadeType /\ UsedType /\ StepsInv /\ CodesInv
  BY TypeParts DEF SpendInv
<1>2. TableType' /\ CountType' /\ UsedType' /\ UNCHANGED <<usedSteps, usedCodes>>
  BY <1>1 DEF SetTOTPPending, TableType, CountType, UsedType
<1>3. made.secrets < MaxSecrets /\ made'.secrets = made.secrets + 1 /\ made'.lists = made.lists /\ MadeType'
  BY <1>1, SecondFactorConstants DEF SetTOTPPending, MadeType
<1>4. Moves(r)
  BY ThenMoves DEF SetTOTPPending, At, Branching
<1>5. /\ factor'.secret = factor.secret /\ factor'.pending = made.secrets + 1 /\ factor'.last = factor.last
      /\ factor'.codes = factor.codes
  BY <1>1 DEF SetTOTPPending, FactorType
<1>6. made.secrets \in Nat /\ factor.secret \in Nat /\ \A u \in usedSteps : u.secret \in Nat
  BY <1>1 DEF MadeType, FactorType, UsedType, Totp
<1>7. StepsInv'
  BY <1>1, <1>2, <1>3, <1>5, <1>6 DEF StepsInv
<1>8. CodesInv'
  BY <1>1, <1>2, <1>3, <1>5 DEF CodesInv, RecoveryListExact
<1>9. FactorType'
  BY <1>1, <1>3, <1>6, SecondFactorConstants DEF SetTOTPPending, FactorType
<1> QED BY <1>2, <1>3, <1>4, <1>7, <1>8, <1>9, Combine

\* The confirmed secret comes into force with the step that confirmed it.
LEMMA EnableStep == ASSUME SpendInv, NEW r \in Requests, EnableTOTP(r) PROVE SpendInv'
<1>1. /\ FactorType /\ TableType /\ CountType /\ MadeType /\ UsedType /\ StepsInv
      /\ work[r] \in Work /\ HoldsInv(work[r])
  BY TypeParts DEF SpendInv
<1>2. TableType' /\ CountType' /\ UNCHANGED usedCodes
  BY <1>1 DEF EnableTOTP, TableType, CountType
<1>3. made.lists < MaxLists /\ made'.lists = made.lists + 1 /\ made'.secrets = made.secrets /\ MadeType'
  BY <1>1, SecondFactorConstants DEF EnableTOTP, MadeType
<1>4. Moves(r)
  BY ThenMoves, DoneMoves DEF EnableTOTP, At, Branching
<1>5. CASE factor.pending = work[r].secret
  <2> DEFINE u == [secret |-> work[r].secret, step |-> work[r].step]
  <2>1. /\ factor' = [secret |-> work[r].secret, pending |-> 0, last |-> work[r].step,
                      codes |-> [n |-> made.lists + 1, left |-> 1..NCodes]]
        /\ usedSteps' = usedSteps \cup {u}
    BY <1>5 DEF EnableTOTP
  <2>2. /\ work[r].secret \in 0..MaxSecrets /\ work[r].step \in 0..MaxStep + 1 /\ work[r].secret # 0
        /\ u \in Totp
    BY <1>1 DEF Work, HoldsInv, EnableTOTP, At, Totp
  <2>3. CodesInv' /\ factor'.codes \in Lists
    BY <1>2, <1>3, <2>1, FreshList
  <2>4. FactorType' /\ UsedType'
    BY <1>1, <1>2, <2>1, <2>2, <2>3, SecondFactorConstants DEF FactorType, UsedType
  <2>5. StepsInv'
    <3>1. work[r].secret <= made.secrets /\ \A v \in usedSteps : v.secret # work[r].secret
      BY <1>1, <1>5, <2>2 DEF StepsInv
    <3>2. made.secrets \in Nat
      BY <1>1 DEF MadeType
    <3> QED BY <1>1, <1>3, <2>1, <2>2, <3>1, <3>2 DEF StepsInv
  <2> QED BY <1>2, <1>3, <1>4, <2>3, <2>4, <2>5, Combine
<1>6. CASE factor.pending # work[r].secret
  <2>1. UNCHANGED <<factor, usedSteps>>
    BY <1>6 DEF EnableTOTP
  <2>2. CodesInv' /\ StepsInv' /\ FactorType' /\ UsedType'
    BY <1>1, <1>2, <1>3, <2>1, ListsLater DEF StepsInv, FactorType, UsedType
  <2> QED BY <1>2, <1>3, <1>4, <2>2, Combine
<1> QED BY <1>5, <1>6

-----------------------------------------------------------------------------
(* The guesses of a challenge: an attempt is paid before its code is looked  *)
(* at, so the codes compared and those about to be are paid for.             *)

Paid == {"guess", "code"}

\* Requests that have paid for a guess of challenge c and not made it.
Pend(c) == {r \in Requests : work[r].ch = c /\ work[r].at \in Paid}

ChallengeInv(w) ==
  /\ w.op \notin {"verify", "setup", "enable"} => w.ch = NoToken
  /\ w.at = "attempt" => w.ch \in Challenge

PaidFor(c) ==
  /\ compared[c] + Cardinality(Pend(c)) <= MaxAttempts
  /\ challenges[c].live => compared[c] + Cardinality(Pend(c)) <= challenges[c].attempts

GuessInv == (\A c \in Challenge : PaidFor(c)) /\ \A r \in Requests : ChallengeInv(work[r])

\* Request r does not begin to wait for a guess.
Waits(w, c) == w.ch = c /\ w.at \in Paid
Leaves(r)   == /\ ChallengeInv(work'[r])
               /\ \A c \in Challenge : Waits(work'[r], c) => Waits(work[r], c)

LEMMA PendFinite == \A c : IsFiniteSet(Pend(c)) /\ Cardinality(Pend(c)) \in Nat
<1>1. \A c : Pend(c) \subseteq Requests
  BY DEF Pend
<1> QED BY <1>1, SecondFactorConstants, FS_Subset, FS_CardinalityType

\* Nothing is lost when nobody begins to wait and no challenge comes back.
LEMMA GuessKept ==
  ASSUME SpendInv, SpendInv', GuessInv, NEW r \in Requests, Moves(r), Leaves(r), UNCHANGED compared,
         \A c \in Challenge : challenges'[c].live => challenges[c].live /\ challenges'[c].attempts = challenges[c].attempts
  PROVE  GuessInv'
<1>1. \A q \in Requests : ChallengeInv(work'[q])
  BY DEF GuessInv, Moves, Leaves
<1>2. ASSUME NEW c \in Challenge PROVE PaidFor(c)'
  <2>1. Pend(c)' \subseteq Pend(c)
    BY DEF Pend, Moves, Leaves, Waits
  <2>2. Cardinality(Pend(c)') <= Cardinality(Pend(c)) /\ Cardinality(Pend(c)') \in Nat /\ Cardinality(Pend(c)) \in Nat
    BY <2>1, PendFinite, FS_Subset, FS_CardinalityType
  <2>3. compared[c] \in Nat /\ MaxAttempts \in Nat /\ challenges[c].attempts \in Nat
    BY TypeParts, SecondFactorConstants DEF SpendInv, CountType, TableType
  <2> QED BY <2>2, <2>3 DEF GuessInv, PaidFor
<1> QED BY <1>1, <1>2 DEF GuessInv, ChallengeInv

LEMMA OnwardPaid ==
  ASSUME NEW op \in Ops, NEW s \in Path[op], s \notin Branching
  PROVE  /\ Handlers[op][s] \in Paid => s \in {"attempt", "guess"} \/ op = "disable"
         /\ Handlers[op][s] # "attempt"
<1>1. CASE op = "login"
  BY <1>1 DEF Path, Branching, Paid, Handlers, login
<1>2. CASE op = "verify"
  BY <1>2 DEF Path, Branching, Paid, Handlers, mfaVerify
<1>3. CASE op = "setup"
  BY <1>3 DEF Path, Branching, Paid, Handlers, mfaSetup
<1>4. CASE op = "enable"
  BY <1>4 DEF Path, Branching, Paid, Handlers, mfaEnable
<1>5. CASE op = "disable"
  BY <1>5 DEF Path, Branching, Paid, Handlers, mfaDisable
<1>6. CASE op = "regenerate"
  BY <1>6 DEF Path, Branching, Paid, Handlers, mfaRegenerateCodes
<1>7. CASE op = "reset"
  BY <1>7 DEF Path, Branching, Paid, Handlers, resetUserMFA
<1> QED BY <1>1, <1>2, <1>3, <1>4, <1>5, <1>6, <1>7, OpNames

LEMMA DoneLeaves == ASSUME SpendInv, NEW r \in Requests, Done(r) PROVE Leaves(r) /\ work'[r] = [Idle EXCEPT !.at = "done"]
<1>1. work \in [Requests -> Work] /\ work' = [work EXCEPT ![r] = [Idle EXCEPT !.at = "done"]]
  BY WorkType DEF SpendInv, Done, Go
<1> QED BY <1>1, SecondFactorConstants DEF Leaves, ChallengeInv, Waits, Paid, Idle

LEMMA ThenLeaves ==
  ASSUME SpendInv, NEW r \in Requests, ChallengeInv(work[r]), Then(r), work[r].at \notin Branching,
         work[r].at # "attempt"
  PROVE  Leaves(r)
<1>1. work[r] \in Work /\ HoldsInv(work[r]) /\ work \in [Requests -> Work]
  BY WorkType DEF SpendInv
<1>2. work[r].op \in Ops /\ work[r].at \in Path[work[r].op]
  BY <1>1 DEF Work, HoldsInv
<1> DEFINE s == Handlers[work[r].op][work[r].at]
<1>3. /\ s \in Paid => work[r].at = "guess" \/ work[r].op = "disable"
      /\ s # "attempt"
  BY <1>2, OnwardPaid
<1>4. Go(r, s)
  BY DEF Then
<1> HIDE DEF s
<1>5. CASE s = "done"
  <2>1. Done(r)
    BY <1>4, <1>5 DEF Done
  <2> QED BY <2>1, DoneLeaves
<1>6. CASE s # "done"
  <2>1. work'[r] = [work[r] EXCEPT !.at = s]
    BY <1>1, <1>4, <1>6 DEF Go
  <2>2. work'[r].op = work[r].op /\ work'[r].ch = work[r].ch /\ work'[r].at = s
    BY <1>1, <2>1 DEF Work
  <2> QED BY <1>3, <2>2, SecondFactorConstants DEF Leaves, ChallengeInv, Waits, Paid
<1> QED BY <1>5, <1>6

\* Requests that neither pay for a guess nor make one.
LEMMA OtherGuesses ==
  ASSUME SpendInv, SpendInv', GuessInv, NEW r \in Requests,
         \/ Arrive(r) \/ mfaEnabled(r) \/ passwordLoginNeedsMFA(r) \/ allowCodeGuess(r)
         \/ UseTOTPStep(r) \/ ReadRecoveryCodes(r) \/ SwapRecoveryCodes(r)
         \/ DisableTOTP(r) \/ SetRecoveryCodes(r) \/ SetTOTPPending(r) \/ EnableTOTP(r)
         \/ DeleteMFAChallenge(r) \/ DeleteMFAChallengesForUser(r) \/ startSession(r) \/ SignOut(r)
  PROVE  GuessInv'
<1>1. work[r] \in Work /\ HoldsInv(work[r]) /\ work \in [Requests -> Work] /\ ChallengeInv(work[r])
  BY WorkType DEF SpendInv, GuessInv
<1>2. Then(r) /\ work[r].at \notin Branching /\ work[r].at # "attempt" => Moves(r) /\ Leaves(r)
  BY <1>1, ThenMoves, ThenLeaves
<1>3. Done(r) => Moves(r) /\ Leaves(r)
  BY DoneMoves, DoneLeaves
<1>4. CASE Arrive(r)
  <2>1. Moves(r)
    BY <1>4, ArriveStep
  <2>2. work[r].ch = NoToken
    <3>1. work[r].at = "unsent" /\ work[r].op \in Ops
      BY <1>1, <1>4 DEF Arrive, At, Work
    <3>2. work[r].op = "login"
      BY <1>1, <3>1, OpNames DEF HoldsInv, Path
    <3> QED BY <1>1, <3>2 DEF ChallengeInv
  <2>3. ASSUME NEW op, NEW t, work' = [work EXCEPT ![r].op = op, ![r].at = t], t # "attempt" PROVE Leaves(r)
    <3>1. work'[r].ch = NoToken /\ work'[r].at = t
      BY <1>1, <2>2, <2>3 DEF Work
    <3> QED BY <2>3, <3>1, SecondFactorConstants DEF Leaves, ChallengeInv, Waits
  <2>4. ASSUME NEW op \in {"verify", "setup", "enable"}, NEW c \in Challenge, NEW t \in {"factor", "attempt"},
               work' = [work EXCEPT ![r].op = op, ![r].ch = c, ![r].at = t]
        PROVE  Leaves(r)
    <3>1. work'[r].ch = c /\ work'[r].at = t /\ work'[r].op = op
      BY <1>1, <2>4 DEF Work
    <3> QED BY <3>1 DEF Leaves, ChallengeInv, Waits, Paid
  <2>5. Leaves(r)
    <3>1. ASSUME NEW op \in {"setup", "enable"}, mfaAccount(r, op) PROVE Leaves(r)
      <4>1. CASE op = "setup"
        <5>1. \/ work' = [work EXCEPT ![r].op = "setup", ![r].at = "factor"]
              \/ \E c \in Challenge : work' = [work EXCEPT ![r].op = "setup", ![r].ch = c, ![r].at = "factor"]
          BY <3>1, <4>1 DEF mfaAccount
        <5> QED BY <2>3, <2>4, <5>1
      <4>2. CASE op = "enable"
        <5>1. \/ work' = [work EXCEPT ![r].op = "enable", ![r].at = "guess"]
              \/ \E c \in Challenge : work' = [work EXCEPT ![r].op = "enable", ![r].ch = c, ![r].at = "attempt"]
          BY <3>1, <4>2 DEF mfaAccount
        <5> QED BY <2>3, <2>4, <5>1
      <4> QED BY <3>1, <4>1, <4>2
    <3>2. CASE \/ work' = [work EXCEPT ![r].op = "login", ![r].at = "factor"]
               \/ work' = [work EXCEPT ![r].op = "reset", ![r].at = "wipe"]
      BY <2>3, <3>2
    <3>3. CASE \E c \in Challenge : work' = [work EXCEPT ![r].op = "verify", ![r].ch = c, ![r].at = "attempt"]
      BY <2>4, <3>3
    <3>4. CASE \E op \in {"disable", "regenerate"} : work' = [work EXCEPT ![r].op = op, ![r].at = "guess"]
      BY <2>3, <3>4
    <3> QED BY <1>4, <3>1, <3>2, <3>3, <3>4 DEF Arrive
  <2> QED BY <1>4, <2>1, <2>5, GuessKept DEF Arrive
<1>5. CASE mfaEnabled(r) \/ passwordLoginNeedsMFA(r)
  <2>1. Moves(r)
    BY <1>5, AskMoves
  <2>2. ASSUME NEW k, work' = [work EXCEPT ![r].kind = k, ![r].at = "challenge"] PROVE Leaves(r)
    <3>1. work'[r].at = "challenge" /\ work'[r].op = work[r].op /\ work'[r].ch = work[r].ch
      BY <1>1, <2>2 DEF Work
    <3> QED BY <1>1, <3>1 DEF Leaves, ChallengeInv, Waits, Paid
  <2>3. work[r].at \in {"factor", "policy"} /\ UNCHANGED <<challenges, compared>>
    BY <1>5 DEF mfaEnabled, passwordLoginNeedsMFA, At
  <2>4. Leaves(r)
    BY <1>2, <1>3, <1>5, <2>2, <2>3 DEF mfaEnabled, passwordLoginNeedsMFA, Branching
  <2> QED BY <2>1, <2>3, <2>4, GuessKept
<1>6. CASE allowCodeGuess(r) \/ UseTOTPStep(r)
  <2>1. Moves(r) /\ Leaves(r)
    BY <1>2, <1>3, <1>6 DEF allowCodeGuess, UseTOTPStep, At, Branching
  <2> QED BY <1>6, <2>1, GuessKept DEF allowCodeGuess, UseTOTPStep
<1>7. CASE ReadRecoveryCodes(r)
  <2>1. Moves(r)
    BY <1>7, ListStep
  <2>2. ASSUME work' = [work EXCEPT ![r].list = factor.codes, ![r].at = "swap"] PROVE Leaves(r)
    <3>1. work'[r].at = "swap" /\ work'[r].op = work[r].op /\ work'[r].ch = work[r].ch
      BY <1>1, <2>2 DEF Work
    <3> QED BY <1>1, <3>1 DEF Leaves, ChallengeInv, Waits, Paid
  <2> QED BY <1>3, <1>7, <2>1, <2>2, GuessKept DEF ReadRecoveryCodes
<1>8. CASE SwapRecoveryCodes(r)
  <2>1. Moves(r)
    BY <1>8, CodeSpent
  <2>2. ASSUME work' = [work EXCEPT ![r].tries = @ + 1, ![r].at = "list"] PROVE Leaves(r)
    <3>1. work'[r].at = "list" /\ work'[r].op = work[r].op /\ work'[r].ch = work[r].ch
      BY <1>1, <2>2 DEF Work
    <3> QED BY <1>1, <3>1 DEF Leaves, ChallengeInv, Waits, Paid
  <2>3. work[r].at = "swap"
    BY <1>8 DEF SwapRecoveryCodes, At
  <2>4. Leaves(r)
    BY <1>2, <1>3, <1>8, <2>2, <2>3 DEF SwapRecoveryCodes, Branching
  <2> QED BY <1>8, <2>1, <2>4, GuessKept DEF SwapRecoveryCodes
<1>9. CASE DisableTOTP(r) \/ SetRecoveryCodes(r) \/ SetTOTPPending(r) \/ EnableTOTP(r)
  <2>1. Moves(r) /\ Leaves(r)
    BY <1>2, <1>3, <1>9 DEF DisableTOTP, SetRecoveryCodes, SetTOTPPending, EnableTOTP, At, Branching
  <2> QED BY <1>9, <2>1, GuessKept DEF DisableTOTP, SetRecoveryCodes, SetTOTPPending, EnableTOTP
<1>10. CASE DeleteMFAChallenge(r) \/ DeleteMFAChallengesForUser(r)
  <2>1. Moves(r) /\ Leaves(r)
    BY <1>2, <1>10 DEF DeleteMFAChallenge, DeleteMFAChallengesForUser, At, Branching
  <2>2. \A c \in Challenge : challenges'[c] = challenges[c] \/ challenges'[c] = NoChallenge
    <3>1. DOMAIN challenges = Challenge
      BY TypeParts DEF SpendInv, TableType
    <3> QED BY <1>10, <3>1 DEF DeleteMFAChallenge, DeleteMFAChallengesForUser
  <2> QED BY <1>10, <2>1, <2>2, GuessKept DEF DeleteMFAChallenge, DeleteMFAChallengesForUser, NoChallenge
<1>11. CASE startSession(r) \/ SignOut(r)
  <2>1. Moves(r) /\ Leaves(r)
    BY <1>2, <1>11 DEF startSession, SignOut, At, Branching
  <2> QED BY <1>11, <2>1, GuessKept DEF startSession, SignOut
<1> QED BY <1>4, <1>5, <1>6, <1>7, <1>8, <1>9, <1>10, <1>11

\* A new challenge takes a token nobody waits with and nobody guessed for.
LEMMA CreateGuesses ==
  ASSUME SpendInv, SpendInv', GuessInv, NEW r \in Requests, CreateMFAChallenge(r)
  PROVE  GuessInv'
<1>1. work[r] \in Work /\ ChallengeInv(work[r])
  BY WorkType DEF SpendInv, GuessInv
<1>2. Moves(r) /\ Leaves(r) /\ UNCHANGED compared
  BY <1>1, ThenMoves, ThenLeaves DEF CreateMFAChallenge, At, Branching
<1>3. PICK c \in Challenge :
        /\ compared[c] = 0 /\ \A q \in Requests : work[q].ch # c
        /\ challenges' = [x \in Challenge |->
             IF x = c THEN [kind |-> work[r].kind, attempts |-> 0, live |-> TRUE]
             ELSE IF challenges[x].live THEN challenges[x] ELSE NoChallenge]
  BY DEF CreateMFAChallenge
<1>4. \A q \in Requests : ChallengeInv(work'[q])
  BY <1>2 DEF GuessInv, Moves, Leaves
<1>5. ASSUME NEW d \in Challenge PROVE PaidFor(d)'
  <2>1. Pend(d)' \subseteq Pend(d)
    BY <1>2 DEF Pend, Moves, Leaves, Waits
  <2>2. Cardinality(Pend(d)') <= Cardinality(Pend(d)) /\ Cardinality(Pend(d)') \in Nat /\ Cardinality(Pend(d)) \in Nat
    BY <2>1, PendFinite, FS_Subset, FS_CardinalityType
  <2>3. compared[d] \in Nat /\ MaxAttempts \in Nat /\ challenges[d].attempts \in Nat
    BY TypeParts, SecondFactorConstants DEF SpendInv, CountType, TableType
  <2>4. CASE d = c
    <3>1. Pend(d)' = {}
      BY <1>3, <2>1, <2>4 DEF Pend
    <3>2. Cardinality(Pend(d)') = 0
      BY <3>1, FS_EmptySet
    <3>3. challenges'[d].attempts = 0 /\ compared'[d] = 0
      BY <1>2, <1>3, <2>4
    <3> QED BY <2>3, <3>2, <3>3 DEF PaidFor
  <2>5. CASE d # c
    <3>1. challenges'[d] = challenges[d] \/ challenges'[d] = NoChallenge
      BY <1>3, <2>5
    <3> QED BY <1>2, <2>2, <2>3, <3>1 DEF GuessInv, PaidFor, NoChallenge
  <2> QED BY <2>4, <2>5
<1> QED BY <1>4, <1>5 DEF GuessInv, ChallengeInv

\* A guess is paid for; the kind of the challenge is looked at only then.
LEMMA AttemptGuesses ==
  ASSUME SpendInv, SpendInv', GuessInv, NEW r \in Requests, MFAChallengeAttempt(r)
  PROVE  GuessInv'
<1> DEFINE c == work[r].ch
<1>1. work[r] \in Work /\ work \in [Requests -> Work] /\ ChallengeInv(work[r]) /\ HoldsInv(work[r])
  BY WorkType DEF SpendInv, GuessInv
<1>2. work[r].at = "attempt" /\ c \in Challenge /\ UNCHANGED compared
  BY <1>1 DEF MFAChallengeAttempt, At, ChallengeInv
<1>3. Then(r) \/ Done(r)
  BY DEF MFAChallengeAttempt, challengeUser
<1>4. Moves(r)
  BY <1>2, <1>3, ThenMoves, DoneMoves DEF Branching
<1>5. DOMAIN challenges = Challenge /\ \A d \in Challenge : challenges[d].attempts \in Nat /\ compared[d] \in Nat
  BY TypeParts DEF SpendInv, TableType, CountType
<1>6. CASE challenges[c].live /\ challenges[c].attempts < MaxAttempts
  <2>1. challenges' = [challenges EXCEPT ![c].attempts = @ + 1]
    BY <1>6 DEF MFAChallengeAttempt
  <2>2. /\ ChallengeInv(work'[r])
        /\ \A d \in Challenge \ {c} : ~ Waits(work'[r], d)
    <3>1. CASE Done(r)
      <4>1. work'[r] = [Idle EXCEPT !.at = "done"]
        BY <3>1, DoneLeaves
      <4> QED BY <4>1, SecondFactorConstants DEF ChallengeInv, Waits, Paid, Idle
    <3>2. CASE Then(r)
      <4>1. work[r].op \in Ops /\ work[r].op \in {"verify", "enable"}
        <5>1. work[r].op \in Ops
          BY <1>1 DEF Work
        <5> QED BY <1>1, <1>2, <5>1, OpNames DEF HoldsInv, Path
      <4>2. Handlers[work[r].op][work[r].at] = "guess"
        BY <1>2, <4>1 DEF Handlers, mfaVerify, mfaEnable
      <4>3. work' = [work EXCEPT ![r] = [@ EXCEPT !.at = "guess"]]
        BY <3>2, <4>2 DEF Then, Go
      <4>4. work'[r].ch = c /\ work'[r].at = "guess" /\ work'[r].op = work[r].op
        BY <1>1, <4>3 DEF Work
      <4> QED BY <1>1, <4>4 DEF ChallengeInv, Waits
    <3> QED BY <1>3, <3>1, <3>2
  <2>3. \A q \in Requests : ChallengeInv(work'[q])
    BY <1>4, <2>2 DEF GuessInv, Moves
  <2>4. ASSUME NEW d \in Challenge PROVE PaidFor(d)'
    <3>1. CASE d = c
      <4>1. Pend(d)' \subseteq Pend(d) \cup {r}
        BY <1>4 DEF Pend, Moves
      <4>2. r \notin Pend(d)
        BY <1>2 DEF Pend, Paid
      <4>3. Cardinality(Pend(d) \cup {r}) = Cardinality(Pend(d)) + 1 /\ IsFiniteSet(Pend(d) \cup {r})
        BY <4>2, PendFinite, FS_AddElement
      <4>4. Cardinality(Pend(d)') <= Cardinality(Pend(d)) + 1 /\ Cardinality(Pend(d)') \in Nat /\ Cardinality(Pend(d)) \in Nat
        BY <4>1, <4>3, PendFinite, FS_Subset, FS_CardinalityType
      <4>5. challenges'[d].attempts = challenges[d].attempts + 1
        BY <1>5, <2>1, <3>1
      <4>6. compared[d] + Cardinality(Pend(d)) <= challenges[d].attempts /\ challenges[d].attempts < MaxAttempts
        BY <1>6, <3>1 DEF GuessInv, PaidFor
      <4> QED BY <1>2, <1>5, <4>4, <4>5, <4>6, SecondFactorConstants DEF PaidFor
    <3>2. CASE d # c
      <4>1. Pend(d)' \subseteq Pend(d)
        BY <1>4, <2>2, <3>2 DEF Pend, Moves, Waits
      <4>2. Cardinality(Pend(d)') <= Cardinality(Pend(d)) /\ Cardinality(Pend(d)') \in Nat /\ Cardinality(Pend(d)) \in Nat
        BY <4>1, PendFinite, FS_Subset, FS_CardinalityType
      <4>3. challenges'[d] = challenges[d]
        BY <1>5, <2>1, <3>2
      <4> QED BY <1>2, <1>5, <4>2, <4>3, SecondFactorConstants DEF PaidFor, GuessInv
    <3> QED BY <3>1, <3>2
  <2> QED BY <2>3, <2>4 DEF GuessInv, ChallengeInv
<1>7. CASE ~(challenges[c].live /\ challenges[c].attempts < MaxAttempts)
  <2>1. challenges' = [challenges EXCEPT ![c] = NoChallenge] /\ Done(r)
    BY <1>7 DEF MFAChallengeAttempt
  <2>2. \A d \in Challenge : challenges'[d] = challenges[d] \/ challenges'[d] = NoChallenge
    BY <1>5, <2>1
  <2> QED BY <1>2, <1>4, <2>1, <2>2, DoneLeaves, GuessKept DEF NoChallenge
<1> QED BY <1>6, <1>7

\* A guess that was paid for is made.
LEMMA CodeGuesses ==
  ASSUME SpendInv, SpendInv', GuessInv, NEW r \in Requests, checkCode(r) \/ CheckPending(r)
  PROVE  GuessInv'
<1> DEFINE c == work[r].ch
<1>1. work[r] \in Work /\ work \in [Requests -> Work] /\ ChallengeInv(work[r])
  BY WorkType DEF SpendInv, GuessInv
<1>2. work[r].at = "code" /\ UNCHANGED challenges
  BY DEF checkCode, CheckPending, At
<1>3. compared' = IF c = NoToken THEN compared ELSE [compared EXCEPT ![c] = @ + 1]
  BY DEF checkCode, CheckPending
<1>4. Moves(r)
  BY CodeMoves
<1>5. ChallengeInv(work'[r]) /\ work'[r].at \notin Paid
  <2>1. CASE Done(r)
    BY <2>1, DoneLeaves, SecondFactorConstants DEF ChallengeInv, Paid, Idle
  <2>2. ASSUME ~ Done(r) PROVE /\ work'[r].at \in {"spend", "list", "enable"}
                              /\ work'[r].op = work[r].op /\ work'[r].ch = work[r].ch
    <3>1. CASE checkCode(r)
      <4>1. \/ \E t \in 0..MaxStep + 1 : work' = [work EXCEPT ![r].step = t, ![r].at = "spend"]
            \/ \E n \in 1..NCodes : work' = [work EXCEPT ![r].code = n, ![r].at = "list"]
        BY <2>2, <3>1 DEF checkCode, Totp
      <4>2. ASSUME NEW t, work' = [work EXCEPT ![r].step = t, ![r].at = "spend"]
            PROVE  work'[r].at = "spend" /\ work'[r].op = work[r].op /\ work'[r].ch = work[r].ch
        BY <1>1, <4>2 DEF Work
      <4>3. ASSUME NEW n, work' = [work EXCEPT ![r].code = n, ![r].at = "list"]
            PROVE  work'[r].at = "list" /\ work'[r].op = work[r].op /\ work'[r].ch = work[r].ch
        BY <1>1, <4>3 DEF Work
      <4> QED BY <4>1, <4>2, <4>3
    <3>2. CASE CheckPending(r)
      <4>1. mfaEnable.code = "enable"
        BY DEF mfaEnable
      <4>2. \E t \in 0..MaxStep + 1 :
              work' = [work EXCEPT ![r].step = t, ![r].secret = factor.pending, ![r].at = "enable"]
        BY <2>2, <3>2, <4>1 DEF CheckPending, Totp
      <4> QED BY <1>1, <4>2 DEF Work
    <3> QED BY <3>1, <3>2
  <2> QED BY <1>1, <2>1, <2>2 DEF ChallengeInv, Paid
<1>6. \A q \in Requests : ChallengeInv(work'[q])
  BY <1>4, <1>5 DEF GuessInv, Moves
<1>7. compared \in [Challenge -> Nat] /\ \A d \in Challenge : challenges[d].attempts \in Nat
  BY TypeParts DEF SpendInv, TableType, CountType
<1>8. ASSUME NEW d \in Challenge PROVE PaidFor(d)'
  <2>1. Pend(d)' \subseteq Pend(d) \ {r}
    BY <1>4, <1>5 DEF Pend, Moves
  <2>2. IsFiniteSet(Pend(d)) /\ Cardinality(Pend(d)) \in Nat
    BY PendFinite
  <2>3. CASE d = c
    <3>1. r \in Pend(d)
      BY <1>2, <2>3 DEF Pend, Paid
    <3>2. IsFiniteSet(Pend(d) \ {r}) /\ Cardinality(Pend(d) \ {r}) = Cardinality(Pend(d)) - 1
      BY <2>2, <3>1, FS_RemoveElement
    <3>3. Cardinality(Pend(d)') <= Cardinality(Pend(d)) - 1 /\ Cardinality(Pend(d)') \in Nat
      BY <2>1, <3>2, FS_Subset, FS_CardinalityType
    <3>4. compared'[d] = compared[d] + 1
      BY <1>3, <1>7, <2>3, SecondFactorConstants
    <3>5. compared[d] \in Nat /\ challenges'[d] = challenges[d]
      BY <1>2, <1>7
    <3> QED BY <1>7, <2>2, <3>3, <3>4, <3>5, SecondFactorConstants DEF GuessInv, PaidFor
  <2>4. CASE d # c
    <3>1. compared'[d] = compared[d] /\ compared[d] \in Nat /\ challenges'[d] = challenges[d]
      BY <1>2, <1>3, <1>7, <2>4
    <3>2. Pend(d)' \subseteq Pend(d)
      BY <2>1
    <3>3. Cardinality(Pend(d)') <= Cardinality(Pend(d)) /\ Cardinality(Pend(d)') \in Nat
      BY <2>2, <3>2, FS_Subset, FS_CardinalityType
    <3> QED BY <1>7, <2>2, <3>1, <3>3, SecondFactorConstants DEF GuessInv, PaidFor
  <2> QED BY <2>3, <2>4
<1> QED BY <1>6, <1>8 DEF GuessInv, ChallengeInv

LEMMA GuessStep == SpendInv /\ SpendInv' /\ GuessInv /\ [MfaNext]_mfaVars => GuessInv'
<1> SUFFICES ASSUME SpendInv, SpendInv', GuessInv, [MfaNext]_mfaVars PROVE GuessInv'
  OBVIOUS
<1>1. CASE \E r \in Requests :
        \/ Arrive(r) \/ mfaEnabled(r) \/ passwordLoginNeedsMFA(r) \/ allowCodeGuess(r)
        \/ UseTOTPStep(r) \/ ReadRecoveryCodes(r) \/ SwapRecoveryCodes(r)
        \/ DisableTOTP(r) \/ SetRecoveryCodes(r) \/ SetTOTPPending(r) \/ EnableTOTP(r)
        \/ DeleteMFAChallenge(r) \/ DeleteMFAChallengesForUser(r) \/ startSession(r) \/ SignOut(r)
  BY <1>1, OtherGuesses
<1>2. CASE \E r \in Requests : CreateMFAChallenge(r) \/ MFAChallengeAttempt(r) \/ checkCode(r) \/ CheckPending(r)
  BY <1>2, CreateGuesses, AttemptGuesses, CodeGuesses
<1>3. CASE \/ \E c \in Challenge : ExpireChallenge(c)
           \/ NextStep \/ NextWindow \/ UNCHANGED mfaVars
  <2>1. UNCHANGED <<work, compared>>
    BY <1>3 DEF ExpireChallenge, NextStep, NextWindow, mfaVars
  <2>2. \A d \in Challenge : challenges'[d].live => challenges[d].live /\ challenges'[d].attempts = challenges[d].attempts
    <3>1. challenges \in [Challenge -> [kind : {"none", "verify", "setup"}, attempts : 0..MaxAttempts, live : BOOLEAN]]
      BY TypeParts DEF SpendInv, TableType
    <3> QED BY <1>3, <3>1 DEF ExpireChallenge, NextStep, NextWindow, mfaVars
  <2> QED BY <2>1, <2>2 DEF GuessInv, PaidFor, Pend, ChallengeInv
<1> QED BY <1>1, <1>2, <1>3 DEF MfaNext

LEMMA InitGuess == MfaInit => GuessInv
<1> SUFFICES ASSUME MfaInit PROVE GuessInv
  OBVIOUS
<1>1. \A r \in Requests : ChallengeInv(work[r])
  BY DEF MfaInit, ChallengeInv, Idle
<1>2. ASSUME NEW c \in Challenge PROVE PaidFor(c)
  <2>1. Pend(c) = {}
    BY SecondFactorConstants DEF MfaInit, Pend, Idle, Paid
  <2>2. Cardinality(Pend(c)) = 0 /\ compared[c] = 0
    BY <2>1, FS_EmptySet DEF MfaInit
  <2>3. challenges[c].attempts = 0
    BY DEF MfaInit, NoChallenge
  <2> QED BY <2>2, <2>3, SecondFactorConstants DEF PaidFor
<1> QED BY <1>1, <1>2 DEF GuessInv

-----------------------------------------------------------------------------
(* The theorems.                                                           *)

LEMMA InitSpend == MfaInit => SpendInv
<1> SUFFICES ASSUME MfaInit PROVE SpendInv
  OBVIOUS
<1>1. work \in [Requests -> Work] /\ \A r \in Requests : HoldsInv(work[r])
  <2>1. work = [r \in Requests |-> Idle] /\ Idle \in Work /\ HoldsInv(Idle)
    BY IdleType, SecondFactorConstants DEF MfaInit, HoldsInv, Idle, Path
  <2> QED BY <2>1
<1>2. CountType /\ UsedType
  BY SecondFactorConstants DEF MfaInit, CountType, UsedType
<1>3. FactorType /\ MadeType
  BY SecondFactorConstants DEF MfaInit, FactorType, MadeType, Off, Lists
<1>4. TableType
  <2> DEFINE Row == [kind : {"none", "verify", "setup"}, attempts : 0..MaxAttempts, live : BOOLEAN]
  <2>1. NoChallenge \in Row /\ [kind |-> "verify", attempts |-> 0, live |-> TRUE] \in Row
    BY SecondFactorConstants DEF NoChallenge
  <2> HIDE DEF Row
  <2>2. challenges \in [Challenge -> Row]
    BY <2>1 DEF MfaInit
  <2> QED BY <2>2 DEF TableType, Row
<1>5. StepsInv /\ CodesInv
  BY SecondFactorConstants DEF MfaInit, StepsInv, CodesInv, RecoveryListExact, Off
<1> QED BY <1>1, <1>2, <1>3, <1>4, <1>5, TypeParts DEF SpendInv

LEMMA SpendStep == SpendInv /\ [MfaNext]_mfaVars => SpendInv'
<1> SUFFICES ASSUME SpendInv, [MfaNext]_mfaVars PROVE SpendInv'
  OBVIOUS
<1>1. FactorType /\ TableType /\ CountType /\ MadeType /\ UsedType /\ work \in [Requests -> Work]
  BY TypeParts DEF SpendInv
<1>2. ASSUME UNCHANGED Shared, UNCHANGED work, TableType', CountType' PROVE SpendInv'
  <2>1. StepsInv' /\ CodesInv' /\ FactorType' /\ MadeType' /\ UsedType'
    BY <1>2, DataKept DEF Shared
  <2>2. MfaTypeOK'
    BY <1>1, <1>2, <2>1 DEF MfaTypeOK, FactorType, TableType, CountType, MadeType, UsedType, Work
  <2> QED BY <1>2, <2>1, <2>2 DEF SpendInv, HoldsInv
<1>3. CASE \E r \in Requests :
        \/ Arrive(r) \/ mfaEnabled(r) \/ passwordLoginNeedsMFA(r) \/ CreateMFAChallenge(r)
        \/ MFAChallengeAttempt(r) \/ allowCodeGuess(r) \/ checkCode(r) \/ CheckPending(r)
        \/ DeleteMFAChallenge(r) \/ DeleteMFAChallengesForUser(r) \/ startSession(r) \/ SignOut(r)
  BY <1>3, CalmStep
<1>4. CASE \E r \in Requests : UseTOTPStep(r) \/ SwapRecoveryCodes(r) \/ ReadRecoveryCodes(r)
  BY <1>4, StepSpent, CodeSpent, ListStep
<1>5. CASE \E r \in Requests : DisableTOTP(r) \/ SetRecoveryCodes(r) \/ SetTOTPPending(r) \/ EnableTOTP(r)
  BY <1>5, OffStep, NewCodesStep, PendingStep, EnableStep
<1>6. CASE \E c \in Challenge : ExpireChallenge(c)
  <2>1. PICK c \in Challenge : challenges' = [challenges EXCEPT ![c].live = FALSE]
    BY <1>6 DEF ExpireChallenge
  <2>2. TableType'
    BY <1>1, <2>1 DEF TableType
  <2>3. CountType'
    BY <1>1, <1>6 DEF ExpireChallenge, CountType
  <2> QED BY <1>2, <1>6, <2>2, <2>3 DEF ExpireChallenge, Shared
<1>7. CASE NextStep \/ NextWindow
  <2>1. TableType'
    BY <1>1, <1>7 DEF NextStep, NextWindow, TableType
  <2>2. 0 \in 0..CodeLimit /\ \A n \in 1..MaxStep : n < MaxStep => n + 1 \in 1..MaxStep
    BY SecondFactorConstants
  <2>3. CountType'
    BY <1>1, <1>7, <2>2 DEF NextStep, NextWindow, CountType
  <2> QED BY <1>2, <1>7, <2>1, <2>3 DEF NextStep, NextWindow, Shared
<1>8. CASE UNCHANGED mfaVars
  <2>1. TableType' /\ CountType'
    BY <1>1, <1>8 DEF mfaVars, TableType, CountType
  <2> QED BY <1>2, <1>8, <2>1 DEF mfaVars, Shared
<1> QED BY <1>3, <1>4, <1>5, <1>6, <1>7, <1>8 DEF MfaNext

\* The account, its challenges and every request keep their types.
THEOREM SecondFactorTypes == MfaSpec => []MfaTypeOK
<1>1. SpendInv => MfaTypeOK
  BY DEF SpendInv
<1> QED BY <1>1, InitSpend, SpendStep, PTL DEF MfaSpec

\* The recovery codes that are left are those of the list in force that nobody
\* has used: UseRecoveryCode writes a list only over the one it read.
THEOREM RecoveryCodesAreExact == MfaSpec => []RecoveryListExact
<1>1. SpendInv => RecoveryListExact
  BY DEF SpendInv, CodesInv
<1> QED BY <1>1, InitSpend, SpendStep, PTL DEF MfaSpec

\* Types, recovery codes and guesses together: however requests race, no more
\* than mfaMaxAttempts codes are compared for one challenge, since
\* MFAChallengeAttempt counts an attempt before its code is looked at.
THEOREM SecondFactorHolds == MfaSpec => []SecondFactorInv
<1>1. SpendInv /\ GuessInv => SecondFactorInv
  <2> SUFFICES ASSUME SpendInv, GuessInv, NEW c \in Challenge PROVE compared[c] <= MaxAttempts
    BY DEF SpendInv, CodesInv, SecondFactorInv, GuessesBounded
  <2>1. compared[c] + Cardinality(Pend(c)) <= MaxAttempts /\ Cardinality(Pend(c)) \in Nat
    BY PendFinite DEF GuessInv, PaidFor
  <2>2. compared[c] \in Nat
    BY TypeParts DEF SpendInv, CountType
  <2> QED BY <2>1, <2>2, SecondFactorConstants
<1> QED BY <1>1, InitSpend, SpendStep, InitGuess, GuessStep, PTL DEF MfaSpec

\* No code is accepted twice, whichever requests race for it: a request that
\* goes on from UseTOTPStep or UseRecoveryCode has spent a code nobody spent.
THEOREM NoCodeTwice == MfaSpec => CodesSpentOnce
<1> DEFINE Fresh(r) == work[r].at \in {"spend", "swap"} /\ work'[r].at \in {"close", "off", "codes"}
                         => usedSteps' # usedSteps \/ usedCodes' # usedCodes
<1>1. ASSUME SpendInv, [MfaNext]_mfaVars, NEW r \in Requests PROVE Fresh(r)
  <2> SUFFICES ASSUME work[r].at \in {"spend", "swap"}, work'[r].at \in {"close", "off", "codes"}
               PROVE  usedSteps' # usedSteps \/ usedCodes' # usedCodes
    OBVIOUS
  <2>1. work'[r] # work[r]
    OBVIOUS
  <2>2. PICK q \in Requests :
          \/ Arrive(q) \/ mfaEnabled(q) \/ passwordLoginNeedsMFA(q) \/ CreateMFAChallenge(q)
          \/ MFAChallengeAttempt(q) \/ allowCodeGuess(q) \/ checkCode(q) \/ CheckPending(q)
          \/ UseTOTPStep(q) \/ ReadRecoveryCodes(q) \/ SwapRecoveryCodes(q)
          \/ DisableTOTP(q) \/ SetRecoveryCodes(q) \/ SetTOTPPending(q) \/ EnableTOTP(q)
          \/ DeleteMFAChallenge(q) \/ DeleteMFAChallengesForUser(q) \/ startSession(q) \/ SignOut(q)
    BY <1>1, <2>1 DEF MfaNext, mfaVars, ExpireChallenge, NextStep, NextWindow
  <2>3. CASE q # r
    <3>1. work \in [Requests -> Work]
      BY <1>1, WorkType DEF SpendInv
    <3>2. ASSUME NEW s, Go(q, s) PROVE work'[r] = work[r]
      BY <2>3, <3>1, <3>2 DEF Go
    <3>3. Then(q) \/ Done(q) => work'[r] = work[r]
      BY <3>2 DEF Then, Done
    <3>4. work'[r] = work[r]
      <4>1. CASE Arrive(q)
        BY <2>3, <3>1, <4>1 DEF Arrive, mfaAccount
      <4>2. CASE mfaEnabled(q) \/ passwordLoginNeedsMFA(q) \/ CreateMFAChallenge(q) \/ MFAChallengeAttempt(q)
        BY <2>3, <3>1, <3>3, <4>2 DEF mfaEnabled, passwordLoginNeedsMFA, CreateMFAChallenge, MFAChallengeAttempt, challengeUser
      <4>3. CASE allowCodeGuess(q) \/ checkCode(q) \/ CheckPending(q) \/ UseTOTPStep(q)
        BY <2>3, <3>1, <3>3, <4>3 DEF allowCodeGuess, checkCode, CheckPending, UseTOTPStep
      <4>4. CASE ReadRecoveryCodes(q) \/ SwapRecoveryCodes(q)
        BY <2>3, <3>1, <3>3, <4>4 DEF ReadRecoveryCodes, SwapRecoveryCodes
      <4>5. CASE DisableTOTP(q) \/ SetRecoveryCodes(q) \/ SetTOTPPending(q) \/ EnableTOTP(q)
        BY <3>3, <4>5 DEF DisableTOTP, SetRecoveryCodes, SetTOTPPending, EnableTOTP
      <4>6. CASE DeleteMFAChallenge(q) \/ DeleteMFAChallengesForUser(q) \/ startSession(q) \/ SignOut(q)
        BY <3>3, <4>6 DEF DeleteMFAChallenge, DeleteMFAChallengesForUser, startSession, SignOut
      <4> QED BY <2>2, <4>1, <4>2, <4>3, <4>4, <4>5, <4>6
    <3> QED BY <2>1, <3>4
  <2>4. CASE q = r
    <3>1. UseTOTPStep(r) \/ SwapRecoveryCodes(r)
      BY <2>2, <2>4 DEF Arrive, mfaEnabled, passwordLoginNeedsMFA, CreateMFAChallenge, MFAChallengeAttempt,
         allowCodeGuess, checkCode, CheckPending, ReadRecoveryCodes,
         DisableTOTP, SetRecoveryCodes, SetTOTPPending, EnableTOTP, DeleteMFAChallenge, DeleteMFAChallengesForUser,
         startSession, SignOut, At
    <3> QED BY <1>1, <3>1, StepSpent, CodeSpent
  <2> QED BY <2>3, <2>4
<1>2. SpendInv /\ [MfaNext]_mfaVars => [\A r \in Requests : Fresh(r)]_mfaVars
  BY <1>1
<1> QED BY <1>2, InitSpend, SpendStep, PTL DEF MfaSpec, CodesSpentOnce

-----------------------------------------------------------------------------
(* Accounts, sessions, tokens and setup.                                   *)

\* Where a request may be, and the request of each kind.
CallPlaces == {"unsent", "password", "session", "done", "judge", "count", "write", "signout", "revoke", "taken",
               "insert", "subject", "refresh", "name", "reread", "mint", "begin", "discover", "complete", "open",
               "gone", "look", "promote", "flag"}
Route ==
  [login    |-> {"unsent", "password", "session", "done"},
   role     |-> {"judge", "count", "write", "signout"},
   delete   |-> {"judge", "count", "write", "signout", "revoke"},
   password |-> {"judge", "write", "signout"},
   create   |-> {"taken", "insert"},
   sso      |-> {"subject", "refresh", "name", "insert", "reread", "session"},
   token    |-> {"mint"},
   setup    |-> {"begin", "discover", "complete", "open", "gone", "password", "session"},
   settings |-> {"begin", "discover"},
   command  |-> {"look", "insert", "promote", "flag", "done"}]

\* What a request keeps between two of its statements.
CallRecord ==
  [act : Acts, at : CallPlaces, id : UserIds, role : Roles, by : UserIds, rev : 0..MaxRev,
   sub : Subjects \cup {Nobody}, name : [base : Bases \cup {Nobody}, n : 1..MaxUsers + 1], gen : Nat]

CallTypes ==
  /\ calls \in [Clients -> CallRecord]
  /\ provider \in [gen : Nat, live : Nat, retry : Nat] /\ provider.live <= provider.gen

\* A request is where its kind may be, has a name when it makes a row of it, and
\* only setup, its sign-in and the command run before setup is stored.
CallFits(c) ==
  /\ c.at \in Route[c.act]
  /\ c.act \in {"create", "command", "setup", "sso"} => c.name.base \in Bases
  /\ c.act \in {"role", "delete", "password", "create", "token", "settings", "sso"} => setup.stored
  /\ c.at \in {"open", "gone"} => setup.stored
  /\ c.at \in {"refresh", "session"} => c.id # 0
  /\ c.at = "unsent" => c = Quiet
  /\ c.act = "command" => c.role = "admin"

\* An SSO sign-in keeps to the row of its subject, or knows the row it made.
SubjectHeld(c) ==
  /\ c.at \in {"subject", "name", "insert"} => c.id = 0 /\ c.gen = 0
  /\ c.at = "refresh" => c.gen = 0
  /\ c.id <= lastId /\ c.gen <= lastId
  /\ c.gen = 0 /\ Exists(c.id) => users[c.id].subject = c.sub
  /\ c.gen = 0 /\ c.at \in {"reread", "session"} => c.id # 0
  /\ Exists(c.gen) => users[c.gen].subject = c.sub
  /\ c.gen # 0 /\ c.at = "reread" => c.id = 0 /\ \A i \in UsersNamed(c.name) : i >= c.gen
  /\ c.gen # 0 /\ c.at = "session" => c.id >= c.gen

SubjectInv == \A r \in Clients : calls[r].act = "sso" => SubjectHeld(calls[r])

\* Until setup is stored there are administrators only, none is removed, and
\* the command that is about to store the flag has made one.
FirstBootInv ==
  ~setup.stored =>
    /\ \A i \in 1..lastId : i \in Admins
    /\ winners = {}
    /\ \A r \in Clients : Here(r, "flag") => lastId # 0

\* One administrator stays whatever removals are about to be written.
KeptInv ==
  setup.stored /\ ~excused =>
    \E i \in Admins : \A r \in Clients : Here(r, "write") /\ Removal(calls[r]) => calls[r].id # i

\* Only a deletion under way leaves tokens without their account.
Deleting(i) == \E r \in Clients : calls[r].id = i /\ calls[r].at \in {"signout", "revoke"} /\ calls[r].act = "delete"
TokensInv == \A t \in tokens : t.late \/ Exists(t.id) \/ Deleting(t.id)
SessionsInv == \A s \in signedIn : s.late \/ Changing(s.id, {"signout"}) \/ (Exists(s.id) /\ users[s.id].rev = s.rev)

AccountsIInv ==
  /\ AccTypeOK /\ CallTypes /\ \A r \in Clients : CallFits(calls[r])
  /\ SubjectInv /\ FirstBootInv /\ KeptInv /\ SetupOnce /\ TokensInv /\ SessionsInv

\* What one request does in a step.
AccStep(r) ==
  \/ Call(r) \/ oidcCallback(r) \/ setupComplete(r)
  \/ setUserRole(r) \/ resetUserPassword(r) \/ deleteUser(r) \/ LastAdmin(r)
  \/ UpdateUserRole(r) \/ UpdateUserPassword(r) \/ DeleteUser(r) \/ DeleteSessionsForUser(r)
  \/ DeleteAPITokensForUser(r) \/ CreateAPIToken(r) \/ createUser(r) \/ CreateLocalUser(r)
  \/ resetAdminCmd(r) \/ CheckPassword(r)
  \/ GetOIDCUserBySubject(r) \/ freeUsername(r) \/ UpsertOIDCUser(r) \/ CreateSession(r)
  \/ LoaderBegin(r) \/ LoaderApply(r) \/ CompleteSetup(r) \/ OpenAPI(r)

\* What happens without a request.
Ageing == LoaderRetry \/ (\E s \in signedIn : logout(s)) \/ (\E t \in tokens : deleteAPIToken(t))

LEMMA AccNextParts == AccNext <=> Ageing \/ \E r \in Clients : AccStep(r)
BY DEF AccNext, Ageing, AccStep

LEMMA QuietType == Quiet \in CallRecord /\ [Quiet EXCEPT !.at = "done"] \in CallRecord
BY AccountsConstants DEF Quiet, CallRecord, CallPlaces, Acts, Roles, UserIds

\* A request that goes on keeps its locals; one that is done forgets them.
LEMMA ToMoves ==
  ASSUME calls \in [Clients -> CallRecord], NEW r \in Clients, NEW s \in CallPlaces, To(r, s)
  PROVE  /\ calls' \in [Clients -> CallRecord]
         /\ \A q \in Clients \ {r} : calls'[q] = calls[q]
         /\ s = "done" => calls'[r] = [Quiet EXCEPT !.at = s]
         /\ s # "done" => calls'[r] = [calls[r] EXCEPT !.at = s]
         /\ calls'[r].at = s
<1>1. [calls[r] EXCEPT !.at = s] \in CallRecord /\ [calls[r] EXCEPT !.at = s].at = s
  BY DEF CallRecord
<1>2. [Quiet EXCEPT !.at = "done"].at = "done"
  BY DEF Quiet
<1> QED BY <1>1, <1>2, QuietType DEF To

\* A step of a request leaves the others alone, and it where its kind may be.
StepKeeps(r) ==
  /\ calls' \in [Clients -> CallRecord]
  /\ \A q \in Clients \ {r} : calls'[q] = calls[q]
  /\ CallFits(calls[r])'

LEMMA FitsTo ==
  ASSUME CallTypes, NEW r \in Clients, CallFits(calls[r]), NEW s \in CallPlaces \ {"unsent"}, To(r, s),
         s \in Route[calls[r].act] \cup {"done"}, setup.stored => setup'.stored,
         s \in {"open", "gone"} => setup'.stored, s \in {"refresh", "session"} => calls[r].id # 0
  PROVE  StepKeeps(r)
<1>1. /\ calls' \in [Clients -> CallRecord]
      /\ \A q \in Clients \ {r} : calls'[q] = calls[q]
      /\ s = "done" => calls'[r] = [Quiet EXCEPT !.at = s]
      /\ s # "done" => calls'[r] = [calls[r] EXCEPT !.at = s]
  BY ToMoves DEF CallTypes
<1>2. CASE s = "done"
  <2>1. calls'[r].act = "login" /\ calls'[r].at = "done"
    BY <1>1, <1>2 DEF Quiet
  <2> QED BY <1>1, <2>1 DEF StepKeeps, CallFits, Route
<1>3. CASE s # "done"
  <2>1. calls[r] \in CallRecord
    BY DEF CallTypes
  <2>2. /\ calls'[r].at = s /\ calls'[r].act = calls[r].act /\ calls'[r].id = calls[r].id
        /\ calls'[r].name = calls[r].name /\ calls'[r].role = calls[r].role
    BY <1>1, <1>3, <2>1 DEF CallRecord
  <2> QED BY <1>1, <1>3, <2>2 DEF StepKeeps, CallFits
<1> QED BY <1>2, <1>3

LEMMA RecordUpdate ==
  ASSUME calls \in [Clients -> CallRecord], NEW r \in Clients, NEW c \in CallRecord, calls' = [calls EXCEPT ![r] = c]
  PROVE  calls' \in [Clients -> CallRecord] /\ calls'[r] = c /\ \A q \in Clients \ {r} : calls'[q] = calls[q]
OBVIOUS

Arrivals == {"judge", "mint", "taken", "begin", "password", "look", "subject", "complete"}

LEMMA ArrivalKeeps ==
  ASSUME AccTypeOK, CallTypes, NEW r \in Clients, CallFits(calls[r]),
         Call(r) \/ oidcCallback(r) \/ setupComplete(r)
  PROVE  StepKeeps(r) /\ calls'[r].at \in Arrivals /\ (calls'[r].act = "sso" => calls'[r].id = 0 /\ calls'[r].gen = 0)
<1>1. calls[r] \in CallRecord /\ UNCHANGED setup /\ (setup.open => setup.stored)
  BY DEF AccTypeOK, CallTypes, Call, oidcCallback, setupComplete
<1>2. signedIn \subseteq [id : UserIds, role : Roles, rev : 0..MaxRev, late : BOOLEAN, sub : Subjects \cup {Nobody}]
  BY DEF AccTypeOK
<1>3. calls \in [Clients -> CallRecord]
  BY DEF CallTypes
<1>4. 1..MaxUsers \subseteq UserIds /\ 1 \in 1..MaxUsers + 1
  BY AccountsConstants DEF UserIds
\* It is enough to name the record a request starts with.
<1>5. ASSUME NEW c \in CallRecord, calls' = [calls EXCEPT ![r] = c], CallFits(c), c.at \in Arrivals,
             c.act = "sso" => c.id = 0 /\ c.gen = 0
      PROVE  StepKeeps(r) /\ calls'[r].at \in Arrivals /\ (calls'[r].act = "sso" => calls'[r].id = 0 /\ calls'[r].gen = 0)
  BY <1>1, <1>3, <1>5, RecordUpdate DEF StepKeeps, CallFits
<1>6. CASE Call(r)
  <2>1. CASE \E s \in signedIn, id \in 1..MaxUsers, role \in Roles, a \in {"role", "delete", "password"} :
                guard(s) /\ calls' = [calls EXCEPT ![r].act = a, ![r].id = id, ![r].role = role, ![r].by = s.id, ![r].at = "judge"]
    <3>1. PICK s \in signedIn, id \in 1..MaxUsers, role \in Roles, a \in {"role", "delete", "password"} :
                guard(s) /\ calls' = [calls EXCEPT ![r].act = a, ![r].id = id, ![r].role = role, ![r].by = s.id, ![r].at = "judge"]
      BY <2>1
    <3> DEFINE c == [calls[r] EXCEPT !.act = a, !.id = id, !.role = role, !.by = s.id, !.at = "judge"]
    <3>2. c \in CallRecord /\ calls' = [calls EXCEPT ![r] = c]
      BY <1>1, <1>2, <1>3, <1>4, <3>1 DEF CallRecord, CallPlaces, Acts
    <3>3. c.act = a /\ c.at = "judge"
      BY <1>1 DEF CallRecord
    <3>4. CallFits(c)
      BY <1>1, <3>1, <3>3 DEF CallFits, Route, guard
    <3>5. c.at \in Arrivals /\ c.act # "sso"
      BY <3>1, <3>3 DEF Arrivals
    <3> HIDE DEF c
    <3> QED BY <1>5, <3>2, <3>4, <3>5
  <2>2. CASE \E s \in signedIn, role \in Roles :
                guard(s) /\ calls' = [calls EXCEPT ![r].act = "token", ![r].by = s.id, ![r].role = role, ![r].at = "mint"]
    <3>1. PICK s \in signedIn, role \in Roles :
                guard(s) /\ calls' = [calls EXCEPT ![r].act = "token", ![r].by = s.id, ![r].role = role, ![r].at = "mint"]
      BY <2>2
    <3> DEFINE c == [calls[r] EXCEPT !.act = "token", !.by = s.id, !.role = role, !.at = "mint"]
    <3>2. c \in CallRecord /\ calls' = [calls EXCEPT ![r] = c]
      BY <1>1, <1>2, <1>3, <3>1 DEF CallRecord, CallPlaces, Acts
    <3>3. c.act = "token" /\ c.at = "mint"
      BY <1>1 DEF CallRecord
    <3>4. CallFits(c)
      BY <1>1, <3>1, <3>3 DEF CallFits, Route, guard
    <3>5. c.at \in Arrivals /\ c.act # "sso"
      BY <3>1, <3>3 DEF Arrivals
    <3> HIDE DEF c
    <3> QED BY <1>5, <3>2, <3>4, <3>5
  <2>3. CASE \E s \in signedIn, b \in Bases, role \in Roles :
                guard(s) /\ calls' = [calls EXCEPT ![r].act = "create", ![r].name.base = b, ![r].role = role, ![r].at = "taken"]
    <3>1. PICK s \in signedIn, b \in Bases, role \in Roles :
                guard(s) /\ calls' = [calls EXCEPT ![r].act = "create", ![r].name.base = b, ![r].role = role, ![r].at = "taken"]
      BY <2>3
    <3> DEFINE c == [calls[r] EXCEPT !.act = "create", !.name.base = b, !.role = role, !.at = "taken"]
    <3>2. c \in CallRecord /\ calls' = [calls EXCEPT ![r] = c]
      BY <1>1, <1>3, <3>1 DEF CallRecord, CallPlaces, Acts
    <3>3. c.act = "create" /\ c.at = "taken" /\ c.name.base = b
      BY <1>1 DEF CallRecord
    <3>4. CallFits(c)
      BY <1>1, <3>1, <3>3 DEF CallFits, Route, guard
    <3>5. c.at \in Arrivals /\ c.act # "sso"
      BY <3>1, <3>3 DEF Arrivals
    <3> HIDE DEF c
    <3> QED BY <1>5, <3>2, <3>4, <3>5
  <2>4. CASE \E s \in signedIn :
                guard(s) /\ calls' = [calls EXCEPT ![r].act = "settings", ![r].at = "begin"]
    <3>1. PICK s \in signedIn :
                guard(s) /\ calls' = [calls EXCEPT ![r].act = "settings", ![r].at = "begin"]
      BY <2>4
    <3> DEFINE c == [calls[r] EXCEPT !.act = "settings", !.at = "begin"]
    <3>2. c \in CallRecord /\ calls' = [calls EXCEPT ![r] = c]
      BY <1>1, <1>3, <3>1 DEF CallRecord, CallPlaces, Acts
    <3>3. c.act = "settings" /\ c.at = "begin"
      BY <1>1 DEF CallRecord
    <3>4. CallFits(c)
      BY <1>1, <3>1, <3>3 DEF CallFits, Route, guard
    <3>5. c.at \in Arrivals /\ c.act # "sso"
      BY <3>1, <3>3 DEF Arrivals
    <3> HIDE DEF c
    <3> QED BY <1>5, <3>2, <3>4, <3>5
  <2>5. CASE \E b \in Bases :
                calls' = [calls EXCEPT ![r].act = "login", ![r].name.base = b, ![r].at = "password"]
    <3>1. PICK b \in Bases :
                calls' = [calls EXCEPT ![r].act = "login", ![r].name.base = b, ![r].at = "password"]
      BY <2>5
    <3> DEFINE c == [calls[r] EXCEPT !.act = "login", !.name.base = b, !.at = "password"]
    <3>2. c \in CallRecord /\ calls' = [calls EXCEPT ![r] = c]
      BY <1>1, <1>3, <3>1 DEF CallRecord, CallPlaces, Acts
    <3>3. c.act = "login" /\ c.at = "password"
      BY <1>1 DEF CallRecord
    <3>4. CallFits(c)
      BY <1>1, <3>1, <3>3 DEF CallFits, Route
    <3>5. c.at \in Arrivals /\ c.act # "sso"
      BY <3>1, <3>3 DEF Arrivals
    <3> HIDE DEF c
    <3> QED BY <1>5, <3>2, <3>4, <3>5
  <2>6. CASE \E b \in Bases :
                calls' = [calls EXCEPT ![r].act = "command", ![r].name.base = b, ![r].role = "admin", ![r].at = "look"]
    <3>1. PICK b \in Bases :
                calls' = [calls EXCEPT ![r].act = "command", ![r].name.base = b, ![r].role = "admin", ![r].at = "look"]
      BY <2>6
    <3> DEFINE c == [calls[r] EXCEPT !.act = "command", !.name.base = b, !.role = "admin", !.at = "look"]
    <3>2. c \in CallRecord /\ calls' = [calls EXCEPT ![r] = c]
      BY <1>1, <1>3, <3>1 DEF CallRecord, CallPlaces, Acts, Roles
    <3>3. c.act = "command" /\ c.at = "look" /\ c.name.base = b /\ c.role = "admin"
      BY <1>1 DEF CallRecord
    <3>4. CallFits(c)
      BY <1>1, <3>1, <3>3 DEF CallFits, Route
    <3>5. c.at \in Arrivals /\ c.act # "sso"
      BY <3>1, <3>3 DEF Arrivals
    <3> HIDE DEF c
    <3> QED BY <1>5, <3>2, <3>4, <3>5
  <2> QED BY <1>6, <2>1, <2>2, <2>3, <2>4, <2>5, <2>6 DEF Call
<1>7. CASE oidcCallback(r)
  <2>1. PICK s \in Subjects, b \in Bases, role \in Roles :
          calls' = [calls EXCEPT ![r].act = "sso", ![r].sub = s, ![r].name.base = b, ![r].role = role, ![r].at = "subject"]
    BY <1>7 DEF oidcCallback
  <2> DEFINE c == [calls[r] EXCEPT !.act = "sso", !.sub = s, !.name.base = b, !.role = role, !.at = "subject"]
  <2>2. c \in CallRecord /\ calls' = [calls EXCEPT ![r] = c]
    BY <1>1, <1>3, <2>1 DEF CallRecord, CallPlaces, Acts
  <2>3. c.act = "sso" /\ c.at = "subject" /\ c.name.base = b
    BY <1>1 DEF CallRecord
  <2>4. CallFits(c)
    <3>1. setup.stored
      BY <1>1, <1>7 DEF oidcCallback
    <3> QED BY <2>3, <3>1 DEF CallFits, Route
  <2>5. c.id = 0 /\ c.gen = 0 /\ c.at \in Arrivals
    <3>1. calls[r] = Quiet
      BY <1>7 DEF oidcCallback, Here, CallFits
    <3> QED BY <2>3, <3>1 DEF Quiet, Arrivals
  <2> HIDE DEF c
  <2> QED BY <1>5, <2>2, <2>4, <2>5
<1>8. CASE setupComplete(r)
  <2>1. PICK b \in Bases, s \in {"begin", "complete"} :
          calls' = [calls EXCEPT ![r].act = "setup", ![r].name.base = b, ![r].at = s]
    BY <1>8 DEF setupComplete
  <2> DEFINE c == [calls[r] EXCEPT !.act = "setup", !.name.base = b, !.at = s]
  <2>2. c \in CallRecord /\ calls' = [calls EXCEPT ![r] = c]
    BY <1>1, <1>3, <2>1 DEF CallRecord, CallPlaces, Acts
  <2>3. c.act = "setup" /\ c.at = s /\ c.name.base = b
    BY <1>1 DEF CallRecord
  <2>4. CallFits(c)
    BY <2>3 DEF CallFits, Route
  <2>5. c.at \in Arrivals
    BY <2>3 DEF Arrivals
  <2> HIDE DEF c
  <2> QED BY <1>5, <2>2, <2>3, <2>4, <2>5
<1> QED BY <1>6, <1>7, <1>8

\* The record a sign-in goes on with.
LEMMA SignInKeeps ==
  ASSUME AccTypeOK, CallTypes, NEW r \in Clients, CallFits(calls[r]), NEW i \in Accounted, SignInAs(r, i),
         calls[r].act \in {"login", "sso", "setup"}, UNCHANGED setup
  PROVE  StepKeeps(r)
<1> DEFINE c == [calls[r] EXCEPT !.id = i, !.role = users[i].role, !.rev = users[i].rev, !.at = "session"]
<1>1. calls[r] \in CallRecord /\ calls \in [Clients -> CallRecord]
  BY DEF CallTypes
<1>2. users[i] \in Users \ {Gone} /\ i \in 1..MaxUsers
  BY DEF AccTypeOK, Accounted
<1>3. users[i].role \in Roles /\ users[i].rev \in 0..MaxRev /\ i \in UserIds /\ i # 0
  BY <1>2, AccountsConstants DEF Users, UserIds
<1>4. c \in CallRecord /\ calls' = [calls EXCEPT ![r] = c]
  BY <1>1, <1>3 DEF CallRecord, CallPlaces, SignInAs
<1>5. c.at = "session" /\ c.act = calls[r].act /\ c.id = i /\ c.name = calls[r].name
  BY <1>1 DEF CallRecord
<1>6. CallFits(c)
  BY <1>3, <1>5 DEF CallFits, Route
<1> HIDE DEF c
<1>7. calls' \in [Clients -> CallRecord] /\ calls'[r] = c /\ \A q \in Clients \ {r} : calls'[q] = calls[q]
  BY <1>1, <1>4, RecordUpdate
<1> QED BY <1>6, <1>7 DEF StepKeeps, CallFits

LEMMA RoutePlaces == ASSUME NEW a \in Acts PROVE Route[a] \subseteq CallPlaces
BY DEF Route, Acts, CallPlaces

LEMMA ManageKeeps ==
  ASSUME AccTypeOK, CallTypes, NEW r \in Clients, CallFits(calls[r]),
         \/ setUserRole(r) \/ resetUserPassword(r) \/ deleteUser(r) \/ LastAdmin(r)
         \/ UpdateUserRole(r) \/ UpdateUserPassword(r) \/ DeleteUser(r) \/ DeleteSessionsForUser(r)
         \/ DeleteAPITokensForUser(r) \/ CreateAPIToken(r) \/ createUser(r) \/ CreateLocalUser(r)
  PROVE  StepKeeps(r) /\ UNCHANGED setup
<1>1. calls[r] \in CallRecord /\ calls[r].act \in Acts /\ calls[r].at \in Route[calls[r].act]
  BY DEF CallTypes, CallRecord, CallFits
<1>2. UNCHANGED setup /\ \E s \in {"done", "count", "write", "signout", "revoke", "insert", "flag"} :
        To(r, s) /\ s \in Route[calls[r].act] \cup {"done"}
  <2>1. CASE setUserRole(r)
    BY <2>1 DEF setUserRole, Route
  <2>2. CASE resetUserPassword(r)
    BY <2>2 DEF resetUserPassword, Route
  <2>3. CASE deleteUser(r)
    BY <2>3 DEF deleteUser, Route
  <2>4. CASE LastAdmin(r)
    <3>1. calls[r].act \in {"role", "delete"}
      BY <1>1, <2>4 DEF LastAdmin, Here, Route, Acts
    <3> QED BY <2>4, <3>1 DEF LastAdmin, Route
  <2>5. CASE UpdateUserRole(r) \/ UpdateUserPassword(r) \/ DeleteUser(r)
    <3>1. calls[r].act \in {"role", "password", "delete"} /\ To(r, "signout") /\ UNCHANGED setup
      BY <2>5 DEF UpdateUserRole, UpdateUserPassword, DeleteUser, Update
    <3> QED BY <3>1 DEF Route
  <2>6. CASE DeleteSessionsForUser(r)
    BY <2>6 DEF DeleteSessionsForUser, Route
  <2>7. CASE DeleteAPITokensForUser(r) \/ CreateAPIToken(r)
    BY <2>7 DEF DeleteAPITokensForUser, CreateAPIToken
  <2>8. CASE createUser(r)
    <3>1. calls[r].act = "create"
      BY <1>1, <2>8 DEF createUser, Here, Route, Acts
    <3> QED BY <2>8, <3>1 DEF createUser, Route
  <2>9. CASE CreateLocalUser(r)
    <3>1. UNCHANGED setup /\ (To(r, "done") \/ (calls[r].act = "command" /\ To(r, "flag")))
      BY <2>9 DEF CreateLocalUser
    <3> QED BY <3>1 DEF Route
  <2> QED BY <2>1, <2>2, <2>3, <2>4, <2>5, <2>6, <2>7, <2>8, <2>9
<1>3. PICK s \in {"done", "count", "write", "signout", "revoke", "insert", "flag"} :
        To(r, s) /\ s \in Route[calls[r].act] \cup {"done"}
  BY <1>2
<1> QED BY <1>2, <1>3, FitsTo DEF CallPlaces

LEMMA ResetAdminKeeps ==
  ASSUME AccTypeOK, CallTypes, NEW r \in Clients, CallFits(calls[r]), resetAdminCmd(r)
  PROVE  StepKeeps(r)
<1>1. calls[r] \in CallRecord /\ calls \in [Clients -> CallRecord]
  BY DEF CallTypes
<1>2. calls[r].act = "command" /\ (setup.stored => setup'.stored)
  BY DEF resetAdminCmd, AccTypeOK
<1>3. CASE \E s \in {"done", "insert"} : To(r, s)
  <2>1. PICK s \in {"done", "insert"} : To(r, s)
    BY <1>3
  <2>2. s \in Route["command"] /\ s \in CallPlaces
    BY DEF Route, CallPlaces
  <2> QED BY <1>2, <2>1, <2>2, FitsTo
<1>4. CASE \E i \in UsersNamed(calls[r].name) :
             calls' = [calls EXCEPT ![r].id = i, ![r].at = IF i \in Admins THEN "done" ELSE "promote"]
  <2>1. PICK i \in UsersNamed(calls[r].name) :
               calls' = [calls EXCEPT ![r].id = i, ![r].at = IF i \in Admins THEN "done" ELSE "promote"]
    BY <1>4
  <2> DEFINE c == [calls[r] EXCEPT !.id = i, !.at = IF i \in Admins THEN "done" ELSE "promote"]
  <2>2. i \in UserIds
    BY DEF UsersNamed, Accounted, UserIds
  <2>3. c \in CallRecord /\ calls' = [calls EXCEPT ![r] = c]
    BY <1>1, <2>1, <2>2 DEF CallRecord, CallPlaces
  <2>4. c.at \in {"done", "promote"} /\ c.act = "command" /\ c.name = calls[r].name /\ c.role = calls[r].role
    BY <1>1, <1>2 DEF CallRecord
  <2>5. CallFits(c)
    BY <1>2, <2>4 DEF CallFits, Route
  <2> HIDE DEF c
  <2>6. calls' \in [Clients -> CallRecord] /\ calls'[r] = c /\ \A q \in Clients \ {r} : calls'[q] = calls[q]
    BY <1>1, <2>3, RecordUpdate
  <2> QED BY <1>2, <2>4, <2>5, <2>6 DEF StepKeeps, CallFits
<1> QED BY <1>3, <1>4 DEF resetAdminCmd

LEMMA SignInPartsKeep ==
  ASSUME AccTypeOK, CallTypes, NEW r \in Clients, CallFits(calls[r]),
         CheckPassword(r) \/ GetOIDCUserBySubject(r) \/ freeUsername(r) \/ UpsertOIDCUser(r) \/ CreateSession(r)
  PROVE  StepKeeps(r) /\ UNCHANGED setup
<1>1. calls[r] \in CallRecord /\ calls \in [Clients -> CallRecord] /\ calls[r].act \in Acts /\ calls[r].at \in Route[calls[r].act]
  BY DEF CallTypes, CallRecord, CallFits
<1>2. UNCHANGED setup
  BY DEF CheckPassword, GetOIDCUserBySubject, freeUsername, UpsertOIDCUser, CreateSession
<1>3. ASSUME To(r, "done") PROVE StepKeeps(r)
  BY <1>2, <1>3, FitsTo DEF CallPlaces
<1>4. ASSUME NEW c \in CallRecord, calls' = [calls EXCEPT ![r] = c], CallFits(c) PROVE StepKeeps(r)
  BY <1>1, <1>2, <1>4, RecordUpdate DEF StepKeeps, CallFits
<1>5. CASE CheckPassword(r)
  <2>1. calls[r].act \in {"login", "setup"}
    BY <1>1, <1>5 DEF CheckPassword, Here, Route, Acts
  <2>2. ASSUME NEW i \in {j \in UsersNamed(calls[r].name) : users[j].subject = Nobody}, SignInAs(r, i) PROVE StepKeeps(r)
    <3>1. i \in Accounted
      BY DEF UsersNamed
    <3> QED BY <1>2, <2>1, <2>2, <3>1, SignInKeeps
  <2> QED BY <1>2, <1>3, <1>5, <2>2 DEF CheckPassword
<1>6. CASE GetOIDCUserBySubject(r)
  <2>1. calls[r].act = "sso"
    BY <1>1, <1>6 DEF GetOIDCUserBySubject, Here, Route, Acts
  <2>2. CASE To(r, "name")
    <3>1. "name" \in Route["sso"] /\ "name" \in CallPlaces
      BY DEF Route, CallPlaces
    <3> QED BY <1>2, <2>1, <2>2, <3>1, FitsTo
  <2>3. CASE BySubject(calls[r].sub) # {} /\ calls' = [calls EXCEPT ![r].id = CHOOSE i \in BySubject(calls[r].sub) : TRUE, ![r].at = "refresh"]
    <3> DEFINE i == CHOOSE j \in BySubject(calls[r].sub) : TRUE
    <3>1. i \in BySubject(calls[r].sub)
      BY <2>3
    <3>2. i \in UserIds /\ i # 0
      BY <3>1, AccountsConstants DEF BySubject, Accounted, UserIds
    <3> HIDE DEF i
    <3> DEFINE c == [calls[r] EXCEPT !.id = i, !.at = "refresh"]
    <3>3. calls' = [calls EXCEPT ![r] = c]
      BY <1>1, <2>3 DEF i
    <3>4. c \in CallRecord
      BY <1>1, <3>2 DEF CallRecord, CallPlaces
    <3>5. c.at = "refresh" /\ c.act = "sso" /\ c.id = i /\ c.name = calls[r].name
      BY <1>1, <2>1 DEF CallRecord
    <3>6. CallFits(c)
      BY <2>1, <3>2, <3>5 DEF CallFits, Route
    <3> QED BY <1>2, <1>4, <3>3, <3>4, <3>6
  <2> QED BY <1>2, <1>6, <2>2, <2>3 DEF GetOIDCUserBySubject
<1>7. CASE freeUsername(r)
  <2>1. calls[r].act = "sso"
    <3>1. calls[r].at = "name"
      BY <1>7 DEF freeUsername, Here
    <3> QED BY <1>1, <3>1 DEF Route, Acts
  <2>2. PICK k \in 1..MaxUsers + 1 : calls' = [calls EXCEPT ![r].name.n = k, ![r].at = "insert"]
    BY <1>7 DEF freeUsername
  <2> DEFINE c == [calls[r] EXCEPT !.name.n = k, !.at = "insert"]
  <2>3. c \in CallRecord /\ calls' = [calls EXCEPT ![r] = c]
    BY <1>1, <2>2 DEF CallRecord, CallPlaces
  <2>4. c.at = "insert" /\ c.act = "sso" /\ c.name.base = calls[r].name.base
    BY <1>1, <2>1 DEF CallRecord
  <2>5. CallFits(c)
    BY <2>1, <2>4 DEF CallFits, Route
  <2> QED BY <1>2, <1>4, <2>3, <2>5
<1>8. CASE UpsertOIDCUser(r)
  <2>1. calls[r].act = "sso"
    BY <1>8 DEF UpsertOIDCUser
  <2>2. CASE To(r, "reread")
    <3>1. "reread" \in Route["sso"] /\ "reread" \in CallPlaces
      BY DEF Route, CallPlaces
    <3> QED BY <1>2, <2>1, <2>2, <3>1, FitsTo
  <2>3. CASE Here(r, "insert") /\ calls' = [calls EXCEPT ![r].gen = lastId + 1, ![r].at = "reread"]
    <3> DEFINE c == [calls[r] EXCEPT !.gen = lastId + 1, !.at = "reread"]
    <3>1. lastId + 1 \in Nat
      BY AccountsConstants DEF AccTypeOK, UserIds
    <3>2. c \in CallRecord /\ calls' = [calls EXCEPT ![r] = c]
      BY <1>1, <2>3, <3>1 DEF CallRecord, CallPlaces
    <3>3. c.at = "reread" /\ c.act = "sso" /\ c.name = calls[r].name
      BY <1>1, <2>1 DEF CallRecord
    <3>4. CallFits(c)
      BY <2>1, <3>3 DEF CallFits, Route
    <3> QED BY <1>2, <1>4, <3>2, <3>4
  <2>4. ASSUME NEW i \in Accounted, SignInAs(r, i) PROVE StepKeeps(r)
    BY <1>2, <2>1, <2>4, SignInKeeps
  <2>5. CASE \E i \in (IF calls[r].id # 0 THEN {calls[r].id} \cap Accounted ELSE UsersNamed(calls[r].name)) : SignInAs(r, i)
    <3> DEFINE found == IF calls[r].id # 0 THEN {calls[r].id} \cap Accounted ELSE UsersNamed(calls[r].name)
    <3>1. found \subseteq Accounted
      BY DEF UsersNamed
    <3>2. \E i \in found : SignInAs(r, i)
      BY <2>5
    <3> HIDE DEF found
    <3>3. PICK j \in found : SignInAs(r, j)
      BY <3>2
    <3>4. j \in Accounted
      BY <3>1
    <3> QED BY <1>2, <2>1, <3>3, <3>4, SignInKeeps
  <2> QED BY <1>2, <1>3, <1>8, <2>2, <2>3, <2>5 DEF UpsertOIDCUser
<1>9. CASE CreateSession(r)
  BY <1>2, <1>3, <1>9 DEF CreateSession
<1> QED BY <1>2, <1>5, <1>6, <1>7, <1>8, <1>9

LEMMA SetupKeeps ==
  ASSUME AccTypeOK, CallTypes, NEW r \in Clients, CallFits(calls[r]),
         LoaderBegin(r) \/ LoaderApply(r) \/ CompleteSetup(r) \/ OpenAPI(r)
  PROVE  StepKeeps(r)
<1>1. calls[r] \in CallRecord /\ calls \in [Clients -> CallRecord] /\ calls[r].act \in Acts /\ calls[r].at \in Route[calls[r].act]
  BY DEF CallTypes, CallRecord, CallFits
<1>2. CASE LoaderBegin(r)
  <2>1. calls[r].act \in {"setup", "settings"} /\ UNCHANGED setup
    BY <1>1, <1>2 DEF LoaderBegin, Here, Route, Acts
  <2> DEFINE c == [calls[r] EXCEPT !.gen = provider.gen + 1, !.at = "discover"]
  <2>2. provider.gen + 1 \in Nat
    BY DEF CallTypes
  <2>3. c \in CallRecord /\ calls' = [calls EXCEPT ![r] = c]
    BY <1>1, <1>2, <2>2 DEF CallRecord, CallPlaces, LoaderBegin
  <2>4. c.at = "discover" /\ c.act = calls[r].act /\ c.name = calls[r].name
    BY <1>1 DEF CallRecord
  <2>5. CallFits(c)
    BY <2>1, <2>4 DEF CallFits, Route
  <2> HIDE DEF c
  <2>6. calls' \in [Clients -> CallRecord] /\ calls'[r] = c /\ \A q \in Clients \ {r} : calls'[q] = calls[q]
    BY <1>1, <2>3, RecordUpdate
  <2> QED BY <2>1, <2>5, <2>6 DEF StepKeeps, CallFits
<1>3. CASE LoaderApply(r) \/ CompleteSetup(r) \/ OpenAPI(r)
  <2>1. setup.stored => setup'.stored
    BY <1>3 DEF LoaderApply, CompleteSetup, OpenAPI, AccTypeOK
  <2>2. \E s \in {"done", "complete", "gone", "open", "password"} :
          To(r, s) /\ s \in Route[calls[r].act] \cup {"done"} /\ (s \in {"open", "gone"} => setup'.stored)
    <3>1. CASE LoaderApply(r)
      BY <3>1 DEF LoaderApply, Route
    <3>2. CASE CompleteSetup(r)
      <4>1. calls[r].act = "setup"
        BY <1>1, <3>2 DEF CompleteSetup, Here, Route, Acts
      <4> QED BY <3>2, <4>1 DEF CompleteSetup, Route, AccTypeOK
    <3>3. CASE OpenAPI(r)
      <4>1. calls[r].act = "setup"
        BY <1>1, <3>3 DEF OpenAPI, Here, Route, Acts
      <4> QED BY <3>3, <4>1 DEF OpenAPI, Route
    <3> QED BY <1>3, <3>1, <3>2, <3>3
  <2>3. PICK s \in {"done", "complete", "gone", "open", "password"} :
          To(r, s) /\ s \in Route[calls[r].act] \cup {"done"} /\ (s \in {"open", "gone"} => setup'.stored)
    BY <2>2
  <2> QED BY <2>1, <2>3, FitsTo DEF CallPlaces
<1> QED BY <1>2, <1>3

LEMMA EveryStepKeeps ==
  ASSUME AccTypeOK, CallTypes, NEW r \in Clients, CallFits(calls[r]), AccStep(r)
  PROVE  StepKeeps(r)
BY ArrivalKeeps, ManageKeeps, ResetAdminKeeps, SignInPartsKeep, SetupKeeps DEF AccStep

\* The three things a step may do to the rows: nothing, change or remove one,
\* add one under a free name.
Edited(i, row) ==
  /\ UNCHANGED lastId /\ i \in Accounted /\ row \in Users
  /\ users' = [users EXCEPT ![i] = row]
  /\ row # Gone => row.name = users[i].name /\ row.subject = users[i].subject

Made(row) ==
  /\ lastId < MaxUsers /\ lastId' = lastId + 1 /\ row \in Users \ {Gone}
  /\ users' = [users EXCEPT ![lastId + 1] = row]
  /\ UsersNamed(row.name) = {}

RowsStep == UNCHANGED <<users, lastId>> \/ (\E i, row : Edited(i, row)) \/ (\E row : Made(row))

LEMMA RowType == ASSUME AccTypeOK, NEW i \in Accounted
  PROVE  /\ users[i] \in [role : Roles, name : Usernames, subject : Subjects \cup {Nobody}, rev : 0..MaxRev]
         /\ i \in 1..MaxUsers /\ i # 0 /\ Exists(i) /\ i <= lastId
<1>1. i \in 1..MaxUsers /\ users[i] # Gone /\ users[i] \in Users /\ lastId \in 0..MaxUsers
  BY DEF AccTypeOK, Accounted, UserIds
<1>2. ~(i > lastId)
  BY <1>1 DEF AccTypeOK
<1> QED BY <1>1, <1>2, AccountsConstants DEF Users, Exists

LEMMA RowNotGone == ASSUME NEW row \in [role : Roles, name : Usernames, subject : Subjects \cup {Nobody}, rev : 0..MaxRev]
  PROVE  row \in Users \ {Gone}
<1>1. row.role \in Roles /\ Gone.role = "none"
  BY DEF Gone
<1>2. row # Gone
  BY <1>1 DEF Roles
<1> QED BY <1>2 DEF Users

LEMMA RowsChange ==
  ASSUME AccTypeOK, CallTypes, FirstBootInv, NEW r \in Clients, CallFits(calls[r]), AccStep(r)
  PROVE  RowsStep
<1>0. /\ calls[r] \in CallRecord /\ calls[r].at \in Route[calls[r].act] /\ calls[r].act \in Acts
      /\ lastId \in 0..MaxUsers /\ MaxUsers \in Nat /\ MaxRev \in Nat
      /\ users \in [1..MaxUsers -> Users]
  BY AccountsConstants DEF CallTypes, CallRecord, CallFits, AccTypeOK, UserIds
<1> DEFINE id == calls[r].id
<1>1. ASSUME UpdateUserRole(r) \/ UpdateUserPassword(r) \/ DeleteUser(r) PROVE RowsStep
  <2>1. \E row : Update(r, row) /\ (row = Gone \/ row = [users[id] EXCEPT !.role = calls[r].role, !.rev = @ + 1]
                                                 \/ row = [users[id] EXCEPT !.rev = @ + 1])
    BY <1>1 DEF UpdateUserRole, UpdateUserPassword, DeleteUser
  <2>2. CASE ~Exists(id)
    BY <2>1, <2>2 DEF Update, RowsStep
  <2>3. CASE Exists(id)
    <3>1. id \in Accounted
      BY <1>0, <2>3 DEF Exists, Accounted, CallRecord, UserIds
    <3>2. users[id] \in [role : Roles, name : Usernames, subject : Subjects \cup {Nobody}, rev : 0..MaxRev] /\ id \in 1..MaxUsers
      BY <3>1, RowType
    <3>3. PICK row : Update(r, row) /\ (row = Gone \/ row = [users[id] EXCEPT !.role = calls[r].role, !.rev = @ + 1]
                                                     \/ row = [users[id] EXCEPT !.rev = @ + 1])
      BY <2>1
    <3>4. users[id].rev < MaxRev /\ users' = [users EXCEPT ![id] = row] /\ UNCHANGED lastId
      BY <2>3, <3>3 DEF Update
    <3>5. calls[r].role \in Roles /\ users[id].rev + 1 \in 0..MaxRev
      BY <1>0, <3>2, <3>4 DEF CallRecord
    <3>6. row \in Users /\ (row # Gone => row.name = users[id].name /\ row.subject = users[id].subject)
      BY <3>2, <3>3, <3>5 DEF Users
    <3> QED BY <3>1, <3>4, <3>6 DEF Edited, RowsStep
  <2> QED BY <2>2, <2>3
<1>2. ASSUME CreateLocalUser(r) PROVE RowsStep
  <2>1. CASE UsersNamed(calls[r].name) = {}
    <3> DEFINE row == [role |-> calls[r].role, name |-> calls[r].name, subject |-> Nobody, rev |-> 0]
    <3>1. calls[r].name.base \in Bases
      BY <1>2 DEF CreateLocalUser, CallFits
    <3>2. calls[r].name \in Usernames /\ calls[r].role \in Roles
      BY <1>0, <3>1 DEF CallRecord, Usernames
    <3>3. row \in Users \ {Gone} /\ row.name = calls[r].name
      BY <1>0, <3>2, RowNotGone
    <3>4. users' = [users EXCEPT ![lastId + 1] = row] /\ lastId' = lastId + 1 /\ lastId < MaxUsers
      BY <1>2, <2>1 DEF CreateLocalUser
    <3> HIDE DEF row
    <3> QED BY <2>1, <3>3, <3>4 DEF Made, RowsStep
  <2>2. CASE UsersNamed(calls[r].name) # {}
    BY <1>2, <2>2 DEF CreateLocalUser, RowsStep
  <2> QED BY <2>1, <2>2
<1>3. ASSUME resetAdminCmd(r) PROVE RowsStep
  <2>1. UNCHANGED lastId /\ (UNCHANGED users \/ (Exists(id) /\ users' = [users EXCEPT ![id].role = "admin"]))
    BY <1>3 DEF resetAdminCmd
  <2>2. CASE Exists(id) /\ users' = [users EXCEPT ![id].role = "admin"]
    <3>1. id \in Accounted
      BY <1>0, <2>2 DEF Exists, Accounted, CallRecord, UserIds
    <3>2. users[id] \in [role : Roles, name : Usernames, subject : Subjects \cup {Nobody}, rev : 0..MaxRev] /\ id \in 1..MaxUsers
      BY <3>1, RowType
    <3> DEFINE row == [users[id] EXCEPT !.role = "admin"]
    <3>3. row \in Users /\ row.name = users[id].name /\ row.subject = users[id].subject
      BY <3>2 DEF Users, Roles
    <3>4. users' = [users EXCEPT ![id] = row]
      BY <1>0, <2>2, <3>2
    <3> QED BY <2>1, <3>1, <3>3, <3>4 DEF Edited, RowsStep
  <2> QED BY <2>1, <2>2 DEF RowsStep
<1>4. ASSUME UpsertOIDCUser(r) PROVE RowsStep
  <2>1. CASE UNCHANGED <<users, lastId>>
    BY <2>1 DEF RowsStep
  <2>2. CASE UNCHANGED lastId /\ users[id] # Gone /\ users' = [users EXCEPT ![id].role = calls[r].role] /\ Here(r, "refresh")
    <3>1. id # 0
      BY <2>2 DEF CallFits, Here
    <3>2. id \in Accounted
      BY <1>0, <2>2, <3>1 DEF Accounted, CallRecord, UserIds
    <3>3. users[id] \in [role : Roles, name : Usernames, subject : Subjects \cup {Nobody}, rev : 0..MaxRev] /\ id \in 1..MaxUsers
      BY <3>2, RowType
    <3> DEFINE row == [users[id] EXCEPT !.role = calls[r].role]
    <3>4. row \in Users /\ row.name = users[id].name /\ row.subject = users[id].subject
      BY <1>0, <3>3 DEF Users, CallRecord
    <3>5. users' = [users EXCEPT ![id] = row]
      BY <1>0, <2>2, <3>3
    <3> QED BY <2>2, <3>2, <3>4, <3>5 DEF Edited, RowsStep
  <2>3. CASE /\ lastId < MaxUsers /\ UsersNamed(calls[r].name) = {} /\ lastId' = lastId + 1
             /\ users' = [users EXCEPT ![lastId + 1] =
                  [role |-> calls[r].role, name |-> calls[r].name, subject |-> calls[r].sub, rev |-> 0]]
    <3> DEFINE row == [role |-> calls[r].role, name |-> calls[r].name, subject |-> calls[r].sub, rev |-> 0]
    <3>1. calls[r].name.base \in Bases
      BY <1>4 DEF UpsertOIDCUser, CallFits
    <3>2. calls[r].name \in Usernames /\ calls[r].role \in Roles /\ calls[r].sub \in Subjects \cup {Nobody}
      BY <1>0, <3>1 DEF CallRecord, Usernames
    <3>3. row \in Users \ {Gone} /\ row.name = calls[r].name
      BY <1>0, <3>2, RowNotGone
    <3> HIDE DEF row
    <3> QED BY <2>3, <3>3 DEF Made, RowsStep, row
  <2> QED BY <1>4, <2>1, <2>2, <2>3 DEF UpsertOIDCUser
<1>5. ASSUME CompleteSetup(r) PROVE RowsStep
  <2>1. CASE UNCHANGED <<users, lastId>>
    BY <2>1 DEF RowsStep
  <2>2. CASE ~setup.stored /\ Accounted = {} /\ users' = [users EXCEPT ![1] = Local(calls[r].name.base, "admin")] /\ lastId' = 1
    <3>1. lastId = 0
      <4>1. \A i \in 1..lastId : i \in Accounted
        BY <2>2 DEF FirstBootInv, Admins
      <4> QED BY <1>0, <2>2, <4>1
    <3>2. calls[r].act = "setup"
      <4>1. calls[r].at = "complete"
        BY <1>5 DEF CompleteSetup, Here
      <4> QED BY <1>0, <4>1 DEF Route, Acts
    <3> DEFINE row == Local(calls[r].name.base, "admin")
    <3>3. row \in Users \ {Gone}
      <4>1. calls[r].name.base \in Bases
        BY <3>2 DEF CallFits
      <4>2. row \in [role : Roles, name : Usernames, subject : Subjects \cup {Nobody}, rev : 0..MaxRev]
        BY <1>0, <4>1 DEF Local, Roles, Usernames
      <4> QED BY <4>2, RowNotGone
    <3>4. UsersNamed(row.name) = {}
      BY <2>2 DEF UsersNamed
    <3>5. users' = [users EXCEPT ![1] = row]
      BY <2>2
    <3> HIDE DEF row
    <3>6. lastId < MaxUsers /\ lastId' = lastId + 1 /\ lastId + 1 = 1
      BY <2>2, <3>1, AccountsConstants
    <3> QED BY <3>3, <3>4, <3>5, <3>6 DEF Made, RowsStep
  <2> QED BY <1>5, <2>1, <2>2 DEF CompleteSetup
<1>6. CASE ~(UpdateUserRole(r) \/ UpdateUserPassword(r) \/ DeleteUser(r) \/ CreateLocalUser(r) \/ resetAdminCmd(r)
             \/ UpsertOIDCUser(r) \/ CompleteSetup(r))
  <2>1. UNCHANGED <<users, lastId>>
    BY <1>6 DEF AccStep, Call, oidcCallback, setupComplete, setUserRole, resetUserPassword, deleteUser, LastAdmin,
                DeleteSessionsForUser, DeleteAPITokensForUser, CreateAPIToken, createUser, CheckPassword,
                GetOIDCUserBySubject, freeUsername, CreateSession, LoaderBegin, LoaderApply, OpenAPI
  <2> QED BY <2>1 DEF RowsStep
<1> QED BY <1>1, <1>2, <1>3, <1>4, <1>5, <1>6

\* What that leaves of the rows there were, and what a new row is.
RowFacts ==
  /\ users' \in [1..MaxUsers -> Users] /\ lastId' \in 0..MaxUsers /\ lastId <= lastId'
  /\ \A i \in 1..MaxUsers : i > lastId' => users'[i] = Gone
  /\ \A i \in 1..MaxUsers : i <= lastId /\ users'[i] # Gone =>
       users[i] # Gone /\ users'[i].name = users[i].name /\ users'[i].subject = users[i].subject
  /\ \A i \in 1..MaxUsers : i > lastId /\ users'[i] # Gone => i = lastId + 1 /\ UsersNamed(users'[i].name) = {}

LEMMA RowsStepFacts == ASSUME AccTypeOK, RowsStep PROVE RowFacts
<1>0. /\ lastId \in 0..MaxUsers /\ MaxUsers \in Nat /\ users \in [1..MaxUsers -> Users]
      /\ \A i \in 1..MaxUsers : i > lastId => users[i] = Gone
  BY AccountsConstants DEF AccTypeOK, UserIds
<1>1. CASE UNCHANGED <<users, lastId>>
  BY <1>0, <1>1 DEF RowFacts
<1>2. ASSUME NEW i, NEW row, Edited(i, row) PROVE RowFacts
  <2>1. i \in 1..MaxUsers /\ users[i] # Gone
    BY <1>2 DEF Edited, Accounted
  <2> QED BY <1>0, <1>2, <2>1 DEF RowFacts, Edited
<1>3. ASSUME NEW row, Made(row) PROVE RowFacts
  <2>1. lastId + 1 \in 1..MaxUsers /\ users' = [users EXCEPT ![lastId + 1] = row] /\ users'[lastId + 1] = row
        /\ lastId' = lastId + 1 /\ row \in Users
    BY <1>0, <1>3 DEF Made
  <2>2. \A j \in 1..MaxUsers : j # lastId + 1 => users'[j] = users[j]
    BY <1>0, <2>1
  <2>3. users' \in [1..MaxUsers -> Users] /\ lastId' \in 0..MaxUsers /\ lastId <= lastId'
    BY <1>0, <2>1
  <2> QED BY <1>0, <1>3, <2>1, <2>2, <2>3 DEF RowFacts, Made
<1> QED BY <1>1, <1>2, <1>3 DEF RowsStep

\* The remaining tables.
LEMMA TablesKeepTypes ==
  ASSUME AccTypeOK, CallTypes, NEW r \in Clients, CallFits(calls[r]), AccStep(r)
  PROVE  /\ signedIn' \subseteq [id : UserIds, role : Roles, rev : 0..MaxRev, late : BOOLEAN, sub : Subjects \cup {Nobody}]
         /\ tokens' \subseteq [id : UserIds, role : Roles, late : BOOLEAN]
         /\ setup' \in [stored : BOOLEAN, open : BOOLEAN] /\ (setup'.open => setup'.stored)
         /\ (setup.stored => setup'.stored)
         /\ winners' \subseteq Clients /\ excused' \in BOOLEAN
         /\ provider' \in [gen : Nat, live : Nat, retry : Nat] /\ provider'.live <= provider'.gen
         /\ provider'.live >= provider.live
<1>0. /\ calls[r] \in CallRecord
      /\ signedIn \subseteq [id : UserIds, role : Roles, rev : 0..MaxRev, late : BOOLEAN, sub : Subjects \cup {Nobody}]
      /\ tokens \subseteq [id : UserIds, role : Roles, late : BOOLEAN]
      /\ setup \in [stored : BOOLEAN, open : BOOLEAN] /\ (setup.open => setup.stored)
      /\ winners \subseteq Clients /\ excused \in BOOLEAN
      /\ provider \in [gen : Nat, live : Nat, retry : Nat] /\ provider.live <= provider.gen
  BY DEF AccTypeOK, CallTypes
<1>1. signedIn' \subseteq [id : UserIds, role : Roles, rev : 0..MaxRev, late : BOOLEAN, sub : Subjects \cup {Nobody}]
  <2>1. CASE UNCHANGED signedIn
    BY <1>0, <2>1
  <2>2. CASE DeleteSessionsForUser(r)
    BY <1>0, <2>2 DEF DeleteSessionsForUser
  <2>3. CASE CreateSession(r)
    <3> DEFINE c == calls[r]
               b == users[c.id] = Gone \/ (users[c.id] # Gone /\ users[c.id].rev # c.rev)
    <3>1. b \in BOOLEAN
      OBVIOUS
    <3>2. signedIn' = signedIn \cup {[id |-> c.id, role |-> c.role, rev |-> c.rev, sub |-> c.sub, late |-> b]}
      BY <2>3 DEF CreateSession
    <3> HIDE DEF b
    <3> QED BY <1>0, <3>1, <3>2 DEF CallRecord
  <2> QED BY <2>1, <2>2, <2>3 DEF AccStep, Call, oidcCallback, setupComplete, setUserRole, resetUserPassword, deleteUser, LastAdmin,
                UpdateUserRole, UpdateUserPassword, DeleteUser, Update, DeleteAPITokensForUser, CreateAPIToken, createUser,
                CreateLocalUser, resetAdminCmd, CheckPassword, GetOIDCUserBySubject, freeUsername, UpsertOIDCUser,
                LoaderBegin, LoaderApply, CompleteSetup, OpenAPI
<1>2. tokens' \subseteq [id : UserIds, role : Roles, late : BOOLEAN]
  <2>1. CASE UNCHANGED tokens
    BY <1>0, <2>1
  <2>2. CASE DeleteAPITokensForUser(r)
    BY <1>0, <2>2 DEF DeleteAPITokensForUser
  <2>3. CASE CreateAPIToken(r)
    <3> DEFINE b == ~Exists(calls[r].by)
    <3>1. b \in BOOLEAN
      BY DEF Exists
    <3>2. tokens' = tokens \cup {[id |-> calls[r].by, role |-> calls[r].role, late |-> b]}
      BY <2>3 DEF CreateAPIToken
    <3> HIDE DEF b
    <3> QED BY <1>0, <3>1, <3>2 DEF CallRecord
  <2> QED BY <2>1, <2>2, <2>3 DEF AccStep, Call, oidcCallback, setupComplete, setUserRole, resetUserPassword, deleteUser, LastAdmin,
                UpdateUserRole, UpdateUserPassword, DeleteUser, Update, DeleteSessionsForUser, createUser,
                CreateLocalUser, resetAdminCmd, CheckPassword, GetOIDCUserBySubject, freeUsername, UpsertOIDCUser, CreateSession,
                LoaderBegin, LoaderApply, CompleteSetup, OpenAPI
<1>3. setup' \in [stored : BOOLEAN, open : BOOLEAN] /\ (setup'.open => setup'.stored) /\ (setup.stored => setup'.stored)
      /\ winners' \subseteq Clients
  <2>1. CASE UNCHANGED <<setup, winners>>
    BY <1>0, <2>1
  <2>2. CASE resetAdminCmd(r)
    BY <1>0, <2>2 DEF resetAdminCmd
  <2>3. CASE CompleteSetup(r)
    BY <1>0, <2>3 DEF CompleteSetup
  <2>4. CASE OpenAPI(r)
    <3>1. setup.stored
      BY <2>4 DEF OpenAPI, Here, CallFits
    <3> QED BY <1>0, <2>4, <3>1 DEF OpenAPI
  <2> QED BY <2>1, <2>2, <2>3, <2>4 DEF AccStep, Call, oidcCallback, setupComplete, setUserRole, resetUserPassword, deleteUser, LastAdmin,
                UpdateUserRole, UpdateUserPassword, DeleteUser, Update, DeleteSessionsForUser, DeleteAPITokensForUser,
                CreateAPIToken, createUser, CreateLocalUser, CheckPassword, GetOIDCUserBySubject, freeUsername,
                UpsertOIDCUser, CreateSession, LoaderBegin, LoaderApply
<1>4. excused' \in BOOLEAN
  <2>1. CASE UNCHANGED excused
    BY <1>0, <2>1
  <2>2. CASE LastAdmin(r)
    BY <2>2 DEF LastAdmin
  <2>3. CASE UpsertOIDCUser(r)
    BY <1>0, <2>3 DEF UpsertOIDCUser
  <2>4. CASE CompleteSetup(r)
    BY <1>0, <2>4 DEF CompleteSetup
  <2> QED BY <2>1, <2>2, <2>3, <2>4 DEF AccStep, Call, oidcCallback, setupComplete, setUserRole, resetUserPassword, deleteUser,
                UpdateUserRole, UpdateUserPassword, DeleteUser, Update, DeleteSessionsForUser, DeleteAPITokensForUser,
                CreateAPIToken, createUser, CreateLocalUser, resetAdminCmd, CheckPassword, GetOIDCUserBySubject, freeUsername,
                CreateSession, LoaderBegin, LoaderApply, OpenAPI
<1>5. provider' \in [gen : Nat, live : Nat, retry : Nat] /\ provider'.live <= provider'.gen /\ provider'.live >= provider.live
  <2>1. CASE UNCHANGED provider
    BY <1>0, <2>1
  <2>2. CASE LoaderBegin(r)
    BY <1>0, <2>2 DEF LoaderBegin
  <2>3. CASE LoaderApply(r)
    BY <1>0, <2>3 DEF LoaderApply, installIf
  <2> QED BY <2>1, <2>2, <2>3 DEF AccStep, Call, oidcCallback, setupComplete, setUserRole, resetUserPassword, deleteUser, LastAdmin,
                UpdateUserRole, UpdateUserPassword, DeleteUser, Update, DeleteSessionsForUser, DeleteAPITokensForUser,
                CreateAPIToken, createUser, CreateLocalUser, resetAdminCmd, CheckPassword, GetOIDCUserBySubject, freeUsername,
                UpsertOIDCUser, CreateSession, CompleteSetup, OpenAPI
<1> QED BY <1>1, <1>2, <1>3, <1>4, <1>5

CallInv == AccTypeOK /\ CallTypes /\ FirstBootInv /\ \A r \in Clients : CallFits(calls[r])

\* What every step of a request brings about, for the invariants below.
LEMMA StepFacts ==
  ASSUME CallInv, NEW r \in Clients, AccStep(r)
  PROVE  /\ AccTypeOK' /\ CallTypes' /\ \A q \in Clients : CallFits(calls[q])'
         /\ RowsStep /\ RowFacts /\ StepKeeps(r) /\ (setup.stored => setup'.stored)
<1>1. AccTypeOK /\ CallTypes /\ FirstBootInv /\ CallFits(calls[r])
  BY DEF CallInv
<1>2. StepKeeps(r) /\ RowsStep /\ RowFacts
  BY <1>1, EveryStepKeeps, RowsChange, RowsStepFacts
<1>3. /\ signedIn' \subseteq [id : UserIds, role : Roles, rev : 0..MaxRev, late : BOOLEAN, sub : Subjects \cup {Nobody}]
      /\ tokens' \subseteq [id : UserIds, role : Roles, late : BOOLEAN]
      /\ setup' \in [stored : BOOLEAN, open : BOOLEAN] /\ (setup'.open => setup'.stored)
      /\ (setup.stored => setup'.stored)
      /\ winners' \subseteq Clients /\ excused' \in BOOLEAN
      /\ provider' \in [gen : Nat, live : Nat, retry : Nat] /\ provider'.live <= provider'.gen
  BY <1>1, TablesKeepTypes
<1>4. calls' \in [Clients -> CallRecord]
  BY <1>2 DEF StepKeeps
<1>5. AccTypeOK'
  BY <1>2, <1>3, <1>4 DEF AccTypeOK, RowFacts, CallRecord, UserIds
<1>6. CallTypes'
  BY <1>3, <1>4 DEF CallTypes
<1>7. ASSUME NEW q \in Clients PROVE CallFits(calls[q])'
  <2>1. CASE q = r
    BY <1>2, <2>1 DEF StepKeeps
  <2>2. CASE q # r
    <3>1. calls'[q] = calls[q]
      BY <1>2, <2>2 DEF StepKeeps
    <3>2. CallFits(calls[q])
      BY DEF CallInv
    <3> QED BY <1>3, <3>1, <3>2 DEF CallFits
  <2> QED BY <2>1, <2>2
<1> QED BY <1>2, <1>3, <1>5, <1>6, <1>7

-----------------------------------------------------------------------------
(* First boot.                                                             *)

LEMMA AdminStays ==
  ASSUME AccTypeOK, NEW i \in Admins, users'[i] = users[i]
  PROVE  i \in Admins'
BY DEF Admins, Accounted

\* A row that is made is there.
LEMMA MadeThere ==
  ASSUME AccTypeOK, NEW row, Made(row)
  PROVE  users'[lastId + 1] = row /\ lastId + 1 \in Accounted' /\ \A i \in 1..MaxUsers : i # lastId + 1 => users'[i] = users[i]
BY AccountsConstants DEF AccTypeOK, UserIds, Made, Accounted

\* Which statement leads to a place.
LEMMA LedTo ==
  ASSUME AccTypeOK, CallTypes, NEW r \in Clients, CallFits(calls[r]), AccStep(r)
  PROVE  /\ calls'[r].at = "flag" => CreateLocalUser(r) /\ UsersNamed(calls[r].name) = {}
         /\ calls'[r].at = "write" => setUserRole(r) \/ resetUserPassword(r) \/ deleteUser(r) \/ LastAdmin(r)
         /\ calls'[r].at = "open" => CompleteSetup(r) /\ ~setup.stored
<1>1. calls[r] \in CallRecord /\ calls \in [Clients -> CallRecord]
  BY DEF CallTypes
<1>2. ASSUME Call(r) \/ oidcCallback(r) \/ setupComplete(r) PROVE calls'[r].at \notin {"flag", "write", "open"}
  BY <1>2, ArrivalKeeps DEF Arrivals
<1>3. ASSUME NEW s \in CallPlaces, To(r, s) PROVE calls'[r].at = s
  BY <1>1, <1>3, ToMoves
<1>4. ASSUME GetOIDCUserBySubject(r) \/ CheckPassword(r) \/ freeUsername(r) \/ UpsertOIDCUser(r) \/ CreateSession(r)
             \/ LoaderBegin(r) \/ LoaderApply(r) \/ OpenAPI(r) \/ resetAdminCmd(r) \/ createUser(r) \/ DeleteSessionsForUser(r)
             \/ DeleteAPITokensForUser(r) \/ CreateAPIToken(r) \/ UpdateUserRole(r) \/ UpdateUserPassword(r) \/ DeleteUser(r)
      PROVE  calls'[r].at \notin {"flag", "write", "open"}
  <2>1. CASE \E s \in CallPlaces \ {"flag", "write", "open"} : To(r, s)
    BY <1>3, <2>1
  <2>2. CASE \E i : SignInAs(r, i)
    BY <1>1, <2>2 DEF SignInAs, CallRecord
  <2>3. CASE LoaderBegin(r)
    BY <1>1, <2>3 DEF LoaderBegin, CallRecord
  <2>4. CASE freeUsername(r)
    BY <1>1, <2>4 DEF freeUsername, CallRecord
  <2>5. CASE \E i : calls' = [calls EXCEPT ![r].id = i, ![r].at = "refresh"]
    BY <1>1, <2>5 DEF CallRecord
  <2>6. CASE \E i : calls' = [calls EXCEPT ![r].gen = i, ![r].at = "reread"]
    BY <1>1, <2>6 DEF CallRecord
  <2>7. CASE \E i : calls' = [calls EXCEPT ![r].id = i, ![r].at = IF i \in Admins THEN "done" ELSE "promote"]
    BY <1>1, <2>7 DEF CallRecord
  <2>8. ASSUME GetOIDCUserBySubject(r) \/ CheckPassword(r) \/ CreateSession(r)
        PROVE  (\E s \in CallPlaces \ {"flag", "write", "open"} : To(r, s)) \/ (\E i : SignInAs(r, i))
               \/ \E i : calls' = [calls EXCEPT ![r].id = i, ![r].at = "refresh"]
    BY <2>8 DEF GetOIDCUserBySubject, CheckPassword, CreateSession, CallPlaces
  <2>9. ASSUME UpsertOIDCUser(r)
        PROVE  (\E s \in CallPlaces \ {"flag", "write", "open"} : To(r, s)) \/ (\E i : SignInAs(r, i))
               \/ \E i : calls' = [calls EXCEPT ![r].gen = i, ![r].at = "reread"]
    BY <2>9 DEF UpsertOIDCUser, CallPlaces
  <2>10. ASSUME resetAdminCmd(r)
         PROVE  (\E s \in CallPlaces \ {"flag", "write", "open"} : To(r, s))
                \/ \E i : calls' = [calls EXCEPT ![r].id = i, ![r].at = IF i \in Admins THEN "done" ELSE "promote"]
    BY <2>10 DEF resetAdminCmd, CallPlaces
  <2>11. ASSUME LoaderApply(r) \/ OpenAPI(r) \/ createUser(r) \/ DeleteSessionsForUser(r)
                \/ DeleteAPITokensForUser(r) \/ CreateAPIToken(r) \/ UpdateUserRole(r) \/ UpdateUserPassword(r) \/ DeleteUser(r)
         PROVE  \E s \in CallPlaces \ {"flag", "write", "open"} : To(r, s)
    BY <2>11 DEF LoaderApply, OpenAPI, createUser, DeleteSessionsForUser, DeleteAPITokensForUser, CreateAPIToken,
                 UpdateUserRole, UpdateUserPassword, DeleteUser, Update, CallPlaces
  <2> QED BY <1>4, <2>1, <2>2, <2>3, <2>4, <2>5, <2>6, <2>7, <2>8, <2>9, <2>10, <2>11
<1>5. ASSUME CompleteSetup(r) PROVE calls'[r].at \in {"open", "gone"} /\ (calls'[r].at = "open" => ~setup.stored)
  BY <1>3, <1>5 DEF CompleteSetup, CallPlaces
<1>6. ASSUME CreateLocalUser(r)
      PROVE calls'[r].at \in {"flag", "done"} /\ (calls'[r].at = "flag" => UsersNamed(calls[r].name) = {})
  BY <1>3, <1>6 DEF CreateLocalUser, CallPlaces
<1>7. ASSUME setUserRole(r) \/ resetUserPassword(r) \/ deleteUser(r) \/ LastAdmin(r) PROVE calls'[r].at \in {"done", "count", "write"}
  BY <1>3, <1>7 DEF setUserRole, resetUserPassword, deleteUser, LastAdmin, CallPlaces
<1> QED BY <1>2, <1>4, <1>5, <1>6, <1>7 DEF AccStep

LEMMA StepFirstBoot ==
  ASSUME CallInv, NEW r \in Clients, AccStep(r)
  PROVE  FirstBootInv'
<1> SUFFICES ASSUME ~setup'.stored
             PROVE  /\ \A i \in 1..lastId' : i \in Admins'
                    /\ winners' = {}
                    /\ \A q \in Clients : calls'[q].at = "flag" => lastId' # 0
  BY DEF FirstBootInv, Here
<1>0. /\ AccTypeOK /\ CallTypes /\ CallFits(calls[r]) /\ ~setup.stored
      /\ calls[r] \in CallRecord /\ calls[r].act \in Acts /\ calls[r].at \in Route[calls[r].act]
      /\ \A i \in 1..lastId : i \in Admins
      /\ winners = {}
      /\ \A q \in Clients : calls[q].at = "flag" => lastId # 0
      /\ lastId \in 0..MaxUsers /\ MaxUsers \in Nat
  BY StepFacts, AccountsConstants DEF CallInv, FirstBootInv, CallTypes, CallRecord, CallFits, AccTypeOK, UserIds, Here
<1>1. calls[r].act \in {"login", "setup", "command"}
  BY <1>0 DEF CallFits, Acts
<1>2. RowFacts /\ StepKeeps(r)
  BY StepFacts
<1>3. ~CompleteSetup(r)
  BY <1>0 DEF CompleteSetup, AccTypeOK
<1>4. winners' = {}
  <2>1. UNCHANGED winners
    BY <1>3 DEF AccStep, Call, oidcCallback, setupComplete, setUserRole, resetUserPassword, deleteUser, LastAdmin,
              UpdateUserRole, UpdateUserPassword, DeleteUser, Update, DeleteSessionsForUser, DeleteAPITokensForUser,
              CreateAPIToken, createUser, CreateLocalUser, resetAdminCmd, CheckPassword, GetOIDCUserBySubject, freeUsername,
              UpsertOIDCUser, CreateSession, LoaderBegin, LoaderApply, OpenAPI
  <2> QED BY <1>0, <2>1
<1>5. ASSUME calls'[r].at = "flag" PROVE lastId' # 0
  <2>1. CreateLocalUser(r) /\ UsersNamed(calls[r].name) = {}
    BY <1>0, <1>5, LedTo
  <2>2. lastId' = lastId + 1
    BY <2>1 DEF CreateLocalUser
  <2> QED BY <1>0, <2>2
<1>6. \A q \in Clients : calls'[q].at = "flag" => lastId' # 0
  BY <1>0, <1>2, <1>5 DEF RowFacts, StepKeeps
<1>7. \A i \in 1..lastId' : i \in Admins'
  <2>1. CASE UNCHANGED <<users, lastId>>
    BY <1>0, <2>1 DEF Admins, Accounted
  <2>2. CASE CreateLocalUser(r)
    <3>1. calls[r].role = "admin"
      BY <1>0, <1>1, <2>2 DEF CreateLocalUser, CallFits
    <3>2. CASE UsersNamed(calls[r].name) = {}
      <4> DEFINE row == [role |-> calls[r].role, name |-> calls[r].name, subject |-> Nobody, rev |-> 0]
      <4>1. users' = [users EXCEPT ![lastId + 1] = row] /\ lastId' = lastId + 1 /\ lastId < MaxUsers
        BY <2>2, <3>2 DEF CreateLocalUser
      <4>2. row # Gone /\ row.role = "admin"
        BY <3>1 DEF Gone
      <4> HIDE DEF row
      <4>3. lastId + 1 \in 1..MaxUsers /\ users'[lastId + 1] = row /\ \A i \in 1..lastId : users'[i] = users[i]
        BY <1>0, <4>1 DEF AccTypeOK
      <4> QED BY <1>0, <4>1, <4>2, <4>3 DEF Admins, Accounted
    <3>3. CASE UsersNamed(calls[r].name) # {}
      BY <2>1, <2>2, <3>3 DEF CreateLocalUser
    <3> QED BY <3>2, <3>3
  <2>3. CASE resetAdminCmd(r)
    <3>1. UNCHANGED lastId /\ (UNCHANGED users \/ (calls[r].id \in Accounted /\ users' = [users EXCEPT ![calls[r].id].role = "admin"]))
      BY <1>0, <2>3 DEF resetAdminCmd, Exists, Accounted, CallRecord, UserIds
    <3>2. CASE calls[r].id \in Accounted /\ users' = [users EXCEPT ![calls[r].id].role = "admin"]
      <4> DEFINE row == [users[calls[r].id] EXCEPT !.role = "admin"]
      <4>1. users[calls[r].id] \in [role : Roles, name : Usernames, subject : Subjects \cup {Nobody}, rev : 0..MaxRev]
            /\ calls[r].id \in 1..MaxUsers
        BY <1>0, <3>2, RowType
      <4>2. row # Gone /\ row.role = "admin"
        BY <4>1 DEF Gone
      <4>3. users' = [users EXCEPT ![calls[r].id] = row]
        BY <1>0, <3>2, <4>1 DEF AccTypeOK
      <4> HIDE DEF row
      <4>4. \A i \in 1..MaxUsers : users'[i] = users[i] \/ (users'[i] # Gone /\ users'[i].role = "admin")
        BY <1>0, <4>1, <4>2, <4>3 DEF AccTypeOK
      <4> QED BY <1>0, <3>1, <4>4 DEF Admins, Accounted
    <3> QED BY <2>1, <3>1, <3>2
  <2>4. ~(UpdateUserRole(r) \/ UpdateUserPassword(r) \/ DeleteUser(r) \/ UpsertOIDCUser(r))
    BY <1>1 DEF UpdateUserRole, UpdateUserPassword, DeleteUser, UpsertOIDCUser
  <2> QED BY <1>3, <2>1, <2>2, <2>3, <2>4 DEF AccStep, Call, oidcCallback, setupComplete, setUserRole, resetUserPassword, deleteUser, LastAdmin,
                DeleteSessionsForUser, DeleteAPITokensForUser, CreateAPIToken, createUser, CheckPassword,
                GetOIDCUserBySubject, freeUsername, CreateSession, LoaderBegin, LoaderApply, OpenAPI
<1> QED BY <1>4, <1>6, <1>7

-----------------------------------------------------------------------------
(* The last administrator.                                                 *)

\* Removals of administrators that are about to be written.
Removing(r) == Here(r, "write") /\ Removal(calls[r])

LEMMA TwoMembers == ASSUME NEW S, IsFiniteSet(S), ~(Cardinality(S) <= 1), NEW x PROVE \E y \in S : y # x
<1> SUFFICES ASSUME S \subseteq {x} PROVE FALSE
  OBVIOUS
<1>1. IsFiniteSet({x}) /\ Cardinality({x}) = 1
  BY FS_Singleton
<1>2. Cardinality(S) <= Cardinality({x}) /\ Cardinality(S) \in Nat
  BY <1>1, FS_Subset, FS_CardinalityType
<1> QED BY <1>1, <1>2

LEMMA AdminsFinite == IsFiniteSet(Admins)
<1>1. IsFiniteSet(1..MaxUsers)
  BY AccountsConstants, FS_Interval
<1>2. Admins \subseteq 1..MaxUsers
  BY DEF Admins, Accounted
<1> QED BY <1>1, <1>2, FS_Subset

\* A row that is an administrator's stays one unless a removal is written or
\* single sign-on takes the role.
LEMMA AdminKept ==
  ASSUME CallInv, NEW r \in Clients, AccStep(r), NEW i \in Admins, ~excused',
         Removing(r) => calls[r].id # i
  PROVE  i \in Admins'
<1>0. /\ AccTypeOK /\ CallTypes /\ CallFits(calls[r]) /\ i \in Accounted /\ users[i].role = "admin"
      /\ calls[r] \in CallRecord /\ calls[r].act \in Acts /\ calls[r].at \in Route[calls[r].act]
      /\ users \in [1..MaxUsers -> Users] /\ i \in 1..MaxUsers
      /\ lastId \in 0..MaxUsers /\ MaxUsers \in Nat /\ i <= lastId
  BY RowType, AccountsConstants DEF CallInv, CallTypes, CallRecord, CallFits, AccTypeOK, UserIds, Admins, Accounted
<1> DEFINE id == calls[r].id
<1>1. CASE UpdateUserRole(r)
  <2>1. UNCHANGED users \/ users' = [users EXCEPT ![id] = [users[id] EXCEPT !.role = calls[r].role, !.rev = @ + 1]]
    BY <1>1 DEF UpdateUserRole, Update
  <2>2. id = i => calls[r].role = "admin"
    BY <1>1 DEF UpdateUserRole, Removing, Removal
  <2>3. CASE users' = [users EXCEPT ![id] = [users[id] EXCEPT !.role = calls[r].role, !.rev = @ + 1]]
    <3>1. CASE id # i
      BY <1>0, <2>3, <3>1 DEF Admins, Accounted
    <3>2. CASE id = i
      <4>1. users[i] \in [role : Roles, name : Usernames, subject : Subjects \cup {Nobody}, rev : 0..MaxRev]
        BY <1>0, RowType
      <4>2. users'[i].role = "admin"
        BY <1>0, <2>2, <2>3, <3>2, <4>1
      <4> QED BY <1>0, <4>2 DEF Admins, Accounted, Gone
    <3> QED BY <3>1, <3>2
  <2> QED BY <1>0, <2>1, <2>3 DEF Admins, Accounted
<1>2. CASE UpdateUserPassword(r)
  <2>1. UNCHANGED users \/ users' = [users EXCEPT ![id] = [users[id] EXCEPT !.rev = @ + 1]]
    BY <1>2 DEF UpdateUserPassword, Update
  <2>2. users[i] \in [role : Roles, name : Usernames, subject : Subjects \cup {Nobody}, rev : 0..MaxRev]
    BY <1>0, RowType
  <2>3. users'[i].role = "admin"
    BY <1>0, <2>1, <2>2
  <2> QED BY <1>0, <2>3 DEF Admins, Accounted, Gone
<1>3. CASE DeleteUser(r)
  <2>1. id # i /\ (UNCHANGED users \/ users' = [users EXCEPT ![id] = Gone])
    BY <1>3 DEF DeleteUser, Update, Removing, Removal
  <2> QED BY <1>0, <2>1 DEF Admins, Accounted
<1>4. CASE resetAdminCmd(r) \/ (UpsertOIDCUser(r) /\ Here(r, "refresh"))
  <2>1. UNCHANGED users \/ \E j : users' = [users EXCEPT ![j].role = "admin"]
    <3>1. CASE resetAdminCmd(r)
      BY <3>1 DEF resetAdminCmd
    <3>2. CASE UpsertOIDCUser(r) /\ Here(r, "refresh")
      <4>1. excused' = (excused \/ calls[r].role # "admin")
            /\ users' = IF users[id] = Gone THEN users ELSE [users EXCEPT ![id].role = calls[r].role]
        BY <3>2 DEF UpsertOIDCUser, Here
      <4> QED BY <4>1
    <3> QED BY <1>4, <3>1, <3>2
  <2>2. users[i] \in [role : Roles, name : Usernames, subject : Subjects \cup {Nobody}, rev : 0..MaxRev]
    BY <1>0, RowType
  <2>3. users'[i].role = "admin"
    BY <1>0, <2>1, <2>2
  <2> QED BY <1>0, <2>3 DEF Admins, Accounted, Gone
<1>5. CASE CreateLocalUser(r) \/ (UpsertOIDCUser(r) /\ ~Here(r, "refresh"))
  <2>1. UNCHANGED users \/ \E row : lastId < MaxUsers /\ users' = [users EXCEPT ![lastId + 1] = row]
    BY <1>5 DEF CreateLocalUser, UpsertOIDCUser
  <2>2. users'[i] = users[i]
    BY <1>0, <2>1
  <2> QED BY <1>0, <2>2 DEF Admins, Accounted
<1>6. CASE CompleteSetup(r)
  <2>1. UNCHANGED users
    BY <1>0, <1>6 DEF CompleteSetup, Accounted
  <2> QED BY <2>1 DEF Admins, Accounted
<1>7. CASE UNCHANGED users
  BY <1>7 DEF Admins, Accounted
<1>8. \/ UpdateUserRole(r) \/ UpdateUserPassword(r) \/ DeleteUser(r) \/ resetAdminCmd(r)
      \/ UpsertOIDCUser(r) \/ CreateLocalUser(r) \/ CompleteSetup(r) \/ UNCHANGED users
  BY DEF AccStep, Call, oidcCallback, setupComplete, setUserRole,
              resetUserPassword, deleteUser, LastAdmin, DeleteSessionsForUser, DeleteAPITokensForUser, CreateAPIToken, createUser,
              CheckPassword, GetOIDCUserBySubject, freeUsername, CreateSession, LoaderBegin, LoaderApply, OpenAPI
<1> QED BY <1>1, <1>2, <1>3, <1>4, <1>5, <1>6, <1>7, <1>8

LEMMA ExcusedStays == ASSUME AccTypeOK, NEW r \in Clients, AccStep(r) PROVE excused => excused'
<1>1. CASE LastAdmin(r)
  BY <1>1 DEF LastAdmin
<1>2. CASE UpsertOIDCUser(r)
  BY <1>2 DEF UpsertOIDCUser
<1>3. CASE CompleteSetup(r)
  BY <1>3 DEF CompleteSetup
<1>4. ASSUME ~LastAdmin(r), ~UpsertOIDCUser(r), ~CompleteSetup(r) PROVE UNCHANGED excused
  BY <1>4 DEF AccStep, Call, oidcCallback, setupComplete, setUserRole, resetUserPassword, deleteUser,
              UpdateUserRole, UpdateUserPassword, DeleteUser, Update, DeleteSessionsForUser, DeleteAPITokensForUser,
              CreateAPIToken, createUser, CreateLocalUser, resetAdminCmd, CheckPassword, GetOIDCUserBySubject, freeUsername,
              CreateSession, LoaderBegin, LoaderApply, OpenAPI
<1> QED BY <1>1, <1>2, <1>3, <1>4

\* Setup is stored with an administrator, or without one because of single
\* sign-on.
LEMMA StoredWithAdmin ==
  ASSUME CallInv, NEW r \in Clients, AccStep(r), ~setup.stored, setup'.stored, ~excused'
  PROVE  KeptInv'
<1>0. /\ AccTypeOK /\ CallTypes /\ CallFits(calls[r])
      /\ \A i \in 1..lastId : i \in Admins
      /\ \A q \in Clients : calls[q].at = "flag" => lastId # 0
      /\ lastId \in 0..MaxUsers /\ MaxUsers \in Nat /\ users \in [1..MaxUsers -> Users]
      /\ \A i \in 1..MaxUsers : i > lastId => users[i] = Gone
  BY AccountsConstants DEF CallInv, FirstBootInv, AccTypeOK, UserIds, Here
<1>1. StepKeeps(r)
  BY StepFacts
<1>2. ASSUME NEW q \in Clients, calls'[q].at = "write", Removal(calls'[q]) PROVE FALSE
  <2>1. CASE q = r
    <3>1. calls[r].act \notin {"role", "delete", "password"}
      BY DEF CallInv, CallFits
    <3>2. ~setUserRole(r) /\ ~resetUserPassword(r) /\ ~deleteUser(r)
      BY <3>1 DEF setUserRole, resetUserPassword, deleteUser
    <3>3. UNCHANGED setup \/ ~LastAdmin(r)
      BY DEF LastAdmin
    <3>4. UNCHANGED setup
      BY <1>0, <1>2, <2>1, <3>2, <3>3, LedTo
    <3> QED BY <3>4
  <2>2. CASE q # r
    <3>1. calls'[q] = calls[q] /\ CallFits(calls[q])
      BY <1>1, <2>2 DEF StepKeeps, CallInv
    <3> QED BY <1>2, <3>1 DEF CallFits, Removal
  <2> QED BY <2>1, <2>2
<1>3. \E i \in Admins' : TRUE
  <2>1. CASE CompleteSetup(r)
    <3>1. CASE Accounted = {} /\ users' = [users EXCEPT ![1] = Local(calls[r].name.base, "admin")]
      <4>1. users'[1] = Local(calls[r].name.base, "admin") /\ 1 \in 1..MaxUsers
        BY <1>0, <3>1, AccountsConstants
      <4>2. users'[1] # Gone /\ users'[1].role = "admin"
        BY <4>1 DEF Local, Gone
      <4> QED BY <4>1, <4>2 DEF Admins, Accounted
    <3>2. CASE Accounted # {} /\ UNCHANGED users
      <4>1. PICK i \in Accounted : TRUE
        BY <3>2
      <4>2. i \in Admins
        BY <1>0, <4>1, RowType
      <4> QED BY <3>2, <4>2 DEF Admins, Accounted
    <3> QED BY <2>1, <3>1, <3>2 DEF CompleteSetup
  <2>2. CASE resetAdminCmd(r)
    <3>1. calls[r].at = "flag" /\ UNCHANGED users
      BY <2>2 DEF resetAdminCmd, Here
    <3>2. 1 \in Admins
      BY <1>0, <3>1
    <3> QED BY <3>1, <3>2 DEF Admins, Accounted
  <2>3. ASSUME ~CompleteSetup(r), ~resetAdminCmd(r) PROVE setup'.stored = setup.stored
    <3>1. CASE OpenAPI(r)
      BY <1>0, <3>1 DEF OpenAPI, AccTypeOK
    <3>2. CASE ~OpenAPI(r)
      BY <2>3, <3>2 DEF AccStep, Call, oidcCallback, setupComplete, setUserRole, resetUserPassword, deleteUser, LastAdmin,
              UpdateUserRole, UpdateUserPassword, DeleteUser, Update, DeleteSessionsForUser, DeleteAPITokensForUser,
              CreateAPIToken, createUser, CreateLocalUser, CheckPassword, GetOIDCUserBySubject, freeUsername,
              UpsertOIDCUser, CreateSession, LoaderBegin, LoaderApply
    <3> QED BY <3>1, <3>2
  <2> QED BY <2>1, <2>2, <2>3
<1>4. PICK i \in Admins' : TRUE
  BY <1>3
<1>5. \A q \in Clients : calls'[q].at = "write" /\ Removal(calls'[q]) => calls'[q].id # i
  BY <1>2
<1> QED BY <1>4, <1>5 DEF KeptInv, Here, Removal

LEMMA StepKept ==
  ASSUME CallInv, KeptInv, NEW r \in Clients, AccStep(r)
  PROVE  KeptInv'
<1> SUFFICES ASSUME setup'.stored, ~excused' PROVE KeptInv'
  BY DEF KeptInv
<1>1. CASE ~setup.stored
  BY <1>1, StoredWithAdmin
<1>2. CASE setup.stored
  <2>0. AccTypeOK /\ CallTypes /\ CallFits(calls[r]) /\ StepKeeps(r) /\ calls[r] \in CallRecord
    BY StepFacts DEF CallInv, CallTypes
  <2>1. ~excused
    BY <2>0, ExcusedStays
  <2>2. PICK i \in Admins : \A q \in Clients : Removing(q) => calls[q].id # i
    BY <1>2, <2>1 DEF KeptInv, Removing
  <2>3. ASSUME NEW j \in Admins, Removing(r) => calls[r].id # j,
               \A q \in Clients \ {r} : Removing(q) => calls[q].id # j,
               Removing(r)' => calls'[r].id # j
        PROVE  KeptInv'
    <3>1. j \in Admins'
      BY <2>3, AdminKept
    <3>2. \A q \in Clients : Removing(q)' => calls'[q].id # j
      BY <2>0, <2>3 DEF StepKeeps, Removing, Here, Removal
    <3> QED BY <3>1, <3>2 DEF KeptInv, Removing
  <2>4. CASE ~Removing(r)'
    BY <2>2, <2>3, <2>4
  <2>5. CASE Removing(r)'
    <3>1. setUserRole(r) \/ resetUserPassword(r) \/ deleteUser(r) \/ LastAdmin(r)
      BY <2>0, <2>5, LedTo DEF Removing, Here
    <3>2. To(r, "write") /\ ~Removing(r)
      <4>1. \E s \in {"done", "count", "write"} : To(r, s)
        BY <3>1 DEF setUserRole, resetUserPassword, deleteUser, LastAdmin
      <4>2. PICK s \in {"done", "count", "write"} : To(r, s)
        BY <4>1
      <4>3. calls'[r].at = s
        BY <2>0, <4>2, ToMoves DEF CallTypes, CallPlaces
      <4>4. calls'[r].at = "write"
        BY <2>5 DEF Removing, Here
      <4>5. calls[r].at # "write"
        BY <3>1 DEF setUserRole, resetUserPassword, deleteUser, LastAdmin, Here
      <4> QED BY <4>2, <4>3, <4>4, <4>5 DEF Removing, Here
    <3>3. calls'[r] = [calls[r] EXCEPT !.at = "write"]
      BY <2>0, <3>2, ToMoves DEF CallTypes, CallPlaces
    <3>4. calls'[r].id = calls[r].id /\ Removal(calls[r])
      BY <2>0, <2>5, <3>3 DEF CallRecord, Removing, Removal
    <3>5. CASE LastAdmin(r)
      <4>1. ~(Cardinality(Admins) <= 1)
        <5>1. To(r, IF Cardinality(Admins) <= 1 THEN "done" ELSE "write")
          BY <3>5 DEF LastAdmin
        <5>2. CASE Cardinality(Admins) <= 1
          <6>1. calls'[r].at = "done"
            BY <2>0, <5>1, <5>2, ToMoves DEF CallTypes, CallPlaces
          <6> QED BY <2>5, <6>1 DEF Removing, Here
        <5> QED BY <5>2
      <4>2. PICK j \in Admins : j # calls[r].id
        BY <4>1, AdminsFinite, TwoMembers
      <4>3. \A q \in Clients \ {r} : ~Removing(q)
        BY <3>5 DEF LastAdmin, Removing
      <4> QED BY <2>3, <3>4, <4>2, <4>3
    <3>6. CASE setUserRole(r) \/ resetUserPassword(r) \/ deleteUser(r)
      <4>1. ~(calls[r].id \in Admins)
        <5>1. ~resetUserPassword(r)
          BY <3>4 DEF resetUserPassword, Removal
        <5>2. ASSUME calls[r].id \in Admins PROVE To(r, "done") \/ To(r, "count")
          BY <3>4, <3>6, <5>1, <5>2 DEF setUserRole, deleteUser
        <5>3. ASSUME NEW s \in {"done", "count"}, To(r, s) PROVE calls'[r].at # "write"
          BY <2>0, <5>3, ToMoves DEF CallTypes, CallPlaces
        <5> QED BY <2>5, <5>2, <5>3 DEF Removing, Here
      <4> QED BY <2>2, <2>3, <3>4, <4>1
    <3> QED BY <3>1, <3>5, <3>6
  <2> QED BY <2>4, <2>5
<1> QED BY <1>1, <1>2

-----------------------------------------------------------------------------
(* Setup, sessions and tokens.                                             *)

LEMMA StepSetupOnce ==
  ASSUME CallInv, SetupOnce, NEW r \in Clients, AccStep(r)
  PROVE  SetupOnce'
<1>0. AccTypeOK /\ CallTypes /\ CallFits(calls[r]) /\ StepKeeps(r)
  BY StepFacts DEF CallInv
<1>1. CASE CompleteSetup(r) /\ ~setup.stored
  <2>1. winners = {} /\ winners' = {r}
    BY <1>1 DEF CallInv, FirstBootInv, CompleteSetup
  <2>2. Cardinality({r}) = 1
    BY FS_Singleton
  <2>3. \A q \in Clients \ {r} : calls'[q].at # "open"
    BY <1>0, <2>1 DEF SetupOnce, StepKeeps, Here
  <2> QED BY <2>1, <2>2, <2>3 DEF SetupOnce, Here
<1>2. CASE ~(CompleteSetup(r) /\ ~setup.stored)
  <2>1. UNCHANGED winners
    BY <1>2 DEF AccStep, Call, oidcCallback, setupComplete, setUserRole, resetUserPassword, deleteUser, LastAdmin,
              UpdateUserRole, UpdateUserPassword, DeleteUser, Update, DeleteSessionsForUser, DeleteAPITokensForUser,
              CreateAPIToken, createUser, CreateLocalUser, resetAdminCmd, CheckPassword, GetOIDCUserBySubject, freeUsername,
              UpsertOIDCUser, CreateSession, LoaderBegin, LoaderApply, CompleteSetup, OpenAPI
  <2>2. calls'[r].at # "open"
    BY <1>0, <1>2, LedTo
  <2> QED BY <1>0, <2>1, <2>2 DEF SetupOnce, StepKeeps, Here
<1> QED BY <1>1, <1>2

\* A request at a sign-out leaves it by ending the sessions of its account, at
\* the revocation of tokens by revoking them.
LEMMA LeavesSignOut ==
  ASSUME CallInv, NEW r \in Clients, AccStep(r), calls[r].at \in {"signout", "revoke"}
  PROVE  /\ calls[r].at = "signout" => DeleteSessionsForUser(r)
         /\ calls[r].at = "revoke" => DeleteAPITokensForUser(r)
BY DEF AccStep, Call, oidcCallback, setupComplete, setUserRole, resetUserPassword, deleteUser, LastAdmin,
       UpdateUserRole, UpdateUserPassword, DeleteUser, DeleteSessionsForUser, DeleteAPITokensForUser,
       CreateAPIToken, createUser, CreateLocalUser, resetAdminCmd, CheckPassword, GetOIDCUserBySubject, freeUsername,
       UpsertOIDCUser, CreateSession, LoaderBegin, LoaderApply, CompleteSetup, OpenAPI, Here

\* A row changes its revision, or goes, only when a request is about to sign it
\* out.
LEMMA RevisionChanges ==
  ASSUME CallInv, NEW r \in Clients, AccStep(r), NEW i \in 1..MaxUsers, Exists(i)
  PROVE  \/ Exists(i)' /\ users'[i].rev = users[i].rev
         \/ /\ calls'[r].id = i /\ calls'[r].at = "signout" /\ calls'[r].act = calls[r].act
            /\ calls[r].act \in {"role", "password", "delete"} /\ (~Exists(i)' => calls[r].act = "delete")
<1>0. /\ AccTypeOK /\ CallTypes /\ CallFits(calls[r]) /\ calls[r] \in CallRecord
      /\ users \in [1..MaxUsers -> Users] /\ lastId \in 0..MaxUsers /\ MaxUsers \in Nat
      /\ \A j \in 1..MaxUsers : j > lastId => users[j] = Gone
  BY AccountsConstants DEF CallInv, CallTypes, AccTypeOK, UserIds
<1> DEFINE id == calls[r].id
<1>1. CASE UpdateUserRole(r) \/ UpdateUserPassword(r) \/ DeleteUser(r)
  <2>1. \E row : Update(r, row) /\ (row = Gone => calls[r].act = "delete" \/ ~Exists(id))
    <3>1. CASE DeleteUser(r)
      BY <3>1 DEF DeleteUser
    <3>2. CASE UpdateUserRole(r) \/ UpdateUserPassword(r)
      <4>1. PICK row : Update(r, row) /\ (row = [users[id] EXCEPT !.role = calls[r].role, !.rev = @ + 1]
                                            \/ row = [users[id] EXCEPT !.rev = @ + 1])
        BY <3>2 DEF UpdateUserRole, UpdateUserPassword
      <4>2. Exists(id) => users[id] \in [role : Roles, name : Usernames, subject : Subjects \cup {Nobody}, rev : 0..MaxRev]
        BY <1>0, RowType DEF Exists, Accounted, CallRecord, UserIds
      <4>3. Exists(id) => row.role \in Roles
        BY <1>0, <4>1, <4>2 DEF CallRecord
      <4>4. Exists(id) => row # Gone
        BY <4>3 DEF Gone, Roles
      <4> QED BY <4>1, <4>4
    <3> QED BY <1>1, <3>1, <3>2
  <2>2. PICK row : Update(r, row) /\ (row = Gone => calls[r].act = "delete" \/ ~Exists(id))
    BY <2>1
  <2>3. calls[r].act \in {"role", "password", "delete"}
    BY <1>1 DEF UpdateUserRole, UpdateUserPassword, DeleteUser
  <2>4. calls'[r] = [calls[r] EXCEPT !.at = "signout"]
    BY <1>0, <2>2, ToMoves DEF CallTypes, CallPlaces, Update
  <2>5. calls'[r].id = id /\ calls'[r].at = "signout" /\ calls'[r].act = calls[r].act
    BY <1>0, <2>4 DEF CallRecord
  <2>6. CASE id = i
    <3>1. users'[i] = row
      BY <1>0, <2>2, <2>6 DEF Update, Exists, CallRecord, UserIds
    <3> QED BY <2>2, <2>3, <2>5, <2>6, <3>1 DEF Exists
  <2>7. CASE id # i
    <3>1. users'[i] = users[i]
      BY <1>0, <2>2, <2>7 DEF Update
    <3> QED BY <3>1 DEF Exists
  <2> QED BY <2>6, <2>7
<1>2. CASE resetAdminCmd(r)
  <2>1. UNCHANGED users \/ (Exists(id) /\ users' = [users EXCEPT ![id].role = "admin"])
    BY <1>2 DEF resetAdminCmd
  <2>2. CASE Exists(id) /\ users' = [users EXCEPT ![id].role = "admin"]
    <3>1. users[id] \in [role : Roles, name : Usernames, subject : Subjects \cup {Nobody}, rev : 0..MaxRev] /\ id \in 1..MaxUsers
      BY <1>0, <2>2, RowType DEF Exists, Accounted, CallRecord, UserIds
    <3>2. users'[id] = [users[id] EXCEPT !.role = "admin"] /\ \A j \in 1..MaxUsers : j # id => users'[j] = users[j]
      BY <1>0, <2>2, <3>1
    <3>3. users'[id].role = "admin" /\ users'[id].rev = users[id].rev
      BY <3>1, <3>2
    <3>4. users'[id] # Gone
      BY <3>3 DEF Gone
    <3> QED BY <3>2, <3>3, <3>4 DEF Exists
  <2> QED BY <2>1, <2>2 DEF Exists
<1>3. CASE UpsertOIDCUser(r) /\ Here(r, "refresh")
  <2>1. UNCHANGED users \/ (id # 0 /\ users[id] # Gone /\ users' = [users EXCEPT ![id].role = calls[r].role])
    <3>1. users' = IF users[id] = Gone THEN users ELSE [users EXCEPT ![id].role = calls[r].role]
      BY <1>3 DEF UpsertOIDCUser, Here
    <3>2. id # 0
      BY <1>0, <1>3 DEF CallFits, Here
    <3> QED BY <3>1, <3>2
  <2>2. CASE id # 0 /\ users[id] # Gone /\ users' = [users EXCEPT ![id].role = calls[r].role]
    <3>1. users[id] \in [role : Roles, name : Usernames, subject : Subjects \cup {Nobody}, rev : 0..MaxRev] /\ id \in 1..MaxUsers
      BY <1>0, <2>2, RowType DEF Accounted, CallRecord, UserIds
    <3>2. users'[id] = [users[id] EXCEPT !.role = calls[r].role] /\ \A j \in 1..MaxUsers : j # id => users'[j] = users[j]
      BY <1>0, <2>2, <3>1
    <3>3. users'[id].role \in Roles /\ users'[id].rev = users[id].rev
      BY <1>0, <3>1, <3>2 DEF CallRecord
    <3>4. users'[id] # Gone
      BY <3>3 DEF Gone, Roles
    <3> QED BY <3>2, <3>3, <3>4 DEF Exists
  <2> QED BY <2>1, <2>2 DEF Exists
<1>4. CASE UNCHANGED users \/ \E row : Made(row)
  <2>1. ASSUME NEW row, Made(row) PROVE users'[i] = users[i]
    <3>1. users[lastId + 1] = Gone /\ users' = [users EXCEPT ![lastId + 1] = row]
      BY <1>0, <2>1 DEF Made
    <3> QED BY <3>1 DEF Exists
  <2> QED BY <1>4, <2>1 DEF Exists
<1>5. \/ UpdateUserRole(r) \/ UpdateUserPassword(r) \/ DeleteUser(r) \/ resetAdminCmd(r)
      \/ (UpsertOIDCUser(r) /\ Here(r, "refresh")) \/ UNCHANGED users \/ \E row : Made(row)
  <2>1. ASSUME NEW j, NEW row, Edited(j, row), CreateLocalUser(r) \/ CompleteSetup(r) \/ (UpsertOIDCUser(r) /\ ~Here(r, "refresh"))
        PROVE  UNCHANGED users
    <3>1. lastId' = lastId /\ lastId # lastId + 1
      BY <1>0, <2>1 DEF Edited
    <3>2. CASE CompleteSetup(r)
      <4>1. j \in Accounted
        BY <2>1 DEF Edited
      <4> QED BY <3>2, <4>1 DEF CompleteSetup
    <3> QED BY <2>1, <3>1, <3>2 DEF CreateLocalUser, UpsertOIDCUser
  <2>2. \/ UpdateUserRole(r) \/ UpdateUserPassword(r) \/ DeleteUser(r) \/ resetAdminCmd(r)
        \/ UpsertOIDCUser(r) \/ CreateLocalUser(r) \/ CompleteSetup(r) \/ UNCHANGED users
    BY DEF AccStep, Call, oidcCallback, setupComplete, setUserRole,
              resetUserPassword, deleteUser, LastAdmin, DeleteSessionsForUser, DeleteAPITokensForUser, CreateAPIToken, createUser,
              CheckPassword, GetOIDCUserBySubject, freeUsername, CreateSession, LoaderBegin, LoaderApply, OpenAPI
  <2>3. UNCHANGED users \/ (\E j, row : Edited(j, row)) \/ (\E row : Made(row))
    BY StepFacts DEF RowsStep
  <2> QED BY <2>1, <2>2, <2>3
<1> QED BY <1>1, <1>2, <1>3, <1>4, <1>5

LEMMA RevisionFrame ==
  ASSUME CallInv, NEW r \in Clients, AccStep(r), NEW q \in Clients \ {r}
  PROVE  calls'[q] = calls[q]
BY StepFacts DEF StepKeeps

LEMMA StepSessions ==
  ASSUME CallInv, SessionsInv, NEW r \in Clients, AccStep(r)
  PROVE  SessionsInv'
<1>0. /\ AccTypeOK /\ CallTypes /\ CallFits(calls[r]) /\ calls[r] \in CallRecord /\ MaxUsers \in Nat
      /\ signedIn \subseteq [id : UserIds, role : Roles, rev : 0..MaxRev, late : BOOLEAN, sub : Subjects \cup {Nobody}]
      /\ \A q \in Clients \ {r} : calls'[q] = calls[q]
  BY AccountsConstants, RevisionFrame DEF CallInv, CallTypes, AccTypeOK
\* A session that stays is covered by what covered it, or by the step.
<1>1. ASSUME NEW s \in signedIn, s \in signedIn' PROVE s.late \/ Changing(s.id, {"signout"})' \/ (Exists(s.id)' /\ users'[s.id].rev = s.rev)
  <2>1. CASE s.late
    BY <2>1
  <2>2. CASE Changing(s.id, {"signout"})
    <3>1. PICK q \in Clients : calls[q].id = s.id /\ calls[q].at = "signout" /\ calls[q].act \in {"role", "delete", "password"}
      BY <2>2 DEF Changing
    <3>2. CASE q = r
      <4>1. DeleteSessionsForUser(r)
        BY <3>1, <3>2, LeavesSignOut
      <4> QED BY <1>1, <3>1, <3>2, <4>1 DEF DeleteSessionsForUser
    <3>3. CASE q # r
      BY <1>0, <3>1, <3>3 DEF Changing
    <3> QED BY <3>2, <3>3
  <2>3. CASE Exists(s.id) /\ users[s.id].rev = s.rev
    <3>1. s.id \in 1..MaxUsers
      BY <1>0, <2>3 DEF Exists, UserIds
    <3>2. \/ Exists(s.id)' /\ users'[s.id].rev = users[s.id].rev
          \/ /\ calls'[r].id = s.id /\ calls'[r].at = "signout" /\ calls'[r].act = calls[r].act
             /\ calls[r].act \in {"role", "password", "delete"}
      BY <2>3, <3>1, RevisionChanges
    <3> QED BY <2>3, <3>2 DEF Changing
  <2> QED BY <2>1, <2>2, <2>3 DEF SessionsInv
\* A new session is of the row as it is, or late.
<1>2. ASSUME NEW s \in signedIn', s \notin signedIn PROVE s.late \/ (Exists(s.id)' /\ users'[s.id].rev = s.rev)
  <2>1. CreateSession(r)
    BY <1>2 DEF AccStep, Call, oidcCallback, setupComplete, setUserRole, resetUserPassword, deleteUser, LastAdmin,
              UpdateUserRole, UpdateUserPassword, DeleteUser, Update, DeleteSessionsForUser, DeleteAPITokensForUser,
              CreateAPIToken, createUser, CreateLocalUser, resetAdminCmd, CheckPassword, GetOIDCUserBySubject, freeUsername,
              UpsertOIDCUser, LoaderBegin, LoaderApply, CompleteSetup, OpenAPI
  <2> DEFINE c == calls[r]
  <2>2. /\ s.id = c.id /\ s.rev = c.rev /\ UNCHANGED users
        /\ s.late = (users[c.id] = Gone \/ (users[c.id] # Gone /\ users[c.id].rev # c.rev))
    BY <1>2, <2>1 DEF CreateSession
  <2>3. c.id # 0
    BY <1>0, <2>1 DEF CreateSession, Here, CallFits
  <2> QED BY <2>2, <2>3 DEF Exists
<1> QED BY <1>1, <1>2 DEF SessionsInv

LEMMA StepTokens ==
  ASSUME CallInv, TokensInv, NEW r \in Clients, AccStep(r)
  PROVE  TokensInv'
<1>0. /\ AccTypeOK /\ CallTypes /\ CallFits(calls[r]) /\ calls[r] \in CallRecord /\ calls[r].at \in Route[calls[r].act]
      /\ calls[r].act \in Acts /\ MaxUsers \in Nat
      /\ tokens \subseteq [id : UserIds, role : Roles, late : BOOLEAN]
      /\ \A q \in Clients \ {r} : calls'[q] = calls[q]
  BY AccountsConstants, RevisionFrame DEF CallInv, CallTypes, AccTypeOK, CallRecord, CallFits
<1>1. ASSUME NEW t \in tokens, t \in tokens' PROVE t.late \/ Exists(t.id)' \/ Deleting(t.id)'
  <2>1. CASE t.late
    BY <2>1
  <2>2. CASE Deleting(t.id)
    <3>1. PICK q \in Clients : calls[q].id = t.id /\ calls[q].at \in {"signout", "revoke"} /\ calls[q].act = "delete"
      BY <2>2 DEF Deleting
    <3>2. CASE q = r /\ calls[r].at = "revoke"
      <4>1. DeleteAPITokensForUser(r)
        BY <3>2, LeavesSignOut
      <4> QED BY <1>1, <3>1, <3>2, <4>1 DEF DeleteAPITokensForUser
    <3>3. CASE q = r /\ calls[r].at = "signout"
      <4>1. To(r, "revoke")
        BY <3>1, <3>3, LeavesSignOut DEF DeleteSessionsForUser
      <4>2. calls'[r] = [calls[r] EXCEPT !.at = "revoke"]
        BY <1>0, <4>1, ToMoves DEF CallTypes, CallPlaces
      <4>3. calls'[r].id = t.id /\ calls'[r].at = "revoke" /\ calls'[r].act = "delete"
        BY <1>0, <3>1, <3>3, <4>2 DEF CallRecord
      <4> QED BY <4>3 DEF Deleting
    <3>4. CASE q # r
      BY <1>0, <3>1, <3>4 DEF Deleting
    <3> QED BY <3>1, <3>2, <3>3, <3>4
  <2>3. CASE Exists(t.id)
    <3>1. t.id \in 1..MaxUsers
      BY <1>0, <2>3 DEF Exists, UserIds
    <3>2. \/ Exists(t.id)'
          \/ /\ calls'[r].id = t.id /\ calls'[r].at = "signout" /\ calls'[r].act = calls[r].act
             /\ (~Exists(t.id)' => calls[r].act = "delete")
      BY <2>3, <3>1, RevisionChanges
    <3> QED BY <3>2 DEF Deleting
  <2> QED BY <2>1, <2>2, <2>3 DEF TokensInv
<1>2. ASSUME NEW t \in tokens', t \notin tokens PROVE t.late \/ Exists(t.id)'
  <2>1. CreateAPIToken(r)
    BY <1>2 DEF AccStep, Call, oidcCallback, setupComplete, setUserRole, resetUserPassword, deleteUser, LastAdmin,
              UpdateUserRole, UpdateUserPassword, DeleteUser, Update, DeleteSessionsForUser, DeleteAPITokensForUser,
              createUser, CreateLocalUser, resetAdminCmd, CheckPassword, GetOIDCUserBySubject, freeUsername,
              UpsertOIDCUser, CreateSession, LoaderBegin, LoaderApply, CompleteSetup, OpenAPI
  <2>2. t.id = calls[r].by /\ t.late = ~Exists(calls[r].by) /\ UNCHANGED users
    BY <1>2, <2>1 DEF CreateAPIToken
  <2> QED BY <2>2 DEF Exists
<1> QED BY <1>1, <1>2 DEF TokensInv

-----------------------------------------------------------------------------
(* Single sign-on.                                                         *)

\* The rows change under a sign-in without its losing hold of its subject's.
LEMMA SubjectFrame ==
  ASSUME CallInv, NEW c \in CallRecord, c.act = "sso", SubjectHeld(c), RowFacts
  PROVE  SubjectHeld(c)'
<1>0. /\ AccTypeOK /\ lastId \in 0..MaxUsers /\ MaxUsers \in Nat /\ c.id \in 0..MaxUsers /\ c.gen \in Nat
      /\ c.id <= lastId /\ c.gen <= lastId
      /\ users \in [1..MaxUsers -> Users]
      /\ \A i \in 1..MaxUsers : i > lastId => users[i] = Gone
  BY AccountsConstants DEF CallInv, AccTypeOK, UserIds, CallRecord, SubjectHeld
<1>1. \A i \in 0..lastId : Exists(i)' => Exists(i) /\ users'[i].subject = users[i].subject /\ users'[i].name = users[i].name
  BY <1>0 DEF Exists, RowFacts
<1>2. c.id <= lastId' /\ c.gen <= lastId'
  BY <1>0 DEF RowFacts
<1>3. Exists(c.gen)' => users'[c.gen].subject = c.sub
  BY <1>0, <1>1 DEF SubjectHeld
<1>4. c.gen = 0 /\ Exists(c.id)' => users'[c.id].subject = c.sub
  BY <1>0, <1>1 DEF SubjectHeld
<1>5. ASSUME c.gen # 0, c.at = "reread", NEW i \in UsersNamed(c.name)' PROVE i >= c.gen
  <2>1. i \in 1..MaxUsers /\ users'[i] # Gone /\ users'[i].name = c.name
    BY DEF UsersNamed, Accounted
  <2>2. CASE i <= lastId
    <3>1. i \in UsersNamed(c.name)
      BY <2>1, <2>2 DEF RowFacts, UsersNamed, Accounted
    <3> QED BY <1>5, <3>1 DEF SubjectHeld
  <2>3. CASE i > lastId
    BY <1>0, <2>1, <2>3
  <2> QED BY <1>0, <2>1, <2>2, <2>3
<1> QED BY <1>2, <1>3, <1>4, <1>5 DEF SubjectHeld

\* The statements of a single sign-on.
LEMMA SsoSteps ==
  ASSUME CallTypes, NEW r \in Clients, CallFits(calls[r]), calls[r].act = "sso", AccStep(r)
  PROVE  GetOIDCUserBySubject(r) \/ freeUsername(r) \/ UpsertOIDCUser(r) \/ CreateSession(r)
<1>1. calls[r].at \in {"subject", "refresh", "name", "insert", "reread", "session"}
  BY DEF CallFits, Route
<1> QED BY <1>1 DEF AccStep, Call, oidcCallback, setupComplete, setUserRole, resetUserPassword, deleteUser, LastAdmin,
       UpdateUserRole, UpdateUserPassword, DeleteUser, DeleteSessionsForUser, DeleteAPITokensForUser,
       CreateAPIToken, createUser, CreateLocalUser, resetAdminCmd, CheckPassword, LoaderBegin, LoaderApply, CompleteSetup, OpenAPI, Here

\* Only an arriving request becomes a single sign-on.
LEMMA SsoFromStart ==
  ASSUME CallInv, NEW r \in Clients, AccStep(r), calls'[r].act = "sso",
         ~(Call(r) \/ oidcCallback(r) \/ setupComplete(r))
  PROVE  calls[r].act = "sso"
<1>0. calls \in [Clients -> CallRecord] /\ calls[r] \in CallRecord
  BY DEF CallInv, CallTypes
<1>1. ASSUME NEW s \in CallPlaces, To(r, s) PROVE calls[r].act = "sso"
  <2>1. CASE s = "done"
    BY <1>0, <1>1, <2>1, ToMoves DEF Quiet
  <2>2. CASE s # "done"
    <3>1. calls'[r] = [calls[r] EXCEPT !.at = s]
      BY <1>0, <1>1, <2>2, ToMoves
    <3>2. calls'[r].act = calls[r].act
      BY <1>0, <3>1 DEF CallRecord
    <3> QED BY <3>2
  <2> QED BY <2>1, <2>2
<1>2. CASE \E i : SignInAs(r, i)
  BY <1>0, <1>2 DEF SignInAs, CallRecord
<1>3. CASE LoaderBegin(r)
  BY <1>0, <1>3 DEF LoaderBegin, CallRecord
<1>4. CASE freeUsername(r)
  BY <1>0, <1>4 DEF freeUsername, CallRecord
<1>5. CASE UpsertOIDCUser(r)
  BY <1>5 DEF UpsertOIDCUser
<1>6. CASE \E i : calls' = [calls EXCEPT ![r].id = i, ![r].at = "refresh"]
  BY <1>0, <1>6 DEF CallRecord
<1>7. CASE \E i : calls' = [calls EXCEPT ![r].id = i, ![r].at = IF i \in Admins THEN "done" ELSE "promote"]
  BY <1>0, <1>7 DEF CallRecord
<1>8. ASSUME GetOIDCUserBySubject(r) \/ CheckPassword(r) \/ CreateSession(r)
      PROVE  (\E s \in CallPlaces : To(r, s)) \/ (\E i : SignInAs(r, i))
             \/ \E i : calls' = [calls EXCEPT ![r].id = i, ![r].at = "refresh"]
  BY <1>8 DEF GetOIDCUserBySubject, CheckPassword, CreateSession, CallPlaces
<1>9. ASSUME resetAdminCmd(r)
      PROVE  (\E s \in CallPlaces : To(r, s))
             \/ \E i : calls' = [calls EXCEPT ![r].id = i, ![r].at = IF i \in Admins THEN "done" ELSE "promote"]
  BY <1>9 DEF resetAdminCmd, CallPlaces
<1>10. ASSUME \/ LoaderApply(r) \/ OpenAPI(r) \/ createUser(r) \/ DeleteSessionsForUser(r) \/ DeleteAPITokensForUser(r)
              \/ CreateAPIToken(r) \/ UpdateUserRole(r) \/ UpdateUserPassword(r) \/ DeleteUser(r)
              \/ setUserRole(r) \/ resetUserPassword(r) \/ deleteUser(r) \/ LastAdmin(r) \/ CompleteSetup(r) \/ CreateLocalUser(r)
       PROVE  \E s \in CallPlaces : To(r, s)
  BY <1>10 DEF LoaderApply, OpenAPI, createUser, DeleteSessionsForUser, DeleteAPITokensForUser, CreateAPIToken,
               UpdateUserRole, UpdateUserPassword, DeleteUser, Update, setUserRole, resetUserPassword, deleteUser, LastAdmin,
               CompleteSetup, CreateLocalUser, CallPlaces
<1>11. \/ GetOIDCUserBySubject(r) \/ CheckPassword(r) \/ CreateSession(r) \/ resetAdminCmd(r)
       \/ LoaderBegin(r) \/ freeUsername(r) \/ UpsertOIDCUser(r)
       \/ (\/ LoaderApply(r) \/ OpenAPI(r) \/ createUser(r) \/ DeleteSessionsForUser(r) \/ DeleteAPITokensForUser(r)
           \/ CreateAPIToken(r) \/ UpdateUserRole(r) \/ UpdateUserPassword(r) \/ DeleteUser(r)
           \/ setUserRole(r) \/ resetUserPassword(r) \/ deleteUser(r) \/ LastAdmin(r) \/ CompleteSetup(r) \/ CreateLocalUser(r))
  BY DEF AccStep
<1> QED BY <1>1, <1>2, <1>3, <1>4, <1>5, <1>6, <1>7, <1>8, <1>9, <1>10, <1>11

\* A sign-in keeps hold of its subject's row from statement to statement.
LEMMA SsoKeepsHold ==
  ASSUME CallInv, NEW r \in Clients, AccStep(r), calls[r].act = "sso", SubjectHeld(calls[r]), calls'[r].act = "sso"
  PROVE  SubjectHeld(calls[r])'
<1>0. /\ AccTypeOK /\ CallTypes /\ CallFits(calls[r]) /\ calls[r] \in CallRecord /\ calls \in [Clients -> CallRecord]
      /\ lastId \in 0..MaxUsers /\ MaxUsers \in Nat /\ users \in [1..MaxUsers -> Users]
      /\ \A i \in 1..MaxUsers : i > lastId => users[i] = Gone
      /\ calls[r].id \in 0..MaxUsers /\ calls[r].gen \in Nat
  BY AccountsConstants DEF CallInv, CallTypes, AccTypeOK, UserIds, CallRecord
<1>1. RowFacts
  BY StepFacts
\* What the old locals know of the new rows.
<1>2. PICK c \in CallRecord : c = calls[r]
  BY <1>0
<1>3. c.act = "sso" /\ SubjectHeld(c)
  BY <1>2
<1>4. SubjectHeld(c)'
  BY <1>1, <1>3, SubjectFrame
<1>5. \A i \in 1..MaxUsers : users[i] # Gone => i <= lastId
  BY <1>0
<1>6. ASSUME NEW d \in CallRecord, calls'[r] = d, SubjectHeld(d)' PROVE SubjectHeld(calls[r])'
  BY <1>6 DEF SubjectHeld, Exists, UsersNamed, Accounted
<1>7. ASSUME NEW s \in CallPlaces, To(r, s) PROVE s # "done" /\ calls'[r] = [c EXCEPT !.at = s]
  <2>1. CASE s = "done"
    <3>1. calls'[r] = [Quiet EXCEPT !.at = s]
      BY <1>0, <1>7, <2>1, ToMoves
    <3>2. calls'[r].act = "login"
      BY <3>1 DEF Quiet
    <3> QED BY <3>2
  <2>2. CASE s # "done"
    BY <1>0, <1>2, <1>7, <2>2, ToMoves
  <2> QED BY <2>1, <2>2
<1>8. CASE GetOIDCUserBySubject(r)
  <2>1. c.at = "subject" /\ c.id = 0 /\ c.gen = 0 /\ UNCHANGED <<users, lastId>>
    BY <1>2, <1>3, <1>8 DEF GetOIDCUserBySubject, Here, SubjectHeld
  <2>2. CASE BySubject(c.sub) = {}
    <3> DEFINE d == [c EXCEPT !.at = "name"]
    <3>1. d \in CallRecord /\ d.at = "name" /\ d.id = 0 /\ d.gen = 0 /\ d.sub = c.sub
      BY <2>1 DEF CallRecord, CallPlaces
    <3>2. calls'[r] = d
      BY <1>2, <1>7, <1>8, <2>2 DEF GetOIDCUserBySubject, CallPlaces
    <3> HIDE DEF d
    <3>3. SubjectHeld(d)'
      BY <1>0, <2>1, <3>1 DEF SubjectHeld, Exists
    <3> QED BY <1>6, <3>1, <3>2, <3>3
  <2>3. CASE BySubject(c.sub) # {}
    <3>1. \E i \in BySubject(calls[r].sub) : calls' = [calls EXCEPT ![r].id = i, ![r].at = "refresh"]
      <4>1. (CHOOSE i \in BySubject(calls[r].sub) : TRUE) \in BySubject(calls[r].sub)
        BY <1>2, <2>3
      <4>2. calls' = [calls EXCEPT ![r].id = CHOOSE i \in BySubject(calls[r].sub) : TRUE, ![r].at = "refresh"]
        BY <1>2, <1>8, <2>3 DEF GetOIDCUserBySubject
      <4> QED BY <4>1, <4>2
    <3>2. PICK i \in BySubject(c.sub) : calls' = [calls EXCEPT ![r].id = i, ![r].at = "refresh"]
      BY <1>2, <3>1
    <3>3. i \in 1..MaxUsers /\ users[i] # Gone /\ users[i].subject = c.sub
      BY DEF BySubject, Accounted
    <3> DEFINE d == [c EXCEPT !.id = i, !.at = "refresh"]
    <3>4. d \in CallRecord /\ d.at = "refresh" /\ d.id = i /\ d.gen = 0 /\ d.sub = c.sub
      <4>1. i \in UserIds
        BY <1>0, <3>3 DEF UserIds
      <4> QED BY <2>1, <4>1 DEF CallRecord, CallPlaces
    <3>6. calls'[r] = d
      BY <1>0, <1>2, <3>2
    <3> HIDE DEF d
    <3>5. SubjectHeld(d)'
      BY <1>0, <1>5, <2>1, <3>3, <3>4 DEF SubjectHeld, Exists
    <3> QED BY <1>6, <3>4, <3>5, <3>6
  <2> QED BY <2>2, <2>3
<1>9. CASE freeUsername(r)
  <2>1. c.at = "name" /\ c.id = 0 /\ c.gen = 0 /\ UNCHANGED <<users, lastId>>
    BY <1>2, <1>3, <1>9 DEF freeUsername, Here, SubjectHeld
  <2>2. PICK k \in 1..MaxUsers + 1 : calls' = [calls EXCEPT ![r].name.n = k, ![r].at = "insert"]
    BY <1>9 DEF freeUsername
  <2> DEFINE d == [c EXCEPT !.name.n = k, !.at = "insert"]
  <2>3. d \in CallRecord /\ d.at = "insert" /\ d.id = 0 /\ d.gen = 0
    BY <2>1 DEF CallRecord, CallPlaces
  <2>4. calls'[r] = d
    BY <1>0, <1>2, <2>2
  <2> HIDE DEF d
  <2>5. SubjectHeld(d)'
    BY <1>0, <2>1, <2>3 DEF SubjectHeld, Exists
  <2> QED BY <1>6, <2>3, <2>4, <2>5
<1>10. CASE UpsertOIDCUser(r) /\ Here(r, "refresh")
  <2>1. c.at = "refresh" /\ c.gen = 0 /\ c.id # 0
    BY <1>0, <1>2, <1>3, <1>10 DEF Here, SubjectHeld, CallFits
  <2> DEFINE d == [c EXCEPT !.at = "reread"]
  <2>2. d \in CallRecord /\ d.at = "reread" /\ d.id = c.id /\ d.gen = 0 /\ d.sub = c.sub
    BY <2>1 DEF CallRecord, CallPlaces
  <2>3. calls'[r] = d
    BY <1>7, <1>10 DEF UpsertOIDCUser, Here, CallPlaces
  <2> HIDE DEF d
  <2>4. SubjectHeld(d)'
    BY <1>4, <2>1, <2>2 DEF SubjectHeld, Exists
  <2> QED BY <1>6, <2>2, <2>3, <2>4
<1>11. CASE UpsertOIDCUser(r) /\ Here(r, "insert")
  <2>1. c.at = "insert" /\ c.id = 0 /\ c.gen = 0
    BY <1>2, <1>3, <1>11 DEF Here, SubjectHeld
  <2>2. UsersNamed(c.name) = {} /\ BySubject(c.sub) = {} /\ lastId < MaxUsers
    <3>1. ~To(r, "done")
      BY <1>7 DEF CallPlaces
    <3> QED BY <1>2, <1>11, <3>1 DEF UpsertOIDCUser, Here
  <2> DEFINE row == [role |-> c.role, name |-> c.name, subject |-> c.sub, rev |-> 0]
             d == [c EXCEPT !.gen = lastId + 1, !.at = "reread"]
  <2>3. lastId' = lastId + 1 /\ users' = [users EXCEPT ![lastId + 1] = row]
        /\ calls' = [calls EXCEPT ![r].gen = lastId + 1, ![r].at = "reread"]
    BY <1>2, <1>11, <2>2 DEF UpsertOIDCUser, Here
  <2>4. d \in CallRecord /\ d.at = "reread" /\ d.id = 0 /\ d.gen = lastId + 1 /\ d.sub = c.sub /\ d.name = c.name
    <3>1. lastId + 1 \in Nat
      BY <1>0
    <3> QED BY <2>1, <3>1 DEF CallRecord, CallPlaces
  <2>5. calls'[r] = d
    BY <1>0, <1>2, <2>3
  <2>6. row.subject = c.sub
    OBVIOUS
  <2> HIDE DEF d, row
  <2>7. users'[lastId + 1] = row /\ \A j \in 1..MaxUsers : j # lastId + 1 => users'[j] = users[j]
    BY <1>0, <2>2, <2>3
  <2>8. \A i \in UsersNamed(c.name)' : i >= lastId + 1
    <3> SUFFICES ASSUME NEW i \in 1..MaxUsers, users'[i] # Gone, users'[i].name = c.name PROVE i = lastId + 1
      BY <1>0 DEF UsersNamed, Accounted
    <3> QED BY <2>2, <2>7 DEF UsersNamed, Accounted
  <2>9. PICK e \in CallRecord : e = d
    BY <2>4
  <2>10. e.at = "reread" /\ e.id = 0 /\ e.gen = lastId + 1 /\ e.sub = c.sub /\ e.name = c.name
    BY <2>4, <2>9
  <2>11. \A i \in UsersNamed(e.name)' : i >= e.gen
    BY <2>8, <2>10
  <2>12. SubjectHeld(e)'
    BY <1>0, <2>3, <2>6, <2>7, <2>10, <2>11 DEF SubjectHeld, Exists
  <2> QED BY <1>6, <2>5, <2>9, <2>12
<1>12. CASE UpsertOIDCUser(r) /\ Here(r, "reread")
  <2>1. c.at = "reread" /\ UNCHANGED <<users, lastId>>
    BY <1>2, <1>12 DEF UpsertOIDCUser, Here
  <2> DEFINE found == IF c.id # 0 THEN {c.id} \cap Accounted ELSE UsersNamed(c.name)
  <2>2. \E i \in found : SignInAs(r, i)
    <3>1. ~To(r, "done")
      BY <1>7 DEF CallPlaces
    <3> QED BY <1>2, <1>12, <3>1 DEF UpsertOIDCUser, Here
  <2>3. PICK i \in found : SignInAs(r, i)
    BY <2>2
  <2>4. i \in 1..MaxUsers /\ users[i] # Gone
    BY <2>3 DEF UsersNamed, Accounted
  <2>5. (c.gen = 0 => i = c.id) /\ (c.gen # 0 => i >= c.gen)
    BY <1>3, <2>1, <2>3 DEF SubjectHeld
  <2> HIDE DEF found
  <2> DEFINE d == [c EXCEPT !.id = i, !.role = users[i].role, !.rev = users[i].rev, !.at = "session"]
  <2>6. calls'[r] = d
    BY <1>0, <1>2, <2>3 DEF SignInAs
  <2>7. users[i].role \in Roles /\ users[i].rev \in 0..MaxRev
    BY <1>0, <2>4, RowType DEF Accounted
  <2>8. d \in CallRecord /\ d.at = "session" /\ d.id = i /\ d.gen = c.gen /\ d.sub = c.sub /\ d.name = c.name
    <3>1. i \in UserIds
      BY <1>0, <2>4 DEF UserIds
    <3> QED BY <2>1, <2>7, <3>1 DEF CallRecord, CallPlaces
  <2> HIDE DEF d
  <2>9. PICK e \in CallRecord : e = d
    BY <2>8
  <2>10. e.at = "session" /\ e.id = i /\ e.gen = c.gen /\ e.sub = c.sub /\ e.name = c.name
    BY <2>8, <2>9
  <2>11. SubjectHeld(e)'
    BY <1>0, <1>3, <1>5, <2>1, <2>4, <2>5, <2>10 DEF SubjectHeld, Exists
  <2> QED BY <1>6, <2>6, <2>9, <2>11
<1>13. ~CreateSession(r)
  BY <1>7 DEF CreateSession, CallPlaces
<1>14. UpsertOIDCUser(r) => Here(r, "refresh") \/ Here(r, "insert") \/ Here(r, "reread")
  BY DEF UpsertOIDCUser
<1> QED BY <1>0, <1>8, <1>9, <1>10, <1>11, <1>12, <1>13, <1>14, SsoSteps

LEMMA StepSubject ==
  ASSUME CallInv, SubjectInv, NEW r \in Clients, AccStep(r)
  PROVE  SubjectInv'
<1>0. /\ CallTypes /\ AccTypeOK /\ CallFits(calls[r]) /\ RowFacts
      /\ lastId' \in 0..MaxUsers /\ MaxUsers \in Nat
      /\ \A q \in Clients \ {r} : calls'[q] = calls[q]
  BY StepFacts, AccountsConstants DEF CallInv, StepKeeps, RowFacts
<1>1. ASSUME NEW q \in Clients, calls'[q].act = "sso" PROVE SubjectHeld(calls[q])'
  <2>1. CASE q # r
    <3>1. calls'[q] = calls[q] /\ calls[q] \in CallRecord
      BY <1>0, <2>1 DEF CallTypes
    <3>2. PICK c \in CallRecord : c = calls[q]
      BY <3>1
    <3>3. c.act = "sso" /\ SubjectHeld(c)
      BY <1>1, <3>1, <3>2 DEF SubjectInv
    <3>4. SubjectHeld(c)'
      BY <1>0, <3>3, SubjectFrame
    <3> QED BY <3>1, <3>2, <3>4 DEF SubjectHeld, Exists, UsersNamed, Accounted
  <2>2. CASE q = r /\ (Call(r) \/ oidcCallback(r) \/ setupComplete(r))
    <3>1. calls'[r].at \in Arrivals /\ calls'[r].id = 0 /\ calls'[r].gen = 0
      BY <1>0, <1>1, <2>2, ArrivalKeeps
    <3>2. calls'[r].at \notin {"refresh", "reread", "session"}
      BY <3>1 DEF Arrivals
    <3> QED BY <1>0, <2>2, <3>1, <3>2 DEF SubjectHeld, Exists
  <2>3. CASE q = r /\ ~(Call(r) \/ oidcCallback(r) \/ setupComplete(r))
    <3>1. calls[r].act = "sso"
      BY <1>1, <2>3, SsoFromStart
    <3>2. SubjectHeld(calls[r])
      BY <3>1 DEF SubjectInv
    <3> QED BY <1>1, <2>3, <3>1, <3>2, SsoKeepsHold
  <2> QED BY <2>1, <2>2, <2>3
<1> QED BY <1>1 DEF SubjectInv

-----------------------------------------------------------------------------
(* The accounts.                                                           *)

LEMMA InitHolds == AccInit => AccountsIInv
<1> SUFFICES ASSUME AccInit PROVE AccountsIInv
  OBVIOUS
<1>0. MaxUsers \in Nat /\ MaxUsers >= 2 /\ MaxRev \in Nat /\ Nobody \notin Subjects
  BY AccountsConstants
<1>1. calls \in [Clients -> CallRecord] /\ \A r \in Clients : calls[r] = Quiet
  BY QuietType DEF AccInit
<1>2. /\ Quiet.act = "login" /\ Quiet.at = "unsent" /\ Quiet.id = 0 /\ Quiet.role = "readonly" /\ Quiet.rev = 0
  BY DEF Quiet
<1>3. ASSUME NEW b \in Bases PROVE /\ Local(b, "admin") \in Users /\ Local(b, "admin") # Gone
                                   /\ Local(b, "admin").role = "admin" /\ Local(b, "admin").rev = 0
  BY <1>0 DEF Local, Users, Roles, Usernames, Gone
<1>4. CallTypes /\ \A r \in Clients : CallFits(calls[r])
  BY <1>1, <1>2 DEF AccInit, CallTypes, CallFits, Route
<1>5. SubjectInv
  BY <1>1, <1>2 DEF SubjectInv
<1>6. SetupOnce /\ TokensInv
  <2>1. Cardinality({}) = 0
    BY FS_EmptySet
  <2> QED BY <1>1, <1>2, <2>1 DEF AccInit, SetupOnce, TokensInv, Here
<1>9. /\ tokens = {} /\ winners = {} /\ excused = FALSE
      /\ \A r \in Clients : calls[r].act \in Acts /\ calls[r].id \in UserIds /\ calls[r].role \in Roles /\ calls[r].rev \in 0..MaxRev
  BY <1>0, <1>1, <1>2 DEF AccInit, Acts, UserIds, Roles
<1>7. CASE /\ users = [i \in 1..MaxUsers |-> Gone] /\ lastId = 0 /\ signedIn = {}
           /\ setup = [stored |-> FALSE, open |-> FALSE]
  <2>1. AccTypeOK
    <3>1. users \in [1..MaxUsers -> Users] /\ lastId \in UserIds
      BY <1>0, <1>7 DEF Users, UserIds
    <3> QED BY <1>7, <1>9, <3>1 DEF AccTypeOK
  <2>2. FirstBootInv /\ KeptInv /\ SessionsInv
    BY <1>1, <1>2, <1>7 DEF AccInit, FirstBootInv, KeptInv, SessionsInv, Here
  <2> QED BY <1>4, <1>5, <1>6, <2>1, <2>2 DEF AccountsIInv
<1>8. CASE \E b \in Bases : \E c \in Bases \ {b} :
             /\ users = [i \in 1..MaxUsers |-> IF i = 1 THEN Local(b, "admin") ELSE IF i = 2 THEN Local(c, "admin") ELSE Gone]
             /\ lastId = 2
             /\ signedIn = {[id |-> 1, role |-> "admin", rev |-> 0, late |-> FALSE, sub |-> Nobody]}
             /\ setup = [stored |-> TRUE, open |-> TRUE]
  <2>0. PICK b \in Bases : \E c \in Bases \ {b} :
             /\ users = [i \in 1..MaxUsers |-> IF i = 1 THEN Local(b, "admin") ELSE IF i = 2 THEN Local(c, "admin") ELSE Gone]
             /\ lastId = 2
             /\ signedIn = {[id |-> 1, role |-> "admin", rev |-> 0, late |-> FALSE, sub |-> Nobody]}
             /\ setup = [stored |-> TRUE, open |-> TRUE]
    BY <1>8
  <2>1. PICK c \in Bases \ {b} :
             /\ users = [i \in 1..MaxUsers |-> IF i = 1 THEN Local(b, "admin") ELSE IF i = 2 THEN Local(c, "admin") ELSE Gone]
             /\ lastId = 2
             /\ signedIn = {[id |-> 1, role |-> "admin", rev |-> 0, late |-> FALSE, sub |-> Nobody]}
             /\ setup = [stored |-> TRUE, open |-> TRUE]
    BY <2>0
  <2>2. users \in [1..MaxUsers -> Users] /\ \A i \in 1..MaxUsers : i > lastId => users[i] = Gone
    BY <1>0, <1>3, <2>1 DEF Users
  <2>3. signedIn \subseteq [id : UserIds, role : Roles, rev : 0..MaxRev, late : BOOLEAN, sub : Subjects \cup {Nobody}]
    BY <1>0, <2>1 DEF UserIds, Roles
  <2>4. AccTypeOK
    <3>1. lastId \in UserIds
      BY <1>0, <2>1 DEF UserIds
    <3> QED BY <1>9, <2>1, <2>2, <2>3, <3>1 DEF AccTypeOK
  <2>5. users[1] = Local(b, "admin") /\ 1 \in 1..MaxUsers
    BY <1>0, <2>1
  <2>6. 1 \in Admins
    BY <1>3, <2>5 DEF Admins, Accounted
  <2>7. KeptInv
    BY <1>1, <1>2, <2>6 DEF KeptInv, Here
  <2>8. SessionsInv
    BY <1>3, <2>1, <2>5 DEF SessionsInv, Exists
  <2>9. FirstBootInv
    BY <2>1 DEF FirstBootInv
  <2> QED BY <1>4, <1>5, <1>6, <2>4, <2>7, <2>8, <2>9 DEF AccountsIInv
<1> QED BY <1>7, <1>8 DEF AccInit

\* What no request does: an answer for boot's retry, a logout, a revoked token.
LEMMA AgeingKeeps ==
  ASSUME AccountsIInv, Ageing
  PROVE  AccountsIInv' /\ provider'.live >= provider.live
<1>1. UNCHANGED <<users, lastId, setup, calls, winners, excused>> /\ signedIn' \subseteq signedIn /\ tokens' \subseteq tokens
  BY DEF Ageing, LoaderRetry, logout, deleteAPIToken
<1>2. provider' \in [gen : Nat, live : Nat, retry : Nat] /\ provider'.live <= provider'.gen /\ provider'.live >= provider.live
  <2>1. provider \in [gen : Nat, live : Nat, retry : Nat] /\ provider.live <= provider.gen
    BY DEF AccountsIInv, CallTypes
  <2>2. CASE LoaderRetry
    BY <2>1, <2>2 DEF LoaderRetry, installIf
  <2>3. CASE UNCHANGED provider
    BY <2>1, <2>3
  <2> QED BY <2>2, <2>3 DEF Ageing, logout, deleteAPIToken
<1>3. AccTypeOK' /\ CallTypes' /\ \A r \in Clients : CallFits(calls[r])'
  BY <1>1, <1>2 DEF AccountsIInv, AccTypeOK, CallTypes, CallFits
<1>4. SubjectInv'
  BY <1>1 DEF AccountsIInv, SubjectInv, SubjectHeld, Exists, UsersNamed, Accounted
<1>5. FirstBootInv' /\ KeptInv' /\ SetupOnce'
  BY <1>1 DEF AccountsIInv, FirstBootInv, KeptInv, SetupOnce, Admins, Accounted, Here, Removal
<1>6. TokensInv' /\ SessionsInv'
  BY <1>1 DEF AccountsIInv, TokensInv, SessionsInv, Deleting, Changing, Exists
<1> QED BY <1>2, <1>3, <1>4, <1>5, <1>6 DEF AccountsIInv

LEMMA RequestKeeps ==
  ASSUME AccountsIInv, NEW r \in Clients, AccStep(r)
  PROVE  AccountsIInv' /\ provider'.live >= provider.live
<1>1. CallInv /\ AccTypeOK /\ CallTypes /\ CallFits(calls[r])
  BY DEF AccountsIInv, CallInv
<1>2. AccTypeOK' /\ CallTypes' /\ \A q \in Clients : CallFits(calls[q])'
  BY <1>1, StepFacts
<1>3. FirstBootInv' /\ KeptInv' /\ SetupOnce' /\ SessionsInv' /\ TokensInv' /\ SubjectInv'
  BY <1>1, StepFirstBoot, StepKept, StepSetupOnce, StepSessions, StepTokens, StepSubject DEF AccountsIInv
<1>4. provider'.live >= provider.live
  BY <1>1, TablesKeepTypes
<1> QED BY <1>2, <1>3, <1>4 DEF AccountsIInv

LEMMA AccountsInductive ==
  ASSUME AccountsIInv, [AccNext]_accVars
  PROVE  AccountsIInv' /\ (AccNext => provider'.live >= provider.live)
<1>1. CASE UNCHANGED accVars /\ ~AccNext
  <2>1. UNCHANGED <<users, lastId, signedIn, tokens, setup, provider, calls, winners, excused>>
    BY <1>1 DEF accVars
  <2>2. AccTypeOK' /\ CallTypes' /\ \A r \in Clients : CallFits(calls[r])'
    BY <2>1 DEF AccountsIInv, AccTypeOK, CallTypes, CallFits
  <2>3. SubjectInv'
    BY <2>1 DEF AccountsIInv, SubjectInv, SubjectHeld, Exists, UsersNamed, Accounted
  <2>4. FirstBootInv' /\ KeptInv' /\ SetupOnce'
    BY <2>1 DEF AccountsIInv, FirstBootInv, KeptInv, SetupOnce, Admins, Accounted, Here, Removal
  <2>5. TokensInv' /\ SessionsInv'
    BY <2>1 DEF AccountsIInv, TokensInv, SessionsInv, Deleting, Changing, Exists
  <2> QED BY <1>1, <2>2, <2>3, <2>4, <2>5 DEF AccountsIInv
<1>2. CASE AccNext
  <2>1. CASE Ageing
    BY <2>1, AgeingKeeps
  <2>2. CASE \E r \in Clients : AccStep(r)
    BY <2>2, RequestKeeps
  <2> QED BY <1>2, <2>1, <2>2, AccNextParts
<1> QED BY <1>1, <1>2

\* The inductive invariant has the parts of the accounts' safety.
LEMMA AccountsSafe == AccountsIInv => AccountsInv
<1> SUFFICES ASSUME AccountsIInv PROVE AccountsInv
  OBVIOUS
<1>1. AccTypeOK /\ SetupOnce /\ calls \in [Clients -> CallRecord]
  BY DEF AccountsIInv, CallTypes
<1>2. NothingOutlivesAccount
  <2>1. ASSUME NEW t \in tokens PROVE t.late \/ Exists(t.id) \/ Changing(t.id, {"signout", "revoke"})
    BY DEF AccountsIInv, TokensInv, Deleting, Changing
  <2> QED BY <2>1 DEF AccountsIInv, SessionsInv, NothingOutlivesAccount
<1>3. AdminLostOnlyByRace
  BY DEF AccountsIInv, KeptInv, AdminLostOnlyByRace
<1>4. SsoKeepsToItself
  <2> SUFFICES ASSUME NEW r \in Clients, calls[r].at = "session", calls[r].act = "sso", Exists(calls[r].id)
               PROVE  \/ users[calls[r].id].subject = calls[r].sub
                      \/ calls[r].gen # 0 /\ calls[r].id > calls[r].gen
    BY DEF SsoKeepsToItself, Here
  <2>1. SubjectHeld(calls[r])
    BY DEF AccountsIInv, SubjectInv
  <2>2. calls[r].gen \in Nat /\ calls[r].id \in 0..MaxUsers /\ MaxUsers \in Nat
    BY <1>1, AccountsConstants DEF CallRecord, UserIds
  <2>3. CASE calls[r].gen = 0
    BY <2>1, <2>3 DEF SubjectHeld
  <2>4. CASE calls[r].gen # 0
    <3>1. calls[r].id >= calls[r].gen
      BY <2>1, <2>4 DEF SubjectHeld
    <3>2. CASE calls[r].id = calls[r].gen
      BY <2>1, <3>2 DEF SubjectHeld
    <3> QED BY <2>2, <2>4, <3>1, <3>2
  <2> QED BY <2>3, <2>4
<1> QED BY <1>1, <1>2, <1>3, <1>4 DEF AccountsInv

\* Whatever requests, sign-ins, setups and commands interleave: no session or
\* token outlives a change or removal of its account except one made from an
\* earlier read, setup is completed once, the last administrator is lost only to
\* overlapping removals or to single sign-on, and a sign-in by single sign-on
\* gets its own subject's account (internal/api/users.go, setup.go, oidc.go).
THEOREM AccountsHold == AccSpec => []AccountsInv
<1>1. AccInit => AccountsIInv
  BY InitHolds
<1>2. AccountsIInv /\ [AccNext]_accVars => AccountsIInv'
  BY AccountsInductive
<1>3. AccountsIInv => AccountsInv
  BY AccountsSafe
<1> QED BY <1>1, <1>2, <1>3, PTL DEF AccSpec

\* The OIDC provider of an older generation never replaces a newer one: neither
\* a slow Apply nor boot's retry installs over what began later
\* (cmd/control-plane/oidc_loader.go).
THEOREM NewestStays == AccSpec => NewestProviderStays
<1>1. AccInit => AccountsIInv
  BY InitHolds
<1>2. AccountsIInv /\ [AccNext]_accVars => AccountsIInv'
  BY AccountsInductive
<1>3. AccountsIInv /\ [AccNext]_accVars => [provider'.live >= provider.live]_accVars
  BY AccountsInductive
<1> QED BY <1>1, <1>2, <1>3, PTL DEF AccSpec, NewestProviderStays
=============================================================================
