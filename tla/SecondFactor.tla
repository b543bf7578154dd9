---------------------------- MODULE SecondFactor ----------------------------
(* Two-factor sign-in of one local account (internal/api/mfa.go and          *)
(* internal/store/mfa.go): the challenges a correct password is answered     *)
(* with, the one-time codes and recovery codes that end them, the set-up,    *)
(* removal and reset of the factor.                                          *)
(*                                                                           *)
(* A request is one HTTP request.  Its handler is cut into the database      *)
(* statements it makes; between two of them any other request runs.  A code  *)
(* is chosen where the handler first looks at it, which no earlier step      *)
(* depends on.  Passwords are right (a wrong one ends the handler before it  *)
(* changes anything) and statements do not fail.  A TOTP code is its secret  *)
(* and its time step, a recovery code its list and its place in it.          *)
EXTENDS Integers, FiniteSets

CONSTANTS
  Requests,     \* the HTTP requests, each sent once
  MaxSecrets,   \* secrets are numbered as they are generated; 0 is none
  MaxLists,     \* lists of recovery codes are numbered likewise
  NCodes,       \* recovery codes of a list
  Challenge,    \* tokens of challenges
  NoToken,      \* no challenge: the request comes with a session
  MaxAttempts,  \* mfaMaxAttempts
  CodeLimit,    \* mfaCodeLimit, the guesses of an account in a window
  SwapTries,    \* attempts of UseRecoveryCode
  MaxStep       \* the last time step

ASSUME SecondFactorConstants ==
  /\ {NCodes, MaxAttempts, CodeLimit, SwapTries} \subseteq Nat
  /\ {MaxSecrets, MaxLists, MaxStep} \subseteq Nat \ {0}
  /\ NoToken \notin Challenge /\ IsFiniteSet(Requests)

NoChallenge == [kind |-> "none", attempts |-> 0, live |-> FALSE]

Totp     == [secret : 0..MaxSecrets, step : 0..MaxStep + 1]

VARIABLES
  factor,      \* the account's columns: secret, pending, last step, recovery codes
  challenges,  \* the table mfa_challenges: kind, attempts, not expired
  guesses,     \* the account's fixed window of the rate limiter
  clock,       \* the current time step
  sessions,    \* how the account's sessions were started
  made,        \* how many secrets and lists have been generated
  work,        \* what each request does and has read
  usedSteps,   \* history: the TOTP codes accepted so far
  usedCodes,   \* history: the recovery codes accepted so far
  compared     \* history: how often a code was compared for a challenge

mfaVars == <<factor, challenges, guesses, clock, sessions, made, work, usedSteps, usedCodes, compared>>

Steps == {"unsent", "factor", "policy", "challenge", "attempt", "guess", "code", "spend", "list", "swap",
          "enable", "close", "pending", "session", "off", "codes", "wipe", "drop", "signout", "done"}

\* The handlers: which statement follows one that went well.  A statement that
\* does not ends the request, but for the branches its action states.
login              == [factor |-> "policy", policy |-> "session", challenge |-> "done", session |-> "done"]
mfaVerify          == [attempt |-> "guess", guess |-> "code", spend |-> "close", swap |-> "close",
                       close |-> "session", session |-> "done"]
mfaSetup           == [factor |-> "pending", pending |-> "done"]
mfaEnable          == [attempt |-> "guess", guess |-> "code", code |-> "enable", enable |-> "close",
                       close |-> "session", session |-> "done"]
mfaDisable         == [guess |-> "policy", policy |-> "code", spend |-> "off", swap |-> "off", off |-> "done"]
mfaRegenerateCodes == [guess |-> "code", spend |-> "codes", codes |-> "done"]
resetUserMFA       == [wipe |-> "drop", drop |-> "signout", signout |-> "done"]

Handlers == [login |-> login, verify |-> mfaVerify, setup |-> mfaSetup, enable |-> mfaEnable,
             disable |-> mfaDisable, regenerate |-> mfaRegenerateCodes, reset |-> resetUserMFA]
Ops      == DOMAIN Handlers

\* The zero value of a request's locals: the challenge it came with or none,
\* the step or code it compares, the secret or list it read, its tries.
Idle == [op |-> "login", at |-> "unsent", ch |-> NoToken, kind |-> "none",
         step |-> 0, code |-> 0, secret |-> 0, list |-> [n |-> 0, left |-> {}], tries |-> 0]

Off == [secret |-> 0, pending |-> 0, last |-> 0, codes |-> [n |-> 0, left |-> {}]]

\* An account without the factor, or with the first secret and list in force,
\* whose password sign-in may be waiting for a code.
MfaInit ==
  /\ \/ /\ factor = Off
        /\ made = [secrets |-> 0, lists |-> 0]
        /\ challenges = [c \in Challenge |-> NoChallenge]
     \/ /\ factor = [secret |-> 1, pending |-> 0, last |-> 0, codes |-> [n |-> 1, left |-> 1..NCodes]]
        /\ made = [secrets |-> 1, lists |-> 1]
        /\ \E c \in Challenge : challenges =
             [x \in Challenge |-> IF x = c THEN [kind |-> "verify", attempts |-> 0, live |-> TRUE] ELSE NoChallenge]
  /\ clock = 1 /\ guesses = 0
  /\ sessions \in {{}, {"earlier"}}
  /\ work = [r \in Requests |-> Idle]
  /\ usedSteps = {} /\ usedCodes = {} /\ compared = [c \in Challenge |-> 0]

At(r, s)   == work[r].at = s
Is(r, ops) == work[r].op \in ops
\* A request that is done forgets its locals.
Go(r, s)   == work' = [work EXCEPT ![r] = IF s = "done" THEN [Idle EXCEPT !.at = s] ELSE [@ EXCEPT !.at = s]]
Then(r)    == Go(r, Handlers[work[r].op][work[r].at])
Done(r)    == Go(r, "done")

\* mfaAccount: the account page needs a session, a sign-in under way its
\* challenge, which mfaSetup only looks at and mfaEnable pays an attempt for.
mfaAccount(r, op) ==
  \/ sessions # {} /\ work' = [work EXCEPT ![r].op = op, ![r].at = IF op = "setup" THEN "factor" ELSE "guess"]
  \/ \E c \in Challenge :
       /\ op = "setup" => challenges[c].live /\ challenges[c].kind = "setup"
       /\ work' = [work EXCEPT ![r].op = op, ![r].ch = c, ![r].at = IF op = "setup" THEN "factor" ELSE "attempt"]

\* A request arrives: with a password, with a challenge or with a session.
Arrive(r) ==
  /\ At(r, "unsent")
  /\ \/ work' = [work EXCEPT ![r].op = "login", ![r].at = "factor"]
     \/ work' = [work EXCEPT ![r].op = "reset", ![r].at = "wipe"]
     \/ \E c \in Challenge : work' = [work EXCEPT ![r].op = "verify", ![r].ch = c, ![r].at = "attempt"]
     \/ \E op \in {"setup", "enable"} : mfaAccount(r, op)
     \/ sessions # {} /\ \E op \in {"disable", "regenerate"} : work' = [work EXCEPT ![r].op = op, ![r].at = "guess"]
  /\ UNCHANGED <<factor, challenges, guesses, clock, sessions, made, usedSteps, usedCodes, compared>>

\* login and mfaSetup ask whether the factor is on.
mfaEnabled(r) ==
  /\ At(r, "factor")
  /\ \/ factor.secret = 0 /\ Then(r)
     \/ factor.secret # 0 /\ Is(r, {"setup"}) /\ Done(r)
     \/ /\ factor.secret # 0 /\ Is(r, {"login"})
        /\ work' = [work EXCEPT ![r].kind = "verify", ![r].at = "challenge"]
  /\ UNCHANGED <<factor, challenges, guesses, clock, sessions, made, usedSteps, usedCodes, compared>>

\* An account without the factor must set it up when the policy asks for it;
\* then mfaDisable is refused as well.  The policy is whatever an administrator
\* has made it by now.
passwordLoginNeedsMFA(r) ==
  /\ At(r, "policy")
  /\ \E required \in BOOLEAN :
     \/ ~required /\ Then(r)
     \/ required /\ Is(r, {"disable"}) /\ Done(r)
     \/ required /\ Is(r, {"login"}) /\ work' = [work EXCEPT ![r].kind = "setup", ![r].at = "challenge"]
  /\ UNCHANGED <<factor, challenges, guesses, clock, sessions, made, usedSteps, usedCodes, compared>>

\* Expired challenges are pruned on the way.
CreateMFAChallenge(r) ==
  /\ At(r, "challenge")
  /\ \E c \in Challenge :
       /\ challenges[c] = NoChallenge /\ compared[c] = 0 /\ \A q \in Requests : work[q].ch # c
       /\ challenges' = [x \in Challenge |->
            IF x = c THEN [kind |-> work[r].kind, attempts |-> 0, live |-> TRUE]
            ELSE IF challenges[x].live THEN challenges[x] ELSE NoChallenge]
  /\ Then(r)
  /\ UNCHANGED <<factor, guesses, clock, sessions, made, usedSteps, usedCodes, compared>>

\* challengeUser wants a challenge of the handler's kind.
challengeUser(r, c) == IF challenges[c].kind = (IF Is(r, {"verify"}) THEN "verify" ELSE "setup") THEN Then(r) ELSE Done(r)

\* The attempt is counted before the code is looked at.
MFAChallengeAttempt(r) ==
  /\ At(r, "attempt")
  /\ LET c == work[r].ch IN
     \/ /\ challenges[c].live /\ challenges[c].attempts < MaxAttempts
        /\ challenges' = [challenges EXCEPT ![c].attempts = @ + 1]
        /\ challengeUser(r, c)
     \/ /\ ~(challenges[c].live /\ challenges[c].attempts < MaxAttempts)
        /\ challenges' = [challenges EXCEPT ![c] = NoChallenge] /\ Done(r)
  /\ UNCHANGED <<factor, guesses, clock, sessions, made, usedSteps, usedCodes, compared>>

\* One guess against the account's window, across challenges and sessions.
allowCodeGuess(r) ==
  /\ At(r, "guess")
  /\ \/ guesses < CodeLimit /\ guesses' = guesses + 1 /\ Then(r)
     \/ guesses >= CodeLimit /\ Done(r) /\ UNCHANGED guesses
  /\ UNCHANGED <<factor, challenges, clock, sessions, made, usedSteps, usedCodes, compared>>

VerifyTOTP(secret, code) == code.secret = secret /\ code.step \in clock - 1..clock + 1

\* The columns are read and the code is compared with what they were then; a
\* code that is no TOTP code is looked for in the recovery codes.
checkCode(r) ==
  /\ At(r, "code") /\ Is(r, {"verify", "disable", "regenerate"})
  /\ \/ factor.secret = 0 /\ Done(r)
     \/ /\ factor.secret # 0
        /\ \E code \in Totp :
             IF VerifyTOTP(factor.secret, code)
             THEN work' = [work EXCEPT ![r].step = code.step, ![r].at = "spend"]
             ELSE Done(r)
     \/ /\ factor.secret # 0 /\ Is(r, {"verify", "disable"})
        /\ \E n \in 1..NCodes : work' = [work EXCEPT ![r].code = n, ![r].at = "list"]
  /\ compared' = IF work[r].ch = NoToken THEN compared ELSE [compared EXCEPT ![work[r].ch] = @ + 1]
  /\ UNCHANGED <<factor, challenges, guesses, clock, sessions, made, usedSteps, usedCodes>>

\* mfaEnable compares with the pending secret instead.
CheckPending(r) ==
  /\ At(r, "code") /\ Is(r, {"enable"})
  /\ \E code \in Totp :
       IF factor.pending # 0 /\ VerifyTOTP(factor.pending, code)
       THEN work' = [work EXCEPT ![r].step = code.step, ![r].secret = factor.pending, ![r].at = mfaEnable.code]
       ELSE Done(r)
  /\ compared' = IF work[r].ch = NoToken THEN compared ELSE [compared EXCEPT ![work[r].ch] = @ + 1]
  /\ UNCHANGED <<factor, challenges, guesses, clock, sessions, made, usedSteps, usedCodes>>

\* Changed: the step is recorded whatever the last one is.
UseStepUnchecked(r) ==
  /\ At(r, "spend")
  /\ factor' = [factor EXCEPT !.last = work[r].step]
  /\ usedSteps' = usedSteps \cup {[secret |-> factor.secret, step |-> work[r].step]}
  /\ Then(r)
  /\ UNCHANGED <<challenges, guesses, clock, sessions, made, usedCodes, compared>>

\* One conditional update: the step must be newer than the last accepted.
UseTOTPStep(r) ==
  /\ At(r, "spend")
  /\ IF factor.secret # 0 /\ factor.last < work[r].step
     THEN /\ factor' = [factor EXCEPT !.last = work[r].step]
          /\ usedSteps' = usedSteps \cup {[secret |-> factor.secret, step |-> work[r].step]}
          /\ Then(r)
     ELSE Done(r) /\ UNCHANGED <<factor, usedSteps>>
  /\ UNCHANGED <<challenges, guesses, clock, sessions, made, usedCodes, compared>>

\* UseRecoveryCode reads the list: the code must still be in it.
ReadRecoveryCodes(r) ==
  /\ At(r, "list")
  /\ IF factor.secret # 0 /\ work[r].code \in factor.codes.left
     THEN work' = [work EXCEPT ![r].list = factor.codes, ![r].at = "swap"]
     ELSE Done(r)
  /\ UNCHANGED <<factor, challenges, guesses, clock, sessions, made, usedSteps, usedCodes, compared>>

\* Changed: the list is written whatever it is by now.
SwapUnchecked(r) ==
  /\ At(r, "swap") /\ factor.secret # 0
  /\ factor' = [factor EXCEPT !.codes = [work[r].list EXCEPT !.left = @ \ {work[r].code}]]
  /\ usedCodes' = usedCodes \cup {[list |-> work[r].list.n, n |-> work[r].code]}
  /\ Then(r)
  /\ UNCHANGED <<challenges, guesses, clock, sessions, made, usedSteps, compared>>

\* It writes the list without the code, if the list is the one it read.
SwapRecoveryCodes(r) ==
  /\ At(r, "swap")
  /\ IF factor.codes = work[r].list
     THEN /\ factor' = [factor EXCEPT !.codes = [work[r].list EXCEPT !.left = @ \ {work[r].code}]]
          /\ usedCodes' = usedCodes \cup {[list |-> factor.codes.n, n |-> work[r].code]}
          /\ Then(r)
     ELSE /\ \/ work[r].tries + 1 < SwapTries /\ work' = [work EXCEPT ![r].tries = @ + 1, ![r].at = "list"]
             \/ work[r].tries + 1 >= SwapTries /\ Done(r)
          /\ UNCHANGED <<factor, usedCodes>>
  /\ UNCHANGED <<challenges, guesses, clock, sessions, made, usedSteps, compared>>

DisableTOTP(r) ==
  /\ At(r, "off") \/ At(r, "wipe")
  /\ factor' = Off /\ Then(r)
  /\ UNCHANGED <<challenges, guesses, clock, sessions, made, usedSteps, usedCodes, compared>>

\* New recovery codes replace the old ones, if the factor is still on.
SetRecoveryCodes(r) ==
  /\ At(r, "codes") /\ made.lists < MaxLists
  /\ made' = [made EXCEPT !.lists = @ + 1]
  /\ factor' = IF factor.secret = 0 THEN factor
               ELSE [factor EXCEPT !.codes = [n |-> made.lists + 1, left |-> 1..NCodes]]
  /\ Then(r)
  /\ UNCHANGED <<challenges, guesses, clock, sessions, usedSteps, usedCodes, compared>>

SetTOTPPending(r) ==
  /\ At(r, "pending") /\ made.secrets < MaxSecrets
  /\ made' = [made EXCEPT !.secrets = @ + 1]
  /\ factor' = [factor EXCEPT !.pending = made.secrets + 1]
  /\ Then(r)
  /\ UNCHANGED <<challenges, guesses, clock, sessions, usedSteps, usedCodes, compared>>

\* The confirmed secret comes into force if it is still the pending one.
\* Enrolling during a sign-in completes it.
EnableTOTP(r) ==
  /\ At(r, "enable") /\ made.lists < MaxLists
  /\ made' = [made EXCEPT !.lists = @ + 1]
  /\ IF factor.pending = work[r].secret
     THEN /\ factor' = [secret |-> work[r].secret, pending |-> 0, last |-> work[r].step,
                        codes |-> [n |-> made.lists + 1, left |-> 1..NCodes]]
          /\ usedSteps' = usedSteps \cup {[secret |-> work[r].secret, step |-> work[r].step]}
          /\ IF work[r].ch = NoToken THEN Done(r) ELSE Then(r)
     ELSE Done(r) /\ UNCHANGED <<factor, usedSteps>>
  /\ UNCHANGED <<challenges, guesses, clock, sessions, usedCodes, compared>>

DeleteMFAChallenge(r) ==
  /\ At(r, "close")
  /\ challenges' = [challenges EXCEPT ![work[r].ch] = NoChallenge]
  /\ Then(r)
  /\ UNCHANGED <<factor, guesses, clock, sessions, made, usedSteps, usedCodes, compared>>

DeleteMFAChallengesForUser(r) ==
  /\ At(r, "drop")
  /\ challenges' = [c \in Challenge |-> NoChallenge]
  /\ Then(r)
  /\ UNCHANGED <<factor, guesses, clock, sessions, made, usedSteps, usedCodes, compared>>

startSession(r) ==
  /\ At(r, "session")
  /\ sessions' = sessions \cup {IF Is(r, {"login"}) THEN "password" ELSE "code"}
  /\ Then(r)
  /\ UNCHANGED <<factor, challenges, guesses, clock, made, usedSteps, usedCodes, compared>>

SignOut(r) ==
  /\ At(r, "signout")
  /\ sessions' = {} /\ Then(r)
  /\ UNCHANGED <<factor, challenges, guesses, clock, made, usedSteps, usedCodes, compared>>

\* Everything the requests share moves on: time steps, challenges that expire,
\* the limiter's window.
ExpireChallenge(c) ==
  /\ challenges[c].live
  /\ challenges' = [challenges EXCEPT ![c].live = FALSE]
  /\ UNCHANGED <<factor, guesses, clock, sessions, made, work, usedSteps, usedCodes, compared>>

NextStep ==
  /\ clock < MaxStep /\ clock' = clock + 1
  /\ UNCHANGED <<factor, challenges, guesses, sessions, made, work, usedSteps, usedCodes, compared>>

NextWindow ==
  /\ guesses > 0 /\ guesses' = 0
  /\ UNCHANGED <<factor, challenges, clock, sessions, made, work, usedSteps, usedCodes, compared>>

MfaNext ==
  \/ \E r \in Requests :
       \/ Arrive(r) \/ mfaEnabled(r) \/ passwordLoginNeedsMFA(r) \/ CreateMFAChallenge(r)
       \/ MFAChallengeAttempt(r) \/ allowCodeGuess(r) \/ checkCode(r) \/ CheckPending(r)
       \/ UseTOTPStep(r) \/ ReadRecoveryCodes(r) \/ SwapRecoveryCodes(r)
       \/ DisableTOTP(r) \/ SetRecoveryCodes(r) \/ SetTOTPPending(r) \/ EnableTOTP(r)
       \/ DeleteMFAChallenge(r) \/ DeleteMFAChallengesForUser(r) \/ startSession(r) \/ SignOut(r)
  \/ \E c \in Challenge : ExpireChallenge(c)
  \/ NextStep \/ NextWindow

MfaSpec == MfaInit /\ [][MfaNext]_mfaVars

Lists == [n : 0..MaxLists, left : SUBSET (1..NCodes)]

\* The account, its challenges and every request keep their types.
MfaTypeOK ==
  /\ factor \in [secret : 0..MaxSecrets, pending : 0..MaxSecrets, last : 0..MaxStep + 1, codes : Lists]
  /\ challenges \in [Challenge -> [kind : {"none", "verify", "setup"}, attempts : 0..MaxAttempts, live : BOOLEAN]]
  /\ guesses \in 0..CodeLimit /\ clock \in 1..MaxStep
  /\ sessions \subseteq {"earlier", "password", "code"}
  /\ made \in [secrets : 0..MaxSecrets, lists : 0..MaxLists]
  /\ work \in [Requests -> [op : Ops, at : Steps, ch : Challenge \cup {NoToken},
                            kind : {"none", "verify", "setup"}, step : 0..MaxStep + 1, code : 0..NCodes,
                            secret : 0..MaxSecrets, list : Lists, tries : 0..SwapTries]]
  /\ usedSteps \subseteq Totp
  /\ usedCodes \subseteq [list : 0..MaxLists, n : 1..NCodes]
  /\ compared \in [Challenge -> Nat]

\* A parallel burst of requests gets no more than mfaMaxAttempts codes compared
\* for one challenge: MFAChallengeAttempt counts an attempt before its code is
\* looked at.
GuessesBounded == \A c \in Challenge : compared[c] <= MaxAttempts

\* The recovery codes that are left are those of the list in force that nobody
\* has used: racing uses neither revive a code nor lose one.
RecoveryListExact ==
  factor.codes.n # 0 =>
    factor.codes.left = {n \in 1..NCodes : [list |-> factor.codes.n, n |-> n] \notin usedCodes}

\* The parts above, of one account's factor, challenges and codes.
SecondFactorInv == MfaTypeOK /\ GuessesBounded /\ RecoveryListExact

\* No code is accepted twice for the secret or list in force, the code that
\* confirmed the secret included, whichever requests race with it.
CodesSpentOnce ==
  [][\A r \in Requests :
       work[r].at \in {"spend", "swap"} /\ work'[r].at \in {"close", "off", "codes"}
         => usedSteps' # usedSteps \/ usedCodes' # usedCodes]_mfaVars
=============================================================================
