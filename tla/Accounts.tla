------------------------------ MODULE Accounts ------------------------------
(* The control plane's accounts (internal/api/users.go, tokens.go, setup.go, *)
(* internal/store/users.go, sessions.go, apitokens.go, internal/auth and     *)
(* cmd/control-plane/oidc_loader.go): rows of users, the sessions and API    *)
(* tokens made for them, single sign-on, first-boot setup, and the OIDC      *)
(* provider that is swapped while requests run.                              *)
(*                                                                           *)
(* A request is one HTTP request; its handler is cut into its database       *)
(* statements, which do not fail unless a UNIQUE index refuses them.         *)
(* Passwords are right, inputs valid.  A session keeps the role it was       *)
(* started with.  rev counts the changes of a row an administrator makes and *)
(* signs the account out for: its role and its password.                     *)
EXTENDS Integers, FiniteSets

CONSTANTS
  Clients,   \* the HTTP requests, each sent once
  Bases,     \* usernames before a suffix
  Subjects,  \* identities at the identity provider
  Nobody,    \* no subject (a local account), no name
  MaxUsers,  \* ids are 1..MaxUsers, and not reused
  MaxRev     \* bound on the changes of a row

ASSUME AccountsConstants ==
  MaxUsers \in Nat /\ MaxUsers >= 2 /\ MaxRev \in Nat /\ Nobody \notin Subjects

Roles == {"admin", "readonly"}
Usernames == [base : Bases, n : 1..MaxUsers + 1]
Gone  == [role |-> "none"]

VARIABLES
  users,     \* rows by id, Gone where there is none
  lastId,    \* the highest id given
  signedIn,  \* the table sessions
  tokens,    \* the table api_tokens
  setup,     \* the stored flag, and the flag in memory that opens the API
  provider,  \* the loader's generation, the one whose provider is live, the one boot retries
  calls,     \* what each request does and has read
  winners,   \* history: requests that completed setup
  excused    \* history: removals of administrators overlapped, SSO took a role away
             \* or setup made no administrator

accVars == <<users, lastId, signedIn, tokens, setup, provider, calls, winners, excused>>

Acts  == {"role", "delete", "password", "create", "login", "sso", "token", "setup", "settings", "command"}
Local(b, role) == [role |-> role, name |-> [base |-> b, n |-> 1], subject |-> Nobody, rev |-> 0]
Quiet == [act |-> "login", at |-> "unsent", id |-> 0, role |-> "readonly", by |-> 0, rev |-> 0,
          sub |-> Nobody, name |-> [base |-> Nobody, n |-> 1], gen |-> 0]

\* First boot, or a control plane with two administrators, one of them at work.
AccInit ==
  /\ \/ /\ users = [i \in 1..MaxUsers |-> Gone] /\ lastId = 0 /\ signedIn = {}
        /\ setup = [stored |-> FALSE, open |-> FALSE]
     \/ \E b \in Bases : \E c \in Bases \ {b} :
          /\ users = [i \in 1..MaxUsers |-> IF i = 1 THEN Local(b, "admin") ELSE IF i = 2 THEN Local(c, "admin") ELSE Gone]
          /\ lastId = 2
          /\ signedIn = {[id |-> 1, role |-> "admin", rev |-> 0, late |-> FALSE, sub |-> Nobody]}
          /\ setup = [stored |-> TRUE, open |-> TRUE]
  /\ tokens = {}
  /\ provider \in {[gen |-> 0, live |-> 0, retry |-> 0], [gen |-> 1, live |-> 0, retry |-> 1]}
  /\ calls = [r \in Clients |-> Quiet] /\ winners = {} /\ excused = FALSE

Here(r, s)  == calls[r].at = s
\* A request that is done forgets its locals.
To(r, s)    == calls' = [calls EXCEPT ![r] = IF s = "done" THEN [Quiet EXCEPT !.at = s] ELSE [@ EXCEPT !.at = s]]
Exists(i)     == i # 0 /\ users[i] # Gone
Accounted     == {i \in 1..MaxUsers : users[i] # Gone}
Admins        == {i \in Accounted : users[i].role = "admin"}
UsersNamed(n) == {i \in Accounted : users[i].name = n}
BySubject(s)  == {i \in Accounted : users[i].subject = s}

\* setupGate keeps the API closed until setup is done; guard (requireSession)
\* lets an administrator's session through.
guard(s) == setup.open /\ s \in signedIn /\ s.role = "admin"

\* A request arrives and passes the gate and the guard of its handler.
Call(r) ==
  /\ Here(r, "unsent")
  /\ \/ \E s \in signedIn, id \in 1..MaxUsers, role \in Roles, a \in {"role", "delete", "password"} :
          /\ guard(s)
          /\ calls' = [calls EXCEPT ![r].act = a, ![r].id = id, ![r].role = role, ![r].by = s.id, ![r].at = "judge"]
     \/ \E s \in signedIn, role \in Roles :
          guard(s) /\ calls' = [calls EXCEPT ![r].act = "token", ![r].by = s.id, ![r].role = role, ![r].at = "mint"]
     \/ \E s \in signedIn, b \in Bases, role \in Roles :
          guard(s) /\ calls' = [calls EXCEPT ![r].act = "create", ![r].name.base = b, ![r].role = role, ![r].at = "taken"]
     \/ \E s \in signedIn : guard(s) /\ calls' = [calls EXCEPT ![r].act = "settings", ![r].at = "begin"]
     \/ /\ setup.open
        /\ \E b \in Bases : calls' = [calls EXCEPT ![r].act = "login", ![r].name.base = b, ![r].at = "password"]
     \/ \E b \in Bases : calls' = [calls EXCEPT ![r].act = "command", ![r].name.base = b, ![r].role = "admin", ![r].at = "look"]
  /\ UNCHANGED <<users, lastId, signedIn, tokens, setup, provider, winners, excused>>

\* The identity provider's claims decide the role (roleFor) and the wanted name.
oidcCallback(r) ==
  /\ Here(r, "unsent") /\ setup.open
  /\ \E s \in Subjects, b \in Bases, role \in Roles :
       calls' = [calls EXCEPT ![r].act = "sso", ![r].sub = s, ![r].name.base = b, ![r].role = role, ![r].at = "subject"]
  /\ UNCHANGED <<users, lastId, signedIn, tokens, setup, provider, winners, excused>>

\* In SSO mode the provider is built before setup is completed.
setupComplete(r) ==
  /\ Here(r, "unsent") /\ ~setup.open
  /\ \E b \in Bases, s \in {"begin", "complete"} :
       calls' = [calls EXCEPT ![r].act = "setup", ![r].name.base = b, ![r].at = s]
  /\ UNCHANGED <<users, lastId, signedIn, tokens, setup, provider, winners, excused>>

Removal(c) == c.act = "delete" \/ (c.act = "role" /\ c.role # "admin")

\* The handlers that change an account read their target first.
setUserRole(r) ==
  /\ Here(r, "judge") /\ calls[r].act = "role"
  /\ LET c == calls[r] IN
       \/ ~Exists(c.id) /\ To(r, "done")
       \/ Exists(c.id) /\ To(r, IF c.id \in Admins /\ Removal(c) THEN "count" ELSE "write")
  /\ UNCHANGED <<users, lastId, signedIn, tokens, setup, provider, winners, excused>>

resetUserPassword(r) ==
  /\ Here(r, "judge") /\ calls[r].act = "password"
  /\ To(r, IF Exists(calls[r].id) /\ users[calls[r].id].subject = Nobody THEN "write" ELSE "done")
  /\ UNCHANGED <<users, lastId, signedIn, tokens, setup, provider, winners, excused>>

\* Nobody removes the account of its own session.
deleteUser(r) ==
  /\ Here(r, "judge") /\ calls[r].act = "delete"
  /\ LET c == calls[r] IN
       \/ (~Exists(c.id) \/ c.by = c.id) /\ To(r, "done")
       \/ Exists(c.id) /\ c.by # c.id /\ To(r, IF c.id \in Admins THEN "count" ELSE "write")
  /\ UNCHANGED <<users, lastId, signedIn, tokens, setup, provider, winners, excused>>

\* lastAdmin counts the administrators before the write.
LastAdmin(r) ==
  /\ Here(r, "count")
  /\ To(r, IF Cardinality(Admins) <= 1 THEN "done" ELSE "write")
  /\ excused' = (excused \/ \E q \in Clients \ {r} : Here(q, "write") /\ Removal(calls[q]))
  /\ UNCHANGED <<users, lastId, signedIn, tokens, setup, provider, winners>>

\* An update of a row that is gone changes nothing.
Update(r, row) ==
  /\ Exists(calls[r].id) => users[calls[r].id].rev < MaxRev
  /\ users' = IF Exists(calls[r].id) THEN [users EXCEPT ![calls[r].id] = row] ELSE users
  /\ To(r, "signout")
  /\ UNCHANGED <<lastId, signedIn, tokens, setup, provider, winners, excused>>

UpdateUserRole(r) ==
  /\ Here(r, "write") /\ calls[r].act = "role"
  /\ LET u == users[calls[r].id] IN Update(r, [u EXCEPT !.role = calls[r].role, !.rev = @ + 1])

UpdateUserPassword(r) ==
  /\ Here(r, "write") /\ calls[r].act = "password"
  /\ LET u == users[calls[r].id] IN Update(r, [u EXCEPT !.rev = @ + 1])

DeleteUser(r) == Here(r, "write") /\ calls[r].act = "delete" /\ Update(r, Gone)

\* Changed: a password reset leaves the sessions.
SignOutUnlessPassword(r) ==
  /\ Here(r, "signout")
  /\ signedIn' = {s \in signedIn : s.id # calls[r].id \/ calls[r].act = "password"}
  /\ To(r, IF calls[r].act = "delete" THEN "revoke" ELSE "done")
  /\ UNCHANGED <<users, lastId, tokens, setup, provider, winners, excused>>

DeleteSessionsForUser(r) ==
  /\ Here(r, "signout")
  /\ signedIn' = {s \in signedIn : s.id # calls[r].id}
  /\ To(r, IF calls[r].act = "delete" THEN "revoke" ELSE "done")
  /\ UNCHANGED <<users, lastId, tokens, setup, provider, winners, excused>>

DeleteAPITokensForUser(r) ==
  /\ Here(r, "revoke")
  /\ tokens' = {t \in tokens : t.id # calls[r].id}
  /\ To(r, "done")
  /\ UNCHANGED <<users, lastId, signedIn, setup, provider, winners, excused>>

\* createAPIToken binds the token to the account guard found.
CreateAPIToken(r) ==
  /\ Here(r, "mint") /\ calls[r].by # 0
  /\ tokens' = tokens \cup {[id |-> calls[r].by, role |-> calls[r].role, late |-> ~Exists(calls[r].by)]}
  /\ To(r, "done")
  /\ UNCHANGED <<users, lastId, signedIn, setup, provider, winners, excused>>

\* A token is revoked and a session is ended, by its owner or its age.
deleteAPIToken(t) ==
  /\ (\E s \in signedIn : guard(s)) /\ tokens' = tokens \ {t}
  /\ UNCHANGED <<users, lastId, signedIn, setup, provider, calls, winners, excused>>

logout(s) ==
  /\ signedIn' = signedIn \ {s}
  /\ UNCHANGED <<users, lastId, tokens, setup, provider, calls, winners, excused>>

\* The name is looked up, then the row inserted; the index on names decides.
createUser(r) ==
  /\ Here(r, "taken")
  /\ To(r, IF UsersNamed(calls[r].name) = {} THEN "insert" ELSE "done")
  /\ UNCHANGED <<users, lastId, signedIn, tokens, setup, provider, winners, excused>>

CreateLocalUser(r) ==
  /\ Here(r, "insert") /\ calls[r].act \in {"create", "command"} /\ lastId < MaxUsers
  /\ LET free == UsersNamed(calls[r].name) = {} IN
       /\ lastId' = IF free THEN lastId + 1 ELSE lastId
       /\ users' = IF ~free THEN users ELSE [users EXCEPT ![lastId + 1] =
            [role |-> calls[r].role, name |-> calls[r].name, subject |-> Nobody, rev |-> 0]]
       /\ To(r, IF free /\ calls[r].act = "command" THEN "flag" ELSE "done")
  /\ UNCHANGED <<signedIn, tokens, setup, provider, winners, excused>>

\* The command reset-admin, a process of its own beside the control plane: an
\* existing account gets the role back, otherwise one is made and setup marked
\* complete.  Nobody is signed out.
resetAdminCmd(r) ==
  /\ calls[r].act = "command"
  /\ \/ /\ Here(r, "look")
        /\ \/ UsersNamed(calls[r].name) = {} /\ To(r, "insert")
           \/ \E i \in UsersNamed(calls[r].name) :
                calls' = [calls EXCEPT ![r].id = i, ![r].at = IF i \in Admins THEN "done" ELSE "promote"]
        /\ UNCHANGED <<users, setup>>
     \/ /\ Here(r, "promote") /\ To(r, "done")
        /\ users' = IF Exists(calls[r].id) THEN [users EXCEPT ![calls[r].id].role = "admin"] ELSE users
        /\ UNCHANGED setup
     \/ Here(r, "flag") /\ setup' = [setup EXCEPT !.stored = TRUE] /\ To(r, "done") /\ UNCHANGED users
  /\ UNCHANGED <<lastId, signedIn, tokens, provider, winners, excused>>

\* The row a sign-in has read: its session gets that row's role.
SignInAs(r, i) == calls' = [calls EXCEPT ![r].id = i, ![r].role = users[i].role, ![r].rev = users[i].rev, ![r].at = "session"]

CheckPassword(r) ==
  /\ Here(r, "password")
  /\ LET found == {i \in UsersNamed(calls[r].name) : users[i].subject = Nobody} IN
       \/ found = {} /\ To(r, "done")
       \/ \E i \in found : SignInAs(r, i)
  /\ UNCHANGED <<users, lastId, signedIn, tokens, setup, provider, winners, excused>>

\* UpsertOIDCUser: a known subject has its role refreshed, a new one gets a row
\* of its own under a free name, which is then read back by that name.
GetOIDCUserBySubject(r) ==
  /\ Here(r, "subject")
  /\ IF BySubject(calls[r].sub) = {} THEN To(r, "name")
     ELSE calls' = [calls EXCEPT ![r].id = CHOOSE i \in BySubject(calls[r].sub) : TRUE, ![r].at = "refresh"]
  /\ UNCHANGED <<users, lastId, signedIn, tokens, setup, provider, winners, excused>>

freeUsername(r) ==
  /\ Here(r, "name")
  /\ \E k \in 1..MaxUsers + 1 :
       /\ UsersNamed([calls[r].name EXCEPT !.n = k]) = {}
       /\ \A j \in 1..k - 1 : UsersNamed([calls[r].name EXCEPT !.n = j]) # {}
       /\ calls' = [calls EXCEPT ![r].name.n = k, ![r].at = "insert"]
  /\ UNCHANGED <<users, lastId, signedIn, tokens, setup, provider, winners, excused>>

UpsertOIDCUser(r) ==
  /\ calls[r].act = "sso"
  /\ LET c == calls[r] IN
     \/ /\ Here(r, "refresh")
        /\ users' = IF users[c.id] = Gone THEN users ELSE [users EXCEPT ![c.id].role = c.role]
        /\ excused' = (excused \/ c.role # "admin")
        /\ To(r, "reread") /\ UNCHANGED lastId
     \/ /\ Here(r, "insert") /\ lastId < MaxUsers
        /\ IF UsersNamed(c.name) = {} /\ BySubject(c.sub) = {}
           THEN /\ lastId' = lastId + 1
                /\ users' = [users EXCEPT ![lastId + 1] =
                     [role |-> c.role, name |-> c.name, subject |-> c.sub, rev |-> 0]]
                /\ calls' = [calls EXCEPT ![r].gen = lastId + 1, ![r].at = "reread"]
           ELSE To(r, "done") /\ UNCHANGED <<users, lastId>>
        /\ UNCHANGED excused
     \/ /\ Here(r, "reread")
        /\ LET found == IF c.id # 0 THEN {c.id} \cap Accounted ELSE UsersNamed(c.name) IN
             \/ found = {} /\ To(r, "done")
             \/ \E i \in found : SignInAs(r, i)
        /\ UNCHANGED <<users, lastId, excused>>
  /\ UNCHANGED <<signedIn, tokens, setup, provider, winners>>

\* late: the row has changed, or is gone, since the sign-in read it.
CreateSession(r) ==
  /\ Here(r, "session")
  /\ LET c == calls[r] IN
       signedIn' = signedIn \cup
         {[id |-> c.id, role |-> c.role, rev |-> c.rev, sub |-> c.sub,
           late |-> users[c.id] = Gone \/ (users[c.id] # Gone /\ users[c.id].rev # c.rev)]}
  /\ To(r, "done")
  /\ UNCHANGED <<users, lastId, tokens, setup, provider, winners, excused>>

\* oidcLoader: Apply, of setup and of changed settings, begins a generation,
\* asks the issuer, and installs the provider if no later one has begun.  An
\* issuer that does not answer ends the request.
LoaderBegin(r) ==
  /\ Here(r, "begin")
  /\ provider' = [provider EXCEPT !.gen = @ + 1]
  /\ calls' = [calls EXCEPT ![r].gen = provider.gen + 1, ![r].at = "discover"]
  /\ UNCHANGED <<users, lastId, signedIn, tokens, setup, winners, excused>>

installIf(gen) == IF gen = provider.gen THEN [provider EXCEPT !.live = gen] ELSE provider

LoaderApply(r) ==
  /\ Here(r, "discover")
  /\ \/ To(r, "done") /\ UNCHANGED provider
     \/ provider' = installIf(calls[r].gen) /\ To(r, IF calls[r].act = "setup" THEN "complete" ELSE "done")
  /\ UNCHANGED <<users, lastId, signedIn, tokens, setup, winners, excused>>

\* Changed: a superseded retry installs its provider too.
RetryAnyway ==
  /\ provider.retry # 0
  /\ provider' = [provider EXCEPT !.retry = 0, !.live = provider.retry]
  /\ UNCHANGED <<users, lastId, signedIn, tokens, setup, calls, winners, excused>>

\* Boot's retry in the background ends when the issuer answers.
LoaderRetry ==
  /\ provider.retry # 0
  /\ provider' = [installIf(provider.retry) EXCEPT !.retry = 0]
  /\ UNCHANGED <<users, lastId, signedIn, tokens, setup, calls, winners, excused>>

\* One transaction: the flag, the first administrator (not in SSO-only mode)
\* if there is no row yet.
CompleteSetup(r) ==
  /\ Here(r, "complete")
  /\ IF setup.stored THEN To(r, "gone") /\ UNCHANGED <<users, lastId, setup, winners, excused>>
     ELSE /\ setup' = [setup EXCEPT !.stored = TRUE]
          /\ winners' = winners \cup {r}
          /\ \/ /\ IF Accounted = {} THEN users' = [users EXCEPT ![1] = Local(calls[r].name.base, "admin")] /\ lastId' = 1
                   ELSE UNCHANGED <<users, lastId>>
                /\ UNCHANGED excused
             \/ calls[r].gen # 0 /\ excused' = TRUE /\ UNCHANGED <<users, lastId>>
          /\ To(r, "open")
  /\ UNCHANGED <<signedIn, tokens, provider>>

\* Winner or not, the API opens; the winner signs in its administrator.
OpenAPI(r) ==
  /\ Here(r, "open") \/ Here(r, "gone")
  /\ setup' = [setup EXCEPT !.open = TRUE]
  /\ To(r, IF Here(r, "open") THEN "password" ELSE "done")
  /\ UNCHANGED <<users, lastId, signedIn, tokens, provider, winners, excused>>

AccNext ==
  \/ LoaderRetry
  \/ \E r \in Clients :
       \/ Call(r) \/ oidcCallback(r) \/ setupComplete(r)
       \/ setUserRole(r) \/ resetUserPassword(r) \/ deleteUser(r) \/ LastAdmin(r)
       \/ UpdateUserRole(r) \/ UpdateUserPassword(r) \/ DeleteUser(r) \/ DeleteSessionsForUser(r)
       \/ DeleteAPITokensForUser(r) \/ CreateAPIToken(r) \/ createUser(r) \/ CreateLocalUser(r)
       \/ resetAdminCmd(r) \/ CheckPassword(r)
       \/ GetOIDCUserBySubject(r) \/ freeUsername(r) \/ UpsertOIDCUser(r) \/ CreateSession(r)
       \/ LoaderBegin(r) \/ LoaderApply(r) \/ CompleteSetup(r) \/ OpenAPI(r)
  \/ \E s \in signedIn : logout(s)
  \/ \E t \in tokens : deleteAPIToken(t)

AccSpec == AccInit /\ [][AccNext]_accVars

Users   == {Gone} \cup [role : Roles, name : Usernames, subject : Subjects \cup {Nobody}, rev : 0..MaxRev]
UserIds == 0..MaxUsers

\* Rows, sessions, tokens and requests keep their types, and the API is open
\* only once setup is stored.
AccTypeOK ==
  /\ users \in [1..MaxUsers -> Users] /\ lastId \in UserIds
  /\ signedIn \subseteq [id : UserIds, role : Roles, rev : 0..MaxRev, late : BOOLEAN, sub : Subjects \cup {Nobody}]
  /\ tokens \subseteq [id : UserIds, role : Roles, late : BOOLEAN]
  /\ setup \in [stored : BOOLEAN, open : BOOLEAN] /\ (setup.open => setup.stored)
  /\ \A i \in 1..MaxUsers : i > lastId => users[i] = Gone
  /\ \A r \in Clients : calls[r].act \in Acts /\ calls[r].id \in UserIds /\ calls[r].role \in Roles /\ calls[r].rev \in 0..MaxRev
  /\ winners \subseteq Clients /\ excused \in BOOLEAN

\* An administrator is changing or removing account i and has not signed it
\* out (revoked its tokens) yet.
Changing(i, steps) == \E r \in Clients : calls[r].id = i /\ calls[r].at \in steps /\ calls[r].act \in {"role", "delete", "password"}

\* No session outlives a change of role, a password reset or the removal of its
\* account, and no API token the removal, except the one a request in flight
\* made from what it had read before the change.
NothingOutlivesAccount ==
  /\ \A s \in signedIn :
       s.late \/ Changing(s.id, {"signout"}) \/ (Exists(s.id) /\ users[s.id].rev = s.rev)
  /\ \A t \in tokens : t.late \/ Exists(t.id) \/ Changing(t.id, {"signout", "revoke"})

\* Setup is completed by one request, whatever runs beside it, and only that
\* one opens a session before anybody has signed in.
SetupOnce ==
  /\ Cardinality(winners) <= 1
  /\ \A r \in Clients : Here(r, "open") => r \in winners

\* The control plane keeps an administrator: removals can take the last one only
\* when they overlap (or SSO says so).
AdminLostOnlyByRace == setup.stored /\ ~excused => Admins # {}

\* An SSO sign-in opens a session of its own subject's account, or of one that
\* took the name of its new account while the sign-in was reading it back.
SsoKeepsToItself ==
  \A r \in Clients :
    Here(r, "session") /\ calls[r].act = "sso" /\ Exists(calls[r].id)
      => \/ users[calls[r].id].subject = calls[r].sub
         \/ calls[r].gen # 0 /\ calls[r].id > calls[r].gen

\* The parts above, of the accounts with their sessions, tokens and setup.
AccountsInv ==
  AccTypeOK /\ NothingOutlivesAccount /\ SetupOnce /\ AdminLostOnlyByRace /\ SsoKeepsToItself

\* The provider of an older generation never replaces a newer one.
NewestProviderStays == [][provider'.live >= provider.live]_accVars
=============================================================================
