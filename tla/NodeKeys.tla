------------------------------ MODULE NodeKeys ------------------------------
(***************************************************************************)
(* Identity and keys of the cluster's resolvers.                           *)
(*                                                                         *)
(* The control plane keeps one row per node: a name, the hash of its       *)
(* current key, the hash of the previous key while a rotation is in its    *)
(* grace window, an approval flag and the time it was last seen.  A        *)
(* resolver (an "agent") persists the id and key it was given, polls with  *)
(* the key, adopts a key the control plane rotated on a poll, and enrolls  *)
(* again with the shared enrollment key when its own is refused.           *)
(*                                                                         *)
(* Handlers of the control plane run concurrently and use no transaction   *)
(* across their queries, so every handler is a sequence of stages, one per *)
(* query, and two handlers interleave between stages.  An agent has one    *)
(* request outstanding; it may stop waiting for it (timeout, crash) while  *)
(* the handler goes on, and the reply is then discarded.                   *)
(*                                                                         *)
(* Time is abstracted to what the comparisons in the code distinguish:     *)
(* whether a key has exceeded keyMaxAge (due), whether the grace deadline  *)
(* lies ahead (grace), and whether the node was last seen at least         *)
(* nodeReclaimAfter ago (stale; a row never polled has last_seen = 0, so   *)
(* it starts stale).  A hash is identified with the key it is the hash of. *)
(***************************************************************************)
EXTENDS Integers, FiniteSets

CONSTANTS
  Agents,          \* resolver processes, each with its own data directory
  NoAgent,         \* holder of a key no agent was given: the operator
  Names, NoName,   \* configured node names, and the name of an absent row
  NameOf,          \* NameOf[a] is the node name agent a is configured with
  MaxIds,          \* bound: node ids allocated in a behaviour
  MaxKeys,         \* bound: node keys generated in a behaviour
  MaxUses,         \* max_uses of the enrollment key, 0 for unlimited
  NameRetries,     \* retries while the name is held by a live node
  RequireApproval, \* whether a self-enrolled node waits for an admin
  Budget           \* bound: how often each disturbance of Events may happen

Events == {"lose", "crash", "wipe", "savefail", "age", "expire", "stale",
           "renew", "approve", "delete", "unrevoke", "endkey"}

ASSUME ConstantsAssumption ==
  /\ NoAgent \notin Agents /\ NoName \notin Names
  /\ NameOf \in [Agents -> Names]
  /\ MaxIds \in Nat /\ MaxKeys \in Nat /\ MaxUses \in Nat /\ NameRetries \in Nat
  /\ RequireApproval \in BOOLEAN
  /\ Budget \in [Events -> Nat]

Ids  == 1 .. MaxIds
Keys == 1 .. MaxKeys
None == 0                       \* the empty id, and the empty key

VARIABLES
  node,      \* node[i] is row i of the nodes table
  born,      \* ids 1..born have been allocated
  issued,    \* keys 1..issued have been generated
  issuedTo,  \* history: the agent and the node a key was generated for
  revoked,   \* ids with a tombstone in revoked_nodes
  uses,      \* use_count of the enrollment key
  ended,     \* the enrollment key is revoked or expired
  renewal,   \* a manual renewal that has read its row and not written it yet
  stage,     \* stage[a] is the next query of the handler serving agent a
  req,       \* req[a] is the request it serves
  seen,      \* seen[a] is the row it read
  reply,     \* reply[a] is the answer it gave
  pc,        \* control state of the agent
  disk,      \* id and key the agent has persisted
  mem,       \* id and key the running agent uses
  tries,     \* name-in-use answers of the enrollment under way
  canRejoin, \* whether the agent still has a reenroll function
  left       \* what is left of Budget

cp    == <<node, born, issued, issuedTo, revoked, uses, ended>>
net   == <<stage, req, seen, reply>>
agent == <<pc, disk, mem, tries, canRejoin>>
vars  == <<cp, renewal, net, agent, left>>

NodeRow  == [base: Names \cup {NoName}, nth: Nat, key: Keys \cup {None}, prev: Keys \cup {None},
             grace: BOOLEAN, due: BOOLEAN, approved: BOOLEAN, stale: BOOLEAN]
Blank    == [base |-> NoName, nth |-> 0, key |-> None, prev |-> None, grace |-> FALSE,
             due |-> FALSE, approved |-> FALSE, stale |-> FALSE]
Identity == [id: Ids \cup {None}, key: Keys \cup {None}]
Nothing  == [id |-> None, key |-> None]
NoReply  == [status |-> "none", id |-> None, key |-> None]

PollStages   == {"auth", "confirm", "rotate", "touch"}
EnrollStages == {"gate", "byId", "byName", "rekey", "consume", "create"}
Stages       == {"none", "reply"} \cup PollStages \cup EnrollStages
Statuses     == {"none", "ok", "unauth", "forbidden", "revoked", "inUse", "error"}
PCs          == {"down", "idle", "polling", "saveKey", "join", "joining",
                 "joinedKey", "joinedId", "halted"}

Waiting(a)  == pc[a] \in {"polling", "joining"}
Launched(a) == mem[a].key # None

Init ==
  /\ node = [i \in Ids |-> Blank]
  /\ born = 0 /\ issued = 0
  /\ issuedTo = [k \in Keys |-> [agent |-> NoAgent, node |-> None]]
  /\ revoked = {} /\ uses = 0 /\ ended = FALSE
  /\ renewal = Nothing
  /\ stage = [a \in Agents |-> "none"]
  /\ req = [a \in Agents |-> [id |-> None, key |-> None, suffix |-> FALSE]]
  /\ seen = [a \in Agents |-> [id |-> None, key |-> None, prev |-> None, due |-> FALSE]]
  /\ reply = [a \in Agents |-> NoReply]
  /\ pc = [a \in Agents |-> "down"]
  /\ disk = [a \in Agents |-> Nothing]
  /\ mem = [a \in Agents |-> Nothing]
  /\ tries = [a \in Agents |-> 0]
  /\ canRejoin = [a \in Agents |-> TRUE]
  /\ left = Budget

Spend(e) == left[e] > 0 /\ left' = [left EXCEPT ![e] = @ - 1]

-----------------------------------------------------------------------------
(* The store's queries.                                                    *)

Present(i)  == i \in Ids /\ node[i].key # None
Rows        == {i \in Ids : Present(i)}
EnrollKeyActive == ~ended /\ (MaxUses = 0 \/ uses < MaxUses)

\* NodeByAnyKeyHash: the current key of a row, or its previous one in grace.
Accepts(i, k) ==
  /\ k # None
  /\ Present(i)
  /\ k = node[i].key \/ (k = node[i].prev /\ node[i].grace)

Named(b, n) == {i \in Rows : node[i].base = b /\ node[i].nth = n}

UniqueNth(b) ==
  CHOOSE n \in 1 .. (MaxIds + 1) :
    Named(b, n) = {} /\ \A m \in 1 .. (n - 1) : Named(b, m) # {}

NewKey == issued + 1

\* A key is generated for agent a and becomes the current key of row i.
IssueKey(a, i, row) ==
  /\ issued < MaxKeys
  /\ issued' = NewKey
  /\ issuedTo' = [issuedTo EXCEPT ![NewKey] = [agent |-> a, node |-> i]]
  /\ node' = [node EXCEPT ![i] = row]

\* Changed: a reclaim leaves the old key valid beside the new one.
ReplaceKeyOverlapping(i) ==
  [node[i] EXCEPT !.key = NewKey, !.prev = node[i].key, !.grace = TRUE, !.due = FALSE]

\* UpdateNodeKey: the new key replaces both keys of the row.
ReplaceKey(i) ==
  [node[i] EXCEPT !.key = NewKey, !.prev = None, !.grace = FALSE, !.due = FALSE]

\* RotateNodeKey: the new key with `prev' accepted beside it while `grace'.
OverlapKey(i, prev, grace) ==
  [node[i] EXCEPT !.key = NewKey, !.prev = prev, !.grace = grace, !.due = FALSE]

-----------------------------------------------------------------------------
(* The control plane's handlers for agents.                                *)

Goto(a, s) == stage' = [stage EXCEPT ![a] = s]

Answer(a, status, id, key) ==
  /\ Goto(a, "reply")
  /\ reply' = [reply EXCEPT ![a] = [status |-> status, id |-> id, key |-> key]]

Refuse(a, status) == Answer(a, status, None, None) /\ UNCHANGED seen

\* clusterSnapshot: authenticate the poll and read the node's row.
Auth(a) ==
  /\ stage[a] = "auth"
  /\ \/ /\ \A i \in Ids : ~Accepts(i, req[a].key)
        /\ Refuse(a, "unauth")
     \/ \E i \in Ids :
          /\ Accepts(i, req[a].key)
          /\ \/ ~node[i].approved /\ Refuse(a, "forbidden")
             \/ /\ node[i].approved
                /\ seen' = [seen EXCEPT ![a] = [id |-> i, key |-> node[i].key,
                                                prev |-> node[i].prev, due |-> node[i].due]]
                /\ Goto(a, IF node[i].key # req[a].key THEN "rotate"
                           ELSE IF node[i].prev # None THEN "confirm"
                           ELSE IF node[i].due THEN "rotate" ELSE "touch")
                /\ reply' = [reply EXCEPT ![a] = [status |-> "ok", id |-> i, key |-> None]]
  /\ UNCHANGED <<cp, renewal, req, agent, left>>

\* maybeRotateNodeKey: the current key is in use, so the previous one retires.
Confirm(a) ==
  /\ stage[a] = "confirm"
  /\ node' = IF Present(seen[a].id)
             THEN [node EXCEPT ![seen[a].id] = [@ EXCEPT !.prev = None, !.grace = FALSE]]
             ELSE node
  /\ Goto(a, IF seen[a].due THEN "rotate" ELSE "touch")
  /\ UNCHANGED <<born, issued, issuedTo, revoked, uses, ended, renewal, req, seen, reply, agent, left>>

\* Changed: a key issued again displaces the grace key the agent still uses.
RotateForgettingGraceKey(a) ==
  /\ stage[a] = "rotate"
  /\ Goto(a, "touch")
  /\ Present(seen[a].id)
  /\ IssueKey(a, seen[a].id, OverlapKey(seen[a].id, seen[a].key, TRUE))
  /\ reply' = [reply EXCEPT ![a].key = NewKey]
  /\ UNCHANGED <<born, revoked, uses, ended, renewal, req, seen, agent, left>>

\* maybeRotateNodeKey: rotate a key that is due, keeping it for the grace
\* window; or, polled with the grace key, issue again under the deadline read
\* with the row, which still lies ahead unless the window closed meanwhile.  The
\* row may have lost that window since; then it closes unseen.
Rotate(a) ==
  /\ stage[a] = "rotate"
  /\ Goto(a, "touch")
  /\ LET i == seen[a].id
         viaCurrent == seen[a].key = req[a].key
         unchanged  == node[i].prev = seen[a].prev
     IN  \/ /\ Present(i)
            /\ \/ /\ IssueKey(a, i, OverlapKey(i, req[a].key, viaCurrent \/ ~unchanged \/ node[i].grace))
                  /\ UNCHANGED left
               \/ /\ ~viaCurrent /\ ~unchanged /\ Spend("expire")
                  /\ IssueKey(a, i, OverlapKey(i, req[a].key, FALSE))
            /\ reply' = [reply EXCEPT ![a].key = NewKey]
         \/ /\ ~Present(i)
            /\ UNCHANGED <<node, issued, issuedTo, reply, left>>
  /\ UNCHANGED <<born, revoked, uses, ended, renewal, req, seen, agent>>

\* TouchNode, and the snapshot is sent.
Touch(a) ==
  /\ stage[a] = "touch"
  /\ Goto(a, "reply")
  /\ node' = IF Present(seen[a].id) THEN [node EXCEPT ![seen[a].id] = [@ EXCEPT !.stale = FALSE]] ELSE node
  /\ UNCHANGED <<born, issued, issuedTo, revoked, uses, ended, renewal, req, seen, reply, agent, left>>

\* clusterEnroll: the revocation gate, for the presented id only.
Gate(a) ==
  /\ stage[a] = "gate"
  /\ \/ req[a].id \in revoked /\ Refuse(a, "revoked")
     \/ /\ req[a].id \notin revoked
        /\ Goto(a, IF req[a].id = None THEN "byName" ELSE "byId")
        /\ UNCHANGED <<seen, reply>>
  /\ UNCHANGED <<cp, renewal, req, agent, left>>

\* clusterEnroll: an existing id needs a valid enrollment key and its own key.
ById(a) ==
  /\ stage[a] = "byId"
  /\ LET i == req[a].id IN
       \/ ~Present(i) /\ Goto(a, "byName") /\ UNCHANGED <<seen, reply>>
       \/ Present(i) /\ ~EnrollKeyActive /\ Refuse(a, "unauth")
       \/ /\ Present(i) /\ EnrollKeyActive
          /\ IF req[a].key = node[i].key
             THEN seen' = [seen EXCEPT ![a].id = i] /\ Goto(a, "rekey") /\ UNCHANGED reply
             ELSE Refuse(a, "forbidden")
  /\ UNCHANGED <<cp, renewal, req, agent, left>>

\* clusterEnroll: a node of that name exists; an offline one is reclaimed.
ByName(a) ==
  /\ stage[a] = "byName"
  /\ LET same == Named(NameOf[a], 1) IN
       \/ same = {} /\ Goto(a, "consume") /\ UNCHANGED <<seen, reply>>
       \/ same # {} /\ ~EnrollKeyActive /\ Refuse(a, "unauth")
       \/ \E i \in same :
            /\ EnrollKeyActive
            /\ \/ /\ node[i].stale
                  /\ seen' = [seen EXCEPT ![a].id = i]
                  /\ Goto(a, "rekey")
                  /\ UNCHANGED reply
               \/ ~node[i].stale /\ ~req[a].suffix /\ Refuse(a, "inUse")
               \/ /\ ~node[i].stale /\ req[a].suffix
                  /\ Goto(a, "consume")
                  /\ UNCHANGED <<seen, reply>>
  /\ UNCHANGED <<cp, renewal, req, agent, left>>

\* RotateNodeKeyByID, for the owner of the id or for a reclaim by name.
Rekey(a) ==
  /\ stage[a] = "rekey"
  /\ LET i == seen[a].id IN
       \/ /\ Present(i)
          /\ IssueKey(a, i, ReplaceKey(i))
          /\ Answer(a, "ok", i, NewKey)
       \/ /\ ~Present(i)
          /\ Answer(a, "error", None, None)
          /\ UNCHANGED <<node, issued, issuedTo>>
  /\ UNCHANGED <<born, revoked, uses, ended, renewal, req, seen, agent, left>>

\* ConsumeEnrollKey checks and counts in one statement.
Consume(a) ==
  /\ stage[a] = "consume"
  /\ \/ /\ EnrollKeyActive
        /\ uses' = uses + 1
        /\ Goto(a, "create")
        /\ UNCHANGED <<seen, reply>>
     \/ ~EnrollKeyActive /\ Refuse(a, "unauth") /\ UNCHANGED uses
  /\ UNCHANGED <<node, born, issued, issuedTo, revoked, ended, renewal, req, agent, left>>

\* CreateNodeWithID under a fresh id and a name no other row has.
Create(a) ==
  /\ stage[a] = "create"
  /\ born < MaxIds
  /\ born' = born + 1
  /\ IssueKey(a, born + 1,
       [base |-> NameOf[a], nth |-> UniqueNth(NameOf[a]), key |-> NewKey, prev |-> None,
        grace |-> FALSE, due |-> FALSE, approved |-> ~RequireApproval, stale |-> TRUE])
  /\ Answer(a, "ok", born + 1, NewKey)
  /\ UNCHANGED <<revoked, uses, ended, renewal, req, seen, agent, left>>

\* Nobody waits for the exchange any more: an answer, or a request the
\* control plane never received, disappears.
Discard(a) ==
  /\ ~Waiting(a)
  /\ stage[a] \in {"auth", "gate", "reply"}
  /\ Goto(a, "none")
  /\ UNCHANGED <<cp, renewal, req, seen, reply, agent, left>>

Handler(a) ==
  \/ Auth(a) \/ Confirm(a) \/ Rotate(a) \/ Touch(a)
  \/ Gate(a) \/ ById(a) \/ ByName(a) \/ Rekey(a) \/ Consume(a) \/ Create(a)

-----------------------------------------------------------------------------
(* The agent.                                                              *)

Become(a, p) == pc' = [pc EXCEPT ![a] = p]

\* A request goes out; the agent waits for its reply.
Send(a, s) == Goto(a, s) /\ reply' = [reply EXCEPT ![a] = NoReply]

\* startAgent: launch with the persisted key, or enroll in the background.
Boot(a) ==
  /\ pc[a] = "down"
  /\ mem' = [mem EXCEPT ![a] = IF disk[a].key # None THEN disk[a] ELSE Nothing]
  /\ Become(a, IF disk[a].key # None THEN "idle" ELSE "join")
  /\ canRejoin' = [canRejoin EXCEPT ![a] = TRUE]
  /\ UNCHANGED <<cp, renewal, net, disk, tries, left>>

\* fetch: GET /api/cluster/snapshot with the key in memory.
Poll(a) ==
  /\ pc[a] = "idle" /\ stage[a] = "none"
  /\ req' = [req EXCEPT ![a] = [id |-> None, key |-> mem[a].key, suffix |-> FALSE]]
  /\ Send(a, "auth")
  /\ Become(a, "polling")
  /\ UNCHANGED <<cp, renewal, seen, disk, mem, tries, canRejoin, left>>

\* Changed: an agent whose key is refused goes on polling with it.
PollReplyNeverRejoining(a) ==
  /\ pc[a] = "polling" /\ stage[a] = "reply"
  /\ Goto(a, "none") /\ Become(a, "idle")
  /\ UNCHANGED <<cp, renewal, req, seen, reply, disk, mem, tries, canRejoin, left>>

\* syncOnce and fetch: a refused key leads to a new enrollment; a snapshot
\* teaches an agent without one its id, and a rotated key is used at once.
PollReply(a) ==
  /\ pc[a] = "polling" /\ stage[a] = "reply"
  /\ Goto(a, "none")
  /\ LET r == reply[a]
         learns == r.status = "ok" /\ mem[a].id = None
         adopts == r.status = "ok" /\ r.key # None
     IN  /\ disk' = [disk EXCEPT ![a].id = IF learns THEN r.id ELSE @]
         /\ mem' = [mem EXCEPT ![a] = [id  |-> IF learns THEN r.id ELSE @.id,
                                       key |-> IF adopts THEN r.key ELSE @.key]]
         /\ Become(a, IF adopts THEN "saveKey"
                      ELSE IF r.status = "unauth" /\ canRejoin[a] THEN "join" ELSE "idle")
  /\ UNCHANGED <<cp, renewal, req, seen, reply, tries, canRejoin, left>>

\* A write to the agent's meta table; its error is ignored.
Save(a, identity) ==
  \/ disk' = [disk EXCEPT ![a] = identity] /\ UNCHANGED left
  \/ Spend("savefail") /\ UNCHANGED disk

\* saveNodeKey after the rotated key was adopted in memory.
SaveKey(a) ==
  /\ pc[a] = "saveKey"
  /\ Save(a, [disk[a] EXCEPT !.key = mem[a].key])
  /\ Become(a, "idle")
  /\ UNCHANGED <<cp, renewal, net, mem, tries, canRejoin>>

\* reenroll: POST /api/cluster/enroll with the persisted identity.
Enroll(a) ==
  /\ pc[a] = "join" /\ stage[a] = "none"
  /\ req' = [req EXCEPT ![a] = [id |-> disk[a].id, key |-> disk[a].key,
                                suffix |-> tries[a] = NameRetries]]
  /\ Send(a, "gate")
  /\ Become(a, "joining")
  /\ UNCHANGED <<cp, renewal, seen, disk, mem, tries, canRejoin, left>>

\* Where an enrollment that failed leaves the agent: back in its poll loop, or
\* retrying the first enrollment.
AfterFailedJoin(a) == IF Launched(a) THEN "idle" ELSE "join"

EnrollReply(a) ==
  /\ pc[a] = "joining" /\ stage[a] = "reply"
  /\ Goto(a, "none")
  /\ LET s == reply[a].status IN
       /\ tries' = [tries EXCEPT ![a] = IF s = "inUse" THEN @ + 1 ELSE 0]
       /\ canRejoin' = [canRejoin EXCEPT ![a] = @ /\ s # "revoked"]
       /\ Become(a, IF s = "ok" THEN "joinedKey"
                    ELSE IF s = "inUse" THEN "join"
                    ELSE IF s = "revoked" /\ ~Launched(a) THEN "halted"
                    ELSE AfterFailedJoin(a))
  /\ UNCHANGED <<cp, renewal, req, seen, reply, disk, mem, left>>

\* reenroll persists the key, then the id; then the new key is used.
JoinSaveKey(a) ==
  /\ pc[a] = "joinedKey"
  /\ Save(a, [disk[a] EXCEPT !.key = reply[a].key])
  /\ Become(a, "joinedId")
  /\ UNCHANGED <<cp, renewal, net, mem, tries, canRejoin>>

JoinSaveId(a) ==
  /\ pc[a] = "joinedId"
  /\ Save(a, [disk[a] EXCEPT !.id = reply[a].id])
  /\ mem' = [mem EXCEPT ![a] = [id  |-> IF Launched(a) THEN @.id ELSE disk'[a].id,
                                key |-> reply[a].key]]
  /\ Become(a, "idle")
  /\ UNCHANGED <<cp, renewal, net, tries, canRejoin>>

\* The HTTP client times out, or the exchange fails.
GiveUp(a) ==
  /\ Waiting(a)
  /\ Spend("lose")
  /\ Become(a, IF pc[a] = "polling" THEN "idle" ELSE AfterFailedJoin(a))
  /\ tries' = [tries EXCEPT ![a] = 0]
  /\ UNCHANGED <<cp, renewal, net, disk, mem, canRejoin>>

Crash(a) ==
  /\ pc[a] # "down"
  /\ Spend("crash")
  /\ Become(a, "down")
  /\ mem' = [mem EXCEPT ![a] = Nothing]
  /\ tries' = [tries EXCEPT ![a] = 0]
  /\ UNCHANGED <<cp, renewal, net, disk, canRejoin>>

\* The image is updated without its volume, or the host is rebuilt.
WipeDisk(a) ==
  /\ pc[a] = "down"
  /\ Spend("wipe")
  /\ disk' = [disk EXCEPT ![a] = Nothing]
  /\ UNCHANGED <<cp, renewal, net, pc, mem, tries, canRejoin>>

AgentStep(a) ==
  \/ Boot(a) \/ Poll(a) \/ PollReply(a) \/ SaveKey(a)
  \/ Enroll(a) \/ EnrollReply(a) \/ JoinSaveKey(a) \/ JoinSaveId(a)

-----------------------------------------------------------------------------
(* Administrators and the clock.                                           *)

OnlyNode(row, i) ==
  /\ node' = [node EXCEPT ![i] = row]
  /\ UNCHANGED <<born, issued, issuedTo, revoked, uses, ended, renewal, net, agent>>

SetApproved(i) ==
  /\ Present(i) /\ Spend("approve")
  /\ OnlyNode([node[i] EXCEPT !.approved = ~@], i)

\* DeleteNode writes the tombstone in the same transaction.
DeleteNode(i, revoke) ==
  /\ i <= born /\ Spend("delete")
  /\ node' = [node EXCEPT ![i] = Blank]
  /\ revoked' = IF revoke THEN revoked \cup {i} ELSE revoked
  /\ UNCHANGED <<born, issued, issuedTo, uses, ended, renewal, net, agent>>

UnrevokeNode(i) ==
  /\ i \in revoked /\ Spend("unrevoke")
  /\ revoked' = revoked \ {i}
  /\ UNCHANGED <<node, born, issued, issuedTo, uses, ended, renewal, net, agent>>

\* renewNodeKey reads the row, and rotates with the key it read as grace key;
\* the new key is shown to the operator.
RenewRead(i) ==
  /\ renewal = Nothing /\ Present(i) /\ Spend("renew")
  /\ renewal' = [id |-> i, key |-> node[i].key]
  /\ UNCHANGED <<cp, net, agent>>

RenewWrite ==
  /\ renewal # Nothing
  /\ renewal' = Nothing
  /\ \/ /\ Present(renewal.id)
        /\ IssueKey(NoAgent, renewal.id, OverlapKey(renewal.id, renewal.key, TRUE))
     \/ ~Present(renewal.id) /\ UNCHANGED <<node, issued, issuedTo>>
  /\ UNCHANGED <<born, revoked, uses, ended, net, agent, left>>

EndEnrollKey ==
  /\ ~ended /\ Spend("endkey")
  /\ ended' = TRUE
  /\ UNCHANGED <<node, born, issued, issuedTo, revoked, uses, renewal, net, agent>>

KeyAges(i) ==
  /\ Present(i) /\ ~node[i].due /\ Spend("age")
  /\ OnlyNode([node[i] EXCEPT !.due = TRUE], i)

GraceEnds(i) ==
  /\ Present(i) /\ node[i].grace /\ Spend("expire")
  /\ OnlyNode([node[i] EXCEPT !.grace = FALSE], i)

GoesStale(i) ==
  /\ Present(i) /\ ~node[i].stale /\ Spend("stale")
  /\ OnlyNode([node[i] EXCEPT !.stale = TRUE], i)

Environment ==
  \/ RenewWrite \/ EndEnrollKey
  \/ \E i \in Ids :
       \/ SetApproved(i) \/ UnrevokeNode(i) \/ RenewRead(i)
       \/ KeyAges(i) \/ GraceEnds(i) \/ GoesStale(i)
       \/ \E revoke \in BOOLEAN : DeleteNode(i, revoke)

Next ==
  \/ Environment
  \/ \E a \in Agents :
       \/ Handler(a) \/ Discard(a) \/ AgentStep(a)
       \/ GiveUp(a) \/ Crash(a) \/ WipeDisk(a)

Spec == Init /\ [][Next]_vars

FairSpec ==
  /\ Spec
  /\ \A a \in Agents :
       /\ WF_vars(AgentStep(a)) /\ WF_vars(Handler(a)) /\ WF_vars(Discard(a))
       /\ WF_vars(RenewWrite)

-----------------------------------------------------------------------------
(* Properties.                                                             *)

StoreTypeOK ==
  /\ node \in [Ids -> NodeRow]
  /\ born \in 0 .. MaxIds /\ issued \in 0 .. MaxKeys
  /\ issuedTo \in [Keys -> [agent: Agents \cup {NoAgent}, node: Ids \cup {None}]]
  /\ revoked \subseteq Ids /\ uses \in Nat /\ ended \in BOOLEAN
  /\ renewal \in Identity
NetTypeOK ==
  /\ stage \in [Agents -> Stages]
  /\ req \in [Agents -> [id: Ids \cup {None}, key: Keys \cup {None}, suffix: BOOLEAN]]
  /\ seen \in [Agents -> [id: Ids \cup {None}, key: Keys \cup {None},
                         prev: Keys \cup {None}, due: BOOLEAN]]
  /\ reply \in [Agents -> [status: Statuses, id: Ids \cup {None}, key: Keys \cup {None}]]
AgentTypeOK ==
  /\ pc \in [Agents -> PCs]
  /\ disk \in [Agents -> Identity] /\ mem \in [Agents -> Identity]
  /\ tries \in [Agents -> 0 .. NameRetries] /\ canRejoin \in [Agents -> BOOLEAN]
  /\ left \in [Events -> Nat]

\* Every variable has its type; in particular an enrollment sees no more
\* name-in-use answers than the retries the agent allows itself.
TypeOK == StoreTypeOK /\ NetTypeOK /\ AgentTypeOK

\* Agent a would be authenticated as node i, now or after a restart.
CanActAs(a, i) == Accepts(i, mem[a].key) \/ Accepts(i, disk[a].key)

\* NodeByAnyKeyHash names at most one node, whichever keys rotations, renewals
\* and reclaims have left in the current and grace columns.
KeyNamesOneNode ==
  \A i, j \in Ids : \A k \in Keys : Accepts(i, k) /\ Accepts(j, k) => i = j

\* A displaced agent fails authentication instead of splitting the identity:
\* two agents are never both accepted as one node, although a reclaim, a
\* rotation and a renewal of the row interleave and a grace key overlaps.
OneAgentPerNode ==
  \A i \in Ids : \A a, b \in Agents : CanActAs(a, i) /\ CanActAs(b, i) => a = b

HeldBy(a) == {mem[a].key, disk[a].key, req[a].key, reply[a].key} \ {None}
RowKeys(i) == {node[i].key, node[i].prev} \ {None}

\* A key an agent holds, sends or is being sent was generated for that agent.
HeldInv == \A a \in Agents : \A k \in HeldBy(a) : k <= issued /\ issuedTo[k].agent = a

\* A key in a row was generated for that row ...
RowInv == \A i \in Ids : \A k \in RowKeys(i) : k <= issued /\ issuedTo[k].node = i

\* ... and the two keys of a row never belong to two agents.
OwnerInv ==
  \A i \in Ids : \A k, l \in RowKeys(i) :
    {issuedTo[k].agent, issuedTo[l].agent} \subseteq Agents => issuedTo[k].agent = issuedTo[l].agent

\* A renewal, and a poll past its authentication, hold a key of their row.
RenewalInv == renewal.key # None => renewal.key <= issued /\ issuedTo[renewal.key].node = renewal.id
StageInv ==
  \A a \in Agents : stage[a] \in {"confirm", "rotate"} =>
    req[a].key # None /\ issuedTo[req[a].key].node = seen[a].id

\* What the two properties above rest on.
KeyInv == HeldInv /\ RowInv /\ OwnerInv /\ RenewalInv /\ StageInv

\* Agent a has an accepted key of node i, or is being given one.
HasAccess(a, i) ==
  CanActAs(a, i) \/ (pc[a] \notin {"down", "idle"} /\ Accepts(i, reply[a].key))

\* Key rotation never locks an agent out: as long as the row of its persisted
\* id exists, a key it holds or is about to receive is accepted.
NoLockout ==
  \A a \in Agents : Present(disk[a].id) => HasAccess(a, disk[a].id)

\* Row i is agent a's: its current key was generated for a, and no other agent
\* was ever given a key of it.
BelongsTo(a, i) ==
  /\ Present(i) /\ issuedTo[node[i].key].agent = a
  /\ \A k \in Keys : k <= issued /\ issuedTo[k].node = i => issuedTo[k].agent \in {a, NoAgent}

\* ... and whatever rotations, reclaims, removals, lost replies, crashes and lost
\* disks do, an agent keeps access to its row while no grace window closes and no
\* save of an agent fails.  A row stops being the agent's when an operator renews
\* its key, until the agent is issued another, or when a host of the same name
\* reclaims it.
Happened(e) == left[e] < Budget[e]
RotationKeepsAccess ==
  \/ Happened("expire") \/ Happened("savefail")
  \/ \A a \in Agents : BelongsTo(a, disk[a].id) => HasAccess(a, disk[a].id)

\* The ownership proof of a re-enrollment: an agent that got past the gate
\* because its key was refused never holds the current key of its old row.
ProofNeverHolds ==
  \A a \in Agents :
    stage[a] = "byId" /\ Present(req[a].id) => req[a].key # node[req[a].id].key

\* The two properties above: an agent keeps access to the row that is its own, and
\* one that was refused does not hold the current key of its row.
KeysSafe == RotationKeepsAccess /\ ProofNeverHolds

Authenticated(a) == \E i \in Ids : Accepts(i, mem[a].key)

\* Whatever was lost, crashed or deleted, an agent that was not revoked and
\* whose saves succeeded ends up authenticated.
EventuallyAuthenticated ==
  \A a \in Agents :
    <>[](Authenticated(a) \/ ~canRejoin[a] \/ pc[a] = "halted" \/ Happened("savefail"))

=============================================================================
