--------------------------- MODULE NodeKeysProofs ---------------------------
(* Proofs about NodeKeys for every value of its constants.                   *)
EXTENDS NodeKeys, FiniteSetTheorems, WellFoundedInduction, TLAPS

LEMMA KeyFacts ==
  /\ None \in Nat /\ Keys \subseteq Nat /\ Ids \subseteq Nat
  /\ None \notin Keys /\ None \notin Ids
BY ConstantsAssumption DEF None, Keys, Ids

LEMMA NewKeyType == ASSUME StoreTypeOK, issued < MaxKeys PROVE NewKey \in Keys
BY ConstantsAssumption DEF StoreTypeOK, NewKey, Keys

\* What the environment and the handlers may put into a row.
LEMMA RowTypes ==
  ASSUME StoreTypeOK, NEW i \in Ids, NEW p \in Keys \cup {None}, NEW g \in BOOLEAN, issued < MaxKeys
  PROVE  /\ NewKey \in Keys
         /\ ReplaceKey(i) \in NodeRow
         /\ OverlapKey(i, p, g) \in NodeRow
<1>1. NewKey \in Keys
  BY ConstantsAssumption DEF StoreTypeOK, NewKey, Keys
<1>2. node[i] \in NodeRow /\ None \in Keys \cup {None}
  BY DEF StoreTypeOK
<1> QED
  BY <1>1, <1>2 DEF ReplaceKey, OverlapKey, NodeRow

\* Fewer rows than candidates: uniqueNodeName finds a free name.
LEMMA UniqueNthType == ASSUME NEW b PROVE UniqueNth(b) \in Nat
<1> DEFINE N == 1 .. (MaxIds + 1)
           Free == {n \in N : Named(b, n) = {}}
<1>1. Free # {}
  <2> SUFFICES ASSUME Free = {} PROVE FALSE
    OBVIOUS
  <2> DEFINE f == [n \in N |-> CHOOSE i \in Named(b, n) : TRUE]
  <2>1. \A n \in N : f[n] \in Named(b, n)
    OBVIOUS
  <2>2. f \in [N -> Ids]
    BY <2>1 DEF Named, Rows
  <2>3. /\ IsFiniteSet(N) /\ IsFiniteSet(Ids)
        /\ Cardinality(Ids) < Cardinality(N)
    BY FS_Interval, ConstantsAssumption DEF Ids
  <2>4. PICK m, n \in N : m # n /\ f[m] = f[n]
    <3> HIDE DEF f, N
    <3> QED BY <2>2, <2>3, FS_PigeonHole
  <2>5. node[f[m]].nth = m /\ node[f[n]].nth = n
    BY <2>1 DEF Named
  <2> QED BY <2>4, <2>5
<1>2. \E n \in Free : \A m \in Free : ~(m < n)
  <2> DEFINE R == {p \in Nat \X Nat : p[1] < p[2]}
  <2>1. Free \subseteq Nat
    BY ConstantsAssumption
  <2>2. IsWellFoundedOn(R, Nat)
    BY NatLessThanWellFounded DEF OpToRel
  <2>3. PICK n \in Free : \A m \in Free : <<m, n>> \notin R
    <3> HIDE DEF R, Free
    <3> QED BY <1>1, <2>1, <2>2, WFMin
  <2>4. \A m \in Free : ~(m < n)
    BY <2>1, <2>3
  <2> QED BY <2>4
<1>3. PICK n \in Free : \A m \in Free : ~(m < n)
  BY <1>2
<1>4. \A m \in 1 .. (n - 1) : Named(b, m) # {}
  BY <1>3, ConstantsAssumption
<1>5. \E x \in N : Named(b, x) = {} /\ \A m \in 1 .. (x - 1) : Named(b, m) # {}
  BY <1>3, <1>4
<1>6. UniqueNth(b) \in N
  BY <1>5 DEF UniqueNth
<1> QED BY <1>6, ConstantsAssumption

-----------------------------------------------------------------------------
LEMMA InitTypeOK == Init => TypeOK
<1> SUFFICES ASSUME Init PROVE TypeOK
  OBVIOUS
<1>1. StoreTypeOK
  <2>1. Blank \in NodeRow /\ Nothing \in Identity
    BY KeyFacts DEF Blank, NodeRow, Nothing, Identity
  <2>2. node \in [Ids -> NodeRow]
    BY <2>1 DEF Init
  <2>3. born \in 0 .. MaxIds /\ issued \in 0 .. MaxKeys /\ uses \in Nat
    BY ConstantsAssumption DEF Init
  <2>4. issuedTo \in [Keys -> [agent: Agents \cup {NoAgent}, node: Ids \cup {None}]]
    BY DEF Init
  <2> QED
    BY <2>1, <2>2, <2>3, <2>4 DEF Init, StoreTypeOK
<1>2. NetTypeOK
  BY KeyFacts DEF Init, NetTypeOK, NoReply, Stages, Statuses
<1>3. AgentTypeOK
  BY ConstantsAssumption, KeyFacts DEF Init, AgentTypeOK, Nothing, Identity, PCs
<1> QED BY <1>1, <1>2, <1>3 DEF TypeOK

\* The ways a stage of a handler ends keep the types of the exchange.
LEMMA AnswerType ==
  ASSUME NetTypeOK, NEW a \in Agents, NEW s \in Statuses, NEW i \in Ids \cup {None},
         NEW k \in Keys \cup {None}, Answer(a, s, i, k), UNCHANGED <<req, seen>>
  PROVE  NetTypeOK'
BY DEF NetTypeOK, Answer, Goto, Stages

LEMMA RefuseType ==
  ASSUME NetTypeOK, NEW a \in Agents, NEW s \in Statuses, Refuse(a, s), UNCHANGED req
  PROVE  NetTypeOK'
BY AnswerType DEF Refuse

LEMMA GotoType ==
  ASSUME NetTypeOK, NEW a \in Agents, NEW s \in Stages, Goto(a, s), UNCHANGED <<req, seen, reply>>
  PROVE  NetTypeOK'
BY DEF NetTypeOK, Goto

\* A handler that goes on with a row, or with a key for its reply.
LEMMA SeenType ==
  ASSUME NetTypeOK, NEW a \in Agents, NEW s \in Stages, NEW i \in Ids \cup {None}, Goto(a, s),
         seen' = [seen EXCEPT ![a].id = i], UNCHANGED <<req, reply>>
  PROVE  NetTypeOK'
<1>1. seen' \in [Agents -> [id: Ids \cup {None}, key: Keys \cup {None},
                            prev: Keys \cup {None}, due: BOOLEAN]]
  <2> DEFINE Row == [id: Ids \cup {None}, key: Keys \cup {None}, prev: Keys \cup {None}, due: BOOLEAN]
             row == [seen[a] EXCEPT !.id = i]
  <2>1. seen \in [Agents -> Row]
    BY DEF NetTypeOK
  <2>2. row \in Row
    BY <2>1
  <2>3. seen' = [seen EXCEPT ![a] = row]
    OBVIOUS
  <2> HIDE DEF Row, row
  <2>4. seen' \in [Agents -> Row]
    BY <2>1, <2>2, <2>3
  <2> QED BY <2>4 DEF Row
<1>2. stage' \in [Agents -> Stages]
  BY DEF NetTypeOK, Goto
<1> QED BY <1>1, <1>2 DEF NetTypeOK

LEMMA ReplyKeyType ==
  ASSUME NetTypeOK, NEW a \in Agents, NEW s \in Stages, NEW k \in Keys, Goto(a, s),
         reply' = [reply EXCEPT ![a].key = k], UNCHANGED <<req, seen>>
  PROVE  NetTypeOK'
<1>1. reply' \in [Agents -> [status: Statuses, id: Ids \cup {None}, key: Keys \cup {None}]]
  BY DEF NetTypeOK
<1>2. stage' \in [Agents -> Stages]
  BY DEF NetTypeOK, Goto
<1> QED BY <1>1, <1>2 DEF NetTypeOK

LEMMA IssueKeyType ==
  ASSUME StoreTypeOK, NEW a \in Agents \cup {NoAgent}, NEW i \in Ids, NEW row \in NodeRow,
         IssueKey(a, i, row)
  PROVE  /\ node' \in [Ids -> NodeRow] /\ issued' \in 0 .. MaxKeys
         /\ issuedTo' \in [Keys -> [agent: Agents \cup {NoAgent}, node: Ids \cup {None}]]
<1>1. NewKey \in 0 .. MaxKeys
  BY ConstantsAssumption DEF StoreTypeOK, IssueKey, NewKey
<1> QED
  BY <1>1 DEF StoreTypeOK, IssueKey

\* A disturbance is taken out of a budget of naturals.
LEMMA SpendType ==
  ASSUME left \in [Events -> Nat], NEW e \in Events, Spend(e)
  PROVE  left' \in [Events -> Nat]
<1>1. left[e] \in Nat /\ left[e] > 0 /\ left' = [left EXCEPT ![e] = left[e] - 1]
  BY DEF Spend
<1>2. left[e] - 1 \in Nat
  BY <1>1
<1> QED BY <1>1, <1>2

LEMMA HandlerTypeOK == ASSUME TypeOK, NEW a \in Agents, Handler(a) PROVE TypeOK'
<1>1. AgentTypeOK'
  <2>1. UNCHANGED agent /\ (UNCHANGED left \/ Spend("expire"))
    BY DEF Handler, Auth, Confirm, Rotate, Touch, Gate, ById, ByName, Rekey, Consume, Create
  <2>2. left' \in [Events -> Nat]
    BY <2>1, SpendType DEF Events, TypeOK, AgentTypeOK
  <2> QED BY <2>1, <2>2 DEF TypeOK, AgentTypeOK, agent
<1>2. CASE Auth(a)
  <2>1. StoreTypeOK'
    BY <1>2 DEF Auth, cp, TypeOK, StoreTypeOK
  <2>2. NetTypeOK'
    <3>1. CASE Refuse(a, "unauth") \/ Refuse(a, "forbidden")
      BY <1>2, <3>1, RefuseType DEF Auth, TypeOK, Statuses
    <3>2. CASE ~(Refuse(a, "unauth") \/ Refuse(a, "forbidden"))
      <4>1. PICK i \in Ids :
              /\ seen' = [seen EXCEPT ![a] = [id |-> i, key |-> node[i].key,
                                             prev |-> node[i].prev, due |-> node[i].due]]
              /\ Goto(a, IF node[i].key # req[a].key THEN "rotate"
                         ELSE IF node[i].prev # None THEN "confirm"
                         ELSE IF node[i].due THEN "rotate" ELSE "touch")
              /\ reply' = [reply EXCEPT ![a] = [status |-> "ok", id |-> i, key |-> None]]
        BY <1>2, <3>2 DEF Auth
      <4>2. node[i] \in NodeRow
        BY DEF TypeOK, StoreTypeOK
      <4> QED
        BY <1>2, <4>1, <4>2 DEF Auth, Goto, TypeOK, NetTypeOK, NodeRow, Stages, PollStages, Statuses
    <3> QED BY <3>1, <3>2
  <2> QED BY <1>1, <2>1, <2>2 DEF TypeOK
<1>3. CASE Confirm(a)
  <2>1. node' \in [Ids -> NodeRow]
    <3> DEFINE i == seen[a].id
               row == [node[i] EXCEPT !.prev = None, !.grace = FALSE]
    <3>0. Present(i) => i \in Ids /\ node[i] \in NodeRow
      BY DEF Present, TypeOK, StoreTypeOK
    <3>1. Present(i) => i \in Ids /\ row \in NodeRow
      BY <3>0 DEF NodeRow
    <3>2. node' = IF Present(i) THEN [node EXCEPT ![i] = row] ELSE node
      BY <1>3 DEF Confirm
    <3> QED
      BY <3>1, <3>2 DEF TypeOK, StoreTypeOK
  <2>2. NetTypeOK'
    BY <1>3, GotoType DEF Confirm, TypeOK, Stages, PollStages
  <2> QED BY <1>1, <1>3, <2>1, <2>2 DEF Confirm, TypeOK, StoreTypeOK
<1>4. CASE Rotate(a)
  <2>1. NetTypeOK'
    <3>1. NetTypeOK /\ Goto(a, "touch") /\ "touch" \in Stages /\ UNCHANGED <<req, seen>>
      BY <1>4 DEF Rotate, TypeOK, Stages, PollStages
    <3>2. CASE UNCHANGED reply
      BY <3>1, <3>2, GotoType
    <3>3. CASE issued < MaxKeys /\ reply' = [reply EXCEPT ![a].key = NewKey]
      BY <3>1, <3>3, NewKeyType, ReplyKeyType DEF TypeOK
    <3> QED BY <1>4, <3>2, <3>3 DEF Rotate, IssueKey
  <2>2. CASE ~Present(seen[a].id) /\ UNCHANGED <<node, issued, issuedTo, reply>>
    BY <1>1, <1>4, <2>1, <2>2 DEF Rotate, TypeOK, StoreTypeOK
  <2>3. ASSUME Present(seen[a].id), NEW g \in BOOLEAN,
               IssueKey(a, seen[a].id, OverlapKey(seen[a].id, req[a].key, g))
        PROVE  TypeOK'
    <3>1. seen[a].id \in Ids
      BY <2>3 DEF Present
    <3>2. req[a].key \in Keys \cup {None} /\ issued < MaxKeys
      BY <2>3 DEF TypeOK, NetTypeOK, IssueKey
    <3>3. OverlapKey(seen[a].id, req[a].key, g) \in NodeRow
      BY <3>1, <3>2, RowTypes DEF TypeOK
    <3>4. /\ node' \in [Ids -> NodeRow] /\ issued' \in 0 .. MaxKeys
          /\ issuedTo' \in [Keys -> [agent: Agents \cup {NoAgent}, node: Ids \cup {None}]]
      BY <2>3, <3>1, <3>3, IssueKeyType DEF TypeOK
    <3> QED
      BY <1>1, <1>4, <2>1, <3>4 DEF Rotate, TypeOK, StoreTypeOK
  <2>4. CASE Present(seen[a].id)
    <3>1. PICK g \in BOOLEAN : IssueKey(a, seen[a].id, OverlapKey(seen[a].id, req[a].key, g))
      BY <1>4, <2>4 DEF Rotate
    <3> QED BY <2>3, <2>4, <3>1
  <2> QED BY <1>4, <2>2, <2>4 DEF Rotate
<1>5. CASE Touch(a)
  <2>1. node' \in [Ids -> NodeRow]
    <3> DEFINE i == seen[a].id
               row == [node[i] EXCEPT !.stale = FALSE]
    <3>1. Present(i) => i \in Ids /\ node[i] \in NodeRow
      BY DEF Present, TypeOK, StoreTypeOK
    <3>2. Present(i) => row \in NodeRow
      BY <3>1 DEF NodeRow
    <3>3. node' = IF Present(i) THEN [node EXCEPT ![i] = row] ELSE node
      BY <1>5 DEF Touch
    <3> QED BY <3>1, <3>2, <3>3 DEF TypeOK, StoreTypeOK
  <2>2. NetTypeOK'
    BY <1>5, GotoType DEF Touch, TypeOK, Stages
  <2> QED BY <1>1, <1>5, <2>1, <2>2 DEF Touch, TypeOK, StoreTypeOK
<1>6. CASE Gate(a)
  <2>1. NetTypeOK'
    BY <1>6, RefuseType, GotoType DEF Gate, TypeOK, Stages, EnrollStages, Statuses
  <2> QED BY <1>1, <1>6, <2>1 DEF Gate, cp, TypeOK, StoreTypeOK
<1>7. CASE ById(a)
  <2>1. NetTypeOK'
    <3>1. CASE Refuse(a, "unauth") \/ Refuse(a, "forbidden")
      BY <1>7, <3>1, RefuseType DEF ById, TypeOK, Statuses
    <3>2. CASE Goto(a, "byName") /\ UNCHANGED <<seen, reply>>
      BY <1>7, <3>2, GotoType DEF ById, TypeOK, Stages, EnrollStages
    <3>3. CASE /\ seen' = [seen EXCEPT ![a].id = req[a].id]
               /\ Goto(a, "rekey") /\ UNCHANGED reply
      <4>1. req[a].id \in Ids \cup {None}
        BY DEF TypeOK, NetTypeOK
      <4>2. "rekey" \in Stages /\ UNCHANGED req
        BY <1>7 DEF ById, Stages, EnrollStages
      <4> QED BY <3>3, <4>1, <4>2, SeenType DEF TypeOK
    <3> QED BY <1>7, <3>1, <3>2, <3>3 DEF ById
  <2> QED BY <1>1, <1>7, <2>1 DEF ById, cp, TypeOK, StoreTypeOK
<1>8. CASE ByName(a)
  <2>1. NetTypeOK'
    <3>1. CASE Refuse(a, "unauth") \/ Refuse(a, "inUse")
      BY <1>8, <3>1, RefuseType DEF ByName, TypeOK, Statuses
    <3>2. CASE Goto(a, "consume") /\ UNCHANGED <<seen, reply>>
      BY <1>8, <3>2, GotoType DEF ByName, TypeOK, Stages, EnrollStages
    <3>3. ASSUME NEW i \in Named(NameOf[a], 1), seen' = [seen EXCEPT ![a].id = i],
                 Goto(a, "rekey"), UNCHANGED reply
          PROVE  NetTypeOK'
      <4>1. i \in Ids /\ "rekey" \in Stages /\ UNCHANGED req
        BY <1>8 DEF ByName, Stages, EnrollStages, Named, Rows
      <4> QED BY <3>3, <4>1, SeenType DEF TypeOK
    <3> QED BY <1>8, <3>1, <3>2, <3>3 DEF ByName
  <2> QED BY <1>1, <1>8, <2>1 DEF ByName, cp, TypeOK, StoreTypeOK
<1>9. CASE Rekey(a)
  <2>1. CASE Present(seen[a].id)
    <3>1. /\ seen[a].id \in Ids /\ issued < MaxKeys
          /\ IssueKey(a, seen[a].id, ReplaceKey(seen[a].id))
          /\ Answer(a, "ok", seen[a].id, NewKey)
      BY <1>9, <2>1 DEF Rekey, Present, IssueKey
    <3>2. NewKey \in Keys /\ ReplaceKey(seen[a].id) \in NodeRow
      BY <3>1, RowTypes, KeyFacts DEF TypeOK
    <3>3. NetTypeOK'
      BY <1>9, <3>1, <3>2, AnswerType DEF Rekey, TypeOK, Statuses
    <3>4. /\ node' \in [Ids -> NodeRow] /\ issued' \in 0 .. MaxKeys
          /\ issuedTo' \in [Keys -> [agent: Agents \cup {NoAgent}, node: Ids \cup {None}]]
      BY <3>1, <3>2, IssueKeyType DEF TypeOK
    <3> QED BY <1>1, <1>9, <3>3, <3>4 DEF Rekey, TypeOK, StoreTypeOK
  <2>2. CASE ~Present(seen[a].id)
    <3>1. NetTypeOK'
      BY <1>9, <2>2, AnswerType DEF Rekey, TypeOK, Statuses
    <3> QED BY <1>1, <1>9, <2>2, <3>1 DEF Rekey, TypeOK, StoreTypeOK
  <2> QED BY <2>1, <2>2
<1>10. CASE Consume(a)
  <2>1. NetTypeOK'
    BY <1>10, RefuseType, GotoType DEF Consume, TypeOK, Stages, EnrollStages, Statuses
  <2> QED BY <1>1, <1>10, <2>1 DEF Consume, TypeOK, StoreTypeOK
<1>11. CASE Create(a)
  <2> DEFINE row == [base |-> NameOf[a], nth |-> UniqueNth(NameOf[a]), key |-> NewKey,
                     prev |-> None, grace |-> FALSE, due |-> FALSE,
                     approved |-> ~RequireApproval, stale |-> TRUE]
  <2>1. /\ IssueKey(a, born + 1, row) /\ issued < MaxKeys
        /\ Answer(a, "ok", born + 1, NewKey)
    BY <1>11 DEF Create, IssueKey
  <2>2. born + 1 \in Ids /\ born' \in 0 .. MaxIds
    BY <1>11, ConstantsAssumption DEF Create, TypeOK, StoreTypeOK, Ids
  <2>3. NewKey \in Keys
    BY <2>1, NewKeyType DEF TypeOK
  <2>4. row \in NodeRow
    BY <2>3, UniqueNthType, ConstantsAssumption DEF NodeRow
  <2>5. /\ node' \in [Ids -> NodeRow] /\ issued' \in 0 .. MaxKeys
        /\ issuedTo' \in [Keys -> [agent: Agents \cup {NoAgent}, node: Ids \cup {None}]]
    <3> HIDE DEF row
    <3> QED BY <2>1, <2>2, <2>4, IssueKeyType DEF TypeOK
  <2>6. NetTypeOK'
    BY <1>11, <2>1, <2>2, <2>3, AnswerType DEF Create, TypeOK, Statuses
  <2> QED BY <1>1, <1>11, <2>2, <2>5, <2>6 DEF Create, TypeOK, StoreTypeOK
<1> QED
  BY <1>2, <1>3, <1>4, <1>5, <1>6, <1>7, <1>8, <1>9, <1>10, <1>11 DEF Handler

LEMMA SaveType ==
  ASSUME AgentTypeOK, NEW a \in Agents, NEW x \in Identity, Save(a, x)
  PROVE  disk' \in [Agents -> Identity] /\ left' \in [Events -> Nat]
<1>1. CASE disk' = [disk EXCEPT ![a] = x] /\ UNCHANGED left
  BY <1>1 DEF AgentTypeOK
<1>2. CASE Spend("savefail") /\ UNCHANGED disk
  <2>1. "savefail" \in Events
    BY DEF Events
  <2> QED BY <1>2, <2>1, SpendType DEF AgentTypeOK
<1> QED BY <1>1, <1>2 DEF Save

\* The retries while a name is in use.  An enrollment under way asks for a
\* suffix when the retries are used up, and only one that did not is told
\* that the name is in use.
RetryInv ==
  \A a \in Agents :
    /\ pc[a] = "joining" => req[a].suffix = (tries[a] = NameRetries)
    /\ reply[a].status = "inUse" => ~req[a].suffix

LEMMA AgentNetType ==
  ASSUME TypeOK, NEW a \in Agents, AgentStep(a) \/ GiveUp(a) \/ Crash(a) \/ WipeDisk(a)
  PROVE  NetTypeOK'
<1>1. ASSUME NEW s \in Stages, NEW x \in [id: Ids \cup {None}, key: Keys \cup {None}, suffix: BOOLEAN],
             req' = [req EXCEPT ![a] = x], Send(a, s), UNCHANGED seen
      PROVE  NetTypeOK'
  <2>1. NoReply \in [status: Statuses, id: Ids \cup {None}, key: Keys \cup {None}]
    BY DEF NoReply, Statuses
  <2> QED BY <1>1, <2>1 DEF Send, Goto, TypeOK, NetTypeOK
<1>2. mem[a] \in Identity /\ disk[a] \in Identity
  BY DEF TypeOK, AgentTypeOK
<1>3. CASE Poll(a)
  <2> DEFINE x == [id |-> None, key |-> mem[a].key, suffix |-> FALSE]
  <2>1. x \in [id: Ids \cup {None}, key: Keys \cup {None}, suffix: BOOLEAN]
    BY <1>2 DEF Identity
  <2>2. req' = [req EXCEPT ![a] = x] /\ Send(a, "auth") /\ UNCHANGED seen
    BY <1>3 DEF Poll
  <2> HIDE DEF x
  <2> QED BY <1>1, <2>1, <2>2 DEF Stages, PollStages
<1>4. CASE Enroll(a)
  <2> DEFINE x == [id |-> disk[a].id, key |-> disk[a].key, suffix |-> tries[a] = NameRetries]
  <2>1. x \in [id: Ids \cup {None}, key: Keys \cup {None}, suffix: BOOLEAN]
    BY <1>2 DEF Identity
  <2>2. req' = [req EXCEPT ![a] = x] /\ Send(a, "gate") /\ UNCHANGED seen
    BY <1>4 DEF Enroll
  <2> HIDE DEF x
  <2> QED BY <1>1, <2>1, <2>2 DEF Stages, EnrollStages
<1>5. CASE PollReply(a) \/ EnrollReply(a)
  BY <1>5, GotoType DEF PollReply, EnrollReply, TypeOK, Stages
<1>6. CASE UNCHANGED net
  BY <1>6 DEF net, TypeOK, NetTypeOK
<1> QED
  BY <1>3, <1>4, <1>5, <1>6
  DEF AgentStep, Boot, SaveKey, JoinSaveKey, JoinSaveId, GiveUp, Crash, WipeDisk

LEMMA AgentAgentType ==
  ASSUME TypeOK, RetryInv, NEW a \in Agents, AgentStep(a) \/ GiveUp(a) \/ Crash(a) \/ WipeDisk(a)
  PROVE  AgentTypeOK'
<1>1. AgentTypeOK /\ mem[a] \in Identity /\ disk[a] \in Identity /\ Nothing \in Identity
  BY DEF TypeOK, AgentTypeOK, Nothing, Identity
<1>2. reply[a].id \in Ids \cup {None} /\ reply[a].key \in Keys \cup {None}
  BY DEF TypeOK, NetTypeOK
<1>3. 0 \in 0 .. NameRetries
  BY ConstantsAssumption
<1>4. CASE Boot(a)
  BY <1>1, <1>4 DEF Boot, Become, AgentTypeOK, PCs
<1>5. CASE Poll(a) \/ Enroll(a)
  BY <1>1, <1>5 DEF Poll, Enroll, Become, AgentTypeOK, PCs
<1>6. CASE PollReply(a)
  <2> DEFINE r == reply[a]
             learns == r.status = "ok" /\ mem[a].id = None
             adopts == r.status = "ok" /\ r.key # None
             x == [id |-> IF learns THEN r.id ELSE mem[a].id,
                   key |-> IF adopts THEN r.key ELSE mem[a].key]
  <2>1. x \in Identity
    BY <1>1, <1>2 DEF Identity
  <2>2. mem' = [mem EXCEPT ![a] = x]
    BY <1>6 DEF PollReply
  <2>3. mem' \in [Agents -> Identity]
    <3> HIDE DEF x
    <3> QED BY <1>1, <2>1, <2>2 DEF AgentTypeOK
  <2> DEFINE y == [disk[a] EXCEPT !.id = IF learns THEN r.id ELSE @]
  <2>4. y \in Identity /\ disk' = [disk EXCEPT ![a] = y]
    BY <1>1, <1>2, <1>6 DEF PollReply, Identity, AgentTypeOK
  <2>5. disk' \in [Agents -> Identity]
    <3> HIDE DEF y
    <3> QED BY <1>1, <2>4 DEF AgentTypeOK
  <2>6. pc' \in [Agents -> PCs] /\ UNCHANGED <<tries, canRejoin, left>>
    BY <1>1, <1>6 DEF PollReply, Become, AgentTypeOK, PCs
  <2> QED BY <1>1, <2>3, <2>5, <2>6 DEF AgentTypeOK
<1>7. CASE SaveKey(a)
  <2> DEFINE x == [disk[a] EXCEPT !.key = mem[a].key]
  <2>1. x \in Identity /\ Save(a, x)
    BY <1>1, <1>7 DEF SaveKey, Identity
  <2>2. disk' \in [Agents -> Identity] /\ left' \in [Events -> Nat]
    <3> HIDE DEF x
    <3> QED BY <1>1, <2>1, SaveType
  <2> QED BY <1>1, <1>7, <2>2 DEF SaveKey, Become, AgentTypeOK, PCs
<1>8. CASE EnrollReply(a)
  <2>1. reply[a].status = "inUse" => tries[a] + 1 \in 0 .. NameRetries
    <3>1. tries[a] \in 0 .. NameRetries /\ NameRetries \in Nat
      BY <1>1, ConstantsAssumption DEF AgentTypeOK
    <3>2. reply[a].status = "inUse" => tries[a] # NameRetries
      BY <1>8 DEF RetryInv, EnrollReply
    <3> QED BY <3>1, <3>2
  <2>2. tries' \in [Agents -> 0 .. NameRetries]
    BY <1>1, <1>3, <1>8, <2>1 DEF EnrollReply, AgentTypeOK
  <2>3. canRejoin' \in [Agents -> BOOLEAN]
    BY <1>1, <1>8 DEF EnrollReply, AgentTypeOK
  <2>4. pc' \in [Agents -> PCs]
    BY <1>1, <1>8 DEF EnrollReply, Become, AfterFailedJoin, AgentTypeOK, PCs
  <2> QED BY <1>1, <1>8, <2>2, <2>3, <2>4 DEF EnrollReply, AgentTypeOK
<1>9. CASE JoinSaveKey(a)
  <2> DEFINE x == [disk[a] EXCEPT !.key = reply[a].key]
  <2>1. x \in Identity /\ Save(a, x)
    BY <1>1, <1>2, <1>9 DEF JoinSaveKey, Identity
  <2>2. disk' \in [Agents -> Identity] /\ left' \in [Events -> Nat]
    <3> HIDE DEF x
    <3> QED BY <1>1, <2>1, SaveType
  <2> QED BY <1>1, <1>9, <2>2 DEF JoinSaveKey, Become, AgentTypeOK, PCs
<1>10. CASE JoinSaveId(a)
  <2> DEFINE x == [disk[a] EXCEPT !.id = reply[a].id]
             y == [id |-> IF Launched(a) THEN mem[a].id ELSE disk'[a].id, key |-> reply[a].key]
  <2>1. x \in Identity /\ Save(a, x)
    BY <1>1, <1>2, <1>10 DEF JoinSaveId, Identity
  <2>2. disk' \in [Agents -> Identity] /\ left' \in [Events -> Nat]
    <3> HIDE DEF x
    <3> QED BY <1>1, <2>1, SaveType
  <2>3. y \in Identity /\ mem' = [mem EXCEPT ![a] = y]
    BY <1>1, <1>2, <1>10, <2>2 DEF JoinSaveId, Identity, AgentTypeOK
  <2>4. mem' \in [Agents -> Identity]
    <3> HIDE DEF y
    <3> QED BY <1>1, <2>3 DEF AgentTypeOK
  <2> QED BY <1>1, <1>10, <2>2, <2>4 DEF JoinSaveId, Become, AgentTypeOK, PCs
<1>11. CASE GiveUp(a)
  <2>1. left' \in [Events -> Nat]
    BY <1>1, <1>11, SpendType DEF GiveUp, AgentTypeOK, Events
  <2>2. pc' \in [Agents -> PCs]
    BY <1>1, <1>11 DEF GiveUp, Become, AfterFailedJoin, AgentTypeOK, PCs
  <2> QED BY <1>1, <1>3, <1>11, <2>1, <2>2 DEF GiveUp, AgentTypeOK
<1>12. CASE Crash(a)
  <2>1. left' \in [Events -> Nat]
    BY <1>1, <1>12, SpendType DEF Crash, AgentTypeOK, Events
  <2> QED BY <1>1, <1>3, <1>12, <2>1 DEF Crash, Become, AgentTypeOK, PCs
<1>13. CASE WipeDisk(a)
  <2>1. left' \in [Events -> Nat]
    BY <1>1, <1>13, SpendType DEF WipeDisk, AgentTypeOK, Events
  <2> QED BY <1>1, <1>13, <2>1 DEF WipeDisk, AgentTypeOK
<1> QED
  BY <1>4, <1>5, <1>6, <1>7, <1>8, <1>9, <1>10, <1>11, <1>12, <1>13 DEF AgentStep

LEMMA AgentTypeStep ==
  ASSUME TypeOK, RetryInv, NEW a \in Agents, AgentStep(a) \/ GiveUp(a) \/ Crash(a) \/ WipeDisk(a)
  PROVE  TypeOK'
<1>1. StoreTypeOK'
  BY DEF AgentStep, Boot, Poll, PollReply, SaveKey, Enroll, EnrollReply, JoinSaveKey,
         JoinSaveId, GiveUp, Crash, WipeDisk, cp, TypeOK, StoreTypeOK
<1> QED BY <1>1, AgentNetType, AgentAgentType DEF TypeOK

LEMMA EnvironmentTypeOK == ASSUME TypeOK, Environment PROVE TypeOK'
<1>1. NetTypeOK' /\ UNCHANGED agent
  BY DEF Environment, RenewWrite, EndEnrollKey, SetApproved, UnrevokeNode, RenewRead, KeyAges,
         GraceEnds, GoesStale, DeleteNode, OnlyNode, net, TypeOK, NetTypeOK
<1>2. left' \in [Events -> Nat]
  <2>1. left \in [Events -> Nat]
    BY DEF TypeOK, AgentTypeOK
  <2>2. (\E e \in Events : Spend(e)) \/ UNCHANGED left
    BY DEF Environment, RenewWrite, EndEnrollKey, SetApproved, UnrevokeNode, RenewRead, KeyAges,
           GraceEnds, GoesStale, DeleteNode, Events
  <2> QED BY <2>1, <2>2, SpendType
<1>3. AgentTypeOK'
  BY <1>1, <1>2 DEF agent, TypeOK, AgentTypeOK
<1>4. ASSUME NEW i \in Ids, NEW row \in NodeRow, OnlyNode(row, i) PROVE StoreTypeOK'
  BY <1>4 DEF OnlyNode, TypeOK, StoreTypeOK
<1>5. StoreTypeOK'
  <2>1. CASE RenewWrite
    <3>1. Nothing \in Identity
      BY DEF Nothing, Identity
    <3>2. CASE ~Present(renewal.id) /\ UNCHANGED <<node, issued, issuedTo>>
      BY <2>1, <3>1, <3>2 DEF RenewWrite, TypeOK, StoreTypeOK
    <3>3. CASE /\ Present(renewal.id)
               /\ IssueKey(NoAgent, renewal.id, OverlapKey(renewal.id, renewal.key, TRUE))
      <4>1. renewal.id \in Ids /\ renewal.key \in Keys \cup {None} /\ issued < MaxKeys
        BY <3>3 DEF Present, IssueKey, TypeOK, StoreTypeOK, Identity
      <4>2. OverlapKey(renewal.id, renewal.key, TRUE) \in NodeRow
        BY <4>1, RowTypes DEF TypeOK
      <4>3. /\ node' \in [Ids -> NodeRow] /\ issued' \in 0 .. MaxKeys
            /\ issuedTo' \in [Keys -> [agent: Agents \cup {NoAgent}, node: Ids \cup {None}]]
        BY <3>3, <4>1, <4>2, IssueKeyType DEF TypeOK
      <4> QED BY <2>1, <3>1, <4>3 DEF RenewWrite, TypeOK, StoreTypeOK
    <3> QED BY <2>1, <3>2, <3>3 DEF RenewWrite
  <2>2. CASE EndEnrollKey
    BY <2>2 DEF EndEnrollKey, TypeOK, StoreTypeOK
  <2>3. ASSUME NEW i \in Ids, SetApproved(i) \/ KeyAges(i) \/ GraceEnds(i) \/ GoesStale(i)
        PROVE  StoreTypeOK'
    <3>1. node[i] \in NodeRow
      BY DEF TypeOK, StoreTypeOK
    <3>2. /\ [node[i] EXCEPT !.approved = ~@] \in NodeRow
          /\ [node[i] EXCEPT !.due = TRUE] \in NodeRow
          /\ [node[i] EXCEPT !.grace = FALSE] \in NodeRow
          /\ [node[i] EXCEPT !.stale = TRUE] \in NodeRow
      BY <3>1 DEF NodeRow
    <3> QED BY <1>4, <2>3, <3>2 DEF SetApproved, KeyAges, GraceEnds, GoesStale
  <2>4. ASSUME NEW i \in Ids, UnrevokeNode(i) PROVE StoreTypeOK'
    BY <2>4 DEF UnrevokeNode, TypeOK, StoreTypeOK
  <2>5. ASSUME NEW i \in Ids, RenewRead(i) PROVE StoreTypeOK'
    BY <2>5 DEF RenewRead, cp, NodeRow, Identity, TypeOK, StoreTypeOK
  <2>6. ASSUME NEW i \in Ids, NEW revoke \in BOOLEAN, DeleteNode(i, revoke) PROVE StoreTypeOK'
    <3>1. Blank \in NodeRow
      BY KeyFacts DEF Blank, NodeRow
    <3> QED BY <2>6, <3>1 DEF DeleteNode, TypeOK, StoreTypeOK
  <2> QED BY <2>1, <2>2, <2>3, <2>4, <2>5, <2>6 DEF Environment
<1> QED BY <1>1, <1>3, <1>5 DEF TypeOK

LEMMA DiscardTypeOK == ASSUME TypeOK, NEW a \in Agents, Discard(a) PROVE TypeOK'
<1>1. NetTypeOK'
  BY GotoType DEF Discard, TypeOK, Stages
<1> QED BY <1>1 DEF Discard, cp, agent, TypeOK, StoreTypeOK, AgentTypeOK

LEMMA NextTypeOK == TypeOK /\ RetryInv /\ [Next]_vars => TypeOK'
<1> SUFFICES ASSUME TypeOK, RetryInv, [Next]_vars PROVE TypeOK'
  OBVIOUS
<1>1. CASE Environment
  BY <1>1, EnvironmentTypeOK
<1>2. ASSUME NEW a \in Agents, Handler(a) PROVE TypeOK'
  BY <1>2, HandlerTypeOK
<1>3. ASSUME NEW a \in Agents, Discard(a) PROVE TypeOK'
  BY <1>3, DiscardTypeOK
<1>4. ASSUME NEW a \in Agents, AgentStep(a) \/ GiveUp(a) \/ Crash(a) \/ WipeDisk(a) PROVE TypeOK'
  BY <1>4, AgentTypeStep
<1>5. CASE UNCHANGED vars
  BY <1>5 DEF vars, cp, net, agent, TypeOK, StoreTypeOK, NetTypeOK, AgentTypeOK
<1> QED BY <1>1, <1>2, <1>3, <1>4, <1>5 DEF Next

LEMMA NextRetryInv == TypeOK /\ RetryInv /\ [Next]_vars => RetryInv'
<1> SUFFICES ASSUME TypeOK, RetryInv, [Next]_vars, NEW b \in Agents
             PROVE  /\ pc'[b] = "joining" => req'[b].suffix = (tries'[b] = NameRetries)
                    /\ reply'[b].status = "inUse" => ~req'[b].suffix
  BY DEF RetryInv
<1>0. NetTypeOK /\ AgentTypeOK
  BY DEF TypeOK
<1>1. CASE Environment \/ UNCHANGED vars
  <2>1. UNCHANGED <<net, agent>>
    BY <1>1 DEF Environment, RenewWrite, EndEnrollKey, SetApproved, UnrevokeNode, RenewRead,
                KeyAges, GraceEnds, GoesStale, DeleteNode, OnlyNode, vars
  <2> QED BY <2>1 DEF net, agent, RetryInv
<1>2. ASSUME NEW a \in Agents, Handler(a) \/ Discard(a)
      PROVE  /\ pc'[b] = "joining" => req'[b].suffix = (tries'[b] = NameRetries)
             /\ reply'[b].status = "inUse" => ~req'[b].suffix
  <2>1. UNCHANGED <<pc, req, tries>>
    BY <1>2 DEF Handler, Discard, Auth, Confirm, Rotate, Touch, Gate, ById, ByName, Rekey,
                Consume, Create, agent
  <2>2. CASE a = b /\ Auth(b)
    BY <1>0, <2>1, <2>2 DEF Auth, Refuse, Answer, RetryInv, NetTypeOK
  <2>3. CASE a = b /\ Rotate(b)
    <3>1. reply' = [reply EXCEPT ![b].key = NewKey] \/ UNCHANGED reply
      BY <2>3 DEF Rotate
    <3>2. reply'[b].status = reply[b].status
      BY <1>0, <3>1 DEF NetTypeOK
    <3> QED BY <2>1, <3>2 DEF RetryInv
  <2>4. CASE a = b /\ ByName(b)
    BY <1>0, <2>1, <2>4 DEF ByName, Refuse, Answer, RetryInv, NetTypeOK
  <2>5. CASE a = b /\ (Gate(b) \/ ById(b) \/ Rekey(b) \/ Consume(b) \/ Create(b))
    BY <1>0, <2>1, <2>5 DEF Gate, ById, Rekey, Consume, Create, Refuse, Answer, RetryInv, NetTypeOK
  <2>6. CASE UNCHANGED reply
    BY <2>1, <2>6 DEF RetryInv
  <2>7. CASE a # b
    <3>1. reply'[b] = reply[b]
      BY <1>0, <1>2, <2>7 DEF Handler, Discard, Auth, Confirm, Rotate, Touch, Gate, ById, ByName,
                Rekey, Consume, Create, Refuse, Answer, NetTypeOK
    <3> QED BY <2>1, <3>1 DEF RetryInv
  <2> QED
    BY <1>2, <2>2, <2>3, <2>4, <2>5, <2>6, <2>7 DEF Handler, Discard, Confirm, Touch
<1>3. ASSUME NEW a \in Agents, AgentStep(a) \/ GiveUp(a) \/ Crash(a) \/ WipeDisk(a)
      PROVE  /\ pc'[b] = "joining" => req'[b].suffix = (tries'[b] = NameRetries)
             /\ reply'[b].status = "inUse" => ~req'[b].suffix
  <2>1. CASE Poll(a) \/ Enroll(a)
    <3>1. CASE a = b
      <4>1. reply'[b].status = "none" /\ tries' = tries
        BY <1>0, <2>1, <3>1 DEF Poll, Enroll, Send, NoReply, NetTypeOK
      <4>2. CASE Poll(a)
        BY <1>0, <3>1, <4>1, <4>2 DEF Poll, Become, AgentTypeOK
      <4>3. CASE Enroll(a)
        BY <1>0, <3>1, <4>1, <4>3 DEF Enroll, NetTypeOK
      <4> QED BY <2>1, <4>2, <4>3
    <3>2. CASE a # b
      <4>1. /\ pc'[b] = pc[b] /\ tries' = tries
            /\ req'[b] = req[b] /\ reply'[b] = reply[b]
        BY <1>0, <2>1, <3>2 DEF Poll, Enroll, Send, Become, NetTypeOK, AgentTypeOK
      <4> QED BY <4>1 DEF RetryInv
    <3> QED BY <3>1, <3>2
  <2>2. CASE Boot(a) \/ PollReply(a) \/ EnrollReply(a)
    BY <1>0, <2>2 DEF Boot, PollReply, EnrollReply, AfterFailedJoin, Become, net, RetryInv, AgentTypeOK
  <2>3. CASE SaveKey(a) \/ JoinSaveKey(a) \/ JoinSaveId(a)
    BY <1>0, <2>3 DEF SaveKey, JoinSaveKey, JoinSaveId, Become, net, RetryInv, AgentTypeOK
  <2>4. CASE GiveUp(a) \/ Crash(a) \/ WipeDisk(a)
    BY <1>0, <2>4 DEF GiveUp, Crash, WipeDisk, AfterFailedJoin, Become, net, RetryInv, AgentTypeOK
  <2> QED BY <1>3, <2>1, <2>2, <2>3, <2>4 DEF AgentStep
<1> QED BY <1>1, <1>2, <1>3 DEF Next

LEMMA InitRetryInv == Init => RetryInv
BY DEF Init, RetryInv, NoReply

\* Every variable keeps its type in every behaviour; an enrollment never sees
\* more name-in-use answers than the retries enrollLoop allows.
THEOREM TypeCorrect == Spec => []TypeOK
<1>1. Init => TypeOK /\ RetryInv
  BY InitTypeOK, InitRetryInv
<1>2. TypeOK /\ RetryInv /\ [Next]_vars => TypeOK' /\ RetryInv'
  BY NextTypeOK, NextRetryInv
<1> QED BY <1>1, <1>2, PTL DEF Spec

-----------------------------------------------------------------------------
(* Keys and identities.                                                      *)

LEMMA IssueKeyFacts ==
  ASSUME StoreTypeOK, NEW a \in Agents \cup {NoAgent}, NEW i \in Ids, NEW row, IssueKey(a, i, row)
  PROVE  /\ NewKey \in Keys /\ NewKey = issued + 1 /\ issued' = issued + 1
         /\ issuedTo'[NewKey] = [agent |-> a, node |-> i]
         /\ \A k \in Keys : k <= issued => issuedTo'[k] = issuedTo[k]
         /\ node'[i] = row
         /\ \A j \in Ids : j # i => node'[j] = node[j]
<1>1. NewKey \in Keys /\ issued \in Nat
  BY ConstantsAssumption DEF StoreTypeOK, IssueKey, NewKey, Keys
<1>2. \A k \in Keys : k <= issued => k # NewKey
  BY <1>1 DEF NewKey, Keys
<1> QED BY <1>1, <1>2 DEF IssueKey, StoreTypeOK, NewKey

LEMMA HeldTypes ==
  ASSUME TypeOK, NEW a \in Agents
  PROVE  /\ {mem[a].key, disk[a].key, req[a].key, reply[a].key} \subseteq Keys \cup {None}
         /\ HeldBy(a) \subseteq Keys
BY DEF TypeOK, NetTypeOK, AgentTypeOK, Identity, HeldBy

LEMMA RowKeyTypes == ASSUME TypeOK, NEW i \in Ids PROVE RowKeys(i) \subseteq Keys
BY DEF TypeOK, StoreTypeOK, NodeRow, RowKeys

\* A step that generates no key and hands none on preserves what is known of
\* the keys held and the keys of the rows.
LEMMA NoKeyStep ==
  ASSUME TypeOK, KeyInv, UNCHANGED <<issued, issuedTo>>,
         \A a \in Agents : HeldBy(a)' \subseteq HeldBy(a),
         \A i \in Ids : RowKeys(i)' \subseteq RowKeys(i)
  PROVE  HeldInv' /\ RowInv' /\ OwnerInv'
BY DEF KeyInv, HeldInv, RowInv, OwnerInv

\* A key generated for agent a and row i may be accepted beside another key of
\* that row if that one is a's too, or if the new one is the operator's.
LEMMA KeyStep ==
  ASSUME TypeOK, KeyInv, NEW a \in Agents \cup {NoAgent}, NEW i \in Ids, NEW row,
         IssueKey(a, i, row), row.key = NewKey,
         row.prev # None =>
           /\ row.prev \in Keys /\ row.prev <= issued /\ issuedTo[row.prev].node = i
           /\ a \in Agents => issuedTo[row.prev].agent = a,
         \A b \in Agents : HeldBy(b)' \subseteq HeldBy(b) \cup (IF b = a THEN {NewKey} ELSE {})
  PROVE  HeldInv' /\ RowInv' /\ OwnerInv'
<1>1. /\ NewKey \in Keys /\ NewKey = issued + 1 /\ issued' = issued + 1
      /\ issuedTo'[NewKey] = [agent |-> a, node |-> i]
      /\ \A k \in Keys : k <= issued => issuedTo'[k] = issuedTo[k]
      /\ node'[i] = row
      /\ \A j \in Ids : j # i => node'[j] = node[j]
  BY IssueKeyFacts DEF TypeOK
<1>2. issued \in Nat /\ Keys \subseteq Nat
  BY KeyFacts DEF TypeOK, StoreTypeOK
<1>3. HeldInv'
  <2> SUFFICES ASSUME NEW b \in Agents, NEW k \in HeldBy(b)'
               PROVE  k <= issued' /\ issuedTo'[k].agent = b
    BY DEF HeldInv
  <2>1. CASE k \in HeldBy(b)
    <3>1. k \in Keys /\ k <= issued /\ issuedTo[k].agent = b
      BY <2>1, HeldTypes DEF KeyInv, HeldInv
    <3> QED BY <1>1, <1>2, <3>1
  <2>2. CASE b = a /\ k = NewKey
    BY <1>1, <1>2, <2>2
  <2> QED BY <2>1, <2>2
<1>4. RowKeys(i)' \subseteq {NewKey, row.prev} \ {None}
  BY <1>1 DEF RowKeys
<1>5. \A j \in Ids : j # i => RowKeys(j)' = RowKeys(j)
  BY <1>1 DEF RowKeys
<1>6. RowInv'
  <2> SUFFICES ASSUME NEW j \in Ids, NEW k \in RowKeys(j)'
               PROVE  k <= issued' /\ issuedTo'[k].node = j
    BY DEF RowInv
  <2>1. CASE j = i
    BY <1>1, <1>2, <1>4, <2>1
  <2>2. CASE j # i
    <3>1. k \in Keys /\ k <= issued /\ issuedTo[k].node = j
      BY <1>5, <2>2, RowKeyTypes DEF KeyInv, RowInv
    <3> QED BY <1>1, <1>2, <3>1
  <2> QED BY <2>1, <2>2
<1>7. OwnerInv'
  <2> SUFFICES ASSUME NEW j \in Ids, NEW k \in RowKeys(j)', NEW l \in RowKeys(j)',
                      {issuedTo'[k].agent, issuedTo'[l].agent} \subseteq Agents
               PROVE  issuedTo'[k].agent = issuedTo'[l].agent
    BY DEF OwnerInv
  <2>1. CASE j = i
    <3>1. issuedTo'[NewKey].agent = a
      BY <1>1
    <3>2. row.prev # None /\ a \in Agents => issuedTo'[row.prev].agent = a
      BY <1>1
    <3> QED BY <1>4, <2>1, <3>1, <3>2
  <2>2. CASE j # i
    <3>1. \A m \in RowKeys(j) : issuedTo'[m] = issuedTo[m]
      BY <1>1, RowKeyTypes DEF KeyInv, RowInv
    <3> QED BY <1>5, <2>2, <3>1 DEF KeyInv, OwnerInv
  <2> QED BY <2>1, <2>2
<1> QED BY <1>3, <1>6, <1>7

\* Old keys keep what they were issued to, so what a renewal and a poll hold
\* stays good while they hold it.
LEMMA OldKeysStay ==
  ASSUME TypeOK, KeyInv, NEW a \in Agents \cup {NoAgent}, NEW i \in Ids, NEW row, IssueKey(a, i, row)
  PROVE  /\ \A k \in Keys : k <= issued => k <= issued' /\ issuedTo'[k] = issuedTo[k]
         /\ UNCHANGED renewal => RenewalInv'
         /\ UNCHANGED req => \A b \in Agents :
              stage[b] \in {"confirm", "rotate"} /\ seen'[b].id = seen[b].id
                => req'[b].key # None /\ issuedTo'[req'[b].key].node = seen'[b].id
<1>1. \A k \in Keys : k <= issued => k <= issued' /\ issuedTo'[k] = issuedTo[k]
  <2>1. issued \in Nat /\ Keys \subseteq Nat
    BY KeyFacts DEF TypeOK, StoreTypeOK
  <2>2. issued' = issued + 1 /\ \A k \in Keys : k <= issued => issuedTo'[k] = issuedTo[k]
    BY IssueKeyFacts DEF TypeOK
  <2> QED BY <2>1, <2>2
<1>2. ASSUME UNCHANGED renewal PROVE RenewalInv'
  <2>1. renewal.key \in Keys \cup {None}
    BY DEF TypeOK, StoreTypeOK, Identity
  <2> QED BY <1>1, <1>2, <2>1 DEF KeyInv, RenewalInv
<1>3. ASSUME UNCHANGED req, NEW b \in Agents, stage[b] \in {"confirm", "rotate"},
             seen'[b].id = seen[b].id
      PROVE  req'[b].key # None /\ issuedTo'[req'[b].key].node = seen'[b].id
  <2>1. req[b].key # None /\ issuedTo[req[b].key].node = seen[b].id
    BY <1>3 DEF KeyInv, StageInv
  <2>2. req[b].key \in HeldBy(b) /\ req[b].key \in Keys
    BY <2>1, HeldTypes DEF HeldBy
  <2>3. req[b].key <= issued
    BY <2>2 DEF KeyInv, HeldInv
  <2> QED BY <1>1, <1>3, <2>1, <2>2, <2>3
<1> QED BY <1>1, <1>2, <1>3

LEMMA HandlerKeyInv == ASSUME TypeOK, KeyInv, NEW a \in Agents, Handler(a) PROVE KeyInv'
<1>0. NetTypeOK
  BY DEF TypeOK
<1>1. UNCHANGED <<req, renewal, agent>>
  BY DEF Handler, Auth, Confirm, Rotate, Touch, Gate, ById, ByName, Rekey, Consume, Create
<1>2. \A b \in Agents : b # a =>
        stage'[b] = stage[b] /\ seen'[b] = seen[b] /\ reply'[b] = reply[b]
  BY <1>0 DEF Handler, Auth, Confirm, Rotate, Touch, Gate, ById, ByName, Rekey, Consume, Create,
              Refuse, Answer, Goto, NetTypeOK
<1>3. \A b \in Agents : b # a => HeldBy(b)' = HeldBy(b)
  BY <1>1, <1>2 DEF HeldBy, agent
\* Stages that generate no key.
<1>4. CASE Auth(a) \/ Confirm(a) \/ Touch(a) \/ Gate(a) \/ ById(a) \/ ByName(a) \/ Consume(a)
  <2>1. UNCHANGED <<issued, issuedTo>>
    BY <1>4 DEF Auth, Confirm, Touch, Gate, ById, ByName, Consume, cp
  <2>2. reply'[a].key \in {reply[a].key, None}
    BY <1>0, <1>4 DEF Auth, Confirm, Touch, Gate, ById, ByName, Consume, Refuse, Answer, NetTypeOK
  <2>3. \A b \in Agents : HeldBy(b)' \subseteq HeldBy(b)
    BY <1>1, <1>3, <2>2 DEF HeldBy, agent
  <2>4. \A i \in Ids : RowKeys(i)' \subseteq RowKeys(i)
    <3>1. CASE UNCHANGED node
      BY <3>1 DEF RowKeys
    <3>2. CASE Confirm(a) \/ Touch(a)
      <4>1. \A i \in Ids : node'[i].key = node[i].key /\ node'[i].prev \in {node[i].prev, None}
        <5> DEFINE s == seen[a].id
                   row == IF Confirm(a) THEN [node[s] EXCEPT !.prev = None, !.grace = FALSE]
                          ELSE [node[s] EXCEPT !.stale = FALSE]
        <5>1. UNCHANGED node \/ (s \in Ids /\ node' = [node EXCEPT ![s] = row])
          BY <3>2 DEF Confirm, Touch, Present
        <5>2. s \in Ids => row.key = node[s].key /\ row.prev \in {node[s].prev, None}
          BY DEF TypeOK, StoreTypeOK, NodeRow
        <5> HIDE DEF row
        <5> QED BY <5>1, <5>2 DEF TypeOK, StoreTypeOK
      <4> QED BY <4>1 DEF RowKeys
    <3> QED BY <1>4, <3>1, <3>2 DEF Auth, Gate, ById, ByName, Consume, cp
  <2>5. HeldInv' /\ RowInv' /\ OwnerInv'
    BY <2>1, <2>3, <2>4, NoKeyStep
  <2>6. RenewalInv'
    BY <1>1, <2>1 DEF KeyInv, RenewalInv
  <2>7. StageInv'
    <3> SUFFICES ASSUME NEW b \in Agents, stage'[b] \in {"confirm", "rotate"}
                 PROVE  req'[b].key # None /\ issuedTo'[req'[b].key].node = seen'[b].id
      BY DEF StageInv
    <3>1. CASE b # a \/ UNCHANGED <<stage, seen>> \/ (stage[a] = "confirm" /\ UNCHANGED seen)
      BY <1>1, <1>2, <2>1, <3>1 DEF KeyInv, StageInv
    <3>2. CASE b = a /\ Auth(a)
      <4>1. PICK i \in Ids : Accepts(i, req[a].key) /\ seen'[a].id = i
        BY <1>0, <3>2 DEF Auth, Refuse, Answer, Goto, NetTypeOK
      <4>2. req[a].key \in RowKeys(i)
        BY <4>1 DEF Accepts, RowKeys
      <4> QED BY <1>1, <2>1, <3>2, <4>1, <4>2 DEF KeyInv, RowInv, Accepts
    <3>3. CASE b = a /\ ~Auth(a) /\ ~Confirm(a)
      BY <1>0, <1>4, <3>3
      DEF Touch, Gate, ById, ByName, Consume, Refuse, Answer, Goto, NetTypeOK
    <3>4. CASE b = a /\ Confirm(a)
      BY <3>1, <3>4 DEF Confirm
    <3> QED BY <3>1, <3>2, <3>3, <3>4
  <2> QED BY <2>5, <2>6, <2>7 DEF KeyInv
\* Stages that end the handler's work on keys, one generated or not.
<1>5. ASSUME stage'[a] \notin {"confirm", "rotate"},
             NEW i \in Ids, NEW row, IssueKey(a, i, row), row.key = NewKey,
             row.prev # None => row.prev = req[a].key /\ issuedTo[row.prev].node = i,
             reply'[a].key = NewKey
      PROVE  KeyInv'
  <2>1. \A b \in Agents : HeldBy(b)' \subseteq HeldBy(b) \cup (IF b = a THEN {NewKey} ELSE {})
    BY <1>1, <1>3, <1>5 DEF HeldBy, agent
  <2>2. row.prev # None => /\ row.prev \in Keys /\ row.prev <= issued
                           /\ issuedTo[row.prev].agent = a
    <3>1. ASSUME row.prev # None PROVE row.prev \in HeldBy(a)
      BY <1>5, <3>1 DEF HeldBy
    <3> QED BY <3>1, HeldTypes DEF KeyInv, HeldInv
  <2>3. HeldInv' /\ RowInv' /\ OwnerInv'
    BY <1>5, <2>1, <2>2, KeyStep
  <2>4. RenewalInv'
    BY <1>1, <1>5, OldKeysStay
  <2>5. StageInv'
    BY <1>1, <1>2, <1>5, OldKeysStay DEF StageInv
  <2> QED BY <2>3, <2>4, <2>5 DEF KeyInv
<1>6. ASSUME stage'[a] \notin {"confirm", "rotate"}, UNCHANGED <<node, issued, issuedTo>>,
             reply'[a].key \in {reply[a].key, None}
      PROVE  KeyInv'
  <2>1. \A b \in Agents : HeldBy(b)' \subseteq HeldBy(b)
    BY <1>1, <1>3, <1>6 DEF HeldBy, agent
  <2>2. \A i \in Ids : RowKeys(i)' \subseteq RowKeys(i)
    BY <1>6 DEF RowKeys
  <2>3. HeldInv' /\ RowInv' /\ OwnerInv'
    BY <1>6, <2>1, <2>2, NoKeyStep
  <2>4. RenewalInv' /\ StageInv'
    BY <1>1, <1>2, <1>6 DEF KeyInv, RenewalInv, StageInv
  <2> QED BY <2>3, <2>4 DEF KeyInv
<1>7. CASE Rotate(a)
  <2>1. stage'[a] \notin {"confirm", "rotate"}
    BY <1>0, <1>7 DEF Rotate, Goto, NetTypeOK
  <2>2. CASE Present(seen[a].id)
    <3> DEFINE i == seen[a].id
    <3>1. PICK g : /\ IssueKey(a, i, OverlapKey(i, req[a].key, g))
                   /\ reply' = [reply EXCEPT ![a].key = NewKey]
      BY <1>7, <2>2 DEF Rotate
    <3>2. i \in Ids /\ node[i] \in NodeRow
      BY <2>2 DEF Present, TypeOK, StoreTypeOK
    <3>3. /\ OverlapKey(i, req[a].key, g).key = NewKey
          /\ OverlapKey(i, req[a].key, g).prev = req[a].key
      BY <3>2 DEF OverlapKey, NodeRow
    <3>4. issuedTo[req[a].key].node = i
      BY <1>7 DEF Rotate, KeyInv, StageInv
    <3>5. reply'[a].key = NewKey
      BY <1>0, <3>1 DEF NetTypeOK
    <3> QED BY <1>5, <2>1, <3>1, <3>2, <3>3, <3>4, <3>5
  <2>3. CASE ~Present(seen[a].id)
    BY <1>6, <1>7, <2>1, <2>3 DEF Rotate
  <2> QED BY <2>2, <2>3
<1>8. CASE Rekey(a)
  <2>1. CASE Present(seen[a].id)
    <3> DEFINE i == seen[a].id
    <3>1. /\ IssueKey(a, i, ReplaceKey(i)) /\ Answer(a, "ok", i, NewKey)
      BY <1>8, <2>1 DEF Rekey
    <3>2. i \in Ids /\ node[i] \in NodeRow
      BY <2>1 DEF Present, TypeOK, StoreTypeOK
    <3>3. ReplaceKey(i).key = NewKey /\ ReplaceKey(i).prev = None
      BY <3>2 DEF ReplaceKey, NodeRow
    <3>4. stage'[a] = "reply" /\ reply'[a].key = NewKey
      BY <1>0, <3>1 DEF Answer, Goto, NetTypeOK
    <3> QED BY <1>5, <3>1, <3>2, <3>3, <3>4
  <2>2. CASE ~Present(seen[a].id)
    <3>1. stage'[a] = "reply" /\ reply'[a].key = None /\ UNCHANGED <<node, issued, issuedTo>>
      BY <1>0, <1>8, <2>2 DEF Rekey, Answer, Goto, NetTypeOK
    <3> QED BY <1>6, <3>1
  <2> QED BY <2>1, <2>2
<1>9. CASE Create(a)
  <2> DEFINE row == [base |-> NameOf[a], nth |-> UniqueNth(NameOf[a]), key |-> NewKey,
                     prev |-> None, grace |-> FALSE, due |-> FALSE,
                     approved |-> ~RequireApproval, stale |-> TRUE]
  <2>1. IssueKey(a, born + 1, row) /\ Answer(a, "ok", born + 1, NewKey)
    BY <1>9 DEF Create
  <2>2. born + 1 \in Ids
    BY <1>9, ConstantsAssumption DEF Create, TypeOK, StoreTypeOK, Ids
  <2>3. stage'[a] = "reply" /\ reply'[a].key = NewKey
    BY <1>0, <2>1 DEF Answer, Goto, NetTypeOK
  <2>4. row.key = NewKey /\ row.prev = None
    OBVIOUS
  <2> HIDE DEF row
  <2> QED BY <1>5, <2>1, <2>2, <2>3, <2>4
<1> QED BY <1>4, <1>7, <1>8, <1>9 DEF Handler

LEMMA AgentKeyInv ==
  ASSUME TypeOK, KeyInv, NEW a \in Agents,
         AgentStep(a) \/ Discard(a) \/ GiveUp(a) \/ Crash(a) \/ WipeDisk(a)
  PROVE  KeyInv'
<1>0. NetTypeOK /\ AgentTypeOK
  BY DEF TypeOK
<1>1. UNCHANGED <<cp, renewal>>
  BY DEF AgentStep, Boot, Poll, PollReply, SaveKey, Enroll, EnrollReply, JoinSaveKey, JoinSaveId,
         Discard, GiveUp, Crash, WipeDisk
<1>2. \A b \in Agents \ {a} : /\ mem'[b] = mem[b] /\ disk'[b] = disk[b]
                              /\ req'[b] = req[b] /\ reply'[b] = reply[b]
  BY <1>0 DEF AgentStep, Boot, Poll, PollReply, SaveKey, Enroll, EnrollReply, JoinSaveKey,
              JoinSaveId, Discard, GiveUp, Crash, WipeDisk, Save, Send, net, agent,
              NetTypeOK, AgentTypeOK
<1>3. {mem'[a].key, disk'[a].key, req'[a].key, reply'[a].key}
        \subseteq {mem[a].key, disk[a].key, req[a].key, reply[a].key, None}
  <2>1. CASE Boot(a) \/ Crash(a) \/ WipeDisk(a)
    BY <1>0, <2>1 DEF Boot, Crash, WipeDisk, net, Nothing, AgentTypeOK
  <2>2. CASE Poll(a) \/ Enroll(a)
    BY <1>0, <2>2 DEF Poll, Enroll, Send, NoReply, NetTypeOK
  <2>3. CASE PollReply(a)
    BY <1>0, <2>3 DEF PollReply, AgentTypeOK, Identity
  <2>4. CASE SaveKey(a) \/ JoinSaveKey(a)
    BY <1>0, <2>4 DEF SaveKey, JoinSaveKey, Save, net, AgentTypeOK, Identity
  <2>5. CASE JoinSaveId(a)
    BY <1>0, <2>5 DEF JoinSaveId, Save, net, AgentTypeOK, Identity
  <2>6. CASE EnrollReply(a) \/ Discard(a) \/ GiveUp(a)
    BY <2>6 DEF EnrollReply, Discard, GiveUp, net, agent
  <2> QED BY <2>1, <2>2, <2>3, <2>4, <2>5, <2>6 DEF AgentStep
<1>4. \A b \in Agents : HeldBy(b)' \subseteq HeldBy(b)
  BY <1>2, <1>3 DEF HeldBy
<1>5. HeldInv' /\ RowInv' /\ OwnerInv'
  BY <1>1, <1>4, NoKeyStep DEF cp, RowKeys
<1>6. RenewalInv'
  BY <1>1 DEF cp, KeyInv, RenewalInv
<1>7. StageInv'
  <2> SUFFICES ASSUME NEW b \in Agents, stage'[b] \in {"confirm", "rotate"}
               PROVE  req'[b].key # None /\ issuedTo'[req'[b].key].node = seen'[b].id
    BY DEF StageInv
  <2>1. UNCHANGED seen /\ (b # a => stage'[b] = stage[b])
    BY <1>0 DEF AgentStep, Boot, Poll, PollReply, SaveKey, Enroll, EnrollReply, JoinSaveKey,
                JoinSaveId, Discard, GiveUp, Crash, WipeDisk, Send, Goto, net, NetTypeOK
  <2>2. CASE UNCHANGED <<stage, req>> \/ b # a
    BY <1>1, <1>2, <2>1, <2>2 DEF cp, KeyInv, StageInv
  <2>3. CASE b = a /\ (Poll(a) \/ Enroll(a) \/ PollReply(a) \/ EnrollReply(a) \/ Discard(a))
    BY <1>0, <2>3 DEF Poll, Enroll, PollReply, EnrollReply, Discard, Send, Goto, NetTypeOK
  <2> QED
    BY <2>2, <2>3 DEF AgentStep, Boot, SaveKey, JoinSaveKey, JoinSaveId, GiveUp, Crash, WipeDisk, net
<1> QED BY <1>5, <1>6, <1>7 DEF KeyInv

LEMMA EnvironmentKeyInv == ASSUME TypeOK, KeyInv, Environment PROVE KeyInv'
<1>0. UNCHANGED <<net, agent>>
  BY DEF Environment, RenewWrite, EndEnrollKey, SetApproved, UnrevokeNode, RenewRead, KeyAges,
         GraceEnds, GoesStale, DeleteNode, OnlyNode
<1>1. \A b \in Agents : HeldBy(b)' = HeldBy(b)
  BY <1>0 DEF HeldBy, net, agent
<1>2. CASE RenewWrite /\ Present(renewal.id)
  <2> DEFINE i == renewal.id
             row == OverlapKey(i, renewal.key, TRUE)
  <2>1. IssueKey(NoAgent, i, row) /\ renewal' = Nothing
    BY <1>2 DEF RenewWrite
  <2>2. i \in Ids /\ node[i] \in NodeRow /\ renewal.key \in Keys \cup {None}
    BY <1>2 DEF Present, TypeOK, StoreTypeOK, Identity
  <2>3. row.key = NewKey /\ row.prev = renewal.key
    BY <2>2 DEF OverlapKey, NodeRow
  <2>4. row.prev # None => /\ row.prev \in Keys /\ row.prev <= issued
                           /\ issuedTo[row.prev].node = i
    BY <2>2, <2>3 DEF KeyInv, RenewalInv
  <2>5. NoAgent \notin Agents
    BY ConstantsAssumption
  <2> HIDE DEF row
  <2>6. HeldInv' /\ RowInv' /\ OwnerInv'
    BY <1>1, <2>1, <2>2, <2>3, <2>4, <2>5, KeyStep
  <2>7. RenewalInv'
    BY <2>1 DEF RenewalInv, Nothing
  <2>8. StageInv'
    BY <1>0, <2>1, <2>2, OldKeysStay DEF StageInv, net
  <2> QED BY <2>6, <2>7, <2>8 DEF KeyInv
<1>3. CASE ~(RenewWrite /\ Present(renewal.id))
  <2>1. UNCHANGED <<issued, issuedTo>>
    BY <1>3 DEF Environment, RenewWrite, EndEnrollKey, SetApproved, UnrevokeNode, RenewRead, KeyAges,
                GraceEnds, GoesStale, DeleteNode, OnlyNode, cp
  <2>2. \A j \in Ids : /\ node'[j].key \in {node[j].key, None}
                       /\ node'[j].prev \in {node[j].prev, None}
    <3>1. CASE UNCHANGED node
      BY <3>1
    <3>2. ASSUME NEW i \in Ids, SetApproved(i) \/ KeyAges(i) \/ GraceEnds(i) \/ GoesStale(i)
          PROVE  \A j \in Ids : node'[j].key = node[j].key /\ node'[j].prev = node[j].prev
      BY <3>2 DEF SetApproved, KeyAges, GraceEnds, GoesStale, OnlyNode, TypeOK, StoreTypeOK, NodeRow
    <3>3. ASSUME NEW i \in Ids, NEW revoke \in BOOLEAN, DeleteNode(i, revoke)
          PROVE  \A j \in Ids : node'[j] \in {node[j], Blank}
      BY <3>3 DEF DeleteNode, TypeOK, StoreTypeOK
    <3>4. \/ UNCHANGED node
          \/ \E i \in Ids : SetApproved(i) \/ KeyAges(i) \/ GraceEnds(i) \/ GoesStale(i)
          \/ \E i \in Ids, revoke \in BOOLEAN : DeleteNode(i, revoke)
      BY <1>3 DEF Environment, RenewWrite, EndEnrollKey, UnrevokeNode, RenewRead, cp
    <3>5. Blank.key = None /\ Blank.prev = None
      BY DEF Blank
    <3> QED BY <3>1, <3>2, <3>3, <3>4, <3>5
  <2>3. \A j \in Ids : RowKeys(j)' \subseteq RowKeys(j)
    BY <2>2 DEF RowKeys
  <2>4. HeldInv' /\ RowInv' /\ OwnerInv'
    BY <1>1, <2>1, <2>3, NoKeyStep
  <2>5. RenewalInv'
    <3>1. CASE renewal' = renewal \/ renewal' = Nothing
      BY <2>1, <3>1 DEF KeyInv, RenewalInv, Nothing
    <3>2. ASSUME NEW i \in Ids, RenewRead(i) PROVE RenewalInv'
      <4>1. renewal' = [id |-> i, key |-> node[i].key]
        BY <3>2 DEF RenewRead
      <4>2. node[i].key # None => node[i].key \in RowKeys(i)
        BY DEF RowKeys
      <4> QED BY <2>1, <4>1, <4>2 DEF KeyInv, RowInv, RenewalInv
    <3> QED
      BY <1>3, <3>1, <3>2 DEF Environment, RenewWrite, EndEnrollKey, SetApproved, UnrevokeNode,
         KeyAges, GraceEnds, GoesStale, DeleteNode, OnlyNode
  <2>6. StageInv'
    BY <1>0, <2>1 DEF KeyInv, StageInv, net
  <2> QED BY <2>4, <2>5, <2>6 DEF KeyInv
<1> QED BY <1>2, <1>3

LEMMA InitKeyInv == Init => KeyInv
BY DEF Init, KeyInv, HeldInv, RowInv, OwnerInv, RenewalInv, StageInv, HeldBy, RowKeys, Blank,
       Nothing, NoReply

LEMMA NextKeyInv == TypeOK /\ KeyInv /\ [Next]_vars => KeyInv'
<1> SUFFICES ASSUME TypeOK, KeyInv, [Next]_vars PROVE KeyInv'
  OBVIOUS
<1>1. CASE UNCHANGED vars
  BY <1>1 DEF vars, cp, net, agent, KeyInv, HeldInv, RowInv, OwnerInv, RenewalInv, StageInv,
              HeldBy, RowKeys
<1> QED BY <1>1, HandlerKeyInv, AgentKeyInv, EnvironmentKeyInv DEF Next

\* Every key in use belongs to one agent and one row.
THEOREM KeysBelong == Spec => []KeyInv
<1>1. TypeOK /\ RetryInv /\ [Next]_vars => TypeOK' /\ RetryInv'
  BY NextTypeOK, NextRetryInv
<1> QED
  BY <1>1, InitTypeOK, InitRetryInv, InitKeyInv, NextKeyInv, PTL DEF Spec

\* A node key authenticates as at most one node.
THEOREM KeysNameOneNode == Spec => []KeyNamesOneNode
<1>1. TypeOK /\ KeyInv => KeyNamesOneNode
  BY DEF KeyNamesOneNode, KeyInv, RowInv, RowKeys, Accepts
<1> QED BY <1>1, TypeCorrect, KeysBelong, PTL

\* Two agents are never both accepted as one node.
THEOREM NodesHaveOneAgent == Spec => []OneAgentPerNode
<1>1. TypeOK /\ KeyInv => OneAgentPerNode
  <2> SUFFICES ASSUME TypeOK, KeyInv, NEW i \in Ids, NEW a \in Agents, NEW b \in Agents,
                      CanActAs(a, i), CanActAs(b, i)
               PROVE  a = b
    BY DEF OneAgentPerNode
  <2>1. ASSUME NEW c \in Agents, CanActAs(c, i)
        PROVE  \E k \in RowKeys(i) : issuedTo[k].agent = c
    <3>1. PICK k \in {mem[c].key, disk[c].key} : Accepts(i, k)
      BY <2>1 DEF CanActAs
    <3>2. k \in RowKeys(i) /\ k \in HeldBy(c)
      BY <3>1 DEF Accepts, RowKeys, HeldBy
    <3> QED BY <3>2 DEF KeyInv, HeldInv
  <2>2. PICK k \in RowKeys(i) : issuedTo[k].agent = a
    BY <2>1
  <2>3. PICK l \in RowKeys(i) : issuedTo[l].agent = b
    BY <2>1
  <2> QED BY <2>2, <2>3 DEF KeyInv, OwnerInv
<1> QED BY <1>1, TypeCorrect, KeysBelong, PTL

-----------------------------------------------------------------------------
(* A key that was refused, or replaced, is never a row's current key again.  *)

Displaced(k) == \A i \in Ids : node[i].key = k => k = None

\* What an agent knows of the keys it holds when it enrolls again.
RefusedAt(a) ==
  /\ stage[a] \in {"gate", "byId"} => Displaced(req[a].key)
  /\ pc[a] \in {"join", "joining", "joinedKey"} => Displaced(disk[a].key)
  /\ pc[a] \in {"idle", "polling", "saveKey"} => disk[a].key = mem[a].key \/ Displaced(disk[a].key)
  /\ pc[a] = "joinedId" => disk[a].key = reply[a].key \/ Displaced(disk[a].key)
  /\ pc[a] \in {"saveKey", "joinedKey", "joinedId"} => stage[a] = "none"
  /\ pc[a] = "joining" => stage[a] \in EnrollStages \cup {"reply"}
  /\ pc[a] = "polling" =>
       /\ req[a].key = mem[a].key /\ stage[a] \in PollStages \cup {"reply"}
       /\ reply[a].status = "unauth" \/ reply[a].key # None => Displaced(mem[a].key)

RefusedInv == \A a \in Agents : RefusedAt(a)

\* A step changes the current key of a row to a new key, or removes the row.
LEMMA CurrentKeyStep ==
  ASSUME TypeOK, [Next]_vars, NEW i \in Ids
  PROVE  node'[i].key \in {node[i].key, None} \/ (node'[i].key = NewKey /\ issued < MaxKeys)
<1>0. node \in [Ids -> NodeRow]
  BY DEF TypeOK, StoreTypeOK
<1>1. ASSUME NEW a \in Agents \cup {NoAgent}, NEW j, NEW row, IssueKey(a, j, row), row.key = NewKey
      PROVE  node'[i].key = node[i].key \/ (node'[i].key = NewKey /\ issued < MaxKeys)
  BY <1>0, <1>1 DEF IssueKey
<1>2. \A j \in Ids : ReplaceKey(j).key = NewKey /\ \A p, g : OverlapKey(j, p, g).key = NewKey
  BY <1>0 DEF ReplaceKey, OverlapKey, NodeRow
<1>3. CASE Environment
  <2>1. CASE RenewWrite
    BY <1>1, <1>2, <2>1 DEF RenewWrite, Present
  <2>2. ASSUME NEW j \in Ids, SetApproved(j) \/ KeyAges(j) \/ GraceEnds(j) \/ GoesStale(j)
        PROVE  node'[i].key = node[i].key
    BY <1>0, <2>2 DEF SetApproved, KeyAges, GraceEnds, GoesStale, OnlyNode, NodeRow
  <2>3. ASSUME NEW j \in Ids, NEW revoke \in BOOLEAN, DeleteNode(j, revoke)
        PROVE  node'[i].key \in {node[i].key, None}
    BY <1>0, <2>3 DEF DeleteNode, Blank
  <2> QED
    BY <1>3, <2>1, <2>2, <2>3 DEF Environment, EndEnrollKey, UnrevokeNode, RenewRead, cp
<1>4. ASSUME NEW a \in Agents, Handler(a)
      PROVE  node'[i].key \in {node[i].key, None} \/ (node'[i].key = NewKey /\ issued < MaxKeys)
  <2>1. CASE Confirm(a) \/ Touch(a)
    <3>1. ASSUME NEW j \in Ids
          PROVE  /\ [node[j] EXCEPT !.prev = None, !.grace = FALSE].key = node[j].key
                 /\ [node[j] EXCEPT !.stale = FALSE].key = node[j].key
      BY <1>0 DEF NodeRow
    <3>2. CASE ~Present(seen[a].id)
      BY <2>1, <3>2 DEF Confirm, Touch
    <3>3. CASE Present(seen[a].id) /\ Confirm(a)
      BY <1>0, <3>1, <3>3 DEF Confirm, Present
    <3>4. CASE Present(seen[a].id) /\ Touch(a)
      BY <1>0, <3>1, <3>4 DEF Touch, Present
    <3> QED BY <2>1, <3>2, <3>3, <3>4
  <2>2. CASE Rotate(a) \/ Rekey(a)
    <3>1. CASE UNCHANGED node
      BY <3>1
    <3>2. CASE Rotate(a) /\ Present(seen[a].id)
      <4>1. PICK g : IssueKey(a, seen[a].id, OverlapKey(seen[a].id, req[a].key, g))
        BY <3>2 DEF Rotate
      <4> QED BY <1>1, <1>2, <3>2, <4>1 DEF Present
    <3>3. CASE Rekey(a) /\ Present(seen[a].id)
      <4>1. IssueKey(a, seen[a].id, ReplaceKey(seen[a].id))
        BY <3>3 DEF Rekey
      <4> QED BY <1>1, <1>2, <3>3, <4>1 DEF Present
    <3> QED BY <2>2, <3>1, <3>2, <3>3 DEF Rotate, Rekey
  <2>3. CASE Create(a)
    BY <1>1, <2>3 DEF Create
  <2> QED BY <1>4, <2>1, <2>2, <2>3 DEF Handler, Auth, Gate, ById, ByName, Consume, cp
<1>5. ASSUME NEW a \in Agents, AgentStep(a) \/ Discard(a) \/ GiveUp(a) \/ Crash(a) \/ WipeDisk(a)
      PROVE  node' = node
  BY <1>5 DEF AgentStep, Boot, Poll, PollReply, SaveKey, Enroll, EnrollReply, JoinSaveKey,
              JoinSaveId, Discard, GiveUp, Crash, WipeDisk, cp
<1>6. CASE UNCHANGED vars
  BY <1>6 DEF vars, cp
<1> QED BY <1>3, <1>4, <1>5, <1>6 DEF Next

LEMMA DisplacedStays ==
  ASSUME TypeOK, KeyInv, [Next]_vars, NEW a \in Agents,
         NEW k \in {mem[a].key, disk[a].key, req[a].key, reply[a].key}, Displaced(k)
  PROVE  Displaced(k)'
<1>1. k = None \/ (k \in Nat /\ k <= issued)
  BY HeldTypes, KeyFacts DEF KeyInv, HeldInv, HeldBy
<1>2. issued \in Nat
  BY KeyFacts DEF TypeOK, StoreTypeOK
<1>3. ASSUME NEW i \in Ids, node'[i].key = k, k # None PROVE FALSE
  <2>1. node'[i].key # NewKey
    BY <1>1, <1>2, <1>3 DEF NewKey
  <2>2. node[i].key = k
    BY <1>3, <2>1, CurrentKeyStep
  <2> QED BY <1>3, <2>2 DEF Displaced
<1> QED BY <1>3 DEF Displaced

LEMMA IssuedRow ==
  ASSUME TypeOK, NEW a \in Agents, NEW i \in Ids, NEW row, IssueKey(a, i, row), row.key = NewKey
  PROVE  /\ NewKey = issued + 1 /\ node'[i].key = NewKey
         /\ \A j \in Ids : j # i => node'[j] = node[j]
BY DEF IssueKey, NewKey, TypeOK, StoreTypeOK

LEMMA DisplacedNone == Displaced(None)
BY DEF Displaced

\* A handler step concerns its own agent only.
LEMMA HandlerFrame ==
  ASSUME TypeOK, NEW a \in Agents, Handler(a)
  PROVE  /\ UNCHANGED <<req, renewal, agent>>
         /\ \A b \in Agents : b # a =>
              stage'[b] = stage[b] /\ seen'[b] = seen[b] /\ reply'[b] = reply[b]
<1>0. NetTypeOK
  BY DEF TypeOK
<1>1. UNCHANGED <<req, renewal, agent>>
  BY DEF Handler, Auth, Confirm, Rotate, Touch, Gate, ById, ByName, Rekey, Consume, Create
<1>2. \A b \in Agents : b # a =>
        stage'[b] = stage[b] /\ seen'[b] = seen[b] /\ reply'[b] = reply[b]
  BY <1>0 DEF Handler, Auth, Confirm, Rotate, Touch, Gate, ById, ByName, Rekey, Consume, Create,
              Refuse, Answer, Goto, NetTypeOK
<1> QED BY <1>1, <1>2

\* So does a step of an agent.
LEMMA AgentFrame ==
  ASSUME TypeOK, NEW a \in Agents,
         AgentStep(a) \/ Discard(a) \/ GiveUp(a) \/ Crash(a) \/ WipeDisk(a)
  PROVE  /\ UNCHANGED <<cp, renewal, seen>>
         /\ \A b \in Agents : b # a =>
              /\ mem'[b] = mem[b] /\ disk'[b] = disk[b] /\ pc'[b] = pc[b]
              /\ req'[b] = req[b] /\ reply'[b] = reply[b] /\ stage'[b] = stage[b]
<1>0. NetTypeOK /\ AgentTypeOK
  BY DEF TypeOK
<1>1. UNCHANGED <<cp, renewal, seen>>
  BY DEF AgentStep, Boot, Poll, PollReply, SaveKey, Enroll, EnrollReply, JoinSaveKey, JoinSaveId,
         Discard, GiveUp, Crash, WipeDisk, net
<1>2. \A b \in Agents : b # a =>
        /\ mem'[b] = mem[b] /\ disk'[b] = disk[b] /\ pc'[b] = pc[b]
        /\ req'[b] = req[b] /\ reply'[b] = reply[b] /\ stage'[b] = stage[b]
  BY <1>0 DEF AgentStep, Boot, Poll, PollReply, SaveKey, Enroll, EnrollReply, JoinSaveKey,
              JoinSaveId, Discard, GiveUp, Crash, WipeDisk, Save, Send, Become, Goto, net, agent,
              NetTypeOK, AgentTypeOK
<1> QED BY <1>1, <1>2

\* What does not change for agent b stays known of it.
LEMMA RefusedFrame ==
  ASSUME TypeOK, KeyInv, [Next]_vars, NEW b \in Agents, RefusedAt(b),
         mem'[b] = mem[b], disk'[b] = disk[b], pc'[b] = pc[b],
         req'[b] = req[b], reply'[b] = reply[b], stage'[b] = stage[b]
  PROVE  RefusedAt(b)'
BY DisplacedStays DEF RefusedAt

LEMMA InitRefusedInv == Init => RefusedInv
BY DEF Init, RefusedInv, RefusedAt

LEMMA HandlerRefusedInv ==
  ASSUME TypeOK, KeyInv, RefusedInv, NEW a \in Agents, Handler(a)
  PROVE  RefusedAt(a)'
<1>0. NetTypeOK /\ [Next]_vars /\ RefusedAt(a)
  BY DEF TypeOK, Next, RefusedInv
<1>1. UNCHANGED <<req, pc, disk, mem>>
  BY HandlerFrame DEF agent
<1>2. \A k \in {mem[a].key, disk[a].key, req[a].key, reply[a].key} : Displaced(k) => Displaced(k)'
  BY <1>0, DisplacedStays
\* The handler of an enrollment.
<1>3. CASE Gate(a) \/ ById(a) \/ ByName(a) \/ Rekey(a) \/ Consume(a) \/ Create(a)
  <2>1. stage[a] \in EnrollStages /\ pc[a] \notin {"polling", "saveKey", "joinedKey", "joinedId"}
    BY <1>0, <1>3 DEF Gate, ById, ByName, Rekey, Consume, Create, EnrollStages, PollStages, RefusedAt
  <2>2. /\ stage'[a] \in EnrollStages \cup {"reply"}
        /\ stage'[a] \in {"gate", "byId"} => stage[a] \in {"gate", "byId"}
    BY <1>0, <1>3
    DEF Gate, ById, ByName, Rekey, Consume, Create, Refuse, Answer, Goto, NetTypeOK, EnrollStages
  <2> QED BY <1>0, <1>1, <1>2, <2>1, <2>2 DEF RefusedAt
\* The handler of a poll.
<1>4. CASE Auth(a) \/ Confirm(a) \/ Rotate(a) \/ Touch(a)
  <2>1. stage[a] \in PollStages /\ pc[a] \notin {"joining", "saveKey", "joinedKey", "joinedId"}
    BY <1>0, <1>4 DEF Auth, Confirm, Rotate, Touch, EnrollStages, PollStages, RefusedAt
  <2>2. stage'[a] \in PollStages \cup {"reply"} /\ stage'[a] \notin {"gate", "byId"}
    BY <1>0, <1>4 DEF Auth, Confirm, Rotate, Touch, Refuse, Answer, Goto, NetTypeOK, PollStages
  <2>3. ASSUME pc[a] = "polling", reply'[a].status = "unauth" \/ reply'[a].key # None
        PROVE  Displaced(mem[a].key)'
    <3>1. req[a].key = mem[a].key
      BY <1>0, <2>3 DEF RefusedAt
    <3>2. CASE reply'[a] = reply[a]
      BY <1>0, <1>1, <1>2, <2>3, <3>2 DEF RefusedAt
    <3>3. CASE Auth(a)
      <4>1. reply'[a].key = None /\ node' = node
        BY <1>0, <3>3 DEF Auth, Refuse, Answer, NetTypeOK, cp
      <4>2. \A i \in Ids : ~Accepts(i, req[a].key)
        BY <1>0, <2>3, <3>3, <4>1 DEF Auth, Refuse, Answer, NetTypeOK
      <4> QED BY <1>1, <3>1, <4>1, <4>2 DEF Accepts, Present, Displaced
    <3>4. CASE Rotate(a) /\ Present(seen[a].id)
      <4> DEFINE i == seen[a].id
      <4>1. PICK g : IssueKey(a, i, OverlapKey(i, req[a].key, g))
        BY <3>4 DEF Rotate
      <4>2. i \in Ids /\ node[i] \in NodeRow
        BY <3>4 DEF Present, TypeOK, StoreTypeOK
      <4>3. OverlapKey(i, req[a].key, g).key = NewKey
        BY <4>2 DEF OverlapKey, NodeRow
      <4>4. req[a].key \in Keys /\ req[a].key <= issued /\ issuedTo[req[a].key].node = i
        <5>1. req[a].key # None /\ issuedTo[req[a].key].node = i
          BY <3>4 DEF Rotate, KeyInv, StageInv
        <5>2. req[a].key \in HeldBy(a)
          BY <5>1 DEF HeldBy
        <5> QED BY <5>1, <5>2, HeldTypes DEF KeyInv, HeldInv
      <4>5. /\ NewKey = issued + 1 /\ node'[i].key = NewKey
            /\ \A j \in Ids : j # i => node'[j] = node[j]
        BY <4>1, <4>2, <4>3, IssuedRow
      <4>6. req[a].key # NewKey
        BY <4>4, <4>5, KeyFacts DEF TypeOK, StoreTypeOK
      <4>7. ASSUME NEW j \in Ids, j # i, node[j].key = req[a].key PROVE FALSE
        <5>1. req[a].key \in RowKeys(j)
          BY <4>4, <4>7, KeyFacts DEF RowKeys
        <5> QED BY <4>4, <4>7, <5>1 DEF KeyInv, RowInv
      <4>8. mem' = mem
        BY <1>1
      <4> QED BY <3>1, <4>5, <4>6, <4>7, <4>8 DEF Displaced
    <3> QED
      BY <1>0, <1>4, <3>2, <3>3, <3>4 DEF Rotate, Confirm, Touch, NetTypeOK
  <2> QED BY <1>0, <1>1, <1>2, <2>1, <2>2, <2>3 DEF RefusedAt
<1> QED BY <1>3, <1>4 DEF Handler

LEMMA AgentRefusedInv ==
  ASSUME TypeOK, KeyInv, RefusedInv, NEW a \in Agents,
         AgentStep(a) \/ Discard(a) \/ GiveUp(a) \/ Crash(a) \/ WipeDisk(a)
  PROVE  RefusedAt(a)'
<1>0. NetTypeOK /\ AgentTypeOK /\ RefusedAt(a)
  BY DEF TypeOK, RefusedInv
<1>1. \A k : Displaced(k)' <=> Displaced(k)
  BY AgentFrame DEF cp, Displaced
<1>2. Displaced(None)
  BY DisplacedNone
<1>3. CASE Boot(a)
  <2>1. /\ disk' = disk /\ UNCHANGED net
        /\ \/ disk[a].key # None /\ mem'[a] = disk[a] /\ pc'[a] = "idle"
           \/ disk[a].key = None /\ pc'[a] = "join"
    BY <1>0, <1>3 DEF Boot, Become, AgentTypeOK
  <2> QED BY <1>0, <1>1, <1>2, <2>1 DEF RefusedAt, net
<1>4. CASE Poll(a)
  <2>1. /\ UNCHANGED <<disk, mem>> /\ pc[a] = "idle" /\ pc'[a] = "polling" /\ stage'[a] = "auth"
        /\ req'[a].key = mem[a].key /\ reply'[a] = NoReply
    BY <1>0, <1>4 DEF Poll, Send, Goto, Become, NetTypeOK, AgentTypeOK
  <2> QED BY <1>0, <1>1, <2>1 DEF RefusedAt, NoReply, PollStages
<1>5. CASE PollReply(a)
  <2>1. /\ pc[a] = "polling" /\ stage'[a] = "none" /\ UNCHANGED <<req, reply>>
        /\ disk'[a].key = disk[a].key
        /\ \/ reply[a].key # None /\ pc'[a] = "saveKey"
           \/ reply[a].status = "unauth" /\ mem'[a].key = mem[a].key /\ pc'[a] = "join"
           \/ mem'[a].key = mem[a].key /\ pc'[a] = "idle"
    BY <1>0, <1>5 DEF PollReply, Goto, Become, NetTypeOK, AgentTypeOK, Identity
  <2> QED BY <1>0, <1>1, <2>1 DEF RefusedAt
<1>6. CASE SaveKey(a)
  <2>1. /\ pc[a] = "saveKey" /\ pc'[a] = "idle" /\ UNCHANGED <<net, mem>>
        /\ disk'[a].key \in {disk[a].key, mem[a].key}
    BY <1>0, <1>6 DEF SaveKey, Save, Become, AgentTypeOK, Identity
  <2> QED BY <1>0, <1>1, <2>1 DEF RefusedAt, net
<1>7. CASE Enroll(a)
  <2>1. /\ UNCHANGED <<disk, mem>> /\ pc[a] = "join" /\ pc'[a] = "joining" /\ stage'[a] = "gate"
        /\ req'[a].key = disk[a].key
    BY <1>0, <1>7 DEF Enroll, Send, Goto, Become, NetTypeOK, AgentTypeOK
  <2> QED BY <1>0, <1>1, <2>1 DEF RefusedAt, EnrollStages
<1>8. CASE EnrollReply(a)
  <2>1. /\ UNCHANGED <<disk, mem, req, reply>> /\ pc[a] = "joining" /\ stage'[a] = "none"
        /\ pc'[a] \in {"joinedKey", "join", "halted", "idle"}
    BY <1>0, <1>8 DEF EnrollReply, AfterFailedJoin, Goto, Become, NetTypeOK, AgentTypeOK
  <2> QED BY <1>0, <1>1, <2>1 DEF RefusedAt
<1>9. CASE JoinSaveKey(a)
  <2>1. /\ pc[a] = "joinedKey" /\ pc'[a] = "joinedId" /\ UNCHANGED <<net, mem>>
        /\ disk'[a].key \in {disk[a].key, reply[a].key}
    BY <1>0, <1>9 DEF JoinSaveKey, Save, Become, AgentTypeOK, Identity
  <2> QED BY <1>0, <1>1, <2>1 DEF RefusedAt, net
<1>10. CASE JoinSaveId(a)
  <2>1. /\ pc[a] = "joinedId" /\ pc'[a] = "idle" /\ UNCHANGED net
        /\ disk'[a].key = disk[a].key /\ mem'[a].key = reply[a].key
    BY <1>0, <1>10 DEF JoinSaveId, Save, Become, AgentTypeOK, Identity
  <2> QED BY <1>0, <1>1, <2>1 DEF RefusedAt, net
<1>11. CASE GiveUp(a)
  <2>1. /\ UNCHANGED <<net, disk, mem>>
        /\ \/ pc[a] = "polling" /\ pc'[a] = "idle"
           \/ pc[a] = "joining" /\ pc'[a] \in {"idle", "join"}
    BY <1>0, <1>11 DEF GiveUp, Waiting, AfterFailedJoin, Become, AgentTypeOK
  <2> QED BY <1>0, <1>1, <2>1 DEF RefusedAt, net
<1>12. CASE Crash(a) \/ WipeDisk(a)
  <2>1. UNCHANGED net /\ pc'[a] = "down"
    BY <1>0, <1>12 DEF Crash, WipeDisk, Become, AgentTypeOK
  <2> QED BY <1>0, <1>1, <2>1 DEF RefusedAt, net
<1>13. CASE Discard(a)
  <2>1. /\ UNCHANGED <<agent, req, reply>> /\ ~Waiting(a) /\ stage'[a] = "none"
    BY <1>0, <1>13 DEF Discard, Goto, NetTypeOK
  <2> QED BY <1>0, <1>1, <2>1 DEF RefusedAt, Waiting, agent
<1> QED
  BY <1>3, <1>4, <1>5, <1>6, <1>7, <1>8, <1>9, <1>10, <1>11, <1>12, <1>13 DEF AgentStep

LEMMA NextRefusedInv == TypeOK /\ KeyInv /\ RefusedInv /\ [Next]_vars => RefusedInv'
<1> SUFFICES ASSUME TypeOK, KeyInv, RefusedInv, [Next]_vars, NEW b \in Agents PROVE RefusedAt(b)'
  BY DEF RefusedInv
<1>0. RefusedAt(b)
  BY DEF RefusedInv
<1>1. CASE Environment \/ UNCHANGED vars
  <2>1. UNCHANGED <<net, agent>>
    BY <1>1 DEF Environment, RenewWrite, EndEnrollKey, SetApproved, UnrevokeNode, RenewRead,
                KeyAges, GraceEnds, GoesStale, DeleteNode, OnlyNode, vars
  <2> QED BY <1>0, <2>1, RefusedFrame DEF net, agent
<1>2. ASSUME NEW a \in Agents, Handler(a) PROVE RefusedAt(b)'
  <2>1. CASE b = a
    BY <1>2, <2>1, HandlerRefusedInv
  <2>2. CASE b # a
    BY <1>0, <1>2, <2>2, HandlerFrame, RefusedFrame DEF agent
  <2> QED BY <2>1, <2>2
<1>3. ASSUME NEW a \in Agents,
             AgentStep(a) \/ Discard(a) \/ GiveUp(a) \/ Crash(a) \/ WipeDisk(a)
      PROVE  RefusedAt(b)'
  <2>1. CASE b = a
    BY <1>3, <2>1, AgentRefusedInv
  <2>2. CASE b # a
    BY <1>0, <1>3, <2>2, AgentFrame, RefusedFrame
  <2> QED BY <2>1, <2>2
<1> QED BY <1>1, <1>2, <1>3 DEF Next

\* clusterEnroll's ownership proof is never given: an agent enrolls again only
\* when its key was refused, and a refused key is never current again, whatever
\* rotations, renewals, reclaims and crashes come between.
THEOREM OwnershipNeverProved == Spec => []ProofNeverHolds
<1>1. TypeOK /\ RefusedInv => ProofNeverHolds
  BY DEF RefusedInv, RefusedAt, Displaced, Present, ProofNeverHolds
<1>2. TypeOK /\ KeyInv /\ RefusedInv /\ [Next]_vars => RefusedInv'
  BY NextRefusedInv
<1> QED BY <1>1, <1>2, InitRefusedInv, TypeCorrect, KeysBelong, PTL DEF Spec

-----------------------------------------------------------------------------
(* Rotations, reclaims, removals, lost replies, crashes and lost disks never *)
(* take the row that is its own from an agent.  A row is an agent's own while *)
(* nobody else was ever given a key of it: a handler of the row's former     *)
(* owner that is still under way may take it over from the next one between  *)
(* the next one's Auth and Confirm, which then drops the grace key.          *)

NamesDiffer == \A a, b \in Agents : NameOf[a] = NameOf[b] => a = b

Calm == ~Happened("expire") /\ ~Happened("savefail")

\* Row i, while it is there, is a row of agent a's name.
Mine(a, i) == i = None \/ (i <= born /\ (Present(i) => node[i].base = NameOf[a]))

\* What rotations leave in the rows of the table, and whose they are.
TableCalm ==
  /\ \A i \in Ids : Present(i) => i <= born /\ (node[i].prev # None => node[i].grace)
  /\ \A k \in Keys : k <= issued /\ issuedTo[k].agent \in Agents =>
       issuedTo[k].node # None /\ Mine(issuedTo[k].agent, issuedTo[k].node)

\* The key an agent has persisted opens the row it has persisted, if that row is
\* its own ...
DiskCalm(a) ==
  /\ Mine(a, disk[a].id)
  /\ disk[a].id # None => disk[a].key # None
  /\ BelongsTo(a, disk[a].id) => Accepts(disk[a].id, disk[a].key)
  /\ pc[a] \in {"idle", "polling"} => Launched(a)
  /\ pc[a] \in {"idle", "polling", "join", "joining"} /\ Launched(a) => disk[a].key = mem[a].key
  /\ pc[a] = "saveKey" =>
       Launched(a) /\ (BelongsTo(a, disk[a].id) => Accepts(disk[a].id, mem[a].key))

\* ... while its poll is handled, and once it is answered ...
PollCalm(a) ==
  /\ stage[a] \in PollStages =>
       reply[a].status # "unauth" /\ (disk[a].key = req[a].key \/ disk[a] = Nothing)
  /\ stage[a] \in {"confirm", "rotate"} =>
       /\ reply[a].key = None
       /\ Mine(a, seen[a].id)
       /\ seen[a].key # req[a].key => seen[a].prev = req[a].key
  /\ stage[a] = "confirm" /\ BelongsTo(a, seen[a].id) => node[seen[a].id].key = req[a].key
  /\ pc[a] = "polling" /\ reply[a].status = "ok" =>
       /\ req[a].key # None /\ reply[a].id = issuedTo[req[a].key].node
       /\ Mine(a, reply[a].id)
       /\ BelongsTo(a, reply[a].id) =>
            /\ Accepts(reply[a].id, req[a].key)
            /\ reply[a].key # None => Accepts(reply[a].id, reply[a].key)
  /\ pc[a] = "polling" /\ reply[a].status = "unauth" => ~BelongsTo(a, disk[a].id)

\* ... and it enrolls again only when that row is its own no more.
JoinCalm(a) ==
  /\ pc[a] \in {"join", "joining", "joinedKey", "joinedId"} \/ stage[a] \in EnrollStages =>
       ~BelongsTo(a, disk[a].id)
  /\ stage[a] \in EnrollStages \ {"gate", "byId"} => ~Present(disk[a].id)
  /\ stage[a] \in {"gate", "byId"} => req[a].id = disk[a].id \/ disk[a] = Nothing
  /\ pc[a] = "join" /\ stage[a] \in PollStages => disk[a].id = None
  /\ stage[a] = "rekey" => Mine(a, seen[a].id)
  /\ (pc[a] = "joining" /\ reply[a].status = "ok") \/ pc[a] \in {"joinedKey", "joinedId"} =>
       /\ reply[a].key # None
       /\ Mine(a, reply[a].id)
       /\ BelongsTo(a, reply[a].id) => node[reply[a].id].key = reply[a].key
  /\ pc[a] = "joinedId" => disk[a].key = reply[a].key

CalmAt(a) == DiskCalm(a) /\ PollCalm(a) /\ JoinCalm(a)

LeftInv == \A e \in Events : left[e] <= Budget[e]

\* Only a renewal generates a key for an operator.
RenewInv ==
  ~Happened("renew") => renewal = Nothing /\ \A k \in Keys : k <= issued => issuedTo[k].agent \in Agents

CalmInv == LeftInv /\ RenewInv /\ (Calm => TableCalm /\ \A a \in Agents : CalmAt(a))

\* Row i keeps its name and its keys, or is removed.
KeepsName(i) == Present(i)' => Present(i) /\ node'[i].base = node[i].base
KeepsKeys(i) ==
  Present(i)' => /\ Present(i)
                 /\ node'[i].base = node[i].base /\ node'[i].key = node[i].key
                 /\ node'[i].prev = node[i].prev /\ node'[i].grace = node[i].grace

LEMMA KeepsFacts ==
  ASSUME NEW i, KeepsKeys(i)
  PROVE  /\ KeepsName(i)
         /\ \A k : Present(i)' /\ Accepts(i, k) => Accepts(i, k)'
BY DEF KeepsKeys, KeepsName, Accepts

LEMMA MineStays ==
  ASSUME TypeOK, born' \in Nat, born <= born', NEW a, NEW i \in Ids \cup {None}, Mine(a, i),
         i <= born => KeepsName(i)
  PROVE  Mine(a, i)' /\ (Present(i)' => Present(i))
<1>1. ~Present(None) /\ ~Present(None)' /\ born \in Nat
  BY KeyFacts, ConstantsAssumption DEF Present, TypeOK, StoreTypeOK
<1> QED BY <1>1, KeyFacts DEF Mine, KeepsName, TypeOK, StoreTypeOK

LEMMA AbsentNone == ~Present(None)
BY KeyFacts DEF Present

\* Nobody's row is the absent one.
LEMMA BelongsFacts ==
  ASSUME NEW a, NEW i, BelongsTo(a, i)
  PROVE  i \in Ids /\ i # None /\ Present(i)
BY KeyFacts DEF BelongsTo, Present

\* A row stays an agent's own only if it was: while no key is generated ...
LEMMA BelongsQuiet ==
  ASSUME UNCHANGED <<issued, issuedTo>>, NEW a, NEW i,
         Present(i)' => Present(i) /\ node'[i].key = node[i].key
  PROVE  BelongsTo(a, i)' => BelongsTo(a, i)
BY DEF BelongsTo

\* ... and when one is, for another agent or another row.
LEMMA BelongsIssue ==
  ASSUME TypeOK, KeyInv, NEW b \in Agents \cup {NoAgent}, NEW j \in Ids, NEW row,
         IssueKey(b, j, row), row.key = NewKey, NEW a, NEW i, a # b \/ i # j, BelongsTo(a, i)'
  PROVE  BelongsTo(a, i) /\ i # j /\ node'[i] = node[i]
<1>1. /\ NewKey \in Keys /\ NewKey = issued + 1 /\ issued' = issued + 1
      /\ issuedTo'[NewKey] = [agent |-> b, node |-> j]
      /\ \A k \in Keys : k <= issued => issuedTo'[k] = issuedTo[k]
      /\ node'[j] = row
      /\ \A n \in Ids : n # j => node'[n] = node[n]
  BY IssueKeyFacts DEF TypeOK
<1>2. issued \in Nat /\ Keys \subseteq Nat
  BY KeyFacts DEF TypeOK, StoreTypeOK
<1>3. i \in Ids /\ Present(i)'
  BY DEF BelongsTo, Present
<1>4. i # j
  <2> SUFFICES ASSUME i = j PROVE FALSE
    OBVIOUS
  <2>1. issuedTo'[node'[i].key].agent = b
    BY <1>1
  <2> QED BY <2>1 DEF BelongsTo
<1>5. node'[i] = node[i] /\ Present(i)
  BY <1>1, <1>3, <1>4 DEF Present
<1>6. node[i].key \in RowKeys(i) /\ node[i].key \in Keys /\ node[i].key <= issued
  <2>1. node[i].key \in RowKeys(i)
    BY <1>5 DEF RowKeys, Present
  <2> QED BY <1>3, <2>1, RowKeyTypes DEF KeyInv, RowInv
<1>7. \A k \in Keys : k <= issued => k <= issued'
  BY <1>1, <1>2
<1> QED BY <1>1, <1>4, <1>5, <1>6, <1>7 DEF BelongsTo

\* A row an agent was given a key of is no other agent's own.
LEMMA NotAnothers ==
  ASSUME NEW a \in Agents, NEW c \in Agents, c # a, NEW k \in Keys, NEW i,
         k <= issued, issuedTo[k].agent = a, issuedTo[k].node = i
  PROVE  ~BelongsTo(c, i)
BY ConstantsAssumption DEF BelongsTo

\* No budget grows, so what has not happened had not happened before.
LEMMA LeftStep ==
  ASSUME TypeOK, LeftInv, [Next]_vars
  PROVE  /\ LeftInv'
         /\ \A e \in Events : Happened(e) => Happened(e)'
         /\ \A e \in Events : Spend(e) => Happened(e)'
<1>1. left \in [Events -> Nat] /\ Budget \in [Events -> Nat]
  BY ConstantsAssumption DEF TypeOK, AgentTypeOK
<1>2. UNCHANGED left \/ \E e \in Events : Spend(e)
  <2>1. CASE Environment
    BY <2>1 DEF Environment, RenewWrite, EndEnrollKey, SetApproved, UnrevokeNode, RenewRead, KeyAges,
                GraceEnds, GoesStale, DeleteNode, Events
  <2>2. ASSUME NEW a \in Agents, Handler(a) PROVE UNCHANGED left \/ Spend("expire")
    BY <2>2 DEF Handler, Auth, Confirm, Rotate, Touch, Gate, ById, ByName, Rekey, Consume, Create
  <2>3. ASSUME NEW a \in Agents,
               AgentStep(a) \/ Discard(a) \/ GiveUp(a) \/ Crash(a) \/ WipeDisk(a)
        PROVE  UNCHANGED left \/ \E e \in Events : Spend(e)
    BY <2>3 DEF AgentStep, Boot, Poll, PollReply, SaveKey, Enroll, EnrollReply, JoinSaveKey,
                JoinSaveId, Save, Discard, GiveUp, Crash, WipeDisk, Events
  <2> QED BY <2>1, <2>2, <2>3 DEF Next, vars, Events
<1>3. ASSUME NEW e \in Events, Spend(e)
      PROVE  \A f \in Events : left'[f] <= left[f] /\ left'[f] \in Nat /\ left'[e] < left[e]
  BY <1>1, <1>3 DEF Spend
<1>4. \A f \in Events : left'[f] <= left[f] /\ left'[f] \in Nat
  BY <1>1, <1>2, <1>3
<1> QED BY <1>1, <1>3, <1>4 DEF LeftInv, Happened

LEMMA CalmBefore ==
  ASSUME TypeOK, LeftInv, [Next]_vars, Calm'
  PROVE  /\ Calm
         /\ ~Spend("expire") /\ ~Spend("savefail")
BY LeftStep DEF Calm, Events

\* While no renewal was asked for, every key was generated for an agent.
LEMMA NextRenewInv ==
  ASSUME TypeOK, LeftInv, RenewInv, [Next]_vars
  PROVE  RenewInv'
<1> SUFFICES ASSUME ~Happened("renew")'
             PROVE  renewal' = Nothing /\ \A k \in Keys : k <= issued' => issuedTo'[k].agent \in Agents
  BY DEF RenewInv
<1>1. /\ ~Spend("renew") /\ renewal = Nothing
      /\ \A k \in Keys : k <= issued => issuedTo[k].agent \in Agents
  BY LeftStep DEF RenewInv, Events
<1>2. CASE UNCHANGED <<issued, issuedTo, renewal>>
  BY <1>1, <1>2
<1>3. ASSUME NEW a \in Agents, NEW j \in Ids, NEW row, IssueKey(a, j, row), UNCHANGED renewal
      PROVE  renewal' = Nothing /\ \A k \in Keys : k <= issued' => issuedTo'[k].agent \in Agents
  <2>1. /\ NewKey = issued + 1 /\ issued' = issued + 1
        /\ issuedTo'[NewKey] = [agent |-> a, node |-> j]
        /\ \A k \in Keys : k <= issued => issuedTo'[k] = issuedTo[k]
    <3>1. a \in Agents \cup {NoAgent} /\ StoreTypeOK
      BY DEF TypeOK
    <3> QED BY <1>3, <3>1, IssueKeyFacts
  <2>2. issued \in Nat /\ Keys \subseteq Nat
    BY KeyFacts, ConstantsAssumption DEF TypeOK, StoreTypeOK
  <2>3. \A k \in Keys : k <= issued' => k <= issued \/ k = NewKey
    BY <2>1, <2>2
  <2> QED BY <1>1, <1>3, <2>1, <2>3
<1>4. CASE Environment
  <2>1. ~RenewWrite
    BY <1>1 DEF RenewWrite
  <2> QED BY <1>1, <1>2, <1>4, <2>1 DEF Environment, EndEnrollKey, SetApproved, UnrevokeNode, RenewRead,
      KeyAges, GraceEnds, GoesStale, DeleteNode, OnlyNode
<1>5. ASSUME NEW a \in Agents, Handler(a)
      PROVE  renewal' = Nothing /\ \A k \in Keys : k <= issued' => issuedTo'[k].agent \in Agents
  <2>1. UNCHANGED renewal
    BY <1>5, HandlerFrame
  <2>2. UNCHANGED <<issued, issuedTo>> \/ \E j \in Ids : \E row : IssueKey(a, j, row)
    <3>1. CASE Create(a)
      <4>1. born + 1 \in Ids
        BY <3>1, ConstantsAssumption DEF Create, TypeOK, StoreTypeOK, Ids
      <4> QED BY <3>1, <4>1 DEF Create
    <3> QED BY <1>5, <3>1 DEF Handler, Auth, Confirm, Rotate, Touch, Gate, ById, ByName, Rekey, Consume, cp, Present
  <2> QED BY <1>2, <1>3, <2>1, <2>2
<1>6. ASSUME NEW a \in Agents, AgentStep(a) \/ Discard(a) \/ GiveUp(a) \/ Crash(a) \/ WipeDisk(a)
      PROVE  UNCHANGED <<issued, issuedTo, renewal>>
  BY <1>6, AgentFrame DEF cp
<1>7. CASE UNCHANGED vars
  BY <1>2, <1>7 DEF vars, cp
<1> QED BY <1>2, <1>4, <1>5, <1>6, <1>7 DEF Next

\* A step for agent b, or for an operator: no row that was there changes its
\* name, and no other agent's own row its keys.
TouchesOwn(b) ==
  /\ born' \in Nat /\ born <= born'
  /\ \A i \in Ids : i <= born => KeepsName(i)
  /\ \A k \in Keys : k <= issued => issuedTo'[k] = issuedTo[k]
  /\ \A c \in Agents : c # b => \A i : BelongsTo(c, i)' => BelongsTo(c, i) /\ KeepsKeys(i)

LEMMA QuietTable ==
  ASSUME TypeOK, TableCalm, NEW b, UNCHANGED <<born, issued, issuedTo>>,
         \A i \in Ids : KeepsKeys(i)
  PROVE  /\ TableCalm' /\ TouchesOwn(b)
         /\ \A c, i : BelongsTo(c, i)' => BelongsTo(c, i)
<1>1. born \in Nat /\ \A k \in Keys : issuedTo[k].node \in Ids \cup {None}
  BY ConstantsAssumption DEF TypeOK, StoreTypeOK
<1>2. KeepsKeys(None)
  BY AbsentNone, KeyFacts DEF KeepsKeys, Present
<1>3. \A i \in Ids \cup {None} : KeepsName(i)
  BY <1>2, KeepsFacts
<1>4. \A a, i : i \in Ids \cup {None} /\ Mine(a, i) => Mine(a, i)'
  BY <1>1, <1>3 DEF Mine, KeepsName
<1>5. TableCalm'
  BY <1>1, <1>4 DEF TableCalm, KeepsKeys
<1>6. \A c, i : BelongsTo(c, i)' => BelongsTo(c, i)
  <2> SUFFICES ASSUME NEW c, NEW i, BelongsTo(c, i)' PROVE BelongsTo(c, i)
    OBVIOUS
  <2>1. i \in Ids
    BY DEF BelongsTo, Present
  <2> QED BY <2>1, BelongsQuiet DEF KeepsKeys
<1>7. \A c, i : BelongsTo(c, i)' => BelongsTo(c, i) /\ KeepsKeys(i)
  BY <1>6 DEF BelongsTo, Present
<1> QED BY <1>1, <1>3, <1>5, <1>6, <1>7 DEF TouchesOwn

\* Row j changes for agent b, who owns its name, or for an operator: another key is
\* generated for it, or its keys are those of nobody else.
LEMMA RowChange ==
  ASSUME TypeOK, KeyInv, TableCalm, NEW b \in Agents \cup {NoAgent}, NEW j \in Ids, NEW row, Present(j),
         node' = [node EXCEPT ![j] = row], row.base = node[j].base,
         b \in Agents => node[j].base = NameOf[b],
         row.prev # None => row.grace, UNCHANGED born,
         \/ /\ UNCHANGED <<issued, issuedTo>> /\ row.key = node[j].key
            /\ \A c \in Agents : c # b => ~BelongsTo(c, j)
         \/ IssueKey(b, j, row) /\ row.key = NewKey
  PROVE  /\ TableCalm' /\ TouchesOwn(b)
         /\ \A i : i # j /\ BelongsTo(b, i)' => BelongsTo(b, i)
<1>0. node \in [Ids -> NodeRow] /\ born \in Nat /\ issued \in Nat
  BY ConstantsAssumption DEF TypeOK, StoreTypeOK
<1>1. node'[j] = row /\ \A i \in Ids : i # j => node'[i] = node[i]
  BY <1>0
<1>2. \A i \in Ids : KeepsName(i) /\ (i # j => KeepsKeys(i))
  BY <1>1 DEF KeepsName, KeepsKeys, Present
<1>3. \A a, i : i \in Ids \cup {None} /\ Mine(a, i) => Mine(a, i)'
  BY <1>2 DEF Mine, KeepsName
<1>4. j # None /\ j <= born /\ (b \in Agents => Mine(b, j))
  BY KeyFacts DEF TableCalm, Mine
<1>5. \A k \in Keys : k <= issued => issuedTo'[k] = issuedTo[k]
  <2>1. CASE IssueKey(b, j, row)
    BY <2>1, IssueKeyFacts DEF TypeOK
  <2> QED BY <2>1
<1>6. \A k \in Keys : k <= issued' =>
        k <= issued \/ (IssueKey(b, j, row) /\ issuedTo'[k] = [agent |-> b, node |-> j])
  <2>1. CASE IssueKey(b, j, row)
    <3>1. NewKey \in Keys /\ issued' = issued + 1 /\ NewKey = issued + 1
          /\ issuedTo'[NewKey] = [agent |-> b, node |-> j]
      BY <2>1, IssueKeyFacts DEF TypeOK
    <3> QED BY <1>0, <2>1, <3>1, KeyFacts
  <2> QED BY <2>1
<1>7. \A k \in Keys : k <= issued' /\ issuedTo'[k].agent \in Agents =>
        issuedTo'[k].node # None /\ Mine(issuedTo[k].agent, issuedTo[k].node)'
  <2> SUFFICES ASSUME NEW k \in Keys, k <= issued', issuedTo'[k].agent \in Agents
               PROVE  issuedTo'[k].node # None /\ Mine(issuedTo[k].agent, issuedTo[k].node)'
    OBVIOUS
  <2>1. CASE k <= issued
    <3>1. /\ issuedTo'[k] = issuedTo[k] /\ issuedTo[k].node \in Ids \cup {None}
          /\ issuedTo[k].agent \in Agents
      BY <1>5, <2>1 DEF TypeOK, StoreTypeOK
    <3>2. PICK c \in Agents, i \in Ids \cup {None} : c = issuedTo[k].agent /\ i = issuedTo[k].node
      BY <3>1
    <3>3. Mine(c, i)' /\ issuedTo'[k].agent = c /\ issuedTo'[k].node = i /\ i # None
      BY <1>3, <2>1, <3>1, <3>2 DEF TableCalm
    <3>4. Mine(issuedTo[k].agent, issuedTo[k].node)'
      BY <3>3 DEF Mine, Present
    <3> QED BY <3>3, <3>4
  <2>2. CASE issuedTo'[k] = [agent |-> b, node |-> j]
    <3>1. issuedTo'[k].agent = b /\ issuedTo'[k].node = j
      BY <2>2
    <3>2. Mine(b, j)'
      BY <1>3, <1>4, <3>1
    <3>3. Mine(issuedTo[k].agent, issuedTo[k].node)'
      BY <3>1, <3>2 DEF Mine, Present
    <3> QED BY <1>4, <3>1, <3>3
  <2> QED BY <1>6, <2>1, <2>2
<1>8. TableCalm'
  <2>1. \A i \in Ids : Present(i)' => i <= born'
    BY <1>2 DEF KeepsName, TableCalm
  <2>2. \A i \in Ids : Present(i)' /\ node'[i].prev # None => node'[i].grace
    BY <1>1 DEF TableCalm, Present
  <2> QED BY <1>7, <2>1, <2>2 DEF TableCalm
<1>9. ASSUME NEW c, NEW i, c # b \/ i # j, c \in Agents \/ i # j, BelongsTo(c, i)'
      PROVE  BelongsTo(c, i) /\ i # j
  <2>1. i \in Ids
    BY <1>9 DEF BelongsTo, Present
  <2>2. CASE IssueKey(b, j, row) /\ row.key = NewKey
    BY <1>9, <2>2, BelongsIssue
  <2>3. CASE UNCHANGED <<issued, issuedTo>> /\ row.key = node[j].key /\ \A d \in Agents : d # b => ~BelongsTo(d, j)
    <3>1. node'[i].key = node[i].key /\ (Present(i)' => Present(i))
      BY <1>1, <1>2, <2>1, <2>3 DEF KeepsName
    <3>2. BelongsTo(c, i)
      BY <1>9, <2>3, <3>1, BelongsQuiet
    <3> QED BY <1>9, <2>3, <3>2
  <2> QED BY <2>2, <2>3
<1>10. ASSUME NEW c \in Agents, c # b, NEW i, BelongsTo(c, i)' PROVE BelongsTo(c, i) /\ KeepsKeys(i)
  <2>1. BelongsTo(c, i) /\ i # j
    BY <1>9, <1>10
  <2>2. i \in Ids
    BY <2>1 DEF BelongsTo, Present
  <2> QED BY <1>2, <2>1, <2>2
<1> QED BY <1>0, <1>2, <1>5, <1>8, <1>9, <1>10 DEF TouchesOwn

\* Administrators and the clock take no row from an agent but by removing it, or by
\* making it the operator's.
LEMMA EnvironmentCalm ==
  ASSUME TypeOK, KeyInv, LeftInv, TableCalm, Environment, Calm'
  PROVE  UNCHANGED <<net, agent>> /\ TableCalm' /\ TouchesOwn(NoAgent)
<1>0. node \in [Ids -> NodeRow]
  BY DEF TypeOK, StoreTypeOK
<1>1. ~Spend("expire")
  BY CalmBefore DEF Next
<1>2. UNCHANGED <<net, agent>>
  BY DEF Environment, RenewWrite, EndEnrollKey, SetApproved, UnrevokeNode, RenewRead, KeyAges,
     GraceEnds, GoesStale, DeleteNode, OnlyNode
<1>3. ASSUME NEW j \in Ids, SetApproved(j) \/ KeyAges(j) \/ GoesStale(j), NEW i \in Ids
      PROVE  KeepsKeys(i)
  <2>1. /\ node'[i].base = node[i].base /\ node'[i].key = node[i].key
        /\ node'[i].prev = node[i].prev /\ node'[i].grace = node[i].grace
    BY <1>0, <1>3 DEF SetApproved, KeyAges, GoesStale, OnlyNode, NodeRow
  <2> QED BY <2>1 DEF KeepsKeys, Present
<1>4. ASSUME NEW j \in Ids, NEW revoke \in BOOLEAN, DeleteNode(j, revoke), NEW i \in Ids
      PROVE  KeepsKeys(i)
  BY <1>0, <1>4 DEF DeleteNode, Blank, KeepsKeys, Present
<1>5. ASSUME UNCHANGED node, NEW i \in Ids PROVE KeepsKeys(i)
  BY <1>5 DEF KeepsKeys, Present
<1>6. CASE RenewWrite /\ Present(renewal.id)
  <2> DEFINE j == renewal.id
             row == OverlapKey(j, renewal.key, TRUE)
  <2>1. j \in Ids /\ Present(j) /\ IssueKey(NoAgent, j, row) /\ UNCHANGED born
    BY <1>6 DEF RenewWrite, Present
  <2>2. row.base = node[j].base /\ row.key = NewKey /\ row.grace = TRUE
    BY <1>0, <2>1 DEF OverlapKey, NodeRow
  <2>3. node' = [node EXCEPT ![j] = row] /\ NoAgent \notin Agents
    BY <2>1, ConstantsAssumption DEF IssueKey
  <2> HIDE DEF row
  <2> QED BY <1>2, <2>1, <2>2, <2>3, RowChange
<1>7. CASE ~(RenewWrite /\ Present(renewal.id))
  <2>1. /\ UNCHANGED <<born, issued, issuedTo>>
        /\ \/ UNCHANGED node
           \/ \E j \in Ids : SetApproved(j) \/ KeyAges(j) \/ GoesStale(j)
           \/ \E j \in Ids, revoke \in BOOLEAN : DeleteNode(j, revoke)
    BY <1>1, <1>7 DEF Environment, RenewWrite, EndEnrollKey, SetApproved, UnrevokeNode, RenewRead, KeyAges,
       GraceEnds, GoesStale, DeleteNode, OnlyNode, cp
  <2>2. \A i \in Ids : KeepsKeys(i)
    BY <1>3, <1>4, <1>5, <2>1
  <2> QED BY <1>2, <2>1, <2>2, QuietTable
<1> QED BY <1>6, <1>7

\* What is known of an agent holds on while its own state, and the keys of the
\* rows that are its own, stay.
LEMMA CalmFrame ==
  ASSUME TypeOK, NEW a \in Agents, CalmAt(a), NEW b, b # a, TouchesOwn(b),
         mem'[a] = mem[a], disk'[a] = disk[a], pc'[a] = pc[a], seen'[a] = seen[a],
         req'[a] = req[a], reply'[a] = reply[a], stage'[a] = stage[a],
         req[a].key # None => issuedTo'[req[a].key].node = issuedTo[req[a].key].node
  PROVE  CalmAt(a)'
<1>1. {disk[a].id, seen[a].id, reply[a].id} \subseteq Ids \cup {None}
  BY DEF TypeOK, NetTypeOK, AgentTypeOK, Identity
<1>2. \A i \in Ids \cup {None} : Mine(a, i) => Mine(a, i)' /\ (Present(i)' => Present(i))
  <2> SUFFICES ASSUME NEW i \in Ids \cup {None}, Mine(a, i)
               PROVE  Mine(a, i)' /\ (Present(i)' => Present(i))
    OBVIOUS
  <2>1. i <= born => KeepsName(i)
    BY KeyFacts DEF TouchesOwn, KeepsName, Present
  <2> QED BY <2>1, MineStays DEF TouchesOwn
<1>3. \A i : BelongsTo(a, i)' =>
        /\ BelongsTo(a, i) /\ node'[i].key = node[i].key
        /\ \A k : Accepts(i, k) => Accepts(i, k)'
  <2> SUFFICES ASSUME NEW i, BelongsTo(a, i)'
               PROVE  /\ BelongsTo(a, i) /\ node'[i].key = node[i].key
                      /\ \A k : Accepts(i, k) => Accepts(i, k)'
    OBVIOUS
  <2>1. BelongsTo(a, i) /\ KeepsKeys(i) /\ Present(i)'
    BY DEF TouchesOwn, BelongsTo
  <2> QED BY <2>1, KeepsFacts DEF KeepsKeys
<1>4. Mine(a, disk[a].id) /\ DiskCalm(a) /\ PollCalm(a) /\ JoinCalm(a)
  BY DEF CalmAt, DiskCalm
<1>5. DiskCalm(a)'
  BY <1>1, <1>2, <1>3, <1>4 DEF DiskCalm, Launched
<1>6. PollCalm(a)'
  BY <1>1, <1>2, <1>3, <1>4 DEF PollCalm
<1>7. JoinCalm(a)'
  BY <1>1, <1>2, <1>3, <1>4 DEF JoinCalm
<1> QED BY <1>5, <1>6, <1>7 DEF CalmAt

LEMMA AgentCalm ==
  ASSUME TypeOK, KeyInv, RefusedInv, LeftInv, NEW a \in Agents, CalmAt(a), Calm',
         AgentStep(a) \/ Discard(a) \/ GiveUp(a) \/ Crash(a) \/ WipeDisk(a)
  PROVE  CalmAt(a)'
<1>0. NetTypeOK /\ AgentTypeOK /\ RefusedAt(a) /\ DiskCalm(a) /\ PollCalm(a) /\ JoinCalm(a)
  BY DEF TypeOK, RefusedInv, CalmAt
<1>1. ~Spend("savefail")
  BY CalmBefore DEF Next
<1>2. /\ \A i : (Mine(a, i)' <=> Mine(a, i)) /\ (Present(i)' <=> Present(i))
      /\ \A i, k : Accepts(i, k)' <=> Accepts(i, k)
      /\ \A i : BelongsTo(a, i)' <=> BelongsTo(a, i)
      /\ node' = node /\ issuedTo' = issuedTo /\ UNCHANGED seen
  BY AgentFrame DEF cp, Mine, Present, Accepts, BelongsTo
<1>3. /\ ~Present(None) /\ ~BelongsTo(a, None) /\ Mine(a, None)
      /\ Nothing = [id |-> None, key |-> None]
  BY AbsentNone DEF Mine, Nothing, BelongsTo
<1> USE DEF DiskCalm, PollCalm, JoinCalm, CalmAt, Launched
<1>4. CASE Boot(a)
  <2>1. /\ pc[a] = "down" /\ disk' = disk /\ UNCHANGED net
        /\ \/ disk[a].key # None /\ mem'[a] = disk[a] /\ pc'[a] = "idle"
           \/ disk[a].key = None /\ mem'[a].key = None /\ pc'[a] = "join"
    BY <1>0, <1>4 DEF Boot, Become, AgentTypeOK, Nothing
  <2> QED BY <1>0, <1>2, <1>3, <2>1 DEF net
<1>5. CASE Poll(a)
  <2>1. /\ UNCHANGED <<disk, mem>> /\ pc[a] = "idle" /\ pc'[a] = "polling" /\ stage'[a] = "auth"
        /\ req'[a].key = mem[a].key /\ reply'[a] = NoReply
    BY <1>0, <1>5 DEF Poll, Send, Goto, Become, NetTypeOK, AgentTypeOK
  <2> QED BY <1>0, <1>2, <2>1 DEF NoReply, EnrollStages
<1>6. CASE PollReply(a)
  <2>1. /\ pc[a] = "polling" /\ stage'[a] = "none" /\ UNCHANGED <<req, reply>>
        /\ disk'[a].key = disk[a].key
        /\ disk'[a].id \in {disk[a].id} \cup (IF reply[a].status = "ok" THEN {reply[a].id} ELSE {})
    BY <1>0, <1>6 DEF PollReply, Goto, NetTypeOK, AgentTypeOK, Identity
  <2>2. \/ /\ reply[a].key # None /\ reply[a].status = "ok"
           /\ mem'[a].key = reply[a].key /\ pc'[a] = "saveKey"
        \/ /\ reply[a].status = "unauth" /\ mem'[a].key = mem[a].key /\ pc'[a] = "join"
           /\ disk'[a].id = disk[a].id
        \/ mem'[a].key = mem[a].key /\ pc'[a] = "idle"
    BY <1>0, <1>6 DEF PollReply, Become, AgentTypeOK, Identity
  <2>3. disk[a].key = mem[a].key /\ req[a].key = mem[a].key /\ mem[a].key # None
    BY <1>0, <2>1 DEF RefusedAt
  <2>4. Mine(a, disk'[a].id) /\ (BelongsTo(a, disk'[a].id) => Accepts(disk'[a].id, disk[a].key))
    BY <1>0, <2>1, <2>3
  <2>5. reply[a].status = "ok" /\ reply[a].key # None =>
          (BelongsTo(a, disk'[a].id) => Accepts(disk'[a].id, reply[a].key))
    <3>1. ASSUME reply[a].status = "ok", reply[a].key # None, BelongsTo(a, disk'[a].id)
          PROVE  disk'[a].id = reply[a].id
      <4>1. req[a].key \in RowKeys(disk'[a].id) /\ disk'[a].id \in Ids
        BY <2>3, <2>4, <3>1 DEF Accepts, RowKeys, Present
      <4>2. issuedTo[req[a].key].node = disk'[a].id
        BY <4>1 DEF KeyInv, RowInv
      <4> QED BY <1>0, <2>1, <3>1, <4>2
    <3> QED BY <1>0, <2>1, <3>1
  <2> QED BY <1>0, <1>2, <2>1, <2>2, <2>3, <2>4, <2>5 DEF EnrollStages, PollStages
<1>7. CASE SaveKey(a)
  <2>1. /\ pc[a] = "saveKey" /\ pc'[a] = "idle" /\ UNCHANGED <<net, mem>>
        /\ disk'[a].key = mem[a].key /\ disk'[a].id = disk[a].id
    BY <1>0, <1>1, <1>7 DEF SaveKey, Save, Become, AgentTypeOK, Identity
  <2>2. stage[a] = "none"
    BY <1>0, <2>1 DEF RefusedAt
  <2> QED BY <1>0, <1>2, <2>1, <2>2 DEF net, EnrollStages, PollStages
<1>8. CASE Enroll(a)
  <2>1. /\ UNCHANGED <<disk, mem>> /\ pc[a] = "join" /\ pc'[a] = "joining" /\ stage'[a] = "gate"
        /\ reply'[a] = NoReply /\ req'[a].id = disk[a].id
    BY <1>0, <1>8 DEF Enroll, Send, Goto, Become, NetTypeOK, AgentTypeOK
  <2> QED BY <1>0, <1>2, <2>1 DEF NoReply, PollStages
<1>9. CASE EnrollReply(a)
  <2>1. /\ UNCHANGED <<disk, mem, req, reply>> /\ pc[a] = "joining" /\ stage'[a] = "none"
        /\ \/ pc'[a] = "joinedKey" /\ reply[a].status = "ok"
           \/ pc'[a] \in {"join", "halted"}
           \/ pc'[a] = "idle" /\ mem[a].key # None
    BY <1>0, <1>9 DEF EnrollReply, AfterFailedJoin, Goto, Become, NetTypeOK, AgentTypeOK
  <2> QED BY <1>0, <1>2, <2>1 DEF EnrollStages, PollStages
<1>10. CASE JoinSaveKey(a)
  <2>1. /\ pc[a] = "joinedKey" /\ pc'[a] = "joinedId" /\ UNCHANGED <<net, mem>>
        /\ disk'[a].key = reply[a].key /\ disk'[a].id = disk[a].id
    BY <1>0, <1>1, <1>10 DEF JoinSaveKey, Save, Become, AgentTypeOK, Identity
  <2>2. stage[a] = "none"
    BY <1>0, <2>1 DEF RefusedAt
  <2> QED BY <1>0, <1>2, <2>1, <2>2 DEF net, EnrollStages, PollStages
<1>11. CASE JoinSaveId(a)
  <2>1. /\ pc[a] = "joinedId" /\ pc'[a] = "idle" /\ UNCHANGED net
        /\ disk'[a].key = disk[a].key /\ disk'[a].id = reply[a].id /\ mem'[a].key = reply[a].key
    BY <1>0, <1>1, <1>11 DEF JoinSaveId, Save, Become, AgentTypeOK, Identity
  <2>2. stage[a] = "none"
    BY <1>0, <2>1 DEF RefusedAt
  <2>3. BelongsTo(a, reply[a].id) => Accepts(reply[a].id, reply[a].key)
    BY <1>0, <2>1 DEF Accepts, BelongsTo
  <2> QED BY <1>0, <1>2, <2>1, <2>2, <2>3 DEF net, EnrollStages, PollStages
<1>12. CASE GiveUp(a)
  <2>1. /\ UNCHANGED <<net, disk, mem>>
        /\ \/ pc[a] = "polling" /\ pc'[a] = "idle"
           \/ pc[a] = "joining" /\ pc'[a] = "idle" /\ mem[a].key # None
           \/ pc[a] = "joining" /\ pc'[a] = "join"
    BY <1>0, <1>12 DEF GiveUp, Waiting, AfterFailedJoin, Become, AgentTypeOK
  <2>2. pc[a] = "joining" => stage[a] \notin PollStages
    BY <1>0 DEF RefusedAt, PollStages, EnrollStages
  <2> QED BY <1>0, <1>2, <2>1, <2>2 DEF net
<1>13. CASE Crash(a)
  <2>1. UNCHANGED <<net, disk>> /\ pc'[a] = "down"
    BY <1>0, <1>13 DEF Crash, Become, AgentTypeOK
  <2> QED BY <1>0, <1>2, <2>1 DEF net
<1>14. CASE WipeDisk(a)
  <2>1. UNCHANGED <<net, pc>> /\ pc[a] = "down" /\ disk'[a] = Nothing
    BY <1>0, <1>14 DEF WipeDisk, AgentTypeOK
  <2> QED BY <1>0, <1>2, <1>3, <2>1 DEF net
<1>15. CASE Discard(a)
  <2>1. UNCHANGED <<agent, req, reply>> /\ ~Waiting(a) /\ stage'[a] = "none"
    BY <1>0, <1>15 DEF Discard, Goto, NetTypeOK
  <2> QED BY <1>0, <1>2, <2>1 DEF Waiting, agent, EnrollStages, PollStages
<1> QED
  BY <1>4, <1>5, <1>6, <1>7, <1>8, <1>9, <1>10, <1>11, <1>12, <1>13, <1>14, <1>15 DEF AgentStep

LEMMA PollHandlerCalm ==
  ASSUME TypeOK, KeyInv, RefusedInv, LeftInv, Calm', TableCalm, NEW a \in Agents, CalmAt(a),
         Auth(a) \/ Confirm(a) \/ Rotate(a) \/ Touch(a)
  PROVE  TableCalm' /\ TouchesOwn(a) /\ CalmAt(a)'
<1>0. NetTypeOK /\ AgentTypeOK /\ RefusedAt(a) /\ DiskCalm(a) /\ PollCalm(a) /\ JoinCalm(a)
  BY DEF TypeOK, RefusedInv, CalmAt
<1>1. UNCHANGED <<req, pc, disk, mem>>
  BY DEF Auth, Confirm, Rotate, Touch, agent
<1>2. stage[a] \in PollStages /\ pc[a] \notin {"joining", "saveKey", "joinedKey", "joinedId"}
  BY <1>0 DEF Auth, Confirm, Rotate, Touch, EnrollStages, PollStages, RefusedAt
<1>3. stage'[a] \in PollStages \cup {"reply"} /\ stage'[a] \notin EnrollStages
  BY <1>0 DEF Auth, Confirm, Rotate, Touch, Refuse, Answer, Goto, NetTypeOK, PollStages, EnrollStages
<1>4. ~Present(None) /\ Nothing = [id |-> None, key |-> None] /\ born \in Nat
  BY AbsentNone, ConstantsAssumption DEF Nothing, TypeOK, StoreTypeOK
<1>5. pc[a] = "polling" => req[a].key # None /\ disk[a].key = req[a].key
  BY <1>0 DEF DiskCalm, Launched, RefusedAt
<1>6. /\ {disk[a].id, seen[a].id, reply[a].id} \subseteq Ids \cup {None}
      /\ req[a].key \in Keys \cup {None}
  BY <1>0 DEF NetTypeOK, AgentTypeOK, Identity
\* What a step on the rows leaves to show.
<1>7. ASSUME TableCalm', TouchesOwn(a), stage'[a] # "confirm",
             BelongsTo(a, disk[a].id)' => Accepts(disk[a].id, disk[a].key)',
             stage'[a] = "rotate" =>
               /\ reply'[a].key = None /\ seen'[a] = seen[a] /\ Mine(a, seen[a].id)'
               /\ seen[a].key # req[a].key => seen[a].prev = req[a].key,
             reply'[a].status = reply[a].status,
             pc[a] = "polling" /\ reply[a].status = "ok" =>
               /\ reply'[a].id = reply[a].id
               /\ BelongsTo(a, reply[a].id)' =>
                    /\ Accepts(reply[a].id, req[a].key)'
                    /\ reply'[a].key # None => node'[reply[a].id].key = reply'[a].key
      PROVE  CalmAt(a)'
  <2>1. \A i \in Ids \cup {None} : Mine(a, i) => Mine(a, i)' /\ (Present(i)' => Present(i))
    <3> SUFFICES ASSUME NEW i \in Ids \cup {None}, Mine(a, i)
                 PROVE  Mine(a, i)' /\ (Present(i)' => Present(i))
      OBVIOUS
    <3>1. i <= born => KeepsName(i)
      BY KeyFacts, <1>7 DEF TouchesOwn, KeepsName, Present
    <3> QED BY <1>7, <3>1, MineStays DEF TouchesOwn
  <2>2. req[a].key # None => issuedTo'[req[a].key] = issuedTo[req[a].key]
    <3>1. req[a].key # None => req[a].key \in HeldBy(a)
      BY DEF HeldBy
    <3> QED BY <1>6, <1>7, <3>1 DEF TouchesOwn, KeyInv, HeldInv
  <2>3. DiskCalm(a)'
    BY <1>0, <1>1, <1>2, <1>6, <1>7, <2>1 DEF DiskCalm, Launched
  <2>4. PollCalm(a)'
    <3>1. reply'[a].status = "ok" /\ pc[a] = "polling" =>
            /\ reply'[a].id = issuedTo'[req[a].key].node /\ Mine(a, reply[a].id)'
      BY <1>0, <1>5, <1>6, <1>7, <2>1, <2>2 DEF PollCalm
    <3>2. reply'[a].status # "unauth"
      BY <1>0, <1>2, <1>7 DEF PollCalm
    <3>3. stage'[a] \in PollStages => disk'[a].key = req'[a].key \/ disk'[a] = Nothing
      BY <1>0, <1>1, <1>2 DEF PollCalm
    <3>4. pc[a] = "polling" /\ reply'[a].key # None /\ reply'[a].status = "ok" /\ BelongsTo(a, reply[a].id)'
            => Accepts(reply[a].id, reply[a].key)'
      BY <1>7 DEF Accepts, BelongsTo
    <3> QED BY <1>1, <1>5, <1>7, <3>1, <3>2, <3>3, <3>4 DEF PollCalm
  <2>5. JoinCalm(a)'
    <3>1. pc[a] = "join" => disk[a].id = None /\ ~BelongsTo(a, None)'
      BY <1>0, <1>2, KeyFacts DEF JoinCalm, BelongsTo, Present
    <3> QED BY <1>1, <1>2, <1>3, <3>1 DEF JoinCalm, EnrollStages
  <2> QED BY <2>3, <2>4, <2>5 DEF CalmAt
<1>8. CASE Auth(a)
  <2>1. UNCHANGED <<node, born, issued, issuedTo>>
    BY <1>8 DEF Auth, cp
  <2>2. TableCalm' /\ TouchesOwn(a)
    BY <1>1, <2>1, QuietTable DEF KeepsKeys, Present
  <2>3. /\ \A i : (Mine(a, i)' <=> Mine(a, i)) /\ (Present(i)' <=> Present(i))
        /\ \A i : BelongsTo(a, i)' <=> BelongsTo(a, i)
        /\ \A i, k : Accepts(i, k)' <=> Accepts(i, k)
    BY <2>1 DEF Mine, Present, Accepts, BelongsTo
  <2>4. DiskCalm(a)' /\ JoinCalm(a)'
    BY <1>0, <1>1, <1>2, <1>3, <2>1, <2>3 DEF DiskCalm, JoinCalm, Launched, EnrollStages
  <2>5. CASE \E s : Refuse(a, s) /\ s \in {"unauth", "forbidden"}
                 /\ (s = "unauth" => \A i \in Ids : ~Accepts(i, req[a].key))
    <3>1. /\ stage'[a] = "reply"
          /\ \/ reply'[a].status = "forbidden"
             \/ reply'[a].status = "unauth" /\ \A i \in Ids : ~Accepts(i, req[a].key)
      BY <1>0, <2>5 DEF Refuse, Answer, Goto, NetTypeOK
    <3>2. PollCalm(a)'
      BY <1>0, <1>1, <1>2, <1>5, <2>3, <3>1 DEF PollCalm, DiskCalm, BelongsTo, Present, PollStages
    <3> QED BY <2>2, <2>4, <3>2 DEF CalmAt
  <2>6. CASE \E i \in Ids :
               /\ Accepts(i, req[a].key)
               /\ seen' = [seen EXCEPT ![a] = [id |-> i, key |-> node[i].key,
                                               prev |-> node[i].prev, due |-> node[i].due]]
               /\ Goto(a, IF node[i].key # req[a].key THEN "rotate"
                          ELSE IF node[i].prev # None THEN "confirm"
                          ELSE IF node[i].due THEN "rotate" ELSE "touch")
               /\ reply' = [reply EXCEPT ![a] = [status |-> "ok", id |-> i, key |-> None]]
    <3>1. PICK i \in Ids :
            /\ Accepts(i, req[a].key)
            /\ seen'[a].id = i /\ seen'[a].key = node[i].key /\ seen'[a].prev = node[i].prev
            /\ stage'[a] = "confirm" => node[i].key = req[a].key
            /\ reply'[a] = [status |-> "ok", id |-> i, key |-> None]
      BY <1>0, <2>6 DEF Goto, NetTypeOK
    <3>2. Mine(a, i) /\ req[a].key # None /\ issuedTo[req[a].key].node = i
      <4>1. req[a].key \in RowKeys(i) /\ req[a].key \in HeldBy(a) /\ req[a].key \in Keys
        BY <1>6, <3>1 DEF Accepts, RowKeys, HeldBy
      <4>2. req[a].key <= issued /\ issuedTo[req[a].key].node = i /\ issuedTo[req[a].key].agent = a
        BY <4>1 DEF KeyInv, HeldInv, RowInv
      <4> QED BY <3>1, <4>1, <4>2 DEF TableCalm, Accepts
    <3>3. PollCalm(a)'
      BY <1>0, <1>1, <1>2, <2>1, <2>3, <3>1, <3>2 DEF PollCalm, Accepts
    <3> QED BY <2>2, <2>4, <3>3 DEF CalmAt
  <2> QED BY <1>8, <2>5, <2>6 DEF Auth
<1>9. CASE Touch(a)
  <2> DEFINE j == seen[a].id
  <2>1. /\ UNCHANGED <<born, issued, issuedTo, reply, seen>> /\ stage'[a] = "reply"
        /\ UNCHANGED node \/ (j \in Ids /\ node' = [node EXCEPT ![j] = [node[j] EXCEPT !.stale = FALSE]])
    BY <1>0, <1>9 DEF Touch, Goto, NetTypeOK, Present
  <2>2. \A i \in Ids : /\ node'[i].base = node[i].base /\ node'[i].key = node[i].key
                       /\ node'[i].prev = node[i].prev /\ node'[i].grace = node[i].grace
    BY <2>1 DEF TypeOK, StoreTypeOK, NodeRow
  <2>3. \A i \in Ids : KeepsKeys(i)
    BY <2>2 DEF KeepsKeys, Present
  <2>4. /\ TableCalm' /\ TouchesOwn(a)
        /\ \A i : BelongsTo(a, i)' => BelongsTo(a, i)
    BY <2>1, <2>3, QuietTable
  <2>5. \A i \in Ids \cup {None} : \A k : Accepts(i, k) => Accepts(i, k)'
    BY <1>4, <2>2 DEF Accepts, Present
  <2>6. \A i \in Ids \cup {None} : Present(i)' => Present(i)
    BY <1>4, <2>3, KeyFacts DEF KeepsKeys, Present
  <2>7. DiskCalm(a)' /\ JoinCalm(a)'
    <3>1. \A i \in Ids \cup {None} : Mine(a, i) => Mine(a, i)'
      BY <2>1, <2>2 DEF Mine, Present
    <3> QED BY <1>0, <1>1, <1>2, <1>3, <1>6, <2>4, <2>5, <2>6, <3>1 DEF DiskCalm, JoinCalm, Launched, EnrollStages
  <2>8. PollCalm(a)'
    <3>1. \A i \in Ids \cup {None} : Mine(a, i) => Mine(a, i)'
      BY <2>1, <2>2 DEF Mine, Present
    <3> QED BY <1>0, <1>1, <1>2, <1>6, <2>1, <2>4, <2>5, <2>6, <3>1 DEF PollCalm, PollStages
  <2> QED BY <2>4, <2>7, <2>8 DEF CalmAt
<1>10. CASE Confirm(a)
  <2> DEFINE j == seen[a].id
  <2>1. /\ UNCHANGED <<born, issued, issuedTo, reply, seen>> /\ stage[a] = "confirm"
        /\ stage'[a] \in {"rotate", "touch"}
    BY <1>0, <1>10 DEF Confirm, Goto, NetTypeOK
  <2>2. req[a].key # None /\ issuedTo[req[a].key].node = j /\ Mine(a, j)
    BY <1>0, <2>1 DEF KeyInv, StageInv, PollCalm
  <2>3. CASE ~Present(j)
    <3>1. UNCHANGED node
      BY <1>10, <2>3 DEF Confirm
    <3>2. TableCalm' /\ TouchesOwn(a)
      BY <1>1, <2>1, <3>1, QuietTable DEF KeepsKeys, Present
    <3>3. /\ \A i : (Mine(a, i)' <=> Mine(a, i)) /\ (Present(i)' <=> Present(i))
          /\ \A i : BelongsTo(a, i)' <=> BelongsTo(a, i)
          /\ \A i, k : Accepts(i, k)' <=> Accepts(i, k)
      BY <2>1, <3>1 DEF Mine, Present, Accepts, BelongsTo
    <3>4. DiskCalm(a)' /\ JoinCalm(a)'
      BY <1>0, <1>1, <1>2, <1>3, <2>1, <3>1, <3>3 DEF DiskCalm, JoinCalm, Launched, EnrollStages
    <3>5. PollCalm(a)'
      BY <1>0, <1>1, <1>2, <2>1, <2>3, <3>1, <3>3 DEF PollCalm
    <3> QED BY <3>2, <3>4, <3>5 DEF CalmAt
  <2>4. CASE Present(j)
    <3> DEFINE row == [node[j] EXCEPT !.prev = None, !.grace = FALSE]
    <3>1. j \in Ids /\ node' = [node EXCEPT ![j] = row] /\ node[j] \in NodeRow
      BY <1>10, <2>4 DEF Confirm, Present, TypeOK, StoreTypeOK
    <3>2. row.base = node[j].base /\ row.key = node[j].key /\ row.prev = None
      BY <3>1 DEF NodeRow
    <3>3. node[j].base = NameOf[a] /\ (BelongsTo(a, j) => node[j].key = req[a].key)
      BY <1>0, <2>1, <2>2, <2>4, <3>1, KeyFacts DEF Mine, PollCalm
    <3>4. \A c \in Agents : c # a => ~BelongsTo(c, j)
      <4>1. req[a].key \in HeldBy(a) /\ req[a].key \in Keys
        BY <1>6, <2>2 DEF HeldBy
      <4>2. req[a].key <= issued /\ issuedTo[req[a].key].agent = a
        BY <4>1 DEF KeyInv, HeldInv
      <4> QED BY <2>2, <4>1, <4>2, NotAnothers
    <3> HIDE DEF row
    <3>5. /\ TableCalm' /\ TouchesOwn(a)
          /\ \A i : i # j /\ BelongsTo(a, i)' => BelongsTo(a, i)
      BY <2>1, <2>4, <3>1, <3>2, <3>3, <3>4, RowChange
    <3>6. node'[j] = row /\ \A i \in Ids : i # j => node'[i] = node[i]
      BY <3>1 DEF TypeOK, StoreTypeOK
    <3>7. \A i : BelongsTo(a, i)' => BelongsTo(a, i)
      <4>1. PICK i \in Ids : i = j
        BY <3>1
      <4>2. BelongsTo(a, i)' => BelongsTo(a, i)
        BY <2>1, <2>4, <3>2, <3>6, <4>1, BelongsQuiet
      <4> QED BY <3>5, <4>1, <4>2
    <3>8. ASSUME NEW i, BelongsTo(a, i)', NEW k, Accepts(i, k), i = j => k = req[a].key
          PROVE  Accepts(i, k)'
      <4>1. i \in Ids /\ BelongsTo(a, i) /\ Present(i)'
        BY <3>7, <3>8, BelongsFacts DEF BelongsTo
      <4> QED BY <3>2, <3>3, <3>6, <3>8, <4>1 DEF Accepts, Present
    <3>9. BelongsTo(a, disk[a].id)' => Accepts(disk[a].id, disk[a].key)'
      <4>1. BelongsTo(a, disk[a].id) => disk[a].key = req[a].key
        BY <1>0, <1>2, <1>4, BelongsFacts DEF PollCalm
      <4> QED BY <1>0, <1>1, <3>7, <3>8, <4>1 DEF DiskCalm, BelongsTo, Accepts
    <3>10. pc[a] = "polling" /\ reply[a].status = "ok" /\ BelongsTo(a, reply[a].id)' =>
            Accepts(reply[a].id, req[a].key)'
      BY <1>0, <1>1, <2>1, <3>7, <3>8 DEF PollCalm, BelongsTo, Accepts
    <3>11. Mine(a, seen[a].id)'
      BY <2>1, <2>2, <3>2, <3>3, <3>6, <3>1, <2>4 DEF Mine, Present
    <3>12. reply[a].key = None /\ (seen[a].key # req[a].key => seen[a].prev = req[a].key)
      BY <1>0, <2>1 DEF PollCalm
    <3> QED BY <1>7, <2>1, <3>5, <3>9, <3>10, <3>11, <3>12
  <2> QED BY <2>3, <2>4
<1>11. CASE Rotate(a)
  <2> DEFINE j == seen[a].id
  <2>1. UNCHANGED <<born, seen>> /\ stage[a] = "rotate" /\ stage'[a] = "touch"
    BY <1>0, <1>11 DEF Rotate, Goto, NetTypeOK
  <2>2. req[a].key # None /\ issuedTo[req[a].key].node = j /\ Mine(a, j)
    BY <1>0, <2>1 DEF KeyInv, StageInv, PollCalm
  <2>3. CASE ~Present(j)
    <3>1. UNCHANGED <<node, issued, issuedTo, reply>>
      BY <1>11, <2>3 DEF Rotate
    <3>2. TableCalm' /\ TouchesOwn(a)
      BY <1>1, <2>1, <3>1, QuietTable DEF KeepsKeys, Present
    <3>3. /\ \A i : (Mine(a, i)' <=> Mine(a, i)) /\ (Present(i)' <=> Present(i))
          /\ \A i : BelongsTo(a, i)' <=> BelongsTo(a, i)
          /\ \A i, k : Accepts(i, k)' <=> Accepts(i, k)
      BY <2>1, <3>1 DEF Mine, Present, Accepts, BelongsTo
    <3>4. DiskCalm(a)' /\ JoinCalm(a)'
      BY <1>0, <1>1, <1>2, <1>3, <2>1, <3>1, <3>3 DEF DiskCalm, JoinCalm, Launched, EnrollStages
    <3>5. PollCalm(a)'
      BY <1>0, <1>1, <1>2, <2>1, <3>1, <3>3 DEF PollCalm
    <3> QED BY <3>2, <3>4, <3>5 DEF CalmAt
  <2>4. CASE Present(j)
    <3>1. /\ IssueKey(a, j, OverlapKey(j, req[a].key, TRUE))
          /\ reply' = [reply EXCEPT ![a].key = NewKey]
      <4>1. PICK g : /\ IssueKey(a, j, OverlapKey(j, req[a].key, g))
                     /\ \/ g = (seen[a].key = req[a].key \/ node[j].prev # seen[a].prev \/ node[j].grace)
                        \/ Spend("expire")
                     /\ reply' = [reply EXCEPT ![a].key = NewKey]
        BY <1>11, <2>4 DEF Rotate
      <4>2. ~Spend("expire")
        BY <1>11, CalmBefore DEF Next, Handler
      <4>3. seen[a].key # req[a].key /\ node[j].prev = seen[a].prev => node[j].grace
        BY <1>0, <2>1, <2>2, <2>4 DEF PollCalm, TableCalm, Present
      <4>4. seen[a].key = req[a].key \/ node[j].prev # seen[a].prev \/ node[j].grace
        BY <4>3
      <4> QED BY <4>1, <4>2, <4>4
    <3> DEFINE row == OverlapKey(j, req[a].key, TRUE)
    <3>2. j \in Ids /\ node' = [node EXCEPT ![j] = row] /\ node[j] \in NodeRow
      BY <2>4, <3>1 DEF IssueKey, Present, TypeOK, StoreTypeOK
    <3>3. row.base = node[j].base /\ row.key = NewKey /\ row.prev = req[a].key /\ row.grace = TRUE
      BY <3>2 DEF OverlapKey, NodeRow
    <3>4. node[j].base = NameOf[a] /\ reply'[a] = [reply[a] EXCEPT !.key = NewKey]
      BY <1>0, <2>2, <2>4, <3>1, <3>2, KeyFacts DEF Mine, NetTypeOK
    <3>5. IssueKey(a, j, row)
      BY <3>1
    <3> HIDE DEF row
    <3>6. /\ TableCalm' /\ TouchesOwn(a)
          /\ \A i : i # j /\ BelongsTo(a, i)' => BelongsTo(a, i)
      BY <2>1, <2>4, <3>2, <3>3, <3>4, <3>5, RowChange
    <3>7. node'[j] = row /\ \A i \in Ids : i # j => node'[i] = node[i]
      BY <3>2 DEF TypeOK, StoreTypeOK
    <3>8. NewKey # None
      BY <3>5, NewKeyType, KeyFacts DEF IssueKey, TypeOK
    <3>9. Accepts(j, req[a].key)'
      BY <1>1, <2>1, <2>2, <3>2, <3>3, <3>7, <3>8 DEF Accepts, Present
    <3>10. ASSUME NEW i, i # j, BelongsTo(a, i)', NEW k, Accepts(i, k) PROVE Accepts(i, k)'
      BY <3>7, <3>10, BelongsFacts DEF Accepts, Present
    <3>11. BelongsTo(a, disk[a].id)' => Accepts(disk[a].id, disk[a].key)'
      <4> SUFFICES ASSUME BelongsTo(a, disk[a].id)' PROVE Accepts(disk[a].id, disk[a].key)'
        OBVIOUS
      <4>1. CASE disk[a].id = j
        <5>1. disk[a].key = req[a].key
          BY <1>0, <1>2, <1>4, <2>4, <4>1 DEF PollCalm
        <5> QED BY <1>1, <2>1, <3>9, <4>1, <5>1 DEF Accepts, Present
      <4>2. CASE disk[a].id # j
        <5>1. disk' = disk /\ BelongsTo(a, disk[a].id)
          BY <1>1, <3>6, <4>2 DEF BelongsTo, Present
        <5>2. Accepts(disk[a].id, disk[a].key)
          BY <1>0, <5>1 DEF DiskCalm
        <5>3. PICK i, k : i = disk[a].id /\ k = disk[a].key
          OBVIOUS
        <5>4. BelongsTo(a, i)'
          BY <5>1, <5>3 DEF BelongsTo, Present
        <5>5. Accepts(i, k)'
          BY <3>10, <4>2, <5>2, <5>3, <5>4
        <5> QED BY <5>1, <5>3, <5>5 DEF Accepts, Present
      <4> QED BY <4>1, <4>2
    <3>12. /\ reply'[a].status = reply[a].status /\ reply'[a].id = reply[a].id /\ reply'[a].key = NewKey
      BY <1>0, <3>4 DEF NetTypeOK
    <3>13. pc[a] = "polling" /\ reply[a].status = "ok" => reply[a].id = j
      BY <1>0, <2>2 DEF PollCalm
    <3>14. pc[a] = "polling" /\ reply[a].status = "ok" =>
             /\ Accepts(reply[a].id, req[a].key)'
             /\ node'[reply[a].id].key = reply'[a].key
      BY <1>1, <2>1, <3>2, <3>3, <3>7, <3>9, <3>12, <3>13 DEF Accepts, Present
    <3> QED BY <1>7, <2>1, <3>6, <3>11, <3>12, <3>14
  <2> QED BY <2>3, <2>4
<1> QED BY <1>8, <1>9, <1>10, <1>11

LEMMA JoinHandlerCalm ==
  ASSUME TypeOK, KeyInv, RefusedInv, TableCalm, NEW a \in Agents, CalmAt(a),
         Gate(a) \/ ById(a) \/ ByName(a) \/ Rekey(a) \/ Consume(a) \/ Create(a)
  PROVE  TableCalm' /\ TouchesOwn(a) /\ CalmAt(a)'
<1>0. NetTypeOK /\ AgentTypeOK /\ RefusedAt(a) /\ DiskCalm(a) /\ PollCalm(a) /\ JoinCalm(a)
  BY DEF TypeOK, RefusedInv, CalmAt
<1>1. UNCHANGED <<req, pc, disk, mem>>
  BY DEF Gate, ById, ByName, Rekey, Consume, Create, agent
<1>2. /\ stage[a] \in EnrollStages /\ ~BelongsTo(a, disk[a].id)
      /\ pc[a] \notin {"polling", "saveKey", "joinedKey", "joinedId"}
  BY <1>0 DEF Gate, ById, ByName, Rekey, Consume, Create, EnrollStages, PollStages, RefusedAt, JoinCalm
<1>3. stage'[a] \in EnrollStages \cup {"reply"} /\ stage'[a] \notin PollStages
  BY <1>0 DEF Gate, ById, ByName, Rekey, Consume, Create, Refuse, Answer, Goto, NetTypeOK,
              EnrollStages, PollStages
<1>4. ~Present(None) /\ born \in Nat /\ disk[a].id \in Ids \cup {None} /\ Mine(a, disk[a].id)
  BY <1>0, AbsentNone, ConstantsAssumption DEF TypeOK, StoreTypeOK, AgentTypeOK, Identity, DiskCalm
\* What a step leaves to show.
<1>5. ASSUME TableCalm', TouchesOwn(a), BelongsTo(a, disk[a].id)' => BelongsTo(a, disk[a].id),
             stage'[a] \in EnrollStages \ {"gate", "byId"} => ~Present(disk[a].id)',
             stage'[a] \in {"gate", "byId"} => req[a].id = disk[a].id \/ disk[a] = Nothing,
             stage'[a] = "rekey" => Mine(a, seen[a].id)',
             pc[a] = "joining" /\ reply'[a].status = "ok" =>
               /\ reply'[a].key # None
               /\ Mine(a, reply[a].id)'
               /\ BelongsTo(a, reply[a].id)' => node'[reply'[a].id].key = reply'[a].key
      PROVE  CalmAt(a)'
  <2>1. ~BelongsTo(a, disk[a].id)' /\ Mine(a, disk[a].id)'
    <3>1. PICK i \in Ids \cup {None} : i = disk[a].id
      BY <1>4
    <3>2. i <= born => KeepsName(i)
      BY <1>5, <3>1, KeyFacts DEF TouchesOwn, KeepsName, Present
    <3>3. Mine(a, i)'
      BY <1>4, <1>5, <3>1, <3>2, MineStays DEF TouchesOwn
    <3> QED BY <1>1, <1>2, <1>5, <3>1, <3>3 DEF Mine, Present
  <2>2. DiskCalm(a)'
    BY <1>0, <1>1, <1>2, <2>1 DEF DiskCalm, Launched
  <2>3. PollCalm(a)'
    BY <1>1, <1>2, <1>3 DEF PollCalm, PollStages
  <2>4. JoinCalm(a)'
    BY <1>1, <1>2, <1>3, <1>5, <2>1 DEF JoinCalm
  <2> QED BY <2>2, <2>3, <2>4 DEF CalmAt
<1>6. CASE Gate(a) \/ ById(a) \/ ByName(a) \/ Consume(a)
  <2>1. UNCHANGED <<node, born, issued, issuedTo>>
    BY <1>6 DEF Gate, ById, ByName, Consume, cp
  <2>2. /\ TableCalm' /\ TouchesOwn(a)
        /\ \A i : BelongsTo(a, i)' => BelongsTo(a, i)
    BY <2>1, QuietTable DEF KeepsKeys, Present
  <2>3. ASSUME stage'[a] = "rekey" PROVE Mine(a, seen[a].id)'
    <3>1. CASE ById(a)
      <4>1. PICK i : i = req[a].id /\ Present(i) /\ req[a].key = node[i].key
        BY <1>0, <2>3, <3>1 DEF ById, Refuse, Answer, Goto, NetTypeOK
      <4> QED BY <1>0, <3>1, <4>1 DEF ById, RefusedAt, Displaced, Present
    <3>2. CASE ByName(a)
      <4>1. PICK i \in Named(NameOf[a], 1) : seen'[a].id = i
        BY <1>0, <2>3, <3>2 DEF ByName, Refuse, Answer, Goto, NetTypeOK
      <4>2. Present(i) /\ node[i].base = NameOf[a] /\ i <= born
        BY <4>1 DEF Named, Rows, TableCalm
      <4> QED BY <2>1, <4>1, <4>2 DEF Mine, Present
    <3>3. ~Gate(a) /\ ~Consume(a)
      BY <1>0, <2>3 DEF Gate, Consume, Refuse, Answer, Goto, NetTypeOK
    <3> QED BY <1>6, <3>1, <3>2, <3>3
  <2>4. reply' = reply \/ reply'[a].status \in {"revoked", "unauth", "forbidden", "inUse"}
    BY <1>0, <1>6 DEF Gate, ById, ByName, Consume, Refuse, Answer, NetTypeOK
  <2>5. pc[a] = "joining" /\ reply'[a].status = "ok" =>
          /\ reply'[a].key # None
          /\ Mine(a, reply[a].id)'
          /\ BelongsTo(a, reply[a].id)' => node'[reply'[a].id].key = reply'[a].key
    <3>1. ASSUME pc[a] = "joining", reply'[a].status = "ok" PROVE reply' = reply
      BY <2>4, <3>1
    <3> QED BY <1>0, <2>1, <3>1 DEF JoinCalm, Mine, Present, BelongsTo
  <2>6. stage'[a] \in {"gate", "byId"} => stage[a] = "gate"
    BY <1>0, <1>6 DEF Gate, ById, ByName, Consume, Refuse, Answer, Goto, NetTypeOK
  <2>7. ASSUME stage'[a] \in EnrollStages \ {"gate", "byId"} PROVE ~Present(disk[a].id)
    <3>1. CASE Gate(a)
      <4>1. stage[a] = "gate" /\ req[a].id = None
        BY <1>0, <2>7, <3>1 DEF Gate, Refuse, Answer, Goto, NetTypeOK, EnrollStages
      <4> QED BY <1>0, <1>4, <4>1 DEF JoinCalm, Nothing
    <3>2. CASE ById(a)
      <4>1. stage[a] = "byId" /\ (~Present(req[a].id) \/ req[a].key = node[req[a].id].key)
        BY <1>0, <2>7, <3>2 DEF ById, Refuse, Answer, Goto, NetTypeOK, EnrollStages
      <4>2. ~Present(req[a].id)
        BY <1>0, <4>1 DEF RefusedAt, Displaced, Present
      <4> QED BY <1>0, <1>4, <4>1, <4>2 DEF JoinCalm, Nothing
    <3>3. CASE ByName(a) \/ Consume(a)
      BY <1>0, <1>2, <3>3 DEF ByName, Consume, JoinCalm
    <3> QED BY <1>6, <3>1, <3>2, <3>3
  <2>8. ~Present(disk[a].id) => ~Present(disk[a].id)'
    BY <1>1, <2>1 DEF Present
  <2>9. BelongsTo(a, disk[a].id)' => BelongsTo(a, disk[a].id)
    <3>1. BelongsTo(a, disk[a].id)' <=> BelongsTo(a, disk[a].id)
      BY <1>1, <2>1 DEF BelongsTo, Present
    <3> QED BY <3>1
  <2>10. stage'[a] \in {"gate", "byId"} => req[a].id = disk[a].id \/ disk[a] = Nothing
    BY <1>0, <2>6 DEF JoinCalm
  <2> QED BY <1>5, <2>2, <2>3, <2>5, <2>7, <2>8, <2>9, <2>10
<1>7. CASE Rekey(a)
  <2> DEFINE j == seen[a].id
  <2>1. /\ UNCHANGED <<born, seen>> /\ stage[a] = "rekey" /\ stage'[a] = "reply" /\ Mine(a, j)
        /\ ~Present(disk[a].id)
    BY <1>0, <1>2, <1>7 DEF Rekey, Answer, Goto, NetTypeOK, JoinCalm
  <2>2. CASE ~Present(j)
    <3>1. UNCHANGED <<node, issued, issuedTo>> /\ reply'[a].status = "error"
      BY <1>0, <1>7, <2>2 DEF Rekey, Answer, NetTypeOK
    <3>2. TableCalm' /\ TouchesOwn(a)
      BY <2>1, <3>1, QuietTable DEF KeepsKeys, Present
    <3>3. ~BelongsTo(a, disk[a].id)'
      BY <1>1, <2>1, <3>1 DEF BelongsTo, Present
    <3> QED BY <1>5, <2>1, <3>1, <3>2, <3>3 DEF EnrollStages
  <2>3. CASE Present(j)
    <3> DEFINE row == ReplaceKey(j)
    <3>1. IssueKey(a, j, row) /\ reply'[a] = [status |-> "ok", id |-> j, key |-> NewKey]
      BY <1>0, <1>7, <2>3 DEF Rekey, Answer, NetTypeOK
    <3>2. j \in Ids /\ node' = [node EXCEPT ![j] = row] /\ node[j] \in NodeRow
      BY <2>3, <3>1 DEF IssueKey, Present, TypeOK, StoreTypeOK
    <3>3. row.base = node[j].base /\ row.key = NewKey /\ row.prev = None
      BY <3>2 DEF ReplaceKey, NodeRow
    <3>4. node[j].base = NameOf[a]
      BY <2>1, <2>3, <3>2, KeyFacts DEF Mine
    <3> HIDE DEF row
    <3>5. TableCalm' /\ TouchesOwn(a)
      BY <2>1, <2>3, <3>1, <3>2, <3>3, <3>4, RowChange
    <3>6. node'[j] = row /\ NewKey # None
      BY <3>1, <3>2, NewKeyType, KeyFacts DEF IssueKey, TypeOK, StoreTypeOK
    <3>7. reply'[a].id = j /\ reply'[a].key = NewKey
      BY <3>1
    <3>8. Mine(a, reply[a].id)'
      BY <2>1, <3>2, <3>3, <3>4, <3>6, <3>7, KeyFacts DEF Mine, Present
    <3>9. ~BelongsTo(a, disk[a].id)'
      <4>1. disk[a].id # j
        BY <2>1, <2>3
      <4> QED BY <1>1, <2>1, <3>2, <4>1 DEF BelongsTo, Present, TypeOK, StoreTypeOK
    <3> QED BY <1>5, <2>1, <3>3, <3>5, <3>6, <3>7, <3>8, <3>9 DEF EnrollStages
  <2> QED BY <2>2, <2>3
<1>8. CASE Create(a)
  <2> DEFINE j == born + 1
             row == [base |-> NameOf[a], nth |-> UniqueNth(NameOf[a]), key |-> NewKey,
                     prev |-> None, grace |-> FALSE, due |-> FALSE,
                     approved |-> ~RequireApproval, stale |-> TRUE]
  <2>1. /\ IssueKey(a, j, row) /\ born' = j /\ seen' = seen /\ stage'[a] = "reply"
        /\ reply'[a] = [status |-> "ok", id |-> j, key |-> NewKey]
    BY <1>0, <1>8 DEF Create, Answer, Goto, NetTypeOK
  <2>2. j \in Ids /\ j # None /\ j \in Nat
    BY <1>8, ConstantsAssumption, KeyFacts DEF Create, TypeOK, StoreTypeOK, Ids
  <2>3. row.base = NameOf[a] /\ row.key = NewKey /\ row.prev = None
    OBVIOUS
  <2> HIDE DEF row
  <2>4. /\ NewKey \in Keys /\ issued' = issued + 1 /\ NewKey = issued + 1
        /\ issuedTo'[NewKey] = [agent |-> a, node |-> j]
        /\ \A k \in Keys : k <= issued => issuedTo'[k] = issuedTo[k]
        /\ node'[j] = row
        /\ \A i \in Ids : i # j => node'[i] = node[i]
    <3>1. PICK i \in Ids : i = j
      BY <2>2
    <3> HIDE DEF j
    <3> QED BY <2>1, <3>1, IssueKeyFacts DEF TypeOK
  <2> HIDE DEF j
  <2>5. j = born + 1
    BY DEF j
  <2>6. \A i \in Ids : i <= born => i # j /\ KeepsName(i) /\ KeepsKeys(i)
    <3> SUFFICES ASSUME NEW i \in Ids, i <= born PROVE i # j /\ KeepsName(i) /\ KeepsKeys(i)
      OBVIOUS
    <3>1. i # j
      BY <1>4, <2>5, KeyFacts
    <3>2. node'[i] = node[i]
      BY <2>4, <3>1
    <3> QED BY <3>1, <3>2 DEF KeepsName, KeepsKeys, Present
  <2>7. TouchesOwn(a)
    <3>1. PICK n \in Ids : n = j
      BY <2>2
    <3>2. ASSUME NEW c \in Agents, c # a, NEW i, BelongsTo(c, i)'
          PROVE  BelongsTo(c, i) /\ KeepsKeys(i)
      <4>1. BelongsTo(c, i) /\ i # n /\ node'[i] = node[i]
        BY <2>1, <2>3, <3>1, <3>2, BelongsIssue
      <4> QED BY <4>1 DEF KeepsKeys, Present
    <3> QED BY <1>4, <2>1, <2>2, <2>4, <2>5, <2>6, <3>2 DEF TouchesOwn
  <2>8. PICK n \in Ids : n = j /\ Mine(a, n)'
    <3>1. PICK n \in Ids : n = j
      BY <2>2
    <3>2. n <= born' /\ node'[n].base = NameOf[a]
      BY <1>4, <2>1, <2>2, <2>3, <2>4, <3>1
    <3> QED BY <3>1, <3>2 DEF Mine
  <2>9. TableCalm'
    <3>1. \A i \in Ids : Present(i)' /\ node'[i].prev # None => node'[i].grace
      BY <2>3, <2>4 DEF TableCalm, Present
    <3>2. \A i \in Ids : Present(i)' => i <= born'
      BY <1>4, <2>1, <2>2, <2>4, <2>5, KeyFacts DEF TableCalm, Present
    <3>3. ASSUME NEW k \in Keys, k <= issued', issuedTo'[k].agent \in Agents
          PROVE  issuedTo'[k].node # None /\ Mine(issuedTo[k].agent, issuedTo[k].node)'
      <4>1. CASE k = NewKey
        <5>1. issuedTo'[k].agent = a /\ issuedTo'[k].node = n
          BY <2>4, <2>8, <4>1
        <5> QED BY <2>2, <2>8, <5>1 DEF Mine, Present
      <4>2. CASE k # NewKey
        <5>1. k <= issued
          BY <2>4, <3>3, <4>2, KeyFacts DEF TypeOK, StoreTypeOK
        <5>2. /\ issuedTo'[k] = issuedTo[k] /\ issuedTo[k].node \in Ids \cup {None}
              /\ issuedTo[k].agent \in Agents
          BY <2>4, <3>3, <5>1 DEF TypeOK, StoreTypeOK
        <5>3. PICK c \in Agents, i \in Ids \cup {None} : c = issuedTo[k].agent /\ i = issuedTo[k].node
          BY <5>2
        <5>4. i # None /\ Mine(c, i)
          BY <5>1, <5>3 DEF TableCalm
        <5>5. Mine(c, i)'
          <6>1. i <= born => KeepsName(i)
            BY <2>6, <5>3, <5>4
          <6> QED BY <2>7, <5>4, <6>1, MineStays DEF TouchesOwn
        <5> QED BY <5>2, <5>3, <5>4, <5>5 DEF Mine, Present
      <4> QED BY <4>1, <4>2
    <3> QED BY <3>1, <3>2, <3>3 DEF TableCalm
  <2>10. /\ reply'[a].key = NewKey /\ NewKey # None /\ reply'[a].id = n
         /\ node'[n].key = NewKey
    BY <2>1, <2>3, <2>4, <2>8, KeyFacts
  <2>11. Mine(a, reply[a].id)'
    BY <2>8, <2>10 DEF Mine, Present
  <2>12. ~BelongsTo(a, disk[a].id)'
    <3>1. disk[a].id # n /\ ~Present(disk[a].id)
      <4>1. ~Present(disk[a].id)
        BY <1>0, <1>8 DEF Create, JoinCalm, EnrollStages
      <4>2. disk[a].id # j
        BY <1>4, <2>2, <2>5, KeyFacts DEF Mine
      <4> QED BY <2>8, <4>1, <4>2
    <3>2. ~Present(disk[a].id)'
      BY <1>1, <2>4, <2>8, <3>1 DEF Present
    <3> QED BY <1>1, <3>2 DEF BelongsTo, Present
  <2> QED BY <1>5, <2>1, <2>7, <2>9, <2>10, <2>11, <2>12 DEF EnrollStages
<1> QED BY <1>6, <1>7, <1>8

LEMMA InitCalmInv == Init => CalmInv
<1> SUFFICES ASSUME Init PROVE CalmInv
  OBVIOUS
<1>1. LeftInv
  BY ConstantsAssumption DEF Init, LeftInv
<1>2. (\A i : ~Present(i)) /\ \A k \in Keys : ~(k <= issued)
  BY DEF Init, Present, Blank, Keys
<1>3. TableCalm /\ RenewInv
  BY <1>2 DEF Init, TableCalm, RenewInv
<1>4. ASSUME NEW a \in Agents PROVE CalmAt(a)
  BY <1>2, <1>4 DEF Init, CalmAt, DiskCalm, PollCalm, JoinCalm, Mine, BelongsTo, Nothing, NoReply,
     EnrollStages, PollStages, Launched
<1> QED BY <1>1, <1>3, <1>4 DEF CalmInv

LEMMA NextCalmInv == TypeOK /\ KeyInv /\ RefusedInv /\ CalmInv /\ [Next]_vars => CalmInv'
<1> SUFFICES ASSUME TypeOK, KeyInv, RefusedInv, CalmInv, [Next]_vars, Calm'
             PROVE  TableCalm' /\ \A c \in Agents : CalmAt(c)'
  BY LeftStep, NextRenewInv DEF CalmInv
<1>0. LeftInv /\ TableCalm /\ \A c \in Agents : CalmAt(c)
  BY CalmBefore DEF CalmInv
<1>1. ASSUME NEW c \in Agents, req[c].key # None PROVE req[c].key \in Keys /\ req[c].key <= issued
  <2>1. req[c].key \in HeldBy(c)
    BY <1>1 DEF HeldBy
  <2> QED BY <2>1, HeldTypes DEF KeyInv, HeldInv
\* What an agent knows survives every step that is not its own.
<1>2. ASSUME NEW b, TouchesOwn(b), NEW c \in Agents, c # b,
             mem'[c] = mem[c], disk'[c] = disk[c], pc'[c] = pc[c], seen'[c] = seen[c],
             req'[c] = req[c], reply'[c] = reply[c], stage'[c] = stage[c]
      PROVE  CalmAt(c)'
  <2>1. req[c].key # None => issuedTo'[req[c].key] = issuedTo[req[c].key]
    BY <1>1, <1>2 DEF TouchesOwn
  <2> QED BY <1>0, <1>2, <2>1, CalmFrame
<1>3. CASE Environment \/ UNCHANGED vars
  <2>1. UNCHANGED <<net, agent>> /\ TableCalm' /\ TouchesOwn(NoAgent)
    <3>1. CASE Environment
      BY <1>0, <3>1, EnvironmentCalm
    <3>2. CASE UNCHANGED vars
      BY <1>0, <3>2, QuietTable DEF vars, cp, KeepsKeys, Present
    <3> QED BY <1>3, <3>1, <3>2
  <2>2. ASSUME NEW c \in Agents PROVE CalmAt(c)'
    BY <1>2, <2>1, ConstantsAssumption DEF net, agent
  <2> QED BY <2>1, <2>2
<1>4. ASSUME NEW a \in Agents, Handler(a) PROVE TableCalm' /\ \A c \in Agents : CalmAt(c)'
  <2>1. TableCalm' /\ TouchesOwn(a) /\ CalmAt(a)'
    BY <1>0, <1>4, PollHandlerCalm, JoinHandlerCalm DEF Handler
  <2>2. ASSUME NEW c \in Agents, c # a PROVE CalmAt(c)'
    BY <1>2, <1>4, <2>1, <2>2, HandlerFrame DEF agent
  <2> QED BY <2>1, <2>2
<1>5. ASSUME NEW a \in Agents,
             AgentStep(a) \/ Discard(a) \/ GiveUp(a) \/ Crash(a) \/ WipeDisk(a)
      PROVE  TableCalm' /\ \A c \in Agents : CalmAt(c)'
  <2>1. /\ UNCHANGED <<cp, renewal, seen>>
        /\ \A c \in Agents : c # a =>
             /\ mem'[c] = mem[c] /\ disk'[c] = disk[c] /\ pc'[c] = pc[c]
             /\ req'[c] = req[c] /\ reply'[c] = reply[c] /\ stage'[c] = stage[c]
    BY <1>5, AgentFrame
  <2>2. TableCalm' /\ TouchesOwn(a)
    BY <1>0, <2>1, QuietTable DEF cp, KeepsKeys, Present
  <2>3. CalmAt(a)'
    BY <1>0, <1>5, AgentCalm
  <2>4. ASSUME NEW c \in Agents, c # a PROVE CalmAt(c)'
    BY <1>2, <2>1, <2>2, <2>4
  <2> QED BY <2>2, <2>3, <2>4
<1> QED BY <1>3, <1>4, <1>5 DEF Next

\* The invariant the theorems below rest on.
LEMMA CalmAlways == Spec => [](TypeOK /\ KeyInv /\ RefusedInv /\ CalmInv)
<1>1. TypeOK /\ KeyInv /\ RefusedInv /\ [Next]_vars => RefusedInv'
  BY NextRefusedInv
<1>2. TypeOK /\ KeyInv /\ RefusedInv /\ CalmInv /\ [Next]_vars => CalmInv'
  BY NextCalmInv
<1> QED
  BY <1>1, <1>2, InitRefusedInv, InitCalmInv, TypeCorrect, KeysBelong, PTL DEF Spec

\* While no grace window closes and no save fails, the key an agent has persisted
\* opens the row it has persisted, if that row is its own.
LEMMA DiskOpensOwn ==
  ASSUME CalmInv, Calm, NEW a \in Agents, BelongsTo(a, disk[a].id)
  PROVE  HasAccess(a, disk[a].id)
BY DEF CalmInv, CalmAt, DiskCalm, HasAccess, CanActAs

\* maybeRotateNodeKey and clusterEnroll never take a resolver's own row from it,
\* however polls, rotations, enrollments, renewals, removals, lost replies, crashes
\* and lost disks interleave; and the ownership proof of a re-enrollment is never
\* given by a resolver that was refused.
THEOREM KeysHold == Spec => []KeysSafe
<1>1. CalmInv => RotationKeepsAccess
  BY DiskOpensOwn DEF Calm, RotationKeepsAccess
<1> QED BY <1>1, CalmAlways, OwnershipNeverProved, PTL DEF KeysSafe

\* Where every host has a name of its own and no operator renews a key, that is every
\* row an agent has persisted: only a grace window that closes or a failing save
\* locks a resolver out.
THEOREM RotationLeavesAccess ==
  Spec => [](NamesDiffer => NoLockout \/ Happened("renew") \/ Happened("expire") \/ Happened("savefail"))
<1>1. ASSUME TypeOK, KeyInv, CalmInv, NamesDiffer, Calm, ~Happened("renew") PROVE NoLockout
  <2> SUFFICES ASSUME NEW a \in Agents, Present(disk[a].id) PROVE HasAccess(a, disk[a].id)
    BY DEF NoLockout
  <2> DEFINE i == disk[a].id
  <2>1. i \in Ids /\ node[i].base = NameOf[a] /\ node[i].key \in RowKeys(i)
    BY <1>1, KeyFacts DEF CalmInv, CalmAt, DiskCalm, Mine, Present, RowKeys
  <2>2. ASSUME NEW k \in Keys, k <= issued, issuedTo[k].node = i PROVE issuedTo[k].agent = a
    <3>1. PICK c \in Agents : c = issuedTo[k].agent
      BY <1>1, <2>2 DEF CalmInv, RenewInv
    <3>2. i # None /\ Mine(c, i)
      BY <1>1, <2>2, <3>1 DEF CalmInv, TableCalm
    <3>3. NameOf[c] = NameOf[a]
      BY <2>1, <3>2 DEF Mine
    <3> QED BY <1>1, <3>1, <3>3 DEF NamesDiffer
  <2>3. node[i].key \in Keys /\ node[i].key <= issued /\ issuedTo[node[i].key].node = i
    BY <1>1, <2>1, RowKeyTypes DEF KeyInv, RowInv
  <2>4. BelongsTo(a, i)
    BY <2>2, <2>3 DEF BelongsTo
  <2> QED BY <1>1, <2>4, DiskOpensOwn
<1>2. TypeOK /\ KeyInv /\ CalmInv =>
        (NamesDiffer => NoLockout \/ Happened("renew") \/ Happened("expire") \/ Happened("savefail"))
  BY <1>1 DEF Calm
<1> QED BY <1>2, CalmAlways, PTL
=============================================================================
