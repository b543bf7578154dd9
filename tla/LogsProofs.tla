---------------------------- MODULE LogsProofs ----------------------------
(* Proofs about the query log: its shipping, for any batch size, any number  *)
(* of entries and any number and mixture of disturbances; its consumers,     *)
(* types for both databases, the rollup and the exporter for SQLite, for any *)
(* number of handlers, rows, tables and failures.                            *)
EXTENDS LogShipping, LogConsumers, FiniteSetTheorems, TLAPS

LEMMA MaxSerialType == MaxSerial \in Nat
<1>1. MaxLogged \in Nat /\ 1 + MaxMishaps \in Nat
  BY ShippingAssumption
<1> QED BY <1>1 DEF MaxSerial

\* QueryLogSince returns entries of the log past the cursor, and with an entry
\* every older one past the cursor.
LEMMA SinceFacts ==
  ASSUME NEW after \in Nat, TypeOK
  PROVE  /\ Since(after) \subseteq rows
         /\ \A i \in Since(after) : i > after
         /\ \A i \in Since(after) : \A j \in rows : j > after /\ j <= i => j \in Since(after)
<1> DEFINE Upto(i) == {j \in {k \in rows : k > after} : j <= i}
<1>1. \A i : i \in Since(after) <=> i \in rows /\ i > after /\ Cardinality(Upto(i)) <= ShipBatch
  BY DEF Since
<1>2. IsFiniteSet(1 .. logged) /\ rows \subseteq 1 .. logged /\ logged \in Nat
  BY FS_Interval, ShippingAssumption DEF TypeOK
<1>3. ASSUME NEW i \in rows, NEW j \in rows, j <= i PROVE Upto(j) \subseteq Upto(i)
  <2> SUFFICES ASSUME NEW k \in Upto(j) PROVE k \in Upto(i)
    OBVIOUS
  <2>1. k \in rows /\ k > after /\ k <= j /\ k \in Nat /\ j \in Nat /\ i \in Nat
    BY <1>2
  <2>2. k <= i
    BY <1>3, <2>1
  <2> QED BY <2>1, <2>2
<1>4. \A i : IsFiniteSet(Upto(i))
  <2>1. \A i : Upto(i) \subseteq 1 .. logged
    BY <1>2
  <2> HIDE DEF Upto
  <2> QED BY <1>2, <2>1, FS_Subset
<1> HIDE DEF Upto
<1>5. ASSUME NEW i \in Since(after), NEW j \in rows, j > after, j <= i
      PROVE  j \in Since(after)
  <2>1. i \in rows /\ Cardinality(Upto(i)) <= ShipBatch
    BY <1>1
  <2>2. Cardinality(Upto(j)) <= Cardinality(Upto(i))
    BY <1>3, <1>4, <1>5, <2>1, FS_Subset
  <2>3. Cardinality(Upto(i)) \in Nat /\ Cardinality(Upto(j)) \in Nat /\ ShipBatch \in Nat
    BY <1>4, FS_CardinalityType, ShippingAssumption
  <2>4. Cardinality(Upto(j)) <= ShipBatch
    BY <2>1, <2>2, <2>3
  <2> QED BY <1>1, <1>5, <2>4
<1> QED BY <1>1, <1>5

LEMMA SinceType == ASSUME TypeOK PROVE Since(cursor) \in SUBSET (1 .. logged)
<1>1. cursor \in Nat
  BY ShippingAssumption DEF TypeOK
<1>2. Since(cursor) \subseteq rows
  BY <1>1, SinceFacts
<1> QED BY <1>2 DEF TypeOK

-----------------------------------------------------------------------------
(* Types.                                                                    *)

LEMMA InitTypeOK == Init => TypeOK
<1> SUFFICES ASSUME Init PROVE TypeOK
  OBVIOUS
<1>1. wire \in [1 .. MaxSerial -> SUBSET (1 .. logged)] /\ stored \in [Entries -> Nat]
  BY DEF Init
<1>2. serial \in 0 .. MaxSerial /\ mishaps \in 0 .. MaxMishaps /\ logged \in 0 .. MaxLogged
  BY ShippingAssumption, MaxSerialType DEF Init
<1>3. answered \in BOOLEAN /\ made \in BOOLEAN
  BY DEF Init
<1>4. rows \subseteq 1 .. logged /\ batch \subseteq 1 .. logged /\ pruned \subseteq 1 .. logged
  BY DEF Init
<1>5. saved \in 0 .. logged /\ cursor \in 0 .. logged /\ first \in 0 .. logged /\ skipped \in 0 .. logged
  BY DEF Init
<1>6. pc \in {"down", "unborn", "idle", "posting", "saving", "purging"}
  BY DEF Init
<1> QED BY <1>1, <1>2, <1>3, <1>4, <1>5, <1>6 DEF TypeOK

LEMMA MishapType ==
  ASSUME TypeOK, NEW m, Mishap(m) PROVE mishaps' \in 0 .. MaxMishaps
BY ShippingAssumption DEF TypeOK, Mishap

LEMMA ArrivedType ==
  ASSUME TypeOK, NEW n \in 1 .. MaxSerial, Arrived(n)
  PROVE  wire' \in [1 .. MaxSerial -> SUBSET (1 .. logged)]
BY DEF TypeOK, Arrived

LEMMA NextTypeOK == TypeOK /\ [Next]_vars => TypeOK'
<1> SUFFICES ASSUME TypeOK, [Next]_vars PROVE TypeOK'
  OBVIOUS
<1> USE ShippingAssumption, MaxSerialType
<1>1. CASE Flush
  <2>1. PICK n \in 1 .. 2 : /\ logged + n <= MaxLogged
                            /\ logged' = logged + n
                            /\ rows' = rows \cup (logged + 1 .. logged + n)
    BY <1>1 DEF Flush
  <2>2. logged' \in 0 .. MaxLogged /\ logged <= logged' /\ logged \in Nat /\ logged' \in Nat
    BY <2>1 DEF TypeOK
  <2>3. 1 .. logged \subseteq 1 .. logged' /\ 0 .. logged \subseteq 0 .. logged'
    BY <2>2
  <2>4. rows' \subseteq 1 .. logged'
    BY <2>1, <2>2, <2>3 DEF TypeOK
  <2> QED
    BY <1>1, <2>2, <2>3, <2>4 DEF Flush, TypeOK, request, history
<1>2. CASE Prune
  BY <1>2, MishapType DEF Prune, TypeOK, request
<1>3. CASE Start
  BY <1>3 DEF Start, TypeOK, local, request, history
<1>4. CASE NewAgent
  <2>1. cursor' \in 0 .. logged /\ saved' \in 0 .. logged /\ skipped' \in 0 .. logged
        /\ mishaps' \in 0 .. MaxMishaps
    <3>1. CASE Resume
      BY <3>1 DEF Resume, TypeOK
    <3>2. CASE SkipBacklog
      <4>1. rows \cup {0} \subseteq 0 .. logged
        BY DEF TypeOK
      <4> QED BY <3>2, <4>1, MishapType DEF SkipBacklog, TypeOK
    <3>3. CASE ShipBacklog
      BY <3>3, MishapType DEF ShipBacklog, TypeOK
    <3> QED BY <1>4, <3>1, <3>2, <3>3 DEF NewAgent
  <2> QED BY <1>4, <2>1 DEF NewAgent, TypeOK, request
<1>5. CASE Post
  <2>1. Since(cursor) \in SUBSET (1 .. logged)
    BY SinceType
  <2>2. serial' = serial + 1 /\ serial + 1 \in 1 .. MaxSerial
    BY <1>5 DEF Post, TypeOK
  <2>3. wire' \in [1 .. MaxSerial -> SUBSET (1 .. logged)]
    BY <1>5, <2>1 DEF Post, TypeOK
  <2>4. /\ answered' \in BOOLEAN
        /\ pc' \in {"down", "unborn", "idle", "posting", "saving", "purging"}
        /\ batch' \subseteq 1 .. logged
    BY <1>5, <2>1 DEF Post
  <2>5. serial' \in 0 .. MaxSerial
    BY <2>2
  <2>6. UNCHANGED <<logged, rows, saved, cursor, stored, first, made, skipped, pruned, mishaps>>
    BY <1>5 DEF Post, local, history
  <2> QED BY <2>3, <2>4, <2>5, <2>6 DEF TypeOK
<1>6. CASE PostFails
  BY <1>6, MishapType DEF PostFails, TypeOK, local, request, history
<1>7. CASE Shipped
  BY <1>7 DEF Shipped, IsHighest, TypeOK, local, request, history
<1>8. CASE Save
  BY <1>8, MishapType DEF Save, TypeOK, request, history
<1>9. CASE Purge
  BY <1>9, MishapType DEF Purge, TypeOK, request, history
<1>10. CASE Crash
  BY <1>10, MishapType DEF Crash, TypeOK, local, request, history
<1>11. ASSUME NEW n \in 1 .. MaxSerial, Ingest(n) PROVE TypeOK'
  <2>1. stored' \in [Entries -> Nat]
    BY <1>11 DEF Ingest, TypeOK
  <2>2. answered' \in BOOLEAN
    BY <1>11 DEF Ingest, TypeOK
  <2> QED BY <1>11, <2>1, <2>2, ArrivedType DEF Ingest, TypeOK, local, history
<1>12. ASSUME NEW n \in 1 .. MaxSerial, Refuse(n) \/ Drop(n) PROVE TypeOK'
  BY <1>12, MishapType, ArrivedType DEF Refuse, Drop, TypeOK, local, history
<1>13. CASE UNCHANGED vars
  BY <1>13 DEF vars, local, request, history, TypeOK
<1> QED
  BY <1>1, <1>2, <1>3, <1>4, <1>5, <1>6, <1>7, <1>8, <1>9, <1>10, <1>11, <1>12, <1>13
  DEF Next, AgentStep, ServerStep

\* Every variable keeps its type: the cursors of the agent never pass the end
\* of the log.
THEOREM TypeCorrect == Spec => []TypeOK
BY InitTypeOK, NextTypeOK, PTL DEF Spec

-----------------------------------------------------------------------------
(* Nothing is lost.                                                          *)

\* A set of entries sent together has no hole.
NoHole(S) == \A i \in S : \A j \in 1 .. i : Settled(j) \/ j \in S

\* What a cursor has passed is settled, and so is what is not in the log.
CursorInv ==
  /\ \A i \in 1 .. saved : Settled(i)
  /\ pc \notin {"down", "unborn"} => \A i \in 1 .. cursor : Settled(i)
  /\ \A i \in (1 .. logged) \ rows : Settled(i)

\* The request under way is the one that will be answered.
RequestInv ==
  pc = "posting" =>
    /\ NoHole(batch)
    /\ serial \in 1 .. MaxSerial
    /\ wire[serial] \in {batch, {}}
    /\ answered => \A i \in batch : Arrives(i)

WireInv == \A n \in 1 .. MaxSerial : NoHole(wire[n])

ShipInv == CursorInv /\ RequestInv /\ WireInv /\ ArrivesInOrder

LEMMA InitShipInv == Init => ShipInv
BY ShippingAssumption, MaxSerialType
DEF Init, ShipInv, CursorInv, RequestInv, WireInv, NoHole, ArrivesInOrder, Arrives, Entries

\* What is settled stays so.
LEMMA SettledStays ==
  ASSUME TypeOK, [Next]_vars, NEW i \in Entries PROVE Settled(i) => Settled(i)'
<1> USE ShippingAssumption, MaxSerialType
<1>0. i \in Nat /\ logged \in Nat /\ skipped \in Nat /\ stored[i] \in Nat
  BY DEF TypeOK, Entries
<1>1. CASE NewAgent
  <2>1. skipped' \in Nat /\ skipped <= skipped'
    <3>1. CASE SkipBacklog
      BY <3>1, <1>0 DEF SkipBacklog, IsHighest, TypeOK
    <3> QED BY <1>1, <1>0, <3>1 DEF NewAgent, Resume, ShipBacklog
  <2> QED BY <1>0, <1>1, <2>1 DEF NewAgent, Settled, Arrives
<1>2. CASE Prune
  BY <1>2 DEF Prune, Settled, Arrives
<1>3. ASSUME NEW n \in 1 .. MaxSerial, Ingest(n) PROVE Settled(i) => Settled(i)'
  BY <1>0, <1>3 DEF Ingest, Settled, Arrives, history
<1>4. CASE UNCHANGED <<stored, history>>
  BY <1>4 DEF Settled, Arrives, history
<1>5. CASE Flush \/ Start \/ Post \/ PostFails \/ Shipped \/ Save \/ Purge \/ Crash \/ UNCHANGED vars
  <2>1. UNCHANGED <<stored, history>>
    BY <1>5 DEF Flush, Start, Post, PostFails, Shipped, Save, Purge, Crash, vars
  <2> QED BY <1>4, <2>1
<1>6. ASSUME NEW n \in 1 .. MaxSerial, Refuse(n) \/ Drop(n) PROVE Settled(i) => Settled(i)'
  BY <1>4, <1>6 DEF Refuse, Drop
<1> QED
  BY <1>1, <1>2, <1>3, <1>5, <1>6 DEF Next, AgentStep, ServerStep

\* So a set without a hole keeps having none.
LEMMA NoHoleStays ==
  ASSUME TypeOK, [Next]_vars, NEW S \in SUBSET (1 .. logged), NoHole(S) PROVE NoHole(S)'
<1>1. \A i \in S : \A j \in 1 .. i : j \in Entries
  BY ShippingAssumption DEF TypeOK, Entries
<1> QED BY <1>1, SettledStays DEF NoHole

LEMMA NextCursorInv == ASSUME TypeOK, ShipInv, [Next]_vars PROVE CursorInv'
<1> USE ShippingAssumption, MaxSerialType
<1>0. TypeOK'
  BY NextTypeOK
<1>1. /\ logged \in Nat /\ saved \in 0 .. logged /\ cursor \in 0 .. logged
      /\ rows \subseteq 1 .. logged /\ batch \subseteq 1 .. logged
  BY DEF TypeOK
<1>2. \A i \in 1 .. logged : Settled(i) => Settled(i)'
  <2>1. 1 .. logged \subseteq Entries
    BY DEF TypeOK, Entries
  <2> QED BY <2>1, SettledStays
<1>3. /\ \A i \in 1 .. saved : Settled(i)'
      /\ pc \notin {"down", "unborn"} => \A i \in 1 .. cursor : Settled(i)'
      /\ \A i \in (1 .. logged) \ rows : Settled(i)'
  BY <1>1, <1>2 DEF ShipInv, CursorInv
<1>4. CASE UNCHANGED <<logged, rows, saved, cursor>> /\ (pc \notin {"down", "unborn"} \/ pc' \in {"down", "unborn"})
  BY <1>3, <1>4 DEF CursorInv
<1>5. CASE Flush
  <2>1. PICK n \in 1 .. 2 : /\ logged' = logged + n
                            /\ rows' = rows \cup (logged + 1 .. logged + n)
    BY <1>5 DEF Flush
  <2>2. (1 .. logged') \ rows' \subseteq (1 .. logged) \ rows
    BY <1>1, <2>1
  <2> QED BY <1>3, <1>5, <2>2 DEF Flush, CursorInv
<1>6. CASE Prune
  <2>1. \A i \in (1 .. logged) \ rows' : i \in rows => Settled(i)'
    BY <1>6 DEF Prune, Settled
  <2> QED BY <1>3, <1>6, <2>1 DEF Prune, CursorInv
<1>7. CASE NewAgent
  <2>1. CASE Resume
    BY <1>3, <1>7, <2>1 DEF NewAgent, Resume, CursorInv
  <2>2. CASE SkipBacklog
    <3>1. PICK m \in rows \cup {0} :
            /\ cursor' = m
            /\ skipped' = IF m > skipped THEN m ELSE skipped
            /\ saved' = m \/ saved' = saved
      BY <2>2 DEF SkipBacklog
    <3>2. m <= skipped' /\ m \in Nat /\ skipped' \in Nat
      BY <1>1, <3>1 DEF TypeOK
    <3>3. \A i \in 1 .. m : Settled(i)'
      BY <3>2 DEF Settled
    <3> QED BY <1>3, <1>7, <3>1, <3>3 DEF NewAgent, CursorInv
  <2>3. CASE ShipBacklog
    <3>1. cursor' = 0 /\ saved' = saved /\ 1 .. cursor' = {}
      BY <2>3 DEF ShipBacklog
    <3> QED BY <1>3, <1>7, <3>1 DEF NewAgent, CursorInv
  <2> QED BY <1>7, <2>1, <2>2, <2>3 DEF NewAgent
<1>8. CASE Shipped
  <2>1. PICK m \in batch : IsHighest(m, batch) /\ cursor' = m
    BY <1>8 DEF Shipped
  <2>2. \A i \in 1 .. m : Settled(i)
    BY <1>8, <2>1 DEF Shipped, ShipInv, RequestInv, NoHole, Settled
  <2>3. \A i \in 1 .. cursor' : Settled(i)'
    BY <1>1, <1>2, <2>1, <2>2
  <2> QED BY <1>3, <1>8, <2>3 DEF Shipped, CursorInv, local
<1>9. CASE Save
  BY <1>3, <1>9 DEF Save, CursorInv
<1>10. CASE Purge
  <2>1. \A i \in (1 .. logged) \ rows' : Settled(i)'
    BY <1>1, <1>3, <1>10 DEF Purge
  <2> QED BY <1>3, <1>10, <2>1 DEF Purge, CursorInv
<1>11. CASE Start \/ Post \/ PostFails \/ Crash \/ UNCHANGED vars
  BY <1>4, <1>11 DEF Start, Post, PostFails, Crash, vars, local
<1>12. ASSUME NEW n \in 1 .. MaxSerial, Ingest(n) \/ Refuse(n) \/ Drop(n) PROVE CursorInv'
  BY <1>4, <1>12 DEF Ingest, Refuse, Drop, local
<1> QED
  BY <1>5, <1>6, <1>7, <1>8, <1>9, <1>10, <1>11, <1>12 DEF Next, AgentStep, ServerStep

\* Past the cursor, what Since leaves out is settled or newer.
LEMMA SinceNoHole ==
  ASSUME TypeOK, ShipInv, pc = "idle" PROVE NoHole(Since(cursor))
<1>1. cursor \in Nat /\ logged \in Nat /\ rows \subseteq 1 .. logged
  BY ShippingAssumption DEF TypeOK
<1> SUFFICES ASSUME NEW i \in Since(cursor), NEW j \in 1 .. i, ~Settled(j) PROVE j \in Since(cursor)
  BY DEF NoHole
<1>2. i \in 1 .. logged /\ j \in 1 .. logged /\ j <= i
  BY <1>1, SinceType
<1>3. j \in rows /\ j > cursor
  BY <1>1, <1>2 DEF ShipInv, CursorInv
<1> QED BY <1>1, <1>2, <1>3, SinceFacts

LEMMA NextWireInv == ASSUME TypeOK, ShipInv, [Next]_vars PROVE WireInv'
<1> USE ShippingAssumption, MaxSerialType
<1>1. ASSUME NEW S \in SUBSET (1 .. logged), NoHole(S)
      PROVE  \A i \in S : \A j \in 1 .. i : Settled(j)' \/ j \in S
  BY <1>1, NoHoleStays DEF NoHole
<1>2. \A n \in 1 .. MaxSerial : wire[n] \in SUBSET (1 .. logged) /\ NoHole(wire[n])
  BY DEF TypeOK, ShipInv, WireInv
<1>3. ASSUME NEW n \in 1 .. MaxSerial, wire'[n] \in {wire[n], {}}
      PROVE  \A i \in wire'[n] : \A j \in 1 .. i : Settled(j)' \/ j \in wire'[n]
  BY <1>1, <1>2, <1>3
<1>4. CASE \A n \in 1 .. MaxSerial : wire'[n] \in {wire[n], {}}
  BY <1>3, <1>4 DEF WireInv, NoHole
<1>5. CASE Post
  <2>1. Since(cursor) \in SUBSET (1 .. logged) /\ NoHole(Since(cursor))
    BY <1>5, SinceType, SinceNoHole DEF Post
  <2>2. \A n \in 1 .. MaxSerial : wire'[n] = IF n = serial + 1 THEN Since(cursor) ELSE wire[n]
    BY <1>5 DEF Post, TypeOK
  <2>3. \A i \in Since(cursor) : \A j \in 1 .. i : Settled(j)' \/ j \in Since(cursor)
    BY <1>1, <2>1
  <2> QED BY <1>3, <2>2, <2>3 DEF WireInv, NoHole
<1>6. ASSUME NEW n \in 1 .. MaxSerial, Arrived(n) PROVE WireInv'
  BY <1>4, <1>6 DEF Arrived, TypeOK
<1>7. CASE UNCHANGED wire
  BY <1>4, <1>7
<1> QED
  BY <1>5, <1>6, <1>7 DEF Next, AgentStep, ServerStep, Flush, Prune, Start, NewAgent, PostFails,
     Shipped, Save, Purge, Crash, Ingest, Refuse, Drop, vars, request

LEMMA NextRequestInv == ASSUME TypeOK, ShipInv, [Next]_vars PROVE RequestInv'
<1> USE ShippingAssumption, MaxSerialType
<1>1. ASSUME NEW S \in SUBSET (1 .. logged), NoHole(S)
      PROVE  \A i \in S : \A j \in 1 .. i : Settled(j)' \/ j \in S
  BY <1>1, NoHoleStays DEF NoHole
<1>2. batch \in SUBSET (1 .. logged) /\ batch \subseteq Entries
  BY DEF TypeOK, Entries
<1>3. CASE Post
  <2>1. Since(cursor) \in SUBSET (1 .. logged) /\ NoHole(Since(cursor))
    BY <1>3, SinceType, SinceNoHole DEF Post
  <2>2. \A i \in Since(cursor) : \A j \in 1 .. i : Settled(j)' \/ j \in Since(cursor)
    BY <1>1, <2>1
  <2>3. serial' \in 1 .. MaxSerial /\ wire'[serial'] = batch' /\ batch' = Since(cursor) /\ ~answered'
    BY <1>3 DEF Post, TypeOK
  <2> QED BY <2>2, <2>3 DEF RequestInv, NoHole
<1>4. CASE pc' # "posting"
  BY <1>4 DEF RequestInv
<1>5. CASE pc = "posting" /\ UNCHANGED <<request, stored>>
  <2>1. \A i \in batch : \A j \in 1 .. i : Settled(j)' \/ j \in batch
    BY <1>1, <1>2, <1>5 DEF ShipInv, RequestInv
  <2> QED BY <1>5, <2>1 DEF ShipInv, RequestInv, NoHole, Arrives, request
<1>6. ASSUME NEW n \in 1 .. MaxSerial, Ingest(n), pc = "posting" PROVE RequestInv'
  <2>1. \A i \in batch : \A j \in 1 .. i : Settled(j)' \/ j \in batch
    BY <1>1, <1>2, <1>6 DEF ShipInv, RequestInv
  <2>2. wire'[serial] \in {batch, {}} /\ serial \in 1 .. MaxSerial /\ serial' = serial /\ batch' = batch
    BY <1>6 DEF Ingest, Arrived, ShipInv, RequestInv, TypeOK
  <2>3. ASSUME answered', NEW i \in batch PROVE stored'[i] > 0
    <3>1. stored[i] \in Nat /\ stored'[i] = IF i \in wire[n] THEN stored[i] + 1 ELSE stored[i]
      BY <1>2, <1>6 DEF Ingest, TypeOK
    <3>2. CASE answered
      BY <1>6, <3>1, <3>2 DEF ShipInv, RequestInv, Arrives
    <3>3. CASE n = serial
      BY <1>6, <3>1, <3>3 DEF ShipInv, RequestInv, Ingest
    <3> QED BY <1>6, <2>3, <3>2, <3>3 DEF Ingest
  <2> QED BY <1>6, <2>1, <2>2, <2>3 DEF RequestInv, NoHole, Arrives
<1>7. ASSUME NEW n \in 1 .. MaxSerial, Refuse(n) \/ Drop(n), pc' = "posting" PROVE RequestInv'
  <2>1. pc = "posting" /\ n # serial /\ UNCHANGED <<batch, serial, answered, stored>>
    BY <1>7 DEF Refuse, Drop
  <2>2. \A i \in batch : \A j \in 1 .. i : Settled(j)' \/ j \in batch
    BY <1>1, <1>2, <2>1 DEF ShipInv, RequestInv
  <2>3. wire'[serial] = wire[serial]
    BY <1>7, <2>1 DEF Refuse, Drop, Arrived, TypeOK, ShipInv, RequestInv
  <2> QED BY <2>1, <2>2, <2>3 DEF ShipInv, RequestInv, NoHole, Arrives
<1>8. CASE Flush \/ Prune \/ UNCHANGED vars
  BY <1>4, <1>5, <1>8 DEF Flush, Prune, vars, RequestInv
<1>9. CASE Start \/ NewAgent \/ PostFails \/ Shipped \/ Save \/ Purge \/ Crash
  BY <1>4, <1>9 DEF Start, NewAgent, PostFails, Shipped, Save, Purge, Crash
<1>10. ASSUME NEW n \in 1 .. MaxSerial, Ingest(n), pc # "posting" PROVE RequestInv'
  BY <1>4, <1>10 DEF Ingest
<1> QED
  BY <1>3, <1>4, <1>6, <1>7, <1>8, <1>9, <1>10 DEF Next, AgentStep, ServerStep

LEMMA NextInOrder == ASSUME TypeOK, ShipInv, [Next]_vars PROVE ArrivesInOrder'
<1> USE ShippingAssumption, MaxSerialType
<1>1. ASSUME NEW i \in Entries, Arrives(i) PROVE \A j \in 1 .. i : Settled(j)'
  <2>1. 1 .. i \subseteq Entries
    BY DEF Entries
  <2> QED BY <1>1, <2>1, SettledStays DEF ShipInv, ArrivesInOrder
<1>2. ASSUME NEW n \in 1 .. MaxSerial, Ingest(n), NEW i \in Entries, Arrives(i)'
      PROVE  \A j \in 1 .. i : Settled(j)'
  <2>1. CASE i \in wire[n]
    <3>1. \A j \in wire[n] : j \in Entries /\ Settled(j)'
      BY <1>2 DEF Ingest, TypeOK, Entries, Settled, Arrives
    <3>2. wire[n] \in SUBSET (1 .. logged) /\ NoHole(wire[n])
      BY DEF TypeOK, ShipInv, WireInv
    <3>3. \A j \in 1 .. i : Settled(j)' \/ j \in wire[n]
      BY <2>1, <3>2, NoHoleStays DEF NoHole
    <3> QED BY <3>1, <3>3
  <2>2. CASE i \notin wire[n]
    BY <1>1, <1>2, <2>2 DEF Ingest, Arrives
  <2> QED BY <2>1, <2>2
<1>3. CASE UNCHANGED stored
  BY <1>1, <1>3 DEF ArrivesInOrder, Arrives
<1>4. ASSUME NEW n \in 1 .. MaxSerial, Ingest(n) PROVE ArrivesInOrder'
  BY <1>2, <1>4 DEF ArrivesInOrder
<1> QED
  BY <1>3, <1>4 DEF Next, AgentStep, ServerStep, Flush, Prune, Start, NewAgent, Post, PostFails,
     Shipped, Save, Purge, Crash, Refuse, Drop, vars

LEMMA ShipInvariant == Spec => [](TypeOK /\ ShipInv)
<1>1. Init => TypeOK /\ ShipInv
  BY InitTypeOK, InitShipInv
<1>2. TypeOK /\ ShipInv /\ [Next]_vars => (TypeOK /\ ShipInv)'
  BY NextTypeOK, NextCursorInv, NextRequestInv, NextWireInv, NextInOrder DEF ShipInv
<1> QED BY <1>1, <1>2, PTL DEF Spec

\* shipLogs and NewAgent move the cursor past, and the purge of shipped entries
\* removes, no entry that has not arrived, whatever is lost, late or crashes.
THEOREM NothingIsDropped == Spec => []NothingUnshippedIsDropped
<1>1. TypeOK /\ ShipInv => NothingUnshippedIsDropped
  BY ShippingAssumption DEF TypeOK, ShipInv, CursorInv, NothingUnshippedIsDropped
<1> QED BY <1>1, ShipInvariant, PTL

\* The log clusterLog stores for a node has no hole, although requests the
\* agent gave up on are served late.
THEOREM NoHoleArrives == Spec => []ArrivesInOrder
<1>1. TypeOK /\ ShipInv => ArrivesInOrder
  BY DEF ShipInv
<1> QED BY <1>1, ShipInvariant, PTL

-----------------------------------------------------------------------------
(* Nothing is stored again without a disturbance.                            *)

\* The requests under way that carry entry i.
Carriers(i) == {n \in 1 .. MaxSerial : i \in wire[n]}

\* The agent will post entry i, if it is in the log, without a disturbance.
Due(i) ==
  \/ pc \in {"down", "unborn"} /\ saved < i
  \/ pc \in {"idle", "saving", "purging"} /\ cursor < i
  \/ pc = "posting" /\ cursor < i /\ i \notin batch

\* How often entry i was stored, and will be without another disturbance.
Debt(i) == stored[i] + Cardinality(Carriers(i)) + (IF Due(i) THEN 1 ELSE 0)

\* Requests are numbered in the order they are posted, a batch begins past the
\* cursor, and each disturbance raises the debt of an entry by one at most.
DebtInv ==
  /\ \A n \in 1 .. MaxSerial : n > serial => wire[n] = {}
  /\ pc = "posting" => \A i \in batch : i > cursor
  /\ \A i \in Entries : Debt(i) <= 1 + mishaps

LEMMA CarriersType ==
  ASSUME NEW i PROVE IsFiniteSet(Carriers(i)) /\ Cardinality(Carriers(i)) \in Nat
<1>1. IsFiniteSet(1 .. MaxSerial) /\ Carriers(i) \subseteq 1 .. MaxSerial
  BY FS_Interval, MaxSerialType DEF Carriers
<1> QED BY <1>1, FS_Subset, FS_CardinalityType

LEMMA InitDebtInv == Init => DebtInv
<1> SUFFICES ASSUME Init PROVE DebtInv
  OBVIOUS
<1>1. \A n \in 1 .. MaxSerial : wire[n] = {}
  BY DEF Init
<1>2. ASSUME NEW i \in Entries PROVE Debt(i) <= 1 + mishaps
  <2>1. Carriers(i) = {}
    BY <1>1 DEF Carriers
  <2>2. Cardinality(Carriers(i)) = 0 /\ stored[i] = 0 /\ mishaps = 0
    BY <1>2, <2>1, FS_EmptySet DEF Init
  <2> QED BY <2>2 DEF Debt
<1> QED BY <1>1, <1>2 DEF DebtInv, Init

\* A step that stores no more than it takes off the wire keeps the bound, if it
\* is a disturbance or does not make the entry due.
LEMMA DebtKept ==
  ASSUME TypeOK, TypeOK', NEW i \in Entries, Debt(i) <= 1 + mishaps,
         stored'[i] + Cardinality(Carriers(i)') <= stored[i] + Cardinality(Carriers(i)),
         mishaps' = mishaps + 1 \/ (mishaps' = mishaps /\ (Due(i)' => Due(i)))
  PROVE  Debt(i)' <= 1 + mishaps'
<1>1. stored[i] \in Nat /\ stored'[i] \in Nat /\ mishaps \in Nat
  BY ShippingAssumption DEF TypeOK
<1>2. Cardinality(Carriers(i)) \in Nat
  BY CarriersType
<1>3. Cardinality(Carriers(i)') \in Nat
  <2>1. (IsFiniteSet(Carriers(i)) /\ Cardinality(Carriers(i)) \in Nat)'
    BY CarriersType, PTL
  <2> QED BY <2>1
<1>4. Debt(i)' = stored'[i] + Cardinality(Carriers(i)') + (IF Due(i)' THEN 1 ELSE 0)
  BY DEF Debt
<1> QED BY <1>1, <1>2, <1>3, <1>4 DEF Debt

\* Steps that leave the wire and the store alone.
LEMMA DebtQuiet ==
  ASSUME TypeOK, TypeOK', NEW i \in Entries, Debt(i) <= 1 + mishaps, UNCHANGED <<wire, stored>>,
         mishaps' = mishaps + 1 \/ (mishaps' = mishaps /\ (Due(i)' => Due(i)))
  PROVE  Debt(i)' <= 1 + mishaps'
<1>1. Carriers(i)' = Carriers(i)
  BY DEF Carriers
<1>2. Cardinality(Carriers(i)) \in Nat /\ stored[i] \in Nat
  BY CarriersType DEF TypeOK
<1>3. stored'[i] + Cardinality(Carriers(i)') <= stored[i] + Cardinality(Carriers(i))
  BY <1>1, <1>2
<1> QED BY <1>3, DebtKept

\* A request that arrives, or is lost, is one request less for its entries.
LEMMA DebtArrived ==
  ASSUME TypeOK, TypeOK', NEW n \in 1 .. MaxSerial, Arrived(n), NEW i \in Entries
  PROVE  Cardinality(Carriers(i)') = IF i \in wire[n] THEN Cardinality(Carriers(i)) - 1
                                     ELSE Cardinality(Carriers(i))
<1>1. Carriers(i)' = Carriers(i) \ {n}
  BY DEF Carriers, Arrived, TypeOK
<1>2. n \in Carriers(i) <=> i \in wire[n]
  BY DEF Carriers
<1> QED BY <1>1, <1>2, CarriersType, FS_RemoveElement

LEMMA DebtPost ==
  ASSUME TypeOK, TypeOK', DebtInv, Post, NEW i \in Entries
  PROVE  Debt(i)' <= 1 + mishaps'
<1> USE ShippingAssumption, MaxSerialType
<1>1. /\ serial + 1 \in 1 .. MaxSerial /\ wire[serial + 1] = {}
      /\ wire' = [wire EXCEPT ![serial + 1] = Since(cursor)]
  BY DEF Post, TypeOK, DebtInv
<1>2. Carriers(i)' = IF i \in Since(cursor) THEN Carriers(i) \cup {serial + 1} ELSE Carriers(i)
  BY <1>1 DEF Carriers, TypeOK
<1>3. serial + 1 \notin Carriers(i)
  BY <1>1 DEF Carriers
<1>4. Cardinality(Carriers(i)') =
        IF i \in Since(cursor) THEN Cardinality(Carriers(i)) + 1 ELSE Cardinality(Carriers(i))
  BY <1>2, <1>3, CarriersType, FS_AddElement
<1>5. cursor \in Nat /\ i \in Nat /\ stored[i] \in Nat /\ mishaps \in Nat /\ Cardinality(Carriers(i)) \in Nat
  BY CarriersType DEF TypeOK, Entries
<1>6. Due(i) <=> cursor < i
  BY DEF Post, Due
<1>7. Due(i)' <=> cursor < i /\ i \notin Since(cursor)
  BY DEF Post, Due
<1>8. i \in Since(cursor) => cursor < i
  BY <1>5, SinceFacts
<1>9. stored' = stored /\ mishaps' = mishaps
  BY DEF Post, history
<1>10. Debt(i)' = stored'[i] + Cardinality(Carriers(i)') + (IF Due(i)' THEN 1 ELSE 0)
  BY DEF Debt
<1>11. Debt(i) <= 1 + mishaps
  BY DEF DebtInv
<1> QED BY <1>4, <1>5, <1>6, <1>7, <1>8, <1>9, <1>10, <1>11 DEF Debt

LEMMA DebtIngest ==
  ASSUME TypeOK, TypeOK', DebtInv, NEW n \in 1 .. MaxSerial, Ingest(n), NEW i \in Entries
  PROVE  Debt(i)' <= 1 + mishaps'
<1>1. stored'[i] = IF i \in wire[n] THEN stored[i] + 1 ELSE stored[i]
  BY DEF Ingest
<1>2. Cardinality(Carriers(i)') = IF i \in wire[n] THEN Cardinality(Carriers(i)) - 1
                                  ELSE Cardinality(Carriers(i))
  BY DebtArrived DEF Ingest
<1>3. stored[i] \in Nat /\ Cardinality(Carriers(i)) \in Nat
  BY CarriersType DEF TypeOK
<1>4. stored'[i] + Cardinality(Carriers(i)') <= stored[i] + Cardinality(Carriers(i))
  BY <1>1, <1>2, <1>3
<1>5. mishaps' = mishaps /\ (Due(i)' => Due(i))
  BY DEF Ingest, Due, local
<1> QED BY <1>4, <1>5, DebtKept DEF DebtInv

LEMMA DebtLost ==
  ASSUME TypeOK, TypeOK', DebtInv, NEW n \in 1 .. MaxSerial, Refuse(n) \/ Drop(n), NEW i \in Entries
  PROVE  Debt(i)' <= 1 + mishaps'
<1>1. stored' = stored /\ mishaps' = mishaps + 1 /\ Arrived(n)
  BY DEF Refuse, Drop, Mishap
<1>2. stored[i] \in Nat /\ Cardinality(Carriers(i)) \in Nat
  BY CarriersType DEF TypeOK
<1>3. stored'[i] + Cardinality(Carriers(i)') <= stored[i] + Cardinality(Carriers(i))
  BY <1>1, <1>2, DebtArrived
<1> QED BY <1>1, <1>3, DebtKept DEF DebtInv

LEMMA DebtNewAgent ==
  ASSUME TypeOK, TypeOK', DebtInv, NewAgent, NEW i \in Entries
  PROVE  Debt(i)' <= 1 + mishaps'
<1>1. UNCHANGED <<wire, stored>>
  BY DEF NewAgent, request
<1>2. mishaps' = mishaps + 1 \/ (mishaps' = mishaps /\ (Due(i)' => Due(i)))
  <2>1. i \in Nat /\ i > 0
    BY ShippingAssumption DEF Entries
  <2>2. CASE Resume
    BY <2>2 DEF NewAgent, Resume, Due
  <2>3. CASE SkipBacklog
    BY <2>1, <2>3 DEF NewAgent, SkipBacklog, Mishap, Due
  <2>4. CASE ShipBacklog
    BY <2>4 DEF ShipBacklog, Mishap
  <2> QED BY <2>2, <2>3, <2>4 DEF NewAgent
<1> QED BY <1>1, <1>2, DebtQuiet DEF DebtInv

LEMMA DebtShipped ==
  ASSUME TypeOK, TypeOK', DebtInv, Shipped, NEW i \in Entries
  PROVE  Debt(i)' <= 1 + mishaps'
<1>1. PICK m : IsHighest(m, batch) /\ cursor' = m
  BY DEF Shipped
<1>2. m \in batch /\ m > cursor /\ m \in Nat /\ cursor \in Nat /\ i \in Nat
  BY <1>1, ShippingAssumption DEF IsHighest, DebtInv, Shipped, TypeOK, Entries
<1>3. Due(i)' => Due(i)
  BY <1>1, <1>2 DEF IsHighest, Shipped, Due
<1>4. UNCHANGED <<wire, stored, mishaps>>
  BY DEF Shipped, request, history
<1> QED BY <1>3, <1>4, DebtQuiet DEF DebtInv

LEMMA NextDebtInv == ASSUME TypeOK, TypeOK', DebtInv, [Next]_vars PROVE DebtInv'
<1> USE ShippingAssumption, MaxSerialType
<1>1. \A n \in 1 .. MaxSerial : n > serial' => wire'[n] = {}
  <2>1. CASE UNCHANGED <<wire, serial>>
    BY <2>1 DEF DebtInv
  <2>2. CASE Post
    BY <2>2 DEF Post, DebtInv, TypeOK
  <2>3. ASSUME NEW n \in 1 .. MaxSerial, Ingest(n) \/ Refuse(n) \/ Drop(n)
        PROVE  \A k \in 1 .. MaxSerial : k > serial' => wire'[k] = {}
    BY <2>3 DEF Ingest, Refuse, Drop, Arrived, DebtInv, TypeOK
  <2> QED BY <2>1, <2>2, <2>3 DEF Next, AgentStep, ServerStep, Flush, Prune, Start, NewAgent,
             PostFails, Shipped, Save, Purge, Crash, vars, request
<1>2. pc' = "posting" => \A i \in batch' : i > cursor'
  <2>1. CASE Post
    <3>1. cursor \in Nat
      BY DEF TypeOK
    <3> QED BY <2>1, <3>1, SinceFacts DEF Post
  <2>2. CASE pc' = pc /\ UNCHANGED <<batch, cursor>>
    BY <2>2 DEF DebtInv
  <2>3. CASE pc' # "posting"
    BY <2>3
  <2> QED BY <2>1, <2>2, <2>3 DEF Next, AgentStep, ServerStep, Flush, Prune, Start, NewAgent,
             PostFails, Shipped, Save, Purge, Crash, Ingest, Refuse, Drop, vars, request
<1>3. ASSUME NEW i \in Entries PROVE Debt(i)' <= 1 + mishaps'
  <2>1. CASE Flush \/ Start \/ UNCHANGED vars
    <3>1. UNCHANGED <<wire, stored, mishaps>> /\ (Due(i)' => Due(i))
      BY <2>1 DEF Flush, Start, vars, local, request, history, Due
    <3> QED BY <3>1, DebtQuiet DEF DebtInv
  <2>2. CASE Prune \/ PostFails \/ Crash
    <3>1. UNCHANGED <<wire, stored>> /\ mishaps' = mishaps + 1
      BY <2>2 DEF Prune, PostFails, Crash, Mishap, request
    <3> QED BY <3>1, DebtQuiet DEF DebtInv
  <2>3. CASE Save \/ Purge
    <3>1. UNCHANGED <<wire, stored>>
      BY <2>3 DEF Save, Purge, request
    <3>2. mishaps' = mishaps + 1 \/ (mishaps' = mishaps /\ (Due(i)' => Due(i)))
      BY <2>3 DEF Save, Purge, Mishap, Due
    <3> QED BY <3>1, <3>2, DebtQuiet DEF DebtInv
  <2> QED
    BY <1>3, <2>1, <2>2, <2>3, DebtPost, DebtIngest, DebtLost, DebtNewAgent, DebtShipped
    DEF Next, AgentStep, ServerStep
<1> QED BY <1>1, <1>2, <1>3 DEF DebtInv

\* clusterLog stores an entry more than once only because something failed:
\* each crash, lost or late request, refusal or failing write of a cursor costs
\* at most one repetition.
THEOREM RepetitionsHaveCauses == Spec => []RepetitionsNeedMishaps
<1>1. TypeOK /\ DebtInv /\ [Next]_vars => DebtInv'
  BY NextTypeOK, NextDebtInv
<1>2. TypeOK /\ DebtInv => RepetitionsNeedMishaps
  <2> SUFFICES ASSUME TypeOK, DebtInv, NEW i \in Entries PROVE stored[i] <= 1 + mishaps
    BY DEF RepetitionsNeedMishaps
  <2>1. stored[i] \in Nat /\ mishaps \in Nat /\ Cardinality(Carriers(i)) \in Nat
    BY ShippingAssumption, CarriersType DEF TypeOK
  <2>2. Debt(i) <= 1 + mishaps
    BY DEF DebtInv
  <2> QED BY <2>1, <2>2 DEF Debt
<1> QED BY InitTypeOK, InitDebtInv, NextTypeOK, <1>1, <1>2, PTL DEF Spec

-----------------------------------------------------------------------------
\* Rows past a cursor are read oldest first, without leaving one out.
LEMMA LcSinceFacts ==
  ASSUME NEW after \in Nat, log \subseteq 1 .. taken, taken \in Nat
  PROVE  /\ RowsPast(after) \subseteq log
         /\ \A i \in RowsPast(after) : \A j \in log : j > after /\ j <= i => j \in RowsPast(after)
<1> DEFINE Upto(i) == {j \in {k \in log : k > after} : j <= i}
<1>1. \A i : i \in RowsPast(after) <=> i \in log /\ i > after /\ Cardinality(Upto(i)) <= ExportMax
  BY DEF RowsPast
<1>2. IsFiniteSet(1 .. taken)
  BY FS_Interval
<1>3. ASSUME NEW i \in log, NEW j \in log, j <= i PROVE Upto(j) \subseteq Upto(i)
  <2> SUFFICES ASSUME NEW k \in Upto(j) PROVE k \in Upto(i)
    OBVIOUS
  <2>1. k \in log /\ k > after /\ k <= j /\ k \in Nat /\ j \in Nat /\ i \in Nat
    OBVIOUS
  <2>2. k <= i
    BY <1>3, <2>1
  <2> QED BY <2>1, <2>2
<1>4. \A i : IsFiniteSet(Upto(i))
  <2>1. \A i : Upto(i) \subseteq 1 .. taken
    OBVIOUS
  <2> HIDE DEF Upto
  <2> QED BY <1>2, <2>1, FS_Subset
<1> HIDE DEF Upto
<1>5. ASSUME NEW i \in RowsPast(after), NEW j \in log, j > after, j <= i
      PROVE  j \in RowsPast(after)
  <2>1. i \in log /\ Cardinality(Upto(i)) <= ExportMax
    BY <1>1
  <2>2. Cardinality(Upto(j)) <= Cardinality(Upto(i))
    BY <1>3, <1>4, <1>5, <2>1, FS_Subset
  <2>3. Cardinality(Upto(i)) \in Nat /\ Cardinality(Upto(j)) \in Nat /\ ExportMax \in Nat
    BY <1>4, FS_CardinalityType, ConsumersAssumption
  <2>4. Cardinality(Upto(j)) <= ExportMax
    BY <2>1, <2>2, <2>3
  <2> QED BY <1>1, <1>5, <2>4
<1> QED BY <1>1, <1>5

-----------------------------------------------------------------------------
(* Types.                                                                    *)

LEMMA RestTypes == ASSUME taken \in Nat PROVE Resting \in Rolls /\ Unstarted \in Exporters
<1>1. 0 \in 0 .. NTables /\ 0 \in 0 .. taken
  BY ConsumersAssumption
<1> QED BY <1>1 DEF Resting, Unstarted, Rolls, Exporters

LEMMA TypesStay == taken' = taken => Rolls' = Rolls /\ Exporters' = Exporters
BY DEF Rolls, Exporters

LEMMA LcInitTypeOK == LcInit => LcTypeOK
<1> SUFFICES ASSUME LcInit PROVE LcTypeOK
  OBVIOUS
<1>1. taken \in 0 .. MaxRows /\ taken = 0 /\ failures \in 0 .. MaxFailures
  BY ConsumersAssumption DEF LcInit
<1>2. roll \in Rolls /\ exporter \in Exporters
  BY <1>1, RestTypes DEF LcInit
<1>3. counted \in [Tables -> [Ids -> Nat]]
  BY DEF LcInit
<1>4. tx \in [Handlers -> {"none", "open", "done"}] /\ own \in [Handlers -> SUBSET (1 .. taken)]
  BY DEF LcInit
<1> QED BY <1>1, <1>2, <1>3, <1>4 DEF LcInit, LcTypeOK

LEMMA FailsType == ASSUME LcTypeOK, NEW f, Fails(f) PROVE failures' \in 0 .. MaxFailures
BY ConsumersAssumption DEF LcTypeOK, Fails

\* Inserting a row takes an id; everything else keeps its type.
LEMMA InsertTypeOK == ASSUME LcTypeOK, NEW h \in Handlers, Insert(h) \/ AbortInsert(h) PROVE LcTypeOK'
<1>0. taken \in Nat /\ taken <= MaxRows /\ MaxRows \in Nat
  BY ConsumersAssumption DEF LcTypeOK
<1>1. CASE BeginInsert(h)
  BY <1>1, TypesStay DEF BeginInsert, LcTypeOK, folded, export
<1>2. CASE InsertRow(h)
  <2>1. taken' = taken + 1 /\ taken' \in 0 .. MaxRows
    BY <1>0, <1>2 DEF InsertRow
  <2>2. 1 .. taken \subseteq 1 .. taken' /\ 0 .. taken \subseteq 0 .. taken' /\ taken + 1 \in 1 .. taken'
    BY <1>0, <2>1
  <2>3. roll \in Rolls' /\ exporter \in Exporters'
    BY <2>2 DEF LcTypeOK, Rolls, Exporters
  <2>4. own' \in [Handlers -> SUBSET (1 .. taken')]
    BY <1>2, <2>2 DEF InsertRow, LcTypeOK
  <2>5. UNCHANGED <<tx, log, rolled, counted, roll, sent, held, exporter, savedAt, skippedTo, failures>>
    BY <1>2 DEF InsertRow, folded, export
  <2> QED BY <2>1, <2>2, <2>3, <2>4, <2>5 DEF LcTypeOK
<1>3. CASE CommitInsert(h)
  BY <1>3, TypesStay DEF CommitInsert, LcTypeOK, folded, export
<1>4. CASE AbortInsert(h)
  BY <1>4, FailsType, TypesStay DEF AbortInsert, LcTypeOK, folded, export
<1> QED BY <1>1, <1>2, <1>3, <1>4 DEF Insert

LEMMA RollupTypeOK == ASSUME LcTypeOK, RollupStep \/ AbortFold PROVE LcTypeOK'
<1>0. taken \in Nat /\ log \subseteq 1 .. taken /\ roll \in Rolls /\ rolled \in 0 .. taken
  BY ConsumersAssumption DEF LcTypeOK
<1>1. CASE Plan
  <2>1. PICK m \in log, from \in {rolled, 0} :
          /\ from < m
          /\ roll' = [roll EXCEPT !.pc = "planned", !.from = from,
                                   !.upto = IF from + Chunk > m THEN m ELSE from + Chunk]
          /\ UNCHANGED failures \/ Fails("cursor")
    BY <1>1 DEF Plan
  <2>2. from \in 0 .. taken /\ (IF from + Chunk > m THEN m ELSE from + Chunk) \in 0 .. taken
    BY <1>0, <2>1, ConsumersAssumption
  <2>3. roll' \in Rolls
    BY <1>0, <2>1, <2>2 DEF Rolls
  <2>4. failures' \in 0 .. MaxFailures
    BY <2>1, FailsType DEF LcTypeOK
  <2>5. Rolls' = Rolls /\ Exporters' = Exporters
    BY <1>1, TypesStay DEF Plan, inserts
  <2> QED BY <1>1, <2>3, <2>4, <2>5 DEF Plan, inserts, folded, export, LcTypeOK
<1>2. CASE BeginFold
  <2>1. 0 \in 0 .. NTables /\ roll' = [roll EXCEPT !.pc = "folding", !.at = 0]
    BY <1>2, ConsumersAssumption DEF BeginFold
  <2>2. roll' \in Rolls
    BY <1>0, <2>1 DEF Rolls
  <2>3. Rolls' = Rolls /\ Exporters' = Exporters
    BY <1>2, TypesStay DEF BeginFold, inserts
  <2> QED BY <1>2, <2>2, <2>3 DEF BeginFold, inserts, folded, export, LcTypeOK
<1>3. CASE Fold
  <2> DEFINE new == {i \in log : roll.from < i /\ i <= roll.upto}
  <2>1. roll.at + 1 \in 1 .. NTables /\ new \in SUBSET (1 .. taken)
    BY <1>0, <1>3, ConsumersAssumption DEF Fold, Rolls
  <2>2. roll' = [roll EXCEPT !.at = roll.at + 1, !.part = [roll.part EXCEPT ![roll.at + 1] = new]]
    BY <1>0, <1>3 DEF Fold, Rolls
  <2> HIDE DEF new
  <2>3. roll' \in Rolls
    <3> DEFINE part == [roll.part EXCEPT ![roll.at + 1] = new]
               at == roll.at + 1
    <3>1. part \in [Tables -> SUBSET (1 .. taken)]
      BY <1>0, <2>1 DEF Rolls
    <3>2. at \in 0 .. NTables
      BY <2>1, ConsumersAssumption
    <3>3. roll' = [roll EXCEPT !.at = at, !.part = part]
      BY <2>2
    <3> HIDE DEF part, at
    <3> QED BY <1>0, <3>1, <3>2, <3>3 DEF Rolls
  <2>4. Rolls' = Rolls /\ Exporters' = Exporters
    BY <1>3, TypesStay DEF Fold, inserts
  <2> QED BY <1>3, <2>3, <2>4 DEF Fold, inserts, folded, export, LcTypeOK
<1>4. CASE CommitFold
  <2>1. counted' \in [Tables -> [Ids -> Nat]]
    BY <1>4 DEF CommitFold, LcTypeOK
  <2>2. rolled' \in 0 .. taken /\ roll' \in Rolls
    BY <1>0, <1>4, RestTypes DEF CommitFold, Rolls
  <2>3. Rolls' = Rolls /\ Exporters' = Exporters
    BY <1>4, TypesStay DEF CommitFold, inserts
  <2> QED BY <1>4, <2>1, <2>2, <2>3 DEF CommitFold, inserts, export, LcTypeOK
<1>5. CASE AbortFold
  <2>1. Rolls' = Rolls /\ Exporters' = Exporters /\ roll' \in Rolls
    BY <1>0, <1>5, RestTypes DEF AbortFold, inserts, Rolls, Exporters
  <2> QED BY <1>5, <2>1, FailsType DEF AbortFold, inserts, folded, export, LcTypeOK
<1> QED BY <1>1, <1>2, <1>3, <1>4, <1>5 DEF RollupStep

LEMMA ExportTypeOK == ASSUME LcTypeOK, ExportStep \/ SendFails PROVE LcTypeOK'
<1>0. taken \in Nat /\ log \subseteq 1 .. taken /\ exporter \in Exporters /\ savedAt \in 0 .. taken
  BY ConsumersAssumption DEF LcTypeOK
<1>1. ASSUME NEW pcNew \in {"idle", "read", "sent"}, NEW c \in 0 .. taken, NEW b \in SUBSET (1 .. taken),
             exporter' = [exporter EXCEPT !.pc = pcNew, !.cursor = c, !.batch = b],
             savedAt' \in 0 .. taken, skippedTo' \in 0 .. taken, failures' \in 0 .. MaxFailures,
             sent' \subseteq 1 .. taken, held' \subseteq 1 .. taken,
             UNCHANGED <<inserts, folded, roll>>
      PROVE  LcTypeOK'
  <2>1. exporter' \in Exporters /\ Rolls' = Rolls /\ Exporters' = Exporters
    BY <1>0, <1>1 DEF Exporters, Rolls, inserts
  <2> QED BY <1>1, <2>1 DEF LcTypeOK, inserts, folded
<1>2. CASE NewExporter
  <2>0. /\ skippedTo \in 0 .. taken /\ failures \in 0 .. MaxFailures
        /\ \A f : Fails(f) => failures' \in 0 .. MaxFailures
    BY FailsType DEF LcTypeOK
  <2> DEFINE Moved(c) == exporter' = [exporter EXCEPT !.pc = "idle", !.cursor = c]
  <2>7. /\ \E c \in 0 .. taken : Moved(c)
        /\ savedAt' \in 0 .. taken /\ skippedTo' \in 0 .. taken /\ failures' \in 0 .. MaxFailures
    <3>1. CASE ResumeExport
      BY <1>0, <2>0, <3>1 DEF ResumeExport
    <3>2. CASE SkipOlder
      <4>1. PICK m \in log \cup {0} :
              /\ exporter' = [exporter EXCEPT !.pc = "idle", !.cursor = m]
              /\ skippedTo' = IF m > skippedTo THEN m ELSE skippedTo
              /\ savedAt' = m \/ savedAt' = savedAt
              /\ failures' = failures \/ Fails("save") \/ Fails("read")
        BY <3>2 DEF SkipOlder
      <4>2. m \in 0 .. taken
        BY <1>0, <4>1
      <4> QED BY <1>0, <2>0, <4>1, <4>2
    <3>3. CASE ExportBacklog
      <4>1. 0 \in 0 .. taken /\ Moved(0)
        BY <1>0, <3>3 DEF ExportBacklog
      <4> QED BY <1>0, <2>0, <3>3, <4>1 DEF ExportBacklog
    <3> QED BY <1>2, <3>1, <3>2, <3>3 DEF NewExporter
  <2>8. PICK c \in 0 .. taken : Moved(c)
    BY <2>7
  <2>1. exporter' = [exporter EXCEPT !.pc = "idle", !.cursor = c, !.batch = exporter.batch]
    BY <1>0, <2>8 DEF Exporters
  <2>2. savedAt' \in 0 .. taken /\ skippedTo' \in 0 .. taken /\ failures' \in 0 .. MaxFailures
    BY <2>7
  <2>3. exporter.batch \in SUBSET (1 .. taken)
    BY <1>0 DEF Exporters
  <2> QED BY <1>1, <1>2, <2>1, <2>2, <2>3 DEF NewExporter, LcTypeOK
<1>3. CASE ReadExport
  <2>7. exporter.cursor \in 0 .. taken /\ exporter.cursor \in Nat
    BY <1>0 DEF Exporters
  <2>1. RowsPast(exporter.cursor) \in SUBSET (1 .. taken)
    BY <1>0, <2>7, LcSinceFacts
  <2>2. exporter' = [exporter EXCEPT !.pc = "read", !.cursor = exporter.cursor, !.batch = RowsPast(exporter.cursor)]
    BY <1>0, <1>3 DEF ReadExport, Exporters
  <2> QED BY <1>1, <1>3, <2>7, <2>1, <2>2 DEF ReadExport, LcTypeOK
<1>4. CASE Send
  <2>1. exporter.batch \in SUBSET (1 .. taken)
    BY <1>0 DEF Exporters
  <2>5. PICK m \in exporter.batch : exporter' = [exporter EXCEPT !.pc = "sent", !.cursor = m]
    BY <1>4 DEF Send
  <2>2. exporter' = [exporter EXCEPT !.pc = "sent", !.cursor = m, !.batch = exporter.batch]
    BY <1>0, <2>5 DEF Exporters
  <2>4. sent' \subseteq 1 .. taken /\ held' \subseteq 1 .. taken
    <3>1. sent \subseteq 1 .. taken /\ held \subseteq 1 .. taken
      BY DEF LcTypeOK
    <3> QED BY <1>4, <2>1, <3>1 DEF Send
  <2>3. sent' \subseteq 1 .. taken /\ held' \subseteq 1 .. taken /\ m \in 0 .. taken
    <3>1. m \in 1 .. taken /\ taken \in Nat
      BY <1>0, <2>1, <2>5
    <3> QED BY <2>4, <3>1
  <2> QED BY <1>1, <1>4, <2>1, <2>2, <2>3 DEF Send, LcTypeOK
<1>5. CASE SendFails \/ SaveExport
  <2>1. exporter.batch \in SUBSET (1 .. taken) /\ exporter.cursor \in 0 .. taken
    BY <1>0 DEF Exporters
  <2>2. exporter' = [exporter EXCEPT !.pc = "idle", !.cursor = exporter.cursor, !.batch = {}]
    BY <1>0, <1>5 DEF SendFails, SaveExport, Exporters
  <2>3. sent' \subseteq 1 .. taken /\ savedAt' \in 0 .. taken
    BY <1>0, <1>5, <2>1 DEF SendFails, SaveExport, LcTypeOK
  <2>4. failures' \in 0 .. MaxFailures
    BY <1>5, FailsType DEF SendFails, SaveExport, LcTypeOK
  <2>5. /\ skippedTo' \in 0 .. taken /\ held' \subseteq 1 .. taken
        /\ UNCHANGED <<inserts, folded, roll>>
    BY <1>5 DEF SendFails, SaveExport, LcTypeOK
  <2>6. {} \in SUBSET (1 .. taken) /\ "idle" \in {"idle", "read", "sent"}
    OBVIOUS
  <2> QED BY <1>1, <2>1, <2>2, <2>3, <2>4, <2>5, <2>6
<1> QED BY <1>2, <1>3, <1>4, <1>5 DEF ExportStep

LEMMA LcNextTypeOK == LcTypeOK /\ [LcNext]_lcVars => LcTypeOK'
<1> SUFFICES ASSUME LcTypeOK, [LcNext]_lcVars PROVE LcTypeOK'
  OBVIOUS
<1>1. CASE CrashCP
  <2>1. taken \in Nat
    BY ConsumersAssumption DEF LcTypeOK
  <2>2. Rolls' = Rolls /\ Exporters' = Exporters /\ roll' \in Rolls /\ exporter' \in Exporters
    BY <1>1, <2>1, RestTypes DEF CrashCP, Rolls, Exporters
  <2>3. tx' \in [Handlers -> {"none", "open", "done"}] /\ own' \in [Handlers -> SUBSET (1 .. taken)]
    BY <1>1 DEF CrashCP, LcTypeOK
  <2> QED BY <1>1, <2>2, <2>3, FailsType DEF CrashCP, folded, LcTypeOK
<1>2. CASE UNCHANGED lcVars
  <2>1. Rolls' = Rolls /\ Exporters' = Exporters
    BY <1>2, TypesStay DEF lcVars, inserts
  <2> QED BY <1>2, <2>1 DEF lcVars, inserts, folded, export, LcTypeOK
<1> QED BY <1>1, <1>2, InsertTypeOK, RollupTypeOK, ExportTypeOK DEF LcNext

\* Every variable keeps its type with either database; no cursor passes the
\* last id that was taken.
THEOREM LcTypeCorrect == LcSpec => []LcTypeOK
BY LcInitTypeOK, LcNextTypeOK, PTL DEF LcSpec

-----------------------------------------------------------------------------
(* SQLite: one write connection.                                             *)

\* Transactions do not overlap.
SerialInv ==
  /\ roll.pc = "folding" => \A h \in Handlers : tx[h] # "open"
  /\ \A g, h \in Handlers : tx[g] = "open" /\ tx[h] = "open" => g = h
  /\ \A h \in Handlers : tx[h] = "none" => own[h] = {}

\* So the ids of an open transaction are newer than every visible row and than
\* every cursor.
OpenInv ==
  \A h \in Handlers : tx[h] = "open" => \A i \in own[h] :
    /\ rolled < i /\ roll.upto < i /\ savedAt < i /\ exporter.cursor < i
    /\ \A j \in log : j < i

\* What the exporter has read leaves no older row out.
BatchInv ==
  exporter.pc = "read" =>
    /\ exporter.batch \subseteq log
    /\ \A i \in exporter.batch : \A j \in log :
         j > exporter.cursor /\ j <= i => j \in exporter.batch

ExportInv == SerialInv /\ OpenInv /\ BatchInv /\ ExportsEveryRow

\* A fold covers the ids from the cursor on, and the tables it has done cover
\* the same rows.
FoldInv ==
  roll.pc # "idle" =>
    /\ roll.from = rolled /\ rolled <= roll.upto
    /\ roll.pc = "folding" =>
         \A t \in 1 .. roll.at : roll.part[t] = {i \in log : roll.from < i /\ i <= roll.upto}

LEMMA InitInv == LcInit => ExportInv /\ FoldInv /\ CountedExactlyOnce
BY DEF LcInit, ExportInv, SerialInv, OpenInv, BatchInv, ExportsEveryRow, FoldInv, CountedExactlyOnce,
       Resting, Unstarted

LEMMA FoldShape ==
  ASSUME LcTypeOK, Fold
  PROVE  /\ roll'.pc = "folding" /\ roll'.from = roll.from /\ roll'.upto = roll.upto
         /\ roll'.at = roll.at + 1
         /\ roll'.part = [roll.part EXCEPT
              ![roll.at + 1] = {i \in log : roll.from < i /\ i <= roll.upto}]
<1> DEFINE new == {i \in log : roll.from < i /\ i <= roll.upto}
<1>1. roll \in Rolls /\ roll.pc = "folding"
  BY DEF LcTypeOK, Fold
<1>2. roll' = [roll EXCEPT !.at = roll.at + 1, !.part = [roll.part EXCEPT ![roll.at + 1] = new]]
  BY <1>1 DEF Fold, Rolls
<1> HIDE DEF new
<1>3. /\ roll'.pc = "folding" /\ roll'.from = roll.from /\ roll'.upto = roll.upto
      /\ roll'.at = roll.at + 1 /\ roll'.part = [roll.part EXCEPT ![roll.at + 1] = new]
  BY <1>1, <1>2 DEF Rolls
<1> QED BY <1>3 DEF new

LEMMA NextSerialInv == ASSUME Serial, LcTypeOK, SerialInv, [LcNext]_lcVars PROVE SerialInv'
<1>0. /\ roll \in Rolls /\ tx \in [Handlers -> {"none", "open", "done"}]
      /\ own \in [Handlers -> SUBSET (1 .. taken)]
  BY DEF LcTypeOK
<1>1. ASSUME NEW h \in Handlers, Insert(h) \/ AbortInsert(h) PROVE SerialInv'
  BY <1>0, <1>1 DEF Insert, BeginInsert, InsertRow, CommitInsert, AbortInsert, Free, SerialInv
<1>2. CASE BeginFold
  BY <1>0, <1>2 DEF BeginFold, Free, SerialInv, Rolls, inserts
<1>3. CASE Plan \/ Fold \/ CommitFold \/ AbortFold
  <2>1. tx' = tx /\ own' = own /\ (roll'.pc = "folding" => roll.pc = "folding")
    <3>1. CASE Fold
      BY <3>1, FoldShape DEF Fold, inserts
    <3>2. CASE Plan
      BY <1>0, <3>2 DEF Plan, Rolls, inserts
    <3>3. CASE CommitFold \/ AbortFold
      BY <3>3 DEF CommitFold, AbortFold, Resting, inserts
    <3> QED BY <1>3, <3>1, <3>2, <3>3
  <2> QED BY <2>1 DEF SerialInv
<1>4. CASE ExportStep \/ SendFails \/ UNCHANGED lcVars
  <2>1. tx' = tx /\ own' = own /\ roll' = roll
    BY <1>4 DEF ExportStep, NewExporter, ReadExport, Send, SaveExport, SendFails, lcVars, inserts
  <2> QED BY <2>1 DEF SerialInv
<1>5. CASE CrashCP
  BY <1>0, <1>5 DEF CrashCP, SerialInv, Resting
<1> QED BY <1>1, <1>2, <1>3, <1>4, <1>5 DEF LcNext, RollupStep

LEMMA Integral ==
  ASSUME LcTypeOK
  PROVE  /\ taken \in Nat /\ log \subseteq Nat /\ rolled \in Nat /\ savedAt \in Nat /\ skippedTo \in Nat
         /\ roll.from \in Nat /\ roll.upto \in Nat /\ roll.at \in Nat /\ exporter.cursor \in Nat
         /\ exporter.batch \subseteq Nat /\ \A h \in Handlers : own[h] \subseteq Nat
         /\ \A i \in log \cup {rolled, savedAt, roll.upto, exporter.cursor} : i <= taken
BY ConsumersAssumption DEF LcTypeOK, Rolls, Exporters

\* If no cursor moves past the newest visible row, ids of open transactions
\* stay newer.
LEMMA CursorsStayBehind ==
  ASSUME LcTypeOK, OpenInv, UNCHANGED <<tx, own, log>>,
         \A c \in {rolled', roll'.upto, savedAt', exporter'.cursor} :
           c \in {0, rolled, roll.upto, savedAt, exporter.cursor} \/ \E m \in log : c <= m /\ c \in Nat
  PROVE  OpenInv'
<1> SUFFICES ASSUME NEW h \in Handlers, tx[h] = "open", NEW i \in own[h]
             PROVE  /\ \A c \in {rolled', roll'.upto, savedAt', exporter'.cursor} : c < i
                    /\ \A j \in log : j < i
  BY DEF OpenInv
<1>1. /\ i \in Nat /\ \A j \in log : j \in Nat /\ j < i
      /\ \A c \in {rolled, roll.upto, savedAt, exporter.cursor} : c \in Nat /\ c < i
  BY Integral DEF OpenInv
<1>2. 0 < i
  BY <1>1
<1> QED BY <1>1, <1>2

LEMMA NextOpenInv == ASSUME Serial, LcTypeOK, ExportInv, [LcNext]_lcVars PROVE OpenInv'
<1>0. /\ roll \in Rolls /\ exporter \in Exporters /\ tx \in [Handlers -> {"none", "open", "done"}]
      /\ own \in [Handlers -> SUBSET (1 .. taken)] /\ OpenInv
  BY DEF LcTypeOK, ExportInv
<1>1. ASSUME NEW h \in Handlers, BeginInsert(h) PROVE OpenInv'
  <2>1. own[h] = {}
    BY <1>1 DEF BeginInsert, ExportInv, SerialInv
  <2>2. \A g \in Handlers : tx'[g] = "open" => g = h \/ tx[g] = "open"
    BY <1>0, <1>1 DEF BeginInsert
  <2> QED BY <1>0, <1>1, <2>1, <2>2 DEF BeginInsert, OpenInv, folded, export
<1>2. ASSUME NEW h \in Handlers, InsertRow(h) PROVE OpenInv'
  <2>1. UNCHANGED <<tx, log, rolled, roll, savedAt, exporter>>
    BY <1>2 DEF InsertRow, folded, export
  <2>2. \A g \in Handlers : \A i \in own'[g] : i \in own[g] \/ i = taken + 1
    BY <1>0, <1>2 DEF InsertRow
  <2>3. \A c \in log \cup {rolled, roll.upto, savedAt, exporter.cursor} : c < taken + 1
    BY Integral
  <2> QED BY <1>0, <2>1, <2>2, <2>3 DEF OpenInv
<1>3. ASSUME NEW h \in Handlers, CommitInsert(h) \/ AbortInsert(h) PROVE OpenInv'
  <2>1. \A g \in Handlers : tx'[g] # "open"
    BY <1>0, <1>3 DEF CommitInsert, AbortInsert, ExportInv, SerialInv
  <2> QED BY <2>1 DEF OpenInv
<1>4. CASE RollupStep \/ AbortFold
  <2>1. UNCHANGED <<tx, own, log, savedAt, exporter>>
    BY <1>4 DEF RollupStep, Plan, BeginFold, Fold, CommitFold, AbortFold, inserts, export
  <2>2. CASE Plan
    <3>1. PICK m \in log, from \in {rolled, 0} :
            roll' = [roll EXCEPT !.pc = "planned", !.from = from,
                                 !.upto = IF from + Chunk > m THEN m ELSE from + Chunk]
      BY <2>2 DEF Plan
    <3>2. roll'.upto = (IF from + Chunk > m THEN m ELSE from + Chunk) /\ rolled' = rolled
      BY <1>0, <2>2, <3>1 DEF Plan, Rolls, folded
    <3>3. roll'.upto <= m /\ roll'.upto \in Nat
      BY <3>1, <3>2, Integral, ConsumersAssumption
    <3> QED BY <1>0, <2>1, <3>2, <3>3, CursorsStayBehind
  <2>3. CASE BeginFold \/ Fold \/ CommitFold \/ AbortFold
    <3>1. rolled' \in {rolled, roll.upto} /\ roll'.upto \in {0, roll.upto}
      <4>1. CASE Fold
        BY <4>1, FoldShape DEF Fold, folded
      <4>2. CASE BeginFold
        BY <1>0, <4>2 DEF BeginFold, Rolls, folded
      <4>3. CASE CommitFold \/ AbortFold
        BY <4>3 DEF CommitFold, AbortFold, Resting, folded
      <4> QED BY <2>3, <4>1, <4>2, <4>3
    <3> QED BY <1>0, <2>1, <3>1, CursorsStayBehind
  <2> QED BY <1>4, <2>2, <2>3 DEF RollupStep
<1>5. CASE ExportStep \/ SendFails
  <2>1. UNCHANGED <<tx, own, log, rolled, roll>>
    BY <1>5 DEF ExportStep, NewExporter, ReadExport, Send, SaveExport, SendFails, inserts, folded
  <2>2. CASE NewExporter
    <3>1. exporter'.cursor \in {0, savedAt} \cup log /\ savedAt' \in {0, savedAt} \cup log
      BY <1>0, <2>2 DEF NewExporter, ResumeExport, SkipOlder, ExportBacklog, Exporters
    <3>2. \A m \in log : m <= m /\ m \in Nat
      BY Integral
    <3> QED BY <1>0, <2>1, <3>1, <3>2, CursorsStayBehind
  <2>3. CASE Send
    <3>1. exporter'.cursor \in exporter.batch /\ exporter.batch \subseteq log /\ savedAt' = savedAt
      BY <1>0, <2>3 DEF Send, Exporters, ExportInv, BatchInv
    <3>2. \A m \in log : m <= m /\ m \in Nat
      BY Integral
    <3> QED BY <1>0, <2>1, <3>1, <3>2, CursorsStayBehind
  <2>4. CASE ReadExport \/ SaveExport \/ SendFails
    <3>1. exporter'.cursor = exporter.cursor /\ savedAt' \in {savedAt, exporter.cursor}
      BY <1>0, <2>4 DEF ReadExport, SaveExport, SendFails, Exporters
    <3> QED BY <1>0, <2>1, <3>1, CursorsStayBehind
  <2> QED BY <1>5, <2>2, <2>3, <2>4 DEF ExportStep
<1>6. CASE CrashCP
  <2>1. \A g \in Handlers : tx'[g] # "open"
    BY <1>0, <1>6 DEF CrashCP
  <2> QED BY <2>1 DEF OpenInv
<1>7. CASE UNCHANGED lcVars
  BY <1>0, <1>7 DEF lcVars, inserts, folded, export, OpenInv
<1> QED BY <1>1, <1>2, <1>3, <1>4, <1>5, <1>6, <1>7 DEF LcNext, Insert

LEMMA NextBatchInv == ASSUME Serial, LcTypeOK, ExportInv, [LcNext]_lcVars PROVE BatchInv'
<1>0. exporter \in Exporters /\ BatchInv /\ OpenInv
  BY DEF LcTypeOK, ExportInv
<1>1. CASE UNCHANGED <<exporter, log>>
  BY <1>0, <1>1 DEF BatchInv
<1>2. CASE exporter'.pc # "read"
  BY <1>2 DEF BatchInv
<1>3. ASSUME NEW h \in Handlers, CommitInsert(h) PROVE BatchInv'
  <2>1. exporter' = exporter /\ log' = log \cup own[h] /\ tx[h] = "open"
    BY <1>3 DEF CommitInsert, export
  <2>2. \A i \in log : \A j \in own[h] : i \in Nat /\ j \in Nat /\ i < j
    BY <1>0, <2>1, Integral DEF OpenInv
  <2> QED BY <1>0, <2>1, <2>2 DEF BatchInv
<1>4. CASE ReadExport
  <2>1. exporter.cursor \in Nat /\ taken \in Nat /\ log \subseteq 1 .. taken
    BY Integral DEF LcTypeOK
  <2>2. exporter'.cursor = exporter.cursor /\ exporter'.batch = RowsPast(exporter.cursor) /\ log' = log
    BY <1>0, <1>4 DEF ReadExport, Exporters, inserts
  <2> QED BY <2>1, <2>2, LcSinceFacts DEF BatchInv
<1>5. CASE NewExporter \/ Send \/ SaveExport \/ SendFails \/ CrashCP
  <2>1. exporter'.pc # "read"
    <3>1. CASE NewExporter
      BY <1>0, <3>1 DEF NewExporter, ResumeExport, SkipOlder, ExportBacklog, Exporters
    <3>2. CASE Send
      BY <1>0, <3>2 DEF Send, Exporters
    <3>3. CASE SaveExport \/ SendFails
      BY <1>0, <3>3 DEF SaveExport, SendFails, Exporters
    <3>4. CASE CrashCP
      BY <3>4 DEF CrashCP, Unstarted
    <3> QED BY <1>5, <3>1, <3>2, <3>3, <3>4
  <2> QED BY <1>2, <2>1
<1>6. ASSUME NEW h \in Handlers, BeginInsert(h) \/ InsertRow(h) \/ AbortInsert(h) PROVE BatchInv'
  BY <1>1, <1>6 DEF BeginInsert, InsertRow, AbortInsert, export
<1>7. CASE RollupStep \/ AbortFold \/ UNCHANGED lcVars
  BY <1>1, <1>7 DEF RollupStep, Plan, BeginFold, Fold, CommitFold, AbortFold, lcVars, inserts, export
<1> QED BY <1>3, <1>4, <1>5, <1>6, <1>7 DEF LcNext, Insert, ExportStep

LEMMA NextExports == ASSUME Serial, LcTypeOK, ExportInv, [LcNext]_lcVars PROVE ExportsEveryRow'
<1>0. exporter \in Exporters /\ BatchInv /\ OpenInv /\ ExportsEveryRow
  BY DEF LcTypeOK, ExportInv
<1> DEFINE Done(i) == i \in sent \/ i \in held \/ i <= skippedTo
\* A cursor moves within what is done.
<1>1. ASSUME log' = log, sent \subseteq sent', held \subseteq held', skippedTo' \in Nat, skippedTo <= skippedTo',
             \A c \in {savedAt', exporter'.cursor} :
               \/ c \in {0, savedAt, exporter.cursor}
               \/ \A i \in log : i <= c => Done(i)'
      PROVE  ExportsEveryRow'
  <2> SUFFICES ASSUME NEW i \in log, i <= savedAt' \/ i <= exporter'.cursor PROVE Done(i)'
    BY <1>1 DEF ExportsEveryRow
  <2>1. i \in Nat /\ skippedTo \in Nat /\ ~ (i <= 0)
    BY Integral DEF LcTypeOK
  <2>2. i <= savedAt \/ i <= exporter.cursor => Done(i)
    BY <1>0 DEF ExportsEveryRow
  <2>3. Done(i) => Done(i)'
    BY <1>1, <2>1
  <2> QED BY <1>1, <2>1, <2>2, <2>3
<1>2. CASE UNCHANGED <<log, export>>
  BY <1>0, <1>2 DEF ExportsEveryRow, export
<1>3. ASSUME NEW h \in Handlers, CommitInsert(h) PROVE ExportsEveryRow'
  <2>1. UNCHANGED export /\ log' = log \cup own[h] /\ tx[h] = "open"
    BY <1>3 DEF CommitInsert
  <2>2. \A i \in own[h] : i \in Nat /\ savedAt < i /\ exporter.cursor < i
    BY <1>0, <2>1, Integral DEF OpenInv
  <2>3. savedAt \in Nat /\ exporter.cursor \in Nat
    BY Integral
  <2> QED BY <1>0, <2>1, <2>2, <2>3 DEF ExportsEveryRow, export
<1>4. CASE NewExporter
  <2>1. UNCHANGED <<log, sent, held>> /\ skippedTo \in Nat /\ savedAt \in Nat /\ log \subseteq Nat
    BY <1>4, Integral DEF NewExporter, inserts
  <2>2. CASE ResumeExport
    <3>1. exporter'.cursor = savedAt /\ savedAt' = savedAt /\ skippedTo' = skippedTo
      BY <1>0, <2>2 DEF ResumeExport, Exporters
    <3> QED BY <1>1, <2>1, <3>1
  <2>3. CASE SkipOlder
    <3>1. PICK m \in log \cup {0} :
            /\ exporter' = [exporter EXCEPT !.pc = "idle", !.cursor = m]
            /\ skippedTo' = IF m > skippedTo THEN m ELSE skippedTo
            /\ savedAt' = m \/ savedAt' = savedAt
      BY <2>3 DEF SkipOlder
    <3>2. exporter'.cursor = m /\ m \in Nat /\ m <= skippedTo' /\ skippedTo <= skippedTo' /\ skippedTo' \in Nat
      BY <1>0, <2>1, <3>1 DEF Exporters
    <3>3. \A i \in log : i <= m => Done(i)'
      BY <2>1, <3>2
    <3> QED BY <1>1, <2>1, <3>1, <3>2, <3>3
  <2>4. CASE ExportBacklog
    <3>1. exporter'.cursor = 0 /\ savedAt' = savedAt /\ skippedTo' = skippedTo
      BY <1>0, <2>4 DEF ExportBacklog, Exporters
    <3> QED BY <1>1, <2>1, <3>1
  <2> QED BY <1>4, <2>2, <2>3, <2>4 DEF NewExporter
<1>5. CASE Send
  <2>1. PICK out \in SUBSET exporter.batch :
          sent' = sent \cup out /\ held' = held \cup (exporter.batch \ out)
    BY <1>5 DEF Send
  <2>2. PICK m \in exporter.batch : exporter' = [exporter EXCEPT !.pc = "sent", !.cursor = m]
    BY <1>5 DEF Send
  <2>3. exporter'.cursor = m /\ savedAt' = savedAt /\ skippedTo' = skippedTo /\ log' = log
    BY <1>0, <1>5, <2>2 DEF Send, Exporters, inserts
  <2>4. exporter.cursor \in Nat /\ skippedTo \in Nat /\ log \subseteq Nat
    BY Integral
  <2>5. \A i \in log : i <= m => Done(i)'
    <3> SUFFICES ASSUME NEW i \in log, i <= m PROVE Done(i)'
      OBVIOUS
    <3>1. CASE i > exporter.cursor
      <4>1. i \in exporter.batch
        BY <1>0, <1>5, <3>1 DEF BatchInv, Send
      <4> QED BY <2>1, <4>1
    <3>2. CASE i <= exporter.cursor
      <4>1. Done(i)
        BY <1>0, <3>2 DEF ExportsEveryRow
      <4> QED BY <2>1, <2>3, <4>1
    <3> QED BY <2>4, <3>1, <3>2
  <2> QED BY <1>1, <2>1, <2>3, <2>4, <2>5
<1>6. CASE ReadExport \/ SaveExport \/ SendFails
  <2>1. /\ exporter'.cursor = exporter.cursor /\ savedAt' \in {savedAt, exporter.cursor}
        /\ sent \subseteq sent' /\ UNCHANGED <<log, held, skippedTo>>
    BY <1>0, <1>6 DEF ReadExport, SaveExport, SendFails, Exporters, inserts
  <2>2. skippedTo \in Nat
    BY Integral
  <2> QED BY <1>1, <2>1, <2>2
<1>7. CASE CrashCP
  <2>1. exporter'.cursor = 0 /\ UNCHANGED <<log, sent, held, savedAt, skippedTo>> /\ skippedTo \in Nat
    BY <1>7, Integral DEF CrashCP, Unstarted
  <2> QED BY <1>1, <2>1
<1>8. ASSUME NEW h \in Handlers, BeginInsert(h) \/ InsertRow(h) \/ AbortInsert(h) PROVE ExportsEveryRow'
  BY <1>2, <1>8 DEF BeginInsert, InsertRow, AbortInsert
<1>9. CASE RollupStep \/ AbortFold \/ UNCHANGED lcVars
  BY <1>2, <1>9 DEF RollupStep, Plan, BeginFold, Fold, CommitFold, AbortFold, lcVars, inserts
<1> QED BY <1>3, <1>4, <1>5, <1>6, <1>7, <1>8, <1>9 DEF LcNext, Insert, ExportStep

LEMMA NextExportInv == ASSUME Serial PROVE LcTypeOK /\ ExportInv /\ [LcNext]_lcVars => ExportInv'
BY NextSerialInv, NextOpenInv, NextBatchInv, NextExports DEF ExportInv

\* With SQLite the exporter's cursor passes no row that was not sent to
\* VictoriaLogs, kept back by the privacy filter or skipped as backlog,
\* whatever fails and crashes.
THEOREM RowsAreExported == ASSUME Serial PROVE LcSpec => []ExportsEveryRow
<1>1. LcTypeOK /\ ExportInv /\ [LcNext]_lcVars => ExportInv'
  BY NextExportInv
<1>2. ExportInv => ExportsEveryRow
  BY DEF ExportInv
<1>3. LcInit => ExportInv
  BY InitInv
<1> QED BY <1>1, <1>2, <1>3, LcInitTypeOK, LcNextTypeOK, PTL DEF LcSpec

-----------------------------------------------------------------------------
(* The rollup, with SQLite and a cursor that can be read.                    *)

CursorReadable == "cursor" \notin Failures

LEMMA NextFoldInv ==
  ASSUME CursorReadable, LcTypeOK, SerialInv, FoldInv, [LcNext]_lcVars PROVE FoldInv'
<1>0. roll \in Rolls
  BY DEF LcTypeOK
<1>1. CASE UNCHANGED <<roll, rolled, log>>
  BY <1>1 DEF FoldInv
<1>2. CASE roll'.pc = "idle"
  BY <1>2 DEF FoldInv
<1>3. ASSUME NEW h \in Handlers, CommitInsert(h) PROVE FoldInv'
  <2>1. roll.pc # "folding" /\ UNCHANGED <<roll, rolled>>
    BY <1>3 DEF CommitInsert, SerialInv, folded
  <2> QED BY <2>1 DEF FoldInv
<1>4. CASE Plan
  <2>1. PICK m \in log :
          /\ rolled < m
          /\ roll' = [roll EXCEPT !.pc = "planned", !.from = rolled,
                                   !.upto = IF rolled + Chunk > m THEN m ELSE rolled + Chunk]
    BY <1>4 DEF Plan, CursorReadable, Fails
  <2>2. /\ roll'.pc = "planned" /\ roll'.from = rolled /\ rolled' = rolled
        /\ roll'.upto = IF rolled + Chunk > m THEN m ELSE rolled + Chunk
    BY <1>0, <1>4, <2>1 DEF Rolls, Plan, folded
  <2>3. rolled <= roll'.upto
    BY <2>1, <2>2, Integral, ConsumersAssumption
  <2> QED BY <2>2, <2>3 DEF FoldInv
<1>5. CASE BeginFold
  <2>1. /\ roll'.from = roll.from /\ roll'.upto = roll.upto /\ roll'.at = 0 /\ rolled' = rolled
        /\ roll.pc = "planned"
    BY <1>0, <1>5 DEF BeginFold, Rolls, folded
  <2>2. 1 .. roll'.at = {}
    BY <2>1
  <2> QED BY <2>1, <2>2 DEF FoldInv
<1>6. CASE Fold
  <2> DEFINE new == {i \in log : roll.from < i /\ i <= roll.upto}
  <2>1. /\ roll'.pc = "folding" /\ roll'.from = roll.from /\ roll'.upto = roll.upto
        /\ roll'.at = roll.at + 1 /\ roll'.part = [roll.part EXCEPT ![roll.at + 1] = new]
    BY <1>6, FoldShape
  <2>2. /\ log' = log /\ rolled' = rolled /\ roll.pc = "folding" /\ roll.at < NTables
    BY <1>6 DEF Fold, inserts, folded
  <2>3. new' = new
    BY <2>1, <2>2
  <2>4. roll.at \in Nat /\ NTables \in Nat /\ roll.part \in [Tables -> SUBSET (1 .. taken)]
    BY <1>0, ConsumersAssumption DEF Rolls
  <2>5. \A t \in 1 .. roll.at : roll.part[t] = new
    BY <2>2 DEF FoldInv
  <2> HIDE DEF new
  <2>6. \A t \in 1 .. roll'.at : roll'.part[t] = new
    BY <2>1, <2>2, <2>4, <2>5 DEF Tables
  <2>7. \A t \in 1 .. roll'.at : roll'.part[t] = new'
    BY <2>3, <2>6
  <2>8. roll.from = rolled /\ rolled <= roll.upto
    BY <2>2 DEF FoldInv
  <2> QED BY <2>1, <2>2, <2>7, <2>8 DEF FoldInv, new
<1>7. CASE CommitFold \/ AbortFold \/ CrashCP
  BY <1>2, <1>7 DEF CommitFold, AbortFold, CrashCP, Resting
<1>8. ASSUME NEW h \in Handlers, BeginInsert(h) \/ InsertRow(h) \/ AbortInsert(h) PROVE FoldInv'
  BY <1>1, <1>8 DEF BeginInsert, InsertRow, AbortInsert, folded
<1>9. CASE ExportStep \/ SendFails \/ UNCHANGED lcVars
  BY <1>1, <1>9 DEF ExportStep, NewExporter, ReadExport, Send, SaveExport, SendFails, lcVars, inserts, folded
<1> QED BY <1>3, <1>4, <1>5, <1>6, <1>7, <1>8, <1>9 DEF LcNext, Insert, RollupStep

LEMMA NextCounted ==
  ASSUME LcTypeOK, OpenInv, FoldInv, CountedExactlyOnce, [LcNext]_lcVars PROVE CountedExactlyOnce'
<1>1. CASE UNCHANGED <<counted, rolled, log>>
  BY <1>1 DEF CountedExactlyOnce
<1>2. ASSUME NEW h \in Handlers, CommitInsert(h) PROVE CountedExactlyOnce'
  <2>1. log' = log \cup own[h] /\ tx[h] = "open" /\ UNCHANGED <<counted, rolled>>
    BY <1>2 DEF CommitInsert, folded
  <2>2. \A i \in own[h] : ~ (i <= rolled)
    BY <2>1, Integral DEF OpenInv
  <2> QED BY <2>1, <2>2 DEF CountedExactlyOnce
<1>3. CASE CommitFold
  <2>1. \A t \in Tables : roll.part[t] = {i \in log : rolled < i /\ i <= roll.upto}
    BY <1>3, ConsumersAssumption DEF CommitFold, FoldInv, Tables
  <2>2. rolled <= roll.upto /\ rolled \in Nat /\ roll.upto \in Nat /\ log \subseteq Nat
    BY <1>3, Integral DEF CommitFold, FoldInv
  <2>3. log' = log /\ rolled' = roll.upto
    BY <1>3 DEF CommitFold, inserts
  <2> SUFFICES ASSUME NEW t \in Tables, NEW i \in Ids
               PROVE  counted'[t][i] = IF i \in log /\ i <= roll.upto THEN 1 ELSE 0
    BY <2>3 DEF CountedExactlyOnce
  <2>4. counted'[t][i] = IF i \in roll.part[t] THEN counted[t][i] + 1 ELSE counted[t][i]
    BY <1>3 DEF CommitFold
  <2>5. counted[t][i] = IF i \in log /\ i <= rolled THEN 1 ELSE 0
    BY DEF CountedExactlyOnce
  <2>6. i \in roll.part[t] <=> i \in log /\ rolled < i /\ i <= roll.upto
    BY <2>1
  <2>7. i \in Nat
    BY ConsumersAssumption DEF Ids
  <2> QED BY <2>2, <2>4, <2>5, <2>6, <2>7
<1>4. ASSUME NEW h \in Handlers, BeginInsert(h) \/ InsertRow(h) \/ AbortInsert(h) PROVE CountedExactlyOnce'
  BY <1>1, <1>4 DEF BeginInsert, InsertRow, AbortInsert, folded
<1>5. CASE Plan \/ BeginFold \/ Fold \/ AbortFold \/ CrashCP
  BY <1>1, <1>5 DEF Plan, BeginFold, Fold, AbortFold, CrashCP, inserts, folded
<1>6. CASE ExportStep \/ SendFails \/ UNCHANGED lcVars
  BY <1>1, <1>6 DEF ExportStep, NewExporter, ReadExport, Send, SaveExport, SendFails, lcVars, inserts, folded
<1> QED BY <1>2, <1>3, <1>4, <1>5, <1>6 DEF LcNext, Insert, RollupStep

\* With SQLite, and a cursor that can be read, RollupAdvance counts every row
\* it has passed exactly once in every rollup table, although batches arrive
\* during its transaction and the transaction fails or the control plane stops.
THEOREM RowsAreCountedOnce == ASSUME Serial, CursorReadable PROVE LcSpec => []CountedExactlyOnce
<1>1. LcTypeOK /\ ExportInv /\ [LcNext]_lcVars => ExportInv'
  BY NextExportInv
<1>2. LcTypeOK /\ ExportInv /\ FoldInv /\ [LcNext]_lcVars => FoldInv'
  BY NextFoldInv DEF ExportInv
<1>3. LcTypeOK /\ ExportInv /\ FoldInv /\ CountedExactlyOnce /\ [LcNext]_lcVars => CountedExactlyOnce'
  BY NextCounted DEF ExportInv
<1> QED BY <1>1, <1>2, <1>3, InitInv, LcInitTypeOK, LcNextTypeOK, PTL DEF LcSpec
=============================================================================
