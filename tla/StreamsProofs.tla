--------------------------- MODULE StreamsProofs ---------------------------
(* Proofs about what is shipped from the agents for people to look at, what   *)
(* is kept of it and the names it is shown with: the process logs, for rings  *)
(* and batches of any size; the live stream, for any number of resolvers,     *)
(* viewers and entries; the names of clients, for any number of clients,      *)
(* admins and lookups; the privacy of the query log, for any policies,        *)
(* clients and names.                                                         *)
EXTENDS ProcLogs, LiveStream, ClientNames, Privacy, FiniteSetTheorems, TLAPS

(* What is chosen of a sequence.                                           *)

\* Every k up to the number of positions has its position: Preceding numbers them.
LEMMA NthIsThere ==
  ASSUME NEW m \in Nat, NEW I \in SUBSET (1 .. m)
  PROVE  /\ IsFiniteSet(I) /\ Cardinality(I) \in Nat
         /\ \A k \in 1 .. Cardinality(I) : Nth(I, k) \in I /\ Preceding(I, Nth(I, k)) = k - 1
         /\ \A i \in I : Preceding(I, i) \in 0 .. Cardinality(I) - 1
         /\ \A i, j \in I : i < j => Preceding(I, i) < Preceding(I, j)
<1>1. IsFiniteSet(I) /\ Cardinality(I) \in Nat
  <2>1. IsFiniteSet(1 .. m)
    BY FS_Interval
  <2> QED BY <2>1, FS_Subset, FS_CardinalityType
<1> DEFINE c == Cardinality(I)
           Pre(i) == {j \in I : j < i}
           b == [i \in I |-> Preceding(I, i)]
<1>2. \A i \in I : IsFiniteSet(Pre(i)) /\ Preceding(I, i) \in 0 .. c - 1
  <2> TAKE i \in I
  <2>1. IsFiniteSet(I \ {i}) /\ Cardinality(I \ {i}) = c - 1
    BY <1>1, FS_RemoveElement
  <2>2. Pre(i) \in SUBSET (I \ {i})
    OBVIOUS
  <2>3. IsFiniteSet(Pre(i)) /\ Cardinality(Pre(i)) <= c - 1
    BY <2>1, <2>2, FS_Subset
  <2>4. Cardinality(Pre(i)) \in Nat
    BY <2>3, FS_CardinalityType
  <2> QED BY <1>1, <2>3, <2>4 DEF Preceding
<1>3. \A i, j \in I : i < j => Preceding(I, i) < Preceding(I, j)
  <2> SUFFICES ASSUME NEW i \in I, NEW j \in I, i < j PROVE Preceding(I, i) < Preceding(I, j)
    OBVIOUS
  <2>0. I \subseteq Int
    OBVIOUS
  <2>1. Pre(i) \cup {i} \in SUBSET Pre(j) /\ i \notin Pre(i)
    <3>1. \A l \in Pre(i) \cup {i} : l \in I /\ l < j
      BY <2>0
    <3>2. i \notin Pre(i)
      BY <2>0
    <3> QED BY <3>1, <3>2
  <2>2. Cardinality(Pre(i) \cup {i}) = Cardinality(Pre(i)) + 1
    BY <1>2, <2>1, FS_AddElement
  <2>3. Cardinality(Pre(i) \cup {i}) <= Cardinality(Pre(j))
    BY <1>2, <2>1, FS_Subset
  <2> HIDE DEF Pre
  <2>4. Preceding(I, i) = Cardinality(Pre(i)) /\ Preceding(I, j) = Cardinality(Pre(j))
    BY DEF Preceding, Pre
  <2> QED BY <1>2, <2>2, <2>3, <2>4
<1>4. b \in Injection(I, 0 .. c - 1)
  <2>1. b \in [I -> 0 .. c - 1]
    BY <1>2
  <2>2. \A i, j \in I : b[i] = b[j] => i = j
    <3> SUFFICES ASSUME NEW i \in I, NEW j \in I, Preceding(I, i) = Preceding(I, j) PROVE i = j
      OBVIOUS
    <3>1. Preceding(I, i) \in Int /\ i \in Int /\ j \in Int
      <4>1. i \in Int /\ j \in Int
        OBVIOUS
      <4>2. Preceding(I, i) \in 0 .. c - 1
        BY <1>2
      <4> QED BY <4>1, <4>2
    <3>2. ~(i < j) /\ ~(j < i)
      BY <1>3, <3>1
    <3> QED BY <3>1, <3>2
  <2> HIDE DEF b
  <2> QED BY <2>1, <2>2 DEF Injection, IsInjective
<1>5. IsFiniteSet(0 .. c - 1) /\ Cardinality(0 .. c - 1) = c
  <2>1. \A k \in Nat : IsFiniteSet(0 .. k - 1) /\ Cardinality(0 .. k - 1) = k
    BY FS_Interval
  <2> HIDE DEF c
  <2> QED BY <1>1, <2>1 DEF c
<1>6. b \in Surjection(I, 0 .. c - 1)
  <2> HIDE DEF b, c
  <2> QED BY <1>4, <1>5, FS_Injection DEF c
<1>7. \A k \in 1 .. c : Nth(I, k) \in I /\ Preceding(I, Nth(I, k)) = k - 1
  <2> TAKE k \in 1 .. c
  <2>1. k - 1 \in 0 .. c - 1
    BY <1>1
  <2>2. \E i \in I : b[i] = k - 1
    BY <1>6, <2>1 DEF Surjection
  <2>3. \E i \in I : Preceding(I, i) = k - 1
    BY <2>2
  <2> QED BY <2>3 DEF Nth
<1> QED BY <1>1, <1>2, <1>3, <1>7

LEMMA ChosenIsOf ==
  ASSUME NEW S, NEW s \in Seq(S), NEW I \in SUBSET (1 .. Len(s))
  PROVE  /\ Chosen(s, I) \in Seq(S) /\ Len(Chosen(s, I)) = Cardinality(I)
         /\ \A k \in 1 .. Cardinality(I) : Nth(I, k) \in I /\ Chosen(s, I)[k] = s[Nth(I, k)]
<1>1. Len(s) \in Nat
  OBVIOUS
<1>2. Cardinality(I) \in Nat /\ \A k \in 1 .. Cardinality(I) : Nth(I, k) \in I
  BY <1>1, NthIsThere
<1>3. \A k \in 1 .. Cardinality(I) : s[Nth(I, k)] \in S
  <2>1. \A i \in I : s[i] \in S
    OBVIOUS
  <2> QED BY <1>2, <2>1
<1>4. Chosen(s, I) \in [1 .. Cardinality(I) -> S]
  BY <1>3 DEF Chosen
<1>5. Chosen(s, I) \in Seq(S) /\ Len(Chosen(s, I)) = Cardinality(I)
  BY <1>2, <1>4
<1> QED BY <1>2, <1>5 DEF Chosen

\* Positions are chosen in their order, and all of them.
LEMMA NthInOrder ==
  ASSUME NEW m \in Nat, NEW I \in SUBSET (1 .. m)
  PROVE  /\ \A i \in I : \E k \in 1 .. Cardinality(I) : Nth(I, k) = i
         /\ \A k, l \in 1 .. Cardinality(I) : k < l => Nth(I, k) < Nth(I, l)
<1> DEFINE c == Cardinality(I)
           P(i) == Preceding(I, i)
<1>1. c \in Nat /\ \A k \in 1 .. c : Nth(I, k) \in I /\ P(Nth(I, k)) = k - 1
  BY NthIsThere
<1>2. \A i \in I : P(i) \in 0 .. c - 1
  BY NthIsThere
<1>3. \A i, j \in I : i < j => P(i) < P(j)
  BY NthIsThere
<1>4. I \subseteq Int
  OBVIOUS
<1> HIDE DEF c, P
<1>5. \A i, j \in I : P(i) = P(j) => i = j
  <2> SUFFICES ASSUME NEW i \in I, NEW j \in I, P(i) = P(j) PROVE i = j
    OBVIOUS
  <2>1. P(i) \in Int /\ i \in Int /\ j \in Int
    BY <1>1, <1>2, <1>4
  <2>2. ~(i < j) /\ ~(j < i)
    BY <1>3, <2>1
  <2> QED BY <2>1, <2>2
<1>6. ASSUME NEW i \in I PROVE \E k \in 1 .. c : Nth(I, k) = i
  <2>1. P(i) \in 0 .. c - 1
    BY <1>2
  <2>2. PICK p \in 0 .. c - 1 : p = P(i)
    BY <2>1
  <2>3. PICK k \in 1 .. c : k - 1 = p
    <3>1. p + 1 \in 1 .. c /\ p + 1 - 1 = p
      BY <1>1
    <3> QED BY <3>1
  <2>4. Nth(I, k) \in I /\ P(Nth(I, k)) = P(i)
    BY <1>1, <2>2, <2>3
  <2> QED BY <1>5, <2>3, <2>4
<1>7. ASSUME NEW k \in 1 .. c, NEW l \in 1 .. c, k < l PROVE Nth(I, k) < Nth(I, l)
  <2>1. Nth(I, k) \in I /\ Nth(I, l) \in I /\ P(Nth(I, k)) = k - 1 /\ P(Nth(I, l)) = l - 1
    BY <1>1
  <2>2. Nth(I, k) \in Int /\ Nth(I, l) \in Int
    BY <1>4, <2>1
  <2>3. P(Nth(I, k)) < P(Nth(I, l)) /\ P(Nth(I, k)) \in Int /\ P(Nth(I, l)) \in Int
    BY <1>1, <1>7, <2>1
  <2>4. ~(P(Nth(I, l)) < P(Nth(I, k))) /\ P(Nth(I, k)) # P(Nth(I, l))
    BY <2>3
  <2>5. ~(Nth(I, l) < Nth(I, k)) /\ Nth(I, k) # Nth(I, l)
    BY <1>3, <2>1, <2>4
  <2> QED BY <2>2, <2>5
<1> QED BY <1>6, <1>7 DEF c

-----------------------------------------------------------------------------
(* The process log.                                                        *)

Line == [boot : Nat \ {0}, seq : Nat \ {0}]
RingOf(cap) == [slots : [0 .. cap - 1 -> Line \cup {NoLine}], start : 0 .. cap - 1, count : 0 .. cap]

LEMMA ModOnce ==
  ASSUME NEW c \in Nat \ {0}, NEW x \in 0 .. 2 * c - 1
  PROVE  x % c = IF x < c THEN x ELSE x - c
<1>1. CASE x < c
  <2>1. x = c * 0 + x
    OBVIOUS
  <2> QED BY <1>1, <2>1
<1>2. CASE x >= c
  <2>1. x = c * 1 + (x - c) /\ x - c \in 0 .. c - 1
    BY <1>2
  <2> QED BY <1>2, <2>1
<1> QED BY <1>1, <1>2

\* A line put into a ring comes last, and the oldest goes if the ring was full,
\* wherever it has wrapped.
LEMMA PutKeeps ==
  ASSUME NEW cap \in Nat \ {0}, NEW b \in RingOf(cap), NEW e \in Line
  PROVE  /\ put(b, cap, e) \in RingOf(cap)
         /\ put(b, cap, e).count = IF b.count < cap THEN b.count + 1 ELSE cap
         /\ b.count < cap => \A i \in 1 .. b.count : All(put(b, cap, e), cap)[i] = All(b, cap)[i]
         /\ b.count = cap => \A i \in 1 .. cap - 1 : All(put(b, cap, e), cap)[i] = All(b, cap)[i + 1]
         /\ All(put(b, cap, e), cap)[put(b, cap, e).count] = e
<1> DEFINE at(x) == IF x < cap THEN x ELSE x - cap
<1>1. \A x \in 0 .. 2 * cap - 1 : x % cap = at(x) /\ at(x) \in 0 .. cap - 1
  <2> TAKE x \in 0 .. 2 * cap - 1
  <2>1. x % cap = at(x)
    BY ModOnce
  <2>2. at(x) \in 0 .. cap - 1
    OBVIOUS
  <2> QED BY <2>1, <2>2
<1> PICK slots \in [0 .. cap - 1 -> Line \cup {NoLine}], st \in 0 .. cap - 1, ct \in 0 .. cap :
      b = [slots |-> slots, start |-> st, count |-> ct]
  BY DEF RingOf
<1>2. \A i \in 1 .. cap : st + i - 1 \in 0 .. 2 * cap - 1 /\ st + (i + 1) - 1 = st + i
  OBVIOUS
<1>3. st + ct \in 0 .. 2 * cap - 1 /\ st + 1 \in 0 .. 2 * cap - 1
  OBVIOUS
<1>4. \A i \in 1 .. ct : All(b, cap)[i] = slots[at(st + i - 1)]
  <2> HIDE DEF at
  <2> QED BY <1>1, <1>2 DEF All
<1>5. CASE ct < cap
  <2> DEFINE a == at(st + ct)
             new == [slots EXCEPT ![a] = e]
             p == [slots |-> new, start |-> st, count |-> ct + 1]
  <2>1. put(b, cap, e) = p
    <3>1. (st + ct) % cap = a
      <4> HIDE DEF at
      <4> QED BY <1>1, <1>3
    <3> HIDE DEF a
    <3> QED BY <1>5, <3>1 DEF put
  <2>2. a \in 0 .. cap - 1
    BY <1>3
  <2>3. \A i \in 1 .. ct : at(st + i - 1) # a /\ at(st + i - 1) \in 0 .. cap - 1
    BY <1>5
  <2> HIDE DEF a
  <2>4. new \in [0 .. cap - 1 -> Line \cup {NoLine}] /\ new[a] = e /\ \A k \in 0 .. cap - 1 : k # a => new[k] = slots[k]
    BY <2>2
  <2> HIDE DEF new
  <2>5. p \in RingOf(cap)
    BY <1>5, <2>4 DEF RingOf
  <2>6. p.slots = new /\ p.start = st /\ p.count = ct + 1
    OBVIOUS
  <2> HIDE DEF p
  <2>7. \A i \in 1 .. ct + 1 : All(p, cap)[i] = new[at(st + i - 1)]
    <3>1. \A i \in 1 .. ct + 1 : i \in 1 .. cap
      BY <1>5
    <3> HIDE DEF at
    <3> QED BY <1>1, <1>2, <2>6, <3>1 DEF All
  <2>8. \A i \in 1 .. ct : All(p, cap)[i] = All(b, cap)[i]
    <3>1. \A i \in 1 .. ct : i \in 1 .. ct + 1
      OBVIOUS
    <3> HIDE DEF at
    <3> QED BY <1>4, <2>3, <2>4, <2>7, <3>1
  <2>9. All(p, cap)[ct + 1] = e
    <3>1. st + (ct + 1) - 1 = st + ct /\ ct + 1 \in 1 .. ct + 1
      OBVIOUS
    <3> HIDE DEF at
    <3> QED BY <2>4, <2>7, <3>1 DEF a
  <2> QED BY <1>5, <2>1, <2>5, <2>6, <2>8, <2>9
<1>6. CASE ct = cap
  <2> DEFINE new == [slots EXCEPT ![st] = e]
             nst == at(st + 1)
             p == [slots |-> new, start |-> nst, count |-> ct]
  <2>1. put(b, cap, e) = p
    <3>1. (st + 1) % cap = nst
      <4> HIDE DEF at
      <4> QED BY <1>1, <1>3
    <3>2. ~(ct < cap)
      BY <1>6
    <3> HIDE DEF nst
    <3> QED BY <3>1, <3>2 DEF put
  <2>2. nst \in 0 .. cap - 1
    BY <1>3
  <2>3. \A i \in 1 .. cap - 1 : /\ at(nst + i - 1) = at(st + i) /\ at(st + i) # st
                               /\ at(st + i) \in 0 .. cap - 1
    OBVIOUS
  <2>4. at(nst + cap - 1) = st
    OBVIOUS
  <2>5. \A i \in 1 .. cap : nst + i - 1 \in 0 .. 2 * cap - 1
    OBVIOUS
  <2> HIDE DEF nst
  <2>6. new \in [0 .. cap - 1 -> Line \cup {NoLine}] /\ new[st] = e /\ \A k \in 0 .. cap - 1 : k # st => new[k] = slots[k]
    OBVIOUS
  <2> HIDE DEF new
  <2>7. p \in RingOf(cap)
    BY <1>6, <2>2, <2>6 DEF RingOf
  <2>8. p.slots = new /\ p.start = nst /\ p.count = cap
    BY <1>6
  <2> HIDE DEF p
  <2>9. \A i \in 1 .. cap : All(p, cap)[i] = new[at(nst + i - 1)]
    <3> HIDE DEF at
    <3> QED BY <1>1, <2>5, <2>8 DEF All
  <2>10. \A i \in 1 .. cap - 1 : All(p, cap)[i] = All(b, cap)[i + 1]
    <3>1. \A i \in 1 .. cap - 1 : i \in 1 .. cap /\ i + 1 \in 1 .. ct
      BY <1>6
    <3>2. \A i \in 1 .. cap - 1 : All(b, cap)[i + 1] = slots[at(st + i)]
      <4> TAKE i \in 1 .. cap - 1
      <4>1. All(b, cap)[i + 1] = slots[at(st + (i + 1) - 1)]
        <5> HIDE DEF at
        <5> QED BY <1>4, <3>1
      <4>2. at(st + (i + 1) - 1) = at(st + i)
        OBVIOUS
      <4> HIDE DEF at
      <4> QED BY <4>1, <4>2
    <3>3. \A i \in 1 .. cap - 1 : All(p, cap)[i] = new[at(nst + i - 1)]
      <4> HIDE DEF at
      <4> QED BY <2>9, <3>1
    <3> HIDE DEF at
    <3> QED BY <2>3, <2>6, <3>2, <3>3
  <2>11. All(p, cap)[cap] = e
    <3> HIDE DEF at
    <3> QED BY <2>4, <2>6, <2>9
  <2> QED BY <1>6, <2>1, <2>7, <2>8, <2>10, <2>11
<1> QED BY <1>5, <1>6

\* The numbers of lines go up.
Ascends(s) == \A i, j \in DOMAIN s : i < j => s[i].seq < s[j].seq

\* Of lines in order, those above a number, in their order.
LEMMA LinesAbove ==
  ASSUME NEW s \in Seq(Line), Ascends(s), NEW a \in Nat,
         NEW I \in SUBSET (1 .. Len(s)), \A i \in 1 .. Len(s) : i \in I <=> s[i].seq > a,
         NEW c, c = Chosen(s, I)
  PROVE  /\ c \in Seq(Line) /\ Ascends(c)
         /\ \A k \in 1 .. Len(c) : c[k].seq > a /\ c[k] \in ToSet(s)
         /\ \A i \in 1 .. Len(s) : s[i].seq > a => s[i] \in ToSet(c)
<1>1. Len(s) \in Nat /\ I \in SUBSET (1 .. Len(s)) /\ DOMAIN s = 1 .. Len(s)
  OBVIOUS
<1>2. /\ c \in Seq(Line) /\ Len(c) = Cardinality(I)
      /\ \A k \in 1 .. Cardinality(I) : Nth(I, k) \in I /\ c[k] = s[Nth(I, k)]
  BY <1>1, ChosenIsOf
<1>3. /\ \A i \in I : \E k \in 1 .. Cardinality(I) : Nth(I, k) = i
      /\ \A k, l \in 1 .. Cardinality(I) : k < l => Nth(I, k) < Nth(I, l)
  BY <1>1, NthInOrder
<1>4. DOMAIN c = 1 .. Cardinality(I)
  BY <1>2
<1>5. Ascends(c)
  <2> SUFFICES ASSUME NEW k \in 1 .. Cardinality(I), NEW l \in 1 .. Cardinality(I), k < l PROVE c[k].seq < c[l].seq
    BY <1>4 DEF Ascends
  <2>1. Nth(I, k) \in 1 .. Len(s) /\ Nth(I, l) \in 1 .. Len(s) /\ Nth(I, k) < Nth(I, l)
    BY <1>1, <1>2, <1>3
  <2>2. s[Nth(I, k)].seq < s[Nth(I, l)].seq
    BY <1>1, <2>1 DEF Ascends
  <2> QED BY <1>2, <2>2
<1>6. \A k \in 1 .. Len(c) : c[k].seq > a /\ \E i \in 1 .. Len(s) : c[k] = s[i]
  BY <1>1, <1>2
<1>7. \A i \in 1 .. Len(s) : s[i].seq > a => \E k \in 1 .. Len(c) : c[k] = s[i]
  <2> SUFFICES ASSUME NEW i \in 1 .. Len(s), s[i].seq > a PROVE \E k \in 1 .. Len(c) : c[k] = s[i]
    OBVIOUS
  <2>1. i \in I
    OBVIOUS
  <2>2. PICK k \in 1 .. Cardinality(I) : Nth(I, k) = i
    BY <1>3, <2>1
  <2>3. c[k] = s[Nth(I, k)]
    BY <1>2
  <2> QED BY <1>2, <2>2, <2>3
<1>8. \A k \in 1 .. Len(c) : c[k] \in ToSet(s)
  BY <1>1, <1>6 DEF ToSet
<1>9. \A i \in 1 .. Len(s) : s[i].seq > a => s[i] \in ToSet(c)
  BY <1>2, <1>4, <1>7 DEF ToSet
<1> QED BY <1>2, <1>5, <1>6, <1>8, <1>9

LEMMA Beginning ==
  ASSUME NEW s \in Seq(Line), NEW k \in 1 .. Len(s)
  PROVE  /\ SubSeq(s, 1, k) \in Seq(Line) /\ Len(SubSeq(s, 1, k)) = k /\ SubSeq(s, 1, k) # <<>>
         /\ \A i \in 1 .. k : SubSeq(s, 1, k)[i] = s[i]
         /\ Ascends(s) => Ascends(SubSeq(s, 1, k))
<1>1. SubSeq(s, 1, k) \in Seq(Line) /\ Len(SubSeq(s, 1, k)) = k /\ \A i \in 1 .. k : SubSeq(s, 1, k)[i] = s[i]
  OBVIOUS
<1>2. SubSeq(s, 1, k) # <<>>
  BY <1>1
<1>3. DOMAIN SubSeq(s, 1, k) = 1 .. k /\ DOMAIN s = 1 .. Len(s) /\ 1 .. k \subseteq 1 .. Len(s)
  BY <1>1
<1> QED BY <1>1, <1>2, <1>3 DEF Ascends

LineOf(b, n) == [boot |-> b, seq |-> n]
Got == landed \cup refused \cup evicted

LinesTypes ==
  /\ boot \in Nat \ {0} /\ nextSeq \in Nat /\ procLogCursor \in Nat /\ ring \in RingOf(RingCap)
  /\ nodeLog \in [lines : Seq(Line), bootID : Nat, lastSeq : Nat]
  /\ landed \subseteq Line /\ refused \subseteq Line /\ evicted \subseteq Line /\ crossed \in BOOLEAN

\* A batch is of one boot and in order, and every line before its last is in it
\* or accounted for.
Batch(B)    == B \in Seq(Line) /\ B # <<>> /\ Ascends(B) /\ \A i \in DOMAIN B : B[i].boot = B[1].boot
Complete(B) == \A n \in 1 .. B[Len(B)].seq : LineOf(B[1].boot, n) \in ToSet(B) \cup Got
BatchesFit ==
  /\ sending # <<>> => Batch(sending) /\ sending[1].boot = boot /\ Complete(sending)
  /\ \A B \in late : Batch(B) /\ Complete(B)

\* What is not in the resolver's ring any more has been counted as evicted.
RingFollows == RingKeepsLast /\ \A n \in 1 .. nextSeq - ring.count : LineOf(boot, n) \in evicted

\* The last number is of the boot it is kept with, and what it excludes is accounted for.
LogFits ==
  /\ \A n \in 1 .. nodeLog.lastSeq : LineOf(nodeLog.bootID, n) \in Got
  /\ nodeLog.bootID = 0 \/ \E e \in landed : e.boot = nodeLog.bootID
  /\ crossed \/ \A i \in DOMAIN nodeLog.lines :
       /\ nodeLog.lines[i].boot <= nodeLog.bootID
       /\ nodeLog.lines[i].boot = nodeLog.bootID => nodeLog.lines[i].seq <= nodeLog.lastSeq

LinesIInv == LinesTypes /\ BatchesFit /\ RingFollows /\ LogFits /\ ShownOnce /\ CursorIsBacked /\ NothingHidden

LEMMA LineIs == ASSUME NEW e \in Line PROVE e = LineOf(e.boot, e.seq) /\ e.boot \in Nat \ {0} /\ e.seq \in Nat \ {0}
BY DEF Line, LineOf

\* What is accounted for stays so.
LEMMA Grows ==
  ASSUME landed \subseteq landed', refused \subseteq refused', evicted \subseteq evicted'
  PROVE  Got \subseteq Got' /\ \A B : Complete(B) => Complete(B)'
<1>1. Got \subseteq Got'
  BY DEF Got
<1> QED BY <1>1 DEF Complete

LEMMA BatchIs ==
  ASSUME NEW B, Batch(B)
  PROVE  /\ B \in Seq(Line) /\ Len(B) \in Nat \ {0} /\ Last(B) = B[Len(B)] /\ Head(B) = B[1]
         /\ B[1] \in Line /\ B[Len(B)] \in Line /\ ToSet(B) \subseteq Line /\ DOMAIN B = 1 .. Len(B)
         /\ \A i \in 1 .. Len(B) : B[i] \in Line /\ B[i].boot = B[1].boot /\ B[i] \in ToSet(B) /\ B[i].seq <= B[Len(B)].seq
<1>1. B \in Seq(Line) /\ B # <<>> /\ Ascends(B) /\ \A i \in DOMAIN B : B[i].boot = B[1].boot
  BY DEF Batch
<1>2. Len(B) \in Nat \ {0} /\ DOMAIN B = 1 .. Len(B) /\ Head(B) = B[1] /\ \A i \in 1 .. Len(B) : B[i] \in Line
  BY <1>1
<1>3. Last(B) = B[Len(B)]
  BY DEF Last
<1>4. ToSet(B) = {B[i] : i \in 1 .. Len(B)}
  BY <1>2 DEF ToSet
<1>5. ASSUME NEW i \in 1 .. Len(B) PROVE B[i].seq <= B[Len(B)].seq
  <2>1. i = Len(B) \/ i < Len(B)
    <3>1. PICK m \in Nat : m = Len(B)
      BY <1>2
    <3>2. i \in 1 .. m
      BY <3>1
    <3>3. i = m \/ i < m
      BY <3>2
    <3> QED BY <3>1, <3>3
  <2>2. Len(B) \in DOMAIN B /\ i \in DOMAIN B
    BY <1>2
  <2>3. B[i].seq \in Nat /\ B[Len(B)].seq \in Nat
    BY <1>2, LineIs
  <2> QED BY <1>1, <2>1, <2>2, <2>3 DEF Ascends
<1> QED BY <1>1, <1>2, <1>3, <1>4, <1>5

\* How many lines there is no room for.
PushedOut(s, cap) == IF Len(s) <= cap THEN 0 ELSE Len(s) - cap

LEMMA NewestIs ==
  ASSUME NEW s \in Seq(Line), NEW cap \in Nat \ {0}, NEW n, n = Newest(s, cap)
  PROVE  /\ n \in Seq(Line) /\ (Len(s) < cap => n = s) /\ (Len(s) >= cap => Len(n) = cap)
         /\ PushedOut(s, cap) \in Nat /\ Len(s) = PushedOut(s, cap) + Len(n)
<1>0. PICK m \in Nat : m = Len(s)
  OBVIOUS
<1>1. CASE m <= cap
  <2>1. n = s
    BY <1>0, <1>1 DEF Newest
  <2>2. PushedOut(s, cap) = 0
    BY <1>0, <1>1 DEF PushedOut
  <2>3. m >= cap => m = cap
    BY <1>1
  <2> QED BY <1>0, <2>1, <2>2, <2>3
<1>2. CASE ~(m <= cap)
  <2>1. PICK off \in Nat : off = m - cap
    BY <1>2
  <2>2. n = SubSeq(s, off + 1, m)
    BY <1>0, <1>2, <2>1 DEF Newest
  <2>3. n \in Seq(Line) /\ Len(n) = cap
    BY <1>0, <2>1, <2>2
  <2>4. PushedOut(s, cap) = off
    BY <1>0, <1>2, <2>1 DEF PushedOut
  <2> QED BY <1>0, <1>2, <2>1, <2>3, <2>4
<1> QED BY <1>1, <1>2

LEMMA NewestAt ==
  ASSUME NEW s \in Seq(Line), NEW cap \in Nat \ {0}, NEW i \in 1 .. Len(Newest(s, cap))
  PROVE  Newest(s, cap)[i] = s[i + PushedOut(s, cap)]
<1>0. PICK m \in Nat : m = Len(s)
  OBVIOUS
<1>1. CASE m <= cap
  <2>1. Newest(s, cap) = s /\ PushedOut(s, cap) = 0
    BY <1>0, <1>1 DEF Newest, PushedOut
  <2>2. i \in 1 .. m /\ i + 0 = i
    BY <1>0, <2>1
  <2> QED BY <2>1, <2>2
<1>2. CASE ~(m <= cap)
  <2>1. PICK off \in Nat : off = m - cap
    BY <1>2
  <2>2. Newest(s, cap) = SubSeq(s, off + 1, m) /\ PushedOut(s, cap) = off
    BY <1>0, <1>2, <2>1 DEF Newest, PushedOut
  <2>3. Len(SubSeq(s, off + 1, m)) = cap /\ \A k \in 1 .. cap : SubSeq(s, off + 1, m)[k] = s[k + off]
    BY <1>0, <2>1
  <2>4. i \in 1 .. cap
    BY <2>2, <2>3
  <2> QED BY <2>2, <2>3, <2>4
<1> QED BY <1>1, <1>2

\* A batch that is taken in: nothing is shown twice or hidden, in whatever order
\* batches arrive.
LEMMA TakenIn ==
  ASSUME LinesIInv, NEW B, Batch(B), Complete(B), Ingests(B), UNCHANGED <<refused, evicted, forgotten>>
  PROVE  /\ nodeLog' \in [lines : Seq(Line), bootID : Nat, lastSeq : Nat] /\ landed' \subseteq Line /\ crossed' \in BOOLEAN
         /\ landed \subseteq landed' /\ Got \subseteq Got' /\ ToSet(B) \subseteq landed'
         /\ LogFits' /\ ShownOnce' /\ NothingHidden'
<1> USE ProcLogsAssumption
<1> DEFINE lines == nodeLog.lines
<1>0. /\ nodeLog \in [lines : Seq(Line), bootID : Nat, lastSeq : Nat] /\ lines \in Seq(Line)
      /\ nodeLog.bootID \in Nat /\ nodeLog.lastSeq \in Nat /\ landed \subseteq Line /\ crossed \in BOOLEAN
  BY DEF LinesIInv, LinesTypes
<1>1. /\ B \in Seq(Line) /\ Len(B) \in Nat \ {0} /\ Head(B) = B[1] /\ B[1] \in Line /\ B[Len(B)] \in Line
      /\ ToSet(B) \subseteq Line /\ DOMAIN B = 1 .. Len(B) /\ Ascends(B)
      /\ \A i \in 1 .. Len(B) : B[i] \in Line /\ B[i].boot = B[1].boot /\ B[i] \in ToSet(B) /\ B[i].seq <= B[Len(B)].seq
  BY BatchIs DEF Batch
<1>2. PICK id \in Nat \ {0} : id = B[1].boot
  BY <1>1, LineIs
<1>3. PICK known \in Nat : known = IF nodeLog.bootID = id THEN nodeLog.lastSeq ELSE 0
  BY <1>0
<1>4. PICK I \in SUBSET (1 .. Len(B)) : /\ I = {i \in 1 .. Len(B) : B[i].seq > known}
                                       /\ \A i \in 1 .. Len(B) : i \in I <=> B[i].seq > known
  <2> DEFINE J == {i \in 1 .. Len(B) : B[i].seq > known}
  <2>1. J \in SUBSET (1 .. Len(B)) /\ \A i \in 1 .. Len(B) : i \in J <=> B[i].seq > known
    OBVIOUS
  <2> QED BY <2>1
<1>5. PICK new : new = Chosen(B, I)
  OBVIOUS
<1>6. /\ new \in Seq(Line) /\ Ascends(new) /\ Len(new) \in Nat /\ DOMAIN new = 1 .. Len(new)
      /\ \A k \in 1 .. Len(new) : new[k].seq > known /\ \E i \in 1 .. Len(B) : new[k] = B[i]
      /\ \A i \in 1 .. Len(B) : B[i].seq > known => \E k \in 1 .. Len(new) : new[k] = B[i]
  <2>1. /\ new \in Seq(Line) /\ Ascends(new)
        /\ \A k \in 1 .. Len(new) : new[k].seq > known /\ \E i \in 1 .. Len(B) : new[k] = B[i]
        /\ \A i \in 1 .. Len(B) : B[i].seq > known => \E k \in 1 .. Len(new) : new[k] = B[i]
    <3>1. B \in Seq(Line) /\ Ascends(B) /\ \A i \in 1 .. Len(B) : i \in I <=> B[i].seq > known
      BY <1>1, <1>4
    <3>2. /\ new \in Seq(Line) /\ Ascends(new)
          /\ \A k \in 1 .. Len(new) : new[k].seq > known /\ new[k] \in ToSet(B)
          /\ \A i \in 1 .. Len(B) : B[i].seq > known => B[i] \in ToSet(new)
      BY <3>1, <1>5, LinesAbove
    <3>3. ToSet(B) = {B[i] : i \in 1 .. Len(B)} /\ ToSet(new) = {new[k] : k \in 1 .. Len(new)}
      <4>1. DOMAIN new = 1 .. Len(new)
        BY <3>2
      <4> QED BY <1>1, <4>1 DEF ToSet
    <3> QED BY <3>2, <3>3
  <2>2. Len(new) \in Nat /\ DOMAIN new = 1 .. Len(new)
    BY <2>1
  <2> QED BY <2>1, <2>2
<1>7. PICK last : last = IF new = <<>> THEN known ELSE Last(new).seq
  OBVIOUS
<1>8. PICK both \in Seq(Line) : both = lines \o new
  <2> HIDE DEF lines
  <2>1. lines \o new \in Seq(Line)
    BY <1>0, <1>6
  <2> QED BY <2>1
<1>9. nodeLog' = [lines |-> Newest(both, NodeCap), bootID |-> id, lastSeq |-> last]
  <2>1. nodeLog' = ingest(nodeLog, id, B)
    BY <1>1, <1>2 DEF Ingests
  <2> QED BY <1>1, <1>3, <1>4, <1>5, <1>7, <1>8, <2>1 DEF ingest, Added
<1>10. landed' = landed \cup ToSet(B) /\ crossed' = (crossed \/ \E e \in landed : e.boot > id)
  BY <1>1, <1>2 DEF Ingests
<1>11. last \in Nat /\ known <= last /\ \A k \in 1 .. Len(new) : new[k] \in Line /\ new[k].boot = id /\ new[k].seq <= last /\ known < new[k].seq
  <2>1. \A k \in 1 .. Len(new) : new[k] \in Line /\ new[k].boot = id /\ known < new[k].seq /\ new[k].seq \in Nat
    <3> TAKE k \in 1 .. Len(new)
    <3>1. PICK i \in 1 .. Len(B) : new[k] = B[i]
      BY <1>6
    <3>2. B[i] \in Line /\ B[i].boot = id
      BY <1>1, <1>2
    <3>3. new[k].seq \in Nat /\ new[k].seq > known
      BY <1>6, <3>1, <3>2, LineIs
    <3> QED BY <3>1, <3>2, <3>3
  <2>2. CASE new = <<>>
    BY <1>6, <1>7, <2>2
  <2>3. CASE new # <<>>
    <3>1. Len(new) \in 1 .. Len(new) /\ last = new[Len(new)].seq
      BY <1>6, <1>7, <2>3 DEF Last
    <3>2. \A k \in 1 .. Len(new) : k < Len(new) => new[k].seq < new[Len(new)].seq
      BY <1>6, <3>1 DEF Ascends
    <3>3. \A k \in 1 .. Len(new) : new[k].seq <= last
      <4> TAKE k \in 1 .. Len(new)
      <4>0. PICK m \in Nat : m = Len(new)
        BY <1>6
      <4>1. k < Len(new) \/ k = Len(new)
        BY <4>0
      <4> QED BY <2>1, <3>1, <3>2, <4>1
    <3> QED BY <2>1, <3>1, <3>3
  <2> QED BY <2>2, <2>3
<1>12. landed' \subseteq Line /\ crossed' \in BOOLEAN /\ landed \subseteq landed' /\ Got \subseteq Got' /\ ToSet(B) \subseteq landed'
  BY <1>0, <1>1, <1>10 DEF Got
<1>13. PICK kept : kept = Newest(both, NodeCap)
  OBVIOUS
<1>14. /\ kept \in Seq(Line) /\ (Len(both) < NodeCap => kept = both) /\ (Len(both) >= NodeCap => Len(kept) = NodeCap)
       /\ \E off \in Nat : /\ Len(both) = off + Len(kept)
                           /\ \A i \in 1 .. Len(kept) : i + off \in 1 .. Len(both) /\ kept[i] = both[i + off]
  <2>1. NodeCap \in Nat \ {0}
    OBVIOUS
  <2>2. /\ kept \in Seq(Line) /\ (Len(both) < NodeCap => kept = both) /\ (Len(both) >= NodeCap => Len(kept) = NodeCap)
    BY <1>13, <2>1, NewestIs
  <2>3. /\ PushedOut(both, NodeCap) \in Nat /\ Len(both) = PushedOut(both, NodeCap) + Len(kept)
        /\ \A i \in 1 .. Len(kept) : kept[i] = both[i + PushedOut(both, NodeCap)]
    <3>1. PushedOut(both, NodeCap) \in Nat /\ Len(both) = PushedOut(both, NodeCap) + Len(kept)
      BY <1>13, <2>1, NewestIs
    <3>2. \A i \in 1 .. Len(kept) : kept[i] = both[i + PushedOut(both, NodeCap)]
      <4> HIDE ProcLogsAssumption
      <4>1. NodeCap \in Nat \ {0} /\ both \in Seq(Line)
        BY <2>1
      <4> QED BY <1>13, <4>1, NewestAt
    <3> QED BY <3>1, <3>2
  <2>4. PICK off \in Nat : off = PushedOut(both, NodeCap)
    BY <2>3
  <2>5. Len(both) = off + Len(kept) /\ \A i \in 1 .. Len(kept) : i + off \in 1 .. Len(both) /\ kept[i] = both[i + off]
    <3>1. PICK m \in Nat, l \in Nat : m = Len(both) /\ l = Len(kept)
      BY <2>2
    <3>2. m = off + l /\ \A i \in 1 .. l : i + off \in 1 .. m
      BY <2>3, <2>4, <3>1
    <3> QED BY <2>3, <2>4, <3>1, <3>2
  <2> QED BY <2>2, <2>5
<1>15. nodeLog'.lines = kept /\ nodeLog'.bootID = id /\ nodeLog'.lastSeq = last
       /\ nodeLog' \in [lines : Seq(Line), bootID : Nat, lastSeq : Nat]
  BY <1>9, <1>11, <1>13, <1>14
\* Where a line of both comes from.
<1>16. /\ Len(both) = Len(lines) + Len(new) /\ Len(lines) \in Nat
       /\ \A p \in 1 .. Len(both) : \/ p <= Len(lines) /\ p \in 1 .. Len(lines) /\ both[p] = lines[p]
                                    \/ p > Len(lines) /\ p - Len(lines) \in 1 .. Len(new) /\ both[p] = new[p - Len(lines)]
  BY <1>0, <1>6, <1>8
<1>17. ToSet(lines) \subseteq ToSet(both) /\ ToSet(new) \subseteq ToSet(both)
  <2>1. \A p \in 1 .. Len(lines) : p \in 1 .. Len(both) /\ both[p] = lines[p]
    BY <1>0, <1>6, <1>8
  <2>2. \A p \in 1 .. Len(new) : p + Len(lines) \in 1 .. Len(both) /\ both[p + Len(lines)] = new[p]
    BY <1>0, <1>6, <1>8
  <2>3. DOMAIN lines = 1 .. Len(lines) /\ DOMAIN new = 1 .. Len(new) /\ DOMAIN both = 1 .. Len(both)
    BY <1>0, <1>6, <1>8
  <2> HIDE DEF lines
  <2> QED BY <2>1, <2>2, <2>3 DEF ToSet
<1>18. \A n \in 1 .. last : LineOf(id, n) \in Got'
  <2> SUFFICES ASSUME NEW n \in 1 .. last PROVE LineOf(id, n) \in Got'
    OBVIOUS
  <2>1. CASE n <= known
    <3>1. nodeLog.bootID = id /\ n \in 1 .. nodeLog.lastSeq
      BY <1>3, <1>11, <2>1
    <3> QED BY <1>12, <3>1 DEF LinesIInv, LogFits
  <2>2. CASE n > known
    <3>1. Len(new) \in 1 .. Len(new) /\ last = new[Len(new)].seq
      BY <1>6, <1>7, <1>11, <2>2 DEF Last
    <3>2. last <= B[Len(B)].seq
      BY <1>1, <1>6, <3>1
    <3>3. n \in 1 .. B[Len(B)].seq
      BY <1>1, <1>11, <3>2, LineIs
    <3> QED BY <1>2, <1>12, <3>3 DEF Complete, Got
  <2> QED BY <1>11, <2>1, <2>2
<1>19. \E e \in landed' : e.boot = id
  BY <1>1, <1>2, <1>12
<1>20. ~crossed' => /\ ~crossed /\ nodeLog.bootID <= id
                    /\ \A i \in 1 .. Len(lines) : /\ lines[i].boot <= id /\ lines[i].boot \in Nat /\ lines[i].seq \in Nat
                                                  /\ lines[i].boot = id => lines[i].seq <= known
  <2> SUFFICES ASSUME ~crossed' PROVE /\ ~crossed /\ nodeLog.bootID <= id
                    /\ \A i \in 1 .. Len(lines) : /\ lines[i].boot <= id /\ lines[i].boot \in Nat /\ lines[i].seq \in Nat
                                                  /\ lines[i].boot = id => lines[i].seq <= known
    OBVIOUS
  <2>1. ~crossed /\ \A e \in landed : ~(e.boot > id)
    BY <1>0, <1>10
  <2>2. nodeLog.bootID <= id
    BY <1>0, <1>2, <2>1 DEF LinesIInv, LogFits
  <2>3. \A i \in 1 .. Len(lines) : lines[i] \in Line /\ i \in DOMAIN nodeLog.lines
    BY <1>0
  <2>4. \A i \in 1 .. Len(lines) : /\ lines[i].boot <= nodeLog.bootID
                                   /\ lines[i].boot = nodeLog.bootID => lines[i].seq <= nodeLog.lastSeq
    BY <2>1, <2>3 DEF LinesIInv, LogFits
  <2>5. \A i \in 1 .. Len(lines) : lines[i].boot \in Nat /\ lines[i].seq \in Nat
    BY <2>3, LineIs
  <2> HIDE DEF lines
  <2> QED BY <1>0, <1>3, <2>1, <2>2, <2>4, <2>5
<1>21. LogFits'
  <2>1. ASSUME ~crossed', NEW i \in 1 .. Len(kept) PROVE kept[i].boot <= id /\ (kept[i].boot = id => kept[i].seq <= last)
    <3>1. PICK p \in 1 .. Len(both) : kept[i] = both[p]
      BY <1>14
    <3> HIDE DEF lines
    <3>2. CASE p \in 1 .. Len(lines) /\ both[p] = lines[p]
      BY <1>11, <1>20, <2>1, <3>1, <3>2
    <3>3. CASE p - Len(lines) \in 1 .. Len(new) /\ both[p] = new[p - Len(lines)]
      BY <1>11, <3>1, <3>3
    <3> QED BY <1>16, <3>2, <3>3
  <2>2. DOMAIN kept = 1 .. Len(kept)
    BY <1>14
  <2> QED BY <1>15, <1>18, <1>19, <2>1, <2>2 DEF LogFits
<1>22. ShownOnce'
  <2> SUFFICES ASSUME ~crossed', NEW i \in 1 .. Len(kept), NEW j \in 1 .. Len(kept), i < j, kept[i].boot = kept[j].boot
               PROVE  kept[i].seq < kept[j].seq
    <3>1. DOMAIN kept = 1 .. Len(kept)
      BY <1>14
    <3> QED BY <1>15, <3>1 DEF ShownOnce
  <2>1. PICK p \in 1 .. Len(both), q \in 1 .. Len(both) : p < q /\ kept[i] = both[p] /\ kept[j] = both[q]
    <3>1. PICK off \in Nat : \A l \in 1 .. Len(kept) : l + off \in 1 .. Len(both) /\ kept[l] = both[l + off]
      BY <1>14
    <3>2. i + off < j + off
      OBVIOUS
    <3> QED BY <3>1, <3>2
  <2> HIDE DEF lines
  <2>2. CASE p <= Len(lines) /\ q <= Len(lines)
    <3>0. p \in 1 .. Len(lines) /\ both[p] = lines[p]
      <4>1. PICK m \in Nat, l \in Nat : m = Len(lines) /\ l = Len(new)
        BY <1>6, <1>16
      <4>2. ~(p > m)
        BY <2>2, <4>1
      <4> QED BY <1>16, <4>1, <4>2
    <3>1. /\ p \in 1 .. Len(lines) /\ q \in 1 .. Len(lines) /\ both[p] = lines[p] /\ both[q] = lines[q]
      BY <1>16, <2>2, <3>0
    <3>2. p \in DOMAIN nodeLog.lines /\ q \in DOMAIN nodeLog.lines
      BY <1>0, <3>1 DEF lines
    <3>3. /\ p < q /\ nodeLog.lines[p] = kept[i] /\ nodeLog.lines[q] = kept[j]
      BY <1>0, <2>1, <3>1 DEF lines
    <3>4. nodeLog.lines[p].boot = nodeLog.lines[q].boot => nodeLog.lines[p].seq < nodeLog.lines[q].seq
      BY <1>20, <3>2, <3>3 DEF LinesIInv, ShownOnce
    <3> QED BY <3>3, <3>4
  <2>3. CASE p <= Len(lines) /\ q > Len(lines)
    <3>1. p \in 1 .. Len(lines) /\ both[p] = lines[p]
      BY <1>16, <2>3
    <3>2. PICK k \in 1 .. Len(new) : both[q] = new[k]
      <4>1. ~(q <= Len(lines))
        BY <1>16, <2>3
      <4> QED BY <1>16, <4>1
    <3>3. lines[p].boot = id /\ lines[p].seq <= known /\ lines[p].seq \in Nat
      BY <1>11, <1>20, <2>1, <3>1, <3>2
    <3>4. new[k].seq > known /\ new[k].seq \in Nat
      BY <1>11, LineIs
    <3>5. lines[p].seq < new[k].seq
      BY <3>3, <3>4
    <3> QED BY <2>1, <3>1, <3>2, <3>5
  <2>4. CASE p > Len(lines) /\ q > Len(lines)
    <3>1. p - Len(lines) \in 1 .. Len(new) /\ both[p] = new[p - Len(lines)] /\ q - Len(lines) \in 1 .. Len(new) /\ both[q] = new[q - Len(lines)]
      BY <1>16, <2>4
    <3>2. p - Len(lines) < q - Len(lines)
      BY <1>16, <2>1
    <3>3. new[p - Len(lines)].seq < new[q - Len(lines)].seq
      BY <1>6, <3>1, <3>2 DEF Ascends
    <3> QED BY <2>1, <3>1, <3>3
  <2> QED BY <1>16, <2>1, <2>2, <2>3, <2>4
<1>23. NothingHidden'
  <2> SUFFICES ASSUME Len(both) < NodeCap, NEW e \in landed' \ (refused \cup evicted \cup forgotten) PROVE e \in ToSet(both)
    BY <1>14, <1>15, <1>16, <1>6 DEF NothingHidden
  <2>1. ToSet(new) = {new[k] : k \in 1 .. Len(new)} /\ ToSet(B) = {B[k] : k \in 1 .. Len(B)}
    BY <1>1, <1>6 DEF ToSet
  <2>2. Len(lines) # NodeCap
    BY <1>6, <1>16
  <2>3. ASSUME e \in landed PROVE e \in ToSet(both)
    BY <1>17, <2>2, <2>3 DEF LinesIInv, NothingHidden
  <2>4. ASSUME NEW i \in 1 .. Len(B), e = B[i] PROVE e \in ToSet(both)
    <3>1. CASE B[i].seq > known
      <4>1. PICK k \in 1 .. Len(new) : new[k] = B[i]
        BY <1>6, <3>1
      <4> QED BY <1>17, <2>1, <2>4, <4>1
    <3>2. CASE ~(B[i].seq > known)
      <4>1. B[i] = LineOf(id, B[i].seq) /\ B[i].seq \in Nat \ {0}
        BY <1>1, <1>2, LineIs
      <4>2. nodeLog.bootID = id /\ B[i].seq \in 1 .. nodeLog.lastSeq
        BY <1>3, <3>2, <4>1
      <4>3. e \in Got
        BY <2>4, <4>1, <4>2 DEF LinesIInv, LogFits
      <4> QED BY <2>3, <4>3 DEF Got
    <3> QED BY <3>1, <3>2
  <2> QED BY <1>10, <2>1, <2>3, <2>4
<1> QED BY <1>12, <1>15, <1>21, <1>22, <1>23

LEMMA LinesStart == PlInit => LinesIInv
<1> SUFFICES ASSUME PlInit PROVE LinesIInv
  OBVIOUS
<1> USE ProcLogsAssumption
<1>1. ring \in RingOf(RingCap) /\ ring.count = 0
  BY DEF PlInit, Empty, RingOf
<1>2. LinesTypes
  <2>1. nodeLog \in [lines : Seq(Line), bootID : Nat, lastSeq : Nat]
    BY DEF PlInit, NewLog
  <2>2. boot \in Nat \ {0} /\ nextSeq \in Nat /\ procLogCursor \in Nat
    BY DEF PlInit
  <2>3. landed \subseteq Line /\ refused \subseteq Line /\ evicted \subseteq Line /\ crossed \in BOOLEAN
    BY DEF PlInit
  <2> QED BY <1>1, <2>1, <2>2, <2>3 DEF LinesTypes
<1>3. BatchesFit
  BY DEF PlInit, BatchesFit
<1>4. RingFollows
  <2>1. All(ring, RingCap) = [i \in 1 .. ring.count |-> [boot |-> boot, seq |-> nextSeq - ring.count + i]]
    BY <1>1 DEF All
  <2> QED BY <1>1, <2>1 DEF PlInit, RingFollows, RingKeepsLast
<1>5. LogFits /\ ShownOnce
  BY DEF PlInit, LogFits, ShownOnce, NewLog
<1>6. CursorIsBacked /\ NothingHidden
  BY DEF PlInit, CursorIsBacked, NothingHidden
<1> QED BY <1>2, <1>3, <1>4, <1>5, <1>6 DEF LinesIInv

\* What a step leaves of each part that it does not touch.
LEMMA BatchesStay ==
  ASSUME BatchesFit, landed \subseteq landed', refused \subseteq refused', evicted \subseteq evicted',
         sending' = <<>> \/ (sending' = sending /\ boot' = boot),
         \A B \in late' : B \in late \/ (B = sending /\ B # <<>>)
  PROVE  BatchesFit'
<1>1. \A B : Complete(B) => Complete(B)'
  BY Grows
<1>2. sending' # <<>> => Batch(sending') /\ sending'[1].boot = boot' /\ Complete(sending)'
  <2> SUFFICES ASSUME sending' # <<>> PROVE Batch(sending') /\ sending'[1].boot = boot' /\ Complete(sending)'
    OBVIOUS
  <2>1. sending' = sending /\ boot' = boot /\ sending # <<>>
    OBVIOUS
  <2>2. PICK B : B = sending
    OBVIOUS
  <2>3. Batch(B) /\ B[1].boot = boot /\ Complete(B)
    BY <2>1, <2>2 DEF BatchesFit
  <2>4. Complete(B)'
    BY <1>1, <2>3
  <2>5. sending' = B
    BY <2>1, <2>2
  <2>6. Complete(sending)'
    BY <2>4, <2>5 DEF Complete
  <2> QED BY <2>1, <2>3, <2>5, <2>6
<1>3. \A B \in late' : Batch(B) /\ Complete(B)'
  BY <1>1 DEF BatchesFit
<1> QED BY <1>2, <1>3 DEF BatchesFit

LEMMA RingStays ==
  ASSUME RingFollows, UNCHANGED <<ring, boot, nextSeq>>, evicted \subseteq evicted'
  PROVE  RingFollows'
BY DEF RingFollows, RingKeepsLast, All

LEMMA LogStays ==
  ASSUME LogFits, ShownOnce, NothingHidden, UNCHANGED <<nodeLog, landed, crossed, forgotten>>,
         refused \subseteq refused', evicted \subseteq evicted'
  PROVE  LogFits' /\ ShownOnce' /\ NothingHidden'
<1>1. Got \subseteq Got'
  BY DEF Got
<1>2. LogFits'
  BY <1>1 DEF LogFits
<1>3. ShownOnce'
  BY DEF ShownOnce
<1>4. NothingHidden'
  BY DEF NothingHidden
<1> QED BY <1>2, <1>3, <1>4

LEMMA CursorStays ==
  ASSUME CursorIsBacked, UNCHANGED <<boot, procLogCursor>>,
         landed \subseteq landed', refused \subseteq refused', evicted \subseteq evicted'
  PROVE  CursorIsBacked'
BY DEF CursorIsBacked

\* The cursor may move to the end of a batch that landed or was refused.
LEMMA CursorMoves ==
  ASSUME LinesIInv, sending # <<>>, boot' = boot, procLogCursor' = Last(sending).seq,
         landed \subseteq landed', refused \subseteq refused', evicted \subseteq evicted',
         ToSet(sending) \subseteq landed' \cup refused'
  PROVE  CursorIsBacked' /\ procLogCursor' \in Nat
<1>1. PICK B : B = sending
  OBVIOUS
<1>2. Batch(B) /\ B[1].boot = boot /\ Complete(B)
  BY <1>1 DEF LinesIInv, BatchesFit
<1>3. Last(B) = B[Len(B)] /\ B[Len(B)] \in Line
  BY <1>2, BatchIs
<1>4. procLogCursor' = B[Len(B)].seq /\ procLogCursor' \in Nat
  BY <1>1, <1>3, LineIs
<1>5. \A n \in 1 .. procLogCursor' : LineOf(boot', n) \in landed' \cup refused' \cup evicted'
  BY <1>1, <1>2, <1>4 DEF Complete, Got
<1> QED BY <1>4, <1>5 DEF CursorIsBacked, LineOf

LEMMA DeliveredKeeps == ASSUME LinesIInv, Delivered PROVE LinesIInv'
<1>0. sending # <<>> /\ Ingests(sending) /\ sending' = <<>> /\ UNCHANGED <<boot, ring, nextSeq, late, forgets, forgotten, refused, evicted>>
  BY DEF Delivered, shipProcLogs
<1>1. PICK B : B = sending
  OBVIOUS
<1>2. Batch(B) /\ Complete(B) /\ Ingests(B)
  <2>1. Batch(B) /\ Complete(B)
    BY <1>0, <1>1 DEF LinesIInv, BatchesFit
  <2>2. Ingests(B)
    BY <1>0, <1>1
  <2> QED BY <2>1, <2>2
<1>3. /\ nodeLog' \in [lines : Seq(Line), bootID : Nat, lastSeq : Nat] /\ landed' \subseteq Line /\ crossed' \in BOOLEAN
      /\ landed \subseteq landed' /\ ToSet(B) \subseteq landed' /\ LogFits' /\ ShownOnce' /\ NothingHidden'
  BY <1>0, <1>2, TakenIn
<1>4. CursorIsBacked' /\ procLogCursor' \in Nat
  <2>1. CASE procLogCursor' = Last(sending).seq
    BY <1>0, <1>1, <1>3, <2>1, CursorMoves
  <2>2. CASE procLogCursor' = procLogCursor
    BY <1>0, <1>3, <2>2, CursorStays DEF LinesIInv, LinesTypes
  <2> QED BY <2>1, <2>2 DEF Delivered, shipProcLogs
<1>5. LinesTypes'
  BY <1>0, <1>3, <1>4 DEF LinesIInv, LinesTypes
<1>6. BatchesFit' /\ RingFollows'
  BY <1>0, <1>3, BatchesStay, RingStays DEF LinesIInv
<1> QED BY <1>3, <1>4, <1>5, <1>6 DEF LinesIInv

LEMMA LateKeeps == ASSUME LinesIInv, NEW B \in late, ArrivesLate(B) PROVE LinesIInv'
<1>0. late' \subseteq late /\ Ingests(B) /\ UNCHANGED <<boot, ring, nextSeq, procLogCursor, sending, forgotten, refused, evicted>>
  BY DEF ArrivesLate
<1>1. Batch(B) /\ Complete(B)
  BY DEF LinesIInv, BatchesFit
<1>2. /\ nodeLog' \in [lines : Seq(Line), bootID : Nat, lastSeq : Nat] /\ landed' \subseteq Line /\ crossed' \in BOOLEAN
      /\ landed \subseteq landed' /\ LogFits' /\ ShownOnce' /\ NothingHidden'
  BY <1>0, <1>1, TakenIn
<1>3. LinesTypes'
  BY <1>0, <1>2 DEF LinesIInv, LinesTypes
<1>4. BatchesFit' /\ RingFollows' /\ CursorIsBacked'
  BY <1>0, <1>2, BatchesStay, RingStays, CursorStays DEF LinesIInv
<1> QED BY <1>2, <1>3, <1>4 DEF LinesIInv

LEMMA RefusedKeeps == ASSUME LinesIInv, Refused PROVE LinesIInv'
<1>0. /\ sending # <<>> /\ procLogCursor' = Last(sending).seq /\ sending' = <<>> /\ refused' = refused \cup ToSet(sending)
      /\ UNCHANGED <<boot, ring, nextSeq, late, nodeLog, forgotten, landed, evicted, crossed>>
  BY DEF Refused, shipProcLogs
<1>1. ToSet(sending) \subseteq Line
  BY <1>0, BatchIs DEF LinesIInv, BatchesFit
<1>2. CursorIsBacked' /\ procLogCursor' \in Nat
  BY <1>0, CursorMoves
<1>3. LinesTypes'
  BY <1>0, <1>1, <1>2 DEF LinesIInv, LinesTypes
<1>4. BatchesFit' /\ RingFollows'
  BY <1>0, BatchesStay, RingStays DEF LinesIInv
<1>5. LogFits' /\ ShownOnce' /\ NothingHidden'
  BY <1>0, LogStays DEF LinesIInv
<1> QED BY <1>2, <1>3, <1>4, <1>5 DEF LinesIInv

LEMMA GivesUpKeeps == ASSUME LinesIInv, GivesUp PROVE LinesIInv'
<1>0. /\ procLogCursor' = procLogCursor /\ sending' = <<>> /\ \A B \in late' : B \in late \/ (B = sending /\ B # <<>>)
      /\ UNCHANGED <<boot, ring, nextSeq, nodeLog, forgotten, landed, refused, evicted, crossed>>
  BY DEF GivesUp, shipProcLogs, LetGo
<1>1. LinesTypes'
  BY <1>0 DEF LinesIInv, LinesTypes
<1>2. BatchesFit' /\ RingFollows' /\ CursorIsBacked'
  BY <1>0, BatchesStay, RingStays, CursorStays DEF LinesIInv
<1>3. LogFits' /\ ShownOnce' /\ NothingHidden'
  BY <1>0, LogStays DEF LinesIInv
<1> QED BY <1>1, <1>2, <1>3 DEF LinesIInv

LEMMA RebootsKeep == ASSUME LinesIInv, Reboots PROVE LinesIInv'
<1> USE ProcLogsAssumption
<1>0. /\ boot' = boot + 1 /\ ring' = Empty(RingCap) /\ nextSeq' = 0 /\ procLogCursor' = 0 /\ sending' = <<>>
      /\ \A B \in late' : B \in late \/ (B = sending /\ B # <<>>)
      /\ UNCHANGED <<nodeLog, forgotten, landed, refused, evicted, crossed>>
  BY DEF Reboots, LetGo
<1>1. ring' \in RingOf(RingCap) /\ ring'.count = 0
  BY <1>0 DEF Empty, RingOf
<1>2. LinesTypes'
  BY <1>0, <1>1 DEF LinesIInv, LinesTypes
<1>3. BatchesFit'
  BY <1>0, BatchesStay DEF LinesIInv
<1>4. RingFollows'
  <2>1. (All(ring, RingCap) = [i \in 1 .. ring.count |-> [boot |-> boot, seq |-> nextSeq - ring.count + i]])'
    BY <1>1 DEF All
  <2> QED BY <1>0, <1>1, <2>1 DEF RingFollows, RingKeepsLast
<1>5. CursorIsBacked'
  BY <1>0 DEF CursorIsBacked
<1>6. LogFits' /\ ShownOnce' /\ NothingHidden'
  BY <1>0, LogStays DEF LinesIInv
<1> QED BY <1>2, <1>3, <1>4, <1>5, <1>6 DEF LinesIInv

LEMMA ForgetKeeps == ASSUME LinesIInv, forget PROVE LinesIInv'
<1>0. /\ nodeLog' = NewLog /\ forgotten' = landed
      /\ UNCHANGED <<boot, ring, nextSeq, procLogCursor, sending, late, landed, refused, evicted, crossed>>
  BY DEF forget
<1>1. nodeLog' \in [lines : Seq(Line), bootID : Nat, lastSeq : Nat]
  BY <1>0 DEF NewLog
<1>2. LinesTypes'
  BY <1>0, <1>1 DEF LinesIInv, LinesTypes
<1>3. BatchesFit' /\ RingFollows' /\ CursorIsBacked'
  BY <1>0, BatchesStay, RingStays, CursorStays DEF LinesIInv
<1>4. LogFits' /\ ShownOnce' /\ NothingHidden'
  BY <1>0 DEF LogFits, ShownOnce, NothingHidden, NewLog
<1> QED BY <1>2, <1>3, <1>4 DEF LinesIInv

\* The lines of the ring as RingKeepsLast says.
LEMMA RingIs ==
  ASSUME LinesIInv
  PROVE  /\ nextSeq \in Nat /\ boot \in Nat \ {0} /\ ring \in RingOf(RingCap) /\ ring.count \in 0 .. RingCap
         /\ ring.count <= nextSeq /\ (ring.count < RingCap => ring.count = nextSeq)
         /\ \A i \in 1 .. ring.count : /\ All(ring, RingCap)[i] = LineOf(boot, nextSeq - ring.count + i)
                                       /\ nextSeq - ring.count + i \in Nat \ {0} /\ LineOf(boot, nextSeq - ring.count + i) \in Line
         /\ DOMAIN All(ring, RingCap) = 1 .. ring.count /\ All(ring, RingCap) \in Seq(Line) /\ Len(All(ring, RingCap)) = ring.count
<1> USE ProcLogsAssumption
<1>1. nextSeq \in Nat /\ boot \in Nat \ {0} /\ ring \in RingOf(RingCap) /\ ring.count \in 0 .. RingCap
  BY DEF LinesIInv, LinesTypes, RingOf
<1>2. PICK ct \in 0 .. RingCap : ct = ring.count
  BY <1>1
<1>3. ct <= nextSeq /\ (ct < RingCap => ct = nextSeq)
  BY <1>1, <1>2 DEF LinesIInv, RingFollows, RingKeepsLast
<1>4. \A i \in 1 .. ct : nextSeq - ct + i \in Nat \ {0} /\ LineOf(boot, nextSeq - ct + i) \in Line
  <2>1. \A i \in 1 .. ct : nextSeq - ct + i \in Nat \ {0}
    BY <1>1, <1>3
  <2> QED BY <1>1, <2>1 DEF LineOf, Line
<1>5. All(ring, RingCap) = [i \in 1 .. ct |-> LineOf(boot, nextSeq - ct + i)]
  BY <1>2 DEF LinesIInv, RingFollows, RingKeepsLast, LineOf
<1>6. All(ring, RingCap) \in [1 .. ct -> Line]
  BY <1>4, <1>5
<1>7. All(ring, RingCap) \in Seq(Line) /\ Len(All(ring, RingCap)) = ct
  BY <1>6
<1> QED BY <1>1, <1>2, <1>3, <1>4, <1>5, <1>6, <1>7

LEMMA HandleKeeps == ASSUME LinesIInv, Handle PROVE LinesIInv'
<1> USE ProcLogsAssumption
<1>0. /\ nextSeq' = nextSeq + 1 /\ ring' = put(ring, RingCap, LineOf(boot, nextSeq + 1))
      /\ evicted' = evicted \cup {e \in ToSet(All(ring, RingCap)) : e \notin ToSet(All(ring', RingCap))}
      /\ UNCHANGED <<boot, procLogCursor, sending, late, nodeLog, forgotten, landed, refused, crossed>>
  BY DEF Handle, LineOf
<1>1. PICK all : all = All(ring, RingCap)
  OBVIOUS
<1>2. PICK all2 : all2 = All(ring', RingCap)
  OBVIOUS
<1>3. PICK ct \in 0 .. RingCap : ct = ring.count
  BY RingIs
<1>4. PICK ct2 : ct2 = ring'.count
  OBVIOUS
<1>5. /\ nextSeq \in Nat /\ boot \in Nat \ {0} /\ ring \in RingOf(RingCap)
      /\ ct <= nextSeq /\ (ct < RingCap => ct = nextSeq)
      /\ \A i \in 1 .. ct : all[i] = LineOf(boot, nextSeq - ct + i) /\ LineOf(boot, nextSeq - ct + i) \in Line
      /\ DOMAIN all = 1 .. ct
  BY RingIs, <1>1, <1>3
<1>6. LineOf(boot, nextSeq + 1) \in Line
  BY <1>5 DEF LineOf, Line
<1>7. /\ ring' \in RingOf(RingCap) /\ ct2 = IF ct < RingCap THEN ct + 1 ELSE RingCap
      /\ ct < RingCap => \A i \in 1 .. ct : all2[i] = all[i]
      /\ ct = RingCap => \A i \in 1 .. RingCap - 1 : all2[i] = all[i + 1]
      /\ all2[ct2] = LineOf(boot, nextSeq + 1)
  <2>1. PICK e \in Line : e = LineOf(boot, nextSeq + 1)
    BY <1>6
  <2>2. PICK r : r = put(ring, RingCap, e)
    OBVIOUS
  <2>3. ring' = r
    BY <1>0, <2>1, <2>2
  <2>4. /\ r \in RingOf(RingCap)
        /\ r.count = IF ct < RingCap THEN ct + 1 ELSE RingCap
        /\ ct < RingCap => \A i \in 1 .. ct : All(r, RingCap)[i] = all[i]
        /\ ct = RingCap => \A i \in 1 .. RingCap - 1 : All(r, RingCap)[i] = all[i + 1]
        /\ All(r, RingCap)[r.count] = e
    <3>1. RingCap \in Nat \ {0} /\ ring \in RingOf(RingCap)
      BY <1>5
    <3> HIDE ProcLogsAssumption
    <3>2. /\ put(ring, RingCap, e) \in RingOf(RingCap)
          /\ put(ring, RingCap, e).count = IF ring.count < RingCap THEN ring.count + 1 ELSE RingCap
          /\ ring.count < RingCap => \A i \in 1 .. ring.count : All(put(ring, RingCap, e), RingCap)[i] = All(ring, RingCap)[i]
          /\ ring.count = RingCap => \A i \in 1 .. RingCap - 1 : All(put(ring, RingCap, e), RingCap)[i] = All(ring, RingCap)[i + 1]
          /\ All(put(ring, RingCap, e), RingCap)[put(ring, RingCap, e).count] = e
      BY <3>1, PutKeeps
    <3> QED BY <1>1, <1>3, <2>2, <3>2
  <2> QED BY <1>2, <1>4, <2>1, <2>3, <2>4
<1>8. \A i \in 1 .. ct2 : all2[i] = LineOf(boot, nextSeq + 1 - ct2 + i)
  <2> TAKE i \in 1 .. ct2
  <2>1. CASE ct < RingCap
    <3>1. ct2 = ct + 1
      BY <1>7, <2>1
    <3>2. CASE i = ct + 1
      <4>1. nextSeq + 1 - ct2 + i = nextSeq + 1
        BY <1>5, <3>1, <3>2
      <4> QED BY <1>7, <3>1, <3>2, <4>1
    <3>3. CASE i \in 1 .. ct
      <4>1. nextSeq + 1 - ct2 + i = nextSeq - ct + i
        BY <1>5, <3>1
      <4> QED BY <1>5, <1>7, <2>1, <3>3, <4>1
    <3> QED BY <3>1, <3>2, <3>3
  <2>2. CASE ct = RingCap
    <3>1. ct2 = RingCap
      BY <1>7, <2>2
    <3>2. CASE i = RingCap
      <4>1. nextSeq + 1 - ct2 + i = nextSeq + 1
        BY <1>5, <3>1, <3>2
      <4> QED BY <1>7, <3>1, <3>2, <4>1
    <3>3. CASE i \in 1 .. RingCap - 1
      <4>1. nextSeq + 1 - ct2 + i = nextSeq - ct + (i + 1) /\ i + 1 \in 1 .. ct
        BY <1>5, <2>2, <3>1, <3>3
      <4>2. all[i + 1] = LineOf(boot, nextSeq - ct + (i + 1))
        BY <1>5, <4>1
      <4> QED BY <1>7, <2>2, <3>3, <4>1, <4>2
    <3> QED BY <3>1, <3>2, <3>3
  <2> QED BY <2>1, <2>2
<1>9. ct2 \in 0 .. RingCap /\ ct2 = IF nextSeq + 1 < RingCap THEN nextSeq + 1 ELSE RingCap
  BY <1>5, <1>7 DEF LinesIInv, RingFollows, RingKeepsLast
<1>10. DOMAIN all2 = 1 .. ct2
  BY <1>2, <1>4 DEF All
<1>11. RingKeepsLast'
  <2>1. all2 = [i \in 1 .. ct2 |-> all2[i]]
    BY <1>2, <1>4 DEF All
  <2>2. PICK s2 : s2 = nextSeq' /\ s2 = nextSeq + 1
    BY <1>0
  <2>3. all2 = [i \in 1 .. ct2 |-> [boot |-> boot, seq |-> s2 - ct2 + i]]
    <3>1. \A i \in 1 .. ct2 : all2[i] = [boot |-> boot, seq |-> s2 - ct2 + i]
      BY <1>5, <1>8, <1>9, <2>2 DEF LineOf
    <3> QED BY <2>1, <3>1
  <2>4. All(ring', RingCap) = [i \in 1 .. ring'.count |-> [boot |-> boot', seq |-> nextSeq' - ring'.count + i]]
    BY <1>0, <1>2, <1>4, <2>2, <2>3
  <2>5. ring'.count = IF nextSeq' < RingCap THEN nextSeq' ELSE RingCap
    BY <1>0, <1>4, <1>9
  <2> QED BY <2>4, <2>5 DEF RingKeepsLast
<1>12. evicted' \subseteq Line /\ evicted \subseteq evicted'
  <2>1. ToSet(all) \subseteq Line
    BY <1>5 DEF ToSet
  <2> QED BY <1>0, <1>1, <2>1 DEF LinesIInv, LinesTypes
<1>13. ASSUME NEW n \in 1 .. nextSeq + 1 - ct2 PROVE LineOf(boot, n) \in evicted'
  <2>1. ct = RingCap /\ ct2 = RingCap
    BY <1>5, <1>7, <1>9
  <2>2. CASE n \in 1 .. nextSeq - ct
    BY <1>3, <1>12, <2>2 DEF LinesIInv, RingFollows
  <2>3. CASE n = nextSeq - ct + 1
    <3>1. 1 \in 1 .. ct /\ all[1] = LineOf(boot, n)
      BY <1>5, <2>1, <2>3
    <3>2. LineOf(boot, n) \in ToSet(all)
      BY <1>5, <3>1 DEF ToSet
    <3>3. \A i \in 1 .. ct2 : all2[i] # LineOf(boot, n)
      <4> TAKE i \in 1 .. ct2
      <4>1. nextSeq + 1 - ct2 + i # n
        BY <1>5, <2>1, <2>3
      <4>2. \A m : LineOf(boot, m).seq = m
        BY DEF LineOf
      <4>3. all2[i] = LineOf(boot, nextSeq + 1 - ct2 + i)
        BY <1>8
      <4> QED BY <4>1, <4>2, <4>3
    <3>4. LineOf(boot, n) \notin ToSet(all2)
      BY <1>10, <3>3 DEF ToSet
    <3> QED BY <1>0, <1>1, <1>2, <3>2, <3>4
  <2> QED BY <1>5, <2>1, <2>2, <2>3
<1>14. RingFollows'
  <2>1. \A n \in 1 .. nextSeq' - ring'.count : LineOf(boot', n) \in evicted'
    <3>1. \A n \in 1 .. nextSeq + 1 - ct2 : LineOf(boot, n) \in evicted'
      BY <1>13
    <3>2. PICK m : m = nextSeq + 1
      OBVIOUS
    <3>3. nextSeq' = m /\ boot' = boot
      BY <1>0, <3>2
    <3>4. \A n \in 1 .. m - ct2 : LineOf(boot, n) \in evicted'
      <4> TAKE n \in 1 .. m - ct2
      <4>1. n \in 1 .. nextSeq + 1 - ct2
        BY <1>5, <1>9, <3>2
      <4> QED BY <3>1, <4>1
    <3>5. m - ct2 = nextSeq' - ring'.count
      BY <1>4, <3>3
    <3> QED BY <3>3, <3>4, <3>5
  <2> QED BY <1>11, <2>1 DEF RingFollows
<1>15. LinesTypes'
  BY <1>0, <1>5, <1>7, <1>12 DEF LinesIInv, LinesTypes
<1>16. BatchesFit' /\ CursorIsBacked'
  BY <1>0, <1>12, BatchesStay, CursorStays DEF LinesIInv
<1>17. LogFits' /\ ShownOnce' /\ NothingHidden'
  BY <1>0, <1>12, LogStays DEF LinesIInv
<1> QED BY <1>14, <1>15, <1>16, <1>17 DEF LinesIInv

LEMMA SendsKeeps == ASSUME LinesIInv, Sends PROVE LinesIInv'
<1> USE ProcLogsAssumption
<1>0. /\ sending = <<>>
      /\ \E k \in 1 .. Len(Since(ring, RingCap, procLogCursor, ProcLogBatch)) :
           sending' = SubSeq(Since(ring, RingCap, procLogCursor, ProcLogBatch), 1, k)
      /\ UNCHANGED <<boot, ring, nextSeq, procLogCursor, late, nodeLog, forgotten, landed, refused, evicted, crossed>>
  BY DEF Sends
<1>1. PICK all : all = All(ring, RingCap)
  OBVIOUS
<1>2. PICK ct \in Nat : ct = ring.count
  BY RingIs
<1>3. /\ nextSeq \in Nat /\ boot \in Nat \ {0} /\ all \in Seq(Line) /\ Len(all) = ct /\ ct <= nextSeq
      /\ \A i \in 1 .. ct : all[i] = LineOf(boot, nextSeq - ct + i) /\ nextSeq - ct + i \in Nat \ {0}
      /\ DOMAIN all = 1 .. ct
  BY RingIs, <1>1, <1>2
<1>4. \A b, n : LineOf(b, n).seq = n /\ LineOf(b, n).boot = b
  BY DEF LineOf
<1>5. Ascends(all)
  <2> SUFFICES ASSUME NEW i \in 1 .. ct, NEW j \in 1 .. ct, i < j PROVE all[i].seq < all[j].seq
    BY <1>3 DEF Ascends
  <2>1. nextSeq - ct + i < nextSeq - ct + j
    BY <1>3
  <2> QED BY <1>3, <1>4, <2>1
<1>6. procLogCursor \in Nat
  BY DEF LinesIInv, LinesTypes
<1>7. PICK I \in SUBSET (1 .. ct) : I = {i \in 1 .. ct : all[i].seq > procLogCursor}
                                    /\ \A i \in 1 .. ct : i \in I <=> all[i].seq > procLogCursor
  <2> DEFINE J == {i \in 1 .. ct : all[i].seq > procLogCursor}
  <2>1. J \in SUBSET (1 .. ct) /\ \A i \in 1 .. ct : i \in J <=> all[i].seq > procLogCursor
    OBVIOUS
  <2> QED BY <2>1
<1>8. PICK above : above = Chosen(all, I)
  OBVIOUS
<1>9. /\ above \in Seq(Line) /\ Ascends(above)
      /\ \A k \in 1 .. Len(above) : above[k].seq > procLogCursor /\ above[k] \in ToSet(all)
      /\ \A i \in 1 .. Len(all) : all[i].seq > procLogCursor => all[i] \in ToSet(above)
  <2>1. I \in SUBSET (1 .. Len(all)) /\ \A i \in 1 .. Len(all) : i \in I <=> all[i].seq > procLogCursor
    BY <1>3, <1>7
  <2> QED BY <1>3, <1>5, <1>6, <1>8, <2>1, LinesAbove
<1>10. Len(above) \in Nat /\ DOMAIN above = 1 .. Len(above)
  BY <1>9
<1>11. PICK m \in Nat : m = (IF Len(above) < ProcLogBatch THEN Len(above) ELSE ProcLogBatch) /\ m <= Len(above)
  <2>1. PICK l \in Nat : l = Len(above)
    BY <1>10
  <2>2. \E m \in Nat : m = (IF l < ProcLogBatch THEN l ELSE ProcLogBatch) /\ m <= l
    BY DEF ProcLogsAssumption
  <2> QED BY <2>1, <2>2
<1>12. PICK entries : entries = SubSeq(above, 1, m)
  OBVIOUS
<1>13. Since(ring, RingCap, procLogCursor, ProcLogBatch) = entries
  BY <1>1, <1>2, <1>7, <1>8, <1>11, <1>12 DEF Since
<1>14. PICK k \in 1 .. Len(entries) : sending' = SubSeq(entries, 1, k)
  BY <1>0, <1>13
<1>15. Len(entries) = m /\ entries \in Seq(Line) /\ \A i \in 1 .. m : entries[i] = above[i]
  <2>1. PICK l \in Nat : l = Len(above)
    BY <1>10
  <2>2. m \in 0 .. l
    BY <1>11, <2>1
  <2>3. SubSeq(above, 1, m) \in Seq(Line) /\ Len(SubSeq(above, 1, m)) = m /\ \A i \in 1 .. m : SubSeq(above, 1, m)[i] = above[i]
    BY <1>9, <2>1, <2>2
  <2> QED BY <1>12, <2>3
<1>16. k \in 1 .. m /\ k \in 1 .. Len(above) /\ 1 .. k \subseteq 1 .. m
  <2>1. PICK l \in Nat : l = Len(above)
    BY <1>10
  <2>2. k \in 1 .. m /\ m <= l
    BY <1>11, <1>14, <1>15, <2>1
  <2>3. k \in 1 .. l /\ 1 .. k \subseteq 1 .. m
    BY <2>2
  <2> QED BY <2>1, <2>2, <2>3
<1>17. PICK B : B = SubSeq(entries, 1, k)
  OBVIOUS
<1>18. B \in Seq(Line) /\ Len(B) = k /\ B # <<>> /\ DOMAIN B = 1 .. k /\ \A i \in 1 .. k : B[i] = above[i]
  <2>1. B \in Seq(Line) /\ Len(B) = k /\ B # <<>> /\ \A i \in 1 .. k : B[i] = entries[i]
    BY <1>14, <1>15, <1>17, Beginning
  <2>2. DOMAIN B = 1 .. k
    BY <2>1
  <2> QED BY <1>15, <1>16, <2>1, <2>2
<1>19. \A i \in 1 .. k : i \in DOMAIN above /\ i \in 1 .. Len(above)
  BY <1>10, <1>16
<1>20. \A i \in 1 .. k : B[i].boot = boot /\ B[i].seq \in Nat /\ B[i].seq <= nextSeq
  <2> TAKE i \in 1 .. k
  <2>1. B[i] \in ToSet(all)
    BY <1>9, <1>18, <1>19
  <2>2. PICK j \in 1 .. ct : B[i] = all[j]
    BY <1>3, <2>1 DEF ToSet
  <2>3. nextSeq - ct + j <= nextSeq
    BY <1>3
  <2> QED BY <1>3, <1>4, <2>2, <2>3
<1>21. Batch(B) /\ B[1].boot = boot
  <2>1. 1 \in 1 .. k
    BY <1>16
  <2>2. Ascends(B)
    BY <1>9, <1>18, <1>19 DEF Ascends
  <2> QED BY <1>18, <1>20, <2>1, <2>2 DEF Batch
<1>22. Complete(B)
  <2> SUFFICES ASSUME NEW n \in 1 .. B[k].seq PROVE LineOf(boot, n) \in ToSet(B) \cup Got
    BY <1>18, <1>21 DEF Complete
  <2>0. k \in 1 .. k /\ B[k].seq \in Nat /\ B[k].seq <= nextSeq /\ B[k] = above[k] /\ n \in Nat /\ n <= B[k].seq
    BY <1>16, <1>18, <1>20
  <2>1. CASE n <= procLogCursor
    <3>1. n \in 1 .. procLogCursor
      BY <1>6, <2>0, <2>1
    <3> QED BY <3>1 DEF LinesIInv, CursorIsBacked, Got, LineOf
  <2>2. CASE n <= nextSeq - ct
    <3>1. n \in 1 .. nextSeq - ring.count
      BY <1>2, <1>3, <2>0, <2>2
    <3> QED BY <3>1 DEF LinesIInv, RingFollows, Got
  <2>3. CASE ~(n <= procLogCursor) /\ ~(n <= nextSeq - ct)
    <3>1. PICK i \in 1 .. ct : nextSeq - ct + i = n
      <4>1. n - (nextSeq - ct) \in 1 .. ct /\ nextSeq - ct + (n - (nextSeq - ct)) = n
        BY <1>3, <2>0, <2>3
      <4> QED BY <4>1
    <3>2. all[i] = LineOf(boot, n) /\ all[i].seq > procLogCursor
      <4>1. all[i] = LineOf(boot, nextSeq - ct + i)
        BY <1>3
      <4>2. all[i] = LineOf(boot, n)
        BY <3>1, <4>1
      <4>3. all[i].seq = n
        BY <1>4, <4>2
      <4> QED BY <1>6, <2>0, <2>3, <4>2, <4>3
    <3>3. LineOf(boot, n) \in ToSet(above)
      BY <1>3, <1>9, <3>2
    <3>4. PICK j \in 1 .. Len(above) : above[j] = LineOf(boot, n)
      BY <1>10, <3>3 DEF ToSet
    <3>5. j <= k
      <4> SUFFICES ASSUME k < j PROVE FALSE
        BY <1>10, <1>16
      <4>1. above[k].seq < above[j].seq
        BY <1>9, <1>10, <1>16 DEF Ascends
      <4>2. above[j].seq = n
        BY <1>4, <3>4
      <4> QED BY <2>0, <4>1, <4>2
    <3>6. j \in 1 .. k /\ B[j] = LineOf(boot, n)
      BY <1>10, <1>18, <3>4, <3>5
    <3> QED BY <1>18, <3>6 DEF ToSet
  <2> QED BY <2>1, <2>2, <2>3
<1>23. sending' = B
  BY <1>14, <1>17
<1>24. BatchesFit'
  <2>1. \A C : Complete(C) => Complete(C)'
    BY <1>0, Grows
  <2>2. Complete(B)'
    BY <1>22, <2>1
  <2>3. Batch(sending') /\ sending'[1].boot = boot' /\ Complete(sending)'
    BY <1>0, <1>21, <1>23, <2>2 DEF Complete
  <2>4. \A C \in late' : Batch(C) /\ Complete(C)'
    BY <1>0, <2>1 DEF LinesIInv, BatchesFit
  <2> QED BY <2>3, <2>4 DEF BatchesFit
<1>25. LinesTypes'
  BY <1>0 DEF LinesIInv, LinesTypes
<1>26. RingFollows' /\ CursorIsBacked'
  BY <1>0, RingStays, CursorStays DEF LinesIInv
<1>27. LogFits' /\ ShownOnce' /\ NothingHidden'
  BY <1>0, LogStays DEF LinesIInv
<1> QED BY <1>24, <1>25, <1>26, <1>27 DEF LinesIInv

LEMMA LinesNext == LinesIInv /\ [PlNext]_plVars => LinesIInv'
<1> SUFFICES ASSUME LinesIInv, [PlNext]_plVars PROVE LinesIInv'
  OBVIOUS
<1>1. CASE PlNext
  BY <1>1, HandleKeeps, SendsKeeps, DeliveredKeeps, RefusedKeeps, GivesUpKeeps, RebootsKeep, ForgetKeeps, LateKeeps DEF PlNext
<1>2. CASE UNCHANGED plVars
  <2>1. LinesTypes'
    BY <1>2 DEF LinesIInv, LinesTypes, plVars
  <2>2. BatchesFit' /\ RingFollows' /\ CursorIsBacked'
    BY <1>2, BatchesStay, RingStays, CursorStays DEF LinesIInv, plVars
  <2>3. LogFits' /\ ShownOnce' /\ NothingHidden'
    BY <1>2, LogStays DEF LinesIInv, plVars
  <2> QED BY <2>1, <2>2, <2>3 DEF LinesIInv
<1> QED BY <1>1, <1>2

\* The process log: rings of any size keep the last lines wherever they wrap, and
\* batches that are lost, sent again or late neither repeat nor hide a line, for
\* any number of boots, batches under way and restarts of the control plane.
THEOREM LinesHold == PlSpec => []ProcLogsInv
<1>1. LinesIInv => ProcLogsInv
  BY DEF LinesIInv, RingFollows, ProcLogsInv
<1> QED BY <1>1, LinesStart, LinesNext, PTL DEF PlSpec

-----------------------------------------------------------------------------
(* Live queries.                                                           *)

Queried == [node : Resolvers, kind : Kinds, content : Contents \cup {Unlabelled}]
FilterTypes == [kinds : SUBSET Kinds, content : Contents \cup {Unlabelled}]
Sub == [nodes : SUBSET Nodes, f : FilterTypes, ch : Seq(Queried),
        on : BOOLEAN, allowed : BOOLEAN]

FilterSets == SUBSET Filters

LiveTypes ==
  /\ subs \in [Viewers -> Sub] /\ polls \in [Resolvers -> {"none", "look", "wait", "woken"}]
  /\ have \in [Resolvers -> FilterSets \cup {NoVersion}] /\ tap \in [Resolvers -> FilterSets]
  /\ buffer \in [Resolvers -> Seq(Queried)] /\ batch \in [Resolvers -> Seq(Queried)]
  /\ anonymous \in BOOLEAN /\ shown \in [Viewers -> SUBSET Queried]
  /\ \A v \in Viewers : subs[v].on => subs[v].f \in Filters

LiveIInv == LiveTypes /\ LiveInv

\* What the viewers select, as long as none comes or goes.
LEMMA SameState ==
  ASSUME LiveTypes, \A v \in Viewers : subs'[v].on = subs[v].on /\ subs'[v].nodes = subs[v].nodes /\ subs'[v].f = subs[v].f
  PROVE  /\ \A r \in Resolvers : state(r)' = state(r)
         /\ \A v \in Viewers : \A r : watches(v, r)' = watches(v, r)
<1>1. \A v \in Viewers : \A r : watches(v, r)' = watches(v, r)
  BY DEF watches
<1>2. \A r \in Resolvers : state(r)' = state(r)
  <2> TAKE r \in Resolvers
  <2>1. {w \in Viewers : watches(w, r)}' = {w \in Viewers : watches(w, r)}
    BY <1>1
  <2> QED BY <2>1 DEF state
<1> QED BY <1>1, <1>2

LEMMA StateIsFilters == ASSUME LiveTypes, NEW r \in Resolvers PROVE state(r) \in FilterSets /\ state(r) # NoVersion
<1>1. state(r) \in SUBSET Filters
  BY DEF state, watches, LiveTypes
<1> QED BY <1>1, LiveAssumption DEF FilterSets

LEMMA LiveStart == LvInit => LiveIInv
<1> SUFFICES ASSUME LvInit PROVE LiveIInv
  OBVIOUS
<1>1. NoSub \in Sub /\ NoSub.on = FALSE /\ NoSub.ch = <<>>
  BY DEF NoSub, Sub, FilterTypes
<1>2. \A v \in Viewers : subs[v] = NoSub /\ shown[v] = {}
  BY DEF LvInit
<1>3. LiveTypes
  <2>1. subs \in [Viewers -> Sub] /\ polls \in [Resolvers -> {"none", "look", "wait", "woken"}]
    BY <1>1 DEF LvInit
  <2>2. have \in [Resolvers -> FilterSets \cup {NoVersion}] /\ tap \in [Resolvers -> FilterSets]
    <3>1. {} \in FilterSets
      BY DEF FilterSets
    <3> QED BY <3>1 DEF LvInit
  <2>3. buffer \in [Resolvers -> Seq(Queried)] /\ batch \in [Resolvers -> Seq(Queried)]
    BY DEF LvInit
  <2>4. anonymous \in BOOLEAN /\ shown \in [Viewers -> SUBSET Queried]
    BY DEF LvInit
  <2> QED BY <1>1, <1>2, <2>1, <2>2, <2>3, <2>4 DEF LiveTypes
<1>4. NoMissedChange /\ TapsWhatItHas
  BY DEF NoMissedChange, TapsWhatItHas, LvInit
<1>5. OnlyWhatIsWatched
  <2>1. \A v \in Viewers : ToSet(subs[v].ch) \cup shown[v] = {}
    BY <1>1, <1>2 DEF ToSet
  <2> QED BY <2>1 DEF OnlyWhatIsWatched
<1> QED BY <1>3, <1>4, <1>5 DEF LiveIInv, LiveInv

\* What a step leaves, that changes no viewer's filter and shows or queues
\* nothing new.
LEMMA ViewersKeep ==
  ASSUME LiveTypes, OnlyWhatIsWatched,
         \A v \in Viewers : subs'[v].on = subs[v].on /\ subs'[v].nodes = subs[v].nodes /\ subs'[v].f = subs[v].f,
         \A v \in Viewers : ToSet(subs'[v].ch) \cup shown'[v] \subseteq ToSet(subs[v].ch) \cup shown[v]
  PROVE  OnlyWhatIsWatched'
<1>1. \A v \in Viewers : \A r : watches(v, r)' = watches(v, r)
  BY SameState
<1> QED BY <1>1 DEF OnlyWhatIsWatched

\* A viewer comes or goes: who waits is woken.
LEMMA ViewerComesOrGoes ==
  ASSUME LiveIInv, NEW v \in Viewers, NEW s \in Sub, s.ch = <<>>, s.on => s.f \in Filters,
         subs' = [subs EXCEPT ![v] = s], polls' = notify(polls), shown' = [shown EXCEPT ![v] = {}],
         UNCHANGED <<have, tap, buffer, batch, anonymous>>
  PROVE  LiveIInv'
<1>0. LiveTypes /\ NoMissedChange /\ OnlyWhatIsWatched /\ TapsWhatItHas
  BY DEF LiveIInv, LiveInv
<1>1. \A w \in Viewers : subs'[w] = (IF w = v THEN s ELSE subs[w]) /\ shown'[w] = (IF w = v THEN {} ELSE shown[w])
  BY <1>0 DEF LiveTypes
<1>2. \A r \in Resolvers : polls'[r] = (IF polls[r] = "wait" THEN "woken" ELSE polls[r])
  BY DEF notify
<1>3. LiveTypes'
  <2>1. subs' \in [Viewers -> Sub] /\ shown' \in [Viewers -> SUBSET Queried]
    BY <1>0 DEF LiveTypes
  <2>2. polls' \in [Resolvers -> {"none", "look", "wait", "woken"}]
    BY <1>0 DEF LiveTypes, notify
  <2>3. \A w \in Viewers : subs'[w].on => subs'[w].f \in Filters
    BY <1>0, <1>1 DEF LiveTypes
  <2> QED BY <1>0, <2>1, <2>2, <2>3 DEF LiveTypes
<1>4. NoMissedChange'
  BY <1>2 DEF NoMissedChange
<1>5. TapsWhatItHas'
  BY <1>0 DEF TapsWhatItHas
<1>6. OnlyWhatIsWatched'
  <2>1. ToSet(<<>>) = {}
    BY DEF ToSet
  <2>2. \A w \in Viewers : w # v => \A r : watches(w, r)' = watches(w, r)
    BY <1>1 DEF watches
  <2> QED BY <1>0, <1>1, <2>1, <2>2 DEF OnlyWhatIsWatched
<1> QED BY <1>3, <1>4, <1>5, <1>6 DEF LiveIInv, LiveInv

\* A step of a resolver that the viewers see nothing of.
LEMMA ResolverKeeps ==
  ASSUME LiveIInv, LiveTypes', UNCHANGED <<subs, shown>>,
         \A r \in Resolvers : polls'[r] = "wait" => have'[r] = state(r),
         \A r \in Resolvers : tap'[r] = IF have'[r] = NoVersion THEN {} ELSE have'[r]
  PROVE  LiveIInv'
<1>0. LiveTypes /\ OnlyWhatIsWatched
  BY DEF LiveIInv, LiveInv
<1>1. OnlyWhatIsWatched'
  BY <1>0, ViewersKeep
<1>2. \A r \in Resolvers : state(r)' = state(r)
  BY <1>0, SameState
<1>3. NoMissedChange' /\ TapsWhatItHas'
  BY <1>2 DEF NoMissedChange, TapsWhatItHas
<1> QED BY <1>1, <1>3 DEF LiveIInv, LiveInv

LEMMA CommonSteps ==
  ASSUME LiveIInv
  PROVE  /\ \A v \in Viewers : add(v) \/ remove(v) \/ stillAuthenticated(v) => LiveIInv'
         /\ \A v \in Viewers : streamQueryLog(v) \/ Revoked(v) => LiveIInv'
         /\ \A r \in Resolvers : fetchLive(r) \/ clusterLiveState(r) \/ Unchanged(r) \/ runLive(r) => LiveIInv'
         /\ \A r \in Resolvers : Write(r) \/ pushLive(r) \/ PushFails(r) => LiveIInv'
         /\ Anonymizes => LiveIInv'
<1>0. LiveTypes /\ NoMissedChange /\ OnlyWhatIsWatched /\ TapsWhatItHas
  BY DEF LiveIInv, LiveInv
<1>1. NoSub \in Sub /\ NoSub.on = FALSE /\ NoSub.ch = <<>>
  BY DEF NoSub, Sub, FilterTypes
<1>2. ASSUME NEW v \in Viewers, add(v) PROVE LiveIInv'
  <2>1. PICK nodes \in SUBSET Nodes : \E f \in Filters : subs' = [subs EXCEPT ![v] = [NoSub EXCEPT !.nodes = nodes, !.f = f, !.on = TRUE]]
    BY <1>2 DEF add
  <2>2. PICK f \in Filters : subs' = [subs EXCEPT ![v] = [NoSub EXCEPT !.nodes = nodes, !.f = f, !.on = TRUE]]
    BY <2>1
  <2> DEFINE s == [NoSub EXCEPT !.nodes = nodes, !.f = f, !.on = TRUE]
  <2>3. s \in Sub /\ s.ch = <<>> /\ s.f \in Filters
    <3>1. f \in FilterTypes
      BY DEF Filters, FilterTypes
    <3>2. s \in Sub
      BY <1>1, <3>1 DEF Sub
    <3> QED BY <1>1, <3>2 DEF Sub
  <2>4. subs' = [subs EXCEPT ![v] = s]
    BY <2>2
  <2> HIDE DEF s
  <2> QED BY <1>2, <2>3, <2>4, ViewerComesOrGoes DEF add, Streams
<1>3. ASSUME NEW v \in Viewers, remove(v) PROVE LiveIInv'
  BY <1>1, <1>3, ViewerComesOrGoes DEF remove, Streams
<1>4. ASSUME NEW v \in Viewers, streamQueryLog(v) \/ Revoked(v) PROVE LiveIInv'
  <2>1. PICK d \in Sub : subs[v] = d
    BY <1>0 DEF LiveTypes
  <2>2. PICK s \in Sub : /\ subs' = [subs EXCEPT ![v] = s] /\ s.on = d.on /\ s.nodes = d.nodes /\ s.f = d.f
                         /\ \/ s.ch = d.ch /\ shown' = shown
                            \/ s.ch = <<>> /\ shown' = [shown EXCEPT ![v] = @ \cup ToSet(d.ch)]
    <3>1. CASE streamQueryLog(v)
      <4>0. <<>> \in Seq(Queried)
        OBVIOUS
      <4>1. [d EXCEPT !.ch = <<>>] \in Sub
        BY <4>0 DEF Sub
      <4> QED BY <2>1, <3>1, <4>1 DEF streamQueryLog, Sub
    <3>2. CASE Revoked(v)
      <4>1. [d EXCEPT !.allowed = FALSE] \in Sub
        BY DEF Sub
      <4> QED BY <2>1, <3>2, <4>1 DEF Revoked, Sub
    <3> QED BY <1>4, <3>1, <3>2
  <2>3. UNCHANGED <<polls, have, tap, buffer, batch, anonymous>>
    BY <1>4 DEF streamQueryLog, Revoked, Streams
  <2>4. \A w \in Viewers : subs'[w] = IF w = v THEN s ELSE subs[w]
    BY <1>0, <2>2 DEF LiveTypes
  <2>5. ToSet(d.ch) \subseteq Queried
    BY DEF Sub, ToSet
  <2>6. \A w \in Viewers : shown'[w] = shown[w] \/ (w = v /\ shown'[w] = shown[w] \cup ToSet(d.ch) /\ s.ch = <<>>)
    BY <1>0, <2>2 DEF LiveTypes
  <2>7. ToSet(<<>>) = {}
    BY DEF ToSet
  <2>8. LiveTypes'
    <3>1. subs' \in [Viewers -> Sub]
      BY <1>0, <2>2 DEF LiveTypes
    <3>2. shown' \in [Viewers -> SUBSET Queried]
      BY <1>0, <2>2, <2>5 DEF LiveTypes
    <3>3. \A w \in Viewers : subs'[w].on => subs'[w].f \in Filters
      BY <1>0, <2>1, <2>2, <2>4 DEF LiveTypes
    <3> QED BY <1>0, <2>3, <3>1, <3>2, <3>3 DEF LiveTypes
  <2>9. \A w \in Viewers : subs'[w].on = subs[w].on /\ subs'[w].nodes = subs[w].nodes /\ subs'[w].f = subs[w].f
    BY <2>1, <2>2, <2>4
  <2>10. \A w \in Viewers : ToSet(subs'[w].ch) \cup shown'[w] \subseteq ToSet(subs[w].ch) \cup shown[w]
    BY <1>0, <2>1, <2>2, <2>4, <2>6, <2>7 DEF LiveTypes
  <2>11. OnlyWhatIsWatched'
    BY <1>0, <2>9, <2>10, ViewersKeep
  <2>12. \A r \in Resolvers : state(r)' = state(r)
    BY <1>0, <2>9, SameState
  <2>13. NoMissedChange' /\ TapsWhatItHas'
    BY <1>0, <2>3, <2>12 DEF NoMissedChange, TapsWhatItHas
  <2> QED BY <2>8, <2>11, <2>13 DEF LiveIInv, LiveInv
<1>5. ASSUME NEW r \in Resolvers, fetchLive(r) \/ clusterLiveState(r) \/ Unchanged(r) \/ runLive(r) PROVE LiveIInv'
  <2>1. UNCHANGED <<subs, buffer, batch, anonymous, shown>>
    BY <1>5 DEF fetchLive, clusterLiveState, Unchanged, runLive, Hub
  <2>2. state(r) \in FilterSets /\ state(r) # NoVersion
    BY <1>0, StateIsFilters
  <2>3. PICK p \in {"none", "look", "wait"} : /\ polls' = [polls EXCEPT ![r] = p]
          /\ \/ UNCHANGED <<have, tap>> /\ (p = "wait" => state(r) = have[r])
             \/ p = "none" /\ have' = [have EXCEPT ![r] = state(r)] /\ tap' = [tap EXCEPT ![r] = state(r)]
             \/ p = "none" /\ have' = [have EXCEPT ![r] = NoVersion] /\ tap' = [tap EXCEPT ![r] = {}]
    BY <1>5 DEF fetchLive, clusterLiveState, Unchanged, runLive, setFilters
  <2>4. LiveTypes'
    <3>1. polls' \in [Resolvers -> {"none", "look", "wait", "woken"}]
      BY <1>0, <2>3 DEF LiveTypes
    <3>2. have' \in [Resolvers -> FilterSets \cup {NoVersion}] /\ tap' \in [Resolvers -> FilterSets]
      <4>1. {} \in FilterSets
        BY DEF FilterSets
      <4> QED BY <1>0, <2>2, <2>3, <4>1 DEF LiveTypes
    <3> QED BY <1>0, <2>1, <3>1, <3>2 DEF LiveTypes
  <2>5. \A q \in Resolvers : polls'[q] = "wait" => have'[q] = state(q)
    BY <1>0, <2>3 DEF LiveTypes, NoMissedChange
  <2>6. \A q \in Resolvers : tap'[q] = IF have'[q] = NoVersion THEN {} ELSE have'[q]
    BY <1>0, <2>2, <2>3 DEF LiveTypes, TapsWhatItHas
  <2> QED BY <2>1, <2>4, <2>5, <2>6, ResolverKeeps
<1>6. ASSUME NEW r \in Resolvers, Write(r) \/ pushLive(r) \/ PushFails(r) PROVE LiveIInv'
  <2>1. UNCHANGED <<subs, polls, have, tap, anonymous, shown>>
    BY <1>6 DEF Write, pushLive, PushFails, Viewed
  <2>2. buffer' \in [Resolvers -> Seq(Queried)] /\ batch' \in [Resolvers -> Seq(Queried)]
    <3>0. buffer \in [Resolvers -> Seq(Queried)] /\ batch \in [Resolvers -> Seq(Queried)]
      BY <1>0 DEF LiveTypes
    <3>1. CASE Write(r)
      <4>1. PICK k \in Kinds : LET e == [node |-> r, kind |-> k, content |-> Unlabelled]
              IN buffer' = IF (\E f \in tap[r] : Match(f, e)) /\ Len(buffer[r]) < LiveBuffer
                           THEN [buffer EXCEPT ![r] = Append(@, e)] ELSE buffer
        BY <3>1 DEF Write
      <4>2. [node |-> r, kind |-> k, content |-> Unlabelled] \in Queried
        BY DEF Queried
      <4>3. Append(buffer[r], [node |-> r, kind |-> k, content |-> Unlabelled]) \in Seq(Queried)
        BY <3>0, <4>2
      <4> QED BY <3>0, <3>1, <4>1, <4>3 DEF Write
    <3>2. CASE pushLive(r)
      BY <3>0, <3>2 DEF pushLive
    <3>3. CASE PushFails(r)
      BY <3>0, <3>3 DEF PushFails
    <3> QED BY <1>6, <3>1, <3>2, <3>3
  <2>3. LiveTypes'
    BY <1>0, <2>1, <2>2 DEF LiveTypes
  <2> QED BY <1>0, <2>1, <2>3, ResolverKeeps DEF NoMissedChange, TapsWhatItHas
<1>7. ASSUME Anonymizes PROVE LiveIInv'
  <2>1. UNCHANGED <<subs, polls, have, tap, buffer, batch, shown>> /\ anonymous' \in BOOLEAN
    BY <1>7 DEF Anonymizes, Streams
  <2>2. LiveTypes'
    BY <1>0, <2>1 DEF LiveTypes
  <2> QED BY <1>0, <2>1, <2>2, ResolverKeeps DEF NoMissedChange, TapsWhatItHas
<1> QED BY <1>2, <1>3, <1>4, <1>5, <1>6, <1>7 DEF stillAuthenticated

\* What is published to a viewer it watches for, and its filter wants.
LEMMA PushKeeps == ASSUME LiveIInv, NEW r \in Resolvers, clusterLivePush(r) PROVE LiveIInv'
<1>0. LiveTypes /\ NoMissedChange /\ OnlyWhatIsWatched /\ TapsWhatItHas
  BY DEF LiveIInv, LiveInv
<1>1. UNCHANGED <<polls, have, tap, buffer, anonymous, shown>> /\ batch' = [batch EXCEPT ![r] = <<>>]
  BY DEF clusterLivePush, Viewed
<1>2. CASE UNCHANGED subs
  <2>1. LiveTypes'
    BY <1>0, <1>1, <1>2 DEF LiveTypes
  <2> QED BY <1>0, <1>1, <1>2, <2>1, ResolverKeeps DEF NoMissedChange, TapsWhatItHas
<1>3. CASE ~UNCHANGED subs
  <2>1. PICK label \in [Kinds -> Contents] :
          subs' = publish([i \in DOMAIN batch[r] |-> [batch[r][i] EXCEPT !.content = label[batch[r][i].kind]]])
    BY <1>3 DEF clusterLivePush
  <2> DEFINE entries == [i \in DOMAIN batch[r] |-> [batch[r][i] EXCEPT !.content = label[batch[r][i].kind]]]
             Labelled == {e \in Queried : e.content \in Contents}
  <2>2. entries \in Seq(Labelled)
    <3>1. PICK b \in Seq(Queried) : batch[r] = b
      BY <1>0 DEF LiveTypes
    <3>2. \A i \in 1 .. Len(b) : [b[i] EXCEPT !.content = label[b[i].kind]] \in Labelled
      <4> TAKE i \in 1 .. Len(b)
      <4>1. PICK e \in Queried : b[i] = e
        OBVIOUS
      <4>2. e.kind \in Kinds /\ label[e.kind] \in Contents
        BY DEF Queried
      <4>3. [e EXCEPT !.content = label[e.kind]] \in Queried /\ [e EXCEPT !.content = label[e.kind]].content = label[e.kind]
        BY <4>2 DEF Queried
      <4> QED BY <4>1, <4>2, <4>3
    <3>3. entries = [i \in 1 .. Len(b) |-> [b[i] EXCEPT !.content = label[b[i].kind]]]
      BY <3>1
    <3> HIDE DEF entries, Labelled
    <3>4. entries \in [1 .. Len(b) -> Labelled]
      BY <3>2, <3>3
    <3> QED BY <3>4
  <2>3. subs' = publish(entries)
    BY <2>1
  <2> HIDE DEF entries
  <2> DEFINE I(v) == {i \in DOMAIN entries : Wanted(v, entries[i])}
             wants(v) == Chosen(entries, I(v))
             room(v) == LiveSubQueue - Len(subs[v].ch)
             taken(v) == SubSeq(wants(v), 1, IF Len(wants(v)) < room(v) THEN Len(wants(v)) ELSE room(v))
  <2>4. \A v \in Viewers : subs'[v] = [subs[v] EXCEPT !.ch = @ \o taken(v)]
    BY <2>3 DEF publish
  <2>5. \A v \in Viewers : taken(v) \in Seq(Labelled) /\ \A e \in ToSet(taken(v)) : Wanted(v, e) /\ e \in Labelled
    <3> TAKE v \in Viewers
    <3>1. I(v) \in SUBSET (1 .. Len(entries))
      BY <2>2
    <3> DEFINE w == wants(v)
               m == IF Len(w) < room(v) THEN Len(w) ELSE room(v)
    <3>2. /\ w \in Seq(Labelled) /\ Len(w) = Cardinality(I(v))
          /\ \A k \in 1 .. Cardinality(I(v)) : Nth(I(v), k) \in I(v) /\ w[k] = entries[Nth(I(v), k)]
      <4> HIDE DEF I, Labelled
      <4> QED BY <2>2, <3>1, ChosenIsOf
    <3>3. \A k \in 1 .. Len(w) : Wanted(v, w[k])
      BY <3>2
    <3>4. m \in Int /\ m <= Len(w)
      <4>1. Len(w) \in Nat /\ Len(subs[v].ch) \in Nat
        <5>1. subs[v].ch \in Seq(Queried)
          BY <1>0 DEF LiveTypes, Sub
        <5> HIDE DEF w, Labelled
        <5> QED BY <3>2, <5>1
      <4> HIDE DEF w
      <4> QED BY <4>1, LiveAssumption
    <3>5. taken(v) = SubSeq(w, 1, m)
      OBVIOUS
    <3> HIDE DEF w, m, wants, I, room, taken, Labelled
    <3>6. SubSeq(w, 1, m) \in Seq(Labelled) /\ Len(SubSeq(w, 1, m)) \in 0 .. Len(w)
      BY <3>2, <3>4
    <3>7. \A k \in 1 .. Len(SubSeq(w, 1, m)) : k \in 1 .. Len(w) /\ SubSeq(w, 1, m)[k] = w[k]
      BY <3>2, <3>4
    <3>8. \A e \in ToSet(SubSeq(w, 1, m)) : \E k \in 1 .. Len(w) : e = w[k]
      BY <3>6, <3>7 DEF ToSet
    <3> QED BY <3>2, <3>3, <3>5, <3>6, <3>8
  <2> HIDE DEF taken, wants, room, I
  <2>6. ASSUME NEW v \in Viewers
        PROVE  /\ subs'[v] \in Sub
               /\ subs'[v].on = subs[v].on /\ subs'[v].nodes = subs[v].nodes /\ subs'[v].f = subs[v].f
               /\ \A e \in ToSet(subs'[v].ch) : e \in ToSet(subs[v].ch) \/ e \in ToSet(taken(v))
    <3>1. PICK d \in Sub : subs[v] = d
      BY <1>0 DEF LiveTypes
    <3>2. PICK t \in Seq(Queried) : taken(v) = t
      <4>1. taken(v) \in Seq(Labelled)
        BY <2>5
      <4>2. Seq(Labelled) \subseteq Seq(Queried)
        OBVIOUS
      <4> QED BY <4>1, <4>2
    <3>3. subs'[v] = [d EXCEPT !.ch = d.ch \o t]
      BY <2>4, <3>1, <3>2
    <3>4. d.ch \in Seq(Queried)
      BY DEF Sub
    <3>5. d.ch \o t \in Seq(Queried)
      BY <3>4
    <3>6. subs'[v] \in Sub /\ subs'[v].ch = d.ch \o t /\ subs'[v].on = d.on /\ subs'[v].nodes = d.nodes /\ subs'[v].f = d.f
      BY <3>3, <3>5 DEF Sub
    <3>7. \A e \in ToSet(d.ch \o t) : e \in ToSet(d.ch) \/ e \in ToSet(t)
      BY <3>4 DEF ToSet
    <3> QED BY <3>1, <3>2, <3>6, <3>7
  <2>7. LiveTypes'
    <3>1. subs' \in [Viewers -> Sub]
      <4>1. DOMAIN subs' = Viewers /\ subs' = [v \in Viewers |-> subs'[v]]
        BY <2>3 DEF publish
      <4> QED BY <2>6, <4>1
    <3>2. batch' \in [Resolvers -> Seq(Queried)]
      <4>1. <<>> \in Seq(Queried)
        OBVIOUS
      <4> QED BY <1>0, <1>1, <4>1 DEF LiveTypes
    <3>3. \A v \in Viewers : subs'[v].on => subs'[v].f \in Filters
      BY <1>0, <2>6 DEF LiveTypes
    <3> QED BY <1>0, <1>1, <3>1, <3>2, <3>3 DEF LiveTypes
  <2>8. /\ \A q \in Resolvers : state(q)' = state(q)
        /\ \A v \in Viewers : \A q : watches(v, q)' = watches(v, q)
    BY <1>0, <2>6, SameState
  <2>9. NoMissedChange' /\ TapsWhatItHas'
    BY <1>0, <1>1, <2>8 DEF NoMissedChange, TapsWhatItHas
  <2>10. OnlyWhatIsWatched'
    <3> SUFFICES ASSUME NEW v \in Viewers, NEW e \in ToSet(subs'[v].ch) \cup shown'[v]
                 PROVE  watches(v, e.node) /\ e.kind \in subs[v].f.kinds /\ subs[v].f.content \in {Unlabelled, e.content}
      BY <2>6, <2>8 DEF OnlyWhatIsWatched
    <3>1. CASE e \in ToSet(subs[v].ch) \cup shown[v]
      BY <1>0, <3>1 DEF OnlyWhatIsWatched
    <3>2. CASE e \in ToSet(taken(v))
      <4>1. Wanted(v, e) /\ e.content \in Contents
        BY <2>5, <3>2
      <4>2. watches(v, e.node) /\ Match(subs[v].f, e)
        BY <4>1 DEF Wanted
      <4>3. e.content # Unlabelled
        BY <4>1, LiveAssumption
      <4> QED BY <4>2, <4>3 DEF Match
    <3> QED BY <1>1, <2>6, <3>1, <3>2
  <2> QED BY <2>7, <2>9, <2>10 DEF LiveIInv, LiveInv
<1> QED BY <1>2, <1>3

\* No change of what the viewers select is missed by a poll that waits, nobody is
\* queued or shown what it does not watch or its own filter leaves out, and a
\* resolver taps exactly what it was told (liveHub, LiveTap), whatever the
\* queues' lengths and the number of viewers and resolvers.
THEOREM LiveHolds == LvSpec => []LiveInv
<1>1. LvInit => LiveIInv
  BY LiveStart
<1>2. LiveIInv /\ [LvNext]_lvVars => LiveIInv'
  <2> SUFFICES ASSUME LiveIInv, [LvNext]_lvVars PROVE LiveIInv'
    OBVIOUS
  <2>1. CASE UNCHANGED lvVars
    <3>1. UNCHANGED <<subs, polls, have, tap, buffer, batch, anonymous, shown>>
      BY <2>1 DEF lvVars
    <3>2. LiveTypes'
      BY <3>1 DEF LiveIInv, LiveTypes
    <3> QED BY <3>1, <3>2, ResolverKeeps DEF LiveIInv, LiveInv, NoMissedChange, TapsWhatItHas
  <2>2. ASSUME NEW r \in Resolvers, clusterLivePush(r) PROVE LiveIInv'
    BY <2>2, PushKeeps
  <2> QED BY <2>1, <2>2, CommonSteps DEF LvNext
<1>3. LiveIInv => LiveInv
  BY DEF LiveIInv
<1> QED BY <1>1, <1>2, <1>3, PTL DEF LvSpec

-----------------------------------------------------------------------------
(* The names of clients.                                                   *)

Rewrite   == [of : ClientIPs, name : HostNames, scope : Scopes]
NameCall  == [at : {"idle", "save", "copy", "refresh", "list", "build"}, of : ClientIPs \cup {Unnamed}, to : MaybeName,
              names : [ClientIPs -> MaybeName], cn : [ClientIPs -> NodeNames \cup {Master}], rows : SUBSET Rewrite]
Question  == [of : ClientIPs \cup {Unnamed}, site : BOOLEAN, since : 0 .. MaxTime, got : BOOLEAN, name : MaybeName]
FoundName == [name : MaybeName, exp : 0 .. MaxTime + TTL]
NameMap   == [ClientIPs -> MaybeName]

NameTypes ==
  /\ client_names \in NameMap /\ wanted \in NameMap /\ manual \in NameMap /\ ptr \in NameMap
  /\ rewrites \subseteq Rewrite /\ resolvers \subseteq NodeNames \cup {Master}
  /\ ClientNodes \in [ClientIPs -> NodeNames] /\ cnode \in [ClientIPs -> NodeNames \cup {Master}]
  /\ rdns \in [ClientIPs -> FoundName]
  /\ time \in 0 .. MaxTime /\ ptrAt \in [ClientIPs -> 0 .. MaxTime]
  /\ calls \in [Callers -> NameCall] /\ asking \in [Lookers -> Question]
  /\ lost \in BOOLEAN /\ crossing \in BOOLEAN /\ overlapped \in BOOLEAN

\* Who saves, copies and refreshes.
NameCallsFit ==
  \A a \in Callers : /\ calls[a].at \in {"save", "copy"} => a \in Admins /\ calls[a].of \in ClientIPs
                     /\ calls[a].at = "refresh" => a = Ticker

NamesStored == lost \/ client_names = wanted

\* Between the save of a name and its copy the copy lags for that client alone,
\* and the one admin who is to copy it has what is stored.
Copies(a, c) == At(a, "copy") /\ calls[a].of = c
NamesCopied ==
  crossing \/ \A c \in ClientIPs :
    /\ (\A a \in Admins : ~Copies(a, c)) => manual[c] = client_names[c]
    /\ \A a \in Admins : Copies(a, c) /\ (\A b \in Admins \ {a} : ~Copies(b, c)) => calls[a].to = client_names[c]

\* Rows that were listed are those of the table, unless another is to list them.
Follows(a) == calls[a].at \in {"list", "build"}
RowsListed ==
  overlapped \/ \A a \in Callers : At(a, "build") => calls[a].rows = rewrites \/ \E b \in Callers \ {a} : Follows(b)

\* What was asked before a client's name changed is not kept longer than the
\* change allows.
Dated ==
  /\ \A c \in ClientIPs : rdns[c].exp <= time + TTL
  /\ \A l \in Lookers : asking[l].got => asking[l].of \in ClientIPs
  /\ \A l \in Lookers : asking[l].since <= time
  /\ \A l \in Lookers : asking[l] # NotAsking => asking[l].of \in ClientIPs
  /\ \A l \in Lookers : asking[l].got /\ asking[l].name \notin {Unnamed, ptr[asking[l].of]}
       => asking[l].since <= ptrAt[asking[l].of]

NamesIInv == NameTypes /\ NameCallsFit /\ NamesStored /\ NamesCopied /\ RowsListed /\ IndexFollows /\ Dated /\ AnswersExpire

LEMMA NamesIInvSuffices == NamesIInv => NamesInv
<1> SUFFICES ASSUME NamesIInv PROVE NamesInv
  OBVIOUS
<1>1. NmTypeOK
  BY DEF NamesIInv, NameTypes, NmTypeOK, NameMap, FoundName, Rewrite
<1>2. crossing \/ (\E a \in Admins : At(a, "copy")) \/ manual = client_names
  <2> SUFFICES ASSUME ~crossing, ~\E a \in Admins : At(a, "copy") PROVE manual = client_names
    OBVIOUS
  <2>1. \A c \in ClientIPs : manual[c] = client_names[c]
    BY DEF NamesIInv, NamesCopied, Copies
  <2> QED BY <2>1 DEF NamesIInv, NameTypes, NameMap
<1>3. NamesStay
  BY <1>2 DEF NamesIInv, NamesStored, NamesStay
<1> QED BY <1>1, <1>3 DEF NamesIInv, NamesInv

LEMMA NamesStart == NmInit => NamesIInv
<1> SUFFICES ASSUME NmInit PROVE NamesIInv
  OBVIOUS
<1> USE ClientNamesAssumption
<1>1. Nobody \in NameMap
  BY DEF Nobody, NameMap, MaybeName
<1>2. Idle \in NameCall /\ Idle.at = "idle"
  BY <1>1 DEF Idle, NameCall, NameMap, MaybeName
<1>3. NotAsking \in Question /\ ~NotAsking.got /\ NotAsking.since = 0
  BY DEF NotAsking, Question, MaybeName
<1>4. NameTypes
  <2>1. rdns \in [ClientIPs -> FoundName]
    BY DEF NmInit, FoundName, MaybeName
  <2>2. calls \in [Callers -> NameCall] /\ asking \in [Lookers -> Question]
    BY <1>2, <1>3 DEF NmInit
  <2>3. 0 \in 0 .. MaxTime
    OBVIOUS
  <2> QED BY <1>1, <2>1, <2>2, <2>3 DEF NmInit, NameTypes, NameMap, Scopes
<1>5. NameCallsFit /\ NamesStored /\ NamesCopied /\ RowsListed
  <2>1. \A a \in Callers : calls[a] = Idle /\ calls[a].at = "idle"
    BY <1>2 DEF NmInit
  <2>2. NameCallsFit /\ RowsListed
    BY <2>1 DEF NameCallsFit, RowsListed, At
  <2>3. \A a \in Admins : a \in Callers
    BY DEF Callers
  <2>4. NamesStored /\ NamesCopied
    BY <2>1, <2>3 DEF NmInit, NamesStored, NamesCopied, Copies, At
  <2> QED BY <2>2, <2>4
<1>6. IndexFollows
  <2>1. \A n \in NodeNames : FilterRewritesForNode({}, n) = {}
    BY DEF FilterRewritesForNode
  <2> QED BY <2>1 DEF NmInit, IndexFollows, NoIndex, buildRewriteIndex
<1>7. Dated /\ AnswersExpire
  BY <1>3 DEF NmInit, Dated, AnswersExpire
<1> QED BY <1>4, <1>5, <1>6, <1>7 DEF NamesIInv

\* A call of a caller is replaced: the others are as they were.
LEMMA CallReplaced ==
  ASSUME NameTypes, NEW a \in Callers, NEW call, calls' = [calls EXCEPT ![a] = call]
  PROVE  /\ calls'[a] = call /\ \A b \in Callers \ {a} : calls'[b] = calls[b]
         /\ \A b \in Callers \ {a} : \A s : At(b, s)' = At(b, s)
         /\ \A s : At(a, s)' = (call.at = s)
BY DEF NameTypes, At

\* Steps that leave the lookups and what they are about alone.
LEMMA DatedKept ==
  ASSUME NamesIInv, UNCHANGED <<rdns, asking, time, ptr, ptrAt>>
  PROVE  Dated' /\ AnswersExpire'
BY DEF NamesIInv, Dated, AnswersExpire

LEMMA CallersAre == Ticker \in Callers /\ \A a \in Admins : a \in Callers /\ a # Ticker
BY ClientNamesAssumption DEF Callers

Tables  == <<client_names, rewrites, wanted, lost>>
Enrich  == <<manual, cnode, index, rdns, crossing, overlapped>>
Outside == <<ClientNodes, resolvers, ptr, ptrAt, time>>

\* Steps that replace a call by another that copies and follows as little.
LEMMA CallOnly ==
  ASSUME NamesIInv, NEW a \in Callers, NEW call \in NameCall, calls' = [calls EXCEPT ![a] = call],
         UNCHANGED <<tables, enrich, outside, asking>>,
         calls[a].at # "copy", call.at # "copy", Follows(a) <=> call.at \in {"list", "build"},
         call.at = "save" => a \in Admins /\ call.of \in ClientIPs, call.at = "refresh" => a = Ticker,
         call.at = "build" => calls[a].at = "list" /\ call.rows = rewrites
  PROVE  NamesIInv'
<1>1. UNCHANGED Tables /\ UNCHANGED Enrich /\ UNCHANGED Outside /\ UNCHANGED asking
  BY DEF tables, enrich, outside, Tables, Enrich, Outside
<1>2. NameTypes
  BY DEF NamesIInv
<1>3. /\ calls'[a] = call /\ \A b \in Callers \ {a} : calls'[b] = calls[b]
  BY <1>2, CallReplaced
<1>4. NameTypes'
  <2>1. calls' \in [Callers -> NameCall]
    BY <1>2 DEF NameTypes
  <2> QED BY <1>1, <1>2, <2>1 DEF NameTypes, Tables, Enrich, Outside
<1>5. NameCallsFit'
  <2>1. NameCallsFit
    BY DEF NamesIInv
  <2> QED BY <1>3, <2>1 DEF NameCallsFit
<1>6. NamesStored'
  BY <1>1 DEF NamesIInv, NamesStored, Tables
<1>7. NamesCopied'
  <2>1. \A b \in Admins, c \in ClientIPs : Copies(b, c)' = Copies(b, c)
    <3> TAKE b \in Admins, c \in ClientIPs
    <3>1. b \in Callers
      BY CallersAre
    <3> QED BY <1>3, <3>1 DEF Copies, At
  <2>2. \A b \in Admins, c \in ClientIPs : Copies(b, c) => calls'[b] = calls[b]
    <3> TAKE b \in Admins, c \in ClientIPs
    <3>1. b \in Callers
      BY CallersAre
    <3> QED BY <1>3, <3>1 DEF Copies, At
  <2> QED BY <1>1, <2>1, <2>2 DEF NamesIInv, NamesCopied, Tables, Enrich
<1>8. \A b \in Callers : Follows(b)' = Follows(b)
  BY <1>3 DEF Follows
<1>9. RowsListed'
  <2> SUFFICES ASSUME ~overlapped, NEW b \in Callers, At(b, "build")', calls'[b].rows # rewrites
               PROVE  \E d \in Callers \ {b} : Follows(d)
    BY <1>1, <1>8 DEF RowsListed, Tables, Enrich
  <2>1. b # a
    BY <1>3 DEF At
  <2>2. calls'[b] = calls[b]
    BY <1>3, <2>1
  <2> QED BY <2>2 DEF NamesIInv, RowsListed, At
<1>10. IndexFollows'
  BY <1>1, <1>8 DEF NamesIInv, IndexFollows, Follows, Tables, Enrich
<1>11. Dated' /\ AnswersExpire'
  BY <1>1, DatedKept DEF Enrich, Outside
<1> QED BY <1>4, <1>5, <1>6, <1>7, <1>9, <1>10, <1>11 DEF NamesIInv

LEMMA LoadKeeps == ASSUME NamesIInv, NEW a \in Admins, LoadClientNames(a) PROVE NamesIInv'
<1>1. PICK c \in ClientIPs, n \in MaybeName, names \in {client_names, Nobody} :
        Calls(a, [Idle EXCEPT !.at = "save", !.of = c, !.to = n, !.names = names])
  BY DEF LoadClientNames
<1>2. names \in NameMap
  BY DEF NamesIInv, NameTypes, Nobody, NameMap, MaybeName
<1>3. PICK call \in NameCall : call = [Idle EXCEPT !.at = "save", !.of = c, !.to = n, !.names = names]
  BY <1>2 DEF Idle, NameCall, MaybeName, NameMap
<1>4. call.at = "save" /\ call.of = c
  BY <1>3 DEF Idle
<1>5. calls' = [calls EXCEPT ![a] = call] /\ UNCHANGED <<tables, enrich, outside, asking>>
  BY <1>1, <1>3 DEF LoadClientNames, Calls
<1>6. calls[a].at = "idle" /\ a \in Callers /\ ~Follows(a)
  BY CallersAre DEF LoadClientNames, At, Follows
<1> QED BY <1>4, <1>5, <1>6, CallOnly

LEMMA RefreshesKeeps == ASSUME NamesIInv, Refreshes PROVE NamesIInv'
<1>1. PICK names \in {client_names, Nobody}, cn \in {ClientNodes, cnode} :
        Calls(Ticker, [Idle EXCEPT !.at = "refresh", !.names = names, !.cn = cn])
  BY DEF Refreshes
<1>2. names \in NameMap /\ cn \in [ClientIPs -> NodeNames \cup {Master}]
  BY DEF NamesIInv, NameTypes, Nobody, NameMap, MaybeName
<1>3. PICK call \in NameCall : call = [Idle EXCEPT !.at = "refresh", !.names = names, !.cn = cn]
  BY <1>2 DEF Idle, NameCall, MaybeName, NameMap
<1>4. call.at = "refresh"
  BY <1>3 DEF Idle
<1>5. calls' = [calls EXCEPT ![Ticker] = call] /\ UNCHANGED <<tables, enrich, outside, asking>>
  BY <1>1, <1>3 DEF Refreshes, Calls
<1>6. calls[Ticker].at = "idle" /\ Ticker \in Callers /\ ~Follows(Ticker)
  BY CallersAre DEF Refreshes, At, Follows
<1> QED BY <1>4, <1>5, <1>6, CallOnly

LEMMA ListKeeps == ASSUME NamesIInv, NEW a \in Callers, ListRewrites(a) PROVE NamesIInv'
<1>1. calls[a] \in NameCall /\ rewrites \in SUBSET Rewrite
  BY DEF NamesIInv, NameTypes
<1>2. PICK call \in NameCall : call = [calls[a] EXCEPT !.at = "build", !.rows = rewrites]
  BY <1>1 DEF NameCall
<1>3. call.at = "build" /\ call.rows = rewrites
  BY <1>1, <1>2 DEF NameCall
<1>4. calls' = [calls EXCEPT ![a] = call] /\ UNCHANGED <<tables, enrich, outside, asking>>
  BY <1>2 DEF ListRewrites, Calls
<1>5. calls[a].at = "list" /\ Follows(a)
  BY DEF ListRewrites, At, Follows
<1> QED BY <1>3, <1>4, <1>5, CallOnly

\* Who copies, once a call is replaced.
LEMMA CopiesThen ==
  ASSUME NamesIInv, NEW a \in Callers, NEW call, calls' = [calls EXCEPT ![a] = call]
  PROVE  /\ \A b \in Admins \ {a} : \A c : (Copies(b, c)' <=> Copies(b, c)) /\ calls'[b] = calls[b]
         /\ \A c : Copies(a, c)' <=> call.at = "copy" /\ call.of = c
         /\ \A b \in Callers \ {a} : (Follows(b)' <=> Follows(b)) /\ calls'[b] = calls[b]
         /\ Follows(a)' <=> call.at \in {"list", "build"}
         /\ calls'[a] = call
<1>1. /\ calls'[a] = call /\ \A b \in Callers \ {a} : calls'[b] = calls[b]
  BY CallReplaced DEF NamesIInv
<1>2. \A b \in Admins : b \in Callers
  BY CallersAre
<1> QED BY <1>1, <1>2 DEF Copies, Follows, At

\* Steps that replace a call and leave the rewrites and what follows them alone.
LEMMA RowsKept ==
  ASSUME NamesIInv, NEW a \in Callers, NEW call, calls' = [calls EXCEPT ![a] = call],
         UNCHANGED <<rewrites, index, overlapped>>, ~Follows(a), call.at \notin {"list", "build"}
  PROVE  RowsListed' /\ IndexFollows'
<1>1. /\ \A b \in Callers \ {a} : (Follows(b)' <=> Follows(b)) /\ calls'[b] = calls[b]
      /\ Follows(a)' <=> call.at \in {"list", "build"}
      /\ calls'[a] = call
  BY CopiesThen
<1>2. \A b \in Callers : Follows(b)' <=> Follows(b)
  BY <1>1
<1>3. RowsListed'
  <2> SUFFICES ASSUME ~overlapped, NEW b \in Callers, At(b, "build")', calls'[b].rows # rewrites
               PROVE  \E d \in Callers \ {b} : Follows(d)
    BY <1>2 DEF RowsListed
  <2>1. b # a
    BY <1>1 DEF At
  <2>2. calls'[b] = calls[b]
    BY <1>1, <2>1
  <2> QED BY <2>2 DEF NamesIInv, RowsListed, At
<1>4. IndexFollows'
  BY <1>2 DEF NamesIInv, IndexFollows, Follows
<1> QED BY <1>3, <1>4

LEMMA SaveKeeps == ASSUME NamesIInv, NEW a \in Admins, SaveClientName(a) PROVE NamesIInv'
<1>1. NameTypes /\ NameCallsFit /\ a \in Callers
  BY CallersAre DEF NamesIInv
<1>2. calls[a] \in NameCall /\ calls[a].at = "save" /\ calls[a].of \in ClientIPs
  BY <1>1 DEF NameTypes, NameCallsFit, SaveClientName, At
<1>3. PICK call \in NameCall : call = [calls[a] EXCEPT !.at = "copy"]
  BY <1>2 DEF NameCall
<1>4. call.at = "copy" /\ call.of = calls[a].of /\ call.to = calls[a].to /\ call.to \in MaybeName /\ call.of \in ClientIPs
  BY <1>2, <1>3 DEF NameCall
<1>5. calls' = [calls EXCEPT ![a] = call]
  BY <1>3 DEF SaveClientName, Calls
<1>6. PICK c \in ClientIPs : c = call.of
  BY <1>4
<1>7. PICK names \in NameMap : names = calls[a].names
  BY <1>2 DEF NameCall, NameMap
<1>8. /\ client_names' = [names EXCEPT ![c] = call.to] /\ wanted' = [wanted EXCEPT ![c] = call.to]
      /\ lost' = (lost \/ names # client_names) /\ crossing' = (crossing \/ names # client_names)
      /\ UNCHANGED <<rewrites, manual, cnode, index, rdns, overlapped, asking, ClientNodes, resolvers, ptr, ptrAt, time>>
  BY <1>4, <1>6, <1>7 DEF SaveClientName, Calls, outside
<1>9. NameTypes'
  <2>1. client_names' \in NameMap /\ wanted' \in NameMap
    BY <1>1, <1>4, <1>7, <1>8 DEF NameTypes, NameMap
  <2>2. calls' \in [Callers -> NameCall]
    BY <1>1, <1>3, <1>5 DEF NameTypes
  <2>3. lost' \in BOOLEAN /\ crossing' \in BOOLEAN
    BY <1>8
  <2> QED BY <1>1, <1>8, <2>1, <2>2, <2>3 DEF NameTypes
<1>10. /\ \A b \in Admins \ {a} : \A e : (Copies(b, e)' <=> Copies(b, e)) /\ calls'[b] = calls[b]
       /\ \A e : Copies(a, e)' <=> call.at = "copy" /\ call.of = e
       /\ \A b \in Callers \ {a} : (Follows(b)' <=> Follows(b)) /\ calls'[b] = calls[b]
       /\ calls'[a] = call
  BY <1>1, <1>5, CopiesThen
<1>11. NameCallsFit'
  BY <1>1, <1>4, <1>10 DEF NameCallsFit
<1>12. NamesStored'
  BY <1>8 DEF NamesIInv, NamesStored
<1>13. NamesCopied'
  <2> SUFFICES ASSUME ~crossing, names = client_names, NEW e \in ClientIPs
               PROVE  /\ (\A b \in Admins : ~Copies(b, e)') => manual[e] = client_names'[e]
                      /\ \A b \in Admins : Copies(b, e)' /\ (\A d \in Admins \ {b} : ~Copies(d, e)')
                           => calls'[b].to = client_names'[e]
    BY <1>8 DEF NamesCopied
  <2>1. ~Copies(a, e)
    BY <1>2 DEF Copies, At
  <2>2. e # c => ~Copies(a, e)' /\ client_names'[e] = client_names[e]
    BY <1>1, <1>6, <1>8, <1>10 DEF NameTypes, NameMap
  <2>3. e = c => Copies(a, e)' /\ client_names'[e] = call.to
    BY <1>4, <1>6, <1>7, <1>8, <1>10 DEF NameMap
  <2>4. CASE e = c
    BY <1>10, <2>3, <2>4
  <2>5. CASE e # c
    <3>1. /\ (\A b \in Admins : ~Copies(b, e)) => manual[e] = client_names[e]
          /\ \A b \in Admins : Copies(b, e) /\ (\A d \in Admins \ {b} : ~Copies(d, e)) => calls[b].to = client_names[e]
      BY DEF NamesIInv, NamesCopied
    <3>2. \A b \in Admins : Copies(b, e)' <=> Copies(b, e)
      BY <1>10, <2>1, <2>2, <2>5
    <3>3. \A b \in Admins : Copies(b, e) => calls'[b] = calls[b]
      BY <1>10, <2>1
    <3> QED BY <2>2, <2>5, <3>1, <3>2, <3>3
  <2> QED BY <2>4, <2>5
<1>14. ~Follows(a)
  BY <1>2 DEF Follows
<1>15. RowsListed' /\ IndexFollows'
  BY <1>1, <1>4, <1>5, <1>8, <1>14, RowsKept
<1>16. Dated' /\ AnswersExpire'
  BY <1>8, DatedKept
<1> QED BY <1>9, <1>11, <1>12, <1>13, <1>15, <1>16 DEF NamesIInv

LEMMA IdleCall == Idle \in NameCall /\ Idle.at = "idle"
<1>1. Nobody \in NameMap
  BY DEF Nobody, NameMap, MaybeName
<1> QED BY <1>1 DEF Idle, NameCall, NameMap, MaybeName

LEMMA SetKeeps == ASSUME NamesIInv, NEW a \in Admins, SetClientName(a) PROVE NamesIInv'
<1>1. NameTypes /\ NameCallsFit /\ a \in Callers
  BY CallersAre DEF NamesIInv
<1>2. calls[a] \in NameCall /\ calls[a].at = "copy" /\ calls[a].of \in ClientIPs
  BY <1>1 DEF NameTypes, NameCallsFit, SetClientName, At
<1>3. PICK call \in NameCall : call = Idle
  BY IdleCall
<1>4. call.at = "idle"
  BY <1>3, IdleCall
<1>5. calls' = [calls EXCEPT ![a] = call]
  BY <1>3 DEF SetClientName, Calls
<1>6. PICK c \in ClientIPs : c = calls[a].of
  BY <1>2
<1>7. PICK to \in MaybeName : to = calls[a].to
  BY <1>2 DEF NameCall
<1>8. /\ manual' = [manual EXCEPT ![c] = to] /\ crossing' = (crossing \/ \E b \in Admins \ {a} : Copies(b, c))
      /\ UNCHANGED <<client_names, wanted, lost, rewrites, cnode, index, rdns, overlapped, asking, ClientNodes, resolvers,
                     ptr, ptrAt, time>>
  BY <1>6, <1>7 DEF SetClientName, Calls, outside, tables, Copies
<1>9. NameTypes'
  <2>1. manual' \in NameMap
    BY <1>1, <1>7, <1>8 DEF NameTypes, NameMap
  <2>2. calls' \in [Callers -> NameCall]
    BY <1>1, <1>3, <1>5 DEF NameTypes
  <2>3. crossing' \in BOOLEAN
    BY <1>8
  <2> QED BY <1>1, <1>8, <2>1, <2>2, <2>3 DEF NameTypes
<1>10. /\ \A b \in Admins \ {a} : \A e : (Copies(b, e)' <=> Copies(b, e)) /\ calls'[b] = calls[b]
       /\ \A e : Copies(a, e)' <=> call.at = "copy" /\ call.of = e
       /\ \A b \in Callers \ {a} : (Follows(b)' <=> Follows(b)) /\ calls'[b] = calls[b]
       /\ calls'[a] = call
  BY <1>1, <1>5, CopiesThen
<1>11. NameCallsFit'
  BY <1>1, <1>4, <1>10 DEF NameCallsFit
<1>12. NamesStored'
  BY <1>8 DEF NamesIInv, NamesStored
<1>13. NamesCopied'
  <2> SUFFICES ASSUME ~crossing, \A b \in Admins \ {a} : ~Copies(b, c), NEW e \in ClientIPs
               PROVE  /\ (\A b \in Admins : ~Copies(b, e)') => manual'[e] = client_names[e]
                      /\ \A b \in Admins : Copies(b, e)' /\ (\A d \in Admins \ {b} : ~Copies(d, e)')
                           => calls'[b].to = client_names[e]
    BY <1>8 DEF NamesCopied
  <2>1. ~Copies(a, e)'
    BY <1>4, <1>10
  <2>2. Copies(a, c) /\ (e # c => ~Copies(a, e))
    BY <1>2, <1>6 DEF Copies, At
  <2>3. /\ (\A b \in Admins : ~Copies(b, e)) => manual[e] = client_names[e]
        /\ \A b \in Admins : Copies(b, e) /\ (\A d \in Admins \ {b} : ~Copies(d, e)) => calls[b].to = client_names[e]
    BY DEF NamesIInv, NamesCopied
  <2>4. CASE e = c
    <3>1. to = client_names[c] /\ manual'[c] = to
      BY <1>1, <1>7, <1>8, <2>2, <2>3, <2>4 DEF NameTypes, NameMap
    <3>2. \A b \in Admins : ~Copies(b, e)'
      BY <1>10, <2>1, <2>4
    <3> QED BY <2>4, <3>1, <3>2
  <2>5. CASE e # c
    <3>1. manual'[e] = manual[e]
      BY <1>1, <1>8, <2>5 DEF NameTypes, NameMap
    <3>2. \A b \in Admins : Copies(b, e)' <=> Copies(b, e)
      BY <1>10, <2>1, <2>2, <2>5
    <3>3. \A b \in Admins : Copies(b, e) => calls'[b] = calls[b]
      BY <1>10, <2>2, <2>5
    <3> QED BY <2>3, <3>1, <3>2, <3>3
  <2> QED BY <2>4, <2>5
<1>14. ~Follows(a)
  BY <1>2 DEF Follows
<1>15. RowsListed' /\ IndexFollows'
  BY <1>1, <1>4, <1>5, <1>8, <1>14, RowsKept
<1>16. Dated' /\ AnswersExpire'
  BY <1>8, DatedKept
<1> QED BY <1>9, <1>11, <1>12, <1>13, <1>15, <1>16 DEF NamesIInv

LEMMA RefreshKeeps == ASSUME NamesIInv, refresh PROVE NamesIInv'
<1>1. NameTypes /\ NameCallsFit /\ Ticker \in Callers
  BY CallersAre DEF NamesIInv
<1>2. calls[Ticker] \in NameCall /\ calls[Ticker].at = "refresh"
  BY <1>1 DEF NameTypes, refresh, At
<1>3. PICK call \in NameCall : call = [Idle EXCEPT !.at = "list"]
  BY IdleCall DEF NameCall
<1>4. call.at = "list"
  BY <1>3, IdleCall DEF NameCall
<1>5. calls' = [calls EXCEPT ![Ticker] = call]
  BY <1>3 DEF refresh, Calls
<1>6. /\ manual' = calls[Ticker].names /\ cnode' = calls[Ticker].cn
      /\ crossing' = (calls[Ticker].names # client_names \/ \E a \in Admins : At(a, "copy"))
      /\ UNCHANGED <<client_names, wanted, lost, rewrites, index, rdns, overlapped, asking, ClientNodes, resolvers, ptr,
                     ptrAt, time>>
  BY DEF refresh, Calls, outside, tables
<1>7. NameTypes'
  <2>1. manual' \in NameMap /\ cnode' \in [ClientIPs -> NodeNames \cup {Master}]
    BY <1>2, <1>6 DEF NameCall, NameMap
  <2>2. calls' \in [Callers -> NameCall]
    BY <1>1, <1>3, <1>5 DEF NameTypes
  <2>3. crossing' \in BOOLEAN
    BY <1>6
  <2> QED BY <1>1, <1>6, <2>1, <2>2, <2>3 DEF NameTypes
<1>8. /\ \A b \in Admins \ {Ticker} : \A e : (Copies(b, e)' <=> Copies(b, e)) /\ calls'[b] = calls[b]
      /\ \A b \in Callers \ {Ticker} : (Follows(b)' <=> Follows(b)) /\ calls'[b] = calls[b]
      /\ Follows(Ticker)' <=> call.at \in {"list", "build"}
      /\ calls'[Ticker] = call
  BY <1>1, <1>5, CopiesThen
<1>9. NameCallsFit'
  BY <1>1, <1>4, <1>8 DEF NameCallsFit
<1>10. NamesStored'
  BY <1>6 DEF NamesIInv, NamesStored
<1>11. NamesCopied'
  <2> SUFFICES ASSUME calls[Ticker].names = client_names, \A b \in Admins : ~At(b, "copy"), NEW e \in ClientIPs
               PROVE  /\ manual'[e] = client_names[e]
                      /\ \A b \in Admins : ~Copies(b, e)'
    BY <1>6 DEF NamesCopied
  <2>1. \A b \in Admins : b # Ticker
    BY CallersAre
  <2> QED BY <1>6, <1>8, <2>1 DEF Copies
<1>12. RowsListed' /\ IndexFollows'
  <2>1. Follows(Ticker)'
    BY <1>4, <1>8
  <2>2. IndexFollows'
    BY <1>1, <2>1 DEF IndexFollows, Follows
  <2>3. ASSUME ~overlapped, NEW b \in Callers, At(b, "build")'
        PROVE  \E d \in Callers \ {b} : Follows(d)'
    <3>1. b # Ticker
      BY <1>4, <1>8, <2>3 DEF At
    <3> QED BY <1>1, <2>1, <3>1
  <2> QED BY <1>6, <2>2, <2>3 DEF RowsListed
<1>13. Dated' /\ AnswersExpire'
  BY <1>6, DatedKept
<1> QED BY <1>7, <1>9, <1>10, <1>11, <1>12, <1>13 DEF NamesIInv

\* Steps of the rewrites: the names are left alone, and nobody begins or ends a copy.
LEMMA CopiedKept ==
  ASSUME NamesIInv, NEW a \in Callers, NEW call, calls' = [calls EXCEPT ![a] = call],
         UNCHANGED <<client_names, manual, crossing>>, calls[a].at # "copy", call.at # "copy"
  PROVE  NamesCopied'
<1>1. /\ \A b \in Admins \ {a} : \A e : (Copies(b, e)' <=> Copies(b, e)) /\ calls'[b] = calls[b]
      /\ \A e : Copies(a, e)' <=> call.at = "copy" /\ call.of = e
  BY CopiesThen
<1>2. \A e : ~Copies(a, e) /\ ~Copies(a, e)'
  BY <1>1 DEF Copies, At
<1>3. \A b \in Admins : \A e : Copies(b, e)' <=> Copies(b, e)
  BY <1>1, <1>2
<1>4. \A b \in Admins : \A e : Copies(b, e) => calls'[b] = calls[b]
  BY <1>1, <1>2
<1> QED BY <1>3, <1>4 DEF NamesIInv, NamesCopied

LEMMA ChangeKeeps == ASSUME NamesIInv, NEW a \in Admins, ChangeRewrite(a) PROVE NamesIInv'
<1>1. NameTypes /\ NameCallsFit /\ a \in Callers
  BY CallersAre DEF NamesIInv
<1>2. calls[a].at = "idle"
  BY DEF ChangeRewrite, At
<1>3. PICK call \in NameCall : call = [Idle EXCEPT !.at = "list"]
  BY IdleCall DEF NameCall
<1>4. call.at = "list"
  BY <1>3, IdleCall DEF NameCall
<1>5. calls' = [calls EXCEPT ![a] = call]
  BY <1>3 DEF ChangeRewrite, Calls
<1>6. /\ rewrites' \subseteq Rewrite
      /\ UNCHANGED <<client_names, wanted, lost, manual, cnode, index, rdns, crossing, overlapped, asking, ClientNodes,
                     resolvers, ptr, ptrAt, time>>
  BY <1>1 DEF ChangeRewrite, Calls, outside, enrich, Rewrite, NameTypes
<1>7. NameTypes'
  <2>1. calls' \in [Callers -> NameCall]
    BY <1>1, <1>3, <1>5 DEF NameTypes
  <2> QED BY <1>1, <1>6, <2>1 DEF NameTypes
<1>8. /\ \A b \in Callers \ {a} : (Follows(b)' <=> Follows(b)) /\ calls'[b] = calls[b]
      /\ Follows(a)' <=> call.at \in {"list", "build"}
      /\ calls'[a] = call
  BY <1>1, <1>5, CopiesThen
<1>9. NameCallsFit'
  BY <1>1, <1>4, <1>8 DEF NameCallsFit
<1>10. NamesStored'
  BY <1>6 DEF NamesIInv, NamesStored
<1>11. NamesCopied'
  BY <1>1, <1>2, <1>4, <1>5, <1>6, CopiedKept
<1>12. RowsListed' /\ IndexFollows'
  <2>1. Follows(a)'
    BY <1>4, <1>8
  <2>2. IndexFollows'
    BY <1>1, <2>1 DEF IndexFollows, Follows
  <2>3. ASSUME ~overlapped, NEW b \in Callers, At(b, "build")'
        PROVE  \E d \in Callers \ {b} : Follows(d)'
    <3>1. b # a
      BY <1>4, <1>8, <2>3 DEF At
    <3> QED BY <1>1, <2>1, <3>1
  <2> QED BY <1>6, <2>2, <2>3 DEF RowsListed
<1>13. Dated' /\ AnswersExpire'
  BY <1>6, DatedKept
<1> QED BY <1>7, <1>9, <1>10, <1>11, <1>12, <1>13 DEF NamesIInv

LEMMA BuildKeeps == ASSUME NamesIInv, NEW a \in Callers, RefreshRewrites(a) PROVE NamesIInv'
<1>1. NameTypes /\ NameCallsFit
  BY DEF NamesIInv
<1>2. calls[a].at = "build"
  BY DEF RefreshRewrites, At
<1>3. PICK call \in NameCall : call = Idle
  BY IdleCall
<1>4. call.at = "idle"
  BY <1>3, IdleCall
<1>5. calls' = [calls EXCEPT ![a] = call]
  BY <1>3 DEF RefreshRewrites, Calls
<1>6. PICK nodes \in {NodeNames, {}} :
        /\ index' = buildRewriteIndex(calls[a].rows, nodes)
        /\ overlapped' = (overlapped \/ nodes = {} \/ \E b \in Callers \ {a} : At(b, "build"))
  BY DEF RefreshRewrites
<1>7. UNCHANGED <<client_names, rewrites, wanted, lost, manual, cnode, rdns, crossing, asking, ClientNodes, resolvers, ptr,
                  ptrAt, time>>
  BY DEF RefreshRewrites, Calls, outside, tables
<1>8. NameTypes'
  <2>1. calls' \in [Callers -> NameCall]
    BY <1>1, <1>3, <1>5 DEF NameTypes
  <2>2. overlapped' \in BOOLEAN
    BY <1>6
  <2> QED BY <1>1, <1>7, <2>1, <2>2 DEF NameTypes
<1>9. /\ \A b \in Callers \ {a} : (Follows(b)' <=> Follows(b)) /\ calls'[b] = calls[b]
      /\ calls'[a] = call
  BY <1>5, CopiesThen
<1>10. NameCallsFit'
  BY <1>1, <1>4, <1>9 DEF NameCallsFit
<1>11. NamesStored'
  BY <1>7 DEF NamesIInv, NamesStored
<1>12. NamesCopied'
  BY <1>2, <1>4, <1>5, <1>7, CopiedKept
<1>13. RowsListed'
  <2> SUFFICES ASSUME ~overlapped', NEW b \in Callers, At(b, "build")'
               PROVE  FALSE
    BY DEF RowsListed
  <2>1. b # a
    BY <1>4, <1>9 DEF At
  <2>2. At(b, "build")
    BY <1>9, <2>1 DEF At
  <2> QED BY <1>6, <2>1, <2>2
<1>14. IndexFollows'
  <2> SUFFICES ASSUME ~overlapped', \A b \in Callers : ~Follows(b)'
               PROVE  index' = buildRewriteIndex(rewrites, NodeNames)
    BY <1>7 DEF IndexFollows, Follows, buildRewriteIndex
  <2>1. ~overlapped /\ nodes = NodeNames
    BY <1>6
  <2>2. calls[a].rows = rewrites
    BY <1>2, <1>9, <2>1 DEF NamesIInv, RowsListed, At
  <2> QED BY <1>6, <2>1, <2>2
<1>15. Dated' /\ AnswersExpire'
  BY <1>7, DatedKept
<1> QED BY <1>8, <1>10, <1>11, <1>12, <1>13, <1>14, <1>15 DEF NamesIInv

LEMMA FailsKeeps == ASSUME NamesIInv, NEW a \in Callers, CallFails(a) PROVE NamesIInv'
<1>1. NameTypes /\ NameCallsFit
  BY DEF NamesIInv
<1>2. calls[a].at \in {"save", "list"}
  BY DEF CallFails
<1>3. PICK call \in NameCall : call = Idle
  BY IdleCall
<1>4. call.at = "idle"
  BY <1>3, IdleCall
<1>5. calls' = [calls EXCEPT ![a] = call]
  BY <1>3 DEF CallFails, Calls
<1>6. /\ overlapped' = (overlapped \/ At(a, "list"))
      /\ UNCHANGED <<client_names, rewrites, wanted, lost, manual, cnode, index, rdns, crossing, asking, ClientNodes,
                     resolvers, ptr, ptrAt, time>>
  BY DEF CallFails, Calls, outside, tables
<1>7. NameTypes'
  <2>1. calls' \in [Callers -> NameCall]
    BY <1>1, <1>3, <1>5 DEF NameTypes
  <2>2. overlapped' \in BOOLEAN
    BY <1>6
  <2> QED BY <1>1, <1>6, <2>1, <2>2 DEF NameTypes
<1>8. /\ \A b \in Callers \ {a} : (Follows(b)' <=> Follows(b)) /\ calls'[b] = calls[b]
      /\ calls'[a] = call
  BY <1>5, CopiesThen
<1>9. NameCallsFit'
  BY <1>1, <1>4, <1>8 DEF NameCallsFit
<1>10. NamesStored'
  BY <1>6 DEF NamesIInv, NamesStored
<1>11. NamesCopied'
  BY <1>2, <1>4, <1>5, <1>6, CopiedKept
<1>12. ASSUME calls[a].at = "list" PROVE RowsListed' /\ IndexFollows'
  <2>1. overlapped'
    BY <1>6, <1>12 DEF At
  <2> QED BY <2>1 DEF RowsListed, IndexFollows
<1>13. ASSUME calls[a].at = "save" PROVE RowsListed' /\ IndexFollows'
  <2>1. (overlapped' <=> overlapped) /\ ~Follows(a)
    BY <1>6, <1>13 DEF At, Follows
  <2>2. overlapped' = overlapped
    BY <1>1, <1>7, <2>1 DEF NameTypes
  <2> QED BY <1>4, <1>5, <1>6, <2>1, <2>2, RowsKept
<1>14. RowsListed' /\ IndexFollows'
  BY <1>2, <1>12, <1>13
<1>15. Dated' /\ AnswersExpire'
  BY <1>6, DatedKept
<1> QED BY <1>7, <1>9, <1>10, <1>11, <1>14, <1>15 DEF NamesIInv

-----------------------------------------------------------------------------
(* Lookups, and what happens at the sites.                                 *)

\* Steps that leave the names, the rewrites and the calls alone.
LEMMA CallsStay ==
  ASSUME NamesIInv, UNCHANGED <<client_names, rewrites, wanted, lost, manual, index, crossing, overlapped, calls>>
  PROVE  NameCallsFit' /\ NamesStored' /\ NamesCopied' /\ RowsListed' /\ IndexFollows'
<1>1. NameCallsFit' /\ NamesStored'
  BY DEF NamesIInv, NameCallsFit, NamesStored
<1>2. NamesCopied'
  BY DEF NamesIInv, NamesCopied, Copies, At
<1>3. RowsListed' /\ IndexFollows'
  BY DEF NamesIInv, RowsListed, IndexFollows, Follows, At, buildRewriteIndex
<1> QED BY <1>1, <1>2, <1>3

LEMMA AskKeeps == ASSUME NamesIInv, NEW l \in Lookers, NEW c \in ClientIPs, Ask(l, c) PROVE NamesIInv'
<1>1. NameTypes
  BY DEF NamesIInv
<1>2. UNCHANGED <<client_names, rewrites, wanted, lost, manual, index, crossing, overlapped, calls, cnode, rdns, ClientNodes,
                  resolvers, ptr, ptrAt, time>>
  BY DEF Ask, Asks, tables, outside
<1>3. PICK site \in BOOLEAN : site = (resolverFor(c) = ClientNodes[c])
  OBVIOUS
<1>4. PICK e \in Question : e = [NotAsking EXCEPT !.of = c, !.site = site, !.since = time]
  BY <1>1, ClientNamesAssumption DEF NotAsking, Question, MaybeName, NameTypes
<1>5. e.of = c /\ ~e.got /\ e.since = time
  BY <1>4 DEF NotAsking
<1>6. asking' = [asking EXCEPT ![l] = e]
  BY <1>3, <1>4 DEF Ask, Asks
<1>7. asking' \in [Lookers -> Question] /\ asking'[l] = e /\ \A m \in Lookers \ {l} : asking'[m] = asking[m]
  BY <1>1, <1>6 DEF NameTypes
<1>8. NameTypes'
  BY <1>1, <1>2, <1>7 DEF NameTypes
<1>9. Dated /\ AnswersExpire /\ time \in Nat
  BY <1>1, ClientNamesAssumption DEF NamesIInv, NameTypes
<1>10. Dated'
  BY <1>2, <1>5, <1>7, <1>9 DEF Dated
<1>11. AnswersExpire'
  BY <1>2, <1>9 DEF AnswersExpire
<1> QED BY <1>2, <1>8, <1>10, <1>11, CallsStay DEF NamesIInv

LEMMA LookupKeeps == ASSUME NamesIInv, NEW l \in Lookers, LookupAddr(l) PROVE NamesIInv'
<1>1. NameTypes /\ Dated /\ AnswersExpire
  BY DEF NamesIInv
<1>2. UNCHANGED <<client_names, rewrites, wanted, lost, manual, index, crossing, overlapped, calls, cnode, rdns, ClientNodes,
                  resolvers, ptr, ptrAt, time>>
  BY DEF LookupAddr, Asks, tables, outside
<1>3. asking[l] \in Question /\ asking[l].of \in ClientIPs
  BY <1>1 DEF LookupAddr, NameTypes, Dated
<1>4. PICK name \in {IF asking[l].site THEN ptr[asking[l].of] ELSE Unnamed, Unnamed} :
        asking' = [asking EXCEPT ![l].got = TRUE, ![l].name = name]
  BY DEF LookupAddr, Asks
<1>5. name \in MaybeName /\ name \in {ptr[asking[l].of], Unnamed}
  BY <1>1, <1>3 DEF NameTypes, NameMap, MaybeName
<1>6. PICK e \in Question : e = [asking[l] EXCEPT !.got = TRUE, !.name = name]
  BY <1>3, <1>5 DEF Question
<1>7. e.of = asking[l].of /\ e.got /\ e.since = asking[l].since /\ e.name = name
  BY <1>3, <1>6 DEF Question
<1>8. asking' = [asking EXCEPT ![l] = e]
  BY <1>4, <1>6
<1>9. asking' \in [Lookers -> Question] /\ asking'[l] = e /\ \A m \in Lookers \ {l} : asking'[m] = asking[m]
  BY <1>1, <1>8 DEF NameTypes
<1>10. NameTypes'
  BY <1>1, <1>2, <1>9 DEF NameTypes
<1>11. Dated'
  BY <1>1, <1>2, <1>3, <1>5, <1>7, <1>9 DEF Dated
<1>12. AnswersExpire'
  BY <1>1, <1>2 DEF AnswersExpire
<1> QED BY <1>2, <1>10, <1>11, <1>12, CallsStay DEF NamesIInv

LEMMA ReverseKeeps == ASSUME NamesIInv, NEW l \in Lookers, reverseDNS(l) PROVE NamesIInv'
<1>1. NameTypes /\ Dated /\ AnswersExpire
  BY DEF NamesIInv
<1>2. UNCHANGED <<client_names, rewrites, wanted, lost, manual, index, crossing, overlapped, calls, cnode, ClientNodes,
                  resolvers, ptr, ptrAt, time>>
  BY DEF reverseDNS, Asks, tables, outside
<1>3. asking[l] \in Question /\ asking[l].got
  BY <1>1 DEF reverseDNS, NameTypes
<1>4. asking[l].of \in ClientIPs
  BY <1>1, <1>3 DEF Dated
<1>5. NotAsking \in Question
  BY ClientNamesAssumption DEF NotAsking, Question, MaybeName
<1>6. asking' \in [Lookers -> Question] /\ asking'[l] = NotAsking /\ \A m \in Lookers \ {l} : asking'[m] = asking[m]
  BY <1>1, <1>5 DEF reverseDNS, Asks, NameTypes
<1>7. time \in Nat /\ TTL \in Nat /\ TTL >= 1 /\ MaxTime \in Nat /\ asking[l].since \in Nat /\ asking[l].since <= time
      /\ time <= MaxTime
  BY <1>1, <1>3, ClientNamesAssumption DEF Dated, Question, NameTypes
<1>8. PICK x \in Nat : x = exp(l)
  BY <1>7 DEF exp
<1>9. x <= asking[l].since + TTL
  BY <1>7, <1>8 DEF exp
<1>10. x \in 0 .. MaxTime + TTL /\ x <= time + TTL
  BY <1>7, <1>8, <1>9
<1>11. PICK f \in FoundName : f = [name |-> asking[l].name, exp |-> x]
  BY <1>3, <1>10 DEF FoundName, Question
<1>12. PICK c \in ClientIPs : c = asking[l].of
  BY <1>4
<1>13. rdns' = [rdns EXCEPT ![c] = f]
  BY <1>8, <1>11, <1>12 DEF reverseDNS
<1>14. rdns' \in [ClientIPs -> FoundName] /\ rdns'[c] = f /\ \A d \in ClientIPs \ {c} : rdns'[d] = rdns[d]
  BY <1>1, <1>13 DEF NameTypes
<1>15. NameTypes'
  BY <1>1, <1>2, <1>6, <1>14 DEF NameTypes
<1>16. ~NotAsking.got /\ NotAsking.since = 0
  BY DEF NotAsking
<1>17. Dated'
  <2>1. \A d \in ClientIPs : rdns'[d].exp <= time' + TTL
    BY <1>1, <1>2, <1>10, <1>11, <1>14 DEF Dated
  <2>2. \A m \in Lookers : asking'[m].since <= time'
    BY <1>1, <1>2, <1>6, <1>7, <1>16 DEF Dated
  <2> QED BY <1>1, <1>2, <1>6, <1>16, <2>1, <2>2 DEF Dated
<1>18. AnswersExpire'
  <2>1. f.name \notin {Unnamed, ptr[c]} => f.exp <= ptrAt[c] + TTL
    <3> SUFFICES ASSUME f.name \notin {Unnamed, ptr[c]} PROVE f.exp <= ptrAt[c] + TTL
      OBVIOUS
    <3>1. asking[l].since <= ptrAt[c]
      BY <1>1, <1>3, <1>11, <1>12 DEF Dated
    <3>2. ptrAt[c] \in Nat
      BY <1>1, <1>7 DEF NameTypes
    <3> QED BY <1>7, <1>9, <1>11, <3>1, <3>2
  <2> QED BY <1>1, <1>2, <1>14, <2>1 DEF AnswersExpire
<1> QED BY <1>2, <1>15, <1>17, <1>18, CallsStay DEF NamesIInv

LEMMA PassesKeeps == ASSUME NamesIInv, Passes PROVE NamesIInv'
<1>1. NameTypes /\ Dated /\ AnswersExpire
  BY DEF NamesIInv
<1>2. /\ UNCHANGED <<client_names, rewrites, wanted, lost, manual, index, rdns, crossing, overlapped, calls, cnode, asking,
                     ClientNodes, resolvers, ptr, ptrAt>>
      /\ time < MaxTime /\ time' = time + 1
  BY DEF Passes, Elsewhere, tables, enrich
<1>3. time \in Nat /\ TTL \in Nat /\ MaxTime \in Nat
  BY <1>1, ClientNamesAssumption DEF NameTypes
<1>4. NameTypes'
  BY <1>1, <1>2, <1>3 DEF NameTypes
<1>5. Dated'
  <2>1. \A c \in ClientIPs : rdns[c].exp \in Nat
    BY <1>1, <1>3 DEF NameTypes, FoundName
  <2>2. \A l \in Lookers : asking[l].since \in Nat
    BY <1>1, <1>3 DEF NameTypes, Question
  <2>3. \A c \in ClientIPs : rdns'[c].exp <= time' + TTL
    BY <1>1, <1>2, <1>3, <2>1 DEF Dated
  <2>4. \A l \in Lookers : asking'[l].since <= time'
    BY <1>1, <1>2, <1>3, <2>2 DEF Dated
  <2> QED BY <1>1, <1>2, <2>3, <2>4 DEF Dated
<1>6. AnswersExpire'
  BY <1>1, <1>2 DEF AnswersExpire
<1> QED BY <1>2, <1>4, <1>5, <1>6, CallsStay DEF NamesIInv

LEMMA RenamesKeeps == ASSUME NamesIInv, Renames PROVE NamesIInv'
<1>1. NameTypes /\ Dated /\ AnswersExpire
  BY DEF NamesIInv
<1>2. UNCHANGED <<client_names, rewrites, wanted, lost, manual, index, rdns, crossing, overlapped, calls, cnode, asking,
                  ClientNodes, resolvers, time>>
  BY DEF Renames, Elsewhere, tables, enrich
<1>3. PICK c \in ClientIPs, n \in MaybeName : ptr' = [ptr EXCEPT ![c] = n] /\ ptrAt' = [ptrAt EXCEPT ![c] = time]
  BY DEF Renames
<1>4. ptr' \in NameMap /\ ptrAt' \in [ClientIPs -> 0 .. MaxTime] /\ ptrAt'[c] = time
      /\ \A d \in ClientIPs \ {c} : ptr'[d] = ptr[d] /\ ptrAt'[d] = ptrAt[d]
  BY <1>1, <1>3 DEF NameTypes, NameMap
<1>5. NameTypes'
  BY <1>1, <1>2, <1>4 DEF NameTypes
<1>6. Dated'
  <2>1. \A l \in Lookers : asking[l].got /\ asking[l].name \notin {Unnamed, ptr'[asking[l].of]}
          => asking[l].since <= ptrAt'[asking[l].of]
    BY <1>1, <1>4 DEF Dated
  <2> QED BY <1>1, <1>2, <2>1 DEF Dated
<1>7. AnswersExpire'
  BY <1>1, <1>2, <1>4 DEF AnswersExpire, Dated
<1> QED BY <1>2, <1>5, <1>6, <1>7, CallsStay DEF NamesIInv

LEMMA SiteChanges == ASSUME NamesIInv, Moves \/ putReverseDNS PROVE NamesIInv'
<1>1. NameTypes
  BY DEF NamesIInv
<1>2. UNCHANGED <<client_names, rewrites, wanted, lost, manual, index, rdns, crossing, overlapped, calls, cnode, asking,
                  ptr, ptrAt, time>>
  BY DEF Moves, putReverseDNS, Elsewhere, tables, enrich
<1>3. ClientNodes' \in [ClientIPs -> NodeNames] /\ resolvers' \subseteq NodeNames \cup {Master}
  BY <1>1 DEF Moves, putReverseDNS, NameTypes
<1>4. NameTypes'
  BY <1>1, <1>2, <1>3 DEF NameTypes
<1>5. Dated' /\ AnswersExpire'
  BY <1>2, DatedKept
<1> QED BY <1>2, <1>4, <1>5, CallsStay DEF NamesIInv

LEMMA NamesNext == NamesIInv /\ [NmNext]_nmVars => NamesIInv'
<1> SUFFICES ASSUME NamesIInv, [NmNext]_nmVars PROVE NamesIInv'
  OBVIOUS
<1>1. ASSUME NEW a \in Admins, putClientName(a) \/ ChangeRewrite(a) PROVE NamesIInv'
  BY <1>1, LoadKeeps, SaveKeeps, SetKeeps, ChangeKeeps DEF putClientName
<1>2. CASE Refreshes \/ refresh
  BY <1>2, RefreshesKeeps, RefreshKeeps
<1>3. ASSUME NEW a \in Callers, ListRewrites(a) \/ RefreshRewrites(a) \/ CallFails(a) PROVE NamesIInv'
  BY <1>3, ListKeeps, BuildKeeps, FailsKeeps
<1>4. ASSUME NEW l \in Lookers, LookupAddr(l) \/ reverseDNS(l) \/ resolveClients(l) PROVE NamesIInv'
  BY <1>4, LookupKeeps, ReverseKeeps, AskKeeps DEF resolveClients
<1>5. CASE Passes \/ Renames \/ Moves \/ putReverseDNS
  BY <1>5, PassesKeeps, RenamesKeeps, SiteChanges
<1>6. CASE UNCHANGED nmVars
  <2>1. UNCHANGED <<client_names, rewrites, wanted, lost, manual, index, rdns, crossing, overlapped, calls, cnode, asking,
                    ClientNodes, resolvers, ptr, ptrAt, time>>
    BY <1>6 DEF nmVars, tables, enrich, outside
  <2>2. NameTypes'
    BY <2>1 DEF NamesIInv, NameTypes
  <2>3. Dated' /\ AnswersExpire'
    BY <2>1, DatedKept
  <2> QED BY <2>1, <2>2, <2>3, CallsStay DEF NamesIInv
<1> QED BY <1>1, <1>2, <1>3, <1>4, <1>5, <1>6 DEF NmNext

\* What clients are called, whatever saves, refreshes, lookups and moves overlap
\* (internal/clientname, internal/api/clients.go): what was saved last is stored
\* and shown unless saves raced or a read failed, the index is that of the
\* rewrites unless rebuilds overlapped or failed, and no lookup, however late it
\* is stored, keeps a name longer than its TTL after the name changed.
THEOREM NamesHold == NmSpec => []NamesInv
<1>1. NmInit => NamesIInv
  BY NamesStart
<1>2. NamesIInv => NamesInv
  BY NamesIInvSuffices
<1> QED BY <1>1, <1>2, NamesNext, PTL DEF NmSpec

-----------------------------------------------------------------------------
-----------------------------------------------------------------------------
(* The privacy of the log: days, keys and counts.                          *)

Pseudonyms == [day : Nat, key : Nat, of : Clients]
Whoever    == Clients \cup {NoClient} \cup Pseudonyms
Shown      == Names \cup {Registered, Hidden}
DayCounts  == [at : BOOLEAN, names : SUBSET ((Names \cup {Registered}) \X Pseudonyms), regs : SUBSET Pseudonyms]
Trackers   == [k : Nat, days : [Days -> DayCounts]]
Memories   == {m \in [keys : [Days -> Nat], made : Nat, renewed : SUBSET Days, tracker : Trackers] :
                 \A d \in Days : m.keys[d] <= m.made}
Rows       == [ts : 0 .. MaxNow, id : Nat, name : Shown, client : Whoever, slipped : BOOLEAN, left : BOOLEAN]
Entries    == [ts : 0 .. MaxNow, id : Nat, name : Shown, client : Whoever, met : Policies]
Sums       == [ts : 0 .. MaxNow, client : Clients \cup Pseudonyms, slipped : BOOLEAN, left : BOOLEAN]

\* The ticks of a run fall on its days.
LEMMA DayIsADay ==
  ASSUME NEW ts \in 0 .. MaxNow
  PROVE  Day(ts) \in Days /\ Day(ts) \in Nat
<1>1. DayLen \in Nat \ {0} /\ MaxNow \in Nat
  BY PrivacyAssumption
<1>2. ts \div DayLen \in Nat /\ MaxNow \div DayLen \in Nat /\ ts \div DayLen <= MaxNow \div DayLen
  BY <1>1, SMT
<1> QED BY <1>2 DEF Day, Days

\* A client is an address, nobody, or a pseudonym, and one of these only.
LEMMA PseudonymsAreNoClients ==
  /\ \A c \in Whoever : IsPseudonym(c) <=> c \in Pseudonyms
  /\ \A c \in Clients \cup {NoClient} : c \notin Pseudonyms
BY PrivacyAssumption DEF IsPseudonym, Whoever, Pseudonyms

\* The keys that were there stay.
KeysStay(m, n) ==
  /\ n.renewed = m.renewed /\ m.made <= n.made
  /\ \A d \in Days : m.keys[d] # 0 => n.keys[d] = m.keys[d]

\* A day whose key is asked for has one, and the others keep theirs.
LEMMA KeyGrows ==
  ASSUME NEW m \in Memories, NEW d \in Days
  PROVE  /\ key(m, d) \in Memories /\ KeysStay(m, key(m, d)) /\ key(m, d).keys[d] # 0
         /\ key(m, d).tracker = m.tracker
<1>1. m.made \in Nat /\ m.keys \in [Days -> Nat] /\ \A x \in Days : m.keys[x] <= m.made
  BY DEF Memories
<1>2. CASE m.keys[d] # 0
  BY <1>1, <1>2 DEF key, KeysStay
<1>3. CASE m.keys[d] = 0
  <2>1. key(m, d) = [m EXCEPT !.keys = [m.keys EXCEPT ![d] = m.made + 1], !.made = m.made + 1]
    BY <1>3 DEF key, Memories
  <2> DEFINE ks == [m.keys EXCEPT ![d] = m.made + 1]
  <2>2. /\ key(m, d).keys = ks /\ key(m, d).made = m.made + 1
        /\ key(m, d).renewed = m.renewed /\ key(m, d).tracker = m.tracker
        /\ key(m, d) \in [keys : [Days -> Nat], made : Nat, renewed : SUBSET Days, tracker : Trackers]
    <3>1. ks \in [Days -> Nat] /\ m.made + 1 \in Nat
      BY <1>1
    <3>2. key(m, d) = [m EXCEPT !.keys = ks, !.made = m.made + 1]
      BY <2>1
    <3> HIDE DEF ks
    <3> QED BY <3>1, <3>2 DEF Memories
  <2>3. /\ \A x \in Days : ks[x] <= m.made + 1
        /\ \A x \in Days : m.keys[x] # 0 => ks[x] = m.keys[x]
        /\ ks[d] # 0
    BY <1>1, <1>3
  <2> QED BY <2>2, <2>3, <1>1 DEF Memories, KeysStay
<1> QED BY <1>2, <1>3

\* So for several days at once.
LEMMA KeysForGrow ==
  ASSUME NEW m \in Memories, NEW D \in SUBSET Days
  PROVE  /\ keysFor(m, D) \in Memories /\ KeysStay(m, keysFor(m, D)) /\ \A d \in D : keysFor(m, D).keys[d] # 0
         /\ keysFor(m, D).tracker = m.tracker
<1> DEFINE fresh == {d \in D : m.keys[d] = 0}
           upto(d) == {x \in fresh : x <= d}
           ks == [d \in Days |-> IF d \in fresh THEN m.made + Cardinality(upto(d)) ELSE m.keys[d]]
<1>1. m.made \in Nat /\ m.keys \in [Days -> Nat] /\ (\A x \in Days : m.keys[x] <= m.made) /\ m.renewed \subseteq Days
      /\ m.tracker \in Trackers
  BY DEF Memories
<1>2. IsFiniteSet(Days) /\ Days \subseteq Nat
  <2>1. Day(MaxNow) \in Nat /\ 0 \in Int
    BY DayIsADay, PrivacyAssumption
  <2> QED BY <2>1, FS_Interval DEF Days
<1>3. IsFiniteSet(fresh) /\ Cardinality(fresh) \in Nat
  BY <1>2, FS_Subset, FS_CardinalityType
<1>4. \A d \in fresh : Cardinality(upto(d)) \in Nat /\ 0 < Cardinality(upto(d)) /\ Cardinality(upto(d)) <= Cardinality(fresh)
  <2> TAKE d \in fresh
  <2>1. upto(d) \in SUBSET fresh /\ d \in upto(d)
    BY <1>2
  <2>2. IsFiniteSet(upto(d)) /\ Cardinality(upto(d)) <= Cardinality(fresh) /\ Cardinality(upto(d)) \in Nat
    BY <2>1, <1>3, FS_Subset, FS_CardinalityType
  <2>3. Cardinality(upto(d)) # 0
    BY <2>1, <2>2, FS_EmptySet
  <2> QED BY <2>2, <2>3
<1>5. keysFor(m, D) = [m EXCEPT !.keys = ks, !.made = @ + Cardinality(fresh)]
  BY <1>1 DEF keysFor, Memories
<1>6. /\ keysFor(m, D).keys = ks /\ keysFor(m, D).made = m.made + Cardinality(fresh)
      /\ keysFor(m, D).renewed = m.renewed /\ keysFor(m, D).tracker = m.tracker
      /\ keysFor(m, D) = [keys |-> ks, made |-> m.made + Cardinality(fresh), renewed |-> m.renewed, tracker |-> m.tracker]
  BY <1>5 DEF Memories
<1> HIDE DEF upto
<1>7. /\ ks \in [Days -> Nat] /\ \A x \in Days : ks[x] <= m.made + Cardinality(fresh)
      /\ \A x \in Days : m.keys[x] # 0 => ks[x] = m.keys[x]
      /\ \A x \in D : ks[x] # 0
  BY <1>1, <1>3, <1>4
<1> HIDE DEF ks, fresh
<1>8. m.made + Cardinality(fresh) \in Nat /\ m.made <= m.made + Cardinality(fresh)
  BY <1>1, <1>3
<1> QED BY <1>1, <1>6, <1>7, <1>8 DEF Memories, KeysStay

\* Counting a day changes nothing but its counts.
LEMMA CountsSetTheDay ==
  ASSUME NEW m \in Memories, NEW d \in Days, NEW c \in DayCounts
  PROVE  /\ counts(m, d, c) \in Memories /\ KeysStay(m, counts(m, d, c))
         /\ counts(m, d, c).keys = m.keys /\ counts(m, d, c).tracker.k = m.tracker.k
         /\ counts(m, d, c).tracker.days = [m.tracker.days EXCEPT ![d] = c]
<1> DEFINE ds == [m.tracker.days EXCEPT ![d] = c]
           tr == [m.tracker EXCEPT !.days = ds]
<1>1. m.tracker \in Trackers /\ m.made \in Nat /\ m.keys \in [Days -> Nat] /\ \A x \in Days : m.keys[x] <= m.made
  BY DEF Memories
<1>2. ds \in [Days -> DayCounts]
  BY <1>1 DEF Trackers
<1>3. counts(m, d, c) = [m EXCEPT !.tracker = tr]
  BY DEF counts
<1> HIDE DEF ds
<1>4. tr \in Trackers /\ tr.days = ds /\ tr.k = m.tracker.k
  BY <1>1, <1>2 DEF Trackers
<1> HIDE DEF tr
<1>5. counts(m, d, c) = [keys |-> m.keys, made |-> m.made, renewed |-> m.renewed, tracker |-> tr]
  BY <1>3 DEF Memories
<1>6. counts(m, d, c) \in Memories
  BY <1>1, <1>4, <1>5 DEF Memories
<1> QED BY <1>1, <1>4, <1>5, <1>6 DEF KeysStay, ds

\* KeysStay is reflexive,
LEMMA KeysStayRefl ==
  ASSUME NEW m \in Memories
  PROVE  KeysStay(m, m)
BY DEF KeysStay, Memories

\* and transitive.
LEMMA KeysStayTrans ==
  ASSUME NEW m \in Memories, NEW n \in Memories, NEW o \in Memories, KeysStay(m, n), KeysStay(n, o)
  PROVE  KeysStay(m, o)
<1>1. m.made \in Nat /\ n.made \in Nat /\ o.made \in Nat
  BY DEF Memories
<1> QED BY <1>1 DEF KeysStay

-----------------------------------------------------------------------------
(* What is counted has been asked for.                                     *)

Who(c) == IF IsPseudonym(c) THEN c.of ELSE c

\* A pseudonym is under the key of its day, unless that was made again.
Keyed(c, m) ==
  c \in Pseudonyms => c.day \in Days /\ (c.day \notin m.renewed => c.key = m.keys[c.day] /\ c.key # 0)

\* A row's client asked for its name on its day.
Honest(r, A) ==
  r.name \in Names /\ r.client # NoClient =>
    <<r.name, Who(r.client), Day(r.ts)>> \in A /\ (r.client \in Pseudonyms => r.client.day = Day(r.ts))

\* And so did every device counted, one for each client.
CountedAsked(p, d, m, A) ==
  p[1] \in Names => p[2].day = d /\ m.keys[d] # 0 /\ p[2].key = m.keys[d] /\ <<p[1], p[2].of, d>> \in A
TrueCounts(m, A) ==
  m.renewed = {} => \A d \in Days : \A p \in m.tracker.days[d].names : CountedAsked(p, d, m, A)

\* The log, as the counts are taken from it.
Readable(m, A) == log \subseteq Rows /\ \A r \in log : Keyed(r.client, m) /\ Honest(r, A)

\* What is kept while keys are only added: pseudonyms are under their keys,
LEMMA KeyedStays ==
  ASSUME NEW m \in Memories, NEW n \in Memories, KeysStay(m, n), NEW c, Keyed(c, m)
  PROVE  Keyed(c, n)
BY DEF Keyed, KeysStay

\* the log can be counted,
LEMMA ReadableStays ==
  ASSUME NEW m \in Memories, NEW n \in Memories, KeysStay(m, n), NEW A, Readable(m, A)
  PROVE  Readable(n, A)
BY KeyedStays DEF Readable

\* and the counts are true.
LEMMA CountsStayTrue ==
  ASSUME NEW m \in Memories, NEW n \in Memories, KeysStay(m, n), n.tracker = m.tracker, NEW A, TrueCounts(m, A)
  PROVE  TrueCounts(n, A)
BY DEF TrueCounts, CountedAsked, KeysStay

\* The pseudonym of a client on a day that has its key.
LEMMA PseudonymIsKeyed ==
  ASSUME NEW m \in Memories, NEW d \in Days, m.keys[d] # 0, NEW c \in Clients
  PROVE  /\ Pseudonym(m, c, d) \in Pseudonyms /\ Keyed(Pseudonym(m, c, d), m)
         /\ Pseudonym(m, c, d).of = c /\ Pseudonym(m, c, d).day = d /\ Pseudonym(m, c, d).key = m.keys[d]
<1>1. Pseudonym(m, c, d) = [day |-> d, key |-> m.keys[d], of |-> c]
  BY DEF Pseudonym, key
<1>2. d \in Nat /\ m.keys[d] \in Nat
  BY DayIsADay, PrivacyAssumption DEF Days, Memories
<1> QED BY <1>1, <1>2 DEF Pseudonyms, Keyed

\* The device of one who asked is counted as theirs.
LEMMA DeviceIsTheirs ==
  ASSUME NEW m \in Memories, NEW d \in Days, NEW c \in Clients \cup Pseudonyms, c \in Clients => m.keys[d] # 0,
         c \in Pseudonyms => c.day = d, Keyed(c, m)
  PROVE  /\ Device(m, c, d) \in Pseudonyms /\ Device(m, c, d).of = Who(c) /\ Device(m, c, d).day = d
         /\ m.renewed = {} => m.keys[d] # 0 /\ Device(m, c, d).key = m.keys[d]
<1>1. CASE c \in Clients
  <2>1. ~IsPseudonym(c)
    BY <1>1 DEF IsPseudonym
  <2> QED BY <1>1, <2>1, PseudonymIsKeyed DEF Device, Who
<1>2. CASE c \in Pseudonyms
  <2>1. IsPseudonym(c)
    BY <1>2, PseudonymsAreNoClients DEF IsPseudonym
  <2> QED BY <1>2, <2>1 DEF Device, Who, Keyed
<1> QED BY <1>1, <1>2

\* Another threshold drops the counts and leaves the keys.
LEMMA SetKKeeps ==
  ASSUME NEW m \in Memories, NEW k \in Nat
  PROVE  /\ setK(m, k) \in Memories /\ KeysStay(m, setK(m, k)) /\ setK(m, k).tracker.k = k
         /\ setK(m, k).keys = m.keys
         /\ \A A : TrueCounts(m, A) => TrueCounts(setK(m, k), A)
<1>1. CASE m.tracker.k = k
  BY <1>1 DEF setK, KeysStay, Memories
<1>2. CASE m.tracker.k # k
  <2>1. NoCounts(k) \in Trackers /\ NoCounts(k).k = k /\ \A d \in Days : NoCounts(k).days[d].names = {}
    BY DEF NoCounts, Uncounted, Trackers, DayCounts
  <2>2. setK(m, k) = [m EXCEPT !.tracker = NoCounts(k)]
    BY <1>2 DEF setK
  <2>3. /\ setK(m, k) \in Memories /\ setK(m, k).keys = m.keys /\ setK(m, k).made = m.made
        /\ setK(m, k).renewed = m.renewed /\ setK(m, k).tracker = NoCounts(k)
    BY <2>1, <2>2 DEF Memories
  <2> QED BY <2>1, <2>3 DEF KeysStay, TrueCounts, Memories
<1> QED BY <1>1, <1>2

\* A day is counted from the log as those who asked.
LEMMA DayIsCounted ==
  ASSUME NEW m \in Memories, NEW d \in Days, NEW A, Readable(m, A)
  PROVE  /\ day(m, d) \in Memories /\ KeysStay(m, day(m, d)) /\ day(m, d).tracker.k = m.tracker.k
         /\ TrueCounts(m, A) => TrueCounts(day(m, d), A)
<1>1. CASE m.tracker.days[d].at
  BY <1>1 DEF day, KeysStay, Memories
<1>2. CASE ~m.tracker.days[d].at
  <2> DEFINE pairs == QueryLogDayPairs(d)
             raw   == \E r \in pairs : ~IsPseudonym(r.client)
  <2>1. PICK w : w = IF raw THEN key(m, d) ELSE m
    OBVIOUS
  <2>2. w \in Memories /\ KeysStay(m, w) /\ w.tracker = m.tracker
    BY <2>1, KeyGrows DEF KeysStay, Memories
  <2>3. Readable(w, A)
    BY <2>2, ReadableStays
  <2>4. \A r \in pairs : /\ r \in Rows /\ r \in log /\ Day(r.ts) = d /\ r.client \in Clients \cup Pseudonyms
                         /\ r.name \in Names \cup {Registered} /\ (r.client \in Clients => w.keys[d] # 0)
    <3> TAKE r \in pairs
    <3>1. r \in log /\ r \in Rows /\ Day(r.ts) = d /\ r.name # Hidden /\ r.client # NoClient
      BY DEF QueryLogDayPairs, Readable
    <3>2. r.client \in Clients \cup Pseudonyms /\ r.name \in Names \cup {Registered}
      BY <3>1 DEF Rows, Whoever, Shown
    <3>3. ASSUME r.client \in Clients PROVE w.keys[d] # 0
      <4>1. raw
        BY <3>3 DEF IsPseudonym
      <4> QED BY <4>1, <2>1, KeyGrows
    <3> QED BY <3>1, <3>2, <3>3
  <2>5. \A r \in pairs : Device(w, r.client, d) \in Pseudonyms
    <3> TAKE r \in pairs
    <3>1. CASE r.client \in Clients
      <4>1. ~IsPseudonym(r.client) /\ w.keys[d] # 0
        BY <3>1, <2>4 DEF IsPseudonym
      <4> QED BY <3>1, <4>1, <2>2, PseudonymIsKeyed DEF Device
    <3>2. CASE r.client \in Pseudonyms
      <4>1. IsPseudonym(r.client)
        BY <3>2, PseudonymsAreNoClients DEF IsPseudonym
      <4> QED BY <3>2, <4>1 DEF Device
    <3> QED BY <3>1, <3>2, <2>4
  <2> DEFINE c == [at |-> TRUE, names |-> {<<r.name, Device(w, r.client, d)>> : r \in pairs},
                   regs |-> {Device(w, r.client, d) : r \in pairs}]
  <2>6. c \in DayCounts
    <3>1. {<<r.name, Device(w, r.client, d)>> : r \in pairs} \subseteq (Names \cup {Registered}) \X Pseudonyms
      BY <2>4, <2>5
    <3>2. {Device(w, r.client, d) : r \in pairs} \subseteq Pseudonyms
      BY <2>5
    <3> QED BY <3>1, <3>2 DEF DayCounts
  <2>7. day(m, d) = counts(w, d, c)
    BY <1>2, <2>1 DEF day
  <2>8. /\ day(m, d) \in Memories /\ KeysStay(w, day(m, d)) /\ day(m, d).keys = w.keys
        /\ day(m, d).tracker.k = w.tracker.k /\ day(m, d).tracker.days = [w.tracker.days EXCEPT ![d] = c]
    <3> HIDE DEF c
    <3> QED BY <2>2, <2>6, <2>7, CountsSetTheDay
  <2>9. KeysStay(m, day(m, d))
    BY <2>2, <2>8, KeysStayTrans
  <2>10. ASSUME TrueCounts(m, A) PROVE TrueCounts(day(m, d), A)
    <3> SUFFICES ASSUME day(m, d).renewed = {}, NEW x \in Days, NEW p \in day(m, d).tracker.days[x].names
                 PROVE  CountedAsked(p, x, day(m, d), A)
      BY DEF TrueCounts
    <3>1. w.renewed = {} /\ TrueCounts(w, A)
      BY <2>2, <2>8, <2>10, CountsStayTrue DEF KeysStay
    <3>2. w.tracker.days \in [Days -> DayCounts]
      BY <2>2 DEF Memories, Trackers
    <3>3. CASE x # d
      <4>1. p \in w.tracker.days[x].names
        BY <2>8, <3>2, <3>3
      <4> QED BY <3>1, <4>1, <2>8 DEF TrueCounts, CountedAsked
    <3>4. CASE x = d
      <4>1. p \in c.names
        BY <2>8, <3>2, <3>4
      <4>2. PICK r \in pairs : p = <<r.name, Device(w, r.client, d)>>
        BY <4>1
      <4>3. /\ p[1] = r.name /\ p[2] = Device(w, r.client, d) /\ r \in log /\ Day(r.ts) = d
            /\ r.client \in Clients \cup Pseudonyms /\ r.client # NoClient /\ (r.client \in Clients => w.keys[d] # 0)
        BY <4>2, <2>4 DEF QueryLogDayPairs
      <4> SUFFICES ASSUME r.name \in Names
                   PROVE  p[2].day = d /\ w.keys[d] # 0 /\ p[2].key = w.keys[d] /\ <<p[1], p[2].of, d>> \in A
        BY <2>8, <3>4, <4>3 DEF CountedAsked
      <4>4. Keyed(r.client, w) /\ <<r.name, Who(r.client), d>> \in A /\ (r.client \in Pseudonyms => r.client.day = d)
        BY <2>3, <4>3 DEF Readable, Honest
      <4> QED BY <3>1, <4>3, <4>4, <2>2, DeviceIsTheirs
    <3> QED BY <3>3, <3>4
  <2> QED BY <2>2, <2>8, <2>9, <2>10
<1> QED BY <1>1, <1>2

\* And with it the day before.
LEMMA CountedIsTrue ==
  ASSUME NEW m \in Memories, NEW d \in Days, NEW k \in Nat, NEW A, Readable(m, A)
  PROVE  /\ Counted(m, d, k) \in Memories /\ KeysStay(m, Counted(m, d, k)) /\ Counted(m, d, k).tracker.k = k
         /\ TrueCounts(m, A) => TrueCounts(Counted(m, d, k), A)
<1>1. PICK o : o = setK(m, k)
  OBVIOUS
<1>2. /\ o \in Memories /\ KeysStay(m, o) /\ o.tracker.k = k /\ (TrueCounts(m, A) => TrueCounts(o, A))
  BY <1>1, SetKKeeps
<1>3. Readable(o, A)
  BY <1>2, ReadableStays
<1>4. PICK t : t = day(o, d)
  OBVIOUS
<1>5. /\ t \in Memories /\ KeysStay(o, t) /\ t.tracker.k = k
      /\ TrueCounts(o, A) => TrueCounts(t, A)
  BY <1>2, <1>3, <1>4, DayIsCounted
<1>6. KeysStay(m, t) /\ Readable(t, A)
  BY <1>2, <1>3, <1>5, KeysStayTrans, ReadableStays
<1>7. CASE d = 0
  <2>1. Counted(m, d, k) = t
    BY <1>1, <1>4, <1>7 DEF Counted
  <2> QED BY <1>2, <1>5, <1>6, <2>1
<1>8. CASE d # 0
  <2>1. Counted(m, d, k) = day(t, d - 1)
    BY <1>1, <1>4, <1>8 DEF Counted
  <2>2. d - 1 \in Days
    BY <1>8, DayIsADay, PrivacyAssumption DEF Days
  <2>3. /\ day(t, d - 1) \in Memories /\ KeysStay(t, day(t, d - 1)) /\ day(t, d - 1).tracker.k = k
        /\ TrueCounts(t, A) => TrueCounts(day(t, d - 1), A)
    BY <1>5, <1>6, <2>2, DayIsCounted
  <2>4. KeysStay(m, day(t, d - 1))
    BY <1>5, <1>6, <2>3, KeysStayTrans
  <2> QED BY <1>2, <1>5, <2>1, <2>3, <2>4
<1> QED BY <1>7, <1>8

\* A query that arrives is counted as its client's.
LEMMA ObserveIsTrue ==
  ASSUME NEW m \in Memories, NEW e, e.name \in Names, e.client \in Clients, e.ts \in 0 .. MaxNow, NEW k \in Nat,
         NEW A, Readable(m, A), <<e.name, e.client, Day(e.ts)>> \in A
  PROVE  /\ observe(m, e, k) \in Memories /\ KeysStay(m, observe(m, e, k))
         /\ TrueCounts(m, A) => TrueCounts(observe(m, e, k), A)
<1>1. PICK d : d = Day(e.ts)
  OBVIOUS
<1>2. d \in Days
  BY <1>1, DayIsADay
<1>3. PICK w : w = key(m, d)
  OBVIOUS
<1>4. /\ w \in Memories /\ KeysStay(m, w) /\ w.keys[d] # 0 /\ w.tracker = m.tracker
      /\ Readable(w, A) /\ (TrueCounts(m, A) => TrueCounts(w, A))
  BY <1>2, <1>3, KeyGrows, ReadableStays, CountsStayTrue
<1>5. PICK o : o = setK(w, k)
  OBVIOUS
<1>6. /\ o \in Memories /\ KeysStay(w, o) /\ Readable(o, A) /\ (TrueCounts(w, A) => TrueCounts(o, A))
  BY <1>4, <1>5, SetKKeeps, ReadableStays
<1>7. PICK h : h = day(o, d)
  OBVIOUS
<1>8. /\ h \in Memories /\ KeysStay(o, h) /\ (TrueCounts(o, A) => TrueCounts(h, A))
  BY <1>2, <1>6, <1>7, DayIsCounted
<1>9. KeysStay(w, h) /\ KeysStay(m, h)
  BY <1>4, <1>6, <1>8, KeysStayTrans
<1>10. h.keys[d] # 0
  BY <1>2, <1>4, <1>9 DEF KeysStay
<1>11. PICK v : v = Device(h, e.client, d)
  OBVIOUS
<1>12. v \in Pseudonyms /\ v.of = e.client /\ v.day = d /\ v.key = h.keys[d]
  <2>1. ~IsPseudonym(e.client)
    BY DEF IsPseudonym
  <2> QED BY <1>2, <1>8, <1>10, <1>11, <2>1, PseudonymIsKeyed DEF Device
<1>13. PICK b : b = h.tracker.days[d]
  OBVIOUS
<1>14. b \in DayCounts
  BY <1>2, <1>8, <1>13 DEF Memories, Trackers
<1>15. PICK c : c = count(b, e.name, v)
  OBVIOUS
<1>16. c \in DayCounts /\ c.names = b.names \cup {<<e.name, v>>}
  <2>1. b.names \cup {<<e.name, v>>} \subseteq (Names \cup {Registered}) \X Pseudonyms /\ b.regs \cup {v} \subseteq Pseudonyms
    BY <1>12, <1>14 DEF DayCounts
  <2> QED BY <1>14, <1>15, <2>1 DEF count, DayCounts
<1>17. observe(m, e, k) = counts(h, d, c)
  <2>1. e.name # Hidden /\ e.client # NoClient /\ ~IsPseudonym(e.client)
    BY PrivacyAssumption DEF IsPseudonym
  <2> QED BY <2>1, <1>1, <1>3, <1>5, <1>7, <1>11, <1>13, <1>15 DEF observe
<1>18. PICK z : z = counts(h, d, c)
  OBVIOUS
<1>19. z \in Memories /\ KeysStay(h, z) /\ z.keys = h.keys /\ z.tracker.days = [h.tracker.days EXCEPT ![d] = c]
  BY <1>2, <1>8, <1>16, <1>18, CountsSetTheDay
<1>20. KeysStay(m, z)
  BY <1>8, <1>9, <1>19, KeysStayTrans
<1>21. ASSUME TrueCounts(m, A) PROVE TrueCounts(z, A)
  <2> SUFFICES ASSUME z.renewed = {}, NEW x \in Days, NEW p \in z.tracker.days[x].names PROVE CountedAsked(p, x, z, A)
    BY DEF TrueCounts
  <2>1. h.renewed = {} /\ TrueCounts(h, A)
    BY <1>4, <1>6, <1>8, <1>19, <1>21 DEF KeysStay
  <2>2. h.tracker.days \in [Days -> DayCounts]
    BY <1>8 DEF Memories, Trackers
  <2>3. CASE p \in h.tracker.days[x].names
    BY <2>1, <2>3, <1>19 DEF TrueCounts, CountedAsked
  <2>4. CASE p \notin h.tracker.days[x].names
    <3>1. x = d /\ p = <<e.name, v>>
      BY <2>2, <2>4, <1>13, <1>16, <1>19
    <3> QED BY <3>1, <1>1, <1>10, <1>12, <1>19 DEF CountedAsked
  <2> QED BY <2>3, <2>4
<1> QED BY <1>17, <1>18, <1>19, <1>20, <1>21

AskersIn(n, x, A) == {a[2] : a \in {b \in A : b[1] = n /\ b[3] = x}}
Shared(n, ts, k, A) == \E x \in {Day(ts), Day(ts) - 1} : Cardinality(AskersIn(n, x, A)) >= k

\* Finitely many asked.
LEMMA AskersAreFinite ==
  ASSUME NEW n, NEW x, NEW A, IsFiniteSet(A)
  PROVE  IsFiniteSet(AskersIn(n, x, A)) /\ Cardinality(AskersIn(n, x, A)) \in Nat
<1> DEFINE B == {b \in A : b[1] = n /\ b[3] = x}
           f == [a \in B |-> a[2]]
<1>1. IsFiniteSet(B)
  BY FS_Subset
<1>2. f \in Surjection(B, AskersIn(n, x, A))
  BY DEF Surjection, AskersIn
<1>3. IsFiniteSet(AskersIn(n, x, A))
  BY <1>1, <1>2, FS_Surjection
<1> QED BY <1>3, FS_CardinalityType

\* A device that is counted stands for one who asked.
LEMMA CountsAreAskers ==
  ASSUME NEW m \in Memories, NEW A, IsFiniteSet(A), TrueCounts(m, A), m.renewed = {}, NEW d \in Days, NEW n \in Names
  PROVE  /\ Cardinality({p \in m.tracker.days[d].names : p[1] = n}) \in Nat
         /\ Cardinality({p \in m.tracker.days[d].names : p[1] = n}) <= Cardinality(AskersIn(n, d, A))
<1> DEFINE T == {p \in m.tracker.days[d].names : p[1] = n}
           f == [p \in T |-> p[2].of]
<1>1. m.tracker.days[d].names \subseteq (Names \cup {Registered}) \X Pseudonyms
  BY DEF Memories, Trackers, DayCounts
<1>2. \A p \in T : /\ p = <<n, p[2]>> /\ p[2] \in Pseudonyms /\ p[2].day = d /\ p[2].key = m.keys[d]
                   /\ <<n, p[2].of, d>> \in A
  BY <1>1 DEF TrueCounts, CountedAsked
<1>3. f \in [T -> AskersIn(n, d, A)]
  <2> SUFFICES ASSUME NEW p \in T PROVE p[2].of \in AskersIn(n, d, A)
    OBVIOUS
  <2>1. PICK a : a = <<n, p[2].of, d>>
    OBVIOUS
  <2>2. a \in A /\ a[1] = n /\ a[3] = d /\ a[2] = p[2].of
    BY <2>1, <1>2
  <2> QED BY <2>2 DEF AskersIn
<1>4. \A p, q \in T : p[2].of = q[2].of => p = q
  <2> SUFFICES ASSUME NEW p \in T, NEW q \in T, p[2].of = q[2].of PROVE p[2] = q[2]
    BY <1>2
  <2>1. p[2] = [day |-> d, key |-> m.keys[d], of |-> p[2].of]
    BY <1>2 DEF Pseudonyms
  <2>2. q[2] = [day |-> d, key |-> m.keys[d], of |-> q[2].of]
    BY <1>2 DEF Pseudonyms
  <2> QED BY <2>1, <2>2
<1>5. f \in Injection(T, AskersIn(n, d, A))
  <2>1. IsInjective(f)
    BY <1>4 DEF IsInjective
  <2> QED BY <1>3, <2>1 DEF Injection
<1>6. IsFiniteSet(AskersIn(n, d, A))
  BY AskersAreFinite
<1>7. IsFiniteSet(T) /\ Cardinality(T) <= Cardinality(AskersIn(n, d, A))
  BY <1>5, <1>6, FS_Injection
<1> QED BY <1>7, FS_CardinalityType

\* A name is kept only if it is shared, and otherwise replaced.
LEMMA KeepIsShared ==
  ASSUME NEW m \in Memories, NEW ts \in 0 .. MaxNow, NEW n \in Shown
  PROVE  /\ keep(m, n, Day(ts)) \in {n, Registered, Hidden} /\ (n = Hidden => keep(m, n, Day(ts)) = Hidden)
         /\ \A A, k : /\ keep(m, n, Day(ts)) \in Names /\ k = m.tracker.k /\ k \in 2 .. MaxDomainK
                      /\ m.renewed = {} /\ TrueCounts(m, A) /\ IsFiniteSet(A)
                      => Shared(n, ts, k, A)
<1>1. keep(m, n, Day(ts)) \in {n, Registered, Hidden} /\ (n = Hidden => keep(m, n, Day(ts)) = Hidden)
  BY DEF keep
<1>2. ASSUME NEW A, NEW k, keep(m, n, Day(ts)) \in Names, k = m.tracker.k, k \in 2 .. MaxDomainK, m.renewed = {},
             TrueCounts(m, A), IsFiniteSet(A)
      PROVE  Shared(n, ts, k, A)
  <2>1. PICK d : d = Day(ts)
    OBVIOUS
  <2>2. d \in Days /\ d \in Nat /\ k \in Nat /\ k >= 2
    BY <1>2, <2>1, DayIsADay DEF MaxDomainK
  <2>3. n \in Names /\ common(m, n, d)
    BY <1>2, <2>1, PrivacyAssumption DEF keep
  <2>4. \/ Cardinality({p \in m.tracker.days[d].names : p[1] = n}) >= k
        \/ Cardinality({p \in Before(m, d).names : p[1] = n}) >= k
    BY <1>2, <2>3 DEF common
  <2>5. CASE Cardinality({p \in m.tracker.days[d].names : p[1] = n}) >= k
    <3>1. Cardinality(AskersIn(n, d, A)) >= k
      BY <1>2, <2>2, <2>3, <2>5, CountsAreAskers, AskersAreFinite
    <3> QED BY <3>1, <2>1 DEF Shared
  <2>6. CASE Cardinality({p \in Before(m, d).names : p[1] = n}) >= k
    <3>1. CASE d = 0
      <4>1. {p \in Before(m, d).names : p[1] = n} = {}
        BY <3>1 DEF Before, Uncounted
      <4>2. Cardinality({p \in Before(m, d).names : p[1] = n}) = 0
        BY <4>1, FS_EmptySet
      <4> QED BY <4>2, <2>2, <2>6
    <3>2. CASE d # 0
      <4>1. PICK x : x = d - 1
        OBVIOUS
      <4>2. x \in Days
        BY <2>2, <3>2, <4>1, DayIsADay, PrivacyAssumption DEF Days
      <4>3. Cardinality({p \in m.tracker.days[x].names : p[1] = n}) >= k
        BY <2>6, <3>2, <4>1 DEF Before
      <4>4. Cardinality(AskersIn(n, x, A)) >= k
        BY <1>2, <2>2, <2>3, <4>2, <4>3, CountsAreAskers, AskersAreFinite
      <4> QED BY <4>1, <4>4, <2>1 DEF Shared
    <3> QED BY <3>1, <3>2
  <2> QED BY <2>4, <2>5, <2>6
<1> QED BY <1>1, <1>2

\* The policies there are: 0 shows everything, the thresholds are next, and more than
\* MaxDomainK hides every name.
LEMMA PolicyFacts ==
  ASSUME NEW p \in Policies
  PROVE  /\ p.level \in 0 .. 3 /\ p.window \in Nat /\ p.k \in Nat /\ domainStrictness(p) \in 0 .. MaxDomainK + 1
         /\ rareOnly(p) => p.k \in 2 .. MaxDomainK /\ domainStrictness(p) = p.k
         /\ domainStrictness(p) \in 2 .. MaxDomainK => rareOnly(p)
         /\ domainStrictness(p) > MaxDomainK => ~rareOnly(p) /\ p.level >= LevelHideDomains
         /\ domainStrictness(p) # 1
<1>1. p \in [level : 0 .. 3, window : Nat, k : {0} \cup 2 .. MaxDomainK] /\ MaxDomainK = 100
  BY PrivacyAssumption DEF MaxDomainK
<1>2. p.level \in 0 .. 3 /\ p.window \in Nat /\ p.k \in {0} \cup 2 .. 100
  BY <1>1
<1> QED BY <1>1, <1>2 DEF rareOnly, domainStrictness, LevelShowAll, LevelHideDomains, LevelHideClients

\* What apply leaves of what arrives: as much as the policy allows.
LEMMA ApplyReduces ==
  ASSUME NEW m \in Memories, NEW p \in Policies, NEW e \in Entries, e.name \in Names, e.client \in Clients,
         NEW A, Readable(m, A), IsFiniteSet(A), <<e.name, e.client, Day(e.ts)>> \in A
  PROVE  /\ apply(m, p, e).mem \in Memories /\ KeysStay(m, apply(m, p, e).mem)
         /\ TrueCounts(m, A) => TrueCounts(apply(m, p, e).mem, A)
         /\ apply(m, p, e).entry \in Entries
         /\ apply(m, p, e).entry.ts = e.ts /\ apply(m, p, e).entry.id = e.id /\ apply(m, p, e).entry.met = e.met
         /\ Keyed(apply(m, p, e).entry.client, apply(m, p, e).mem) /\ Honest(apply(m, p, e).entry, A)
         /\ p.level >= LevelHideClients => apply(m, p, e).entry.client \notin Clients
         /\ domainStrictness(p) > MaxDomainK => apply(m, p, e).entry.name = Hidden
         /\ /\ domainStrictness(p) \in 2 .. MaxDomainK /\ apply(m, p, e).entry.name \in Names
            /\ m.renewed = {} /\ TrueCounts(m, A)
            => Shared(apply(m, p, e).entry.name, e.ts, domainStrictness(p), A)
<1>1. PICK d : d = Day(e.ts)
  OBVIOUS
<1>2. d \in Days /\ e.ts \in 0 .. MaxNow /\ e.name \in Shown /\ p.k \in Nat
  BY <1>1, DayIsADay, PolicyFacts DEF Entries
<1>3. PICK o : o = IF rareOnly(p) THEN Counted(m, d, p.k) ELSE m
  OBVIOUS
<1>4. /\ o \in Memories /\ KeysStay(m, o) /\ (TrueCounts(m, A) => TrueCounts(o, A)) /\ (rareOnly(p) => o.tracker.k = p.k)
  <2>1. CASE rareOnly(p)
    BY <1>2, <1>3, <2>1, CountedIsTrue
  <2>2. CASE ~rareOnly(p)
    BY <1>3, <2>2, KeysStayRefl
  <2> QED BY <2>1, <2>2
<1>5. e.client # NoClient /\ ~IsPseudonym(e.client) /\ Who(e.client) = e.client
  BY PrivacyAssumption DEF IsPseudonym, Who
<1>6. PICK a : a = IF p.level = LevelHideClients THEN key(o, d) ELSE o
  OBVIOUS
<1>7. /\ a \in Memories /\ KeysStay(o, a) /\ (TrueCounts(o, A) => TrueCounts(a, A))
      /\ (p.level = LevelHideClients => a.keys[d] # 0)
  <2>1. CASE p.level = LevelHideClients
    BY <1>2, <1>4, <1>6, <2>1, KeyGrows, CountsStayTrue
  <2>2. CASE p.level # LevelHideClients
    BY <1>4, <1>6, <2>2, KeysStayRefl
  <2> QED BY <2>1, <2>2
<1>8. PICK n : n = IF rareOnly(p) THEN keep(o, e.name, d) ELSE IF p.level >= LevelHideDomains THEN Hidden ELSE e.name
  OBVIOUS
<1>9. PICK c : c = IF p.level = LevelAnonymous THEN NoClient
                   ELSE IF p.level = LevelHideClients THEN Pseudonym(a, e.client, d) ELSE e.client
  OBVIOUS
<1>10. apply(m, p, e).mem = a /\ apply(m, p, e).entry = [e EXCEPT !.name = n, !.client = c]
  BY <1>1, <1>3, <1>5, <1>6, <1>8, <1>9 DEF apply
<1>11. n \in {e.name, Registered, Hidden} /\ n \in Shown /\ (n \in Names => n = e.name)
  <2>1. keep(o, e.name, d) \in {e.name, Registered, Hidden}
    BY <1>1, <1>2, <1>4, KeepIsShared
  <2>2. n \in {e.name, Registered, Hidden}
    BY <1>8, <2>1
  <2> QED BY <2>2, <1>2, PrivacyAssumption DEF Shown
<1>12. /\ c \in Whoever /\ Keyed(c, a) /\ (p.level >= LevelHideClients => c \notin Clients)
       /\ (c # NoClient => Who(c) = e.client /\ (c \in Pseudonyms => c.day = d))
  <2>1. p.level \in 0 .. 3
    BY PolicyFacts
  <2>2. CASE p.level = LevelAnonymous
    BY <2>2, <1>9, PrivacyAssumption, PseudonymsAreNoClients DEF Whoever, Keyed
  <2>3. CASE p.level = LevelHideClients
    <3>1. c = Pseudonym(a, e.client, d)
      BY <2>3, <1>9 DEF LevelAnonymous, LevelHideClients
    <3>2. c \in Pseudonyms /\ Keyed(c, a) /\ c.of = e.client /\ c.day = d
      BY <3>1, <2>3, <1>2, <1>7, PseudonymIsKeyed
    <3>3. IsPseudonym(c) /\ c \notin Clients
      BY <3>2, PseudonymsAreNoClients DEF IsPseudonym
    <3> QED BY <3>2, <3>3 DEF Whoever, Who
  <2>4. CASE p.level \in {LevelShowAll, LevelHideDomains}
    <3>1. c = e.client /\ ~(p.level >= LevelHideClients)
      BY <2>4, <1>9 DEF LevelShowAll, LevelHideDomains, LevelAnonymous, LevelHideClients
    <3> QED BY <3>1, <1>5, PseudonymsAreNoClients DEF Whoever, Keyed
  <2> QED BY <2>1, <2>2, <2>3, <2>4 DEF LevelShowAll, LevelHideDomains, LevelAnonymous, LevelHideClients
<1>13. PICK x : x = [e EXCEPT !.name = n, !.client = c]
  OBVIOUS
<1>14. x \in Entries /\ x.ts = e.ts /\ x.id = e.id /\ x.met = e.met /\ x.name = n /\ x.client = c
  BY <1>11, <1>12, <1>13 DEF Entries
<1>15. Honest(x, A)
  BY <1>1, <1>11, <1>12, <1>14 DEF Honest
<1>16. domainStrictness(p) > MaxDomainK => n = Hidden
  BY <1>8, PolicyFacts
<1>17. ASSUME domainStrictness(p) \in 2 .. MaxDomainK, n \in Names, m.renewed = {}, TrueCounts(m, A)
       PROVE  Shared(n, e.ts, domainStrictness(p), A)
  <2>1. rareOnly(p) /\ domainStrictness(p) = p.k /\ p.k \in 2 .. MaxDomainK
    BY <1>17, PolicyFacts
  <2>2. n = keep(o, e.name, Day(e.ts)) /\ o.tracker.k = p.k /\ TrueCounts(o, A) /\ o.renewed = {}
    BY <1>1, <1>4, <1>8, <1>17, <2>1 DEF KeysStay
  <2>3. Shared(e.name, e.ts, p.k, A)
    BY <1>2, <1>4, <1>17, <2>1, <2>2, KeepIsShared
  <2> QED BY <2>1, <2>3, <1>11, <1>17
<1>18. KeysStay(m, a)
  BY <1>4, <1>7, KeysStayTrans
<1> QED BY <1>4, <1>7, <1>10, <1>12, <1>13, <1>14, <1>15, <1>16, <1>17, <1>18

-----------------------------------------------------------------------------
-----------------------------------------------------------------------------
(* How far a scrub has come, and what it has done by then.                 *)

Stages == {"no", "names", "clients", "rollup", "delete", "prune", "mark"}
Scrubs == [at : Stages, policy : [level : 0 .. 3, window : Nat, k : Nat], cutoff : Nat, from : Nat, lo : Nat]
Marks  == [ts : Nat, level : 0 .. 3, strict : 0 .. MaxDomainK + 1]

PrTypes ==
  /\ now \in 0 .. MaxNow /\ policy \in Policies /\ arrived \in 0 .. MaxRows /\ cursor \in 0 .. arrived
  /\ Memory \in Memories /\ torn \in BOOLEAN /\ IsFiniteSet(asked)
  /\ log \subseteq Rows /\ \A r \in log : r.ts <= now /\ r.id \in 1 .. arrived
  /\ entry # Nothing => entry \in Entries /\ entry.ts <= now /\ entry.id \in 1 .. arrived
  /\ rollup \subseteq Sums
  /\ marks \in Marks /\ marks.ts <= now /\ scrub \in Scrubs /\ scrub.cutoff <= now

\* A scrub is of a policy that hides something; what only some policies do, it
\* does for them; it stores how far it came before how strict it was.
ScrubSteps ==
  /\ scrub.at = "no" => scrub = Asleep
  /\ scrub.at # "no" => scrub.policy \in Policies /\ scrub.policy.level # LevelShowAll
  /\ scrub.at = "clients" => scrub.policy.level = LevelHideClients
  /\ scrub.at = "delete" => scrub.policy.level = LevelAnonymous
  /\ scrub.at \in {"names", "clients"} => scrub.from <= scrub.lo
  /\ scrub.at = "mark" => marks.ts = scrub.cutoff

\* The log and the counts know who asked.
Truth ==
  /\ Readable(Memory, asked) /\ TrueCounts(Memory, asked)
  /\ entry # Nothing => Keyed(entry.client, Memory) /\ Honest(entry, asked)

\* A name is as a policy of that strictness wants it, a client as one of that level.
NameDone(r, strict, A, again) ==
  /\ strict > MaxDomainK => r.name = Hidden
  /\ strict \in 2 .. MaxDomainK /\ r.name \in Names /\ again = {} => Shared(r.name, r.ts, strict, A)
ClientDone(r, level) == level >= LevelHideClients => r.client \notin Clients \/ r.left

\* What has been reduced on arrival.
EntryDone ==
  entry # Nothing /\ entry.met.level # LevelShowAll /\ (entry.ts < Cutoff(entry.met) \/ entry.met.window = 0) =>
    /\ NameDone(entry, domainStrictness(entry.met), asked, renewed)
    /\ entry.met.level >= LevelHideClients => entry.client \notin Clients

\* What the last scrub has reduced.
MarksDone ==
  ~torn /\ scrub.at # "mark" =>
    /\ \A r \in log : ~r.slipped /\ r.ts < marks.ts =>
         NameDone(r, marks.strict, asked, renewed) /\ ClientDone(r, marks.level)
    /\ \A e \in rollup : ~e.slipped /\ e.ts < marks.ts => ClientDone(e, marks.level)

\* And the one under way: names, clients and counts up to some time each.
Until(s)     == Min({(Day(s.lo) + 1) * DayLen, s.cutoff})
NamesTo(s)   == IF s.at = "names" THEN s.lo ELSE IF s.at = "clients" THEN Until(s) ELSE s.cutoff
ClientsTo(s) ==
  IF s.policy.level = LevelHideClients THEN IF s.at \in {"names", "clients"} THEN s.lo ELSE s.cutoff
  ELSE IF s.at \in {"names", "rollup"} THEN s.from ELSE s.cutoff
SumsTo(s)    == IF s.at \in {"names", "clients", "rollup"} THEN s.from ELSE s.cutoff
ScrubDone ==
  ~torn /\ scrub.at # "no" =>
    /\ \A r \in log : ~r.slipped /\ r.ts < scrub.cutoff =>
         /\ (r.ts < NamesTo(scrub) => NameDone(r, domainStrictness(scrub.policy), asked, renewed))
         /\ (r.ts < ClientsTo(scrub) => ClientDone(r, scrub.policy.level))
    /\ \A e \in rollup : ~e.slipped /\ e.ts < scrub.cutoff /\ e.ts < SumsTo(scrub) => ClientDone(e, scrub.policy.level)

\* What is counted has its row, unless an anonymous scrub was to delete both.
RowsOfSums == \A e \in rollup : e.left \/ \E r \in log : r.ts = e.ts

PrIInv == PrTypes /\ ScrubSteps /\ Truth /\ EntryDone /\ MarksDone /\ ScrubDone /\ RowsOfSums

\* The least and the greatest of a few numbers.
LEMMA MinOfTwo ==
  ASSUME NEW a \in Int, NEW b \in Int
  PROVE  Min({a, b}) \in {a, b} /\ Min({a, b}) <= a /\ Min({a, b}) <= b
<1>1. \E x \in {a, b} : \A y \in {a, b} : x <= y
  <2>1. CASE a <= b
    BY <2>1
  <2>2. CASE b <= a
    BY <2>2
  <2> QED BY <2>1, <2>2
<1>2. Min({a, b}) \in {a, b} /\ \A y \in {a, b} : Min({a, b}) <= y
  BY <1>1 DEF Min
<1> QED BY <1>2

LEMMA MaxOfTwo ==
  ASSUME NEW a \in Int, NEW b \in Int
  PROVE  Max({a, b}) \in {a, b} /\ Max({a, b}) >= a /\ Max({a, b}) >= b
<1>1. \E x \in {a, b} : \A y \in {a, b} : x >= y
  <2>1. CASE a <= b
    BY <2>1
  <2>2. CASE b <= a
    BY <2>2
  <2> QED BY <2>1, <2>2
<1>2. Max({a, b}) \in {a, b} /\ \A y \in {a, b} : Max({a, b}) >= y
  BY <1>1 DEF Max
<1> QED BY <1>2

LEMMA MaxOfThree ==
  ASSUME NEW a \in Int, NEW b \in Int, NEW c \in Int
  PROVE  /\ Max({a, b, c}) \in {a, b, c} /\ Max({a, b, c}) >= a /\ Max({a, b, c}) >= b /\ Max({a, b, c}) >= c
<1>1. \E x \in {a, b, c} : \A y \in {a, b, c} : x >= y
  <2>1. CASE a >= b /\ a >= c
    BY <2>1
  <2>2. CASE b >= a /\ b >= c
    BY <2>2
  <2>3. CASE c >= a /\ c >= b
    BY <2>3
  <2> QED BY <2>1, <2>2, <2>3
<1>2. Max({a, b, c}) \in {a, b, c} /\ \A y \in {a, b, c} : Max({a, b, c}) >= y
  BY <1>1 DEF Max
<1> QED BY <1>2

\* A step that keeps a memory has it next.
LEMMA KeepsIt ==
  ASSUME NEW m \in Memories, Keeps(m)
  PROVE  Memory' = m
BY DEF Keeps, Memory, Mem, Memories

\* The rows of one day have that day.
LEMMA InRangeIsToday ==
  ASSUME NEW lo \in Nat, NEW ts \in 0 .. MaxNow, lo <= ts, ts < (Day(lo) + 1) * DayLen
  PROVE  Day(ts) = Day(lo)
<1>1. DayLen \in Nat \ {0} /\ MaxNow \in Nat
  BY PrivacyAssumption
<1>2. \A a, b, n \in Nat : n # 0 /\ a <= b /\ b < ((a \div n) + 1) * n => b \div n = a \div n
  BY SMT
<1>3. ts \in Nat /\ DayLen \in Nat /\ DayLen # 0
  BY <1>1
<1>4. lo <= ts /\ ts < ((lo \div DayLen) + 1) * DayLen
  BY DEF Day
<1>5. ts \div DayLen = lo \div DayLen
  BY <1>2, <1>3, <1>4
<1> QED BY <1>5 DEF Day

\* A scrub goes no further than the end of the day it is at.
LEMMA UntilFacts ==
  ASSUME NEW s \in Scrubs
  PROVE  /\ Until(s) \in Nat /\ Until(s) <= s.cutoff
         /\ \A ts \in 0 .. MaxNow : s.lo <= ts /\ ts < Until(s) => Day(ts) = Day(s.lo) /\ s.lo \in 0 .. MaxNow /\ Day(s.lo) \in Days
<1>1. PICK lo : lo = s.lo
  OBVIOUS
<1>2. lo \in Nat /\ s.cutoff \in Nat
  BY <1>1 DEF Scrubs
<1>3. (Day(lo) + 1) * DayLen \in Nat
  <2>1. DayLen \in Nat \ {0}
    BY PrivacyAssumption
  <2>2. lo \div DayLen \in Nat
    BY <1>2, <2>1, SMT
  <2>3. \A a, b \in Nat : (a + 1) * b \in Nat
    BY SMT
  <2> QED BY <2>1, <2>2, <2>3 DEF Day
<1>4. PICK z : z = (Day(lo) + 1) * DayLen
  OBVIOUS
<1>5. Until(s) = Min({z, s.cutoff})
  BY <1>1, <1>4 DEF Until
<1>6. Until(s) \in Nat /\ Until(s) <= s.cutoff /\ Until(s) <= z
  <2>1. PICK b : b = s.cutoff
    OBVIOUS
  <2>2. z \in Nat /\ b \in Nat /\ z \in Int /\ b \in Int
    BY <1>2, <1>3, <1>4, <2>1
  <2>3. Min({z, b}) \in {z, b} /\ Min({z, b}) <= z /\ Min({z, b}) <= b
    BY <2>2, MinOfTwo
  <2> QED BY <1>5, <2>1, <2>2, <2>3
<1>7. ASSUME NEW ts \in 0 .. MaxNow, lo <= ts, ts < Until(s)
      PROVE  Day(ts) = Day(lo) /\ lo \in 0 .. MaxNow /\ Day(lo) \in Days
  <2>1. ts < z /\ ts \in Nat /\ MaxNow \in Nat /\ z \in Nat
    BY <1>3, <1>4, <1>6, <1>7, PrivacyAssumption
  <2>2. Day(ts) = Day(lo)
    BY <1>2, <1>4, <1>7, <2>1, InRangeIsToday
  <2>3. lo \in 0 .. MaxNow
    BY <1>2, <1>7, <2>1
  <2> QED BY <2>2, <2>3, DayIsADay
<1> QED BY <1>1, <1>6, <1>7

\* A row after it was reduced.
ReducedTo(r, s) ==
  /\ s.ts = r.ts /\ s.id = r.id /\ s.slipped = r.slipped /\ (r.left => s.left)
  /\ s.name \in {r.name, Registered, Hidden} /\ (r.name = Hidden => s.name = Hidden)
  /\ \/ s.client = r.client
     \/ r.client \in Clients /\ s.client \in Pseudonyms /\ s.client.of = r.client /\ s.client.day = Day(r.ts)

\* More who ask are not fewer.
LEMMA SharedStays ==
  ASSUME NEW n, NEW ts, NEW k \in Nat, NEW A, NEW B, A \subseteq B, IsFiniteSet(B), Shared(n, ts, k, A)
  PROVE  Shared(n, ts, k, B)
<1>1. PICK x \in {Day(ts), Day(ts) - 1} : Cardinality(AskersIn(n, x, A)) >= k
  BY DEF Shared
<1>2. IsFiniteSet(AskersIn(n, x, B)) /\ Cardinality(AskersIn(n, x, B)) \in Nat
  BY AskersAreFinite
<1>3. AskersIn(n, x, A) \in SUBSET AskersIn(n, x, B)
  BY DEF AskersIn
<1>4. Cardinality(AskersIn(n, x, A)) <= Cardinality(AskersIn(n, x, B)) /\ Cardinality(AskersIn(n, x, A)) \in Nat
  BY <1>2, <1>3, FS_Subset, FS_CardinalityType
<1> QED BY <1>1, <1>2, <1>4 DEF Shared

\* A row that is reduced further, while more ask and more keys are renewed, is still as
\* a strictness wants its name,
LEMMA NameStaysDone ==
  ASSUME NEW r, NEW s, ReducedTo(r, s), NEW S \in Nat, NEW A, NEW B, A \subseteq B, IsFiniteSet(B),
         NEW R, NEW T, R \subseteq T, NameDone(r, S, A, R)
  PROVE  NameDone(s, S, B, T)
<1>1. s.ts = r.ts /\ s.name \in {r.name, Registered, Hidden} /\ (r.name = Hidden => s.name = Hidden)
  BY DEF ReducedTo
<1>2. S > MaxDomainK => s.name = Hidden
  BY <1>1 DEF NameDone
<1>3. ASSUME S \in 2 .. MaxDomainK, s.name \in Names, T = {} PROVE Shared(s.name, s.ts, S, B)
  <2>1. s.name = r.name /\ R = {}
    BY <1>1, <1>3, PrivacyAssumption
  <2>2. Shared(r.name, r.ts, S, A)
    BY <1>3, <2>1 DEF NameDone
  <2> QED BY <1>1, <2>1, <2>2, SharedStays
<1> QED BY <1>2, <1>3 DEF NameDone

\* and as a level wants its client.
LEMMA ClientStaysDone ==
  ASSUME NEW r, NEW s, ReducedTo(r, s), NEW L, ClientDone(r, L)
  PROVE  ClientDone(s, L)
<1>1. s.client = r.client \/ s.client \in Pseudonyms
  BY DEF ReducedTo
<1> QED BY <1>1, PseudonymsAreNoClients DEF ReducedTo, ClientDone

\* A policy that is no stricter asks for no more.
LEMMA LessIsDone ==
  ASSUME NEW r, NEW S \in Nat, NEW U \in Nat, U <= S, NEW A, IsFiniteSet(A), NEW R, S <= MaxDomainK + 1, NameDone(r, S, A, R)
  PROVE  NameDone(r, U, A, R)
<1>1. MaxDomainK = 100
  BY DEF MaxDomainK
<1>2. U > MaxDomainK => r.name = Hidden
  BY <1>1 DEF NameDone
<1>3. ASSUME U \in 2 .. MaxDomainK, r.name \in Names, R = {} PROVE Shared(r.name, r.ts, U, A)
  <2>1. S \in 2 .. MaxDomainK
    BY <1>1, <1>3, PrivacyAssumption DEF NameDone
  <2>2. PICK x \in {Day(r.ts), Day(r.ts) - 1} : Cardinality(AskersIn(r.name, x, A)) >= S
    BY <1>3, <2>1 DEF NameDone, Shared
  <2>3. Cardinality(AskersIn(r.name, x, A)) >= U
    BY <2>2, AskersAreFinite
  <2> QED BY <2>3 DEF Shared
<1> QED BY <1>2, <1>3 DEF NameDone

-----------------------------------------------------------------------------
-----------------------------------------------------------------------------
(* What is left of a step, whichever it is.                                *)

\* A sum after it was reduced.
SumReducedTo(e, f) ==
  f.ts = e.ts /\ f.slipped = e.slipped /\ (e.left => f.left) /\ (f.client = e.client \/ f.client \in Pseudonyms)

\* The rows and the sums are those there were, reduced or not.
OnlyReduced ==
  /\ \A s \in log' : \E r \in log : ReducedTo(r, s)
  /\ \A f \in rollup' : \E e \in rollup : SumReducedTo(e, f)
  /\ asked \subseteq asked' /\ IsFiniteSet(asked') /\ renewed \subseteq renewed'

\* So is an entry of the rollup.
LEMMA SumStaysDone ==
  ASSUME NEW e, NEW f, SumReducedTo(e, f), NEW L, ClientDone(e, L)
  PROVE  ClientDone(f, L)
BY PseudonymsAreNoClients DEF SumReducedTo, ClientDone

\* A step that only reduces undoes nothing of the last scrub.
LEMMA MarksStayDone ==
  ASSUME PrIInv, OnlyReduced, marks' = marks, torn => torn', scrub'.at # "mark" /\ ~torn' => scrub.at # "mark"
  PROVE  MarksDone'
<1> SUFFICES ASSUME ~torn', scrub'.at # "mark"
             PROVE  /\ \A s \in log' : ~s.slipped /\ s.ts < marks.ts =>
                         NameDone(s, marks.strict, asked', renewed') /\ ClientDone(s, marks.level)
                    /\ \A f \in rollup' : ~f.slipped /\ f.ts < marks.ts => ClientDone(f, marks.level)
  BY DEF MarksDone
<1>1. /\ \A r \in log : ~r.slipped /\ r.ts < marks.ts =>
           NameDone(r, marks.strict, asked, renewed) /\ ClientDone(r, marks.level)
      /\ \A e \in rollup : ~e.slipped /\ e.ts < marks.ts => ClientDone(e, marks.level)
  BY DEF PrIInv, MarksDone
<1>2. marks.strict \in Nat
  BY DEF PrIInv, PrTypes, Marks, MaxDomainK
<1>3. ASSUME NEW s \in log', ~s.slipped, s.ts < marks.ts
      PROVE  NameDone(s, marks.strict, asked', renewed') /\ ClientDone(s, marks.level)
  <2>1. PICK r \in log : ReducedTo(r, s)
    BY DEF OnlyReduced
  <2>2. NameDone(r, marks.strict, asked, renewed) /\ ClientDone(r, marks.level)
    BY <1>1, <1>3, <2>1 DEF ReducedTo
  <2> QED BY <1>2, <2>1, <2>2, NameStaysDone, ClientStaysDone DEF OnlyReduced
<1>4. ASSUME NEW f \in rollup', ~f.slipped, f.ts < marks.ts PROVE ClientDone(f, marks.level)
  <2>1. PICK e \in rollup : SumReducedTo(e, f)
    BY DEF OnlyReduced
  <2>2. ClientDone(e, marks.level)
    BY <1>1, <1>4, <2>1 DEF SumReducedTo
  <2> QED BY <2>1, <2>2, SumStaysDone
<1> QED BY <1>3, <1>4

\* The work of a scrub, of a given state of it.
ScrubAt(s, L, U, A, R) ==
  /\ \A r \in L : ~r.slipped /\ r.ts < s.cutoff =>
       /\ (r.ts < NamesTo(s) => NameDone(r, domainStrictness(s.policy), A, R))
       /\ (r.ts < ClientsTo(s) => ClientDone(r, s.policy.level))
  /\ \A e \in U : ~e.slipped /\ e.ts < s.cutoff /\ e.ts < SumsTo(s) => ClientDone(e, s.policy.level)

\* ScrubDone, of the scrub now and of the next.
LEMMA ScrubDoneAt == (ScrubDone <=> (~torn /\ scrub.at # "no" => ScrubAt(scrub, log, rollup, asked, renewed)))
BY DEF ScrubDone, ScrubAt

LEMMA ScrubDoneAtNext == (ScrubDone' <=> (~torn' /\ scrub'.at # "no" => ScrubAt(scrub', log', rollup', asked', renewed')))
BY DEF ScrubDone, ScrubAt, NamesTo, ClientsTo, SumsTo, Until

\* A scrub under way has a policy that hides something.
LEMMA ScrubPolicy ==
  ASSUME PrIInv, scrub.at # "no"
  PROVE  /\ scrub.policy \in Policies /\ scrub.policy.level \in 1 .. 3 /\ domainStrictness(scrub.policy) \in Nat
         /\ domainStrictness(scrub.policy) <= MaxDomainK + 1
<1>1. scrub.policy \in Policies /\ scrub.policy.level # 0
  BY DEF PrIInv, ScrubSteps, LevelShowAll
<1>2. scrub.policy.level \in 0 .. 3 /\ domainStrictness(scrub.policy) \in 0 .. MaxDomainK + 1
  BY <1>1, PolicyFacts
<1> QED BY <1>1, <1>2 DEF MaxDomainK

\* A step that leaves the scrub where it is, or has no more to show for it.
LEMMA ScrubStaysDone ==
  ASSUME PrIInv, OnlyReduced, torn => torn', scrub.at # "no",
         scrub'.policy = scrub.policy, scrub'.cutoff = scrub.cutoff,
         \A ts \in 0 .. MaxNow : /\ ts < NamesTo(scrub') /\ ts < scrub.cutoff => ts < NamesTo(scrub)
                                 /\ ts < ClientsTo(scrub') /\ ts < scrub.cutoff => ts < ClientsTo(scrub)
                                 /\ ts < SumsTo(scrub') /\ ts < scrub.cutoff => ts < SumsTo(scrub)
  PROVE  ScrubDone'
<1> SUFFICES ASSUME ~torn' PROVE ScrubAt(scrub', log', rollup', asked', renewed')
  BY ScrubDoneAtNext
<1>1. ScrubAt(scrub, log, rollup, asked, renewed)
  BY ScrubDoneAt DEF PrIInv
<1>2. PICK S : S = domainStrictness(scrub.policy)
  OBVIOUS
<1>3. S \in Nat
  BY <1>2, ScrubPolicy
<1>4. ASSUME NEW s \in log', ~s.slipped, s.ts < scrub.cutoff
      PROVE  /\ (s.ts < NamesTo(scrub') => NameDone(s, S, asked', renewed'))
             /\ (s.ts < ClientsTo(scrub') => ClientDone(s, scrub.policy.level))
  <2>1. PICK r \in log : ReducedTo(r, s)
    BY DEF OnlyReduced
  <2>2. r.ts = s.ts /\ ~r.slipped /\ s.ts \in 0 .. MaxNow
    BY <1>4, <2>1 DEF ReducedTo, PrIInv, PrTypes, Rows
  <2>3. ASSUME s.ts < NamesTo(scrub') PROVE NameDone(s, S, asked', renewed')
    <3>1. NameDone(r, S, asked, renewed)
      BY <1>1, <1>2, <1>4, <2>2, <2>3 DEF ScrubAt
    <3> QED BY <1>3, <2>1, <3>1, NameStaysDone DEF OnlyReduced
  <2>4. ASSUME s.ts < ClientsTo(scrub') PROVE ClientDone(s, scrub.policy.level)
    <3>1. ClientDone(r, scrub.policy.level)
      BY <1>1, <1>4, <2>2, <2>4 DEF ScrubAt
    <3> QED BY <2>1, <3>1, ClientStaysDone
  <2> QED BY <2>3, <2>4
<1>5. ASSUME NEW f \in rollup', ~f.slipped, f.ts < scrub.cutoff, f.ts < SumsTo(scrub') PROVE ClientDone(f, scrub.policy.level)
  <2>1. PICK e \in rollup : SumReducedTo(e, f)
    BY DEF OnlyReduced
  <2>2. e.ts = f.ts /\ ~e.slipped /\ f.ts \in 0 .. MaxNow
    BY <1>5, <2>1 DEF SumReducedTo, PrIInv, PrTypes, Sums
  <2>3. ClientDone(e, scrub.policy.level)
    BY <1>1, <1>5, <2>2 DEF ScrubAt
  <2> QED BY <2>1, <2>3, SumStaysDone
<1> QED BY <1>2, <1>4, <1>5 DEF ScrubAt

\* As long as no row goes, the rollup has its rows.
LEMMA RowsOfSumsStay ==
  ASSUME PrIInv, \A f \in rollup' : \E e \in rollup : SumReducedTo(e, f), \A r \in log : \E s \in log' : s.ts = r.ts
  PROVE  RowsOfSums'
<1> SUFFICES ASSUME NEW f \in rollup', ~f.left PROVE \E s \in log' : s.ts = f.ts
  BY DEF RowsOfSums
<1>1. PICK e \in rollup : SumReducedTo(e, f)
  OBVIOUS
<1>2. ~e.left /\ e.ts = f.ts
  BY <1>1 DEF SumReducedTo
<1>3. PICK r \in log : r.ts = e.ts
  BY <1>2 DEF PrIInv, RowsOfSums
<1> QED BY <1>2, <1>3

\* To leave the log or the rollup alone is to only reduce it.
LEMMA NothingReduced ==
  /\ log' = log => /\ \A s \in log' : \E r \in log : ReducedTo(r, s)
                   /\ \A r \in log : \E s \in log' : s.ts = r.ts
  /\ rollup' = rollup => \A f \in rollup' : \E e \in rollup : SumReducedTo(e, f)
BY DEF ReducedTo, SumReducedTo

\* A row that is reduced is still of one who asked.
LEMMA HonestStays ==
  ASSUME NEW r, NEW s, ReducedTo(r, s), r.client \in Whoever, NEW A, NEW B, A \subseteq B, Honest(r, A)
  PROVE  Honest(s, B)
<1> SUFFICES ASSUME s.name \in Names, s.client # NoClient
             PROVE  <<s.name, Who(s.client), Day(s.ts)>> \in B /\ (s.client \in Pseudonyms => s.client.day = Day(s.ts))
  BY DEF Honest
<1>1. s.name = r.name /\ s.ts = r.ts
  BY PrivacyAssumption DEF ReducedTo
<1>2. CASE s.client = r.client
  BY <1>1, <1>2 DEF Honest
<1>3. CASE r.client \in Clients /\ s.client \in Pseudonyms /\ s.client.of = r.client /\ s.client.day = Day(r.ts)
  <2>1. IsPseudonym(s.client) /\ ~IsPseudonym(r.client) /\ r.client # NoClient
    BY <1>3, PseudonymsAreNoClients, PrivacyAssumption DEF IsPseudonym
  <2>2. Who(s.client) = Who(r.client)
    BY <1>3, <2>1 DEF Who
  <2>3. <<r.name, Who(r.client), Day(r.ts)>> \in A
    BY <1>1, <2>1 DEF Honest
  <2> QED BY <1>1, <1>3, <2>2, <2>3
<1> QED BY <1>2, <1>3 DEF ReducedTo

\* What waits to be stored is still reduced.
LEMMA EntryStaysDone ==
  ASSUME PrIInv, entry' = entry, now' = now, asked \subseteq asked', IsFiniteSet(asked'), renewed \subseteq renewed'
  PROVE  EntryDone'
<1> SUFFICES ASSUME entry # Nothing, entry.met.level # LevelShowAll, entry.ts < Cutoff(entry.met) \/ entry.met.window = 0
             PROVE  /\ NameDone(entry, domainStrictness(entry.met), asked', renewed')
                    /\ entry.met.level >= LevelHideClients => entry.client \notin Clients
  BY DEF EntryDone, Cutoff
<1>1. /\ NameDone(entry, domainStrictness(entry.met), asked, renewed)
      /\ entry.met.level >= LevelHideClients => entry.client \notin Clients
  BY DEF PrIInv, EntryDone
<1>2. entry.met \in Policies
  BY DEF PrIInv, PrTypes, Entries
<1>3. domainStrictness(entry.met) \in Nat
  BY <1>2, PolicyFacts DEF MaxDomainK
<1>4. ReducedTo(entry, entry)
  BY DEF ReducedTo
<1> QED BY <1>1, <1>3, <1>4, NameStaysDone

-----------------------------------------------------------------------------
\* A step that only reduces rows keeps the log and the counts true.
LEMMA TruthStays ==
  ASSUME PrIInv, Memory' \in Memories, KeysStay(Memory, Memory'), TrueCounts(Memory', asked'), log' \subseteq Rows,
         \A s \in log' : \E r \in log : ReducedTo(r, s) /\ (s.client = r.client \/ Keyed(s.client, Memory')),
         asked \subseteq asked', entry' = entry \/ entry' = Nothing
  PROVE  Truth'
<1>1. Memory \in Memories /\ Readable(Memory, asked) /\ log \subseteq Rows
  BY DEF PrIInv, PrTypes, Truth
<1>2. ASSUME NEW s \in log' PROVE Keyed(s.client, Memory') /\ Honest(s, asked')
  <2>1. PICK r \in log : ReducedTo(r, s) /\ (s.client = r.client \/ Keyed(s.client, Memory'))
    OBVIOUS
  <2>2. Keyed(r.client, Memory) /\ Honest(r, asked) /\ r.client \in Whoever
    BY <1>1 DEF Readable, Rows
  <2>3. Keyed(s.client, Memory')
    BY <1>1, <2>1, <2>2, KeyedStays
  <2> QED BY <2>1, <2>2, <2>3, HonestStays
<1>3. ASSUME entry' # Nothing PROVE Keyed(entry'.client, Memory') /\ Honest(entry', asked')
  <2>1. entry' = entry /\ entry # Nothing
    BY <1>3
  <2>2. Keyed(entry.client, Memory) /\ Honest(entry, asked)
    BY <2>1 DEF PrIInv, Truth
  <2>3. Honest(entry, asked')
    BY <2>2 DEF Honest
  <2> QED BY <1>1, <2>1, <2>2, <2>3, KeyedStays
<1>4. Readable(Memory, asked)'
  BY <1>2 DEF Readable
<1> QED BY <1>3, <1>4 DEF Truth

\* The memory is the keys and the counts.
LEMMA MemoryIs ==
  /\ Memory.keys = keys /\ Memory.made = made /\ Memory.renewed = renewed /\ Memory.tracker = tracker
  /\ Memory'.keys = keys' /\ Memory'.made = made' /\ Memory'.renewed = renewed' /\ Memory'.tracker = tracker'
  /\ Kept /\ renewed' = renewed => Memory' = Memory
BY DEF Memory, Mem, Kept

\* With the memory as it was.
LEMMA TrueStill ==
  ASSUME PrIInv, Memory' = Memory, asked \subseteq asked'
  PROVE  Memory' \in Memories /\ KeysStay(Memory, Memory') /\ TrueCounts(Memory', asked')
<1>1. Memory \in Memories /\ TrueCounts(Memory, asked)
  BY DEF PrIInv, PrTypes, Truth
<1> QED BY <1>1, KeysStayRefl DEF TrueCounts, CountedAsked

-----------------------------------------------------------------------------
(* What arrives and is stored.                                             *)

\* What arrives is counted and, past its window, reduced.
LEMMA IngestReduces ==
  ASSUME PrIInv, NEW c \in Clients, NEW n \in Names, NEW ts \in 0 .. now, Ingest(c, n, ts)
  PROVE  /\ Memory' \in Memories /\ KeysStay(Memory, Memory') /\ TrueCounts(Memory', asked')
         /\ asked \subseteq asked' /\ IsFiniteSet(asked')
         /\ entry' \in Entries /\ entry'.ts = ts /\ entry'.id = arrived + 1 /\ entry'.met = policy
         /\ Keyed(entry'.client, Memory') /\ Honest(entry', asked') /\ EntryDone'
<1>1. /\ Memory \in Memories /\ policy \in Policies /\ now \in 0 .. MaxNow /\ MaxNow \in Nat /\ arrived \in Nat
      /\ IsFiniteSet(asked) /\ Readable(Memory, asked) /\ TrueCounts(Memory, asked) /\ log \subseteq Rows
  BY PrivacyAssumption DEF PrIInv, PrTypes, Truth
<1>2. PICK A : A = asked \cup {<<n, c, Day(ts)>>}
  OBVIOUS
<1>3. IsFiniteSet(A) /\ asked' = A /\ <<n, c, Day(ts)>> \in A /\ asked \subseteq A
  BY <1>1, <1>2, FS_AddElement DEF Ingest
<1>4. Readable(Memory, A) /\ TrueCounts(Memory, A)
  BY <1>1, <1>3 DEF Readable, Honest, TrueCounts, CountedAsked
<1>5. PICK e : e = [ts |-> ts, id |-> arrived + 1, name |-> n, client |-> c, met |-> policy]
  OBVIOUS
<1>6. /\ e \in Entries /\ e.ts = ts /\ e.id = arrived + 1 /\ e.name = n /\ e.client = c /\ e.met = policy
      /\ ts \in 0 .. MaxNow
  BY <1>1, <1>5 DEF Entries, Shown, Whoever
<1>7. PICK m : m = IF rareOnly(policy) THEN observe(Memory, e, policy.k) ELSE Memory
  OBVIOUS
<1>8. m \in Memories /\ KeysStay(Memory, m) /\ TrueCounts(m, A)
  <2>1. CASE rareOnly(policy)
    <3>1. policy.k \in Nat
      BY <1>1, PolicyFacts
    <3> QED BY <1>1, <1>3, <1>4, <1>6, <1>7, <2>1, <3>1, ObserveIsTrue
  <2>2. CASE ~rareOnly(policy)
    BY <1>1, <1>4, <1>7, <2>2, KeysStayRefl
  <2> QED BY <2>1, <2>2
<1>9. Readable(m, A)
  BY <1>1, <1>4, <1>8, ReadableStays
<1>10. PICK o : o = apply(m, policy, e)
  OBVIOUS
<1>11. /\ o.mem \in Memories /\ KeysStay(m, o.mem) /\ TrueCounts(o.mem, A)
       /\ o.entry \in Entries /\ o.entry.ts = ts /\ o.entry.id = arrived + 1 /\ o.entry.met = policy
       /\ Keyed(o.entry.client, o.mem) /\ Honest(o.entry, A)
       /\ (policy.level >= LevelHideClients => o.entry.client \notin Clients)
       /\ (domainStrictness(policy) > MaxDomainK => o.entry.name = Hidden)
       /\ (domainStrictness(policy) \in 2 .. MaxDomainK /\ o.entry.name \in Names /\ m.renewed = {}
           => Shared(o.entry.name, ts, domainStrictness(policy), A))
  BY <1>1, <1>3, <1>6, <1>8, <1>9, <1>10, ApplyReduces
<1>12. IF policy.level # LevelShowAll /\ (ts < Cutoff(policy) \/ policy.window = 0)
       THEN entry' = o.entry /\ Keeps(o.mem) ELSE entry' = e /\ Keeps(m)
  BY <1>5, <1>7, <1>10 DEF Ingest
<1>13. now' = now
  BY DEF Ingest, Rest
<1>14. CASE policy.level # LevelShowAll /\ (ts < Cutoff(policy) \/ policy.window = 0)
  <2>1. entry' = o.entry /\ Memory' = o.mem
    BY <1>11, <1>12, <1>14, KeepsIt
  <2>2. KeysStay(Memory, o.mem)
    BY <1>1, <1>8, <1>11, KeysStayTrans
  <2>3. renewed' = m.renewed
    BY <1>11, <2>1, MemoryIs DEF KeysStay
  <2>4. EntryDone'
    <3>1. NameDone(o.entry, domainStrictness(policy), A, renewed')
      BY <1>11, <2>3 DEF NameDone
    <3> QED BY <1>3, <1>11, <2>1, <3>1 DEF EntryDone
  <2> QED BY <1>3, <1>11, <2>1, <2>2, <2>4
<1>15. CASE ~(policy.level # LevelShowAll /\ (ts < Cutoff(policy) \/ policy.window = 0))
  <2>1. entry' = e /\ Memory' = m
    BY <1>8, <1>12, <1>15, KeepsIt
  <2>2. EntryDone'
    BY <1>6, <1>13, <1>15, <2>1 DEF EntryDone, Cutoff
  <2>3. Keyed(c, m) /\ ~IsPseudonym(c) /\ c \notin Pseudonyms
    BY PseudonymsAreNoClients DEF Keyed, IsPseudonym
  <2>4. Honest(e, A)
    BY <1>3, <1>6, <2>3 DEF Honest, Who
  <2> QED BY <1>3, <1>6, <1>8, <2>1, <2>2, <2>3, <2>4
<1> QED BY <1>14, <1>15

\* Each step keeps the invariant: an entry arrives,
LEMMA IngestStays ==
  ASSUME PrIInv, NEW c \in Clients, NEW n \in Names, NEW ts \in 0 .. now, Ingest(c, n, ts)
  PROVE  PrIInv'
<1>1. /\ Memory' \in Memories /\ KeysStay(Memory, Memory') /\ TrueCounts(Memory', asked')
      /\ asked \subseteq asked' /\ IsFiniteSet(asked')
      /\ entry' \in Entries /\ entry'.ts = ts /\ entry'.id = arrived + 1 /\ entry'.met = policy
      /\ Keyed(entry'.client, Memory') /\ Honest(entry', asked') /\ EntryDone'
  BY IngestReduces
<1>2. UNCHANGED <<now, policy, cursor, rollup, marks, scrub, torn, changes, log>> /\ arrived' = arrived + 1 /\ arrived < MaxRows
  BY DEF Ingest, Rest
<1>3. renewed' = renewed
  BY <1>1, MemoryIs DEF KeysStay
<1>4. PrTypes'
  <2>1. arrived \in 0 .. MaxRows /\ cursor \in 0 .. arrived /\ MaxRows \in Nat /\ now \in 0 .. MaxNow /\ MaxNow \in Nat
    BY PrivacyAssumption DEF PrIInv, PrTypes
  <2>2. arrived' \in 0 .. MaxRows /\ cursor' \in 0 .. arrived' /\ entry'.id \in 1 .. arrived' /\ entry'.ts <= now'
    BY <1>1, <1>2, <2>1
  <2>3. \A r \in log' : r.ts <= now' /\ r.id \in 1 .. arrived'
    BY <1>2, <2>1 DEF PrIInv, PrTypes
  <2> QED BY <1>1, <1>2, <2>2, <2>3 DEF PrIInv, PrTypes
<1>5. ScrubSteps'
  BY <1>2 DEF PrIInv, ScrubSteps
<1>6. Truth'
  <2>1. Readable(Memory', asked)
    BY <1>1, ReadableStays DEF PrIInv, PrTypes, Truth
  <2>2. Readable(Memory, asked)'
    BY <1>1, <1>2, <2>1 DEF Readable, Honest
  <2> QED BY <1>1, <2>2 DEF Truth
<1>7. OnlyReduced
  BY <1>1, <1>2, <1>3, NothingReduced DEF OnlyReduced
<1>8. MarksDone'
  BY <1>2, <1>7, MarksStayDone
<1>9. ScrubDone'
  <2>1. CASE scrub.at = "no"
    BY <1>2, <2>1, ScrubDoneAtNext
  <2>2. CASE scrub.at # "no"
    BY <1>2, <1>7, <2>2, ScrubStaysDone
  <2> QED BY <2>1, <2>2
<1>10. RowsOfSums'
  BY <1>2, NothingReduced, RowsOfSumsStay
<1> QED BY <1>1, <1>4, <1>5, <1>6, <1>8, <1>9, <1>10 DEF PrIInv

-----------------------------------------------------------------------------
\* What is stored and did not slip in is as the policies want it that it comes under.
LEMMA StoredIsDone ==
  ASSUME PrIInv, entry # Nothing, ~SlippedIn(entry), NEW r, r.ts = entry.ts, r.name = entry.name, r.client = entry.client
  PROVE  /\ r.ts < marks.ts => NameDone(r, marks.strict, asked, renewed) /\ ClientDone(r, marks.level)
         /\ scrub.at # "no" /\ r.ts < scrub.cutoff =>
              NameDone(r, domainStrictness(scrub.policy), asked, renewed) /\ ClientDone(r, scrub.policy.level)
<1>1. PICK p : p = entry.met
  OBVIOUS
<1>2. p \in Policies /\ p.level \in 0 .. 3 /\ p.window \in Nat /\ domainStrictness(p) \in 0 .. MaxDomainK + 1 /\ r.ts \in Nat
      /\ policy \in Policies /\ domainStrictness(policy) \in 0 .. MaxDomainK + 1 /\ policy.level \in 0 .. 3 /\ policy.window \in Nat
  BY <1>1, PolicyFacts DEF PrIInv, PrTypes, Entries
<1>3. /\ marks.level \in 0 .. 3 /\ marks.strict \in 0 .. MaxDomainK + 1 /\ marks.ts \in Nat /\ marks.strict \in Nat
      /\ scrub.policy.level \in 0 .. 3 /\ scrub.cutoff \in Nat
      /\ domainStrictness(scrub.policy) \in 0 .. MaxDomainK + 1 /\ domainStrictness(scrub.policy) \in Nat
      /\ MaxDomainK = 100
  <2>1. marks.level \in 0 .. 3 /\ marks.strict \in 0 .. MaxDomainK + 1 /\ marks.ts \in Nat /\ scrub.policy.level \in 0 .. 3
        /\ scrub.cutoff \in Nat
    BY DEF PrIInv, PrTypes, Marks, Scrubs
  <2>2. domainStrictness(scrub.policy) \in 0 .. MaxDomainK + 1
    <3>1. CASE scrub.at = "no"
      <4>1. scrub.policy.level = 0
        BY <3>1 DEF PrIInv, ScrubSteps, Asleep
      <4> QED BY <4>1 DEF domainStrictness, LevelShowAll, MaxDomainK
    <3>2. CASE scrub.at # "no"
      BY <3>2, ScrubPolicy DEF MaxDomainK
    <3> QED BY <3>1, <3>2
  <2> QED BY <2>1, <2>2 DEF MaxDomainK
<1>4. /\ p.level >= marks.level /\ p.level >= scrub.policy.level
      /\ domainStrictness(p) >= marks.strict /\ domainStrictness(p) >= domainStrictness(scrub.policy)
  <2>1. PICK a, b, c, x, y, z : /\ a = marks.level /\ b = scrub.policy.level /\ c = policy.level
                                /\ x = marks.strict /\ y = domainStrictness(scrub.policy) /\ z = domainStrictness(policy)
    OBVIOUS
  <2>2. {a, b, c, x, y, z} \subseteq Int
    BY <1>2, <1>3, <2>1
  <2>3. ~(p.level < Max({a, b, c})) /\ ~(domainStrictness(p) < Max({x, y, z}))
    BY <1>1, <2>1 DEF SlippedIn
  <2>4. Max({a, b, c}) \in {a, b, c} /\ Max({a, b, c}) >= a /\ Max({a, b, c}) >= b
    BY <2>2, MaxOfThree
  <2>5. Max({x, y, z}) \in {x, y, z} /\ Max({x, y, z}) >= x /\ Max({x, y, z}) >= y
    BY <2>2, MaxOfThree
  <2> HIDE DEF Max
  <2>6. p.level \in Int /\ domainStrictness(p) \in Int
    BY <1>2, <1>3
  <2> QED BY <2>1, <2>2, <2>3, <2>4, <2>5, <2>6
<1>5. r.ts < marks.ts \/ r.ts < scrub.cutoff => r.ts < Cutoff(p) \/ p.window = 0
  <2>1. PICK a, b, c : a = marks.ts /\ b = scrub.cutoff /\ c = Cutoff(policy)
    OBVIOUS
  <2>2. now \in Nat
    BY PrivacyAssumption DEF PrIInv, PrTypes
  <2>3. {a, b, c} \subseteq Int /\ Cutoff(p) \in Int
    BY <1>2, <1>3, <2>1, <2>2 DEF Cutoff
  <2>4. ~(r.ts >= Cutoff(p) /\ p.window > 0 /\ r.ts < Max({a, b, c}))
    BY <1>1, <2>1 DEF SlippedIn
  <2>5. Max({a, b, c}) \in {a, b, c} /\ Max({a, b, c}) >= a /\ Max({a, b, c}) >= b
    BY <2>3, MaxOfThree
  <2> QED BY <1>2, <2>1, <2>3, <2>4, <2>5
<1>6. ReducedTo(r, r) /\ IsFiniteSet(asked)
  BY DEF ReducedTo, PrIInv, PrTypes
<1>7. ASSUME r.ts < Cutoff(p) \/ p.window = 0, p.level # 0
      PROVE  NameDone(r, domainStrictness(p), asked, renewed) /\ (p.level >= LevelHideClients => r.client \notin Clients)
  BY <1>1, <1>7 DEF PrIInv, EntryDone, NameDone, LevelShowAll
<1>8. ASSUME NEW S \in Nat, S <= domainStrictness(p), NEW L \in 0 .. 3, L <= p.level, r.ts < Cutoff(p) \/ p.window = 0
      PROVE  NameDone(r, S, asked, renewed) /\ ClientDone(r, L)
  <2>1. CASE p.level = 0
    <3>1. domainStrictness(p) = 0 /\ S = 0 /\ L = 0
      <4>1. domainStrictness(p) = 0
        BY <2>1 DEF domainStrictness, LevelShowAll
      <4> QED BY <1>2, <1>8, <2>1, <4>1
    <3> QED BY <3>1 DEF NameDone, ClientDone, MaxDomainK, LevelHideClients
  <2>2. CASE p.level # 0
    <3>1. NameDone(r, S, asked, renewed)
      <4>1. PICK D : D = domainStrictness(p)
        OBVIOUS
      <4>2. D \in Nat /\ S <= D /\ D <= MaxDomainK + 1 /\ NameDone(r, D, asked, renewed)
        BY <1>2, <1>3, <1>7, <1>8, <2>2, <4>1
      <4> QED BY <1>6, <4>2, LessIsDone
    <3>2. ClientDone(r, L)
      BY <1>2, <1>7, <1>8, <2>2 DEF ClientDone, LevelHideClients
    <3> QED BY <3>1, <3>2
  <2> QED BY <2>1, <2>2
<1>9. r.ts < marks.ts => NameDone(r, marks.strict, asked, renewed) /\ ClientDone(r, marks.level)
  BY <1>3, <1>4, <1>5, <1>8
<1>10. scrub.at # "no" /\ r.ts < scrub.cutoff =>
              NameDone(r, domainStrictness(scrub.policy), asked, renewed) /\ ClientDone(r, scrub.policy.level)
  BY <1>3, <1>4, <1>5, <1>8
<1> QED BY <1>9, <1>10

\* is stored,
LEMMA InsertStays ==
  ASSUME PrIInv, InsertNodeQueryLog
  PROVE  PrIInv'
<1>1. /\ entry # Nothing /\ entry' = Nothing
      /\ UNCHANGED <<now, policy, asked, arrived, cursor, rollup, keys, made, renewed, tracker, marks, scrub, torn>>
  BY DEF InsertNodeQueryLog
<1>2. Memory' = Memory
  BY <1>1, MemoryIs DEF Kept
<1>3. PICK r : r = [ts |-> entry.ts, id |-> entry.id, name |-> entry.name, client |-> entry.client,
                    slipped |-> SlippedIn(entry), left |-> FALSE]
  OBVIOUS
<1>4. log' \in {log, log \cup {r}}
  BY <1>3 DEF InsertNodeQueryLog
<1>5. entry \in Entries /\ entry.ts <= now /\ entry.id \in 1 .. arrived /\ Keyed(entry.client, Memory) /\ Honest(entry, asked)
  BY <1>1 DEF PrIInv, PrTypes, Truth
<1>6. /\ r \in Rows /\ r.ts <= now /\ r.id \in 1 .. arrived /\ Keyed(r.client, Memory) /\ Honest(r, asked)
      /\ r.ts = entry.ts /\ r.name = entry.name /\ r.client = entry.client /\ r.slipped = SlippedIn(entry)
  <2>1. SlippedIn(entry) \in BOOLEAN
    BY DEF SlippedIn
  <2> QED BY <1>3, <1>5, <2>1 DEF Entries, Rows, Honest
<1>7. PrTypes'
  <2>1. log' \subseteq Rows /\ \A x \in log' : x.ts <= now /\ x.id \in 1 .. arrived
    BY <1>4, <1>6 DEF PrIInv, PrTypes
  <2> QED BY <1>1, <1>2, <2>1 DEF PrIInv, PrTypes
<1>8. ScrubSteps'
  BY <1>1 DEF PrIInv, ScrubSteps
<1>9. Truth'
  <2>1. Readable(Memory, asked) /\ TrueCounts(Memory, asked)
    BY DEF PrIInv, Truth
  <2>2. Readable(Memory, asked)'
    BY <1>1, <1>2, <1>4, <1>6, <2>1 DEF Readable, Honest
  <2> QED BY <1>1, <1>2, <2>1, <2>2 DEF Truth
<1>10. EntryDone'
  BY <1>1 DEF EntryDone
<1>11. ~r.slipped => ~SlippedIn(entry)
  BY <1>6
<1>12. MarksDone'
  BY <1>1, <1>4, <1>6, <1>11, StoredIsDone DEF PrIInv, MarksDone
<1>13. ScrubDone'
  <2> SUFFICES ASSUME ~torn, scrub.at # "no" PROVE ScrubAt(scrub, log', rollup, asked, renewed)
    BY <1>1, ScrubDoneAtNext
  <2>1. ScrubAt(scrub, log, rollup, asked, renewed)
    BY ScrubDoneAt DEF PrIInv
  <2>2. ASSUME NEW x \in log', ~x.slipped, x.ts < scrub.cutoff
        PROVE  /\ (x.ts < NamesTo(scrub) => NameDone(x, domainStrictness(scrub.policy), asked, renewed))
               /\ (x.ts < ClientsTo(scrub) => ClientDone(x, scrub.policy.level))
    <3>1. CASE x \in log
      BY <2>1, <2>2, <3>1 DEF ScrubAt
    <3>2. CASE x = r
      <4>1. NameDone(r, domainStrictness(scrub.policy), asked, renewed) /\ ClientDone(r, scrub.policy.level)
        BY <1>1, <1>6, <1>11, <2>2, <3>2, StoredIsDone
      <4> QED BY <3>2, <4>1
    <3> QED BY <1>4, <3>1, <3>2
  <2> QED BY <2>1, <2>2 DEF ScrubAt
<1>14. RowsOfSums'
  BY <1>1, <1>4 DEF PrIInv, RowsOfSums
<1> QED BY <1>7, <1>8, <1>9, <1>10, <1>12, <1>13, <1>14 DEF PrIInv

\* and is folded into the rollup;
LEMMA RollupStays ==
  ASSUME PrIInv, RollupAdvance
  PROVE  PrIInv'
<1>1. UNCHANGED <<now, policy, log, entry, asked, arrived, keys, made, renewed, tracker, marks, scrub, torn, changes>>
  BY DEF RollupAdvance
<1>2. Memory' = Memory
  BY <1>1, MemoryIs DEF Kept
<1>3. PICK upto \in {r.id : r \in log} :
        /\ cursor < upto /\ cursor' = upto
        /\ rollup' = rollup \cup {[ts |-> r.ts, client |-> r.client, slipped |-> r.slipped, left |-> r.left] :
                             r \in {s \in log : cursor < s.id /\ s.id <= upto /\ s.client # NoClient}}
  BY DEF RollupAdvance
<1>4. \A e \in rollup' : \/ e \in rollup
                         \/ \E r \in log : /\ e.ts = r.ts /\ e.client = r.client /\ e.slipped = r.slipped /\ e.left = r.left
                                           /\ e \in Sums
  <2> SUFFICES ASSUME NEW e \in rollup', e \notin rollup
               PROVE  \E r \in log : /\ e.ts = r.ts /\ e.client = r.client /\ e.slipped = r.slipped /\ e.left = r.left
                                     /\ e \in Sums
    OBVIOUS
  <2>1. PICK r \in log : /\ e = [ts |-> r.ts, client |-> r.client, slipped |-> r.slipped, left |-> r.left]
                         /\ r.client # NoClient
    BY <1>3
  <2>2. e \in Sums
    BY <2>1 DEF PrIInv, PrTypes, Rows, Sums, Whoever
  <2> QED BY <2>1, <2>2
<1>5. PrTypes'
  <2>1. cursor' \in 0 .. arrived
    BY <1>3, PrivacyAssumption DEF PrIInv, PrTypes, Rows
  <2>2. rollup' \subseteq Sums
    BY <1>4 DEF PrIInv, PrTypes
  <2> QED BY <1>1, <1>2, <2>1, <2>2 DEF PrIInv, PrTypes
<1>6. ScrubSteps'
  BY <1>1 DEF PrIInv, ScrubSteps
<1>7. Truth'
  BY <1>1, <1>2 DEF PrIInv, Truth, Readable, Honest
<1>8. EntryDone'
  BY <1>1 DEF PrIInv, EntryDone, Cutoff
<1>9. MarksDone'
  BY <1>1, <1>4 DEF PrIInv, MarksDone, ClientDone
<1>10. ScrubDone'
  <2> SUFFICES ASSUME ~torn, scrub.at # "no" PROVE ScrubAt(scrub, log, rollup', asked, renewed)
    BY <1>1, ScrubDoneAtNext
  <2>1. ScrubAt(scrub, log, rollup, asked, renewed)
    BY ScrubDoneAt DEF PrIInv
  <2>2. ASSUME NEW r \in log, ~r.slipped, r.ts < scrub.cutoff, r.ts < SumsTo(scrub) PROVE ClientDone(r, scrub.policy.level)
    <3>1. r.ts < ClientsTo(scrub) \/ ~(scrub.policy.level >= LevelHideClients)
      <4>1. scrub.policy.level \in 1 .. 3 /\ scrub.at \in Stages
        BY ScrubPolicy DEF PrIInv, PrTypes, Scrubs
      <4>2. scrub.at = "clients" => scrub.policy.level = LevelHideClients
        BY DEF PrIInv, ScrubSteps
      <4>3. scrub.at \in {"names", "clients"} /\ scrub.policy.level = LevelHideClients => scrub.from <= scrub.lo
        BY DEF PrIInv, ScrubSteps
      <4>4. scrub.from \in Nat /\ scrub.lo \in Nat /\ scrub.cutoff \in Nat /\ r.ts \in Nat
        BY DEF PrIInv, PrTypes, Scrubs, Rows
      <4> QED BY <2>2, <4>1, <4>2, <4>3, <4>4 DEF ClientsTo, SumsTo, Stages, LevelHideClients
    <3> QED BY <2>1, <2>2, <3>1 DEF ScrubAt, ClientDone
  <2> QED BY <1>4, <2>1, <2>2 DEF ScrubAt, ClientDone
<1>11. RowsOfSums'
  BY <1>1, <1>4 DEF PrIInv, RowsOfSums
<1> QED BY <1>5, <1>6, <1>7, <1>8, <1>9, <1>10, <1>11 DEF PrIInv

-----------------------------------------------------------------------------
-----------------------------------------------------------------------------
(* Time, the operator, and the ends of a scrub.                            *)

\* time passes;
LEMMA TickStays ==
  ASSUME PrIInv, Tick
  PROVE  PrIInv'
<1>1. /\ now < MaxNow /\ entry = Nothing /\ now' = now + 1
      /\ UNCHANGED <<policy, log, entry, asked, arrived, cursor, rollup, keys, made, renewed, tracker, marks, scrub, torn, changes>>
  BY DEF Tick
<1>2. Memory' = Memory
  BY <1>1, MemoryIs DEF Kept
<1>3. PrTypes'
  <2>1. now \in 0 .. MaxNow /\ MaxNow \in Nat /\ (\A r \in log : r.ts <= now /\ r.ts \in Nat) /\ marks.ts <= now /\ scrub.cutoff <= now
        /\ marks.ts \in Nat /\ scrub.cutoff \in Nat
    BY PrivacyAssumption DEF PrIInv, PrTypes, Rows, Marks, Scrubs
  <2>2. now' \in 0 .. MaxNow /\ (\A r \in log : r.ts <= now') /\ marks.ts <= now' /\ scrub.cutoff <= now'
    BY <1>1, <2>1
  <2> QED BY <1>1, <1>2, <2>2 DEF PrIInv, PrTypes
<1>4. ScrubSteps' /\ RowsOfSums'
  BY <1>1 DEF PrIInv, ScrubSteps, RowsOfSums
<1>5. Truth'
  BY <1>1, <1>2 DEF PrIInv, Truth, Readable, Honest
<1>6. EntryDone'
  BY <1>1 DEF EntryDone
<1>7. MarksDone'
  BY <1>1 DEF PrIInv, MarksDone
<1>8. ScrubDone'
  BY <1>1, ScrubDoneAt, ScrubDoneAtNext DEF PrIInv
<1> QED BY <1>3, <1>4, <1>5, <1>6, <1>7, <1>8 DEF PrIInv

\* the policy changes;
LEMMA SetPolicyStays ==
  ASSUME PrIInv, NEW p \in Policies, SetPolicy(p)
  PROVE  PrIInv'
<1>1. /\ policy' = p
      /\ UNCHANGED <<now, log, entry, asked, arrived, cursor, rollup, keys, made, renewed, tracker, marks, scrub, torn>>
  BY DEF SetPolicy
<1>2. Memory' = Memory
  BY <1>1, MemoryIs DEF Kept
<1>3. PrTypes'
  BY <1>1, <1>2 DEF PrIInv, PrTypes
<1>4. ScrubSteps' /\ RowsOfSums'
  BY <1>1 DEF PrIInv, ScrubSteps, RowsOfSums
<1>5. Truth'
  BY <1>1, <1>2 DEF PrIInv, Truth, Readable, Honest
<1>6. EntryDone'
  BY <1>1, EntryStaysDone DEF PrIInv, PrTypes
<1>7. MarksDone'
  BY <1>1 DEF PrIInv, MarksDone
<1>8. ScrubDone'
  BY <1>1, ScrubDoneAt, ScrubDoneAtNext DEF PrIInv
<1> QED BY <1>3, <1>4, <1>5, <1>6, <1>7, <1>8 DEF PrIInv

\* (no scrub is a scrub)
LEMMA AsleepIsAScrub == Asleep \in Scrubs /\ Asleep.at = "no" /\ Asleep.cutoff = 0
BY DEF Asleep, Scrubs, Stages

\* the control plane restarts;
LEMMA RestartStays ==
  ASSUME PrIInv, Restart
  PROVE  PrIInv'
<1>1. /\ entry' = Nothing /\ tracker' = NoCounts(0) /\ scrub' = Asleep /\ torn' = (torn \/ scrub.at = "mark")
      /\ UNCHANGED <<now, policy, log, asked, arrived, cursor, rollup, keys, made, renewed, marks>>
  BY DEF Restart, Ends
<1>2. NoCounts(0) \in Trackers /\ \A d \in Days : NoCounts(0).days[d].names = {}
  BY DEF NoCounts, Uncounted, Trackers, DayCounts
<1>3. Memory \in Memories /\ Memory'.tracker = NoCounts(0) /\ Memory' = Mem(keys, made, renewed, NoCounts(0))
  BY <1>1, MemoryIs DEF PrIInv, PrTypes, Memory, Mem
<1>4. Memory' \in Memories /\ KeysStay(Memory, Memory') /\ TrueCounts(Memory', asked)
  <2>1. Memory' \in Memories
    BY <1>2, <1>3 DEF Memories, Memory, Mem
  <2>2. KeysStay(Memory, Memory')
    BY <1>1, <1>3, MemoryIs DEF KeysStay, Memories
  <2>3. TrueCounts(Memory', asked)
    BY <1>2, <1>3 DEF TrueCounts
  <2> QED BY <2>1, <2>2, <2>3
<1>5. PrTypes'
  <2>1. scrub' \in Scrubs /\ scrub'.cutoff <= now /\ torn' \in BOOLEAN
    BY <1>1, AsleepIsAScrub, PrivacyAssumption DEF PrIInv, PrTypes
  <2> QED BY <1>1, <1>4, <2>1 DEF PrIInv, PrTypes
<1>6. ScrubSteps' /\ RowsOfSums' /\ EntryDone'
  BY <1>1, AsleepIsAScrub DEF PrIInv, ScrubSteps, RowsOfSums, EntryDone
<1>7. Truth'
  <2>1. \A s \in log' : \E r \in log : ReducedTo(r, s) /\ (s.client = r.client \/ Keyed(s.client, Memory'))
    BY <1>1 DEF ReducedTo
  <2>2. log' \subseteq Rows /\ asked \subseteq asked' /\ TrueCounts(Memory', asked')
    BY <1>1, <1>4 DEF PrIInv, PrTypes
  <2> QED BY <1>1, <1>4, <2>1, <2>2, TruthStays
<1>8. OnlyReduced
  BY <1>1, NothingReduced DEF OnlyReduced, PrIInv, PrTypes
<1>9. MarksDone'
  BY <1>1, <1>8, MarksStayDone
<1>10. ScrubDone'
  BY <1>1, AsleepIsAScrub, ScrubDoneAtNext
<1> QED BY <1>5, <1>6, <1>7, <1>9, <1>10 DEF PrIInv

\* a scrub fails;
LEMMA ScrubFailsStays ==
  ASSUME PrIInv, ScrubFails
  PROVE  PrIInv'
<1>1. /\ scrub' = Asleep /\ torn' = (torn \/ scrub.at = "mark")
      /\ UNCHANGED <<now, policy, entry, log, asked, arrived, cursor, rollup, keys, made, renewed, tracker, marks>>
  BY DEF ScrubFails, Ends, Kept
<1>2. Memory' = Memory
  BY <1>1, MemoryIs DEF Kept
<1>3. PrTypes'
  <2>1. scrub' \in Scrubs /\ scrub'.cutoff <= now /\ torn' \in BOOLEAN
    BY <1>1, AsleepIsAScrub, PrivacyAssumption DEF PrIInv, PrTypes
  <2> QED BY <1>1, <1>2, <2>1 DEF PrIInv, PrTypes
<1>4. ScrubSteps' /\ RowsOfSums'
  BY <1>1, AsleepIsAScrub DEF PrIInv, ScrubSteps, RowsOfSums
<1>5. Truth'
  BY <1>1, <1>2 DEF PrIInv, Truth, Readable, Honest
<1>6. EntryDone'
  BY <1>1, EntryStaysDone DEF PrIInv, PrTypes
<1>7. OnlyReduced
  BY <1>1, NothingReduced DEF OnlyReduced, PrIInv, PrTypes
<1>8. MarksDone'
  BY <1>1, <1>7, MarksStayDone
<1>9. ScrubDone'
  BY <1>1, AsleepIsAScrub, ScrubDoneAtNext
<1> QED BY <1>3, <1>4, <1>5, <1>6, <1>8, <1>9 DEF PrIInv

\* a scrub stores how strict it was: by then all of it is done;
LEMMA MarkStays ==
  ASSUME PrIInv, Mark
  PROVE  PrIInv'
<1>1. /\ scrub.at = "mark" /\ scrub' = Asleep
      /\ marks' = [marks EXCEPT !.strict = domainStrictness(scrub.policy), !.level = scrub.policy.level]
      /\ UNCHANGED <<now, policy, entry, log, asked, arrived, cursor, rollup, keys, made, renewed, tracker, torn>>
  BY DEF Mark, Stored, Kept
<1>2. Memory' = Memory
  BY <1>1, MemoryIs DEF Kept
<1>3. /\ marks' \in Marks /\ marks'.ts = marks.ts /\ marks.ts = scrub.cutoff
      /\ marks'.strict = domainStrictness(scrub.policy) /\ marks'.level = scrub.policy.level
  <2>1. marks \in Marks /\ marks.ts = scrub.cutoff /\ scrub.at # "no"
    BY <1>1 DEF PrIInv, PrTypes, ScrubSteps
  <2>2. PICK S, L : S = domainStrictness(scrub.policy) /\ L = scrub.policy.level
    OBVIOUS
  <2>3. S \in 0 .. MaxDomainK + 1 /\ L \in 0 .. 3
    BY <2>1, <2>2, ScrubPolicy DEF MaxDomainK
  <2>4. marks' = [marks EXCEPT !.strict = S, !.level = L]
    BY <1>1, <2>2
  <2> QED BY <2>1, <2>2, <2>3, <2>4 DEF Marks
<1>4. PrTypes'
  <2>1. scrub' \in Scrubs /\ scrub'.cutoff <= now
    BY <1>1, AsleepIsAScrub, PrivacyAssumption DEF PrIInv, PrTypes
  <2> QED BY <1>1, <1>2, <1>3, <2>1 DEF PrIInv, PrTypes
<1>5. ScrubSteps' /\ RowsOfSums'
  BY <1>1, AsleepIsAScrub DEF PrIInv, ScrubSteps, RowsOfSums
<1>6. Truth'
  BY <1>1, <1>2 DEF PrIInv, Truth, Readable, Honest
<1>7. EntryDone'
  BY <1>1, EntryStaysDone DEF PrIInv, PrTypes
<1>8. MarksDone'
  <2> SUFFICES ASSUME ~torn
               PROVE  /\ \A r \in log : ~r.slipped /\ r.ts < scrub.cutoff =>
                           NameDone(r, domainStrictness(scrub.policy), asked, renewed) /\ ClientDone(r, scrub.policy.level)
                      /\ \A e \in rollup : ~e.slipped /\ e.ts < scrub.cutoff => ClientDone(e, scrub.policy.level)
    BY <1>1, <1>3 DEF MarksDone
  <2>1. ScrubAt(scrub, log, rollup, asked, renewed)
    BY <1>1, ScrubDoneAt DEF PrIInv
  <2>2. NamesTo(scrub) = scrub.cutoff /\ ClientsTo(scrub) = scrub.cutoff /\ SumsTo(scrub) = scrub.cutoff
    BY <1>1 DEF NamesTo, ClientsTo, SumsTo
  <2> QED BY <2>1, <2>2 DEF ScrubAt
<1>9. ScrubDone'
  BY <1>1, AsleepIsAScrub, ScrubDoneAtNext
<1> QED BY <1>4, <1>5, <1>6, <1>7, <1>8, <1>9 DEF PrIInv

\* a scrub drops the keys of days past, which are then renewed if they are used again;
LEMMA PruneStays ==
  ASSUME PrIInv, Prune
  PROVE  PrIInv'
<1>1. /\ scrub.at = "prune" /\ scrub' = [scrub EXCEPT !.at = "mark"]
      /\ keys' = [d \in Days |-> IF d < Day(scrub.cutoff) THEN 0 ELSE keys[d]]
      /\ renewed' = renewed \cup {d \in Days : d < Day(scrub.cutoff) /\ keys[d] # 0}
      /\ tracker' = [tracker EXCEPT !.days = [d \in Days |-> IF d + 1 < Day(scrub.cutoff) THEN Uncounted ELSE tracker.days[d]]]
      /\ marks' = [marks EXCEPT !.ts = scrub.cutoff]
      /\ UNCHANGED <<now, policy, entry, log, asked, arrived, cursor, rollup, made, torn>>
  BY DEF Prune, Stored, prune
<1>2. PICK z : z = Day(scrub.cutoff)
  OBVIOUS
<1>3. z \in Nat /\ scrub.cutoff \in Nat
  <2>1. scrub.cutoff \in 0 .. MaxNow
    BY PrivacyAssumption DEF PrIInv, PrTypes, Scrubs
  <2> QED BY <1>2, <2>1, DayIsADay
<1>4. /\ keys \in [Days -> Nat] /\ made \in Nat /\ (\A d \in Days : keys[d] <= made) /\ renewed \subseteq Days /\ tracker \in Trackers
      /\ Days \subseteq Nat
  BY MemoryIs DEF PrIInv, PrTypes, Memories, Days
<1>5. PICK ds : ds = [d \in Days |-> IF d + 1 < z THEN Uncounted ELSE tracker.days[d]]
  OBVIOUS
<1>6. /\ tracker' = [tracker EXCEPT !.days = ds] /\ ds \in [Days -> DayCounts]
      /\ tracker' \in Trackers /\ tracker'.days = ds
  <2>1. Uncounted \in DayCounts
    BY DEF Uncounted, DayCounts
  <2>2. ds \in [Days -> DayCounts]
    BY <1>4, <1>5, <2>1 DEF Trackers
  <2>3. tracker' = [tracker EXCEPT !.days = ds]
    BY <1>1, <1>2, <1>5
  <2> QED BY <1>4, <2>2, <2>3 DEF Trackers
<1>7. keys' \in [Days -> Nat] /\ (\A d \in Days : keys'[d] <= made) /\ renewed' \subseteq Days
  BY <1>1, <1>4
<1>8. Memory' \in Memories
  BY <1>1, <1>4, <1>6, <1>7 DEF Memories, Memory, Mem
<1>9. PrTypes'
  <2>1. marks' \in Marks /\ marks'.ts <= now
    BY <1>1, <1>3 DEF PrIInv, PrTypes, Marks
  <2>2. scrub' \in Scrubs /\ scrub'.cutoff <= now
    BY <1>1 DEF PrIInv, PrTypes, Scrubs, Stages
  <2> QED BY <1>1, <1>8, <2>1, <2>2 DEF PrIInv, PrTypes
<1>10. ScrubSteps' /\ RowsOfSums'
  <2>1. scrub'.at = "mark" /\ scrub'.policy = scrub.policy /\ scrub'.cutoff = scrub.cutoff /\ marks'.ts = scrub.cutoff
    BY <1>1 DEF PrIInv, PrTypes, Scrubs, Marks
  <2> QED BY <1>1, <2>1 DEF PrIInv, ScrubSteps, RowsOfSums
<1>11. Truth'
  <2>1. ASSUME NEW c, Keyed(c, Memory) PROVE Keyed(c, Memory')
    <3> SUFFICES ASSUME c \in Pseudonyms, c.day \in Days, c.day \notin renewed' PROVE c.key = keys'[c.day] /\ c.key # 0
      BY <2>1, MemoryIs DEF Keyed
    <3>1. c.day \notin renewed /\ c.key = keys[c.day] /\ c.key # 0
      BY <1>1, <2>1, MemoryIs DEF Keyed
    <3>2. ~(c.day < Day(scrub.cutoff))
      BY <1>1, <3>1
    <3> QED BY <1>1, <3>1, <3>2
  <2>2. Readable(Memory, asked)'
    BY <1>1, <2>1 DEF PrIInv, Truth, Readable, Honest
  <2>3. entry' # Nothing => Keyed(entry'.client, Memory') /\ Honest(entry', asked')
    BY <1>1, <2>1 DEF PrIInv, Truth
  <2>4. TrueCounts(Memory', asked)
    <3> SUFFICES ASSUME renewed' = {}, NEW d \in Days, NEW p \in ds[d].names PROVE CountedAsked(p, d, Memory', asked)
      BY <1>6, MemoryIs DEF TrueCounts
    <3>1. renewed = {} /\ p \in tracker.days[d].names
      BY <1>1, <1>5 DEF Uncounted
    <3>2. CountedAsked(p, d, Memory, asked)
      BY <3>1, MemoryIs DEF PrIInv, Truth, TrueCounts
    <3> SUFFICES ASSUME p[1] \in Names
                 PROVE  p[2].day = d /\ keys'[d] # 0 /\ p[2].key = keys'[d] /\ <<p[1], p[2].of, d>> \in asked
      BY MemoryIs DEF CountedAsked
    <3>3. p[2].day = d /\ keys[d] # 0 /\ p[2].key = keys[d] /\ <<p[1], p[2].of, d>> \in asked
      BY <3>2, MemoryIs DEF CountedAsked
    <3>4. ~(d < Day(scrub.cutoff))
      BY <1>1, <3>3
    <3> QED BY <1>1, <3>3, <3>4
  <2> QED BY <1>1, <2>2, <2>3, <2>4 DEF Truth
<1>12. renewed \subseteq renewed' /\ asked \subseteq asked' /\ IsFiniteSet(asked')
  BY <1>1 DEF PrIInv, PrTypes
<1>13. EntryDone'
  BY <1>1, <1>12, EntryStaysDone
<1>14. scrub'.at = "mark" /\ scrub'.policy = scrub.policy /\ scrub'.cutoff = scrub.cutoff
  BY <1>1 DEF PrIInv, PrTypes, Scrubs
<1>15. MarksDone'
  BY <1>14 DEF MarksDone
<1>16. ScrubDone'
  <2>1. OnlyReduced
    BY <1>1, <1>12, NothingReduced DEF OnlyReduced
  <2>2. /\ NamesTo(scrub') = scrub.cutoff /\ ClientsTo(scrub') = scrub.cutoff /\ SumsTo(scrub') = scrub.cutoff
        /\ NamesTo(scrub) = scrub.cutoff /\ ClientsTo(scrub) = scrub.cutoff /\ SumsTo(scrub) = scrub.cutoff
    BY <1>1, <1>14 DEF NamesTo, ClientsTo, SumsTo
  <2> QED BY <1>1, <1>14, <2>1, <2>2, ScrubStaysDone
<1> QED BY <1>9, <1>10, <1>11, <1>13, <1>15, <1>16 DEF PrIInv

-----------------------------------------------------------------------------
-----------------------------------------------------------------------------
(* The scrubber, once the days are done.                                   *)

\* a scrub that hides names only leaves the rollup alone;
LEMMA OnlyNamesStays ==
  ASSUME PrIInv, OnlyNames
  PROVE  PrIInv'
<1>1. /\ scrub.at = "rollup" /\ scrub.policy.level = LevelHideDomains /\ scrub' = [scrub EXCEPT !.at = "prune"]
      /\ UNCHANGED <<now, policy, entry, log, asked, arrived, cursor, rollup, keys, made, renewed, tracker, marks, torn>>
  BY DEF OnlyNames, Stored, Kept
<1>2. Memory' = Memory
  BY <1>1, MemoryIs DEF Kept
<1>3. /\ scrub' \in Scrubs /\ scrub'.at = "prune" /\ scrub'.policy = scrub.policy /\ scrub'.cutoff = scrub.cutoff
      /\ scrub'.cutoff <= now
  BY <1>1 DEF PrIInv, PrTypes, Scrubs, Stages
<1>4. PrTypes'
  BY <1>1, <1>2, <1>3 DEF PrIInv, PrTypes
<1>5. ScrubSteps' /\ RowsOfSums'
  BY <1>1, <1>3 DEF PrIInv, ScrubSteps, RowsOfSums
<1>6. Truth'
  BY <1>1, <1>2 DEF PrIInv, Truth, Readable, Honest
<1>7. EntryDone'
  BY <1>1, EntryStaysDone DEF PrIInv, PrTypes
<1>8. OnlyReduced
  BY <1>1, NothingReduced DEF OnlyReduced, PrIInv, PrTypes
<1>9. MarksDone'
  BY <1>1, <1>3, <1>8, MarksStayDone
<1>10. ScrubDone'
  <2> SUFFICES ASSUME ~torn PROVE ScrubAt(scrub', log, rollup, asked, renewed)
    BY <1>1, ScrubDoneAtNext
  <2>1. ScrubAt(scrub, log, rollup, asked, renewed)
    BY <1>1, ScrubDoneAt DEF PrIInv
  <2>2. NamesTo(scrub') = scrub.cutoff /\ NamesTo(scrub) = scrub.cutoff
    BY <1>1, <1>3 DEF NamesTo
  <2>3. \A r : ClientDone(r, scrub.policy.level)
    BY <1>1 DEF ClientDone, LevelHideDomains, LevelHideClients
  <2> QED BY <1>3, <2>1, <2>2, <2>3 DEF ScrubAt
<1> QED BY <1>4, <1>5, <1>6, <1>7, <1>9, <1>10 DEF PrIInv

\* an anonymous one deletes the rollup,
LEMMA DeleteClientRollupStays ==
  ASSUME PrIInv, DeleteClientRollup
  PROVE  PrIInv'
<1>1. /\ scrub.at = "delete" /\ scrub' = [scrub EXCEPT !.at = "prune"] /\ rollup' \subseteq rollup
      /\ UNCHANGED <<now, policy, entry, log, asked, arrived, cursor, keys, made, renewed, tracker, marks, torn>>
  BY DEF DeleteClientRollup, Stored, Kept
<1>2. Memory' = Memory
  BY <1>1, MemoryIs DEF Kept
<1>3. /\ scrub' \in Scrubs /\ scrub'.at = "prune" /\ scrub'.policy = scrub.policy /\ scrub'.cutoff = scrub.cutoff
      /\ scrub'.cutoff <= now /\ scrub.policy.level = LevelAnonymous
  BY <1>1 DEF PrIInv, PrTypes, Scrubs, Stages, ScrubSteps
<1>4. PrTypes'
  BY <1>1, <1>2, <1>3 DEF PrIInv, PrTypes
<1>5. ScrubSteps' /\ RowsOfSums'
  BY <1>1, <1>3 DEF PrIInv, ScrubSteps, RowsOfSums
<1>6. Truth'
  BY <1>1, <1>2 DEF PrIInv, Truth, Readable, Honest
<1>7. EntryDone'
  BY <1>1, EntryStaysDone DEF PrIInv, PrTypes
<1>8. OnlyReduced
  <2>1. \A f \in rollup' : \E e \in rollup : SumReducedTo(e, f)
    BY <1>1 DEF SumReducedTo
  <2> QED BY <1>1, <2>1, NothingReduced DEF OnlyReduced, PrIInv, PrTypes
<1>9. MarksDone'
  BY <1>1, <1>3, <1>8, MarksStayDone
<1>10. ScrubDone'
  <2>1. /\ NamesTo(scrub') = scrub.cutoff /\ ClientsTo(scrub') = scrub.cutoff /\ SumsTo(scrub') = scrub.cutoff
        /\ NamesTo(scrub) = scrub.cutoff /\ ClientsTo(scrub) = scrub.cutoff /\ SumsTo(scrub) = scrub.cutoff
    BY <1>1, <1>3 DEF NamesTo, ClientsTo, SumsTo
  <2> QED BY <1>1, <1>3, <1>8, <2>1, ScrubStaysDone
<1> QED BY <1>4, <1>5, <1>6, <1>7, <1>9, <1>10 DEF PrIInv

\* once it deleted the rows that are counted: what it could not delete is left behind;
LEMMA DeleteRolledUpStays ==
  ASSUME PrIInv, DeleteRolledUpQueryLog
  PROVE  PrIInv'
<1>1. /\ scrub.at = "rollup" /\ scrub.policy.level = LevelAnonymous /\ scrub' = [scrub EXCEPT !.at = "delete"]
      /\ UNCHANGED <<now, policy, entry, asked, arrived, cursor, keys, made, renewed, tracker, marks, torn>>
  BY DEF DeleteRolledUpQueryLog, Stored, Kept
<1>2. /\ log' = {[r EXCEPT !.left = @ \/ r.ts < scrub.cutoff] : r \in {s \in log : ~(s.ts < scrub.cutoff /\ s.id <= cursor)}}
      /\ rollup' = {[e EXCEPT !.left = @ \/ e.ts <= scrub.cutoff] : e \in rollup}
  BY DEF DeleteRolledUpQueryLog
<1>3. Memory' = Memory
  BY <1>1, MemoryIs DEF Kept
<1>4. /\ scrub' \in Scrubs /\ scrub'.at = "delete" /\ scrub'.policy = scrub.policy /\ scrub'.cutoff = scrub.cutoff
      /\ scrub'.cutoff <= now
  BY <1>1 DEF PrIInv, PrTypes, Scrubs, Stages
<1>5. log \subseteq Rows /\ rollup \subseteq Sums /\ scrub.cutoff \in Nat
  BY DEF PrIInv, PrTypes, Scrubs
<1>6. ASSUME NEW s \in log'
      PROVE  /\ s \in Rows /\ (s.ts < scrub.cutoff => s.left)
             /\ \E r \in log : ReducedTo(r, s) /\ s.client = r.client
  <2>1. PICK r \in log : s = [r EXCEPT !.left = @ \/ r.ts < scrub.cutoff]
    BY <1>2
  <2>2. r \in Rows
    BY <1>5
  <2>3. /\ s.ts = r.ts /\ s.id = r.id /\ s.name = r.name /\ s.client = r.client /\ s.slipped = r.slipped
        /\ s.left = (r.left \/ r.ts < scrub.cutoff) /\ s \in Rows
    BY <2>1, <2>2 DEF Rows
  <2> QED BY <2>3 DEF ReducedTo
<1>7. ASSUME NEW f \in rollup'
      PROVE  f \in Sums /\ (f.ts <= scrub.cutoff => f.left) /\ \E e \in rollup : SumReducedTo(e, f)
  <2>1. PICK e \in rollup : f = [e EXCEPT !.left = @ \/ e.ts <= scrub.cutoff]
    BY <1>2
  <2>2. e \in Sums
    BY <1>5
  <2>3. /\ f.ts = e.ts /\ f.client = e.client /\ f.slipped = e.slipped
        /\ f.left = (e.left \/ e.ts <= scrub.cutoff) /\ f \in Sums
    BY <2>1, <2>2 DEF Sums
  <2> QED BY <2>3 DEF SumReducedTo
<1>8. PrTypes'
  <2>1. log' \subseteq Rows /\ \A s \in log' : s.ts <= now /\ s.id \in 1 .. arrived
    BY <1>6 DEF ReducedTo, PrIInv, PrTypes
  <2>2. rollup' \subseteq Sums
    BY <1>7
  <2> QED BY <1>1, <1>3, <1>4, <2>1, <2>2 DEF PrIInv, PrTypes
<1>9. ScrubSteps'
  BY <1>1, <1>4 DEF PrIInv, ScrubSteps
<1>10. Truth'
  <2>1. Memory' \in Memories /\ KeysStay(Memory, Memory') /\ TrueCounts(Memory', asked')
    BY <1>1, <1>3, TrueStill
  <2>2. \A s \in log' : \E r \in log : ReducedTo(r, s) /\ (s.client = r.client \/ Keyed(s.client, Memory'))
    BY <1>6
  <2>3. log' \subseteq Rows
    BY <1>6
  <2> QED BY <1>1, <2>1, <2>2, <2>3, TruthStays
<1>11. EntryDone'
  BY <1>1, EntryStaysDone DEF PrIInv, PrTypes
<1>12. OnlyReduced
  BY <1>1, <1>6, <1>7 DEF OnlyReduced, PrIInv, PrTypes
<1>13. MarksDone'
  BY <1>1, <1>4, <1>12, MarksStayDone
<1>14. ScrubDone'
  <2> SUFFICES ASSUME ~torn PROVE ScrubAt(scrub', log', rollup', asked', renewed')
    BY <1>1, ScrubDoneAtNext
  <2>1. ScrubAt(scrub, log, rollup, asked, renewed)
    BY <1>1, ScrubDoneAt DEF PrIInv
  <2>2. NamesTo(scrub') = scrub.cutoff /\ NamesTo(scrub) = scrub.cutoff
    BY <1>1, <1>4 DEF NamesTo
  <2>3. PICK S : S = domainStrictness(scrub.policy)
    OBVIOUS
  <2>4. S \in Nat
    BY <1>1, <2>3, ScrubPolicy
  <2>5. ASSUME NEW s \in log', ~s.slipped, s.ts < scrub.cutoff
        PROVE  NameDone(s, S, asked', renewed') /\ ClientDone(s, scrub.policy.level)
    <3>1. PICK r \in log : ReducedTo(r, s)
      BY <1>6
    <3>2. NameDone(r, S, asked, renewed)
      BY <2>1, <2>2, <2>3, <2>5, <3>1 DEF ScrubAt, ReducedTo
    <3>3. NameDone(s, S, asked', renewed')
      BY <1>12, <2>4, <3>1, <3>2, NameStaysDone DEF OnlyReduced
    <3> QED BY <1>6, <2>5, <3>3 DEF ClientDone
  <2>6. \A f \in rollup' : f.ts < scrub.cutoff => ClientDone(f, scrub.policy.level)
    <3>1. \A f \in rollup' : f.ts \in Nat
      BY <1>7 DEF Sums
    <3> QED BY <1>5, <1>7, <3>1 DEF ClientDone
  <2> QED BY <1>4, <2>3, <2>5, <2>6 DEF ScrubAt
<1>15. RowsOfSums'
  <2> SUFFICES ASSUME NEW f \in rollup', ~f.left PROVE \E s \in log' : s.ts = f.ts
    BY DEF RowsOfSums
  <2>1. PICK e \in rollup : SumReducedTo(e, f)
    BY <1>7
  <2>2. ~e.left /\ e.ts = f.ts /\ f.ts \in Nat
    BY <1>7, <2>1 DEF SumReducedTo, Sums
  <2>3. PICK r \in log : r.ts = e.ts
    BY <2>2 DEF PrIInv, RowsOfSums
  <2>4. ~(r.ts < scrub.cutoff)
    BY <1>5, <1>7, <2>2, <2>3
  <2>5. PICK s : s = [r EXCEPT !.left = @ \/ r.ts < scrub.cutoff]
    OBVIOUS
  <2>6. s \in log'
    BY <1>2, <2>4, <2>5
  <2>7. s.ts = r.ts
    BY <1>5, <2>5 DEF Rows
  <2> QED BY <2>2, <2>3, <2>6, <2>7
<1> QED BY <1>8, <1>9, <1>10, <1>11, <1>13, <1>14, <1>15 DEF PrIInv

\* one that hides clients gives the rollup pseudonyms;
LEMMA RekeyStays ==
  ASSUME PrIInv, RekeyClientRollup
  PROVE  PrIInv'
<1>1. /\ scrub.at = "rollup" /\ scrub.policy.level = LevelHideClients /\ scrub' = [scrub EXCEPT !.at = "prune"]
      /\ UNCHANGED <<now, policy, log, entry, asked, arrived, cursor, marks, torn>>
  BY DEF RekeyClientRollup, Stored
<1>2. PICK todo : todo = {e \in rollup : scrub.from <= e.ts /\ e.ts <= scrub.cutoff /\ ~IsPseudonym(e.client)}
  OBVIOUS
<1>3. PICK D : D = {Day(e.ts) : e \in todo}
  OBVIOUS
<1>4. PICK m : m = keysFor(Memory, D)
  OBVIOUS
<1>5. /\ rollup' = (rollup \ todo) \cup {[e EXCEPT !.client = Pseudonym(m, @, Day(e.ts))] : e \in todo}
      /\ Keeps(m)
  BY <1>2, <1>3, <1>4 DEF RekeyClientRollup
<1>6. rollup \subseteq Sums /\ Memory \in Memories /\ scrub.cutoff \in Nat /\ scrub.from \in Nat /\ TrueCounts(Memory, asked)
  BY DEF PrIInv, PrTypes, Scrubs, Truth
<1>7. ASSUME NEW e \in todo PROVE e \in rollup /\ e \in Sums /\ e.client \in Clients /\ Day(e.ts) \in Days /\ Day(e.ts) \in D
  <2>1. e \in rollup /\ e \in Sums /\ ~IsPseudonym(e.client)
    BY <1>2, <1>6
  <2>2. e.client \in Clients
    BY <2>1, PseudonymsAreNoClients DEF Sums, Whoever
  <2> QED BY <1>3, <2>1, <2>2, DayIsADay DEF Sums
<1>8. /\ m \in Memories /\ KeysStay(Memory, m) /\ (\A d \in D : m.keys[d] # 0) /\ m.tracker = Memory.tracker
      /\ Memory' = m /\ TrueCounts(m, asked)
  <2>1. D \in SUBSET Days
    BY <1>3, <1>7
  <2>2. m \in Memories /\ KeysStay(Memory, m) /\ (\A d \in D : m.keys[d] # 0) /\ m.tracker = Memory.tracker
    BY <1>4, <1>6, <2>1, KeysForGrow
  <2> QED BY <1>5, <1>6, <2>2, KeepsIt, CountsStayTrue
<1>9. ASSUME NEW f \in rollup'
      PROVE  /\ f \in Sums
             /\ \E e \in rollup : SumReducedTo(e, f)
             /\ f.client \in Pseudonyms \/ (f \in rollup /\ f \notin todo)
  <2>1. CASE f \in rollup /\ f \notin todo
    BY <1>6, <2>1 DEF SumReducedTo
  <2>2. CASE ~(f \in rollup /\ f \notin todo)
    <3>1. PICK e \in todo : f = [e EXCEPT !.client = Pseudonym(m, @, Day(e.ts))]
      BY <1>5, <2>2
    <3>2. e \in rollup /\ e \in Sums
      BY <1>7
    <3>3. PICK c : c = Pseudonym(m, e.client, Day(e.ts))
      OBVIOUS
    <3>4. c \in Pseudonyms
      BY <1>7, <1>8, <3>3, PseudonymIsKeyed
    <3>5. f = [e EXCEPT !.client = c]
      BY <3>1, <3>3
    <3>6. f \in Sums /\ f.ts = e.ts /\ f.slipped = e.slipped /\ f.left = e.left /\ f.client = c
      BY <3>2, <3>4, <3>5 DEF Sums
    <3> QED BY <3>2, <3>4, <3>6 DEF SumReducedTo
  <2> QED BY <2>1, <2>2
<1>10. /\ scrub' \in Scrubs /\ scrub'.at = "prune" /\ scrub'.policy = scrub.policy /\ scrub'.cutoff = scrub.cutoff
       /\ scrub'.cutoff <= now
  BY <1>1 DEF PrIInv, PrTypes, Scrubs, Stages
<1>11. PrTypes'
  <2>1. rollup' \subseteq Sums
    BY <1>9
  <2> QED BY <1>1, <1>8, <1>10, <2>1 DEF PrIInv, PrTypes
<1>12. ScrubSteps'
  BY <1>1, <1>10 DEF PrIInv, ScrubSteps
<1>13. Truth'
  <2>1. \A s \in log' : \E r \in log : ReducedTo(r, s) /\ (s.client = r.client \/ Keyed(s.client, Memory'))
    BY <1>1 DEF ReducedTo
  <2>2. log' \subseteq Rows /\ asked' = asked /\ Memory' \in Memories /\ KeysStay(Memory, Memory') /\ TrueCounts(Memory', asked')
    BY <1>1, <1>8 DEF PrIInv, PrTypes
  <2> QED BY <1>1, <2>1, <2>2, TruthStays
<1>14. renewed' = renewed /\ IsFiniteSet(asked)
  BY <1>8, MemoryIs DEF KeysStay, PrIInv, PrTypes
<1>15. EntryDone'
  BY <1>1, <1>14, EntryStaysDone
<1>16. OnlyReduced
  BY <1>1, <1>9, <1>14, NothingReduced DEF OnlyReduced
<1>17. MarksDone'
  BY <1>1, <1>10, <1>16, MarksStayDone
<1>18. ScrubDone'
  <2> SUFFICES ASSUME ~torn PROVE ScrubAt(scrub', log, rollup', asked, renewed)
    BY <1>1, <1>14, ScrubDoneAtNext
  <2>1. ScrubAt(scrub, log, rollup, asked, renewed)
    BY <1>1, ScrubDoneAt DEF PrIInv
  <2>2. /\ NamesTo(scrub') = scrub.cutoff /\ NamesTo(scrub) = scrub.cutoff
        /\ ClientsTo(scrub') = scrub.cutoff /\ ClientsTo(scrub) = scrub.cutoff /\ SumsTo(scrub) = scrub.from
    BY <1>1, <1>10 DEF NamesTo, ClientsTo, SumsTo
  <2>3. ASSUME NEW f \in rollup', ~f.slipped, f.ts < scrub.cutoff PROVE ClientDone(f, scrub.policy.level)
    <3>1. CASE f.client \in Pseudonyms
      BY <3>1, PseudonymsAreNoClients DEF ClientDone
    <3>2. CASE f \in rollup /\ f \notin todo
      <4>1. f.ts < scrub.from \/ IsPseudonym(f.client)
        BY <1>2, <1>6, <2>3, <3>2 DEF Sums
      <4>2. IsPseudonym(f.client) => f.client \notin Clients
        BY DEF IsPseudonym
      <4> QED BY <2>1, <2>2, <2>3, <3>2, <4>1, <4>2 DEF ScrubAt, ClientDone
    <3> QED BY <1>9, <3>1, <3>2
  <2> QED BY <1>10, <2>1, <2>2, <2>3 DEF ScrubAt
<1>19. RowsOfSums'
  BY <1>1, <1>9, NothingReduced, RowsOfSumsStay
<1> QED BY <1>11, <1>12, <1>13, <1>15, <1>17, <1>18, <1>19 DEF PrIInv

-----------------------------------------------------------------------------
-----------------------------------------------------------------------------
(* The scrubber, as it starts and day by day.                              *)

\* a scrub begins: before that, the last one did as much as this one wants;
LEMMA ScrubStays ==
  ASSUME PrIInv, Scrub
  PROVE  PrIInv'
<1>1. /\ scrub.at = "no" /\ UNCHANGED <<now, policy, entry, log, rollup, asked, arrived, cursor, keys, made, renewed, tracker, torn>>
  BY DEF Scrub, Stored, Kept
<1>2. Memory' = Memory
  BY <1>1, MemoryIs DEF Kept
<1>3. /\ policy \in Policies /\ policy.level \in 0 .. 3 /\ policy.window \in Nat /\ policy.k \in Nat /\ now \in 0 .. MaxNow /\ MaxNow \in Nat
      /\ domainStrictness(policy) \in Nat /\ domainStrictness(policy) <= MaxDomainK + 1
      /\ marks \in Marks /\ marks.ts \in Nat /\ marks.level \in 0 .. 3 /\ marks.strict \in Nat /\ marks.strict <= MaxDomainK + 1
      /\ marks.ts <= now /\ log \subseteq Rows /\ rollup \subseteq Sums /\ IsFiniteSet(asked)
  BY PolicyFacts, PrivacyAssumption DEF PrIInv, PrTypes, Marks, MaxDomainK
<1>4. Truth'
  BY <1>1, <1>2 DEF PrIInv, Truth, Readable, Honest
<1>5. EntryDone'
  BY <1>1, <1>3, EntryStaysDone
<1>6. RowsOfSums'
  BY <1>1 DEF PrIInv, RowsOfSums
<1>7. CASE policy.level = LevelShowAll
  <2>1. marks' = [marks EXCEPT !.level = 0, !.strict = 0] /\ scrub' = scrub
    BY <1>7 DEF Scrub
  <2>2. marks' \in Marks /\ marks'.ts = marks.ts /\ marks'.level = 0 /\ marks'.strict = 0
    <3>1. 0 \in 0 .. MaxDomainK + 1 /\ 0 \in 0 .. 3
      BY DEF MaxDomainK
    <3> QED BY <1>3, <2>1, <3>1 DEF Marks
  <2>3. PrTypes'
    BY <1>1, <1>2, <1>3, <2>1, <2>2 DEF PrIInv, PrTypes
  <2>4. ScrubSteps'
    BY <1>1, <2>1 DEF PrIInv, ScrubSteps
  <2>5. MarksDone'
    BY <2>2 DEF MarksDone, NameDone, ClientDone, MaxDomainK, LevelHideClients
  <2>6. ScrubDone'
    BY <1>1, <2>1, ScrubDoneAtNext
  <2> QED BY <1>4, <1>5, <1>6, <2>3, <2>4, <2>5, <2>6 DEF PrIInv
<1>8. CASE policy.level # LevelShowAll
  <2>1. PICK first \in 0 .. now :
          /\ OldestQueryLogTS(first)
          /\ scrub' = [at |-> IF log # {} /\ Max({From(policy), first}) < Cutoff(policy) THEN "names" ELSE "rollup",
                       policy |-> policy, cutoff |-> Cutoff(policy), from |-> Max({From(policy), first}),
                       lo |-> Max({From(policy), first})]
          /\ marks' = marks
    BY <1>8 DEF Scrub
  <2>2. From(policy) \in Nat /\ (From(policy) > 0 => /\ From(policy) <= marks.ts /\ policy.level <= marks.level
                                                    /\ domainStrictness(policy) <= marks.strict)
    BY <1>3, PrivacyAssumption DEF From
  <2>3. PICK f, z : f = Max({From(policy), first}) /\ z = Cutoff(policy)
    OBVIOUS
  <2>4. f \in Nat /\ f >= first /\ f >= From(policy) /\ f \in {From(policy), first} /\ first \in Nat
    <3>1. PICK a : a = From(policy)
      OBVIOUS
    <3>2. a \in Int /\ first \in Int /\ first \in Nat /\ a \in Nat
      BY <1>3, <2>2, <3>1
    <3>3. Max({a, first}) \in {a, first} /\ Max({a, first}) >= a /\ Max({a, first}) >= first
      BY <3>2, MaxOfTwo
    <3> QED BY <2>3, <3>1, <3>2, <3>3
  <2>5. z \in Nat /\ z <= now
    BY <1>3, <2>3 DEF Cutoff
  <2>6. /\ scrub'.at = (IF log # {} /\ f < z THEN "names" ELSE "rollup") /\ scrub'.policy = policy /\ scrub'.cutoff = z
        /\ scrub'.from = f /\ scrub'.lo = f
    BY <2>1, <2>3
  <2>7. scrub' \in Scrubs
    <3>1. policy \in [level : 0 .. 3, window : Nat, k : Nat]
      BY <1>3, PrivacyAssumption
    <3>2. scrub' = [at |-> scrub'.at, policy |-> policy, cutoff |-> z, from |-> f, lo |-> f] /\ scrub'.at \in Stages
      BY <2>1, <2>3, <2>6 DEF Stages
    <3> QED BY <2>4, <2>5, <3>1, <3>2 DEF Scrubs
  <2>8. PrTypes'
    BY <1>1, <1>2, <2>1, <2>5, <2>6, <2>7 DEF PrIInv, PrTypes
  <2>9. ScrubSteps'
    BY <1>3, <1>8, <2>4, <2>6 DEF ScrubSteps
  <2>10. MarksDone'
    <3>1. OnlyReduced
      BY <1>1, <1>3, NothingReduced DEF OnlyReduced
    <3> QED BY <1>1, <2>1, <3>1, MarksStayDone
  <2>11. ScrubDone'
    <3> SUFFICES ASSUME ~torn PROVE ScrubAt(scrub', log, rollup, asked, renewed)
      BY <1>1, ScrubDoneAtNext
    <3>1. /\ \A r \in log : ~r.slipped /\ r.ts < marks.ts =>
               NameDone(r, marks.strict, asked, renewed) /\ ClientDone(r, marks.level)
          /\ \A e \in rollup : ~e.slipped /\ e.ts < marks.ts => ClientDone(e, marks.level)
      BY <1>1 DEF PrIInv, MarksDone
    <3>2. PICK S : S = domainStrictness(policy)
      OBVIOUS
    <3>3. \A r \in log : first <= r.ts /\ r.ts \in Nat
      BY <1>3, <2>1 DEF OldestQueryLogTS, Rows
    <3>4. ASSUME NEW ts \in Nat, ts < f, first <= ts
          PROVE  ts < marks.ts /\ policy.level <= marks.level /\ S <= marks.strict
      BY <1>3, <2>2, <2>4, <3>2, <3>4
    <3>5. ASSUME NEW r, ClientDone(r, marks.level), policy.level <= marks.level PROVE ClientDone(r, policy.level)
      BY <1>3, <3>5 DEF ClientDone, LevelHideClients
    <3>6. ASSUME NEW r \in log, ~r.slipped, r.ts < f
          PROVE  NameDone(r, S, asked, renewed) /\ ClientDone(r, policy.level)
      <4>1. r.ts < marks.ts /\ policy.level <= marks.level /\ S <= marks.strict
        BY <3>3, <3>4, <3>6
      <4>2. NameDone(r, marks.strict, asked, renewed) /\ ClientDone(r, marks.level)
        BY <3>1, <3>6, <4>1
      <4>3. NameDone(r, S, asked, renewed)
        BY <1>3, <3>2, <4>1, <4>2, LessIsDone
      <4> QED BY <3>5, <4>1, <4>2, <4>3
    <3>7. ASSUME NEW e \in rollup, ~e.slipped, e.ts < f PROVE ClientDone(e, policy.level)
      <4>1. CASE e.left
        BY <4>1 DEF ClientDone
      <4>2. CASE ~e.left
        <5>1. PICK r \in log : r.ts = e.ts
          BY <4>2 DEF PrIInv, RowsOfSums
        <5>2. e.ts < marks.ts /\ policy.level <= marks.level
          BY <3>3, <3>4, <3>7, <5>1
        <5> QED BY <3>1, <3>5, <3>7, <5>2
      <4> QED BY <4>1, <4>2
    <3>8. \A r \in log : r.ts < z /\ (r.ts < NamesTo(scrub') \/ r.ts < ClientsTo(scrub')) => r.ts < f
      BY <2>4, <2>5, <2>6, <3>3 DEF NamesTo, ClientsTo
    <3>9. SumsTo(scrub') = f
      BY <2>6 DEF SumsTo
    <3> QED BY <2>6, <3>2, <3>6, <3>7, <3>8, <3>9 DEF ScrubAt
  <2> QED BY <1>4, <1>5, <1>6, <2>8, <2>9, <2>10, <2>11 DEF PrIInv
<1> QED BY <1>7, <1>8

\* A day's names or clients are reduced, row by row.
LEMMA DayStays ==
  ASSUME PrIInv, scrub.at \in {"names", "clients"},
         UNCHANGED <<now, policy, entry, asked, arrived, cursor, rollup, marks, torn>>,
         Memory' \in Memories, KeysStay(Memory, Memory'), TrueCounts(Memory', asked),
         log' \subseteq Rows,
         \A s \in log' : \E r \in log : ReducedTo(r, s) /\ (s.client = r.client \/ Keyed(s.client, Memory')),
         \A r \in log : \E s \in log' : s.ts = r.ts,
         scrub' \in Scrubs, scrub'.at \in {"names", "clients", "rollup"}, scrub'.policy = scrub.policy,
         scrub'.cutoff = scrub.cutoff, scrub'.from = scrub.from,
         scrub'.at \in {"names", "clients"} => scrub'.lo >= scrub.lo,
         scrub'.at = "clients" => scrub.policy.level = LevelHideClients,
         \A s \in log' : ~s.slipped /\ s.ts < scrub.cutoff =>
           /\ (s.ts < NamesTo(scrub') /\ ~(s.ts < NamesTo(scrub)) => NameDone(s, domainStrictness(scrub.policy), asked, renewed))
           /\ (s.ts < ClientsTo(scrub') /\ ~(s.ts < ClientsTo(scrub)) => ClientDone(s, scrub.policy.level))
  PROVE  PrIInv'
<1>1. renewed' = renewed /\ IsFiniteSet(asked) /\ scrub.at # "no"
  BY MemoryIs DEF KeysStay, PrIInv, PrTypes
<1>2. PrTypes'
  <2>1. \A s \in log' : s.ts <= now /\ s.id \in 1 .. arrived
    BY DEF ReducedTo, PrIInv, PrTypes
  <2>2. scrub'.cutoff <= now
    BY DEF PrIInv, PrTypes
  <2> QED BY <2>1, <2>2 DEF PrIInv, PrTypes
<1>3. ScrubSteps'
  <2>1. scrub.from <= scrub.lo /\ scrub.policy \in Policies /\ scrub.policy.level # LevelShowAll
    BY DEF PrIInv, ScrubSteps
  <2>2. scrub.from \in Nat /\ scrub.lo \in Nat /\ scrub'.lo \in Nat
    BY DEF PrIInv, PrTypes, Scrubs
  <2> QED BY <2>1, <2>2 DEF ScrubSteps
<1>4. Truth'
  <2>1. TrueCounts(Memory', asked') /\ asked \subseteq asked' /\ entry' = entry
    OBVIOUS
  <2> QED BY <2>1, TruthStays
<1>5. EntryDone'
  BY <1>1, EntryStaysDone
<1>6. OnlyReduced
  BY <1>1, NothingReduced DEF OnlyReduced
<1>7. MarksDone'
  BY <1>6, MarksStayDone
<1>8. ScrubDone'
  <2> SUFFICES ASSUME ~torn PROVE ScrubAt(scrub', log', rollup, asked, renewed)
    BY <1>1, ScrubDoneAtNext
  <2>1. ScrubAt(scrub, log, rollup, asked, renewed)
    BY <1>1, ScrubDoneAt DEF PrIInv
  <2>2. PICK S : S = domainStrictness(scrub.policy)
    OBVIOUS
  <2>3. S \in Nat
    BY <1>1, <2>2, ScrubPolicy
  <2>4. ASSUME NEW s \in log', ~s.slipped, s.ts < scrub.cutoff
        PROVE  /\ (s.ts < NamesTo(scrub') => NameDone(s, S, asked, renewed))
               /\ (s.ts < ClientsTo(scrub') => ClientDone(s, scrub.policy.level))
    <3>1. PICK r \in log : ReducedTo(r, s)
      OBVIOUS
    <3>2. r.ts = s.ts /\ ~r.slipped
      BY <2>4, <3>1 DEF ReducedTo
    <3>3. ASSUME s.ts < NamesTo(scrub') PROVE NameDone(s, S, asked, renewed)
      <4>1. CASE s.ts < NamesTo(scrub)
        <5>1. NameDone(r, S, asked, renewed)
          BY <2>1, <2>2, <2>4, <3>2, <4>1 DEF ScrubAt
        <5> QED BY <1>1, <2>3, <3>1, <5>1, NameStaysDone
      <4>2. CASE ~(s.ts < NamesTo(scrub))
        BY <2>2, <2>4, <3>3, <4>2
      <4> QED BY <4>1, <4>2
    <3>4. ASSUME s.ts < ClientsTo(scrub') PROVE ClientDone(s, scrub.policy.level)
      <4>1. CASE s.ts < ClientsTo(scrub)
        <5>1. ClientDone(r, scrub.policy.level)
          BY <2>1, <2>4, <3>2, <4>1 DEF ScrubAt
        <5> QED BY <3>1, <5>1, ClientStaysDone
      <4>2. CASE ~(s.ts < ClientsTo(scrub))
        BY <2>4, <3>4, <4>2
      <4> QED BY <4>1, <4>2
    <3> QED BY <3>3, <3>4
  <2>5. SumsTo(scrub') = SumsTo(scrub)
    BY DEF SumsTo
  <2> QED BY <2>1, <2>2, <2>4, <2>5 DEF ScrubAt
<1>9. RowsOfSums'
  BY NothingReduced, RowsOfSumsStay
<1> QED BY <1>2, <1>3, <1>4, <1>5, <1>7, <1>8, <1>9 DEF PrIInv

\* The day after, or the rollup.
LEMMA NextDayFacts ==
  ASSUME PrIInv, scrub.at \in {"names", "clients"}, scrub' = NextDay
  PROVE  /\ scrub' \in Scrubs /\ scrub'.at \in {"names", "rollup"} /\ scrub'.policy = scrub.policy
         /\ scrub'.cutoff = scrub.cutoff /\ scrub'.from = scrub.from /\ scrub'.lo = Until(scrub)
         /\ NamesTo(scrub') = Until(scrub)
         /\ ClientsTo(scrub') = IF scrub.policy.level = LevelHideClients THEN Until(scrub) ELSE scrub.from
         /\ scrub'.at = "names" => scrub'.lo >= scrub.lo
<1>1. scrub \in Scrubs /\ scrub.cutoff \in Nat /\ scrub.lo \in Nat
  BY DEF PrIInv, PrTypes, Scrubs
<1>2. Until(scrub) \in Nat /\ Until(scrub) <= scrub.cutoff
  BY <1>1, UntilFacts
<1>3. PICK u : u = Until(scrub)
  OBVIOUS
<1>4. scrub' = [scrub EXCEPT !.lo = u, !.at = IF u < scrub.cutoff THEN "names" ELSE "rollup"]
  BY <1>3 DEF NextDay, hi, Until
<1>5. /\ scrub' \in Scrubs /\ scrub'.at = (IF u < scrub.cutoff THEN "names" ELSE "rollup") /\ scrub'.policy = scrub.policy
      /\ scrub'.cutoff = scrub.cutoff /\ scrub'.from = scrub.from /\ scrub'.lo = u
  BY <1>1, <1>2, <1>3, <1>4 DEF Scrubs, Stages
<1>6. u < scrub.cutoff => u >= scrub.lo
  <2>1. PICK z : z = (Day(scrub.lo) + 1) * DayLen
    OBVIOUS
  <2>2. z \in Nat /\ scrub.lo <= z
    <3>1. \A a, n \in Nat : n # 0 => ((a \div n) + 1) * n \in Nat /\ a <= ((a \div n) + 1) * n
      BY SMT
    <3> QED BY <1>1, <2>1, <3>1, PrivacyAssumption DEF Day
  <2>3. u \in {z, scrub.cutoff}
    <3>1. u = Min({z, scrub.cutoff}) /\ z \in Int /\ scrub.cutoff \in Int
      BY <1>1, <1>3, <2>1, <2>2 DEF Until
    <3> QED BY <3>1, MinOfTwo
  <2> QED BY <1>1, <2>2, <2>3
<1>7. u \in Nat /\ u <= scrub.cutoff
  BY <1>2, <1>3
<1> QED BY <1>1, <1>3, <1>5, <1>6, <1>7 DEF NamesTo, ClientsTo

-----------------------------------------------------------------------------
\* The names of a day, all hidden or all but those that are shared.
LEMMA NamesReduced ==
  ASSUME PrIInv, scrub.at = "names",
         IF rareOnly(scrub.policy) THEN ReduceQueryLogNames(scrub.policy.k) ELSE HideQueryLogNames
  PROVE  /\ Memory' \in Memories /\ KeysStay(Memory, Memory') /\ TrueCounts(Memory', asked)
         /\ log' \subseteq Rows
         /\ \A s \in log' : \E r \in log : ReducedTo(r, s) /\ s.client = r.client
         /\ \A r \in log : \E s \in log' : s.ts = r.ts
         /\ \A s \in log' : /\ scrub.lo <= s.ts /\ s.ts < Until(scrub)
                            => NameDone(s, domainStrictness(scrub.policy), asked, renewed)
<1>1. /\ Memory \in Memories /\ TrueCounts(Memory, asked) /\ Readable(Memory, asked) /\ IsFiniteSet(asked) /\ log \subseteq Rows
      /\ scrub \in Scrubs /\ scrub.policy \in Policies
  BY DEF PrIInv, PrTypes, Truth, ScrubSteps
<1>2. PICK S, k, d : S = domainStrictness(scrub.policy) /\ k = scrub.policy.k /\ d = Day(scrub.lo)
  OBVIOUS
<1>3. /\ k \in Nat /\ (rareOnly(scrub.policy) => k \in 2 .. MaxDomainK /\ S = k)
      /\ (S \in 2 .. MaxDomainK => rareOnly(scrub.policy))
  BY <1>1, <1>2, PolicyFacts
<1>4. \A r \in log : InRange(r) <=> scrub.lo <= r.ts /\ r.ts < Until(scrub)
  BY DEF InRange, hi, Until
<1>5. ASSUME NEW r \in log, InRange(r)
      PROVE  r \in Rows /\ r.ts \in 0 .. MaxNow /\ Day(r.ts) = d /\ d \in Days
  <2>1. r \in Rows /\ r.ts \in 0 .. MaxNow
    BY <1>1 DEF Rows
  <2> QED BY <1>1, <1>2, <1>4, <1>5, <2>1, UntilFacts
<1>6. PICK m : m = IF rareOnly(scrub.policy) /\ Named # {} THEN Counted(Memory, d, k) ELSE Memory
  OBVIOUS
<1>7. /\ m \in Memories /\ KeysStay(Memory, m) /\ TrueCounts(m, asked)
      /\ (rareOnly(scrub.policy) /\ Named # {} => m.tracker.k = k)
  <2>1. CASE rareOnly(scrub.policy) /\ Named # {}
    <3>1. d \in Days
      BY <1>5, <2>1 DEF Named
    <3> QED BY <1>1, <1>3, <1>6, <2>1, <3>1, CountedIsTrue
  <2>2. CASE ~(rareOnly(scrub.policy) /\ Named # {})
    BY <1>1, <1>6, <2>2, KeysStayRefl
  <2> QED BY <2>1, <2>2
<1>8. Memory' = m
  <2>1. CASE rareOnly(scrub.policy)
    <3>1. Keeps(m)
      BY <1>2, <1>6, <2>1 DEF ReduceQueryLogNames
    <3> QED BY <1>7, <3>1, KeepsIt
  <2>2. CASE ~rareOnly(scrub.policy)
    <3>1. Kept
      BY <2>2 DEF HideQueryLogNames
    <3> QED BY <1>6, <2>2, <3>1 DEF Kept, Memory, Mem
  <2> QED BY <2>1, <2>2
<1>9. m.renewed = renewed
  BY <1>7, MemoryIs DEF KeysStay
<1>10. log' = (log \ Named) \cup
               {[r EXCEPT !.name = IF rareOnly(scrub.policy) THEN keep(m, r.name, Day(r.ts)) ELSE Hidden] : r \in Named}
  <2>1. CASE rareOnly(scrub.policy)
    <3>1. Named # {} => m = Counted(Memory, d, k)
      BY <1>6, <2>1
    <3>2. log' = (log \ Named) \cup {[r EXCEPT !.name = keep(m, r.name, Day(r.ts))] : r \in Named}
      BY <1>2, <1>6, <2>1 DEF ReduceQueryLogNames
    <3> QED BY <2>1, <3>2
  <2>2. CASE ~rareOnly(scrub.policy)
    BY <2>2 DEF HideQueryLogNames
  <2> QED BY <2>1, <2>2
<1>11. ASSUME NEW r \in Named, NEW n, n = IF rareOnly(scrub.policy) THEN keep(m, r.name, Day(r.ts)) ELSE Hidden,
              NEW s, s = [r EXCEPT !.name = n]
       PROVE  s \in Rows /\ ReducedTo(r, s) /\ s.client = r.client /\ s.ts = r.ts /\ NameDone(s, S, asked, renewed)
  <2>1. r \in log /\ InRange(r) /\ r.name # Hidden /\ r \in Rows /\ r.ts \in 0 .. MaxNow /\ Named # {} /\ r.name \in Shown
    BY <1>5 DEF Named, Rows
  <2>2. n \in {r.name, Registered, Hidden} /\ (n \in Names /\ S \in 2 .. MaxDomainK /\ renewed = {} => Shared(n, r.ts, S, asked))
        /\ (~rareOnly(scrub.policy) => n = Hidden)
    <3>1. CASE rareOnly(scrub.policy)
      <4>1. n = keep(m, r.name, Day(r.ts))
        BY <1>11, <3>1
      <4>2. n \in {r.name, Registered, Hidden}
        BY <1>7, <2>1, <4>1, KeepIsShared
      <4>3. ASSUME n \in Names, renewed = {} PROVE Shared(n, r.ts, S, asked)
        <5>1. keep(m, r.name, Day(r.ts)) \in Names /\ k = m.tracker.k /\ k \in 2 .. MaxDomainK /\ m.renewed = {}
          BY <1>3, <1>7, <1>9, <2>1, <3>1, <4>1, <4>3
        <5>2. Shared(r.name, r.ts, k, asked)
          BY <1>1, <1>7, <2>1, <5>1, KeepIsShared
        <5>3. n = r.name
          BY <4>2, <4>3, PrivacyAssumption
        <5> QED BY <1>3, <3>1, <5>2, <5>3
      <4> QED BY <3>1, <4>2, <4>3
    <3>2. CASE ~rareOnly(scrub.policy)
      BY <1>11, <3>2, PrivacyAssumption
    <3> QED BY <3>1, <3>2
  <2>3. n \in Shown
    BY <2>1, <2>2 DEF Shown
  <2>4. /\ s \in Rows /\ s.name = n /\ s.ts = r.ts /\ s.id = r.id /\ s.client = r.client /\ s.slipped = r.slipped
        /\ s.left = r.left
    BY <1>11, <2>1, <2>3 DEF Rows
  <2>5. ReducedTo(r, s)
    BY <2>1, <2>2, <2>4 DEF ReducedTo
  <2>6. S > MaxDomainK => n = Hidden
    BY <1>3, <2>2 DEF MaxDomainK
  <2> QED BY <2>2, <2>4, <2>5, <2>6 DEF NameDone
<1>12. ASSUME NEW s \in log'
       PROVE  /\ s \in Rows /\ \E r \in log : ReducedTo(r, s) /\ s.client = r.client
              /\ scrub.lo <= s.ts /\ s.ts < Until(scrub) => NameDone(s, S, asked, renewed)
  <2>1. CASE s \in log /\ s \notin Named
    <3>1. s \in Rows /\ ReducedTo(s, s)
      BY <1>1, <2>1 DEF ReducedTo
    <3>2. ASSUME scrub.lo <= s.ts, s.ts < Until(scrub) PROVE NameDone(s, S, asked, renewed)
      <4>1. s.name = Hidden
        BY <1>4, <2>1, <3>2 DEF Named
      <4> QED BY <4>1, PrivacyAssumption DEF NameDone
    <3> QED BY <2>1, <3>1, <3>2
  <2>2. CASE ~(s \in log /\ s \notin Named)
    <3>1. PICK r \in Named : s = [r EXCEPT !.name = IF rareOnly(scrub.policy) THEN keep(m, r.name, Day(r.ts)) ELSE Hidden]
      BY <1>10, <2>2
    <3>2. PICK n : n = IF rareOnly(scrub.policy) THEN keep(m, r.name, Day(r.ts)) ELSE Hidden
      OBVIOUS
    <3>3. s = [r EXCEPT !.name = n]
      BY <3>1, <3>2
    <3>4. s \in Rows /\ ReducedTo(r, s) /\ s.client = r.client /\ NameDone(s, S, asked, renewed)
      BY <1>11, <3>2, <3>3
    <3>5. r \in log
      BY DEF Named
    <3> QED BY <3>4, <3>5
  <2> QED BY <2>1, <2>2
<1>13. ASSUME NEW r \in log PROVE \E s \in log' : s.ts = r.ts
  <2>1. CASE r \notin Named
    BY <1>10, <2>1
  <2>2. CASE r \in Named
    <3>1. PICK n : n = IF rareOnly(scrub.policy) THEN keep(m, r.name, Day(r.ts)) ELSE Hidden
      OBVIOUS
    <3>2. PICK s : s = [r EXCEPT !.name = n]
      OBVIOUS
    <3>3. s \in log'
      BY <1>10, <2>2, <3>1, <3>2
    <3>4. s.ts = r.ts
      BY <1>11, <2>2, <3>1, <3>2
    <3> QED BY <3>3, <3>4
  <2> QED BY <2>1, <2>2
<1> QED BY <1>2, <1>7, <1>8, <1>12, <1>13

\* a scrub reduces the names of a day,
LEMMA ScrubNamesStays ==
  ASSUME PrIInv, ScrubNames
  PROVE  PrIInv'
<1>1. /\ scrub.at = "names" /\ UNCHANGED <<now, policy, entry, asked, arrived, cursor, rollup, marks, torn>>
      /\ IF rareOnly(scrub.policy) THEN ReduceQueryLogNames(scrub.policy.k) ELSE HideQueryLogNames
      /\ scrub' = IF scrub.policy.level = LevelHideClients THEN [scrub EXCEPT !.at = "clients"] ELSE NextDay
  BY DEF ScrubNames, Stored
<1>2. /\ Memory' \in Memories /\ KeysStay(Memory, Memory') /\ TrueCounts(Memory', asked) /\ log' \subseteq Rows
      /\ \A s \in log' : \E r \in log : ReducedTo(r, s) /\ s.client = r.client
      /\ \A r \in log : \E s \in log' : s.ts = r.ts
      /\ \A s \in log' : /\ scrub.lo <= s.ts /\ s.ts < Until(scrub)
                         => NameDone(s, domainStrictness(scrub.policy), asked, renewed)
  BY <1>1, NamesReduced
<1>3. /\ scrub' \in Scrubs /\ scrub'.at \in {"names", "clients", "rollup"} /\ scrub'.policy = scrub.policy
      /\ scrub'.cutoff = scrub.cutoff /\ scrub'.from = scrub.from
      /\ (scrub'.at \in {"names", "clients"} => scrub'.lo >= scrub.lo)
      /\ (scrub'.at = "clients" => scrub.policy.level = LevelHideClients)
      /\ NamesTo(scrub') = Until(scrub) /\ ClientsTo(scrub') = ClientsTo(scrub)
  <2>1. CASE scrub.policy.level = LevelHideClients
    <3>1. scrub' = [scrub EXCEPT !.at = "clients"] /\ scrub \in Scrubs /\ scrub.lo \in Nat
      BY <1>1, <2>1 DEF PrIInv, PrTypes, Scrubs
    <3>2. /\ scrub' \in Scrubs /\ scrub'.at = "clients" /\ scrub'.policy = scrub.policy
          /\ scrub'.cutoff = scrub.cutoff /\ scrub'.from = scrub.from /\ scrub'.lo = scrub.lo
      BY <3>1 DEF Scrubs, Stages
    <3>3. Until(scrub') = Until(scrub)
      BY <3>2 DEF Until
    <3> QED BY <1>1, <2>1, <3>1, <3>2, <3>3 DEF NamesTo, ClientsTo
  <2>2. CASE scrub.policy.level # LevelHideClients
    <3>1. scrub' = NextDay
      BY <1>1, <2>2
    <3>2. ClientsTo(scrub) = scrub.from
      BY <1>1, <2>2 DEF ClientsTo
    <3> QED BY <1>1, <2>2, <3>1, <3>2, NextDayFacts
  <2> QED BY <2>1, <2>2
<1>4. NamesTo(scrub) = scrub.lo /\ scrub.lo \in Nat
  BY <1>1 DEF NamesTo, PrIInv, PrTypes, Scrubs
<1>5. ASSUME NEW s \in log', s.ts < NamesTo(scrub'), ~(s.ts < NamesTo(scrub))
      PROVE  NameDone(s, domainStrictness(scrub.policy), asked, renewed)
  <2>1. s.ts \in Nat
    BY <1>2 DEF Rows
  <2> QED BY <1>2, <1>3, <1>4, <1>5, <2>1
<1> QED BY <1>1, <1>2, <1>3, <1>5, DayStays

\* and its clients.
LEMMA PseudonymizeStays ==
  ASSUME PrIInv, PseudonymizeQueryLog
  PROVE  PrIInv'
<1>1. /\ scrub.at = "clients" /\ UNCHANGED <<now, policy, entry, asked, arrived, cursor, rollup, marks, torn>> /\ scrub' = NextDay
  BY DEF PseudonymizeQueryLog, Stored
<1>2. PICK rows : rows = {r \in log : InRange(r) /\ r.client \in Clients}
  OBVIOUS
<1>3. PICK d : d = Day(scrub.lo)
  OBVIOUS
<1>4. PICK m : m = IF rows # {} THEN key(Memory, d) ELSE Memory
  OBVIOUS
<1>5. /\ log' = (log \ rows) \cup {[r EXCEPT !.client = Pseudonym(m, r.client, Day(r.ts))] : r \in rows}
      /\ Keeps(m)
  BY <1>2, <1>3, <1>4 DEF PseudonymizeQueryLog
<1>6. /\ Memory \in Memories /\ TrueCounts(Memory, asked) /\ log \subseteq Rows /\ scrub \in Scrubs /\ scrub.lo \in Nat
      /\ scrub.policy.level = LevelHideClients
  BY <1>1 DEF PrIInv, PrTypes, Truth, Scrubs, ScrubSteps
<1>7. \A r \in log : InRange(r) <=> scrub.lo <= r.ts /\ r.ts < Until(scrub)
  BY DEF InRange, hi, Until
<1>8. ASSUME NEW r \in rows
      PROVE  r \in log /\ r \in Rows /\ r.client \in Clients /\ Day(r.ts) = d /\ d \in Days
  <2>1. r \in log /\ InRange(r) /\ r \in Rows /\ r.ts \in 0 .. MaxNow /\ r.client \in Clients
    BY <1>2, <1>6 DEF Rows
  <2> QED BY <1>3, <1>6, <1>7, <2>1, UntilFacts
<1>9. /\ m \in Memories /\ KeysStay(Memory, m) /\ (rows # {} => m.keys[d] # 0) /\ Memory' = m /\ TrueCounts(m, asked)
  <2>1. CASE rows # {}
    <3>1. d \in Days
      BY <1>8, <2>1
    <3>2. m \in Memories /\ KeysStay(Memory, m) /\ m.keys[d] # 0 /\ m.tracker = Memory.tracker
      BY <1>4, <1>6, <2>1, <3>1, KeyGrows
    <3> QED BY <1>5, <1>6, <3>2, KeepsIt, CountsStayTrue
  <2>2. CASE rows = {}
    BY <1>4, <1>5, <1>6, <2>2, KeysStayRefl, KeepsIt
  <2> QED BY <2>1, <2>2
<1>10. ASSUME NEW r \in rows, NEW s, s = [r EXCEPT !.client = Pseudonym(m, r.client, Day(r.ts))]
       PROVE  s \in Rows /\ ReducedTo(r, s) /\ Keyed(s.client, m) /\ s.client \in Pseudonyms /\ s.ts = r.ts
  <2>1. PICK c : c = Pseudonym(m, r.client, Day(r.ts))
    OBVIOUS
  <2>2. c \in Pseudonyms /\ Keyed(c, m) /\ c.of = r.client /\ c.day = Day(r.ts)
    <3>1. r.client \in Clients /\ Day(r.ts) \in Days /\ m.keys[Day(r.ts)] # 0
      BY <1>8, <1>9
    <3> QED BY <1>9, <2>1, <3>1, PseudonymIsKeyed
  <2>3. s = [r EXCEPT !.client = c] /\ c \in Whoever /\ r \in Rows
    BY <1>8, <1>10, <2>1, <2>2 DEF Whoever
  <2>4. /\ s \in Rows /\ s.name = r.name /\ s.ts = r.ts /\ s.id = r.id /\ s.client = c /\ s.slipped = r.slipped
        /\ s.left = r.left
    BY <2>3 DEF Rows
  <2> QED BY <1>8, <2>2, <2>4 DEF ReducedTo
<1>11. ASSUME NEW s \in log'
       PROVE  /\ s \in Rows
              /\ \E r \in log : ReducedTo(r, s) /\ (s.client = r.client \/ Keyed(s.client, Memory'))
              /\ scrub.lo <= s.ts /\ s.ts < Until(scrub) => s.client \notin Clients
  <2>1. CASE s \in log /\ s \notin rows
    <3>1. s \in Rows /\ ReducedTo(s, s)
      BY <1>6, <2>1 DEF ReducedTo
    <3> QED BY <1>2, <1>7, <2>1, <3>1
  <2>2. CASE ~(s \in log /\ s \notin rows)
    <3>1. PICK r \in rows : s = [r EXCEPT !.client = Pseudonym(m, r.client, Day(r.ts))]
      BY <1>5, <2>2
    <3>2. s \in Rows /\ ReducedTo(r, s) /\ Keyed(s.client, m) /\ s.client \in Pseudonyms
      BY <1>10, <3>1
    <3>3. s.client \notin Clients /\ r \in log
      BY <1>8, <3>2, PseudonymsAreNoClients
    <3> QED BY <1>9, <3>2, <3>3
  <2> QED BY <2>1, <2>2
<1>12. ASSUME NEW r \in log PROVE \E s \in log' : s.ts = r.ts
  <2>1. CASE r \notin rows
    BY <1>5, <2>1
  <2>2. CASE r \in rows
    <3>1. PICK s : s = [r EXCEPT !.client = Pseudonym(m, r.client, Day(r.ts))]
      OBVIOUS
    <3>2. s \in log' /\ s.ts = r.ts
      BY <1>5, <1>10, <2>2, <3>1
    <3> QED BY <3>2
  <2> QED BY <2>1, <2>2
<1>13. /\ scrub' \in Scrubs /\ scrub'.at \in {"names", "rollup"} /\ scrub'.policy = scrub.policy
       /\ scrub'.cutoff = scrub.cutoff /\ scrub'.from = scrub.from
       /\ NamesTo(scrub') = Until(scrub) /\ ClientsTo(scrub') = Until(scrub)
       /\ (scrub'.at = "names" => scrub'.lo >= scrub.lo)
  BY <1>1, <1>6, NextDayFacts
<1>14. NamesTo(scrub) = Until(scrub) /\ ClientsTo(scrub) = scrub.lo
  BY <1>1, <1>6 DEF NamesTo, ClientsTo
<1>15. \A s \in log' : s.ts < ClientsTo(scrub') /\ ~(s.ts < ClientsTo(scrub)) => ClientDone(s, scrub.policy.level)
  <2>1. \A s \in log' : s.ts \in Nat
    BY <1>11 DEF Rows
  <2> QED BY <1>6, <1>11, <1>13, <1>14, <2>1 DEF ClientDone
<1>16. /\ log' \subseteq Rows /\ Memory' \in Memories /\ KeysStay(Memory, Memory') /\ TrueCounts(Memory', asked)
       /\ \A s \in log' : \E r \in log : ReducedTo(r, s) /\ (s.client = r.client \/ Keyed(s.client, Memory'))
  BY <1>9, <1>11
<1> QED BY <1>1, <1>12, <1>13, <1>14, <1>15, <1>16, DayStays

-----------------------------------------------------------------------------
-----------------------------------------------------------------------------
(* All of it.                                                              *)

\* The invariant holds at the start,
LEMMA PrivacyStarts == PrInit => PrIInv
<1> SUFFICES ASSUME PrInit PROVE PrIInv
  OBVIOUS
<1>1. /\ now = 0 /\ policy \in Policies /\ log = {} /\ entry = Nothing /\ asked = {} /\ arrived = 0 /\ cursor = 0 /\ rollup = {}
      /\ keys = [d \in Days |-> 0] /\ made = 0 /\ renewed = {} /\ tracker = NoCounts(0)
      /\ marks = [ts |-> 0, level |-> 0, strict |-> 0] /\ scrub = Asleep /\ torn = FALSE
  BY DEF PrInit
<1>2. NoCounts(0) \in Trackers /\ \A d \in Days : NoCounts(0).days[d].names = {}
  BY DEF NoCounts, Uncounted, Trackers, DayCounts
<1>3. Memory \in Memories
  BY <1>1, <1>2 DEF Memories, Memory, Mem
<1>4. PrTypes
  <2>1. marks \in Marks /\ marks.ts = 0 /\ IsFiniteSet(asked)
    BY <1>1, FS_EmptySet DEF Marks, MaxDomainK
  <2>2. now \in 0 .. MaxNow /\ arrived \in 0 .. MaxRows /\ cursor \in 0 .. arrived /\ marks.ts <= now
    BY <1>1, <2>1, PrivacyAssumption
  <2>3. scrub \in Scrubs /\ scrub.cutoff <= now
    BY <1>1, AsleepIsAScrub
  <2>4. log \subseteq Rows /\ rollup \subseteq Sums /\ torn \in BOOLEAN /\ (\A r \in log : r.ts <= now /\ r.id \in 1 .. arrived)
    BY <1>1
  <2> QED BY <1>1, <1>3, <2>1, <2>2, <2>3, <2>4 DEF PrTypes
<1>5. ScrubSteps /\ EntryDone /\ MarksDone /\ RowsOfSums
  BY <1>1, AsleepIsAScrub DEF ScrubSteps, EntryDone, MarksDone, RowsOfSums
<1>6. ScrubDone
  BY <1>1, AsleepIsAScrub DEF ScrubDone
<1>7. Truth
  BY <1>1, <1>2, MemoryIs DEF Truth, Readable, TrueCounts
<1> QED BY <1>4, <1>5, <1>6, <1>7 DEF PrIInv

\* at every step,
LEMMA PrivacyStays == PrIInv /\ [PrNext]_prVars => PrIInv'
<1> SUFFICES ASSUME PrIInv, [PrNext]_prVars PROVE PrIInv'
  OBVIOUS
<1>1. CASE UNCHANGED prVars
  <2>1. /\ UNCHANGED <<now, policy, log, entry, asked, arrived, cursor, rollup, keys, made, renewed, tracker, marks, scrub, torn, changes>>
    BY <1>1 DEF prVars
  <2>2. Memory' = Memory
    BY <2>1, MemoryIs DEF Kept
  <2>3. PrTypes' /\ ScrubSteps' /\ RowsOfSums'
    BY <2>1, <2>2 DEF PrIInv, PrTypes, ScrubSteps, RowsOfSums
  <2>4. Truth'
    BY <2>1, <2>2 DEF PrIInv, Truth, Readable, Honest
  <2>5. EntryDone'
    BY <2>1, EntryStaysDone DEF PrIInv, PrTypes
  <2>6. MarksDone'
    BY <2>1 DEF PrIInv, MarksDone
  <2>7. ScrubDone'
    BY <2>1, ScrubDoneAt, ScrubDoneAtNext DEF PrIInv
  <2> QED BY <2>3, <2>4, <2>5, <2>6, <2>7 DEF PrIInv
<1>2. CASE PrNext
  <2>1. CASE \E c \in Clients, n \in Names, ts \in 0 .. now : Ingest(c, n, ts)
    BY <2>1, IngestStays
  <2>2. CASE InsertNodeQueryLog
    BY <2>2, InsertStays
  <2>3. CASE RollupAdvance
    BY <2>3, RollupStays
  <2>4. CASE Scrub
    BY <2>4, ScrubStays
  <2>5. CASE ScrubNames
    BY <2>5, ScrubNamesStays
  <2>6. CASE PseudonymizeQueryLog
    BY <2>6, PseudonymizeStays
  <2>7. CASE RekeyClientRollup
    BY <2>7, RekeyStays
  <2>8. CASE DeleteRolledUpQueryLog
    BY <2>8, DeleteRolledUpStays
  <2>9. CASE DeleteClientRollup
    BY <2>9, DeleteClientRollupStays
  <2>10. CASE OnlyNames
    BY <2>10, OnlyNamesStays
  <2>11. CASE Prune
    BY <2>11, PruneStays
  <2>12. CASE Mark
    BY <2>12, MarkStays
  <2>13. CASE ScrubFails
    BY <2>13, ScrubFailsStays
  <2>14. CASE Tick
    BY <2>14, TickStays
  <2>15. CASE Restart
    BY <2>15, RestartStays
  <2>16. CASE \E p \in Policies : SetPolicy(p)
    BY <2>16, SetPolicyStays
  <2> QED BY <1>2, <2>1, <2>2, <2>3, <2>4, <2>5, <2>6, <2>7, <2>8, <2>9, <2>10, <2>11, <2>12, <2>13, <2>14, <2>15, <2>16 DEF PrNext
<1> QED BY <1>1, <1>2

\* and says what is private.
LEMMA ScrubbedIsPrivate == PrIInv => PrivacyInv
<1> SUFFICES ASSUME PrIInv PROVE PrivacyInv
  OBVIOUS
<1>1. log \subseteq Rows /\ rollup \subseteq Sums /\ Memory \in Memories /\ marks \in Marks
  BY DEF PrIInv, PrTypes
<1>2. PrTypeOK
  <2>1. \A r \in log : r.ts \in 0 .. now /\ r.name \in Names \cup {Registered, Hidden}
    BY <1>1, PrivacyAssumption DEF Rows, Shown, PrIInv, PrTypes
  <2>2. \A d \in Days : keys[d] \in 0 .. made
    BY <1>1, MemoryIs DEF Memories
  <2> QED BY <2>1, <2>2 DEF PrIInv, PrTypes, PrTypeOK
<1>3. StableForTheDay
  <2> SUFFICES ASSUME NEW r \in log, NEW s \in log, IsPseudonym(r.client), IsPseudonym(s.client),
                      r.client.of = s.client.of, r.client.day = s.client.day, r.client.day \notin renewed
               PROVE  r.client = s.client
    BY DEF StableForTheDay
  <2>1. r.client \in Pseudonyms /\ s.client \in Pseudonyms
    BY <1>1, PseudonymsAreNoClients DEF Rows
  <2>2. Keyed(r.client, Memory) /\ Keyed(s.client, Memory)
    BY DEF PrIInv, Truth, Readable
  <2>3. r.client.key = keys[r.client.day] /\ s.client.key = keys[s.client.day]
    BY <2>1, <2>2, MemoryIs DEF Keyed
  <2>4. r.client = [day |-> r.client.day, key |-> r.client.key, of |-> r.client.of]
    BY <2>1 DEF Pseudonyms
  <2>5. s.client = [day |-> s.client.day, key |-> s.client.key, of |-> s.client.of]
    BY <2>1 DEF Pseudonyms
  <2> QED BY <2>3, <2>4, <2>5
<1>4. ASSUME BetweenScrubs PROVE ScrubReachesAll /\ RollupReached /\ (renewed = {} => KeptAreShared)
  <2>1. /\ \A r \in log : ~r.slipped /\ r.ts < marks.ts =>
             NameDone(r, marks.strict, asked, renewed) /\ ClientDone(r, marks.level)
        /\ \A e \in rollup : ~e.slipped /\ e.ts < marks.ts => ClientDone(e, marks.level)
    BY <1>4 DEF PrIInv, MarksDone, BetweenScrubs
  <2>2. ScrubReachesAll
    BY <2>1 DEF ScrubReachesAll, NameDone, ClientDone, LevelHideClients
  <2>3. RollupReached
    <3> SUFFICES ASSUME marks.level = LevelHideClients, NEW e \in rollup, e.ts < marks.ts, ~e.slipped
                 PROVE  IsPseudonym(e.client) \/ e.left
      BY DEF RollupReached
    <3>1. e.client \notin Clients \/ e.left
      BY <2>1 DEF ClientDone, LevelHideClients
    <3>2. e.client \in Clients \cup Pseudonyms
      BY <1>1 DEF Sums
    <3> QED BY <3>1, <3>2, PseudonymsAreNoClients DEF Whoever
  <2>4. ASSUME renewed = {} PROVE KeptAreShared
    <3> SUFFICES ASSUME marks.strict \in 2 .. MaxDomainK, NEW r \in log, r.ts < marks.ts, r.name \in Names, ~r.slipped
                 PROVE  \E d \in {Day(r.ts), Day(r.ts) - 1} : Cardinality(Askers(r.name, d)) >= marks.strict
      BY DEF KeptAreShared
    <3>1. Shared(r.name, r.ts, marks.strict, asked)
      BY <2>1, <2>4 DEF NameDone
    <3> QED BY <3>1 DEF Shared, AskersIn, Askers
  <2> QED BY <2>2, <2>3, <2>4
<1> QED BY <1>2, <1>3, <1>4 DEF PrivacyInv

\* What is stored of the queries is as private as the last scrub wanted it:
\* whatever was reduced on arrival or by a scrub, at whatever policy, through
\* restarts and failed scrubs; a pseudonym is stable for its day, and a name is
\* left only if enough devices asked for it (privacy/scrub.go, domains.go,
\* keyring.go).
THEOREM PrivacyHolds == PrSpec => []PrivacyInv
<1>1. PrSpec => []PrIInv
  BY PrivacyStarts, PrivacyStays, PTL DEF PrSpec
<1> QED BY <1>1, ScrubbedIsPrivate, PTL
=============================================================================
