-------------------------- MODULE ConnQueueProofs --------------------------
(***************************************************************************)
(* What holds of ConnQueue for every value of its constants: the queue     *)
(* holds the live connections, the counters count them, the limits and the *)
(* socket budget follow; the counters of owners and the order of the queue *)
(* agree with the downloads, and no work is forgotten.                     *)
(***************************************************************************)
EXTENDS ConnQueue, FiniteSetTheorems, SequenceTheorems, WellFoundedInduction, TLAPS

-----------------------------------------------------------------------------
(* Lemmas about the operations on sequences.                               *)

NoDup(q) == \A i, j \in DOMAIN q : q[i] = q[j] => i = j

\* A strictly increasing function onto a set of its size reaches every element
\* of it: the positions Without() keeps are all of them.
LEMMA IncreasingOnto ==
    ASSUME NEW K \in SUBSET Nat, IsFiniteSet(K),
           NEW s \in [1 .. Cardinality(K) -> K],
           \A i, j \in 1 .. Cardinality(K) : i < j => s[i] # s[j]
    PROVE  /\ \A i, j \in 1 .. Cardinality(K) : s[i] = s[j] => i = j
           /\ \A k \in K : \E i \in 1 .. Cardinality(K) : s[i] = k
<1> DEFINE N == Cardinality(K)
           D == 1 .. N
<1>1. N \in Nat
  BY FS_CardinalityType
<1>2. IsFiniteSet(D) /\ Cardinality(D) = N
  BY <1>1, FS_Interval
<1>3. \A i, j \in D : s[i] = s[j] => i = j
  <2> SUFFICES ASSUME NEW i \in D, NEW j \in D, s[i] = s[j], i # j
               PROVE  FALSE
    OBVIOUS
  <2>1. i < j \/ j < i
    BY <1>1
  <2> QED
    BY <2>1
<1>4. s \in Injection(D, K)
  BY <1>3 DEF Injection, IsInjective
<1>5. s \in Surjection(D, K)
  BY <1>2, <1>4, FS_Injection
<1> QED
  BY <1>3, <1>5 DEF Surjection

\* Without() takes out the connections of C and no other, and keeps the rest
\* apart.
LEMMA WithoutProperties ==
    ASSUME NEW S, NEW q \in Seq(S), NEW C, NEW r \in Without(q, C)
    PROVE  /\ r \in Seq(S)
           /\ ToSet(r) = ToSet(q) \ C
           /\ NoDup(q) => NoDup(r)
<1> DEFINE K == {i \in DOMAIN q : q[i] \notin C}
           N == Cardinality(K)
<1>1. IsFiniteSet(DOMAIN q)
  <2>1. DOMAIN q = 1 .. Len(q) /\ Len(q) \in Nat
    OBVIOUS
  <2> QED
    BY <2>1, FS_Interval
<1>2. K \in SUBSET Nat /\ IsFiniteSet(K) /\ N \in Nat
  <2>1. K \in SUBSET DOMAIN q
    OBVIOUS
  <2>2. IsFiniteSet(K)
    BY <1>1, <2>1, FS_Subset
  <2>3. DOMAIN q \subseteq Nat
    OBVIOUS
  <2> QED
    BY <2>1, <2>2, <2>3, FS_CardinalityType
<1>3. PICK s \in [1 .. N -> K] :
        /\ \A i, j \in 1 .. N : i < j => s[i] < s[j]
        /\ r = [i \in 1 .. N |-> q[s[i]]]
  BY DEF Without
<1>4. \A i, j \in 1 .. N : i < j => s[i] # s[j]
  <2> SUFFICES ASSUME NEW i \in 1 .. N, NEW j \in 1 .. N, i < j
               PROVE  s[i] # s[j]
    OBVIOUS
  <2>1. s[i] \in Nat /\ s[j] \in Nat /\ s[i] < s[j]
    BY <1>2, <1>3
  <2> QED
    BY <2>1
<1>5. /\ \A i, j \in 1 .. N : s[i] = s[j] => i = j
      /\ \A k \in K : \E i \in 1 .. N : s[i] = k
  BY <1>2, <1>4, IncreasingOnto
<1>6. \A i \in 1 .. N : s[i] \in DOMAIN q /\ q[s[i]] \in S /\ q[s[i]] \notin C
  <2> SUFFICES ASSUME NEW i \in 1 .. N
               PROVE  s[i] \in DOMAIN q /\ q[s[i]] \in S /\ q[s[i]] \notin C
    OBVIOUS
  <2>1. s[i] \in K
    OBVIOUS
  <2> QED
    BY <2>1
<1>7. r \in Seq(S)
  BY <1>2, <1>3, <1>6
<1>8. DOMAIN r = 1 .. N /\ \A i \in 1 .. N : r[i] = q[s[i]]
  BY <1>3
<1>9. ToSet(r) \subseteq ToSet(q) \ C
  BY <1>6, <1>8 DEF ToSet
<1>10. ToSet(q) \ C \subseteq ToSet(r)
  <2> SUFFICES ASSUME NEW i \in DOMAIN q, q[i] \notin C
               PROVE  \E j \in 1 .. N : r[j] = q[i]
    BY <1>8 DEF ToSet
  <2>1. i \in K
    OBVIOUS
  <2>2. PICK j \in 1 .. N : s[j] = i
    BY <2>1, <1>5
  <2> QED
    BY <2>2, <1>8
<1>11. NoDup(q) => NoDup(r)
  BY <1>5, <1>6, <1>8 DEF NoDup
<1> QED
  BY <1>7, <1>9, <1>10, <1>11

\* sort_queue() moves connections about and neither loses nor doubles one.
LEMMA SortedProperties ==
    ASSUME NEW S, NEW q \in Seq(S), NEW cs, NEW r \in Sorted(q, cs)
    PROVE  /\ r \in Seq(S)
           /\ ToSet(r) = ToSet(q)
           /\ NoDup(q) => NoDup(r)
<1> DEFINE N == Len(q)
           K == 1 .. N
<1>1. N \in Nat /\ DOMAIN q = K
  OBVIOUS
<1>2. K \in SUBSET Nat /\ IsFiniteSet(K) /\ Cardinality(K) = N
  BY <1>1, FS_Interval
<1>3. PICK s \in [K -> K] :
        /\ \A i, j \in K : i < j => s[i] # s[j]
        /\ r = [i \in K |-> q[s[i]]]
  BY DEF Sorted
<1>5. /\ \A i, j \in 1 .. Cardinality(K) : s[i] = s[j] => i = j
      /\ \A k \in K : \E i \in 1 .. Cardinality(K) : s[i] = k
  <2> HIDE DEF K
  <2>1. s \in [1 .. Cardinality(K) -> K]
    BY <1>2 DEF K
  <2>2. \A i, j \in 1 .. Cardinality(K) : i < j => s[i] # s[j]
    BY <1>2, <1>3 DEF K
  <2> QED
    BY <1>2, <2>1, <2>2, IncreasingOnto
<1>6. /\ \A i, j \in K : s[i] = s[j] => i = j
      /\ \A k \in K : \E i \in K : s[i] = k
  BY <1>2, <1>5
<1>7. r \in Seq(S)
  BY <1>1, <1>3
<1>8. DOMAIN r = K /\ \A i \in K : r[i] = q[s[i]]
  BY <1>3
<1>9. \A i \in K : s[i] \in K
  BY <1>3
<1>10. ToSet(r) = ToSet(q)
  <2>1. ToSet(r) \subseteq ToSet(q)
    BY <1>1, <1>8, <1>9 DEF ToSet
  <2>2. ToSet(q) \subseteq ToSet(r)
    BY <1>1, <1>6, <1>8 DEF ToSet
  <2> QED
    BY <2>1, <2>2
<1>11. NoDup(q) => NoDup(r)
  <2> SUFFICES ASSUME NoDup(q), NEW i \in K, NEW j \in K, r[i] = r[j]
               PROVE  i = j
    BY <1>8 DEF NoDup
  <2>1. q[s[i]] = q[s[j]] /\ s[i] \in DOMAIN q /\ s[j] \in DOMAIN q
    BY <1>1, <1>8, <1>9
  <2> QED
    BY <2>1, <1>6 DEF NoDup
<1> QED
  BY <1>7, <1>10, <1>11

\* The sequence InsertAt() makes, entry by entry.
LEMMA InsertAtEntries ==
    ASSUME NEW S, NEW q \in Seq(S), NEW c \in S, NEW k \in 1 .. (Len(q) + 1)
    PROVE  /\ InsertAt(q, k, c) \in Seq(S)
           /\ DOMAIN InsertAt(q, k, c) = 1 .. (Len(q) + 1)
           /\ \A i \in 1 .. (Len(q) + 1) :
                InsertAt(q, k, c)[i] = IF i < k THEN q[i] ELSE IF i = k THEN c ELSE q[i - 1]
<1> DEFINE r == InsertAt(q, k, c)
           At(i) == IF i < k THEN q[i] ELSE IF i = k THEN c ELSE q[i - 1]
           A == SubSeq(q, 1, k - 1)
           B == SubSeq(q, k, Len(q))
<1>1. /\ A \in Seq(S) /\ Len(A) = k - 1
      /\ \A i \in 1 .. (k - 1) : A[i] = q[i]
  OBVIOUS
<1>2. /\ B \in Seq(S) /\ Len(B) = Len(q) - k + 1
      /\ \A i \in 1 .. (Len(q) - k + 1) : B[i] = q[k + i - 1]
  OBVIOUS
<1>3. /\ A \o <<c>> \in Seq(S) /\ Len(A \o <<c>>) = k
      /\ \A i \in 1 .. k : (A \o <<c>>)[i] = IF i < k THEN q[i] ELSE c
  <2> DEFINE M == <<c>>
             AM == A \o M
  <2>1. M \in Seq(S) /\ Len(M) = 1 /\ M[1] = c
    OBVIOUS
  <2>2. k \in Nat
    OBVIOUS
  <2> HIDE DEF A, M
  <2>3. /\ AM \in Seq(S) /\ Len(AM) = Len(A) + Len(M)
        /\ \A i \in 1 .. Len(A) + Len(M) : AM[i] =
             IF i <= Len(A) THEN A[i] ELSE M[i - Len(A)]
    BY <1>1, <2>1, ConcatProperties
  <2> HIDE DEF AM
  <2>4. AM \in Seq(S) /\ Len(AM) = k
    BY <1>1, <2>1, <2>2, <2>3
  <2>5. ASSUME NEW i \in 1 .. k
        PROVE  AM[i] = IF i < k THEN q[i] ELSE c
    <3>1. i \in 1 .. Len(A) + Len(M) /\ i \in Nat
      BY <1>1, <2>1, <2>2
    <3>2. AM[i] = IF i <= Len(A) THEN A[i] ELSE M[i - Len(A)]
      BY <2>3, <3>1
    <3>3. CASE i < k
      BY <1>1, <2>2, <3>1, <3>2, <3>3
    <3>4. CASE i = k
      <4>1. ~(i <= Len(A)) /\ i - Len(A) = 1
        BY <1>1, <2>2, <3>4
      <4> QED
        BY <2>1, <2>2, <3>2, <3>4, <4>1
    <3> QED
      BY <2>2, <3>1, <3>3, <3>4
  <2> QED
    BY <2>4, <2>5 DEF AM, M
<1>4. r \in Seq(S) /\ Len(r) = Len(q) + 1
  <2> DEFINE AM == A \o <<c>>
  <2>1. r = AM \o B
    BY DEF InsertAt
  <2>2. AM \in Seq(S) /\ Len(AM) = k
    BY <1>3
  <2> HIDE DEF AM, B, r
  <2>3. r \in Seq(S) /\ Len(r) = Len(AM) + Len(B)
    BY <2>1, <2>2, <1>2, ConcatProperties
  <2>4. k \in Nat /\ Len(q) \in Nat
    OBVIOUS
  <2> QED
    BY <2>2, <2>3, <2>4, <1>2
<1>5. \A i \in 1 .. (Len(q) + 1) : r[i] = At(i)
  <2> SUFFICES ASSUME NEW i \in 1 .. (Len(q) + 1)
               PROVE  r[i] = At(i)
    OBVIOUS
  <2> DEFINE AM == A \o <<c>>
  <2>1. r = AM \o B
    BY DEF InsertAt
  <2>2. /\ AM \in Seq(S) /\ Len(AM) = k
        /\ \A j \in 1 .. k : AM[j] = IF j < k THEN q[j] ELSE c
    BY <1>3
  <2>3. i \in Nat /\ k \in Nat /\ Len(q) \in Nat /\ i >= 1 /\ k >= 1
    OBVIOUS
  <2> HIDE DEF AM, A, B
  <2>4. \A j \in 1 .. Len(AM) + Len(B) :
          (AM \o B)[j] = IF j <= Len(AM) THEN AM[j] ELSE B[j - Len(AM)]
    BY <1>2, <2>2, ConcatProperties
  <2>5. i \in 1 .. Len(AM) + Len(B)
    BY <1>2, <2>2, <2>3
  <2>6. r[i] = IF i <= k THEN AM[i] ELSE B[i - k]
    BY <2>1, <2>2, <2>4, <2>5, Zenon
  <2>7. i <= k => AM[i] = IF i < k THEN q[i] ELSE c
    BY <2>2, <2>3
  <2>8. i > k => B[i - k] = q[i - 1]
    <3>1. i > k => i - k \in 1 .. (Len(q) - k + 1) /\ k + (i - k) - 1 = i - 1
      BY <2>3
    <3> QED
      BY <1>2, <3>1
  <2> QED
    BY <2>3, <2>6, <2>7, <2>8
<1>6. DOMAIN r = 1 .. (Len(q) + 1)
  BY <1>4
<1> QED
  BY <1>4, <1>5, <1>6

\* Any position will do: a connection that was not in the queue is now, once.
LEMMA InsertAtProperties ==
    ASSUME NEW S, NEW q \in Seq(S), NEW c \in S, NEW k \in 1 .. (Len(q) + 1)
    PROVE  LET r == InsertAt(q, k, c) IN
           /\ r \in Seq(S)
           /\ ToSet(r) = ToSet(q) \cup {c}
           /\ NoDup(q) /\ c \notin ToSet(q) => NoDup(r)
<1> DEFINE r == InsertAt(q, k, c)
           At(i) == IF i < k THEN q[i] ELSE IF i = k THEN c ELSE q[i - 1]
<1>1. r \in Seq(S)
  BY InsertAtEntries
<1>2. \A i \in 1 .. (Len(q) + 1) : r[i] = At(i)
  BY InsertAtEntries
<1>3. DOMAIN r = 1 .. (Len(q) + 1) /\ DOMAIN q = 1 .. Len(q) /\ Len(q) \in Nat
  BY InsertAtEntries
<1> HIDE DEF r
<1>4. ToSet(r) \subseteq ToSet(q) \cup {c}
  BY <1>2, <1>3 DEF ToSet
<1>5. ToSet(q) \subseteq ToSet(r)
  <2> SUFFICES ASSUME NEW i \in 1 .. Len(q)
               PROVE  \E j \in DOMAIN r : r[j] = q[i]
    BY <1>3 DEF ToSet
  <2>1. CASE i < k
    BY <2>1, <1>2, <1>3
  <2>2. CASE i >= k
    <3>1. i + 1 \in 1 .. (Len(q) + 1) /\ r[i + 1] = q[i]
      BY <2>2, <1>2, <1>3
    <3> QED
      BY <3>1, <1>3
  <2> QED
    BY <2>1, <2>2, <1>3
<1>6. c \in ToSet(r)
  BY <1>2, <1>3 DEF ToSet
<1>7. ASSUME NoDup(q), c \notin ToSet(q)
      PROVE  NoDup(r)
  <2>1. \A i \in 1 .. Len(q) : q[i] # c
    BY <1>3, <1>7 DEF ToSet
  <2>2. \A i, j \in 1 .. Len(q) : q[i] = q[j] => i = j
    BY <1>3, <1>7 DEF NoDup
  <2> QED
    BY <2>1, <2>2, <1>2, <1>3 DEF NoDup
<1> QED
  BY <1>1, <1>4, <1>5, <1>6, <1>7 DEF r

\* add_to_queue()
LEMMA EnqueuedProperties ==
    ASSUME NEW S, NEW q \in Seq(S), NEW cs, NEW c \in S, NEW r \in Enqueued(q, cs, c)
    PROVE  /\ r \in Seq(S)
           /\ ToSet(r) = ToSet(q) \cup {c}
           /\ NoDup(q) /\ c \notin ToSet(q) => NoDup(r)
<1>1. PICK k \in 1 .. (Len(q) + 1) : r = InsertAt(q, k, c)
  BY DEF Enqueued
<1> QED
  BY <1>1, InsertAtProperties

\* One entry of the keepalive list goes.
LEMMA RemoveAtProperties ==
    ASSUME NEW S, NEW q \in Seq(S), NEW k \in DOMAIN q
    PROVE  RemoveAt(q, k) \in Seq(S) /\ Len(RemoveAt(q, k)) = Len(q) - 1
BY DEF RemoveAt

-----------------------------------------------------------------------------
(* The inductive invariant.                                                *)

\* A freed connection holds nothing, so that it can be counted with the others.
FreedIsClean == \A c \in Conns : conn[c].state = "free" => conn[c] = FreeConn

Inv ==
    /\ TypeOK
    /\ FreedIsClean
    /\ QueueHoldsLive
    /\ DownloadsAttached
    /\ SlotsCounted

\* What a step may do to the queue: take out the connections of C.
QueueLoses(C) ==
    /\ queue' \in Seq(Conns)
    /\ ToSet(queue') = ToSet(queue) \ C
    /\ NoDup(queue) => NoDup(queue')

LEMMA WithoutLoses ==
    ASSUME TypeOK, NEW C, queue' \in Without(queue, C)
    PROVE  QueueLoses(C)
BY WithoutProperties DEF QueueLoses, TypeOK

\* Subsets of Conns have a cardinality.
LEMMA ConnsFinite ==
    ASSUME NEW C \in SUBSET Conns
    PROVE  IsFiniteSet(C) /\ Cardinality(C) \in Nat
BY ConnsAssumption, FS_Subset, FS_CardinalityType

LEMMA FreeConnTyped == FreeConn \in ConnRecord
BY LimitsAssumption DEF FreeConn, ConnRecord, Pris

LEMMA IdleTyped == Idle \in DownloadRecord
BY LimitsAssumption DEF Idle, DownloadRecord, Pris

\* Connections that end give back what they hold: the invariant survives
\* FreeConns() when the queue loses the same connections.
LEMMA FreeConnsInv ==
    ASSUME Inv, NEW C \in SUBSET Conns, FreeConns(C), QueueLoses(C)
    PROVE  /\ conn' \in [Conns -> ConnRecord]
           /\ dl' \in [Downloads -> DownloadRecord]
           /\ active' \in Int
           /\ hostRefs' \in [Hosts -> Nat]
           /\ FreedIsClean'
           /\ QueueHoldsLive'
           /\ DownloadsAttached'
           /\ SlotsCounted'
<1>1. conn' = [c \in Conns |-> IF c \in C THEN FreeConn ELSE conn[c]]
  BY DEF FreeConns
<1>2. conn' \in [Conns -> ConnRecord]
  BY <1>1, FreeConnTyped DEF Inv, TypeOK
<1>3. dl' \in [Downloads -> DownloadRecord]
  BY IdleTyped DEF FreeConns, Inv, TypeOK
<1>4. FreedIsClean'
  BY <1>1 DEF Inv, FreedIsClean
<1>5. QueueHoldsLive'
  <2>1. ToSet(queue)' = {c \in Conns : conn'[c].state # "free"}
    <3>1. ToSet(queue)' = {c \in Conns : conn[c].state # "free"} \ C
      BY DEF QueueLoses, Inv, QueueHoldsLive
    <3>2. \A c \in Conns : conn'[c].state # "free" <=> conn[c].state # "free" /\ c \notin C
      BY <1>1 DEF FreeConn
    <3> QED
      BY <3>1, <3>2
  <2>2. NoDup(queue')
    BY DEF QueueLoses, Inv, QueueHoldsLive, NoDup
  <2>3. \A c \in Conns : conn'[c].running <=> conn'[c].state \in {"work", "quit"}
    BY <1>1 DEF FreeConn, Inv, QueueHoldsLive
  <2> QED
    BY <2>1, <2>2, <2>3 DEF QueueHoldsLive, NoDup
<1>6. DownloadsAttached'
  <2>1. \A d \in Downloads : dl'[d] = IF \E c \in C : d \in conn[c].dls
                                      THEN Idle ELSE dl[d]
    BY DEF FreeConns
  <2>2. ASSUME NEW c \in Conns
        PROVE  conn'[c].dls = {d \in Downloads : dl'[d].state = "progress" /\ dl'[d].conn = c}
    <3>1. CASE c \in C
      <4>1. conn'[c].dls = {}
        BY <1>1, <3>1 DEF FreeConn
      <4>2. \A d \in Downloads : dl'[d].state = "progress" => dl'[d].conn # c
        BY <2>1, <3>1 DEF Idle, Inv, DownloadsAttached
      <4> QED
        BY <4>1, <4>2
    <3>2. CASE c \notin C
      <4>1. conn'[c].dls = conn[c].dls
        BY <1>1, <3>2
      <4>2. ASSUME NEW d \in Downloads
            PROVE  dl'[d].state = "progress" /\ dl'[d].conn = c
                     <=> dl[d].state = "progress" /\ dl[d].conn = c
        BY <2>1, <3>2 DEF Idle, Inv, DownloadsAttached
      <4> QED
        BY <4>1, <4>2 DEF Inv, DownloadsAttached
    <3> QED
      BY <3>1, <3>2
  <2>3. \A d \in Downloads : dl'[d].state = "progress" => dl'[d].conn # NoConn
    BY <2>1 DEF Idle, Inv, DownloadsAttached
  <2> QED
    BY <2>2, <2>3 DEF DownloadsAttached
<1>7. Running' = Running \ C
  BY <1>1 DEF Running, FreeConn
<1>8. \A h \in Hosts : RunningOn(h)' = RunningOn(h) \ C
  BY <1>1, <1>7 DEF RunningOn, Running, Host
<1>9. active' = Cardinality(Running') /\ active' \in Int
  <2>1. Running \in SUBSET Conns
    BY DEF Running
  <2>2. Cardinality(Running \ C) = Cardinality(Running) - Cardinality(Running \cap C)
    BY <2>1, ConnsFinite, FS_Difference
  <2>3. Cardinality(C \cap Running) = Cardinality(Running \cap C)
    <3>1. Running \cap C = C \cap Running
      OBVIOUS
    <3> QED
      BY <3>1
  <2>4. Cardinality(C \cap Running) = Cardinality(Running) - Cardinality(Running \ C)
    <3>1. /\ Cardinality(Running \ C) \in Nat
          /\ Cardinality(Running) \in Nat
          /\ Cardinality(Running \cap C) \in Nat
      <4>1. Running \cap C \in SUBSET Conns
        BY <2>1
      <4> QED
        BY <2>1, <4>1, ConnsFinite
    <3> QED
      BY <3>1, <2>2, <2>3
  <2>5. active = Cardinality(Running) /\ active' = active - Cardinality(C \cap Running)
    BY DEF FreeConns, Inv, SlotsCounted
  <2>6. Cardinality(Running') = Cardinality(Running \ C)
    BY <1>7
  <2>7. Cardinality(Running \ C) \in Nat /\ Cardinality(Running) \in Nat
    BY <2>1, ConnsFinite
  <2> QED
    BY <2>4, <2>5, <2>6, <2>7
<1>10. ASSUME NEW h \in Hosts
       PROVE  hostRefs'[h] = Cardinality(RunningOn(h)') /\ hostRefs'[h] \in Nat
  <2>1. RunningOn(h) \in SUBSET Conns
    BY DEF RunningOn, Running
  <2>2. Cardinality(RunningOn(h) \ C) =
          Cardinality(RunningOn(h)) - Cardinality(RunningOn(h) \cap C)
    BY <2>1, ConnsFinite, FS_Difference
  <2>3. RunningOn(h) \cap C = C \cap RunningOn(h)
    OBVIOUS
  <2>4. /\ Cardinality(RunningOn(h) \ C) \in Nat
        /\ Cardinality(RunningOn(h) \cap C) \in Nat
        /\ Cardinality(RunningOn(h)) \in Nat
    BY <2>1, ConnsFinite
  <2>5. hostRefs[h] = Cardinality(RunningOn(h))
    BY DEF Inv, SlotsCounted
  <2>6. hostRefs'[h] = Unlocked(h, Cardinality(RunningOn(h) \cap C))
    BY <2>3 DEF FreeConns
  <2>7. Cardinality(RunningOn(h)') = Cardinality(RunningOn(h) \ C)
    BY <1>8
  <2>8. hostRefs'[h] = Cardinality(RunningOn(h) \ C)
    BY <2>2, <2>4, <2>5, <2>6 DEF Unlocked
  <2> QED
    BY <2>4, <2>7, <2>8
<1>11. SlotsCounted'
  BY <1>9, <1>10 DEF SlotsCounted
<1>12. hostRefs' \in [Hosts -> Nat]
  BY <1>10 DEF FreeConns
<1> QED
  BY <1>2, <1>3, <1>4, <1>5, <1>6, <1>9, <1>11, <1>12

\* A change of one connection that neither starts nor stops it.
LEMMA SlotsKept ==
    ASSUME Inv, NEW c \in Conns, NEW r,
           conn' = [conn EXCEPT ![c] = r],
           r.running = conn[c].running,
           r.running => r.uri = conn[c].uri,
           UNCHANGED slots
    PROVE  SlotsCounted'
<1>1. \A e \in Conns : /\ conn'[e].running = conn[e].running
                       /\ conn'[e].running => conn'[e].uri = conn[e].uri
  BY DEF Inv, TypeOK
<1>2. Running' = Running
  BY <1>1 DEF Running
<1>3. \A h \in Hosts : RunningOn(h)' = RunningOn(h)
  BY <1>1, <1>2 DEF RunningOn, Running, Host
<1>4. Cardinality(Running') = Cardinality(Running)
  BY <1>2
<1>5. \A h \in Hosts : Cardinality(RunningOn(h)') = Cardinality(RunningOn(h))
  BY <1>3
<1> QED
  BY <1>4, <1>5 DEF SlotsCounted, Inv, slots

\* A connection that starts is counted once, on its own host.
LEMMA SlotTaken ==
    ASSUME Inv, NEW c \in Conns, NEW r,
           conn' = [conn EXCEPT ![c] = r],
           ~conn[c].running, r.running = TRUE,
           TakeSlot(HostOfUri(r.uri))
    PROVE  /\ SlotsCounted'
           /\ active' \in Int
           /\ hostRefs' \in [Hosts -> Nat]
<1>1. /\ conn'[c] = r
      /\ \A e \in Conns \ {c} : conn'[e] = conn[e]
  BY DEF Inv, TypeOK
<1>2. Running' = Running \cup {c} /\ c \notin Running
  BY <1>1 DEF Running
<1>3. Running \in SUBSET Conns /\ IsFiniteSet(Running)
  BY ConnsFinite DEF Running
<1>4. Cardinality(Running') = Cardinality(Running) + 1
  BY <1>2, <1>3, FS_AddElement
<1>5. active = Cardinality(Running) /\ active \in Int /\ active' = active + 1
  BY DEF Inv, TypeOK, SlotsCounted, TakeSlot
<1>6. ASSUME NEW h \in Hosts
      PROVE  hostRefs'[h] = Cardinality(RunningOn(h)') /\ hostRefs'[h] \in Nat
  <2>1. RunningOn(h) \in SUBSET Conns /\ IsFiniteSet(RunningOn(h)) /\ c \notin RunningOn(h)
    BY <1>2, ConnsFinite DEF RunningOn, Running
  <2>2. hostRefs[h] = Cardinality(RunningOn(h)) /\ hostRefs[h] \in Nat
    BY DEF Inv, TypeOK, SlotsCounted
  <2>3. CASE h = HostOfUri(r.uri)
    <3>1. RunningOn(h)' = RunningOn(h) \cup {c}
      BY <1>1, <1>2, <2>3 DEF RunningOn, Running, Host
    <3>2. Cardinality(RunningOn(h)') = Cardinality(RunningOn(h)) + 1
      BY <3>1, <2>1, FS_AddElement
    <3> QED
      BY <2>2, <2>3, <3>2 DEF TakeSlot
  <2>4. CASE h # HostOfUri(r.uri)
    <3>1. RunningOn(h)' = RunningOn(h)
      BY <1>1, <1>2, <2>4 DEF RunningOn, Running, Host
    <3>2. Cardinality(RunningOn(h)') = Cardinality(RunningOn(h))
      BY <3>1
    <3> QED
      BY <2>2, <2>4, <3>2 DEF TakeSlot
  <2> QED
    BY <2>3, <2>4
<1>7. hostRefs' \in [Hosts -> Nat]
  BY <1>6 DEF TakeSlot
<1> QED
  BY <1>4, <1>5, <1>6, <1>7 DEF SlotsCounted

\* A connection that is suspended gives back both of its counts.
LEMMA SlotGiven ==
    ASSUME Inv, NEW c \in Conns, NEW r,
           conn' = [conn EXCEPT ![c] = r],
           conn[c].running, r.running = FALSE,
           GiveSlotBack(c)
    PROVE  /\ SlotsCounted'
           /\ active' \in Int
           /\ hostRefs' \in [Hosts -> Nat]
<1>1. /\ conn'[c] = r
      /\ \A e \in Conns \ {c} : conn'[e] = conn[e]
  BY DEF Inv, TypeOK
<1>2. Running' = Running \ {c} /\ c \in Running
  BY <1>1 DEF Running
<1>3. Running \in SUBSET Conns /\ IsFiniteSet(Running)
  BY ConnsFinite DEF Running
<1>4. Cardinality(Running') = Cardinality(Running) - 1
  BY <1>2, <1>3, FS_RemoveElement
<1>5. active = Cardinality(Running) /\ active \in Int /\ active' = active - 1
  BY DEF Inv, TypeOK, SlotsCounted, GiveSlotBack
<1>6. ASSUME NEW h \in Hosts
      PROVE  hostRefs'[h] = Cardinality(RunningOn(h)') /\ hostRefs'[h] \in Nat
  <2>1. RunningOn(h) \in SUBSET Conns /\ IsFiniteSet(RunningOn(h))
    BY ConnsFinite DEF RunningOn, Running
  <2>2. hostRefs[h] = Cardinality(RunningOn(h)) /\ hostRefs[h] \in Nat
    BY DEF Inv, TypeOK, SlotsCounted
  <2>3. CASE h = Host(c)
    <3>1. RunningOn(h)' = RunningOn(h) \ {c} /\ c \in RunningOn(h)
      BY <1>1, <1>2, <2>3 DEF RunningOn, Running, Host
    <3>2. Cardinality(RunningOn(h)') = Cardinality(RunningOn(h)) - 1
      BY <3>1, <2>1, FS_RemoveElement
    <3>3. Cardinality(RunningOn(h)') \in Nat
      <4>1. RunningOn(h) \ {c} \in SUBSET Conns
        BY <2>1
      <4>2. Cardinality(RunningOn(h) \ {c}) \in Nat
        BY <4>1, ConnsFinite
      <4> QED
        BY <4>2, <3>1
    <3> QED
      BY <2>2, <2>3, <3>2, <3>3 DEF GiveSlotBack, Unlocked
  <2>4. CASE h # Host(c)
    <3>1. RunningOn(h)' = RunningOn(h)
      BY <1>1, <1>2, <2>4 DEF RunningOn, Running, Host
    <3>2. Cardinality(RunningOn(h)') = Cardinality(RunningOn(h))
      BY <3>1
    <3> QED
      BY <2>2, <2>4, <3>2 DEF GiveSlotBack
  <2> QED
    BY <2>3, <2>4
<1>7. hostRefs' \in [Hosts -> Nat]
  BY <1>6 DEF GiveSlotBack
<1> QED
  BY <1>4, <1>5, <1>6, <1>7 DEF SlotsCounted

-----------------------------------------------------------------------------
(* What every step shows of the queue and of the select-loop thread.       *)

KeptUris == {u \in Uris : HostOf[u] # NoHost}

LoopTyped ==
    /\ keep \in Seq(KeptUris)
    /\ keepTimer \in BOOLEAN
    /\ pending \in BOOLEAN
    /\ pc \in {"idle", "again", "timer", "scan", "reap", "drop"}
    /\ visit \in Nat \ {0}

LEMMA LoopTypedNow == Inv => LoopTyped
BY DEF Inv, TypeOK, LoopTyped, KeptUris

\* The queue before a step, for the lemmas about its operations.
LEMMA QueueNow ==
    ASSUME Inv
    PROVE  queue \in Seq(Conns) /\ NoDup(queue)
BY DEF Inv, TypeOK, QueueHoldsLive, NoDup

\* What runs or waits is in the queue, and the other way round.
LEMMA LiveInQueue ==
    ASSUME Inv, NEW c \in Conns
    PROVE  /\ c \in ToSet(queue) <=> conn[c].state # "free"
           /\ conn[c].running => c \in ToSet(queue)
BY DEF Inv, QueueHoldsLive

LEMMA InQueueIsConn ==
    ASSUME Inv, NEW i \in DOMAIN queue
    PROVE  queue[i] \in Conns /\ conn[queue[i]].state # "free"
<1>1. queue[i] \in Conns
  BY QueueNow
<1>2. queue[i] \in ToSet(queue)
  BY DEF ToSet
<1> QED
  BY <1>1, <1>2, LiveInQueue

LEMMA DownloadsConn ==
    ASSUME Inv, NEW d \in Downloads, dl[d].state = "progress"
    PROVE  /\ dl[d].conn \in Conns
           /\ d \in conn[dl[d].conn].dls
           /\ conn[dl[d].conn].state # "free"
           /\ dl[d].pri \in Pris
<1>1. dl[d] \in DownloadRecord /\ dl[d].conn # NoConn
  BY DEF Inv, TypeOK, DownloadsAttached
<1>2. dl[d].conn \in Conns /\ dl[d].pri \in Pris
  BY <1>1 DEF DownloadRecord
<1>3. d \in conn[dl[d].conn].dls
  BY <1>2 DEF Inv, DownloadsAttached
<1> QED
  BY <1>2, <1>3 DEF Inv, FreedIsClean, FreeConn

\* Connections of C end: the rest of the invariant comes with FreeConnsInv.
LEMMA EndInv ==
    ASSUME Inv, NEW C \in SUBSET Conns, FreeConns(C), QueueLoses(C), LoopTyped'
    PROVE  Inv'
<1>1. TypeOK'
  BY FreeConnsInv DEF TypeOK, LoopTyped, KeptUris, QueueLoses
<1> QED
  BY <1>1, FreeConnsInv DEF Inv

\* One connection changes, or a free one is put into the queue.
LEMMA ChangeInv ==
    ASSUME Inv, NEW c \in Conns, NEW r \in ConnRecord,
           conn' = [conn EXCEPT ![c] = r],
           r.state # "free",
           r.running <=> r.state \in {"work", "quit"},
           queue' \in Seq(Conns), NoDup(queue'),
           ToSet(queue') = ToSet(queue) \cup {c},
           dl' \in [Downloads -> DownloadRecord], DownloadsAttached',
           active' \in Int, hostRefs' \in [Hosts -> Nat], SlotsCounted',
           LoopTyped'
    PROVE  Inv'
<1>1. /\ conn' \in [Conns -> ConnRecord]
      /\ conn'[c] = r
      /\ \A e \in Conns \ {c} : conn'[e] = conn[e]
  BY DEF Inv, TypeOK
<1>2. TypeOK'
  BY <1>1 DEF TypeOK, LoopTyped, KeptUris
<1>3. FreedIsClean'
  BY <1>1 DEF FreedIsClean, Inv
<1>4. QueueHoldsLive'
  <2>1. ToSet(queue)' = {e \in Conns : conn'[e].state # "free"}
    <3>1. ToSet(queue) = {e \in Conns : conn[e].state # "free"}
      BY DEF Inv, QueueHoldsLive
    <3>2. ToSet(queue)' = ToSet(queue) \cup {c}
      BY DEF ToSet
    <3>3. \A e \in Conns : conn'[e].state # "free" <=> conn[e].state # "free" \/ e = c
      BY <1>1
    <3> QED
      BY <3>1, <3>2, <3>3
  <2>2. \A e \in Conns : conn'[e].running <=> conn'[e].state \in {"work", "quit"}
    BY <1>1 DEF Inv, QueueHoldsLive
  <2> QED
    BY <2>1, <2>2 DEF QueueHoldsLive, NoDup
<1> QED
  BY <1>2, <1>3, <1>4 DEF Inv

\* The same for a connection that is in the queue and keeps its downloads.
LEMMA ChangeOwnedInv ==
    ASSUME Inv, NEW c \in Conns, NEW r \in ConnRecord,
           conn' = [conn EXCEPT ![c] = r],
           conn[c].state # "free", r.state # "free",
           r.running <=> r.state \in {"work", "quit"},
           r.dls = conn[c].dls,
           UNCHANGED <<queue, dl>>,
           active' \in Int, hostRefs' \in [Hosts -> Nat], SlotsCounted',
           LoopTyped'
    PROVE  Inv'
<1>1. queue' \in Seq(Conns) /\ NoDup(queue') /\ ToSet(queue') = ToSet(queue) \cup {c}
  BY QueueNow, LiveInQueue
<1>2. DownloadsAttached'
  <2>1. \A e \in Conns : conn'[e].dls = conn[e].dls
    BY DEF Inv, TypeOK
  <2> QED
    BY <2>1 DEF Inv, DownloadsAttached
<1>3. dl' \in [Downloads -> DownloadRecord]
  BY DEF Inv, TypeOK
<1> QED
  BY <1>1, <1>2, <1>3, ChangeInv

\* A step that leaves queue, connections and slots alone.
LEMMA LoopInv ==
    ASSUME Inv, UNCHANGED <<queue, conn, dl, slots>>, LoopTyped'
    PROVE  Inv'
<1>1. TypeOK'
  BY DEF Inv, TypeOK, LoopTyped, KeptUris, slots
<1>2. FreedIsClean' /\ QueueHoldsLive' /\ DownloadsAttached'
  BY DEF Inv, FreedIsClean, QueueHoldsLive, DownloadsAttached, ToSet
<1>3. SlotsCounted'
  <2>1. Cardinality(Running') = Cardinality(Running)
    BY DEF Running
  <2>2. \A h \in Hosts : Cardinality(RunningOn(h)') = Cardinality(RunningOn(h))
    BY DEF RunningOn, Running, Host
  <2> QED
    BY <2>1, <2>2 DEF Inv, SlotsCounted, slots
<1> QED
  BY <1>1, <1>2, <1>3 DEF Inv

\* Whatever has_keepalive_connection() takes, the list keeps its type.
LEMMA TakeKeepaliveTyped ==
    ASSUME Inv, NEW u, TakeKeepalive(u)
    PROVE  keep' \in Seq(KeptUris)
<1>1. keep \in Seq(KeptUris)
  BY LoopTypedNow DEF LoopTyped
<1> QED
  BY <1>1, RemoveAtProperties DEF TakeKeepalive

-----------------------------------------------------------------------------
(* The interface keeps the invariant.                                      *)

LEMMA WantedIsPri == Wanted \subseteq Pris
BY LimitsAssumption DEF Wanted, Pris

\* A connection with another count of one priority and other downloads.
Counted(r, p, n, D) == [r EXCEPT !.pri = [@ EXCEPT ![p] = n], !.dls = D]

LEMMA CountedTyped ==
    ASSUME NEW r \in ConnRecord, NEW p \in Pris, NEW n \in Int,
           NEW D \in SUBSET Downloads
    PROVE  /\ Counted(r, p, n, D) \in ConnRecord
           /\ Counted(r, p, n, D).dls = D
           /\ Counted(r, p, n, D).state = r.state
           /\ Counted(r, p, n, D).running = r.running
           /\ Counted(r, p, n, D).uri = r.uri
<1> DEFINE np == [r.pri EXCEPT ![p] = n]
           s == [r EXCEPT !.pri = np, !.dls = D]
<1>1. r.pri \in [Pris -> Int] /\ r.dls \in SUBSET Downloads
  BY DEF ConnRecord
<1>2. np \in [Pris -> Int]
  BY <1>1
<1> HIDE DEF np
<1>3. /\ s \in ConnRecord
      /\ s.dls = D /\ s.state = r.state /\ s.running = r.running /\ s.uri = r.uri
  BY <1>2 DEF ConnRecord
<1>4. Counted(r, p, n, D) = s
  BY DEF np, Counted
<1> QED
  BY <1>3, <1>4

LEMMA PriCounted ==
    ASSUME NEW r \in ConnRecord, NEW p \in Pris
    PROVE  r.pri[p] + 1 \in Int /\ r.pri[p] - 1 \in Int
<1>1. r.pri \in [Pris -> Int]
  BY DEF ConnRecord
<1> QED
  BY <1>1

LEMMA JoinedTyped ==
    ASSUME NEW r \in ConnRecord, NEW d \in Downloads, NEW p \in Pris
    PROVE  /\ Joined(r, d, p) \in ConnRecord
           /\ Joined(r, d, p).dls = r.dls \cup {d}
           /\ Joined(r, d, p).state = r.state
           /\ Joined(r, d, p).running = r.running
           /\ Joined(r, d, p).uri = r.uri
<1>1. r.dls \cup {d} \in SUBSET Downloads
  BY DEF ConnRecord
<1>2. Joined(r, d, p) = Counted(r, p, r.pri[p] + 1, r.dls \cup {d})
  BY DEF Joined, Counted
<1> QED
  BY <1>1, <1>2, PriCounted, CountedTyped

LEMMA LeftTyped ==
    ASSUME NEW r \in ConnRecord, NEW d \in Downloads, NEW p \in Pris
    PROVE  /\ Left(r, d, p) \in ConnRecord
           /\ Left(r, d, p).dls = r.dls \ {d}
           /\ Left(r, d, p).state = r.state
           /\ Left(r, d, p).running = r.running
           /\ Left(r, d, p).uri = r.uri
<1>1. r.dls \ {d} \in SUBSET Downloads
  BY DEF ConnRecord
<1>2. Left(r, d, p) = Counted(r, p, r.pri[p] - 1, r.dls \ {d})
  BY DEF Left, Counted
<1> QED
  BY <1>1, <1>2, PriCounted, CountedTyped

LEMMA OrphanedTyped ==
    ASSUME NEW r \in ConnRecord
    PROVE  /\ Orphaned(r) \in ConnRecord
           /\ Orphaned(r).dls = r.dls
           /\ Orphaned(r).state = r.state
           /\ Orphaned(r).running = r.running
           /\ Orphaned(r).uri = r.uri
<1>1. r.dls \in SUBSET Downloads /\ PRI_CANCEL \in Pris
  BY LimitsAssumption DEF ConnRecord, Pris
<1>2. Orphaned(r) = Counted(r, PRI_CANCEL, r.pri[PRI_CANCEL] + 1, r.dls)
  BY DEF Orphaned, Counted, ConnRecord
<1> QED
  BY <1>1, <1>2, PriCounted, CountedTyped

LEMMA LoadUriJoinInv ==
    ASSUME Inv, NEW d \in Downloads, NEW u \in Uris, NEW p \in Wanted,
           LoadUriJoin(d, u, p)
    PROVE  Inv'
<1>1. PICK i \in DOMAIN queue :
        /\ conn' = [conn EXCEPT ![queue[i]] = Joined(@, d, p)]
        /\ dl' = [dl EXCEPT ![d] = [state |-> "progress", conn |-> queue[i], pri |-> p]]
        /\ \/ /\ \E q \in Without(queue, {queue[i]}) : queue' \in Enqueued(q, conn', queue[i])
              /\ pending' = TRUE
           \/ UNCHANGED <<queue, pending>>
  BY DEF LoadUriJoin
<1> DEFINE c == queue[i]
           r == Joined(conn[c], d, p)
<1>2. c \in Conns /\ conn[c].state # "free" /\ c \in ToSet(queue)
  BY InQueueIsConn, LiveInQueue
<1>3. conn[c] \in ConnRecord /\ p \in Pris
  BY <1>2, WantedIsPri DEF Inv, TypeOK
<1>4. /\ r \in ConnRecord /\ r.dls = conn[c].dls \cup {d}
      /\ r.state = conn[c].state /\ r.running = conn[c].running /\ r.uri = conn[c].uri
  BY <1>3, JoinedTyped
<1>5. conn' = [conn EXCEPT ![c] = r]
  BY <1>1
<1> HIDE DEF c, r
<1>6. queue' \in Seq(Conns) /\ NoDup(queue') /\ ToSet(queue') = ToSet(queue) \cup {c}
  <2>1. CASE \E q \in Without(queue, {c}) : queue' \in Enqueued(q, conn', c)
    <3>1. PICK q \in Without(queue, {c}) : queue' \in Enqueued(q, conn', c)
      BY <2>1
    <3>2. q \in Seq(Conns) /\ NoDup(q) /\ ToSet(q) = ToSet(queue) \ {c}
      BY <3>1, QueueNow, WithoutProperties
    <3>3. queue' \in Seq(Conns) /\ NoDup(queue') /\ ToSet(queue') = ToSet(q) \cup {c}
      BY <1>2, <3>1, <3>2, EnqueuedProperties
    <3> QED
      BY <3>2, <3>3
  <2>2. CASE UNCHANGED queue
    BY <2>2, <1>2, QueueNow
  <2> QED
    BY <1>1, <2>1, <2>2 DEF c
<1>7. dl' = [dl EXCEPT ![d] = [state |-> "progress", conn |-> c, pri |-> p]]
  BY <1>1 DEF c
<1>8. dl' \in [Downloads -> DownloadRecord]
  BY <1>2, <1>3, <1>7 DEF Inv, TypeOK, DownloadRecord
<1>9. DownloadsAttached'
  <2>1. /\ dl'[d].state = "progress" /\ dl'[d].conn = c
        /\ \A e \in Downloads \ {d} : dl'[e] = dl[e]
    BY <1>7 DEF Inv, TypeOK
  <2>2. /\ conn'[c].dls = conn[c].dls \cup {d}
        /\ \A e \in Conns \ {c} : conn'[e].dls = conn[e].dls
    BY <1>2, <1>4, <1>5 DEF Inv, TypeOK
  <2>3. dl[d].state = "result"
    BY DEF LoadUriJoin
  <2>4. c # NoConn
    BY <1>2, ConnsAssumption
  <2>5. \A e \in Conns : conn[e].dls =
          {f \in Downloads : dl[f].state = "progress" /\ dl[f].conn = e}
    BY DEF Inv, DownloadsAttached
  <2>6. \A e \in Conns : conn'[e].dls =
          {f \in Downloads : dl'[f].state = "progress" /\ dl'[f].conn = e}
    BY <1>2, <2>1, <2>2, <2>3, <2>5
  <2>7. \A e \in Downloads : dl'[e].state = "progress" => dl'[e].conn # NoConn
    BY <2>1, <2>4 DEF Inv, DownloadsAttached
  <2> QED
    BY <2>6, <2>7 DEF DownloadsAttached
<1>10. UNCHANGED slots /\ LoopTyped'
  <2>1. LoopTyped
    BY LoopTypedNow
  <2> QED
    BY <1>1, <2>1 DEF LoadUriJoin, LoopTyped, keepalives
<1>11. active' \in Int /\ hostRefs' \in [Hosts -> Nat]
  BY <1>10 DEF slots, Inv, TypeOK
<1>12. SlotsCounted'
  BY <1>2, <1>4, <1>5, <1>10, SlotsKept
<1>13. r.state # "free" /\ (r.running <=> r.state \in {"work", "quit"})
  BY <1>2, <1>4 DEF Inv, QueueHoldsLive
<1> QED
  BY <1>2, <1>4, <1>5, <1>6, <1>8, <1>9, <1>10, <1>11, <1>12, <1>13, ChangeInv

LEMMA LoadUriNewInv ==
    ASSUME Inv, NEW d \in Downloads, NEW u \in Uris, NEW p \in Wanted,
           LoadUriNew(d, u, p)
    PROVE  Inv'
<1> DEFINE r == [FreeConn EXCEPT !.uri = u, !.state = "wait", !.pri[p] = 1, !.dls = {d}]
<1>1. PICK c \in Conns :
        /\ conn[c].state = "free"
        /\ conn' = [conn EXCEPT ![c] = r]
        /\ dl' = [dl EXCEPT ![d] = [state |-> "progress", conn |-> c, pri |-> p]]
        /\ queue' \in Enqueued(queue, conn', c)
  BY DEF LoadUriNew
<1>2. p \in Pris
  BY WantedIsPri
<1>3. /\ r \in ConnRecord /\ r.state = "wait" /\ r.running = FALSE /\ r.dls = {d}
  <2> DEFINE np == [FreeConn.pri EXCEPT ![p] = 1]
             t == [FreeConn EXCEPT !.uri = u, !.state = "wait", !.pri = np, !.dls = {d}]
  <2>1. np \in [Pris -> Int]
    BY <1>2 DEF FreeConn
  <2>2. r = t
    OBVIOUS
  <2> HIDE DEF np
  <2>3. FreeConn \in ConnRecord /\ FreeConn.running = FALSE
    BY FreeConnTyped DEF FreeConn
  <2>4. t \in ConnRecord /\ t.state = "wait" /\ t.running = FALSE /\ t.dls = {d}
    BY <2>1, <2>3 DEF ConnRecord
  <2> QED
    BY <2>2, <2>4
<1> HIDE DEF r
<1>4. conn[c].dls = {} /\ conn[c].running = FALSE
  BY <1>1 DEF Inv, FreedIsClean, FreeConn
<1>5. queue' \in Seq(Conns) /\ NoDup(queue') /\ ToSet(queue') = ToSet(queue) \cup {c}
  <2>1. c \notin ToSet(queue)
    BY <1>1, LiveInQueue
  <2> QED
    BY <1>1, <2>1, QueueNow, EnqueuedProperties
<1>6. dl' \in [Downloads -> DownloadRecord]
  BY <1>1, <1>2 DEF Inv, TypeOK, DownloadRecord
<1>7. DownloadsAttached'
  <2>1. /\ dl'[d].state = "progress" /\ dl'[d].conn = c
        /\ \A e \in Downloads \ {d} : dl'[e] = dl[e]
    BY <1>1 DEF Inv, TypeOK
  <2>2. /\ conn'[c].dls = {d}
        /\ \A e \in Conns \ {c} : conn'[e].dls = conn[e].dls
    BY <1>1, <1>3 DEF Inv, TypeOK
  <2>3. dl[d].state = "result"
    BY DEF LoadUriNew
  <2>4. c # NoConn
    BY ConnsAssumption
  <2>5. \A e \in Conns : conn[e].dls =
          {f \in Downloads : dl[f].state = "progress" /\ dl[f].conn = e}
    BY DEF Inv, DownloadsAttached
  <2>6. \A e \in Conns : conn'[e].dls =
          {f \in Downloads : dl'[f].state = "progress" /\ dl'[f].conn = e}
    BY <1>4, <2>1, <2>2, <2>3, <2>5
  <2>7. \A e \in Downloads : dl'[e].state = "progress" => dl'[e].conn # NoConn
    BY <2>1, <2>4 DEF Inv, DownloadsAttached
  <2> QED
    BY <2>6, <2>7 DEF DownloadsAttached
<1>8. UNCHANGED slots /\ LoopTyped'
  <2>1. LoopTyped
    BY LoopTypedNow
  <2> QED
    BY <2>1 DEF LoadUriNew, LoopTyped, keepalives
<1>9. active' \in Int /\ hostRefs' \in [Hosts -> Nat]
  BY <1>8 DEF slots, Inv, TypeOK
<1>10. SlotsCounted'
  BY <1>1, <1>3, <1>4, <1>8, SlotsKept
<1> QED
  BY <1>1, <1>3, <1>5, <1>6, <1>7, <1>8, <1>9, <1>10, ChangeInv

\* Without, then Sorted, as cancel_download() does when it aborts.
LEMMA WithoutSortedLoses ==
    ASSUME Inv, NEW C, NEW cs,
           \E q \in Without(queue, C) : queue' \in Sorted(q, cs)
    PROVE  QueueLoses(C)
<1>1. PICK q \in Without(queue, C) : queue' \in Sorted(q, cs)
  OBVIOUS
<1>2. q \in Seq(Conns) /\ NoDup(q) /\ ToSet(q) = ToSet(queue) \ C
  BY QueueNow, WithoutProperties
<1>3. queue' \in Seq(Conns) /\ NoDup(queue') /\ ToSet(queue') = ToSet(q)
  BY <1>1, <1>2, SortedProperties
<1> QED
  BY <1>2, <1>3 DEF QueueLoses

LEMMA CancelDownloadInv ==
    ASSUME Inv, NEW d \in Downloads, NEW interrupt \in BOOLEAN,
           CancelDownload(d, interrupt)
    PROVE  Inv'
<1> DEFINE c == dl[d].conn
           less == Left(conn[c], d, dl[d].pri)
           abort == less.dls = {} /\ (conn[c].detached \/ interrupt)
<1>1. c \in Conns /\ conn[c].state # "free" /\ dl[d].pri \in Pris /\ d \in conn[c].dls
  BY DownloadsConn DEF CancelDownload
<1>2. LoopTyped'
  <2>1. LoopTyped
    BY LoopTypedNow
  <2> QED
    BY <2>1 DEF CancelDownload, LoopTyped, keepalives
<1>3. CASE abort
  <2>1. FreeConns({c}) /\ QueueLoses({c})
    BY <1>3, WithoutSortedLoses DEF CancelDownload
  <2> QED
    BY <1>1, <1>2, <2>1, EndInv
<1>4. CASE ~abort
  <2> DEFINE r == IF less.dls = {} THEN Orphaned(less) ELSE less
  <2>1. /\ conn' = [conn EXCEPT ![c] = r]
        /\ dl' = [dl EXCEPT ![d] = Idle]
        /\ queue' \in Sorted(queue, conn')
        /\ UNCHANGED slots
    BY <1>4 DEF CancelDownload
  <2>2. /\ less \in ConnRecord /\ less.dls = conn[c].dls \ {d}
        /\ less.state = conn[c].state /\ less.running = conn[c].running
        /\ less.uri = conn[c].uri
    BY <1>1, LeftTyped DEF Inv, TypeOK
  <2> HIDE DEF less
  <2>3. /\ r \in ConnRecord /\ r.dls = conn[c].dls \ {d}
        /\ r.state = conn[c].state /\ r.running = conn[c].running /\ r.uri = conn[c].uri
    BY <2>2, OrphanedTyped
  <2> HIDE DEF r
  <2>4. queue' \in Seq(Conns) /\ NoDup(queue') /\ ToSet(queue') = ToSet(queue) \cup {c}
    <3>1. c \in ToSet(queue)
      BY <1>1, LiveInQueue
    <3> QED
      BY <2>1, <3>1, QueueNow, SortedProperties
  <2>5. dl' \in [Downloads -> DownloadRecord]
    BY <2>1, IdleTyped DEF Inv, TypeOK
  <2>6. DownloadsAttached'
    <3>1. /\ dl'[d].state = "result"
          /\ \A e \in Downloads \ {d} : dl'[e] = dl[e]
      BY <2>1 DEF Inv, TypeOK, Idle
    <3>2. /\ conn'[c].dls = conn[c].dls \ {d}
          /\ \A e \in Conns \ {c} : conn'[e].dls = conn[e].dls
      BY <1>1, <2>1, <2>3 DEF Inv, TypeOK
    <3>3. \A e \in Conns : conn[e].dls =
            {f \in Downloads : dl[f].state = "progress" /\ dl[f].conn = e}
      BY DEF Inv, DownloadsAttached
    <3>4. \A e \in Conns : conn'[e].dls =
            {f \in Downloads : dl'[f].state = "progress" /\ dl'[f].conn = e}
      BY <1>1, <3>1, <3>2, <3>3
    <3>5. \A e \in Downloads : dl'[e].state = "progress" => dl'[e].conn # NoConn
      BY <3>1 DEF Inv, DownloadsAttached
    <3> QED
      BY <3>4, <3>5 DEF DownloadsAttached
  <2>7. active' \in Int /\ hostRefs' \in [Hosts -> Nat]
    BY <2>1 DEF slots, Inv, TypeOK
  <2>8. SlotsCounted'
    BY <1>1, <2>1, <2>3, SlotsKept
  <2>9. r.state # "free" /\ (r.running <=> r.state \in {"work", "quit"})
    BY <1>1, <2>3 DEF Inv, QueueHoldsLive
  <2> QED
    BY <1>1, <1>2, <2>1, <2>3, <2>4, <2>5, <2>6, <2>7, <2>8, <2>9, ChangeInv
<1> QED
  BY <1>3, <1>4

LEMMA MoveDownloadInv ==
    ASSUME Inv, NEW old \in Downloads, NEW new \in Downloads, NEW p \in Wanted,
           MoveDownload(old, new, p)
    PROVE  Inv'
<1> DEFINE c == dl[old].conn
           more == Joined(conn[c], new, p)
           r == Left(more, old, dl[old].pri)
<1>1. c \in Conns /\ conn[c].state # "free" /\ dl[old].pri \in Pris /\ old \in conn[c].dls
  BY DownloadsConn DEF MoveDownload
<1>2. /\ conn' = [conn EXCEPT ![c] = r]
      /\ dl' = [dl EXCEPT ![new] = [state |-> "progress", conn |-> c, pri |-> p],
                          ![old] = Idle]
      /\ \E q1 \in Sorted(queue, [conn EXCEPT ![c] = more]) : queue' \in Sorted(q1, conn')
      /\ UNCHANGED slots
  BY DEF MoveDownload
<1>3. p \in Pris
  BY WantedIsPri
<1>4. /\ more \in ConnRecord /\ more.dls = conn[c].dls \cup {new}
      /\ more.state = conn[c].state /\ more.running = conn[c].running
      /\ more.uri = conn[c].uri
  BY <1>1, <1>3, JoinedTyped DEF Inv, TypeOK
<1> HIDE DEF more
<1>5. /\ r \in ConnRecord /\ r.dls = (conn[c].dls \cup {new}) \ {old}
      /\ r.state = conn[c].state /\ r.running = conn[c].running /\ r.uri = conn[c].uri
  BY <1>1, <1>4, LeftTyped
<1> HIDE DEF r
<1>6. queue' \in Seq(Conns) /\ NoDup(queue') /\ ToSet(queue') = ToSet(queue) \cup {c}
  <2>1. PICK q1 \in Sorted(queue, [conn EXCEPT ![c] = more]) : queue' \in Sorted(q1, conn')
    BY <1>2
  <2>2. q1 \in Seq(Conns) /\ NoDup(q1) /\ ToSet(q1) = ToSet(queue)
    BY <2>1, QueueNow, SortedProperties
  <2>3. queue' \in Seq(Conns) /\ NoDup(queue') /\ ToSet(queue') = ToSet(q1)
    BY <2>1, <2>2, SortedProperties
  <2>4. c \in ToSet(queue)
    BY <1>1, LiveInQueue
  <2> QED
    BY <2>2, <2>3, <2>4
<1>7. dl' \in [Downloads -> DownloadRecord]
  <2>1. [state |-> "progress", conn |-> c, pri |-> p] \in DownloadRecord
    BY <1>1, <1>3 DEF DownloadRecord
  <2> QED
    BY <1>2, <2>1, IdleTyped DEF Inv, TypeOK
<1>8. DownloadsAttached'
  <2>1. dl[new].state = "result" /\ dl[old].state = "progress" /\ old # new
    BY DEF MoveDownload
  <2>2. /\ dl'[new].state = "progress" /\ dl'[new].conn = c
        /\ dl'[old].state = "result"
        /\ \A e \in Downloads \ {old, new} : dl'[e] = dl[e]
    BY <1>2, <2>1 DEF Inv, TypeOK, Idle
  <2>3. /\ conn'[c].dls = (conn[c].dls \cup {new}) \ {old}
        /\ \A e \in Conns \ {c} : conn'[e].dls = conn[e].dls
    BY <1>1, <1>2, <1>5 DEF Inv, TypeOK
  <2>4. c # NoConn
    BY <1>1, ConnsAssumption
  <2>5. \A e \in Conns : conn[e].dls =
          {f \in Downloads : dl[f].state = "progress" /\ dl[f].conn = e}
    BY DEF Inv, DownloadsAttached
  <2>6. ASSUME NEW e \in Conns
        PROVE  conn'[e].dls = {f \in Downloads : dl'[f].state = "progress" /\ dl'[f].conn = e}
    <3>1. CASE e = c
      BY <1>1, <2>1, <2>2, <2>3, <2>5, <3>1
    <3>2. CASE e # c
      BY <1>1, <2>1, <2>2, <2>3, <2>5, <3>2
    <3> QED
      BY <3>1, <3>2
  <2>7. \A e \in Downloads : dl'[e].state = "progress" => dl'[e].conn # NoConn
    BY <2>2, <2>4 DEF Inv, DownloadsAttached
  <2> QED
    BY <2>6, <2>7 DEF DownloadsAttached
<1>9. LoopTyped'
  <2>1. LoopTyped
    BY LoopTypedNow
  <2> QED
    BY <2>1 DEF MoveDownload, LoopTyped, keepalives
<1>10. active' \in Int /\ hostRefs' \in [Hosts -> Nat]
  BY <1>2 DEF slots, Inv, TypeOK
<1>11. SlotsCounted'
  BY <1>1, <1>2, <1>5, SlotsKept
<1>12. r.state # "free" /\ (r.running <=> r.state \in {"work", "quit"})
  BY <1>1, <1>5 DEF Inv, QueueHoldsLive
<1> QED
  BY <1>1, <1>2, <1>5, <1>6, <1>7, <1>8, <1>9, <1>10, <1>11, <1>12, ChangeInv

LEMMA DetachConnectionInv ==
    ASSUME Inv, NEW d \in Downloads, DetachConnection(d)
    PROVE  Inv'
<1> DEFINE c == dl[d].conn
           r == [conn[c] EXCEPT !.detached = TRUE]
<1>1. c \in Conns /\ conn[c].state # "free"
  BY DownloadsConn DEF DetachConnection
<1>2. conn' = [conn EXCEPT ![c] = r]
  BY DEF DetachConnection
<1>3. conn[c] \in ConnRecord
  BY <1>1 DEF Inv, TypeOK
<1>4. /\ r \in ConnRecord /\ r.dls = conn[c].dls
      /\ r.state = conn[c].state /\ r.running = conn[c].running /\ r.uri = conn[c].uri
  BY <1>3 DEF ConnRecord
<1> HIDE DEF r
<1>5. UNCHANGED <<queue, dl, slots>> /\ LoopTyped'
  <2>1. LoopTyped
    BY LoopTypedNow
  <2> QED
    BY <2>1 DEF DetachConnection, LoopTyped, keepalives
<1>6. SlotsCounted'
  BY <1>1, <1>2, <1>4, <1>5, SlotsKept
<1>7. active' \in Int /\ hostRefs' \in [Hosts -> Nat]
  BY <1>5 DEF slots, Inv, TypeOK
<1>8. r.running <=> r.state \in {"work", "quit"}
  BY <1>1, <1>4 DEF Inv, QueueHoldsLive
<1> QED
  BY <1>1, <1>2, <1>4, <1>5, <1>6, <1>7, <1>8, ChangeOwnedInv

LEMMA AbortConnectionsInv ==
    ASSUME Inv, NEW C \in SUBSET ToSet(queue), AbortConnections(C), LoopTyped'
    PROVE  Inv'
<1>1. C \in SUBSET Conns
  BY DEF Inv, QueueHoldsLive
<1>2. FreeConns(C) /\ QueueLoses(C)
  BY WithoutLoses DEF AbortConnections, Inv
<1> QED
  BY <1>1, <1>2, EndInv

LEMMA ApiInv == Inv /\ Api => Inv'
<1> SUFFICES ASSUME Inv, Api
             PROVE  Inv'
  OBVIOUS
<1>1. LoopTyped
  BY LoopTypedNow
<1>2. CASE AbortBackgroundConnections
  <2> DEFINE C == {c \in ToSet(queue) : get_priority(conn[c]) >= PRI_CANCEL}
  <2>1. AbortConnections(C)
    BY <1>2 DEF AbortBackgroundConnections
  <2>2. LoopTyped'
    BY <1>1, <1>2 DEF AbortBackgroundConnections, AbortConnections, LoopTyped, keepalives
  <2>3. C \in SUBSET ToSet(queue)
    OBVIOUS
  <2> HIDE DEF C
  <2> QED
    BY <2>1, <2>2, <2>3, AbortConnectionsInv
<1>3. CASE AbortAllConnections
  <2>1. AbortConnections(ToSet(queue))
    BY <1>3 DEF AbortAllConnections
  <2>2. LoopTyped'
    BY <1>1, <1>3 DEF AbortAllConnections, AbortConnections, LoopTyped, keepalives
  <2>3. ToSet(queue) \in SUBSET ToSet(queue)
    OBVIOUS
  <2> QED
    BY <2>1, <2>2, <2>3, AbortConnectionsInv
<1> QED
  BY <1>2, <1>3, LoadUriJoinInv, LoadUriNewInv, CancelDownloadInv, MoveDownloadInv,
     DetachConnectionInv DEF Api

-----------------------------------------------------------------------------
(* The handlers keep it.                                                   *)

LEMMA EndConnectionInv ==
    ASSUME Inv, NEW c \in Conns, EndConnection(c)
    PROVE  Inv'
<1>1. FreeConns({c}) /\ QueueLoses({c})
  BY WithoutLoses DEF EndConnection, Inv
<1>2. LoopTyped'
  <2>1. LoopTyped
    BY LoopTypedNow
  <2> QED
    BY <2>1 DEF EndConnection, LoopTyped, keepalives
<1> QED
  BY <1>1, <1>2, EndInv

LEMMA EndKeepaliveInv ==
    ASSUME Inv, NEW c \in Conns, EndKeepalive(c)
    PROVE  Inv'
<1>1. FreeConns({c}) /\ QueueLoses({c})
  BY WithoutLoses DEF EndKeepalive, Inv
<1>2. conn[c].uri \in KeptUris
  BY DEF EndKeepalive, Host, HostOfUri, Inv, TypeOK, ConnRecord, KeptUris
<1>3. keep' \in Seq(KeptUris)
  <2>1. <<conn[c].uri>> \in Seq(KeptUris)
    BY <1>2
  <2>2. keep \in Seq(KeptUris)
    BY LoopTypedNow DEF LoopTyped
  <2> QED
    BY <2>1, <2>2, ConcatProperties DEF EndKeepalive
<1>4. LoopTyped'
  <2>1. LoopTyped
    BY LoopTypedNow
  <2> QED
    BY <1>3, <2>1 DEF EndKeepalive, LoopTyped
<1> QED
  BY <1>1, <1>4, EndInv

LEMMA TriesTyped ==
    ASSUME NEW r \in ConnRecord, NEW t \in TriesAfterRun(r)
    PROVE  t \in Nat
<1>1. r.tries \in Nat /\ Retries \in Nat
  BY LimitsAssumption DEF ConnRecord
<1>2. t = r.tries \/ t \in (r.tries + 1) .. (Retries - 1)
  BY DEF TriesAfterRun
<1> QED
  BY <1>1, <1>2

LEMMA RetryConnectionInv ==
    ASSUME Inv, NEW c \in Conns, RetryConnection(c)
    PROVE  Inv'
<1>1. LoopTyped
  BY LoopTypedNow
<1>2. CASE OutOfTries(conn[c]) /\ FreeConns({c}) /\ queue' \in Without(queue, {c})
           /\ pending' = TRUE /\ UNCHANGED keep
  <2>1. QueueLoses({c})
    BY <1>2, WithoutLoses DEF Inv
  <2>2. LoopTyped'
    BY <1>1, <1>2 DEF RetryConnection, LoopTyped
  <2> QED
    BY <1>2, <2>1, <2>2, EndInv
<1>3. CASE ~OutOfTries(conn[c]) /\ TakeKeepalive(conn[c].uri)
           /\ UNCHANGED <<queue, dl, slots, pending>>
  <2> DEFINE n == IF Retries = 0 THEN conn[c].tries ELSE conn[c].tries + 1
             s == [conn[c] EXCEPT !.tries = n]
  <2>1. conn[c] \in ConnRecord /\ conn[c].running
    BY DEF Inv, TypeOK, RetryConnection
  <2>2. s \in ConnRecord /\ s.dls = conn[c].dls /\ s.running = conn[c].running
        /\ s.uri = conn[c].uri
    <3>1. n \in Nat
      BY <2>1 DEF ConnRecord
    <3> HIDE DEF n
    <3> QED
      BY <2>1, <3>1 DEF ConnRecord
  <2>3. PICK t \in TriesAfterRun(s) :
          conn' = [conn EXCEPT ![c] = [s EXCEPT !.state = "work", !.tries = t]]
    BY <1>3 DEF RetryConnection
  <2>4. t \in Nat
    BY <2>2, <2>3, TriesTyped
  <2> DEFINE r == [s EXCEPT !.state = "work", !.tries = t]
  <2> HIDE DEF s
  <2>5. r \in ConnRecord /\ r.dls = s.dls /\ r.running = s.running /\ r.uri = s.uri
        /\ r.state = "work"
    BY <2>2, <2>4 DEF ConnRecord
  <2>6. conn' = [conn EXCEPT ![c] = r]
    BY <2>3
  <2> HIDE DEF r
  <2>7. keep' \in Seq(KeptUris)
    BY <1>3, TakeKeepaliveTyped
  <2>8. LoopTyped'
    BY <1>1, <1>3, <2>7 DEF RetryConnection, LoopTyped
  <2>9. SlotsCounted'
    BY <1>3, <2>2, <2>5, <2>6, SlotsKept
  <2>10. active' \in Int /\ hostRefs' \in [Hosts -> Nat]
    BY <1>3 DEF slots, Inv, TypeOK
  <2>11. conn[c].state # "free"
    BY <2>1 DEF Inv, QueueHoldsLive
  <2> QED
    BY <1>3, <2>1, <2>2, <2>5, <2>6, <2>8, <2>9, <2>10, <2>11, ChangeOwnedInv
<1> QED
  BY <1>2, <1>3 DEF RetryConnection

LEMMA TransferInv ==
    ASSUME Inv, NEW c \in Conns, Transfer(c)
    PROVE  Inv'
BY EndConnectionInv, EndKeepaliveInv, RetryConnectionInv DEF Transfer

-----------------------------------------------------------------------------
(* The keepalive list and check_queue() keep it.                           *)

\* A connection that gets its slot: r is what it is then.
LEMMA StartedInv ==
    ASSUME Inv, NEW c \in Conns, NEW r \in ConnRecord,
           conn' = [conn EXCEPT ![c] = r],
           conn[c].state # "free", ~conn[c].running,
           r.state = "work", r.running = TRUE, r.dls = conn[c].dls,
           TakeSlot(HostOfUri(r.uri)),
           UNCHANGED <<queue, dl>>, LoopTyped'
    PROVE  Inv'
<1>1. SlotsCounted' /\ active' \in Int /\ hostRefs' \in [Hosts -> Nat]
  BY SlotTaken
<1>2. r.state # "free" /\ (r.running <=> r.state \in {"work", "quit"})
  OBVIOUS
<1> QED
  BY <1>1, <1>2, ChangeOwnedInv

LEMMA QuitConnectionInv ==
    ASSUME Inv, NEW u \in QuitUris, QuitConnection(u), UNCHANGED dl, LoopTyped'
    PROVE  Inv'
<1> DEFINE np == [FreeConn.pri EXCEPT ![PRI_CANCEL] = 1]
           r == [FreeConn EXCEPT !.uri = u, !.state = "quit", !.pri = np, !.running = TRUE]
<1>1. PICK c \in Conns :
        /\ conn[c].state = "free"
        /\ conn' = [conn EXCEPT ![c] =
                      [FreeConn EXCEPT !.uri = u, !.state = "quit",
                                       !.pri[PRI_CANCEL] = 1, !.running = TRUE]]
        /\ queue' \in Enqueued(queue, conn', c)
        /\ TakeSlot(HostOf[u])
  BY DEF QuitConnection
<1>2. conn' = [conn EXCEPT ![c] = r]
  BY <1>1
<1>3. u \in Uris /\ HostOf[u] # NoHost
  BY UrisAssumption
<1>4. r \in ConnRecord /\ r.state = "quit" /\ r.running = TRUE /\ r.dls = {} /\ r.uri = u
  <2>1. np \in [Pris -> Int] /\ FreeConn.dls = {}
    BY LimitsAssumption DEF FreeConn, Pris
  <2> HIDE DEF np
  <2> QED
    BY <1>3, <2>1, FreeConnTyped DEF ConnRecord
<1> HIDE DEF r
<1>5. conn[c].dls = {} /\ ~conn[c].running
  BY <1>1 DEF Inv, FreedIsClean, FreeConn
<1>6. queue' \in Seq(Conns) /\ NoDup(queue') /\ ToSet(queue') = ToSet(queue) \cup {c}
  <2>1. c \notin ToSet(queue)
    BY <1>1, LiveInQueue
  <2> QED
    BY <1>1, <2>1, QueueNow, EnqueuedProperties
<1>7. DownloadsAttached'
  <2>1. \A e \in Conns : conn'[e].dls = conn[e].dls
    BY <1>2, <1>4, <1>5 DEF Inv, TypeOK
  <2> QED
    BY <2>1 DEF Inv, DownloadsAttached
<1>8. SlotsCounted' /\ active' \in Int /\ hostRefs' \in [Hosts -> Nat]
  <2>1. HostOfUri(r.uri) = HostOf[u]
    BY <1>3, <1>4, UrisAssumption DEF HostOfUri
  <2>2. TakeSlot(HostOfUri(r.uri))
    BY <1>1, <2>1 DEF TakeSlot
  <2> QED
    BY <1>2, <1>4, <1>5, <2>2, SlotTaken
<1>9. dl' \in [Downloads -> DownloadRecord]
  BY DEF Inv, TypeOK
<1>10. r.state # "free" /\ (r.running <=> r.state \in {"work", "quit"})
  BY <1>4
<1> QED
  BY <1>2, <1>4, <1>6, <1>7, <1>8, <1>9, <1>10, ChangeInv

\* One entry goes, with or without a QUIT connection; the rest of the step is
\* in LoopTyped'.
LEMMA DoneKeepaliveInv ==
    ASSUME Inv, NEW i \in DOMAIN keep, DoneKeepalive(i),
           UNCHANGED <<dl, keepTimer, pending, pc>>, visit' \in Nat \ {0}
    PROVE  Inv'
<1>1. LoopTyped
  BY LoopTypedNow
<1>2. CASE CanQuit(keep[i]) /\ QuitConnection(keep[i])
  <2>1. keep[i] \in QuitUris
    BY <1>2 DEF CanQuit
  <2>2. TakeKeepalive(keep[i])
    BY <1>2 DEF QuitConnection
  <2>3. keep' \in Seq(KeptUris)
    BY <2>2, TakeKeepaliveTyped
  <2>4. LoopTyped'
    BY <1>1, <2>3 DEF LoopTyped
  <2> QED
    BY <1>2, <2>1, <2>4, QuitConnectionInv
<1>3. CASE keep' = RemoveAt(keep, i) /\ UNCHANGED <<queue, conn, slots>>
  <2>1. keep' \in Seq(KeptUris)
    BY <1>1, <1>3, RemoveAtProperties DEF LoopTyped
  <2>2. LoopTyped'
    BY <1>1, <2>1 DEF LoopTyped
  <2> QED
    BY <1>3, <2>2, LoopInv
<1> QED
  BY <1>2, <1>3 DEF DoneKeepalive

LEMMA KeepaliveStepsInv ==
    ASSUME Inv, KeepaliveCheck \/ KeepaliveTimer \/ DropKeepalive \/ DropDone
    PROVE  Inv'
<1>1. LoopTyped
  BY LoopTypedNow
<1>2. CASE KeepaliveSurvives
  BY <1>1, <1>2, LoopInv DEF KeepaliveSurvives, LoopTyped
<1>3. CASE KeepaliveExpires
  <2>1. visit' \in Nat \ {0}
    BY <1>1, <1>3 DEF KeepaliveExpires, LoopTyped
  <2> QED
    BY <1>3, <2>1, DoneKeepaliveInv DEF KeepaliveExpires
<1>4. CASE KeepaliveTrim
  <2>1. Len(keep) \in Nat /\ Len(keep) > 0 /\ visit > Len(keep) /\ visit' = visit - 1
    BY <1>1, <1>4, LimitsAssumption DEF KeepaliveTrim, TooMany, LoopTyped
  <2>2. visit' \in Nat \ {0} /\ Len(keep) \in DOMAIN keep
    BY <1>1, <2>1 DEF LoopTyped
  <2> QED
    BY <1>4, <2>2, DoneKeepaliveInv DEF KeepaliveTrim
<1>5. CASE KeepaliveChecked
  BY <1>1, <1>5, LoopInv DEF KeepaliveChecked, LoopTyped
<1>6. CASE KeepaliveTimer
  BY <1>1, <1>6, LoopInv DEF KeepaliveTimer, LoopTyped
<1>7. CASE DropKeepalive
  <2>1. 1 \in DOMAIN keep
    BY <1>1, <1>7 DEF DropKeepalive, LoopTyped
  <2>2. visit' \in Nat \ {0}
    BY <1>1, <1>7 DEF DropKeepalive, LoopTyped
  <2> QED
    BY <1>7, <2>1, <2>2, DoneKeepaliveInv DEF DropKeepalive
<1>8. CASE DropDone
  BY <1>1, <1>8, LoopInv DEF DropDone, LoopTyped
<1> QED
  BY <1>2, <1>3, <1>4, <1>5, <1>6, <1>7, <1>8 DEF KeepaliveCheck

LEMMA RunConnectionInv ==
    ASSUME Inv, NEW i \in DOMAIN queue, RunConnection(i)
    PROVE  Inv'
<1> DEFINE c == queue[i]
<1>1. c \in Conns /\ conn[c].state # "free"
  BY InQueueIsConn
<1>2. conn[c].state = "wait" /\ ~conn[c].running
  BY <1>1 DEF RunConnection, IsNext, Candidates, Inv, QueueHoldsLive
<1>3. conn[c] \in ConnRecord
  BY <1>1 DEF Inv, TypeOK
<1>4. PICK t \in TriesAfterRun(conn[c]) :
        conn' = [conn EXCEPT ![c] = [@ EXCEPT !.state = "work", !.running = TRUE, !.tries = t]]
  BY DEF RunConnection
<1> DEFINE r == [conn[c] EXCEPT !.state = "work", !.running = TRUE, !.tries = t]
<1>5. conn' = [conn EXCEPT ![c] = r]
  BY <1>4
<1>6. r \in ConnRecord /\ r.state = "work" /\ r.running = TRUE /\ r.dls = conn[c].dls
      /\ r.uri = conn[c].uri
  <2>1. t \in Nat
    BY <1>3, <1>4, TriesTyped
  <2> QED
    BY <1>3, <2>1 DEF ConnRecord
<1> HIDE DEF r
<1>7. TakeSlot(HostOfUri(r.uri))
  BY <1>6 DEF RunConnection, TakeSlot, Host
<1>8. LoopTyped'
  <2>1. LoopTyped
    BY LoopTypedNow
  <2>2. keep' \in Seq(KeptUris)
    BY TakeKeepaliveTyped DEF RunConnection
  <2> QED
    BY <2>1, <2>2 DEF RunConnection, Again, LoopTyped
<1>9. UNCHANGED <<queue, dl>>
  BY DEF RunConnection
<1> QED
  BY <1>1, <1>2, <1>5, <1>6, <1>7, <1>8, <1>9, StartedInv

LEMMA RunConnectionEndsInv ==
    ASSUME Inv, NEW i \in DOMAIN queue, RunConnectionEnds(i)
    PROVE  Inv'
<1>1. queue[i] \in Conns
  BY InQueueIsConn
<1>2. FreeConns({queue[i]}) /\ QueueLoses({queue[i]})
  BY WithoutLoses DEF RunConnectionEnds, Inv
<1>3. LoopTyped'
  <2>1. LoopTyped
    BY LoopTypedNow
  <2>2. keep' \in Seq(KeptUris)
    BY TakeKeepaliveTyped DEF RunConnectionEnds
  <2> QED
    BY <2>1, <2>2 DEF RunConnectionEnds, Again, LoopTyped
<1> QED
  BY <1>1, <1>2, <1>3, EndInv

LEMMA SuspendConnectionInv ==
    ASSUME Inv, NEW i \in DOMAIN queue, SuspendConnection(i)
    PROVE  Inv'
<1>1. PICK j \in DOMAIN queue :
        /\ IsLast(j, Victims(i, VictimHost(i)))
        /\ conn' = [conn EXCEPT ![queue[j]] = [@ EXCEPT !.state = "wait", !.running = FALSE]]
        /\ GiveSlotBack(queue[j])
  BY DEF SuspendConnection
<1> DEFINE c == queue[j]
           r == [conn[c] EXCEPT !.state = "wait", !.running = FALSE]
<1>2. c \in Conns /\ conn[c].state # "free"
  BY InQueueIsConn
<1>3. conn[c] \in ConnRecord
  BY <1>2 DEF Inv, TypeOK
<1>4. conn[c].running
  <2>1. conn[c].state # "wait"
    BY <1>1 DEF IsLast, Victims
  <2>2. conn[c].state \in {"work", "quit"}
    BY <1>2, <1>3, <2>1 DEF ConnRecord
  <2> QED
    BY <1>2, <2>2 DEF Inv, QueueHoldsLive
<1>5. r \in ConnRecord /\ r.state = "wait" /\ r.running = FALSE /\ r.dls = conn[c].dls
  BY <1>3 DEF ConnRecord
<1>6. conn' = [conn EXCEPT ![c] = r]
  BY <1>1
<1> HIDE DEF r
<1>7. SlotsCounted' /\ active' \in Int /\ hostRefs' \in [Hosts -> Nat]
  BY <1>1, <1>2, <1>4, <1>5, <1>6, SlotGiven
<1>8. LoopTyped' /\ UNCHANGED <<queue, dl>>
  <2>1. LoopTyped
    BY LoopTypedNow
  <2> QED
    BY <2>1 DEF SuspendConnection, Again, LoopTyped
<1>9. r.state # "free" /\ (r.running <=> r.state \in {"work", "quit"})
  BY <1>5
<1> QED
  BY <1>2, <1>5, <1>6, <1>7, <1>8, <1>9, ChangeOwnedInv

LEMMA ReapInv ==
    ASSUME Inv, NEW i \in DOMAIN queue, Reap(i)
    PROVE  Inv'
<1>1. queue[i] \in Conns
  BY InQueueIsConn
<1>2. FreeConns({queue[i]}) /\ QueueLoses({queue[i]})
  BY WithoutLoses DEF Reap, Inv
<1>3. LoopTyped'
  <2>1. LoopTyped
    BY LoopTypedNow
  <2> QED
    BY <2>1 DEF Reap, LoopTyped, keepalives
<1> QED
  BY <1>1, <1>2, <1>3, EndInv

LEMMA CheckQueueInv == Inv /\ CheckQueue => Inv'
<1> SUFFICES ASSUME Inv, CheckQueue
             PROVE  Inv'
  OBVIOUS
<1>1. LoopTyped
  BY LoopTypedNow
<1>2. CASE StartCheckQueue
  BY <1>1, <1>2, LoopInv DEF StartCheckQueue, LoopTyped
<1>3. CASE ScanDone
  BY <1>1, <1>3, LoopInv DEF ScanDone, LoopTyped, keepalives
<1>4. CASE CheckQueueDone
  BY <1>1, <1>4, LoopInv DEF CheckQueueDone, LoopTyped, keepalives
<1> QED
  BY <1>2, <1>3, <1>4, KeepaliveStepsInv, RunConnectionInv, RunConnectionEndsInv,
     SuspendConnectionInv, ReapInv DEF CheckQueue

-----------------------------------------------------------------------------
(* The theorems.                                                           *)

LEMMA InitInv == Init => Inv
<1> SUFFICES ASSUME Init
             PROVE  Inv
  OBVIOUS
<1>1. TypeOK
  <2>1. <<>> \in Seq(Conns) /\ <<>> \in Seq({u \in Uris : HostOf[u] # NoHost})
    BY EmptySeq
  <2>2. conn \in [Conns -> ConnRecord] /\ dl \in [Downloads -> DownloadRecord]
    BY FreeConnTyped, IdleTyped DEF Init
  <2>3. hostRefs \in [Hosts -> Nat] /\ active \in Int /\ visit \in Nat \ {0}
    BY DEF Init
  <2> QED
    BY <2>1, <2>2, <2>3 DEF Init, TypeOK
<1>2. FreedIsClean /\ QueueHoldsLive
  BY DEF Init, FreedIsClean, QueueHoldsLive, FreeConn, ToSet
<1>3. DownloadsAttached
  BY DEF Init, DownloadsAttached, FreeConn, Idle
<1>4. SlotsCounted
  <2>1. Running = {} /\ \A h \in Hosts : RunningOn(h) = {}
    BY DEF Init, Running, RunningOn, FreeConn
  <2>2. Cardinality(Running) = 0
    BY <2>1, FS_EmptySet
  <2>3. \A h \in Hosts : Cardinality(RunningOn(h)) = 0
    BY <2>1, FS_EmptySet
  <2> QED
    BY <2>2, <2>3 DEF SlotsCounted, Init
<1> QED
  BY <1>1, <1>2, <1>3, <1>4 DEF Inv

LEMMA StepInv == Inv /\ [Next]_vars => Inv'
<1> SUFFICES ASSUME Inv, [Next]_vars
             PROVE  Inv'
  OBVIOUS
<1>1. CASE UNCHANGED vars
  <2>1. LoopTyped'
    BY <1>1, LoopTypedNow DEF LoopTyped, vars
  <2> QED
    BY <1>1, <2>1, LoopInv DEF vars, slots
<1>2. CASE Next
  BY <1>2, ApiInv, TransferInv, CheckQueueInv, KeepaliveStepsInv DEF Next
<1> QED
  BY <1>1, <1>2

\* Whatever the instance, the inductive invariant holds: the calls of the
\* interface, the handlers and the passes of check_queue() keep it.
THEOREM InvHolds == Spec => []Inv
BY InitInv, StepInv, PTL DEF Spec

\* Every variable keeps the type of its declaration in connection.c.
THEOREM TypeCorrect == Spec => []TypeOK
<1>1. Inv => TypeOK
  BY DEF Inv
<1> QED
  BY <1>1, InvHolds, PTL

\* active_connections and the host entries count the connections that run,
\* whichever way each of them gave its slot back.
THEOREM SlotsAreCounted == Spec => []SlotsCounted
<1>1. Inv => SlotsCounted
  BY DEF Inv
<1> QED
  BY <1>1, InvHolds, PTL

\* The queue holds the allocated connections, each once: no handler leaks one
\* and none is reached after done_connection().
THEOREM QueueIsExact == Spec => []QueueHoldsLive
<1>1. Inv => QueueHoldsLive
  BY DEF Inv
<1> QED
  BY <1>1, InvHolds, PTL

-----------------------------------------------------------------------------
(* The limits.                                                             *)

\* Nothing is counted that was not before.
Falls ==
    /\ active' <= active
    /\ \A h \in Hosts : hostRefs'[h] <= hostRefs[h]

LEMMA CountersTyped ==
    ASSUME Inv
    PROVE  active \in Int /\ \A h \in Hosts : hostRefs[h] \in Nat
BY DEF Inv, TypeOK

LEMMA FreeConnsFalls ==
    ASSUME Inv, NEW C \in SUBSET Conns, FreeConns(C)
    PROVE  Falls
<1>1. C \cap Running \in SUBSET Conns /\ \A h \in Hosts : C \cap RunningOn(h) \in SUBSET Conns
  OBVIOUS
<1>2. Cardinality(C \cap Running) \in Nat
  BY <1>1, ConnsFinite
<1>3. \A h \in Hosts : Cardinality(C \cap RunningOn(h)) \in Nat
  BY <1>1, ConnsFinite
<1>4. active' <= active
  BY <1>2, CountersTyped DEF FreeConns
<1>5. ASSUME NEW h \in Hosts
      PROVE  hostRefs'[h] <= hostRefs[h]
  <2>1. hostRefs'[h] = Unlocked(h, Cardinality(C \cap RunningOn(h)))
    BY DEF FreeConns
  <2>2. hostRefs[h] \in Nat /\ Cardinality(C \cap RunningOn(h)) \in Nat
    BY <1>3, CountersTyped
  <2> QED
    BY <2>1, <2>2 DEF Unlocked
<1> QED
  BY <1>4, <1>5 DEF Falls

\* A connection that runs and ends frees its slot.
LEMMA FreeRunning ==
    ASSUME Inv, NEW c \in Conns, conn[c].running, FreeConns({c})
    PROVE  active' = active - 1
<1>1. {c} \cap Running = {c}
  BY DEF Running
<1>2. Cardinality({c} \cap Running) = 1
  BY <1>1, FS_Singleton
<1> QED
  BY <1>2 DEF FreeConns

LEMMA SlotsKeptFalls ==
    ASSUME Inv, UNCHANGED slots
    PROVE  Falls
BY CountersTyped DEF slots, Falls

LEMMA TakeKeepaliveShrinks ==
    ASSUME Inv, NEW u, TakeKeepalive(u)
    PROVE  /\ Len(keep') <= Len(keep)
           /\ Matches(u) # {} => Len(keep') = Len(keep) - 1
<1>1. keep \in Seq(KeptUris) /\ Len(keep) \in Nat
  BY LoopTypedNow DEF LoopTyped
<1>2. CASE Matches(u) = {} /\ UNCHANGED keep
  BY <1>1, <1>2
<1>3. CASE \E i \in DOMAIN keep : keep' = RemoveAt(keep, i)
  BY <1>1, <1>3, RemoveAtProperties
<1> QED
  BY <1>2, <1>3 DEF TakeKeepalive

\* What a step does to the slots and to the kept sockets: slots are taken by
\* run_connection() and by the QUIT connections only, a socket is kept only by
\* a connection that gives its slot back.
StepKind ==
    \/ Falls /\ Len(keep') <= Len(keep)
    \/ \E c \in Conns : EndKeepalive(c)
    \/ \E u \in QuitUris : QuitConnection(u) /\ Matches(u) # {}
    \/ \E i \in DOMAIN queue : RunConnection(i)

LEMMA DoneKeepaliveKind ==
    ASSUME Inv, NEW i \in DOMAIN keep, DoneKeepalive(i)
    PROVE  StepKind
<1>1. keep \in Seq(KeptUris) /\ Len(keep) \in Nat
  BY LoopTypedNow DEF LoopTyped
<1>2. CASE CanQuit(keep[i]) /\ QuitConnection(keep[i])
  <2>1. keep[i] \in QuitUris
    BY <1>2 DEF CanQuit
  <2>2. i \in Matches(keep[i])
    BY <2>1, UrisAssumption DEF Matches
  <2> QED
    BY <1>2, <2>1, <2>2 DEF StepKind
<1>3. CASE keep' = RemoveAt(keep, i) /\ UNCHANGED <<queue, conn, slots>>
  <2>1. Len(keep') <= Len(keep)
    BY <1>1, <1>3, RemoveAtProperties
  <2> QED
    BY <1>3, <2>1, SlotsKeptFalls DEF StepKind
<1> QED
  BY <1>2, <1>3 DEF DoneKeepalive

LEMMA ApiKind ==
    ASSUME Inv, Api
    PROVE  Falls /\ UNCHANGED keep
<1>1. CASE \E d \in Downloads, i \in BOOLEAN : CancelDownload(d, i)
  <2>1. PICK d \in Downloads, i \in BOOLEAN : CancelDownload(d, i)
    BY <1>1
  <2>2. dl[d].conn \in Conns
    BY <2>1, DownloadsConn DEF CancelDownload
  <2> QED
    BY <2>1, <2>2, FreeConnsFalls, SlotsKeptFalls DEF CancelDownload, keepalives
<1>2. CASE AbortBackgroundConnections
  <2> DEFINE C == {c \in ToSet(queue) : get_priority(conn[c]) >= PRI_CANCEL}
  <2>1. C \in SUBSET Conns
    BY DEF Inv, QueueHoldsLive
  <2>2. FreeConns(C) /\ UNCHANGED keep
    BY <1>2 DEF AbortBackgroundConnections, AbortConnections, keepalives
  <2> HIDE DEF C
  <2> QED
    BY <2>1, <2>2, FreeConnsFalls
<1>3. CASE AbortAllConnections
  <2>1. ToSet(queue) \in SUBSET Conns
    BY DEF Inv, QueueHoldsLive
  <2>2. FreeConns(ToSet(queue)) /\ UNCHANGED keep
    BY <1>3 DEF AbortAllConnections, AbortConnections, keepalives
  <2> QED
    BY <2>1, <2>2, FreeConnsFalls
<1> QED
  BY <1>1, <1>2, <1>3, SlotsKeptFalls DEF Api, LoadUriJoin, LoadUriNew, MoveDownload,
     DetachConnection, keepalives

LEMMA TransferKind ==
    ASSUME Inv, NEW c \in Conns, Transfer(c)
    PROVE  StepKind
<1>1. Len(keep) \in Nat
  BY LoopTypedNow DEF LoopTyped
<1>2. CASE EndConnection(c)
  <2>1. Falls /\ UNCHANGED keep
    BY <1>2, FreeConnsFalls DEF EndConnection, keepalives
  <2> QED
    BY <1>1, <2>1 DEF StepKind
<1>3. CASE EndKeepalive(c)
  BY <1>3 DEF StepKind
<1>4. CASE RetryConnection(c)
  <2>1. CASE FreeConns({c}) /\ UNCHANGED keep
    BY <1>1, <2>1, FreeConnsFalls DEF StepKind
  <2>2. CASE TakeKeepalive(conn[c].uri) /\ UNCHANGED slots
    BY <2>2, SlotsKeptFalls, TakeKeepaliveShrinks DEF StepKind
  <2> QED
    BY <1>4, <2>1, <2>2 DEF RetryConnection
<1> QED
  BY <1>2, <1>3, <1>4 DEF Transfer

LEMMA CheckQueueKind ==
    ASSUME Inv, CheckQueue
    PROVE  StepKind
<1>1. Len(keep) \in Nat /\ keep \in Seq(KeptUris)
  BY LoopTypedNow DEF LoopTyped
<1>2. CASE StartCheckQueue \/ KeepaliveSurvives \/ KeepaliveChecked \/ ScanDone
             \/ CheckQueueDone
  <2>1. UNCHANGED <<slots, keep>>
    BY <1>2 DEF StartCheckQueue, KeepaliveSurvives, KeepaliveChecked, ScanDone,
       CheckQueueDone, keepalives
  <2> QED
    BY <1>1, <2>1, SlotsKeptFalls DEF StepKind
<1>3. CASE KeepaliveExpires
  BY <1>3, DoneKeepaliveKind DEF KeepaliveExpires
<1>4. CASE KeepaliveTrim
  <2>1. Len(keep) \in DOMAIN keep
    BY <1>1, <1>4, LimitsAssumption DEF KeepaliveTrim, TooMany
  <2> QED
    BY <1>4, <2>1, DoneKeepaliveKind DEF KeepaliveTrim
<1>5. ASSUME NEW i \in DOMAIN queue, RunConnection(i)
      PROVE  StepKind
  BY <1>5 DEF StepKind
<1>6. ASSUME NEW i \in DOMAIN queue, RunConnectionEnds(i)
      PROVE  StepKind
  <2>1. queue[i] \in Conns
    BY InQueueIsConn
  <2>2. Falls
    BY <1>6, <2>1, FreeConnsFalls DEF RunConnectionEnds
  <2>3. Len(keep') <= Len(keep)
    BY <1>6, TakeKeepaliveShrinks DEF RunConnectionEnds
  <2> QED
    BY <2>2, <2>3 DEF StepKind
<1>7. ASSUME NEW i \in DOMAIN queue, SuspendConnection(i)
      PROVE  StepKind
  <2>1. PICK j \in DOMAIN queue : GiveSlotBack(queue[j])
    BY <1>7 DEF SuspendConnection
  <2>2. active' <= active
    BY <2>1, CountersTyped DEF GiveSlotBack
  <2>3. \A h \in Hosts : hostRefs'[h] <= hostRefs[h]
    BY <2>1, CountersTyped DEF GiveSlotBack, Unlocked
  <2> QED
    BY <1>1, <1>7, <2>2, <2>3 DEF StepKind, Falls, SuspendConnection
<1>8. ASSUME NEW i \in DOMAIN queue, Reap(i)
      PROVE  StepKind
  <2>1. queue[i] \in Conns
    BY InQueueIsConn
  <2>2. Falls
    BY <1>8, <2>1, FreeConnsFalls DEF Reap
  <2> QED
    BY <1>1, <1>8, <2>2 DEF Reap, keepalives, StepKind
<1> QED
  BY <1>2, <1>3, <1>4, <1>5, <1>6, <1>7, <1>8 DEF CheckQueue, KeepaliveCheck

LEMMA NextKind ==
    ASSUME Inv, [Next]_vars
    PROVE  StepKind
<1>1. Len(keep) \in Nat /\ keep \in Seq(KeptUris)
  BY LoopTypedNow DEF LoopTyped
<1>2. CASE UNCHANGED vars
  <2>1. UNCHANGED <<slots, keep>>
    BY <1>2 DEF vars, slots
  <2> QED
    BY <1>1, <2>1, SlotsKeptFalls DEF StepKind
<1>3. CASE Api
  BY <1>1, <1>3, ApiKind DEF StepKind
<1>4. CASE KeepaliveTimer \/ DropDone
  <2>1. UNCHANGED <<slots, keep>>
    BY <1>4 DEF KeepaliveTimer, DropDone
  <2> QED
    BY <1>1, <2>1, SlotsKeptFalls DEF StepKind
<1>5. CASE DropKeepalive
  <2>1. 1 \in DOMAIN keep
    BY <1>1, <1>5 DEF DropKeepalive
  <2> QED
    BY <1>5, <2>1, DoneKeepaliveKind DEF DropKeepalive
<1> QED
  BY <1>2, <1>3, <1>4, <1>5, TransferKind, CheckQueueKind DEF Next

\* A connection that is given a slot finds one free.
LEMMA RunWithinLimits ==
    ASSUME Inv, WithinLimits, NEW i \in DOMAIN queue, RunConnection(i)
    PROVE  WithinLimits'
<1>1. /\ active < MaxConns
      /\ Host(queue[i]) # NoHost => hostRefs[Host(queue[i])] < MaxConnsToHost
  <2>1. Host(queue[i]) \in Hosts \cup {NoHost}
    BY UrisAssumption, InQueueIsConn DEF Host, HostOfUri, Inv, TypeOK, ConnRecord
  <2> QED
    BY <2>1, LimitsAssumption, CountersTyped
       DEF RunConnection, CanRun, HostFull, AllFull
<1>2. active' <= MaxConns
  BY <1>1, LimitsAssumption, CountersTyped DEF RunConnection, TakeSlot
<1>3. ASSUME NEW h \in Hosts
      PROVE  hostRefs'[h] <= MaxConnsToHost
  <2>1. hostRefs'[h] = IF h = Host(queue[i]) THEN hostRefs[h] + 1 ELSE hostRefs[h]
    BY DEF RunConnection, TakeSlot
  <2>2. hostRefs[h] <= MaxConnsToHost /\ hostRefs[h] \in Nat /\ MaxConnsToHost \in Nat
    BY CountersTyped, LimitsAssumption DEF WithinLimits
  <2>3. h # NoHost
    BY UrisAssumption
  <2> QED
    BY <1>1, <2>1, <2>2, <2>3
<1> QED
  BY <1>2, <1>3 DEF WithinLimits

LEMMA FallsWithinLimits ==
    ASSUME Inv, Inv', WithinLimits, Falls
    PROVE  WithinLimits'
<1>1. active' \in Int /\ \A h \in Hosts : hostRefs'[h] \in Nat
  BY DEF Inv, TypeOK
<1> QED
  BY <1>1, CountersTyped, LimitsAssumption DEF WithinLimits, Falls

\* Without NNTP the options connection.max_connections and
\* connection.max_connections_to_host hold at every moment.  With it they do
\* not: do_keepalive_connection_callback() looks at neither.
THEOREM LimitsHold ==
    ASSUME QuitUris = {}
    PROVE  Spec => []WithinLimits
<1>1. Init => WithinLimits
  BY LimitsAssumption DEF Init, WithinLimits
<1>2. Inv /\ Inv' /\ WithinLimits /\ [Next]_vars => WithinLimits'
  <2> SUFFICES ASSUME Inv, Inv', WithinLimits, [Next]_vars
               PROVE  WithinLimits'
    OBVIOUS
  <2>1. CASE Falls
    BY <2>1, FallsWithinLimits
  <2>2. CASE \E c \in Conns : EndKeepalive(c)
    BY <2>2, FreeConnsFalls, FallsWithinLimits DEF EndKeepalive
  <2>3. CASE \E i \in DOMAIN queue : RunConnection(i)
    BY <2>3, RunWithinLimits
  <2> QED
    BY <2>1, <2>2, <2>3, NextKind DEF StepKind
<1> QED
  BY <1>1, <1>2, InvHolds, PTL DEF Spec

\* check_keepalive_connections() has run when connections are started.
BudgetInv ==
    /\ SocketBudget
    /\ pc = "scan" => Len(keep) <= MaxKeepalive

\* Outside of check_keepalive_connections() the list grows only while no pass
\* hands out slots.
LEMMA ScanKeep ==
    ASSUME Inv, BudgetInv, [Next]_vars, pc' = "scan"
    PROVE  Len(keep') <= MaxKeepalive
<1>1. Len(keep) \in Nat /\ MaxKeepalive \in Nat
  BY LoopTypedNow, LimitsAssumption DEF LoopTyped
<1>2. CASE UNCHANGED vars
  BY <1>2 DEF vars, BudgetInv
<1>3. CASE Api
  <2>1. UNCHANGED keep
    BY <1>3, ApiKind
  <2>2. pc = "scan"
    BY <1>3 DEF Api, LoadUriJoin, LoadUriNew, CancelDownload, MoveDownload,
       DetachConnection, AbortBackgroundConnections, AbortAllConnections
  <2> QED
    BY <2>1, <2>2 DEF BudgetInv
<1>4. CASE \E c \in Conns : Transfer(c)
  BY <1>4 DEF Transfer, EndConnection, EndKeepalive, RetryConnection
<1>5. CASE KeepaliveTimer \/ DropKeepalive \/ DropDone
  BY <1>5 DEF KeepaliveTimer, DropKeepalive, DropDone
<1>6. CASE CheckQueue
  <2>1. CASE StartCheckQueue \/ KeepaliveSurvives \/ KeepaliveExpires \/ KeepaliveTrim
    BY <2>1 DEF StartCheckQueue, KeepaliveSurvives, KeepaliveExpires, KeepaliveTrim,
       Checking
  <2>2. CASE KeepaliveChecked
    BY <1>1, <2>2 DEF KeepaliveChecked, TooMany
  <2>3. CASE ScanDone \/ CheckQueueDone
    BY <2>3 DEF ScanDone, CheckQueueDone
  <2>4. CASE \E i \in DOMAIN queue : RunConnection(i) \/ RunConnectionEnds(i)
                                     \/ SuspendConnection(i) \/ Reap(i)
    BY <2>4 DEF RunConnection, RunConnectionEnds, SuspendConnection, Reap, Again
  <2> QED
    BY <1>6, <2>1, <2>2, <2>3, <2>4 DEF CheckQueue, KeepaliveCheck
<1> QED
  BY <1>2, <1>3, <1>4, <1>5, <1>6 DEF Next

\* The sockets of running and kept connections stay within the two limits
\* together, QUIT connections included: each of those consumes the entry of the
\* kept socket it says QUIT on.
THEOREM SocketBudgetHolds == Spec => []SocketBudget
<1>1. Init => BudgetInv
  <2>1. Init => Len(keep) = 0
    BY DEF Init
  <2> QED
    BY <2>1, LimitsAssumption DEF Init, BudgetInv, SocketBudget
<1>2. Inv /\ Inv' /\ BudgetInv /\ [Next]_vars => BudgetInv'
  <2> SUFFICES ASSUME Inv, Inv', BudgetInv, [Next]_vars
               PROVE  BudgetInv'
    OBVIOUS
  <2>1. /\ Len(keep) \in Nat /\ active \in Int
        /\ MaxKeepalive \in Nat /\ MaxConns \in Nat
    BY LoopTypedNow, CountersTyped, LimitsAssumption DEF LoopTyped
  <2>2. Len(keep') \in Nat /\ active' \in Int
    BY DEF Inv, TypeOK
  <2>3. SocketBudget'
    <3>1. CASE Falls /\ Len(keep') <= Len(keep)
      BY <3>1, <2>1, <2>2 DEF Falls, BudgetInv, SocketBudget
    <3>2. CASE \E c \in Conns : EndKeepalive(c)
      <4>1. PICK c \in Conns : EndKeepalive(c)
        BY <3>2
      <4>2. active' = active - 1
        BY <4>1, FreeRunning DEF EndKeepalive
      <4>3. Len(keep') = Len(keep) + 1
        <5>1. /\ <<conn[c].uri>> \in Seq({conn[c].uri} \cup KeptUris)
              /\ Len(<<conn[c].uri>>) = 1
              /\ keep \in Seq({conn[c].uri} \cup KeptUris)
          BY LoopTypedNow DEF LoopTyped
        <5>2. keep' = <<conn[c].uri>> \o keep
          BY <4>1 DEF EndKeepalive
        <5>3. Len(keep') = Len(<<conn[c].uri>>) + Len(keep)
          BY <5>1, <5>2, ConcatProperties
        <5> QED
          BY <2>1, <5>1, <5>3
      <4> QED
        BY <2>1, <4>2, <4>3 DEF BudgetInv, SocketBudget
    <3>3. CASE \E u \in QuitUris : QuitConnection(u) /\ Matches(u) # {}
      <4>1. PICK u \in QuitUris : QuitConnection(u) /\ Matches(u) # {}
        BY <3>3
      <4>2. active' = active + 1
        BY <4>1 DEF QuitConnection, TakeSlot
      <4>3. Len(keep') = Len(keep) - 1
        BY <4>1, TakeKeepaliveShrinks DEF QuitConnection
      <4> QED
        BY <2>1, <4>2, <4>3 DEF BudgetInv, SocketBudget
    <3>4. CASE \E i \in DOMAIN queue : RunConnection(i)
      <4>1. PICK i \in DOMAIN queue : RunConnection(i)
        BY <3>4
      <4>2. active' = active + 1 /\ active < MaxConns
        BY <4>1, <2>1 DEF RunConnection, TakeSlot, CanRun, AllFull
      <4>3. Len(keep') <= Len(keep) /\ Len(keep) <= MaxKeepalive
        BY <4>1, TakeKeepaliveShrinks DEF RunConnection, BudgetInv
      <4> QED
        BY <2>1, <2>2, <4>2, <4>3 DEF SocketBudget
    <3> QED
      BY <3>1, <3>2, <3>3, <3>4, NextKind DEF StepKind
  <2> QED
    BY <2>3, ScanKeep DEF BudgetInv
<1>3. BudgetInv => SocketBudget
  BY DEF BudgetInv
<1> QED
  BY <1>1, <1>2, <1>3, InvHolds, PTL DEF Spec

-----------------------------------------------------------------------------
(* The owners of connections and the order of the queue.                   *)

\* A set of numbers has a least one.
LEMMA Least ==
    ASSUME NEW T \in SUBSET Nat, T # {}
    PROVE  \E n \in T : \A m \in T : n <= m
<1> DEFINE R == OpToRel(<, Nat)
<1>1. IsWellFoundedOn(R, Nat)
  BY NatLessThanWellFounded
<1>2. \A x, y \in Nat : x < y => <<x, y>> \in R
  BY DEF OpToRel
<1> HIDE DEF R
<1>3. PICK n \in T : \A m \in T : ~(<<m, n>> \in R)
  BY <1>1, WFMin
<1>4. ASSUME NEW m \in T PROVE n <= m
  <2>1. m \in Nat /\ n \in Nat /\ ~(m < n)
    BY <1>2, <1>3
  <2> QED
    BY <2>1
<1> QED
  BY <1>4

\* get_priority() finds the first counter that is not 0.
LEMMA PriorityType ==
    ASSUME NEW r, r.pri \in [Pris -> Int]
    PROVE  /\ get_priority(r) \in 0 .. (PRI_CANCEL + 1)
           /\ get_priority(r) <= PRI_CANCEL => r.pri[get_priority(r)] # 0
           /\ \A q \in Pris : q < get_priority(r) => r.pri[q] = 0
<1> DEFINE T == {p \in Pris : r.pri[p] # 0}
           First(p) == r.pri[p] # 0 /\ \A q \in Pris : q < p => r.pri[q] = 0
<1>1. PRI_CANCEL \in Nat /\ Pris \subseteq Nat
  BY LimitsAssumption DEF Pris
<1>2. CASE \E p \in Pris : r.pri[p] # 0
  <2>1. PICK n \in T : \A m \in T : n <= m
    BY <1>1, <1>2, Least
  <2>2. First(n) /\ n \in Pris
    <3> SUFFICES ASSUME NEW q \in Pris, q < n PROVE r.pri[q] = 0
      BY <2>1
    <3>1. q \notin T
      BY <1>1, <2>1
    <3> QED
      BY <3>1
  <2>3. get_priority(r) = CHOOSE p \in Pris : First(p)
    BY <1>2 DEF get_priority
  <2> HIDE DEF First
  <2>4. get_priority(r) \in Pris /\ First(get_priority(r))
    BY <2>2, <2>3
  <2> QED
    BY <1>1, <2>4 DEF First, Pris
<1>3. CASE ~\E p \in Pris : r.pri[p] # 0
  <2>1. get_priority(r) = PRI_CANCEL + 1
    BY <1>3 DEF get_priority
  <2> QED
    BY <1>1, <1>3, <2>1
<1> QED
  BY <1>2, <1>3

\* Which counters are 0 is all get_priority() looks at.
LEMMA PriorityUnique ==
    ASSUME NEW r, NEW s, r.pri \in [Pris -> Int], s.pri \in [Pris -> Int],
           \A p \in Pris : p <= get_priority(r) => (r.pri[p] = 0 <=> s.pri[p] = 0)
    PROVE  get_priority(s) = get_priority(r)
<1> DEFINE g == get_priority(r)
           h == get_priority(s)
<1>1. /\ g \in 0 .. (PRI_CANCEL + 1)
      /\ g <= PRI_CANCEL => r.pri[g] # 0
      /\ \A q \in Pris : q < g => r.pri[q] = 0
  BY PriorityType
<1>2. /\ h \in 0 .. (PRI_CANCEL + 1)
      /\ h <= PRI_CANCEL => s.pri[h] # 0
      /\ \A q \in Pris : q < h => s.pri[q] = 0
  BY PriorityType
<1>3. PRI_CANCEL \in Nat
  BY LimitsAssumption
<1>4. \A n \in 0 .. (PRI_CANCEL + 1) : n <= PRI_CANCEL => n \in Pris
  BY <1>3 DEF Pris
<1> HIDE DEF g, h
<1>5. ~(g < h)
  <2> SUFFICES ASSUME g < h PROVE FALSE
    OBVIOUS
  <2>1. g \in Pris /\ g <= PRI_CANCEL
    BY <1>1, <1>2, <1>3, <1>4
  <2>2. s.pri[g] = 0 /\ r.pri[g] # 0
    BY <1>1, <1>2, <2>1
  <2> QED
    BY <1>1, <2>1, <2>2 DEF g
<1>6. ~(h < g)
  <2> SUFFICES ASSUME h < g PROVE FALSE
    OBVIOUS
  <2>1. h \in Pris /\ h <= PRI_CANCEL
    BY <1>1, <1>2, <1>3, <1>4
  <2>2. s.pri[h] # 0 /\ r.pri[h] = 0
    BY <1>1, <1>2, <2>1
  <2> QED
    BY <1>1, <1>2, <2>1, <2>2 DEF g
<1> QED
  BY <1>1, <1>2, <1>5, <1>6 DEF g, h

\* The queue q is in the order of the priorities in cs.
Ordered(q, cs) ==
    \A i, j \in DOMAIN q : i < j => get_priority(cs[q[i]]) <= get_priority(cs[q[j]])

LEMMA PriorityInt ==
    ASSUME NEW cs \in [Conns -> ConnRecord], NEW c \in Conns
    PROVE  /\ cs[c].pri \in [Pris -> Int]
           /\ get_priority(cs[c]) \in 0 .. (PRI_CANCEL + 1)
           /\ get_priority(cs[c]) \in Int
<1>1. cs[c].pri \in [Pris -> Int]
  BY DEF ConnRecord
<1>2. PRI_CANCEL \in Nat
  BY LimitsAssumption
<1> QED
  BY <1>1, <1>2, PriorityType

\* Taking connections out leaves the others in order.
LEMMA WithoutOrdered ==
    ASSUME NEW q \in Seq(Conns), NEW C, NEW r \in Without(q, C), NEW cs, Ordered(q, cs)
    PROVE  Ordered(r, cs)
<1> DEFINE K == {i \in DOMAIN q : q[i] \notin C}
           N == Cardinality(K)
<1>1. PICK s \in [1 .. N -> K] :
        /\ \A i, j \in 1 .. N : i < j => s[i] < s[j]
        /\ r = [i \in 1 .. N |-> q[s[i]]]
  BY DEF Without
<1> HIDE DEF N
<1>2. DOMAIN r = 1 .. N /\ \A i \in 1 .. N : r[i] = q[s[i]] /\ s[i] \in DOMAIN q
  BY <1>1
<1> QED
  BY <1>1, <1>2 DEF Ordered

\* sort_queue() leaves them in order, whatever it found.
LEMMA SortedOrdered ==
    ASSUME NEW q \in Seq(Conns), NEW cs \in [Conns -> ConnRecord], NEW r \in Sorted(q, cs)
    PROVE  Ordered(r, cs)
<1> DEFINE N == Len(q)
           Before(s, i, j) ==
             /\ s[i] # s[j]
             /\ \/ get_priority(cs[q[s[i]]]) < get_priority(cs[q[s[j]]])
                \/ get_priority(cs[q[s[i]]]) = get_priority(cs[q[s[j]]]) /\ s[i] < s[j]
<1>1. PICK s \in [1 .. N -> 1 .. N] :
        /\ \A i, j \in 1 .. N : i < j => Before(s, i, j)
        /\ r = [i \in 1 .. N |-> q[s[i]]]
  BY DEF Sorted
<1>2. DOMAIN r = 1 .. N /\ \A i \in 1 .. N : r[i] = q[s[i]] /\ q[s[i]] \in Conns
  BY <1>1
<1>3. ASSUME NEW i \in 1 .. N, NEW j \in 1 .. N, i < j
      PROVE  get_priority(cs[r[i]]) <= get_priority(cs[r[j]])
  <2>1. get_priority(cs[q[s[i]]]) \in Int /\ get_priority(cs[q[s[j]]]) \in Int
    BY <1>2, PriorityInt
  <2>2. Before(s, i, j)
    BY <1>1, <1>3
  <2> QED
    BY <1>2, <2>1, <2>2
<1> QED
  BY <1>2, <1>3 DEF Ordered

\* add_to_queue() finds a place that keeps the order.
LEMMA EnqueuedOrdered ==
    ASSUME NEW q \in Seq(Conns), NEW cs \in [Conns -> ConnRecord], NEW c \in Conns,
           Ordered(q, cs), NEW r \in Enqueued(q, cs, c)
    PROVE  Ordered(r, cs)
<1> DEFINE P(e) == get_priority(cs[e])
           n == Len(q)
<1>1. PICK k \in 1 .. (n + 1) :
        /\ r = InsertAt(q, k, c)
        /\ \A j \in 1 .. (k - 1) : P(q[j]) <= P(c)
        /\ k <= n => P(q[k]) > P(c)
  BY DEF Enqueued
<1>2. /\ DOMAIN r = 1 .. (n + 1)
      /\ \A i \in 1 .. (n + 1) : r[i] = IF i < k THEN q[i] ELSE IF i = k THEN c ELSE q[i - 1]
  <2>1. DOMAIN InsertAt(q, k, c) = 1 .. (n + 1)
    BY InsertAtEntries
  <2>2. \A i \in 1 .. (n + 1) :
          InsertAt(q, k, c)[i] = IF i < k THEN q[i] ELSE IF i = k THEN c ELSE q[i - 1]
    BY InsertAtEntries
  <2> QED
    BY <1>1, <2>1, <2>2, Zenon
<1>3. n \in Nat /\ k \in Nat /\ DOMAIN q = 1 .. n
  OBVIOUS
<1>4. \A i \in 1 .. n : q[i] \in Conns /\ P(q[i]) \in Int
  BY PriorityInt
<1>5. P(c) \in Int
  BY PriorityInt
<1>6. \A i, j \in 1 .. n : i < j => P(q[i]) <= P(q[j])
  BY <1>3 DEF Ordered
<1>7. \A i \in 1 .. n : i >= k => P(q[i]) > P(c)
  <2> SUFFICES ASSUME NEW i \in 1 .. n, i >= k PROVE P(q[i]) > P(c)
    OBVIOUS
  <2>1. k \in 1 .. n /\ P(q[k]) > P(c)
    BY <1>1, <1>3
  <2>2. i = k \/ P(q[k]) <= P(q[i])
    BY <1>3, <1>6, <2>1
  <2>3. P(q[k]) \in Int /\ P(q[i]) \in Int
    BY <1>4, <2>1
  <2> HIDE DEF P
  <2> QED
    BY <1>5, <2>1, <2>2, <2>3
<1>8. ASSUME NEW i \in 1 .. (n + 1), NEW j \in 1 .. (n + 1), i < j
      PROVE  P(r[i]) <= P(r[j])
  <2> HIDE DEF P, n
  <2>1. CASE j < k
    <3>1. i < k /\ i \in 1 .. n /\ j \in 1 .. n
      BY <1>3, <1>8, <2>1
    <3> QED
      BY <1>2, <1>6, <1>8, <2>1, <3>1
  <2>2. CASE j = k
    <3>1. i \in 1 .. (k - 1)
      BY <1>3, <1>8, <2>2
    <3>2. r[j] = c /\ r[i] = q[i]
      BY <1>2, <1>3, <2>2, <3>1
    <3> QED
      BY <1>1, <3>1, <3>2
  <2>3. CASE j > k
    <3>1. r[j] = q[j - 1] /\ j - 1 \in 1 .. n /\ j - 1 >= k
      BY <1>2, <1>3, <1>8, <2>3
    <3>2. P(q[j - 1]) > P(c) /\ P(q[j - 1]) \in Int
      BY <1>4, <1>7, <3>1
    <3>3. CASE i < k
      <4>1. r[i] = q[i] /\ i \in 1 .. n /\ i < j - 1
        BY <1>2, <1>3, <1>8, <3>3, <3>1
      <4> QED
        BY <1>6, <3>1, <4>1
    <3>4. CASE i = k
      <4>1. r[i] = c
        BY <1>2, <3>4
      <4> QED
        BY <1>5, <3>1, <3>2, <4>1
    <3>5. CASE i > k
      <4>1. r[i] = q[i - 1] /\ i - 1 \in 1 .. n /\ i - 1 < j - 1
        BY <1>2, <1>3, <1>8, <3>5, <3>1
      <4> QED
        BY <1>6, <3>1, <4>1
    <3> QED
      BY <1>3, <1>8, <3>3, <3>4, <3>5
  <2> QED
    BY <1>3, <1>8, <2>1, <2>2, <2>3
<1> QED
  BY <1>2, <1>8 DEF Ordered

\* The order is that of the connections in the queue alone.
LEMMA OrderedFrame ==
    ASSUME NEW q \in Seq(Conns), NEW cs, NEW ds, Ordered(q, cs),
           \A c \in ToSet(q) : get_priority(ds[c]) = get_priority(cs[c])
    PROVE  Ordered(q, ds)
<1>1. \A i \in DOMAIN q : q[i] \in ToSet(q)
  BY DEF ToSet
<1> QED
  BY <1>1 DEF Ordered

-----------------------------------------------------------------------------
(* How many downloads of one priority a connection has.                    *)

OfPriority(D, f, q) == {d \in D : f[d].pri = q}

LEMMA DownloadsFinite ==
    ASSUME NEW D \in SUBSET Downloads, NEW f, NEW q
    PROVE  IsFiniteSet(OfPriority(D, f, q)) /\ Cardinality(OfPriority(D, f, q)) \in Nat
<1>1. OfPriority(D, f, q) \in SUBSET Downloads
  BY DEF OfPriority
<1>2. IsFiniteSet(OfPriority(D, f, q))
  BY <1>1, DownloadsAssumption, FS_Subset
<1> QED
  BY <1>2, FS_CardinalityType

LEMMA CountSame ==
    ASSUME NEW D \in SUBSET Downloads, NEW f, NEW g, NEW q,
           \A e \in D : g[e].pri = f[e].pri
    PROVE  Cardinality(OfPriority(D, g, q)) = Cardinality(OfPriority(D, f, q))
<1>1. OfPriority(D, g, q) = OfPriority(D, f, q)
  BY DEF OfPriority
<1> QED
  BY <1>1

LEMMA CountJoined ==
    ASSUME NEW D \in SUBSET Downloads, NEW d \in Downloads, d \notin D,
           NEW f, NEW g, NEW q, \A e \in D : g[e].pri = f[e].pri
    PROVE  Cardinality(OfPriority(D \cup {d}, g, q)) =
             IF g[d].pri = q THEN Cardinality(OfPriority(D, f, q)) + 1
                             ELSE Cardinality(OfPriority(D, f, q))
<1>1. IsFiniteSet(OfPriority(D, f, q)) /\ d \notin OfPriority(D, f, q)
  <2>1. d \notin OfPriority(D, f, q)
    BY DEF OfPriority
  <2> QED
    BY <2>1, DownloadsFinite
<1>2. CASE g[d].pri = q
  <2>1. OfPriority(D \cup {d}, g, q) = OfPriority(D, f, q) \cup {d}
    BY <1>2 DEF OfPriority
  <2>2. Cardinality(OfPriority(D, f, q) \cup {d}) = Cardinality(OfPriority(D, f, q)) + 1
    BY <1>1, FS_AddElement
  <2> QED
    BY <1>2, <2>1, <2>2
<1>3. CASE g[d].pri # q
  <2>1. OfPriority(D \cup {d}, g, q) = OfPriority(D, f, q)
    BY <1>3 DEF OfPriority
  <2> QED
    BY <1>3, <2>1
<1> QED
  BY <1>2, <1>3

LEMMA CountLeft ==
    ASSUME NEW D \in SUBSET Downloads, NEW d \in D,
           NEW f, NEW g, NEW q, \A e \in D \ {d} : g[e].pri = f[e].pri
    PROVE  Cardinality(OfPriority(D \ {d}, g, q)) =
             IF f[d].pri = q THEN Cardinality(OfPriority(D, f, q)) - 1
                             ELSE Cardinality(OfPriority(D, f, q))
<1>1. IsFiniteSet(OfPriority(D, f, q))
  BY DownloadsFinite
<1>2. CASE f[d].pri = q
  <2>1. OfPriority(D \ {d}, g, q) = OfPriority(D, f, q) \ {d} /\ d \in OfPriority(D, f, q)
    BY <1>2 DEF OfPriority
  <2>2. Cardinality(OfPriority(D, f, q) \ {d}) = Cardinality(OfPriority(D, f, q)) - 1
    BY <1>1, <2>1, FS_RemoveElement
  <2> QED
    BY <1>2, <2>1, <2>2
<1>3. CASE f[d].pri # q
  <2>1. OfPriority(D \ {d}, g, q) = OfPriority(D, f, q)
    BY <1>3 DEF OfPriority
  <2> QED
    BY <1>3, <2>1
<1> QED
  BY <1>2, <1>3

-----------------------------------------------------------------------------
(* The invariant of the owners.                                            *)

WantedOnly == \A d \in Downloads : dl[d].state = "progress" => dl[d].pri \in Wanted

OwnersCounted(c) ==
    /\ \A p \in Wanted : conn[c].pri[p] = Cardinality(OfPriority(conn[c].dls, dl, p))
    /\ conn[c].pri[PRI_CANCEL] >= 0
    /\ conn[c].state # "free" => conn[c].dls # {} \/ conn[c].pri[PRI_CANCEL] > 0

InOrder == Ordered(queue, conn)

Owners ==
    /\ WantedOnly
    /\ \A c \in Conns : OwnersCounted(c)
    /\ InOrder

LEMMA ConnNow ==
    ASSUME Inv, NEW c \in Conns
    PROVE  /\ conn \in [Conns -> ConnRecord]
           /\ conn[c] \in ConnRecord /\ conn[c].pri \in [Pris -> Int]
           /\ conn[c].dls \in SUBSET Downloads
           /\ \A d \in Downloads : d \in conn[c].dls <=> dl[d].state = "progress" /\ dl[d].conn = c
BY DEF Inv, TypeOK, ConnRecord, DownloadsAttached

\* Connections that keep their counters and downloads keep their owners.
LEMMA SameOwners ==
    ASSUME Inv, Owners, UNCHANGED <<queue, dl>>,
           \A c \in Conns : /\ conn'[c].pri = conn[c].pri
                            /\ conn'[c].dls = conn[c].dls
                            /\ conn'[c].state # "free" => conn[c].state # "free"
    PROVE  Owners'
<1>1. WantedOnly'
  BY DEF Owners, WantedOnly
<1>2. \A c \in Conns : OwnersCounted(c)'
  BY DEF Owners, OwnersCounted
<1>3. \A c \in Conns : get_priority(conn'[c]) = get_priority(conn[c])
  BY ConnNow, PriorityUnique
<1>4. InOrder'
  <2>1. queue \in Seq(Conns) /\ \A c \in ToSet(queue) : c \in Conns
    BY QueueNow DEF Inv, QueueHoldsLive
  <2>2. Ordered(queue, conn')
    BY <1>3, <2>1, OrderedFrame DEF Owners, InOrder
  <2> QED
    BY <2>2 DEF InOrder
<1> QED
  BY <1>1, <1>2, <1>4 DEF Owners

\* Connections that end leave no download behind.
LEMMA FreedOwners ==
    ASSUME Inv, Owners, NEW C \in SUBSET Conns, FreeConns(C)
    PROVE  WantedOnly' /\ \A c \in Conns : OwnersCounted(c)'
<1>1. /\ conn' = [c \in Conns |-> IF c \in C THEN FreeConn ELSE conn[c]]
      /\ \A d \in Downloads : dl'[d] = IF \E c \in C : d \in conn[c].dls THEN Idle ELSE dl[d]
  BY DEF FreeConns
<1>2. WantedOnly'
  BY <1>1 DEF Owners, WantedOnly, Idle
<1>3. ASSUME NEW c \in Conns PROVE OwnersCounted(c)'
  <2>1. CASE c \in C
    <3>1. conn'[c] = FreeConn
      BY <1>1, <2>1
    <3>2. /\ conn'[c].state = "free" /\ conn'[c].dls = {}
          /\ \A p \in Pris : conn'[c].pri[p] = 0
      BY <3>1 DEF FreeConn
    <3>3. \A p : OfPriority(conn'[c].dls, dl', p) = {}
      BY <3>2 DEF OfPriority
    <3>4. Cardinality({}) = 0 /\ PRI_CANCEL \in Pris
      BY FS_EmptySet, LimitsAssumption DEF Pris
    <3> QED
      BY <3>2, <3>3, <3>4, WantedIsPri DEF OwnersCounted
  <2>2. CASE c \notin C
    <3>1. conn'[c] = conn[c] /\ conn[c].dls \in SUBSET Downloads
      BY <1>1, <2>2, ConnNow
    <3>2. \A d \in conn[c].dls : dl'[d] = dl[d]
      <4> SUFFICES ASSUME NEW d \in conn[c].dls PROVE dl'[d] = dl[d]
        OBVIOUS
      <4>1. d \in Downloads /\ dl[d].conn = c
        BY <3>1, ConnNow
      <4>2. \A e \in C : d \notin conn[e].dls
        BY <2>2, <4>1, ConnNow
      <4> QED
        BY <1>1, <4>1, <4>2
    <3>3. \A p : Cardinality(OfPriority(conn[c].dls, dl', p)) =
                 Cardinality(OfPriority(conn[c].dls, dl, p))
      BY <3>1, <3>2, CountSame
    <3> QED
      BY <3>1, <3>3 DEF Owners, OwnersCounted
  <2> QED
    BY <2>1, <2>2
<1> QED
  BY <1>2, <1>3

\* What is left of the queue is in order.
LEMMA FreedOrder ==
    ASSUME Inv, Owners, NEW C \in SUBSET Conns, FreeConns(C), NEW q \in Without(queue, C)
    PROVE  q \in Seq(Conns) /\ Ordered(q, conn')
<1>1. q \in Seq(Conns) /\ ToSet(q) = ToSet(queue) \ C
  BY QueueNow, WithoutProperties
<1>2. Ordered(q, conn)
  BY QueueNow, WithoutOrdered DEF Owners, InOrder
<1>3. \A c \in ToSet(q) : get_priority(conn'[c]) = get_priority(conn[c])
  <2>1. \A c \in ToSet(q) : c \in Conns /\ c \notin C
    BY <1>1 DEF Inv, QueueHoldsLive
  <2> QED
    BY <2>1 DEF FreeConns
<1> QED
  BY <1>1, <1>2, <1>3, OrderedFrame

LEMMA EndOwners ==
    ASSUME Inv, Owners, NEW C \in SUBSET Conns, FreeConns(C), queue' \in Without(queue, C)
    PROVE  Owners'
<1>1. Ordered(queue', conn')
  BY FreedOrder
<1> QED
  BY <1>1, FreedOwners DEF Owners, InOrder

\* One connection changes, with the downloads that come to it or go.
LEMMA ChangedOwners ==
    ASSUME Inv, Owners, NEW c \in Conns, NEW r \in ConnRecord,
           conn' = [conn EXCEPT ![c] = r],
           \A p \in Wanted : r.pri[p] = Cardinality(OfPriority(r.dls, dl', p)),
           r.pri[PRI_CANCEL] >= 0,
           r.dls # {} \/ r.pri[PRI_CANCEL] > 0,
           \A d \in r.dls : d \in conn[c].dls \/ dl[d].state = "result",
           \A d \in Downloads : d \notin conn[c].dls /\ d \notin r.dls => dl'[d] = dl[d],
           \A d \in Downloads : \/ dl'[d].state = "result"
                                \/ dl'[d].pri \in Wanted
                                \/ dl'[d] = dl[d],
           InOrder'
    PROVE  Owners'
<1>1. /\ conn'[c] = r
      /\ \A e \in Conns \ {c} : conn'[e] = conn[e]
  BY ConnNow
<1>2. WantedOnly'
  BY DEF Owners, WantedOnly
<1>3. OwnersCounted(c)'
  BY <1>1 DEF OwnersCounted
<1>4. ASSUME NEW e \in Conns \ {c} PROVE OwnersCounted(e)'
  <2>1. conn'[e] = conn[e] /\ conn[e].dls \in SUBSET Downloads
    BY <1>1, ConnNow
  <2>2. \A d \in conn[e].dls : dl'[d] = dl[d]
    <3> SUFFICES ASSUME NEW d \in conn[e].dls PROVE dl'[d] = dl[d]
      OBVIOUS
    <3>1. d \in Downloads /\ dl[d].state = "progress" /\ dl[d].conn = e
      BY <2>1, ConnNow
    <3>2. d \notin conn[c].dls
      BY <3>1, ConnNow
    <3> QED
      BY <3>1, <3>2
  <2>3. \A p : Cardinality(OfPriority(conn[e].dls, dl', p)) =
               Cardinality(OfPriority(conn[e].dls, dl, p))
    BY <2>1, <2>2, CountSame
  <2> QED
    BY <2>1, <2>3 DEF Owners, OwnersCounted
<1> QED
  BY <1>2, <1>3, <1>4 DEF Owners

\* Joined() and Left() count one download more or less, of its priority only.
LEMMA JoinedPri ==
    ASSUME NEW r \in ConnRecord, NEW d, NEW p \in Pris
    PROVE  /\ Joined(r, d, p).pri[p] = r.pri[p] + 1
           /\ \A q \in Pris \ {p} : Joined(r, d, p).pri[q] = r.pri[q]
           /\ Joined(r, d, p).detached = r.detached
BY DEF Joined, ConnRecord

LEMMA LeftPri ==
    ASSUME NEW r \in ConnRecord, NEW d, NEW p \in Pris
    PROVE  /\ Left(r, d, p).pri[p] = r.pri[p] - 1
           /\ \A q \in Pris \ {p} : Left(r, d, p).pri[q] = r.pri[q]
           /\ Left(r, d, p).detached = r.detached
BY DEF Left, ConnRecord

LEMMA OrphanedPri ==
    ASSUME NEW r \in ConnRecord
    PROVE  /\ Orphaned(r).pri[PRI_CANCEL] = r.pri[PRI_CANCEL] + 1
           /\ \A q \in Wanted : Orphaned(r).pri[q] = r.pri[q]
           /\ Orphaned(r).detached = r.detached
BY LimitsAssumption DEF Orphaned, ConnRecord, Wanted, Pris

LEMMA CancelIsPri ==
    /\ PRI_CANCEL \in Pris /\ PRI_CANCEL \notin Wanted
    /\ \A p \in Pris : p \in Wanted \/ p = PRI_CANCEL
    /\ Pris \subseteq Nat
BY LimitsAssumption DEF Pris, Wanted

\* The connections other than c are in the queue as they were.
LEMMA OthersOrdered ==
    ASSUME Inv, Owners, NEW c \in Conns, NEW r, conn' = [conn EXCEPT ![c] = r]
    PROVE  /\ \A q \in Without(queue, {c}) : q \in Seq(Conns) /\ Ordered(q, conn')
           /\ conn[c].state = "free" => Ordered(queue, conn')
<1>1. \A e \in Conns \ {c} : conn'[e] = conn[e]
  BY ConnNow
<1>2. ASSUME NEW q \in Without(queue, {c})
      PROVE  q \in Seq(Conns) /\ Ordered(q, conn')
  <2>1. q \in Seq(Conns) /\ ToSet(q) = ToSet(queue) \ {c}
    BY QueueNow, WithoutProperties
  <2>2. Ordered(q, conn)
    BY QueueNow, WithoutOrdered DEF Owners, InOrder
  <2>3. \A e \in ToSet(q) : e \in Conns \ {c}
    BY <2>1 DEF Inv, QueueHoldsLive
  <2>4. \A e \in ToSet(q) : get_priority(conn'[e]) = get_priority(conn[e])
    BY <1>1, <2>3
  <2> QED
    BY <2>1, <2>2, <2>4, OrderedFrame
<1>3. ASSUME conn[c].state = "free" PROVE Ordered(queue, conn')
  <2>1. \A e \in ToSet(queue) : e \in Conns \ {c}
    BY <1>3 DEF Inv, QueueHoldsLive
  <2>2. \A e \in ToSet(queue) : get_priority(conn'[e]) = get_priority(conn[e])
    BY <1>1, <2>1
  <2> QED
    BY <2>2, QueueNow, OrderedFrame DEF Owners, InOrder
<1> QED
  BY <1>2, <1>3

LEMMA LoadUriJoinOwners ==
    ASSUME Inv, Owners, NEW d \in Downloads, NEW u \in Uris, NEW p \in Wanted,
           LoadUriJoin(d, u, p)
    PROVE  Owners'
<1>1. PICK i \in DOMAIN queue :
        /\ conn' = [conn EXCEPT ![queue[i]] = Joined(@, d, p)]
        /\ dl' = [dl EXCEPT ![d] = [state |-> "progress", conn |-> queue[i], pri |-> p]]
        /\ \/ \E q \in Without(queue, {queue[i]}) : queue' \in Enqueued(q, conn', queue[i])
           \/ get_priority(conn[queue[i]]) <= p /\ UNCHANGED queue
  BY DEF LoadUriJoin
<1> DEFINE c == queue[i]
           r == Joined(conn[c], d, p)
<1>2. c \in Conns
  BY InQueueIsConn
<1>3. conn[c] \in ConnRecord /\ p \in Pris /\ conn[c].dls \in SUBSET Downloads
  BY <1>2, WantedIsPri, ConnNow
<1>4. /\ r \in ConnRecord /\ r.dls = conn[c].dls \cup {d}
      /\ r.pri[p] = conn[c].pri[p] + 1
      /\ \A q \in Pris \ {p} : r.pri[q] = conn[c].pri[q]
  BY <1>3, JoinedTyped, JoinedPri
<1>5. conn' = [conn EXCEPT ![c] = r]
  BY <1>1
<1>6. /\ dl' = [dl EXCEPT ![d] = [state |-> "progress", conn |-> c, pri |-> p]]
      /\ \/ \E q \in Without(queue, {c}) : queue' \in Enqueued(q, conn', c)
         \/ get_priority(conn[c]) <= p /\ UNCHANGED queue
  BY <1>1
<1> HIDE DEF c, r
<1>7. /\ dl'[d].state = "progress" /\ dl'[d].pri = p
      /\ \A e \in Downloads \ {d} : dl'[e] = dl[e]
  BY <1>6 DEF Inv, TypeOK
<1>8. dl[d].state = "result" /\ d \notin conn[c].dls
  BY <1>2, ConnNow DEF LoadUriJoin
<1>9. /\ \A q \in Wanted : conn[c].pri[q] = Cardinality(OfPriority(conn[c].dls, dl, q))
      /\ conn[c].pri[PRI_CANCEL] >= 0
  BY <1>2 DEF Owners, OwnersCounted
<1>10. ASSUME NEW q \in Wanted
       PROVE  r.pri[q] = Cardinality(OfPriority(r.dls, dl', q))
  <2>1. \A e \in conn[c].dls : dl'[e].pri = dl[e].pri
    BY <1>3, <1>7, <1>8
  <2>2. Cardinality(OfPriority(conn[c].dls \cup {d}, dl', q)) =
          IF dl'[d].pri = q THEN Cardinality(OfPriority(conn[c].dls, dl, q)) + 1
                            ELSE Cardinality(OfPriority(conn[c].dls, dl, q))
    BY <1>3, <1>8, <2>1, CountJoined
  <2>3. q \in Pris
    BY WantedIsPri
  <2> QED
    BY <1>4, <1>7, <1>9, <2>2, <2>3
<1>11. r.pri[PRI_CANCEL] >= 0
  BY <1>4, <1>9, CancelIsPri
<1>12. conn' \in [Conns -> ConnRecord]
  BY <1>2, <1>4, <1>5, ConnNow
<1>13. InOrder'
  <2>1. CASE \E q \in Without(queue, {c}) : queue' \in Enqueued(q, conn', c)
    <3>1. PICK q \in Without(queue, {c}) : queue' \in Enqueued(q, conn', c)
      BY <2>1
    <3>2. q \in Seq(Conns) /\ Ordered(q, conn')
      BY <1>2, <1>5, <3>1, OthersOrdered
    <3>3. Ordered(queue', conn')
      BY <1>2, <1>12, <3>1, <3>2, EnqueuedOrdered
    <3> QED
      BY <3>3 DEF InOrder
  <2>2. CASE get_priority(conn[c]) <= p /\ UNCHANGED queue
    <3>1. conn[c].pri \in [Pris -> Int] /\ r.pri \in [Pris -> Int]
      BY <1>3, <1>4 DEF ConnRecord
    <3>2. ASSUME NEW x \in Pris, x <= get_priority(conn[c])
          PROVE  conn[c].pri[x] = 0 <=> r.pri[x] = 0
      <4>1. CASE x # p
        BY <1>4, <4>1
      <4>2. CASE x = p
        <5>1. get_priority(conn[c]) \in 0 .. (PRI_CANCEL + 1) /\ PRI_CANCEL \in Nat
          BY <3>1, PriorityType, LimitsAssumption
        <5>2. get_priority(conn[c]) = p /\ p <= PRI_CANCEL
          BY <1>3, <2>2, <3>2, <4>2, <5>1 DEF Pris
        <5>3. conn[c].pri[p] # 0
          BY <3>1, <5>2, PriorityType
        <5>4. conn[c].pri[p] \in Nat
          BY <1>3, <1>9, DownloadsFinite
        <5> QED
          BY <1>4, <4>2, <5>3, <5>4
      <4> QED
        BY <4>1, <4>2
    <3>3. get_priority(r) = get_priority(conn[c])
      BY <3>1, <3>2, PriorityUnique
    <3>4. \A e \in ToSet(queue) : get_priority(conn'[e]) = get_priority(conn[e])
      <4>1. \A e \in ToSet(queue) : e \in Conns
        BY DEF Inv, QueueHoldsLive
      <4>2. \A e \in Conns : conn'[e] = IF e = c THEN r ELSE conn[e]
        BY <1>5, ConnNow
      <4> QED
        BY <3>3, <4>1, <4>2
    <3>5. Ordered(queue, conn')
      BY <3>4, QueueNow, OrderedFrame DEF Owners, InOrder
    <3> QED
      BY <2>2, <3>5 DEF InOrder
  <2> QED
    BY <1>6, <2>1, <2>2
<1>14. /\ r.dls # {}
       /\ \A e \in r.dls : e \in conn[c].dls \/ dl[e].state = "result"
       /\ \A e \in Downloads : e \notin conn[c].dls /\ e \notin r.dls => dl'[e] = dl[e]
  BY <1>4, <1>7, <1>8
<1>15. \A e \in Downloads : dl'[e].pri \in Wanted \/ dl'[e] = dl[e]
  BY <1>7
<1> QED
  BY <1>2, <1>4, <1>5, <1>10, <1>11, <1>13, <1>14, <1>15, ChangedOwners

LEMMA LoadUriNewOwners ==
    ASSUME Inv, Owners, NEW d \in Downloads, NEW u \in Uris, NEW p \in Wanted,
           LoadUriNew(d, u, p)
    PROVE  Owners'
<1> DEFINE np == [FreeConn.pri EXCEPT ![p] = 1]
           r == [FreeConn EXCEPT !.uri = u, !.state = "wait", !.pri = np, !.dls = {d}]
<1>1. PICK c \in Conns :
        /\ conn[c].state = "free"
        /\ conn' = [conn EXCEPT ![c] = r]
        /\ dl' = [dl EXCEPT ![d] = [state |-> "progress", conn |-> c, pri |-> p]]
        /\ queue' \in Enqueued(queue, conn', c)
  BY DEF LoadUriNew
<1>2. p \in Pris
  BY WantedIsPri
<1>3. /\ np \in [Pris -> Int] /\ np[p] = 1 /\ \A q \in Pris \ {p} : np[q] = 0
  BY <1>2 DEF FreeConn
<1> HIDE DEF np
<1>4. r \in ConnRecord /\ r.dls = {d} /\ r.pri = np
  BY <1>3, FreeConnTyped DEF ConnRecord
<1> HIDE DEF r
<1>5. /\ dl'[d].state = "progress" /\ dl'[d].pri = p
      /\ \A e \in Downloads \ {d} : dl'[e] = dl[e]
  BY <1>1 DEF Inv, TypeOK
<1>6. dl[d].state = "result"
  BY DEF LoadUriNew
<1>7. ASSUME NEW q \in Wanted
      PROVE  r.pri[q] = Cardinality(OfPriority(r.dls, dl', q))
  <2>1. q \in Pris
    BY WantedIsPri
  <2>2. CASE q = p
    <3>1. OfPriority(r.dls, dl', q) = {d}
      BY <1>4, <1>5, <2>2 DEF OfPriority
    <3>2. Cardinality({d}) = 1
      BY FS_Singleton
    <3> QED
      BY <1>3, <1>4, <2>2, <3>1, <3>2
  <2>3. CASE q # p
    <3>1. OfPriority(r.dls, dl', q) = {}
      BY <1>4, <1>5, <2>3 DEF OfPriority
    <3>2. Cardinality({}) = 0
      BY FS_EmptySet
    <3> QED
      BY <1>3, <1>4, <2>1, <2>3, <3>1, <3>2
  <2> QED
    BY <2>2, <2>3
<1>8. r.pri[PRI_CANCEL] >= 0
  BY <1>3, <1>4, CancelIsPri
<1>9. conn' \in [Conns -> ConnRecord]
  BY <1>1, <1>4, ConnNow
<1>10. InOrder'
  <2>1. Ordered(queue, conn')
    BY <1>1, OthersOrdered
  <2>2. Ordered(queue', conn')
    BY <1>1, <1>9, <2>1, QueueNow, EnqueuedOrdered
  <2> QED
    BY <2>2 DEF InOrder
<1>11. /\ r.dls # {}
       /\ \A e \in r.dls : dl[e].state = "result"
       /\ \A e \in Downloads : e \notin r.dls => dl'[e] = dl[e]
       /\ \A e \in Downloads : dl'[e].pri \in Wanted \/ dl'[e] = dl[e]
  BY <1>4, <1>5, <1>6
<1> QED
  BY <1>1, <1>4, <1>7, <1>8, <1>10, <1>11, ChangedOwners

LEMMA CancelDownloadOwners ==
    ASSUME Inv, Owners, Inv', NEW d \in Downloads, NEW interrupt \in BOOLEAN,
           CancelDownload(d, interrupt)
    PROVE  Owners'
<1> DEFINE c == dl[d].conn
           p == dl[d].pri
           less == Left(conn[c], d, p)
           abort == less.dls = {} /\ (conn[c].detached \/ interrupt)
<1>1. c \in Conns /\ p \in Pris /\ d \in conn[c].dls /\ dl[d].state = "progress"
  BY DownloadsConn DEF CancelDownload
<1>2. conn' \in [Conns -> ConnRecord]
  BY DEF Inv, TypeOK
<1>3. CASE abort
  <2>1. FreeConns({c}) /\ \E q \in Without(queue, {c}) : queue' \in Sorted(q, conn')
    BY <1>3 DEF CancelDownload
  <2>2. PICK q \in Without(queue, {c}) : queue' \in Sorted(q, conn')
    BY <2>1
  <2>3. q \in Seq(Conns)
    BY QueueNow, WithoutProperties
  <2>4. Ordered(queue', conn')
    BY <1>2, <2>2, <2>3, SortedOrdered
  <2> QED
    BY <1>1, <2>1, <2>4, FreedOwners DEF Owners, InOrder
<1>4. CASE ~abort
  <2> DEFINE r == IF less.dls = {} THEN Orphaned(less) ELSE less
  <2>1. /\ conn' = [conn EXCEPT ![c] = r]
        /\ dl' = [dl EXCEPT ![d] = Idle]
        /\ queue' \in Sorted(queue, conn')
    BY <1>4 DEF CancelDownload
  <2>2. conn[c] \in ConnRecord /\ conn[c].dls \in SUBSET Downloads
    BY <1>1, ConnNow
  <2>3. /\ less \in ConnRecord /\ less.dls = conn[c].dls \ {d}
        /\ less.pri[p] = conn[c].pri[p] - 1
        /\ \A q \in Pris \ {p} : less.pri[q] = conn[c].pri[q]
    BY <1>1, <2>2, LeftTyped, LeftPri
  <2>4. p \in Wanted
    BY <1>1 DEF Owners, WantedOnly
  <2>5. /\ \A q \in Wanted : conn[c].pri[q] = Cardinality(OfPriority(conn[c].dls, dl, q))
        /\ conn[c].pri[PRI_CANCEL] >= 0
    BY <1>1 DEF Owners, OwnersCounted
  <2>6. /\ dl'[d].state = "result"
        /\ \A e \in Downloads \ {d} : dl'[e] = dl[e]
    BY <2>1 DEF Inv, TypeOK, Idle
  <2>7. ASSUME NEW q \in Wanted
        PROVE  less.pri[q] = Cardinality(OfPriority(less.dls, dl', q))
    <3>1. \A e \in conn[c].dls \ {d} : dl'[e].pri = dl[e].pri
      BY <2>2, <2>6
    <3>2. Cardinality(OfPriority(conn[c].dls \ {d}, dl', q)) =
            IF p = q THEN Cardinality(OfPriority(conn[c].dls, dl, q)) - 1
                     ELSE Cardinality(OfPriority(conn[c].dls, dl, q))
      BY <1>1, <2>2, <3>1, CountLeft
    <3>3. q \in Pris
      BY WantedIsPri
    <3> QED
      BY <2>3, <2>5, <3>2, <3>3
  <2>8. less.pri[PRI_CANCEL] = conn[c].pri[PRI_CANCEL] /\ conn[c].pri[PRI_CANCEL] \in Int
    BY <1>1, <2>3, <2>4, CancelIsPri, ConnNow
  <2> HIDE DEF less
  <2>9. /\ r \in ConnRecord /\ r.dls = less.dls
        /\ \A q \in Wanted : r.pri[q] = less.pri[q]
        /\ r.pri[PRI_CANCEL] >= 0
        /\ r.dls # {} \/ r.pri[PRI_CANCEL] > 0
    <3>1. CASE less.dls = {}
      BY <2>3, <2>5, <2>8, <3>1, OrphanedTyped, OrphanedPri
    <3>2. CASE less.dls # {}
      BY <2>3, <2>5, <2>8, <3>2
    <3> QED
      BY <3>1, <3>2
  <2> HIDE DEF r
  <2>10. \A q \in Wanted : r.pri[q] = Cardinality(OfPriority(r.dls, dl', q))
    BY <2>7, <2>9
  <2>11. InOrder'
    BY <1>2, <2>1, QueueNow, SortedOrdered DEF InOrder
  <2>12. /\ \A e \in r.dls : e \in conn[c].dls \/ dl[e].state = "result"
         /\ \A e \in Downloads : e \notin conn[c].dls /\ e \notin r.dls => dl'[e] = dl[e]
         /\ \A e \in Downloads : dl'[e].state = "result" \/ dl'[e].pri \in Wanted \/ dl'[e] = dl[e]
    BY <1>1, <2>3, <2>6, <2>9
  <2> HIDE DEF c
  <2> QED
    BY <1>1, <2>1, <2>9, <2>10, <2>11, <2>12, ChangedOwners
<1> QED
  BY <1>3, <1>4

LEMMA MoveDownloadOwners ==
    ASSUME Inv, Owners, Inv', NEW old \in Downloads, NEW new \in Downloads, NEW p \in Wanted,
           MoveDownload(old, new, p)
    PROVE  Owners'
<1> DEFINE c == dl[old].conn
           o == dl[old].pri
           more == Joined(conn[c], new, p)
           r == Left(more, old, o)
           mid == [dl EXCEPT ![new] = [state |-> "progress", conn |-> c, pri |-> p]]
<1>1. /\ c \in Conns /\ o \in Pris /\ old \in conn[c].dls
      /\ dl[old].state = "progress" /\ dl[new].state = "result"
  BY DownloadsConn DEF MoveDownload
<1>2. /\ conn' = [conn EXCEPT ![c] = r]
      /\ dl' = [dl EXCEPT ![new] = [state |-> "progress", conn |-> c, pri |-> p],
                          ![old] = Idle]
      /\ \E q1 \in Sorted(queue, [conn EXCEPT ![c] = more]) : queue' \in Sorted(q1, conn')
  BY DEF MoveDownload
<1>3. conn[c] \in ConnRecord /\ conn[c].dls \in SUBSET Downloads /\ new \notin conn[c].dls
  BY <1>1, ConnNow
<1>4. p \in Pris /\ o \in Wanted
  BY <1>1, WantedIsPri DEF Owners, WantedOnly
<1>5. /\ more \in ConnRecord /\ more.dls = conn[c].dls \cup {new}
      /\ more.pri[p] = conn[c].pri[p] + 1
      /\ \A q \in Pris \ {p} : more.pri[q] = conn[c].pri[q]
  <2>1. more \in ConnRecord /\ more.dls = conn[c].dls \cup {new}
    BY <1>3, <1>4, JoinedTyped
  <2>2. /\ more.pri[p] = conn[c].pri[p] + 1
        /\ \A q \in Pris \ {p} : more.pri[q] = conn[c].pri[q]
    BY <1>3, <1>4, JoinedPri
  <2> QED
    BY <2>1, <2>2
<1> HIDE DEF more
<1>6. /\ r \in ConnRecord /\ r.dls = more.dls \ {old}
      /\ r.pri[o] = more.pri[o] - 1
      /\ \A q \in Pris \ {o} : r.pri[q] = more.pri[q]
  BY <1>1, <1>5, LeftTyped, LeftPri
<1> HIDE DEF r
<1>7. /\ \A q \in Wanted : conn[c].pri[q] = Cardinality(OfPriority(conn[c].dls, dl, q))
      /\ conn[c].pri[PRI_CANCEL] >= 0
  BY <1>1 DEF Owners, OwnersCounted
<1>8. /\ mid[new].pri = p
      /\ \A e \in Downloads \ {new} : mid[e] = dl[e]
  BY DEF Inv, TypeOK
<1>9. /\ dl'[old].state = "result" /\ dl'[new].pri = p
      /\ \A e \in Downloads \ {old} : dl'[e] = mid[e]
  BY <1>1, <1>2 DEF Inv, TypeOK, Idle
<1>10. mid[old].pri = o
  BY <1>1, <1>8
<1> HIDE DEF mid
<1>11. ASSUME NEW q \in Wanted
       PROVE  more.pri[q] = Cardinality(OfPriority(more.dls, mid, q))
  <2>1. \A e \in conn[c].dls : mid[e].pri = dl[e].pri
    BY <1>3, <1>8
  <2>2. Cardinality(OfPriority(conn[c].dls \cup {new}, mid, q)) =
          IF mid[new].pri = q THEN Cardinality(OfPriority(conn[c].dls, dl, q)) + 1
                              ELSE Cardinality(OfPriority(conn[c].dls, dl, q))
    BY <1>3, <2>1, CountJoined
  <2>3. q \in Pris
    BY WantedIsPri
  <2> QED
    BY <1>5, <1>7, <1>8, <2>2, <2>3
<1>12. ASSUME NEW q \in Wanted
       PROVE  r.pri[q] = Cardinality(OfPriority(r.dls, dl', q))
  <2>1. more.dls \in SUBSET Downloads /\ old \in more.dls
    BY <1>1, <1>3, <1>5
  <2>2. \A e \in more.dls \ {old} : dl'[e].pri = mid[e].pri
    BY <1>9, <2>1
  <2>3. Cardinality(OfPriority(more.dls \ {old}, dl', q)) =
          IF mid[old].pri = q THEN Cardinality(OfPriority(more.dls, mid, q)) - 1
                              ELSE Cardinality(OfPriority(more.dls, mid, q))
    BY <2>1, <2>2, CountLeft
  <2>4. q \in Pris
    BY WantedIsPri
  <2> QED
    BY <1>6, <1>10, <1>11, <2>3, <2>4
<1>13. r.pri[PRI_CANCEL] >= 0
  BY <1>4, <1>5, <1>6, <1>7, CancelIsPri
<1>14. r.dls # {}
  BY <1>1, <1>5, <1>6
<1>15. InOrder'
  <2>1. PICK q1 \in Sorted(queue, [conn EXCEPT ![c] = more]) : queue' \in Sorted(q1, conn')
    BY <1>2
  <2>2. q1 \in Seq(Conns)
    BY <2>1, QueueNow, SortedProperties
  <2>3. conn' \in [Conns -> ConnRecord]
    BY DEF Inv, TypeOK
  <2> QED
    BY <2>1, <2>2, <2>3, SortedOrdered DEF InOrder
<1>16. /\ \A e \in r.dls : e \in conn[c].dls \/ dl[e].state = "result"
       /\ \A e \in Downloads : e \notin conn[c].dls /\ e \notin r.dls => dl'[e] = dl[e]
  <2>1. \A e \in r.dls : e \in conn[c].dls \/ e = new
    BY <1>5, <1>6
  <2>2. \A e \in Downloads : e \notin conn[c].dls /\ e \notin r.dls => e # old /\ e # new
    BY <1>1, <1>5, <1>6
  <2> QED
    BY <1>1, <1>8, <1>9, <2>1, <2>2
<1>17. \A e \in Downloads : dl'[e].state = "result" \/ dl'[e].pri \in Wanted \/ dl'[e] = dl[e]
  BY <1>8, <1>9
<1> HIDE DEF c
<1> QED
  BY <1>1, <1>2, <1>6, <1>12, <1>13, <1>14, <1>15, <1>16, <1>17, ChangedOwners

LEMMA QuitConnectionOwners ==
    ASSUME Inv, Owners, NEW u \in QuitUris, QuitConnection(u), UNCHANGED dl
    PROVE  Owners'
<1> DEFINE np == [FreeConn.pri EXCEPT ![PRI_CANCEL] = 1]
           r == [FreeConn EXCEPT !.uri = u, !.state = "quit", !.pri = np, !.running = TRUE]
<1>1. PICK c \in Conns :
        /\ conn[c].state = "free"
        /\ conn' = [conn EXCEPT ![c] = r]
        /\ queue' \in Enqueued(queue, conn', c)
  BY DEF QuitConnection
<1>2. np \in [Pris -> Int] /\ np[PRI_CANCEL] = 1 /\ \A q \in Wanted : np[q] = 0
  <2>1. FreeConn.pri = [p \in Pris |-> 0]
    BY DEF FreeConn
  <2>2. np = [p \in Pris |-> IF p = PRI_CANCEL THEN 1 ELSE 0]
    BY <2>1, Zenon
  <2> HIDE DEF np
  <2> QED
    BY <2>2, CancelIsPri, WantedIsPri
<1> HIDE DEF np
<1>3. u \in Uris
  BY UrisAssumption
<1>4. r \in ConnRecord /\ r.dls = {} /\ r.pri = np
  <2>1. FreeConn.dls = {}
    BY DEF FreeConn
  <2> QED
    BY <1>2, <1>3, <2>1, FreeConnTyped DEF ConnRecord
<1> HIDE DEF r
<1>5. ASSUME NEW q \in Wanted
      PROVE  r.pri[q] = Cardinality(OfPriority(r.dls, dl', q))
  <2>1. OfPriority(r.dls, dl', q) = {} /\ Cardinality({}) = 0
    BY <1>4, FS_EmptySet DEF OfPriority
  <2> QED
    BY <1>2, <1>4, <2>1
<1>6. conn' \in [Conns -> ConnRecord]
  BY <1>1, <1>4, ConnNow
<1>7. InOrder'
  <2>1. Ordered(queue, conn')
    BY <1>1, OthersOrdered
  <2>2. Ordered(queue', conn')
    BY <1>1, <1>6, <2>1, QueueNow, EnqueuedOrdered
  <2> QED
    BY <2>2 DEF InOrder
<1>8. r.pri[PRI_CANCEL] >= 0 /\ r.pri[PRI_CANCEL] > 0
  BY <1>2, <1>4
<1>9. /\ \A e \in r.dls : dl[e].state = "result"
      /\ \A e \in Downloads : dl'[e] = dl[e]
  BY <1>4
<1> QED
  BY <1>1, <1>4, <1>5, <1>7, <1>8, <1>9, ChangedOwners

\* The owners are not touched when one connection changes in other fields.
LEMMA TouchedOwners ==
    ASSUME Inv, Owners, UNCHANGED <<queue, dl>>, NEW c \in Conns, NEW r,
           conn' = [conn EXCEPT ![c] = r],
           r.pri = conn[c].pri, r.dls = conn[c].dls, conn[c].state # "free"
    PROVE  Owners'
<1>1. \A e \in Conns : conn'[e] = IF e = c THEN r ELSE conn[e]
  BY ConnNow
<1> QED
  BY <1>1, SameOwners

LEMMA AbortOwners ==
    ASSUME Inv, Owners, NEW C \in SUBSET ToSet(queue), AbortConnections(C)
    PROVE  Owners'
<1>1. C \in SUBSET Conns
  BY DEF Inv, QueueHoldsLive
<1> QED
  BY <1>1, EndOwners DEF AbortConnections

LEMMA ApiOwners ==
    ASSUME Inv, Owners, Inv', Api
    PROVE  Owners'
<1>1. ASSUME NEW d \in Downloads, DetachConnection(d) PROVE Owners'
  <2> DEFINE c == dl[d].conn
             r == [conn[c] EXCEPT !.detached = TRUE]
  <2>1. c \in Conns /\ conn[c].state # "free" /\ conn[c] \in ConnRecord
    BY <1>1, DownloadsConn, ConnNow DEF DetachConnection
  <2>2. conn' = [conn EXCEPT ![c] = r] /\ UNCHANGED <<queue, dl>>
    BY <1>1 DEF DetachConnection
  <2>3. r.pri = conn[c].pri /\ r.dls = conn[c].dls
    BY <2>1 DEF ConnRecord
  <2> HIDE DEF r, c
  <2> QED
    BY <2>1, <2>2, <2>3, TouchedOwners
<1>2. CASE AbortBackgroundConnections
  <2> DEFINE C == {c \in ToSet(queue) : get_priority(conn[c]) >= PRI_CANCEL}
  <2>1. AbortConnections(C) /\ C \in SUBSET ToSet(queue)
    BY <1>2 DEF AbortBackgroundConnections
  <2> HIDE DEF C
  <2> QED
    BY <2>1, AbortOwners
<1>3. CASE AbortAllConnections
  <2>1. AbortConnections(ToSet(queue)) /\ ToSet(queue) \in SUBSET ToSet(queue)
    BY <1>3 DEF AbortAllConnections
  <2> QED
    BY <2>1, AbortOwners
<1> QED
  BY <1>1, <1>2, <1>3, LoadUriJoinOwners, LoadUriNewOwners, CancelDownloadOwners,
     MoveDownloadOwners DEF Api

LEMMA TransferOwners ==
    ASSUME Inv, Owners, NEW c \in Conns, Transfer(c)
    PROVE  Owners'
<1>1. ASSUME FreeConns({c}), queue' \in Without(queue, {c}) PROVE Owners'
  BY <1>1, EndOwners
<1>2. CASE ~OutOfTries(conn[c]) /\ RetryConnection(c)
  <2> DEFINE s == [conn[c] EXCEPT !.tries = IF Retries = 0 THEN @ ELSE @ + 1]
  <2>1. ~(FreeConns({c}) /\ OutOfTries(conn[c]))
    BY <1>2
  <2>2. /\ \E t \in TriesAfterRun(s) :
             conn' = [conn EXCEPT ![c] = [s EXCEPT !.state = "work", !.tries = t]]
        /\ UNCHANGED <<queue, dl>>
    BY <1>2 DEF RetryConnection
  <2>3. PICK t : conn' = [conn EXCEPT ![c] = [s EXCEPT !.state = "work", !.tries = t]]
    BY <2>2
  <2>4. conn[c] \in ConnRecord /\ conn[c].state # "free"
    BY <1>2, ConnNow DEF RetryConnection, Inv, QueueHoldsLive
  <2> DEFINE r == [s EXCEPT !.state = "work", !.tries = t]
  <2>5. r.pri = conn[c].pri /\ r.dls = conn[c].dls
    BY <2>4 DEF ConnRecord
  <2>6. conn' = [conn EXCEPT ![c] = r]
    BY <2>3
  <2> HIDE DEF r
  <2> QED
    BY <2>2, <2>4, <2>5, <2>6, TouchedOwners
<1> QED
  BY <1>1, <1>2 DEF Transfer, EndConnection, EndKeepalive, RetryConnection

LEMMA DoneKeepaliveOwners ==
    ASSUME Inv, Owners, NEW i \in DOMAIN keep, DoneKeepalive(i), UNCHANGED dl
    PROVE  Owners'
<1>1. CASE CanQuit(keep[i]) /\ QuitConnection(keep[i])
  BY <1>1, QuitConnectionOwners DEF CanQuit
<1>2. CASE UNCHANGED <<queue, conn>>
  BY <1>2, SameOwners
<1> QED
  BY <1>1, <1>2 DEF DoneKeepalive

LEMMA KeepaliveOwners ==
    ASSUME Inv, Owners, KeepaliveCheck \/ KeepaliveTimer \/ DropKeepalive \/ DropDone
    PROVE  Owners'
<1>1. keep \in Seq(KeptUris) /\ visit \in Nat \ {0}
  BY LoopTypedNow DEF LoopTyped
<1>2. CASE KeepaliveExpires
  BY <1>2, DoneKeepaliveOwners DEF KeepaliveExpires
<1>3. CASE KeepaliveTrim
  <2>1. Len(keep) \in DOMAIN keep
    BY <1>1, <1>3, LimitsAssumption DEF KeepaliveTrim, TooMany
  <2> QED
    BY <1>3, <2>1, DoneKeepaliveOwners DEF KeepaliveTrim
<1>4. CASE DropKeepalive
  <2>1. 1 \in DOMAIN keep
    BY <1>1, <1>4 DEF DropKeepalive
  <2> QED
    BY <1>4, <2>1, DoneKeepaliveOwners DEF DropKeepalive
<1>5. CASE UNCHANGED <<queue, conn, dl>>
  BY <1>5, SameOwners
<1> QED
  BY <1>2, <1>3, <1>4, <1>5 DEF KeepaliveCheck, KeepaliveSurvives, KeepaliveChecked,
     KeepaliveTimer, DropDone

LEMMA CheckQueueOwners ==
    ASSUME Inv, Owners, CheckQueue
    PROVE  Owners'
<1>1. ASSUME NEW i \in DOMAIN queue, RunConnection(i) PROVE Owners'
  <2> DEFINE c == queue[i]
  <2>1. c \in Conns /\ conn[c].state # "free" /\ conn[c] \in ConnRecord
    BY InQueueIsConn, ConnNow
  <2>2. PICK t : conn' = [conn EXCEPT ![c] = [@ EXCEPT !.state = "work", !.running = TRUE, !.tries = t]]
    BY <1>1 DEF RunConnection
  <2> DEFINE r == [conn[c] EXCEPT !.state = "work", !.running = TRUE, !.tries = t]
  <2>3. conn' = [conn EXCEPT ![c] = r]
    BY <2>2
  <2>4. r.pri = conn[c].pri /\ r.dls = conn[c].dls
    BY <2>1 DEF ConnRecord
  <2> HIDE DEF r, c
  <2> QED
    BY <1>1, <2>1, <2>3, <2>4, TouchedOwners DEF RunConnection
<1>2. ASSUME NEW i \in DOMAIN queue, RunConnectionEnds(i) \/ Reap(i) PROVE Owners'
  <2>1. {queue[i]} \in SUBSET Conns
    BY InQueueIsConn
  <2> QED
    BY <1>2, <2>1, EndOwners DEF RunConnectionEnds, Reap
<1>3. ASSUME NEW i \in DOMAIN queue, SuspendConnection(i) PROVE Owners'
  <2>1. PICK j \in DOMAIN queue :
          conn' = [conn EXCEPT ![queue[j]] = [@ EXCEPT !.state = "wait", !.running = FALSE]]
    BY <1>3 DEF SuspendConnection
  <2> DEFINE c == queue[j]
             r == [conn[c] EXCEPT !.state = "wait", !.running = FALSE]
  <2>2. c \in Conns /\ conn[c].state # "free" /\ conn[c] \in ConnRecord
    BY InQueueIsConn, ConnNow
  <2>3. conn' = [conn EXCEPT ![c] = r]
    BY <2>1
  <2>4. r.pri = conn[c].pri /\ r.dls = conn[c].dls
    BY <2>2 DEF ConnRecord
  <2> HIDE DEF r, c
  <2> QED
    BY <1>3, <2>2, <2>3, <2>4, TouchedOwners DEF SuspendConnection
<1>4. CASE UNCHANGED <<queue, conn, dl>>
  BY <1>4, SameOwners
<1> QED
  BY <1>1, <1>2, <1>3, <1>4, KeepaliveOwners DEF CheckQueue, StartCheckQueue, ScanDone,
     CheckQueueDone

LEMMA InitOwners == Init => Owners
<1> SUFFICES ASSUME Init PROVE Owners
  OBVIOUS
<1>1. WantedOnly /\ InOrder
  BY DEF Init, WantedOnly, InOrder, Ordered, Idle
<1>2. ASSUME NEW c \in Conns PROVE OwnersCounted(c)
  <2>1. conn[c] = FreeConn
    BY DEF Init
  <2>2. conn[c].state = "free" /\ conn[c].dls = {} /\ \A p \in Pris : conn[c].pri[p] = 0
    BY <2>1 DEF FreeConn
  <2>3. \A p : OfPriority(conn[c].dls, dl, p) = {}
    BY <2>2 DEF OfPriority
  <2>4. Cardinality({}) = 0
    BY FS_EmptySet
  <2> QED
    BY <2>2, <2>3, <2>4, CancelIsPri, WantedIsPri DEF OwnersCounted
<1> QED
  BY <1>1, <1>2 DEF Owners

LEMMA StepOwners == Inv /\ Owners /\ [Next]_vars => Owners'
<1> SUFFICES ASSUME Inv, Owners, [Next]_vars PROVE Owners'
  OBVIOUS
<1>1. Inv'
  BY StepInv
<1>2. CASE UNCHANGED vars
  BY <1>2, SameOwners DEF vars
<1>3. CASE Next
  BY <1>1, <1>3, ApiOwners, TransferOwners, CheckQueueOwners, KeepaliveOwners DEF Next
<1> QED
  BY <1>2, <1>3

\* The owners are counted in every behaviour.
THEOREM OwnersHold == Spec => []Owners
BY InitInv, InitOwners, StepInv, StepOwners, PTL DEF Spec

\* pri[] counts the attached downloads of each priority, a connection nobody
\* wants is counted under PRI_CANCEL, and the queue is in the order of the
\* counters, through joins, moves, cancels and ends in any order.
THEOREM PrioritiesCount == Spec => []PriCountsDownloads
<1>1. ASSUME Inv, Owners PROVE PriCountsDownloads
  <2>1. DownloadsAttached
    BY <1>1 DEF Inv
  <2>2. \A c \in Conns, p \in Wanted :
          conn[c].pri[p] = Cardinality({d \in conn[c].dls : dl[d].pri = p})
    BY <1>1 DEF Owners, OwnersCounted, OfPriority
  <2>3. ASSUME NEW c \in Conns, conn[c].state # "free"
        PROVE  \E p \in Pris : conn[c].pri[p] > 0
    <3>1. CASE conn[c].pri[PRI_CANCEL] > 0
      BY <3>1, CancelIsPri
    <3>2. CASE conn[c].dls # {}
      <4>1. PICK d \in conn[c].dls : d \in Downloads /\ dl[d].state = "progress"
        BY <1>1, <3>2, ConnNow
      <4>2. dl[d].pri \in Wanted /\ dl[d].pri \in Pris
        BY <1>1, <4>1, WantedIsPri DEF Owners, WantedOnly
      <4>3. OfPriority(conn[c].dls, dl, dl[d].pri) # {}
        BY <4>1 DEF OfPriority
      <4>4. Cardinality(OfPriority(conn[c].dls, dl, dl[d].pri)) # 0
        BY <1>1, <4>3, ConnNow, DownloadsFinite, FS_EmptySet
      <4>5. conn[c].pri[dl[d].pri] = Cardinality(OfPriority(conn[c].dls, dl, dl[d].pri))
        BY <1>1, <4>2 DEF Owners, OwnersCounted
      <4>6. Cardinality(OfPriority(conn[c].dls, dl, dl[d].pri)) \in Nat
        BY <1>1, ConnNow, DownloadsFinite
      <4> QED
        BY <4>2, <4>4, <4>5, <4>6
    <3> QED
      BY <1>1, <2>3, <3>1, <3>2 DEF Owners, OwnersCounted
  <2>4. \A i, j \in DOMAIN queue : i < j => PriAt(i) <= PriAt(j)
    BY <1>1 DEF Owners, InOrder, Ordered, PriAt
  <2> QED
    BY <2>1, <2>2, <2>3, <2>4 DEF PriCountsDownloads
<1> QED
  BY <1>1, InvHolds, OwnersHold, PTL

-----------------------------------------------------------------------------
(* What a step does to a connection it does not make.                      *)

\* It stays free or what it was, the URI it is for does not change, a detached
\* one stays detached, and it does not go back to wait.
Tame(c) ==
    conn'[c].state # "free" =>
        /\ conn[c].state # "free"
        /\ conn'[c].uri = conn[c].uri
        /\ conn[c].detached => conn'[c].detached
        /\ conn'[c].state = "wait" => conn[c].state = "wait"

AllTame == \A c \in Conns : Tame(c)

LEMMA FreedTame ==
    ASSUME NEW C, FreeConns(C)
    PROVE  AllTame
BY DEF FreeConns, AllTame, Tame, FreeConn

LEMMA ChangedTame ==
    ASSUME Inv, NEW c \in Conns, NEW r, conn' = [conn EXCEPT ![c] = r],
           conn[c].state # "free", r.uri = conn[c].uri,
           r.detached = conn[c].detached \/ r.detached = TRUE,
           r.state # "wait" \/ r.state = conn[c].state
    PROVE  AllTame
<1>1. conn \in [Conns -> ConnRecord]
  BY DEF Inv, TypeOK
<1>2. \A e \in Conns : conn'[e] = IF e = c THEN r ELSE conn[e]
  BY <1>1
<1> QED
  BY <1>2 DEF AllTame, Tame

\* Joins and leaves count, and change nothing else.
LEMMA CountedTame ==
    ASSUME NEW r \in ConnRecord, NEW s, NEW d, NEW p,
           s = Joined(r, d, p) \/ s = Left(r, d, p) \/ s = Orphaned(r)
    PROVE  s.uri = r.uri /\ s.detached = r.detached /\ s.state = r.state
<1>1. CASE s = Joined(r, d, p)
  BY <1>1 DEF Joined, ConnRecord
<1>2. CASE s = Left(r, d, p)
  BY <1>2 DEF Left, ConnRecord
<1>3. CASE s = Orphaned(r)
  BY <1>3 DEF Orphaned, ConnRecord
<1> QED
  BY <1>1, <1>2, <1>3

LEMMA SameTame == UNCHANGED conn => AllTame
BY DEF AllTame, Tame

LEMMA ApiTame ==
    ASSUME Inv, Api
    PROVE  \/ AllTame
           \/ \E d \in Downloads, u \in Uris, p \in Wanted : LoadUriNew(d, u, p)
<1>1. ASSUME NEW d \in Downloads, NEW u \in Uris, NEW p \in Wanted, LoadUriJoin(d, u, p)
      PROVE  AllTame
  <2>1. PICK i \in DOMAIN queue : conn' = [conn EXCEPT ![queue[i]] = Joined(conn[queue[i]], d, p)]
    BY <1>1 DEF LoadUriJoin
  <2> DEFINE c == queue[i]
             r == Joined(conn[c], d, p)
  <2>2. c \in Conns /\ conn[c].state # "free" /\ conn[c] \in ConnRecord
    BY InQueueIsConn, ConnNow
  <2>3. r.uri = conn[c].uri /\ r.detached = conn[c].detached /\ r.state = conn[c].state
    BY <2>2, CountedTame
  <2>4. conn' = [conn EXCEPT ![c] = r]
    BY <2>1
  <2> HIDE DEF c, r
  <2> QED
    BY <2>2, <2>3, <2>4, ChangedTame
<1>2. ASSUME NEW d \in Downloads, NEW k \in BOOLEAN, CancelDownload(d, k)
      PROVE  AllTame
  <2> DEFINE c == dl[d].conn
             less == Left(conn[c], d, dl[d].pri)
             r == IF less.dls = {} THEN Orphaned(less) ELSE less
  <2>1. c \in Conns /\ conn[c].state # "free" /\ conn[c] \in ConnRecord
    BY <1>2, DownloadsConn, ConnNow DEF CancelDownload
  <2>2. CASE FreeConns({c})
    BY <2>2, FreedTame
  <2>3. CASE conn' = [conn EXCEPT ![c] = r]
    <3>1. less.uri = conn[c].uri /\ less.detached = conn[c].detached /\ less.state = conn[c].state
      BY <2>1, CountedTame
    <3>2. less \in ConnRecord
      <4>1. dl[d].pri \in Pris
        BY DEF Inv, TypeOK, DownloadRecord
      <4> QED
        BY <2>1, <4>1, LeftTyped
    <3> HIDE DEF less
    <3>3. r.uri = conn[c].uri /\ r.detached = conn[c].detached /\ r.state = conn[c].state
      BY <3>1, <3>2, CountedTame
    <3> HIDE DEF r
    <3> QED
      BY <2>1, <2>3, <3>3, ChangedTame
  <2> QED
    BY <1>2, <2>2, <2>3 DEF CancelDownload
<1>3. ASSUME NEW d \in Downloads, NEW e \in Downloads, NEW p \in Wanted, MoveDownload(d, e, p)
      PROVE  AllTame
  <2> DEFINE c == dl[d].conn
             more == Joined(conn[c], e, p)
             r == Left(more, d, dl[d].pri)
  <2>1. c \in Conns /\ conn[c].state # "free" /\ conn[c] \in ConnRecord
    BY <1>3, DownloadsConn, ConnNow DEF MoveDownload
  <2>2. more.uri = conn[c].uri /\ more.detached = conn[c].detached /\ more.state = conn[c].state
    BY <2>1, CountedTame
  <2>3. more \in ConnRecord
    BY <2>1, JoinedTyped, WantedIsPri
  <2>4. conn' = [conn EXCEPT ![c] = r]
    BY <1>3 DEF MoveDownload
  <2> HIDE DEF more
  <2>5. r.uri = conn[c].uri /\ r.detached = conn[c].detached /\ r.state = conn[c].state
    BY <2>2, <2>3, CountedTame
  <2> HIDE DEF r
  <2> QED
    BY <2>1, <2>4, <2>5, ChangedTame
<1>4. ASSUME NEW d \in Downloads, DetachConnection(d)
      PROVE  AllTame
  <2> DEFINE c == dl[d].conn
             r == [conn[c] EXCEPT !.detached = TRUE]
  <2>1. c \in Conns /\ conn[c].state # "free" /\ conn[c] \in ConnRecord
    BY <1>4, DownloadsConn, ConnNow DEF DetachConnection
  <2>2. conn' = [conn EXCEPT ![c] = r]
    BY <1>4 DEF DetachConnection
  <2>3. r.uri = conn[c].uri /\ r.detached = TRUE /\ r.state = conn[c].state
    BY <2>1 DEF ConnRecord
  <2> HIDE DEF r
  <2> QED
    BY <2>1, <2>2, <2>3, ChangedTame
<1>5. CASE AbortBackgroundConnections \/ AbortAllConnections
  BY <1>5, FreedTame DEF AbortBackgroundConnections, AbortAllConnections, AbortConnections
<1> QED
  BY <1>1, <1>2, <1>3, <1>4, <1>5 DEF Api

LEMMA TransferTame ==
    ASSUME Inv, NEW c \in Conns, Transfer(c)
    PROVE  AllTame
<1>1. CASE FreeConns({c})
  BY <1>1, FreedTame
<1>2. CASE RetryConnection(c) /\ ~FreeConns({c})
  <2>1. conn[c].state # "free" /\ conn[c] \in ConnRecord
    BY <1>2, ConnNow DEF RetryConnection, Inv, QueueHoldsLive
  <2>2. PICK n, t : conn' = [conn EXCEPT ![c] =
                     [[conn[c] EXCEPT !.tries = n] EXCEPT !.state = "work", !.tries = t]]
    BY <1>2 DEF RetryConnection
  <2> DEFINE r == [[conn[c] EXCEPT !.tries = n] EXCEPT !.state = "work", !.tries = t]
  <2>3. r.uri = conn[c].uri /\ r.detached = conn[c].detached /\ r.state = "work"
    BY <2>1 DEF ConnRecord
  <2>4. conn' = [conn EXCEPT ![c] = r]
    BY <2>2
  <2> HIDE DEF r
  <2> QED
    BY <2>1, <2>3, <2>4, ChangedTame
<1> QED
  BY <1>1, <1>2 DEF Transfer, EndConnection, EndKeepalive

LEMMA CheckQueueTame ==
    ASSUME Inv, CheckQueue \/ KeepaliveTimer \/ DropKeepalive \/ DropDone
    PROVE  \/ AllTame
           \/ \E u \in QuitUris : QuitConnection(u)
           \/ \E i \in DOMAIN queue : SuspendConnection(i)
<1>1. ASSUME NEW i, DoneKeepalive(i)
      PROVE  \/ AllTame
             \/ \E u \in QuitUris : QuitConnection(u)
  BY <1>1, SameTame DEF DoneKeepalive, CanQuit
<1>2. ASSUME NEW i \in DOMAIN queue, RunConnection(i)
      PROVE  AllTame
  <2> DEFINE c == queue[i]
  <2>1. c \in Conns /\ conn[c].state # "free" /\ conn[c] \in ConnRecord
    BY InQueueIsConn, ConnNow
  <2>2. PICK t : conn' = [conn EXCEPT ![c] =
                     [conn[c] EXCEPT !.state = "work", !.running = TRUE, !.tries = t]]
    BY <1>2 DEF RunConnection
  <2> DEFINE r == [conn[c] EXCEPT !.state = "work", !.running = TRUE, !.tries = t]
  <2>3. r.uri = conn[c].uri /\ r.detached = conn[c].detached /\ r.state = "work"
    BY <2>1 DEF ConnRecord
  <2>4. conn' = [conn EXCEPT ![c] = r]
    BY <2>2
  <2> HIDE DEF r, c
  <2> QED
    BY <2>1, <2>3, <2>4, ChangedTame
<1>3. ASSUME NEW i \in DOMAIN queue, RunConnectionEnds(i) \/ Reap(i)
      PROVE  AllTame
  BY <1>3, FreedTame DEF RunConnectionEnds, Reap
<1>4. CASE \/ StartCheckQueue \/ KeepaliveSurvives \/ KeepaliveChecked \/ ScanDone
           \/ CheckQueueDone \/ KeepaliveTimer \/ DropDone
  BY <1>4, SameTame DEF StartCheckQueue, KeepaliveSurvives, KeepaliveChecked, ScanDone,
     CheckQueueDone, KeepaliveTimer, DropDone
<1> QED
  BY <1>1, <1>2, <1>3, <1>4 DEF CheckQueue, KeepaliveCheck, KeepaliveExpires, KeepaliveTrim,
     DropKeepalive

\* Every step is tame, or makes a connection, or takes a slot away.
LEMMA StepTame ==
    ASSUME Inv, [Next]_vars
    PROVE  \/ AllTame
           \/ \E d \in Downloads, u \in Uris, p \in Wanted : LoadUriNew(d, u, p)
           \/ \E u \in QuitUris : QuitConnection(u)
           \/ \E i \in DOMAIN queue : SuspendConnection(i)
<1>1. CASE UNCHANGED vars
  BY <1>1, SameTame DEF vars
<1>2. CASE Next
  BY <1>2, ApiTame, TransferTame, CheckQueueTame DEF Next
<1> QED
  BY <1>1, <1>2

-----------------------------------------------------------------------------
(* One connection for each URI, and what gives way to what.                *)

LEMMA InitOne == Init => OneConnectionPerUri
BY DEF Init, OneConnectionPerUri, FreeConn

LEMMA StepOne ==
    ASSUME Inv, OneConnectionPerUri, [Next]_vars, QuitUris = {}
    PROVE  OneConnectionPerUri'
<1>1. conn \in [Conns -> ConnRecord]
  BY DEF Inv, TypeOK
<1>2. CASE AllTame
  BY <1>2 DEF AllTame, Tame, OneConnectionPerUri
<1>3. ASSUME NEW d \in Downloads, NEW u \in Uris, NEW p \in Wanted, LoadUriNew(d, u, p)
      PROVE  OneConnectionPerUri'
  <2>1. PICK n \in Conns : conn' = [conn EXCEPT ![n] =
                       [FreeConn EXCEPT !.uri = u, !.state = "wait",
                                        !.pri[p] = 1, !.dls = {d}]]
    BY <1>3 DEF LoadUriNew
  <2>2. \A e \in Conns \ {n} : conn'[e] = conn[e]
    BY <1>1, <2>1
  <2>3. conn'[n].uri = u
    BY <1>1, <2>1 DEF FreeConn
  <2>4. ASSUME NEW e \in Conns, conn[e].state # "free", ~conn[e].detached, conn[e].uri = u
        PROVE  FALSE
    <3>1. e \in ToSet(queue)
      BY <2>4, LiveInQueue
    <3>2. PICK i \in DOMAIN queue : queue[i] = e
      BY <3>1 DEF ToSet
    <3>3. i \in Joinable(u)
      BY <2>4, <3>2 DEF Joinable
    <3> QED
      BY <1>3, <3>3 DEF LoadUriNew
  <2> QED
    BY <2>2, <2>3, <2>4 DEF OneConnectionPerUri
<1>4. ASSUME NEW i \in DOMAIN queue, SuspendConnection(i)
      PROVE  OneConnectionPerUri'
  <2>1. PICK j \in DOMAIN queue :
          conn' = [conn EXCEPT ![queue[j]] = [conn[queue[j]] EXCEPT !.state = "wait", !.running = FALSE]]
    BY <1>4 DEF SuspendConnection
  <2> DEFINE v == queue[j]
             r == [conn[v] EXCEPT !.state = "wait", !.running = FALSE]
  <2>2. v \in Conns /\ conn[v].state # "free" /\ conn[v] \in ConnRecord
    BY InQueueIsConn, ConnNow
  <2>3. r.uri = conn[v].uri /\ r.detached = conn[v].detached
    BY <2>2 DEF ConnRecord
  <2>4. conn' = [conn EXCEPT ![v] = r]
    BY <2>1
  <2> HIDE DEF v, r
  <2>5. \A e \in Conns : conn'[e] = IF e = v THEN r ELSE conn[e]
    BY <1>1, <2>4
  <2>6. \A e \in Conns : /\ conn'[e].state # "free" => conn[e].state # "free"
                         /\ conn'[e].uri = conn[e].uri
                         /\ conn'[e].detached = conn[e].detached
    BY <2>2, <2>3, <2>5
  <2> QED
    BY <2>6 DEF OneConnectionPerUri
<1> QED
  BY <1>2, <1>3, <1>4, StepTame

\* Where no protocol says QUIT on a kept connection, two downloads of one URI
\* share a connection unless one was detached: load_uri() makes a second one
\* only when it finds none to join, and no other step adds one, attaches a
\* detached one or changes what a connection is for.
THEOREM OneConnection ==
    ASSUME QuitUris = {}
    PROVE  Spec => []OneConnectionPerUri
<1>1. Inv /\ OneConnectionPerUri /\ [Next]_vars => OneConnectionPerUri'
  BY StepOne
<1> QED
  BY <1>1, InitInv, InitOne, StepInv, PTL DEF Spec

LEMMA StepSuspends ==
    ASSUME Inv, [Next]_vars, NEW c \in Conns, conn[c].running, conn'[c].state = "wait"
    PROVE  /\ \E i \in DOMAIN queue :
                /\ conn[queue[i]].state = "wait"
                /\ PriAt(i) < get_priority(conn[c])
           /\ IsPost(conn[c].uri) => get_priority(conn[c]) >= PRI_CANCEL
<1>1. conn \in [Conns -> ConnRecord] /\ conn[c].state \in {"work", "quit"}
  BY DEF Inv, TypeOK, QueueHoldsLive
<1>2. ~AllTame
  BY <1>1 DEF AllTame, Tame
<1>3. ASSUME NEW d \in Downloads, NEW u \in Uris, NEW p \in Wanted, LoadUriNew(d, u, p)
      PROVE  FALSE
  <2>1. PICK n \in Conns :
          conn[n].state = "free" /\ \E r : conn' = [conn EXCEPT ![n] = r]
    BY <1>3 DEF LoadUriNew
  <2> QED
    BY <1>1, <2>1
<1>4. ASSUME NEW u \in QuitUris, QuitConnection(u)
      PROVE  FALSE
  <2>1. PICK n \in Conns :
          conn[n].state = "free" /\ \E r : conn' = [conn EXCEPT ![n] = r]
    BY <1>4 DEF QuitConnection
  <2> QED
    BY <1>1, <2>1
<1>5. PICK i \in DOMAIN queue : SuspendConnection(i)
  BY <1>2, <1>3, <1>4, StepTame
<1>6. PICK j \in DOMAIN queue : /\ j \in Victims(i, VictimHost(i))
                                /\ \E r : conn' = [conn EXCEPT ![queue[j]] = r]
  BY <1>5 DEF SuspendConnection, IsLast
<1>7. c = queue[j]
  BY <1>1, <1>6
<1>8. queue[j] \in Conns /\ queue[i] \in Conns
  BY InQueueIsConn
<1>9. PriAt(j) \in Int /\ PriAt(i) \in Int
  BY <1>1, <1>8, PriorityInt DEF PriAt
<1>10. PriAt(j) > PriAt(i)
  <2>1. j \in j .. Len(queue)
    BY DEF Inv, TypeOK
  <2> QED
    BY <1>6, <2>1 DEF Victims
<1>11. conn[queue[i]].state = "wait"
  BY <1>5 DEF SuspendConnection, IsNext, Candidates
<1>12. ~(IsPost(conn[queue[j]].uri) /\ PriAt(j) < PRI_CANCEL)
  BY <1>6 DEF Victims
<1> QED
  BY <1>7, <1>9, <1>10, <1>11, <1>12, LimitsAssumption DEF PriAt

\* A connection loses its slot only to one of a strictly better priority that
\* waits, and one with POST data that somebody still wants never does.
THEOREM SuspensionsJustified == Spec => SuspendsOnlyWorse
<1>1. ASSUME Inv, [Next]_vars
      PROVE  [\A c \in Conns :
                conn[c].running /\ conn'[c].state = "wait" =>
                   /\ \E i \in DOMAIN queue :
                        /\ conn[queue[i]].state = "wait"
                        /\ PriAt(i) < get_priority(conn[c])
                   /\ IsPost(conn[c].uri) => get_priority(conn[c]) >= PRI_CANCEL]_vars
  BY <1>1, StepSuspends
<1> QED
  BY <1>1, InvHolds, PTL DEF Spec, SuspendsOnlyWorse

-----------------------------------------------------------------------------
(* Nothing is forgotten.                                                   *)

\* Where the select-loop thread is, what is registered and what there is to do:
\* the loop only goes on with nothing left for the one it leaves, unless
\* check_queue() is registered anew.
WorkDone ==
    /\ pc = "drop" => pending
    /\ pc \in {"scan", "reap", "idle"} /\ keep # <<>> => keepTimer \/ pending
    /\ pc \in {"reap", "idle", "timer"} /\ ~pending => Candidates = {}
    /\ pc \in {"idle", "timer"} /\ ~pending => Unwanted = {}

\* What the passes look at is as it was.
SameSights ==
    /\ UNCHANGED <<queue, active, hostRefs>>
    /\ \A i \in DOMAIN queue :
         /\ conn'[queue[i]].state = "wait" <=> conn[queue[i]].state = "wait"
         /\ conn'[queue[i]].uri = conn[queue[i]].uri
         /\ get_priority(conn'[queue[i]]) = get_priority(conn[queue[i]])

LEMMA SameSightsWork ==
    ASSUME Inv, SameSights
    PROVE  Candidates' = Candidates /\ Unwanted' = Unwanted
<1>1. queue' = queue /\ DOMAIN queue' = DOMAIN queue /\ DOMAIN queue = 1 .. Len(queue)
  BY QueueNow DEF SameSights
<1>2. \A i \in DOMAIN queue :
        /\ conn'[queue[i]].state = "wait" <=> conn[queue[i]].state = "wait"
        /\ conn'[queue[i]].uri = conn[queue[i]].uri
        /\ PriAt(i)' = PriAt(i)
        /\ Host(queue[i])' = Host(queue[i])
  BY <1>1 DEF SameSights, PriAt, Host
<1>3. \A i \in DOMAIN queue : HostFull(i)' = HostFull(i)
  BY <1>1, <1>2 DEF SameSights, HostFull
<1>4. \A i \in DOMAIN queue : CanRun(i)' = CanRun(i) /\ VictimHost(i)' = VictimHost(i)
  BY <1>1, <1>2, <1>3 DEF SameSights, CanRun, AllFull, VictimHost
<1>5. Len(queue) \in Nat
  BY QueueNow
<1>6. ASSUME NEW i \in DOMAIN queue, NEW h
      PROVE  Victims(i, h)' = Victims(i, h)
  <2>1. \A j \in DOMAIN queue : \A k \in j .. Len(queue) : k \in DOMAIN queue
    BY <1>1, <1>5
  <2> QED
    BY <1>1, <1>2, <1>6, <2>1 DEF Victims
<1>7. \A i \in DOMAIN queue : CanSuspend(i)' = CanSuspend(i)
  BY <1>4, <1>6 DEF CanSuspend
<1>8. Candidates' = Candidates
  BY <1>1, <1>2, <1>4, <1>7 DEF Candidates
<1>9. Unwanted' = Unwanted
  <2>1. \A j \in DOMAIN queue : \A k \in j .. Len(queue) : k \in DOMAIN queue
    BY <1>1, <1>5
  <2> QED
    BY <1>1, <1>2, <2>1 DEF Unwanted
<1> QED
  BY <1>8, <1>9

\* A change to one connection that keeps its state, URI and priority, or that
\* it does not wait.
LEMMA TouchedSights ==
    ASSUME Inv, UNCHANGED <<queue, active, hostRefs>>, NEW c \in Conns, NEW r,
           conn' = [conn EXCEPT ![c] = r], r.uri = conn[c].uri,
           r.state = "wait" <=> conn[c].state = "wait",
           get_priority(r) = get_priority(conn[c])
    PROVE  SameSights
<1>1. \A e \in Conns : conn'[e] = IF e = c THEN r ELSE conn[e]
  BY DEF Inv, TypeOK
<1>2. \A i \in DOMAIN queue : queue[i] \in Conns
  BY InQueueIsConn
<1> QED
  BY <1>1, <1>2 DEF SameSights

LEMMA SameConnSights ==
    ASSUME UNCHANGED <<queue, conn, slots>>
    PROVE  SameSights
BY DEF SameSights, slots

LEMMA SightsWorkDone ==
    ASSUME Inv, WorkDone, SameSights, UNCHANGED <<pc, pending, keepTimer>>,
           keep' = keep \/ keep # <<>>
    PROVE  WorkDone'
BY SameSightsWork DEF WorkDone

LEMMA RegisteredWorkDone == pending' = TRUE => WorkDone'
BY DEF WorkDone

\* A download that joins at no better a priority leaves the connection its own.
LEMMA LoadUriJoinWork ==
    ASSUME Inv, Owners, WorkDone, NEW d \in Downloads, NEW u \in Uris, NEW p \in Wanted,
           LoadUriJoin(d, u, p)
    PROVE  WorkDone'
<1>1. PICK i \in DOMAIN queue :
        /\ conn' = [conn EXCEPT ![queue[i]] = Joined(conn[queue[i]], d, p)]
        /\ \/ pending' = TRUE
           \/ get_priority(conn[queue[i]]) <= p /\ UNCHANGED <<queue, pending>>
  BY DEF LoadUriJoin
<1> DEFINE c == queue[i]
           r == Joined(conn[c], d, p)
           g == get_priority(conn[c])
<1>2. c \in Conns /\ conn[c] \in ConnRecord
  BY InQueueIsConn, ConnNow
<1>3. r.uri = conn[c].uri /\ r.state = conn[c].state /\ r \in ConnRecord
  BY <1>2, CountedTame, JoinedTyped, WantedIsPri
<1>4. CASE g <= p /\ UNCHANGED <<queue, pending>>
  <2>1. conn[c].pri \in [Pris -> Int] /\ r.pri \in [Pris -> Int] /\ p \in Pris
    BY <1>2, <1>3, WantedIsPri DEF ConnRecord
  <2>2. g \in 0 .. (PRI_CANCEL + 1) /\ (g <= PRI_CANCEL => conn[c].pri[g] # 0)
    BY <2>1, PriorityType
  <2>3. r.pri[p] = conn[c].pri[p] + 1 /\ \A q \in Pris \ {p} : r.pri[q] = conn[c].pri[q]
    BY <1>2, <2>1, JoinedPri
  <2>4. conn[c].pri[p] >= 0
    <3>1. conn[c].pri[p] = Cardinality(OfPriority(conn[c].dls, dl, p))
      BY <1>2 DEF Owners, OwnersCounted
    <3>2. Cardinality(OfPriority(conn[c].dls, dl, p)) \in Nat
      BY <1>2, ConnNow, DownloadsFinite
    <3> QED
      BY <3>1, <3>2
  <2> HIDE DEF r
  <2>5. ASSUME NEW q \in Pris, q <= g
        PROVE  r.pri[q] = 0 <=> conn[c].pri[q] = 0
    <3>1. CASE q # p
      BY <2>3, <3>1
    <3>2. CASE q = p
      <4>1. g = p
        BY <1>4, <2>1, <2>2, <2>5, <3>2, CancelIsPri
      <4>2. conn[c].pri[p] # 0
        BY <2>1, <2>2, <4>1, LimitsAssumption DEF Pris
      <4> QED
        BY <2>1, <2>3, <2>4, <3>2, <4>2
    <3> QED
      BY <3>1, <3>2
  <2>6. get_priority(r) = get_priority(conn[c])
    BY <2>1, <2>5, PriorityUnique
  <2>7. conn' = [conn EXCEPT ![c] = r]
    BY <1>1 DEF r
  <2>8. UNCHANGED <<slots, keepalives, pc>>
    BY DEF LoadUriJoin
  <2>9. SameSights
    BY <1>2, <1>3, <1>4, <2>6, <2>7, <2>8, TouchedSights DEF slots, r
  <2> QED
    BY <1>4, <2>8, <2>9, SightsWorkDone DEF keepalives
<1> QED
  BY <1>1, <1>4, RegisteredWorkDone

LEMMA ApiWork ==
    ASSUME Inv, Owners, WorkDone, Api
    PROVE  WorkDone'
<1>1. ASSUME NEW d \in Downloads, DetachConnection(d)
      PROVE  WorkDone'
  <2> DEFINE c == dl[d].conn
             r == [conn[c] EXCEPT !.detached = TRUE]
  <2>1. c \in Conns /\ conn[c] \in ConnRecord
    BY <1>1, DownloadsConn, ConnNow DEF DetachConnection
  <2>2. r.uri = conn[c].uri /\ r.state = conn[c].state /\ r.pri = conn[c].pri
    BY <2>1 DEF ConnRecord
  <2>3. get_priority(r) = get_priority(conn[c])
    BY <2>2 DEF get_priority
  <2>4. conn' = [conn EXCEPT ![c] = r]
    BY <1>1 DEF DetachConnection
  <2> HIDE DEF r
  <2>5. SameSights
    BY <1>1, <2>1, <2>2, <2>3, <2>4, TouchedSights DEF DetachConnection, slots
  <2> QED
    BY <1>1, <2>5, SightsWorkDone DEF DetachConnection, keepalives
<1>2. CASE AbortBackgroundConnections \/ AbortAllConnections
  BY <1>2, RegisteredWorkDone DEF AbortBackgroundConnections, AbortAllConnections, AbortConnections
<1>3. ASSUME NEW d \in Downloads, NEW u \in Uris, NEW p \in Wanted, LoadUriNew(d, u, p)
      PROVE  WorkDone'
  BY <1>3, RegisteredWorkDone DEF LoadUriNew
<1>4. ASSUME NEW d \in Downloads, NEW k \in BOOLEAN, CancelDownload(d, k)
      PROVE  WorkDone'
  BY <1>4, RegisteredWorkDone DEF CancelDownload
<1>5. ASSUME NEW d \in Downloads, NEW e \in Downloads, NEW p \in Wanted, MoveDownload(d, e, p)
      PROVE  WorkDone'
  BY <1>5, RegisteredWorkDone DEF MoveDownload
<1> QED
  BY <1>1, <1>2, <1>3, <1>4, <1>5, LoadUriJoinWork DEF Api

LEMMA TransferWork ==
    ASSUME Inv, Owners, WorkDone, NEW c \in Conns, Transfer(c)
    PROVE  WorkDone'
<1>1. CASE EndConnection(c) \/ EndKeepalive(c)
  BY <1>1, RegisteredWorkDone DEF EndConnection, EndKeepalive
<1>2. CASE RetryConnection(c) /\ pending' # TRUE
  <2>1. conn[c].state \in {"work", "quit"} /\ conn[c] \in ConnRecord
    BY <1>2, ConnNow DEF RetryConnection, Inv, QueueHoldsLive
  <2>2. PICK n, t : conn' = [conn EXCEPT ![c] =
                     [[conn[c] EXCEPT !.tries = n] EXCEPT !.state = "work", !.tries = t]]
    BY <1>2 DEF RetryConnection
  <2> DEFINE r == [[conn[c] EXCEPT !.tries = n] EXCEPT !.state = "work", !.tries = t]
  <2>3. r.uri = conn[c].uri /\ r.pri = conn[c].pri /\ r.state = "work"
    BY <2>1 DEF ConnRecord
  <2>4. get_priority(r) = get_priority(conn[c])
    BY <2>3 DEF get_priority
  <2>5. conn' = [conn EXCEPT ![c] = r]
    BY <2>2
  <2> HIDE DEF r
  <2>6. UNCHANGED <<queue, slots, keepTimer, pc, pending>> /\ TakeKeepalive(conn[c].uri)
    BY <1>2 DEF RetryConnection
  <2>7. SameSights
    BY <2>1, <2>3, <2>4, <2>5, <2>6, TouchedSights DEF slots
  <2>8. keep' = keep \/ keep # <<>>
    BY <2>6 DEF TakeKeepalive
  <2> QED
    BY <2>6, <2>7, <2>8, SightsWorkDone
<1> QED
  BY <1>1, <1>2, RegisteredWorkDone DEF Transfer

\* A waiting connection that goes was in nobody's way: whoever could run or
\* suspend now could before.
LEMMA ReapWork ==
    ASSUME Inv, Owners, NEW i \in DOMAIN queue, Reap(i), Candidates = {}
    PROVE  Candidates' = {}
<1> DEFINE x == queue[i]
<1>1. x \in Conns /\ ~conn[x].running /\ conn \in [Conns -> ConnRecord] /\ hostRefs \in [Hosts -> Nat]
      /\ active \in Int
  <2>1. conn[x].state = "wait"
    BY DEF Reap, IsLast, Unwanted
  <2> QED
    BY <2>1, InQueueIsConn DEF Inv, TypeOK, QueueHoldsLive
<1>2. queue' \in Without(queue, {x}) /\ FreeConns({x})
  BY DEF Reap
<1> HIDE DEF x
<1>3. queue \in Seq(Conns) /\ queue' \in Seq(Conns) /\ ToSet(queue') = ToSet(queue) \ {x}
  BY <1>2, QueueNow, WithoutProperties
<1>4. active' = active /\ hostRefs' = hostRefs
  <2>1. {x} \cap Running = {} /\ \A h \in Hosts : {x} \cap RunningOn(h) = {}
    BY <1>1 DEF Running, RunningOn
  <2>2. active' = active - 0 /\ hostRefs' = [h \in Hosts |-> Unlocked(h, 0)]
    BY <1>2, <2>1, FS_EmptySet DEF FreeConns
  <2>3. \A h \in Hosts : Unlocked(h, 0) = hostRefs[h]
    BY <1>1 DEF Unlocked
  <2> QED
    BY <1>1, <2>2, <2>3
<1>5. \A c \in Conns \ {x} : conn'[c] = conn[c] /\ Host(c)' = Host(c)
  BY <1>2 DEF FreeConns, Host
<1>6. \A m \in DOMAIN queue' : \E k \in DOMAIN queue :
        /\ queue'[m] = queue[k] /\ queue[k] \in Conns \ {x}
        /\ PriAt(m)' = PriAt(k) /\ HostFull(m)' = HostFull(k)
        /\ CanRun(m)' = CanRun(k) /\ VictimHost(m)' = VictimHost(k)
  <2> SUFFICES ASSUME NEW m \in DOMAIN queue'
               PROVE  \E k \in DOMAIN queue :
                        /\ queue'[m] = queue[k] /\ queue[k] \in Conns \ {x}
                        /\ PriAt(m)' = PriAt(k) /\ HostFull(m)' = HostFull(k)
                        /\ CanRun(m)' = CanRun(k) /\ VictimHost(m)' = VictimHost(k)
    OBVIOUS
  <2>1. queue'[m] \in ToSet(queue')
    BY DEF ToSet
  <2>2. PICK k \in DOMAIN queue : queue[k] = queue'[m] /\ queue[k] # x
    BY <1>3, <2>1 DEF ToSet
  <2>3. queue[k] \in Conns \ {x}
    BY <1>3, <2>2
  <2>4. PriAt(m)' = PriAt(k) /\ HostFull(m)' = HostFull(k)
    BY <1>4, <1>5, <2>2, <2>3 DEF PriAt, HostFull
  <2>5. CanRun(m)' = CanRun(k) /\ VictimHost(m)' = VictimHost(k)
    BY <1>4, <1>5, <2>2, <2>3, <2>4 DEF CanRun, AllFull, VictimHost
  <2> QED
    BY <2>2, <2>3, <2>4, <2>5
<1>7. SUFFICES ASSUME NEW m \in Candidates'
               PROVE  \E k \in DOMAIN queue : k \in Candidates
  OBVIOUS
<1>8. /\ m \in DOMAIN queue' /\ conn'[queue'[m]].state = "wait"
      /\ CanRun(m)' \/ CanSuspend(m)'
  BY <1>7 DEF Candidates
<1>9. PICK k \in DOMAIN queue :
        /\ queue'[m] = queue[k] /\ queue[k] \in Conns \ {x}
        /\ PriAt(m)' = PriAt(k) /\ CanRun(m)' = CanRun(k) /\ VictimHost(m)' = VictimHost(k)
  BY <1>6, <1>8
<1>10. conn[queue[k]].state = "wait"
  BY <1>5, <1>8, <1>9
<1>11. CASE CanRun(m)'
  BY <1>9, <1>10, <1>11 DEF Candidates
<1>12. CASE CanSuspend(m)' /\ ~CanRun(m)'
  <2> DEFINE h == VictimHost(k)
  <2>1. PICK j \in DOMAIN queue' :
          /\ \A n \in j .. Len(queue') : PriAt(n)' > PriAt(m)'
          /\ conn'[queue'[j]].state # "wait"
          /\ ~(IsPost(conn'[queue'[j]].uri) /\ PriAt(j)' < PRI_CANCEL)
          /\ h = NoHost \/ Host(queue[j])' = h
    BY <1>9, <1>12 DEF CanSuspend, Victims
  <2>2. PICK l \in DOMAIN queue :
          queue'[j] = queue[l] /\ queue[l] \in Conns \ {x} /\ PriAt(j)' = PriAt(l)
    BY <1>6
  <2>3. PriAt(l) > PriAt(k)
    <3>1. j \in j .. Len(queue')
      BY <1>3
    <3> QED
      BY <1>9, <2>1, <2>2, <3>1
  <2>4. ASSUME NEW n \in l .. Len(queue)
        PROVE  PriAt(n) > PriAt(k)
    <3>1. n \in DOMAIN queue /\ n \in Nat /\ l \in Nat /\ l <= n
      BY <1>3
    <3>2. PriAt(n) >= PriAt(l)
      <4>1. CASE l < n
        BY <3>1, <4>1, PriorityInt, <1>1, <1>3 DEF Owners, InOrder, Ordered, PriAt
      <4>2. CASE l = n
        BY <4>2, PriorityInt, <1>1, <1>3 DEF PriAt
      <4> QED
        BY <3>1, <4>1, <4>2
    <3>3. \A q \in DOMAIN queue : PriAt(q) \in Int
      BY <1>1, <1>3, PriorityInt DEF PriAt
    <3> QED
      BY <2>3, <3>1, <3>2, <3>3
  <2>5. Host(queue[j])' = Host(queue[l]) /\ conn'[queue'[j]] = conn[queue[l]]
    BY <1>5, <2>2 DEF Host
  <2>6. /\ conn[queue[l]].state # "wait"
        /\ ~(IsPost(conn[queue[l]].uri) /\ PriAt(l) < PRI_CANCEL)
        /\ h = NoHost \/ Host(queue[l]) = h
    BY <2>1, <2>2, <2>5
  <2>7. l \in Victims(k, h)
    BY <2>4, <2>6 DEF Victims
  <2> QED
    BY <1>9, <1>10, <1>12, <2>7 DEF Candidates, CanSuspend
<1> QED
  BY <1>8, <1>11, <1>12

LEMMA CheckQueueWork ==
    ASSUME Inv, Owners, WorkDone, QuitUris = {},
           CheckQueue \/ KeepaliveTimer \/ DropKeepalive \/ DropDone
    PROVE  WorkDone'
<1>1. ASSUME NEW i, DoneKeepalive(i)
      PROVE  UNCHANGED <<queue, conn, slots>>
  BY <1>1 DEF DoneKeepalive, CanQuit
<1>2. CASE KeepaliveSurvives \/ KeepaliveExpires \/ KeepaliveTrim \/ DropKeepalive
  <2>1. UNCHANGED <<queue, conn, slots, pending, keepTimer, pc>> /\ pc \in {"again", "timer", "drop"}
    BY <1>1, <1>2 DEF KeepaliveSurvives, KeepaliveExpires, KeepaliveTrim, DropKeepalive, Checking
  <2>2. Candidates' = Candidates /\ Unwanted' = Unwanted
    BY <2>1, SameConnSights, SameSightsWork
  <2> QED
    BY <2>1, <2>2 DEF WorkDone
<1>3. CASE KeepaliveChecked
  <2>1. UNCHANGED <<queue, conn, slots, pending, keep>> /\ keepTimer' = (keep # <<>>)
    BY <1>3 DEF KeepaliveChecked
  <2>2. (pc = "again" /\ pc' = "scan") \/ (pc = "timer" /\ pc' = "idle")
    <3>1. pc = "again" \/ pc = "timer"
      BY <1>3 DEF KeepaliveChecked, Checking
    <3>2. pc' = IF pc = "again" THEN "scan" ELSE "idle"
      BY <1>3 DEF KeepaliveChecked
    <3> QED
      BY <3>1, <3>2
  <2>3. Candidates' = Candidates /\ Unwanted' = Unwanted
    BY <2>1, SameConnSights, SameSightsWork
  <2> QED
    BY <2>1, <2>2, <2>3 DEF WorkDone
<1>4. CASE ScanDone
  <2>1. /\ UNCHANGED <<queue, conn, slots, pending, keep, keepTimer>> /\ pc = "scan" /\ pc' = "reap"
        /\ Candidates = {}
    BY <1>4 DEF ScanDone, keepalives
  <2>2. Candidates' = Candidates
    BY <2>1, SameConnSights, SameSightsWork
  <2> QED
    BY <2>1, <2>2 DEF WorkDone
<1>5. CASE CheckQueueDone
  <2>1. /\ UNCHANGED <<queue, conn, slots, pending, keep, keepTimer>> /\ pc = "reap" /\ pc' = "idle"
        /\ Unwanted = {}
    BY <1>5 DEF CheckQueueDone, keepalives
  <2>2. Candidates' = Candidates /\ Unwanted' = Unwanted
    BY <2>1, SameConnSights, SameSightsWork
  <2> QED
    BY <2>1, <2>2 DEF WorkDone
<1>6. CASE KeepaliveTimer
  <2>1. UNCHANGED <<queue, conn, slots, pending, keep>> /\ pc = "idle" /\ pc' = "timer"
    BY <1>6 DEF KeepaliveTimer
  <2>2. Candidates' = Candidates /\ Unwanted' = Unwanted
    BY <2>1, SameConnSights, SameSightsWork
  <2> QED
    BY <2>1, <2>2 DEF WorkDone
<1>7. CASE DropDone
  BY <1>7, RegisteredWorkDone DEF DropDone, WorkDone
<1>8. CASE StartCheckQueue
  BY <1>8 DEF StartCheckQueue, WorkDone
<1>9. ASSUME NEW i \in DOMAIN queue,
             RunConnection(i) \/ RunConnectionEnds(i) \/ SuspendConnection(i)
      PROVE  WorkDone'
  <2>1. pc' = "again"
    BY <1>9 DEF RunConnection, RunConnectionEnds, SuspendConnection, Again
  <2> QED
    BY <2>1 DEF WorkDone
<1>10. ASSUME NEW i \in DOMAIN queue, Reap(i)
       PROVE  WorkDone'
  <2>1. pc = "reap" /\ UNCHANGED <<keep, keepTimer, pending, pc>>
    BY <1>10 DEF Reap, keepalives
  <2>2. Candidates = {} => Candidates' = {}
    BY <1>10, ReapWork
  <2> QED
    BY <2>1, <2>2 DEF WorkDone
<1> QED
  BY <1>2, <1>3, <1>4, <1>5, <1>6, <1>7, <1>8, <1>9, <1>10 DEF CheckQueue, KeepaliveCheck

LEMMA InitWork == Init => WorkDone
BY DEF Init, WorkDone, Candidates, Unwanted

LEMMA StepWork ==
    ASSUME Inv, Owners, WorkDone, QuitUris = {}, [Next]_vars
    PROVE  WorkDone'
<1>1. CASE UNCHANGED vars
  <2>1. UNCHANGED <<queue, conn, slots>> /\ UNCHANGED <<pc, pending, keepTimer, keep>>
    BY <1>1 DEF vars, slots
  <2> QED
    BY <2>1, SameConnSights, SightsWorkDone
<1>2. CASE Next
  BY <1>2, ApiWork, TransferWork, CheckQueueWork DEF Next
<1> QED
  BY <1>1, <1>2

\* Where no protocol says QUIT on a kept connection, nothing is forgotten: with
\* the loop idle and check_queue() not registered, no waiting connection could
\* be given a slot, no unwanted one waits, and the timer will look at the kept
\* sockets.
THEOREM NoWorkForgotten ==
    ASSUME QuitUris = {}
    PROVE  Spec => []NoMissedWork
<1>1. Inv /\ Owners /\ WorkDone /\ [Next]_vars => WorkDone'
  BY StepWork
<1>2. WorkDone => NoMissedWork
  BY DEF WorkDone, NoMissedWork
<1> QED
  BY <1>1, <1>2, InitWork, InvHolds, OwnersHold, PTL DEF Spec
=============================================================================
