------------------------------ MODULE MainProofs ------------------------------
(***************************************************************************)
(* What the two models of src/src/main promise.                            *)
(*                                                                         *)
(* EventLoop: no time is lost, for any timers, descriptors and delays: the *)
(* list of timers stays in order, and the next check_timers() leaves none  *)
(* a longer interval than is left of its delay.                            *)
(*                                                                         *)
(* Interlink: Interlinked and OneRing, for any number of processes and any *)
(* numbers of attempts, when processes start one after the other.          *)
(***************************************************************************)
EXTENDS EventLoop, Interlink, FiniteSetTheorems, SequenceTheorems, WellFoundedInduction, TLAPS

-----------------------------------------------------------------------------
(* Numbers and sequences.                                                  *)

\* A set of numbers has a least one.
LEMMA Least ==
    ASSUME NEW T \in SUBSET Nat, T # {}
    PROVE  \E n \in T : \A m \in T : n <= m
<1> DEFINE R == OpToRel(<, Nat)
<1>1. IsWellFoundedOn(R, Nat)
  BY NatLessThanWellFounded
<1>2. \A x, y \in Nat : x < y => <<x, y>> \in R
  BY DEF OpToRel
<1> HIDE DEF R
<1>3. PICK n \in T : \A m \in T : ~(<<m, n>> \in R)
  BY <1>1, WFMin
<1>4. ASSUME NEW m \in T PROVE n <= m
  <2>1. m \in Nat /\ n \in Nat /\ ~(m < n)
    BY <1>2, <1>3
  <2> QED
    BY <2>1
<1> QED
  BY <1>4

\* The sequence InsertAt() makes, entry by entry.
LEMMA InsertAtEntries ==
    ASSUME NEW S, NEW q \in Seq(S), NEW c \in S, NEW k \in 1 .. (Len(q) + 1)
    PROVE  /\ InsertAt(q, k, c) \in Seq(S)
           /\ DOMAIN InsertAt(q, k, c) = 1 .. (Len(q) + 1)
           /\ \A i \in 1 .. (Len(q) + 1) :
                InsertAt(q, k, c)[i] = IF i < k THEN q[i] ELSE IF i = k THEN c ELSE q[i - 1]
<1> DEFINE r == InsertAt(q, k, c)
           At(i) == IF i < k THEN q[i] ELSE IF i = k THEN c ELSE q[i - 1]
           A == SubSeq(q, 1, k - 1)
           B == SubSeq(q, k, Len(q))
<1>1. /\ A \in Seq(S) /\ Len(A) = k - 1
      /\ \A i \in 1 .. (k - 1) : A[i] = q[i]
  OBVIOUS
<1>2. /\ B \in Seq(S) /\ Len(B) = Len(q) - k + 1
      /\ \A i \in 1 .. (Len(q) - k + 1) : B[i] = q[k + i - 1]
  OBVIOUS
<1>3. /\ A \o <<c>> \in Seq(S) /\ Len(A \o <<c>>) = k
      /\ \A i \in 1 .. k : (A \o <<c>>)[i] = IF i < k THEN q[i] ELSE c
  <2> DEFINE M == <<c>>
             AM == A \o M
  <2>1. M \in Seq(S) /\ Len(M) = 1 /\ M[1] = c
    OBVIOUS
  <2>2. k \in Nat
    OBVIOUS
  <2> HIDE DEF A, M
  <2>3. /\ AM \in Seq(S) /\ Len(AM) = Len(A) + Len(M)
        /\ \A i \in 1 .. Len(A) + Len(M) : AM[i] =
             IF i <= Len(A) THEN A[i] ELSE M[i - Len(A)]
    BY <1>1, <2>1, ConcatProperties
  <2> HIDE DEF AM
  <2>4. AM \in Seq(S) /\ Len(AM) = k
    BY <1>1, <2>1, <2>2, <2>3
  <2>5. ASSUME NEW i \in 1 .. k
        PROVE  AM[i] = IF i < k THEN q[i] ELSE c
    <3>1. i \in 1 .. Len(A) + Len(M) /\ i \in Nat
      BY <1>1, <2>1, <2>2
    <3>2. AM[i] = IF i <= Len(A) THEN A[i] ELSE M[i - Len(A)]
      BY <2>3, <3>1
    <3>3. CASE i < k
      BY <1>1, <2>2, <3>1, <3>2, <3>3
    <3>4. CASE i = k
      <4>1. ~(i <= Len(A)) /\ i - Len(A) = 1
        BY <1>1, <2>2, <3>4
      <4> QED
        BY <2>1, <2>2, <3>2, <3>4, <4>1
    <3> QED
      BY <2>2, <3>1, <3>3, <3>4
  <2> QED
    BY <2>4, <2>5 DEF AM, M
<1>4. r \in Seq(S) /\ Len(r) = Len(q) + 1
  <2> DEFINE AM == A \o <<c>>
  <2>1. r = AM \o B
    BY DEF InsertAt
  <2>2. AM \in Seq(S) /\ Len(AM) = k
    BY <1>3
  <2> HIDE DEF AM, B, r
  <2>3. r \in Seq(S) /\ Len(r) = Len(AM) + Len(B)
    BY <2>1, <2>2, <1>2, ConcatProperties
  <2>4. k \in Nat /\ Len(q) \in Nat
    OBVIOUS
  <2> QED
    BY <2>2, <2>3, <2>4, <1>2
<1>5. \A i \in 1 .. (Len(q) + 1) : r[i] = At(i)
  <2> SUFFICES ASSUME NEW i \in 1 .. (Len(q) + 1)
               PROVE  r[i] = At(i)
    OBVIOUS
  <2> DEFINE AM == A \o <<c>>
  <2>1. r = AM \o B
    BY DEF InsertAt
  <2>2. /\ AM \in Seq(S) /\ Len(AM) = k
        /\ \A j \in 1 .. k : AM[j] = IF j < k THEN q[j] ELSE c
    BY <1>3
  <2>3. i \in Nat /\ k \in Nat /\ Len(q) \in Nat /\ i >= 1 /\ k >= 1
    OBVIOUS
  <2> HIDE DEF AM, A, B
  <2>4. \A j \in 1 .. Len(AM) + Len(B) :
          (AM \o B)[j] = IF j <= Len(AM) THEN AM[j] ELSE B[j - Len(AM)]
    BY <1>2, <2>2, ConcatProperties
  <2>5. i \in 1 .. Len(AM) + Len(B)
    BY <1>2, <2>2, <2>3
  <2>6. r[i] = IF i <= k THEN AM[i] ELSE B[i - k]
    BY <2>1, <2>2, <2>4, <2>5, Zenon
  <2>7. i <= k => AM[i] = IF i < k THEN q[i] ELSE c
    BY <2>2, <2>3
  <2>8. i > k => B[i - k] = q[i - 1]
    <3>1. i > k => i - k \in 1 .. (Len(q) - k + 1) /\ k + (i - k) - 1 = i - 1
      BY <2>3
    <3> QED
      BY <1>2, <3>1
  <2> QED
    BY <2>3, <2>6, <2>7, <2>8
<1>6. DOMAIN r = 1 .. (Len(q) + 1)
  BY <1>4
<1> QED
  BY <1>4, <1>5, <1>6

\* The sequence RemoveAt() makes, entry by entry.
LEMMA RemoveAtEntries ==
    ASSUME NEW S, NEW q \in Seq(S), NEW k \in DOMAIN q
    PROVE  /\ RemoveAt(q, k) \in Seq(S)
           /\ DOMAIN RemoveAt(q, k) = 1 .. (Len(q) - 1)
           /\ \A i \in 1 .. (Len(q) - 1) :
                RemoveAt(q, k)[i] = IF i < k THEN q[i] ELSE q[i + 1]
<1> DEFINE A == SubSeq(q, 1, k - 1)
           B == SubSeq(q, k + 1, Len(q))
<1>1. /\ A \in Seq(S) /\ Len(A) = k - 1
      /\ \A i \in 1 .. (k - 1) : A[i] = q[i]
  OBVIOUS
<1>2. /\ B \in Seq(S) /\ Len(B) = Len(q) - k
      /\ \A i \in 1 .. (Len(q) - k) : B[i] = q[k + i]
  OBVIOUS
<1>3. RemoveAt(q, k) = A \o B
  BY DEF RemoveAt
<1>4. k \in Nat /\ k >= 1 /\ Len(q) \in Nat /\ k <= Len(q)
  OBVIOUS
<1> HIDE DEF A, B
<1>5. /\ A \o B \in Seq(S) /\ Len(A \o B) = Len(A) + Len(B)
      /\ \A i \in 1 .. Len(A) + Len(B) : (A \o B)[i] =
           IF i <= Len(A) THEN A[i] ELSE B[i - Len(A)]
  BY <1>1, <1>2, ConcatProperties
<1>6. DOMAIN (A \o B) = 1 .. (Len(q) - 1)
  BY <1>1, <1>2, <1>4, <1>5
<1>7. ASSUME NEW i \in 1 .. (Len(q) - 1)
      PROVE  (A \o B)[i] = IF i < k THEN q[i] ELSE q[i + 1]
  <2>1. (A \o B)[i] = IF i <= Len(A) THEN A[i] ELSE B[i - Len(A)]
    <3>1. i \in 1 .. Len(A) + Len(B)
      BY <1>1, <1>2, <1>4
    <3> QED
      BY <1>5, <3>1, Zenon
  <2>2. CASE i < k
    BY <1>1, <1>4, <2>1, <2>2
  <2>3. CASE ~(i < k)
    <3>1. i - Len(A) \in 1 .. (Len(q) - k) /\ k + (i - Len(A)) = i + 1 /\ ~(i <= Len(A))
      BY <1>1, <1>4, <2>3
    <3> QED
      BY <1>2, <2>1, <2>3, <3>1
  <2> QED
    BY <2>2, <2>3
<1> QED
  BY <1>3, <1>5, <1>6, <1>7, Zenon

-----------------------------------------------------------------------------
(* The list of timers.                                                     *)

TimerRecord == [id : Timers, left : 0 .. MaxDelay]

\* check_timers() may stop at the first that has not expired.
InOrder(ts) == \A i, j \in DOMAIN ts : i < j => ts[i].left <= ts[j].left

\* A variable of type timer_id_T holds one timer.
Unique(ts) == \A i, j \in DOMAIN ts : ts[i].id = ts[j].id => i = j

\* The next check_timers() leaves no timer a longer interval than is left of
\* its delay.
Timely(ts, rs, sn) == \A i \in DOMAIN ts : ts[i].left <= rs[ts[i].id] + sn

\* Where install_timer() stops: all before it are shorter, it is not.
LEMMA ShorterPrefix ==
    ASSUME NEW ts \in Seq(TimerRecord), NEW d \in Delays
    PROVE  \E k \in 1 .. (Len(ts) + 1) :
             /\ k = Cardinality({i \in DOMAIN ts : \A j \in 1 .. i : ts[j].left < d}) + 1
             /\ \A j \in 1 .. (k - 1) : ts[j].left < d
             /\ k <= Len(ts) => ts[k].left >= d
<1> DEFINE Shorter == {i \in DOMAIN ts : \A j \in 1 .. i : ts[j].left < d}
           Not == {i \in 1 .. (Len(ts) + 1) : i \notin Shorter}
<1>1. DOMAIN ts = 1 .. Len(ts) /\ Len(ts) \in Nat
  OBVIOUS
<1>2. Not \in SUBSET Nat /\ Not # {}
  <2>1. Len(ts) + 1 \in Not
    BY <1>1
  <2> QED
    BY <2>1
<1>3. PICK k \in Not : \A m \in Not : k <= m
  BY <1>2, Least
<1>4. k \in 1 .. (Len(ts) + 1) /\ k \in Nat /\ k - 1 \in Nat
  BY <1>1
<1>5. Shorter = 1 .. (k - 1)
  <2>1. ASSUME NEW i \in 1 .. (k - 1)
        PROVE  i \in Shorter
    <3>1. i \in 1 .. (Len(ts) + 1) /\ ~(k <= i)
      BY <1>1, <1>4
    <3> QED
      BY <1>3, <3>1
  <2>2. ASSUME NEW i \in Shorter, i >= k
        PROVE  FALSE
    <3>1. k \in DOMAIN ts /\ \A j \in 1 .. k : j \in 1 .. i
      BY <1>1, <1>4, <2>2
    <3>2. k \in Shorter
      BY <2>2, <3>1
    <3> QED
      BY <3>2
  <2>3. \A i \in Shorter : i \in Nat /\ i >= 1
    BY <1>1
  <2> HIDE DEF Shorter
  <2> QED
    <3>1. \A i \in Shorter : i \in 1 .. (k - 1)
      BY <1>4, <2>2, <2>3
    <3>2. \A i \in 1 .. (k - 1) : i \in Shorter
      BY <2>1
    <3> QED
      BY <3>1, <3>2, Zenon
<1>6. Cardinality(Shorter) = k - 1
  <2>1. Cardinality(1 .. (k - 1)) = k - 1
    BY <1>4, FS_Interval
  <2> QED
    BY <1>5, <2>1
<1>7. \A j \in 1 .. (k - 1) : ts[j].left < d
  <2> SUFFICES ASSUME NEW j \in 1 .. (k - 1)
               PROVE  ts[j].left < d
    OBVIOUS
  <2>1. j \in Shorter /\ j \in 1 .. j
    BY <1>4, <1>5
  <2> QED
    BY <2>1
<1>8. ASSUME k <= Len(ts)
      PROVE  ts[k].left >= d
  <2>1. k \in DOMAIN ts /\ k \notin Shorter
    BY <1>1, <1>4, <1>8
  <2>2. PICK j \in 1 .. k : ~(ts[j].left < d)
    BY <2>1
  <2>3. j = k
    BY <1>4, <1>7, <2>2
  <2>4. ts[k] \in TimerRecord
    BY <2>1
  <2>5. ts[k].left \in Nat /\ d \in Nat
    BY <2>4, DelayAssumption DEF TimerRecord, Delays
  <2> QED
    BY <2>2, <2>3, <2>5
<1>9. k = Cardinality(Shorter) + 1
  BY <1>4, <1>6
<1> HIDE DEF Not
<1> QED
  BY <1>4, <1>7, <1>8, <1>9

\* install_timer() of a timer that is not in the list.
LEMMA InsertedKeeps ==
    ASSUME NEW ts \in Seq(TimerRecord), NEW t \in Timers, NEW d \in Delays,
           NEW rs \in [Timers -> 0 .. MaxDelay], NEW sn \in 0 .. MaxDelay,
           InOrder(ts), Unique(ts), Timely(ts, rs, sn),
           \A i \in DOMAIN ts : ts[i].id # t
    PROVE  LET us == Inserted(ts, t, d) IN
           /\ us \in Seq(TimerRecord)
           /\ InOrder(us) /\ Unique(us) /\ Timely(us, [rs EXCEPT ![t] = d], sn)
<1> DEFINE x == [id |-> t, left |-> d]
           us == Inserted(ts, t, d)
           n == Len(ts)
<1>1. x \in TimerRecord /\ x.id = t /\ x.left = d /\ d \in Nat
  BY DelayAssumption DEF TimerRecord, Delays
<1>2. DOMAIN ts = 1 .. n /\ n \in Nat
  OBVIOUS
<1>3. ASSUME NEW i \in 1 .. n
      PROVE  ts[i].left \in Nat /\ ts[i].id \in Timers
  <2>1. ts[i] \in TimerRecord
    BY <1>2
  <2> QED
    BY <2>1, DelayAssumption DEF TimerRecord
<1>4. PICK k \in 1 .. (n + 1) :
        /\ us = InsertAt(ts, k, x)
        /\ \A j \in 1 .. (k - 1) : ts[j].left < d
        /\ k <= n => ts[k].left >= d
  BY ShorterPrefix DEF Inserted
<1> HIDE DEF x, us
<1>5. /\ us \in Seq(TimerRecord)
      /\ DOMAIN us = 1 .. (n + 1)
  BY <1>1, <1>4, InsertAtEntries
<1>6. \A i \in 1 .. (n + 1) : us[i] = IF i < k THEN ts[i] ELSE IF i = k THEN x ELSE ts[i - 1]
  <2>1. \A i \in 1 .. (n + 1) :
          InsertAt(ts, k, x)[i] = IF i < k THEN ts[i] ELSE IF i = k THEN x ELSE ts[i - 1]
    BY <1>1, InsertAtEntries
  <2> QED
    BY <1>4, <2>1
<1>7. ASSUME NEW i \in 1 .. (n + 1)
      PROVE  \/ i < k /\ i \in 1 .. n /\ us[i] = ts[i]
             \/ i = k /\ us[i] = x
             \/ i > k /\ i - 1 \in 1 .. n /\ us[i] = ts[i - 1]
  BY <1>2, <1>6
<1>8. \A i, j \in 1 .. n : i < j => ts[i].left <= ts[j].left
  BY <1>2 DEF InOrder
<1>9. \A i \in 1 .. n : i >= k => ts[i].left >= d
  <2> SUFFICES ASSUME NEW i \in 1 .. n, i >= k
               PROVE  ts[i].left >= d
    OBVIOUS
  <2>1. k <= n /\ k \in 1 .. n /\ ts[k].left >= d
    BY <1>2, <1>4
  <2>2. ts[k].left <= ts[i].left
    <3>1. k = i \/ k < i
      BY <1>2, <2>1
    <3>2. ts[i].left \in Nat
      BY <1>3
    <3> QED
      BY <1>8, <2>1, <3>1, <3>2
  <2> QED
    BY <1>1, <1>3, <2>1, <2>2
<1>10. InOrder(us)
  <2> SUFFICES ASSUME NEW i \in 1 .. (n + 1), NEW j \in 1 .. (n + 1), i < j
               PROVE  us[i].left <= us[j].left
    BY <1>5 DEF InOrder
  <2>1. CASE i < k /\ j < k
    BY <1>2, <1>7, <1>8, <2>1
  <2>2. CASE i < k /\ j = k
    <3>1. ts[i].left < d /\ ts[i].left \in Nat
      BY <1>2, <1>3, <1>4, <2>2
    <3> QED
      BY <1>1, <1>6, <2>2, <3>1
  <2>3. CASE i < k /\ j > k
    BY <1>2, <1>7, <1>8, <2>3
  <2>4. CASE i = k
    <3>1. j - 1 \in 1 .. n /\ us[j] = ts[j - 1] /\ j - 1 >= k
      BY <1>2, <1>7, <2>4
    <3> QED
      BY <1>1, <1>3, <1>6, <1>9, <2>4, <3>1
  <2>5. CASE i > k
    <3>1. i - 1 \in 1 .. n /\ j - 1 \in 1 .. n /\ us[i] = ts[i - 1] /\ us[j] = ts[j - 1]
      BY <1>2, <1>7, <2>5
    <3> QED
      BY <1>2, <1>8, <3>1
  <2> QED
    BY <2>1, <2>2, <2>3, <2>4, <2>5
<1>11. Unique(us)
  <2> SUFFICES ASSUME NEW i \in 1 .. (n + 1), NEW j \in 1 .. (n + 1), us[i].id = us[j].id
               PROVE  i = j
    BY <1>5 DEF Unique
  <2>1. \A a, b \in 1 .. n : ts[a].id = ts[b].id => a = b
    BY <1>2 DEF Unique
  <2>2. \A a \in 1 .. n : ts[a].id # t
    BY <1>2
  <2>3. ASSUME NEW a \in 1 .. (n + 1)
        PROVE  (a = k /\ us[a].id = t) \/
               \E b \in 1 .. n : us[a].id = ts[b].id /\ (IF a < k THEN b = a ELSE a > k /\ b = a - 1)
    <3>1. CASE a < k
      BY <1>7, <3>1
    <3>2. CASE a = k
      BY <1>1, <1>6, <3>2
    <3>3. CASE a > k
      <4>1. a - 1 \in 1 .. n /\ us[a] = ts[a - 1] /\ ~(a < k)
        BY <1>2, <1>7, <3>3
      <4> QED
        BY <3>3, <4>1
    <3> QED
      BY <1>2, <3>1, <3>2, <3>3
  <2>4. CASE us[i].id = t
    BY <2>2, <2>3, <2>4
  <2>5. CASE us[i].id # t
    <3>1. PICK a \in 1 .. n : us[i].id = ts[a].id /\ (IF i < k THEN a = i ELSE i > k /\ a = i - 1)
      BY <2>3, <2>5
    <3>2. PICK b \in 1 .. n : us[j].id = ts[b].id /\ (IF j < k THEN b = j ELSE j > k /\ b = j - 1)
      BY <2>3, <2>5
    <3>3. a = b
      BY <2>1, <3>1, <3>2
    <3> QED
      BY <1>2, <3>1, <3>2, <3>3
  <2> QED
    BY <2>4, <2>5
<1>12. Timely(us, [rs EXCEPT ![t] = d], sn)
  <2> SUFFICES ASSUME NEW i \in 1 .. (n + 1)
               PROVE  us[i].left <= [rs EXCEPT ![t] = d][us[i].id] + sn
    BY <1>5 DEF Timely
  <2>1. CASE i = k
    <3>1. us[i].id = t /\ us[i].left = d
      BY <1>1, <1>6, <2>1
    <3>2. [rs EXCEPT ![t] = d][t] = d
      OBVIOUS
    <3> QED
      BY <1>1, <3>1, <3>2, DelayAssumption
  <2>2. CASE i # k
    <3>1. PICK a \in 1 .. n : us[i] = ts[a]
      BY <1>2, <1>7, <2>2
    <3>2. ts[a].id # t /\ ts[a].id \in Timers /\ ts[a].left <= rs[ts[a].id] + sn
      BY <1>2, <1>3 DEF Timely
    <3>3. [rs EXCEPT ![t] = d][ts[a].id] = rs[ts[a].id]
      BY <3>2
    <3> QED
      BY <3>1, <3>2, <3>3
  <2> QED
    BY <2>1, <2>2
<1> QED
  BY <1>5, <1>10, <1>11, <1>12 DEF us

\* A timer goes; the others stay as they are.
LEMMA FewerKeeps ==
    ASSUME NEW ts \in Seq(TimerRecord), NEW rs, NEW sn, NEW k \in DOMAIN ts,
           InOrder(ts), Unique(ts), Timely(ts, rs, sn),
           NEW us \in Seq(TimerRecord), DOMAIN us = 1 .. (Len(ts) - 1),
           \A i \in 1 .. (Len(ts) - 1) : us[i] = IF i < k THEN ts[i] ELSE ts[i + 1]
    PROVE  InOrder(us) /\ Unique(us) /\ Timely(us, rs, sn)
<1> DEFINE n == Len(ts)
           s(i) == IF i < k THEN i ELSE i + 1
<1>1. DOMAIN ts = 1 .. n /\ n \in Nat /\ k \in 1 .. n
  OBVIOUS
<1>2. \A i \in 1 .. (n - 1) : s(i) \in 1 .. n /\ s(i) # k /\ us[i] = ts[s(i)]
  BY <1>1
<1>3. \A i, j \in 1 .. (n - 1) : (i < j => s(i) < s(j)) /\ (s(i) = s(j) => i = j)
  BY <1>1
<1> HIDE DEF s
<1>4. InOrder(us)
  BY <1>1, <1>2, <1>3 DEF InOrder
<1>5. Unique(us)
  BY <1>1, <1>2, <1>3 DEF Unique
<1>6. Timely(us, rs, sn)
  BY <1>1, <1>2 DEF Timely
<1> QED
  BY <1>4, <1>5, <1>6

\* check_timers() cuts all of them, entry by entry ...
LEMMA CutEntries ==
    ASSUME NEW ts \in Seq(TimerRecord), NEW sn \in 0 .. MaxDelay
    PROVE  LET us == [i \in DOMAIN ts |-> [ts[i] EXCEPT !.left = Minus(@, sn)]] IN
           /\ us \in Seq(TimerRecord) /\ DOMAIN us = DOMAIN ts
           /\ \A i \in DOMAIN ts :
                /\ us[i].id = ts[i].id
                /\ us[i].left = IF ts[i].left <= sn THEN 0 ELSE ts[i].left - sn
<1> DEFINE us == [i \in DOMAIN ts |-> [ts[i] EXCEPT !.left = Minus(@, sn)]]
<1>1. DOMAIN ts = 1 .. Len(ts) /\ Len(ts) \in Nat /\ DOMAIN us = DOMAIN ts
  OBVIOUS
<1>2. sn \in Nat /\ MaxDelay \in Nat
  BY DelayAssumption
<1>3. ASSUME NEW i \in DOMAIN ts
      PROVE  us[i] \in TimerRecord /\ us[i].id = ts[i].id /\ us[i].left = Minus(ts[i].left, sn)
  <2>1. ts[i] \in TimerRecord
    OBVIOUS
  <2>2. us[i] = [ts[i] EXCEPT !.left = Minus(ts[i].left, sn)]
    OBVIOUS
  <2>3. ts[i].left \in 0 .. MaxDelay
    BY <2>1 DEF TimerRecord
  <2>4. Minus(ts[i].left, sn) \in 0 .. MaxDelay
    BY <1>2, <2>3 DEF Minus
  <2> HIDE DEF us
  <2> QED
    BY <2>1, <2>2, <2>4 DEF TimerRecord
<1>4. us = [i \in 1 .. Len(ts) |-> us[i]]
  BY <1>1
<1> HIDE DEF us
<1>5. us \in Seq(TimerRecord)
  BY <1>1, <1>3, <1>4
<1> QED
  BY <1>1, <1>3, <1>5 DEF Minus, us

\* ... and the shorter stay the shorter.
LEMMA CutKeeps ==
    ASSUME NEW ts \in Seq(TimerRecord), NEW rs \in [Timers -> 0 .. MaxDelay],
           NEW sn \in 0 .. MaxDelay, NEW us \in Seq(TimerRecord), DOMAIN us = DOMAIN ts,
           \A i \in DOMAIN ts :
             /\ us[i].id = ts[i].id
             /\ us[i].left = IF ts[i].left <= sn THEN 0 ELSE ts[i].left - sn,
           InOrder(ts), Unique(ts), Timely(ts, rs, sn)
    PROVE  InOrder(us) /\ Unique(us) /\ Timely(us, rs, 0)
<1>1. sn \in Nat
  BY DelayAssumption
<1>2. ASSUME NEW i \in DOMAIN ts
      PROVE  ts[i].left \in Nat /\ ts[i].id \in Timers /\ rs[ts[i].id] \in Nat
  <2>1. ts[i] \in TimerRecord
    OBVIOUS
  <2>2. ts[i].left \in Nat /\ ts[i].id \in Timers
    BY <2>1, DelayAssumption DEF TimerRecord
  <2>3. rs[ts[i].id] \in 0 .. MaxDelay
    BY <2>2
  <2> QED
    BY <2>2, <2>3, DelayAssumption
<1>3. InOrder(us)
  <2> SUFFICES ASSUME NEW i \in DOMAIN ts, NEW j \in DOMAIN ts, i < j
               PROVE  us[i].left <= us[j].left
    BY DEF InOrder
  <2>1. ts[i].left <= ts[j].left
    BY DEF InOrder
  <2> QED
    BY <1>1, <1>2, <2>1
<1>4. Unique(us)
  BY DEF Unique
<1>5. Timely(us, rs, 0)
  <2> SUFFICES ASSUME NEW i \in DOMAIN ts
               PROVE  us[i].left <= rs[us[i].id] + 0
    BY DEF Timely
  <2>1. ts[i].left <= rs[ts[i].id] + sn
    BY DEF Timely
  <2> QED
    BY <1>1, <1>2, <2>1
<1> QED
  BY <1>3, <1>4, <1>5

-----------------------------------------------------------------------------
(* The inductive invariant.                                                *)

TimersTyped ==
    /\ timers \in Seq(TimerRecord)
    /\ rest \in [Timers -> 0 .. MaxDelay]
    /\ since \in 0 .. MaxDelay

LoopTyped ==
    /\ halves \in Seq(Works)
    /\ watched \subseteq Fds /\ polled \subseteq Fds /\ ready \subseteq Fds
    /\ sleep \in 0 .. Forever
    /\ pc \in {"top", "check", "timers", "halves", "select", "blocked", "fds"}
    /\ then \in {"select", "fds"}
    /\ back \in {"top", "check", "timers", "fds"}

\* One timer for each variable is what the code of the others relies on: the
\* delay of a timer that is installed again is not that of an older one.
TimersKept ==
    /\ TimersTyped
    /\ InOrder(timers) /\ Unique(timers) /\ Timely(timers, rest, since)

IInv == LoopTyped /\ TimersKept

LEMMA IInvMeans == IInv => NeverLate
BY DEF IInv, LoopTyped, TimersKept, TimersTyped, TimerRecord, InOrder, Timely, NeverLate, TypeOK

LEMMA SameTimers == TimersKept /\ UNCHANGED timing => TimersKept'
BY DEF TimersKept, TimersTyped, InOrder, Unique, Timely, timing

LEMMA Bounds == Delays \subseteq 0 .. MaxDelay /\ MaxDelay \in Nat /\ Forever \in Nat
BY DelayAssumption DEF Delays, Forever

\* What a timer sequence keeps it keeps of the variables.
LEMMA NewTimers ==
    ASSUME NEW us \in Seq(TimerRecord), NEW rs \in [Timers -> 0 .. MaxDelay],
           NEW sn \in 0 .. MaxDelay, InOrder(us), Unique(us), Timely(us, rs, sn),
           timers' = us, rest' = rs, since' = sn
    PROVE  TimersKept'
BY DEF TimersKept, TimersTyped, InOrder, Unique, Timely

LEMMA InstallKeeps ==
    ASSUME TimersKept, NEW t \in Timers, NEW d \in Delays, Install(t, d)
    PROVE  TimersKept'
<1>1. /\ timers \in Seq(TimerRecord) /\ rest \in [Timers -> 0 .. MaxDelay] /\ since \in 0 .. MaxDelay
      /\ InOrder(timers) /\ Unique(timers) /\ Timely(timers, rest, since)
  BY DEF TimersKept, TimersTyped
<1>2. \A i \in DOMAIN timers : timers[i].id # t
  BY DEF Install, Installed
<1> DEFINE us == Inserted(timers, t, d)
           rs == [rest EXCEPT ![t] = d]
<1>3. us \in Seq(TimerRecord) /\ InOrder(us) /\ Unique(us) /\ Timely(us, rs, since)
  BY <1>1, <1>2, InsertedKeeps
<1>4. rs \in [Timers -> 0 .. MaxDelay]
  BY <1>1, Bounds
<1>5. timers' = us /\ rest' = rs /\ since' = since
  BY DEF Install
<1> HIDE DEF us, rs
<1> QED
  BY <1>1, <1>3, <1>4, <1>5, NewTimers

LEMMA KillKeeps ==
    ASSUME TimersKept, NEW t \in Timers, Kill(t)
    PROVE  TimersKept'
<1>1. /\ timers \in Seq(TimerRecord) /\ rest \in [Timers -> 0 .. MaxDelay] /\ since \in 0 .. MaxDelay
      /\ InOrder(timers) /\ Unique(timers) /\ Timely(timers, rest, since)
  BY DEF TimersKept, TimersTyped
<1>2. PICK k \in DOMAIN timers : timers' = RemoveAt(timers, k)
  BY DEF Kill
<1> DEFINE us == RemoveAt(timers, k)
<1>3. us \in Seq(TimerRecord) /\ DOMAIN us = 1 .. (Len(timers) - 1)
  BY <1>1, RemoveAtEntries
<1>4. \A i \in 1 .. (Len(timers) - 1) : us[i] = IF i < k THEN timers[i] ELSE timers[i + 1]
  BY <1>1, RemoveAtEntries
<1>5. timers' = us /\ rest' = rest /\ since' = since
  BY <1>2 DEF Kill
<1> HIDE DEF us
<1>6. InOrder(us) /\ Unique(us) /\ Timely(us, rest, since)
  BY <1>1, <1>3, <1>4, FewerKeeps
<1> QED
  BY <1>1, <1>3, <1>5, <1>6, NewTimers

\* The timer that is called is out of the list, and back if it is periodic.
LEMMA RunTimerKeeps ==
    ASSUME TimersKept, NEW t \in Timers, RunTimer(t)
    PROVE  TimersKept'
<1>1. /\ timers \in Seq(TimerRecord) /\ rest \in [Timers -> 0 .. MaxDelay] /\ since \in 0 .. MaxDelay
      /\ InOrder(timers) /\ Unique(timers) /\ Timely(timers, rest, since)
  BY DEF TimersKept, TimersTyped
<1>2. timers # <<>> /\ timers[1].id = t /\ since' = since
  BY DEF RunTimer, Expired
<1> DEFINE ts == Tail(timers)
<1>3. /\ ts \in Seq(TimerRecord) /\ DOMAIN ts = 1 .. (Len(timers) - 1)
      /\ \A i \in 1 .. (Len(timers) - 1) : ts[i] = timers[i + 1]
      /\ 1 \in DOMAIN timers
  BY <1>1, <1>2
<1>4. PICK d \in Delays : \/ timers' = Inserted(ts, t, d) /\ rest' = [rest EXCEPT ![t] = d]
                          \/ timers' = ts /\ rest' = rest
  <2>1. Delays # {}
    BY DelayAssumption DEF Delays
  <2> QED
    BY <2>1 DEF RunTimer
<1> HIDE DEF ts
<1>5. /\ InOrder(ts) /\ Unique(ts) /\ Timely(ts, rest, since)
      /\ \A i \in DOMAIN ts : ts[i].id # t
  <2>1. PICK k \in DOMAIN timers : k = 1
    BY <1>3
  <2>2. \A i \in 1 .. (Len(timers) - 1) : ts[i] = IF i < k THEN timers[i] ELSE timers[i + 1]
    BY <1>3, <2>1
  <2>3. ts \in Seq(TimerRecord) /\ DOMAIN ts = 1 .. (Len(timers) - 1)
    BY <1>3
  <2>4. /\ InOrder(ts) /\ Unique(ts) /\ Timely(ts, rest, since)
        /\ \A i \in 1 .. (Len(timers) - 1) : ts[i].id # timers[k].id
    <3>1. InOrder(ts) /\ Unique(ts) /\ Timely(ts, rest, since)
      BY <1>1, <2>2, <2>3, FewerKeeps
    <3>2. ASSUME NEW i \in 1 .. (Len(timers) - 1)
          PROVE  ts[i].id # timers[k].id
      <4>1. ts[i] = timers[i + 1] /\ i + 1 \in DOMAIN timers /\ i + 1 # 1
        BY <1>1, <1>3
      <4> QED
        BY <1>1, <2>1, <4>1 DEF Unique
    <3> QED
      BY <3>1, <3>2
  <2> QED
    BY <1>2, <2>1, <2>3, <2>4
<1>6. CASE timers' = ts /\ rest' = rest
  BY <1>1, <1>2, <1>3, <1>5, <1>6, NewTimers
<1>7. CASE timers' = Inserted(ts, t, d) /\ rest' = [rest EXCEPT ![t] = d]
  <2> DEFINE us == Inserted(ts, t, d)
             rs == [rest EXCEPT ![t] = d]
  <2>1. us \in Seq(TimerRecord) /\ InOrder(us) /\ Unique(us) /\ Timely(us, rs, since)
    BY <1>1, <1>3, <1>5, InsertedKeeps
  <2>2. rs \in [Timers -> 0 .. MaxDelay]
    BY <1>1, Bounds
  <2>3. timers' = us /\ rest' = rs /\ since' = since /\ since \in 0 .. MaxDelay
    BY <1>1, <1>2, <1>7
  <2> HIDE DEF us, rs
  <2> QED
    BY <2>1, <2>2, <2>3, NewTimers
<1> QED
  BY <1>4, <1>6, <1>7

LEMMA CheckTimersKeeps ==
    ASSUME TimersKept, CheckTimers
    PROVE  TimersKept'
<1>1. /\ timers \in Seq(TimerRecord) /\ rest \in [Timers -> 0 .. MaxDelay] /\ since \in 0 .. MaxDelay
      /\ InOrder(timers) /\ Unique(timers) /\ Timely(timers, rest, since)
  BY DEF TimersKept, TimersTyped
<1> DEFINE us == [i \in DOMAIN timers |-> [timers[i] EXCEPT !.left = Minus(@, since)]]
<1>2. timers' = us /\ rest' = rest /\ since' = 0
  BY DEF CheckTimers, Cut
<1>3. /\ us \in Seq(TimerRecord) /\ DOMAIN us = DOMAIN timers
      /\ \A i \in DOMAIN timers :
           /\ us[i].id = timers[i].id
           /\ us[i].left = IF timers[i].left <= since THEN 0 ELSE timers[i].left - since
  BY <1>1, CutEntries
<1> HIDE DEF us
<1>4. InOrder(us) /\ Unique(us) /\ Timely(us, rest, 0)
  BY <1>1, <1>3, CutKeeps
<1>5. 0 \in 0 .. MaxDelay
  BY Bounds
<1> QED
  BY <1>1, <1>2, <1>3, <1>4, <1>5, NewTimers

\* Time that passes is time since last_time as much as it is time that is over;
\* where it is not counted any more, every timer has expired.
LEMMA TickKeeps ==
    ASSUME TimersKept, Tick
    PROVE  TimersKept'
<1>1. /\ timers \in Seq(TimerRecord) /\ rest \in [Timers -> 0 .. MaxDelay] /\ since \in 0 .. MaxDelay
      /\ InOrder(timers) /\ Unique(timers) /\ Timely(timers, rest, since)
  BY DEF TimersKept, TimersTyped
<1>2. /\ since' = IF since + 1 <= MaxDelay THEN since + 1 ELSE MaxDelay
      /\ rest' = [t \in Timers |-> IF rest[t] <= 1 THEN 0 ELSE rest[t] - 1]
      /\ timers' = timers
  BY DEF Tick, AtMost, Minus
<1>3. MaxDelay \in Nat /\ since \in Nat /\ since <= MaxDelay /\ \A t \in Timers : rest[t] \in Nat /\ rest[t] <= MaxDelay
  BY <1>1, Bounds
<1>4. rest' \in [Timers -> 0 .. MaxDelay] /\ since' \in 0 .. MaxDelay
  BY <1>2, <1>3
<1>5. Timely(timers, rest', since')
  <2> SUFFICES ASSUME NEW i \in DOMAIN timers
               PROVE  timers[i].left <= rest'[timers[i].id] + since'
    BY DEF Timely
  <2>1. timers[i] \in TimerRecord
    BY <1>1
  <2>2. timers[i].left \in Nat /\ timers[i].left <= MaxDelay /\ timers[i].id \in Timers
    BY <1>3, <2>1 DEF TimerRecord
  <2>3. timers[i].left <= rest[timers[i].id] + since
    BY <1>1 DEF Timely
  <2>4. rest'[timers[i].id] = IF rest[timers[i].id] <= 1 THEN 0 ELSE rest[timers[i].id] - 1
    BY <1>2, <2>2
  <2> QED
    BY <1>2, <1>3, <2>2, <2>3, <2>4
<1> QED
  BY <1>1, <1>2, <1>4, <1>5, NewTimers

-----------------------------------------------------------------------------
(* The steps.                                                              *)

LEMMA InitKept == Init => IInv
<1> SUFFICES ASSUME Init
             PROVE  IInv
  OBVIOUS
<1>1. PICK s \in SetToSeqs(Periodic), d \in Delays :
        timers = [i \in DOMAIN s |-> [id |-> s[i], left |-> d]]
  BY DEF Init
<1> DEFINE n == Cardinality(Periodic)
<1>2. n \in Nat
  <2>1. IsFiniteSet(Periodic)
    BY TimersAssumption, FS_Subset
  <2> QED
    BY <2>1, FS_CardinalityType
<1> HIDE DEF n
<1>3. /\ s \in [1 .. n -> Periodic]
      /\ \A i, j \in 1 .. n : i # j => s[i] # s[j]
  BY DEF SetToSeqs, n
<1>4. DOMAIN timers = 1 .. n /\ \A i \in 1 .. n : timers[i] = [id |-> s[i], left |-> d]
  BY <1>1, <1>3
<1>5. ASSUME NEW i \in 1 .. n
      PROVE  /\ timers[i] \in TimerRecord /\ timers[i].id = s[i] /\ timers[i].left = d
             /\ d \in 0 .. MaxDelay
  <2>1. s[i] \in Timers /\ d \in 0 .. MaxDelay
    BY <1>3, Bounds, TimersAssumption
  <2> QED
    BY <1>4, <2>1 DEF TimerRecord
<1>6. timers \in Seq(TimerRecord)
  <2>1. timers = [i \in 1 .. n |-> timers[i]]
    BY <1>1, <1>4
  <2> QED
    BY <1>2, <1>5, <2>1
<1>7. since = MaxDelay /\ since \in 0 .. MaxDelay
  BY Bounds DEF Init
<1>8. rest \in [Timers -> 0 .. MaxDelay]
  <2>1. rest = [t \in Timers |-> IF t \in Periodic THEN timers[1].left ELSE 0]
    BY DEF Init
  <2>2. Periodic # {} => 1 \in 1 .. n
    <3>1. Periodic # {} => n # 0
      BY TimersAssumption, FS_Subset, FS_EmptySet DEF n
    <3> QED
      BY <1>2, <3>1
  <2>3. 0 \in 0 .. MaxDelay
    BY Bounds
  <2> QED
    BY <1>5, <2>1, <2>2, <2>3
<1>9. InOrder(timers)
  BY <1>4, <1>5, Bounds DEF InOrder
<1>10. Unique(timers)
  BY <1>3, <1>4, <1>5 DEF Unique
<1>11. Timely(timers, rest, since)
  <2> SUFFICES ASSUME NEW i \in 1 .. n
               PROVE  timers[i].left <= rest[timers[i].id] + since
    BY <1>4 DEF Timely
  <2>1. timers[i].id \in Timers
    BY <1>5 DEF TimerRecord
  <2>2. rest[timers[i].id] \in 0 .. MaxDelay
    BY <1>8, <2>1
  <2> QED
    BY <1>5, <1>7, <2>2, Bounds
<1>12. LoopTyped
  <2>1. halves \in Seq(Works)
    BY DEF Init
  <2>2. sleep \in 0 .. Forever
    BY Bounds DEF Init
  <2> QED
    BY <2>1, <2>2 DEF Init, LoopTyped
<1> QED
  BY <1>6, <1>7, <1>8, <1>9, <1>10, <1>11, <1>12 DEF IInv, TimersKept, TimersTyped

LEMMA StepKept ==
    ASSUME TimersKept, [Next]_vars
    PROVE  TimersKept'
<1>1. CASE UNCHANGED vars
  BY <1>1, SameTimers DEF vars, timing
<1>2. CASE Api
  <2>1. ASSUME NEW t \in Timers \ Periodic, Kill(t)
        PROVE  TimersKept'
    BY <2>1, KillKeeps
  <2>2. ASSUME NEW t \in Timers \ Periodic, NEW d \in Delays, Install(t, d)
        PROVE  TimersKept'
    BY <2>2, InstallKeeps
  <2>3. CASE RegisterAny \/ \E f \in Fds : Watch(f) \/ Unwatch(f)
    BY <2>3, SameTimers DEF RegisterAny, Register, Watch, Unwatch
  <2> QED
    BY <1>2, <2>1, <2>2, <2>3 DEF Api
<1>3. CASE \/ RunHalf \/ HalvesDone \/ TimersDone \/ CheckSignals \/ Select \/ TimedOut \/ Handle
           \/ FdsDone \/ Continue \/ Polled \/ Interrupted
  <2>1. UNCHANGED timing
    BY <1>3 DEF RunHalf, HalvesDone, TimersDone, CheckSignals, Select, TimedOut, Handle, FdsDone,
       Continue, Polled, Interrupted
  <2> QED
    BY <2>1, SameTimers
<1> QED
  BY <1>1, <1>2, <1>3, CheckTimersKeeps, RunTimerKeeps, TickKeeps DEF Next, Loop

LEMMA StepTyped ==
    ASSUME IInv, [Next]_vars
    PROVE  LoopTyped'
<1> USE DEF LoopTyped
<1>0. LoopTyped
  BY DEF IInv
<1>1. CASE UNCHANGED vars
  BY <1>0, <1>1 DEF vars
<1>2. CASE Api
  <2>1. ASSUME NEW w \in Works, Register(w)
        PROVE  LoopTyped'
    <3>1. Append(halves, w) \in Seq(Works)
      BY <1>0
    <3> QED
      BY <1>0, <2>1, <3>1 DEF Register, waiting, control
  <2>2. ASSUME NEW t \in Timers, Kill(t) \/ \E d \in Delays : Install(t, d)
        PROVE  LoopTyped'
    BY <1>0, <2>2 DEF Kill, Install, waiting, control
  <2>3. ASSUME NEW f \in Fds, Watch(f) \/ Unwatch(f)
        PROVE  LoopTyped'
    BY <1>0, <2>3 DEF Watch, Unwatch, StillPolled, waiting, control
  <2> QED
    BY <1>2, <2>1, <2>2, <2>3 DEF Api, RegisterAny
<1>3. CASE RunHalf
  <2>1. Tail(halves) \in Seq(Works)
    BY <1>0, <1>3 DEF RunHalf
  <2> QED
    BY <1>0, <1>3, <2>1 DEF RunHalf, waiting, control
<1>4. CASE HalvesDone \/ CheckTimers \/ TimersDone \/ CheckSignals \/ TimedOut \/ FdsDone
           \/ Continue \/ Interrupted
  BY <1>0, <1>4 DEF HalvesDone, CheckTimers, TimersDone, CheckSignals, TimedOut, FdsDone,
     Continue, Interrupted, CheckBottomHalves, waiting, control
<1>5. ASSUME NEW t \in Timers, RunTimer(t)
      PROVE  LoopTyped'
  BY <1>0, <1>5 DEF RunTimer, CheckBottomHalves, waiting
<1>6. CASE Select
  <2>1. Timeout \in 0 .. Forever
    <3>1. CASE timers = <<>>
      BY <3>1, Bounds DEF Timeout
    <3>2. CASE timers # <<>>
      <4>1. timers[1] \in TimerRecord
        BY <3>2 DEF IInv, TimersKept, TimersTyped
      <4>2. timers[1].left \in 0 .. MaxDelay
        BY <4>1 DEF TimerRecord
      <4> QED
        BY <3>2, <4>2, Bounds DEF Timeout, Forever
    <3> QED
      BY <3>1, <3>2
  <2> QED
    BY <1>0, <1>6, <2>1 DEF Select
<1>7. CASE Polled \/ Handle
  BY <1>0, <1>7 DEF Polled, Handle, CheckBottomHalves
<1>8. CASE Tick
  <2>1. sleep' \in 0 .. Forever
    BY <1>0, <1>8, Bounds DEF Tick, Minus
  <2> QED
    BY <1>0, <1>8, <2>1 DEF Tick, control
<1> QED
  BY <1>1, <1>2, <1>3, <1>4, <1>5, <1>6, <1>7, <1>8 DEF Next, Loop

LEMMA StepInv == IInv /\ [Next]_vars => IInv'
BY StepKept, StepTyped DEF IInv

\* The invariant holds whatever the loop is busy with.
THEOREM InvHolds == Spec => []IInv
BY InitKept, StepInv, PTL DEF Spec

\* No time is lost: the timers are in order, and the next check_timers() leaves
\* none a longer interval than its delay has left, whenever it was installed and
\* however long handlers, other timers and select() took.
THEOREM NoTimeLost == Spec => []NeverLate
BY InvHolds, IInvMeans, PTL

-----------------------------------------------------------------------------
(* The descriptors of a round.                                             *)

\* What is ready has been handled before select() is called again.
Rounds ==
    /\ ready \subseteq polled
    /\ ready # {} => then = "fds"
    /\ pc \in {"select", "blocked"} => then = "select"

LEMMA RoundsKept ==
    ASSUME LoopTyped, Rounds, [Next]_vars
    PROVE  Rounds'
<1> USE DEF Rounds
<1>1. CASE UNCHANGED vars
  BY <1>1 DEF vars
<1>2. CASE Api
  <2>1. ASSUME RegisterAny \/ (\E t \in Timers : Kill(t) \/ \E d \in Delays : Install(t, d))
                \/ (\E f \in Fds : Watch(f))
        PROVE  Rounds'
    BY <2>1 DEF RegisterAny, Register, Kill, Install, Watch, waiting, control
  <2>2. ASSUME NEW f \in Fds, Unwatch(f)
        PROVE  Rounds'
    <3>1. ready' = ready \ {f} /\ UNCHANGED <<pc, then>>
      BY <2>2 DEF Unwatch, control
    <3>2. CASE pc = "blocked"
      BY <2>2, <3>1, <3>2 DEF Unwatch, StillPolled
    <3>3. CASE pc # "blocked"
      BY <2>2, <3>1, <3>3 DEF Unwatch, StillPolled
    <3> QED
      BY <3>2, <3>3
  <2> QED
    BY <1>2, <2>1, <2>2 DEF Api
<1>3. CASE RunHalf \/ Tick
  BY <1>3 DEF RunHalf, Tick, waiting, control
<1>4. CASE HalvesDone \/ CheckTimers \/ TimersDone \/ CheckSignals \/ Continue
  BY <1>4 DEF HalvesDone, CheckTimers, TimersDone, CheckSignals, Continue, CheckBottomHalves,
     LoopTyped, waiting
<1>5. ASSUME NEW t \in Timers, RunTimer(t)
      PROVE  Rounds'
  BY <1>5 DEF RunTimer, CheckBottomHalves, waiting
<1>6. CASE Select
  <2>1. ready = {}
    BY <1>6 DEF Select
  <2> QED
    BY <1>6, <2>1 DEF Select
<1>7. CASE TimedOut \/ Polled \/ Interrupted \/ FdsDone
  BY <1>7 DEF TimedOut, Polled, Interrupted, FdsDone, waiting
<1>8. CASE Handle
  BY <1>8 DEF Handle, CheckBottomHalves
<1> QED
  BY <1>1, <1>2, <1>3, <1>4, <1>5, <1>6, <1>7, <1>8 DEF Next, Loop

\* A handler is called only for what was found since its descriptor has had
\* handlers, whatever handlers, timers and the other thread set and clear.
THEOREM RoundsCurrent == Spec => []HandlersCurrent
<1>1. Init => Rounds
  BY DEF Init, Rounds
<1>2. IInv /\ Rounds /\ [Next]_vars => Rounds'
  BY RoundsKept DEF IInv
<1>3. Rounds => HandlersCurrent
  BY DEF Rounds, HandlersCurrent
<1> QED
  BY <1>1, <1>2, <1>3, InvHolds, PTL DEF Spec

-----------------------------------------------------------------------------
(* The session ring.  The invariant: the one socket that is open is the    *)
(* one at the path, and whoever has failed to connect knows that there is  *)
(* none, for while it binds only it could make one.                        *)

OneStarts == \A p, q \in Procs : Starting(p) /\ Starting(q) => p = q

\* The file of an open socket is at the path.
SocketAtPath == \A p \in Procs : listen[p] # "none" => path = p

\* Who is about to bind has found that nobody listens.
NobodyListens == \A p, q \in Procs : at[p] = "bind" => listen[q] = "none"

\* A socket is between bind() and listen() only while its process starts.
BoundStarts == \A p \in Procs : (at[p] = "bound") <=> (listen[p] = "bound")

\* Where the directory can be written, who keeps state listens.
MasterListens == \A p \in Procs : ~denied /\ master[p] => listen[p] = "listening"

\* The last attempt finds the path free.
LastTry == \A p \in Procs :
    at[p] = "bind" /\ attempts[p] >= MaxBindTries /\ ~denied => path = None

OffIsGone == \A p \in Procs : at[p] = "off" => listen[p] = "none" /\ ~master[p]

\* Nobody has a socket where none can be made.
DeniedNone == \A p \in Procs : denied => listen[p] = "none"

\* The attempts of the loop that runs.
Counted == \A p \in Procs :
    /\ at[p] = "connect" => attempts[p] < MaxConnectTries
    /\ at[p] = "bind" => attempts[p] <= MaxBindTries

RingInv ==
    /\ InterlinkTypeOK /\ OneStarts /\ SocketAtPath /\ NobodyListens /\ BoundStarts
    /\ MasterListens /\ LastTry /\ OffIsGone /\ DeniedNone /\ Counted

-----------------------------------------------------------------------------
\* The invariant holds at first.
LEMMA InitRing == InitInterlink => RingInv
<1> SUFFICES ASSUME InitInterlink PROVE RingInv
  OBVIOUS
<1> USE InterlinkAssumption DEF InitInterlink
<1>1. InterlinkTypeOK
  BY DEF InterlinkTypeOK
<1>2. OneStarts /\ SocketAtPath /\ NobodyListens /\ BoundStarts
  BY DEF OneStarts, Starting, SocketAtPath, NobodyListens, BoundStarts
<1>3. MasterListens /\ LastTry /\ OffIsGone /\ DeniedNone /\ Counted
  BY DEF MasterListens, LastTry, OffIsGone, DeniedNone, Counted
<1> QED
  BY <1>1, <1>2, <1>3 DEF RingInv

\* Who opens a window is the only one that starts.
LEMMA OpenRing ==
    ASSUME RingInv, ~Overlap, NEW p \in Procs, Open(p)
    PROVE  RingInv'
<1> USE InterlinkAssumption DEF RingInv, Open
<1>1. InterlinkTypeOK'
  BY DEF InterlinkTypeOK
<1>2. OneStarts'
  BY DEF OneStarts, Starting
<1>3. SocketAtPath'
  BY DEF SocketAtPath
<1>4. NobodyListens'
  BY DEF NobodyListens
<1>5. BoundStarts'
  BY DEF BoundStarts
<1>6. MasterListens'
  BY DEF MasterListens
<1>7. LastTry'
  BY DEF LastTry
<1>8. OffIsGone'
  BY DEF OffIsGone
<1>9. Counted'
  BY DEF Counted, InterlinkTypeOK
<1>10. DeniedNone'
  BY DEF DeniedNone
<1> QED
  BY <1>1, <1>2, <1>3, <1>4, <1>5, <1>6, <1>7, <1>8, <1>9, <1>10

\* A connection changes no socket.
LEMMA ConnectRing ==
    ASSUME RingInv, ~Overlap, NEW p \in Procs, Connect(p)
    PROVE  RingInv'
<1> USE InterlinkAssumption DEF RingInv, Connect
<1>1. InterlinkTypeOK'
  BY DEF InterlinkTypeOK
<1>2. OneStarts'
  BY DEF OneStarts, Starting
<1>3. SocketAtPath'
  BY DEF SocketAtPath
<1>4. NobodyListens'
  BY DEF NobodyListens
<1>5. BoundStarts'
  BY DEF BoundStarts
<1>6. MasterListens'
  BY DEF MasterListens
<1>7. LastTry'
  BY DEF LastTry
<1>8. OffIsGone'
  BY DEF OffIsGone
<1>9. Counted'
  BY DEF Counted
<1>10. DeniedNone'
  BY DEF DeniedNone
<1> QED
  BY <1>1, <1>2, <1>3, <1>4, <1>5, <1>6, <1>7, <1>8, <1>9, <1>10

\* Who fails to connect finds no open socket: one that is bound only belongs to
\* a process that starts, and only this one does.
LEMMA ConnectFailsRing ==
    ASSUME RingInv, ~Overlap, NEW p \in Procs, ConnectFails(p)
    PROVE  RingInv'
<1> USE InterlinkAssumption DEF RingInv, ConnectFails
<1>a. at[p] = "connect" /\ p \in Procs
  OBVIOUS
<1>b. attempts' \in [Procs -> 0 .. MaxConnectTries + MaxBindTries]
  BY <1>a DEF InterlinkTypeOK
<1>c. at' \in [Procs -> {"off", "connect", "bind", "bound", "up"}]
  BY DEF InterlinkTypeOK
<1>1. InterlinkTypeOK'
  BY <1>b, <1>c DEF InterlinkTypeOK
<1>d. at' = at \/ at' = [at EXCEPT ![p] = "bind"]
  OBVIOUS
<1>2. OneStarts'
  BY <1>a, <1>d DEF InterlinkTypeOK, OneStarts, Starting
<1>3. SocketAtPath'
  BY DEF SocketAtPath
<1>4. NobodyListens'
  BY DEF NobodyListens, InterlinkTypeOK, OneStarts, Starting, SocketAtPath, BoundStarts
<1>5. BoundStarts'
  BY DEF BoundStarts, InterlinkTypeOK
<1>6. MasterListens'
  BY DEF MasterListens
<1>7. LastTry'
  BY DEF LastTry, InterlinkTypeOK
<1>8. OffIsGone'
  BY DEF OffIsGone, InterlinkTypeOK
<1>9. Counted'
  BY DEF Counted, InterlinkTypeOK
<1>10. DeniedNone'
  BY DEF DeniedNone
<1> QED
  BY <1>1, <1>2, <1>3, <1>4, <1>5, <1>6, <1>7, <1>8, <1>9, <1>10

\* A new socket takes the path, which no other one had.
LEMMA BindRing ==
    ASSUME RingInv, ~Overlap, NEW p \in Procs, Bind(p)
    PROVE  RingInv'
<1> USE InterlinkAssumption DEF RingInv, Bind, CanBind
<1>1. InterlinkTypeOK'
  BY DEF InterlinkTypeOK
<1>2. OneStarts'
  BY DEF OneStarts, Starting
<1>3. SocketAtPath'
  BY DEF SocketAtPath
<1>4. NobodyListens'
  BY DEF NobodyListens, InterlinkTypeOK, OneStarts, Starting
<1>5. BoundStarts'
  BY DEF BoundStarts, InterlinkTypeOK
<1>6. MasterListens'
  BY DEF MasterListens, NobodyListens
<1>7. LastTry'
  BY DEF LastTry, InterlinkTypeOK, OneStarts, Starting
<1>8. OffIsGone'
  BY DEF OffIsGone
<1>9. Counted'
  BY DEF Counted
<1>10. DeniedNone'
  BY DEF DeniedNone
<1> QED
  BY <1>1, <1>2, <1>3, <1>4, <1>5, <1>6, <1>7, <1>8, <1>9, <1>10

\* The file that is taken away is nobody's, and with a directory that can be
\* written the last attempt does not fail.
LEMMA BindFailsRing ==
    ASSUME RingInv, ~Overlap, NEW p \in Procs, BindFails(p)
    PROVE  RingInv'
<1> USE InterlinkAssumption DEF RingInv, BindFails, Alone, Unlinked, CanBind
<1>a. attempts[p] <= MaxBindTries /\ attempts'[p] = attempts[p] + 1
  BY DEF InterlinkTypeOK, Counted
<1>b. attempts' \in [Procs -> 0 .. MaxConnectTries + MaxBindTries]
  BY <1>a DEF InterlinkTypeOK
<1>c. path' \in {None, path} /\ path \in {None, Stale}
  BY DEF InterlinkTypeOK, NobodyListens
<1>f. at' = at \/ at' = [at EXCEPT ![p] = "up"]
  OBVIOUS
<1>d. /\ at' \in [Procs -> {"off", "connect", "bind", "bound", "up"}]
      /\ \A q \in Procs : at'[q] = at[q] \/ (q = p /\ at'[q] = "up")
  <2>1. at \in [Procs -> {"off", "connect", "bind", "bound", "up"}]
    BY DEF InterlinkTypeOK
  <2>2. CASE at' = at
    BY <2>1, <2>2
  <2>3. CASE at' = [at EXCEPT ![p] = "up"]
    BY <2>1, <2>3
  <2> QED
    BY <1>f, <2>2, <2>3
<1>e. /\ listen' \in [Procs -> {"none", "bound", "listening"}]
      /\ master' \in [Procs -> BOOLEAN]
  BY DEF InterlinkTypeOK
<1>1. InterlinkTypeOK'
  BY <1>b, <1>c, <1>d, <1>e DEF InterlinkTypeOK
<1>2. OneStarts'
  BY <1>d DEF OneStarts, Starting
<1>3. SocketAtPath'
  BY DEF SocketAtPath, InterlinkTypeOK, NobodyListens
<1>4. NobodyListens'
  BY DEF NobodyListens, InterlinkTypeOK
<1>5. BoundStarts'
  BY DEF BoundStarts, InterlinkTypeOK
<1>6. MasterListens'
  BY DEF MasterListens, InterlinkTypeOK, LastTry
<1>7. LastTry'
  BY DEF LastTry, InterlinkTypeOK
<1>8. OffIsGone'
  BY DEF OffIsGone, InterlinkTypeOK
<1>9. Counted'
  BY DEF Counted, InterlinkTypeOK
<1>10. DeniedNone'
  BY DEF DeniedNone, InterlinkTypeOK
<1> QED
  BY <1>1, <1>2, <1>3, <1>4, <1>5, <1>6, <1>7, <1>8, <1>9, <1>10

\* The socket that was bound becomes the one that listens.
LEMMA ListenRing ==
    ASSUME RingInv, ~Overlap, NEW p \in Procs, Listen(p)
    PROVE  RingInv'
<1> USE InterlinkAssumption DEF RingInv, Listen, Alone
<1>1. InterlinkTypeOK'
  BY DEF InterlinkTypeOK
<1>2. OneStarts'
  BY DEF OneStarts, Starting
<1>3. SocketAtPath'
  BY DEF SocketAtPath, BoundStarts
<1>4. NobodyListens'
  BY DEF NobodyListens, InterlinkTypeOK, OneStarts, Starting
<1>5. BoundStarts'
  BY DEF BoundStarts, InterlinkTypeOK
<1>6. MasterListens'
  BY DEF MasterListens, InterlinkTypeOK
<1>7. LastTry'
  BY DEF LastTry, InterlinkTypeOK
<1>8. OffIsGone'
  BY DEF OffIsGone, InterlinkTypeOK
<1>9. Counted'
  BY DEF Counted, InterlinkTypeOK
<1>10. DeniedNone'
  BY DEF DeniedNone, InterlinkTypeOK, BoundStarts
<1> QED
  BY <1>1, <1>2, <1>3, <1>4, <1>5, <1>6, <1>7, <1>8, <1>9, <1>10

\* Who quits with a socket has it at the path, so that nobody else's is unlinked.
LEMMA QuitRing ==
    ASSUME RingInv, ~Overlap, NEW p \in Procs, Quit(p)
    PROVE  RingInv'
<1> USE InterlinkAssumption DEF RingInv, Quit, Gone, Unlinked
<1>1. InterlinkTypeOK'
  BY DEF InterlinkTypeOK, SocketAtPath, DeniedNone
<1>2. OneStarts'
  BY DEF OneStarts, Starting
<1>3. SocketAtPath'
  BY DEF SocketAtPath, InterlinkTypeOK
<1>4. NobodyListens'
  BY DEF NobodyListens, InterlinkTypeOK
<1>5. BoundStarts'
  BY DEF BoundStarts, InterlinkTypeOK
<1>6. MasterListens'
  BY DEF MasterListens, InterlinkTypeOK
<1>7. LastTry'
  BY DEF LastTry, InterlinkTypeOK
<1>8. OffIsGone'
  BY DEF OffIsGone, InterlinkTypeOK
<1>9. Counted'
  BY DEF Counted, InterlinkTypeOK
<1>10. DeniedNone'
  BY DEF DeniedNone, InterlinkTypeOK
<1> QED
  BY <1>1, <1>2, <1>3, <1>4, <1>5, <1>6, <1>7, <1>8, <1>9, <1>10

\* Who is killed leaves at most its own file.
LEMMA KilledRing ==
    ASSUME RingInv, ~Overlap, NEW p \in Procs, Killed(p)
    PROVE  RingInv'
<1> USE InterlinkAssumption DEF RingInv, Killed, Gone, Unlinked
<1>1. InterlinkTypeOK'
  BY DEF InterlinkTypeOK
<1>2. OneStarts'
  BY DEF OneStarts, Starting
<1>3. SocketAtPath'
  BY DEF SocketAtPath, InterlinkTypeOK
<1>4. NobodyListens'
  BY DEF NobodyListens, InterlinkTypeOK
<1>5. BoundStarts'
  BY DEF BoundStarts, InterlinkTypeOK
<1>6. MasterListens'
  BY DEF MasterListens, InterlinkTypeOK
<1>7. LastTry'
  BY DEF LastTry, InterlinkTypeOK
<1>8. OffIsGone'
  BY DEF OffIsGone, InterlinkTypeOK
<1>9. Counted'
  BY DEF Counted, InterlinkTypeOK
<1>10. DeniedNone'
  BY DEF DeniedNone, InterlinkTypeOK
<1> QED
  BY <1>1, <1>2, <1>3, <1>4, <1>5, <1>6, <1>7, <1>8, <1>9, <1>10

\* Accepting a connection changes no socket and no state.
LEMMA AcceptRing ==
    ASSUME RingInv, NEW p \in Procs, NEW q \in Procs, Accept(q, p)
    PROVE  RingInv'
<1>1. InterlinkTypeOK'
  BY DEF RingInv, InterlinkTypeOK, Accept
<1>2. UNCHANGED <<at, attempts, master, listen, path, denied>>
  BY DEF Accept
<1> QED
  BY <1>1, <1>2 DEF RingInv, OneStarts, Starting, SocketAtPath, NobodyListens, BoundStarts,
                    MasterListens, LastTry, OffIsGone, DeniedNone, Counted

LEMMA StepRing ==
    ASSUME RingInv, ~Overlap, [NextInterlink]_interlinkVars
    PROVE  RingInv'
<1>1. CASE UNCHANGED interlinkVars
  BY <1>1 DEF RingInv, interlinkVars, InterlinkTypeOK, OneStarts, Starting, SocketAtPath, NobodyListens,
              BoundStarts, MasterListens, LastTry, OffIsGone, DeniedNone, Counted
<1>2. CASE NextInterlink
  <2>1. PICK p \in Procs : Open(p) \/ Step(p) \/ Quit(p) \/ Killed(p)
                            \/ \E q \in Procs : Accept(q, p)
    BY <1>2 DEF NextInterlink
  <2>2. CASE Step(p)
    BY <2>2, ConnectRing, ConnectFailsRing, BindRing, BindFailsRing, ListenRing DEF Step
  <2> QED
    BY <2>1, <2>2, OpenRing, QuitRing, KilledRing, AcceptRing
<1> QED
  BY <1>1, <1>2

-----------------------------------------------------------------------------
\* The invariant implies the properties.
LEMMA RingInterlinked == RingInv => Interlinked
BY DEF RingInv, MasterListens, SocketAtPath, Interlinked

LEMMA RingIsOne == RingInv => OneRing
BY DEF RingInv, MasterListens, SocketAtPath, OneRing

\* init_interlink(), done_interlink() and init_next() of processes that start
\* one after the other keep the invariant, for any numbers of processes and
\* attempts.
THEOREM RingInvHolds ==
    ASSUME ~Overlap
    PROVE  SpecInterlink => []RingInv
<1>1. RingInv /\ [NextInterlink]_interlinkVars => RingInv'
  BY StepRing
<1> QED
  BY InitRing, <1>1, PTL DEF SpecInterlink

\* Whoever keeps state is reached at the path: the next process that starts
\* joins it, whatever crashed or quit before.
THEOREM AlwaysInterlinked ==
    ASSUME ~Overlap
    PROVE  SpecInterlink => []Interlinked
BY RingInvHolds, RingInterlinked, PTL

\* There are never two processes with a state of their own, which both would
\* save to the files of the home directory.
THEOREM AlwaysOneRing ==
    ASSUME ~Overlap
    PROVE  SpecInterlink => []OneRing
BY RingInvHolds, RingIsOne, PTL

\* The variables of the ring keep their types.
THEOREM RingTyped ==
    ASSUME ~Overlap
    PROVE  SpecInterlink => []InterlinkTypeOK
<1>1. RingInv => InterlinkTypeOK
  BY DEF RingInv
<1> QED
  BY <1>1, RingInvHolds, PTL
=============================================================================
