--------------------------- MODULE CookiesProofs ---------------------------
(***************************************************************************)
(* Theorems about Cookies, proved for every number of cookies, servers and *)
(* domains: a server has one lock for each cookie that points to it, a     *)
(* list that is not marked as changed is what the file holds, and, unless  *)
(* the edit dialog changes domains, send_cookies() finds every cookie      *)
(* through the index.                                                      *)
(***************************************************************************)
EXTENDS Cookies, FiniteSetTheorems, FunctionTheorems, SequenceTheorems, TLAPS

-----------------------------------------------------------------------------
(* The inductive invariant.                                                *)

\* The cookies that point to server s.
Of(s) == {c \in InUse : val[c].server = s}

ValTyped == val \in [InUse -> Value]

\* A cookie is in one of the three places, and once.
ListsTyped ==
    /\ jar \subseteq Cookie /\ boxes \subseteq Cookie /\ queries \in Seq(Cookie)
    /\ \A i, j \in DOMAIN queries : queries[i] = queries[j] => i = j
    /\ jar \cap Range(queries) = {} /\ jar \cap boxes = {} /\ boxes \cap Range(queries) = {}

Counted == locks = [s \in Servers |-> Cardinality(Of(s))]

FileTyped == file \subseteq Value /\ IsFiniteSet(file)

DomainsTyped == domains \subseteq Domains

FlagsTyped ==
    /\ asked \in 0 .. MaxAsked
    /\ dirty \in BOOLEAN /\ half \in BOOLEAN /\ failed \in BOOLEAN
    /\ now \in 0 .. MaxTime /\ up \in BOOLEAN
    /\ faults \in 0 .. MaxFaults /\ ends \in 0 .. MaxEnds

ListInv == ValTyped /\ ListsTyped /\ Counted

IInv == ListInv /\ FileTyped /\ DomainsTyped /\ FlagsTyped /\ CleanMeansSaved

-----------------------------------------------------------------------------
(* Finite sets.                                                            *)

LEMMA UseFinite ==
    ASSUME ListsTyped
    PROVE  /\ InUse \in SUBSET Cookie /\ IsFiniteSet(InUse)
           /\ \A S \in SUBSET InUse : IsFiniteSet(S) /\ Cardinality(S) \in Nat
           /\ \A s : Of(s) \in SUBSET InUse
<1>1. Range(queries) \subseteq Cookie
  BY DEF ListsTyped, Range
<1>2. InUse \in SUBSET Cookie
  BY <1>1 DEF ListsTyped, InUse
<1>3. \A S \in SUBSET InUse : IsFiniteSet(S) /\ Cardinality(S) \in Nat
  BY <1>2, CookiesAssumption, FS_Subset, FS_CardinalityType
<1> QED
  BY <1>2, <1>3 DEF Of

\* The image of a finite set.
LEMMA ImageFinite ==
    ASSUME NEW S, IsFiniteSet(S), NEW f
    PROVE  IsFiniteSet({f[x] : x \in S})
<1> DEFINE T == {f[x] : x \in S}
           g == [x \in S |-> f[x]]
<1>1. g \in Surjection(S, T)
  BY DEF Surjection
<1> HIDE DEF g, T
<1> QED
  BY <1>1, FS_Surjection DEF T

\* A set that is not the larger one can be laid out in the other.
LEMMA Layout ==
    ASSUME NEW L, IsFiniteSet(L), NEW R, IsFiniteSet(R),
           Cardinality(L) <= Cardinality(R), NEW none, none \notin L
    PROVE  \E f \in [R -> L \cup {none}] :
               \A v \in L : \E c \in R : f[c] = v /\ \A d \in R \ {c} : f[d] # v
<1> DEFINE n == Cardinality(L)
           m == Cardinality(R)
<1>1. n \in Nat /\ m \in Nat /\ n <= m
  BY FS_CardinalityType
<1>2. PICK a : a \in Bijection(1 .. n, L)
  BY FS_CardinalityType DEF ExistsBijection
<1>3. PICK b : b \in Bijection(1 .. m, R)
  BY FS_CardinalityType DEF ExistsBijection
<1>4. /\ a \in [1 .. n -> L] /\ \A i, j \in 1 .. n : a[i] = a[j] => i = j
      /\ \A v \in L : \E i \in 1 .. n : a[i] = v
  BY <1>2 DEF Bijection, Injection, Surjection, IsInjective
<1>5. /\ b \in [1 .. m -> R] /\ \A i, j \in 1 .. m : b[i] = b[j] => i = j
  BY <1>3 DEF Bijection, Injection, Surjection, IsInjective
<1> HIDE DEF n, m
<1> DEFINE f == [c \in R |-> IF \E i \in 1 .. n : b[i] = c
                             THEN a[CHOOSE i \in 1 .. n : b[i] = c] ELSE none]
<1>6. \A i \in 1 .. n : i \in 1 .. m /\ b[i] \in R
  BY <1>1, <1>5
<1>7. ASSUME NEW i \in 1 .. n PROVE f[b[i]] = a[i]
  <2> DEFINE k == CHOOSE j \in 1 .. n : b[j] = b[i]
  <2>1. k \in 1 .. n /\ b[k] = b[i]
    OBVIOUS
  <2>2. k = i
    BY <1>5, <1>6, <2>1
  <2>3. f[b[i]] = a[k]
    BY <1>6
  <2> QED
    BY <2>2, <2>3
<1>8. ASSUME NEW c \in R, \A i \in 1 .. n : b[i] # c PROVE f[c] = none
  BY <1>8
<1>9. f \in [R -> L \cup {none}]
  <2> SUFFICES ASSUME NEW c \in R PROVE f[c] \in L \cup {none}
    OBVIOUS
  <2>1. CASE \E i \in 1 .. n : b[i] = c
    BY <1>4, <1>7, <2>1
  <2>2. CASE \A i \in 1 .. n : b[i] # c
    BY <1>8, <2>2
  <2> QED
    BY <2>1, <2>2
<1> HIDE DEF f
<1>10. ASSUME NEW v \in L
       PROVE  \E c \in R : f[c] = v /\ \A d \in R \ {c} : f[d] # v
  <2>1. PICK i \in 1 .. n : a[i] = v
    BY <1>4
  <2>2. b[i] \in R /\ f[b[i]] = v
    BY <1>6, <1>7, <2>1
  <2>3. ASSUME NEW d \in R \ {b[i]}, f[d] = v PROVE FALSE
    <3>1. PICK j \in 1 .. n : b[j] = d
      BY <1>8, <2>3
    <3>2. a[j] = v
      BY <1>7, <2>3, <3>1
    <3>3. j = i
      BY <1>4, <2>1, <3>2
    <3> QED
      BY <2>3, <3>1, <3>3
  <2> QED
    BY <2>2, <2>3
<1> QED
  BY <1>9, <1>10

-----------------------------------------------------------------------------
(* The queue of queries.                                                   *)

LEMMA Pushed ==
    ASSUME NEW q \in Seq(Cookie), \A i, j \in DOMAIN q : q[i] = q[j] => i = j,
           NEW e \in Cookie, e \notin Range(q)
    PROVE  /\ <<e>> \o q \in Seq(Cookie)
           /\ \A i, j \in DOMAIN (<<e>> \o q) : (<<e>> \o q)[i] = (<<e>> \o q)[j] => i = j
           /\ Range(<<e>> \o q) = Range(q) \cup {e}
<1> DEFINE one == <<e>>
           t == one \o q
           n == Len(q)
<1>1. n \in Nat /\ DOMAIN q = 1 .. n
  OBVIOUS
<1>2. one \in Seq(Cookie) /\ Len(one) = 1 /\ one[1] = e
  OBVIOUS
<1> HIDE DEF one
<1>3. /\ t \in Seq(Cookie) /\ Len(t) = Len(one) + Len(q)
      /\ \A k \in 1 .. Len(one) + Len(q) :
           t[k] = IF k <= Len(one) THEN one[k] ELSE q[k - Len(one)]
  BY <1>2, ConcatProperties
<1> HIDE DEF t
<1>4. DOMAIN t = 1 .. (n + 1)
  BY <1>1, <1>2, <1>3
<1>5. t[1] = e
  BY <1>1, <1>2, <1>3
<1>6. ASSUME NEW k \in 2 .. (n + 1) PROVE t[k] = q[k - 1] /\ k - 1 \in DOMAIN q
  <2>1. k \in 1 .. Len(one) + Len(q) /\ ~(k <= Len(one)) /\ k - Len(one) = k - 1
    BY <1>1, <1>2
  <2>2. k - 1 \in 1 .. n
    BY <1>1
  <2> QED
    BY <1>1, <1>3, <2>1, <2>2
<1>7. \A k \in DOMAIN q : q[k] # e
  BY DEF Range
<1>8. ASSUME NEW k \in DOMAIN t, NEW l \in DOMAIN t, t[k] = t[l]
      PROVE  k = l
  <2>1. /\ k \in Nat /\ l \in Nat
        /\ k = 1 \/ k \in 2 .. (n + 1)
        /\ l = 1 \/ l \in 2 .. (n + 1)
    BY <1>1, <1>4
  <2>2. CASE k = 1
    BY <1>5, <1>6, <1>7, <1>8, <2>1, <2>2
  <2>3. CASE l = 1
    BY <1>5, <1>6, <1>7, <1>8, <2>1, <2>3
  <2>4. CASE k # 1 /\ l # 1
    <3>1. q[k - 1] = q[l - 1] /\ k - 1 \in DOMAIN q /\ l - 1 \in DOMAIN q
      BY <1>6, <1>8, <2>1, <2>4
    <3>2. k - 1 = l - 1
      BY <3>1
    <3> QED
      BY <2>1, <3>2
  <2> QED
    BY <2>2, <2>3, <2>4
<1>9. Range(t) = Range(q) \cup {e}
  <2>1. ASSUME NEW k \in DOMAIN t PROVE t[k] \in Range(q) \cup {e}
    <3>1. k = 1 \/ k \in 2 .. (n + 1)
      BY <1>1, <1>4
    <3> QED
      BY <1>5, <1>6, <3>1 DEF Range
  <2>2. ASSUME NEW j \in DOMAIN q PROVE q[j] \in Range(t)
    <3>1. j + 1 \in 2 .. (n + 1) /\ (j + 1) - 1 = j /\ j + 1 \in DOMAIN t
      BY <1>1, <1>4
    <3>2. t[j + 1] = q[j]
      BY <1>6, <3>1
    <3> QED
      BY <3>1, <3>2 DEF Range
  <2>3. e \in Range(t)
    <3>1. 1 \in DOMAIN t
      BY <1>1, <1>4
    <3> QED
      BY <1>5, <3>1 DEF Range
  <2> QED
    BY <2>1, <2>2, <2>3 DEF Range
<1> QED
  BY <1>3, <1>8, <1>9 DEF t, one

LEMMA Popped ==
    ASSUME NEW q \in Seq(Cookie), \A i, j \in DOMAIN q : q[i] = q[j] => i = j, q # <<>>
    PROVE  /\ Tail(q) \in Seq(Cookie)
           /\ \A i, j \in DOMAIN Tail(q) : Tail(q)[i] = Tail(q)[j] => i = j
           /\ Head(q) \in Range(q)
           /\ Range(Tail(q)) = Range(q) \ {Head(q)}
<1> DEFINE n == Len(q)
           t == Tail(q)
<1>1. n \in Nat /\ n > 0 /\ DOMAIN q = 1 .. n /\ Head(q) = q[1]
  OBVIOUS
<1>2. /\ t \in Seq(Cookie) /\ DOMAIN t = 1 .. (n - 1)
      /\ \A i \in 1 .. (n - 1) : t[i] = q[i + 1]
  OBVIOUS
<1> HIDE DEF t, n
<1>3. \A i \in 1 .. (n - 1) : i + 1 \in DOMAIN q /\ i + 1 # 1
  BY <1>1
<1>4. ASSUME NEW i \in DOMAIN t, NEW j \in DOMAIN t, t[i] = t[j] PROVE i = j
  <2>1. i + 1 = j + 1
    BY <1>2, <1>3, <1>4
  <2> QED
    BY <1>1, <1>2, <2>1
<1>5. Head(q) \in Range(q)
  <2>1. 1 \in DOMAIN q
    BY <1>1
  <2> QED
    BY <1>1, <2>1 DEF Range
<1>6. Range(t) = Range(q) \ {Head(q)}
  <2>1. ASSUME NEW i \in DOMAIN t PROVE t[i] \in Range(q) \ {Head(q)}
    <3>1. t[i] = q[i + 1] /\ i + 1 \in DOMAIN q /\ i + 1 # 1 /\ 1 \in DOMAIN q
      BY <1>1, <1>2, <1>3
    <3>2. q[i + 1] # q[1]
      BY <3>1
    <3> QED
      BY <1>1, <3>1, <3>2 DEF Range
  <2>2. ASSUME NEW j \in DOMAIN q, q[j] # Head(q) PROVE q[j] \in Range(t)
    <3>1. j # 1
      BY <1>1, <2>2
    <3>2. j - 1 \in 1 .. (n - 1) /\ (j - 1) + 1 = j
      BY <1>1, <3>1
    <3>3. t[j - 1] = q[j]
      BY <1>2, <3>2
    <3> QED
      BY <1>2, <3>2, <3>3 DEF Range
  <2> QED
    BY <2>1, <2>2 DEF Range
<1> QED
  BY <1>2, <1>4, <1>5, <1>6 DEF t

-----------------------------------------------------------------------------
(* Locks and cookies.                                                      *)

LEMMA CountedNext ==
    Counted' <=> locks' = [s \in Servers |-> Cardinality({c \in InUse' : val'[c].server = s})]
BY DEF Counted, Of, InUse

LEMMA StoredIs == ASSUME NEW f, Stored(f) PROVE val' = [c \in InUse' |-> f[c]]
BY DEF Stored, Restrict, InUse

LEMMA UnlockedIs ==
    ASSUME NEW l, NEW cs, NEW s \in Servers
    PROVE  Unlocked(l, cs)[s] = l[s] - Cardinality({c \in cs : val[c].server = s})
BY DEF Unlocked

\* Cookies that go take their locks with them.
LEMMA Removing ==
    ASSUME ListInv, NEW cs \in SUBSET InUse, InUse' = InUse \ cs, Stored(val),
           locks' = Unlocked(locks, cs)
    PROVE  ValTyped' /\ Counted'
<1>1. ListsTyped /\ val \in [InUse -> Value]
      /\ locks = [s \in Servers |-> Cardinality(Of(s))]
  BY DEF ListInv, ValTyped, Counted
<1>2. val' = [c \in InUse' |-> val[c]]
  BY StoredIs
<1>3. val' \in [InUse' -> Value]
  BY <1>1, <1>2
<1>4. ASSUME NEW s \in Servers
      PROVE  locks'[s] = Cardinality({c \in InUse' : val'[c].server = s})
  <2> DEFINE gone == {c \in cs : val[c].server = s}
  <2>1. locks'[s] = Cardinality(Of(s)) - Cardinality(gone)
    BY <1>1 DEF Unlocked
  <2>2. {c \in InUse' : val'[c].server = s} = Of(s) \ gone
    BY <1>2 DEF Of
  <2>3. Of(s) \cap gone = gone
    BY DEF Of
  <2>4. IsFiniteSet(Of(s))
    BY <1>1, UseFinite
  <2> HIDE DEF gone
  <2>5. Cardinality(Of(s) \ gone) = Cardinality(Of(s)) - Cardinality(Of(s) \cap gone)
    BY <2>4, FS_Difference
  <2> QED
    BY <2>1, <2>2, <2>3, <2>5
<1>5. locks' = [s \in Servers |-> locks'[s]]
  BY DEF Unlocked
<1>6. Counted'
  BY <1>4, <1>5, CountedNext
<1> QED
  BY <1>3, <1>6 DEF ValTyped

\* A cookie that comes brings one.
LEMMA Joining ==
    ASSUME ListInv, NEW n \in Cookie \ InUse, NEW v \in Value, NEW cs \in SUBSET InUse,
           InUse' = (InUse \ cs) \cup {n}, Stored(With(n, v)),
           locks' = Unlocked(Locked(locks, v.server), cs)
    PROVE  ValTyped' /\ Counted'
<1>1. ListsTyped /\ val \in [InUse -> Value]
      /\ locks = [s \in Servers |-> Cardinality(Of(s))]
  BY DEF ListInv, ValTyped, Counted
<1>2. val' = [c \in InUse' |-> IF c = n THEN v ELSE val[c]]
  <2>1. val' = [c \in InUse' |-> With(n, v)[c]]
    BY StoredIs
  <2>2. \A c \in InUse' : With(n, v)[c] = IF c = n THEN v ELSE val[c]
    BY DEF With
  <2> QED
    BY <2>1, <2>2
<1>3. val' \in [InUse' -> Value]
  BY <1>1, <1>2
<1>4. v.server \in Servers
  BY DEF Value
<1>5. ASSUME NEW s \in Servers
      PROVE  locks'[s] = Cardinality({c \in InUse' : val'[c].server = s})
  <2> DEFINE gone == {c \in cs : val[c].server = s}
             left == Of(s) \ gone
  <2>1. locks'[s] = Locked(locks, v.server)[s] - Cardinality(gone)
    BY DEF Unlocked
  <2>2. {c \in InUse' : val'[c].server = s} = IF s = v.server THEN left \cup {n} ELSE left
    BY <1>2 DEF Of
  <2>3. Of(s) \cap gone = gone /\ n \notin left
    BY DEF Of
  <2>4. IsFiniteSet(Of(s)) /\ Cardinality(Of(s)) \in Nat
    BY <1>1, UseFinite
  <2>5. IsFiniteSet(left) /\ Cardinality(left) = Cardinality(Of(s)) - Cardinality(gone)
    <3> HIDE DEF gone
    <3> QED
      BY <2>3, <2>4, FS_Difference
  <2>6. Cardinality(gone) \in Nat
    <3>1. gone \in SUBSET InUse
      OBVIOUS
    <3> QED
      BY <1>1, <3>1, UseFinite
  <2> HIDE DEF gone, left
  <2>7. Cardinality(left \cup {n}) = Cardinality(left) + 1
    BY <2>3, <2>5, FS_AddElement
  <2>8. s = v.server => Locked(locks, v.server)[s] = Cardinality(Of(s)) + 1
    BY <1>1, <1>4 DEF Locked
  <2>9. s # v.server => Locked(locks, v.server)[s] = Cardinality(Of(s))
    BY <1>1, <1>4 DEF Locked
  <2>10. CASE s = v.server
    <3>1. locks'[s] = (Cardinality(Of(s)) + 1) - Cardinality(gone)
      BY <2>1, <2>8, <2>10, Zenon
    <3>2. {c \in InUse' : val'[c].server = s} = left \cup {n}
      BY <2>2, <2>10, Zenon
    <3>3. Cardinality(left \cup {n}) = Cardinality(Of(s)) - Cardinality(gone) + 1
      BY <2>5, <2>7
    <3>4. locks'[s] = Cardinality(left \cup {n})
      BY <2>4, <2>6, <3>1, <3>3
    <3> QED
      BY <3>2, <3>4, Zenon
  <2>11. CASE s # v.server
    BY <2>1, <2>9, <2>2, <2>4, <2>5, <2>6, <2>11
  <2> QED
    BY <2>10, <2>11
<1>6. locks' = [s \in Servers |-> locks'[s]]
  BY DEF Unlocked
<1>7. Counted'
  BY <1>5, <1>6, CountedNext
<1> QED
  BY <1>3, <1>7 DEF ValTyped

\* Nothing changes for the servers.
LEMMA Staying ==
    ASSUME ListInv, InUse' = InUse, val' = val, locks' = locks
    PROVE  ValTyped' /\ Counted'
BY CountedNext DEF ListInv, ValTyped, Counted, Of

\* What is left is in no list.
LEMMA Nothing ==
    ASSUME jar' = {}, queries' = <<>>, boxes' = {}, val' = <<>>,
           locks' = [s \in Servers |-> 0]
    PROVE  ListInv'
<1>1. Range(queries') = {}
  BY DEF Range
<1>2. InUse' = {}
  BY <1>1 DEF InUse
<1>3. ListsTyped'
  BY <1>1 DEF ListsTyped
<1>4. val' \in [InUse' -> Value]
  BY <1>2
<1>5. \A s : {c \in InUse' : val'[c].server = s} = {}
  BY <1>2
<1>6. Cardinality({}) = 0
  BY FS_EmptySet
<1>7. Counted'
  BY <1>5, <1>6, CountedNext
<1> QED
  BY <1>3, <1>4, <1>7 DEF ListInv, ValTyped

\* Nothing that is new is in use.
LEMMA NewIsFree ==
    ASSUME Free # {}
    PROVE  New \in Cookie \ InUse
BY DEF New, Free

LEMMA ReceivedTyped == Received \subseteq Value
BY DEF Received, Value, Names, Domains, Servers

\* Reading the kept lines of the file into free memory.
LEMMA Reading ==
    ASSUME ListInv, FileTyped, FlagsTyped, LoadCookies
    PROVE  /\ ListInv'
           /\ domains' = {v.domain : v \in {v \in file : Kept(v)}}
           /\ {val'[c] : c \in jar'} = {v \in file : Kept(v)}
<1> DEFINE lines == {v \in file : Kept(v)}
           room == Cookie \ boxes
           line == CHOOSE f \in [room -> lines \cup {NoLine}] : Reads(f, lines)
<1>1. ListsTyped /\ val \in [InUse -> Value]
      /\ file \subseteq Value /\ IsFiniteSet(file) /\ now \in Nat
  BY DEF ListInv, ValTyped, FileTyped, FlagsTyped
<1>2. /\ Cardinality(lines) <= Cardinality(room)
      /\ jar' = {c \in room : line[c] # NoLine}
      /\ val' = [c \in jar' \cup boxes |-> IF c \in boxes THEN val[c] ELSE line[c]]
      /\ locks' = [s \in Servers |-> Cardinality({c \in boxes : val[c].server = s})
                                     + Cardinality({v \in lines : v.server = s})]
      /\ queries' = <<>> /\ boxes' = boxes
  BY DEF LoadCookies
<1>3. IsFiniteSet(lines) /\ lines \subseteq Value
  BY <1>1, FS_Subset
<1>4. IsFiniteSet(room)
  BY CookiesAssumption, FS_Subset
<1>5. NoLine \notin lines
  <2>1. NoLine.expires = 0
    BY DEF NoLine
  <2>2. \A v \in lines : v.expires > now
    BY DEF Kept
  <2> QED
    BY <1>1, <2>1, <2>2
<1>6. \E f \in [room -> lines \cup {NoLine}] : Reads(f, lines)
  <2> HIDE DEF lines, room
  <2>1. PICK f \in [room -> lines \cup {NoLine}] :
            \A v \in lines : \E c \in room : f[c] = v /\ \A d \in room \ {c} : f[d] # v
    BY <1>2, <1>3, <1>4, <1>5, Layout
  <2> QED
    BY <2>1 DEF Reads
<1>7. line \in [room -> lines \cup {NoLine}] /\ Reads(line, lines)
  <2> HIDE DEF lines, room
  <2> QED
    BY <1>6
<1> HIDE DEF line, lines, room
<1>8. /\ \A c \in jar' : c \in room /\ line[c] \in lines
      /\ \A c, d \in jar' : line[c] = line[d] => c = d
      /\ \A v \in lines : \E c \in jar' : line[c] = v
  <2>1. \A c \in jar' : c \in room /\ line[c] \in lines
    BY <1>2, <1>7
  <2>2. \A v \in lines : \E c \in room : line[c] = v /\ \A d \in room \ {c} : line[d] # v
    BY <1>7 DEF Reads
  <2>3. \A v \in lines : \E c \in jar' : line[c] = v
    BY <1>2, <1>5, <2>2
  <2>4. ASSUME NEW c \in jar', NEW d \in jar', line[c] = line[d] PROVE c = d
    <3>1. PICK b \in room : line[b] = line[c] /\ \A x \in room \ {b} : line[x] # line[c]
      BY <2>1, <2>2
    <3> QED
      BY <2>1, <2>4, <3>1
  <2> QED
    BY <2>1, <2>3, <2>4
<1>9. Range(queries') = {}
  BY <1>2 DEF Range
<1>10. InUse' = jar' \cup boxes /\ jar' \cap boxes = {}
  BY <1>2, <1>8, <1>9 DEF InUse, room
<1>11. ListsTyped'
  <2>1. queries' \in Seq(Cookie) /\ DOMAIN queries' = {}
    BY <1>2
  <2>2. jar' \subseteq Cookie
    BY <1>8 DEF room
  <2> QED
    BY <1>1, <1>2, <1>9, <1>10, <2>1, <2>2 DEF ListsTyped
<1>12. /\ \A c \in boxes : val'[c] = val[c] /\ val[c] \in Value
       /\ \A c \in jar' : val'[c] = line[c] /\ val'[c] \in Value
  <2>1. \A c \in boxes : c \in InUse
    BY DEF InUse
  <2> QED
    BY <1>1, <1>2, <1>3, <1>8, <1>10, <2>1
<1>13. val' \in [InUse' -> Value]
  BY <1>2, <1>10, <1>12
<1>14. ASSUME NEW s \in Servers
       PROVE  Cardinality({c \in InUse' : val'[c].server = s})
                = Cardinality({c \in boxes : val[c].server = s})
                  + Cardinality({v \in lines : v.server = s})
  <2> DEFINE held == {c \in boxes : val[c].server = s}
             fresh == {c \in jar' : line[c].server = s}
             read == {v \in lines : v.server = s}
             g == [c \in fresh |-> line[c]]
  <2>1. {c \in InUse' : val'[c].server = s} = held \cup fresh
    BY <1>10, <1>12
  <2>2. held \cap fresh = {}
    BY <1>10
  <2>3. held \in SUBSET Cookie /\ fresh \in SUBSET Cookie
    BY <1>1, <1>11 DEF ListsTyped
  <2>4. IsFiniteSet(held) /\ IsFiniteSet(fresh)
    BY <2>3, CookiesAssumption, FS_Subset
  <2>5. g \in Bijection(fresh, read)
    <3>1. g \in [fresh -> read]
      BY <1>8
    <3>2. \A c, d \in fresh : g[c] = g[d] => c = d
      BY <1>8
    <3>3. \A v \in read : \E c \in fresh : g[c] = v
      BY <1>8
    <3> HIDE DEF g, fresh, read
    <3> QED
      BY <3>1, <3>2, <3>3 DEF Bijection, Injection, Surjection, IsInjective
  <2> HIDE DEF g, fresh, read, held
  <2>6. Cardinality(read) = Cardinality(fresh)
    BY <2>4, <2>5, FS_Bijection DEF ExistsBijection
  <2>7. Cardinality(held \cup fresh) = Cardinality(held) + Cardinality(fresh)
    <3>1. Cardinality(held \cap fresh) = 0
      BY <2>2, FS_EmptySet
    <3>2. Cardinality(held \cup fresh)
            = Cardinality(held) + Cardinality(fresh) - Cardinality(held \cap fresh)
      BY <2>4, FS_Union
    <3>3. Cardinality(held) \in Nat /\ Cardinality(fresh) \in Nat
      BY <2>4, FS_CardinalityType
    <3> QED
      BY <3>1, <3>2, <3>3
  <2> QED
    BY <2>1, <2>6, <2>7 DEF held, read
<1>15. Counted'
  BY <1>2, <1>14, CountedNext
<1>16. ListInv'
  BY <1>11, <1>13, <1>15 DEF ListInv, ValTyped
<1>17. domains' = {v.domain : v \in lines}
  BY DEF LoadCookies, lines
<1>18. {val'[c] : c \in jar'} = lines
  BY <1>8, <1>12
<1> QED
  BY <1>16, <1>17, <1>18 DEF lines

-----------------------------------------------------------------------------
(* What the steps do to the lists.                                         *)

LEMMA TwinsListed == ASSUME NEW v PROVE Twins(v) \in SUBSET jar
BY DEF Twins

LEMMA SettingKeeps ==
    ASSUME IInv, SetCookie
    PROVE  ListInv' /\ DomainsTyped'
<1>1. PICK v \in Received :
          /\ Accept(New, v, Locked(locks, v.server))
          /\ UNCHANGED <<queries, asked, boxes>>
          /\ Stored(With(New, v))
  BY DEF SetCookie
<1>2. New \in Cookie \ InUse
  BY NewIsFree DEF SetCookie
<1>3. v \in Value /\ ListInv /\ ListsTyped /\ domains \subseteq Domains
  BY ReceivedTyped DEF IInv, ListInv, DomainsTyped
<1> DEFINE n == New
           cs == Twins(v)
<1>4. /\ locks' = Unlocked(Locked(locks, v.server), cs)
      /\ jar' = (jar \ cs) \cup {n} /\ queries' = queries /\ boxes' = boxes
      /\ domains' = domains \cup {v.domain}
  BY <1>1 DEF Accept
<1>5. cs \in SUBSET jar /\ jar \in SUBSET InUse
  BY TwinsListed DEF InUse
<1> HIDE DEF n, cs
<1>6. n \notin jar /\ n \notin boxes /\ n \notin Range(queries) /\ n \in Cookie
  BY <1>2 DEF InUse, n
<1>7. ListsTyped'
  BY <1>3, <1>4, <1>5, <1>6 DEF ListsTyped
<1>8. InUse' = (InUse \ cs) \cup {n}
  BY <1>3, <1>4, <1>5, <1>6 DEF ListsTyped, InUse
<1>9. ValTyped' /\ Counted'
  <2>1. Stored(With(n, v)) /\ n \in Cookie \ InUse
    BY <1>1, <1>2 DEF n
  <2> QED
    BY <1>3, <1>4, <1>5, <1>8, <2>1, Joining
<1>10. domains' \subseteq Domains
  BY <1>3, <1>4 DEF Value
<1> QED
  BY <1>7, <1>9, <1>10 DEF ListInv, DomainsTyped

LEMMA QueryingKeeps ==
    ASSUME IInv, QueryCookie
    PROVE  ListInv' /\ \A c \in jar : val'[c] = val[c]
<1>1. PICK v \in Received :
          /\ locks' = Locked(locks, v.server)
          /\ queries' = <<New>> \o queries
          /\ UNCHANGED <<jar, boxes>>
          /\ Stored(With(New, v))
  BY DEF QueryCookie
<1>2. New \in Cookie \ InUse
  BY NewIsFree DEF QueryCookie
<1>3. v \in Value /\ ListInv /\ ListsTyped
  BY ReceivedTyped DEF IInv, ListInv
<1> DEFINE n == New
<1>4. /\ n \in Cookie \ InUse /\ queries' = <<n>> \o queries /\ jar' = jar /\ boxes' = boxes
      /\ Stored(With(n, v)) /\ locks' = Locked(locks, v.server)
  BY <1>1, <1>2
<1> HIDE DEF n
<1>5. n \notin jar /\ n \notin boxes /\ n \notin Range(queries) /\ n \in Cookie
  BY <1>4 DEF InUse
<1>6. /\ queries' \in Seq(Cookie)
      /\ \A i, j \in DOMAIN queries' : queries'[i] = queries'[j] => i = j
      /\ Range(queries') = Range(queries) \cup {n}
  BY <1>3, <1>4, <1>5, Pushed DEF ListsTyped
<1>7. ListsTyped'
  BY <1>3, <1>4, <1>5, <1>6 DEF ListsTyped
<1>8. InUse' = (InUse \ {}) \cup {n}
  BY <1>4, <1>6 DEF InUse
<1>9. locks' = Unlocked(Locked(locks, v.server), {})
  <2> DEFINE l == Locked(locks, v.server)
  <2>1. \A s \in Servers : locks[s] \in Nat
    <3>1. \A s \in Servers : Cardinality(Of(s)) \in Nat
      BY <1>3, UseFinite
    <3> QED
      BY <1>3, <3>1 DEF ListInv, Counted
  <2>2. l = [s \in Servers |-> l[s]]
    BY <1>3 DEF ListInv, Counted, Locked
  <2>3. \A s \in Servers : l[s] \in Nat
    BY <1>3, <2>1 DEF ListInv, Counted, Locked
  <2>4. \A s : {c \in {} : val[c].server = s} = {}
    OBVIOUS
  <2>5. Cardinality({}) = 0
    BY FS_EmptySet
  <2> HIDE DEF l
  <2>6. Unlocked(l, {}) = [s \in Servers |-> l[s] - 0]
    BY <2>4, <2>5, Zenon DEF Unlocked
  <2>7. [s \in Servers |-> l[s] - 0] = [s \in Servers |-> l[s]]
    BY <2>3
  <2> QED
    BY <1>4, <2>2, <2>6, <2>7 DEF l
<1>10. ValTyped' /\ Counted'
  <2>1. {} \in SUBSET InUse
    OBVIOUS
  <2> QED
    BY <1>3, <1>4, <1>8, <1>9, <2>1, Joining
<1>11. ASSUME NEW c \in jar PROVE val'[c] = val[c]
  <2>1. c \in InUse /\ c \in InUse' /\ c # n
    BY <1>4, <1>5 DEF InUse
  <2>2. val'[c] = With(n, v)[c]
    BY <1>4, <2>1, StoredIs
  <2> QED
    BY <2>1, <2>2 DEF With
<1> QED
  BY <1>7, <1>10, <1>11 DEF ListInv

LEMMA AskingKeeps ==
    ASSUME IInv, AcceptCookieDialog
    PROVE  ListInv'
<1>1. ListInv /\ ListsTyped
  BY DEF IInv, ListInv
<1>2. UNCHANGED <<val, jar, locks>>
  BY DEF AcceptCookieDialog
<1>3. CASE UNCHANGED <<queries, boxes>>
  <2>1. InUse' = InUse
    BY <1>2, <1>3 DEF InUse
  <2>2. ListsTyped'
    BY <1>1, <1>2, <1>3 DEF ListsTyped
  <2> QED
    BY <1>1, <1>2, <2>1, <2>2, Staying DEF ListInv
<1>4. CASE /\ queries # <<>>
           /\ boxes' = boxes \cup {Head(queries)}
           /\ queries' = Tail(queries)
  <2>1. /\ queries' \in Seq(Cookie)
        /\ \A i, j \in DOMAIN queries' : queries'[i] = queries'[j] => i = j
        /\ Head(queries) \in Range(queries)
        /\ Range(queries') = Range(queries) \ {Head(queries)}
    BY <1>1, <1>4, Popped DEF ListsTyped
  <2> DEFINE h == Head(queries)
  <2>2. h \in Range(queries) /\ boxes' = boxes \cup {h} /\ Range(queries') = Range(queries) \ {h}
    BY <1>4, <2>1
  <2>3. h \in Cookie
    BY <1>1, <2>2 DEF ListsTyped, Range
  <2> HIDE DEF h
  <2>4. ListsTyped'
    BY <1>1, <1>2, <2>1, <2>2, <2>3 DEF ListsTyped
  <2>5. InUse' = InUse
    BY <1>2, <2>2 DEF InUse
  <2> QED
    BY <1>1, <1>2, <2>4, <2>5, Staying DEF ListInv
<1> QED
  BY <1>3, <1>4 DEF AcceptCookieDialog

LEMMA AcceptingKeeps ==
    ASSUME IInv, AcceptInBox
    PROVE  ListInv' /\ DomainsTyped'
<1>1. PICK c \in boxes : Accept(c, val[c], locks) /\ boxes' = boxes \ {c}
  BY DEF AcceptInBox
<1>2. /\ ListInv /\ ListsTyped /\ domains \subseteq Domains
      /\ queries' = queries /\ Stored(val)
  BY DEF AcceptInBox, IInv, ListInv, DomainsTyped
<1>3. c \in InUse /\ val[c] \in Value
  BY <1>2 DEF InUse, ListInv, ValTyped
<1> DEFINE cs == Twins(val[c])
<1>4. /\ locks' = Unlocked(locks, cs) /\ jar' = (jar \ cs) \cup {c}
      /\ domains' = domains \cup {val[c].domain}
  BY <1>1 DEF Accept
<1>5. cs \in SUBSET jar /\ jar \in SUBSET InUse
  BY TwinsListed DEF InUse
<1> HIDE DEF cs
<1>6. c \notin jar /\ c \notin Range(queries) /\ c \in Cookie
  BY <1>1, <1>2 DEF ListsTyped
<1>7. ListsTyped'
  BY <1>1, <1>2, <1>4, <1>5, <1>6 DEF ListsTyped
<1>8. InUse' = InUse \ cs
  BY <1>1, <1>2, <1>4, <1>5, <1>6 DEF ListsTyped, InUse
<1>9. ValTyped' /\ Counted'
  BY <1>2, <1>4, <1>5, <1>8, Removing
<1>10. domains' \subseteq Domains
  BY <1>2, <1>3, <1>4 DEF Value
<1> QED
  BY <1>7, <1>9, <1>10 DEF ListInv, DomainsTyped

LEMMA RejectingKeeps ==
    ASSUME IInv, RejectInBox
    PROVE  ListInv' /\ \A c \in jar : val'[c] = val[c]
<1>1. PICK c \in boxes : locks' = Unlocked(locks, {c}) /\ boxes' = boxes \ {c}
  BY DEF RejectInBox
<1>2. ListInv /\ ListsTyped /\ queries' = queries /\ jar' = jar /\ Stored(val)
  BY DEF RejectInBox, IInv, ListInv
<1>3. c \notin jar /\ c \notin Range(queries) /\ {c} \in SUBSET InUse
  BY <1>2 DEF ListsTyped, InUse
<1>4. ListsTyped'
  BY <1>1, <1>2 DEF ListsTyped
<1>5. InUse' = InUse \ {c}
  BY <1>1, <1>2, <1>3 DEF InUse
<1>6. ValTyped' /\ Counted'
  BY <1>1, <1>2, <1>3, <1>5, Removing
<1>7. ASSUME NEW d \in jar PROVE val'[d] = val[d]
  <2>1. d \in InUse'
    BY <1>2 DEF InUse
  <2> QED
    BY <1>2, <2>1, StoredIs
<1> QED
  BY <1>4, <1>6, <1>7 DEF ListInv

LEMMA DeletingKeeps ==
    ASSUME IInv, NEW cs \in SUBSET jar, Delete(cs), Stored(val), UNCHANGED <<queries, boxes>>
    PROVE  ListInv'
<1>1. /\ ListInv /\ ListsTyped /\ jar' = jar \ cs /\ locks' = Unlocked(locks, cs)
  BY DEF Delete, IInv, ListInv
<1>2. cs \in SUBSET InUse
  BY DEF InUse
<1>3. ListsTyped'
  BY <1>1 DEF ListsTyped
<1>4. InUse' = InUse \ cs
  BY <1>1 DEF ListsTyped, InUse
<1>5. ValTyped' /\ Counted'
  BY <1>1, <1>2, <1>4, Removing
<1> QED
  BY <1>3, <1>5 DEF ListInv

LEMMA EditingKeeps ==
    ASSUME IInv, EditCookie
    PROVE  ListInv'
<1>1. /\ ListInv /\ ListsTyped /\ val \in [InUse -> Value]
      /\ locks = [s \in Servers |-> Cardinality(Of(s))]
      /\ UNCHANGED <<jar, queries, boxes, locks>>
  BY DEF EditCookie, IInv, ListInv, ValTyped, Counted
<1>2. InUse' = InUse
  BY <1>1 DEF InUse
<1>3. ListsTyped'
  BY <1>1 DEF ListsTyped
<1>4. PICK c \in jar :
          \/ \E e \in Expires : val' = [val EXCEPT ![c].expires = e]
          \/ \E d \in Domains : val' = [val EXCEPT ![c].domain = d]
  BY DEF EditCookie
<1>5. c \in InUse
  BY DEF InUse
<1>6. val' \in [InUse -> Value] /\ \A d \in InUse : val'[d].server = val[d].server
  <2>1. ASSUME NEW e \in Expires, val' = [val EXCEPT ![c].expires = e]
        PROVE  val' \in [InUse -> Value] /\ \A d \in InUse : val'[d].server = val[d].server
    BY <1>1, <1>5, <2>1 DEF Value
  <2>2. ASSUME NEW d \in Domains, val' = [val EXCEPT ![c].domain = d]
        PROVE  val' \in [InUse -> Value] /\ \A b \in InUse : val'[b].server = val[b].server
    BY <1>1, <1>5, <2>2 DEF Value
  <2> QED
    BY <1>4, <2>1, <2>2
<1>7. ASSUME NEW s PROVE {d \in InUse' : val'[d].server = s} = Of(s)
  BY <1>2, <1>6 DEF Of
<1>8. Counted'
  BY <1>1, <1>7, CountedNext
<1> QED
  BY <1>2, <1>3, <1>6, <1>8 DEF ListInv, ValTyped

-----------------------------------------------------------------------------
(* What they do to the file and to cookies_dirty.                          *)

\* The cookies save_cookies() writes.
Written == {val[c] : c \in {c \in jar : Kept(val[c])}}

\* Nothing that CleanMeansSaved is about changes.
LEMMA CleanStays ==
    ASSUME CleanMeansSaved, UNCHANGED <<jar, file, dirty, up, now>>,
           \A c \in jar : val'[c] = val[c]
    PROVE  CleanMeansSaved'
BY DEF CleanMeansSaved, Kept

\* What save_cookies() leaves behind, be the list freed afterwards or not.
LEMMA SavedFile ==
    ASSUME IInv, Save
    PROVE  /\ FileTyped'
           /\ dirty' \in BOOLEAN /\ failed' \in BOOLEAN /\ faults' \in 0 .. MaxFaults
<1>1. /\ FileTyped /\ FlagsTyped /\ ListsTyped /\ val \in [InUse -> Value]
  BY DEF IInv, ListInv, ValTyped
<1>2. CASE file' = Written /\ dirty' = FALSE /\ failed' = FALSE /\ UNCHANGED faults
  <2> DEFINE kept == {c \in jar : Kept(val[c])}
  <2>1. kept \in SUBSET InUse
    BY DEF InUse
  <2>2. IsFiniteSet(kept)
    BY <1>1, <2>1, UseFinite
  <2>3. IsFiniteSet({val[c] : c \in kept})
    <3> HIDE DEF kept
    <3> QED
      BY <2>2, ImageFinite
  <2>4. Written = {val[c] : c \in kept} /\ Written \subseteq Value
    BY <1>1, <2>1 DEF Written
  <2>5. FileTyped'
    BY <1>2, <2>3, <2>4 DEF FileTyped
  <2> QED
    BY <1>1, <1>2, <2>5 DEF FlagsTyped
<1>3. CASE /\ faults < MaxFaults /\ faults' = faults + 1
           /\ failed' = TRUE /\ UNCHANGED <<file, dirty>>
  BY <1>1, <1>3, CookiesAssumption DEF FileTyped, FlagsTyped
<1> QED
  BY <1>2, <1>3 DEF Save, Written

LEMMA Saving ==
    ASSUME IInv, Save, UNCHANGED <<val, jar, now, up>>
    PROVE  CleanMeansSaved'
<1>1. CASE file' = Written /\ dirty' = FALSE
  <2>1. \A v \in file' : Kept(v)
    BY <1>1 DEF Written
  <2>2. {v \in file' : v.expires > now} = {val[c] : c \in {c \in jar : val[c].expires > now}}
    BY <1>1, <2>1 DEF Written, Kept
  <2> QED
    BY <2>2 DEF CleanMeansSaved, Kept
<1>2. CASE UNCHANGED <<file, dirty>>
  BY <1>2, CleanStays DEF IInv
<1> QED
  BY <1>1, <1>2 DEF Save, Written

\* A change that set_cookies_dirty() has marked.
LEMMA Marking ==
    ASSUME IInv, SetCookiesDirty, UNCHANGED <<file, faults, asked, now, up, ends>>
    PROVE  FileTyped' /\ FlagsTyped' /\ CleanMeansSaved'
BY DEF IInv, SetCookiesDirty, FileTyped, FlagsTyped, CleanMeansSaved

LEMMA Loading ==
    ASSUME IInv, LoadCookies, UNCHANGED <<asked, now, ends>>, up' \in BOOLEAN
    PROVE  IInv'
<1>1. ListInv /\ FileTyped /\ FlagsTyped
  BY DEF IInv
<1>2. /\ ListInv'
      /\ domains' = {v.domain : v \in {v \in file : Kept(v)}}
      /\ {val'[c] : c \in jar'} = {v \in file : Kept(v)}
  BY <1>1, Reading
<1>3. /\ file' = file /\ faults' = faults /\ dirty' = (file # {})
      /\ half' = (half \/ file # {}) /\ failed' = (failed /\ file = {})
  BY DEF LoadCookies
<1>4. FileTyped'
  BY <1>1, <1>3 DEF FileTyped
<1>5. DomainsTyped'
  BY <1>1, <1>2 DEF DomainsTyped, FileTyped, Value
<1>6. FlagsTyped'
  BY <1>1, <1>3 DEF FlagsTyped
<1>7. CleanMeansSaved'
  <2> SUFFICES ASSUME ~dirty'
               PROVE  {v \in file' : Kept(v)'} = {val'[c] : c \in {c \in jar' : Kept(val[c])'}}
    BY DEF CleanMeansSaved
  <2>1. file = {}
    BY <1>3
  <2>2. jar' = {}
    BY <1>2, <2>1
  <2> QED
    BY <1>3, <2>1, <2>2
<1> QED
  BY <1>2, <1>4, <1>5, <1>6, <1>7 DEF IInv

LEMMA Initially ==
    ASSUME Init
    PROVE  IInv
<1>1. /\ val = <<>> /\ jar = {} /\ queries = <<>> /\ boxes = {}
      /\ locks = [s \in Servers |-> 0] /\ domains = {} /\ file = {}
      /\ asked = 0 /\ dirty = FALSE /\ half = FALSE /\ failed = FALSE
      /\ now = 0 /\ up = TRUE /\ faults = 0 /\ ends = 0
  BY DEF Init
<1>2. Range(queries) = {}
  BY <1>1 DEF Range
<1>3. InUse = {}
  BY <1>1, <1>2 DEF InUse
<1>4. ListsTyped
  BY <1>1, <1>2 DEF ListsTyped
<1>5. ValTyped
  BY <1>1, <1>3 DEF ValTyped
<1>6. Counted
  <2>1. \A s : Of(s) = {}
    BY <1>3 DEF Of
  <2> QED
    BY <1>1, <2>1, FS_EmptySet DEF Counted
<1>7. FileTyped /\ DomainsTyped
  BY <1>1, FS_EmptySet DEF FileTyped, DomainsTyped
<1>8. FlagsTyped
  <2>1. MaxAsked \in Nat /\ MaxTime \in Nat /\ MaxFaults \in Nat /\ MaxEnds \in Nat
    BY CookiesAssumption
  <2>2. /\ asked \in 0 .. MaxAsked /\ now \in 0 .. MaxTime
        /\ faults \in 0 .. MaxFaults /\ ends \in 0 .. MaxEnds
    BY <1>1, <2>1
  <2>3. dirty \in BOOLEAN /\ half \in BOOLEAN /\ failed \in BOOLEAN /\ up \in BOOLEAN
    BY <1>1
  <2> QED
    BY <2>2, <2>3 DEF FlagsTyped
<1>9. CleanMeansSaved
  BY <1>1 DEF CleanMeansSaved
<1> QED
  BY <1>4, <1>5, <1>6, <1>7, <1>8, <1>9 DEF IInv, ListInv

-----------------------------------------------------------------------------
(* IInv is an inductive invariant.                                         *)

LEMMA StepKeeps ==
    ASSUME IInv, [Next]_vars
    PROVE  IInv'
<1>0. /\ ListInv /\ ListsTyped /\ FileTyped /\ DomainsTyped /\ FlagsTyped /\ CleanMeansSaved
      /\ jar \in SUBSET InUse
  BY DEF IInv, ListInv, InUse
<1>1. CASE SetCookie
  <2>1. SetCookiesDirty /\ UNCHANGED <<file, faults, asked, now, up, ends>>
    BY <1>1 DEF SetCookie, Accept
  <2> QED
    BY <1>1, <2>1, SettingKeeps, Marking DEF IInv
<1>2. CASE QueryCookie
  <2>1. /\ UNCHANGED <<domains, dirty, half, failed, file, faults, now, up, ends, jar>>
        /\ asked < MaxAsked /\ asked' = asked + 1
    BY <1>2 DEF QueryCookie, saveVars
  <2>2. ListInv' /\ \A c \in jar : val'[c] = val[c]
    BY <1>2, QueryingKeeps
  <2>3. CleanMeansSaved'
    BY <1>0, <2>1, <2>2, CleanStays
  <2>4. FlagsTyped'
    BY <1>0, <2>1, CookiesAssumption DEF FlagsTyped
  <2>5. FileTyped' /\ DomainsTyped'
    BY <1>0, <2>1 DEF FileTyped, DomainsTyped
  <2> QED
    BY <2>2, <2>3, <2>4, <2>5 DEF IInv
<1>3. CASE AcceptCookieDialog
  <2>1. /\ UNCHANGED <<domains, dirty, half, failed, file, faults, now, up, ends, jar, val>>
        /\ asked > 0 /\ asked' = asked - 1
    BY <1>3 DEF AcceptCookieDialog, saveVars
  <2>2. CleanMeansSaved'
    BY <1>0, <2>1, CleanStays
  <2>3. FlagsTyped'
    BY <1>0, <2>1, CookiesAssumption DEF FlagsTyped
  <2>4. FileTyped' /\ DomainsTyped'
    BY <1>0, <2>1 DEF FileTyped, DomainsTyped
  <2> QED
    BY <1>3, <2>2, <2>3, <2>4, AskingKeeps DEF IInv
<1>4. CASE AcceptInBox
  <2>1. SetCookiesDirty /\ UNCHANGED <<file, faults, asked, now, up, ends>>
    BY <1>4 DEF AcceptInBox, Accept
  <2> QED
    BY <1>4, <2>1, AcceptingKeeps, Marking DEF IInv
<1>5. CASE RejectInBox
  <2>1. UNCHANGED <<domains, dirty, half, failed, file, faults, now, up, ends, jar, asked>>
    BY <1>5 DEF RejectInBox, saveVars
  <2>2. ListInv' /\ \A c \in jar : val'[c] = val[c]
    BY <1>5, RejectingKeeps
  <2>3. CleanMeansSaved'
    BY <1>0, <2>1, <2>2, CleanStays
  <2>4. FlagsTyped' /\ FileTyped' /\ DomainsTyped'
    BY <1>0, <2>1 DEF FlagsTyped, FileTyped, DomainsTyped
  <2> QED
    BY <2>2, <2>3, <2>4 DEF IInv
<1>6. ASSUME NEW cs \in SUBSET jar, Delete(cs), Stored(val), SetCookiesDirty,
             UNCHANGED <<queries, asked, boxes, domains, file, faults, now, up, ends>>
      PROVE  IInv'
  <2>1. ListInv'
    BY <1>6, DeletingKeeps
  <2>2. FileTyped' /\ FlagsTyped' /\ CleanMeansSaved'
    BY <1>6, Marking
  <2>3. DomainsTyped'
    BY <1>0, <1>6 DEF DomainsTyped
  <2> QED
    BY <2>1, <2>2, <2>3 DEF IInv
<1>7. CASE SendCookies
  <2>1. PICK d \in domains : /\ Delete({c \in jar : val[c].domain = d /\ Expired(val[c])})
                             /\ SetCookiesDirty
    BY <1>7 DEF SendCookies
  <2> DEFINE cs == {c \in jar : val[c].domain = d /\ Expired(val[c])}
  <2>2. cs \in SUBSET jar /\ Delete(cs)
    BY <2>1
  <2> HIDE DEF cs
  <2>3. Stored(val) /\ UNCHANGED <<queries, asked, boxes, domains, file, faults, now, up, ends>>
    BY <1>7 DEF SendCookies
  <2> QED
    BY <1>6, <2>1, <2>2, <2>3
<1>8. CASE DeleteCookieItem
  <2>1. PICK cs \in SUBSET jar : Delete(cs)
    <3>1. CASE \E c \in jar : Delete({c})
      BY <3>1
    <3>2. CASE \E s \in Servers : LET cs == {c \in jar : val[c].server = s}
                                  IN  cs # {} /\ Delete(cs)
      <4>1. PICK s \in Servers : Delete({c \in jar : val[c].server = s})
        BY <3>2
      <4>2. {c \in jar : val[c].server = s} \in SUBSET jar
        OBVIOUS
      <4> QED
        BY <4>1, <4>2
    <3> QED
      BY <1>8, <3>1, <3>2 DEF DeleteCookieItem
  <2>2. /\ Stored(val) /\ SetCookiesDirty
        /\ UNCHANGED <<queries, asked, boxes, domains, file, faults, now, up, ends>>
    BY <1>8 DEF DeleteCookieItem
  <2> QED
    BY <1>6, <2>1, <2>2
<1>9. CASE EditCookie
  <2>1. SetCookiesDirty /\ UNCHANGED <<file, faults, asked, now, up, ends, domains>>
    BY <1>9 DEF EditCookie
  <2>2. DomainsTyped'
    BY <1>0, <2>1 DEF DomainsTyped
  <2> QED
    BY <1>9, <2>1, <2>2, EditingKeeps, Marking DEF IInv
<1>10. ASSUME UNCHANGED cookieVars
       PROVE  ListInv' /\ DomainsTyped' /\ asked' = asked /\ jar' = jar /\ val' = val
  <2>1. UNCHANGED <<val, jar, queries, asked, boxes, locks, domains>>
    BY <1>10 DEF cookieVars
  <2>2. InUse' = InUse
    BY <2>1 DEF InUse
  <2>3. ListsTyped'
    BY <1>0, <2>1 DEF ListsTyped
  <2>4. ValTyped' /\ Counted'
    BY <1>0, <2>1, <2>2, Staying
  <2>5. DomainsTyped'
    BY <1>0, <2>1 DEF DomainsTyped
  <2> QED
    BY <2>1, <2>3, <2>4, <2>5 DEF ListInv
<1>11. CASE PushSaveButton
  <2>1. Save /\ UNCHANGED cookieVars /\ UNCHANGED <<half, now, up, ends>>
    BY <1>11 DEF PushSaveButton
  <2>2. ListInv' /\ DomainsTyped' /\ asked' = asked /\ jar' = jar /\ val' = val
    BY <1>10, <2>1
  <2>3. /\ FileTyped' /\ CleanMeansSaved'
        /\ dirty' \in BOOLEAN /\ failed' \in BOOLEAN /\ faults' \in 0 .. MaxFaults
    BY <2>1, <2>2, Saving, SavedFile
  <2>4. FlagsTyped'
    BY <1>0, <2>1, <2>2, <2>3 DEF FlagsTyped
  <2> QED
    BY <2>2, <2>3, <2>4 DEF IInv
<1>12. CASE ResaveBottomHalf
  <2>1. /\ half' = FALSE /\ UNCHANGED cookieVars /\ UNCHANGED <<now, up, ends>>
        /\ Save \/ UNCHANGED <<dirty, failed, file, faults>>
    BY <1>12 DEF ResaveBottomHalf
  <2>2. ListInv' /\ DomainsTyped' /\ asked' = asked /\ jar' = jar /\ val' = val
    BY <1>10, <2>1
  <2>3. /\ FileTyped' /\ CleanMeansSaved'
        /\ dirty' \in BOOLEAN /\ failed' \in BOOLEAN /\ faults' \in 0 .. MaxFaults
    <3>1. CASE Save
      BY <2>1, <2>2, <3>1, Saving, SavedFile
    <3>2. CASE UNCHANGED <<dirty, failed, file, faults>>
      <4>1. CleanMeansSaved'
        BY <1>0, <2>1, <2>2, <3>2, CleanStays
      <4> QED
        BY <1>0, <3>2, <4>1 DEF FileTyped, FlagsTyped
    <3> QED
      BY <2>1, <3>1, <3>2
  <2>4. FlagsTyped'
    BY <1>0, <2>1, <2>2, <2>3 DEF FlagsTyped
  <2> QED
    BY <2>2, <2>3, <2>4 DEF IInv
<1>13. CASE Reload
  <2>1. LoadCookies /\ UNCHANGED <<asked, now, up, ends>>
    BY <1>13 DEF Reload
  <2>2. up' \in BOOLEAN
    BY <1>0, <2>1 DEF FlagsTyped
  <2> QED
    BY <2>1, <2>2, Loading
<1>14. CASE Start
  <2>1. LoadCookies /\ up' = TRUE /\ UNCHANGED <<asked, now, ends>>
    BY <1>14 DEF Start
  <2> QED
    BY <2>1, Loading
<1>15. ASSUME Gone, ends < MaxEnds, ends' = ends + 1,
              FileTyped', dirty' \in BOOLEAN, failed' \in BOOLEAN, faults' \in 0 .. MaxFaults
       PROVE  IInv'
  <2>1. ListInv'
    BY <1>15, Nothing DEF Gone
  <2>2. domains' = {} /\ up' = FALSE /\ half' = FALSE /\ asked' = 0 /\ now' = now
    BY <1>15 DEF Gone
  <2>3. DomainsTyped' /\ CleanMeansSaved'
    BY <2>2 DEF DomainsTyped, CleanMeansSaved
  <2>4. FlagsTyped'
    <3>1. MaxAsked \in Nat /\ MaxEnds \in Nat /\ ends \in Nat
      BY <1>0, CookiesAssumption DEF FlagsTyped
    <3>2. asked' \in 0 .. MaxAsked /\ ends' \in 0 .. MaxEnds
      BY <1>15, <2>2, <3>1
    <3> QED
      BY <1>0, <1>15, <2>2, <3>2 DEF FlagsTyped
  <2> QED
    BY <1>15, <2>1, <2>3, <2>4 DEF IInv
<1>16. CASE Quit
  <2>1. /\ Gone /\ ends < MaxEnds /\ ends' = ends + 1
        /\ Save \/ UNCHANGED <<dirty, failed, file, faults>>
    BY <1>16 DEF Quit
  <2>2. FileTyped' /\ dirty' \in BOOLEAN /\ failed' \in BOOLEAN /\ faults' \in 0 .. MaxFaults
    <3>1. CASE Save
      BY <3>1, SavedFile
    <3>2. CASE UNCHANGED <<dirty, failed, file, faults>>
      BY <1>0, <3>2 DEF FileTyped, FlagsTyped
    <3> QED
      BY <2>1, <3>1, <3>2
  <2> QED
    BY <1>15, <2>1, <2>2
<1>17. CASE Killed
  <2>1. /\ Gone /\ ends < MaxEnds /\ ends' = ends + 1
        /\ UNCHANGED <<dirty, failed, file, faults>>
    BY <1>17 DEF Killed
  <2>2. FileTyped' /\ dirty' \in BOOLEAN /\ failed' \in BOOLEAN /\ faults' \in 0 .. MaxFaults
    BY <1>0, <2>1 DEF FileTyped, FlagsTyped
  <2> QED
    BY <1>15, <2>1, <2>2
<1>18. CASE Tick
  <2>1. /\ now < MaxTime /\ now' = now + 1 /\ UNCHANGED cookieVars
        /\ UNCHANGED <<dirty, half, failed, file, faults, up, ends>>
    BY <1>18 DEF Tick, saveVars
  <2>2. ListInv' /\ DomainsTyped' /\ asked' = asked /\ jar' = jar /\ val' = val
    BY <1>10, <2>1
  <2>3. FileTyped'
    BY <1>0, <2>1 DEF FileTyped
  <2>4. FlagsTyped'
    BY <1>0, <2>1, <2>2, CookiesAssumption DEF FlagsTyped
  <2>5. CleanMeansSaved'
    <3> SUFFICES ASSUME up, ~dirty
                 PROVE  {v \in file : v.expires > now'}
                          = {val[c] : c \in {c \in jar : val[c].expires > now'}}
      BY <2>1, <2>2 DEF CleanMeansSaved, Kept
    <3>1. {v \in file : v.expires > now} = {val[c] : c \in {c \in jar : val[c].expires > now}}
      BY <1>0 DEF CleanMeansSaved, Kept
    <3>2. /\ \A v \in file : v.expires > now' => v.expires > now
          /\ \A c \in jar : val[c].expires > now' => val[c].expires > now
      <4>1. \A v \in Value : v.expires \in Int
        BY CookiesAssumption DEF Value, Expires
      <4>2. /\ \A v \in file : v.expires \in Int
            /\ \A c \in jar : val[c].expires \in Int
        BY <1>0, <4>1 DEF FileTyped, ListInv, ValTyped
      <4>3. now \in Int /\ now' = now + 1
        BY <1>0, <2>1 DEF FlagsTyped
      <4> QED
        BY <4>2, <4>3
    <3> QED
      BY <3>1, <3>2
  <2> QED
    BY <2>2, <2>3, <2>4, <2>5 DEF IInv
<1>19. CASE UNCHANGED vars
  <2>1. UNCHANGED cookieVars /\ UNCHANGED <<dirty, half, failed, file, faults, now, up, ends>>
    BY <1>19 DEF vars, saveVars
  <2>2. ListInv' /\ DomainsTyped' /\ asked' = asked /\ jar' = jar /\ val' = val
    BY <1>10, <2>1
  <2>3. CleanMeansSaved'
    BY <1>0, <2>1, <2>2, CleanStays
  <2>4. FileTyped' /\ FlagsTyped'
    BY <1>0, <2>1, <2>2 DEF FileTyped, FlagsTyped
  <2> QED
    BY <2>2, <2>3, <2>4 DEF IInv
<1>20. CASE Next
  BY <1>1, <1>2, <1>3, <1>4, <1>5, <1>7, <1>8, <1>9, <1>11, <1>12, <1>13, <1>14,
     <1>16, <1>17, <1>18, <1>20 DEF Next
<1> QED
  BY <1>19, <1>20

\* The inductive invariant holds in every state the program can be in.
THEOREM InvHolds == Spec => []IInv
<1>1. Init => IInv
  BY Initially
<1>2. IInv /\ [Next]_vars => IInv'
  BY StepKeeps
<1>3. Spec => Init /\ [][Next]_vars
  BY PTL DEF Spec
<1> QED
  BY <1>1, <1>2, <1>3, PTL

\* A server keeps one lock for each cookie that points to it, in the list, in
\* cookie_queries or in a message box, whatever comes of them, so that
\* done_cookie_server() frees it with the last and not before.
THEOREM LocksCountCookies == Spec => []ServersCounted
<1>1. IInv => ServersCounted
  <2> SUFFICES ASSUME IInv PROVE ServersCounted
    OBVIOUS
  <2>1. /\ ListsTyped /\ val \in [InUse -> Value]
        /\ locks = [s \in Servers |-> Cardinality(Of(s))]
    BY DEF IInv, ListInv, ValTyped, Counted
  <2>2. \A s \in Servers : Cardinality(Of(s)) \in 0 .. Cardinality(Cookie)
    <3> SUFFICES ASSUME NEW s \in Servers
                 PROVE  Cardinality(Of(s)) \in 0 .. Cardinality(Cookie)
      OBVIOUS
    <3>1. Of(s) \in SUBSET Cookie
      BY <2>1, UseFinite
    <3>2. /\ Cardinality(Of(s)) <= Cardinality(Cookie) /\ IsFiniteSet(Of(s))
      BY <3>1, CookiesAssumption, FS_Subset
    <3>3. Cardinality(Of(s)) \in Nat /\ Cardinality(Cookie) \in Nat
      BY <3>2, CookiesAssumption, FS_CardinalityType
    <3> QED
      BY <3>2, <3>3
  <2>3. locks \in [Servers -> 0 .. Cardinality(Cookie)]
    BY <2>1, <2>2
  <2>4. TypeOK
    BY <2>1, <2>3 DEF TypeOK, IInv, ListsTyped, FileTyped, DomainsTyped, FlagsTyped
  <2>5. \A s \in Servers : locks[s] = Cardinality({c \in InUse : val[c].server = s})
    BY <2>1 DEF Of
  <2> QED
    BY <2>4, <2>5 DEF ServersCounted
<1> QED
  BY <1>1, InvHolds, PTL

\* While cookies_dirty is 0, the file holds what save_cookies() would write: no
\* way to add, replace, expire, edit or delete a cookie forgets set_cookies_dirty(),
\* and a save that fails leaves the flag set.
THEOREM CleanIsSaved == Spec => []CleanMeansSaved
<1>1. IInv => CleanMeansSaved
  BY DEF IInv
<1> QED
  BY <1>1, InvHolds, PTL

-----------------------------------------------------------------------------
(* The index, as long as nobody edits the domain of a cookie: set_domain() *)
(* of the edit dialog leaves c_domains alone.                              *)

LEMMA IndexStep ==
    ASSUME "domain" \notin Edits, IInv, DomainsCoverCookies, [Next]_vars
    PROVE  DomainsCoverCookies'
<1>0. /\ ListInv /\ ListsTyped /\ FileTyped /\ FlagsTyped /\ val \in [InUse -> Value]
      /\ jar \in SUBSET InUse
  BY DEF IInv, ListInv, ValTyped, InUse
<1>1. ASSUME jar' \in SUBSET jar, domains' = domains,
             \A c \in jar' : val'[c].domain = val[c].domain
      PROVE  DomainsCoverCookies'
  BY <1>1 DEF DomainsCoverCookies
<1>2. CASE SetCookie
  <2>1. PICK v \in Received :
            Accept(New, v, Locked(locks, v.server)) /\ Stored(With(New, v))
    BY <1>2 DEF SetCookie
  <2>2. /\ jar' = (jar \ Twins(v)) \cup {New} /\ domains' = domains \cup {v.domain}
    BY <2>1 DEF Accept
  <2>3. \A c \in jar' : val'[c] = IF c = New THEN v ELSE val[c]
    <3> SUFFICES ASSUME NEW c \in jar' PROVE val'[c] = IF c = New THEN v ELSE val[c]
      OBVIOUS
    <3>1. c \in InUse' /\ c \in InUse \cup {New}
      BY <2>2 DEF InUse
    <3>2. val'[c] = With(New, v)[c]
      BY <2>1, <3>1, StoredIs
    <3> QED
      BY <3>1, <3>2 DEF With
  <2> QED
    BY <2>2, <2>3 DEF DomainsCoverCookies
<1>3. CASE QueryCookie
  BY <1>1, <1>3, QueryingKeeps DEF QueryCookie
<1>4. CASE AcceptCookieDialog
  BY <1>1, <1>4 DEF AcceptCookieDialog
<1>5. CASE AcceptInBox
  <2>1. PICK c \in boxes : Accept(c, val[c], locks)
    BY <1>5 DEF AcceptInBox
  <2>2. /\ jar' = (jar \ Twins(val[c])) \cup {c} /\ domains' = domains \cup {val[c].domain}
    BY <2>1 DEF Accept
  <2>3. \A d \in jar' : val'[d] = val[d]
    <3>1. Stored(val) /\ \A d \in jar' : d \in InUse'
      BY <1>5 DEF AcceptInBox, InUse
    <3> QED
      BY <3>1, StoredIs
  <2> QED
    BY <2>2, <2>3 DEF DomainsCoverCookies
<1>6. CASE RejectInBox
  BY <1>1, <1>6, RejectingKeeps DEF RejectInBox
<1>7. CASE SendCookies \/ DeleteCookieItem
  <2>1. jar' \in SUBSET jar /\ domains' = domains /\ Stored(val)
    BY <1>7 DEF SendCookies, DeleteCookieItem, Delete
  <2>2. \A d \in jar' : val'[d] = val[d]
    <3>1. \A d \in jar' : d \in InUse'
      BY DEF InUse
    <3> QED
      BY <2>1, <3>1, StoredIs
  <2> QED
    BY <1>1, <2>1, <2>2
<1>8. CASE EditCookie
  <2>1. PICK c \in jar, e \in Expires : val' = [val EXCEPT ![c].expires = e]
    BY <1>8 DEF EditCookie
  <2>2. \A d \in jar : val'[d].domain = val[d].domain
    BY <1>0, <2>1 DEF Value
  <2>3. jar' = jar /\ domains' = domains
    BY <1>8 DEF EditCookie
  <2> QED
    BY <1>1, <2>2, <2>3
<1>9. CASE PushSaveButton \/ ResaveBottomHalf \/ Tick \/ UNCHANGED vars
  <2>1. UNCHANGED cookieVars
    BY <1>9 DEF PushSaveButton, ResaveBottomHalf, Tick, vars
  <2>2. UNCHANGED <<jar, val, domains>>
    BY <2>1 DEF cookieVars
  <2> QED
    BY <1>1, <2>2
<1>10. CASE Reload \/ Start
  <2>1. LoadCookies
    BY <1>10 DEF Reload, Start
  <2>2. /\ domains' = {v.domain : v \in {v \in file : Kept(v)}}
        /\ {val'[c] : c \in jar'} = {v \in file : Kept(v)}
    BY <1>0, <2>1, Reading
  <2>3. \A c \in jar' : val'[c] \in {v \in file : Kept(v)}
    BY <2>2
  <2> QED
    BY <2>2, <2>3 DEF DomainsCoverCookies
<1>11. CASE Quit \/ Killed
  <2>1. jar' = {}
    BY <1>11 DEF Quit, Killed, Gone
  <2> QED
    BY <2>1 DEF DomainsCoverCookies
<1>12. CASE Next
  BY <1>2, <1>3, <1>4, <1>5, <1>6, <1>7, <1>8, <1>9, <1>10, <1>11, <1>12 DEF Next
<1> QED
  BY <1>9, <1>12

\* If the edit dialog changes no domain, then send_cookies() finds every cookie:
\* accept_cookie() puts each domain into c_domains, and load_cookies() fills it anew.
THEOREM IndexCovers ==
    ASSUME "domain" \notin Edits
    PROVE  Spec => []DomainsCoverCookies
<1>1. Init => IInv /\ DomainsCoverCookies
  <2>1. Init => DomainsCoverCookies
    BY DEF Init, DomainsCoverCookies
  <2> QED
    BY <2>1, Initially
<1>2. IInv /\ DomainsCoverCookies /\ [Next]_vars => DomainsCoverCookies'
  BY IndexStep
<1>3. IInv /\ [Next]_vars => IInv'
  BY StepKeeps
<1>4. Spec => Init /\ [][Next]_vars
  BY PTL DEF Spec
<1> QED
  BY <1>1, <1>2, <1>3, <1>4, PTL

=============================================================================
