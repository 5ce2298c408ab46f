---------------------------- MODULE CacheProofs ----------------------------
(***************************************************************************)
(* Theorems about the two halves of the cache.                             *)
(*                                                                         *)
(* CacheStore, for every number of entries, URIs and connections:          *)
(* cache_size is the sum of the sizes of the listed entries and            *)
(* find_in_cache() has at most one answer, and, when nobody deletes an     *)
(* entry that is being loaded, documents and connections keep the entries  *)
(* they use and no two connections write into one entry.  A collection     *)
(* ends within its size and keeps recent entries before old ones.          *)
(*                                                                         *)
(* CacheFragments, for documents and pieces of any length in any number of *)
(* versions and any unit of allocation: the fragments of an entry are      *)
(* sorted, disjoint, within their room and counted, and what a reader      *)
(* finds at an offset is what was written there last.                      *)
(*                                                                         *)
(* The sums and joined sequences are recursive functions; what is known of *)
(* them below is shown for a smallest counterexample.                      *)
(***************************************************************************)
EXTENDS CacheStore, CacheFragments, FiniteSetTheorems, FunctionTheorems, SequenceTheorems,
        WellFoundedInduction, TLAPS

-----------------------------------------------------------------------------
(* The sum of the sizes.                                                   *)

Pick(s) == CHOOSE x \in s : TRUE

\* f is the recursive function of MapThenSumSet() over the subsets of S.
Sums(f, sz, S) ==
    f = [s \in SUBSET S |-> IF s = {} THEN 0 ELSE sz[Pick(s)].size + f[s \ {Pick(s)}]]

Total(sz, S) == (CHOOSE f : Sums(f, sz, S))[S]

LEMMA SizeIsTotal == ASSUME NEW S PROVE SizeOf(S) = Total(entry, S)
BY DEF SizeOf, Total, Sums, Pick, MapThenSumSet, MapThenFoldSet

\* A set of numbers has a least one.
LEMMA Least ==
    ASSUME NEW T \in SUBSET Nat, T # {}
    PROVE  \E n \in T : \A m \in T : n <= m
<1> DEFINE R == OpToRel(<, Nat)
<1>1. IsWellFoundedOn(R, Nat)
  BY NatLessThanWellFounded
<1>2. \A x, y \in Nat : x < y => <<x, y>> \in R
  BY DEF OpToRel
<1> HIDE DEF R
<1>3. PICK n \in T : \A m \in T : ~(<<m, n>> \in R)
  BY <1>1, WFMin
<1>4. ASSUME NEW m \in T PROVE n <= m
  <2>1. m \in Nat /\ n \in Nat /\ ~(m < n)
    BY <1>2, <1>3
  <2> QED
    BY <2>1
<1> QED
  BY <1>4

\* A family of finite sets that is not empty has a smallest member.
LEMMA Smallest ==
    ASSUME NEW F, F # {}, \A s \in F : IsFiniteSet(s)
    PROVE  \E s \in F : \A t \in F : Cardinality(s) <= Cardinality(t)
<1> DEFINE N == {Cardinality(s) : s \in F}
<1>1. N \in SUBSET Nat /\ N # {}
  BY FS_CardinalityType
<1>2. PICK n \in N : \A m \in N : n <= m
  BY <1>1, Least
<1> QED
  BY <1>2

\* A finite set without one of its members.
LEMMA OneLess ==
    ASSUME NEW S, IsFiniteSet(S), NEW x \in S
    PROVE  /\ IsFiniteSet(S \ {x})
           /\ Cardinality(S) \in Nat /\ Cardinality(S \ {x}) \in Nat
           /\ Cardinality(S \ {x}) = Cardinality(S) - 1
           /\ ~(Cardinality(S) <= Cardinality(S \ {x}))
<1>1. /\ IsFiniteSet(S \ {x}) /\ Cardinality(S \ {x}) = Cardinality(S) - 1
  BY FS_RemoveElement
<1>2. Cardinality(S) \in Nat /\ Cardinality(S \ {x}) \in Nat
  BY <1>1, FS_CardinalityType
<1> QED
  BY <1>1, <1>2

\* Two such functions agree where both are defined.
LEMMA SumsAgree ==
    ASSUME NEW S, IsFiniteSet(S), NEW T, NEW sz, NEW f, NEW g,
           Sums(f, sz, S), Sums(g, sz, T), NEW s \in (SUBSET S) \cap (SUBSET T)
    PROVE  f[s] = g[s]
<1> DEFINE F == {t \in (SUBSET S) \cap (SUBSET T) : f[t] # g[t]}
<1>1. SUFFICES ASSUME F # {} PROVE FALSE
  OBVIOUS
<1>2. \A t \in F : IsFiniteSet(t)
  BY FS_Subset
<1>3. PICK t \in F : \A u \in F : Cardinality(t) <= Cardinality(u)
  <2> HIDE DEF F
  <2> QED
    BY <1>1, <1>2, Smallest
<1>4. /\ f[t] = IF t = {} THEN 0 ELSE sz[Pick(t)].size + f[t \ {Pick(t)}]
      /\ g[t] = IF t = {} THEN 0 ELSE sz[Pick(t)].size + g[t \ {Pick(t)}]
  <2>1. t \in SUBSET S /\ t \in SUBSET T
    OBVIOUS
  <2>2. f[t] = IF t = {} THEN 0 ELSE sz[Pick(t)].size + f[t \ {Pick(t)}]
    BY <2>1 DEF Sums
  <2>3. g[t] = IF t = {} THEN 0 ELSE sz[Pick(t)].size + g[t \ {Pick(t)}]
    BY <2>1 DEF Sums
  <2> QED
    BY <2>2, <2>3
<1>5. t # {} /\ Pick(t) \in t
  BY <1>4 DEF Pick
<1>6. ~(Cardinality(t) <= Cardinality(t \ {Pick(t)}))
  BY <1>2, <1>5, OneLess
<1>7. t \ {Pick(t)} \notin F
  BY <1>3, <1>6
<1>8. f[t \ {Pick(t)}] = g[t \ {Pick(t)}]
  BY <1>7
<1> QED
  BY <1>4, <1>5, <1>8

\* Where there is such a function, the sum is its value.
LEMMA TotalIs ==
    ASSUME NEW S, IsFiniteSet(S), NEW sz, NEW f, Sums(f, sz, S), NEW s \in SUBSET S,
           NEW g, Sums(g, sz, s)
    PROVE  Total(sz, s) = f[s]
<1> DEFINE h == CHOOSE k : Sums(k, sz, s)
<1>1. Sums(h, sz, s)
  OBVIOUS
<1>2. IsFiniteSet(s)
  BY FS_Subset
<1>3. s \in (SUBSET s) \cap (SUBSET S)
  OBVIOUS
<1> HIDE DEF h
<1>4. h[s] = f[s]
  BY <1>1, <1>2, <1>3, SumsAgree
<1> QED
  BY <1>4 DEF Total, h

\* There is one for every finite set.
LEMMA SumsExist ==
    ASSUME NEW S, IsFiniteSet(S), NEW sz
    PROVE  \E f : Sums(f, sz, S)
<1> DEFINE F == {t \in SUBSET S : ~ \E f : Sums(f, sz, t)}
<1>1. SUFFICES ASSUME F # {} PROVE FALSE
  OBVIOUS
<1>2. \A t \in F : IsFiniteSet(t)
  BY FS_Subset
<1>3. PICK t \in F : \A u \in F : Cardinality(t) <= Cardinality(u)
  <2> HIDE DEF F
  <2> QED
    BY <1>1, <1>2, Smallest
<1>4. IsFiniteSet(t)
  BY <1>2
<1>5. ASSUME NEW u \in SUBSET t, u # t PROVE \E f : Sums(f, sz, u)
  <2>1. IsFiniteSet(u) /\ Cardinality(u) \in Nat /\ Cardinality(t) \in Nat
    BY <1>4, FS_Subset, FS_CardinalityType
  <2>2. ~(Cardinality(t) <= Cardinality(u))
    <3>1. Cardinality(u) <= Cardinality(t) /\ Cardinality(u) # Cardinality(t)
      BY <1>4, <1>5, FS_Subset
    <3> QED
      BY <2>1, <3>1
  <2>3. u \notin F
    BY <1>3, <2>2
  <2> QED
    BY <2>3
<1> DEFINE g == [s \in SUBSET t |-> IF s = {} THEN 0
                                    ELSE sz[Pick(s)].size + Total(sz, s \ {Pick(s)})]
<1>6. ASSUME NEW s \in SUBSET t, s # {}
      PROVE  g[s \ {Pick(s)}] = Total(sz, s \ {Pick(s)})
  <2> DEFINE u == s \ {Pick(s)}
  <2>1. Pick(s) \in s /\ Pick(s) \notin u /\ u \in SUBSET t /\ u # t
    BY <1>6 DEF Pick
  <2>2. PICK f : Sums(f, sz, u)
    BY <1>5, <2>1
  <2>3. IsFiniteSet(u)
    BY <1>4, <2>1, FS_Subset
  <2> HIDE DEF u
  <2>4. Total(sz, u) = f[u]
    BY <2>2, <2>3, TotalIs
  <2>5. f[u] = IF u = {} THEN 0 ELSE sz[Pick(u)].size + f[u \ {Pick(u)}]
    BY <2>2 DEF Sums
  <2>6. ASSUME u # {} PROVE f[u \ {Pick(u)}] = Total(sz, u \ {Pick(u)})
    <3>1. u \ {Pick(u)} \in SUBSET u /\ u \ {Pick(u)} \in SUBSET t /\ u \ {Pick(u)} # t
      BY <2>1, <2>6 DEF Pick
    <3>2. PICK h : Sums(h, sz, u \ {Pick(u)})
      BY <1>5, <3>1
    <3> QED
      BY <2>2, <2>3, <3>1, <3>2, TotalIs
  <2>7. g[u] = IF u = {} THEN 0 ELSE sz[Pick(u)].size + Total(sz, u \ {Pick(u)})
    BY <2>1
  <2>8. g[u] = Total(sz, u)
    BY <2>4, <2>5, <2>6, <2>7
  <2> QED
    BY <2>8 DEF u
<1>7. Sums(g, sz, t)
  <2>1. \A s \in SUBSET t : g[s] = IF s = {} THEN 0 ELSE sz[Pick(s)].size + g[s \ {Pick(s)}]
    BY <1>6
  <2>2. g = [s \in SUBSET t |-> g[s]]
    OBVIOUS
  <2> HIDE DEF g
  <2> QED
    BY <2>1, <2>2 DEF Sums
<1> HIDE DEF g
<1> QED
  BY <1>7

\* The sum over a set that is not empty.
LEMMA TotalStep ==
    ASSUME NEW S, IsFiniteSet(S), NEW sz
    PROVE  Total(sz, S) = IF S = {} THEN 0
                          ELSE sz[Pick(S)].size + Total(sz, S \ {Pick(S)})
<1>1. PICK f : Sums(f, sz, S)
  BY SumsExist
<1>2. S \ {Pick(S)} \in SUBSET S /\ IsFiniteSet(S \ {Pick(S)})
  BY FS_Subset
<1>3. PICK g : Sums(g, sz, S \ {Pick(S)})
  BY <1>2, SumsExist
<1>4. Total(sz, S) = f[S]
  BY <1>1, TotalIs
<1>5. Total(sz, S \ {Pick(S)}) = f[S \ {Pick(S)}]
  BY <1>1, <1>2, <1>3, TotalIs
<1>6. f[S] = IF S = {} THEN 0 ELSE sz[Pick(S)].size + f[S \ {Pick(S)}]
  BY <1>1 DEF Sums
<1> QED
  BY <1>4, <1>5, <1>6

\* Sizes add up to a size.
LEMMA TotalType ==
    ASSUME NEW S, IsFiniteSet(S), NEW sz, \A x \in S : sz[x].size \in Nat
    PROVE  Total(sz, S) \in Nat
<1> DEFINE F == {t \in SUBSET S : Total(sz, t) \notin Nat}
<1>1. SUFFICES ASSUME F # {} PROVE FALSE
  OBVIOUS
<1>2. \A t \in F : IsFiniteSet(t)
  BY FS_Subset
<1>3. PICK t \in F : \A u \in F : Cardinality(t) <= Cardinality(u)
  <2> HIDE DEF F
  <2> QED
    BY <1>1, <1>2, Smallest
<1>4. Total(sz, t) = IF t = {} THEN 0 ELSE sz[Pick(t)].size + Total(sz, t \ {Pick(t)})
  BY <1>2, TotalStep
<1>5. t # {} /\ Pick(t) \in t
  BY <1>4 DEF Pick
<1>6. ~(Cardinality(t) <= Cardinality(t \ {Pick(t)}))
  BY <1>2, <1>5, OneLess
<1>7. t \ {Pick(t)} \notin F
  BY <1>3, <1>6
<1>8. Total(sz, t \ {Pick(t)}) \in Nat /\ sz[Pick(t)].size \in Nat
  BY <1>5, <1>7
<1> QED
  BY <1>4, <1>5, <1>8

\* What is not in the set does not count.
LEMMA TotalFrame ==
    ASSUME NEW S, IsFiniteSet(S), NEW sz, NEW tz, \A x \in S : sz[x].size = tz[x].size
    PROVE  Total(sz, S) = Total(tz, S)
<1> DEFINE F == {t \in SUBSET S : Total(sz, t) # Total(tz, t)}
<1>1. SUFFICES ASSUME F # {} PROVE FALSE
  OBVIOUS
<1>2. \A t \in F : IsFiniteSet(t)
  BY FS_Subset
<1>3. PICK t \in F : \A u \in F : Cardinality(t) <= Cardinality(u)
  <2> HIDE DEF F
  <2> QED
    BY <1>1, <1>2, Smallest
<1>4. /\ Total(sz, t) = IF t = {} THEN 0 ELSE sz[Pick(t)].size + Total(sz, t \ {Pick(t)})
      /\ Total(tz, t) = IF t = {} THEN 0 ELSE tz[Pick(t)].size + Total(tz, t \ {Pick(t)})
  BY <1>2, TotalStep
<1>5. t # {} /\ Pick(t) \in t
  BY <1>4 DEF Pick
<1>6. ~(Cardinality(t) <= Cardinality(t \ {Pick(t)}))
  BY <1>2, <1>5, OneLess
<1>7. t \ {Pick(t)} \notin F
  BY <1>3, <1>6
<1>8. Total(sz, t \ {Pick(t)}) = Total(tz, t \ {Pick(t)}) /\ sz[Pick(t)].size = tz[Pick(t)].size
  BY <1>5, <1>7
<1> QED
  BY <1>4, <1>5, <1>8

\* The sum does not depend on the order.
LEMMA TotalRest ==
    ASSUME NEW S, IsFiniteSet(S), NEW sz, \A x \in S : sz[x].size \in Nat, NEW x \in S
    PROVE  Total(sz, S) = sz[x].size + Total(sz, S \ {x})
<1> DEFINE F == {t \in SUBSET S : \E y \in t : Total(sz, t) # sz[y].size + Total(sz, t \ {y})}
<1>1. SUFFICES ASSUME F # {} PROVE FALSE
  OBVIOUS
<1>2. \A t \in F : IsFiniteSet(t)
  BY FS_Subset
<1>3. PICK t \in F : \A u \in F : Cardinality(t) <= Cardinality(u)
  <2> HIDE DEF F
  <2> QED
    BY <1>1, <1>2, Smallest
<1>4. PICK y \in t : Total(sz, t) # sz[y].size + Total(sz, t \ {y})
  OBVIOUS
<1> DEFINE p == Pick(t)
<1>5. p \in t
  BY <1>4 DEF Pick
<1> HIDE DEF p
<1>6. Total(sz, t) = sz[p].size + Total(sz, t \ {p})
  BY <1>2, <1>4, TotalStep DEF p
<1>7. p # y
  BY <1>4, <1>6
<1>8. /\ IsFiniteSet(t \ {p}) /\ IsFiniteSet(t \ {y}) /\ IsFiniteSet((t \ {p}) \ {y})
      /\ ~(Cardinality(t) <= Cardinality(t \ {p})) /\ ~(Cardinality(t) <= Cardinality(t \ {y}))
  BY <1>2, <1>5, OneLess, FS_Subset
<1>9. t \ {p} \notin F /\ t \ {y} \notin F
  BY <1>3, <1>8
<1>10. Total(sz, t \ {p}) = sz[y].size + Total(sz, (t \ {p}) \ {y})
  BY <1>7, <1>9
<1>11. Total(sz, t \ {y}) = sz[p].size + Total(sz, (t \ {y}) \ {p})
  BY <1>5, <1>7, <1>9
<1>12. (t \ {y}) \ {p} = (t \ {p}) \ {y}
  OBVIOUS
<1>13. /\ sz[p].size \in Nat /\ sz[y].size \in Nat
       /\ Total(sz, (t \ {p}) \ {y}) \in Nat
  BY <1>5, <1>8, TotalType
<1>14. Total(sz, t) = sz[p].size + (sz[y].size + Total(sz, (t \ {p}) \ {y}))
  BY <1>6, <1>10
<1>15. Total(sz, t) # sz[y].size + (sz[p].size + Total(sz, (t \ {p}) \ {y}))
  BY <1>4, <1>11, <1>12
<1> HIDE DEF F
<1> QED
  BY <1>13, <1>14, <1>15

\* What is deleted is subtracted.
LEMMA TotalMinus ==
    ASSUME NEW S, IsFiniteSet(S), NEW sz, \A x \in S : sz[x].size \in Nat, NEW T \in SUBSET S
    PROVE  /\ Total(sz, S) \in Nat /\ Total(sz, T) \in Nat
           /\ Total(sz, S \ T) = Total(sz, S) - Total(sz, T)
<1> DEFINE F == {t \in SUBSET S : Total(sz, S \ t) # Total(sz, S) - Total(sz, t)}
<1>0. /\ Total(sz, S) \in Nat
      /\ \A t \in SUBSET S : IsFiniteSet(t) /\ Total(sz, t) \in Nat /\ Total(sz, S \ t) \in Nat
  BY FS_Subset, TotalType
<1>1. SUFFICES ASSUME F # {} PROVE FALSE
  BY <1>0
<1>2. \A t \in F : IsFiniteSet(t)
  BY FS_Subset
<1>3. PICK t \in F : \A u \in F : Cardinality(t) <= Cardinality(u)
  <2> HIDE DEF F
  <2> QED
    BY <1>1, <1>2, Smallest
<1>4. t # {}
  <2>1. Total(sz, {}) = 0
    BY TotalStep, FS_EmptySet
  <2>2. S \ {} = S
    OBVIOUS
  <2>3. Total(sz, S) = Total(sz, S) - 0
    BY <1>0
  <2>4. Total(sz, S \ {}) = Total(sz, S) - Total(sz, {})
    <3> HIDE DEF F
    <3> QED
      BY <2>1, <2>2, <2>3, Zenon
  <2>5. {} \notin F
    BY <2>4
  <2> HIDE DEF F
  <2> QED
    BY <1>3, <2>5
<1>5. PICK y \in t : TRUE
  BY <1>4
<1>6. t \ {y} \notin F /\ t \ {y} \in SUBSET S
  BY <1>2, <1>3, OneLess
<1>7. Total(sz, S \ (t \ {y})) = Total(sz, S) - Total(sz, t \ {y})
  BY <1>6
<1>8. Total(sz, t) = sz[y].size + Total(sz, t \ {y})
  BY <1>2, TotalRest
<1>9. Total(sz, S \ (t \ {y})) = sz[y].size + Total(sz, S \ t)
  <2> DEFINE u == S \ (t \ {y})
  <2>1. u \ {y} = S \ t /\ y \in u /\ u \in SUBSET S
    OBVIOUS
  <2>2. IsFiniteSet(u) /\ \A x \in u : sz[x].size \in Nat
    BY <1>0, <2>1
  <2> HIDE DEF u
  <2>3. Total(sz, u) = sz[y].size + Total(sz, u \ {y})
    BY <2>1, <2>2, TotalRest
  <2> QED
    BY <2>1, <2>3 DEF u
<1>10. sz[y].size \in Nat /\ Total(sz, t) \in Nat /\ Total(sz, t \ {y}) \in Nat
  BY <1>0, <1>6
<1> QED
  BY <1>0, <1>7, <1>8, <1>9, <1>10

\* One size that changes.
LEMMA TotalChange ==
    ASSUME NEW S, IsFiniteSet(S), NEW sz, \A y \in S : sz[y].size \in Nat,
           NEW tz, \A y \in S : tz[y].size \in Nat,
           NEW x \in S, \A y \in S \ {x} : tz[y].size = sz[y].size
    PROVE  Total(tz, S) = Total(sz, S) + tz[x].size - sz[x].size
<1>1. /\ Total(sz, S) = sz[x].size + Total(sz, S \ {x})
      /\ Total(tz, S) = tz[x].size + Total(tz, S \ {x})
  BY TotalRest
<1>2. IsFiniteSet(S \ {x})
  BY FS_Subset
<1>3. Total(tz, S \ {x}) = Total(sz, S \ {x}) /\ Total(sz, S \ {x}) \in Nat
  BY <1>2, TotalFrame, TotalType
<1> QED
  BY <1>1, <1>3

\* The sequence RemoveAt() makes, entry by entry.
LEMMA RemoveAtEntries ==
    ASSUME NEW S, NEW q \in Seq(S), NEW k \in DOMAIN q
    PROVE  /\ RemoveAt(q, k) \in Seq(S)
           /\ Len(RemoveAt(q, k)) = Len(q) - 1
           /\ \A i \in 1 .. (Len(q) - 1) :
                RemoveAt(q, k)[i] = IF i < k THEN q[i] ELSE q[i + 1]
<1> DEFINE A == SubSeq(q, 1, k - 1)
           B == SubSeq(q, k + 1, Len(q))
<1>1. /\ A \in Seq(S) /\ Len(A) = k - 1
      /\ \A i \in 1 .. (k - 1) : A[i] = q[i]
  OBVIOUS
<1>2. /\ B \in Seq(S) /\ Len(B) = Len(q) - k
      /\ \A i \in 1 .. (Len(q) - k) : B[i] = q[k + i]
  OBVIOUS
<1>3. RemoveAt(q, k) = A \o B
  BY DEF RemoveAt
<1>4. k \in Nat /\ k >= 1 /\ Len(q) \in Nat /\ k <= Len(q)
  OBVIOUS
<1> HIDE DEF A, B
<1>5. /\ A \o B \in Seq(S) /\ Len(A \o B) = Len(A) + Len(B)
      /\ \A i \in 1 .. Len(A) + Len(B) : (A \o B)[i] =
           IF i <= Len(A) THEN A[i] ELSE B[i - Len(A)]
  BY <1>1, <1>2, ConcatProperties
<1>6. Len(A \o B) = Len(q) - 1
  BY <1>1, <1>2, <1>4, <1>5
<1>7. ASSUME NEW i \in 1 .. (Len(q) - 1)
      PROVE  (A \o B)[i] = IF i < k THEN q[i] ELSE q[i + 1]
  <2>1. (A \o B)[i] = IF i <= Len(A) THEN A[i] ELSE B[i - Len(A)]
    <3>1. i \in 1 .. Len(A) + Len(B)
      BY <1>1, <1>2, <1>4
    <3> QED
      BY <1>5, <3>1, Zenon
  <2>2. CASE i < k
    BY <1>1, <1>4, <2>1, <2>2
  <2>3. CASE ~(i < k)
    <3>1. i - Len(A) \in 1 .. (Len(q) - k) /\ k + (i - Len(A)) = i + 1 /\ ~(i <= Len(A))
      BY <1>1, <1>4, <2>3
    <3> QED
      BY <1>2, <2>1, <2>3, <3>1
  <2> QED
    BY <2>2, <2>3
<1> QED
  BY <1>3, <1>5, <1>6, <1>7, Zenon

-----------------------------------------------------------------------------
(* The list.                                                               *)

ListTyped == lru \in Seq(Entries) /\ IsInjective(lru)

\* The members of a list are as many as the list is long at most.
LEMMA ListFinite ==
    ASSUME NEW S, NEW q \in Seq(S)
    PROVE  ToSet(q) \in SUBSET S /\ IsFiniteSet(ToSet(q))
<1>1. DOMAIN q = 1 .. Len(q) /\ Len(q) \in Nat
  OBVIOUS
<1>2. q \in Surjection(DOMAIN q, ToSet(q))
  BY DEF Surjection, ToSet
<1>3. IsFiniteSet(DOMAIN q)
  BY <1>1, FS_Interval
<1>4. ToSet(q) \in SUBSET S
  BY DEF ToSet
<1> QED
  BY <1>2, <1>3, <1>4, FS_Surjection

\* An entry that moves to the top stays in the list.
LEMMA ToTopKeeps ==
    ASSUME ListTyped, NEW i \in DOMAIN lru
    PROVE  /\ ToTop(i) \in Seq(Entries) /\ IsInjective(ToTop(i))
           /\ ToSet(ToTop(i)) = ToSet(lru)
<1> DEFINE r == RemoveAt(lru, i)
           one == <<lru[i]>>
           t == one \o r
           n == Len(lru)
           from(k) == IF k = 1 THEN i ELSE IF k <= i THEN k - 1 ELSE k
           to(j) == IF j = i THEN 1 ELSE IF j < i THEN j + 1 ELSE j
<1>1. lru \in Seq(Entries) /\ IsInjective(lru)
  BY DEF ListTyped
<1>2. n \in Nat /\ DOMAIN lru = 1 .. n /\ i \in 1 .. n /\ lru[i] \in Entries
  BY <1>1
<1>3. /\ r \in Seq(Entries) /\ Len(r) = n - 1
      /\ \A k \in 1 .. (n - 1) : r[k] = IF k < i THEN lru[k] ELSE lru[k + 1]
  BY <1>1, RemoveAtEntries
<1>4. one \in Seq(Entries) /\ Len(one) = 1 /\ one[1] = lru[i]
  BY <1>2
<1> HIDE DEF r, one
<1>5. /\ t \in Seq(Entries) /\ Len(t) = Len(one) + Len(r)
      /\ \A k \in 1 .. Len(one) + Len(r) :
           t[k] = IF k <= Len(one) THEN one[k] ELSE r[k - Len(one)]
  BY <1>3, <1>4, ConcatProperties
<1> HIDE DEF t
<1>6. Len(t) = n /\ DOMAIN t = 1 .. n
  BY <1>2, <1>3, <1>4, <1>5
<1>7. ASSUME NEW k \in 1 .. n PROVE t[k] = lru[from(k)] /\ from(k) \in 1 .. n
  <2>1. k \in 1 .. Len(one) + Len(r)
    BY <1>2, <1>3, <1>4
  <2>2. t[k] = IF k <= Len(one) THEN one[k] ELSE r[k - Len(one)]
    BY <1>5, <2>1
  <2>3. CASE k = 1
    BY <1>2, <1>4, <2>2, <2>3
  <2>4. CASE k # 1
    <3>1. k - 1 \in 1 .. (n - 1) /\ ~(k <= Len(one)) /\ k - Len(one) = k - 1
      BY <1>2, <1>4, <2>4
    <3>2. t[k] = IF k - 1 < i THEN lru[k - 1] ELSE lru[(k - 1) + 1]
      BY <1>3, <2>2, <3>1
    <3>3. k \in Nat /\ (k - 1) + 1 = k /\ (k - 1 < i <=> k <= i)
      BY <1>2
    <3>4. t[k] = IF k <= i THEN lru[k - 1] ELSE lru[k]
      BY <3>2, <3>3
    <3>5. from(k) = IF k <= i THEN k - 1 ELSE k
      BY <2>4
    <3>6. from(k) \in 1 .. n
      BY <1>2, <2>4, <3>1, <3>5
    <3> QED
      BY <3>4, <3>5, <3>6
  <2> QED
    BY <2>3, <2>4
<1>8. ASSUME NEW j \in 1 .. n PROVE to(j) \in 1 .. n /\ from(to(j)) = j
  BY <1>2
<1>9. \A k, l \in 1 .. n : from(k) = from(l) => k = l
  BY <1>2
<1>10. IsInjective(t)
  <2> SUFFICES ASSUME NEW k \in 1 .. n, NEW l \in 1 .. n, t[k] = t[l]
               PROVE  k = l
    BY <1>6 DEF IsInjective
  <2>1. lru[from(k)] = lru[from(l)]
    BY <1>7
  <2>2. from(k) \in DOMAIN lru /\ from(l) \in DOMAIN lru
    BY <1>2, <1>7
  <2> HIDE DEF from
  <2>3. from(k) = from(l)
    BY <1>1, <2>1, <2>2 DEF IsInjective
  <2> QED
    BY <1>9, <2>3
<1>11. ToSet(t) = ToSet(lru)
  <2>1. ASSUME NEW k \in 1 .. n PROVE t[k] \in ToSet(lru)
    BY <1>2, <1>7 DEF ToSet
  <2>2. ASSUME NEW j \in 1 .. n PROVE lru[j] \in ToSet(t)
    <3>1. t[to(j)] = lru[j] /\ to(j) \in DOMAIN t
      BY <1>6, <1>7, <1>8
    <3> QED
      BY <3>1 DEF ToSet
  <2> QED
    BY <1>2, <1>6, <2>1, <2>2 DEF ToSet
<1>12. ToTop(i) = t
  BY DEF ToTop, t, r, one
<1> QED
  BY <1>5, <1>10, <1>11, <1>12

\* The list that is left has exactly the entries that are left.
LEMMA WithoutKeeps ==
    ASSUME NEW q \in Seq(Entries), IsInjective(q), NEW S, NEW r \in Without(q, S)
    PROVE  r \in Seq(Entries) /\ IsInjective(r) /\ ToSet(r) = ToSet(q) \ S
<1> DEFINE Kept == ToSet(q) \ S
           n == Cardinality(Kept)
<1>0. ASSUME Kept = ToSet(q) PROVE r = q /\ ToSet(r) = Kept
  BY <1>0 DEF Without
<1>a. SUFFICES ASSUME Kept # ToSet(q) PROVE r \in Seq(Entries) /\ IsInjective(r) /\ ToSet(r) = Kept
  BY <1>0
<1>1. IsFiniteSet(Kept) /\ Kept \in SUBSET Entries
  BY ListFinite, FS_Subset
<1>2. n \in Nat
  BY <1>1, FS_CardinalityType
<1>3. /\ r \in [1 .. n -> Kept]
      /\ \A i, j \in DOMAIN r :
           i < j => \E k, l \in DOMAIN q : k < l /\ q[k] = r[i] /\ q[l] = r[j]
  BY <1>a DEF Without
<1> HIDE DEF Kept, n
<1>4. r \in Seq(Entries) /\ DOMAIN r = 1 .. n
  BY <1>1, <1>2, <1>3
<1>5. ASSUME NEW i \in DOMAIN r, NEW j \in DOMAIN r, i < j PROVE r[i] # r[j]
  <2>1. PICK k, l \in DOMAIN q : k < l /\ q[k] = r[i] /\ q[l] = r[j]
    BY <1>3, <1>5
  <2>2. k # l
    BY <2>1
  <2> QED
    BY <2>1, <2>2 DEF IsInjective
<1>6. IsInjective(r)
  <2> SUFFICES ASSUME NEW i \in DOMAIN r, NEW j \in DOMAIN r, r[i] = r[j]
               PROVE  i = j
    BY DEF IsInjective
  <2>1. i \in Nat /\ j \in Nat
    BY <1>2, <1>4
  <2> QED
    BY <1>5, <2>1
<1>7. r \in Injection(1 .. n, Kept)
  BY <1>3, <1>6 DEF Injection
<1>8. Cardinality(1 .. n) = n
  BY <1>2, FS_Interval
<1>9. r \in Surjection(1 .. n, Kept)
  BY <1>1, <1>7, <1>8, FS_Injection DEF n
<1>10. ToSet(r) = Kept
  BY <1>3, <1>9 DEF Surjection, ToSet
<1> QED
  BY <1>4, <1>6, <1>10 DEF Kept

\* A new entry at the top of a list.
LEMMA OnTop ==
    ASSUME NEW q \in Seq(Entries), IsInjective(q), NEW e \in Entries, e \notin ToSet(q)
    PROVE  /\ <<e>> \o q \in Seq(Entries) /\ IsInjective(<<e>> \o q)
           /\ ToSet(<<e>> \o q) = ToSet(q) \cup {e}
<1> DEFINE one == <<e>>
           t == one \o q
           n == Len(q)
<1>1. n \in Nat /\ DOMAIN q = 1 .. n
  OBVIOUS
<1>2. one \in Seq(Entries) /\ Len(one) = 1 /\ one[1] = e
  OBVIOUS
<1> HIDE DEF one
<1>3. /\ t \in Seq(Entries) /\ Len(t) = Len(one) + Len(q)
      /\ \A k \in 1 .. Len(one) + Len(q) :
           t[k] = IF k <= Len(one) THEN one[k] ELSE q[k - Len(one)]
  BY <1>2, ConcatProperties
<1> HIDE DEF t
<1>4. DOMAIN t = 1 .. (n + 1)
  BY <1>1, <1>2, <1>3
<1>5. t[1] = e
  BY <1>1, <1>2, <1>3
<1>6. ASSUME NEW k \in 2 .. (n + 1) PROVE t[k] = q[k - 1] /\ k - 1 \in DOMAIN q
  <2>1. k \in 1 .. Len(one) + Len(q) /\ ~(k <= Len(one)) /\ k - Len(one) = k - 1
    BY <1>1, <1>2
  <2>2. k - 1 \in 1 .. n
    BY <1>1
  <2> QED
    BY <1>1, <1>3, <2>1, <2>2
<1>7. \A k \in DOMAIN q : q[k] # e
  BY DEF ToSet
<1>8. IsInjective(t)
  <2> SUFFICES ASSUME NEW k \in DOMAIN t, NEW l \in DOMAIN t, t[k] = t[l]
               PROVE  k = l
    BY DEF IsInjective
  <2>1. /\ k \in Nat /\ l \in Nat
        /\ k = 1 \/ k \in 2 .. (n + 1)
        /\ l = 1 \/ l \in 2 .. (n + 1)
    BY <1>1, <1>4
  <2>2. CASE k = 1
    BY <1>5, <1>6, <1>7, <2>1, <2>2
  <2>3. CASE l = 1
    BY <1>5, <1>6, <1>7, <2>1, <2>3
  <2>4. CASE k # 1 /\ l # 1
    <3>1. q[k - 1] = q[l - 1] /\ k - 1 \in DOMAIN q /\ l - 1 \in DOMAIN q
      BY <1>6, <2>1, <2>4
    <3>2. k - 1 = l - 1
      BY <3>1 DEF IsInjective
    <3> QED
      BY <2>1, <3>2
  <2> QED
    BY <2>2, <2>3, <2>4
<1>9. ToSet(t) = ToSet(q) \cup {e}
  <2>1. ASSUME NEW k \in DOMAIN t PROVE t[k] \in ToSet(q) \cup {e}
    <3>1. k = 1 \/ k \in 2 .. (n + 1)
      BY <1>1, <1>4
    <3> QED
      BY <1>5, <1>6, <3>1 DEF ToSet
  <2>2. ASSUME NEW j \in DOMAIN q PROVE q[j] \in ToSet(t)
    <3>1. j + 1 \in 2 .. (n + 1) /\ (j + 1) - 1 = j /\ j + 1 \in DOMAIN t
      BY <1>1, <1>4
    <3>2. t[j + 1] = q[j]
      BY <1>6, <3>1
    <3> QED
      BY <3>1, <3>2 DEF ToSet
  <2>3. e \in ToSet(t)
    <3>1. 1 \in DOMAIN t
      BY <1>1, <1>4
    <3> QED
      BY <1>5, <3>1 DEF ToSet
  <2> QED
    BY <2>1, <2>2, <2>3 DEF ToSet
<1> QED
  BY <1>3, <1>8, <1>9 DEF t, one

-----------------------------------------------------------------------------
(* The list, its entries and cache_size.                                   *)

EntryTyped == entry \in [Entries -> EntryRecord]
DocsTyped == docs \subseteq Entries
LoadsTyped == loads \in [Conns -> LoadRecord]
Accounted == cache_size = SizeOf(ToSet(lru))

\* The same as in OneValidPerUri, of the entries instead of their places.
OneValid ==
    \A x, y \in ToSet(lru) :
        x # y /\ entry[x].valid /\ entry[y].valid => entry[x].uri # entry[y].uri

StoreInv ==
    ListTyped /\ EntryTyped /\ DocsTyped /\ LoadsTyped /\ Accounted /\ OneValid

LEMMA AccountedIs == Accounted <=> cache_size = Total(entry, ToSet(lru))
BY SizeIsTotal DEF Accounted

LEMMA AccountedNext == Accounted' <=> cache_size' = Total(entry', ToSet(lru'))
BY DEF Accounted, SizeOf, Total, Sums, Pick, MapThenSumSet, MapThenFoldSet, ToSet

\* The sizes of listed entries.
LEMMA Listed ==
    ASSUME ListTyped, EntryTyped
    PROVE  /\ ToSet(lru) \in SUBSET Entries /\ IsFiniteSet(ToSet(lru))
           /\ \A e \in ToSet(lru) : entry[e].size \in Nat
           /\ \A i \in DOMAIN lru : lru[i] \in ToSet(lru)
<1>1. ToSet(lru) \in SUBSET Entries /\ IsFiniteSet(ToSet(lru))
  BY ListFinite DEF ListTyped
<1>2. \A e \in Entries : entry[e].size \in Nat
  BY SizesAssumption DEF EntryTyped, EntryRecord
<1>3. \A i \in DOMAIN lru : lru[i] \in ToSet(lru)
  BY DEF ToSet
<1> QED
  BY <1>1, <1>2, <1>3

\* find_in_cache() finds what there is.
LEMMA FindIs ==
    ASSUME ListTyped, NEW u
    PROVE  /\ \A i \in Find(u) : /\ i \in DOMAIN lru
                                 /\ entry[lru[i]].valid /\ entry[lru[i]].uri = u
           /\ Find(u) = {} => \A e \in ToSet(lru) : ~(entry[e].valid /\ entry[e].uri = u)
<1> DEFINE T == {i \in DOMAIN lru : entry[lru[i]].valid /\ entry[lru[i]].uri = u}
<1>1. \A i \in Find(u) : i \in DOMAIN lru /\ entry[lru[i]].valid /\ entry[lru[i]].uri = u
  BY DEF Find
<1>2. ASSUME T # {} PROVE Find(u) # {}
  <2>1. DOMAIN lru = 1 .. Len(lru) /\ Len(lru) \in Nat
    BY DEF ListTyped
  <2>2. T \in SUBSET Nat
    BY <2>1
  <2>3. PICK n \in T : \A m \in T : n <= m
    <3> HIDE DEF T
    <3> QED
      BY <1>2, <2>2, Least
  <2>4. \A j \in 1 .. (n - 1) : j \in DOMAIN lru /\ ~(n <= j)
    BY <2>1
  <2>5. \A j \in 1 .. (n - 1) : ~(entry[lru[j]].valid /\ entry[lru[j]].uri = u)
    BY <2>3, <2>4
  <2> QED
    BY <2>5 DEF Find
<1>3. ASSUME T = {} PROVE \A e \in ToSet(lru) : ~(entry[e].valid /\ entry[e].uri = u)
  BY <1>3 DEF ToSet
<1> QED
  BY <1>1, <1>2, <1>3

\* Only what is listed and not in use is collected.
LEMMA CollectedUnused ==
    ASSUME NEW q, NEW locked, NEW whole
    PROVE  \A e \in Collected(q, locked, whole) :
               e \in ToSet(q) /\ e \notin locked /\ ~IsEntryUsed(e)
BY DEF Collected, Unused, InUse

\* Deleting entries.
LEMMA Deletion ==
    ASSUME StoreInv, NEW q \in Seq(Entries), IsInjective(q), ToSet(q) = ToSet(lru),
           NEW S \in SUBSET ToSet(lru), Deleted(q, S)
    PROVE  /\ ListTyped' /\ EntryTyped' /\ Accounted' /\ OneValid'
           /\ ToSet(lru') = ToSet(lru) \ S
           /\ \A x \in Entries \ S : entry'[x] = entry[x]
<1>1. lru' \in Seq(Entries) /\ IsInjective(lru') /\ ToSet(lru') = ToSet(lru) \ S
  BY WithoutKeeps DEF Deleted
<1>2. entry' = [e \in Entries |-> IF e \in S THEN FreeEntry ELSE entry[e]]
  BY DEF Deleted
<1>3. FreeEntry \in EntryRecord
  BY SizesAssumption DEF FreeEntry, EntryRecord
<1>4. entry' \in [Entries -> EntryRecord]
  BY <1>2, <1>3 DEF StoreInv, EntryTyped
<1>5. \A x \in Entries \ S : entry'[x] = entry[x]
  BY <1>2
<1>6. /\ ToSet(lru) \in SUBSET Entries /\ IsFiniteSet(ToSet(lru))
      /\ \A e \in ToSet(lru) : entry[e].size \in Nat
  BY Listed DEF StoreInv
<1>7. Accounted'
  <2>1. cache_size = Total(entry, ToSet(lru))
    BY AccountedIs DEF StoreInv
  <2>2. cache_size' = cache_size - Total(entry, S)
    BY SizeIsTotal DEF Deleted
  <2>3. Total(entry, ToSet(lru) \ S) = Total(entry, ToSet(lru)) - Total(entry, S)
    BY <1>6, TotalMinus
  <2>4. Total(entry', ToSet(lru) \ S) = Total(entry, ToSet(lru) \ S)
    <3>1. IsFiniteSet(ToSet(lru) \ S)
      BY <1>6, FS_Subset
    <3>2. \A x \in ToSet(lru) \ S : entry'[x].size = entry[x].size
      BY <1>5, <1>6
    <3> QED
      BY <3>1, <3>2, TotalFrame
  <2> QED
    BY <1>1, <2>1, <2>2, <2>3, <2>4, AccountedNext
<1>8. OneValid'
  <2>1. OneValid
    BY DEF StoreInv
  <2>2. \A x \in ToSet(lru') : x \in ToSet(lru) /\ entry'[x] = entry[x]
    BY <1>1, <1>5, <1>6
  <2> QED
    BY <2>1, <2>2 DEF OneValid
<1> QED
  BY <1>1, <1>4, <1>5, <1>7, <1>8 DEF ListTyped, EntryTyped

\* An entry that gets another size and does not become valid.
LEMMA Resizing ==
    ASSUME StoreInv, lru' = lru, EntryTyped', NEW e \in ToSet(lru),
           \A x \in Entries \ {e} : entry'[x] = entry[x],
           entry'[e].uri = entry[e].uri, entry'[e].valid => entry[e].valid,
           Resize(e, entry'[e].size)
    PROVE  ListTyped' /\ Accounted' /\ OneValid'
<1>1. ListTyped'
  BY DEF StoreInv, ListTyped
<1>2. /\ ToSet(lru) \in SUBSET Entries /\ IsFiniteSet(ToSet(lru))
      /\ \A x \in ToSet(lru) : entry[x].size \in Nat
  BY Listed DEF StoreInv
<1>3. \A x \in ToSet(lru) : entry'[x].size \in Nat
  <2>1. \A x \in Entries : entry'[x].size \in Nat
    BY SizesAssumption DEF EntryTyped, EntryRecord
  <2> QED
    BY <1>2, <2>1
<1>4. \A x \in ToSet(lru) \ {e} : entry'[x].size = entry[x].size
  BY <1>2
<1>5. Total(entry', ToSet(lru)) = Total(entry, ToSet(lru)) + entry'[e].size - entry[e].size
  BY <1>2, <1>3, <1>4, TotalChange
<1>6. Accounted'
  <2>1. cache_size = Total(entry, ToSet(lru))
    BY AccountedIs DEF StoreInv
  <2>2. cache_size' = cache_size + entry'[e].size - entry[e].size
    BY DEF Resize
  <2> QED
    BY <1>5, <2>1, <2>2, AccountedNext
<1>7. OneValid'
  <2>1. \A x \in ToSet(lru) : /\ entry'[x].uri = entry[x].uri
                              /\ entry'[x].valid => entry[x].valid
    BY <1>2
  <2>2. OneValid
    BY DEF StoreInv
  <2> QED
    BY <2>1, <2>2 DEF OneValid
<1> QED
  BY <1>1, <1>6, <1>7

\* Moving an entry to the top changes only its place.
LEMMA Moving ==
    ASSUME StoreInv, NEW i \in DOMAIN lru, lru' = ToTop(i), UNCHANGED <<entry, cache_size>>
    PROVE  /\ ListTyped' /\ EntryTyped' /\ Accounted' /\ OneValid'
           /\ ToSet(lru') = ToSet(lru)
<1>1. ListTyped' /\ ToSet(lru') = ToSet(lru)
  BY ToTopKeeps DEF StoreInv, ListTyped
<1>2. EntryTyped'
  BY DEF StoreInv, EntryTyped
<1>3. Accounted'
  BY <1>1, AccountedIs, AccountedNext DEF StoreInv
<1>4. OneValid'
  BY <1>1 DEF StoreInv, OneValid
<1> QED
  BY <1>1, <1>2, <1>3, <1>4

-----------------------------------------------------------------------------
(* The operations that delete entries.                                     *)

\* The entries of S leave the list; nothing happens to the others.
Drops(S) ==
    /\ S \in SUBSET ToSet(lru)
    /\ ToSet(lru') = ToSet(lru) \ S
    /\ \A x \in Entries \ S : entry'[x] = entry[x]

\* The conjuncts of StoreInv that are about the list.
ListInv == ListTyped /\ EntryTyped /\ Accounted /\ OneValid

\* shrink_memory() deletes nothing that is in use.
LEMMA Shrinking ==
    ASSUME StoreInv, NEW q \in Seq(Entries), IsInjective(q), ToSet(q) = ToSet(lru),
           NEW locked \in SUBSET Entries, NEW kept, NEW whole,
           ShrinkMemoryFrom(q, locked, kept, whole)
    PROVE  /\ ListInv'
           /\ docs' \in SUBSET locked
           /\ \E S : Drops(S) /\ \A e \in S : e \notin docs' /\ ~IsEntryUsed(e)
<1>1. PICK freed \in SUBSET (locked \ kept) :
          /\ docs' = locked \ freed
          /\ Deleted(q, Collected(q, locked \ freed, whole))
  BY DEF ShrinkMemoryFrom
<1> DEFINE S == Collected(q, locked \ freed, whole)
<1>2. \A e \in S : e \in ToSet(lru) /\ e \notin docs' /\ ~IsEntryUsed(e)
  BY <1>1, CollectedUnused
<1>3. S \in SUBSET ToSet(lru) /\ Deleted(q, S)
  BY <1>1, <1>2
<1> HIDE DEF S
<1>4. /\ ListTyped' /\ EntryTyped' /\ Accounted' /\ OneValid'
      /\ ToSet(lru') = ToSet(lru) \ S
      /\ \A x \in Entries \ S : entry'[x] = entry[x]
  BY <1>3, Deletion
<1>5. Drops(S)
  BY <1>3, <1>4 DEF Drops
<1> QED
  BY <1>1, <1>2, <1>4, <1>5 DEF ListInv

\* get_validated_cache_entry() deletes nothing that a document locks.
LEMMA Validating ==
    ASSUME StoreInv, NEW u, Validate(u)
    PROVE  /\ ListInv'
           /\ \E S : Drops(S) /\ \A e \in S : e \notin docs /\ (UsersWait => ~IsEntryUsed(e))
<1>1. PICK i \in Find(u) : Deleted(ToTop(i), Expired(u))
  BY DEF Validate
<1>2. i \in DOMAIN lru
  BY FindIs DEF StoreInv
<1>3. ToTop(i) \in Seq(Entries) /\ IsInjective(ToTop(i)) /\ ToSet(ToTop(i)) = ToSet(lru)
  BY <1>2, ToTopKeeps DEF StoreInv
<1> DEFINE S == Expired(u)
<1>4. \A e \in S : e \in ToSet(lru)
  BY FindIs DEF Expired, StoreInv, ToSet
<1>5. \A e \in S : e \notin docs
  BY DEF Expired, IsObjectUsed
<1>6. \A e \in S : UsersWait => ~IsEntryUsed(e)
  BY DEF Validate
<1>7. S \in SUBSET ToSet(lru) /\ Deleted(ToTop(i), S)
  BY <1>1, <1>4
<1> HIDE DEF S
<1>8. /\ ListTyped' /\ EntryTyped' /\ Accounted' /\ OneValid'
      /\ ToSet(lru') = ToSet(lru) \ S
      /\ \A x \in Entries \ S : entry'[x] = entry[x]
  BY <1>3, <1>7, Deletion
<1>9. Drops(S)
  BY <1>7, <1>8 DEF Drops
<1> QED
  BY <1>5, <1>6, <1>8, <1>9 DEF ListInv

\* get_cache_entry() where find_in_cache() finds nothing: the new entry is the
\* only valid one of its URI.
Creates(c, e, S) ==
    /\ e \in Entries \ ToSet(lru)
    /\ docs' \in SUBSET docs
    /\ S \in SUBSET ToSet(lru)
    /\ \A x \in S : x \notin docs' /\ ~IsEntryUsed(x)
    /\ ToSet(lru') = (ToSet(lru) \ S) \cup {e}
    /\ entry'[e] = [uri |-> loads[c].uri, size |-> 0, incomplete |-> TRUE, valid |-> TRUE]
    /\ \A x \in Entries \ (S \cup {e}) : entry'[x] = entry[x]
    /\ loads' = [loads EXCEPT ![c].cached = e]

\* get_cache_entry() where it finds one.
Takes(c, i) ==
    /\ i \in Find(loads[c].uri)
    /\ lru' = ToTop(i)
    /\ loads' = [loads EXCEPT ![c].cached = lru[i]]
    /\ UNCHANGED <<entry, cache_size, docs>>

LEMMA Getting ==
    ASSUME StoreInv, NEW c \in Conns, GetCacheEntry(c)
    PROVE  /\ ListInv'
           /\ \/ \E i : Takes(c, i)
              \/ \E e, S : Creates(c, e, S)
<1> DEFINE u == loads[c].uri
<1>0. /\ ListTyped /\ EntryTyped /\ Accounted /\ OneValid /\ LoadsTyped
      /\ ToSet(lru) \in SUBSET Entries /\ IsFiniteSet(ToSet(lru))
      /\ \A e \in ToSet(lru) : entry[e].size \in Nat
  BY Listed DEF StoreInv
<1>1. \/ \E i \in Find(u) :
           /\ lru' = ToTop(i)
           /\ loads' = [loads EXCEPT ![c].cached = lru[i]]
           /\ UNCHANGED <<entry, cache_size, docs>>
      \/ /\ Find(u) = {}
         /\ \E freed \in SUBSET docs, e \in Entries \ ToSet(lru) :
              LET S == Collected(lru, docs \ freed, FALSE)
              IN  /\ docs' = docs \ freed
                  /\ \E q \in Without(lru, S) : lru' = <<e>> \o q
                  /\ entry' = [x \in Entries |->
                       IF x = e THEN [uri |-> u, size |-> 0, incomplete |-> TRUE,
                                      valid |-> TRUE]
                       ELSE IF x \in S THEN FreeEntry ELSE entry[x]]
                  /\ cache_size' = cache_size - SizeOf(S)
                  /\ loads' = [loads EXCEPT ![c].cached = e]
  BY DEF GetCacheEntry
<1>2. CASE \E i \in Find(u) :
             /\ lru' = ToTop(i)
             /\ loads' = [loads EXCEPT ![c].cached = lru[i]]
             /\ UNCHANGED <<entry, cache_size, docs>>
  <2>1. PICK i \in Find(u) : /\ lru' = ToTop(i)
                             /\ loads' = [loads EXCEPT ![c].cached = lru[i]]
                             /\ UNCHANGED <<entry, cache_size, docs>>
    BY <1>2
  <2>2. i \in DOMAIN lru
    BY <1>0, FindIs
  <2>3. ListInv'
    BY <2>1, <2>2, Moving DEF ListInv
  <2>4. Takes(c, i)
    BY <2>1 DEF Takes
  <2> QED
    BY <2>3, <2>4
<1>3. CASE /\ Find(u) = {}
           /\ \E freed \in SUBSET docs, e \in Entries \ ToSet(lru) :
                LET S == Collected(lru, docs \ freed, FALSE)
                IN  /\ docs' = docs \ freed
                    /\ \E q \in Without(lru, S) : lru' = <<e>> \o q
                    /\ entry' = [x \in Entries |->
                         IF x = e THEN [uri |-> u, size |-> 0, incomplete |-> TRUE,
                                        valid |-> TRUE]
                         ELSE IF x \in S THEN FreeEntry ELSE entry[x]]
                    /\ cache_size' = cache_size - SizeOf(S)
                    /\ loads' = [loads EXCEPT ![c].cached = e]
  <2>1. PICK freed \in SUBSET docs, e \in Entries \ ToSet(lru) :
              LET S == Collected(lru, docs \ freed, FALSE)
              IN  /\ docs' = docs \ freed
                  /\ \E q \in Without(lru, S) : lru' = <<e>> \o q
                  /\ entry' = [x \in Entries |->
                       IF x = e THEN [uri |-> u, size |-> 0, incomplete |-> TRUE,
                                      valid |-> TRUE]
                       ELSE IF x \in S THEN FreeEntry ELSE entry[x]]
                  /\ cache_size' = cache_size - SizeOf(S)
                  /\ loads' = [loads EXCEPT ![c].cached = e]
    BY <1>3
  <2> DEFINE S == Collected(lru, docs \ freed, FALSE)
             new == [uri |-> u, size |-> 0, incomplete |-> TRUE, valid |-> TRUE]
  <2>2. \A x \in S : x \in ToSet(lru) /\ x \notin docs \ freed /\ ~IsEntryUsed(x)
    BY CollectedUnused
  <2>3. /\ docs' = docs \ freed
        /\ entry' = [x \in Entries |->
                       IF x = e THEN new ELSE IF x \in S THEN FreeEntry ELSE entry[x]]
        /\ cache_size' = cache_size - SizeOf(S)
        /\ loads' = [loads EXCEPT ![c].cached = e]
    BY <2>1
  <2>4. PICK q \in Without(lru, S) : lru' = <<e>> \o q
    BY <2>1
  <2> HIDE DEF S
  <2>5. q \in Seq(Entries) /\ IsInjective(q) /\ ToSet(q) = ToSet(lru) \ S
    BY <1>0, <2>4, WithoutKeeps DEF ListTyped
  <2>6. lru' \in Seq(Entries) /\ IsInjective(lru') /\ ToSet(lru') = ToSet(q) \cup {e}
    BY <2>4, <2>5, OnTop
  <2>7. u \in Uris \cup {NoUri}
    BY <1>0 DEF LoadsTyped, LoadRecord
  <2>8. new \in EntryRecord /\ FreeEntry \in EntryRecord
    BY <2>7, SizesAssumption DEF EntryRecord, FreeEntry
  <2>9. new.size = 0 /\ new.uri = u
    OBVIOUS
  <2> HIDE DEF new
  <2>10. entry' \in [Entries -> EntryRecord]
    BY <1>0, <2>3, <2>8 DEF EntryTyped
  <2>11. entry'[e] = new /\ \A x \in Entries \ (S \cup {e}) : entry'[x] = entry[x]
    BY <2>3
  <2> DEFINE left == ToSet(lru) \ S
  <2>12. ToSet(lru') = left \cup {e} /\ e \notin left
    BY <2>5, <2>6
  <2>13. \A x \in left : entry'[x] = entry[x] /\ x \in ToSet(lru)
    BY <1>0, <2>11, <2>12
  <2>14. IsFiniteSet(left) /\ IsFiniteSet(left \cup {e})
    BY <1>0, FS_Subset, FS_AddElement
  <2>15. Accounted'
    <3>1. cache_size = Total(entry, ToSet(lru))
      BY <1>0, AccountedIs
    <3>2. cache_size' = cache_size - Total(entry, S)
      BY <2>3, SizeIsTotal
    <3>3. Total(entry, left) = Total(entry, ToSet(lru)) - Total(entry, S)
      BY <1>0, <2>2, TotalMinus
    <3>4. Total(entry', left) = Total(entry, left) /\ Total(entry, left) \in Nat
      BY <1>0, <2>13, <2>14, TotalFrame, TotalType
    <3>5. Total(entry', left \cup {e}) = entry'[e].size + Total(entry', (left \cup {e}) \ {e})
      <4>1. \A x \in left \cup {e} : entry'[x].size \in Nat
        BY <1>0, <2>9, <2>11, <2>13
      <4> HIDE DEF left
      <4> QED
        BY <2>14, <4>1, TotalRest
    <3>6. (left \cup {e}) \ {e} = left
      BY <2>12
    <3>7. Total(entry', ToSet(lru')) = Total(entry', left)
      <4> HIDE DEF left
      <4>1. Total(entry', left \cup {e}) = 0 + Total(entry', left)
        BY <2>9, <2>11, <3>5, <3>6
      <4>2. Total(entry', left) \in Nat
        BY <3>4
      <4> QED
        BY <2>12, <4>1, <4>2
    <3> QED
      BY <3>1, <3>2, <3>3, <3>4, <3>7, AccountedNext
  <2>16. OneValid'
    <3>1. \A x \in ToSet(lru) : ~(entry[x].valid /\ entry[x].uri = u)
      BY <1>0, <1>3, FindIs
    <3>2. \A x, y \in left :
              x # y /\ entry'[x].valid /\ entry'[y].valid => entry'[x].uri # entry'[y].uri
      BY <1>0, <2>13 DEF OneValid
    <3>3. \A x \in left : entry'[x].valid => entry'[x].uri # entry'[e].uri
      BY <2>9, <2>11, <2>13, <3>1
    <3> HIDE DEF left
    <3> QED
      BY <2>12, <3>2, <3>3 DEF OneValid
  <2>17. ListInv'
    BY <2>6, <2>10, <2>15, <2>16 DEF ListInv, ListTyped, EntryTyped
  <2>18. Creates(c, e, S)
    BY <2>2, <2>3, <2>5, <2>6, <2>11 DEF Creates, new
  <2> QED
    BY <2>17, <2>18
<1> QED
  BY <1>1, <1>2, <1>3

-----------------------------------------------------------------------------
(* StoreInv is an inductive invariant.                                     *)

\* What a connection does to the entry it loads.
Rewrites(e) ==
    /\ e \in ToSet(lru)
    /\ lru' = lru
    /\ EntryTyped'
    /\ \A x \in Entries \ {e} : entry'[x] = entry[x]
    /\ entry'[e].uri = entry[e].uri
    /\ entry'[e].valid => entry[e].valid
    /\ Resize(e, entry'[e].size)

LEMMA Adding ==
    ASSUME StoreInv, NEW c \in Conns, AddData(c)
    PROVE  Rewrites(loads[c].cached) /\ UNCHANGED <<docs, loads>>
<1> DEFINE e == loads[c].cached
<1>1. e \in ToSet(lru) /\ e \in Entries /\ entry \in [Entries -> EntryRecord]
  BY Listed DEF AddData, StoreInv, EntryTyped
<1>2. PICK n \in Sizes, i \in {entry[e].incomplete, TRUE} :
          /\ entry' = [entry EXCEPT ![e].size = n, ![e].incomplete = i]
          /\ Resize(e, n)
  BY DEF AddData
<1>3. entry[e] \in EntryRecord /\ i \in BOOLEAN
  BY <1>1 DEF EntryRecord
<1> HIDE DEF e
<1>4. /\ entry' \in [Entries -> EntryRecord] /\ entry'[e].size = n
      /\ entry'[e].uri = entry[e].uri /\ entry'[e].valid = entry[e].valid
      /\ \A x \in Entries \ {e} : entry'[x] = entry[x]
  BY <1>1, <1>2, <1>3 DEF EntryRecord
<1>5. lru' = lru /\ UNCHANGED <<docs, loads>>
  BY DEF AddData
<1>6. Resize(e, entry'[e].size)
  BY <1>2, <1>4
<1>7. Rewrites(e)
  BY <1>1, <1>4, <1>5, <1>6 DEF Rewrites, EntryTyped
<1> QED
  BY <1>5, <1>7 DEF e

LEMMA Ending ==
    ASSUME StoreInv, NEW c \in Conns, EndConnection(c)
    PROVE  /\ Rewrites(loads[c].cached) \/ UNCHANGED <<lru, entry, cache_size>>
           /\ docs' = docs /\ loads' = [loads EXCEPT ![c] = FreeLoad]
<1> DEFINE e == loads[c].cached
<1>1. /\ lru' = lru /\ docs' = docs /\ loads' = [loads EXCEPT ![c] = FreeLoad]
      /\ \/ UNCHANGED <<entry, cache_size>>
         \/ /\ e \in ToSet(lru)
            /\ \E n \in {m \in Sizes : m <= entry[e].size} :
                 /\ entry' = [entry EXCEPT ![e].size = n, ![e].incomplete = FALSE]
                 /\ Resize(e, n)
  BY DEF EndConnection
<1>2. ASSUME e \in ToSet(lru), NEW n \in Sizes, Resize(e, n),
             entry' = [entry EXCEPT ![e].size = n, ![e].incomplete = FALSE]
      PROVE  Rewrites(e)
  <2>1. e \in Entries /\ entry \in [Entries -> EntryRecord] /\ entry[e] \in EntryRecord
    BY <1>2, Listed DEF StoreInv, EntryTyped
  <2> HIDE DEF e
  <2>2. /\ entry' \in [Entries -> EntryRecord] /\ entry'[e].size = n
        /\ entry'[e].uri = entry[e].uri /\ entry'[e].valid = entry[e].valid
        /\ \A x \in Entries \ {e} : entry'[x] = entry[x]
    BY <1>2, <2>1 DEF EntryRecord
  <2>3. Resize(e, entry'[e].size)
    BY <1>2, <2>2
  <2> QED
    BY <1>1, <1>2, <2>2, <2>3 DEF Rewrites, EntryTyped
<1> QED
  BY <1>1, <1>2

LEMMA Stripping ==
    ASSUME StoreInv, NEW c \in Conns, Strip(c), loads[c].cached \in ToSet(lru), lru' = lru
    PROVE  /\ Rewrites(loads[c].cached)
           /\ loads[c].detached \/ ~entry'[loads[c].cached].valid
<1> DEFINE e == loads[c].cached
           valid == IF loads[c].detached THEN entry[e].valid ELSE FALSE
<1>1. PICK n \in Sizes :
          /\ entry' = [entry EXCEPT ![e].size = n, ![e].valid = valid]
          /\ Resize(e, n)
  BY DEF Strip, ValidAfterDetach
<1>2. e \in Entries /\ entry \in [Entries -> EntryRecord] /\ entry[e] \in EntryRecord
  BY Listed DEF StoreInv, EntryTyped
<1>3. valid \in BOOLEAN /\ (valid => entry[e].valid) /\ (loads[c].detached \/ ~valid)
  BY <1>2 DEF EntryRecord
<1> HIDE DEF e, valid
<1>4. /\ entry' \in [Entries -> EntryRecord] /\ entry'[e].size = n
      /\ entry'[e].uri = entry[e].uri /\ entry'[e].valid = valid
      /\ \A x \in Entries \ {e} : entry'[x] = entry[x]
  BY <1>1, <1>2, <1>3 DEF EntryRecord
<1>5. Resize(e, entry'[e].size)
  BY <1>1, <1>4
<1>6. e \in ToSet(lru)
  BY DEF e
<1>7. Rewrites(e)
  BY <1>3, <1>4, <1>5, <1>6 DEF Rewrites, EntryTyped
<1>8. loads[c].detached \/ ~entry'[e].valid
  BY <1>3, <1>4
<1> QED
  BY <1>7, <1>8 DEF e

\* A connection is detached, strips the entry again, or has only had documents
\* freed.
LEMMA Detaching ==
    ASSUME StoreInv, NEW c \in Conns, DetachConnection(c)
    PROVE  /\ docs' \in SUBSET docs
           /\ \/ /\ Rewrites(loads[c].cached)
                 /\ loads[c].cached \in ToSet(lru)
                 /\ loads[c].detached
                      \/ (loads[c].uri \in LargeUris /\ ~entry'[loads[c].cached].valid)
                 /\ loads' = [loads EXCEPT ![c].detached = TRUE]
              \/ UNCHANGED <<lru, entry, cache_size, loads>>
<1>1. /\ loads[c].cached \in ToSet(lru) /\ docs' \in SUBSET docs /\ lru' = lru
      /\ Strip(c) \/ UNCHANGED <<entry, cache_size, loads>>
      /\ loads[c].detached \/ loads[c].uri \in LargeUris
  BY DEF DetachConnection
<1>2. CASE Strip(c)
  <2>1. loads' = [loads EXCEPT ![c].detached = TRUE]
    BY <1>2 DEF Strip
  <2>2. /\ Rewrites(loads[c].cached)
        /\ loads[c].detached \/ ~entry'[loads[c].cached].valid
    BY <1>1, <1>2, Stripping
  <2> QED
    BY <1>1, <2>1, <2>2
<1> QED
  BY <1>1, <1>2

LEMMA Rewriting ==
    ASSUME StoreInv, NEW e, Rewrites(e)
    PROVE  ListInv'
BY Resizing DEF Rewrites, ListInv

\* The cache manager.
LEMMA Managing ==
    ASSUME StoreInv, NEW e, DeleteItem(e) \/ Invalidate(e)
    PROVE  /\ ListInv' /\ UNCHANGED <<docs, loads>>
           /\ \/ /\ lru' = lru
                 /\ \A x \in Entries : /\ entry'[x].uri = entry[x].uri
                                       /\ entry'[x].valid => entry[x].valid
              \/ /\ e \notin docs /\ (UsersWait => ~IsEntryUsed(e))
                 /\ Drops({e})
<1>1. CASE DeleteItem(e)
  <2>1. /\ e \in ToSet(lru) /\ e \notin docs /\ (UsersWait => ~IsEntryUsed(e))
        /\ Deleted(lru, {e}) /\ UNCHANGED <<docs, loads>>
    BY <1>1 DEF DeleteItem, IsObjectUsed
  <2>2. {e} \in SUBSET ToSet(lru) /\ lru \in Seq(Entries) /\ IsInjective(lru)
    BY <2>1 DEF StoreInv, ListTyped
  <2>3. /\ ListTyped' /\ EntryTyped' /\ Accounted' /\ OneValid'
        /\ ToSet(lru') = ToSet(lru) \ {e}
        /\ \A x \in Entries \ {e} : entry'[x] = entry[x]
    BY <2>1, <2>2, Deletion
  <2> QED
    BY <2>1, <2>2, <2>3 DEF ListInv, Drops
<1>2. CASE Invalidate(e)
  <2>1. /\ e \in ToSet(lru) /\ entry' = [entry EXCEPT ![e].valid = FALSE]
        /\ UNCHANGED <<lru, cache_size, docs, loads>>
    BY <1>2 DEF Invalidate
  <2>2. e \in Entries /\ entry \in [Entries -> EntryRecord] /\ entry[e] \in EntryRecord
    BY <2>1, Listed DEF StoreInv, EntryTyped
  <2>3. /\ entry' \in [Entries -> EntryRecord] /\ entry'[e].size = entry[e].size
        /\ entry'[e].uri = entry[e].uri /\ entry'[e].valid = FALSE
        /\ \A x \in Entries \ {e} : entry'[x] = entry[x]
    BY <2>1, <2>2 DEF EntryRecord
  <2>4. Resize(e, entry'[e].size)
    <3>1. cache_size \in Nat /\ entry[e].size \in Nat
      <4>1. cache_size = Total(entry, ToSet(lru))
        BY AccountedIs DEF StoreInv
      <4>2. IsFiniteSet(ToSet(lru)) /\ \A x \in ToSet(lru) : entry[x].size \in Nat
        BY Listed DEF StoreInv
      <4> QED
        BY <2>1, <4>1, <4>2, TotalType
    <3> QED
      BY <2>1, <2>3, <3>1 DEF Resize
  <2>5. ListInv'
    <3>1. Rewrites(e)
      BY <2>1, <2>3, <2>4 DEF Rewrites, EntryTyped
    <3> QED
      BY <3>1, Rewriting
  <2>6. \A x \in Entries : /\ entry'[x].uri = entry[x].uri
                           /\ entry'[x].valid => entry[x].valid
    BY <2>3
  <2> QED
    BY <2>1, <2>5, <2>6
<1> QED
  BY <1>1, <1>2

\* render_document()
LEMMA Showing ==
    ASSUME StoreInv, NEW u, Show(u)
    PROVE  /\ ListInv' /\ loads' = loads
           /\ docs' \in SUBSET Entries
           /\ \E S : Drops(S) /\ \A e \in S : e \notin docs' /\ ~IsEntryUsed(e)
           /\ \A e \in docs' \ docs : e \in ToSet(lru)
<1>1. PICK i \in Find(u) :
         IF IsObjectUsed(lru[i])
         THEN lru' = ToTop(i) /\ UNCHANGED <<entry, cache_size, docs>>
         ELSE ShrinkMemoryFrom(ToTop(i), docs \cup {lru[i]}, {lru[i]}, FALSE)
  BY DEF Show
<1>2. i \in DOMAIN lru /\ lru[i] \in ToSet(lru) /\ ToSet(lru) \in SUBSET Entries
  BY FindIs, Listed DEF StoreInv
<1>3. ToTop(i) \in Seq(Entries) /\ IsInjective(ToTop(i)) /\ ToSet(ToTop(i)) = ToSet(lru)
  BY <1>2, ToTopKeeps DEF StoreInv
<1>4. loads' = loads /\ docs \in SUBSET Entries
  BY DEF Show, StoreInv, DocsTyped
<1>5. CASE IsObjectUsed(lru[i])
  <2>1. lru' = ToTop(i) /\ UNCHANGED <<entry, cache_size, docs>>
    BY <1>1, <1>5
  <2>2. ListInv' /\ ToSet(lru') = ToSet(lru)
    BY <1>2, <2>1, Moving DEF ListInv
  <2>3. Drops({})
    BY <2>1, <2>2 DEF Drops
  <2> QED
    BY <1>4, <2>1, <2>2, <2>3
<1>6. CASE ~IsObjectUsed(lru[i])
  <2>1. ShrinkMemoryFrom(ToTop(i), docs \cup {lru[i]}, {lru[i]}, FALSE)
    BY <1>1, <1>6
  <2> DEFINE locked == docs \cup {lru[i]}
  <2>2. locked \in SUBSET Entries
    BY <1>2, <1>4
  <2> HIDE DEF locked
  <2>3. /\ ListInv'
        /\ docs' \in SUBSET locked
        /\ \E S : Drops(S) /\ \A e \in S : e \notin docs' /\ ~IsEntryUsed(e)
    BY <1>3, <2>1, <2>2, Shrinking DEF locked
  <2>4. \A e \in docs' \ docs : e \in ToSet(lru)
    BY <1>2, <2>3 DEF locked
  <2> QED
    BY <1>4, <2>2, <2>3, <2>4
<1> QED
  BY <1>5, <1>6

LEMMA Initially ==
    ASSUME Init
    PROVE  StoreInv
<1>1. lru = <<>> /\ entry = [e \in Entries |-> FreeEntry] /\ cache_size = 0 /\ docs = {}
      /\ loads = [c \in Conns |-> FreeLoad]
  BY DEF Init
<1>2. ListTyped
  BY <1>1 DEF ListTyped, IsInjective
<1>3. EntryTyped
  BY <1>1, SizesAssumption DEF EntryTyped, EntryRecord, FreeEntry
<1>4. LoadsTyped
  BY <1>1 DEF LoadsTyped, LoadRecord, FreeLoad
<1>5. DocsTyped
  BY <1>1 DEF DocsTyped
<1>6. ToSet(lru) = {}
  BY <1>1 DEF ToSet
<1>7. Accounted
  BY <1>1, <1>6, AccountedIs, TotalStep, FS_EmptySet
<1>8. OneValid
  BY <1>6 DEF OneValid
<1> QED
  BY <1>2, <1>3, <1>4, <1>5, <1>7, <1>8 DEF StoreInv

LEMMA StoreStep ==
    ASSUME StoreInv, [Next]_vars
    PROVE  StoreInv'
<1>0. DocsTyped /\ LoadsTyped /\ ToSet(lru) \in SUBSET Entries
  BY Listed DEF StoreInv
<1>1. SUFFICES ListInv' /\ docs' \subseteq Entries /\ loads' \in [Conns -> LoadRecord]
  BY DEF ListInv, StoreInv, DocsTyped, LoadsTyped
<1>2. ASSUME UNCHANGED <<lru, entry, cache_size>>
      PROVE  ListInv'
  BY <1>2, AccountedIs, AccountedNext DEF StoreInv, ListInv, ListTyped, EntryTyped, OneValid
<1>3. ASSUME NEW u \in Uris, LoadUri(u)
      PROVE  ListInv' /\ docs' \subseteq Entries /\ loads' \in [Conns -> LoadRecord]
  <2>1. ListInv'
    BY <1>2, <1>3, Validating DEF LoadUri
  <2>2. docs' = docs
    BY <1>3 DEF LoadUri
  <2>3. loads' \in [Conns -> LoadRecord]
    <3>1. CASE UNCHANGED loads
      BY <1>0, <3>1 DEF LoadsTyped
    <3>2. ASSUME NEW c \in Conns, loads' = [loads EXCEPT ![c].uri = u]
          PROVE  loads' \in [Conns -> LoadRecord]
      BY <1>0, <3>2 DEF LoadsTyped, LoadRecord
    <3> QED
      BY <1>3, <3>1, <3>2 DEF LoadUri
  <2> QED
    BY <1>0, <2>1, <2>2, <2>3 DEF DocsTyped
<1>4. ASSUME NEW u \in Uris, Show(u)
      PROVE  ListInv' /\ docs' \subseteq Entries /\ loads' \in [Conns -> LoadRecord]
  BY <1>0, <1>4, Showing DEF LoadsTyped
<1>5. ASSUME NEW c \in Conns, GetCacheEntry(c)
      PROVE  ListInv' /\ docs' \subseteq Entries /\ loads' \in [Conns -> LoadRecord]
  <2>1. ListInv'
    BY <1>5, Getting
  <2>2. docs' \in SUBSET docs /\ \E e \in Entries : loads' = [loads EXCEPT ![c].cached = e]
    <3>1. CASE \E i : Takes(c, i)
      <4>1. PICK i : Takes(c, i)
        BY <3>1
      <4>2. i \in DOMAIN lru
        BY <4>1, FindIs DEF Takes, StoreInv
      <4>3. lru[i] \in Entries
        BY <4>2, <1>0, Listed DEF StoreInv
      <4> QED
        BY <4>1, <4>3 DEF Takes
    <3>2. CASE \E e, S : Creates(c, e, S)
      BY <3>2 DEF Creates
    <3> QED
      BY <1>5, <3>1, <3>2, Getting
  <2> QED
    BY <1>0, <2>1, <2>2 DEF DocsTyped, LoadsTyped, LoadRecord
<1>6. ASSUME NEW c \in Conns, AddData(c)
      PROVE  ListInv' /\ docs' \subseteq Entries /\ loads' \in [Conns -> LoadRecord]
  BY <1>0, <1>6, Adding, Rewriting DEF DocsTyped, LoadsTyped
<1>7. ASSUME NEW c \in Conns, EndConnection(c)
      PROVE  ListInv' /\ docs' \subseteq Entries /\ loads' \in [Conns -> LoadRecord]
  <2>1. /\ Rewrites(loads[c].cached) \/ UNCHANGED <<lru, entry, cache_size>>
        /\ docs' = docs /\ loads' = [loads EXCEPT ![c] = FreeLoad]
    BY <1>7, Ending
  <2>2. ListInv'
    BY <1>2, <2>1, Rewriting
  <2>3. FreeLoad \in LoadRecord
    BY DEF FreeLoad, LoadRecord
  <2> QED
    BY <1>0, <2>1, <2>2, <2>3 DEF DocsTyped, LoadsTyped
<1>8. ASSUME NEW c \in Conns, DetachConnection(c)
      PROVE  ListInv' /\ docs' \subseteq Entries /\ loads' \in [Conns -> LoadRecord]
  <2>1. /\ docs' \in SUBSET docs
        /\ Rewrites(loads[c].cached) \/ UNCHANGED <<lru, entry, cache_size>>
        /\ loads' = [loads EXCEPT ![c].detached = TRUE] \/ loads' = loads
    BY <1>8, Detaching
  <2>2. ListInv'
    BY <1>2, <2>1, Rewriting
  <2> QED
    BY <1>0, <2>1, <2>2 DEF DocsTyped, LoadsTyped, LoadRecord
<1>9. ASSUME NEW e \in Entries, Leave(e)
      PROVE  ListInv' /\ docs' \subseteq Entries /\ loads' \in [Conns -> LoadRecord]
  BY <1>0, <1>2, <1>9 DEF Leave, DocsTyped, LoadsTyped
<1>10. ASSUME NEW e \in Entries, DeleteItem(e) \/ Invalidate(e)
       PROVE  ListInv' /\ docs' \subseteq Entries /\ loads' \in [Conns -> LoadRecord]
  BY <1>0, <1>10, Managing DEF DocsTyped, LoadsTyped
<1>11. ASSUME NEW whole \in BOOLEAN, ShrinkMemory(whole)
       PROVE  ListInv' /\ docs' \subseteq Entries /\ loads' \in [Conns -> LoadRecord]
  <2>1. ShrinkMemoryFrom(lru, docs, {}, whole) /\ loads' = loads
    BY <1>11 DEF ShrinkMemory
  <2>2. lru \in Seq(Entries) /\ IsInjective(lru) /\ docs \in SUBSET Entries
    BY DEF StoreInv, ListTyped, DocsTyped
  <2>3. ListInv' /\ docs' \in SUBSET docs
    BY <2>1, <2>2, Shrinking
  <2> QED
    BY <1>0, <2>1, <2>2, <2>3 DEF LoadsTyped
<1>12. CASE UNCHANGED vars
  BY <1>0, <1>2, <1>12 DEF vars, DocsTyped, LoadsTyped
<1>13. CASE Next
  BY <1>3, <1>4, <1>5, <1>6, <1>7, <1>8, <1>9, <1>10, <1>11, <1>13 DEF Next
<1> QED
  BY <1>12, <1>13

\* cache_size is the sum of the sizes of the entries in the list, whichever way
\* add_fragment(), truncate_entry(), normalize_cache_entry(), delete_entry_content()
\* and garbage_collection() change them, and no two valid entries in the list have
\* the same URI, so that find_in_cache() has one answer.
THEOREM OneAnswer == Spec => []OneValidPerUri
<1>1. Init => StoreInv
  BY Initially
<1>2. StoreInv /\ [Next]_vars => StoreInv'
  BY StoreStep
<1>3. StoreInv => OneValidPerUri
  <2> SUFFICES ASSUME StoreInv PROVE OneValidPerUri
    OBVIOUS
  <2>1. TypeOK
    BY DEF StoreInv, TypeOK, ListTyped, EntryTyped, DocsTyped, LoadsTyped, Accounted
  <2>2. ASSUME NEW i \in DOMAIN lru, NEW j \in DOMAIN lru,
               i # j, entry[lru[i]].valid, entry[lru[j]].valid
        PROVE  entry[lru[i]].uri # entry[lru[j]].uri
    <3>1. lru[i] # lru[j]
      BY <2>2 DEF StoreInv, ListTyped, IsInjective
    <3>2. lru[i] \in ToSet(lru) /\ lru[j] \in ToSet(lru)
      BY Listed DEF StoreInv
    <3> QED
      BY <2>2, <3>1, <3>2 DEF StoreInv, OneValid
  <2> QED
    BY <2>1, <2>2 DEF OneValidPerUri
<1> QED
  BY <1>1, <1>2, <1>3, PTL DEF Spec

\* What OneAnswer is proved from, which the theorems below use.
THEOREM StoreKept == Spec => []StoreInv
<1>1. Init => StoreInv
  BY Initially
<1>2. StoreInv /\ [Next]_vars => StoreInv'
  BY StoreStep
<1> QED
  BY <1>1, <1>2, PTL DEF Spec

-----------------------------------------------------------------------------
(* The users of the entries, when nobody deletes an entry that is being    *)
(* loaded: UsersWait is what load_uri() and the cache manager do not check.*)

\* What a step does to the connections.
Same == loads' = loads
Starts(c, u) ==
    /\ u \in Uris /\ Loading(u) = {} /\ loads[c].uri = NoUri
    /\ loads' = [loads EXCEPT ![c].uri = u]
MayGet(c) ==
    /\ loads[c].uri # NoUri
    /\ loads[c].cached = NoEntry \/ loads[c].uri \in HttpUris
TakesOne(c) == \E i : Takes(c, i)
CreatesOne(c) == \E e, S : Creates(c, e, S)
Ends(c) == loads' = [loads EXCEPT ![c] = FreeLoad]
Detaches(c) ==
    /\ loads[c].cached \in ToSet(lru)
    /\ loads[c].detached
         \/ (loads[c].uri \in LargeUris /\ ~entry'[loads[c].cached].valid)
    /\ loads' = [loads EXCEPT ![c].detached = TRUE]

LEMMA LoadsStep ==
    ASSUME StoreInv, [Next]_vars
    PROVE  \/ Same
           \/ \E c \in Conns, u \in Uris : Starts(c, u)
           \/ \E c \in Conns : MayGet(c) /\ (TakesOne(c) \/ CreatesOne(c))
           \/ \E c \in Conns : Ends(c)
           \/ \E c \in Conns : Detaches(c)
<1>1. ASSUME NEW u \in Uris, LoadUri(u)
      PROVE  Same \/ \E c \in Conns : Starts(c, u)
  BY <1>1 DEF LoadUri, Same, Starts
<1>2. ASSUME NEW u \in Uris, Show(u) PROVE Same
  BY <1>2 DEF Show, Same
<1>3. ASSUME NEW c \in Conns, GetCacheEntry(c)
      PROVE  MayGet(c) /\ (TakesOne(c) \/ CreatesOne(c))
  <2>1. MayGet(c)
    BY <1>3 DEF GetCacheEntry, MayGet
  <2> QED
    BY <1>3, <2>1, Getting DEF TakesOne, CreatesOne
<1>4. ASSUME NEW c \in Conns, AddData(c) PROVE Same
  BY <1>4, Adding DEF Same
<1>5. ASSUME NEW c \in Conns, EndConnection(c) PROVE Ends(c)
  BY <1>5, Ending DEF Ends
<1>6. ASSUME NEW c \in Conns, DetachConnection(c) PROVE Same \/ Detaches(c)
  BY <1>6, Detaching DEF Detaches, Same
<1>7. ASSUME NEW e \in Entries, Leave(e) \/ DeleteItem(e) \/ Invalidate(e) PROVE Same
  BY <1>7 DEF Leave, DeleteItem, Invalidate, Same
<1>8. ASSUME NEW whole \in BOOLEAN, ShrinkMemory(whole) PROVE Same
  BY <1>8 DEF ShrinkMemory, Same
<1>9. CASE UNCHANGED vars
  BY <1>9 DEF vars, Same
<1>10. CASE Next
  BY <1>1, <1>2, <1>3, <1>4, <1>5, <1>6, <1>7, <1>8, <1>10 DEF Next
<1> QED
  BY <1>9, <1>10

\* After a step, the entries that were in use before it are still listed, are
\* those of the same URIs, and are valid only if they have been.
Loaded ==
    \A c \in Conns :
        loads[c].cached # NoEntry =>
            /\ loads[c].cached \in ToSet(lru')
            /\ entry'[loads[c].cached].uri = loads[c].uri
            /\ entry'[loads[c].cached].valid => entry[loads[c].cached].valid

LEMMA HeldWhenDropped ==
    ASSUME StoreInv, UsersHaveEntry, NEW S, Drops(S), \A e \in S : ~IsEntryUsed(e)
    PROVE  Loaded
<1> SUFFICES ASSUME NEW c \in Conns, loads[c].cached # NoEntry
             PROVE  /\ loads[c].cached \in ToSet(lru')
                    /\ entry'[loads[c].cached] = entry[loads[c].cached]
                    /\ entry[loads[c].cached].uri = loads[c].uri
  BY DEF Loaded
<1>1. loads[c].cached \in ToSet(lru) /\ entry[loads[c].cached].uri = loads[c].uri
  BY DEF UsersHaveEntry
<1>2. loads[c].cached \notin S
  BY DEF IsEntryUsed
<1>3. loads[c].cached \in Entries
  BY <1>1, Listed DEF StoreInv
<1> QED
  BY <1>1, <1>2, <1>3 DEF Drops

LEMMA HeldWhenRewritten ==
    ASSUME StoreInv, UsersHaveEntry, lru' = lru,
           \A x \in Entries : /\ entry'[x].uri = entry[x].uri
                              /\ entry'[x].valid => entry[x].valid
    PROVE  Loaded
<1>1. ToSet(lru) \in SUBSET Entries
  BY Listed DEF StoreInv
<1>2. \A c \in Conns : loads[c].cached # NoEntry =>
          loads[c].cached \in ToSet(lru) /\ entry[loads[c].cached].uri = loads[c].uri
  BY DEF UsersHaveEntry
<1> QED
  BY <1>1, <1>2 DEF Loaded

LEMMA Holding ==
    ASSUME UsersWait, StoreInv, UsersHaveEntry, [Next]_vars
    PROVE  Loaded /\ docs' \subseteq ToSet(lru')
<1>0. docs \subseteq ToSet(lru) /\ ToSet(lru) \in SUBSET Entries
  BY Listed DEF UsersHaveEntry, StoreInv
<1>1. ASSUME NEW S, Drops(S), \A e \in S : e \notin docs' /\ ~IsEntryUsed(e),
             docs' \subseteq ToSet(lru)
      PROVE  Loaded /\ docs' \subseteq ToSet(lru')
  <2>1. Loaded
    BY <1>1, HeldWhenDropped
  <2> QED
    BY <1>1, <2>1 DEF Drops
<1>2. ASSUME lru' = lru, docs' \in SUBSET docs,
             \A x \in Entries : /\ entry'[x].uri = entry[x].uri
                                /\ entry'[x].valid => entry[x].valid
      PROVE  Loaded /\ docs' \subseteq ToSet(lru')
  BY <1>0, <1>2, HeldWhenRewritten
<1>3. ASSUME NEW e, Rewrites(e), docs' \in SUBSET docs
      PROVE  Loaded /\ docs' \subseteq ToSet(lru')
  BY <1>2, <1>3 DEF Rewrites
<1>4. ASSUME NEW u \in Uris, LoadUri(u) PROVE Loaded /\ docs' \subseteq ToSet(lru')
  <2>1. docs' = docs
    BY <1>4 DEF LoadUri
  <2>2. CASE Validate(u)
    <3>1. PICK S : Drops(S) /\ \A e \in S : e \notin docs /\ (UsersWait => ~IsEntryUsed(e))
      BY <2>2, Validating
    <3> QED
      BY <1>0, <1>1, <2>1, <3>1
  <2>3. CASE UNCHANGED <<lru, entry, cache_size>>
    BY <1>2, <2>1, <2>3
  <2> QED
    BY <1>4, <2>2, <2>3 DEF LoadUri
<1>5. ASSUME NEW u \in Uris, Show(u) PROVE Loaded /\ docs' \subseteq ToSet(lru')
  <2>1. /\ \E S : Drops(S) /\ \A e \in S : e \notin docs' /\ ~IsEntryUsed(e)
        /\ \A e \in docs' \ docs : e \in ToSet(lru)
    BY <1>5, Showing
  <2>2. docs' \subseteq ToSet(lru)
    BY <1>0, <2>1
  <2> QED
    BY <1>1, <2>1, <2>2
<1>6. ASSUME NEW c \in Conns, GetCacheEntry(c) PROVE Loaded /\ docs' \subseteq ToSet(lru')
  <2>1. CASE TakesOne(c)
    <3>1. PICK i : Takes(c, i)
      BY <2>1 DEF TakesOne
    <3>2. i \in DOMAIN lru
      BY <3>1, FindIs DEF Takes, StoreInv
    <3>3. ToSet(lru') = ToSet(lru) /\ UNCHANGED <<entry, docs>>
      BY <3>1, <3>2, ToTopKeeps DEF Takes, StoreInv
    <3>4. Drops({})
      BY <3>3 DEF Drops
    <3> QED
      BY <1>0, <1>1, <3>3, <3>4
  <2>2. CASE CreatesOne(c)
    <3>1. PICK e, S : Creates(c, e, S)
      BY <2>2 DEF CreatesOne
    <3>2. /\ e \notin ToSet(lru) /\ docs' \in SUBSET docs
          /\ \A x \in S : x \notin docs' /\ ~IsEntryUsed(x)
          /\ ToSet(lru') = (ToSet(lru) \ S) \cup {e}
          /\ \A x \in Entries \ (S \cup {e}) : entry'[x] = entry[x]
      BY <3>1 DEF Creates
    <3>3. docs' \subseteq ToSet(lru')
      BY <1>0, <3>2
    <3>4. ASSUME NEW d \in Conns, loads[d].cached # NoEntry
          PROVE  /\ loads[d].cached \in ToSet(lru')
                 /\ entry'[loads[d].cached] = entry[loads[d].cached]
                 /\ entry[loads[d].cached].uri = loads[d].uri
      <4>1. loads[d].cached \in ToSet(lru) /\ entry[loads[d].cached].uri = loads[d].uri
        BY <3>4 DEF UsersHaveEntry
      <4>2. loads[d].cached \notin S
        BY <3>2 DEF IsEntryUsed
      <4> QED
        BY <1>0, <3>2, <4>1, <4>2
    <3> QED
      BY <3>3, <3>4 DEF Loaded
  <2> QED
    BY <1>6, <2>1, <2>2, Getting DEF TakesOne, CreatesOne
<1>7. ASSUME NEW c \in Conns, AddData(c) PROVE Loaded /\ docs' \subseteq ToSet(lru')
  BY <1>3, <1>7, Adding
<1>8. ASSUME NEW c \in Conns, EndConnection(c) PROVE Loaded /\ docs' \subseteq ToSet(lru')
  <2>1. /\ Rewrites(loads[c].cached) \/ UNCHANGED <<lru, entry, cache_size>>
        /\ docs' = docs
    BY <1>8, Ending
  <2>2. CASE Rewrites(loads[c].cached)
    BY <1>3, <2>1, <2>2
  <2>3. CASE UNCHANGED <<lru, entry, cache_size>>
    BY <1>2, <2>1, <2>3
  <2> QED
    BY <2>1, <2>2, <2>3
<1>9. ASSUME NEW c \in Conns, DetachConnection(c) PROVE Loaded /\ docs' \subseteq ToSet(lru')
  <2>1. /\ Rewrites(loads[c].cached) \/ UNCHANGED <<lru, entry, cache_size>>
        /\ docs' \in SUBSET docs
    BY <1>9, Detaching
  <2>2. CASE Rewrites(loads[c].cached)
    BY <1>3, <2>1, <2>2
  <2>3. CASE UNCHANGED <<lru, entry, cache_size>>
    BY <1>2, <2>1, <2>3
  <2> QED
    BY <2>1, <2>2, <2>3
<1>10. ASSUME NEW e \in Entries, Leave(e) PROVE Loaded /\ docs' \subseteq ToSet(lru')
  BY <1>2, <1>10 DEF Leave
<1>11. ASSUME NEW e \in Entries, DeleteItem(e) \/ Invalidate(e)
       PROVE  Loaded /\ docs' \subseteq ToSet(lru')
  <2>1. /\ docs' = docs
        /\ \/ /\ lru' = lru
              /\ \A x \in Entries : /\ entry'[x].uri = entry[x].uri
                                    /\ entry'[x].valid => entry[x].valid
           \/ /\ e \notin docs /\ (UsersWait => ~IsEntryUsed(e))
              /\ Drops({e})
    BY <1>11, Managing
  <2>2. CASE /\ lru' = lru
             /\ \A x \in Entries : /\ entry'[x].uri = entry[x].uri
                                   /\ entry'[x].valid => entry[x].valid
    BY <1>2, <2>1, <2>2
  <2>3. CASE e \notin docs /\ (UsersWait => ~IsEntryUsed(e)) /\ Drops({e})
    BY <1>0, <1>1, <2>1, <2>3
  <2> QED
    BY <2>1, <2>2, <2>3
<1>12. ASSUME NEW whole \in BOOLEAN, ShrinkMemory(whole)
       PROVE  Loaded /\ docs' \subseteq ToSet(lru')
  <2>1. ShrinkMemoryFrom(lru, docs, {}, whole)
    BY <1>12 DEF ShrinkMemory
  <2>2. lru \in Seq(Entries) /\ IsInjective(lru) /\ docs \in SUBSET Entries
    BY DEF StoreInv, ListTyped, DocsTyped
  <2>3. /\ docs' \in SUBSET docs
        /\ \E S : Drops(S) /\ \A e \in S : e \notin docs' /\ ~IsEntryUsed(e)
    BY <2>1, <2>2, Shrinking
  <2>4. docs' \subseteq ToSet(lru)
    BY <1>0, <2>3
  <2> QED
    BY <1>1, <2>3, <2>4
<1>13. CASE UNCHANGED vars
  BY <1>2, <1>13 DEF vars
<1>14. CASE Next
  BY <1>4, <1>5, <1>6, <1>7, <1>8, <1>9, <1>10, <1>11, <1>12, <1>14 DEF Next
<1> QED
  BY <1>13, <1>14

\* A connection that has no URI has no entry.
Idle == \A c \in Conns : loads[c].uri = NoUri => loads[c].cached = NoEntry

UsersInv == StoreInv /\ UsersHaveEntry /\ Idle

LEMMA UsersStep ==
    ASSUME UsersWait, UsersInv, [Next]_vars
    PROVE  UsersInv'
<1>0. /\ StoreInv /\ UsersHaveEntry /\ Idle
      /\ loads \in [Conns -> LoadRecord] /\ ToSet(lru) \in SUBSET Entries
  BY Listed DEF UsersInv, StoreInv, LoadsTyped
<1>1. StoreInv'
  BY <1>0, StoreStep
<1>2. Loaded /\ docs' \subseteq ToSet(lru')
  BY <1>0, Holding
<1>3. SUFFICES ASSUME NEW d \in Conns
               PROVE  /\ loads'[d].cached # NoEntry =>
                            /\ loads'[d].cached \in ToSet(lru')
                            /\ entry'[loads'[d].cached].uri = loads'[d].uri
                      /\ loads'[d].uri = NoUri => loads'[d].cached = NoEntry
  BY <1>1, <1>2 DEF UsersInv, UsersHaveEntry, Idle
<1>4. /\ loads[d].cached # NoEntry => /\ loads[d].cached \in ToSet(lru')
                                      /\ entry'[loads[d].cached].uri = loads[d].uri
      /\ loads[d].uri = NoUri => loads[d].cached = NoEntry
  BY <1>0, <1>2 DEF Loaded, Idle
<1>5. ASSUME loads'[d] = loads[d]
      PROVE  /\ loads'[d].cached # NoEntry =>
                   /\ loads'[d].cached \in ToSet(lru')
                   /\ entry'[loads'[d].cached].uri = loads'[d].uri
             /\ loads'[d].uri = NoUri => loads'[d].cached = NoEntry
  BY <1>4, <1>5
<1>6. CASE Same
  BY <1>5, <1>6 DEF Same
<1>7. ASSUME NEW c \in Conns, NEW u \in Uris, Starts(c, u)
      PROVE  /\ loads'[d].cached # NoEntry =>
                   /\ loads'[d].cached \in ToSet(lru')
                   /\ entry'[loads'[d].cached].uri = loads'[d].uri
             /\ loads'[d].uri = NoUri => loads'[d].cached = NoEntry
  <2>1. loads[c].uri = NoUri /\ loads' = [loads EXCEPT ![c].uri = u]
    BY <1>7 DEF Starts
  <2>2. CASE d = c
    <3>1. loads'[d].cached = loads[d].cached
      BY <1>0, <2>1, <2>2 DEF LoadRecord
    <3> QED
      BY <1>4, <2>1, <2>2, <3>1
  <2>3. CASE d # c
    <3>1. loads'[d] = loads[d]
      BY <1>0, <2>1, <2>3
    <3> QED
      BY <1>5, <3>1
  <2> QED
    BY <2>2, <2>3
<1>8. ASSUME NEW c \in Conns, MayGet(c), TakesOne(c) \/ CreatesOne(c)
      PROVE  /\ loads'[d].cached # NoEntry =>
                   /\ loads'[d].cached \in ToSet(lru')
                   /\ entry'[loads'[d].cached].uri = loads'[d].uri
             /\ loads'[d].uri = NoUri => loads'[d].cached = NoEntry
  <2>1. PICK e : /\ loads' = [loads EXCEPT ![c].cached = e]
                 /\ e \in ToSet(lru') /\ entry'[e].uri = loads[c].uri
    <3>1. CASE TakesOne(c)
      <4>1. PICK i : Takes(c, i)
        BY <3>1 DEF TakesOne
      <4>2. i \in DOMAIN lru /\ entry[lru[i]].uri = loads[c].uri
        BY <1>0, <4>1, FindIs DEF Takes, StoreInv
      <4>3. ToSet(lru') = ToSet(lru) /\ UNCHANGED <<entry, docs>>
        BY <1>0, <4>1, <4>2, ToTopKeeps DEF Takes, StoreInv
      <4>4. lru[i] \in ToSet(lru')
        BY <1>0, <4>2, <4>3, Listed DEF StoreInv
      <4> QED
        BY <4>1, <4>2, <4>3, <4>4 DEF Takes
    <3>2. CASE CreatesOne(c)
      <4>1. PICK e, S : Creates(c, e, S)
        BY <3>2 DEF CreatesOne
      <4>2. /\ e \in ToSet(lru')
            /\ entry'[e] = [uri |-> loads[c].uri, size |-> 0, incomplete |-> TRUE,
                           valid |-> TRUE]
            /\ loads' = [loads EXCEPT ![c].cached = e]
        BY <4>1 DEF Creates
      <4>3. entry'[e].uri = loads[c].uri
        BY <4>2
      <4> QED
        BY <4>2, <4>3
    <3> QED
      BY <1>8, <3>1, <3>2
  <2>2. CASE d = c
    <3>1. loads'[d].cached = e /\ loads'[d].uri = loads[c].uri
      BY <1>0, <2>1, <2>2 DEF LoadRecord
    <3> QED
      BY <1>8, <2>1, <3>1 DEF MayGet
  <2>3. CASE d # c
    <3>1. loads'[d] = loads[d]
      BY <1>0, <2>1, <2>3
    <3> QED
      BY <1>5, <3>1
  <2> QED
    BY <2>2, <2>3
<1>9. ASSUME NEW c \in Conns, Ends(c)
      PROVE  /\ loads'[d].cached # NoEntry =>
                   /\ loads'[d].cached \in ToSet(lru')
                   /\ entry'[loads'[d].cached].uri = loads'[d].uri
             /\ loads'[d].uri = NoUri => loads'[d].cached = NoEntry
  <2>1. CASE d = c
    <3>1. loads'[d].cached = NoEntry
      BY <1>0, <1>9, <2>1 DEF Ends, FreeLoad
    <3> QED
      BY <3>1
  <2>2. CASE d # c
    <3>1. loads'[d] = loads[d]
      BY <1>0, <1>9, <2>2 DEF Ends
    <3> QED
      BY <1>5, <3>1
  <2> QED
    BY <2>1, <2>2
<1>10. ASSUME NEW c \in Conns, Detaches(c)
       PROVE  /\ loads'[d].cached # NoEntry =>
                    /\ loads'[d].cached \in ToSet(lru')
                    /\ entry'[loads'[d].cached].uri = loads'[d].uri
              /\ loads'[d].uri = NoUri => loads'[d].cached = NoEntry
  <2>1. loads'[d].cached = loads[d].cached /\ loads'[d].uri = loads[d].uri
    BY <1>0, <1>10 DEF Detaches, LoadRecord
  <2> QED
    BY <1>4, <2>1
<1> QED
  BY <1>0, <1>6, <1>7, <1>8, <1>9, <1>10, LoadsStep

\* done_cache_entry() never frees an entry that a document locks or a connection
\* loads: if get_validated_cache_entry() and the cache manager leave an entry alone
\* while it is being loaded, then every document keeps its entry, and every
\* connection the entry of its URI.
THEOREM UsersKeepEntries ==
    ASSUME UsersWait = TRUE
    PROVE  Spec => []UsersHaveEntry
<1>1. Init => UsersInv
  <2> SUFFICES ASSUME Init PROVE UsersInv
    OBVIOUS
  <2>1. StoreInv
    BY Initially
  <2>2. \A c \in Conns : loads[c].cached = NoEntry
    BY DEF Init, FreeLoad
  <2>3. docs = {}
    BY DEF Init
  <2> QED
    BY <2>1, <2>2, <2>3 DEF UsersInv, UsersHaveEntry, Idle
<1>2. UsersInv /\ [Next]_vars => UsersInv'
  BY UsersStep
<1>3. UsersInv => UsersHaveEntry
  BY DEF UsersInv
<1> QED
  BY <1>1, <1>2, <1>3, PTL DEF Spec

-----------------------------------------------------------------------------
(* The connections among themselves.                                       *)

\* load_uri() starts a second connection for a URI only next to detached ones.
Shared ==
    \A c, d \in Conns :
        c # d /\ loads[c].uri # NoUri /\ loads[c].uri = loads[d].uri
        => loads[c].detached \/ loads[d].detached

\* What a detached connection loads nobody else finds, unless it loads by HTTP
\* and has got an entry anew.
Hidden ==
    \A c \in Conns :
        loads[c].detached =>
            /\ loads[c].uri \in LargeUris
            /\ loads[c].uri \in HttpUris
                 \/ (loads[c].cached # NoEntry /\ ~entry[loads[c].cached].valid)

\* Other connections do not share entries.
Alone ==
    \A c, d \in Conns :
        c # d /\ loads[c].cached # NoEntry /\ loads[c].uri \notin HttpUris
        => loads[c].cached # loads[d].cached

WritersInv == UsersInv /\ Alone /\ Shared /\ Hidden

LEMMA WritersStep ==
    ASSUME UsersWait, WritersInv, [Next]_vars
    PROVE  WritersInv'
<1>0. /\ UsersInv /\ StoreInv /\ UsersHaveEntry /\ Alone /\ Shared /\ Hidden
      /\ loads \in [Conns -> LoadRecord] /\ ToSet(lru) \in SUBSET Entries
  BY Listed DEF WritersInv, UsersInv, StoreInv, LoadsTyped
<1>1. UsersInv' /\ Idle
  BY <1>0, UsersStep DEF UsersInv
<1>2. \A c \in Conns : loads[c].cached # NoEntry =>
          (entry'[loads[c].cached].valid => entry[loads[c].cached].valid)
  BY <1>0, Holding DEF Loaded
<1>3. \A c \in Conns : loads[c].cached # NoEntry => loads[c].cached \in ToSet(lru)
  BY <1>0 DEF UsersHaveEntry
<1>4. \A c \in Conns :
          loads[c].detached =>
              /\ loads[c].uri \in LargeUris
              /\ loads[c].uri \in HttpUris
                   \/ (/\ loads[c].cached # NoEntry
                       /\ ~entry[loads[c].cached].valid
                       /\ ~entry'[loads[c].cached].valid)
  BY <1>0, <1>2 DEF Hidden
<1>5. ASSUME loads' = loads
      PROVE  Alone' /\ Shared' /\ Hidden'
  BY <1>0, <1>4, <1>5 DEF Alone, Shared, Hidden
<1>6. ASSUME NEW c \in Conns, NEW u \in Uris, Starts(c, u)
      PROVE  Alone' /\ Shared' /\ Hidden'
  <2>1. /\ Loading(u) = {} /\ loads[c].uri = NoUri
        /\ loads' = [loads EXCEPT ![c].uri = u]
    BY <1>6 DEF Starts
  <2>2. /\ \A d \in Conns : /\ loads'[d].cached = loads[d].cached
                            /\ loads'[d].detached = loads[d].detached
        /\ \A d \in Conns \ {c} : loads'[d].uri = loads[d].uri
        /\ loads'[c].uri = u
    BY <1>0, <2>1 DEF LoadRecord
  <2>3. \A d \in Conns : loads[d].uri = u => loads[d].detached
    BY <2>1 DEF Loading
  <2>4. ~loads[c].detached
    BY <1>4, <2>1, NoneAssumption, UrisAssumption
  <2>5. Alone'
    <3> SUFFICES ASSUME NEW d \in Conns, NEW b \in Conns, d # b,
                        loads'[d].cached # NoEntry, loads'[d].uri \notin HttpUris
                 PROVE  loads'[d].cached # loads'[b].cached
      BY DEF Alone
    <3>1. d # c
      BY <1>1, <2>1, <2>2 DEF Idle
    <3> QED
      BY <1>0, <2>2, <3>1 DEF Alone
  <2>6. Shared'
    <3> SUFFICES ASSUME NEW d \in Conns, NEW b \in Conns,
                        d # b, loads'[d].uri # NoUri, loads'[d].uri = loads'[b].uri
                 PROVE  loads'[d].detached \/ loads'[b].detached
      BY DEF Shared
    <3>1. CASE d = c
      <4>1. loads[b].uri = u
        BY <2>2, <3>1
      <4> QED
        BY <2>2, <2>3, <4>1
    <3>2. CASE b = c
      <4>1. loads[d].uri = u
        BY <2>2, <3>2
      <4> QED
        BY <2>2, <2>3, <4>1
    <3>3. CASE d # c /\ b # c
      BY <1>0, <2>2, <3>3 DEF Shared
    <3> QED
      BY <3>1, <3>2, <3>3
  <2>7. Hidden'
    <3> SUFFICES ASSUME NEW d \in Conns, loads'[d].detached
                 PROVE  /\ loads'[d].uri \in LargeUris
                        /\ loads'[d].uri \in HttpUris
                             \/ (/\ loads'[d].cached # NoEntry
                                 /\ ~entry'[loads'[d].cached].valid)
      BY DEF Hidden
    <3>1. loads[d].detached /\ d # c
      BY <2>2, <2>4
    <3> QED
      BY <1>4, <2>2, <3>1
  <2> QED
    BY <2>5, <2>6, <2>7
<1>7. ASSUME NEW c \in Conns, MayGet(c), TakesOne(c) \/ CreatesOne(c)
      PROVE  Alone' /\ Shared' /\ Hidden'
  <2>1. loads[c].detached => loads[c].uri \in HttpUris
    BY <1>4, <1>7 DEF MayGet
  <2>2. PICK e : /\ loads' = [loads EXCEPT ![c].cached = e]
                 /\ \A d \in Conns \ {c} : loads[c].uri \in HttpUris \/ loads[d].cached # e
    <3>1. CASE TakesOne(c)
      <4>1. PICK i : Takes(c, i)
        BY <3>1 DEF TakesOne
      <4>2. /\ i \in DOMAIN lru /\ entry[lru[i]].valid
            /\ entry[lru[i]].uri = loads[c].uri /\ lru[i] \in Entries
        BY <1>0, <4>1, FindIs, Listed DEF Takes, StoreInv
      <4>3. ASSUME NEW d \in Conns \ {c}, loads[d].cached = lru[i], loads[c].uri \notin HttpUris
            PROVE  FALSE
        <5>1. loads[d].cached # NoEntry
          BY <4>2, <4>3, NoneAssumption
        <5>2. loads[d].uri = loads[c].uri
          BY <1>0, <4>2, <4>3, <5>1 DEF UsersHaveEntry
        <5>3. loads[d].detached
          BY <1>0, <1>7, <2>1, <4>3, <5>2 DEF Shared, MayGet
        <5> QED
          BY <1>4, <4>2, <4>3, <5>2, <5>3
      <4>4. loads' = [loads EXCEPT ![c].cached = lru[i]]
        BY <4>1 DEF Takes
      <4> QED
        BY <4>3, <4>4
    <3>2. CASE CreatesOne(c)
      <4>1. PICK e, S : Creates(c, e, S)
        BY <3>2 DEF CreatesOne
      <4>2. e \in Entries /\ e \notin ToSet(lru) /\ loads' = [loads EXCEPT ![c].cached = e]
        BY <4>1 DEF Creates
      <4>3. \A d \in Conns \ {c} : loads[d].cached # e
        BY <1>3, <4>2, NoneAssumption
      <4> QED
        BY <4>2, <4>3
    <3> QED
      BY <1>7, <3>1, <3>2
  <2>3. /\ \A d \in Conns : /\ loads'[d].uri = loads[d].uri
                            /\ loads'[d].detached = loads[d].detached
        /\ \A d \in Conns \ {c} : loads'[d].cached = loads[d].cached
        /\ loads'[c].cached = e
    BY <1>0, <2>2 DEF LoadRecord
  <2>4. Alone'
    <3> SUFFICES ASSUME NEW d \in Conns, NEW b \in Conns, d # b,
                        loads'[d].cached # NoEntry, loads'[d].uri \notin HttpUris,
                        loads'[d].cached = loads'[b].cached
                 PROVE  FALSE
      BY DEF Alone
    <3>1. loads'[b].uri = loads'[d].uri
      BY <1>1 DEF UsersInv, UsersHaveEntry
    <3>2. CASE d = c
      BY <2>2, <2>3, <3>2
    <3>3. CASE b = c
      BY <2>2, <2>3, <3>1, <3>3
    <3>4. CASE d # c /\ b # c
      BY <1>0, <2>3, <3>4 DEF Alone
    <3> QED
      BY <3>2, <3>3, <3>4
  <2>5. Shared'
    BY <1>0, <2>3 DEF Shared
  <2>6. Hidden'
    <3> SUFFICES ASSUME NEW d \in Conns, loads'[d].detached
                 PROVE  /\ loads'[d].uri \in LargeUris
                        /\ loads'[d].uri \in HttpUris
                             \/ (/\ loads'[d].cached # NoEntry
                                 /\ ~entry'[loads'[d].cached].valid)
      BY DEF Hidden
    <3>1. loads[d].detached /\ (d # c \/ loads[d].uri \in HttpUris)
      BY <2>1, <2>3
    <3> QED
      BY <1>4, <2>3, <3>1
  <2> QED
    BY <2>4, <2>5, <2>6
<1>8. ASSUME NEW c \in Conns, Ends(c)
      PROVE  Alone' /\ Shared' /\ Hidden'
  <2>1. /\ loads'[c].uri = NoUri /\ loads'[c].cached = NoEntry /\ ~loads'[c].detached
        /\ \A d \in Conns \ {c} : loads'[d] = loads[d]
    BY <1>0, <1>8 DEF Ends, FreeLoad
  <2>2. Alone'
    <3> SUFFICES ASSUME NEW d \in Conns, NEW b \in Conns, d # b,
                        loads'[d].cached # NoEntry, loads'[d].uri \notin HttpUris
                 PROVE  loads'[d].cached # loads'[b].cached
      BY DEF Alone
    <3>1. d # c
      BY <2>1
    <3>2. CASE b = c
      BY <2>1, <3>2
    <3>3. CASE b # c
      BY <1>0, <2>1, <3>1, <3>3 DEF Alone
    <3> QED
      BY <3>2, <3>3
  <2>3. Shared'
    <3> SUFFICES ASSUME NEW d \in Conns, NEW b \in Conns,
                        d # b, loads'[d].uri # NoUri, loads'[d].uri = loads'[b].uri
                 PROVE  loads'[d].detached \/ loads'[b].detached
      BY DEF Shared
    <3>1. d # c /\ b # c
      BY <2>1
    <3> QED
      BY <1>0, <2>1, <3>1 DEF Shared
  <2>4. Hidden'
    <3> SUFFICES ASSUME NEW d \in Conns, loads'[d].detached
                 PROVE  /\ loads'[d].uri \in LargeUris
                        /\ loads'[d].uri \in HttpUris
                             \/ (/\ loads'[d].cached # NoEntry
                                 /\ ~entry'[loads'[d].cached].valid)
      BY DEF Hidden
    <3>1. d # c
      BY <2>1
    <3> QED
      BY <1>4, <2>1, <3>1
  <2> QED
    BY <2>2, <2>3, <2>4
<1>9. ASSUME NEW c \in Conns, Detaches(c)
      PROVE  Alone' /\ Shared' /\ Hidden'
  <2>1. /\ loads[c].cached # NoEntry
        /\ loads[c].detached
             \/ (loads[c].uri \in LargeUris /\ ~entry'[loads[c].cached].valid)
        /\ loads' = [loads EXCEPT ![c].detached = TRUE]
    BY <1>0, <1>9, NoneAssumption DEF Detaches
  <2>2. /\ \A d \in Conns : /\ loads'[d].uri = loads[d].uri
                            /\ loads'[d].cached = loads[d].cached
        /\ \A d \in Conns \ {c} : loads'[d].detached = loads[d].detached
        /\ loads'[c].detached
    BY <1>0, <2>1 DEF LoadRecord
  <2>3. Alone'
    BY <1>0, <2>2 DEF Alone
  <2>4. Shared'
    <3> SUFFICES ASSUME NEW d \in Conns, NEW b \in Conns,
                        d # b, loads'[d].uri # NoUri, loads'[d].uri = loads'[b].uri
                 PROVE  loads'[d].detached \/ loads'[b].detached
      BY DEF Shared
    <3>1. CASE d = c \/ b = c
      BY <2>2, <3>1
    <3>2. CASE d # c /\ b # c
      BY <1>0, <2>2, <3>2 DEF Shared
    <3> QED
      BY <3>1, <3>2
  <2>5. Hidden'
    <3> SUFFICES ASSUME NEW d \in Conns, loads'[d].detached
                 PROVE  /\ loads'[d].uri \in LargeUris
                        /\ loads'[d].uri \in HttpUris
                             \/ (/\ loads'[d].cached # NoEntry
                                 /\ ~entry'[loads'[d].cached].valid)
      BY DEF Hidden
    <3>1. CASE d = c
      BY <1>4, <2>1, <2>2, <3>1
    <3>2. CASE d # c
      BY <1>4, <2>2, <3>2
    <3> QED
      BY <3>1, <3>2
  <2> QED
    BY <2>3, <2>4, <2>5
<1>10. Alone' /\ Shared' /\ Hidden'
  BY <1>0, <1>5, <1>6, <1>7, <1>8, <1>9, LoadsStep DEF Same
<1> QED
  BY <1>1, <1>10 DEF WritersInv

\* Two connections write into one entry only if one of them has been detached and
\* loads by HTTP, although load_uri() starts another connection for the URI of any
\* that detach_connection() has detached; provided that nobody deletes or
\* revalidates an entry while it is being loaded.
THEOREM WritersAreAlone ==
    ASSUME UsersWait = TRUE
    PROVE  Spec => []OneWriter
<1>1. Init => WritersInv
  <2> SUFFICES ASSUME Init PROVE WritersInv
    OBVIOUS
  <2>1. StoreInv
    BY Initially
  <2>2. \A c \in Conns :
            loads[c].uri = NoUri /\ loads[c].cached = NoEntry /\ ~loads[c].detached
    BY DEF Init, FreeLoad
  <2>3. docs = {}
    BY DEF Init
  <2>4. UsersInv
    BY <2>1, <2>2, <2>3 DEF UsersInv, UsersHaveEntry, Idle
  <2>5. Alone /\ Shared /\ Hidden
    BY <2>2 DEF Alone, Shared, Hidden
  <2> QED
    BY <2>4, <2>5 DEF WritersInv
<1>2. WritersInv /\ [Next]_vars => WritersInv'
  BY WritersStep
<1>3. WritersInv => OneWriter
  <2> SUFFICES ASSUME WritersInv, NEW c \in Conns, NEW d \in Conns, c # d,
                      loads[c].cached # NoEntry, loads[c].cached = loads[d].cached
               PROVE  loads[c].uri \in HttpUris /\ (loads[c].detached \/ loads[d].detached)
    BY DEF OneWriter
  <2>1. loads[c].uri \in HttpUris
    BY DEF WritersInv, Alone
  <2>2. loads[c].uri = loads[d].uri
    BY DEF WritersInv, UsersInv, UsersHaveEntry
  <2>3. loads[c].uri # NoUri
    BY DEF WritersInv, UsersInv, Idle
  <2> QED
    BY <2>1, <2>2, <2>3 DEF WritersInv, Shared
<1> QED
  BY <1>1, <1>2, <1>3, PTL DEF Spec

-----------------------------------------------------------------------------
(* The fragments.                                                          *)

-----------------------------------------------------------------------------
(* Sequences and recursive functions over them.                            *)

\* t is the first n elements of a.
IsFront(t, a, n) == Len(t) = n /\ \A i \in 1 .. n : t[i] = a[i]

LEMMA Firsts ==
    ASSUME NEW S, NEW a \in Seq(S), NEW n \in 0 .. Len(a)
    PROVE  SubSeq(a, 1, n) \in Seq(S) /\ IsFront(SubSeq(a, 1, n), a, n)
<1> DEFINE t == SubSeq(a, 1, n)
<1>1. Len(a) \in Nat /\ n \in Nat /\ \A i \in 1 .. n : a[i] \in S
  BY ElementOfSeq, LenProperties
<1>2. /\ t \in Seq(S)
      /\ Len(t) = IF 1 <= n THEN n - 1 + 1 ELSE 0
      /\ \A i \in 1 .. n - 1 + 1 : t[i] = a[1 + i - 1]
  BY <1>1, SubSeqProperties
<1> HIDE DEF t
<1>3. Len(t) = n /\ n - 1 + 1 = n /\ \A i \in 1 .. n : 1 + i - 1 = i
  BY <1>1, <1>2
<1> QED
  BY <1>2, <1>3 DEF t, IsFront

\* The others
IsBack(t, a, n) == Len(t) = Len(a) - n /\ \A i \in 1 .. (Len(a) - n) : t[i] = a[n + i]

LEMMA Lasts ==
    ASSUME NEW S, NEW a \in Seq(S), NEW n \in 0 .. Len(a)
    PROVE  LET t == SubSeq(a, n + 1, Len(a)) IN t \in Seq(S) /\ IsBack(t, a, n)
<1> DEFINE t == SubSeq(a, n + 1, Len(a))
<1>1. Len(a) \in Nat /\ n \in Nat /\ \A i \in (n + 1) .. Len(a) : a[i] \in S
  BY ElementOfSeq, LenProperties
<1>2. n + 1 \in Int /\ Len(a) \in Int
  BY <1>1
<1>3. /\ t \in Seq(S)
      /\ Len(t) = IF n + 1 <= Len(a) THEN Len(a) - (n + 1) + 1 ELSE 0
      /\ \A i \in 1 .. Len(a) - (n + 1) + 1 : t[i] = a[(n + 1) + i - 1]
  BY <1>1, <1>2, SubSeqProperties
<1> HIDE DEF t
<1>4. Len(t) = Len(a) - n /\ Len(a) - (n + 1) + 1 = Len(a) - n
  BY <1>1, <1>3
<1>5. \A i \in 1 .. (Len(a) - n) : (n + 1) + i - 1 = n + i
  BY <1>1
<1> QED
  BY <1>3, <1>4, <1>5 DEF t, IsBack

IsJoint(w, a, b) ==
    /\ Len(w) = Len(a) + Len(b)
    /\ \A i \in 1 .. Len(a) : w[i] = a[i]
    /\ \A i \in 1 .. Len(b) : w[Len(a) + i] = b[i]

LEMMA Joined ==
    ASSUME NEW S, NEW a \in Seq(S), NEW b \in Seq(S)
    PROVE  a \o b \in Seq(S) /\ IsJoint(a \o b, a, b)
<1> DEFINE w == a \o b
<1>1. /\ w \in Seq(S) /\ Len(w) = Len(a) + Len(b)
      /\ \A i \in 1 .. Len(a) + Len(b) : w[i] = IF i <= Len(a) THEN a[i] ELSE b[i - Len(a)]
  BY ConcatProperties
<1>2. Len(a) \in Nat /\ Len(b) \in Nat
  BY LenProperties
<1> HIDE DEF w
<1>3. ASSUME NEW i \in 1 .. Len(a) PROVE w[i] = a[i]
  BY <1>1, <1>2
<1>4. ASSUME NEW i \in 1 .. Len(b) PROVE w[Len(a) + i] = b[i]
  <2>1. /\ Len(a) + i \in 1 .. Len(a) + Len(b) /\ ~(Len(a) + i <= Len(a))
        /\ (Len(a) + i) - Len(a) = i
    BY <1>2
  <2> QED
    BY <1>1, <2>1
<1> QED
  BY <1>1, <1>3, <1>4 DEF w, IsJoint

\* The elements behind the a-th, up to the b-th, make way for f.
Spliced(q, a, f, b) == SubSeq(q, 1, a) \o <<f>> \o SubSeq(q, b + 1, Len(q))

Splicing(r, q, a, f, b) ==
    /\ Len(r) = a + 1 + Len(q) - b
    /\ \A i \in 1 .. a : r[i] = q[i]
    /\ r[a + 1] = f
    /\ \A i \in 1 .. (Len(q) - b) : r[a + 1 + i] = q[b + i]

LEMMA SplicedEntries ==
    ASSUME NEW S, NEW q \in Seq(S), NEW a \in 0 .. Len(q), NEW b \in a .. Len(q), NEW f \in S
    PROVE  Spliced(q, a, f, b) \in Seq(S) /\ Splicing(Spliced(q, a, f, b), q, a, f, b)
<1> DEFINE A == SubSeq(q, 1, a)
           M == <<f>>
           B == SubSeq(q, b + 1, Len(q))
           C == A \o M
           r == C \o B
<1>1. Len(q) \in Nat /\ a \in Nat /\ b \in Nat /\ a <= b /\ b <= Len(q) /\ b \in 0 .. Len(q)
  BY LenProperties
<1>2. /\ A \in Seq(S) /\ Len(A) = a
      /\ \A i \in 1 .. a : A[i] = q[i]
  BY Firsts DEF IsFront
<1>3. /\ B \in Seq(S) /\ Len(B) = Len(q) - b
      /\ \A i \in 1 .. (Len(q) - b) : B[i] = q[b + i]
  BY <1>1, Lasts DEF IsBack
<1>4. M \in Seq(S) /\ Len(M) = 1 /\ M[1] = f
  OBVIOUS
<1> HIDE DEF A, M, B
<1>5. /\ C \in Seq(S) /\ Len(C) = a + 1
      /\ \A i \in 1 .. a : C[i] = q[i]
      /\ C[a + 1] = f
  <2>1. /\ C \in Seq(S) /\ Len(C) = Len(A) + Len(M)
        /\ \A i \in 1 .. Len(A) : C[i] = A[i]
        /\ \A i \in 1 .. Len(M) : C[Len(A) + i] = M[i]
    <3>1. A \in Seq(S) /\ M \in Seq(S)
      BY <1>2, <1>4
    <3> QED
      BY <3>1, Joined DEF IsJoint
  <2> HIDE DEF C
  <2> QED
    BY <1>1, <1>2, <1>4, <2>1
<1> HIDE DEF C
<1>6. /\ r \in Seq(S) /\ Len(r) = Len(C) + Len(B)
      /\ \A i \in 1 .. Len(C) : r[i] = C[i]
      /\ \A i \in 1 .. Len(B) : r[Len(C) + i] = B[i]
  <2>1. C \in Seq(S) /\ B \in Seq(S)
    BY <1>3, <1>5
  <2> QED
    BY <2>1, Joined DEF IsJoint
<1> HIDE DEF r
<1>7. Len(r) = a + 1 + Len(q) - b
  BY <1>1, <1>3, <1>5, <1>6
<1>8. \A i \in 1 .. a : r[i] = q[i]
  BY <1>1, <1>5, <1>6
<1>9. r[a + 1] = f
  BY <1>1, <1>5, <1>6
<1>10. \A i \in 1 .. (Len(q) - b) : r[a + 1 + i] = q[b + i]
  BY <1>1, <1>3, <1>5, <1>6
<1>11. r = Spliced(q, a, f, b)
  BY DEF r, A, B, C, M, Spliced
<1> QED
  BY <1>6, <1>7, <1>8, <1>9, <1>10, <1>11 DEF Splicing

\* f is made step by step along 0 .. n.
Stepwise(f, V, base, n, step) ==
    /\ f \in [0 .. n -> V]
    /\ f[0] = base /\ \A i \in 1 .. n : f[i] = step[<<i, f[i - 1]>>]

LEMMA StepByStep ==
    ASSUME NEW V, NEW base \in V, NEW n \in Nat, NEW step \in [(1 .. n) \X V -> V]
    PROVE  \E f : Stepwise(f, V, base, n, step)
<1> DEFINE Ok(m) == \E f : Stepwise(f, V, base, m, step)
           Bad == {m \in 0 .. n : ~Ok(m)}
<1>1. SUFFICES ASSUME Bad # {} PROVE FALSE
  <2>1. n \in 0 .. n
    OBVIOUS
  <2>2. Bad = {} => Ok(n)
    BY <2>1, Zenon
  <2> QED
    BY <2>2, Zenon
<1>2. PICK m \in Bad : \A k \in Bad : m <= k
  <2>1. Bad \in SUBSET Nat
    OBVIOUS
  <2> HIDE DEF Bad
  <2> QED
    BY <1>1, <2>1, Least
<1>3. m \in 0 .. n /\ ~Ok(m)
  BY <1>2
<1>4. m # 0
  <2> SUFFICES Ok(0)
    BY <1>3
  <2> DEFINE f == [i \in 0 .. 0 |-> base]
  <2>1. f \in [0 .. 0 -> V] /\ f[0] = base
    OBVIOUS
  <2>2. 1 .. 0 = {}
    OBVIOUS
  <2> HIDE DEF f
  <2> QED
    BY <2>1, <2>2 DEF Stepwise
<1>5. m - 1 \in 0 .. n /\ m - 1 \notin Bad /\ m \in 1 .. n
  <2>1. m - 1 \in 0 .. n /\ ~(m <= m - 1) /\ m \in 1 .. n
    BY <1>3, <1>4
  <2> QED
    BY <1>2, <2>1
<1>6. PICK f : /\ f \in [0 .. m - 1 -> V]
               /\ f[0] = base /\ \A i \in 1 .. m - 1 : f[i] = step[<<i, f[i - 1]>>]
  BY <1>5 DEF Stepwise
<1> DEFINE g == [i \in 0 .. m |-> IF i = m THEN step[<<m, f[m - 1]>>] ELSE f[i]]
<1>7. m - 1 \in 0 .. m - 1 /\ m \in Nat
  BY <1>5
<1>8. f[m - 1] \in V
  BY <1>6, <1>7
<1>9. step[<<m, f[m - 1]>>] \in V
  BY <1>5, <1>8
<1>10. g \in [0 .. m -> V]
  <2>1. ASSUME NEW i \in 0 .. m, i # m PROVE f[i] \in V
    <3>1. i \in 0 .. m - 1
      BY <2>1, <1>7
    <3> QED
      BY <1>6, <3>1
  <2> QED
    BY <1>9, <2>1
<1>11. g[0] = base
  <2>1. 0 \in 0 .. m /\ 0 # m
    BY <1>4, <1>7
  <2> QED
    BY <1>6, <2>1
<1>12. ASSUME NEW i \in 1 .. m PROVE g[i] = step[<<i, g[i - 1]>>]
  <2>1. i \in 0 .. m /\ i - 1 \in 0 .. m /\ i - 1 # m
    BY <1>7
  <2>2. g[i - 1] = f[i - 1]
    BY <2>1
  <2>3. CASE i = m
    BY <2>1, <2>2, <2>3
  <2>4. CASE i # m
    <3>1. i \in 1 .. m - 1
      BY <1>7, <2>4
    <3>2. g[i] = f[i]
      BY <2>1, <2>4
    <3> QED
      BY <1>6, <2>2, <3>1, <3>2
  <2> QED
    BY <2>3, <2>4
<1> HIDE DEF g
<1> QED
  BY <1>3, <1>10, <1>11, <1>12 DEF Stepwise

-----------------------------------------------------------------------------
(* Fragments, and how many bytes they have together.                       *)

Fragment == [offset : Offsets, data : Seq(Bytes), room : Nat]

LEMMA FragmentIs ==
    ASSUME NEW f \in Fragment
    PROVE  /\ f.offset \in Offsets /\ f.offset \in Nat /\ f.offset <= MaxEnd
           /\ f.data \in Seq(Bytes) /\ Len(f.data) \in Nat /\ f.room \in Nat
           /\ End(f) \in Nat /\ End(f) = f.offset + Len(f.data) /\ f.offset <= End(f)
<1>1. f.offset \in Offsets /\ f.data \in Seq(Bytes) /\ f.room \in Nat
  BY DEF Fragment
<1>2. f.offset \in Nat /\ f.offset <= MaxEnd
  BY <1>1, BoundsAssumption DEF Offsets
<1>3. Len(f.data) \in Nat
  BY <1>1, LenProperties
<1> QED
  BY <1>1, <1>2, <1>3 DEF End

LEMMA FragmentsAre ==
    ASSUME NEW q \in Seq(Fragment)
    PROVE  /\ Len(q) \in Nat /\ DOMAIN q = 1 .. Len(q)
           /\ \A i \in 1 .. Len(q) : q[i] \in Fragment
BY LenProperties, ElementOfSeq

\* f is the recursive function of Size(q).
Summing(f, q) == f = [i \in 0 .. Len(q) |-> IF i = 0 THEN 0 ELSE f[i - 1] + Len(q[i].data)]

\* The size of the first n fragments
SizeTo(q, n) == (CHOOSE f : Summing(f, q))[n]

LEMMA SizeIs == ASSUME NEW q PROVE Size(q) = SizeTo(q, Len(q))
BY DEF Size, SizeTo, Summing

LEMMA SizesExist ==
    ASSUME NEW q \in Seq(Fragment)
    PROVE  \E f : Summing(f, q) /\ f \in [0 .. Len(q) -> Nat]
<1> DEFINE n == Len(q)
           step == [x \in (1 .. n) \X Nat |-> x[2] + Len(q[x[1]].data)]
<1>1. n \in Nat
  BY FragmentsAre
<1>2. \A i \in 1 .. n : Len(q[i].data) \in Nat
  BY FragmentsAre, FragmentIs
<1>3. step \in [(1 .. n) \X Nat -> Nat]
  BY <1>2
<1>4. \A i \in 1 .. n, m \in Nat : step[<<i, m>>] = m + Len(q[i].data)
  OBVIOUS
<1> HIDE DEF step, n
<1>5. PICK f : f \in [0 .. n -> Nat] /\ f[0] = 0 /\ \A i \in 1 .. n : f[i] = step[<<i, f[i - 1]>>]
  <2>1. 0 \in Nat
    OBVIOUS
  <2>2. \E f : Stepwise(f, Nat, 0, n, step)
    BY <1>1, <1>3, <2>1, StepByStep, Zenon
  <2> QED
    BY <2>2 DEF Stepwise
<1>6. ASSUME NEW i \in 0 .. n
      PROVE  f[i] = IF i = 0 THEN 0 ELSE f[i - 1] + Len(q[i].data)
  <2>1. CASE i = 0
    BY <1>5, <2>1
  <2>2. CASE i # 0
    <3>1. i \in 1 .. n /\ i - 1 \in 0 .. n
      BY <1>1, <2>2
    <3>2. f[i - 1] \in Nat
      BY <1>5, <3>1
    <3> QED
      BY <1>4, <1>5, <2>2, <3>1, <3>2
  <2> QED
    BY <2>1, <2>2
<1>7. Summing(f, q)
  BY <1>5, <1>6 DEF Summing, n
<1> QED
  BY <1>5, <1>7 DEF n

LEMMA SizeSteps ==
    ASSUME NEW q \in Seq(Fragment)
    PROVE  /\ \A n \in 0 .. Len(q) : SizeTo(q, n) \in Nat
           /\ SizeTo(q, 0) = 0
           /\ \A n \in 1 .. Len(q) : SizeTo(q, n) = SizeTo(q, n - 1) + Len(q[n].data)
<1> DEFINE f == CHOOSE g : Summing(g, q)
<1>1. Summing(f, q)
  BY SizesExist
<1>2. PICK g : Summing(g, q) /\ g \in [0 .. Len(q) -> Nat]
  BY SizesExist
<1>3. \A n \in 0 .. Len(q) : SizeTo(q, n) = f[n]
  BY DEF SizeTo
<1> HIDE DEF f
<1>4. Len(q) \in Nat
  BY FragmentsAre
<1>5. \A n \in 0 .. Len(q) : f[n] = IF n = 0 THEN 0 ELSE f[n - 1] + Len(q[n].data)
  BY <1>1 DEF Summing
<1>6. \A n \in 1 .. Len(q) : n \in 0 .. Len(q) /\ n - 1 \in 0 .. Len(q) /\ n # 0
  BY <1>4
<1>7. 0 \in 0 .. Len(q)
  BY <1>4
<1>8. ASSUME \E n \in 0 .. Len(q) : f[n] \notin Nat PROVE FALSE
  <2> DEFINE T == {n \in 0 .. Len(q) : f[n] \notin Nat}
  <2>1. T \in SUBSET Nat /\ T # {}
    BY <1>8
  <2> HIDE DEF T
  <2>2. PICK n \in T : \A m \in T : n <= m
    BY <2>1, Least
  <2>3. n \in 0 .. Len(q) /\ f[n] \notin Nat
    BY <2>2 DEF T
  <2>4. n # 0
    BY <1>5, <1>7, <2>3
  <2>5. n \in 1 .. Len(q) /\ n - 1 \in 0 .. Len(q) /\ ~(n <= n - 1)
    BY <1>4, <2>3, <2>4
  <2>6. f[n - 1] \in Nat
    BY <2>2, <2>5 DEF T
  <2>7. Len(q[n].data) \in Nat
    BY <2>5, FragmentsAre, FragmentIs
  <2>8. f[n] = f[n - 1] + Len(q[n].data)
    BY <1>5, <2>3, <2>4
  <2> QED
    BY <2>3, <2>6, <2>7, <2>8
<1> QED
  BY <1>3, <1>5, <1>6, <1>7, <1>8

LEMMA SizeType == ASSUME NEW q \in Seq(Fragment) PROVE Size(q) \in Nat
<1>1. Len(q) \in 0 .. Len(q)
  BY FragmentsAre
<1> QED
  BY <1>1, SizeIs, SizeSteps

LEMMA SizeOfNone == <<>> \in Seq(Fragment) /\ Size(<<>>) = 0
<1>1. <<>> \in Seq(Fragment) /\ Len(<<>>) = 0
  BY EmptySeq
<1>2. Size(<<>>) = SizeTo(<<>>, 0)
  BY <1>1, SizeIs
<1> QED
  BY <1>1, <1>2, SizeSteps

\* Shorter fragments are not more together.
LEMMA SizeMonotone ==
    ASSUME NEW q \in Seq(Fragment), NEW r \in Seq(Fragment), Len(q) = Len(r),
           \A i \in 1 .. Len(q) : Len(q[i].data) <= Len(r[i].data)
    PROVE  Size(q) <= Size(r)
<1> DEFINE T == {n \in 0 .. Len(q) : ~(SizeTo(q, n) <= SizeTo(r, n))}
<1>1. Len(q) \in Nat
  BY FragmentsAre
<1>2. ASSUME T # {} PROVE FALSE
  <2>1. T \in SUBSET Nat
    OBVIOUS
  <2> HIDE DEF T
  <2>2. PICK n \in T : \A m \in T : n <= m
    BY <1>2, <2>1, Least
  <2>3. n \in 0 .. Len(q) /\ ~(SizeTo(q, n) <= SizeTo(r, n))
    BY <2>2 DEF T
  <2>4. n # 0
    BY <2>3, SizeSteps
  <2>5. n \in 1 .. Len(q) /\ n \in 1 .. Len(r) /\ n - 1 \in 0 .. Len(q) /\ ~(n <= n - 1)
    BY <1>1, <2>3, <2>4
  <2>6. SizeTo(q, n - 1) <= SizeTo(r, n - 1)
    BY <2>2, <2>5 DEF T
  <2>7. /\ SizeTo(q, n) = SizeTo(q, n - 1) + Len(q[n].data)
        /\ SizeTo(r, n) = SizeTo(r, n - 1) + Len(r[n].data)
    BY <2>5, SizeSteps
  <2>8. /\ SizeTo(q, n - 1) \in Nat /\ SizeTo(r, n - 1) \in Nat
        /\ Len(q[n].data) \in Nat /\ Len(r[n].data) \in Nat
    BY <2>5, SizeSteps, FragmentsAre, FragmentIs
  <2>9. Len(q[n].data) <= Len(r[n].data)
    BY <2>5
  <2> QED
    BY <2>3, <2>6, <2>7, <2>8, <2>9
<1>3. Len(q) \in 0 .. Len(q)
  BY <1>1
<1>4. SizeTo(q, Len(q)) <= SizeTo(r, Len(q))
  BY <1>2, <1>3
<1> HIDE DEF T
<1> QED
  BY <1>4, SizeIs

\* The first n fragments may become one.
LEMMA SizeOfSpliced ==
    ASSUME NEW q \in Seq(Fragment), NEW n \in 1 .. Len(q), NEW f \in Fragment,
           Len(f.data) = SizeTo(q, n)
    PROVE  Size(Spliced(q, 0, f, n)) = Size(q)
<1> DEFINE r == Spliced(q, 0, f, n)
<1>1. Len(q) \in Nat /\ n \in Nat /\ 0 \in 0 .. Len(q) /\ n \in 0 .. Len(q) /\ n <= Len(q)
  BY FragmentsAre
<1>2. /\ r \in Seq(Fragment) /\ Len(r) = 0 + 1 + Len(q) - n
      /\ r[0 + 1] = f
      /\ \A i \in 1 .. (Len(q) - n) : r[0 + 1 + i] = q[n + i]
  <2>1. r \in Seq(Fragment) /\ Splicing(r, q, 0, f, n)
    BY <1>1, SplicedEntries, Zenon
  <2> HIDE DEF r
  <2> QED
    BY <2>1 DEF Splicing
<1> HIDE DEF r
<1>3. Len(r) = 1 + (Len(q) - n) /\ r[1] = f /\ Len(r) \in Nat
  BY <1>1, <1>2
<1>4. \A i \in 1 .. (Len(q) - n) : r[1 + i] = q[n + i]
  <2>1. \A i \in 1 .. (Len(q) - n) : 0 + 1 + i = 1 + i
    BY <1>1
  <2> QED
    BY <1>2, <2>1
<1> DEFINE T == {i \in 0 .. (Len(q) - n) : SizeTo(r, 1 + i) # SizeTo(q, n + i)}
<1>5. ASSUME T # {} PROVE FALSE
  <2>1. T \in SUBSET Nat
    BY <1>1
  <2> HIDE DEF T
  <2>2. PICK i \in T : \A j \in T : i <= j
    BY <1>5, <2>1, Least
  <2>3. i \in 0 .. (Len(q) - n) /\ SizeTo(r, 1 + i) # SizeTo(q, n + i)
    BY <2>2 DEF T
  <2>4. i # 0
    <3>1. 1 \in 1 .. Len(r)
      BY <1>1, <1>3
    <3>2. SizeTo(r, 1) = SizeTo(r, 1 - 1) + Len(r[1].data) /\ SizeTo(r, 0) = 0
      BY <1>2, <3>1, SizeSteps
    <3>3. Len(f.data) \in Nat
      BY FragmentIs
    <3>4. SizeTo(r, 1) = Len(f.data)
      BY <1>3, <3>2, <3>3
    <3>5. i = 0 => 1 + i = 1 /\ n + i = n
      BY <1>1
    <3> QED
      BY <2>3, <3>4, <3>5
  <2>5. /\ i \in Nat /\ i - 1 \in 0 .. (Len(q) - n) /\ ~(i <= i - 1) /\ i \in 1 .. (Len(q) - n)
        /\ 1 + i \in 1 .. Len(r) /\ n + i \in 1 .. Len(q)
        /\ (1 + i) - 1 = 1 + (i - 1) /\ (n + i) - 1 = n + (i - 1)
    BY <1>1, <1>3, <2>3, <2>4
  <2>6. SizeTo(r, 1 + (i - 1)) = SizeTo(q, n + (i - 1))
    BY <2>2, <2>5 DEF T
  <2>7. SizeTo(r, 1 + i) = SizeTo(r, (1 + i) - 1) + Len(r[1 + i].data)
    BY <1>2, <2>5, SizeSteps
  <2>8. SizeTo(q, n + i) = SizeTo(q, (n + i) - 1) + Len(q[n + i].data)
    BY <2>5, SizeSteps
  <2> QED
    BY <1>4, <2>3, <2>5, <2>6, <2>7, <2>8
<1>6. Len(q) - n \in 0 .. (Len(q) - n) /\ 1 + (Len(q) - n) = Len(r) /\ n + (Len(q) - n) = Len(q)
  BY <1>1, <1>3
<1>7. SizeTo(r, 1 + (Len(q) - n)) = SizeTo(q, n + (Len(q) - n))
  BY <1>5, <1>6
<1>8. SizeTo(r, Len(r)) = SizeTo(q, Len(q))
  BY <1>6, <1>7
<1> QED
  BY <1>8, SizeIs DEF r

\* f is the recursive function of FlattenSeq(s).
Flattening(f, s) == f = [i \in 1 .. Len(s) |-> IF i = 1 THEN s[i] ELSE f[i - 1] \o s[i]]

\* Its values are the sequences up to the i-th, one behind another.
Flattened(f, s) ==
    /\ \A i \in 1 .. Len(s) : f[i] \in Seq(Bytes)
    /\ f[1] = s[1]
    /\ \A i \in 2 .. Len(s) : f[i] = f[i - 1] \o s[i]
    /\ FlattenSeq(s) = f[Len(s)]

LEMMA FlattenSteps ==
    ASSUME NEW s \in Seq(Seq(Bytes)), Len(s) # 0
    PROVE  \E f : Flattened(f, s)
<1> DEFINE n == Len(s)
           step == [x \in (1 .. n) \X Seq(Bytes) |-> IF x[1] = 1 THEN s[x[1]] ELSE x[2] \o s[x[1]]]
<1>1. n \in Nat /\ n # 0 /\ \A i \in 1 .. n : s[i] \in Seq(Bytes)
  BY LenProperties, ElementOfSeq
<1>2. ASSUME NEW i \in 1 .. n, NEW t \in Seq(Bytes)
      PROVE  /\ step[<<i, t>>] = IF i = 1 THEN s[i] ELSE t \o s[i]
             /\ (IF i = 1 THEN s[i] ELSE t \o s[i]) \in Seq(Bytes)
  <2>1. s[i] \in Seq(Bytes) /\ t \o s[i] \in Seq(Bytes)
    BY <1>1, ConcatProperties
  <2>2. <<i, t>> \in (1 .. n) \X Seq(Bytes)
    OBVIOUS
  <2> QED
    BY <2>1, <2>2
<1>3. step \in [(1 .. n) \X Seq(Bytes) -> Seq(Bytes)]
  <2>1. ASSUME NEW x \in (1 .. n) \X Seq(Bytes)
        PROVE  (IF x[1] = 1 THEN s[x[1]] ELSE x[2] \o s[x[1]]) \in Seq(Bytes)
    <3>1. x[1] \in 1 .. n /\ x[2] \in Seq(Bytes)
      OBVIOUS
    <3> QED
      BY <1>2, <3>1
  <2> QED
    BY <2>1
<1>4. <<>> \in Seq(Bytes)
  BY EmptySeq
<1>5. \A i \in 1 .. n, t \in Seq(Bytes) : step[<<i, t>>] = IF i = 1 THEN s[i] ELSE t \o s[i]
  BY <1>2
<1> HIDE DEF step, n
<1>6. PICK F : /\ F \in [0 .. n -> Seq(Bytes)]
               /\ F[0] = <<>> /\ \A i \in 1 .. n : F[i] = step[<<i, F[i - 1]>>]
  <2>1. \E F : Stepwise(F, Seq(Bytes), <<>>, n, step)
    BY <1>1, <1>3, <1>4, StepByStep, Zenon
  <2> QED
    BY <2>1 DEF Stepwise
<1> DEFINE g == [i \in 1 .. n |-> F[i]]
<1>7. ASSUME NEW i \in 1 .. n
      PROVE  g[i] = IF i = 1 THEN s[i] ELSE g[i - 1] \o s[i]
  <2>1. i - 1 \in 0 .. n /\ (i # 1 => i - 1 \in 1 .. n)
    BY <1>1
  <2>2. F[i - 1] \in Seq(Bytes)
    BY <1>6, <2>1
  <2>3. F[i] = IF i = 1 THEN s[i] ELSE F[i - 1] \o s[i]
    BY <1>5, <1>6, <2>2
  <2> QED
    BY <2>1, <2>3
<1>8. Flattening(g, s)
  <2>1. g = [i \in 1 .. n |-> g[i]]
    OBVIOUS
  <2> HIDE DEF g
  <2>2. g = [i \in 1 .. n |-> IF i = 1 THEN s[i] ELSE g[i - 1] \o s[i]]
    BY <1>7, <2>1
  <2> QED
    BY <2>2 DEF Flattening, n
<1> HIDE DEF g
<1> DEFINE f == CHOOSE h : Flattening(h, s)
<1>9. Flattening(f, s)
  BY <1>8
<1>10. FlattenSeq(s) = f[n]
  BY <1>1 DEF FlattenSeq, Flattening, n
<1> HIDE DEF f
<1>11. \A i \in 1 .. n : f[i] = IF i = 1 THEN s[i] ELSE f[i - 1] \o s[i]
  BY <1>9 DEF Flattening, n
<1>12. 1 \in 1 .. n
  BY <1>1
<1>13. f[1] = s[1]
  BY <1>11, <1>12
<1>14. \A i \in 2 .. n : f[i] = f[i - 1] \o s[i]
  <2>1. \A i \in 2 .. n : i \in 1 .. n /\ i # 1
    BY <1>1
  <2> QED
    BY <1>11, <2>1
<1>15. ASSUME \E i \in 1 .. n : f[i] \notin Seq(Bytes) PROVE FALSE
  <2> DEFINE T == {i \in 1 .. n : f[i] \notin Seq(Bytes)}
  <2>1. T \in SUBSET Nat
    OBVIOUS
  <2>9. T # {}
    BY <1>15, Zenon
  <2> HIDE DEF T
  <2>2. PICK i \in T : \A j \in T : i <= j
    BY <2>1, <2>9, Least
  <2>3. i \in 1 .. n /\ f[i] \notin Seq(Bytes)
    BY <2>2 DEF T
  <2>4. i # 1
    BY <1>1, <1>12, <1>13, <2>3
  <2>5. i \in 2 .. n /\ i - 1 \in 1 .. n /\ ~(i <= i - 1)
    BY <1>1, <2>3, <2>4
  <2>6. f[i - 1] \in Seq(Bytes)
    BY <2>2, <2>5 DEF T
  <2>7. f[i - 1] \o s[i] \in Seq(Bytes)
    BY <1>1, <2>3, <2>6, ConcatProperties
  <2> QED
    BY <1>14, <2>3, <2>5, <2>7
<1> QED
  BY <1>10, <1>13, <1>14, <1>15 DEF n, Flattened

-----------------------------------------------------------------------------
(* Parts of one fragment.                                                  *)

\* What f has at p and behind is what lat says.
Fresh(f, lat, p) == \A x \in Nat : p <= x /\ f.offset <= x /\ x < End(f) => ByteAt(f, x) = lat[x]

LEMMA FreshLater ==
    ASSUME NEW f, NEW lat, NEW p \in Nat, NEW o \in Nat, o <= p, Fresh(f, lat, o)
    PROVE  Fresh(f, lat, p)
BY DEF Fresh

\* The bytes b are those of f from p on, up to e.
IsPart(b, f, p, e) ==
    /\ b \in Seq(Bytes) /\ Len(b) = e - p
    /\ \A i \in 1 .. Len(b) : b[i] = ByteAt(f, p + i - 1)

LEMMA FrontPart ==
    ASSUME NEW f \in Fragment, NEW p \in Nat, f.offset <= p, p <= End(f)
    PROVE  IsPart(SubSeq(f.data, 1, p - f.offset), f, f.offset, p)
<1> DEFINE n == p - f.offset
           b == SubSeq(f.data, 1, n)
<1>1. /\ f.data \in Seq(Bytes) /\ f.offset \in Nat /\ Len(f.data) \in Nat
      /\ End(f) = f.offset + Len(f.data)
  BY FragmentIs
<1>2. n \in 0 .. Len(f.data)
  BY <1>1
<1> HIDE DEF n
<1>3. b \in Seq(Bytes) /\ Len(b) = n /\ \A i \in 1 .. n : b[i] = f.data[i]
  BY <1>1, <1>2, Firsts DEF IsFront
<1> HIDE DEF b
<1>4. \A i \in 1 .. n : (f.offset + i - 1) - f.offset + 1 = i
  BY <1>1, <1>2
<1>5. \A i \in 1 .. n : b[i] = ByteAt(f, f.offset + i - 1)
  BY <1>3, <1>4 DEF ByteAt
<1> QED
  BY <1>3, <1>5 DEF IsPart, b, n

LEMMA BackPart ==
    ASSUME NEW f \in Fragment, NEW p \in Nat, f.offset <= p, p <= End(f)
    PROVE  IsPart(BytesFrom(f, p), f, p, End(f))
<1> DEFINE n == p - f.offset
           b == SubSeq(f.data, n + 1, Len(f.data))
<1>1. /\ f.data \in Seq(Bytes) /\ f.offset \in Nat /\ Len(f.data) \in Nat
      /\ End(f) = f.offset + Len(f.data)
  BY FragmentIs
<1>2. n \in 0 .. Len(f.data) /\ Len(f.data) - n = End(f) - p
  BY <1>1
<1>3. b = BytesFrom(f, p)
  BY DEF BytesFrom
<1>4. \A i \in 1 .. (Len(f.data) - n) : (p + i - 1) - f.offset + 1 = n + i
  BY <1>1
<1> HIDE DEF n
<1>5. /\ b \in Seq(Bytes) /\ Len(b) = Len(f.data) - n
      /\ \A i \in 1 .. (Len(f.data) - n) : b[i] = f.data[n + i]
  BY <1>1, <1>2, Lasts DEF IsBack
<1> HIDE DEF b
<1>6. \A i \in 1 .. (Len(f.data) - n) : b[i] = ByteAt(f, p + i - 1)
  BY <1>4, <1>5 DEF ByteAt
<1> QED
  BY <1>2, <1>3, <1>5, <1>6 DEF IsPart

\* A fragment from other bytes
Made(f, o, b, r) ==
    f \in Fragment /\ f.offset = o /\ f.data = b /\ f.room = r /\ End(f) = o + Len(b)

LEMMA MadeOf ==
    ASSUME NEW o \in Offsets, NEW b \in Seq(Bytes), NEW r \in Nat
    PROVE  Made([offset |-> o, data |-> b, room |-> r], o, b, r)
BY DEF Fragment, End, Made

\* g has the bytes of f from p on.
Covers(g, f, p) ==
    \A x \in Nat : p <= x /\ g.offset <= x /\ x < End(g) =>
        f.offset <= x /\ x < End(f) /\ ByteAt(g, x) = ByteAt(f, x)

LEMMA CoversFresh ==
    ASSUME NEW g, NEW f, NEW lat, NEW p \in Nat, Covers(g, f, p), Fresh(f, lat, p)
    PROVE  Fresh(g, lat, p)
BY DEF Covers, Fresh

\* The front of a fragment, with another room
LEMMA UpToIs ==
    ASSUME NEW f \in Fragment, NEW p \in Nat, f.offset <= p, p <= End(f)
    PROVE  LET g == UpTo(f, p)
           IN  /\ g \in Fragment /\ g.offset = f.offset /\ g.room = f.room /\ End(g) = p
               /\ Len(g.data) = p - f.offset /\ Covers(g, f, 0)
<1> DEFINE b == SubSeq(f.data, 1, p - f.offset)
           g == UpTo(f, p)
<1>1. /\ f.offset \in Nat /\ f.offset \in Offsets /\ f.room \in Nat /\ Len(f.data) \in Nat
      /\ End(f) = f.offset + Len(f.data)
  BY FragmentIs
<1>2. IsPart(b, f, f.offset, p)
  BY FrontPart
<1>3. g = [f EXCEPT !.data = b]
  BY DEF UpTo
<1> HIDE DEF b
<1>4. g = [offset |-> f.offset, data |-> b, room |-> f.room]
  BY <1>3 DEF Fragment
<1>5. b \in Seq(Bytes) /\ Len(b) = p - f.offset
  BY <1>2 DEF IsPart
<1> HIDE DEF g
<1>6. /\ g \in Fragment /\ g.offset = f.offset /\ g.data = b /\ g.room = f.room
      /\ End(g) = f.offset + Len(b)
  BY <1>1, <1>4, <1>5, MadeOf DEF Made
<1>7. End(g) = p
  BY <1>1, <1>5, <1>6
<1>8. Covers(g, f, 0)
  <2> SUFFICES ASSUME NEW x \in Nat, g.offset <= x, x < End(g)
               PROVE  f.offset <= x /\ x < End(f) /\ ByteAt(g, x) = ByteAt(f, x)
    BY DEF Covers
  <2>1. f.offset <= x /\ x < p
    BY <1>6, <1>7
  <2>2. x - f.offset + 1 \in 1 .. Len(b) /\ f.offset + (x - f.offset + 1) - 1 = x
    <3>1. f.offset \in Nat /\ p \in Nat /\ x \in Nat
      BY <1>1
    <3>2. x - f.offset \in 0 .. p - f.offset - 1
      BY <2>1, <3>1
    <3> QED
      BY <1>5, <3>1, <3>2
  <2>3. b[x - f.offset + 1] = ByteAt(f, f.offset + (x - f.offset + 1) - 1)
    BY <1>2, <2>2 DEF IsPart
  <2>4. ByteAt(g, x) = b[x - f.offset + 1]
    BY <1>6 DEF ByteAt
  <2> QED
    BY <1>1, <2>1, <2>2, <2>3, <2>4
<1> QED
  BY <1>5, <1>6, <1>7, <1>8 DEF g

\* The room is given back.
LEMMA ShrunkIs ==
    ASSUME NEW f \in Fragment
    PROVE  LET g == [f EXCEPT !.room = Len(f.data)]
           IN  /\ g \in Fragment /\ g.offset = f.offset /\ g.data = f.data
               /\ g.room = Len(f.data) /\ End(g) = End(f) /\ Covers(g, f, 0)
<1> DEFINE g == [f EXCEPT !.room = Len(f.data)]
<1>1. Len(f.data) \in Nat
  BY FragmentIs
<1>2. g \in Fragment /\ g.offset = f.offset /\ g.data = f.data /\ g.room = Len(f.data)
  BY <1>1 DEF Fragment
<1> HIDE DEF g
<1>3. End(g) = End(f)
  BY <1>2 DEF End
<1>4. Covers(g, f, 0)
  BY <1>2, <1>3 DEF Covers, ByteAt
<1> QED
  BY <1>2, <1>3, <1>4 DEF g

\* The back of a fragment
LEMMA FromIs ==
    ASSUME NEW f \in Fragment, NEW p \in Offsets, f.offset <= p, p <= End(f)
    PROVE  LET g == [offset |-> p, data |-> BytesFrom(f, p), room |-> f.room]
           IN  /\ g \in Fragment /\ g.offset = p /\ g.room = f.room /\ End(g) = End(f)
               /\ Len(g.data) = End(f) - p /\ Covers(g, f, 0)
<1> DEFINE b == BytesFrom(f, p)
           g == [offset |-> p, data |-> b, room |-> f.room]
<1>1. /\ f.offset \in Nat /\ f.offset \in Offsets /\ f.room \in Nat /\ Len(f.data) \in Nat
      /\ End(f) = f.offset + Len(f.data) /\ p \in Nat
  BY FragmentIs, BoundsAssumption DEF Offsets
<1>2. IsPart(b, f, p, End(f))
  BY <1>1, BackPart
<1> HIDE DEF b
<1>4. b \in Seq(Bytes) /\ Len(b) = End(f) - p
  BY <1>2 DEF IsPart
<1>5. /\ g \in Fragment /\ g.offset = p /\ g.data = b /\ g.room = f.room /\ End(g) = p + Len(b)
  BY <1>1, <1>4, MadeOf DEF Made
<1> HIDE DEF g
<1>6. End(g) = End(f)
  BY <1>1, <1>4, <1>5
<1>7. Covers(g, f, 0)
  <2> SUFFICES ASSUME NEW x \in Nat, g.offset <= x, x < End(g)
               PROVE  f.offset <= x /\ x < End(f) /\ ByteAt(g, x) = ByteAt(f, x)
    BY DEF Covers
  <2>1. p <= x /\ x < End(f)
    BY <1>5, <1>6
  <2>2. x - p + 1 \in 1 .. Len(b) /\ p + (x - p + 1) - 1 = x
    BY <1>1, <1>4, <2>1
  <2>3. b[x - p + 1] = ByteAt(f, p + (x - p + 1) - 1)
    BY <1>2, <2>2 DEF IsPart
  <2>4. ByteAt(g, x) = b[x - p + 1]
    BY <1>5 DEF ByteAt
  <2> QED
    BY <1>1, <2>1, <2>2, <2>3, <2>4
<1> QED
  BY <1>4, <1>5, <1>6, <1>7 DEF g, b

\* What goes on behind f is taken from g, which begins before f ends.
LEMMA GrownIs ==
    ASSUME NEW f \in Fragment, NEW g \in Fragment, g.offset <= End(f), End(f) <= End(g)
    PROVE  LET b == f.data \o BytesFrom(g, End(f))
               h == [offset |-> f.offset, data |-> b, room |-> Len(b)]
           IN  /\ h \in Fragment /\ h.offset = f.offset /\ h.room = Len(h.data)
               /\ End(h) = End(g)
               /\ \A x \in Nat : f.offset <= x /\ x < End(h) =>
                    ByteAt(h, x) = IF x < End(f) THEN ByteAt(f, x) ELSE ByteAt(g, x)
<1> DEFINE t == BytesFrom(g, End(f))
           b == f.data \o t
           h == [offset |-> f.offset, data |-> b, room |-> Len(b)]
<1>1. /\ f.offset \in Nat /\ f.offset \in Offsets /\ f.data \in Seq(Bytes) /\ Len(f.data) \in Nat
      /\ End(f) = f.offset + Len(f.data) /\ End(f) \in Nat /\ End(g) \in Nat
  BY FragmentIs
<1>2. IsPart(t, g, End(f), End(g))
  BY <1>1, BackPart
<1>3. t \in Seq(Bytes) /\ Len(t) = End(g) - End(f)
  BY <1>2 DEF IsPart
<1> HIDE DEF t
<1>4. /\ b \in Seq(Bytes) /\ Len(b) = Len(f.data) + Len(t)
      /\ \A i \in 1 .. Len(f.data) : b[i] = f.data[i]
      /\ \A i \in 1 .. Len(t) : b[Len(f.data) + i] = t[i]
  <2>1. b \in Seq(Bytes) /\ IsJoint(b, f.data, t)
    BY <1>1, <1>3, Joined, Zenon
  <2> QED
    BY <2>1 DEF IsJoint
<1> HIDE DEF b
<1>5. Len(b) \in Nat /\ Len(b) = End(g) - f.offset
  BY <1>1, <1>3, <1>4
<1>6. /\ h \in Fragment /\ h.offset = f.offset /\ h.data = b /\ h.room = Len(b)
      /\ End(h) = f.offset + Len(b)
  <2>1. Made(h, f.offset, b, Len(b))
    BY <1>1, <1>4, <1>5, MadeOf
  <2> HIDE DEF h
  <2> QED
    BY <2>1 DEF Made
<1> HIDE DEF h
<1>7. End(h) = End(g)
  BY <1>1, <1>5, <1>6
<1>8. ASSUME NEW x \in Nat, f.offset <= x, x < End(h)
      PROVE  ByteAt(h, x) = IF x < End(f) THEN ByteAt(f, x) ELSE ByteAt(g, x)
  <2>1. ByteAt(h, x) = b[x - f.offset + 1] /\ ByteAt(f, x) = f.data[x - f.offset + 1]
    BY <1>6 DEF ByteAt
  <2>2. CASE x < End(f)
    <3>1. x - f.offset + 1 \in 1 .. Len(f.data)
      BY <1>1, <1>8, <2>2
    <3> QED
      BY <1>4, <2>1, <2>2, <3>1
  <2>3. CASE ~(x < End(f))
    <3>1. x - End(f) + 1 \in 1 .. Len(t)
      BY <1>1, <1>3, <1>7, <1>8, <2>3
    <3>2. Len(f.data) + (x - End(f) + 1) = x - f.offset + 1 /\ End(f) + (x - End(f) + 1) - 1 = x
      BY <1>1
    <3>3. b[Len(f.data) + (x - End(f) + 1)] = t[x - End(f) + 1]
      BY <1>4, <3>1
    <3>4. t[x - End(f) + 1] = ByteAt(g, End(f) + (x - End(f) + 1) - 1)
      BY <1>2, <3>1 DEF IsPart
    <3> QED
      BY <2>1, <2>3, <3>2, <3>3, <3>4
  <2> QED
    BY <2>2, <2>3
<1> QED
  BY <1>6, <1>7, <1>8 DEF h, b, t

-----------------------------------------------------------------------------
(* truncate_entry() and remove_overlaps()                                  *)

\* Sorted and disjoint, within their rooms, and what is read is the latest
InOrder(q) == \A i, j \in 1 .. Len(q) : i < j => End(q[i]) <= q[j].offset
Roomy(q) == \A i \in 1 .. Len(q) : Len(q[i].data) <= q[i].room
AllFresh(q, lat) == \A i \in 1 .. Len(q) : Fresh(q[i], lat, 0)
Sound(q, lat) == q \in Seq(Fragment) /\ InOrder(q) /\ Roomy(q) /\ AllFresh(q, lat)

Within(q, p) == \A i \in 1 .. Len(q) : End(q[i]) <= p
HeldAt(q, x) == \E i \in 1 .. Len(q) : q[i].offset <= x /\ x < End(q[i])
KeepsTo(q, r, p) == \A x \in Nat : x < p /\ HeldAt(q, x) => HeldAt(r, x)

\* The members behind a up to the first that is not in H
Run(n, a, H) == {i \in (a + 1) .. n : \A j \in (a + 1) .. i : j \in H}

IsRun(c, n, a, H) ==
    /\ c \in 0 .. (n - a) /\ Run(n, a, H) = (a + 1) .. (a + c)
    /\ \A i \in (a + 1) .. (a + c) : i \in H
    /\ a + c < n => a + c + 1 \notin H

LEMMA RunIs ==
    ASSUME NEW n \in Nat, NEW a \in 0 .. n, NEW H
    PROVE  IsRun(Cardinality(Run(n, a, H)), n, a, H)
<1> DEFINE R == {i \in (a + 1) .. n : \A j \in (a + 1) .. i : j \in H}
           T == {i \in a .. n : i = n \/ i + 1 \notin H}
<1>1. T \in SUBSET Nat /\ n \in T
  OBVIOUS
<1> HIDE DEF T
<1>2. PICK m \in T : \A k \in T : m <= k
  BY <1>1, Least
<1>3. m \in a .. n /\ (m < n => m + 1 \notin H)
  BY <1>2 DEF T
<1>4. ASSUME NEW i \in (a + 1) .. m PROVE i \in H
  <2>1. i - 1 \in a .. n /\ i - 1 < m /\ ~(m <= i - 1) /\ i - 1 # n /\ (i - 1) + 1 = i
    BY <1>3
  <2>2. i - 1 \notin T
    BY <1>2, <2>1
  <2> QED
    BY <2>1, <2>2 DEF T
<1>5. R = (a + 1) .. m
  <2>1. ASSUME NEW i \in R PROVE i \in (a + 1) .. m
    <3>1. i \in (a + 1) .. n /\ \A j \in (a + 1) .. i : j \in H
      OBVIOUS
    <3>2. ~(i <= m) => m + 1 \in (a + 1) .. i /\ m < n
      BY <1>3, <3>1
    <3> QED
      BY <1>3, <3>1, <3>2
  <2>2. ASSUME NEW i \in (a + 1) .. m PROVE i \in R
    <3>1. i \in (a + 1) .. n /\ \A j \in (a + 1) .. i : j \in (a + 1) .. m
      BY <1>3
    <3> QED
      BY <1>4, <3>1
  <2> QED
    BY <2>1, <2>2
<1> HIDE DEF R
<1>6. Cardinality(R) = m - a
  <2>1. a + 1 \in Int /\ m \in Int
    BY <1>3
  <2>2. Cardinality((a + 1) .. m) = IF a + 1 > m THEN 0 ELSE m - (a + 1) + 1
    BY <2>1, FS_Interval
  <2> QED
    BY <1>3, <1>5, <2>2
<1>7. a + Cardinality(R) = m /\ Cardinality(R) \in 0 .. (n - a)
  BY <1>3, <1>6
<1> QED
  BY <1>3, <1>4, <1>5, <1>7 DEF R, Run, IsRun

\* The fragments that end at p or before
LEMMA EndingTo ==
    ASSUME NEW q \in Seq(Fragment), NEW p \in Nat
    PROVE  LET n == Prefix(q, LAMBDA f : End(f) <= p)
           IN  /\ n \in 0 .. Len(q)
               /\ \A i \in 1 .. n : End(q[i]) <= p
               /\ n < Len(q) => ~(End(q[n + 1]) <= p)
<1> DEFINE H == {i \in 1 .. Len(q) : End(q[i]) <= p}
           c == Cardinality(Run(Len(q), 0, H))
<1>1. Len(q) \in Nat /\ DOMAIN q = 1 .. Len(q) /\ 0 \in 0 .. Len(q)
  BY FragmentsAre
<1>2. c = Prefix(q, LAMBDA f : End(f) <= p)
  <2>1. Run(Len(q), 0, H) = {i \in DOMAIN q : \A j \in 1 .. i : End(q[j]) <= p}
    BY <1>1 DEF Run
  <2> QED
    BY <2>1 DEF Prefix
<1>3. /\ c \in 0 .. (Len(q) - 0)
      /\ \A i \in (0 + 1) .. (0 + c) : i \in H
      /\ 0 + c < Len(q) => 0 + c + 1 \notin H
  <2> HIDE DEF H
  <2>1. IsRun(c, Len(q), 0, H)
    BY <1>1, RunIs, Zenon
  <2> QED
    BY <2>1 DEF IsRun
<1> HIDE DEF c
<1>4. c \in 0 .. Len(q) /\ 1 .. c = (0 + 1) .. (0 + c) /\ 0 + c = c /\ 0 + c + 1 = c + 1
  BY <1>1, <1>3
<1>5. c < Len(q) => c + 1 \in 1 .. Len(q)
  BY <1>1, <1>4
<1> QED
  BY <1>2, <1>3, <1>4, <1>5

\* A sound list without its end, and with another last fragment
LEMMA SoundFront ==
    ASSUME NEW q, NEW lat, Sound(q, lat), NEW n \in 0 .. Len(q)
    PROVE  /\ Sound(SubSeq(q, 1, n), lat)
           /\ IsFront(SubSeq(q, 1, n), q, n)
<1> DEFINE r == SubSeq(q, 1, n)
<1>1. q \in Seq(Fragment) /\ InOrder(q) /\ Roomy(q) /\ AllFresh(q, lat)
  BY DEF Sound
<1>2. r \in Seq(Fragment) /\ IsFront(r, q, n)
  BY <1>1, Firsts
<1> HIDE DEF r
<1>3. Len(r) = n /\ \A i \in 1 .. n : r[i] = q[i]
  BY <1>2 DEF IsFront
<1>4. Len(q) \in Nat /\ \A i \in 1 .. n : i \in 1 .. Len(q)
  BY <1>1, FragmentsAre
<1>5. InOrder(r)
  BY <1>1, <1>3, <1>4 DEF InOrder
<1>6. Roomy(r) /\ AllFresh(r, lat)
  BY <1>1, <1>3, <1>4 DEF Roomy, AllFresh
<1> QED
  BY <1>2, <1>5, <1>6 DEF Sound, r

LEMMA SoundAppended ==
    ASSUME NEW q, NEW lat, Sound(q, lat), NEW f \in Fragment, Within(q, f.offset),
           Len(f.data) <= f.room, Fresh(f, lat, 0)
    PROVE  Sound(q \o <<f>>, lat) /\ IsJoint(q \o <<f>>, q, <<f>>)
<1> DEFINE t == <<f>>
           r == q \o t
<1>1. q \in Seq(Fragment) /\ InOrder(q) /\ Roomy(q) /\ AllFresh(q, lat) /\ Len(q) \in Nat
  BY FragmentsAre DEF Sound
<1>2. t \in Seq(Fragment) /\ Len(t) = 1 /\ t[1] = f
  OBVIOUS
<1> HIDE DEF t
<1>3. r \in Seq(Fragment) /\ IsJoint(r, q, t)
  BY <1>1, <1>2, Joined, Zenon
<1> HIDE DEF r
<1>4. /\ Len(r) = Len(q) + 1 /\ r[Len(q) + 1] = f
      /\ \A i \in 1 .. Len(q) : r[i] = q[i]
  BY <1>1, <1>2, <1>3 DEF IsJoint
<1>5. \A i \in 1 .. Len(r) : i \in 1 .. Len(q) \/ i = Len(q) + 1
  BY <1>1, <1>4
<1>6. \A i, j \in 1 .. Len(r) : i < j => i \in 1 .. Len(q)
  BY <1>1, <1>4
<1>7. InOrder(r)
  <2> SUFFICES ASSUME NEW i \in 1 .. Len(r), NEW j \in 1 .. Len(r), i < j
               PROVE  End(r[i]) <= r[j].offset
    BY DEF InOrder
  <2>1. i \in 1 .. Len(q) /\ r[i] = q[i]
    BY <1>4, <1>6
  <2>2. CASE j = Len(q) + 1
    BY <1>4, <2>1, <2>2 DEF Within
  <2>3. CASE j \in 1 .. Len(q)
    BY <1>1, <1>4, <2>1, <2>3 DEF InOrder
  <2> QED
    BY <1>5, <2>2, <2>3
<1>8. Roomy(r) /\ AllFresh(r, lat)
  BY <1>1, <1>4, <1>5 DEF Roomy, AllFresh
<1> QED
  BY <1>3, <1>7, <1>8 DEF Sound, r, t

LEMMA TruncatedIs ==
    ASSUME NEW q, NEW lat, Sound(q, lat), NEW p \in Nat, NEW final \in BOOLEAN
    PROVE  LET r == Truncated(q, p, final)
           IN  /\ Sound(r, lat) /\ Within(r, p) /\ KeepsTo(q, r, p)
               /\ \A e \in Nat : Within(q, e) => Within(r, e)
<1> DEFINE n == Prefix(q, LAMBDA f : End(f) <= p)
           s == SubSeq(q, 1, n)
           cut == UpTo(q[n + 1], p)
           g == IF final THEN [cut EXCEPT !.room = Len(cut.data)] ELSE cut
           r == Truncated(q, p, final)
<1>1. q \in Seq(Fragment) /\ InOrder(q) /\ Roomy(q) /\ AllFresh(q, lat) /\ Len(q) \in Nat
  BY FragmentsAre DEF Sound
<1>2. /\ n \in 0 .. Len(q)
      /\ \A i \in 1 .. n : End(q[i]) <= p
      /\ n < Len(q) => ~(End(q[n + 1]) <= p)
  BY <1>1, EndingTo
<1>3. r = s \o (IF n = Len(q) \/ q[n + 1].offset >= p THEN <<>>
                ELSE IF final THEN <<[cut EXCEPT !.room = Len(cut.data)]>> ELSE <<cut>>)
  BY DEF Truncated
<1> HIDE DEF n
<1>4. Sound(s, lat) /\ IsFront(s, q, n)
  BY <1>2, SoundFront
<1>5. /\ s \in Seq(Fragment) /\ Len(s) = n /\ n \in Nat
      /\ \A i \in 1 .. n : s[i] = q[i] /\ i \in 1 .. Len(q)
  BY <1>1, <1>2, <1>4 DEF Sound, IsFront
<1> HIDE DEF s, r
<1>6. CASE n = Len(q) \/ q[n + 1].offset >= p
  <2>1. r = s
    BY <1>3, <1>5, <1>6, ConcatEmptySeq
  <2>2. Within(s, p) /\ \A e \in Nat : Within(q, e) => Within(s, e)
    BY <1>2, <1>5 DEF Within
  <2>3. ASSUME NEW x \in Nat, x < p, HeldAt(q, x) PROVE HeldAt(s, x)
    <3>1. PICK i \in 1 .. Len(q) : q[i].offset <= x /\ x < End(q[i])
      BY <2>3 DEF HeldAt
    <3>2. CASE i \in 1 .. n
      BY <1>5, <3>1, <3>2 DEF HeldAt
    <3>3. CASE i \notin 1 .. n
      <4>1. n + 1 \in 1 .. Len(q) /\ n < Len(q) /\ q[n + 1].offset >= p /\ (i = n + 1 \/ n + 1 < i)
        BY <1>1, <1>2, <1>5, <1>6, <3>3
      <4>2. q[i].offset \in Nat /\ q[n + 1].offset \in Nat /\ End(q[n + 1]) \in Nat
        BY <1>1, <4>1, FragmentsAre, FragmentIs
      <4>3. n + 1 < i => End(q[n + 1]) <= q[i].offset
        BY <1>1, <4>1 DEF InOrder
      <4>4. ~(End(q[n + 1]) <= p)
        BY <1>2, <4>1
      <4> QED
        BY <2>3, <3>1, <4>1, <4>2, <4>3, <4>4
    <3> QED
      BY <3>2, <3>3
  <2> QED
    BY <1>4, <2>1, <2>2, <2>3 DEF KeepsTo, r
<1>7. CASE ~(n = Len(q) \/ q[n + 1].offset >= p)
  <2>1. r = s \o <<g>>
    BY <1>3, <1>7
  <2>2. n + 1 \in 1 .. Len(q) /\ n < Len(q) /\ q[n + 1] \in Fragment
    BY <1>1, <1>2, <1>7, FragmentsAre
  <2> DEFINE f == q[n + 1]
  <2>3. /\ f.offset \in Nat /\ End(f) \in Nat /\ f.room \in Nat /\ Len(f.data) \in Nat
        /\ End(f) = f.offset + Len(f.data)
        /\ Len(f.data) <= f.room /\ Fresh(f, lat, 0)
    BY <1>1, <2>2, FragmentIs DEF Roomy, AllFresh
  <2>4. f.offset <= p /\ p <= End(f) /\ f.offset < p
    BY <1>2, <1>7, <2>2, <2>3
  <2> HIDE DEF f
  <2>5. /\ cut \in Fragment /\ cut.offset = f.offset /\ cut.room = f.room /\ End(cut) = p
        /\ Len(cut.data) = p - f.offset /\ Covers(cut, f, 0)
    BY <2>2, <2>4, UpToIs DEF f
  <2> HIDE DEF cut
  <2>6. /\ g \in Fragment /\ g.offset = f.offset /\ End(g) = p /\ Len(g.data) <= g.room
        /\ Fresh(g, lat, 0)
    <3>1. Fresh(cut, lat, 0)
      BY <2>3, <2>5, CoversFresh
    <3>2. Len(cut.data) <= cut.room
      BY <2>3, <2>4, <2>5
    <3>3. Len(cut.data) \in Nat
      BY <2>5, FragmentIs
    <3> DEFINE h == [cut EXCEPT !.room = Len(cut.data)]
    <3>4. /\ h \in Fragment /\ h.offset = cut.offset /\ h.data = cut.data
          /\ h.room = Len(cut.data) /\ End(h) = End(cut) /\ Covers(h, cut, 0)
      BY <2>5, ShrunkIs
    <3> HIDE DEF h
    <3>5. Fresh(h, lat, 0)
      BY <3>1, <3>4, CoversFresh
    <3>6. Len(h.data) <= h.room
      BY <3>3, <3>4
    <3>7. g = h \/ g = cut
      BY DEF h
    <3> HIDE DEF g
    <3> QED
      BY <2>5, <3>1, <3>2, <3>4, <3>5, <3>6, <3>7
  <2> HIDE DEF g
  <2>7. Within(s, f.offset)
    <3>1. \A i \in 1 .. n : i < n + 1
      BY <1>5
    <3> QED
      BY <1>1, <1>5, <2>2, <3>1 DEF Within, InOrder, f
  <2>8. Sound(r, lat) /\ IsJoint(r, s, <<g>>)
    BY <1>4, <2>1, <2>6, <2>7, SoundAppended
  <2>9. /\ Len(r) = n + 1 /\ r[n + 1] = g
        /\ \A i \in 1 .. n : r[i] = q[i]
    BY <1>5, <2>8 DEF IsJoint
  <2>10. \A i \in 1 .. Len(r) : i \in 1 .. n \/ i = n + 1
    BY <1>5, <2>9
  <2>11. Within(r, p)
    BY <1>2, <2>6, <2>9, <2>10 DEF Within
  <2>12. ASSUME NEW e \in Nat, Within(q, e) PROVE Within(r, e)
    <3>1. End(f) <= e
      BY <2>2, <2>12 DEF Within, f
    <3>2. End(g) <= e
      BY <2>3, <2>4, <2>6, <3>1
    <3> QED
      BY <1>5, <2>9, <2>10, <2>12, <3>2 DEF Within
  <2>13. ASSUME NEW x \in Nat, x < p, HeldAt(q, x) PROVE HeldAt(r, x)
    <3>1. PICK i \in 1 .. Len(q) : q[i].offset <= x /\ x < End(q[i])
      BY <2>13 DEF HeldAt
    <3>2. CASE i \in 1 .. n
      <4>1. i \in 1 .. Len(r)
        BY <1>5, <2>9, <3>2
      <4> QED
        BY <2>9, <3>1, <3>2, <4>1 DEF HeldAt
    <3>3. CASE i \notin 1 .. n
      <4>1. i = n + 1 \/ n + 1 < i
        BY <1>5, <3>3
      <4>2. n + 1 < i => End(f) <= q[i].offset /\ q[i].offset \in Nat
        BY <1>1, <2>2, FragmentsAre, FragmentIs DEF InOrder, f
      <4>3. f.offset <= x
        BY <2>3, <2>4, <3>1, <4>1, <4>2 DEF f
      <4>4. n + 1 \in 1 .. Len(r)
        BY <1>5, <2>9
      <4> QED
        BY <2>6, <2>9, <2>13, <4>3, <4>4 DEF HeldAt
    <3> QED
      BY <3>2, <3>3
  <2> QED
    BY <2>8, <2>11, <2>12, <2>13 DEF KeepsTo, r
<1> QED
  BY <1>6, <1>7

\* A list that is sound but for what is behind the i-th fragment and overlaps it
Mergeable(q, i, lat) ==
    /\ q \in Seq(Fragment) /\ i \in 1 .. Len(q)
    /\ \A j, k \in 1 .. Len(q) : j < k /\ j # i => End(q[j]) <= q[k].offset
    /\ Roomy(q)
    /\ \A j \in 1 .. i : Fresh(q[j], lat, 0)
    /\ \A j \in (i + 1) .. Len(q) : Fresh(q[j], lat, End(q[i]))

\* The i-th fragment and those that follow up to the last one become m.
Merging(q, i, last, m, lat) ==
    /\ m \in Fragment /\ m.offset = q[i].offset /\ End(q[i]) <= End(m)
    /\ Len(m.data) <= m.room /\ Fresh(m, lat, 0)
    /\ End(m) = End(q[i]) \/ End(m) = End(q[last])
    /\ \A k \in (last + 1) .. Len(q) : End(m) <= q[k].offset

LEMMA OverlappedIs ==
    ASSUME NEW q, NEW i, NEW lat, Mergeable(q, i, lat)
    PROVE  LET last == i + Cardinality(Overlapped(q, i))
           IN  /\ last \in i .. Len(q)
               /\ \A k \in (i + 1) .. last : q[k].offset < End(q[i])
               /\ \A k \in (last + 1) .. Len(q) : End(q[i]) <= q[k].offset
<1> DEFINE H == {k \in 1 .. Len(q) : q[k].offset < End(q[i])}
           c == Cardinality(Run(Len(q), i, H))
           last == i + c
<1>1. /\ q \in Seq(Fragment) /\ Len(q) \in Nat /\ i \in 1 .. Len(q) /\ i \in Nat
      /\ \A j, k \in 1 .. Len(q) : j < k /\ j # i => End(q[j]) <= q[k].offset
      /\ \A k \in 1 .. Len(q) : q[k] \in Fragment
  BY FragmentsAre DEF Mergeable
<1>2. Overlapped(q, i) = Run(Len(q), i, H)
  <2>1. \A j \in (i + 1) .. Len(q) : \A k \in (i + 1) .. j : k \in 1 .. Len(q)
    BY <1>1
  <2> QED
    BY <2>1 DEF Overlapped, Run
<1>3. IsRun(c, Len(q), i, H)
  <2> HIDE DEF H
  <2>1. i \in 0 .. Len(q)
    BY <1>1
  <2> QED
    BY <1>1, <2>1, RunIs, Zenon
<1> HIDE DEF c
<1>4. /\ c \in 0 .. (Len(q) - i)
      /\ \A k \in (i + 1) .. (i + c) : k \in H
      /\ i + c < Len(q) => i + c + 1 \notin H
  BY <1>3 DEF IsRun
<1>5. last \in i .. Len(q) /\ last \in Nat
  BY <1>1, <1>4
<1>6. ASSUME NEW k \in (last + 1) .. Len(q) PROVE End(q[i]) <= q[k].offset
  <2>1. /\ last + 1 \in 1 .. Len(q) /\ k \in 1 .. Len(q) /\ last < Len(q)
        /\ (k = last + 1 \/ last + 1 < k) /\ last + 1 # i
    BY <1>1, <1>5
  <2>2. ~(q[last + 1].offset < End(q[i]))
    BY <1>4, <2>1
  <2>3. /\ q[last + 1].offset \in Nat /\ End(q[last + 1]) \in Nat /\ End(q[i]) \in Nat
        /\ q[last + 1].offset <= End(q[last + 1]) /\ q[k].offset \in Nat
    BY <1>1, <2>1, FragmentIs
  <2>4. last + 1 < k => End(q[last + 1]) <= q[k].offset
    BY <1>1, <2>1
  <2> QED
    BY <2>1, <2>2, <2>3, <2>4
<1> QED
  BY <1>2, <1>4, <1>5, <1>6 DEF c

LEMMA MergedIs ==
    ASSUME NEW q, NEW i, NEW lat, Mergeable(q, i, lat), NEW grow \in BOOLEAN
    PROVE  LET r == Merged(q, i, grow)
               last == i + Cardinality(Overlapped(q, i))
           IN  \E m : /\ Merging(q, i, last, m, lat)
                      /\ r = Spliced(q, i - 1, m, last)
<1> DEFINE last == i + Cardinality(Overlapped(q, i))
           f == q[i]
           g == q[last]
           b == f.data \o BytesFrom(g, End(f))
           h == [offset |-> f.offset, data |-> b, room |-> Len(b)]
           m == IF grow /\ End(g) > End(f) THEN h ELSE f
<1>1. /\ q \in Seq(Fragment) /\ Len(q) \in Nat /\ i \in 1 .. Len(q) /\ i \in Nat
      /\ \A j, k \in 1 .. Len(q) : j < k /\ j # i => End(q[j]) <= q[k].offset
      /\ \A k \in 1 .. Len(q) : q[k] \in Fragment
      /\ Len(f.data) <= f.room /\ Fresh(f, lat, 0)
      /\ \A j \in (i + 1) .. Len(q) : Fresh(q[j], lat, End(f))
  <2>1. i \in 1 .. i
    BY DEF Mergeable
  <2> QED
    BY <2>1, FragmentsAre DEF Mergeable, Roomy
<1>2. Merged(q, i, grow) = Spliced(q, i - 1, m, last)
  BY DEF Merged, Spliced
<1>3. /\ last \in i .. Len(q)
      /\ \A k \in (i + 1) .. last : q[k].offset < End(f)
      /\ \A k \in (last + 1) .. Len(q) : End(f) <= q[k].offset
  BY OverlappedIs
<1> HIDE DEF last
<1>4. /\ f \in Fragment /\ g \in Fragment /\ f.offset \in Nat /\ End(f) \in Nat /\ End(g) \in Nat
      /\ last \in 1 .. Len(q) /\ last \in Nat
  BY <1>1, <1>3, FragmentIs
<1>5. CASE ~(grow /\ End(g) > End(f))
  <2>1. m = f
    BY <1>5
  <2> HIDE DEF m
  <2>2. End(f) <= End(m)
    BY <1>4, <2>1
  <2>3. Merging(q, i, last, m, lat)
    BY <1>1, <1>3, <1>4, <2>1, <2>2 DEF Merging
  <2> QED
    BY <1>2, <2>3 DEF last
<1>6. CASE grow /\ End(g) > End(f)
  <2>1. m = h
    BY <1>6
  <2>2. last # i /\ last \in (i + 1) .. last /\ last \in (i + 1) .. Len(q)
    <3>1. last # i
      BY <1>4, <1>6
    <3> QED
      BY <1>1, <1>3, <1>4, <3>1
  <2>3. g.offset < End(f) /\ Fresh(g, lat, End(f)) /\ g.offset \in Nat
    BY <1>1, <1>3, <1>4, <2>2, FragmentIs
  <2>4. g.offset <= End(f) /\ End(f) <= End(g)
    BY <1>4, <1>6, <2>3
  <2> HIDE DEF f, g
  <2>5. /\ h \in Fragment /\ h.offset = f.offset /\ h.room = Len(h.data)
        /\ End(h) = End(g)
        /\ \A x \in Nat : f.offset <= x /\ x < End(h) =>
             ByteAt(h, x) = IF x < End(f) THEN ByteAt(f, x) ELSE ByteAt(g, x)
    BY <1>4, <2>4, GrownIs
  <2> HIDE DEF h
  <2>6. Fresh(h, lat, 0)
    <3> SUFFICES ASSUME NEW x \in Nat, h.offset <= x, x < End(h)
                 PROVE  ByteAt(h, x) = lat[x]
      BY DEF Fresh
    <3>1. CASE x < End(f)
      BY <1>1, <2>5, <3>1 DEF Fresh
    <3>2. CASE ~(x < End(f))
      <4>1. End(f) <= x /\ g.offset <= x /\ x < End(g)
        BY <1>4, <2>3, <2>5, <3>2
      <4> QED
        BY <2>3, <2>5, <3>2, <4>1 DEF Fresh
    <3> QED
      BY <3>1, <3>2
  <2>7. Len(h.data) <= h.room
    BY <2>5, FragmentIs
  <2>8. \A k \in (last + 1) .. Len(q) : End(h) <= q[k].offset
    <3>1. \A k \in (last + 1) .. Len(q) : k \in 1 .. Len(q) /\ last < k
      BY <1>1, <1>4
    <3> QED
      BY <1>1, <1>4, <2>2, <2>5, <3>1 DEF g
  <2>9. Merging(q, i, last, h, lat)
    BY <2>4, <2>5, <2>6, <2>7, <2>8 DEF Merging, f, g
  <2> HIDE DEF m
  <2> QED
    BY <1>2, <2>1, <2>9 DEF last
<1> QED
  BY <1>5, <1>6

\* What the list is like then
LEMMA MergedSound ==
    ASSUME NEW q, NEW i, NEW lat, Mergeable(q, i, lat), NEW grow \in BOOLEAN
    PROVE  LET r == Merged(q, i, grow)
           IN  /\ Sound(r, lat)
               /\ i \in 1 .. Len(r) /\ r[i].offset = q[i].offset /\ End(q[i]) <= End(r[i])
               /\ \A j \in 1 .. (i - 1) : r[j] = q[j] /\ j \in 1 .. Len(r)
               /\ \A e \in Nat : Within(q, e) => Within(r, e)
<1> DEFINE r == Merged(q, i, grow)
           last == i + Cardinality(Overlapped(q, i))
<1>1. /\ q \in Seq(Fragment) /\ Len(q) \in Nat /\ i \in 1 .. Len(q) /\ i \in Nat
      /\ \A j, k \in 1 .. Len(q) : j < k /\ j # i => End(q[j]) <= q[k].offset
      /\ \A k \in 1 .. Len(q) : q[k] \in Fragment
      /\ Roomy(q)
      /\ \A j \in 1 .. i : Fresh(q[j], lat, 0)
      /\ \A j \in (i + 1) .. Len(q) : Fresh(q[j], lat, End(q[i]))
  BY FragmentsAre DEF Mergeable
<1>2. PICK m : Merging(q, i, last, m, lat) /\ r = Spliced(q, i - 1, m, last)
  BY MergedIs
<1>3. /\ last \in i .. Len(q)
      /\ \A k \in (last + 1) .. Len(q) : End(q[i]) <= q[k].offset
  BY OverlappedIs
<1> HIDE DEF last, r
<1>4. /\ m \in Fragment /\ m.offset = q[i].offset /\ End(q[i]) <= End(m)
      /\ Len(m.data) <= m.room /\ Fresh(m, lat, 0)
      /\ End(m) = End(q[i]) \/ End(m) = End(q[last])
      /\ \A k \in (last + 1) .. Len(q) : End(m) <= q[k].offset
  BY <1>2 DEF Merging
<1>5. r \in Seq(Fragment) /\ Splicing(r, q, i - 1, m, last)
  <2>1. i - 1 \in 0 .. Len(q) /\ last \in (i - 1) .. Len(q)
    BY <1>1, <1>3
  <2> QED
    BY <1>1, <1>2, <1>4, <2>1, SplicedEntries, Zenon
<1>6. last \in Nat /\ i <= last /\ last <= Len(q) /\ last \in 1 .. Len(q)
  BY <1>1, <1>3
<1>7. /\ Len(r) = i + (Len(q) - last) /\ Len(r) \in Nat /\ i \in 1 .. Len(r)
      /\ r[i] = m
      /\ \A j \in 1 .. (i - 1) : r[j] = q[j] /\ j \in 1 .. Len(q) /\ j \in 1 .. Len(r)
  <2>1. (i - 1) + 1 = i
    BY <1>1
  <2>2. Len(r) = (i - 1) + 1 + Len(q) - last /\ r[(i - 1) + 1] = m /\ \A j \in 1 .. (i - 1) : r[j] = q[j]
    BY <1>5 DEF Splicing
  <2>3. Len(r) = i + (Len(q) - last)
    BY <1>1, <1>6, <2>2
  <2>4. Len(r) \in Nat /\ i \in 1 .. Len(r)
    BY <1>1, <1>6, <2>3
  <2>5. \A j \in 1 .. (i - 1) : j \in 1 .. Len(q) /\ j \in 1 .. Len(r)
    BY <1>1, <2>4
  <2> QED
    BY <2>1, <2>2, <2>3, <2>4, <2>5
<1>8. ASSUME NEW j \in 1 .. Len(r), i < j
      PROVE  LET k == last + (j - i)
             IN  k \in (last + 1) .. Len(q) /\ k \in 1 .. Len(q) /\ k \in (i + 1) .. Len(q) /\ r[j] = q[k]
  <2>1. j - i \in 1 .. (Len(q) - last) /\ (i - 1) + 1 + (j - i) = j
    BY <1>1, <1>6, <1>7, <1>8
  <2>2. r[(i - 1) + 1 + (j - i)] = q[last + (j - i)]
    BY <1>5, <2>1 DEF Splicing
  <2>3. last + (j - i) \in (last + 1) .. Len(q)
    BY <1>1, <1>6, <2>1
  <2>4. last + (j - i) \in 1 .. Len(q) /\ last + (j - i) \in (i + 1) .. Len(q)
    BY <1>1, <1>6, <2>3
  <2> QED
    BY <2>1, <2>2, <2>3, <2>4
<1>9. \A j \in 1 .. Len(r) : j \in 1 .. (i - 1) \/ j = i \/ i < j
  BY <1>1, <1>7
<1>10. ASSUME NEW j \in 1 .. Len(r)
       PROVE  Len(r[j].data) <= r[j].room /\ Fresh(r[j], lat, 0)
  <2>1. CASE j \in 1 .. (i - 1)
    <3>1. j \in 1 .. i /\ j \in 1 .. Len(q)
      BY <1>1, <2>1
    <3> QED
      BY <1>1, <1>7, <2>1, <3>1 DEF Roomy
  <2>2. CASE j = i
    BY <1>4, <1>7, <2>2
  <2>3. CASE i < j
    <3> DEFINE k == last + (j - i)
    <3>1. k \in (last + 1) .. Len(q) /\ k \in 1 .. Len(q) /\ k \in (i + 1) .. Len(q) /\ r[j] = q[k]
      BY <1>8, <2>3
    <3> HIDE DEF k
    <3>2. Fresh(q[k], lat, End(q[i])) /\ End(q[i]) <= q[k].offset
      BY <1>1, <1>3, <3>1
    <3>3. q[k].offset \in Nat /\ End(q[i]) \in Nat
      BY <1>1, <3>1, FragmentIs
    <3>4. Fresh(q[k], lat, 0)
      BY <3>2, <3>3 DEF Fresh
    <3> QED
      BY <1>1, <3>1, <3>4 DEF Roomy
  <2> QED
    BY <1>9, <2>1, <2>2, <2>3
<1>11. ASSUME NEW j \in 1 .. Len(r), NEW k \in 1 .. Len(r), j < k
       PROVE  End(r[j]) <= r[k].offset
  <2> DEFINE l == last + (k - i)
  <2>1. i < k => l \in (last + 1) .. Len(q) /\ l \in 1 .. Len(q) /\ r[k] = q[l]
    BY <1>8
  <2>2. i < k => i < l
    BY <1>1, <1>6
  <2>3. CASE j \in 1 .. (i - 1)
    <3>1. /\ r[j] = q[j] /\ j \in 1 .. Len(q) /\ j # i /\ j < i
      BY <1>1, <1>7, <2>3
    <3>2. CASE k \in 1 .. (i - 1)
      BY <1>1, <1>7, <1>11, <3>1, <3>2
    <3>3. CASE k = i
      <4>1. End(q[j]) <= q[i].offset
        BY <1>1, <3>1
      <4> QED
        BY <1>4, <1>7, <3>1, <3>3, <4>1
    <3>4. CASE i < k
      <4>1. j < l
        BY <1>1, <2>1, <2>2, <3>1, <3>4
      <4> HIDE DEF l
      <4> QED
        BY <1>1, <2>1, <3>1, <3>4, <4>1
    <3> QED
      BY <1>9, <3>2, <3>3, <3>4
  <2>4. CASE j = i
    <3> HIDE DEF l
    <3> QED
      BY <1>4, <1>7, <1>11, <2>1, <2>4
  <2>5. CASE i < j
    <3> DEFINE o == last + (j - i)
    <3>1. o \in (last + 1) .. Len(q) /\ o \in 1 .. Len(q) /\ r[j] = q[o]
      BY <1>8, <2>5
    <3>2. i < k /\ o < l /\ o # i
      BY <1>1, <1>6, <1>11, <2>5
    <3> HIDE DEF l, o
    <3> QED
      BY <1>1, <2>1, <3>1, <3>2
  <2> QED
    BY <1>9, <2>3, <2>4, <2>5
<1>12. ASSUME NEW e \in Nat, Within(q, e) PROVE Within(r, e)
  <2> SUFFICES ASSUME NEW j \in 1 .. Len(r) PROVE End(r[j]) <= e
    BY DEF Within
  <2>1. CASE j \in 1 .. (i - 1)
    BY <1>7, <1>12, <2>1 DEF Within
  <2>2. CASE j = i
    BY <1>1, <1>4, <1>6, <1>7, <1>12, <2>2 DEF Within
  <2>3. CASE i < j
    <3> DEFINE k == last + (j - i)
    <3>1. k \in 1 .. Len(q) /\ r[j] = q[k]
      BY <1>8, <2>3
    <3> HIDE DEF k
    <3> QED
      BY <1>12, <3>1 DEF Within
  <2> QED
    BY <1>9, <2>1, <2>2, <2>3
<1>13. Sound(r, lat)
  BY <1>5, <1>10, <1>11 DEF Sound, InOrder, Roomy, AllFresh
<1> QED
  BY <1>4, <1>7, <1>12, <1>13 DEF r

LEMMA MergedHolds ==
    ASSUME NEW q, NEW i, NEW lat, Mergeable(q, i, lat), NEW grow \in BOOLEAN,
           NEW x \in Nat, NEW j \in 1 .. i, q[j].offset <= x, x < End(q[j])
    PROVE  HeldAt(Merged(q, i, grow), x)
<1> DEFINE r == Merged(q, i, grow)
<1>1. /\ Sound(r, lat)
      /\ i \in 1 .. Len(r) /\ r[i].offset = q[i].offset /\ End(q[i]) <= End(r[i])
      /\ \A k \in 1 .. (i - 1) : r[k] = q[k] /\ k \in 1 .. Len(r)
  BY MergedSound
<1>2. q \in Seq(Fragment) /\ i \in 1 .. Len(q) /\ Len(q) \in Nat /\ i \in Nat
  BY FragmentsAre DEF Mergeable
<1> HIDE DEF r
<1>3. CASE j = i
  <2>1. q[i] \in Fragment /\ r[i] \in Fragment
    BY <1>1, <1>2, FragmentsAre DEF Sound
  <2>2. End(q[i]) \in Nat /\ End(r[i]) \in Nat
    BY <2>1, FragmentIs
  <2>3. x < End(r[i]) /\ r[i].offset <= x
    BY <1>1, <1>3, <2>2
  <2> QED
    BY <1>1, <2>3 DEF HeldAt, r
<1>4. CASE j # i
  <2>1. j \in 1 .. (i - 1)
    BY <1>2, <1>4
  <2> QED
    BY <1>1, <2>1 DEF HeldAt, r
<1> QED
  BY <1>3, <1>4

-----------------------------------------------------------------------------
(* The invariant: what EntrySound says, and that what is read is the latest. *)

FieldsTyped ==
    /\ length \in Offsets /\ incomplete \in BOOLEAN /\ data_size \in Nat
    /\ latest \in [Offsets -> Bytes \cup {NoByte}]

FragmentsInv ==
    /\ FieldsTyped
    /\ Sound(frag, latest)
    /\ Within(frag, length)
    /\ Size(frag) <= data_size

LEMMA OffsetIs == ASSUME NEW o \in Offsets PROVE o \in Nat /\ o <= MaxEnd /\ MaxEnd \in Nat
BY BoundsAssumption DEF Offsets

LEMMA InvIs ==
    ASSUME FragmentsInv
    PROVE  /\ frag \in Seq(Fragment) /\ Len(frag) \in Nat /\ DOMAIN frag = 1 .. Len(frag)
           /\ InOrder(frag) /\ Roomy(frag) /\ AllFresh(frag, latest) /\ Sound(frag, latest)
           /\ length \in Nat /\ length <= MaxEnd /\ length \in Offsets
           /\ \A i \in 1 .. Len(frag) :
                /\ frag[i] \in Fragment /\ frag[i].offset \in Nat /\ End(frag[i]) \in Nat
                /\ frag[i].offset <= End(frag[i])
                /\ End(frag[i]) <= length /\ End(frag[i]) <= MaxEnd
           /\ data_size \in Nat /\ Size(frag) \in Nat /\ Size(frag) <= data_size
           /\ incomplete \in BOOLEAN /\ latest \in [Offsets -> Bytes \cup {NoByte}]
<1>1. /\ frag \in Seq(Fragment) /\ InOrder(frag) /\ Roomy(frag) /\ AllFresh(frag, latest)
      /\ length \in Offsets /\ Within(frag, length) /\ data_size \in Nat /\ Size(frag) <= data_size
      /\ incomplete \in BOOLEAN /\ latest \in [Offsets -> Bytes \cup {NoByte}]
      /\ Sound(frag, latest)
  BY DEF FragmentsInv, FieldsTyped, Sound
<1>2. length \in Nat /\ length <= MaxEnd /\ MaxEnd \in Nat
  BY <1>1, OffsetIs
<1>3. Len(frag) \in Nat /\ DOMAIN frag = 1 .. Len(frag) /\ Size(frag) \in Nat
  BY <1>1, FragmentsAre, SizeType
<1>4. ASSUME NEW i \in 1 .. Len(frag)
      PROVE  /\ frag[i] \in Fragment /\ frag[i].offset \in Nat /\ End(frag[i]) \in Nat
             /\ frag[i].offset <= End(frag[i])
             /\ End(frag[i]) <= length /\ End(frag[i]) <= MaxEnd
  <2>1. frag[i] \in Fragment
    BY <1>1, FragmentsAre
  <2>2. frag[i].offset \in Nat /\ End(frag[i]) \in Nat /\ frag[i].offset <= End(frag[i])
    BY <2>1, FragmentIs
  <2>3. End(frag[i]) <= length
    BY <1>1 DEF Within
  <2> QED
    BY <1>2, <2>1, <2>2, <2>3
<1> QED
  BY <1>1, <1>2, <1>3, <1>4

\* What is written changes nothing behind it, nor in front of it.
LEMMA Unwritten ==
    ASSUME NEW o \in Offsets, NEW data \in Seq(Bytes), Written(o, data),
           NEW f \in Fragment, End(f) <= MaxEnd, Fresh(f, latest, 0)
    PROVE  /\ Fresh(f, latest', o + Len(data))
           /\ End(f) <= o => Fresh(f, latest', 0)
<1>1. /\ o \in Nat /\ MaxEnd \in Nat /\ Len(data) \in Nat
      /\ f.offset \in Nat /\ End(f) \in Nat
  BY OffsetIs, FragmentIs, LenProperties
<1>2. \A x \in Offsets : ~(o <= x /\ x < o + Len(data)) => latest'[x] = latest[x]
  BY DEF Written
<1>3. \A x \in Nat : x < End(f) => x \in Offsets
  BY <1>1 DEF Offsets
<1>4. ASSUME NEW x \in Nat, o + Len(data) <= x, f.offset <= x, x < End(f)
      PROVE  ByteAt(f, x) = latest'[x]
  <2>1. ~(x < o + Len(data)) /\ x \in Offsets
    BY <1>1, <1>3, <1>4
  <2> QED
    BY <1>2, <1>4, <2>1 DEF Fresh
<1>5. ASSUME End(f) <= o, NEW x \in Nat, f.offset <= x, x < End(f)
      PROVE  ByteAt(f, x) = latest'[x]
  <2>1. ~(o <= x) /\ x \in Offsets
    BY <1>1, <1>3, <1>5
  <2> QED
    BY <1>2, <1>5, <2>1 DEF Fresh
<1> QED
  BY <1>4, <1>5 DEF Fresh

\* The data o + ... of f are written over.
Overwritten(f, o, data) ==
    LET end == o + Len(data)
    IN  SubSeq(f.data, 1, o - f.offset) \o data
          \o (IF end < End(f) THEN BytesFrom(f, end) ELSE <<>>)

IsOverwritten(g, f, o, data, end) ==
    /\ g \in Fragment /\ g.offset = f.offset /\ g.room = f.room
    /\ Len(g.data) = IF end < End(f) THEN Len(f.data) ELSE end - f.offset
    /\ End(g) = IF end < End(f) THEN End(f) ELSE end
    /\ \A x \in Nat : f.offset <= x /\ x < End(g) =>
         IF o <= x /\ x < end THEN ByteAt(g, x) = data[x - o + 1]
         ELSE x < End(f) /\ ByteAt(g, x) = ByteAt(f, x)

LEMMA PlaceInFront ==
    ASSUME NEW a \in Nat, NEW x \in Nat, NEW o \in Nat, NEW e \in Nat, a <= x, x < o, o <= e
    PROVE  x - a + 1 \in 1 .. (o - a) /\ x - a + 1 \in 1 .. (e - a)
OBVIOUS

LEMMA OverwrittenIs ==
    ASSUME NEW f \in Fragment, NEW o \in Nat, f.offset <= o, o <= End(f), NEW data \in Seq(Bytes)
    PROVE  IsOverwritten([f EXCEPT !.data = Overwritten(f, o, data)], f, o, data, o + Len(data))
<1> DEFINE end == o + Len(data)
           a == SubSeq(f.data, 1, o - f.offset)
           c == IF end < End(f) THEN BytesFrom(f, end) ELSE <<>>
           e == IF end < End(f) THEN End(f) ELSE end
           ab == a \o data
           b == ab \o c
           g == [f EXCEPT !.data = Overwritten(f, o, data)]
<1>1. /\ f.offset \in Nat /\ f.offset \in Offsets /\ f.room \in Nat /\ Len(f.data) \in Nat
      /\ End(f) = f.offset + Len(f.data) /\ End(f) \in Nat
      /\ Len(data) \in Nat /\ end \in Nat /\ e \in Nat /\ o <= end /\ end <= e
  BY FragmentIs, LenProperties
<1>2. IsPart(a, f, f.offset, o)
  BY FrontPart
<1>3. c \in Seq(Bytes) /\ Len(c) = e - end /\ \A i \in 1 .. Len(c) : c[i] = ByteAt(f, end + i - 1) /\ end < End(f)
  <2>1. CASE end < End(f)
    <3>1. f.offset <= end /\ end <= End(f)
      BY <1>1, <2>1
    <3>2. IsPart(BytesFrom(f, end), f, end, End(f))
      BY <1>1, <3>1, BackPart
    <3> QED
      BY <2>1, <3>2 DEF IsPart
  <2>2. CASE ~(end < End(f))
    <3>1. c = <<>> /\ e = end
      BY <2>2
    <3>2. <<>> \in Seq(Bytes) /\ Len(<<>>) = 0 /\ 1 .. 0 = {}
      BY EmptySeq
    <3> HIDE DEF c, e, end
    <3> QED
      BY <1>1, <3>1, <3>2
  <2> QED
    BY <2>1, <2>2
<1>4. g = [f EXCEPT !.data = b]
  BY DEF Overwritten
<1> HIDE DEF a, c, g, e
<1>5. a \in Seq(Bytes) /\ Len(a) = o - f.offset
      /\ \A i \in 1 .. Len(a) : a[i] = ByteAt(f, f.offset + i - 1)
  BY <1>2 DEF IsPart
<1>6. /\ ab \in Seq(Bytes) /\ Len(ab) = Len(a) + Len(data)
      /\ \A i \in 1 .. Len(a) : ab[i] = a[i]
      /\ \A i \in 1 .. Len(data) : ab[Len(a) + i] = data[i]
  <2>1. ab \in Seq(Bytes) /\ IsJoint(ab, a, data)
    BY <1>5, Joined, Zenon
  <2> QED
    BY <2>1 DEF IsJoint
<1> HIDE DEF ab
<1>7. /\ b \in Seq(Bytes) /\ Len(b) = Len(ab) + Len(c)
      /\ \A i \in 1 .. Len(ab) : b[i] = ab[i]
      /\ \A i \in 1 .. Len(c) : b[Len(ab) + i] = c[i]
  <2>1. b \in Seq(Bytes) /\ IsJoint(b, ab, c)
    BY <1>3, <1>6, Joined, Zenon
  <2> QED
    BY <2>1 DEF IsJoint
<1> HIDE DEF b
<1>8. Len(ab) = end - f.offset /\ Len(b) = e - f.offset
  <2>1. Len(a) = o - f.offset /\ Len(ab) = Len(a) + Len(data) /\ Len(b) = Len(ab) + Len(c)
        /\ Len(c) = e - end
    BY <1>3, <1>5, <1>6, <1>7
  <2>2. Len(ab) = (o - f.offset) + Len(data)
    BY <2>1
  <2>3. (o - f.offset) + Len(data) = end - f.offset
    BY <1>1
  <2>4. (end - f.offset) + (e - end) = e - f.offset
    BY <1>1
  <2> HIDE DEF end
  <2> QED
    BY <2>1, <2>2, <2>3, <2>4
<1>9. g = [offset |-> f.offset, data |-> b, room |-> f.room]
  BY <1>4 DEF Fragment
<1>10. /\ g \in Fragment /\ g.offset = f.offset /\ g.data = b /\ g.room = f.room
       /\ End(g) = f.offset + Len(b)
  BY <1>1, <1>7, <1>9, MadeOf DEF Made
<1>11. End(g) = e
  BY <1>1, <1>8, <1>10
<1>12. Len(g.data) = IF end < End(f) THEN Len(f.data) ELSE end - f.offset
  BY <1>1, <1>8, <1>10 DEF e
<1>13. ASSUME NEW x \in Nat, f.offset <= x, x < e
       PROVE  IF o <= x /\ x < end THEN ByteAt(g, x) = data[x - o + 1]
              ELSE x < End(f) /\ ByteAt(g, x) = ByteAt(f, x)
  <2>1. ByteAt(g, x) = b[x - f.offset + 1]
    BY <1>10 DEF ByteAt
  <2>2. CASE x < o
    <3>1. x - f.offset + 1 \in 1 .. Len(a) /\ x - f.offset + 1 \in 1 .. Len(ab)
      <4>1. x - f.offset + 1 \in 1 .. (o - f.offset) /\ x - f.offset + 1 \in 1 .. (end - f.offset)
        <5>1. f.offset \in Nat /\ end \in Nat /\ o <= end
          BY <1>1
        <5> HIDE DEF end
        <5> QED
          BY <1>13, <2>2, <5>1, PlaceInFront
      <4> QED
        BY <1>5, <1>8, <4>1, Zenon
    <3>2. b[x - f.offset + 1] = a[x - f.offset + 1]
      BY <1>6, <1>7, <3>1
    <3>3. f.offset + (x - f.offset + 1) - 1 = x /\ x < End(f) /\ ~(o <= x)
      BY <1>1, <2>2
    <3> QED
      BY <1>5, <2>1, <3>1, <3>2, <3>3
  <2>3. CASE o <= x /\ x < end
    <3>1. x - o + 1 \in 1 .. Len(data) /\ Len(a) + (x - o + 1) = x - f.offset + 1
          /\ x - f.offset + 1 \in 1 .. Len(ab)
      <4>1. x - o + 1 \in 1 .. Len(data) /\ (o - f.offset) + (x - o + 1) = x - f.offset + 1
            /\ x - f.offset + 1 \in 1 .. (end - f.offset)
        BY <1>1, <1>13, <2>3
      <4> QED
        BY <1>5, <1>8, <4>1, Zenon
    <3>2. ab[Len(a) + (x - o + 1)] = data[x - o + 1]
      BY <1>6, <3>1
    <3> QED
      BY <1>7, <2>1, <2>3, <3>1, <3>2
  <2>4. CASE ~(x < end)
    <3>1. x - end + 1 \in 1 .. Len(c) /\ Len(ab) + (x - end + 1) = x - f.offset + 1
          /\ end + (x - end + 1) - 1 = x
      <4> HIDE DEF end
      <4>1. x - end + 1 \in 1 .. (e - end) /\ (end - f.offset) + (x - end + 1) = x - f.offset + 1
            /\ end + (x - end + 1) - 1 = x
        BY <1>1, <1>13, <2>4
      <4> QED
        BY <1>3, <1>8, <4>1, Zenon
    <3>2. b[Len(ab) + (x - end + 1)] = c[x - end + 1]
      BY <1>7, <3>1
    <3>3. c[x - end + 1] = ByteAt(f, end + (x - end + 1) - 1) /\ end < End(f)
      BY <1>3, <3>1
    <3>4. x < End(f)
      BY <1>13, <3>3 DEF e
    <3> QED
      BY <2>1, <2>4, <3>1, <3>2, <3>3, <3>4
  <2> QED
    BY <1>1, <2>2, <2>3, <2>4
<1>14. e = IF end < End(f) THEN End(f) ELSE end
  BY DEF e
<1> QED
  BY <1>10, <1>11, <1>12, <1>13, <1>14 DEF IsOverwritten, g, end

-----------------------------------------------------------------------------
(* add_fragment()                                                          *)

\* What is in front of the data stays, and the data are held.
Adds(o, end) ==
    \A x \in Nat :
        (x < o /\ HeldAt(frag, x)) \/ (o <= x /\ x < end) => HeldAt(frag', x)

\* The fragment that is hit
LEMMA HitIs ==
    ASSUME FragmentsInv, NEW o \in Offsets, NEW i \in Hit(o)
    PROVE  /\ i \in 1 .. Len(frag) /\ frag[i].offset <= o /\ o <= End(frag[i])
           /\ \A j \in Hit(o) : j = i
           /\ \A j \in 1 .. Len(frag) : j < i => End(frag[j]) <= o
           /\ \A j \in 1 .. Len(frag) : i < j => o <= frag[j].offset
<1>1. o \in Nat
  BY OffsetIs
<1>2. /\ i \in 1 .. Len(frag) /\ frag[i].offset <= o /\ o <= End(frag[i])
      /\ \A j \in 1 .. (i - 1) : End(frag[j]) < o
  BY InvIs DEF Hit
<1>3. ASSUME NEW j \in Hit(o) PROVE j = i
  <2>1. /\ j \in 1 .. Len(frag) /\ o <= End(frag[j])
        /\ \A k \in 1 .. (j - 1) : End(frag[k]) < o
    BY InvIs DEF Hit
  <2>2. j < i => j \in 1 .. (i - 1)
    BY <2>1, <1>2, InvIs
  <2>3. i < j => i \in 1 .. (j - 1)
    BY <2>1, <1>2, InvIs
  <2>4. End(frag[i]) \in Nat /\ End(frag[j]) \in Nat
    BY <1>2, <2>1, InvIs
  <2>5. ~(i < j) /\ ~(j < i)
    BY <1>1, <1>2, <2>1, <2>2, <2>3, <2>4
  <2> QED
    BY <1>2, <2>1, <2>5, InvIs
<1>4. ASSUME NEW j \in 1 .. Len(frag), j < i PROVE End(frag[j]) <= o
  <2>1. j \in 1 .. (i - 1) /\ End(frag[j]) \in Nat
    BY <1>2, <1>4, InvIs
  <2> QED
    BY <1>1, <1>2, <2>1
<1>5. ASSUME NEW j \in 1 .. Len(frag), i < j PROVE o <= frag[j].offset
  <2>1. End(frag[i]) <= frag[j].offset
    BY <1>2, <1>5, InvIs DEF InOrder
  <2>2. End(frag[i]) \in Nat /\ frag[j].offset \in Nat
    BY <1>2, InvIs
  <2> QED
    BY <1>1, <1>2, <2>1, <2>2
<1> QED
  BY <1>2, <1>3, <1>4, <1>5

\* What the history has is written.
LEMMA WrittenTyped ==
    ASSUME FragmentsInv, NEW o \in Offsets, NEW data \in Seq(Bytes), Written(o, data)
    PROVE  latest' \in [Offsets -> Bytes \cup {NoByte}]
<1>1. Len(data) \in Nat /\ o \in Nat
  BY LenProperties, OffsetIs
<1>2. ASSUME NEW p \in Offsets, o <= p, p < o + Len(data) PROVE data[p - o + 1] \in Bytes
  <2>1. p - o + 1 \in 1 .. Len(data)
    BY <1>1, <1>2, OffsetIs
  <2> QED
    BY <2>1, ElementOfSeq
<1>3. latest \in [Offsets -> Bytes \cup {NoByte}]
  BY InvIs
<1> QED
  BY <1>2, <1>3 DEF Written

\* The new data are what is latest.
LEMMA NewIsLatest ==
    ASSUME NEW o \in Offsets, NEW data \in Seq(Bytes), Written(o, data),
           NEW x \in Nat, o <= x, x < o + Len(data), o + Len(data) <= MaxEnd
    PROVE  latest'[x] = data[x - o + 1]
<1>1. x \in Offsets
  <2>1. o \in Nat /\ MaxEnd \in Nat /\ Len(data) \in Nat
    BY OffsetIs, LenProperties
  <2> QED
    BY <2>1 DEF Offsets
<1> QED
  BY <1>1 DEF Written

LEMMA Resized ==
    ASSUME NEW was \in Nat, NEW a \in Nat, NEW b \in Nat, a <= was
    PROVE  was + b - a \in Nat /\ b <= was + b - a
OBVIOUS

LEMMA WriteInPlaceKeeps ==
    ASSUME FragmentsInv, NEW o \in Offsets, NEW data \in Seq(Bytes), o + Len(data) <= MaxEnd,
           NEW grow \in BOOLEAN, WriteInPlace(o, data, grow)
    PROVE  FragmentsInv' /\ Adds(o, o + Len(data))
<1> DEFINE end == o + Len(data)
<1>1. o \in Nat /\ MaxEnd \in Nat /\ Len(data) \in Nat /\ end \in Nat /\ end \in Offsets /\ o <= end
  <2>1. o \in Nat /\ MaxEnd \in Nat /\ Len(data) \in Nat
    BY OffsetIs, LenProperties
  <2> QED
    BY <2>1 DEF Offsets
<1>2. PICK i \in Hit(o) :
        LET f == frag[i]
            new == SubSeq(f.data, 1, o - f.offset) \o data
                      \o (IF end < End(f) THEN BytesFrom(f, end) ELSE <<>>)
            q == Merged([frag EXCEPT ![i].data = new], i, grow)
        IN  /\ Fits(f, end)
            /\ frag' = Truncated(q, end, FALSE)
            /\ data_size' = data_size + Size(frag') - Size(frag)
            /\ length' = end
            /\ incomplete' = (incomplete \/ length > end)
            /\ Written(o, data)
  BY DEF WriteInPlace
<1> DEFINE f == frag[i]
           g == [f EXCEPT !.data = Overwritten(f, o, data)]
           q == [frag EXCEPT ![i] = g]
           r == Merged(q, i, grow)
<1>3. /\ Fits(f, end)
      /\ frag' = Truncated(r, end, FALSE)
      /\ data_size' = data_size + Size(frag') - Size(frag)
      /\ length' = end
      /\ incomplete' = (incomplete \/ length > end)
      /\ Written(o, data)
  BY <1>2 DEF Overwritten
<1>4. /\ i \in 1 .. Len(frag) /\ f.offset <= o /\ o <= End(f)
      /\ \A j \in 1 .. Len(frag) : j < i => End(frag[j]) <= o
      /\ \A j \in 1 .. Len(frag) : i < j => o <= frag[j].offset
  BY HitIs
<1>5. f \in Fragment /\ f.offset \in Nat /\ End(f) \in Nat /\ Len(f.data) \in Nat /\ f.room \in Nat
      /\ Len(f.data) <= f.room /\ Fresh(f, latest, 0) /\ End(f) <= MaxEnd
      /\ End(f) = f.offset + Len(f.data)
  BY <1>4, InvIs, FragmentIs DEF Roomy, AllFresh
<1> HIDE DEF f
<1>6. IsOverwritten(g, f, o, data, end)
  BY <1>1, <1>4, <1>5, OverwrittenIs
<1> HIDE DEF g
<1>7. /\ g \in Fragment /\ g.offset = f.offset /\ g.room = f.room
      /\ Len(g.data) = IF end < End(f) THEN Len(f.data) ELSE end - f.offset
      /\ End(g) = IF end < End(f) THEN End(f) ELSE end
      /\ \A x \in Nat : f.offset <= x /\ x < End(g) =>
           IF o <= x /\ x < end THEN ByteAt(g, x) = data[x - o + 1]
           ELSE x < End(f) /\ ByteAt(g, x) = ByteAt(f, x)
  BY <1>6 DEF IsOverwritten
<1>8. end <= End(g) /\ End(g) \in Nat
  BY <1>1, <1>5, <1>7
<1>9. Len(g.data) <= g.room
  BY <1>1, <1>3, <1>5, <1>7 DEF Fits
<1>10. Fresh(f, latest', end) /\ (End(f) <= o => Fresh(f, latest', 0))
  BY <1>3, <1>5, Unwritten
<1>11. Fresh(g, latest', 0)
  <2> SUFFICES ASSUME NEW x \in Nat, g.offset <= x, x < End(g)
               PROVE  ByteAt(g, x) = latest'[x]
    BY DEF Fresh
  <2>1. CASE o <= x /\ x < end
    BY <1>3, <1>7, <2>1, NewIsLatest
  <2>2. CASE ~(o <= x /\ x < end)
    <3>1. f.offset <= x /\ x < End(f) /\ ByteAt(g, x) = ByteAt(f, x)
      BY <1>7, <2>2
    <3>2. ByteAt(f, x) = latest[x]
      BY <1>5, <3>1 DEF Fresh
    <3>3. x \in Offsets
      BY <1>1, <1>5, <3>1 DEF Offsets
    <3>4. latest'[x] = latest[x]
      BY <1>3, <2>2, <3>3 DEF Written
    <3> QED
      BY <3>1, <3>2, <3>4
  <2> QED
    BY <2>1, <2>2
<1>12. /\ q \in Seq(Fragment) /\ Len(q) = Len(frag) /\ q[i] = g /\ i \in 1 .. Len(q)
       /\ \A j \in 1 .. Len(q) : j # i => q[j] = frag[j]
       /\ Len(q) \in Nat
  BY <1>4, <1>7, InvIs, ExceptSeq
<1> HIDE DEF q
<1>13. Mergeable(q, i, latest')
  <2>1. ASSUME NEW j \in 1 .. Len(q), NEW k \in 1 .. Len(q), j < k, j # i
        PROVE  End(q[j]) <= q[k].offset
    <3>1. q[j] = frag[j] /\ q[k].offset = frag[k].offset
      BY <1>7, <1>12, <2>1 DEF f
    <3> QED
      BY <1>12, <2>1, <3>1, InvIs DEF InOrder
  <2>2. Roomy(q)
    BY <1>9, <1>12, InvIs DEF Roomy
  <2>3. ASSUME NEW j \in 1 .. i PROVE Fresh(q[j], latest', 0)
    <3>1. CASE j = i
      BY <1>11, <1>12, <3>1
    <3>2. CASE j # i
      <4>1. j \in 1 .. Len(q) /\ j < i /\ j \in 1 .. Len(frag)
        BY <1>12, <3>2
      <4>2. End(frag[j]) <= o /\ Fresh(frag[j], latest, 0) /\ frag[j] \in Fragment /\ End(frag[j]) <= MaxEnd
        BY <1>4, <4>1, InvIs DEF AllFresh
      <4>3. Fresh(frag[j], latest', 0)
        BY <1>3, <4>2, Unwritten
      <4> QED
        BY <1>12, <3>2, <4>1, <4>3
    <3> QED
      BY <3>1, <3>2
  <2>4. ASSUME NEW j \in (i + 1) .. Len(q) PROVE Fresh(q[j], latest', End(q[i]))
    <3>1. j \in 1 .. Len(q) /\ j # i /\ j \in 1 .. Len(frag)
      BY <1>12
    <3>2. Fresh(frag[j], latest, 0) /\ frag[j] \in Fragment /\ End(frag[j]) <= MaxEnd
      BY <3>1, InvIs DEF AllFresh
    <3>3. Fresh(frag[j], latest', end)
      BY <1>3, <3>2, Unwritten
    <3>4. Fresh(frag[j], latest', End(g))
      BY <1>1, <1>8, <3>3, FreshLater
    <3> QED
      BY <1>12, <3>1, <3>4
  <2> QED
    BY <1>12, <2>1, <2>2, <2>3, <2>4 DEF Mergeable
<1>14. Sound(r, latest')
  BY <1>13, MergedSound
<1>15. ASSUME NEW x \in Nat, (x < o /\ HeldAt(frag, x)) \/ (o <= x /\ x < end)
       PROVE  HeldAt(r, x)
  <2>1. \E j \in 1 .. i : q[j].offset <= x /\ x < End(q[j])
    <3>1. CASE f.offset <= x
      <4>1. x < End(g) /\ g.offset <= x
        BY <1>1, <1>7, <1>8, <1>15, <3>1
      <4>2. i \in 1 .. i
        BY <1>4
      <4> QED
        BY <1>12, <4>1, <4>2
    <3>2. CASE ~(f.offset <= x)
      <4>1. x < o /\ HeldAt(frag, x)
        BY <1>1, <1>4, <1>5, <1>15, <3>2
      <4>2. PICK j \in 1 .. Len(frag) : frag[j].offset <= x /\ x < End(frag[j])
        BY <4>1 DEF HeldAt
      <4>3. j # i /\ ~(i < j)
        <5>1. j # i
          BY <3>2, <4>2 DEF f
        <5>2. i < j => o <= frag[j].offset /\ frag[j].offset \in Nat
          BY <1>4, <4>2, InvIs
        <5> QED
          BY <1>1, <4>1, <4>2, <5>1, <5>2
      <4>4. j \in 1 .. i /\ j \in 1 .. Len(q)
        BY <1>4, <1>12, <4>2, <4>3
      <4> QED
        BY <1>12, <4>2, <4>3, <4>4
    <3> QED
      BY <3>1, <3>2
  <2> QED
    BY <1>13, <2>1, MergedHolds
<1> HIDE DEF r
<1>16. /\ Sound(frag', latest') /\ Within(frag', end) /\ KeepsTo(r, frag', end)
  BY <1>1, <1>3, <1>14, TruncatedIs
<1>17. Adds(o, end)
  <2> SUFFICES ASSUME NEW x \in Nat, (x < o /\ HeldAt(frag, x)) \/ (o <= x /\ x < end)
               PROVE  HeldAt(frag', x)
    BY DEF Adds
  <2>1. x < end /\ HeldAt(r, x)
    BY <1>1, <1>15
  <2> QED
    BY <1>16, <2>1 DEF KeepsTo
<1>18. data_size' \in Nat /\ Size(frag') <= data_size'
  <2>1. Size(frag') \in Nat
    BY <1>16, SizeType DEF Sound
  <2>2. data_size \in Nat /\ Size(frag) \in Nat /\ Size(frag) <= data_size
    BY InvIs
  <2> QED
    BY <1>3, <2>1, <2>2, Resized, Zenon
<1>19. FieldsTyped'
  BY <1>1, <1>3, <1>18, InvIs, WrittenTyped DEF FieldsTyped
<1>20. Sound(frag, latest)' /\ Within(frag, length)'
  BY <1>3, <1>16 DEF Sound, InOrder, Roomy, AllFresh, Within, End, Fresh, ByteAt
<1> QED
  BY <1>17, <1>18, <1>19, <1>20 DEF FragmentsInv

\* The fragments that begin at p or before
LEMMA BeginningTo ==
    ASSUME NEW q \in Seq(Fragment), NEW p \in Nat
    PROVE  LET n == Prefix(q, LAMBDA f : f.offset <= p)
           IN  /\ n \in 0 .. Len(q)
               /\ \A i \in 1 .. n : q[i].offset <= p
               /\ n < Len(q) => ~(q[n + 1].offset <= p)
<1> DEFINE H == {i \in 1 .. Len(q) : q[i].offset <= p}
           c == Cardinality(Run(Len(q), 0, H))
<1>1. Len(q) \in Nat /\ DOMAIN q = 1 .. Len(q) /\ 0 \in 0 .. Len(q)
  BY FragmentsAre
<1>2. Prefix(q, LAMBDA f : f.offset <= p) = c
  <2>1. {i \in DOMAIN q : \A j \in 1 .. i : q[j].offset <= p} = Run(Len(q), 0, H)
    BY <1>1 DEF Run
  <2> QED
    BY <2>1 DEF Prefix
<1>3. /\ c \in 0 .. (Len(q) - 0)
      /\ \A i \in (0 + 1) .. (0 + c) : i \in H
      /\ 0 + c < Len(q) => 0 + c + 1 \notin H
  <2>1. IsRun(c, Len(q), 0, H)
    BY <1>1, RunIs, Zenon
  <2> QED
    BY <2>1 DEF IsRun
<1> HIDE DEF c
<1>4. c \in 0 .. Len(q) /\ \A i \in 1 .. c : q[i].offset <= p
  BY <1>1, <1>3
<1>5. c < Len(q) => ~(q[c + 1].offset <= p)
  BY <1>1, <1>3, <1>4
<1> QED
  BY <1>2, <1>4, <1>5

\* The list of the fragments when the one that is hit has been cut
IsCut(c, o) ==
    /\ c \in Seq(Fragment) /\ Len(c) = Len(frag)
    /\ \A j \in 1 .. Len(frag) :
         /\ c[j].offset = frag[j].offset /\ c[j].room = frag[j].room
         /\ Len(c[j].data) <= Len(frag[j].data)
         /\ End(c[j]) <= End(frag[j]) /\ Covers(c[j], frag[j], 0)
         /\ IF j \in Hit(o) THEN End(c[j]) = o ELSE c[j] = frag[j]

LEMMA CutIs ==
    ASSUME FragmentsInv, NEW o \in Offsets
    PROVE  IsCut(Cut(o), o)
<1> DEFINE c == Cut(o)
<1>1. o \in Nat /\ frag \in Seq(Fragment) /\ Len(frag) \in Nat /\ DOMAIN frag = 1 .. Len(frag)
  BY OffsetIs, InvIs
<1>2. c = [j \in 1 .. Len(frag) |-> IF j \in Hit(o) THEN UpTo(frag[j], o) ELSE frag[j]]
  BY <1>1 DEF Cut
<1> HIDE DEF c
<1>3. ASSUME NEW j \in 1 .. Len(frag)
      PROVE  /\ c[j] \in Fragment
             /\ c[j].offset = frag[j].offset /\ c[j].room = frag[j].room
             /\ Len(c[j].data) <= Len(frag[j].data)
             /\ End(c[j]) <= End(frag[j]) /\ Covers(c[j], frag[j], 0)
             /\ IF j \in Hit(o) THEN End(c[j]) = o ELSE c[j] = frag[j]
  <2>1. /\ frag[j] \in Fragment /\ frag[j].offset \in Nat /\ End(frag[j]) \in Nat
        /\ Len(frag[j].data) \in Nat /\ End(frag[j]) = frag[j].offset + Len(frag[j].data)
    BY InvIs, FragmentIs
  <2>2. CASE j \in Hit(o)
    <3>1. c[j] = UpTo(frag[j], o)
      BY <1>2, <2>2
    <3>2. frag[j].offset <= o /\ o <= End(frag[j])
      BY <2>2, HitIs
    <3>3. /\ c[j] \in Fragment /\ c[j].offset = frag[j].offset /\ c[j].room = frag[j].room
          /\ End(c[j]) = o /\ Len(c[j].data) = o - frag[j].offset /\ Covers(c[j], frag[j], 0)
      BY <1>1, <2>1, <3>1, <3>2, UpToIs
    <3>4. o - frag[j].offset <= Len(frag[j].data)
      BY <1>1, <2>1, <3>2
    <3> QED
      BY <2>2, <3>2, <3>3, <3>4
  <2>3. CASE j \notin Hit(o)
    <3>1. c[j] = frag[j]
      BY <1>2, <2>3
    <3>2. Covers(frag[j], frag[j], 0)
      BY DEF Covers
    <3> QED
      BY <2>1, <2>3, <3>1, <3>2
  <2> QED
    BY <2>2, <2>3
<1>4. c \in Seq(Fragment) /\ Len(c) = Len(frag)
  <2>1. \A j \in 1 .. Len(frag) :
          (IF j \in Hit(o) THEN UpTo(frag[j], o) ELSE frag[j]) \in Fragment
    BY <1>2, <1>3
  <2> QED
    BY <1>1, <1>2, <2>1
<1> QED
  BY <1>3, <1>4 DEF IsCut, c

\* It is sound, and has all that was in front of o.
LEMMA CutSound ==
    ASSUME FragmentsInv, NEW o \in Offsets, NEW c, IsCut(c, o)
    PROVE  /\ Sound(c, latest) /\ Within(c, length) /\ Size(c) \in Nat /\ Size(c) <= Size(frag)
           /\ KeepsTo(frag, c, o)
<1>1. /\ o \in Nat /\ frag \in Seq(Fragment) /\ Len(frag) \in Nat /\ Len(c) = Len(frag)
      /\ c \in Seq(Fragment) /\ DOMAIN frag = 1 .. Len(frag)
  BY OffsetIs, InvIs DEF IsCut
<1>2. ASSUME NEW j \in 1 .. Len(c)
      PROVE  /\ c[j] \in Fragment /\ frag[j] \in Fragment /\ j \in 1 .. Len(frag)
             /\ End(c[j]) \in Nat /\ End(frag[j]) \in Nat /\ frag[j].offset \in Nat
             /\ c[j].offset = frag[j].offset /\ c[j].room = frag[j].room
             /\ Len(c[j].data) <= Len(frag[j].data) /\ Len(c[j].data) \in Nat
             /\ Len(frag[j].data) \in Nat /\ frag[j].room \in Nat
             /\ End(c[j]) <= End(frag[j]) /\ Covers(c[j], frag[j], 0)
             /\ IF j \in Hit(o) THEN End(c[j]) = o ELSE c[j] = frag[j]
  <2>1. j \in 1 .. Len(frag) /\ c[j] \in Fragment /\ frag[j] \in Fragment
    BY <1>1, InvIs, FragmentsAre
  <2> QED
    BY <2>1, FragmentIs DEF IsCut
<1>3. InOrder(c)
  <2> SUFFICES ASSUME NEW j \in 1 .. Len(c), NEW k \in 1 .. Len(c), j < k
               PROVE  End(c[j]) <= c[k].offset
    BY DEF InOrder
  <2>1. End(frag[j]) <= frag[k].offset
    BY <1>2, InvIs DEF InOrder
  <2>2. /\ End(c[j]) \in Nat /\ End(frag[j]) \in Nat /\ frag[k].offset \in Nat
        /\ End(c[j]) <= End(frag[j]) /\ c[k].offset = frag[k].offset
    BY <1>2
  <2> QED
    BY <2>1, <2>2
<1>4. Roomy(c)
  <2> SUFFICES ASSUME NEW j \in 1 .. Len(c) PROVE Len(c[j].data) <= c[j].room
    BY DEF Roomy
  <2>1. Len(frag[j].data) <= frag[j].room
    BY <1>2, InvIs DEF Roomy
  <2> QED
    BY <1>2, <2>1
<1>5. AllFresh(c, latest)
  <2> SUFFICES ASSUME NEW j \in 1 .. Len(c) PROVE Fresh(c[j], latest, 0)
    BY DEF AllFresh
  <2>1. Fresh(frag[j], latest, 0)
    BY <1>2, InvIs DEF AllFresh
  <2> QED
    BY <1>2, <2>1, CoversFresh
<1>6. Within(c, length)
  <2> SUFFICES ASSUME NEW j \in 1 .. Len(c) PROVE End(c[j]) <= length
    BY DEF Within
  <2>1. End(frag[j]) <= length /\ length \in Nat
    BY <1>2, InvIs
  <2> QED
    BY <1>2, <2>1
<1>7. Size(c) <= Size(frag) /\ Size(c) \in Nat
  BY <1>1, <1>2, SizeMonotone, SizeType
<1>8. KeepsTo(frag, c, o)
  <2> SUFFICES ASSUME NEW x \in Nat, x < o, HeldAt(frag, x)
               PROVE  HeldAt(c, x)
    BY DEF KeepsTo
  <2>1. PICK j \in 1 .. Len(frag) : frag[j].offset <= x /\ x < End(frag[j])
    BY DEF HeldAt
  <2>2. c[j].offset <= x /\ x < End(c[j]) /\ j \in 1 .. Len(c)
    BY <1>1, <1>2, <2>1
  <2> QED
    BY <2>2 DEF HeldAt
<1> QED
  BY <1>1, <1>3, <1>4, <1>5, <1>6, <1>7, <1>8 DEF Sound

\* Where a new fragment goes: what is in front ends before it begins, and what
\* is behind begins after that.
PlaceOf(o) ==
    1 + (IF Hit(o) # {} THEN Max(Hit(o)) ELSE Prefix(frag, LAMBDA f : f.offset <= o))

IsPlace(c, o, at) ==
    /\ at \in 1 .. (Len(c) + 1)
    /\ \A j \in 1 .. Len(c) : j < at => End(c[j]) <= o
    /\ \A j \in 1 .. Len(c) : at <= j => o <= c[j].offset

LEMMA PlaceIs ==
    ASSUME FragmentsInv, NEW o \in Offsets, NEW c, IsCut(c, o)
    PROVE  IsPlace(c, o, PlaceOf(o))
<1>1. /\ o \in Nat /\ frag \in Seq(Fragment) /\ Len(frag) \in Nat /\ Len(c) = Len(frag)
      /\ DOMAIN frag = 1 .. Len(frag)
  BY OffsetIs, InvIs DEF IsCut
<1>2. \A j \in 1 .. Len(frag) :
        /\ c[j].offset = frag[j].offset
        /\ j \in Hit(o) => End(c[j]) = o
        /\ j \notin Hit(o) => c[j] = frag[j]
  BY DEF IsCut
<1>3. CASE Hit(o) # {}
  <2>1. PICK i : i \in Hit(o)
    BY <1>3
  <2>2. /\ i \in 1 .. Len(frag) /\ \A j \in Hit(o) : j = i
        /\ \A j \in 1 .. Len(frag) : j < i => End(frag[j]) <= o
        /\ \A j \in 1 .. Len(frag) : i < j => o <= frag[j].offset
    BY <2>1, HitIs
  <2>3. Max(Hit(o)) = i
    <3>1. Hit(o) = {i}
      BY <2>1, <2>2, Zenon
    <3>2. i \in Nat
      BY <1>1, <2>2
    <3> QED
      BY <3>1, <3>2 DEF Max
  <2>4. PlaceOf(o) = i + 1
    BY <1>3, <2>2, <2>3 DEF PlaceOf
  <2>5. ASSUME NEW j \in 1 .. Len(c), j < i + 1 PROVE End(c[j]) <= o
    <3>1. CASE j = i
      BY <1>1, <1>2, <2>1, <2>2, <3>1
    <3>2. CASE j # i
      <4>1. j < i /\ j \in 1 .. Len(frag) /\ j \notin Hit(o)
        BY <1>1, <2>2, <2>5, <3>2
      <4> QED
        BY <1>2, <2>2, <4>1
    <3> QED
      BY <3>1, <3>2
  <2>6. ASSUME NEW j \in 1 .. Len(c), i + 1 <= j PROVE o <= c[j].offset
    BY <1>1, <1>2, <2>2, <2>6
  <2> QED
    BY <1>1, <2>2, <2>4, <2>5, <2>6 DEF IsPlace
<1>4. CASE Hit(o) = {}
  <2> DEFINE n == Prefix(frag, LAMBDA f : f.offset <= o)
  <2>1. /\ n \in 0 .. Len(frag)
        /\ \A j \in 1 .. n : frag[j].offset <= o
        /\ n < Len(frag) => ~(frag[n + 1].offset <= o)
    BY <1>1, BeginningTo
  <2>2. PlaceOf(o) = n + 1
    BY <1>4, <2>1 DEF PlaceOf
  <2> HIDE DEF n
  <2>3. ASSUME NEW j \in 1 .. Len(c), j < n + 1 PROVE End(c[j]) <= o
    <3>1. j \in 1 .. n /\ j \in 1 .. Len(frag) /\ c[j] = frag[j] /\ frag[j].offset <= o
      BY <1>1, <1>2, <1>4, <2>1, <2>3
    <3> SUFFICES ASSUME ~(End(frag[j]) <= o) PROVE FALSE
      BY <3>1
    <3> DEFINE T == {k \in 1 .. Len(frag) : o <= End(frag[k])}
    <3>2. j \in T /\ T \in SUBSET Nat
      BY <1>1, <3>1, InvIs
    <3>3. PICK k \in T : \A m \in T : k <= m
      BY <3>2, Least
    <3>4. k \in 1 .. Len(frag) /\ o <= End(frag[k]) /\ k <= j
      BY <3>2, <3>3
    <3>5. frag[k].offset <= o
      <4>1. CASE k = j
        BY <3>1, <4>1
      <4>2. CASE k # j
        <5>1. End(frag[k]) <= frag[j].offset
          BY <3>1, <3>4, <4>2, InvIs DEF InOrder
        <5>2. frag[k].offset <= End(frag[k]) /\ frag[k].offset \in Nat /\ End(frag[k]) \in Nat
              /\ frag[j].offset \in Nat
          BY <3>1, <3>4, InvIs
        <5> QED
          BY <1>1, <3>1, <5>1, <5>2
      <4> QED
        BY <4>1, <4>2
    <3>6. ASSUME NEW m \in 1 .. (k - 1) PROVE End(frag[m]) < o
      <4>1. m \in 1 .. Len(frag) /\ ~(k <= m)
        BY <1>1, <3>4
      <4>2. m \notin T /\ End(frag[m]) \in Nat
        BY <3>3, <4>1, InvIs
      <4> QED
        BY <1>1, <4>1, <4>2
    <3>7. k \in Hit(o)
      BY <1>1, <3>4, <3>5, <3>6 DEF Hit
    <3> QED
      BY <1>4, <3>7
  <2>4. ASSUME NEW j \in 1 .. Len(c), n + 1 <= j PROVE o <= c[j].offset
    <3>1. /\ j \in 1 .. Len(frag) /\ n + 1 \in 1 .. Len(frag) /\ c[j] = frag[j]
          /\ ~(frag[n + 1].offset <= o) /\ (n + 1 = j \/ n + 1 < j)
      BY <1>1, <1>2, <1>4, <2>1, <2>4
    <3>2. frag[n + 1].offset \in Nat /\ End(frag[n + 1]) \in Nat /\ frag[j].offset \in Nat
          /\ frag[n + 1].offset <= End(frag[n + 1])
      BY <3>1, InvIs
    <3>3. n + 1 < j => End(frag[n + 1]) <= frag[j].offset
      BY <3>1, InvIs DEF InOrder
    <3> QED
      BY <1>1, <3>1, <3>2, <3>3
  <2> QED
    BY <1>1, <2>1, <2>2, <2>3, <2>4 DEF IsPlace
<1> QED
  BY <1>3, <1>4

\* There is room for the new data.
LEMMA PadIs == ASSUME NEW n \in Nat PROVE Pad(n) \in Nat /\ n <= Pad(n)
<1> DEFINE k == n \div Granule
<1>1. Granule \in Nat /\ Granule > 0
  BY GranuleAssumption
<1>2. k \in Nat /\ n < (k + 1) * Granule
  BY <1>1
<1> HIDE DEF k
<1>3. (k + 1) * Granule \in Nat
  BY <1>1, <1>2
<1> QED
  BY <1>2, <1>3 DEF Pad, k

\* A new fragment in its place
Inserted(q, c, g, at, lat) ==
    /\ Mergeable(q, at, lat) /\ q[at] = g
    /\ \A j \in 1 .. Len(c) : j < at => q[j] = c[j]
    /\ \A e \in Nat : Within(c, e) /\ End(g) <= e => Within(q, e)

\* c may be written behind o.
Writable(c, o, e, lat) ==
    \A j \in 1 .. Len(c) : Fresh(c[j], lat, e) /\ (End(c[j]) <= o => Fresh(c[j], lat, 0))

LEMMA PlaceBehind ==
    ASSUME NEW n \in Nat, NEW a \in 1 .. (n + 1), NEW j \in 1 .. (n + 1), a < j
    PROVE  /\ j - a \in 1 .. (n - (a - 1)) /\ j - 1 \in 1 .. n /\ a <= j - 1
           /\ (a - 1) + 1 + (j - a) = j /\ (a - 1) + (j - a) = j - 1
OBVIOUS

LEMMA InsertedMergeable ==
    ASSUME NEW c, NEW was, NEW lat, Sound(c, was), NEW o \in Nat, NEW at, IsPlace(c, o, at),
           NEW g \in Fragment, g.offset = o, Len(g.data) <= g.room, Fresh(g, lat, 0),
           Writable(c, o, End(g), lat)
    PROVE  Inserted(Spliced(c, at - 1, g, at - 1), c, g, at, lat)
<1> DEFINE q == Spliced(c, at - 1, g, at - 1)
<1>1. /\ c \in Seq(Fragment) /\ Len(c) \in Nat /\ InOrder(c) /\ Roomy(c)
      /\ \A j \in 1 .. Len(c) : c[j] \in Fragment
  BY FragmentsAre DEF Sound
<1>2. /\ at \in 1 .. (Len(c) + 1) /\ at \in Nat /\ at - 1 \in 0 .. Len(c)
      /\ at - 1 \in (at - 1) .. Len(c)
      /\ \A j \in 1 .. Len(c) : j < at => End(c[j]) <= o
      /\ \A j \in 1 .. Len(c) : at <= j => o <= c[j].offset
  BY <1>1 DEF IsPlace
<1>3. q \in Seq(Fragment) /\ Splicing(q, c, at - 1, g, at - 1)
  BY <1>1, <1>2, SplicedEntries, Zenon
<1> HIDE DEF q
<1>4. /\ Len(q) = (at - 1) + 1 + Len(c) - (at - 1) /\ q[(at - 1) + 1] = g
      /\ \A j \in 1 .. (at - 1) : q[j] = c[j]
      /\ \A j \in 1 .. (Len(c) - (at - 1)) : q[(at - 1) + 1 + j] = c[(at - 1) + j]
  BY <1>3 DEF Splicing
<1>5. Len(q) = Len(c) + 1 /\ q[at] = g /\ at \in 1 .. Len(q)
  BY <1>1, <1>2, <1>4
<1>6. ASSUME NEW j \in 1 .. Len(q), j < at
      PROVE  q[j] = c[j] /\ j \in 1 .. Len(c) /\ End(c[j]) <= o
  <2>1. j \in 1 .. (at - 1) /\ j \in 1 .. Len(c)
    BY <1>1, <1>2, <1>5, <1>6
  <2> QED
    BY <1>2, <1>4, <1>6, <2>1
<1>7. ASSUME NEW j \in 1 .. Len(q), at < j
      PROVE  q[j] = c[j - 1] /\ j - 1 \in 1 .. Len(c) /\ at <= j - 1 /\ o <= c[j - 1].offset
  <2>1. /\ j - at \in 1 .. (Len(c) - (at - 1)) /\ j - 1 \in 1 .. Len(c) /\ at <= j - 1
        /\ (at - 1) + 1 + (j - at) = j /\ (at - 1) + (j - at) = j - 1
    <3>1. Len(c) \in Nat /\ at \in 1 .. (Len(c) + 1) /\ j \in 1 .. (Len(c) + 1)
      BY <1>1, <1>2, <1>5
    <3> QED
      BY <1>7, <3>1, PlaceBehind
  <2>2. q[(at - 1) + 1 + (j - at)] = c[(at - 1) + (j - at)]
    BY <1>4, <2>1
  <2> QED
    BY <1>2, <2>1, <2>2
<1>8. ASSUME NEW j \in 1 .. Len(q) PROVE j < at \/ j = at \/ at < j
  BY <1>1, <1>2, <1>5
<1>9. ASSUME NEW j \in 1 .. Len(q), NEW k \in 1 .. Len(q), j < k, j # at
      PROVE  End(q[j]) <= q[k].offset
  <2>1. CASE j < at
    <3>1. q[j] = c[j] /\ j \in 1 .. Len(c) /\ End(c[j]) <= o
      BY <1>6, <2>1
    <3>2. CASE k < at
      <4>1. q[k] = c[k] /\ k \in 1 .. Len(c)
        BY <1>6, <3>2
      <4> QED
        BY <1>1, <1>9, <3>1, <4>1 DEF InOrder
    <3>3. CASE k = at
      BY <1>5, <3>1, <3>3
    <3>4. CASE at < k
      <4>1. q[k] = c[k - 1] /\ k - 1 \in 1 .. Len(c) /\ o <= c[k - 1].offset
        BY <1>7, <3>4
      <4>2. End(c[j]) \in Nat /\ c[k - 1].offset \in Nat
        BY <1>1, <3>1, <4>1, FragmentIs
      <4> QED
        BY <3>1, <4>1, <4>2
    <3> QED
      BY <1>8, <3>2, <3>3, <3>4
  <2>2. CASE at < j
    <3>1. q[j] = c[j - 1] /\ j - 1 \in 1 .. Len(c)
      BY <1>7, <2>2
    <3>2. at < k
      BY <1>2, <1>9, <2>2
    <3>3. q[k] = c[k - 1] /\ k - 1 \in 1 .. Len(c)
      BY <1>7, <3>2
    <3>4. j - 1 < k - 1
      BY <1>9
    <3> QED
      BY <1>1, <3>1, <3>3, <3>4 DEF InOrder
  <2> QED
    BY <1>8, <1>9, <2>1, <2>2
<1>10. Roomy(q)
  <2> SUFFICES ASSUME NEW j \in 1 .. Len(q) PROVE Len(q[j].data) <= q[j].room
    BY DEF Roomy
  <2>1. CASE j < at
    BY <1>1, <1>6, <2>1 DEF Roomy
  <2>2. CASE j = at
    BY <1>5, <2>2
  <2>3. CASE at < j
    BY <1>1, <1>7, <2>3 DEF Roomy
  <2> QED
    BY <1>8, <2>1, <2>2, <2>3
<1>11. ASSUME NEW j \in 1 .. at PROVE Fresh(q[j], lat, 0)
  <2>1. CASE j = at
    BY <1>5, <2>1
  <2>2. CASE j # at
    <3>1. j \in 1 .. Len(q) /\ j < at
      BY <1>2, <1>5, <2>2
    <3>2. q[j] = c[j] /\ j \in 1 .. Len(c) /\ End(c[j]) <= o
      BY <1>6, <3>1
    <3> QED
      BY <3>2 DEF Writable
  <2> QED
    BY <2>1, <2>2
<1>12. ASSUME NEW j \in (at + 1) .. Len(q) PROVE Fresh(q[j], lat, End(q[at]))
  <2>1. j \in 1 .. Len(q) /\ at < j
    BY <1>2, <1>5
  <2>2. q[j] = c[j - 1] /\ j - 1 \in 1 .. Len(c)
    BY <1>7, <2>1
  <2> QED
    BY <1>5, <2>2 DEF Writable
<1>13. ASSUME NEW e \in Nat, Within(c, e), End(g) <= e PROVE Within(q, e)
  <2> SUFFICES ASSUME NEW j \in 1 .. Len(q) PROVE End(q[j]) <= e
    BY DEF Within
  <2>1. CASE j < at
    BY <1>6, <1>13, <2>1 DEF Within
  <2>2. CASE j = at
    BY <1>5, <1>13, <2>2
  <2>3. CASE at < j
    BY <1>7, <1>13, <2>3 DEF Within
  <2> QED
    BY <1>8, <2>1, <2>2, <2>3
<1>14. ASSUME NEW j \in 1 .. Len(c), j < at PROVE q[j] = c[j]
  BY <1>1, <1>2, <1>5, <1>6, <1>14
<1>15. Mergeable(q, at, lat)
  BY <1>3, <1>5, <1>9, <1>10, <1>11, <1>12 DEF Mergeable
<1> QED
  BY <1>5, <1>13, <1>14, <1>15 DEF q, Inserted

LEMMA WriteNewKeeps ==
    ASSUME FragmentsInv, NEW o \in Offsets, NEW data \in Seq(Bytes), o + Len(data) <= MaxEnd,
           NEW grow \in BOOLEAN, WriteNew(o, data, grow)
    PROVE  FragmentsInv' /\ Adds(o, o + Len(data))
<1> DEFINE end == o + Len(data)
           c == Cut(o)
           at == PlaceOf(o)
           g == [offset |-> o, data |-> data, room |-> Pad(Len(data))]
           q == InsertAt(c, at, g)
           r == Merged(q, at, grow)
           trunc == Differs(q, at, grow)
<1>1. o \in Nat /\ MaxEnd \in Nat /\ Len(data) \in Nat /\ end \in Nat /\ end \in Offsets /\ o <= end
  <2>1. o \in Nat /\ MaxEnd \in Nat /\ Len(data) \in Nat
    BY OffsetIs, LenProperties
  <2> QED
    BY <2>1 DEF Offsets
<1>2. /\ frag' = Trimmed(r, o, end, trunc)
      /\ data_size' = data_size + Size(frag') - Size(c)
      /\ length' = LengthAfter(end, trunc)
      /\ incomplete' = (incomplete \/ (trunc /\ length > end))
      /\ Written(o, data)
  BY DEF WriteNew, PlaceOf
<1>3. IsCut(c, o)
  BY CutIs
<1>4. IsPlace(c, o, at)
  BY <1>3, PlaceIs
<1>5. /\ Sound(c, latest) /\ Within(c, length) /\ Size(c) \in Nat /\ Size(c) <= Size(frag)
      /\ KeepsTo(frag, c, o)
  BY <1>3, CutSound
<1>6. /\ g \in Fragment /\ g.offset = o /\ g.data = data /\ g.room = Pad(Len(data)) /\ End(g) = end
  <2>1. Made(g, o, data, Pad(Len(data)))
    BY <1>1, PadIs, MadeOf
  <2> QED
    BY <2>1 DEF Made
<1>7. q = Spliced(c, at - 1, g, at - 1)
  <2>1. (at - 1) + 1 = at
    BY <1>4, <1>5, FragmentsAre DEF IsPlace, Sound
  <2> HIDE DEF at, c, g
  <2> QED
    BY <2>1 DEF InsertAt, Spliced
<1>8. trunc \in BOOLEAN
  BY DEF Differs
<1> HIDE DEF c, at, g, q, trunc
<1>9. Len(g.data) <= g.room
  BY <1>1, <1>6, PadIs
<1>10. Fresh(g, latest', 0)
  <2> SUFFICES ASSUME NEW x \in Nat, g.offset <= x, x < End(g)
               PROVE  ByteAt(g, x) = latest'[x]
    BY DEF Fresh
  <2>1. latest'[x] = data[x - o + 1]
    BY <1>2, <1>6, NewIsLatest
  <2> QED
    BY <1>6, <2>1 DEF ByteAt
<1>11. ASSUME NEW j \in 1 .. Len(c)
       PROVE  Fresh(c[j], latest', End(g)) /\ (End(c[j]) <= o => Fresh(c[j], latest', 0))
  <2>1. c[j] \in Fragment /\ Fresh(c[j], latest, 0)
    BY <1>5, FragmentsAre DEF Sound, AllFresh
  <2>2. End(c[j]) <= MaxEnd
    <3>1. End(c[j]) <= length /\ length \in Nat /\ length <= MaxEnd /\ End(c[j]) \in Nat
      BY <1>5, <2>1, InvIs, FragmentIs DEF Within
    <3> QED
      BY <1>1, <3>1
  <2> QED
    BY <1>2, <1>6, <2>1, <2>2, Unwritten
<1>12. /\ Mergeable(q, at, latest') /\ q[at] = g
       /\ \A j \in 1 .. Len(c) : j < at => q[j] = c[j]
       /\ \A e \in Nat : Within(c, e) /\ End(g) <= e => Within(q, e)
  <2>1. Writable(c, o, End(g), latest')
    BY <1>11 DEF Writable
  <2>2. Inserted(q, c, g, at, latest')
    BY <1>1, <1>4, <1>5, <1>6, <1>7, <1>9, <1>10, <2>1, InsertedMergeable
  <2> QED
    BY <2>2 DEF Inserted
<1>13. Sound(r, latest') /\ \A e \in Nat : Within(q, e) => Within(r, e)
  BY <1>12, MergedSound
<1>14. Within(r, AtLeast(length, end))
  <2>1. length \in Nat
    BY InvIs
  <2>2. AtLeast(length, end) \in Nat /\ length <= AtLeast(length, end) /\ end <= AtLeast(length, end)
    BY <1>1, <2>1 DEF AtLeast
  <2>3. Within(c, AtLeast(length, end))
    <3> SUFFICES ASSUME NEW j \in 1 .. Len(c) PROVE End(c[j]) <= AtLeast(length, end)
      BY DEF Within
    <3>1. End(c[j]) <= length /\ End(c[j]) \in Nat
      BY <1>5, FragmentsAre, FragmentIs DEF Within, Sound
    <3> QED
      BY <2>1, <2>2, <3>1
  <2> QED
    BY <1>6, <1>12, <1>13, <2>2, <2>3
<1>15. ASSUME NEW x \in Nat, (x < o /\ HeldAt(frag, x)) \/ (o <= x /\ x < end)
       PROVE  HeldAt(r, x)
  <2>1. \E j \in 1 .. at : q[j].offset <= x /\ x < End(q[j])
    <3>1. at \in 1 .. at
      BY <1>4, <1>5, FragmentsAre DEF IsPlace, Sound
    <3>2. CASE o <= x
      <4>1. x < end
        BY <1>1, <1>15, <3>2
      <4> QED
        BY <1>6, <1>12, <3>1, <3>2, <4>1
    <3>3. CASE ~(o <= x)
      <4>1. x < o /\ HeldAt(frag, x)
        BY <1>1, <1>15, <3>3
      <4>2. HeldAt(c, x)
        BY <1>5, <4>1 DEF KeepsTo
      <4>3. PICK j \in 1 .. Len(c) : c[j].offset <= x /\ x < End(c[j])
        BY <4>2 DEF HeldAt
      <4>4. j < at
        <5>1. at <= j => o <= c[j].offset
          BY <1>4 DEF IsPlace
        <5>2. c[j].offset \in Nat /\ j \in Nat /\ at \in Nat
          BY <1>4, <1>5, FragmentsAre, FragmentIs DEF IsPlace, Sound
        <5> QED
          BY <1>1, <3>3, <4>3, <5>1, <5>2
      <4>5. q[j] = c[j] /\ j \in 1 .. at
        BY <1>12, <3>1, <4>4
      <4> QED
        BY <4>3, <4>5
    <3> QED
      BY <3>2, <3>3
  <2> QED
    BY <1>12, <2>1, MergedHolds
<1> HIDE DEF r
<1>16. /\ Sound(frag', latest') /\ Within(frag', length') /\ length' \in Offsets
       /\ KeepsTo(r, frag', end)
  <2>1. CASE trunc
    <3>1. frag' = Truncated(r, end, FALSE) /\ length' = end
      BY <1>2, <2>1 DEF Trimmed, LengthAfter
    <3> QED
      BY <1>1, <1>13, <3>1, TruncatedIs
  <2>2. CASE ~trunc
    <3>1. frag' = r /\ length' = AtLeast(length, end)
      BY <1>2, <2>2 DEF Trimmed, LengthAfter
    <3>2. KeepsTo(r, r, end)
      BY DEF KeepsTo
    <3>3. AtLeast(length, end) \in Offsets
      BY <1>1, InvIs DEF AtLeast
    <3> QED
      BY <1>13, <1>14, <3>1, <3>2, <3>3
  <2> QED
    BY <2>1, <2>2
<1>17. Adds(o, end)
  <2> SUFFICES ASSUME NEW x \in Nat, (x < o /\ HeldAt(frag, x)) \/ (o <= x /\ x < end)
               PROVE  HeldAt(frag', x)
    BY DEF Adds
  <2>1. x < end /\ HeldAt(r, x)
    BY <1>1, <1>15
  <2> QED
    BY <1>16, <2>1 DEF KeepsTo
<1>18. data_size' \in Nat /\ Size(frag') <= data_size'
  <2>1. Size(frag') \in Nat
    BY <1>16, SizeType DEF Sound
  <2>2. data_size \in Nat /\ Size(c) <= data_size
    BY <1>5, InvIs
  <2> QED
    BY <1>2, <1>5, <2>1, <2>2, Resized, Zenon
<1>19. FieldsTyped'
  <2>1. incomplete' \in BOOLEAN
    BY <1>2, <1>8, InvIs
  <2>2. latest' \in [Offsets -> Bytes \cup {NoByte}]
    BY <1>2, WrittenTyped
  <2> QED
    BY <1>16, <1>18, <2>1, <2>2 DEF FieldsTyped
<1>20. Sound(frag, latest)' /\ Within(frag, length)'
  BY <1>16 DEF Sound, InOrder, Roomy, AllFresh, Within, End, Fresh, ByteAt
<1> QED
  BY <1>17, <1>18, <1>19, <1>20 DEF FragmentsInv

LEMMA WriteFailsKeeps ==
    ASSUME FragmentsInv, NEW o \in Offsets, NEW data \in Seq(Bytes), o + Len(data) <= MaxEnd,
           WriteFails(o, data)
    PROVE  FragmentsInv'
<1> DEFINE end == o + Len(data)
<1>1. o \in Nat /\ MaxEnd \in Nat /\ Len(data) \in Nat /\ end \in Nat /\ end \in Offsets
  <2>1. o \in Nat /\ MaxEnd \in Nat /\ Len(data) \in Nat
    BY OffsetIs, LenProperties
  <2> QED
    BY <2>1 DEF Offsets
<1>2. /\ frag' = Cut(o) /\ length' = AtLeast(length, end)
      /\ incomplete' = incomplete /\ data_size' = data_size /\ latest' = latest
  BY DEF WriteFails
<1> HIDE DEF end
<1>3. /\ Sound(frag', latest) /\ Within(frag', length) /\ Size(frag') \in Nat
      /\ Size(frag') <= Size(frag)
  BY <1>2, CutIs, CutSound
<1>4. length' \in Offsets /\ length \in Nat /\ length' \in Nat /\ length <= length'
  BY <1>1, <1>2, InvIs DEF AtLeast
<1>5. Within(frag', length')
  <2> SUFFICES ASSUME NEW j \in 1 .. Len(frag') PROVE End(frag'[j]) <= length'
    BY DEF Within
  <2>1. End(frag'[j]) <= length /\ End(frag'[j]) \in Nat
    BY <1>3, FragmentsAre, FragmentIs DEF Within, Sound
  <2> QED
    BY <1>4, <2>1
<1>6. Size(frag') <= data_size' /\ data_size' \in Nat
  BY <1>2, <1>3, InvIs
<1>7. Sound(frag, latest)' /\ Within(frag, length)'
  <2>1. Sound(frag', latest')
    BY <1>2, <1>3
  <2> QED
    BY <2>1, <1>5 DEF Sound, InOrder, Roomy, AllFresh, Within, End, Fresh, ByteAt
<1>8. FieldsTyped'
  BY <1>2, <1>4, <1>6, InvIs DEF FieldsTyped
<1> QED
  BY <1>6, <1>7, <1>8 DEF FragmentsInv

-----------------------------------------------------------------------------
(* The other operations on the fragments.                                  *)

\* The fragments up to the first gap: the first ones, each of which begins where
\* the one in front of it ends.
LEMMA ContiguousTo ==
    ASSUME NEW q \in Seq(Fragment)
    PROVE  LET n == Cardinality({i \in DOMAIN q :
                      \A j \in 2 .. i : q[j].offset = End(q[j - 1])})
           IN  n \in 0 .. Len(q) /\ \A i \in 2 .. n : q[i].offset = End(q[i - 1])
<1> DEFINE H == {i \in 1 .. Len(q) : i = 1 \/ q[i].offset = End(q[i - 1])}
           c == Cardinality(Run(Len(q), 0, H))
           G == {i \in DOMAIN q : \A j \in 2 .. i : q[j].offset = End(q[j - 1])}
<1>1. Len(q) \in Nat /\ DOMAIN q = 1 .. Len(q) /\ 0 \in 0 .. Len(q)
  BY FragmentsAre
<1>2. G = Run(Len(q), 0, H)
  <2>1. ASSUME NEW i \in 1 .. Len(q)
        PROVE  (\A j \in 2 .. i : q[j].offset = End(q[j - 1])) <=> (\A j \in 1 .. i : j \in H)
    <3>1. \A j \in 1 .. i : j = 1 \/ j \in 2 .. i
      BY <1>1
    <3>2. \A j \in 2 .. i : j \in 1 .. i /\ j # 1
      BY <1>1
    <3>3. \A j \in 1 .. i : j \in 1 .. Len(q)
      BY <1>1
    <3> QED
      BY <3>1, <3>2, <3>3
  <2>2. 0 + 1 = 1
    OBVIOUS
  <2> HIDE DEF H
  <2> QED
    BY <1>1, <2>1, <2>2 DEF Run
<1>3. /\ c \in 0 .. (Len(q) - 0)
      /\ \A i \in (0 + 1) .. (0 + c) : i \in H
  <2> HIDE DEF H
  <2>1. IsRun(c, Len(q), 0, H)
    BY <1>1, RunIs, Zenon
  <2> QED
    BY <2>1 DEF IsRun
<1>4. Cardinality(G) = c
  BY <1>2
<1> HIDE DEF c, G
<1>5. c \in 0 .. Len(q)
  BY <1>1, <1>3
<1>6. ASSUME NEW i \in 2 .. c PROVE q[i].offset = End(q[i - 1])
  <2>1. i \in (0 + 1) .. (0 + c) /\ i # 1
    BY <1>5
  <2> QED
    BY <1>3, <2>1
<1> QED
  BY <1>4, <1>5, <1>6 DEF G

\* Their data, one behind another, are what is latest from 0 on.
IsJoined(b, n) ==
    /\ b \in Seq(Bytes) /\ Len(b) = SizeTo(frag, n) /\ Len(b) = End(frag[n])
    /\ \A x \in Nat : x < Len(b) => b[x + 1] = latest[x]

LEMMA JoinedSteps ==
    ASSUME FragmentsInv, NEW n \in 2 .. Len(frag), NEW b, IsJoined(b, n - 1),
           frag[n].offset = End(frag[n - 1])
    PROVE  IsJoined(b \o frag[n].data, n)
<1> DEFINE w == b \o frag[n].data
           t == frag[n].data
<1>1. /\ Len(frag) \in Nat /\ n \in 1 .. Len(frag) /\ n - 1 \in 1 .. Len(frag)
      /\ frag \in Seq(Fragment)
  BY InvIs
<1>2. /\ frag[n] \in Fragment /\ t \in Seq(Bytes) /\ Len(t) \in Nat
      /\ End(frag[n]) = frag[n].offset + Len(t) /\ Fresh(frag[n], latest, 0)
      /\ frag[n].offset \in Nat
  BY <1>1, InvIs, FragmentIs DEF AllFresh
<1>3. b \in Seq(Bytes) /\ Len(b) \in Nat /\ Len(b) = SizeTo(frag, n - 1) /\ Len(b) = frag[n].offset
      /\ \A x \in Nat : x < Len(b) => b[x + 1] = latest[x]
  BY LenProperties DEF IsJoined
<1>4. SizeTo(frag, n) = SizeTo(frag, n - 1) + Len(t)
  BY <1>1, SizeSteps
<1>5. /\ w \in Seq(Bytes) /\ Len(w) = Len(b) + Len(t)
      /\ \A i \in 1 .. Len(b) : w[i] = b[i]
      /\ \A i \in 1 .. Len(t) : w[Len(b) + i] = t[i]
  <2>1. w \in Seq(Bytes) /\ IsJoint(w, b, t)
    BY <1>2, <1>3, Joined, Zenon
  <2> QED
    BY <2>1 DEF IsJoint
<1> HIDE DEF w, t
<1>6. ASSUME NEW x \in Nat, x < Len(w) PROVE w[x + 1] = latest[x]
  <2>1. CASE x < Len(b)
    <3>1. x + 1 \in 1 .. Len(b)
      BY <1>3, <2>1
    <3> QED
      BY <1>3, <1>5, <2>1, <3>1
  <2>2. CASE ~(x < Len(b))
    <3>1. /\ x - Len(b) + 1 \in 1 .. Len(t) /\ Len(b) + (x - Len(b) + 1) = x + 1
          /\ Len(b) <= x /\ x < Len(b) + Len(t)
      BY <1>2, <1>3, <1>5, <1>6, <2>2
    <3>2. w[x + 1] = t[x - Len(b) + 1]
      BY <1>5, <3>1
    <3>3. ByteAt(frag[n], x) = latest[x]
      BY <1>2, <1>3, <3>1 DEF Fresh
    <3>4. ByteAt(frag[n], x) = t[x - Len(b) + 1]
      BY <1>3 DEF ByteAt, t
    <3> QED
      BY <3>2, <3>3, <3>4
  <2> QED
    BY <2>1, <2>2
<1> QED
  BY <1>2, <1>3, <1>4, <1>5, <1>6 DEF IsJoined, w, t

LEMMA JoinedData ==
    ASSUME FragmentsInv, NEW n \in 1 .. Len(frag), frag[1].offset = 0,
           \A i \in 2 .. n : frag[i].offset = End(frag[i - 1])
    PROVE  IsJoined(FlattenSeq([i \in 1 .. n |-> frag[i].data]), n)
<1> DEFINE s == [i \in 1 .. n |-> frag[i].data]
<1>1. Len(frag) \in Nat /\ frag \in Seq(Fragment) /\ n \in Nat
  BY InvIs
<1>2. \A i \in 1 .. n : i \in 1 .. Len(frag) /\ frag[i].data \in Seq(Bytes)
  BY <1>1, InvIs, FragmentIs
<1>3. s \in Seq(Seq(Bytes)) /\ Len(s) = n /\ \A i \in 1 .. n : s[i] = frag[i].data
  BY <1>1, <1>2
<1> HIDE DEF s
<1>4. PICK f : /\ \A i \in 1 .. Len(s) : f[i] \in Seq(Bytes)
               /\ f[1] = s[1]
               /\ \A i \in 2 .. Len(s) : f[i] = f[i - 1] \o s[i]
               /\ FlattenSeq(s) = f[Len(s)]
  <2>1. PICK f : Flattened(f, s)
    <3>1. Len(s) # 0
      BY <1>1, <1>3
    <3> QED
      BY <1>3, <3>1, FlattenSteps
  <2> QED
    BY <2>1 DEF Flattened
<1> DEFINE Bad == {i \in 1 .. n : ~IsJoined(f[i], i)}
<1>5. IsJoined(f[1], 1)
  <2>1. /\ 1 \in 1 .. n /\ 1 \in 1 .. Len(frag) /\ f[1] = frag[1].data /\ frag[1] \in Fragment
        /\ Fresh(frag[1], latest, 0)
    BY <1>1, <1>2, <1>3, <1>4, InvIs DEF AllFresh
  <2>2. frag[1].data \in Seq(Bytes) /\ Len(frag[1].data) \in Nat /\ End(frag[1]) = Len(frag[1].data)
    BY <2>1, FragmentIs
  <2>3. SizeTo(frag, 1) = Len(frag[1].data)
    <3>1. SizeTo(frag, 0) = 0 /\ SizeTo(frag, 1) = SizeTo(frag, 1 - 1) + Len(frag[1].data)
      BY <1>1, <2>1, SizeSteps
    <3> QED
      BY <2>2, <3>1
  <2>4. ASSUME NEW x \in Nat, x < Len(frag[1].data) PROVE frag[1].data[x + 1] = latest[x]
    <3>1. ByteAt(frag[1], x) = latest[x]
      BY <2>1, <2>2, <2>4 DEF Fresh
    <3>2. ByteAt(frag[1], x) = frag[1].data[x + 1]
      BY DEF ByteAt
    <3> QED
      BY <3>1, <3>2
  <2> QED
    BY <2>1, <2>2, <2>3, <2>4 DEF IsJoined
<1>6. Bad = {}
  <2> SUFFICES ASSUME Bad # {} PROVE FALSE
    OBVIOUS
  <2>1. PICK i \in Bad : \A m \in Bad : i <= m
    <3>1. Bad \in SUBSET Nat
      BY <1>1
    <3> HIDE DEF Bad
    <3> QED
      BY <3>1, Least
  <2>2. i \in 1 .. n /\ ~IsJoined(f[i], i) /\ i # 1
    BY <1>5, <2>1
  <2>3. i \in 2 .. n /\ i - 1 \in 1 .. n /\ i \in 2 .. Len(frag) /\ ~(i <= i - 1)
    BY <1>1, <2>2
  <2>4. IsJoined(f[i - 1], i - 1)
    BY <2>1, <2>3
  <2>5. f[i] = f[i - 1] \o frag[i].data
    BY <1>3, <1>4, <2>2, <2>3
  <2>6. IsJoined(f[i - 1] \o frag[i].data, i)
    BY <2>3, <2>4, JoinedSteps
  <2> QED
    BY <2>2, <2>5, <2>6
<1>7. IsJoined(f[n], n)
  BY <1>1, <1>6
<1> QED
  BY <1>3, <1>4, <1>7 DEF s

LEMMA GetCacheFragmentKeeps == ASSUME FragmentsInv, GetCacheFragment PROVE FragmentsInv'
<1> DEFINE n == Cardinality({i \in DOMAIN frag :
                  \A j \in 2 .. i : frag[j].offset = End(frag[j - 1])})
           data == FlattenSeq([i \in 1 .. n |-> frag[i].data])
           m == [offset |-> 0, data |-> data, room |-> Len(data)]
           r == Spliced(frag, 0, m, n)
<1>1. /\ frag \in Seq(Fragment) /\ Len(frag) \in Nat
      /\ \A i \in 1 .. Len(frag) :
           /\ frag[i] \in Fragment /\ End(frag[i]) \in Nat /\ frag[i].offset \in Nat
           /\ frag[i].offset <= End(frag[i]) /\ End(frag[i]) <= length /\ End(frag[i]) <= MaxEnd
      /\ length \in Nat
  BY InvIs
<1>2. /\ n > 1 /\ frag[1].offset = 0
      /\ frag' = <<m>> \o SubSeq(frag, n + 1, Len(frag))
      /\ length' = length /\ incomplete' = incomplete /\ data_size' = data_size /\ latest' = latest
  BY DEF GetCacheFragment
<1>3. n \in 0 .. Len(frag) /\ \A i \in 2 .. n : frag[i].offset = End(frag[i - 1])
  BY <1>1, ContiguousTo
<1> HIDE DEF n
<1>4. n \in 1 .. Len(frag) /\ n \in Nat
  BY <1>1, <1>2, <1>3
<1>5. IsJoined(data, n)
  BY <1>2, <1>3, <1>4, JoinedData
<1> HIDE DEF data
<1>6. /\ data \in Seq(Bytes) /\ Len(data) \in Nat /\ Len(data) = SizeTo(frag, n)
      /\ Len(data) = End(frag[n])
      /\ \A x \in Nat : x < Len(data) => data[x + 1] = latest[x]
  BY <1>5, LenProperties DEF IsJoined
<1>7. /\ m \in Fragment /\ m.offset = 0 /\ m.data = data /\ m.room = Len(data)
      /\ End(m) = End(frag[n])
  <2>1. 0 \in Offsets
    BY BoundsAssumption DEF Offsets
  <2>2. Made(m, 0, data, Len(data))
    BY <1>6, <2>1, MadeOf
  <2> QED
    BY <1>6, <2>2 DEF Made
<1> HIDE DEF m
<1>8. frag' = r
  <2>1. SubSeq(frag, 1, 0) = <<>>
    <3>1. 0 \in 0 .. Len(frag)
      BY <1>1
    <3>2. SubSeq(frag, 1, 0) \in Seq(Fragment) /\ IsFront(SubSeq(frag, 1, 0), frag, 0)
      BY <1>1, <3>1, Firsts
    <3>3. Len(SubSeq(frag, 1, 0)) = 0
      BY <3>2 DEF IsFront
    <3> QED
      BY <3>2, <3>3, EmptySeq
  <2>2. <<>> \o <<m>> = <<m>>
    <3>1. <<m>> \in Seq(Fragment)
      BY <1>7
    <3> QED
      BY <3>1, ConcatEmptySeq
  <2> QED
    BY <1>2, <2>1, <2>2 DEF Spliced
<1>9. r \in Seq(Fragment) /\ Splicing(r, frag, 0, m, n)
  <2>1. 0 \in 0 .. Len(frag) /\ n \in 0 .. Len(frag)
    BY <1>1, <1>4
  <2> QED
    BY <1>1, <1>7, <2>1, SplicedEntries, Zenon
<1>10. Size(r) = Size(frag)
  BY <1>1, <1>4, <1>6, <1>7, SizeOfSpliced
<1> HIDE DEF r
<1>11. /\ Len(r) = 0 + 1 + Len(frag) - n /\ r[0 + 1] = m
       /\ \A i \in 1 .. (Len(frag) - n) : r[0 + 1 + i] = frag[n + i]
  BY <1>9 DEF Splicing
<1>12. Len(r) \in Nat /\ r[1] = m /\ Len(r) = 1 + Len(frag) - n
  BY <1>1, <1>4, <1>11
<1>13. ASSUME NEW j \in 1 .. Len(r), j # 1
       PROVE  LET k == n + (j - 1)
              IN  r[j] = frag[k] /\ k \in 1 .. Len(frag) /\ n < k
  <2>1. /\ j - 1 \in 1 .. (Len(frag) - n) /\ 0 + 1 + (j - 1) = j
        /\ n + (j - 1) \in 1 .. Len(frag) /\ n < n + (j - 1)
    BY <1>1, <1>4, <1>12, <1>13
  <2>2. r[0 + 1 + (j - 1)] = frag[n + (j - 1)]
    BY <1>11, <2>1
  <2> QED
    BY <2>1, <2>2
<1>14. InOrder(r)
  <2> SUFFICES ASSUME NEW j \in 1 .. Len(r), NEW k \in 1 .. Len(r), j < k
               PROVE  End(r[j]) <= r[k].offset
    BY DEF InOrder
  <2>1. k # 1
    BY <1>12
  <2>2. r[k] = frag[n + (k - 1)] /\ n + (k - 1) \in 1 .. Len(frag) /\ n < n + (k - 1)
    BY <1>13, <2>1
  <2>3. CASE j = 1
    <3>1. End(frag[n]) <= frag[n + (k - 1)].offset
      BY <1>4, <2>2, InvIs DEF InOrder
    <3> QED
      BY <1>7, <1>12, <2>2, <2>3, <3>1
  <2>4. CASE j # 1
    <3>1. r[j] = frag[n + (j - 1)] /\ n + (j - 1) \in 1 .. Len(frag)
      BY <1>13, <2>4
    <3>2. n + (j - 1) < n + (k - 1)
      BY <1>4, <1>12
    <3> QED
      BY <2>2, <3>1, <3>2, InvIs DEF InOrder
  <2> QED
    BY <2>3, <2>4
<1>15. Roomy(r)
  <2> SUFFICES ASSUME NEW j \in 1 .. Len(r) PROVE Len(r[j].data) <= r[j].room
    BY DEF Roomy
  <2>1. CASE j = 1
    BY <1>6, <1>7, <1>12, <2>1
  <2>2. CASE j # 1
    BY <1>13, <2>2, InvIs DEF Roomy
  <2> QED
    BY <2>1, <2>2
<1>16. AllFresh(r, latest)
  <2> SUFFICES ASSUME NEW j \in 1 .. Len(r) PROVE Fresh(r[j], latest, 0)
    BY DEF AllFresh
  <2>1. CASE j = 1
    <3> SUFFICES ASSUME NEW x \in Nat, x < End(m) PROVE ByteAt(m, x) = latest[x]
      BY <1>12, <2>1 DEF Fresh
    <3>1. ByteAt(m, x) = data[x + 1]
      BY <1>7 DEF ByteAt
    <3> QED
      BY <1>6, <1>7, <3>1
  <2>2. CASE j # 1
    BY <1>13, <2>2, InvIs DEF AllFresh
  <2> QED
    BY <2>1, <2>2
<1>17. Within(r, length)
  <2> SUFFICES ASSUME NEW j \in 1 .. Len(r) PROVE End(r[j]) <= length
    BY DEF Within
  <2>1. CASE j = 1
    BY <1>1, <1>4, <1>7, <1>12, <2>1
  <2>2. CASE j # 1
    BY <1>1, <1>13, <2>2
  <2> QED
    BY <2>1, <2>2
<1>18. Sound(frag, latest)' /\ Within(frag, length)'
  <2>1. Sound(frag', latest') /\ Within(frag', length')
    BY <1>2, <1>8, <1>9, <1>14, <1>15, <1>16, <1>17 DEF Sound
  <2> QED
    BY <2>1 DEF Sound, InOrder, Roomy, AllFresh, Within, End, Fresh, ByteAt
<1>19. FieldsTyped' /\ Size(frag') <= data_size'
  BY <1>2, <1>8, <1>10, InvIs DEF FieldsTyped
<1> QED
  BY <1>18, <1>19 DEF FragmentsInv

LEMMA NormalizeCacheEntryKeeps ==
    ASSUME FragmentsInv, NEW p \in Offsets, NormalizeCacheEntry(p)
    PROVE  FragmentsInv'
<1>1. PICK shrink \in BOOLEAN : frag' = Truncated(frag, p, shrink)
  BY DEF NormalizeCacheEntry
<1>2. /\ data_size' = data_size + Size(frag') - Size(frag)
      /\ length' = IF length > p THEN p ELSE length
      /\ incomplete' = FALSE /\ latest' = latest
  BY DEF NormalizeCacheEntry
<1>3. p \in Nat /\ Sound(frag, latest) /\ Within(frag, length) /\ length \in Nat
  BY OffsetIs, InvIs DEF FragmentsInv
<1>4. Sound(frag', latest) /\ Within(frag', p) /\ Within(frag', length)
  BY <1>1, <1>3, TruncatedIs
<1>5. Sound(frag, latest)' /\ Within(frag, length)'
  <2>1. Sound(frag', latest') /\ Within(frag', length')
    BY <1>2, <1>4
  <2> QED
    BY <2>1 DEF Sound, InOrder, Roomy, AllFresh, Within, End, Fresh, ByteAt
<1>6. data_size' \in Nat /\ Size(frag') <= data_size'
  <2>1. Size(frag') \in Nat
    BY <1>4, SizeType DEF Sound
  <2>2. data_size \in Nat /\ Size(frag) \in Nat /\ Size(frag) <= data_size
    BY InvIs
  <2> QED
    BY <1>2, <2>1, <2>2, Resized, Zenon
<1>7. FieldsTyped'
  BY <1>2, <1>6, InvIs DEF FieldsTyped
<1> QED
  BY <1>5, <1>6, <1>7 DEF FragmentsInv

LEMMA DeleteEntryContentKeeps == ASSUME FragmentsInv, DeleteEntryContent PROVE FragmentsInv'
<1>1. frag' = <<>> /\ data_size' = 0 /\ length' = 0 /\ incomplete' = TRUE /\ latest' = latest
  BY DEF DeleteEntryContent
<1>2. <<>> \in Seq(Fragment) /\ Len(<<>>) = 0 /\ Size(<<>>) = 0
  BY SizeOfNone
<1>3. Sound(frag, latest)' /\ Within(frag, length)'
  BY <1>1, <1>2 DEF Sound, InOrder, Roomy, AllFresh, Within
<1>4. FieldsTyped'
  BY <1>1, InvIs, BoundsAssumption DEF FieldsTyped, Offsets
<1>5. Size(frag') <= data_size'
  BY <1>1, <1>2
<1> QED
  BY <1>3, <1>4, <1>5 DEF FragmentsInv

\* What is behind p stays.
LEMMA StrippedSound ==
    ASSUME FragmentsInv, NEW p \in Offsets
    PROVE  Sound(Stripped(p), latest) /\ Within(Stripped(p), length)
<1> DEFINE n == Prefix(frag, LAMBDA f : End(f) <= p)
           part(f) == IF f.offset < p THEN [offset |-> p, data |-> BytesFrom(f, p), room |-> f.room]
                      ELSE f
           r == [i \in 1 .. (Len(frag) - n) |-> part(frag[n + i])]
<1>1. frag \in Seq(Fragment) /\ Len(frag) \in Nat /\ p \in Nat /\ length \in Nat
  BY OffsetIs, InvIs
<1>2. Stripped(p) = r
  BY DEF Stripped
<1>3. /\ n \in 0 .. Len(frag)
      /\ n < Len(frag) => ~(End(frag[n + 1]) <= p)
  BY <1>1, EndingTo
<1> HIDE DEF n
<1>4. ASSUME NEW i \in 1 .. (Len(frag) - n)
      PROVE  LET f == frag[n + i]
             IN  /\ n + i \in 1 .. Len(frag) /\ f \in Fragment /\ Len(f.data) <= f.room
                 /\ Fresh(f, latest, 0) /\ f.offset \in Nat /\ End(f) \in Nat
                 /\ Len(f.data) \in Nat /\ f.room \in Nat /\ End(f) = f.offset + Len(f.data)
                 /\ p <= End(f) /\ End(f) <= length
  <2> DEFINE f == frag[n + i]
  <2>1. n + i \in 1 .. Len(frag) /\ n + 1 \in 1 .. Len(frag) /\ n < Len(frag)
        /\ (i = 1 \/ n + 1 < n + i)
    BY <1>1, <1>3
  <2>2. /\ f \in Fragment /\ Len(f.data) <= f.room /\ Fresh(f, latest, 0)
        /\ f.offset \in Nat /\ End(f) \in Nat /\ f.offset <= End(f) /\ End(f) <= length
        /\ End(frag[n + 1]) \in Nat
    BY <2>1, InvIs DEF Roomy, AllFresh
  <2>3. n + 1 < n + i => End(frag[n + 1]) <= f.offset
    BY <2>1, InvIs DEF InOrder
  <2>4. p <= End(f)
    BY <1>1, <1>3, <2>1, <2>2, <2>3
  <2>5. Len(f.data) \in Nat /\ f.room \in Nat /\ End(f) = f.offset + Len(f.data)
    BY <2>2, FragmentIs
  <2> QED
    BY <2>1, <2>2, <2>4, <2>5
<1>5. ASSUME NEW i \in 1 .. (Len(frag) - n)
      PROVE  LET f == frag[n + i]
                 g == part(f)
             IN  /\ g \in Fragment /\ Len(g.data) <= g.room /\ Fresh(g, latest, 0)
                 /\ End(g) = End(f) /\ f.offset <= g.offset
  <2> DEFINE f == frag[n + i]
             g == part(f)
  <2>1. /\ f \in Fragment /\ Len(f.data) <= f.room
        /\ Fresh(f, latest, 0) /\ f.offset \in Nat /\ End(f) \in Nat
        /\ Len(f.data) \in Nat /\ f.room \in Nat /\ End(f) = f.offset + Len(f.data)
        /\ p <= End(f)
    BY <1>4
  <2> HIDE DEF f
  <2>2. CASE f.offset < p
    <3>1. g = [offset |-> p, data |-> BytesFrom(f, p), room |-> f.room]
      BY <2>2
    <3>2. f.offset <= p
      BY <1>1, <2>1, <2>2
    <3>3. /\ g \in Fragment /\ g.offset = p /\ g.room = f.room /\ End(g) = End(f)
          /\ Len(g.data) = End(f) - p /\ Covers(g, f, 0)
      BY <2>1, <3>1, <3>2, FromIs
    <3>4. Fresh(g, latest, 0)
      BY <2>1, <3>3, CoversFresh
    <3>5. End(f) - p <= f.room
      BY <1>1, <2>1, <3>2
    <3> QED
      BY <3>2, <3>3, <3>4, <3>5 DEF f
  <2>3. CASE ~(f.offset < p)
    <3>1. g = f
      BY <2>3
    <3> QED
      BY <2>1, <3>1 DEF f
  <2> QED
    BY <2>2, <2>3
<1> HIDE DEF part
<1>6. r \in Seq(Fragment) /\ Len(r) = Len(frag) - n /\ Len(r) \in Nat
      /\ \A i \in 1 .. Len(r) : r[i] = part(frag[n + i])
  <2>1. Len(frag) - n \in Nat
    BY <1>1, <1>3
  <2>2. \A i \in 1 .. (Len(frag) - n) : part(frag[n + i]) \in Fragment
    BY <1>5
  <2> QED
    BY <2>1, <2>2
<1> HIDE DEF r
<1>7. InOrder(r)
  <2> SUFFICES ASSUME NEW j \in 1 .. Len(r), NEW k \in 1 .. Len(r), j < k
               PROVE  End(r[j]) <= r[k].offset
    BY DEF InOrder
  <2>1. r[j] = part(frag[n + j]) /\ r[k] = part(frag[n + k])
    BY <1>6
  <2>2. End(r[j]) = End(frag[n + j]) /\ frag[n + k].offset <= r[k].offset /\ r[k] \in Fragment
    BY <1>5, <1>6, <2>1
  <2>3. n + j \in 1 .. Len(frag) /\ n + k \in 1 .. Len(frag) /\ n + j < n + k
    BY <1>1, <1>3, <1>4, <1>6
  <2>4. End(frag[n + j]) <= frag[n + k].offset
    BY <2>3, InvIs DEF InOrder
  <2>5. End(frag[n + j]) \in Nat /\ frag[n + k].offset \in Nat /\ r[k].offset \in Nat
    BY <2>2, <2>3, InvIs, FragmentIs
  <2> QED
    BY <2>2, <2>4, <2>5
<1>8. Roomy(r) /\ AllFresh(r, latest)
  BY <1>5, <1>6 DEF Roomy, AllFresh
<1>9. Within(r, length)
  BY <1>4, <1>5, <1>6 DEF Within
<1> QED
  BY <1>2, <1>6, <1>7, <1>8, <1>9 DEF Sound

LEMMA FreeEntryToKeeps == ASSUME FragmentsInv, NEW p \in Offsets, FreeEntryTo(p) PROVE FragmentsInv'
<1>1. /\ frag' = Stripped(p)
      /\ data_size' = data_size + Size(frag') - Size(frag)
      /\ length' = length /\ incomplete' = incomplete /\ latest' = latest
  BY DEF FreeEntryTo
<1>2. Sound(frag', latest') /\ Within(frag', length')
  BY <1>1, StrippedSound
<1>3. Sound(frag, latest)' /\ Within(frag, length)'
  BY <1>2 DEF Sound, InOrder, Roomy, AllFresh, Within, End, Fresh, ByteAt
<1>4. data_size' \in Nat /\ Size(frag') <= data_size'
  <2>1. Size(frag') \in Nat
    BY <1>2, SizeType DEF Sound
  <2>2. data_size \in Nat /\ Size(frag) \in Nat /\ Size(frag) <= data_size
    BY InvIs
  <2> QED
    BY <1>1, <2>1, <2>2, Resized, Zenon
<1>5. FieldsTyped'
  BY <1>1, <1>4, InvIs DEF FieldsTyped
<1> QED
  BY <1>3, <1>4, <1>5 DEF FragmentsInv

-----------------------------------------------------------------------------
(* All the steps.                                                          *)

LEMMA FragmentsStart == InitFragments => FragmentsInv
<1> SUFFICES ASSUME InitFragments PROVE FragmentsInv
  OBVIOUS
<1>1. /\ frag = <<>> /\ data_size = 0 /\ length = 0 /\ incomplete = TRUE
      /\ latest = [p \in Offsets |-> NoByte]
  BY DEF InitFragments
<1>2. <<>> \in Seq(Fragment) /\ Len(<<>>) = 0 /\ Size(<<>>) = 0
  BY SizeOfNone
<1>3. Sound(frag, latest) /\ Within(frag, length)
  BY <1>1, <1>2 DEF Sound, InOrder, Roomy, AllFresh, Within
<1>4. FieldsTyped
  BY <1>1, BoundsAssumption DEF FieldsTyped, Offsets
<1>5. Size(frag) <= data_size
  BY <1>1, <1>2
<1> QED
  BY <1>3, <1>4, <1>5 DEF FragmentsInv

\* What is added has an end that is no offset too large.
LEMMA AddFragmentKeeps ==
    ASSUME FragmentsInv, NEW o \in Offsets, NEW data \in Seq(Bytes), AddFragment(o, data)
    PROVE  /\ FragmentsInv' /\ o + Len(data) <= MaxEnd
           /\ latest' = latest \/ (Adds(o, o + Len(data)) /\ Written(o, data))
<1>1. o + Len(data) <= MaxEnd
  BY DEF AddFragment
<1>2. CASE \E grow \in BOOLEAN : WriteInPlace(o, data, grow)
  <2>1. PICK grow \in BOOLEAN : WriteInPlace(o, data, grow)
    BY <1>2
  <2>2. Written(o, data)
    BY <2>1 DEF WriteInPlace
  <2> QED
    BY <1>1, <2>1, <2>2, WriteInPlaceKeeps
<1>3. CASE \E grow \in BOOLEAN : WriteNew(o, data, grow)
  <2>1. PICK grow \in BOOLEAN : WriteNew(o, data, grow)
    BY <1>3
  <2>2. Written(o, data)
    BY <2>1 DEF WriteNew
  <2> QED
    BY <1>1, <2>1, <2>2, WriteNewKeeps
<1>4. CASE WriteFails(o, data)
  <2>1. latest' = latest
    BY <1>4 DEF WriteFails
  <2> QED
    BY <1>1, <1>4, <2>1, WriteFailsKeeps
<1> QED
  BY <1>2, <1>3, <1>4 DEF AddFragment

\* What a step does to what was written
Step ==
    \/ latest' = latest
    \/ \E o \in Offsets : \E data \in Seq(Bytes) :
         Adds(o, o + Len(data)) /\ Written(o, data) /\ o + Len(data) <= MaxEnd

LEMMA FragmentsStep == FragmentsInv /\ [NextFragments]_fragmentVars => FragmentsInv' /\ Step
<1> SUFFICES ASSUME FragmentsInv, [NextFragments]_fragmentVars PROVE FragmentsInv' /\ Step
  OBVIOUS
<1>1. ASSUME NEW o \in Offsets, NEW n \in 1 .. MaxChunk, NEW data \in [1 .. n -> Bytes],
             AddFragment(o, data)
      PROVE  FragmentsInv' /\ Step
  <2>1. n \in Nat
    BY BoundsAssumption
  <2>2. data \in Seq(Bytes)
    BY <2>1
  <2> QED
    BY <1>1, <2>2, AddFragmentKeeps DEF Step
<1>2. CASE GetCacheFragment
  BY <1>2, GetCacheFragmentKeeps DEF Step, GetCacheFragment
<1>3. ASSUME NEW p \in Offsets, NormalizeCacheEntry(p) PROVE FragmentsInv' /\ Step
  BY <1>3, NormalizeCacheEntryKeeps DEF Step, NormalizeCacheEntry
<1>4. ASSUME NEW p \in Offsets, FreeEntryTo(p) PROVE FragmentsInv' /\ Step
  BY <1>4, FreeEntryToKeeps DEF Step, FreeEntryTo
<1>5. CASE DeleteEntryContent
  BY <1>5, DeleteEntryContentKeeps DEF Step, DeleteEntryContent
<1>6. CASE UNCHANGED fragmentVars
  <2>1. /\ frag' = frag /\ length' = length /\ incomplete' = incomplete
        /\ data_size' = data_size /\ latest' = latest
    BY <1>6 DEF fragmentVars
  <2>2. FieldsTyped' /\ Size(frag)' <= data_size'
    BY <2>1 DEF FragmentsInv, FieldsTyped
  <2>3. Sound(frag, latest)' /\ Within(frag, length)'
    BY <2>1 DEF FragmentsInv, Sound, InOrder, Roomy, AllFresh, Within, End, Fresh, ByteAt
  <2> QED
    BY <2>1, <2>2, <2>3 DEF FragmentsInv, Step
<1> QED
  BY <1>1, <1>2, <1>3, <1>4, <1>5, <1>6 DEF NextFragments

\* Whatever is written over, between and across fragments of any size, the entry
\* can be read: its fragments are sorted and disjoint, fit into what was allocated
\* for them, and are no more than length and data_size say.
THEOREM FragmentsAreSound == SpecFragments => []EntrySound
<1>1. FragmentsInv => EntrySound
  <2> SUFFICES ASSUME FragmentsInv PROVE EntrySound
    OBVIOUS
  <2>1. FragmentsTypeOK
    BY InvIs DEF FragmentsTypeOK, Fragment
  <2>2. \A i, j \in DOMAIN frag : i < j => End(frag[i]) <= frag[j].offset
    BY InvIs DEF InOrder
  <2>3. ASSUME NEW f \in ToSet(frag) PROVE Len(f.data) <= f.room /\ End(f) <= length
    <3>1. PICK i \in DOMAIN frag : f = frag[i]
      BY DEF ToSet
    <3> QED
      BY <3>1, InvIs DEF Roomy
  <2>4. data_size >= Size(frag)
    BY InvIs
  <2> QED
    BY <2>1, <2>2, <2>3, <2>4 DEF EntrySound
<1> QED
  BY <1>1, FragmentsStart, FragmentsStep, PTL DEF SpecFragments

\* What a reader finds is what was written there last, and an add leaves all that
\* it adds, and what is in front of it, in the entry.
THEOREM FragmentsHoldTheLatest == SpecFragments => LatestHeld
<1> DEFINE new == {p \in Offsets : latest'[p] # latest[p]}
           Read == \A f \in ToSet(frag') : \A p \in f.offset .. (End(f) - 1) :
                     ByteAt(f, p) = latest'[p]
           Kept == new # {} =>
                     /\ new \subseteq Held(frag')
                     /\ \A p \in Held(frag) : (\A n \in new : p < n) => p \in Held(frag')
<1>1. ASSUME FragmentsInv' PROVE Read
  <2>1. /\ frag' \in Seq(Fragment) /\ \A i \in 1 .. Len(frag') : Fresh(frag'[i], latest', 0)
    BY <1>1 DEF FragmentsInv, Sound, AllFresh, Fresh, End, ByteAt
  <2>2. ASSUME NEW f \in ToSet(frag'), NEW p \in f.offset .. (End(f) - 1)
        PROVE  ByteAt(f, p) = latest'[p]
    <3>1. PICK i \in 1 .. Len(frag') : f = frag'[i]
      BY <2>1, FragmentsAre DEF ToSet
    <3>2. f \in Fragment /\ Fresh(f, latest', 0)
      BY <2>1, <3>1, FragmentsAre
    <3>3. f.offset \in Nat /\ End(f) \in Nat
      BY <3>2, FragmentIs
    <3>4. p \in Nat /\ f.offset <= p /\ p < End(f)
      BY <3>3
    <3> QED
      BY <3>2, <3>4 DEF Fresh
  <2> QED
    BY <2>2
<1>2. ASSUME NEW q \in Seq(Fragment), NEW p
      PROVE  p \in Held(q) <=> p \in Nat /\ HeldAt(q, p)
  <2>1. ASSUME p \in Held(q) PROVE p \in Nat /\ HeldAt(q, p)
    <3>1. PICK f \in ToSet(q) : p \in f.offset .. (End(f) - 1)
      BY <2>1 DEF Held
    <3>2. PICK i \in 1 .. Len(q) : f = q[i]
      BY FragmentsAre DEF ToSet
    <3>3. f.offset \in Nat /\ End(f) \in Nat
      BY <3>2, FragmentsAre, FragmentIs
    <3>4. p \in Nat /\ f.offset <= p /\ p < End(f)
      BY <3>1, <3>3
    <3> QED
      BY <3>2, <3>4 DEF HeldAt
  <2>2. ASSUME p \in Nat, HeldAt(q, p) PROVE p \in Held(q)
    <3>1. PICK i \in 1 .. Len(q) : q[i].offset <= p /\ p < End(q[i])
      BY <2>2 DEF HeldAt
    <3>2. q[i].offset \in Nat /\ End(q[i]) \in Nat /\ q[i] \in ToSet(q)
      BY FragmentsAre, FragmentIs DEF ToSet
    <3>3. p \in q[i].offset .. (End(q[i]) - 1)
      BY <2>2, <3>1, <3>2
    <3> QED
      BY <3>2, <3>3 DEF Held
  <2> QED
    BY <2>1, <2>2
<1>3. ASSUME FragmentsInv, FragmentsInv', Step PROVE Kept
  <2> SUFFICES ASSUME new # {}
               PROVE  /\ new \subseteq Held(frag')
                      /\ \A p \in Held(frag) : (\A n \in new : p < n) => p \in Held(frag')
    OBVIOUS
  <2>1. PICK o \in Offsets : \E data \in Seq(Bytes) :
          Adds(o, o + Len(data)) /\ Written(o, data) /\ o + Len(data) <= MaxEnd
    BY <1>3 DEF Step
  <2>2. PICK data \in Seq(Bytes) :
          Adds(o, o + Len(data)) /\ Written(o, data) /\ o + Len(data) <= MaxEnd
    BY <2>1
  <2>3. o \in Nat /\ Len(data) \in Nat /\ frag \in Seq(Fragment)
    BY <1>3, OffsetIs, LenProperties, InvIs
  <2>4. frag' \in Seq(Fragment)
    BY <1>3 DEF FragmentsInv, Sound
  <2>5. ASSUME NEW p \in new PROVE p \in Nat /\ o <= p /\ p < o + Len(data)
    <3>1. p \in Offsets /\ p \in Nat /\ latest'[p] # latest[p]
      BY OffsetIs
    <3>2. latest \in [Offsets -> Bytes \cup {NoByte}]
      BY <1>3, InvIs
    <3>3. latest'[p] = IF o <= p /\ p < o + Len(data) THEN data[p - o + 1] ELSE latest[p]
      BY <2>2, <3>1 DEF Written
    <3> QED
      BY <3>1, <3>3
  <2>6. \A x \in Nat : o <= x /\ x < o + Len(data) => x \in Held(frag')
    BY <1>2, <2>2, <2>4 DEF Adds
  <2>7. new \subseteq Held(frag')
    BY <2>5, <2>6
  <2>8. ASSUME NEW p \in Held(frag), \A n \in new : p < n PROVE p \in Held(frag')
    <3>1. p \in Nat /\ HeldAt(frag, p)
      BY <1>2, <2>3
    <3>2. PICK n : n \in new
      OBVIOUS
    <3>3. p < o + Len(data)
      BY <2>3, <2>5, <2>8, <3>1, <3>2
    <3>4. CASE p < o
      <4>1. HeldAt(frag', p)
        BY <2>2, <3>1, <3>4 DEF Adds
      <4> QED
        BY <1>2, <2>4, <3>1, <4>1
    <3>5. CASE ~(p < o)
      BY <2>3, <2>6, <3>1, <3>3, <3>5
    <3> QED
      BY <3>4, <3>5
  <2> QED
    BY <2>7, <2>8
<1>4. FragmentsInv /\ FragmentsInv' /\ Step =>
        [LET new1 == {p \in Offsets : latest'[p] # latest[p]}
         IN  /\ \A f \in ToSet(frag') : \A p \in f.offset .. (End(f) - 1) :
                  ByteAt(f, p) = latest'[p]
             /\ new1 # {} =>
                  /\ new1 \subseteq Held(frag')
                  /\ \A p \in Held(frag) : (\A n \in new1 : p < n) => p \in Held(frag')]_fragmentVars
  BY <1>1, <1>3
<1> QED
  BY <1>4, FragmentsStart, FragmentsStep, PTL DEF SpecFragments, LatestHeld

-----------------------------------------------------------------------------
(* What a collection deletes.                                              *)

\* f is the recursive function of Spared(q, size).
Sparing(f, q, size) ==
    f = [i \in 0 .. Len(q) |-> IF i = 0 THEN {} ELSE WithFitting(f[i - 1], q[i], size)]

\* What pass 3 has spared of the first n entries
SparedTo(q, size, n) == (CHOOSE f : Sparing(f, q, size))[n]

LEMMA SparedIs == ASSUME NEW q, NEW size PROVE Spared(q, size) = SparedTo(q, size, Len(q))
BY DEF Spared, SparedTo, Sparing

\* Entry by entry: no other is spared, and none twice.
LEMMA SparedSteps ==
    ASSUME NEW q \in Seq(Entries), NEW size
    PROVE  /\ SparedTo(q, size, 0) = {}
           /\ \A i \in 1 .. Len(q) :
                SparedTo(q, size, i) = WithFitting(SparedTo(q, size, i - 1), q[i], size)
           /\ \A i \in 0 .. Len(q) : SparedTo(q, size, i) \in SUBSET ToSet(q)
<1> DEFINE n == Len(q)
           V == SUBSET ToSet(q)
           step == [x \in (1 .. n) \X V |-> WithFitting(x[2], q[x[1]], size)]
<1>1. n \in Nat /\ DOMAIN q = 1 .. n /\ \A i \in 1 .. n : q[i] \in ToSet(q)
  BY DEF ToSet
<1>2. ASSUME NEW k \in V, NEW i \in 1 .. n
      PROVE  WithFitting(k, q[i], size) \in V
  BY <1>1 DEF WithFitting
<1>3. step \in [(1 .. n) \X V -> V]
  BY <1>2
<1>4. \A i \in 1 .. n, k \in V : step[<<i, k>>] = WithFitting(k, q[i], size)
  OBVIOUS
<1>5. {} \in V
  OBVIOUS
<1> HIDE DEF step, n, V
<1>6. PICK f : f \in [0 .. n -> V] /\ f[0] = {} /\ \A i \in 1 .. n : f[i] = step[<<i, f[i - 1]>>]
  <2>1. \E f : Stepwise(f, V, {}, n, step)
    BY <1>1, <1>3, <1>5, StepByStep, Zenon
  <2> QED
    BY <2>1 DEF Stepwise
<1>7. ASSUME NEW i \in 0 .. n
      PROVE  f[i] = IF i = 0 THEN {} ELSE WithFitting(f[i - 1], q[i], size)
  <2>1. CASE i = 0
    BY <1>6, <2>1
  <2>2. CASE i # 0
    <3>1. i \in 1 .. n /\ i - 1 \in 0 .. n
      BY <1>1, <2>2
    <3>2. f[i - 1] \in V
      BY <1>6, <3>1
    <3> QED
      BY <1>4, <1>6, <2>2, <3>1, <3>2
  <2> QED
    BY <2>1, <2>2
<1>8. Sparing(f, q, size)
  <2>1. f = [i \in 0 .. n |-> f[i]]
    BY <1>6
  <2> QED
    BY <1>7, <2>1 DEF Sparing, n
<1> DEFINE g == CHOOSE h : Sparing(h, q, size)
<1>9. Sparing(g, q, size)
  BY <1>8
<1>10. \A i \in 0 .. n : SparedTo(q, size, i) = g[i]
  BY DEF SparedTo
<1> HIDE DEF g
<1>11. \A i \in 0 .. n : g[i] = IF i = 0 THEN {} ELSE WithFitting(g[i - 1], q[i], size)
  BY <1>9 DEF Sparing, n
<1>12. 0 \in 0 .. n /\ \A i \in 1 .. n : i \in 0 .. n /\ i - 1 \in 0 .. n /\ i # 0
  BY <1>1
<1>13. g[0] = {} /\ \A i \in 1 .. n : g[i] = WithFitting(g[i - 1], q[i], size)
  BY <1>11, <1>12
<1>14. ASSUME \E i \in 0 .. n : g[i] \notin V PROVE FALSE
  <2> DEFINE T == {i \in 0 .. n : g[i] \notin V}
  <2>1. T \in SUBSET Nat /\ T # {}
    BY <1>1, <1>14
  <2> HIDE DEF T
  <2>2. PICK i \in T : \A m \in T : i <= m
    BY <2>1, Least
  <2>3. i \in 0 .. n /\ g[i] \notin V
    BY <2>2 DEF T
  <2>4. i # 0
    BY <1>5, <1>13, <2>3
  <2>5. i \in 1 .. n /\ i - 1 \in 0 .. n /\ ~(i <= i - 1)
    BY <1>1, <2>3, <2>4
  <2>6. g[i - 1] \in V
    BY <2>2, <2>5 DEF T
  <2>7. g[i] = WithFitting(g[i - 1], q[i], size)
    BY <1>13, <2>5
  <2> QED
    BY <1>2, <2>3, <2>5, <2>6, <2>7
<1> QED
  BY <1>10, <1>12, <1>13, <1>14 DEF n, V

\* What is spared stays spared, and together it fits.
LEMMA SparedGrows ==
    ASSUME NEW q \in Seq(Entries), NEW size,
           NEW i \in 0 .. Len(q), NEW j \in 0 .. Len(q), i <= j
    PROVE  SparedTo(q, size, i) \subseteq SparedTo(q, size, j)
<1> DEFINE K(m) == SparedTo(q, size, m)
           T == {m \in i .. Len(q) : ~(K(i) \subseteq K(m))}
<1>0. Len(q) \in Nat
  OBVIOUS
<1>1. SUFFICES ASSUME T # {} PROVE FALSE
  BY <1>0
<1>2. T \in SUBSET Nat
  BY <1>0
<1>3. PICK m \in T : \A k \in T : m <= k
  <2> HIDE DEF T
  <2> QED
    BY <1>1, <1>2, Least
<1>4. m \in i .. Len(q) /\ ~(K(i) \subseteq K(m))
  OBVIOUS
<1>5. m # i
  BY <1>4
<1>6. m \in 1 .. Len(q) /\ m - 1 \in i .. Len(q) /\ ~(m <= m - 1)
  BY <1>0, <1>4, <1>5
<1>7. K(i) \subseteq K(m - 1)
  BY <1>3, <1>6
<1>8. K(m) = WithFitting(K(m - 1), q[m], size)
  BY <1>6, SparedSteps
<1> HIDE DEF K
<1>9. K(m - 1) \subseteq K(m)
  BY <1>8 DEF WithFitting
<1> QED
  BY <1>4, <1>7, <1>9

\* The sizes of what a list holds
LEMMA Sizeable ==
    ASSUME EntryTyped, NEW q \in Seq(Entries), NEW S \in SUBSET ToSet(q)
    PROVE  /\ IsFiniteSet(S) /\ SizeOf(S) \in Nat
           /\ \A e \in ToSet(q) : entry[e].size \in Nat
           /\ \A T \in SUBSET S : SizeOf(T) \in Nat /\ SizeOf(S \ T) = SizeOf(S) - SizeOf(T)
           /\ \A e \in S : SizeOf(S) = entry[e].size + SizeOf(S \ {e})
<1>1. ToSet(q) \in SUBSET Entries /\ IsFiniteSet(ToSet(q))
  BY ListFinite
<1>2. \A e \in Entries : entry[e].size \in Nat
  BY SizesAssumption DEF EntryTyped, EntryRecord
<1>3. IsFiniteSet(S) /\ \A e \in S : entry[e].size \in Nat
  BY <1>1, <1>2, FS_Subset
<1>4. SizeOf(S) = Total(entry, S) /\ Total(entry, S) \in Nat
  BY <1>3, SizeIsTotal, TotalType
<1>5. ASSUME NEW T \in SUBSET S
      PROVE  SizeOf(T) \in Nat /\ SizeOf(S \ T) = SizeOf(S) - SizeOf(T)
  <2>1. SizeOf(T) = Total(entry, T) /\ SizeOf(S \ T) = Total(entry, S \ T)
    BY SizeIsTotal
  <2>2. Total(entry, T) \in Nat /\ Total(entry, S \ T) = Total(entry, S) - Total(entry, T)
    BY <1>3, TotalMinus
  <2> QED
    BY <1>4, <2>1, <2>2
<1>6. ASSUME NEW e \in S PROVE SizeOf(S) = entry[e].size + SizeOf(S \ {e})
  <2>1. SizeOf(S \ {e}) = Total(entry, S \ {e})
    BY SizeIsTotal
  <2>2. Total(entry, S) = entry[e].size + Total(entry, S \ {e})
    BY <1>3, TotalRest
  <2> QED
    BY <1>4, <2>1, <2>2
<1>7. \A e \in ToSet(q) : entry[e].size \in Nat
  BY <1>1, <1>2
<1> QED
  BY <1>3, <1>4, <1>5, <1>6, <1>7

\* Pass 3 spares no more than fits.
LEMMA SparedFits ==
    ASSUME EntryTyped, NEW q \in Seq(Entries), NEW size \in Nat, size <= GcSize, GcSize \in Nat,
           NEW n \in 0 .. Len(q)
    PROVE  size + SizeOf(SparedTo(q, size, n)) <= GcSize
<1> DEFINE K(m) == SparedTo(q, size, m)
           T == {m \in 0 .. Len(q) : ~(size + SizeOf(K(m)) <= GcSize)}
<1>0. Len(q) \in Nat
  OBVIOUS
<1>1. SUFFICES ASSUME T # {} PROVE FALSE
  BY <1>0
<1>2. T \in SUBSET Nat
  BY <1>0
<1>3. PICK m \in T : \A k \in T : m <= k
  <2> HIDE DEF T
  <2> QED
    BY <1>1, <1>2, Least
<1>4. m \in 0 .. Len(q) /\ ~(size + SizeOf(K(m)) <= GcSize)
  OBVIOUS
<1>5. m # 0
  <2>1. K(0) = {}
    BY SparedSteps
  <2>2. SizeOf({}) = 0
    BY SizeIsTotal, TotalStep, FS_EmptySet
  <2>3. size + 0 <= GcSize
    OBVIOUS
  <2>4. SizeOf(K(0)) = 0
    BY <2>1, <2>2
  <2> HIDE DEF K, T
  <2> QED
    BY <1>4, <2>3, <2>4
<1>6. m \in 1 .. Len(q) /\ m - 1 \in 0 .. Len(q) /\ ~(m <= m - 1)
  BY <1>0, <1>4, <1>5
<1>7. size + SizeOf(K(m - 1)) <= GcSize
  BY <1>3, <1>6
<1>8. K(m) = WithFitting(K(m - 1), q[m], size) /\ K(m - 1) \in SUBSET ToSet(q) /\ K(m) \in SUBSET ToSet(q)
  BY <1>4, <1>6, SparedSteps
<1> HIDE DEF K, T
<1>9. CASE q[m] \in K(m - 1) \/ size + SizeOf(K(m - 1)) + entry[q[m]].size > GcSize
  <2>1. K(m) = K(m - 1)
    BY <1>8, <1>9 DEF WithFitting
  <2> QED
    BY <1>4, <1>7, <2>1
<1>10. CASE q[m] \notin K(m - 1) /\ ~(size + SizeOf(K(m - 1)) + entry[q[m]].size > GcSize)
  <2>1. K(m) = K(m - 1) \cup {q[m]}
    BY <1>8, <1>10 DEF WithFitting
  <2>2. q[m] \in K(m) /\ K(m) \ {q[m]} = K(m - 1)
    BY <1>10, <2>1
  <2>3. SizeOf(K(m)) = entry[q[m]].size + SizeOf(K(m) \ {q[m]})
    BY <1>8, <2>2, Sizeable
  <2>4. /\ SizeOf(K(m - 1)) \in Nat /\ entry[q[m]].size \in Nat
    BY <1>8, <2>2, Sizeable
  <2>5. ~(size + (entry[q[m]].size + SizeOf(K(m - 1))) <= GcSize)
    BY <1>4, <2>2, <2>3
  <2> QED
    BY <1>10, <2>4, <2>5
<1> QED
  BY <1>9, <1>10

\* Of two entries of which pass 3 spares only the older one, that is smaller.
LEMMA SparedSmaller ==
    ASSUME EntryTyped, NEW q \in Seq(Entries), IsInjective(q), NEW size \in Nat,
           NEW i \in 1 .. Len(q), NEW j \in 1 .. Len(q), i < j, GcSize \in Nat,
           q[i] \notin SparedTo(q, size, Len(q)), q[j] \in SparedTo(q, size, Len(q))
    PROVE  entry[q[j]].size < entry[q[i]].size
<1> DEFINE K(m) == SparedTo(q, size, m)
<1>0. Len(q) \in Nat /\ DOMAIN q = 1 .. Len(q)
  OBVIOUS
<1>1. /\ i - 1 \in 0 .. Len(q) /\ j - 1 \in 0 .. Len(q) /\ i \in 0 .. Len(q) /\ j \in 0 .. Len(q)
      /\ Len(q) \in 0 .. Len(q) /\ i - 1 <= j - 1 /\ i <= Len(q)
  BY <1>0
<1>2. /\ K(i - 1) \subseteq K(j - 1) /\ K(i) \subseteq K(Len(q))
      /\ K(i - 1) \in SUBSET ToSet(q) /\ K(j - 1) \in SUBSET ToSet(q)
      /\ K(i) = WithFitting(K(i - 1), q[i], size) /\ K(j) = WithFitting(K(j - 1), q[j], size)
  <2>1. K(i - 1) \subseteq K(j - 1)
    BY <1>1, SparedGrows
  <2>2. K(i) \subseteq K(Len(q))
    BY <1>1, SparedGrows
  <2>3. /\ K(i - 1) \in SUBSET ToSet(q) /\ K(j - 1) \in SUBSET ToSet(q)
        /\ K(i) = WithFitting(K(i - 1), q[i], size) /\ K(j) = WithFitting(K(j - 1), q[j], size)
    BY <1>1, SparedSteps
  <2> QED
    BY <2>1, <2>2, <2>3
\* An entry is spared when it is looked at, or never.
<1>3. \A m \in 0 .. Len(q) : (q[j] \in K(m) <=> (j <= m /\ q[j] \in K(j)))
  <2> DEFINE T == {m \in 0 .. Len(q) : ~(q[j] \in K(m) <=> (j <= m /\ q[j] \in K(j)))}
  <2>1. SUFFICES ASSUME T # {} PROVE FALSE
    OBVIOUS
  <2>2. T \in SUBSET Nat
    BY <1>0
  <2>3. PICK m \in T : \A k \in T : m <= k
    <3> HIDE DEF T
    <3> QED
      BY <2>1, <2>2, Least
  <2>4. m \in 0 .. Len(q) /\ ~(q[j] \in K(m) <=> (j <= m /\ q[j] \in K(j)))
    OBVIOUS
  <2>5. m # 0
    <3>1. K(0) = {}
      BY SparedSteps
    <3> QED
      BY <2>4, <3>1
  <2>6. m \in 1 .. Len(q) /\ m - 1 \in 0 .. Len(q) /\ ~(m <= m - 1)
    BY <1>0, <2>4, <2>5
  <2>7. q[j] \in K(m - 1) <=> (j <= m - 1 /\ q[j] \in K(j))
    BY <2>3, <2>6
  <2>8. K(m) = WithFitting(K(m - 1), q[m], size)
    BY <2>6, SparedSteps
  <2>9. m # j
    BY <2>4
  <2>10. q[m] # q[j]
    BY <1>0, <2>6, <2>9 DEF IsInjective
  <2> HIDE DEF K, T
  <2>11. q[j] \in K(m) <=> q[j] \in K(m - 1)
    BY <2>8, <2>10 DEF WithFitting
  <2>12. j <= m <=> j <= m - 1
    BY <1>0, <2>6, <2>9
  <2> QED
    BY <2>4, <2>7, <2>11, <2>12
<1>4. q[j] \in K(j) /\ q[j] \notin K(j - 1) /\ q[i] \notin K(i)
  BY <1>0, <1>1, <1>2, <1>3
<1> HIDE DEF K
<1>5. size + SizeOf(K(i - 1)) + entry[q[i]].size > GcSize
  BY <1>2, <1>4 DEF WithFitting
<1>6. ~(size + SizeOf(K(j - 1)) + entry[q[j]].size > GcSize)
  BY <1>2, <1>4 DEF WithFitting
<1>7. /\ SizeOf(K(j - 1)) \in Nat /\ SizeOf(K(i - 1)) \in Nat
      /\ SizeOf(K(j - 1) \ K(i - 1)) = SizeOf(K(j - 1)) - SizeOf(K(i - 1))
      /\ SizeOf(K(j - 1) \ K(i - 1)) \in Nat
  BY <1>2, Sizeable
<1>8. entry[q[i]].size \in Nat /\ entry[q[j]].size \in Nat
  <2>1. q[i] \in ToSet(q) /\ q[j] \in ToSet(q)
    BY <1>0 DEF ToSet
  <2> QED
    BY <1>2, <2>1, Sizeable
<1> DEFINE a == SizeOf(K(i - 1))
           b == SizeOf(K(j - 1))
           c == SizeOf(K(j - 1) \ K(i - 1))
           x == entry[q[i]].size
           y == entry[q[j]].size
<1>9. /\ size + a + x > GcSize /\ ~(size + b + y > GcSize) /\ c = b - a
      /\ a \in Nat /\ b \in Nat /\ c \in Nat /\ x \in Nat /\ y \in Nat
  BY <1>5, <1>6, <1>7, <1>8
<1> HIDE DEF a, b, c, x, y
<1>10. y < x
  BY <1>9
<1> QED
  BY <1>10 DEF x, y

LEMMA GcSizeIs == GcSize \in Nat /\ GcSize <= OptSize
BY SizesAssumption DEF GcSize

\* The two parts of the list that pass 2 makes.
LEMMA PartsOf ==
    ASSUME NEW q \in Seq(Entries), IsInjective(q), NEW n \in 0 .. Len(q)
    PROVE  LET old == SubSeq(q, n + 1, Len(q))
           IN  /\ old \in Seq(Entries) /\ IsInjective(old) /\ Len(old) = Len(q) - n
               /\ \A i \in (n + 1) .. Len(q) : i - n \in 1 .. Len(old) /\ old[i - n] = q[i]
               /\ \A i \in 1 .. Len(q) : q[i] \in ToSet(old) => n < i
               /\ ToSet(old) \in SUBSET ToSet(q)
               /\ ToSet(SubSeq(q, 1, n)) = ToSet(q) \ ToSet(old)
<1> DEFINE old == SubSeq(q, n + 1, Len(q))
           new == SubSeq(q, 1, n)
<1>1. Len(q) \in Nat /\ n \in Nat /\ n <= Len(q) /\ DOMAIN q = 1 .. Len(q)
  OBVIOUS
<1>2. /\ old \in Seq(Entries) /\ Len(old) = Len(q) - n /\ DOMAIN old = 1 .. (Len(q) - n)
      /\ \A i \in 1 .. (Len(q) - n) : old[i] = q[n + i]
  OBVIOUS
<1>3. /\ DOMAIN new = 1 .. n /\ \A i \in 1 .. n : new[i] = q[i]
  OBVIOUS
<1> HIDE DEF old, new
<1>4. ASSUME NEW i \in (n + 1) .. Len(q)
      PROVE  i - n \in 1 .. Len(old) /\ old[i - n] = q[i]
  <2>1. i - n \in 1 .. (Len(q) - n) /\ n + (i - n) = i
    BY <1>1
  <2> QED
    BY <1>2, <2>1
<1>5. ASSUME NEW i \in 1 .. Len(q), q[i] \in ToSet(old) PROVE n < i
  <2>1. PICK k \in 1 .. (Len(q) - n) : old[k] = q[i]
    BY <1>2, <1>5 DEF ToSet
  <2>2. n + k \in 1 .. Len(q) /\ n < n + k /\ q[n + k] = q[i]
    BY <1>1, <1>2, <2>1
  <2>3. i = n + k
    BY <1>1, <2>2 DEF IsInjective
  <2> QED
    BY <2>2, <2>3
<1>6. IsInjective(old)
  <2> SUFFICES ASSUME NEW k \in DOMAIN old, NEW l \in DOMAIN old, old[k] = old[l]
               PROVE  k = l
    BY DEF IsInjective
  <2>1. k \in 1 .. (Len(q) - n) /\ l \in 1 .. (Len(q) - n)
    BY <1>2
  <2>2. n + k \in 1 .. Len(q) /\ n + l \in 1 .. Len(q) /\ q[n + k] = q[n + l]
    BY <1>1, <1>2, <2>1
  <2>3. n + k = n + l
    BY <1>1, <2>2 DEF IsInjective
  <2> QED
    BY <1>1, <2>1, <2>3
<1>7. ASSUME NEW k \in 1 .. (Len(q) - n) PROVE old[k] \in ToSet(q)
  <2>1. n + k \in DOMAIN q /\ old[k] = q[n + k]
    BY <1>1, <1>2
  <2> QED
    BY <2>1 DEF ToSet
<1>8. ToSet(old) \in SUBSET ToSet(q)
  BY <1>2, <1>7 DEF ToSet
<1>9. ASSUME NEW e \in ToSet(new) PROVE e \in ToSet(q) \ ToSet(old)
  <2>1. PICK i \in 1 .. n : e = q[i]
    BY <1>3 DEF ToSet
  <2>2. i \in DOMAIN q /\ i \in 1 .. Len(q) /\ ~(n < i)
    BY <1>1
  <2> QED
    BY <1>5, <2>1, <2>2 DEF ToSet
<1>10. ASSUME NEW e \in ToSet(q) \ ToSet(old) PROVE e \in ToSet(new)
  <2>1. PICK i \in 1 .. Len(q) : e = q[i]
    BY <1>1 DEF ToSet
  <2>2. CASE i \in (n + 1) .. Len(q)
    <3>1. i - n \in DOMAIN old /\ old[i - n] = e
      BY <1>2, <1>4, <2>1, <2>2
    <3> QED
      BY <3>1 DEF ToSet
  <2>3. CASE i \notin (n + 1) .. Len(q)
    <3>1. i \in 1 .. n
      BY <1>1, <2>3
    <3> QED
      BY <1>3, <2>1, <3>1 DEF ToSet
  <2> QED
    BY <2>2, <2>3
<1> QED
  BY <1>2, <1>4, <1>5, <1>6, <1>8, <1>9, <1>10 DEF old, new

\* A set of numbers with a bound has a greatest one.
LEMMA Greatest ==
    ASSUME NEW n \in Nat, NEW T \in SUBSET (0 .. n), T # {}
    PROVE  Max(T) \in T
<1> DEFINE R == {n - i : i \in T}
<1>0. \A i \in T : n - i \in Nat
  OBVIOUS
<1>1. R \in SUBSET Nat /\ R # {}
  BY <1>0
<1>2. PICK r \in R : \A m \in R : r <= m
  <2> HIDE DEF R
  <2> QED
    BY <1>1, Least
<1>3. PICK i \in T : r = n - i
  OBVIOUS
<1>4. ASSUME NEW j \in T PROVE i >= j
  <2>1. n - i <= n - j
    BY <1>2, <1>3
  <2>2. i \in 0 .. n /\ j \in 0 .. n
    OBVIOUS
  <2> QED
    BY <2>1, <2>2
<1> QED
  BY <1>4 DEF Max

\* Pass 2 stops where the newer entries that are not in use fit.
LEMMA StopIs ==
    ASSUME NEW q \in Seq(Entries), NEW locked
    PROVE  /\ Stop(q, locked, FALSE) \in 0 .. Len(q)
           /\ \/ Stop(q, locked, FALSE) = 0
              \/ SizeOf(Unused(SubSeq(q, 1, Stop(q, locked, FALSE)), locked)) <= GcSize
<1> DEFINE F == {i \in DOMAIN q : SizeOf(Unused(SubSeq(q, 1, i), locked)) <= GcSize}
           T == {0} \cup F
<1>1. Len(q) \in Nat /\ DOMAIN q = 1 .. Len(q)
  OBVIOUS
<1>2. T \in SUBSET (0 .. Len(q)) /\ T # {}
  BY <1>1
<1>3. Stop(q, locked, FALSE) = Max(T)
  BY DEF Stop
<1>4. \A i \in F : SizeOf(Unused(SubSeq(q, 1, i), locked)) <= GcSize
  OBVIOUS
<1>5. \A i \in T : i = 0 \/ i \in F
  OBVIOUS
<1> HIDE DEF T, F
<1>6. Max(T) \in T
  BY <1>1, <1>2, Greatest
<1> QED
  BY <1>2, <1>3, <1>4, <1>5, <1>6

\* What garbage_collection() leaves of what is not in use.
IdleFits(left, S) ==
    /\ SizeOf(left) <= OptSize \/ (cache_size <= OptSize /\ S = {})
    /\ S # {} => SizeOf(left) <= GcSize
SmallerStay(left, S) ==
    \A i, j \in DOMAIN lru :
        i < j /\ lru[i] \in S /\ lru[j] \in left => entry[lru[j]].size < entry[lru[i]].size

LEMMA Collecting ==
    ASSUME StoreInv, NEW locked, NEW S, S = Collected(lru, locked, FALSE)
    PROVE  IdleFits(Unused(lru, locked) \ S, S) /\ SmallerStay(Unused(lru, locked) \ S, S)
<1> DEFINE U == Unused(lru, locked)
           stop == Stop(lru, locked, FALSE)
           old == SubSeq(lru, stop + 1, Len(lru))
           size == SizeOf(U \ ToSet(old))
           K == Spared(old, size)
<1>1. /\ lru \in Seq(Entries) /\ IsInjective(lru) /\ EntryTyped
      /\ Len(lru) \in Nat /\ DOMAIN lru = 1 .. Len(lru)
  BY DEF StoreInv, ListTyped
<1>2. CASE cache_size <= OptSize \/ SizeOf(U) <= OptSize
  <2>1. S = {}
    BY <1>2 DEF Collected
  <2>2. U \ S = U
    BY <2>1
  <2> HIDE DEF U
  <2> QED
    BY <1>2, <2>1, <2>2 DEF IdleFits, SmallerStay, U
<1>3. CASE ~(cache_size <= OptSize \/ SizeOf(U) <= OptSize)
  <2>1. S = (U \cap ToSet(old)) \ K
    BY <1>3 DEF Collected
  <2>2. /\ stop \in 0 .. Len(lru)
        /\ stop = 0 \/ SizeOf(Unused(SubSeq(lru, 1, stop), locked)) <= GcSize
    BY <1>1, StopIs
  <2>3. U \in SUBSET ToSet(lru)
    BY DEF Unused
  <2> HIDE DEF stop
  <2>4. /\ old \in Seq(Entries) /\ IsInjective(old) /\ Len(old) = Len(lru) - stop
        /\ \A i \in (stop + 1) .. Len(lru) : i - stop \in 1 .. Len(old) /\ old[i - stop] = lru[i]
        /\ \A i \in 1 .. Len(lru) : lru[i] \in ToSet(old) => stop < i
        /\ ToSet(old) \in SUBSET ToSet(lru)
        /\ ToSet(SubSeq(lru, 1, stop)) = ToSet(lru) \ ToSet(old)
    BY <1>1, <2>2, PartsOf
  <2> HIDE DEF old
  <2>5. U \ ToSet(old) = Unused(SubSeq(lru, 1, stop), locked)
    BY <2>4 DEF Unused
  <2>6. GcSize \in Nat /\ GcSize <= OptSize
    BY GcSizeIs
  <2> HIDE DEF U
  <2>7. size \in Nat
    BY <1>1, <2>3, Sizeable
  <2>8. size <= GcSize
    <3>1. CASE stop = 0
      <4>1. SubSeq(lru, 1, 0) = <<>>
        BY <1>1
      <4>2. U \ ToSet(old) = {}
        BY <2>5, <3>1, <4>1 DEF Unused, ToSet
      <4>3. SizeOf({}) = 0
        BY SizeIsTotal, TotalStep, FS_EmptySet
      <4> QED
        BY <2>6, <4>2, <4>3
    <3> QED
      BY <2>2, <2>5, <3>1
  <2> HIDE DEF size
  <2>9. K = SparedTo(old, size, Len(old))
    BY SparedIs
  <2>10. Len(old) \in 0 .. Len(old)
    BY <2>4
  <2>11. K \in SUBSET ToSet(old) /\ size + SizeOf(K) <= GcSize
    <3>1. SparedTo(old, size, Len(old)) \in SUBSET ToSet(old)
      BY <2>4, <2>10, SparedSteps
    <3>2. size + SizeOf(K) <= GcSize
      BY <1>1, <2>4, <2>6, <2>7, <2>8, <2>9, <2>10, SparedFits
    <3> HIDE DEF K
    <3> QED
      BY <2>9, <3>1, <3>2
  <2> HIDE DEF K
  <2> DEFINE left == U \ S
  <2>12. SizeOf(left) <= GcSize
    <3> DEFINE N == U \ ToSet(old)
               X == U \cap K
    <3>1. left \in SUBSET ToSet(lru) /\ N \in SUBSET left /\ left \ N = X /\ X \in SUBSET K
      BY <2>1, <2>3, <2>11
    <3>2. size = SizeOf(N)
      BY DEF size
    <3> HIDE DEF left, N, X
    <3>3. SizeOf(left) \in Nat /\ SizeOf(N) \in Nat /\ SizeOf(left \ N) = SizeOf(left) - SizeOf(N)
      BY <1>1, <3>1, Sizeable
    <3>4. /\ SizeOf(K) \in Nat /\ SizeOf(X) \in Nat /\ SizeOf(K \ X) = SizeOf(K) - SizeOf(X)
          /\ SizeOf(K \ X) \in Nat
      BY <2>4, <2>11, <3>1, <1>1, Sizeable
    <3>5. SizeOf(X) = SizeOf(left) - size
      BY <3>1, <3>2, <3>3
    <3>6. SizeOf(X) <= SizeOf(K)
      BY <3>4
    <3> QED
      BY <2>6, <2>7, <2>11, <3>3, <3>4, <3>5, <3>6
  <2>13. SizeOf(left) <= OptSize
    <3>1. SizeOf(left) \in Nat
      BY <1>1, <2>3, Sizeable
    <3> QED
      BY <2>6, <2>12, <3>1, SizesAssumption
  <2>14. ASSUME NEW i \in DOMAIN lru, NEW j \in DOMAIN lru, i < j, lru[i] \in S, lru[j] \in left
         PROVE  entry[lru[j]].size < entry[lru[i]].size
    <3>1. lru[i] \in ToSet(old) /\ lru[i] \notin K
      BY <2>1, <2>14
    <3>2. i \in 1 .. Len(lru) /\ j \in 1 .. Len(lru) /\ stop \in Nat /\ stop < i
      BY <1>1, <2>2, <2>4, <3>1
    <3>3. i \in (stop + 1) .. Len(lru) /\ j \in (stop + 1) .. Len(lru) /\ i - stop < j - stop
      BY <2>14, <3>2
    <3>4. /\ i - stop \in 1 .. Len(old) /\ old[i - stop] = lru[i]
          /\ j - stop \in 1 .. Len(old) /\ old[j - stop] = lru[j]
      BY <2>4, <3>3
    <3>5. DOMAIN old = 1 .. Len(old)
      BY <2>4
    <3>6. lru[j] \in ToSet(old)
      BY <3>4, <3>5 DEF ToSet
    <3>7. lru[j] \in K
      BY <2>1, <2>14, <3>6
    <3> DEFINE k == i - stop
               l == j - stop
    <3>a. old[k] = lru[i] /\ old[l] = lru[j]
      BY <3>4
    <3>8. /\ k \in 1 .. Len(old) /\ l \in 1 .. Len(old) /\ k < l
          /\ old[k] \notin SparedTo(old, size, Len(old)) /\ old[l] \in SparedTo(old, size, Len(old))
      BY <2>9, <3>1, <3>3, <3>4, <3>7
    <3> HIDE DEF k, l
    <3>9. entry[old[l]].size < entry[old[k]].size
      BY <1>1, <2>4, <2>6, <2>7, <3>8, SparedSmaller
    <3> QED
      BY <3>a, <3>9
  <2>15. IdleFits(left, S) /\ SmallerStay(left, S)
    <3> HIDE DEF left
    <3> QED
      BY <2>12, <2>13, <2>14 DEF IdleFits, SmallerStay
  <2> QED
    BY <2>15 DEF U
<1> QED
  BY <1>2, <1>3

LEMMA ShrinkingCollects ==
    ASSUME StoreInv, ShrinkMemory(FALSE)
    PROVE  \E S : /\ IdleFits(Unused(lru, docs') \ S, S) /\ SmallerStay(Unused(lru, docs') \ S, S)
                  /\ ToSet(lru') = ToSet(lru) \ S /\ S \in SUBSET ToSet(lru)
                  /\ \A x \in Entries \ S : entry'[x] = entry[x]
                  /\ S = {} => lru' = lru /\ cache_size' = cache_size
<1>1. PICK freed \in SUBSET docs :
          docs' = docs \ freed /\ Deleted(lru, Collected(lru, docs \ freed, FALSE))
  BY DEF ShrinkMemory, ShrinkMemoryFrom
<1> DEFINE S == Collected(lru, docs', FALSE)
<1>2. S \in SUBSET ToSet(lru)
  BY CollectedUnused
<1>3. Deleted(lru, S)
  BY <1>1
<1>4. IdleFits(Unused(lru, docs') \ S, S) /\ SmallerStay(Unused(lru, docs') \ S, S)
  BY Collecting
<1> HIDE DEF S
<1>5. lru \in Seq(Entries) /\ IsInjective(lru) /\ Accounted /\ ListTyped /\ EntryTyped
  BY DEF StoreInv, ListTyped
<1>6. ToSet(lru') = ToSet(lru) \ S /\ \A x \in Entries \ S : entry'[x] = entry[x]
  BY <1>2, <1>3, <1>5, Deletion
<1>7. ASSUME S = {} PROVE lru' = lru /\ cache_size' = cache_size
  <2>1. lru' = lru
    BY <1>3, <1>7 DEF Deleted, Without
  <2>2. cache_size' = cache_size - SizeOf({})
    BY <1>3, <1>7 DEF Deleted
  <2>3. SizeOf({}) = 0
    BY SizeIsTotal, TotalStep, FS_EmptySet
  <2>4. cache_size \in Nat
    BY <1>5, Sizeable DEF Accounted
  <2> QED
    BY <2>1, <2>2, <2>3, <2>4
<1> QED
  BY <1>2, <1>4, <1>6, <1>7

\* A collection keeps what is in use, and of what is not as much as fits, the
\* newest first.
THEOREM CollectsTheOldest == Spec => OldestCollected
<1> DEFINE Spare == {e \in ToSet(lru') : e \notin docs' /\ ~IsEntryUsed(e)}
           size == MapThenSumSet(LAMBDA e : entry'[e].size, Spare)
           Good == /\ size <= OptSize \/ cache_size' <= OptSize
                   /\ lru' # lru => size <= GcSize
                   /\ \A i, j \in DOMAIN lru :
                        i < j /\ lru[i] \notin ToSet(lru') /\ lru[j] \in Spare
                          => entry[lru[j]].size < entry[lru[i]].size
<1>1. ASSUME StoreInv, ShrinkMemory(FALSE) PROVE Good
  <2>1. PICK S :
          /\ IdleFits(Unused(lru, docs') \ S, S) /\ SmallerStay(Unused(lru, docs') \ S, S)
          /\ ToSet(lru') = ToSet(lru) \ S /\ S \in SUBSET ToSet(lru)
          /\ \A x \in Entries \ S : entry'[x] = entry[x]
          /\ S = {} => lru' = lru /\ cache_size' = cache_size
    BY <1>1, ShrinkingCollects
  <2>2. Spare = Unused(lru, docs') \ S /\ Spare \in SUBSET ToSet(lru)
    BY <2>1 DEF Unused, InUse
  <2>3. size = Total(entry', Spare)
    BY DEF Total, Sums, Pick, MapThenSumSet, MapThenFoldSet
  <2> HIDE DEF Spare, size
  <2>4. /\ ToSet(lru) \in SUBSET Entries /\ IsFiniteSet(ToSet(lru))
        /\ \A i \in DOMAIN lru : lru[i] \in ToSet(lru)
    BY <1>1, Listed DEF StoreInv
  <2>5. size = SizeOf(Spare)
    <3>1. IsFiniteSet(Spare)
      BY <2>2, <2>4, FS_Subset
    <3>2. \A x \in Spare : entry'[x].size = entry[x].size
      BY <2>1, <2>2, <2>4
    <3>3. Total(entry', Spare) = Total(entry, Spare)
      BY <3>1, <3>2, TotalFrame
    <3> QED
      BY <2>3, <3>3, SizeIsTotal
  <2>6. IdleFits(Spare, S) /\ SmallerStay(Spare, S)
    BY <2>1, <2>2
  <2>7. /\ size <= OptSize \/ cache_size' <= OptSize
        /\ lru' # lru => size <= GcSize
    BY <2>1, <2>5, <2>6 DEF IdleFits
  <2>8. \A i, j \in DOMAIN lru :
          i < j /\ lru[i] \notin ToSet(lru') /\ lru[j] \in Spare
            => entry[lru[j]].size < entry[lru[i]].size
    <3>1. \A i \in DOMAIN lru : lru[i] \notin ToSet(lru') => lru[i] \in S
      BY <2>1, <2>4
    <3> QED
      BY <2>6, <3>1 DEF SmallerStay
  <2> QED
    BY <2>7, <2>8
<1>2. StoreInv => [ShrinkMemory(FALSE) => Good]_vars
  <2> HIDE DEF Good
  <2> QED
    BY <1>1
<1> QED
  BY <1>2, StoreKept, PTL DEF OldestCollected
=============================================================================
