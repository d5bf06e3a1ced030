---------------------------- MODULE DomainProofs ----------------------------
(***************************************************************************)
(* Stable sorting loses and invents nothing (Ordering), and what the       *)
(* policy functions of Domain return: the types of their results, which    *)
(* highlights are shown, what a handler says of a sensor, for every input  *)
(* of theirs.                                                              *)
(***************************************************************************)
EXTENDS Domain, SequencesExt, FiniteSetTheorems, FunctionTheorems, WellFoundedInduction, TLAPS

(* A set of naturals that is not empty has a least element. *)
LEMMA LeastNatural ==
  ASSUME NEW T \in SUBSET Nat, T # {}
  PROVE  \E m \in T : \A i \in T : m <= i
<1> DEFINE Segments == {1 .. i : i \in T}
<1>1. Segments \subseteq FiniteSubsetsOf(Nat)
  BY FS_Interval DEF FiniteSubsetsOf
<1>2. Segments # {}
  OBVIOUS
<1>3. IsWellFoundedOn(StrictSubsetOrdering(Nat), FiniteSubsetsOf(Nat))
  BY FS_StrictSubsetOrderingWellFounded
<1> HIDE DEF Segments
<1>4. PICK U \in Segments : \A V \in Segments : <<V, U>> \notin StrictSubsetOrdering(Nat)
  BY <1>1, <1>2, <1>3, WFMin
<1>5. PICK m \in T : U = 1 .. m
  BY DEF Segments
<1>6. ASSUME NEW i \in T, i < m
      PROVE  FALSE
  <2>1. <<1 .. i, 1 .. m>> \in StrictSubsetOrdering(Nat)
    <3>1. 1 .. i \in SUBSET Nat /\ 1 .. m \in SUBSET Nat /\ 1 .. i \subseteq 1 .. m
      BY <1>6
    <3>2. m \in 1 .. m /\ m \notin 1 .. i
      BY <1>6
    <3> QED
      BY <3>1, <3>2 DEF StrictSubsetOrdering
  <2>2. 1 .. i \in Segments
    BY DEF Segments
  <2> QED
    BY <2>1, <2>2, <1>4, <1>5
<1> QED
  BY <1>6

(***************************************************************************)
(* Keys of one length: KeyLess is a strict total order.                    *)
(***************************************************************************)
Keys(n) == [1 .. n -> Nat]

(* Of two different keys one is less: the first place they differ decides. *)
LEMMA KeyTotal ==
  ASSUME NEW n \in Nat, NEW a \in Keys(n), NEW b \in Keys(n), a # b
  PROVE  KeyLess(a, b) \/ KeyLess(b, a)
<1> DEFINE Differ == {i \in 1 .. n : a[i] # b[i]}
<1>1. Differ \in SUBSET Nat /\ Differ # {}
  BY DEF Keys
<1>2. PICK m \in Differ : \A i \in Differ : m <= i
  BY <1>1, LeastNatural
<1>3. \A j \in 1 .. (m - 1) : a[j] = b[j]
  BY <1>2
<1>4. a[m] < b[m] \/ b[m] < a[m]
  BY DEF Keys
<1> QED
  BY <1>3, <1>4 DEF KeyLess, Keys

(* No key is less than itself. *)
LEMMA KeyIrreflexive ==
  ASSUME NEW n \in Nat, NEW a \in Keys(n)
  PROVE  ~KeyLess(a, a)
BY DEF KeyLess, Keys

(* A key that is not less than another does not start with less.            *)
LEMMA KeyFirst ==
  ASSUME NEW n \in Nat \ {0}, NEW a \in Keys(n), NEW b \in Keys(n), ~KeyLess(a, b)
  PROVE  b[1] <= a[1]
<1>1. 1 \in DOMAIN a /\ a[1] \in Nat /\ b[1] \in Nat /\ 1 .. (1 - 1) = {}
  BY DEF Keys
<1>2. a[1] < b[1] => KeyLess(a, b)
  BY <1>1 DEF KeyLess
<1> QED
  BY <1>1, <1>2

(* Less-than on keys is transitive: the earlier of the two places decides. *)
LEMMA KeyTransitive ==
  ASSUME NEW n \in Nat, NEW a \in Keys(n), NEW b \in Keys(n), NEW c \in Keys(n),
         KeyLess(a, b), KeyLess(b, c)
  PROVE  KeyLess(a, c)
<1>1. PICK i \in 1 .. n : a[i] < b[i] /\ \A j \in 1 .. (i - 1) : a[j] = b[j]
  BY DEF KeyLess, Keys
<1>2. PICK k \in 1 .. n : b[k] < c[k] /\ \A j \in 1 .. (k - 1) : b[j] = c[j]
  BY DEF KeyLess, Keys
<1>3. CASE i <= k
  <2>1. a[i] < c[i]
    BY <1>1, <1>2, <1>3 DEF Keys
  <2>2. \A j \in 1 .. (i - 1) : a[j] = c[j]
    BY <1>1, <1>2, <1>3
  <2> QED
    BY <2>1, <2>2 DEF KeyLess, Keys
<1>4. CASE k < i
  <2>1. a[k] < c[k]
    BY <1>1, <1>2, <1>4 DEF Keys
  <2>2. \A j \in 1 .. (k - 1) : a[j] = c[j]
    BY <1>1, <1>2, <1>4
  <2> QED
    BY <2>1, <2>2 DEF KeyLess, Keys
<1> QED
  BY <1>3, <1>4

(***************************************************************************)
(* GoesBefore orders the indices: keys first, then places.                 *)
(***************************************************************************)

(* Of two different indices exactly one goes before the other. *)
LEMMA BeforeTotal ==
  ASSUME NEW n \in Nat, NEW K \in SUBSET Nat, NEW key \in [K -> Keys(n)],
         NEW i \in K, NEW j \in K, i # j
  PROVE  GoesBefore(key, i, j) \/ GoesBefore(key, j, i)
<1>1. key[i] \in Keys(n) /\ key[j] \in Keys(n)
  OBVIOUS
<1>2. CASE key[i] = key[j]
  BY <1>2 DEF GoesBefore
<1>3. CASE key[i] # key[j]
  BY <1>1, <1>3, KeyTotal DEF GoesBefore
<1> QED
  BY <1>2, <1>3

(* No index goes before itself. *)
LEMMA BeforeIrreflexive ==
  ASSUME NEW n \in Nat, NEW K \in SUBSET Nat, NEW key \in [K -> Keys(n)], NEW i \in K
  PROVE  ~GoesBefore(key, i, i)
<1>1. key[i] \in Keys(n)
  OBVIOUS
<1> QED
  BY <1>1, KeyIrreflexive DEF GoesBefore

(* What goes before an index that goes before another goes before it too. *)
LEMMA BeforeTransitive ==
  ASSUME NEW n \in Nat, NEW K \in SUBSET Nat, NEW key \in [K -> Keys(n)],
         NEW h \in K, NEW i \in K, NEW j \in K,
         GoesBefore(key, h, i), GoesBefore(key, i, j)
  PROVE  GoesBefore(key, h, j)
<1>1. key[h] \in Keys(n) /\ key[i] \in Keys(n) /\ key[j] \in Keys(n)
  OBVIOUS
<1>2. CASE key[h] = key[i] /\ h < i
  BY <1>2 DEF GoesBefore
<1>3. CASE key[i] = key[j] /\ i < j
  BY <1>3 DEF GoesBefore
<1>4. CASE KeyLess(key[h], key[i]) /\ KeyLess(key[i], key[j])
  BY <1>1, <1>4, KeyTransitive DEF GoesBefore
<1> QED
  BY <1>2, <1>3, <1>4 DEF GoesBefore

(* Ranks number the indices from 0 without gaps or repetitions: an index   *)
(* that goes before another has the smaller rank, and each number below    *)
(* Cardinality(K) is the rank of some index.                               *)
LEMMA RankNumbers ==
  ASSUME NEW n \in Nat, NEW K \in SUBSET Nat, IsFiniteSet(K), NEW key \in [K -> Keys(n)]
  PROVE  /\ \A i \in K : Rank(K, key, i) \in 0 .. (Cardinality(K) - 1)
         /\ \A i, j \in K : GoesBefore(key, i, j) => Rank(K, key, i) < Rank(K, key, j)
         /\ \A r \in 0 .. (Cardinality(K) - 1) : \E i \in K : Rank(K, key, i) = r
<1> DEFINE Before(i) == {h \in K : GoesBefore(key, h, i)}
<1> DEFINE rank == [i \in K |-> Rank(K, key, i)]
<1> DEFINE c == Cardinality(K)
<1>1. c \in Nat
  BY FS_CardinalityType
<1>2. ASSUME NEW i \in K
      PROVE  IsFiniteSet(Before(i)) /\ Cardinality(Before(i)) \in Nat /\ i \notin Before(i)
  <2>1. IsFiniteSet(Before(i))
    BY FS_Subset
  <2>2. i \notin Before(i)
    BY BeforeIrreflexive
  <2> QED
    BY <2>1, <2>2, FS_CardinalityType
<1>3. ASSUME NEW i \in K
      PROVE  Rank(K, key, i) \in 0 .. (c - 1)
  <2>1. IsFiniteSet(K \ {i}) /\ Cardinality(K \ {i}) = c - 1
    BY FS_RemoveElement
  <2>2. Before(i) \in SUBSET (K \ {i})
    BY <1>2
  <2>3. Cardinality(Before(i)) <= Cardinality(K \ {i})
    BY <2>1, <2>2, FS_Subset
  <2> QED
    BY <1>1, <1>2, <2>1, <2>3 DEF Rank
<1>4. ASSUME NEW i \in K, NEW j \in K, GoesBefore(key, i, j)
      PROVE  Rank(K, key, i) < Rank(K, key, j)
  <2>1. Before(i) \cup {i} \in SUBSET Before(j)
    BY <1>4, BeforeTransitive
  <2>2. Cardinality(Before(i) \cup {i}) = Cardinality(Before(i)) + 1
    BY <1>2, FS_AddElement
  <2>3. Cardinality(Before(i) \cup {i}) <= Cardinality(Before(j))
    BY <1>2, <2>1, FS_Subset
  <2> QED
    BY <1>2, <2>2, <2>3 DEF Rank
<1>5. rank \in [K -> 0 .. (c - 1)]
  BY <1>3
<1>6. ASSUME NEW i \in K, NEW j \in K, rank[i] = rank[j]
      PROVE  i = j
  <2>1. SUFFICES ASSUME i # j PROVE FALSE
    OBVIOUS
  <2>2. CASE GoesBefore(key, i, j)
    <3>1. rank[i] < rank[j]
      BY <1>4, <2>2
    <3> QED
      BY <3>1, <1>3, <1>6
  <2>3. CASE GoesBefore(key, j, i)
    <3>1. rank[j] < rank[i]
      BY <1>4, <2>3
    <3> QED
      BY <3>1, <1>3, <1>6
  <2> QED
    BY <2>1, <2>2, <2>3, BeforeTotal
<1>7. rank \in Injection(K, 0 .. (c - 1))
  BY <1>5, <1>6, Fun_IsInj
<1>8. IsFiniteSet(0 .. (c - 1)) /\ Cardinality(0 .. (c - 1)) = c
  BY <1>1, FS_Interval
<1>9. rank \in Surjection(K, 0 .. (c - 1))
  BY <1>7, <1>8, FS_Injection
<1>10. \A r \in 0 .. (c - 1) : \E i \in K : rank[i] = r
  <2> HIDE DEF rank, c
  <2> QED
    BY <1>9, Fun_SurjectionProperties
<1> QED
  BY <1>3, <1>4, <1>10

(***************************************************************************)
(* The results.                                                            *)
(***************************************************************************)

(* Sorting loses and invents nothing: StableOrder lists each index of K    *)
(* exactly once, and an index that goes before another comes before it.    *)
THEOREM StableOrderIsBijection ==
  ASSUME NEW n \in Nat, NEW K \in SUBSET Nat, IsFiniteSet(K), NEW key \in [K -> Keys(n)]
  PROVE  /\ StableOrder(K, key) \in Bijection(1 .. Cardinality(K), K)
         /\ \A k, l \in 1 .. Cardinality(K) :
              k < l => GoesBefore(key, StableOrder(K, key)[k], StableOrder(K, key)[l])
<1> DEFINE order == StableOrder(K, key)
<1> DEFINE c == Cardinality(K)
<1>1. c \in Nat
  BY FS_CardinalityType
<1>2. ASSUME NEW k \in 1 .. c
      PROVE  order[k] \in K /\ Rank(K, key, order[k]) = k - 1
  <2>1. k - 1 \in 0 .. (c - 1)
    BY <1>1
  <2>2. \E i \in K : Rank(K, key, i) = k - 1
    BY <2>1, RankNumbers
  <2> QED
    BY <2>2 DEF StableOrder
<1>3. order \in [1 .. c -> K]
  <2>1. order = [k \in 1 .. c |-> order[k]]
    BY DEF StableOrder
  <2> HIDE DEF order
  <2> QED
    BY <1>2, <2>1
<1>4. \A k, l \in 1 .. c : order[k] = order[l] => k = l
  <2> HIDE DEF order
  <2> QED
    BY <1>1, <1>2
<1>5. ASSUME NEW i \in K
      PROVE  \E k \in 1 .. c : order[k] = i
  <2>1. Rank(K, key, i) \in 0 .. (c - 1)
    BY RankNumbers
  <2> DEFINE k == Rank(K, key, i) + 1
  <2>2. k \in 1 .. c
    BY <1>1, <2>1
  <2>3. order[k] \in K /\ Rank(K, key, order[k]) = Rank(K, key, i)
    BY <1>2, <2>1, <2>2
  <2>4. order[k] = i
    <3> HIDE DEF order, k
    <3>1. SUFFICES ASSUME order[k] # i PROVE FALSE
      OBVIOUS
    <3>2. GoesBefore(key, order[k], i) \/ GoesBefore(key, i, order[k])
      BY <2>3, <3>1, BeforeTotal
    <3>3. Rank(K, key, order[k]) < Rank(K, key, i) \/ Rank(K, key, i) < Rank(K, key, order[k])
      BY <2>3, <3>2, RankNumbers
    <3> QED
      BY <2>1, <2>3, <3>3
  <2> QED
    BY <2>2, <2>4
<1>6. order \in Bijection(1 .. c, K)
  <2> HIDE DEF order
  <2> QED
    BY <1>3, <1>4, <1>5, Fun_IsBij
<1>7. ASSUME NEW k \in 1 .. c, NEW l \in 1 .. c, k < l
      PROVE  GoesBefore(key, order[k], order[l])
  <2> HIDE DEF order
  <2>1. order[k] # order[l]
    BY <1>1, <1>4, <1>7
  <2>2. GoesBefore(key, order[k], order[l]) \/ GoesBefore(key, order[l], order[k])
    BY <1>2, <2>1, BeforeTotal
  <2>3. ~GoesBefore(key, order[l], order[k])
    <3>1. SUFFICES ASSUME GoesBefore(key, order[l], order[k]) PROVE FALSE
      OBVIOUS
    <3>2. Rank(K, key, order[l]) < Rank(K, key, order[k])
      BY <1>2, <3>1, RankNumbers
    <3> QED
      BY <1>1, <1>2, <1>7, <3>2
  <2> QED
    BY <2>2, <2>3
<1> QED
  BY <1>6, <1>7

(* A sorted sequence has the elements of the original, each as often, in   *)
(* an order in which no element comes before one of a smaller key.         *)
THEOREM SortByKeySorts ==
  ASSUME NEW n \in Nat, NEW S, NEW s \in Seq(S), NEW key \in [DOMAIN s -> Keys(n)]
  PROVE  /\ SortByKey(s, key) \in Seq(S)
         /\ Len(SortByKey(s, key)) = Len(s)
         /\ \E p \in Bijection(DOMAIN s, DOMAIN s) :
              /\ SortByKey(s, key) = [k \in DOMAIN s |-> s[p[k]]]
              /\ \A k, l \in DOMAIN s : k < l => ~KeyLess(key[p[l]], key[p[k]])
<1> DEFINE p == StableOrder(DOMAIN s, key)
<1>1. DOMAIN s = 1 .. Len(s) /\ Len(s) \in Nat
  OBVIOUS
<1>2. DOMAIN s \in SUBSET Nat /\ IsFiniteSet(DOMAIN s) /\ Cardinality(DOMAIN s) = Len(s)
  <2>1. IsFiniteSet(1 .. Len(s)) /\ Cardinality(1 .. Len(s)) = Len(s)
    <3> DEFINE l == Len(s)
    <3>1. l \in Nat
      BY <1>1
    <3> HIDE DEF l
    <3>2. IsFiniteSet(1 .. l) /\ Cardinality(1 .. l) = l
      BY <3>1, FS_Interval
    <3> QED
      BY <3>2 DEF l
  <2>2. 1 .. Len(s) \in SUBSET Nat
    BY <1>1
  <2> QED
    BY <1>1, <2>1, <2>2
<1>3. /\ p \in Bijection(DOMAIN s, DOMAIN s)
      /\ \A k, l \in DOMAIN s : k < l => GoesBefore(key, p[k], p[l])
  BY <1>1, <1>2, StableOrderIsBijection
<1>4. p \in [DOMAIN s -> DOMAIN s]
  BY <1>3, Fun_BijectionProperties
<1>5. SortByKey(s, key) = [k \in DOMAIN s |-> s[p[k]]]
  BY DEF SortByKey
<1> HIDE DEF p
<1>6. SortByKey(s, key) \in Seq(S) /\ Len(SortByKey(s, key)) = Len(s)
  BY <1>1, <1>4, <1>5
<1>7. ASSUME NEW k \in DOMAIN s, NEW l \in DOMAIN s, k < l
      PROVE  ~KeyLess(key[p[l]], key[p[k]])
  <2>1. GoesBefore(key, p[k], p[l]) /\ p[k] \in DOMAIN s /\ p[l] \in DOMAIN s
    BY <1>3, <1>4, <1>7
  <2>2. key[p[k]] \in Keys(n) /\ key[p[l]] \in Keys(n)
    BY <2>1
  <2>3. CASE KeyLess(key[p[k]], key[p[l]])
    BY <2>2, <2>3, KeyTransitive, KeyIrreflexive
  <2>4. CASE key[p[k]] = key[p[l]]
    BY <2>2, <2>4, KeyIrreflexive
  <2> QED
    BY <2>1, <2>3, <2>4 DEF GoesBefore
<1> QED
  BY <1>3, <1>5, <1>6, <1>7

(* Neighbours in order are a whole list in order.                          *)
LEMMA NeighboursSuffice ==
  ASSUME NEW n \in Nat, NEW m \in Nat, NEW key \in [1 .. m -> Keys(n)],
         \A i \in 2 .. m : ~KeyLess(key[i], key[i - 1])
  PROVE  \A i, j \in 1 .. m : i < j => ~KeyLess(key[j], key[i])
<1> DEFINE Wrong == {j \in 1 .. m : \E i \in 1 .. m : i < j /\ KeyLess(key[j], key[i])}
<1>1. ASSUME Wrong # {}
      PROVE  FALSE
  <2>1. Wrong \in SUBSET Nat
    OBVIOUS
  <2>2. PICK j \in Wrong : \A l \in Wrong : j <= l
    BY <1>1, <2>1, LeastNatural
  <2>3. PICK i \in 1 .. m : i < j /\ KeyLess(key[j], key[i])
    BY <2>2
  <2>4. j \in 2 .. m /\ j - 1 \in 1 .. m /\ j - 1 \notin Wrong /\ i # j
    BY <2>2, <2>3
  <2>5. ~KeyLess(key[j], key[j - 1])
    BY <2>4
  <2>6. i < j - 1
    BY <2>3, <2>4, <2>5
  <2>7. ~KeyLess(key[j - 1], key[i])
    BY <2>4, <2>6
  <2>8. key[i] \in Keys(n) /\ key[j] \in Keys(n) /\ key[j - 1] \in Keys(n)
    BY <2>4
  <2>9. KeyLess(key[i], key[j - 1])
    BY <2>3, <2>5, <2>7, <2>8, KeyTotal
  <2> QED
    BY <2>3, <2>5, <2>8, <2>9, KeyTransitive
<1> QED
  BY <1>1

(* A bijection of 1 .. m that keeps the order leaves everything in place.  *)
LEMMA OnlyIdentityAscends ==
  ASSUME NEW m \in Nat, NEW p \in Bijection(1 .. m, 1 .. m),
         \A k, l \in 1 .. m : k < l => p[k] < p[l]
  PROVE  \A k \in 1 .. m : p[k] = k
<1> DEFINE Moved == {k \in 1 .. m : p[k] # k}
<1>1. p \in [1 .. m -> 1 .. m] /\ \A j \in 1 .. m : \E k \in 1 .. m : p[k] = j
  <2> DEFINE D == 1 .. m
  <2>1. p \in Bijection(D, D)
    OBVIOUS
  <2> HIDE DEF D
  <2>2. p \in [D -> D] /\ \A j \in D : \E k \in D : p[k] = j
    BY <2>1, Fun_BijectionProperties
  <2> QED
    BY <2>2 DEF D
<1>2. ASSUME Moved # {}
      PROVE  FALSE
  <2>1. Moved \in SUBSET Nat
    OBVIOUS
  <2>2. PICK k \in Moved : \A l \in Moved : k <= l
    BY <1>2, <2>1, LeastNatural
  <2>3. \A j \in 1 .. m : j < k => p[j] = j
    BY <2>2
  <2>4. PICK l \in 1 .. m : p[l] = k
    BY <1>1, <2>2
  <2>5. l # k /\ ~(l < k) /\ k < l
    BY <2>2, <2>3, <2>4
  <2>6. p[k] < k
    BY <2>2, <2>4, <2>5
  <2>7. p[k] \in 1 .. m /\ p[p[k]] = p[k]
    BY <1>1, <2>2, <2>3, <2>6
  <2> QED
    BY <2>2, <2>6, <2>7
<1> QED
  BY <1>2

(* A list whose keys are in order is left as it is by the sort.            *)
THEOREM SortedIsKept ==
  ASSUME NEW n \in Nat, NEW S, NEW s \in Seq(S), NEW key \in [DOMAIN s -> Keys(n)],
         \A i \in 2 .. Len(s) : ~KeyLess(key[i], key[i - 1])
  PROVE  SortByKey(s, key) = s
<1> DEFINE m == Len(s)
           p == StableOrder(1 .. m, key)
<1>1. m \in Nat /\ DOMAIN s = 1 .. m
  OBVIOUS
<1>2. SortByKey(s, key) = [k \in 1 .. m |-> s[p[k]]]
  BY <1>1 DEF SortByKey
<1>3. key \in [1 .. m -> Keys(n)] /\ \A i \in 2 .. m : ~KeyLess(key[i], key[i - 1])
  BY <1>1
<1> HIDE DEF m
<1>4. \A i, j \in 1 .. m : i < j => ~KeyLess(key[j], key[i])
  BY <1>1, <1>3, NeighboursSuffice
<1>5. IsFiniteSet(1 .. m) /\ Cardinality(1 .. m) = m /\ 1 .. m \in SUBSET Nat
  BY <1>1, FS_Interval
<1>6. /\ p \in Bijection(1 .. m, 1 .. m)
      /\ \A k, l \in 1 .. m : k < l => GoesBefore(key, p[k], p[l])
  BY <1>3, <1>5, StableOrderIsBijection
<1>7. p \in [1 .. m -> 1 .. m]
  <2> DEFINE D == 1 .. m
  <2>1. p \in Bijection(D, D)
    BY <1>6
  <2> HIDE DEF D, p
  <2>2. p \in [D -> D]
    BY <2>1, Fun_BijectionProperties
  <2> QED
    BY <2>2 DEF D
<1> HIDE DEF p
<1>8. ASSUME NEW k \in 1 .. m, NEW l \in 1 .. m, k < l
      PROVE  p[k] < p[l]
  <2>1. GoesBefore(key, p[k], p[l]) /\ p[k] \in 1 .. m /\ p[l] \in 1 .. m
    BY <1>6, <1>7, <1>8
  <2>2. CASE KeyLess(key[p[k]], key[p[l]])
    <3>1. p[k] # p[l]
      BY <1>3, <2>1, <2>2, KeyIrreflexive
    <3>2. ~(p[l] < p[k])
      BY <1>4, <2>1, <2>2
    <3> QED
      BY <2>1, <3>1, <3>2
  <2> QED
    BY <2>1, <2>2 DEF GoesBefore
<1>9. \A k \in 1 .. m : p[k] = k
  BY <1>1, <1>6, <1>8, OnlyIdentityAscends
<1> QED
  BY <1>1, <1>2, <1>9

(* A set of naturals with an upper bound that is not empty has a greatest  *)
(* element.                                                                *)
LEMMA GreatestNatural ==
  ASSUME NEW n \in Nat, NEW S \in SUBSET (0 .. n), S # {}
  PROVE  \E m \in S : \A i \in S : i <= m
<1> DEFINE Below == {n - i : i \in S}
<1>1. Below \in SUBSET Nat /\ Below # {}
  <2>1. \A i \in S : n - i \in Nat
    OBVIOUS
  <2>2. Below \in SUBSET Nat
    BY <2>1
  <2> QED
    BY <2>2
<1>2. PICK b \in Below : \A c \in Below : b <= c
  BY <1>1, LeastNatural
<1>3. PICK m \in S : b = n - m
  BY <1>2
<1>4. ASSUME NEW i \in S
      PROVE  i <= m
  <2>1. n - i \in Below
    OBVIOUS
  <2>2. b <= n - i
    BY <1>2, <2>1
  <2> HIDE DEF Below
  <2> QED
    BY <1>3, <2>2
<1> QED
  BY <1>4

(* A finite set of naturals as a sequence: each member once.               *)
LEMMA AscendingType ==
  ASSUME NEW K \in SUBSET Nat, IsFiniteSet(K)
  PROVE  /\ Cardinality(K) \in Nat
         /\ Ascending(K) \in Seq(K) /\ Len(Ascending(K)) = Cardinality(K)
         /\ \A k, l \in 1 .. Cardinality(K) : Ascending(K)[k] = Ascending(K)[l] => k = l
<1> DEFINE key == [i \in K |-> <<i>>]
<1>1. key \in [K -> Keys(1)]
  BY DEF Keys
<1>2. Ascending(K) = StableOrder(K, key)
  BY DEF Ascending
<1> HIDE DEF key
<1>3. Ascending(K) \in Bijection(1 .. Cardinality(K), K)
  BY <1>1, <1>2, StableOrderIsBijection
<1>4. Cardinality(K) \in Nat
  BY FS_CardinalityType
<1> DEFINE a == Ascending(K)
           n == Cardinality(K)
<1> HIDE DEF a, n
<1>5. a \in Bijection(1 .. n, K)
  BY <1>3 DEF a, n
<1>6. a \in [1 .. n -> K] /\ \A k, l \in 1 .. n : a[k] = a[l] => k = l
  BY <1>5, Fun_BijectionProperties
<1>7. n \in Nat /\ a \in Seq(K) /\ Len(a) = n
  BY <1>4, <1>6 DEF n
<1> QED
  BY <1>6, <1>7 DEF a, n

(***************************************************************************)
(* Findings.                                                               *)
(***************************************************************************)

(* The ranks of the policy tables are numbers.                             *)
LEMMA RankTypes ==
  /\ severity_rank \in [Severity -> Nat]
  /\ verdict_status_rank \in [VerdictStatus -> Nat]
BY DEF severity_rank, verdict_status_rank, Severity, VerdictStatus

(* A finding without a line is ordered at u32::MAX, any other at its line. *)
LEMMA LineKeyType ==
  ASSUME NEW f \in Finding
  PROVE  LineKey(f.line) \in Nat
BY TypesAssumption DEF Finding, LineKey

(* A finding's sort key is a tuple of six numbers.                         *)
LEMMA FindingKeyType ==
  ASSUME NEW id \in Nat, NEW f \in Finding
  PROVE  finding_sort_key(id, f) \in Keys(6)
<1>1. severity_rank[f.severity] \in Nat
  BY RankTypes DEF Finding
<1>2. f.path \in Nat /\ f.code \in Nat /\ f.message \in Nat
  BY DEF Finding
<1>3. LineKey(f.line) \in Nat
  BY LineKeyType
<1> QED
  BY <1>1, <1>2, <1>3 DEF finding_sort_key, Keys

(* Sorting a receipt's findings gives findings, as many as there were.     *)
LEMMA SortFindingsType ==
  ASSUME NEW id \in Nat, NEW findings \in Seq(Finding)
  PROVE  /\ sort_findings(id, findings) \in Seq(Finding)
         /\ Len(sort_findings(id, findings)) = Len(findings)
<1> DEFINE key == [i \in DOMAIN findings |-> finding_sort_key(id, findings[i])]
<1>1. key \in [DOMAIN findings -> Keys(6)]
  BY FindingKeyType
<1> HIDE DEF key
<1>2. /\ SortByKey(findings, key) \in Seq(Finding)
      /\ Len(SortByKey(findings, key)) = Len(findings)
  BY <1>1, SortByKeySorts
<1> QED
  BY <1>2 DEF sort_findings, key

(* Truncating keeps the first elements, at most as many as the limit.      *)
LEMMA TruncateType ==
  ASSUME NEW S, NEW s \in Seq(S), NEW max \in Nat
  PROVE  /\ Truncate(s, max) \in Seq(S)
         /\ Len(Truncate(s, max)) <= max
         /\ DOMAIN Truncate(s, max) \subseteq DOMAIN s
         /\ \A k \in DOMAIN Truncate(s, max) : Truncate(s, max)[k] = s[k]
BY DEF Truncate

(* Counting the findings of a list gives numbers.                          *)
LEMMA CountsType ==
  ASSUME NEW findings \in Seq(Finding)
  PROVE  compute_counts(findings) \in VerdictCounts
<1> DEFINE Of(sev) == {i \in DOMAIN findings : findings[i].severity = sev}
<1>1. IsFiniteSet(DOMAIN findings)
  <2> DEFINE n == Len(findings)
  <2>1. n \in Nat /\ DOMAIN findings = 1 .. n
    OBVIOUS
  <2> HIDE DEF n
  <2> QED
    BY <2>1, FS_Interval
<1>2. \A sev : Cardinality(Of(sev)) \in Nat
  <2>1. \A sev : Of(sev) \in SUBSET DOMAIN findings
    OBVIOUS
  <2> HIDE DEF Of
  <2>2. \A sev : IsFiniteSet(Of(sev))
    BY <1>1, <2>1, FS_Subset
  <2> QED
    BY <2>2, FS_CardinalityType
<1> QED
  BY <1>2 DEF compute_counts, VerdictCounts

(* The outcome of a policy is one of the three the schema lists.           *)
LEMMA OutcomeType ==
  ASSUME NEW blocking \in BOOLEAN, NEW status \in VerdictStatus
  PROVE  compute_policy_outcome(blocking, status) \in PolicyOutcome
BY DEF compute_policy_outcome, PolicyOutcome

(***************************************************************************)
(* Summaries and their highlights.                                         *)
(***************************************************************************)
(* What the handlers of a sensor return.                                   *)
Outcome == [summary : SensorSummary, highlights : Seq(Highlight)]

(* The finding cockpitctl makes itself is a finding.                       *)
LEMMA SynthesizedType ==
  ASSUME NEW severity \in Severity, NEW code \in Nat, NEW message \in Nat,
         NEW fingerprint \in Fingerprint \cup {None}
  PROVE  Synthesized(severity, code, message, fingerprint) \in Finding
BY DEF Synthesized, Finding

(* Findings shown under a sensor's name are highlights.                    *)
LEMMA UnderType ==
  ASSUME NEW id \in Nat, NEW findings \in Seq(Finding)
  PROVE  Under(id, findings) \in Seq(Highlight)
<1>1. \A i \in DOMAIN findings : [sensor_id |-> id, finding |-> findings[i]] \in Highlight
  BY DEF Highlight
<1> QED
  BY <1>1 DEF Under

(* A summary made of a sensor's policy, status and findings is a summary,  *)
(* and stays one when a handler sets one of the three fields that depend   *)
(* on its branch.                                                          *)
LEMMA SummaryType ==
  ASSUME NEW id \in Nat, NEW policy \in SensorPolicy, NEW presence \in Presence,
         NEW comment_path \in BOOLEAN, NEW status \in VerdictStatus,
         NEW findings \in Seq(Finding), NEW reasons \in SUBSET Reason
  PROVE  LET s == Summary(id, policy, presence, comment_path, status, findings, reasons)
         IN  /\ s \in SensorSummary
             /\ \A m \in MissingPolicy :
                  [s EXCEPT !.missing_policy_applied = m] \in SensorSummary
             /\ \A t \in BOOLEAN : [s EXCEPT !.truncated = t] \in SensorSummary
             /\ [s EXCEPT !.policy_outcome = "blocked"] \in SensorSummary
<1>1. policy.blocking \in BOOLEAN /\ policy.missing \in MissingPolicy
  BY DEF SensorPolicy
<1>2. compute_counts(findings) \in VerdictCounts
  BY CountsType
<1>3. compute_policy_outcome(policy.blocking, status) \in PolicyOutcome
  BY <1>1, OutcomeType
<1>4. "blocked" \in PolicyOutcome
  BY DEF PolicyOutcome
<1> QED
  BY <1>1, <1>2, <1>3, <1>4 DEF Summary, SensorSummary

(* A missing sensor's summary and highlights, whatever its policy says of  *)
(* a missing receipt.                                                      *)
LEMMA MissingType ==
  ASSUME NEW id \in Nat, NEW policy \in SensorPolicy, NEW comment_path \in BOOLEAN
  PROVE  synthesize_missing_sensor(id, policy, comment_path) \in Outcome
<1> DEFINE severity == [skip |-> "info", warn |-> "warn", fail |-> "error"][policy.missing]
<1> DEFINE findings == IF policy.missing = "skip" THEN << >>
                       ELSE <<Synthesized(severity, MISSING_RECEIPT, id, None)>>
<1> DEFINE reasons == IF policy.missing = "skip" THEN {} ELSE {"missing_receipt"}
<1>1. policy.missing \in MissingPolicy /\ policy.missing \in VerdictStatus
  BY DEF SensorPolicy, MissingPolicy, VerdictStatus
<1>2. severity \in Severity
  BY <1>1 DEF MissingPolicy, Severity
<1>3. findings \in Seq(Finding)
  <2> HIDE DEF severity
  <2>1. Synthesized(severity, MISSING_RECEIPT, id, None) \in Finding
    BY <1>2, SynthesizedType DEF MISSING_RECEIPT
  <2> QED
    BY <2>1
<1>4. reasons \in SUBSET Reason
  BY DEF Reason
<1>5. "missing" \in Presence
  BY DEF Presence
<1>6. Under(id, findings) \in Seq(Highlight)
  <2> HIDE DEF findings
  <2> QED
    BY <1>3, UnderType
<1>7. [Summary(id, policy, "missing", comment_path, policy.missing, findings, reasons)
         EXCEPT !.missing_policy_applied = policy.missing] \in SensorSummary
  <2> HIDE DEF findings, reasons
  <2> QED
    BY <1>1, <1>3, <1>4, <1>5, SummaryType
<1> QED
  BY <1>6, <1>7 DEF Outcome, synthesize_missing_sensor

(* A receipt that cannot be used gives one error under the sensor's name.  *)
LEMMA UnusableType ==
  ASSUME NEW id \in Nat, NEW policy \in SensorPolicy, NEW comment_path \in BOOLEAN,
         NEW code \in Nat, NEW reason \in Reason
  PROVE  Unusable(id, policy, comment_path, code, reason) \in Outcome
<1> DEFINE findings == <<Synthesized("error", code, id, None)>>
<1>1. findings \in Seq(Finding)
  <2>1. Synthesized("error", code, id, None) \in Finding
    BY SynthesizedType DEF Severity
  <2> QED
    BY <2>1
<1>2. "invalid" \in Presence /\ "fail" \in VerdictStatus /\ {reason} \in SUBSET Reason
  BY DEF Presence, VerdictStatus
<1> HIDE DEF findings
<1>3. Summary(id, policy, "invalid", comment_path, "fail", findings, {reason}) \in SensorSummary
  BY <1>1, <1>2, SummaryType
<1>4. Under(id, findings) \in Seq(Highlight)
  BY <1>1, UnderType
<1> QED
  BY <1>3, <1>4 DEF Outcome, Unusable, findings

(* A path that escapes gives one error under cockpitctl's own name.        *)
LEMMA TraversalHighlightType ==
  ASSUME NEW id \in Nat, NEW file \in {1, 2}
  PROVE  LET highlights == synthesize_path_traversal_highlight(id, file)
         IN  /\ highlights \in Seq(Highlight)
             /\ highlights[1] \in Highlight
             /\ highlights[1].finding \in Finding
<1> DEFINE fp == <<2, id, file>>
<1> DEFINE finding == Synthesized("error", PATH_TRAVERSAL, id, fp)
<1>1. fp \in Fingerprint
  BY DEF Fingerprint
<1> HIDE DEF fp
<1>2. finding \in Finding
  BY <1>1, SynthesizedType DEF Severity, PATH_TRAVERSAL
<1> HIDE DEF finding
<1>3. Under(CockpitId, <<finding>>) \in Seq(Highlight)
  <2>1. <<finding>> \in Seq(Finding)
    BY <1>2
  <2> QED
    BY <2>1, UnderType, TypesAssumption
<1>4. Under(CockpitId, <<finding>>)[1] = [sensor_id |-> CockpitId, finding |-> finding]
  BY DEF Under
<1>5. [sensor_id |-> CockpitId, finding |-> finding] \in Highlight
  BY <1>2, TypesAssumption DEF Highlight
<1> QED
  BY <1>2, <1>3, <1>4, <1>5 DEF synthesize_path_traversal_highlight, finding, fp

(* A sensor rejected for its path fails, whatever its policy.              *)
LEMMA TraversalType ==
  ASSUME NEW id \in Nat, NEW policy \in SensorPolicy, NEW comment_path \in BOOLEAN
  PROVE  synthesize_path_traversal_sensor(id, policy, comment_path) \in Outcome
<1> DEFINE highlights == synthesize_path_traversal_highlight(id, 1)
<1>1. highlights \in Seq(Highlight) /\ highlights[1].finding \in Finding
  BY TraversalHighlightType
<1> HIDE DEF highlights
<1>2. <<highlights[1].finding>> \in Seq(Finding)
  BY <1>1
<1>3. "missing" \in Presence /\ "fail" \in VerdictStatus /\ {"path_traversal"} \in SUBSET Reason
  BY DEF Reason, Presence, VerdictStatus
<1>4. [Summary(id, policy, "missing", comment_path, "fail", <<highlights[1].finding>>,
              {"path_traversal"}) EXCEPT !.policy_outcome = "blocked"] \in SensorSummary
  BY <1>2, <1>3, SummaryType
<1> QED
  BY <1>1, <1>4 DEF Outcome, synthesize_path_traversal_sensor, highlights

(* So does one whose receipt is too large, under its policy.               *)
LEMMA OversizedType ==
  ASSUME NEW id \in Nat, NEW policy \in SensorPolicy, NEW comment_path \in BOOLEAN,
         NEW size \in Nat
  PROVE  synthesize_receipt_oversized_sensor(id, policy, comment_path, size) \in Outcome
<1> DEFINE finding == Synthesized("error", RECEIPT_OVERSIZED, id, <<3, id, size>>)
<1>1. finding \in Finding
  <2>1. <<3, id, size>> \in Fingerprint
    BY DEF Fingerprint
  <2> QED
    BY <2>1, SynthesizedType DEF Severity, RECEIPT_OVERSIZED
<1> HIDE DEF finding
<1>2. <<finding>> \in Seq(Finding)
  BY <1>1
<1>3. "invalid" \in Presence /\ "fail" \in VerdictStatus /\ {"receipt_oversized"} \in SUBSET Reason
  BY DEF Reason, Presence, VerdictStatus
<1>4. Summary(id, policy, "invalid", comment_path, "fail", <<finding>>, {"receipt_oversized"})
        \in SensorSummary
  BY <1>2, <1>3, SummaryType
<1>5. Under(CockpitId, <<finding>>) \in Seq(Highlight)
  BY <1>2, UnderType, TypesAssumption
<1> QED
  BY <1>4, <1>5 DEF Outcome, synthesize_receipt_oversized_sensor, finding

(* The note that claimed and computed counts differ.                       *)
LEMMA InconsistentType ==
  ASSUME NEW id \in Nat, NEW reported \in VerdictCounts, NEW computed \in VerdictCounts
  PROVE  synthesize_receipt_inconsistent(id, reported, computed) \in Seq(Highlight)
<1> DEFINE fp == <<4, id, reported.info, reported.warn, reported.error,
                   computed.info, computed.warn, computed.error>>
<1>1. fp \in Fingerprint
  BY DEF Fingerprint, VerdictCounts
<1> HIDE DEF fp
<1> DEFINE finding == Synthesized("info", RECEIPT_INCONSISTENT, id, fp)
<1>2. finding \in Finding
  BY <1>1, SynthesizedType DEF Severity, RECEIPT_INCONSISTENT
<1> HIDE DEF finding
<1>3. <<finding>> \in Seq(Finding)
  BY <1>2
<1>4. Under(id, <<finding>>) \in Seq(Highlight)
  BY <1>3, UnderType
<1> QED
  BY <1>4 DEF finding, synthesize_receipt_inconsistent, fp

(* The note that discovery left sensors out.                               *)
LEMMA TruncatedType ==
  ASSUME NEW processed \in Nat, NEW total_found \in Nat
  PROVE  synthesize_sensors_truncated(processed, total_found) \in Seq(Highlight)
<1> DEFINE finding == Synthesized("warn", SENSORS_TRUNCATED, 0, <<5, processed, total_found>>)
<1>1. <<5, processed, total_found>> \in Fingerprint
  BY DEF Fingerprint
<1>2. finding \in Finding
  BY <1>1, SynthesizedType DEF Severity, SENSORS_TRUNCATED
<1> HIDE DEF finding
<1>3. <<finding>> \in Seq(Finding)
  BY <1>2
<1>4. Under(CockpitId, <<finding>>) \in Seq(Highlight)
  BY <1>3, UnderType, TypesAssumption
<1> QED
  BY <1>4 DEF finding, synthesize_sensors_truncated

(* A receipt that was read: what is left of it after sort and cap.         *)
LEMMA ReportOutcomeType ==
  ASSUME NEW id \in Nat, NEW comment_path \in BOOLEAN, NEW policy \in SensorPolicy,
         NEW max_findings \in Nat, NEW report,
         report.status \in VerdictStatus, report.counts \in VerdictCounts,
         report.reasons \in SUBSET Reason, report.findings \in Seq(Finding)
  PROVE  summarize_sensor_report(id, comment_path, policy, report, max_findings) \in Outcome
<1> DEFINE capped == cap_findings(sort_findings(id, report.findings), max_findings)
<1> DEFINE computed == compute_counts(capped.surfaced)
<1> DEFINE reasons == IF report.counts = computed THEN report.reasons
                      ELSE report.reasons \cup {"receipt_inconsistent"}
<1> DEFINE note == IF report.counts = computed THEN << >>
                   ELSE synthesize_receipt_inconsistent(id, report.counts, computed)
<1>1. capped.surfaced \in Seq(Finding) /\ capped.truncated \in BOOLEAN
  <2>1. sort_findings(id, report.findings) \in Seq(Finding)
    BY SortFindingsType
  <2> QED
    BY <2>1, TruncateType DEF cap_findings
<1> HIDE DEF capped
<1>2. computed \in VerdictCounts
  BY <1>1, CountsType
<1> HIDE DEF computed
<1>3. reasons \in SUBSET Reason
  BY DEF Reason
<1>4. note \in Seq(Highlight)
  BY <1>2, InconsistentType
<1>5. Under(id, capped.surfaced) \in Seq(Highlight)
  BY <1>1, UnderType
<1> HIDE DEF reasons, note
<1>6. note \o Under(id, capped.surfaced) \in Seq(Highlight)
  BY <1>4, <1>5
<1>7. "present" \in Presence
  BY DEF Presence
<1>8. [Summary(id, policy, "present", comment_path, report.status, capped.surfaced, reasons)
         EXCEPT !.truncated = capped.truncated] \in SensorSummary
  BY <1>1, <1>3, <1>7, SummaryType
<1> QED
  BY <1>6, <1>8 DEF Outcome, summarize_sensor_report, capped, computed, reasons, note

(***************************************************************************)
(* Across sensors.                                                         *)
(***************************************************************************)

(* The policy of a sensor, declared or not.                                *)
LEMMA PolicyOfType ==
  ASSUME NEW cfg, NEW id, cfg.sensors \in [DOMAIN cfg.sensors -> SensorPolicy]
  PROVE  policy_of(cfg, id) \in SensorPolicy
BY DEF policy_of, DefaultSensorPolicy, SensorPolicy, MissingPolicy

(* A section has a rank, named in section_order or not.                    *)
LEMMA SectionRankType ==
  ASSUME NEW cfg, NEW id, cfg.section_order \in Seq(Nat)
  PROVE  section_rank(cfg, id) \in Nat
<1> DEFINE section == policy_of(cfg, id).section
<1> DEFINE name == IF section = None THEN OtherSection ELSE section
<1> DEFINE places == {i \in DOMAIN cfg.section_order : cfg.section_order[i] = name}
<1> DEFINE last == CHOOSE i \in places : \A j \in places : j <= i
<1>1. Len(cfg.section_order) \in Nat /\ DOMAIN cfg.section_order = 1 .. Len(cfg.section_order)
  OBVIOUS
<1>2. ASSUME places # {}
      PROVE  last \in Nat
  <2>1. places \in SUBSET (0 .. Len(cfg.section_order))
    BY <1>1
  <2> HIDE DEF places
  <2>2. \E i \in places : \A j \in places : j <= i
    BY <1>1, <1>2, <2>1, GreatestNatural
  <2>3. last \in places
    BY <2>2
  <2> HIDE DEF last
  <2> QED
    BY <2>1, <2>3
<1> HIDE DEF last, places, name
<1>3. section_rank(cfg, id) = IF places = {} THEN Len(cfg.section_order) + 1 ELSE last
  BY DEF section_rank, last, places, name
<1> QED
  BY <1>1, <1>2, <1>3

(* What summaries are sorted by: the section, then the id.                 *)
SummaryKey(cfg, s) == <<section_rank(cfg, s.id), s.id>>

(* Sorting the summaries only reorders them.                               *)
LEMMA SortSummariesSorts ==
  ASSUME NEW cfg, cfg.section_order \in Seq(Nat), NEW summaries \in Seq(SensorSummary)
  PROVE  LET sorted == sort_sensor_summaries(summaries, cfg)
         IN  /\ sorted \in Seq(SensorSummary) /\ Len(sorted) = Len(summaries)
             /\ \E p \in Bijection(DOMAIN summaries, DOMAIN summaries) :
                  /\ sorted = [k \in DOMAIN summaries |-> summaries[p[k]]]
                  /\ \A k, l \in DOMAIN summaries : k < l =>
                       ~KeyLess(SummaryKey(cfg, summaries[p[l]]),
                                SummaryKey(cfg, summaries[p[k]]))
<1> DEFINE key == [i \in DOMAIN summaries |-> SummaryKey(cfg, summaries[i])]
<1>1. key \in [DOMAIN summaries -> Keys(2)]
  <2>1. ASSUME NEW i \in DOMAIN summaries
        PROVE  SummaryKey(cfg, summaries[i]) \in Keys(2)
    <3>1. summaries[i].id \in Nat
      <4>1. summaries[i] \in SensorSummary
        OBVIOUS
      <4> QED
        BY <4>1 DEF SensorSummary
    <3>2. section_rank(cfg, summaries[i].id) \in Nat
      BY SectionRankType
    <3> QED
      BY <3>1, <3>2 DEF Keys, SummaryKey
  <2> QED
    BY <2>1
<1>2. \A i \in DOMAIN summaries : key[i] = SummaryKey(cfg, summaries[i])
  OBVIOUS
<1> HIDE DEF key
<1>3. /\ SortByKey(summaries, key) \in Seq(SensorSummary)
      /\ Len(SortByKey(summaries, key)) = Len(summaries)
      /\ \E p \in Bijection(DOMAIN summaries, DOMAIN summaries) :
           /\ SortByKey(summaries, key) = [k \in DOMAIN summaries |-> summaries[p[k]]]
           /\ \A k, l \in DOMAIN summaries : k < l => ~KeyLess(key[p[l]], key[p[k]])
  BY <1>1, SortByKeySorts
<1>4. sort_sensor_summaries(summaries, cfg) = SortByKey(summaries, key)
  BY DEF sort_sensor_summaries, SummaryKey, key
<1>5. PICK p \in Bijection(DOMAIN summaries, DOMAIN summaries) :
           /\ SortByKey(summaries, key) = [k \in DOMAIN summaries |-> summaries[p[k]]]
           /\ \A k, l \in DOMAIN summaries : k < l => ~KeyLess(key[p[l]], key[p[k]])
  BY <1>3
<1>6. p \in [DOMAIN summaries -> DOMAIN summaries]
  BY <1>5, Fun_BijectionProperties
<1>7. \A k \in DOMAIN summaries :
        key[p[k]] = SummaryKey(cfg, summaries[p[k]])
  BY <1>2, <1>6
<1> QED
  BY <1>3, <1>4, <1>5, <1>7

(* Every highlight has a fingerprint, its own or a derived one.            *)
LEMMA FingerprintOfType ==
  ASSUME NEW h \in Highlight
  PROVE  /\ fingerprint_of(h) \in Fingerprint
         /\ [h EXCEPT !.finding.fingerprint = fingerprint_of(h)] \in Highlight
<1> DEFINE f == h.finding
<1>1. h.sensor_id \in Nat /\ f \in Finding
  BY DEF Highlight
<1>2. derive_fingerprint(h.sensor_id, f) \in Fingerprint
  <2>1. f.code \in Nat /\ f.message \in Nat /\ f.path \in Nat
    BY <1>1 DEF Finding
  <2>2. (IF f.line = None THEN 0 ELSE f.line + 1) \in Nat
    BY <1>1, TypesAssumption DEF Finding
  <2> QED
    BY <1>1, <2>1, <2>2 DEF derive_fingerprint, Fingerprint
<1>3. f.fingerprint # None => f.fingerprint \in Fingerprint
  BY <1>1 DEF Finding
<1>4. fingerprint_of(h) \in Fingerprint
  BY <1>2, <1>3 DEF fingerprint_of
<1>5. [f EXCEPT !.fingerprint = fingerprint_of(h)] \in Finding
  BY <1>1, <1>4 DEF Finding
<1> QED
  BY <1>4, <1>5 DEF Highlight

(* A highlight's sort key is a tuple of seven numbers.                     *)
LEMMA HighlightKeyType ==
  ASSUME NEW h \in Highlight, NEW blocking_ids
  PROVE  HighlightKey(h, blocking_ids) \in Keys(7)
<1>1. h.sensor_id \in Nat /\ h.finding \in Finding
  BY DEF Highlight
<1>2. LineKey(h.finding.line) \in Nat
  BY <1>1, LineKeyType
<1>3. severity_rank[h.finding.severity] \in Nat
  BY <1>1, RankTypes DEF Finding
<1>4. h.finding.path \in Nat /\ h.finding.code \in Nat /\ h.finding.message \in Nat
  BY <1>1 DEF Finding
<1>5. (IF h.sensor_id \in blocking_ids THEN 0 ELSE 1) \in Nat
  OBVIOUS
<1> QED
  BY <1>1, <1>2, <1>3, <1>4, <1>5 DEF HighlightKey, Keys

(* The selected highlights are highlights, at most as many as the cap.     *)
LEMMA SelectType ==
  ASSUME NEW candidates \in Seq(Highlight), NEW max_highlights \in Nat, NEW blocking_ids
  PROVE  /\ select_highlights(candidates, max_highlights, blocking_ids) \in Seq(Highlight)
         /\ Len(select_highlights(candidates, max_highlights, blocking_ids)) <= max_highlights
<1> DEFINE kept == Deduped(candidates)
<1> DEFINE key == [i \in kept |-> HighlightKey(candidates[i], blocking_ids)]
<1> DEFINE order == StableOrder(kept, key)
<1> DEFINE shown == Truncate(order, max_highlights)
<1>1. kept \in SUBSET DOMAIN candidates
  BY DEF Deduped
<1>2. IsFiniteSet(kept) /\ kept \in SUBSET Nat /\ Cardinality(kept) \in Nat
  <2> DEFINE n == Len(candidates)
  <2>1. n \in Nat /\ DOMAIN candidates = 1 .. n
    OBVIOUS
  <2> HIDE DEF n, kept
  <2>2. IsFiniteSet(1 .. n)
    BY <2>1, FS_Interval
  <2>3. IsFiniteSet(kept)
    BY <1>1, <2>1, <2>2, FS_Subset
  <2>4. kept \in SUBSET Nat
    BY <1>1, <2>1
  <2> QED
    BY <2>3, <2>4, FS_CardinalityType
<1> HIDE DEF kept
<1>3. key \in [kept -> Keys(7)]
  BY <1>1, HighlightKeyType
<1> HIDE DEF key
<1>4. order \in Bijection(1 .. Cardinality(kept), kept)
  BY <1>2, <1>3, StableOrderIsBijection
<1> HIDE DEF order
<1>5. order \in [1 .. Cardinality(kept) -> kept]
  BY <1>4, Fun_BijectionProperties
<1>6. order \in Seq(kept)
  BY <1>2, <1>5
<1>7. /\ shown \in Seq(kept) /\ Len(shown) <= max_highlights
      /\ \A k \in DOMAIN shown : shown[k] = order[k]
  BY <1>6, TruncateType
<1> HIDE DEF shown
<1> DEFINE selected == [k \in DOMAIN shown |->
             [candidates[order[k]] EXCEPT !.finding.fingerprint =
                fingerprint_of(candidates[order[k]])]]
<1>8. \A k \in DOMAIN shown : selected[k] \in Highlight
  <2>1. \A k \in DOMAIN shown : candidates[order[k]] \in Highlight
    <3>1. \A k \in DOMAIN shown : shown[k] \in kept
      BY <1>7
    <3> QED
      BY <1>1, <1>7, <3>1
  <2> QED
    BY <2>1, FingerprintOfType
<1>9. select_highlights(candidates, max_highlights, blocking_ids) = selected
  BY DEF select_highlights, shown, order, key, kept
<1>10. selected = [k \in DOMAIN shown |-> selected[k]]
  OBVIOUS
<1> HIDE DEF selected
<1>11. DOMAIN shown = 1 .. Len(shown) /\ Len(shown) \in Nat
  BY <1>7
<1>12. selected \in Seq(Highlight) /\ Len(selected) = Len(shown)
  BY <1>8, <1>10, <1>11
<1> QED
  BY <1>7, <1>9, <1>12

(***************************************************************************)
(* Which candidates select_highlights shows.                               *)
(***************************************************************************)

(* A candidate as it is shown: with its fingerprint filled in.             *)
Marked(c) == [c EXCEPT !.finding.fingerprint = fingerprint_of(c)]

LEMMA MarkedFacts ==
  ASSUME NEW h \in Highlight, NEW blocking_ids
  PROVE  /\ Marked(h).finding.fingerprint = fingerprint_of(h)
         /\ HighlightKey(Marked(h), blocking_ids) = HighlightKey(h, blocking_ids)
<1>1. h.finding \in Finding
  BY DEF Highlight
<1>2. h = [sensor_id |-> h.sensor_id, finding |-> h.finding]
  BY DEF Highlight
<1>3. Marked(h) = [sensor_id |-> h.sensor_id,
                   finding |-> [h.finding EXCEPT !.fingerprint = fingerprint_of(h)]]
  BY <1>2 DEF Marked
<1>4. /\ Marked(h).sensor_id = h.sensor_id
      /\ Marked(h).finding = [h.finding EXCEPT !.fingerprint = fingerprint_of(h)]
  BY <1>3
<1> DEFINE f == Marked(h).finding
<1>5. /\ f.severity = h.finding.severity /\ f.code = h.finding.code
      /\ f.message = h.finding.message /\ f.path = h.finding.path
      /\ f.line = h.finding.line /\ f.fingerprint = fingerprint_of(h)
  BY <1>1, <1>4 DEF Finding
<1> QED
  BY <1>4, <1>5 DEF HighlightKey

KeysOf(candidates, blocking_ids) ==
  [i \in Deduped(candidates) |-> HighlightKey(candidates[i], blocking_ids)]

(* The candidates kept, in the order of their keys; the first ones are     *)
(* shown.                                                                  *)
OrderOf(candidates, blocking_ids) == StableOrder(Deduped(candidates), KeysOf(candidates, blocking_ids))

LEMMA DedupedFinite ==
  ASSUME NEW candidates \in Seq(Highlight)
  PROVE  /\ Deduped(candidates) \in SUBSET DOMAIN candidates
         /\ IsFiniteSet(Deduped(candidates)) /\ Deduped(candidates) \in SUBSET Nat
         /\ Cardinality(Deduped(candidates)) \in Nat
<1> DEFINE n == Len(candidates)
           kept == Deduped(candidates)
<1>1. n \in Nat /\ DOMAIN candidates = 1 .. n
  OBVIOUS
<1>2. kept \in SUBSET DOMAIN candidates
  BY DEF Deduped
<1> HIDE DEF n, kept
<1>3. IsFiniteSet(1 .. n)
  BY <1>1, FS_Interval
<1>4. IsFiniteSet(kept) /\ kept \in SUBSET Nat
  BY <1>1, <1>2, <1>3, FS_Subset
<1> QED
  BY <1>2, <1>4, FS_CardinalityType DEF kept

(* selected holds the first ones of the kept candidates in their order.    *)
IsSelection(selected, order, candidates, max, blocking_ids) ==
  LET kept == Deduped(candidates)
      n    == Cardinality(kept)
      m    == IF n <= max THEN n ELSE max
  IN  /\ order \in Bijection(1 .. n, kept)
      /\ selected = [k \in 1 .. m |-> Marked(candidates[order[k]])]
      /\ \A k, l \in 1 .. n : k < l => GoesBefore(KeysOf(candidates, blocking_ids), order[k], order[l])

LEMMA SelectOrder ==
  ASSUME NEW candidates \in Seq(Highlight), NEW max \in Nat, NEW blocking_ids
  PROVE  IsSelection(select_highlights(candidates, max, blocking_ids), OrderOf(candidates, blocking_ids),
                     candidates, max, blocking_ids)
<1> DEFINE kept == Deduped(candidates)
           n == Cardinality(kept)
           m == IF n <= max THEN n ELSE max
           key == KeysOf(candidates, blocking_ids)
           order == OrderOf(candidates, blocking_ids)
<1>1. /\ kept \in SUBSET DOMAIN candidates
      /\ IsFiniteSet(kept) /\ kept \in SUBSET Nat /\ n \in Nat
  BY DedupedFinite
<1>2. key \in [kept -> Keys(7)]
  <2>1. \A i \in kept : HighlightKey(candidates[i], blocking_ids) \in Keys(7)
    BY <1>1, HighlightKeyType
  <2> QED
    BY <2>1 DEF KeysOf
<1>3. select_highlights(candidates, max, blocking_ids) =
        [k \in DOMAIN Truncate(order, max) |-> Marked(candidates[order[k]])]
  BY DEF select_highlights, OrderOf, KeysOf, Marked
<1>4. order = StableOrder(kept, key)
  BY DEF OrderOf
<1> HIDE DEF kept, key, order
<1>5. /\ order \in Bijection(1 .. n, kept)
      /\ \A k, l \in 1 .. n : k < l => GoesBefore(key, order[k], order[l])
  BY <1>1, <1>2, <1>4, StableOrderIsBijection
<1>6. order \in [1 .. n -> kept]
  BY <1>5, Fun_BijectionProperties
<1> HIDE DEF n
<1>7. order \in Seq(kept) /\ Len(order) = n
  BY <1>1, <1>6
<1>8. DOMAIN Truncate(order, max) = 1 .. m
  BY <1>1, <1>7 DEF Truncate
<1> QED
  BY <1>3, <1>5, <1>8 DEF kept, key, order, n, IsSelection

(* Whatever is shown was reported, and is the first of its fingerprint.    *)
LEMMA ShownIsKept ==
  ASSUME NEW candidates \in Seq(Highlight), NEW max \in Nat, NEW blocking_ids
  PROVE  LET selected == select_highlights(candidates, max, blocking_ids)
         IN  \A k \in DOMAIN selected : \E i \in Deduped(candidates) : selected[k] = Marked(candidates[i])
<1> DEFINE order == OrderOf(candidates, blocking_ids)
           n == Cardinality(Deduped(candidates))
           m == IF n <= max THEN n ELSE max
<1>1. n \in Nat
  BY DedupedFinite
<1>2. /\ order \in Bijection(1 .. n, Deduped(candidates))
      /\ select_highlights(candidates, max, blocking_ids) = [k \in 1 .. m |-> Marked(candidates[order[k]])]
  BY SelectOrder DEF IsSelection
<1> HIDE DEF order, n
<1>3. order \in [1 .. n -> Deduped(candidates)]
  BY <1>2, Fun_BijectionProperties
<1>4. \A k \in 1 .. m : k \in 1 .. n
  BY <1>1
<1> QED
  BY <1>2, <1>3, <1>4

(* A candidate that is the first of its fingerprint is shown, or the list  *)
(* is full and nothing in it has a greater key.                            *)
LEMMA KeptIsShown ==
  ASSUME NEW candidates \in Seq(Highlight), NEW max \in Nat, NEW blocking_ids,
         NEW i \in Deduped(candidates)
  PROVE  LET selected == select_highlights(candidates, max, blocking_ids)
         IN  \/ \E k \in DOMAIN selected : selected[k] = Marked(candidates[i])
             \/ /\ Len(selected) = max
                /\ \A k \in DOMAIN selected :
                     ~KeyLess(HighlightKey(candidates[i], blocking_ids),
                              HighlightKey(selected[k], blocking_ids))
<1> DEFINE kept == Deduped(candidates)
           n == Cardinality(kept)
           m == IF n <= max THEN n ELSE max
           key == KeysOf(candidates, blocking_ids)
           order == OrderOf(candidates, blocking_ids)
           selected == select_highlights(candidates, max, blocking_ids)
<1>1. n \in Nat /\ kept \in SUBSET DOMAIN candidates /\ i \in kept
  BY DedupedFinite
<1>2. /\ order \in Bijection(1 .. n, kept)
      /\ selected = [k \in 1 .. m |-> Marked(candidates[order[k]])]
      /\ \A k, l \in 1 .. n : k < l => GoesBefore(key, order[k], order[l])
  BY SelectOrder DEF IsSelection
<1> HIDE DEF order, n, kept
<1>3. /\ order \in [1 .. n -> kept]
      /\ \E k \in 1 .. n : order[k] = i
  BY <1>1, <1>2, Fun_BijectionProperties
<1>4. PICK l \in 1 .. n : order[l] = i
  BY <1>3
<1>5. m \in Nat /\ m <= n /\ (m < n => m = max)
  BY <1>1
<1>6. CASE l \in 1 .. m
  BY <1>2, <1>4, <1>6
<1>7. CASE l \notin 1 .. m
  <2>1. m < l /\ m = max /\ Len(selected) = m /\ DOMAIN selected = 1 .. m
    BY <1>2, <1>4, <1>5, <1>7
  <2>2. ASSUME NEW k \in 1 .. m
        PROVE  ~KeyLess(HighlightKey(candidates[i], blocking_ids),
                        HighlightKey(selected[k], blocking_ids))
    <3>1. k \in 1 .. n /\ k < l /\ order[k] \in kept
      BY <1>1, <1>3, <1>5, <2>1
    <3>2. /\ GoesBefore(key, order[k], i)
          /\ key[i] = HighlightKey(candidates[i], blocking_ids)
          /\ key[order[k]] = HighlightKey(candidates[order[k]], blocking_ids)
      BY <1>1, <1>2, <1>4, <3>1 DEF KeysOf, kept
    <3>3. /\ candidates[i] \in Highlight /\ candidates[order[k]] \in Highlight
          /\ selected[k] = Marked(candidates[order[k]])
      BY <1>1, <1>2, <3>1
    <3>4. HighlightKey(selected[k], blocking_ids) = HighlightKey(candidates[order[k]], blocking_ids)
      BY <3>3, MarkedFacts
    <3>5. /\ HighlightKey(candidates[i], blocking_ids) \in Keys(7)
          /\ HighlightKey(candidates[order[k]], blocking_ids) \in Keys(7)
      BY <3>3, HighlightKeyType
    <3>6. \/ KeyLess(HighlightKey(candidates[order[k]], blocking_ids), HighlightKey(candidates[i], blocking_ids))
          \/ HighlightKey(candidates[order[k]], blocking_ids) = HighlightKey(candidates[i], blocking_ids)
      BY <3>2 DEF GoesBefore
    <3> HIDE DEF order, selected
    <3> QED
      BY <3>4, <3>5, <3>6, KeyTransitive, KeyIrreflexive
  <2> QED
    BY <2>1, <2>2
<1> QED
  BY <1>6, <1>7

(* What is shown is in the order of the keys.                              *)
LEMMA ShownAscends ==
  ASSUME NEW candidates \in Seq(Highlight), NEW max \in Nat, NEW blocking_ids
  PROVE  LET selected == select_highlights(candidates, max, blocking_ids)
         IN  \A k, l \in DOMAIN selected : k < l =>
               ~KeyLess(HighlightKey(selected[l], blocking_ids), HighlightKey(selected[k], blocking_ids))
<1> DEFINE kept == Deduped(candidates)
           n == Cardinality(kept)
           m == IF n <= max THEN n ELSE max
           key == KeysOf(candidates, blocking_ids)
           order == OrderOf(candidates, blocking_ids)
           selected == select_highlights(candidates, max, blocking_ids)
<1>1. n \in Nat /\ kept \in SUBSET DOMAIN candidates
  BY DedupedFinite
<1>2. /\ order \in Bijection(1 .. n, kept)
      /\ selected = [k \in 1 .. m |-> Marked(candidates[order[k]])]
      /\ \A k, l \in 1 .. n : k < l => GoesBefore(key, order[k], order[l])
  BY SelectOrder DEF IsSelection
<1> HIDE DEF order, n, kept
<1>3. order \in [1 .. n -> kept]
  BY <1>2, Fun_BijectionProperties
<1>4. ASSUME NEW k \in 1 .. m, NEW l \in 1 .. m, k < l
      PROVE  ~KeyLess(HighlightKey(selected[l], blocking_ids), HighlightKey(selected[k], blocking_ids))
  <2> DEFINE a == candidates[order[k]]
             b == candidates[order[l]]
  <2>1. k \in 1 .. n /\ l \in 1 .. n /\ order[k] \in kept /\ order[l] \in kept
    BY <1>1, <1>3
  <2>2. a \in Highlight /\ b \in Highlight /\ selected[k] = Marked(a) /\ selected[l] = Marked(b)
    BY <1>1, <1>2, <2>1
  <2>3. /\ GoesBefore(key, order[k], order[l])
        /\ key[order[k]] = HighlightKey(a, blocking_ids) /\ key[order[l]] = HighlightKey(b, blocking_ids)
    BY <1>2, <1>4, <2>1 DEF KeysOf, kept
  <2>4. \/ KeyLess(HighlightKey(a, blocking_ids), HighlightKey(b, blocking_ids))
        \/ HighlightKey(a, blocking_ids) = HighlightKey(b, blocking_ids)
    BY <2>3 DEF GoesBefore
  <2> HIDE DEF a, b, selected
  <2>5. /\ HighlightKey(selected[k], blocking_ids) = HighlightKey(a, blocking_ids)
        /\ HighlightKey(selected[l], blocking_ids) = HighlightKey(b, blocking_ids)
    BY <2>2, MarkedFacts
  <2>6. HighlightKey(a, blocking_ids) \in Keys(7) /\ HighlightKey(b, blocking_ids) \in Keys(7)
    BY <2>2, HighlightKeyType
  <2> QED
    BY <2>4, <2>5, <2>6, KeyTransitive, KeyIrreflexive
<1> QED
  BY <1>2, <1>4

(* No two that are shown have one fingerprint.                             *)
LEMMA ShownDiffer ==
  ASSUME NEW candidates \in Seq(Highlight), NEW max \in Nat, NEW blocking_ids
  PROVE  LET selected == select_highlights(candidates, max, blocking_ids)
         IN  \A k, l \in DOMAIN selected :
               selected[k].finding.fingerprint = selected[l].finding.fingerprint => k = l
<1> DEFINE kept == Deduped(candidates)
           n == Cardinality(kept)
           m == IF n <= max THEN n ELSE max
           order == OrderOf(candidates, blocking_ids)
           selected == select_highlights(candidates, max, blocking_ids)
<1>1. n \in Nat /\ kept \in SUBSET DOMAIN candidates
  BY DedupedFinite
<1>2. /\ order \in Bijection(1 .. n, kept)
      /\ selected = [k \in 1 .. m |-> Marked(candidates[order[k]])]
  BY SelectOrder DEF IsSelection
<1> HIDE DEF order, n, kept
<1>3. /\ order \in [1 .. n -> kept]
      /\ \A k, l \in 1 .. n : order[k] = order[l] => k = l
  BY <1>2, Fun_BijectionProperties
<1>4. ASSUME NEW k \in 1 .. m, NEW l \in 1 .. m,
             selected[k].finding.fingerprint = selected[l].finding.fingerprint
      PROVE  k = l
  <2>1. k \in 1 .. n /\ l \in 1 .. n /\ order[k] \in kept /\ order[l] \in kept
    BY <1>1, <1>3
  <2>2. /\ candidates[order[k]] \in Highlight /\ candidates[order[l]] \in Highlight
        /\ selected[k] = Marked(candidates[order[k]]) /\ selected[l] = Marked(candidates[order[l]])
    BY <1>1, <1>2, <2>1
  <2> HIDE DEF order, selected
  <2>3. fingerprint_of(candidates[order[k]]) = fingerprint_of(candidates[order[l]])
    BY <1>4, <2>2, MarkedFacts
  <2>4. order[k] = order[l]
    <3>1. order[k] \in Nat \ {0} /\ order[l] \in Nat \ {0}
      BY <1>1, <2>1
    <3>2. ~(order[k] < order[l]) /\ ~(order[l] < order[k])
      BY <2>1, <2>3, <3>1 DEF Deduped, kept
    <3> QED
      BY <3>1, <3>2
  <2> QED
    BY <1>3, <2>1, <2>4
<1> QED
  BY <1>2, <1>4

(* The disjoint union whose size is the sum of one count over the list.    *)
Units(summaries, severity) ==
  UNION {{i} \X (1 .. summaries[i].counts[severity]) : i \in DOMAIN summaries}

(* The sum of one count over all summaries is a number: the disjoint union *)
(* it is the size of is finite.                                            *)
LEMMA TotalType ==
  ASSUME NEW summaries \in Seq(SensorSummary),
         NEW severity \in {"info", "warn", "error"}
  PROVE  Total(summaries, severity) \in Nat /\ IsFiniteSet(Units(summaries, severity))
<1> DEFINE Part(i) == {i} \X (1 .. summaries[i].counts[severity])
<1> DEFINE parts == {Part(i) : i \in DOMAIN summaries}
<1> DEFINE part == [i \in DOMAIN summaries |-> Part(i)]
<1>1. IsFiniteSet(DOMAIN summaries)
  <2> DEFINE n == Len(summaries)
  <2>1. n \in Nat /\ DOMAIN summaries = 1 .. n
    OBVIOUS
  <2> HIDE DEF n
  <2> QED
    BY <2>1, FS_Interval
<1>2. \A i \in DOMAIN summaries : IsFiniteSet(Part(i))
  <2>1. ASSUME NEW i \in DOMAIN summaries
        PROVE  IsFiniteSet(Part(i))
    <3> DEFINE m == summaries[i].counts[severity]
    <3>1. m \in Nat
      <4>1. summaries[i] \in SensorSummary
        OBVIOUS
      <4>2. summaries[i].counts \in VerdictCounts
        BY <4>1 DEF SensorSummary
      <4> QED
        BY <4>2 DEF VerdictCounts
    <3> HIDE DEF m
    <3>2. IsFiniteSet(1 .. m)
      BY <3>1, FS_Interval
    <3>3. IsFiniteSet({i})
      BY FS_Singleton
    <3>4. IsFiniteSet({i} \X (1 .. m))
      BY <3>2, <3>3, FS_Product
    <3> QED
      BY <3>4 DEF m
  <2> QED
    BY <2>1
<1> HIDE DEF Part
<1>3. part \in Surjection(DOMAIN summaries, parts)
  BY Fun_IsSurj
<1> HIDE DEF part
<1>4. IsFiniteSet(parts)
  <2> HIDE DEF parts
  <2> QED
    BY <1>1, <1>3, FS_Surjection
<1>5. \A T \in parts : IsFiniteSet(T)
  BY <1>2
<1>6. IsFiniteSet(UNION parts)
  <2> HIDE DEF parts
  <2> QED
    BY <1>4, <1>5, FS_UNION
<1>7. Cardinality(UNION parts) \in Nat
  <2> HIDE DEF parts
  <2> QED
    BY <1>6, FS_CardinalityType
<1>8. Total(summaries, severity) = Cardinality(UNION parts) /\ Units(summaries, severity) = UNION parts
  BY DEF Total, Units, parts, Part
<1> QED
  BY <1>6, <1>7, <1>8

(* The worst of a set of statuses that is not empty is one of them, and    *)
(* none of them ranks before it.                                           *)
LEMMA WorstStatus ==
  ASSUME NEW statuses \in SUBSET VerdictStatus, statuses # {}
  PROVE  \E w \in statuses :
           \A t \in statuses : verdict_status_rank[w] <= verdict_status_rank[t]
<1> DEFINE ranks == {verdict_status_rank[t] : t \in statuses}
<1>1. ranks \in SUBSET Nat /\ ranks # {}
  BY RankTypes
<1>2. PICK r \in ranks : \A q \in ranks : r <= q
  BY <1>1, LeastNatural
<1>3. PICK w \in statuses : r = verdict_status_rank[w]
  BY <1>2
<1>4. ASSUME NEW t \in statuses
      PROVE  verdict_status_rank[w] <= verdict_status_rank[t]
  <2>1. verdict_status_rank[t] \in ranks
    OBVIOUS
  <2> HIDE DEF ranks
  <2> QED
    BY <1>2, <1>3, <2>1
<1> QED
  BY <1>4

(* The published verdict: a status, totals that are numbers, and reasons.  *)
Verdicts == [status : VerdictStatus, counts : VerdictCounts, reasons : SUBSET Reason]

(* overall_verdict returns one of those, for any summaries.                *)
LEMMA VerdictType ==
  ASSUME NEW summaries \in Seq(SensorSummary), NEW cfg
  PROVE  overall_verdict(summaries, cfg) \in Verdicts
<1> DEFINE blocking == {i \in DOMAIN summaries : summaries[i].blocking}
<1> DEFINE statuses == {"pass"} \cup {effective_status(cfg, summaries[i]) : i \in blocking}
<1> DEFINE worst == CHOOSE w \in statuses :
             \A t \in statuses : verdict_status_rank[w] <= verdict_status_rank[t]
<1> DEFINE reasons == IF cfg.warn_is_fail /\ \E i \in blocking : summaries[i].status = "warn"
                      THEN {"warn_is_fail"} ELSE {}
<1> DEFINE counts == [info |-> Total(summaries, "info"), warn |-> Total(summaries, "warn"),
                      error |-> Total(summaries, "error"), suppressed |-> 0]
<1>1. statuses \in SUBSET VerdictStatus /\ statuses # {}
  <2>1. ASSUME NEW i \in blocking
        PROVE  effective_status(cfg, summaries[i]) \in VerdictStatus
    <3>1. summaries[i] \in SensorSummary
      OBVIOUS
    <3>2. summaries[i].status \in VerdictStatus
      BY <3>1 DEF SensorSummary
    <3> QED
      BY <3>2 DEF effective_status, VerdictStatus
  <2>2. "pass" \in VerdictStatus
    BY DEF VerdictStatus
  <2> HIDE DEF blocking
  <2> QED
    BY <2>1, <2>2
<1> HIDE DEF statuses
<1>2. worst \in VerdictStatus
  <2>1. \E w \in statuses :
           \A t \in statuses : verdict_status_rank[w] <= verdict_status_rank[t]
    BY <1>1, WorstStatus
  <2>2. worst \in statuses
    BY <2>1
  <2> HIDE DEF worst
  <2> QED
    BY <1>1, <2>2
<1>3. counts \in VerdictCounts
  <2>1. /\ Total(summaries, "info") \in Nat /\ Total(summaries, "warn") \in Nat
        /\ Total(summaries, "error") \in Nat
    BY TotalType
  <2> QED
    BY <2>1 DEF VerdictCounts
<1>4. reasons \in SUBSET Reason
  BY DEF Reason
<1>5. overall_verdict(summaries, cfg) = [status |-> worst, counts |-> counts, reasons |-> reasons]
  BY DEF overall_verdict, worst, statuses, blocking, counts, reasons
<1> HIDE DEF worst, counts, reasons
<1> QED
  BY <1>2, <1>3, <1>4, <1>5 DEF Verdicts

(* Sensors that do not block cannot turn the verdict away from pass,       *)
(* whatever they report.                                                   *)
LEMMA AdvisoryVerdict ==
  ASSUME NEW summaries, NEW cfg, \A i \in DOMAIN summaries : ~summaries[i].blocking
  PROVE  overall_verdict(summaries, cfg).status = "pass"
<1> DEFINE blocking == {i \in DOMAIN summaries : summaries[i].blocking}
<1> DEFINE statuses == {"pass"} \cup {effective_status(cfg, summaries[i]) : i \in blocking}
<1> DEFINE worst == CHOOSE w \in statuses :
             \A t \in statuses : verdict_status_rank[w] <= verdict_status_rank[t]
<1>1. statuses = {"pass"}
  OBVIOUS
<1>2. verdict_status_rank["pass"] <= verdict_status_rank["pass"]
  BY DEF verdict_status_rank
<1> HIDE DEF statuses
<1>3. worst = "pass"
  BY <1>1, <1>2
<1>4. overall_verdict(summaries, cfg).status = worst
  BY DEF overall_verdict, worst, statuses, blocking
<1> QED
  BY <1>3, <1>4

(* A summary names the sensor it was made for and keeps its policy, also   *)
(* when a handler sets one of the three fields that depend on its branch.  *)
Names(s, id, policy) == s.id = id /\ s.blocking = policy.blocking

(* The summary made from a policy carries that policy and the id.          *)
LEMMA SummaryNames ==
  ASSUME NEW id, NEW policy, NEW presence, NEW comment_path, NEW status, NEW findings, NEW reasons
  PROVE  LET s == Summary(id, policy, presence, comment_path, status, findings, reasons)
         IN  /\ Names(s, id, policy)
             /\ \A m : Names([s EXCEPT !.missing_policy_applied = m], id, policy)
             /\ \A t : Names([s EXCEPT !.truncated = t], id, policy)
             /\ Names([s EXCEPT !.policy_outcome = "blocked"], id, policy)
BY DEF Summary, Names

(* So does what every handler returns.                                     *)
LEMMA OutcomesName ==
  ASSUME NEW id, NEW policy, NEW comment_path
  PROVE  /\ Names(synthesize_missing_sensor(id, policy, comment_path).summary, id, policy)
         /\ Names(synthesize_path_traversal_sensor(id, policy, comment_path).summary, id, policy)
         /\ Names(synthesize_invalid_sensor(id, policy, comment_path).summary, id, policy)
         /\ Names(synthesize_schema_violation_sensor(id, policy, comment_path).summary, id, policy)
<1>1. Names(synthesize_missing_sensor(id, policy, comment_path).summary, id, policy)
  BY SummaryNames DEF synthesize_missing_sensor
<1>2. Names(synthesize_path_traversal_sensor(id, policy, comment_path).summary, id, policy)
  BY SummaryNames DEF synthesize_path_traversal_sensor
<1>3. \A code, reason : Names(Unusable(id, policy, comment_path, code, reason).summary, id, policy)
  BY SummaryNames DEF Unusable
<1> QED
  BY <1>1, <1>2, <1>3 DEF synthesize_invalid_sensor, synthesize_schema_violation_sensor

(* The handler of a receipt that is too large.                             *)
LEMMA OversizedNames ==
  ASSUME NEW id, NEW policy, NEW comment_path, NEW size
  PROVE  Names(synthesize_receipt_oversized_sensor(id, policy, comment_path, size).summary,
               id, policy)
BY SummaryNames DEF synthesize_receipt_oversized_sensor

(* The handler of a receipt that was read.                                 *)
LEMMA ReportNames ==
  ASSUME NEW id, NEW policy, NEW comment_path, NEW report, NEW max
  PROVE  Names(summarize_sensor_report(id, comment_path, policy, report, max).summary, id, policy)
BY SummaryNames DEF summarize_sensor_report


(***************************************************************************)
(* What a handler says of its sensor: the counts in its summary are those  *)
(* of its highlights, and one that finds fault names it.                   *)
(***************************************************************************)

(* What cockpitctl reports of itself is in nobody's counts.                *)
AboutItself == {PATH_TRAVERSAL, RECEIPT_INCONSISTENT, SENSORS_TRUNCATED}

Tallied(list, severity) ==
  {i \in DOMAIN list : list[i].finding.severity = severity /\ list[i].finding.code \notin AboutItself}

(* The indices of a sequence are as many as its length.                    *)
LEMMA DomainFinite ==
  ASSUME NEW S, NEW s \in Seq(S)
  PROVE  /\ IsFiniteSet(DOMAIN s) /\ DOMAIN s = 1 .. Len(s) /\ Len(s) \in Nat
         /\ Cardinality(DOMAIN s) = Len(s)
<1> DEFINE n == Len(s)
<1>1. n \in Nat /\ DOMAIN s = 1 .. n
  OBVIOUS
<1> HIDE DEF n
<1>2. IsFiniteSet(1 .. n) /\ Cardinality(1 .. n) = n
  BY <1>1, FS_Interval
<1> QED
  BY <1>1, <1>2 DEF n

(* A set of indices of a sequence is finite.                               *)
LEMMA IndicesFinite ==
  ASSUME NEW S, NEW s \in Seq(S), NEW K \in SUBSET DOMAIN s
  PROVE  IsFiniteSet(K) /\ Cardinality(K) \in Nat /\ K \in SUBSET Nat
<1>1. IsFiniteSet(K) /\ Cardinality(K) \in Nat
  BY DomainFinite, FS_Subset, FS_CardinalityType
<1> QED
  BY <1>1

(* The elements of a finite set of naturals, each once and in order.       *)
LEMMA AscendingOrder ==
  ASSUME NEW K \in SUBSET Nat, IsFiniteSet(K)
  PROVE  LET a == Ascending(K) IN
         /\ a \in Seq(K) /\ Len(a) = Cardinality(K) /\ DOMAIN a = 1 .. Cardinality(K)
         /\ \A i \in K : \E k \in DOMAIN a : a[k] = i
         /\ \A k, l \in DOMAIN a : k < l => a[k] < a[l]
<1> DEFINE a == Ascending(K)
           n == Cardinality(K)
           key == [i \in K |-> <<i>>]
<1>1. n \in Nat /\ a \in Seq(K) /\ Len(a) = n
  BY AscendingType
<1>2. key \in [K -> Keys(1)]
  <2>1. ASSUME NEW i \in K
        PROVE  <<i>> \in Keys(1)
    BY DEF Keys
  <2> QED
    BY <2>1
<1>3. a = StableOrder(K, key) /\ \A i \in K : key[i] = <<i>>
  BY DEF Ascending
<1> HIDE DEF a, n, key
<1>4. a \in Bijection(1 .. n, K) /\ \A k, l \in 1 .. n : k < l => GoesBefore(key, a[k], a[l])
  BY <1>2, <1>3, StableOrderIsBijection DEF n
<1>5. DOMAIN a = 1 .. n /\ \A k \in 1 .. n : a[k] \in K
  BY <1>1
<1>6. \A i \in K : \E k \in 1 .. n : a[k] = i
  <2> DEFINE D == 1 .. n
  <2>1. a \in Bijection(D, K)
    BY <1>4
  <2> HIDE DEF D
  <2>2. \A i \in K : \E k \in D : a[k] = i
    BY <2>1, Fun_BijectionProperties
  <2> QED
    BY <2>2 DEF D
<1>7. ASSUME NEW k \in 1 .. n, NEW l \in 1 .. n, k < l
      PROVE  a[k] < a[l]
  <2>1. GoesBefore(key, a[k], a[l]) /\ a[k] \in K /\ a[l] \in K
    BY <1>4, <1>5, <1>7
  <2>2. PICK x, y \in Nat : x = a[k] /\ y = a[l] /\ key[a[k]] = <<x>> /\ key[a[l]] = <<y>>
    BY <1>3, <2>1
  <2>3. CASE KeyLess(<<x>>, <<y>>)
    BY <2>2, <2>3 DEF KeyLess
  <2> QED
    BY <2>1, <2>2, <2>3 DEF GoesBefore
<1> QED
  BY <1>1, <1>5, <1>6, <1>7 DEF a, n

(* What is picked from a sequence are elements of it, at picked indices.    *)
LEMMA PickType ==
  ASSUME NEW S, NEW s \in Seq(S), NEW K \in SUBSET DOMAIN s
  PROVE  /\ Pick(s, K) \in Seq(S)
         /\ \A k \in DOMAIN Pick(s, K) : \E i \in K : Pick(s, K)[k] = s[i]
<1>1. IsFiniteSet(K) /\ K \in SUBSET Nat
  BY DomainFinite, IndicesFinite
<1> DEFINE n == Cardinality(K)
           a == Ascending(K)
<1>2. n \in Nat /\ a \in Seq(K) /\ Len(a) = n
  BY <1>1, AscendingType
<1>3. Pick(s, K) = [k \in 1 .. n |-> s[a[k]]]
  BY DEF Pick
<1> HIDE DEF n, a
<1>4. \A k \in 1 .. n : a[k] \in K /\ s[a[k]] \in S
  BY <1>2
<1> DEFINE picked == [k \in 1 .. n |-> s[a[k]]]
<1>5. picked \in Seq(S) /\ DOMAIN picked = 1 .. n
  BY <1>2, <1>4
<1>6. \A k \in 1 .. n : picked[k] = s[a[k]]
  OBVIOUS
<1>7. Pick(s, K) = picked
  BY <1>3
<1> HIDE DEF picked
<1> QED
  BY <1>4, <1>5, <1>6, <1>7

(* Every picked element is there, in its order.                            *)
LEMMA PickHolds ==
  ASSUME NEW S, NEW s \in Seq(S), NEW K \in SUBSET DOMAIN s
  PROVE  /\ Len(Pick(s, K)) = Cardinality(K) /\ Cardinality(K) \in Nat
         /\ DOMAIN Pick(s, K) = 1 .. Cardinality(K)
         /\ \A i \in K : \E k \in DOMAIN Pick(s, K) : Pick(s, K)[k] = s[i]
<1>1. IsFiniteSet(K) /\ K \in SUBSET Nat
  BY DomainFinite, IndicesFinite
<1> DEFINE n == Cardinality(K)
           a == Ascending(K)
<1>2. n \in Nat /\ a \in Seq(K) /\ DOMAIN a = 1 .. n /\ \A i \in K : \E k \in 1 .. n : a[k] = i
  BY <1>1, AscendingType, AscendingOrder
<1>3. Pick(s, K) = [k \in 1 .. n |-> s[a[k]]]
  BY DEF Pick
<1>4. Pick(s, K) \in Seq(S)
  BY PickType
<1> HIDE DEF n, a
<1>5. DOMAIN Pick(s, K) = 1 .. n /\ Len(Pick(s, K)) = n
  BY <1>2, <1>3, <1>4
<1>6. \A i \in K : \E k \in 1 .. n : Pick(s, K)[k] = s[i]
  BY <1>2, <1>3
<1> QED
  BY <1>2, <1>5, <1>6 DEF n

(* A set shifted by n has as many elements.                                *)
LEMMA ShiftedSize ==
  ASSUME NEW n \in Nat, NEW K \in SUBSET Nat, IsFiniteSet(K)
  PROVE  LET shifted == {n + k : k \in K}
         IN  IsFiniteSet(shifted) /\ Cardinality(shifted) = Cardinality(K)
<1> DEFINE shifted == {n + k : k \in K}
           shift == [k \in K |-> n + k]
<1>1. shift \in [K -> shifted] /\ \A k \in K : shift[k] = n + k
  OBVIOUS
<1>2. \A k, l \in K : shift[k] = shift[l] => k = l
  BY <1>1
<1>3. \A t \in shifted : \E k \in K : shift[k] = t
  BY <1>1
<1> HIDE DEF shift, shifted
<1>4. shift \in Bijection(K, shifted)
  BY <1>1, <1>2, <1>3, Fun_IsBij
<1>5. ExistsBijection(K, shifted)
  BY <1>4 DEF ExistsBijection
<1> QED
  BY <1>5, FS_Bijection DEF shifted

(* The highlights of two lists, one after the other, count as the two do.  *)
LEMMA TalliedConcat ==
  ASSUME NEW a \in Seq(Highlight), NEW b \in Seq(Highlight), NEW severity
  PROVE  Cardinality(Tallied(a \o b, severity)) =
           Cardinality(Tallied(a, severity)) + Cardinality(Tallied(b, severity))
<1> DEFINE n == Len(a)
           m == Len(b)
           A == Tallied(a, severity)
           B == Tallied(b, severity)
           C == {n + k : k \in B}
<1>1. /\ n \in Nat /\ m \in Nat /\ DOMAIN a = 1 .. n /\ DOMAIN b = 1 .. m
      /\ DOMAIN (a \o b) = 1 .. (n + m)
      /\ \A i \in 1 .. n : (a \o b)[i] = a[i]
      /\ \A i \in 1 .. m : (a \o b)[n + i] = b[i]
  OBVIOUS
<1>2. A \in SUBSET (1 .. n) /\ B \in SUBSET (1 .. m)
  BY <1>1 DEF Tallied
<1>3. IsFiniteSet(A) /\ IsFiniteSet(B) /\ Cardinality(A) \in Nat /\ Cardinality(B) \in Nat
  BY <1>1, <1>2, IndicesFinite
<1>4. Tallied(a \o b, severity) = A \cup C
  <2>1. ASSUME NEW i \in Tallied(a \o b, severity)
        PROVE  i \in A \cup C
    <3>1. i \in 1 .. (n + m)
      BY <1>1 DEF Tallied
    <3>2. CASE i \in 1 .. n
      BY <1>1, <3>2 DEF Tallied
    <3>3. CASE i \notin 1 .. n
      <4>1. i - n \in 1 .. m /\ i = n + (i - n)
        BY <1>1, <3>1, <3>3
      <4>2. i - n \in B
        BY <1>1, <4>1 DEF Tallied
      <4> QED
        BY <4>1, <4>2
    <3> QED
      BY <3>2, <3>3
  <2>2. ASSUME NEW i \in A
        PROVE  i \in Tallied(a \o b, severity)
    <3>1. i \in 1 .. n /\ i \in 1 .. (n + m)
      BY <1>1, <1>2
    <3> QED
      BY <1>1, <3>1 DEF Tallied
  <2>3. ASSUME NEW k \in B
        PROVE  n + k \in Tallied(a \o b, severity)
    <3>1. k \in 1 .. m /\ n + k \in 1 .. (n + m)
      BY <1>1, <1>2
    <3> QED
      BY <1>1, <3>1 DEF Tallied
  <2> QED
    BY <2>1, <2>2, <2>3
<1>5. A \cap C = {}
  BY <1>1, <1>2
<1> HIDE DEF n, m, A, B
<1>6. IsFiniteSet(C) /\ Cardinality(C) = Cardinality(B)
  <2>1. n \in Nat /\ B \in SUBSET Nat
    BY <1>1, <1>2
  <2> QED
    BY <1>3, <2>1, ShiftedSize
<1> HIDE DEF C
<1>7. Cardinality(A \cup C) = Cardinality(A) + Cardinality(C) - Cardinality({})
  BY <1>3, <1>5, <1>6, FS_Union
<1> QED
  BY <1>3, <1>4, <1>6, <1>7, FS_EmptySet DEF A, B

(* Reordered indices are as many.                                          *)
LEMMA ReorderedSize ==
  ASSUME NEW D, IsFiniteSet(D), NEW p \in Bijection(D, D), NEW K \in SUBSET D
  PROVE  Cardinality({k \in D : p[k] \in K}) = Cardinality(K)
<1> DEFINE J == {k \in D : p[k] \in K}
           q == [k \in J |-> p[k]]
<1>1. /\ p \in [D -> D]
      /\ \A a, b \in D : p[a] = p[b] => a = b
      /\ \A t \in D : \E s \in D : p[s] = t
  BY Fun_BijectionProperties
<1>2. q \in [J -> K] /\ \A a, b \in J : q[a] = q[b] => a = b
  BY <1>1
<1>3. \A t \in K : \E s \in J : q[s] = t
  BY <1>1
<1>4. J \in SUBSET D
  OBVIOUS
<1> HIDE DEF J, q
<1>5. q \in Bijection(J, K)
  BY <1>2, <1>3, Fun_IsBij
<1>6. ExistsBijection(J, K)
  BY <1>5 DEF ExistsBijection
<1>7. IsFiniteSet(J)
  BY <1>4, FS_Subset
<1> QED
  BY <1>6, <1>7, FS_Bijection DEF J

(* A unit of the total is the k-th finding the i-th summary counts.        *)
LEMMA UnitsAre ==
  ASSUME NEW list, NEW severity, NEW x
  PROVE  x \in Units(list, severity) <=>
           \E i \in DOMAIN list : \E k \in 1 .. list[i].counts[severity] : x = <<i, k>>
BY DEF Units

(* What a summary adds to the totals is its counts.                        *)
LEMMA TotalOfAppend ==
  ASSUME NEW list \in Seq(SensorSummary), NEW s \in SensorSummary,
         NEW severity \in {"info", "warn", "error"}
  PROVE  Total(Append(list, s), severity) = Total(list, severity) + s.counts[severity]
<1> DEFINE n == Len(list)
           c == s.counts[severity]
           longer == Append(list, s)
           A == Units(list, severity)
           B == {n + 1} \X (1 .. c)
<1>1. /\ n \in Nat /\ DOMAIN list = 1 .. n /\ DOMAIN longer = 1 .. (n + 1)
      /\ \A i \in 1 .. n : longer[i] = list[i]
      /\ longer[n + 1] = s
  OBVIOUS
<1>2. c \in Nat
  BY DEF SensorSummary, VerdictCounts
<1>3. IsFiniteSet(A) /\ Cardinality(A) \in Nat
  BY TotalType, FS_CardinalityType
<1> HIDE DEF n, c, longer
<1>4. IsFiniteSet(B) /\ Cardinality(B) = c
  <2>1. IsFiniteSet({n + 1}) /\ Cardinality({n + 1}) = 1
    BY FS_Singleton
  <2>2. IsFiniteSet(1 .. c) /\ Cardinality(1 .. c) = c
    BY <1>2, FS_Interval
  <2>3. IsFiniteSet(B) /\ Cardinality(B) = 1 * c
    BY <2>1, <2>2, FS_Product
  <2> QED
    BY <1>2, <2>3
<1>5. Units(longer, severity) = A \cup B
  <2>1. ASSUME NEW x \in Units(longer, severity)
        PROVE  x \in A \cup B
    <3>1. PICK i \in DOMAIN longer : \E k \in 1 .. longer[i].counts[severity] : x = <<i, k>>
      BY UnitsAre
    <3>2. CASE i \in 1 .. n
      <4>1. x \in Units(list, severity)
        BY <1>1, <3>1, <3>2, UnitsAre
      <4> QED
        BY <4>1
    <3>3. CASE i = n + 1
      BY <1>1, <3>1, <3>3 DEF c
    <3> QED
      BY <1>1, <3>2, <3>3
  <2>2. ASSUME NEW x \in A
        PROVE  x \in Units(longer, severity)
    <3>1. PICK i \in DOMAIN list : \E k \in 1 .. list[i].counts[severity] : x = <<i, k>>
      BY UnitsAre
    <3>2. i \in DOMAIN longer /\ longer[i] = list[i]
      BY <1>1
    <3> QED
      BY <3>1, <3>2, UnitsAre
  <2>3. ASSUME NEW x \in B
        PROVE  x \in Units(longer, severity)
    <3>1. PICK k \in 1 .. c : x = <<n + 1, k>>
      OBVIOUS
    <3>2. n + 1 \in DOMAIN longer /\ longer[n + 1].counts[severity] = c
      BY <1>1 DEF c
    <3> QED
      BY <3>1, <3>2, UnitsAre
  <2> HIDE DEF A, B
  <2> QED
    BY <2>1, <2>2, <2>3
<1>6. A \cap B = {}
  <2> SUFFICES ASSUME NEW x \in A, x \in B PROVE FALSE
    OBVIOUS
  <2>1. PICK i \in 1 .. n : \E k \in 1 .. list[i].counts[severity] : x = <<i, k>>
    BY <1>1, UnitsAre
  <2> QED
    BY <1>1, <2>1
<1>7. Total(list, severity) = Cardinality(A) /\ Total(longer, severity) = Cardinality(Units(longer, severity))
  BY DEF Total, Units
<1> HIDE DEF A, B
<1>8. Cardinality(A \cup B) = Cardinality(A) + Cardinality(B) - Cardinality({})
  BY <1>3, <1>4, <1>6, FS_Union
<1> QED
  BY <1>2, <1>3, <1>4, <1>5, <1>7, <1>8, FS_EmptySet DEF c, longer

(* The totals do not depend on the order of the list.                      *)
LEMMA TotalReordered ==
  ASSUME NEW list \in Seq(SensorSummary), NEW severity \in {"info", "warn", "error"},
         NEW p \in Bijection(DOMAIN list, DOMAIN list)
  PROVE  Total([k \in DOMAIN list |-> list[p[k]]], severity) = Total(list, severity)
<1> DEFINE D == DOMAIN list
           sorted == [k \in D |-> list[p[k]]]
           A == Units(sorted, severity)
           B == Units(list, severity)
           move == [x \in A |-> <<p[x[1]], x[2]>>]
<1>1. /\ p \in [D -> D]
      /\ \A a, b \in D : p[a] = p[b] => a = b
      /\ \A t \in D : \E k \in D : p[k] = t
  BY Fun_BijectionProperties
<1>2. DOMAIN sorted = D /\ \A k \in D : sorted[k] = list[p[k]]
  OBVIOUS
<1> HIDE DEF sorted
<1>3. ASSUME NEW x \in A
      PROVE  /\ x[1] \in D /\ x[2] \in 1 .. list[p[x[1]]].counts[severity]
             /\ x = <<x[1], x[2]>> /\ <<p[x[1]], x[2]>> \in B
  <2>1. PICK i \in D : \E k \in 1 .. list[p[i]].counts[severity] : x = <<i, k>>
    BY <1>2, UnitsAre
  <2>2. PICK k \in 1 .. list[p[i]].counts[severity] : x = <<i, k>>
    BY <2>1
  <2>3. p[i] \in D /\ <<p[i], k>> \in Units(list, severity)
    BY <1>1, UnitsAre
  <2> QED
    BY <2>2, <2>3
<1>4. move \in [A -> B]
  BY <1>3
<1>5. \A x, y \in A : move[x] = move[y] => x = y
  BY <1>1, <1>3
<1>6. \A y \in B : \E x \in A : move[x] = y
  <2> SUFFICES ASSUME NEW y \in B PROVE \E x \in A : move[x] = y
    OBVIOUS
  <2>1. PICK j \in D : \E k \in 1 .. list[j].counts[severity] : y = <<j, k>>
    BY UnitsAre
  <2>2. PICK k \in 1 .. list[j].counts[severity] : y = <<j, k>>
    BY <2>1
  <2>3. PICK i \in D : p[i] = j
    BY <1>1
  <2>4. <<i, k>> \in A
    BY <1>2, <2>2, <2>3, UnitsAre
  <2> QED
    BY <2>2, <2>3, <2>4
<1>7. IsFiniteSet(B)
  BY TotalType
<1>8. Total(list, severity) = Cardinality(B) /\ Total(sorted, severity) = Cardinality(A)
  BY DEF Total, Units
<1> HIDE DEF A, B, move
<1>9. move \in Bijection(A, B)
  BY <1>4, <1>5, <1>6, Fun_IsBij
<1>10. ExistsBijection(B, A)
  BY <1>9, Fun_ExistsBijSymmetric DEF ExistsBijection
<1> QED
  BY <1>7, <1>8, <1>10, FS_Bijection DEF sorted

(* A tally is a number.                                                    *)
LEMMA TallyType ==
  ASSUME NEW list \in Seq(Highlight), NEW severity
  PROVE  /\ IsFiniteSet(Tallied(list, severity)) /\ Cardinality(Tallied(list, severity)) \in Nat
         /\ Tallied(list, severity) \in SUBSET DOMAIN list
<1>1. Tallied(list, severity) \in SUBSET DOMAIN list
  BY DEF Tallied
<1> QED
  BY <1>1, IndicesFinite

(* An index of a list of one is 1.                                         *)
LEMMA OnlyOne ==
  ASSUME NEW x
  PROVE  DOMAIN <<x>> = {1} /\ <<x>>[1] = x
<1>1. DOMAIN <<x>> = 1 .. 1 /\ <<x>>[1] = x
  OBVIOUS
<1>2. 1 .. 1 = {1}
  OBVIOUS
<1> QED
  BY <1>1, <1>2

(* A sensor whose path was refused: its one error stays its own, while the *)
(* highlight that tells of it is cockpitctl's.                             *)
Rejections(list) ==
  {i \in DOMAIN list : list[i].presence = "missing" /\ "path_traversal" \in list[i].reasons}

(* The counts of a handler's summary.                                      *)
CountedAs(r) ==
  \A severity \in Severity :
    r.summary.counts[severity] =
      Cardinality(Tallied(r.highlights, severity))
      + IF severity = "error" /\ r.summary.presence = "missing" /\ "path_traversal" \in r.summary.reasons
        THEN 1 ELSE 0

(* One severity's count is the number of the findings of that severity.     *)
LEMMA CountOf ==
  ASSUME NEW findings, NEW severity \in Severity
  PROVE  compute_counts(findings)[severity] =
           Cardinality({i \in DOMAIN findings : findings[i].severity = severity})
<1>1. /\ compute_counts(findings).info = Cardinality({i \in DOMAIN findings : findings[i].severity = "info"})
      /\ compute_counts(findings).warn = Cardinality({i \in DOMAIN findings : findings[i].severity = "warn"})
      /\ compute_counts(findings).error = Cardinality({i \in DOMAIN findings : findings[i].severity = "error"})
  BY DEF compute_counts
<1>2. severity = "info" \/ severity = "warn" \/ severity = "error"
  BY DEF Severity
<1> QED
  BY <1>1, <1>2

(* Of findings that are not about cockpitctl itself, counting them and     *)
(* counting the highlights made of them is the same.                       *)
LEMMA CountsAreTallied ==
  ASSUME NEW id \in Nat, NEW findings \in Seq(Finding), NEW severity \in Severity,
         \A i \in DOMAIN findings : findings[i].code \notin AboutItself
  PROVE  compute_counts(findings)[severity] = Cardinality(Tallied(Under(id, findings), severity))
<1>1. compute_counts(findings)[severity] =
        Cardinality({i \in DOMAIN findings : findings[i].severity = severity})
  BY CountOf
<1>2. Tallied(Under(id, findings), severity) = {i \in DOMAIN findings : findings[i].severity = severity}
  BY DEF Tallied, Under
<1> QED
  BY <1>1, <1>2

(* What cockpitctl reports of itself is in no tally.                       *)
LEMMA OwnNotTallied ==
  ASSUME NEW list, NEW severity, \A i \in DOMAIN list : list[i].finding.code \in AboutItself
  PROVE  Tallied(list, severity) = {} /\ Cardinality(Tallied(list, severity)) = 0
BY FS_EmptySet DEF Tallied

(* The handlers that make a finding up.                                    *)
LEMMA MadeUpCounted ==
  ASSUME NEW id \in Nat, NEW policy \in SensorPolicy, NEW comment_path \in BOOLEAN
  PROVE  /\ CountedAs(synthesize_missing_sensor(id, policy, comment_path))
         /\ CountedAs(synthesize_path_traversal_sensor(id, policy, comment_path))
         /\ CountedAs(synthesize_invalid_sensor(id, policy, comment_path))
         /\ CountedAs(synthesize_schema_violation_sensor(id, policy, comment_path))
         /\ \A size \in Nat : CountedAs(synthesize_receipt_oversized_sensor(id, policy, comment_path, size))
<1>1. CountedAs(synthesize_missing_sensor(id, policy, comment_path))
  <2> DEFINE severity == [skip |-> "info", warn |-> "warn", fail |-> "error"][policy.missing]
             findings == IF policy.missing = "skip" THEN << >>
                         ELSE <<Synthesized(severity, MISSING_RECEIPT, id, None)>>
             r == synthesize_missing_sensor(id, policy, comment_path)
  <2>1. policy.missing \in {"skip", "warn", "fail"}
    BY DEF SensorPolicy, MissingPolicy
  <2>2. severity \in Severity
    BY <2>1 DEF Severity
  <2>3. findings \in Seq(Finding)
    <3> HIDE DEF severity
    <3>1. MISSING_RECEIPT \in Nat
      BY DEF MISSING_RECEIPT
    <3> QED
      BY <2>2, <3>1, SynthesizedType
  <2>4. \A i \in DOMAIN findings : findings[i].code \notin AboutItself
    <3>1. MISSING_RECEIPT \notin AboutItself
      BY DEF MISSING_RECEIPT, AboutItself, PATH_TRAVERSAL, RECEIPT_INCONSISTENT, SENSORS_TRUNCATED
    <3> HIDE DEF severity
    <3>2. Synthesized(severity, MISSING_RECEIPT, id, None).code = MISSING_RECEIPT
      BY DEF Synthesized
    <3> QED
      BY <3>1, <3>2, OnlyOne
  <2>5. /\ r.summary.counts = compute_counts(findings) /\ "path_traversal" \notin r.summary.reasons
        /\ r.highlights = Under(id, findings)
    BY DEF synthesize_missing_sensor, Summary
  <2> HIDE DEF findings, r
  <2>6. \A s \in Severity : Cardinality(Tallied(r.highlights, s)) \in Nat
    BY <2>3, <2>5, UnderType, TallyType
  <2>7. CountedAs(r)
    BY <2>3, <2>4, <2>5, <2>6, CountsAreTallied DEF CountedAs
  <2> QED
    BY <2>7 DEF r
<1>2. ASSUME NEW code \in Nat \ AboutItself, NEW reason
      PROVE  CountedAs(Unusable(id, policy, comment_path, code, reason))
  <2> DEFINE findings == <<Synthesized("error", code, id, None)>>
             r == Unusable(id, policy, comment_path, code, reason)
  <2>1. findings \in Seq(Finding)
    BY SynthesizedType DEF Severity
  <2>2. \A i \in DOMAIN findings : findings[i].code \notin AboutItself
    <3>1. Synthesized("error", code, id, None).code = code
      BY DEF Synthesized
    <3> QED
      BY <1>2, <3>1, OnlyOne
  <2>3. /\ r.summary.counts = compute_counts(findings) /\ r.summary.presence # "missing"
        /\ r.highlights = Under(id, findings)
    BY DEF Unusable, Summary
  <2> HIDE DEF findings, r
  <2>4. \A s \in Severity : Cardinality(Tallied(r.highlights, s)) \in Nat
    BY <2>1, <2>3, UnderType, TallyType
  <2>5. CountedAs(r)
    BY <2>1, <2>2, <2>3, <2>4, CountsAreTallied DEF CountedAs
  <2> QED
    BY <2>5 DEF r
<1>3. CountedAs(synthesize_invalid_sensor(id, policy, comment_path))
  <2>1. INVALID_RECEIPT \in Nat \ AboutItself
    BY DEF INVALID_RECEIPT, AboutItself, PATH_TRAVERSAL, RECEIPT_INCONSISTENT, SENSORS_TRUNCATED
  <2> QED
    BY <1>2, <2>1 DEF synthesize_invalid_sensor
<1>4. CountedAs(synthesize_schema_violation_sensor(id, policy, comment_path))
  <2>1. SCHEMA_VIOLATION \in Nat \ AboutItself
    BY DEF SCHEMA_VIOLATION, AboutItself, PATH_TRAVERSAL, RECEIPT_INCONSISTENT, SENSORS_TRUNCATED
  <2> QED
    BY <1>2, <2>1 DEF synthesize_schema_violation_sensor
<1>5. ASSUME NEW size \in Nat
      PROVE  CountedAs(synthesize_receipt_oversized_sensor(id, policy, comment_path, size))
  <2> DEFINE findings == <<Synthesized("error", RECEIPT_OVERSIZED, id, <<3, id, size>>)>>
             r == synthesize_receipt_oversized_sensor(id, policy, comment_path, size)
  <2>1. findings \in Seq(Finding)
    <3>1. <<3, id, size>> \in Fingerprint
      BY DEF Fingerprint
    <3>2. RECEIPT_OVERSIZED \in Nat /\ "error" \in Severity
      BY DEF RECEIPT_OVERSIZED, Severity
    <3> QED
      BY <3>1, <3>2, SynthesizedType
  <2>2. \A i \in DOMAIN findings : findings[i].code \notin AboutItself
    <3>1. RECEIPT_OVERSIZED \notin AboutItself
      BY DEF RECEIPT_OVERSIZED, AboutItself, PATH_TRAVERSAL, RECEIPT_INCONSISTENT, SENSORS_TRUNCATED
    <3>2. Synthesized("error", RECEIPT_OVERSIZED, id, <<3, id, size>>).code = RECEIPT_OVERSIZED
      BY DEF Synthesized
    <3> QED
      BY <3>1, <3>2, OnlyOne
  <2>3. /\ r.summary.counts = compute_counts(findings) /\ r.summary.presence # "missing"
        /\ r.highlights = Under(CockpitId, findings)
    BY DEF synthesize_receipt_oversized_sensor, Summary
  <2> HIDE DEF findings, r
  <2>4. \A s \in Severity : Cardinality(Tallied(r.highlights, s)) \in Nat
    BY <2>1, <2>3, UnderType, TallyType, TypesAssumption
  <2>5. CountedAs(r)
    BY <2>1, <2>2, <2>3, <2>4, CountsAreTallied, TypesAssumption DEF CountedAs
  <2> QED
    BY <2>5 DEF r
<1>6. CountedAs(synthesize_path_traversal_sensor(id, policy, comment_path))
  <2> DEFINE highlights == synthesize_path_traversal_highlight(id, 1)
             f == Synthesized("error", PATH_TRAVERSAL, id, <<2, id, 1>>)
             r == synthesize_path_traversal_sensor(id, policy, comment_path)
  <2>1. highlights = <<[sensor_id |-> CockpitId, finding |-> f]>>
    BY DEF synthesize_path_traversal_highlight, Under
  <2>2. f.severity = "error" /\ f.code = PATH_TRAVERSAL
    BY DEF Synthesized
  <2> HIDE DEF f
  <2>3. highlights[1].finding = f /\ DOMAIN highlights = {1}
    BY <2>1, OnlyOne
  <2>4. /\ r.summary.counts = compute_counts(<<highlights[1].finding>>)
        /\ r.summary.presence = "missing" /\ "path_traversal" \in r.summary.reasons
        /\ r.highlights = highlights
    BY DEF synthesize_path_traversal_sensor, Summary
  <2> HIDE DEF highlights, r
  <2>5. \A s \in Severity : Cardinality(Tallied(r.highlights, s)) = 0
    BY <2>2, <2>3, <2>4, OwnNotTallied DEF AboutItself
  <2>6. \A s \in Severity : r.summary.counts[s] = Cardinality({i \in DOMAIN <<f>> : <<f>>[i].severity = s})
    BY <2>3, <2>4, CountOf
  <2>7. \A s \in Severity : {i \in DOMAIN <<f>> : <<f>>[i].severity = s} = IF s = "error" THEN {1} ELSE {}
    BY <2>2, OnlyOne
  <2>8. \A s \in Severity : r.summary.counts[s] = IF s = "error" THEN 1 ELSE 0
    <3>1. Cardinality({1}) = 1 /\ Cardinality({}) = 0
      BY FS_Singleton, FS_EmptySet
    <3> QED
      BY <2>6, <2>7, <3>1
  <2>9. CountedAs(r)
    BY <2>4, <2>5, <2>8 DEF CountedAs
  <2> QED
    BY <2>9 DEF r
<1> QED
  BY <1>1, <1>3, <1>4, <1>5, <1>6

(* What a receipt's summary is made of are findings of the receipt, and    *)
(* all of them unless there are more than the limit.                       *)
LEMMA SurfacedAreReported ==
  ASSUME NEW id \in Nat, NEW findings \in Seq(Finding), NEW max \in Nat
  PROVE  LET surfaced == cap_findings(sort_findings(id, findings), max).surfaced
         IN  /\ surfaced \in Seq(Finding)
             /\ \A k \in DOMAIN surfaced : \E i \in DOMAIN findings : surfaced[k] = findings[i]
             /\ ~cap_findings(sort_findings(id, findings), max).truncated =>
                  \A i \in DOMAIN findings : \E k \in DOMAIN surfaced : surfaced[k] = findings[i]
<1> DEFINE key == [i \in DOMAIN findings |-> finding_sort_key(id, findings[i])]
           sorted == SortByKey(findings, key)
           surfaced == Truncate(sorted, max)
<1>1. key \in [DOMAIN findings -> Keys(6)]
  BY FindingKeyType
<1>2. /\ cap_findings(sort_findings(id, findings), max).surfaced = surfaced
      /\ cap_findings(sort_findings(id, findings), max).truncated = (Len(sorted) > max)
  BY DEF cap_findings, sort_findings
<1> HIDE DEF key
<1>3. /\ sorted \in Seq(Finding) /\ Len(sorted) = Len(findings)
      /\ \E p \in Bijection(DOMAIN findings, DOMAIN findings) : sorted = [k \in DOMAIN findings |-> findings[p[k]]]
  BY <1>1, SortByKeySorts
<1> HIDE DEF sorted
<1>4. PICK p \in Bijection(DOMAIN findings, DOMAIN findings) : sorted = [k \in DOMAIN findings |-> findings[p[k]]]
  BY <1>3
<1>5. /\ p \in [DOMAIN findings -> DOMAIN findings]
      /\ \A i \in DOMAIN findings : \E k \in DOMAIN findings : p[k] = i
  BY Fun_BijectionProperties
<1>6. /\ surfaced \in Seq(Finding) /\ DOMAIN surfaced \subseteq DOMAIN sorted
      /\ \A k \in DOMAIN surfaced : surfaced[k] = sorted[k]
  BY <1>3, TruncateType
<1>7. \A k \in DOMAIN surfaced : \E i \in DOMAIN findings : surfaced[k] = findings[i]
  <2> HIDE DEF surfaced
  <2> QED
    BY <1>4, <1>5, <1>6
<1>8. ASSUME ~(Len(sorted) > max), NEW i \in DOMAIN findings
      PROVE  \E k \in DOMAIN surfaced : surfaced[k] = findings[i]
  <2>1. Len(sorted) <= max /\ Len(sorted) \in Nat /\ DOMAIN sorted = 1 .. Len(sorted)
    BY <1>3, <1>8
  <2>2. DOMAIN surfaced = DOMAIN sorted
    BY <2>1, <1>3 DEF Truncate
  <2>3. PICK k \in DOMAIN findings : p[k] = i
    BY <1>5
  <2> HIDE DEF surfaced
  <2>4. k \in DOMAIN surfaced /\ surfaced[k] = findings[p[k]]
    BY <1>4, <1>6, <2>2
  <2> QED
    BY <2>3, <2>4
<1> HIDE DEF surfaced
<1> QED
  BY <1>2, <1>6, <1>7, <1>8

(* The handler of a receipt that was read counts what it surfaces.         *)
LEMMA ReportCounted ==
  ASSUME NEW id \in Nat, NEW comment_path \in BOOLEAN, NEW policy \in SensorPolicy,
         NEW max \in Nat, NEW report,
         report.counts \in VerdictCounts, report.findings \in Seq(Finding),
         \A i \in DOMAIN report.findings : report.findings[i].code \notin AboutItself
  PROVE  CountedAs(summarize_sensor_report(id, comment_path, policy, report, max))
<1> DEFINE surfaced == cap_findings(sort_findings(id, report.findings), max).surfaced
           computed == compute_counts(surfaced)
           note == IF report.counts = computed THEN << >>
                   ELSE synthesize_receipt_inconsistent(id, report.counts, computed)
           r == summarize_sensor_report(id, comment_path, policy, report, max)
<1>1. /\ r.summary.counts = computed /\ r.summary.presence = "present"
      /\ r.highlights = note \o Under(id, surfaced)
  BY DEF summarize_sensor_report, Summary
<1>2. surfaced \in Seq(Finding) /\ \A k \in DOMAIN surfaced : surfaced[k].code \notin AboutItself
  <2> HIDE DEF surfaced
  <2>1. /\ surfaced \in Seq(Finding)
        /\ \A k \in DOMAIN surfaced : \E i \in DOMAIN report.findings : surfaced[k] = report.findings[i]
    BY SurfacedAreReported DEF surfaced
  <2> QED
    BY <2>1
<1> HIDE DEF surfaced
<1>3. computed \in VerdictCounts
  BY <1>2, CountsType
<1>4. note \in Seq(Highlight) /\ \A i \in DOMAIN note : note[i].finding.code \in AboutItself
  <2> DEFINE fp == <<4, id, report.counts.info, report.counts.warn, report.counts.error,
                     computed.info, computed.warn, computed.error>>
             f == Synthesized("info", RECEIPT_INCONSISTENT, id, fp)
             own == synthesize_receipt_inconsistent(id, report.counts, computed)
  <2>1. own \in Seq(Highlight)
    BY <1>3, InconsistentType
  <2>2. f.code = RECEIPT_INCONSISTENT
    BY DEF Synthesized
  <2>3. DOMAIN <<f>> = {1} /\ <<f>>[1] = f
    <3> HIDE DEF f
    <3> QED
      BY OnlyOne
  <2>4. own = Under(id, <<f>>)
    BY DEF synthesize_receipt_inconsistent
  <2> HIDE DEF f
  <2>5. own = [i \in DOMAIN <<f>> |-> [sensor_id |-> id, finding |-> <<f>>[i]]]
    BY <2>4 DEF Under
  <2>6. \A i \in DOMAIN own : own[i].finding = f
    BY <2>3, <2>5
  <2>7. \A i \in DOMAIN own : own[i].finding.code \in AboutItself
    BY <2>2, <2>6 DEF AboutItself
  <2> HIDE DEF own
  <2>8. note = << >> \/ note = own
    BY DEF own
  <2> HIDE DEF note
  <2>9. << >> \in Seq(Highlight) /\ DOMAIN << >> = {}
    OBVIOUS
  <2>10. CASE note = << >>
    BY <2>9, <2>10
  <2>11. CASE note = own
    BY <2>1, <2>7, <2>11
  <2> QED
    BY <2>8, <2>10, <2>11
<1> HIDE DEF computed, note, r
<1>5. Under(id, surfaced) \in Seq(Highlight)
  BY <1>2, UnderType
<1>6. ASSUME NEW severity \in Severity
      PROVE  r.summary.counts[severity] = Cardinality(Tallied(r.highlights, severity))
  <2>1. computed[severity] = Cardinality(Tallied(Under(id, surfaced), severity))
    BY <1>2, CountsAreTallied DEF computed
  <2>2. Cardinality(Tallied(note, severity)) = 0
    BY <1>4, OwnNotTallied
  <2>3. Cardinality(Tallied(r.highlights, severity)) =
          Cardinality(Tallied(note, severity)) + Cardinality(Tallied(Under(id, surfaced), severity))
    BY <1>1, <1>4, <1>5, TalliedConcat
  <2>4. Cardinality(Tallied(Under(id, surfaced), severity)) \in Nat
    BY <1>5, TallyType
  <2> QED
    BY <1>1, <2>1, <2>2, <2>3, <2>4
<1>7. \A severity \in Severity : Cardinality(Tallied(r.highlights, severity)) \in Nat
  <2>1. r.highlights \in Seq(Highlight)
    BY <1>1, <1>4, <1>5
  <2> QED
    BY <2>1, TallyType
<1>8. CountedAs(r)
  BY <1>1, <1>6, <1>7 DEF CountedAs
<1> QED
  BY <1>8 DEF r

(***************************************************************************)
(* What a handler's highlights show.                                       *)
(***************************************************************************)

(* The form of a highlight's fingerprint, and what that form starts with:  *)
(* in form 1 the sensor the highlight is shown under.                      *)
Form(h) == fingerprint_of(h)[1]
Origin(h) == fingerprint_of(h)[2]

(* The severity at which a status shows.                                   *)
Grade(status) == IF status = "fail" THEN "error" ELSE "warn"

(* What cockpitctl says of a path or a size is an error, a derived          *)
(* fingerprint names the sensor, and a summary of a sensor whose receipt   *)
(* was not read has one highlight, as severe as the summary's status.      *)
Speaks(r, id) ==
  /\ \A i \in DOMAIN r.highlights :
       /\ Form(r.highlights[i]) \in {2, 3} => r.highlights[i].finding.severity = "error"
       /\ Form(r.highlights[i]) = 1 => Origin(r.highlights[i]) = id
  /\ r.summary.presence # "present" /\ r.summary.status \in {"fail", "warn"} =>
       /\ \E i \in DOMAIN r.highlights : Form(r.highlights[i]) \in {1, 2, 3}
       /\ \A i \in DOMAIN r.highlights : r.highlights[i].finding.severity = Grade(r.summary.status)

(* A finding without a fingerprint gets one that names its sensor.         *)
LEMMA FormOfDerived ==
  ASSUME NEW id, NEW severity, NEW code, NEW message,
         NEW h, h = [sensor_id |-> id, finding |-> Synthesized(severity, code, message, None)]
  PROVE  Form(h) = 1 /\ Origin(h) = id /\ h.finding.severity = severity
<1>1. /\ h.sensor_id = id /\ h.finding.fingerprint = None /\ h.finding.severity = severity
  BY DEF Synthesized
<1>2. fingerprint_of(h) = derive_fingerprint(id, h.finding)
  BY <1>1 DEF fingerprint_of
<1>3. derive_fingerprint(id, h.finding)[1] = 1 /\ derive_fingerprint(id, h.finding)[2] = id
  BY DEF derive_fingerprint
<1> QED
  BY <1>1, <1>2, <1>3 DEF Form, Origin

(* One of cockpitctl's with a fingerprint keeps it.                        *)
LEMMA FormOfOwn ==
  ASSUME NEW id, NEW severity, NEW code, NEW message, NEW fingerprint, NEW h,
         h = [sensor_id |-> id, finding |-> Synthesized(severity, code, message, fingerprint)],
         fingerprint # None
  PROVE  Form(h) = fingerprint[1] /\ h.finding.severity = severity
<1>1. h.finding.fingerprint = fingerprint /\ h.finding.severity = severity
  BY DEF Synthesized
<1> QED
  BY <1>1 DEF Form, fingerprint_of

(* The highlights of one finding: one, shown under the given name.         *)
LEMMA UnderOne ==
  ASSUME NEW id, NEW f
  PROVE  LET list == Under(id, <<f>>)
         IN  DOMAIN list = {1} /\ list[1] = [sensor_id |-> id, finding |-> f]
<1>1. DOMAIN <<f>> = {1} /\ <<f>>[1] = f
  BY OnlyOne
<1> QED
  BY <1>1 DEF Under

(* A failure told by an error of cockpitctl's own about a path or a size.  *)
LEMMA OwnSpeaks ==
  ASSUME NEW id, NEW r, NEW code, NEW fp, fp # None, fp[1] \in {2, 3},
         r.highlights = Under(CockpitId, <<Synthesized("error", code, id, fp)>>),
         r.summary.status = "fail"
  PROVE  Speaks(r, id)
<1> DEFINE f == Synthesized("error", code, id, fp)
<1>1. DOMAIN r.highlights = {1} /\ r.highlights[1] = [sensor_id |-> CockpitId, finding |-> f]
  <2>1. r.highlights = Under(CockpitId, <<f>>)
    OBVIOUS
  <2> HIDE DEF f
  <2> QED
    BY <2>1, UnderOne
<1>2. \A h : h = [sensor_id |-> CockpitId, finding |-> f] => Form(h) = fp[1] /\ h.finding.severity = "error"
  BY FormOfOwn
<1> HIDE DEF f
<1>3. Form(r.highlights[1]) = fp[1] /\ r.highlights[1].finding.severity = "error"
  BY <1>1, <1>2
<1> QED
  BY <1>1, <1>3 DEF Speaks, Grade

(* The handlers that make a finding up.                                    *)
LEMMA MadeUpSpeaks ==
  ASSUME NEW id \in Nat, NEW policy \in SensorPolicy, NEW comment_path
  PROVE  /\ Speaks(synthesize_missing_sensor(id, policy, comment_path), id)
         /\ Speaks(synthesize_path_traversal_sensor(id, policy, comment_path), id)
         /\ Speaks(synthesize_invalid_sensor(id, policy, comment_path), id)
         /\ Speaks(synthesize_schema_violation_sensor(id, policy, comment_path), id)
         /\ \A size \in Nat : Speaks(synthesize_receipt_oversized_sensor(id, policy, comment_path, size), id)
<1>1. Speaks(synthesize_missing_sensor(id, policy, comment_path), id)
  <2> DEFINE severity == [skip |-> "info", warn |-> "warn", fail |-> "error"][policy.missing]
             f == Synthesized(severity, MISSING_RECEIPT, id, None)
             findings == IF policy.missing = "skip" THEN << >> ELSE <<f>>
             r == synthesize_missing_sensor(id, policy, comment_path)
  <2>1. policy.missing \in {"skip", "warn", "fail"}
    BY DEF SensorPolicy, MissingPolicy
  <2>2. r.summary.status = policy.missing /\ r.highlights = Under(id, findings)
    BY DEF synthesize_missing_sensor, Summary
  <2>3. CASE policy.missing = "skip"
    <3>1. DOMAIN r.highlights = {}
      BY <2>2, <2>3 DEF Under
    <3> HIDE DEF r
    <3>2. Speaks(r, id)
      BY <2>2, <2>3, <3>1 DEF Speaks
    <3> QED
      BY <3>2 DEF r
  <2>4. CASE policy.missing # "skip"
    <3>1. severity = Grade(policy.missing) /\ policy.missing \in {"warn", "fail"}
      BY <2>1, <2>4 DEF Grade
    <3> HIDE DEF severity
    <3>2. /\ DOMAIN r.highlights = {1}
          /\ r.highlights[1] = [sensor_id |-> id, finding |-> f]
      <4>1. r.highlights = Under(id, <<f>>)
        BY <2>2, <2>4
      <4> HIDE DEF f, r
      <4> QED
        BY <4>1, UnderOne
    <3>3. /\ Form(r.highlights[1]) = 1 /\ Origin(r.highlights[1]) = id
          /\ r.highlights[1].finding.severity = severity
      <4> HIDE DEF r
      <4> QED
        BY <3>2, FormOfDerived
    <3> HIDE DEF r
    <3>4. Speaks(r, id)
      BY <2>2, <3>1, <3>2, <3>3 DEF Speaks
    <3> QED
      BY <3>4 DEF r
  <2> QED
    BY <2>3, <2>4
<1>2. ASSUME NEW code, NEW reason
      PROVE  Speaks(Unusable(id, policy, comment_path, code, reason), id)
  <2> DEFINE f == Synthesized("error", code, id, None)
             r == Unusable(id, policy, comment_path, code, reason)
  <2>1. r.summary.status = "fail" /\ r.highlights = Under(id, <<f>>)
    BY DEF Unusable, Summary
  <2> HIDE DEF r
  <2>2. DOMAIN r.highlights = {1} /\ r.highlights[1] = [sensor_id |-> id, finding |-> f]
    <3> HIDE DEF f
    <3> QED
      BY <2>1, UnderOne
  <2>3. /\ Form(r.highlights[1]) = 1 /\ Origin(r.highlights[1]) = id
        /\ r.highlights[1].finding.severity = "error"
    BY <2>2, FormOfDerived
  <2> HIDE DEF f
  <2>4. Speaks(r, id)
    BY <2>1, <2>2, <2>3 DEF Speaks, Grade
  <2> QED
    BY <2>4 DEF r
<1>3. Speaks(synthesize_path_traversal_sensor(id, policy, comment_path), id)
  <2> DEFINE r == synthesize_path_traversal_sensor(id, policy, comment_path)
             f == Synthesized("error", PATH_TRAVERSAL, id, <<2, id, 1>>)
  <2>1. r.summary.status = "fail" /\ r.highlights = Under(CockpitId, <<f>>)
    BY DEF synthesize_path_traversal_sensor, synthesize_path_traversal_highlight, Summary
  <2>2. <<2, id, 1>> # None /\ <<2, id, 1>>[1] \in {2, 3}
    <3>1. <<2, id, 1>> \in Seq(Nat)
      OBVIOUS
    <3> QED
      BY <3>1, TypesAssumption
  <2> HIDE DEF r
  <2>3. Speaks(r, id)
    BY <2>1, <2>2, OwnSpeaks
  <2> QED
    BY <2>3 DEF r
<1>4. ASSUME NEW size \in Nat
      PROVE  Speaks(synthesize_receipt_oversized_sensor(id, policy, comment_path, size), id)
  <2> DEFINE r == synthesize_receipt_oversized_sensor(id, policy, comment_path, size)
             f == Synthesized("error", RECEIPT_OVERSIZED, id, <<3, id, size>>)
  <2>1. r.summary.status = "fail" /\ r.highlights = Under(CockpitId, <<f>>)
    BY DEF synthesize_receipt_oversized_sensor, Summary
  <2>2. <<3, id, size>> # None /\ <<3, id, size>>[1] \in {2, 3}
    <3>1. <<3, id, size>> \in Seq(Nat)
      OBVIOUS
    <3> QED
      BY <3>1, TypesAssumption
  <2> HIDE DEF r
  <2>3. Speaks(r, id)
    BY <2>1, <2>2, OwnSpeaks
  <2> QED
    BY <2>3 DEF r
<1> QED
  BY <1>1, <1>2, <1>3, <1>4 DEF synthesize_invalid_sensor, synthesize_schema_violation_sensor

(* The handler of a receipt that was read speaks of its sensor only, when  *)
(* the receipt does not borrow cockpitctl's own fingerprints.              *)
LEMMA ReportSpeaks ==
  ASSUME NEW id \in Nat, NEW comment_path, NEW policy, NEW max \in Nat, NEW report,
         report.counts \in VerdictCounts, report.findings \in Seq(Finding),
         \A i \in DOMAIN report.findings :
           report.findings[i].fingerprint # None => report.findings[i].fingerprint[1] = 0
  PROVE  Speaks(summarize_sensor_report(id, comment_path, policy, report, max), id)
<1> DEFINE surfaced == cap_findings(sort_findings(id, report.findings), max).surfaced
           computed == compute_counts(surfaced)
           fp == <<4, id, report.counts.info, report.counts.warn, report.counts.error,
                   computed.info, computed.warn, computed.error>>
           f == Synthesized("info", RECEIPT_INCONSISTENT, id, fp)
           note == IF report.counts = computed THEN << >> ELSE Under(id, <<f>>)
           list == Under(id, surfaced)
           r == summarize_sensor_report(id, comment_path, policy, report, max)
           Quiet(h) == /\ Form(h) \notin {2, 3}
                       /\ Form(h) = 1 => Origin(h) = id
<1>1. r.summary.presence = "present" /\ r.highlights = note \o list
  BY DEF summarize_sensor_report, Summary, synthesize_receipt_inconsistent
<1>2. /\ surfaced \in Seq(Finding)
      /\ \A k \in DOMAIN surfaced : surfaced[k].fingerprint # None => surfaced[k].fingerprint[1] = 0
  <2> HIDE DEF surfaced
  <2>1. /\ surfaced \in Seq(Finding)
        /\ \A k \in DOMAIN surfaced : \E i \in DOMAIN report.findings : surfaced[k] = report.findings[i]
    BY SurfacedAreReported DEF surfaced
  <2> QED
    BY <2>1
<1> HIDE DEF surfaced, r
<1>3. \A k \in DOMAIN list : Quiet(list[k])
  <2> SUFFICES ASSUME NEW k \in DOMAIN list PROVE Quiet(list[k])
    OBVIOUS
  <2> DEFINE h == list[k]
  <2>1. k \in DOMAIN surfaced /\ h = [sensor_id |-> id, finding |-> surfaced[k]]
    BY DEF Under
  <2> HIDE DEF h
  <2>2. CASE surfaced[k].fingerprint = None
    <3>1. fingerprint_of(h) = derive_fingerprint(id, surfaced[k])
      BY <2>1, <2>2 DEF fingerprint_of
    <3>2. derive_fingerprint(id, surfaced[k])[1] = 1 /\ derive_fingerprint(id, surfaced[k])[2] = id
      BY DEF derive_fingerprint
    <3>3. Quiet(h)
      BY <3>1, <3>2 DEF Form, Origin
    <3> QED
      BY <3>3 DEF h
  <2>3. CASE surfaced[k].fingerprint # None
    <3>1. Form(h) = 0
      BY <1>2, <2>1, <2>3 DEF Form, fingerprint_of
    <3>2. Quiet(h)
      BY <3>1
    <3> QED
      BY <3>2 DEF h
  <2> QED
    BY <2>2, <2>3
<1>4. computed \in VerdictCounts
  BY <1>2, CountsType
<1> HIDE DEF computed
<1>5. fp[1] = 4 /\ fp # None
  <2>1. fp \in Seq(Nat)
    BY <1>4 DEF VerdictCounts
  <2> QED
    BY <2>1, TypesAssumption
<1> HIDE DEF fp
<1>6. \A k \in DOMAIN note : Quiet(note[k])
  <2>1. DOMAIN << >> = {}
    OBVIOUS
  <2>2. DOMAIN Under(id, <<f>>) = {1} /\ Under(id, <<f>>)[1] = [sensor_id |-> id, finding |-> f]
    <3> HIDE DEF f
    <3> QED
      BY UnderOne
  <2>3. Form(Under(id, <<f>>)[1]) = 4
    BY <1>5, <2>2, FormOfOwn
  <2> HIDE DEF f
  <2> QED
    BY <2>1, <2>2, <2>3
<1>7. note \in Seq(Highlight) /\ list \in Seq(Highlight)
  <2>1. synthesize_receipt_inconsistent(id, report.counts, computed) \in Seq(Highlight)
    BY <1>4, InconsistentType
  <2>2. Under(id, <<f>>) \in Seq(Highlight)
    BY <2>1 DEF synthesize_receipt_inconsistent, fp
  <2>3. << >> \in Seq(Highlight)
    OBVIOUS
  <2> HIDE DEF f
  <2> QED
    BY <1>2, <2>2, <2>3, UnderType
<1> HIDE DEF note, list, Quiet
<1>8. ASSUME NEW i \in DOMAIN r.highlights
      PROVE  Quiet(r.highlights[i])
  <2>1. \/ i \in DOMAIN note /\ r.highlights[i] = note[i]
        \/ i - Len(note) \in DOMAIN list /\ r.highlights[i] = list[i - Len(note)]
    BY <1>1, <1>7
  <2> QED
    BY <1>3, <1>6, <2>1
<1>9. Speaks(r, id)
  BY <1>1, <1>8 DEF Speaks, Quiet
<1> QED
  BY <1>9 DEF r

(***************************************************************************)
(* Lists of lists.                                                         *)
(***************************************************************************)

(* FlattenSeq appends one list after the other.                            *)
LEMMA FlattenSteps ==
  ASSUME NEW S, NEW seqs \in Seq(Seq(S)), Len(seqs) # 0
  PROVE  \E f \in [1 .. Len(seqs) -> Seq(S)] :
           /\ FlattenSeq(seqs) = f[Len(seqs)]
           /\ f[1] = seqs[1]
           /\ \A i \in 2 .. Len(seqs) : f[i] = f[i - 1] \o seqs[i]
<1> DEFINE n == Len(seqs)
           Built(m, f) == /\ f \in [1 .. m -> Seq(S)]
                          /\ \A i \in 1 .. m : f[i] = IF i = 1 THEN seqs[i] ELSE f[i - 1] \o seqs[i]
           Failing == {m \in 1 .. n : ~\E f : Built(m, f)}
<1>1. n \in Nat \ {0} /\ \A i \in 1 .. n : seqs[i] \in Seq(S)
  OBVIOUS
<1> HIDE DEF n
<1>2. ASSUME Failing # {}
      PROVE  FALSE
  <2>1. Failing \in SUBSET Nat
    BY <1>1
  <2>2. PICK m \in Failing : \A i \in Failing : m <= i
    BY <1>2, <2>1, LeastNatural
  <2>3. m \in 1 .. n /\ ~\E f : Built(m, f)
    BY <2>2
  <2>4. CASE m = 1
    <3> DEFINE f == [i \in 1 .. 1 |-> seqs[1]]
    <3>1. f \in [1 .. 1 -> Seq(S)] /\ \A i \in 1 .. 1 : i = 1 /\ f[i] = seqs[1]
      BY <1>1
    <3>2. Built(1, f)
      BY <3>1
    <3> QED
      BY <2>3, <2>4, <3>2
  <2>5. CASE m # 1
    <3>1. m - 1 \in 1 .. n /\ m - 1 \notin Failing /\ m \in Nat
      <4>1. m - 1 \in 1 .. n /\ m \in Nat /\ ~(m <= m - 1)
        BY <1>1, <2>3, <2>5
      <4> HIDE DEF Failing
      <4> QED
        BY <2>2, <4>1
    <3>2. PICK g : Built(m - 1, g)
      BY <3>1
    <3> DEFINE f == [i \in 1 .. m |-> IF i < m THEN g[i] ELSE g[m - 1] \o seqs[m]]
    <3>3. \A i \in 1 .. (m - 1) : g[i] \in Seq(S)
      BY <3>2
    <3>4. g[m - 1] \o seqs[m] \in Seq(S)
      BY <1>1, <2>3, <2>5, <3>1, <3>3
    <3>5. f \in [1 .. m -> Seq(S)]
      BY <3>1, <3>3, <3>4
    <3>6. ASSUME NEW i \in 1 .. m
          PROVE  f[i] = IF i = 1 THEN seqs[i] ELSE f[i - 1] \o seqs[i]
      <4>1. CASE i < m
        <5>1. i \in 1 .. (m - 1) /\ f[i] = g[i] /\ (i # 1 => i - 1 \in 1 .. m /\ f[i - 1] = g[i - 1])
          BY <3>1, <4>1
        <5> QED
          BY <3>2, <5>1
      <4>2. CASE i = m
        <5>0. i # 1 /\ i \in 1 .. m /\ i - 1 \in 1 .. m /\ i - 1 < m /\ ~(i < m)
          BY <2>5, <3>1, <4>2
        <5>1. f[i - 1] = g[m - 1] /\ f[i] = g[m - 1] \o seqs[m]
          BY <4>2, <5>0
        <5> QED
          BY <4>2, <5>0, <5>1
      <4> QED
        BY <3>1, <4>1, <4>2
    <3>7. Built(m, f)
      BY <3>5, <3>6
    <3> QED
      BY <2>3, <3>7
  <2> QED
    BY <2>4, <2>5
<1>3. PICK g : Built(n, g)
  <2>1. n \in 1 .. n
    BY <1>1
  <2>2. n \notin Failing
    <3> HIDE DEF Failing
    <3> QED
      BY <1>2
  <2> QED
    BY <2>1, <2>2
<1>4. g = [i \in 1 .. n |-> IF i = 1 THEN seqs[i] ELSE g[i - 1] \o seqs[i]]
  BY <1>3
<1> DEFINE F == CHOOSE f : f = [i \in 1 .. n |-> IF i = 1 THEN seqs[i] ELSE f[i - 1] \o seqs[i]]
<1>5. F = [i \in 1 .. n |-> IF i = 1 THEN seqs[i] ELSE F[i - 1] \o seqs[i]]
  BY <1>4
<1>6. FlattenSeq(seqs) = F[n]
  BY <1>1 DEF FlattenSeq, n
<1> HIDE DEF F
<1>7. /\ DOMAIN F = 1 .. n /\ F = [i \in 1 .. n |-> F[i]]
      /\ \A i \in 1 .. n : F[i] = IF i = 1 THEN seqs[i] ELSE F[i - 1] \o seqs[i]
  BY <1>5
<1>8. F[1] = seqs[1] /\ \A i \in 2 .. n : F[i] = F[i - 1] \o seqs[i]
  <2>1. 1 \in 1 .. n /\ \A i \in 2 .. n : i \in 1 .. n /\ i # 1
    BY <1>1
  <2> QED
    BY <1>7, <2>1
<1>9. \A i \in 1 .. n : F[i] \in Seq(S)
  <2> DEFINE Bad == {i \in 1 .. n : F[i] \notin Seq(S)}
  <2>1. ASSUME Bad # {}
        PROVE  FALSE
    <3>1. PICK i \in Bad : \A j \in Bad : i <= j
      <4>1. Bad \in SUBSET Nat
        OBVIOUS
      <4> QED
        BY <2>1, <4>1, LeastNatural
    <3>2. i \in 1 .. n /\ F[i] \notin Seq(S) /\ (i # 1 => i - 1 \in 1 .. n /\ F[i - 1] \in Seq(S))
      BY <1>1, <3>1
    <3>3. seqs[i] \in Seq(S)
      BY <1>1, <3>2
    <3>4. CASE i = 1
      BY <1>8, <3>2, <3>3, <3>4
    <3>5. CASE i # 1
      <4>1. i \in 2 .. n
        BY <1>1, <3>2, <3>5
      <4>2. F[i] = F[i - 1] \o seqs[i]
        BY <1>8, <4>1
      <4> QED
        BY <3>2, <3>3, <3>5, <4>2
    <3> QED
      BY <3>4, <3>5
  <2> QED
    BY <2>1
<1>10. F \in [1 .. n -> Seq(S)]
  BY <1>7, <1>9
<1> QED
  BY <1>6, <1>8, <1>10 DEF n

LEMMA InBoth ==
  ASSUME NEW S, NEW a \in Seq(S), NEW b \in Seq(S)
  PROVE  /\ a \o b \in Seq(S) /\ Len(a) \in Nat /\ Len(b) \in Nat /\ Len(a \o b) = Len(a) + Len(b)
         /\ \A j \in DOMAIN a : j \in DOMAIN (a \o b) /\ (a \o b)[j] = a[j]
         /\ \A j \in DOMAIN b : Len(a) + j \in DOMAIN (a \o b) /\ (a \o b)[Len(a) + j] = b[j]
<1> DEFINE m == Len(a)
           l == Len(b)
<1>1. /\ m \in Nat /\ l \in Nat /\ DOMAIN a = 1 .. m /\ DOMAIN b = 1 .. l
      /\ a \o b \in Seq(S) /\ Len(a \o b) = m + l
  OBVIOUS
<1>0. \A i \in 1 .. (m + l) : (a \o b)[i] = IF i <= m THEN a[i] ELSE b[i - m]
  OBVIOUS
<1>7. DOMAIN (a \o b) = 1 .. Len(a \o b)
  BY <1>1
<1> HIDE DEF m, l
<1>2. \A j \in 1 .. m : j \in 1 .. (m + l) /\ j <= m
  BY <1>1
<1>3. \A j \in 1 .. l : m + j \in 1 .. (m + l) /\ ~(m + j <= m) /\ (m + j) - m = j
  BY <1>1
<1>4. \A j \in 1 .. l : (a \o b)[m + j] = b[j]
  BY <1>0, <1>3
<1>5. \A j \in 1 .. m : (a \o b)[j] = a[j]
  BY <1>0, <1>2
<1>6. DOMAIN (a \o b) = 1 .. (m + l)
  BY <1>1, <1>7
<1> QED
  BY <1>1, <1>2, <1>3, <1>4, <1>5, <1>6 DEF m, l

LEMMA InSecond ==
  ASSUME NEW S, NEW a \in Seq(S), NEW b \in Seq(S), NEW j \in DOMAIN b
  PROVE  Len(a) + j \in DOMAIN (a \o b) /\ (a \o b)[Len(a) + j] = b[j]
BY InBoth

(* What is in one of the lists is in the flattened list.                   *)
LEMMA FlattenHolds ==
  ASSUME NEW S, NEW seqs \in Seq(Seq(S))
  PROVE  /\ FlattenSeq(seqs) \in Seq(S)
         /\ \A k \in DOMAIN seqs : \A i \in DOMAIN seqs[k] :
              \E j \in DOMAIN FlattenSeq(seqs) : FlattenSeq(seqs)[j] = seqs[k][i]
<1> DEFINE n == Len(seqs)
<1>1. n \in Nat /\ DOMAIN seqs = 1 .. n /\ \A k \in 1 .. n : seqs[k] \in Seq(S)
  OBVIOUS
<1>2. CASE n = 0
  <2>1. FlattenSeq(seqs) = seqs /\ seqs = << >> /\ DOMAIN seqs = {}
    BY <1>1, <1>2 DEF FlattenSeq
  <2>2. << >> \in Seq(S)
    OBVIOUS
  <2> QED
    BY <2>1, <2>2
<1>3. CASE n # 0
  <2>1. PICK f \in [1 .. n -> Seq(S)] : /\ FlattenSeq(seqs) = f[n] /\ f[1] = seqs[1]
                                       /\ \A i \in 2 .. n : f[i] = f[i - 1] \o seqs[i]
    BY <1>3, FlattenSteps
  <2> HIDE DEF n
  <2>2. n \in 1 .. n /\ f[n] \in Seq(S)
    BY <1>1, <1>3
  <2>3. ASSUME NEW k \in 1 .. n, NEW i \in DOMAIN seqs[k]
        PROVE  \E j \in DOMAIN f[n] : f[n][j] = seqs[k][i]
    <3> DEFINE Holds(m) == \E j \in DOMAIN f[m] : f[m][j] = seqs[k][i]
               Missing == {m \in k .. n : ~Holds(m)}
    <3>1. Holds(k)
      <4>1. CASE k = 1
        BY <2>1, <4>1
      <4>2. CASE k # 1
        <5>1. k \in 2 .. n /\ k - 1 \in 1 .. n
          BY <1>1, <4>2
        <5>2. f[k] = f[k - 1] \o seqs[k] /\ f[k - 1] \in Seq(S) /\ seqs[k] \in Seq(S)
          BY <1>1, <2>1, <5>1
        <5>3. /\ Len(f[k - 1]) + i \in DOMAIN (f[k - 1] \o seqs[k])
              /\ (f[k - 1] \o seqs[k])[Len(f[k - 1]) + i] = seqs[k][i]
          <6> DEFINE a == f[k - 1]
                     b == seqs[k]
          <6>1. a \in Seq(S) /\ b \in Seq(S) /\ i \in DOMAIN b
            BY <5>2
          <6> HIDE DEF a, b
          <6>2. Len(a) + i \in DOMAIN (a \o b) /\ (a \o b)[Len(a) + i] = b[i]
            BY <6>1, InSecond
          <6> QED
            BY <6>2 DEF a, b
        <5> QED
          BY <5>2, <5>3
      <4> QED
        BY <4>1, <4>2
    <3>2. ASSUME Missing # {}
          PROVE  FALSE
      <4>1. PICK m \in Missing : \A l \in Missing : m <= l
        <5>1. Missing \in SUBSET Nat
          BY <1>1
        <5> QED
          BY <3>2, <5>1, LeastNatural
      <4>2. m \in k .. n /\ ~Holds(m)
        OBVIOUS
      <4>3. m # k
        <5> HIDE DEF Holds
        <5> QED
          BY <3>1, <4>2
      <4>4. m \in 2 .. n /\ m - 1 \in k .. n /\ m - 1 \in 1 .. n /\ ~(m <= m - 1)
        BY <1>1, <4>2, <4>3
      <4>5. Holds(m - 1)
        <5> HIDE DEF Holds
        <5> QED
          BY <4>1, <4>4
      <4>6. PICK j \in DOMAIN f[m - 1] : f[m - 1][j] = seqs[k][i]
        BY <4>5
      <4>7. f[m] = f[m - 1] \o seqs[m] /\ f[m - 1] \in Seq(S) /\ seqs[m] \in Seq(S)
        <5>1. m \in 1 .. n
          BY <1>1, <4>2
        <5> QED
          BY <1>1, <2>1, <4>4, <5>1
      <4>8. j \in DOMAIN (f[m - 1] \o seqs[m]) /\ (f[m - 1] \o seqs[m])[j] = seqs[k][i]
        <5> DEFINE a == f[m - 1]
                   b == seqs[m]
        <5>1. a \in Seq(S) /\ b \in Seq(S) /\ j \in DOMAIN a /\ a[j] = seqs[k][i]
          BY <4>6, <4>7
        <5> HIDE DEF a, b
        <5>2. j \in DOMAIN (a \o b) /\ (a \o b)[j] = seqs[k][i]
          BY <5>1, InBoth
        <5> QED
          BY <5>2 DEF a, b
      <4>9. Holds(m)
        BY <4>7, <4>8
      <4> QED
        BY <4>2, <4>9
    <3>3. n \in k .. n /\ n \notin Missing
      <4>1. n \in k .. n
        BY <1>1
      <4> HIDE DEF Missing
      <4> QED
        BY <3>2, <4>1
    <3> QED
      BY <3>3
  <2> QED
    BY <1>1, <2>1, <2>2, <2>3
<1> QED
  BY <1>2, <1>3

(***************************************************************************)
(* From a receipt to the candidates.                                       *)
(***************************************************************************)

(* A list of highlights that has all of a sensor's findings.               *)
Lists(list, id, findings) ==
  \A i \in DOMAIN findings : \E j \in DOMAIN list : list[j] = [sensor_id |-> id, finding |-> findings[i]]

LEMMA TruncatedIsCapped ==
  ASSUME NEW id, NEW comment_path, NEW policy, NEW max, NEW receipt
  PROVE  summarize_sensor_report(id, comment_path, policy, receipt, max).summary.truncated
           = cap_findings(sort_findings(id, receipt.findings), max).truncated
<1> DEFINE capped == cap_findings(sort_findings(id, receipt.findings), max)
           made == Summary(id, policy, "present", comment_path, receipt.status, capped.surfaced,
                           IF receipt.counts = compute_counts(capped.surfaced) THEN receipt.reasons
                           ELSE receipt.reasons \cup {"receipt_inconsistent"})
<1>1. summarize_sensor_report(id, comment_path, policy, receipt, max).summary = [made EXCEPT !.truncated = capped.truncated]
  BY DEF summarize_sensor_report
<1>2. "truncated" \in DOMAIN made
  BY DEF Summary
<1> HIDE DEF capped, made
<1>3. [made EXCEPT !.truncated = capped.truncated].truncated = capped.truncated
  BY <1>2
<1> QED
  BY <1>1, <1>3 DEF capped

(* What summarize_sensor_report surfaces is among the candidates.          *)
LEMMA SurfacedAreCandidates ==
  ASSUME NEW id \in Nat, NEW comment_path, NEW policy \in SensorPolicy, NEW max \in Nat, NEW receipt,
         receipt.counts \in VerdictCounts, receipt.findings \in Seq(Finding)
  PROVE  Lists(summarize_sensor_report(id, comment_path, policy, receipt, max).highlights, id,
               cap_findings(sort_findings(id, receipt.findings), max).surfaced)
<1> DEFINE list == summarize_sensor_report(id, comment_path, policy, receipt, max).highlights
           surfaced == cap_findings(sort_findings(id, receipt.findings), max).surfaced
           computed == compute_counts(surfaced)
           consistent == receipt.counts = computed
           first == IF consistent THEN << >> ELSE synthesize_receipt_inconsistent(id, receipt.counts, computed)
           second == Under(id, surfaced)
<1>1. list = first \o second
  BY DEF summarize_sensor_report
<1>2. surfaced \in Seq(Finding)
  BY SurfacedAreReported
<1> HIDE DEF surfaced
<1>3. computed \in VerdictCounts
  BY <1>2, CountsType
<1> HIDE DEF computed
<1>4. first \in Seq(Highlight)
  BY <1>3, InconsistentType
<1>5. second \in Seq(Highlight) /\ DOMAIN second = DOMAIN surfaced
      /\ \A k \in DOMAIN surfaced : second[k] = [sensor_id |-> id, finding |-> surfaced[k]]
  <2>1. second \in Seq(Highlight)
    BY <1>2, UnderType
  <2> QED
    BY <2>1 DEF Under
<1> HIDE DEF first, second, list
<1>6. ASSUME NEW k \in DOMAIN surfaced
      PROVE  \E j \in DOMAIN list : list[j] = [sensor_id |-> id, finding |-> surfaced[k]]
  <2>1. k \in DOMAIN second /\ second[k] = [sensor_id |-> id, finding |-> surfaced[k]]
    BY <1>5
  <2>2. Len(first) + k \in DOMAIN (first \o second) /\ (first \o second)[Len(first) + k] = second[k]
    BY <1>4, <1>5, <2>1, InSecond
  <2> QED
    BY <1>1, <2>1, <2>2
<1> QED
  BY <1>6 DEF list, surfaced, Lists

(* So is everything the receipt reports, unless some of it is cut off.     *)
LEMMA SurfacedIsCandidate ==
  ASSUME NEW id \in Nat, NEW comment_path, NEW policy \in SensorPolicy, NEW max \in Nat, NEW receipt,
         receipt.counts \in VerdictCounts, receipt.findings \in Seq(Finding),
         ~cap_findings(sort_findings(id, receipt.findings), max).truncated
  PROVE  Lists(summarize_sensor_report(id, comment_path, policy, receipt, max).highlights, id, receipt.findings)
<1> DEFINE list == summarize_sensor_report(id, comment_path, policy, receipt, max).highlights
           surfaced == cap_findings(sort_findings(id, receipt.findings), max).surfaced
<1>1. Lists(list, id, surfaced)
  BY SurfacedAreCandidates
<1>2. \A i \in DOMAIN receipt.findings : \E k \in DOMAIN surfaced : surfaced[k] = receipt.findings[i]
  BY SurfacedAreReported
<1> HIDE DEF list, surfaced
<1>3. Lists(list, id, receipt.findings)
  BY <1>1, <1>2 DEF Lists
<1> QED
  BY <1>3 DEF list

(* Of every fingerprint one candidate survives the deduplication.          *)
LEMMA OneIsKept ==
  ASSUME NEW candidates \in Seq(Highlight), NEW j \in DOMAIN candidates
  PROVE  \E d \in Deduped(candidates) : fingerprint_of(candidates[d]) = fingerprint_of(candidates[j])
<1> DEFINE fp == fingerprint_of(candidates[j])
           Same == {i \in DOMAIN candidates : fingerprint_of(candidates[i]) = fp}
<1>1. DOMAIN candidates = 1 .. Len(candidates) /\ Len(candidates) \in Nat
  BY DomainFinite
<1>2. Same \in SUBSET Nat /\ Same # {}
  BY <1>1
<1>3. PICK d \in Same : \A i \in Same : d <= i
  BY <1>2, LeastNatural
<1>4. d \in DOMAIN candidates /\ fingerprint_of(candidates[d]) = fp
  OBVIOUS
<1> HIDE DEF fp
<1>5. \A i \in 1 .. (d - 1) : i \in DOMAIN candidates /\ ~(d <= i)
  BY <1>1, <1>4
<1>6. \A i \in 1 .. (d - 1) : i \notin Same
  <2> HIDE DEF Same
  <2> QED
    BY <1>3, <1>5
<1>7. \A i \in 1 .. (d - 1) : fingerprint_of(candidates[i]) # fp
  BY <1>5, <1>6
<1>8. d \in Deduped(candidates)
  BY <1>4, <1>7 DEF Deduped
<1> QED
  BY <1>4, <1>8 DEF fp
=============================================================================
