------------------------------ MODULE Ordering ------------------------------
(***************************************************************************)
(* Stable sorting, as Rust's slice::sort_by and sort_by_key do it.         *)
(*                                                                         *)
(* Every list cockpitctl publishes is sorted by a tuple key (Rust compares *)
(* tuples lexicographically) with a stable sort.  A key is a sequence of   *)
(* naturals here, and the order is given by ranks instead of by an         *)
(* algorithm: an index stands at the position counted by the indices that  *)
(* go before it.  There is no recursion, so what the operators promise can *)
(* be proved (DomainProofs).                                               *)
(***************************************************************************)
EXTENDS Naturals, Sequences, FiniteSets

(* a < b in lexicographic order; both keys have the same length. *)
KeyLess(a, b) ==
  \E i \in DOMAIN a : a[i] < b[i] /\ \A j \in 1 .. (i - 1) : a[j] = b[j]

(* Index j goes before index i: a smaller key, or an equal key and an      *)
(* earlier place in the input (stability).                                 *)
GoesBefore(key, j, i) ==
  \/ KeyLess(key[j], key[i])
  \/ key[j] = key[i] /\ j < i

(* How many of the indices in K go before index i. *)
Rank(K, key, i) == Cardinality({j \in K : GoesBefore(key, j, i)})

(* The indices in K, sorted: position k holds the index of rank k - 1. *)
StableOrder(K, key) ==
  [k \in 1 .. Cardinality(K) |-> CHOOSE i \in K : Rank(K, key, i) = k - 1]

(* The sequence s sorted by the keys of its elements. *)
SortByKey(s, key) ==
  [k \in DOMAIN s |-> s[StableOrder(DOMAIN s, key)[k]]]

(* A finite set of naturals as an increasing sequence: a BTreeMap's keys, or *)
(* a list of distinct names after sort().                                  *)
Ascending(S) == StableOrder(S, [i \in S |-> <<i>>])

(* The elements of s at the indices in K, in their order: Iterator::filter. *)
Pick(s, K) == [k \in 1 .. Cardinality(K) |-> s[Ascending(K)[k]]]

(* Vec::truncate. *)
Truncate(s, n) == SubSeq(s, 1, IF Len(s) <= n THEN Len(s) ELSE n)
=============================================================================
