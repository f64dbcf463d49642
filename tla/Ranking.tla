------------------------------- MODULE Ranking -------------------------------
(***************************************************************************)
(* Sorting by a key, as sorted() does it: members of one key stay in their *)
(* order.  A place is a count and a sorted sequence the members by their   *)
(* place, so that the proofs can reason about what is sorted.              *)
(***************************************************************************)
EXTENDS Integers, FiniteSets

\* The place of i when the numbers I are sorted by key.
PlaceOf(I, key, i) ==
  Cardinality({j \in I : key[j] < key[i] \/ (key[j] = key[i] /\ j <= i)})

SortedBy(I, key) ==
  [k \in 1 .. Cardinality(I) |-> CHOOSE i \in I : PlaceOf(I, key, i) = k]

Ascending(I) == SortedBy(I, [i \in I |-> i])

\* [s[i] for i in range(len(s)) if i in I]
Picked(s, I) ==
  LET at == Ascending(I) IN [k \in DOMAIN at |-> s[at[k]]]
=============================================================================
