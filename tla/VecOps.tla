------------------------------- MODULE VecOps -------------------------------
(***************************************************************************)
(* Erasing marked elements from a std::vector.  ugtrain erases one element *)
(* at a time while it walks over the vector; the result is the sub-        *)
(* sequence of the elements that stay, in their old order.  It is written  *)
(* with the index set that stays and no recursion, so that two vectors     *)
(* erased with the same index set stay aligned by definition.              *)
(***************************************************************************)
EXTENDS Naturals, Sequences, FiniteSets

\* The number of elements of K up to and including i.
Rank(K, i) == Cardinality({k \in K : k <= i})

\* The j-th smallest element of K.
Nth(K, j) == CHOOSE i \in K : Rank(K, i) = j

\* The elements of s at the indices K, in order.
Keep(s, K) == [j \in 1..Cardinality(K) |-> s[Nth(K, j)]]

\* One pass that erases the elements at the indices D.
Without(s, D) == Keep(s, DOMAIN s \ D)

\* K such passes, each over what the one before has left.
WithoutTimes(s, D, K) ==
    LET left[k \in 0..K] == IF k = 0 THEN s ELSE Without(left[k - 1], D)
    IN  left[K]

\* The first index of x in s (find_addr_idx), for an x that occurs in s.
FirstIdx(s, x) ==
    CHOOSE i \in DOMAIN s : s[i] = x /\ \A k \in DOMAIN s : s[k] = x => i <= k
=============================================================================
