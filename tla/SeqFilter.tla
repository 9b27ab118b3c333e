------------------------------ MODULE SeqFilter ------------------------------
(***************************************************************************)
(* The subsequence of the elements of a sequence that belong to a set,     *)
(* defined without recursion so that proofs can reason about it: the k-th  *)
(* element of the filtered sequence is the element of s at the position    *)
(* where the k-th member of S occurs.  It is what SelectSeq(s, LAMBDA x :  *)
(* x \in S) computes; the histories of the models (what the caller was     *)
(* returned, the deltas applied) are filtered with it.                     *)
(***************************************************************************)
EXTENDS Naturals, Sequences, FiniteSets

(* How many of the first n elements of s belong to S.                      *)
Count(s, S, n) == Cardinality({i \in 1..n : s[i] \in S})

(* The element of s that is the k-th member of S among its elements.     *)
KthOf(s, S, k) ==
  CHOOSE y \in {s[i] : i \in {j \in 1..Len(s) : s[j] \in S /\ Count(s, S, j) = k}} : TRUE

Filter(s, S) == [k \in 1..Count(s, S, Len(s)) |-> KthOf(s, S, k)]
=============================================================================
