-------------------------- MODULE SeqFilterTheorems --------------------------
(***************************************************************************)
(* What Filter does to the empty sequence and to a sequence extended by    *)
(* one element: the two facts every proof about a filtered history needs. *)
(***************************************************************************)
EXTENDS SeqFilter, FiniteSetTheorems, TLAPS

(* The members of S among the first n elements form a finite set, and      *)
(* there are no more of them among fewer elements.                         *)
LEMMA CountType ==
  ASSUME NEW s, NEW S, NEW n \in Nat
  PROVE  /\ IsFiniteSet({i \in 1..n : s[i] \in S})
         /\ Count(s, S, n) \in Nat
         /\ \A m \in 0..n : Count(s, S, m) <= Count(s, S, n)
<1>1. IsFiniteSet(1..n)
  BY FS_Interval
<1>2. IsFiniteSet({i \in 1..n : s[i] \in S})
  BY <1>1, FS_Subset
<1>3. Count(s, S, n) \in Nat
  BY <1>2, FS_CardinalityType DEF Count
<1>4. ASSUME NEW m \in 0..n PROVE Count(s, S, m) <= Count(s, S, n)
  <2>1. {i \in 1..m : s[i] \in S} \subseteq {i \in 1..n : s[i] \in S}
    OBVIOUS
  <2>2. QED
    BY <1>2, <2>1, FS_Subset DEF Count
<1>5. QED
  BY <1>2, <1>3, <1>4

LEMMA FilterEmpty ==
  ASSUME NEW S
  PROVE  Filter(<<>>, S) = <<>>
<1>1. Count(<<>>, S, 0) = 0
  <2>1. {i \in 1..0 : <<>>[i] \in S} = {}
    OBVIOUS
  <2>2. QED
    BY <2>1, FS_EmptySet DEF Count
<1>2. QED
  BY <1>1 DEF Filter

(* Appending an element of S appends it to the filtered sequence;          *)
(* appending anything else leaves the filtered sequence as it was.         *)
LEMMA FilterAppend ==
  ASSUME NEW T, NEW s \in Seq(T), NEW x, NEW S
  PROVE  Filter(Append(s, x), S) =
           IF x \in S THEN Append(Filter(s, S), x) ELSE Filter(s, S)
<1> DEFINE n == Len(s)
           t == Append(s, x)
           c == Count(s, S, n)
<1>0. n \in Nat /\ Len(t) = n + 1 /\ c \in Nat
  <2>1. n \in Nat /\ Len(t) = n + 1
    OBVIOUS
  <2>2. c \in Nat
    BY <2>1, CountType
  <2>3. QED
    BY <2>1, <2>2
<1>10. IsFiniteSet({i \in 1..n : s[i] \in S})
       /\ \A i \in 0..n : Count(s, S, i) <= c
  BY <1>0, CountType
<1>1. \A i \in 0..n : Count(t, S, i) = Count(s, S, i)
  <2> SUFFICES ASSUME NEW i \in 0..n PROVE Count(t, S, i) = Count(s, S, i)
    OBVIOUS
  <2>1. {j \in 1..i : t[j] \in S} = {j \in 1..i : s[j] \in S}
    OBVIOUS
  <2>2. QED
    BY <2>1 DEF Count
<1>2. Count(t, S, n + 1) = IF x \in S THEN c + 1 ELSE c
  <2>1. IsFiniteSet({i \in 1..n : s[i] \in S})
    BY <1>10
  <2>2. CASE x \in S
    <3>1. {i \in 1..n + 1 : t[i] \in S} = {i \in 1..n : s[i] \in S} \cup {n + 1}
      BY <2>2
    <3>2. n + 1 \notin {i \in 1..n : s[i] \in S}
      OBVIOUS
    <3>3. QED
      BY <2>1, <2>2, <3>1, <3>2, FS_AddElement DEF Count
  <2>3. CASE x \notin S
    <3>1. {i \in 1..n + 1 : t[i] \in S} = {i \in 1..n : s[i] \in S}
      BY <2>3
    <3>2. QED
      BY <2>3, <3>1 DEF Count
  <2>4. QED
    BY <2>2, <2>3
<1>3. \A i \in 0..n : Count(s, S, i) <= c
  BY <1>10
<1>4. ASSUME NEW k \in 1..c PROVE KthOf(t, S, k) = KthOf(s, S, k)
  <2>1. {j \in 1..n + 1 : t[j] \in S /\ Count(t, S, j) = k}
          = {j \in 1..n : s[j] \in S /\ Count(s, S, j) = k}
    <3> SUFFICES ASSUME NEW i \in 1..n + 1
                 PROVE  (t[i] \in S /\ Count(t, S, i) = k)
                        <=> (i \in 1..n /\ s[i] \in S /\ Count(s, S, i) = k)
      OBVIOUS
    <3>1. CASE i \in 1..n
      BY <3>1, <1>0, <1>1
    <3>2. CASE i = n + 1
      BY <3>2, <1>0, <1>2
    <3>3. QED
      BY <3>1, <3>2, <1>0
  <2>2. {t[i] : i \in {j \in 1..n + 1 : t[j] \in S /\ Count(t, S, j) = k}}
          = {s[i] : i \in {j \in 1..n : s[j] \in S /\ Count(s, S, j) = k}}
    BY <2>1, <1>0
  <2>3. QED
    BY <2>2, <1>0 DEF KthOf
<1>5. ASSUME x \in S PROVE KthOf(t, S, c + 1) = x
  <2>1. {j \in 1..n + 1 : t[j] \in S /\ Count(t, S, j) = c + 1} = {n + 1}
    BY <1>5, <1>0, <1>1, <1>2, <1>3
  <2>2. {t[i] : i \in {j \in 1..n + 1 : t[j] \in S /\ Count(t, S, j) = c + 1}} = {x}
    BY <2>1, <1>0
  <2>3. QED
    BY <2>2, <1>0 DEF KthOf
<1>6. Filter(s, S) = [k \in 1..c |-> KthOf(s, S, k)]
  BY DEF Filter
<1>7. CASE x \in S
  <2>1. Filter(t, S) = [k \in 1..c + 1 |-> KthOf(t, S, k)]
    BY <1>0, <1>2, <1>7 DEF Filter
  <2>2. QED
    BY <2>1, <1>0, <1>4, <1>5, <1>6, <1>7
<1>8. CASE x \notin S
  <2>1. Filter(t, S) = [k \in 1..c |-> KthOf(t, S, k)]
    BY <1>0, <1>2, <1>8 DEF Filter
  <2>2. QED
    BY <2>1, <1>4, <1>6, <1>8
<1>9. QED
  BY <1>7, <1>8
-----------------------------------------------------------------------------
(* One more element counts one more member of S exactly when it is one.    *)
LEMMA CountStep ==
  ASSUME NEW s, NEW S, NEW i \in Nat
  PROVE  Count(s, S, i + 1) = IF s[i + 1] \in S THEN Count(s, S, i) + 1 ELSE Count(s, S, i)
<1>1. IsFiniteSet({j \in 1..i : s[j] \in S})
  BY CountType
<1>2. CASE s[i + 1] \in S
  <2>1. {j \in 1..i + 1 : s[j] \in S} = {j \in 1..i : s[j] \in S} \cup {i + 1}
    BY <1>2
  <2>2. i + 1 \notin {j \in 1..i : s[j] \in S}
    OBVIOUS
  <2>3. QED
    BY <1>1, <1>2, <2>1, <2>2, FS_AddElement DEF Count
<1>3. CASE s[i + 1] \notin S
  <2>1. {j \in 1..i + 1 : s[j] \in S} = {j \in 1..i : s[j] \in S}
    BY <1>3
  <2>2. QED
    BY <1>3, <2>1 DEF Count
<1>4. QED
  BY <1>2, <1>3

(* Every k up to the number of members of S in s is reached: there is a    *)
(* position holding the k-th member (the first position where the count    *)
(* reaches k, taken as the least element of a set of naturals).            *)
LEMMA KthExists ==
  ASSUME NEW s, NEW S, NEW n \in Nat, NEW k \in 1..Count(s, S, n)
  PROVE  \E j \in 1..n : s[j] \in S /\ Count(s, S, j) = k
<1> DEFINE M == {j \in 0..n : Count(s, S, j) >= k}
           R == OpToRel(<, Nat)
<1>1. Count(s, S, n) \in Nat /\ \A j \in Nat : Count(s, S, j) \in Nat
  BY CountType
<1>2. M \subseteq Nat /\ M # {}
  BY <1>1
<1>3. PICK j0 \in M : \A y \in M : ~(<<y, j0>> \in R)
  BY <1>2, NatLessThanWellFounded, WFMin
<1>4. \A y \in M : ~(y < j0)
  <2>1. j0 \in Nat
    BY <1>2
  <2>2. \A y \in M : (y \in Nat /\ y < j0) => <<y, j0>> \in R
    BY <2>1, <1>2, Zenon DEF OpToRel
  <2>3. QED
    BY <2>2, <1>2, <1>3
<1>5. Count(s, S, 0) = 0
  <2>1. {j \in 1..0 : s[j] \in S} = {}
    OBVIOUS
  <2>2. QED
    BY <2>1, FS_EmptySet DEF Count
<1>6. j0 # 0
  BY <1>5
<1>7. j0 - 1 \in 0..n /\ Count(s, S, j0 - 1) < k
  BY <1>1, <1>4, <1>6
<1>8. Count(s, S, j0) = IF s[j0] \in S THEN Count(s, S, j0 - 1) + 1 ELSE Count(s, S, j0 - 1)
  <2>1. j0 - 1 \in Nat /\ j0 = (j0 - 1) + 1
    BY <1>6
  <2>2. QED
    BY <2>1, CountStep
<1>9. s[j0] \in S /\ Count(s, S, j0) = k
  BY <1>1, <1>7, <1>8
<1>10. QED
  BY <1>6, <1>9

(* The filtered sequence is a sequence of elements of s that belong to S.  *)
LEMMA FilterType ==
  ASSUME NEW T, NEW s \in Seq(T), NEW S
  PROVE  Filter(s, S) \in Seq(T \cap S)
<1> DEFINE n == Len(s)
           c == Count(s, S, n)
<1>1. n \in Nat /\ c \in Nat
  <2>1. n \in Nat
    OBVIOUS
  <2>2. QED
    BY <2>1, CountType
<1>2. ASSUME NEW k \in 1..c PROVE KthOf(s, S, k) \in T \cap S
  <2> DEFINE P == {j \in 1..n : s[j] \in S /\ Count(s, S, j) = k}
  <2>1. P # {}
    BY <1>1, KthExists
  <2>2. {s[i] : i \in P} # {} /\ {s[i] : i \in P} \subseteq T \cap S
    BY <2>1
  <2>3. QED
    BY <2>2 DEF KthOf
<1>3. Filter(s, S) = [k \in 1..c |-> KthOf(s, S, k)]
  BY DEF Filter
<1>4. QED
  BY <1>1, <1>2, <1>3

(* Filtering by two sets that agree on the elements of s gives the same    *)
(* sequence.                                                               *)
LEMMA FilterCongruence ==
  ASSUME NEW s, NEW n \in Nat, Len(s) = n, NEW S1, NEW S2,
         \A i \in 1..n : s[i] \in S1 <=> s[i] \in S2
  PROVE  Filter(s, S1) = Filter(s, S2)
<1>1. \A j \in 0..n : Count(s, S1, j) = Count(s, S2, j)
  <2> SUFFICES ASSUME NEW j \in 0..n PROVE Count(s, S1, j) = Count(s, S2, j)
    OBVIOUS
  <2>1. {i \in 1..j : s[i] \in S1} = {i \in 1..j : s[i] \in S2}
    OBVIOUS
  <2>2. QED
    BY <2>1 DEF Count
<1>2. ASSUME NEW k PROVE KthOf(s, S1, k) = KthOf(s, S2, k)
  <2>1. {j \in 1..n : s[j] \in S1 /\ Count(s, S1, j) = k}
          = {j \in 1..n : s[j] \in S2 /\ Count(s, S2, j) = k}
    BY <1>1
  <2>2. QED
    BY <2>1 DEF KthOf
<1>3. QED
  BY <1>1, <1>2 DEF Filter

=============================================================================
