------------------------------- MODULE ListsProofs -------------------------------
(***************************************************************************)
(* What a filter leaves.  The place of a position is how many of those     *)
(* kept are not behind it: a one-to-one, increasing numbering, so that a   *)
(* filter keeps what it should once each and in its order.                 *)
(***************************************************************************)
EXTENDS Lists, TLAPS, SequenceTheorems, FiniteSetTheorems

\* There are n numbers from 1 to n.
LEMMA UpTo ==
  ASSUME NEW n \in Nat PROVE IsFiniteSet(1 .. n) /\ Cardinality(1 .. n) = n
<1>1. n \in Int /\ 1 \in Int
  OBVIOUS
<1>2. IsFiniteSet(1 .. n) /\ Cardinality(1 .. n) = IF 1 > n THEN 0 ELSE n - 1 + 1
  BY <1>1, FS_Interval
<1> QED
  BY <1>2

\* Places number the positions kept: filter loses none and doubles none.
LEMMA PlacesCount ==
  ASSUME NEW n \in Nat, NEW keep \in SUBSET (1 .. n)
  PROVE  /\ Cardinality(keep) \in Nat
         /\ \A k \in 1 .. Cardinality(keep) : At(keep, k) \in keep
         /\ \A k, l \in 1 .. Cardinality(keep) : At(keep, k) = At(keep, l) => k = l
         /\ \A k, l \in 1 .. Cardinality(keep) : k < l => At(keep, k) < At(keep, l)
         /\ \A i \in keep : \E k \in 1 .. Cardinality(keep) : At(keep, k) = i
         /\ keep = 1 .. n => Cardinality(keep) = n /\ \A k \in 1 .. n : At(keep, k) = k
<1>1. IsFiniteSet(1 .. n)
  BY UpTo
<1>2. PICK m \in Nat : m = Cardinality(keep) /\ IsFiniteSet(keep)
  BY <1>1, FS_Subset, FS_CardinalityType
<1> DEFINE Before(i) == {j \in keep : j <= i}
           f == [i \in keep |-> Place(keep, i)]
<1>3. ASSUME NEW i \in keep PROVE Place(keep, i) \in 1 .. m /\ IsFiniteSet(Before(i))
  <2>1. Before(i) \in SUBSET keep /\ i \in Before(i)
    BY DEF Before
  <2> HIDE DEF Before
  <2>2. IsFiniteSet(Before(i)) /\ Cardinality(Before(i)) <= m
    BY <1>2, <2>1, FS_Subset
  <2>3. Cardinality(Before(i)) \in Nat /\ Cardinality(Before(i)) # 0
    BY <2>1, <2>2, FS_CardinalityType, FS_EmptySet
  <2>4. Place(keep, i) = Cardinality(Before(i))
    BY DEF Place, Before
  <2> QED
    BY <1>2, <2>2, <2>3, <2>4
<1>4. ASSUME NEW i \in keep, NEW j \in keep, i < j PROVE Place(keep, i) # Place(keep, j)
  <2>0. i \in Int /\ j \in Int /\ \A k \in keep : k \in Int
    OBVIOUS
  <2>4. \A k \in keep : (k <= i => k <= j) /\ j <= j /\ ~(j <= i)
    BY <1>4, <2>0
  <2>1. Before(i) \in SUBSET Before(j) /\ j \in Before(j) /\ j \notin Before(i)
    BY <1>4, <2>4, <2>0, Zenon DEF Before
  <2>2. Place(keep, i) = Cardinality(Before(i)) /\ Place(keep, j) = Cardinality(Before(j))
    BY DEF Place, Before
  <2>3. IsFiniteSet(Before(j))
    BY <1>3
  <2> HIDE DEF Before
  <2> QED
    BY <2>1, <2>2, <2>3, FS_Subset
<1>5. f \in [keep -> 1 .. m] /\ \A i, j \in keep : f[i] = f[j] => i = j
  <2>1. \A i \in keep : f[i] \in 1 .. m
    BY <1>3
  <2>2. ASSUME NEW i \in keep, NEW j \in keep, f[i] = f[j] PROVE i = j
    <3>1. Place(keep, i) = Place(keep, j)
      BY <2>2
    <3>2. i < j \/ j < i \/ i = j
      OBVIOUS
    <3> QED
      BY <1>4, <3>1, <3>2
  <2> QED
    BY <2>1, <2>2
<1>6. \A k \in 1 .. m : \E i \in keep : Place(keep, i) = k
  <2>1. f \in Injection(keep, 1 .. m)
    <3> HIDE DEF f
    <3> QED
      BY <1>5, Zenon DEF Injection, IsInjective
  <2>2. IsFiniteSet(1 .. m) /\ Cardinality(1 .. m) = m
    BY UpTo
  <2> HIDE DEF f
  <2>3. f \in Surjection(keep, 1 .. m)
    BY <1>2, <2>1, <2>2, FS_Injection
  <2>4. \A k \in 1 .. m : \E i \in keep : f[i] = k
    BY <2>3 DEF Surjection
  <2>5. \A i \in keep : f[i] = Place(keep, i)
    BY DEF f
  <2> QED
    BY <2>4, <2>5
<1>7. \A k \in 1 .. m : At(keep, k) \in keep /\ Place(keep, At(keep, k)) = k
  BY <1>2, <1>6 DEF At
<1>8. \A i \in keep : At(keep, Place(keep, i)) = i
  <2> TAKE i \in keep
  <2> DEFINE k == Place(keep, i)
  <2>1. k \in 1 .. m
    BY <1>3
  <2>2. At(keep, k) \in keep /\ Place(keep, At(keep, k)) = k
    BY <1>7, <2>1
  <2> QED
    BY <1>5, <2>2
<1>10. keep = 1 .. n => m = n /\ \A k \in 1 .. n : At(keep, k) = k
  <2> SUFFICES ASSUME keep = 1 .. n PROVE m = n /\ \A k \in 1 .. n : At(keep, k) = k
    OBVIOUS
  <2>1. m = n
    BY <1>2, UpTo
  <2>2. ASSUME NEW k \in 1 .. n PROVE Place(keep, k) = k
    <3>1. {j \in keep : j <= k} = 1 .. k /\ k \in Nat
      OBVIOUS
    <3>2. Cardinality({j \in keep : j <= k}) = k
      BY <3>1, UpTo
    <3> QED
      BY <3>2 DEF Place
  <2> QED
    BY <1>8, <2>1, <2>2
<1>9. ASSUME NEW i \in keep, NEW j \in keep, i < j PROVE Place(keep, i) <= Place(keep, j)
  <2>0. i \in Int /\ j \in Int /\ \A k \in keep : k \in Int
    OBVIOUS
  <2>1. \A k \in keep : k <= i => k <= j
    BY <1>9, <2>0
  <2>2. Before(i) \in SUBSET Before(j)
    BY <2>1, Zenon DEF Before
  <2>3. Place(keep, i) = Cardinality(Before(i)) /\ Place(keep, j) = Cardinality(Before(j))
    BY DEF Place, Before
  <2>4. IsFiniteSet(Before(j))
    BY <1>3
  <2> HIDE DEF Before
  <2> QED
    BY <2>2, <2>3, <2>4, FS_Subset
<1>11. ASSUME NEW k \in 1 .. m, NEW l \in 1 .. m, k < l PROVE At(keep, k) < At(keep, l)
  <2> DEFINE i == At(keep, k)
             j == At(keep, l)
  <2>1. i \in keep /\ j \in keep /\ Place(keep, i) = k /\ Place(keep, j) = l
    BY <1>7
  <2> HIDE DEF i, j
  <2>2. i < j \/ j < i \/ i = j
    BY <2>1
  <2>3. ~(j < i)
    BY <1>9, <1>11, <2>1
  <2>4. i # j
    BY <1>11, <2>1
  <2>5. i < j
    BY <2>2, <2>3, <2>4
  <2> QED
    BY <2>5 DEF i, j
<1> QED
  BY <1>2, <1>3, <1>7, <1>8, <1>10, <1>11

\* r is what a filter leaves of seq, where the k-th left was at at[k].
Leaves(r, seq, keep, at) ==
  /\ DOMAIN at = DOMAIN r
  /\ \A k \in DOMAIN r : at[k] \in keep /\ r[k] = seq[at[k]]
  /\ \A k, l \in DOMAIN r : k < l => at[k] < at[l]
  /\ \A i \in keep : \E k \in DOMAIN r : at[k] = i

LEMMA FilterLeaves ==
  ASSUME NEW S, NEW seq \in Seq(S), NEW keep \in SUBSET DOMAIN seq
  PROVE  Filtered(seq, keep) \in Seq(S) /\ \E at : Leaves(Filtered(seq, keep), seq, keep, at)
<1>1. PICK n \in Nat : n = Len(seq) /\ DOMAIN seq = 1 .. n /\ \A i \in 1 .. n : seq[i] \in S
  OBVIOUS
<1>2. keep \in SUBSET (1 .. n)
  BY <1>1
<1>3. PICK m \in Nat : m = Cardinality(keep)
  BY <1>2, PlacesCount
<1> PICK at : at = [k \in 1 .. m |-> At(keep, k)]
  OBVIOUS
<1> PICK r : r = Filtered(seq, keep)
  OBVIOUS
<1>4. /\ \A k \in 1 .. m : At(keep, k) \in keep
      /\ \A k, l \in 1 .. m : k < l => At(keep, k) < At(keep, l)
      /\ \A i \in keep : \E k \in 1 .. m : At(keep, k) = i
  BY <1>2, <1>3, PlacesCount, Zenon
<1>5. DOMAIN r = 1 .. m /\ DOMAIN at = 1 .. m /\ \A k \in 1 .. m : r[k] = seq[at[k]] /\ at[k] = At(keep, k)
  BY <1>3 DEF Filtered
<1>6. r = [k \in 1 .. m |-> r[k]] /\ \A k \in 1 .. m : r[k] \in S
  BY <1>1, <1>2, <1>3, <1>4, <1>5 DEF Filtered
<1>7. r \in Seq(S)
  <2>1. [k \in 1 .. m |-> r[k]] \in Seq(S)
    BY <1>6, IsASeq
  <2> QED
    BY <1>6, <2>1
<1>8. Leaves(r, seq, keep, at)
  BY <1>4, <1>5 DEF Leaves
<1> QED
  BY <1>7, <1>8
==================================================================================
