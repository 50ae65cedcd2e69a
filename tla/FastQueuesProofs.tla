--------------------------- MODULE FastQueuesProofs ---------------------------
(***************************************************************************)
(* What FastQueues keeps of a queue, for every queue and every set of its  *)
(* positions, and the induction that the proofs about the Fast simulator   *)
(* use.                                                                    *)
(***************************************************************************)
EXTENDS FastQueues, FiniteSetTheorems, TLAPS

(* Induction over the natural numbers, with a set in place of a predicate. *)
LEMMA NatSet ==
  ASSUME NEW T \in SUBSET Nat, 0 \in T, \A n \in T : n + 1 \in T
  PROVE  T = Nat
<1> DEFINE C == Nat \ T
<1>1. SUFFICES ASSUME C # {} PROVE FALSE
  OBVIOUS
<1>2. \E x \in C : \A y \in C : ~ (<<y, x>> \in OpToRel(<, Nat))
  BY <1>1, NatLessThanWellFounded, WFMin
<1>3. PICK x \in C : \A y \in C : ~ (y < x)
  BY <1>2 DEF OpToRel
<1>4. x - 1 \in Nat
  BY <1>3
<1>5. x - 1 \in T
  BY <1>3, <1>4
<1>6. QED
  BY <1>3, <1>4, <1>5

-----------------------------------------------------------------------------
LEMMA RanksDiffer ==
  ASSUME NEW N \in Nat, NEW K \in SUBSET (1 .. N), IsFiniteSet(K),
         NEW j \in K, NEW k \in K, Rank(K, j) = Rank(K, k)
  PROVE  j = k
<1>1. ASSUME NEW x \in K, NEW y \in K, x < y PROVE Rank(K, x) # Rank(K, y)
  <2> DEFINE A == {i \in K : i <= x}
             B == {i \in K : i <= y}
  <2>1. A \in SUBSET B /\ y \in B /\ y \notin A /\ B \in SUBSET K
    <3>1. x \in Nat /\ y \in Nat /\ \A i \in K : i \in Nat
      BY <1>1
    <3>2. \A i \in Nat : i <= x => i <= y
      BY <1>1, <3>1
    <3>3. y <= y /\ ~(y <= x)
      BY <1>1, <3>1
    <3>4. \A i \in A : i \in B
      BY <3>1, <3>2
    <3>5. QED
      BY <3>3, <3>4
  <2> HIDE DEF A, B
  <2>2. IsFiniteSet(B) /\ A # B
    BY <2>1, FS_Subset
  <2>3. Cardinality(A) # Cardinality(B)
    BY <2>1, <2>2, FS_Subset
  <2>4. QED
    BY <2>3 DEF Rank, A, B
<1>2. j \in Int /\ k \in Int
  OBVIOUS
<1>3. QED
  BY <1>1, <1>2

(* The rank of a position among the positions K is its number there. *)
LEMMA Ranks ==
  ASSUME NEW N \in Nat, NEW K \in SUBSET (1 .. N)
  PROVE  /\ IsFiniteSet(K) /\ Cardinality(K) \in 0 .. N
         /\ \A k \in K : Rank(K, k) \in 1 .. Cardinality(K)
         /\ \A n \in 1 .. Cardinality(K) : \E k \in K : Rank(K, k) = n
<1> DEFINE B(k) == {j \in K : j <= k}
<1>1. IsFiniteSet(1 .. N) /\ Cardinality(1 .. N) = N
  <2>1. 1 \in Int /\ N \in Int
    OBVIOUS
  <2>2. QED
    BY <2>1, FS_Interval
<1>2. IsFiniteSet(K) /\ Cardinality(K) <= N
  BY <1>1, FS_Subset
<1>3. Cardinality(K) \in Nat
  BY <1>2, FS_CardinalityType
<1>4. \A k : IsFiniteSet(B(k)) /\ Cardinality(B(k)) <= Cardinality(K)
  <2> TAKE k
  <2>1. B(k) \in SUBSET K
    OBVIOUS
  <2> HIDE DEF B
  <2>2. QED
    BY <1>2, <2>1, FS_Subset
<1>5. \A k : Cardinality(B(k)) \in Nat
  <2> HIDE DEF B
  <2>1. QED
    BY <1>4, FS_CardinalityType
<1>6. \A k \in K : Cardinality(B(k)) \in 1 .. Cardinality(K)
  <2> TAKE k \in K
  <2>1. k \in B(k)
    OBVIOUS
  <2> HIDE DEF B
  <2>2. Cardinality(B(k)) # 0
    BY <1>4, <2>1, FS_EmptySet
  <2>3. QED
    BY <1>3, <1>4, <1>5, <2>2
<1>7. \A j, k \in K : Cardinality(B(j)) = Cardinality(B(k)) => j = k
  BY <1>2, RanksDiffer DEF Rank
<1> DEFINE f == [k \in K |-> Cardinality(B(k))]
<1> HIDE DEF B
<1>8. f \in Injection(K, 1 .. Cardinality(K))
  BY <1>6, <1>7 DEF Injection, IsInjective
<1>9. IsFiniteSet(1 .. Cardinality(K)) /\ Cardinality(1 .. Cardinality(K)) = Cardinality(K)
  <2>1. 1 \in Int /\ Cardinality(K) \in Int
    BY <1>3
  <2>2. QED
    BY <1>3, <2>1, FS_Interval
<1>10. f \in Surjection(K, 1 .. Cardinality(K))
  BY <1>8, <1>9, FS_Injection
<1>11. \A n \in 1 .. Cardinality(K) : \E k \in K : Cardinality(B(k)) = n
  BY <1>10 DEF Surjection
<1>12. QED
  BY <1>2, <1>3, <1>6, <1>11 DEF Rank, B

(* What is picked from a queue. *)
LEMMA Picked ==
  ASSUME NEW S, NEW q \in Seq(S), NEW K \in SUBSET (DOMAIN q)
  PROVE  /\ Pick(q, K) \in Seq(S) /\ Len(Pick(q, K)) <= Len(q)
         /\ \A n \in 1 .. Len(Pick(q, K)) : \E k \in K : Pick(q, K)[n] = q[k]
         /\ \A k \in K : \E n \in 1 .. Len(Pick(q, K)) : Pick(q, K)[n] = q[k]
<1> DEFINE c == Cardinality(K)
           At(n) == CHOOSE k \in K : Rank(K, k) = n
           t == [n \in 1 .. c |-> q[At(n)]]
<1>1. Len(q) \in Nat /\ K \in SUBSET (1 .. Len(q))
  OBVIOUS
<1>2. /\ c \in 0 .. Len(q)
      /\ \A k \in K : Rank(K, k) \in 1 .. c
      /\ \A n \in 1 .. c : \E k \in K : Rank(K, k) = n
  BY <1>1, Ranks
<1>3. IsFiniteSet(K)
  BY <1>1, Ranks
<1> HIDE DEF c
<1>4. \A n \in 1 .. c : At(n) \in K /\ Rank(K, At(n)) = n
  BY <1>2
<1>5. \A j, k \in K : Rank(K, j) = Rank(K, k) => j = k
  BY <1>1, <1>3, RanksDiffer
<1>6. \A n \in 1 .. c : q[At(n)] \in S
  BY <1>1, <1>4
<1>7. Pick(q, K) = t
  BY DEF Pick, c
<1> HIDE DEF At
<1>8. t \in Seq(S) /\ Len(t) = c /\ \A n \in 1 .. c : t[n] = q[At(n)]
  BY <1>2, <1>6
<1> HIDE DEF t
<1>9. ASSUME NEW k \in K PROVE \E n \in 1 .. c : t[n] = q[k]
  <2>1. Rank(K, k) \in 1 .. c
    BY <1>2
  <2>2. At(Rank(K, k)) = k
    BY <1>4, <1>5, <2>1
  <2>3. QED
    BY <1>8, <2>1, <2>2
<1>10. QED
  BY <1>2, <1>4, <1>7, <1>8, <1>9
==============================================================================
