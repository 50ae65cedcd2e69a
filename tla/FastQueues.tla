----------------------------- MODULE FastQueues -----------------------------
(***************************************************************************)
(* What is left of a C# List of the Fast simulator when a loop removes     *)
(* some of its entries: requests passed on by the memory controller,       *)
(* requests answered by the memory, lines dropped from a cache.            *)
(***************************************************************************)
EXTENDS Naturals, Sequences, FiniteSets

(* The number of position k among the positions K. *)
Rank(K, k) == Cardinality({j \in K : j <= k})

(* The entries of q at the positions K, in their order. *)
Pick(q, K) == [n \in 1 .. Cardinality(K) |-> q[CHOOSE k \in K : Rank(K, k) = n]]
=============================================================================
