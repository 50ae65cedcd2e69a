---------------------------- MODULE MCFastOffload ----------------------------
(* A small instance of FastOffload for TLC: two pages, of which the last   *)
(* address is an alias of the first, and functions whose operands share a  *)
(* page, an address, or neither.                                           *)
EXTENDS FastOffload

MCFunctions ==
  {[in1 |-> 6, in2 |-> 0, out |-> 2],    \* 6 is 2 in a memory of 4: two pages, in place
   [in1 |-> 2, in2 |-> 3, out |-> 0],    \* loads from one page
   [in1 |-> 2, in2 |-> 2, out |-> 3]}    \* one operand twice

(* The translations of scan_page(): the identity, and the pages swapped. *)
MCFrames == {[a \in Addr |-> a], [a \in Addr |-> (a + 2) % 4]}

(* Nothing is dirty, or the operands are, in the L1 caches. *)
MCWarm == {[l1 |-> <<{}, {}>>, llc |-> {}], [l1 |-> <<{2}, {2, 3}>>, llc |-> {}]}
==============================================================================
