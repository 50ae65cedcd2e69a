------------------------------ MODULE MCFastProc ------------------------------
(* Small instances of FastProc for TLC: all traces of four instructions    *)
(* on three pages, and longer ones that fill the window and the caches.    *)
EXTENDS FastProc

R(a) == [type |-> "READ", addr |-> a]
W(a) == [type |-> "WRITE", addr |-> a]
C    == [type |-> "CALCULATION", addr |-> 0]

MCTraces ==
  [1 .. 4 -> {W(1), R(2), W(2), R(3), C}] \cup
  {<<W(2), W(3), R(2), C, R(3)>>,
   <<R(2), R(2), R(2), W(3), C>>,
   <<R(3), R(2), R(1), R(1), R(1), C>>,  \* 2 is taken for a repetition of 3
   <<R(2), R(1), W(3), C, R(2)>>,        \* 2 and 3 come to one frame
   <<W(2), W(3), W(1), R(2), W(3), C>>,
   <<W(1), C, R(2), R(3), W(1), R(1)>>}
===============================================================================
