----------------------------- MODULE MCPIMKernel -----------------------------
(* Small instances of PIMKernel for TLC. *)
EXTENDS PIMKernel

(* Operands and result in place (PIM(&sum, &i, &sum), as the test program  *)
(* does), and a command with the same first address and another result.    *)
MCCommands == {[i \in Regs |-> IF i = 1 THEN 1 ELSE 0], [i \in Regs |-> i]}

(* One address is used by no command. *)
MCAddrs == 0 .. 3
==============================================================================
