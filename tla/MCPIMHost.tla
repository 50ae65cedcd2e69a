------------------------------ MODULE MCPIMHost ------------------------------
(* Small instances of PIMHost for TLC: two commands that share an operand, *)
(* and all short programs over them.                                       *)
EXTENDS PIMHost

CONSTANT ProgramLength

MCAddrs    == 0 .. 4
MCCommands == {<<0, 1, 2>>, <<2, 1, 3>>}
Cmd(t)     == [i \in Regs |-> t[i + 1]]

(* One address of each command alone, one of both, and one of neither. *)
MCAccessed == {0, 2, 3, 4}

MCInstructions ==
       {[op |-> "pim", cmd |-> Cmd(t)] : t \in MCCommands}
  \cup {[op |-> "mem", addr |-> a] : a \in MCAccessed}
  \cup {[op |-> "other"]}

(* Programs that wait for each command and issue none twice. *)
NoRepetition(p) ==
  \A i, j \in DOMAIN p : i < j /\ p[i].op = "pim" => p[i] # p[j]

MCPrograms == {p \in [1 .. ProgramLength -> MCInstructions] : Waits(p) /\ NoRepetition(p)}
MCCmds     == {Cmd(t) : t \in MCCommands}
==============================================================================
