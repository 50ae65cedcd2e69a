---------------------------- MODULE MCPIMCoherence ----------------------------
(* Small instances of PIMCoherence for TLC: commands whose addresses share *)
(* a block with one another, or with a word that no command uses.          *)
EXTENDS PIMCoherence

MCAddrs    == 0 .. 3
Cmd(t)     == [i \in Regs |-> t[i + 1]]
MCCommands == {Cmd(<<0, 2, 1>>), Cmd(<<2, 2, 0>>), Cmd(<<0, 0, 2>>)}
==============================================================================
