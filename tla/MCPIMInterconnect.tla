-------------------------- MODULE MCPIMInterconnect --------------------------
(* Small instances of PIMInterconnect for TLC. *)
EXTENDS PIMInterconnect
==============================================================================
