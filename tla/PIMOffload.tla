------------------------------ MODULE PIMOffload -----------------------------
(***************************************************************************)
(* What offloading a command to a PIM kernel promises its host: the        *)
(* kernel takes one command at a time, the result is computed from the     *)
(* operands and stored in one atomic step, and from acceptance to          *)
(* completion the host changes no word in a granule of the command.        *)
(***************************************************************************)
EXTENDS PIMRegistry

CONSTANTS Addrs,           \* the word addresses of the memory
          Vals,            \* the values of a word
          Commands,        \* the commands the host may send
          Compute(_, _)    \* what the kernel computes

VARIABLES phase,   \* "idle", "accepted" or "committed"
          cmd,     \* the current (or last) command
          mem      \* the memory

offloadVars == <<phase, cmd, mem>>

OffloadInit ==
  /\ phase = "idle"
  /\ cmd = [i \in Regs |-> 0]
  /\ mem \in [Addrs -> Vals]

Accept(c) ==
  /\ phase = "idle"
  /\ phase' = "accepted"
  /\ cmd' = c
  /\ UNCHANGED mem

Commit ==
  /\ phase = "accepted"
  /\ phase' = "committed"
  /\ mem' = [mem EXCEPT ![cmd[2]] = Compute(mem[cmd[0]], mem[cmd[1]])]
  /\ UNCHANGED cmd

Done ==
  /\ phase = "committed"
  /\ phase' = "idle"
  /\ UNCHANGED <<cmd, mem>>

HostStore(a, v) ==
  /\ phase = "idle" \/ \A i \in Regs : Granule(cmd[i]) # Granule(a)
  /\ mem' = [mem EXCEPT ![a] = v]
  /\ UNCHANGED <<phase, cmd>>

OffloadNext ==
  \/ \E c \in Commands : Accept(c)
  \/ Commit
  \/ Done
  \/ \E a \in Addrs, v \in Vals : HostStore(a, v)

OffloadSpec == OffloadInit /\ [][OffloadNext]_offloadVars
==============================================================================
