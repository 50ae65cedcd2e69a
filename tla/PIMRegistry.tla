----------------------------- MODULE PIMRegistry -----------------------------
(***************************************************************************)
(* The table of pending PIM operations that the memory keeps               *)
(* (AbstractMemory::pendingPIMqueue).  A PIM kernel registers the three    *)
(* addresses of a command when it receives it and removes them when it has *)
(* finished; in between, the memory controller refuses host accesses whose *)
(* address falls in the same coherence granule as one of them.             *)
(*                                                                         *)
(* A command is a function from the registers of the kernel to addresses,  *)
(* counted in words of eight bytes.                                        *)
(***************************************************************************)
EXTENDS Integers, Sequences

CONSTANT CoherenceGranularity  \* words per granule (coherence_granularity / 8)

ASSUME GranularityAssumption == CoherenceGranularity \in Nat \ {0}

(* The three address registers of a command: two operands and a result. *)
Input  == 2
Output == 1
NRegs  == Input + Output
Regs   == 0 .. NRegs - 1

Granule(a) == a \div CoherenceGranularity

(* Fault: a command takes the place of the ones before it. *)
RegistrationLatest(queue, cmd) == <<cmd>>

(* A Registration packet appends the command. *)
Registration(queue, cmd) == Append(queue, cmd)

(* The memory recognises a command by its first address only: the code     *)
(* compares addr[0] three times.                                           *)
SameCommand(entry, cmd) == entry[0] = cmd[0]

Found(queue, cmd) == \E k \in 1 .. Len(queue) : SameCommand(queue[k], cmd)

FirstMatch(queue, cmd) ==
  CHOOSE k \in 1 .. Len(queue) :
    /\ SameCommand(queue[k], cmd)
    /\ \A j \in 1 .. k - 1 : ~SameCommand(queue[j], cmd)

(* Fault: every entry that matches is erased. *)
CompleteAll(queue, cmd) == SelectSeq(queue, LAMBDA e : ~SameCommand(e, cmd))

(* A Complete packet erases the first entry that matches; the code asserts *)
(* that there is one.                                                      *)
Complete(queue, cmd) ==
  LET k == FirstMatch(queue, cmd)
  IN  SubSeq(queue, 1, k - 1) \o SubSeq(queue, k + 1, Len(queue))

(* Fault: only the address of the result is protected. *)
StalledResult(queue, a) == \E k \in 1 .. Len(queue) : Granule(queue[k][2]) = Granule(a)

(* A host access to address a is refused. *)
StalledAddr(queue, a) ==
  \E k \in 1 .. Len(queue) : \E i \in Regs : Granule(queue[k][i]) = Granule(a)
==============================================================================
