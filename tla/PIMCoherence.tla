----------------------------- MODULE PIMCoherence -----------------------------
(***************************************************************************)
(* The coherence of the host's caches with a PIM kernel that works on the  *)
(* memory behind them.  PIM requests are not snooped, so that the kernel   *)
(* sees what the memory holds: the processor flushes cache blocks before   *)
(* it sends a command (src/cpu/simple/timing.cc), the memory flushes the   *)
(* blocks of a command when it completes (src/mem/abstract_mem.cc), and in *)
(* between host accesses to the command's granules are held back.          *)
(*                                                                         *)
(* One processor with a data cache over an L2 cache, each with its write   *)
(* buffer.  The instruction cache, second in the processor's list of       *)
(* caches, holds no data.                                                  *)
(***************************************************************************)
EXTENDS PIMRegistry

CONSTANTS
  Addrs,       \* word addresses of the memory
  WordSize,    \* number of values of a word
  Commands,    \* the commands: functions Regs -> Addrs
  LineSize,    \* words per cache block
  MaxPending   \* bound: entries of pendingPIMqueue

ASSUME CoherenceAssumption ==
  /\ Addrs \subseteq Nat
  /\ WordSize \in Nat \ {0}
  /\ Commands \subseteq [Regs -> Addrs]
  /\ LineSize \in Nat \ {0}
  /\ CoherenceGranularity % LineSize = 0

Vals    == 0 .. WordSize - 1
Line(a) == a \div LineSize
Lines   == {Line(a) : a \in Addrs}

(* The words of block b in the contents m of the memory.                   *)
Block(m, b) == [a \in {x \in Addrs : Line(x) = b} |-> m[a]]

Blocks  == UNION {[{x \in Addrs : Line(x) = b} -> Vals] : b \in Lines}
Absent  == [state |-> "absent"]
Clean(d) == [state |-> "clean", data |-> d]
Dirty(d) == [state |-> "dirty", data |-> d]

VARIABLES
  dcache, l2,  \* the blocks the caches hold
  dbuffer,     \* the write-backs under way from the data cache to the L2,
  l2buffer,    \* and from there to the memory
  mem,         \* the memory
  pending,     \* AbstractMemory::pendingPIMqueue
  kernel,      \* the command under way: its registers and its progress
  latest,      \* history: the value each word should have for the program
  flushed      \* history: no command started with a dirty copy of its blocks left

buffers == <<dbuffer, l2buffer>>
vars    == <<dcache, l2, buffers, mem, pending, kernel, latest, flushed>>

NoCommand == [step |-> "idle"]

Init ==
  /\ dcache = [b \in Lines |-> Absent] /\ dbuffer = [b \in Lines |-> Absent]
  /\ l2 = [b \in Lines |-> Absent] /\ l2buffer = [b \in Lines |-> Absent]
  /\ mem \in [Addrs -> Vals]
  /\ pending = << >>
  /\ kernel = NoCommand
  /\ latest = mem
  /\ flushed = TRUE

Held(cache, b)    == cache[b].state # "absent"
IsDirty(cache, b) == cache[b].state = "dirty"
Stalled(b) == \E a \in Addrs : Line(a) = b /\ StalledAddr(pending, a)

(* The copy e of a block if there is one, and f otherwise. *)
Above(e, f) == IF e.state # "absent" THEN e ELSE f

(* What a load of address a would return. *)
HostView(a) ==
  LET b == Line(a)
      lower == Above(l2[b], Above(l2buffer[b], Clean(Block(mem, b))))
  IN  Above(dcache[b], Above(dbuffer[b], lower)).data[a]

-----------------------------------------------------------------------------
(* The caches.  An access that misses is answered by the level below,      *)
(* which hands a dirty block over as dirty and keeps a clean copy.  A miss *)
(* waits for a write-back of its block that the buffer still holds.        *)

MissAllowed(b) == ~Held(dbuffer, b) /\ (Held(l2, b) \/ ~Held(l2buffer, b))

(* The block b as the data cache gets it, and what the L2 cache keeps. *)
Fill(b) == Above(l2[b], Clean(Block(mem, b)))

(* Fault: the L2 cache keeps the block dirty as well. *)
FillL2Keeps(b) == [l2 EXCEPT ![b] = Fill(b)]

FillL2(b) == [l2 EXCEPT ![b] = Clean(Fill(b).data)]

HostLoad(a) ==
  LET b == Line(a)
  IN  /\ ~StalledAddr(pending, a)
      /\ ~Held(dcache, b) /\ MissAllowed(b)
      /\ dcache' = [dcache EXCEPT ![b] = Fill(b)]
      /\ l2' = FillL2(b)
      /\ UNCHANGED <<buffers, mem, pending, kernel, latest, flushed>>

HostStore(a, v) ==
  LET b == Line(a)
      d == IF Held(dcache, b) THEN dcache[b].data ELSE Fill(b).data
  IN  /\ ~StalledAddr(pending, a)
      /\ Held(dcache, b) \/ MissAllowed(b)
      /\ dcache' = [dcache EXCEPT ![b] = Dirty([d EXCEPT ![a] = v])]
      /\ l2' = IF Held(dcache, b) THEN l2 ELSE FillL2(b)
      /\ latest' = [latest EXCEPT ![a] = v]
      /\ UNCHANGED <<buffers, mem, pending, kernel, flushed>>

(* The data cache replaces a block: a dirty one goes to the write buffer.  *)
EvictL1(b) ==
  /\ Held(dcache, b)
  /\ dcache' = [dcache EXCEPT ![b] = Absent]
  /\ dbuffer' = IF IsDirty(dcache, b) THEN [dbuffer EXCEPT ![b] = dcache[b]] ELSE dbuffer
  /\ UNCHANGED <<l2, l2buffer, mem, pending, kernel, latest, flushed>>

(* The write buffer of the data cache sends: the L2 cache has the block    *)
(* dirty from then on.                                                     *)
SendL1(b) ==
  /\ Held(dbuffer, b)
  /\ l2' = [l2 EXCEPT ![b] = dbuffer[b]]
  /\ dbuffer' = [dbuffer EXCEPT ![b] = Absent]
  /\ UNCHANGED <<dcache, l2buffer, mem, pending, kernel, latest, flushed>>

EvictL2(b) ==
  /\ Held(l2, b)
  /\ l2' = [l2 EXCEPT ![b] = Absent]
  /\ l2buffer' = IF IsDirty(l2, b) THEN [l2buffer EXCEPT ![b] = l2[b]] ELSE l2buffer
  /\ UNCHANGED <<dcache, dbuffer, mem, pending, kernel, latest, flushed>>

Write(m, d) == [a \in Addrs |-> IF a \in DOMAIN d THEN d[a] ELSE m[a]]

(* Fault: the memory port lets write-backs through. *)
SendL2Ungated(b) ==
  /\ Held(l2buffer, b)
  /\ mem' = Write(mem, l2buffer[b].data)
  /\ l2buffer' = [l2buffer EXCEPT ![b] = Absent]
  /\ UNCHANGED <<dcache, dbuffer, l2, pending, kernel, latest, flushed>>

(* The write buffer of the L2 cache sends: the memory port refuses the     *)
(* write-back of a registered block, which stays in the buffer.            *)
SendL2(b) ==
  /\ Held(l2buffer, b)
  /\ ~Stalled(b)
  /\ mem' = Write(mem, l2buffer[b].data)
  /\ l2buffer' = [l2buffer EXCEPT ![b] = Absent]
  /\ UNCHANGED <<dcache, dbuffer, l2, pending, kernel, latest, flushed>>

-----------------------------------------------------------------------------
(* flushPIM(), on the record of all copies.  It looks for the block in the *)
(* cache and not in its write buffer.  The write is functional: it updates *)
(* the copies below and the memory, and is not held back.                  *)

(* Fault: the block is dropped without being written. *)
FlushL1NoWrite(s, b) == [s EXCEPT !.dcache[b] = Absent]

(* A lower level after a functional write of block b. *)
Updated(level, b, d) ==
  IF Held(level, b) THEN [level EXCEPT ![b].data = d] ELSE level

FlushL1(s, b) ==
  IF IsDirty(s.dcache, b)
  THEN LET d == s.dcache[b].data
       IN  [s EXCEPT !.dcache[b] = Absent,
                     !.l2 = Updated(@, b, d), !.l2buffer = Updated(@, b, d),
                     !.mem = Write(@, d)]
  ELSE [s EXCEPT !.dcache[b] = Absent]

FlushL2(s, b) ==
  [s EXCEPT !.l2[b] = Absent,
            !.mem = IF IsDirty(s.l2, b) THEN Write(@, s.l2[b].data) ELSE @]

Caches == [dcache |-> dcache, dbuffer |-> dbuffer, l2 |-> l2, l2buffer |-> l2buffer,
           mem |-> mem]

(* The loop of PIMCommand(): the i-th cache of the list is asked for the   *)
(* i-th address only.  The list is the data, instruction and L2 cache.     *)
FlushBefore(c) == FlushL2(FlushL1(Caches, Line(c[0])), Line(c[2]))

(* Fault: the address of the result is left out. *)
FlushAfterOperands(c) ==
  LET s1 == FlushL1(FlushL1(Caches, Line(c[0])), Line(c[1]))
  IN  FlushL2(FlushL2(s1, Line(c[0])), Line(c[1]))

(* The loops of functionalAccess(): every cache, every address. *)
FlushAfter(c) ==
  LET s1 == FlushL1(FlushL1(FlushL1(Caches, Line(c[0])), Line(c[1])), Line(c[2]))
  IN  FlushL2(FlushL2(FlushL2(s1, Line(c[0])), Line(c[1])), Line(c[2]))

Becomes(s) ==
  /\ dcache' = s.dcache /\ dbuffer' = s.dbuffer
  /\ l2' = s.l2 /\ l2buffer' = s.l2buffer /\ mem' = s.mem

(* No level above the memory has block b dirty. *)
NoDirtyCopy(s, b) ==
  /\ ~IsDirty(s.dcache, b) /\ ~Held(s.dbuffer, b)
  /\ ~IsDirty(s.l2, b) /\ ~Held(s.l2buffer, b)

(* PIMCommand() and its delivery: whatever the kernel does, the loop has   *)
(* flushed and the command gets registered.                                *)
Deliver(c) ==
  /\ Len(pending) < MaxPending
  /\ Becomes(FlushBefore(c))
  /\ pending' = Registration(pending, c)
  /\ UNCHANGED latest

(* An idle kernel starts.  It keeps, as history, what the memory holds of  *)
(* the operands, and whether it was sent another command since.            *)
PIMCommand(c) ==
  LET s == FlushBefore(c)
  IN  /\ kernel.step = "idle"
      /\ Deliver(c)
      /\ kernel' = [step |-> "read", cmd |-> c, data |-> << >>,
                    found |-> <<s.mem[c[0]], s.mem[c[1]]>>, alone |-> TRUE]
      /\ flushed' = (flushed /\ \A i \in Regs : NoDirtyCopy(s, Line(c[i])))

(* A kernel at work drops the command, which stays registered. *)
PIMCommandDropped(c) ==
  /\ kernel.step # "idle"
  /\ Deliver(c)
  /\ kernel' = [kernel EXCEPT !.alone = FALSE]
  /\ UNCHANGED flushed

(* The kernel reads its operands one after the other. *)
KernelRead ==
  /\ kernel.step = "read"
  /\ LET d == Append(kernel.data, mem[kernel.cmd[Len(kernel.data)]])
     IN  kernel' = [kernel EXCEPT !.data = d,
                                  !.step = IF Len(d) = Input THEN "write" ELSE "read"]
  /\ UNCHANGED <<dcache, l2, buffers, mem, pending, latest, flushed>>

doCompute(x, y) == (x + y) % WordSize

(* The kernel writes its result; latest gets what the program expects. *)
KernelWrite ==
  /\ kernel.step = "write"
  /\ LET c == kernel.cmd
     IN  /\ mem' = [mem EXCEPT ![c[2]] = doCompute(kernel.data[1], kernel.data[2])]
         /\ latest' = [latest EXCEPT ![c[2]] = doCompute(latest[c[0]], latest[c[1]])]
  /\ kernel' = [kernel EXCEPT !.step = "finish"]
  /\ UNCHANGED <<dcache, l2, buffers, pending, flushed>>

(* The caches are flushed of the addresses of the entry that is erased,    *)
(* which need not be the command's own.                                    *)
KernelFinish ==
  /\ kernel.step = "finish"
  /\ Becomes(FlushAfter(pending[FirstMatch(pending, kernel.cmd)]))
  /\ pending' = Complete(pending, kernel.cmd)
  /\ kernel' = NoCommand
  /\ UNCHANGED <<latest, flushed>>

Next ==
  \/ \E a \in Addrs : HostLoad(a)
  \/ \E a \in Addrs, v \in Vals : HostStore(a, v)
  \/ \E b \in Lines : EvictL1(b) \/ SendL1(b) \/ EvictL2(b) \/ SendL2(b)
  \/ \E c \in Commands : PIMCommand(c) \/ PIMCommandDropped(c)
  \/ KernelRead \/ KernelWrite \/ KernelFinish

Spec == Init /\ [][Next]_vars

-----------------------------------------------------------------------------
Entries == {Absent} \union {Clean(d) : d \in Blocks} \union {Dirty(d) : d \in Blocks}

(* The caches hold blocks of the memory's words.  A level that holds a     *)
(* block has no older dirty copy of it below: a miss takes the ownership   *)
(* over and does not overtake a write-back, in either buffer.              *)
TypeOK ==
  /\ dcache \in [Lines -> Entries] /\ dbuffer \in [Lines -> Entries]
  /\ l2 \in [Lines -> Entries] /\ l2buffer \in [Lines -> Entries]
  /\ \A b \in Lines :
       /\ Held(dcache, b) => ~Held(dbuffer, b)
       /\ Held(dcache, b) \/ Held(dbuffer, b) => ~IsDirty(l2, b) /\ ~Held(l2buffer, b)
       /\ Held(l2, b) => ~Held(l2buffer, b)
  /\ mem \in [Addrs -> Vals] /\ latest \in [Addrs -> Vals]
  /\ kernel.step \in {"idle", "read", "write", "finish"}

(* timing.cc: "The processors had to be fully aware of system caches and   *)
(* flush data when PIM requires": the kernel finds in the memory what the  *)
(* program last stored to the operands.                                    *)
OperandsInMemory ==
  kernel.step = "read" =>
    \A i \in Len(kernel.data) .. Input - 1 : mem[kernel.cmd[i]] = latest[kernel.cmd[i]]

(* A program that keeps the dirty blocks of its commands where the loop of *)
(* PIMCommand() looks for them gets what the comment says.                 *)
FlushedOperandsInMemory == flushed => OperandsInMemory

(* An access of such a program that is not held back sees the last value   *)
(* that the host stored or a command computed: no stale copy of a result   *)
(* stays in a cache, and no flush on completion overwrites a result.       *)
HostCoherent ==
  flushed => \A a \in Addrs : ~StalledAddr(pending, a) => HostView(a) = latest[a]

(* All that the kernel reads is what the memory held when the command had  *)
(* been registered: a write-back that was under way when the command came, *)
(* in whichever buffer, does not get in between.  With a dirty copy left,  *)
(* the flush of a further command may, so that the kernel must be alone.   *)
OneSnapshot ==
  kernel.step \in {"read", "write"} /\ (flushed \/ kernel.alone) =>
    \A i \in 1 .. Input :
      /\ mem[kernel.cmd[i - 1]] = kernel.found[i]
      /\ i <= Len(kernel.data) => kernel.data[i] = kernel.found[i]
==============================================================================
