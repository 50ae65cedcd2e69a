------------------------------- MODULE PIMHost -------------------------------
(***************************************************************************)
(* A host processor of the gem5 model with one hardware thread             *)
(* (src/cpu/simple/timing.cc, TimingSimpleCPU): it fetches, executes and   *)
(* advances one instruction at a time, sends PIM commands, and goes to     *)
(* sleep on an access to an address of a registered command, from which    *)
(* the memory wakes it when the command completes.                         *)
(*                                                                         *)
(* The processor is driven by its fetch event, its PIM retry event and the *)
(* responses and retries of its two cache ports; each action is one of     *)
(* these callbacks with all the calls it makes.  Data translations are     *)
(* answered within the call, as in syscall emulation.                      *)
(***************************************************************************)
EXTENDS PIMRegistry, FiniteSets

CONSTANTS
  Addrs,          \* word addresses of the memory
  Commands,       \* the PIM commands of the programs: functions Regs -> Addrs
  Programs,       \* the programs: sequences of instructions
  None,           \* no command, no address
  MayFault,       \* whether the translation of a PIM address may fault
  EarlyComplete,  \* whether a command may complete while the host waits for a cache
  MaxSent         \* bound on the number of commands sent

(* An instruction is a PIM command, a data access or neither.              *)
Instructions ==
       [op : {"pim"}, cmd : Commands]
  \cup [op : {"mem"}, addr : Addrs]
  \cup [op : {"other"}]

ASSUME HostAssumption ==
  /\ Addrs \subseteq Nat
  /\ Commands \subseteq [Regs -> Addrs]
  /\ \A p \in Programs : p \in Seq(Instructions)
  /\ None \notin Addrs /\ None \notin Commands
  /\ MayFault \in BOOLEAN /\ EarlyComplete \in BOOLEAN
  /\ MaxSent \in Nat

Status == {"Idle", "Running", "IcacheRetry", "IcacheWaitResponse",
           "DcacheRetry", "DcacheWaitResponse"}

VARIABLES
  program, pc,   \* what the thread runs, and where it is
  status,        \* BaseSimpleCPU::_status
  fetchEvent, pimEvent,
  fetches,       \* the instruction fetches under way, by instruction
  accesses,      \* the data accesses under way, by address
  dcachePkt,     \* the address of a refused data access, or None
  pendingPIM,    \* BaseCPU::pendingPIM
  pending,       \* AbstractMemory::pendingPIMqueue
  kernel,        \* the command the PIM kernel works on, or None
  sent,          \* history: the commands sent to the kernel, in order
  issued,        \* history: the commands the thread executed, in order
  faulted        \* history: the translation of a PIM address has faulted

ports == <<fetches, accesses, dcachePkt>>
pim   == <<pendingPIM, pimEvent, pending, kernel, sent, faulted>>
vars  == <<program, pc, status, fetchEvent, ports, pim, issued>>

Init ==
  /\ program \in Programs
  /\ pc = 1
  /\ status = "Running"
  /\ fetchEvent = TRUE /\ pimEvent = FALSE
  /\ fetches = [i \in 1 .. Len(program) |-> 0]
  /\ accesses = [a \in Addrs |-> 0]
  /\ dcachePkt = None
  /\ pendingPIM = << >> /\ pending = << >>
  /\ kernel = None
  /\ sent = << >> /\ issued = << >> /\ faulted = FALSE

Ended == pc > Len(program)

-----------------------------------------------------------------------------
(* fetch() and sendFetch() of instruction p, where f are the fetches under *)
(* way.  The cache may refuse the request.                                 *)
Fetch(p, f) ==
  IF p > Len(program)
  THEN status' = "Running" /\ fetches' = f
  ELSE \/ /\ status' = "IcacheWaitResponse"
          /\ fetches' = [f EXCEPT ![p] = @ + 1]
       \/ /\ status' = "IcacheRetry"
          /\ fetches' = f

(* Fault: the thread stays at its instruction. *)
AdvanceInstStays(f) ==
  /\ pc' = pc
  /\ Fetch(pc, f)

(* advanceInst() *)
AdvanceInst(f) ==
  /\ pc' = pc + 1
  /\ Fetch(pc + 1, f)

(* The kernel receives a command: it is registered, and started when the   *)
(* kernel is free.                                                         *)
Deliver(c) ==
  /\ Len(sent) < MaxSent
  /\ pending' = Registration(pending, c)
  /\ kernel' = IF kernel = None THEN c ELSE kernel
  /\ sent' = Append(sent, c)

(* A command that comes while others wait queues up behind them, and the   *)
(* first one of the queue is tried in its place.                           *)
Enqueued(c) == IF pendingPIM = << >> THEN << >> ELSE Append(pendingPIM, c)
Tried(c)    == IF pendingPIM = << >> THEN c ELSE Head(pendingPIM)

(* Fault: the command that could not be translated is not kept. *)
PIMCommandForgets(c) ==
  \/ /\ MayFault
     /\ ~pimEvent
     /\ pimEvent' = TRUE
     /\ faulted' = TRUE
     /\ UNCHANGED <<pendingPIM, pending, kernel, sent>>
  \/ /\ ~pimEvent
     /\ pendingPIM' = Enqueued(c)
     /\ Deliver(Tried(c))
     /\ UNCHANGED <<pimEvent, faulted>>

(* PIMCommand(): both outcomes of the translation assert that the retry    *)
(* event is not scheduled.                                                 *)
PIMCommand(c) ==
  \/ /\ MayFault
     /\ ~pimEvent
     /\ pendingPIM' = Append(Enqueued(c), Tried(c))
     /\ pimEvent' = TRUE
     /\ faulted' = TRUE
     /\ UNCHANGED <<pending, kernel, sent>>
  \/ /\ ~pimEvent
     /\ pendingPIM' = Enqueued(c)
     /\ Deliver(Tried(c))
     /\ UNCHANGED <<pimEvent, faulted>>

(* handleReadPacket() and handleWritePacket(). *)
SendData(a) ==
  \/ /\ status' = "DcacheWaitResponse"
     /\ accesses' = [accesses EXCEPT ![a] = @ + 1]
     /\ dcachePkt' = None
  \/ /\ status' = "DcacheRetry"
     /\ dcachePkt' = a
     /\ UNCHANGED accesses

(* stopCurrent(): the thread is suspended and stays at its instruction.    *)
SuspendContext ==
  /\ status' = "Idle"
  /\ fetchEvent' = FALSE
  /\ UNCHANGED <<accesses, dcachePkt>>

(* Fault: the table is not consulted. *)
FinishTranslationUnchecked(a) == SendData(a) /\ UNCHANGED fetchEvent

(* finishTranslation() of a data access. *)
FinishTranslation(a) ==
  IF StalledAddr(pending, a)
  THEN SuspendContext
  ELSE SendData(a) /\ UNCHANGED fetchEvent

-----------------------------------------------------------------------------
(* Fault: the event stays scheduled. *)
FetchEventAgain ==
  /\ fetchEvent
  /\ IF status = "Idle" THEN UNCHANGED <<status, fetches>> ELSE Fetch(pc, fetches)
  /\ UNCHANGED <<program, pc, fetchEvent, accesses, dcachePkt, pim, issued>>

FetchEvent ==
  /\ fetchEvent
  /\ fetchEvent' = FALSE
  /\ IF status = "Idle" THEN UNCHANGED <<status, fetches>> ELSE Fetch(pc, fetches)
  /\ UNCHANGED <<program, pc, accesses, dcachePkt, pim, issued>>

(* IcachePort::recvReqRetry() *)
IcacheRetry ==
  /\ status = "IcacheRetry"
  /\ status' = "IcacheWaitResponse"
  /\ fetches' = [fetches EXCEPT ![pc] = @ + 1]
  /\ UNCHANGED <<program, pc, fetchEvent, accesses, dcachePkt, pim, issued>>

(* The response to the fetch of instruction p is executed by a processor   *)
(* that waits for one, whichever it waits for.                             *)
CompleteIfetch(p) ==
  /\ fetches[p] > 0
  /\ status = "IcacheWaitResponse"
  /\ LET f    == [fetches EXCEPT ![p] = @ - 1]
         inst == program[p]
     IN  CASE inst.op = "pim" ->
                /\ PIMCommand(inst.cmd)
                /\ issued' = Append(issued, inst.cmd)
                /\ AdvanceInst(f)
                /\ UNCHANGED <<fetchEvent, accesses, dcachePkt>>
           [] inst.op = "mem" ->
                /\ FinishTranslation(inst.addr)
                /\ fetches' = f
                /\ UNCHANGED <<pc, pim, issued>>
           [] OTHER ->
                /\ AdvanceInst(f)
                /\ UNCHANGED <<fetchEvent, accesses, dcachePkt, pim, issued>>
  /\ UNCHANGED program

(* A processor that does not wait for an instruction drops the response.   *)
DropIfetch(p) ==
  /\ fetches[p] > 0
  /\ status # "IcacheWaitResponse"
  /\ fetches' = [fetches EXCEPT ![p] = @ - 1]
  /\ UNCHANGED <<program, pc, status, fetchEvent, accesses, dcachePkt, pim, issued>>

(* DcachePort::recvReqRetry() *)
DcacheRetry ==
  /\ status = "DcacheRetry"
  /\ dcachePkt # None
  /\ status' = "DcacheWaitResponse"
  /\ accesses' = [accesses EXCEPT ![dcachePkt] = @ + 1]
  /\ dcachePkt' = None
  /\ UNCHANGED <<program, pc, fetchEvent, fetches, pim, issued>>

(* Fault: a response is taken although no access is under way. *)
CompleteDataAccessTwice(a) ==
  /\ status = "DcacheWaitResponse"
  /\ accesses' = [accesses EXCEPT ![a] = @ - 1]
  /\ AdvanceInst(fetches)
  /\ UNCHANGED <<program, fetchEvent, dcachePkt, pim, issued>>

CompleteDataAccess(a) ==
  /\ accesses[a] > 0
  /\ status = "DcacheWaitResponse"
  /\ accesses' = [accesses EXCEPT ![a] = @ - 1]
  /\ AdvanceInst(fetches)
  /\ UNCHANGED <<program, fetchEvent, dcachePkt, pim, issued>>

DropDataAccess(a) ==
  /\ accesses[a] > 0
  /\ status # "DcacheWaitResponse"
  /\ accesses' = [accesses EXCEPT ![a] = @ - 1]
  /\ UNCHANGED <<program, pc, status, fetchEvent, fetches, dcachePkt, pim, issued>>

(* retryPIM(): PIMCommand() is called with the first entry of pendingPIM,  *)
(* which it appends to the queue again.  A second fault fails an assertion.*)
RetryPIM ==
  /\ pimEvent
  /\ pendingPIM # << >>
  /\ Deliver(Head(pendingPIM))
  /\ pendingPIM' = Tail(Append(pendingPIM, Head(pendingPIM)))
  /\ pimEvent' = TRUE
  /\ status' = "Running"
  /\ UNCHANGED <<program, pc, fetchEvent, ports, issued, faulted>>

(* Fault: the processor is not woken. *)
CompleteSilently ==
  /\ kernel # None
  /\ EarlyComplete \/ status \in {"Idle", "Running"}
  /\ Found(pending, kernel)
  /\ pending' = Complete(pending, kernel)
  /\ kernel' = None
  /\ UNCHANGED <<program, pc, status, fetchEvent, ports, pendingPIM, pimEvent, sent, issued, faulted>>

(* Fault: the processor is woken but does not fetch. *)
CompleteNoFetch ==
  /\ kernel # None
  /\ EarlyComplete \/ status \in {"Idle", "Running"}
  /\ Found(pending, kernel)
  /\ pending' = Complete(pending, kernel)
  /\ kernel' = None
  /\ status' = IF status = "Idle" THEN "Running" ELSE status
  /\ UNCHANGED <<program, pc, fetchEvent, ports, pendingPIM, pimEvent, sent, issued, faulted>>

(* The kernel has finished: the memory calls activateContext(), in         *)
(* whatever state the processor is, and removes the registration.          *)
CompleteCommand ==
  /\ kernel # None
  /\ EarlyComplete \/ status \in {"Idle", "Running"}
  /\ Found(pending, kernel)
  /\ status' = IF status = "Idle" THEN "Running" ELSE status
  /\ fetchEvent' = TRUE
  /\ pending' = Complete(pending, kernel)
  /\ kernel' = None
  /\ UNCHANGED <<program, pc, ports, pendingPIM, pimEvent, sent, issued, faulted>>

(* The program has ended. *)
Exit == Ended /\ UNCHANGED vars

Responses ==
  \/ \E p \in DOMAIN fetches : CompleteIfetch(p) \/ DropIfetch(p)
  \/ \E a \in Addrs : CompleteDataAccess(a) \/ DropDataAccess(a)

Next ==
  \/ FetchEvent \/ RetryPIM
  \/ Responses
  \/ IcacheRetry \/ DcacheRetry
  \/ CompleteCommand
  \/ Exit

Spec == Init /\ [][Next]_vars

(* The event queue runs what is scheduled, the caches answer and grant     *)
(* their retries, and the kernel finishes what it started.                 *)
FairSpec ==
  /\ Spec
  /\ WF_vars(FetchEvent)
  /\ WF_vars(Responses)
  /\ WF_vars(IcacheRetry) /\ WF_vars(DcacheRetry)
  /\ WF_vars(CompleteCommand)

-----------------------------------------------------------------------------
(* The PIM instructions among the first i of the program, and the commands *)
(* cmds of the instructions the thread has left behind, in their order.    *)
PIMsUpTo(i) == {j \in 1 .. i : program[j].op = "pim"}
InProgramOrder(cmds) ==
  /\ Len(cmds) = Cardinality(PIMsUpTo(pc - 1))
  /\ \A i \in PIMsUpTo(pc - 1) : cmds[Cardinality(PIMsUpTo(i))] = program[i].cmd

(* A program that touches an address of each command before it issues the  *)
(* next one, and so waits for the kernel to be free.                       *)
Waits(p) ==
  \A i, j \in DOMAIN p :
    i < j /\ p[i].op = "pim" /\ p[j].op = "pim" =>
      \E k \in i .. j : p[k].op = "mem" /\ \E r \in Regs : p[i].cmd[r] = p[k].addr

(* The processor, the queues and the kernel are in states of their types.  *)
TypeOK ==
  /\ program \in Programs
  /\ pc \in 1 .. Len(program) + 1
  /\ status \in Status
  /\ fetchEvent \in BOOLEAN /\ pimEvent \in BOOLEAN
  /\ fetches \in [1 .. Len(program) -> Nat]
  /\ accesses \in [Addrs -> Nat]
  /\ dcachePkt \in Addrs \union {None}
  /\ pendingPIM \in Seq(Commands) /\ pending \in Seq(Commands)
  /\ kernel \in Commands \union {None}
  /\ sent \in Seq(Commands) /\ issued \in Seq(Commands)

(* IcachePort::recvTimingResp(): "we only issue a new request once this    *)
(* response is sunk", so that at most one fetch is under way, and it is    *)
(* for the instruction the thread is at.  (This and what follows holds of  *)
(* a program whose PIM addresses are mapped: after a fault, retryPIM()     *)
(* overwrites the status.)                                                 *)
OneFetchOutstanding ==
  ~faulted =>
    \A p \in DOMAIN fetches : fetches[p] > 0 => p = pc /\ fetches[p] = 1

(* The processor sleeps only on a command that the kernel is working on,   *)
(* whose completion wakes it.                                              *)
SleepHasReason ==
  ~faulted /\ status = "Idle" =>
    /\ kernel # None
    /\ ~Ended
    /\ program[pc].op = "mem"
    /\ StalledAddr(<<kernel>>, program[pc].addr)

(* No data access of the host to the operands or the result of a command   *)
(* is under way, or kept for a retry, while the command is registered.     *)
NoAccessInFlightToLocked ==
  ~faulted =>
    \A a \in Addrs : accesses[a] > 0 \/ dcachePkt = a => ~StalledAddr(pending, a)

(* The kernel receives the commands of the program in order, each exactly  *)
(* once, although the thread executes instructions again after it slept.   *)
SentInOrder == ~faulted => InProgramOrder(sent) /\ InProgramOrder(issued)

(* A command whose translation faulted is not lost: every command the      *)
(* thread has executed was sent or waits to be sent.                       *)
NothingLost ==
  \A i \in 1 .. Len(issued) :
    \/ \E j \in 1 .. Len(sent) : sent[j] = issued[i]
    \/ \E j \in 1 .. Len(pendingPIM) : pendingPIM[j] = issued[i]

(* timing.cc: "If the address translation is fault, the processors had to  *)
(* retry PIM requests at next cycles": a request that was retried with     *)
(* success has been sent once.                                             *)
RetriedOnce ==
  \A i, j \in 1 .. Len(sent) : sent[i] = sent[j] => i = j

(* The program comes to its end unless a translation faults: the processor *)
(* never sleeps for good, and no response it needs is dropped.             *)
HostFinishes == <>(Ended \/ faulted)
==============================================================================
