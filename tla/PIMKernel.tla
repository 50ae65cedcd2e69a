------------------------------ MODULE PIMKernel ------------------------------
(***************************************************************************)
(* The PIM kernel of the gem5 model (src/pim/pim_kernel.cc): a small       *)
(* engine beside the memory.  The host hands it a command of three         *)
(* addresses through a functional packet; the kernel registers them with   *)
(* the memory, reads the two operands, waits for the latency of its unit,  *)
(* writes the result and sends a Complete packet.                          *)
(*                                                                         *)
(* The kernel is driven by three events (tick, compute, finish) on its own *)
(* clock and by the callbacks of its port (a response, a retry).  A        *)
(* scheduled event is a number of clock edges to go; edges and callbacks   *)
(* interleave freely, as do two events that are due at the same edge.      *)
(***************************************************************************)
EXTENDS PIMRegistry, FiniteSets

CONSTANTS
  Addrs,        \* word addresses of the memory
  WordSize,     \* number of values of a word (2^64 in the code)
  Commands,     \* the commands the host may send: functions Regs -> Addrs
  KernelType,   \* "adder" or "multiplier"
  Latency,      \* _latency, in cycles of the kernel
  Refusable,    \* the requests the interconnect may refuse
  MaxFailed     \* bound on failed_pim_commands

ASSUME KernelAssumption ==
  /\ Addrs \subseteq Nat
  /\ WordSize \in Nat \ {0}
  /\ Commands \subseteq [Regs -> Addrs]
  /\ KernelType \in {"adder", "multiplier"}
  /\ Latency \in Nat
  /\ Refusable \subseteq {"PIMRead", "PIMWrite"}
  /\ MaxFailed \in Nat

Vals == 0 .. WordSize - 1

Status     == {"Idle", "Ready", "WaitingResp", "SendRetry", "Finish"}
DataStatus == {"dataEmpty", "dataReady", "dataWaitingResp", "dataFinish"}

(* An event that is not scheduled. *)
Off == -1

VARIABLES
  status,        \* PIMKernel::status
  regAddr,       \* regs[i].first
  regStat,       \* regs[i].second
  data,          \* data[i]
  recPackets,    \* recPackets.size(), up to NRegs: see Saturate
  retryPkt,      \* *retry_pkt
  tickEvent, computeEvent, finishEvent,
  failed,        \* failed_pim_commands
  waitRetry,     \* the interconnect owes the port a recvReqRetry
  net,           \* the packets between the port and the memory
  mem,           \* the contents of the memory
  pending        \* AbstractMemory::pendingPIMqueue

events == <<tickEvent, computeEvent, finishEvent>>
vars   == <<status, regAddr, regStat, data, recPackets, retryPkt, tickEvent,
            computeEvent, finishEvent, failed, waitRetry, net, mem, pending>>

(* A packet carries the register it is for, its address and its data.      *)
(* served: the memory has performed the access, the response is under way. *)
Packet == [procid : Regs, addr : Addrs, val : Vals, served : BOOLEAN]

ReadPacket(i, a)     == [procid |-> i, addr |-> a, val |-> 0, served |-> FALSE]
WritePacket(i, a, v) == [procid |-> i, addr |-> a, val |-> v, served |-> TRUE]
NoPacket             == [procid |-> NRegs, addr |-> 0, val |-> 0, served |-> FALSE]

-----------------------------------------------------------------------------
(* Fault: the result does not wrap around. *)
ComputeWide(x, y) == x + y

(* The kernel's computation, on unsigned words.                            *)
Compute(x, y) ==
  IF KernelType = "adder" THEN (x + y) % WordSize ELSE (x * y) % WordSize

doCompute(d) == Compute(d[0], d[1])

ReadReg(i) == i < Input

(* Fault: the last operand is not looked at. *)
inputReadyShort(rs) == \A i \in 0 .. Input - 2 : rs[i] = "dataFinish"

inputReady(rs)  == \A i \in 0 .. Input - 1 : rs[i] = "dataFinish"
outputReady(rs) == \A i \in Regs : rs[i] = "dataFinish"
getReadyStatus(rs) == inputReady(rs) /\ outputReady(rs)

(* Fault: the scan stops one register early. *)
locateLatestShort(rs) ==
  IF \E i \in 0 .. Input - 1 : rs[i] = "dataReady"
  THEN CHOOSE i \in 0 .. Input - 1 :
         /\ rs[i] = "dataReady"
         /\ \A j \in Regs : j < i => rs[j] # "dataReady"
  ELSE NRegs

(* The first register whose request has still to be sent, or NRegs.        *)
locateLatest(rs) ==
  IF \E i \in Regs : rs[i] = "dataReady"
  THEN CHOOSE i \in Regs : /\ rs[i] = "dataReady"
                           /\ \A j \in Regs : j < i => rs[j] # "dataReady"
  ELSE NRegs

needSchedule(st) == st \notin {"Idle", "SendRetry"}

(* Fault: a tick is scheduled although the finish event is. *)
ScheduleTickAlways(st, ev, fin, n) == IF needSchedule(st) /\ ev = Off THEN n ELSE ev

(* The statement that ends tick() and recvReqRetry(): ev is tickEvent, fin *)
(* finishEvent, and the tick is to come after n edges.                     *)
ScheduleTick(st, ev, fin, n) ==
  IF needSchedule(st) /\ ev = Off /\ fin = Off THEN n ELSE ev

(* clockEdge(Cycles(1)) from a callback: one edge away when the callback   *)
(* comes at a clock edge, two when it comes between two edges.             *)
NextEdge == {1, 2}

(* recPackets is emptied when its size is exactly NRegs - 1 and grows      *)
(* otherwise: once past that size it is never emptied again, so that all   *)
(* larger sizes behave alike.                                              *)
Saturate(n) == IF n < NRegs THEN n ELSE NRegs

Init ==
  /\ status = "Idle"
  /\ regAddr = [i \in Regs |-> 0]
  /\ regStat = [i \in Regs |-> "dataEmpty"]
  /\ data = [i \in Regs |-> 0]
  /\ recPackets = 0
  /\ retryPkt = NoPacket
  /\ tickEvent = Off /\ computeEvent = Off /\ finishEvent = Off
  /\ failed = 0
  /\ waitRetry = FALSE
  /\ net = {}
  /\ mem \in [Addrs -> Vals]
  /\ pending = << >>

-----------------------------------------------------------------------------
(* Fault: an accepted read is not marked as waiting for its response. *)
SendReadUnmarked(i, ra, rs) ==
  /\ status' = "WaitingResp"
  /\ regStat' = rs
  /\ net' = net \union {ReadPacket(i, ra[i])}
  /\ UNCHANGED <<retryPkt, waitRetry>>

(* Sending the read of register i, for the registers ra and rs.            *)
SendRead(i, ra, rs) ==
  \/ /\ status' = "WaitingResp"
     /\ regStat' = [rs EXCEPT ![i] = "dataWaitingResp"]
     /\ net' = net \union {ReadPacket(i, ra[i])}
     /\ UNCHANGED <<retryPkt, waitRetry>>
  \/ /\ "PIMRead" \in Refusable
     /\ status' = "SendRetry"
     /\ regStat' = rs
     /\ retryPkt' = ReadPacket(i, ra[i])
     /\ waitRetry' = TRUE
     /\ UNCHANGED net

(* What every tick in Ready or WaitingResp does first. *)
ClearReceived(n) == IF n = NRegs - 1 THEN 0 ELSE n

(* recvFunctional() of a command by a kernel that is free: registration,   *)
(* start(), active() and the first tick(), which sends the first read.     *)
StartCommand(c, n) ==
  /\ status = "Idle"
  /\ pending' = Registration(pending, c)
  /\ regAddr' = c
  /\ SendRead(0, c, [i \in Regs |-> "dataReady"])
  /\ recPackets' = ClearReceived(recPackets)
  /\ tickEvent' = ScheduleTick(status', tickEvent, finishEvent, n)
  /\ UNCHANGED <<data, computeEvent, finishEvent, failed, mem>>

(* recvFunctional() of a command by a busy kernel: the addresses are       *)
(* registered before the status is looked at, and the command is dropped.  *)
DropCommand(c) ==
  /\ status # "Idle"
  /\ failed < MaxFailed
  /\ pending' = Registration(pending, c)
  /\ failed' = failed + 1
  /\ UNCHANGED <<status, regAddr, regStat, data, recPackets, retryPkt, events,
                 waitRetry, net, mem>>

RecvFunctional(c) == DropCommand(c) \/ \E n \in NextEdge : StartCommand(c, n)

-----------------------------------------------------------------------------
(* tick(), by the status of the kernel and the register to process.        *)

(* SendRetry: nothing is done and no further tick is scheduled.            *)
TickSendRetry ==
  /\ tickEvent = 0
  /\ status = "SendRetry"
  /\ tickEvent' = Off
  /\ UNCHANGED <<status, regAddr, regStat, data, recPackets, retryPkt,
                 computeEvent, finishEvent, failed, waitRetry, net, mem, pending>>

(* Fault: SendRetry is handled like WaitingResp. *)
TickReadInRetry ==
  /\ tickEvent = 0
  /\ status \in {"Ready", "WaitingResp", "SendRetry"}
  /\ ReadReg(locateLatest(regStat))
  /\ recPackets' = ClearReceived(recPackets)
  /\ SendRead(locateLatest(regStat), regAddr, regStat)
  /\ tickEvent' = ScheduleTick(status', Off, finishEvent, 1)
  /\ UNCHANGED <<regAddr, data, computeEvent, finishEvent, failed, mem, pending>>

(* An operand has still to be asked for. *)
TickRead ==
  /\ tickEvent = 0
  /\ status \in {"Ready", "WaitingResp"}
  /\ ReadReg(locateLatest(regStat))
  /\ recPackets' = ClearReceived(recPackets)
  /\ SendRead(locateLatest(regStat), regAddr, regStat)
  /\ tickEvent' = ScheduleTick(status', Off, finishEvent, 1)
  /\ UNCHANGED <<regAddr, data, computeEvent, finishEvent, failed, mem, pending>>

(* All operands are asked for: once they are there and the result has not  *)
(* been sent, the computation is scheduled.                                *)
TickCompute ==
  /\ tickEvent = 0
  /\ status \in {"Ready", "WaitingResp"}
  /\ ~ReadReg(locateLatest(regStat))
  /\ recPackets' = ClearReceived(recPackets)
  /\ IF locateLatest(regStat) < NRegs /\ inputReady(regStat)
     THEN /\ computeEvent' = IF computeEvent = Off THEN Latency ELSE computeEvent
          /\ UNCHANGED status
     ELSE /\ status' = IF getReadyStatus(regStat) THEN "Finish" ELSE status
          /\ UNCHANGED computeEvent
  /\ tickEvent' = ScheduleTick(status', Off, finishEvent, 1)
  /\ UNCHANGED <<regAddr, regStat, data, retryPkt, finishEvent, failed,
                 waitRetry, net, mem, pending>>

(* Idle or Finish: the finish event is scheduled, asserting it is not yet. *)
TickFinish ==
  /\ tickEvent = 0
  /\ status \in {"Idle", "Finish"}
  /\ finishEvent = Off
  /\ finishEvent' = 1
  /\ tickEvent' = ScheduleTick(status, Off, finishEvent', 1)
  /\ UNCHANGED <<status, regAddr, regStat, data, recPackets, retryPkt,
                 computeEvent, failed, waitRetry, net, mem, pending>>

Tick == TickSendRetry \/ TickRead \/ TickCompute \/ TickFinish

(* trycompute(): the result is computed and its write is sent.  When the   *)
(* write is refused the packet is kept for the retry, and the event is     *)
(* also scheduled for the next edge.                                       *)
TryCompute ==
  /\ computeEvent = 0
  /\ locateLatest(regStat) \in Regs
  /\ LET i   == locateLatest(regStat)
         pkt == WritePacket(i, regAddr[i], doCompute(data))
     IN  \/ /\ status' = "WaitingResp"
            /\ regStat' = [regStat EXCEPT ![i] = "dataWaitingResp"]
            /\ net' = net \union {pkt}
            /\ mem' = [mem EXCEPT ![pkt.addr] = pkt.val]
            /\ computeEvent' = Off
            /\ UNCHANGED <<retryPkt, waitRetry>>
         \/ /\ "PIMWrite" \in Refusable
            /\ status' = "SendRetry"
            /\ retryPkt' = pkt
            /\ waitRetry' = TRUE
            /\ computeEvent' = 1
            /\ UNCHANGED <<regStat, net, mem>>
  /\ UNCHANGED <<regAddr, data, recPackets, tickEvent, finishEvent, failed, pending>>

(* finish(): asserts that no tick is scheduled; the memory removes the     *)
(* registration, asserting that it finds one.                              *)
Finish ==
  /\ finishEvent = 0
  /\ tickEvent = Off
  /\ Found(pending, regAddr)
  /\ pending' = Complete(pending, regAddr)
  /\ status' = "Idle"
  /\ finishEvent' = Off
  /\ UNCHANGED <<regAddr, regStat, data, recPackets, retryPkt, tickEvent,
                 computeEvent, failed, waitRetry, net, mem>>

-----------------------------------------------------------------------------
(* The callbacks of the port. *)

(* recvReqRetry(): retry_pkt is sent again; a second refusal changes       *)
(* nothing, and the interconnect owes another retry.                       *)
RecvReqRetry(n) ==
  /\ waitRetry
  /\ status = "SendRetry"
  /\ waitRetry' = FALSE
  /\ status' = "WaitingResp"
  /\ regStat' = [regStat EXCEPT ![retryPkt.procid] = "dataWaitingResp"]
  /\ net' = net \union {retryPkt}
  /\ mem' = IF ReadReg(retryPkt.procid)
            THEN mem ELSE [mem EXCEPT ![retryPkt.addr] = retryPkt.val]
  /\ tickEvent' = ScheduleTick(status', tickEvent, finishEvent, n)
  /\ UNCHANGED <<regAddr, data, recPackets, retryPkt, computeEvent, finishEvent,
                 failed, pending>>

(* recvTimingResp() and doDataCallback(). *)
RecvTimingResp(pkt, n) ==
  /\ pkt.served
  /\ net' = net \ {pkt}
  /\ data' = [data EXCEPT ![pkt.procid] = pkt.val]
  /\ regStat' = [regStat EXCEPT ![pkt.procid] = "dataFinish"]
  /\ status' = IF getReadyStatus(regStat') THEN "Finish" ELSE status
  /\ recPackets' = Saturate(recPackets + 1)
  /\ tickEvent' = IF tickEvent = Off THEN n ELSE tickEvent
  /\ UNCHANGED <<regAddr, retryPkt, computeEvent, finishEvent, failed,
                 waitRetry, mem, pending>>

-----------------------------------------------------------------------------
(* The memory and the host. *)

(* The memory controller performs a read it accepted earlier.              *)
MemRead(pkt) ==
  /\ ~pkt.served
  /\ net' = (net \ {pkt}) \union {[pkt EXCEPT !.val = mem[pkt.addr], !.served = TRUE]}
  /\ UNCHANGED <<status, regAddr, regStat, data, recPackets, retryPkt, events,
                 failed, waitRetry, mem, pending>>

(* A timing write of the host reaches the memory controller, which refuses *)
(* the addresses of a registered command.                                  *)
HostWrite(a, v) ==
  /\ ~StalledAddr(pending, a)
  /\ mem' = [mem EXCEPT ![a] = v]
  /\ UNCHANGED <<status, regAddr, regStat, data, recPackets, retryPkt, events,
                 failed, waitRetry, net, pending>>

(* The next clock edge, once every event that is due has run.              *)
Countdown(ev) == IF ev = Off THEN Off ELSE ev - 1

Cycle ==
  /\ tickEvent # 0 /\ computeEvent # 0 /\ finishEvent # 0
  /\ tickEvent # Off \/ computeEvent # Off \/ finishEvent # Off
  /\ tickEvent' = Countdown(tickEvent)
  /\ computeEvent' = Countdown(computeEvent)
  /\ finishEvent' = Countdown(finishEvent)
  /\ UNCHANGED <<status, regAddr, regStat, data, recPackets, retryPkt, failed,
                 waitRetry, net, mem, pending>>

Events    == Tick \/ TryCompute \/ Finish
Callbacks == \/ \E n \in NextEdge : RecvReqRetry(n)
             \/ \E pkt \in net, n \in NextEdge : RecvTimingResp(pkt, n)

Next ==
  \/ \E c \in Commands : RecvFunctional(c)
  \/ Events
  \/ Callbacks
  \/ \E pkt \in net : MemRead(pkt)
  \/ \E a \in Addrs, v \in Vals : HostWrite(a, v)
  \/ Cycle

Spec == Init /\ [][Next]_vars

(* The event queue runs what is due and time advances; the memory performs *)
(* what it accepted and answers; a refused request is accepted in the end. *)
(* Nothing is assumed of the host.                                         *)
Fairness ==
  /\ WF_vars(Events)
  /\ WF_vars(Cycle)
  /\ WF_vars(\E n \in NextEdge : RecvReqRetry(n))
  /\ WF_vars(\E pkt \in net, n \in NextEdge : RecvTimingResp(pkt, n))
  /\ WF_vars(\E pkt \in net : MemRead(pkt))

FairSpec == Spec /\ Fairness

-----------------------------------------------------------------------------
(* Correctness. *)

(* The variables have the types the code declares. *)
TypeOK ==
  /\ status \in Status
  /\ regAddr \in [Regs -> Addrs \union {0}]
  /\ regStat \in [Regs -> DataStatus]
  /\ data \in [Regs -> Vals]
  /\ recPackets \in 0 .. NRegs
  /\ retryPkt \in Packet \union {NoPacket}
  /\ tickEvent \in Int /\ tickEvent >= Off
  /\ computeEvent \in Int /\ computeEvent >= Off
  /\ finishEvent \in Int /\ finishEvent >= Off
  /\ failed \in 0 .. MaxFailed
  /\ waitRetry \in BOOLEAN
  /\ net \subseteq Packet
  /\ mem \in [Addrs -> Vals]
  /\ pending \in Seq([Regs -> Addrs])

(* The assertions of the code hold, and no register index is out of range, *)
(* whenever the handler that states them can run: finish() finds no tick   *)
(* scheduled and the memory finds the command; tick() schedules finish at  *)
(* most once; trycompute() finds a register to write; recvReqRetry() finds *)
(* a packet to resend.                                                     *)
AssertionsHold ==
  /\ finishEvent = 0 => tickEvent = Off /\ Found(pending, regAddr)
  /\ tickEvent = 0 /\ status \in {"Idle", "Finish"} => finishEvent = Off
  /\ computeEvent = 0 => locateLatest(regStat) \in Regs
  /\ waitRetry => status = "SendRetry" /\ retryPkt \in Packet

(* As long as the kernel works on a command, the memory has the command's  *)
(* own addresses registered and stalls the host on each of them, whatever  *)
(* commands were dropped or completed before with the same first address.  *)
RunningIsRegistered ==
  status # "Idle" =>
    /\ \E k \in 1 .. Len(pending) : pending[k] = regAddr
    /\ \A i \in Regs : StalledAddr(pending, regAddr[i])

(* The operands the kernel holds or that travel to it are what memory      *)
(* holds until the result is written: no host write slips in between the   *)
(* reads and the computation.                                              *)
Committed == status # "Idle" /\ regStat[2] \in {"dataWaitingResp", "dataFinish"}

OperandsCurrent ==
  status # "Idle" /\ ~Committed =>
    \A i \in 0 .. Input - 1 :
      /\ regStat[i] = "dataFinish" => data[i] = mem[regAddr[i]]
      /\ \A pkt \in net :
           pkt.procid = i /\ pkt.served => pkt.val = mem[regAddr[i]]

(* A register waits for a response exactly while one packet of its own,    *)
(* for its own address, is between the port and the memory: a request is   *)
(* neither lost nor sent twice, and no response outlives its command.      *)
PacketConservation ==
  /\ \A i \in Regs : regStat[i] = "dataWaitingResp" <=> \E p \in net : p.procid = i
  /\ \A p \in net : p.addr = regAddr[p.procid] /\ status # "Idle"
  /\ \A p, q \in net : p.procid = q.procid => p = q

(* Every registration is accounted for: one per command dropped, which     *)
(* nothing removes, and one for the command that is running.               *)
RegistrationCount ==
  Len(pending) = failed + (IF status = "Idle" THEN 0 ELSE 1)

(* A new request is sent only when no refused request waits for its retry. *)
SendOnlyWhenFree == [][TickRead \/ TryCompute => ~waitRetry]_vars

(* A kernel that started a command becomes idle again. *)
CommandCompletes == status # "Idle" ~> status = "Idle"

(* The kernel implements the atomic offload. *)
Offload == INSTANCE PIMOffload WITH
             phase <- IF status = "Idle" THEN "idle"
                      ELSE IF Committed THEN "committed" ELSE "accepted",
             cmd <- regAddr

ImplementsOffload == Offload!OffloadSpec

(* pim_kernel.cc:528 says that finish() removes the pending address from   *)
(* the memory: an idle kernel leaves no address blocked.                   *)
IdleLeavesNothingBlocked == status = "Idle" => pending = << >>
==============================================================================
