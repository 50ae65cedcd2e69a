--------------------------- MODULE PIMKernelProofs ---------------------------
(***************************************************************************)
(* Proofs about PIMKernel for every memory, command set, latency and word  *)
(* size, under the assumption that the interconnect never refuses a        *)
(* PIMWrite (a refused PIMWrite is sent again without waiting for its      *)
(* retry, and nothing below holds after that).                             *)
(***************************************************************************)
EXTENDS PIMKernel, WellFoundedInduction, TLAPS

ReadsOnly == Refusable \subseteq {"PIMRead"}

(* The control state of the kernel: what each status, event and register   *)
(* says about the others.                                                  *)
IdleQuiet ==
  status = "Idle" => /\ net = {} /\ ~waitRetry
                     /\ tickEvent = Off /\ computeEvent = Off /\ finishEvent = Off

Running ==
  status # "Idle" => /\ regAddr \in [Regs -> Addrs]
                     /\ \A i \in Regs : regStat[i] # "dataEmpty"
                     /\ status # "Ready"

Retrying ==
  /\ waitRetry => status = "SendRetry"
  /\ waitRetry => /\ retryPkt.procid \in 0 .. Input - 1
                  /\ retryPkt = ReadPacket(retryPkt.procid, regAddr[retryPkt.procid])
                  /\ regStat[retryPkt.procid] = "dataReady"

Computing ==
  computeEvent # Off => /\ status = "WaitingResp"
                        /\ inputReady(regStat)
                        /\ regStat[2] = "dataReady"

Finishing ==
  /\ finishEvent # Off => tickEvent = Off /\ status = "Finish"
  /\ status = "Finish" => outputReady(regStat)

ResultLast ==
  status # "Idle" /\ regStat[2] # "dataReady" => inputReady(regStat)

Control == IdleQuiet /\ Running /\ Retrying /\ Computing /\ Finishing /\ ResultLast

Registered ==
  status # "Idle" => \E k \in 1 .. Len(pending) : pending[k] = regAddr

(* The inductive invariant. *)
IInv ==
  /\ TypeOK
  /\ Control
  /\ PacketConservation
  /\ Registered
  /\ RegistrationCount
  /\ OperandsCurrent

-----------------------------------------------------------------------------
(* The scan for the next register returns the first one that is ready.     *)
LEMMA LocateLatest ==
  ASSUME NEW rs \in [Regs -> DataStatus]
  PROVE  \/ /\ locateLatest(rs) = NRegs
            /\ \A i \in Regs : rs[i] # "dataReady"
         \/ /\ locateLatest(rs) \in Regs
            /\ rs[locateLatest(rs)] = "dataReady"
            /\ \A j \in Regs : j < locateLatest(rs) => rs[j] # "dataReady"
<1>1. CASE \A i \in Regs : rs[i] # "dataReady"
  BY <1>1 DEF locateLatest
<1>2. CASE \E i \in Regs : rs[i] = "dataReady"
  <2>1. \E i \in Regs : /\ rs[i] = "dataReady"
                        /\ \A j \in Regs : j < i => rs[j] # "dataReady"
    BY <1>2 DEF Regs, NRegs, Input, Output
  <2>2. QED
    BY <1>2, <2>1 DEF locateLatest
<1>3. QED
  BY <1>1, <1>2

(* A word operation yields a word. *)
LEMMA ComputeType ==
  ASSUME NEW x \in Vals, NEW y \in Vals
  PROVE  Compute(x, y) \in Vals
<1>1. \A z \in Nat : z % WordSize \in Vals
  BY KernelAssumption DEF Vals
<1>2. x + y \in Nat /\ x * y \in Nat
  BY KernelAssumption DEF Vals
<1>3. QED
  BY <1>1, <1>2 DEF Compute

(* The packets the kernel builds are packets. *)
LEMMA PacketType ==
  ASSUME NEW i \in Regs, NEW a \in Addrs
  PROVE  /\ ReadPacket(i, a) \in Packet
         /\ \A v \in Vals : WritePacket(i, a, v) \in Packet
<1>1. 0 \in Vals
  BY KernelAssumption DEF Vals
<1>2. QED
  BY <1>1 DEF ReadPacket, WritePacket, Packet

(* Sending a read keeps the types of what it changes. *)
LEMMA SendReadType ==
  ASSUME TypeOK, NEW i \in Regs, NEW ra \in [Regs -> Addrs],
         NEW rs \in [Regs -> DataStatus], SendRead(i, ra, rs)
  PROVE  /\ status' \in {"WaitingResp", "SendRetry"}
         /\ regStat' \in [Regs -> DataStatus]
         /\ net' \subseteq Packet
         /\ retryPkt' \in Packet \union {NoPacket}
         /\ waitRetry' \in BOOLEAN
<1>1. ReadPacket(i, ra[i]) \in Packet
  BY PacketType
<1>2. [rs EXCEPT ![i] = "dataWaitingResp"] \in [Regs -> DataStatus]
  BY DEF DataStatus
<1>3. QED
  BY <1>1, <1>2 DEF SendRead, TypeOK

(* Erasing the first match shortens the queue by one entry. *)
LEMMA CompleteQueue ==
  ASSUME NEW S, NEW q \in Seq(S), NEW c, Found(q, c)
  PROVE  /\ Complete(q, c) \in Seq(S)
         /\ Len(Complete(q, c)) = Len(q) - 1
<1>1. \E m \in 1 .. Len(q) : /\ SameCommand(q[m], c)
                             /\ \A j \in 1 .. m - 1 : ~SameCommand(q[j], c)
  <2> DEFINE T == {m \in 1 .. Len(q) : SameCommand(q[m], c)}
  <2>1. T \subseteq Nat /\ T # {}
    BY DEF Found
  <2>2. \E x \in T : \A y \in T : ~ (<<y, x>> \in OpToRel(<, Nat))
    BY <2>1, NatLessThanWellFounded, WFMin
  <2>3. \E x \in T : \A y \in T : ~ (y < x)
    BY <2>1, <2>2 DEF OpToRel
  <2>4. QED
    BY <2>3
<1>2. FirstMatch(q, c) \in 1 .. Len(q)
  BY <1>1 DEF FirstMatch
<1>3. QED
  BY <1>2 DEF Complete

-----------------------------------------------------------------------------
(* When every register is finished nothing is in flight. *)
LEMMA PacketsGone == IInv /\ outputReady(regStat) => net = {}
<1> SUFFICES ASSUME IInv, outputReady(regStat), net # {} PROVE FALSE
  OBVIOUS
<1>1. PICK p \in net : TRUE
  OBVIOUS
<1>2. p.procid \in Regs /\ regStat[p.procid] = "dataWaitingResp"
  BY DEF IInv, TypeOK, Packet, PacketConservation
<1>3. QED
  BY <1>2 DEF outputReady

(* The invariant holds in a kernel that has just been built. *)
LEMMA InitInv == Init => IInv
<1> SUFFICES ASSUME Init PROVE IInv
  OBVIOUS
<1>1. TypeOK
  <2>1. 0 \in Vals /\ 0 \in 0 .. MaxFailed /\ 0 \in 0 .. NRegs
    BY KernelAssumption DEF Vals, NRegs, Input, Output
  <2>2. /\ regAddr \in [Regs -> Addrs \union {0}] /\ data \in [Regs -> Vals]
        /\ regStat \in [Regs -> DataStatus] /\ pending \in Seq([Regs -> Addrs])
    BY <2>1 DEF Init, DataStatus
  <2>3. /\ tickEvent \in Int /\ tickEvent >= Off /\ computeEvent \in Int /\ computeEvent >= Off
        /\ finishEvent \in Int /\ finishEvent >= Off
    BY DEF Init, Off
  <2>4. waitRetry \in BOOLEAN /\ net \subseteq Packet /\ retryPkt \in Packet \union {NoPacket}
    BY DEF Init
  <2>5. QED
    BY <2>1, <2>2, <2>3, <2>4 DEF Init, TypeOK, Status
<1>2. Control
  BY DEF Init, Control, IdleQuiet, Running, Retrying, Computing, Finishing, ResultLast
<1>3. PacketConservation /\ Registered /\ RegistrationCount /\ OperandsCurrent
  BY DEF Init, PacketConservation, Registered, RegistrationCount, OperandsCurrent, Committed
<1>4. QED
  BY <1>1, <1>2, <1>3 DEF IInv

(* Every action keeps the types. *)
LEMMA TypeStep == ReadsOnly /\ IInv /\ [Next]_vars => TypeOK'
<1> SUFFICES ASSUME ReadsOnly, IInv, [Next]_vars PROVE TypeOK'
  OBVIOUS
<1> USE DEF Off, Regs, NRegs, Input, Output
<1>1. ASSUME NEW c \in Commands, DropCommand(c) PROVE TypeOK'
  BY <1>1, KernelAssumption DEF IInv, TypeOK, DropCommand, Registration, events
<1>2. ASSUME NEW c \in Commands, NEW n \in NextEdge, StartCommand(c, n) PROVE TypeOK'
  <2> DEFINE rs == [i \in Regs |-> "dataReady"]
  <2>1. c \in [Regs -> Addrs] /\ rs \in [Regs -> DataStatus]
    BY KernelAssumption DEF DataStatus
  <2>2. SendRead(0, c, rs)
    BY <1>2 DEF StartCommand
  <2> HIDE DEF rs
  <2>3. /\ status' \in {"WaitingResp", "SendRetry"} /\ waitRetry' \in BOOLEAN
        /\ regStat' \in [Regs -> DataStatus] /\ net' \subseteq Packet
        /\ retryPkt' \in Packet \union {NoPacket}
    BY <2>1, <2>2, SendReadType DEF IInv
  <2>4. pending' \in Seq([Regs -> Addrs])
    BY <1>2, <2>1 DEF StartCommand, Registration, IInv, TypeOK
  <2>5. /\ tickEvent' \in Int /\ tickEvent' >= Off
        /\ recPackets' \in 0 .. NRegs
    BY <1>2 DEF StartCommand, ScheduleTick, ClearReceived, NextEdge, IInv, TypeOK
  <2>6. QED
    BY <1>2, <2>1, <2>3, <2>4, <2>5 DEF IInv, TypeOK, StartCommand, Status
<1>3. CASE TickSendRetry
  BY <1>3 DEF IInv, TypeOK, TickSendRetry
<1>4. CASE TickRead
  <2>1. locateLatest(regStat) \in 0 .. 1
    BY <1>4, LocateLatest DEF IInv, TypeOK, TickRead, ReadReg
  <2>2. regAddr \in [Regs -> Addrs] /\ SendRead(locateLatest(regStat), regAddr, regStat)
    BY <1>4 DEF IInv, Control, Running, TickRead
  <2>3. /\ status' \in {"WaitingResp", "SendRetry"} /\ waitRetry' \in BOOLEAN
        /\ regStat' \in [Regs -> DataStatus] /\ net' \subseteq Packet
        /\ retryPkt' \in Packet \union {NoPacket}
    BY <2>1, <2>2, SendReadType DEF IInv, TypeOK
  <2>4. /\ tickEvent' \in Int /\ tickEvent' >= Off
        /\ recPackets' \in 0 .. NRegs
    BY <1>4 DEF TickRead, ScheduleTick, ClearReceived, IInv, TypeOK
  <2>5. QED
    BY <1>4, <2>2, <2>3, <2>4 DEF IInv, TypeOK, TickRead, Status
<1>5. CASE TickCompute
  BY <1>5, KernelAssumption
     DEF IInv, TypeOK, TickCompute, ClearReceived, ScheduleTick, Status
<1>6. CASE TickFinish
  BY <1>6 DEF IInv, TypeOK, TickFinish, ScheduleTick
<1>7. CASE TryCompute
  <2> DEFINE i == locateLatest(regStat)
             v == doCompute(data)
  <2>1. i \in Regs /\ status = "WaitingResp" /\ regAddr[i] \in Addrs
    BY <1>7 DEF IInv, Control, Computing, Running, TryCompute
  <2>2. v \in Vals
    BY ComputeType DEF doCompute, IInv, TypeOK
  <2>3. WritePacket(i, regAddr[i], v) \in Packet
    BY <2>1, <2>2, PacketType
  <2>4. /\ status' = "WaitingResp" /\ UNCHANGED <<retryPkt, waitRetry>>
        /\ regStat' = [regStat EXCEPT ![i] = "dataWaitingResp"]
        /\ net' = net \union {WritePacket(i, regAddr[i], v)}
        /\ mem' = [mem EXCEPT ![regAddr[i]] = v]
        /\ computeEvent' = Off
    BY <1>7 DEF TryCompute, ReadsOnly, WritePacket
  <2>5. regStat' \in [Regs -> DataStatus] /\ mem' \in [Addrs -> Vals]
    BY <2>1, <2>2, <2>4 DEF IInv, TypeOK, DataStatus
  <2> HIDE DEF i, v
  <2>6. QED
    BY <1>7, <2>3, <2>4, <2>5 DEF IInv, TypeOK, TryCompute, Status
<1>8. CASE Finish
  BY <1>8, CompleteQueue DEF IInv, TypeOK, Finish, Status
<1>9. ASSUME NEW n \in NextEdge, RecvReqRetry(n) PROVE TypeOK'
  <2>1. retryPkt.procid \in 0 .. 1 /\ retryPkt \in Packet
    BY <1>9, PacketType DEF IInv, Control, Retrying, Running, RecvReqRetry
  <2>2. regStat' \in [Regs -> DataStatus] /\ mem' = mem /\ net' \subseteq Packet
    BY <1>9, <2>1 DEF RecvReqRetry, ReadReg, IInv, TypeOK, DataStatus
  <2>3. tickEvent' \in Int /\ tickEvent' >= Off
    BY <1>9 DEF RecvReqRetry, ScheduleTick, NextEdge, IInv, TypeOK
  <2>4. QED
    BY <1>9, <2>2, <2>3 DEF RecvReqRetry, IInv, TypeOK, Status
<1>10. ASSUME NEW pkt \in net, NEW n \in NextEdge, RecvTimingResp(pkt, n) PROVE TypeOK'
  BY <1>10 DEF IInv, TypeOK, RecvTimingResp, Packet, Status, DataStatus, Saturate, NextEdge
<1>11. ASSUME NEW pkt \in net, MemRead(pkt) PROVE TypeOK'
  BY <1>11 DEF IInv, TypeOK, MemRead, Packet, events
<1>12. ASSUME NEW a \in Addrs, NEW v \in Vals, HostWrite(a, v) PROVE TypeOK'
  BY <1>12 DEF IInv, TypeOK, HostWrite, events
<1>13. CASE Cycle
  BY <1>13 DEF IInv, TypeOK, Cycle, Countdown
<1>14. CASE UNCHANGED vars
  BY <1>14 DEF IInv, TypeOK, vars
<1>15. QED
  BY <1>1, <1>2, <1>3, <1>4, <1>5, <1>6, <1>7, <1>8, <1>9, <1>10, <1>11, <1>12,
     <1>13, <1>14 DEF Next, RecvFunctional, Events, Tick, Callbacks

(* The control state of the kernel stays consistent. *)
LEMMA ControlStep == ReadsOnly /\ IInv /\ [Next]_vars => Control'
<1> SUFFICES ASSUME ReadsOnly, IInv, [Next]_vars PROVE Control'
  OBVIOUS
<1> USE DEF Off, Regs, NRegs, Input, Output, IInv, TypeOK, Control, IdleQuiet, Running,
            Retrying, Computing, Finishing, ResultLast, inputReady, outputReady
<1>1. ASSUME NEW c \in Commands, DropCommand(c) PROVE Control'
  BY <1>1 DEF DropCommand, events
<1>2. ASSUME NEW c \in Commands, NEW n \in NextEdge, StartCommand(c, n) PROVE Control'
  BY <1>2, KernelAssumption, SMTT(20) DEF StartCommand, SendRead, ReadPacket, ScheduleTick
<1>3. CASE TickSendRetry
  BY <1>3 DEF TickSendRetry
<1>4. CASE TickRead
  <2>1. locateLatest(regStat) \in 0 .. 1 /\ regStat[locateLatest(regStat)] = "dataReady"
    BY <1>4, LocateLatest DEF TickRead, ReadReg
  <2>2. QED
    BY <1>4, <2>1 DEF TickRead, SendRead, ReadPacket, ScheduleTick
<1>5. CASE TickCompute
  <2>1. locateLatest(regStat) < NRegs => regStat[2] = "dataReady"
    BY <1>5, LocateLatest DEF TickCompute, ReadReg
  <2>2. QED
    BY <1>5, <2>1 DEF TickCompute, getReadyStatus, ScheduleTick
<1>6. CASE TickFinish
  BY <1>6 DEF TickFinish, ScheduleTick
<1>7. CASE TryCompute
  <2>1. locateLatest(regStat) = 2
    BY <1>7, LocateLatest DEF TryCompute
  <2>2. QED
    BY <1>7, <2>1 DEF TryCompute, ReadsOnly
<1>8. CASE Finish
  BY <1>8, PacketsGone DEF Finish
<1>9. ASSUME NEW n \in NextEdge, RecvReqRetry(n) PROVE Control'
  BY <1>9 DEF RecvReqRetry, ReadPacket, ScheduleTick
<1>10. ASSUME NEW pkt \in net, NEW n \in NextEdge, RecvTimingResp(pkt, n) PROVE Control'
  BY <1>10 DEF RecvTimingResp, getReadyStatus, PacketConservation, Packet
<1>11. ASSUME NEW pkt \in net, MemRead(pkt) PROVE Control'
  BY <1>11 DEF MemRead, events
<1>12. ASSUME NEW a \in Addrs, NEW v \in Vals, HostWrite(a, v) PROVE Control'
  BY <1>12 DEF HostWrite, events
<1>13. CASE Cycle
  BY <1>13 DEF Cycle, Countdown
<1>14. CASE UNCHANGED vars
  BY <1>14 DEF vars
<1>15. QED
  BY <1>1, <1>2, <1>3, <1>4, <1>5, <1>6, <1>7, <1>8, <1>9, <1>10, <1>11, <1>12,
     <1>13, <1>14 DEF Next, RecvFunctional, Events, Tick, Callbacks

(* Packets and waiting registers stay in step. *)
LEMMA PacketStep == ReadsOnly /\ IInv /\ [Next]_vars => PacketConservation'
<1> SUFFICES ASSUME ReadsOnly, IInv, [Next]_vars PROVE PacketConservation'
  OBVIOUS
<1> USE DEF Regs, NRegs, Input, Output, IInv, TypeOK, PacketConservation
<1>1. ASSUME NEW c \in Commands, DropCommand(c) PROVE PacketConservation'
  BY <1>1 DEF DropCommand
<1>2. ASSUME NEW c \in Commands, NEW n \in NextEdge, StartCommand(c, n)
      PROVE PacketConservation'
  <2>1. net = {}
    BY <1>2 DEF StartCommand, Control, IdleQuiet
  <2> DEFINE p  == ReadPacket(0, c[0])
             rs == [i \in Regs |-> "dataReady"]
  <2>2. p.procid = 0 /\ p.addr = c[0]
    BY DEF ReadPacket
  <2>3. \/ net' = {p} /\ status' = "WaitingResp" /\ regStat' = [rs EXCEPT ![0] = "dataWaitingResp"]
        \/ net' = {} /\ status' = "SendRetry" /\ regStat' = rs
    BY <1>2, <2>1 DEF StartCommand, SendRead
  <2>4. regAddr' = c
    BY <1>2 DEF StartCommand
  <2> HIDE DEF p
  <2>5. QED
    BY <2>2, <2>3, <2>4
<1>3. CASE TickSendRetry
  BY <1>3 DEF TickSendRetry
<1>4. CASE TickRead
  <2>1. locateLatest(regStat) \in 0 .. 1 /\ regStat[locateLatest(regStat)] = "dataReady"
    BY <1>4, LocateLatest DEF TickRead, ReadReg
  <2> DEFINE i == locateLatest(regStat)
             p == ReadPacket(i, regAddr[i])
  <2>2. p.procid = i /\ p.addr = regAddr[i]
    BY DEF ReadPacket
  <2>3. \/ /\ net' = net \union {p} /\ status' = "WaitingResp"
           /\ regStat' = [regStat EXCEPT ![i] = "dataWaitingResp"]
        \/ net' = net /\ regStat' = regStat /\ status' = "SendRetry"
    BY <1>4 DEF TickRead, SendRead
  <2>4. regAddr' = regAddr
    BY <1>4 DEF TickRead
  <2> HIDE DEF i, p
  <2>5. QED
    BY <2>1, <2>2, <2>3, <2>4 DEF i
<1>5. CASE TickCompute
  BY <1>5 DEF TickCompute
<1>6. CASE TickFinish
  BY <1>6 DEF TickFinish
<1>7. CASE TryCompute
  <2>1. locateLatest(regStat) = 2 /\ regStat[2] = "dataReady"
    BY <1>7, LocateLatest DEF TryCompute, Control, Computing, Off, inputReady
  <2> DEFINE p == WritePacket(2, regAddr[2], doCompute(data))
  <2>2. p.procid = 2 /\ p.addr = regAddr[2]
    BY DEF WritePacket
  <2>3. /\ net' = net \union {p} /\ status' = "WaitingResp" /\ regAddr' = regAddr
        /\ regStat' = [regStat EXCEPT ![2] = "dataWaitingResp"]
    BY <1>7, <2>1 DEF TryCompute, ReadsOnly
  <2> HIDE DEF p
  <2>4. QED
    BY <2>1, <2>2, <2>3
<1>8. CASE Finish
  <2>1. net = {}
    BY <1>8, PacketsGone DEF Finish, Control, Finishing, Off
  <2>2. QED
    BY <1>8, <2>1 DEF Finish
<1>9. ASSUME NEW n \in NextEdge, RecvReqRetry(n) PROVE PacketConservation'
  BY <1>9 DEF RecvReqRetry, ReadPacket, Control, Retrying
<1>10. ASSUME NEW pkt \in net, NEW n \in NextEdge, RecvTimingResp(pkt, n)
       PROVE PacketConservation'
  BY <1>10 DEF RecvTimingResp, Packet
<1>11. ASSUME NEW pkt \in net, MemRead(pkt) PROVE PacketConservation'
  <2> DEFINE new == [pkt EXCEPT !.val = mem[pkt.addr], !.served = TRUE]
  <2>1. new.procid = pkt.procid /\ new.addr = pkt.addr
    BY DEF Packet
  <2>2. net' = (net \ {pkt}) \union {new} /\ UNCHANGED <<status, regAddr, regStat>>
    BY <1>11 DEF MemRead
  <2> HIDE DEF new
  <2>3. QED
    BY <2>1, <2>2
<1>12. ASSUME NEW a \in Addrs, NEW v \in Vals, HostWrite(a, v) PROVE PacketConservation'
  BY <1>12 DEF HostWrite
<1>13. CASE Cycle
  BY <1>13 DEF Cycle
<1>14. CASE UNCHANGED vars
  BY <1>14 DEF vars
<1>15. QED
  BY <1>1, <1>2, <1>3, <1>4, <1>5, <1>6, <1>7, <1>8, <1>9, <1>10, <1>11, <1>12,
     <1>13, <1>14 DEF Next, RecvFunctional, Events, Tick, Callbacks

(* Only its own Complete removes the registration of a running command,    *)
(* and registrations are counted by the commands dropped and running.      *)
LEMMA RegistryStep ==
  ReadsOnly /\ IInv /\ [Next]_vars => Registered' /\ RegistrationCount'
<1> SUFFICES ASSUME ReadsOnly, IInv, [Next]_vars PROVE Registered' /\ RegistrationCount'
  OBVIOUS
<1> USE DEF IInv, TypeOK, Registered, RegistrationCount
<1>1. ASSUME NEW c \in Commands, DropCommand(c) PROVE Registered' /\ RegistrationCount'
  <2>1. PICK k \in 1 .. Len(pending) : pending[k] = regAddr
    BY <1>1 DEF DropCommand
  <2>2. /\ Len(pending') = Len(pending) + 1 /\ pending'[k] = pending[k]
        /\ UNCHANGED <<regAddr, status>> /\ failed' = failed + 1
    BY <1>1, KernelAssumption DEF DropCommand, Registration
  <2>3. QED
    BY <1>1, <2>1, <2>2 DEF DropCommand
<1>2. ASSUME NEW c \in Commands, NEW n \in NextEdge, StartCommand(c, n)
      PROVE Registered' /\ RegistrationCount'
  <2>1. /\ Len(pending') = Len(pending) + 1 /\ pending'[Len(pending) + 1] = c
        /\ Len(pending) \in Nat
    BY <1>2, KernelAssumption DEF StartCommand, Registration
  <2>2. status' # "Idle" /\ status = "Idle" /\ regAddr' = c /\ failed' = failed
    BY <1>2 DEF StartCommand, SendRead
  <2>3. QED
    BY <2>1, <2>2
<1>3. CASE TickSendRetry
  BY <1>3 DEF TickSendRetry
<1>4. CASE TickRead
  BY <1>4 DEF TickRead, SendRead
<1>5. CASE TickCompute
  BY <1>5 DEF TickCompute
<1>6. CASE TickFinish
  BY <1>6 DEF TickFinish
<1>7. CASE TryCompute
  BY <1>7 DEF TryCompute, Control, Computing, Off
<1>8. CASE Finish
  <2>1. Len(pending') = Len(pending) - 1
    BY <1>8, CompleteQueue DEF Finish
  <2>2. status # "Idle" /\ status' = "Idle" /\ failed' = failed
    BY <1>8 DEF Finish, Control, Finishing, Off
  <2>3. QED
    BY <2>1, <2>2
<1>9. ASSUME NEW n \in NextEdge, RecvReqRetry(n) PROVE Registered' /\ RegistrationCount'
  BY <1>9 DEF RecvReqRetry
<1>10. ASSUME NEW pkt \in net, NEW n \in NextEdge, RecvTimingResp(pkt, n)
       PROVE Registered' /\ RegistrationCount'
  BY <1>10 DEF RecvTimingResp, PacketConservation
<1>11. ASSUME NEW pkt \in net, MemRead(pkt) PROVE Registered' /\ RegistrationCount'
  BY <1>11 DEF MemRead
<1>12. ASSUME NEW a \in Addrs, NEW v \in Vals, HostWrite(a, v)
       PROVE Registered' /\ RegistrationCount'
  BY <1>12 DEF HostWrite
<1>13. CASE Cycle
  BY <1>13 DEF Cycle
<1>14. CASE UNCHANGED vars
  BY <1>14 DEF vars
<1>15. QED
  BY <1>1, <1>2, <1>3, <1>4, <1>5, <1>6, <1>7, <1>8, <1>9, <1>10, <1>11, <1>12,
     <1>13, <1>14 DEF Next, RecvFunctional, Events, Tick, Callbacks

(* A host write leaves the words of a running command alone. *)
LEMMA HostWriteElsewhere ==
  ASSUME IInv, status # "Idle", NEW a, NEW v, HostWrite(a, v), NEW i \in Regs
  PROVE  regAddr[i] # a /\ Granule(regAddr[i]) # Granule(a)
BY DEF IInv, Registered, HostWrite, StalledAddr

(* No step makes an operand the kernel holds stale. *)
LEMMA OperandsStep == ReadsOnly /\ IInv /\ [Next]_vars => OperandsCurrent'
<1> SUFFICES ASSUME ReadsOnly, IInv, [Next]_vars PROVE OperandsCurrent'
  OBVIOUS
<1> USE DEF Regs, NRegs, Input, Output, IInv, TypeOK, OperandsCurrent, Committed
<1>1. ASSUME NEW c \in Commands, DropCommand(c) PROVE OperandsCurrent'
  BY <1>1 DEF DropCommand
<1>2. ASSUME NEW c \in Commands, NEW n \in NextEdge, StartCommand(c, n)
      PROVE OperandsCurrent'
  <2>1. net = {}
    BY <1>2 DEF StartCommand, Control, IdleQuiet
  <2>2. QED
    BY <1>2, <2>1 DEF StartCommand, SendRead, ReadPacket
<1>3. CASE TickSendRetry
  BY <1>3 DEF TickSendRetry
<1>4. CASE TickRead
  <2>1. locateLatest(regStat) \in 0 .. 1
    BY <1>4, LocateLatest DEF TickRead, ReadReg
  <2>2. QED
    BY <1>4, <2>1 DEF TickRead, SendRead, ReadPacket
<1>5. CASE TickCompute
  BY <1>5 DEF TickCompute
<1>6. CASE TickFinish
  BY <1>6 DEF TickFinish
<1>7. CASE TryCompute
  <2>1. locateLatest(regStat) = 2
    BY <1>7, LocateLatest DEF TryCompute, Control, Computing, Off, inputReady
  <2>2. QED
    BY <1>7, <2>1 DEF TryCompute, ReadsOnly
<1>8. CASE Finish
  BY <1>8 DEF Finish
<1>9. ASSUME NEW n \in NextEdge, RecvReqRetry(n) PROVE OperandsCurrent'
  BY <1>9 DEF RecvReqRetry, ReadPacket, ReadReg, Control, Retrying
<1>10. ASSUME NEW pkt \in net, NEW n \in NextEdge, RecvTimingResp(pkt, n)
       PROVE OperandsCurrent'
  <2>1. /\ pkt.procid \in Regs /\ status # "Idle" /\ regStat[pkt.procid] = "dataWaitingResp"
        /\ \A q \in net : q.procid = pkt.procid => q = pkt
    BY DEF Packet, PacketConservation
  <2>2. /\ data' = [data EXCEPT ![pkt.procid] = pkt.val]
        /\ regStat' = [regStat EXCEPT ![pkt.procid] = "dataFinish"]
        /\ net' = net \ {pkt} /\ pkt.served /\ UNCHANGED <<regAddr, mem>>
    BY <1>10 DEF RecvTimingResp
  <2>3. QED
    BY <2>1, <2>2
<1>11. ASSUME NEW pkt \in net, MemRead(pkt) PROVE OperandsCurrent'
  <2> DEFINE new == [pkt EXCEPT !.val = mem[pkt.addr], !.served = TRUE]
  <2>1. new.procid = pkt.procid /\ new.val = mem[regAddr[pkt.procid]]
    BY DEF Packet, PacketConservation
  <2>2. /\ net' = (net \ {pkt}) \union {new}
        /\ UNCHANGED <<status, regAddr, regStat, data, mem>>
    BY <1>11 DEF MemRead
  <2> HIDE DEF new
  <2>3. QED
    BY <2>1, <2>2
<1>12. ASSUME NEW a \in Addrs, NEW v \in Vals, HostWrite(a, v) PROVE OperandsCurrent'
  <2>1. status # "Idle" => \A i \in Regs : mem'[regAddr[i]] = mem[regAddr[i]]
    BY <1>12, HostWriteElsewhere DEF HostWrite, Control, Running
  <2>2. UNCHANGED <<status, regAddr, regStat, data, net>>
    BY <1>12 DEF HostWrite
  <2>3. QED
    BY <2>1, <2>2
<1>13. CASE Cycle
  BY <1>13 DEF Cycle
<1>14. CASE UNCHANGED vars
  BY <1>14 DEF vars
<1>15. QED
  BY <1>1, <1>2, <1>3, <1>4, <1>5, <1>6, <1>7, <1>8, <1>9, <1>10, <1>11, <1>12,
     <1>13, <1>14 DEF Next, RecvFunctional, Events, Tick, Callbacks

(* The invariant is inductive. *)
LEMMA InvStep == ReadsOnly /\ IInv /\ [Next]_vars => IInv'
BY TypeStep, ControlStep, PacketStep, RegistryStep, OperandsStep DEF IInv

(* The inductive invariant holds throughout. *)
THEOREM Invariance == ASSUME ReadsOnly PROVE Spec => []IInv
BY InitInv, InvStep, PTL DEF Spec

-----------------------------------------------------------------------------
(* Type correctness. *)
THEOREM TypeCorrect == ASSUME ReadsOnly PROVE Spec => []TypeOK
<1>1. IInv => TypeOK
  BY DEF IInv
<1>2. QED
  BY <1>1, Invariance, PTL

(* No request is lost or sent twice and no response outlives its command:  *)
(* registers wait for exactly the packets that are in flight.              *)
THEOREM PacketsConserved == ASSUME ReadsOnly PROVE Spec => []PacketConservation
<1>1. IInv => PacketConservation
  BY DEF IInv
<1>2. QED
  BY <1>1, Invariance, PTL

(* The memory blocks the host on the addresses of the running command,     *)
(* however many commands were dropped before it.                           *)
THEOREM RunningRegistered == ASSUME ReadsOnly PROVE Spec => []RunningIsRegistered
<1>1. IInv => RunningIsRegistered
  BY DEF IInv, Registered, RunningIsRegistered, StalledAddr
<1>2. QED
  BY <1>1, Invariance, PTL

(* No host write slips in between the reads of the operands and the        *)
(* computation.                                                            *)
THEOREM OperandsStayCurrent == ASSUME ReadsOnly PROVE Spec => []OperandsCurrent
<1>1. IInv => OperandsCurrent
  BY DEF IInv
<1>2. QED
  BY <1>1, Invariance, PTL

(* Every dropped command leaves one registration behind, and only those    *)
(* remain when the kernel is idle.                                         *)
THEOREM RegistrationsCounted == ASSUME ReadsOnly PROVE Spec => []RegistrationCount
<1>1. IInv => RegistrationCount
  BY DEF IInv
<1>2. QED
  BY <1>1, Invariance, PTL

(* The assertions of tick(), trycompute(), finish() and recvReqRetry()     *)
(* never fail.                                                             *)
THEOREM AssertionsNeverFail == ASSUME ReadsOnly PROVE Spec => []AssertionsHold
<1>1. IInv => AssertionsHold
  <2> SUFFICES ASSUME IInv PROVE AssertionsHold
    OBVIOUS
  <2> USE DEF IInv, Control, Off
  <2>1. finishEvent = 0 => tickEvent = Off /\ Found(pending, regAddr)
    BY DEF Finishing, Registered, Found, SameCommand
  <2>2. tickEvent = 0 /\ status \in {"Idle", "Finish"} => finishEvent = Off
    BY DEF Finishing
  <2>3. computeEvent = 0 => locateLatest(regStat) \in Regs
    BY LocateLatest DEF Computing, TypeOK, Regs, NRegs, Input, Output
  <2>4. waitRetry => status = "SendRetry" /\ retryPkt \in Packet
    BY PacketType DEF Retrying, Running, Regs, NRegs, Input, Output
  <2>5. QED
    BY <2>1, <2>2, <2>3, <2>4 DEF AssertionsHold
<1>2. QED
  BY <1>1, Invariance, PTL

(* A new request is sent only when no refused one waits for its retry.     *)
THEOREM PortDiscipline == ASSUME ReadsOnly PROVE Spec => SendOnlyWhenFree
<1>1. IInv /\ [Next]_vars => [TickRead \/ TryCompute => ~waitRetry]_vars
  BY DEF IInv, Control, Retrying, Computing, TickRead, TryCompute, Off
<1>2. QED
  BY <1>1, Invariance, PTL DEF Spec, SendOnlyWhenFree

-----------------------------------------------------------------------------
(* Every step of the kernel is a step of the offload or leaves it alone.   *)
LEMMA RefinementStep ==
  ReadsOnly /\ IInv /\ [Next]_vars => [Offload!OffloadNext]_(Offload!offloadVars)
<1> SUFFICES ASSUME ReadsOnly, IInv, [Next]_vars
             PROVE  Offload!OffloadNext \/ UNCHANGED Offload!offloadVars
  BY DEF Offload!offloadVars
<1> DEFINE goal == Offload!OffloadNext \/ UNCHANGED Offload!offloadVars
<1> USE DEF Regs, NRegs, Input, Output, IInv, TypeOK, Committed, Offload!offloadVars
<1>1. ASSUME NEW c \in Commands, DropCommand(c) PROVE goal
  BY <1>1 DEF DropCommand
<1>2. ASSUME NEW c \in Commands, NEW n \in NextEdge, StartCommand(c, n) PROVE goal
  <2>1. /\ status = "Idle" /\ status' # "Idle" /\ regStat'[2] = "dataReady"
        /\ regAddr' = c /\ mem' = mem
    BY <1>2 DEF StartCommand, SendRead
  <2>2. Offload!Accept(c)
    BY <2>1 DEF Offload!Accept
  <2>3. QED
    BY <2>2 DEF Offload!OffloadNext
<1>3. CASE TickSendRetry
  BY <1>3 DEF TickSendRetry
<1>4. CASE TickRead
  <2>1. locateLatest(regStat) \in 0 .. 1
    BY <1>4, LocateLatest DEF TickRead, ReadReg
  <2>2. QED
    BY <1>4, <2>1 DEF TickRead, SendRead
<1>5. CASE TickCompute
  BY <1>5 DEF TickCompute
<1>6. CASE TickFinish
  BY <1>6 DEF TickFinish
<1>7. CASE TryCompute
  <2>1. /\ locateLatest(regStat) = 2 /\ inputReady(regStat)
        /\ status = "WaitingResp" /\ regStat[2] = "dataReady"
    BY <1>7, LocateLatest DEF TryCompute, Control, Computing, Off, inputReady
  <2>2. data[0] = mem[regAddr[0]] /\ data[1] = mem[regAddr[1]]
    BY <2>1 DEF inputReady, OperandsCurrent
  <2>3. /\ status' = "WaitingResp" /\ regAddr' = regAddr
        /\ regStat' = [regStat EXCEPT ![2] = "dataWaitingResp"]
        /\ mem' = [mem EXCEPT ![regAddr[2]] = Compute(data[0], data[1])]
    BY <1>7, <2>1 DEF TryCompute, ReadsOnly, WritePacket, doCompute
  <2>4. Offload!Commit
    BY <2>1, <2>2, <2>3 DEF Offload!Commit
  <2>5. QED
    BY <2>4 DEF Offload!OffloadNext
<1>8. CASE Finish
  <2>1. status = "Finish" /\ regStat[2] = "dataFinish"
    BY <1>8 DEF Finish, Control, Finishing, Off, outputReady
  <2>2. Offload!Done
    BY <1>8, <2>1 DEF Finish, Offload!Done
  <2>3. QED
    BY <2>2 DEF Offload!OffloadNext
<1>9. ASSUME NEW n \in NextEdge, RecvReqRetry(n) PROVE goal
  BY <1>9 DEF RecvReqRetry, ReadReg, Control, Retrying
<1>10. ASSUME NEW pkt \in net, NEW n \in NextEdge, RecvTimingResp(pkt, n) PROVE goal
  <2>1. /\ pkt.procid \in Regs /\ status # "Idle" /\ regStat[pkt.procid] = "dataWaitingResp"
    BY DEF Packet, PacketConservation
  <2>2. QED
    BY <1>10, <2>1 DEF RecvTimingResp
<1>11. ASSUME NEW pkt \in net, MemRead(pkt) PROVE goal
  BY <1>11 DEF MemRead
<1>12. ASSUME NEW a \in Addrs, NEW v \in Vals, HostWrite(a, v) PROVE goal
  <2>1. status # "Idle" => \A i \in Regs : Granule(regAddr[i]) # Granule(a)
    BY <1>12, HostWriteElsewhere
  <2>2. Offload!HostStore(a, v)
    BY <1>12, <2>1 DEF HostWrite, Granule, Offload!HostStore, Offload!Granule,
                       Offload!Regs, Offload!NRegs, Offload!Input, Offload!Output
  <2>3. QED
    BY <2>2 DEF Offload!OffloadNext
<1>13. CASE Cycle
  BY <1>13 DEF Cycle
<1>14. CASE UNCHANGED vars
  BY <1>14 DEF vars
<1>15. QED
  BY <1>1, <1>2, <1>3, <1>4, <1>5, <1>6, <1>7, <1>8, <1>9, <1>10, <1>11, <1>12,
     <1>13, <1>14 DEF Next, RecvFunctional, Events, Tick, Callbacks

(* The kernel implements the atomic offload: reading the operands, waiting *)
(* for the latency of the unit and writing the result behave as one step.  *)
THEOREM Refinement == ASSUME ReadsOnly PROVE Spec => ImplementsOffload
<1>1. Init => Offload!OffloadInit
  BY DEF Init, Offload!OffloadInit, Offload!Regs, Offload!NRegs, Offload!Input,
         Offload!Output, Regs, NRegs, Input, Output
<1>2. QED
  BY <1>1, RefinementStep, Invariance, PTL DEF Spec, ImplementsOffload, Offload!OffloadSpec
==============================================================================
