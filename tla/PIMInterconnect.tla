--------------------------- MODULE PIMInterconnect ---------------------------
(***************************************************************************)
(* The path by which timing requests of the host and of the PIM kernel     *)
(* reach the memory: the request layer of the crossbar (src/mem/xbar.cc),  *)
(* which admits one request at a time and queues the ports it turns away,  *)
(* and the DRAM controller (src/mem/dram_ctrl.cc), which turns a request   *)
(* away when its read or write queue is full, or when the host touches an  *)
(* address of a registered PIM command.                                    *)
(*                                                                         *)
(* A refused port is told to retry, and the retry travels in zero time     *)
(* from the controller through the layer to the port, whose new attempt    *)
(* runs back into the controller inside the same call.  Each action below  *)
(* is one such chain of calls.  Caches send again only when told to; the   *)
(* kernel's compute event does not wait: it sends a refused PIMWrite again *)
(* on every clock edge, which ends in a failed assertion.                  *)
(***************************************************************************)
EXTENDS Integers, Sequences, FiniteSets

CONSTANTS
  Kernel,               \* the port of the PIM kernel
  Hosts,                \* the ports of the host's caches
  NoPort,
  ReadBufferSize, WriteBufferSize,
  WriteHighThreshold, WriteLowThreshold, MinWritesPerSwitch,
  TouchesLocked         \* whether the host accesses a registered address

Ports == Hosts \union {Kernel}

ASSUME InterconnectAssumption ==
  /\ NoPort \notin Ports /\ Kernel \notin Hosts
  /\ ReadBufferSize \in Nat \ {0} /\ WriteBufferSize \in Nat \ {0}
  /\ WriteLowThreshold \in Nat /\ WriteHighThreshold \in Nat
  /\ WriteLowThreshold < WriteBufferSize /\ WriteHighThreshold < WriteBufferSize
  /\ MinWritesPerSwitch \in Nat
  /\ TouchesLocked \in BOOLEAN

(* A request: a read or a write, to an address that PIM commands use or    *)
(* not.  Of sizes and addresses nothing else matters here: a request takes *)
(* one queue entry, or none when a queued write already covers it.         *)
Requests == [cmd : {"read", "write"}, locked : BOOLEAN]
NoReq    == [cmd |-> "none", locked |-> FALSE]

VARIABLES
  layer,     \* the request layer: state, waitingForLayer, waitingForPeer
  dram,      \* the controller: queue lengths, bus direction, events, flags
  held,      \* the refused request each port holds, or NoReq
  command,   \* progress of the kernel's command: 0 none, 4 all requests sent
  compute,   \* the compute event after a refused PIMWrite: "due" again, has
             \* sent "again", has sent a "stray" write; "off" when none was
  aborted    \* an assertion failed and the simulation has ended

vars == <<layer, dram, held, command, compute, aborted>>

Registered == command # 0

Init ==
  /\ layer = [state |-> "IDLE", waitingForLayer |-> << >>, waitingForPeer |-> NoPort]
  /\ dram = [reads |-> 0, resps |-> 0, writes |-> 0, busState |-> "READ",
             busStateNext |-> "READ", writesThisTime |-> 0, nextReq |-> FALSE,
             retryRdReq |-> FALSE, retryWrReq |-> FALSE]
  /\ held = [p \in Ports |-> NoReq]
  /\ command = 0 /\ compute = "off" /\ aborted = FALSE

-----------------------------------------------------------------------------
(* DRAMCtrl: the request operators yield the possible [ok, dram].          *)

(* Fault: the reads that wait for their data are not counted. *)
readQueueFullShort(d) == d.reads + 1 > ReadBufferSize

readQueueFull(d)  == d.reads + d.resps + 1 > ReadBufferSize
writeQueueFull(d) == d.writes + 1 > WriteBufferSize

(* A read that a queued write covers is answered at once. *)
addToReadQueue(d) ==
       {[d EXCEPT !.reads = @ + 1, !.nextReq = TRUE]}
  \cup (IF d.writes > 0 THEN {d} ELSE {})

(* A write to a burst that is already queued is merged with it. *)
addToWriteQueue(d) ==
  {[d EXCEPT !.writes = @ + n, !.nextReq = TRUE] : n \in IF d.writes > 0 THEN {0, 1} ELSE {1}}

Accept(ds) == {[ok |-> TRUE, dram |-> d] : d \in ds}
Refuse(d)  == {[ok |-> FALSE, dram |-> d]}

(* Fault: the refusal of a write is not remembered. *)
recvTimingReqForgets(d, req) ==
  CASE req.cmd = "read" /\ readQueueFull(d)    -> Refuse([d EXCEPT !.retryRdReq = TRUE])
    [] req.cmd = "read" /\ ~readQueueFull(d)   -> Accept(addToReadQueue(d))
    [] req.cmd = "write" /\ writeQueueFull(d)  -> Refuse(d)
    [] req.cmd = "write" /\ ~writeQueueFull(d) -> Accept(addToWriteQueue(d))

(* recvTimingReq(): a full queue refuses the request and remembers to      *)
(* retry the port.                                                         *)
recvTimingReq(d, req) ==
  CASE req.cmd = "read" /\ readQueueFull(d)    -> Refuse([d EXCEPT !.retryRdReq = TRUE])
    [] req.cmd = "read" /\ ~readQueueFull(d)   -> Accept(addToReadQueue(d))
    [] req.cmd = "write" /\ writeQueueFull(d)  -> Refuse([d EXCEPT !.retryWrReq = TRUE])
    [] req.cmd = "write" /\ ~writeQueueFull(d) -> Accept(addToWriteQueue(d))

(* MemoryPort::recvTimingReq(): a host request to a registered address is  *)
(* refused before the controller sees it.                                  *)
PortRecvTimingReq(d, p, req) ==
  IF p # Kernel /\ req.locked /\ Registered
  THEN Refuse(d)
  ELSE recvTimingReq(d, req)

-----------------------------------------------------------------------------
(* The layer: every operator yields the possible outcomes [layer, dram,    *)
(* held, aborted].                                                         *)
ListOf(s) == {s[i] : i \in 1 .. Len(s)}

(* A failed assertion ends the simulation, in the state before the call. *)
Abort == [layer |-> layer, dram |-> dram, held |-> held, aborted |-> TRUE]

(* tryTiming() granted the layer, which is now busy; the request goes on   *)
(* to the controller (succeededTiming, failedTiming).                      *)
Forward(l, d, h, p, req) ==
  {[layer   |-> [l EXCEPT !.state = "BUSY",
                          !.waitingForPeer = IF r.ok THEN NoPort ELSE p],
    dram    |-> r.dram,
    held    |-> [h EXCEPT ![p] = IF r.ok THEN NoReq ELSE req],
    aborted |-> FALSE] :
     r \in PortRecvTimingReq(d, p, req)}

(* A cache that has no request any more, because its writeback was         *)
(* squashed, lets the retry pass; the layer stays busy until the next edge.*)
Squashed(l, d, p) ==
  {[layer |-> [l EXCEPT !.state = "BUSY"], dram |-> d,
    held |-> [held EXCEPT ![q] = NoReq], aborted |-> FALSE] : q \in Hosts \intersect {p}}

(* Fault: the port that is told to retry stays in the list. *)
retryWaitingKeeps(l, d) ==
  LET p == Head(l.waitingForLayer)
  IN  IF p = Kernel /\ (held[p] = NoReq \/ compute = "stray") THEN {Abort}
      ELSE Forward(l, d, held, p, held[p]) \union Squashed(l, d, p)

(* retryWaiting(): the port at the head of the list leaves it and is told  *)
(* to retry.  The kernel's recvReqRetry() asserts that its status is       *)
(* SendRetry and that the packet is about one of its registers.            *)
retryWaiting(l, d) ==
  LET p    == Head(l.waitingForLayer)
      rest == [l EXCEPT !.waitingForLayer = Tail(@)]
  IN  IF p = Kernel /\ (held[p] = NoReq \/ compute = "stray") THEN {Abort}
      ELSE Forward(rest, d, held, p, held[p]) \union Squashed(rest, d, p)

(* Fault: the port that failed is queued behind the others, and nobody is  *)
(* told to retry when the layer is idle.                                   *)
recvRetryLazy(l, d) ==
  {[layer |-> [l EXCEPT !.waitingForLayer = Append(@, l.waitingForPeer),
                        !.waitingForPeer = NoPort],
    dram |-> d, held |-> held, aborted |-> FALSE]}

(* recvRetry(): the controller can take the request that failed; its port  *)
(* goes to the head of the list.                                           *)
recvRetry(l, d) ==
  LET front == [l EXCEPT !.waitingForLayer = <<l.waitingForPeer>> \o @,
                         !.waitingForPeer = NoPort]
  IN  IF l.waitingForPeer = NoPort THEN {Abort}
      ELSE IF l.state = "IDLE" THEN retryWaiting(front, d)
      ELSE {[layer |-> front, dram |-> d, held |-> held, aborted |-> FALSE]}

Becomes(r) == /\ layer' = r.layer /\ dram' = r.dram
              /\ held' = r.held /\ aborted' = r.aborted

-----------------------------------------------------------------------------
(* sendTimingReq(): a layer that is busy, or waits for its peer, appends   *)
(* the port to its list, in which "the port should not be waiting already".*)
SendTimingReq(p, req) ==
  IF layer.state = "BUSY" \/ layer.waitingForPeer # NoPort
  THEN IF p \in ListOf(layer.waitingForLayer) THEN Becomes(Abort)
       ELSE /\ layer' = [layer EXCEPT !.waitingForLayer = Append(@, p)]
            /\ held' = [held EXCEPT ![p] = req]
            /\ UNCHANGED <<dram, aborted>>
  ELSE \E r \in Forward(layer, dram, held, p, req) : Becomes(r)

(* A cache that was refused sends nothing before it is told to retry. *)
HostSend(p, req) ==
  /\ ~aborted
  /\ held[p] = NoReq
  /\ req.locked => TouchesLocked
  /\ SendTimingReq(p, req)
  /\ UNCHANGED <<command, compute>>

(* The kernel: register, two reads, one write, complete.                   *)
StartCommand ==
  /\ ~aborted
  /\ command = 0
  /\ command' = 1
  /\ UNCHANGED <<layer, dram, held, compute, aborted>>

(* tick() sends the reads, not while one waits for its retry; trycompute() *)
(* sends the write, and schedules itself again when it was refused.        *)
KernelSend ==
  /\ ~aborted
  /\ held[Kernel] = NoReq
  /\ command \in 1 .. 3
  /\ SendTimingReq(Kernel, [cmd |-> IF command = 3 THEN "write" ELSE "read",
                            locked |-> TRUE])
  /\ command' = command + 1
  /\ compute' = IF command = 3 /\ held'[Kernel] # NoReq THEN "due" ELSE compute

(* trycompute() on a later edge.  The write still waits: it is sent again. *)
(* A retry got it through: locateLatest() finds no register, and the       *)
(* address is read past the end of regs; the crossbar knows no port for it *)
(* (fatal), or a stray write goes out.                                     *)
TryComputeAgain ==
  /\ ~aborted
  /\ compute \in {"due", "again"} \/ (compute = "stray" /\ held[Kernel] # NoReq)
  /\ \/ /\ held[Kernel] # NoReq
        /\ SendTimingReq(Kernel, held[Kernel])
        /\ compute' = IF compute = "stray" THEN "stray" ELSE "again"
     \/ /\ held[Kernel] = NoReq
        /\ Becomes(Abort) \/ SendTimingReq(Kernel, [cmd |-> "write", locked |-> TRUE])
        /\ compute' = "stray"
  /\ UNCHANGED command

(* doDataCallback(): the answer to a stray write names no register.        *)
StrayResponse ==
  /\ ~aborted
  /\ compute = "stray" /\ held[Kernel] = NoReq
  /\ Becomes(Abort)
  /\ UNCHANGED <<command, compute>>

(* finish(), some edges after the last answer: the compute event is over.  *)
CompleteCommand ==
  /\ ~aborted
  /\ command = 4 /\ compute = "off"
  /\ held[Kernel] = NoReq
  /\ command' = 0
  /\ UNCHANGED <<layer, dram, held, compute, aborted>>

(* Fault: the layer looks at its waiting ports while one of them waits for *)
(* the peer, whose retry is then met by a layer that serves another port.  *)
ReleaseLayerEager ==
  /\ ~aborted
  /\ layer.state = "BUSY"
  /\ LET idle == [layer EXCEPT !.state = "IDLE"]
     IN  IF layer.waitingForLayer # << >>
         THEN \E r \in retryWaiting(idle, dram) : Becomes(r)
         ELSE layer' = idle /\ UNCHANGED <<dram, held, aborted>>
  /\ UNCHANGED <<command, compute>>

(* releaseLayer(), when the time the layer is occupied is over. *)
ReleaseLayer ==
  /\ ~aborted
  /\ layer.state = "BUSY"
  /\ LET idle == [layer EXCEPT !.state = "IDLE"]
     IN  IF layer.waitingForLayer # << >> /\ layer.waitingForPeer = NoPort
         THEN \E r \in retryWaiting(idle, dram) : Becomes(r)
         ELSE layer' = idle /\ UNCHANGED <<dram, held, aborted>>
  /\ UNCHANGED <<command, compute>>

(* Fault: the event runs although no response is queued. *)
ProcessRespondSpurious ==
  /\ dram' = [dram EXCEPT !.resps = @ - 1]
  /\ UNCHANGED <<layer, held, command, compute, aborted>>

(* processRespondEvent(): a read has its data; its entry becomes free. *)
ProcessRespond ==
  /\ ~aborted
  /\ dram.resps > 0
  /\ LET d == [dram EXCEPT !.resps = @ - 1]
     IN  IF dram.retryRdReq
         THEN \E r \in recvRetry(layer, [d EXCEPT !.retryRdReq = FALSE]) : Becomes(r)
         ELSE dram' = d /\ UNCHANGED <<layer, held, aborted>>
  /\ UNCHANGED <<command, compute>>

-----------------------------------------------------------------------------
(* processNextReqEvent(). *)

(* writesThisTime is only compared with MinWritesPerSwitch. *)
CountWrite(n) == IF n < MinWritesPerSwitch THEN n + 1 ELSE n

TurnAround(d) ==
  [d EXCEPT !.nextReq = FALSE, !.busState = d.busStateNext,
            !.writesThisTime = IF d.busState = "WRITE" /\ d.busStateNext = "READ"
                               THEN 0 ELSE @]

(* Neither a read nor enough writes: the controller goes to sleep. *)
NothingToDo(d) ==
  IF d.busState = "READ"
  THEN d.reads = 0 /\ ~(d.writes > 0 /\ d.writes > WriteLowThreshold)
  ELSE d.writes = 0

(* One burst is issued and the next bus direction is chosen. *)
Access(d) ==
  IF d.busState = "READ"
  THEN IF d.reads = 0
       THEN [d EXCEPT !.busStateNext = "WRITE"]
       ELSE [d EXCEPT !.reads = @ - 1, !.resps = @ + 1,
                      !.busStateNext = IF d.writes > WriteHighThreshold THEN "WRITE" ELSE @]
  ELSE LET w == d.writes - 1
           n == CountWrite(d.writesThisTime)
       IN  [d EXCEPT !.writes = w, !.writesThisTime = n,
                     !.busStateNext =
                        IF \/ w = 0
                           \/ w + MinWritesPerSwitch < WriteLowThreshold
                           \/ d.reads > 0 /\ n >= MinWritesPerSwitch
                        THEN "READ" ELSE @]

(* Fault: the event is not scheduled again. *)
ProcessNextReqOnce ==
  /\ dram.nextReq
  /\ LET d0 == TurnAround(dram)
     IN  dram' = IF NothingToDo(d0) THEN d0 ELSE Access(d0)
  /\ UNCHANGED <<layer, held, command, compute, aborted>>

ProcessNextReq ==
  /\ ~aborted
  /\ dram.nextReq
  /\ LET d0 == TurnAround(dram)
         d1 == [Access(d0) EXCEPT !.nextReq = TRUE]
     IN  IF NothingToDo(d0)
         THEN dram' = d0 /\ UNCHANGED <<layer, held, aborted>>
         ELSE IF d1.retryWrReq /\ d1.writes < WriteBufferSize
         THEN \E r \in recvRetry(layer, [d1 EXCEPT !.retryWrReq = FALSE]) : Becomes(r)
         ELSE dram' = d1 /\ UNCHANGED <<layer, held, aborted>>
  /\ UNCHANGED <<command, compute>>

-----------------------------------------------------------------------------
Next ==
  \/ \E p \in Hosts, req \in Requests : HostSend(p, req)
  \/ StartCommand \/ KernelSend \/ TryComputeAgain \/ StrayResponse \/ CompleteCommand
  \/ ReleaseLayer
  \/ ProcessRespond
  \/ ProcessNextReq
  \/ aborted /\ UNCHANGED vars

Spec == Init /\ [][Next]_vars

(* The event queue runs the scheduled events of the crossbar and of the    *)
(* controller.  Nothing is assumed of the hosts and the kernel.            *)
FairSpec ==
  /\ Spec
  /\ WF_vars(ReleaseLayer)
  /\ WF_vars(ProcessRespond)
  /\ WF_vars(ProcessNextReq)

-----------------------------------------------------------------------------
Layers == [state : {"IDLE", "BUSY"}, waitingForLayer : Seq(Ports),
           waitingForPeer : Ports \union {NoPort}]

Drams == [reads : Nat, resps : Nat, writes : Nat,
          busState : {"READ", "WRITE"}, busStateNext : {"READ", "WRITE"},
          writesThisTime : Nat, nextReq : BOOLEAN,
          retryRdReq : BOOLEAN, retryWrReq : BOOLEAN]

(* The layer and the controller are in states their types allow. *)
TypeOK ==
  /\ layer \in Layers
  /\ dram \in Drams
  /\ held \in [Ports -> Requests \union {NoReq}]
  /\ command \in 0 .. 4
  /\ compute \in {"off", "due", "again", "stray"}
  /\ aborted \in BOOLEAN

(* The queues of the controller stay within their buffers, whatever the    *)
(* order of requests, merges, responses and retries.                       *)
QueuesBounded ==
  /\ dram.reads + dram.resps <= ReadBufferSize
  /\ dram.writes <= WriteBufferSize

(* The ports that never sent a request while one of theirs was waiting:    *)
(* the caches, and the kernel until its compute event sends again.         *)
Exact == IF compute \in {"off", "due"} THEN Ports ELSE Hosts

(* How often the list and the slot for the peer name a port. *)
Places(p) == Cardinality({i \in 1 .. Len(layer.waitingForLayer) : layer.waitingForLayer[i] = p})
             + (IF layer.waitingForPeer = p THEN 1 ELSE 0)

(* A port that was refused is remembered in exactly one place, the list of *)
(* the layer or the slot for the peer, and exactly once; a port that holds *)
(* no request is in neither.  A kernel that sent its refused PIMWrite      *)
(* again is remembered at least once, and may be in both.                  *)
RefusedIsRemembered ==
  \A p \in Ports :
    /\ held[p] # NoReq => Places(p) > 0
    /\ p \in Exact => Places(p) = IF held[p] = NoReq THEN 0 ELSE 1

(* The assertions of the crossbar and of the kernel (a port that is turned *)
(* away is not waiting already, a retry finds a port that waits for one)   *)
(* hold in every simulation whose compute event never ran again after a    *)
(* refused PIMWrite.                                                       *)
AssertionsHold == aborted => compute \in {"again", "stray"}

(* Whoever waits will be woken: a port that waits for the controller has   *)
(* one of its retry flags set and the event that serves the flag is due; a *)
(* port that waits for an idle layer only does so behind such a port.      *)
SomeoneWakes ==
  /\ layer.waitingForPeer # NoPort <=> dram.retryRdReq \/ dram.retryWrReq
  /\ ~(dram.retryRdReq /\ dram.retryWrReq)
  /\ dram.retryRdReq => dram.resps > 0 \/ (dram.reads > 0 /\ dram.nextReq)
  /\ dram.retryWrReq => dram.writes > 0 /\ dram.nextReq
  /\ layer.waitingForLayer # << >> =>
       layer.state = "BUSY" \/ layer.waitingForPeer # NoPort

(* Queued reads are never forgotten by a controller that went to sleep.    *)
ReadsAreServed == dram.reads > 0 => dram.nextReq

(* port.hh: a sender that was refused "will receive a recvReqRetry", and   *)
(* its request gets through, unless a failed assertion ends the simulation.*)
RefusedIsRetried == \A p \in Ports : held[p] # NoReq ~> held[p] = NoReq \/ aborted
==============================================================================
