------------------------------- MODULE FastProc -------------------------------
(***************************************************************************)
(* One host processor of the Fast simulator (Procs/Proc.cs) running a      *)
(* trace: instruction window, MSHR, L1 and shared cache, write-back queue, *)
(* address translation, and the retry of a request that was turned away.   *)
(* A cycle of PIMSimulator.run() reads one instruction into the queue of   *)
(* the partition, lets the memory answer at most one request, and steps    *)
(* the processor.                                                          *)
(*                                                                         *)
(* The memory and its controller are external: a request is accepted or    *)
(* refused (the queue is full of requests of other processors), and an     *)
(* answer may absorb other requests to its address (FastOffload has both   *)
(* in detail).  Every cache has one set, IPC is 1, and all addresses are   *)
(* page-aligned and counted in pages.                                      *)
(***************************************************************************)
EXTENDS Naturals, Sequences, FiniteSets, FastQueues

CONSTANTS
  MaxAddr,        \* the largest address of the traces
  Traces,         \* the traces to run
  Stride,         \* PageConverter.stride: channels * ranks * banks
  WindowSize,     \* Config.ins_w_size
  MshrSize,       \* Config.mshr_size
  L1Assoc, LlcAssoc,
  WriteBackSize,  \* Config.writeback_queue_size
  InspQueueMax,   \* Config.max_insp_waitting_queue
  MaxRefused,     \* bound: refusals by the memory controller
  MaxIdle         \* bound: cycles in which the next instruction is not due

(* Address 0 is the one that every write-back carries. *)
Instruction ==
  [type : {"READ", "WRITE"}, addr : 1 .. MaxAddr] \cup
  [type : {"CALCULATION"}, addr : {0}]

ASSUME FastProcAssumption ==
  /\ MaxAddr \in Nat \ {0} /\ Stride \in Nat \ {0}
  /\ Traces \subseteq Seq(Instruction)
  /\ WindowSize \in Nat /\ MshrSize \in Nat /\ WriteBackSize \in Nat
  /\ L1Assoc \in Nat \ {0} /\ LlcAssoc \in Nat \ {0} /\ InspQueueMax \in Nat \ {0}
  /\ MaxRefused \in Nat /\ MaxIdle \in Nat

VARIABLES
  phase,   \* "insp", "memory", "proc"; "stopped" when run() returned, "hung"
           \* when the processor spins in handle_cache_req(), "threw"
  trace,   \* the trace; an instruction is known by its position
  insp,    \* InsPartition: fetched (instructions read so far), eof
  proc,    \* the processor: its current instruction curr, the next one to
           \* take, its queues and caches; done and flaws are history
  mem,     \* the requests the controller and the memory have, oldest first
  left     \* refusals and idle cycles left

vars == <<phase, trace, insp, proc, mem, left>>

NOP     == 0
NoBlock == MaxAddr + Stride + 1
Blocks  == 0 .. MaxAddr + Stride

Line     == [block : Blocks, dirty : BOOLEAN]
CacheReq == [block : Blocks, type : {"READ", "WRITE"}, late : BOOLEAN]
MemReq   == [type : {"READ", "WRITE"}, addr : 0 .. MaxAddr, block : Blocks]

(* via tells how an entry of the window was admitted: its data will come   *)
(* (served), its request went through handle_last() (retried), or it was   *)
(* taken for a repetition of an instruction with another block (aliased).  *)
Entry    == [id : Nat, block : Blocks, ready : BOOLEAN,
             via : {"served", "retried", "aliased"}]

(* The page table of PageConverter, and the processor's fields. *)
Tables    == UNION {[D -> Blocks] : D \in SUBSET (1 .. MaxAddr)}
Processor == [fresh : BOOLEAN, curr : Nat, next : Nat, retry : {"no", "mshr", "mctrl"},
              window : Seq(Entry), mshr : SUBSET [addr : 1 .. MaxAddr, block : Blocks],
              cacheQ : Seq(CacheReq),
              l1 : Seq(Line), llc : Seq(Line), wb : Seq(Blocks), table : Tables,
              done : Seq(Nat), flaws : SUBSET {"retry", "stall"}]

Init ==
  /\ phase = "insp"
  /\ trace \in Traces
  /\ insp = [fetched |-> 0, eof |-> FALSE]
  /\ proc = [fresh |-> TRUE, curr |-> NOP, next |-> 1, retry |-> "no", window |-> << >>, mshr |-> {},
             cacheQ |-> << >>, l1 |-> << >>, llc |-> << >>, wb |-> << >>,
             table |-> << >>, done |-> << >>, flaws |-> {}]
  /\ mem = << >>
  /\ left = [refused |-> MaxRefused, idle |-> MaxIdle]

IsMem(i)    == i # NOP /\ trace[i].type # "CALCULATION"
Block(s, i) == s.table[trace[i].addr]

-----------------------------------------------------------------------------
(* PageConverter.scan_page(): a page without an entry gets a frame of its  *)
(* group, the groups' frames being dealt out by one common counter.        *)
scan_page(table, a) ==
  IF a \in DOMAIN table THEN table
  ELSE [x \in DOMAIN table \cup {a} |->
          IF x = a THEN ((a \div Stride) * Stride) + (Cardinality(DOMAIN table) % Stride)
                   ELSE table[x]]

-----------------------------------------------------------------------------
(* Caches: sequences of lines, the next victim first.                      *)
Has(c, b)     == \E k \in DOMAIN c : c[k].block = b
Without(c, b) == Pick(c, {k \in DOMAIN c : c[k].block # b})

(* Cache.search_block(): a hit is the most recent line. *)
L1Search(c, b, type) ==
  LET old == CHOOSE k \in DOMAIN c : c[k].block = b
  IN  Append(Without(c, b), [block |-> b, dirty |-> c[old].dirty \/ type = "WRITE"])

(* Shared_Cache.search_block(): a hit keeps its place. *)
LlcSearch(c, b, type) ==
  [k \in DOMAIN c |-> [c[k] EXCEPT !.dirty = @ \/ (c[k].block = b /\ type = "WRITE")]]

(* Cache.add() and Shared_Cache.add(): a full set loses its first line. *)
Add(c, assoc, b, type) ==
  Append(IF Len(c) < assoc THEN c ELSE Tail(c), [block |-> b, dirty |-> type = "WRITE"])

(* The dirty block that Shared_Cache.add() returns. *)
Victim(c) == IF Len(c) = LlcAssoc /\ Head(c).dirty THEN Head(c).block ELSE NoBlock

-----------------------------------------------------------------------------
(* The instruction window and the MSHR.                                    *)

(* Fault: one entry more than the code allows. *)
FullLate(s) == Len(s.window) > WindowSize + 1

(* InstructionWindow.full() compares with >. *)
Full(s) == Len(s.window) > WindowSize

(* Fault: only the oldest instruction of the block becomes ready. *)
set_readyFirst(w, b) ==
  LET hits == {k \in DOMAIN w : w[k].block = b}
  IN  [k \in DOMAIN w |-> [w[k] EXCEPT !.ready = @ \/ (k \in hits /\ \A h \in hits : k <= h)]]

set_ready(w, b) == [k \in DOMAIN w |-> [w[k] EXCEPT !.ready = @ \/ w[k].block = b]]

(* The instructions of block b, oldest first. *)
OfBlock(w, b) == Pick(w, {k \in DOMAIN w : w[k].block = b})

(* evicted(): all ready instructions at the front retire. *)
Retired(w) ==
  LET n == CHOOSE n \in 0 .. Len(w) : /\ \A k \in 1 .. n : w[k].ready
                                      /\ n < Len(w) => ~w[n + 1].ready
  IN  SubSeq(w, n + 1, Len(w))

MshrEntry(s) == [addr |-> trace[s.curr].addr, block |-> Block(s, s.curr)]

(* add_to_mshr() refuses a new entry when there are more than mshr_size. *)
MshrAccepts(s) == MshrEntry(s) \in s.mshr \/ Cardinality(s.mshr) <= MshrSize

add_to_mshr(s) == [s EXCEPT !.mshr = @ \cup {MshrEntry(s)}]

(* Faults: an answer empties the MSHR, or leaves its entries there. *)
RemoveAllEntries(mshr, b) == {}
RemoveNone(mshr, b) == mshr

RemoveAll(mshr, b) == {e \in mshr : e.block # b}

(* done is the history of the instructions handed to the window or to the  *)
(* ALU; it ends with the first of the flaws below.                         *)
Record(s) == IF s.flaws = {} THEN Append(s.done, s.curr) ELSE s.done

(* add_ins() of the current instruction. *)
add_ins(s, ready, via) ==
  [s EXCEPT !.window = Append(@, [id |-> s.curr, block |-> Block(s, s.curr),
                                  ready |-> ready, via |-> via]),
            !.done = Record(s)]

(* A second add_ins() of one instruction: both entries are one object,     *)
(* whose ready bit is reset.                                               *)
Reset(w, i, via) ==
  [k \in DOMAIN w |-> IF w[k].id = i THEN [w[k] EXCEPT !.ready = FALSE, !.via = via] ELSE w[k]]

add_ins_again(s, via) == add_ins([s EXCEPT !.window = Reset(@, s.curr, via)], FALSE, via)

-----------------------------------------------------------------------------
(* InsPartition.PartitionMethod(): read one instruction of the trace, or   *)
(* its end, unless the queue is full.                                      *)
InspStep ==
  /\ phase = "insp"
  /\ insp' = IF insp.eof \/ insp.fetched + 1 - proc.next >= InspQueueMax THEN insp
             ELSE IF insp.fetched < Len(trace) THEN [insp EXCEPT !.fetched = @ + 1]
             ELSE [insp EXCEPT !.eof = TRUE]
  /\ phase' = "memory"
  /\ UNCHANGED <<trace, proc, mem, left>>

(* handle_read_callback() and handle_write_callback(). *)
Callback(s, r) ==
  LET b  == r.block
      v  == Victim(s.llc)
      s1 == [s EXCEPT !.window = set_ready(@, b), !.mshr = RemoveAll(@, b)]
  IN  IF Has(s.llc, b) THEN s1
      ELSE [s1 EXCEPT
              !.llc = Add(@, LlcAssoc, b, r.type),
              !.l1  = Without(IF Has(@, b) THEN L1Search(@, b, "READ")
                                           ELSE Add(@, L1Assoc, b, r.type), v),
              !.wb  = IF v = NoBlock \/ \E k \in DOMAIN @ : @[k] = v THEN @ ELSE Append(@, v)]

(* The k-th request is answered, and those in gone with it: the memory had *)
(* merged them because they carry the same address.  Of two requests the   *)
(* earlier one is kept, of three it may be a later one (DDRMem.cs:90).     *)
MemoryAnswers(k) ==
  /\ phase = "memory"
  /\ k \in DOMAIN mem
  /\ \E gone \in SUBSET {j \in DOMAIN mem \ {k} : mem[j].addr = mem[k].addr} :
       mem' = Pick(mem, DOMAIN mem \ (gone \cup {k}))
  /\ proc' = Callback(proc, mem[k])
  /\ phase' = "proc"
  /\ UNCHANGED <<trace, insp, left>>

(* With three requests to one address the loop that merges them may go on  *)
(* with an index behind the end of its list, which ends the program.       *)
MemoryThrows ==
  /\ phase = "memory"
  /\ \E a \in 0 .. MaxAddr : Cardinality({k \in DOMAIN mem : mem[k].addr = a}) > 2
  /\ phase' = "threw"
  /\ UNCHANGED <<trace, insp, proc, mem, left>>

MemoryIdles ==
  /\ phase = "memory"
  /\ phase' = "proc"
  /\ UNCHANGED <<trace, insp, proc, mem, left>>

-----------------------------------------------------------------------------
(* Proc.Step().  The operators take and yield sets of outcomes             *)
(* [s, mem, left]: the processor, the memory's requests, the bounds.       *)

(* HandleNewRequest(): the next instruction, or NOP when there is none or  *)
(* it is not due.                                                          *)
Idle(s) == [s EXCEPT !.curr = NOP]
Take(s) == [s EXCEPT !.curr = s.next, !.next = @ + 1,
                     !.table = IF IsMem(s.next) THEN scan_page(@, trace[s.next].addr) ELSE @]

NewRequest(x) ==
  IF x.s.next > insp.fetched THEN {[x EXCEPT !.s = Idle(@)]}
  ELSE {[x EXCEPT !.s = Take(@)]} \cup
       (IF x.left.idle = 0 THEN {} ELSE {[x EXCEPT !.s = Idle(@), !.left.idle = @ - 1]})

(* The first Step() finds curr_ins null (fresh). *)
FirstRequest(x) ==
  IF x.s.fresh THEN NewRequest([x EXCEPT !.s = [@ EXCEPT !.fresh = FALSE]]) ELSE {x}

(* handle_cache_req(): the block of a shared-cache hit enters L1. *)
FillL1(s) ==
  IF s.cacheQ = << >> THEN s
  ELSE LET r == Head(s.cacheQ)  b == r.block IN
       [s EXCEPT !.l1 = IF Has(@, b) THEN L1Search(@, b, "READ") ELSE Add(@, L1Assoc, b, r.type),
                 !.mshr = RemoveAll(@, b), !.window = set_ready(@, b), !.cacheQ = Tail(@)]

(* The first half of Step(): the ALU takes a calculation, a due cache      *)
(* request completes, ready instructions retire.                           *)
CycleStart(s) ==
  LET s1 == IF s.curr # NOP /\ ~IsMem(s.curr) THEN [s EXCEPT !.done = Record(s)] ELSE s
      s2 == FillL1(s1)
  IN  [s2 EXCEPT !.window = Retired(@)]

(* handle_writeback_queue(): the oldest write-back is sent, or refused. *)
WriteBackStep(x) ==
  IF x.s.wb = << >> THEN {x}
  ELSE {[x EXCEPT !.s = [x.s EXCEPT !.wb = Tail(@)],
                  !.mem = Append(@, [type |-> "WRITE", addr |-> 0, block |-> Head(x.s.wb)])]}
       \cup (IF x.left.refused = 0 THEN {} ELSE {[x EXCEPT !.left.refused = @ - 1]})

(* The body of the loop in handle_current_req() when the window has room. *)
Serve(x) ==
  LET s    == x.s
      b    == Block(s, s.curr)
      type == trace[s.curr].type
      same == OfBlock(s.window, b)
      via  == IF same = << >> THEN "aliased" ELSE Head(same).via
      s1   == add_to_mshr(s)
      sent == [type |-> type, addr |-> trace[s.curr].addr, block |-> b]
  IN
  IF \E k \in DOMAIN s.window : trace[s.window[k].id].addr = b   \* if_exist
    THEN NewRequest([x EXCEPT !.s = add_ins(s, same # << >> /\ Head(same).ready, via)])
  ELSE IF Has(s.l1, b)
    THEN NewRequest([x EXCEPT !.s = add_ins([s EXCEPT !.l1 = L1Search(@, b, type)], TRUE, "served")])
  ELSE IF ~MshrAccepts(s)
    THEN {[x EXCEPT !.s = [s EXCEPT !.retry = "mshr", !.flaws = @ \cup {"retry"}]]}
  ELSE IF Has(s.llc, b)
    THEN NewRequest([x EXCEPT !.s = [add_ins(s1, FALSE, "served") EXCEPT
                       !.llc = LlcSearch(@, b, type),
                       !.cacheQ = Append(@, [block |-> b, type |-> type, late |-> FALSE])]])
  ELSE NewRequest([x EXCEPT !.s = add_ins(s1, FALSE, "served"), !.mem = Append(@, sent)])
       \cup (IF x.left.refused = 0 THEN {}
             ELSE {[x EXCEPT !.s = [add_ins(s1, FALSE, "retried") EXCEPT
                               !.retry = "mctrl", !.flaws = @ \cup {"retry"}],
                             !.left.refused = @ - 1]})

(* Fault: an instruction that finds the window full is dropped. *)
handle_current_reqDrops(x) == IF Full(x.s) THEN NewRequest(x) ELSE Serve(x)

(* handle_current_req(), with one memory operation per cycle. *)
handle_current_req(x) == IF Full(x.s) THEN {x} ELSE Serve(x)

(* handle_last(): what was refused is tried again.  The instruction joins  *)
(* the window once more and the MSHR is asked in place of the controller,  *)
(* so that no request is sent.  A hit in the shared cache has that cache's *)
(* latency.  The result tells whether the step may go on.                  *)
handle_last(s) ==
  LET s1 == IF s.retry = "mshr" THEN add_to_mshr(s) ELSE s
      b  == Block(s, s.curr)
      s2 == add_ins_again(s1, "retried")
  IN
  IF s.retry = "mshr" /\ ~MshrAccepts(s) THEN [ok |-> FALSE, s |-> s]
  ELSE IF Has(s.llc, b)
    THEN [ok |-> TRUE,
          s  |-> [s2 EXCEPT !.retry = "no",
                    !.llc = LlcSearch(@, b, trace[s.curr].type),
                    !.cacheQ = Append(@, [block |-> b, type |-> trace[s.curr].type, late |-> TRUE])]]
  ELSE IF MshrAccepts(s2) THEN [ok |-> TRUE, s |-> [add_to_mshr(s2) EXCEPT !.retry = "no"]]
  ELSE [ok |-> FALSE, s |-> [s2 EXCEPT !.retry = "mctrl"]]

(* After a retry the memory port is used up: a memory instruction waits    *)
(* for the next cycle, any other is replaced at once.                      *)
AfterRetry(x) ==
  UNION {IF IsMem(y.s.curr) THEN {y} ELSE NewRequest(y) : y \in NewRequest(x)}

(* The second half of Step(). *)
CycleEnd(x) ==
  LET last == handle_last(x.s) IN
  IF x.s.wb # << >> /\ Len(x.s.wb) > WriteBackSize
    THEN {[x EXCEPT !.s = IF x.s.curr # NOP /\ ~IsMem(x.s.curr)
                          THEN [x.s EXCEPT !.flaws = @ \cup {"stall"}] ELSE x.s]}
  ELSE IF x.s.retry # "no"
    THEN IF Full(x.s) THEN {x}
         ELSE IF last.ok THEN AfterRetry([x EXCEPT !.s = last.s])
         ELSE {[x EXCEPT !.s = last.s]}
  ELSE IF IsMem(x.s.curr) THEN handle_current_req(x)
  ELSE NewRequest(x)

(* The condition on which run() returns. *)
Done(s, m) ==
  s.mshr = {} /\ s.curr = NOP /\ insp.eof /\ s.next > insp.fetched /\ m = << >>

ProcStep ==
  /\ phase = "proc"
  /\ ~\E k \in DOMAIN proc.cacheQ : proc.cacheQ[k].late
  /\ \E start \in FirstRequest([s |-> proc, mem |-> mem, left |-> left]) :
     \E wb \in WriteBackStep([start EXCEPT !.s = CycleStart(@)]) :
     \E x \in CycleEnd(wb) :
       /\ proc' = x.s /\ mem' = x.mem /\ left' = x.left
       /\ phase' = IF Done(x.s, x.mem) THEN "stopped" ELSE "insp"
  /\ UNCHANGED <<trace, insp>>

(* handle_cache_req() loops until the head of its queue is due, which the  *)
(* cycle count it waits for then never becomes.                            *)
ProcHangs ==
  /\ phase = "proc"
  /\ \E k \in DOMAIN proc.cacheQ : proc.cacheQ[k].late
  /\ phase' = "hung"
  /\ UNCHANGED <<trace, insp, proc, mem, left>>

Ended == phase \in {"stopped", "hung", "threw"} /\ UNCHANGED vars

Next ==
  \/ InspStep
  \/ \E k \in DOMAIN mem : MemoryAnswers(k)
  \/ MemoryThrows
  \/ MemoryIdles
  \/ ProcStep
  \/ ProcHangs
  \/ Ended

Spec == Init /\ [][Next]_vars

(* run() goes on, and the memory answers its oldest request in the end. *)
FairSpec == Spec /\ WF_vars(Next) /\ SF_vars(MemoryAnswers(1))

-----------------------------------------------------------------------------
(* Properties.                                                             *)

(* The window and the MSHR hold one entry more than their configured size, *)
(* because their limits are tested with >, and never another one, also     *)
(* when a refused instruction is added again.                              *)
TypeOK ==
  /\ phase \in {"insp", "memory", "proc", "stopped", "hung", "threw"}
  /\ trace \in Traces
  /\ insp \in [fetched : 0 .. Len(trace), eof : BOOLEAN]
  /\ proc \in Processor
  /\ proc.curr \in 0 .. insp.fetched /\ proc.next \in 1 .. insp.fetched + 1
  /\ Len(proc.window) <= WindowSize + 1
  /\ Cardinality(proc.mshr) <= MshrSize + 1
  /\ Len(proc.cacheQ) <= 1
  /\ Len(proc.l1) <= L1Assoc /\ Len(proc.llc) <= LlcAssoc
  /\ mem \in Seq(MemReq)
  /\ left \in [refused : 0 .. MaxRefused, idle : 0 .. MaxIdle]

(* Every instruction the processor has put behind it went to the ALU or    *)
(* into the window, once and in the order of the trace.  A retry           *)
(* (Proc.cs:884) may enter one twice or skip a calculation, a stall of the *)
(* write-back queue (Proc.cs:876) repeats a calculation.                   *)
InOrderOnce ==
  proc.flaws = {} =>
    proc.done = [k \in 1 .. (proc.next - IF proc.curr = NOP THEN 1 ELSE 2) |-> k]

(* A request, or a fill of L1, that will answer block b is on its way. *)
InFlight(b) ==
  \/ \E k \in DOMAIN mem : mem[k].block = b
  \/ \E k \in DOMAIN proc.cacheQ : proc.cacheQ[k].block = b

(* No instruction waits for data that nobody will bring: an entry of the   *)
(* window that is not ready, and an entry of the MSHR, has its block on    *)
(* the way, whichever of several requests and write-backs of that block    *)
(* was answered meanwhile.  Exceptions are the retries, which send         *)
(* nothing (Proc.cs:528), and the repetitions that if_exist() finds by     *)
(* comparing an address with a block (InstructionWindow.cs:102).           *)
WaitingIsServed ==
  /\ \A k \in DOMAIN proc.window :
       LET e == proc.window[k] IN ~e.ready /\ e.via = "served" => InFlight(e.block)
  /\ \A e \in proc.mshr : InFlight(e.block) \/ "retry" \in proc.flaws

(* What done() relies on when it looks at the MSHR and not at the window:  *)
(* an instruction that waits has its block in the MSHR, also after answers *)
(* to other requests of that block.                                        *)
WaitingInMshr ==
  \A k \in DOMAIN proc.window :
    LET e == proc.window[k] IN
    ~e.ready /\ e.via = "served" => \E m \in proc.mshr : m.block = e.block

(* When run() returns, the whole trace was taken over and no instruction   *)
(* waits, but for a retried one or a mistaken repetition. It follows from  *)
(* WaitingInMshr and is proved from it in FastProcProofs.                  *)
StopMeansServed ==
  phase = "stopped" =>
    /\ proc.next = Len(trace) + 1
    /\ \A k \in DOMAIN proc.window : proc.window[k].ready \/ proc.window[k].via # "served"

(* Every trace comes to its end, unless a retry or a mistaken repetition   *)
(* left an instruction without data, the processor spins, the memory       *)
(* throws, or write-backs and the lines their answers bring back evict     *)
(* each other for ever (handle_write_callback() adds the block it has      *)
(* written back).                                                          *)
TraceEnds ==
  \/ <>(phase \in {"stopped", "hung", "threw"})
  \/ <>[]("retry" \in proc.flaws)
  \/ <>[](\E k \in DOMAIN proc.window : proc.window[k].via = "aliased" /\ ~proc.window[k].ready)
  \/ []<>(\E k \in DOMAIN mem : mem[k].addr = 0)
===============================================================================
