----------------------------- MODULE FastOffload -----------------------------
(***************************************************************************)
(* The Fast simulator's offloading path: host processors and one PIM unit  *)
(* (the pipelined Adder_Conventional) share the memory under page locks.   *)
(* The locks are bits of PIM/SpinLock.cs; Mctrl keeps back host requests   *)
(* to locked pages, PIMMctrl and the unit's stages set the locks and flush *)
(* the processors' caches (PIM/Coherence.cs, Proc.flush), and the memory   *)
(* (Memory/DDR/DDRMem.cs) merges, serves and answers both kinds.           *)
(*                                                                         *)
(* PIMSimulator.run() steps the parts in a fixed order; phase is the part  *)
(* whose turn it is.  Only the order of the parts is fixed: what a trace   *)
(* asks for, when, and which transaction the DRAM answers is free.  All    *)
(* clocks are equal and mc_latency is 0, so a queued request is due at the *)
(* next step of its controller.                                            *)
(*                                                                         *)
(* The host processors are reduced to what reaches the rest: their write   *)
(* hits, their requests and their caches' dirty blocks.  FastProc models   *)
(* one of them in detail.                                                  *)
(***************************************************************************)
EXTENDS FastRequests

CONSTANTS
  Functions,      \* the offloaded functions a trace may contain
  MaxFunctions,   \* bound: functions of one trace
  Frames,         \* the address translations the common tlb may come to
  CrtlQueueMax,   \* Config.crtl_queue_max
  WriteBackSize,  \* Config.writeback_queue_size
  DramDepth,      \* transactions that the memory system accepts
  HostAddrs,      \* the addresses of the host's instructions
  HostOps,        \* bound: memory instructions of the host from Init on
  Warm,           \* the dirty blocks, [l1, llc], the host may have at Init
  NoFunction

ASSUME FastOffloadAssumption ==
  /\ Functions \subseteq [in1 : Addr, in2 : Addr, out : Addr]
  /\ NoFunction \notin Functions
  /\ Frames \subseteq [Addr -> Addr]
  /\ HostAddrs \subseteq Addr
  /\ Warm \subseteq [l1 : [Procs -> SUBSET Addr], llc : SUBSET Addr]
  /\ MaxFunctions \in Nat /\ HostOps \in Nat /\ WriteBackSize \in Nat
  /\ CrtlQueueMax \in Nat \ {0, 1} /\ DramDepth \in Nat \ {0}

VARIABLES
  phase,      \* the part whose Step() comes next
  locked,     \* SpinLock.lock_table: the locked pages
  wait, send,         \* Mctrl.wait_queue, send_queue
  pimWait, pimSend,   \* PIMMctrl.wait_queue, send_queue
  mem,        \* DDRMem: queue (TransationQueue), trans (pendingTrans), dram
  cache,      \* dirty blocks: l1 of each processor, llc; wb (writeback_req)
  frame,      \* the translation of the processors' common tlb
  mshr,       \* the requests each processor waits for
  unit,       \* Adder_Conventional: curr and the state of its stages
  todo,       \* InsPartition.pim_ins[0]
  budget      \* memory instructions the host may still issue

vars == <<phase, locked, wait, send, pimWait, pimSend, mem, cache, frame,
          mshr, unit, todo, budget>>

Parts  == {"memory", "mctrl", "pimctrl", "unit", "stopped", "threw"}
Phases == {<<part>> : part \in Parts} \cup ({"proc"} \X Procs)

At(part) == phase = <<part>>
Go(part) == phase' = <<part>>

(* A load stage is Empty, has an Input it could not send yet, waits for    *)
(* memory (Outstanding), was answered (Complete) or holds its operand for  *)
(* the computation (Loaded: output_ready).                                 *)
LoadStates  == {"Empty", "Input", "Outstanding", "Complete", "Loaded"}
StoreStates == {"NoOP", "Outstanding", "Complete"}

IdleUnit == [curr |-> NoFunction, load |-> [s \in LoadStages |-> "Empty"],
             computed |-> FALSE, store |-> "NoOP"]

(* The host has run for a while, its requests are answered, and the first   *)
(* function is about to be fetched.                                        *)
Init ==
  /\ At("memory") /\ locked = {}
  /\ wait = << >> /\ send = << >> /\ pimWait = << >> /\ pimSend = << >>
  /\ mem = [queue |-> << >>, trans |-> << >>, dram |-> << >>]
  /\ \E w \in Warm :
       cache = [l1 |-> w.l1, llc |-> w.llc, wb |-> [p \in Procs |-> << >>]]
  /\ frame \in Frames
  /\ mshr = [p \in Procs |-> {}]
  /\ unit = IdleUnit
  /\ todo \in UNION {[1 .. n -> Functions] : n \in 1 .. MaxFunctions}
  /\ budget = HostOps

-----------------------------------------------------------------------------
(* Flushing the host's caches.                                             *)

(* The processors whose Proc.flush(a) finds a dirty copy.  They look the   *)
(* block up under a itself, not under its translation, and the first one   *)
(* to look also takes a dirty copy out of the shared cache.                *)
Flushers(c, a) ==
  {p \in Procs : a \in c.l1[p]} \cup (IF a \in c.llc THEN {1} ELSE {})

(* Proc.flush(): the copies are dropped and a FLUSH to the translated      *)
(* address joins the write-back queue.                                     *)
Flushed(c, a) ==
  [l1  |-> [p \in Procs |-> c.l1[p] \ {a}],
   llc |-> c.llc \ {a},
   wb  |-> [p \in Procs |-> IF p \in Flushers(c, a)
                              THEN Append(c.wb[p], HostReq("FLUSH", p, frame[a], a))
                              ELSE c.wb[p]]]

(* Coherence.flush() returns the answer of the last processor only. *)
FlushSucceeds(c, a) == NProc \notin Flushers(c, a)

(* Fault: a controller queue takes one request too many. *)
RoomOffByOne(q) == Len(q) <= CrtlQueueMax

(* add_to_mctrl() of both controllers. *)
Room(q) == ~(Len(q) > CrtlQueueMax - 1)

-----------------------------------------------------------------------------
(* DDRMem.Step(): fetch what the controllers sent, merge, hand one         *)
(* transaction to the DRAM, and let the DRAM answer at most one.           *)

(* The DRAM behind addTransaction(), of one channel: transactions to one   *)
(* address are answered in order, one at a time.                           *)
Answerable(d) == {k \in DOMAIN d : \A i \in 1 .. k - 1 : d[i].addr # d[k].addr}

(* The head of the queue, or the transaction that was refused before, goes *)
(* to the DRAM unless that is full.                                        *)
AddTransaction(q, trans, d) ==
  LET pops == trans = << >> /\ q # << >>
      next == IF pops THEN <<Head(q)>> ELSE trans
      rest == IF pops THEN Tail(q) ELSE q
  IN  IF Len(d) < DramDepth
        THEN [queue |-> rest, trans |-> << >>, dram |-> d \o next]
        ELSE [queue |-> rest, trans |-> next, dram |-> d]

(* read_callback and write_callback of the unit: the stage named by the    *)
(* request is complete.                                                    *)
UnitCallback(r) ==
  IF r.stage = StoreStage THEN [unit EXCEPT !.store = "Complete"]
                          ELSE [unit EXCEPT !.load[r.stage] = "Complete"]

(* A dirty victim v of the shared cache joins the write-back queue, with   *)
(* address 0, unless its block is queued already.                          *)
WriteBack(wb, p, v) ==
  IF \E k \in DOMAIN wb[p] : wb[p][k].block = v
    THEN wb
    ELSE [wb EXCEPT ![p] = Append(@, HostReq("WRITE", p, 0, v))]

(* The answer r adds its block, dirty for a write, to the shared cache and *)
(* to L1 of processor p, where it may evict a dirty block silently ...     *)
NewDirty(r) == IF r.type = "WRITE" THEN {r.block} ELSE {}

L1Fills(r, p) ==
  {[cache.l1 EXCEPT ![p] = (@ \ u) \cup n] :
     u \in {{}} \cup {{b} : b \in cache.l1[p]}, n \in {{}, NewDirty(r)}}

(* ... and a dirty block of the shared cache may be evicted, too. *)
Fills(r, p) ==
  {[l1 |-> l, llc |-> cache.llc \cup NewDirty(r), wb |-> cache.wb] : l \in L1Fills(r, p)}
  \cup
  {[l1 |-> [l EXCEPT ![p] = @ \ {v}], llc |-> (cache.llc \ {v}) \cup NewDirty(r),
    wb |-> WriteBack(cache.wb, p, v)] : l \in L1Fills(r, p), v \in cache.llc}

(* The cache updates handle_read_callback() and handle_write_callback()    *)
(* may make: none when the shared cache holds the block.  Only the first   *)
(* of several processors misses in the shared cache.                       *)
CallbackCaches(r) ==
  {cache} \cup (IF r.block \in cache.llc THEN {} ELSE UNION {Fills(r, p) : p \in r.pids})

(* write_complete() and read_complete(): a PIM request calls the unit, a   *)
(* FLUSH nobody, any other the processors it names, whose MSHR entries for *)
(* the block are removed.                                                  *)
Answer(r) ==
  CASE r.pim -> /\ unit' = UnitCallback(r)
                /\ UNCHANGED <<cache, mshr>>
    [] ~r.pim /\ r.type = "FLUSH" -> UNCHANGED <<unit, cache, mshr>>
    [] OTHER -> /\ mshr' = [p \in Procs |-> IF p \in r.pids
                                             THEN {e \in mshr[p] : e.block # r.block}
                                             ELSE mshr[p]]
                /\ cache' \in CallbackCaches(r)
                /\ UNCHANGED unit

(* One step in which the DRAM answers its k-th transaction, or none (0). *)
MemoryServes(k) ==
  /\ At("memory")
  /\ LET m == Merge(mem.queue \o send \o pimSend)
         t == AddTransaction(m.queue, mem.trans, mem.dram)
     IN  /\ m.ended = "merged"
         /\ k \in Answerable(mem.dram) \cup {0}
         /\ mem' = [t EXCEPT !.dram = IF k = 0 THEN @ ELSE RemoveAt(@, k)]
         /\ IF k = 0 THEN UNCHANGED <<unit, cache, mshr>> ELSE Answer(mem.dram[k])
  /\ send' = << >> /\ pimSend' = << >>
  /\ Go("mctrl")
  /\ UNCHANGED <<locked, wait, pimWait, frame, todo, budget>>

(* The index error of the merge loop ends the program. *)
MemoryThrows ==
  /\ At("memory")
  /\ Merge(mem.queue \o send \o pimSend).ended = "threw"
  /\ Go("threw")
  /\ UNCHANGED <<locked, wait, send, pimWait, pimSend, mem, cache, frame, mshr, unit, todo, budget>>

-----------------------------------------------------------------------------
(* Mctrl.Step(): requests to unlocked pages go to the memory in order, the *)
(* others stay.                                                            *)
MctrlStep ==
  /\ At("mctrl")
  /\ LET free == {k \in DOMAIN wait : LockPage(wait[k].addr) \notin locked} IN
       /\ send' = send \o Transferred(Pick(wait, free))
       /\ wait' = Pick(wait, DOMAIN wait \ free)
  /\ Go("pimctrl")
  /\ UNCHANGED <<locked, pimWait, pimSend, mem, cache, frame, mshr, unit, todo, budget>>

(* PIMMctrl.Step(): every request locks its page and flushes its block     *)
(* address, which is 0.  Only the first flush can fail; its request        *)
(* releases the page and stays.                                            *)
PIMMctrlStep ==
  /\ At("pimctrl")
  /\ LET pages(q) == {LockPage(q[k].addr) : k \in DOMAIN q}
         stays == pimWait # << >> /\ ~FlushSucceeds(cache, 0)
         kept  == IF stays THEN SubSeq(pimWait, 1, 1) ELSE << >>
         sent  == IF stays THEN Tail(pimWait) ELSE pimWait
     IN  /\ pimWait' = kept
         /\ pimSend' = pimSend \o Transferred(sent)
         /\ locked'  = (locked \ pages(kept)) \cup pages(sent)
         /\ cache'   = IF pimWait = << >> THEN cache ELSE Flushed(cache, 0)
  /\ phase' = <<"proc", 1>>
  /\ UNCHANGED <<wait, send, mem, frame, mshr, unit, todo, budget>>

-----------------------------------------------------------------------------
(* Proc.Step(), as far as the memory sees it: the oldest write-back goes   *)
(* to Mctrl if there is room; a full write-back queue ends the step;       *)
(* otherwise the processor may use its memory port once.                   *)
AfterWriteBack(p) ==
  IF cache.wb[p] # << >> /\ Room(wait)
    THEN [wait |-> Append(wait, Head(cache.wb[p])), wb |-> [cache.wb EXCEPT ![p] = Tail(@)]]
    ELSE [wait |-> wait, wb |-> cache.wb]

NextPhase(p) == IF p = NProc THEN <<"unit">> ELSE <<"proc", p + 1>>

ProcStep(p, w, c, m, spent) ==
  /\ phase = <<"proc", p>>
  /\ wait' = w /\ cache' = c /\ mshr' = m
  /\ budget' = budget - spent
  /\ phase' = NextPhase(p)
  /\ UNCHANGED <<locked, send, pimWait, pimSend, mem, frame, unit, todo>>

ProcIdles(p) ==
  LET s == AfterWriteBack(p) IN ProcStep(p, s.wait, [cache EXCEPT !.wb = s.wb], mshr, 0)

(* A write that hits L1, or the shared cache, makes the block dirty.  The  *)
(* MSHR entry that the latter holds for one step is left out.              *)
ProcHits(p, a) ==
  LET s == AfterWriteBack(p)  b == frame[a]  c == [cache EXCEPT !.wb = s.wb] IN
  /\ budget > 0 /\ Len(s.wb[p]) <= WriteBackSize
  /\ \/ ProcStep(p, s.wait, [c EXCEPT !.l1[p] = @ \cup {b}], mshr, 1)
     \/ ProcStep(p, s.wait, [c EXCEPT !.llc = @ \cup {b}], mshr, 1)

(* A miss sends a request for the untranslated address; a dirty block      *)
(* would have hit.                                                         *)
ProcMisses(p, a, type) ==
  LET s == AfterWriteBack(p)  b == frame[a] IN
  /\ budget > 0 /\ Len(s.wb[p]) <= WriteBackSize /\ Room(s.wait)
  /\ b \notin cache.l1[p] \cup cache.llc
  /\ ProcStep(p, Append(s.wait, HostReq(type, p, a, b)), [cache EXCEPT !.wb = s.wb],
              [mshr EXCEPT ![p] = @ \cup {[addr |-> a, block |-> b]}], 1)

(* A miss that finds the controller full stays in the MSHR, and the retry  *)
(* asks the MSHR in place of the controller: no request is ever sent.      *)
ProcRefused(p, a) ==
  LET s == AfterWriteBack(p)  b == frame[a] IN
  /\ budget > 0 /\ Len(s.wb[p]) <= WriteBackSize /\ ~Room(s.wait)
  /\ b \notin cache.l1[p] \cup cache.llc
  /\ ProcStep(p, s.wait, [cache EXCEPT !.wb = s.wb],
              [mshr EXCEPT ![p] = @ \cup {[addr |-> a, block |-> b]}], 1)

-----------------------------------------------------------------------------
(* Fault: done() of the controllers ignores what the memory has to fetch. *)
AllDoneIgnoresSend ==
  /\ \A p \in Procs : mshr[p] = {}
  /\ mem.queue = << >> /\ mem.dram = << >>
  /\ todo = << >>
  /\ wait = << >> /\ pimWait = << >>

(* The end of the trace: run() returns when the processors, the partition, *)
(* the controllers and the memory are done.  The write-back queues and a   *)
(* transaction the DRAM refused are not asked for, and done() of the unit  *)
(* is always true.                                                         *)
AllDone ==
  /\ \A p \in Procs : mshr[p] = {}
  /\ mem.queue = << >> /\ mem.dram = << >>
  /\ todo = << >>
  /\ wait = << >> /\ send = << >> /\ pimWait = << >> /\ pimSend = << >>

(* Back to the top of run()'s loop, or out of it.  What the host has still *)
(* to do is not modelled, so that it may always go on.                     *)
RunCheck == Go("memory") \/ (AllDone' /\ Go("stopped"))

-----------------------------------------------------------------------------
(* Adder_Conventional.Step().  One function is in the pipeline at a time,  *)
(* so at most one kind of stage has something to do.                       *)

UnitKeeps == UNCHANGED <<wait, send, pimSend, mem, frame, mshr, budget>>

OperandPages(f) == {LockPage(f.in1), LockPage(f.in2), LockPage(f.out)}

(* Fault: the page of the result stays locked. *)
FinishKeepsOutput ==
  /\ At("unit") /\ unit.store = "Complete"
  /\ locked' = locked \ {LockPage(unit.curr.in1), LockPage(unit.curr.in2)}
  /\ unit' = IdleUnit
  /\ UnitKeeps /\ UNCHANGED <<pimWait, cache, todo>>
  /\ RunCheck

(* Fault: no page is released. *)
FinishKeepsPages ==
  /\ At("unit") /\ unit.store = "Complete"
  /\ unit' = IdleUnit
  /\ UnitKeeps /\ UNCHANGED <<locked, pimWait, cache, todo>>
  /\ RunCheck

(* The store was answered: the three pages are released. *)
Finish ==
  /\ At("unit") /\ unit.store = "Complete"
  /\ locked' = locked \ OperandPages(unit.curr)
  /\ unit' = IdleUnit
  /\ UnitKeeps /\ UNCHANGED <<pimWait, cache, todo>>
  /\ RunCheck

(* The computation is over: the store stage locks and flushes the result's *)
(* address and sends the STORE.  A flush that fails releases the page, and *)
(* the stage has consumed its input, so that it will not try again.  The   *)
(* answer of add_to_mctrl() is ignored.                                    *)
Store ==
  /\ At("unit") /\ unit.computed
  /\ LET a == unit.curr.out  ok == FlushSucceeds(cache, a) IN
       /\ locked' = IF ok THEN locked \cup {LockPage(a)} ELSE locked \ {LockPage(a)}
       /\ cache' = Flushed(cache, a)
       /\ unit' = [unit EXCEPT !.computed = FALSE, !.store = IF ok THEN "Outstanding" ELSE @]
       /\ pimWait' = IF ok /\ Room(pimWait)
                       THEN Append(pimWait, PimReq("STORE", StoreStage, a)) ELSE pimWait
  /\ UnitKeeps /\ UNCHANGED todo
  /\ RunCheck

(* Both operands are there: the computation, of one step, takes them. *)
Compute ==
  /\ At("unit") /\ \A s \in LoadStages : unit.load[s] = "Loaded"
  /\ unit' = [unit EXCEPT !.load = [s \in LoadStages |-> "Empty"], !.computed = TRUE]
  /\ UnitKeeps /\ UNCHANGED <<locked, pimWait, cache, todo>>
  /\ RunCheck

Operand(f, s) == IF s = 0 THEN f.in1 ELSE f.in2

(* Fault: an operand whose flush failed is not tried again. *)
LoadStepDrops(x, f, s) ==
  LET a == Operand(f, s)  ok == FlushSucceeds(x.cache, a) IN
  CASE x.load[s] = "Complete" -> [x EXCEPT !.load[s] = "Loaded"]
    [] x.load[s] = "Input" ->
         [load   |-> [x.load EXCEPT ![s] = IF ok THEN "Outstanding" ELSE "Empty"],
          locked |-> IF ok THEN x.locked \cup {LockPage(a)} ELSE x.locked \ {LockPage(a)},
          cache  |-> Flushed(x.cache, a),
          pimWait |-> IF ok /\ Room(x.pimWait)
                        THEN Append(x.pimWait, PimReq("LOAD", s, a)) ELSE x.pimWait]
    [] OTHER -> x

(* PIMStage_LoadData.Step(): lock, flush, send the LOAD; a flush that      *)
(* fails releases the page and is tried again at the next step.            *)
LoadStep(x, f, s) ==
  LET a == Operand(f, s)  ok == FlushSucceeds(x.cache, a) IN
  CASE x.load[s] = "Complete" -> [x EXCEPT !.load[s] = "Loaded"]
    [] x.load[s] = "Input" ->
         [load   |-> [x.load EXCEPT ![s] = IF ok THEN "Outstanding" ELSE "Input"],
          locked |-> IF ok THEN x.locked \cup {LockPage(a)} ELSE x.locked \ {LockPage(a)},
          cache  |-> Flushed(x.cache, a),
          pimWait |-> IF ok /\ Room(x.pimWait)
                        THEN Append(x.pimWait, PimReq("LOAD", s, a)) ELSE x.pimWait]
    [] OTHER -> x

(* Stage 1, then stage 0, of function f. *)
RunLoads(f, load) ==
  LET x1 == LoadStep([load |-> load, locked |-> locked, cache |-> cache, pimWait |-> pimWait], f, 1)
      x0 == LoadStep(x1, f, 0)
  IN  /\ unit' = [unit EXCEPT !.curr = f, !.load = x0.load]
      /\ locked' = x0.locked /\ cache' = x0.cache /\ pimWait' = x0.pimWait

(* get_input() finds a function that is due, and its loads start. *)
Fetch ==
  /\ At("unit") /\ unit.curr = NoFunction /\ todo # << >>
  /\ RunLoads(Head(todo), [s \in LoadStages |-> "Input"])
  /\ todo' = Tail(todo)
  /\ UnitKeeps
  /\ RunCheck

(* The loads of the current function go on; a store that waits does not. *)
Load ==
  /\ At("unit") /\ unit.curr # NoFunction
  /\ unit.store # "Complete" /\ ~unit.computed
  /\ \E s \in LoadStages : unit.load[s] # "Loaded"
  /\ RunLoads(unit.curr, unit.load)
  /\ UnitKeeps /\ UNCHANGED todo
  /\ RunCheck

(* No function is due. *)
UnitIdles ==
  /\ At("unit") /\ unit.curr = NoFunction
  /\ UnitKeeps /\ UNCHANGED <<unit, locked, pimWait, cache, todo>>
  /\ RunCheck

Ended == (At("stopped") \/ At("threw")) /\ UNCHANGED vars

ProcSteps(p) ==
  \/ ProcIdles(p)
  \/ \E a \in HostAddrs : \/ ProcHits(p, a) \/ ProcRefused(p, a)
                          \/ \E type \in {"READ", "WRITE"} : ProcMisses(p, a, type)

UnitStep == Finish \/ Store \/ Compute \/ Fetch \/ Load \/ UnitIdles

Next ==
  \/ \E k \in 0 .. DramDepth : MemoryServes(k)
  \/ MemoryThrows
  \/ MctrlStep
  \/ PIMMctrlStep
  \/ \E p \in Procs : ProcSteps(p)
  \/ UnitStep
  \/ Ended

Spec == Init /\ [][Next]_vars

(* run() never stops stepping the parts, and the DRAM answers its oldest   *)
(* transaction in the end.                                                 *)
Fairness == WF_vars(Next) /\ SF_vars(MemoryServes(1))

FairSpec == Spec /\ Fairness

-----------------------------------------------------------------------------
(* Properties.                                                             *)

(* The requests the memory has or will fetch, in the order it serves them. *)
Path == mem.dram \o mem.trans \o mem.queue \o send \o pimSend

Elements(q) == {q[k] : k \in DOMAIN q}

OutstandingStages ==
  {s \in LoadStages : unit.load[s] = "Outstanding"} \cup
  (IF unit.store = "Outstanding" THEN {StoreStage} ELSE {})

(* The stages named by the PIM requests on their way. *)
Pending       == pimWait \o Path
PimPositions  == {k \in DOMAIN Pending : Pending[k].pim}
AwaitedStages == {Pending[k].stage : k \in PimPositions}

(* The memory takes the two loads for one transaction. *)
SameOperand(f) == resize(f.in1) = resize(f.in2)

TypeOK ==
  /\ phase \in Phases /\ locked \subseteq Pages
  /\ wait \in Seq(HostRequest) /\ send \in Seq(HostRequest)
  /\ pimWait \in Seq(PimRequest) /\ pimSend \in Seq(PimRequest)
  /\ mem \in [queue : Seq(Request), trans : Seq(Request), dram : Seq(Request)]
  /\ Len(wait) <= CrtlQueueMax /\ Len(pimWait) <= CrtlQueueMax
  /\ Len(mem.dram) <= DramDepth /\ Len(mem.trans) <= 1
  /\ cache \in [l1 : [Procs -> SUBSET Addr], llc : SUBSET Addr, wb : [Procs -> Seq(HostRequest)]]
  /\ frame \in Frames
  /\ mshr \in [Procs -> SUBSET [addr : Addr, block : Addr]]
  /\ unit \in [curr : Functions \cup {NoFunction}, load : [LoadStages -> LoadStates],
               computed : BOOLEAN, store : StoreStates]
  /\ todo \in Seq(Functions) /\ budget \in 0 .. HostOps

(* While a PIM request to a page is on its way, the memory gets no host    *)
(* request to that page behind it (the lock of SpinLock.cs is held from    *)
(* before the LOAD or STORE is sent until it is answered).  It takes       *)
(* operands on different pages: the stage whose flush fails releases the   *)
(* page of both (PIM_Load.cs:50).                                          *)
ExclusiveAccess ==
  unit.curr # NoFunction /\ LockPage(unit.curr.in1) # LockPage(unit.curr.in2) =>
    \A i, j \in DOMAIN Path :
      i < j /\ Path[i].pim /\ ~Path[j].pim => LockPage(Path[i].addr) # LockPage(Path[j].addr)

(* A unit without a function holds no page and has no request on its way:  *)
(* Finish releases whatever the stages and PIMMctrl locked for it.         *)
IdleMeansUnlocked ==
  unit.curr = NoFunction => locked = {} /\ PimPositions = {}

(* The stages that wait for the memory are those that a PIM request on its *)
(* way names, each once.  Two loads of one address are the exception:      *)
(* merging keeps the stage of one of them (DDRMem.cs:97).                  *)
StageHasRequest ==
  unit.curr # NoFunction /\ ~SameOperand(unit.curr) =>
    /\ AwaitedStages = OutstandingStages
    /\ \A j, k \in PimPositions : Pending[j].stage = Pending[k].stage => j = k

(* When run() returns, the memory has no transaction left, not even one    *)
(* that the DRAM refused, which done() does not look at (DDRMem.cs:226),   *)
(* and no stage waits for one.                                             *)
StopIsClean ==
  At("stopped") =>
    /\ Path = << >>
    /\ unit.curr # NoFunction /\ ~SameOperand(unit.curr) => OutstandingStages = {}

(* Some request on its way will answer processor p at the address of e. *)
Served(p, e) ==
  \E r \in Elements(wait) \cup Elements(Path) :
    ~r.pim /\ p \in r.pids /\ resize(r.addr) = resize(e.addr)

(* A processor that waits for an address loses its last request there only *)
(* to an answer, and goes on waiting only when that answer was a FLUSH or  *)
(* carried another block: merging and the controllers drop nobody.         *)
NoRequestDropped ==
  [][\A p \in Procs : \A e \in mshr[p] \cap mshr'[p] :
       Served(p, e) /\ ~Served(p, e)' =>
         \E r \in Elements(mem.dram) :
           /\ p \in r.pids /\ r.addr = resize(e.addr)
           /\ r.type = "FLUSH" \/ r.block # e.block]_vars

(* The unit can get no further: its store lost its input to a failed flush *)
(* (PIMStage_Store.cs:104), or the answer to a load went to another stage. *)
UnitStuck ==
  /\ unit.curr # NoFunction
  /\ \/ /\ \A s \in LoadStages : unit.load[s] = "Empty"
        /\ ~unit.computed /\ unit.store = "NoOP"
     \/ OutstandingStages \ AwaitedStages # {}

Over == At("stopped") \/ At("threw")

(* A function that was fetched finishes, whatever the host does to its     *)
(* pages, unless the unit is stuck for one of these two reasons or the     *)
(* program ends first.                                                     *)
FunctionCompletes == unit.curr # NoFunction ~> unit.curr = NoFunction \/ UnitStuck \/ Over

(* A host request held back by a lock or by a full DRAM is answered in the *)
(* end.  The exceptions are a stuck unit, which keeps its page, and an     *)
(* MSHR entry without a request: merging took its answer, or a full        *)
(* controller refused it for good (Proc.cs:528).                           *)
HostAnswered ==
  \A p \in Procs :
    mshr[p] # {} ~> \/ mshr[p] = {} \/ UnitStuck \/ Over
                    \/ \E e \in mshr[p] : ~Served(p, e)
==============================================================================
