---------------------------- MODULE FastRequests ----------------------------
(***************************************************************************)
(* The memory requests of the Fast simulator and the pure operations on    *)
(* them: how an address is resized and assigned to a lockable page         *)
(* (Memory/MemorySelector.cs, PIM/SpinLock.cs), how the two memory         *)
(* controllers turn a processor request into a memory request              *)
(* (Procs/Mctrl.cs, PIM/PIMMctrl.cs) and how the memory merges the         *)
(* requests for one address (Memory/DDR/DDRMem.cs).                        *)
(***************************************************************************)
EXTENDS Naturals, Sequences, FiniteSets, SequencesExt, FastQueues

CONSTANTS
  MaxAddr,     \* the largest address of the trace
  RamSize,     \* bytes of memory, a power of two
  PageSize,    \* Config.page_size, the unit of locking
  NProc        \* Config.N

ASSUME FastRequestsAssumption ==
  /\ MaxAddr \in Nat /\ RamSize \in Nat \ {0} /\ PageSize \in Nat \ {0}
  /\ NProc \in Nat \ {0}

Addr   == 0 .. MaxAddr
Procs  == 1 .. NProc
UnitId == 0             \* corresponding_unit() sends every function to unit 0

HostTypes == {"READ", "WRITE", "FLUSH"}
PimTypes  == {"LOAD", "STORE"}
LoadStages == {0, 1}    \* pipeline[0], pipeline[1] of Adder_Conventional
StoreStage == 3         \* pipeline[3]

(* stage is stage_id of a PIM request; a host request has none and keeps 0 *)
HostRequest == [type : HostTypes, addr : Addr, block : Addr, pim : {FALSE},
                pids : SUBSET Procs, stage : {0}]
PimRequest  == [type : PimTypes, addr : Addr, block : {0}, pim : {TRUE},
                pids : {{UnitId}}, stage : LoadStages \cup {StoreStage}]
Request     == HostRequest \cup PimRequest

HostReq(type, p, a, b) ==
  [type |-> type, addr |-> a, block |-> b, pim |-> FALSE, pids |-> {p}, stage |-> 0]

(* A PIM request never sets its block_addr, which stays 0. *)
PimReq(type, s, a) ==
  [type |-> type, addr |-> a, block |-> 0, pim |-> TRUE, pids |-> {UnitId}, stage |-> s]

-----------------------------------------------------------------------------
(* MemorySelector.resize() keeps the low bits of an address. *)
resize(a) == a % RamSize

(* Fault: the lock table is indexed by the address before it is resized. *)
LockPageRaw(a) == a \div PageSize

(* The entry of the lock table that setlock(), get_lock_state() and        *)
(* relese_lock() use for an address.                                       *)
LockPage(a) == resize(a) \div PageSize

Pages == {LockPage(a) : a \in Addr}

(* transfer() of both controllers. *)
transfer(r) == [r EXCEPT !.addr = resize(@)]
Transferred(q) == [k \in DOMAIN q |-> transfer(q[k])]

-----------------------------------------------------------------------------
(* Merging.  The double loop of DDRMem.Step() compares entries i and j of  *)
(* TransationQueue, adds the processors of j to those of i and removes j;  *)
(* both loops then go on with their next index.  After a removal i may lie *)
(* behind the end of the list, and the next access throws.                 *)

(* Fault: requests for one page are merged. *)
SameTransactionPage(q, i, j) ==
  i # j /\ LockPage(q[i].addr) = LockPage(q[j].addr) /\ q[i].pim = q[j].pim

SameTransaction(q, i, j) ==
  i # j /\ q[i].addr = q[j].addr /\ q[i].pim = q[j].pim

(* Fault: the processors of the removed request are forgotten. *)
AbsorbForgetting(q, i, j) == RemoveAt(q, j)

Absorb(q, i, j) == RemoveAt([q EXCEPT ![i].pids = @ \cup q[j].pids], j)

(* Where the double loop is, whether it has removed an entry since its     *)
(* last start, and how it ended.                                           *)
MergeState == [queue : Seq(Request), i : Nat \ {0}, j : Nat \ {0}, changed : BOOLEAN,
               ended : {"no", "merged", "threw"}]

MergeStart(q) == [queue |-> q, i |-> 1, j |-> 1, changed |-> FALSE, ended |-> "no"]

(* The next comparison.  The loops are run again until they remove nothing. *)
MergeStep(s) ==
  IF s.j > Len(s.queue)
    THEN IF s.i + 1 <= Len(s.queue) THEN [s EXCEPT !.i = @ + 1, !.j = 1]
         ELSE IF s.changed THEN MergeStart(s.queue)
         ELSE [s EXCEPT !.ended = "merged"]
  ELSE IF s.i > Len(s.queue)
    THEN [s EXCEPT !.ended = "threw"]
  ELSE IF SameTransaction(s.queue, s.i, s.j)
    THEN [s EXCEPT !.queue = Absorb(@, s.i, s.j), !.j = @ + 1, !.changed = TRUE]
    ELSE [s EXCEPT !.j = @ + 1]

(* At most n comparisons. *)
MergeLoop[n \in Nat] ==
  [s \in MergeState |-> IF n = 0 \/ s.ended # "no" THEN s ELSE MergeLoop[n - 1][MergeStep(s)]]

(* Every run of the loops but the last removes an entry, and none makes    *)
(* more than Len(q) * (Len(q) + 1) comparisons.                            *)
Merge(q) == MergeLoop[(Len(q) + 1) * (Len(q) + 1) * (Len(q) + 1)][MergeStart(q)]
=============================================================================
