---------------------------- MODULE PIMHostProofs ----------------------------
(***************************************************************************)
(* Proofs about PIMHost for every memory, set of commands and programs.    *)
(***************************************************************************)
EXTENDS PIMHost, FiniteSetTheorems, TLAPS

(* What holds whatever the kernel and the translations do: a thread that   *)
(* has come to its end waits for nothing.                                  *)
EndedRuns == Ended => status = "Running"

(* The instruction the thread is at accesses address a. *)
AtAccess(a) == ~Ended /\ program[pc].op = "mem" /\ program[pc].addr = a

(* While no translation has faulted and commands complete only when no     *)
(* cache is waited for, the processor does one thing at a time.            *)
NoRetry == pimEvent = FALSE /\ pendingPIM = << >>

OneFetch ==
  \A p \in DOMAIN fetches :
    fetches[p] = IF status = "IcacheWaitResponse" /\ p = pc THEN 1 ELSE 0

OneAccess ==
  /\ status \in {"DcacheRetry", "DcacheWaitResponse"} =>
       \E a \in Addrs : AtAccess(a) /\ ~StalledAddr(pending, a)
  /\ \A a \in Addrs :
       /\ accesses[a] > 0 => status = "DcacheWaitResponse" /\ AtAccess(a)
       /\ accesses[a] <= 1
       /\ dcachePkt = a => status = "DcacheRetry" /\ AtAccess(a)

FetchWhenRunning == fetchEvent => status = "Running"

Sleeping ==
  status = "Idle" => \E a \in Addrs : AtAccess(a) /\ StalledAddr(pending, a)

Calm == NoRetry /\ OneFetch /\ OneAccess /\ FetchWhenRunning /\ Sleeping

(* A program that waits keeps the kernel's command the only one: the       *)
(* thread has not touched it since it sent it.                             *)
Touches(inst, c) == inst.op = "mem" /\ \E r \in Regs : c[r] = inst.addr

OneCommand ==
  IF kernel = None THEN pending = << >>
  ELSE /\ pending = <<kernel>>
       /\ \E i \in 1 .. pc - 1 :
            /\ program[i].op = "pim" /\ program[i].cmd = kernel
            /\ \A k \in i + 1 .. pc - 1 : ~Touches(program[k], kernel)

Contains(s, x) == \E j \in 1 .. Len(s) : s[j] = x

(* The inductive invariants: the second needs EarlyComplete to be false,   *)
(* the third that the programs wait, too.                                  *)
TInv == TypeOK /\ EndedRuns
CInv == TInv /\ faulted \in BOOLEAN /\ (~faulted => Calm)
WInv == CInv /\ (~faulted => OneCommand)

-----------------------------------------------------------------------------
(* The instructions of a program, by their kind. *)
LEMMA Instruction ==
  ASSUME program \in Programs, NEW p \in 1 .. Len(program)
  PROVE  /\ Len(program) \in Nat
         /\ program[p].op = "pim" => program[p].cmd \in Commands
         /\ program[p].op = "mem" => program[p].addr \in Addrs
         /\ program[p].op \in {"pim", "mem", "other"}
<1>1. program \in Seq(Instructions)
  BY HostAssumption
<1>2. program[p] \in Instructions
  BY <1>1
<1>3. QED
  BY <1>1, <1>2 DEF Instructions

(* What fetch() of instruction p may do. *)
LEMMA Fetched ==
  ASSUME Len(program) \in Nat, NEW f \in [1 .. Len(program) -> Nat],
         NEW p \in 1 .. Len(program) + 1, Fetch(p, f)
  PROVE  /\ status' \in {"Running", "IcacheWaitResponse", "IcacheRetry"}
         /\ fetches' \in [1 .. Len(program) -> Nat]
         /\ p > Len(program) => status' = "Running"
         /\ \A q \in 1 .. Len(program) :
              fetches'[q] = IF status' = "IcacheWaitResponse" /\ q = p THEN f[q] + 1 ELSE f[q]
<1>1. CASE p > Len(program)
  BY <1>1 DEF Fetch
<1>2. CASE p \in 1 .. Len(program) /\ status' = "IcacheRetry" /\ fetches' = f
  BY <1>2
<1>3. CASE /\ p \in 1 .. Len(program) /\ status' = "IcacheWaitResponse"
           /\ fetches' = [f EXCEPT ![p] = f[p] + 1]
  <2>1. f[p] + 1 \in Nat
    BY <1>3
  <2>2. QED
    BY <1>3, <2>1
<1>4. QED
  BY <1>1, <1>2, <1>3 DEF Fetch

(* Erasing the first match leaves a queue of commands. *)
LEMMA Erased ==
  ASSUME NEW S, NEW q \in Seq(S), NEW c, Found(q, c)
  PROVE  Complete(q, c) \in Seq(S)
<1>1. \E m \in 1 .. Len(q) : /\ SameCommand(q[m], c)
                             /\ \A j \in 1 .. m - 1 : ~SameCommand(q[j], c)
  <2> DEFINE T == {m \in 1 .. Len(q) : SameCommand(q[m], c)}
  <2>1. T \subseteq Nat /\ T # {}
    BY DEF Found
  <2>2. \E x \in T : \A y \in T : ~ (<<y, x>> \in OpToRel(<, Nat))
    BY <2>1, NatLessThanWellFounded, WFMin
  <2>3. \E x \in T : \A y \in T : ~ (y < x)
    BY <2>1, <2>2 DEF OpToRel
  <2>4. QED
    BY <2>3
<1>2. FirstMatch(q, c) \in 1 .. Len(q)
  BY <1>1 DEF FirstMatch
<1>3. QED
  BY <1>2 DEF Complete

(* The response to a fetch, by the kind of the instruction. *)
LEMMA Ifetched ==
  ASSUME TypeOK, NEW p \in DOMAIN fetches, CompleteIfetch(p)
  PROVE  LET f == [fetches EXCEPT ![p] = fetches[p] - 1]
         IN  /\ p \in 1 .. Len(program)
             /\ fetches[p] > 0 /\ status = "IcacheWaitResponse"
             /\ f \in [1 .. Len(program) -> Nat]
             /\ program' = program
             /\ \/ /\ program[p].op = "pim" /\ program[p].cmd \in Commands
                   /\ PIMCommand(program[p].cmd)
                   /\ issued' = Append(issued, program[p].cmd)
                   /\ AdvanceInst(f)
                   /\ UNCHANGED <<fetchEvent, accesses, dcachePkt>>
                \/ /\ program[p].op = "mem" /\ program[p].addr \in Addrs
                   /\ FinishTranslation(program[p].addr)
                   /\ fetches' = f
                   /\ UNCHANGED <<pc, pim, issued>>
                \/ /\ program[p].op = "other"
                   /\ AdvanceInst(f)
                   /\ UNCHANGED <<fetchEvent, accesses, dcachePkt, pim, issued>>
<1> DEFINE f == [fetches EXCEPT ![p] = fetches[p] - 1]
<1>1. p \in 1 .. Len(program) /\ program \in Programs
  BY DEF TypeOK
<1>2. /\ program[p].op = "pim" => program[p].cmd \in Commands
      /\ program[p].op = "mem" => program[p].addr \in Addrs
      /\ program[p].op \in {"pim", "mem", "other"}
  BY <1>1, Instruction
<1>3. fetches[p] > 0 /\ status = "IcacheWaitResponse" /\ program' = program
  BY DEF CompleteIfetch
<1>4. f \in [1 .. Len(program) -> Nat]
  <2>1. fetches \in [1 .. Len(program) -> Nat]
    BY DEF TypeOK
  <2>2. fetches[p] - 1 \in Nat
    BY <1>1, <1>3, <2>1
  <2>3. QED
    BY <2>1, <2>2
<1>5. CASE program[p].op = "pim"
  BY <1>1, <1>2, <1>3, <1>4, <1>5 DEF CompleteIfetch
<1>6. CASE program[p].op = "mem"
  BY <1>1, <1>2, <1>3, <1>4, <1>6 DEF CompleteIfetch
<1>7. CASE program[p].op = "other"
  BY <1>1, <1>2, <1>3, <1>4, <1>7 DEF CompleteIfetch
<1>8. QED
  BY <1>2, <1>5, <1>6, <1>7

-----------------------------------------------------------------------------
(* What PIMCommand() leaves behind, whatever the translation answers. *)
LEMMA CommandTyped ==
  ASSUME TypeOK, NEW c \in Commands, PIMCommand(c)
  PROVE  /\ pimEvent' \in BOOLEAN
         /\ pendingPIM' \in Seq(Commands) /\ pending' \in Seq(Commands)
         /\ kernel' \in Commands \union {None}
         /\ sent' \in Seq(Commands)
<1>1. /\ pendingPIM \in Seq(Commands) /\ pending \in Seq(Commands)
      /\ sent \in Seq(Commands) /\ kernel \in Commands \union {None}
      /\ pimEvent \in BOOLEAN
  BY DEF TypeOK
<1>2. Enqueued(c) \in Seq(Commands) /\ Tried(c) \in Commands
  BY <1>1 DEF Enqueued, Tried
<1>3. Append(Enqueued(c), Tried(c)) \in Seq(Commands)
  BY <1>2
<1>4. CASE /\ pendingPIM' = Append(Enqueued(c), Tried(c)) /\ pimEvent' = TRUE
           /\ UNCHANGED <<pending, kernel, sent>>
  BY <1>1, <1>3, <1>4
<1>5. CASE pendingPIM' = Enqueued(c) /\ Deliver(Tried(c)) /\ UNCHANGED pimEvent
  BY <1>1, <1>2, <1>5 DEF Deliver, Registration
<1>6. QED
  BY <1>4, <1>5 DEF PIMCommand

(* The request of a data access, sent or refused. *)
LEMMA DataSent ==
  ASSUME TypeOK, NEW a \in Addrs, FinishTranslation(a)
  PROVE  /\ status' \in {"Idle", "DcacheWaitResponse", "DcacheRetry"}
         /\ fetchEvent' \in BOOLEAN
         /\ accesses' \in [Addrs -> Nat]
         /\ dcachePkt' \in Addrs \union {None}
<1>1. /\ accesses \in [Addrs -> Nat] /\ fetchEvent \in BOOLEAN
      /\ dcachePkt \in Addrs \union {None}
  BY DEF TypeOK
<1>2. accesses[a] + 1 \in Nat
  BY <1>1
<1>3. CASE SuspendContext
  BY <1>1, <1>3 DEF SuspendContext
<1>4. CASE SendData(a) /\ UNCHANGED fetchEvent
  <2>1. [accesses EXCEPT ![a] = accesses[a] + 1] \in [Addrs -> Nat]
    BY <1>1, <1>2
  <2>2. QED
    BY <1>1, <1>4, <2>1 DEF SendData
<1>5. QED
  BY <1>3, <1>4 DEF FinishTranslation

(* The types of the processor and of the commands under way, apart. *)
CpuTypeOK ==
  /\ program \in Programs
  /\ pc \in 1 .. Len(program) + 1
  /\ status \in Status
  /\ fetches \in [1 .. Len(program) -> Nat]
  /\ EndedRuns

DataTypeOK ==
  /\ fetchEvent \in BOOLEAN
  /\ accesses \in [Addrs -> Nat]
  /\ dcachePkt \in Addrs \union {None}

PIMTypeOK ==
  /\ pimEvent \in BOOLEAN
  /\ pendingPIM \in Seq(Commands) /\ pending \in Seq(Commands)
  /\ kernel \in Commands \union {None}
  /\ sent \in Seq(Commands) /\ issued \in Seq(Commands)

LEMMA TypeParts == TInv <=> CpuTypeOK /\ DataTypeOK /\ PIMTypeOK
BY DEF TInv, TypeOK, CpuTypeOK, DataTypeOK, PIMTypeOK

LEMMA LengthOK == program \in Programs => Len(program) \in Nat
BY HostAssumption

(* A thread that goes on from its instruction stays in its program. *)
LEMMA Advanced ==
  ASSUME CpuTypeOK, status # "Running", program' = program,
         NEW f \in [1 .. Len(program) -> Nat], AdvanceInst(f)
  PROVE  /\ CpuTypeOK'
         /\ pc \in 1 .. Len(program) /\ pc' = pc + 1
<1>1. pc \in 1 .. Len(program) + 1 /\ Len(program) \in Nat /\ program \in Programs
  BY LengthOK DEF CpuTypeOK
<1>2. pc \in 1 .. Len(program)
  BY <1>1 DEF CpuTypeOK, EndedRuns, Ended
<1>3. pc' = pc + 1 /\ Fetch(pc + 1, f) /\ pc + 1 \in 1 .. Len(program) + 1
  BY <1>1, <1>2 DEF AdvanceInst
<1>4. /\ status' \in {"Running", "IcacheWaitResponse", "IcacheRetry"}
      /\ fetches' \in [1 .. Len(program) -> Nat]
      /\ pc' > Len(program) => status' = "Running"
  BY <1>1, <1>3, Fetched
<1>5. EndedRuns'
  BY <1>4 DEF EndedRuns, Ended
<1>6. QED
  BY <1>1, <1>2, <1>3, <1>4, <1>5 DEF CpuTypeOK, Status

LEMMA InitTyped == Init => TInv
<1> SUFFICES ASSUME Init PROVE CpuTypeOK /\ DataTypeOK /\ PIMTypeOK
  BY TypeParts
<1>1. program \in Programs /\ Len(program) \in Nat
  BY LengthOK DEF Init
<1>2. CpuTypeOK
  BY <1>1 DEF Init, CpuTypeOK, EndedRuns, Status
<1>3. DataTypeOK
  BY DEF Init, DataTypeOK
<1>4. << >> \in Seq(Commands)
  OBVIOUS
<1>5. PIMTypeOK
  BY <1>4 DEF Init, PIMTypeOK
<1>6. QED
  BY <1>2, <1>3, <1>5

LEMMA TypeStep == TInv /\ [Next]_vars => TInv'
<1> SUFFICES ASSUME TInv, [Next]_vars PROVE TInv'
  OBVIOUS
<1> USE DEF ports, pim
<1>0. TypeOK /\ CpuTypeOK /\ DataTypeOK /\ PIMTypeOK
  BY TypeParts DEF TInv
<1>1. /\ pc \in 1 .. Len(program) + 1 /\ Len(program) \in Nat /\ program \in Programs
      /\ fetches \in [1 .. Len(program) -> Nat] /\ accesses \in [Addrs -> Nat]
  BY <1>0, LengthOK DEF TypeOK
<1>2. SUFFICES CpuTypeOK' /\ DataTypeOK' /\ PIMTypeOK'
  <2>1. (CpuTypeOK /\ DataTypeOK /\ PIMTypeOK)' => TInv'
    BY TypeParts, PTL
  <2>2. QED
    BY <2>1
<1>3. CASE FetchEvent
  <2>1. /\ program' = program /\ pc' = pc /\ fetchEvent' = FALSE
        /\ UNCHANGED <<accesses, dcachePkt, pim, issued>>
    BY <1>3 DEF FetchEvent
  <2>2. CASE status = "Idle" /\ UNCHANGED <<status, fetches>>
    BY <1>0, <2>1, <2>2 DEF CpuTypeOK, DataTypeOK, PIMTypeOK, EndedRuns, Ended
  <2>3. CASE Fetch(pc, fetches)
    <3>1. /\ status' \in {"Running", "IcacheWaitResponse", "IcacheRetry"}
          /\ fetches' \in [1 .. Len(program) -> Nat]
          /\ pc > Len(program) => status' = "Running"
      BY <1>1, <2>3, Fetched
    <3>2. QED
      BY <1>0, <2>1, <3>1 DEF CpuTypeOK, DataTypeOK, PIMTypeOK, EndedRuns, Ended, Status
  <2>4. QED
    BY <1>3, <2>2, <2>3 DEF FetchEvent
<1>4. CASE RetryPIM
  <2>1. /\ status' = "Running" /\ pimEvent' = TRUE
        /\ Deliver(Head(pendingPIM)) /\ pendingPIM # << >>
        /\ pendingPIM' = Tail(Append(pendingPIM, Head(pendingPIM)))
        /\ UNCHANGED <<program, pc, fetchEvent, ports, issued>>
    BY <1>4 DEF RetryPIM
  <2>2. pendingPIM \in Seq(Commands) /\ Head(pendingPIM) \in Commands
    BY <1>0, <2>1 DEF PIMTypeOK
  <2>3. Append(pendingPIM, Head(pendingPIM)) \in Seq(Commands)
    BY <2>2
  <2>4. pendingPIM' \in Seq(Commands)
    BY <2>1, <2>2, <2>3
  <2>5. PIMTypeOK'
    BY <1>0, <2>1, <2>2, <2>4 DEF Deliver, Registration, PIMTypeOK
  <2>6. QED
    BY <1>0, <2>1, <2>5 DEF CpuTypeOK, DataTypeOK, EndedRuns, Status
<1>5. ASSUME NEW p \in DOMAIN fetches, CompleteIfetch(p)
      PROVE  CpuTypeOK' /\ DataTypeOK' /\ PIMTypeOK'
  <2> DEFINE f == [fetches EXCEPT ![p] = fetches[p] - 1]
  <2>1. /\ status = "IcacheWaitResponse" /\ program' = program
        /\ f \in [1 .. Len(program) -> Nat]
    BY <1>0, <1>5, Ifetched
  <2>2. CASE /\ program[p].cmd \in Commands
             /\ PIMCommand(program[p].cmd)
             /\ issued' = Append(issued, program[p].cmd)
             /\ AdvanceInst(f)
             /\ UNCHANGED <<fetchEvent, accesses, dcachePkt>>
    <3>1. CpuTypeOK'
      BY <1>0, <2>1, <2>2, Advanced
    <3>2. issued' \in Seq(Commands)
      BY <1>0, <2>2 DEF PIMTypeOK
    <3>3. PIMTypeOK'
      BY <1>0, <2>2, <3>2, CommandTyped DEF PIMTypeOK
    <3>4. QED
      BY <1>0, <2>2, <3>1, <3>3 DEF DataTypeOK
  <2>3. CASE /\ program[p].addr \in Addrs
             /\ FinishTranslation(program[p].addr)
             /\ fetches' = f
             /\ UNCHANGED <<pc, pim, issued>>
    <3>1. /\ status' \in {"Idle", "DcacheWaitResponse", "DcacheRetry"}
          /\ DataTypeOK'
      BY <1>0, <2>3, DataSent DEF DataTypeOK
    <3>2. ~Ended
      BY <1>0, <2>1 DEF CpuTypeOK, EndedRuns
    <3>3. CpuTypeOK'
      BY <1>0, <2>1, <2>3, <3>1, <3>2 DEF CpuTypeOK, EndedRuns, Ended, Status
    <3>4. QED
      BY <1>0, <2>3, <3>1, <3>3 DEF PIMTypeOK
  <2>4. CASE /\ AdvanceInst(f)
             /\ UNCHANGED <<fetchEvent, accesses, dcachePkt, pim, issued>>
    <3>1. CpuTypeOK'
      BY <1>0, <2>1, <2>4, Advanced
    <3>2. QED
      BY <1>0, <2>4, <3>1 DEF DataTypeOK, PIMTypeOK
  <2>5. QED
    BY <1>0, <1>5, <2>2, <2>3, <2>4, Ifetched
<1>6. ASSUME NEW p \in DOMAIN fetches, DropIfetch(p)
      PROVE  CpuTypeOK' /\ DataTypeOK' /\ PIMTypeOK'
  <2>1. fetches[p] - 1 \in Nat
    BY <1>1, <1>6 DEF DropIfetch
  <2>2. fetches' \in [1 .. Len(program) -> Nat]
    BY <1>1, <1>6, <2>1 DEF DropIfetch
  <2>3. QED
    BY <1>0, <1>6, <2>2 DEF DropIfetch, CpuTypeOK, DataTypeOK, PIMTypeOK, EndedRuns, Ended
<1>7. ASSUME NEW a \in Addrs, CompleteDataAccess(a)
      PROVE  CpuTypeOK' /\ DataTypeOK' /\ PIMTypeOK'
  <2>1. accesses[a] - 1 \in Nat
    BY <1>1, <1>7 DEF CompleteDataAccess
  <2>2. accesses' \in [Addrs -> Nat]
    BY <1>1, <1>7, <2>1 DEF CompleteDataAccess
  <2>3. CpuTypeOK'
    BY <1>0, <1>1, <1>7, Advanced DEF CompleteDataAccess
  <2>4. QED
    BY <1>0, <1>7, <2>2, <2>3 DEF CompleteDataAccess, DataTypeOK, PIMTypeOK
<1>8. ASSUME NEW a \in Addrs, DropDataAccess(a)
      PROVE  CpuTypeOK' /\ DataTypeOK' /\ PIMTypeOK'
  <2>1. accesses[a] - 1 \in Nat
    BY <1>1, <1>8 DEF DropDataAccess
  <2>2. accesses' \in [Addrs -> Nat]
    BY <1>1, <1>8, <2>1 DEF DropDataAccess
  <2>3. QED
    BY <1>0, <1>8, <2>2 DEF DropDataAccess, CpuTypeOK, DataTypeOK, PIMTypeOK, EndedRuns, Ended
<1>9. CASE IcacheRetry
  <2>1. ~Ended /\ pc \in 1 .. Len(program)
    BY <1>0, <1>1, <1>9 DEF IcacheRetry, CpuTypeOK, EndedRuns, Ended
  <2>2. fetches[pc] + 1 \in Nat
    BY <1>1, <2>1
  <2>3. fetches' \in [1 .. Len(program) -> Nat]
    BY <1>1, <1>9, <2>1, <2>2 DEF IcacheRetry
  <2>4. QED
    BY <1>0, <1>9, <2>1, <2>3
       DEF IcacheRetry, CpuTypeOK, DataTypeOK, PIMTypeOK, EndedRuns, Ended, Status
<1>10. CASE DcacheRetry
  <2>1. ~Ended /\ dcachePkt \in Addrs
    BY <1>0, <1>10 DEF DcacheRetry, CpuTypeOK, DataTypeOK, EndedRuns
  <2>2. accesses[dcachePkt] + 1 \in Nat
    BY <1>1, <2>1
  <2>3. accesses' \in [Addrs -> Nat]
    BY <1>1, <1>10, <2>1, <2>2 DEF DcacheRetry
  <2>4. QED
    BY <1>0, <1>10, <2>1, <2>3
       DEF DcacheRetry, CpuTypeOK, DataTypeOK, PIMTypeOK, EndedRuns, Ended, Status
<1>11. CASE CompleteCommand
  <2>1. pending' \in Seq(Commands)
    BY <1>0, <1>11, Erased DEF CompleteCommand, PIMTypeOK
  <2>2. QED
    BY <1>0, <1>11, <2>1
       DEF CompleteCommand, CpuTypeOK, DataTypeOK, PIMTypeOK, EndedRuns, Ended, Status
<1>12. CASE UNCHANGED vars
  BY <1>0, <1>12 DEF vars, CpuTypeOK, DataTypeOK, PIMTypeOK, EndedRuns, Ended
<1>13. QED
  BY <1>3, <1>4, <1>5, <1>6, <1>7, <1>8, <1>9, <1>10, <1>11, <1>12
     DEF Next, Responses, Exit

LEMMA TypeInvariance == Spec => []TInv
<1>1. TInv /\ [Next]_vars => TInv'
  BY TypeStep
<1>2. QED
  BY <1>1, InitTyped, PTL DEF Spec

(* The processor, its queues and the kernel stay in states of their types, *)
(* and the thread never runs beyond the end of its program, whatever the   *)
(* translations and the completions do.                                    *)
THEOREM Typed == Spec => []TypeOK
<1>1. TInv => TypeOK
  BY DEF TInv
<1>2. QED
  BY <1>1, TypeInvariance, PTL

-----------------------------------------------------------------------------
(* What a queue contains after an entry is appended, and after the first   *)
(* entry is moved to the end.                                              *)
LEMMA ContainsAppend ==
  ASSUME NEW S, NEW s \in Seq(S), NEW e \in S, NEW x
  PROVE  Contains(Append(s, e), x) <=> Contains(s, x) \/ x = e
<1>1. /\ Len(s) \in Nat /\ Len(Append(s, e)) = Len(s) + 1
      /\ \A j \in 1 .. Len(s) : Append(s, e)[j] = s[j]
      /\ Append(s, e)[Len(s) + 1] = e
  OBVIOUS
<1>2. QED
  BY <1>1 DEF Contains

LEMMA ContainsRotated ==
  ASSUME NEW S, NEW s \in Seq(S), s # << >>, NEW x, Contains(s, x)
  PROVE  Contains(Tail(Append(s, Head(s))), x)
<1> DEFINE t == Append(s, Head(s))
<1>1. /\ t \in Seq(S) /\ t # << >> /\ Len(t) = Len(s) + 1 /\ Len(s) \in Nat \ {0}
      /\ \A j \in 1 .. Len(s) : t[j] = s[j]
      /\ t[Len(s) + 1] = s[1]
  OBVIOUS
<1>2. /\ Len(Tail(t)) = Len(s)
      /\ \A j \in 1 .. Len(s) : Tail(t)[j] = t[j + 1]
  BY <1>1
<1>3. PICK j \in 1 .. Len(s) : s[j] = x
  BY DEF Contains
<1> HIDE DEF t
<1>4. CASE j = 1
  BY <1>1, <1>2, <1>3, <1>4 DEF Contains, t
<1>5. CASE j - 1 \in 1 .. Len(s)
  <2>1. Tail(t)[j - 1] = x
    BY <1>1, <1>2, <1>3, <1>5
  <2>2. QED
    BY <1>2, <1>5, <2>1 DEF Contains, t
<1>6. QED
  BY <1>1, <1>3, <1>4, <1>5

(* A command that is executed is sent or queued, and none of the earlier   *)
(* ones goes.                                                              *)
LEMMA CommandKept ==
  ASSUME TypeOK, NEW c \in Commands, PIMCommand(c), NEW x,
         Contains(sent, x) \/ Contains(pendingPIM, x) \/ x = c
  PROVE  Contains(sent', x) \/ Contains(pendingPIM', x)
<1>1. pendingPIM \in Seq(Commands) /\ sent \in Seq(Commands)
  BY DEF TypeOK
<1>2. CASE pendingPIM = << >>
  <2>1. Enqueued(c) = << >> /\ Tried(c) = c /\ ~Contains(pendingPIM, x)
    BY <1>2 DEF Enqueued, Tried, Contains
  <2>2. CASE pendingPIM' = Append(<< >>, c) /\ sent' = sent
    <3>1. << >> \in Seq(Commands)
      OBVIOUS
    <3>2. QED
      BY <2>1, <2>2, <3>1, ContainsAppend
  <2>3. CASE sent' = Append(sent, c)
    BY <1>1, <2>1, <2>3, ContainsAppend
  <2>4. QED
    BY <2>1, <2>2, <2>3 DEF PIMCommand, Deliver
<1>3. CASE pendingPIM # << >>
  <2>1. Head(pendingPIM) \in Commands
    BY <1>1, <1>3
  <2>2. Enqueued(c) = Append(pendingPIM, c) /\ Tried(c) = Head(pendingPIM)
    BY <1>3 DEF Enqueued, Tried
  <2>3. Append(pendingPIM, c) \in Seq(Commands)
    BY <1>1
  <2>4. CASE pendingPIM' = Append(Append(pendingPIM, c), Head(pendingPIM)) /\ sent' = sent
    BY <1>1, <2>1, <2>3, <2>4, ContainsAppend
  <2>5. CASE pendingPIM' = Append(pendingPIM, c) /\ sent' = Append(sent, Head(pendingPIM))
    BY <1>1, <2>1, <2>5, ContainsAppend
  <2>6. QED
    BY <2>2, <2>4, <2>5 DEF PIMCommand, Deliver
<1>4. QED
  BY <1>2, <1>3

LEMMA LostParts ==
  NothingLost <=> \A x : Contains(issued, x) => Contains(sent, x) \/ Contains(pendingPIM, x)
BY DEF NothingLost, Contains

LEMMA NothingLostStep == TInv /\ NothingLost /\ [Next]_vars => NothingLost'
<1> SUFFICES ASSUME TInv, NothingLost, [Next]_vars PROVE NothingLost'
  OBVIOUS
<1>1. TypeOK
  BY DEF TInv
<1>2. \A x : Contains(issued, x) => Contains(sent, x) \/ Contains(pendingPIM, x)
  BY LostParts
<1>3. SUFFICES \A x : Contains(issued', x) => Contains(sent', x) \/ Contains(pendingPIM', x)
  BY DEF NothingLost, Contains
<1>4. CASE UNCHANGED <<issued, sent, pendingPIM>>
  BY <1>2, <1>4
<1>5. CASE RetryPIM
  <2>1. /\ pendingPIM # << >> /\ issued' = issued
        /\ sent' = Append(sent, Head(pendingPIM))
        /\ pendingPIM' = Tail(Append(pendingPIM, Head(pendingPIM)))
    BY <1>5 DEF RetryPIM, Deliver
  <2>2. pendingPIM \in Seq(Commands) /\ sent \in Seq(Commands)
    BY <1>1 DEF TypeOK
  <2>3. Head(pendingPIM) \in Commands
    BY <2>1, <2>2
  <2>4. \A x : Contains(sent, x) => Contains(sent', x)
    BY <2>1, <2>2, <2>3, ContainsAppend
  <2>5. \A x : Contains(pendingPIM, x) => Contains(pendingPIM', x)
    BY <2>1, <2>2, ContainsRotated
  <2>6. QED
    BY <1>2, <2>1, <2>4, <2>5
<1>6. ASSUME NEW c \in Commands, PIMCommand(c), issued' = Append(issued, c)
      PROVE  \A x : Contains(issued', x) => Contains(sent', x) \/ Contains(pendingPIM', x)
  <2>1. issued \in Seq(Commands)
    BY <1>1 DEF TypeOK
  <2>2. \A x : Contains(issued', x) => Contains(issued, x) \/ x = c
    BY <1>6, <2>1, ContainsAppend
  <2>3. QED
    BY <1>1, <1>2, <1>6, <2>2, CommandKept
<1>7. ASSUME NEW p \in DOMAIN fetches, CompleteIfetch(p)
      PROVE  \A x : Contains(issued', x) => Contains(sent', x) \/ Contains(pendingPIM', x)
  <2>1. \/ /\ program[p].cmd \in Commands
           /\ PIMCommand(program[p].cmd)
           /\ issued' = Append(issued, program[p].cmd)
        \/ UNCHANGED <<issued, sent, pendingPIM>>
    BY <1>1, <1>7, Ifetched DEF pim
  <2>2. QED
    BY <1>4, <1>6, <2>1
<1>8. QED
  BY <1>4, <1>5, <1>7
     DEF Next, Responses, Exit, FetchEvent, DropIfetch, CompleteDataAccess, DropDataAccess,
         IcacheRetry, DcacheRetry, CompleteCommand, vars, pim

(* Whatever the translations answer: no command that the thread executed   *)
(* is lost, although PIMCommand() tries another command in its place and   *)
(* retryPIM() reorders the queue.                                          *)
THEOREM Lossless == Spec => []NothingLost
<1>1. Init => NothingLost
  BY DEF Init, NothingLost
<1>2. TInv /\ NothingLost /\ [Next]_vars => NothingLost'
  BY NothingLostStep
<1>3. QED
  BY <1>1, <1>2, TypeInvariance, PTL DEF Spec

-----------------------------------------------------------------------------
(* The step to instruction p when nothing is under way. *)
LEMMA CalmFetch ==
  ASSUME program' = program, Len(program) \in Nat,
         NEW f \in [1 .. Len(program) -> Nat], \A q \in 1 .. Len(program) : f[q] = 0,
         NEW p \in 1 .. Len(program) + 1, Fetch(p, f), pc' = p,
         fetchEvent' = FALSE, NoRetry',
         \A a \in Addrs : accesses'[a] = 0 /\ dcachePkt' # a
  PROVE  Calm'
<1>1. /\ status' \in {"Running", "IcacheWaitResponse", "IcacheRetry"}
      /\ fetches' \in [1 .. Len(program) -> Nat]
      /\ \A q \in 1 .. Len(program) :
           fetches'[q] = IF status' = "IcacheWaitResponse" /\ q = p THEN f[q] + 1 ELSE f[q]
  BY Fetched
<1>2. \A q \in 1 .. Len(program) :
        fetches'[q] = IF status' = "IcacheWaitResponse" /\ q = p THEN 1 ELSE 0
  BY <1>1
<1>3. OneFetch'
  BY <1>1, <1>2 DEF OneFetch
<1>4. OneAccess'
  BY <1>1 DEF OneAccess
<1>5. FetchWhenRunning' /\ Sleeping'
  BY <1>1 DEF FetchWhenRunning, Sleeping
<1>6. QED
  BY <1>3, <1>4, <1>5 DEF Calm

(* A command that is sent while no other waits. *)
LEMMA CalmCommand ==
  ASSUME NoRetry, ~faulted', NEW c, PIMCommand(c)
  PROVE  /\ NoRetry'
         /\ pending' = Append(pending, c)
         /\ kernel' = IF kernel = None THEN c ELSE kernel
         /\ sent' = Append(sent, c)
<1>1. /\ pendingPIM' = Enqueued(c) /\ Deliver(Tried(c))
      /\ pimEvent' = pimEvent
  BY DEF PIMCommand
<1>2. Enqueued(c) = << >> /\ Tried(c) = c
  BY DEF NoRetry, Enqueued, Tried
<1>3. QED
  BY <1>1, <1>2 DEF NoRetry, Deliver, Registration

(* What the calm states say about each status. *)
LEMMA CalmFacts ==
  ASSUME TInv, Calm
  PROVE  /\ NoRetry
         /\ fetches \in [1 .. Len(program) -> Nat]
         /\ \A q \in 1 .. Len(program) :
              fetches[q] = IF status = "IcacheWaitResponse" /\ q = pc THEN 1 ELSE 0
         /\ status # "Running" => fetchEvent = FALSE
         /\ status \notin {"DcacheRetry", "DcacheWaitResponse"} =>
              \A a \in Addrs : accesses[a] = 0 /\ dcachePkt # a
         /\ status = "DcacheWaitResponse" => \A a \in Addrs : dcachePkt # a
         /\ status = "DcacheRetry" => \A a \in Addrs : accesses[a] = 0
         /\ \A a \in Addrs : accesses[a] \in {0, 1}
         /\ \A a \in Addrs : accesses[a] > 0 \/ dcachePkt = a => AtAccess(a)
<1>1. fetches \in [1 .. Len(program) -> Nat] /\ accesses \in [Addrs -> Nat]
  BY DEF TInv, TypeOK
<1>2. fetchEvent \in BOOLEAN /\ (fetchEvent => status = "Running")
  BY DEF TInv, TypeOK, Calm, FetchWhenRunning
<1>3. \A q \in 1 .. Len(program) :
        fetches[q] = IF status = "IcacheWaitResponse" /\ q = pc THEN 1 ELSE 0
  BY <1>1 DEF Calm, OneFetch
<1>4. \A a \in Addrs :
        /\ accesses[a] > 0 => status = "DcacheWaitResponse" /\ AtAccess(a)
        /\ accesses[a] <= 1
        /\ dcachePkt = a => status = "DcacheRetry" /\ AtAccess(a)
  BY DEF Calm, OneAccess
<1>5. \A a \in Addrs : accesses[a] \in {0, 1}
  BY <1>1, <1>4
<1>6. NoRetry
  BY DEF Calm
<1>7. QED
  BY <1>1, <1>2, <1>3, <1>4, <1>5, <1>6

LEMMA InitCalm == Init => CInv
<1> SUFFICES ASSUME Init PROVE CInv
  OBVIOUS
<1>1. TInv
  BY InitTyped
<1>2. /\ status = "Running" /\ pc = 1 /\ faulted = FALSE
      /\ fetches = [i \in 1 .. Len(program) |-> 0]
      /\ accesses = [a \in Addrs |-> 0]
      /\ dcachePkt = None /\ pimEvent = FALSE /\ pendingPIM = << >>
  BY DEF Init
<1>3. OneFetch /\ OneAccess
  BY <1>2, HostAssumption DEF OneFetch, OneAccess
<1>4. NoRetry /\ FetchWhenRunning /\ Sleeping
  BY <1>2 DEF NoRetry, FetchWhenRunning, Sleeping
<1>5. QED
  BY <1>1, <1>2, <1>3, <1>4 DEF CInv, Calm

(* The response to a fetch is for the instruction the thread is at, and    *)
(* leads to a calm state.                                                  *)
LEMMA CalmIfetch ==
  ASSUME TInv, Calm, ~faulted', NEW p \in DOMAIN fetches, CompleteIfetch(p)
  PROVE  Calm' /\ p = pc
<1> DEFINE f == [fetches EXCEPT ![p] = fetches[p] - 1]
<1>1. TypeOK /\ CpuTypeOK
  BY TypeParts DEF TInv
<1>2. /\ p \in 1 .. Len(program)
      /\ fetches[p] > 0 /\ status = "IcacheWaitResponse"
      /\ f \in [1 .. Len(program) -> Nat]
      /\ program' = program
  BY <1>1, Ifetched
<1>3. /\ NoRetry
      /\ fetches \in [1 .. Len(program) -> Nat]
      /\ \A q \in 1 .. Len(program) : fetches[q] = IF q = pc THEN 1 ELSE 0
      /\ fetchEvent = FALSE
      /\ \A a \in Addrs : accesses[a] = 0 /\ dcachePkt # a
  BY <1>2, CalmFacts
<1>4. p = pc
  BY <1>2, <1>3
<1>5. \A q \in 1 .. Len(program) : f[q] = 0
  BY <1>2, <1>3, <1>4
<1>6. Len(program) \in Nat /\ program \in Programs
  BY <1>1, LengthOK DEF CpuTypeOK
<1>7. ASSUME AdvanceInst(f), NoRetry', UNCHANGED <<fetchEvent, accesses, dcachePkt>>
      PROVE  Calm'
  <2>1. /\ pc + 1 \in 1 .. Len(program) + 1 /\ pc' = pc + 1 /\ Fetch(pc + 1, f)
    BY <1>2, <1>4, <1>6, <1>7 DEF AdvanceInst
  <2> HIDE DEF f
  <2>2. QED
    BY <1>2, <1>3, <1>5, <1>6, <1>7, <2>1, CalmFetch
<1>8. CASE /\ program[p].cmd \in Commands
           /\ PIMCommand(program[p].cmd)
           /\ AdvanceInst(f)
           /\ UNCHANGED <<fetchEvent, accesses, dcachePkt>>
  BY <1>3, <1>4, <1>7, <1>8, CalmCommand
<1>9. CASE /\ AdvanceInst(f)
           /\ UNCHANGED <<fetchEvent, accesses, dcachePkt, pim, issued>>
  BY <1>3, <1>4, <1>7, <1>9 DEF NoRetry, pim
<1>10. CASE /\ program[p].op = "mem" /\ program[p].addr \in Addrs
            /\ FinishTranslation(program[p].addr)
            /\ fetches' = f
            /\ UNCHANGED <<pc, pim, issued>>
  <2>0. PICK a \in Addrs : a = program[p].addr
    BY <1>10
  <2>1. AtAccess(a)' /\ ~Ended
    BY <1>2, <1>4, <1>6, <1>10, <2>0 DEF AtAccess, Ended
  <2>2. pending' = pending /\ NoRetry'
    BY <1>3, <1>10 DEF NoRetry, pim
  <2>3. /\ status' \in {"Idle", "DcacheWaitResponse", "DcacheRetry"}
        /\ fetchEvent' = FALSE
        /\ status' = "Idle" => StalledAddr(pending, a)
        /\ status' # "Idle" => ~StalledAddr(pending, a)
        /\ \/ /\ status' = "DcacheWaitResponse" /\ dcachePkt' = None
              /\ accesses' = [accesses EXCEPT ![a] = accesses[a] + 1]
           \/ status' = "DcacheRetry" /\ dcachePkt' = a /\ accesses' = accesses
           \/ status' = "Idle" /\ dcachePkt' = dcachePkt /\ accesses' = accesses
    BY <1>3, <1>10, <2>0 DEF FinishTranslation, SuspendContext, SendData
  <2>4. OneFetch'
    BY <1>2, <1>5, <1>10, <2>3 DEF OneFetch
  <2>5. accesses \in [Addrs -> Nat]
    BY <1>1 DEF TypeOK
  <2>6. FetchWhenRunning' /\ Sleeping'
    BY <2>1, <2>2, <2>3 DEF FetchWhenRunning, Sleeping
  <2>7. \A b \in Addrs :
          /\ accesses'[b] > 0 => status' = "DcacheWaitResponse" /\ b = a
          /\ accesses'[b] <= 1
          /\ dcachePkt' = b => status' = "DcacheRetry" /\ b = a
    <3>1. CASE /\ status' = "DcacheWaitResponse" /\ dcachePkt' = None
               /\ accesses' = [accesses EXCEPT ![a] = accesses[a] + 1]
      BY <1>3, <2>1, <2>5, <3>1, HostAssumption
    <3>2. CASE status' = "DcacheRetry" /\ dcachePkt' = a /\ accesses' = accesses
      BY <1>3, <2>1, <3>2
    <3>3. CASE status' = "Idle" /\ dcachePkt' = dcachePkt /\ accesses' = accesses
      BY <1>3, <3>3
    <3>4. QED
      BY <2>3, <3>1, <3>2, <3>3
  <2>8. OneAccess'
    BY <2>1, <2>2, <2>3, <2>7 DEF OneAccess
  <2>9. QED
    BY <1>4, <2>2, <2>4, <2>6, <2>8 DEF Calm
<1>11. QED
  BY <1>1, <1>4, <1>8, <1>9, <1>10, Ifetched

(* The response to a data access: the thread goes on to the next           *)
(* instruction, and nothing is left under way.                             *)
LEMMA CalmDataAccess ==
  ASSUME TInv, Calm, NEW a \in Addrs, CompleteDataAccess(a)
  PROVE  Calm' /\ AtAccess(a) /\ ~StalledAddr(pending, a)
<1>1. CpuTypeOK /\ accesses \in [Addrs -> Nat]
  BY TypeParts DEF TInv, TypeOK
<1>2. /\ accesses[a] > 0 /\ status = "DcacheWaitResponse" /\ program' = program
      /\ accesses' = [accesses EXCEPT ![a] = accesses[a] - 1]
      /\ AdvanceInst(fetches)
      /\ UNCHANGED <<fetchEvent, dcachePkt, pim>>
  BY DEF CompleteDataAccess
<1>3. /\ NoRetry
      /\ fetches \in [1 .. Len(program) -> Nat]
      /\ \A q \in 1 .. Len(program) : fetches[q] = 0
      /\ fetchEvent = FALSE
      /\ \A b \in Addrs : dcachePkt # b
      /\ \A b \in Addrs : accesses[b] \in {0, 1}
      /\ \A b \in Addrs : accesses[b] > 0 => AtAccess(b)
  BY <1>2, CalmFacts
<1>4. AtAccess(a) /\ \A b \in Addrs : AtAccess(b) => b = a
  BY <1>2, <1>3 DEF AtAccess
<1>5. ~StalledAddr(pending, a)
  BY <1>2, <1>4 DEF Calm, OneAccess
<1>6. \A b \in Addrs : accesses'[b] = 0 /\ dcachePkt' # b
  BY <1>1, <1>2, <1>3, <1>4
<1>7. Len(program) \in Nat /\ pc \in 1 .. Len(program) + 1
  BY <1>1, LengthOK DEF CpuTypeOK
<1>8. pc + 1 \in 1 .. Len(program) + 1 /\ pc' = pc + 1 /\ Fetch(pc + 1, fetches)
  BY <1>2, <1>4, <1>7 DEF AdvanceInst, AtAccess, Ended
<1>9. NoRetry'
  BY <1>2, <1>3 DEF NoRetry, pim
<1>10. Calm'
  BY <1>2, <1>3, <1>6, <1>7, <1>8, <1>9, CalmFetch
<1>11. QED
  BY <1>4, <1>5, <1>10

(* The fetch event and the retry of a fetch. *)
LEMMA CalmFetchEvent == TInv /\ Calm /\ FetchEvent => Calm'
<1> SUFFICES ASSUME TInv, Calm, FetchEvent PROVE Calm'
  OBVIOUS
<1>1. CpuTypeOK
  BY TypeParts DEF TInv
<1>2. status = "Running"
  BY DEF Calm, FetchWhenRunning, FetchEvent
<1>3. /\ program' = program /\ pc' = pc /\ fetchEvent' = FALSE /\ Fetch(pc, fetches)
      /\ UNCHANGED <<accesses, dcachePkt, pim>>
  BY <1>2 DEF FetchEvent
<1>4. /\ NoRetry
      /\ fetches \in [1 .. Len(program) -> Nat]
      /\ \A q \in 1 .. Len(program) : fetches[q] = 0
      /\ \A b \in Addrs : accesses[b] = 0 /\ dcachePkt # b
  BY <1>2, CalmFacts
<1>5. Len(program) \in Nat /\ pc \in 1 .. Len(program) + 1
  BY <1>1, LengthOK DEF CpuTypeOK
<1>6. NoRetry'
  BY <1>3, <1>4 DEF NoRetry, pim
<1>7. QED
  BY <1>3, <1>4, <1>5, <1>6, CalmFetch

LEMMA CalmIcacheRetry == TInv /\ Calm /\ IcacheRetry => Calm'
<1> SUFFICES ASSUME TInv, Calm, IcacheRetry PROVE Calm'
  OBVIOUS
<1>1. /\ status = "IcacheRetry" /\ status' = "IcacheWaitResponse"
      /\ fetches' = [fetches EXCEPT ![pc] = fetches[pc] + 1]
      /\ UNCHANGED <<program, pc, fetchEvent, accesses, dcachePkt, pim>>
  BY DEF IcacheRetry
<1>2. /\ NoRetry
      /\ fetches \in [1 .. Len(program) -> Nat]
      /\ \A q \in 1 .. Len(program) : fetches[q] = 0
      /\ fetchEvent = FALSE
      /\ \A b \in Addrs : accesses[b] = 0 /\ dcachePkt # b
  BY <1>1, CalmFacts
<1>3. OneFetch'
  BY <1>1, <1>2 DEF OneFetch
<1>4. OneAccess'
  BY <1>1, <1>2 DEF OneAccess
<1>5. FetchWhenRunning' /\ Sleeping'
  BY <1>1, <1>2 DEF FetchWhenRunning, Sleeping
<1>6. NoRetry'
  BY <1>1, <1>2 DEF NoRetry, pim
<1>7. QED
  BY <1>3, <1>4, <1>5, <1>6 DEF Calm

(* The retry of a data access. *)
LEMMA CalmDcacheRetry == TInv /\ Calm /\ DcacheRetry => Calm'
<1> SUFFICES ASSUME TInv, Calm, DcacheRetry PROVE Calm'
  OBVIOUS
<1>1. PICK a \in Addrs : a = dcachePkt
  BY DEF DcacheRetry, TInv, TypeOK
<1>2. /\ status = "DcacheRetry" /\ status' = "DcacheWaitResponse"
      /\ accesses' = [accesses EXCEPT ![a] = accesses[a] + 1]
      /\ dcachePkt' = None
      /\ UNCHANGED <<program, pc, fetchEvent, fetches, pim>>
  BY <1>1 DEF DcacheRetry
<1>3. /\ NoRetry
      /\ \A b \in Addrs : accesses[b] = 0
      /\ fetchEvent = FALSE
      /\ fetches \in [1 .. Len(program) -> Nat]
      /\ \A q \in 1 .. Len(program) : fetches[q] = 0
      /\ AtAccess(a)
  BY <1>1, <1>2, CalmFacts
<1>4. accesses \in [Addrs -> Nat]
  BY DEF TInv, TypeOK
<1>5. \E b \in Addrs : AtAccess(b) /\ ~StalledAddr(pending, b)
  BY <1>2 DEF Calm, OneAccess
<1>6. ~StalledAddr(pending, a)
  BY <1>3, <1>5 DEF AtAccess
<1>7. AtAccess(a)' /\ pending' = pending
  BY <1>2, <1>3 DEF AtAccess, Ended, pim
<1>8. \A b \in Addrs : /\ accesses'[b] > 0 => b = a
                       /\ accesses'[b] <= 1
                       /\ dcachePkt' # b
  BY <1>1, <1>2, <1>3, <1>4, HostAssumption
<1>9. OneAccess'
  BY <1>1, <1>2, <1>6, <1>7, <1>8 DEF OneAccess
<1>10. OneFetch'
  BY <1>2, <1>3 DEF OneFetch
<1>11. FetchWhenRunning' /\ Sleeping' /\ NoRetry'
  BY <1>2, <1>3 DEF FetchWhenRunning, Sleeping, NoRetry, pim
<1>12. QED
  BY <1>9, <1>10, <1>11 DEF Calm

(* A command that completes while no cache is waited for wakes the thread. *)
LEMMA CalmComplete ==
  ~EarlyComplete /\ TInv /\ Calm /\ CompleteCommand => Calm'
<1> SUFFICES ASSUME ~EarlyComplete, TInv, Calm, CompleteCommand PROVE Calm'
  OBVIOUS
<1>1. /\ status \in {"Idle", "Running"} /\ status' = "Running"
      /\ UNCHANGED <<program, pc, ports, pendingPIM, pimEvent>>
  BY DEF CompleteCommand
<1>2. /\ NoRetry
      /\ fetches \in [1 .. Len(program) -> Nat]
      /\ \A q \in 1 .. Len(program) : fetches[q] = 0
      /\ \A b \in Addrs : accesses[b] = 0 /\ dcachePkt # b
  BY <1>1, CalmFacts
<1>3. OneFetch'
  BY <1>1, <1>2 DEF OneFetch, ports
<1>4. OneAccess'
  BY <1>1, <1>2 DEF OneAccess, ports
<1>5. FetchWhenRunning' /\ Sleeping' /\ NoRetry'
  BY <1>1, <1>2 DEF FetchWhenRunning, Sleeping, NoRetry
<1>6. QED
  BY <1>3, <1>4, <1>5 DEF Calm

LEMMA CalmStutter == Calm /\ UNCHANGED vars => Calm'
BY DEF Calm, NoRetry, OneFetch, OneAccess, FetchWhenRunning, Sleeping, AtAccess, Ended,
       vars, ports, pim

(* In a calm state no response is dropped and no retry event runs. *)
LEMMA CalmAssertions ==
  ASSUME TInv, Calm
  PROVE  /\ ~RetryPIM
         /\ \A p \in DOMAIN fetches : ~DropIfetch(p)
         /\ \A a \in Addrs : ~DropDataAccess(a)
<1>1. ~RetryPIM
  BY CalmFacts DEF RetryPIM, NoRetry
<1>2. \A p \in DOMAIN fetches : ~DropIfetch(p)
  BY CalmFacts DEF DropIfetch
<1>3. \A a \in Addrs : ~DropDataAccess(a)
  BY DEF DropDataAccess, Calm, OneAccess
<1>4. QED
  BY <1>1, <1>2, <1>3

LEMMA FaultedStep ==
  ASSUME TInv, faulted \in BOOLEAN, [Next]_vars
  PROVE  faulted' \in BOOLEAN /\ (faulted => faulted')
<1>1. ASSUME NEW p \in DOMAIN fetches, CompleteIfetch(p)
      PROVE  faulted' = faulted \/ faulted' = TRUE
  BY <1>1, Ifetched DEF TInv, PIMCommand, pim
<1>2. QED
  BY <1>1
     DEF Next, Responses, Exit, FetchEvent, RetryPIM, DropIfetch, CompleteDataAccess,
         DropDataAccess, IcacheRetry, DcacheRetry, CompleteCommand, vars, pim

LEMMA CalmStep == ~EarlyComplete /\ CInv /\ [Next]_vars => CInv'
<1> SUFFICES ASSUME ~EarlyComplete, CInv, [Next]_vars PROVE CInv'
  OBVIOUS
<1>1. TInv /\ TInv' /\ faulted' \in BOOLEAN /\ (faulted => faulted')
  BY TypeStep, FaultedStep DEF CInv
<1>2. SUFFICES ASSUME ~faulted' PROVE Calm'
  BY <1>1 DEF CInv
<1>3. Calm
  BY <1>1, <1>2 DEF CInv
<1>4. QED
  BY <1>1, <1>2, <1>3, CalmAssertions, CalmIfetch, CalmDataAccess, CalmFetchEvent,
     CalmIcacheRetry, CalmDcacheRetry, CalmComplete, CalmStutter
     DEF Next, Responses, Exit

LEMMA CalmInvariance == ~EarlyComplete => (Spec => []CInv)
<1> SUFFICES ASSUME ~EarlyComplete PROVE Spec => []CInv
  OBVIOUS
<1>1. CInv /\ [Next]_vars => CInv'
  BY CalmStep
<1>2. QED
  BY <1>1, InitCalm, PTL DEF Spec

(* As long as the commands complete while the processor sleeps or runs,    *)
(* and no translation has faulted: at most one fetch is under way, and it  *)
(* is for the instruction the thread is at.                                *)
THEOREM OneFetchAtATime == ~EarlyComplete => (Spec => []OneFetchOutstanding)
<1> SUFFICES ASSUME ~EarlyComplete PROVE Spec => []OneFetchOutstanding
  OBVIOUS
<1>1. CInv => OneFetchOutstanding
  BY DEF CInv, Calm, OneFetch, OneFetchOutstanding
<1>2. QED
  BY <1>1, CalmInvariance, PTL

(* Under the same condition no access of the host to a registered address  *)
(* is under way or kept for a retry.                                       *)
THEOREM AccessesAreClear == ~EarlyComplete => (Spec => []NoAccessInFlightToLocked)
<1> SUFFICES ASSUME ~EarlyComplete PROVE Spec => []NoAccessInFlightToLocked
  OBVIOUS
<1>1. CInv => NoAccessInFlightToLocked
  <2> SUFFICES ASSUME CInv, ~faulted, NEW a \in Addrs, accesses[a] > 0 \/ dcachePkt = a
               PROVE  ~StalledAddr(pending, a)
    BY DEF NoAccessInFlightToLocked
  <2>1. AtAccess(a) /\ status \in {"DcacheRetry", "DcacheWaitResponse"}
    BY DEF CInv, Calm, OneAccess
  <2>2. \E b \in Addrs : AtAccess(b) /\ ~StalledAddr(pending, b)
    BY <2>1 DEF CInv, Calm, OneAccess
  <2>3. QED
    BY <2>1, <2>2 DEF AtAccess
<1>2. QED
  BY <1>1, CalmInvariance, PTL

-----------------------------------------------------------------------------
(* The PIM instructions up to the next one. *)
LEMMA PIMsFinite ==
  ASSUME NEW n \in Nat
  PROVE  IsFiniteSet(PIMsUpTo(n)) /\ Cardinality(PIMsUpTo(n)) \in Nat
<1>1. 1 \in Int /\ n \in Int
  OBVIOUS
<1>2. IsFiniteSet(1 .. n)
  BY <1>1, FS_Interval
<1>3. PIMsUpTo(n) \in SUBSET (1 .. n)
  BY DEF PIMsUpTo
<1>4. IsFiniteSet(PIMsUpTo(n))
  BY <1>2, <1>3, FS_Subset
<1>5. QED
  BY <1>4, FS_CardinalityType

LEMMA PIMsNext ==
  ASSUME NEW n \in Nat
  PROVE  /\ program[n + 1].op # "pim" => PIMsUpTo(n + 1) = PIMsUpTo(n)
         /\ program[n + 1].op = "pim" =>
              /\ PIMsUpTo(n + 1) = PIMsUpTo(n) \cup {n + 1}
              /\ Cardinality(PIMsUpTo(n + 1)) = Cardinality(PIMsUpTo(n)) + 1
<1>1. ASSUME program[n + 1].op # "pim" PROVE PIMsUpTo(n + 1) = PIMsUpTo(n)
  BY <1>1 DEF PIMsUpTo
<1>2. ASSUME program[n + 1].op = "pim"
      PROVE  /\ PIMsUpTo(n + 1) = PIMsUpTo(n) \cup {n + 1}
             /\ Cardinality(PIMsUpTo(n + 1)) = Cardinality(PIMsUpTo(n)) + 1
  <2>1. PIMsUpTo(n + 1) = PIMsUpTo(n) \cup {n + 1} /\ n + 1 \notin PIMsUpTo(n)
    BY <1>2 DEF PIMsUpTo
  <2>2. QED
    BY <2>1, PIMsFinite, FS_AddElement
<1>3. QED
  BY <1>1, <1>2

LEMMA PIMsMonotone ==
  ASSUME NEW n \in Nat, NEW i \in PIMsUpTo(n)
  PROVE  Cardinality(PIMsUpTo(i)) \in 1 .. Cardinality(PIMsUpTo(n))
<1>1. i \in 1 .. n
  BY DEF PIMsUpTo
<1>2. PIMsUpTo(i) \in SUBSET PIMsUpTo(n) /\ i \in PIMsUpTo(i)
  BY <1>1 DEF PIMsUpTo
<1>3. /\ IsFiniteSet(PIMsUpTo(i)) /\ Cardinality(PIMsUpTo(i)) \in Nat
      /\ IsFiniteSet(PIMsUpTo(n)) /\ Cardinality(PIMsUpTo(n)) \in Nat
  BY <1>1, PIMsFinite
<1>4. Cardinality(PIMsUpTo(i)) <= Cardinality(PIMsUpTo(n))
  BY <1>2, <1>3, FS_Subset
<1>5. Cardinality(PIMsUpTo(i)) # 0
  BY <1>2, <1>3, FS_EmptySet
<1>6. QED
  BY <1>3, <1>4, <1>5

(* The order holds on: the thread leaves an instruction behind, and its    *)
(* command, if it is one, is the last of the commands.                     *)
LEMMA OrderExtended ==
  ASSUME NEW cmds \in Seq(Commands), InProgramOrder(cmds), pc \in Nat \ {0}
  PROVE  /\ program[pc].op # "pim" =>
              /\ Len(cmds) = Cardinality(PIMsUpTo(pc))
              /\ \A i \in PIMsUpTo(pc) : cmds[Cardinality(PIMsUpTo(i))] = program[i].cmd
         /\ \A c \in Commands : program[pc].op = "pim" /\ program[pc].cmd = c =>
              /\ Len(Append(cmds, c)) = Cardinality(PIMsUpTo(pc))
              /\ \A i \in PIMsUpTo(pc) :
                   Append(cmds, c)[Cardinality(PIMsUpTo(i))] = program[i].cmd
<1> PICK n \in Nat : pc = n + 1
  <2>1. pc - 1 \in Nat /\ pc = (pc - 1) + 1
    OBVIOUS
  <2>2. QED
    BY <2>1
<1>1. /\ Len(cmds) = Cardinality(PIMsUpTo(n))
      /\ \A i \in PIMsUpTo(n) : cmds[Cardinality(PIMsUpTo(i))] = program[i].cmd
  BY DEF InProgramOrder
<1>2. CASE program[pc].op # "pim"
  BY <1>1, <1>2, PIMsNext
<1>3. ASSUME NEW c \in Commands, program[pc].op = "pim", program[pc].cmd = c
      PROVE  /\ Len(Append(cmds, c)) = Cardinality(PIMsUpTo(pc))
             /\ \A i \in PIMsUpTo(pc) :
                  Append(cmds, c)[Cardinality(PIMsUpTo(i))] = program[i].cmd
  <2>1. /\ PIMsUpTo(pc) = PIMsUpTo(n) \cup {pc}
        /\ Cardinality(PIMsUpTo(pc)) = Len(cmds) + 1
    BY <1>1, <1>3, PIMsNext
  <2>2. /\ Len(Append(cmds, c)) = Len(cmds) + 1
        /\ Append(cmds, c)[Len(cmds) + 1] = c
        /\ \A j \in 1 .. Len(cmds) : Append(cmds, c)[j] = cmds[j]
    OBVIOUS
  <2>3. \A i \in PIMsUpTo(n) : Cardinality(PIMsUpTo(i)) \in 1 .. Len(cmds)
    BY <1>1, PIMsMonotone
  <2>4. QED
    BY <1>1, <1>3, <2>1, <2>2, <2>3
<1>4. QED
  BY <1>2, <1>3

(* What a step of a calm processor does to the program counter and the     *)
(* commands: nothing, or the instruction at the program counter is left    *)
(* behind and its command is sent.                                         *)
Stays == pc' = pc /\ sent' = sent /\ issued' = issued

Leaves ==
  /\ pc \in 1 .. Len(program) /\ pc' = pc + 1
  /\ \/ /\ program[pc].op # "pim"
        /\ UNCHANGED <<sent, issued, pending, kernel>>
        /\ \A a \in Addrs : AtAccess(a) => ~StalledAddr(pending, a)
     \/ /\ program[pc].op = "pim" /\ program[pc].cmd \in Commands
        /\ sent' = Append(sent, program[pc].cmd)
        /\ issued' = Append(issued, program[pc].cmd)
        /\ pending' = Append(pending, program[pc].cmd)
        /\ kernel' = IF kernel = None THEN program[pc].cmd ELSE kernel

LEMMA ThreadStep ==
  ASSUME TInv, Calm, [Next]_vars, ~faulted'
  PROVE  /\ program' = program
         /\ \/ Stays /\ (UNCHANGED <<pending, kernel>> \/ CompleteCommand)
            \/ Leaves
<1> USE DEF pim
<1>1. TypeOK /\ CpuTypeOK
  BY TypeParts DEF TInv
<1>2. ASSUME NEW p \in DOMAIN fetches, CompleteIfetch(p)
      PROVE  program' = program /\ ((Stays /\ UNCHANGED <<pending, kernel>>) \/ Leaves)
  <2> DEFINE f == [fetches EXCEPT ![p] = fetches[p] - 1]
  <2>1. p = pc /\ pc \in 1 .. Len(program) /\ program' = program
    BY <1>1, <1>2, CalmIfetch, Ifetched
  <2>2. CASE /\ program[p].op = "pim" /\ program[p].cmd \in Commands
             /\ PIMCommand(program[p].cmd)
             /\ issued' = Append(issued, program[p].cmd)
             /\ AdvanceInst(f)
    <3>1. /\ pending' = Append(pending, program[p].cmd)
          /\ kernel' = IF kernel = None THEN program[p].cmd ELSE kernel
          /\ sent' = Append(sent, program[p].cmd)
      BY <2>2, CalmCommand DEF Calm
    <3>2. QED
      BY <2>1, <2>2, <3>1 DEF Leaves, AdvanceInst
  <2>3. CASE UNCHANGED <<pc, pim, issued>>
    BY <2>1, <2>3 DEF Stays
  <2>4. CASE /\ program[p].op = "other" /\ AdvanceInst(f)
             /\ UNCHANGED <<pim, issued>>
    BY <2>1, <2>4 DEF Leaves, AdvanceInst, AtAccess
  <2>5. QED
    BY <1>1, <1>2, <2>2, <2>3, <2>4, Ifetched
<1>3. ASSUME NEW a \in Addrs, CompleteDataAccess(a)
      PROVE  program' = program /\ Leaves
  <2>1. AtAccess(a) /\ ~StalledAddr(pending, a)
    BY <1>3, CalmDataAccess
  <2>2. pc \in 1 .. Len(program)
    BY <1>1, <2>1, LengthOK DEF CpuTypeOK, AtAccess, Ended
  <2>3. QED
    BY <1>3, <2>1, <2>2 DEF CompleteDataAccess, AdvanceInst, Leaves, AtAccess
<1>4. QED
  BY <1>2, <1>3, CalmAssertions
     DEF Next, Responses, Exit, FetchEvent, IcacheRetry, DcacheRetry, CompleteCommand, vars, Stays

LEMMA OrderStep == CInv /\ SentInOrder /\ [Next]_vars => SentInOrder'
<1> SUFFICES ASSUME CInv, SentInOrder, [Next]_vars, ~faulted'
             PROVE  InProgramOrder(sent)' /\ InProgramOrder(issued)'
  BY DEF SentInOrder
<1>1. TInv /\ ~faulted /\ Calm
  BY FaultedStep DEF CInv
<1>2. /\ InProgramOrder(sent) /\ InProgramOrder(issued)
      /\ sent \in Seq(Commands) /\ issued \in Seq(Commands)
      /\ program \in Programs /\ pc \in Nat \ {0}
  BY <1>1, LengthOK DEF SentInOrder, TInv, TypeOK
<1>3. program' = program /\ (Stays \/ Leaves)
  BY <1>1, ThreadStep
<1>4. CASE Stays
  BY <1>2, <1>3, <1>4 DEF Stays, InProgramOrder, PIMsUpTo
<1>5. CASE Leaves
  <2>1. pc' - 1 = pc
    BY <1>2, <1>5 DEF Leaves
  <2>2. \A i : PIMsUpTo(i)' = PIMsUpTo(i)
    BY <1>3 DEF PIMsUpTo
  <2>3. ASSUME /\ Len(sent') = Cardinality(PIMsUpTo(pc))
               /\ \A i \in PIMsUpTo(pc) : sent'[Cardinality(PIMsUpTo(i))] = program[i].cmd
        PROVE  InProgramOrder(sent)'
    BY <1>3, <2>1, <2>3 DEF InProgramOrder, PIMsUpTo
  <2>4. ASSUME /\ Len(issued') = Cardinality(PIMsUpTo(pc))
               /\ \A i \in PIMsUpTo(pc) : issued'[Cardinality(PIMsUpTo(i))] = program[i].cmd
        PROVE  InProgramOrder(issued)'
    BY <1>3, <2>1, <2>4 DEF InProgramOrder, PIMsUpTo
  <2>5. CASE program[pc].op # "pim" /\ UNCHANGED <<sent, issued>>
    <3>1. /\ Len(sent) = Cardinality(PIMsUpTo(pc))
          /\ \A i \in PIMsUpTo(pc) : sent[Cardinality(PIMsUpTo(i))] = program[i].cmd
      BY <1>2, <2>5, OrderExtended
    <3>2. /\ Len(issued) = Cardinality(PIMsUpTo(pc))
          /\ \A i \in PIMsUpTo(pc) : issued[Cardinality(PIMsUpTo(i))] = program[i].cmd
      BY <1>2, <2>5, OrderExtended
    <3>3. QED
      BY <2>3, <2>4, <2>5, <3>1, <3>2
  <2>6. ASSUME NEW c \in Commands, program[pc].op = "pim", program[pc].cmd = c,
               sent' = Append(sent, c), issued' = Append(issued, c)
        PROVE  InProgramOrder(sent)' /\ InProgramOrder(issued)'
    <3>1. /\ Len(Append(sent, c)) = Cardinality(PIMsUpTo(pc))
          /\ \A i \in PIMsUpTo(pc) :
               Append(sent, c)[Cardinality(PIMsUpTo(i))] = program[i].cmd
      BY <1>2, <2>6, OrderExtended
    <3>2. /\ Len(Append(issued, c)) = Cardinality(PIMsUpTo(pc))
          /\ \A i \in PIMsUpTo(pc) :
               Append(issued, c)[Cardinality(PIMsUpTo(i))] = program[i].cmd
      BY <1>2, <2>6, OrderExtended
    <3>3. QED
      BY <2>3, <2>4, <2>6, <3>1, <3>2
  <2>7. QED
    BY <1>5, <2>5, <2>6 DEF Leaves
<1>6. QED
  BY <1>3, <1>4, <1>5

(* Under the same condition the kernel receives the commands of the        *)
(* program in their order, each exactly once, however often the thread     *)
(* sleeps and executes its instruction again.                              *)
THEOREM InOrder == ~EarlyComplete => (Spec => []SentInOrder)
<1> SUFFICES ASSUME ~EarlyComplete PROVE Spec => []SentInOrder
  OBVIOUS
<1>1. Init => SentInOrder
  <2> SUFFICES ASSUME Init PROVE InProgramOrder(sent) /\ InProgramOrder(issued)
    BY DEF SentInOrder
  <2>1. PIMsUpTo(pc - 1) = {}
    BY DEF Init, PIMsUpTo
  <2>2. Len(sent) = 0 /\ Len(issued) = 0
    BY DEF Init
  <2>3. QED
    BY <2>1, <2>2, FS_EmptySet DEF InProgramOrder
<1>2. CInv /\ SentInOrder /\ [Next]_vars => SentInOrder'
  BY OrderStep
<1>3. QED
  BY <1>1, <1>2, CalmInvariance, PTL DEF Spec

-----------------------------------------------------------------------------
LEMMA OnlyEntry == ASSUME NEW c PROVE Complete(<<c>>, c) = << >>
<1> DEFINE k == FirstMatch(<<c>>, c)
<1>1. Len(<<c>>) = 1 /\ <<c>>[1] = c
  OBVIOUS
<1>2. \E j \in 1 .. Len(<<c>>) : /\ SameCommand(<<c>>[j], c)
                                 /\ \A i \in 1 .. j - 1 : ~SameCommand(<<c>>[i], c)
  <2>1. SameCommand(<<c>>[1], c)
    BY <1>1 DEF SameCommand
  <2>2. QED
    BY <1>1, <2>1
<1>3. k \in 1 .. Len(<<c>>)
  BY <1>2 DEF FirstMatch
<1>4. k = 1
  BY <1>1, <1>3
<1>5. Complete(<<c>>, c) = SubSeq(<<c>>, 1, 1 - 1) \o SubSeq(<<c>>, 1 + 1, Len(<<c>>))
  BY <1>4 DEF Complete
<1>6. QED
  BY <1>1, <1>5

(* An access that the table lets pass touches no register of the kernel's  *)
(* command.                                                                *)
LEMMA PassedUntouched ==
  ASSUME pending = <<kernel>>, NEW a, ~StalledAddr(pending, a), NEW r \in Regs
  PROVE  kernel[r] # a
<1>1. Len(pending) = 1 /\ pending[1] = kernel
  OBVIOUS
<1>2. Granule(kernel[r]) # Granule(a)
  BY <1>1 DEF StalledAddr
<1>3. QED
  BY <1>2

(* The instruction of the kernel's command, which nothing after it has     *)
(* touched.                                                                *)
Issuer(i) ==
  /\ i \in 1 .. pc - 1
  /\ program[i].op = "pim" /\ program[i].cmd = kernel
  /\ \A k \in i + 1 .. pc - 1 : ~Touches(program[k], kernel)

LEMMA OneCommandLeaves ==
  ASSUME TInv, Waits(program), OneCommand, program' = program, Leaves
  PROVE  OneCommand'
<1>1. /\ pc \in Nat \ {0} /\ Len(program) \in Nat /\ program \in Programs
      /\ pc \in 1 .. Len(program) /\ pc' = pc + 1
  BY LengthOK DEF TInv, TypeOK, Leaves
<1>2. CASE /\ program[pc].op # "pim"
           /\ UNCHANGED <<pending, kernel>>
           /\ \A a \in Addrs : AtAccess(a) => ~StalledAddr(pending, a)
  <2>1. CASE kernel = None
    BY <1>2, <2>1 DEF OneCommand
  <2>2. CASE kernel # None
    <3>1. PICK i \in 1 .. pc - 1 : Issuer(i)
      BY <2>2 DEF OneCommand, Issuer
    <3>2. pending = <<kernel>>
      BY <2>2 DEF OneCommand
    <3>3. ~Touches(program[pc], kernel)
      <4> SUFFICES ASSUME program[pc].op = "mem", NEW r \in Regs, kernel[r] = program[pc].addr
                   PROVE  FALSE
        BY DEF Touches
      <4>1. PICK a \in Addrs : a = program[pc].addr
        BY <1>1, Instruction
      <4>2. AtAccess(a)
        BY <1>1, <4>1 DEF AtAccess, Ended
      <4>3. QED
        BY <1>2, <3>2, <4>1, <4>2, PassedUntouched
    <3>4. \A k \in i + 1 .. pc : ~Touches(program[k], kernel)
      <4> TAKE k \in i + 1 .. pc
      <4>1. k = pc \/ k \in i + 1 .. pc - 1
        BY <1>1
      <4>2. QED
        BY <3>1, <3>3, <4>1 DEF Issuer
    <3>5. /\ i \in 1 .. pc' - 1
          /\ program'[i].op = "pim" /\ program'[i].cmd = kernel'
          /\ \A k \in i + 1 .. pc' - 1 : ~Touches(program'[k], kernel')
      <4>1. pc' - 1 = pc /\ kernel' = kernel
        BY <1>1, <1>2
      <4>2. QED
        BY <1>1, <3>1, <3>4, <4>1 DEF Issuer
    <3>6. QED
      BY <1>2, <2>2, <3>2, <3>5 DEF OneCommand, Touches
  <2>3. QED
    BY <2>1, <2>2
<1>3. CASE /\ program[pc].op = "pim" /\ program[pc].cmd \in Commands
           /\ pending' = Append(pending, program[pc].cmd)
           /\ kernel' = IF kernel = None THEN program[pc].cmd ELSE kernel
  <2>1. kernel = None
    <3> SUFFICES ASSUME kernel # None PROVE FALSE
      OBVIOUS
    <3>1. PICK i \in 1 .. pc - 1 : Issuer(i)
      BY DEF OneCommand, Issuer
    <3>2. i \in DOMAIN program /\ pc \in DOMAIN program /\ i < pc
      BY <1>1, <3>1, HostAssumption
    <3>3. PICK k \in i .. pc : /\ program[k].op = "mem"
                               /\ \E r \in Regs : program[i].cmd[r] = program[k].addr
      BY <1>3, <3>1, <3>2 DEF Waits, Issuer
    <3>4. k \in i + 1 .. pc - 1
      BY <1>1, <1>3, <3>1, <3>3 DEF Issuer
    <3>5. QED
      BY <3>1, <3>3, <3>4 DEF Issuer, Touches
  <2>2. PICK c \in Commands : c = program[pc].cmd
    BY <1>3
  <2>3. pending = << >> /\ c # None
    BY <2>1, <2>2, HostAssumption DEF OneCommand
  <2>4. kernel' = c /\ pending' = <<c>>
    BY <1>3, <2>1, <2>2, <2>3
  <2>5. /\ pc \in 1 .. pc' - 1
        /\ program'[pc].op = "pim" /\ program'[pc].cmd = kernel'
        /\ \A k \in pc + 1 .. pc' - 1 : ~Touches(program'[k], kernel')
    BY <1>1, <1>3, <2>2, <2>4
  <2>6. \E i \in 1 .. pc' - 1 :
          /\ program'[i].op = "pim" /\ program'[i].cmd = kernel'
          /\ \A k \in i + 1 .. pc' - 1 : ~Touches(program'[k], kernel')
    BY <2>5
  <2>7. QED
    BY <2>3, <2>4, <2>6 DEF OneCommand, Touches
<1>4. QED
  BY <1>2, <1>3 DEF Leaves

LEMMA WaitStep ==
  (\A p \in Programs : Waits(p)) /\ ~EarlyComplete /\ WInv /\ [Next]_vars => WInv'
<1> SUFFICES ASSUME \A p \in Programs : Waits(p), ~EarlyComplete, WInv, [Next]_vars
             PROVE  WInv'
  OBVIOUS
<1>1. CInv /\ CInv'
  BY CalmStep DEF WInv
<1>2. SUFFICES ASSUME ~faulted' PROVE OneCommand'
  BY <1>1 DEF WInv
<1>3. TInv /\ ~faulted /\ Calm /\ OneCommand
  BY <1>1, <1>2, FaultedStep DEF CInv, WInv
<1>4. Waits(program)
  BY <1>3 DEF TInv, TypeOK
<1>5. /\ program' = program
      /\ \/ Stays /\ (UNCHANGED <<pending, kernel>> \/ CompleteCommand)
         \/ Leaves
  BY <1>2, <1>3, ThreadStep
<1>6. CASE Stays /\ UNCHANGED <<pending, kernel>>
  BY <1>3, <1>5, <1>6 DEF Stays, OneCommand, Touches
<1>7. CASE CompleteCommand
  <2>1. kernel # None /\ kernel' = None /\ pending' = Complete(pending, kernel)
    BY <1>7 DEF CompleteCommand
  <2>2. pending' = << >>
    BY <1>3, <2>1, OnlyEntry DEF OneCommand
  <2>3. QED
    BY <2>1, <2>2 DEF OneCommand
<1>8. CASE Leaves
  BY <1>3, <1>4, <1>5, <1>8, OneCommandLeaves
<1>9. QED
  BY <1>5, <1>6, <1>7, <1>8

(* When the programs touch an address of each command before they issue    *)
(* the next one, the processor sleeps only on the command that the kernel  *)
(* is working on, whose completion wakes it.                               *)
THEOREM SleepsForAReason ==
  (\A p \in Programs : Waits(p)) /\ ~EarlyComplete => (Spec => []SleepHasReason)
<1> SUFFICES ASSUME \A p \in Programs : Waits(p), ~EarlyComplete
             PROVE  Spec => []SleepHasReason
  OBVIOUS
<1>1. Init => WInv
  BY InitCalm DEF Init, WInv, OneCommand
<1>2. WInv /\ [Next]_vars => WInv'
  BY WaitStep
<1>3. WInv => SleepHasReason
  <2> SUFFICES ASSUME WInv, ~faulted, status = "Idle"
               PROVE  /\ kernel # None
                      /\ ~Ended
                      /\ program[pc].op = "mem"
                      /\ StalledAddr(<<kernel>>, program[pc].addr)
    BY DEF SleepHasReason
  <2>1. OneCommand
    BY DEF WInv
  <2>2. PICK a \in Addrs : AtAccess(a) /\ StalledAddr(pending, a)
    BY DEF WInv, CInv, Calm, Sleeping
  <2>3. pending # << >>
    BY <2>2 DEF StalledAddr
  <2>4. kernel # None /\ pending = <<kernel>>
    BY <2>1, <2>3 DEF OneCommand
  <2>5. QED
    BY <2>2, <2>4 DEF AtAccess
<1>4. QED
  BY <1>1, <1>2, <1>3, PTL DEF Spec
==============================================================================
