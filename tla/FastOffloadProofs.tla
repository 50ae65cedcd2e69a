-------------------------- MODULE FastOffloadProofs --------------------------
(***************************************************************************)
(* Proofs about FastOffload for every number of processors, every memory   *)
(* and page size, every set of functions and every length of the queues.   *)
(*                                                                         *)
(* The parts of the inductive invariant are operators of what they are     *)
(* about: f, ld and st are the function of the unit and the states of its  *)
(* load stages and of its store stage, w is pimWait, q is Path (or another *)
(* sequence of requests) and L the set of locked pages.                    *)
(***************************************************************************)
EXTENDS FastOffload, FastRequestsProofs

(* The address that stage s works on. *)
AddrOf(f, s) == CASE s = 0 -> f.in1 [] s = 1 -> f.in2 [] OTHER -> f.out

Outs(ld, st) ==
  {s \in LoadStages : ld[s] = "Outstanding"} \cup
  (IF st = "Outstanding" THEN {StoreStage} ELSE {})

(* One kind of stage is at work at a time. *)
OneKind(ld, st) == st # "NoOP" => \A s \in LoadStages : ld[s] = "Empty"

(* A PIM request on its way is that of a stage that waits, for the address *)
(* this stage works on.                                                    *)
PimGood(f, ld, st, q) ==
  \A k \in 1 .. Len(q) : q[k].pim =>
    /\ q[k].stage \in Outs(ld, st)
    /\ resize(q[k].addr) = resize(AddrOf(f, q[k].stage))

(* No two of them are for the same stage. *)
Apart(q) ==
  \A j, k \in 1 .. Len(q) : q[j].pim /\ q[k].pim /\ q[j].stage = q[k].stage => j = k

ApartFrom(w, q) ==
  \A j \in 1 .. Len(w), k \in 1 .. Len(q) : w[j].pim /\ q[k].pim => w[j].stage # q[k].stage

(* The memory works with resized addresses. *)
Resized(q) == \A k \in 1 .. Len(q) : resize(q[k].addr) = q[k].addr

(* The unit holds pages of its function only, and the pages of the PIM     *)
(* requests that the memory has or will fetch, which no host request       *)
(* follows to their pages.                                                 *)
TwoPages(f) == f # NoFunction /\ LockPage(f.in1) # LockPage(f.in2)

Owned(f, L) == IF f = NoFunction THEN L = {} ELSE L \subseteq OperandPages(f)

Held(f, q, L) ==
  TwoPages(f) => \A k \in 1 .. Len(q) : q[k].pim => LockPage(q[k].addr) \in L

Unfollowed(f, q) ==
  TwoPages(f) => \A i, j \in 1 .. Len(q) :
    i < j /\ q[i].pim /\ ~q[j].pim => LockPage(q[i].addr) # LockPage(q[j].addr)

Carried(f, ld, st, w, q, L) ==
  /\ OneKind(ld, st)
  /\ PimGood(f, ld, st, w) /\ PimGood(f, ld, st, q)
  /\ Apart(w) /\ Apart(q) /\ ApartFrom(w, q)
  /\ Resized(q) /\ Held(f, q, L) /\ Unfollowed(f, q)

(* No request of a waiting stage is missing. *)
Names(q, s) == \E k \in 1 .. Len(q) : q[k].pim /\ q[k].stage = s

Present(f, ld, st, w, q) ==
  f # NoFunction /\ ~SameOperand(f) =>
    \A s \in Outs(ld, st) : Names(w, s) \/ Names(q, s)

Wires(f, ld, st, w, q, L) ==
  Carried(f, ld, st, w, q, L) /\ Present(f, ld, st, w, q) /\ Owned(f, L)

(* A unit without a function is idle, and the computation is between the   *)
(* loads and the store.                                                    *)
UnitOK ==
  /\ unit.curr = NoFunction => unit = IdleUnit
  /\ unit.computed => unit.store = "NoOP" /\ \A s \in LoadStages : unit.load[s] = "Empty"

(* The order of the parts: what the memory fetched is gone until the       *)
(* controllers have stepped again.                                         *)
Order ==
  /\ At("mctrl") => send = << >> /\ pimSend = << >>
  /\ At("pimctrl") => pimSend = << >>

(* The DRAM has refused a transaction only when it was full. *)
Refused ==
  /\ mem.trans # << >> => Len(mem.dram) >= DramDepth - 1
  /\ At("stopped") => AllDone

(* The inductive invariant. *)
IInv ==
  /\ TypeOK /\ Order /\ UnitOK /\ Refused
  /\ Wires(unit.curr, unit.load, unit.store, pimWait, Path, locked)

-----------------------------------------------------------------------------
(* Addresses and pages. *)
LEMMA Resizing ==
  ASSUME NEW a \in Addr
  PROVE  resize(a) \in Addr /\ resize(resize(a)) = resize(a)
<1>1. a \in Nat /\ MaxAddr \in Nat /\ RamSize \in Nat \ {0} /\ a <= MaxAddr
  BY FastRequestsAssumption DEF Addr
<1>2. a % RamSize \in Nat /\ a % RamSize <= a /\ a % RamSize < RamSize
  BY <1>1
<1>3. \A b \in Nat : b < RamSize => b % RamSize = b
  BY <1>1
<1>4. QED
  BY <1>1, <1>2, <1>3 DEF resize, Addr

LEMMA Paging ==
  ASSUME NEW a \in Addr
  PROVE  /\ LockPage(a) \in Pages
         /\ \A b : resize(b) = resize(a) => LockPage(b) = LockPage(a)
BY DEF LockPage, Pages

-----------------------------------------------------------------------------
(* The requests on their way, as the memory and the controllers change     *)
(* their sequence.                                                         *)

LEMMA Fields ==
  ASSUME NEW r \in Request
  PROVE  /\ r.pim \in BOOLEAN /\ r.addr \in Addr /\ r.stage \in LoadStages \cup {StoreStage}
         /\ r.pim => r \in PimRequest
         /\ ~r.pim => r \in HostRequest
BY DEF Request, HostRequest, PimRequest, LoadStages

(* What is left of the requests in their order is carried as before. *)
LEMMA CarriedReduces ==
  ASSUME NEW f, NEW ld, NEW st, NEW L, NEW w \in Seq(PimRequest),
         NEW q \in Seq(Request), NEW u \in Seq(Request),
         Carried(f, ld, st, w, q, L), Reduces(q, u)
  PROVE  Carried(f, ld, st, w, u, L)
<1>1. PICK m \in [1 .. Len(u) -> 1 .. Len(q)] :
        /\ \A k \in 1 .. Len(u) : Alike(u[k], q[m[k]])
        /\ \A j, k \in 1 .. Len(u) : j < k => m[j] < m[k]
  BY DEF Reduces
<1>2. \A k \in 1 .. Len(u) : /\ m[k] \in 1 .. Len(q) /\ u[k].addr = q[m[k]].addr
                             /\ u[k].pim = q[m[k]].pim /\ u[k].stage = q[m[k]].stage
  BY <1>1 DEF Alike
<1>3. \A j, k \in 1 .. Len(u) : m[j] = m[k] => j = k
  <2> SUFFICES ASSUME NEW j \in 1 .. Len(u), NEW k \in 1 .. Len(u), m[j] = m[k] PROVE j = k
    OBVIOUS
  <2>1. ~(j < k) /\ ~(k < j)
    BY <1>1, <1>2
  <2>2. QED
    BY <2>1
<1>4. PimGood(f, ld, st, u)
  BY <1>2 DEF Carried, PimGood
<1>5. Apart(u)
  <2> SUFFICES ASSUME NEW j \in 1 .. Len(u), NEW k \in 1 .. Len(u),
                      u[j].pim, u[k].pim, u[j].stage = u[k].stage
               PROVE  j = k
    BY DEF Apart
  <2>1. /\ m[j] \in 1 .. Len(q) /\ m[k] \in 1 .. Len(q)
        /\ q[m[j]].pim /\ q[m[k]].pim /\ q[m[j]].stage = q[m[k]].stage
    BY <1>2
  <2>2. m[j] = m[k]
    BY <2>1 DEF Carried, Apart
  <2>3. QED
    BY <1>3, <2>2
<1>6. ApartFrom(w, u)
  BY <1>2 DEF Carried, ApartFrom
<1>7. Resized(u)
  BY <1>2 DEF Carried, Resized
<1>8. Held(f, u, L)
  BY <1>2 DEF Carried, Held
<1>9. Unfollowed(f, u)
  <2> SUFFICES ASSUME TwoPages(f), NEW i \in 1 .. Len(u), NEW j \in 1 .. Len(u),
                      i < j, u[i].pim, ~u[j].pim
               PROVE  LockPage(u[i].addr) # LockPage(u[j].addr)
    BY DEF Unfollowed
  <2>1. m[i] \in 1 .. Len(q) /\ m[j] \in 1 .. Len(q) /\ m[i] < m[j]
    BY <1>1, <1>2
  <2>2. q[m[i]].pim /\ ~q[m[j]].pim /\ u[i].addr = q[m[i]].addr /\ u[j].addr = q[m[j]].addr
    BY <1>2
  <2>3. QED
    BY <2>1, <2>2 DEF Carried, Unfollowed
<1>10. QED
  BY <1>4, <1>5, <1>6, <1>7, <1>8, <1>9 DEF Carried

(* The stages that may wait at the same time are the two loads. *)
LEMMA TwoWait ==
  ASSUME NEW ld \in [LoadStages -> LoadStates], NEW st \in StoreStates, OneKind(ld, st),
         NEW s \in Outs(ld, st), NEW t \in Outs(ld, st), s # t
  PROVE  {s, t} = LoadStages
<1>1. s \in LoadStages /\ t \in LoadStages
  BY DEF OneKind, Outs, LoadStages, StoreStage
<1>2. QED
  BY <1>1 DEF LoadStages

(* So the PIM requests have different addresses. *)
LEMMA AddressesDiffer ==
  ASSUME NEW f \in Functions, NEW L, NEW w, NEW q \in Seq(Request),
         NEW ld \in [LoadStages -> LoadStates], NEW st \in StoreStates,
         Carried(f, ld, st, w, q, L), ~SameOperand(f)
  PROVE  PimsApart(q)
<1> SUFFICES ASSUME NEW j \in 1 .. Len(q), NEW k \in 1 .. Len(q),
                    q[j].pim, q[k].pim, q[j].addr = q[k].addr, j # k
             PROVE  FALSE
  BY DEF PimsApart
<1>1. /\ q[j].stage \in Outs(ld, st) /\ q[k].stage \in Outs(ld, st)
      /\ q[j].stage # q[k].stage
      /\ resize(AddrOf(f, q[j].stage)) = resize(AddrOf(f, q[k].stage))
  BY DEF Carried, PimGood, Apart
<1>2. {q[j].stage, q[k].stage} = LoadStages
  BY <1>1, TwoWait DEF Carried
<1>3. resize(AddrOf(f, 0)) = resize(AddrOf(f, 1))
  BY <1>1, <1>2 DEF LoadStages
<1>4. QED
  BY <1>3 DEF AddrOf, SameOperand

(* Merging. *)
LEMMA WiresMerged ==
  ASSUME NEW f \in Functions \cup {NoFunction}, NEW L,
         NEW w \in Seq(PimRequest), NEW q \in Seq(Request), NEW u \in Seq(Request),
         NEW ld \in [LoadStages -> LoadStates], NEW st \in StoreStates,
         Wires(f, ld, st, w, q, L), Reduces(q, u), KeepsPims(q, u)
  PROVE  Wires(f, ld, st, w, u, L)
<1>1. Carried(f, ld, st, w, u, L)
  BY CarriedReduces DEF Wires
<1>2. Present(f, ld, st, w, u)
  <2> SUFFICES ASSUME f # NoFunction, ~SameOperand(f), NEW s \in Outs(ld, st)
               PROVE  Names(w, s) \/ Names(u, s)
    BY DEF Present
  <2>1. PimsApart(q)
    BY AddressesDiffer DEF Wires
  <2>2. Names(w, s) \/ Names(q, s)
    BY DEF Wires, Present
  <2>3. ASSUME Names(q, s) PROVE Names(u, s)
    BY <2>1, <2>3 DEF Names, KeepsPims
  <2>4. QED
    BY <2>2, <2>3
<1>3. QED
  BY <1>1, <1>2 DEF Wires

LEMMA RemovedRequest ==
  ASSUME NEW q \in Seq(Request), NEW k \in 1 .. Len(q)
  PROVE  /\ RemoveAt(q, k) \in Seq(Request) /\ Len(RemoveAt(q, k)) = Len(q) - 1
         /\ Len(q) \in Nat
         /\ \A n \in 1 .. Len(q) - 1 : RemoveAt(q, k)[n] = IF n < k THEN q[n] ELSE q[n + 1]
         /\ Reduces(q, RemoveAt(q, k))
<1>1. Reduces(q, RemoveAt(q, k))
  BY RemovedReduces DEF Alike
<1>2. QED
  BY <1>1, Removed

(* Stage s is answered. *)
LoadAfter(ld, s)  == IF s = StoreStage THEN ld ELSE [ld EXCEPT ![s] = "Complete"]
StoreAfter(st, s) == IF s = StoreStage THEN "Complete" ELSE st

LEMMA AnsweredStage ==
  ASSUME NEW ld \in [LoadStages -> LoadStates], NEW st \in StoreStates, OneKind(ld, st),
         NEW s \in Outs(ld, st)
  PROVE  /\ LoadAfter(ld, s) \in [LoadStages -> LoadStates] /\ StoreAfter(st, s) \in StoreStates
         /\ OneKind(LoadAfter(ld, s), StoreAfter(st, s))
         /\ Outs(LoadAfter(ld, s), StoreAfter(st, s)) = Outs(ld, st) \ {s}
<1>1. CASE s = StoreStage
  <2>1. st = "Outstanding"
    BY <1>1 DEF Outs, LoadStages, StoreStage
  <2>2. QED
    BY <1>1, <2>1 DEF LoadAfter, StoreAfter, OneKind, Outs, LoadStages, StoreStage, StoreStates
<1>2. CASE s # StoreStage
  <2>1. s \in LoadStages /\ ld[s] = "Outstanding"
    BY <1>2 DEF Outs, LoadStages, StoreStage
  <2>2. st = "NoOP"
    BY <2>1 DEF OneKind
  <2>3. LoadAfter(ld, s) = [ld EXCEPT ![s] = "Complete"] /\ StoreAfter(st, s) = "NoOP"
    BY <1>2, <2>2 DEF LoadAfter, StoreAfter
  <2>4. \A t \in LoadStages :
          [ld EXCEPT ![s] = "Complete"][t] = IF t = s THEN "Complete" ELSE ld[t]
    BY <2>1
  <2>5. [ld EXCEPT ![s] = "Complete"] \in [LoadStages -> LoadStates]
    BY <2>1 DEF LoadStates
  <2> DEFINE l == [ld EXCEPT ![s] = "Complete"]
  <2>6. Outs(l, "NoOP") = Outs(ld, st) \ {s}
    <3>1. \A t \in LoadStages : l[t] = IF t = s THEN "Complete" ELSE ld[t]
      BY <2>4
    <3> HIDE DEF l
    <3>2. QED
      BY <2>2, <3>1 DEF Outs
  <2>7. QED
    BY <2>2, <2>3, <2>5, <2>6 DEF OneKind, StoreStates
<1>3. QED
  BY <1>1, <1>2

(* A PIM request is answered. *)
LEMMA WiresAnswered ==
  ASSUME NEW f \in Functions \cup {NoFunction}, NEW L,
         NEW w \in Seq(PimRequest), NEW q \in Seq(Request),
         NEW ld \in [LoadStages -> LoadStates], NEW st \in StoreStates,
         Wires(f, ld, st, w, q, L), NEW k \in 1 .. Len(q), q[k].pim
  PROVE  Wires(f, LoadAfter(ld, q[k].stage), StoreAfter(st, q[k].stage), w, RemoveAt(q, k), L)
<1> DEFINE s == q[k].stage
           u == RemoveAt(q, k)
           l == LoadAfter(ld, s)
           x == StoreAfter(st, s)
<1>1. s \in Outs(ld, st)
  BY DEF Wires, Carried, PimGood
<1>2. OneKind(l, x) /\ Outs(l, x) = Outs(ld, st) \ {s}
  BY <1>1, AnsweredStage DEF Wires, Carried
<1>3. /\ u \in Seq(Request) /\ Len(u) = Len(q) - 1 /\ Len(q) \in Nat
      /\ \A n \in 1 .. Len(q) - 1 : u[n] = IF n < k THEN q[n] ELSE q[n + 1]
  BY RemovedRequest
<1>4. Reduces(q, u)
  BY RemovedRequest
<1> HIDE DEF l, x, u
<1>5. Carried(f, ld, st, w, u, L)
  BY <1>3, <1>4, CarriedReduces DEF Wires
<1>6. \A n \in 1 .. Len(u) : u[n].pim => u[n].stage # s
  <2> SUFFICES ASSUME NEW n \in 1 .. Len(u), u[n].pim, u[n].stage = s PROVE FALSE
    OBVIOUS
  <2>1. PICK i \in 1 .. Len(q) : u[n] = q[i] /\ i # k
    <3>1. CASE n < k
      BY <1>3, <3>1
    <3>2. CASE ~(n < k)
      <4>1. n + 1 \in 1 .. Len(q) /\ n + 1 # k /\ u[n] = q[n + 1]
        BY <1>3, <3>2
      <4>2. QED
        BY <4>1
    <3>3. QED
      BY <3>1, <3>2
  <2>2. QED
    BY <2>1 DEF Wires, Carried, Apart
<1>7. \A n \in 1 .. Len(w) : w[n].pim => w[n].stage # s
  BY DEF Wires, Carried, ApartFrom
<1>8. PimGood(f, l, x, u) /\ PimGood(f, l, x, w)
  <2>1. PimGood(f, ld, st, u) /\ PimGood(f, ld, st, w)
    BY <1>5 DEF Carried
  <2>2. QED
    BY <1>2, <1>6, <1>7, <2>1 DEF PimGood
<1>9. Carried(f, l, x, w, u, L)
  BY <1>2, <1>5, <1>8 DEF Carried
<1>10. Present(f, l, x, w, u)
  <2> SUFFICES ASSUME f # NoFunction, ~SameOperand(f), NEW t \in Outs(l, x)
               PROVE  Names(w, t) \/ Names(u, t)
    BY DEF Present
  <2>1. t \in Outs(ld, st) /\ t # s
    BY <1>2
  <2>2. Names(w, t) \/ Names(q, t)
    BY <2>1 DEF Wires, Present
  <2>3. ASSUME Names(q, t) PROVE Names(u, t)
    <3>1. PICK i \in 1 .. Len(q) : q[i].pim /\ q[i].stage = t
      BY <2>3 DEF Names
    <3>2. i # k
      BY <2>1, <3>1
    <3>3. CASE i < k
      <4>1. i \in 1 .. Len(u) /\ u[i] = q[i]
        BY <1>3, <3>3
      <4>2. QED
        BY <3>1, <4>1 DEF Names
    <3>4. CASE i > k
      <4>1. i - 1 \in 1 .. Len(u) /\ u[i - 1] = q[i]
        BY <1>3, <3>4
      <4>2. QED
        BY <3>1, <4>1 DEF Names
    <3>5. QED
      BY <3>2, <3>3, <3>4
  <2>4. QED
    BY <2>2, <2>3
<1>11. Wires(f, l, x, w, u, L)
  BY <1>9, <1>10 DEF Wires
<1>12. QED
  BY <1>11 DEF l, x, u

(* A host request is answered. *)
LEMMA WiresHostAnswered ==
  ASSUME NEW f \in Functions \cup {NoFunction}, NEW L,
         NEW w \in Seq(PimRequest), NEW q \in Seq(Request),
         NEW ld \in [LoadStages -> LoadStates], NEW st \in StoreStates,
         Wires(f, ld, st, w, q, L), NEW k \in 1 .. Len(q), ~q[k].pim
  PROVE  Wires(f, ld, st, w, RemoveAt(q, k), L)
<1> DEFINE u == RemoveAt(q, k)
<1>1. /\ u \in Seq(Request) /\ Len(u) = Len(q) - 1 /\ Len(q) \in Nat
      /\ \A n \in 1 .. Len(q) - 1 : u[n] = IF n < k THEN q[n] ELSE q[n + 1]
  BY RemovedRequest
<1>2. Reduces(q, u)
  BY RemovedRequest
<1> HIDE DEF u
<1>3. KeepsPims(q, u)
  <2> SUFFICES ASSUME NEW i \in 1 .. Len(q), q[i].pim
               PROVE  \E n \in 1 .. Len(u) : u[n].pim /\ u[n].stage = q[i].stage
    BY DEF KeepsPims
  <2>1. CASE i < k
    <3>1. i \in 1 .. Len(u) /\ u[i] = q[i]
      BY <1>1, <2>1
    <3>2. QED
      BY <3>1
  <2>2. CASE i > k
    <3>1. i - 1 \in 1 .. Len(u) /\ u[i - 1] = q[i]
      BY <1>1, <2>2
    <3>2. QED
      BY <3>1
  <2>3. QED
    BY <2>1, <2>2
<1>4. Wires(f, ld, st, w, u, L)
  BY <1>1, <1>2, <1>3, WiresMerged
<1>5. QED
  BY <1>4 DEF u

(* Requests that join at the end. *)
LEMMA JoinedRequests ==
  ASSUME NEW q \in Seq(Request), NEW h \in Seq(Request)
  PROVE  /\ q \o h \in Seq(Request) /\ Len(q \o h) = Len(q) + Len(h)
         /\ Len(q) \in Nat /\ Len(h) \in Nat
         /\ \A k \in 1 .. Len(q) : k \in 1 .. Len(q \o h) /\ (q \o h)[k] = q[k]
         /\ \A k \in 1 .. Len(h) :
              Len(q) + k \in 1 .. Len(q \o h) /\ (q \o h)[Len(q) + k] = h[k]
         /\ \A k \in 1 .. Len(q \o h) :
              \/ k \in 1 .. Len(q) /\ (q \o h)[k] = q[k]
              \/ k > Len(q) /\ k - Len(q) \in 1 .. Len(h) /\ (q \o h)[k] = h[k - Len(q)]
<1>1. /\ q \o h \in Seq(Request) /\ Len(q \o h) = Len(q) + Len(h)
      /\ Len(q) \in Nat /\ Len(h) \in Nat
      /\ \A k \in 1 .. Len(q) + Len(h) :
           (q \o h)[k] = IF k <= Len(q) THEN q[k] ELSE h[k - Len(q)]
  BY Joined
<1>2. \A k \in 1 .. Len(q) : k \in 1 .. Len(q \o h) /\ (q \o h)[k] = q[k]
  BY <1>1
<1>3. \A k \in 1 .. Len(h) :
        Len(q) + k \in 1 .. Len(q \o h) /\ (q \o h)[Len(q) + k] = h[k]
  BY <1>1
<1>4. ASSUME NEW k \in 1 .. Len(q \o h)
      PROVE  \/ k \in 1 .. Len(q) /\ (q \o h)[k] = q[k]
             \/ k > Len(q) /\ k - Len(q) \in 1 .. Len(h) /\ (q \o h)[k] = h[k - Len(q)]
  BY <1>1
<1>5. QED
  BY <1>1, <1>2, <1>3, <1>4

LEMMA Subtypes ==
  /\ \A q \in Seq(HostRequest) : q \in Seq(Request) /\ \A k \in 1 .. Len(q) : ~q[k].pim
  /\ \A q \in Seq(PimRequest) : q \in Seq(Request) /\ \A k \in 1 .. Len(q) : q[k].pim
<1>1. ASSUME NEW q \in Seq(HostRequest)
      PROVE  q \in Seq(Request) /\ \A k \in 1 .. Len(q) : ~q[k].pim
  <2>1. \A k \in 1 .. Len(q) : q[k] \in HostRequest
    OBVIOUS
  <2>2. \A r \in HostRequest : r \in Request /\ ~r.pim
    BY DEF HostRequest, Request
  <2>3. QED
    BY <2>1, <2>2
<1>2. ASSUME NEW q \in Seq(PimRequest)
      PROVE  q \in Seq(Request) /\ \A k \in 1 .. Len(q) : q[k].pim
  <2>1. \A k \in 1 .. Len(q) : q[k] \in PimRequest
    OBVIOUS
  <2>2. \A r \in PimRequest : r \in Request /\ r.pim
    BY DEF PimRequest, Request
  <2>3. QED
    BY <2>1, <2>2
<1>3. QED
  BY <1>1, <1>2

(* Host requests to unlocked pages. *)
LEMMA WiresHosts ==
  ASSUME NEW f \in Functions \cup {NoFunction}, NEW L,
         NEW w \in Seq(PimRequest), NEW q \in Seq(Request), NEW h \in Seq(HostRequest),
         NEW ld, NEW st,
         Wires(f, ld, st, w, q, L), Resized(h),
         \A k \in 1 .. Len(h) : LockPage(h[k].addr) \notin L
  PROVE  Wires(f, ld, st, w, q \o h, L)
<1> DEFINE u == q \o h
<1>1. h \in Seq(Request) /\ \A k \in 1 .. Len(h) : ~h[k].pim
  BY Subtypes
<1>2. /\ Len(u) = Len(q) + Len(h) /\ Len(q) \in Nat /\ Len(h) \in Nat
      /\ \A k \in 1 .. Len(q) : k \in 1 .. Len(u) /\ u[k] = q[k]
      /\ \A k \in 1 .. Len(u) :
           \/ k \in 1 .. Len(q) /\ u[k] = q[k]
           \/ k > Len(q) /\ k - Len(q) \in 1 .. Len(h) /\ u[k] = h[k - Len(q)]
  BY <1>1, JoinedRequests
<1> HIDE DEF u
<1>3. \A k \in 1 .. Len(u) : u[k].pim => k \in 1 .. Len(q) /\ u[k] = q[k]
  BY <1>1, <1>2
<1>4. PimGood(f, ld, st, u)
  BY <1>3 DEF Wires, Carried, PimGood
<1>5. Apart(u)
  BY <1>3 DEF Wires, Carried, Apart
<1>6. ApartFrom(w, u)
  BY <1>3 DEF Wires, Carried, ApartFrom
<1>7. Resized(u)
  <2>1. Resized(q)
    BY DEF Wires, Carried
  <2>2. QED
    BY <1>2, <2>1 DEF Resized
<1>8. Held(f, u, L)
  BY <1>3 DEF Wires, Carried, Held
<1>9. Unfollowed(f, u)
  <2> SUFFICES ASSUME TwoPages(f), NEW i \in 1 .. Len(u), NEW j \in 1 .. Len(u),
                      i < j, u[i].pim, ~u[j].pim
               PROVE  LockPage(u[i].addr) # LockPage(u[j].addr)
    BY DEF Unfollowed
  <2>1. i \in 1 .. Len(q) /\ u[i] = q[i]
    BY <1>3
  <2>2. CASE j \in 1 .. Len(q) /\ u[j] = q[j]
    BY <2>1, <2>2 DEF Wires, Carried, Unfollowed
  <2>3. CASE j - Len(q) \in 1 .. Len(h) /\ u[j] = h[j - Len(q)]
    <3>1. LockPage(u[j].addr) \notin L
      BY <2>3
    <3>2. LockPage(u[i].addr) \in L
      BY <1>8 DEF Held
    <3>3. QED
      BY <3>1, <3>2
  <2>4. QED
    BY <1>2, <2>2, <2>3
<1>10. Present(f, ld, st, w, u)
  <2>1. \A s : Names(q, s) => Names(u, s)
    BY <1>2 DEF Names
  <2>2. QED
    BY <2>1 DEF Wires, Present
<1>11. Wires(f, ld, st, w, u, L)
  BY <1>4, <1>5, <1>6, <1>7, <1>8, <1>9, <1>10 DEF Wires, Carried
<1>12. QED
  BY <1>11 DEF u

(* The page of a PIM request is that of its stage. *)
LEMMA StagePages ==
  ASSUME NEW f \in Functions, NEW s
  PROVE  /\ AddrOf(f, s) \in Addr
         /\ LockPage(AddrOf(f, s)) \in OperandPages(f)
         /\ \A a : resize(a) = resize(AddrOf(f, s)) => LockPage(a) = LockPage(AddrOf(f, s))
<1>1. f.in1 \in Addr /\ f.in2 \in Addr /\ f.out \in Addr
  BY FastOffloadAssumption
<1>2. AddrOf(f, s) = f.in1 \/ AddrOf(f, s) = f.in2 \/ AddrOf(f, s) = f.out
  BY DEF AddrOf
<1>3. QED
  BY <1>1, <1>2 DEF OperandPages, LockPage

LEMMA Transfers ==
  ASSUME NEW q \in Seq(Request)
  PROVE  /\ Transferred(q) \in Seq(Request) /\ Len(Transferred(q)) = Len(q)
         /\ q \in Seq(PimRequest) => Transferred(q) \in Seq(PimRequest)
         /\ q \in Seq(HostRequest) => Transferred(q) \in Seq(HostRequest)
         /\ Resized(Transferred(q))
         /\ \A k \in 1 .. Len(q) :
              /\ Transferred(q)[k].pim = q[k].pim /\ Transferred(q)[k].stage = q[k].stage
              /\ Transferred(q)[k].pids = q[k].pids
              /\ Transferred(q)[k].addr = resize(q[k].addr)
              /\ resize(Transferred(q)[k].addr) = resize(q[k].addr)
<1>1. ASSUME NEW r \in Request
      PROVE  /\ transfer(r) \in Request
             /\ r \in PimRequest => transfer(r) \in PimRequest
             /\ r \in HostRequest => transfer(r) \in HostRequest
             /\ transfer(r).pim = r.pim /\ transfer(r).stage = r.stage
             /\ transfer(r).pids = r.pids /\ transfer(r).addr = resize(r.addr)
  <2>1. r.addr \in Addr
    BY Fields
  <2>2. resize(r.addr) \in Addr
    BY <2>1, Resizing
  <2>3. PICK a \in Addr : a = resize(r.addr)
    BY <2>2
  <2>4. transfer(r) = [r EXCEPT !.addr = a]
    BY <2>3 DEF transfer
  <2>5. CASE r \in PimRequest
    BY <2>3, <2>4, <2>5 DEF PimRequest, HostRequest, Request
  <2>6. CASE r \in HostRequest
    BY <2>3, <2>4, <2>6 DEF PimRequest, HostRequest, Request
  <2>7. QED
    BY <2>5, <2>6 DEF Request
<1> DEFINE t == Transferred(q)
<1>2. DOMAIN q = 1 .. Len(q) /\ Len(q) \in Nat /\ \A k \in 1 .. Len(q) : q[k] \in Request
  OBVIOUS
<1>3. t = [k \in 1 .. Len(q) |-> transfer(q[k])]
  BY <1>2 DEF Transferred
<1>4. t \in Seq(Request) /\ Len(t) = Len(q) /\ \A k \in 1 .. Len(q) : t[k] = transfer(q[k])
  BY <1>1, <1>2, <1>3
<1>5. ASSUME q \in Seq(PimRequest) PROVE t \in Seq(PimRequest)
  <2>1. \A k \in 1 .. Len(q) : q[k] \in PimRequest
    BY <1>5
  <2>2. QED
    BY <1>1, <1>2, <1>3, <2>1
<1>6. ASSUME q \in Seq(HostRequest) PROVE t \in Seq(HostRequest)
  <2>1. \A k \in 1 .. Len(q) : q[k] \in HostRequest
    BY <1>6
  <2>2. QED
    BY <1>1, <1>2, <1>3, <2>1
<1> HIDE DEF t
<1>7. ASSUME NEW k \in 1 .. Len(q)
      PROVE  /\ t[k].pim = q[k].pim /\ t[k].stage = q[k].stage /\ t[k].pids = q[k].pids
             /\ t[k].addr = resize(q[k].addr)
             /\ resize(t[k].addr) = t[k].addr
  <2>1. q[k] \in Request /\ q[k].addr \in Addr
    BY <1>2, Fields
  <2>2. resize(resize(q[k].addr)) = resize(q[k].addr)
    BY <2>1, Resizing
  <2>3. QED
    BY <1>1, <1>4, <2>1, <2>2
<1>8. Resized(t)
  BY <1>4, <1>7 DEF Resized
<1>9. QED
  BY <1>4, <1>5, <1>6, <1>7, <1>8 DEF t

(* Two stages that wait at the same time have different pages. *)
LEMMA PagesDiffer ==
  ASSUME NEW f \in Functions, TwoPages(f),
         NEW ld \in [LoadStages -> LoadStates], NEW st \in StoreStates, OneKind(ld, st),
         NEW s \in Outs(ld, st), NEW t \in Outs(ld, st), s # t
  PROVE  LockPage(AddrOf(f, s)) # LockPage(AddrOf(f, t))
<1>1. {s, t} = LoadStages
  BY TwoWait
<1>2. (s = 0 /\ t = 1) \/ (s = 1 /\ t = 0)
  BY <1>1 DEF LoadStages
<1>3. AddrOf(f, 0) = f.in1 /\ AddrOf(f, 1) = f.in2
  BY DEF AddrOf
<1>4. QED
  BY <1>2, <1>3 DEF TwoPages

PagesOf(q) == {LockPage(q[k].addr) : k \in DOMAIN q}

(* PIM requests go from the controller to the memory, of which the first   *)
(* may stay and release its page.                                          *)
LEMMA WiresMoves ==
  ASSUME NEW f \in Functions \cup {NoFunction}, NEW L, NEW q \in Seq(Request),
         NEW w \in Seq(PimRequest), NEW v \in Seq(PimRequest), NEW t \in Seq(PimRequest),
         NEW c \in Nat, Len(v) = c, Len(w) = c + Len(t),
         \A k \in 1 .. c : v[k] = w[k],
         \A k \in 1 .. Len(t) : t[k] = w[c + k],
         NEW ld \in [LoadStages -> LoadStates], NEW st \in StoreStates,
         Wires(f, ld, st, w, q, L), f = NoFunction => Outs(ld, st) = {}
  PROVE  Wires(f, ld, st, v, q \o Transferred(t), (L \ PagesOf(v)) \cup PagesOf(t))
<1> DEFINE h == Transferred(t)
           u == q \o h
           V == {LockPage(v[k].addr) : k \in DOMAIN v}
           T == {LockPage(t[k].addr) : k \in DOMAIN t}
           M == (L \ V) \cup T
<1>1. /\ t \in Seq(Request) /\ w \in Seq(Request) /\ v \in Seq(Request)
      /\ \A k \in 1 .. Len(t) : t[k].pim
      /\ \A k \in 1 .. Len(w) : w[k].pim
      /\ \A k \in 1 .. Len(v) : v[k].pim
  BY Subtypes
<1>2. /\ h \in Seq(Request) /\ Len(h) = Len(t) /\ Resized(h)
      /\ \A k \in 1 .. Len(t) : /\ h[k].pim = t[k].pim /\ h[k].stage = t[k].stage
                                /\ h[k].addr = resize(t[k].addr)
                                /\ resize(h[k].addr) = resize(t[k].addr)
  BY <1>1, Transfers
<1> HIDE DEF h
<1>3. /\ Len(u) = Len(q) + Len(h) /\ Len(q) \in Nat /\ Len(h) \in Nat
      /\ \A k \in 1 .. Len(q) : k \in 1 .. Len(u) /\ u[k] = q[k]
      /\ \A k \in 1 .. Len(h) : Len(q) + k \in 1 .. Len(u) /\ u[Len(q) + k] = h[k]
      /\ \A k \in 1 .. Len(u) :
           \/ k \in 1 .. Len(q) /\ u[k] = q[k]
           \/ k > Len(q) /\ k - Len(q) \in 1 .. Len(h) /\ u[k] = h[k - Len(q)]
  BY <1>2, JoinedRequests
<1> HIDE DEF u
<1>4. \A k \in 1 .. Len(v) : k \in 1 .. Len(w) /\ v[k] = w[k] /\ w[k].pim
  BY <1>1
<1>5. \A k \in 1 .. Len(h) : /\ c + k \in 1 .. Len(w) /\ h[k].pim /\ w[c + k].pim /\ t[k] = w[c + k]
                             /\ h[k].stage = w[c + k].stage
                             /\ resize(h[k].addr) = resize(w[c + k].addr)
  BY <1>1, <1>2
<1>6. PimGood(f, ld, st, v)
  BY <1>4 DEF Wires, Carried, PimGood
<1>7. PimGood(f, ld, st, h)
  <2> SUFFICES ASSUME NEW k \in 1 .. Len(h)
               PROVE  /\ h[k].stage \in Outs(ld, st)
                      /\ resize(h[k].addr) = resize(AddrOf(f, h[k].stage))
    BY DEF PimGood
  <2>1. PICK n \in 1 .. Len(w) : /\ n = c + k /\ w[n].pim /\ h[k].stage = w[n].stage
                                 /\ resize(h[k].addr) = resize(w[n].addr)
    BY <1>5
  <2>2. w[n].stage \in Outs(ld, st) /\ resize(w[n].addr) = resize(AddrOf(f, w[n].stage))
    BY <2>1 DEF Wires, Carried, PimGood
  <2>3. QED
    BY <2>1, <2>2
<1>8. PimGood(f, ld, st, u)
  <2>1. PimGood(f, ld, st, q)
    BY DEF Wires, Carried
  <2>2. ASSUME NEW k \in 1 .. Len(u), u[k].pim
        PROVE  /\ u[k].stage \in Outs(ld, st)
               /\ resize(u[k].addr) = resize(AddrOf(f, u[k].stage))
    <3>1. CASE k \in 1 .. Len(q) /\ u[k] = q[k]
      BY <2>1, <2>2, <3>1 DEF PimGood
    <3>2. CASE k - Len(q) \in 1 .. Len(h) /\ u[k] = h[k - Len(q)]
      BY <1>7, <2>2, <3>2 DEF PimGood
    <3>3. QED
      BY <1>3, <3>1, <3>2
  <2>3. QED
    BY <2>2 DEF PimGood
<1>9. Apart(v)
  BY <1>4 DEF Wires, Carried, Apart
<1>10. Apart(u)
  <2> SUFFICES ASSUME NEW i \in 1 .. Len(u), NEW j \in 1 .. Len(u),
                      u[i].pim, u[j].pim, u[i].stage = u[j].stage
               PROVE  i = j
    BY DEF Apart
  <2>1. CASE i <= Len(q) /\ j <= Len(q)
    <3>1. i \in 1 .. Len(q) /\ u[i] = q[i] /\ j \in 1 .. Len(q) /\ u[j] = q[j]
      BY <1>3, <2>1
    <3>2. QED
      BY <3>1 DEF Wires, Carried, Apart
  <2>2. CASE i <= Len(q) /\ j > Len(q)
    <3>1. /\ i \in 1 .. Len(q) /\ u[i] = q[i]
          /\ j - Len(q) \in 1 .. Len(h) /\ u[j] = h[j - Len(q)]
      BY <1>3, <2>2
    <3> DEFINE n == c + (j - Len(q))
    <3>2. n \in 1 .. Len(w) /\ w[n].pim /\ w[n].stage = q[i].stage
      BY <1>5, <3>1
    <3> HIDE DEF n
    <3>3. QED
      BY <3>1, <3>2 DEF Wires, Carried, ApartFrom
  <2>3. CASE i > Len(q) /\ j <= Len(q)
    <3>1. /\ j \in 1 .. Len(q) /\ u[j] = q[j]
          /\ i - Len(q) \in 1 .. Len(h) /\ u[i] = h[i - Len(q)]
      BY <1>3, <2>3
    <3> DEFINE n == c + (i - Len(q))
    <3>2. n \in 1 .. Len(w) /\ w[n].pim /\ w[n].stage = q[j].stage
      BY <1>5, <3>1
    <3> HIDE DEF n
    <3>3. QED
      BY <3>1, <3>2 DEF Wires, Carried, ApartFrom
  <2>4. CASE i > Len(q) /\ j > Len(q)
    <3>1. /\ i - Len(q) \in 1 .. Len(h) /\ u[i] = h[i - Len(q)]
          /\ j - Len(q) \in 1 .. Len(h) /\ u[j] = h[j - Len(q)]
      BY <1>3, <2>4
    <3> DEFINE n == c + (i - Len(q))
               o == c + (j - Len(q))
    <3>2. /\ n \in 1 .. Len(w) /\ w[n].pim /\ w[n].stage = u[i].stage
          /\ o \in 1 .. Len(w) /\ w[o].pim /\ w[o].stage = u[j].stage
      <4>1. n \in 1 .. Len(w) /\ w[n].pim /\ w[n].stage = u[i].stage
        BY <1>5, <3>1
      <4>2. o \in 1 .. Len(w) /\ w[o].pim /\ w[o].stage = u[j].stage
        BY <1>5, <3>1
      <4>3. QED
        BY <4>1, <4>2
    <3>3. n = o
      <4> HIDE DEF n, o
      <4> QED
        BY <3>2 DEF Wires, Carried, Apart
    <3>4. QED
      BY <1>3, <3>3
  <2>5. QED
    BY <1>3, <2>1, <2>2, <2>3, <2>4
<1>11. ApartFrom(v, u)
  <2> SUFFICES ASSUME NEW i \in 1 .. Len(v), NEW j \in 1 .. Len(u), u[j].pim,
                      v[i].stage = u[j].stage
               PROVE  FALSE
    BY DEF ApartFrom
  <2>1. i \in 1 .. Len(w) /\ w[i].pim /\ v[i] = w[i] /\ i <= c
    BY <1>4
  <2>2. CASE j \in 1 .. Len(q) /\ u[j] = q[j]
    BY <2>1, <2>2 DEF Wires, Carried, ApartFrom
  <2>3. CASE j - Len(q) \in 1 .. Len(h) /\ u[j] = h[j - Len(q)]
    <3>1. PICK n \in 1 .. Len(h) : u[j] = h[n]
      BY <2>3
    <3>2. c + n \in 1 .. Len(w) /\ w[c + n].pim /\ w[c + n].stage = w[i].stage
      BY <1>5, <2>1, <3>1
    <3>3. c + n = i
      BY <2>1, <3>2 DEF Wires, Carried, Apart
    <3>4. QED
      BY <1>3, <2>1, <3>3
  <2>4. QED
    BY <1>3, <2>2, <2>3
<1>12. Resized(u)
  <2>1. Resized(q)
    BY DEF Wires, Carried
  <2>2. ASSUME NEW k \in 1 .. Len(u) PROVE resize(u[k].addr) = u[k].addr
    <3>1. CASE k \in 1 .. Len(q) /\ u[k] = q[k]
      BY <2>1, <3>1 DEF Resized
    <3>2. CASE k - Len(q) \in 1 .. Len(h) /\ u[k] = h[k - Len(q)]
      BY <1>2, <3>2 DEF Resized
    <3>3. QED
      BY <1>3, <3>1, <3>2
  <2>3. QED
    BY <2>2 DEF Resized
<1>13. Present(f, ld, st, v, u)
  <2> SUFFICES ASSUME f # NoFunction, ~SameOperand(f), NEW s \in Outs(ld, st)
               PROVE  Names(v, s) \/ Names(u, s)
    BY DEF Present
  <2>1. CASE Names(q, s)
    BY <1>3, <2>1 DEF Names
  <2>2. CASE Names(w, s)
    <3>1. PICK k \in 1 .. Len(w) : w[k].pim /\ w[k].stage = s
      BY <2>2 DEF Names
    <3>2. CASE k <= c
      <4>1. k \in 1 .. Len(v) /\ v[k] = w[k]
        BY <3>2
      <4>2. QED
        BY <3>1, <4>1 DEF Names
    <3>3. CASE k > c
      <4>1. k - c \in 1 .. Len(t) /\ c + (k - c) = k
        BY <1>3, <3>3
      <4>2. k - c \in 1 .. Len(h) /\ h[k - c].pim /\ h[k - c].stage = s
        BY <1>2, <1>5, <3>1, <4>1
      <4>3. Len(q) + (k - c) \in 1 .. Len(u) /\ u[Len(q) + (k - c)] = h[k - c]
        BY <1>3, <4>2
      <4>4. QED
        BY <4>2, <4>3 DEF Names
    <3>4. QED
      BY <3>2, <3>3
  <2>3. QED
    BY <2>1, <2>2 DEF Wires, Present
<1>14. \A k \in 1 .. Len(t) : LockPage(t[k].addr) \in T /\ LockPage(h[k].addr) = LockPage(t[k].addr)
  <2>1. DOMAIN t = 1 .. Len(t)
    OBVIOUS
  <2>2. QED
    BY <1>2, <2>1 DEF LockPage
<1>15. ASSUME f # NoFunction, NEW k \in 1 .. Len(w)
       PROVE  /\ w[k].stage \in Outs(ld, st)
              /\ LockPage(w[k].addr) = LockPage(AddrOf(f, w[k].stage))
              /\ LockPage(w[k].addr) \in OperandPages(f)
  <2>1. f \in Functions /\ w[k].pim
    BY <1>1, <1>15
  <2>2. w[k].stage \in Outs(ld, st) /\ resize(w[k].addr) = resize(AddrOf(f, w[k].stage))
    BY <2>1 DEF Wires, Carried, PimGood
  <2>3. QED
    BY <2>1, <2>2, StagePages
<1>16. ASSUME TwoPages(f), NEW k \in 1 .. Len(q), q[k].pim PROVE LockPage(q[k].addr) \in M
  <2>1. f \in Functions /\ f # NoFunction
    BY <1>16, FastOffloadAssumption DEF TwoPages
  <2>2. /\ q[k].stage \in Outs(ld, st)
        /\ LockPage(q[k].addr) = LockPage(AddrOf(f, q[k].stage))
    BY <1>16, <2>1, StagePages DEF Wires, Carried, PimGood
  <2>3. ASSUME NEW i \in 1 .. Len(v) PROVE LockPage(v[i].addr) # LockPage(q[k].addr)
    <3>1. i \in 1 .. Len(w) /\ v[i] = w[i] /\ w[i].pim
      BY <1>4
    <3>2. w[i].stage \in Outs(ld, st) /\ LockPage(w[i].addr) = LockPage(AddrOf(f, w[i].stage))
      BY <1>15, <2>1, <3>1
    <3>3. w[i].stage # q[k].stage
      BY <1>16, <3>1 DEF Wires, Carried, ApartFrom
    <3>4. OneKind(ld, st)
      BY DEF Wires, Carried
    <3>5. LockPage(AddrOf(f, w[i].stage)) # LockPage(AddrOf(f, q[k].stage))
      BY <1>16, <2>1, <2>2, <3>2, <3>3, <3>4, PagesDiffer
    <3>6. QED
      BY <2>2, <3>1, <3>2, <3>5
  <2>4. LockPage(q[k].addr) \notin V
    <3>1. DOMAIN v = 1 .. Len(v)
      OBVIOUS
    <3>2. QED
      BY <2>3, <3>1
  <2>5. LockPage(q[k].addr) \in L
    BY <1>16 DEF Wires, Carried, Held
  <2>6. QED
    BY <2>4, <2>5
<1>17. Held(f, u, M)
  <2> SUFFICES ASSUME TwoPages(f), NEW k \in 1 .. Len(u), u[k].pim PROVE LockPage(u[k].addr) \in M
    BY DEF Held
  <2>1. CASE k \in 1 .. Len(q) /\ u[k] = q[k]
    BY <1>16, <2>1
  <2>2. CASE k - Len(q) \in 1 .. Len(h) /\ u[k] = h[k - Len(q)]
    BY <1>2, <1>14, <2>2
  <2>3. QED
    BY <1>3, <2>1, <2>2
<1>18. Unfollowed(f, u)
  <2> SUFFICES ASSUME TwoPages(f), NEW i \in 1 .. Len(u), NEW j \in 1 .. Len(u),
                      i < j, u[i].pim, ~u[j].pim
               PROVE  LockPage(u[i].addr) # LockPage(u[j].addr)
    BY DEF Unfollowed
  <2>1. j \in 1 .. Len(q) /\ u[j] = q[j]
    BY <1>3, <1>5
  <2>2. i \in 1 .. Len(q) /\ u[i] = q[i]
    BY <1>3, <2>1
  <2>3. QED
    BY <2>1, <2>2 DEF Wires, Carried, Unfollowed
<1>19. Owned(f, M)
  <2>1. CASE f = NoFunction
    <3>1. ASSUME NEW k \in 1 .. Len(w) PROVE FALSE
      BY <1>1, <2>1 DEF Wires, Carried, PimGood
    <3>2. DOMAIN t = {}
      <4>1. DOMAIN t = 1 .. Len(t)
        OBVIOUS
      <4>2. ASSUME NEW k \in DOMAIN t PROVE FALSE
        <5>1. k \in 1 .. Len(h)
          BY <1>2, <4>1
        <5>2. c + k \in 1 .. Len(w)
          BY <1>5, <5>1
        <5>3. QED
          BY <3>1, <5>2
      <4>3. QED
        BY <4>2
    <3>3. QED
      BY <2>1, <3>2 DEF Wires, Owned
  <2>2. CASE f # NoFunction
    <3>1. \A k \in 1 .. Len(t) : LockPage(t[k].addr) \in OperandPages(f)
      BY <1>2, <1>5, <1>15, <2>2
    <3>2. DOMAIN t = 1 .. Len(t)
      OBVIOUS
    <3>3. QED
      BY <2>2, <3>1, <3>2 DEF Wires, Owned
  <2>3. QED
    BY <2>1, <2>2
<1>20. Wires(f, ld, st, v, u, M)
  <2> HIDE DEF M
  <2> QED
    BY <1>6, <1>8, <1>9, <1>10, <1>11, <1>12, <1>13, <1>17, <1>18, <1>19 DEF Wires, Carried
<1>21. QED
  BY <1>20 DEF u, h, PagesOf

-----------------------------------------------------------------------------
(* The memory's queues as one sequence. *)

LEMMA JoinAssociative ==
  ASSUME NEW a \in Seq(Request), NEW b \in Seq(Request), NEW c \in Seq(Request)
  PROVE  (a \o b) \o c = a \o (b \o c)
OBVIOUS

LEMMA SameEntries ==
  ASSUME NEW a \in Seq(Request), NEW b \in Seq(Request), Len(a) = Len(b),
         \A n \in 1 .. Len(b) : a[n] = b[n]
  PROVE  a = b
OBVIOUS

LEMMA JoinEmpty ==
  ASSUME NEW a \in Seq(Request)
  PROVE  a \o << >> = a /\ << >> \o a = a
OBVIOUS

LEMMA EmptySeq == << >> \in Seq(Request) /\ << >> \in Seq(HostRequest) /\ << >> \in Seq(PimRequest)
OBVIOUS

(* Merging the end of a sequence. *)
LEMMA MergedPrefix ==
  ASSUME NEW c \in Seq(Request), NEW q \in Seq(Request), NEW t \in Seq(Request), Merged(q, t)
  PROVE  Merged(c \o q, c \o t)
<1> DEFINE x == c \o q
           y == c \o t
           n == Len(c)
<1>1. /\ Len(x) = n + Len(q) /\ n \in Nat /\ Len(q) \in Nat
      /\ \A k \in 1 .. n : k \in 1 .. Len(x) /\ x[k] = c[k]
      /\ \A k \in 1 .. Len(q) : n + k \in 1 .. Len(x) /\ x[n + k] = q[k]
      /\ \A k \in 1 .. Len(x) :
           \/ k \in 1 .. n /\ x[k] = c[k]
           \/ k > n /\ k - n \in 1 .. Len(q) /\ x[k] = q[k - n]
  BY JoinedRequests
<1>2. /\ Len(y) = n + Len(t) /\ Len(t) \in Nat
      /\ \A k \in 1 .. n : k \in 1 .. Len(y) /\ y[k] = c[k]
      /\ \A k \in 1 .. Len(t) : n + k \in 1 .. Len(y) /\ y[n + k] = t[k]
      /\ \A k \in 1 .. Len(y) :
           \/ k \in 1 .. n /\ y[k] = c[k]
           \/ k > n /\ k - n \in 1 .. Len(t) /\ y[k] = t[k - n]
  BY JoinedRequests
<1> HIDE DEF x, y, n
<1>3. Reduces(x, y)
  <2>1. PICK m \in [1 .. Len(t) -> 1 .. Len(q)] :
          /\ \A k \in 1 .. Len(t) : Alike(t[k], q[m[k]])
          /\ \A j, k \in 1 .. Len(t) : j < k => m[j] < m[k]
    BY DEF Merged, Reduces
  <2> DEFINE g == [k \in 1 .. Len(y) |-> IF k <= n THEN k ELSE n + m[k - n]]
  <2>2. ASSUME NEW k \in 1 .. Len(y), k > n
        PROVE  /\ k - n \in 1 .. Len(t) /\ m[k - n] \in 1 .. Len(q)
               /\ n + m[k - n] \in 1 .. Len(x)
               /\ x[n + m[k - n]] = q[m[k - n]] /\ y[k] = t[k - n]
    <3>1. k - n \in 1 .. Len(t) /\ y[k] = t[k - n]
      BY <1>1, <1>2, <2>2
    <3>2. m[k - n] \in 1 .. Len(q)
      BY <3>1
    <3>3. QED
      BY <1>1, <3>1, <3>2
  <2>3. ASSUME NEW k \in 1 .. Len(y), k <= n
        PROVE  k \in 1 .. Len(x) /\ x[k] = c[k] /\ y[k] = c[k]
    BY <1>1, <1>2, <2>3
  <2>4. g \in [1 .. Len(y) -> 1 .. Len(x)]
    <3>1. \A k \in 1 .. Len(y) : (IF k <= n THEN k ELSE n + m[k - n]) \in 1 .. Len(x)
      BY <1>1, <1>2, <2>2, <2>3
    <3>2. QED
      BY <3>1
  <2>5. ASSUME NEW k \in 1 .. Len(y) PROVE Alike(y[k], x[g[k]])
    <3>1. CASE k <= n
      BY <2>3, <3>1 DEF Alike
    <3>2. CASE ~(k <= n)
      <4>1. k > n /\ g[k] = n + m[k - n]
        BY <1>1, <1>2, <3>2
      <4>2. QED
        BY <2>1, <2>2, <4>1
    <3>3. QED
      BY <3>1, <3>2
  <2>6. ASSUME NEW j \in 1 .. Len(y), NEW k \in 1 .. Len(y), j < k PROVE g[j] < g[k]
    <3>1. CASE k <= n
      BY <1>1, <1>2, <2>6, <3>1
    <3>2. CASE j <= n /\ k > n
      <4>1. g[j] = j /\ g[k] = n + m[k - n] /\ m[k - n] \in 1 .. Len(q)
        BY <1>1, <1>2, <2>2, <3>2
      <4>2. QED
        BY <1>1, <3>2, <4>1
    <3>3. CASE j > n /\ k > n
      <4>1. /\ g[j] = n + m[j - n] /\ g[k] = n + m[k - n]
            /\ m[j - n] \in 1 .. Len(q) /\ m[k - n] \in 1 .. Len(q)
            /\ j - n \in 1 .. Len(t) /\ k - n \in 1 .. Len(t) /\ j - n < k - n
        BY <1>1, <1>2, <2>2, <2>6, <3>3
      <4>2. m[j - n] < m[k - n]
        BY <2>1, <4>1
      <4>3. QED
        BY <1>1, <4>1, <4>2
    <3>4. QED
      BY <1>1, <1>2, <2>6, <3>1, <3>2, <3>3
  <2> HIDE DEF g
  <2>7. QED
    BY <2>4, <2>5, <2>6 DEF Reduces
<1>4. KeepsHosts(x, y)
  <2> SUFFICES ASSUME NEW k \in 1 .. Len(x), ~x[k].pim, NEW p \in x[k].pids
               PROVE  \E i \in 1 .. Len(y) : ~y[i].pim /\ y[i].addr = x[k].addr /\ p \in y[i].pids
    BY DEF KeepsHosts
  <2>1. CASE k \in 1 .. n /\ x[k] = c[k]
    BY <1>2, <2>1
  <2>2. CASE k - n \in 1 .. Len(q) /\ x[k] = q[k - n]
    <3>1. PICK i \in 1 .. Len(t) : ~t[i].pim /\ t[i].addr = x[k].addr /\ p \in t[i].pids
      BY <2>2 DEF Merged, KeepsHosts
    <3>2. n + i \in 1 .. Len(y) /\ y[n + i] = t[i]
      BY <1>2
    <3>3. QED
      BY <3>1, <3>2
  <2>3. QED
    BY <1>1, <2>1, <2>2
<1>5. KeepsPims(x, y)
  <2> SUFFICES ASSUME PimsApart(x), NEW k \in 1 .. Len(x), x[k].pim
               PROVE  \E i \in 1 .. Len(y) : y[i].pim /\ y[i].stage = x[k].stage
    BY DEF KeepsPims
  <2>1. CASE k \in 1 .. n /\ x[k] = c[k]
    BY <1>2, <2>1
  <2>2. CASE k - n \in 1 .. Len(q) /\ x[k] = q[k - n]
    <3>1. PimsApart(q)
      <4> SUFFICES ASSUME NEW i \in 1 .. Len(q), NEW j \in 1 .. Len(q),
                          q[i].pim, q[j].pim, q[i].addr = q[j].addr
                   PROVE  i = j
        BY DEF PimsApart
      <4>1. n + i \in 1 .. Len(x) /\ x[n + i] = q[i] /\ n + j \in 1 .. Len(x) /\ x[n + j] = q[j]
        BY <1>1
      <4>2. n + i = n + j
        BY <4>1 DEF PimsApart
      <4>3. QED
        BY <1>1, <4>2
    <3>2. PICK i \in 1 .. Len(t) : t[i].pim /\ t[i].stage = x[k].stage
      BY <2>2, <3>1 DEF Merged, KeepsPims
    <3>3. n + i \in 1 .. Len(y) /\ y[n + i] = t[i]
      BY <1>2
    <3>4. QED
      BY <3>2, <3>3
  <2>3. QED
    BY <1>1, <2>1, <2>2
<1>6. Merged(x, y)
  BY <1>3, <1>4, <1>5 DEF Merged
<1>7. QED
  BY <1>6 DEF x, y

(* AddTransaction moves requests along, in their order. *)
MovedAlong(q, tr, d, t) ==
  /\ t = [queue |-> t.queue, trans |-> t.trans, dram |-> t.dram]
  /\ t.queue \in Seq(Request) /\ t.trans \in Seq(Request) /\ t.dram \in Seq(Request)
  /\ Len(t.dram) <= DramDepth /\ Len(t.trans) <= 1
  /\ t.trans # << >> => Len(t.dram) >= DramDepth
  /\ (t.dram \o t.trans) \o t.queue = (d \o tr) \o q
  /\ \A k \in 1 .. Len(d) : k \in 1 .. Len(t.dram) /\ t.dram[k] = d[k]

LEMMA AddsTransaction ==
  ASSUME NEW q \in Seq(Request), NEW tr \in Seq(Request), NEW d \in Seq(Request),
         Len(tr) <= 1, Len(d) <= DramDepth, NEW t, t = AddTransaction(q, tr, d)
  PROVE  MovedAlong(q, tr, d, t)
<1> DEFINE pops == tr = << >> /\ q # << >>
           next == IF pops THEN <<Head(q)>> ELSE tr
           rest == IF pops THEN Tail(q) ELSE q
<1>0. DramDepth \in Nat /\ Len(d) \in Nat
  BY FastOffloadAssumption
<1>1. next \in Seq(Request) /\ rest \in Seq(Request) /\ next \o rest = tr \o q /\ Len(next) <= 1
  <2>1. CASE pops
    <3>1. Head(q) \in Request /\ Tail(q) \in Seq(Request)
      BY <2>1
    <3>2. <<Head(q)>> \o Tail(q) = q
      BY <2>1
    <3>3. tr \o q = q
      BY <2>1
    <3>4. <<Head(q)>> \in Seq(Request) /\ Len(<<Head(q)>>) <= 1
      BY <3>1
    <3>5. QED
      BY <2>1, <3>1, <3>2, <3>3, <3>4
  <2>2. CASE ~pops
    BY <2>2
  <2>3. QED
    BY <2>1, <2>2
<1>2. AddTransaction(q, tr, d) =
        IF Len(d) < DramDepth
          THEN [queue |-> rest, trans |-> << >>, dram |-> d \o next]
          ELSE [queue |-> rest, trans |-> next, dram |-> d]
  BY DEF AddTransaction
<1> HIDE DEF next, rest
<1>3. (d \o next) \o rest = (d \o tr) \o q
  <2>1. (d \o next) \o rest = d \o (next \o rest)
    BY <1>1, JoinAssociative
  <2>2. (d \o tr) \o q = d \o (tr \o q)
    BY JoinAssociative
  <2>3. QED
    BY <1>1, <2>1, <2>2
<1>4. /\ d \o next \in Seq(Request) /\ Len(d \o next) = Len(d) + Len(next) /\ Len(next) \in Nat
      /\ \A k \in 1 .. Len(d) : k \in 1 .. Len(d \o next) /\ (d \o next)[k] = d[k]
  BY <1>1, JoinedRequests
<1>5. CASE Len(d) < DramDepth
  <2>1. t = [queue |-> rest, trans |-> << >>, dram |-> d \o next]
    BY <1>2, <1>5
  <2>2. t.queue = rest /\ t.trans = << >> /\ t.dram = d \o next
    BY <2>1
  <2>3. Len(d \o next) <= DramDepth
    BY <1>0, <1>1, <1>4, <1>5
  <2>4. (d \o next) \o << >> = d \o next
    BY <1>4, JoinEmpty
  <2>5. << >> \in Seq(Request) /\ Len(<< >>) <= 1
    OBVIOUS
  <2>6. QED
    BY <1>1, <1>3, <1>4, <2>1, <2>2, <2>3, <2>4, <2>5 DEF MovedAlong
<1>6. CASE ~(Len(d) < DramDepth)
  <2>1. t = [queue |-> rest, trans |-> next, dram |-> d]
    BY <1>2, <1>6
  <2>2. t.queue = rest /\ t.trans = next /\ t.dram = d
    BY <2>1
  <2>3. Len(d) >= DramDepth
    BY <1>0, <1>6
  <2>4. QED
    BY <1>1, <1>3, <2>1, <2>2, <2>3 DEF MovedAlong
<1>7. QED
  BY <1>5, <1>6

(* Removing an entry of the first part. *)
LEMMA RemovedPrefix ==
  ASSUME NEW a \in Seq(Request), NEW b \in Seq(Request), NEW k \in 1 .. Len(a)
  PROVE  RemoveAt(a, k) \o b = RemoveAt(a \o b, k)
<1> DEFINE x == RemoveAt(a, k)
           y == RemoveAt(a \o b, k)
<1>1. /\ a \o b \in Seq(Request) /\ Len(a \o b) = Len(a) + Len(b)
      /\ Len(a) \in Nat /\ Len(b) \in Nat
      /\ \A n \in 1 .. Len(a) + Len(b) : (a \o b)[n] = IF n <= Len(a) THEN a[n] ELSE b[n - Len(a)]
  BY Joined
<1>2. /\ x \in Seq(Request) /\ Len(x) = Len(a) - 1
      /\ \A n \in 1 .. Len(a) - 1 : x[n] = IF n < k THEN a[n] ELSE a[n + 1]
  BY RemovedRequest
<1>3. k \in 1 .. Len(a \o b)
  BY <1>1
<1>4. /\ y \in Seq(Request) /\ Len(y) = Len(a \o b) - 1
      /\ \A n \in 1 .. Len(a \o b) - 1 : y[n] = IF n < k THEN (a \o b)[n] ELSE (a \o b)[n + 1]
  BY <1>1, <1>3, RemovedRequest
<1> HIDE DEF x, y
<1>5. /\ x \o b \in Seq(Request) /\ Len(x \o b) = Len(x) + Len(b)
      /\ \A n \in 1 .. Len(x) + Len(b) : (x \o b)[n] = IF n <= Len(x) THEN x[n] ELSE b[n - Len(x)]
  BY <1>2, Joined
<1>6. Len(x \o b) = Len(y)
  BY <1>1, <1>2, <1>4, <1>5
<1>7. ASSUME NEW n \in 1 .. Len(y) PROVE (x \o b)[n] = y[n]
  <2>0. n \in 1 .. Len(x) + Len(b) /\ n \in 1 .. Len(a \o b) - 1
    BY <1>1, <1>2, <1>4, <1>5
  <2>1. CASE n < k
    <3>1. (x \o b)[n] = x[n] /\ x[n] = a[n]
      BY <1>1, <1>2, <1>5, <2>0, <2>1
    <3>2. y[n] = (a \o b)[n] /\ (a \o b)[n] = a[n]
      BY <1>1, <1>4, <2>0, <2>1
    <3>3. QED
      BY <3>1, <3>2
  <2>2. CASE n >= k /\ n <= Len(a) - 1
    <3>1. (x \o b)[n] = x[n] /\ x[n] = a[n + 1]
      BY <1>1, <1>2, <1>5, <2>0, <2>2
    <3>2. y[n] = (a \o b)[n + 1] /\ (a \o b)[n + 1] = a[n + 1]
      <4>1. ~(n < k) /\ n + 1 \in 1 .. Len(a)
        BY <1>1, <2>2
      <4>2. y[n] = (a \o b)[n + 1]
        BY <1>4, <2>0, <4>1
      <4>3. (a \o b)[n + 1] = a[n + 1]
        BY <1>1, <4>1
      <4>4. QED
        BY <4>2, <4>3
    <3>3. QED
      BY <3>1, <3>2
  <2>3. CASE n >= k /\ n > Len(a) - 1
    <3>1. (x \o b)[n] = b[n - (Len(a) - 1)]
      BY <1>1, <1>2, <1>5, <2>0, <2>3
    <3>2. y[n] = (a \o b)[n + 1] /\ (a \o b)[n + 1] = b[(n + 1) - Len(a)]
      <4>1. n + 1 \in 1 .. Len(a) + Len(b) /\ ~(n + 1 <= Len(a)) /\ ~(n < k)
        BY <1>1, <2>0, <2>3
      <4>2. QED
        BY <1>1, <1>4, <2>0, <4>1
    <3>3. n - (Len(a) - 1) = (n + 1) - Len(a)
      BY <1>1, <2>0
    <3>4. QED
      BY <3>1, <3>2, <3>3
  <2>4. QED
    BY <1>1, <2>0, <2>1, <2>2, <2>3
<1>8. x \o b = y
  BY <1>4, <1>5, <1>6, <1>7, SameEntries
<1>9. QED
  BY <1>8 DEF x, y

-----------------------------------------------------------------------------
(* Types. *)

Caches == [l1 : [Procs -> SUBSET Addr], llc : SUBSET Addr, wb : [Procs -> Seq(HostRequest)]]
Units  == [curr : Functions \cup {NoFunction}, load : [LoadStages -> LoadStates],
           computed : BOOLEAN, store : StoreStates]
Mems   == [queue : Seq(Request), trans : Seq(Request), dram : Seq(Request)]

LEMMA HostReqType ==
  ASSUME NEW type \in HostTypes, NEW p \in Procs, NEW a \in Addr, NEW b \in Addr
  PROVE  /\ HostReq(type, p, a, b) \in HostRequest
         /\ HostReq(type, p, a, b).pids = {p} /\ HostReq(type, p, a, b).addr = a
BY DEF HostReq, HostRequest

LEMMA PimReqType ==
  ASSUME NEW type \in PimTypes, NEW s \in LoadStages \cup {StoreStage}, NEW a \in Addr
  PROVE  /\ PimReq(type, s, a) \in PimRequest
         /\ PimReq(type, s, a).stage = s /\ PimReq(type, s, a).addr = a /\ PimReq(type, s, a).pim
BY DEF PimReq, PimRequest

LEMMA WriteBackType ==
  ASSUME NEW wb \in [Procs -> Seq(HostRequest)], NEW p \in Procs, NEW v \in Addr
  PROVE  WriteBack(wb, p, v) \in [Procs -> Seq(HostRequest)]
<1>1. 0 \in Addr /\ "WRITE" \in HostTypes
  BY FastRequestsAssumption DEF Addr, HostTypes
<1>2. PICK r \in HostRequest : r = HostReq("WRITE", p, 0, v)
  BY <1>1, HostReqType
<1>3. Append(wb[p], r) \in Seq(HostRequest)
  OBVIOUS
<1>4. [wb EXCEPT ![p] = Append(wb[p], r)] \in [Procs -> Seq(HostRequest)]
  BY <1>3
<1>5. QED
  BY <1>2, <1>4 DEF WriteBack

LEMMA CallbackType ==
  ASSUME cache \in Caches, NEW r \in HostRequest, NEW c \in CallbackCaches(r)
  PROVE  c \in Caches
<1>1. r.block \in Addr /\ r.pids \subseteq Procs
  BY DEF HostRequest
<1>2. cache.l1 \in [Procs -> SUBSET Addr] /\ cache.llc \subseteq Addr
      /\ cache.wb \in [Procs -> Seq(HostRequest)]
  BY DEF Caches
<1>3. CASE c = cache
  BY <1>3
<1>4. CASE c # cache
  <2>1. PICK p \in Procs : c \in Fills(r, p)
    BY <1>1, <1>4 DEF CallbackCaches
  <2> DEFINE new == NewDirty(r)
             One == {[l1 |-> l, llc |-> cache.llc \cup new, wb |-> cache.wb] : l \in L1Fills(r, p)}
             Two == {[l1 |-> [l EXCEPT ![p] = @ \ {v}], llc |-> (cache.llc \ {v}) \cup new,
                      wb |-> WriteBack(cache.wb, p, v)] : l \in L1Fills(r, p), v \in cache.llc}
  <2>2. c \in One \cup Two
    BY <2>1 DEF Fills
  <2>3. new \subseteq Addr
    BY <1>1 DEF NewDirty
  <2>4. \A l \in L1Fills(r, p) : l \in [Procs -> SUBSET Addr]
    <3> SUFFICES ASSUME NEW l \in L1Fills(r, p) PROVE l \in [Procs -> SUBSET Addr]
      OBVIOUS
    <3>1. PICK x \in {{}} \cup {{b} : b \in cache.l1[p]}, n \in {{}, new} : l = [cache.l1 EXCEPT ![p] = (cache.l1[p] \ x) \cup n]
      BY DEF L1Fills
    <3>2. PICK y : y = (cache.l1[p] \ x) \cup n
      OBVIOUS
    <3>3. y \in SUBSET Addr
      BY <1>2, <2>3, <3>1, <3>2
    <3>4. l = [cache.l1 EXCEPT ![p] = y]
      BY <3>1, <3>2
    <3>5. QED
      BY <1>2, <3>3, <3>4
  <2> HIDE DEF new
  <2>5. CASE c \in One
    BY <1>2, <2>3, <2>4, <2>5 DEF Caches
  <2>6. CASE c \in Two
    <3>1. PICK l \in L1Fills(r, p), v \in cache.llc :
            c = [l1 |-> [l EXCEPT ![p] = @ \ {v}], llc |-> (cache.llc \ {v}) \cup new,
                 wb |-> WriteBack(cache.wb, p, v)]
      BY <2>6
    <3>2. WriteBack(cache.wb, p, v) \in [Procs -> Seq(HostRequest)]
      BY <1>2, WriteBackType
    <3>3. [l EXCEPT ![p] = @ \ {v}] \in [Procs -> SUBSET Addr]
      BY <2>4
    <3>4. QED
      BY <1>2, <2>3, <3>1, <3>2, <3>3 DEF Caches
  <2>7. QED
    BY <2>2, <2>5, <2>6
<1>5. QED
  BY <1>3, <1>4

LEMMA FlushedType ==
  ASSUME frame \in Frames, NEW c \in Caches, NEW a \in Addr
  PROVE  Flushed(c, a) \in Caches
<1>1. frame[a] \in Addr /\ "FLUSH" \in HostTypes
  BY FastOffloadAssumption DEF HostTypes
<1>2. c.l1 \in [Procs -> SUBSET Addr] /\ c.llc \subseteq Addr /\ c.wb \in [Procs -> Seq(HostRequest)]
  BY DEF Caches
<1> DEFINE wb(p) == IF p \in Flushers(c, a) THEN Append(c.wb[p], HostReq("FLUSH", p, frame[a], a))
                                            ELSE c.wb[p]
<1>3. ASSUME NEW p \in Procs PROVE wb(p) \in Seq(HostRequest)
  <2>1. HostReq("FLUSH", p, frame[a], a) \in HostRequest
    BY <1>1, HostReqType
  <2>2. QED
    BY <1>2, <2>1
<1>4. [p \in Procs |-> wb(p)] \in [Procs -> Seq(HostRequest)]
  BY <1>3
<1>5. [p \in Procs |-> c.l1[p] \ {a}] \in [Procs -> SUBSET Addr]
  BY <1>2
<1>6. Flushed(c, a) = [l1 |-> [p \in Procs |-> c.l1[p] \ {a}], llc |-> c.llc \ {a},
                       wb |-> [p \in Procs |-> wb(p)]]
  BY DEF Flushed
<1> HIDE DEF wb
<1>7. QED
  BY <1>2, <1>4, <1>5, <1>6 DEF Caches

-----------------------------------------------------------------------------
(* DDRMem.Step() *)

LEMMA PathType ==
  ASSUME TypeOK
  PROVE  /\ Path \in Seq(Request)
         /\ Path = (mem.dram \o mem.trans) \o (mem.queue \o send \o pimSend)
         /\ mem.queue \o send \o pimSend \in Seq(Request)
         /\ mem.dram \o mem.trans \in Seq(Request)
         /\ mem.dram \in Seq(Request) /\ mem.trans \in Seq(Request) /\ mem.queue \in Seq(Request)
         /\ send \in Seq(Request) /\ pimSend \in Seq(Request)
<1>1. mem.dram \in Seq(Request) /\ mem.trans \in Seq(Request) /\ mem.queue \in Seq(Request)
  BY DEF TypeOK
<1>2. send \in Seq(Request) /\ pimSend \in Seq(Request)
  BY Subtypes DEF TypeOK
<1> DEFINE c == mem.dram \o mem.trans
           n == mem.queue \o send
<1>3. c \in Seq(Request) /\ n \in Seq(Request) /\ n \o pimSend \in Seq(Request)
      /\ c \o n \in Seq(Request) /\ c \o (n \o pimSend) \in Seq(Request)
  BY <1>1, <1>2, JoinedRequests
<1>4. Path = ((c \o mem.queue) \o send) \o pimSend
  BY DEF Path
<1> HIDE DEF c
<1>5. (c \o mem.queue) \o send = c \o n
  <2>1. c \in Seq(Request)
    BY <1>3
  <2>2. QED
    BY <1>1, <1>2, <2>1, JoinAssociative
<1> HIDE DEF n
<1>6. (c \o n) \o pimSend = c \o (n \o pimSend)
  BY <1>2, <1>3, JoinAssociative
<1>7. QED
  BY <1>1, <1>2, <1>3, <1>4, <1>5, <1>6 DEF c, n

(* Its requests are merged, and one of them may leave. *)
LEMMA ServesPath ==
  ASSUME TypeOK, NEW k \in 0 .. DramDepth, MemoryServes(k)
  PROVE  /\ mem' \in Mems /\ Len(mem'.dram) <= DramDepth /\ Len(mem'.trans) <= 1
         /\ mem'.trans # << >> => Len(mem'.dram) >= DramDepth - 1
         /\ k # 0 => k \in DOMAIN mem.dram
         /\ \E u \in Seq(Request) :
              /\ Merged(Path, u)
              /\ k = 0 => Path' = u
              /\ k # 0 => k \in 1 .. Len(u) /\ u[k] = mem.dram[k] /\ Path' = RemoveAt(u, k)
<1> DEFINE q == mem.queue \o send \o pimSend
           m == Merge(q).queue
           u == (mem.dram \o mem.trans) \o m
<1>0. PICK t : t = AddTransaction(m, mem.trans, mem.dram)
  OBVIOUS
<1>1. /\ q \in Seq(Request) /\ mem.dram \o mem.trans \in Seq(Request)
      /\ mem.dram \in Seq(Request) /\ mem.trans \in Seq(Request)
      /\ Path = (mem.dram \o mem.trans) \o q
      /\ Len(mem.dram) <= DramDepth /\ Len(mem.trans) <= 1 /\ DramDepth \in Nat /\ Len(mem.dram) \in Nat
  <2>1. Len(mem.dram) <= DramDepth /\ Len(mem.trans) <= 1
    BY DEF TypeOK
  <2>2. DramDepth \in Nat
    BY FastOffloadAssumption
  <2>3. /\ q \in Seq(Request) /\ mem.dram \o mem.trans \in Seq(Request)
        /\ mem.dram \in Seq(Request) /\ mem.trans \in Seq(Request)
        /\ Path = (mem.dram \o mem.trans) \o q
    BY PathType
  <2>4. Len(mem.dram) \in Nat
    BY <2>3
  <2>5. QED
    BY <2>1, <2>2, <2>3, <2>4
<1>2. /\ k \in Answerable(mem.dram) \cup {0}
      /\ mem' = [t EXCEPT !.dram = IF k = 0 THEN @ ELSE RemoveAt(@, k)]
      /\ send' = << >> /\ pimSend' = << >>
  BY <1>0 DEF MemoryServes
<1> HIDE DEF q
<1>3. m \in Seq(Request) /\ Merged(q, m)
  BY <1>1, MergeResult
<1> HIDE DEF m
<1>4. u \in Seq(Request) /\ Merged(Path, u)
  BY <1>1, <1>3, MergedPrefix, JoinedRequests
<1>5. /\ t = [queue |-> t.queue, trans |-> t.trans, dram |-> t.dram]
      /\ t.queue \in Seq(Request) /\ t.trans \in Seq(Request) /\ t.dram \in Seq(Request)
      /\ Len(t.dram) <= DramDepth /\ Len(t.trans) <= 1
      /\ t.trans # << >> => Len(t.dram) >= DramDepth
      /\ (t.dram \o t.trans) \o t.queue = u
      /\ \A i \in 1 .. Len(mem.dram) : i \in 1 .. Len(t.dram) /\ t.dram[i] = mem.dram[i]
  <2>1. m \in Seq(Request) /\ mem.trans \in Seq(Request) /\ mem.dram \in Seq(Request)
    BY <1>1, <1>3
  <2>2. Len(mem.trans) <= 1 /\ Len(mem.dram) <= DramDepth
    BY <1>1
  <2> HIDE DEF u
  <2>3. u = (mem.dram \o mem.trans) \o m
    BY DEF u
  <2>4. MovedAlong(m, mem.trans, mem.dram, t)
    BY <1>0, <2>1, <2>2, AddsTransaction
  <2>5. QED
    BY <2>3, <2>4 DEF MovedAlong
<1>6. k # 0 => k \in 1 .. Len(mem.dram) /\ k \in DOMAIN mem.dram
  BY <1>1, <1>2 DEF Answerable
<1> HIDE DEF u
<1>7. PICK d : d = IF k = 0 THEN t.dram ELSE RemoveAt(t.dram, k)
  OBVIOUS
<1>8. mem' = [queue |-> t.queue, trans |-> t.trans, dram |-> d]
  <2>1. mem' = [t EXCEPT !.dram = d]
    BY <1>2, <1>7
  <2>2. QED
    BY <1>5, <2>1
<1>9. Len(t.dram) \in Nat /\ k \in Nat
  BY <1>1, <1>5
<1>10. d \in Seq(Request) /\ Len(d) <= DramDepth /\ Len(d) >= Len(t.dram) - 1
  <2>1. CASE k = 0
    BY <1>1, <1>5, <1>7, <1>9, <2>1
  <2>2. CASE k # 0
    <3>1. k \in 1 .. Len(t.dram)
      BY <1>5, <1>6, <2>2
    <3>2. RemoveAt(t.dram, k) \in Seq(Request) /\ Len(RemoveAt(t.dram, k)) = Len(t.dram) - 1
      BY <1>5, <3>1, RemovedRequest
    <3>3. QED
      BY <1>1, <1>5, <1>7, <1>9, <2>2, <3>2
  <2>3. QED
    BY <2>1, <2>2
<1>11. mem' \in Mems /\ mem'.dram = d /\ mem'.trans = t.trans /\ mem'.queue = t.queue
  BY <1>5, <1>8, <1>10 DEF Mems
<1>12. Len(d) \in Nat
  BY <1>10
<1>13. t.trans # << >> => Len(d) >= DramDepth - 1
  BY <1>1, <1>5, <1>9, <1>10, <1>12
<1>14. Path' = (d \o t.trans) \o t.queue
  <2>1. Path' = (((mem'.dram \o mem'.trans) \o mem'.queue) \o send') \o pimSend'
    BY DEF Path
  <2>2. (d \o t.trans) \o t.queue \in Seq(Request)
    BY <1>5, <1>10, JoinedRequests
  <2>3. PICK x \in Seq(Request) : x = (d \o t.trans) \o t.queue
    BY <2>2
  <2>4. Path' = (x \o << >>) \o << >>
    BY <1>2, <1>11, <2>1, <2>3
  <2>5. QED
    BY <2>3, <2>4, JoinEmpty
<1>15. k = 0 => Path' = u
  BY <1>5, <1>7, <1>14
<1>16. ASSUME k # 0 PROVE k \in 1 .. Len(u) /\ u[k] = mem.dram[k] /\ Path' = RemoveAt(u, k)
  <2>1. k \in 1 .. Len(mem.dram) /\ k \in 1 .. Len(t.dram) /\ t.dram[k] = mem.dram[k]
    BY <1>5, <1>6, <1>16
  <2> DEFINE x == t.dram \o t.trans
  <2>2. x \in Seq(Request) /\ k \in 1 .. Len(x) /\ x[k] = t.dram[k]
    BY <1>5, <2>1, JoinedRequests
  <2>3. RemoveAt(x, k) = d \o t.trans
    BY <1>5, <1>7, <1>16, <2>1, RemovedPrefix
  <2>4. u = x \o t.queue
    BY <1>5
  <2> HIDE DEF x
  <2>5. k \in 1 .. Len(u) /\ u[k] = x[k]
    BY <1>5, <2>2, <2>4, JoinedRequests
  <2>6. RemoveAt(u, k) = RemoveAt(x, k) \o t.queue
    <3>1. t.queue \in Seq(Request)
      BY <1>5
    <3>2. RemoveAt(x, k) \o t.queue = RemoveAt(x \o t.queue, k)
      BY <2>2, <3>1, RemovedPrefix
    <3>3. QED
      BY <2>4, <3>2
  <2>7. QED
    BY <1>14, <2>1, <2>2, <2>3, <2>5, <2>6
<1>17. \E y \in Seq(Request) :
         /\ Merged(Path, y)
         /\ k = 0 => Path' = y
         /\ k # 0 => k \in 1 .. Len(y) /\ y[k] = mem.dram[k] /\ Path' = RemoveAt(y, k)
  BY <1>4, <1>15, <1>16
<1>18. QED
  BY <1>6, <1>10, <1>11, <1>13, <1>17, <1>5

LEMMA Typing ==
  ASSUME TypeOK
  PROVE  /\ cache \in Caches /\ unit \in Units /\ mem \in Mems
         /\ unit.curr \in Functions \cup {NoFunction} /\ unit.load \in [LoadStages -> LoadStates]
         /\ unit.computed \in BOOLEAN /\ unit.store \in StoreStates
         /\ unit = [curr |-> unit.curr, load |-> unit.load, computed |-> unit.computed,
                    store |-> unit.store]
         /\ pimWait \in Seq(PimRequest) /\ pimWait \in Seq(Request)
         /\ wait \in Seq(HostRequest)
<1>1. cache \in Caches /\ unit \in Units /\ mem \in Mems
  BY DEF TypeOK, Caches, Units, Mems
<1>2. /\ unit.curr \in Functions \cup {NoFunction} /\ unit.load \in [LoadStages -> LoadStates]
      /\ unit.computed \in BOOLEAN /\ unit.store \in StoreStates
      /\ unit = [curr |-> unit.curr, load |-> unit.load, computed |-> unit.computed,
                 store |-> unit.store]
  BY <1>1 DEF Units
<1>3. pimWait \in Seq(PimRequest) /\ wait \in Seq(HostRequest)
  BY DEF TypeOK
<1>4. QED
  BY <1>1, <1>2, <1>3, Subtypes

LEMMA Parting ==
  /\ \A x, y : <<x>> = <<y>> => x = y
  /\ \A x, p : <<"proc", p>> # <<x>>
  /\ \A part \in Parts : <<part>> \in Phases
  /\ \A p \in Procs : <<"proc", p>> \in Phases
  /\ 1 \in Procs
<1>1. \A x, y : <<x>> = <<y>> => x = y
  OBVIOUS
<1>2. \A x, p : <<"proc", p>> # <<x>>
  <2>1. \A x, p : Len(<<"proc", p>>) = 2 /\ Len(<<x>>) = 1
    OBVIOUS
  <2>2. QED
    BY <2>1
<1>3. 1 \in Procs
  BY FastRequestsAssumption DEF Procs
<1>4. QED
  BY <1>1, <1>2, <1>3 DEF Phases

(* The stages of a unit that is idle or computes do not wait. *)
LEMMA NobodyWaits ==
  ASSUME UnitOK
  PROVE  unit.curr = NoFunction \/ unit.computed => Outs(unit.load, unit.store) = {}
<1>1. CASE unit.curr = NoFunction
  <2>1. unit.load = [s \in LoadStages |-> "Empty"] /\ unit.store = "NoOP"
    BY <1>1 DEF UnitOK, IdleUnit
  <2>2. QED
    BY <2>1 DEF Outs
<1>2. CASE unit.computed
  BY <1>2 DEF UnitOK, Outs
<1>3. QED
  BY <1>1, <1>2

(* The callback of the unit. *)
LEMMA CalledBack ==
  ASSUME IInv, NEW r \in PimRequest, r.stage \in Outs(unit.load, unit.store),
         NEW v, v = UnitCallback(r)
  PROVE  /\ v \in Units
         /\ v.curr = unit.curr /\ v.computed = unit.computed
         /\ v.load = LoadAfter(unit.load, r.stage) /\ v.store = StoreAfter(unit.store, r.stage)
         /\ ~v.computed /\ v.curr # NoFunction
<1> DEFINE s == r.stage
<1>1. TypeOK /\ UnitOK /\ OneKind(unit.load, unit.store)
  BY DEF IInv, Wires, Carried
<1>2. /\ unit.curr \in Functions \cup {NoFunction} /\ unit.load \in [LoadStages -> LoadStates]
      /\ unit.computed \in BOOLEAN /\ unit.store \in StoreStates
      /\ unit = [curr |-> unit.curr, load |-> unit.load, computed |-> unit.computed,
                 store |-> unit.store]
  BY <1>1, Typing
<1>3. s \in Outs(unit.load, unit.store) /\ unit.curr # NoFunction /\ ~unit.computed
  BY <1>1, NobodyWaits
<1>4. LoadAfter(unit.load, s) \in [LoadStages -> LoadStates] /\ StoreAfter(unit.store, s) \in StoreStates
  BY <1>1, <1>2, <1>3, AnsweredStage
<1>5. v = [curr |-> unit.curr, load |-> LoadAfter(unit.load, s), computed |-> unit.computed,
           store |-> StoreAfter(unit.store, s)]
  <2>1. CASE s = StoreStage
    <3>1. v = [unit EXCEPT !.store = "Complete"]
      BY <2>1 DEF UnitCallback
    <3>2. QED
      BY <1>2, <2>1, <3>1 DEF LoadAfter, StoreAfter
  <2>2. CASE s # StoreStage
    <3>1. PICK l : l = [unit.load EXCEPT ![s] = "Complete"]
      OBVIOUS
    <3>2. v = [unit EXCEPT !.load = l]
      BY <2>2, <3>1 DEF UnitCallback
    <3>3. LoadAfter(unit.load, s) = l /\ StoreAfter(unit.store, s) = unit.store
      BY <2>2, <3>1 DEF LoadAfter, StoreAfter
    <3>4. QED
      BY <1>2, <3>2, <3>3
  <2>3. QED
    BY <2>1, <2>2
<1> HIDE DEF s
<1>6. QED
  BY <1>2, <1>3, <1>4, <1>5 DEF Units, s

LEMMA ServesKeeps ==
  ASSUME IInv, NEW k \in 0 .. DramDepth, MemoryServes(k)
  PROVE  IInv'
<1>1. TypeOK /\ UnitOK /\ Wires(unit.curr, unit.load, unit.store, pimWait, Path, locked)
  BY DEF IInv
<1>2. /\ mem' \in Mems /\ Len(mem'.dram) <= DramDepth /\ Len(mem'.trans) <= 1
      /\ mem'.trans # << >> => Len(mem'.dram) >= DramDepth - 1
      /\ k # 0 => k \in DOMAIN mem.dram
  BY <1>1, ServesPath
<1>3. PICK u \in Seq(Request) :
        /\ Merged(Path, u)
        /\ k = 0 => Path' = u
        /\ k # 0 => k \in 1 .. Len(u) /\ u[k] = mem.dram[k] /\ Path' = RemoveAt(u, k)
  BY <1>1, ServesPath
<1>4. /\ cache \in Caches /\ unit \in Units /\ mem \in Mems
      /\ unit.curr \in Functions \cup {NoFunction} /\ unit.load \in [LoadStages -> LoadStates]
      /\ unit.store \in StoreStates /\ pimWait \in Seq(PimRequest) /\ Path \in Seq(Request)
  BY <1>1, Typing, PathType
<1>5. Wires(unit.curr, unit.load, unit.store, pimWait, u, locked)
  BY <1>1, <1>3, <1>4, WiresMerged DEF Merged
<1>6. /\ send' = << >> /\ pimSend' = << >> /\ phase' = <<"mctrl">>
      /\ UNCHANGED <<locked, wait, pimWait, frame, todo, budget>>
      /\ k = 0 => UNCHANGED <<unit, cache, mshr>>
      /\ k # 0 => Answer(mem.dram[k])
  BY DEF MemoryServes, Go
<1>7. /\ unit' \in Units /\ cache' \in Caches
      /\ mshr' \in [Procs -> SUBSET [addr : Addr, block : Addr]]
      /\ Wires(unit'.curr, unit'.load, unit'.store, pimWait, Path', locked)
      /\ unit' = unit \/ (unit'.curr # NoFunction /\ ~unit'.computed)
  <2>0. mshr \in [Procs -> SUBSET [addr : Addr, block : Addr]]
    BY <1>1 DEF TypeOK
  <2>1. CASE k = 0
    BY <1>3, <1>4, <1>5, <1>6, <2>0, <2>1
  <2>2. CASE k # 0
    <3>1. PICK r \in Request : r = mem.dram[k]
      <4>1. mem.dram \in Seq(Request) /\ k \in DOMAIN mem.dram
        BY <1>2, <1>4, <2>2 DEF Mems
      <4>2. QED
        BY <4>1
    <3>2. k \in 1 .. Len(u) /\ u[k] = r /\ Path' = RemoveAt(u, k) /\ Answer(r)
      BY <1>3, <1>6, <2>2, <3>1
    <3>3. CASE r.pim
      <4>1. r \in PimRequest /\ UNCHANGED <<cache, mshr>> /\ unit' = UnitCallback(r)
        BY <3>2, <3>3, Fields DEF Answer
      <4>2. r.stage \in Outs(unit.load, unit.store)
        BY <1>5, <3>2, <3>3 DEF Wires, Carried, PimGood
      <4>3. PICK v : v = unit'
        OBVIOUS
      <4>4. /\ v \in Units /\ v.curr = unit.curr
            /\ v.load = LoadAfter(unit.load, r.stage) /\ v.store = StoreAfter(unit.store, r.stage)
            /\ ~v.computed /\ v.curr # NoFunction
        BY <4>1, <4>2, <4>3, CalledBack
      <4>5. Wires(unit.curr, LoadAfter(unit.load, r.stage), StoreAfter(unit.store, r.stage),
                  pimWait, RemoveAt(u, k), locked)
        BY <1>4, <1>5, <3>2, <3>3, WiresAnswered
      <4>6. QED
        BY <1>4, <2>0, <3>2, <4>1, <4>3, <4>4, <4>5
    <3>4. CASE ~r.pim
      <4>1. r \in HostRequest
        BY <3>4, Fields
      <4>2. UNCHANGED unit
        BY <3>2, <3>4 DEF Answer
      <4>3. Wires(unit.curr, unit.load, unit.store, pimWait, RemoveAt(u, k), locked)
        BY <1>4, <1>5, <3>2, <3>4, WiresHostAnswered
      <4>4. CASE r.type = "FLUSH"
        <5>1. UNCHANGED <<cache, mshr>>
          BY <3>2, <3>4, <4>4 DEF Answer
        <5>2. QED
          BY <1>4, <2>0, <3>2, <4>2, <4>3, <5>1
      <4>5. CASE r.type # "FLUSH"
        <5>1. /\ mshr' = [p \in Procs |-> IF p \in r.pids THEN {e \in mshr[p] : e.block # r.block}
                                                          ELSE mshr[p]]
              /\ cache' \in CallbackCaches(r)
          BY <3>2, <3>4, <4>5 DEF Answer
        <5>2. cache' \in Caches
          BY <1>4, <4>1, <5>1, CallbackType
        <5>3. mshr' \in [Procs -> SUBSET [addr : Addr, block : Addr]]
          BY <2>0, <5>1
        <5>4. QED
          BY <1>4, <3>2, <4>2, <4>3, <5>2, <5>3
      <4>6. QED
        BY <4>4, <4>5
    <3>5. QED
      BY <3>3, <3>4
  <2>3. QED
    BY <2>1, <2>2
<1>8. TypeOK'
  <2>1. phase' \in Phases
    BY <1>6, Parting DEF Parts
  <2>2. send' \in Seq(HostRequest) /\ pimSend' \in Seq(PimRequest)
    BY <1>6
  <2>3. QED
    BY <1>1, <1>2, <1>6, <1>7, <2>1, <2>2 DEF TypeOK, Caches, Units, Mems
<1>9. UnitOK'
  BY <1>1, <1>7 DEF UnitOK
<1>10. Order'
  BY <1>6 DEF Order
<1>11. Refused'
  <2>1. ~At("stopped")'
    BY <1>6, Parting DEF At
  <2>2. QED
    BY <1>2, <2>1 DEF Refused
<1>12. Wires(unit.curr, unit.load, unit.store, pimWait, Path, locked)'
  BY <1>6, <1>7
<1>13. QED
  BY <1>8, <1>9, <1>10, <1>11, <1>12 DEF IInv

-----------------------------------------------------------------------------
(* The controllers and the processors *)

LEMMA SamePath ==
  ASSUME UNCHANGED <<mem, send, pimSend>>
  PROVE  Path' = Path
BY DEF Path

LEMMA ThrowsKeeps ==
  ASSUME IInv, MemoryThrows
  PROVE  IInv'
<1>1. /\ phase' = <<"threw">>
      /\ UNCHANGED <<locked, wait, send, pimWait, pimSend, mem, cache, frame, mshr, unit, todo, budget>>
  BY DEF MemoryThrows, Go
<1>2. phase' \in Phases
  BY <1>1, Parting DEF Parts
<1>3. TypeOK'
  BY <1>1, <1>2 DEF IInv, TypeOK
<1>4. ~At("mctrl")' /\ ~At("pimctrl")' /\ ~At("stopped")'
  BY <1>1, Parting DEF At
<1>5. Order' /\ UnitOK' /\ Refused'
  BY <1>1, <1>4 DEF IInv, Order, UnitOK, Refused
<1>6. Path' = Path
  BY <1>1, SamePath
<1>7. Wires(unit.curr, unit.load, unit.store, pimWait, Path, locked)'
  BY <1>1, <1>6 DEF IInv
<1>8. QED
  BY <1>3, <1>5, <1>7 DEF IInv

LEMMA MctrlKeeps ==
  ASSUME IInv, MctrlStep
  PROVE  IInv'
<1> DEFINE free == {k \in DOMAIN wait : LockPage(wait[k].addr) \notin locked}
           h == Pick(wait, free)
           g == Transferred(h)
<1>1. TypeOK /\ UnitOK /\ Wires(unit.curr, unit.load, unit.store, pimWait, Path, locked)
  BY DEF IInv
<1>2. At("mctrl") /\ send = << >> /\ pimSend = << >>
  BY DEF MctrlStep, IInv, Order
<1>3. /\ send' = send \o g /\ wait' = Pick(wait, DOMAIN wait \ free)
      /\ phase' = <<"pimctrl">>
      /\ UNCHANGED <<locked, pimWait, pimSend, mem, cache, frame, mshr, unit, todo, budget>>
  BY DEF MctrlStep, Go
<1>4. wait \in Seq(HostRequest) /\ Len(wait) <= CrtlQueueMax /\ Len(wait) \in Nat /\ CrtlQueueMax \in Nat
  BY <1>1, FastOffloadAssumption DEF TypeOK
<1>5. /\ h \in Seq(HostRequest)
      /\ \A n \in 1 .. Len(h) : \E k \in free : h[n] = wait[k]
  <2>1. free \in SUBSET (DOMAIN wait)
    OBVIOUS
  <2> HIDE DEF free
  <2>2. QED
    BY <1>4, <2>1, Picked
<1>6. wait' \in Seq(HostRequest) /\ Len(wait') <= Len(wait)
  <2>1. (DOMAIN wait \ free) \in SUBSET (DOMAIN wait)
    OBVIOUS
  <2> HIDE DEF free
  <2>2. QED
    BY <1>3, <1>4, <2>1, Picked
<1>7. Len(wait') <= CrtlQueueMax
  <2>1. Len(wait') \in Nat
    BY <1>6
  <2>2. QED
    BY <1>4, <1>6, <2>1
<1>8. \A n \in 1 .. Len(h) : LockPage(h[n].addr) \notin locked
  BY <1>5
<1> HIDE DEF h
<1>9. h \in Seq(Request)
  BY <1>5, Subtypes
<1>10. /\ g \in Seq(HostRequest) /\ Len(g) = Len(h) /\ Resized(g)
       /\ \A k \in 1 .. Len(h) : resize(g[k].addr) = resize(h[k].addr)
  BY <1>5, <1>9, Transfers
<1> HIDE DEF g
<1>11. \A k \in 1 .. Len(g) : LockPage(g[k].addr) \notin locked
  BY <1>8, <1>10 DEF LockPage
<1>12. /\ unit.curr \in Functions \cup {NoFunction}
       /\ pimWait \in Seq(PimRequest) /\ Path \in Seq(Request)
  BY <1>1, Typing, PathType
<1>13. Wires(unit.curr, unit.load, unit.store, pimWait, Path \o g, locked)
  BY <1>1, <1>10, <1>11, <1>12, WiresHosts
<1>14. g \in Seq(Request)
  BY <1>10, Subtypes
<1>15. Path' = Path \o g /\ send' = g
  <2> DEFINE x == (mem.dram \o mem.trans) \o mem.queue
  <2>1. x \in Seq(Request)
    BY <1>1, PathType, JoinedRequests
  <2>2. Path = (x \o << >>) \o << >> /\ Path' = (x \o (<< >> \o g)) \o << >>
    BY <1>2, <1>3 DEF Path
  <2> HIDE DEF x
  <2>3. x \o << >> = x /\ << >> \o g = g /\ x \o g \in Seq(Request)
    BY <1>14, <2>1, JoinEmpty, JoinedRequests
  <2>4. (x \o g) \o << >> = x \o g
    BY <2>3, JoinEmpty
  <2>5. QED
    BY <1>2, <1>3, <2>2, <2>3, <2>4
<1>16. TypeOK'
  <2>1. phase' \in Phases
    BY <1>3, Parting DEF Parts
  <2>2. QED
    BY <1>1, <1>3, <1>6, <1>7, <1>10, <1>15, <2>1 DEF TypeOK
<1>17. Order'
  <2>1. ~At("mctrl")'
    BY <1>3, Parting DEF At
  <2>2. QED
    BY <1>2, <1>3, <2>1 DEF Order
<1>18. UnitOK'
  BY <1>1, <1>3 DEF UnitOK
<1>19. Refused'
  <2>1. ~At("stopped")'
    BY <1>3, Parting DEF At
  <2>2. QED
    BY <1>3, <2>1 DEF IInv, Refused
<1>20. Wires(unit.curr, unit.load, unit.store, pimWait, Path, locked)'
  BY <1>3, <1>13, <1>15
<1>21. QED
  BY <1>16, <1>17, <1>18, <1>19, <1>20 DEF IInv

LEMMA PIMMctrlKeeps ==
  ASSUME IInv, PIMMctrlStep
  PROVE  IInv'
<1> DEFINE stays == pimWait # << >> /\ ~FlushSucceeds(cache, 0)
           v == IF stays THEN SubSeq(pimWait, 1, 1) ELSE << >>
           t == IF stays THEN Tail(pimWait) ELSE pimWait
           V == PagesOf(v)
           T == PagesOf(t)
           c == IF stays THEN 1 ELSE 0
<1>1. TypeOK /\ UnitOK /\ Wires(unit.curr, unit.load, unit.store, pimWait, Path, locked)
  BY DEF IInv
<1>2. At("pimctrl") /\ pimSend = << >>
  BY DEF PIMMctrlStep, IInv, Order
<1>3. /\ pimWait' = v /\ pimSend' = pimSend \o Transferred(t)
      /\ locked' = (locked \ V) \cup T
      /\ cache' = IF pimWait = << >> THEN cache ELSE Flushed(cache, 0)
      /\ phase' = <<"proc", 1>>
      /\ UNCHANGED <<wait, send, mem, frame, mshr, unit, todo, budget>>
  BY DEF PIMMctrlStep, PagesOf
<1>4. /\ pimWait \in Seq(PimRequest) /\ Len(pimWait) \in Nat /\ CrtlQueueMax \in Nat
      /\ Len(pimWait) <= CrtlQueueMax
  BY <1>1, FastOffloadAssumption DEF TypeOK
<1>5. /\ v \in Seq(PimRequest) /\ t \in Seq(PimRequest) /\ c \in Nat
      /\ Len(v) = c /\ Len(pimWait) = c + Len(t)
      /\ \A k \in 1 .. c : v[k] = pimWait[k]
      /\ \A k \in 1 .. Len(t) : t[k] = pimWait[c + k]
  <2>1. CASE stays
    <3>1. Len(pimWait) >= 1
      BY <1>4, <2>1
    <3>2. /\ SubSeq(pimWait, 1, 1) \in Seq(PimRequest) /\ Len(SubSeq(pimWait, 1, 1)) = 1
          /\ SubSeq(pimWait, 1, 1)[1] = pimWait[1]
      BY <1>4, <3>1
    <3>3. /\ Tail(pimWait) \in Seq(PimRequest) /\ Len(Tail(pimWait)) = Len(pimWait) - 1
          /\ \A k \in 1 .. Len(pimWait) - 1 : Tail(pimWait)[k] = pimWait[1 + k]
      BY <1>4, <2>1
    <3>4. v = SubSeq(pimWait, 1, 1) /\ t = Tail(pimWait) /\ c = 1
      BY <2>1
    <3> HIDE DEF v, t, c
    <3>5. QED
      BY <1>4, <3>2, <3>3, <3>4
  <2>2. CASE ~stays
    BY <1>4, <2>2
  <2>3. QED
    BY <2>1, <2>2
<1> HIDE DEF stays, v, t, c
<1>6. /\ unit.curr \in Functions \cup {NoFunction} /\ unit.load \in [LoadStages -> LoadStates]
      /\ unit.store \in StoreStates /\ Path \in Seq(Request) /\ cache \in Caches
  BY <1>1, Typing, PathType
<1>7. unit.curr = NoFunction => Outs(unit.load, unit.store) = {}
  BY <1>1, NobodyWaits
<1>8. Wires(unit.curr, unit.load, unit.store, v, Path \o Transferred(t), (locked \ V) \cup T)
  BY <1>1, <1>4, <1>5, <1>6, <1>7, WiresMoves
<1>9. t \in Seq(Request) /\ v \in Seq(Request)
  BY <1>5, Subtypes
<1>10. Transferred(t) \in Seq(PimRequest) /\ Transferred(t) \in Seq(Request)
  BY <1>5, <1>9, Transfers
<1>11. Path' = Path \o Transferred(t) /\ pimSend' = Transferred(t)
  <2> DEFINE x == ((mem.dram \o mem.trans) \o mem.queue) \o send
  <2>1. x \in Seq(Request)
    BY <1>1, PathType, JoinedRequests
  <2>2. Path = x \o << >> /\ Path' = x \o (<< >> \o Transferred(t))
    BY <1>2, <1>3 DEF Path
  <2> HIDE DEF x
  <2>3. x \o << >> = x /\ << >> \o Transferred(t) = Transferred(t)
    BY <1>10, <2>1, JoinEmpty
  <2>4. QED
    BY <1>2, <1>3, <2>2, <2>3
<1>12. cache' \in Caches
  <2>1. 0 \in Addr
    BY FastRequestsAssumption DEF Addr
  <2>2. frame \in Frames
    BY <1>1 DEF TypeOK
  <2>3. Flushed(cache, 0) \in Caches
    BY <1>6, <2>1, <2>2, FlushedType
  <2>4. QED
    BY <1>3, <1>6, <2>3
<1>13. locked' \subseteq Pages
  <2>1. \A k \in DOMAIN t : LockPage(t[k].addr) \in Pages
    <3>1. \A k \in DOMAIN t : t[k] \in Request
      BY <1>9
    <3>2. QED
      BY <3>1, Fields, Paging
  <2>2. QED
    BY <1>1, <1>3, <2>1 DEF TypeOK, PagesOf
<1>14. pimWait' \in Seq(PimRequest) /\ Len(pimWait') <= CrtlQueueMax
  <2>1. Len(t) \in Nat
    BY <1>5
  <2>2. QED
    BY <1>3, <1>4, <1>5, <2>1
<1>15. TypeOK'
  <2>1. phase' \in Phases
    BY <1>3, Parting
  <2>2. QED
    BY <1>1, <1>3, <1>10, <1>11, <1>12, <1>13, <1>14, <2>1 DEF TypeOK, Caches
<1>16. ~At("mctrl")' /\ ~At("pimctrl")' /\ ~At("stopped")'
  BY <1>3, Parting DEF At
<1>17. Order' /\ UnitOK' /\ Refused'
  BY <1>1, <1>3, <1>16 DEF IInv, Order, UnitOK, Refused
<1>18. Wires(unit.curr, unit.load, unit.store, pimWait, Path, locked)'
  <2>1. unit' = unit /\ pimWait' = v /\ Path' = Path \o Transferred(t) /\ locked' = (locked \ V) \cup T
    BY <1>3, <1>11
  <2> HIDE DEF V, T
  <2>2. QED
    BY <1>8, <2>1
<1>19. QED
  BY <1>15, <1>17, <1>18 DEF IInv

LEMMA ProcStepKeeps ==
  ASSUME IInv, NEW p \in Procs, NEW w \in Seq(HostRequest), Len(w) <= CrtlQueueMax,
         NEW c \in Caches, NEW m \in [Procs -> SUBSET [addr : Addr, block : Addr]],
         NEW spent \in {0, 1}, spent = 1 => budget > 0, ProcStep(p, w, c, m, spent)
  PROVE  IInv'
<1>1. TypeOK /\ UnitOK /\ Wires(unit.curr, unit.load, unit.store, pimWait, Path, locked)
  BY DEF IInv
<1>2. /\ wait' = w /\ cache' = c /\ mshr' = m /\ budget' = budget - spent
      /\ phase' = NextPhase(p)
      /\ UNCHANGED <<locked, send, pimWait, pimSend, mem, frame, unit, todo>>
  BY DEF ProcStep
<1>3. budget' \in 0 .. HostOps
  <2>1. budget \in 0 .. HostOps /\ HostOps \in Nat
    BY <1>1, FastOffloadAssumption DEF TypeOK
  <2>2. QED
    BY <1>2, <2>1
<1>4. phase' = <<"unit">> \/ \E i \in Procs : phase' = <<"proc", i>>
  <2>1. CASE p = NProc
    BY <1>2, <2>1 DEF NextPhase
  <2>2. CASE p # NProc
    <3>1. p + 1 \in Procs
      BY <2>2, FastRequestsAssumption DEF Procs
    <3>2. QED
      BY <1>2, <2>2, <3>1 DEF NextPhase
  <2>3. QED
    BY <2>1, <2>2
<1>5. phase' \in Phases /\ ~At("mctrl")' /\ ~At("pimctrl")' /\ ~At("stopped")'
  <2>1. CASE phase' = <<"unit">>
    BY <2>1, Parting DEF At, Parts
  <2>2. CASE \E i \in Procs : phase' = <<"proc", i>>
    BY <2>2, Parting DEF At
  <2>3. QED
    BY <1>4, <2>1, <2>2
<1>6. TypeOK'
  BY <1>1, <1>2, <1>3, <1>5 DEF TypeOK, Caches
<1>7. Order' /\ UnitOK' /\ Refused'
  BY <1>2, <1>5 DEF IInv, Order, UnitOK, Refused
<1>8. Path' = Path
  BY <1>2, SamePath
<1>9. Wires(unit.curr, unit.load, unit.store, pimWait, Path, locked)'
  BY <1>1, <1>2, <1>8
<1>10. QED
  BY <1>6, <1>7, <1>9 DEF IInv

LEMMA RoomIsRoom ==
  ASSUME NEW S, NEW q \in Seq(S), NEW e \in S, Room(q)
  PROVE  Append(q, e) \in Seq(S) /\ Len(Append(q, e)) <= CrtlQueueMax
<1>1. CrtlQueueMax \in Nat /\ Len(q) \in Nat /\ Len(Append(q, e)) = Len(q) + 1
      /\ Append(q, e) \in Seq(S)
  BY FastOffloadAssumption
<1>2. Len(q) + 1 <= CrtlQueueMax
  BY <1>1 DEF Room
<1>3. QED
  BY <1>1, <1>2

LEMMA AfterWriteBackType ==
  ASSUME TypeOK, NEW p \in Procs
  PROVE  /\ AfterWriteBack(p).wait \in Seq(HostRequest)
         /\ Len(AfterWriteBack(p).wait) <= CrtlQueueMax
         /\ AfterWriteBack(p).wb \in [Procs -> Seq(HostRequest)]
<1>1. wait \in Seq(HostRequest) /\ Len(wait) <= CrtlQueueMax
  BY DEF TypeOK
<1>2. cache.wb \in [Procs -> Seq(HostRequest)]
  BY DEF TypeOK
<1>3. CASE cache.wb[p] # << >> /\ Room(wait)
  <2>1. cache.wb[p] \in Seq(HostRequest)
    BY <1>2
  <2>2. Head(cache.wb[p]) \in HostRequest /\ Tail(cache.wb[p]) \in Seq(HostRequest)
    BY <1>3, <2>1
  <2>3. /\ Append(wait, Head(cache.wb[p])) \in Seq(HostRequest)
        /\ Len(Append(wait, Head(cache.wb[p]))) <= CrtlQueueMax
    BY <1>1, <1>3, <2>2, RoomIsRoom
  <2>4. [cache.wb EXCEPT ![p] = Tail(@)] \in [Procs -> Seq(HostRequest)]
    BY <1>2, <2>2
  <2>5. /\ AfterWriteBack(p).wait = Append(wait, Head(cache.wb[p]))
        /\ AfterWriteBack(p).wb = [cache.wb EXCEPT ![p] = Tail(@)]
    BY <1>3 DEF AfterWriteBack
  <2>6. QED
    BY <2>3, <2>4, <2>5
<1>4. CASE ~(cache.wb[p] # << >> /\ Room(wait))
  <2>1. AfterWriteBack(p).wait = wait /\ AfterWriteBack(p).wb = cache.wb
    BY <1>4 DEF AfterWriteBack
  <2>2. QED
    BY <1>1, <1>2, <2>1
<1>5. QED
  BY <1>3, <1>4

LEMMA ProcKeeps ==
  ASSUME IInv, NEW p \in Procs, ProcSteps(p)
  PROVE  IInv'
<1>1. TypeOK
  BY DEF IInv
<1>2. PICK w \in Seq(HostRequest), wb \in [Procs -> Seq(HostRequest)] :
        AfterWriteBack(p).wait = w /\ AfterWriteBack(p).wb = wb /\ Len(w) <= CrtlQueueMax
  BY <1>1, AfterWriteBackType
<1>3. cache \in Caches /\ mshr \in [Procs -> SUBSET [addr : Addr, block : Addr]]
  BY <1>1, Typing DEF TypeOK
<1>4. [cache EXCEPT !.wb = wb] \in Caches
  BY <1>2, <1>3 DEF Caches
<1>5. PICK c \in Caches : c = [cache EXCEPT !.wb = wb]
  BY <1>4
<1>6. CASE ProcIdles(p)
  <2>1. ProcStep(p, w, c, mshr, 0)
    BY <1>2, <1>5, <1>6 DEF ProcIdles
  <2>2. QED
    BY <1>2, <1>3, <2>1, ProcStepKeeps
<1>7. ASSUME NEW a \in HostAddrs PROVE a \in Addr /\ frame[a] \in Addr
  BY <1>1, FastOffloadAssumption DEF TypeOK
<1>8. ASSUME NEW a \in HostAddrs, ProcHits(p, a) PROVE IInv'
  <2>1. PICK b \in Addr : b = frame[a]
    BY <1>7
  <2>2. /\ budget > 0
        /\ \/ ProcStep(p, w, [c EXCEPT !.l1[p] = @ \cup {b}], mshr, 1)
           \/ ProcStep(p, w, [c EXCEPT !.llc = @ \cup {b}], mshr, 1)
    BY <1>2, <1>5, <1>8, <2>1 DEF ProcHits
  <2>3. /\ c.l1 \in [Procs -> SUBSET Addr] /\ c.llc \subseteq Addr
        /\ c = [l1 |-> c.l1, llc |-> c.llc, wb |-> c.wb] /\ c.wb \in [Procs -> Seq(HostRequest)]
    BY DEF Caches
  <2>4. [c EXCEPT !.l1[p] = @ \cup {b}] \in Caches
    <3>1. PICK l \in [Procs -> SUBSET Addr] : l = [c.l1 EXCEPT ![p] = @ \cup {b}]
      BY <2>3
    <3>2. [c EXCEPT !.l1[p] = @ \cup {b}] = [c EXCEPT !.l1 = l]
      BY <3>1
    <3>3. QED
      BY <3>2 DEF Caches
  <2>5. [c EXCEPT !.llc = @ \cup {b}] \in Caches
    <3>1. PICK l \in SUBSET Addr : l = c.llc \cup {b}
      BY <2>3
    <3>2. [c EXCEPT !.llc = @ \cup {b}] = [c EXCEPT !.llc = l]
      BY <3>1
    <3>3. QED
      BY <3>2 DEF Caches
  <2>6. QED
    BY <1>2, <1>3, <2>2, <2>4, <2>5, ProcStepKeeps
<1>9. ASSUME NEW a \in HostAddrs, NEW type \in {"READ", "WRITE"}, ProcMisses(p, a, type)
      PROVE  IInv'
  <2>1. PICK b \in Addr : b = frame[a]
    BY <1>7
  <2>2. PICK r \in HostRequest : r = HostReq(type, p, a, b)
    <3>1. type \in HostTypes
      BY DEF HostTypes
    <3>2. QED
      BY <1>7, <3>1, HostReqType
  <2> DEFINE m == [mshr EXCEPT ![p] = @ \cup {[addr |-> a, block |-> b]}]
  <2>3. budget > 0 /\ Room(w) /\ ProcStep(p, Append(w, r), c, m, 1)
    BY <1>2, <1>5, <1>9, <2>1, <2>2 DEF ProcMisses
  <2>4. Append(w, r) \in Seq(HostRequest) /\ Len(Append(w, r)) <= CrtlQueueMax
    BY <2>3, RoomIsRoom
  <2>5. m \in [Procs -> SUBSET [addr : Addr, block : Addr]]
    BY <1>3, <1>7
  <2> HIDE DEF m
  <2>6. QED
    BY <2>3, <2>4, <2>5, ProcStepKeeps
<1>10. ASSUME NEW a \in HostAddrs, ProcRefused(p, a) PROVE IInv'
  <2>1. PICK b \in Addr : b = frame[a]
    BY <1>7
  <2> DEFINE m == [mshr EXCEPT ![p] = @ \cup {[addr |-> a, block |-> b]}]
  <2>2. budget > 0 /\ ProcStep(p, w, c, m, 1)
    BY <1>2, <1>5, <1>10, <2>1 DEF ProcRefused
  <2>3. m \in [Procs -> SUBSET [addr : Addr, block : Addr]]
    BY <1>3, <1>7
  <2> HIDE DEF m
  <2>4. QED
    BY <1>2, <2>2, <2>3, ProcStepKeeps
<1>11. QED
  BY <1>6, <1>8, <1>9, <1>10 DEF ProcSteps

-----------------------------------------------------------------------------
(* Adder_Conventional.Step() *)

(* Only the waiting stages matter. *)
LEMMA WiresSameOuts ==
  ASSUME NEW f, NEW ld, NEW st, NEW w, NEW q, NEW L, NEW l, NEW x,
         Wires(f, ld, st, w, q, L), Outs(l, x) = Outs(ld, st), OneKind(l, x)
  PROVE  Wires(f, l, x, w, q, L)
<1>1. PimGood(f, l, x, w) /\ PimGood(f, l, x, q)
  BY DEF Wires, Carried, PimGood
<1>2. Present(f, l, x, w, q)
  BY DEF Wires, Present
<1>3. QED
  BY <1>1, <1>2 DEF Wires, Carried

(* Without a waiting stage there is no PIM request, whatever the function. *)
LEMMA WiresIdle ==
  ASSUME NEW f, NEW ld, NEW st, NEW w, NEW q, NEW L, NEW g, NEW l, NEW x, NEW M,
         Wires(f, ld, st, w, q, L), Outs(ld, st) = {},
         Outs(l, x) = {}, OneKind(l, x), Owned(g, M)
  PROVE  Wires(g, l, x, w, q, M)
<1>1. \A k \in 1 .. Len(w) : ~w[k].pim
  BY DEF Wires, Carried, PimGood
<1>2. \A k \in 1 .. Len(q) : ~q[k].pim
  BY DEF Wires, Carried, PimGood
<1>3. PimGood(g, l, x, w) /\ PimGood(g, l, x, q)
  BY <1>1, <1>2 DEF PimGood
<1>4. Apart(w) /\ Apart(q) /\ ApartFrom(w, q) /\ Resized(q)
  BY DEF Wires, Carried
<1>5. Held(g, q, M) /\ Unfollowed(g, q)
  BY <1>2 DEF Held, Unfollowed
<1>6. Present(g, l, x, w, q)
  BY DEF Present
<1>7. QED
  BY <1>3, <1>4, <1>5, <1>6 DEF Wires, Carried

(* A stage sends its request. *)
LEMMA WiresSends ==
  ASSUME NEW f \in Functions, NEW ld, NEW st, NEW w \in Seq(PimRequest), NEW q \in Seq(Request),
         NEW L, NEW l, NEW x, NEW s, NEW r \in PimRequest,
         Wires(f, ld, st, w, q, L), s \notin Outs(ld, st), Outs(l, x) = Outs(ld, st) \cup {s},
         OneKind(l, x), r.stage = s, r.addr = AddrOf(f, s)
  PROVE  Wires(f, l, x, Append(w, r), q, L \cup {LockPage(AddrOf(f, s))})
<1> DEFINE v == Append(w, r)
           M == L \cup {LockPage(AddrOf(f, s))}
<1>1. /\ Len(w) \in Nat /\ Len(v) = Len(w) + 1
      /\ \A k \in 1 .. Len(w) : k \in 1 .. Len(v) /\ v[k] = w[k]
      /\ v[Len(v)] = r /\ Len(v) \in 1 .. Len(v)
      /\ \A k \in 1 .. Len(v) : k = Len(v) \/ (k \in 1 .. Len(w) /\ v[k] = w[k])
  OBVIOUS
<1>2. r.pim
  BY DEF PimRequest
<1> HIDE DEF v
<1>3. PimGood(f, l, x, v)
  <2>1. PimGood(f, ld, st, w)
    BY DEF Wires, Carried
  <2>2. QED
    BY <1>1, <2>1 DEF PimGood
<1>4. PimGood(f, l, x, q)
  BY DEF Wires, Carried, PimGood
<1>5. \A k \in 1 .. Len(w) : w[k].pim => w[k].stage # s
  BY DEF Wires, Carried, PimGood
<1>6. \A k \in 1 .. Len(q) : q[k].pim => q[k].stage # s
  BY DEF Wires, Carried, PimGood
<1>7. Apart(v)
  <2> SUFFICES ASSUME NEW i \in 1 .. Len(v), NEW j \in 1 .. Len(v),
                      v[i].pim, v[j].pim, v[i].stage = v[j].stage
               PROVE  i = j
    BY DEF Apart
  <2>1. CASE i = Len(v) /\ j = Len(v)
    BY <2>1
  <2>2. CASE i \in 1 .. Len(w) /\ v[i] = w[i] /\ j \in 1 .. Len(w) /\ v[j] = w[j]
    BY <2>2 DEF Wires, Carried, Apart
  <2>3. CASE i = Len(v) /\ j \in 1 .. Len(w) /\ v[j] = w[j]
    BY <1>1, <1>5, <2>3
  <2>4. CASE i \in 1 .. Len(w) /\ v[i] = w[i] /\ j = Len(v)
    BY <1>1, <1>5, <2>4
  <2>5. QED
    BY <1>1, <2>1, <2>2, <2>3, <2>4
<1>8. ApartFrom(v, q)
  <2>1. ApartFrom(w, q)
    BY DEF Wires, Carried
  <2>2. QED
    BY <1>1, <1>6, <2>1 DEF ApartFrom
<1>9. Apart(q) /\ Resized(q) /\ Unfollowed(f, q) /\ Held(f, q, M)
  BY DEF Wires, Carried, Held
<1>10. Present(f, l, x, v, q)
  <2> SUFFICES ASSUME f # NoFunction, ~SameOperand(f), NEW t \in Outs(l, x)
               PROVE  Names(v, t) \/ Names(q, t)
    BY DEF Present
  <2>1. CASE t = s
    BY <1>1, <1>2, <2>1 DEF Names
  <2>2. CASE t # s
    <3>1. Names(w, t) \/ Names(q, t)
      BY <2>2 DEF Wires, Present
    <3>2. Names(w, t) => Names(v, t)
      BY <1>1 DEF Names
    <3>3. QED
      BY <3>1, <3>2
  <2>3. QED
    BY <2>1, <2>2
<1>11. Owned(f, M)
  <2>1. f # NoFunction /\ LockPage(AddrOf(f, s)) \in OperandPages(f)
    BY FastOffloadAssumption, StagePages
  <2>2. QED
    BY <2>1 DEF Wires, Owned
<1>12. Wires(f, l, x, v, q, M)
  <2> HIDE DEF M
  <2> QED
    BY <1>3, <1>4, <1>7, <1>8, <1>9, <1>10, <1>11 DEF Wires, Carried
<1>13. QED
  BY <1>12 DEF v

(* A stage whose flush failed releases its page. *)
LEMMA WiresReleases ==
  ASSUME NEW f \in Functions, NEW ld, NEW st, NEW w, NEW q \in Seq(Request), NEW L, NEW s,
         Wires(f, ld, st, w, q, L),
         TwoPages(f) => \A t \in Outs(ld, st) : LockPage(AddrOf(f, t)) # LockPage(AddrOf(f, s))
  PROVE  Wires(f, ld, st, w, q, L \ {LockPage(AddrOf(f, s))})
<1> DEFINE M == L \ {LockPage(AddrOf(f, s))}
<1>1. Held(f, q, M)
  <2> SUFFICES ASSUME TwoPages(f), NEW k \in 1 .. Len(q), q[k].pim PROVE LockPage(q[k].addr) \in M
    BY DEF Held
  <2>1. /\ q[k].stage \in Outs(ld, st)
        /\ LockPage(q[k].addr) = LockPage(AddrOf(f, q[k].stage))
    BY StagePages DEF Wires, Carried, PimGood
  <2>2. LockPage(q[k].addr) \in L
    BY DEF Wires, Carried, Held
  <2>3. QED
    BY <2>1, <2>2
<1>2. Owned(f, M)
  BY FastOffloadAssumption DEF Wires, Owned
<1> HIDE DEF M
<1>3. Wires(f, ld, st, w, q, M)
  BY <1>1, <1>2 DEF Wires, Carried
<1>4. QED
  BY <1>3 DEF M

(* A controller queue has room for the request of a stage. *)
LEMMA HasRoom ==
  ASSUME NEW f, NEW ld \in [LoadStages -> LoadStates], NEW st \in StoreStates, NEW q, NEW L,
         NEW w \in Seq(PimRequest), Wires(f, ld, st, w, q, L),
         NEW s \in LoadStages, ld[s] = "Input" \/ Outs(ld, st) = {}
  PROVE  Room(w)
<1>1. Len(w) \in Nat /\ CrtlQueueMax \in Nat /\ CrtlQueueMax >= 2
  BY FastOffloadAssumption
<1>2. SUFFICES ASSUME Len(w) >= 2 PROVE FALSE
  BY <1>1 DEF Room
<1>3. 1 \in 1 .. Len(w) /\ 2 \in 1 .. Len(w)
  BY <1>1, <1>2
<1>4. w[1].pim /\ w[2].pim
  BY <1>3, Subtypes
<1>5. /\ w[1].stage \in Outs(ld, st) /\ w[2].stage \in Outs(ld, st)
      /\ w[1].stage # w[2].stage
  BY <1>3, <1>4 DEF Wires, Carried, PimGood, Apart
<1>6. {w[1].stage, w[2].stage} = LoadStages
  BY <1>5, TwoWait DEF Wires, Carried
<1>7. s \in Outs(ld, st) /\ ld[s] = "Input"
  BY <1>5, <1>6
<1>8. QED
  BY <1>7 DEF Outs, LoadStages, StoreStage

(* The load stages, with what they change. *)
LoadGood(f, st, q, x) ==
  /\ x \in [load : [LoadStages -> LoadStates], locked : SUBSET Pages, cache : Caches,
            pimWait : Seq(PimRequest)]
  /\ Len(x.pimWait) <= CrtlQueueMax
  /\ Wires(f, x.load, st, x.pimWait, q, x.locked)

LEMMA LoadStepKeeps ==
  ASSUME frame \in Frames, NEW f \in Functions, NEW st \in StoreStates, NEW q \in Seq(Request),
         NEW x, LoadGood(f, st, q, x), NEW s \in LoadStages
  PROVE  LoadGood(f, st, q, LoadStep(x, f, s))
<1> DEFINE a == AddrOf(f, s)
           ok == FlushSucceeds(x.cache, a)
<1>1. /\ x.load \in [LoadStages -> LoadStates] /\ x.locked \subseteq Pages /\ x.cache \in Caches
      /\ x.pimWait \in Seq(PimRequest) /\ Len(x.pimWait) <= CrtlQueueMax
      /\ Wires(f, x.load, st, x.pimWait, q, x.locked) /\ OneKind(x.load, st)
      /\ x = [load |-> x.load, locked |-> x.locked, cache |-> x.cache, pimWait |-> x.pimWait]
  BY DEF LoadGood, Wires, Carried
<1>2. a = Operand(f, s) /\ a \in Addr /\ LockPage(a) \in Pages
  <2>1. AddrOf(f, s) \in Addr
    BY StagePages
  <2>2. AddrOf(f, s) = Operand(f, s)
    BY DEF AddrOf, Operand, LoadStages
  <2>3. QED
    BY <2>1, <2>2, Paging
<1>3. CASE x.load[s] = "Complete"
  <2>1. PICK l : l = [x.load EXCEPT ![s] = "Loaded"]
    OBVIOUS
  <2>2. LoadStep(x, f, s) = [x EXCEPT !.load = l]
    BY <1>3, <2>1 DEF LoadStep
  <2>3. LoadStep(x, f, s) =
          [load |-> l, locked |-> x.locked, cache |-> x.cache, pimWait |-> x.pimWait]
    BY <1>1, <2>2
  <2>4. l \in [LoadStages -> LoadStates] /\ \A t \in LoadStages : l[t] = IF t = s THEN "Loaded" ELSE x.load[t]
    BY <1>1, <2>1 DEF LoadStates
  <2>5. Outs(l, st) = Outs(x.load, st) /\ OneKind(l, st)
    BY <1>1, <1>3, <2>4 DEF Outs, OneKind
  <2>6. Wires(f, l, st, x.pimWait, q, x.locked)
    BY <1>1, <2>5, WiresSameOuts
  <2>7. QED
    BY <1>1, <2>3, <2>4, <2>6 DEF LoadGood
<1>4. CASE x.load[s] = "Input"
  <2>1. LoadStep(x, f, s) =
          [load   |-> [x.load EXCEPT ![s] = IF ok THEN "Outstanding" ELSE "Input"],
           locked |-> IF ok THEN x.locked \cup {LockPage(a)} ELSE x.locked \ {LockPage(a)},
           cache  |-> Flushed(x.cache, a),
           pimWait |-> IF ok /\ Room(x.pimWait)
                         THEN Append(x.pimWait, PimReq("LOAD", s, a)) ELSE x.pimWait]
    BY <1>2, <1>4 DEF LoadStep
  <2>2. Room(x.pimWait)
    BY <1>1, <1>4, HasRoom
  <2>3. st = "NoOP"
    BY <1>1, <1>4 DEF OneKind
  <2>4. s \notin Outs(x.load, st)
    BY <1>4, <2>3 DEF Outs
  <2>5. PICK c \in Caches : c = Flushed(x.cache, a)
    BY <1>1, <1>2, FlushedType
  <2> HIDE DEF a, ok
  <2>6. CASE ok
    <3>1. PICK r \in PimRequest : r = PimReq("LOAD", s, a) /\ r.stage = s /\ r.addr = a
      BY <1>2, PimReqType DEF PimTypes
    <3>2. PICK l : l = [x.load EXCEPT ![s] = "Outstanding"]
      OBVIOUS
    <3>3. LoadStep(x, f, s) = [load |-> l, locked |-> x.locked \cup {LockPage(a)}, cache |-> c,
                               pimWait |-> Append(x.pimWait, r)]
      BY <2>1, <2>2, <2>5, <2>6, <3>1, <3>2
    <3>4. /\ l \in [LoadStages -> LoadStates]
          /\ \A t \in LoadStages : l[t] = IF t = s THEN "Outstanding" ELSE x.load[t]
      BY <1>1, <3>2 DEF LoadStates
    <3>5. Outs(l, st) = Outs(x.load, st) \cup {s} /\ OneKind(l, st)
      BY <2>3, <3>4 DEF Outs, OneKind
    <3>6. Wires(f, l, st, Append(x.pimWait, r), q, x.locked \cup {LockPage(AddrOf(f, s))})
      BY <1>1, <2>4, <3>1, <3>5, WiresSends DEF a
    <3>7. Append(x.pimWait, r) \in Seq(PimRequest) /\ Len(Append(x.pimWait, r)) <= CrtlQueueMax
      BY <1>1, <2>2, RoomIsRoom
    <3>8. Wires(f, l, st, Append(x.pimWait, r), q, x.locked \cup {LockPage(a)})
      BY <3>6 DEF a
    <3>9. QED
      BY <1>1, <1>2, <3>3, <3>4, <3>7, <3>8 DEF LoadGood
  <2>7. CASE ~ok
    <3>1. [x.load EXCEPT ![s] = "Input"] = x.load
      BY <1>1, <1>4
    <3>2. LoadStep(x, f, s) = [load |-> x.load, locked |-> x.locked \ {LockPage(a)}, cache |-> c,
                               pimWait |-> x.pimWait]
      BY <2>1, <2>5, <2>7, <3>1
    <3>3. ASSUME TwoPages(f), NEW t \in Outs(x.load, st)
          PROVE  LockPage(AddrOf(f, t)) # LockPage(AddrOf(f, s))
      <4>1. t \in LoadStages /\ t # s
        BY <1>4, <2>3 DEF Outs
      <4>2. (t = 0 /\ s = 1) \/ (t = 1 /\ s = 0)
        BY <4>1 DEF LoadStages
      <4>3. AddrOf(f, 0) = f.in1 /\ AddrOf(f, 1) = f.in2
        BY DEF AddrOf
      <4>4. QED
        BY <3>3, <4>2, <4>3 DEF TwoPages
    <3>4. Wires(f, x.load, st, x.pimWait, q, x.locked \ {LockPage(AddrOf(f, s))})
      BY <1>1, <3>3, WiresReleases
    <3>5. Wires(f, x.load, st, x.pimWait, q, x.locked \ {LockPage(a)})
      BY <3>4 DEF a
    <3>6. QED
      BY <1>1, <3>2, <3>5 DEF LoadGood
  <2>8. QED
    BY <2>6, <2>7
<1>5. CASE x.load[s] # "Complete" /\ x.load[s] # "Input"
  BY <1>5 DEF LoadStep
<1>6. QED
  BY <1>3, <1>4, <1>5

(* What the steps of the unit have in common. *)
LEMMA UnitFrame ==
  ASSUME IInv, UnitKeeps, RunCheck, locked' \subseteq Pages, pimWait' \in Seq(PimRequest),
         Len(pimWait') <= CrtlQueueMax, cache' \in Caches, unit' \in Units,
         todo' \in Seq(Functions), UnitOK',
         Wires(unit'.curr, unit'.load, unit'.store, pimWait', Path, locked')
  PROVE  IInv'
<1>1. UNCHANGED <<wait, send, pimSend, mem, frame, mshr, budget>>
  BY DEF UnitKeeps
<1>2. phase' = <<"memory">> \/ (AllDone' /\ phase' = <<"stopped">>)
  BY DEF RunCheck, Go
<1>3. phase' \in Phases /\ ~At("mctrl")' /\ ~At("pimctrl")'
  BY <1>2, Parting DEF At, Parts
<1>4. At("stopped")' => AllDone'
  BY <1>2, Parting DEF At
<1>5. TypeOK'
  BY <1>1, <1>3 DEF IInv, TypeOK, Caches, Units
<1>6. Order' /\ Refused'
  BY <1>1, <1>3, <1>4 DEF IInv, Order, Refused
<1>7. Path' = Path
  BY <1>1, SamePath
<1>8. Wires(unit.curr, unit.load, unit.store, pimWait, Path, locked)'
  BY <1>7
<1>9. QED
  BY <1>5, <1>6, <1>8 DEF IInv

LEMMA IdleType == /\ IdleUnit \in Units
                  /\ IdleUnit.curr = NoFunction /\ IdleUnit.load = [s \in LoadStages |-> "Empty"]
                  /\ IdleUnit.computed = FALSE /\ IdleUnit.store = "NoOP"
                  /\ Outs(IdleUnit.load, IdleUnit.store) = {}
                  /\ OneKind(IdleUnit.load, IdleUnit.store)
<1>1. [s \in LoadStages |-> "Empty"] \in [LoadStages -> LoadStates] /\ "NoOP" \in StoreStates
  BY DEF LoadStates, StoreStates
<1>2. /\ IdleUnit.curr = NoFunction /\ IdleUnit.load = [s \in LoadStages |-> "Empty"]
      /\ IdleUnit.computed = FALSE /\ IdleUnit.store = "NoOP"
  BY DEF IdleUnit
<1>3. IdleUnit \in Units
  BY <1>1 DEF IdleUnit, Units
<1>4. QED
  BY <1>2, <1>3 DEF Outs, OneKind

LEMMA FinishKeeps ==
  ASSUME IInv, Finish
  PROVE  IInv'
<1>1. /\ TypeOK /\ UnitOK /\ Wires(unit.curr, unit.load, unit.store, pimWait, Path, locked)
      /\ OneKind(unit.load, unit.store)
  BY DEF IInv, Wires, Carried
<1>2. /\ unit.store = "Complete" /\ locked' = locked \ OperandPages(unit.curr) /\ unit' = IdleUnit
      /\ UnitKeeps /\ RunCheck /\ UNCHANGED <<pimWait, cache, todo>>
  BY DEF Finish
<1>3. unit.curr # NoFunction
  <2>1. ASSUME unit.curr = NoFunction PROVE FALSE
    <3>1. unit.store = "NoOP"
      BY <1>1, <2>1, IdleType DEF UnitOK
    <3>2. QED
      BY <1>2, <3>1
  <2>2. QED
    BY <2>1
<1>4. locked' = {}
  BY <1>1, <1>2, <1>3 DEF Wires, Owned
<1>5. Outs(unit.load, unit.store) = {}
  BY <1>1, <1>2 DEF OneKind, Outs
<1>6. Owned(NoFunction, {})
  BY DEF Owned
<1>7. Wires(IdleUnit.curr, IdleUnit.load, IdleUnit.store, pimWait, Path, {})
  BY <1>1, <1>5, <1>6, IdleType, WiresIdle
<1>8. UnitOK'
  BY <1>2, IdleType DEF UnitOK
<1>9. /\ cache' \in Caches /\ pimWait' \in Seq(PimRequest) /\ Len(pimWait') <= CrtlQueueMax
      /\ todo' \in Seq(Functions) /\ unit' \in Units /\ locked' \subseteq Pages
  BY <1>1, <1>2, <1>4, IdleType, Typing DEF TypeOK
<1>10. Wires(unit'.curr, unit'.load, unit'.store, pimWait', Path, locked')
  BY <1>2, <1>4, <1>7
<1>11. QED
  BY <1>2, <1>8, <1>9, <1>10, UnitFrame

LEMMA ComputeKeeps ==
  ASSUME IInv, Compute
  PROVE  IInv'
<1>1. /\ TypeOK /\ UnitOK /\ Wires(unit.curr, unit.load, unit.store, pimWait, Path, locked)
      /\ OneKind(unit.load, unit.store)
  BY DEF IInv, Wires, Carried
<1> DEFINE e == [s \in LoadStages |-> "Empty"]
<1>2. /\ \A s \in LoadStages : unit.load[s] = "Loaded"
      /\ unit' = [unit EXCEPT !.load = e, !.computed = TRUE]
      /\ UnitKeeps /\ RunCheck /\ UNCHANGED <<locked, pimWait, cache, todo>>
  BY DEF Compute
<1>3. e \in [LoadStages -> LoadStates] /\ \A s \in LoadStages : e[s] = "Empty"
  BY DEF LoadStates
<1>4. 0 \in LoadStages
  BY DEF LoadStages
<1>5. unit.store = "NoOP"
  BY <1>1, <1>2, <1>4 DEF OneKind
<1> HIDE DEF e
<1>6. Outs(e, unit.store) = Outs(unit.load, unit.store) /\ OneKind(e, unit.store)
  BY <1>2, <1>3, <1>5 DEF Outs, OneKind
<1>7. Wires(unit.curr, e, unit.store, pimWait, Path, locked)
  BY <1>1, <1>6, WiresSameOuts
<1>8. unit' = [curr |-> unit.curr, load |-> e, computed |-> TRUE, store |-> unit.store]
  BY <1>1, <1>2, Typing
<1>9. unit' \in Units /\ unit'.curr = unit.curr /\ unit'.load = e /\ unit'.store = unit.store
  BY <1>1, <1>3, <1>8, Typing DEF Units
<1>10. unit.curr # NoFunction
  <2>1. ASSUME unit.curr = NoFunction PROVE FALSE
    <3>1. unit.load[0] = "Empty"
      BY <1>1, <1>4, <2>1, IdleType DEF UnitOK
    <3>2. QED
      BY <1>2, <1>4, <3>1
  <2>2. QED
    BY <2>1
<1>11. UnitOK'
  BY <1>3, <1>5, <1>9, <1>10 DEF UnitOK
<1>12. /\ cache' \in Caches /\ pimWait' \in Seq(PimRequest) /\ Len(pimWait') <= CrtlQueueMax
       /\ todo' \in Seq(Functions) /\ locked' \subseteq Pages
  BY <1>1, <1>2, Typing DEF TypeOK
<1>13. Wires(unit'.curr, unit'.load, unit'.store, pimWait', Path, locked')
  BY <1>2, <1>7, <1>9
<1>14. QED
  BY <1>2, <1>9, <1>11, <1>12, <1>13, UnitFrame

LEMMA RunLoadsKeeps ==
  ASSUME IInv, NEW f \in Functions, NEW ld \in [LoadStages -> LoadStates], RunLoads(f, ld),
         Wires(f, ld, unit.store, pimWait, Path, locked), ~unit.computed,
         UnitKeeps, RunCheck, todo' \in Seq(Functions)
  PROVE  IInv'
<1>1. TypeOK /\ frame \in Frames /\ unit.store \in StoreStates /\ Path \in Seq(Request)
  BY Typing, PathType DEF IInv, TypeOK
<1>2. PICK x : x = [load |-> ld, locked |-> locked, cache |-> cache, pimWait |-> pimWait]
  OBVIOUS
<1>3. PICK y : y = LoadStep(x, f, 1)
  OBVIOUS
<1>4. PICK z : z = LoadStep(y, f, 0)
  OBVIOUS
<1>5. /\ unit' = [unit EXCEPT !.curr = f, !.load = z.load]
      /\ locked' = z.locked /\ cache' = z.cache /\ pimWait' = z.pimWait
  BY <1>2, <1>3, <1>4 DEF RunLoads
<1>6. LoadGood(f, unit.store, Path, x)
  <2>1. cache \in Caches /\ pimWait \in Seq(PimRequest)
    BY <1>1, Typing
  <2>2. locked \subseteq Pages /\ Len(pimWait) <= CrtlQueueMax
    BY <1>1 DEF TypeOK
  <2>3. QED
    BY <1>2, <2>1, <2>2 DEF LoadGood
<1>7. 0 \in LoadStages /\ 1 \in LoadStages
  BY DEF LoadStages
<1>8. LoadGood(f, unit.store, Path, y)
  BY <1>1, <1>3, <1>6, <1>7, LoadStepKeeps
<1>9. LoadGood(f, unit.store, Path, z)
  BY <1>1, <1>4, <1>7, <1>8, LoadStepKeeps
<1>10. /\ z.load \in [LoadStages -> LoadStates] /\ z.locked \subseteq Pages /\ z.cache \in Caches
       /\ z.pimWait \in Seq(PimRequest) /\ Len(z.pimWait) <= CrtlQueueMax
       /\ Wires(f, z.load, unit.store, z.pimWait, Path, z.locked)
  BY <1>9 DEF LoadGood
<1>11. unit' = [curr |-> f, load |-> z.load, computed |-> unit.computed, store |-> unit.store]
  BY <1>1, <1>5, Typing
<1>12. /\ unit' \in Units /\ unit'.curr = f /\ unit'.load = z.load /\ unit'.store = unit.store
       /\ ~unit'.computed
  BY <1>1, <1>10, <1>11, Typing DEF Units
<1>13. UnitOK'
  BY <1>12, FastOffloadAssumption DEF UnitOK
<1>14. Wires(unit'.curr, unit'.load, unit'.store, pimWait', Path, locked')
  BY <1>5, <1>10, <1>12
<1>15. QED
  BY <1>5, <1>10, <1>12, <1>13, <1>14, UnitFrame

LEMMA FetchKeeps ==
  ASSUME IInv, Fetch
  PROVE  IInv'
<1> DEFINE in == [s \in LoadStages |-> "Input"]
<1>1. TypeOK /\ UnitOK /\ Wires(unit.curr, unit.load, unit.store, pimWait, Path, locked)
  BY DEF IInv
<1>2. /\ unit.curr = NoFunction /\ todo # << >> /\ RunLoads(Head(todo), in)
      /\ todo' = Tail(todo) /\ UnitKeeps /\ RunCheck
  BY DEF Fetch
<1>3. todo \in Seq(Functions)
  BY <1>1 DEF TypeOK
<1>4. Head(todo) \in Functions /\ todo' \in Seq(Functions)
  BY <1>2, <1>3
<1>5. in \in [LoadStages -> LoadStates] /\ \A s \in LoadStages : in[s] = "Input"
  BY DEF LoadStates
<1>6. unit.store = "NoOP" /\ ~unit.computed /\ Outs(unit.load, unit.store) = {}
  BY <1>1, <1>2, IdleType DEF UnitOK
<1> HIDE DEF in
<1>7. Outs(in, unit.store) = {} /\ OneKind(in, unit.store)
  BY <1>5, <1>6 DEF Outs, OneKind
<1>8. Owned(Head(todo), locked)
  <2>1. locked = {}
    BY <1>1, <1>2 DEF Wires, Owned
  <2>2. Head(todo) # NoFunction
    BY <1>4, FastOffloadAssumption
  <2>3. QED
    BY <2>1, <2>2 DEF Owned
<1>9. Wires(Head(todo), in, unit.store, pimWait, Path, locked)
  BY <1>1, <1>6, <1>7, <1>8, WiresIdle
<1>10. QED
  BY <1>2, <1>4, <1>5, <1>6, <1>9, RunLoadsKeeps

LEMMA LoadKeeps ==
  ASSUME IInv, Load
  PROVE  IInv'
<1>1. TypeOK /\ UnitOK /\ Wires(unit.curr, unit.load, unit.store, pimWait, Path, locked)
  BY DEF IInv
<1>2. /\ unit.curr # NoFunction /\ ~unit.computed /\ RunLoads(unit.curr, unit.load)
      /\ todo' = todo /\ UnitKeeps /\ RunCheck
  BY DEF Load
<1>3. /\ unit.curr \in Functions /\ unit.load \in [LoadStages -> LoadStates]
  BY <1>1, <1>2, Typing
<1>4. todo' \in Seq(Functions)
  BY <1>1, <1>2 DEF TypeOK
<1>5. QED
  BY <1>1, <1>2, <1>3, <1>4, RunLoadsKeeps

LEMMA StoreKeeps ==
  ASSUME IInv, Store
  PROVE  IInv'
<1>1. TypeOK /\ UnitOK /\ Wires(unit.curr, unit.load, unit.store, pimWait, Path, locked)
  BY DEF IInv
<1> DEFINE f == unit.curr
           a == AddrOf(f, StoreStage)
           ok == FlushSucceeds(cache, a)
<1>2. unit.computed /\ UnitKeeps /\ RunCheck /\ todo' = todo
  BY DEF Store
<1>3. a = f.out
  BY DEF AddrOf, StoreStage
<1>4. /\ locked' = IF ok THEN locked \cup {LockPage(a)} ELSE locked \ {LockPage(a)}
      /\ cache' = Flushed(cache, a)
      /\ unit' = [unit EXCEPT !.computed = FALSE, !.store = IF ok THEN "Outstanding" ELSE @]
      /\ pimWait' = IF ok /\ Room(pimWait)
                      THEN Append(pimWait, PimReq("STORE", StoreStage, a)) ELSE pimWait
  BY <1>3 DEF Store
<1>5. /\ unit.store = "NoOP" /\ \A s \in LoadStages : unit.load[s] = "Empty"
      /\ Outs(unit.load, unit.store) = {}
  BY <1>1, <1>2, NobodyWaits DEF UnitOK
<1>6. f \in Functions
  <2>1. ASSUME f = NoFunction PROVE FALSE
    BY <1>1, <1>2, <2>1, IdleType DEF UnitOK
  <2>2. QED
    BY <1>1, <2>1, Typing
<1>7. a \in Addr /\ LockPage(a) \in Pages
  BY <1>6, StagePages, Paging
<1>8. /\ cache \in Caches /\ frame \in Frames /\ pimWait \in Seq(PimRequest)
      /\ Len(pimWait) <= CrtlQueueMax /\ locked \subseteq Pages /\ todo \in Seq(Functions)
      /\ unit.load \in [LoadStages -> LoadStates] /\ unit.store \in StoreStates
      /\ Path \in Seq(Request)
  BY <1>1, Typing, PathType DEF TypeOK
<1>9. cache' \in Caches
  BY <1>4, <1>7, <1>8, FlushedType
<1>10. Room(pimWait)
  <2>1. 0 \in LoadStages
    BY DEF LoadStages
  <2>2. QED
    BY <1>1, <1>5, <1>8, <2>1, HasRoom
<1>11. f # NoFunction
  BY <1>6, FastOffloadAssumption
<1>12. CASE ok
  <2>1. PICK r \in PimRequest : r = PimReq("STORE", StoreStage, a) /\ r.stage = StoreStage /\ r.addr = a
    BY <1>7, PimReqType DEF PimTypes
  <2> HIDE DEF a, ok
  <2>2. pimWait' = Append(pimWait, r) /\ locked' = locked \cup {LockPage(a)}
        /\ unit' = [unit EXCEPT !.computed = FALSE, !.store = "Outstanding"]
    BY <1>4, <1>10, <1>12, <2>1
  <2>3. unit' = [curr |-> f, load |-> unit.load, computed |-> FALSE, store |-> "Outstanding"]
    BY <1>1, <2>2, Typing
  <2>4. /\ unit' \in Units /\ unit'.curr = f /\ unit'.load = unit.load /\ unit'.store = "Outstanding"
        /\ ~unit'.computed
    BY <1>6, <1>8, <2>3 DEF Units, StoreStates
  <2>5. /\ Outs(unit.load, "Outstanding") = Outs(unit.load, unit.store) \cup {StoreStage}
        /\ OneKind(unit.load, "Outstanding")
    BY <1>5 DEF Outs, OneKind
  <2>6. StoreStage \notin Outs(unit.load, unit.store)
    BY <1>5
  <2>7. Wires(f, unit.load, "Outstanding", Append(pimWait, r), Path,
              locked \cup {LockPage(AddrOf(f, StoreStage))})
    BY <1>1, <1>6, <1>8, <2>1, <2>5, <2>6, WiresSends DEF a
  <2>8. Append(pimWait, r) \in Seq(PimRequest) /\ Len(Append(pimWait, r)) <= CrtlQueueMax
    BY <1>8, <1>10, RoomIsRoom
  <2>9. Wires(unit'.curr, unit'.load, unit'.store, pimWait', Path, locked')
    BY <2>2, <2>4, <2>7 DEF a
  <2>10. UnitOK'
    BY <1>11, <2>4 DEF UnitOK
  <2>11. locked' \subseteq Pages /\ todo' \in Seq(Functions)
    BY <1>2, <1>7, <1>8, <2>2
  <2>12. QED
    BY <1>2, <1>9, <2>2, <2>4, <2>8, <2>9, <2>10, <2>11, UnitFrame
<1>13. CASE ~ok
  <2> HIDE DEF a, ok
  <2>1. pimWait' = pimWait /\ locked' = locked \ {LockPage(a)}
        /\ unit' = [unit EXCEPT !.computed = FALSE, !.store = unit.store]
    BY <1>4, <1>13
  <2>2. unit' = [curr |-> f, load |-> unit.load, computed |-> FALSE, store |-> unit.store]
    BY <1>1, <2>1, Typing
  <2>3. /\ unit' \in Units /\ unit'.curr = f /\ unit'.load = unit.load /\ unit'.store = unit.store
        /\ ~unit'.computed
    BY <1>6, <1>8, <2>2 DEF Units
  <2>4. \A t \in Outs(unit.load, unit.store) :
          LockPage(AddrOf(f, t)) # LockPage(AddrOf(f, StoreStage))
    BY <1>5
  <2>5. Wires(f, unit.load, unit.store, pimWait, Path, locked \ {LockPage(AddrOf(f, StoreStage))})
    BY <1>1, <1>6, <1>8, <2>4, WiresReleases
  <2>6. Wires(unit'.curr, unit'.load, unit'.store, pimWait', Path, locked')
    BY <2>1, <2>3, <2>5 DEF a
  <2>7. UnitOK'
    BY <1>11, <2>3 DEF UnitOK
  <2>8. /\ locked' \subseteq Pages /\ todo' \in Seq(Functions)
        /\ pimWait' \in Seq(PimRequest) /\ Len(pimWait') <= CrtlQueueMax
    BY <1>2, <1>8, <2>1
  <2>9. QED
    BY <1>2, <1>9, <2>3, <2>6, <2>7, <2>8, UnitFrame
<1>14. QED
  BY <1>12, <1>13

LEMMA UnitIdlesKeeps ==
  ASSUME IInv, UnitIdles
  PROVE  IInv'
<1>1. TypeOK /\ UnitOK /\ Wires(unit.curr, unit.load, unit.store, pimWait, Path, locked)
  BY DEF IInv
<1>2. UnitKeeps /\ RunCheck /\ UNCHANGED <<unit, locked, pimWait, cache, todo>>
  BY DEF UnitIdles
<1>3. /\ cache' \in Caches /\ unit' \in Units /\ pimWait' \in Seq(PimRequest)
      /\ Len(pimWait') <= CrtlQueueMax /\ locked' \subseteq Pages /\ todo' \in Seq(Functions)
  BY <1>1, <1>2, Typing DEF TypeOK
<1>4. UnitOK'
  BY <1>1, <1>2 DEF UnitOK
<1>5. Wires(unit'.curr, unit'.load, unit'.store, pimWait', Path, locked')
  BY <1>1, <1>2
<1>6. QED
  BY <1>2, <1>3, <1>4, <1>5, UnitFrame

-----------------------------------------------------------------------------
(* The inductive invariant. *)

LEMMA Starts == Init => IInv
<1> SUFFICES ASSUME Init PROVE IInv
  OBVIOUS
<1>1. /\ phase = <<"memory">> /\ locked = {}
      /\ wait = << >> /\ send = << >> /\ pimWait = << >> /\ pimSend = << >>
      /\ mem = [queue |-> << >>, trans |-> << >>, dram |-> << >>]
      /\ frame \in Frames /\ mshr = [p \in Procs |-> {}] /\ unit = IdleUnit /\ budget = HostOps
  BY DEF Init, At
<1>2. phase \in Phases /\ ~At("mctrl") /\ ~At("pimctrl") /\ ~At("stopped")
  BY <1>1, Parting DEF At, Parts
<1>3. cache \in Caches
  <2>1. PICK w \in Warm :
          cache = [l1 |-> w.l1, llc |-> w.llc, wb |-> [p \in Procs |-> << >>]]
    BY DEF Init
  <2>2. w.l1 \in [Procs -> SUBSET Addr] /\ w.llc \subseteq Addr
    BY FastOffloadAssumption
  <2>3. [p \in Procs |-> << >>] \in [Procs -> Seq(HostRequest)]
    BY EmptySeq
  <2>4. QED
    BY <2>1, <2>2, <2>3 DEF Caches
<1>4. todo \in Seq(Functions)
  <2>1. PICK n \in 1 .. MaxFunctions : todo \in [1 .. n -> Functions]
    BY DEF Init
  <2>2. n \in Nat
    BY FastOffloadAssumption
  <2>3. QED
    BY <2>1, <2>2
<1>5. budget \in 0 .. HostOps
  BY <1>1, FastOffloadAssumption
<1>6. mshr \in [Procs -> SUBSET [addr : Addr, block : Addr]]
  BY <1>1
<1>7. CrtlQueueMax \in Nat /\ DramDepth \in Nat /\ Len(<< >>) = 0
  BY FastOffloadAssumption
<1>8. mem \in Mems /\ mem.dram = << >> /\ mem.trans = << >> /\ mem.queue = << >>
  BY <1>1, EmptySeq DEF Mems
<1>9. TypeOK
  <2>1. Len(wait) <= CrtlQueueMax /\ Len(pimWait) <= CrtlQueueMax
        /\ Len(mem.dram) <= DramDepth /\ Len(mem.trans) <= 1
    BY <1>1, <1>7, <1>8
  <2>2. unit \in Units
    BY <1>1, IdleType
  <2>3. QED
    BY <1>1, <1>2, <1>3, <1>4, <1>5, <1>6, <1>8, <2>1, <2>2, EmptySeq
    DEF TypeOK, Caches, Units, Mems
<1>10. Path = << >>
  <2>1. << >> \o << >> = << >>
    BY EmptySeq, JoinEmpty
  <2>2. QED
    BY <1>1, <1>8, <2>1 DEF Path
<1>11. Wires(unit.curr, unit.load, unit.store, pimWait, Path, locked)
  <2>1. /\ unit.curr = NoFunction /\ Outs(unit.load, unit.store) = {}
        /\ OneKind(unit.load, unit.store)
    BY <1>1, IdleType
  <2>2. \A k \in 1 .. Len(<< >>) : FALSE
    OBVIOUS
  <2>3. pimWait = << >> /\ Path = << >> /\ locked = {}
    BY <1>1, <1>10
  <2>4. Present(unit.curr, unit.load, unit.store, pimWait, Path) /\ Owned(unit.curr, locked)
    BY <2>1, <2>3 DEF Present, Owned
  <2>5. /\ PimGood(unit.curr, unit.load, unit.store, pimWait)
        /\ PimGood(unit.curr, unit.load, unit.store, Path)
    BY <2>2, <2>3 DEF PimGood
  <2>6. Apart(pimWait) /\ Apart(Path) /\ ApartFrom(pimWait, Path)
    BY <2>2, <2>3 DEF Apart, ApartFrom
  <2>7. Resized(Path) /\ Held(unit.curr, Path, locked) /\ Unfollowed(unit.curr, Path)
    BY <2>1, <2>2, <2>3 DEF Resized, Held, Unfollowed, TwoPages
  <2>8. QED
    BY <2>1, <2>4, <2>5, <2>6, <2>7 DEF Wires, Carried
<1>12. Order /\ Refused
  BY <1>2, <1>8 DEF Order, Refused
<1>13. UnitOK
  BY <1>1, IdleType DEF UnitOK
<1>14. QED
  BY <1>9, <1>11, <1>12, <1>13 DEF IInv

LEMMA NextKeeps == IInv /\ [Next]_vars => IInv'
<1> SUFFICES ASSUME IInv, [Next]_vars PROVE IInv'
  OBVIOUS
<1>1. ASSUME NEW k \in 0 .. DramDepth, MemoryServes(k) PROVE IInv'
  BY <1>1, ServesKeeps
<1>2. CASE MemoryThrows
  BY <1>2, ThrowsKeeps
<1>3. CASE MctrlStep
  BY <1>3, MctrlKeeps
<1>4. CASE PIMMctrlStep
  BY <1>4, PIMMctrlKeeps
<1>5. ASSUME NEW p \in Procs, ProcSteps(p) PROVE IInv'
  BY <1>5, ProcKeeps
<1>6. CASE UnitStep
  BY <1>6, FinishKeeps, StoreKeeps, ComputeKeeps, FetchKeeps, LoadKeeps, UnitIdlesKeeps DEF UnitStep
<1>7. ASSUME UNCHANGED vars PROVE IInv'
  <2>1. UNCHANGED <<phase, locked, wait, send, pimWait, pimSend, mem, cache, frame,
                    mshr, unit, todo, budget>>
    BY <1>7 DEF vars
  <2>2. TypeOK'
    BY <2>1 DEF IInv, TypeOK
  <2>3. Order' /\ UnitOK' /\ Refused'
    BY <2>1 DEF IInv, Order, UnitOK, Refused, At, AllDone
  <2>4. Path' = Path
    BY <2>1, SamePath
  <2>5. Wires(unit.curr, unit.load, unit.store, pimWait, Path, locked)'
    BY <2>1, <2>4 DEF IInv
  <2>6. QED
    BY <2>2, <2>3, <2>5 DEF IInv
<1>8. CASE Ended
  BY <1>7, <1>8 DEF Ended
<1>9. QED
  BY <1>1, <1>2, <1>3, <1>4, <1>5, <1>6, <1>7, <1>8 DEF Next

(* The inductive invariant: every action of a cycle of run() keeps the     *)
(* order of the parts, the states of the unit's stages, the place of a     *)
(* refused transaction and the requests on their way consistent.           *)
THEOREM Inductive == Spec => []IInv
BY Starts, NextKeeps, PTL DEF Spec

(* The type invariant: the queues hold requests of their kind and no more  *)
(* than add_to_mctrl() and the DRAM accept.                                *)
THEOREM Typed == Spec => []TypeOK
<1>1. IInv => TypeOK
  BY DEF IInv
<1>2. QED
  BY <1>1, Inductive, PTL

(* Page locking: no host request follows a PIM request to its page.        *)
THEOREM Exclusive == Spec => []ExclusiveAccess
<1>1. IInv => ExclusiveAccess
  <2> SUFFICES ASSUME IInv, unit.curr # NoFunction,
                      LockPage(unit.curr.in1) # LockPage(unit.curr.in2),
                      NEW i \in DOMAIN Path, NEW j \in DOMAIN Path,
                      i < j, Path[i].pim, ~Path[j].pim
               PROVE  LockPage(Path[i].addr) # LockPage(Path[j].addr)
    BY DEF ExclusiveAccess
  <2>1. Unfollowed(unit.curr, Path) /\ TwoPages(unit.curr)
    BY DEF IInv, Wires, Carried, TwoPages
  <2>2. Path \in Seq(Request)
    BY PathType DEF IInv
  <2>3. i \in 1 .. Len(Path) /\ j \in 1 .. Len(Path)
    BY <2>2
  <2>4. QED
    BY <2>1, <2>3 DEF Unfollowed
<1>2. QED
  BY <1>1, Inductive, PTL

(* The requests on their way as one sequence. *)
LEMMA PendingType ==
  ASSUME IInv
  PROVE  /\ Pending \in Seq(Request) /\ DOMAIN Pending = 1 .. Len(Pending)
         /\ Path \in Seq(Request) /\ pimWait \in Seq(Request)
         /\ Len(pimWait) \in Nat
         /\ \A k \in 1 .. Len(pimWait) : k \in DOMAIN Pending /\ Pending[k] = pimWait[k]
         /\ \A k \in 1 .. Len(Path) :
              Len(pimWait) + k \in DOMAIN Pending /\ Pending[Len(pimWait) + k] = Path[k]
         /\ \A k \in DOMAIN Pending :
              \/ k \in 1 .. Len(pimWait) /\ Pending[k] = pimWait[k]
              \/ /\ k > Len(pimWait) /\ k - Len(pimWait) \in 1 .. Len(Path)
                 /\ Pending[k] = Path[k - Len(pimWait)]
<1>1. Path \in Seq(Request) /\ pimWait \in Seq(Request)
  BY PathType, Typing DEF IInv
<1>2. PICK x \in Seq(Request), w \in Seq(Request) : x = Path /\ w = pimWait
  BY <1>1
<1>3. Pending = w \o x
  BY <1>2 DEF Pending
<1>4. w \o x \in Seq(Request) /\ DOMAIN (w \o x) = 1 .. Len(w \o x)
  BY JoinedRequests
<1>5. QED
  BY <1>2, <1>3, <1>4, JoinedRequests

LEMMA OutsIsOutstanding == OutstandingStages = Outs(unit.load, unit.store)
BY DEF OutstandingStages, Outs

(* An idle unit holds no page and has no request on its way. *)
THEOREM Idle == Spec => []IdleMeansUnlocked
<1>1. IInv => IdleMeansUnlocked
  <2> SUFFICES ASSUME IInv, unit.curr = NoFunction PROVE locked = {} /\ PimPositions = {}
    BY DEF IdleMeansUnlocked
  <2>1. locked = {}
    BY DEF IInv, Wires, Owned
  <2>2. Outs(unit.load, unit.store) = {}
    BY NobodyWaits DEF IInv
  <2>3. /\ \A k \in 1 .. Len(pimWait) : ~pimWait[k].pim
        /\ \A k \in 1 .. Len(Path) : ~Path[k].pim
    BY <2>2 DEF IInv, Wires, Carried, PimGood
  <2>4. \A k \in DOMAIN Pending : ~Pending[k].pim
    BY <2>3, PendingType
  <2>5. QED
    BY <2>1, <2>4 DEF PimPositions
<1>2. QED
  BY <1>1, Inductive, PTL

(* A stage waits exactly when one request on its way names it. *)
THEOREM StagesServed == Spec => []StageHasRequest
<1>1. IInv => StageHasRequest
  <2> SUFFICES ASSUME IInv, unit.curr # NoFunction, ~SameOperand(unit.curr)
               PROVE  /\ AwaitedStages = OutstandingStages
                      /\ \A j, k \in PimPositions : Pending[j].stage = Pending[k].stage => j = k
    BY DEF StageHasRequest
  <2> DEFINE O == Outs(unit.load, unit.store)
             n == Len(pimWait)
  <2>1. /\ n \in Nat /\ DOMAIN Pending = 1 .. Len(Pending)
        /\ \A k \in 1 .. n : k \in DOMAIN Pending /\ Pending[k] = pimWait[k]
        /\ \A k \in 1 .. Len(Path) : n + k \in DOMAIN Pending /\ Pending[n + k] = Path[k]
        /\ \A k \in DOMAIN Pending :
             \/ k \in 1 .. n /\ Pending[k] = pimWait[k]
             \/ k > n /\ k - n \in 1 .. Len(Path) /\ Pending[k] = Path[k - n]
    BY PendingType
  <2>2. /\ PimGood(unit.curr, unit.load, unit.store, pimWait)
        /\ PimGood(unit.curr, unit.load, unit.store, Path)
        /\ Apart(pimWait) /\ Apart(Path) /\ ApartFrom(pimWait, Path)
        /\ Present(unit.curr, unit.load, unit.store, pimWait, Path)
    BY DEF IInv, Wires, Carried
  <2> HIDE DEF n
  <2>3. ASSUME NEW k \in PimPositions PROVE Pending[k].stage \in O
    <3>1. k \in DOMAIN Pending /\ Pending[k].pim
      BY DEF PimPositions
    <3>2. CASE k \in 1 .. n /\ Pending[k] = pimWait[k]
      BY <2>2, <3>1, <3>2 DEF PimGood, n
    <3>3. CASE k - n \in 1 .. Len(Path) /\ Pending[k] = Path[k - n]
      BY <2>2, <3>1, <3>3 DEF PimGood
    <3>4. QED
      BY <2>1, <3>1, <3>2, <3>3
  <2>4. ASSUME NEW s \in O PROVE s \in AwaitedStages
    <3>1. Names(pimWait, s) \/ Names(Path, s)
      BY <2>2 DEF Present
    <3>2. PICK k \in DOMAIN Pending : Pending[k].pim /\ Pending[k].stage = s
      <4>1. CASE Names(pimWait, s)
        <5>1. PICK k \in 1 .. n : pimWait[k].pim /\ pimWait[k].stage = s
          BY <4>1 DEF Names, n
        <5>2. QED
          BY <2>1, <5>1
      <4>2. CASE Names(Path, s)
        <5>1. PICK k \in 1 .. Len(Path) : Path[k].pim /\ Path[k].stage = s
          BY <4>2 DEF Names
        <5>2. QED
          BY <2>1, <5>1
      <4>3. QED
        BY <3>1, <4>1, <4>2
    <3>3. QED
      BY <3>2 DEF AwaitedStages, PimPositions
  <2>5. AwaitedStages = OutstandingStages
    <3>1. OutstandingStages = O
      BY OutsIsOutstanding
    <3> HIDE DEF O
    <3>2. AwaitedStages \subseteq O
      BY <2>3 DEF AwaitedStages
    <3>3. QED
      BY <2>4, <3>1, <3>2
  <2>6. ASSUME NEW j \in PimPositions, NEW k \in PimPositions,
               Pending[j].stage = Pending[k].stage
        PROVE  j = k
    <3>1. j \in DOMAIN Pending /\ Pending[j].pim /\ k \in DOMAIN Pending /\ Pending[k].pim
      BY DEF PimPositions
    <3>2. CASE /\ j \in 1 .. n /\ Pending[j] = pimWait[j]
               /\ k \in 1 .. n /\ Pending[k] = pimWait[k]
      BY <2>2, <2>6, <3>1, <3>2 DEF Apart, n
    <3>3. CASE /\ j \in 1 .. n /\ Pending[j] = pimWait[j]
               /\ k - n \in 1 .. Len(Path) /\ Pending[k] = Path[k - n]
      BY <2>2, <2>6, <3>1, <3>3 DEF ApartFrom, n
    <3>4. CASE /\ j - n \in 1 .. Len(Path) /\ Pending[j] = Path[j - n]
               /\ k \in 1 .. n /\ Pending[k] = pimWait[k]
      BY <2>2, <2>6, <3>1, <3>4 DEF ApartFrom, n
    <3>5. CASE /\ j - n \in 1 .. Len(Path) /\ Pending[j] = Path[j - n]
               /\ k - n \in 1 .. Len(Path) /\ Pending[k] = Path[k - n]
      <4>1. j - n = k - n
        BY <2>2, <2>6, <3>1, <3>5 DEF Apart
      <4>2. j \in Int /\ k \in Int
        BY <2>1, <3>1
      <4>3. QED
        BY <2>1, <4>1, <4>2
    <3>6. QED
      BY <2>1, <3>1, <3>2, <3>3, <3>4, <3>5
  <2>7. QED
    BY <2>5, <2>6
<1>2. QED
  BY <1>1, Inductive, PTL

(* When run() returns, nothing is left on its way, provided that the DRAM  *)
(* accepts more than one transaction: the one it has refused would wait    *)
(* behind another, which done() looks at.                                  *)
THEOREM StopsClean == DramDepth > 1 => (Spec => []StopIsClean)
<1> SUFFICES ASSUME DramDepth > 1 PROVE Spec => []StopIsClean
  OBVIOUS
<1>1. ASSUME IInv PROVE StopIsClean
  <2> SUFFICES ASSUME At("stopped")
               PROVE  /\ Path = << >>
                      /\ unit.curr # NoFunction /\ ~SameOperand(unit.curr) => OutstandingStages = {}
    BY DEF StopIsClean
  <2>1. /\ mem.queue = << >> /\ mem.dram = << >> /\ send = << >> /\ pimWait = << >> /\ pimSend = << >>
    BY <1>1 DEF IInv, Refused, AllDone
  <2>2. mem.trans = << >>
    <3>1. DramDepth \in Nat /\ Len(mem.dram) = 0
      BY <2>1, FastOffloadAssumption
    <3>2. ~(Len(mem.dram) >= DramDepth - 1)
      BY <3>1
    <3>3. QED
      BY <1>1, <3>2 DEF IInv, Refused
  <2>3. Path = << >>
    <3>1. << >> \o << >> = << >>
      BY EmptySeq, JoinEmpty
    <3>2. QED
      BY <2>1, <2>2, <3>1 DEF Path
  <2>4. ASSUME unit.curr # NoFunction, ~SameOperand(unit.curr), NEW s \in OutstandingStages
        PROVE  FALSE
    <3>1. Names(pimWait, s) \/ Names(Path, s)
      BY <1>1, <2>4, OutsIsOutstanding DEF IInv, Wires, Present
    <3>2. \A k \in 1 .. Len(<< >>) : FALSE
      OBVIOUS
    <3>3. QED
      BY <2>1, <2>3, <3>1, <3>2 DEF Names
  <2>5. QED
    BY <2>3, <2>4
<1>2. QED
  BY <1>1, Inductive, PTL

-----------------------------------------------------------------------------
(* Nobody's request is dropped. *)

(* A host request of q will answer processor p at the resized address b. *)
In(q, p, b) == \E k \in 1 .. Len(q) : ~q[k].pim /\ p \in q[k].pids /\ resize(q[k].addr) = b

LEMMA ServedIn ==
  ASSUME TypeOK, NEW p, NEW e, Served(p, e)
  PROVE  In(wait, p, resize(e.addr)) \/ In(Path, p, resize(e.addr))
<1>1. DOMAIN wait = 1 .. Len(wait) /\ DOMAIN Path = 1 .. Len(Path)
  BY PathType DEF TypeOK
<1>2. PICK r \in Elements(wait) \cup Elements(Path) :
        ~r.pim /\ p \in r.pids /\ resize(r.addr) = resize(e.addr)
  BY DEF Served
<1>3. (\E k \in 1 .. Len(wait) : r = wait[k]) \/ (\E k \in 1 .. Len(Path) : r = Path[k])
  BY <1>1, <1>2 DEF Elements
<1>4. QED
  BY <1>2, <1>3 DEF In

LEMMA InServed ==
  ASSUME NEW p, NEW e, NEW q, NEW w, q \in Seq(Request), w \in Seq(HostRequest),
         Path' = q, wait' = w, In(w, p, resize(e.addr)) \/ In(q, p, resize(e.addr))
  PROVE  Served(p, e)'
<1>1. DOMAIN w = 1 .. Len(w) /\ DOMAIN q = 1 .. Len(q)
  OBVIOUS
<1>2. PICK r \in {w[k] : k \in DOMAIN w} \cup {q[k] : k \in DOMAIN q} :
        ~r.pim /\ p \in r.pids /\ resize(r.addr) = resize(e.addr)
  BY <1>1 DEF In
<1>3. r \in Elements(wait)' \cup Elements(Path)'
  BY <1>2 DEF Elements
<1>4. QED
  BY <1>2, <1>3 DEF Served

LEMMA InJoined ==
  ASSUME NEW q \in Seq(Request), NEW h \in Seq(Request), NEW p, NEW b, In(q, p, b) \/ In(h, p, b)
  PROVE  In(q \o h, p, b)
<1>1. CASE In(q, p, b)
  BY <1>1, JoinedRequests DEF In
<1>2. CASE In(h, p, b)
  <2>1. PICK k \in 1 .. Len(h) : ~h[k].pim /\ p \in h[k].pids /\ resize(h[k].addr) = b
    BY <1>2 DEF In
  <2>2. Len(q) + k \in 1 .. Len(q \o h) /\ (q \o h)[Len(q) + k] = h[k]
    BY JoinedRequests
  <2>3. QED
    BY <2>1, <2>2 DEF In
<1>3. QED
  BY <1>1, <1>2

LEMMA InAppended ==
  ASSUME NEW q \in Seq(HostRequest), NEW r \in HostRequest, NEW p, NEW b, In(q, p, b)
  PROVE  In(Append(q, r), p, b)
<1>1. PICK k \in 1 .. Len(q) : ~q[k].pim /\ p \in q[k].pids /\ resize(q[k].addr) = b
  BY DEF In
<1>2. k \in 1 .. Len(Append(q, r)) /\ Append(q, r)[k] = q[k]
  OBVIOUS
<1>3. QED
  BY <1>1, <1>2 DEF In

LEMMA MctrlServes ==
  ASSUME IInv, IInv', MctrlStep, NEW p, NEW e, Served(p, e)
  PROVE  Served(p, e)'
<1> DEFINE free == {k \in DOMAIN wait : LockPage(wait[k].addr) \notin locked}
           h == Pick(wait, free)
           g == Transferred(h)
           o == Pick(wait, DOMAIN wait \ free)
           b == resize(e.addr)
<1>1. /\ send' = send \o g /\ wait' = o /\ UNCHANGED <<mem, pimSend>> /\ pimSend = << >>
  BY DEF MctrlStep, IInv, Order
<1>2. wait \in Seq(HostRequest) /\ DOMAIN wait = 1 .. Len(wait)
  BY DEF IInv, TypeOK
<1>3. /\ h \in Seq(HostRequest) /\ o \in Seq(HostRequest)
      /\ \A k \in free : \E n \in 1 .. Len(h) : h[n] = wait[k]
      /\ \A k \in DOMAIN wait \ free : \E n \in 1 .. Len(o) : o[n] = wait[k]
  <2>1. free \in SUBSET (DOMAIN wait) /\ (DOMAIN wait \ free) \in SUBSET (DOMAIN wait)
    OBVIOUS
  <2> HIDE DEF free
  <2>2. h \in Seq(HostRequest) /\ \A k \in free : \E n \in 1 .. Len(h) : h[n] = wait[k]
    BY <1>2, <2>1, Picked
  <2>3. /\ o \in Seq(HostRequest)
        /\ \A k \in DOMAIN wait \ free : \E n \in 1 .. Len(o) : o[n] = wait[k]
    BY <1>2, <2>1, Picked
  <2>4. QED
    BY <2>2, <2>3
<1> HIDE DEF free, h, o
<1>4. h \in Seq(Request)
  BY <1>3, Subtypes
<1>5. /\ g \in Seq(Request) /\ Len(g) = Len(h)
      /\ \A k \in 1 .. Len(h) : /\ g[k].pim = h[k].pim /\ g[k].pids = h[k].pids
                                /\ resize(g[k].addr) = resize(h[k].addr)
  BY <1>4, Transfers
<1> HIDE DEF g, b
<1>6. Path \in Seq(Request)
  BY PathType DEF IInv
<1>7. Path' = Path \o g
  <2> DEFINE x == (mem.dram \o mem.trans) \o mem.queue
  <2>1. x \in Seq(Request) /\ send \in Seq(Request)
    BY PathType, JoinedRequests DEF IInv
  <2>2. Path = (x \o send) \o << >> /\ Path' = (x \o (send \o g)) \o << >>
    BY <1>1 DEF Path
  <2> HIDE DEF x
  <2>3. x \o send \in Seq(Request) /\ x \o (send \o g) \in Seq(Request)
    BY <1>5, <2>1, JoinedRequests
  <2>4. (x \o send) \o << >> = x \o send /\ (x \o (send \o g)) \o << >> = x \o (send \o g)
    BY <2>3, JoinEmpty
  <2>5. (x \o send) \o g = x \o (send \o g)
    BY <1>5, <2>1, JoinAssociative
  <2>6. QED
    BY <2>2, <2>4, <2>5
<1>8. In(o, p, b) \/ In(Path \o g, p, b)
  <2>1. CASE In(Path, p, b)
    BY <1>5, <1>6, <2>1, InJoined
  <2>2. CASE In(wait, p, b)
    <3>1. PICK k \in 1 .. Len(wait) :
            ~wait[k].pim /\ p \in wait[k].pids /\ resize(wait[k].addr) = b
      BY <2>2 DEF In
    <3>2. CASE k \in free
      <4>1. PICK n \in 1 .. Len(h) : h[n] = wait[k]
        BY <1>3, <3>2
      <4>2. In(g, p, b)
        BY <1>5, <3>1, <4>1 DEF In
      <4>3. QED
        BY <1>5, <1>6, <4>2, InJoined
    <3>3. CASE k \notin free
      <4>1. PICK n \in 1 .. Len(o) : o[n] = wait[k]
        BY <1>2, <1>3, <3>3
      <4>2. QED
        BY <3>1, <4>1 DEF In
    <3>4. QED
      BY <3>2, <3>3
  <2>3. QED
    BY <2>1, <2>2, ServedIn DEF IInv, b
<1>9. Path \o g \in Seq(Request)
  BY <1>5, <1>6, JoinedRequests
<1>10. QED
  BY <1>1, <1>3, <1>7, <1>8, <1>9, InServed DEF b

LEMMA PIMMctrlServes ==
  ASSUME IInv, IInv', PIMMctrlStep, NEW p, NEW e, Served(p, e)
  PROVE  Served(p, e)'
<1>1. PICK t : pimSend' = pimSend \o t /\ UNCHANGED <<wait, send, mem>>
  BY DEF PIMMctrlStep
<1>2. pimSend = << >>
  BY DEF PIMMctrlStep, IInv, Order
<1>3. Path \in Seq(Request) /\ Path' \in Seq(Request) /\ wait \in Seq(HostRequest)
  <2>1. Path \in Seq(Request) /\ wait \in Seq(HostRequest)
    BY PathType DEF IInv, TypeOK
  <2>2. /\ mem'.dram \in Seq(Request) /\ mem'.trans \in Seq(Request) /\ mem'.queue \in Seq(Request)
        /\ send' \in Seq(HostRequest) /\ pimSend' \in Seq(PimRequest)
    BY DEF IInv, TypeOK
  <2>3. send' \in Seq(Request) /\ pimSend' \in Seq(Request)
    BY <2>2, Subtypes
  <2>4. (((mem'.dram \o mem'.trans) \o mem'.queue) \o send') \o pimSend' \in Seq(Request)
    BY <2>2, <2>3, JoinedRequests
  <2>5. QED
    BY <2>1, <2>4 DEF Path
<1>4. PICK g \in Seq(Request) : pimSend' = g
  BY Subtypes DEF IInv, TypeOK
<1>5. Path' = Path \o g
  <2> DEFINE x == ((mem.dram \o mem.trans) \o mem.queue) \o send
  <2>1. x \in Seq(Request)
    BY PathType, JoinedRequests DEF IInv
  <2>2. Path = x \o << >> /\ Path' = x \o g
    BY <1>1, <1>2, <1>4 DEF Path
  <2> HIDE DEF x
  <2>3. QED
    BY <2>1, <2>2, JoinEmpty
<1> DEFINE b == resize(e.addr)
<1>6. In(wait, p, b) \/ In(Path, p, b)
  BY ServedIn DEF IInv
<1>7. In(Path, p, b) => In(Path \o g, p, b)
  BY <1>3, <1>4, InJoined
<1>8. QED
  BY <1>1, <1>3, <1>5, <1>6, <1>7, InServed

LEMMA ProcStepServes ==
  ASSUME IInv, NEW p, NEW w, NEW c, NEW m, NEW spent, ProcStep(p, w, c, m, spent),
         w \in Seq(HostRequest), NEW i, NEW e, Served(i, e),
         In(wait, i, resize(e.addr)) => In(w, i, resize(e.addr))
  PROVE  Served(i, e)'
<1>1. wait' = w /\ UNCHANGED <<mem, send, pimSend>>
  BY DEF ProcStep
<1>2. Path' = Path /\ Path \in Seq(Request)
  BY <1>1, SamePath, PathType DEF IInv
<1>3. In(wait, i, resize(e.addr)) \/ In(Path, i, resize(e.addr))
  BY ServedIn DEF IInv
<1>4. QED
  BY <1>1, <1>2, <1>3, InServed

LEMMA ProcServes ==
  ASSUME IInv, NEW p \in Procs, ProcSteps(p), NEW i, NEW e, Served(i, e)
  PROVE  Served(i, e)'
<1> DEFINE b == resize(e.addr)
<1>1. PICK w \in Seq(HostRequest) : AfterWriteBack(p).wait = w
  BY AfterWriteBackType DEF IInv
<1>2. wait \in Seq(HostRequest) /\ cache.wb \in [Procs -> Seq(HostRequest)]
  BY DEF IInv, TypeOK
<1>3. In(wait, i, b) => In(w, i, b)
  <2>1. CASE cache.wb[p] # << >> /\ Room(wait)
    <3>1. cache.wb[p] \in Seq(HostRequest)
      BY <1>2
    <3>2. PICK r \in HostRequest : r = Head(cache.wb[p])
      BY <2>1, <3>1
    <3>3. w = Append(wait, r)
      BY <1>1, <2>1, <3>2 DEF AfterWriteBack
    <3>4. QED
      BY <1>2, <3>3, InAppended
  <2>2. CASE ~(cache.wb[p] # << >> /\ Room(wait))
    <3>1. w = wait
      BY <1>1, <2>2 DEF AfterWriteBack
    <3>2. QED
      BY <3>1
  <2>3. QED
    BY <2>1, <2>2
<1>4. ASSUME NEW c, NEW m, NEW spent, ProcStep(p, w, c, m, spent) PROVE Served(i, e)'
  BY <1>3, <1>4, ProcStepServes
<1>5. CASE ProcIdles(p)
  BY <1>1, <1>4, <1>5 DEF ProcIdles
<1>6. ASSUME NEW a \in HostAddrs, ProcHits(p, a) PROVE Served(i, e)'
  BY <1>1, <1>4, <1>6 DEF ProcHits
<1>7. ASSUME NEW a \in HostAddrs, NEW type \in {"READ", "WRITE"}, ProcMisses(p, a, type)
      PROVE  Served(i, e)'
  <2>1. a \in Addr /\ frame[a] \in Addr /\ type \in HostTypes
    BY FastOffloadAssumption DEF IInv, TypeOK, HostTypes
  <2>2. PICK r \in HostRequest : r = HostReq(type, p, a, frame[a])
    BY <2>1, HostReqType
  <2>3. PICK c, m : ProcStep(p, Append(w, r), c, m, 1)
    BY <1>1, <1>7, <2>2 DEF ProcMisses
  <2>4. Append(w, r) \in Seq(HostRequest)
    OBVIOUS
  <2>5. In(w, i, b) => In(Append(w, r), i, b)
    BY InAppended
  <2>6. QED
    BY <1>3, <2>3, <2>4, <2>5, ProcStepServes
<1>8. ASSUME NEW a \in HostAddrs, ProcRefused(p, a) PROVE Served(i, e)'
  BY <1>1, <1>4, <1>8 DEF ProcRefused
<1>9. QED
  BY <1>5, <1>6, <1>7, <1>8 DEF ProcSteps

LEMMA StillServes ==
  ASSUME IInv, UNCHANGED <<wait, mem, send, pimSend>>, NEW p, NEW e, Served(p, e)
  PROVE  Served(p, e)'
<1>1. Path' = Path /\ Path \in Seq(Request) /\ wait \in Seq(HostRequest)
  BY SamePath, PathType DEF IInv, TypeOK
<1>2. In(wait, p, resize(e.addr)) \/ In(Path, p, resize(e.addr))
  BY ServedIn DEF IInv
<1>3. QED
  BY <1>1, <1>2, InServed

(* The memory: merging keeps every processor, and the request that leaves  *)
(* is answered.                                                            *)
LEMMA MemoryAnswersOrServes ==
  ASSUME IInv, NEW k \in 0 .. DramDepth, MemoryServes(k),
         NEW p \in Procs, NEW e \in mshr[p] \cap mshr'[p], Served(p, e), ~Served(p, e)'
  PROVE  \E r \in Elements(mem.dram) :
           /\ p \in r.pids /\ r.addr = resize(e.addr)
           /\ r.type = "FLUSH" \/ r.block # e.block
<1> DEFINE b == resize(e.addr)
<1>1. TypeOK /\ wait' = wait /\ wait \in Seq(HostRequest) /\ Path \in Seq(Request)
  BY PathType DEF IInv, TypeOK, MemoryServes
<1>2. k # 0 => k \in DOMAIN mem.dram
  BY <1>1, ServesPath
<1>3. PICK u \in Seq(Request) :
        /\ Merged(Path, u)
        /\ k = 0 => Path' = u
        /\ k # 0 => k \in 1 .. Len(u) /\ u[k] = mem.dram[k] /\ Path' = RemoveAt(u, k)
  BY <1>1, ServesPath
<1>4. In(wait, p, b) \/ In(Path, p, b)
  BY <1>1, ServedIn
<1>5. PICK q \in Seq(Request) : Path' = q
  <2>1. CASE k = 0
    BY <1>3, <2>1
  <2>2. CASE k # 0
    BY <1>3, <2>2, RemovedRequest
  <2>3. QED
    BY <2>1, <2>2
<1>6. ~In(wait, p, b) /\ ~In(q, p, b)
  BY <1>1, <1>5, InServed
<1>7. PICK i \in 1 .. Len(Path) : ~Path[i].pim /\ p \in Path[i].pids /\ resize(Path[i].addr) = b
  BY <1>4, <1>6 DEF In
<1>8. PICK n \in 1 .. Len(u) : ~u[n].pim /\ u[n].addr = Path[i].addr /\ p \in u[n].pids
  BY <1>3, <1>7 DEF Merged, KeepsHosts
<1>9. resize(u[n].addr) = b /\ u[n].addr = b
  <2>1. resize(Path[i].addr) = Path[i].addr
    BY DEF IInv, Wires, Carried, Resized
  <2>2. QED
    BY <1>7, <1>8, <2>1
<1>10. k # 0
  BY <1>3, <1>5, <1>6, <1>8, <1>9 DEF In
<1>11. n = k
  <2>1. /\ q = RemoveAt(u, k) /\ k \in 1 .. Len(u)
    BY <1>3, <1>5, <1>10
  <2>2. /\ Len(q) = Len(u) - 1 /\ Len(u) \in Nat
        /\ \A j \in 1 .. Len(u) - 1 : q[j] = IF j < k THEN u[j] ELSE u[j + 1]
    BY <2>1, RemovedRequest
  <2>3. ASSUME n < k PROVE FALSE
    <3>1. n \in 1 .. Len(q) /\ q[n] = u[n]
      BY <2>1, <2>2, <2>3
    <3>2. QED
      BY <1>6, <1>8, <1>9, <3>1 DEF In
  <2>4. ASSUME n > k PROVE FALSE
    <3>1. n - 1 \in 1 .. Len(q) /\ q[n - 1] = u[n]
      <4>1. PICK j : j = n - 1
        OBVIOUS
      <4>2. j \in 1 .. Len(u) - 1 /\ ~(j < k) /\ j + 1 = n
        BY <1>8, <2>1, <2>2, <2>4, <4>1
      <4>3. q[j] = u[j + 1]
        BY <2>2, <4>2
      <4>4. QED
        BY <2>2, <4>1, <4>2, <4>3
    <3>2. QED
      BY <1>6, <1>8, <1>9, <3>1 DEF In
  <2>5. QED
    BY <2>1, <2>3, <2>4
<1>12. PICK r : r = mem.dram[k]
  OBVIOUS
<1>13. r \in Elements(mem.dram) /\ u[n] = r
  BY <1>2, <1>3, <1>10, <1>11, <1>12 DEF Elements
<1>14. r.type = "FLUSH" \/ r.block # e.block
  <2>1. SUFFICES ASSUME r.type # "FLUSH" PROVE r.block # e.block
    OBVIOUS
  <2>2. Answer(r) /\ ~r.pim /\ p \in r.pids
    BY <1>8, <1>10, <1>12, <1>13 DEF MemoryServes
  <2>3. mshr' = [j \in Procs |-> IF j \in r.pids THEN {x \in mshr[j] : x.block # r.block}
                                                 ELSE mshr[j]]
    BY <2>1, <2>2 DEF Answer
  <2>4. e \in {x \in mshr[p] : x.block # r.block}
    BY <2>2, <2>3
  <2>5. QED
    BY <2>4
<1>15. QED
  BY <1>8, <1>9, <1>13, <1>14

(* A waiting processor loses its last request only to an answer: merging   *)
(* and the controllers drop nobody.                                        *)
THEOREM NothingDropped == Spec => NoRequestDropped
<1> DEFINE Dropless ==
             \A p \in Procs : \A e \in mshr[p] \cap mshr'[p] :
               Served(p, e) /\ ~Served(p, e)' =>
                 \E r \in Elements(mem.dram) :
                   /\ p \in r.pids /\ r.addr = resize(e.addr)
                   /\ r.type = "FLUSH" \/ r.block # e.block
<1>1. ASSUME IInv, IInv', Next PROVE Dropless
  <2> SUFFICES ASSUME NEW p \in Procs, NEW e \in mshr[p] \cap mshr'[p], Served(p, e), ~Served(p, e)'
               PROVE  \E r \in Elements(mem.dram) :
                        /\ p \in r.pids /\ r.addr = resize(e.addr)
                        /\ r.type = "FLUSH" \/ r.block # e.block
    OBVIOUS
  <2>1. CASE \E k \in 0 .. DramDepth : MemoryServes(k)
    BY <1>1, <2>1, MemoryAnswersOrServes
  <2>2. ASSUME UNCHANGED <<wait, mem, send, pimSend>> PROVE FALSE
    BY <1>1, <2>2, StillServes
  <2>3. CASE MemoryThrows
    BY <2>2, <2>3 DEF MemoryThrows
  <2>4. CASE MctrlStep
    BY <1>1, <2>4, MctrlServes
  <2>5. CASE PIMMctrlStep
    BY <1>1, <2>5, PIMMctrlServes
  <2>6. CASE \E i \in Procs : ProcSteps(i)
    BY <1>1, <2>6, ProcServes
  <2>7. CASE UnitStep
    BY <2>2, <2>7 DEF UnitStep, Finish, Store, Compute, Fetch, Load, UnitIdles, UnitKeeps
  <2>8. CASE Ended
    BY <2>2, <2>8 DEF Ended, vars
  <2>9. QED
    BY <1>1, <2>1, <2>3, <2>4, <2>5, <2>6, <2>7, <2>8 DEF Next
<1>2. IInv /\ IInv' /\ [Next]_vars => [Dropless]_vars
  BY <1>1
<1>3. QED
  BY <1>2, Inductive, PTL DEF Spec, NoRequestDropped
==============================================================================
