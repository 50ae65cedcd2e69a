-------------------------- MODULE FastRequestsProofs --------------------------
(***************************************************************************)
(* Proofs about the operations of FastRequests for every memory, queue and *)
(* number of processors: what merging does to a queue of requests.         *)
(***************************************************************************)
EXTENDS FastRequests, FastQueuesProofs

(* Two requests that differ in the processors to answer at most. *)
Alike(r, t) == r.addr = t.addr /\ r.pim = t.pim /\ r.stage = t.stage

(* The entries of t are entries of q, in the order of q. *)
Reduces(q, t) ==
  \E m \in [1 .. Len(t) -> 1 .. Len(q)] :
    /\ \A k \in 1 .. Len(t) : Alike(t[k], q[m[k]])
    /\ \A j, k \in 1 .. Len(t) : j < k => m[j] < m[k]

(* Every processor that a host request of q names is still named by a      *)
(* request for the same address.                                           *)
KeepsHosts(q, t) ==
  \A k \in 1 .. Len(q) : ~q[k].pim =>
    \A p \in q[k].pids :
      \E n \in 1 .. Len(t) : ~t[n].pim /\ t[n].addr = q[k].addr /\ p \in t[n].pids

(* PIM requests for different addresses stay. *)
PimsApart(q) ==
  \A j, k \in 1 .. Len(q) : q[j].pim /\ q[k].pim /\ q[j].addr = q[k].addr => j = k

KeepsPims(q, t) ==
  PimsApart(q) => \A k \in 1 .. Len(q) : q[k].pim =>
                    \E n \in 1 .. Len(t) : t[n].pim /\ t[n].stage = q[k].stage

Merged(q, t) == Reduces(q, t) /\ KeepsHosts(q, t) /\ KeepsPims(q, t)

-----------------------------------------------------------------------------
(* The iteration of a function exists. *)
LEMMA Iteration ==
  ASSUME NEW S, NEW x \in S, NEW F \in [S -> S]
  PROVE  \E it \in [Nat -> S] : it[0] = x /\ \A n \in Nat : it[n + 1] = F[it[n]]
<1> DEFINE Approx(n, g) == g[0] = x /\ \A k \in 0 .. n - 1 : g[k + 1] = F[g[k]]
           Has(n) == \E g \in [0 .. n -> S] : Approx(n, g)
           T == {n \in Nat : Has(n)}
<1>1. T = Nat
  <2>1. 0 \in T
    <3>1. [k \in 0 .. 0 |-> x] \in [0 .. 0 -> S] /\ Approx(0, [k \in 0 .. 0 |-> x])
      OBVIOUS
    <3>2. QED
      BY <3>1
  <2>2. ASSUME NEW n \in T PROVE n + 1 \in T
    <3>1. PICK g \in [0 .. n -> S] : Approx(n, g)
      BY <2>2
    <3> DEFINE h == [k \in 0 .. n + 1 |-> IF k = n + 1 THEN F[g[n]] ELSE g[k]]
    <3>2. n \in Nat /\ g[n] \in S /\ F[g[n]] \in S
      BY <2>2
    <3>3. h \in [0 .. n + 1 -> S]
      BY <3>2
    <3>4. Approx(n + 1, h)
      BY <3>1, <3>2
    <3> HIDE DEF h, Approx
    <3>5. Has(n + 1)
      BY <3>3, <3>4
    <3>6. QED
      BY <3>2, <3>5
  <2>3. QED
    BY <2>1, <2>2, NatSet
<1> DEFINE G(n) == CHOOSE g \in [0 .. n -> S] : Approx(n, g)
<1>2. \A n \in Nat : G(n) \in [0 .. n -> S] /\ Approx(n, G(n))
  <2> TAKE n \in Nat
  <2>1. n \in T
    BY <1>1
  <2>2. \E g \in [0 .. n -> S] : Approx(n, g)
    BY <2>1
  <2> HIDE DEF Approx
  <2>3. QED
    BY <2>2
<1> HIDE DEF G
<1>3. ASSUME NEW n \in Nat PROVE G(n + 1)[n] = G(n)[n]
  <2> DEFINE g == G(n + 1)
             h == G(n)
             E == {k \in Nat : k <= n => g[k] = h[k]}
  <2>1. Approx(n + 1, g) /\ Approx(n, h)
    <3> HIDE DEF Approx
    <3>1. n + 1 \in Nat
      OBVIOUS
    <3>2. QED
      BY <1>2, <3>1
  <2> HIDE DEF g, h
  <2>2. 0 \in E
    BY <2>1
  <2>3. ASSUME NEW k \in E PROVE k + 1 \in E
    <3>1. CASE k + 1 <= n
      BY <2>1, <2>3, <3>1
    <3>2. CASE ~(k + 1 <= n)
      BY <2>3, <3>2
    <3>3. QED
      BY <3>1, <3>2
  <2>4. E = Nat
    BY <2>2, <2>3, NatSet
  <2>5. n \in E
    BY <2>4
  <2>6. QED
    BY <2>5 DEF g, h
<1> DEFINE it == [n \in Nat |-> G(n)[n]]
<1>4. it \in [Nat -> S] /\ it[0] = x /\ \A n \in Nat : it[n + 1] = F[it[n]]
  <2>1. \A n \in Nat : G(n)[n] \in S
    <3> TAKE n \in Nat
    <3>1. G(n) \in [0 .. n -> S]
      BY <1>2
    <3>2. QED
      BY <3>1
  <2>2. G(0)[0] = x
    BY <1>2
  <2>3. \A n \in Nat : G(n + 1)[n + 1] = F[G(n + 1)[n]]
    <3> TAKE n \in Nat
    <3>1. n + 1 \in Nat
      OBVIOUS
    <3>2. \A k \in 0 .. (n + 1) - 1 : G(n + 1)[k + 1] = F[G(n + 1)[k]]
      BY <1>2, <3>1
    <3>3. n \in 0 .. (n + 1) - 1
      OBVIOUS
    <3>4. QED
      BY <3>2, <3>3
  <2>4. QED
    BY <1>3, <2>1, <2>2, <2>3
<1>5. QED
  BY <1>4

-----------------------------------------------------------------------------
LEMMA Joined ==
  ASSUME NEW S, NEW a \in Seq(S), NEW b \in Seq(S)
  PROVE  /\ a \o b \in Seq(S) /\ Len(a \o b) = Len(a) + Len(b)
         /\ Len(a) \in Nat /\ Len(b) \in Nat
         /\ \A k \in 1 .. Len(a) + Len(b) :
              (a \o b)[k] = IF k <= Len(a) THEN a[k] ELSE b[k - Len(a)]
OBVIOUS

(* What is left when one entry is removed. *)
LEMMA Removed ==
  ASSUME NEW S, NEW q \in Seq(S), NEW j \in 1 .. Len(q)
  PROVE  /\ RemoveAt(q, j) \in Seq(S) /\ Len(RemoveAt(q, j)) = Len(q) - 1
         /\ \A k \in 1 .. Len(q) - 1 : RemoveAt(q, j)[k] = IF k < j THEN q[k] ELSE q[k + 1]
<1> DEFINE a == SubSeq(q, 1, j - 1)
           b == SubSeq(q, j + 1, Len(q))
<1>1. /\ a \in Seq(S) /\ Len(a) = j - 1
      /\ \A k \in 1 .. j - 1 : a[k] = q[k]
  OBVIOUS
<1>2. /\ b \in Seq(S) /\ Len(b) = Len(q) - j
      /\ \A k \in 1 .. Len(q) - j : b[k] = q[j + k]
  OBVIOUS
<1>3. RemoveAt(q, j) = a \o b
  BY DEF RemoveAt
<1> HIDE DEF a, b
<1>4. /\ a \o b \in Seq(S) /\ Len(a \o b) = Len(q) - 1
      /\ \A k \in 1 .. Len(q) - 1 :
           (a \o b)[k] = IF k <= j - 1 THEN a[k] ELSE b[k - (j - 1)]
  <2>1. Len(a) + Len(b) = Len(q) - 1
    BY <1>1, <1>2
  <2>2. /\ a \o b \in Seq(S) /\ Len(a \o b) = Len(a) + Len(b)
        /\ \A k \in 1 .. Len(a) + Len(b) :
             (a \o b)[k] = IF k <= Len(a) THEN a[k] ELSE b[k - Len(a)]
    BY <1>1, <1>2, Joined
  <2>3. QED
    BY <1>1, <2>1, <2>2
<1>5. ASSUME NEW k \in 1 .. Len(q) - 1
      PROVE  (a \o b)[k] = IF k < j THEN q[k] ELSE q[k + 1]
  <2>1. CASE k < j
    BY <1>1, <1>4, <2>1
  <2>2. CASE ~(k < j)
    <3>1. k - (j - 1) \in 1 .. Len(q) - j /\ j + (k - (j - 1)) = k + 1
      BY <2>2
    <3>2. QED
      BY <1>2, <1>4, <2>2, <3>1
  <2>3. QED
    BY <2>1, <2>2
<1>6. QED
  BY <1>3, <1>4, <1>5

(* Removing entry j, where the entries may have got more processors to     *)
(* answer before.                                                          *)
LEMMA RemovedReduces ==
  ASSUME NEW q \in Seq(Request), NEW u \in Seq(Request), NEW j \in 1 .. Len(q),
         Len(u) = Len(q), \A k \in 1 .. Len(q) : Alike(u[k], q[k])
  PROVE  Reduces(q, RemoveAt(u, j))
<1> DEFINE t == RemoveAt(u, j)
           m == [k \in 1 .. Len(t) |-> IF k < j THEN k ELSE k + 1]
<1>1. /\ Len(t) = Len(q) - 1 /\ Len(q) \in Nat
      /\ \A k \in 1 .. Len(q) - 1 : t[k] = IF k < j THEN u[k] ELSE u[k + 1]
  BY Removed
<1> HIDE DEF t
<1>2. m \in [1 .. Len(t) -> 1 .. Len(q)]
  BY <1>1
<1>3. \A k \in 1 .. Len(t) : Alike(t[k], q[m[k]])
  <2> TAKE k \in 1 .. Len(t)
  <2>1. CASE k < j
    BY <1>1, <2>1
  <2>2. CASE ~(k < j)
    <3>1. k + 1 \in 1 .. Len(q) /\ m[k] = k + 1 /\ t[k] = u[k + 1]
      BY <1>1, <2>2
    <3>2. QED
      BY <3>1
  <2>3. QED
    BY <2>1, <2>2
<1>4. \A i, k \in 1 .. Len(t) : i < k => m[i] < m[k]
  BY <1>1
<1>5. QED
  BY <1>2, <1>3, <1>4 DEF Reduces, t

LEMMA ReducesTransitive ==
  ASSUME NEW q \in Seq(Request), NEW t \in Seq(Request), NEW u \in Seq(Request),
         Reduces(q, t), Reduces(t, u)
  PROVE  Reduces(q, u)
<1>1. PICK m \in [1 .. Len(t) -> 1 .. Len(q)] :
        /\ \A k \in 1 .. Len(t) : Alike(t[k], q[m[k]])
        /\ \A j, k \in 1 .. Len(t) : j < k => m[j] < m[k]
  BY DEF Reduces
<1>2. PICK n \in [1 .. Len(u) -> 1 .. Len(t)] :
        /\ \A k \in 1 .. Len(u) : Alike(u[k], t[n[k]])
        /\ \A j, k \in 1 .. Len(u) : j < k => n[j] < n[k]
  BY DEF Reduces
<1> DEFINE h == [k \in 1 .. Len(u) |-> m[n[k]]]
<1>3. h \in [1 .. Len(u) -> 1 .. Len(q)]
  OBVIOUS
<1>4. \A k \in 1 .. Len(u) : Alike(u[k], q[h[k]])
  BY <1>1, <1>2 DEF Alike
<1>5. \A j, k \in 1 .. Len(u) : j < k => h[j] < h[k]
  BY <1>1, <1>2
<1>6. QED
  BY <1>3, <1>4, <1>5 DEF Reduces

LEMMA ReducesApart ==
  ASSUME NEW q \in Seq(Request), NEW t \in Seq(Request), Reduces(q, t), PimsApart(q)
  PROVE  PimsApart(t)
<1>1. PICK m \in [1 .. Len(t) -> 1 .. Len(q)] :
        /\ \A k \in 1 .. Len(t) : Alike(t[k], q[m[k]])
        /\ \A j, k \in 1 .. Len(t) : j < k => m[j] < m[k]
  BY DEF Reduces
<1> SUFFICES ASSUME NEW j \in 1 .. Len(t), NEW k \in 1 .. Len(t),
                    t[j].pim, t[k].pim, t[j].addr = t[k].addr
             PROVE  j = k
  BY DEF PimsApart
<1>2. /\ m[j] \in 1 .. Len(q) /\ m[k] \in 1 .. Len(q)
      /\ q[m[j]].pim /\ q[m[k]].pim /\ q[m[j]].addr = q[m[k]].addr
  BY <1>1 DEF Alike
<1>3. m[j] = m[k]
  BY <1>2 DEF PimsApart
<1>4. ~(j < k) /\ ~(k < j)
  BY <1>1, <1>2, <1>3
<1>5. QED
  BY <1>4

LEMMA MergedReflexive == ASSUME NEW q \in Seq(Request) PROVE Merged(q, q)
<1> DEFINE m == [k \in 1 .. Len(q) |-> k]
<1>1. /\ m \in [1 .. Len(q) -> 1 .. Len(q)]
      /\ \A k \in 1 .. Len(q) : Alike(q[k], q[m[k]])
      /\ \A j, k \in 1 .. Len(q) : j < k => m[j] < m[k]
  BY DEF Alike
<1>2. Reduces(q, q)
  BY <1>1 DEF Reduces
<1>3. KeepsHosts(q, q) /\ KeepsPims(q, q)
  BY DEF KeepsHosts, KeepsPims
<1>4. QED
  BY <1>2, <1>3 DEF Merged

LEMMA MergedTransitive ==
  ASSUME NEW q \in Seq(Request), NEW t \in Seq(Request), NEW u \in Seq(Request),
         Merged(q, t), Merged(t, u)
  PROVE  Merged(q, u)
<1>1. Reduces(q, u)
  BY ReducesTransitive DEF Merged
<1>2. KeepsHosts(q, u)
  <2> SUFFICES ASSUME NEW k \in 1 .. Len(q), ~q[k].pim, NEW p \in q[k].pids
               PROVE  \E n \in 1 .. Len(u) : ~u[n].pim /\ u[n].addr = q[k].addr /\ p \in u[n].pids
    BY DEF KeepsHosts
  <2>1. PICK i \in 1 .. Len(t) : ~t[i].pim /\ t[i].addr = q[k].addr /\ p \in t[i].pids
    BY DEF Merged, KeepsHosts
  <2>2. PICK n \in 1 .. Len(u) : ~u[n].pim /\ u[n].addr = t[i].addr /\ p \in u[n].pids
    BY <2>1 DEF Merged, KeepsHosts
  <2>3. QED
    BY <2>1, <2>2
<1>3. KeepsPims(q, u)
  <2> SUFFICES ASSUME PimsApart(q), NEW k \in 1 .. Len(q), q[k].pim
               PROVE  \E n \in 1 .. Len(u) : u[n].pim /\ u[n].stage = q[k].stage
    BY DEF KeepsPims
  <2>1. PimsApart(t)
    BY ReducesApart DEF Merged
  <2>2. PICK i \in 1 .. Len(t) : t[i].pim /\ t[i].stage = q[k].stage
    BY DEF Merged, KeepsPims
  <2>3. PICK n \in 1 .. Len(u) : u[n].pim /\ u[n].stage = t[i].stage
    BY <2>1, <2>2 DEF Merged, KeepsPims
  <2>4. QED
    BY <2>2, <2>3
<1>4. QED
  BY <1>1, <1>2, <1>3 DEF Merged

(* The entry that absorbs another one, before the other one goes. *)
LEMMA Widened ==
  ASSUME NEW q \in Seq(Request), NEW i \in 1 .. Len(q), NEW j \in 1 .. Len(q),
         SameTransaction(q, i, j)
  PROVE  LET u == [q EXCEPT ![i].pids = @ \cup q[j].pids]
         IN  /\ u \in Seq(Request) /\ Len(u) = Len(q)
             /\ \A k \in 1 .. Len(q) : Alike(u[k], q[k]) /\ q[k].pids \subseteq u[k].pids
             /\ q[j].pids \subseteq u[i].pids
<1> DEFINE e == [q[i] EXCEPT !.pids = @ \cup q[j].pids]
           u == [q EXCEPT ![i] = e]
<1>1. q[i] \in Request /\ q[j] \in Request /\ q[i].pim = q[j].pim
  BY DEF SameTransaction
<1>2. /\ e \in Request /\ Alike(e, q[i])
      /\ q[i].pids \subseteq e.pids /\ q[j].pids \subseteq e.pids
  <2>1. CASE q[i].pim = FALSE
    <3>1. q[i] \in HostRequest /\ q[j] \in HostRequest
      BY <1>1, <2>1 DEF Request, HostRequest, PimRequest
    <3>2. e \in HostRequest
      BY <3>1 DEF HostRequest
    <3>3. QED
      BY <3>1, <3>2 DEF HostRequest, Request, Alike
  <2>2. CASE q[i].pim = TRUE
    <3>1. q[i] \in PimRequest /\ q[j] \in PimRequest
      BY <1>1, <2>2 DEF Request, HostRequest, PimRequest
    <3>2. e = q[i] /\ q[j].pids = q[i].pids
      BY <3>1 DEF PimRequest
    <3>3. QED
      BY <1>1, <3>2 DEF Alike
  <2>3. QED
    BY <1>1, <2>1, <2>2 DEF Request, HostRequest, PimRequest
<1> HIDE DEF e
<1>3. /\ u \in Seq(Request) /\ Len(u) = Len(q)
      /\ \A k \in 1 .. Len(q) : u[k] = IF k = i THEN e ELSE q[k]
  BY <1>1, <1>2
<1> HIDE DEF u
<1>4. \A k \in 1 .. Len(q) : Alike(u[k], q[k]) /\ q[k].pids \subseteq u[k].pids
  BY <1>2, <1>3 DEF Alike
<1>5. QED
  BY <1>2, <1>3, <1>4 DEF u, e

(* One request absorbs another one for the same address and of the same    *)
(* kind.                                                                   *)
LEMMA AbsorbMerges ==
  ASSUME NEW q \in Seq(Request), NEW i \in 1 .. Len(q), NEW j \in 1 .. Len(q),
         SameTransaction(q, i, j)
  PROVE  Absorb(q, i, j) \in Seq(Request) /\ Merged(q, Absorb(q, i, j))
<1> DEFINE u == [q EXCEPT ![i].pids = @ \cup q[j].pids]
           t == RemoveAt(u, j)
<1>1. /\ u \in Seq(Request) /\ Len(u) = Len(q)
      /\ \A k \in 1 .. Len(q) : Alike(u[k], q[k]) /\ q[k].pids \subseteq u[k].pids
      /\ q[j].pids \subseteq u[i].pids
  BY Widened
<1>2. Absorb(q, i, j) = t
  BY DEF Absorb
<1> HIDE DEF u
<1>3. /\ t \in Seq(Request) /\ Len(t) = Len(q) - 1 /\ Len(q) \in Nat
      /\ \A k \in 1 .. Len(q) - 1 : t[k] = IF k < j THEN u[k] ELSE u[k + 1]
  BY <1>1, Removed
<1>4. Reduces(q, t)
  BY <1>1, RemovedReduces
<1>5. i # j /\ q[i].addr = q[j].addr /\ q[i].pim = q[j].pim
  BY DEF SameTransaction
<1> HIDE DEF t
<1>6. \A k \in 1 .. Len(q) : k # j => \E n \in 1 .. Len(t) : t[n] = u[k]
  <2> SUFFICES ASSUME NEW k \in 1 .. Len(q), k # j PROVE \E n \in 1 .. Len(t) : t[n] = u[k]
    OBVIOUS
  <2>1. CASE k < j
    BY <1>3, <2>1
  <2>2. CASE k > j
    <3>1. k - 1 \in 1 .. Len(t) /\ ~(k - 1 < j) /\ (k - 1) + 1 = k
      BY <1>3, <2>2
    <3>2. t[k - 1] = u[k]
      BY <1>3, <3>1
    <3>3. QED
      BY <3>1, <3>2
  <2>3. QED
    BY <2>1, <2>2
<1>7. KeepsHosts(q, t)
  <2> SUFFICES ASSUME NEW k \in 1 .. Len(q), ~q[k].pim, NEW p \in q[k].pids
               PROVE  \E n \in 1 .. Len(t) : ~t[n].pim /\ t[n].addr = q[k].addr /\ p \in t[n].pids
    BY DEF KeepsHosts
  <2>1. PICK h \in 1 .. Len(q) : h # j /\ h = IF k = j THEN i ELSE k
    BY <1>5
  <2>2. ~u[h].pim /\ u[h].addr = q[k].addr /\ p \in u[h].pids
    BY <1>1, <1>5, <2>1 DEF Alike
  <2>3. QED
    BY <1>6, <2>1, <2>2
<1>8. KeepsPims(q, t)
  <2> SUFFICES ASSUME PimsApart(q), NEW k \in 1 .. Len(q), q[k].pim
               PROVE  \E n \in 1 .. Len(t) : t[n].pim /\ t[n].stage = q[k].stage
    BY DEF KeepsPims
  <2>1. k # j
    BY <1>5 DEF PimsApart
  <2>2. u[k].pim /\ u[k].stage = q[k].stage
    BY <1>1 DEF Alike
  <2>3. QED
    BY <1>6, <2>1, <2>2
<1>9. QED
  BY <1>2, <1>3, <1>4, <1>7, <1>8 DEF Merged

-----------------------------------------------------------------------------
(* The loop starts, and goes on, in its states. *)
LEMMA MergeStarts ==
  ASSUME NEW q \in Seq(Request)
  PROVE  MergeStart(q) \in MergeState /\ MergeStart(q).queue = q
BY DEF MergeStart, MergeState

(* One comparison. *)
LEMMA MergeSteps ==
  ASSUME NEW s \in MergeState
  PROVE  MergeStep(s) \in MergeState /\ Merged(s.queue, MergeStep(s).queue)
<1>1. /\ s.queue \in Seq(Request) /\ Len(s.queue) \in Nat
      /\ s.i \in Nat \ {0} /\ s.j \in Nat \ {0}
  BY DEF MergeState
<1>2. Merged(s.queue, s.queue)
  BY <1>1, MergedReflexive
<1>3. CASE MergeStep(s) = [s EXCEPT !.i = s.i + 1, !.j = 1]
  <2>1. s.i + 1 \in Nat \ {0} /\ 1 \in Nat \ {0}
    BY <1>1
  <2>2. \A n, k \in Nat \ {0} : /\ [s EXCEPT !.i = n, !.j = k] \in MergeState
                               /\ [s EXCEPT !.i = n, !.j = k].queue = s.queue
    BY DEF MergeState
  <2>3. QED
    BY <1>2, <1>3, <2>1, <2>2
<1>4. CASE MergeStep(s) = MergeStart(s.queue)
  BY <1>1, <1>2, <1>4, MergeStarts
<1>5. CASE \E e \in {"merged", "threw"} : MergeStep(s) = [s EXCEPT !.ended = e]
  <2>1. PICK e \in {"merged", "threw"} : MergeStep(s) = [s EXCEPT !.ended = e]
    BY <1>5
  <2>2. QED
    BY <1>2, <2>1 DEF MergeState
<1>6. CASE MergeStep(s) = [s EXCEPT !.j = s.j + 1]
  <2>1. s.j + 1 \in Nat \ {0}
    BY <1>1
  <2>2. QED
    BY <1>2, <1>6, <2>1 DEF MergeState
<1>7. CASE /\ s.i \in 1 .. Len(s.queue) /\ s.j \in 1 .. Len(s.queue)
           /\ SameTransaction(s.queue, s.i, s.j)
           /\ MergeStep(s) = [s EXCEPT !.queue = Absorb(s.queue, s.i, s.j),
                                       !.j = s.j + 1, !.changed = TRUE]
  <2>1. s.j + 1 \in Nat \ {0}
    BY <1>1
  <2>2. PICK t \in Seq(Request) : t = Absorb(s.queue, s.i, s.j) /\ Merged(s.queue, t)
    BY <1>1, <1>7, AbsorbMerges
  <2>3. MergeStep(s) = [s EXCEPT !.queue = t, !.j = s.j + 1, !.changed = TRUE]
    BY <1>7, <2>2
  <2>4. QED
    BY <2>1, <2>2, <2>3 DEF MergeState
<1>8. QED
  <2>1. CASE s.j > Len(s.queue)
    <3>1. \/ MergeStep(s) = [s EXCEPT !.i = s.i + 1, !.j = 1]
          \/ MergeStep(s) = MergeStart(s.queue)
          \/ MergeStep(s) = [s EXCEPT !.ended = "merged"]
      BY <2>1 DEF MergeStep
    <3>2. QED
      BY <1>3, <1>4, <1>5, <3>1
  <2>2. CASE ~(s.j > Len(s.queue)) /\ s.i > Len(s.queue)
    BY <1>5, <2>2 DEF MergeStep
  <2>3. CASE ~(s.j > Len(s.queue)) /\ ~(s.i > Len(s.queue))
    <3>1. s.i \in 1 .. Len(s.queue) /\ s.j \in 1 .. Len(s.queue)
      BY <1>1, <2>3
    <3>2. CASE SameTransaction(s.queue, s.i, s.j)
      BY <1>7, <2>3, <3>1, <3>2 DEF MergeStep
    <3>3. CASE ~SameTransaction(s.queue, s.i, s.j)
      BY <1>6, <2>3, <3>3 DEF MergeStep
    <3>4. QED
      BY <3>2, <3>3
  <2>4. QED
    BY <2>1, <2>2, <2>3

(* The loop satisfies the equation that defines it. *)
LEMMA MergeLoopDef ==
  \A n \in Nat : \A s \in MergeState :
    MergeLoop[n][s] = IF n = 0 \/ s.ended # "no" THEN s ELSE MergeLoop[n - 1][MergeStep(s)]
<1> DEFINE S == [MergeState -> MergeState]
           id == [s \in MergeState |-> s]
           F == [g \in S |-> [s \in MergeState |->
                                IF s.ended # "no" THEN s ELSE g[MergeStep(s)]]]
           E(l) == [n \in Nat |-> [s \in MergeState |->
                     IF n = 0 \/ s.ended # "no" THEN s ELSE l[n - 1][MergeStep(s)]]]
<1>1. id \in S
  OBVIOUS
<1>2. F \in [S -> S]
  BY MergeSteps
<1>3. PICK it \in [Nat -> S] : it[0] = id /\ \A n \in Nat : it[n + 1] = F[it[n]]
  <2> HIDE DEF F, S, id
  <2>1. QED
    BY <1>1, <1>2, Iteration
<1> HIDE DEF F
<1>4. \A n \in Nat : it[n] = [s \in MergeState |->
                       IF n = 0 \/ s.ended # "no" THEN s ELSE it[n - 1][MergeStep(s)]]
  <2> TAKE n \in Nat
  <2>1. CASE n = 0
    BY <1>3, <2>1
  <2>2. CASE n # 0
    <3>1. n - 1 \in Nat /\ (n - 1) + 1 = n
      BY <2>2
    <3>2. it[n] = F[it[n - 1]] /\ it[n - 1] \in S
      BY <1>3, <3>1
    <3>3. F[it[n - 1]] = [s \in MergeState |->
                            IF s.ended # "no" THEN s ELSE it[n - 1][MergeStep(s)]]
      BY <3>2 DEF F
    <3>4. QED
      BY <2>2, <3>2, <3>3
  <2>3. QED
    BY <2>1, <2>2
<1>5. it = E(it)
  BY <1>4
<1>6. MergeLoop = CHOOSE l : l = E(l)
  BY DEF MergeLoop
<1>7. \A l : \A n \in Nat : \A s \in MergeState :
        E(l)[n][s] = IF n = 0 \/ s.ended # "no" THEN s ELSE l[n - 1][MergeStep(s)]
  OBVIOUS
<1> HIDE DEF E
<1>8. MergeLoop = E(MergeLoop)
  BY <1>5, <1>6
<1>9. \A l : l = E(l) =>
        \A n \in Nat : \A s \in MergeState :
          l[n][s] = IF n = 0 \/ s.ended # "no" THEN s ELSE l[n - 1][MergeStep(s)]
  <2> SUFFICES ASSUME NEW l, l = E(l), NEW n \in Nat, NEW s \in MergeState
               PROVE  l[n][s] = IF n = 0 \/ s.ended # "no" THEN s ELSE l[n - 1][MergeStep(s)]
    OBVIOUS
  <2>1. l[n][s] = E(l)[n][s]
    OBVIOUS
  <2>2. QED
    BY <1>7, <2>1, Zenon
<1>10. QED
  BY <1>8, <1>9, Zenon

(* What the whole loop leaves of a queue, whether it ends or throws: the   *)
(* requests that stay keep their order, no processor is forgotten, and PIM *)
(* requests for different addresses stay.                                  *)
THEOREM MergeResult ==
  ASSUME NEW q \in Seq(Request)
  PROVE  Merge(q).queue \in Seq(Request) /\ Merged(q, Merge(q).queue)
<1> DEFINE Good(s) == s \in MergeState /\ Merged(q, s.queue)
           T == {n \in Nat : \A s \in MergeState : Good(s) => Good(MergeLoop[n][s])}
<1>1. \A n \in Nat : \A s \in MergeState :
        MergeLoop[n][s] = IF n = 0 \/ s.ended # "no" THEN s ELSE MergeLoop[n - 1][MergeStep(s)]
  BY MergeLoopDef
<1>2. \A s \in MergeState : s.queue \in Seq(Request)
  BY DEF MergeState
<1>3. \A s \in MergeState : Good(s) => Good(MergeStep(s))
  <2> SUFFICES ASSUME NEW s \in MergeState, Merged(q, s.queue)
               PROVE  MergeStep(s) \in MergeState /\ Merged(q, MergeStep(s).queue)
    OBVIOUS
  <2>1. MergeStep(s) \in MergeState /\ Merged(s.queue, MergeStep(s).queue)
    BY MergeSteps
  <2>2. QED
    BY <1>2, <2>1, MergedTransitive
<1> HIDE DEF Good
<1>4. 0 \in T
  BY <1>1
<1>5. ASSUME NEW n \in T PROVE n + 1 \in T
  <2> SUFFICES ASSUME NEW s \in MergeState, Good(s) PROVE Good(MergeLoop[n + 1][s])
    OBVIOUS
  <2>1. n + 1 \in Nat /\ n + 1 # 0 /\ (n + 1) - 1 = n
    OBVIOUS
  <2>2. CASE s.ended # "no"
    BY <1>1, <2>1, <2>2
  <2>3. CASE s.ended = "no"
    <3>1. MergeLoop[n + 1][s] = MergeLoop[n][MergeStep(s)]
      BY <1>1, <2>1, <2>3
    <3>2. MergeStep(s) \in MergeState /\ Good(MergeStep(s))
      BY <1>3, MergeSteps
    <3>3. QED
      BY <1>5, <3>1, <3>2
  <2>4. QED
    BY <2>2, <2>3
<1>6. T = Nat
  BY <1>4, <1>5, NatSet
<1>7. MergeStart(q) \in MergeState /\ Good(MergeStart(q))
  BY MergeStarts, MergedReflexive DEF Good
<1>8. PICK n \in Nat : Merge(q) = MergeLoop[n][MergeStart(q)]
  <2>1. Len(q) + 1 \in Nat
    OBVIOUS
  <2>2. \A m \in Nat : m * m * m \in Nat
    OBVIOUS
  <2>3. (Len(q) + 1) * (Len(q) + 1) * (Len(q) + 1) \in Nat
    BY <2>1, <2>2
  <2>4. QED
    BY <2>3 DEF Merge
<1>9. Good(Merge(q))
  <2>1. n \in T
    BY <1>6
  <2>2. QED
    BY <1>7, <1>8, <2>1
<1>10. QED
  BY <1>2, <1>9 DEF Good

-----------------------------------------------------------------------------
(* The loop's alternatives. *)
MergeMoves(s, t, n) ==
  \/ /\ s.j > n /\ s.i + 1 <= n
     /\ t.queue = s.queue /\ t.i = s.i + 1 /\ t.j = 1
     /\ t.changed = s.changed /\ t.ended = "no"
  \/ /\ s.j > n /\ s.i + 1 > n /\ s.changed
     /\ t.queue = s.queue /\ t.i = 1 /\ t.j = 1 /\ t.changed = FALSE /\ t.ended = "no"
  \/ /\ s.j > n /\ s.i + 1 > n /\ ~s.changed /\ t.queue = s.queue /\ t.ended = "merged"
  \/ t.ended = "threw"
  \/ /\ s.j <= n /\ s.i <= n
     /\ Len(t.queue) = n - 1 /\ t.i = s.i /\ t.j = s.j + 1
     /\ t.changed = TRUE /\ t.ended = "no"
  \/ /\ s.j <= n /\ s.i <= n /\ ~SameTransaction(s.queue, s.i, s.j)
     /\ t.queue = s.queue /\ t.i = s.i /\ t.j = s.j + 1
     /\ t.changed = s.changed /\ t.ended = "no"

LEMMA MergeCases ==
  ASSUME NEW s \in MergeState, s.ended = "no", NEW t, t = MergeStep(s), NEW n, n = Len(s.queue)
  PROVE  /\ n \in Nat /\ s.i \in Nat \ {0} /\ s.j \in Nat \ {0} /\ s.changed \in BOOLEAN
         /\ MergeMoves(s, t, n)
<1>1. /\ s.queue \in Seq(Request) /\ n \in Nat /\ s.i \in Nat \ {0} /\ s.j \in Nat \ {0}
      /\ s.changed \in BOOLEAN
      /\ s = [queue |-> s.queue, i |-> s.i, j |-> s.j, changed |-> s.changed, ended |-> s.ended]
  BY DEF MergeState
<1>2. CASE s.j > n /\ s.i + 1 <= n
  <2>1. t = [s EXCEPT !.i = s.i + 1, !.j = 1]
    BY <1>2 DEF MergeStep
  <2>2. QED
    BY <1>1, <1>2, <2>1 DEF MergeMoves
<1>3. CASE s.j > n /\ ~(s.i + 1 <= n) /\ s.changed
  <2>1. t = MergeStart(s.queue)
    BY <1>3 DEF MergeStep
  <2>2. QED
    BY <1>1, <1>3, <2>1 DEF MergeStart, MergeMoves
<1>4. CASE s.j > n /\ ~(s.i + 1 <= n) /\ ~s.changed
  <2>1. t = [s EXCEPT !.ended = "merged"]
    BY <1>4 DEF MergeStep
  <2>2. QED
    BY <1>1, <1>4, <2>1 DEF MergeMoves
<1>5. CASE ~(s.j > n) /\ s.i > n
  <2>1. t = [s EXCEPT !.ended = "threw"]
    BY <1>5 DEF MergeStep
  <2>2. QED
    BY <1>1, <2>1 DEF MergeMoves
<1>6. CASE ~(s.j > n) /\ ~(s.i > n) /\ SameTransaction(s.queue, s.i, s.j)
  <2>1. s.i \in 1 .. Len(s.queue) /\ s.j \in 1 .. Len(s.queue)
    BY <1>1, <1>6
  <2>2. PICK q : q = Absorb(s.queue, s.i, s.j)
    OBVIOUS
  <2>3. Len(q) = n - 1
    <3>0. PICK u : u = [s.queue EXCEPT ![s.i].pids = @ \cup s.queue[s.j].pids]
      OBVIOUS
    <3>1. u \in Seq(Request) /\ Len(u) = n
      <4>1. s.queue \in Seq(Request) /\ SameTransaction(s.queue, s.i, s.j)
        BY <1>1, <1>6
      <4>2. u \in Seq(Request) /\ Len(u) = Len(s.queue)
        BY <2>1, <3>0, <4>1, Widened
      <4>3. QED
        BY <4>2
    <3>2. q = RemoveAt(u, s.j) /\ s.j \in 1 .. Len(u)
      BY <2>1, <2>2, <3>0, <3>1 DEF Absorb
    <3>3. QED
      BY <3>1, <3>2, Removed
  <2>4. t = [s EXCEPT !.queue = q, !.j = s.j + 1, !.changed = TRUE]
    BY <1>6, <2>2 DEF MergeStep
  <2>5. t.queue = q /\ t.i = s.i /\ t.j = s.j + 1 /\ t.changed = TRUE /\ t.ended = "no"
    BY <1>1, <2>4
  <2>6. QED
    BY <1>1, <1>6, <2>3, <2>5 DEF MergeMoves
<1>7. CASE ~(s.j > n) /\ ~(s.i > n) /\ ~SameTransaction(s.queue, s.i, s.j)
  <2>1. t = [s EXCEPT !.j = s.j + 1]
    BY <1>7 DEF MergeStep
  <2>2. QED
    BY <1>1, <1>7, <2>1 DEF MergeMoves
<1>8. QED
  BY <1>1, <1>2, <1>3, <1>4, <1>5, <1>6, <1>7

(* How many comparisons are left at most: those of this run of the loops,  *)
(* and those of the runs that follow a removal.                            *)
Rest(n, i, j) == (IF i <= n THEN (n - i) * (n + 1) ELSE 0) + (IF j <= n THEN n + 1 - j ELSE 0) + 1
Cube(n)       == n * n * n
Left(s) ==
  LET n == Len(s.queue)
  IN  Rest(n, s.i, s.j) + (IF s.changed THEN Cube(n + 1) ELSE Cube(n))

LEMMA Products ==
  /\ \A a, b \in Nat : a * b \in Nat
  /\ \A n \in Nat : Cube(n) \in Nat
<1>1. \A a, b \in Nat : a * b \in Nat
  OBVIOUS
<1>2. ASSUME NEW n \in Nat PROVE Cube(n) \in Nat
  <2>1. n * n \in Nat
    BY <1>1
  <2>2. QED
    BY <1>1, <2>1 DEF Cube
<1>3. QED
  BY <1>1, <1>2

LEMMA RestType ==
  ASSUME NEW n \in Nat, NEW i \in Nat \ {0}, NEW j \in Nat \ {0}
  PROVE  Rest(n, i, j) \in Nat /\ Rest(n, i, j) >= 1
<1>1. (IF i <= n THEN (n - i) * (n + 1) ELSE 0) \in Nat
  <2>1. CASE i <= n
    <3>1. n - i \in Nat /\ n + 1 \in Nat
      BY <2>1
    <3>2. QED
      BY <2>1, <3>1, Products
  <2>2. CASE ~(i <= n)
    BY <2>2
  <2>3. QED
    BY <2>1, <2>2
<1>2. (IF j <= n THEN n + 1 - j ELSE 0) \in Nat
  OBVIOUS
<1>3. \A a, b \in Nat : a + b + 1 \in Nat /\ a + b + 1 >= 1
  OBVIOUS
<1>4. QED
  BY <1>1, <1>2, <1>3 DEF Rest

LEMMA RestRow ==
  ASSUME NEW n \in Nat, NEW i \in Nat \ {0}, NEW j \in Nat \ {0}, j > n, i + 1 <= n
  PROVE  Rest(n, i + 1, 1) + 1 = Rest(n, i, j)
<1>1. Rest(n, i, j) = (n - i) * (n + 1) + 0 + 1
  BY DEF Rest
<1>2. Rest(n, i + 1, 1) = (n - (i + 1)) * (n + 1) + (n + 1 - 1) + 1
  BY DEF Rest
<1>3. (n - (i + 1)) * (n + 1) = (n - i) * (n + 1) - (n + 1)
  OBVIOUS
<1>4. PICK x \in Int : x = (n - i) * (n + 1)
  OBVIOUS
<1>5. QED
  BY <1>1, <1>2, <1>3, <1>4

LEMMA RestNext ==
  ASSUME NEW n \in Nat, NEW i \in Nat \ {0}, NEW j \in Nat \ {0}, j <= n
  PROVE  Rest(n, i, j + 1) + 1 <= Rest(n, i, j)
<1>1. PICK x \in Int : x = IF i <= n THEN (n - i) * (n + 1) ELSE 0
  OBVIOUS
<1>2. Rest(n, i, j) = x + (n + 1 - j) + 1
  BY <1>1 DEF Rest
<1>3. Rest(n, i, j + 1) = x + (IF j + 1 <= n THEN n + 1 - (j + 1) ELSE 0) + 1
  BY <1>1 DEF Rest
<1>4. QED
  BY <1>2, <1>3

LEMMA RestRemoved ==
  ASSUME NEW n \in Nat, NEW i \in Nat \ {0}, NEW j \in Nat \ {0}, i <= n, j <= n
  PROVE  Rest(n - 1, i, j + 1) + 1 <= Rest(n, i, j)
<1>1. PICK x \in Int : x = (n - i) * (n + 1)
  OBVIOUS
<1>2. PICK y \in Int : y = IF i <= n - 1 THEN ((n - 1) - i) * ((n - 1) + 1) ELSE 0
  OBVIOUS
<1>3. Rest(n, i, j) = x + (n + 1 - j) + 1
  BY <1>1 DEF Rest
<1>4. Rest(n - 1, i, j + 1) = y + (IF j + 1 <= n - 1 THEN (n - 1) + 1 - (j + 1) ELSE 0) + 1
  BY <1>2 DEF Rest
<1>5. y <= x
  <2>1. CASE i <= n - 1
    <3>1. PICK d \in Nat : d = n - i
      OBVIOUS
    <3>2. x = d * (n + 1) /\ y = (d - 1) * n /\ d >= 1
      BY <1>1, <1>2, <2>1, <3>1
    <3>3. d * (n + 1) = d * n + d /\ (d - 1) * n = d * n - n
      OBVIOUS
    <3>4. d * n \in Int
      OBVIOUS
    <3>5. QED
      BY <3>2, <3>3, <3>4
  <2>2. CASE ~(i <= n - 1)
    <3>1. n - i \in Nat /\ n + 1 \in Nat
      OBVIOUS
    <3>2. x \in Nat
      BY <1>1, <3>1, Products
    <3>3. QED
      BY <1>2, <2>2, <3>2
  <2>3. QED
    BY <2>1, <2>2
<1>6. QED
  BY <1>3, <1>4, <1>5

LEMMA Restarts ==
  ASSUME NEW n \in Nat
  PROVE  Rest(n, 1, 1) + Cube(n) <= Cube(n + 1)
<1>1. PICK a \in Nat, b \in Nat : a = n * n /\ b = n * n * n
  BY Products DEF Cube
<1>2. Cube(n) = b /\ Cube(n + 1) = b + 3 * a + 3 * n + 1
  BY <1>1 DEF Cube
<1>3. CASE n = 0
  <2>1. Rest(n, 1, 1) = 1
    BY <1>3 DEF Rest
  <2>2. QED
    BY <1>2, <2>1
<1>4. CASE n >= 1
  <2>1. Rest(n, 1, 1) = (n - 1) * (n + 1) + (n + 1 - 1) + 1
    BY <1>4 DEF Rest
  <2>2. (n - 1) * (n + 1) = a - 1
    BY <1>1
  <2>3. QED
    BY <1>2, <2>1, <2>2
<1>5. QED
  BY <1>3, <1>4

LEMMA LeftType ==
  ASSUME NEW u \in MergeState PROVE Left(u) \in Nat /\ Left(u) >= 1
<1>1. PICK k \in Nat : k = Len(u.queue)
  BY DEF MergeState
<1>2. u.i \in Nat \ {0} /\ u.j \in Nat \ {0}
  BY DEF MergeState
<1>3. PICK r \in Nat : r = Rest(k, u.i, u.j) /\ r >= 1
  BY <1>2, RestType
<1>4. PICK c \in Nat : c = IF u.changed THEN Cube(k + 1) ELSE Cube(k)
  <2>1. Cube(k + 1) \in Nat /\ Cube(k) \in Nat
    BY Products
  <2>2. QED
    BY <2>1
<1>5. Left(u) = r + c
  BY <1>1, <1>3, <1>4 DEF Left
<1>6. QED
  BY <1>3, <1>4, <1>5

(* A comparison ends the loops or leaves fewer comparisons. *)
LEMMA LeftDecreases ==
  ASSUME NEW s \in MergeState, s.ended = "no", MergeStep(s).ended = "no"
  PROVE  /\ Left(s) \in Nat /\ Left(s) >= 1
         /\ Left(MergeStep(s)) \in Nat /\ Left(MergeStep(s)) + 1 <= Left(s)
<1>0. PICK t : t = MergeStep(s)
  OBVIOUS
<1>00. PICK n : n = Len(s.queue)
  OBVIOUS
<1>1. t \in MergeState /\ t.ended = "no"
  BY <1>0, MergeSteps
<1>2. \A u \in MergeState : Left(u) \in Nat /\ Left(u) >= 1
  BY LeftType
<1>3. Left(s) = Rest(n, s.i, s.j) + (IF s.changed THEN Cube(n + 1) ELSE Cube(n))
  BY <1>00 DEF Left
<1>4. Left(t) = Rest(Len(t.queue), t.i, t.j)
                  + (IF t.changed THEN Cube(Len(t.queue) + 1) ELSE Cube(Len(t.queue)))
  BY DEF Left
<1>5. n \in Nat /\ s.i \in Nat \ {0} /\ s.j \in Nat \ {0} /\ s.changed \in BOOLEAN
  BY <1>00, MergeCases
<1>6. PICK c0 \in Nat, c1 \in Nat, r \in Nat :
        /\ c0 = Cube(n) /\ c1 = Cube(n + 1) /\ r = Rest(n, s.i, s.j) /\ r >= 1
        /\ Rest(n, 1, 1) + c0 <= c1 /\ Rest(n, 1, 1) \in Nat
  <2>1. 1 \in Nat \ {0} /\ n + 1 \in Nat
    BY <1>5
  <2>2. Cube(n) \in Nat /\ Cube(n + 1) \in Nat
    BY <1>5, <2>1, Products
  <2>3. Rest(n, s.i, s.j) \in Nat /\ Rest(n, s.i, s.j) >= 1 /\ Rest(n, 1, 1) \in Nat
    BY <1>5, <2>1, RestType
  <2>4. Rest(n, 1, 1) + Cube(n) <= Cube(n + 1)
    BY <1>5, Restarts
  <2>5. QED
    BY <2>2, <2>3, <2>4
<1>7. \/ /\ s.j > n /\ s.i + 1 <= n
         /\ t.queue = s.queue /\ t.i = s.i + 1 /\ t.j = 1 /\ t.changed = s.changed
      \/ s.changed /\ t.queue = s.queue /\ t.i = 1 /\ t.j = 1 /\ t.changed = FALSE
      \/ /\ s.j <= n /\ s.i <= n
         /\ Len(t.queue) = n - 1 /\ t.i = s.i /\ t.j = s.j + 1 /\ t.changed = TRUE
      \/ /\ s.j <= n
         /\ t.queue = s.queue /\ t.i = s.i /\ t.j = s.j + 1 /\ t.changed = s.changed
  <2>0. MergeMoves(s, t, n)
    BY <1>0, <1>00, MergeCases
  <2>1. \/ /\ s.j > n /\ s.i + 1 <= n
           /\ t.queue = s.queue /\ t.i = s.i + 1 /\ t.j = 1 /\ t.changed = s.changed
        \/ s.changed /\ t.queue = s.queue /\ t.i = 1 /\ t.j = 1 /\ t.changed = FALSE
        \/ t.ended = "merged"
        \/ t.ended = "threw"
        \/ /\ s.j <= n /\ s.i <= n
           /\ Len(t.queue) = n - 1 /\ t.i = s.i /\ t.j = s.j + 1 /\ t.changed = TRUE
        \/ /\ s.j <= n
           /\ t.queue = s.queue /\ t.i = s.i /\ t.j = s.j + 1 /\ t.changed = s.changed
    BY <2>0 DEF MergeMoves
  <2>2. t.ended # "merged" /\ t.ended # "threw"
    BY <1>1
  <2>3. QED
    BY <2>1, <2>2
<1>8. CASE /\ s.j > n /\ s.i + 1 <= n
           /\ t.queue = s.queue /\ t.i = s.i + 1 /\ t.j = 1 /\ t.changed = s.changed
  <2>1. PICK v \in Nat : v = Rest(n, s.i + 1, 1) /\ v + 1 = r
    <3>1. s.i + 1 \in Nat \ {0} /\ 1 \in Nat \ {0}
      BY <1>5
    <3>2. Rest(n, s.i + 1, 1) \in Nat
      BY <1>5, <3>1, RestType
    <3>3. QED
      BY <1>5, <1>6, <1>8, <3>2, RestRow
  <2>2. Left(t) = v + (IF s.changed THEN c1 ELSE c0) /\ Left(s) = r + (IF s.changed THEN c1 ELSE c0)
    BY <1>00, <1>3, <1>4, <1>6, <1>8, <2>1
  <2>3. Left(t) + 1 <= Left(s)
    BY <1>6, <2>1, <2>2
  <2>4. QED
    BY <1>0, <1>1, <1>2, <2>3
<1>9. CASE s.changed /\ t.queue = s.queue /\ t.i = 1 /\ t.j = 1 /\ t.changed = FALSE
  <2>1. PICK v \in Nat : v = Rest(n, 1, 1) /\ v + c0 <= c1
    BY <1>6
  <2>2. Left(t) = v + c0 /\ Left(s) = r + c1
    BY <1>00, <1>3, <1>4, <1>6, <1>9, <2>1
  <2>3. Left(t) + 1 <= Left(s)
    BY <1>6, <2>1, <2>2
  <2>4. QED
    BY <1>0, <1>1, <1>2, <2>3
<1>10. CASE /\ s.j <= n /\ s.i <= n
            /\ Len(t.queue) = n - 1 /\ t.i = s.i /\ t.j = s.j + 1 /\ t.changed = TRUE
  <2>1. PICK v \in Nat : v = Rest(n - 1, s.i, s.j + 1) /\ v + 1 <= r
    <3>1. n - 1 \in Nat /\ s.j + 1 \in Nat \ {0}
      BY <1>5, <1>10
    <3>2. QED
      BY <1>5, <1>6, <1>10, <3>1, RestRemoved, RestType
  <2>2. (n - 1) + 1 = n
    BY <1>5
  <2>3. Left(t) = v + c0
    BY <1>4, <1>6, <1>10, <2>1, <2>2
  <2>4. PICK a \in Nat : a = Rest(n, 1, 1)
    BY <1>6
  <2>5. c0 <= c1
    BY <1>6, <2>4
  <2>6. Left(s) = r + c1 \/ Left(s) = r + c0
    BY <1>3, <1>6
  <2>7. Left(t) + 1 <= Left(s)
    BY <2>1, <2>3, <2>5, <2>6
  <2>8. QED
    BY <1>0, <1>1, <1>2, <2>7
<1>11. CASE /\ s.j <= n
            /\ t.queue = s.queue /\ t.i = s.i /\ t.j = s.j + 1 /\ t.changed = s.changed
  <2>1. PICK v \in Nat : v = Rest(n, s.i, s.j + 1) /\ v + 1 <= r
    <3>1. s.j + 1 \in Nat \ {0}
      BY <1>5
    <3>2. QED
      BY <1>5, <1>6, <1>11, <3>1, RestNext, RestType
  <2>2. Left(t) = v + (IF s.changed THEN c1 ELSE c0) /\ Left(s) = r + (IF s.changed THEN c1 ELSE c0)
    BY <1>00, <1>3, <1>4, <1>6, <1>11, <2>1
  <2>3. Left(t) + 1 <= Left(s)
    BY <1>6, <2>1, <2>2
  <2>4. QED
    BY <1>0, <1>1, <1>2, <2>3
<1>12. QED
  BY <1>7, <1>8, <1>9, <1>10, <1>11

(* The loops of DRAM's front end end, one way or the other: the bound on   *)
(* the number of comparisons in Merge never cuts them short.               *)
THEOREM MergeEnds ==
  ASSUME NEW q \in Seq(Request)
  PROVE  Merge(q).ended # "no"
<1> DEFINE T == {n \in Nat : \A s \in MergeState :
                   s.ended = "no" /\ Left(s) <= n => MergeLoop[n][s].ended # "no"}
<1>1. \A n \in Nat : \A s \in MergeState :
        MergeLoop[n][s] = IF n = 0 \/ s.ended # "no" THEN s ELSE MergeLoop[n - 1][MergeStep(s)]
  BY MergeLoopDef
<1>2. \A s \in MergeState : Left(s) \in Nat /\ Left(s) >= 1
  BY LeftType
<1>3. 0 \in T
  BY <1>2
<1>4. ASSUME NEW n \in T PROVE n + 1 \in T
  <2> SUFFICES ASSUME NEW s \in MergeState, s.ended = "no", Left(s) <= n + 1
               PROVE  MergeLoop[n + 1][s].ended # "no"
    OBVIOUS
  <2>1. n + 1 \in Nat /\ n + 1 # 0 /\ (n + 1) - 1 = n
    OBVIOUS
  <2>2. MergeLoop[n + 1][s] = MergeLoop[n][MergeStep(s)]
    BY <1>1, <2>1
  <2>3. PICK t \in MergeState : t = MergeStep(s)
    BY MergeSteps
  <2>4. CASE t.ended = "no"
    <3>1. Left(t) \in Nat /\ Left(s) \in Nat /\ Left(t) + 1 <= Left(s)
      BY <2>3, <2>4, LeftDecreases
    <3>2. Left(t) <= n
      BY <3>1
    <3>3. QED
      BY <1>4, <2>2, <2>3, <2>4, <3>2
  <2>5. CASE t.ended # "no"
    BY <1>1, <2>2, <2>3, <2>5
  <2>6. QED
    BY <2>4, <2>5
<1>5. T = Nat
  BY <1>3, <1>4, NatSet
<1>6. PICK m \in Nat : m = Cube(Len(q) + 1)
  BY Products
<1>7. Merge(q) = MergeLoop[m][MergeStart(q)]
  BY <1>6 DEF Merge, Cube
<1>8. Left(MergeStart(q)) <= m
  <2>1. /\ MergeStart(q).queue = q /\ MergeStart(q).i = 1 /\ MergeStart(q).j = 1
        /\ MergeStart(q).changed = FALSE
    BY DEF MergeStart
  <2>2. Left(MergeStart(q)) = Rest(Len(q), 1, 1) + Cube(Len(q))
    BY <2>1 DEF Left
  <2>3. QED
    BY <1>6, <2>2, Restarts
<1>9. MergeStart(q) \in MergeState /\ MergeStart(q).ended = "no"
  BY MergeStarts DEF MergeStart
<1>10. m \in T
  BY <1>5
<1>11. QED
  BY <1>7, <1>8, <1>9, <1>10

(* The pairs compared so far in a run that has removed nothing, and all of *)
(* them once the loops have ended, are of different transactions.          *)
Scanned(s) ==
  \A a, b \in 1 .. Len(s.queue) :
    (\/ s.ended = "merged"
     \/ s.ended = "no" /\ ~s.changed /\ (a < s.i \/ (a = s.i /\ b < s.j)))
      => ~SameTransaction(s.queue, a, b)

LEMMA ScannedStep ==
  ASSUME NEW s \in MergeState, s.ended = "no", Scanned(s)
  PROVE  Scanned(MergeStep(s))
<1>1. PICK t : t = MergeStep(s)
  OBVIOUS
<1>2. PICK n : n = Len(s.queue)
  OBVIOUS
<1>3. n \in Nat /\ s.i \in Nat \ {0} /\ s.j \in Nat \ {0} /\ s.changed \in BOOLEAN
  BY <1>2, MergeCases
<1>4. \/ /\ s.j > n /\ s.i + 1 <= n
         /\ t.queue = s.queue /\ t.i = s.i + 1 /\ t.j = 1
         /\ t.changed = s.changed /\ t.ended = "no"
      \/ t.i = 1 /\ t.j = 1 /\ t.ended = "no"
      \/ s.j > n /\ s.i + 1 > n /\ ~s.changed /\ t.queue = s.queue /\ t.ended = "merged"
      \/ t.ended = "threw"
      \/ t.changed = TRUE /\ t.ended = "no"
      \/ /\ ~SameTransaction(s.queue, s.i, s.j)
         /\ t.queue = s.queue /\ t.i = s.i /\ t.j = s.j + 1
         /\ t.changed = s.changed /\ t.ended = "no"
  <2>1. MergeMoves(s, t, n)
    BY <1>1, <1>2, MergeCases
  <2>2. QED
    BY <2>1 DEF MergeMoves
<1>5. SUFFICES ASSUME NEW a \in 1 .. Len(t.queue), NEW b \in 1 .. Len(t.queue),
                      \/ t.ended = "merged"
                      \/ t.ended = "no" /\ ~t.changed /\ (a < t.i \/ (a = t.i /\ b < t.j))
               PROVE  ~SameTransaction(t.queue, a, b)
  BY <1>1 DEF Scanned
<1>6. \A x, y \in 1 .. n : ~s.changed /\ (x < s.i \/ (x = s.i /\ y < s.j))
                             => ~SameTransaction(s.queue, x, y)
  BY <1>2 DEF Scanned
<1>7. a \in Int /\ b \in Int /\ a >= 1 /\ b >= 1
  OBVIOUS
<1>8. CASE /\ s.j > n /\ s.i + 1 <= n
           /\ t.queue = s.queue /\ t.i = s.i + 1 /\ t.j = 1
           /\ t.changed = s.changed /\ t.ended = "no"
  <2>1. a \in 1 .. n /\ b \in 1 .. n /\ ~s.changed
    BY <1>2, <1>5, <1>8
  <2>2. a < s.i \/ (a = s.i /\ b < s.j)
    BY <1>3, <1>5, <1>7, <1>8, <2>1
  <2>3. QED
    BY <1>6, <1>8, <2>1, <2>2
<1>9. CASE t.i = 1 /\ t.j = 1 /\ t.ended = "no"
  BY <1>5, <1>7, <1>9
<1>10. CASE s.j > n /\ s.i + 1 > n /\ ~s.changed /\ t.queue = s.queue /\ t.ended = "merged"
  <2>1. a \in 1 .. n /\ b \in 1 .. n
    BY <1>2, <1>10
  <2>2. a < s.i \/ (a = s.i /\ b < s.j)
    BY <1>3, <1>10, <2>1
  <2>3. QED
    BY <1>6, <1>10, <2>1, <2>2
<1>11. CASE t.ended = "threw"
  BY <1>5, <1>11
<1>12. CASE t.changed = TRUE /\ t.ended = "no"
  BY <1>5, <1>12
<1>13. CASE /\ ~SameTransaction(s.queue, s.i, s.j)
            /\ t.queue = s.queue /\ t.i = s.i /\ t.j = s.j + 1
            /\ t.changed = s.changed /\ t.ended = "no"
  <2>1. a \in 1 .. n /\ b \in 1 .. n /\ ~s.changed
    BY <1>2, <1>5, <1>13
  <2>2. (a < s.i \/ (a = s.i /\ b < s.j)) \/ (a = s.i /\ b = s.j)
    <3>1. a < s.i \/ (a = s.i /\ b < s.j + 1)
      BY <1>5, <1>13
    <3>2. PICK x \in Int, y \in Int : x = s.i /\ y = s.j
      BY <1>3
    <3>3. CASE a < x
      BY <3>2, <3>3
    <3>4. CASE a = x /\ b < y + 1
      <4>1. b < y \/ b = y
        BY <1>7, <3>2, <3>4
      <4>2. QED
        BY <3>2, <3>4, <4>1
    <3>5. QED
      BY <3>1, <3>2, <3>3, <3>4
  <2>3. QED
    BY <1>6, <1>13, <2>1, <2>2
<1>14. QED
  BY <1>4, <1>8, <1>9, <1>10, <1>11, <1>12, <1>13

(* A queue that the merge of DRAM's front end returns holds no two         *)
(* requests that it could still have merged.                               *)
THEOREM MergeComplete ==
  ASSUME NEW q \in Seq(Request), Merge(q).ended = "merged",
         NEW a \in 1 .. Len(Merge(q).queue), NEW b \in 1 .. Len(Merge(q).queue)
  PROVE  ~SameTransaction(Merge(q).queue, a, b)
<1> DEFINE T == {n \in Nat : \A s \in MergeState : Scanned(s) => Scanned(MergeLoop[n][s])}
<1>1. \A n \in Nat : \A s \in MergeState :
        MergeLoop[n][s] = IF n = 0 \/ s.ended # "no" THEN s ELSE MergeLoop[n - 1][MergeStep(s)]
  BY MergeLoopDef
<1>2. 0 \in T
  BY <1>1
<1>3. ASSUME NEW n \in T PROVE n + 1 \in T
  <2> SUFFICES ASSUME NEW s \in MergeState, Scanned(s) PROVE Scanned(MergeLoop[n + 1][s])
    OBVIOUS
  <2>1. n + 1 \in Nat /\ n + 1 # 0 /\ (n + 1) - 1 = n
    OBVIOUS
  <2>2. CASE s.ended # "no"
    BY <1>1, <2>1, <2>2
  <2>3. CASE s.ended = "no"
    <3>1. MergeLoop[n + 1][s] = MergeLoop[n][MergeStep(s)]
      BY <1>1, <2>1, <2>3
    <3>2. MergeStep(s) \in MergeState /\ Scanned(MergeStep(s))
      BY <2>3, MergeSteps, ScannedStep
    <3>3. QED
      BY <1>3, <3>1, <3>2
  <2>4. QED
    BY <2>2, <2>3
<1>4. T = Nat
  BY <1>2, <1>3, NatSet
<1>5. MergeStart(q) \in MergeState /\ Scanned(MergeStart(q))
  <2>1. /\ MergeStart(q).queue = q /\ MergeStart(q).i = 1 /\ MergeStart(q).j = 1
        /\ MergeStart(q).ended = "no"
    BY DEF MergeStart
  <2>2. ASSUME NEW x \in 1 .. Len(q), NEW y \in 1 .. Len(q) PROVE ~(x < 1) /\ ~(y < 1)
    OBVIOUS
  <2>3. QED
    BY <2>1, <2>2, MergeStarts DEF Scanned
<1>6. PICK m \in Nat : Merge(q) = MergeLoop[m][MergeStart(q)]
  <2>1. PICK m \in Nat : m = Cube(Len(q) + 1)
    BY Products
  <2>2. QED
    BY <2>1 DEF Merge, Cube
<1>7. m \in T
  BY <1>4
<1>8. Scanned(Merge(q))
  BY <1>5, <1>6, <1>7
<1>9. QED
  BY <1>8 DEF Scanned
==============================================================================
