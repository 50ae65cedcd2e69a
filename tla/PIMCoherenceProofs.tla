-------------------------- MODULE PIMCoherenceProofs --------------------------
(***************************************************************************)
(* Proofs about PIMCoherence for every memory, block size, granularity and *)
(* set of commands.                                                        *)
(*                                                                         *)
(* The flushes work on the record of all copies, so the invariant of the   *)
(* caches is stated about such a record, called a store, and the flushes   *)
(* have lemmas of their own.                                               *)
(***************************************************************************)
EXTENDS PIMCoherence, SequenceTheorems, WellFoundedInduction, TLAPS

Words(b) == {x \in Addrs : Line(x) = b}
EntryOf(b) == {Absent} \union {Clean(d) : d \in [Words(b) -> Vals]}
                       \union {Dirty(d) : d \in [Words(b) -> Vals]}
BufferOf(b) == {Absent} \union {Dirty(d) : d \in [Words(b) -> Vals]}

Stores == [dcache : [Lines -> Entries], dbuffer : [Lines -> Entries],
           l2 : [Lines -> Entries], l2buffer : [Lines -> Entries], mem : [Addrs -> Vals]]

(* The copies of block b, from the data cache e over its write buffer g    *)
(* and the L2 cache f to that one's write buffer h: above a dirty copy     *)
(* there is none.                                                          *)
EntriesOK(e, g, f, h, b) ==
  /\ e \in EntryOf(b) /\ g \in BufferOf(b) /\ f \in EntryOf(b) /\ h \in BufferOf(b)
  /\ e.state # "absent" => g.state = "absent"
  /\ e.state # "absent" \/ g.state # "absent" => f.state # "dirty" /\ h.state = "absent"
  /\ f.state # "absent" => h.state = "absent"

LineOK(s, b) == EntriesOK(s.dcache[b], s.dbuffer[b], s.l2[b], s.l2buffer[b], b)

StoreOK(s) == s \in Stores /\ \A b \in Lines : LineOK(s, b)

(* The values d of the words of block b are those of v. *)
Agrees(d, v, b) == \A a \in Words(b) : d[a] = v[a]

NoneDirty(e, g, f, h) ==
  e.state # "dirty" /\ g.state # "dirty" /\ f.state # "dirty" /\ h.state # "dirty"

(* The dirty copy of a block has its last values; without one, the memory  *)
(* has them.                                                               *)
Safe(e, g, f, h, m, v, b) ==
  /\ e.state = "dirty" => Agrees(e.data, v, b)
  /\ g.state = "dirty" => Agrees(g.data, v, b)
  /\ f.state = "dirty" => Agrees(f.data, v, b)
  /\ h.state = "dirty" => Agrees(h.data, v, b)
  /\ NoneDirty(e, g, f, h) => Agrees(m, v, b)

(* And so has a clean copy, unless a dirty one lies above it. *)
Good(e, g, f, h, m, v, b) ==
  /\ Safe(e, g, f, h, m, v, b)
  /\ e.state = "clean" => Agrees(e.data, v, b)
  /\ f.state = "clean" /\ e.state # "dirty" /\ g.state # "dirty" => Agrees(f.data, v, b)

LineSafe(s, v, b) ==
  Safe(s.dcache[b], s.dbuffer[b], s.l2[b], s.l2buffer[b], s.mem, v, b)
LineGood(s, v, b) ==
  Good(s.dcache[b], s.dbuffer[b], s.l2[b], s.l2buffer[b], s.mem, v, b)

(* A block of a command under way: the memory has its last values. *)
LineReady(s, v, b) ==
  /\ NoneDirty(s.dcache[b], s.dbuffer[b], s.l2[b], s.l2buffer[b])
  /\ Agrees(s.mem, v, b)

CmdLines(c) == {Line(c[i]) : i \in Regs}
Registered(q, b) == \E k \in 1 .. Len(q) : b \in CmdLines(q[k])

Started == [step : {"read", "write", "finish"}, cmd : Commands, data : Seq(Vals),
            found : Vals \X Vals, alone : BOOLEAN]

(* A command that is under way is registered. *)
KernelOK ==
  /\ pending \in Seq(Commands)
  /\ \/ kernel = NoCommand
     \/ /\ kernel \in Started
        /\ \E k \in 1 .. Len(pending) : pending[k] = kernel.cmd
        /\ IF kernel.step = "read" THEN Len(kernel.data) < Input
                                   ELSE Len(kernel.data) = Input

Active == kernel # NoCommand

(* A block that is registered may have stale clean copies; a block of the  *)
(* command under way is in the memory.                                     *)
LineInv(s, v, b) ==
  IF Active /\ b \in CmdLines(kernel.cmd) THEN LineReady(s, v, b)
  ELSE IF Registered(pending, b) THEN LineSafe(s, v, b)
  ELSE LineGood(s, v, b)

LinesOK == flushed => \A b \in Lines : LineInv(Caches, latest, b)

(* The inductive invariant. *)
IInv ==
  /\ KernelOK
  /\ StoreOK(Caches)
  /\ latest \in [Addrs -> Vals]
  /\ flushed \in BOOLEAN
  /\ LinesOK
  /\ OneSnapshot

-----------------------------------------------------------------------------
(* Words of one block are words of one granule. *)
LEMMA Quotient ==
  ASSUME NEW a \in Nat, NEW n \in Nat \ {0}, NEW k \in Nat \ {0},
         NEW m \in Nat, NEW p \in Nat,
         n * m <= a, a < n * m + n, (n * k) * p <= a, a < (n * k) * p + n * k
  PROVE  k * p <= m /\ m < k * p + k
<1>1. n * m < n * (k * p + k) /\ n * (k * p) < n * (m + 1)
  OBVIOUS
<1>2. m < k * p + k /\ k * p < m + 1
  BY <1>1
<1>3. QED
  BY <1>2

LEMMA SameGranule ==
  ASSUME NEW a \in Addrs, NEW b \in Addrs, Line(a) = Line(b)
  PROVE  Granule(a) = Granule(b)
<1> DEFINE n == LineSize
           g == CoherenceGranularity
           k == g \div n
           m == Line(a)
           p == Granule(a)
           q == Granule(b)
<1>1. a \in Nat /\ b \in Nat /\ n \in Nat \ {0} /\ g \in Nat \ {0} /\ g % n = 0
  BY CoherenceAssumption, GranularityAssumption
<1>2. k \in Nat \ {0} /\ g = n * k
  <2>1. g = n * (g \div n) + (g % n) /\ g \div n \in Nat
    BY <1>1
  <2>2. QED
    BY <1>1, <2>1
<1>3. /\ m \in Nat /\ n * m <= a /\ a < n * m + n
      /\ n * m <= b /\ b < n * m + n
  BY <1>1 DEF Line
<1>4. /\ p \in Nat /\ q \in Nat
      /\ g * p <= a /\ a < g * p + g /\ g * q <= b /\ b < g * q + g
  BY <1>1 DEF Granule
<1> HIDE DEF n, g, k, m, p, q
<1>5. k * p <= m /\ m < k * p + k
  BY <1>1, <1>2, <1>3, <1>4, Quotient
<1>6. k * q <= m /\ m < k * q + k
  BY <1>1, <1>2, <1>3, <1>4, Quotient
<1>7. k * p < k * (q + 1) /\ k * q < k * (p + 1)
  BY <1>2, <1>3, <1>4, <1>5, <1>6
<1>8. p < q + 1 /\ q < p + 1
  BY <1>2, <1>4, <1>7
<1>9. QED
  BY <1>4, <1>8 DEF p, q

-----------------------------------------------------------------------------
(* The entries of the caches. *)
LEMMA EntryShape ==
  ASSUME NEW b \in Lines, NEW e \in EntryOf(b)
  PROVE  /\ e \in Entries
         /\ e.state \in {"absent", "clean", "dirty"}
         /\ e.state # "absent" => e.data \in [Words(b) -> Vals]
<1>1. \A d \in [Words(b) -> Vals] : d \in Blocks
  BY DEF Blocks, Words
<1>2. QED
  BY <1>1 DEF EntryOf, Entries, Absent, Clean, Dirty

LEMMA EntryMade ==
  ASSUME NEW b, NEW d \in [Words(b) -> Vals]
  PROVE  /\ Clean(d) \in EntryOf(b) /\ Clean(d).state = "clean" /\ Clean(d).data = d
         /\ Dirty(d) \in EntryOf(b) /\ Dirty(d).state = "dirty" /\ Dirty(d).data = d
  BY DEF EntryOf, Clean, Dirty

LEMMA AbsentEntry == \A b : Absent \in EntryOf(b) /\ Absent.state = "absent"
  BY DEF EntryOf, Absent

LEMMA EntryUpdated ==
  ASSUME NEW b, NEW e \in EntryOf(b), e.state # "absent",
         NEW d \in [Words(b) -> Vals]
  PROVE  /\ [e EXCEPT !.data = d] \in EntryOf(b)
         /\ [e EXCEPT !.data = d].state = e.state
         /\ [e EXCEPT !.data = d].data = d
<1>1. CASE \E x \in [Words(b) -> Vals] : e = Clean(x)
  <2>1. [e EXCEPT !.data = d] = Clean(d)
    BY <1>1 DEF Clean
  <2>2. e.state = "clean"
    BY <1>1 DEF Clean
  <2>3. QED
    BY <2>1, <2>2, EntryMade
<1>2. CASE \E x \in [Words(b) -> Vals] : e = Dirty(x)
  <2>1. [e EXCEPT !.data = d] = Dirty(d)
    BY <1>2 DEF Dirty
  <2>2. e.state = "dirty"
    BY <1>2 DEF Dirty
  <2>3. QED
    BY <2>1, <2>2, EntryMade
<1>3. e # Absent
  BY DEF Absent
<1>4. QED
  BY <1>1, <1>2, <1>3 DEF EntryOf

(* A block in the memory, and the memory after a block is written to it. *)
LEMMA BlockRead ==
  ASSUME NEW m \in [Addrs -> Vals], NEW b
  PROVE  Block(m, b) \in [Words(b) -> Vals] /\ Agrees(Block(m, b), m, b)
  BY DEF Block, Words, Agrees

LEMMA BlockWritten ==
  ASSUME NEW m \in [Addrs -> Vals], NEW b, NEW d \in [Words(b) -> Vals]
  PROVE  /\ Write(m, d) \in [Addrs -> Vals]
         /\ Agrees(Write(m, d), d, b)
         /\ \A a \in Addrs : Line(a) # b => Write(m, d)[a] = m[a]
  BY DEF Write, Words, Agrees

LEMMA LineOf == \A a \in Addrs : Line(a) \in Lines /\ a \in Words(Line(a))
  BY DEF Lines, Words

-----------------------------------------------------------------------------
(* Stores.  What holds of a block depends on that block only. *)
LEMMA CachesParts ==
  /\ Caches.dcache = dcache /\ Caches.dbuffer = dbuffer
  /\ Caches.l2 = l2 /\ Caches.l2buffer = l2buffer /\ Caches.mem = mem
  BY DEF Caches

LEMMA BufferEntry ==
  ASSUME NEW b, NEW e \in BufferOf(b)
  PROVE  e \in EntryOf(b) /\ e.state \in {"absent", "dirty"}
  BY DEF BufferOf, EntryOf, Absent, Dirty

LEMMA DirtyBuffered ==
  ASSUME NEW b \in Lines, NEW e \in EntryOf(b), e.state = "dirty"
  PROVE  e \in BufferOf(b) /\ e.data \in [Words(b) -> Vals]
<1>1. \A d : Clean(d).state = "clean" /\ Absent.state = "absent"
  BY DEF Clean, Absent
<1>2. e \in BufferOf(b)
  BY <1>1 DEF EntryOf, BufferOf
<1>3. QED
  BY <1>2, EntryShape

LEMMA AbsentBuffer == \A b : Absent \in BufferOf(b)
  BY DEF BufferOf

(* Block x is the same in the stores s and r. *)
SameEntries(s, r, x) ==
  /\ r.dcache[x] = s.dcache[x] /\ r.dbuffer[x] = s.dbuffer[x]
  /\ r.l2[x] = s.l2[x] /\ r.l2buffer[x] = s.l2buffer[x]
SameWords(m, n, x) == \A a \in Words(x) : n[a] = m[a]
SameElsewhere(m, n, b) == \A a \in Addrs : Line(a) # b => n[a] = m[a]
SameLine(s, r, x) == SameEntries(s, r, x) /\ SameWords(s.mem, r.mem, x)

LEMMA Local ==
  ASSUME NEW s, NEW r, NEW v, NEW w, NEW b, SameLine(s, r, b), SameWords(v, w, b)
  PROVE  /\ LineGood(s, v, b) => LineGood(r, w, b)
         /\ LineSafe(s, v, b) => LineSafe(r, w, b)
         /\ LineReady(s, v, b) => LineReady(r, w, b)
<1>1. Agrees(s.mem, v, b) => Agrees(r.mem, w, b)
  BY DEF Agrees, SameLine, SameWords
<1>2. ASSUME NEW d PROVE Agrees(d, v, b) => Agrees(d, w, b)
  BY DEF Agrees, SameWords
<1>3. SameEntries(s, r, b)
  BY DEF SameLine
<1>4. QED
  BY <1>1, <1>2, <1>3 DEF LineGood, LineSafe, LineReady, Good, Safe, SameEntries, NoneDirty

(* A store in which one block has changed. *)
LEMMA StoreChanged ==
  ASSUME NEW s, NEW r, StoreOK(s), NEW b \in Lines, r \in Stores, LineOK(r, b),
         \A x \in Lines : x # b => SameEntries(s, r, x)
  PROVE  StoreOK(r)
<1> SUFFICES ASSUME NEW x \in Lines, x # b PROVE LineOK(r, x)
  BY DEF StoreOK
<1>1. LineOK(s, x) /\ SameEntries(s, r, x)
  BY DEF StoreOK
<1>2. QED
  BY <1>1 DEF LineOK, SameEntries

LEMMA StoreParts ==
  ASSUME NEW s, StoreOK(s)
  PROVE  /\ s = [dcache |-> s.dcache, dbuffer |-> s.dbuffer, l2 |-> s.l2,
                 l2buffer |-> s.l2buffer, mem |-> s.mem]
         /\ s.dcache \in [Lines -> Entries] /\ s.dbuffer \in [Lines -> Entries]
         /\ s.l2 \in [Lines -> Entries] /\ s.l2buffer \in [Lines -> Entries]
         /\ s.mem \in [Addrs -> Vals]
         /\ \A b \in Lines : LineOK(s, b)
  BY DEF StoreOK, Stores

(* What the flushes keep of every block. *)
Keeps(s, r) ==
  \A v : \A b \in Lines :
    /\ LineGood(s, v, b) => LineGood(r, v, b)
    /\ LineSafe(s, v, b) => LineSafe(r, v, b)
    /\ LineReady(s, v, b) => LineReady(r, v, b)

KeepsAt(s, r, b) ==
  \A v : /\ LineGood(s, v, b) => LineGood(r, v, b)
         /\ LineSafe(s, v, b) => LineSafe(r, v, b)
         /\ LineReady(s, v, b) => LineReady(r, v, b)

LEMMA KeepsAll ==
  ASSUME NEW s, NEW r, NEW b, KeepsAt(s, r, b),
         \A x \in Lines : x # b => SameLine(s, r, x)
  PROVE  Keeps(s, r)
<1> SUFFICES ASSUME NEW v, NEW x \in Lines
             PROVE  /\ LineGood(s, v, x) => LineGood(r, v, x)
                    /\ LineSafe(s, v, x) => LineSafe(r, v, x)
                    /\ LineReady(s, v, x) => LineReady(r, v, x)
  BY DEF Keeps
<1>1. SameWords(v, v, x)
  BY DEF SameWords
<1>2. CASE x = b
  BY <1>2 DEF KeepsAt
<1>3. CASE x # b
  BY <1>1, <1>3, Local
<1>4. QED
  BY <1>2, <1>3

LEMMA Registers == Regs = {0, 1, 2}
  BY DEF Regs, NRegs, Input, Output

LEMMA CommandWords ==
  ASSUME NEW c \in Commands, NEW i \in Regs
  PROVE  c[i] \in Addrs /\ Line(c[i]) \in Lines
<1>1. c[i] \in Addrs
  BY CoherenceAssumption
<1>2. QED
  BY <1>1, LineOf

(* The flush of a block from the data cache. *)
LEMMA FlushedL1 ==
  ASSUME NEW s, StoreOK(s), NEW b \in Lines
  PROVE  LET r == FlushL1(s, b) IN
         /\ StoreOK(r) /\ Keeps(s, r)
         /\ r.dcache[b] = Absent
         /\ \A x \in Lines : x # b => SameLine(s, r, x)
<1> DEFINE r == FlushL1(s, b)
           D == [s.dcache EXCEPT ![b] = Absent]
<1>1. /\ s = [dcache |-> s.dcache, dbuffer |-> s.dbuffer, l2 |-> s.l2,
              l2buffer |-> s.l2buffer, mem |-> s.mem]
      /\ s.dcache \in [Lines -> Entries] /\ s.dbuffer \in [Lines -> Entries]
      /\ s.l2 \in [Lines -> Entries] /\ s.l2buffer \in [Lines -> Entries]
      /\ s.mem \in [Addrs -> Vals]
      /\ LineOK(s, b)
  BY StoreParts
<1>2. /\ Absent \in EntryOf(b) /\ Absent \in Entries /\ Absent.state = "absent"
  BY AbsentEntry, EntryShape
<1>3. /\ D \in [Lines -> Entries] /\ D[b] = Absent
      /\ \A x \in Lines : x # b => D[x] = s.dcache[x]
  BY <1>1, <1>2
<1>4. EntriesOK(s.dcache[b], s.dbuffer[b], s.l2[b], s.l2buffer[b], b)
  BY <1>1 DEF LineOK
<1>5. CASE IsDirty(s.dcache, b)
  <2> DEFINE d == s.dcache[b].data
             L == Updated(s.l2, b, d)
             m == Write(s.mem, d)
  <2>1. /\ d \in [Words(b) -> Vals] /\ s.l2buffer[b].state = "absent"
        /\ s.l2[b].state # "dirty" /\ s.dbuffer[b].state = "absent"
        /\ s.l2[b] \in EntryOf(b)
    BY <1>4, <1>5, EntryShape DEF IsDirty, EntriesOK
  <2>2. Updated(s.l2buffer, b, d) = s.l2buffer
    BY <2>1 DEF Updated, Held
  <2>3. r = [dcache |-> D, dbuffer |-> s.dbuffer, l2 |-> L, l2buffer |-> s.l2buffer, mem |-> m]
    <3>1. r = [s EXCEPT !.dcache = D, !.l2 = L, !.l2buffer = Updated(s.l2buffer, b, d),
                        !.mem = m]
      BY <1>5 DEF FlushL1
    <3> HIDE DEF D, L, m, r, d
    <3>2. QED
      BY <1>1, <2>2, <3>1
  <2>4. /\ m \in [Addrs -> Vals] /\ Agrees(m, d, b)
        /\ \A a \in Addrs : Line(a) # b => m[a] = s.mem[a]
    <3> HIDE DEF d
    <3>1. QED
      BY <1>1, <2>1, BlockWritten
  <2> HIDE DEF d, m
  <2>5. /\ L \in [Lines -> Entries] /\ L[b] \in EntryOf(b)
        /\ L[b].state = s.l2[b].state
        /\ s.l2[b].state # "absent" => L[b].data = d
        /\ \A x \in Lines : x # b => L[x] = s.l2[x]
    <3>1. CASE Held(s.l2, b)
      <4> DEFINE e == [s.l2[b] EXCEPT !.data = d]
      <4>1. e \in EntryOf(b) /\ e.state = s.l2[b].state /\ e.data = d
        BY <2>1, <3>1, EntryUpdated DEF Held
      <4>2. e \in Entries
        BY <4>1, EntryShape
      <4>3. L = [s.l2 EXCEPT ![b] = e]
        BY <3>1 DEF Updated
      <4> HIDE DEF e
      <4>4. QED
        BY <1>1, <4>1, <4>2, <4>3
    <3>2. CASE ~Held(s.l2, b)
      BY <1>1, <2>1, <3>2 DEF Held, Updated
    <3>3. QED
      BY <3>1, <3>2
  <2> HIDE DEF L, D, r
  <2>6. /\ r.dcache = D /\ r.dbuffer = s.dbuffer /\ r.l2 = L /\ r.l2buffer = s.l2buffer
        /\ r.mem = m /\ r \in Stores
    BY <1>1, <1>3, <2>3, <2>4, <2>5 DEF Stores
  <2>7. \A x \in Lines : x # b => SameLine(s, r, x)
    BY <1>3, <2>4, <2>5, <2>6 DEF SameLine, SameEntries, SameWords, Words
  <2>8. LineOK(r, b)
    BY <1>2, <1>3, <1>4, <2>1, <2>5, <2>6 DEF LineOK, EntriesOK
  <2>9. StoreOK(r)
    BY <2>6, <2>7, <2>8, StoreChanged DEF SameLine
  <2>10. KeepsAt(s, r, b)
    <3> SUFFICES ASSUME NEW v, LineSafe(s, v, b)
                 PROVE  LineGood(r, v, b)
      <4>1. \A v : ~LineReady(s, v, b)
        BY <1>5 DEF LineReady, NoneDirty, IsDirty
      <4>2. QED
        BY <4>1 DEF KeepsAt, LineGood, LineSafe, Good
    <3>1. Agrees(d, v, b)
      BY <1>5 DEF LineSafe, Safe, d, IsDirty
    <3>2. Agrees(m, v, b)
      BY <2>4, <3>1 DEF Agrees
    <3>3. QED
      BY <1>2, <1>3, <2>1, <2>5, <2>6, <3>1, <3>2 DEF LineGood, Good, Safe
  <2>11. Keeps(s, r)
    BY <2>7, <2>10, KeepsAll
  <2>12. QED
    BY <1>3, <2>6, <2>7, <2>9, <2>11 DEF r
<1>6. CASE ~IsDirty(s.dcache, b)
  <2>1. r = [dcache |-> D, dbuffer |-> s.dbuffer, l2 |-> s.l2, l2buffer |-> s.l2buffer,
             mem |-> s.mem]
    <3>1. r = [s EXCEPT !.dcache[b] = Absent]
      BY <1>6 DEF FlushL1
    <3>2. QED
      BY <1>1, <3>1
  <2> HIDE DEF D, r
  <2>2. /\ r.dcache = D /\ r.dbuffer = s.dbuffer /\ r.l2 = s.l2 /\ r.l2buffer = s.l2buffer
        /\ r.mem = s.mem /\ r \in Stores
    BY <1>1, <1>3, <2>1 DEF Stores
  <2>3. \A x \in Lines : x # b => SameLine(s, r, x)
    BY <1>3, <2>2 DEF SameLine, SameEntries, SameWords
  <2>4. LineOK(r, b)
    BY <1>2, <1>3, <1>4, <2>2 DEF LineOK, EntriesOK
  <2>5. StoreOK(r)
    BY <2>2, <2>3, <2>4, StoreChanged DEF SameLine
  <2>6. KeepsAt(s, r, b)
    BY <1>2, <1>3, <1>6, <2>2
       DEF KeepsAt, LineGood, LineSafe, LineReady, Good, Safe, NoneDirty, IsDirty
  <2>7. Keeps(s, r)
    BY <2>3, <2>6, KeepsAll
  <2>8. QED
    BY <1>3, <2>2, <2>3, <2>5, <2>7 DEF r
<1>7. QED
  BY <1>5, <1>6

(* The flush of a block from the L2 cache. *)
LEMMA FlushedL2 ==
  ASSUME NEW s, StoreOK(s), NEW b \in Lines
  PROVE  LET r == FlushL2(s, b) IN
         /\ StoreOK(r) /\ Keeps(s, r)
         /\ r.dcache = s.dcache /\ r.l2[b] = Absent
         /\ \A x \in Lines : x # b => SameLine(s, r, x)
<1> DEFINE r == FlushL2(s, b)
           L == [s.l2 EXCEPT ![b] = Absent]
           m == IF IsDirty(s.l2, b) THEN Write(s.mem, s.l2[b].data) ELSE s.mem
<1>1. /\ s = [dcache |-> s.dcache, dbuffer |-> s.dbuffer, l2 |-> s.l2,
              l2buffer |-> s.l2buffer, mem |-> s.mem]
      /\ s.dcache \in [Lines -> Entries] /\ s.dbuffer \in [Lines -> Entries]
      /\ s.l2 \in [Lines -> Entries] /\ s.l2buffer \in [Lines -> Entries]
      /\ s.mem \in [Addrs -> Vals]
      /\ LineOK(s, b)
  BY StoreParts
<1>2. /\ Absent \in EntryOf(b) /\ Absent \in Entries /\ Absent.state = "absent"
  BY AbsentEntry, EntryShape
<1>3. /\ L \in [Lines -> Entries] /\ L[b] = Absent
      /\ \A x \in Lines : x # b => L[x] = s.l2[x]
  BY <1>1, <1>2
<1>4. EntriesOK(s.dcache[b], s.dbuffer[b], s.l2[b], s.l2buffer[b], b)
  BY <1>1 DEF LineOK
<1>5. /\ m \in [Addrs -> Vals]
      /\ \A a \in Addrs : Line(a) # b => m[a] = s.mem[a]
      /\ IsDirty(s.l2, b) => Agrees(m, s.l2[b].data, b)
      /\ ~IsDirty(s.l2, b) => m = s.mem
  <2>1. CASE IsDirty(s.l2, b)
    <3>1. s.l2[b].data \in [Words(b) -> Vals]
      BY <1>4, <2>1, EntryShape DEF IsDirty, EntriesOK
    <3>2. m = Write(s.mem, s.l2[b].data)
      BY <2>1
    <3>3. QED
      BY <1>1, <2>1, <3>1, <3>2, BlockWritten
  <2>2. CASE ~IsDirty(s.l2, b)
    BY <1>1, <2>2
  <2>3. QED
    BY <2>1, <2>2
<1>6. r = [dcache |-> s.dcache, dbuffer |-> s.dbuffer, l2 |-> L, l2buffer |-> s.l2buffer,
           mem |-> m]
  <2>1. r = [s EXCEPT !.l2 = L, !.mem = m]
    BY DEF FlushL2
  <2> HIDE DEF L, m, r
  <2>2. QED
    BY <1>1, <2>1
<1> HIDE DEF L, m, r
<1>7. /\ r.dcache = s.dcache /\ r.dbuffer = s.dbuffer /\ r.l2 = L /\ r.l2buffer = s.l2buffer
      /\ r.mem = m /\ r \in Stores
  BY <1>1, <1>3, <1>5, <1>6 DEF Stores
<1>8. \A x \in Lines : x # b => SameLine(s, r, x)
  BY <1>3, <1>5, <1>7 DEF SameLine, SameEntries, SameWords, Words
<1>9. LineOK(r, b)
  BY <1>2, <1>3, <1>4, <1>7 DEF LineOK, EntriesOK
<1>10. StoreOK(r)
  BY <1>7, <1>8, <1>9, StoreChanged DEF SameLine
<1>11. KeepsAt(s, r, b)
  <2>1. CASE IsDirty(s.l2, b)
    <3> SUFFICES ASSUME NEW v, LineSafe(s, v, b)
                 PROVE  LineGood(r, v, b)
      <4>1. \A v : ~LineReady(s, v, b)
        BY <2>1 DEF LineReady, NoneDirty, IsDirty
      <4>2. QED
        BY <4>1 DEF KeepsAt, LineGood, LineSafe, Good
    <3>1. Agrees(s.l2[b].data, v, b)
      BY <2>1 DEF LineSafe, Safe, IsDirty
    <3>2. Agrees(m, v, b)
      BY <1>5, <2>1, <3>1 DEF Agrees
    <3>3. /\ s.dcache[b].state = "absent" /\ s.dbuffer[b].state = "absent"
          /\ s.l2buffer[b].state = "absent"
      BY <1>4, <2>1 DEF EntriesOK, IsDirty
    <3>4. QED
      BY <1>2, <1>3, <1>7, <3>2, <3>3 DEF LineGood, Good, Safe
  <2>2. CASE ~IsDirty(s.l2, b)
    BY <1>2, <1>3, <1>5, <1>7, <2>2
       DEF KeepsAt, LineGood, LineSafe, LineReady, Good, Safe, NoneDirty, IsDirty
  <2>3. QED
    BY <2>1, <2>2
<1>12. Keeps(s, r)
  BY <1>8, <1>11, KeepsAll
<1>13. QED
  BY <1>3, <1>7, <1>8, <1>10, <1>12 DEF r

(* The flushes before a command, and after one: the blocks of the erased   *)
(* entry leave both caches.                                                *)
LEMMA FlushedBefore ==
  ASSUME NEW c \in Commands, StoreOK(Caches)
  PROVE  StoreOK(FlushBefore(c)) /\ Keeps(Caches, FlushBefore(c))
<1> DEFINE s == FlushL1(Caches, Line(c[0]))
           r == FlushL2(s, Line(c[2]))
<1>1. Line(c[0]) \in Lines /\ Line(c[2]) \in Lines
  BY CommandWords, Registers
<1>2. StoreOK(s) /\ Keeps(Caches, s)
  BY <1>1, FlushedL1
<1> HIDE DEF s
<1>3. StoreOK(r) /\ Keeps(s, r)
  BY <1>1, <1>2, FlushedL2
<1>4. FlushBefore(c) = r
  BY DEF FlushBefore, r, s
<1> HIDE DEF r
<1>5. QED
  BY <1>2, <1>3, <1>4 DEF Keeps

LEMMA FlushedAfter ==
  ASSUME NEW c \in Commands, StoreOK(Caches)
  PROVE  LET r == FlushAfter(c) IN
         /\ StoreOK(r) /\ Keeps(Caches, r)
         /\ \A b \in CmdLines(c) : r.dcache[b] = Absent /\ r.l2[b] = Absent
<1> DEFINE b0 == Line(c[0])
           b1 == Line(c[1])
           b2 == Line(c[2])
           s1 == FlushL1(Caches, b0)
           s2 == FlushL1(s1, b1)
           s3 == FlushL1(s2, b2)
           s4 == FlushL2(s3, b0)
           s5 == FlushL2(s4, b1)
           s6 == FlushL2(s5, b2)
<1>1. b0 \in Lines /\ b1 \in Lines /\ b2 \in Lines
  BY CommandWords, Registers
<1>2. CmdLines(c) = {b0, b1, b2}
  BY Registers DEF CmdLines
<1>3. FlushAfter(c) = s6
  BY DEF FlushAfter
<1> HIDE DEF b0, b1, b2
<1>4. /\ StoreOK(s1) /\ Keeps(Caches, s1) /\ s1.dcache[b0] = Absent
  BY <1>1, FlushedL1
<1> HIDE DEF s1
<1>5. /\ StoreOK(s2) /\ Keeps(s1, s2) /\ s2.dcache[b1] = Absent
      /\ \A x \in Lines : x # b1 => s2.dcache[x] = s1.dcache[x]
  BY <1>1, <1>4, FlushedL1 DEF SameLine, SameEntries
<1> HIDE DEF s2
<1>6. /\ StoreOK(s3) /\ Keeps(s2, s3) /\ s3.dcache[b2] = Absent
      /\ \A x \in Lines : x # b2 => s3.dcache[x] = s2.dcache[x]
  BY <1>1, <1>5, FlushedL1 DEF SameLine, SameEntries
<1> HIDE DEF s3
<1>7. /\ StoreOK(s4) /\ Keeps(s3, s4) /\ s4.dcache = s3.dcache /\ s4.l2[b0] = Absent
  BY <1>1, <1>6, FlushedL2
<1> HIDE DEF s4
<1>8. /\ StoreOK(s5) /\ Keeps(s4, s5) /\ s5.dcache = s4.dcache /\ s5.l2[b1] = Absent
      /\ \A x \in Lines : x # b1 => s5.l2[x] = s4.l2[x]
  BY <1>1, <1>7, FlushedL2 DEF SameLine, SameEntries
<1> HIDE DEF s5
<1>9. /\ StoreOK(s6) /\ Keeps(s5, s6) /\ s6.dcache = s5.dcache /\ s6.l2[b2] = Absent
      /\ \A x \in Lines : x # b2 => s6.l2[x] = s5.l2[x]
  BY <1>1, <1>8, FlushedL2 DEF SameLine, SameEntries
<1> HIDE DEF s6
<1>10. Keeps(Caches, s6)
  <2>1. Keeps(Caches, s3)
    BY <1>4, <1>5, <1>6 DEF Keeps
  <2>2. Keeps(s3, s6)
    BY <1>7, <1>8, <1>9 DEF Keeps
  <2>3. QED
    BY <2>1, <2>2 DEF Keeps
<1>11. \A b \in CmdLines(c) : s6.dcache[b] = Absent /\ s6.l2[b] = Absent
  BY <1>1, <1>2, <1>4, <1>5, <1>6, <1>7, <1>8, <1>9
<1>12. QED
  BY <1>3, <1>9, <1>10, <1>11

-----------------------------------------------------------------------------
(* The steps of the host.  All of them change the copies of one block, and *)
(* perhaps its words in the memory or their last values.                   *)

LEMMA StoreUpdated ==
  ASSUME StoreOK(Caches), NEW b \in Lines, NEW e, NEW g, NEW f, NEW h,
         EntriesOK(e, g, f, h, b),
         dcache' = [dcache EXCEPT ![b] = e], dbuffer' = [dbuffer EXCEPT ![b] = g],
         l2' = [l2 EXCEPT ![b] = f], l2buffer' = [l2buffer EXCEPT ![b] = h],
         mem' \in [Addrs -> Vals], SameElsewhere(mem, mem', b)
  PROVE  /\ StoreOK(Caches')
         /\ \A x \in Lines : x # b => SameLine(Caches, Caches', x)
         /\ Caches'.dcache[b] = e /\ Caches'.dbuffer[b] = g
         /\ Caches'.l2[b] = f /\ Caches'.l2buffer[b] = h /\ Caches'.mem = mem'
<1>1. /\ dcache \in [Lines -> Entries] /\ dbuffer \in [Lines -> Entries]
      /\ l2 \in [Lines -> Entries] /\ l2buffer \in [Lines -> Entries]
  BY StoreParts, CachesParts
<1>2. e \in Entries /\ g \in Entries /\ f \in Entries /\ h \in Entries
  BY EntryShape, BufferEntry DEF EntriesOK
<1>3. /\ dcache' \in [Lines -> Entries] /\ dbuffer' \in [Lines -> Entries]
      /\ l2' \in [Lines -> Entries] /\ l2buffer' \in [Lines -> Entries]
      /\ dcache'[b] = e /\ dbuffer'[b] = g /\ l2'[b] = f /\ l2buffer'[b] = h
      /\ \A x \in Lines : x # b => /\ dcache'[x] = dcache[x] /\ dbuffer'[x] = dbuffer[x]
                                   /\ l2'[x] = l2[x] /\ l2buffer'[x] = l2buffer[x]
  BY <1>1, <1>2
<1>4. /\ Caches'.dcache = dcache' /\ Caches'.dbuffer = dbuffer'
      /\ Caches'.l2 = l2' /\ Caches'.l2buffer = l2buffer' /\ Caches'.mem = mem'
      /\ Caches' \in Stores
  BY <1>3 DEF Caches, Stores
<1>5. \A x \in Lines : x # b => SameLine(Caches, Caches', x)
  BY <1>3, <1>4, CachesParts DEF SameLine, SameEntries, SameWords, SameElsewhere, Words
<1>6. LineOK(Caches', b)
  BY <1>3, <1>4 DEF LineOK
<1>7. StoreOK(Caches')
  BY <1>4, <1>5, <1>6, StoreChanged DEF SameLine
<1>8. QED
  BY <1>3, <1>4, <1>5, <1>7

(* A command under way, and its place among the registered ones. *)
LEMMA StartedKernel ==
  ASSUME KernelOK, kernel.step # "idle"
  PROVE  /\ kernel \in Started /\ Active
         /\ kernel.cmd \in Commands /\ kernel.data \in Seq(Vals)
         /\ \E k \in 1 .. Len(pending) : pending[k] = kernel.cmd
         /\ IF kernel.step = "read" THEN Len(kernel.data) < 2 ELSE Len(kernel.data) = 2
<1>1. kernel # NoCommand
  BY DEF NoCommand
<1>2. QED
  BY <1>1 DEF KernelOK, Started, Active, Input

LEMMA ActiveKernel ==
  ASSUME KernelOK
  PROVE  Active <=> kernel.step # "idle"
  BY DEF KernelOK, Active, NoCommand, Started

LEMMA ActiveRegistered ==
  ASSUME KernelOK, Active, NEW b \in CmdLines(kernel.cmd)
  PROVE  Registered(pending, b)
  BY ActiveKernel, StartedKernel DEF Registered

(* A block of which no word is held back is not registered. *)
LEMMA NotStalled ==
  ASSUME pending \in Seq(Commands), NEW a \in Addrs, ~StalledAddr(pending, a)
  PROVE  ~Registered(pending, Line(a))
<1> SUFFICES ASSUME NEW k \in 1 .. Len(pending), NEW i \in Regs,
                    Line(a) = Line(pending[k][i])
             PROVE  FALSE
  BY DEF Registered, CmdLines
<1>1. pending[k] \in Commands
  OBVIOUS
<1>2. pending[k][i] \in Addrs
  BY <1>1, CommandWords
<1>3. Granule(pending[k][i]) = Granule(a)
  BY <1>2, SameGranule
<1>4. QED
  BY <1>3 DEF StalledAddr

(* What a step of the host has to keep of the block it changes. *)
StepKeeps(b) ==
  /\ Active /\ b \in CmdLines(kernel.cmd) =>
       /\ SameWords(mem, mem', b)
       /\ flushed /\ LineReady(Caches, latest, b) => LineReady(Caches', latest', b)
  /\ flushed /\ Registered(pending, b) /\ LineSafe(Caches, latest, b)
       => LineSafe(Caches', latest', b)
  /\ flushed /\ ~Registered(pending, b) /\ LineGood(Caches, latest, b)
       => LineGood(Caches', latest', b)

LEMMA HostStep ==
  ASSUME IInv, NEW b \in Lines, StoreOK(Caches'),
         \A x \in Lines : x # b => SameLine(Caches, Caches', x),
         latest' \in [Addrs -> Vals], SameElsewhere(latest, latest', b),
         UNCHANGED <<pending, kernel, flushed>>,
         StepKeeps(b)
  PROVE  IInv'
<1>1. KernelOK /\ StoreOK(Caches) /\ LinesOK /\ OneSnapshot /\ flushed \in BOOLEAN
  BY DEF IInv
<1>2. Caches'.mem = mem' /\ Caches.mem = mem
  BY DEF Caches
<1>3. LinesOK'
  <2> SUFFICES ASSUME flushed, NEW x \in Lines
               PROVE  LineInv(Caches', latest', x)
    BY DEF LinesOK, LineInv, Active
  <2>1. LineInv(Caches, latest, x)
    BY <1>1 DEF LinesOK
  <2>2. CASE x # b
    <3>1. SameLine(Caches, Caches', x) /\ SameWords(latest, latest', x)
      BY <2>2 DEF SameWords, SameElsewhere, Words
    <3>2. QED
      BY <2>1, <3>1, Local DEF LineInv
  <2>3. CASE x = b
    BY <2>1, <2>3 DEF LineInv, StepKeeps
  <2>4. QED
    BY <2>2, <2>3
<1>4. OneSnapshot'
  <2> SUFFICES ASSUME kernel.step \in {"read", "write"}, flushed \/ kernel.alone,
                      NEW i \in 1 .. Input
               PROVE  /\ mem'[kernel.cmd[i - 1]] = kernel.found[i]
                      /\ i <= Len(kernel.data) => kernel.data[i] = kernel.found[i]
    BY DEF OneSnapshot
  <2>1. /\ mem[kernel.cmd[i - 1]] = kernel.found[i]
        /\ i <= Len(kernel.data) => kernel.data[i] = kernel.found[i]
    BY <1>1 DEF OneSnapshot
  <2>2. Active /\ kernel.cmd \in Commands /\ i - 1 \in Regs
    <3>1. i - 1 \in {0, 1, 2}
      BY DEF Input
    <3>2. QED
      BY <1>1, <3>1, StartedKernel, Registers
  <2>3. PICK a \in Addrs : a = kernel.cmd[i - 1]
    BY <2>2, CommandWords
  <2>4. Line(a) \in Lines /\ a \in Words(Line(a)) /\ Line(a) \in CmdLines(kernel.cmd)
    BY <2>2, <2>3, LineOf DEF CmdLines
  <2>5. SameWords(mem, mem', Line(a))
    <3>1. CASE Line(a) = b
      BY <2>2, <2>4, <3>1 DEF StepKeeps
    <3>2. CASE Line(a) # b
      BY <1>2, <2>4, <3>2 DEF SameLine
    <3>3. QED
      BY <3>1, <3>2
  <2>6. mem'[a] = mem[a]
    BY <2>4, <2>5 DEF SameWords
  <2>7. QED
    BY <2>1, <2>3, <2>6
<1>5. KernelOK'
  BY <1>1 DEF KernelOK
<1>6. QED
  BY <1>1, <1>3, <1>4, <1>5 DEF IInv

(* What the data cache gets when it misses, and what the L2 cache keeps. *)
LEMMA Filled ==
  ASSUME StoreOK(Caches), NEW b \in Lines, ~Held(dcache, b), MissAllowed(b)
  PROVE  /\ Fill(b) \in EntryOf(b) /\ Fill(b).state # "absent"
         /\ Fill(b).data \in [Words(b) -> Vals]
         /\ dbuffer[b].state = "absent" /\ l2buffer[b].state = "absent"
         /\ \A v : LineGood(Caches, v, b) =>
              /\ Agrees(Fill(b).data, v, b)
              /\ Fill(b).state # "dirty" => Agrees(mem, v, b)
<1>1. /\ LineOK(Caches, b) /\ mem \in [Addrs -> Vals]
  BY StoreParts, CachesParts
<1>2. EntriesOK(dcache[b], dbuffer[b], l2[b], l2buffer[b], b)
  BY <1>1, CachesParts DEF LineOK
<1>3. /\ dcache[b].state = "absent" /\ dbuffer[b].state = "absent"
      /\ l2buffer[b].state = "absent" /\ l2[b] \in EntryOf(b)
  BY <1>2 DEF Held, MissAllowed, EntriesOK
<1>4. CASE l2[b].state # "absent"
  <2>1. Fill(b) = l2[b]
    BY <1>4 DEF Fill, Above
  <2>2. l2[b].state \in {"clean", "dirty"} /\ l2[b].data \in [Words(b) -> Vals]
    BY <1>3, <1>4, EntryShape
  <2>3. ASSUME NEW v, LineGood(Caches, v, b)
        PROVE  /\ Agrees(l2[b].data, v, b)
               /\ l2[b].state # "dirty" => Agrees(mem, v, b)
    BY <1>3, <2>2, <2>3, CachesParts DEF LineGood, Good, Safe, NoneDirty
  <2>4. QED
    BY <1>3, <1>4, <2>1, <2>2, <2>3
<1>5. CASE l2[b].state = "absent"
  <2>1. Fill(b) = Clean(Block(mem, b))
    BY <1>5 DEF Fill, Above
  <2>2. Block(mem, b) \in [Words(b) -> Vals] /\ Agrees(Block(mem, b), mem, b)
    BY <1>1, BlockRead
  <2>3. /\ Fill(b) \in EntryOf(b) /\ Fill(b).state = "clean"
        /\ Fill(b).data = Block(mem, b)
    BY <2>1, <2>2, EntryMade
  <2>4. ASSUME NEW v, LineGood(Caches, v, b)
        PROVE  Agrees(Fill(b).data, v, b) /\ Agrees(mem, v, b)
    <3>1. Agrees(mem, v, b)
      BY <1>3, <1>5, <2>4, CachesParts DEF LineGood, Good, Safe, NoneDirty
    <3>2. QED
      BY <2>2, <2>3, <3>1 DEF Agrees
  <2>5. QED
    BY <1>3, <2>2, <2>3, <2>4
<1>6. QED
  BY <1>4, <1>5

(* The parts of the invariant that the host's steps use. *)
LEMMA HostParts ==
  ASSUME IInv
  PROVE  /\ KernelOK /\ StoreOK(Caches) /\ LinesOK /\ latest \in [Addrs -> Vals]
         /\ pending \in Seq(Commands) /\ flushed \in BOOLEAN
         /\ mem \in [Addrs -> Vals]
         /\ dcache \in [Lines -> Entries] /\ dbuffer \in [Lines -> Entries]
         /\ l2 \in [Lines -> Entries] /\ l2buffer \in [Lines -> Entries]
         /\ \A b \in Lines : EntriesOK(dcache[b], dbuffer[b], l2[b], l2buffer[b], b)
         /\ \A b \in Lines : /\ [dcache EXCEPT ![b] = dcache[b]] = dcache
                             /\ [dbuffer EXCEPT ![b] = dbuffer[b]] = dbuffer
                             /\ [l2 EXCEPT ![b] = l2[b]] = l2
                             /\ [l2buffer EXCEPT ![b] = l2buffer[b]] = l2buffer
<1>1. KernelOK /\ StoreOK(Caches) /\ LinesOK /\ latest \in [Addrs -> Vals]
      /\ pending \in Seq(Commands) /\ flushed \in BOOLEAN
  BY DEF IInv, KernelOK
<1>2. /\ mem \in [Addrs -> Vals]
      /\ dcache \in [Lines -> Entries] /\ dbuffer \in [Lines -> Entries]
      /\ l2 \in [Lines -> Entries] /\ l2buffer \in [Lines -> Entries]
      /\ \A b \in Lines : LineOK(Caches, b)
  BY <1>1, StoreParts, CachesParts
<1>3. \A b \in Lines : EntriesOK(dcache[b], dbuffer[b], l2[b], l2buffer[b], b)
  BY <1>2, CachesParts DEF LineOK
<1>4. QED
  BY <1>1, <1>2, <1>3

LEMMA SameKept ==
  ASSUME NEW m, NEW b
  PROVE  SameElsewhere(m, m, b) /\ SameWords(m, m, b)
  BY DEF SameElsewhere, SameWords

LEMMA LoadGood ==
  ASSUME IInv, NEW a \in Addrs, HostLoad(a)
  PROVE  IInv'
<1> DEFINE b == Line(a)
           e == Fill(b)
           f == Clean(e.data)
<1>1. /\ StoreOK(Caches) /\ KernelOK /\ pending \in Seq(Commands)
      /\ mem \in [Addrs -> Vals] /\ latest \in [Addrs -> Vals]
  BY HostParts
<1>2. b \in Lines
  BY LineOf
<1>3. /\ ~StalledAddr(pending, a) /\ ~Held(dcache, b) /\ MissAllowed(b)
      /\ dcache' = [dcache EXCEPT ![b] = e] /\ l2' = [l2 EXCEPT ![b] = f]
      /\ UNCHANGED <<dbuffer, l2buffer, mem, pending, kernel, latest, flushed>>
  BY DEF HostLoad, FillL2, buffers
<1>4. ~Registered(pending, b)
  BY <1>1, <1>3, NotStalled
<1> HIDE DEF b
<1>5. /\ e \in EntryOf(b) /\ e.state # "absent"
      /\ e.data \in [Words(b) -> Vals]
      /\ dbuffer[b].state = "absent" /\ l2buffer[b].state = "absent"
      /\ \A v : LineGood(Caches, v, b) =>
              /\ Agrees(e.data, v, b)
              /\ e.state # "dirty" => Agrees(mem, v, b)
  BY <1>1, <1>2, <1>3, Filled
<1> HIDE DEF e
<1>6. f \in EntryOf(b) /\ f.state = "clean" /\ f.data = e.data
  BY <1>5, EntryMade
<1> HIDE DEF f
<1>7. /\ EntriesOK(e, dbuffer[b], f, l2buffer[b], b)
      /\ dbuffer' = [dbuffer EXCEPT ![b] = dbuffer[b]]
      /\ l2buffer' = [l2buffer EXCEPT ![b] = l2buffer[b]]
  BY <1>2, <1>3, <1>5, <1>6, HostParts DEF EntriesOK
<1>8. SameElsewhere(mem, mem', b) /\ SameElsewhere(latest, latest', b)
  BY <1>3, SameKept
<1>9. /\ StoreOK(Caches')
      /\ \A x \in Lines : x # b => SameLine(Caches, Caches', x)
      /\ Caches'.dcache[b] = e /\ Caches'.dbuffer[b] = dbuffer[b]
      /\ Caches'.l2[b] = f /\ Caches'.l2buffer[b] = l2buffer[b] /\ Caches'.mem = mem'
  BY <1>1, <1>2, <1>3, <1>7, <1>8, StoreUpdated
<1>10. LineGood(Caches, latest, b) => LineGood(Caches', latest', b)
  BY <1>3, <1>5, <1>6, <1>9 DEF LineGood, Good, Safe, NoneDirty
<1>11. StepKeeps(b)
  BY <1>1, <1>4, <1>10, ActiveRegistered DEF StepKeeps
<1>12. QED
  BY <1>1, <1>2, <1>3, <1>8, <1>9, <1>11, HostStep

LEMMA StoreGood ==
  ASSUME IInv, NEW a \in Addrs, NEW x \in Vals, HostStore(a, x)
  PROVE  IInv'
<1> DEFINE b == Line(a)
           d == IF Held(dcache, b) THEN dcache[b].data ELSE Fill(b).data
           e == Dirty([d EXCEPT ![a] = x])
           f == IF Held(dcache, b) THEN l2[b] ELSE Clean(Fill(b).data)
<1>1. /\ StoreOK(Caches) /\ KernelOK /\ pending \in Seq(Commands)
      /\ mem \in [Addrs -> Vals] /\ latest \in [Addrs -> Vals]
  BY HostParts
<1>2. b \in Lines /\ a \in Words(b)
  BY LineOf
<1>3. /\ ~StalledAddr(pending, a) /\ (Held(dcache, b) \/ MissAllowed(b))
      /\ dcache' = [dcache EXCEPT ![b] = e]
      /\ l2' = [l2 EXCEPT ![b] = f]
      /\ latest' = [latest EXCEPT ![a] = x]
      /\ UNCHANGED <<dbuffer, l2buffer, mem, pending, kernel, flushed>>
  <2>1. [l2 EXCEPT ![b] = l2[b]] = l2
    BY <1>2, HostParts
  <2>2. QED
    BY <2>1 DEF HostStore, FillL2, buffers
<1>4. ~Registered(pending, b)
  BY <1>1, <1>3, NotStalled
<1>5. SameElsewhere(latest, latest', b)
  BY <1>1, <1>3 DEF SameElsewhere
<1> HIDE DEF b
<1>6. EntriesOK(dcache[b], dbuffer[b], l2[b], l2buffer[b], b)
  BY <1>2, HostParts
<1>7. /\ d \in [Words(b) -> Vals] /\ f \in EntryOf(b) /\ f.state # "dirty"
      /\ dbuffer[b].state = "absent" /\ l2buffer[b].state = "absent"
      /\ LineGood(Caches, latest, b) => Agrees(d, latest, b)
  <2>1. CASE Held(dcache, b)
    <3>1. /\ dcache[b].data \in [Words(b) -> Vals]
          /\ dcache[b].state \in {"clean", "dirty"}
          /\ dbuffer[b].state = "absent" /\ l2buffer[b].state = "absent"
          /\ l2[b].state # "dirty" /\ l2[b] \in EntryOf(b)
      BY <1>2, <1>6, <2>1, EntryShape DEF Held, EntriesOK
    <3>2. LineGood(Caches, latest, b) => Agrees(dcache[b].data, latest, b)
      BY <3>1, CachesParts DEF LineGood, Good, Safe
    <3>3. QED
      BY <2>1, <3>1, <3>2
  <2>2. CASE ~Held(dcache, b)
    <3>1. /\ Fill(b).data \in [Words(b) -> Vals]
          /\ dbuffer[b].state = "absent" /\ l2buffer[b].state = "absent"
          /\ LineGood(Caches, latest, b) => Agrees(Fill(b).data, latest, b)
      BY <1>1, <1>2, <1>3, <2>2, Filled
    <3>2. Clean(Fill(b).data) \in EntryOf(b) /\ Clean(Fill(b).data).state # "dirty"
      BY <3>1, EntryMade
    <3>3. QED
      BY <2>2, <3>1, <3>2
  <2>3. QED
    BY <2>1, <2>2
<1> HIDE DEF d, f
<1>8. /\ [d EXCEPT ![a] = x] \in [Words(b) -> Vals]
      /\ [d EXCEPT ![a] = x][a] = x
      /\ \A y \in Words(b) : y # a => [d EXCEPT ![a] = x][y] = d[y]
  BY <1>2, <1>7
<1>9. e \in EntryOf(b) /\ e.state = "dirty" /\ e.data = [d EXCEPT ![a] = x]
  BY <1>8, EntryMade
<1> HIDE DEF e
<1>10. /\ latest' \in [Addrs -> Vals] /\ latest'[a] = x
       /\ \A y \in Addrs : y # a => latest'[y] = latest[y]
  BY <1>1, <1>3
<1>11. /\ EntriesOK(e, dbuffer[b], f, l2buffer[b], b)
       /\ dbuffer' = [dbuffer EXCEPT ![b] = dbuffer[b]]
       /\ l2buffer' = [l2buffer EXCEPT ![b] = l2buffer[b]]
  BY <1>2, <1>3, <1>6, <1>7, <1>9, HostParts DEF EntriesOK
<1>12. SameElsewhere(mem, mem', b) /\ mem' \in [Addrs -> Vals]
  BY <1>1, <1>3, SameKept
<1>13. /\ StoreOK(Caches')
       /\ \A y \in Lines : y # b => SameLine(Caches, Caches', y)
       /\ Caches'.dcache[b] = e /\ Caches'.dbuffer[b] = dbuffer[b]
       /\ Caches'.l2[b] = f /\ Caches'.l2buffer[b] = l2buffer[b]
  <2>1. StoreOK(Caches) /\ b \in Lines
    BY <1>1, <1>2
  <2>2. dcache' = [dcache EXCEPT ![b] = e] /\ l2' = [l2 EXCEPT ![b] = f]
    BY <1>3
  <2>3. QED
    BY <1>11, <1>12, <2>1, <2>2, StoreUpdated
<1>14. LineGood(Caches, latest, b) => LineGood(Caches', latest', b)
  <2>1. LineGood(Caches, latest, b) => Agrees(e.data, latest', b)
    BY <1>7, <1>8, <1>9, <1>10 DEF Agrees, Words
  <2>2. QED
    BY <1>7, <1>9, <1>13, <2>1 DEF LineGood, Good, Safe, NoneDirty
<1>15. StepKeeps(b)
  BY <1>1, <1>4, <1>14, ActiveRegistered DEF StepKeeps
<1>16. QED
  BY <1>1, <1>2, <1>3, <1>5, <1>10, <1>13, <1>15, HostStep

(* A step that moves a copy of a block and leaves the memory alone. *)
LEMMA Moved ==
  ASSUME IInv, NEW b \in Lines, NEW e, NEW g, NEW f, NEW h, EntriesOK(e, g, f, h, b),
         dcache' = [dcache EXCEPT ![b] = e], dbuffer' = [dbuffer EXCEPT ![b] = g],
         l2' = [l2 EXCEPT ![b] = f], l2buffer' = [l2buffer EXCEPT ![b] = h],
         UNCHANGED <<mem, pending, kernel, latest, flushed>>,
         LineGood(Caches, latest, b) => Good(e, g, f, h, mem, latest, b),
         LineSafe(Caches, latest, b) => Safe(e, g, f, h, mem, latest, b),
         LineReady(Caches, latest, b) => NoneDirty(e, g, f, h)
  PROVE  IInv'
<1>1. /\ StoreOK(Caches) /\ mem \in [Addrs -> Vals] /\ latest \in [Addrs -> Vals]
  BY HostParts
<1>2. SameElsewhere(mem, mem', b) /\ SameElsewhere(latest, latest', b) /\ SameWords(mem, mem', b)
  BY SameKept
<1>3. /\ StoreOK(Caches')
      /\ \A x \in Lines : x # b => SameLine(Caches, Caches', x)
      /\ Caches'.dcache[b] = e /\ Caches'.dbuffer[b] = g
      /\ Caches'.l2[b] = f /\ Caches'.l2buffer[b] = h /\ Caches'.mem = mem'
  BY <1>1, <1>2, StoreUpdated
<1>4. /\ LineGood(Caches, latest, b) => LineGood(Caches', latest', b)
      /\ LineSafe(Caches, latest, b) => LineSafe(Caches', latest', b)
      /\ LineReady(Caches, latest, b) => LineReady(Caches', latest', b)
  BY <1>3, CachesParts DEF LineGood, LineSafe, LineReady
<1>5. StepKeeps(b)
  BY <1>2, <1>4 DEF StepKeeps
<1>6. latest' \in [Addrs -> Vals] /\ UNCHANGED <<pending, kernel, flushed>>
  BY <1>1
<1>7. QED
  BY <1>2, <1>3, <1>5, <1>6, HostStep

LEMMA EvictL1Good ==
  ASSUME IInv, NEW b \in Lines, EvictL1(b)
  PROVE  IInv'
<1> DEFINE g == IF IsDirty(dcache, b) THEN dcache[b] ELSE dbuffer[b]
<1>1. EntriesOK(dcache[b], dbuffer[b], l2[b], l2buffer[b], b)
  BY HostParts
<1>2. /\ Held(dcache, b) /\ dcache' = [dcache EXCEPT ![b] = Absent]
      /\ dbuffer' = [dbuffer EXCEPT ![b] = g]
      /\ l2' = [l2 EXCEPT ![b] = l2[b]]
      /\ l2buffer' = [l2buffer EXCEPT ![b] = l2buffer[b]]
      /\ UNCHANGED <<mem, pending, kernel, latest, flushed>>
  BY HostParts DEF EvictL1
<1>3. Absent \in EntryOf(b) /\ Absent.state = "absent"
  BY AbsentEntry
<1>4. IsDirty(dcache, b) => dcache[b] \in BufferOf(b)
  BY <1>1, DirtyBuffered DEF IsDirty, EntriesOK
<1>5. /\ g \in BufferOf(b)
      /\ IF dcache[b].state = "dirty" THEN g = dcache[b] ELSE g.state = "absent"
      /\ l2[b].state # "dirty" /\ l2buffer[b].state = "absent"
      /\ dbuffer[b].state = "absent"
      /\ l2[b] \in EntryOf(b) /\ l2buffer[b] \in BufferOf(b)
      /\ dcache[b].state \in {"clean", "dirty"}
  BY <1>1, <1>2, <1>4, EntryShape DEF IsDirty, Held, EntriesOK
<1> HIDE DEF g
<1>6. EntriesOK(Absent, g, l2[b], l2buffer[b], b)
  BY <1>3, <1>5 DEF EntriesOK
<1>7. /\ LineGood(Caches, latest, b) => Good(Absent, g, l2[b], l2buffer[b], mem, latest, b)
      /\ LineSafe(Caches, latest, b) => Safe(Absent, g, l2[b], l2buffer[b], mem, latest, b)
      /\ LineReady(Caches, latest, b) => NoneDirty(Absent, g, l2[b], l2buffer[b])
  BY <1>3, <1>5, CachesParts DEF LineGood, LineSafe, LineReady, Good, Safe, NoneDirty
<1>8. QED
  BY <1>2, <1>6, <1>7, Moved

LEMMA SendL1Good ==
  ASSUME IInv, NEW b \in Lines, SendL1(b)
  PROVE  IInv'
<1>1. EntriesOK(dcache[b], dbuffer[b], l2[b], l2buffer[b], b)
  BY HostParts
<1>2. /\ Held(dbuffer, b) /\ dcache' = [dcache EXCEPT ![b] = dcache[b]]
      /\ dbuffer' = [dbuffer EXCEPT ![b] = Absent]
      /\ l2' = [l2 EXCEPT ![b] = dbuffer[b]]
      /\ l2buffer' = [l2buffer EXCEPT ![b] = l2buffer[b]]
      /\ UNCHANGED <<mem, pending, kernel, latest, flushed>>
  BY HostParts DEF SendL1
<1>3. Absent \in BufferOf(b) /\ Absent.state = "absent"
  BY AbsentEntry, AbsentBuffer
<1>4. /\ dbuffer[b].state = "dirty" /\ dbuffer[b] \in EntryOf(b)
      /\ dcache[b].state = "absent" /\ l2buffer[b].state = "absent"
      /\ dcache[b] \in EntryOf(b) /\ l2buffer[b] \in BufferOf(b)
  BY <1>1, <1>2, BufferEntry DEF Held, EntriesOK
<1>5. EntriesOK(dcache[b], Absent, dbuffer[b], l2buffer[b], b)
  BY <1>3, <1>4 DEF EntriesOK
<1>6. /\ LineGood(Caches, latest, b) =>
           Good(dcache[b], Absent, dbuffer[b], l2buffer[b], mem, latest, b)
      /\ LineSafe(Caches, latest, b) =>
           Safe(dcache[b], Absent, dbuffer[b], l2buffer[b], mem, latest, b)
      /\ LineReady(Caches, latest, b) => NoneDirty(dcache[b], Absent, dbuffer[b], l2buffer[b])
  BY <1>3, <1>4, CachesParts DEF LineGood, LineSafe, LineReady, Good, Safe, NoneDirty
<1>7. QED
  BY <1>2, <1>5, <1>6, Moved

LEMMA EvictL2Good ==
  ASSUME IInv, NEW b \in Lines, EvictL2(b)
  PROVE  IInv'
<1> DEFINE h == IF IsDirty(l2, b) THEN l2[b] ELSE l2buffer[b]
<1>1. EntriesOK(dcache[b], dbuffer[b], l2[b], l2buffer[b], b)
  BY HostParts
<1>2. /\ Held(l2, b) /\ dcache' = [dcache EXCEPT ![b] = dcache[b]]
      /\ dbuffer' = [dbuffer EXCEPT ![b] = dbuffer[b]]
      /\ l2' = [l2 EXCEPT ![b] = Absent]
      /\ l2buffer' = [l2buffer EXCEPT ![b] = h]
      /\ UNCHANGED <<mem, pending, kernel, latest, flushed>>
  BY HostParts DEF EvictL2
<1>3. Absent \in EntryOf(b) /\ Absent.state = "absent"
  BY AbsentEntry
<1>4. IsDirty(l2, b) => l2[b] \in BufferOf(b)
  BY <1>1, DirtyBuffered DEF IsDirty, EntriesOK
<1>5. /\ h \in BufferOf(b)
      /\ IF l2[b].state = "dirty" THEN h = l2[b] ELSE h.state = "absent"
      /\ l2[b].state = "dirty" => dcache[b].state = "absent" /\ dbuffer[b].state = "absent"
      /\ l2buffer[b].state = "absent"
      /\ dcache[b] \in EntryOf(b) /\ dbuffer[b] \in BufferOf(b)
      /\ dcache[b].state # "absent" => dbuffer[b].state = "absent"
  BY <1>1, <1>2, <1>4 DEF IsDirty, Held, EntriesOK
<1> HIDE DEF h
<1>6. EntriesOK(dcache[b], dbuffer[b], Absent, h, b)
  BY <1>3, <1>5 DEF EntriesOK
<1>7. /\ LineGood(Caches, latest, b) =>
           Good(dcache[b], dbuffer[b], Absent, h, mem, latest, b)
      /\ LineSafe(Caches, latest, b) =>
           Safe(dcache[b], dbuffer[b], Absent, h, mem, latest, b)
      /\ LineReady(Caches, latest, b) => NoneDirty(dcache[b], dbuffer[b], Absent, h)
  BY <1>3, <1>5, CachesParts DEF LineGood, LineSafe, LineReady, Good, Safe, NoneDirty
<1>8. QED
  BY <1>2, <1>6, <1>7, Moved

(* A block that the memory port lets through is none of the command's. *)
LEMMA SendL2Good ==
  ASSUME IInv, NEW b \in Lines, SendL2(b)
  PROVE  IInv'
<1> DEFINE d == l2buffer[b].data
           m == Write(mem, d)
<1>1. /\ EntriesOK(dcache[b], dbuffer[b], l2[b], l2buffer[b], b)
      /\ StoreOK(Caches) /\ KernelOK /\ pending \in Seq(Commands)
      /\ mem \in [Addrs -> Vals] /\ latest \in [Addrs -> Vals]
  BY HostParts
<1>2. /\ Held(l2buffer, b) /\ ~Stalled(b) /\ mem' = m
      /\ dcache' = [dcache EXCEPT ![b] = dcache[b]]
      /\ dbuffer' = [dbuffer EXCEPT ![b] = dbuffer[b]]
      /\ l2' = [l2 EXCEPT ![b] = l2[b]]
      /\ l2buffer' = [l2buffer EXCEPT ![b] = Absent]
      /\ UNCHANGED <<pending, kernel, latest, flushed>>
  BY HostParts DEF SendL2
<1>3. Absent \in BufferOf(b) /\ Absent.state = "absent"
  BY AbsentEntry, AbsentBuffer
<1>4. /\ l2buffer[b].state = "dirty" /\ l2buffer[b] \in EntryOf(b)
      /\ dcache[b].state = "absent" /\ dbuffer[b].state = "absent"
      /\ l2[b].state = "absent"
  BY <1>1, <1>2, BufferEntry DEF Held, EntriesOK
<1>5. d \in [Words(b) -> Vals]
  BY <1>4, EntryShape
<1>6. /\ m \in [Addrs -> Vals] /\ Agrees(m, d, b) /\ SameElsewhere(mem, m, b)
  <2> HIDE DEF d
  <2>1. QED
    BY <1>1, <1>5, BlockWritten DEF SameElsewhere
<1> HIDE DEF m
<1>7. ~Registered(pending, b)
  <2>1. PICK a \in Addrs : Line(a) = b
    BY DEF Lines
  <2>2. ~StalledAddr(pending, a)
    BY <1>2, <2>1 DEF Stalled
  <2>3. QED
    BY <1>1, <2>1, <2>2, NotStalled
<1>8. EntriesOK(dcache[b], dbuffer[b], l2[b], Absent, b)
  BY <1>1, <1>3 DEF EntriesOK
<1>9. /\ StoreOK(Caches')
      /\ \A x \in Lines : x # b => SameLine(Caches, Caches', x)
      /\ Caches'.dcache[b] = dcache[b] /\ Caches'.dbuffer[b] = dbuffer[b]
      /\ Caches'.l2[b] = l2[b] /\ Caches'.l2buffer[b] = Absent /\ Caches'.mem = m
  BY <1>1, <1>2, <1>6, <1>8, StoreUpdated
<1>10. LineGood(Caches, latest, b) => LineGood(Caches', latest, b)
  <2> SUFFICES ASSUME LineGood(Caches, latest, b) PROVE LineGood(Caches', latest, b)
    OBVIOUS
  <2>1. Agrees(d, latest, b)
    BY <1>4, CachesParts DEF LineGood, Good, Safe
  <2>2. Agrees(m, latest, b)
    BY <1>6, <2>1 DEF Agrees
  <2>3. QED
    BY <1>3, <1>4, <1>9, <2>2 DEF LineGood, Good, Safe
<1>11. StepKeeps(b)
  BY <1>1, <1>2, <1>7, <1>10, ActiveRegistered DEF StepKeeps
<1>12. SameElsewhere(latest, latest', b) /\ latest' \in [Addrs -> Vals]
  BY <1>1, <1>2, SameKept
<1>13. QED
  BY <1>2, <1>9, <1>11, <1>12, HostStep

-----------------------------------------------------------------------------
(* The steps of a command. *)

LEMMA BecomesStore ==
  ASSUME NEW s, StoreOK(s), Becomes(s)
  PROVE  Caches' = s
<1>1. s = [dcache |-> s.dcache, dbuffer |-> s.dbuffer, l2 |-> s.l2,
           l2buffer |-> s.l2buffer, mem |-> s.mem]
  BY StoreParts
<1>2. QED
  BY <1>1 DEF Becomes, Caches

(* What the flush loop and the registration of a command do, whether or    *)
(* not the kernel takes it.                                                *)
LEMMA Delivered ==
  ASSUME IInv, NEW c \in Commands, Deliver(c)
  PROVE  /\ Caches' = FlushBefore(c) /\ StoreOK(Caches') /\ Keeps(Caches, Caches')
         /\ latest' = latest
         /\ pending' \in Seq(Commands) /\ Len(pending') = Len(pending) + 1
         /\ pending'[Len(pending) + 1] = c
         /\ \A k \in 1 .. Len(pending) : pending'[k] = pending[k]
         /\ \A b : Registered(pending', b) <=> Registered(pending, b) \/ b \in CmdLines(c)
<1>1. StoreOK(Caches) /\ pending \in Seq(Commands)
  BY HostParts
<1>2. StoreOK(FlushBefore(c)) /\ Keeps(Caches, FlushBefore(c))
  BY <1>1, FlushedBefore
<1>3. Caches' = FlushBefore(c)
  BY <1>2, BecomesStore DEF Deliver
<1>4. pending' = Append(pending, c) /\ latest' = latest
  BY DEF Deliver, Registration
<1>5. /\ pending' \in Seq(Commands) /\ Len(pending') = Len(pending) + 1
      /\ pending'[Len(pending) + 1] = c
      /\ \A k \in 1 .. Len(pending) : pending'[k] = pending[k]
  BY <1>1, <1>4
<1>6. Len(pending) \in Nat
  BY <1>1
<1>7. \A k : k \in 1 .. Len(pending') <=> k \in 1 .. Len(pending) \/ k = Len(pending) + 1
  BY <1>5, <1>6
<1>8. \A b : Registered(pending', b) <=> Registered(pending, b) \/ b \in CmdLines(c)
  BY <1>5, <1>7 DEF Registered
<1>9. QED
  BY <1>2, <1>3, <1>4, <1>5, <1>8

(* A command starts: after the flushes its blocks are in the memory, or    *)
(* the history variable records that they are not.                         *)
LEMMA CommandGood ==
  ASSUME IInv, NEW c \in Commands, PIMCommand(c)
  PROVE  IInv'
<1> DEFINE s == FlushBefore(c)
           k == [step |-> "read", cmd |-> c, data |-> << >>,
                 found |-> <<s.mem[c[0]], s.mem[c[1]]>>, alone |-> TRUE]
<1>1. /\ KernelOK /\ StoreOK(Caches) /\ LinesOK /\ latest \in [Addrs -> Vals]
      /\ flushed \in BOOLEAN /\ pending \in Seq(Commands)
  BY HostParts
<1>2. /\ kernel.step = "idle" /\ Deliver(c) /\ kernel' = k
      /\ flushed' = (flushed /\ \A i \in Regs : NoDirtyCopy(s, Line(c[i])))
  BY DEF PIMCommand
<1>3. ~Active
  BY <1>1, <1>2, ActiveKernel
<1>4. /\ Caches' = s /\ StoreOK(Caches') /\ Keeps(Caches, Caches') /\ latest' = latest
      /\ pending' \in Seq(Commands) /\ Len(pending') = Len(pending) + 1
      /\ pending'[Len(pending) + 1] = c
      /\ \A b : Registered(pending', b) <=> Registered(pending, b) \/ b \in CmdLines(c)
  BY <1>2, Delivered
<1> HIDE DEF s
<1>5. s.mem \in [Addrs -> Vals] /\ mem' = s.mem
  BY <1>4, StoreParts DEF Caches
<1>6. PICK x \in Vals, y \in Vals : x = s.mem[c[0]] /\ y = s.mem[c[1]]
  <2>1. c[0] \in Addrs /\ c[1] \in Addrs
    BY CommandWords, Registers
  <2>2. QED
    BY <1>5, <2>1
<1>7. /\ k \in Started /\ k.cmd = c /\ k.data = << >> /\ k.step = "read"
      /\ k.found = <<x, y>> /\ k # NoCommand
  BY <1>6 DEF Started, NoCommand
<1> HIDE DEF k
<1>8. KernelOK'
  <2>1. \E j \in 1 .. Len(pending') : pending'[j] = c
    <3>1. Len(pending) \in Nat
      BY <1>1
    <3>2. Len(pending) + 1 \in 1 .. Len(pending')
      BY <1>4, <3>1
    <3>3. QED
      BY <1>4, <3>2
  <2>2. Len(k.data) < Input
    BY <1>7 DEF Input
  <2>3. QED
    BY <1>2, <1>4, <1>7, <2>1, <2>2 DEF KernelOK
<1>9. flushed' \in BOOLEAN /\ (flushed' => flushed)
  BY <1>1, <1>2
<1>10. LinesOK'
  <2> SUFFICES ASSUME flushed', NEW b \in Lines
               PROVE  /\ b \in CmdLines(c) => LineReady(Caches', latest, b)
                      /\ b \notin CmdLines(c) /\ Registered(pending, b)
                           => LineSafe(Caches', latest, b)
                      /\ b \notin CmdLines(c) /\ ~Registered(pending, b)
                           => LineGood(Caches', latest, b)
    BY <1>2, <1>4, <1>7 DEF LinesOK, LineInv, Active
  <2>1. LineInv(Caches, latest, b)
    BY <1>1, <1>9 DEF LinesOK
  <2>2. /\ Registered(pending, b) => LineSafe(Caches', latest, b)
        /\ ~Registered(pending, b) => LineGood(Caches', latest, b)
    BY <1>3, <1>4, <2>1 DEF LineInv, Keeps
  <2>3. LineSafe(Caches', latest, b)
    BY <2>2 DEF LineGood, Good, LineSafe
  <2>4. ASSUME b \in CmdLines(c) PROVE LineReady(Caches', latest, b)
    <3>1. NoDirtyCopy(Caches', b)
      BY <1>2, <1>4, <2>4 DEF CmdLines
    <3>2. NoneDirty(Caches'.dcache[b], Caches'.dbuffer[b], Caches'.l2[b], Caches'.l2buffer[b])
      BY <3>1 DEF NoDirtyCopy, NoneDirty, IsDirty, Held
    <3>3. QED
      BY <2>3, <3>2 DEF LineSafe, Safe, LineReady
  <2>5. QED
    BY <2>2, <2>4
<1>11. OneSnapshot'
  <2>1. Len(k.data) = 0
    BY <1>7
  <2>2. k.found[1] = mem'[c[0]] /\ k.found[2] = mem'[c[1]]
    BY <1>5, <1>6, <1>7
  <2>3. ASSUME NEW i \in 1 .. Input
        PROVE  mem'[c[i - 1]] = k.found[i] /\ ~(i <= 0)
    <3>1. i \in {1, 2} /\ 1 - 1 = 0 /\ 2 - 1 = 1
      BY DEF Input
    <3>2. QED
      BY <2>2, <3>1
  <2>4. QED
    BY <1>2, <1>7, <2>1, <2>3 DEF OneSnapshot
<1>12. QED
  BY <1>1, <1>4, <1>8, <1>9, <1>10, <1>11 DEF IInv

(* The blocks of a started command, when everything was flushed. *)
LEMMA ReadyWord ==
  ASSUME KernelOK, LinesOK, flushed, kernel.step # "idle", NEW i \in Regs
  PROVE  mem[kernel.cmd[i]] = latest[kernel.cmd[i]]
<1>1. kernel.cmd \in Commands /\ Active
  BY StartedKernel
<1>2. kernel.cmd[i] \in Addrs /\ Line(kernel.cmd[i]) \in Lines
  BY <1>1, CommandWords
<1>3. LineReady(Caches, latest, Line(kernel.cmd[i]))
  BY <1>1, <1>2 DEF LinesOK, LineInv, CmdLines
<1>4. kernel.cmd[i] \in Words(Line(kernel.cmd[i]))
  BY <1>2, LineOf
<1>5. QED
  BY <1>3, <1>4, CachesParts DEF LineReady, Agrees

(* A command that is dropped: its flush finds nothing dirty to write over  *)
(* the blocks of the one under way.                                        *)
LEMMA DroppedGood ==
  ASSUME IInv, NEW c \in Commands, PIMCommandDropped(c)
  PROVE  IInv'
<1> DEFINE k == [kernel EXCEPT !.alone = FALSE]
<1>1. /\ KernelOK /\ StoreOK(Caches) /\ LinesOK /\ latest \in [Addrs -> Vals]
      /\ flushed \in BOOLEAN /\ OneSnapshot /\ pending \in Seq(Commands)
  BY HostParts DEF IInv
<1>2. kernel.step # "idle" /\ Deliver(c) /\ kernel' = k /\ flushed' = flushed
  BY DEF PIMCommandDropped
<1>3. /\ StoreOK(Caches') /\ Keeps(Caches, Caches') /\ latest' = latest
      /\ pending' \in Seq(Commands) /\ Len(pending') = Len(pending) + 1
      /\ \A j \in 1 .. Len(pending) : pending'[j] = pending[j]
      /\ \A b : Registered(pending', b) <=> Registered(pending, b) \/ b \in CmdLines(c)
  BY <1>2, Delivered
<1>4. /\ kernel \in Started /\ Active /\ kernel.cmd \in Commands
      /\ \E j \in 1 .. Len(pending) : pending[j] = kernel.cmd
      /\ IF kernel.step = "read" THEN Len(kernel.data) < 2 ELSE Len(kernel.data) = 2
  BY <1>1, <1>2, StartedKernel
<1>5. /\ k \in Started /\ k.step = kernel.step /\ k.cmd = kernel.cmd
      /\ k.data = kernel.data /\ k.found = kernel.found /\ k.alone = FALSE
  BY <1>4 DEF Started
<1> HIDE DEF k
<1>6. k # NoCommand
  BY <1>2, <1>5 DEF NoCommand
<1>7. KernelOK'
  <2>1. Len(pending) \in Nat
    BY <1>1
  <2>2. \A j \in 1 .. Len(pending) : j \in 1 .. Len(pending')
    BY <1>3, <2>1
  <2>3. \E j \in 1 .. Len(pending') : pending'[j] = k.cmd
    BY <1>3, <1>4, <1>5, <2>2
  <2>4. IF k.step = "read" THEN Len(k.data) < Input ELSE Len(k.data) = Input
    BY <1>4, <1>5 DEF Input
  <2>5. QED
    BY <1>2, <1>3, <1>5, <2>3, <2>4 DEF KernelOK
<1>8. LinesOK'
  <2> SUFFICES ASSUME flushed, NEW b \in Lines
               PROVE  LineInv(Caches, latest, b) => LineInv(Caches, latest, b)'
    BY <1>1, <1>2 DEF LinesOK
  <2>1. /\ LineGood(Caches, latest, b) => LineGood(Caches', latest, b)
        /\ LineSafe(Caches, latest, b) => LineSafe(Caches', latest, b)
        /\ LineReady(Caches, latest, b) => LineReady(Caches', latest, b)
        /\ LineGood(Caches', latest, b) => LineSafe(Caches', latest, b)
    BY <1>3 DEF Keeps, LineGood, Good, LineSafe
  <2>2. QED
    BY <1>2, <1>3, <1>4, <1>5, <1>6, <2>1 DEF LineInv, Active
<1>9. OneSnapshot'
  <2> SUFFICES ASSUME kernel.step \in {"read", "write"}, flushed, NEW i \in 1 .. Input
               PROVE  /\ mem'[kernel.cmd[i - 1]] = kernel.found[i]
                      /\ i <= Len(kernel.data) => kernel.data[i] = kernel.found[i]
    BY <1>2, <1>5 DEF OneSnapshot
  <2>1. /\ mem[kernel.cmd[i - 1]] = kernel.found[i]
        /\ i <= Len(kernel.data) => kernel.data[i] = kernel.found[i]
    BY <1>1 DEF OneSnapshot
  <2>2. i - 1 \in Regs
    <3>1. i - 1 \in {0, 1, 2}
      BY DEF Input
    <3>2. QED
      BY <3>1, Registers
  <2>3. mem[kernel.cmd[i - 1]] = latest[kernel.cmd[i - 1]]
    BY <1>1, <1>2, <2>2, ReadyWord
  <2>4. mem'[kernel.cmd[i - 1]] = latest[kernel.cmd[i - 1]]
    <3>1. kernel.cmd[i - 1] \in Addrs /\ Line(kernel.cmd[i - 1]) \in Lines
      BY <1>4, <2>2, CommandWords
    <3>2. LineReady(Caches, latest, Line(kernel.cmd[i - 1]))
      BY <1>1, <1>4, <2>2, <3>1 DEF LinesOK, LineInv, CmdLines
    <3>3. LineReady(Caches', latest, Line(kernel.cmd[i - 1]))
      BY <1>3, <3>1, <3>2 DEF Keeps
    <3>4. kernel.cmd[i - 1] \in Words(Line(kernel.cmd[i - 1])) /\ Caches'.mem = mem'
      BY <3>1, LineOf DEF Caches
    <3>5. QED
      BY <3>3, <3>4 DEF LineReady, Agrees
  <2>5. QED
    BY <2>1, <2>3, <2>4
<1>10. QED
  BY <1>1, <1>2, <1>3, <1>7, <1>8, <1>9 DEF IInv

LEMMA ReadGood ==
  ASSUME IInv, KernelRead
  PROVE  IInv'
<1> DEFINE d == Append(kernel.data, mem[kernel.cmd[Len(kernel.data)]])
           k == [kernel EXCEPT !.data = d,
                               !.step = IF Len(d) = Input THEN "write" ELSE "read"]
<1>1. /\ KernelOK /\ StoreOK(Caches) /\ LinesOK /\ OneSnapshot
      /\ latest \in [Addrs -> Vals] /\ flushed \in BOOLEAN
      /\ mem \in [Addrs -> Vals] /\ pending \in Seq(Commands)
  BY HostParts DEF IInv
<1>2. /\ kernel.step = "read" /\ kernel' = k
      /\ UNCHANGED <<dcache, l2, dbuffer, l2buffer, mem, pending, latest, flushed>>
  BY DEF KernelRead, buffers
<1>3. /\ kernel \in Started /\ Active
      /\ \E j \in 1 .. Len(pending) : pending[j] = kernel.cmd
      /\ kernel.cmd \in Commands /\ kernel.data \in Seq(Vals)
      /\ Len(kernel.data) < 2
  BY <1>1, <1>2, StartedKernel
<1>4. PICK n \in {0, 1} : n = Len(kernel.data)
  <2>1. Len(kernel.data) \in Nat
    BY <1>3
  <2>2. \A n \in Nat : n < 2 => n \in {0, 1}
    OBVIOUS
  <2>3. Len(kernel.data) \in {0, 1}
    BY <1>3, <2>1, <2>2, Zenon
  <2>4. QED
    BY <2>3
<1>5. n \in Regs /\ kernel.cmd[n] \in Addrs /\ mem[kernel.cmd[n]] \in Vals
  BY <1>1, <1>3, Registers, CommandWords
<1>6. /\ d \in Seq(Vals) /\ Len(d) = n + 1 /\ d[n + 1] = mem[kernel.cmd[n]]
      /\ \A i \in 1 .. n : d[i] = kernel.data[i]
  BY <1>3, <1>4, <1>5
<1> HIDE DEF d
<1>7. /\ k \in Started /\ k.cmd = kernel.cmd /\ k.data = d
      /\ k.found = kernel.found /\ k.alone = kernel.alone
      /\ k.step = IF Len(d) = 2 THEN "write" ELSE "read"
  BY <1>3, <1>6 DEF Started, Input
<1> HIDE DEF k
<1>8. k # NoCommand
  BY <1>7 DEF NoCommand
<1>9. KernelOK'
  <2>1. IF k.step = "read" THEN Len(k.data) < Input ELSE Len(k.data) = Input
    <3>1. CASE n = 0
      <4>1. Len(d) = 1
        BY <1>6, <3>1
      <4>2. k.step = "read"
        BY <1>7, <4>1
      <4>3. QED
        BY <1>7, <4>1, <4>2 DEF Input
    <3>2. CASE n = 1
      <4>1. Len(d) = 2
        BY <1>6, <3>2
      <4>2. k.step = "write"
        BY <1>7, <4>1
      <4>3. QED
        BY <1>7, <4>1, <4>2 DEF Input
    <3>3. QED
      BY <3>1, <3>2
  <2>2. QED
    BY <1>1, <1>2, <1>3, <1>7, <2>1 DEF KernelOK
<1>10. Caches' = Caches
  BY <1>2 DEF Caches
<1>11. LinesOK'
  BY <1>1, <1>2, <1>3, <1>7, <1>8, <1>10 DEF LinesOK, LineInv, Active
<1>12. OneSnapshot'
  <2> SUFFICES ASSUME flushed \/ kernel.alone, NEW i \in 1 .. Input
               PROVE  /\ mem[kernel.cmd[i - 1]] = kernel.found[i]
                      /\ i <= n + 1 => d[i] = kernel.found[i]
    BY <1>2, <1>6, <1>7 DEF OneSnapshot
  <2>1. /\ mem[kernel.cmd[i - 1]] = kernel.found[i]
        /\ i <= Len(kernel.data) => kernel.data[i] = kernel.found[i]
    BY <1>1, <1>2 DEF OneSnapshot
  <2>2. CASE i = n + 1
    <3>1. i - 1 = n
      BY <1>4, <2>2
    <3>2. QED
      BY <1>6, <2>1, <2>2, <3>1
  <2>3. CASE i # n + 1
    <3>1. ASSUME i <= n + 1 PROVE i \in 1 .. n /\ i <= Len(kernel.data)
      BY <1>4, <2>3, <3>1 DEF Input
    <3>2. QED
      BY <1>6, <2>1, <3>1
  <2>4. QED
    BY <2>2, <2>3
<1>13. QED
  BY <1>1, <1>2, <1>9, <1>10, <1>11, <1>12 DEF IInv

(* The kernel computes from what it has read what the program expects. *)
LEMMA WriteGood ==
  ASSUME IInv, KernelWrite
  PROVE  IInv'
<1> DEFINE c == kernel.cmd
           x == doCompute(kernel.data[1], kernel.data[2])
           y == doCompute(latest[c[0]], latest[c[1]])
           k == [kernel EXCEPT !.step = "finish"]
<1>1. /\ KernelOK /\ StoreOK(Caches) /\ LinesOK /\ OneSnapshot
      /\ latest \in [Addrs -> Vals] /\ flushed \in BOOLEAN
      /\ mem \in [Addrs -> Vals] /\ pending \in Seq(Commands)
  BY HostParts DEF IInv
<1>2. /\ kernel.step = "write" /\ kernel' = k
      /\ mem' = [mem EXCEPT ![c[2]] = x] /\ latest' = [latest EXCEPT ![c[2]] = y]
      /\ UNCHANGED <<dcache, l2, dbuffer, l2buffer, pending, flushed>>
  BY DEF KernelWrite, buffers
<1>3. /\ kernel \in Started /\ Active
      /\ \E j \in 1 .. Len(pending) : pending[j] = kernel.cmd
      /\ c \in Commands /\ kernel.data \in Seq(Vals) /\ Len(kernel.data) = 2
  BY <1>1, <1>2, StartedKernel
<1>4. c[0] \in Addrs /\ c[1] \in Addrs /\ c[2] \in Addrs /\ Line(c[2]) \in Lines
  BY <1>3, Registers, CommandWords
<1>5. x \in Vals /\ y \in Vals
  <2>1. \A i, j \in Vals : doCompute(i, j) \in Vals
    <3> SUFFICES ASSUME NEW i \in Vals, NEW j \in Vals PROVE doCompute(i, j) \in Vals
      OBVIOUS
    <3>1. i \in Nat /\ j \in Nat /\ WordSize \in Nat \ {0}
      BY CoherenceAssumption DEF Vals
    <3>2. (i + j) % WordSize \in 0 .. WordSize - 1
      BY <3>1
    <3>3. QED
      BY <3>2 DEF doCompute, Vals
  <2>2. /\ kernel.data[1] \in Vals /\ kernel.data[2] \in Vals
        /\ latest[c[0]] \in Vals /\ latest[c[1]] \in Vals
    BY <1>1, <1>3, <1>4
  <2>3. QED
    BY <2>1, <2>2
<1>6. flushed => x = y
  <2> SUFFICES ASSUME flushed
               PROVE  kernel.data[1] = latest[c[0]] /\ kernel.data[2] = latest[c[1]]
    OBVIOUS
  <2>1. 1 \in 1 .. Input /\ 2 \in 1 .. Input /\ 1 <= 2 /\ 2 <= 2 /\ 1 - 1 = 0 /\ 2 - 1 = 1
    BY DEF Input
  <2>2. /\ mem[c[0]] = kernel.found[1] /\ kernel.data[1] = kernel.found[1]
        /\ mem[c[1]] = kernel.found[2] /\ kernel.data[2] = kernel.found[2]
    BY <1>1, <1>2, <1>3, <2>1 DEF OneSnapshot
  <2>3. mem[c[0]] = latest[c[0]] /\ mem[c[1]] = latest[c[1]]
    BY <1>1, <1>2, Registers, ReadyWord
  <2>4. QED
    BY <2>2, <2>3
<1> HIDE DEF x, y
<1>7. /\ mem' \in [Addrs -> Vals] /\ latest' \in [Addrs -> Vals]
      /\ mem'[c[2]] = x /\ latest'[c[2]] = y
      /\ \A a \in Addrs : a # c[2] => mem'[a] = mem[a] /\ latest'[a] = latest[a]
  BY <1>1, <1>2, <1>4, <1>5
<1>8. k \in Started /\ k.cmd = c /\ k.data = kernel.data /\ k.step = "finish"
  BY <1>3 DEF Started
<1> HIDE DEF k
<1>9. k # NoCommand
  BY <1>8 DEF NoCommand
<1>10. KernelOK'
  <2>1. Len(k.data) = Input
    BY <1>3, <1>8 DEF Input
  <2>2. QED
    BY <1>1, <1>2, <1>3, <1>8, <2>1 DEF KernelOK
<1>11. /\ Caches'.mem = mem' /\ \A b : SameEntries(Caches, Caches', b)
       /\ StoreOK(Caches')
  <2>1. /\ Caches'.dcache = dcache /\ Caches'.dbuffer = dbuffer
        /\ Caches'.l2 = l2 /\ Caches'.l2buffer = l2buffer /\ Caches'.mem = mem'
    BY <1>2 DEF Caches
  <2>2. \A b : SameEntries(Caches, Caches', b)
    BY <2>1, CachesParts DEF SameEntries
  <2>3. Caches' \in Stores
    <3>1. /\ dcache \in [Lines -> Entries] /\ dbuffer \in [Lines -> Entries]
          /\ l2 \in [Lines -> Entries] /\ l2buffer \in [Lines -> Entries]
      BY HostParts
    <3>2. QED
      BY <1>2, <1>7, <3>1 DEF Caches, Stores
  <2>4. \A b \in Lines : LineOK(Caches', b)
    BY <2>1, HostParts DEF LineOK
  <2>5. QED
    BY <2>1, <2>2, <2>3, <2>4 DEF StoreOK
<1>12. LinesOK'
  <2> SUFFICES ASSUME flushed, NEW b \in Lines
               PROVE  LineInv(Caches, latest, b) => LineInv(Caches, latest, b)'
    BY <1>1, <1>2 DEF LinesOK
  <2>1. CASE b \in CmdLines(c)
    <3>1. LineReady(Caches, latest, b) => LineReady(Caches', latest', b)
      <4>1. Agrees(mem, latest, b) => Agrees(mem', latest', b)
        BY <1>6, <1>7 DEF Agrees, Words
      <4>2. SameEntries(Caches, Caches', b) /\ Caches.mem = mem /\ Caches'.mem = mem'
        BY <1>11, CachesParts
      <4>3. QED
        BY <4>1, <4>2 DEF LineReady, SameEntries
    <3>2. QED
      BY <1>2, <1>3, <1>8, <1>9, <2>1, <3>1 DEF LineInv, Active
  <2>2. CASE b \notin CmdLines(c)
    <3>1. \A a \in Addrs : Line(a) = b => a # c[2]
      BY <2>2, Registers DEF CmdLines
    <3>2. SameLine(Caches, Caches', b) /\ SameWords(latest, latest', b)
      BY <1>7, <1>11, <3>1, CachesParts DEF SameLine, SameWords, Words
    <3>3. /\ LineGood(Caches, latest, b) => LineGood(Caches', latest', b)
          /\ LineSafe(Caches, latest, b) => LineSafe(Caches', latest', b)
      BY <3>2, Local
    <3>4. QED
      BY <1>2, <1>3, <1>8, <1>9, <2>2, <3>3 DEF LineInv, Active
  <2>3. QED
    BY <2>1, <2>2
<1>13. OneSnapshot'
  BY <1>2, <1>8 DEF OneSnapshot
<1>14. QED
  BY <1>1, <1>2, <1>7, <1>10, <1>11, <1>12, <1>13 DEF IInv

(* The entry that a completion erases; all others stay. *)
LEMMA Matched ==
  ASSUME NEW q \in Seq(Commands), NEW c, \E j \in 1 .. Len(q) : q[j] = c
  PROVE  FirstMatch(q, c) \in 1 .. Len(q)
<1> DEFINE T == {m \in 1 .. Len(q) : SameCommand(q[m], c)}
<1>1. T \subseteq Nat /\ T # {}
  BY DEF SameCommand
<1>2. \E x \in T : \A y \in T : ~ (<<y, x>> \in OpToRel(<, Nat))
  BY <1>1, NatLessThanWellFounded, WFMin
<1>3. \E x \in T : \A y \in T : ~ (y < x)
  BY <1>1, <1>2 DEF OpToRel
<1>4. QED
  BY <1>3 DEF FirstMatch

LEMMA Erased ==
  ASSUME NEW q \in Seq(Commands), NEW c, FirstMatch(q, c) \in 1 .. Len(q)
  PROVE  LET r == Complete(q, c)
             e == q[FirstMatch(q, c)]
         IN  /\ r \in Seq(Commands) /\ e \in Commands
             /\ \A b : Registered(r, b) => Registered(q, b)
             /\ \A b : Registered(q, b) => Registered(r, b) \/ b \in CmdLines(e)
<1> DEFINE k == FirstMatch(q, c)
           r == Complete(q, c)
<1>1. k \in 1 .. Len(q) /\ r = SubSeq(q, 1, k - 1) \o SubSeq(q, k + 1, Len(q))
  BY DEF Complete
<1> HIDE DEF k, r
<1>2. Len(q) \in Nat /\ k \in Nat /\ 1 <= k /\ k <= Len(q)
  BY <1>1
<1>3. /\ r \in Seq(Commands) /\ Len(r) = Len(q) - 1
      /\ \A j \in 1 .. Len(r) : r[j] = IF j < k THEN q[j] ELSE q[j + 1]
  <2> DEFINE p == SubSeq(q, 1, k - 1)
             s == SubSeq(q, k + 1, Len(q))
  <2>1. /\ p \in Seq(Commands) /\ Len(p) = k - 1
        /\ \A j \in 1 .. k - 1 : p[j] = q[j]
    BY <1>2
  <2>2. /\ s \in Seq(Commands) /\ Len(s) = Len(q) - k
        /\ \A j \in 1 .. Len(q) - k : s[j] = q[k + j]
    BY <1>2
  <2>3. r = p \o s
    BY <1>1
  <2> HIDE DEF p, s
  <2>4. /\ r \in Seq(Commands) /\ Len(r) = Len(p) + Len(s)
        /\ \A j \in 1 .. Len(p) + Len(s) : r[j] = IF j <= Len(p) THEN p[j] ELSE s[j - Len(p)]
    <3>1. p \in Seq(Commands) /\ s \in Seq(Commands)
      BY <2>1, <2>2
    <3>2. QED
      BY <2>3, <3>1, ConcatProperties
  <2>5. Len(r) = Len(q) - 1
    BY <1>2, <2>1, <2>2, <2>4
  <2>6. ASSUME NEW j \in 1 .. Len(r), j < k PROVE r[j] = q[j]
    <3>1. j \in 1 .. k - 1
      BY <1>2, <2>5, <2>6
    <3>2. r[j] = p[j]
      BY <1>2, <2>1, <2>4, <2>5, <3>1
    <3>3. QED
      BY <2>1, <3>1, <3>2
  <2>7. ASSUME NEW j \in 1 .. Len(r), ~(j < k) PROVE r[j] = q[j + 1]
    <3>1. /\ j - (k - 1) \in 1 .. Len(q) - k /\ k + (j - (k - 1)) = j + 1
          /\ j > k - 1 /\ j \in 1 .. Len(p) + Len(s)
      BY <1>2, <2>1, <2>2, <2>5, <2>7
    <3>2. r[j] = s[j - (k - 1)]
      BY <1>2, <2>1, <2>4, <3>1
    <3>3. QED
      BY <2>2, <3>1, <3>2
  <2>8. QED
    BY <2>4, <2>5, <2>6, <2>7
<1>4. ASSUME NEW j \in 1 .. Len(r) PROVE \E i \in 1 .. Len(q) : r[j] = q[i]
  <2>1. j \in 1 .. Len(q) /\ j + 1 \in 1 .. Len(q)
    BY <1>2, <1>3
  <2>2. QED
    BY <1>3, <2>1
<1>5. ASSUME NEW i \in 1 .. Len(q), i # k PROVE \E j \in 1 .. Len(r) : r[j] = q[i]
  <2>1. ASSUME i < k PROVE \E j \in 1 .. Len(r) : r[j] = q[i]
    <3>1. i \in 1 .. Len(r)
      BY <1>2, <1>3, <2>1
    <3>2. QED
      BY <1>3, <2>1, <3>1
  <2>2. ASSUME i > k PROVE \E j \in 1 .. Len(r) : r[j] = q[i]
    <3>1. i - 1 \in 1 .. Len(r) /\ ~(i - 1 < k) /\ (i - 1) + 1 = i
      BY <1>2, <1>3, <2>2
    <3>2. r[i - 1] = q[i]
      BY <1>3, <3>1
    <3>3. QED
      BY <3>1, <3>2
  <2>3. i < k \/ i > k
    BY <1>2, <1>5
  <2>4. QED
    BY <2>1, <2>2, <2>3
<1>6. q[k] \in Commands
  BY <1>1
<1>7. \A b : Registered(r, b) => Registered(q, b)
  BY <1>4 DEF Registered
<1>8. \A b : Registered(q, b) => Registered(r, b) \/ b \in CmdLines(q[k])
  BY <1>5 DEF Registered
<1>9. QED
  BY <1>3, <1>6, <1>7, <1>8 DEF k, r

(* The completion: the blocks of the erased entry leave the caches, and    *)
(* their last values are in the memory or on the way to it.                *)
LEMMA FinishGood ==
  ASSUME IInv, KernelFinish
  PROVE  IInv'
<1> DEFINE c == kernel.cmd
           e == pending[FirstMatch(pending, c)]
           r == FlushAfter(e)
<1>1. /\ KernelOK /\ StoreOK(Caches) /\ LinesOK
      /\ latest \in [Addrs -> Vals] /\ flushed \in BOOLEAN /\ pending \in Seq(Commands)
  BY HostParts
<1>2. /\ kernel.step = "finish" /\ Becomes(r) /\ kernel' = NoCommand
      /\ pending' = Complete(pending, c) /\ UNCHANGED <<latest, flushed>>
  BY DEF KernelFinish
<1>3. \E k \in 1 .. Len(pending) : pending[k] = c
  BY <1>1, <1>2, StartedKernel
<1>4. FirstMatch(pending, c) \in 1 .. Len(pending)
  BY <1>1, <1>3, Matched
<1>5. /\ pending' \in Seq(Commands) /\ e \in Commands
      /\ \A b : Registered(pending', b) => Registered(pending, b)
      /\ \A b : Registered(pending, b) => Registered(pending', b) \/ b \in CmdLines(e)
  BY <1>1, <1>2, <1>4, Erased
<1> HIDE DEF e
<1>6. /\ StoreOK(r) /\ Keeps(Caches, r)
      /\ \A b \in CmdLines(e) : r.dcache[b] = Absent /\ r.l2[b] = Absent
  BY <1>1, <1>5, FlushedAfter
<1> HIDE DEF r
<1>7. Caches' = r
  BY <1>2, <1>6, BecomesStore
<1>8. KernelOK'
  BY <1>2, <1>5 DEF KernelOK
<1>9. LinesOK'
  <2> SUFFICES ASSUME flushed, NEW b \in Lines
               PROVE  /\ Registered(pending', b) => LineSafe(r, latest, b)
                      /\ ~Registered(pending', b) => LineGood(r, latest, b)
    BY <1>2, <1>7 DEF LinesOK, LineInv, Active
  <2>1. LineInv(Caches, latest, b)
    BY <1>1 DEF LinesOK
  <2>2. LineSafe(Caches, latest, b)
    BY <2>1 DEF LineInv, LineReady, LineSafe, LineGood, Good, Safe, NoneDirty
  <2>3. LineSafe(r, latest, b)
    BY <1>6, <2>2 DEF Keeps
  <2>4. ASSUME ~Registered(pending', b), b \in CmdLines(e)
        PROVE  LineGood(r, latest, b)
    <3>1. Absent.state = "absent"
      BY AbsentEntry
    <3>2. r.dcache[b] = Absent /\ r.l2[b] = Absent
      BY <1>6, <2>4
    <3>3. QED
      BY <2>3, <3>1, <3>2 DEF LineSafe, LineGood, Good
  <2>5. ASSUME ~Registered(pending', b), b \notin CmdLines(e)
        PROVE  LineGood(r, latest, b)
    <3>1. ~Registered(pending, b)
      BY <1>5, <2>5
    <3>2. LineGood(Caches, latest, b)
      BY <1>1, <2>1, <3>1, ActiveRegistered DEF LineInv
    <3>3. QED
      BY <1>6, <3>2 DEF Keeps
  <2>6. QED
    BY <2>3, <2>4, <2>5
<1>10. OneSnapshot'
  BY <1>2 DEF OneSnapshot, NoCommand
<1>11. QED
  BY <1>1, <1>2, <1>6, <1>7, <1>8, <1>9, <1>10 DEF IInv

-----------------------------------------------------------------------------
(* The invariant is inductive. *)
LEMMA InitGood == Init => IInv
<1> SUFFICES ASSUME Init PROVE IInv
  OBVIOUS
<1>1. /\ mem \in [Addrs -> Vals] /\ latest = mem /\ flushed = TRUE
      /\ kernel = NoCommand /\ pending = << >>
      /\ \A b \in Lines : /\ dcache[b] = Absent /\ dbuffer[b] = Absent
                          /\ l2[b] = Absent /\ l2buffer[b] = Absent
  BY DEF Init
<1>2. \A b \in Lines : Absent \in EntryOf(b) /\ Absent \in BufferOf(b) /\ Absent \in Entries
  BY AbsentEntry, AbsentBuffer, EntryShape
<1>3. Absent.state = "absent"
  BY AbsentEntry
<1>4. /\ dcache \in [Lines -> Entries] /\ dbuffer \in [Lines -> Entries]
      /\ l2 \in [Lines -> Entries] /\ l2buffer \in [Lines -> Entries]
  BY <1>2 DEF Init
<1>5. StoreOK(Caches)
  <2>1. Caches \in Stores
    BY <1>1, <1>4 DEF Caches, Stores
  <2>2. QED
    BY <1>1, <1>2, <1>3, <2>1, CachesParts DEF StoreOK, LineOK, EntriesOK
<1>6. ASSUME NEW b \in Lines PROVE LineInv(Caches, latest, b)
  <2>1. ~Active /\ ~Registered(pending, b)
    BY <1>1 DEF Active, Registered
  <2>2. LineGood(Caches, latest, b)
    BY <1>1, <1>3, CachesParts DEF LineGood, Good, Safe, Agrees
  <2>3. QED
    BY <2>1, <2>2 DEF LineInv
<1>7. OneSnapshot
  BY <1>1 DEF OneSnapshot, NoCommand
<1>8. KernelOK
  BY <1>1 DEF KernelOK
<1>9. QED
  BY <1>1, <1>5, <1>6, <1>7, <1>8 DEF IInv, LinesOK

LEMMA Inductive == IInv /\ [Next]_vars => IInv'
<1> SUFFICES ASSUME IInv, [Next]_vars PROVE IInv'
  OBVIOUS
<1>1. ASSUME NEW a \in Addrs, HostLoad(a) PROVE IInv'
  BY <1>1, LoadGood
<1>2. ASSUME NEW a \in Addrs, NEW v \in Vals, HostStore(a, v) PROVE IInv'
  BY <1>2, StoreGood
<1>3. ASSUME NEW b \in Lines, EvictL1(b) PROVE IInv'
  BY <1>3, EvictL1Good
<1>4. ASSUME NEW b \in Lines, SendL1(b) PROVE IInv'
  BY <1>4, SendL1Good
<1>5. ASSUME NEW b \in Lines, EvictL2(b) PROVE IInv'
  BY <1>5, EvictL2Good
<1>6. ASSUME NEW b \in Lines, SendL2(b) PROVE IInv'
  BY <1>6, SendL2Good
<1>7. ASSUME NEW c \in Commands, PIMCommand(c) PROVE IInv'
  BY <1>7, CommandGood
<1>8. ASSUME NEW c \in Commands, PIMCommandDropped(c) PROVE IInv'
  BY <1>8, DroppedGood
<1>9. CASE KernelRead
  BY <1>9, ReadGood
<1>10. CASE KernelWrite
  BY <1>10, WriteGood
<1>11. CASE KernelFinish
  BY <1>11, FinishGood
<1>12. CASE UNCHANGED vars
  <2>1. Caches' = Caches
    BY <1>12 DEF vars, buffers, Caches
  <2>2. QED
    BY <1>12, <2>1
       DEF vars, buffers, IInv, KernelOK, LinesOK, LineInv, OneSnapshot, Active
<1>13. QED
  BY <1>1, <1>2, <1>3, <1>4, <1>5, <1>6, <1>7, <1>8, <1>9, <1>10, <1>11, <1>12 DEF Next

LEMMA Invariance == Spec => []IInv
  BY InitGood, Inductive, PTL DEF Spec

-----------------------------------------------------------------------------
(* The caches and buffers hold blocks of the memory's words, and never is  *)
(* there a dirty copy below another copy: a miss takes the ownership over  *)
(* from the level below and does not overtake a write-back.                *)
THEOREM Typed == Spec => []TypeOK
<1>1. IInv => TypeOK
  <2> SUFFICES ASSUME IInv PROVE TypeOK
    OBVIOUS
  <2>1. kernel.step \in {"idle", "read", "write", "finish"}
    BY DEF IInv, KernelOK, NoCommand, Started
  <2>2. QED
    BY <2>1, HostParts DEF TypeOK, EntriesOK, Held, IsDirty
<1>2. QED
  BY <1>1, Invariance, PTL

(* When no command so far has started with a dirty copy of its blocks left *)
(* by the loop of PIMCommand(), the kernel reads what the program last     *)
(* stored.                                                                 *)
THEOREM OperandsFlushed == Spec => []FlushedOperandsInMemory
<1>1. IInv => FlushedOperandsInMemory
  <2> SUFFICES ASSUME IInv, flushed, kernel.step = "read",
                      NEW i \in Len(kernel.data) .. Input - 1
               PROVE  mem[kernel.cmd[i]] = latest[kernel.cmd[i]]
    BY DEF FlushedOperandsInMemory, OperandsInMemory
  <2>1. KernelOK /\ LinesOK
    BY DEF IInv
  <2>2. kernel.data \in Seq(Vals)
    BY <2>1, StartedKernel
  <2>3. Len(kernel.data) \in Nat
    BY <2>2
  <2>4. i \in Regs
    BY <2>3, Registers DEF Input
  <2>5. QED
    BY <2>1, <2>4, ReadyWord
<1>2. QED
  BY <1>1, Invariance, PTL

(* And an access of the host that is not held back sees the last value     *)
(* that the host stored or a command computed.                             *)
THEOREM Coherent == Spec => []HostCoherent
<1>1. IInv => HostCoherent
  <2> SUFFICES ASSUME IInv, flushed, NEW a \in Addrs, ~StalledAddr(pending, a)
               PROVE  HostView(a) = latest[a]
    BY DEF HostCoherent
  <2> DEFINE b == Line(a)
             e == dcache[b]
             g == dbuffer[b]
             f == l2[b]
             h == l2buffer[b]
             m == Clean(Block(mem, b))
  <2>1. /\ KernelOK /\ LinesOK /\ pending \in Seq(Commands) /\ mem \in [Addrs -> Vals]
    BY HostParts
  <2>2. b \in Lines /\ a \in Words(b)
    BY LineOf
  <2>3. ~Registered(pending, b)
    BY <2>1, NotStalled
  <2>4. Good(e, g, f, h, mem, latest, b)
    <3>1. LineGood(Caches, latest, b)
      BY <2>1, <2>2, <2>3, ActiveRegistered DEF LinesOK, LineInv
    <3>2. QED
      BY <3>1, CachesParts DEF LineGood
  <2>5. EntriesOK(e, g, f, h, b)
    BY <2>2, HostParts
  <2>6. HostView(a) = Above(e, Above(g, Above(f, Above(h, m)))).data[a]
    BY DEF HostView
  <2>7. /\ Block(mem, b) \in [Words(b) -> Vals] /\ Agrees(Block(mem, b), mem, b)
    BY <2>1, BlockRead
  <2>8. m.data = Block(mem, b)
    BY <2>7, EntryMade
  <2> HIDE DEF b, e, g, f, h, m
  <2>9. /\ e.state \in {"absent", "clean", "dirty"} /\ f.state \in {"absent", "clean", "dirty"}
        /\ g.state \in {"absent", "dirty"} /\ h.state \in {"absent", "dirty"}
    BY <2>2, <2>5, EntryShape, BufferEntry DEF EntriesOK
  <2>10. Agrees(Above(e, Above(g, Above(f, Above(h, m)))).data, latest, b)
    <3>1. NoneDirty(e, g, f, h) => Agrees(m.data, latest, b)
      BY <2>4, <2>7, <2>8 DEF Good, Safe, Agrees
    <3>2. CASE e.state # "absent"
      BY <2>4, <2>9, <3>2 DEF Good, Safe, Above
    <3>3. CASE e.state = "absent" /\ g.state # "absent"
      BY <2>4, <2>9, <3>3 DEF Good, Safe, Above
    <3>4. CASE e.state = "absent" /\ g.state = "absent" /\ f.state # "absent"
      BY <2>4, <2>9, <3>4 DEF Good, Safe, Above
    <3>5. CASE e.state = "absent" /\ g.state = "absent" /\ f.state = "absent"
      BY <2>4, <2>9, <3>1, <3>5 DEF Good, Safe, Above, NoneDirty
    <3>6. QED
      BY <3>2, <3>3, <3>4, <3>5
  <2>11. QED
    BY <2>2, <2>6, <2>10 DEF Agrees
<1>2. QED
  BY <1>1, Invariance, PTL

(* Whether or not the flushes found the dirty copies: what the kernel      *)
(* reads is what the memory held when its command had been registered,     *)
(* with write-backs under way in the buffers of both caches.               *)
THEOREM Snapshot == Spec => []OneSnapshot
<1>1. IInv => OneSnapshot
  BY DEF IInv
<1>2. QED
  BY <1>1, Invariance, PTL
==============================================================================
