--------------------------- MODULE FastProcProofs ---------------------------
(***************************************************************************)
(* Proofs about FastProc, for every trace and every size of the window,    *)
(* the MSHR, the caches and the queues.                                    *)
(***************************************************************************)
EXTENDS FastProc, FastQueuesProofs

Left    == [refused : 0 .. MaxRefused, idle : 0 .. MaxIdle]
Outcome == [s : Processor, mem : Seq(MemReq), left : Left]

(* IsMem() of a trace t. *)
MemIn(t, i) == i # NOP /\ t[i].type # "CALCULATION"

(* The limits of the processor's structures. *)
Sizes(s) ==
  /\ Len(s.window) <= WindowSize + 1
  /\ IsFiniteSet(s.mshr) /\ Cardinality(s.mshr) <= MshrSize + 1
  /\ Len(s.l1) <= L1Assoc /\ Len(s.llc) <= LlcAssoc

(* Block b is on its way with a request that no answer to another block    *)
(* can absorb, or to L1.  Write-backs do not count: they all carry address *)
(* 0 and are absorbed by each other.                                       *)
Coming(q, m, b) ==
  \/ \E k \in DOMAIN m : m[k].addr # 0 /\ m[k].block = b
  \/ \E k \in DOMAIN q : q[k].block = b

(* Requests with one address ask for one block. *)
Asked(table, m) ==
  \A k \in DOMAIN m :
    m[k].addr # 0 => m[k].addr \in DOMAIN table /\ m[k].block = table[m[k].addr]

(* What waits in the window and in the MSHR. *)
Waits(w, mshr, q, m) ==
  \A k \in DOMAIN w : (~w[k].ready /\ w[k].via = "served") =>
    Coming(q, m, w[k].block) /\ \E e \in mshr : e.block = w[k].block
Entries(mshr, flaws, q, m) ==
  \A e \in mshr : Coming(q, m, e.block) \/ "retry" \in flaws

(* What holds wherever the processor is in its step. *)
Sound(s, m, f) ==
  /\ s \in Processor /\ m \in Seq(MemReq)
  /\ s.next \in 1 .. f + 1
  /\ Sizes(s)
  /\ Asked(s.table, m)
  /\ Waits(s.window, s.mshr, s.cacheQ, m)
  /\ Entries(s.mshr, s.flaws, s.cacheQ, m)

(* The current instruction is the one before the next, its page is in the  *)
(* table, and only a memory instruction is retried.                        *)
Where(s, t) ==
  /\ s.curr = NOP \/ s.curr = s.next - 1
  /\ MemIn(t, s.curr) => t[s.curr].addr \in DOMAIN s.table
  /\ s.retry # "no" => MemIn(t, s.curr) /\ "retry" \in s.flaws

(* Until the first flaw, the n first instructions were taken over. *)
Count(s, n) == s.flaws = {} => s.done = [k \in 1 .. n |-> k]

(* The state of the processor between two steps. *)
Holds(s, m, t, f) ==
  /\ Sound(s, m, f)
  /\ Where(s, t)
  /\ s.fresh => s.curr = NOP
  /\ Len(s.cacheQ) <= 1
  /\ Count(s, s.next - IF s.curr = NOP THEN 1 ELSE 2)

(* The trace and the part of it that was read. *)
Context(t, i) == t \in Traces /\ i \in [fetched : 0 .. Len(t), eof : BOOLEAN]

IInv ==
  /\ phase \in {"insp", "memory", "proc", "stopped", "hung", "threw"}
  /\ Context(trace, insp)
  /\ left \in Left
  /\ Holds(proc, mem, trace, insp.fetched)
  /\ insp.eof => insp.fetched = Len(trace)
  /\ phase = "stopped" => Done(proc, mem)

-----------------------------------------------------------------------------
(* Page table, caches, window and MSHR.                                    *)

LEMMA Constants ==
  /\ MaxAddr \in Nat \ {0} /\ Stride \in Nat \ {0}
  /\ Traces \subseteq Seq(Instruction)
  /\ WindowSize \in Nat /\ MshrSize \in Nat /\ WriteBackSize \in Nat
  /\ L1Assoc \in Nat \ {0} /\ LlcAssoc \in Nat \ {0} /\ InspQueueMax \in Nat \ {0}
  /\ MaxRefused \in Nat /\ MaxIdle \in Nat
BY FastProcAssumption

(* An address has a frame of its group. *)
LEMMA Frame ==
  ASSUME NEW a \in 1 .. MaxAddr, NEW c \in Nat
  PROVE  ((a \div Stride) * Stride) + (c % Stride) \in Blocks
<1>1. /\ Stride \in Nat /\ Stride # 0 /\ MaxAddr \in Nat
      /\ a \in Nat /\ a <= MaxAddr
  BY Constants
<1>2. PICK r \in Int : r = c % Stride
  BY <1>1
<1>3. 0 <= r /\ r < Stride
  BY <1>1, <1>2
<1>4. PICK g \in Int : g = (a \div Stride) * Stride
  BY <1>1
<1>5. 0 <= g /\ g <= a
  <2>1. PICK q \in Int : q = a \div Stride
    BY <1>1
  <2>2. a = Stride * q + (a % Stride) /\ a % Stride \in Int
        /\ 0 <= a % Stride /\ a % Stride < Stride
    BY <1>1, <2>1
  <2>3. Stride * q = q * Stride
    BY <1>1, <2>1
  <2>4. 0 <= q
    BY <1>1, <2>1
  <2>5. 0 <= q * Stride
    BY <1>1, <2>4
  <2>6. QED
    BY <1>1, <1>4, <2>1, <2>2, <2>3, <2>5
<1>6. QED
  BY <1>1, <1>2, <1>3, <1>4, <1>5 DEF Blocks

(* scan_page() maps the page and changes no other. *)
LEMMA Scanned ==
  ASSUME NEW table \in Tables, NEW a \in 1 .. MaxAddr
  PROVE  /\ scan_page(table, a) \in Tables
         /\ a \in DOMAIN scan_page(table, a)
         /\ \A x \in DOMAIN table : /\ x \in DOMAIN scan_page(table, a)
                                    /\ scan_page(table, a)[x] = table[x]
<1>1. PICK D \in SUBSET (1 .. MaxAddr) : table \in [D -> Blocks]
  BY DEF Tables
<1>2. DOMAIN table = D
  BY <1>1
<1>3. CASE a \in D
  <2>1. scan_page(table, a) = table
    BY <1>2, <1>3 DEF scan_page
  <2>2. QED
    BY <1>2, <1>3, <2>1
<1>4. CASE a \notin D
  <2>1. Cardinality(D) \in Nat
    <3>1. MaxAddr \in Nat
      BY Constants
    <3>2. QED
      BY <3>1, Ranks
  <2>2. PICK b \in Blocks : b = ((a \div Stride) * Stride) + (Cardinality(D) % Stride)
    BY <2>1, Frame
  <2>3. scan_page(table, a) = [x \in D \cup {a} |-> IF x = a THEN b ELSE table[x]]
    BY <1>2, <1>4, <2>2 DEF scan_page
  <2>4. scan_page(table, a) \in [D \cup {a} -> Blocks]
    BY <1>1, <2>3
  <2>5. D \cup {a} \in SUBSET (1 .. MaxAddr)
    OBVIOUS
  <2>6. scan_page(table, a) \in Tables
    BY <2>4, <2>5 DEF Tables
  <2>7. QED
    BY <1>2, <1>4, <2>3, <2>6
<1>5. QED
  BY <1>3, <1>4

LEMMA FramedIn ==
  ASSUME NEW table \in Tables, NEW a \in DOMAIN table
  PROVE  table[a] \in Blocks
BY DEF Tables

(* A queue that loses an entry is shorter. *)
LEMMA PickedFewer ==
  ASSUME NEW S, NEW q \in Seq(S), NEW K \in SUBSET (DOMAIN q), NEW k \in DOMAIN q, k \notin K
  PROVE  Len(Pick(q, K)) + 1 <= Len(q)
<1>1. PICK N \in Nat : N = Len(q) /\ DOMAIN q = 1 .. N
  OBVIOUS
<1>2. IsFiniteSet(1 .. N) /\ Cardinality(1 .. N) = N
  <2>1. 1 \in Int /\ N \in Int
    OBVIOUS
  <2>2. QED
    BY <2>1, FS_Interval
<1>3. IsFiniteSet(K) /\ Cardinality(K) \in Nat
  BY <1>1, Ranks
<1>4. K # 1 .. N /\ K \in SUBSET (1 .. N)
  BY <1>1
<1>5. Cardinality(K) <= N /\ Cardinality(K) # N
  BY <1>2, <1>4, FS_Subset
<1>6. PICK c \in Nat : c = Cardinality(K)
  BY <1>3
<1>7. \A n \in 1 .. c : (CHOOSE j \in K : Rank(K, j) = n) \in K
  BY <1>1, <1>6, Ranks
<1>8. \A n \in 1 .. c : q[CHOOSE j \in K : Rank(K, j) = n] \in S
  BY <1>7
<1>9. Len(Pick(q, K)) = c
  <2> DEFINE e(n) == q[CHOOSE j \in K : Rank(K, j) = n]
  <2>1. Pick(q, K) = [n \in 1 .. c |-> e(n)]
    BY <1>6 DEF Pick
  <2> HIDE DEF e
  <2>2. QED
    BY <1>6, <2>1
<1>10. QED
  BY <1>1, <1>5, <1>6, <1>9

LEMMA WithoutLines ==
  ASSUME NEW c \in Seq(Line), NEW b
  PROVE  Without(c, b) \in Seq(Line) /\ Len(Without(c, b)) <= Len(c)
<1> DEFINE K == {k \in DOMAIN c : c[k].block # b}
<1>1. K \in SUBSET (DOMAIN c)
  OBVIOUS
<1> HIDE DEF K
<1>2. Pick(c, K) \in Seq(Line) /\ Len(Pick(c, K)) <= Len(c)
  BY <1>1, Picked
<1>3. QED
  BY <1>2 DEF Without, K

LEMMA L1SearchLines ==
  ASSUME NEW c \in Seq(Line), NEW b \in Blocks, NEW type, Has(c, b)
  PROVE  L1Search(c, b, type) \in Seq(Line) /\ Len(L1Search(c, b, type)) <= Len(c)
<1> DEFINE K == {k \in DOMAIN c : c[k].block # b}
           old == CHOOSE k \in DOMAIN c : c[k].block = b
<1>1. old \in DOMAIN c /\ c[old].block = b
  BY DEF Has
<1>2. K \in SUBSET (DOMAIN c) /\ old \notin K
  BY <1>1
<1>3. PICK d \in BOOLEAN : d = (c[old].dirty \/ type = "WRITE")
  OBVIOUS
<1>4. [block |-> b, dirty |-> d] \in Line
  BY DEF Line
<1>5. L1Search(c, b, type) = Append(Without(c, b), [block |-> b, dirty |-> d])
  BY <1>3 DEF L1Search
<1>6. Without(c, b) = Pick(c, K)
  BY DEF Without
<1> HIDE DEF K, old
<1>7. Len(Pick(c, K)) + 1 <= Len(c)
  BY <1>1, <1>2, PickedFewer
<1>8. Pick(c, K) \in Seq(Line)
  BY <1>2, Picked
<1>9. QED
  BY <1>4, <1>5, <1>6, <1>7, <1>8

LEMMA LlcSearchLines ==
  ASSUME NEW c \in Seq(Line), NEW b, NEW type
  PROVE  LlcSearch(c, b, type) \in Seq(Line) /\ Len(LlcSearch(c, b, type)) = Len(c)
<1> DEFINE e(k) == [c[k] EXCEPT !.dirty = @ \/ (c[k].block = b /\ type = "WRITE")]
<1>1. ASSUME NEW k \in 1 .. Len(c) PROVE e(k) \in Line
  <2>1. PICK d \in BOOLEAN : d = (c[k].dirty \/ (c[k].block = b /\ type = "WRITE"))
    OBVIOUS
  <2>2. c[k] \in Line
    OBVIOUS
  <2>3. [c[k] EXCEPT !.dirty = d] \in Line
    BY <2>2 DEF Line
  <2>4. QED
    BY <2>1, <2>3
<1>2. LlcSearch(c, b, type) = [k \in 1 .. Len(c) |-> e(k)]
  BY DEF LlcSearch
<1> HIDE DEF e
<1>3. QED
  BY <1>1, <1>2

LEMMA AddLines ==
  ASSUME NEW c \in Seq(Line), NEW assoc \in Nat \ {0}, NEW b \in Blocks, NEW type,
         Len(c) <= assoc
  PROVE  Add(c, assoc, b, type) \in Seq(Line) /\ Len(Add(c, assoc, b, type)) <= assoc
<1>1. PICK d \in BOOLEAN : d = (type = "WRITE")
  OBVIOUS
<1>2. PICK e \in Line : e = [block |-> b, dirty |-> d]
  BY DEF Line
<1>3. Add(c, assoc, b, type) = Append(IF Len(c) < assoc THEN c ELSE Tail(c), e)
  BY <1>1, <1>2 DEF Add
<1>4. CASE Len(c) < assoc
  BY <1>3, <1>4
<1>5. CASE ~(Len(c) < assoc)
  <2>1. c # << >> /\ Len(c) = assoc
    BY <1>5
  <2>2. Tail(c) \in Seq(Line) /\ Len(Tail(c)) = Len(c) - 1
    BY <2>1
  <2>3. QED
    BY <1>3, <1>5, <2>1, <2>2
<1>6. QED
  BY <1>4, <1>5

(* A line that search or add changed is one of a cache of the same size. *)
LEMMA FilledL1 ==
  ASSUME NEW c \in Seq(Line), NEW b \in Blocks, NEW type, Len(c) <= L1Assoc
  PROVE  LET n == IF Has(c, b) THEN L1Search(c, b, "READ") ELSE Add(c, L1Assoc, b, type)
         IN  n \in Seq(Line) /\ Len(n) <= L1Assoc
<1>1. CASE Has(c, b)
  <2>1. L1Search(c, b, "READ") \in Seq(Line) /\ Len(L1Search(c, b, "READ")) <= Len(c)
    BY <1>1, L1SearchLines
  <2>2. QED
    BY <1>1, <2>1, Constants
<1>2. CASE ~Has(c, b)
  <2>1. L1Assoc \in Nat \ {0}
    BY Constants
  <2>2. QED
    BY <1>2, <2>1, AddLines
<1>3. QED
  BY <1>1, <1>2

-----------------------------------------------------------------------------
(* The window.                                                             *)

LEMMA ReadyWindow ==
  ASSUME NEW w \in Seq(Entry), NEW b
  PROVE  /\ set_ready(w, b) \in Seq(Entry) /\ Len(set_ready(w, b)) = Len(w)
         /\ \A k \in DOMAIN w :
              /\ set_ready(w, b)[k].block = w[k].block /\ set_ready(w, b)[k].via = w[k].via
              /\ ~set_ready(w, b)[k].ready => (~w[k].ready /\ w[k].block # b)
<1> DEFINE e(k) == [w[k] EXCEPT !.ready = @ \/ w[k].block = b]
<1>1. ASSUME NEW k \in 1 .. Len(w)
      PROVE  /\ e(k) \in Entry /\ e(k).block = w[k].block /\ e(k).via = w[k].via
             /\ ~e(k).ready => (~w[k].ready /\ w[k].block # b)
  <2>1. PICK d \in BOOLEAN : d = (w[k].ready \/ w[k].block = b)
    OBVIOUS
  <2>2. w[k] \in Entry
    OBVIOUS
  <2>3. e(k) = [w[k] EXCEPT !.ready = d]
    BY <2>1
  <2>4. [w[k] EXCEPT !.ready = d] \in Entry
    BY <2>2 DEF Entry
  <2>5. e(k).block = w[k].block /\ e(k).via = w[k].via /\ e(k).ready = d
    BY <2>2, <2>3 DEF Entry
  <2>6. ~d => (~w[k].ready /\ w[k].block # b)
    BY <2>1
  <2>7. QED
    BY <2>3, <2>4, <2>5, <2>6
<1>2. set_ready(w, b) = [k \in 1 .. Len(w) |-> e(k)]
  BY DEF set_ready
<1>3. DOMAIN w = 1 .. Len(w)
  OBVIOUS
<1> HIDE DEF e
<1>4. QED
  BY <1>1, <1>2, <1>3

LEMMA ResetWindow ==
  ASSUME NEW w \in Seq(Entry), NEW i, NEW via \in {"served", "retried", "aliased"}
  PROVE  /\ Reset(w, i, via) \in Seq(Entry) /\ Len(Reset(w, i, via)) = Len(w)
         /\ \A k \in DOMAIN w : \/ Reset(w, i, via)[k] = w[k]
                                \/ Reset(w, i, via)[k].via = via
<1> DEFINE e(k) == IF w[k].id = i THEN [w[k] EXCEPT !.ready = FALSE, !.via = via] ELSE w[k]
<1>1. ASSUME NEW k \in 1 .. Len(w) PROVE e(k) \in Entry /\ (e(k) = w[k] \/ e(k).via = via)
  <2>1. w[k] \in Entry
    OBVIOUS
  <2>2. [w[k] EXCEPT !.ready = FALSE, !.via = via] \in Entry
        /\ [w[k] EXCEPT !.ready = FALSE, !.via = via].via = via
    BY <2>1 DEF Entry
  <2>3. QED
    BY <2>1, <2>2
<1>2. Reset(w, i, via) = [k \in 1 .. Len(w) |-> e(k)]
  BY DEF Reset
<1>3. DOMAIN w = 1 .. Len(w)
  OBVIOUS
<1> HIDE DEF e
<1>4. QED
  BY <1>1, <1>2, <1>3

(* The front of ready instructions has an end. *)
LEMMA FrontEnds ==
  ASSUME NEW w \in Seq(Entry)
  PROVE  \E n \in 0 .. Len(w) : /\ \A k \in 1 .. n : w[k].ready
                                /\ n < Len(w) => ~w[n + 1].ready
<1> DEFINE Good(n) == (\A k \in 1 .. n : w[k].ready) /\ (n < Len(w) => ~w[n + 1].ready)
           T == {n \in Nat : n <= Len(w) => \A k \in 1 .. n : w[k].ready}
<1>1. SUFFICES ASSUME \A n \in 0 .. Len(w) : ~Good(n) PROVE FALSE
  OBVIOUS
<1>2. Len(w) \in Nat
  OBVIOUS
<1>3. 0 \in T
  OBVIOUS
<1>4. ASSUME NEW n \in T PROVE n + 1 \in T
  <2>1. n \in Nat /\ n + 1 \in Nat
    OBVIOUS
  <2>2. ASSUME n + 1 <= Len(w), NEW k \in 1 .. n + 1 PROVE w[k].ready
    <3>1. n \in 0 .. Len(w) /\ n < Len(w)
      BY <1>2, <2>1, <2>2
    <3>2. \A j \in 1 .. n : w[j].ready
      BY <1>2, <2>1, <3>1
    <3>3. w[n + 1].ready
      BY <1>1, <3>1, <3>2
    <3>4. k = n + 1 \/ k \in 1 .. n
      BY <2>1
    <3>5. QED
      BY <3>2, <3>3, <3>4
  <2>3. QED
    BY <2>1, <2>2
<1>5. T \in SUBSET Nat
  OBVIOUS
<1>6. T = Nat
  <2> HIDE DEF T
  <2>1. QED
    BY <1>3, <1>4, <1>5, NatSet
<1>7. \A k \in 1 .. Len(w) : w[k].ready
  BY <1>2, <1>6
<1>8. Good(Len(w))
  BY <1>2, <1>7
<1>9. QED
  BY <1>1, <1>2, <1>8

LEMMA RetiredWindow ==
  ASSUME NEW w \in Seq(Entry)
  PROVE  /\ Retired(w) \in Seq(Entry) /\ Len(Retired(w)) <= Len(w)
         /\ \A k \in DOMAIN Retired(w) : \E j \in DOMAIN w : Retired(w)[k] = w[j]
<1> DEFINE Good(n) == (\A k \in 1 .. n : w[k].ready) /\ (n < Len(w) => ~w[n + 1].ready)
           n0 == CHOOSE n \in 0 .. Len(w) : Good(n)
<1>1. n0 \in 0 .. Len(w)
  <2>1. \E n \in 0 .. Len(w) : Good(n)
    BY FrontEnds
  <2> HIDE DEF Good
  <2>2. QED
    BY <2>1
<1>2. Retired(w) = SubSeq(w, n0 + 1, Len(w))
  BY DEF Retired
<1> HIDE DEF n0
<1>3. PICK n \in Nat : n = n0 /\ n <= Len(w)
  BY <1>1
<1>4. PICK L \in Nat : L = Len(w)
  OBVIOUS
<1>5. /\ SubSeq(w, n + 1, L) \in Seq(Entry)
      /\ Len(SubSeq(w, n + 1, L)) = L - n
      /\ \A k \in 1 .. L - n : SubSeq(w, n + 1, L)[k] = w[n + k]
  BY <1>3, <1>4
<1>6. \A k \in 1 .. L - n : n + k \in DOMAIN w
  BY <1>3, <1>4
<1>7. Retired(w) = SubSeq(w, n + 1, L)
  BY <1>2, <1>3, <1>4
<1>8. DOMAIN Retired(w) = 1 .. L - n
  BY <1>5, <1>7
<1>9. QED
  BY <1>3, <1>4, <1>5, <1>6, <1>7, <1>8

-----------------------------------------------------------------------------
(* What waits, and what is on its way.                                     *)

(* A request or a fill that is added leaves the others. *)
LEMMA ComingMore ==
  ASSUME NEW S, NEW T, NEW q \in Seq(S), NEW m \in Seq(T), NEW x \in S, NEW r \in T, NEW b
  PROVE  /\ Coming(q, m, b) => Coming(Append(q, x), m, b) /\ Coming(q, Append(m, r), b)
         /\ Coming(Append(q, x), m, x.block)
         /\ r.addr # 0 => Coming(q, Append(m, r), r.block)
<1>1. /\ \A k \in DOMAIN q : k \in DOMAIN Append(q, x) /\ Append(q, x)[k] = q[k]
      /\ Len(q) + 1 \in DOMAIN Append(q, x) /\ Append(q, x)[Len(q) + 1] = x
  OBVIOUS
<1>2. /\ \A k \in DOMAIN m : k \in DOMAIN Append(m, r) /\ Append(m, r)[k] = m[k]
      /\ Len(m) + 1 \in DOMAIN Append(m, r) /\ Append(m, r)[Len(m) + 1] = r
  OBVIOUS
<1>3. Coming(q, m, b) => Coming(Append(q, x), m, b)
  BY <1>1 DEF Coming
<1>4. Coming(q, m, b) => Coming(q, Append(m, r), b)
  BY <1>2 DEF Coming
<1>5. Coming(Append(q, x), m, x.block)
  BY <1>1 DEF Coming
<1>6. r.addr # 0 => Coming(q, Append(m, r), r.block)
  BY <1>2 DEF Coming
<1>7. QED
  BY <1>3, <1>4, <1>5, <1>6

LEMMA WaitsMore ==
  ASSUME NEW w, NEW mshr, NEW more, NEW q, NEW q2, NEW m, NEW m2,
         Waits(w, mshr, q, m), mshr \subseteq more,
         \A b : Coming(q, m, b) => Coming(q2, m2, b)
  PROVE  Waits(w, more, q2, m2)
BY DEF Waits

(* An entry joins the window. *)
LEMMA WaitsJoin ==
  ASSUME NEW w \in Seq(Entry), NEW e \in Entry, NEW mshr, NEW q, NEW m,
         Waits(w, mshr, q, m),
         (~e.ready /\ e.via = "served") =>
            (Coming(q, m, e.block) /\ \E x \in mshr : x.block = e.block)
  PROVE  Waits(Append(w, e), mshr, q, m)
<1>1. ASSUME NEW k \in DOMAIN Append(w, e)
      PROVE  Append(w, e)[k] = e \/ (k \in DOMAIN w /\ Append(w, e)[k] = w[k])
  OBVIOUS
<1> DEFINE a == Append(w, e)
<1>2. ASSUME NEW k \in DOMAIN a, ~a[k].ready, a[k].via = "served"
      PROVE  Coming(q, m, a[k].block) /\ \E x \in mshr : x.block = a[k].block
  <2>1. CASE a[k] = e
    BY <1>2, <2>1
  <2>2. CASE k \in DOMAIN w /\ a[k] = w[k]
    <3> HIDE DEF a
    <3>1. QED
      BY <1>2, <2>2 DEF Waits
  <2>3. QED
    BY <1>1, <2>1, <2>2
<1> HIDE DEF a
<1>3. Waits(a, mshr, q, m)
  BY <1>2 DEF Waits
<1>4. QED
  BY <1>3 DEF a

LEMMA WaitsReset ==
  ASSUME NEW w \in Seq(Entry), NEW i, NEW mshr, NEW q, NEW m, Waits(w, mshr, q, m)
  PROVE  Waits(Reset(w, i, "retried"), mshr, q, m)
<1>1. PICK r \in Seq(Entry) : r = Reset(w, i, "retried")
  BY ResetWindow
<1>2. Len(r) = Len(w) /\ \A k \in DOMAIN w : r[k] = w[k] \/ r[k].via = "retried"
  BY <1>1, ResetWindow
<1>3. DOMAIN r = DOMAIN w
  BY <1>2
<1>4. Waits(r, mshr, q, m)
  BY <1>2, <1>3 DEF Waits
<1>5. QED
  BY <1>1, <1>4

LEMMA WaitsRetired ==
  ASSUME NEW w \in Seq(Entry), NEW mshr, NEW q, NEW m, Waits(w, mshr, q, m)
  PROVE  Waits(Retired(w), mshr, q, m)
<1>1. PICK r : r = Retired(w)
  OBVIOUS
<1>2. \A k \in DOMAIN r : \E j \in DOMAIN w : r[k] = w[j]
  BY <1>1, RetiredWindow
<1>3. Waits(r, mshr, q, m)
  BY <1>2 DEF Waits
<1>4. QED
  BY <1>1, <1>3

(* Block b arrives, and every other one is still on its way. *)
LEMMA WaitsArrived ==
  ASSUME NEW w \in Seq(Entry), NEW mshr, NEW q, NEW q2, NEW m, NEW m2, NEW b,
         Waits(w, mshr, q, m),
         \A c : (c # b /\ Coming(q, m, c)) => Coming(q2, m2, c)
  PROVE  Waits(set_ready(w, b), RemoveAll(mshr, b), q2, m2)
<1>1. PICK r \in Seq(Entry) : r = set_ready(w, b)
  BY ReadyWindow
<1>2. /\ Len(r) = Len(w)
      /\ \A k \in DOMAIN w : /\ r[k].block = w[k].block /\ r[k].via = w[k].via
                             /\ ~r[k].ready => (~w[k].ready /\ w[k].block # b)
  BY <1>1, ReadyWindow
<1>3. DOMAIN r = DOMAIN w
  BY <1>2
<1>4. \A e \in mshr : e.block # b => e \in RemoveAll(mshr, b)
  BY DEF RemoveAll
<1>5. ASSUME NEW k \in DOMAIN r, ~r[k].ready, r[k].via = "served"
      PROVE  /\ Coming(q2, m2, r[k].block)
             /\ \E e \in RemoveAll(mshr, b) : e.block = r[k].block
  <2>1. /\ k \in DOMAIN w /\ ~w[k].ready /\ w[k].via = "served"
        /\ w[k].block # b /\ r[k].block = w[k].block
    BY <1>2, <1>3, <1>5
  <2>2. Coming(q, m, w[k].block) /\ \E e \in mshr : e.block = w[k].block
    BY <2>1 DEF Waits
  <2>3. QED
    BY <1>4, <2>1, <2>2
<1>6. Waits(r, RemoveAll(mshr, b), q2, m2)
  BY <1>5 DEF Waits
<1>7. QED
  BY <1>1, <1>6

LEMMA EntriesArrived ==
  ASSUME NEW mshr, NEW flaws, NEW q, NEW q2, NEW m, NEW m2, NEW b,
         Entries(mshr, flaws, q, m),
         \A c : (c # b /\ Coming(q, m, c)) => Coming(q2, m2, c)
  PROVE  Entries(RemoveAll(mshr, b), flaws, q2, m2)
BY DEF Entries, RemoveAll

LEMMA RemovedSize ==
  ASSUME NEW mshr, NEW b, IsFiniteSet(mshr), Cardinality(mshr) <= MshrSize + 1
  PROVE  /\ RemoveAll(mshr, b) \subseteq mshr
         /\ IsFiniteSet(RemoveAll(mshr, b)) /\ Cardinality(RemoveAll(mshr, b)) <= MshrSize + 1
<1>1. RemoveAll(mshr, b) \in SUBSET mshr
  BY DEF RemoveAll
<1>2. /\ IsFiniteSet(RemoveAll(mshr, b)) /\ Cardinality(RemoveAll(mshr, b)) \in Nat
      /\ Cardinality(mshr) \in Nat
      /\ Cardinality(RemoveAll(mshr, b)) <= Cardinality(mshr)
  BY <1>1, FS_Subset, FS_CardinalityType
<1>3. QED
  BY <1>1, <1>2, Constants

-----------------------------------------------------------------------------
(* The next instruction.                                                   *)

LEMMA Instructions ==
  ASSUME NEW t \in Traces, NEW i \in 1 .. Len(t)
  PROVE  /\ MemIn(t, i) => (t[i].addr \in 1 .. MaxAddr /\ t[i].type \in {"READ", "WRITE"})
         /\ i \in Nat
<1>1. t \in Seq(Instruction)
  BY Constants
<1>2. t[i] \in Instruction
  BY <1>1
<1>3. QED
  BY <1>1, <1>2 DEF MemIn, Instruction

LEMMA MemSame == \A i : IsMem(i) <=> MemIn(trace, i)
BY DEF IsMem, MemIn

LEMMA Read ==
  ASSUME Context(trace, insp)
  PROVE  /\ trace \in Traces /\ trace \in Seq(Instruction) /\ Len(trace) \in Nat
         /\ insp.fetched \in Nat /\ insp.fetched <= Len(trace)
<1>1. trace \in Traces /\ insp.fetched \in 0 .. Len(trace)
  BY DEF Context
<1>2. trace \in Seq(Instruction)
  BY <1>1, Constants
<1>3. QED
  BY <1>1, <1>2

LEMMA Fields ==
  ASSUME NEW s \in Processor
  PROVE  /\ s.fresh \in BOOLEAN /\ s.curr \in Nat /\ s.next \in Nat
         /\ s.retry \in {"no", "mshr", "mctrl"}
         /\ s.window \in Seq(Entry) /\ s.mshr \subseteq [addr : 1 .. MaxAddr, block : Blocks]
         /\ s.cacheQ \in Seq(CacheReq)
         /\ s.l1 \in Seq(Line) /\ s.llc \in Seq(Line) /\ s.wb \in Seq(Blocks)
         /\ s.table \in Tables /\ s.done \in Seq(Nat) /\ s.flaws \subseteq {"retry", "stall"}
BY DEF Processor

(* The instruction, the table and the history have no part in Sound, but   *)
(* for the pages of the requests.                                          *)
LEMMA SoundSame ==
  ASSUME NEW s, NEW y \in Processor, NEW m, NEW f, Sound(s, m, f), y.next \in 1 .. f + 1,
         y.window = s.window, y.mshr = s.mshr, y.cacheQ = s.cacheQ, y.l1 = s.l1, y.llc = s.llc,
         y.flaws = s.flaws, Asked(y.table, m)
  PROVE  Sound(y, m, f)
BY DEF Sound, Sizes

LEMMA IdleFields ==
  ASSUME NEW s \in Processor
  PROVE  LET y == Idle(s) IN
         /\ y \in Processor /\ y.curr = NOP /\ y.next = s.next /\ y.table = s.table
         /\ y.fresh = s.fresh /\ y.retry = s.retry /\ y.done = s.done
         /\ y.window = s.window /\ y.mshr = s.mshr /\ y.cacheQ = s.cacheQ
         /\ y.l1 = s.l1 /\ y.llc = s.llc /\ y.flaws = s.flaws
BY DEF Idle, Processor, NOP

LEMMA TakeFields ==
  ASSUME Context(trace, insp), NEW s \in Processor, s.next \in 1 .. insp.fetched
  PROVE  LET y == Take(s) IN
         /\ y \in Processor /\ y.curr = s.next /\ y.next = s.next + 1
         /\ y.fresh = s.fresh /\ y.retry = s.retry /\ y.done = s.done
         /\ y.window = s.window /\ y.mshr = s.mshr /\ y.cacheQ = s.cacheQ
         /\ y.l1 = s.l1 /\ y.llc = s.llc /\ y.flaws = s.flaws
         /\ MemIn(trace, s.next) => trace[s.next].addr \in DOMAIN y.table
         /\ \A x \in DOMAIN s.table : x \in DOMAIN y.table /\ y.table[x] = s.table[x]
<1>1. trace \in Traces /\ s.next \in 1 .. Len(trace) /\ s.next \in Nat
  BY Read
<1>2. s.table \in Tables
  BY Fields
<1>3. PICK table \in Tables :
        /\ table = IF IsMem(s.next) THEN scan_page(s.table, trace[s.next].addr) ELSE s.table
        /\ MemIn(trace, s.next) => trace[s.next].addr \in DOMAIN table
        /\ \A x \in DOMAIN s.table : x \in DOMAIN table /\ table[x] = s.table[x]
  <2>1. CASE MemIn(trace, s.next)
    <3>1. trace[s.next].addr \in 1 .. MaxAddr
      BY <1>1, <2>1, Instructions
    <3>2. IsMem(s.next)
      BY <2>1, MemSame
    <3>3. QED
      BY <1>2, <3>1, <3>2, Scanned
  <2>2. CASE ~MemIn(trace, s.next)
    <3>1. ~IsMem(s.next)
      BY <2>2, MemSame
    <3>2. QED
      BY <1>2, <2>2, <3>1
  <2>3. QED
    BY <2>1, <2>2
<1>4. Take(s) = [s EXCEPT !.curr = s.next, !.next = s.next + 1, !.table = table]
  BY <1>3 DEF Take
<1>5. s.next + 1 \in Nat
  BY <1>1
<1>6. PICK y : y = Take(s)
  OBVIOUS
<1>7. /\ y \in Processor /\ y.curr = s.next /\ y.next = s.next + 1 /\ y.table = table
      /\ y.fresh = s.fresh /\ y.retry = s.retry /\ y.done = s.done
      /\ y.window = s.window /\ y.mshr = s.mshr /\ y.cacheQ = s.cacheQ
      /\ y.l1 = s.l1 /\ y.llc = s.llc /\ y.flaws = s.flaws
  BY <1>1, <1>4, <1>5, <1>6 DEF Processor
<1>8. QED
  BY <1>3, <1>6, <1>7

LEMMA AskedMore ==
  ASSUME NEW table, NEW more, NEW m, Asked(table, m),
         \A x \in DOMAIN table : x \in DOMAIN more /\ more[x] = table[x]
  PROVE  Asked(more, m)
BY DEF Asked

(* The current instruction, if any, is done with. *)
Turn(s, m, f) ==
  /\ Sound(s, m, f)
  /\ s.retry = "no" /\ ~s.fresh /\ Len(s.cacheQ) <= 1
  /\ Count(s, s.next - 1)

LEMMA IdleHolds ==
  ASSUME NEW s, NEW m, NEW f \in Nat, NEW t, Turn(s, m, f)
  PROVE  Holds(Idle(s), m, t, f)
<1>1. /\ Sound(s, m, f) /\ s \in Processor /\ s.next \in 1 .. f + 1 /\ Asked(s.table, m)
      /\ s.retry = "no" /\ ~s.fresh /\ Len(s.cacheQ) <= 1 /\ Count(s, s.next - 1)
  BY DEF Turn, Sound
<1>2. PICK y : y = Idle(s)
  OBVIOUS
<1>3. /\ y \in Processor /\ y.curr = NOP /\ y.next = s.next /\ y.table = s.table
      /\ y.fresh = s.fresh /\ y.retry = s.retry /\ y.done = s.done
      /\ y.window = s.window /\ y.mshr = s.mshr /\ y.cacheQ = s.cacheQ
      /\ y.l1 = s.l1 /\ y.llc = s.llc /\ y.flaws = s.flaws
  BY <1>1, <1>2, IdleFields
<1>4. Sound(y, m, f)
  BY <1>1, <1>3, SoundSame
<1>5. Where(y, t)
  BY <1>1, <1>3 DEF Where, MemIn
<1>6. Count(y, y.next - 1)
  BY <1>1, <1>3 DEF Count
<1>7. Holds(y, m, t, f)
  BY <1>1, <1>3, <1>4, <1>5, <1>6 DEF Holds
<1>8. QED
  BY <1>2, <1>7

LEMMA TakeHolds ==
  ASSUME Context(trace, insp), NEW s, NEW m, Turn(s, m, insp.fetched), s.next <= insp.fetched
  PROVE  Holds(Take(s), m, trace, insp.fetched)
<1>1. /\ Sound(s, m, insp.fetched) /\ s \in Processor /\ s.next \in 1 .. insp.fetched + 1
      /\ Asked(s.table, m)
      /\ s.retry = "no" /\ ~s.fresh /\ Len(s.cacheQ) <= 1 /\ Count(s, s.next - 1)
  BY DEF Turn, Sound
<1>2. PICK f \in Nat : f = insp.fetched
  BY Read
<1>3. s.next \in 1 .. f /\ s.next \in Nat /\ s.next # 0
  BY <1>1, <1>2
<1>4. PICK y : y = Take(s)
  OBVIOUS
<1>5. /\ y \in Processor /\ y.curr = s.next /\ y.next = s.next + 1
      /\ y.fresh = s.fresh /\ y.retry = s.retry /\ y.done = s.done
      /\ y.window = s.window /\ y.mshr = s.mshr /\ y.cacheQ = s.cacheQ
      /\ y.l1 = s.l1 /\ y.llc = s.llc /\ y.flaws = s.flaws
      /\ MemIn(trace, s.next) => trace[s.next].addr \in DOMAIN y.table
      /\ \A x \in DOMAIN s.table : x \in DOMAIN y.table /\ y.table[x] = s.table[x]
  BY <1>1, <1>2, <1>3, <1>4, TakeFields
<1>6. Asked(y.table, m)
  BY <1>1, <1>5, AskedMore
<1>7. y.next \in 1 .. f + 1
  BY <1>3, <1>5
<1>8. Sound(y, m, f)
  BY <1>1, <1>2, <1>5, <1>6, <1>7, SoundSame
<1>9. Where(y, trace)
  <2>1. y.curr = y.next - 1
    BY <1>3, <1>5
  <2>2. QED
    BY <1>1, <1>5, <2>1 DEF Where
<1>10. Count(y, y.next - 2)
  <2>1. y.next - 2 = s.next - 1
    BY <1>3, <1>5
  <2>2. QED
    BY <1>1, <1>5, <2>1 DEF Count
<1>11. y.curr # NOP
  BY <1>3, <1>5 DEF NOP
<1>12. Holds(y, m, trace, f)
  BY <1>1, <1>5, <1>8, <1>9, <1>10, <1>11 DEF Holds
<1>13. QED
  BY <1>2, <1>4, <1>12

(* What HandleNewRequest() returns to. *)
LEMMA Taken ==
  ASSUME Context(trace, insp), NEW x \in Outcome, Turn(x.s, x.mem, insp.fetched),
         NEW y \in NewRequest(x)
  PROVE  /\ y \in Outcome /\ Holds(y.s, y.mem, trace, insp.fetched)
         /\ y.s.retry = "no" /\ ~y.s.fresh /\ y.s.flaws = x.s.flaws /\ y.s.cacheQ = x.s.cacheQ
<1>1. /\ x.s \in Processor /\ x.mem \in Seq(MemReq) /\ x.left \in Left
      /\ x = [s |-> x.s, mem |-> x.mem, left |-> x.left]
  BY DEF Outcome
<1>2. /\ x.s.retry = "no" /\ ~x.s.fresh
      /\ insp.fetched \in Nat /\ x.s.next \in Nat /\ x.s.next \in 1 .. insp.fetched + 1
  BY Read DEF Turn, Sound
<1>3. /\ Idle(x.s) \in Processor /\ Idle(x.s).retry = "no" /\ ~Idle(x.s).fresh
      /\ Idle(x.s).flaws = x.s.flaws /\ Idle(x.s).cacheQ = x.s.cacheQ
      /\ Holds(Idle(x.s), x.mem, trace, insp.fetched)
  BY <1>1, <1>2, IdleFields, IdleHolds
<1>4. CASE y = [x EXCEPT !.s = Idle(@)]
  <2>1. y = [s |-> Idle(x.s), mem |-> x.mem, left |-> x.left]
    BY <1>1, <1>4
  <2>2. y \in Outcome /\ y.s = Idle(x.s) /\ y.mem = x.mem
    BY <1>1, <1>3, <2>1 DEF Outcome
  <2>3. QED
    BY <1>3, <2>2
<1>5. CASE x.left.idle # 0 /\ y = [x EXCEPT !.s = Idle(@), !.left.idle = @ - 1]
  <2>1. PICK l \in Left : l = [x.left EXCEPT !.idle = @ - 1]
    <3>1. x.left.idle \in 0 .. MaxIdle /\ MaxIdle \in Nat
      BY <1>1, Constants DEF Left
    <3>2. x.left.idle - 1 \in 0 .. MaxIdle
      BY <1>5, <3>1
    <3>3. QED
      BY <1>1, <3>2 DEF Left
  <2>2. y = [s |-> Idle(x.s), mem |-> x.mem, left |-> l]
    BY <1>1, <1>5, <2>1
  <2>3. y \in Outcome /\ y.s = Idle(x.s) /\ y.mem = x.mem
    BY <1>1, <1>3, <2>1, <2>2 DEF Outcome
  <2>4. QED
    BY <1>3, <2>3
<1>6. CASE x.s.next <= insp.fetched /\ y = [x EXCEPT !.s = Take(@)]
  <2>1. x.s.next \in 1 .. insp.fetched
    BY <1>2, <1>6
  <2>2. PICK p \in Processor : p = Take(x.s) /\ p.retry = "no" /\ ~p.fresh
                               /\ p.flaws = x.s.flaws /\ p.cacheQ = x.s.cacheQ
    BY <1>1, <1>2, <2>1, TakeFields
  <2>3. Holds(p, x.mem, trace, insp.fetched)
    BY <1>6, <2>2, TakeHolds
  <2>4. y = [s |-> p, mem |-> x.mem, left |-> x.left]
    BY <1>1, <1>6, <2>2
  <2>5. y \in Outcome /\ y.s = p /\ y.mem = x.mem
    BY <1>1, <2>4 DEF Outcome
  <2>6. QED
    BY <2>2, <2>3, <2>5
<1>7. \/ y = [x EXCEPT !.s = Idle(@)]
      \/ x.left.idle # 0 /\ y = [x EXCEPT !.s = Idle(@), !.left.idle = @ - 1]
      \/ x.s.next <= insp.fetched /\ y = [x EXCEPT !.s = Take(@)]
  <2>1. CASE x.s.next > insp.fetched
    BY <2>1 DEF NewRequest
  <2>2. CASE ~(x.s.next > insp.fetched)
    <3>1. x.s.next <= insp.fetched
      BY <1>2, <2>2
    <3>2. \/ y = [x EXCEPT !.s = Take(@)]
          \/ x.left.idle # 0 /\ y = [x EXCEPT !.s = Idle(@), !.left.idle = @ - 1]
      BY <2>2 DEF NewRequest
    <3>3. QED
      BY <3>1, <3>2
  <2>3. QED
    BY <2>1, <2>2
<1>8. QED
  BY <1>4, <1>5, <1>6, <1>7

LEMMA First ==
  ASSUME Context(trace, insp), NEW x \in Outcome, Holds(x.s, x.mem, trace, insp.fetched),
         NEW y \in FirstRequest(x)
  PROVE  y \in Outcome /\ Holds(y.s, y.mem, trace, insp.fetched) /\ ~y.s.fresh
<1>1. CASE ~x.s.fresh
  <2>1. y = x
    BY <1>1 DEF FirstRequest
  <2>2. QED
    BY <1>1, <2>1
<1>2. CASE x.s.fresh
  <2>1. /\ x.s \in Processor /\ x.mem \in Seq(MemReq) /\ x.left \in Left
        /\ x = [s |-> x.s, mem |-> x.mem, left |-> x.left]
    BY DEF Outcome
  <2>2. /\ Sound(x.s, x.mem, insp.fetched) /\ x.s.curr = NOP /\ x.s.retry = "no"
        /\ Len(x.s.cacheQ) <= 1 /\ Count(x.s, x.s.next - 1)
        /\ Asked(x.s.table, x.mem) /\ x.s.next \in 1 .. insp.fetched + 1
    BY <1>2 DEF Holds, Where, MemIn, Sound
  <2>3. PICK p : p = [x.s EXCEPT !.fresh = FALSE]
    OBVIOUS
  <2>4. /\ p \in Processor /\ p.fresh = FALSE /\ p.curr = x.s.curr /\ p.next = x.s.next
        /\ p.table = x.s.table /\ p.retry = x.s.retry /\ p.done = x.s.done
        /\ p.window = x.s.window /\ p.mshr = x.s.mshr /\ p.cacheQ = x.s.cacheQ
        /\ p.l1 = x.s.l1 /\ p.llc = x.s.llc /\ p.flaws = x.s.flaws
    BY <2>1, <2>3 DEF Processor
  <2>5. Sound(p, x.mem, insp.fetched)
    BY <2>2, <2>4, SoundSame
  <2>6. Count(p, p.next - 1)
    BY <2>2, <2>4 DEF Count
  <2>7. Turn(p, x.mem, insp.fetched)
    BY <2>2, <2>4, <2>5, <2>6 DEF Turn
  <2>8. PICK z : z = [s |-> p, mem |-> x.mem, left |-> x.left]
    OBVIOUS
  <2>9. z \in Outcome /\ z.s = p /\ z.mem = x.mem
    BY <2>1, <2>4, <2>8 DEF Outcome
  <2>10. [x EXCEPT !.s = [@ EXCEPT !.fresh = FALSE]] = z
    <3>1. [x EXCEPT !.s = [@ EXCEPT !.fresh = FALSE]] = [x EXCEPT !.s = p]
      BY <2>3
    <3>2. [x EXCEPT !.s = p] = z
      BY <2>1, <2>8
    <3>3. QED
      BY <3>1, <3>2
  <2>11. y \in NewRequest(z)
    BY <1>2, <2>10 DEF FirstRequest
  <2>12. Turn(z.s, z.mem, insp.fetched)
    BY <2>7, <2>9
  <2>13. QED
    BY <2>9, <2>11, <2>12, Taken
<1>3. QED
  BY <1>1, <1>2

-----------------------------------------------------------------------------
(* The first half of a step.                                               *)

(* What is left of the queue of fills without its head. *)
LEMMA ComingTail ==
  ASSUME NEW S, NEW q \in Seq(S), q # << >>, NEW m, NEW c, c # Head(q).block, Coming(q, m, c)
  PROVE  Coming(Tail(q), m, c)
<1>1. CASE \E k \in DOMAIN m : m[k].addr # 0 /\ m[k].block = c
  BY <1>1 DEF Coming
<1>2. CASE \E k \in DOMAIN q : q[k].block = c
  <2>1. PICK k \in DOMAIN q : q[k].block = c
    BY <1>2
  <2>2. k \in Nat /\ k # 1 /\ k \in 1 .. Len(q) /\ Len(q) \in Nat
    BY <2>1
  <2>3. k - 1 \in DOMAIN Tail(q) /\ Tail(q)[k - 1] = q[k]
    BY <2>2
  <2>4. QED
    BY <2>1, <2>3 DEF Coming
<1>3. QED
  BY <1>1, <1>2 DEF Coming

LEMMA OneInQueue ==
  ASSUME NEW S, NEW q \in Seq(S), q # << >>, Len(q) <= 1
  PROVE  Head(q) \in S /\ Tail(q) = << >>
<1>1. Len(q) # 0 /\ Len(q) \in Nat
  OBVIOUS
<1>2. Len(q) = 1
  BY <1>1
<1>3. Tail(q) \in Seq(S) /\ Len(Tail(q)) = 0
  BY <1>2
<1>4. \A r \in Seq(S) : Len(r) = 0 => r = << >>
  OBVIOUS
<1>5. Head(q) = q[1] /\ 1 \in DOMAIN q
  BY <1>2
<1>6. QED
  BY <1>3, <1>4, <1>5

LEMMA Filled ==
  ASSUME NEW s, NEW m, NEW f, Sound(s, m, f), Len(s.cacheQ) <= 1
  PROVE  LET y == FillL1(s) IN
         /\ Sound(y, m, f) /\ y.cacheQ = << >>
         /\ y.fresh = s.fresh /\ y.curr = s.curr /\ y.next = s.next /\ y.retry = s.retry
         /\ y.table = s.table /\ y.done = s.done /\ y.flaws = s.flaws
<1>1. /\ s \in Processor /\ m \in Seq(MemReq) /\ s.next \in 1 .. f + 1 /\ Sizes(s)
      /\ Asked(s.table, m) /\ Waits(s.window, s.mshr, s.cacheQ, m)
      /\ Entries(s.mshr, s.flaws, s.cacheQ, m)
  BY DEF Sound
<1>2. CASE s.cacheQ = << >>
  BY <1>2 DEF FillL1
<1>3. CASE s.cacheQ # << >>
  <2>1. /\ s.cacheQ \in Seq(CacheReq)
        /\ s.window \in Seq(Entry) /\ s.l1 \in Seq(Line)
        /\ s.mshr \subseteq [addr : 1 .. MaxAddr, block : Blocks]
    BY <1>1, Fields
  <2>2. PICK q \in Seq(CacheReq) : q = s.cacheQ /\ q # << >> /\ Len(q) <= 1
    BY <1>3, <2>1
  <2>3. Head(q) \in CacheReq
    BY <2>2, OneInQueue
  <2>4. PICK b \in Blocks : b = Head(q).block
    BY <2>3 DEF CacheReq
  <2>5. Tail(q) = << >> /\ Tail(q) \in Seq(CacheReq)
    BY <2>2, OneInQueue
  <2>6. \A c : (c # b /\ Coming(q, m, c)) => Coming(Tail(q), m, c)
    BY <2>2, <2>4, ComingTail
  <2>7. PICK w \in Seq(Entry) : w = set_ready(s.window, b) /\ Len(w) = Len(s.window)
    BY <2>1, ReadyWindow
  <2>8. PICK h : h = RemoveAll(s.mshr, b)
    OBVIOUS
  <2>9. Waits(w, h, Tail(q), m)
    BY <1>1, <2>1, <2>2, <2>6, <2>7, <2>8, WaitsArrived
  <2>10. Entries(h, s.flaws, Tail(q), m)
    BY <1>1, <2>2, <2>6, <2>8, EntriesArrived
  <2>11. /\ h \subseteq s.mshr /\ IsFiniteSet(h) /\ Cardinality(h) <= MshrSize + 1
    BY <1>1, <2>8, RemovedSize DEF Sizes
  <2>12. PICK l \in Seq(Line) : /\ l = IF Has(s.l1, b) THEN L1Search(s.l1, b, "READ")
                                                      ELSE Add(s.l1, L1Assoc, b, Head(q).type)
                                /\ Len(l) <= L1Assoc
    BY <1>1, <2>1, FilledL1 DEF Sizes
  <2>13. PICK y : y = FillL1(s)
    OBVIOUS
  <2>14. y = [s EXCEPT !.l1 = l, !.mshr = h, !.window = w, !.cacheQ = Tail(q)]
    BY <1>3, <2>2, <2>4, <2>7, <2>8, <2>12, <2>13 DEF FillL1
  <2>15. h \in SUBSET [addr : 1 .. MaxAddr, block : Blocks]
    BY <2>1, <2>11
  <2>16. /\ y \in Processor /\ y.l1 = l /\ y.mshr = h /\ y.window = w /\ y.cacheQ = Tail(q)
         /\ y.fresh = s.fresh /\ y.curr = s.curr /\ y.next = s.next /\ y.retry = s.retry
         /\ y.table = s.table /\ y.done = s.done /\ y.flaws = s.flaws /\ y.llc = s.llc
    BY <1>1, <2>5, <2>14, <2>15 DEF Processor
  <2>17. Sizes(y)
    BY <1>1, <2>7, <2>11, <2>12, <2>16 DEF Sizes
  <2>18. Sound(y, m, f)
    BY <1>1, <2>9, <2>10, <2>16, <2>17 DEF Sound
  <2>19. QED
    BY <2>5, <2>13, <2>16, <2>18
<1>4. QED
  BY <1>2, <1>3

LEMMA Recorded ==
  ASSUME NEW s \in Processor, NEW n \in Nat, s.curr = n + 1, Count(s, n)
  PROVE  /\ Record(s) \in Seq(Nat)
         /\ s.flaws = {} => Record(s) = [k \in 1 .. n + 1 |-> k]
<1>1. s.done \in Seq(Nat) /\ s.curr \in Nat
  BY Fields
<1>2. CASE s.flaws = {}
  <2>1. s.done = [k \in 1 .. n |-> k]
    BY <1>2 DEF Count
  <2>2. [k \in 1 .. n |-> k] \in Seq(Nat) /\ Len([k \in 1 .. n |-> k]) = n
    OBVIOUS
  <2>3. Len(s.done) = n
    BY <2>1, <2>2
  <2>4. \A k \in 1 .. n : s.done[k] = k
    BY <2>1
  <2>5. Append(s.done, n + 1) = [k \in 1 .. n + 1 |-> k]
    <3>1. /\ Append(s.done, n + 1) \in Seq(Nat) /\ Len(Append(s.done, n + 1)) = n + 1
          /\ \A k \in 1 .. n : Append(s.done, n + 1)[k] = k
          /\ Append(s.done, n + 1)[n + 1] = n + 1
      BY <1>1, <2>3, <2>4
    <3>2. \A k \in 1 .. n + 1 : Append(s.done, n + 1)[k] = k
      <4>1. \A k \in 1 .. n + 1 : k \in 1 .. n \/ k = n + 1
        OBVIOUS
      <4>2. QED
        BY <3>1, <4>1
    <3>3. PICK a \in Seq(Nat) : a = Append(s.done, n + 1) /\ Len(a) = n + 1
      BY <3>1
    <3>4. a = [k \in 1 .. Len(a) |-> a[k]]
      OBVIOUS
    <3>5. QED
      BY <3>2, <3>3, <3>4
  <2>6. Record(s) = Append(s.done, n + 1)
    BY <1>2 DEF Record
  <2>7. Append(s.done, n + 1) \in Seq(Nat)
    BY <1>1
  <2>8. Record(s) \in Seq(Nat)
    BY <2>6, <2>7
  <2>9. Record(s) = [k \in 1 .. n + 1 |-> k]
    BY <2>5, <2>6
  <2>10. QED
    BY <2>8, <2>9
<1>3. CASE s.flaws # {}
  BY <1>1, <1>3 DEF Record
<1>4. QED
  BY <1>2, <1>3

(* The middle of a step: a calculation was handed over, a memory           *)
(* instruction is still to come.                                           *)
Mid(s, m, t, f) ==
  /\ Sound(s, m, f) /\ Where(s, t)
  /\ ~s.fresh /\ s.cacheQ = << >>
  /\ Count(s, s.next - IF MemIn(t, s.curr) THEN 2 ELSE 1)

LEMMA Calculated ==
  ASSUME Context(trace, insp), NEW s, NEW m, Holds(s, m, trace, insp.fetched),
         NEW y, y = IF s.curr # NOP /\ ~IsMem(s.curr) THEN [s EXCEPT !.done = Record(s)] ELSE s
  PROVE  /\ y \in Processor /\ y.fresh = s.fresh /\ y.curr = s.curr /\ y.next = s.next
         /\ y.retry = s.retry /\ y.window = s.window /\ y.mshr = s.mshr /\ y.cacheQ = s.cacheQ
         /\ y.l1 = s.l1 /\ y.llc = s.llc /\ y.table = s.table /\ y.flaws = s.flaws
         /\ Count(y, y.next - IF MemIn(trace, y.curr) THEN 2 ELSE 1)
<1>1. /\ s \in Processor /\ s.next \in 1 .. insp.fetched + 1 /\ insp.fetched \in Nat
      /\ s.curr = NOP \/ s.curr = s.next - 1
      /\ Count(s, s.next - IF s.curr = NOP THEN 1 ELSE 2)
  BY Read DEF Holds, Sound, Where
<1>2. CASE s.curr = NOP
  <2>1. y = s /\ ~MemIn(trace, s.curr)
    BY <1>2 DEF MemIn
  <2>2. QED
    BY <1>1, <1>2, <2>1
<1>3. CASE s.curr # NOP /\ MemIn(trace, s.curr)
  <2>1. y = s
    BY <1>3, MemSame
  <2>2. QED
    BY <1>1, <1>3, <2>1
<1>4. CASE s.curr # NOP /\ ~MemIn(trace, s.curr)
  <2>1. y = [s EXCEPT !.done = Record(s)]
    BY <1>4, MemSame
  <2>2. PICK n \in Nat : n = s.next - 2 /\ s.curr = n + 1
    <3>1. s.curr = s.next - 1 /\ s.curr \in Nat /\ s.curr # 0 /\ s.next \in Nat
      BY <1>1, <1>4, Fields DEF NOP
    <3>2. s.next - 2 \in Nat /\ s.curr = (s.next - 2) + 1
      BY <3>1
    <3>3. QED
      BY <3>2
  <2>3. Count(s, n)
    BY <1>1, <1>4, <2>2
  <2>4. PICK d \in Seq(Nat) : d = Record(s) /\ (s.flaws = {} => d = [k \in 1 .. n + 1 |-> k])
    BY <1>1, <2>2, <2>3, Recorded
  <2>5. /\ y \in Processor /\ y.fresh = s.fresh /\ y.curr = s.curr /\ y.next = s.next
        /\ y.retry = s.retry /\ y.window = s.window /\ y.mshr = s.mshr /\ y.cacheQ = s.cacheQ
        /\ y.l1 = s.l1 /\ y.llc = s.llc /\ y.table = s.table /\ y.flaws = s.flaws
        /\ y.done = d
    BY <1>1, <2>1, <2>4 DEF Processor
  <2>6. n + 1 = y.next - 1
    BY <1>1, <2>2, <2>5
  <2>7. Count(y, y.next - 1)
    BY <2>4, <2>5, <2>6 DEF Count
  <2>8. QED
    BY <1>4, <2>5, <2>7
<1>5. QED
  BY <1>2, <1>3, <1>4

LEMMA Started ==
  ASSUME Context(trace, insp), NEW s, NEW m, Holds(s, m, trace, insp.fetched), ~s.fresh
  PROVE  Mid(CycleStart(s), m, trace, insp.fetched)
<1>1. /\ Sound(s, m, insp.fetched) /\ Where(s, trace) /\ Len(s.cacheQ) <= 1
      /\ s.next \in 1 .. insp.fetched + 1 /\ Asked(s.table, m)
  BY DEF Holds, Sound
<1>2. PICK y : y = IF s.curr # NOP /\ ~IsMem(s.curr) THEN [s EXCEPT !.done = Record(s)] ELSE s
  OBVIOUS
<1>3. /\ y \in Processor /\ y.fresh = s.fresh /\ y.curr = s.curr /\ y.next = s.next
      /\ y.retry = s.retry /\ y.window = s.window /\ y.mshr = s.mshr /\ y.cacheQ = s.cacheQ
      /\ y.l1 = s.l1 /\ y.llc = s.llc /\ y.table = s.table /\ y.flaws = s.flaws
      /\ Count(y, y.next - IF MemIn(trace, y.curr) THEN 2 ELSE 1)
  BY <1>2, Calculated
<1>4. Sound(y, m, insp.fetched)
  BY <1>1, <1>3, SoundSame
<1>5. PICK z : z = FillL1(y)
  OBVIOUS
<1>6. /\ Sound(z, m, insp.fetched) /\ z.cacheQ = << >>
      /\ z.fresh = y.fresh /\ z.curr = y.curr /\ z.next = y.next /\ z.retry = y.retry
      /\ z.table = y.table /\ z.done = y.done /\ z.flaws = y.flaws
  BY <1>1, <1>3, <1>4, <1>5, Filled
<1>7. z \in Processor /\ z.window \in Seq(Entry)
  BY <1>6, Fields DEF Sound
<1>8. PICK w \in Seq(Entry) : w = Retired(z.window) /\ Len(w) <= Len(z.window)
  BY <1>7, RetiredWindow
<1>9. Waits(w, z.mshr, z.cacheQ, m)
  BY <1>6, <1>7, <1>8, WaitsRetired DEF Sound
<1>10. PICK u : u = [z EXCEPT !.window = w]
  OBVIOUS
<1>11. u = CycleStart(s)
  BY <1>2, <1>5, <1>8, <1>10 DEF CycleStart
<1>12. /\ u \in Processor /\ u.fresh = z.fresh /\ u.curr = z.curr /\ u.next = z.next
       /\ u.retry = z.retry /\ u.window = w /\ u.mshr = z.mshr /\ u.cacheQ = z.cacheQ
       /\ u.l1 = z.l1 /\ u.llc = z.llc /\ u.table = z.table /\ u.flaws = z.flaws
       /\ u.done = z.done
  BY <1>7, <1>8, <1>10 DEF Processor
<1>13. Sizes(u)
  <2>1. Sizes(z) /\ Len(w) \in Nat /\ Len(z.window) \in Nat /\ WindowSize \in Nat
    BY <1>6, <1>7, <1>8, Constants DEF Sound
  <2>2. Len(w) <= WindowSize + 1
    BY <1>8, <2>1 DEF Sizes
  <2>3. QED
    BY <1>12, <2>1, <2>2 DEF Sizes
<1>14. Sound(u, m, insp.fetched)
  BY <1>6, <1>9, <1>12, <1>13 DEF Sound
<1>15. Where(u, trace)
  BY <1>1, <1>3, <1>6, <1>12 DEF Where
<1>16. Count(u, u.next - IF MemIn(trace, u.curr) THEN 2 ELSE 1)
  BY <1>3, <1>6, <1>12 DEF Count
<1>17. Mid(u, m, trace, insp.fetched)
  BY <1>3, <1>6, <1>12, <1>14, <1>15, <1>16 DEF Mid
<1>18. QED
  BY <1>11, <1>17

(* A write-back that is sent has address 0 and leaves all others as they   *)
(* are.                                                                    *)
LEMMA WroteBack ==
  ASSUME NEW f, NEW t, NEW x \in Outcome, Mid(x.s, x.mem, t, f), NEW y \in WriteBackStep(x)
  PROVE  y \in Outcome /\ Mid(y.s, y.mem, t, f)
<1>1. /\ x.s \in Processor /\ x.mem \in Seq(MemReq) /\ x.left \in Left
      /\ x = [s |-> x.s, mem |-> x.mem, left |-> x.left]
  BY DEF Outcome
<1>2. CASE y = x
  BY <1>2
<1>3. CASE x.left.refused # 0 /\ y = [x EXCEPT !.left.refused = @ - 1]
  <2>1. PICK l \in Left : l = [x.left EXCEPT !.refused = @ - 1]
    <3>1. x.left.refused \in 0 .. MaxRefused /\ MaxRefused \in Nat
      BY <1>1, Constants DEF Left
    <3>2. x.left.refused - 1 \in 0 .. MaxRefused
      BY <1>3, <3>1
    <3>3. QED
      BY <1>1, <3>2 DEF Left
  <2>2. y = [s |-> x.s, mem |-> x.mem, left |-> l]
    BY <1>1, <1>3, <2>1
  <2>3. y \in Outcome /\ y.s = x.s /\ y.mem = x.mem
    BY <1>1, <2>1, <2>2 DEF Outcome
  <2>4. QED
    BY <2>3
<1>4. CASE /\ x.s.wb # << >>
           /\ y = [x EXCEPT !.s = [x.s EXCEPT !.wb = Tail(@)],
                     !.mem = Append(@, [type |-> "WRITE", addr |-> 0, block |-> Head(x.s.wb)])]
  <2>1. /\ Sound(x.s, x.mem, f) /\ Where(x.s, t) /\ ~x.s.fresh /\ x.s.cacheQ = << >>
        /\ Count(x.s, x.s.next - IF MemIn(t, x.s.curr) THEN 2 ELSE 1)
    BY DEF Mid
  <2>2. /\ Sizes(x.s) /\ Asked(x.s.table, x.mem) /\ x.s.next \in 1 .. f + 1
        /\ Waits(x.s.window, x.s.mshr, x.s.cacheQ, x.mem)
        /\ Entries(x.s.mshr, x.s.flaws, x.s.cacheQ, x.mem)
    BY <2>1 DEF Sound
  <2>3. x.s.wb \in Seq(Blocks)
    BY <1>1, Fields
  <2>4. PICK b \in Blocks : b = Head(x.s.wb) /\ Tail(x.s.wb) \in Seq(Blocks)
    BY <1>4, <2>3
  <2>5. PICK r \in MemReq : r = [type |-> "WRITE", addr |-> 0, block |-> b] /\ r.addr = 0
    <3>1. 0 \in 0 .. MaxAddr
      BY Constants
    <3>2. [type |-> "WRITE", addr |-> 0, block |-> b] \in MemReq
      BY <3>1 DEF MemReq
    <3>3. QED
      BY <3>2
  <2>6. PICK n \in Seq(MemReq) : n = Append(x.mem, r)
    <3>1. x.mem \in Seq(MemReq)
      BY <1>1
    <3>2. Append(x.mem, r) \in Seq(MemReq)
      BY <3>1
    <3>3. QED
      BY <3>2
  <2>7. PICK p : p = [x.s EXCEPT !.wb = Tail(x.s.wb)]
    OBVIOUS
  <2>8. /\ p \in Processor /\ p.fresh = x.s.fresh /\ p.curr = x.s.curr /\ p.next = x.s.next
        /\ p.retry = x.s.retry /\ p.window = x.s.window /\ p.mshr = x.s.mshr
        /\ p.cacheQ = x.s.cacheQ /\ p.l1 = x.s.l1 /\ p.llc = x.s.llc /\ p.table = x.s.table
        /\ p.done = x.s.done /\ p.flaws = x.s.flaws
    BY <1>1, <2>4, <2>7 DEF Processor
  <2>9. y = [s |-> p, mem |-> n, left |-> x.left]
    <3>1. y = [x EXCEPT !.s = [x.s EXCEPT !.wb = Tail(@)], !.mem = n]
      BY <1>4, <2>4, <2>5, <2>6
    <3>2. y = [x EXCEPT !.s = p, !.mem = n]
      BY <2>7, <3>1
    <3>3. QED
      BY <1>1, <3>2
  <2>10. y \in Outcome /\ y.s = p /\ y.mem = n
    BY <1>1, <2>6, <2>8, <2>9 DEF Outcome
  <2>11. \A k \in DOMAIN n : n[k] = r \/ (k \in DOMAIN x.mem /\ n[k] = x.mem[k])
    BY <1>1, <2>6
  <2>12. Asked(p.table, n)
    BY <2>2, <2>5, <2>8, <2>11 DEF Asked
  <2>13. \A c : Coming(x.s.cacheQ, x.mem, c) => Coming(x.s.cacheQ, n, c)
    <3>1. \A k \in DOMAIN x.mem : k \in DOMAIN n /\ n[k] = x.mem[k]
      BY <1>1, <2>6
    <3>2. QED
      BY <3>1 DEF Coming
  <2>14. Waits(p.window, p.mshr, p.cacheQ, n)
    BY <2>2, <2>8, <2>13, WaitsMore
  <2>15. Entries(p.mshr, p.flaws, p.cacheQ, n)
    BY <2>2, <2>8, <2>13 DEF Entries
  <2>16. Sizes(p)
    BY <2>2, <2>8 DEF Sizes
  <2>17. Sound(p, n, f)
    BY <2>2, <2>6, <2>8, <2>12, <2>14, <2>15, <2>16 DEF Sound
  <2>18. Where(p, t) /\ Count(p, p.next - IF MemIn(t, p.curr) THEN 2 ELSE 1)
    BY <2>1, <2>8 DEF Where, Count
  <2>19. Mid(p, n, t, f)
    BY <2>1, <2>8, <2>17, <2>18 DEF Mid
  <2>20. QED
    BY <2>10, <2>19
<1>5. QED
  BY <1>2, <1>3, <1>4 DEF WriteBackStep

-----------------------------------------------------------------------------
(* A memory instruction joins the window and the MSHR.                     *)

LEMMA Current ==
  ASSUME Context(trace, insp), NEW s, NEW m, Sound(s, m, insp.fetched), Where(s, trace),
         MemIn(trace, s.curr)
  PROVE  /\ trace[s.curr].addr \in 1 .. MaxAddr /\ trace[s.curr].type \in {"READ", "WRITE"}
         /\ trace[s.curr].addr \in DOMAIN s.table /\ Block(s, s.curr) \in Blocks
         /\ \E n \in Nat : s.curr = n + 1 /\ s.next = n + 2
         /\ MshrEntry(s) \in [addr : 1 .. MaxAddr, block : Blocks]
         /\ MshrEntry(s).block = Block(s, s.curr)
<1>1. /\ s \in Processor /\ s.next \in 1 .. insp.fetched + 1 /\ s.curr = s.next - 1
      /\ trace[s.curr].addr \in DOMAIN s.table /\ s.curr # 0
  BY DEF Sound, Where, MemIn, NOP
<1>2. trace \in Traces /\ insp.fetched \in Nat /\ insp.fetched <= Len(trace) /\ Len(trace) \in Nat
  BY Read
<1>3. s.curr \in Nat /\ s.next \in Nat
  BY <1>1, Fields
<1>4. s.curr \in 1 .. Len(trace)
  BY <1>1, <1>2, <1>3
<1>5. trace[s.curr].addr \in 1 .. MaxAddr /\ trace[s.curr].type \in {"READ", "WRITE"}
  BY <1>2, <1>4, Instructions
<1>6. s.table \in Tables
  BY <1>1, Fields
<1>7. Block(s, s.curr) \in Blocks
  BY <1>1, <1>6, FramedIn DEF Block
<1>8. /\ MshrEntry(s) \in [addr : 1 .. MaxAddr, block : Blocks]
      /\ MshrEntry(s).block = Block(s, s.curr)
  BY <1>5, <1>7 DEF MshrEntry
<1>9. \E n \in Nat : s.curr = n + 1 /\ s.next = n + 2
  <2>1. s.next - 2 \in Nat /\ s.curr = (s.next - 2) + 1 /\ s.next = (s.next - 2) + 2
    BY <1>1, <1>3
  <2>2. QED
    BY <2>1
<1>10. QED
  BY <1>1, <1>5, <1>7, <1>8, <1>9

LEMMA MshrAdded ==
  ASSUME NEW s \in Processor, Sizes(s), MshrAccepts(s),
         MshrEntry(s) \in [addr : 1 .. MaxAddr, block : Blocks]
  PROVE  LET y == add_to_mshr(s) IN
         /\ y \in Processor /\ y.mshr = s.mshr \cup {MshrEntry(s)}
         /\ IsFiniteSet(y.mshr) /\ Cardinality(y.mshr) <= MshrSize + 1
         /\ y.fresh = s.fresh /\ y.curr = s.curr /\ y.next = s.next /\ y.retry = s.retry
         /\ y.window = s.window /\ y.cacheQ = s.cacheQ /\ y.l1 = s.l1 /\ y.llc = s.llc
         /\ y.table = s.table /\ y.done = s.done /\ y.flaws = s.flaws
<1>1. PICK e \in [addr : 1 .. MaxAddr, block : Blocks] : e = MshrEntry(s)
  OBVIOUS
<1>2. PICK h : h = s.mshr \cup {e}
  OBVIOUS
<1>3. h \in SUBSET [addr : 1 .. MaxAddr, block : Blocks]
  BY <1>2, Fields
<1>4. IsFiniteSet(s.mshr) /\ Cardinality(s.mshr) <= MshrSize + 1 /\ MshrSize \in Nat
  BY Constants DEF Sizes
<1>5. Cardinality(s.mshr) \in Nat
  BY <1>4, FS_CardinalityType
<1>6. /\ IsFiniteSet(h)
      /\ Cardinality(h) = IF e \in s.mshr THEN Cardinality(s.mshr) ELSE Cardinality(s.mshr) + 1
  BY <1>2, <1>4, FS_AddElement
<1>7. Cardinality(h) <= MshrSize + 1
  <2>1. CASE e \in s.mshr
    BY <1>4, <1>6, <2>1
  <2>2. CASE e \notin s.mshr
    <3>1. Cardinality(s.mshr) <= MshrSize
      BY <1>1, <2>2 DEF MshrAccepts
    <3>2. QED
      BY <1>4, <1>5, <1>6, <2>2, <3>1
  <2>3. QED
    BY <2>1, <2>2
<1>8. PICK y : y = add_to_mshr(s)
  OBVIOUS
<1>9. y = [s EXCEPT !.mshr = h]
  BY <1>1, <1>2, <1>8 DEF add_to_mshr
<1>10. /\ y \in Processor /\ y.mshr = h
       /\ y.fresh = s.fresh /\ y.curr = s.curr /\ y.next = s.next /\ y.retry = s.retry
       /\ y.window = s.window /\ y.cacheQ = s.cacheQ /\ y.l1 = s.l1 /\ y.llc = s.llc
       /\ y.table = s.table /\ y.done = s.done /\ y.flaws = s.flaws
  BY <1>3, <1>9 DEF Processor
<1>11. QED
  BY <1>1, <1>2, <1>6, <1>7, <1>8, <1>10

(* What add_ins() makes of s, its new entry being e. *)
Added(s, y, e, n) ==
  /\ y \in Processor /\ e \in Entry /\ y.window = Append(s.window, e) /\ Count(y, n + 1)
  /\ y.fresh = s.fresh /\ y.curr = s.curr /\ y.next = s.next /\ y.retry = s.retry
  /\ y.mshr = s.mshr /\ y.cacheQ = s.cacheQ /\ y.l1 = s.l1 /\ y.llc = s.llc
  /\ y.table = s.table /\ y.flaws = s.flaws

LEMMA InsAdded ==
  ASSUME NEW s \in Processor, NEW ready \in BOOLEAN,
         NEW via \in {"served", "retried", "aliased"}, Block(s, s.curr) \in Blocks,
         NEW n \in Nat, s.curr = n + 1, Count(s, n)
  PROVE  \E e \in Entry : /\ e.block = Block(s, s.curr) /\ e.ready = ready /\ e.via = via
                          /\ Added(s, add_ins(s, ready, via), e, n)
<1> DEFINE e0 == [id |-> s.curr, block |-> Block(s, s.curr), ready |-> ready, via |-> via]
<1>1. e0 \in Entry /\ e0.block = Block(s, s.curr) /\ e0.ready = ready /\ e0.via = via
  <2>1. s.curr \in Nat
    BY Fields
  <2>2. QED
    BY <2>1 DEF Entry
<1>2. PICK d \in Seq(Nat) : d = Record(s) /\ (s.flaws = {} => d = [k \in 1 .. n + 1 |-> k])
  BY Recorded
<1>3. add_ins(s, ready, via) = [s EXCEPT !.window = Append(s.window, e0), !.done = d]
  BY <1>2 DEF add_ins
<1> HIDE DEF e0
<1>4. PICK w \in Seq(Entry) : w = Append(s.window, e0)
  <2>1. s.window \in Seq(Entry)
    BY Fields
  <2>2. Append(s.window, e0) \in Seq(Entry)
    BY <1>1, <2>1
  <2>3. QED
    BY <2>2
<1>5. PICK y : y = add_ins(s, ready, via)
  OBVIOUS
<1>6. y = [s EXCEPT !.window = w, !.done = d]
  BY <1>3, <1>4, <1>5
<1>7. /\ y \in Processor /\ y.window = w /\ y.done = d
      /\ y.fresh = s.fresh /\ y.curr = s.curr /\ y.next = s.next /\ y.retry = s.retry
      /\ y.mshr = s.mshr /\ y.cacheQ = s.cacheQ /\ y.l1 = s.l1 /\ y.llc = s.llc
      /\ y.table = s.table /\ y.flaws = s.flaws
  BY <1>6 DEF Processor
<1>8. Count(y, n + 1)
  BY <1>2, <1>7 DEF Count
<1>9. Added(s, y, e0, n)
  BY <1>1, <1>4, <1>7, <1>8 DEF Added
<1>10. QED
  BY <1>1, <1>5, <1>9

(* An entry e joins a window w in which everyone's block is on its way, at *)
(* the same time as the MSHR, the queue of fills and the memory get what   *)
(* belongs to it.                                                          *)
LEMMA Joined ==
  ASSUME NEW s, NEW m, NEW f, Sound(s, m, f),
         NEW w \in Seq(Entry), Len(w) <= WindowSize, Waits(w, s.mshr, s.cacheQ, m),
         NEW y \in Processor, NEW m2 \in Seq(MemReq), NEW e \in Entry,
         y.window = Append(w, e), y.next = s.next, Asked(y.table, m2),
         s.mshr \subseteq y.mshr, IsFiniteSet(y.mshr), Cardinality(y.mshr) <= MshrSize + 1,
         Len(y.l1) <= L1Assoc, Len(y.llc) <= LlcAssoc,
         s.flaws \subseteq y.flaws,
         \A b : Coming(s.cacheQ, m, b) => Coming(y.cacheQ, m2, b),
         \A h \in y.mshr : \/ h \in s.mshr \/ Coming(y.cacheQ, m2, h.block)
                           \/ "retry" \in y.flaws,
         (~e.ready /\ e.via = "served") =>
            (Coming(y.cacheQ, m2, e.block) /\ \E h \in y.mshr : h.block = e.block)
  PROVE  Sound(y, m2, f)
<1>1. s.next \in 1 .. f + 1 /\ Entries(s.mshr, s.flaws, s.cacheQ, m)
  BY DEF Sound
<1>2. Waits(w, y.mshr, y.cacheQ, m2)
  BY WaitsMore
<1>3. Waits(y.window, y.mshr, y.cacheQ, m2)
  BY <1>2, WaitsJoin
<1>4. Entries(y.mshr, y.flaws, y.cacheQ, m2)
  BY <1>1 DEF Entries
<1>5. Len(y.window) <= WindowSize + 1
  <2>1. Len(y.window) = Len(w) + 1 /\ Len(w) \in Nat /\ WindowSize \in Nat
    BY Constants
  <2>2. QED
    BY <2>1
<1>6. Sizes(y)
  BY <1>5 DEF Sizes
<1>7. QED
  BY <1>1, <1>3, <1>4, <1>6 DEF Sound

(* A request for the current instruction's block. *)
LEMMA Sent ==
  ASSUME NEW m \in Seq(MemReq), NEW table \in Tables, Asked(table, m),
         NEW a \in DOMAIN table, a \in 1 .. MaxAddr, NEW type \in {"READ", "WRITE"},
         NEW q, NEW r, r = [type |-> type, addr |-> a, block |-> table[a]]
  PROVE  /\ Append(m, r) \in Seq(MemReq) /\ Asked(table, Append(m, r))
         /\ \A b : Coming(q, m, b) => Coming(q, Append(m, r), b)
         /\ Coming(q, Append(m, r), table[a])
<1>1. r \in MemReq /\ r.addr = a /\ r.block = table[a] /\ r.addr # 0
  <2>1. table[a] \in Blocks /\ a \in 0 .. MaxAddr /\ a # 0
    BY FramedIn
  <2>2. QED
    BY <2>1 DEF MemReq
<1>2. PICK n \in Seq(MemReq) : n = Append(m, r)
  <2>1. Append(m, r) \in Seq(MemReq)
    BY <1>1
  <2>2. QED
    BY <2>1
<1>3. /\ \A k \in DOMAIN n : n[k] = r \/ (k \in DOMAIN m /\ n[k] = m[k])
      /\ \A k \in DOMAIN m : k \in DOMAIN n /\ n[k] = m[k]
      /\ \E k \in DOMAIN n : n[k] = r
  <2>1. Len(m) + 1 \in DOMAIN Append(m, r) /\ Append(m, r)[Len(m) + 1] = r
    BY <1>1
  <2>2. \E k \in DOMAIN n : n[k] = r
    BY <1>2, <2>1
  <2>3. /\ \A k \in DOMAIN n : n[k] = r \/ (k \in DOMAIN m /\ n[k] = m[k])
        /\ \A k \in DOMAIN m : k \in DOMAIN n /\ n[k] = m[k]
    BY <1>1, <1>2
  <2>4. QED
    BY <2>2, <2>3
<1>4. Asked(table, n)
  BY <1>1, <1>3 DEF Asked
<1>5. \A b : Coming(q, m, b) => Coming(q, n, b)
  BY <1>3 DEF Coming
<1>6. Coming(q, n, table[a])
  BY <1>1, <1>3 DEF Coming
<1>7. QED
  BY <1>2, <1>4, <1>5, <1>6

(* Before handle_current_req() and before handle_last(). *)
Busy(s, m) ==
  /\ Context(trace, insp)
  /\ Sound(s, m, insp.fetched) /\ Where(s, trace) /\ MemIn(trace, s.curr)
  /\ ~s.fresh /\ s.cacheQ = << >> /\ Count(s, s.next - 2)
  /\ Len(s.window) <= WindowSize

LEMMA BusyFacts ==
  ASSUME NEW s, NEW m, Busy(s, m)
  PROVE  /\ s \in Processor /\ m \in Seq(MemReq) /\ Sizes(s) /\ s.window \in Seq(Entry)
         /\ Asked(s.table, m) /\ Waits(s.window, s.mshr, s.cacheQ, m)
         /\ trace[s.curr].addr \in 1 .. MaxAddr /\ trace[s.curr].type \in {"READ", "WRITE"}
         /\ trace[s.curr].addr \in DOMAIN s.table /\ Block(s, s.curr) \in Blocks
         /\ Block(s, s.curr) = s.table[trace[s.curr].addr]
         /\ MshrEntry(s) \in [addr : 1 .. MaxAddr, block : Blocks]
         /\ MshrEntry(s).block = Block(s, s.curr)
         /\ Sound(s, m, insp.fetched) /\ s.cacheQ = << >> /\ s.cacheQ \in Seq(CacheReq)
         /\ \E n \in Nat : s.curr = n + 1 /\ s.next = n + 2 /\ Count(s, n)
<1>1. /\ Context(trace, insp) /\ Sound(s, m, insp.fetched) /\ Where(s, trace)
      /\ MemIn(trace, s.curr) /\ Count(s, s.next - 2) /\ s.cacheQ = << >>
  BY DEF Busy
<1>2. /\ s \in Processor /\ m \in Seq(MemReq) /\ Sizes(s) /\ Asked(s.table, m)
      /\ Waits(s.window, s.mshr, s.cacheQ, m)
  BY <1>1 DEF Sound
<1>3. s.window \in Seq(Entry) /\ s.cacheQ \in Seq(CacheReq)
  BY <1>2, Fields
<1>4. /\ trace[s.curr].addr \in 1 .. MaxAddr /\ trace[s.curr].type \in {"READ", "WRITE"}
      /\ trace[s.curr].addr \in DOMAIN s.table /\ Block(s, s.curr) \in Blocks
      /\ MshrEntry(s) \in [addr : 1 .. MaxAddr, block : Blocks]
      /\ MshrEntry(s).block = Block(s, s.curr)
      /\ \E n \in Nat : s.curr = n + 1 /\ s.next = n + 2
  BY <1>1, Current
<1>5. PICK n \in Nat : s.curr = n + 1 /\ s.next = n + 2
  BY <1>4
<1>6. s.next - 2 = n
  BY <1>5
<1>7. \E k \in Nat : s.curr = k + 1 /\ s.next = k + 2 /\ Count(s, k)
  BY <1>1, <1>5, <1>6
<1>8. Block(s, s.curr) = s.table[trace[s.curr].addr]
  BY DEF Block
<1>9. QED
  BY <1>1, <1>2, <1>3, <1>4, <1>7, <1>8

(* if_exist: the instruction is as ready as the first one of its block. *)
LEMMA FirstOfBlock ==
  ASSUME NEW w \in Seq(Entry), NEW b,
         OfBlock(w, b) # << >>
  PROVE  \E j \in DOMAIN w : /\ w[j].block = b
                             /\ w[j] = Head(OfBlock(w, b))
<1> DEFINE K == {k \in DOMAIN w : w[k].block = b}
<1>1. K \in SUBSET (DOMAIN w) /\ \A k \in K : w[k].block = b
  OBVIOUS
<1>2. Pick(w, K) # << >> /\ OfBlock(w, b) = Pick(w, K)
  BY DEF OfBlock
<1> HIDE DEF K
<1>3. Pick(w, K) \in Seq(Entry) /\ \A n \in 1 .. Len(Pick(w, K)) : \E k \in K : Pick(w, K)[n] = w[k]
  BY <1>1, Picked
<1>4. PICK p \in Seq(Entry) : p = Pick(w, K)
  BY <1>3
<1>5. Len(p) # 0 /\ Len(p) \in Nat
  BY <1>2, <1>4
<1>6. 1 \in 1 .. Len(p) /\ Head(p) = p[1]
  BY <1>5
<1>7. PICK k \in K : p[1] = w[k]
  BY <1>3, <1>4, <1>6
<1>8. QED
  BY <1>1, <1>2, <1>4, <1>6, <1>7

LEMMA RepeatKnown ==
  ASSUME NEW w \in Seq(Entry), NEW b, NEW mshr, NEW q, NEW m, Waits(w, mshr, q, m),
         OfBlock(w, b) # << >>
  PROVE  LET first == Head(OfBlock(w, b)) IN
         /\ first.via \in {"served", "retried", "aliased"}
         /\ (~first.ready /\ first.via = "served") =>
               (Coming(q, m, b) /\ \E h \in mshr : h.block = b)
<1>1. PICK first : first = Head(OfBlock(w, b))
  OBVIOUS
<1>2. PICK j \in DOMAIN w : w[j].block = b /\ w[j] = first
  BY <1>1, FirstOfBlock
<1>3. w[j] \in Entry
  OBVIOUS
<1>4. first.via \in {"served", "retried", "aliased"}
  BY <1>2, <1>3 DEF Entry
<1>5. (~first.ready /\ first.via = "served") =>
         (Coming(q, m, b) /\ \E h \in mshr : h.block = b)
  BY <1>2 DEF Waits
<1>6. QED
  BY <1>1, <1>4, <1>5

LEMMA ServedRepeat ==
  ASSUME NEW s, NEW m, Busy(s, m), s.retry = "no", NEW ready \in BOOLEAN,
         NEW via \in {"served", "retried", "aliased"},
         (~ready /\ via = "served") =>
            (Coming(s.cacheQ, m, Block(s, s.curr)) /\ \E h \in s.mshr : h.block = Block(s, s.curr))
  PROVE  Turn(add_ins(s, ready, via), m, insp.fetched)
<1>1. /\ s \in Processor /\ m \in Seq(MemReq) /\ Sizes(s) /\ s.window \in Seq(Entry)
      /\ Asked(s.table, m) /\ Waits(s.window, s.mshr, s.cacheQ, m)
      /\ Block(s, s.curr) \in Blocks /\ Sound(s, m, insp.fetched) /\ s.cacheQ = << >>
  BY BusyFacts
<1>2. Len(s.window) <= WindowSize /\ ~s.fresh
  BY DEF Busy
<1>3. PICK n \in Nat : s.curr = n + 1 /\ s.next = n + 2 /\ Count(s, n)
  BY BusyFacts
<1>4. PICK y : y = add_ins(s, ready, via)
  OBVIOUS
<1>5. PICK e \in Entry : /\ e.block = Block(s, s.curr) /\ e.ready = ready /\ e.via = via
                         /\ Added(s, y, e, n)
  BY <1>1, <1>3, <1>4, InsAdded
<1>6. /\ y \in Processor /\ y.window = Append(s.window, e) /\ Count(y, n + 1)
      /\ e.block = Block(s, s.curr) /\ e.ready = ready /\ e.via = via
      /\ y.fresh = s.fresh /\ y.curr = s.curr /\ y.next = s.next /\ y.retry = s.retry
      /\ y.mshr = s.mshr /\ y.cacheQ = s.cacheQ /\ y.l1 = s.l1 /\ y.llc = s.llc
      /\ y.table = s.table /\ y.flaws = s.flaws
  BY <1>5 DEF Added
<1>7. /\ IsFiniteSet(y.mshr) /\ Cardinality(y.mshr) <= MshrSize + 1
      /\ Len(y.l1) <= L1Assoc /\ Len(y.llc) <= LlcAssoc
  BY <1>1, <1>6 DEF Sizes
<1>8. (~e.ready /\ e.via = "served") =>
         (Coming(y.cacheQ, m, e.block) /\ \E h \in y.mshr : h.block = e.block)
  BY <1>6
<1>9. Asked(y.table, m) /\ s.mshr \subseteq y.mshr /\ s.flaws \subseteq y.flaws
  BY <1>1, <1>6
<1>10. /\ \A b : Coming(s.cacheQ, m, b) => Coming(y.cacheQ, m, b)
       /\ \A h \in y.mshr : \/ h \in s.mshr \/ Coming(y.cacheQ, m, h.block)
                            \/ "retry" \in y.flaws
  BY <1>6
<1>11. Sound(y, m, insp.fetched)
  BY <1>1, <1>2, <1>6, <1>7, <1>8, <1>9, <1>10, Joined
<1>12. Count(y, y.next - 1) /\ Len(y.cacheQ) <= 1
  <2>1. y.next - 1 = n + 1
    BY <1>3, <1>6
  <2>2. Len(y.cacheQ) = 0
    BY <1>1, <1>6
  <2>3. QED
    BY <1>6, <2>1, <2>2
<1>13. Turn(y, m, insp.fetched)
  BY <1>2, <1>6, <1>11, <1>12 DEF Turn
<1>14. QED
  BY <1>4, <1>13

(* A hit in L1 is ready at once. *)
LEMMA ServedL1 ==
  ASSUME NEW s, NEW m, Busy(s, m), s.retry = "no", Has(s.l1, Block(s, s.curr)), NEW type
  PROVE  Turn(add_ins([s EXCEPT !.l1 = L1Search(@, Block(s, s.curr), type)], TRUE, "served"),
              m, insp.fetched)
<1>1. /\ s \in Processor /\ m \in Seq(MemReq) /\ Sizes(s) /\ s.window \in Seq(Entry)
      /\ Asked(s.table, m) /\ Waits(s.window, s.mshr, s.cacheQ, m)
      /\ Block(s, s.curr) \in Blocks /\ Sound(s, m, insp.fetched) /\ s.cacheQ = << >>
  BY BusyFacts
<1>2. Len(s.window) <= WindowSize /\ ~s.fresh
  BY DEF Busy
<1>3. PICK n \in Nat : s.curr = n + 1 /\ s.next = n + 2 /\ Count(s, n)
  BY BusyFacts
<1>4. PICK l \in Seq(Line) : l = L1Search(s.l1, Block(s, s.curr), type) /\ Len(l) <= L1Assoc
  <2>1. s.l1 \in Seq(Line) /\ Len(s.l1) <= L1Assoc /\ L1Assoc \in Nat
    BY <1>1, Fields, Constants DEF Sizes
  <2>2. PICK l \in Seq(Line) : l = L1Search(s.l1, Block(s, s.curr), type) /\ Len(l) <= Len(s.l1)
    BY <1>1, <2>1, L1SearchLines
  <2>3. Len(l) <= L1Assoc
    BY <2>1, <2>2
  <2>4. QED
    BY <2>2, <2>3
<1>5. PICK p : p = [s EXCEPT !.l1 = L1Search(@, Block(s, s.curr), type)]
  OBVIOUS
<1>6. p = [s EXCEPT !.l1 = l]
  BY <1>4, <1>5
<1>7. /\ p \in Processor /\ p.fresh = s.fresh /\ p.curr = s.curr /\ p.next = s.next
      /\ p.retry = s.retry /\ p.window = s.window /\ p.mshr = s.mshr /\ p.cacheQ = s.cacheQ
      /\ p.l1 = l /\ p.llc = s.llc /\ p.table = s.table /\ p.done = s.done
      /\ p.flaws = s.flaws
  BY <1>1, <1>6 DEF Processor
<1>8. Count(p, n) /\ p.curr = n + 1 /\ Block(p, p.curr) \in Blocks
  BY <1>1, <1>3, <1>7 DEF Count, Block
<1>9. PICK y : y = add_ins(p, TRUE, "served")
  OBVIOUS
<1>10. PICK e \in Entry : e.ready = TRUE /\ Added(p, y, e, n)
  BY <1>7, <1>8, <1>9, InsAdded
<1>11. /\ y \in Processor /\ y.window = Append(p.window, e) /\ Count(y, n + 1)
       /\ e.ready = TRUE
       /\ y.fresh = p.fresh /\ y.curr = p.curr /\ y.next = p.next /\ y.retry = p.retry
       /\ y.mshr = p.mshr /\ y.cacheQ = p.cacheQ /\ y.l1 = p.l1 /\ y.llc = p.llc
       /\ y.table = p.table /\ y.flaws = p.flaws
  BY <1>10 DEF Added
<1>12. /\ IsFiniteSet(y.mshr) /\ Cardinality(y.mshr) <= MshrSize + 1
       /\ Len(y.l1) <= L1Assoc /\ Len(y.llc) <= LlcAssoc
  BY <1>1, <1>4, <1>7, <1>11 DEF Sizes
<1>13. Asked(y.table, m) /\ s.mshr \subseteq y.mshr /\ s.flaws \subseteq y.flaws
  BY <1>1, <1>7, <1>11
<1>14. /\ \A b : Coming(s.cacheQ, m, b) => Coming(y.cacheQ, m, b)
       /\ \A h \in y.mshr : \/ h \in s.mshr \/ Coming(y.cacheQ, m, h.block)
                            \/ "retry" \in y.flaws
  BY <1>7, <1>11
<1>15. y.window = Append(s.window, e) /\ y.next = s.next /\ ~(~e.ready)
  BY <1>7, <1>11
<1>16. Sound(y, m, insp.fetched)
  BY <1>1, <1>2, <1>11, <1>12, <1>13, <1>14, <1>15, Joined
<1>17. Count(y, y.next - 1) /\ Len(y.cacheQ) <= 1
  <2>1. y.next - 1 = n + 1
    BY <1>3, <1>15
  <2>2. Len(y.cacheQ) = 0
    BY <1>1, <1>7, <1>11
  <2>3. QED
    BY <1>11, <2>1, <2>2
<1>18. Turn(y, m, insp.fetched)
  BY <1>2, <1>7, <1>11, <1>16, <1>17 DEF Turn
<1>19. QED
  BY <1>5, <1>9, <1>18

(* The instruction enters the MSHR and the window. *)
Entered(s, z, e) ==
  /\ z \in Processor /\ z.window = Append(s.window, e) /\ Count(z, z.next - 1)
  /\ z.mshr = s.mshr \cup {MshrEntry(s)}
  /\ IsFiniteSet(z.mshr) /\ Cardinality(z.mshr) <= MshrSize + 1
  /\ z.fresh = s.fresh /\ z.curr = s.curr /\ z.next = s.next /\ z.retry = s.retry
  /\ z.cacheQ = s.cacheQ /\ z.l1 = s.l1 /\ z.llc = s.llc
  /\ z.table = s.table /\ z.flaws = s.flaws

LEMMA Enters ==
  ASSUME NEW s, NEW m, Busy(s, m), MshrAccepts(s), NEW via \in {"served", "retried", "aliased"}
  PROVE  \E e \in Entry : /\ e.block = Block(s, s.curr) /\ e.via = via
                          /\ Entered(s, add_ins(add_to_mshr(s), FALSE, via), e)
<1>1. /\ s \in Processor /\ Sizes(s) /\ Block(s, s.curr) \in Blocks
      /\ MshrEntry(s) \in [addr : 1 .. MaxAddr, block : Blocks]
  BY BusyFacts
<1>2. PICK n \in Nat : s.curr = n + 1 /\ s.next = n + 2 /\ Count(s, n)
  BY BusyFacts
<1>3. PICK p : p = add_to_mshr(s)
  OBVIOUS
<1>4. /\ p \in Processor /\ p.mshr = s.mshr \cup {MshrEntry(s)}
      /\ IsFiniteSet(p.mshr) /\ Cardinality(p.mshr) <= MshrSize + 1
      /\ p.fresh = s.fresh /\ p.curr = s.curr /\ p.next = s.next /\ p.retry = s.retry
      /\ p.window = s.window /\ p.cacheQ = s.cacheQ /\ p.l1 = s.l1 /\ p.llc = s.llc
      /\ p.table = s.table /\ p.done = s.done /\ p.flaws = s.flaws
  BY <1>1, <1>3, MshrAdded
<1>5. Count(p, n) /\ p.curr = n + 1
  BY <1>2, <1>4 DEF Count
<1>6. Block(p, p.curr) = Block(s, s.curr)
  BY <1>4 DEF Block
<1>7. PICK z : z = add_ins(p, FALSE, via)
  OBVIOUS
<1>8. PICK e \in Entry : e.block = Block(p, p.curr) /\ e.via = via /\ Added(p, z, e, n)
  <2>1. p \in Processor /\ Block(p, p.curr) \in Blocks
    BY <1>1, <1>4, <1>6
  <2>2. \A ready \in BOOLEAN : \E e \in Entry :
          /\ e.block = Block(p, p.curr) /\ e.ready = ready /\ e.via = via
          /\ Added(p, add_ins(p, ready, via), e, n)
    BY <1>5, <2>1, InsAdded
  <2>3. FALSE \in BOOLEAN
    OBVIOUS
  <2>4. \E e \in Entry : /\ e.block = Block(p, p.curr) /\ e.via = via
                         /\ Added(p, add_ins(p, FALSE, via), e, n)
    BY <2>2, <2>3, Zenon
  <2>5. QED
    BY <1>7, <2>4
<1>9. /\ z \in Processor /\ z.window = Append(p.window, e) /\ Count(z, n + 1)
      /\ z.fresh = p.fresh /\ z.curr = p.curr /\ z.next = p.next /\ z.retry = p.retry
      /\ z.mshr = p.mshr /\ z.cacheQ = p.cacheQ /\ z.l1 = p.l1 /\ z.llc = p.llc
      /\ z.table = p.table /\ z.flaws = p.flaws
  BY <1>8 DEF Added
<1>10. z.next - 1 = n + 1
  BY <1>2, <1>4, <1>9
<1>11. Entered(s, z, e)
  BY <1>4, <1>9, <1>10 DEF Entered
<1>12. QED
  BY <1>3, <1>6, <1>7, <1>8, <1>11

(* A hit in the shared cache: a fill of L1 is queued. *)
LEMMA ServedLlc ==
  ASSUME NEW s, NEW m, Busy(s, m), s.retry = "no", MshrAccepts(s),
         NEW type \in {"READ", "WRITE"}
  PROVE  Turn([add_ins(add_to_mshr(s), FALSE, "served") EXCEPT
                 !.llc = LlcSearch(@, Block(s, s.curr), type),
                 !.cacheQ = Append(@, [block |-> Block(s, s.curr), type |-> type,
                                       late |-> FALSE])], m, insp.fetched)
<1>1. /\ s \in Processor /\ m \in Seq(MemReq) /\ Sizes(s) /\ s.window \in Seq(Entry)
      /\ Asked(s.table, m) /\ Waits(s.window, s.mshr, s.cacheQ, m)
      /\ Block(s, s.curr) \in Blocks /\ Sound(s, m, insp.fetched) /\ s.cacheQ = << >>
      /\ s.cacheQ \in Seq(CacheReq) /\ MshrEntry(s).block = Block(s, s.curr)
  BY BusyFacts
<1>2. Len(s.window) <= WindowSize /\ ~s.fresh
  BY DEF Busy
<1>3. PICK z : z = add_ins(add_to_mshr(s), FALSE, "served")
  OBVIOUS
<1>4. PICK e \in Entry : e.block = Block(s, s.curr) /\ Entered(s, z, e)
  BY <1>3, Enters
<1>5. /\ z \in Processor /\ z.window = Append(s.window, e) /\ Count(z, z.next - 1)
      /\ z.mshr = s.mshr \cup {MshrEntry(s)}
      /\ IsFiniteSet(z.mshr) /\ Cardinality(z.mshr) <= MshrSize + 1
      /\ z.fresh = s.fresh /\ z.curr = s.curr /\ z.next = s.next /\ z.retry = s.retry
      /\ z.cacheQ = s.cacheQ /\ z.l1 = s.l1 /\ z.llc = s.llc
      /\ z.table = s.table /\ z.flaws = s.flaws
  BY <1>4 DEF Entered
<1>6. PICK r \in CacheReq : /\ r = [block |-> Block(s, s.curr), type |-> type, late |-> FALSE]
                            /\ r.block = Block(s, s.curr)
  <2>1. [block |-> Block(s, s.curr), type |-> type, late |-> FALSE] \in CacheReq
    BY <1>1 DEF CacheReq
  <2>2. QED
    BY <2>1
<1>7. PICK q \in Seq(CacheReq) : q = Append(z.cacheQ, r) /\ Len(q) = 1
  <2>1. Append(s.cacheQ, r) \in Seq(CacheReq) /\ Len(Append(s.cacheQ, r)) = 1
    BY <1>1
  <2>2. QED
    BY <1>5, <2>1
<1>8. /\ \A b : Coming(s.cacheQ, m, b) => Coming(q, m, b)
      /\ Coming(q, m, Block(s, s.curr))
  <2>1. \A k \in DOMAIN q : q[k] = r
    BY <1>1, <1>5, <1>7
  <2>2. 1 \in DOMAIN q
    BY <1>7
  <2>3. \A b : ~(\E k \in DOMAIN s.cacheQ : s.cacheQ[k].block = b)
    BY <1>1
  <2>4. QED
    BY <1>6, <2>1, <2>2, <2>3 DEF Coming
<1>9. PICK l \in Seq(Line) : l = LlcSearch(z.llc, Block(s, s.curr), type) /\ Len(l) = Len(s.llc)
  <2>1. z.llc \in Seq(Line)
    BY <1>5, Fields
  <2>2. QED
    BY <1>5, <2>1, LlcSearchLines
<1>10. PICK y : y = [z EXCEPT !.llc = LlcSearch(@, Block(s, s.curr), type),
                       !.cacheQ = Append(@, [block |-> Block(s, s.curr), type |-> type,
                                             late |-> FALSE])]
  OBVIOUS
<1>11. y = [z EXCEPT !.llc = l, !.cacheQ = q]
  BY <1>6, <1>7, <1>9, <1>10
<1>12. /\ y \in Processor /\ y.llc = l /\ y.cacheQ = q
       /\ y.fresh = z.fresh /\ y.curr = z.curr /\ y.next = z.next /\ y.retry = z.retry
       /\ y.window = z.window /\ y.mshr = z.mshr /\ y.l1 = z.l1 /\ y.table = z.table
       /\ y.done = z.done /\ y.flaws = z.flaws
  BY <1>5, <1>11 DEF Processor
<1>13. Len(y.l1) <= L1Assoc /\ Len(y.llc) <= LlcAssoc
  BY <1>1, <1>5, <1>9, <1>12 DEF Sizes
<1>14. /\ s.mshr \subseteq y.mshr /\ IsFiniteSet(y.mshr) /\ Cardinality(y.mshr) <= MshrSize + 1
       /\ MshrEntry(s) \in y.mshr /\ Asked(y.table, m) /\ s.flaws \subseteq y.flaws
       /\ \A h \in y.mshr : h \in s.mshr \/ h = MshrEntry(s)
  BY <1>1, <1>5, <1>12
<1>15. /\ Coming(y.cacheQ, m, e.block) /\ \E h \in y.mshr : h.block = e.block
  BY <1>1, <1>4, <1>8, <1>12, <1>14
<1>16. \A h \in y.mshr : \/ h \in s.mshr \/ Coming(y.cacheQ, m, h.block)
                         \/ "retry" \in y.flaws
  BY <1>1, <1>8, <1>12, <1>14
<1>17. y.window = Append(s.window, e) /\ y.next = s.next
       /\ \A b : Coming(s.cacheQ, m, b) => Coming(y.cacheQ, m, b)
  BY <1>5, <1>8, <1>12
<1>18. Sound(y, m, insp.fetched)
  BY <1>1, <1>2, <1>12, <1>13, <1>14, <1>15, <1>16, <1>17, Joined
<1>19. Count(y, y.next - 1) /\ Len(y.cacheQ) <= 1
  BY <1>5, <1>7, <1>12 DEF Count
<1>20. Turn(y, m, insp.fetched)
  BY <1>2, <1>5, <1>12, <1>18, <1>19 DEF Turn
<1>21. QED
  BY <1>3, <1>10, <1>20

(* A miss everywhere: the request is sent. *)
LEMMA ServedMemory ==
  ASSUME NEW s, NEW m, Busy(s, m), s.retry = "no", MshrAccepts(s), NEW r,
         r = [type |-> trace[s.curr].type, addr |-> trace[s.curr].addr, block |-> Block(s, s.curr)]
  PROVE  /\ Append(m, r) \in Seq(MemReq)
         /\ Turn(add_ins(add_to_mshr(s), FALSE, "served"), Append(m, r), insp.fetched)
<1>1. /\ s \in Processor /\ m \in Seq(MemReq) /\ Sizes(s) /\ s.window \in Seq(Entry)
      /\ Asked(s.table, m) /\ Waits(s.window, s.mshr, s.cacheQ, m)
      /\ Block(s, s.curr) \in Blocks /\ Sound(s, m, insp.fetched) /\ s.cacheQ = << >>
      /\ MshrEntry(s).block = Block(s, s.curr)
  BY BusyFacts
<1>2. /\ trace[s.curr].addr \in 1 .. MaxAddr /\ trace[s.curr].type \in {"READ", "WRITE"}
      /\ trace[s.curr].addr \in DOMAIN s.table /\ Block(s, s.curr) = s.table[trace[s.curr].addr]
  BY BusyFacts
<1>3. Len(s.window) <= WindowSize /\ ~s.fresh
  BY DEF Busy
<1>4. PICK m2 \in Seq(MemReq) :
        /\ m2 = Append(m, r) /\ Asked(s.table, m2)
        /\ \A b : Coming(s.cacheQ, m, b) => Coming(s.cacheQ, m2, b)
        /\ Coming(s.cacheQ, m2, Block(s, s.curr))
  <2>1. PICK table \in Tables : table = s.table
    BY <1>1, Fields
  <2>2. PICK a \in DOMAIN table : a = trace[s.curr].addr /\ a \in 1 .. MaxAddr
    BY <1>2, <2>1
  <2>3. PICK type \in {"READ", "WRITE"} : type = trace[s.curr].type
    BY <1>2
  <2>4. r = [type |-> type, addr |-> a, block |-> table[a]]
    BY <1>2, <2>1, <2>2, <2>3
  <2>5. m \in Seq(MemReq) /\ Asked(table, m)
    BY <1>1, <2>1
  <2>6. /\ Append(m, r) \in Seq(MemReq) /\ Asked(table, Append(m, r))
        /\ \A b : Coming(s.cacheQ, m, b) => Coming(s.cacheQ, Append(m, r), b)
        /\ Coming(s.cacheQ, Append(m, r), table[a])
    BY <2>2, <2>4, <2>5, Sent
  <2>7. QED
    BY <1>2, <2>1, <2>2, <2>6
<1>5. PICK y : y = add_ins(add_to_mshr(s), FALSE, "served")
  OBVIOUS
<1>6. PICK e \in Entry : e.block = Block(s, s.curr) /\ Entered(s, y, e)
  BY <1>5, Enters
<1>7. /\ y \in Processor /\ y.window = Append(s.window, e) /\ Count(y, y.next - 1)
      /\ y.mshr = s.mshr \cup {MshrEntry(s)}
      /\ IsFiniteSet(y.mshr) /\ Cardinality(y.mshr) <= MshrSize + 1
      /\ y.fresh = s.fresh /\ y.curr = s.curr /\ y.next = s.next /\ y.retry = s.retry
      /\ y.cacheQ = s.cacheQ /\ y.l1 = s.l1 /\ y.llc = s.llc
      /\ y.table = s.table /\ y.flaws = s.flaws
  BY <1>6 DEF Entered
<1>8. Len(y.l1) <= L1Assoc /\ Len(y.llc) <= LlcAssoc
  BY <1>1, <1>7 DEF Sizes
<1>9. /\ s.mshr \subseteq y.mshr /\ MshrEntry(s) \in y.mshr /\ s.flaws \subseteq y.flaws
      /\ \A h \in y.mshr : h \in s.mshr \/ h = MshrEntry(s)
  BY <1>7
<1>10. /\ Coming(y.cacheQ, m2, e.block) /\ (\E h \in y.mshr : h.block = e.block)
       /\ Asked(y.table, m2)
  BY <1>1, <1>4, <1>6, <1>7, <1>9
<1>11. /\ \A h \in y.mshr : \/ h \in s.mshr \/ Coming(y.cacheQ, m2, h.block)
                            \/ "retry" \in y.flaws
       /\ \A b : Coming(s.cacheQ, m, b) => Coming(y.cacheQ, m2, b)
  BY <1>1, <1>4, <1>7, <1>9
<1>12. Sound(y, m2, insp.fetched)
  BY <1>1, <1>3, <1>7, <1>8, <1>9, <1>10, <1>11, Joined
<1>13. Len(y.cacheQ) <= 1
  BY <1>1, <1>7
<1>14. Turn(y, m2, insp.fetched)
  BY <1>3, <1>7, <1>12, <1>13 DEF Turn
<1>15. QED
  BY <1>4, <1>5, <1>14

(* A flaw ends the count, and the instruction stays. *)
LEMMA Flawed ==
  ASSUME NEW s, NEW m, Busy(s, m), NEW y, Sound(y, m, insp.fetched), "retry" \in y.flaws,
         y.fresh = s.fresh, y.curr = s.curr, y.next = s.next, y.table = s.table,
         Len(y.cacheQ) <= 1
  PROVE  Holds(y, m, trace, insp.fetched)
<1>1. ~s.fresh /\ Where(s, trace) /\ MemIn(trace, s.curr)
  BY DEF Busy
<1>2. Where(y, trace)
  BY <1>1 DEF Where
<1>3. \A n : Count(y, n)
  BY DEF Count
<1>4. QED
  BY <1>1, <1>2, <1>3 DEF Holds

(* The memory controller turns the request away. *)
LEMMA ServedRefused ==
  ASSUME NEW s, NEW m, Busy(s, m), MshrAccepts(s)
  PROVE  LET p == [add_ins(add_to_mshr(s), FALSE, "retried") EXCEPT
                     !.retry = "mctrl", !.flaws = @ \cup {"retry"}]
         IN  p \in Processor /\ Holds(p, m, trace, insp.fetched)
<1>1. /\ s \in Processor /\ m \in Seq(MemReq) /\ Sizes(s) /\ s.window \in Seq(Entry)
      /\ Asked(s.table, m) /\ Waits(s.window, s.mshr, s.cacheQ, m)
      /\ Sound(s, m, insp.fetched) /\ s.cacheQ = << >>
  BY BusyFacts
<1>2. Len(s.window) <= WindowSize
  BY DEF Busy
<1>3. PICK z : z = add_ins(add_to_mshr(s), FALSE, "retried")
  OBVIOUS
<1>4. PICK e \in Entry : e.via = "retried" /\ Entered(s, z, e)
  BY <1>3, Enters
<1>5. /\ z \in Processor /\ z.window = Append(s.window, e)
      /\ z.mshr = s.mshr \cup {MshrEntry(s)}
      /\ IsFiniteSet(z.mshr) /\ Cardinality(z.mshr) <= MshrSize + 1
      /\ z.fresh = s.fresh /\ z.curr = s.curr /\ z.next = s.next
      /\ z.cacheQ = s.cacheQ /\ z.l1 = s.l1 /\ z.llc = s.llc
      /\ z.table = s.table /\ z.flaws = s.flaws
  BY <1>4 DEF Entered
<1>6. PICK y : y = [z EXCEPT !.retry = "mctrl", !.flaws = @ \cup {"retry"}]
  OBVIOUS
<1>7. z.flaws \cup {"retry"} \in SUBSET {"retry", "stall"}
  BY <1>5, Fields
<1>8. /\ y \in Processor /\ y.flaws = z.flaws \cup {"retry"}
      /\ y.fresh = z.fresh /\ y.curr = z.curr /\ y.next = z.next
      /\ y.window = z.window /\ y.mshr = z.mshr /\ y.cacheQ = z.cacheQ /\ y.l1 = z.l1
      /\ y.llc = z.llc /\ y.table = z.table
  <2>1. z \in Processor
    BY <1>5
  <2>2. QED
    BY <1>6, <1>7, <2>1 DEF Processor
<1>9. Len(y.l1) <= L1Assoc /\ Len(y.llc) <= LlcAssoc
  BY <1>1, <1>5, <1>8 DEF Sizes
<1>10. /\ s.mshr \subseteq y.mshr /\ IsFiniteSet(y.mshr) /\ Cardinality(y.mshr) <= MshrSize + 1
       /\ s.flaws \subseteq y.flaws /\ "retry" \in y.flaws
       /\ y.window = Append(s.window, e) /\ y.next = s.next /\ Asked(y.table, m)
       /\ y.cacheQ = s.cacheQ /\ e.via # "served"
  BY <1>1, <1>4, <1>5, <1>8
<1>11. Sound(y, m, insp.fetched)
  <2>1. /\ \A b : Coming(s.cacheQ, m, b) => Coming(y.cacheQ, m, b)
        /\ \A h \in y.mshr : \/ h \in s.mshr \/ Coming(y.cacheQ, m, h.block)
                             \/ "retry" \in y.flaws
        /\ (~e.ready /\ e.via = "served") =>
              (Coming(y.cacheQ, m, e.block) /\ \E h \in y.mshr : h.block = e.block)
    BY <1>10
  <2>2. QED
    BY <1>1, <1>2, <1>8, <1>9, <1>10, <2>1, Joined
<1>12. Len(y.cacheQ) <= 1
  BY <1>1, <1>10
<1>13. Holds(y, m, trace, insp.fetched)
  <2>1. /\ y.fresh = s.fresh /\ y.curr = s.curr /\ y.next = s.next /\ y.table = s.table
    BY <1>5, <1>8
  <2>2. QED
    BY <1>10, <1>11, <1>12, <2>1, Flawed
<1>14. QED
  BY <1>3, <1>6, <1>8, <1>13

(* The MSHR turns the instruction away. *)
LEMMA ServedFull ==
  ASSUME NEW s, NEW m, Busy(s, m)
  PROVE  LET p == [s EXCEPT !.retry = "mshr", !.flaws = @ \cup {"retry"}]
         IN  p \in Processor /\ Holds(p, m, trace, insp.fetched)
<1>1. /\ s \in Processor /\ m \in Seq(MemReq) /\ Sizes(s) /\ Sound(s, m, insp.fetched)
      /\ s.cacheQ = << >>
  BY BusyFacts
<1>2. PICK y : y = [s EXCEPT !.retry = "mshr", !.flaws = @ \cup {"retry"}]
  OBVIOUS
<1>3. s.flaws \cup {"retry"} \in SUBSET {"retry", "stall"}
  BY <1>1, Fields
<1>4. /\ y \in Processor /\ y.flaws = s.flaws \cup {"retry"}
      /\ y.fresh = s.fresh /\ y.curr = s.curr /\ y.next = s.next
      /\ y.window = s.window /\ y.mshr = s.mshr /\ y.cacheQ = s.cacheQ /\ y.l1 = s.l1
      /\ y.llc = s.llc /\ y.table = s.table
  <2>1. s \in Processor
    BY <1>1
  <2>2. QED
    BY <1>2, <1>3, <2>1 DEF Processor
<1>5. "retry" \in y.flaws
  BY <1>4
<1>6. Sizes(y)
  BY <1>1, <1>4 DEF Sizes
<1>7. Entries(y.mshr, y.flaws, y.cacheQ, m)
  BY <1>5 DEF Entries
<1>8. Sound(y, m, insp.fetched)
  BY <1>1, <1>4, <1>6, <1>7 DEF Sound
<1>9. Len(y.cacheQ) <= 1
  BY <1>1, <1>4
<1>10. Holds(y, m, trace, insp.fetched)
  BY <1>4, <1>5, <1>8, <1>9, Flawed
<1>11. QED
  BY <1>2, <1>4, <1>10

(* Outcomes with another processor, other requests, one refusal less. *)
LEMMA Rebuilt ==
  ASSUME NEW x \in Outcome, NEW p \in Processor
  PROVE  LET y == [x EXCEPT !.s = p] IN y \in Outcome /\ y.s = p /\ y.mem = x.mem
BY DEF Outcome

LEMMA RebuiltRefused ==
  ASSUME NEW x \in Outcome, NEW p \in Processor, x.left.refused # 0
  PROVE  LET y == [x EXCEPT !.s = p, !.left.refused = @ - 1]
         IN  y \in Outcome /\ y.s = p /\ y.mem = x.mem
<1>1. x.left \in Left /\ x.mem \in Seq(MemReq)
  BY DEF Outcome
<1>2. PICK l \in Left : l = [x.left EXCEPT !.refused = @ - 1]
  <2>1. x.left.refused \in 0 .. MaxRefused /\ MaxRefused \in Nat
    BY <1>1, Constants DEF Left
  <2>2. x.left.refused - 1 \in 0 .. MaxRefused
    BY <2>1
  <2>3. QED
    BY <1>1, <2>2 DEF Left
<1>3. x = [s |-> x.s, mem |-> x.mem, left |-> x.left]
  BY DEF Outcome
<1>4. PICK v : v = [x EXCEPT !.s = p, !.left.refused = @ - 1]
  OBVIOUS
<1>5. v = [s |-> p, mem |-> x.mem, left |-> l]
  BY <1>2, <1>3, <1>4
<1>6. v \in Outcome /\ v.s = p /\ v.mem = x.mem
  BY <1>1, <1>2, <1>5 DEF Outcome
<1>7. QED
  BY <1>4, <1>6

(* One outcome of NewRequest() after p took the instruction over. *)
LEMMA TakenFrom ==
  ASSUME Context(trace, insp), NEW x \in Outcome, NEW p, Turn(p, x.mem, insp.fetched),
         NEW y \in NewRequest([x EXCEPT !.s = p])
  PROVE  y \in Outcome /\ Holds(y.s, y.mem, trace, insp.fetched)
<1>1. PICK z : z = [x EXCEPT !.s = p]
  OBVIOUS
<1>2. p \in Processor /\ x.mem \in Seq(MemReq)
  BY DEF Turn, Sound
<1>3. z \in Outcome /\ z.s = p /\ z.mem = x.mem
  BY <1>1, <1>2, Rebuilt
<1>4. y \in NewRequest(z) /\ Turn(z.s, z.mem, insp.fetched)
  BY <1>1, <1>3
<1>5. QED
  BY <1>3, <1>4, Taken

LEMMA TakenSent ==
  ASSUME Context(trace, insp), NEW x \in Outcome, NEW p, NEW n, Turn(p, n, insp.fetched),
         NEW y \in NewRequest([x EXCEPT !.s = p, !.mem = n])
  PROVE  y \in Outcome /\ Holds(y.s, y.mem, trace, insp.fetched)
<1>1. PICK z : z = [x EXCEPT !.s = p, !.mem = n]
  OBVIOUS
<1>2. p \in Processor /\ n \in Seq(MemReq)
  BY DEF Turn, Sound
<1>3. z \in Outcome /\ z.s = p /\ z.mem = n
  BY <1>1, <1>2 DEF Outcome
<1>4. y \in NewRequest(z) /\ Turn(z.s, z.mem, insp.fetched)
  BY <1>1, <1>3
<1>5. QED
  BY <1>3, <1>4, Taken

(* handle_current_req() when the window has room. *)
LEMMA Serves ==
  ASSUME NEW x \in Outcome, Busy(x.s, x.mem), x.s.retry = "no", NEW y \in Serve(x)
  PROVE  y \in Outcome /\ Holds(y.s, y.mem, trace, insp.fetched)
<1> DEFINE s    == x.s
           m    == x.mem
           b    == Block(s, s.curr)
           type == trace[s.curr].type
           same == OfBlock(s.window, b)
           ready == same # << >> /\ Head(same).ready
           via  == IF same = << >> THEN "aliased" ELSE Head(same).via
           sent == [type |-> type, addr |-> trace[s.curr].addr, block |-> b]
           hit  == add_ins([s EXCEPT !.l1 = L1Search(@, b, type)], TRUE, "served")
           fill == [add_ins(add_to_mshr(s), FALSE, "served") EXCEPT
                      !.llc = LlcSearch(@, b, type),
                      !.cacheQ = Append(@, [block |-> b, type |-> type, late |-> FALSE])]
           miss == add_ins(add_to_mshr(s), FALSE, "served")
           full == [s EXCEPT !.retry = "mshr", !.flaws = @ \cup {"retry"}]
           away == [add_ins(add_to_mshr(s), FALSE, "retried") EXCEPT
                      !.retry = "mctrl", !.flaws = @ \cup {"retry"}]
<1>1. \/ y \in NewRequest([x EXCEPT !.s = add_ins(s, ready, via)])
      \/ Has(s.l1, b) /\ y \in NewRequest([x EXCEPT !.s = hit])
      \/ y = [x EXCEPT !.s = full]
      \/ MshrAccepts(s) /\ y \in NewRequest([x EXCEPT !.s = fill])
      \/ MshrAccepts(s) /\ y \in NewRequest([x EXCEPT !.s = miss, !.mem = Append(@, sent)])
      \/ /\ MshrAccepts(s) /\ x.left.refused # 0
         /\ y = [x EXCEPT !.s = away, !.left.refused = @ - 1]
  BY DEF Serve
<1>2. /\ Busy(s, m) /\ s.retry = "no" /\ Context(trace, insp)
  BY DEF Busy
<1>3. /\ s.window \in Seq(Entry) /\ Waits(s.window, s.mshr, s.cacheQ, m) /\ type \in {"READ", "WRITE"}
      /\ m \in Seq(MemReq)
  BY <1>2, BusyFacts
<1>4. Turn(add_ins(s, ready, via), m, insp.fetched)
  <2>1. /\ ready \in BOOLEAN /\ via \in {"served", "retried", "aliased"}
        /\ (~ready /\ via = "served") =>
               (Coming(s.cacheQ, m, b) /\ \E h \in s.mshr : h.block = b)
    <3>1. CASE same = << >>
      BY <3>1
    <3>2. CASE same # << >>
      <4>1. PICK first : first = Head(same)
        OBVIOUS
      <4>2. /\ first.via \in {"served", "retried", "aliased"}
            /\ (~first.ready /\ first.via = "served") =>
                  (Coming(s.cacheQ, m, b) /\ \E h \in s.mshr : h.block = b)
        <5> HIDE DEF b, s, m
        <5>1. QED
          BY <1>3, <3>2, <4>1, RepeatKnown DEF same
      <4>3. via = first.via /\ (~ready => ~first.ready)
        BY <3>2, <4>1
      <4>4. ready \in BOOLEAN
        OBVIOUS
      <4> HIDE DEF ready, via, same
      <4>5. QED
        BY <4>2, <4>3, <4>4
    <3>3. QED
      BY <3>1, <3>2
  <2> HIDE DEF ready, via
  <2>2. QED
    BY <1>2, <2>1, ServedRepeat
<1>5. Has(s.l1, b) => Turn(hit, m, insp.fetched)
  BY <1>2, ServedL1
<1>6. full \in Processor /\ Holds(full, m, trace, insp.fetched)
  BY <1>2, ServedFull
<1>7. MshrAccepts(s) => Turn(fill, m, insp.fetched)
  BY <1>2, <1>3, ServedLlc
<1>8. MshrAccepts(s) => Turn(miss, Append(m, sent), insp.fetched)
  BY <1>2, ServedMemory
<1>9. MshrAccepts(s) => (away \in Processor /\ Holds(away, m, trace, insp.fetched))
  BY <1>2, ServedRefused
<1> HIDE DEF ready, via, sent, hit, fill, miss, full, away
<1>10. CASE y \in NewRequest([x EXCEPT !.s = add_ins(s, ready, via)])
  BY <1>2, <1>4, <1>10, TakenFrom
<1>11. CASE Has(s.l1, b) /\ y \in NewRequest([x EXCEPT !.s = hit])
  BY <1>2, <1>5, <1>11, TakenFrom
<1>12. CASE y = [x EXCEPT !.s = full]
  <2>1. y \in Outcome /\ y.s = full /\ y.mem = m
    BY <1>6, <1>12, Rebuilt
  <2>2. QED
    BY <1>6, <2>1
<1>13. CASE MshrAccepts(s) /\ y \in NewRequest([x EXCEPT !.s = fill])
  BY <1>2, <1>7, <1>13, TakenFrom
<1>14. CASE MshrAccepts(s) /\ y \in NewRequest([x EXCEPT !.s = miss, !.mem = Append(@, sent)])
  <2>1. Turn(miss, Append(m, sent), insp.fetched)
    BY <1>8, <1>14
  <2>2. PICK n : n = Append(m, sent)
    OBVIOUS
  <2>3. y \in NewRequest([x EXCEPT !.s = miss, !.mem = n])
    BY <1>14, <2>2
  <2>4. QED
    BY <1>2, <2>1, <2>2, <2>3, TakenSent
<1>15. CASE /\ MshrAccepts(s) /\ x.left.refused # 0
            /\ y = [x EXCEPT !.s = away, !.left.refused = @ - 1]
  <2>1. away \in Processor /\ Holds(away, m, trace, insp.fetched)
    BY <1>9, <1>15
  <2>2. y \in Outcome /\ y.s = away /\ y.mem = m
    BY <1>15, <2>1, RebuiltRefused
  <2>3. QED
    BY <2>1, <2>2
<1>16. QED
  BY <1>1, <1>10, <1>11, <1>12, <1>13, <1>14, <1>15

-----------------------------------------------------------------------------
(* The retry of a refused instruction.                                     *)

(* After a retry every entry of the MSHR may be one without a request. *)
LEMMA Slack ==
  ASSUME NEW s, NEW m, NEW f, Sound(s, m, f), "retry" \in s.flaws, NEW y \in Processor,
         y.window = s.window, y.next = s.next, y.table = s.table, y.flaws = s.flaws,
         s.mshr \subseteq y.mshr, IsFiniteSet(y.mshr), Cardinality(y.mshr) <= MshrSize + 1,
         Len(y.l1) <= L1Assoc, Len(y.llc) <= LlcAssoc,
         \A b : Coming(s.cacheQ, m, b) => Coming(y.cacheQ, m, b)
  PROVE  Sound(y, m, f)
<1>1. /\ m \in Seq(MemReq) /\ s.next \in 1 .. f + 1 /\ Asked(s.table, m)
      /\ Waits(s.window, s.mshr, s.cacheQ, m) /\ Len(s.window) <= WindowSize + 1
  BY DEF Sound, Sizes
<1>2. Waits(y.window, y.mshr, y.cacheQ, m)
  BY <1>1, WaitsMore
<1>3. Entries(y.mshr, y.flaws, y.cacheQ, m)
  BY DEF Entries
<1>4. Sizes(y)
  BY <1>1 DEF Sizes
<1>5. QED
  BY <1>1, <1>2, <1>3, <1>4 DEF Sound

(* The state in which handle_last() adds the instruction once more. *)
Asking(s, m, p) ==
  /\ p \in Processor /\ Sound(p, m, insp.fetched)
  /\ p.fresh = s.fresh /\ p.curr = s.curr /\ p.next = s.next /\ p.table = s.table
  /\ p.window = s.window /\ p.cacheQ = s.cacheQ /\ p.llc = s.llc /\ p.flaws = s.flaws

LEMMA Asks ==
  ASSUME NEW s, NEW m, Busy(s, m), "retry" \in s.flaws, ~(s.retry = "mshr" /\ ~MshrAccepts(s))
  PROVE  Asking(s, m, IF s.retry = "mshr" THEN add_to_mshr(s) ELSE s)
<1>1. /\ s \in Processor /\ Sizes(s) /\ Sound(s, m, insp.fetched)
      /\ MshrEntry(s) \in [addr : 1 .. MaxAddr, block : Blocks]
  BY BusyFacts
<1>2. CASE s.retry # "mshr"
  BY <1>1, <1>2 DEF Asking
<1>3. CASE s.retry = "mshr"
  <2>1. PICK p : p = add_to_mshr(s)
    OBVIOUS
  <2>2. MshrAccepts(s)
    BY <1>3
  <2>3. /\ p \in Processor /\ p.mshr = s.mshr \cup {MshrEntry(s)}
        /\ IsFiniteSet(p.mshr) /\ Cardinality(p.mshr) <= MshrSize + 1
        /\ p.fresh = s.fresh /\ p.curr = s.curr /\ p.next = s.next /\ p.retry = s.retry
        /\ p.window = s.window /\ p.cacheQ = s.cacheQ /\ p.l1 = s.l1 /\ p.llc = s.llc
        /\ p.table = s.table /\ p.done = s.done /\ p.flaws = s.flaws
    BY <1>1, <2>1, <2>2, MshrAdded
  <2>4. /\ s.mshr \subseteq p.mshr /\ Len(p.l1) <= L1Assoc /\ Len(p.llc) <= LlcAssoc
    BY <1>1, <2>3 DEF Sizes
  <2>5. \A b : Coming(s.cacheQ, m, b) => Coming(p.cacheQ, m, b)
    BY <2>3
  <2>6. Sound(p, m, insp.fetched)
    BY <1>1, <2>3, <2>4, <2>5, Slack
  <2>7. Asking(s, m, p)
    BY <2>3, <2>6 DEF Asking
  <2>8. QED
    BY <1>3, <2>1, <2>7
<1>4. QED
  BY <1>2, <1>3

(* The instruction is in the window twice; both entries are retried ones. *)
LEMMA AddedAgain ==
  ASSUME NEW s, NEW m, Busy(s, m), "retry" \in s.flaws, NEW p, Asking(s, m, p)
  PROVE  LET y == add_ins_again(p, "retried") IN
         /\ y \in Processor /\ Sound(y, m, insp.fetched)
         /\ y.fresh = s.fresh /\ y.curr = s.curr /\ y.next = s.next /\ y.table = s.table
         /\ y.cacheQ = s.cacheQ /\ y.llc = s.llc /\ y.flaws = s.flaws
<1>1. /\ p \in Processor /\ Sound(p, m, insp.fetched)
      /\ p.fresh = s.fresh /\ p.curr = s.curr /\ p.next = s.next /\ p.table = s.table
      /\ p.window = s.window /\ p.cacheQ = s.cacheQ /\ p.llc = s.llc /\ p.flaws = s.flaws
  BY DEF Asking
<1>2. p.window \in Seq(Entry) /\ p.flaws # {} /\ "retry" \in p.flaws
  BY <1>1, Fields
<1>3. Len(p.window) <= WindowSize
  BY <1>1 DEF Busy
<1>4. PICK w \in Seq(Entry) : w = Reset(p.window, p.curr, "retried") /\ Len(w) = Len(p.window)
  BY <1>2, ResetWindow
<1>5. Waits(w, p.mshr, p.cacheQ, m)
  BY <1>1, <1>2, <1>4, WaitsReset DEF Sound
<1>6. PICK z : z = [p EXCEPT !.window = Reset(@, p.curr, "retried")]
  OBVIOUS
<1>7. z = [p EXCEPT !.window = w]
  BY <1>4, <1>6
<1>8. /\ z \in Processor /\ z.window = w
      /\ z.fresh = p.fresh /\ z.curr = p.curr /\ z.next = p.next /\ z.retry = p.retry
      /\ z.mshr = p.mshr /\ z.cacheQ = p.cacheQ /\ z.l1 = p.l1 /\ z.llc = p.llc
      /\ z.table = p.table /\ z.done = p.done /\ z.flaws = p.flaws
  BY <1>1, <1>7 DEF Processor
<1>9. Block(z, z.curr) \in Blocks
  BY <1>1, <1>8, BusyFacts DEF Block
<1>10. PICK n \in Nat : z.curr = n + 1
  BY <1>1, <1>8, BusyFacts
<1>11. Count(z, n)
  BY <1>2, <1>8 DEF Count
<1>12. PICK y : y = add_ins(z, FALSE, "retried")
  OBVIOUS
<1>13. PICK e \in Entry : e.via = "retried" /\ Added(z, y, e, n)
  <2>1. \A ready \in BOOLEAN : \E e \in Entry :
          /\ e.block = Block(z, z.curr) /\ e.ready = ready /\ e.via = "retried"
          /\ Added(z, add_ins(z, ready, "retried"), e, n)
    BY <1>8, <1>9, <1>10, <1>11, InsAdded
  <2>2. FALSE \in BOOLEAN
    OBVIOUS
  <2>3. \E e \in Entry : e.via = "retried" /\ Added(z, add_ins(z, FALSE, "retried"), e, n)
    BY <2>1, <2>2, Zenon
  <2>4. QED
    BY <1>12, <2>3
<1>14. /\ y \in Processor /\ y.window = Append(z.window, e)
       /\ y.fresh = z.fresh /\ y.curr = z.curr /\ y.next = z.next /\ y.retry = z.retry
       /\ y.mshr = z.mshr /\ y.cacheQ = z.cacheQ /\ y.l1 = z.l1 /\ y.llc = z.llc
       /\ y.table = z.table /\ y.flaws = z.flaws
  BY <1>13 DEF Added
<1>15. /\ IsFiniteSet(y.mshr) /\ Cardinality(y.mshr) <= MshrSize + 1
       /\ Len(y.l1) <= L1Assoc /\ Len(y.llc) <= LlcAssoc
  BY <1>1, <1>8, <1>14 DEF Sound, Sizes
<1>16. /\ y.window = Append(w, e) /\ y.next = p.next /\ Asked(y.table, m) /\ m \in Seq(MemReq)
       /\ p.mshr \subseteq y.mshr /\ p.flaws \subseteq y.flaws /\ Len(w) <= WindowSize
  BY <1>1, <1>3, <1>4, <1>8, <1>14 DEF Sound
<1>17. /\ \A b : Coming(p.cacheQ, m, b) => Coming(y.cacheQ, m, b)
       /\ \A h \in y.mshr : \/ h \in p.mshr \/ Coming(y.cacheQ, m, h.block)
                            \/ "retry" \in y.flaws
       /\ e.via # "served"
  BY <1>8, <1>13, <1>14
<1>18. Sound(y, m, insp.fetched)
  BY <1>1, <1>5, <1>14, <1>15, <1>16, <1>17, Joined
<1>19. y = add_ins_again(p, "retried")
  BY <1>6, <1>12 DEF add_ins_again
<1>20. QED
  BY <1>1, <1>8, <1>14, <1>18, <1>19

(* The second entry needs a fill of L1, ... *)
LEMMA RetriedLlc ==
  ASSUME NEW s, NEW m, Busy(s, m), "retry" \in s.flaws, NEW z \in Processor,
         Sound(z, m, insp.fetched), ~z.fresh, z.cacheQ = << >>, z.flaws = s.flaws
  PROVE  Turn([z EXCEPT !.retry = "no",
                 !.llc = LlcSearch(@, Block(s, s.curr), trace[s.curr].type),
                 !.cacheQ = Append(@, [block |-> Block(s, s.curr), type |-> trace[s.curr].type,
                                       late |-> TRUE])], m, insp.fetched)
<1>1. Block(s, s.curr) \in Blocks /\ trace[s.curr].type \in {"READ", "WRITE"}
  BY BusyFacts
<1>2. PICK b \in Blocks : b = Block(s, s.curr)
  BY <1>1
<1>3. PICK type \in {"READ", "WRITE"} : type = trace[s.curr].type
  BY <1>1
<1>4. PICK r \in CacheReq : r = [block |-> b, type |-> type, late |-> TRUE]
  <2>1. [block |-> b, type |-> type, late |-> TRUE] \in CacheReq
    BY DEF CacheReq
  <2>2. QED
    BY <2>1
<1>5. PICK q \in Seq(CacheReq) : q = Append(z.cacheQ, r) /\ Len(q) = 1
  <2>1. Append(<< >>, r) \in Seq(CacheReq) /\ Len(Append(<< >>, r)) = 1
    OBVIOUS
  <2>2. QED
    BY <2>1
<1>6. \A c : Coming(z.cacheQ, m, c) => Coming(q, m, c)
  <2>1. \A c : ~(\E k \in DOMAIN z.cacheQ : z.cacheQ[k].block = c)
    OBVIOUS
  <2>2. QED
    BY <2>1 DEF Coming
<1>7. PICK l \in Seq(Line) : l = LlcSearch(z.llc, b, type) /\ Len(l) = Len(z.llc)
  <2>1. z.llc \in Seq(Line)
    BY Fields
  <2>2. QED
    BY <2>1, LlcSearchLines
<1>8. PICK y : y = [z EXCEPT !.retry = "no", !.llc = LlcSearch(@, b, type),
                      !.cacheQ = Append(@, [block |-> b, type |-> type, late |-> TRUE])]
  OBVIOUS
<1>9. y = [z EXCEPT !.retry = "no", !.llc = l, !.cacheQ = q]
  BY <1>4, <1>5, <1>7, <1>8
<1>10. /\ y \in Processor /\ y.llc = l /\ y.cacheQ = q /\ y.retry = "no"
       /\ y.fresh = z.fresh /\ y.curr = z.curr /\ y.next = z.next
       /\ y.window = z.window /\ y.mshr = z.mshr /\ y.l1 = z.l1 /\ y.table = z.table
       /\ y.flaws = z.flaws
  BY <1>9 DEF Processor
<1>11. /\ IsFiniteSet(y.mshr) /\ Cardinality(y.mshr) <= MshrSize + 1
       /\ Len(y.l1) <= L1Assoc /\ Len(y.llc) <= LlcAssoc /\ z.mshr \subseteq y.mshr
  BY <1>7, <1>10 DEF Sound, Sizes
<1>12. \A c : Coming(z.cacheQ, m, c) => Coming(y.cacheQ, m, c)
  BY <1>6, <1>10
<1>13. Sound(y, m, insp.fetched)
  BY <1>10, <1>11, <1>12, Slack
<1>14. Count(y, y.next - 1)
  BY <1>10 DEF Count
<1>15. Len(y.cacheQ) <= 1
  BY <1>5, <1>10
<1>16. Turn(y, m, insp.fetched)
  BY <1>10, <1>13, <1>14, <1>15 DEF Turn
<1>17. QED
  BY <1>2, <1>3, <1>8, <1>16

(* ... or a place in the MSHR, ... *)
LEMMA RetriedMshr ==
  ASSUME NEW s, NEW m, Busy(s, m), "retry" \in s.flaws, NEW z \in Processor,
         Sound(z, m, insp.fetched), ~z.fresh, z.cacheQ = << >>, z.flaws = s.flaws,
         z.curr = s.curr, z.table = s.table, MshrAccepts(z)
  PROVE  Turn([add_to_mshr(z) EXCEPT !.retry = "no"], m, insp.fetched)
<1>1. MshrEntry(z) \in [addr : 1 .. MaxAddr, block : Blocks]
  BY BusyFacts DEF MshrEntry, Block
<1>2. Sizes(z)
  BY DEF Sound
<1>3. PICK p : p = add_to_mshr(z)
  OBVIOUS
<1>4. /\ p \in Processor /\ p.mshr = z.mshr \cup {MshrEntry(z)}
      /\ IsFiniteSet(p.mshr) /\ Cardinality(p.mshr) <= MshrSize + 1
      /\ p.fresh = z.fresh /\ p.curr = z.curr /\ p.next = z.next
      /\ p.window = z.window /\ p.cacheQ = z.cacheQ /\ p.l1 = z.l1 /\ p.llc = z.llc
      /\ p.table = z.table /\ p.flaws = z.flaws
  BY <1>1, <1>2, <1>3, MshrAdded
<1>5. PICK y : y = [p EXCEPT !.retry = "no"]
  OBVIOUS
<1>6. /\ y \in Processor /\ y.retry = "no" /\ y.mshr = p.mshr
      /\ y.fresh = p.fresh /\ y.curr = p.curr /\ y.next = p.next
      /\ y.window = p.window /\ y.cacheQ = p.cacheQ /\ y.l1 = p.l1 /\ y.llc = p.llc
      /\ y.table = p.table /\ y.flaws = p.flaws
  BY <1>4, <1>5 DEF Processor
<1>7. /\ IsFiniteSet(y.mshr) /\ Cardinality(y.mshr) <= MshrSize + 1 /\ z.mshr \subseteq y.mshr
      /\ Len(y.l1) <= L1Assoc /\ Len(y.llc) <= LlcAssoc
  BY <1>2, <1>4, <1>6 DEF Sizes
<1>8. /\ \A c : Coming(z.cacheQ, m, c) => Coming(y.cacheQ, m, c)
      /\ y.window = z.window /\ y.next = z.next /\ y.table = z.table /\ y.flaws = z.flaws
  BY <1>4, <1>6
<1>9. Sound(y, m, insp.fetched)
  BY <1>6, <1>7, <1>8, Slack
<1>10. Count(y, y.next - 1) /\ Len(y.cacheQ) <= 1
  <2>1. Len(y.cacheQ) = 0
    BY <1>4, <1>6
  <2>2. QED
    BY <1>8, <2>1 DEF Count
<1>11. Turn(y, m, insp.fetched)
  BY <1>4, <1>6, <1>9, <1>10 DEF Turn
<1>12. QED
  BY <1>3, <1>5, <1>11

(* ... or another try. *)
LEMMA RetriedAgain ==
  ASSUME NEW s, NEW m, Busy(s, m), "retry" \in s.flaws, NEW z \in Processor,
         Sound(z, m, insp.fetched), z.fresh = s.fresh, z.cacheQ = << >>, z.flaws = s.flaws,
         z.curr = s.curr, z.next = s.next, z.table = s.table
  PROVE  LET p == [z EXCEPT !.retry = "mctrl"] IN
         p \in Processor /\ Holds(p, m, trace, insp.fetched)
<1>1. PICK y : y = [z EXCEPT !.retry = "mctrl"]
  OBVIOUS
<1>2. /\ y \in Processor /\ y.mshr = z.mshr
      /\ y.fresh = z.fresh /\ y.curr = z.curr /\ y.next = z.next
      /\ y.window = z.window /\ y.cacheQ = z.cacheQ /\ y.l1 = z.l1 /\ y.llc = z.llc
      /\ y.table = z.table /\ y.flaws = z.flaws
  BY <1>1 DEF Processor
<1>3. Asked(y.table, m) /\ y.next \in 1 .. insp.fetched + 1
  BY <1>2 DEF Sound
<1>4. Sound(y, m, insp.fetched)
  BY <1>2, <1>3, SoundSame
<1>5. Len(y.cacheQ) <= 1
  BY <1>2
<1>6. Holds(y, m, trace, insp.fetched)
  BY <1>2, <1>4, <1>5, Flawed
<1>7. QED
  BY <1>1, <1>2, <1>6

(* handle_last(). *)
LEMMA Lasts ==
  ASSUME NEW s, NEW m, Busy(s, m), "retry" \in s.flaws
  PROVE  /\ handle_last(s).ok => (Turn(handle_last(s).s, m, insp.fetched)
                                  /\ handle_last(s).s.flaws # {})
         /\ ~handle_last(s).ok => (/\ handle_last(s).s \in Processor
                                   /\ Holds(handle_last(s).s, m, trace, insp.fetched))
<1>1. /\ s \in Processor /\ Sound(s, m, insp.fetched) /\ ~s.fresh /\ s.cacheQ = << >>
  BY BusyFacts DEF Busy
<1>2. PICK L : L = handle_last(s)
  OBVIOUS
<1>3. CASE s.retry = "mshr" /\ ~MshrAccepts(s)
  <2>1. L = [ok |-> FALSE, s |-> s]
    BY <1>2, <1>3 DEF handle_last
  <2>2. L.ok = FALSE /\ L.s = s
    BY <2>1
  <2>3. Len(s.cacheQ) <= 1
    BY <1>1
  <2>4. Holds(s, m, trace, insp.fetched)
    BY <1>1, <2>3, Flawed
  <2>5. QED
    BY <1>1, <1>2, <2>2, <2>4
<1>4. CASE ~(s.retry = "mshr" /\ ~MshrAccepts(s))
  <2>1. PICK p : p = IF s.retry = "mshr" THEN add_to_mshr(s) ELSE s
    OBVIOUS
  <2>2. Asking(s, m, p)
    BY <1>4, <2>1, Asks
  <2>3. PICK z : z = add_ins_again(p, "retried")
    OBVIOUS
  <2>4. /\ z \in Processor /\ Sound(z, m, insp.fetched)
        /\ z.fresh = s.fresh /\ z.curr = s.curr /\ z.next = s.next /\ z.table = s.table
        /\ z.cacheQ = s.cacheQ /\ z.llc = s.llc /\ z.flaws = s.flaws
    BY <2>2, <2>3, AddedAgain
  <2>5. z.flaws # {} /\ "retry" \in z.flaws /\ ~z.fresh /\ z.cacheQ = << >>
    BY <1>1, <2>4
  <2>6. PICK fill : fill = [z EXCEPT !.retry = "no",
                     !.llc = LlcSearch(@, Block(s, s.curr), trace[s.curr].type),
                     !.cacheQ = Append(@, [block |-> Block(s, s.curr),
                                           type |-> trace[s.curr].type, late |-> TRUE])]
    OBVIOUS
  <2>7. PICK held : held = [add_to_mshr(z) EXCEPT !.retry = "no"]
    OBVIOUS
  <2>8. PICK late : late = [z EXCEPT !.retry = "mctrl"]
    OBVIOUS
  <2>9. L = IF Has(s.llc, Block(s, s.curr)) THEN [ok |-> TRUE, s |-> fill]
            ELSE IF MshrAccepts(z) THEN [ok |-> TRUE, s |-> held]
            ELSE [ok |-> FALSE, s |-> late]
    BY <1>2, <1>4, <2>1, <2>3, <2>6, <2>7, <2>8 DEF handle_last
  <2>10. CASE L = [ok |-> TRUE, s |-> fill]
    <3>1. L.ok = TRUE /\ L.s = fill
      BY <2>10
    <3>2. Turn(fill, m, insp.fetched)
      BY <2>4, <2>5, <2>6, RetriedLlc
    <3>3. fill.flaws = z.flaws
      BY <2>4, <2>6 DEF Processor
    <3>4. QED
      BY <1>2, <2>5, <3>1, <3>2, <3>3
  <2>11. CASE L = [ok |-> TRUE, s |-> held] /\ MshrAccepts(z)
    <3>1. L.ok = TRUE /\ L.s = held
      BY <2>11
    <3>2. Turn(held, m, insp.fetched)
      BY <2>4, <2>5, <2>7, <2>11, RetriedMshr
    <3>3. held.flaws = z.flaws
      BY <2>4, <2>7 DEF Processor, add_to_mshr
    <3>4. QED
      BY <1>2, <2>5, <3>1, <3>2, <3>3
  <2>12. CASE L = [ok |-> FALSE, s |-> late]
    <3>1. L.ok = FALSE /\ L.s = late
      BY <2>12
    <3>2. late \in Processor /\ Holds(late, m, trace, insp.fetched)
      BY <2>4, <2>5, <2>8, RetriedAgain
    <3>3. QED
      BY <1>2, <3>1, <3>2
  <2>13. QED
    BY <2>9, <2>10, <2>11, <2>12
<1>5. QED
  BY <1>3, <1>4

(* After a retry another instruction, or two, are taken. *)
LEMMA AfterRetries ==
  ASSUME Context(trace, insp), NEW x \in Outcome, Turn(x.s, x.mem, insp.fetched), x.s.flaws # {},
         NEW y \in AfterRetry(x)
  PROVE  y \in Outcome /\ Holds(y.s, y.mem, trace, insp.fetched)
<1>1. PICK z \in NewRequest(x) : y \in IF IsMem(z.s.curr) THEN {z} ELSE NewRequest(z)
  BY DEF AfterRetry
<1>2. /\ z \in Outcome /\ Holds(z.s, z.mem, trace, insp.fetched)
      /\ z.s.retry = "no" /\ ~z.s.fresh /\ z.s.flaws = x.s.flaws /\ z.s.cacheQ = x.s.cacheQ
  BY <1>1, Taken
<1>3. CASE y = z
  BY <1>2, <1>3
<1>4. CASE y \in NewRequest(z)
  <2>1. Sound(z.s, z.mem, insp.fetched) /\ Len(z.s.cacheQ) <= 1
    BY <1>2 DEF Holds
  <2>2. Count(z.s, z.s.next - 1)
    BY <1>2 DEF Count
  <2>3. Turn(z.s, z.mem, insp.fetched)
    BY <1>2, <2>1, <2>2 DEF Turn
  <2>4. QED
    BY <1>2, <1>4, <2>3, Taken
<1>5. QED
  BY <1>1, <1>3, <1>4

-----------------------------------------------------------------------------
(* The second half of a step.                                              *)

LEMMA MidHolds ==
  ASSUME NEW s, NEW m, NEW t, NEW f, Mid(s, m, t, f), s.curr = NOP \/ MemIn(t, s.curr)
  PROVE  Holds(s, m, t, f)
<1>1. /\ Sound(s, m, f) /\ Where(s, t) /\ ~s.fresh /\ s.cacheQ = << >>
      /\ Count(s, s.next - IF MemIn(t, s.curr) THEN 2 ELSE 1)
  BY DEF Mid
<1>2. Len(s.cacheQ) <= 1
  BY <1>1
<1>3. (IF MemIn(t, s.curr) THEN 2 ELSE 1) = (IF s.curr = NOP THEN 1 ELSE 2)
  BY DEF MemIn
<1>4. Count(s, s.next - IF s.curr = NOP THEN 1 ELSE 2)
  BY <1>1, <1>3
<1>5. QED
  BY <1>1, <1>2, <1>4 DEF Holds

LEMMA MidBusy ==
  ASSUME Context(trace, insp), NEW s, NEW m, Mid(s, m, trace, insp.fetched),
         MemIn(trace, s.curr), ~Full(s)
  PROVE  Busy(s, m)
<1>1. /\ Sound(s, m, insp.fetched) /\ Where(s, trace) /\ ~s.fresh /\ s.cacheQ = << >>
      /\ Count(s, s.next - 2)
  BY DEF Mid
<1>2. s.window \in Seq(Entry)
  BY <1>1, Fields DEF Sound
<1>3. Len(s.window) \in Nat /\ WindowSize \in Nat
  BY <1>2, Constants
<1>4. Len(s.window) <= WindowSize
  BY <1>3 DEF Full
<1>5. QED
  BY <1>1, <1>4 DEF Busy

(* A full write-back queue ends the step before the instruction is looked  *)
(* at; a calculation will be repeated.                                     *)
LEMMA Stalled ==
  ASSUME NEW s, NEW m, NEW t, NEW f, Mid(s, m, t, f), s.curr # NOP, ~MemIn(t, s.curr)
  PROVE  LET p == [s EXCEPT !.flaws = @ \cup {"stall"}] IN p \in Processor /\ Holds(p, m, t, f)
<1>1. /\ Sound(s, m, f) /\ Where(s, t) /\ ~s.fresh /\ s.cacheQ = << >>
  BY DEF Mid
<1>2. /\ s \in Processor /\ s.retry = "no" /\ m \in Seq(MemReq)
      /\ Entries(s.mshr, s.flaws, s.cacheQ, m)
  BY <1>1 DEF Sound, Where
<1>3. s.flaws \cup {"stall"} \in SUBSET {"retry", "stall"}
  BY <1>2, Fields
<1>4. PICK y : y = [s EXCEPT !.flaws = @ \cup {"stall"}]
  OBVIOUS
<1>5. /\ y \in Processor /\ y.flaws = s.flaws \cup {"stall"}
      /\ y.fresh = s.fresh /\ y.curr = s.curr /\ y.next = s.next /\ y.retry = s.retry
      /\ y.window = s.window /\ y.mshr = s.mshr /\ y.cacheQ = s.cacheQ /\ y.l1 = s.l1
      /\ y.llc = s.llc /\ y.table = s.table
  <2>1. s \in Processor
    BY <1>2
  <2>2. QED
    BY <1>3, <1>4, <2>1 DEF Processor
<1>6. "stall" \in y.flaws /\ s.flaws \subseteq y.flaws
  BY <1>5
<1>7. Entries(y.mshr, y.flaws, y.cacheQ, m)
  BY <1>2, <1>5, <1>6 DEF Entries
<1>8. Sizes(y)
  BY <1>1, <1>5 DEF Sound, Sizes
<1>9. Sound(y, m, f)
  BY <1>1, <1>5, <1>7, <1>8 DEF Sound
<1>10. Where(y, t)
  BY <1>1, <1>2, <1>5 DEF Where
<1>11. \A n : Count(y, n)
  BY <1>6 DEF Count
<1>12. Len(y.cacheQ) <= 1
  BY <1>1, <1>5
<1>13. Holds(y, m, t, f)
  BY <1>1, <1>5, <1>9, <1>10, <1>11, <1>12 DEF Holds
<1>14. QED
  BY <1>4, <1>5, <1>13

LEMMA Ends ==
  ASSUME Context(trace, insp), NEW x \in Outcome, Mid(x.s, x.mem, trace, insp.fetched),
         NEW y \in CycleEnd(x)
  PROVE  y \in Outcome /\ Holds(y.s, y.mem, trace, insp.fetched)
<1>1. /\ x.s \in Processor /\ x.mem \in Seq(MemReq)
  BY DEF Outcome
<1>2. /\ Sound(x.s, x.mem, insp.fetched) /\ Where(x.s, trace) /\ ~x.s.fresh /\ x.s.cacheQ = << >>
      /\ Count(x.s, x.s.next - IF MemIn(trace, x.s.curr) THEN 2 ELSE 1)
  BY DEF Mid
<1>3. IsMem(x.s.curr) <=> MemIn(trace, x.s.curr)
  BY MemSame
<1>4. CASE x.s.wb # << >> /\ Len(x.s.wb) > WriteBackSize
  <2>1. CASE x.s.curr # NOP /\ ~MemIn(trace, x.s.curr)
    <3>1. PICK p : p = [x.s EXCEPT !.flaws = @ \cup {"stall"}]
      OBVIOUS
    <3>2. p \in Processor /\ Holds(p, x.mem, trace, insp.fetched)
      BY <2>1, <3>1, Stalled
    <3>3. y = [x EXCEPT !.s = p]
      BY <1>3, <1>4, <2>1, <3>1 DEF CycleEnd
    <3>4. y \in Outcome /\ y.s = p /\ y.mem = x.mem
      BY <3>2, <3>3, Rebuilt
    <3>5. QED
      BY <3>2, <3>4
  <2>2. CASE ~(x.s.curr # NOP /\ ~MemIn(trace, x.s.curr))
    <3>1. y = [x EXCEPT !.s = x.s]
      BY <1>3, <1>4, <2>2 DEF CycleEnd
    <3>2. y \in Outcome /\ y.s = x.s /\ y.mem = x.mem
      BY <1>1, <3>1, Rebuilt
    <3>3. Holds(x.s, x.mem, trace, insp.fetched)
      BY <2>2, MidHolds
    <3>4. QED
      BY <3>2, <3>3
  <2>3. QED
    BY <2>1, <2>2
<1>5. CASE ~(x.s.wb # << >> /\ Len(x.s.wb) > WriteBackSize) /\ x.s.retry # "no"
  <2>1. MemIn(trace, x.s.curr) /\ "retry" \in x.s.flaws
    BY <1>2, <1>5 DEF Where
  <2>2. CASE Full(x.s)
    <3>1. y = x
      BY <1>5, <2>2 DEF CycleEnd
    <3>2. QED
      BY <2>1, <3>1, MidHolds
  <2>3. CASE ~Full(x.s)
    <3>1. Busy(x.s, x.mem)
      BY <2>1, <2>3, MidBusy
    <3>2. PICK L : L = handle_last(x.s)
      OBVIOUS
    <3>3. /\ L.ok => (Turn(L.s, x.mem, insp.fetched) /\ L.s.flaws # {})
          /\ ~L.ok => (L.s \in Processor /\ Holds(L.s, x.mem, trace, insp.fetched))
      BY <2>1, <3>1, <3>2, Lasts
    <3>4. CASE L.ok
      <4>1. PICK z : z = [x EXCEPT !.s = L.s]
        OBVIOUS
      <4>2. L.s \in Processor /\ Turn(L.s, x.mem, insp.fetched) /\ L.s.flaws # {}
        BY <3>3, <3>4 DEF Turn, Sound
      <4>3. z \in Outcome /\ z.s = L.s /\ z.mem = x.mem
        BY <4>1, <4>2, Rebuilt
      <4>4. y \in AfterRetry(z)
        BY <1>5, <2>3, <3>2, <3>4, <4>1 DEF CycleEnd
      <4>5. QED
        BY <4>2, <4>3, <4>4, AfterRetries
    <3>5. CASE ~L.ok
      <4>1. y = [x EXCEPT !.s = L.s]
        BY <1>5, <2>3, <3>2, <3>5 DEF CycleEnd
      <4>2. L.s \in Processor /\ Holds(L.s, x.mem, trace, insp.fetched)
        BY <3>3, <3>5
      <4>3. y \in Outcome /\ y.s = L.s /\ y.mem = x.mem
        BY <4>1, <4>2, Rebuilt
      <4>4. QED
        BY <4>2, <4>3
    <3>6. QED
      BY <3>4, <3>5
  <2>4. QED
    BY <2>2, <2>3
<1>6. CASE /\ ~(x.s.wb # << >> /\ Len(x.s.wb) > WriteBackSize) /\ x.s.retry = "no"
           /\ MemIn(trace, x.s.curr)
  <2>1. y \in handle_current_req(x)
    BY <1>3, <1>6 DEF CycleEnd
  <2>2. CASE Full(x.s)
    <3>1. y = x
      BY <2>1, <2>2 DEF handle_current_req
    <3>2. QED
      BY <1>6, <3>1, MidHolds
  <2>3. CASE ~Full(x.s)
    <3>1. y \in Serve(x)
      BY <2>1, <2>3 DEF handle_current_req
    <3>2. Busy(x.s, x.mem)
      BY <1>6, <2>3, MidBusy
    <3>3. QED
      BY <1>6, <3>1, <3>2, Serves
  <2>4. QED
    BY <2>2, <2>3
<1>7. CASE /\ ~(x.s.wb # << >> /\ Len(x.s.wb) > WriteBackSize) /\ x.s.retry = "no"
           /\ ~MemIn(trace, x.s.curr)
  <2>1. y \in NewRequest(x)
    BY <1>3, <1>7 DEF CycleEnd
  <2>2. Len(x.s.cacheQ) <= 1
    BY <1>2
  <2>3. Count(x.s, x.s.next - 1)
    BY <1>2, <1>7
  <2>4. Turn(x.s, x.mem, insp.fetched)
    BY <1>2, <1>7, <2>2, <2>3 DEF Turn
  <2>5. QED
    BY <2>1, <2>4, Taken
<1>8. QED
  BY <1>4, <1>5, <1>6, <1>7

-----------------------------------------------------------------------------
(* An answer of the memory.                                                *)

(* The requests K stay; the others were the answered one and those that    *)
(* carry its address.                                                      *)
LEMMA Absorbed ==
  ASSUME NEW m \in Seq(MemReq), NEW table, Asked(table, m), NEW k \in DOMAIN m, NEW q,
         NEW K \in SUBSET (DOMAIN m),
         \A j \in DOMAIN m : j \in K \/ j = k \/ m[j].addr = m[k].addr
  PROVE  /\ Pick(m, K) \in Seq(MemReq) /\ Asked(table, Pick(m, K))
         /\ \A c : (c # m[k].block /\ Coming(q, m, c)) => Coming(q, Pick(m, K), c)
<1>1. PICK n : n = Pick(m, K)
  OBVIOUS
<1>2. /\ n \in Seq(MemReq)
      /\ \A i \in 1 .. Len(n) : \E j \in K : n[i] = m[j]
      /\ \A j \in K : \E i \in 1 .. Len(n) : n[i] = m[j]
  BY <1>1, Picked
<1>3. DOMAIN n = 1 .. Len(n)
  BY <1>2
<1>4. Asked(table, n)
  <2>1. \A i \in DOMAIN n : \E j \in DOMAIN m : n[i] = m[j]
    BY <1>2, <1>3
  <2>2. QED
    BY <2>1 DEF Asked
<1>5. ASSUME NEW c, c # m[k].block, Coming(q, m, c) PROVE Coming(q, n, c)
  <2>1. CASE \E j \in DOMAIN q : q[j].block = c
    BY <2>1 DEF Coming
  <2>2. CASE \E j \in DOMAIN m : m[j].addr # 0 /\ m[j].block = c
    <3>1. PICK j \in DOMAIN m : m[j].addr # 0 /\ m[j].block = c
      BY <2>2
    <3>2. j \in K
      <4>1. j # k
        BY <1>5, <3>1
      <4>2. m[j].addr # m[k].addr
        <5>1. m[j].block = table[m[j].addr]
          BY <3>1 DEF Asked
        <5>2. m[k].addr # 0 => m[k].block = table[m[k].addr]
          BY DEF Asked
        <5>3. QED
          BY <1>5, <3>1, <5>1, <5>2
      <4>3. QED
        BY <4>1, <4>2
    <3>3. PICK i \in DOMAIN n : n[i] = m[j]
      BY <1>2, <1>3, <3>2
    <3>4. QED
      BY <3>1, <3>3 DEF Coming
  <2>3. QED
    BY <1>5, <2>1, <2>2 DEF Coming
<1>6. QED
  BY <1>1, <1>2, <1>4, <1>5

(* The caches and the write-back queue after handle_read_callback() or     *)
(* handle_write_callback() brought in block b.                             *)
LEMMA Cached ==
  ASSUME NEW s \in Processor, Sizes(s), NEW b \in Blocks, NEW type
  PROVE  /\ LET l == Add(s.llc, LlcAssoc, b, type) IN l \in Seq(Line) /\ Len(l) <= LlcAssoc
         /\ LET l == Without(IF Has(s.l1, b) THEN L1Search(s.l1, b, "READ")
                                             ELSE Add(s.l1, L1Assoc, b, type), Victim(s.llc))
            IN  l \in Seq(Line) /\ Len(l) <= L1Assoc
         /\ Victim(s.llc) # NoBlock => Victim(s.llc) \in Blocks
<1>1. /\ s.llc \in Seq(Line) /\ s.l1 \in Seq(Line)
      /\ Len(s.llc) <= LlcAssoc /\ Len(s.l1) <= L1Assoc
  BY Fields DEF Sizes
<1>2. LlcAssoc \in Nat \ {0} /\ L1Assoc \in Nat \ {0}
  BY Constants
<1>3. LET l == Add(s.llc, LlcAssoc, b, type) IN l \in Seq(Line) /\ Len(l) <= LlcAssoc
  BY <1>1, <1>2, AddLines
<1>4. PICK c \in Seq(Line) : /\ c = IF Has(s.l1, b) THEN L1Search(s.l1, b, "READ")
                                                   ELSE Add(s.l1, L1Assoc, b, type)
                             /\ Len(c) <= L1Assoc
  BY <1>1, FilledL1
<1>5. PICK d : d = Without(c, Victim(s.llc))
  OBVIOUS
<1>6. d \in Seq(Line) /\ Len(d) <= Len(c)
  BY <1>5, WithoutLines
<1>7. Len(d) <= L1Assoc
  BY <1>2, <1>4, <1>6
<1>8. Victim(s.llc) # NoBlock => Victim(s.llc) \in Blocks
  <2>1. ASSUME Len(s.llc) = LlcAssoc PROVE Head(s.llc).block \in Blocks
    <3>1. s.llc # << >>
      BY <1>1, <1>2, <2>1
    <3>2. Head(s.llc) \in Line
      BY <1>1, <3>1
    <3>3. QED
      BY <3>2 DEF Line
  <2>2. QED
    BY <2>1 DEF Victim
<1>9. QED
  BY <1>3, <1>4, <1>5, <1>6, <1>7, <1>8

(* What an answer for block b makes of the processor. *)
Answered(s, y, b) ==
  /\ y \in Processor /\ y.window = set_ready(s.window, b) /\ y.mshr = RemoveAll(s.mshr, b)
  /\ Len(y.l1) <= L1Assoc /\ Len(y.llc) <= LlcAssoc
  /\ y.fresh = s.fresh /\ y.curr = s.curr /\ y.next = s.next /\ y.retry = s.retry
  /\ y.cacheQ = s.cacheQ /\ y.table = s.table /\ y.done = s.done /\ y.flaws = s.flaws

LEMMA CalledBack ==
  ASSUME NEW s \in Processor, Sizes(s), NEW r \in MemReq
  PROVE  Answered(s, Callback(s, r), r.block)
<1>1. PICK b \in Blocks : b = r.block
  BY DEF MemReq
<1>2. PICK w \in Seq(Entry) : w = set_ready(s.window, b)
  BY Fields, ReadyWindow
<1>3. PICK h \in SUBSET [addr : 1 .. MaxAddr, block : Blocks] : h = RemoveAll(s.mshr, b)
  BY Fields DEF RemoveAll
<1>4. Len(s.l1) <= L1Assoc /\ Len(s.llc) <= LlcAssoc
  BY DEF Sizes
<1>5. PICK p : p = [s EXCEPT !.window = set_ready(@, b), !.mshr = RemoveAll(@, b)]
  OBVIOUS
<1>6. p = [s EXCEPT !.window = w, !.mshr = h]
  BY <1>2, <1>3, <1>5
<1>7. /\ p \in Processor /\ p.window = w /\ p.mshr = h /\ p.l1 = s.l1 /\ p.llc = s.llc
      /\ p.wb = s.wb /\ p.fresh = s.fresh /\ p.curr = s.curr /\ p.next = s.next
      /\ p.retry = s.retry /\ p.cacheQ = s.cacheQ /\ p.table = s.table /\ p.done = s.done
      /\ p.flaws = s.flaws
  BY <1>6 DEF Processor
<1>8. CASE Has(s.llc, b)
  <2>1. Callback(s, r) = p
    BY <1>1, <1>5, <1>8 DEF Callback
  <2>2. QED
    BY <1>1, <1>2, <1>3, <1>4, <1>7, <2>1 DEF Answered
<1>9. CASE ~Has(s.llc, b)
  <2>1. PICK v : v = Victim(s.llc) /\ (v # NoBlock => v \in Blocks)
    BY Cached
  <2>2. PICK c \in Seq(Line) : c = Add(s.llc, LlcAssoc, b, r.type) /\ Len(c) <= LlcAssoc
    BY Cached
  <2>3. PICK l \in Seq(Line) :
          /\ l = Without(IF Has(s.l1, b) THEN L1Search(s.l1, b, "READ")
                                         ELSE Add(s.l1, L1Assoc, b, r.type), v)
          /\ Len(l) <= L1Assoc
    BY <2>1, Cached
  <2>4. PICK q \in Seq(Blocks) :
          q = IF v = NoBlock \/ \E k \in DOMAIN s.wb : s.wb[k] = v THEN s.wb ELSE Append(s.wb, v)
    <3>1. s.wb \in Seq(Blocks)
      BY Fields
    <3>2. v # NoBlock => Append(s.wb, v) \in Seq(Blocks)
      BY <2>1, <3>1
    <3>3. QED
      BY <3>1, <3>2
  <2>5. PICK y : y = [p EXCEPT !.llc = c, !.l1 = l, !.wb = q]
    OBVIOUS
  <2>6. y = Callback(s, r)
    BY <1>1, <1>5, <1>7, <1>9, <2>1, <2>2, <2>3, <2>4, <2>5 DEF Callback
  <2>7. /\ y \in Processor /\ y.window = p.window /\ y.mshr = p.mshr /\ y.l1 = l /\ y.llc = c
        /\ y.fresh = p.fresh /\ y.curr = p.curr /\ y.next = p.next /\ y.retry = p.retry
        /\ y.cacheQ = p.cacheQ /\ y.table = p.table /\ y.done = p.done /\ y.flaws = p.flaws
    BY <1>7, <2>5 DEF Processor
  <2>8. Answered(s, y, b)
    BY <1>2, <1>3, <1>7, <2>2, <2>3, <2>7 DEF Answered
  <2>9. QED
    BY <1>1, <2>6, <2>8
<1>10. QED
  BY <1>8, <1>9

LEMMA AnswerHolds ==
  ASSUME NEW s, NEW m, NEW t, NEW f, Holds(s, m, t, f), NEW k \in DOMAIN m,
         NEW K \in SUBSET (DOMAIN m),
         \A j \in DOMAIN m : j \in K \/ j = k \/ m[j].addr = m[k].addr
  PROVE  Holds(Callback(s, m[k]), Pick(m, K), t, f)
<1>1. /\ s \in Processor /\ m \in Seq(MemReq) /\ s.next \in 1 .. f + 1 /\ Sizes(s)
      /\ Asked(s.table, m) /\ Waits(s.window, s.mshr, s.cacheQ, m)
      /\ Entries(s.mshr, s.flaws, s.cacheQ, m)
  BY DEF Holds, Sound
<1>2. /\ Where(s, t) /\ (s.fresh => s.curr = NOP) /\ Len(s.cacheQ) <= 1
      /\ Count(s, s.next - IF s.curr = NOP THEN 1 ELSE 2)
  BY DEF Holds
<1>3. PICK b : b = m[k].block
  OBVIOUS
<1>4. PICK n : n = Pick(m, K)
  OBVIOUS
<1>5. /\ n \in Seq(MemReq) /\ Asked(s.table, n)
      /\ \A c : (c # b /\ Coming(s.cacheQ, m, c)) => Coming(s.cacheQ, n, c)
  BY <1>1, <1>3, <1>4, Absorbed
<1>6. PICK y : y = Callback(s, m[k])
  OBVIOUS
<1>7. Answered(s, y, b)
  <2>1. m[k] \in MemReq
    BY <1>1
  <2>2. QED
    BY <1>1, <1>3, <1>6, <2>1, CalledBack
<1>8. /\ y \in Processor /\ y.window = set_ready(s.window, b) /\ y.mshr = RemoveAll(s.mshr, b)
      /\ Len(y.l1) <= L1Assoc /\ Len(y.llc) <= LlcAssoc
      /\ y.fresh = s.fresh /\ y.curr = s.curr /\ y.next = s.next /\ y.retry = s.retry
      /\ y.cacheQ = s.cacheQ /\ y.table = s.table /\ y.done = s.done /\ y.flaws = s.flaws
  BY <1>7 DEF Answered
<1>9. s.window \in Seq(Entry)
  BY <1>1, Fields
<1>10. Waits(y.window, y.mshr, y.cacheQ, n)
  BY <1>1, <1>5, <1>8, <1>9, WaitsArrived
<1>11. Entries(y.mshr, y.flaws, y.cacheQ, n)
  BY <1>1, <1>5, <1>8, EntriesArrived
<1>12. Sizes(y)
  <2>1. IsFiniteSet(y.mshr) /\ Cardinality(y.mshr) <= MshrSize + 1
    BY <1>1, <1>8, RemovedSize DEF Sizes
  <2>2. Len(y.window) = Len(s.window)
    BY <1>8, <1>9, ReadyWindow
  <2>3. QED
    BY <1>1, <1>8, <2>1, <2>2 DEF Sizes
<1>13. Sound(y, n, f)
  BY <1>1, <1>5, <1>8, <1>10, <1>11, <1>12 DEF Sound
<1>14. Where(y, t)
  BY <1>2, <1>8 DEF Where
<1>15. Count(y, y.next - IF y.curr = NOP THEN 1 ELSE 2)
  BY <1>2, <1>8 DEF Count
<1>16. Holds(y, n, t, f)
  BY <1>2, <1>8, <1>13, <1>14, <1>15 DEF Holds
<1>17. QED
  BY <1>4, <1>6, <1>16

-----------------------------------------------------------------------------
(* The steps of the specification.                                         *)

LEMMA InitHolds ==
  ASSUME Init PROVE IInv
<1>1. /\ phase = "insp" /\ trace \in Traces /\ insp = [fetched |-> 0, eof |-> FALSE]
      /\ mem = << >> /\ left = [refused |-> MaxRefused, idle |-> MaxIdle]
      /\ proc = [fresh |-> TRUE, curr |-> NOP, next |-> 1, retry |-> "no", window |-> << >>,
                 mshr |-> {}, cacheQ |-> << >>, l1 |-> << >>, llc |-> << >>, wb |-> << >>,
                 table |-> << >>, done |-> << >>, flaws |-> {}]
  BY DEF Init
<1>2. /\ proc.fresh = TRUE /\ proc.curr = NOP /\ proc.next = 1 /\ proc.retry = "no"
      /\ proc.window = << >> /\ proc.mshr = {} /\ proc.cacheQ = << >> /\ proc.l1 = << >>
      /\ proc.llc = << >> /\ proc.table = << >> /\ proc.done = << >> /\ proc.flaws = {}
  BY <1>1
<1>3. << >> \in Tables
  <2>1. << >> \in [{} -> Blocks]
    OBVIOUS
  <2>2. {} \in SUBSET (1 .. MaxAddr)
    OBVIOUS
  <2>3. QED
    BY <2>1, <2>2 DEF Tables
<1>4. proc \in Processor
  <2>1. /\ << >> \in Seq(Entry) /\ << >> \in Seq(CacheReq) /\ << >> \in Seq(Line)
        /\ << >> \in Seq(Blocks) /\ << >> \in Seq(Nat)
    OBVIOUS
  <2>2. NOP \in Nat
    BY DEF NOP
  <2>3. QED
    BY <1>1, <1>3, <2>1, <2>2 DEF Processor
<1>5. Context(trace, insp) /\ insp.fetched = 0 /\ ~insp.eof
  <2>1. trace \in Seq(Instruction)
    BY <1>1, Constants
  <2>2. 0 \in 0 .. Len(trace)
    BY <2>1
  <2>3. QED
    BY <1>1, <2>2 DEF Context
<1>6. left \in Left
  BY <1>1, Constants DEF Left
<1>7. Sizes(proc)
  <2>1. IsFiniteSet({}) /\ Cardinality({}) = 0
    BY FS_EmptySet
  <2>2. QED
    BY <1>2, <2>1, Constants DEF Sizes
<1>8. mem \in Seq(MemReq) /\ Asked(proc.table, mem)
  BY <1>1 DEF Asked
<1>9. /\ Waits(proc.window, proc.mshr, proc.cacheQ, mem)
      /\ Entries(proc.mshr, proc.flaws, proc.cacheQ, mem)
  BY <1>2 DEF Waits, Entries
<1>10. Sound(proc, mem, insp.fetched)
  BY <1>2, <1>4, <1>5, <1>7, <1>8, <1>9 DEF Sound
<1>11. Where(proc, trace)
  BY <1>2 DEF Where, MemIn
<1>12. Count(proc, proc.next - 1)
  <2>1. << >> = [j \in 1 .. 0 |-> j]
    OBVIOUS
  <2>2. proc.next - 1 = 0
    BY <1>2
  <2>3. QED
    BY <1>2, <2>1, <2>2 DEF Count
<1>13. Len(proc.cacheQ) <= 1
  BY <1>2
<1>14. Holds(proc, mem, trace, insp.fetched)
  BY <1>2, <1>10, <1>11, <1>12, <1>13 DEF Holds
<1>15. QED
  BY <1>1, <1>5, <1>6, <1>14 DEF IInv

(* Reading an instruction leaves room for it. *)
LEMMA HoldsMore ==
  ASSUME NEW s, NEW m, NEW t, NEW f \in Nat, Holds(s, m, t, f)
  PROVE  Holds(s, m, t, f + 1)
<1>1. s.next \in 1 .. f + 1 => s.next \in 1 .. (f + 1) + 1
  OBVIOUS
<1>2. QED
  BY <1>1 DEF Holds, Sound

LEMMA InspHolds ==
  ASSUME IInv, InspStep PROVE IInv'
<1>1. /\ Context(trace, insp) /\ left \in Left /\ Holds(proc, mem, trace, insp.fetched)
      /\ insp.eof => insp.fetched = Len(trace)
  BY DEF IInv
<1>2. /\ phase' = "memory" /\ trace' = trace /\ proc' = proc /\ mem' = mem /\ left' = left
  BY DEF InspStep
<1>3. /\ trace \in Traces /\ insp \in [fetched : 0 .. Len(trace), eof : BOOLEAN]
      /\ insp.fetched \in Nat /\ Len(trace) \in Nat
  BY <1>1, Read DEF Context
<1>4. CASE insp' = insp
  BY <1>1, <1>2, <1>4 DEF IInv
<1>5. CASE insp.fetched < Len(trace) /\ ~insp.eof /\ insp' = [insp EXCEPT !.fetched = @ + 1]
  <2>1. insp'.fetched = insp.fetched + 1 /\ insp'.eof = insp.eof
    BY <1>3, <1>5
  <2>2. insp' \in [fetched : 0 .. Len(trace), eof : BOOLEAN]
    BY <1>3, <1>5
  <2>3. Holds(proc, mem, trace, insp'.fetched)
    BY <1>1, <1>3, <2>1, HoldsMore
  <2>4. Context(trace, insp')
    BY <1>3, <2>2 DEF Context
  <2>5. QED
    BY <1>1, <1>2, <1>5, <2>1, <2>3, <2>4 DEF IInv
<1>6. CASE ~(insp.fetched < Len(trace)) /\ insp' = [insp EXCEPT !.eof = TRUE]
  <2>1. insp'.fetched = insp.fetched /\ insp.fetched = Len(trace)
    BY <1>3, <1>6
  <2>2. insp' \in [fetched : 0 .. Len(trace), eof : BOOLEAN]
    BY <1>3, <1>6
  <2>3. Context(trace, insp')
    BY <1>3, <2>2 DEF Context
  <2>4. QED
    BY <1>1, <1>2, <2>1, <2>3 DEF IInv
<1>7. QED
  BY <1>4, <1>5, <1>6 DEF InspStep

LEMMA MemoryHolds ==
  ASSUME IInv, NEW k \in DOMAIN mem, MemoryAnswers(k) PROVE IInv'
<1>1. /\ Context(trace, insp) /\ left \in Left /\ Holds(proc, mem, trace, insp.fetched)
      /\ insp.eof => insp.fetched = Len(trace)
  BY DEF IInv
<1>2. /\ phase' = "proc" /\ trace' = trace /\ insp' = insp /\ left' = left
      /\ proc' = Callback(proc, mem[k])
  BY DEF MemoryAnswers
<1>3. PICK gone \in SUBSET {j \in DOMAIN mem \ {k} : mem[j].addr = mem[k].addr} :
        mem' = Pick(mem, DOMAIN mem \ (gone \cup {k}))
  BY DEF MemoryAnswers
<1>4. PICK K : K = DOMAIN mem \ (gone \cup {k})
  OBVIOUS
<1>5. K \in SUBSET (DOMAIN mem) /\ mem' = Pick(mem, K)
  BY <1>3, <1>4
<1>6. \A j \in DOMAIN mem : j \in K \/ j = k \/ mem[j].addr = mem[k].addr
  BY <1>4
<1>7. Holds(Callback(proc, mem[k]), Pick(mem, K), trace, insp.fetched)
  BY <1>1, <1>5, <1>6, AnswerHolds
<1>8. Holds(proc', mem', trace', insp'.fetched)
  BY <1>2, <1>5, <1>7
<1>9. QED
  BY <1>1, <1>2, <1>8 DEF IInv

LEMMA ProcHolds ==
  ASSUME IInv, ProcStep PROVE IInv'
<1>1. /\ Context(trace, insp) /\ left \in Left /\ Holds(proc, mem, trace, insp.fetched)
      /\ insp.eof => insp.fetched = Len(trace)
  BY DEF IInv
<1>2. trace' = trace /\ insp' = insp
  BY DEF ProcStep
<1>3. PICK x0 : x0 = [s |-> proc, mem |-> mem, left |-> left]
  OBVIOUS
<1>4. PICK start \in FirstRequest(x0) : \E wb \in WriteBackStep([start EXCEPT !.s = CycleStart(@)]) :
      \E x \in CycleEnd(wb) :
        /\ proc' = x.s /\ mem' = x.mem /\ left' = x.left
        /\ phase' = IF Done(x.s, x.mem) THEN "stopped" ELSE "insp"
  BY <1>3 DEF ProcStep
<1>5. PICK mid : mid = [start EXCEPT !.s = CycleStart(@)]
  OBVIOUS
<1>6. PICK wb \in WriteBackStep(mid) : \E x \in CycleEnd(wb) :
        /\ proc' = x.s /\ mem' = x.mem /\ left' = x.left
        /\ phase' = IF Done(x.s, x.mem) THEN "stopped" ELSE "insp"
  BY <1>4, <1>5
<1>7. PICK x \in CycleEnd(wb) :
        /\ proc' = x.s /\ mem' = x.mem /\ left' = x.left
        /\ phase' = IF Done(x.s, x.mem) THEN "stopped" ELSE "insp"
  BY <1>6
<1>8. x0 \in Outcome /\ x0.s = proc /\ x0.mem = mem
  <2>1. proc \in Processor /\ mem \in Seq(MemReq)
    BY <1>1 DEF Holds, Sound
  <2>2. QED
    BY <1>1, <1>3, <2>1 DEF Outcome
<1>9. /\ start \in Outcome /\ Holds(start.s, start.mem, trace, insp.fetched) /\ ~start.s.fresh
  <2>1. Holds(x0.s, x0.mem, trace, insp.fetched)
    BY <1>1, <1>8
  <2>2. QED
    BY <1>1, <1>8, <2>1, First
<1>10. Mid(CycleStart(start.s), start.mem, trace, insp.fetched)
  BY <1>1, <1>9, Started
<1>11. mid \in Outcome /\ mid.s = CycleStart(start.s) /\ mid.mem = start.mem
  <2>1. CycleStart(start.s) \in Processor
    BY <1>10 DEF Mid, Sound
  <2>2. PICK p \in Processor : p = CycleStart(start.s)
    BY <2>1
  <2>3. mid = [start EXCEPT !.s = p]
    BY <1>5, <2>2
  <2>4. QED
    BY <1>9, <2>2, <2>3, Rebuilt
<1>12. Mid(mid.s, mid.mem, trace, insp.fetched)
  BY <1>10, <1>11
<1>13. wb \in Outcome /\ Mid(wb.s, wb.mem, trace, insp.fetched)
  BY <1>11, <1>12, WroteBack
<1>14. x \in Outcome /\ Holds(x.s, x.mem, trace, insp.fetched)
  BY <1>1, <1>13, Ends
<1>15. Holds(proc', mem', trace', insp'.fetched) /\ left' \in Left
  BY <1>2, <1>7, <1>14 DEF Outcome
<1>16. phase' \in {"insp", "stopped"} /\ (phase' = "stopped" => Done(x.s, x.mem))
  BY <1>7
<1>17. phase' = "stopped" => Done(proc, mem)'
  BY <1>2, <1>7, <1>16 DEF Done
<1>18. QED
  BY <1>1, <1>2, <1>15, <1>16, <1>17 DEF IInv

LEMMA StepHolds ==
  ASSUME IInv, [Next]_vars PROVE IInv'
<1>1. CASE InspStep
  BY <1>1, InspHolds
<1>2. CASE \E k \in DOMAIN mem : MemoryAnswers(k)
  BY <1>2, MemoryHolds
<1>3. CASE MemoryIdles
  BY <1>3 DEF MemoryIdles, IInv
<1>4. CASE ProcStep
  BY <1>4, ProcHolds
<1>5. CASE ProcHangs
  BY <1>5 DEF ProcHangs, IInv
<1>6. CASE MemoryThrows
  BY <1>6 DEF MemoryThrows, IInv
<1>7. CASE Ended \/ UNCHANGED vars
  <2>1. UNCHANGED vars
    BY <1>7 DEF Ended
  <2>2. QED
    BY <2>1 DEF vars, IInv, Done
<1>8. QED
  BY <1>1, <1>2, <1>3, <1>4, <1>5, <1>6, <1>7 DEF Next

(* The inductive invariant: between two steps every waiting instruction    *)
(* has a request of its own address or a fill of L1 on its way and an      *)
(* entry in the MSHR, requests of one address ask for one block, and until *)
(* the first flaw the history is a prefix of the trace.                    *)
THEOREM Inductive == Spec => []IInv
<1>1. Init => IInv
  BY InitHolds
<1>2. IInv /\ [Next]_vars => IInv'
  BY StepHolds
<1>3. QED
  BY <1>1, <1>2, PTL DEF Spec

(* The window, the MSHR, the caches and the queue of fills keep within     *)
(* their limits, whatever is refused and retried.                          *)
THEOREM Typed == Spec => []TypeOK
<1>1. ASSUME IInv PROVE TypeOK
  <2>1. /\ phase \in {"insp", "memory", "proc", "stopped", "hung", "threw"}
        /\ trace \in Traces /\ insp \in [fetched : 0 .. Len(trace), eof : BOOLEAN]
        /\ left \in [refused : 0 .. MaxRefused, idle : 0 .. MaxIdle]
        /\ Context(trace, insp) /\ Holds(proc, mem, trace, insp.fetched)
    BY <1>1 DEF IInv, Context, Left
  <2>2. /\ proc \in Processor /\ mem \in Seq(MemReq) /\ proc.next \in 1 .. insp.fetched + 1
        /\ Sizes(proc) /\ Len(proc.cacheQ) <= 1 /\ (proc.curr = NOP \/ proc.curr = proc.next - 1)
    BY <2>1 DEF Holds, Sound, Where
  <2>3. insp.fetched \in Nat
    BY <2>1, Read
  <2>4. proc.curr \in 0 .. insp.fetched
    BY <2>2, <2>3 DEF NOP
  <2>5. QED
    BY <2>1, <2>2, <2>4 DEF TypeOK, Sizes
<1>2. QED
  BY <1>1, Inductive, PTL

(* Until a retry or a stall of the write-back queue, every instruction     *)
(* goes to the ALU or into the window once and in the order of the trace.  *)
THEOREM TakenInOrder == Spec => []InOrderOnce
<1>1. ASSUME IInv PROVE InOrderOnce
  BY <1>1 DEF IInv, Holds, Count, InOrderOnce
<1>2. QED
  BY <1>1, Inductive, PTL

(* Nothing waits for data that nobody brings, but for retried instructions *)
(* and those taken for a repetition.                                       *)
THEOREM Served == Spec => []WaitingIsServed
<1>1. ASSUME IInv PROVE WaitingIsServed
  <2>1. /\ Waits(proc.window, proc.mshr, proc.cacheQ, mem)
        /\ Entries(proc.mshr, proc.flaws, proc.cacheQ, mem)
    BY <1>1 DEF IInv, Holds, Sound
  <2>2. \A b : Coming(proc.cacheQ, mem, b) => InFlight(b)
    BY DEF Coming, InFlight
  <2>3. QED
    BY <2>1, <2>2 DEF WaitingIsServed, Waits, Entries
<1>2. QED
  BY <1>1, Inductive, PTL

(* What waits in the window is in the MSHR, the only place where done()    *)
(* looks.                                                                  *)
THEOREM InMshr == Spec => []WaitingInMshr
<1>1. ASSUME IInv PROVE WaitingInMshr
  BY <1>1 DEF IInv, Holds, Sound, Waits, WaitingInMshr
<1>2. QED
  BY <1>1, Inductive, PTL

(* run() returns only after the whole trace, with no instruction waiting   *)
(* but retried ones and mistaken repetitions.                              *)
THEOREM StopsServed == Spec => []StopMeansServed
<1>1. ASSUME IInv PROVE StopMeansServed
  <2>1. ASSUME phase = "stopped"
        PROVE  /\ proc.next = Len(trace) + 1
               /\ \A k \in DOMAIN proc.window :
                    proc.window[k].ready \/ proc.window[k].via # "served"
    <3>1. /\ proc.mshr = {} /\ insp.eof /\ proc.next > insp.fetched
          /\ insp.fetched = Len(trace)
      BY <1>1, <2>1 DEF IInv, Done
    <3>2. /\ proc.next \in 1 .. insp.fetched + 1 /\ Context(trace, insp)
          /\ Waits(proc.window, proc.mshr, proc.cacheQ, mem)
      BY <1>1 DEF IInv, Holds, Sound
    <3>3. insp.fetched \in Nat
      BY <3>2, Read
    <3>4. proc.next = Len(trace) + 1
      BY <3>1, <3>2, <3>3
    <3>5. \A k \in DOMAIN proc.window :
            proc.window[k].ready \/ proc.window[k].via # "served"
      BY <3>1, <3>2 DEF Waits
    <3>6. QED
      BY <3>4, <3>5
  <2>2. QED
    BY <2>1 DEF StopMeansServed
<1>2. QED
  BY <1>1, Inductive, PTL
==============================================================================
