------------------------ MODULE PIMInterconnectProofs ------------------------
(***************************************************************************)
(* Proofs about PIMInterconnect for every number of host ports, every size *)
(* of the queues and all thresholds.                                       *)
(*                                                                         *)
(* The actions pick one of the outcomes [layer, dram, held, aborted] of a  *)
(* chain of calls, so the parts of the inductive invariant are stated      *)
(* about values l, d and h, and every operator on the way has a lemma that *)
(* says what holds of its outcomes.  P is the set of ports that the layer  *)
(* remembers exactly: all of them, or the caches only once the compute     *)
(* event of the kernel has sent a refused write again.                     *)
(***************************************************************************)
EXTENDS PIMInterconnect, FiniteSetTheorems, TLAPS

Helds == [Ports -> Requests \union {NoReq}]

(* The controller: its queues are within bounds, a retry flag is set only  *)
(* while the queue it is about is full, reads and many writes keep the     *)
(* event scheduled, and the bus turns to writes only when there are some.  *)
DramGood(d) ==
  /\ d \in Drams
  /\ d.reads + d.resps <= ReadBufferSize
  /\ d.writes <= WriteBufferSize
  /\ d.reads > 0 => d.nextReq
  /\ d.writes > WriteLowThreshold => d.nextReq
  /\ d.busStateNext = "WRITE" => d.writes > 0
  /\ d.retryRdReq => d.reads + d.resps = ReadBufferSize
  /\ d.retryWrReq => d.writes = WriteBufferSize /\ d.nextReq
  /\ ~(d.retryRdReq /\ d.retryWrReq)

(* The layer: a port that holds a request is in the list or in the slot    *)
(* for the peer; a port of P is there only then, and once; an idle layer   *)
(* keeps nobody waiting for itself.                                        *)
Once(w, P) == \A i, j \in 1 .. Len(w) : w[i] = w[j] /\ w[i] \in P => i = j

LayerGood(l, h, P) ==
  /\ l \in Layers /\ h \in Helds
  /\ Once(l.waitingForLayer, P)
  /\ l.waitingForPeer \in P => l.waitingForPeer \notin ListOf(l.waitingForLayer)
  /\ \A p \in Ports : h[p] # NoReq => p \in ListOf(l.waitingForLayer) \/ p = l.waitingForPeer
  /\ \A p \in P : p \in ListOf(l.waitingForLayer) \/ p = l.waitingForPeer => h[p] # NoReq
  /\ l.waitingForLayer # << >> => l.state = "BUSY" \/ l.waitingForPeer # NoPort

(* Layer and controller agree about who is to be woken, and the host's     *)
(* requests that the memory port refuses by itself are as announced.       *)
WakeGood(l, d) ==
  /\ d.retryRdReq \/ d.retryWrReq => l.waitingForPeer # NoPort
  /\ l.waitingForPeer # NoPort => d.retryRdReq \/ d.retryWrReq \/ TouchesLocked

HeldGood(h) == \A p \in Hosts : h[p].locked => TouchesLocked

Good(l, d, h, P) == DramGood(d) /\ LayerGood(l, h, P) /\ WakeGood(l, d) /\ HeldGood(h)

(* The inductive invariant. *)
IInv == /\ Good(layer, dram, held, Exact)
        /\ command \in 0 .. 4
        /\ compute \in {"off", "due", "again", "stray"}
        /\ compute # "off" => command = 4
        /\ aborted \in BOOLEAN
        /\ AssertionsHold

-----------------------------------------------------------------------------
(* A controller that accepts a request, or refuses it because its queue is *)
(* full, stays good when no retry was owed before.                         *)
LEMMA RecvGood ==
  ASSUME NEW d, DramGood(d), ~d.retryRdReq, ~d.retryWrReq,
         NEW req \in Requests, NEW r \in recvTimingReq(d, req)
  PROVE  /\ r.ok \in BOOLEAN
         /\ DramGood(r.dram)
         /\ r.ok => ~r.dram.retryRdReq /\ ~r.dram.retryWrReq
         /\ ~r.ok => r.dram.retryRdReq \/ r.dram.retryWrReq
<1> USE InterconnectAssumption
<1>1. CASE req.cmd = "read" /\ readQueueFull(d)
  <2> DEFINE e == [d EXCEPT !.retryRdReq = TRUE]
  <2>1. r = [ok |-> FALSE, dram |-> e]
    BY <1>1 DEF recvTimingReq, Refuse
  <2>2. /\ e \in Drams
        /\ e.reads = d.reads /\ e.resps = d.resps /\ e.writes = d.writes
        /\ e.busStateNext = d.busStateNext /\ e.nextReq = d.nextReq
        /\ e.retryRdReq = TRUE /\ e.retryWrReq = d.retryWrReq
    BY DEF DramGood, Drams
  <2> HIDE DEF e
  <2>3. DramGood(e)
    BY <1>1, <2>2 DEF readQueueFull, DramGood, Drams
  <2>4. QED
    BY <2>1, <2>2, <2>3
<1>2. CASE req.cmd = "read" /\ ~readQueueFull(d)
  <2>1. PICK e \in addToReadQueue(d) : r = [ok |-> TRUE, dram |-> e]
    BY <1>2 DEF recvTimingReq, Accept
  <2>2. e = d \/ e = [d EXCEPT !.reads = @ + 1, !.nextReq = TRUE]
    BY DEF addToReadQueue
  <2>3. CASE e = d
    BY <2>1, <2>3
  <2>4. CASE e = [d EXCEPT !.reads = @ + 1, !.nextReq = TRUE]
    <3> d.reads + 1 \in Nat
      BY DEF DramGood, Drams
    <3>1. /\ e \in Drams
          /\ e.reads = d.reads + 1 /\ e.resps = d.resps /\ e.writes = d.writes
          /\ e.busStateNext = d.busStateNext /\ e.nextReq = TRUE
          /\ e.retryRdReq = d.retryRdReq /\ e.retryWrReq = d.retryWrReq
      BY <2>4 DEF DramGood, Drams
    <3>2. DramGood(e)
      BY <1>2, <3>1 DEF readQueueFull, DramGood, Drams
    <3>3. QED
      BY <2>1, <3>1, <3>2
  <2>5. QED
    BY <2>2, <2>3, <2>4
<1>3. CASE req.cmd = "write" /\ writeQueueFull(d)
  <2> DEFINE e == [d EXCEPT !.retryWrReq = TRUE]
  <2>1. r = [ok |-> FALSE, dram |-> e]
    BY <1>3 DEF recvTimingReq, Refuse
  <2>2. /\ e \in Drams
        /\ e.reads = d.reads /\ e.resps = d.resps /\ e.writes = d.writes
        /\ e.busStateNext = d.busStateNext /\ e.nextReq = d.nextReq
        /\ e.retryRdReq = d.retryRdReq /\ e.retryWrReq = TRUE
    BY DEF DramGood, Drams
  <2> HIDE DEF e
  <2>3. DramGood(e)
    <3>1. d.writes = WriteBufferSize /\ d.nextReq
      <4>1. d.writes \in Nat /\ d.writes <= WriteBufferSize
        BY DEF DramGood, Drams
      <4>2. d.writes = WriteBufferSize
        BY <1>3, <4>1, InterconnectAssumption DEF writeQueueFull
      <4>3. d.writes > WriteLowThreshold
        BY <4>2, InterconnectAssumption
      <4>4. QED
        BY <4>2, <4>3 DEF DramGood
    <3>2. QED
      BY <2>2, <3>1 DEF DramGood
  <2>4. QED
    BY <2>1, <2>2, <2>3
<1>4. CASE req.cmd = "write" /\ ~writeQueueFull(d)
  <2>1. PICK e \in addToWriteQueue(d) : r = [ok |-> TRUE, dram |-> e]
    BY <1>4 DEF recvTimingReq, Accept
  <2>2. PICK n \in {0, 1} : /\ e = [d EXCEPT !.writes = @ + n, !.nextReq = TRUE]
                            /\ n = 0 => d.writes > 0
    <3>1. CASE d.writes > 0
      <4>1. addToWriteQueue(d)
              = {[d EXCEPT !.writes = @ + n, !.nextReq = TRUE] : n \in {0, 1}}
        BY <3>1 DEF addToWriteQueue
      <4>2. QED
        BY <3>1, <4>1
    <3>2. CASE ~(d.writes > 0)
      <4>1. addToWriteQueue(d)
              = {[d EXCEPT !.writes = @ + n, !.nextReq = TRUE] : n \in {1}}
        BY <3>2 DEF addToWriteQueue
      <4>2. QED
        BY <4>1
    <3>3. QED
      BY <3>1, <3>2
  <2> d.writes + n \in Nat
    BY DEF DramGood, Drams
  <2>3. /\ e \in Drams
        /\ e.reads = d.reads /\ e.resps = d.resps /\ e.writes = d.writes + n
        /\ e.busStateNext = d.busStateNext /\ e.nextReq = TRUE
        /\ e.retryRdReq = d.retryRdReq /\ e.retryWrReq = d.retryWrReq
    BY <2>2 DEF DramGood, Drams
  <2>4. DramGood(e)
    BY <1>4, <2>2, <2>3 DEF writeQueueFull, DramGood, Drams
  <2>5. QED
    BY <2>1, <2>3, <2>4
<1>5. QED
  BY <1>1, <1>2, <1>3, <1>4 DEF Requests

(* What the memory port adds: a host that touches no registered address is *)
(* refused by the controller only.                                         *)
LEMMA PortRecvGood ==
  ASSUME NEW d, DramGood(d), ~d.retryRdReq, ~d.retryWrReq,
         NEW p \in Ports, NEW req \in Requests,
         p \in Hosts /\ req.locked => TouchesLocked,
         NEW r \in PortRecvTimingReq(d, p, req)
  PROVE  /\ r.ok \in BOOLEAN
         /\ DramGood(r.dram)
         /\ r.ok => ~r.dram.retryRdReq /\ ~r.dram.retryWrReq
         /\ ~r.ok => r.dram.retryRdReq \/ r.dram.retryWrReq \/ TouchesLocked
<1>1. CASE p # Kernel /\ req.locked /\ Registered
  <2>1. r = [ok |-> FALSE, dram |-> d]
    BY <1>1 DEF PortRecvTimingReq, Refuse
  <2>2. TouchesLocked
    BY <1>1 DEF Ports
  <2>3. QED
    BY <2>1, <2>2
<1>2. CASE ~(p # Kernel /\ req.locked /\ Registered)
  <2>1. r \in recvTimingReq(d, req)
    BY <1>2 DEF PortRecvTimingReq
  <2>2. QED
    BY <2>1, RecvGood
<1>3. QED
  BY <1>1, <1>2

-----------------------------------------------------------------------------
(* The list of waiting ports: what its three updates do to its elements.   *)
LEMMA Appended ==
  ASSUME NEW P, NEW w \in Seq(Ports), NEW p \in Ports, Once(w, P), p \notin ListOf(w)
  PROVE  /\ Append(w, p) \in Seq(Ports)
         /\ Append(w, p) # << >>
         /\ Once(Append(w, p), P)
         /\ ListOf(Append(w, p)) = ListOf(w) \union {p}
<1>1. /\ Append(w, p) \in Seq(Ports)
      /\ Len(Append(w, p)) = Len(w) + 1
      /\ \A i \in 1 .. Len(w) : Append(w, p)[i] = w[i]
      /\ Append(w, p)[Len(w) + 1] = p
      /\ Len(w) \in Nat
  OBVIOUS
<1>2. \A i \in 1 .. Len(w) + 1 : i \in 1 .. Len(w) \/ i = Len(w) + 1
  BY <1>1
<1>3. Once(Append(w, p), P)
  BY <1>1, <1>2 DEF Once, ListOf
<1>4. ListOf(Append(w, p)) = ListOf(w) \union {p}
  BY <1>1, <1>2 DEF ListOf
<1>5. Append(w, p) # << >>
  BY <1>1
<1>6. QED
  BY <1>1, <1>3, <1>4, <1>5

LEMMA Pushed ==
  ASSUME NEW P, NEW w \in Seq(Ports), NEW p \in Ports, Once(w, P),
         p \in P => p \notin ListOf(w)
  PROVE  /\ <<p>> \o w \in Seq(Ports)
         /\ <<p>> \o w # << >>
         /\ Once(<<p>> \o w, P)
         /\ ListOf(<<p>> \o w) = ListOf(w) \union {p}
<1> DEFINE v == <<p>> \o w
<1>1. /\ v \in Seq(Ports)
      /\ Len(v) = Len(w) + 1
      /\ \A i \in 1 .. Len(w) : v[i + 1] = w[i]
      /\ v[1] = p
      /\ Len(w) \in Nat
  OBVIOUS
<1>2. \A i \in 1 .. Len(v) : i = 1 \/ (i - 1 \in 1 .. Len(w) /\ v[i] = w[i - 1])
  BY <1>1
<1> HIDE DEF v
<1>3. Once(v, P)
  <2> SUFFICES ASSUME NEW i \in 1 .. Len(v), NEW j \in 1 .. Len(v),
                      v[i] = v[j], v[i] \in P
               PROVE  i = j
    BY DEF Once
  <2>1. i # 1 => i - 1 \in 1 .. Len(w) /\ v[i] = w[i - 1] /\ v[i] # p
    BY <1>2 DEF ListOf
  <2>2. j # 1 => j - 1 \in 1 .. Len(w) /\ v[j] = w[j - 1] /\ v[j] # p
    BY <1>2 DEF ListOf
  <2>3. CASE i # 1 /\ j # 1
    <3>1. i - 1 = j - 1
      BY <2>1, <2>2, <2>3 DEF Once
    <3>2. QED
      BY <3>1
  <2>4. CASE i = 1 \/ j = 1
    BY <1>1, <2>1, <2>2, <2>4
  <2>5. QED
    BY <2>3, <2>4
<1>4. ListOf(v) = ListOf(w) \union {p}
  <2>1. \A i \in 1 .. Len(v) : v[i] \in ListOf(w) \union {p}
    BY <1>1, <1>2 DEF ListOf
  <2>2. \A i \in 1 .. Len(w) : i + 1 \in 1 .. Len(v) /\ v[i + 1] = w[i]
    BY <1>1
  <2>3. 1 \in 1 .. Len(v)
    BY <1>1
  <2>4. \A i \in 1 .. Len(w) : w[i] \in ListOf(v)
    BY <2>2 DEF ListOf
  <2>5. p \in ListOf(v)
    BY <1>1, <2>3 DEF ListOf
  <2>6. QED
    BY <2>1, <2>4, <2>5 DEF ListOf
<1>5. v # << >>
  BY <1>1
<1>6. QED
  BY <1>1, <1>3, <1>4, <1>5 DEF v

LEMMA Popped ==
  ASSUME NEW P, NEW w \in Seq(Ports), w # << >>, Once(w, P)
  PROVE  /\ Head(w) \in Ports
         /\ Head(w) \in ListOf(w)
         /\ Tail(w) \in Seq(Ports)
         /\ Once(Tail(w), P)
         /\ ListOf(w) = ListOf(Tail(w)) \union {Head(w)}
         /\ Head(w) \in P => Head(w) \notin ListOf(Tail(w))
<1> DEFINE v == Tail(w)
<1>1. /\ v \in Seq(Ports)
      /\ Len(v) = Len(w) - 1
      /\ \A i \in 1 .. Len(v) : v[i] = w[i + 1]
      /\ Head(w) = w[1]
      /\ Len(w) \in Nat \ {0}
      /\ Head(w) \in Ports
  OBVIOUS
<1>2. \A i \in 1 .. Len(w) : i = 1 \/ (i - 1 \in 1 .. Len(v) /\ v[i - 1] = w[i])
  BY <1>1
<1> HIDE DEF v
<1>3. Once(v, P)
  BY <1>1 DEF Once
<1>4. ListOf(w) = ListOf(v) \union {w[1]}
  BY <1>1, <1>2 DEF ListOf
<1>5. w[1] \in P => w[1] \notin ListOf(v)
  BY <1>1 DEF ListOf, Once
<1>6. Head(w) \in ListOf(w)
  BY <1>1 DEF ListOf
<1>7. QED
  BY <1>1, <1>3, <1>4, <1>5, <1>6 DEF v

-----------------------------------------------------------------------------
(* The layer remembers the ports other than p, and waits for no peer. *)
Others(l, h, p, P) ==
  /\ l \in Layers /\ h \in Helds
  /\ l.waitingForPeer = NoPort
  /\ Once(l.waitingForLayer, P)
  /\ p \in P => p \notin ListOf(l.waitingForLayer)
  /\ \A q \in Ports : q # p /\ h[q] # NoReq => q \in ListOf(l.waitingForLayer)
  /\ \A q \in P : q # p /\ q \in ListOf(l.waitingForLayer) => h[q] # NoReq

(* A layer that grants a port, whose request the controller then takes or  *)
(* refuses.  p may hold a request already (a retry) or not.                *)
LEMMA ForwardGood ==
  ASSUME NEW P \in SUBSET Ports,
         NEW l, NEW d, DramGood(d), ~d.retryRdReq, ~d.retryWrReq,
         NEW h, NEW p \in Ports, NEW req \in Requests, Others(l, h, p, P),
         p \in Hosts /\ req.locked => TouchesLocked, HeldGood(h),
         NEW r \in Forward(l, d, h, p, req)
  PROVE  Good(r.layer, r.dram, r.held, P) /\ r.aborted = FALSE
<1> USE InterconnectAssumption
<1>0. /\ l \in Layers /\ h \in Helds
      /\ Once(l.waitingForLayer, P)
      /\ p \in P => p \notin ListOf(l.waitingForLayer)
      /\ \A q \in Ports : q # p /\ h[q] # NoReq => q \in ListOf(l.waitingForLayer)
      /\ \A q \in P : q # p /\ q \in ListOf(l.waitingForLayer) => h[q] # NoReq
  BY DEF Others
<1>1. PICK s \in PortRecvTimingReq(d, p, req) :
        r = [layer |-> [l EXCEPT !.state = "BUSY",
                                 !.waitingForPeer = IF s.ok THEN NoPort ELSE p],
             dram  |-> s.dram,
             held  |-> [h EXCEPT ![p] = IF s.ok THEN NoReq ELSE req],
             aborted |-> FALSE]
  BY DEF Forward
<1>2. /\ s.ok \in BOOLEAN
      /\ DramGood(s.dram)
      /\ s.ok => ~s.dram.retryRdReq /\ ~s.dram.retryWrReq
      /\ ~s.ok => s.dram.retryRdReq \/ s.dram.retryWrReq \/ TouchesLocked
  BY PortRecvGood
<1> DEFINE peer == IF s.ok THEN NoPort ELSE p
           k    == IF s.ok THEN NoReq ELSE req
           m    == [l EXCEPT !.state = "BUSY", !.waitingForPeer = peer]
           g    == [h EXCEPT ![p] = k]
<1>3. /\ m \in Layers /\ m.state = "BUSY" /\ m.waitingForPeer = peer
      /\ m.waitingForLayer = l.waitingForLayer
  BY <1>0 DEF Layers
<1>4. /\ g \in Helds /\ g[p] = k
      /\ \A q \in Ports : q # p => g[q] = h[q]
  BY <1>0 DEF Helds
<1>5. req # NoReq /\ NoReq.locked = FALSE
  BY DEF Requests, NoReq
<1>6. r.layer = m /\ r.dram = s.dram /\ r.held = g /\ r.aborted = FALSE
  BY <1>1
<1> HIDE DEF m, g
<1>7. LayerGood(m, g, P)
  <2>1. \A q \in Ports : g[q] # NoReq => q \in ListOf(l.waitingForLayer) \/ q = peer
    BY <1>0, <1>4
  <2>2. \A q \in P : q \in ListOf(l.waitingForLayer) \/ q = peer => g[q] # NoReq
    BY <1>0, <1>4, <1>5
  <2>3. peer \in P => peer \notin ListOf(l.waitingForLayer)
    BY <1>0
  <2> HIDE DEF peer
  <2>4. QED
    BY <1>0, <1>3, <1>4, <2>1, <2>2, <2>3 DEF LayerGood
<1>8. HeldGood(g)
  BY <1>4, <1>5 DEF HeldGood, Ports
<1>9. WakeGood(m, s.dram)
  BY <1>2, <1>3 DEF WakeGood
<1>10. QED
  BY <1>2, <1>6, <1>7, <1>8, <1>9 DEF Good

(* A failed assertion leaves the state as it was. *)
LEMMA AbortFields ==
  /\ Abort.layer = layer /\ Abort.dram = dram
  /\ Abort.held = held /\ Abort.aborted = TRUE
  BY DEF Abort

(* An idle layer that tells the first waiting port to retry.  An assertion *)
(* fails only when the kernel is not remembered exactly.                   *)
LEMMA RetryWaitingGood ==
  ASSUME NEW P \in SUBSET Ports, Hosts \subseteq P, Kernel \in P => compute # "stray",
         Good(layer, dram, held, P),
         NEW l \in Layers, NEW d, DramGood(d), ~d.retryRdReq, ~d.retryWrReq,
         l.waitingForPeer = NoPort, l.waitingForLayer # << >>,
         Once(l.waitingForLayer, P),
         \A q \in Ports : held[q] # NoReq => q \in ListOf(l.waitingForLayer),
         \A q \in P : q \in ListOf(l.waitingForLayer) => held[q] # NoReq,
         NEW r \in retryWaiting(l, d)
  PROVE  /\ Good(r.layer, r.dram, r.held, P)
         /\ r.aborted \in BOOLEAN
         /\ r.aborted => Kernel \notin P
<1> USE InterconnectAssumption
<1> DEFINE w    == l.waitingForLayer
           p    == Head(w)
           rest == [l EXCEPT !.waitingForLayer = Tail(@)]
<1>1. /\ p \in Ports /\ p \in ListOf(w)
      /\ Tail(w) \in Seq(Ports) /\ Once(Tail(w), P)
      /\ ListOf(w) = ListOf(Tail(w)) \union {p}
      /\ p \in P => p \notin ListOf(Tail(w))
  <2>1. w \in Seq(Ports)
    BY DEF Layers
  <2>2. QED
    BY <2>1, Popped
<1>2. /\ rest \in Layers /\ rest.waitingForPeer = NoPort
      /\ rest.waitingForLayer = Tail(w)
  BY <1>1 DEF Layers
<1>3. held \in Helds /\ HeldGood(held)
  BY DEF Good, LayerGood
<1>4. CASE p = Kernel /\ (held[p] = NoReq \/ compute = "stray")
  <2>1. r = Abort
    BY <1>4 DEF retryWaiting
  <2>2. Kernel \notin P
    BY <1>1, <1>4
  <2>3. QED
    BY <2>1, <2>2, AbortFields
<1>5. CASE ~(p = Kernel /\ (held[p] = NoReq \/ compute = "stray"))
  <2>0. r \in Forward(rest, d, held, p, held[p]) \/ r \in Squashed(rest, d, p)
    BY <1>5 DEF retryWaiting
  <2> HIDE DEF rest
  <2>1. CASE r \in Forward(rest, d, held, p, held[p])
    <3>1. held[p] \in Requests
      <4>1. held[p] # NoReq
        BY <1>1, <1>5 DEF Ports
      <4>2. QED
        BY <1>1, <1>3, <4>1 DEF Helds
    <3>2. p \in Hosts /\ held[p].locked => TouchesLocked
      BY <1>3 DEF HeldGood
    <3> HIDE DEF p, w
    <3>3. Others(rest, held, p, P)
      BY <1>1, <1>2, <1>3 DEF w, Others
    <3>4. p \in Ports
      BY <1>1
    <3>5. Good(r.layer, r.dram, r.held, P) /\ r.aborted = FALSE
      <4>1. PICK req \in Requests : req = held[p]
        BY <3>1
      <4>2. r \in Forward(rest, d, held, p, req) /\ (p \in Hosts /\ req.locked => TouchesLocked)
        BY <2>1, <3>2, <4>1
      <4>3. QED
        BY <1>3, <3>3, <3>4, <4>2, ForwardGood
    <3>6. QED
      BY <3>5
  <2>2. CASE r \in Squashed(rest, d, p)
    <3> DEFINE m == [rest EXCEPT !.state = "BUSY"]
               g == [held EXCEPT ![p] = NoReq]
    <3>1. r.layer = m /\ r.dram = d /\ r.held = g /\ r.aborted = FALSE /\ p \in Hosts
      <4>1. PICK q \in Hosts \intersect {p} :
              r = [layer |-> m, dram |-> d, held |-> [held EXCEPT ![q] = NoReq],
                   aborted |-> FALSE]
        BY <2>2 DEF Squashed
      <4>2. q = p
        OBVIOUS
      <4>3. r = [layer |-> m, dram |-> d, held |-> g, aborted |-> FALSE]
        BY <4>1, <4>2
      <4>4. QED
        BY <4>2, <4>3
    <3>2. /\ m \in Layers /\ m.state = "BUSY" /\ m.waitingForPeer = NoPort
          /\ m.waitingForLayer = Tail(w)
      BY <1>2 DEF Layers
    <3>3. /\ g \in Helds /\ g[p] = NoReq
          /\ \A q \in Ports : q # p => g[q] = held[q]
      BY <1>1, <1>3 DEF Helds
    <3> HIDE DEF m, g, p
    <3>4. LayerGood(m, g, P)
      <4>1. \A q \in Ports : g[q] # NoReq => q \in ListOf(Tail(w))
        BY <1>1, <3>3
      <4>2. \A q \in P : q \in ListOf(Tail(w)) => g[q] # NoReq
        BY <1>1, <3>1, <3>3
      <4>3. NoPort \notin P
        OBVIOUS
      <4>4. QED
        BY <1>1, <3>2, <3>3, <4>1, <4>2, <4>3 DEF LayerGood
    <3>5. HeldGood(g)
      <4>1. NoReq.locked = FALSE
        BY DEF NoReq
      <4>2. QED
        BY <1>3, <3>3, <4>1 DEF HeldGood, Ports
    <3>6. WakeGood(m, d)
      BY <3>2 DEF WakeGood
    <3>7. QED
      BY <3>1, <3>4, <3>5, <3>6 DEF Good
  <2>3. QED
    BY <2>0, <2>1, <2>2
<1>6. QED
  BY <1>4, <1>5

(* A retry of the controller that owes no other: the port that failed is   *)
(* in front, and is told at once when the layer is idle.                   *)
LEMMA RecvRetryGood ==
  ASSUME NEW P \in SUBSET Ports, Hosts \subseteq P, Kernel \in P => compute # "stray",
         Good(layer, dram, held, P), layer.waitingForPeer # NoPort,
         NEW d, DramGood(d), ~d.retryRdReq, ~d.retryWrReq,
         NEW r \in recvRetry(layer, d)
  PROVE  /\ Good(r.layer, r.dram, r.held, P)
         /\ r.aborted \in BOOLEAN
         /\ r.aborted => Kernel \notin P
<1> USE InterconnectAssumption
<1> DEFINE w     == layer.waitingForLayer
           p     == layer.waitingForPeer
           v     == <<p>> \o w
           front == [layer EXCEPT !.waitingForLayer = v, !.waitingForPeer = NoPort]
<1>1. /\ layer \in Layers /\ held \in Helds /\ Once(w, P)
      /\ p \in P => p \notin ListOf(w)
      /\ \A q \in Ports : held[q] # NoReq => q \in ListOf(w) \/ q = p
      /\ \A q \in P : q \in ListOf(w) \/ q = p => held[q] # NoReq
      /\ HeldGood(held)
  BY DEF Good, LayerGood
<1>2. w \in Seq(Ports) /\ p \in Ports
  BY <1>1 DEF Layers
<1>3. /\ v \in Seq(Ports) /\ v # << >> /\ Once(v, P)
      /\ ListOf(v) = ListOf(w) \union {p}
  BY <1>1, <1>2, Pushed
<1> HIDE DEF v
<1>4. /\ front \in Layers /\ front.waitingForPeer = NoPort
      /\ front.waitingForLayer = v /\ front.state = layer.state
  BY <1>1, <1>3 DEF Layers
<1>5. IF layer.state = "IDLE" THEN r \in retryWaiting(front, d)
      ELSE r = [layer |-> front, dram |-> d, held |-> held, aborted |-> FALSE]
  BY DEF recvRetry, v
<1> HIDE DEF front
<1>6. /\ \A q \in Ports : held[q] # NoReq => q \in ListOf(front.waitingForLayer)
      /\ \A q \in P : q \in ListOf(front.waitingForLayer) => held[q] # NoReq
  BY <1>1, <1>3, <1>4
<1>7. CASE layer.state = "IDLE"
  BY <1>3, <1>4, <1>5, <1>6, <1>7, RetryWaitingGood
<1>8. CASE layer.state # "IDLE"
  <2>1. r.layer = front /\ r.dram = d /\ r.held = held /\ r.aborted = FALSE
    BY <1>5, <1>8
  <2>2. LayerGood(front, held, P)
    <3>1. layer.state = "BUSY"
      BY <1>1, <1>8 DEF Layers
    <3>2. QED
      BY <1>1, <1>3, <1>4, <1>6, <3>1 DEF LayerGood
  <2>3. WakeGood(front, d)
    BY <1>4 DEF WakeGood
  <2>4. QED
    BY <1>1, <2>1, <2>2, <2>3 DEF Good
<1>9. QED
  BY <1>7, <1>8

-----------------------------------------------------------------------------
(* The steps. *)

LEMMA InitGood == Init => IInv
<1> USE InterconnectAssumption
<1> SUFFICES ASSUME Init PROVE IInv
  OBVIOUS
<1>1. /\ dram \in Drams /\ dram.reads = 0 /\ dram.resps = 0 /\ dram.writes = 0
      /\ dram.busStateNext = "READ"
      /\ dram.retryRdReq = FALSE /\ dram.retryWrReq = FALSE
  BY DEF Init, Drams
<1>2. DramGood(dram)
  BY <1>1 DEF DramGood
<1>3. /\ layer \in Layers /\ layer.waitingForPeer = NoPort
      /\ layer.waitingForLayer = << >>
  BY DEF Init, Layers
<1>4. held \in Helds /\ \A p \in Ports : held[p] = NoReq
  BY DEF Init, Helds
<1>5. NoReq.locked = FALSE
  BY DEF NoReq
<1>6. Exact = Ports
  BY DEF Init, Exact
<1>7. LayerGood(layer, held, Ports)
  BY <1>3, <1>4 DEF LayerGood, Once, ListOf
<1>8. WakeGood(layer, dram) /\ HeldGood(held)
  BY <1>1, <1>3, <1>4, <1>5 DEF WakeGood, HeldGood, Ports
<1>9. QED
  <2>1. Good(layer, dram, held, Exact)
    BY <1>2, <1>6, <1>7, <1>8 DEF Good
  <2>2. /\ command = 0 /\ compute = "off" /\ aborted = FALSE
    BY DEF Init
  <2> HIDE DEF Init
  <2>3. QED
    <3>1. /\ command \in 0 .. 4 /\ compute \in {"off", "due", "again", "stray"}
          /\ compute # "off" => command = 4
      BY <2>2
    <3>2. AssertionsHold /\ aborted \in BOOLEAN
      BY <2>2 DEF AssertionsHold
    <3>3. QED
      BY <2>1, <3>1, <3>2 DEF IInv

(* A port sends: it is queued by a layer that is busy or waits for its     *)
(* peer, and forwarded by an idle one.                                     *)
LEMMA SendGood ==
  ASSUME NEW P \in SUBSET Ports, Good(layer, dram, held, P),
         aborted = FALSE,
         NEW p \in Ports, NEW req \in Requests,
         p \in P => held[p] = NoReq,
         p \in Hosts /\ req.locked => TouchesLocked,
         SendTimingReq(p, req)
  PROVE  /\ Good(layer', dram', held', P)
         /\ aborted' \in BOOLEAN
         /\ p \in P => aborted' = FALSE
<1> USE InterconnectAssumption
<1>1. /\ layer \in Layers /\ held \in Helds /\ Once(layer.waitingForLayer, P)
      /\ layer.waitingForPeer \in P =>
           layer.waitingForPeer \notin ListOf(layer.waitingForLayer)
      /\ \A q \in Ports : held[q] # NoReq =>
           q \in ListOf(layer.waitingForLayer) \/ q = layer.waitingForPeer
      /\ \A q \in P : q \in ListOf(layer.waitingForLayer) \/ q = layer.waitingForPeer
           => held[q] # NoReq
      /\ layer.waitingForLayer # << >> => layer.state = "BUSY" \/ layer.waitingForPeer # NoPort
      /\ DramGood(dram) /\ WakeGood(layer, dram) /\ HeldGood(held)
  BY DEF Good, LayerGood
<1>2. p \in P => p \notin ListOf(layer.waitingForLayer) /\ p # layer.waitingForPeer
  BY <1>1
<1>3. CASE /\ layer.state = "BUSY" \/ layer.waitingForPeer # NoPort
           /\ p \in ListOf(layer.waitingForLayer)
  <2>1. Becomes(Abort)
    BY <1>3 DEF SendTimingReq
  <2>2. layer' = layer /\ dram' = dram /\ held' = held /\ aborted' = TRUE
    BY <2>1, AbortFields DEF Becomes
  <2>3. QED
    BY <1>2, <1>3, <2>2
<1>4. CASE /\ layer.state = "BUSY" \/ layer.waitingForPeer # NoPort
           /\ p \notin ListOf(layer.waitingForLayer)
  <2> DEFINE w == Append(layer.waitingForLayer, p)
             m == [layer EXCEPT !.waitingForLayer = w]
             g == [held EXCEPT ![p] = req]
  <2>1. layer' = m /\ held' = g /\ dram' = dram /\ aborted' = FALSE
    BY <1>4 DEF SendTimingReq
  <2>2. /\ w \in Seq(Ports) /\ Once(w, P)
        /\ ListOf(w) = ListOf(layer.waitingForLayer) \union {p}
    <3>1. layer.waitingForLayer \in Seq(Ports)
      BY <1>1 DEF Layers
    <3>2. QED
      BY <1>1, <1>4, <3>1, Appended
  <2> HIDE DEF w
  <2>3. /\ m \in Layers /\ m.waitingForLayer = w
        /\ m.waitingForPeer = layer.waitingForPeer /\ m.state = layer.state
    BY <1>1, <2>2 DEF Layers
  <2>4. /\ g \in Helds /\ g[p] = req /\ req # NoReq
        /\ \A q \in Ports : q # p => g[q] = held[q]
    BY <1>1 DEF Helds, Requests, NoReq
  <2> HIDE DEF m, g
  <2>5. /\ \A q \in Ports : g[q] # NoReq => q \in ListOf(w) \/ q = m.waitingForPeer
        /\ \A q \in P : q \in ListOf(w) \/ q = m.waitingForPeer => g[q] # NoReq
    BY <1>1, <2>2, <2>3, <2>4
  <2>6. m.waitingForPeer \in P => m.waitingForPeer \notin ListOf(w)
    BY <1>1, <1>2, <2>2, <2>3
  <2>7. LayerGood(m, g, P)
    BY <1>4, <2>2, <2>3, <2>4, <2>5, <2>6 DEF LayerGood
  <2>8. WakeGood(m, dram)
    BY <1>1, <2>3 DEF WakeGood
  <2>9. HeldGood(g)
    BY <1>1, <2>4 DEF HeldGood, Ports
  <2>10. Good(m, dram, g, P)
    BY <1>1, <2>7, <2>8, <2>9 DEF Good
  <2>11. QED
    BY <2>1, <2>10
<1>5. CASE ~(layer.state = "BUSY" \/ layer.waitingForPeer # NoPort)
  <2>1. PICK r \in Forward(layer, dram, held, p, req) : Becomes(r)
    BY <1>5 DEF SendTimingReq
  <2>2. ~dram.retryRdReq /\ ~dram.retryWrReq
    BY <1>1, <1>5 DEF WakeGood
  <2>3. Others(layer, held, p, P)
    BY <1>1, <1>2, <1>5 DEF Others
  <2>4. Good(r.layer, r.dram, r.held, P) /\ r.aborted = FALSE
    BY <1>1, <2>1, <2>2, <2>3, ForwardGood
  <2>5. QED
    BY <2>1, <2>4 DEF Becomes
<1>6. QED
  BY <1>3, <1>4, <1>5

(* The layer is released. *)
LEMMA ReleaseGood ==
  ASSUME NEW P \in SUBSET Ports, Hosts \subseteq P, Kernel \in P => compute # "stray",
         Good(layer, dram, held, P), ReleaseLayer
  PROVE  /\ Good(layer', dram', held', P)
         /\ aborted' \in BOOLEAN
         /\ aborted' => aborted \/ Kernel \notin P
<1> USE InterconnectAssumption
<1> DEFINE idle == [layer EXCEPT !.state = "IDLE"]
<1>1. /\ layer \in Layers /\ held \in Helds /\ Once(layer.waitingForLayer, P)
      /\ layer.waitingForPeer \in P =>
           layer.waitingForPeer \notin ListOf(layer.waitingForLayer)
      /\ \A q \in Ports : held[q] # NoReq =>
           q \in ListOf(layer.waitingForLayer) \/ q = layer.waitingForPeer
      /\ \A q \in P : q \in ListOf(layer.waitingForLayer) \/ q = layer.waitingForPeer
           => held[q] # NoReq
      /\ DramGood(dram) /\ WakeGood(layer, dram) /\ HeldGood(held)
  BY DEF Good, LayerGood
<1>2. /\ idle \in Layers /\ idle.waitingForLayer = layer.waitingForLayer
      /\ idle.waitingForPeer = layer.waitingForPeer
  BY <1>1 DEF Layers
<1>3. CASE layer.waitingForLayer # << >> /\ layer.waitingForPeer = NoPort
  <2>1. PICK r \in retryWaiting(idle, dram) : Becomes(r)
    BY <1>3 DEF ReleaseLayer
  <2> HIDE DEF idle
  <2>2. ~dram.retryRdReq /\ ~dram.retryWrReq
    BY <1>1, <1>3 DEF WakeGood
  <2>3. /\ \A q \in Ports : held[q] # NoReq => q \in ListOf(idle.waitingForLayer)
        /\ \A q \in P : q \in ListOf(idle.waitingForLayer) => held[q] # NoReq
    BY <1>1, <1>2, <1>3
  <2>4. /\ Good(r.layer, r.dram, r.held, P) /\ r.aborted \in BOOLEAN
        /\ r.aborted => Kernel \notin P
    BY <1>1, <1>2, <1>3, <2>2, <2>3, RetryWaitingGood
  <2>5. QED
    BY <2>1, <2>4 DEF Becomes
<1>4. CASE ~(layer.waitingForLayer # << >> /\ layer.waitingForPeer = NoPort)
  <2>1. layer' = idle /\ dram' = dram /\ held' = held /\ aborted' = FALSE
    BY <1>4 DEF ReleaseLayer
  <2> HIDE DEF idle
  <2>2. LayerGood(idle, held, P) /\ WakeGood(idle, dram)
    BY <1>1, <1>2, <1>4 DEF LayerGood, WakeGood
  <2>3. Good(idle, dram, held, P)
    BY <1>1, <2>2 DEF Good
  <2>4. QED
    BY <2>1, <2>3
<1>5. QED
  BY <1>3, <1>4

(* The controller changed, keeps its flags, and told nobody to retry. *)
LEMMA SameFlagsGood ==
  ASSUME NEW P, Good(layer, dram, held, P), DramGood(dram'),
         dram'.retryRdReq = dram.retryRdReq, dram'.retryWrReq = dram.retryWrReq,
         UNCHANGED <<layer, held>>
  PROVE  Good(layer', dram', held', P)
<1>1. layer' = layer /\ held' = held
  OBVIOUS
<1>2. WakeGood(layer, dram')
  BY DEF Good, WakeGood
<1>3. Good(layer, dram', held, P)
  BY <1>2 DEF Good
<1>4. QED
  BY <1>1, <1>3

(* A read gets its data. *)
LEMMA RespondGood ==
  ASSUME NEW P \in SUBSET Ports, Hosts \subseteq P, Kernel \in P => compute # "stray",
         Good(layer, dram, held, P), ProcessRespond
  PROVE  /\ Good(layer', dram', held', P)
         /\ aborted' \in BOOLEAN
         /\ aborted' => aborted \/ Kernel \notin P
<1> USE InterconnectAssumption
<1> DEFINE d == [dram EXCEPT !.resps = @ - 1]
<1>1. /\ DramGood(dram) /\ LayerGood(layer, held, P)
      /\ WakeGood(layer, dram) /\ HeldGood(held)
  BY DEF Good
<1>2. dram.resps \in Nat /\ dram.resps > 0 /\ dram.resps - 1 \in Nat
  BY <1>1 DEF DramGood, Drams, ProcessRespond
<1>3. /\ d \in Drams /\ d.reads = dram.reads /\ d.resps = dram.resps - 1
      /\ d.writes = dram.writes /\ d.nextReq = dram.nextReq
      /\ d.busStateNext = dram.busStateNext
      /\ d.retryRdReq = dram.retryRdReq /\ d.retryWrReq = dram.retryWrReq
  BY <1>1, <1>2 DEF DramGood, Drams
<1>4. CASE dram.retryRdReq
  <2> DEFINE e == [d EXCEPT !.retryRdReq = FALSE]
  <2>1. PICK r \in recvRetry(layer, e) : Becomes(r)
    BY <1>4 DEF ProcessRespond
  <2> HIDE DEF d
  <2>2. /\ e \in Drams /\ e.reads = d.reads /\ e.resps = d.resps
        /\ e.writes = d.writes /\ e.nextReq = d.nextReq
        /\ e.busStateNext = d.busStateNext
        /\ e.retryRdReq = FALSE /\ e.retryWrReq = d.retryWrReq
    BY <1>3 DEF Drams
  <2> HIDE DEF e
  <2>3. DramGood(e)
    BY <1>1, <1>2, <1>3, <2>2 DEF DramGood, Drams
  <2>4. ~e.retryRdReq /\ ~e.retryWrReq
    BY <1>1, <1>3, <1>4, <2>2 DEF DramGood
  <2>5. layer.waitingForPeer # NoPort
    BY <1>1, <1>4 DEF WakeGood
  <2>6. /\ Good(r.layer, r.dram, r.held, P) /\ r.aborted \in BOOLEAN
        /\ r.aborted => Kernel \notin P
    BY <2>3, <2>4, <2>5, RecvRetryGood
  <2>7. QED
    BY <2>1, <2>6 DEF Becomes
<1>5. CASE ~dram.retryRdReq
  <2>1. dram' = d /\ aborted' = FALSE /\ UNCHANGED <<layer, held>>
    BY <1>5 DEF ProcessRespond
  <2> HIDE DEF d
  <2>2. DramGood(d)
    BY <1>1, <1>2, <1>3, <1>5 DEF DramGood, Drams
  <2>3. QED
    BY <1>3, <2>1, <2>2, SameFlagsGood
<1>6. QED
  BY <1>4, <1>5

-----------------------------------------------------------------------------
(* The next-request event.  It first turns the bus around. *)
LEMMA TurnAroundFields ==
  ASSUME NEW d \in Drams
  PROVE  LET e == TurnAround(d) IN
         /\ e \in Drams /\ e.reads = d.reads /\ e.resps = d.resps
         /\ e.writes = d.writes /\ e.nextReq = FALSE
         /\ e.busState = d.busStateNext /\ e.busStateNext = d.busStateNext
         /\ e.retryRdReq = d.retryRdReq /\ e.retryWrReq = d.retryWrReq
<1>1. PICK n \in Nat : n = IF d.busState = "WRITE" /\ d.busStateNext = "READ"
                           THEN 0 ELSE d.writesThisTime
  BY DEF Drams
<1>2. TurnAround(d) = [d EXCEPT !.nextReq = FALSE, !.busState = d.busStateNext,
                                !.writesThisTime = n]
  BY <1>1 DEF TurnAround
<1>3. QED
  BY <1>2 DEF Drams

(* It goes to sleep only when neither reads nor a refused write wait. *)
LEMMA SleepGood ==
  ASSUME NEW d, DramGood(d), NothingToDo(TurnAround(d))
  PROVE  DramGood(TurnAround(d))
<1> USE InterconnectAssumption
<1> DEFINE e == TurnAround(d)
<1>1. d \in Drams
  BY DEF DramGood
<1>2. /\ e \in Drams /\ e.reads = d.reads /\ e.resps = d.resps
      /\ e.writes = d.writes /\ e.nextReq = FALSE
      /\ e.busState = d.busStateNext /\ e.busStateNext = d.busStateNext
      /\ e.retryRdReq = d.retryRdReq /\ e.retryWrReq = d.retryWrReq
  BY <1>1, TurnAroundFields
<1>3. NothingToDo(e)
  OBVIOUS
<1> HIDE DEF e
<1>4. e.reads = 0 /\ ~(e.writes > WriteLowThreshold)
  BY <1>2, <1>3 DEF NothingToDo, DramGood, Drams
<1>5. DramGood(e)
  BY <1>1, <1>2, <1>4 DEF DramGood, Drams
<1>6. QED
  BY <1>5 DEF e

(* One burst: what it does to the queues, and that a write makes room. *)
LEMMA AccessFields ==
  ASSUME NEW d, d \in Drams, ~NothingToDo(d), d.busState = d.busStateNext,
         d.busState = "WRITE" => d.writes > 0
  PROVE  LET e == [Access(d) EXCEPT !.nextReq = TRUE] IN
         /\ e \in Drams /\ e.nextReq = TRUE
         /\ e.reads + e.resps = d.reads + d.resps
         /\ e.writes <= d.writes
         /\ e.busStateNext = "WRITE" => e.writes > 0
         /\ e.retryRdReq = d.retryRdReq /\ e.retryWrReq = d.retryWrReq
<1> USE InterconnectAssumption
<1> DEFINE e == [Access(d) EXCEPT !.nextReq = TRUE]
<1>1. /\ d.reads \in Nat /\ d.resps \in Nat /\ d.writes \in Nat
      /\ d.writesThisTime \in Nat /\ d.busState \in {"READ", "WRITE"}
      /\ d.busStateNext \in {"READ", "WRITE"}
  BY DEF Drams
<1>2. CASE d.busState = "READ" /\ d.reads = 0
  <2>1. e = [[d EXCEPT !.busStateNext = "WRITE"] EXCEPT !.nextReq = TRUE]
    BY <1>2 DEF Access
  <2>2. d.writes > 0
    BY <1>1, <1>2 DEF NothingToDo
  <2> HIDE DEF e
  <2>3. /\ e \in Drams /\ e.nextReq = TRUE
        /\ e.reads = d.reads /\ e.resps = d.resps /\ e.writes = d.writes
        /\ e.retryRdReq = d.retryRdReq /\ e.retryWrReq = d.retryWrReq
    BY <2>1 DEF Drams
  <2>4. QED
    BY <1>1, <2>2, <2>3 DEF e
<1>3. CASE d.busState = "READ" /\ d.reads # 0
  <2> DEFINE b == IF d.writes > WriteHighThreshold THEN "WRITE" ELSE d.busStateNext
  <2>1. e = [[d EXCEPT !.reads = @ - 1, !.resps = @ + 1, !.busStateNext = b]
               EXCEPT !.nextReq = TRUE]
    BY <1>3 DEF Access
  <2>2. /\ d.reads - 1 \in Nat /\ d.resps + 1 \in Nat /\ b \in {"READ", "WRITE"}
        /\ b = "WRITE" => d.writes > 0
    BY <1>1, <1>3
  <2> HIDE DEF b, e
  <2>3. /\ e \in Drams /\ e.nextReq = TRUE
        /\ e.reads = d.reads - 1 /\ e.resps = d.resps + 1 /\ e.writes = d.writes
        /\ e.busStateNext = b
        /\ e.retryRdReq = d.retryRdReq /\ e.retryWrReq = d.retryWrReq
    BY <2>1, <2>2 DEF Drams
  <2>4. QED
    BY <1>1, <2>2, <2>3 DEF e
<1>4. CASE d.busState = "WRITE"
  <2> DEFINE w == d.writes - 1
             n == CountWrite(d.writesThisTime)
             b == IF \/ w = 0
                     \/ w + MinWritesPerSwitch < WriteLowThreshold
                     \/ d.reads > 0 /\ n >= MinWritesPerSwitch
                  THEN "READ" ELSE d.busStateNext
  <2>1. e = [[d EXCEPT !.writes = w, !.writesThisTime = n, !.busStateNext = b]
               EXCEPT !.nextReq = TRUE]
    BY <1>4 DEF Access
  <2>2. /\ w \in Nat /\ n \in Nat /\ b \in {"READ", "WRITE"}
        /\ b = "WRITE" => w # 0
    BY <1>1, <1>4 DEF CountWrite
  <2> HIDE DEF b, e, n, w
  <2>3. /\ e \in Drams /\ e.nextReq = TRUE
        /\ e.reads = d.reads /\ e.resps = d.resps /\ e.writes = w
        /\ e.busStateNext = b
        /\ e.retryRdReq = d.retryRdReq /\ e.retryWrReq = d.retryWrReq
    BY <2>1, <2>2 DEF Drams
  <2>4. QED
    BY <1>1, <2>2, <2>3 DEF e, w
<1>5. QED
  BY <1>1, <1>2, <1>3, <1>4

LEMMA NextReqGood ==
  ASSUME NEW P \in SUBSET Ports, Hosts \subseteq P, Kernel \in P => compute # "stray",
         Good(layer, dram, held, P), ProcessNextReq
  PROVE  /\ Good(layer', dram', held', P)
         /\ aborted' \in BOOLEAN
         /\ aborted' => aborted \/ Kernel \notin P
<1> USE InterconnectAssumption
<1> DEFINE d0 == TurnAround(dram)
           d1 == [Access(d0) EXCEPT !.nextReq = TRUE]
<1>1. /\ DramGood(dram) /\ dram \in Drams /\ LayerGood(layer, held, P)
      /\ WakeGood(layer, dram) /\ HeldGood(held)
  BY DEF Good, DramGood
<1>2. /\ d0 \in Drams /\ d0.reads = dram.reads /\ d0.resps = dram.resps
      /\ d0.writes = dram.writes /\ d0.nextReq = FALSE
      /\ d0.busState = dram.busStateNext /\ d0.busStateNext = dram.busStateNext
      /\ d0.retryRdReq = dram.retryRdReq /\ d0.retryWrReq = dram.retryWrReq
  BY <1>1, TurnAroundFields
<1>3. CASE NothingToDo(d0)
  <2>1. dram' = d0 /\ aborted' = FALSE /\ UNCHANGED <<layer, held>>
    BY <1>3 DEF ProcessNextReq
  <2>2. DramGood(d0)
    BY <1>1, <1>3, SleepGood
  <2> HIDE DEF d0
  <2>3. QED
    BY <1>2, <2>1, <2>2, SameFlagsGood
<1>4. CASE ~NothingToDo(d0)
  <2>1. IF d1.retryWrReq /\ d1.writes < WriteBufferSize
        THEN \E r \in recvRetry(layer, [d1 EXCEPT !.retryWrReq = FALSE]) : Becomes(r)
        ELSE dram' = d1 /\ aborted' = FALSE /\ UNCHANGED <<layer, held>>
    BY <1>4 DEF ProcessNextReq
  <2> HIDE DEF d0
  <2>2. d0.busState = "WRITE" => d0.writes > 0
    BY <1>1, <1>2 DEF DramGood
  <2>3. /\ d1 \in Drams /\ d1.nextReq = TRUE
        /\ d1.reads + d1.resps = d0.reads + d0.resps
        /\ d1.writes <= d0.writes
        /\ d1.busStateNext = "WRITE" => d1.writes > 0
        /\ d1.retryRdReq = d0.retryRdReq /\ d1.retryWrReq = d0.retryWrReq
    BY <1>2, <1>4, <2>2, AccessFields
  <2> HIDE DEF d1
  <2>4. CASE d1.retryWrReq /\ d1.writes < WriteBufferSize
    <3> DEFINE e == [d1 EXCEPT !.retryWrReq = FALSE]
    <3>1. PICK r \in recvRetry(layer, e) : Becomes(r)
      BY <2>1, <2>4
    <3>2. /\ e \in Drams /\ e.reads = d1.reads /\ e.resps = d1.resps
          /\ e.writes = d1.writes /\ e.nextReq = d1.nextReq
          /\ e.busStateNext = d1.busStateNext
          /\ e.retryRdReq = d1.retryRdReq /\ e.retryWrReq = FALSE
      BY <2>3 DEF Drams
    <3> HIDE DEF e
    <3>3. ~e.retryRdReq /\ ~e.retryWrReq
      BY <1>1, <1>2, <2>3, <2>4, <3>2 DEF DramGood
    <3>4. DramGood(e)
      BY <1>1, <1>2, <2>3, <3>2, <3>3 DEF DramGood, Drams
    <3>5. layer.waitingForPeer # NoPort
      BY <1>1, <1>2, <2>3, <2>4 DEF WakeGood
    <3>6. /\ Good(r.layer, r.dram, r.held, P) /\ r.aborted \in BOOLEAN
          /\ r.aborted => Kernel \notin P
      BY <3>3, <3>4, <3>5, RecvRetryGood
    <3>7. QED
      BY <3>1, <3>6 DEF Becomes
  <2>5. CASE ~(d1.retryWrReq /\ d1.writes < WriteBufferSize)
    <3>1. dram' = d1 /\ aborted' = FALSE /\ UNCHANGED <<layer, held>>
      BY <2>1, <2>5
    <3>2. DramGood(d1)
      BY <1>1, <1>2, <2>3, <2>5 DEF DramGood, Drams
    <3>3. QED
      BY <1>2, <2>3, <3>1, <3>2, SameFlagsGood
  <2>6. QED
    BY <2>4, <2>5
<1>5. QED
  BY <1>3, <1>4

-----------------------------------------------------------------------------
(* The ports that are remembered exactly. *)
LEMMA ExactPorts ==
  ASSUME compute \in {"off", "due", "again", "stray"}
  PROVE  /\ Exact \in SUBSET Ports /\ Hosts \subseteq Exact
         /\ Kernel \in Exact <=> compute \in {"off", "due"}
         /\ compute \notin {"off", "due"} => Exact = Hosts
  BY InterconnectAssumption DEF Exact, Ports

(* What is remembered exactly of more ports is so of fewer. *)
LEMMA FewerGood ==
  ASSUME NEW l, NEW d, NEW h, NEW P, NEW Q \in SUBSET P, Good(l, d, h, P)
  PROVE  Good(l, d, h, Q)
  BY DEF Good, LayerGood, Once

(* A step that may leave one of its calls by a failed assertion only when  *)
(* the kernel is not remembered exactly, and keeps the compute event.      *)
LEMMA KeepsExact ==
  ASSUME IInv, Good(layer', dram', held', Exact),
         aborted' \in BOOLEAN, aborted' => aborted \/ Kernel \notin Exact,
         compute' = compute, command' \in 0 .. 4,
         compute # "off" => command' = 4
  PROVE  IInv'
<1>1. Exact' = Exact
  BY DEF Exact
<1>2. Good(layer, dram, held, Exact)'
  BY <1>1
<1>3. aborted' => compute \in {"again", "stray"}
  BY ExactPorts DEF IInv, AssertionsHold
<1>4. AssertionsHold'
  BY <1>3 DEF AssertionsHold
<1>5. QED
  BY <1>2, <1>4 DEF IInv

(* The compute event sends again: the kernel is not exact afterwards. *)
LEMMA AgainGood ==
  ASSUME IInv, TryComputeAgain
  PROVE  IInv'
<1> USE InterconnectAssumption
<1>1. /\ Good(layer, dram, held, Exact) /\ aborted = FALSE /\ command' = command
      /\ compute' \in {"again", "stray"}
  BY DEF IInv, TryComputeAgain
<1>11. command = 4
  BY DEF IInv, TryComputeAgain
<1>2. Exact' = Hosts /\ Hosts \in SUBSET Ports /\ Kernel \notin Hosts /\ Kernel \in Ports
  BY <1>1 DEF Exact, Ports
<1>3. Good(layer, dram, held, Hosts)
  BY <1>1, ExactPorts, FewerGood DEF IInv
<1>4. \/ Becomes(Abort)
      \/ \E req \in Requests : SendTimingReq(Kernel, req)
  <2>1. held[Kernel] # NoReq => held[Kernel] \in Requests
    BY <1>2, <1>3 DEF Good, LayerGood, Helds
  <2>2. [cmd |-> "write", locked |-> TRUE] \in Requests
    BY DEF Requests
  <2>3. QED
    BY <2>1, <2>2 DEF TryComputeAgain
<1>5. Good(layer', dram', held', Hosts) /\ aborted' \in BOOLEAN
  <2>1. CASE Becomes(Abort)
    <3>1. layer' = layer /\ dram' = dram /\ held' = held /\ aborted' = TRUE
      BY <2>1, AbortFields DEF Becomes
    <3>2. QED
      BY <1>3, <3>1
  <2>2. CASE \E req \in Requests : SendTimingReq(Kernel, req)
    BY <1>1, <1>2, <1>3, <2>2, SendGood
  <2>3. QED
    BY <1>4, <2>1, <2>2
<1>6. Good(layer, dram, held, Exact)'
  BY <1>2, <1>5
<1>7. QED
  BY <1>1, <1>11, <1>5, <1>6 DEF IInv, AssertionsHold

(* The kernel's own requests. *)
LEMMA KernelSendGood ==
  ASSUME IInv, KernelSend
  PROVE  IInv'
<1> USE InterconnectAssumption
<1> DEFINE req == [cmd |-> IF command = 3 THEN "write" ELSE "read", locked |-> TRUE]
<1>1. req \in Requests /\ Kernel \in Ports /\ Kernel \notin Hosts
  BY DEF Requests, Ports
<1>2. /\ SendTimingReq(Kernel, req) /\ command' \in 0 .. 4
      /\ held[Kernel] = NoReq /\ aborted = FALSE
      /\ compute' \in {"due", compute} /\ compute = "off"
      /\ compute' = "due" => command' = 4
  BY DEF KernelSend, IInv
<1> HIDE DEF req
<1>3. Good(layer, dram, held, Exact) /\ Exact \in SUBSET Ports
  BY ExactPorts DEF IInv
<1>4. /\ Good(layer', dram', held', Exact) /\ aborted' \in BOOLEAN
      /\ Kernel \in Exact => aborted' = FALSE
  BY <1>1, <1>2, <1>3, SendGood
<1>5. CASE compute' = compute
  BY <1>2, <1>4, <1>5, KeepsExact
<1>6. CASE compute' = "due"
  <2>1. Exact' = Exact /\ Kernel \in Exact
    BY <1>1, <1>2, <1>6 DEF Exact
  <2>2. Good(layer, dram, held, Exact)'
    BY <1>4, <2>1
  <2>3. QED
    BY <1>2, <1>4, <1>6, <2>1, <2>2 DEF IInv, AssertionsHold
<1>7. QED
  BY <1>2, <1>5, <1>6

(* The invariant is inductive. *)
LEMMA Inductive == IInv /\ [Next]_vars => IInv'
<1> SUFFICES ASSUME IInv, [Next]_vars PROVE IInv'
  OBVIOUS
<1>1. /\ Good(layer, dram, held, Exact) /\ command \in 0 .. 4
      /\ Exact \in SUBSET Ports /\ Hosts \subseteq Exact
      /\ Kernel \in Exact => compute # "stray"
  BY ExactPorts DEF IInv
<1>2. ASSUME NEW p \in Hosts, NEW req \in Requests, HostSend(p, req) PROVE IInv'
  <2>1. /\ p \in Ports /\ (req.locked => TouchesLocked) /\ SendTimingReq(p, req)
        /\ held[p] = NoReq /\ aborted = FALSE
        /\ command' = command /\ compute' = compute
    BY <1>2 DEF HostSend, Ports, IInv
  <2>2. Good(layer', dram', held', Exact) /\ aborted' = FALSE
    BY <1>1, <1>2, <2>1, SendGood
  <2>3. QED
    BY <1>1, <2>1, <2>2, KeepsExact DEF IInv
<1>3. CASE StartCommand
  <2>1. /\ layer' = layer /\ dram' = dram /\ held' = held /\ compute' = compute
        /\ aborted' = aborted /\ command' = 1 /\ command = 0
    BY <1>3 DEF StartCommand
  <2>2. QED
    BY <1>1, <2>1, KeepsExact DEF IInv
<1>4. CASE KernelSend
  BY <1>4, KernelSendGood
<1>5. CASE CompleteCommand
  <2>1. /\ layer' = layer /\ dram' = dram /\ held' = held /\ compute' = compute
        /\ aborted' = aborted /\ command' = 0 /\ compute = "off"
    BY <1>5 DEF CompleteCommand
  <2>2. QED
    BY <1>1, <2>1, KeepsExact DEF IInv
<1>6. CASE ReleaseLayer
  <2>1. /\ Good(layer', dram', held', Exact) /\ aborted' \in BOOLEAN
        /\ aborted' => aborted \/ Kernel \notin Exact
    BY <1>1, <1>6, ReleaseGood
  <2>2. QED
    BY <1>1, <1>6, <2>1, KeepsExact DEF IInv, ReleaseLayer
<1>7. CASE ProcessRespond
  <2>1. /\ Good(layer', dram', held', Exact) /\ aborted' \in BOOLEAN
        /\ aborted' => aborted \/ Kernel \notin Exact
    BY <1>1, <1>7, RespondGood
  <2>2. QED
    BY <1>1, <1>7, <2>1, KeepsExact DEF IInv, ProcessRespond
<1>8. CASE ProcessNextReq
  <2>1. /\ Good(layer', dram', held', Exact) /\ aborted' \in BOOLEAN
        /\ aborted' => aborted \/ Kernel \notin Exact
    BY <1>1, <1>8, NextReqGood
  <2>2. QED
    BY <1>1, <1>8, <2>1, KeepsExact DEF IInv, ProcessNextReq
<1>9. CASE TryComputeAgain
  BY <1>9, AgainGood
<1>10. CASE StrayResponse
  <2>1. /\ layer' = layer /\ dram' = dram /\ held' = held /\ aborted' = TRUE
        /\ command' = command /\ compute' = compute /\ compute = "stray"
    BY <1>10, AbortFields DEF StrayResponse, Becomes
  <2>2. QED
    BY <1>1, <2>1, KeepsExact, ExactPorts DEF IInv
<1>11. CASE UNCHANGED vars
  <2>1. /\ layer' = layer /\ dram' = dram /\ held' = held /\ compute' = compute
        /\ aborted' = aborted /\ command' = command
    BY <1>11 DEF vars
  <2>2. QED
    BY <1>1, <2>1, KeepsExact DEF IInv
<1>12. QED
  BY <1>2, <1>3, <1>4, <1>5, <1>6, <1>7, <1>8, <1>9, <1>10, <1>11 DEF Next

(* Where the list names a port that it names at most once. *)
LEMMA PlacesInList ==
  ASSUME NEW P, NEW w \in Seq(Ports), Once(w, P), NEW p \in Ports,
         NEW S, S = {i \in 1 .. Len(w) : w[i] = p}
  PROVE  /\ IsFiniteSet(S) /\ Cardinality(S) \in Nat
         /\ Cardinality(S) = 0 <=> p \notin ListOf(w)
         /\ p \in P /\ p \in ListOf(w) => Cardinality(S) = 1
<1>1. Len(w) \in Nat
  OBVIOUS
<1>2. IsFiniteSet(1 .. Len(w))
  <2>1. 1 \in Int /\ Len(w) \in Int
    BY <1>1
  <2>2. QED
    BY <2>1, FS_Interval
<1>3. IsFiniteSet(S)
  <2>1. S \subseteq 1 .. Len(w)
    OBVIOUS
  <2>2. QED
    BY <1>2, <2>1, FS_Subset
<1>4. Cardinality(S) \in Nat
  BY <1>3, FS_CardinalityType
<1>5. Cardinality(S) = 0 <=> S = {}
  BY <1>3, FS_EmptySet
<1>6. S = {} <=> p \notin ListOf(w)
  BY DEF ListOf
<1>7. ASSUME p \in P, p \in ListOf(w) PROVE Cardinality(S) = 1
  <2>1. PICK i \in 1 .. Len(w) : w[i] = p
    BY <1>7 DEF ListOf
  <2>2. S = {i}
    BY <1>7, <2>1 DEF Once
  <2>3. QED
    BY <2>2, FS_Singleton
<1>8. QED
  BY <1>3, <1>4, <1>5, <1>6, <1>7

(* What the invariant says of the properties of the runs. *)
LEMMA Consequences ==
  ASSUME IInv
  PROVE  /\ TypeOK /\ QueuesBounded /\ RefusedIsRemembered /\ ReadsAreServed
         /\ AssertionsHold
         /\ ~TouchesLocked => SomeoneWakes
<1> USE InterconnectAssumption
<1>1. DramGood(dram) /\ LayerGood(layer, held, Exact) /\ WakeGood(layer, dram)
  BY DEF IInv, Good
<1>2. TypeOK
  BY <1>1 DEF IInv, TypeOK, DramGood, LayerGood, Helds
<1>3. QueuesBounded /\ ReadsAreServed /\ AssertionsHold
  BY <1>1 DEF IInv, DramGood, QueuesBounded, ReadsAreServed
<1>4. RefusedIsRemembered
  <2> SUFFICES ASSUME NEW p \in Ports
               PROVE  /\ held[p] # NoReq => Places(p) > 0
                      /\ p \in Exact => Places(p) = IF held[p] = NoReq THEN 0 ELSE 1
    BY DEF RefusedIsRemembered
  <2> DEFINE w == layer.waitingForLayer
             S == {i \in 1 .. Len(w) : w[i] = p}
             n == Cardinality(S)
             k == IF layer.waitingForPeer = p THEN 1 ELSE 0
  <2>1. w \in Seq(Ports) /\ Once(w, Exact)
    BY <1>1 DEF LayerGood, Layers
  <2>2. /\ n \in Nat /\ (n = 0 <=> p \notin ListOf(w))
        /\ p \in Exact /\ p \in ListOf(w) => n = 1
    BY <2>1, PlacesInList
  <2>3. Places(p) = n + k
    BY DEF Places
  <2> HIDE DEF S, n
  <2>4. ASSUME held[p] # NoReq PROVE Places(p) > 0
    BY <1>1, <2>2, <2>3, <2>4 DEF LayerGood
  <2>5. ASSUME p \in Exact, held[p] = NoReq PROVE Places(p) = 0
    BY <1>1, <2>2, <2>3, <2>5 DEF LayerGood
  <2>6. ASSUME p \in Exact, held[p] # NoReq PROVE Places(p) = 1
    <3>1. CASE layer.waitingForPeer = p
      BY <1>1, <2>2, <2>3, <2>6, <3>1 DEF LayerGood
    <3>2. CASE layer.waitingForPeer # p
      BY <1>1, <2>2, <2>3, <2>6, <3>2 DEF LayerGood
    <3>3. QED
      BY <3>1, <3>2
  <2>7. QED
    BY <2>4, <2>5, <2>6
<1>5. ASSUME ~TouchesLocked PROVE SomeoneWakes
  <2>1. layer.waitingForPeer # NoPort <=> dram.retryRdReq \/ dram.retryWrReq
    BY <1>1, <1>5 DEF WakeGood
  <2>2. ~(dram.retryRdReq /\ dram.retryWrReq)
    BY <1>1 DEF DramGood
  <2>3. dram.retryRdReq => dram.resps > 0 \/ (dram.reads > 0 /\ dram.nextReq)
    BY <1>1 DEF DramGood, Drams
  <2>4. dram.retryWrReq => dram.writes > 0 /\ dram.nextReq
    BY <1>1 DEF DramGood, Drams
  <2>5. layer.waitingForLayer # << >> =>
          layer.state = "BUSY" \/ layer.waitingForPeer # NoPort
    BY <1>1 DEF LayerGood
  <2>6. QED
    BY <2>1, <2>2, <2>3, <2>4, <2>5 DEF SomeoneWakes
<1>6. QED
  BY <1>2, <1>3, <1>4, <1>5

LEMMA Invariance == Spec => []IInv
  BY InitGood, Inductive, PTL DEF Spec

-----------------------------------------------------------------------------
(* The layer and the controller stay in states their types allow, whatever *)
(* the sizes of the queues.                                                *)
THEOREM Typed == Spec => []TypeOK
<1>1. IInv => TypeOK
  BY Consequences
<1>2. QED
  BY <1>1, Invariance, PTL

(* The read queue with the responses on their way, and the write queue,    *)
(* never outgrow their buffers (addToReadQueue, addToWriteQueue assert it).*)
THEOREM Bounded == Spec => []QueuesBounded
<1>1. IInv => QueuesBounded
  BY Consequences
<1>2. QED
  BY <1>1, Invariance, PTL

(* A refused port is remembered by the layer; in one place and once, and   *)
(* no other port is, except for a kernel whose compute event has sent its  *)
(* refused write again.                                                    *)
THEOREM Remembered == Spec => []RefusedIsRemembered
<1>1. IInv => RefusedIsRemembered
  BY Consequences
<1>2. QED
  BY <1>1, Invariance, PTL

(* The assertions of tryTiming(), recvRetry() and the kernel's             *)
(* recvReqRetry() fail only in a simulation whose compute event has sent   *)
(* a refused write again.                                                  *)
THEOREM Asserted == Spec => []AssertionsHold
<1>1. IInv => AssertionsHold
  BY Consequences
<1>2. QED
  BY <1>1, Invariance, PTL

(* The controller does not go to sleep with reads in its queue. *)
THEOREM Served == Spec => []ReadsAreServed
<1>1. IInv => ReadsAreServed
  BY Consequences
<1>2. QED
  BY <1>1, Invariance, PTL

(* While the host keeps away from the addresses of registered commands,    *)
(* whoever waits for the controller is owed a retry by an event that is    *)
(* scheduled, and whoever waits for an idle layer waits behind such a port.*)
(* Without the hypothesis the statement is false: the memory port refuses  *)
(* the host by itself and owes it nothing.                                 *)
THEOREM Woken == ~TouchesLocked => (Spec => []SomeoneWakes)
<1> SUFFICES ASSUME ~TouchesLocked PROVE Spec => []SomeoneWakes
  OBVIOUS
<1>1. IInv => SomeoneWakes
  BY Consequences
<1>2. QED
  BY <1>1, Invariance, PTL
==============================================================================
