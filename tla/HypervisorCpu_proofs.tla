------------------------- MODULE HypervisorCpu_proofs -------------------------
(***************************************************************************)
(* Proofs about HypervisorCpu for any node, guests and number of blocks:   *)
(* type correctness, exclusive cores, first come first served, and that a  *)
(* guest is answered only for what has been computed.                      *)
(***************************************************************************)
EXTENDS HypervisorCpu, SequenceTheorems, FiniteSetTheorems, Induction, TLAPS

Link == Seq(Work \cup {Idle})

-----------------------------------------------------------------------------
(* Messages, and the manager's operators. *)

LEMMA MessageFacts ==
  /\ Idle \notin Work /\ NoMsg \notin Work /\ Idle # NoMsg
  /\ \A b \in Blocks : /\ Block(b) \in Work /\ Block(b).op = "block" /\ Block(b).block = b
                       /\ OverheadOf(b) \in Work /\ OverheadOf(b).op = "overhead"
                       /\ OverheadOf(b).block = b
  /\ \A w \in Work : /\ w.block \in Blocks /\ w.block.vcore \in VCores
                     /\ w.op = "block" => w = Block(w.block)
                     /\ w.op # "block" => w.op = "overhead" /\ w = OverheadOf(w.block)
<1>1. \A w \in Work : w.op \in {"block", "overhead"} /\ w.block \in Blocks
  BY DEF Work
<1>2. \A b \in Blocks : b.vcore \in VCores
  BY DEF Blocks
<1>3. Idle.op = "idle" /\ NoMsg.op = "none"
  BY DEF Idle, NoMsg
<1>4. \A b \in Blocks : /\ Block(b) \in Work /\ Block(b).op = "block" /\ Block(b).block = b
                        /\ OverheadOf(b) \in Work /\ OverheadOf(b).op = "overhead"
                        /\ OverheadOf(b).block = b
  BY DEF Block, OverheadOf, Work
<1>5. \A w \in Work : /\ w.op = "block" => w = Block(w.block)
                      /\ w.op # "block" => w.op = "overhead" /\ w = OverheadOf(w.block)
  BY DEF Block, OverheadOf, Work
<1> QED BY <1>1, <1>2, <1>3, <1>4, <1>5

\* The core that a block gets is a free one.
LEMMA FirstFreeIsFree ==
  ASSUME NEW h, FreeCores(h) # {}
  PROVE  FirstFree(h) \in FreeCores(h) /\ FirstFree(h) \in Cores
<1>1. FreeCores(h) \in SUBSET Nat /\ FreeCores(h) \subseteq Cores
  BY HypAssumption DEF FreeCores, Cores
<1>2. \E c \in FreeCores(h) : \A d \in FreeCores(h) : c <= d
  BY <1>1, Least
<1>3. FirstFree(h) \in FreeCores(h)
  BY <1>2 DEF FirstFree
<1> QED BY <1>1, <1>3

\* The manager's state, one field at a time.
LEMMA HypFields ==
  ASSUME NEW h \in HypType
  PROVE  /\ h.vmIDs \in [Cores -> VCores \cup {NoVCore}] /\ h.coreQueue \in Seq(Blocks)
         /\ h.saved \in [Cores -> Work \cup {NoMsg}] /\ h.toCore \in [Cores -> Link]
  BY DEF HypType, Link

LEMMA SendFields ==
  ASSUME NEW h \in HypType, NEW c \in Cores, NEW m \in Work \cup {Idle}
  PROVE  /\ Send(h, c, m) \in HypType
         /\ Send(h, c, m).vmIDs = h.vmIDs /\ Send(h, c, m).coreQueue = h.coreQueue
         /\ Send(h, c, m).saved = h.saved
         /\ Send(h, c, m).toCore = [h.toCore EXCEPT ![c] = Append(@, m)]
<1>1. Append(h.toCore[c], m) \in Link
  BY HypFields DEF Link
<1>2. [h.toCore EXCEPT ![c] = Append(@, m)] \in [Cores -> Link]
  BY <1>1, HypFields
<1> QED BY <1>2, HypFields DEF Send, HypType, Link

\* What giving core c to block b changes.
Given(h, g, c, b) ==
  /\ g \in HypType
  /\ g.vmIDs = [h.vmIDs EXCEPT ![c] = b.vcore]
  /\ g.saved = IF overhead THEN [h.saved EXCEPT ![c] = OverheadOf(b)] ELSE h.saved
  /\ g.toCore = [h.toCore EXCEPT ![c] = Append(@, Block(b))]

LEMMA SchedulingFields ==
  ASSUME NEW h \in HypType, NEW b \in Blocks
  PROVE  /\ FreeCores(h) # {} =>
              /\ Given(h, SchedulingCPU(h, b), FirstFree(h), b)
              /\ SchedulingCPU(h, b).coreQueue = h.coreQueue
         /\ FreeCores(h) = {} =>
              /\ SchedulingCPU(h, b) \in HypType
              /\ SchedulingCPU(h, b).coreQueue = Append(h.coreQueue, b)
              /\ SchedulingCPU(h, b).vmIDs = h.vmIDs /\ SchedulingCPU(h, b).saved = h.saved
              /\ SchedulingCPU(h, b).toCore = h.toCore
<1>1. ASSUME FreeCores(h) # {}
      PROVE  /\ Given(h, SchedulingCPU(h, b), FirstFree(h), b)
             /\ SchedulingCPU(h, b).coreQueue = h.coreQueue
  <2> DEFINE c == FirstFree(h)
             h1 == [h EXCEPT !.vmIDs[c] = b.vcore]
             h2 == IF overhead THEN [h1 EXCEPT !.saved[c] = OverheadOf(b)] ELSE h1
  <2>1. c \in Cores /\ b.vcore \in VCores
    BY <1>1, FirstFreeIsFree DEF Blocks
  <2> HIDE DEF c
  <2>2. /\ h1 \in HypType /\ h1.vmIDs = [h.vmIDs EXCEPT ![c] = b.vcore]
        /\ h1.saved = h.saved /\ h1.toCore = h.toCore /\ h1.coreQueue = h.coreQueue
    BY <2>1 DEF HypType
  <2> HIDE DEF h1
  <2>3. /\ h2 \in HypType /\ h2.vmIDs = h1.vmIDs /\ h2.toCore = h1.toCore
        /\ h2.coreQueue = h1.coreQueue
        /\ h2.saved = IF overhead THEN [h1.saved EXCEPT ![c] = OverheadOf(b)] ELSE h1.saved
    BY <2>1, <2>2, MessageFacts DEF HypType
  <2> HIDE DEF h2
  <2>4. SchedulingCPU(h, b) = Send(h2, c, Block(b))
    BY <1>1 DEF SchedulingCPU, SendRequestToCore, c, h1, h2
  <2>5. Block(b) \in Work
    BY MessageFacts
  <2> QED BY SMTT(30), <2>1, <2>2, <2>3, <2>4, <2>5, SendFields DEF Given, c
<1>2. ASSUME FreeCores(h) = {}
      PROVE  /\ SchedulingCPU(h, b) \in HypType
             /\ SchedulingCPU(h, b).coreQueue = Append(h.coreQueue, b)
             /\ SchedulingCPU(h, b).vmIDs = h.vmIDs /\ SchedulingCPU(h, b).saved = h.saved
             /\ SchedulingCPU(h, b).toCore = h.toCore
  <2>1. Append(h.coreQueue, b) \in Seq(Blocks)
    BY HypFields
  <2> QED BY <1>2, <2>1 DEF SchedulingCPU, HypType
<1> QED BY <1>1, <1>2
\* What processHardwareResponse does for core c, which was marked: with nobody
\* waiting c becomes free, and otherwise c itself goes to the oldest waiting block.
LEMMA ResponseFields ==
  ASSUME TypeOK, FirstComeFirstServed, NEW c \in Cores, hyp.vmIDs[c] # NoVCore
  PROVE  LET h == HardwareResponse(hyp, c) IN
         /\ hyp.coreQueue = <<>> =>
              /\ h \in HypType /\ h.vmIDs = [hyp.vmIDs EXCEPT ![c] = NoVCore]
              /\ h.coreQueue = <<>> /\ h.saved = hyp.saved /\ h.toCore = hyp.toCore
         /\ hyp.coreQueue # <<>> =>
              /\ Head(hyp.coreQueue) \in Blocks
              /\ Given(hyp, h, c, Head(hyp.coreQueue))
              /\ h.coreQueue = Tail(hyp.coreQueue)
<1> DEFINE f == [hyp EXCEPT !.vmIDs[c] = NoVCore]
           g == [f EXCEPT !.coreQueue = Tail(@)]
           b == Head(hyp.coreQueue)
<1>1. /\ hyp \in HypType /\ f \in HypType /\ f.vmIDs = [hyp.vmIDs EXCEPT ![c] = NoVCore]
      /\ f.coreQueue = hyp.coreQueue /\ f.saved = hyp.saved /\ f.toCore = hyp.toCore
  BY DEF TypeOK, HypType
<1> HIDE DEF f
<1>2. CASE hyp.coreQueue = <<>>
  BY <1>1, <1>2 DEF HardwareResponse, f
<1>3. CASE hyp.coreQueue # <<>>
  <2>1. b \in Blocks /\ Tail(hyp.coreQueue) \in Seq(Blocks)
    BY <1>1, <1>3, HypFields, HeadTailProperties
  <2>2. /\ g \in HypType /\ g.vmIDs = f.vmIDs /\ g.coreQueue = Tail(hyp.coreQueue)
        /\ g.saved = hyp.saved /\ g.toCore = hyp.toCore
    BY <1>1, <2>1 DEF HypType
  <2> HIDE DEF g
  <2>3. FreeCores(hyp) = {}
    BY <1>3 DEF FirstComeFirstServed
  <2>4. FreeCores(g) = {c}
    <3>1. hyp.vmIDs \in [Cores -> VCores \cup {NoVCore}]
      BY <1>1, HypFields
    <3> QED BY <1>1, <2>2, <2>3, <3>1 DEF FreeCores
  <2>5. FirstFree(g) = c
    BY <2>4, FirstFreeIsFree
  <2>6. HardwareResponse(hyp, c) = SchedulingCPU(g, b)
    BY <1>1, <1>3 DEF HardwareResponse, f, g
  <2>7. Given(g, SchedulingCPU(g, b), c, b) /\ SchedulingCPU(g, b).coreQueue = g.coreQueue
    BY <2>1, <2>2, <2>4, <2>5, SchedulingFields
  <2>8. [g.vmIDs EXCEPT ![c] = b.vcore] = [hyp.vmIDs EXCEPT ![c] = b.vcore]
    <3>1. hyp.vmIDs \in [Cores -> VCores \cup {NoVCore}]
      BY <1>1, HypFields
    <3> QED BY <1>1, <2>2, <3>1
  <2>9. Given(hyp, SchedulingCPU(g, b), c, b)
    BY <2>2, <2>7, <2>8 DEF Given
  <2> QED BY <1>3, <2>1, <2>2, <2>6, <2>7, <2>9
<1> QED BY <1>2, <1>3

\* The order of service: a block joins the queue, or its head gets a core.
LEMMA Joins ==
  ASSUME NEW s \in Seq(Blocks), NEW q \in Seq(Blocks), NEW b \in Blocks
  PROVE  /\ Append(s \o q, b) = s \o Append(q, b)
         /\ q # <<>> /\ b = Head(q) => Append(s, b) \o Tail(q) = s \o q
<1>1. <<b>> \in Seq(Blocks) /\ s \o q \in Seq(Blocks)
  BY ConcatProperties
<1>2. Append(s \o q, b) = (s \o q) \o <<b>> /\ Append(q, b) = q \o <<b>>
      /\ Append(s, b) = s \o <<b>>
  BY <1>1, AppendIsConcat
<1>3. \A t, u \in Seq(Blocks) : (s \o t) \o u = s \o (t \o u)
  BY ConcatAssociative
<1>4. ASSUME q # <<>>, b = Head(q)
      PROVE  Append(s, b) \o Tail(q) = s \o q
  <2>1. Tail(q) \in Seq(Blocks) /\ q = <<b>> \o Tail(q)
    BY <1>4, HeadTailProperties
  <2> QED BY <1>1, <1>2, <1>3, <2>1
<1> QED BY <1>1, <1>2, <1>3, <1>4

-----------------------------------------------------------------------------
(* One link. *)

LEMMA LinkSend ==
  ASSUME NEW s \in Link
  PROVE  /\ Append(s, Idle) \in Link
         /\ NoWork(s) => NoWork(Append(s, Idle))
         /\ \A w \in Work : /\ Append(s, w) \in Link
                            /\ OnlyWork(s, w) => OnlyWork(Append(s, Idle), w)
                            /\ NoWork(s) => OnlyWork(Append(s, w), w)
<1>1. ASSUME NEW m \in Work \cup {Idle}
      PROVE  /\ Append(s, m) \in Link /\ Len(s) \in Nat /\ DOMAIN s = 1 .. Len(s)
             /\ DOMAIN Append(s, m) = 1 .. Len(s) + 1
             /\ \A i \in 1 .. Len(s) : Append(s, m)[i] = s[i]
             /\ Append(s, m)[Len(s) + 1] = m
  BY AppendProperties DEF Link
<1>2. Append(s, Idle) \in Link /\ (NoWork(s) => NoWork(Append(s, Idle)))
  BY <1>1 DEF NoWork
<1>3. ASSUME NEW w \in Work
      PROVE  /\ OnlyWork(s, w) => OnlyWork(Append(s, Idle), w)
             /\ NoWork(s) => OnlyWork(Append(s, w), w)
  <2>1. ASSUME OnlyWork(s, w) PROVE OnlyWork(Append(s, Idle), w)
    <3>1. PICK i \in DOMAIN s : s[i] = w /\ \A j \in DOMAIN s : s[j] # Idle => j = i
      BY <2>1 DEF OnlyWork
    <3>2. i \in DOMAIN Append(s, Idle) /\ Append(s, Idle)[i] = w
      BY <1>1, <3>1
    <3>3. \A j \in DOMAIN Append(s, Idle) : Append(s, Idle)[j] # Idle => j = i
      BY <1>1, <3>1
    <3> QED BY <3>2, <3>3 DEF OnlyWork
  <2>2. ASSUME NoWork(s) PROVE OnlyWork(Append(s, w), w)
    <3>1. Len(s) + 1 \in DOMAIN Append(s, w) /\ Append(s, w)[Len(s) + 1] = w
      BY <1>1
    <3>2. \A j \in DOMAIN Append(s, w) : Append(s, w)[j] # Idle => j = Len(s) + 1
      BY <1>1, <2>2 DEF NoWork
    <3> QED BY <3>1, <3>2 DEF OnlyWork
  <2> QED BY <2>1, <2>2
<1> QED BY <1>1, <1>2, <1>3

LEMMA LinkTake ==
  ASSUME NEW s \in Link, s # <<>>
  PROVE  /\ Head(s) \in Work \cup {Idle} /\ Tail(s) \in Link
         /\ NoWork(s) => Head(s) = Idle /\ NoWork(Tail(s))
         /\ \A w \in Work : OnlyWork(s, w) =>
              /\ Head(s) # Idle => Head(s) = w /\ NoWork(Tail(s))
              /\ Head(s) = Idle => OnlyWork(Tail(s), w)
<1>1. /\ Head(s) \in Work \cup {Idle} /\ Head(s) = s[1] /\ Tail(s) \in Link
      /\ Len(s) \in Nat \ {0} /\ DOMAIN s = 1 .. Len(s)
      /\ DOMAIN Tail(s) = 1 .. Len(s) - 1
      /\ \A i \in 1 .. Len(s) - 1 : Tail(s)[i] = s[i + 1]
  BY HeadTailProperties DEF Link
<1>2. NoWork(s) => Head(s) = Idle /\ NoWork(Tail(s))
  BY <1>1 DEF NoWork
<1>3. ASSUME NEW w \in Work, OnlyWork(s, w)
      PROVE  /\ Head(s) # Idle => Head(s) = w /\ NoWork(Tail(s))
             /\ Head(s) = Idle => OnlyWork(Tail(s), w)
  <2>1. PICK i \in DOMAIN s : s[i] = w /\ \A j \in DOMAIN s : s[j] # Idle => j = i
    BY <1>3 DEF OnlyWork
  <2>2. ASSUME Head(s) # Idle
        PROVE  Head(s) = w /\ NoWork(Tail(s))
    <3>1. i = 1
      BY <1>1, <2>1, <2>2
    <3>2. \A j \in DOMAIN Tail(s) : j + 1 \in DOMAIN s /\ j + 1 # 1 /\ Tail(s)[j] = s[j + 1]
      BY <1>1
    <3> QED BY <1>1, <2>1, <3>1, <3>2 DEF NoWork
  <2>3. ASSUME Head(s) = Idle
        PROVE  OnlyWork(Tail(s), w)
    <3>1. i # 1
      BY <1>1, <2>1, <2>3, MessageFacts
    <3>2. i - 1 \in DOMAIN Tail(s) /\ Tail(s)[i - 1] = w
      BY <1>1, <2>1, <3>1
    <3>3. \A j \in DOMAIN Tail(s) : Tail(s)[j] # Idle => j = i - 1
      BY <1>1, <2>1
    <3> QED BY <3>2, <3>3 DEF OnlyWork
  <2> QED BY <2>2, <2>3
<1> QED BY <1>1, <1>2, <1>3

\* A core serves at most one message, and a vacant one serves none.
LEMMA OneService ==
  ASSUME NEW c, NEW w \in Work, NEW x \in Work, Serves(c, w)
  PROVE  ~Vacant(c) /\ (Serves(c, x) => x = w)
<1>1. Idle # w /\ Idle # x /\ NoMsg # w /\ NoMsg # x
  BY MessageFacts
<1>2. \A s : ~(OnlyWork(s, w) /\ NoWork(s)) /\ (OnlyWork(s, w) /\ OnlyWork(s, x) => x = w)
              /\ ~(OnlyWork(s, x) /\ NoWork(s))
  BY <1>1 DEF OnlyWork, NoWork
<1>3. <<w>> # <<>> /\ (<<w>> = <<x>> => w = x) /\ <<x>> # <<>>
  OBVIOUS
<1> QED BY <1>1, <1>2, <1>3 DEF Serves, Vacant, Arriving, Computing, Returning
-----------------------------------------------------------------------------
(* Counting the blocks asked for; what a step leaves alone. *)

LEMMA AskedCounts ==
  ASSUME TypeOK, NEW v
  PROVE  /\ Asked(v) \in Nat /\ Asked(v) <= Len(arrived)
         /\ \A b \in Blocks : arrived' = Append(arrived, b) =>
              Asked(v)' = IF b.vcore = v THEN Asked(v) + 1 ELSE Asked(v)
<1> DEFINE I == {i \in DOMAIN arrived : arrived[i].vcore = v}
<1>1. arrived \in Seq(Blocks) /\ Len(arrived) \in Nat /\ DOMAIN arrived = 1 .. Len(arrived)
  BY DEF TypeOK
<1>2. /\ IsFiniteSet(1 .. Len(arrived)) /\ Cardinality(1 .. Len(arrived)) = Len(arrived)
  <2>1. 1 \in Int /\ Len(arrived) \in Int
    BY <1>1
  <2>2. (IF 1 > Len(arrived) THEN 0 ELSE Len(arrived) - 1 + 1) = Len(arrived)
    BY <1>1
  <2> QED BY <2>1, <2>2, FS_Interval
<1>3. I \in SUBSET (1 .. Len(arrived))
  BY <1>1
<1>4. IsFiniteSet(I) /\ Cardinality(I) \in Nat /\ Cardinality(I) <= Len(arrived)
  BY <1>2, <1>3, FS_Subset, FS_CardinalityType
<1>5. ASSUME NEW b \in Blocks, arrived' = Append(arrived, b)
      PROVE  Asked(v)' = IF b.vcore = v THEN Asked(v) + 1 ELSE Asked(v)
  <2>1. /\ DOMAIN arrived' = 1 .. Len(arrived) + 1
        /\ \A i \in 1 .. Len(arrived) : arrived'[i] = arrived[i]
        /\ arrived'[Len(arrived) + 1] = b
    BY <1>1, <1>5, AppendProperties
  <2> DEFINE J == {i \in DOMAIN arrived' : arrived'[i].vcore = v}
  <2>2. CASE b.vcore = v
    <3>1. J = I \cup {Len(arrived) + 1} /\ Len(arrived) + 1 \notin I
      BY <1>1, <2>1, <2>2
    <3>2. Cardinality(J) = Cardinality(I) + 1
      BY <1>4, <3>1, FS_AddElement
    <3> QED BY <2>2, <3>2 DEF Asked
  <2>3. CASE b.vcore # v
    <3>1. J = I
      BY <1>1, <2>1, <2>3
    <3> QED BY <2>3, <3>1 DEF Asked
  <2> QED BY <2>2, <2>3
<1> QED BY <1>4, <1>5 DEF Asked

\* A core that a step does not touch keeps its part of the invariant, when its
\* virtual core still waits for the same block.
LEMMA CoreFrame ==
  ASSUME NEW c \in Cores, CoreHeld(c), overhead' = overhead, computed \subseteq computed',
         hyp'.vmIDs[c] = hyp.vmIDs[c], hyp'.saved[c] = hyp.saved[c],
         hyp'.toCore[c] = hyp.toCore[c], core'[c] = core[c], fromCore'[c] = fromCore[c],
         \A b \in Blocks : b.vcore = hyp.vmIDs[c] /\ Outstanding(b) => Outstanding(b)'
  PROVE  CoreHeld(c)'
<1>1. CASE hyp.vmIDs[c] = NoVCore
  BY <1>1 DEF CoreHeld, Vacant
<1>2. CASE hyp.vmIDs[c] # NoVCore
  <2>1. PICK w \in Work : /\ Serves(c, w) /\ w.block.vcore = hyp.vmIDs[c]
                          /\ Outstanding(w.block) /\ Saved(c, w)
                          /\ Returning(c, w) => w \in computed
    BY <1>2 DEF CoreHeld
  <2>2. Serves(c, w)' /\ Saved(c, w)' /\ (Returning(c, w)' => Returning(c, w))
    BY <2>1 DEF Serves, Arriving, Computing, Returning, Saved
  <2>3. Outstanding(w.block)'
    BY <2>1, MessageFacts
  <2> QED BY <1>2, <2>1, <2>2, <2>3 DEF CoreHeld
<1> QED BY <1>1, <1>2

\* A virtual core that has a core waits, and so does one that is in the queue.
LEMMA ServedWaits ==
  ASSUME Held
  PROVE  /\ \A c \in Cores : hyp.vmIDs[c] # NoVCore => vstate[hyp.vmIDs[c]] = "waiting"
         /\ \A b \in Blocks : InQueue(b) => vstate[b.vcore] = "waiting"
  BY DEF Held, CoreHeld, QueueHeld, Outstanding

\* The goal of the lemmas about single actions.
Kept == TypeOK' /\ FirstComeFirstServed' /\ (~failed' => Held')
-----------------------------------------------------------------------------
(* Requests. *)

LEMMA RequestBlockKeeps ==
  ASSUME IInv, NEW v \in VCores, RequestBlock(v)
  PROVE  Kept
<1> DEFINE q == hyp.coreQueue
<1>1. /\ TypeOK /\ FirstComeFirstServed /\ Held /\ hyp \in HypType
      /\ arrived \in Seq(Blocks) /\ started \in Seq(Blocks)
      /\ computed \subseteq Work /\ vstate \in [VCores -> {"free", "waiting", "answered"}]
      /\ hyp.vmIDs \in [Cores -> VCores \cup {NoVCore}] /\ hyp.toCore \in [Cores -> Link]
      /\ hyp.saved \in [Cores -> Work \cup {NoMsg}] /\ q \in Seq(Blocks) /\ v # NoVCore
  BY HypFields, HypAssumption DEF IInv, TypeOK, RequestBlock
<1>2. PICK b \in Blocks : b.vcore = v /\ b.n = Asked(v) + 1
                         /\ b = [vcore |-> v, n |-> Asked(v) + 1]
  <2>1. Asked(v) \in Nat /\ Asked(v) <= Len(arrived) /\ Len(arrived) \in Nat
    BY <1>1, AskedCounts
  <2>2. Asked(v) + 1 \in 1 .. MaxBlocks
    BY <2>1, HypAssumption DEF RequestBlock
  <2> QED BY <2>2 DEF Blocks
<1>3. /\ ~failed /\ failed' = failed /\ vstate[v] # "waiting"
      /\ vstate' = [vstate EXCEPT ![v] = "waiting"]
      /\ hyp' = SchedulingCPU(hyp, b)
      /\ arrived' = Append(arrived, b)
      /\ started' = IF FreeCores(hyp) # {} THEN Append(started, b) ELSE started
      /\ everQueued' = (everQueued \/ FreeCores(hyp) = {})
      /\ UNCHANGED <<overhead, core, fromCore, computed, stray>>
  BY <1>2 DEF RequestBlock
<1>4. /\ Asked(v)' = Asked(v) + 1 /\ Asked(v) \in Nat
      /\ \A u \in VCores : u # v => Asked(u)' = Asked(u)
      /\ \A u \in VCores : Asked(u) \in Nat /\ Asked(u) <= Asked(u)' /\ Asked(u)' \in Nat
  BY SMTT(30), <1>1, <1>2, <1>3, AskedCounts
<1>5. /\ \A c \in Cores : hyp.vmIDs[c] # v
      /\ \A a \in Blocks : InQueue(a) => a.vcore # v
  BY <1>1, <1>3, ServedWaits
<1>6. /\ Outstanding(b)'
      /\ \A a \in Blocks : a.vcore # v /\ Outstanding(a) => Outstanding(a)'
  <2>1. \A a \in Blocks : a.vcore \in VCores
    BY DEF Blocks
  <2> QED BY <1>1, <1>2, <1>3, <1>4, <2>1 DEF Outstanding
<1>7. ComputedPast'
  <2>1. \A w \in Work : w.block.n \in Nat /\ w.block.vcore \in VCores
    <3>1. \A a \in Blocks : a.n \in Nat /\ a.vcore \in VCores
      BY HypAssumption DEF Blocks
    <3> QED BY <3>1, MessageFacts
  <2> QED BY <1>1, <1>3, <1>4, <2>1 DEF Held, ComputedPast
<1>8. vstate' \in [VCores -> {"free", "waiting", "answered"}] /\ arrived' \in Seq(Blocks)
  BY <1>1, <1>2, <1>3
<1>9. ASSUME FreeCores(hyp) # {} PROVE Kept
  <2>1. PICK f \in Cores : /\ f = FirstFree(hyp) /\ hyp.vmIDs[f] = NoVCore
                           /\ Given(hyp, hyp', f, b)
    BY <1>1, <1>2, <1>3, <1>9, SchedulingFields, FirstFreeIsFree DEF FreeCores
  <2>2. hyp'.coreQueue = q /\ started' = Append(started, b) /\ q = <<>>
    BY <1>1, <1>2, <1>3, <1>9, SchedulingFields DEF FirstComeFirstServed
  <2>3. /\ hyp' \in HypType /\ hyp'.vmIDs = [hyp.vmIDs EXCEPT ![f] = v]
        /\ hyp'.vmIDs[f] = v /\ hyp'.toCore[f] = Append(hyp.toCore[f], Block(b))
        /\ overhead => hyp'.saved[f] = OverheadOf(b)
        /\ \A c \in Cores \ {f} : /\ hyp'.vmIDs[c] = hyp.vmIDs[c]
                                  /\ hyp'.toCore[c] = hyp.toCore[c]
                                  /\ hyp'.saved[c] = hyp.saved[c]
    BY <1>1, <1>2, <2>1 DEF Given
  <2>4. TypeOK'
    <3>1. started' \in Seq(Blocks)
      BY <1>1, <1>2, <2>2
    <3> QED BY <1>1, <1>3, <1>8, <2>3, <3>1 DEF TypeOK
  <2>5. FirstComeFirstServed'
    <3>1. arrived = started
      BY <1>1, <2>2, ConcatEmptySeq DEF FirstComeFirstServed
    <3>2. arrived' \o <<>> = arrived'
      BY <1>8, ConcatEmptySeq
    <3> QED BY <1>3, <2>2, <3>1, <3>2 DEF FirstComeFirstServed
  <2>6. ASSUME NEW c \in Cores
        PROVE  CoreHeld(c)'
    <3>1. CASE c # f
      <4>1. \A a \in Blocks : a.vcore = hyp.vmIDs[c] /\ Outstanding(a) => Outstanding(a)'
        BY <1>5, <1>6
      <4> QED BY <1>1, <1>3, <2>3, <3>1, <4>1, CoreFrame DEF Held
    <3>2. CASE c = f
      <4>1. Vacant(f)
        BY <1>1, <2>1, <3>2 DEF Held, CoreHeld
      <4>2. hyp.toCore[f] \in Link
        BY <1>1, <2>1
      <4>3. PICK w \in Work : w = Block(b) /\ w.op = "block" /\ w.block = b
        BY MessageFacts
      <4>4. Arriving(f, w)'
        <5>1. w \in Work /\ OnlyWork(Append(hyp.toCore[f], w), w)
          BY <4>1, <4>2, LinkSend DEF Vacant
        <5>2. hyp'.toCore[f] = Append(hyp.toCore[f], w)
          BY <2>3, <4>3
        <5> QED BY <1>3, <4>1, <5>1, <5>2 DEF Vacant, Arriving
      <4>5. ~Returning(f, w)' /\ Saved(f, w)'
        BY <1>3, <2>3, <4>3, <4>4 DEF Arriving, Returning, Saved
      <4>6. Serves(f, w)'
        BY <4>4 DEF Serves
      <4> QED BY <1>1, <1>2, <1>6, <2>3, <3>2, <4>3, <4>5, <4>6 DEF CoreHeld
    <3> QED BY <3>1, <3>2
  <2>7. QueueHeld'
    BY <2>2 DEF QueueHeld, InQueue
  <2>8. OneCoreEach'
    BY <1>1, <1>5, <2>3 DEF Held, OneCoreEach
  <2> QED BY <1>7, <2>4, <2>5, <2>6, <2>7, <2>8 DEF Kept, Held
<1>10. ASSUME FreeCores(hyp) = {} PROVE Kept
  <2>1. /\ hyp' \in HypType /\ hyp'.coreQueue = Append(q, b) /\ hyp'.vmIDs = hyp.vmIDs
        /\ hyp'.saved = hyp.saved /\ hyp'.toCore = hyp.toCore /\ started' = started
    BY <1>1, <1>2, <1>3, <1>10, SchedulingFields
  <2>2. TypeOK'
    BY <1>1, <1>3, <1>8, <2>1 DEF TypeOK
  <2>3. FirstComeFirstServed'
    <3>1. Append(started \o q, b) = started \o Append(q, b)
      BY <1>1, Joins
    <3>2. FreeCores(hyp)' = {}
      BY <1>10, <2>1 DEF FreeCores
    <3> QED BY <1>1, <1>3, <2>1, <3>1, <3>2 DEF FirstComeFirstServed
  <2>4. ASSUME NEW c \in Cores
        PROVE  CoreHeld(c)'
    <3>1. \A a \in Blocks : a.vcore = hyp.vmIDs[c] /\ Outstanding(a) => Outstanding(a)'
      BY <1>5, <1>6
    <3> QED BY <1>1, <1>3, <2>1, <3>1, CoreFrame DEF Held
  <2>5. QueueHeld'
    <3>1. /\ Len(q) \in Nat /\ DOMAIN q = 1 .. Len(q)
          /\ DOMAIN hyp'.coreQueue = 1 .. Len(q) + 1
          /\ \A i \in 1 .. Len(q) : hyp'.coreQueue[i] = q[i] /\ q[i] \in Blocks
          /\ hyp'.coreQueue[Len(q) + 1] = b
      BY <1>1, <1>2, <2>1, AppendProperties
    <3>2. \A i \in 1 .. Len(q) : InQueue(q[i]) /\ q[i].vcore # v
      BY <1>5, <3>1 DEF InQueue
    <3>3. ASSUME NEW a \in Blocks, InQueue(a)'
          PROVE  Outstanding(a)' /\ \A c \in Cores : hyp'.vmIDs[c] # a.vcore
      <4>1. a = b \/ InQueue(a)
        BY <3>1, <3>3 DEF InQueue
      <4> QED BY <1>1, <1>2, <1>5, <1>6, <2>1, <4>1 DEF Held, QueueHeld
    <3>4. ASSUME NEW i \in 1 .. Len(q) + 1, NEW j \in 1 .. Len(q) + 1,
                 hyp'.coreQueue[i].vcore = hyp'.coreQueue[j].vcore
          PROVE  i = j
      <4>1. \A k, l \in 1 .. Len(q) : q[k].vcore = q[l].vcore => k = l
        BY <1>1, <3>1 DEF Held, QueueHeld
      <4> QED BY SMTT(30), <1>2, <3>1, <3>2, <3>4, <4>1
    <3> QED BY <3>1, <3>3, <3>4 DEF QueueHeld
  <2>6. OneCoreEach'
    BY <1>1, <2>1 DEF Held, OneCoreEach
  <2> QED BY <1>7, <2>2, <2>3, <2>4, <2>5, <2>6 DEF Kept, Held
<1> QED BY <1>9, <1>10

LEMMA RequestIdleKeeps ==
  ASSUME IInv, NEW v \in VCores, RequestIdle(v)
  PROVE  Kept
<1>1. /\ ~failed /\ vstate[v] = "answered" /\ vstate' = [vstate EXCEPT ![v] = "free"]
      /\ hyp' = Send(hyp, VIndex[v], Idle)
      /\ UNCHANGED <<overhead, core, fromCore, failed, arrived, started, computed, stray,
                     everQueued>>
  BY DEF RequestIdle, history
<1>2. /\ TypeOK /\ FirstComeFirstServed /\ Held /\ hyp \in HypType /\ VIndex[v] \in Cores
      /\ vstate \in [VCores -> {"free", "waiting", "answered"}]
      /\ hyp.toCore \in [Cores -> Link] /\ hyp.coreQueue \in Seq(Blocks)
  BY <1>1, HypAssumption, HypFields DEF IInv, TypeOK
<1>3. /\ hyp' \in HypType /\ hyp'.vmIDs = hyp.vmIDs /\ hyp'.coreQueue = hyp.coreQueue
      /\ hyp'.saved = hyp.saved
      /\ hyp'.toCore = [hyp.toCore EXCEPT ![VIndex[v]] = Append(@, Idle)]
  <2>1. Idle \in Work \cup {Idle}
    OBVIOUS
  <2> QED BY ZenonT(40), <1>1, <1>2, <2>1, SendFields
<1>4. TypeOK' /\ FirstComeFirstServed'
  BY <1>1, <1>2, <1>3 DEF TypeOK, FirstComeFirstServed, FreeCores
<1>5. \A a \in Blocks : Outstanding(a) => Outstanding(a)'
  <2>1. \A a \in Blocks : a.vcore \in VCores
    BY DEF Blocks
  <2> QED BY <1>1, <1>2, <2>1 DEF Outstanding, Asked
<1>6. ASSUME NEW c \in Cores
      PROVE  CoreHeld(c)'
  <2>1. CoreHeld(c)
    BY <1>2 DEF Held
  <2>2. CASE c # VIndex[v]
    BY <1>1, <1>2, <1>3, <1>5, <2>1, <2>2, CoreFrame
  <2>3. CASE c = VIndex[v]
    <3>1. hyp'.toCore[c] = Append(hyp.toCore[c], Idle) /\ hyp.toCore[c] \in Link
      BY <1>2, <1>3, <2>3
    <3>2. CASE hyp.vmIDs[c] = NoVCore
      BY <1>1, <1>3, <2>1, <3>1, <3>2, LinkSend DEF CoreHeld, Vacant
    <3>3. CASE hyp.vmIDs[c] # NoVCore
      <4>1. PICK w \in Work : /\ Serves(c, w) /\ w.block.vcore = hyp.vmIDs[c]
                              /\ Outstanding(w.block) /\ Saved(c, w)
                              /\ Returning(c, w) => w \in computed
        BY <2>1, <3>3 DEF CoreHeld
      <4>2. Serves(c, w)' /\ (Returning(c, w)' => Returning(c, w))
        <5>1. CASE Arriving(c, w)
          BY <1>1, <3>1, <5>1, LinkSend DEF Serves, Arriving, Returning
        <5>2. CASE Computing(c, w)
          BY <1>1, <3>1, <5>2, LinkSend, MessageFacts DEF Serves, Computing, Returning
        <5>3. CASE Returning(c, w)
          BY <1>1, <3>1, <5>3, LinkSend DEF Serves, Returning
        <5> QED BY <4>1, <5>1, <5>2, <5>3 DEF Serves
      <4>3. Saved(c, w)' /\ Outstanding(w.block)'
        BY <1>1, <1>3, <1>5, <4>1, MessageFacts DEF Saved
      <4> QED BY <1>1, <1>3, <3>3, <4>1, <4>2, <4>3 DEF CoreHeld
    <3> QED BY <3>2, <3>3
  <2> QED BY <2>2, <2>3
<1>7. QueueHeld'
  BY <1>2, <1>3, <1>5 DEF Held, QueueHeld, InQueue
<1>8. OneCoreEach'
  BY <1>2, <1>3 DEF Held, OneCoreEach
<1>9. ComputedPast'
  BY <1>1, <1>2 DEF Held, ComputedPast, Asked
<1> QED BY <1>4, <1>6, <1>7, <1>8, <1>9 DEF Kept, Held
-----------------------------------------------------------------------------
(* Responses. *)

\* Message w of core c is back at the manager, the only one of that core.
Back(c, w) ==
  /\ w \in Work /\ w.block.vcore = hyp.vmIDs[c] /\ hyp.vmIDs[c] # NoVCore
  /\ Head(fromCore[c]) = w /\ Tail(fromCore[c]) = <<>>
  /\ NoWork(hyp.toCore[c]) /\ core[c] = NoMsg
  /\ Outstanding(w.block) /\ Saved(c, w) /\ w \in computed

LEMMA ResponseIsBack ==
  ASSUME IInv, ~failed, NEW c \in Cores, fromCore[c] # <<>>
  PROVE  \E w \in Work : Back(c, w)
<1>1. CoreHeld(c)
  BY DEF IInv, Held
<1>2. hyp.vmIDs[c] # NoVCore
  BY <1>1 DEF CoreHeld, Vacant
<1>3. PICK w \in Work : /\ Serves(c, w) /\ w.block.vcore = hyp.vmIDs[c]
                        /\ Outstanding(w.block) /\ Saved(c, w)
                        /\ Returning(c, w) => w \in computed
  BY <1>1, <1>2 DEF CoreHeld
<1>4. Returning(c, w)
  BY <1>3 DEF Serves, Arriving, Computing
<1>5. Head(<<w>>) = w /\ Tail(<<w>>) = <<>>
  OBVIOUS
<1> QED BY <1>2, <1>3, <1>4, <1>5 DEF Back, Returning, Vacant

\* The block has been computed and its overhead goes to the same core.
LEMMA BlockComputedKeeps ==
  ASSUME IInv, NEW c \in Cores, ProcessResponse(c), NEW w \in Work, Back(c, w),
         BlockComputed(c, w)
  PROVE  Kept
<1>1. /\ ~failed /\ w.op = "block" /\ overhead
      /\ fromCore' = [fromCore EXCEPT ![c] = Tail(@)]
      /\ UNCHANGED <<overhead, core, arrived, computed, everQueued, vstate, started, stray>>
  BY DEF ProcessResponse, BlockComputed
<1>2. /\ TypeOK /\ FirstComeFirstServed /\ Held /\ hyp \in HypType
      /\ fromCore \in [Cores -> Seq(Work)] /\ core \in [Cores -> Work \cup {NoMsg}]
      /\ hyp.toCore \in [Cores -> Link] /\ hyp.saved \in [Cores -> Work \cup {NoMsg}]
  BY <1>1, HypFields DEF IInv, TypeOK
<1>3. fromCore' \in [Cores -> Seq(Work)] /\ fromCore'[c] = <<>>
  <2>1. Tail(fromCore[c]) = <<>> /\ <<>> \in Seq(Work)
    BY DEF Back
  <2> QED BY <1>1, <1>2, <2>1
<1>4. CASE hyp.saved[c] = NoMsg
  <2>1. hyp' = hyp /\ failed' = TRUE
    BY <1>4 DEF BlockComputed
  <2>2. TypeOK'
    BY <1>1, <1>2, <1>3, <2>1 DEF TypeOK
  <2>3. FirstComeFirstServed'
    BY <1>1, <1>2, <2>1 DEF FirstComeFirstServed, FreeCores
  <2> QED BY <2>1, <2>2, <2>3 DEF Kept
<1>5. CASE hyp.saved[c] # NoMsg
  <2>1. /\ hyp' = [Send(hyp, c, hyp.saved[c]) EXCEPT !.saved[c] = w]
        /\ failed' = failed
    BY <1>5 DEF BlockComputed
  <2>2. PICK x \in Work : x = hyp.saved[c] /\ x = OverheadOf(w.block)
                          /\ x.op = "overhead" /\ x.block = w.block
    BY <1>1, <1>2, <1>5, MessageFacts DEF Back, Saved
  <2>3. /\ hyp' \in HypType /\ hyp'.vmIDs = hyp.vmIDs /\ hyp'.coreQueue = hyp.coreQueue
        /\ hyp'.saved = [hyp.saved EXCEPT ![c] = w]
        /\ hyp'.toCore = [hyp.toCore EXCEPT ![c] = Append(@, x)]
    <3> DEFINE g == Send(hyp, c, x)
    <3>1. /\ g \in HypType /\ g.vmIDs = hyp.vmIDs /\ g.coreQueue = hyp.coreQueue
          /\ g.saved = hyp.saved /\ g.toCore = [hyp.toCore EXCEPT ![c] = Append(@, x)]
      BY <1>2, <2>2, SendFields
    <3>2. hyp' = [g EXCEPT !.saved[c] = w]
      BY <2>1, <2>2
    <3> HIDE DEF g
    <3> QED BY <3>1, <3>2 DEF HypType
  <2>4. TypeOK'
    BY <1>1, <1>2, <1>3, <2>1, <2>3 DEF TypeOK
  <2>5. FirstComeFirstServed'
    BY <1>1, <1>2, <2>3 DEF FirstComeFirstServed, FreeCores
  <2>6. \A a \in Blocks : Outstanding(a) => Outstanding(a)'
    BY <1>1 DEF Outstanding, Asked
  <2>7. ASSUME NEW d \in Cores
        PROVE  CoreHeld(d)'
    <3>1. CASE d # c
      BY <1>1, <1>2, <2>3, <2>6, <3>1, CoreFrame DEF Held
    <3>2. CASE d = c
      <4>1. hyp'.toCore[c] = Append(hyp.toCore[c], x) /\ hyp'.saved[c] = w
        BY <1>2, <2>3
      <4>2. OnlyWork(Append(hyp.toCore[c], x), x)
        BY <1>2, LinkSend DEF Back, Vacant
      <4>3. Arriving(c, x)'
        BY <1>1, <1>3, <4>1, <4>2 DEF Arriving, Back
      <4>4. Serves(c, x)' /\ ~Returning(c, x)'
        BY <4>3 DEF Serves, Arriving, Returning
      <4>5. Saved(c, x)'
        BY <1>1, <2>2, <4>1, MessageFacts DEF Saved, Back
      <4>6. Outstanding(x.block)' /\ x.block.vcore = hyp.vmIDs[c]
        BY <2>2, <2>6, MessageFacts DEF Back
      <4> QED BY <2>3, <3>2, <4>4, <4>5, <4>6 DEF CoreHeld, Back
    <3> QED BY <3>1, <3>2
  <2>8. QueueHeld'
    BY <1>2, <2>3, <2>6 DEF Held, QueueHeld, InQueue
  <2>9. OneCoreEach'
    BY <1>2, <2>3 DEF Held, OneCoreEach
  <2>10. ComputedPast'
    BY <1>1, <1>2 DEF Held, ComputedPast, Asked
  <2> QED BY <2>4, <2>5, <2>7, <2>8, <2>9, <2>10 DEF Kept, Held
<1> QED BY <1>4, <1>5
\* The core is given away: to nobody, or to the oldest waiting block.  The guest
\* may have been answered, and the saved message of the core forgotten.
LEMMA GiveAwayKeeps ==
  ASSUME IInv, ~failed, NEW c \in Cores, NEW w \in Work, Back(c, w), hyp' \in HypType,
         LET h == HardwareResponse(hyp, c) IN
           /\ hyp'.vmIDs = h.vmIDs /\ hyp'.coreQueue = h.coreQueue /\ hyp'.toCore = h.toCore
           /\ hyp'.saved = h.saved \/ hyp'.saved = [h.saved EXCEPT ![c] = NoMsg],
         fromCore' = [fromCore EXCEPT ![c] = Tail(@)],
         vstate' = vstate \/ vstate' = [vstate EXCEPT ![w.block.vcore] = "answered"],
         started' = started \o NextStarted(hyp), stray' \subseteq Work, failed' = failed,
         UNCHANGED <<overhead, core, arrived, computed, everQueued>>
  PROVE  Kept
<1> DEFINE v == w.block.vcore
           q == hyp.coreQueue
<1>1. /\ TypeOK /\ FirstComeFirstServed /\ Held /\ hyp \in HypType
      /\ fromCore \in [Cores -> Seq(Work)] /\ core \in [Cores -> Work \cup {NoMsg}]
      /\ hyp.toCore \in [Cores -> Link] /\ hyp.saved \in [Cores -> Work \cup {NoMsg}]
      /\ hyp.vmIDs \in [Cores -> VCores \cup {NoVCore}] /\ q \in Seq(Blocks)
      /\ vstate \in [VCores -> {"free", "waiting", "answered"}]
      /\ arrived \in Seq(Blocks) /\ started \in Seq(Blocks)
      /\ v \in VCores /\ hyp.vmIDs[c] = v /\ v # NoVCore
      /\ hyp'.saved \in [Cores -> Work \cup {NoMsg}]
  BY HypFields, MessageFacts DEF IInv, TypeOK, Back, HypType
<1>2. fromCore' \in [Cores -> Seq(Work)] /\ fromCore'[c] = <<>>
  <2>1. Tail(fromCore[c]) = <<>> /\ <<>> \in Seq(Work)
    BY DEF Back
  <2> QED BY <1>1, <2>1
<1>3. vstate' \in [VCores -> {"free", "waiting", "answered"}]
  BY <1>1
<1>4. ASSUME NEW a \in Blocks, a.vcore # v, Outstanding(a)
      PROVE  Outstanding(a)'
  <2>1. a.vcore \in VCores
    BY DEF Blocks
  <2>2. vstate'[a.vcore] = vstate[a.vcore]
    BY <1>1, <1>4, <2>1
  <2> QED BY <1>4, <2>2 DEF Outstanding, Asked
<1>5. \A a \in Blocks : InQueue(a) =>
        /\ Outstanding(a) /\ Outstanding(a)' /\ a.vcore # v /\ a.vcore \in VCores
        /\ \A d \in Cores : hyp.vmIDs[d] # a.vcore
  <2>1. \A a \in Blocks : a.vcore \in VCores
    BY DEF Blocks
  <2> QED BY <1>1, <1>4, <2>1 DEF Held, QueueHeld
<1>6. \A d \in Cores \ {c} : hyp.vmIDs[d] # v
  BY <1>1 DEF Held, OneCoreEach
<1>7. ComputedPast'
  BY <1>1 DEF Held, ComputedPast, Asked
<1>8. ASSUME started' \in Seq(Blocks), FirstComeFirstServed', QueueHeld', OneCoreEach',
             CoreHeld(c)', \A d \in Cores \ {c} : /\ hyp'.vmIDs[d] = hyp.vmIDs[d]
                                                  /\ hyp'.toCore[d] = hyp.toCore[d]
                                                  /\ hyp'.saved[d] = hyp.saved[d]
      PROVE  Kept
  <2>1. TypeOK'
    BY <1>1, <1>2, <1>3, <1>8 DEF TypeOK
  <2>2. ASSUME NEW d \in Cores, d # c
        PROVE  CoreHeld(d)'
    <3>1. \A a \in Blocks : a.vcore = hyp.vmIDs[d] /\ Outstanding(a) => Outstanding(a)'
      BY <1>4, <1>6, <2>2
    <3> QED BY <1>1, <1>8, <2>2, <3>1, CoreFrame DEF Held
  <2> QED BY <1>7, <1>8, <2>1, <2>2 DEF Kept, Held
<1>9. CASE q = <<>>
  <2>1. /\ hyp'.vmIDs = [hyp.vmIDs EXCEPT ![c] = NoVCore] /\ hyp'.coreQueue = <<>>
        /\ hyp'.toCore = hyp.toCore
        /\ hyp'.saved = hyp.saved \/ hyp'.saved = [hyp.saved EXCEPT ![c] = NoMsg]
    BY <1>1, <1>9, ResponseFields
  <2>2. started' = started
    <3>1. started' = started \o <<>>
      BY <1>9 DEF NextStarted
    <3> QED BY <1>1, <3>1, ConcatEmptySeq
  <2>3. FirstComeFirstServed'
    BY <1>1, <1>9, <2>1, <2>2 DEF FirstComeFirstServed
  <2>4. QueueHeld'
    BY <2>1 DEF QueueHeld, InQueue
  <2>5. OneCoreEach'
    BY <1>1, <2>1 DEF Held, OneCoreEach
  <2>6. CoreHeld(c)'
    BY <1>1, <1>2, <2>1 DEF CoreHeld, Vacant, Back
  <2>7. \A d \in Cores \ {c} : /\ hyp'.vmIDs[d] = hyp.vmIDs[d]
                               /\ hyp'.toCore[d] = hyp.toCore[d]
                               /\ hyp'.saved[d] = hyp.saved[d]
    BY <1>1, <2>1
  <2> QED BY <1>1, <1>8, <2>2, <2>3, <2>4, <2>5, <2>6, <2>7
<1>10. CASE q # <<>>
  <2>1. PICK b \in Blocks : b = Head(q) /\ Given(hyp, HardwareResponse(hyp, c), c, b)
    BY <1>1, <1>10, ResponseFields
  <2>2. hyp'.coreQueue = Tail(q)
    BY <1>1, <1>10, ResponseFields
  <2>3. /\ Len(q) \in Nat \ {0} /\ DOMAIN q = 1 .. Len(q) /\ q[1] = b
        /\ DOMAIN hyp'.coreQueue = 1 .. Len(q) - 1
        /\ \A i \in 1 .. Len(q) - 1 : hyp'.coreQueue[i] = q[i + 1]
        /\ \A i \in 1 .. Len(q) : q[i] \in Blocks
    BY <1>1, <1>10, <2>1, <2>2, HeadTailProperties
  <2>4. /\ \A i \in 1 .. Len(q) : InQueue(q[i])
        /\ \A i, j \in 1 .. Len(q) : q[i].vcore = q[j].vcore => i = j
    BY <1>1, <2>3 DEF Held, QueueHeld, InQueue
  <2>5. /\ Outstanding(b)' /\ b.vcore # v /\ b.vcore \in VCores /\ b.vcore # NoVCore
        /\ \A d \in Cores : hyp.vmIDs[d] # b.vcore
    BY <1>5, <2>3, <2>4, HypAssumption
  <2>6. /\ hyp'.vmIDs = [hyp.vmIDs EXCEPT ![c] = b.vcore]
        /\ hyp'.toCore = [hyp.toCore EXCEPT ![c] = Append(@, Block(b))]
        /\ \A d \in Cores \ {c} : hyp'.saved[d] = hyp.saved[d]
        /\ overhead => hyp'.saved[c] \in {OverheadOf(b), NoMsg}
    BY <1>1, <2>1 DEF Given
  <2>7. started' = Append(started, b) /\ started' \in Seq(Blocks)
    <3>1. started' = started \o <<b>>
      BY <1>10, <2>1 DEF NextStarted
    <3> QED BY <1>1, <3>1, AppendIsConcat
  <2>8. FirstComeFirstServed'
    <3>1. Append(started, b) \o Tail(q) = started \o q
      BY <1>1, <1>10, <2>1, Joins
    <3>2. FreeCores(hyp') = {}
      <4>1. FreeCores(hyp) = {}
        BY <1>1, <1>10 DEF FirstComeFirstServed
      <4> QED BY <1>1, <2>5, <2>6, <4>1 DEF FreeCores
    <3> QED BY <1>1, <2>2, <2>7, <3>1, <3>2 DEF FirstComeFirstServed
  <2>9. QueueHeld'
    <3>1. ASSUME NEW a \in Blocks, InQueue(a)'
          PROVE  Outstanding(a)' /\ \A d \in Cores : hyp'.vmIDs[d] # a.vcore
      <4>1. PICK i \in 1 .. Len(q) - 1 : q[i + 1] = a
        BY <2>3, <3>1 DEF InQueue
      <4>2. i + 1 \in 1 .. Len(q) /\ i + 1 # 1
        BY <2>3
      <4>3. InQueue(a) /\ a.vcore # b.vcore
        BY <2>3, <2>4, <4>1, <4>2
      <4> QED BY <1>1, <1>5, <2>6, <4>3
    <3>2. ASSUME NEW i \in 1 .. Len(q) - 1, NEW j \in 1 .. Len(q) - 1,
                 hyp'.coreQueue[i].vcore = hyp'.coreQueue[j].vcore
          PROVE  i = j
      <4>1. i + 1 \in 1 .. Len(q) /\ j + 1 \in 1 .. Len(q)
        BY <2>3
      <4> QED BY SMTT(30), <2>3, <2>4, <3>2, <4>1
    <3> QED BY <2>3, <3>1, <3>2 DEF QueueHeld
  <2>10. OneCoreEach'
    BY <1>1, <2>5, <2>6 DEF Held, OneCoreEach
  <2>11. CoreHeld(c)'
    <3>1. PICK x \in Work : x = Block(b) /\ x.op = "block" /\ x.block = b
      BY MessageFacts
    <3>2. hyp'.toCore[c] = Append(hyp.toCore[c], x) /\ hyp'.vmIDs[c] = b.vcore
      BY <1>1, <2>6, <3>1
    <3>3. OnlyWork(Append(hyp.toCore[c], x), x)
      BY <1>1, LinkSend DEF Back
    <3>4. Arriving(c, x)'
      BY <1>2, <3>2, <3>3 DEF Arriving, Back
    <3>5. Serves(c, x)' /\ ~Returning(c, x)'
      <4>1. <<>> # <<x>>
        OBVIOUS
      <4> QED BY <1>2, <3>4, <4>1 DEF Serves, Returning
    <3>6. Saved(c, x)'
      BY <2>6, <3>1 DEF Saved
    <3> QED BY <2>5, <3>1, <3>2, <3>5, <3>6 DEF CoreHeld
  <2>12. \A d \in Cores \ {c} : /\ hyp'.vmIDs[d] = hyp.vmIDs[d]
                                /\ hyp'.toCore[d] = hyp.toCore[d]
                                /\ hyp'.saved[d] = hyp.saved[d]
    BY <1>1, <2>6
  <2> QED BY <1>8, <2>7, <2>8, <2>9, <2>10, <2>11, <2>12
<1> QED BY <1>9, <1>10
\* What is sent to the guest when a core is given away.
LEMMA Answered ==
  ASSUME IInv, ~failed, NEW c \in Cores, NEW w \in Work, Back(c, w)
  PROVE  /\ HardwareResponse(hyp, c) \in HypType
         /\ ~overhead => w = Block(w.block)
         /\ overhead /\ w.op = "overhead" =>
              LET s == HardwareResponse(hyp, c).saved[c]
              IN s = Block(w.block) \/ (s \in Work /\ s.op = "overhead")
<1>1. /\ TypeOK /\ FirstComeFirstServed /\ hyp.vmIDs[c] # NoVCore /\ hyp \in HypType
      /\ hyp.saved \in [Cores -> Work \cup {NoMsg}]
  BY HypFields DEF IInv, TypeOK, Back
<1>2. ~overhead => w = Block(w.block)
  BY MessageFacts DEF Back, Saved
<1>3. overhead /\ w.op = "overhead" => hyp.saved[c] = Block(w.block)
  BY DEF Back, Saved
<1>4. CASE hyp.coreQueue = <<>>
  <2>1. HardwareResponse(hyp, c) \in HypType /\ HardwareResponse(hyp, c).saved = hyp.saved
    BY <1>1, <1>4, ResponseFields
  <2> QED BY <1>2, <1>3, <2>1
<1>5. CASE hyp.coreQueue # <<>>
  <2>1. PICK b \in Blocks : Given(hyp, HardwareResponse(hyp, c), c, b)
    BY <1>1, <1>5, ResponseFields
  <2>2. HardwareResponse(hyp, c) \in HypType
    BY <2>1 DEF Given
  <2>3. overhead => HardwareResponse(hyp, c).saved[c] = OverheadOf(b)
    BY <1>1, <2>1 DEF Given
  <2>4. OverheadOf(b) \in Work /\ OverheadOf(b).op = "overhead"
    BY MessageFacts
  <2> QED BY <1>2, <2>2, <2>3, <2>4
<1> QED BY <1>4, <1>5

LEMMA ProcessResponseKeeps ==
  ASSUME IInv, NEW c \in Cores, ProcessResponse(c)
  PROVE  Kept
<1>1. /\ ~failed /\ fromCore' = [fromCore EXCEPT ![c] = Tail(@)] /\ fromCore[c] # <<>>
      /\ UNCHANGED <<overhead, core, arrived, computed, everQueued>>
  BY DEF ProcessResponse
<1>2. PICK w \in Work : Back(c, w)
  BY <1>1, ResponseIsBack
<1>3. Head(fromCore[c]) = w
  BY <1>2 DEF Back
<1>4. BlockComputed(c, w) \/ OverheadComputed(c, w) \/ PlainComputed(c, w)
  BY <1>3 DEF ProcessResponse
<1>5. stray \subseteq Work
  BY DEF IInv, TypeOK
<1>6. CASE BlockComputed(c, w)
  BY <1>2, <1>6, BlockComputedKeeps
<1>7. CASE OverheadComputed(c, w)
  <2> DEFINE h == HardwareResponse(hyp, c)
  <2>1. /\ w.op = "overhead" /\ hyp' = [h EXCEPT !.saved[c] = NoMsg]
        /\ Answer(h.saved[c]) /\ started' = started \o NextStarted(hyp) /\ failed' = failed
    BY <1>7 DEF OverheadComputed
  <2>2. h \in HypType
    BY <1>1, <1>2, Answered
  <2>3. h.saved[c] = Block(w.block) \/ (h.saved[c] \in Work /\ h.saved[c].op = "overhead")
    <3>1. overhead
      BY <1>2, <2>1 DEF Back, Saved
    <3> QED BY <1>1, <1>2, <2>1, <3>1, Answered
  <2> HIDE DEF h
  <2>4. /\ hyp' \in HypType /\ hyp'.vmIDs = h.vmIDs /\ hyp'.coreQueue = h.coreQueue
        /\ hyp'.toCore = h.toCore /\ hyp'.saved = [h.saved EXCEPT ![c] = NoMsg]
    BY <2>1, <2>2 DEF HypType
  <2>5. /\ vstate' = vstate \/ vstate' = [vstate EXCEPT ![w.block.vcore] = "answered"]
        /\ stray' \subseteq Work
    BY <1>5, <2>1, <2>3, MessageFacts DEF Answer
  <2> QED BY <1>1, <1>2, <2>1, <2>4, <2>5, GiveAwayKeeps DEF h
<1>8. CASE PlainComputed(c, w)
  <2> DEFINE h == HardwareResponse(hyp, c)
  <2>1. /\ w.op = "block" /\ hyp' = h /\ Answer(w)
        /\ started' = started \o NextStarted(hyp) /\ failed' = failed
    BY <1>8 DEF PlainComputed
  <2>2. h \in HypType
    BY <1>1, <1>2, Answered
  <2>3. vstate' = [vstate EXCEPT ![w.block.vcore] = "answered"] /\ stray' \subseteq Work
    BY <1>5, <2>1 DEF Answer
  <2> QED BY <1>1, <1>2, <2>1, <2>2, <2>3, GiveAwayKeeps
<1> QED BY <1>4, <1>6, <1>7, <1>8

-----------------------------------------------------------------------------
(* The cores. *)

\* A core never gets a second block: the branch that stops the simulation is
\* not taken.
LEMMA CoreReceiveKeeps ==
  ASSUME IInv, NEW c \in Cores, CoreReceive(c)
  PROVE  Kept /\ failed' = failed
<1> DEFINE m == Head(hyp.toCore[c])
<1>1. /\ ~failed /\ hyp.toCore[c] # <<>> /\ hyp' = [hyp EXCEPT !.toCore[c] = Tail(@)]
      /\ UNCHANGED <<overhead, fromCore, vstate, arrived, started, computed, stray, everQueued>>
      /\ m = Idle => core' = core /\ failed' = failed
      /\ m # Idle /\ core[c] = NoMsg =>
           core' = [core EXCEPT ![c] = m] /\ failed' = failed
  BY DEF CoreReceive, history
<1>2. /\ TypeOK /\ FirstComeFirstServed /\ Held /\ hyp \in HypType
      /\ core \in [Cores -> Work \cup {NoMsg}] /\ hyp.toCore \in [Cores -> Link]
  BY <1>1, HypFields DEF IInv, TypeOK
<1>3. /\ m \in Work \cup {Idle} /\ Tail(hyp.toCore[c]) \in Link
  BY <1>1, <1>2, LinkTake
<1>4. /\ hyp' \in HypType /\ hyp'.vmIDs = hyp.vmIDs /\ hyp'.coreQueue = hyp.coreQueue
      /\ hyp'.saved = hyp.saved
      /\ hyp'.toCore = [hyp.toCore EXCEPT ![c] = Tail(@)]
  <2>1. [hyp.toCore EXCEPT ![c] = Tail(@)] \in [Cores -> Link]
    BY <1>2, <1>3
  <2> QED BY <1>1, <1>2, <2>1 DEF HypType, Link
<1>5. CoreHeld(c)
  BY <1>2 DEF Held
<1>6. \A a \in Blocks : Outstanding(a) => Outstanding(a)'
  BY <1>1 DEF Outstanding, Asked
<1> HIDE DEF m
<1>7. /\ core' \in [Cores -> Work \cup {NoMsg}] /\ failed' = failed /\ CoreHeld(c)'
      /\ \A d \in Cores \ {c} : core'[d] = core[d]
  <2>1. /\ hyp'.toCore[c] = Tail(hyp.toCore[c]) /\ hyp.toCore[c] \in Link
        /\ hyp.toCore[c] # <<>>
    BY <1>1, <1>2, <1>4
  <2>2. CASE hyp.vmIDs[c] = NoVCore
    <3>1. Vacant(c)
      BY <1>5, <2>2 DEF CoreHeld
    <3>2. m = Idle /\ NoWork(Tail(hyp.toCore[c]))
      BY <2>1, <3>1, LinkTake DEF Vacant, m
    <3>3. Vacant(c)'
      BY <1>1, <2>1, <3>1, <3>2 DEF Vacant
    <3> QED BY <1>1, <1>2, <1>4, <2>2, <3>2, <3>3 DEF CoreHeld
  <2>3. CASE hyp.vmIDs[c] # NoVCore
    <3>1. PICK w \in Work : /\ Serves(c, w) /\ w.block.vcore = hyp.vmIDs[c]
                            /\ Outstanding(w.block) /\ Saved(c, w)
                            /\ Returning(c, w) => w \in computed
      BY <1>5, <2>3 DEF CoreHeld
    <3>2. Saved(c, w)' /\ Outstanding(w.block)'
      BY <1>1, <1>4, <1>6, <3>1, MessageFacts DEF Saved
    <3>3. SUFFICES /\ Serves(c, w)' /\ (Returning(c, w)' => w \in computed)
                   /\ core' \in [Cores -> Work \cup {NoMsg}] /\ failed' = failed
                   /\ \A d \in Cores \ {c} : core'[d] = core[d]
      BY <1>1, <1>4, <2>3, <3>1, <3>2 DEF CoreHeld
    <3>4. CASE Arriving(c, w)
      <4>1. core[c] = NoMsg /\ fromCore'[c] = <<>> /\ <<>> # <<w>>
        BY <1>1, <3>4 DEF Arriving
      <4>2. CASE m = Idle
        <5>1. OnlyWork(hyp'.toCore[c], w)
          BY <2>1, <3>4, <4>2, LinkTake DEF Arriving, m
        <5> QED BY <1>1, <1>2, <4>1, <4>2, <5>1 DEF Serves, Arriving, Returning
      <4>3. CASE m # Idle
        <5>1. m = w /\ NoWork(hyp'.toCore[c])
          BY <2>1, <3>4, <4>3, LinkTake DEF Arriving, m
        <5>2. core' = [core EXCEPT ![c] = w] /\ failed' = failed
          BY <1>1, <4>1, <4>3, <5>1
        <5> QED BY <1>2, <4>1, <5>1, <5>2 DEF Serves, Computing, Returning
      <4> QED BY <4>2, <4>3
    <3>5. CASE Computing(c, w) \/ Returning(c, w)
      <4>1. m = Idle /\ NoWork(hyp'.toCore[c])
        BY <2>1, <3>5, LinkTake DEF Computing, Returning, m
      <4>2. core' = core /\ failed' = failed /\ fromCore' = fromCore
        BY <1>1, <4>1
      <4> QED BY <1>2, <3>1, <3>5, <4>1, <4>2 DEF Serves, Computing, Returning
    <3> QED BY <3>1, <3>4, <3>5 DEF Serves
  <2> QED BY <2>2, <2>3
<1>8. TypeOK'
  BY <1>1, <1>2, <1>4, <1>7 DEF TypeOK
<1>9. FirstComeFirstServed'
  BY <1>1, <1>2, <1>4 DEF FirstComeFirstServed, FreeCores
<1>10. ASSUME NEW d \in Cores, d # c
       PROVE  CoreHeld(d)'
  BY <1>1, <1>2, <1>4, <1>6, <1>7, <1>10, CoreFrame DEF Held
<1>11. QueueHeld'
  BY <1>2, <1>4, <1>6 DEF Held, QueueHeld, InQueue
<1>12. OneCoreEach'
  BY <1>2, <1>4 DEF Held, OneCoreEach
<1>13. ComputedPast'
  BY <1>1, <1>2 DEF Held, ComputedPast, Asked
<1> QED BY <1>7, <1>8, <1>9, <1>10, <1>11, <1>12, <1>13 DEF Kept, Held

LEMMA CoreFinishKeeps ==
  ASSUME IInv, NEW c \in Cores, CoreFinish(c)
  PROVE  Kept
<1>1. /\ ~failed /\ core[c] # NoMsg /\ core' = [core EXCEPT ![c] = NoMsg]
      /\ fromCore' = [fromCore EXCEPT ![c] = Append(@, core[c])]
      /\ computed' = computed \cup {core[c]}
      /\ UNCHANGED <<overhead, hyp, vstate, failed, arrived, started, stray, everQueued>>
  BY DEF CoreFinish
<1>2. /\ TypeOK /\ FirstComeFirstServed /\ Held /\ computed \subseteq Work
      /\ core \in [Cores -> Work \cup {NoMsg}] /\ fromCore \in [Cores -> Seq(Work)]
  BY <1>1 DEF IInv, TypeOK
<1>3. \A a \in Blocks : Outstanding(a) => Outstanding(a)'
  BY <1>1 DEF Outstanding, Asked
<1>4. PICK w \in Work : /\ Computing(c, w) /\ w.block.vcore = hyp.vmIDs[c]
                        /\ hyp.vmIDs[c] # NoVCore
                        /\ Outstanding(w.block) /\ Saved(c, w)
  <2>1. CoreHeld(c)
    BY <1>2 DEF Held
  <2> QED BY <1>1, <2>1 DEF CoreHeld, Vacant, Serves, Arriving, Computing, Returning
<1>5. core[c] = w /\ w \in computed' /\ computed \subseteq computed'
  BY <1>1, <1>4 DEF Computing
<1>6. fromCore'[c] = <<w>>
  <2>1. fromCore[c] = <<>> /\ Append(<<>>, w) = <<w>>
    BY <1>4 DEF Computing
  <2> QED BY <1>1, <1>2, <1>5, <2>1
<1>7. TypeOK'
  <2>1. fromCore' \in [Cores -> Seq(Work)]
    <3>1. Append(fromCore[c], w) \in Seq(Work)
      BY <1>2
    <3> QED BY <1>1, <1>2, <1>5, <3>1
  <2>2. core' \in [Cores -> Work \cup {NoMsg}] /\ computed' \subseteq Work
    BY <1>1, <1>2, <1>5
  <2> QED BY <1>1, <1>2, <2>1, <2>2 DEF TypeOK
<1>8. FirstComeFirstServed'
  BY <1>1, <1>2 DEF FirstComeFirstServed, FreeCores
<1>9. ASSUME NEW d \in Cores
      PROVE  CoreHeld(d)'
  <2>1. CASE d # c
    BY <1>1, <1>2, <1>3, <1>5, <2>1, CoreFrame DEF Held
  <2>2. CASE d = c
    <3>1. Returning(c, w)'
      BY <1>1, <1>2, <1>4, <1>6 DEF Returning, Computing
    <3>2. Saved(c, w)' /\ Outstanding(w.block)'
      BY <1>1, <1>3, <1>4, <1>5, MessageFacts DEF Saved
    <3> QED BY <1>1, <1>4, <1>5, <2>2, <3>1, <3>2 DEF CoreHeld, Serves
  <2> QED BY <2>1, <2>2
<1>10. QueueHeld'
  BY <1>1, <1>2, <1>3 DEF Held, QueueHeld, InQueue
<1>11. OneCoreEach'
  BY <1>1, <1>2 DEF Held, OneCoreEach
<1>12. ComputedPast'
  <2>1. w.block.n = Asked(w.block.vcore) /\ Asked(w.block.vcore) \in Nat
    BY <1>2, <1>4, AskedCounts DEF Outstanding
  <2>2. \A x \in computed' : x \in computed \/ x = w
    BY <1>1, <1>5
  <2>3. w.block.n <= Asked(w.block.vcore)
    BY <2>1
  <2> QED BY <1>1, <1>2, <2>2, <2>3 DEF Held, ComputedPast, Asked
<1> QED BY <1>7, <1>8, <1>9, <1>10, <1>11, <1>12 DEF Kept, Held
-----------------------------------------------------------------------------
(* The invariant, and what follows from it. *)

LEMMA InitInv == Init => IInv
<1> SUFFICES ASSUME Init PROVE IInv
  OBVIOUS
<1>1. /\ overhead \in Overheads /\ failed = FALSE /\ everQueued = FALSE
      /\ hyp = [vmIDs |-> [c \in Cores |-> NoVCore], coreQueue |-> <<>>,
                saved |-> [c \in Cores |-> NoMsg], toCore |-> [c \in Cores |-> <<>>]]
      /\ core = [c \in Cores |-> NoMsg] /\ fromCore = [c \in Cores |-> <<>>]
      /\ vstate = [v \in VCores |-> "free"]
      /\ arrived = <<>> /\ started = <<>> /\ computed = {} /\ stray = {}
  BY DEF Init
<1>2. hyp \in HypType
  BY <1>1 DEF HypType
<1>3. TypeOK
  <2>1. overhead \in BOOLEAN
    BY <1>1, HypAssumption
  <2>2. /\ core \in [Cores -> Work \cup {NoMsg}] /\ fromCore \in [Cores -> Seq(Work)]
        /\ vstate \in [VCores -> {"free", "waiting", "answered"}]
        /\ arrived \in Seq(Blocks) /\ started \in Seq(Blocks)
    BY <1>1
  <2> QED BY <1>1, <1>2, <2>1, <2>2 DEF TypeOK
<1>4. FirstComeFirstServed
  <2>1. <<>> \in Seq(Blocks)
    OBVIOUS
  <2>2. <<>> \o <<>> = <<>>
    BY <2>1, ConcatEmptySeq
  <2> QED BY <1>1, <2>2 DEF FirstComeFirstServed
<1>5. ASSUME NEW c \in Cores PROVE CoreHeld(c)
  BY <1>1 DEF CoreHeld, Vacant, NoWork
<1>6. QueueHeld
  BY <1>1 DEF QueueHeld, InQueue
<1>7. OneCoreEach /\ ComputedPast
  BY <1>1 DEF OneCoreEach, ComputedPast
<1> QED BY <1>3, <1>4, <1>5, <1>6, <1>7 DEF IInv, Held

LEMMA NextInv == IInv /\ [Next]_vars => IInv'
<1> SUFFICES ASSUME IInv, [Next]_vars PROVE IInv'
  OBVIOUS
<1>1. ASSUME NEW v \in VCores, RequestBlock(v) PROVE IInv'
  BY <1>1, RequestBlockKeeps DEF Kept, IInv
<1>2. ASSUME NEW v \in VCores, RequestIdle(v) PROVE IInv'
  BY <1>2, RequestIdleKeeps DEF Kept, IInv
<1>3. ASSUME NEW c \in Cores, ProcessResponse(c) PROVE IInv'
  BY <1>3, ProcessResponseKeeps DEF Kept, IInv
<1>4. ASSUME NEW c \in Cores, CoreReceive(c) PROVE IInv'
  BY <1>4, CoreReceiveKeeps DEF Kept, IInv
<1>5. ASSUME NEW c \in Cores, CoreFinish(c) PROVE IInv'
  BY <1>5, CoreFinishKeeps DEF Kept, IInv
<1>6. CASE UNCHANGED vars
  <2>1. UNCHANGED <<overhead, hyp, core, fromCore, vstate, failed, arrived, started, computed,
                    stray, everQueued>>
    BY <1>6 DEF vars, history
  <2>2. TypeOK' /\ FirstComeFirstServed'
    BY <2>1 DEF IInv, TypeOK, FirstComeFirstServed, FreeCores
  <2>3. \A a \in Blocks : Outstanding(a) => Outstanding(a)'
    BY <2>1 DEF Outstanding, Asked
  <2>4. ASSUME Held, NEW c \in Cores PROVE CoreHeld(c)'
    BY <2>1, <2>3, <2>4, CoreFrame DEF Held
  <2>5. Held => QueueHeld' /\ OneCoreEach'
    BY <2>1, <2>3 DEF Held, QueueHeld, InQueue, OneCoreEach
  <2>6. Held => ComputedPast'
    BY <2>1 DEF Held, ComputedPast, Asked
  <2> QED BY <2>1, <2>2, <2>4, <2>5, <2>6 DEF IInv, Held
<1> QED BY <1>1, <1>2, <1>3, <1>4, <1>5, <1>6 DEF Next

\* The inductive invariant holds in every behaviour.
THEOREM Invariant == Spec => []IInv
<1>1. Init => IInv
  BY InitInv
<1>2. IInv /\ [Next]_vars => IInv'
  BY NextInv
<1> QED BY <1>1, <1>2, PTL DEF Spec

\* Every variable of the manager, the cores and the guests keeps its type.
THEOREM TypeCorrect == Spec => []TypeOK
<1>1. IInv => TypeOK
  BY DEF IInv
<1> QED BY <1>1, Invariant, PTL

\* As long as the simulation runs a core that is marked has exactly one message,
\* of the virtual core it is marked with, and a core that is not has none: neither
\* overheads nor idle messages nor the queue make two guests share a core.
THEOREM CoresAreExclusive == Spec => []CoreExclusive
<1>1. IInv => CoreExclusive
  BY DEF IInv, Held, CoreHeld, CoreExclusive
<1> QED BY <1>1, Invariant, PTL

\* Blocks start in the order in which the guests asked, and none waits while a
\* core is free, also after an answer has been lost or the simulation has stopped.
THEOREM ServedInOrder == Spec => []FirstComeFirstServed
<1>1. IInv => FirstComeFirstServed
  BY DEF IInv
<1> QED BY <1>1, Invariant, PTL
LEMMA AnswerIsPaid ==
  ASSUME IInv, Next, NEW v \in VCores, vstate[v] = "waiting", vstate'[v] = "answered"
  PROVE  \E b \in Blocks : /\ b.vcore = v
                           /\ \A a \in Blocks : a.vcore = v /\ a.n > b.n => Block(a) \notin computed
                           /\ Block(b) \in computed
                           /\ overhead => OverheadOf(b) \in computed
<1>1. vstate \in [VCores -> {"free", "waiting", "answered"}] /\ TypeOK
  BY DEF IInv, TypeOK
<1>2. ASSUME NEW u \in VCores, RequestBlock(u) \/ RequestIdle(u) PROVE FALSE
  BY <1>1, <1>2 DEF RequestBlock, RequestIdle
<1>3. ASSUME NEW c \in Cores, CoreReceive(c) \/ CoreFinish(c) PROVE FALSE
  BY <1>3 DEF CoreReceive, CoreFinish
<1>4. PICK c \in Cores : ProcessResponse(c)
  BY <1>2, <1>3 DEF Next
<1>5. ~failed /\ fromCore[c] # <<>> /\ Held
  BY <1>4 DEF ProcessResponse, IInv
<1>6. PICK w \in Work : Back(c, w)
  BY <1>5, ResponseIsBack
<1>7. BlockComputed(c, w) \/ OverheadComputed(c, w) \/ PlainComputed(c, w)
  BY <1>4, <1>6 DEF ProcessResponse, Back
<1>8. /\ w.block.vcore = v /\ Block(w.block) \in computed
      /\ overhead => OverheadOf(w.block) \in computed
  <2>1. CASE BlockComputed(c, w)
    BY <2>1 DEF BlockComputed
  <2>2. CASE OverheadComputed(c, w)
    <3> DEFINE x == HardwareResponse(hyp, c).saved[c]
    <3>1. w.op = "overhead" /\ Answer(x)
      BY <2>2 DEF OverheadComputed
    <3>2. overhead /\ Block(w.block) \in computed
      BY <1>6, <3>1 DEF Back, Saved
    <3>3. x = Block(w.block) \/ x.op = "overhead"
      BY <1>5, <1>6, <3>1, <3>2, Answered
    <3> HIDE DEF x
    <3>4. x = Block(w.block) /\ x.op = "block" /\ x.block = w.block
      BY <3>1, <3>3, MessageFacts DEF Answer
    <3>5. w.block.vcore = v
      BY <1>1, <3>1, <3>4, MessageFacts DEF Answer
    <3>6. w \in computed /\ w = OverheadOf(w.block)
      BY <1>6, <3>1, MessageFacts DEF Back
    <3> QED BY <3>2, <3>5, <3>6
  <2>3. CASE PlainComputed(c, w)
    <3>1. w.op = "block" /\ Answer(w) /\ ~overhead
      BY <2>3 DEF PlainComputed
    <3>2. w.block.vcore = v
      BY <1>1, <3>1, MessageFacts DEF Answer
    <3>3. w \in computed /\ w = Block(w.block)
      BY <1>6, <3>1, MessageFacts DEF Back
    <3> QED BY <3>1, <3>2, <3>3
  <2> QED BY <1>7, <2>1, <2>2, <2>3
<1>9. ASSUME NEW a \in Blocks, a.vcore = v, a.n > w.block.n
      PROVE  Block(a) \notin computed
  <2>1. w.block.n = Asked(v) /\ Asked(v) \in Nat
    BY <1>1, <1>6, <1>8, AskedCounts DEF Back, Outstanding
  <2>2. ~(a.n <= Asked(v))
    BY <1>9, <2>1, HypAssumption DEF Blocks
  <2> QED BY <1>5, <1>9, <2>2, MessageFacts DEF Held, ComputedPast
<1> QED BY <1>8, <1>9, MessageFacts

\* A guest is answered only for its last block, after that block and, when there
\* is a computing overhead, after the block's overhead: sendResponseMessage never
\* runs ahead of the cores, whatever is forgotten on the way.
THEOREM AnswersArePaid == Spec => OverheadPaid
<1> DEFINE Paid ==
      \A v \in VCores : vstate[v] = "waiting" /\ vstate'[v] = "answered" =>
        \E b \in Blocks : /\ b.vcore = v
                          /\ \A a \in Blocks : a.vcore = v /\ a.n > b.n => Block(a) \notin computed
                          /\ Block(b) \in computed
                          /\ overhead => OverheadOf(b) \in computed
<1>1. IInv /\ [Next]_vars => [Paid]_vars
  BY AnswerIsPaid
<1> HIDE DEF Paid
<1>2. Spec => [][Paid]_vars
  BY <1>1, Invariant, PTL DEF Spec
<1> QED BY <1>2 DEF OverheadPaid, Paid

\* Without an overhead, or as long as no block has found all cores busy, no copy
\* is overwritten: no message but an answer reaches a guest, and the simulation
\* does not stop.  The two together are what SavedAnswered shows to be broken.
THEOREM NothingIsForgotten == Spec => []NothingForgotten
<1>1. Init => NothingForgotten
  BY DEF Init, NothingForgotten
<1>2. IInv /\ NothingForgotten /\ [Next]_vars => NothingForgotten'
  <2> SUFFICES ASSUME IInv, NothingForgotten, [Next]_vars, Sound'
               PROVE  NothingForgotten'
    BY DEF NothingForgotten
  <2>1. everQueued \in BOOLEAN /\ everQueued' \in BOOLEAN /\ overhead \in BOOLEAN
    BY NextInv DEF IInv, TypeOK
  <2>2. overhead' = overhead /\ (everQueued => everQueued')
    <3>1. ASSUME NEW v \in VCores, RequestBlock(v) \/ RequestIdle(v)
          PROVE  overhead' = overhead /\ (everQueued => everQueued')
      <4>1. RequestBlock(v) => overhead' = overhead /\ (everQueued => everQueued')
        BY Zenon DEF RequestBlock
      <4>2. RequestIdle(v) => overhead' = overhead /\ everQueued' = everQueued
        BY DEF RequestIdle, history
      <4>3. RequestIdle(v) => (everQueued => everQueued')
        BY <4>2, <2>1, SMT
      <4> QED BY <3>1, <4>1, <4>2, <4>3, Zenon
    <3>2. ASSUME NEW c \in Cores, ProcessResponse(c) \/ CoreReceive(c) \/ CoreFinish(c)
          PROVE  overhead' = overhead /\ (everQueued => everQueued')
      BY <3>2 DEF ProcessResponse, CoreReceive, CoreFinish, history
    <3>3. CASE UNCHANGED vars
      BY <3>3 DEF vars, history
    <3> QED BY <3>1, <3>2, <3>3 DEF Next
  <2>3. Sound
    BY <2>1, <2>2 DEF Sound
  <2>4. /\ ~failed /\ stray = {} /\ hyp \in HypType
        /\ overhead => /\ hyp.coreQueue = <<>>
                       /\ \A c \in Cores : hyp.vmIDs[c] # NoVCore => hyp.saved[c] # NoMsg
        /\ hyp.vmIDs \in [Cores -> VCores \cup {NoVCore}] /\ hyp.toCore \in [Cores -> Link]
        /\ hyp.saved \in [Cores -> Work \cup {NoMsg}] /\ TypeOK /\ FirstComeFirstServed
    BY <2>3, HypFields DEF NothingForgotten, IInv, TypeOK
  <2>5. SUFFICES /\ ~failed' /\ stray' = {}
                 /\ overhead => /\ hyp'.coreQueue = <<>>
                                /\ \A c \in Cores :
                                     hyp'.vmIDs[c] # NoVCore => hyp'.saved[c] # NoMsg
    BY <2>2 DEF NothingForgotten
  <2>6. ASSUME NEW v \in VCores, RequestBlock(v)
        PROVE  /\ ~failed' /\ stray' = {}
               /\ overhead => /\ hyp'.coreQueue = <<>>
                              /\ \A c \in Cores :
                                   hyp'.vmIDs[c] # NoVCore => hyp'.saved[c] # NoMsg
    <3>1. failed' = failed /\ stray' = stray
      BY <2>6 DEF RequestBlock
    <3>2. ASSUME overhead
          PROVE  /\ hyp'.coreQueue = <<>>
                 /\ \A c \in Cores : hyp'.vmIDs[c] # NoVCore => hyp'.saved[c] # NoMsg
      <4>1. FreeCores(hyp) # {}
        BY <2>2, <2>6, <3>2 DEF RequestBlock, Sound
      <4>2. PICK b \in Blocks : hyp' = SchedulingCPU(hyp, b)
        <5>1. /\ Asked(v) \in Nat /\ Asked(v) <= Len(arrived) /\ Len(arrived) < MaxBlocks
              /\ Len(arrived) \in Nat
          BY <2>4, <2>6, AskedCounts DEF RequestBlock, TypeOK
        <5>2. Asked(v) + 1 \in 1 .. MaxBlocks
          BY <5>1, HypAssumption
        <5> QED BY <2>6, <5>2 DEF RequestBlock, Blocks
      <4>3. PICK f \in Cores : Given(hyp, hyp', f, b) /\ hyp'.coreQueue = hyp.coreQueue
        BY <2>4, <4>1, <4>2, SchedulingFields, FirstFreeIsFree
      <4>4. OverheadOf(b) # NoMsg
        BY MessageFacts
      <4> QED BY <2>4, <3>2, <4>3, <4>4 DEF Given
    <3> QED BY <2>4, <3>1, <3>2
  <2>7. ASSUME NEW v \in VCores, RequestIdle(v)
        PROVE  /\ ~failed' /\ stray' = {}
               /\ hyp'.coreQueue = hyp.coreQueue
               /\ hyp'.vmIDs = hyp.vmIDs /\ hyp'.saved = hyp.saved
    <3>1. VIndex[v] \in Cores /\ Idle \in Work \cup {Idle}
      BY HypAssumption
    <3>2. /\ hyp'.coreQueue = hyp.coreQueue /\ hyp'.vmIDs = hyp.vmIDs
          /\ hyp'.saved = hyp.saved
      BY ZenonT(40), <2>4, <2>7, <3>1, SendFields DEF RequestIdle
    <3> QED BY <2>4, <2>7, <3>2 DEF RequestIdle, history
  <2>8. ASSUME NEW c \in Cores, ProcessResponse(c)
        PROVE  /\ ~failed' /\ stray' = {}
               /\ overhead => /\ hyp'.coreQueue = <<>>
                              /\ \A d \in Cores :
                                   hyp'.vmIDs[d] # NoVCore => hyp'.saved[d] # NoMsg
    <3>1. fromCore[c] # <<>>
      BY <2>8 DEF ProcessResponse
    <3>2. PICK w \in Work : Back(c, w)
      BY <2>4, <3>1, ResponseIsBack
    <3>3. BlockComputed(c, w) \/ OverheadComputed(c, w) \/ PlainComputed(c, w)
      BY <2>8, <3>2 DEF ProcessResponse, Back
    <3>4. CASE BlockComputed(c, w)
      <4>1. overhead /\ hyp.saved[c] # NoMsg /\ hyp.saved[c] \in Work
        BY <2>4, <3>2, <3>4 DEF BlockComputed, Back
      <4>2. /\ hyp' = [Send(hyp, c, hyp.saved[c]) EXCEPT !.saved[c] = w]
            /\ failed' = failed /\ stray' = stray
        BY <3>4, <4>1 DEF BlockComputed
      <4>3. PICK g \in HypType : /\ g = Send(hyp, c, hyp.saved[c]) /\ g.vmIDs = hyp.vmIDs
                                 /\ g.coreQueue = hyp.coreQueue /\ g.saved = hyp.saved
        <5>1. \A x \in Work \cup {Idle} :
                LET g == Send(hyp, c, x) IN
                g \in HypType /\ g.vmIDs = hyp.vmIDs /\ g.coreQueue = hyp.coreQueue
                /\ g.saved = hyp.saved
          BY ZenonT(40), <2>4, SendFields
        <5> QED BY <4>1, <5>1
      <4>4. /\ hyp'.vmIDs = hyp.vmIDs /\ hyp'.coreQueue = hyp.coreQueue
            /\ hyp'.saved = [hyp.saved EXCEPT ![c] = w]
        BY <4>2, <4>3 DEF HypType
      <4>5. w # NoMsg
        BY MessageFacts
      <4> QED BY <2>4, <4>1, <4>2, <4>4, <4>5
    <3>5. CASE OverheadComputed(c, w)
      <4> DEFINE h == HardwareResponse(hyp, c)
      <4>1. /\ w.op = "overhead" /\ hyp' = [h EXCEPT !.saved[c] = NoMsg]
            /\ Answer(h.saved[c]) /\ failed' = failed
        BY <3>5 DEF OverheadComputed
      <4>2. overhead /\ hyp.saved[c] = Block(w.block) /\ hyp.vmIDs[c] # NoVCore
        BY <3>2, <4>1 DEF Back, Saved
      <4>3. /\ h \in HypType /\ h.vmIDs = [hyp.vmIDs EXCEPT ![c] = NoVCore]
            /\ h.coreQueue = <<>> /\ h.saved = hyp.saved
        BY <2>4, <4>2, ResponseFields
      <4> HIDE DEF h
      <4>4. stray' = stray
        BY <4>1, <4>2, <4>3, MessageFacts DEF Answer
      <4>5. /\ hyp'.vmIDs = h.vmIDs /\ hyp'.coreQueue = <<>>
            /\ hyp'.saved = [hyp.saved EXCEPT ![c] = NoMsg]
        BY <4>1, <4>3 DEF HypType
      <4> QED BY <2>4, <4>1, <4>2, <4>3, <4>4, <4>5
    <3>6. CASE PlainComputed(c, w)
      BY <2>4, <3>6 DEF PlainComputed, Answer
    <3> QED BY <3>3, <3>4, <3>5, <3>6
  <2>9. ASSUME NEW c \in Cores, CoreReceive(c)
        PROVE  /\ ~failed' /\ stray' = {}
               /\ hyp'.coreQueue = hyp.coreQueue
               /\ hyp'.vmIDs = hyp.vmIDs /\ hyp'.saved = hyp.saved
    <3>1. failed' = failed
      BY <2>9, CoreReceiveKeeps
    <3>2. stray' = stray /\ hyp' = [hyp EXCEPT !.toCore[c] = Tail(@)]
      BY <2>9 DEF CoreReceive, history
    <3> QED BY <2>4, <3>1, <3>2 DEF HypType
  <2>10. ASSUME NEW c \in Cores, CoreFinish(c)
         PROVE  ~failed' /\ stray' = {} /\ hyp' = hyp
    BY <2>4, <2>10 DEF CoreFinish
  <2>11. CASE UNCHANGED vars
    BY <2>4, <2>11 DEF vars, history
  <2> QED BY <2>4, <2>6, <2>7, <2>8, <2>9, <2>10, <2>11 DEF Next
<1> QED BY <1>1, <1>2, Invariant, PTL DEF Spec
=============================================================================
