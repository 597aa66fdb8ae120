----------------------- MODULE CpuSchedulerFIFO_service -----------------------
(***************************************************************************)
(* Proofs about CpuSchedulerFIFO, continued: where every block is.  A step *)
(* of the scheduler, of a link or of a core is one of four things to the   *)
(* blocks (StepKinds): nothing, a block that starts, one that waits, or    *)
(* one that ends.  From that follow that no block is lost or duplicated    *)
(* (ExactlyOnce) and that the scheduler provides the safety half of        *)
(* CpuService; and, from the order of a link, that no core is idled while  *)
(* it computes.                                                            *)
(***************************************************************************)
EXTENDS CpuSchedulerFIFO_proofs, FiniteSetTheorems, FunctionTheorems

IdleMessage == ChangeState("MACHINE_STATE_IDLE")

-----------------------------------------------------------------------------
(* What is on a link, as a set. *)

\* Append adds an element, Tail takes the first one away (it may occur again).
LEMMA AppendElems ==
  ASSUME NEW S, NEW s \in Seq(S), NEW x \in S
  PROVE  Elems(Append(s, x)) = Elems(s) \cup {x}
<1>1. /\ Len(s) \in Nat /\ DOMAIN s = 1 .. Len(s) /\ DOMAIN Append(s, x) = 1 .. Len(s) + 1
      /\ \A i \in 1 .. Len(s) : Append(s, x)[i] = s[i]
      /\ Append(s, x)[Len(s) + 1] = x
  BY AppendProperties
<1> QED BY <1>1 DEF Elems

LEMMA TailElems ==
  ASSUME NEW S, NEW s \in Seq(S), s # <<>>
  PROVE  /\ Elems(s) = {Head(s)} \cup Elems(Tail(s)) /\ Head(s) \in S
         /\ Tail(s) \in Seq(S)
<1>1. /\ Len(s) \in Nat \ {0} /\ DOMAIN s = 1 .. Len(s) /\ Head(s) = s[1] /\ Head(s) \in S
      /\ DOMAIN Tail(s) = 1 .. Len(s) - 1 /\ Tail(s) \in Seq(S)
      /\ \A i \in 1 .. Len(s) - 1 : Tail(s)[i] = s[i + 1]
  BY HeadTailProperties
<1>2. Elems(s) \subseteq {Head(s)} \cup Elems(Tail(s))
  <2> SUFFICES ASSUME NEW i \in DOMAIN s, i # 1
               PROVE  s[i] \in Elems(Tail(s))
    BY <1>1 DEF Elems
  <2>1. i - 1 \in DOMAIN Tail(s) /\ Tail(s)[i - 1] = s[i]
    BY <1>1
  <2> QED BY <2>1 DEF Elems
<1>3. {Head(s)} \cup Elems(Tail(s)) \subseteq Elems(s)
  BY <1>1 DEF Elems
<1> QED BY <1>1, <1>2, <1>3

\* The blocks among the messages of a link: none, or exactly one.
LEMMA BlocksOnLink ==
  ASSUME NEW s \in Seq(Messages)
  PROVE  /\ NoExec(s) => \A b \in Blocks : Exec(b) \notin Elems(s)
         /\ OneExec(s) => \E b \in Blocks : \A a \in Blocks : Exec(a) \in Elems(s) <=> a = b
<1>1. \A m \in Messages : m.op = "SM_CPU_EXEC" => m.blk \in Blocks /\ m = Exec(m.blk)
  BY DEF Messages, Exec, ChangeState
<1>2. \A b \in Blocks : Exec(b).op = "SM_CPU_EXEC" /\ Exec(b).blk = b
  BY DEF Exec
<1>3. \A i \in DOMAIN s : s[i] \in Messages
  OBVIOUS
<1>4. ASSUME OneExec(s)
      PROVE  \E b \in Blocks : \A a \in Blocks : Exec(a) \in Elems(s) <=> a = b
  <2>1. PICK i \in DOMAIN s : /\ s[i].op = "SM_CPU_EXEC"
                              /\ \A j \in DOMAIN s : s[j].op = "SM_CPU_EXEC" => j = i
    BY <1>4 DEF OneExec
  <2>2. s[i].blk \in Blocks /\ s[i] = Exec(s[i].blk)
    BY <1>1, <1>3, <2>1
  <2>3. \A a \in Blocks : Exec(a) \in Elems(s) => a = s[i].blk
    BY <1>2, <2>1 DEF Elems
  <2> QED BY <2>2, <2>3 DEF Elems
<1> QED BY <1>2, <1>4 DEF NoExec, Elems

\* On a busy core there is one block, on an idle one there is none.
LEMMA OnCoreOne ==
  ASSUME TypeOK, NEW c \in Cores, FlagTruthful(c)
  PROVE  /\ isCPU_Idle[c] => OnCore(c) = {}
         /\ ~isCPU_Idle[c] => \E b \in Blocks : OnCore(c) = {b}
<1>1. /\ toCPU[c] \in Seq(Messages) /\ fromCPU[c] \in Seq(Blocks)
      /\ core[c] \in Blocks \cup {NoBlock} /\ NoBlock \notin Blocks
  BY CpuAssumption DEF TypeOK
<1>2. fromCPU[c] = <<>> => Elems(fromCPU[c]) = {}
  BY DEF Elems
<1>3. CASE Vacant(c)
  <2>1. OnCore(c) = {}
    BY <1>1, <1>2, <1>3, BlocksOnLink DEF Vacant, OnCore
  <2> QED BY <1>3, <2>1, NoneOrOne DEF FlagTruthful, Vacant, Arriving, Computing, Returning
<1>4. CASE Arriving(c)
  <2>1. \E b \in Blocks : OnCore(c) = {b}
    BY <1>1, <1>2, <1>4, BlocksOnLink DEF Arriving, OnCore
  <2> QED BY <1>4, <2>1, NoneOrOne DEF FlagTruthful, Vacant, Arriving
<1>5. CASE Computing(c)
  <2>1. OnCore(c) = {core[c]} /\ core[c] \in Blocks
    BY <1>1, <1>2, <1>5, BlocksOnLink DEF Computing, OnCore
  <2> QED BY <1>5, <2>1 DEF FlagTruthful, Vacant, Computing
<1>6. CASE Returning(c)
  <2>1. Elems(fromCPU[c]) = {fromCPU[c][1]} /\ fromCPU[c][1] \in Blocks
    BY <1>1, <1>6 DEF Returning, Elems
  <2>2. OnCore(c) = {fromCPU[c][1]}
    BY <1>1, <1>6, <2>1, BlocksOnLink DEF Returning, OnCore
  <2>3. fromCPU[c] # <<>>
    BY SMTT(30), <1>6 DEF Returning
  <2> QED BY <2>1, <2>2, <2>3 DEF FlagTruthful, Vacant
<1> QED BY <1>3, <1>4, <1>5, <1>6 DEF FlagTruthful

-----------------------------------------------------------------------------
(* Idle messages and blocks on one link. *)

\* A link without blocks, and what one more message or one less does to it.
LEMMA IdleFirstLink ==
  ASSUME NEW s \in Seq(Messages)
  PROVE  /\ NoExec(s) => IdleFirst(s)
         /\ \A b \in Blocks : NoExec(s) => IdleFirst(Append(s, Exec(b)))
         /\ s # <<>> /\ IdleFirst(s) =>
              /\ IdleFirst(Tail(s))
              /\ Head(s).op = "SM_CPU_EXEC" => IdleMessage \notin Elems(Tail(s))
<1>1. NoExec(s) => IdleFirst(s)
  BY DEF NoExec, IdleFirst
<1>2. ASSUME NEW b \in Blocks, NoExec(s)
      PROVE  IdleFirst(Append(s, Exec(b)))
  <2>1. Exec(b) \in Messages /\ Exec(b) # IdleMessage
    BY DEF Messages, Exec, ChangeState, IdleMessage
  <2>2. /\ Len(s) \in Nat /\ DOMAIN s = 1 .. Len(s)
        /\ DOMAIN Append(s, Exec(b)) = 1 .. Len(s) + 1
        /\ \A i \in 1 .. Len(s) : Append(s, Exec(b))[i] = s[i]
        /\ Append(s, Exec(b))[Len(s) + 1] = Exec(b)
    BY <2>1, AppendProperties
  <2> QED BY <1>2, <2>1, <2>2 DEF NoExec, IdleFirst, IdleMessage
<1>3. ASSUME s # <<>>, IdleFirst(s)
      PROVE  /\ IdleFirst(Tail(s))
             /\ Head(s).op = "SM_CPU_EXEC" => IdleMessage \notin Elems(Tail(s))
  <2>1. /\ Len(s) \in Nat \ {0} /\ DOMAIN s = 1 .. Len(s) /\ Head(s) = s[1]
        /\ DOMAIN Tail(s) = 1 .. Len(s) - 1
        /\ \A i \in 1 .. Len(s) - 1 : Tail(s)[i] = s[i + 1]
    BY <1>3, HeadTailProperties
  <2>2. IdleFirst(Tail(s))
    <3> SUFFICES ASSUME NEW i \in DOMAIN Tail(s), NEW j \in DOMAIN Tail(s),
                        Tail(s)[i].op = "SM_CPU_EXEC", Tail(s)[j] = IdleMessage
                 PROVE  j < i
      BY DEF IdleFirst, IdleMessage
    <3>1. j + 1 < i + 1
      BY <1>3, <2>1 DEF IdleFirst, IdleMessage
    <3> QED BY <2>1, <3>1
  <2>3. Head(s).op = "SM_CPU_EXEC" => IdleMessage \notin Elems(Tail(s))
    <3> SUFFICES ASSUME s[1].op = "SM_CPU_EXEC", NEW i \in DOMAIN Tail(s),
                        Tail(s)[i] = IdleMessage
                 PROVE  FALSE
      BY <2>1 DEF Elems
    <3>1. i + 1 \in DOMAIN s /\ s[i + 1] = IdleMessage /\ 1 \in DOMAIN s
      BY <2>1
    <3>2. i + 1 < 1
      BY <1>3, <3>1 DEF IdleFirst, IdleMessage
    <3> QED BY <2>1, <3>2
  <2> QED BY <2>2, <2>3
<1> QED BY <1>1, <1>2, <1>3

\* The order of blocks and idle messages survives every step.
LEMMA IdleStep ==
  ASSUME IInv, IdleBeforeWork, [Next]_vars
  PROVE  IdleBeforeWork'
<1>0. guest' = guest
  BY TakeOrStop DEF vars, hostVars, Next, ProcessRequest, ProcessChangeState,
     ProcessResponse, Taken, StartBlock, CoreTakeState, CoreContinue, CoreFinish, Stop
<1> SUFFICES ASSUME NEW c \in Cores, Unaddressed(c)
             PROVE  /\ core'[c] # NoBlock => IdleMessage \notin Elems(toCPU'[c])
                    /\ IdleFirst(toCPU'[c])
  BY <1>0 DEF IdleBeforeWork, IdleMessage, Unaddressed
<1> DEFINE Goal == /\ core'[c] # NoBlock => IdleMessage \notin Elems(toCPU'[c])
                   /\ IdleFirst(toCPU'[c])
<1>1. /\ TypeOK /\ toCPU[c] \in Seq(Messages) /\ FlagTruthful(c)
      /\ core[c] # NoBlock => IdleMessage \notin Elems(toCPU[c])
      /\ IdleFirst(toCPU[c])
  BY DEF IInv, TypeOK, FlagsTruthful, IdleBeforeWork, IdleMessage
<1>2. ASSUME toCPU'[c] = toCPU[c], core'[c] = core[c] \/ core'[c] = NoBlock
      PROVE  Goal
  BY <1>1, <1>2
<1>3. ASSUME NEW b \in Blocks, NEW s \in Seq(Messages), NoExec(s),
             toCPU'[c] = Append(s, Exec(b)), core'[c] = NoBlock
      PROVE  Goal
  BY <1>3, IdleFirstLink
<1>4. ASSUME NEW b \in Blocks, ProcessRequest(b)
      PROVE  Goal
  <2>1. core' = core
    BY <1>4 DEF ProcessRequest
  <2>2. ASSUME NEW d \in Cores, Dispatch(b, d)
        PROVE  Goal
    <3>1. CASE d # c
      BY <1>1, <1>2, <2>1, <2>2, <3>1 DEF Dispatch, TypeOK
    <3>2. CASE d = c
      <4>1. isCPU_Idle[c] /\ toCPU'[c] = Append(toCPU[c], Exec(b))
        BY <1>1, <2>2, <3>2 DEF Dispatch, FirstIdle, TypeOK
      <4> QED BY <1>1, <1>3, <2>1, <4>1 DEF FlagTruthful, Vacant
    <3> QED BY <3>1, <3>2
  <2>3. CASE Enqueue(b)
    BY <1>2, <2>1, <2>3 DEF Enqueue
  <2> QED BY <1>4, <2>2, <2>3 DEF ProcessRequest
<1>5. ASSUME NEW s \in OsStates, ProcessChangeState(s)
      PROVE  Goal
  BY <1>1, <1>2, <1>5 DEF ProcessChangeState, Unaddressed, TypeOK
<1>6. ASSUME NEW l \in Cores, ProcessResponse(l)
      PROVE  Goal
  <2>1. Returning(l) /\ core' = core /\ (GiveNextBlock(l) \/ GoIdle(l))
    BY <1>6, ResponseFrees
  <2>2. CASE l # c
    BY <1>1, <1>2, <2>1, <2>2 DEF GiveNextBlock, GoIdle, TypeOK
  <2>3. CASE l = c /\ GiveNextBlock(l)
    <3>1. NoExec(toCPU[c]) /\ core'[c] = NoBlock
      BY <2>1, <2>3 DEF Returning
    <3>2. /\ Head(requestsQueue) \in Blocks
          /\ toCPU'[c] = Append(Append(toCPU[c], SpeedMessage), Exec(Head(requestsQueue)))
      BY <1>1, <2>3, NextInQueue DEF GiveNextBlock, TypeOK
    <3>3. Append(toCPU[c], SpeedMessage) \in Seq(Messages) /\ NoExec(Append(toCPU[c], SpeedMessage))
      BY <1>1, <3>1, SpeedIsIncrement, SendState DEF IInv, QueueDiscipline
    <3> QED BY <1>3, <3>1, <3>2, <3>3
  <2>4. CASE l = c /\ GoIdle(l)
    <3>1. /\ NoExec(toCPU[c]) /\ core'[c] = NoBlock
          /\ toCPU'[c] = Append(toCPU[c], IdleMessage)
      BY <1>1, <2>1, <2>4 DEF Returning, GoIdle, TypeOK, IdleMessage
    <3>2. toCPU'[c] \in Seq(Messages) /\ NoExec(toCPU'[c])
      BY <1>1, <3>1, SpeedIsIncrement, SendState DEF IInv, QueueDiscipline, IdleMessage
    <3> QED BY <3>1, <3>2, IdleFirstLink
  <2> QED BY <2>1, <2>2, <2>3, <2>4
<1>7. ASSUME NEW d \in Cores, Taken(d)
      PROVE  Goal
  <2>1. CASE d # c
    BY <1>1, <1>2, <1>7, <2>1 DEF Taken, StartBlock, CoreTakeState, TypeOK
  <2>2. CASE d = c
    <3>1. toCPU[c] # <<>> /\ toCPU'[c] = Tail(toCPU[c])
      BY <1>1, <1>7, <2>2 DEF Taken, BlockArrives, StartBlock, CoreTakeState, TypeOK
    <3>2. IdleFirst(toCPU'[c]) /\ Elems(toCPU'[c]) \subseteq Elems(toCPU[c])
      BY <1>1, <3>1, IdleFirstLink, TailElems
    <3>3. CASE BlockArrives(c) /\ StartBlock(c)
      BY <1>1, <3>1, <3>2, <3>3, IdleFirstLink DEF BlockArrives
    <3>4. CASE CoreTakeState(c)
      BY <1>1, <3>2, <3>4 DEF CoreTakeState
    <3> QED BY <1>7, <2>2, <3>3, <3>4 DEF Taken
  <2> QED BY <2>1, <2>2
<1>8. ASSUME NEW d \in Cores, CoreFinish(d)
      PROVE  Goal
  BY <1>1, <1>2, <1>8 DEF CoreFinish, TypeOK
<1>9. CASE Stop \/ UNCHANGED vars
  BY <1>2, <1>9 DEF Stop, vars, coreVars
<1> QED BY <1>4, <1>5, <1>6, <1>7, <1>8, <1>9, TakeOrStop DEF Next, CoreContinue

LEMMA IdleInit == Init => IdleBeforeWork
<1> SUFFICES ASSUME Init, NEW c \in Cores
             PROVE  core[c] = NoBlock /\ IdleFirst(toCPU[c])
  BY DEF IdleBeforeWork
<1>1. core[c] = NoBlock /\ toCPU[c] = <<>>
  BY DEF Init
<1> QED BY <1>1 DEF IdleFirst

\* On a core that only the scheduler talks to (all cores of a guest, and those of
\* a node but the first), no block is computed with a
\* MACHINE_STATE_IDLE message still to come: the scheduler, which idles a core and
\* gives it the next block over the same link, never slows down its own work.
THEOREM CoresStayAwake == Spec => []NeverIdledWhileComputing
<1> DEFINE Awake == IInv /\ IdleBeforeWork
<1>1. Init => Awake
  BY InitInv, IdleInit
<1>2. Awake /\ [Next]_vars => Awake'
  BY NextInv, IdleStep
<1>3. Awake => NeverIdledWhileComputing
  BY DEF IdleBeforeWork, NeverIdledWhileComputing
<1> HIDE DEF Awake
<1> QED BY <1>1, <1>2, <1>3, PTL DEF Spec
-----------------------------------------------------------------------------
(* The four things a step can be to the blocks. *)

\* Every block stays where it is.
Quiet ==
  /\ UNCHANGED <<isCPU_Idle, requestsQueue, submitted, answered>>
  /\ \A c \in Cores : OnCore(c)' = OnCore(c)

\* A new block goes to the idle core c.
Starts(b, c) ==
  /\ b \notin Elems(submitted) /\ submitted' = Append(submitted, b)
  /\ isCPU_Idle[c] /\ requestsQueue = <<>>
  /\ OnCore(c)' = {b}
  /\ \A d \in Cores \ {c} : OnCore(d)' = OnCore(d)
  /\ UNCHANGED <<requestsQueue, answered>>

\* A new block joins the queue.
Waits(b) ==
  /\ b \notin Elems(submitted) /\ submitted' = Append(submitted, b)
  /\ \A c \in Cores : ~isCPU_Idle[c] /\ OnCore(c)' = OnCore(c)
  /\ requestsQueue' = Append(requestsQueue, b)
  /\ UNCHANGED answered

\* The block of core c is answered, and the oldest waiting block takes its place.
Ends(b, c) ==
  /\ OnCore(c) = {b} /\ answered' = Append(answered, b)
  /\ \A d \in Cores \ {c} : OnCore(d)' = OnCore(d)
  /\ UNCHANGED submitted
  /\ \/ requestsQueue = <<>> /\ OnCore(c)' = {} /\ UNCHANGED requestsQueue
     \/ /\ requestsQueue # <<>> /\ OnCore(c)' = {Head(requestsQueue)}
        /\ requestsQueue' = Tail(requestsQueue)

\* OnCore(c) depends on the link, the core and the answers of c alone.
LEMMA SameCore ==
  ASSUME NEW c, toCPU'[c] = toCPU[c], core'[c] = core[c], fromCPU'[c] = fromCPU[c]
  PROVE  OnCore(c)' = OnCore(c)
  BY DEF OnCore

\* An energy message sent to a core changes nothing for its blocks.
LEMMA StateNoBlock ==
  ASSUME NEW s \in Seq(Messages), NEW x \in States
  PROVE  \A b \in Blocks : Exec(b) \in Elems(Append(s, ChangeState(x))) <=> Exec(b) \in Elems(s)
<1>1. ChangeState(x) \in Messages /\ \A b \in Blocks : Exec(b) # ChangeState(x)
  BY DEF Messages, Exec, ChangeState
<1> QED BY <1>1, AppendElems

LEMMA RequestKind ==
  ASSUME IInv, NEW b \in Blocks, ProcessRequest(b)
  PROVE  Waits(b) \/ \E c \in Cores : Starts(b, c)
<1>1. /\ TypeOK /\ b \notin Elems(submitted) /\ submitted' = Append(submitted, b)
      /\ UNCHANGED <<core, fromCPU, answered>>
  BY DEF ProcessRequest, IInv
<1>2. ASSUME NEW c \in Cores, Dispatch(b, c)
      PROVE  Starts(b, c)
  <2>1. /\ isCPU_Idle[c] /\ toCPU'[c] = Append(toCPU[c], Exec(b)) /\ UNCHANGED requestsQueue
        /\ \A d \in Cores \ {c} : toCPU'[d] = toCPU[d]
    BY <1>1, <1>2 DEF Dispatch, FirstIdle, TypeOK
  <2>2. requestsQueue = <<>>
    BY <2>1 DEF IInv, QueueDiscipline, WorkConserving
  <2>3. \A d \in Cores \ {c} : OnCore(d)' = OnCore(d)
    BY <1>1, <2>1, SameCore
  <2>4. OnCore(c) = {}
    BY <1>1, <2>1, OnCoreOne DEF IInv, FlagsTruthful
  <2>5. toCPU[c] \in Seq(Messages) /\ Exec(b) \in Messages
    BY <1>1 DEF TypeOK, Messages
  <2>6. Elems(toCPU'[c]) = Elems(toCPU[c]) \cup {Exec(b)}
    BY <2>1, <2>5, AppendElems
  <2>7. \A a \in Blocks : Exec(a) = Exec(b) <=> a = b
    BY DEF Exec
  <2>8. OnCore(c)' = OnCore(c) \cup {b}
    BY <1>1, <2>6, <2>7 DEF OnCore
  <2> QED BY <1>1, <2>1, <2>2, <2>3, <2>4, <2>8 DEF Starts
<1>3. CASE Enqueue(b)
  <2>1. /\ \A c \in Cores : ~isCPU_Idle[c]
        /\ requestsQueue' = Append(requestsQueue, b) /\ UNCHANGED toCPU
    BY <1>3 DEF Enqueue
  <2> QED BY <1>1, <2>1, SameCore DEF Waits
<1> QED BY <1>2, <1>3 DEF ProcessRequest

LEMMA ChangeStateKind ==
  ASSUME IInv, NEW s \in OsStates, ProcessChangeState(s)
  PROVE  Quiet
<1>1. /\ TypeOK /\ 0 \in Cores /\ s \in States
      /\ toCPU' = [toCPU EXCEPT ![0] = Append(@, ChangeState(s))]
      /\ UNCHANGED <<isCPU_Idle, requestsQueue, submitted, answered, core, fromCPU>>
  BY CpuAssumption DEF ProcessChangeState, IInv, Cores, States, schedVars, osVars
<1>2. /\ toCPU[0] \in Seq(Messages) /\ toCPU'[0] = Append(toCPU[0], ChangeState(s))
      /\ \A d \in Cores \ {0} : toCPU'[d] = toCPU[d]
  BY <1>1 DEF TypeOK
<1>3. OnCore(0)' = OnCore(0)
  BY <1>1, <1>2, StateNoBlock DEF OnCore
<1> QED BY <1>1, <1>2, <1>3, SameCore DEF Quiet

LEMMA TakeKind ==
  ASSUME IInv, NEW c \in Cores, Taken(c)
  PROVE  Quiet
<1>1. /\ TypeOK /\ toCPU[c] \in Seq(Messages) /\ toCPU[c] # <<>>
      /\ toCPU'[c] = Tail(toCPU[c])
      /\ \A d \in Cores \ {c} : toCPU'[d] = toCPU[d] /\ core'[d] = core[d]
      /\ UNCHANGED <<isCPU_Idle, requestsQueue, submitted, answered, fromCPU>>
  BY DEF IInv, TypeOK, Taken, BlockArrives, StartBlock, CoreTakeState, schedVars, osVars
<1>2. /\ Head(toCPU[c]) \in Messages
      /\ Elems(toCPU[c]) = {Head(toCPU[c])} \cup Elems(toCPU'[c])
  BY <1>1, TailElems
<1>3. CASE BlockArrives(c) /\ StartBlock(c)
  <2>1. /\ Head(toCPU[c]).op = "SM_CPU_EXEC" /\ core[c] = NoBlock
        /\ core'[c] = Head(toCPU[c]).blk
    BY <1>1, <1>3 DEF BlockArrives, StartBlock, TypeOK
  <2>2. Head(toCPU[c]) = Exec(core'[c]) /\ core'[c] \in Blocks /\ NoBlock \notin Blocks
    BY <1>2, <2>1, CpuAssumption DEF Messages, Exec, ChangeState
  <2>3. \A b \in Blocks : Exec(b) = Exec(core'[c]) <=> b = core'[c]
    BY DEF Exec
  <2>4. OnCore(c)' = OnCore(c)
    BY <1>1, <1>2, <2>1, <2>2, <2>3 DEF OnCore
  <2> QED BY <1>1, <2>4, SameCore DEF Quiet
<1>4. CASE CoreTakeState(c)
  <2>1. core' = core /\ Head(toCPU[c]).op # "SM_CPU_EXEC"
    BY <1>4 DEF CoreTakeState
  <2>2. \A b \in Blocks : Exec(b) # Head(toCPU[c])
    BY <2>1 DEF Exec
  <2>3. OnCore(c)' = OnCore(c)
    BY <1>1, <1>2, <2>1, <2>2 DEF OnCore
  <2> QED BY <1>1, <2>3, SameCore DEF Quiet
<1> QED BY <1>3, <1>4 DEF Taken

LEMMA FinishKind ==
  ASSUME IInv, NEW c \in Cores, CoreFinish(c)
  PROVE  Quiet
<1>1. /\ TypeOK /\ core[c] # NoBlock /\ core'[c] = NoBlock
      /\ fromCPU'[c] = Append(fromCPU[c], core[c])
      /\ \A d \in Cores \ {c} : core'[d] = core[d] /\ fromCPU'[d] = fromCPU[d]
      /\ UNCHANGED <<isCPU_Idle, requestsQueue, submitted, answered, toCPU>>
  BY DEF IInv, TypeOK, CoreFinish, schedVars, osVars
<1>2. fromCPU[c] \in Seq(Blocks) /\ core[c] \in Blocks /\ NoBlock \notin Blocks
  BY <1>1, CpuAssumption DEF TypeOK
<1>3. Elems(fromCPU'[c]) = Elems(fromCPU[c]) \cup {core[c]}
  BY <1>1, <1>2, AppendElems
<1>4. OnCore(c)' = OnCore(c)
  BY <1>1, <1>2, <1>3 DEF OnCore
<1> QED BY <1>1, <1>4, SameCore DEF Quiet

LEMMA ResponseKind ==
  ASSUME IInv, NEW l \in Cores, ProcessResponse(l)
  PROVE  \E b \in Blocks : Ends(b, l)
<1> DEFINE b == Head(fromCPU[l])
<1>1. /\ TypeOK /\ Returning(l) /\ ~isCPU_Idle[l] /\ FlagTruthful(l)
      /\ fromCPU'[l] = <<>> /\ core' = core /\ submitted' = submitted
      /\ \A d \in Cores \ {l} : fromCPU'[d] = fromCPU[d]
      /\ GiveNextBlock(l) \/ GoIdle(l)
  BY ResponseFrees DEF IInv, FlagsTruthful
<1>2. b = fromCPU[l][1] /\ b \in Blocks /\ answered' = Append(answered, b)
  BY <1>1, ResponseType
<1>3. /\ toCPU[l] \in Seq(Messages) /\ fromCPU[l] \in Seq(Blocks) /\ core[l] = NoBlock
      /\ NoExec(toCPU[l]) /\ Len(fromCPU[l]) = 1 /\ NoBlock \notin Blocks
  BY <1>1, CpuAssumption DEF TypeOK, Returning
<1>4. \A a \in Blocks : Exec(a) \notin Elems(toCPU[l])
  BY <1>3, BlocksOnLink
<1>5. OnCore(l) = {b}
  <2>1. b \in Elems(fromCPU[l])
    BY <1>2, <1>3 DEF Elems
  <2>2. b \in OnCore(l)
    BY <1>2, <2>1 DEF OnCore
  <2> QED BY <1>1, <2>2, OnCoreOne
<1> HIDE DEF b
<1>6. Elems(fromCPU'[l]) = {} /\ core'[l] = NoBlock
  BY <1>1, <1>3 DEF Elems
<1>7. \A d \in Cores \ {l} : OnCore(d)' = OnCore(d)
  <2>1. \A d \in Cores \ {l} : toCPU'[d] = toCPU[d]
    BY <1>1 DEF GiveNextBlock, GoIdle, TypeOK
  <2> QED BY <1>1, <2>1, SameCore
<1>8. CASE GoIdle(l)
  <2>1. /\ requestsQueue = <<>> /\ requestsQueue' = requestsQueue
        /\ toCPU'[l] = Append(toCPU[l], IdleMessage)
    BY <1>1, <1>8 DEF GoIdle, TypeOK, IdleMessage
  <2>2. \A a \in Blocks : Exec(a) \notin Elems(toCPU'[l])
    BY <1>1, <1>3, <1>4, <2>1, SpeedIsIncrement, StateNoBlock
       DEF IInv, QueueDiscipline, IdleMessage
  <2>3. OnCore(l)' = {}
    BY <1>3, <1>6, <2>2 DEF OnCore
  <2> QED BY <1>1, <1>2, <1>5, <1>7, <2>1, <2>3 DEF Ends
<1>9. CASE GiveNextBlock(l)
  <2> DEFINE next == Head(requestsQueue)
             s1 == Append(toCPU[l], SpeedMessage)
  <2>1. /\ requestsQueue # <<>> /\ requestsQueue' = Tail(requestsQueue)
        /\ toCPU'[l] = Append(s1, Exec(next)) /\ next \in Blocks
    BY <1>1, <1>9, NextInQueue DEF GiveNextBlock, TypeOK
  <2>2. s1 \in Seq(Messages) /\ \A a \in Blocks : Exec(a) \notin Elems(s1)
    BY <1>1, <1>3, <1>4, SpeedIsIncrement, SendState, StateNoBlock DEF IInv, QueueDiscipline
  <2> HIDE DEF s1, next
  <2>3. Exec(next) \in Messages /\ \A a \in Blocks : Exec(a) = Exec(next) <=> a = next
    BY <2>1 DEF Messages, Exec
  <2>4. Elems(toCPU'[l]) = Elems(s1) \cup {Exec(next)}
    BY <2>1, <2>2, <2>3, AppendElems
  <2>5. OnCore(l)' = {next}
    BY <1>3, <1>6, <2>1, <2>2, <2>3, <2>4 DEF OnCore
  <2> QED BY <1>1, <1>2, <1>5, <1>7, <2>1, <2>5 DEF Ends, next
<1> QED BY <1>1, <1>2, <1>8, <1>9

\* Every step is one of the four.
LEMMA StepKinds ==
  ASSUME IInv, [Next]_vars
  PROVE  \/ Quiet
         \/ \E b \in Blocks : Waits(b) \/ \E c \in Cores : Starts(b, c) \/ Ends(b, c)
<1>1. CASE Stop \/ UNCHANGED vars
  BY <1>1, SameCore DEF Stop, vars, schedVars, coreVars, osVars, Quiet
<1>2. CASE Next
  <2>1. ASSUME NEW b \in Blocks, ProcessRequest(b)
        PROVE  Waits(b) \/ \E c \in Cores : Starts(b, c)
    BY <2>1, RequestKind
  <2>2. ASSUME NEW s \in OsStates, ProcessChangeState(s)
        PROVE  Quiet
    BY <2>2, ChangeStateKind
  <2>3. ASSUME NEW l \in Cores, ProcessResponse(l)
        PROVE  \E b \in Blocks : Ends(b, l)
    BY <2>3, ResponseKind
  <2>4. ASSUME NEW c \in Cores, Taken(c) \/ CoreFinish(c)
        PROVE  Quiet
    BY <2>4, TakeKind, FinishKind
  <2> QED BY <1>1, <1>2, <2>1, <2>2, <2>3, <2>4, TakeOrStop DEF Next, CoreContinue
<1> QED BY <1>1, <1>2
-----------------------------------------------------------------------------
(* Where the submitted blocks are. *)

\* A block on a core carries the core's index, and the queue's blocks carry none:
\* no block is on two cores, or on a core and in the queue.
LEMMA OnCoreIndex ==
  ASSUME IInv, NEW c \in Cores, NEW b \in OnCore(c)
  PROVE  nextModuleIndex[b] = c /\ b \in Blocks /\ b \notin Elems(requestsQueue)
<1>1. TypeOK /\ Carries(c) /\ NotYetPlaced
  BY DEF IInv, IndexCarried
<1>2. b \in Blocks /\ (Exec(b) \in Elems(toCPU[c]) \/ core[c] = b \/ b \in Elems(fromCPU[c]))
  BY DEF OnCore
<1>3. nextModuleIndex[b] = c
  <2>1. CASE Exec(b) \in Elems(toCPU[c])
    <3>1. PICK i \in DOMAIN toCPU[c] : toCPU[c][i] = Exec(b)
      BY <2>1 DEF Elems
    <3> QED BY <1>1, <3>1 DEF Carries, Exec
  <2>2. CASE core[c] = b
    BY <1>1, <1>2, <2>2, CpuAssumption DEF Carries
  <2>3. CASE b \in Elems(fromCPU[c])
    BY <1>1, <2>3 DEF Carries, Elems
  <2> QED BY <1>2, <2>1, <2>2, <2>3
<1>4. c # NOT_FOUND
  BY CpuAssumption DEF Cores, NOT_FOUND
<1> QED BY <1>1, <1>2, <1>3, <1>4 DEF NotYetPlaced, Elems

\* A block added to the histories or to the queue, or taken from the queue.
LEMMA QueueElems ==
  ASSUME TypeOK
  PROVE  /\ \A b \in Blocks :
              /\ Elems(Append(submitted, b)) = Elems(submitted) \cup {b}
              /\ Elems(Append(answered, b)) = Elems(answered) \cup {b}
              /\ Elems(Append(requestsQueue, b)) = Elems(requestsQueue) \cup {b}
         /\ requestsQueue # <<>> =>
              /\ Head(requestsQueue) \in Blocks
              /\ Elems(requestsQueue) = {Head(requestsQueue)} \cup Elems(Tail(requestsQueue))
         /\ requestsQueue = <<>> => Elems(requestsQueue) = {}
<1>1. submitted \in Seq(Blocks) /\ answered \in Seq(Blocks) /\ requestsQueue \in Seq(Blocks)
  BY DEF TypeOK
<1>2. requestsQueue = <<>> => Elems(requestsQueue) = {}
  BY DEF Elems
<1> QED BY <1>1, <1>2, AppendElems, TailElems

\* Placement in terms of the sets of blocks.
AnsweredOnce ==
  \A i, j \in DOMAIN answered : answered[i] = answered[j] => i = j

LEMMA PlacementParts ==
  Placement <=>
    /\ AnsweredOnce /\ Elems(answered) \subseteq Elems(submitted)
    /\ \A c \in Cores : OnCore(c) \subseteq Elems(submitted) \ Elems(answered)
    /\ Elems(requestsQueue) \cap Elems(answered) = {}
    /\ \A b \in Elems(submitted) :
         b \in Elems(requestsQueue) \/ b \in Elems(answered) \/ \E c \in Cores : b \in OnCore(c)
<1>1. (\A i \in DOMAIN answered : answered[i] \in Elems(submitted))
        <=> Elems(answered) \subseteq Elems(submitted)
  BY DEF Elems
<1> QED BY <1>1 DEF Placement, AnsweredOnce

LEMMA PlacementStep ==
  ASSUME IInv, Placement, [Next]_vars
  PROVE  Placement'
<1> DEFINE S == Elems(submitted)
           A == Elems(answered)
           Q == Elems(requestsQueue)
           Goal == /\ AnsweredOnce' /\ A' \subseteq S'
                   /\ \A d \in Cores : OnCore(d)' \subseteq S' \ A'
                   /\ Q' \cap A' = {}
                   /\ \A a \in S' :
                        a \in Q' \/ a \in A' \/ \E d \in Cores : a \in OnCore(d)'
<1>1. /\ TypeOK /\ AnsweredOnce /\ A \subseteq S
      /\ \A c \in Cores : OnCore(c) \subseteq S \ A
      /\ Q \cap A = {} /\ Q \subseteq S
      /\ \A a \in S : a \in Q \/ a \in A \/ \E c \in Cores : a \in OnCore(c)
  <2>1. Q \subseteq S
    BY DEF IInv, NotYetPlaced, Elems
  <2> QED BY <2>1, PlacementParts DEF IInv
<1>3. ASSUME Quiet PROVE Goal
  <2>1. AnsweredOnce' /\ S' = S /\ A' = A /\ Q' = Q
    BY <1>1, <1>3 DEF Quiet, AnsweredOnce
  <2> QED BY <1>1, <1>3, <2>1 DEF Quiet
<1>4. ASSUME NEW b \in Blocks, Waits(b)
      PROVE  Goal
  <2>1. AnsweredOnce' /\ S' = S \cup {b} /\ A' = A /\ Q' = Q \cup {b} /\ b \notin S
    BY <1>1, <1>4, QueueElems DEF Waits, AnsweredOnce
  <2> QED BY <1>1, <1>4, <2>1 DEF Waits
<1>5. ASSUME NEW b \in Blocks, NEW c \in Cores, Starts(b, c)
      PROVE  Goal
  <2>1. AnsweredOnce' /\ S' = S \cup {b} /\ A' = A /\ Q' = Q /\ b \notin S
    BY <1>1, <1>5, QueueElems DEF Starts, AnsweredOnce
  <2>2. OnCore(c)' = {b} /\ \A d \in Cores \ {c} : OnCore(d)' = OnCore(d)
    BY <1>5 DEF Starts
  <2>3. OnCore(c) = {}
    BY <1>1, <1>5, OnCoreOne DEF Starts, IInv, FlagsTruthful
  <2> HIDE DEF S, A, Q
  <2>4. \A d \in Cores : OnCore(d)' \subseteq S' \ A'
    BY <1>1, <2>1, <2>2
  <2>5. \A a \in S' : a \in Q' \/ a \in A' \/ \E d \in Cores : a \in OnCore(d)'
    BY <1>1, <2>1, <2>2, <2>3
  <2> QED BY <1>1, <2>1, <2>4, <2>5
<1>6. ASSUME NEW b \in Blocks, NEW c \in Cores, Ends(b, c)
      PROVE  Goal
  <2>1. /\ OnCore(c) = {b} /\ answered' = Append(answered, b)
        /\ \A d \in Cores \ {c} : OnCore(d)' = OnCore(d)
        /\ S' = S /\ A' = A \cup {b}
    BY <1>1, <1>6, QueueElems DEF Ends
  <2>2. /\ b \in S \ A /\ b \notin Q
        /\ \A d \in Cores \ {c} : b \notin OnCore(d)
    BY <1>1, <2>1, OnCoreIndex
  <2>3. AnsweredOnce'
    <3>1. /\ Len(answered) \in Nat /\ DOMAIN answered = 1 .. Len(answered)
          /\ DOMAIN answered' = 1 .. Len(answered) + 1
          /\ \A i \in 1 .. Len(answered) : answered'[i] = answered[i]
          /\ answered'[Len(answered) + 1] = b
      BY <1>1, <2>1, AppendProperties DEF TypeOK
    <3>2. \A i \in 1 .. Len(answered) : answered[i] # b
      BY <2>2, <3>1 DEF Elems
    <3> QED BY <1>1, <3>1, <3>2 DEF AnsweredOnce
  <2>4. CASE requestsQueue = <<>>
    <3>1. OnCore(c)' = {} /\ Q' = Q
      BY <1>6, <2>4 DEF Ends
    <3> HIDE DEF S, A, Q
    <3>2. \A d \in Cores : OnCore(d)' \subseteq S' \ A'
      BY <1>1, <2>1, <2>2, <3>1
    <3>3. \A a \in S' : a \in Q' \/ a \in A' \/ \E d \in Cores : a \in OnCore(d)'
      BY <1>1, <2>1, <2>2, <3>1
    <3> QED BY <1>1, <2>1, <2>2, <2>3, <3>1, <3>2, <3>3
  <2>5. CASE requestsQueue # <<>>
    <3> DEFINE next == Head(requestsQueue)
    <3>1. OnCore(c)' = {next} /\ Q = {next} \cup Q'
      BY <1>1, <1>6, <2>5, QueueElems DEF Ends
    <3> HIDE DEF S, A, Q, next
    <3>2. next \in S \ A /\ next # b
      BY <1>1, <2>2, <3>1
    <3>3. \A d \in Cores : OnCore(d)' \subseteq S' \ A'
      BY <1>1, <2>1, <2>2, <3>1, <3>2
    <3>4. ASSUME NEW a \in S'
          PROVE  a \in Q' \/ a \in A' \/ \E d \in Cores : a \in OnCore(d)'
      <4>1. a = b \/ a = next \/ a \in Q' \/ a \in A \/ \E d \in Cores \ {c} : a \in OnCore(d)
        BY <1>1, <2>1, <3>1
      <4> QED BY <2>1, <3>1, <4>1
    <3> QED BY <1>1, <2>1, <2>2, <2>3, <3>1, <3>3, <3>4
  <2> QED BY <2>4, <2>5
<1> HIDE DEF Goal
<1>7. Goal
  BY <1>3, <1>4, <1>5, <1>6, StepKinds
<1>8. \A i \in DOMAIN answered' : answered'[i] \in A'
  BY DEF Elems
<1> QED BY <1>7, <1>8 DEF Goal, Placement, AnsweredOnce

LEMMA PlacementInit == Init => Placement
<1> SUFFICES ASSUME Init PROVE Placement
  OBVIOUS
<1>1. DOMAIN answered = {} /\ Elems(submitted) = {} /\ Elems(answered) = {}
      /\ Elems(requestsQueue) = {}
  BY DEF Init, Elems
<1>2. ASSUME NEW c \in Cores
      PROVE  OnCore(c) = {}
  <2>1. IInv
    BY InitInv
  <2>2. isCPU_Idle[c]
    BY DEF Init
  <2> QED BY <2>1, <2>2, OnCoreOne DEF IInv, FlagsTruthful
<1> QED BY <1>1, <1>2 DEF Placement
-----------------------------------------------------------------------------
(* How many blocks are being computed. *)

BusyCores == {c \in Cores : ~isCPU_Idle[c]}

\* There are as many running blocks as busy cores, at most NumCPUs, and exactly
\* NumCPUs when no core is idle.
LEMMA RunningCount ==
  ASSUME IInv
  PROVE  /\ (\A c \in Cores : ~isCPU_Idle[c]) => Cardinality(Running) = NumCPUs
         /\ (\E c \in Cores : isCPU_Idle[c]) => Cardinality(Running) < NumCPUs
<1>1. /\ IsFiniteSet(Cores) /\ Cardinality(Cores) = NumCPUs /\ NumCPUs \in Nat
  <2>1. 0 \in Int /\ NumCPUs - 1 \in Int /\ ~(0 > NumCPUs - 1) /\ (NumCPUs - 1) - 0 + 1 = NumCPUs
    BY CpuAssumption
  <2> QED BY <2>1, FS_Interval, CpuAssumption DEF Cores
<1>2. /\ IsFiniteSet(BusyCores) /\ BusyCores \subseteq Cores
      /\ Cardinality(BusyCores) \in Nat /\ Cardinality(BusyCores) <= NumCPUs
      /\ Cardinality(BusyCores) = NumCPUs => BusyCores = Cores
  <2>1. BusyCores \in SUBSET Cores
    BY DEF BusyCores
  <2> QED BY <1>1, <2>1, FS_Subset, FS_CardinalityType
<1> DEFINE f == [b \in Running |-> nextModuleIndex[b]]
<1>3. \A b \in Running : nextModuleIndex[b] \in BusyCores /\ b \in OnCore(nextModuleIndex[b])
  <2> SUFFICES ASSUME NEW b \in Running
               PROVE  nextModuleIndex[b] \in BusyCores /\ b \in OnCore(nextModuleIndex[b])
    OBVIOUS
  <2>1. PICK c \in Cores : b \in OnCore(c)
    BY DEF Running
  <2>2. nextModuleIndex[b] = c
    BY <2>1, OnCoreIndex
  <2>3. ~isCPU_Idle[c]
    BY <2>1, OnCoreOne DEF IInv, FlagsTruthful
  <2> QED BY <2>1, <2>2, <2>3 DEF BusyCores
<1>4. \A c \in BusyCores : \E b \in Running : OnCore(c) = {b}
  BY <1>2, OnCoreOne DEF IInv, FlagsTruthful, BusyCores, Running
<1>5. f \in Bijection(Running, BusyCores)
  <2>1. f \in [Running -> BusyCores]
    BY <1>3
  <2>2. \A a, b \in Running : f[a] = f[b] => a = b
    BY <1>3, <1>4
  <2>3. \A c \in BusyCores : \E b \in Running : f[b] = c
    BY <1>2, <1>4, OnCoreIndex
  <2> QED BY <2>1, <2>2, <2>3, Fun_IsBij
<1>6. Cardinality(Running) = Cardinality(BusyCores)
  <2>1. ExistsBijection(Running, BusyCores)
    BY <1>5 DEF ExistsBijection
  <2>2. ExistsBijection(BusyCores, Running)
    BY <2>1, Fun_ExistsBijSymmetric
  <2> QED BY <1>2, <2>2, FS_Bijection
<1>7. ASSUME \A c \in Cores : ~isCPU_Idle[c]
      PROVE  Cardinality(Running) = NumCPUs
  <2>1. BusyCores = Cores
    BY <1>7 DEF BusyCores
  <2> QED BY <1>1, <1>6, <2>1
<1>8. ASSUME NEW c \in Cores, isCPU_Idle[c]
      PROVE  Cardinality(Running) < NumCPUs
  <2>1. BusyCores # Cores
    BY <1>8 DEF BusyCores
  <2> QED BY <1>1, <1>2, <1>6, <2>1
<1> QED BY <1>7, <1>8

-----------------------------------------------------------------------------
(* The abstract CPU service. *)

\* CpuService counts as this module does.
LEMMA SameCount == Service!Cardinality(Running) = Cardinality(Running)
  BY DEF Service!Cardinality, Cardinality, Service!IsFiniteSet, IsFiniteSet

LEMMA ServiceInitOk == Init => Service!ServiceInit
<1> SUFFICES ASSUME Init PROVE Service!ServiceInit
  OBVIOUS
<1>1. requestsQueue = <<>> /\ Elems(answered) = {}
  BY DEF Init, Elems
<1>2. ASSUME NEW c \in Cores
      PROVE  OnCore(c) = {}
  <2>1. isCPU_Idle[c]
    BY DEF Init
  <2> QED BY <2>1, InitInv, OnCoreOne DEF IInv, FlagsTruthful
<1>3. Running = {}
  BY <1>2 DEF Running
<1> QED BY <1>1, <1>3 DEF Service!ServiceInit

\* A step of the scheduler is a step of the service, or the service does nothing.
LEMMA ServiceStep ==
  ASSUME IInv, Placement, [Next]_vars
  PROVE  [Service!ServiceNext]_(Service!serviceVars)
<1> DEFINE Q == Elems(requestsQueue)
<1>1. /\ TypeOK /\ Elems(answered) \subseteq Elems(submitted)
      /\ Running \subseteq Elems(submitted) /\ Q \subseteq Elems(submitted)
      /\ Service!Known = Q \cup Running \cup Elems(answered)
  <2>1. Q \subseteq Elems(submitted)
    BY DEF IInv, NotYetPlaced, Elems
  <2> QED BY <2>1, PlacementParts DEF IInv, Running, Service!Known, Elems
<1>2. CASE Quiet
  <2>1. Running' = Running /\ Elems(answered)' = Elems(answered)
    BY <1>2 DEF Quiet, Running
  <2> QED BY <1>2, <2>1 DEF Quiet, Service!serviceVars
<1>3. ASSUME NEW b \in Blocks, Waits(b)
      PROVE  Service!Submit(b)
  <2>1. b \notin Service!Known
    BY <1>1, <1>3 DEF Waits
  <2>2. Running' = Running /\ Elems(answered)' = Elems(answered)
    BY <1>3 DEF Waits, Running
  <2>3. Cardinality(Running) = NumCPUs
    BY <1>3, RunningCount DEF Waits
  <2> QED BY <1>3, <2>1, <2>2, <2>3, SameCount DEF Waits, Service!Submit
<1>4. ASSUME NEW b \in Blocks, NEW c \in Cores, Starts(b, c)
      PROVE  Service!Submit(b)
  <2>1. b \notin Service!Known
    BY <1>1, <1>4 DEF Starts
  <2>2. OnCore(c) = {}
    BY <1>4, OnCoreOne DEF Starts, IInv, FlagsTruthful
  <2>3. Running' = Running \cup {b} /\ Elems(answered)' = Elems(answered)
    BY <1>4, <2>2 DEF Starts, Running
  <2>4. Cardinality(Running) < NumCPUs
    BY <1>4, RunningCount DEF Starts
  <2> QED BY <1>4, <2>1, <2>3, <2>4, SameCount DEF Starts, Service!Submit
<1>5. ASSUME NEW b \in Blocks, NEW c \in Cores, Ends(b, c)
      PROVE  Service!Finish(b)
  <2>1. /\ OnCore(c) = {b} /\ \A d \in Cores \ {c} : OnCore(d)' = OnCore(d)
        /\ Elems(answered)' = Elems(answered) \cup {b} /\ b \in Running
    BY <1>1, <1>5, QueueElems DEF Ends, Running
  <2>2. \A d \in Cores \ {c} : b \notin OnCore(d)
    BY <2>1, OnCoreIndex
  <2>3. CASE requestsQueue = <<>>
    <3>1. Running' = Running \ {b} /\ UNCHANGED requestsQueue
      BY <1>5, <2>1, <2>2, <2>3 DEF Ends, Running
    <3> QED BY <2>1, <2>3, <3>1 DEF Service!Finish
  <2>4. CASE requestsQueue # <<>>
    <3>1. /\ OnCore(c)' = {Head(requestsQueue)} /\ requestsQueue' = Tail(requestsQueue)
      BY <1>5, <2>4 DEF Ends
    <3>2. Running' = (Running \ {b}) \cup {Head(requestsQueue)}
      BY <2>1, <2>2, <3>1 DEF Running
    <3> QED BY <2>1, <2>4, <3>1, <3>2 DEF Service!Finish
  <2> QED BY <2>3, <2>4
<1> QED BY <1>2, <1>3, <1>4, <1>5, StepKinds DEF Service!ServiceNext

LEMMA PlacementInvariant == Spec => [](IInv /\ Placement)
<1> DEFINE Placed == IInv /\ Placement
<1>1. Init => Placed
  BY InitInv, PlacementInit
<1>2. Placed /\ [Next]_vars => Placed'
  BY NextInv, PlacementStep
<1> HIDE DEF Placed
<1>3. Spec => []Placed
  BY <1>1, <1>2, PTL DEF Spec
<1> QED BY <1>3 DEF Placed

\* The scheduler with its cores and links is the CPU service of CpuService, as far
\* as safety goes: at most NumCPUs blocks run, none waits while a CPU is free, blocks
\* start in the order in which they came, and an answer hands its CPU on at once.
THEOREM ProvidesService == Spec => Service!ServiceSafety
<1>1. Spec => [][Service!ServiceNext]_(Service!serviceVars)
  <2>1. IInv /\ Placement /\ [Next]_vars => [Service!ServiceNext]_(Service!serviceVars)
    BY ServiceStep
  <2> QED BY <2>1, PlacementInvariant, PTL DEF Spec
<1> QED BY <1>1, ServiceInitOk, PTL DEF Spec, Service!ServiceSafety
-----------------------------------------------------------------------------
(* No block is lost and none is duplicated. *)

LEMMA CountOf ==
  ASSUME NEW s, NEW b, \A i, j \in DOMAIN s : s[i] = s[j] => i = j
  PROVE  Cardinality({i \in DOMAIN s : s[i] = b}) = IF b \in Elems(s) THEN 1 ELSE 0
<1> DEFINE P == {i \in DOMAIN s : s[i] = b}
<1>1. CASE b \in Elems(s)
  <2>1. PICK i \in DOMAIN s : s[i] = b
    BY <1>1 DEF Elems
  <2>2. P = {i}
    BY <2>1
  <2> QED BY <1>1, <2>2, FS_Singleton
<1>2. CASE b \notin Elems(s)
  <2>1. P = {}
    BY <1>2 DEF Elems
  <2> QED BY <1>2, <2>1, FS_EmptySet
<1> QED BY <1>1, <1>2

LEMMA PlacedOnce ==
  ASSUME IInv, Placement
  PROVE  ExactlyOnce
<1>1. /\ AnsweredOnce /\ Elems(answered) \subseteq Elems(submitted)
      /\ \A c \in Cores : OnCore(c) \subseteq Elems(submitted) \ Elems(answered)
      /\ Elems(requestsQueue) \cap Elems(answered) = {}
      /\ \A b \in Elems(submitted) :
           b \in Elems(requestsQueue) \/ b \in Elems(answered) \/ \E c \in Cores : b \in OnCore(c)
  BY PlacementParts
<1>2. /\ Elems(requestsQueue) \subseteq Elems(submitted)
      /\ \A i, j \in DOMAIN requestsQueue : requestsQueue[i] = requestsQueue[j] => i = j
  BY DEF IInv, NotYetPlaced, Elems
<1>3. ASSUME NEW b \in Blocks
      PROVE  Copies(b) = IF b \in Elems(submitted) THEN 1 ELSE 0
  <2> DEFINE q == Cardinality({i \in DOMAIN requestsQueue : requestsQueue[i] = b})
             p == Cardinality({c \in Cores : b \in OnCore(c)})
             r == Cardinality({i \in DOMAIN answered : answered[i] = b})
  <2>1. q = IF b \in Elems(requestsQueue) THEN 1 ELSE 0
    BY <1>2, CountOf
  <2>2. r = IF b \in Elems(answered) THEN 1 ELSE 0
    BY <1>1, CountOf DEF AnsweredOnce
  <2>3. p = IF \E c \in Cores : b \in OnCore(c) THEN 1 ELSE 0
    <3>1. ASSUME NEW c \in Cores, b \in OnCore(c)
          PROVE  p = 1
      <4>1. \A d \in Cores : b \in OnCore(d) => d = c
        BY <3>1, OnCoreIndex
      <4>2. {d \in Cores : b \in OnCore(d)} = {c}
        BY <3>1, <4>1
      <4> QED BY <4>2, FS_Singleton
    <3>2. ASSUME ~\E c \in Cores : b \in OnCore(c)
          PROVE  p = 0
      <4>1. {d \in Cores : b \in OnCore(d)} = {}
        BY <3>2
      <4> QED BY <4>1, FS_EmptySet
    <3> HIDE DEF p
    <3> QED BY <3>1, <3>2
  <2>4. \A c \in Cores : b \in OnCore(c) => b \notin Elems(requestsQueue)
    BY OnCoreIndex
  <2>5. Copies(b) = q + p + r
    BY DEF Copies
  <2> HIDE DEF q, p, r
  <2>6. CASE b \in Elems(submitted)
    <3>1. CASE b \in Elems(requestsQueue)
      BY <1>1, <2>1, <2>2, <2>3, <2>4, <2>5, <2>6, <3>1
    <3>2. CASE b \in Elems(answered)
      BY <1>1, <2>1, <2>2, <2>3, <2>5, <2>6, <3>2
    <3>3. CASE \E c \in Cores : b \in OnCore(c)
      BY <1>1, <2>1, <2>2, <2>3, <2>4, <2>5, <2>6, <3>3
    <3> QED BY <1>1, <2>6, <3>1, <3>2, <3>3
  <2>7. CASE b \notin Elems(submitted)
    BY <1>1, <1>2, <2>1, <2>2, <2>3, <2>5, <2>7
  <2> QED BY <2>6, <2>7
<1>4. \A c \in Cores : \A b \in OnCore(c) : nextModuleIndex[b] = c
  BY OnCoreIndex
<1> QED BY <1>3, <1>4 DEF ExactlyOnce

\* Whatever the interleaving, a submitted block is in the queue, on one core or
\* among the answers, once; and its message carries the index of the core it is on.
THEOREM NoBlockLost == Spec => []ExactlyOnce
<1>1. IInv /\ Placement => ExactlyOnce
  BY PlacedOnce
<1> QED BY <1>1, PlacementInvariant, PTL
=============================================================================
