------------------------ MODULE CpuSchedulerFIFO_proofs ------------------------
(***************************************************************************)
(* Proofs about CpuSchedulerFIFO for any number of cores and any blocks:   *)
(* type correctness, the inductive invariant IInv from which core          *)
(* exclusivity and the queue's discipline follow, and what the energy      *)
(* states that reach one core only mean for a node without hypervisor.     *)
(***************************************************************************)
EXTENDS CpuSchedulerFIFO, SequenceTheorems, TLAPS

-----------------------------------------------------------------------------
(* What the links' operations do to the number of blocks on a link. *)

\* A state message sent on a link changes neither "no block" nor "one block".
LEMMA SendState ==
  ASSUME NEW s \in Seq(Messages), NEW x \in States
  PROVE  /\ Append(s, ChangeState(x)) \in Seq(Messages)
         /\ NoExec(s) => NoExec(Append(s, ChangeState(x)))
         /\ OneExec(s) => OneExec(Append(s, ChangeState(x)))
<1> DEFINE m == ChangeState(x)
           t == Append(s, m)
<1>1. m \in Messages /\ m.op # "SM_CPU_EXEC"
  BY DEF ChangeState, Messages
<1>2. /\ t \in Seq(Messages) /\ Len(t) = Len(s) + 1 /\ t[Len(t)] = m
      /\ \A i \in 1 .. Len(s) : t[i] = s[i]
  BY <1>1, AppendProperties
<1> HIDE DEF m, t
<1>3. NoExec(s) => NoExec(t)
  BY <1>1, <1>2 DEF NoExec
<1>4. OneExec(s) => OneExec(t)
  <2> SUFFICES ASSUME OneExec(s) PROVE OneExec(t)
    OBVIOUS
  <2>1. PICK i \in DOMAIN s : /\ s[i].op = "SM_CPU_EXEC"
                              /\ \A j \in DOMAIN s : s[j].op = "SM_CPU_EXEC" => j = i
    BY DEF OneExec
  <2>2. i \in DOMAIN t /\ t[i].op = "SM_CPU_EXEC"
    BY <2>1, <1>2
  <2>3. \A j \in DOMAIN t : t[j].op = "SM_CPU_EXEC" => j = i
    BY <2>1, <1>1, <1>2
  <2> QED BY <2>2, <2>3 DEF OneExec
<1> QED BY <1>2, <1>3, <1>4 DEF m, t

\* A block sent on a link without blocks is the only one there.
LEMMA SendExec ==
  ASSUME NEW s \in Seq(Messages), NEW b \in Blocks
  PROVE  /\ Append(s, Exec(b)) \in Seq(Messages)
         /\ NoExec(s) => OneExec(Append(s, Exec(b)))
<1> DEFINE m == Exec(b)
           t == Append(s, m)
<1>1. m \in Messages /\ m.op = "SM_CPU_EXEC"
  BY DEF Exec, Messages
<1>2. /\ t \in Seq(Messages) /\ Len(t) = Len(s) + 1 /\ t[Len(t)] = m
      /\ \A i \in 1 .. Len(s) : t[i] = s[i]
  BY <1>1, AppendProperties
<1> HIDE DEF m, t
<1>3. NoExec(s) => OneExec(t)
  <2> SUFFICES ASSUME NoExec(s) PROVE OneExec(t)
    OBVIOUS
  <2>1. Len(t) \in DOMAIN t /\ t[Len(t)].op = "SM_CPU_EXEC"
    BY <1>1, <1>2
  <2>2. \A j \in DOMAIN t : t[j].op = "SM_CPU_EXEC" => j = Len(t)
    BY <1>2 DEF NoExec
  <2> QED BY <2>1, <2>2 DEF OneExec
<1> QED BY <1>2, <1>3 DEF m, t

\* Taking the first message leaves one block less exactly when it was a block.
LEMMA TakeFirst ==
  ASSUME NEW s \in Seq(Messages), s # <<>>
  PROVE  /\ Head(s) \in Messages /\ Tail(s) \in Seq(Messages)
         /\ NoExec(s) => Head(s).op # "SM_CPU_EXEC" /\ NoExec(Tail(s))
         /\ OneExec(s) /\ Head(s).op = "SM_CPU_EXEC" => NoExec(Tail(s))
         /\ OneExec(s) /\ Head(s).op # "SM_CPU_EXEC" => OneExec(Tail(s))
<1>1. /\ Head(s) \in Messages /\ Head(s) = s[1] /\ Len(s) \in Nat /\ Len(s) >= 1
      /\ Tail(s) \in Seq(Messages) /\ Len(Tail(s)) = Len(s) - 1
      /\ \A i \in 1 .. Len(s) - 1 : Tail(s)[i] = s[i + 1]
  BY HeadTailProperties
<1>2. DOMAIN s = 1 .. Len(s) /\ DOMAIN Tail(s) = 1 .. Len(s) - 1
  BY <1>1
<1>3. NoExec(s) => Head(s).op # "SM_CPU_EXEC" /\ NoExec(Tail(s))
  BY <1>1, <1>2 DEF NoExec
<1>4. ASSUME OneExec(s), Head(s).op = "SM_CPU_EXEC"
      PROVE  NoExec(Tail(s))
  <2>1. \A j \in DOMAIN s : s[j].op = "SM_CPU_EXEC" => j = 1
    BY <1>1, <1>2, <1>4 DEF OneExec
  <2>2. \A i \in 1 .. Len(s) - 1 : i + 1 \in DOMAIN s /\ i + 1 # 1
    BY <1>1, <1>2
  <2> QED BY <1>1, <1>2, <2>1, <2>2 DEF NoExec
<1>5. ASSUME OneExec(s), Head(s).op # "SM_CPU_EXEC"
      PROVE  OneExec(Tail(s))
  <2>1. PICK i \in DOMAIN s : /\ s[i].op = "SM_CPU_EXEC"
                              /\ \A j \in DOMAIN s : s[j].op = "SM_CPU_EXEC" => j = i
    BY <1>5 DEF OneExec
  <2>2. i # 1 /\ i - 1 \in DOMAIN Tail(s) /\ Tail(s)[i - 1] = s[i]
    <3>1. i # 1
      BY <1>1, <1>5, <2>1
    <3> QED BY <1>1, <1>2, <2>1, <3>1
  <2>3. \A j \in DOMAIN Tail(s) : Tail(s)[j].op = "SM_CPU_EXEC" => j = i - 1
    BY <1>1, <1>2, <2>1
  <2> QED BY <2>1, <2>2, <2>3 DEF OneExec
<1> QED BY <1>1, <1>3, <1>4, <1>5

\* A link never holds both no block and one block.
LEMMA NoneOrOne == \A s : ~(NoExec(s) /\ OneExec(s))
  BY DEF NoExec, OneExec
-----------------------------------------------------------------------------
(* Type correctness. *)

\* What CoreTake does when it does not stop the simulation.
Taken(c) == (BlockArrives(c) /\ StartBlock(c)) \/ CoreTakeState(c)

LEMMA TakeOrStop == \A c \in Cores : CoreTake(c) => Taken(c) \/ Stop
  BY DEF CoreTake, CoreTakeBlock, Taken

\* The cores' power, the place of the scheduler and the flag of the stop keep their types.
LEMMA HostType ==
  ASSUME TypeOK, [Next]_vars
  PROVE  off' \in [Cores -> BOOLEAN] /\ guest' \in BOOLEAN /\ failed' \in BOOLEAN
<1>1. CASE UNCHANGED <<off, hostVars>>
  BY <1>1 DEF hostVars, TypeOK
<1>2. CASE Stop
  BY <1>2 DEF Stop, coreVars, TypeOK
<1>3. ASSUME NEW c \in Cores, Taken(c)
      PROVE  off' \in [Cores -> BOOLEAN] /\ UNCHANGED hostVars
  BY <1>3 DEF Taken, StartBlock, CoreTakeState, TypeOK
<1>4. Next => UNCHANGED <<off, hostVars>> \/ Stop \/ \E c \in Cores : Taken(c)
  BY TakeOrStop DEF Next, ProcessRequest, ProcessChangeState, ProcessResponse, CoreContinue,
                    CoreFinish
<1>5. UNCHANGED vars => UNCHANGED <<off, hostVars>>
  BY DEF vars, coreVars
<1> QED BY <1>1, <1>2, <1>3, <1>4, <1>5 DEF hostVars, TypeOK

LEMMA InitType == Init => TypeOK /\ QueueCounted
<1> SUFFICES ASSUME Init PROVE TypeOK /\ QueueCounted
  OBVIOUS
<1>1. <<>> \in Seq(Messages) /\ <<>> \in Seq(Blocks) /\ Len(<<>>) = 0
  OBVIOUS
<1>2. guest \in BOOLEAN /\ off = [c \in Cores |-> ~guest]
  BY DEF Init
<1>3. off \in [Cores -> BOOLEAN]
  BY <1>2
<1>4. failed \in BOOLEAN
  BY DEF Init
<1>5. isCPU_Idle \in [Cores -> BOOLEAN] /\ core \in [Cores -> Blocks \cup {NoBlock}]
  BY DEF Init
<1>6. /\ toCPU \in [Cores -> Seq(Messages)] /\ fromCPU \in [Cores -> Seq(Blocks)]
      /\ nextModuleIndex \in [Blocks -> Cores \cup {NOT_FOUND}]
  BY <1>1 DEF Init
<1>7. /\ requestsQueue \in Seq(Blocks) /\ submitted \in Seq(Blocks) /\ answered \in Seq(Blocks)
      /\ queueSize \in Int /\ queueSize = Len(requestsQueue)
  BY <1>1 DEF Init
<1> QED BY <1>2, <1>3, <1>4, <1>5, <1>6, <1>7 DEF TypeOK, QueueCounted

\* With an exact count the scheduler's speed message is always INCREMENT_SPEED.
LEMMA SpeedIsIncrement ==
  ASSUME TypeOK, QueueCounted
  PROVE  /\ SpeedMessage = ChangeState("INCREMENT_SPEED")
         /\ "INCREMENT_SPEED" \in States /\ "MACHINE_STATE_IDLE" \in States
<1>1. Len(requestsQueue) \in Nat
  BY DEF TypeOK
<1> QED BY <1>1 DEF QueueCounted, SpeedMessage, States

\* The queue's head and tail, as GiveNextBlock uses them.
LEMMA NextInQueue ==
  ASSUME TypeOK, requestsQueue # <<>>
  PROVE  /\ Head(requestsQueue) = requestsQueue[1] /\ Head(requestsQueue) \in Blocks
         /\ Tail(requestsQueue) \in Seq(Blocks)
         /\ Len(requestsQueue) \in Nat \ {0}
         /\ Len(Tail(requestsQueue)) = Len(requestsQueue) - 1
         /\ \A i \in 1 .. Len(requestsQueue) - 1 :
              Tail(requestsQueue)[i] = requestsQueue[i + 1]
  BY HeadTailProperties DEF TypeOK

\* A handler keeps the types: the two ways in which a response is handled.
LEMMA GiveNextBlockType ==
  ASSUME TypeOK, QueueCounted, NEW c \in Cores, GiveNextBlock(c)
  PROVE  /\ isCPU_Idle' \in [Cores -> BOOLEAN]
         /\ requestsQueue' \in Seq(Blocks)
         /\ queueSize' \in Int
         /\ nextModuleIndex' \in [Blocks -> Cores \cup {NOT_FOUND}]
         /\ toCPU' \in [Cores -> Seq(Messages)]
         /\ queueSize' = Len(requestsQueue')
<1> DEFINE next == Head(requestsQueue)
<1>1. /\ requestsQueue # <<>>
      /\ toCPU' = [toCPU EXCEPT ![c] = Append(Append(@, SpeedMessage), Exec(next))]
      /\ requestsQueue' = Tail(requestsQueue)
      /\ queueSize' = queueSize - 1
      /\ nextModuleIndex' = [nextModuleIndex EXCEPT ![next] = c]
      /\ isCPU_Idle' = [isCPU_Idle EXCEPT ![c] = FALSE]
  BY DEF GiveNextBlock
<1>2. Append(Append(toCPU[c], SpeedMessage), Exec(next)) \in Seq(Messages)
  <2>1. toCPU[c] \in Seq(Messages)
    BY DEF TypeOK
  <2>2. Append(toCPU[c], SpeedMessage) \in Seq(Messages)
    BY <2>1, SpeedIsIncrement, SendState
  <2> QED BY <2>2, <1>1, NextInQueue, SendExec
<1>3. toCPU' \in [Cores -> Seq(Messages)]
  BY <1>1, <1>2 DEF TypeOK
<1>4. nextModuleIndex' \in [Blocks -> Cores \cup {NOT_FOUND}]
  BY <1>1 DEF TypeOK
<1>5. isCPU_Idle' \in [Cores -> BOOLEAN]
  BY <1>1 DEF TypeOK
<1>6. requestsQueue' \in Seq(Blocks) /\ queueSize' = Len(requestsQueue') /\ queueSize' \in Int
  BY <1>1, NextInQueue DEF QueueCounted, TypeOK
<1> QED BY <1>3, <1>4, <1>5, <1>6

LEMMA GoIdleType ==
  ASSUME TypeOK, QueueCounted, NEW c \in Cores, GoIdle(c)
  PROVE  /\ isCPU_Idle' \in [Cores -> BOOLEAN]
         /\ toCPU' \in [Cores -> Seq(Messages)]
         /\ UNCHANGED <<requestsQueue, queueSize, nextModuleIndex>>
<1>1. Append(toCPU[c], ChangeState("MACHINE_STATE_IDLE")) \in Seq(Messages)
  BY SpeedIsIncrement, SendState DEF TypeOK
<1> QED BY <1>1 DEF GoIdle, TypeOK

\* The block that comes back on link l, and the core its message names.
LEMMA ResponseType ==
  ASSUME TypeOK, NEW l \in Cores, ProcessResponse(l)
  PROVE  /\ Head(fromCPU[l]) = fromCPU[l][1] /\ Head(fromCPU[l]) \in Blocks
         /\ Tail(fromCPU[l]) \in Seq(Blocks)
         /\ Len(fromCPU[l]) \in Nat \ {0} /\ Len(Tail(fromCPU[l])) = Len(fromCPU[l]) - 1
         /\ \A i \in 1 .. Len(fromCPU[l]) - 1 : Tail(fromCPU[l])[i] = fromCPU[l][i + 1]
         /\ answered' = Append(answered, Head(fromCPU[l]))
         /\ fromCPU' = [fromCPU EXCEPT ![l] = Tail(@)]
         /\ UNCHANGED <<core, submitted>>
         /\ nextModuleIndex[Head(fromCPU[l])] \in Cores
         /\ \/ GiveNextBlock(nextModuleIndex[Head(fromCPU[l])])
            \/ GoIdle(nextModuleIndex[Head(fromCPU[l])])
<1>1. fromCPU[l] \in Seq(Blocks) /\ fromCPU[l] # <<>>
  BY DEF TypeOK, ProcessResponse
<1> QED BY <1>1, HeadTailProperties DEF ProcessResponse

LEMMA NextType == TypeOK /\ QueueCounted /\ [Next]_vars => TypeOK' /\ QueueCounted'
<1> SUFFICES ASSUME TypeOK, QueueCounted, [Next]_vars
             PROVE  TypeOK' /\ QueueCounted'
  OBVIOUS
<1> USE HostType DEF QueueCounted
<1>1. ASSUME NEW b \in Blocks, ProcessRequest(b)
      PROVE  TypeOK' /\ QueueCounted'
  <2>1. submitted' \in Seq(Blocks)
    BY <1>1 DEF ProcessRequest, TypeOK
  <2>2. ASSUME NEW c \in Cores, Dispatch(b, c)
        PROVE  TypeOK' /\ QueueCounted'
    <3>1. Append(toCPU[c], Exec(b)) \in Seq(Messages)
      BY SendExec DEF TypeOK
    <3> QED BY <1>1, <2>1, <2>2, <3>1 DEF ProcessRequest, Dispatch, TypeOK
  <2>3. ASSUME Enqueue(b)
        PROVE  TypeOK' /\ QueueCounted'
    <3>1. /\ requestsQueue' \in Seq(Blocks) /\ Len(requestsQueue') = Len(requestsQueue) + 1
          /\ queueSize' = queueSize + 1
      BY <2>3, AppendProperties DEF Enqueue, TypeOK
    <3> QED BY <1>1, <2>1, <2>3, <3>1 DEF ProcessRequest, Enqueue, TypeOK
  <2> QED BY <1>1, <2>2, <2>3 DEF ProcessRequest
<1>2. ASSUME NEW s \in OsStates, ProcessChangeState(s)
      PROVE  TypeOK' /\ QueueCounted'
  <2>1. 0 \in Cores /\ s \in States
    BY CpuAssumption DEF Cores, States
  <2>2. Append(toCPU[0], ChangeState(s)) \in Seq(Messages)
    BY <2>1, SendState DEF TypeOK
  <2> QED BY <1>2, <2>1, <2>2 DEF ProcessChangeState, schedVars, osVars, TypeOK
<1>3. ASSUME NEW l \in Cores, ProcessResponse(l)
      PROVE  TypeOK' /\ QueueCounted'
  <2> DEFINE c == nextModuleIndex[Head(fromCPU[l])]
  <2>1. /\ fromCPU' \in [Cores -> Seq(Blocks)] /\ answered' \in Seq(Blocks)
        /\ UNCHANGED <<core, submitted>> /\ c \in Cores /\ (GiveNextBlock(c) \/ GoIdle(c))
    <3>1. /\ Head(fromCPU[l]) \in Blocks /\ Tail(fromCPU[l]) \in Seq(Blocks)
          /\ fromCPU' = [fromCPU EXCEPT ![l] = Tail(@)]
          /\ answered' = Append(answered, Head(fromCPU[l]))
          /\ UNCHANGED <<core, submitted>> /\ c \in Cores /\ (GiveNextBlock(c) \/ GoIdle(c))
      BY <1>3, ResponseType
    <3> QED BY <3>1 DEF TypeOK
  <2> HIDE DEF c
  <2>2. CASE GiveNextBlock(c)
    BY <2>1, <2>2, GiveNextBlockType DEF TypeOK
  <2>3. CASE GoIdle(c)
    BY <2>1, <2>3, GoIdleType DEF TypeOK
  <2> QED BY <2>1, <2>2, <2>3
<1>4. ASSUME NEW c \in Cores, Taken(c)
      PROVE  TypeOK' /\ QueueCounted'
  <2>1. toCPU[c] \in Seq(Messages) /\ toCPU[c] # <<>>
    BY <1>4 DEF TypeOK, Taken, BlockArrives, CoreTakeState
  <2>2. Head(toCPU[c]) \in Messages /\ Tail(toCPU[c]) \in Seq(Messages)
    BY <2>1, TakeFirst
  <2>3. Head(toCPU[c]).op = "SM_CPU_EXEC" => Head(toCPU[c]).blk \in Blocks
    BY <2>2 DEF Messages, Exec, ChangeState
  <2> QED BY <1>4, <2>2, <2>3
        DEF Taken, BlockArrives, StartBlock, CoreTakeState, schedVars, osVars, TypeOK
<1>5. ASSUME NEW c \in Cores, CoreFinish(c)
      PROVE  TypeOK' /\ QueueCounted'
  BY <1>5 DEF CoreFinish, schedVars, osVars, TypeOK
<1>6. CASE Stop
  BY <1>6 DEF Stop, schedVars, coreVars, osVars, TypeOK
<1>7. CASE UNCHANGED vars
  BY <1>7 DEF vars, schedVars, coreVars, osVars, TypeOK
<1> QED BY <1>1, <1>2, <1>3, <1>4, <1>5, <1>6, <1>7, TakeOrStop DEF Next, CoreContinue

\* Every message, queue, flag and index of the scheduler stays in its type;
\* that no DECREMENT_SPEED message exists is part of it.
THEOREM TypeCorrect == Spec => []TypeOK
<1>1. Spec => [](TypeOK /\ QueueCounted)
  BY InitType, NextType, PTL DEF Spec
<1> QED BY <1>1, PTL

-----------------------------------------------------------------------------
(* The inductive invariant. *)

LEMMA InitInv == Init => IInv
<1> SUFFICES ASSUME Init PROVE IInv
  OBVIOUS
<1>1. TypeOK /\ QueueCounted
  BY InitType
<1>2. DOMAIN <<>> = {} /\ Len(<<>>) = 0
  OBVIOUS
<1>3. FlagsTruthful
  BY <1>2 DEF Init, FlagsTruthful, FlagTruthful, Vacant, NoExec
<1>4. IndexCarried
  BY <1>2 DEF Init, IndexCarried, Carries
<1>5. NotYetPlaced
  BY <1>2 DEF Init, NotYetPlaced
<1>6. WorkConserving /\ FirstInFirstOut
  BY <1>2 DEF Init, WorkConserving, FirstInFirstOut
<1>7. StopExplained
  BY DEF Init, StopExplained, OnlyOffCoreStops
<1> QED BY <1>1, <1>3, <1>4, <1>5, <1>6, <1>7 DEF IInv, QueueDiscipline

\* A core that a step does not touch keeps its part of the invariant, as long
\* as the step gives no new index to a block that already carries one.
LEMMA OtherCore ==
  ASSUME TypeOK, NEW d \in Cores, FlagTruthful(d), Carries(d),
         toCPU'[d] = toCPU[d], core'[d] = core[d], fromCPU'[d] = fromCPU[d],
         isCPU_Idle'[d] = isCPU_Idle[d],
         \A b \in Blocks : nextModuleIndex[b] # NOT_FOUND =>
                             nextModuleIndex'[b] = nextModuleIndex[b]
  PROVE  FlagTruthful(d)' /\ Carries(d)'
<1>1. FlagTruthful(d)'
  BY DEF FlagTruthful, Vacant, Arriving, Computing, Returning
<1>2. d # NOT_FOUND
  BY CpuAssumption DEF Cores, NOT_FOUND
<1>3. ASSUME NEW i \in DOMAIN toCPU[d], toCPU[d][i].op = "SM_CPU_EXEC"
      PROVE  nextModuleIndex'[toCPU[d][i].blk] = d
  <2>1. toCPU[d][i] \in Messages
    BY <1>3 DEF TypeOK
  <2>2. toCPU[d][i].blk \in Blocks
    BY <1>3, <2>1 DEF Messages, Exec, ChangeState
  <2> QED BY <1>2, <1>3, <2>2 DEF Carries
<1>4. core[d] # NoBlock => nextModuleIndex'[core[d]] = d
  BY <1>2 DEF Carries, TypeOK
<1>5. ASSUME NEW i \in DOMAIN fromCPU[d]
      PROVE  nextModuleIndex'[fromCPU[d][i]] = d
  <2>1. fromCPU[d][i] \in Blocks
    BY <1>5 DEF TypeOK
  <2> QED BY <1>2, <1>5, <2>1 DEF Carries
<1>6. Carries(d)'
  BY <1>3, <1>4, <1>5 DEF Carries
<1> QED BY <1>1, <1>6

\* What Append adds to the submitted blocks.
LEMMA SubmitElems ==
  ASSUME TypeOK, NEW b \in Blocks, submitted' = Append(submitted, b)
  PROVE  /\ Elems(submitted') = Elems(submitted) \cup {b}
         /\ Len(submitted') = Len(submitted) + 1 /\ Len(submitted) \in Nat
         /\ \A i \in 1 .. Len(submitted) : submitted'[i] = submitted[i]
         /\ submitted'[Len(submitted) + 1] = b
<1>1. submitted \in Seq(Blocks)
  BY DEF TypeOK
<1>2. /\ Len(submitted') = Len(submitted) + 1 /\ Len(submitted) \in Nat
      /\ DOMAIN submitted = 1 .. Len(submitted) /\ DOMAIN submitted' = 1 .. Len(submitted')
      /\ \A i \in 1 .. Len(submitted) : submitted'[i] = submitted[i]
      /\ submitted'[Len(submitted) + 1] = b
  BY <1>1, AppendProperties
<1>3. Elems(submitted') = Elems(submitted) \cup {b}
  BY <1>2 DEF Elems
<1> QED BY <1>2, <1>3

LEMMA DispatchInv ==
  ASSUME IInv, NEW b \in Blocks, NEW c \in Cores, ProcessRequest(b), Dispatch(b, c)
  PROVE  FlagsTruthful' /\ IndexCarried' /\ NotYetPlaced' /\ QueueDiscipline'
<1>1. /\ b \notin Elems(submitted) /\ submitted' = Append(submitted, b)
      /\ isCPU_Idle[c]
      /\ nextModuleIndex' = [nextModuleIndex EXCEPT ![b] = c]
      /\ isCPU_Idle' = [isCPU_Idle EXCEPT ![c] = FALSE]
      /\ toCPU' = [toCPU EXCEPT ![c] = Append(@, Exec(b))]
      /\ UNCHANGED <<requestsQueue, queueSize, core, fromCPU, answered>>
  BY DEF ProcessRequest, Dispatch, FirstIdle
<1>2. TypeOK /\ FlagsTruthful /\ IndexCarried /\ NotYetPlaced /\ QueueDiscipline
  BY DEF IInv
<1>3. nextModuleIndex[b] = NOT_FOUND
  BY <1>1, <1>2 DEF NotYetPlaced
<1>4. requestsQueue = <<>>
  BY <1>1, <1>2 DEF QueueDiscipline, WorkConserving
<1>5. ASSUME NEW d \in Cores, d # c
      PROVE  FlagTruthful(d)' /\ Carries(d)'
  <2>1. /\ toCPU'[d] = toCPU[d] /\ core'[d] = core[d] /\ fromCPU'[d] = fromCPU[d]
        /\ isCPU_Idle'[d] = isCPU_Idle[d]
    BY <1>1, <1>2, <1>5 DEF TypeOK
  <2>2. \A a \in Blocks : nextModuleIndex[a] # NOT_FOUND =>
                           nextModuleIndex'[a] = nextModuleIndex[a]
    BY <1>1, <1>2, <1>3 DEF TypeOK
  <2>3. FlagTruthful(d) /\ Carries(d)
    BY <1>2 DEF FlagsTruthful, IndexCarried
  <2> QED BY <1>2, <2>1, <2>2, <2>3, OtherCore
<1>6. FlagTruthful(c)' /\ Carries(c)'
  <2>1. toCPU[c] \in Seq(Messages) /\ Vacant(c)
    BY <1>1, <1>2 DEF TypeOK, FlagsTruthful, FlagTruthful
  <2>2. toCPU'[c] = Append(toCPU[c], Exec(b)) /\ ~isCPU_Idle'[c]
    BY <1>1, <1>2 DEF TypeOK
  <2>3. Arriving(c)'
    BY <1>1, <2>1, <2>2, SendExec DEF Vacant, Arriving
  <2>4. /\ Len(toCPU'[c]) = Len(toCPU[c]) + 1 /\ DOMAIN toCPU'[c] = 1 .. Len(toCPU'[c])
        /\ \A i \in 1 .. Len(toCPU[c]) : toCPU'[c][i] = toCPU[c][i]
        /\ toCPU'[c][Len(toCPU'[c])] = Exec(b)
        /\ Len(toCPU[c]) \in Nat /\ DOMAIN toCPU[c] = 1 .. Len(toCPU[c])
    <3>1. Exec(b) \in Messages
      BY DEF Messages
    <3> QED BY <2>1, <2>2, <3>1, AppendProperties
  <2>5. \A i \in DOMAIN toCPU'[c] : toCPU'[c][i].op = "SM_CPU_EXEC" => i = Len(toCPU'[c])
    BY <2>1, <2>4 DEF Vacant, NoExec
  <2>6. nextModuleIndex'[Exec(b).blk] = c
    BY <1>1, <1>2 DEF Exec, TypeOK
  <2>7. Carries(c)'
    BY <1>1, <2>1, <2>4, <2>5, <2>6 DEF Vacant, Carries
  <2> QED BY <2>2, <2>3, <2>7 DEF FlagTruthful
<1>7. FlagsTruthful' /\ IndexCarried'
  BY <1>5, <1>6 DEF FlagsTruthful, IndexCarried
<1>8. NotYetPlaced'
  BY <1>1, <1>2, <1>4, SubmitElems DEF NotYetPlaced, TypeOK
<1>9. QueueDiscipline'
  BY <1>1, <1>2, <1>4, SubmitElems
     DEF QueueDiscipline, WorkConserving, QueueCounted, FirstInFirstOut
<1> QED BY <1>7, <1>8, <1>9

LEMMA EnqueueInv ==
  ASSUME IInv, NEW b \in Blocks, ProcessRequest(b), Enqueue(b)
  PROVE  FlagsTruthful' /\ IndexCarried' /\ NotYetPlaced' /\ QueueDiscipline'
<1>1. /\ b \notin Elems(submitted) /\ submitted' = Append(submitted, b)
      /\ \A c \in Cores : ~isCPU_Idle[c]
      /\ requestsQueue' = Append(requestsQueue, b)
      /\ queueSize' = queueSize + 1
      /\ UNCHANGED <<nextModuleIndex, isCPU_Idle, toCPU, core, fromCPU, answered>>
  BY DEF ProcessRequest, Enqueue
<1>2. TypeOK /\ FlagsTruthful /\ IndexCarried /\ NotYetPlaced /\ QueueDiscipline
  BY DEF IInv
<1>3. FlagsTruthful' /\ IndexCarried'
  BY <1>1, <1>2 DEF FlagsTruthful, FlagTruthful, Vacant, Arriving, Computing, Returning,
                    IndexCarried, Carries
<1>4. /\ Len(requestsQueue') = Len(requestsQueue) + 1 /\ Len(requestsQueue) \in Nat
      /\ DOMAIN requestsQueue = 1 .. Len(requestsQueue)
      /\ DOMAIN requestsQueue' = 1 .. Len(requestsQueue')
      /\ \A i \in 1 .. Len(requestsQueue) : requestsQueue'[i] = requestsQueue[i]
      /\ requestsQueue'[Len(requestsQueue) + 1] = b
  BY <1>1, <1>2, AppendProperties DEF TypeOK
<1>5. /\ Elems(submitted') = Elems(submitted) \cup {b}
      /\ Len(submitted') = Len(submitted) + 1 /\ Len(submitted) \in Nat
      /\ \A i \in 1 .. Len(submitted) : submitted'[i] = submitted[i]
      /\ submitted'[Len(submitted) + 1] = b
  BY <1>1, <1>2, SubmitElems
<1>6. \A i \in DOMAIN requestsQueue : requestsQueue[i] # b
  BY <1>1, <1>2 DEF NotYetPlaced
<1>7. NotYetPlaced'
  BY <1>1, <1>2, <1>4, <1>5, <1>6 DEF NotYetPlaced
<1>8. FirstInFirstOut'
  <2>1. Len(requestsQueue) <= Len(submitted)
    BY <1>2 DEF QueueDiscipline, FirstInFirstOut
  <2>2. ASSUME NEW i \in 1 .. Len(requestsQueue)
        PROVE  requestsQueue'[i] = submitted'[Len(submitted) - Len(requestsQueue) + i]
    <3>1. requestsQueue[i] = submitted[Len(submitted) - Len(requestsQueue) + i]
      BY <1>2, <1>4 DEF QueueDiscipline, FirstInFirstOut
    <3>2. Len(submitted) - Len(requestsQueue) + i \in 1 .. Len(submitted)
      BY <1>4, <1>5, <2>1
    <3> QED BY <1>4, <1>5, <3>1, <3>2
  <2>3. Len(submitted') - Len(requestsQueue') = Len(submitted) - Len(requestsQueue)
    BY <1>4, <1>5
  <2>4. Len(submitted) - Len(requestsQueue) + (Len(requestsQueue) + 1) = Len(submitted) + 1
    BY <1>4, <1>5
  <2>5. ASSUME NEW i \in 1 .. Len(requestsQueue) + 1
        PROVE  requestsQueue'[i] = submitted'[Len(submitted) - Len(requestsQueue) + i]
    <3>1. CASE i \in 1 .. Len(requestsQueue)
      BY <3>1, <2>2
    <3>2. CASE i = Len(requestsQueue) + 1
      BY <3>2, <1>4, <1>5, <2>4
    <3> QED BY <1>4, <3>1, <3>2
  <2> QED BY <1>4, <1>5, <2>1, <2>3, <2>5 DEF FirstInFirstOut
<1>9. WorkConserving' /\ QueueCounted'
  BY <1>1, <1>2, <1>4 DEF QueueDiscipline, WorkConserving, QueueCounted
<1> QED BY <1>3, <1>7, <1>8, <1>9 DEF QueueDiscipline

\* The queue, the index and the history are those of before: what is left of
\* the invariant depends on the core that the step touches only.
LEMMA OneCoreStep ==
  ASSUME IInv, NEW c \in Cores,
         UNCHANGED <<isCPU_Idle, requestsQueue, queueSize, nextModuleIndex, submitted>>,
         \A d \in Cores \ {c} : /\ toCPU'[d] = toCPU[d] /\ core'[d] = core[d]
                                /\ fromCPU'[d] = fromCPU[d],
         FlagTruthful(c)', Carries(c)'
  PROVE  FlagsTruthful' /\ IndexCarried' /\ NotYetPlaced' /\ QueueDiscipline'
<1>1. ASSUME NEW d \in Cores, d # c
      PROVE  FlagTruthful(d)' /\ Carries(d)'
  <2>1. TypeOK /\ FlagTruthful(d) /\ Carries(d)
    BY DEF IInv, FlagsTruthful, IndexCarried
  <2> QED BY <1>1, <2>1, OtherCore
<1>2. FlagsTruthful' /\ IndexCarried'
  BY <1>1 DEF FlagsTruthful, IndexCarried
<1>3. NotYetPlaced' /\ QueueDiscipline'
  BY DEF IInv, NotYetPlaced, QueueDiscipline, WorkConserving, QueueCounted, FirstInFirstOut
<1> QED BY <1>2, <1>3

LEMMA ChangeStateInv ==
  ASSUME IInv, NEW s \in OsStates, ProcessChangeState(s)
  PROVE  FlagsTruthful' /\ IndexCarried' /\ NotYetPlaced' /\ QueueDiscipline'
<1> DEFINE m == ChangeState(s)
<1>1. /\ 0 \in Cores /\ s \in States
      /\ toCPU' = [toCPU EXCEPT ![0] = Append(@, m)]
      /\ UNCHANGED <<isCPU_Idle, requestsQueue, queueSize, nextModuleIndex, core, fromCPU,
                     submitted, answered>>
  BY CpuAssumption DEF Cores, States, ProcessChangeState, schedVars, osVars
<1>2. TypeOK /\ FlagTruthful(0) /\ Carries(0) /\ toCPU[0] \in Seq(Messages)
  BY <1>1 DEF IInv, FlagsTruthful, IndexCarried, TypeOK
<1>3. toCPU'[0] = Append(toCPU[0], m) /\ \A d \in Cores \ {0} : toCPU'[d] = toCPU[d]
  BY <1>1, <1>2 DEF TypeOK
<1>4. FlagTruthful(0)'
  BY <1>1, <1>2, <1>3, SendState DEF FlagTruthful, Vacant, Arriving, Computing, Returning
<1>5. Carries(0)'
  <2>1. m \in Messages /\ m.op # "SM_CPU_EXEC"
    BY <1>1 DEF ChangeState, Messages
  <2> HIDE DEF m
  <2>2. /\ DOMAIN toCPU'[0] = 1 .. Len(toCPU[0]) + 1 /\ Len(toCPU[0]) \in Nat
        /\ \A i \in 1 .. Len(toCPU[0]) : toCPU'[0][i] = toCPU[0][i]
        /\ toCPU'[0][Len(toCPU[0]) + 1] = m
        /\ DOMAIN toCPU[0] = 1 .. Len(toCPU[0])
    BY <1>2, <1>3, <2>1, AppendProperties
  <2> QED BY <1>1, <1>2, <2>1, <2>2 DEF Carries
<1> QED BY <1>1, <1>3, <1>4, <1>5, OneCoreStep

LEMMA CoreTakeInv ==
  ASSUME IInv, NEW c \in Cores, Taken(c)
  PROVE  FlagsTruthful' /\ IndexCarried' /\ NotYetPlaced' /\ QueueDiscipline'
<1>1. /\ TypeOK /\ FlagTruthful(c) /\ Carries(c)
      /\ toCPU[c] \in Seq(Messages) /\ toCPU[c] # <<>>
  BY DEF IInv, FlagsTruthful, IndexCarried, TypeOK, Taken, BlockArrives, CoreTakeState
<1>2. /\ Head(toCPU[c]) \in Messages /\ Head(toCPU[c]) = toCPU[c][1]
      /\ Len(toCPU[c]) \in Nat \ {0} /\ DOMAIN toCPU[c] = 1 .. Len(toCPU[c])
      /\ DOMAIN Tail(toCPU[c]) = 1 .. Len(toCPU[c]) - 1
      /\ \A i \in 1 .. Len(toCPU[c]) - 1 : Tail(toCPU[c])[i] = toCPU[c][i + 1]
  BY <1>1, HeadTailProperties
<1>3. /\ toCPU'[c] = Tail(toCPU[c]) /\ fromCPU' = fromCPU
      /\ \A d \in Cores \ {c} : toCPU'[d] = toCPU[d] /\ core'[d] = core[d]
      /\ UNCHANGED <<isCPU_Idle, requestsQueue, queueSize, nextModuleIndex, submitted>>
  BY <1>1 DEF Taken, StartBlock, CoreTakeState, schedVars, osVars, TypeOK
<1>4. \A i \in DOMAIN toCPU'[c] : i + 1 \in DOMAIN toCPU[c] /\ toCPU'[c][i] = toCPU[c][i + 1]
  BY <1>2, <1>3
<1>5. CASE BlockArrives(c) /\ StartBlock(c)
  <2>1. /\ Head(toCPU[c]).op = "SM_CPU_EXEC" /\ core[c] = NoBlock
        /\ core'[c] = Head(toCPU[c]).blk
    BY <1>1, <1>5 DEF BlockArrives, StartBlock, TypeOK
  <2>2. core'[c] \in Blocks /\ core'[c] # NoBlock
    BY <1>2, <2>1, CpuAssumption DEF Messages, Exec, ChangeState
  <2>3. ~NoExec(toCPU[c])
    BY <1>1, <2>1, TakeFirst
  <2>4. ~isCPU_Idle[c] /\ OneExec(toCPU[c]) /\ fromCPU[c] = <<>>
    BY <1>1, <2>3 DEF FlagTruthful, Vacant, Arriving, Computing, Returning
  <2>5. NoExec(toCPU'[c])
    BY <1>1, <1>3, <2>1, <2>4, TakeFirst
  <2>6. FlagTruthful(c)'
    BY <1>3, <2>2, <2>4, <2>5 DEF FlagTruthful, Computing
  <2>7. nextModuleIndex'[core'[c]] = c
    BY <1>1, <1>2, <1>3, <2>1 DEF Carries
  <2>8. Carries(c)'
    BY <1>1, <1>3, <1>4, <2>7 DEF Carries
  <2> QED BY <1>3, <2>6, <2>8, OneCoreStep
<1>6. CASE CoreTakeState(c)
  <2>1. Head(toCPU[c]).op # "SM_CPU_EXEC" /\ core' = core
    BY <1>6 DEF CoreTakeState
  <2>2. /\ NoExec(toCPU[c]) => NoExec(toCPU'[c])
        /\ OneExec(toCPU[c]) => OneExec(toCPU'[c])
    BY <1>1, <1>3, <2>1, TakeFirst
  <2>3. FlagTruthful(c)'
    BY <1>1, <1>3, <2>1, <2>2 DEF FlagTruthful, Vacant, Arriving, Computing, Returning
  <2>4. Carries(c)'
    BY <1>1, <1>3, <1>4, <2>1 DEF Carries
  <2> QED BY <1>3, <2>1, <2>3, <2>4, OneCoreStep
<1> QED BY <1>5, <1>6 DEF Taken

LEMMA CoreFinishInv ==
  ASSUME IInv, NEW c \in Cores, CoreFinish(c)
  PROVE  FlagsTruthful' /\ IndexCarried' /\ NotYetPlaced' /\ QueueDiscipline'
<1>1. TypeOK /\ FlagTruthful(c) /\ Carries(c)
  BY DEF IInv, FlagsTruthful, IndexCarried
<1>2. /\ core[c] # NoBlock /\ core'[c] = NoBlock
      /\ fromCPU'[c] = Append(fromCPU[c], core[c]) /\ toCPU' = toCPU
      /\ \A d \in Cores \ {c} : core'[d] = core[d] /\ fromCPU'[d] = fromCPU[d]
      /\ UNCHANGED <<isCPU_Idle, requestsQueue, queueSize, nextModuleIndex, submitted>>
  BY <1>1 DEF CoreFinish, schedVars, osVars, TypeOK
<1>3. ~isCPU_Idle[c] /\ NoExec(toCPU[c]) /\ fromCPU[c] = <<>>
  BY <1>1, <1>2 DEF FlagTruthful, Vacant, Arriving, Computing, Returning
<1>4. /\ Len(fromCPU'[c]) = 1 /\ DOMAIN fromCPU'[c] = {1} /\ fromCPU'[c][1] = core[c]
  BY <1>2, <1>3
<1>5. FlagTruthful(c)'
  BY <1>2, <1>3, <1>4 DEF FlagTruthful, Returning
<1>6. Carries(c)'
  BY <1>1, <1>2, <1>4 DEF Carries
<1> QED BY <1>2, <1>5, <1>6, OneCoreStep

\* A response on link l frees core l: its block is the only one there.
LEMMA ResponseFrees ==
  ASSUME IInv, NEW l \in Cores, ProcessResponse(l)
  PROVE  /\ Returning(l) /\ ~isCPU_Idle[l]
         /\ fromCPU'[l] = <<>> /\ core' = core /\ submitted' = submitted
         /\ \A d \in Cores \ {l} : fromCPU'[d] = fromCPU[d]
         /\ GiveNextBlock(l) \/ GoIdle(l)
<1>1. TypeOK /\ FlagTruthful(l) /\ Carries(l)
  BY DEF IInv, FlagsTruthful, IndexCarried
<1>2. /\ fromCPU' = [fromCPU EXCEPT ![l] = Tail(@)] /\ UNCHANGED <<core, submitted>>
      /\ Head(fromCPU[l]) = fromCPU[l][1]
      /\ Len(fromCPU[l]) \in Nat \ {0} /\ Len(Tail(fromCPU[l])) = Len(fromCPU[l]) - 1
      /\ Tail(fromCPU[l]) \in Seq(Blocks)
      /\ \/ GiveNextBlock(nextModuleIndex[Head(fromCPU[l])])
         \/ GoIdle(nextModuleIndex[Head(fromCPU[l])])
  BY <1>1, ResponseType
<1>3. fromCPU[l] \in Seq(Blocks) /\ fromCPU[l] # <<>> /\ DOMAIN fromCPU[l] = 1 .. Len(fromCPU[l])
  BY <1>1, <1>2 DEF TypeOK, ProcessResponse
<1>4. Returning(l) /\ ~isCPU_Idle[l]
  BY <1>1, <1>3 DEF FlagTruthful, Vacant, Arriving, Computing
<1>5. nextModuleIndex[Head(fromCPU[l])] = l
  BY <1>1, <1>2, <1>3 DEF Carries
<1>6. fromCPU'[l] = <<>> /\ \A d \in Cores \ {l} : fromCPU'[d] = fromCPU[d]
  <2>1. Len(Tail(fromCPU[l])) = 0
    BY <1>2, <1>4 DEF Returning
  <2>2. Tail(fromCPU[l]) = <<>>
    BY <1>2, <2>1, EmptySeq
  <2> QED BY <1>1, <1>2, <2>2 DEF TypeOK
<1> QED BY <1>2, <1>4, <1>5, <1>6

LEMMA GiveNextBlockInv ==
  ASSUME IInv, NEW l \in Cores, ProcessResponse(l), GiveNextBlock(l)
  PROVE  FlagsTruthful' /\ IndexCarried' /\ NotYetPlaced' /\ QueueDiscipline'
<1> DEFINE next == Head(requestsQueue)
           s1 == Append(toCPU[l], SpeedMessage)
           s2 == Append(s1, Exec(next))
<1>1. /\ requestsQueue # <<>>
      /\ toCPU' = [toCPU EXCEPT ![l] = s2]
      /\ requestsQueue' = Tail(requestsQueue)
      /\ queueSize' = queueSize - 1
      /\ nextModuleIndex' = [nextModuleIndex EXCEPT ![next] = l]
      /\ isCPU_Idle' = [isCPU_Idle EXCEPT ![l] = FALSE]
  BY DEF GiveNextBlock, IInv, TypeOK
<1>2. /\ TypeOK /\ FlagsTruthful /\ IndexCarried /\ NotYetPlaced
      /\ WorkConserving /\ QueueCounted /\ FirstInFirstOut
  BY DEF IInv, QueueDiscipline
<1>3. /\ Returning(l) /\ fromCPU'[l] = <<>> /\ core' = core /\ submitted' = submitted
      /\ \A d \in Cores \ {l} : fromCPU'[d] = fromCPU[d]
  BY ResponseFrees
<1>4. /\ next = requestsQueue[1] /\ next \in Blocks
      /\ Tail(requestsQueue) \in Seq(Blocks)
      /\ Len(requestsQueue) \in Nat \ {0}
      /\ Len(Tail(requestsQueue)) = Len(requestsQueue) - 1
      /\ \A i \in 1 .. Len(requestsQueue) - 1 : Tail(requestsQueue)[i] = requestsQueue[i + 1]
  BY <1>1, <1>2, NextInQueue
<1>5. /\ DOMAIN requestsQueue = 1 .. Len(requestsQueue)
      /\ DOMAIN requestsQueue' = 1 .. Len(requestsQueue) - 1
      /\ Len(requestsQueue') = Len(requestsQueue) - 1
      /\ \A i \in DOMAIN requestsQueue' : /\ requestsQueue'[i] = requestsQueue[i + 1]
                                          /\ i + 1 \in DOMAIN requestsQueue
  BY <1>1, <1>2, <1>4 DEF TypeOK
<1>6. nextModuleIndex[next] = NOT_FOUND /\ next \in Elems(submitted)
  BY <1>2, <1>4, <1>5 DEF NotYetPlaced
<1>7. ASSUME NEW d \in Cores, d # l
      PROVE  FlagTruthful(d)' /\ Carries(d)'
  <2>1. toCPU'[d] = toCPU[d] /\ core'[d] = core[d] /\ isCPU_Idle'[d] = isCPU_Idle[d]
    BY <1>1, <1>2, <1>3, <1>7 DEF TypeOK
  <2>2. \A a \in Blocks : nextModuleIndex[a] # NOT_FOUND =>
                           nextModuleIndex'[a] = nextModuleIndex[a]
    BY <1>1, <1>2, <1>6 DEF TypeOK
  <2>3. FlagTruthful(d) /\ Carries(d)
    BY <1>2 DEF FlagsTruthful, IndexCarried
  <2> QED BY <1>2, <1>3, <1>7, <2>1, <2>2, <2>3, OtherCore
<1>8. FlagTruthful(l)' /\ Carries(l)'
  <2>1. toCPU[l] \in Seq(Messages) /\ NoExec(toCPU[l]) /\ core'[l] = NoBlock
    BY <1>2, <1>3 DEF TypeOK, Returning
  <2>2. s1 \in Seq(Messages) /\ NoExec(s1)
    BY <1>2, <2>1, SpeedIsIncrement, SendState
  <2>3. toCPU'[l] = s2 /\ ~isCPU_Idle'[l]
    BY <1>1, <1>2 DEF TypeOK
  <2> HIDE DEF s1
  <2>4. OneExec(s2)
    BY <1>4, <2>2, SendExec
  <2>5. Arriving(l)' /\ FlagTruthful(l)'
    BY <1>3, <2>1, <2>3, <2>4 DEF Arriving, FlagTruthful
  <2>6. /\ DOMAIN s2 = 1 .. Len(s1) + 1 /\ s2[Len(s1) + 1] = Exec(next)
        /\ Len(s1) \in Nat /\ DOMAIN s1 = 1 .. Len(s1)
        /\ \A i \in 1 .. Len(s1) : s2[i] = s1[i]
    <3>1. Exec(next) \in Messages
      BY <1>4 DEF Messages
    <3> QED BY <2>2, <3>1, AppendProperties
  <2>7. \A i \in DOMAIN s2 : s2[i].op = "SM_CPU_EXEC" => s2[i] = Exec(next)
    BY <2>2, <2>6 DEF NoExec
  <2>8. nextModuleIndex'[next] = l /\ Exec(next).blk = next
    BY <1>1, <1>2, <1>4 DEF TypeOK, Exec
  <2> HIDE DEF s2, next
  <2>9. Carries(l)'
    BY <1>3, <2>1, <2>3, <2>7, <2>8 DEF Carries
  <2> QED BY <2>5, <2>9
<1> HIDE DEF next, s1, s2
<1>9. FlagsTruthful' /\ IndexCarried'
  BY <1>7, <1>8 DEF FlagsTruthful, IndexCarried
<1>10. NotYetPlaced'
  <2>1. ASSUME NEW b \in Blocks, b \notin Elems(submitted)
        PROVE  nextModuleIndex'[b] = NOT_FOUND
    BY <1>1, <1>2, <1>6, <2>1 DEF NotYetPlaced, TypeOK
  <2>2. ASSUME NEW i \in DOMAIN requestsQueue'
        PROVE  /\ requestsQueue'[i] \in Elems(submitted)
               /\ nextModuleIndex'[requestsQueue'[i]] = NOT_FOUND
               /\ \A j \in DOMAIN requestsQueue' :
                    requestsQueue'[i] = requestsQueue'[j] => i = j
    <3>1. /\ requestsQueue'[i] = requestsQueue[i + 1] /\ i + 1 \in DOMAIN requestsQueue
          /\ i + 1 # 1 /\ 1 \in DOMAIN requestsQueue
      BY <1>4, <1>5
    <3>2. requestsQueue[i + 1] # next /\ requestsQueue[i + 1] \in Blocks
      <4>1. requestsQueue[i + 1] # requestsQueue[1]
        BY <1>2, <3>1 DEF NotYetPlaced
      <4>2. requestsQueue[i + 1] \in Blocks
        BY <1>2, <3>1 DEF TypeOK
      <4> QED BY <1>4, <4>1, <4>2
    <3>3. /\ requestsQueue'[i] \in Elems(submitted)
          /\ nextModuleIndex'[requestsQueue'[i]] = NOT_FOUND
      BY <1>1, <1>2, <3>1, <3>2 DEF NotYetPlaced, TypeOK
    <3>4. ASSUME NEW j \in DOMAIN requestsQueue', requestsQueue'[i] = requestsQueue'[j]
          PROVE  i = j
      <4>1. requestsQueue'[j] = requestsQueue[j + 1] /\ j + 1 \in DOMAIN requestsQueue
        BY <1>5
      <4>2. i + 1 = j + 1
        BY <1>2, <3>1, <3>4, <4>1 DEF NotYetPlaced
      <4> QED BY <1>4, <1>5, <4>2
    <3> QED BY <3>3, <3>4
  <2> QED BY <1>3, <2>1, <2>2 DEF NotYetPlaced
<1>11. WorkConserving'
  <2>1. \A c \in Cores : ~isCPU_Idle'[c]
    BY <1>1, <1>2 DEF WorkConserving, TypeOK
  <2> QED BY <2>1 DEF WorkConserving
<1>12. QueueCounted'
  BY <1>1, <1>2, <1>4, <1>5 DEF QueueCounted
<1>13. FirstInFirstOut'
  <2>1. Len(submitted) \in Nat
    BY <1>2 DEF TypeOK
  <2>2. ASSUME NEW i \in DOMAIN requestsQueue'
        PROVE  requestsQueue'[i] = submitted[Len(submitted) - Len(requestsQueue') + i]
    <3>1. requestsQueue'[i] = submitted[Len(submitted) - Len(requestsQueue) + (i + 1)]
      BY <1>2, <1>5 DEF FirstInFirstOut
    <3>2. Len(submitted) - Len(requestsQueue) + (i + 1)
          = Len(submitted) - Len(requestsQueue') + i
      BY <1>4, <1>5, <2>1
    <3> QED BY <3>1, <3>2
  <2> QED BY <1>2, <1>3, <1>4, <1>5, <2>1, <2>2 DEF FirstInFirstOut
<1> QED BY <1>9, <1>10, <1>11, <1>12, <1>13 DEF QueueDiscipline

LEMMA GoIdleInv ==
  ASSUME IInv, NEW l \in Cores, ProcessResponse(l), GoIdle(l)
  PROVE  FlagsTruthful' /\ IndexCarried' /\ NotYetPlaced' /\ QueueDiscipline'
<1> DEFINE m == ChangeState("MACHINE_STATE_IDLE")
<1>1. /\ requestsQueue = <<>>
      /\ isCPU_Idle' = [isCPU_Idle EXCEPT ![l] = TRUE]
      /\ toCPU' = [toCPU EXCEPT ![l] = Append(@, m)]
      /\ UNCHANGED <<requestsQueue, queueSize, nextModuleIndex>>
  BY DEF GoIdle
<1>2. TypeOK /\ FlagsTruthful /\ IndexCarried /\ NotYetPlaced /\ QueueDiscipline
  BY DEF IInv
<1>3. /\ Returning(l) /\ fromCPU'[l] = <<>> /\ core' = core /\ submitted' = submitted
      /\ \A d \in Cores \ {l} : fromCPU'[d] = fromCPU[d]
  BY ResponseFrees
<1>4. ASSUME NEW d \in Cores, d # l
      PROVE  FlagTruthful(d)' /\ Carries(d)'
  <2>1. toCPU'[d] = toCPU[d] /\ core'[d] = core[d] /\ isCPU_Idle'[d] = isCPU_Idle[d]
    BY <1>1, <1>2, <1>3, <1>4 DEF TypeOK
  <2>2. FlagTruthful(d) /\ Carries(d)
    BY <1>2 DEF FlagsTruthful, IndexCarried
  <2> QED BY <1>1, <1>2, <1>3, <1>4, <2>1, <2>2, OtherCore
<1>5. FlagTruthful(l)' /\ Carries(l)'
  <2>1. toCPU[l] \in Seq(Messages) /\ NoExec(toCPU[l]) /\ core'[l] = NoBlock
    BY <1>2, <1>3 DEF TypeOK, Returning
  <2>2. NoExec(Append(toCPU[l], m))
    BY <1>2, <2>1, SpeedIsIncrement, SendState DEF QueueDiscipline
  <2>3. toCPU'[l] = Append(toCPU[l], m) /\ isCPU_Idle'[l]
    BY <1>1, <1>2 DEF TypeOK
  <2> HIDE DEF m
  <2>4. FlagTruthful(l)'
    BY <1>3, <2>1, <2>2, <2>3 DEF FlagTruthful, Vacant
  <2>5. Carries(l)'
    BY <1>3, <2>1, <2>2, <2>3 DEF Carries, NoExec
  <2> QED BY <2>4, <2>5
<1>6. FlagsTruthful' /\ IndexCarried'
  BY <1>4, <1>5 DEF FlagsTruthful, IndexCarried
<1>7. NotYetPlaced' /\ QueueDiscipline'
  BY <1>1, <1>2, <1>3
     DEF NotYetPlaced, QueueDiscipline, WorkConserving, QueueCounted, FirstInFirstOut
<1> QED BY <1>6, <1>7

\* A step that changes at most failed keeps all of it.
LEMMA FrozenInv ==
  ASSUME IInv, UNCHANGED <<schedVars, coreVars, osVars>>
  PROVE  FlagsTruthful' /\ IndexCarried' /\ NotYetPlaced' /\ QueueDiscipline'
<1>1. FlagsTruthful' /\ IndexCarried'
  BY DEF IInv, schedVars, coreVars, FlagsTruthful, FlagTruthful, Vacant,
         Arriving, Computing, Returning, IndexCarried, Carries
<1>2. NotYetPlaced' /\ QueueDiscipline'
  BY DEF IInv, schedVars, osVars, NotYetPlaced, QueueDiscipline,
         WorkConserving, QueueCounted, FirstInFirstOut
<1> QED BY <1>1, <1>2

\* Why the simulation stops: the core that throws is off, not busy with another
\* block, and a core that is off is not one of a guest.
LEMMA StopInv ==
  ASSUME IInv, [Next]_vars
  PROVE  StopExplained'
<1>1. TypeOK /\ FlagsTruthful /\ StopExplained
  BY DEF IInv
<1>2. CASE UNCHANGED vars
  BY <1>1, <1>2 DEF vars, coreVars, hostVars, StopExplained, OnlyOffCoreStops, BlockArrives
<1>3. ASSUME ~failed, UNCHANGED <<off, hostVars>>
      PROVE  StopExplained'
  BY <1>1, <1>3 DEF hostVars, StopExplained, OnlyOffCoreStops
<1>4. ASSUME Stop, NEW c \in Cores, off[c], BlockArrives(c) \/ core[c] # NoBlock
      PROVE  StopExplained'
  BY <1>1, <1>4 DEF Stop, coreVars, StopExplained, OnlyOffCoreStops, BlockArrives
<1>5. ASSUME NEW c \in Cores, CoreTake(c)
      PROVE  StopExplained'
  <2>1. CASE CoreTakeState(c)
    <3>1. ~failed /\ ~failed' /\ guest' = guest
      BY <2>1 DEF CoreTakeState, hostVars
    <3>2. guest => \A d \in Cores : ~off'[d]
      BY <1>1, <2>1 DEF CoreTakeState, StopExplained, TypeOK
    <3> QED BY <3>1, <3>2 DEF StopExplained, OnlyOffCoreStops
  <2>2. CASE CoreTakeBlock(c) /\ StartBlock(c)
    BY <1>3, <2>2 DEF CoreTakeBlock, StartBlock
  <2>3. CASE CoreTakeBlock(c) /\ off[c] /\ Stop
    BY <1>4, <2>3 DEF CoreTakeBlock
  <2>4. CASE CoreTakeBlock(c) /\ core[c] # NoBlock
    <3>1. toCPU[c] \in Seq(Messages) /\ toCPU[c] # <<>> /\ Head(toCPU[c]).op = "SM_CPU_EXEC"
      BY <1>1, <2>4 DEF CoreTakeBlock, BlockArrives, TypeOK
    <3>2. ~NoExec(toCPU[c])
      BY <3>1, TakeFirst
    <3> QED BY <1>1, <2>4, <3>2
            DEF FlagsTruthful, FlagTruthful, Vacant, Arriving, Computing, Returning
  <2> QED BY <1>5, <2>1, <2>2, <2>3, <2>4 DEF CoreTake, CoreTakeBlock
<1>6. ASSUME NEW c \in Cores, CoreContinue(c)
      PROVE  StopExplained'
  BY <1>4, <1>6 DEF CoreContinue
<1>7. Next => \/ ~failed /\ UNCHANGED <<off, hostVars>>
              \/ \E c \in Cores : CoreTake(c) \/ CoreContinue(c)
  BY DEF Next, ProcessRequest, ProcessChangeState, ProcessResponse, CoreFinish
<1> QED BY <1>2, <1>3, <1>5, <1>6, <1>7

LEMMA NextInv == IInv /\ [Next]_vars => IInv'
<1> SUFFICES ASSUME IInv, [Next]_vars
             PROVE  FlagsTruthful' /\ IndexCarried' /\ NotYetPlaced' /\ QueueDiscipline'
  BY NextType, StopInv DEF IInv, QueueDiscipline
<1>1. ASSUME NEW b \in Blocks, ProcessRequest(b)
      PROVE  FlagsTruthful' /\ IndexCarried' /\ NotYetPlaced' /\ QueueDiscipline'
  BY <1>1, DispatchInv, EnqueueInv DEF ProcessRequest
<1>2. ASSUME NEW s \in OsStates, ProcessChangeState(s)
      PROVE  FlagsTruthful' /\ IndexCarried' /\ NotYetPlaced' /\ QueueDiscipline'
  BY <1>2, ChangeStateInv
<1>3. ASSUME NEW l \in Cores, ProcessResponse(l)
      PROVE  FlagsTruthful' /\ IndexCarried' /\ NotYetPlaced' /\ QueueDiscipline'
  BY <1>3, ResponseFrees, GiveNextBlockInv, GoIdleInv
<1>4. ASSUME NEW c \in Cores, Taken(c)
      PROVE  FlagsTruthful' /\ IndexCarried' /\ NotYetPlaced' /\ QueueDiscipline'
  BY <1>4, CoreTakeInv
<1>5. ASSUME NEW c \in Cores, CoreFinish(c)
      PROVE  FlagsTruthful' /\ IndexCarried' /\ NotYetPlaced' /\ QueueDiscipline'
  BY <1>5, CoreFinishInv
<1>6. CASE Stop \/ UNCHANGED vars
  BY <1>6, FrozenInv DEF Stop, vars
<1> QED BY <1>1, <1>2, <1>3, <1>4, <1>5, <1>6, TakeOrStop DEF Next, CoreContinue

\* The invariant that carries the others holds in every reachable state.
THEOREM Invariant == Spec => []IInv
  BY InitInv, NextInv, PTL DEF Spec

\* isCPU_Idle[c] is true exactly when no block is anywhere between the scheduler
\* and core c: the scheduler never sends a second block to a busy core, for any
\* number of cores and any interleaving of requests, responses and links.  The
\* simulation is stopped by a core that is off only, and never in a guest.
THEOREM CoresAreExclusive == Spec => []CoreExclusive
<1>1. IInv => CoreExclusive
  BY DEF IInv, StopExplained, CoreExclusive
<1> QED BY <1>1, Invariant, PTL

\* requestsQueue is first in first out, counted by queueSize, and empty while a
\* core is idle.
THEOREM QueueIsFair == Spec => []QueueDiscipline
<1>1. IInv => QueueDiscipline
  BY DEF IInv
<1> QED BY <1>1, Invariant, PTL

-----------------------------------------------------------------------------
(* A node without hypervisor. *)

\* Core c is as it was when the simulation started, but for blocks sent to it.
AsStarted(c) ==
  /\ off[c] /\ core[c] = NoBlock /\ fromCPU[c] = <<>>
  /\ \A i \in DOMAIN toCPU[c] : toCPU[c][i].op = "SM_CPU_EXEC"

OthersAsStarted == ~guest => \A c \in Cores \ {0} : AsStarted(c)

\* Nothing reaches such a core before its first block, and the block stops it.
LEMMA OthersStep ==
  ASSUME IInv, OthersAsStarted, [Next]_vars
  PROVE  OthersAsStarted'
<1> SUFFICES ASSUME ~guest, guest' = guest, NEW c \in Cores \ {0}, AsStarted(c)
             PROVE  AsStarted(c)'
  <2>1. guest' = guest
    BY TakeOrStop DEF vars, hostVars, Next, ProcessRequest, ProcessChangeState,
       ProcessResponse, Taken, StartBlock, CoreTakeState, CoreContinue, CoreFinish, Stop
  <2> QED BY <2>1 DEF OthersAsStarted
<1>1. /\ TypeOK /\ off[c] /\ core[c] = NoBlock /\ fromCPU[c] = <<>>
      /\ toCPU[c] \in Seq(Messages) /\ DOMAIN toCPU[c] = 1 .. Len(toCPU[c])
      /\ Len(toCPU[c]) \in Nat
      /\ \A i \in DOMAIN toCPU[c] : toCPU[c][i].op = "SM_CPU_EXEC"
  BY DEF IInv, TypeOK, AsStarted
<1>2. ASSUME off'[c] = off[c], core'[c] = core[c], fromCPU'[c] = fromCPU[c],
             toCPU'[c] = toCPU[c]
      PROVE  AsStarted(c)'
  BY <1>2 DEF AsStarted
<1>3. ASSUME NEW b \in Blocks, ProcessRequest(b)
      PROVE  AsStarted(c)'
  <2>1. off' = off /\ core' = core /\ fromCPU' = fromCPU
    BY <1>3 DEF ProcessRequest
  <2>2. CASE toCPU'[c] = toCPU[c]
    BY <1>2, <2>1, <2>2
  <2>3. CASE toCPU'[c] = Append(toCPU[c], Exec(b))
    <3>1. Exec(b) \in Messages /\ Exec(b).op = "SM_CPU_EXEC"
      BY DEF Messages, Exec
    <3>2. /\ DOMAIN toCPU'[c] = 1 .. Len(toCPU[c]) + 1
          /\ \A i \in 1 .. Len(toCPU[c]) : toCPU'[c][i] = toCPU[c][i]
          /\ toCPU'[c][Len(toCPU[c]) + 1] = Exec(b)
      BY <1>1, <2>3, <3>1, AppendProperties
    <3>3. \A i \in DOMAIN toCPU'[c] : toCPU'[c][i].op = "SM_CPU_EXEC"
      BY <1>1, <3>1, <3>2
    <3> QED BY <1>1, <2>1, <3>3 DEF AsStarted
  <2> QED BY <1>1, <1>3, <2>2, <2>3 DEF ProcessRequest, Dispatch, Enqueue, TypeOK
<1>4. ASSUME NEW s \in OsStates, ProcessChangeState(s)
      PROVE  AsStarted(c)'
  BY <1>1, <1>2, <1>4 DEF ProcessChangeState, TypeOK
<1>5. ASSUME NEW l \in Cores, ProcessResponse(l)
      PROVE  AsStarted(c)'
  <2>1. l # c
    BY <1>1, <1>5 DEF ProcessResponse
  <2>2. /\ core' = core /\ fromCPU'[c] = fromCPU[c] /\ (GiveNextBlock(l) \/ GoIdle(l))
    BY <1>5, <2>1, ResponseFrees
  <2>3. toCPU'[c] = toCPU[c]
    BY <1>1, <2>1, <2>2 DEF GiveNextBlock, GoIdle, TypeOK
  <2> QED BY <1>2, <1>5, <2>2, <2>3 DEF ProcessResponse
<1>6. ASSUME NEW d \in Cores, Taken(d)
      PROVE  AsStarted(c)'
  <2>1. d # c
    <3>1. Taken(c) => toCPU[c] # <<>> /\ Head(toCPU[c]).op # "SM_CPU_EXEC"
      BY <1>1 DEF Taken, StartBlock, CoreTakeState
    <3>2. toCPU[c] # <<>> => Head(toCPU[c]) = toCPU[c][1] /\ 1 \in DOMAIN toCPU[c]
      BY <1>1, HeadTailProperties
    <3> QED BY <1>1, <1>6, <3>1, <3>2
  <2> QED BY <1>1, <1>2, <1>6, <2>1 DEF Taken, StartBlock, CoreTakeState, TypeOK
<1>7. ASSUME NEW d \in Cores, CoreFinish(d)
      PROVE  AsStarted(c)'
  BY <1>1, <1>2, <1>7 DEF CoreFinish, TypeOK
<1>8. CASE Stop \/ UNCHANGED vars
  BY <1>2, <1>8 DEF Stop, vars, coreVars
<1> QED BY <1>3, <1>4, <1>5, <1>6, <1>7, <1>8, TakeOrStop DEF Next, CoreContinue

\* In a node without hypervisor only the first core ever computes: the scheduler
\* forwards every energy state to core 0, and sends one of its own only to a core
\* that has answered, so the others stay off and the first block for one of them
\* stops the simulation.
THEOREM OnlyFirstCoreComputes ==
  Spec => [](~guest => \A c \in Cores \ {0} : off[c] /\ core[c] = NoBlock)
<1> DEFINE Untouched == IInv /\ OthersAsStarted
<1>1. Init => OthersAsStarted
  <2> SUFFICES ASSUME Init, ~guest, NEW c \in Cores \ {0}
               PROVE  AsStarted(c)
    BY DEF OthersAsStarted
  <2>1. off[c] /\ core[c] = NoBlock /\ fromCPU[c] = <<>> /\ toCPU[c] = <<>>
    BY DEF Init
  <2> QED BY <2>1 DEF AsStarted
<1>2. Init => Untouched
  BY <1>1, InitInv
<1>3. Untouched /\ [Next]_vars => Untouched'
  BY NextInv, OthersStep
<1>4. Untouched => (~guest => \A c \in Cores \ {0} : off[c] /\ core[c] = NoBlock)
  BY DEF OthersAsStarted, AsStarted
<1> HIDE DEF Untouched
<1> QED BY <1>2, <1>3, <1>4, PTL DEF Spec
=============================================================================
