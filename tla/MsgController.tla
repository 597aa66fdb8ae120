--------------------------- MODULE MsgController ---------------------------
(***************************************************************************)
(* The message controllers that sit between the applications of a guest    *)
(* and its operating system: VmMsgController (virtual machines) and        *)
(* DockerDaemon (containers), which is the same code with another handling *)
(* of responses.  A controller                                             *)
(*   - replaces the commId of a message (for a parallel application, the   *)
(*     rank of a process) by the gate of its application on the way out    *)
(*     and puts the original back on the way in;                           *)
(*   - stops the guest's traffic for a migration: SM_STOP_AND_DOWN_VM      *)
(*     closes it, and is answered when no message of the guest is out;     *)
(*     SM_VM_ACTIVATION opens it and sends what was held meanwhile.        *)
(* A message is one object from its request to its response, so its fields *)
(* are kept by message.                                                    *)
(***************************************************************************)
EXTENDS FiniteSets, Sublists

CONSTANTS
  AppMsgs,        \* messages that applications send as requests to the OS
  OsMsgs,         \* messages that the OS sends as requests to applications
  OsAnswered,     \* those of OsMsgs that the application answers
  Kind,           \* [Msgs -> Kinds]: the message's class
  AppGate,        \* [Msgs -> Nat]: gate index of the application concerned
  Rank,           \* [Msgs -> Int]: the commId set by the sender, or NoRank
  Holding,        \* subset of BOOLEAN: VmMsgController holds responses, DockerDaemon not
  MaxStops        \* bound: how many migrations are asked for

Msgs  == AppMsgs \cup OsMsgs
Kinds == {"CPU", "IO", "MEM", "NET"}
NoRank == -1

ASSUME MsgAssumption ==
  /\ AppMsgs \cap OsMsgs = {} /\ OsAnswered \subseteq OsMsgs
  /\ IsFiniteSet(Msgs)
  /\ Kind \in [Msgs -> Kinds] /\ AppGate \in [Msgs -> Nat] /\ Rank \in [Msgs -> Int]
  /\ Holding \subseteq BOOLEAN /\ MaxStops \in Nat

VARIABLES
  holdsResponses,   \* TRUE: VmMsgController.  FALSE: DockerDaemon
  migrateActive,    \* TRUE while the guest's traffic is stopped
  pendingMessages,  \* messages held meanwhile, oldest first: [msg, isResponse]
  pendingMsg,       \* the four counters pendingCPUMsg ... pendingIOMsg, by kind
  commVector,       \* saved commIds: [msgId, commId]
  commId,           \* the commId field of each message
  place,            \* where each message is
  stops,            \* stop requests accepted so far
  notified,         \* answers sent to stop requests so far
  sent,             \* history: application requests in the order they were made
  forwarded         \* history: application requests in the order they reached the OS

ctlVars == <<migrateActive, pendingMessages, pendingMsg, commVector>>
vars == <<holdsResponses, ctlVars, commId, place, stops, notified, sent, forwarded>>

\* "new": not sent.  "out": with the other side, which has still to answer or
\* consume it.  "held": in pendingMessages.  "back": answered.  "gone": consumed.
Places == {"new", "out", "held", "back", "gone"}

FromApp(m) == m \in AppMsgs
Request(m)  == [msg |-> m, isResponse |-> FALSE]
Response(m) == [msg |-> m, isResponse |-> TRUE]

Init ==
  /\ holdsResponses \in Holding
  /\ migrateActive = FALSE
  /\ pendingMessages = <<>>
  /\ pendingMsg = [k \in Kinds |-> 0]
  /\ commVector = {}
  /\ commId = Rank
  /\ place = [m \in Msgs |-> "new"]
  /\ stops = 0 /\ notified = 0
  /\ sent = <<>> /\ forwarded = <<>>

-----------------------------------------------------------------------------
(* Helpers of the controller.  A definition whose name has a suffix        *)
(* (_Uncounted, _Leaky ...) is a faulty variant of the next one of that    *)
(* name; no specification uses it.                                         *)

Count_Uncounted(m, n) == IF n = 1 THEN pendingMsg ELSE [pendingMsg EXCEPT ![Kind[m]] = @ + n]

\* updateCounters(msg, +1), (msg, -1) and migrationPrepared.
Count(m, n) == [pendingMsg EXCEPT ![Kind[m]] = @ + n]

Prepared(counters) == \A k \in Kinds : counters[k] = 0

\* insertCommId: only for network messages that carry a rank.
CommIdSaved(m) ==
  IF Kind[m] = "NET" /\ commId[m] # NoRank
  THEN commVector \cup {[msgId |-> m, commId |-> commId[m]]}
  ELSE commVector

RestoreCommId_Skipped(m) == UNCHANGED <<commId, commVector>>

\* updateCommId: network messages only; the saved entry is used up.
RestoreCommId(m) ==
  LET saved == {e \in commVector : e.msgId = m}
  IN IF Kind[m] = "NET" /\ saved # {}
     THEN \E e \in saved : /\ commId' = [commId EXCEPT ![m] = e.commId]
                           /\ commVector' = commVector \ {e}
     ELSE UNCHANGED <<commId, commVector>>

-----------------------------------------------------------------------------
(* Handlers. *)

\* processRequestMessage, traffic open: forward to the OS (with the counter
\* raised and the commId replaced by the application's gate) or to the application.
Forward(m) ==
  /\ place' = [place EXCEPT ![m] = "out"]
  /\ IF FromApp(m)
     THEN /\ pendingMsg' = Count(m, 1)
          /\ commId' = [commId EXCEPT ![m] = AppGate[m]]
          /\ forwarded' = Append(forwarded, m)
     ELSE UNCHANGED <<pendingMsg, commId, forwarded>>
  /\ UNCHANGED pendingMessages

\* processRequestMessage, traffic stopped: keep the message.
Hold(m) ==
  /\ pendingMessages' = Append(pendingMessages, Request(m))
  /\ place' = [place EXCEPT ![m] = "held"]
  /\ UNCHANGED <<pendingMsg, commId, forwarded>>

ProcessRequest_Leaky(m) ==
  /\ place[m] = "new"
  /\ commVector' = CommIdSaved(m)
  /\ IF migrateActive /\ FromApp(m) THEN Hold(m) ELSE Forward(m)
  /\ sent' = IF FromApp(m) THEN Append(sent, m) ELSE sent
  /\ UNCHANGED <<holdsResponses, migrateActive, stops, notified>>

\* processRequestMessage of a message that is not a migration order.
ProcessRequest(m) ==
  /\ place[m] = "new"
  /\ commVector' = CommIdSaved(m)
  /\ IF migrateActive THEN Hold(m) ELSE Forward(m)
  /\ sent' = IF FromApp(m) THEN Append(sent, m) ELSE sent
  /\ UNCHANGED <<holdsResponses, migrateActive, stops, notified>>

HoldResponse_Silent(m) ==
  /\ pendingMessages' = Append(pendingMessages, Response(m))
  /\ place' = [place EXCEPT ![m] = "held"]
  /\ UNCHANGED <<notified, commId, commVector>>

HoldResponse_EachTime(m) ==
  /\ pendingMessages' = Append(pendingMessages, Response(m))
  /\ place' = [place EXCEPT ![m] = "held"]
  /\ notified' = notified + 1
  /\ UNCHANGED <<commId, commVector>>

\* processResponseMessage, traffic stopped: keep the response, and answer the
\* stop request when the counters have reached zero.
HoldResponse(m) ==
  /\ pendingMessages' = Append(pendingMessages, Response(m))
  /\ place' = [place EXCEPT ![m] = "held"]
  /\ notified' = IF Prepared(pendingMsg') THEN notified + 1 ELSE notified
  /\ UNCHANGED <<commId, commVector>>

\* processResponseMessage, traffic open: restore the commId and pass it on.
GiveBack(m) ==
  /\ RestoreCommId(m)
  /\ place' = [place EXCEPT ![m] = "back"]
  /\ UNCHANGED <<pendingMessages, notified>>

\* processResponseMessage: the counter is lowered for every response, whoever
\* sent the request.  DockerDaemon passes it on even while the traffic is
\* stopped, and never looks at the counters.
ProcessResponse(m) ==
  /\ place[m] = "out" /\ m \in AppMsgs \cup OsAnswered
  /\ pendingMsg' = Count(m, -1)
  /\ IF migrateActive /\ holdsResponses THEN HoldResponse(m) ELSE GiveBack(m)
  /\ UNCHANGED <<holdsResponses, migrateActive, stops, sent, forwarded>>

\* An application takes a message of the OS without answering it.
Consume(m) ==
  /\ place[m] = "out" /\ m \in OsMsgs \ OsAnswered
  /\ place' = [place EXCEPT ![m] = "gone"]
  /\ UNCHANGED <<holdsResponses, ctlVars, commId, stops, notified, sent, forwarded>>

StopAndDown_AtOnce ==
  /\ stops < MaxStops /\ ~migrateActive
  /\ migrateActive' = TRUE
  /\ stops' = stops + 1
  /\ notified' = notified + 1
  /\ UNCHANGED <<holdsResponses, pendingMessages, pendingMsg, commVector, commId, place,
                 sent, forwarded>>

\* SM_STOP_AND_DOWN_VM / SM_STOP_AND_DOWN_CONTAINER: a second one is dropped.
StopAndDown ==
  /\ stops < MaxStops /\ ~migrateActive
  /\ migrateActive' = TRUE
  /\ stops' = stops + 1
  /\ notified' = IF Prepared(pendingMsg) THEN notified + 1 ELSE notified
  /\ UNCHANGED <<holdsResponses, pendingMessages, pendingMsg, commVector, commId, place,
                 sent, forwarded>>

\* The messages held, as requests or as responses.
Held(resp) == {pendingMessages[i].msg :
                i \in {j \in DOMAIN pendingMessages : pendingMessages[j].isResponse = resp}}

HeldAppRequests == Within(pendingMessages, [msg : AppMsgs, isResponse : {FALSE}])

Flush_NewestFirst ==
  LET n == Len(HeldAppRequests) IN
  /\ pendingMessages' = <<>>
  /\ place' = [m \in Msgs |-> IF m \in Held(FALSE) THEN "out"
                              ELSE IF m \in Held(TRUE) THEN "back" ELSE place[m]]
  /\ pendingMsg' = [k \in Kinds |-> pendingMsg[k] +
                      Cardinality({m \in Held(FALSE) : FromApp(m) /\ Kind[m] = k})]
  /\ forwarded' = forwarded \o [i \in 1 .. n |-> HeldAppRequests[n + 1 - i].msg]

\* flushPendingMessages: everything held is sent, oldest first.  A request is
\* counted but its commId is not replaced; a response is not restored.
Flush ==
  /\ pendingMessages' = <<>>
  /\ place' = [m \in Msgs |-> IF m \in Held(FALSE) THEN "out"
                              ELSE IF m \in Held(TRUE) THEN "back" ELSE place[m]]
  /\ pendingMsg' = [k \in Kinds |-> pendingMsg[k] +
                      Cardinality({m \in Held(FALSE) : FromApp(m) /\ Kind[m] = k})]
  /\ forwarded' = forwarded \o [i \in DOMAIN HeldAppRequests |-> HeldAppRequests[i].msg]

\* SM_VM_ACTIVATION: sent by the other host when the migration is over, which
\* it starts when the stop request is answered.
Activation ==
  /\ migrateActive /\ notified >= stops
  /\ migrateActive' = FALSE
  /\ Flush
  /\ UNCHANGED <<holdsResponses, commVector, commId, stops, notified, sent>>

Next ==
  \/ \E m \in Msgs : ProcessRequest(m) \/ ProcessResponse(m) \/ Consume(m)
  \/ StopAndDown
  \/ Activation

\* The operating system and the applications answer what they are asked, and
\* the event loop delivers every response.
Fairness == \A m \in Msgs : WF_vars(ProcessResponse(m))

Spec == Init /\ [][Next]_vars /\ Fairness

-----------------------------------------------------------------------------
(* Properties. *)

\* Types; a counter is never negative while applications answer nothing to the OS.
TypeOK ==
  /\ holdsResponses \in BOOLEAN /\ migrateActive \in BOOLEAN
  /\ pendingMessages \in Seq([msg : Msgs, isResponse : BOOLEAN])
  /\ pendingMsg \in [Kinds -> IF OsAnswered = {} THEN Nat ELSE Int]
  /\ commVector \subseteq [msgId : Msgs, commId : Int]
  /\ commId \in [Msgs -> Int]
  /\ place \in [Msgs -> Places]
  /\ stops \in 0 .. MaxStops /\ notified \in Nat
  /\ sent \in Seq(AppMsgs) /\ forwarded \in Seq(AppMsgs)

\* The application requests of kind k that the OS has still to answer.
Outstanding(k) == {m \in AppMsgs : Kind[m] = k /\ place[m] = "out"}

\* The counters say exactly how many requests of the guest are out, through any
\* interleaving of requests, responses, stops and flushes, as long as the
\* applications answer nothing that the OS asked them.
CountersExact ==
  OsAnswered = {} => \A k \in Kinds : pendingMsg[k] = Cardinality(Outstanding(k))

\* A stop request is answered when, and only when, no request of the guest is
\* out: notifyVMPreparedToMigrate means that the guest can be disconnected.
ReadyMeansQuiet ==
  [][notified' > notified => \A k \in Kinds : Outstanding(k)' = {}]_vars

\* Each stop request is answered at most once (the message is sent away with
\* the first answer).
AnsweredOnce == notified <= stops

\* While the traffic is stopped nothing crosses the controller; only the daemon
\* lets the responses through.
ClosedWhileMigrating ==
  [][migrateActive /\ migrateActive' =>
       \A m \in Msgs : place'[m] # place[m] =>
         \/ place'[m] \in {"held", "gone"}
         \/ ~holdsResponses /\ place'[m] = "back"]_vars

\* Requests reach the OS in the order in which the applications made them,
\* whether or not a migration held some of them.
OrderKept ==
  /\ Len(forwarded) <= Len(sent)
  /\ \A i \in DOMAIN forwarded : forwarded[i] = sent[i]
  /\ ~migrateActive => Len(forwarded) = Len(sent) /\ pendingMessages = <<>>

\* A response gives the application its own rank back, unless a migration held it.
RankKept ==
  [][\A m \in AppMsgs : place[m] = "out" /\ place'[m] = "back" /\ Kind[m] = "NET" =>
       commId'[m] = Rank[m]]_vars

\* ... and also when a migration held it: what the header of VmMsgController
\* promises of the commId.
RankRestored ==
  \A m \in AppMsgs : place[m] = "back" /\ Kind[m] = "NET" => commId[m] = Rank[m]

\* A stop request of a virtual machine is eventually answered: with the traffic
\* stopped, the counters run down to zero.
StopAnswered == (holdsResponses /\ stops > notified) ~> (stops = notified)
=============================================================================
