------------------------ MODULE MsgController_proofs ------------------------
(***************************************************************************)
(* Proofs about MsgController for any finite set of messages, any kinds,   *)
(* gates and ranks: the counters are exact, a stop is answered once and    *)
(* only when the guest is quiet, nothing crosses a stopped controller, and *)
(* a response restores the rank.                                           *)
(***************************************************************************)
EXTENDS MsgController, FiniteSetTheorems, SequenceTheorems, Induction, TLAPS

-----------------------------------------------------------------------------
(* The inductive invariant. *)

HeldMsg == [msg : Msgs, isResponse : BOOLEAN]

ControlTypes ==
  /\ holdsResponses \in BOOLEAN /\ migrateActive \in BOOLEAN
  /\ pendingMessages \in Seq(HeldMsg)
  /\ pendingMsg \in [Kinds -> Int]
  /\ commVector \subseteq [msgId : Msgs, commId : Int]
  /\ commId \in [Msgs -> Int]
  /\ place \in [Msgs -> Places]
  /\ stops \in Nat /\ notified \in Nat

\* What is in pendingMessages is nowhere else.
HeldAreHeld == \A i \in DOMAIN pendingMessages : place[pendingMessages[i].msg] = "held"

\* A stop waits for its answer exactly as long as some counter is not zero.
StopPending ==
  OsAnswered = {} =>
    /\ notified <= stops
    /\ ~migrateActive => notified = stops
    /\ migrateActive /\ ~Prepared(pendingMsg) => notified < stops

Ranked(m) == m \in AppMsgs /\ Kind[m] = "NET" /\ Rank[m] # NoRank
Saved(cv, m) == \E e \in cv : e.msgId = m

\* The rank of a request that is out, or held on its way out, is saved.
RanksSaved ==
  /\ \A e \in commVector : e.commId = Rank[e.msgId]
  /\ \A m \in Msgs : place[m] = "new" => commId[m] = Rank[m]
  /\ \A m \in Msgs : Ranked(m) /\ place[m] = "out" => Saved(commVector, m)
  /\ \A i \in DOMAIN pendingMessages :
       ~pendingMessages[i].isResponse /\ Ranked(pendingMessages[i].msg)
         => Saved(commVector, pendingMessages[i].msg)

IInv == ControlTypes /\ HeldAreHeld /\ CountersExact /\ StopPending /\ RanksSaved

-----------------------------------------------------------------------------
(* Cardinalities. *)

\* Sets of messages are finite.
LEMMA OutstandingFinite ==
  ASSUME NEW k
  PROVE  IsFiniteSet(Outstanding(k)) /\ Cardinality(Outstanding(k)) \in Nat
<1>1. IsFiniteSet(Msgs) /\ Outstanding(k) \subseteq Msgs
  BY MsgAssumption DEF Outstanding, Msgs
<1> QED BY <1>1, FS_Subset, FS_CardinalityType

\* With exact counters, a counter that is zero means that no request is out.
LEMMA PreparedMeansQuiet ==
  ASSUME OsAnswered = {}, CountersExact, Prepared(pendingMsg), NEW k \in Kinds
  PROVE  Outstanding(k) = {}
<1>1. Cardinality(Outstanding(k)) = 0
  BY DEF CountersExact, Prepared
<1> QED BY <1>1, OutstandingFinite, FS_EmptySet

\* A request that is out keeps the counter of its kind above zero.
LEMMA OutMeansCounted ==
  ASSUME OsAnswered = {}, CountersExact, NEW m \in AppMsgs, place[m] = "out"
  PROVE  ~Prepared(pendingMsg)
<1>1. Kind[m] \in Kinds
  BY MsgAssumption DEF Msgs
<1>2. m \in Outstanding(Kind[m])
  BY DEF Outstanding
<1> QED BY <1>1, <1>2, PreparedMeansQuiet

-----------------------------------------------------------------------------
(* Requests. *)

LEMMA ForwardTypes ==
  ASSUME IInv, NEW m \in Msgs, place[m] = "new", ~migrateActive, ProcessRequest(m)
  PROVE  ControlTypes' /\ HeldAreHeld'
<1>1. Forward(m) /\ commVector' = CommIdSaved(m)
  BY DEF ProcessRequest
<1>2. Kind[m] \in Kinds /\ AppGate[m] \in Int
  BY MsgAssumption
<1>3. pendingMsg' \in [Kinds -> Int] /\ commId' \in [Msgs -> Int]
  BY <1>1, <1>2 DEF Forward, Count, IInv, ControlTypes
<1>4. commVector' \subseteq [msgId : Msgs, commId : Int]
  BY <1>1 DEF CommIdSaved, IInv, ControlTypes
<1>5. place' = [place EXCEPT ![m] = "out"] /\ pendingMessages' = pendingMessages
  BY <1>1 DEF Forward
<1>6. UNCHANGED <<holdsResponses, migrateActive, stops, notified>>
  BY DEF ProcessRequest
<1>7. ControlTypes'
  BY <1>3, <1>4, <1>5, <1>6 DEF IInv, ControlTypes, Places
<1>8. ASSUME NEW i \in DOMAIN pendingMessages PROVE pendingMessages[i].msg \in Msgs \ {m}
  <2>1. pendingMessages[i] \in HeldMsg
    BY ElementOfSeq DEF IInv, ControlTypes
  <2> QED BY <2>1 DEF IInv, HeldAreHeld, HeldMsg
<1>9. HeldAreHeld'
  BY <1>5, <1>8 DEF IInv, HeldAreHeld, ControlTypes
<1> QED BY <1>7, <1>9

LEMMA HoldTypes ==
  ASSUME IInv, NEW m \in Msgs, place[m] = "new", migrateActive, ProcessRequest(m)
  PROVE  ControlTypes' /\ HeldAreHeld'
<1>1. Hold(m) /\ commVector' = CommIdSaved(m)
  BY DEF ProcessRequest
<1>2. commVector' \subseteq [msgId : Msgs, commId : Int]
  BY <1>1 DEF CommIdSaved, IInv, ControlTypes
<1>3. place' = [place EXCEPT ![m] = "held"] /\ pendingMessages' = Append(pendingMessages, Request(m))
  BY <1>1 DEF Hold
<1>4. UNCHANGED <<holdsResponses, migrateActive, stops, notified, pendingMsg, commId>>
  BY <1>1 DEF ProcessRequest, Hold
<1>5. Request(m) \in HeldMsg
  BY DEF Request, HeldMsg
<1>6. /\ pendingMessages' \in Seq(HeldMsg) /\ Len(pendingMessages') = Len(pendingMessages) + 1
      /\ \A i \in 1 .. Len(pendingMessages) : pendingMessages'[i] = pendingMessages[i]
      /\ pendingMessages'[Len(pendingMessages) + 1] = Request(m)
  BY <1>3, <1>5, AppendProperties DEF IInv, ControlTypes
<1>7. ControlTypes'
  BY <1>2, <1>3, <1>4, <1>6 DEF IInv, ControlTypes, Places
<1>8. ASSUME NEW i \in DOMAIN pendingMessages' PROVE place'[pendingMessages'[i].msg] = "held"
  <2>1. CASE i = Len(pendingMessages) + 1
    BY <2>1, <1>3, <1>6 DEF Request, IInv, ControlTypes
  <2>2. CASE i \in DOMAIN pendingMessages
    <3>1. pendingMessages[i] \in HeldMsg /\ place[pendingMessages[i].msg] = "held"
      BY <2>2, ElementOfSeq DEF IInv, ControlTypes, HeldAreHeld
    <3>2. pendingMessages'[i] = pendingMessages[i]
      BY <2>2, <1>6 DEF IInv, ControlTypes
    <3> QED BY <3>1, <3>2, <1>3 DEF HeldMsg, IInv, ControlTypes
  <2>3. i \in DOMAIN pendingMessages \/ i = Len(pendingMessages) + 1
    BY <1>6 DEF IInv, ControlTypes
  <2> QED BY <2>1, <2>2, <2>3
<1> QED BY <1>7, <1>8 DEF HeldAreHeld
\* Forwarding a request of an application adds it to those that are out.
LEMMA ForwardCounters ==
  ASSUME IInv, NEW m \in Msgs, place[m] = "new", ~migrateActive, ProcessRequest(m)
  PROVE  CountersExact' /\ StopPending'
<1>1. Forward(m) /\ UNCHANGED <<migrateActive, stops, notified>>
  BY DEF ProcessRequest
<1>2. place \in [Msgs -> Places] /\ place' = [place EXCEPT ![m] = "out"]
  BY <1>1 DEF Forward, IInv, ControlTypes
<1>3. ASSUME OsAnswered = {}, NEW k \in Kinds
      PROVE  pendingMsg'[k] = Cardinality(Outstanding(k)')
  <2>1. pendingMsg[k] = Cardinality(Outstanding(k)) /\ pendingMsg \in [Kinds -> Int]
    BY <1>3 DEF IInv, CountersExact, ControlTypes
  <2>2. m \notin Outstanding(k)
    BY DEF Outstanding
  <2>3. CASE m \in AppMsgs /\ Kind[m] = k
    <3>1. Outstanding(k)' = Outstanding(k) \cup {m}
      BY <1>2, <2>3 DEF Outstanding, Msgs
    <3>2. pendingMsg'[k] = pendingMsg[k] + 1
      BY <1>1, <2>1, <2>3 DEF Forward, FromApp, Count
    <3> QED BY <2>1, <2>2, <3>1, <3>2, OutstandingFinite, FS_AddElement
  <2>4. CASE ~(m \in AppMsgs /\ Kind[m] = k)
    <3>1. Outstanding(k)' = Outstanding(k)
      BY <1>2, <2>4 DEF Outstanding, Msgs
    <3>2. pendingMsg'[k] = pendingMsg[k]
      BY <1>1, <2>1, <2>4 DEF Forward, FromApp, Count
    <3> QED BY <2>1, <3>1, <3>2
  <2> QED BY <2>3, <2>4
<1>4. CountersExact'
  BY <1>3 DEF CountersExact
<1>5. StopPending'
  BY <1>1 DEF IInv, StopPending
<1> QED BY <1>4, <1>5

LEMMA HoldCounters ==
  ASSUME IInv, NEW m \in Msgs, place[m] = "new", migrateActive, ProcessRequest(m)
  PROVE  CountersExact' /\ StopPending'
<1>1. Hold(m) /\ UNCHANGED <<migrateActive, stops, notified, pendingMsg>>
  BY DEF ProcessRequest, Hold
<1>2. ASSUME NEW k PROVE Outstanding(k)' = Outstanding(k)
  <2>1. place \in [Msgs -> Places] /\ place' = [place EXCEPT ![m] = "held"]
    BY <1>1 DEF Hold, IInv, ControlTypes
  <2> QED BY <2>1 DEF Outstanding, Msgs
<1>3. CountersExact'
  BY <1>1, <1>2 DEF IInv, CountersExact
<1>4. StopPending'
  BY <1>1 DEF IInv, StopPending, Prepared
<1> QED BY <1>3, <1>4

\* A ranked message of an application that is new is saved by the request.
LEMMA RequestSaves ==
  ASSUME IInv, NEW m \in Msgs, place[m] = "new", ProcessRequest(m)
  PROVE  /\ commVector \subseteq commVector'
         /\ \A e \in commVector' : e.commId = Rank[e.msgId]
         /\ Ranked(m) => Saved(commVector', m)
<1>1. commVector' = CommIdSaved(m) /\ commId[m] = Rank[m]
  BY DEF ProcessRequest, IInv, RanksSaved
<1>2. CASE Kind[m] = "NET" /\ Rank[m] # NoRank
  <2>1. commVector' = commVector \cup {[msgId |-> m, commId |-> Rank[m]]}
    BY <1>1, <1>2 DEF CommIdSaved
  <2> DEFINE new == [msgId |-> m, commId |-> Rank[m]]
  <2>2. ASSUME NEW e \in commVector' PROVE e.commId = Rank[e.msgId]
    <3>1. new.commId = Rank[new.msgId]
      OBVIOUS
    <3>2. e \in commVector \/ e = new
      BY <2>1
    <3>3. CASE e \in commVector
      BY <3>3 DEF IInv, RanksSaved
    <3>4. CASE e = new
      BY <3>1, <3>4
    <3> QED BY <3>2, <3>3, <3>4
  <2>3. new \in commVector' /\ new.msgId = m
    BY <2>1
  <2>4. Saved(commVector', m)
    BY <2>3 DEF Saved
  <2> QED BY <2>1, <2>2, <2>4
<1>3. CASE ~(Kind[m] = "NET" /\ Rank[m] # NoRank)
  <2>1. commVector' = commVector /\ ~Ranked(m)
    BY <1>1, <1>3 DEF CommIdSaved, Ranked
  <2> QED BY <2>1 DEF IInv, RanksSaved
<1> QED BY <1>2, <1>3

LEMMA RequestRanks ==
  ASSUME IInv, NEW m \in Msgs, ProcessRequest(m)
  PROVE  RanksSaved'
<1>0. place[m] = "new" /\ place \in [Msgs -> Places] /\ commId \in [Msgs -> Int]
  BY DEF ProcessRequest, IInv, ControlTypes
<1>1. /\ commVector \subseteq commVector'
      /\ \A e \in commVector' : e.commId = Rank[e.msgId]
      /\ Ranked(m) => Saved(commVector', m)
  BY <1>0, RequestSaves
<1>2. \A n : Saved(commVector, n) => Saved(commVector', n)
  BY <1>1 DEF Saved
<1>3. CASE ~migrateActive
  <2>1. Forward(m)
    BY <1>3 DEF ProcessRequest
  <2>2. /\ place' = [place EXCEPT ![m] = "out"] /\ pendingMessages' = pendingMessages
        /\ \A n \in Msgs \ {m} : commId'[n] = commId[n]
    BY <2>1, <1>0 DEF Forward
  <2> QED BY <1>0, <1>1, <1>2, <2>2 DEF IInv, RanksSaved, Ranked
<1>4. CASE migrateActive
  <2>1. Hold(m)
    BY <1>4 DEF ProcessRequest
  <2>2. place' = [place EXCEPT ![m] = "held"] /\ commId' = commId
    BY <2>1 DEF Hold
  <2>3. Request(m) \in HeldMsg /\ pendingMessages' = Append(pendingMessages, Request(m))
        /\ pendingMessages \in Seq(HeldMsg)
    BY <2>1 DEF Request, HeldMsg, Hold, IInv, ControlTypes
  <2>4. ASSUME NEW i \in DOMAIN pendingMessages', ~pendingMessages'[i].isResponse,
               Ranked(pendingMessages'[i].msg)
        PROVE  Saved(commVector', pendingMessages'[i].msg)
    <3>1. \/ i \in DOMAIN pendingMessages /\ pendingMessages'[i] = pendingMessages[i]
          \/ pendingMessages'[i] = Request(m)
      BY <2>3, AppendProperties
    <3>2. CASE i \in DOMAIN pendingMessages /\ pendingMessages'[i] = pendingMessages[i]
      BY <3>2, <2>4, <1>2 DEF IInv, RanksSaved
    <3>3. CASE pendingMessages'[i] = Request(m)
      BY <3>3, <2>4, <1>1 DEF Request
    <3> QED BY <3>1, <3>2, <3>3
  <2>5. \A n \in Msgs : Ranked(n) /\ place'[n] = "out" => Saved(commVector', n)
    BY <1>0, <1>2, <2>2 DEF IInv, RanksSaved
  <2>6. \A n \in Msgs : place'[n] = "new" => commId'[n] = Rank[n]
    BY <1>0, <2>2 DEF IInv, RanksSaved
  <2>7. \A i \in DOMAIN pendingMessages' :
          ~pendingMessages'[i].isResponse /\ Ranked(pendingMessages'[i].msg)
            => Saved(commVector', pendingMessages'[i].msg)
    BY <2>4
  <2> QED BY <1>1, <2>5, <2>6, <2>7 DEF RanksSaved, Ranked
<1> QED BY <1>3, <1>4

-----------------------------------------------------------------------------
(* Responses. *)

\* With a response one request less is out, and it is nowhere else: no request
\* in pendingMessages is the one that is answered.
LEMMA ResponseTypes ==
  ASSUME IInv, NEW m \in Msgs, ProcessResponse(m)
  PROVE  /\ ControlTypes' /\ HeldAreHeld'
         /\ place[m] = "out" /\ place'[m] \in {"held", "back"}
         /\ \A n \in Msgs \ {m} : place'[n] = place[n]
<1>1. /\ place[m] = "out" /\ place \in [Msgs -> Places]
      /\ UNCHANGED <<holdsResponses, migrateActive, stops>>
      /\ pendingMsg' = Count(m, -1)
  BY DEF ProcessResponse, IInv, ControlTypes
<1>2. pendingMsg' \in [Kinds -> Int]
  BY <1>1, MsgAssumption DEF Count, IInv, ControlTypes
<1>3. CASE migrateActive /\ holdsResponses
  <2>1. HoldResponse(m)
    BY <1>3 DEF ProcessResponse
  <2>2. /\ place' = [place EXCEPT ![m] = "held"] /\ UNCHANGED <<commId, commVector>>
        /\ pendingMessages' = Append(pendingMessages, Response(m))
    BY <2>1 DEF HoldResponse
  <2>3. notified' \in Nat
    BY <2>1 DEF HoldResponse, IInv, ControlTypes
  <2>4. Response(m) \in HeldMsg
    BY DEF Response, HeldMsg
  <2>5. /\ pendingMessages' \in Seq(HeldMsg) /\ Len(pendingMessages') = Len(pendingMessages) + 1
        /\ \A i \in 1 .. Len(pendingMessages) : pendingMessages'[i] = pendingMessages[i]
        /\ pendingMessages'[Len(pendingMessages) + 1] = Response(m)
    BY <2>2, <2>4, AppendProperties DEF IInv, ControlTypes
  <2>6. ControlTypes'
    BY <1>1, <1>2, <2>2, <2>3, <2>5 DEF IInv, ControlTypes, Places
  <2>7. ASSUME NEW i \in DOMAIN pendingMessages' PROVE place'[pendingMessages'[i].msg] = "held"
    <3>1. CASE i = Len(pendingMessages) + 1
      BY <3>1, <1>1, <2>2, <2>5 DEF Response
    <3>2. CASE i \in DOMAIN pendingMessages
      <4>1. pendingMessages[i] \in HeldMsg /\ place[pendingMessages[i].msg] = "held"
        BY <3>2, ElementOfSeq DEF IInv, ControlTypes, HeldAreHeld
      <4>2. pendingMessages'[i] = pendingMessages[i]
        BY <3>2, <2>5 DEF IInv, ControlTypes
      <4> QED BY <4>1, <4>2, <1>1, <2>2 DEF HeldMsg
    <3>3. i \in DOMAIN pendingMessages \/ i = Len(pendingMessages) + 1
      BY <2>5 DEF IInv, ControlTypes
    <3> QED BY <3>1, <3>2, <3>3
  <2> QED BY <1>1, <2>2, <2>6, <2>7 DEF HeldAreHeld
<1>4. CASE ~(migrateActive /\ holdsResponses)
  <2>1. GiveBack(m)
    BY <1>4 DEF ProcessResponse
  <2>2. place' = [place EXCEPT ![m] = "back"] /\ UNCHANGED <<pendingMessages, notified>>
    BY <2>1 DEF GiveBack
  <2>3. commId' \in [Msgs -> Int] /\ commVector' \subseteq commVector
    BY <2>1 DEF GiveBack, RestoreCommId, IInv, ControlTypes
  <2>4. ControlTypes'
    BY <1>1, <1>2, <2>2, <2>3 DEF IInv, ControlTypes, Places
  <2>5. ASSUME NEW i \in DOMAIN pendingMessages PROVE pendingMessages[i].msg \in Msgs \ {m}
    <3>1. pendingMessages[i] \in HeldMsg
      BY ElementOfSeq DEF IInv, ControlTypes
    <3> QED BY <3>1, <1>1 DEF IInv, HeldAreHeld, HeldMsg
  <2>6. HeldAreHeld'
    BY <1>1, <2>2, <2>5 DEF IInv, HeldAreHeld
  <2> QED BY <1>1, <2>2, <2>4, <2>6
<1> QED BY <1>3, <1>4

LEMMA ResponseCounters ==
  ASSUME IInv, NEW m \in Msgs, ProcessResponse(m)
  PROVE  CountersExact'
<1>1. /\ place[m] = "out" /\ place'[m] \in {"held", "back"}
      /\ \A n \in Msgs \ {m} : place'[n] = place[n]
  BY ResponseTypes
<1>2. pendingMsg' = Count(m, -1) /\ m \in AppMsgs \cup OsAnswered
  BY DEF ProcessResponse
<1> SUFFICES ASSUME OsAnswered = {}, NEW k \in Kinds
             PROVE  pendingMsg'[k] = Cardinality(Outstanding(k)')
  BY DEF CountersExact
<1>3. pendingMsg[k] = Cardinality(Outstanding(k)) /\ pendingMsg \in [Kinds -> Int]
  BY DEF IInv, CountersExact, ControlTypes
<1>4. CASE Kind[m] = k
  <2>1. m \in Outstanding(k)
    BY <1>1, <1>2, <1>4 DEF Outstanding
  <2>2. Outstanding(k)' = Outstanding(k) \ {m}
    BY <1>1 DEF Outstanding, Msgs
  <2>3. pendingMsg'[k] = pendingMsg[k] - 1
    BY <1>2, <1>3, <1>4 DEF Count
  <2> QED BY ZenonT(40), <1>3, <2>1, <2>2, <2>3, OutstandingFinite, FS_RemoveElement
<1>5. CASE Kind[m] # k
  <2>1. Outstanding(k)' = Outstanding(k)
    BY <1>1, <1>5 DEF Outstanding, Msgs
  <2>2. pendingMsg'[k] = pendingMsg[k]
    BY <1>2, <1>3, <1>5 DEF Count
  <2> QED BY <1>3, <2>1, <2>2
<1> QED BY <1>4, <1>5

LEMMA ResponseStops ==
  ASSUME IInv, NEW m \in Msgs, ProcessResponse(m)
  PROVE  StopPending'
<1> SUFFICES ASSUME OsAnswered = {}
             PROVE  /\ notified' <= stops'
                    /\ ~migrateActive' => notified' = stops'
                    /\ migrateActive' /\ ~Prepared(pendingMsg') => notified' < stops'
  BY DEF StopPending
<1>1. m \in AppMsgs /\ place[m] = "out" /\ UNCHANGED <<migrateActive, stops>>
  BY DEF ProcessResponse
<1>2. ~Prepared(pendingMsg)
  BY <1>1, OutMeansCounted DEF IInv
<1>3. stops \in Nat /\ notified \in Nat
  BY DEF IInv, ControlTypes
<1>4. CASE migrateActive /\ holdsResponses
  <2>1. notified < stops
    BY <1>2, <1>4 DEF IInv, StopPending
  <2>2. notified' = IF Prepared(pendingMsg') THEN notified + 1 ELSE notified
    BY <1>4 DEF ProcessResponse, HoldResponse
  <2> QED BY <1>1, <1>3, <1>4, <2>1, <2>2
<1>5. CASE ~(migrateActive /\ holdsResponses)
  <2>1. notified' = notified
    BY <1>5 DEF ProcessResponse, GiveBack
  <2> QED BY <1>1, <1>2, <1>5, <2>1 DEF IInv, StopPending
<1> QED BY <1>4, <1>5

\* Only the entry of the answered message is used up.
LEMMA ResponseRanks ==
  ASSUME IInv, NEW m \in Msgs, ProcessResponse(m)
  PROVE  RanksSaved'
<1>1. /\ place[m] = "out" /\ place'[m] \in {"held", "back"}
      /\ \A n \in Msgs \ {m} : place'[n] = place[n]
  BY ResponseTypes
<1>2. CASE migrateActive /\ holdsResponses
  <2>1. /\ pendingMessages' = Append(pendingMessages, Response(m))
        /\ UNCHANGED <<commId, commVector>>
    BY <1>2 DEF ProcessResponse, HoldResponse
  <2>2. Response(m) \in HeldMsg /\ pendingMessages \in Seq(HeldMsg)
    BY DEF Response, HeldMsg, IInv, ControlTypes
  <2>3. ASSUME NEW i \in DOMAIN pendingMessages', ~pendingMessages'[i].isResponse
        PROVE  i \in DOMAIN pendingMessages /\ pendingMessages'[i] = pendingMessages[i]
    BY <2>1, <2>2, <2>3, AppendProperties DEF Response
  <2> QED BY <1>1, <2>1, <2>3 DEF IInv, RanksSaved, Ranked
<1>3. CASE ~(migrateActive /\ holdsResponses)
  <2>1. RestoreCommId(m) /\ pendingMessages' = pendingMessages
    BY <1>3 DEF ProcessResponse, GiveBack
  <2>2. /\ commVector' \subseteq commVector
        /\ \A e \in commVector \ commVector' : e.msgId = m
        /\ \A n \in Msgs \ {m} : commId'[n] = commId[n]
    BY <2>1 DEF RestoreCommId, IInv, ControlTypes
  <2>3. ASSUME NEW n \in Msgs \ {m}, Saved(commVector, n)
        PROVE  Saved(commVector', n)
    BY <2>2, <2>3 DEF Saved
  <2>4. ASSUME NEW i \in DOMAIN pendingMessages PROVE pendingMessages[i].msg \in Msgs \ {m}
    <3>1. pendingMessages[i] \in HeldMsg
      BY ElementOfSeq DEF IInv, ControlTypes
    <3> QED BY <3>1, <1>1 DEF IInv, HeldAreHeld, HeldMsg
  <2>5. \A e \in commVector' : e.commId = Rank[e.msgId]
    BY <2>2 DEF IInv, RanksSaved
  <2>6. \A n \in Msgs : place'[n] = "new" => commId'[n] = Rank[n]
    BY <1>1, <2>2 DEF IInv, RanksSaved
  <2>7. \A n \in Msgs : Ranked(n) /\ place'[n] = "out" => Saved(commVector', n)
    BY <1>1, <2>3 DEF IInv, RanksSaved
  <2>8. \A i \in DOMAIN pendingMessages :
          ~pendingMessages[i].isResponse /\ Ranked(pendingMessages[i].msg)
            => Saved(commVector', pendingMessages[i].msg)
    BY <2>3, <2>4 DEF IInv, RanksSaved
  <2> QED BY <2>1, <2>5, <2>6, <2>7, <2>8 DEF RanksSaved, Ranked
<1> QED BY <1>2, <1>3

-----------------------------------------------------------------------------
(* The other steps. *)

LEMMA ConsumeInv ==
  ASSUME IInv, NEW m \in Msgs, Consume(m)
  PROVE  IInv'
<1>1. /\ m \in OsMsgs /\ place[m] = "out" /\ place' = [place EXCEPT ![m] = "gone"]
      /\ UNCHANGED <<holdsResponses, migrateActive, pendingMessages, pendingMsg, commVector,
                     commId, stops, notified>>
  BY DEF Consume, ctlVars
<1>2. place \in [Msgs -> Places]
  BY DEF IInv, ControlTypes
<1>3. ControlTypes'
  BY <1>1, <1>2 DEF IInv, ControlTypes, Places
<1>4. ASSUME NEW i \in DOMAIN pendingMessages PROVE pendingMessages[i].msg \in Msgs \ {m}
  <2>1. pendingMessages[i] \in HeldMsg
    BY ElementOfSeq DEF IInv, ControlTypes
  <2> QED BY <2>1, <1>1 DEF IInv, HeldAreHeld, HeldMsg
<1>5. HeldAreHeld'
  BY <1>1, <1>2, <1>4 DEF IInv, HeldAreHeld
<1>6. ASSUME NEW k PROVE Outstanding(k)' = Outstanding(k)
  BY <1>1, <1>2, MsgAssumption DEF Outstanding, Msgs
<1>7. CountersExact'
  BY <1>1, <1>6 DEF IInv, CountersExact
<1>8. StopPending'
  BY <1>1 DEF IInv, StopPending, Prepared
<1>9. RanksSaved'
  BY <1>1, <1>2 DEF IInv, RanksSaved, Ranked
<1> QED BY <1>3, <1>5, <1>7, <1>8, <1>9 DEF IInv

LEMMA StopInv ==
  ASSUME IInv, StopAndDown
  PROVE  IInv'
<1>1. /\ ~migrateActive /\ migrateActive' = TRUE /\ stops' = stops + 1
      /\ notified' = IF Prepared(pendingMsg) THEN notified + 1 ELSE notified
      /\ UNCHANGED <<holdsResponses, pendingMessages, pendingMsg, commVector, commId, place>>
  BY DEF StopAndDown
<1>2. ControlTypes'
  BY <1>1 DEF IInv, ControlTypes
<1>3. HeldAreHeld' /\ CountersExact' /\ RanksSaved'
  BY <1>1 DEF IInv, HeldAreHeld, CountersExact, Outstanding, RanksSaved, Ranked
<1>4. StopPending'
  <2>1. Prepared(pendingMsg') <=> Prepared(pendingMsg)
    BY <1>1 DEF Prepared
  <2>2. OsAnswered = {} => notified = stops /\ stops \in Nat
    BY <1>1 DEF IInv, StopPending, ControlTypes
  <2> QED BY <1>1, <2>1, <2>2 DEF StopPending
<1> QED BY <1>2, <1>3, <1>4 DEF IInv

\* What is held is nowhere else, so that the flush adds the held requests to
\* those that are out.
LEMMA HeldPlaces ==
  ASSUME IInv
  PROVE  \A resp : Held(resp) \subseteq {m \in Msgs : place[m] = "held"}
<1> SUFFICES ASSUME NEW resp, NEW i \in DOMAIN pendingMessages
             PROVE  pendingMessages[i].msg \in Msgs /\ place[pendingMessages[i].msg] = "held"
  BY DEF Held
<1>1. pendingMessages[i] \in HeldMsg
  BY ElementOfSeq DEF IInv, ControlTypes
<1> QED BY <1>1 DEF IInv, HeldAreHeld, HeldMsg

LEMMA ActivationInv ==
  ASSUME IInv, Activation
  PROVE  IInv'
<1>1. /\ migrateActive /\ notified >= stops /\ migrateActive' = FALSE
      /\ pendingMessages' = <<>>
      /\ place' = [m \in Msgs |-> IF m \in Held(FALSE) THEN "out"
                                  ELSE IF m \in Held(TRUE) THEN "back" ELSE place[m]]
      /\ pendingMsg' = [k \in Kinds |-> pendingMsg[k] +
                          Cardinality({m \in Held(FALSE) : FromApp(m) /\ Kind[m] = k})]
      /\ UNCHANGED <<holdsResponses, commVector, commId, stops, notified>>
  BY DEF Activation, Flush
<1>2. \A resp : Held(resp) \subseteq {m \in Msgs : place[m] = "held"}
  BY HeldPlaces
<1> DEFINE Sent(k) == {m \in Held(FALSE) : FromApp(m) /\ Kind[m] = k}
<1>3. pendingMsg' = [k \in Kinds |-> pendingMsg[k] + Cardinality(Sent(k))]
  BY <1>1
<1>4. \A k \in Kinds : IsFiniteSet(Sent(k)) /\ Cardinality(Sent(k)) \in Nat
  <2>1. \A k \in Kinds : Sent(k) \subseteq Msgs
    BY <1>2
  <2>2. IsFiniteSet(Msgs)
    BY MsgAssumption
  <2> QED BY <2>1, <2>2, FS_Subset, FS_CardinalityType
<1>5. \A k \in Kinds : /\ Outstanding(k)' = Outstanding(k) \cup Sent(k)
                       /\ Outstanding(k) \cap Sent(k) = {}
  BY <1>1, <1>2 DEF Outstanding, FromApp, Msgs
<1> HIDE DEF Sent
<1>6. ControlTypes'
  <2>1. pendingMsg' \in [Kinds -> Int]
    BY <1>3, <1>4 DEF IInv, ControlTypes
  <2>2. place' \in [Msgs -> Places]
    BY <1>1 DEF IInv, ControlTypes, Places
  <2>3. pendingMessages' \in Seq(HeldMsg)
    BY <1>1
  <2>4. migrateActive' \in BOOLEAN
    BY <1>1
  <2>5. UNCHANGED <<holdsResponses, commVector, commId, stops, notified>>
    BY <1>1
  <2> QED BY <2>1, <2>2, <2>3, <2>4, <2>5 DEF IInv, ControlTypes
<1>7. HeldAreHeld'
  BY <1>1 DEF HeldAreHeld
<1>8. CountersExact'
  <2> SUFFICES ASSUME OsAnswered = {}, NEW k \in Kinds
               PROVE  pendingMsg'[k] = Cardinality(Outstanding(k)')
    BY DEF CountersExact
  <2>1. pendingMsg'[k] = pendingMsg[k] + Cardinality(Sent(k))
    BY <1>3
  <2>2. pendingMsg[k] = Cardinality(Outstanding(k))
    BY DEF IInv, CountersExact
  <2>3. IsFiniteSet(Outstanding(k)) /\ Cardinality(Outstanding(k)) \in Nat
    BY OutstandingFinite
  <2>4. Cardinality(Outstanding(k) \cup Sent(k))
          = Cardinality(Outstanding(k)) + Cardinality(Sent(k))
              - Cardinality(Outstanding(k) \cap Sent(k))
    BY <1>4, <2>3, FS_Union
  <2>5. Cardinality(Outstanding(k) \cap Sent(k)) = 0
    BY <1>5, FS_EmptySet
  <2>6. Cardinality(Sent(k)) \in Nat
    BY <1>4
  <2>7. Cardinality(Outstanding(k)') = Cardinality(Outstanding(k) \cup Sent(k))
    BY <1>5
  <2> QED BY <2>1, <2>2, <2>3, <2>4, <2>5, <2>6, <2>7
<1>9. StopPending'
  BY <1>1 DEF IInv, StopPending, ControlTypes
<1>10. RanksSaved'
  <2>1. \A m \in Held(FALSE) : Ranked(m) => Saved(commVector, m)
    <3> SUFFICES ASSUME NEW m \in Held(FALSE), Ranked(m) PROVE Saved(commVector, m)
      OBVIOUS
    <3>1. PICK i \in DOMAIN pendingMessages :
            pendingMessages[i].isResponse = FALSE /\ pendingMessages[i].msg = m
      BY DEF Held
    <3> QED BY <3>1 DEF IInv, RanksSaved
  <2>2. \A m \in Msgs : place'[m] = "out" => m \in Held(FALSE) \/ place[m] = "out"
    BY <1>1
  <2>3. \A m \in Msgs : place'[m] = "new" => place[m] = "new"
    BY <1>1
  <2>4. commVector' = commVector /\ commId' = commId /\ pendingMessages' = <<>>
    BY <1>1
  <2>5. \A m \in Msgs : Ranked(m) /\ place'[m] = "out" => Saved(commVector, m)
    BY <2>1, <2>2 DEF IInv, RanksSaved
  <2>6. \A m \in Msgs : place'[m] = "new" => commId'[m] = Rank[m]
    BY <2>3, <2>4 DEF IInv, RanksSaved
  <2>7. \A e \in commVector' : e.commId = Rank[e.msgId]
    BY <2>4 DEF IInv, RanksSaved
  <2>8. DOMAIN pendingMessages' = {}
    BY <2>4
  <2>9. \A m \in Msgs : Ranked(m) /\ place'[m] = "out" => Saved(commVector', m)
    BY <2>4, <2>5
  <2> QED BY <2>6, <2>7, <2>8, <2>9 DEF RanksSaved, Ranked
<1> QED BY <1>6, <1>7, <1>8, <1>9, <1>10 DEF IInv

-----------------------------------------------------------------------------
(* The theorems. *)

LEMMA InitInv == Init => IInv
<1> SUFFICES ASSUME Init PROVE IInv
  OBVIOUS
<1>1. ControlTypes
  <2>1. holdsResponses \in BOOLEAN /\ migrateActive \in BOOLEAN
    BY MsgAssumption DEF Init
  <2>2. pendingMessages \in Seq(HeldMsg)
    BY DEF Init
  <2>3. pendingMsg \in [Kinds -> Int] /\ commId \in [Msgs -> Int]
    BY MsgAssumption DEF Init
  <2>4. place \in [Msgs -> Places] /\ stops \in Nat /\ notified \in Nat
    BY DEF Init, Places
  <2> QED BY <2>1, <2>2, <2>3, <2>4 DEF Init, ControlTypes
<1>2. HeldAreHeld /\ RanksSaved
  BY DEF Init, HeldAreHeld, RanksSaved
<1>3. StopPending
  BY DEF Init, StopPending
<1>4. ASSUME NEW k \in Kinds PROVE Cardinality(Outstanding(k)) = 0
  <2>1. Outstanding(k) = {}
    BY DEF Init, Outstanding, Msgs
  <2> QED BY <2>1, FS_EmptySet
<1>5. CountersExact
  BY <1>4 DEF Init, CountersExact
<1> QED BY <1>1, <1>2, <1>3, <1>5 DEF IInv

LEMMA NextInv == IInv /\ [Next]_vars => IInv'
<1> SUFFICES ASSUME IInv, [Next]_vars PROVE IInv'
  OBVIOUS
<1>1. ASSUME NEW m \in Msgs, ProcessRequest(m) PROVE IInv'
  <2>1. place[m] = "new"
    BY <1>1 DEF ProcessRequest
  <2>2. ControlTypes' /\ HeldAreHeld'
    BY <1>1, <2>1, ForwardTypes, HoldTypes
  <2>3. CountersExact' /\ StopPending'
    BY <1>1, <2>1, ForwardCounters, HoldCounters
  <2> QED BY <1>1, <2>2, <2>3, RequestRanks DEF IInv
<1>2. ASSUME NEW m \in Msgs, ProcessResponse(m) PROVE IInv'
  BY <1>2, ResponseTypes, ResponseCounters, ResponseStops, ResponseRanks DEF IInv
<1>3. ASSUME NEW m \in Msgs, Consume(m) PROVE IInv'
  BY <1>3, ConsumeInv
<1>4. CASE StopAndDown
  BY <1>4, StopInv
<1>5. CASE Activation
  BY <1>5, ActivationInv
<1>6. CASE UNCHANGED vars
  <2>1. ControlTypes' /\ HeldAreHeld' /\ RanksSaved'
    BY <1>6 DEF IInv, vars, ctlVars, ControlTypes, HeldAreHeld, RanksSaved, Ranked
  <2>2. CountersExact' /\ StopPending'
    BY <1>6 DEF IInv, vars, ctlVars, CountersExact, Outstanding, StopPending, Prepared
  <2> QED BY <2>1, <2>2 DEF IInv
<1> QED BY <1>1, <1>2, <1>3, <1>4, <1>5, <1>6 DEF Next

\* The invariant that carries the others holds in every reachable state.
THEOREM Invariant == Spec => []IInv
  BY InitInv, NextInv, PTL DEF Spec

\* The four counters are exactly the numbers of requests that the operating
\* system has still to answer, for any messages and any interleaving of
\* requests, responses, stops and flushes.
THEOREM CountersAreExact == Spec => []CountersExact
<1>1. IInv => CountersExact
  BY DEF IInv
<1> QED BY <1>1, Invariant, PTL

\* No stop is answered twice, as long as applications answer nothing that the
\* operating system asks them (OsAnswered): else a counter falls below zero.
THEOREM StopAnsweredOnce ==
  ASSUME OsAnswered = {}
  PROVE  Spec => []AnsweredOnce
<1>1. IInv => AnsweredOnce
  BY DEF IInv, StopPending, AnsweredOnce
<1> QED BY <1>1, Invariant, PTL

\* When a stop is answered no request of the guest is out.
THEOREM ReadyIsQuiet ==
  ASSUME OsAnswered = {}
  PROVE  Spec => ReadyMeansQuiet
<1>1. ASSUME IInv, IInv', [Next]_vars, notified' > notified, NEW k \in Kinds
      PROVE  Outstanding(k)' = {}
  <2>1. notified \in Nat
    BY <1>1 DEF IInv, ControlTypes
  <2>2. notified' # notified
    BY <1>1, <2>1
  <2>3. Prepared(pendingMsg')
    <3>1. ASSUME NEW m \in Msgs, ProcessRequest(m) \/ Consume(m) PROVE FALSE
      BY <3>1, <2>2 DEF ProcessRequest, Consume
    <3>2. ASSUME NEW m \in Msgs, ProcessResponse(m) PROVE Prepared(pendingMsg')
      BY <3>2, <2>2 DEF ProcessResponse, HoldResponse, GiveBack
    <3>3. CASE StopAndDown
      BY <3>3, <2>2 DEF StopAndDown, Prepared
    <3>4. CASE Activation
      BY <3>4, <2>2 DEF Activation
    <3>5. CASE UNCHANGED vars
      BY <3>5, <2>2 DEF vars
    <3> QED BY <1>1, <3>1, <3>2, <3>3, <3>4, <3>5 DEF Next
  <2>4. Cardinality(Outstanding(k)') = 0
    BY <1>1, <2>3 DEF IInv, CountersExact, Prepared
  <2>5. IsFiniteSet(Outstanding(k)')
    <3>1. IsFiniteSet(Msgs) /\ Outstanding(k)' \subseteq Msgs
      BY MsgAssumption DEF Outstanding, Msgs
    <3> QED BY <3>1, FS_Subset
  <2> QED BY <2>4, <2>5, FS_EmptySet
<1>2. IInv /\ IInv' /\ [Next]_vars =>
        [notified' > notified => \A k \in Kinds : Outstanding(k)' = {}]_vars
  BY <1>1
<1> QED BY <1>2, Invariant, PTL DEF Spec, ReadyMeansQuiet

\* While the traffic is stopped nothing crosses the controller of a virtual
\* machine; only the daemon lets responses through.
THEOREM StoppedIsClosed == Spec => ClosedWhileMigrating
<1> DEFINE Closed == migrateActive /\ migrateActive' =>
                       \A m \in Msgs : place'[m] # place[m] =>
                         \/ place'[m] \in {"held", "gone"}
                         \/ ~holdsResponses /\ place'[m] = "back"
<1>1. ASSUME IInv, [Next]_vars PROVE [Closed]_vars
  <2>0. place \in [Msgs -> Places]
    BY <1>1 DEF IInv, ControlTypes
  <2>1. ASSUME NEW m \in Msgs, ProcessRequest(m) PROVE Closed
    BY <2>0, <2>1 DEF ProcessRequest, Hold
  <2>2. ASSUME NEW m \in Msgs, ProcessResponse(m) PROVE Closed
    BY <2>0, <2>2 DEF ProcessResponse, HoldResponse, GiveBack
  <2>3. ASSUME NEW m \in Msgs, Consume(m) PROVE Closed
    BY <2>0, <2>3 DEF Consume
  <2>4. CASE StopAndDown \/ Activation
    BY <2>4 DEF StopAndDown, Activation
  <2> QED BY <1>1, <2>1, <2>2, <2>3, <2>4 DEF Next
<1>2. IInv /\ [Next]_vars => [Closed]_vars
  BY <1>1
<1> QED BY <1>2, Invariant, PTL DEF Spec, ClosedWhileMigrating

\* A response that is passed on at once carries the rank of its application
\* again, when every network message has a rank.
THEOREM RanksAreKept ==
  ASSUME \A m \in AppMsgs : Kind[m] = "NET" => Rank[m] # NoRank
  PROVE  Spec => RankKept
<1> DEFINE Back == \A m \in AppMsgs :
                     place[m] = "out" /\ place'[m] = "back" /\ Kind[m] = "NET" => commId'[m] = Rank[m]
<1>1. ASSUME IInv, [Next]_vars PROVE [Back]_vars
  <2>0. place \in [Msgs -> Places] /\ commId \in [Msgs -> Int]
    BY <1>1 DEF IInv, ControlTypes
  <2>1. ASSUME NEW n \in Msgs, ProcessRequest(n) \/ Consume(n) PROVE Back
    BY <2>0, <2>1 DEF ProcessRequest, Hold, Forward, Consume, Msgs
  <2>2. ASSUME NEW n \in Msgs, ProcessResponse(n) PROVE Back
    <3> SUFFICES ASSUME NEW m \in AppMsgs, place[m] = "out", place'[m] = "back", Kind[m] = "NET"
                 PROVE  commId'[m] = Rank[m]
      OBVIOUS
    <3>1. m = n /\ m \in Msgs
      BY <1>1, <2>2, ResponseTypes DEF Msgs
    <3>2. RestoreCommId(m)
      BY <2>0, <2>2, <3>1 DEF ProcessResponse, HoldResponse, GiveBack
    <3>3. Saved(commVector, m)
      BY <1>1, <3>1 DEF IInv, RanksSaved, Ranked
    <3>4. {e \in commVector : e.msgId = m} # {}
      BY <3>3 DEF Saved
    <3>5. PICK e \in commVector : e.msgId = m /\ commId' = [commId EXCEPT ![m] = e.commId]
      BY <3>2, <3>4 DEF RestoreCommId
    <3>6. e.commId = Rank[m]
      BY <1>1, <3>5 DEF IInv, RanksSaved
    <3> QED BY <2>0, <3>1, <3>5, <3>6
  <2>3. CASE StopAndDown
    BY <2>3 DEF StopAndDown
  <2>4. CASE Activation
    <3>1. \A resp : Held(resp) \subseteq {m \in Msgs : place[m] = "held"}
      BY <1>1, HeldPlaces
    <3>2. \A m \in Msgs : place[m] = "out" => place'[m] = "out"
      BY <2>4, <3>1 DEF Activation, Flush
    <3> QED BY <3>2 DEF Msgs
  <2> QED BY <1>1, <2>1, <2>2, <2>3, <2>4 DEF Next
<1>2. IInv /\ [Next]_vars => [Back]_vars
  BY <1>1
<1> QED BY <1>2, Invariant, PTL DEF Spec, RankKept-----------------------------------------------------------------------------
(* The order of the requests. *)

AppRequests == [msg : AppMsgs, isResponse : {FALSE}]
MsgsOf(list) == [i \in DOMAIN list |-> list[i].msg]

\* What has been asked and not forwarded is held, in its order.
InOrder ==
  /\ sent \in Seq(AppMsgs) /\ forwarded \in Seq(AppMsgs)
  /\ sent = forwarded \o MsgsOf(HeldAppRequests)
  /\ ~migrateActive => pendingMessages = <<>>
  /\ stops <= MaxStops

LEMMA HeldRequestsTyped ==
  ASSUME ControlTypes
  PROVE  HeldAppRequests \in Seq(AppRequests) /\ MsgsOf(HeldAppRequests) \in Seq(AppMsgs)
<1>1. HeldAppRequests \in Seq(HeldMsg \cap AppRequests)
  BY WithinPlaces DEF ControlTypes, HeldAppRequests, AppRequests
<1>2. HeldAppRequests \in Seq(AppRequests)
  BY <1>1
<1>3. PICK h \in Seq(AppRequests) : h = HeldAppRequests
  BY <1>2
<1>4. ASSUME NEW i \in 1 .. Len(h) PROVE h[i].msg \in AppMsgs
  <2>1. h[i] \in AppRequests
    OBVIOUS
  <2> QED BY <2>1 DEF AppRequests
<1>5. [i \in DOMAIN h |-> h[i].msg] \in Seq(AppMsgs)
  BY <1>4
<1> QED BY <1>2, <1>3, <1>5 DEF MsgsOf

\* One more element of a list of held requests.
LEMMA MsgsAppend ==
  ASSUME NEW h \in Seq(AppRequests), NEW e \in AppRequests
  PROVE  MsgsOf(Append(h, e)) = Append(MsgsOf(h), e.msg)
<1>1. PICK l \in Seq(AppRequests) :
        l = Append(h, e) /\ Len(l) = Len(h) + 1 /\ l[Len(h) + 1] = e
        /\ \A i \in 1 .. Len(h) : l[i] = h[i]
  <2> HIDE DEF AppRequests
  <2>1. /\ Append(h, e) \in Seq(AppRequests) /\ Len(Append(h, e)) = Len(h) + 1
        /\ Append(h, e)[Len(h) + 1] = e /\ \A i \in 1 .. Len(h) : Append(h, e)[i] = h[i]
    BY AppendProperties
  <2> QED BY <2>1
<1>2. e.msg \in AppMsgs /\ \A i \in 1 .. Len(h) : h[i].msg \in AppMsgs
  <2>1. \A x \in AppRequests : x.msg \in AppMsgs
    BY DEF AppRequests
  <2>2. \A i \in 1 .. Len(h) : h[i] \in AppRequests
    OBVIOUS
  <2> QED BY <2>1, <2>2
<1>3. PICK m \in Seq(AppMsgs) : m = MsgsOf(h) /\ Len(m) = Len(h)
                                /\ \A i \in 1 .. Len(h) : m[i] = h[i].msg
  <2>1. [i \in DOMAIN h |-> h[i].msg] \in Seq(AppMsgs)
    BY <1>2
  <2> QED BY <2>1 DEF MsgsOf
<1>4. PICK x \in AppMsgs : x = e.msg
  BY <1>2
<1>5. \A i \in 1 .. Len(h) + 1 : l[i].msg = Append(m, x)[i]
  BY <1>1, <1>3, <1>4
<1>6. Append(m, x) = [i \in 1 .. Len(h) + 1 |-> Append(m, x)[i]]
  <2>1. Append(m, x) \in Seq(AppMsgs) /\ Len(Append(m, x)) = Len(h) + 1
    BY <1>3, AppendProperties
  <2>2. PICK s \in Seq(AppMsgs) : s = Append(m, x)
    BY <2>1
  <2>3. s = [i \in 1 .. Len(s) |-> s[i]]
    OBVIOUS
  <2> QED BY <2>1, <2>2, <2>3
<1>7. MsgsOf(l) = [i \in 1 .. Len(h) + 1 |-> l[i].msg]
  BY <1>1 DEF MsgsOf
<1> QED BY <1>1, <1>3, <1>4, <1>5, <1>6, <1>7

\* A message that is held is put behind those that are held.
LEMMA HoldRequestOrder ==
  ASSUME IInv, InOrder, NEW m \in Msgs, migrateActive, ProcessRequest(m)
  PROVE  InOrder'
<1>1. /\ pendingMessages' = Append(pendingMessages, Request(m)) /\ forwarded' = forwarded
      /\ sent' = (IF m \in AppMsgs THEN Append(sent, m) ELSE sent)
      /\ migrateActive' = migrateActive /\ stops' = stops
  BY DEF ProcessRequest, Hold, FromApp
<1>2. Request(m) \in HeldMsg /\ pendingMessages \in Seq(HeldMsg)
      /\ (Request(m) \in AppRequests <=> m \in AppMsgs) /\ Request(m).msg = m
  BY DEF Request, HeldMsg, AppRequests, IInv, ControlTypes
<1>3. HeldAppRequests' = IF m \in AppMsgs THEN Append(HeldAppRequests, Request(m))
                                          ELSE HeldAppRequests
  <2>1. Within(Append(pendingMessages, Request(m)), AppRequests) =
          IF Request(m) \in AppRequests THEN Append(Within(pendingMessages, AppRequests), Request(m))
                                        ELSE Within(pendingMessages, AppRequests)
    BY <1>2, WithinAppend
  <2>2. HeldAppRequests = Within(pendingMessages, AppRequests)
    BY DEF HeldAppRequests, AppRequests
  <2>3. HeldAppRequests' = Within(pendingMessages', AppRequests)
    BY DEF HeldAppRequests, AppRequests
  <2> QED BY <1>1, <1>2, <2>1, <2>2, <2>3
<1>4. HeldAppRequests \in Seq(AppRequests) /\ MsgsOf(HeldAppRequests) \in Seq(AppMsgs)
  BY HeldRequestsTyped DEF IInv
<1>5. PICK h \in Seq(AppRequests) : h = HeldAppRequests /\ MsgsOf(h) \in Seq(AppMsgs)
  BY <1>4
<1>6. CASE m \in AppMsgs
  <2>1. MsgsOf(HeldAppRequests') = Append(MsgsOf(h), m)
    BY <1>2, <1>3, <1>5, <1>6, MsgsAppend
  <2>2. PICK q \in Seq(AppMsgs), f \in Seq(AppMsgs) : q = MsgsOf(h) /\ f = forwarded
    BY <1>5 DEF InOrder
  <2>3. sent = f \o q /\ sent' = Append(f \o q, m)
    BY <1>1, <1>5, <1>6, <2>2 DEF InOrder
  <2>4. Append(f \o q, m) = f \o Append(q, m)
    BY SMTT(30), <1>6, <2>2
  <2>5. f \o Append(q, m) \in Seq(AppMsgs)
    BY <1>6
  <2>6. sent' = forwarded' \o MsgsOf(HeldAppRequests')
    BY <1>1, <2>1, <2>2, <2>3, <2>4
  <2> QED BY <1>1, <2>2, <2>3, <2>4, <2>5, <2>6 DEF InOrder, MsgsOf
<1>7. CASE m \notin AppMsgs
  BY <1>1, <1>3, <1>7 DEF InOrder, MsgsOf
<1> QED BY <1>6, <1>7

LEMMA ForwardOrder ==
  ASSUME IInv, InOrder, NEW m \in Msgs, ~migrateActive, ProcessRequest(m)
  PROVE  InOrder'
<1>1. /\ pendingMessages' = pendingMessages
      /\ forwarded' = (IF m \in AppMsgs THEN Append(forwarded, m) ELSE forwarded)
      /\ sent' = (IF m \in AppMsgs THEN Append(sent, m) ELSE sent)
      /\ migrateActive' = migrateActive /\ stops' = stops
  BY DEF ProcessRequest, Forward, FromApp
<1>2. pendingMessages = <<>>
  BY DEF InOrder
<1>3. HeldAppRequests = <<>> /\ HeldAppRequests' = <<>>
  BY <1>1, <1>2, WithinEmpty DEF HeldAppRequests
<1>4. MsgsOf(<<>>) = <<>>
  BY DEF MsgsOf
<1>5. sent = forwarded
  BY <1>3, <1>4 DEF InOrder
<1>6. sent' = forwarded' /\ sent' \in Seq(AppMsgs)
  BY <1>1, <1>5 DEF InOrder
<1>7. MsgsOf(HeldAppRequests)' = <<>>
  BY <1>3, <1>4 DEF MsgsOf
<1>8. sent' = forwarded' \o <<>>
  BY <1>6
<1> QED BY <1>1, <1>6, <1>7, <1>8 DEF InOrder

LEMMA ResponseOrder ==
  ASSUME IInv, InOrder, NEW m \in Msgs, ProcessResponse(m)
  PROVE  InOrder'
<1>1. UNCHANGED <<migrateActive, stops, sent, forwarded>>
  BY DEF ProcessResponse
<1>2. CASE migrateActive /\ holdsResponses
  <2>1. pendingMessages' = Append(pendingMessages, Response(m))
    BY <1>2 DEF ProcessResponse, HoldResponse
  <2>2. Response(m) \in HeldMsg /\ pendingMessages \in Seq(HeldMsg) /\ Response(m) \notin AppRequests
    BY DEF Response, HeldMsg, AppRequests, IInv, ControlTypes
  <2>3. HeldAppRequests' = HeldAppRequests
    BY <2>1, <2>2, WithinAppend DEF HeldAppRequests, AppRequests
  <2> QED BY <1>1, <1>2, <2>3 DEF InOrder, MsgsOf
<1>3. CASE ~(migrateActive /\ holdsResponses)
  <2>1. pendingMessages' = pendingMessages
    BY <1>3 DEF ProcessResponse, GiveBack
  <2> QED BY <1>1, <2>1 DEF InOrder, HeldAppRequests, MsgsOf
<1> QED BY <1>2, <1>3

LEMMA ActivationOrder ==
  ASSUME IInv, InOrder, Activation
  PROVE  InOrder'
<1>1. /\ pendingMessages' = <<>> /\ UNCHANGED <<stops, sent>>
      /\ forwarded' = forwarded \o MsgsOf(HeldAppRequests)
  BY DEF Activation, Flush, MsgsOf
<1>2. HeldAppRequests' = <<>>
  BY <1>1, WithinEmpty DEF HeldAppRequests
<1>3. MsgsOf(HeldAppRequests)' = <<>>
  BY <1>2 DEF MsgsOf
<1>4. sent' = forwarded' /\ sent' \in Seq(AppMsgs)
  BY <1>1 DEF InOrder
<1>5. sent' = forwarded' \o <<>>
  BY <1>4
<1> QED BY <1>1, <1>3, <1>4, <1>5 DEF InOrder

LEMMA OrderInv == IInv /\ InOrder /\ [Next]_vars => InOrder'
<1> SUFFICES ASSUME IInv, InOrder, [Next]_vars PROVE InOrder'
  OBVIOUS
<1>1. ASSUME NEW m \in Msgs, ProcessRequest(m) PROVE InOrder'
  BY <1>1, HoldRequestOrder, ForwardOrder
<1>2. ASSUME NEW m \in Msgs, ProcessResponse(m) PROVE InOrder'
  BY <1>2, ResponseOrder
<1>3. ASSUME NEW m \in Msgs, Consume(m) PROVE InOrder'
  BY <1>3 DEF Consume, ctlVars, InOrder, HeldAppRequests, MsgsOf
<1>4. ASSUME StopAndDown PROVE InOrder'
  <2>1. /\ stops' = stops + 1 /\ stops < MaxStops /\ migrateActive' = TRUE
        /\ UNCHANGED <<pendingMessages, sent, forwarded>>
    BY <1>4 DEF StopAndDown
  <2>2. stops' <= MaxStops
    BY <2>1, MsgAssumption DEF IInv, ControlTypes
  <2> QED BY <2>1, <2>2 DEF InOrder, HeldAppRequests, MsgsOf
<1>5. ASSUME UNCHANGED vars PROVE InOrder'
  BY <1>5 DEF vars, ctlVars, InOrder, HeldAppRequests, MsgsOf
<1> QED BY <1>1, <1>2, <1>3, <1>4, <1>5, ActivationOrder DEF Next

LEMMA OrderInit == Init => InOrder
<1> SUFFICES ASSUME Init PROVE InOrder
  OBVIOUS
<1>1. HeldAppRequests = <<>>
  BY WithinEmpty DEF Init, HeldAppRequests
<1>2. MsgsOf(HeldAppRequests) = <<>>
  BY <1>1 DEF MsgsOf
<1>3. stops <= MaxStops
  BY MsgAssumption DEF Init
<1> QED BY <1>2, <1>3 DEF Init, InOrder

\* What is held, in its order, comes after what the operating system has been given
\* and before what the applications have still to send, in every reachable state.
THEOREM InOrderInvariant == Spec => []InOrder
  BY OrderInit, OrderInv, Invariant, PTL DEF Spec

\* Requests reach the operating system in the order in which the applications
\* made them, through any number of stops and flushes, whatever was held between
\* them: responses and messages of the operating system are held in the same list.
THEOREM OrderIsKept == Spec => []OrderKept
<1>1. IInv /\ InOrder => OrderKept
  <2> SUFFICES ASSUME IInv, InOrder PROVE OrderKept
    OBVIOUS
  <2>1. MsgsOf(HeldAppRequests) \in Seq(AppMsgs)
    BY HeldRequestsTyped DEF IInv
  <2>2. PICK q \in Seq(AppMsgs), f \in Seq(AppMsgs) : q = MsgsOf(HeldAppRequests) /\ f = forwarded
    BY <2>1 DEF InOrder
  <2>3. sent = f \o q
    BY <2>2 DEF InOrder
  <2>4. Len(f) <= Len(f \o q) /\ \A i \in DOMAIN f : f[i] = (f \o q)[i]
    OBVIOUS
  <2>5. ASSUME ~migrateActive PROVE Len(f) = Len(f \o q) /\ pendingMessages = <<>>
    <3>1. pendingMessages = <<>>
      BY <2>5 DEF InOrder
    <3>2. HeldAppRequests = <<>>
      BY <3>1, WithinEmpty DEF HeldAppRequests
    <3>3. q = <<>>
      BY <2>2, <3>2 DEF MsgsOf
    <3> QED BY <3>1, <3>3
  <2> QED BY <2>2, <2>3, <2>4, <2>5 DEF OrderKept
<1> QED BY <1>1, Invariant, InOrderInvariant, PTL

\* Types; without answers of applications to the operating system no counter is
\* ever negative, although it is lowered for every response.
THEOREM TypeCorrect == Spec => []TypeOK
<1>1. IInv /\ InOrder => TypeOK
  <2> SUFFICES ASSUME IInv, InOrder PROVE TypeOK
    OBVIOUS
  <2>1. pendingMsg \in [Kinds -> IF OsAnswered = {} THEN Nat ELSE Int]
    <3>1. CASE OsAnswered = {}
      <4>1. \A k \in Kinds : pendingMsg[k] \in Nat
        BY <3>1, OutstandingFinite DEF IInv, CountersExact
      <4> QED BY <3>1, <4>1 DEF IInv, ControlTypes
    <3>2. CASE OsAnswered # {}
      BY <3>2 DEF IInv, ControlTypes
    <3> QED BY <3>1, <3>2
  <2>2. stops \in 0 .. MaxStops
    BY MsgAssumption DEF IInv, ControlTypes, InOrder
  <2> QED BY <2>1, <2>2 DEF IInv, ControlTypes, HeldMsg, InOrder, TypeOK
<1> QED BY <1>1, Invariant, InOrderInvariant, PTL
=============================================================================
