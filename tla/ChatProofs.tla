----------------------------- MODULE ChatProofs -----------------------------
(* Theorems of Chat, for every number of sockets, messages, pieces of an      *)
(* answer and failures.                                                      *)
EXTENDS Chat, TLAPS

-----------------------------------------------------------------------------
(* The send box *)

\* What only the page decides: its current socket, the timer, the send box.  A
\* reconnect is due only when the current socket is closed.
SendInv ==
    /\ ws \in Conns
    /\ DOMAIN socket = Conns
    /\ timer => socket[ws] = "closed"
    /\ input => socket[ws] \in {"open", "closing"}

SendView == <<ws, socket, timer, input>>

LEMMA SendInvInit == Init => SendInv
BY ChatBounds DEF Init, SocketsInit, PageInit, SendInv, Conns

LEMMA BridgeLeavesSendView == BridgeNext /\ UNCHANGED page => UNCHANGED SendView
<1> SUFFICES ASSUME BridgeNext, UNCHANGED page PROVE socket' = socket
  BY DEF page, client, view, SendView
<1> USE DEF sockets
<1>1. CASE AgentStreams \/ AgentFinishes \/ AgentFails
  BY <1>1 DEF AgentStreams, AgentFinishes, AgentFails
<1>2. ASSUME NEW n \in Conns, Dial(n) \/ ReadRes(n) \/ Select(n) PROVE socket' = socket
  BY <1>2 DEF Dial, ReadRes, Select
<1>3. ASSUME NEW n \in Conns, RequestFails(n) \/ TimesOut(n) PROVE socket' = socket
  BY <1>3 DEF RequestFails, TimesOut, Abandon
<1>4. ASSUME NEW n \in Conns, ReadSend(n) \/ SendRefused(n) \/ ReadHistory(n) \/ PageGone(n)
      PROVE  socket' = socket
  BY <1>4 DEF ReadSend, SendRefused, TakeSend, ReadHistory, PageGone
<1>5. ASSUME NEW n \in Conns, Pump(n) \/ PumpEnds(n) PROVE socket' = socket
  BY <1>5 DEF Pump, PumpEnds
<1>6. ASSUME NEW n \in Conns, GatewayAnswers(n) \/ GatewayRefuses(n) PROVE socket' = socket
  BY <1>6 DEF GatewayAnswers, GatewayRefuses, Respond
<1>7. ASSUME NEW n \in Conns, DialFails(n) \/ UpstreamBreaks(n) PROVE socket' = socket
  BY <1>7 DEF DialFails, UpstreamBreaks
<1> QED BY <1>1, <1>2, <1>3, <1>4, <1>5, <1>6, <1>7 DEF BridgeNext, Handle

LEMMA SendInvKept == SendInv /\ [Next]_vars => SendInv'
<1> SUFFICES ASSUME SendInv, [Next]_vars PROVE SendInv'
  OBVIOUS
<1> USE DEF SendInv
<1>1. ASSUME Closed PROVE SendInv'
  BY <1>1 DEF Closed
<1>2. CASE Accept
  BY <1>2 DEF Accept, Opened, view
<1>3. CASE BridgeNext /\ UNCHANGED page
  BY <1>3, BridgeLeavesSendView DEF SendView
<1>4. CASE ConnectFails \/ SocketBreaks \/ CloseEvent
  BY <1>1, <1>4 DEF ConnectFails, SocketBreaks, CloseEvent
<1>5. CASE Reconnect
  <2>1. /\ ws' = ws + 1 /\ ws < MaxConns /\ timer' = FALSE /\ input' = input
        /\ socket' = [socket EXCEPT ![ws + 1] = "connecting"]
    BY <1>5 DEF Reconnect, view
  <2>2. ws + 1 \in Conns /\ ~input
    BY <1>5, <2>1, ChatBounds DEF Reconnect, Conns
  <2> QED BY <2>1, <2>2
<1>6. CASE RequestHistory
  BY <1>6 DEF RequestHistory, page, client, view
<1>7. CASE Submit
  BY <1>7 DEF Submit, client
<1>8. CASE Receive
  <2>1. CASE StartsClosing
    BY <1>8, <2>1 DEF Receive, StartsClosing, page, client, view
  <2>2. CASE UNCHANGED <<socket, client>>
    BY <1>8, <2>2 DEF Receive, client
  <2> QED BY <1>8, <2>1, <2>2 DEF Receive
<1>9. CASE UNCHANGED vars
  BY <1>9 DEF vars, sockets, page, client, view
<1> QED BY <1>2, <1>3, <1>4, <1>5, <1>6, <1>7, <1>8, <1>9 DEF Next, PageNext

\* client.send drops a message unless the socket is open (gateway.ts); the
\* callbacks of the page enable the send box only while it is, or while it waits
\* for onclose after the server's close frame.
THEOREM SendBoxConnected == Spec => []InputMeansConnected
<1>1. SendInv => InputMeansConnected
  BY DEF SendInv, InputMeansConnected
<1> QED BY <1>1, SendInvInit, SendInvKept, PTL DEF Spec

-----------------------------------------------------------------------------
(* Types *)

LEMMA FramesTyped ==
    /\ \A t \in {"ready", "failed", "close"} : Control(t) \in PageFrames
    /\ \A S \in SUBSET Runs, e \in BOOLEAN : Transcript(S, e) \in PageFrames
    /\ ChatEvents \subseteq PageFrames
    /\ Control("history") \in ServerFrames
    /\ \A r \in Runs : Message(r) \in ServerFrames
    /\ \A r \in Runs : Event("final", r, 0) \in ChatEvents /\ Event("error", r, 0) \in ChatEvents
    /\ \A r \in Runs, k \in 1 .. MaxDeltas : Event("delta", r, k) \in ChatEvents
BY DEF PageFrames, ServerFrames, ChatEvents

LEMMA ServerFrameFields ==
    ASSUME NEW f \in ServerFrames, f.t = "send"
    PROVE  f.run \in Runs
BY DEF ServerFrames, Control, Message

LEMMA ChatEventFields ==
    ASSUME NEW f \in ChatEvents
    PROVE  /\ f.run \in Runs /\ f.t \in {"delta", "final", "error"}
BY DEF ChatEvents, Event

LEMMA PageFrameFields ==
    ASSUME NEW f \in PageFrames
    PROVE  /\ f.t \in {"delta", "final", "error"} => f.run \in Runs /\ f \in ChatEvents
           /\ f.t = "history" => f.runs \in SUBSET Runs /\ f.empty \in BOOLEAN
<1>1. CASE f \in {Control(t) : t \in {"ready", "failed", "close"}}
  BY <1>1 DEF Control
<1>2. CASE f \in {Transcript(S, e) : S \in SUBSET Runs, e \in BOOLEAN}
  BY <1>2 DEF Transcript
<1>3. CASE f \in ChatEvents
  BY <1>3, ChatEventFields
<1> QED BY <1>1, <1>2, <1>3 DEF PageFrames

LEMMA ResponseFields ==
    ASSUME NEW f \in Responses \union ChatEvents
    PROVE  f.t # "res" => f \in ChatEvents
<1>1. CASE f \in ChatEvents
  BY <1>1, ChatEventFields
<1>2. CASE f \in Responses
  BY <1>2 DEF Responses
<1> QED BY <1>1, <1>2

LEMMA ResponseMade ==
    ASSUME NEW ok \in BOOLEAN, NEW found \in BOOLEAN, NEW P \in SUBSET Posts
    PROVE  [t |-> "res", ok |-> ok, found |-> found, posts |-> P] \in Responses
BY DEF Responses

LEMMA PostTyped ==
    ASSUME NEW who \in {"user", "agent"}, NEW r \in Runs
    PROVE  Post(who, r) \in Posts
BY DEF Post, Posts

LEMMA AnswerTyped ==
    ASSUME BridgeTypeOK, NEW q \in Requests, NEW ok \in BOOLEAN
    PROVE  Answer(q, ok) \in Responses
<1>1. Latest \in SUBSET Posts /\ session \in BOOLEAN
  BY DEF BridgeTypeOK, BridgeTypes, Latest
<1> DEFINE found == ok /\ q = "list" /\ session
           P == IF ok /\ q = "history" THEN Latest ELSE {}
<1>2. found \in BOOLEAN /\ P \in SUBSET Posts
  BY <1>1
<1>3. Answer(q, ok) = [t |-> "res", ok |-> ok, found |-> found, posts |-> P]
  BY DEF Answer
<1> HIDE DEF found, P
<1> QED BY <1>2, <1>3, ResponseMade

LEMMA HistoryTyped ==
    ASSUME NEW f
    PROVE  History(f) \in PageFrames /\ History(f).t = "history"
<1>1. PICK S \in SUBSET Runs, e \in BOOLEAN : History(f) = Transcript(S, e)
  BY DEF History
<1> QED BY <1>1, FramesTyped DEF Transcript

LEMMA WrittenTyped ==
    ASSUME SocketsTypeOK, NEW n \in Conns, NEW frames \in Seq(PageFrames)
    PROVE  Written(n, frames) \in [Conns -> Seq(PageFrames)]
BY DEF Written, SocketsTypeOK

\* The server serves a socket only once it has accepted it.
Undialled == \A n \in Conns : socket[n] \in {"unused", "connecting"} => srv[n] = "none"

\* The types of what the bridge changes, and of what the page changes.
BridgeInv == SocketsTypeOK /\ BridgeTypeOK /\ Undialled
TypeInv == BridgeInv /\ PageTypeOK

LEMMA FaultTyped ==
    ASSUME SocketsTypeOK, Fault
    PROVE  faults' \in 0 .. MaxFaults
BY ChatBounds DEF SocketsTypeOK, Fault

LEMMA BroadcastTyped ==
    ASSUME BridgeInv, NEW e \in ChatEvents, Broadcast(e)
    PROVE  /\ fromGw' \in [Conns -> Seq(Responses \union ChatEvents)]
           /\ \A n \in Conns : up[n] # "open" => fromGw'[n] = fromGw[n]
BY DEF BridgeInv, BridgeTypeOK, BridgeTypes, Broadcast

LEMMA ForwardedTyped ==
    ASSUME BridgeInv, NEW n \in Conns, fromGw[n] # <<>>, IsChat(Head(fromGw[n]))
    PROVE  Written(n, <<Head(fromGw[n])>>) \in [Conns -> Seq(PageFrames)]
<1>1. Head(fromGw[n]) \in Responses \union ChatEvents
  BY DEF BridgeInv, BridgeTypeOK, BridgeTypes
<1>2. Head(fromGw[n]) \in PageFrames
  BY <1>1, ResponseFields, FramesTyped DEF IsChat, Responses
<1>3. <<Head(fromGw[n])>> \in Seq(PageFrames)
  BY <1>2
<1> QED BY <1>3, WrittenTyped DEF BridgeInv

LEMMA LeaveKeepsTypes ==
    ASSUME BridgeInv, NEW n \in Conns, NEW frames \in Seq(PageFrames), srv[n] # "none",
           Leave(n, frames),
           UNCHANGED <<socket, toServer, torn, agent>>,
           faults' \in 0 .. MaxFaults,
           hist' \in [Conns -> {"due", "sent", "skipped"}]
    PROVE  BridgeInv'
<1>1. toPage' \in [Conns -> Seq(PageFrames)]
  <2>1. frames \o <<Control("close")>> \in Seq(PageFrames)
    BY FramesTyped
  <2> QED BY <2>1, WrittenTyped DEF Leave, BridgeInv
<1>2. SocketsTypeOK'
  BY <1>1 DEF BridgeInv, SocketsTypeOK
<1>3. BridgeTypes'
  <2> USE DEF BridgeInv, BridgeTypeOK, BridgeTypes
  <2>1. srv' \in [Conns -> {"none", "dial", "list", "create", "history",
                            "select", "read", "ask", "done"}]
    BY DEF Leave, At
  <2>2. pump' \in [Conns -> {"off", "on", "ended"}]
    BY DEF Leave
  <2>3. up' \in [Conns -> {"none", "open", "broken", "closed"}] /\ asked' \in [Conns -> Requests]
    BY DEF Leave, Cut, Requests
  <2>4. fromGw' \in [Conns -> Seq(Responses \union ChatEvents)]
    BY DEF Leave, Cut
  <2>5. UNCHANGED <<torn, session, inbox, said, log, omitted, refused>>
    BY DEF agent
  <2> QED BY <2>1, <2>2, <2>3, <2>4, <2>5
<1>4. BridgeLinks'
  BY DEF BridgeInv, BridgeTypeOK, BridgeTypes, BridgeLinks, Leave, At, Cut
<1>5. Undialled'
  BY DEF BridgeInv, BridgeTypeOK, BridgeTypes, Undialled, Leave, At
<1> QED BY <1>2, <1>3, <1>4, <1>5 DEF BridgeInv, BridgeTypeOK

LEMMA AgentStreamsKeepsTypes ==
    ASSUME BridgeInv, AgentStreams
    PROVE  BridgeInv'
<1> USE DEF BridgeInv, BridgeTypeOK, AgentStreams, sockets, handler, upstream, agent
<1>1. SocketsTypeOK'
  BY DEF SocketsTypeOK
<1>2. BridgeTypes'
  <2>1. Head(inbox) \in Runs /\ Tail(inbox) \in Seq(Runs)
    BY DEF BridgeTypes
  <2>2. said' \in 0 .. MaxDeltas /\ said + 1 \in 1 .. MaxDeltas
    BY ChatBounds DEF BridgeTypes
  <2>3. Event("delta", Head(inbox), said + 1) \in ChatEvents
    BY <2>1, <2>2, FramesTyped
  <2>4. fromGw' \in [Conns -> Seq(Responses \union ChatEvents)]
    BY <2>3, BroadcastTyped
  <2> QED BY <2>1, <2>2, <2>4 DEF BridgeTypes
<1>3. BridgeLinks'
  BY DEF BridgeTypes, BridgeLinks, Broadcast
<1>4. Undialled'
  BY DEF BridgeTypes, Undialled
<1> QED BY <1>1, <1>2, <1>3, <1>4

LEMMA AgentFinishesKeepsTypes ==
    ASSUME BridgeInv, AgentFinishes
    PROVE  BridgeInv'
<1> USE DEF BridgeInv, BridgeTypeOK, AgentFinishes, sockets, handler, upstream, agent
<1>1. SocketsTypeOK'
  BY DEF SocketsTypeOK
<1>2. BridgeTypes'
  <2>1. Head(inbox) \in Runs /\ Tail(inbox) \in Seq(Runs)
    BY DEF BridgeTypes
  <2>2. said' \in 0 .. MaxDeltas
    BY ChatBounds DEF BridgeTypes
  <2>3. Event("final", Head(inbox), 0) \in ChatEvents
    BY <2>1, FramesTyped
  <2>4. fromGw' \in [Conns -> Seq(Responses \union ChatEvents)]
    BY <2>3, BroadcastTyped
  <2>5. log' \in Seq(Posts)
    BY <2>1, PostTyped DEF BridgeTypes
  <2> QED BY <2>1, <2>2, <2>4, <2>5 DEF BridgeTypes
<1>3. BridgeLinks'
  BY DEF BridgeTypes, BridgeLinks, Broadcast
<1>4. Undialled'
  BY DEF BridgeTypes, Undialled
<1> QED BY <1>1, <1>2, <1>3, <1>4

LEMMA AgentFailsKeepsTypes ==
    ASSUME BridgeInv, AgentFails
    PROVE  BridgeInv'
<1> USE DEF BridgeInv, BridgeTypeOK, AgentFails, sockets, handler, upstream, agent
<1>1. SocketsTypeOK'
  BY FaultTyped DEF SocketsTypeOK
<1>2. BridgeTypes'
  <2>1. Head(inbox) \in Runs /\ Tail(inbox) \in Seq(Runs)
    BY DEF BridgeTypes
  <2>2. said' \in 0 .. MaxDeltas
    BY ChatBounds DEF BridgeTypes
  <2>3. Event("error", Head(inbox), 0) \in ChatEvents
    BY <2>1, FramesTyped
  <2>4. fromGw' \in [Conns -> Seq(Responses \union ChatEvents)]
    BY <2>3, BroadcastTyped
  <2> QED BY <2>1, <2>2, <2>4 DEF BridgeTypes
<1>3. BridgeLinks'
  BY DEF BridgeTypes, BridgeLinks, Broadcast
<1>4. Undialled'
  BY DEF BridgeTypes, Undialled
<1> QED BY <1>1, <1>2, <1>3, <1>4

LEMMA UpstreamBreaksKeepsTypes ==
    ASSUME BridgeInv, NEW n \in Conns, UpstreamBreaks(n)
    PROVE  BridgeInv'
<1> USE DEF BridgeInv, BridgeTypeOK, UpstreamBreaks, sockets, handler, upstream, agent
<1>1. SocketsTypeOK'
  BY FaultTyped DEF SocketsTypeOK
<1>2. BridgeTypes'
  BY DEF BridgeTypes, Cut, Requests
<1>3. BridgeLinks'
  BY DEF BridgeTypes, BridgeLinks, Cut
<1>4. Undialled'
  BY DEF BridgeTypes, Undialled
<1> QED BY <1>1, <1>2, <1>3, <1>4

LEMMA DialKeepsTypes ==
    ASSUME BridgeInv, NEW n \in Conns, Dial(n)
    PROVE  BridgeInv'
<1> USE DEF BridgeInv, BridgeTypeOK, Dial, sockets, handler, upstream, agent
<1>1. SocketsTypeOK'
  BY DEF SocketsTypeOK
<1>2. BridgeTypes'
  BY DEF BridgeTypes, At, Ask, Requests
<1>3. BridgeLinks'
  BY DEF BridgeTypes, BridgeLinks, At, Ask
<1>4. Undialled'
  BY DEF BridgeTypes, Undialled, At
<1> QED BY <1>1, <1>2, <1>3, <1>4

LEMMA PumpEndsKeepsTypes ==
    ASSUME BridgeInv, NEW n \in Conns, PumpEnds(n)
    PROVE  BridgeInv'
<1> USE DEF BridgeInv, BridgeTypeOK, PumpEnds, sockets, handler, upstream, agent
<1>1. SocketsTypeOK'
  BY DEF SocketsTypeOK
<1>2. BridgeTypes'
  BY DEF BridgeTypes
<1>3. BridgeLinks'
  BY DEF BridgeTypes, BridgeLinks
<1>4. Undialled'
  BY DEF BridgeTypes, Undialled
<1> QED BY <1>1, <1>2, <1>3, <1>4

LEMMA PumpKeepsTypes ==
    ASSUME BridgeInv, NEW n \in Conns, Pump(n)
    PROVE  BridgeInv'
<1> USE DEF BridgeInv, BridgeTypeOK, Pump, sockets, handler, upstream, agent
<1>1. SocketsTypeOK'
  BY ForwardedTyped DEF SocketsTypeOK
<1>2. BridgeTypes'
  BY DEF BridgeTypes
<1>3. BridgeLinks'
  BY DEF BridgeTypes, BridgeLinks
<1>4. Undialled'
  BY DEF BridgeTypes, Undialled
<1> QED BY <1>1, <1>2, <1>3, <1>4

LEMMA ReadSendKeepsTypes ==
    ASSUME BridgeInv, NEW n \in Conns, ReadSend(n) \/ SendRefused(n)
    PROVE  BridgeInv'
<1> USE DEF BridgeInv, BridgeTypeOK, ReadSend, SendRefused, TakeSend, sockets, handler, upstream, agent
<1>0. toServer' = [toServer EXCEPT ![n] = Tail(@)] /\ toServer[n] # <<>> /\ socket' = socket
  OBVIOUS
<1>1. SocketsTypeOK'
  <2>1. <<Control("failed")>> \in Seq(PageFrames)
    BY FramesTyped
  <2>2. Written(n, <<Control("failed")>>) \in [Conns -> Seq(PageFrames)]
    BY <2>1, WrittenTyped
  <2>3. toServer' \in [Conns -> Seq(ServerFrames)]
    <3>1. toServer \in [Conns -> Seq(ServerFrames)]
      BY DEF SocketsTypeOK
    <3> HIDE DEF BridgeInv, BridgeTypeOK, ReadSend, SendRefused
    <3> QED BY <1>0, <3>1
  <2>4. toPage' \in [Conns -> Seq(PageFrames)]
    BY <2>2 DEF SocketsTypeOK
  <2>5. faults' \in 0 .. MaxFaults
    BY FaultTyped DEF SocketsTypeOK
  <2> QED BY <2>3, <2>4, <2>5 DEF SocketsTypeOK
<1>2. BridgeTypes'
  <2>1. Head(toServer[n]).run \in Runs
    BY ServerFrameFields DEF SocketsTypeOK
  <2>2. inbox' \in Seq(Runs)
    <3>1. inbox' \in {inbox, Append(inbox, Head(toServer[n]).run)}
      OBVIOUS
    <3>2. \A r \in Runs : Append(inbox, r) \in Seq(Runs)
      BY DEF BridgeTypes
    <3> QED BY <2>1, <3>1, <3>2 DEF BridgeTypes
  <2>3. srv' \in [Conns -> {"none", "dial", "list", "create", "history",
                            "select", "read", "ask", "done"}]
    <3>1. srv' = [srv EXCEPT ![n] = "select"]
      BY DEF At
    <3>2. srv \in [Conns -> {"none", "dial", "list", "create", "history",
                             "select", "read", "ask", "done"}]
      BY DEF BridgeTypes
    <3> HIDE DEF BridgeInv, BridgeTypeOK, ReadSend, SendRefused
    <3> QED BY <3>1, <3>2
  <2>4. log' \in Seq(Posts) /\ refused' \in SUBSET Runs
    <3>1. /\ log' \in {log, Append(log, Post("user", Head(toServer[n]).run))}
          /\ refused' \in {refused, refused \union {Head(toServer[n]).run}}
      OBVIOUS
    <3>2. Post("user", Head(toServer[n]).run) \in Posts
      BY <2>1, PostTyped
    <3>3. \A p \in Posts : Append(log, p) \in Seq(Posts)
      BY DEF BridgeTypes
    <3> QED BY <2>1, <3>1, <3>2, <3>3 DEF BridgeTypes
  <2> QED BY <2>2, <2>3, <2>4 DEF BridgeTypes
<1>3. BridgeLinks'
  BY DEF BridgeTypes, BridgeLinks, At
<1>4. Undialled'
  BY DEF BridgeTypes, Undialled, At
<1> QED BY <1>1, <1>2, <1>3, <1>4

LEMMA ReadHistoryKeepsTypes ==
    ASSUME BridgeInv, NEW n \in Conns, ReadHistory(n)
    PROVE  BridgeInv'
<1> USE DEF BridgeInv, BridgeTypeOK, ReadHistory, sockets, handler, upstream, agent
<1>1. SocketsTypeOK'
  BY DEF SocketsTypeOK
<1>2. BridgeTypes'
  BY DEF BridgeTypes, At, Ask, Requests
<1>3. BridgeLinks'
  BY DEF BridgeTypes, BridgeLinks, At, Ask
<1>4. Undialled'
  BY DEF BridgeTypes, Undialled, At
<1> QED BY <1>1, <1>2, <1>3, <1>4

LEMMA RespondKeepsTypes ==
    ASSUME BridgeInv, NEW n \in Conns, NEW ok \in BOOLEAN, Respond(n, ok), faults' \in 0 .. MaxFaults
    PROVE  BridgeInv'
<1> USE DEF BridgeInv, BridgeTypeOK, Respond, handler
<1>1. SocketsTypeOK'
  BY DEF SocketsTypeOK
<1>2. BridgeTypes'
  <2>1. asked[n] \in Requests
    BY DEF BridgeTypes
  <2>2. Answer(asked[n], ok) \in Responses \union ChatEvents
    BY <2>1, AnswerTyped
  <2>3. fromGw' \in [Conns -> Seq(Responses \union ChatEvents)]
    BY <2>2 DEF BridgeTypes
  <2>4. session' \in BOOLEAN /\ asked' \in [Conns -> Requests]
    BY DEF BridgeTypes, Requests
  <2>5. omitted' \in [Conns -> SUBSET Runs]
    BY DEF BridgeTypes, PassedOver, answered
  <2> QED BY <2>3, <2>4, <2>5 DEF BridgeTypes
<1>3. BridgeLinks'
  BY DEF BridgeTypes, BridgeLinks
<1>4. Undialled'
  BY DEF BridgeTypes, Undialled
<1> QED BY <1>1, <1>2, <1>3, <1>4

LEMMA GatewayKeepsTypes ==
    ASSUME BridgeInv, NEW n \in Conns, GatewayAnswers(n) \/ GatewayRefuses(n)
    PROVE  BridgeInv'
<1>1. faults' \in 0 .. MaxFaults
  BY FaultTyped DEF GatewayAnswers, GatewayRefuses, BridgeInv, SocketsTypeOK
<1> QED BY <1>1, RespondKeepsTypes DEF GatewayAnswers, GatewayRefuses

LEMMA NoFrames == <<>> \in Seq(PageFrames) /\ <<Control("failed")>> \in Seq(PageFrames)
BY FramesTyped

LEMMA EndingsKeepTypes ==
    ASSUME BridgeInv, NEW n \in Conns, DialFails(n) \/ PageGone(n)
    PROVE  BridgeInv'
<1>1. /\ faults' \in 0 .. MaxFaults
      /\ hist' \in [Conns -> {"due", "sent", "skipped"}]
      /\ srv[n] # "none"
      /\ UNCHANGED <<socket, toServer, torn, agent>>
  BY FaultTyped DEF DialFails, PageGone, BridgeInv, SocketsTypeOK, BridgeTypeOK, BridgeTypes
<1>2. CASE DialFails(n)
  BY <1>1, <1>2, NoFrames, LeaveKeepsTypes DEF DialFails, Unreachable
<1>3. CASE PageGone(n)
  BY <1>1, <1>3, NoFrames, LeaveKeepsTypes DEF PageGone
<1> QED BY <1>2, <1>3

LEMMA SelectKeepsTypes ==
    ASSUME BridgeInv, NEW n \in Conns, Select(n)
    PROVE  BridgeInv'
<1>1. CASE pump[n] = "ended"
  <2>1. /\ faults' \in 0 .. MaxFaults
        /\ hist' \in [Conns -> {"due", "sent", "skipped"}]
        /\ srv[n] # "none"
        /\ UNCHANGED <<socket, toServer, torn, agent>>
        /\ Leave(n, <<>>)
    BY <1>1 DEF Select, BridgeInv, SocketsTypeOK, BridgeTypeOK, BridgeTypes
  <2> QED BY <2>1, NoFrames, LeaveKeepsTypes
<1>2. CASE pump[n] # "ended"
  <2> USE DEF BridgeInv, BridgeTypeOK, Select, agent, upstream
  <2>1. SocketsTypeOK'
    BY <1>2 DEF SocketsTypeOK
  <2>2. BridgeTypes'
    BY <1>2 DEF BridgeTypes, At
  <2>3. BridgeLinks'
    BY <1>2 DEF BridgeTypes, BridgeLinks, At
  <2>4. Undialled'
    BY <1>2 DEF BridgeTypes, Undialled, At
  <2> QED BY <2>1, <2>2, <2>3, <2>4
<1> QED BY <1>1, <1>2

LEMMA AbandonKeepsTypes ==
    ASSUME BridgeInv, NEW n \in Conns, Abandon(n), faults' \in 0 .. MaxFaults
    PROVE  BridgeInv'
<1>1. CASE srv[n] \in {"list", "create"} /\ Unreachable(n) /\ UNCHANGED hist
  <2>1. /\ hist' \in [Conns -> {"due", "sent", "skipped"}]
        /\ srv[n] # "none"
        /\ UNCHANGED <<socket, toServer, torn, agent>>
    BY <1>1 DEF Abandon, BridgeInv, BridgeTypeOK, BridgeTypes
  <2> QED BY <1>1, <2>1, NoFrames, LeaveKeepsTypes DEF Unreachable
<1>2. CASE srv[n] \in {"history", "ask"} /\ At(n, "select")
  <2>1. /\ Cut(n, "broken")
        /\ pump' = [pump EXCEPT ![n] = IF srv[n] = "history" THEN "on" ELSE @]
        /\ hist' = [hist EXCEPT ![n] = IF srv[n] = "history" THEN "skipped" ELSE @]
        /\ UNCHANGED <<toPage, socket, toServer, torn, agent>>
    BY <1>2 DEF Abandon
  <2> USE DEF BridgeInv, BridgeTypeOK, agent
  <2>2. SocketsTypeOK'
    BY <2>1 DEF SocketsTypeOK
  <2>3. BridgeTypes'
    <3>1. /\ srv' \in [Conns -> {"none", "dial", "list", "create", "history",
                                 "select", "read", "ask", "done"}]
          /\ pump' \in [Conns -> {"off", "on", "ended"}]
          /\ hist' \in [Conns -> {"due", "sent", "skipped"}]
      BY <1>2, <2>1 DEF BridgeTypes, At
    <3>2. /\ up' \in [Conns -> {"none", "open", "broken", "closed"}]
          /\ asked' \in [Conns -> Requests]
          /\ fromGw' \in [Conns -> Seq(Responses \union ChatEvents)]
      BY <2>1 DEF BridgeTypes, Cut, Requests
    <3> QED BY <2>1, <3>1, <3>2 DEF BridgeTypes
  <2>4. BridgeLinks'
    BY <1>2, <2>1 DEF BridgeTypes, BridgeLinks, Cut, At
  <2>5. Undialled'
    BY <1>2, <2>1 DEF BridgeTypes, Undialled, At
  <2> QED BY <2>2, <2>3, <2>4, <2>5
<1> QED BY <1>1, <1>2 DEF Abandon

LEMMA RequestEndsKeepsTypes ==
    ASSUME BridgeInv, NEW n \in Conns, RequestFails(n) \/ TimesOut(n)
    PROVE  BridgeInv'
<1>1. faults' \in 0 .. MaxFaults
  BY FaultTyped DEF RequestFails, TimesOut, BridgeInv, SocketsTypeOK
<1> QED BY <1>1, AbandonKeepsTypes DEF RequestFails, TimesOut

\* readUntilRes takes a frame and stays.
LEMMA SkipKeepsTypes ==
    ASSUME BridgeInv, NEW n \in Conns, fromGw[n] # <<>>,
           fromGw' = [fromGw EXCEPT ![n] = Tail(@)],
           UNCHANGED <<sockets, srv, pump, up, asked, hist, torn, agent>>
    PROVE  BridgeInv'
<1> USE DEF BridgeInv, BridgeTypeOK, sockets, agent
<1>1. SocketsTypeOK'
  BY DEF SocketsTypeOK
<1>2. BridgeTypes'
  BY DEF BridgeTypes
<1>3. BridgeLinks'
  BY DEF BridgeTypes, BridgeLinks
<1>4. Undialled'
  BY DEF BridgeTypes, Undialled
<1> QED BY <1>1, <1>2, <1>3, <1>4

\* readUntilRes returns the response: the handler goes on at s, with a request
\* of the bootstrap or none.
LEMMA StepOnKeepsTypes ==
    ASSUME BridgeInv, NEW n \in Conns, fromGw[n] # <<>>,
           srv[n] \in {"list", "create", "history", "ask"},
           fromGw' = [fromGw EXCEPT ![n] = Tail(@)],
           NEW s \in {"create", "history", "select"}, At(n, s),
           \/ UNCHANGED asked /\ s = "select"
           \/ s # "select" /\ Ask(n, s),
           pump' = pump \/ (s = "select" /\ pump' = [pump EXCEPT ![n] = "on"]),
           s = "select" <=> srv[n] \in {"history", "ask"},
           hist' \in [Conns -> {"due", "sent", "skipped"}],
           NEW frames \in Seq(PageFrames), toPage' \in {toPage, Written(n, frames)},
           UNCHANGED <<socket, toServer, faults, up, torn, agent>>
    PROVE  BridgeInv'
<1> USE DEF BridgeInv, BridgeTypeOK, agent
<1>1. SocketsTypeOK'
  <2>1. toPage' \in [Conns -> Seq(PageFrames)]
    BY WrittenTyped DEF SocketsTypeOK
  <2> QED BY <2>1 DEF SocketsTypeOK
<1>2. BridgeTypes'
  <2>1. fromGw' \in [Conns -> Seq(Responses \union ChatEvents)]
    BY DEF BridgeTypes
  <2>2. asked' \in [Conns -> Requests]
    BY DEF BridgeTypes, Ask, Requests
  <2>3. /\ srv' \in [Conns -> {"none", "dial", "list", "create", "history",
                               "select", "read", "ask", "done"}]
        /\ pump' \in [Conns -> {"off", "on", "ended"}]
    BY DEF BridgeTypes, At
  <2> QED BY <2>1, <2>2, <2>3 DEF BridgeTypes
<1>3. up[n] = "open"
  BY DEF BridgeLinks
<1>4. BridgeLinks'
  BY <1>3 DEF BridgeTypes, BridgeLinks, At, Ask
<1>5. Undialled'
  BY DEF BridgeTypes, Undialled, At
<1> QED BY <1>1, <1>2, <1>4, <1>5

LEMMA ReadResKeepsTypes ==
    ASSUME BridgeInv, NEW n \in Conns, ReadRes(n)
    PROVE  BridgeInv'
<1> DEFINE f == Head(fromGw[n])
           rest == fromGw' = [fromGw EXCEPT ![n] = Tail(@)]
           skips == f.t # "res" /\ rest /\ UNCHANGED <<toPage, srv, pump, up, asked, hist>>
           lists == srv[n] = "list" /\ rest /\ Ready(n)
           creates == srv[n] = "list" /\ rest /\ At(n, "create") /\ Ask(n, "create")
                      /\ UNCHANGED <<toPage, pump, up, hist>>
           created == srv[n] = "create" /\ rest /\ Ready(n)
           rejected == srv[n] = "create" /\ Unreachable(n) /\ UNCHANGED hist
           starts == srv[n] = "history" /\ f.t = "res" /\ rest /\ StartPump(n, f)
           asks == srv[n] = "ask" /\ f.t = "res" /\ rest /\ SendHistory(n, f)
<1>1. /\ srv[n] \in {"list", "create", "history", "ask"}
      /\ fromGw[n] # <<>>
      /\ UNCHANGED <<socket, toServer, faults, torn, agent>>
      /\ skips \/ lists \/ creates \/ created \/ rejected \/ starts \/ asks
  BY DEF ReadRes
<1>2. f \in Responses \union ChatEvents
  BY <1>1 DEF BridgeInv, BridgeTypeOK, BridgeTypes
<1>3. hist \in [Conns -> {"due", "sent", "skipped"}] /\ faults \in 0 .. MaxFaults
  BY DEF BridgeInv, BridgeTypeOK, BridgeTypes, SocketsTypeOK
<1>4. <<History(f)>> \in Seq(PageFrames)
  BY HistoryTyped
<1> HIDE DEF f
<1>5. CASE skips
  BY <1>1, <1>5, SkipKeepsTypes DEF sockets
<1>6. CASE lists \/ created
  <2>1. <<Control("ready")>> \in Seq(PageFrames)
    BY FramesTyped
  <2> QED BY <1>1, <1>3, <1>6, <2>1, StepOnKeepsTypes DEF Ready
<1>7. CASE creates
  BY <1>1, <1>3, <1>7, NoFrames, StepOnKeepsTypes
<1>8. CASE rejected
  BY <1>1, <1>3, <1>8, NoFrames, LeaveKeepsTypes DEF Unreachable
<1>9. CASE starts
  <2>2. hist' \in [Conns -> {"due", "sent", "skipped"}]
    BY <1>3, <1>9 DEF StartPump
  <2> DEFINE frames == IF History(f).empty THEN <<>> ELSE <<History(f)>>
  <2>3. frames \in Seq(PageFrames)
    BY <1>4, NoFrames
  <2>4. toPage' = Written(n, frames)
    BY <1>9 DEF StartPump
  <2> HIDE DEF frames
  <2> QED BY <1>1, <1>9, <2>2, <2>3, <2>4, StepOnKeepsTypes DEF StartPump
<1>10. CASE asks
  <2> DEFINE frames == IF f.ok THEN <<History(f)>> ELSE <<>>
  <2>2. frames \in Seq(PageFrames)
    BY <1>4, NoFrames
  <2>3. toPage' = Written(n, frames)
    BY <1>10 DEF SendHistory
  <2> HIDE DEF frames
  <2> QED BY <1>1, <1>3, <1>10, <2>2, <2>3, StepOnKeepsTypes DEF SendHistory
<1> QED BY <1>1, <1>5, <1>6, <1>7, <1>8, <1>9, <1>10

LEMMA BridgeKeepsTypes ==
    ASSUME TypeInv, BridgeNext, UNCHANGED page
    PROVE  TypeInv'
<1>1. BridgeInv'
  <2> SUFFICES ASSUME BridgeInv PROVE BridgeInv'
    BY DEF TypeInv
  <2> QED
    BY AgentStreamsKeepsTypes, AgentFinishesKeepsTypes, AgentFailsKeepsTypes,
       DialKeepsTypes, ReadResKeepsTypes, SelectKeepsTypes, RequestEndsKeepsTypes,
       ReadSendKeepsTypes, ReadHistoryKeepsTypes, EndingsKeepTypes, PumpKeepsTypes,
       PumpEndsKeepsTypes, GatewayKeepsTypes, UpstreamBreaksKeepsTypes
    DEF BridgeNext, Handle
<1>2. PageTypeOK'
  <2>1. socket' = socket
    BY BridgeLeavesSendView DEF SendView
  <2> QED BY <2>1 DEF TypeInv, PageTypeOK, PageTypes, PageLinks, page, client, stream, view
<1> QED BY <1>1, <1>2 DEF TypeInv

LEMMA ClosedKeepsTypes ==
    ASSUME TypeInv, Closed, UNCHANGED bridge, socket[ws] \in {"connecting", "open", "closing"},
           faults' \in 0 .. MaxFaults, toServer' \in [Conns -> Seq(ServerFrames)],
           socket[ws] = "connecting" => toServer' = toServer
    PROVE  TypeInv'
<1>a. ws \in Conns
  BY DEF TypeInv, PageTypeOK, PageTypes
<1> USE <1>a DEF TypeInv, BridgeInv, PageTypeOK, Closed, bridge, handler, upstream, agent, stream
<1>1. SocketsTypeOK'
  <2>1. socket' \in [Conns -> {"unused", "connecting", "open", "closing", "closed"}]
    BY DEF SocketsTypeOK
  <2>2. toPage' \in [Conns -> Seq(PageFrames)]
    BY DEF SocketsTypeOK
  <2> QED BY <2>1, <2>2 DEF SocketsTypeOK
<1>2. BridgeTypeOK'
  BY DEF BridgeTypeOK, BridgeTypes, BridgeLinks
<1>3. Undialled'
  BY DEF SocketsTypeOK, Undialled
<1>4. PageTypes'
  <2>1. timer' \in BOOLEAN /\ attempts' \in 0 .. MaxAttempts
    <3>1. timer \in BOOLEAN /\ attempts \in 0 .. MaxAttempts
      BY DEF PageTypes
    <3>2. CASE ~timer /\ attempts < MaxAttempts
      <4>1. timer' = TRUE /\ attempts' = attempts + 1
        BY <3>2
      <4> QED BY <3>1, <3>2, <4>1, PageBounds
    <3>3. CASE ~(~timer /\ attempts < MaxAttempts)
      BY <3>1, <3>3
    <3> QED BY <3>2, <3>3
  <2> QED BY <2>1 DEF PageTypes
<1>5. PageLinks'
  BY DEF SocketsTypeOK, PageTypes, PageLinks
<1> QED BY <1>1, <1>2, <1>3, <1>4, <1>5

LEMMA LosingKeepsTypes ==
    ASSUME TypeInv, ConnectFails \/ SocketBreaks \/ CloseEvent, UNCHANGED bridge
    PROVE  TypeInv'
<1>1. ws \in Conns /\ faults' \in 0 .. MaxFaults /\ toServer \in [Conns -> Seq(ServerFrames)]
  BY FaultTyped DEF TypeInv, BridgeInv, SocketsTypeOK, PageTypeOK, PageTypes, ConnectFails, SocketBreaks, CloseEvent
<1>2. [toServer EXCEPT ![ws] = <<>>] \in [Conns -> Seq(ServerFrames)]
  BY <1>1
<1> QED BY <1>1, <1>2, ClosedKeepsTypes DEF ConnectFails, SocketBreaks, CloseEvent

LEMMA StartsClosingKeepsTypes ==
    ASSUME TypeInv, StartsClosing, socket[ws] = "open", UNCHANGED <<bridge, toServer, faults>>
    PROVE  TypeInv'
<1> USE DEF TypeInv, BridgeInv, PageTypeOK, StartsClosing, page, client, stream, view
<1>1. ws \in Conns
  BY DEF PageTypes
<1>2. SocketsTypeOK'
  <2>1. socket' \in [Conns -> {"unused", "connecting", "open", "closing", "closed"}]
    BY DEF SocketsTypeOK
  <2>2. toPage' \in [Conns -> Seq(PageFrames)]
    <3>1. toPage' = [toPage EXCEPT ![ws] = <<>>] /\ toPage \in [Conns -> Seq(PageFrames)]
      BY DEF SocketsTypeOK
    <3>2. <<>> \in Seq(PageFrames)
      BY NoFrames
    <3> HIDE DEF TypeInv, BridgeInv, PageTypeOK, StartsClosing, page, client, stream, view
    <3> QED BY <1>1, <3>1, <3>2
  <2> QED BY <2>1, <2>2 DEF SocketsTypeOK
<1>3. BridgeTypeOK' /\ Undialled'
  BY <1>1 DEF bridge, handler, upstream, agent, SocketsTypeOK, BridgeTypeOK, BridgeTypes, BridgeLinks,
     Undialled
<1>4. PageTypes'
  BY DEF PageTypes
<1>5. PageLinks'
  BY <1>1 DEF SocketsTypeOK, PageLinks
<1> QED BY <1>2, <1>3, <1>4, <1>5

LEMMA ReconnectKeepsTypes ==
    ASSUME TypeInv, Reconnect, UNCHANGED bridge
    PROVE  TypeInv'
<1> USE DEF TypeInv, BridgeInv, PageTypeOK, Reconnect, bridge, handler, upstream, agent, stream, view
<1>1. SocketsTypeOK'
  BY DEF SocketsTypeOK
<1>2. BridgeTypeOK'
  BY DEF BridgeTypeOK, BridgeTypes, BridgeLinks
<1>3. ws + 1 \in Conns
  BY ChatBounds DEF PageTypes, Conns
<1>4. \A n \in Conns : n > ws + 1 <=> n > ws /\ n # ws + 1
  BY DEF PageTypes, Conns
<1>5. Undialled'
  BY <1>3 DEF SocketsTypeOK, Undialled, PageLinks, PageTypes, Conns
<1>6. PageTypes'
  BY <1>3 DEF PageTypes
<1>7. PageLinks'
  BY <1>3, <1>4 DEF SocketsTypeOK, PageTypes, PageLinks
<1> QED BY <1>1, <1>2, <1>5, <1>6, <1>7

LEMMA AcceptKeepsTypes ==
    ASSUME TypeInv, Accept
    PROVE  TypeInv'
<1> USE DEF TypeInv, BridgeInv, PageTypeOK, Accept, Opened, upstream, agent, stream, view
<1>1. SocketsTypeOK'
  BY DEF SocketsTypeOK
<1>2. BridgeTypes'
  BY DEF BridgeTypeOK, BridgeTypes
<1>3. BridgeLinks'
  BY DEF BridgeTypeOK, BridgeTypes, BridgeLinks, Undialled, PageTypes
<1>4. Undialled'
  BY DEF SocketsTypeOK, BridgeTypeOK, BridgeTypes, Undialled
<1>5. PageTypes'
  BY PageBounds DEF PageTypes
<1>6. PageLinks'
  BY DEF SocketsTypeOK, PageTypes, PageLinks
<1> QED BY <1>1, <1>2, <1>3, <1>4, <1>5, <1>6 DEF BridgeTypeOK

LEMMA SendingKeepsTypes ==
    ASSUME TypeInv, RequestHistory \/ Submit, UNCHANGED bridge
    PROVE  TypeInv'
<1> USE DEF TypeInv, BridgeInv, PageTypeOK
<1>1. /\ UNCHANGED <<socket, toPage, client, stream, bridge, status, shown, swallowed>>
      /\ faults' \in 0 .. MaxFaults
  BY FaultTyped DEF RequestHistory, Submit, page, view, SocketsTypeOK
<1>2. submitted' \in 0 .. MaxRuns /\ input' \in BOOLEAN /\ waiting' \in BOOLEAN
  <2>1. CASE RequestHistory
    BY <2>1 DEF RequestHistory, page, view, PageTypes
  <2>2. CASE Submit
    <3>1. submitted \in 0 .. MaxRuns
      BY DEF PageTypes
    <3>2. submitted' = submitted + 1 /\ submitted < MaxRuns /\ input' = FALSE /\ waiting' = TRUE
      BY <2>2 DEF Submit
    <3>3. submitted' \in 0 .. MaxRuns
      BY <3>1, <3>2, ChatBounds
    <3> QED BY <3>2, <3>3
  <2> QED BY <2>1, <2>2
<1>3. toServer' \in [Conns -> Seq(ServerFrames)]
  <2>1. CASE RequestHistory
    <3>1. Append(toServer[ws], Control("history")) \in Seq(ServerFrames)
      BY FramesTyped DEF SocketsTypeOK, PageTypes
    <3> QED BY <2>1, <3>1 DEF RequestHistory, Send, SocketsTypeOK
  <2>2. CASE Submit
    <3>1. submitted + 1 \in Runs
      BY <2>2, ChatBounds DEF Submit, PageTypes, Runs
    <3>2. Append(toServer[ws], Message(submitted + 1)) \in Seq(ServerFrames)
      BY <3>1, FramesTyped DEF SocketsTypeOK, PageTypes
    <3> QED BY <2>2, <3>2 DEF Submit, Send, SocketsTypeOK
  <2> QED BY <2>1, <2>2
<1>4. SocketsTypeOK'
  BY <1>1, <1>3 DEF SocketsTypeOK
<1>5. BridgeTypeOK' /\ Undialled'
  BY <1>1 DEF bridge, handler, upstream, agent, BridgeTypeOK, BridgeTypes, BridgeLinks, Undialled
<1>6. PageTypes'
  BY <1>1, <1>2 DEF client, stream, PageTypes
<1>7. PageLinks'
  BY <1>1 DEF client, stream, PageLinks
<1> QED BY <1>4, <1>5, <1>6, <1>7

\* A message of the server: what the page's handlers keep.
LEMMA HandledKeepsTypes ==
    ASSUME TypeInv, Receive, UNCHANGED <<bridge, socket, client, submitted>>,
           toPage' = [toPage EXCEPT ![ws] = Tail(@)],
           PageTypes', streaming' <=> el' # "none", streaming' <=> begun' # 0
    PROVE  TypeInv'
<1> USE DEF TypeInv, BridgeInv, PageTypeOK, bridge, handler, upstream, agent, client
<1>1. SocketsTypeOK'
  <2>1. toPage[ws] \in Seq(PageFrames) /\ toPage[ws] # <<>>
    BY DEF SocketsTypeOK, PageTypes, Receive
  <2>2. Tail(toPage[ws]) \in Seq(PageFrames)
    BY <2>1
  <2>3. UNCHANGED <<toServer, faults>>
    BY DEF Receive
  <2> QED BY <2>2, <2>3 DEF SocketsTypeOK
<1>2. BridgeTypeOK' /\ Undialled'
  BY DEF BridgeTypeOK, BridgeTypes, BridgeLinks, Undialled
<1>3. PageLinks'
  BY DEF PageLinks
<1> QED BY <1>1, <1>2, <1>3

LEMMA ReceiveKeepsTypes ==
    ASSUME TypeInv, Receive, UNCHANGED bridge
    PROVE  TypeInv'
<1> DEFINE f == Head(toPage[ws])
<1>0. /\ ws \in Conns /\ toPage[ws] # <<>> /\ socket[ws] = "open"
      /\ UNCHANGED <<toServer, faults>>
  BY DEF TypeInv, PageTypeOK, PageTypes, Receive
<1>1. CASE f.t = "close" /\ StartsClosing
  BY <1>0, <1>1, StartsClosingKeepsTypes
<1>2. ASSUME UNCHANGED <<socket, client, submitted>>,
             toPage' = [toPage EXCEPT ![ws] = Tail(@)],
             \/ f.t = "ready" /\ OnReady
             \/ f.t = "history" /\ OnHistory(f.runs, f.empty)
             \/ f.t = "delta" /\ OnChatDelta(f.run)
             \/ f.t = "final" /\ OnChatFinal(f.run)
             \/ f.t \in {"error", "failed"} /\ OnChatError
      PROVE  TypeInv'
  <2>1. f \in PageFrames
    BY <1>0 DEF TypeInv, BridgeInv, SocketsTypeOK
  <2>2. f.t = "delta" \/ f.t = "final" => f.run \in Runs
    BY <2>1, PageFrameFields
  <2>3. f.t = "history" => f.runs \in SUBSET Runs
    BY <2>1, PageFrameFields
  <2> HIDE DEF f
  <2> USE DEF TypeInv, PageTypeOK, client, stream, view
  <2>4. CASE OnReady
    <3>1. PageTypes' /\ (streaming' <=> el' # "none") /\ (streaming' <=> begun' # 0)
      BY <1>2, <2>4 DEF PageTypes, PageLinks, OnReady
    <3> QED BY <1>2, <3>1, HandledKeepsTypes
  <2>5. CASE f.t = "history" /\ OnHistory(f.runs, f.empty)
    <3>1. shown' \in SUBSET Runs /\ swallowed' \in SUBSET Runs /\ el' \in {"none", "attached", "detached"}
      BY <2>3, <2>5 DEF PageTypes, OnHistory
    <3>2. UNCHANGED <<streaming, text, begun, status, input, waiting>> /\ (el' = "none" <=> el = "none")
      BY <2>5 DEF OnHistory
    <3>3. PageTypes' /\ (streaming' <=> el' # "none") /\ (streaming' <=> begun' # 0)
      BY <1>2, <3>1, <3>2 DEF PageTypes, PageLinks
    <3> QED BY <1>2, <3>3, HandledKeepsTypes
  <2>6. CASE f.t = "delta" /\ OnChatDelta(f.run)
    <3>1. streaming' = TRUE /\ UNCHANGED view
      BY <2>6 DEF OnChatDelta
    <3>2. el' \in {"attached", "detached"}
      BY <2>6 DEF OnChatDelta, PageTypes, PageLinks
    <3>3. text' \in SUBSET Runs
      BY <2>2, <2>6 DEF OnChatDelta, PageTypes
    <3>4. begun' \in 0 .. MaxConns /\ begun' # 0
      BY <1>0, <2>6, ChatBounds DEF OnChatDelta, PageTypes, PageLinks, Conns
    <3>5. PageTypes' /\ (streaming' <=> el' # "none") /\ (streaming' <=> begun' # 0)
      BY <1>2, <3>1, <3>2, <3>3, <3>4 DEF PageTypes
    <3> QED BY <1>2, <3>5, HandledKeepsTypes
  <2>7. CASE f.t = "final" /\ OnChatFinal(f.run)
    <3>1. shown' \in SUBSET Runs /\ swallowed' \in SUBSET Runs
      BY <2>2, <2>7 DEF OnChatFinal, PageTypes
    <3>2. /\ streaming' = FALSE /\ el' = "none" /\ begun' = 0 /\ text' = {}
          /\ input' = TRUE /\ waiting' = FALSE /\ UNCHANGED status
      BY <2>7 DEF OnChatFinal, EndStream
    <3>3. begun' \in 0 .. MaxConns
      BY <3>2, ChatBounds
    <3>4. PageTypes'
      BY <1>2, <3>1, <3>2, <3>3 DEF PageTypes
    <3> QED BY <1>2, <3>2, <3>4, HandledKeepsTypes
  <2>8. CASE OnChatError
    <3>1. CASE ~streaming /\ el = "none"
      <4>1. status' = "error" /\ UNCHANGED <<stream, input, shown, swallowed, waiting>>
        BY <2>8, <3>1 DEF OnChatError
      <4>2. PageTypes' /\ (streaming' <=> el' # "none") /\ (streaming' <=> begun' # 0)
        BY <1>2, <4>1 DEF PageTypes, PageLinks
      <4> QED BY <1>2, <4>2, HandledKeepsTypes
    <3>2. CASE ~(~streaming /\ el = "none")
      <4>1. /\ streaming' = FALSE /\ el' = "none" /\ begun' = 0 /\ input' = TRUE
            /\ waiting' = FALSE /\ UNCHANGED <<text, status, shown, swallowed>>
        BY <2>8, <3>2 DEF OnChatError, EndStream
      <4>2. begun' \in 0 .. MaxConns
        BY <4>1, ChatBounds
      <4>3. PageTypes'
        BY <1>2, <4>1, <4>2 DEF PageTypes
      <4> QED BY <1>2, <4>1, <4>3, HandledKeepsTypes
    <3> QED BY <3>1, <3>2
  <2> QED BY <1>2, <2>4, <2>5, <2>6, <2>7, <2>8
<1> QED BY <1>1, <1>2 DEF Receive

LEMMA TypeInvInit == Init => TypeInv
<1> SUFFICES ASSUME Init PROVE TypeInv
  OBVIOUS
<1>1. 1 \in Conns
  BY ChatBounds DEF Conns
<1>2. SocketsTypeOK
  BY ChatBounds DEF Init, SocketsInit, SocketsTypeOK
<1>3. BridgeTypeOK
  <2>1. 0 \in 0 .. MaxDeltas
    BY ChatBounds
  <2>2. /\ asked \in [Conns -> Requests]
        /\ fromGw \in [Conns -> Seq(Responses \union ChatEvents)]
    BY DEF Init, BridgeInit, Requests
  <2>3. /\ srv \in [Conns -> {"none", "dial", "list", "create", "history",
                              "select", "read", "ask", "done"}]
        /\ pump \in [Conns -> {"off", "on", "ended"}]
        /\ up \in [Conns -> {"none", "open", "broken", "closed"}]
        /\ hist \in [Conns -> {"due", "sent", "skipped"}]
        /\ torn \in [Conns -> BOOLEAN]
    BY DEF Init, BridgeInit
  <2>4. session \in BOOLEAN /\ inbox \in Seq(Runs) /\ said \in 0 .. MaxDeltas
        /\ log \in Seq(Posts) /\ omitted \in [Conns -> SUBSET Runs] /\ refused \in SUBSET Runs
    <3>1. /\ session \in BOOLEAN /\ inbox = <<>> /\ said = 0
          /\ log = <<>> /\ omitted = [n \in Conns |-> {}] /\ refused = {}
      BY DEF Init, BridgeInit
    <3>2. <<>> \in Seq(Runs) /\ <<>> \in Seq(Posts)
      OBVIOUS
    <3> QED BY <2>1, <3>1, <3>2
  <2>5. BridgeTypes
    BY <2>2, <2>3, <2>4 DEF BridgeTypes
  <2>6. BridgeLinks
    BY DEF Init, BridgeInit, BridgeLinks
  <2> QED BY <2>5, <2>6 DEF BridgeTypeOK
<1>4. Undialled
  BY DEF Init, BridgeInit, Undialled
<1>5. PageTypes
  <2>1. 0 \in 0 .. MaxAttempts /\ 0 \in 0 .. MaxRuns /\ 0 \in 0 .. MaxConns
    BY ChatBounds, PageBounds
  <2> QED BY <1>1, <2>1 DEF Init, PageInit, PageTypes
<1>6. PageLinks
  BY <1>1 DEF Init, SocketsInit, PageInit, PageLinks, Conns
<1> QED BY <1>2, <1>3, <1>4, <1>5, <1>6 DEF TypeInv, BridgeInv, PageTypeOK

LEMMA TypeInvKept == TypeInv /\ [Next]_vars => TypeInv'
<1> SUFFICES ASSUME TypeInv, [Next]_vars PROVE TypeInv'
  OBVIOUS
<1>1. CASE Accept
  BY <1>1, AcceptKeepsTypes
<1>2. CASE BridgeNext /\ UNCHANGED page
  BY <1>2, BridgeKeepsTypes
<1>3. CASE PageNext /\ UNCHANGED bridge
  BY <1>3, LosingKeepsTypes, ReconnectKeepsTypes, SendingKeepsTypes, ReceiveKeepsTypes
  DEF PageNext
<1>4. CASE UNCHANGED vars
  <2> USE <1>4 DEF vars, sockets, bridge, handler, upstream, agent, page, client, stream, view
  <2>1. SocketsTypeOK'
    BY DEF TypeInv, BridgeInv, SocketsTypeOK
  <2>2. BridgeTypeOK' /\ Undialled'
    BY DEF TypeInv, BridgeInv, BridgeTypeOK, BridgeTypes, BridgeLinks, Undialled
  <2>3. PageTypeOK'
    BY DEF TypeInv, PageTypeOK, PageTypes, PageLinks
  <2> QED BY <2>1, <2>2, <2>3 DEF TypeInv, BridgeInv
<1> QED BY <1>1, <1>2, <1>3, <1>4 DEF Next

\* Page, bridge and sockets stay in their types: sockets are opened one after
\* the other, the pump runs only beside the loop, and the requests of the
\* bootstrap are waited for (bridge.go, gateway.ts, main.ts).
THEOREM ChatTypeCorrect == Spec => []TypeOK
<1>1. TypeInv => TypeOK
  BY DEF TypeInv, BridgeInv, TypeOK
<1> QED BY <1>1, TypeInvInit, TypeInvKept, PTL DEF Spec

-----------------------------------------------------------------------------
(* Where an answer goes *)

\* On a socket, unless history is asked for beside the pump: the transcript comes
\* before the chat events, so that no stream begun on the socket is open when the
\* transcript arrives.
HasChat(s) == \E i \in DOMAIN s : IsChat(s[i])
HasHistory(s) == \E i \in DOMAIN s : s[i].t = "history"
StreamsLast(s) == \A i, j \in DOMAIN s : IsChat(s[i]) /\ s[j].t = "history" => j < i

Boot == {"none", "dial", "list", "create", "history"}

OrderOf(n) ==
    /\ ~torn[n] => StreamsLast(toPage[n]) /\ (HasHistory(toPage[n]) => begun # n)
    /\ srv[n] \in Boot => begun # n /\ ~HasChat(toPage[n])
    /\ srv[n] = "ask" => torn[n]

OrderInv ==
    /\ TypeInv
    /\ begun <= ws
    /\ el = "detached" => begun # ws \/ torn[ws]
    /\ \A n \in Conns : OrderOf(n)

LEMMA JoinedFrames ==
    ASSUME NEW s \in Seq(PageFrames), NEW t \in Seq(PageFrames)
    PROVE  /\ HasChat(s \o t) => HasChat(s) \/ HasChat(t)
           /\ HasHistory(s \o t) => HasHistory(s) \/ HasHistory(t)
           /\ StreamsLast(s) /\ StreamsLast(t) /\ ~(HasChat(s) /\ HasHistory(t))
                => StreamsLast(s \o t)
<1>1. /\ s \o t \in Seq(PageFrames)
      /\ \A i \in DOMAIN (s \o t) :
            \/ i \in DOMAIN s /\ (s \o t)[i] = s[i]
            \/ /\ i - Len(s) \in DOMAIN t /\ (s \o t)[i] = t[i - Len(s)]
               /\ i > Len(s)
  OBVIOUS
<1>2. HasChat(s \o t) => HasChat(s) \/ HasChat(t)
  BY <1>1, Zenon DEF HasChat
<1>3. HasHistory(s \o t) => HasHistory(s) \/ HasHistory(t)
  BY <1>1, Zenon DEF HasHistory
<1>4. ASSUME StreamsLast(s), StreamsLast(t), ~(HasChat(s) /\ HasHistory(t)),
             NEW i \in DOMAIN (s \o t), NEW j \in DOMAIN (s \o t),
             IsChat((s \o t)[i]), (s \o t)[j].t = "history"
      PROVE  j < i
  <2>1. i \in Nat /\ j \in Nat /\ Len(s) \in Nat
    BY <1>1
  <2>2. CASE i \in DOMAIN s /\ (s \o t)[i] = s[i]
    <3>1. HasChat(s)
      BY <1>4, <2>2 DEF HasChat
    <3>2. j \in DOMAIN s /\ (s \o t)[j] = s[j]
      BY <1>1, <1>4, <3>1 DEF HasHistory
    <3> QED BY <1>4, <2>2, <3>2 DEF StreamsLast
  <2>3. CASE i - Len(s) \in DOMAIN t /\ (s \o t)[i] = t[i - Len(s)] /\ i > Len(s)
    <3>1. CASE j \in DOMAIN s
      BY <2>1, <2>3, <3>1
    <3>2. CASE j - Len(s) \in DOMAIN t /\ (s \o t)[j] = t[j - Len(s)]
      <4>1. j - Len(s) < i - Len(s)
        BY <1>4, <2>3, <3>2 DEF StreamsLast
      <4> QED BY <2>1, <4>1
    <3> QED BY <1>1, <1>4, <3>1, <3>2
  <2> QED BY <1>1, <1>4, <2>2, <2>3
<1> QED BY <1>2, <1>3, <1>4 DEF StreamsLast

LEMMA OneFrame ==
    ASSUME NEW f \in PageFrames
    PROVE  /\ HasChat(<<f>>) => IsChat(f)
           /\ HasHistory(<<f>>) => f.t = "history"
           /\ StreamsLast(<<f>>)
<1>1. DOMAIN <<f>> = {1} /\ <<f>>[1] = f
  OBVIOUS
<1> QED BY <1>1, Zenon DEF HasChat, HasHistory, StreamsLast, IsChat

LEMMA NoFrame == ~HasChat(<<>>) /\ ~HasHistory(<<>>) /\ StreamsLast(<<>>)
BY DEF HasChat, HasHistory, StreamsLast

LEMMA ControlFrames ==
    ASSUME NEW t \in {"ready", "failed", "close"}
    PROVE  /\ <<Control(t)>> \in Seq(PageFrames)
           /\ ~HasChat(<<Control(t)>>) /\ ~HasHistory(<<Control(t)>>)
           /\ StreamsLast(<<Control(t)>>)
<1>1. Control(t) \in PageFrames
  BY FramesTyped
<1>2. ~IsChat(Control(t)) /\ Control(t).t # "history"
  BY DEF Control, IsChat
<1> HIDE DEF Control
<1> QED BY <1>1, <1>2, OneFrame

LEMMA LaterFrames ==
    ASSUME NEW s \in Seq(PageFrames), s # <<>>
    PROVE  /\ HasChat(Tail(s)) => HasChat(s)
           /\ HasHistory(Tail(s)) => HasHistory(s)
           /\ StreamsLast(s) => StreamsLast(Tail(s))
           /\ IsChat(Head(s)) => HasChat(s) /\ (StreamsLast(s) => ~HasHistory(s))
           /\ Head(s).t = "history" => HasHistory(s)
<1>1. /\ \A i \in DOMAIN Tail(s) : i \in Nat /\ i + 1 \in DOMAIN s /\ Tail(s)[i] = s[i + 1]
      /\ 1 \in DOMAIN s /\ Head(s) = s[1]
      /\ \A i \in DOMAIN s : ~(i < 1)
  OBVIOUS
<1>2. HasChat(Tail(s)) => HasChat(s)
  BY <1>1, Zenon DEF HasChat
<1>3. HasHistory(Tail(s)) => HasHistory(s)
  BY <1>1, Zenon DEF HasHistory
<1>4. ASSUME StreamsLast(s), NEW i \in DOMAIN Tail(s), NEW j \in DOMAIN Tail(s),
             IsChat(Tail(s)[i]), Tail(s)[j].t = "history"
      PROVE  j < i
  <2>1. IsChat(s[i + 1]) /\ s[j + 1].t = "history"
    BY <1>1, <1>4
  <2>2. j + 1 < i + 1
    BY <1>1, <1>4, <2>1 DEF StreamsLast
  <2> QED BY <1>1, <2>2
<1>5. IsChat(Head(s)) => HasChat(s)
  BY <1>1 DEF HasChat
<1>6. ASSUME IsChat(Head(s)), StreamsLast(s), HasHistory(s) PROVE FALSE
  <2>1. PICK j \in DOMAIN s : s[j].t = "history"
    BY <1>6 DEF HasHistory
  <2>2. j < 1
    BY <1>1, <1>6, <2>1 DEF StreamsLast
  <2> QED BY <1>1, <2>2
<1>7. Head(s).t = "history" => HasHistory(s)
  BY <1>1 DEF HasHistory
<1> QED BY <1>2, <1>3, <1>4, <1>5, <1>6, <1>7 DEF StreamsLast

\* A step of the server that adds frames to a socket, or none.
LEMMA AddedInOrder ==
    ASSUME NEW n \in Conns, toPage[n] \in Seq(PageFrames), OrderOf(n), begun' = begun,
           torn[n] => torn'[n],
           srv'[n] \in Boot => srv[n] \in Boot,
           srv'[n] = "ask" => torn'[n],
           NEW frames \in Seq(PageFrames),
           toPage'[n] = toPage[n] \o frames \/ toPage'[n] = toPage[n],
           StreamsLast(frames), ~(HasChat(frames) /\ HasHistory(frames)),
           HasChat(frames) => srv'[n] \notin Boot,
           HasHistory(frames) => torn[n] \/ (srv[n] \in Boot /\ srv'[n] \notin Boot)
    PROVE  OrderOf(n)'
<1>1. CASE toPage'[n] = toPage[n]
  BY <1>1 DEF OrderOf, HasChat, HasHistory, StreamsLast, IsChat
<1>2. CASE toPage'[n] = toPage[n] \o frames
  <2> DEFINE s == toPage[n] \o frames
  <2>1. /\ HasChat(s) => HasChat(toPage[n]) \/ HasChat(frames)
        /\ HasHistory(s) => HasHistory(toPage[n]) \/ HasHistory(frames)
        /\ StreamsLast(toPage[n]) /\ ~(HasChat(toPage[n]) /\ HasHistory(frames)) => StreamsLast(s)
    BY JoinedFrames
  <2>2. /\ HasChat(toPage[n])' <=> HasChat(s)
        /\ HasHistory(toPage[n])' <=> HasHistory(s)
        /\ StreamsLast(toPage[n])' <=> StreamsLast(s)
    BY <1>2 DEF HasChat, HasHistory, StreamsLast, IsChat
  <2> HIDE DEF s
  <2>3. ASSUME ~torn'[n] PROVE StreamsLast(s) /\ (HasHistory(s) => begun # n)
    BY <2>1, <2>3 DEF OrderOf
  <2>4. ASSUME srv'[n] \in Boot PROVE begun # n /\ ~HasChat(s)
    BY <2>1, <2>4 DEF OrderOf
  <2> QED BY <2>2, <2>3, <2>4 DEF OrderOf
<1> QED BY <1>1, <1>2

\* A step that leaves the frames of the socket alone.
LEMMA StaysInOrder ==
    ASSUME NEW n \in Conns, OrderOf(n), begun' = begun, toPage'[n] = toPage[n],
           torn[n] => torn'[n],
           srv'[n] \in Boot => srv[n] \in Boot,
           srv'[n] = "ask" => torn'[n]
    PROVE  OrderOf(n)'
BY DEF OrderOf, HasChat, HasHistory, StreamsLast, IsChat

LEMMA OthersStayInOrder ==
    ASSUME TypeInv, NEW m \in Conns, NEW n \in Conns, n # m, OrderOf(n), begun' = begun,
           \/ Handle(m) \/ Pump(m) \/ PumpEnds(m) \/ GatewayAnswers(m)
           \/ GatewayRefuses(m) \/ SendRefused(m) \/ DialFails(m) \/ TimesOut(m) \/ UpstreamBreaks(m)
    PROVE  OrderOf(n)'
<1> USE DEF TypeInv, BridgeInv, BridgeTypeOK, BridgeTypes, SocketsTypeOK, sockets, handler, upstream, agent
<1>1. srv'[n] = srv[n] /\ torn'[n] = torn[n] /\ toPage'[n] = toPage[n]
  <2>1. CASE Dial(m) \/ ReadHistory(m) \/ PumpEnds(m) \/ UpstreamBreaks(m)
    BY <2>1 DEF Dial, At, ReadHistory, PumpEnds, UpstreamBreaks
  <2>2. CASE ReadRes(m)
    BY <2>2 DEF ReadRes, At, Ready, StartPump, SendHistory, Unreachable, Leave, Written
  <2>3. CASE Select(m) \/ PageGone(m) \/ DialFails(m)
    BY <2>3 DEF Select, PageGone, DialFails, Unreachable, Leave, Written, At
  <2>4. CASE RequestFails(m) \/ TimesOut(m)
    BY <2>4 DEF RequestFails, TimesOut, Abandon, Unreachable, Leave, Written, At
  <2>5. CASE Pump(m) \/ ReadSend(m) \/ SendRefused(m)
    BY <2>5 DEF Pump, ReadSend, SendRefused, TakeSend, Written, At
  <2>6. CASE GatewayAnswers(m) \/ GatewayRefuses(m)
    BY <2>6 DEF GatewayAnswers, GatewayRefuses, Respond
  <2> QED BY <2>1, <2>2, <2>3, <2>4, <2>5, <2>6 DEF Handle
<1> QED BY <1>1, StaysInOrder DEF OrderOf

\* The frames that end a bridge, or that say it is ready.
LEMMA LeavesInOrder ==
    ASSUME TypeInv, NEW n \in Conns, OrderOf(n), begun' = begun, torn' = torn,
           Leave(n, <<>>) \/ Leave(n, <<Control("failed")>>)
    PROVE  OrderOf(n)'
<1>1. toPage[n] \in Seq(PageFrames) /\ srv'[n] = "done"
  BY DEF TypeInv, BridgeInv, BridgeTypeOK, BridgeTypes, SocketsTypeOK, Leave, At
<1>2. PICK frames \in {<<>>, <<Control("failed")>>} :
        toPage' = Written(n, frames \o <<Control("close")>>)
  BY DEF Leave
<1> DEFINE t == frames \o <<Control("close")>>
<1>3. /\ frames \in Seq(PageFrames) /\ <<Control("close")>> \in Seq(PageFrames)
      /\ t \in Seq(PageFrames)
      /\ ~HasChat(frames) /\ ~HasHistory(frames) /\ StreamsLast(frames)
      /\ ~HasChat(<<Control("close")>>) /\ ~HasHistory(<<Control("close")>>)
      /\ StreamsLast(<<Control("close")>>)
  <2>1. /\ <<Control("close")>> \in Seq(PageFrames)
        /\ ~HasChat(<<Control("close")>>) /\ ~HasHistory(<<Control("close")>>)
        /\ StreamsLast(<<Control("close")>>)
    BY ControlFrames
  <2>2. frames \in Seq(PageFrames) /\ ~HasChat(frames) /\ ~HasHistory(frames) /\ StreamsLast(frames)
    BY <1>2, ControlFrames, NoFrames, NoFrame
  <2> QED BY <2>1, <2>2
<1>4. ~HasChat(t) /\ ~HasHistory(t) /\ StreamsLast(t)
  BY <1>3, JoinedFrames
<1>5. toPage'[n] = toPage[n] \o t \/ toPage'[n] = toPage[n]
  BY <1>2 DEF Written, TypeInv, BridgeInv, SocketsTypeOK
<1> HIDE DEF t
<1> QED BY <1>1, <1>3, <1>4, <1>5, AddedInOrder DEF Boot

LEMMA SilentInOrder ==
    ASSUME TypeInv, NEW n \in Conns, OrderOf(n), begun' = begun,
           \/ Dial(n) \/ ReadHistory(n) \/ PumpEnds(n) \/ UpstreamBreaks(n)
           \/ GatewayAnswers(n) \/ GatewayRefuses(n)
    PROVE  OrderOf(n)'
<1>1. /\ toPage'[n] = toPage[n]
      /\ torn[n] => torn'[n]
      /\ srv'[n] \in Boot => srv[n] \in Boot
      /\ srv'[n] = "ask" => torn'[n]
  <2> USE DEF TypeInv, BridgeInv, BridgeTypeOK, BridgeTypes, sockets, handler, Boot, OrderOf
  <2>1. CASE Dial(n) \/ ReadHistory(n)
    BY <2>1 DEF Dial, ReadHistory, At
  <2>2. CASE PumpEnds(n) \/ UpstreamBreaks(n)
    BY <2>2 DEF PumpEnds, UpstreamBreaks
  <2>3. CASE GatewayAnswers(n) \/ GatewayRefuses(n)
    BY <2>3 DEF GatewayAnswers, GatewayRefuses, Respond
  <2> QED BY <2>1, <2>2, <2>3
<1> QED BY <1>1, StaysInOrder

LEMMA EndingsInOrder ==
    ASSUME TypeInv, NEW n \in Conns, OrderOf(n), begun' = begun,
           Select(n) \/ PageGone(n) \/ DialFails(n) \/ RequestFails(n) \/ TimesOut(n)
    PROVE  OrderOf(n)'
<1>1. CASE torn' = torn /\ (Leave(n, <<>>) \/ Leave(n, <<Control("failed")>>))
  BY <1>1, LeavesInOrder
<1>2. CASE At(n, "select") \/ At(n, "read")
  <2>1. toPage' = toPage /\ torn' = torn
    BY <1>2 DEF Select, PageGone, DialFails, RequestFails, TimesOut, Abandon,
       Unreachable, Leave, At, TypeInv, BridgeInv, BridgeTypeOK, BridgeTypes
  <2>2. srv'[n] \in {"select", "read"}
    BY <1>2 DEF At, TypeInv, BridgeInv, BridgeTypeOK, BridgeTypes
  <2> QED BY <2>1, <2>2, StaysInOrder DEF Boot
<1> QED
  BY <1>1, <1>2 DEF Select, PageGone, DialFails, RequestFails, TimesOut, Abandon, Unreachable

\* The pump forwards chat events, after the bootstrap.
LEMMA PumpInOrder ==
    ASSUME TypeInv, NEW n \in Conns, OrderOf(n), begun' = begun, Pump(n)
    PROVE  OrderOf(n)'
<1> DEFINE f == Head(fromGw[n])
<1>1. /\ torn' = torn /\ srv' = srv /\ srv[n] \notin Boot
      /\ toPage' = IF IsChat(f) THEN Written(n, <<f>>) ELSE toPage
      /\ f \in Responses \union ChatEvents
      /\ toPage \in [Conns -> Seq(PageFrames)]
  <2>1. fromGw[n] # <<>> /\ pump[n] = "on" /\ torn' = torn /\ srv' = srv
    BY DEF Pump, handler
  <2>2. srv[n] \notin Boot
    BY <2>1 DEF Boot, TypeInv, BridgeInv, BridgeTypeOK, BridgeLinks
  <2>3. f \in Responses \union ChatEvents
    BY <2>1 DEF TypeInv, BridgeInv, BridgeTypeOK, BridgeTypes
  <2>4. toPage \in [Conns -> Seq(PageFrames)]
    BY DEF TypeInv, BridgeInv, SocketsTypeOK
  <2> QED BY <2>1, <2>2, <2>3, <2>4 DEF Pump
<1>2. srv[n] = "ask" => torn[n]
  BY DEF OrderOf
<1>3. CASE IsChat(f)
  <2>1. f \in PageFrames /\ f.t # "history"
    BY <1>1, <1>3, ResponseFields, FramesTyped DEF IsChat, Responses
  <2> HIDE DEF f
  <2>2. <<f>> \in Seq(PageFrames) /\ StreamsLast(<<f>>) /\ ~HasHistory(<<f>>)
    BY <2>1, OneFrame
  <2>3. toPage'[n] = toPage[n] \o <<f>> \/ toPage'[n] = toPage[n]
    BY <1>1, <1>3 DEF Written
  <2> QED BY <1>1, <1>2, <2>2, <2>3, AddedInOrder
<1>4. CASE ~IsChat(f)
  BY <1>1, <1>2, <1>4, StaysInOrder
<1> QED BY <1>3, <1>4

LEMMA ReadSendInOrder ==
    ASSUME TypeInv, NEW n \in Conns, OrderOf(n), begun' = begun,
           ReadSend(n) \/ SendRefused(n)
    PROVE  OrderOf(n)'
<1>1. /\ torn' = torn /\ srv'[n] = "select"
      /\ toPage' \in {toPage, Written(n, <<Control("failed")>>)}
      /\ toPage \in [Conns -> Seq(PageFrames)]
  BY DEF ReadSend, SendRefused, TakeSend, At, TypeInv, BridgeInv, BridgeTypeOK, BridgeTypes, SocketsTypeOK
<1>2. toPage'[n] = toPage[n] \o <<Control("failed")>> \/ toPage'[n] = toPage[n]
  BY <1>1 DEF Written
<1> QED BY <1>1, <1>2, ControlFrames, AddedInOrder DEF Boot

\* The transcript: of the bootstrap, or of a history request beside the pump.
LEMMA TranscriptInOrder ==
    ASSUME TypeInv, NEW n \in Conns, OrderOf(n), begun' = begun, torn' = torn,
           srv[n] \in {"history", "ask"}, At(n, "select"),
           NEW f \in PageFrames, f.t = "history", toPage' \in {toPage, Written(n, <<f>>)}
    PROVE  OrderOf(n)'
<1>1. /\ srv'[n] = "select" /\ toPage \in [Conns -> Seq(PageFrames)]
      /\ srv[n] = "ask" => torn[n]
  BY DEF OrderOf, At, TypeInv, BridgeInv, BridgeTypeOK, BridgeTypes, SocketsTypeOK
<1>2. toPage'[n] = toPage[n] \o <<f>> \/ toPage'[n] = toPage[n]
  BY <1>1 DEF Written
<1>3. <<f>> \in Seq(PageFrames) /\ StreamsLast(<<f>>) /\ ~HasChat(<<f>>)
  BY OneFrame DEF IsChat
<1>4. torn[n] \/ srv[n] \in Boot
  BY <1>1 DEF Boot
<1>5. srv'[n] \notin Boot /\ srv'[n] # "ask"
  BY <1>1 DEF Boot
<1> QED BY <1>1, <1>2, <1>3, <1>4, <1>5, AddedInOrder

LEMMA ReadResInOrder ==
    ASSUME TypeInv, NEW n \in Conns, OrderOf(n), begun' = begun, ReadRes(n)
    PROVE  OrderOf(n)'
<1> DEFINE f == Head(fromGw[n])
<1>1. /\ torn' = torn /\ fromGw[n] # <<>>
      /\ toPage \in [Conns -> Seq(PageFrames)]
      /\ f \in Responses \union ChatEvents
      /\ \/ UNCHANGED <<toPage, srv>>
         \/ srv[n] \in {"list", "create"} /\ Ready(n)
         \/ srv[n] = "list" /\ At(n, "create") /\ UNCHANGED toPage
         \/ Unreachable(n)
         \/ srv[n] = "history" /\ StartPump(n, f) /\ f.t = "res"
         \/ srv[n] = "ask" /\ SendHistory(n, f) /\ f.t = "res"
  BY DEF ReadRes, TypeInv, BridgeInv, BridgeTypeOK, BridgeTypes, SocketsTypeOK
<1>2. History(f) \in PageFrames /\ History(f).t = "history"
  BY HistoryTyped
<1> HIDE DEF f
<1>4. CASE UNCHANGED <<toPage, srv>>
  BY <1>1, <1>4, StaysInOrder DEF OrderOf
<1>5. CASE srv[n] \in {"list", "create"} /\ Ready(n)
  <2>1. toPage'[n] = toPage[n] \o <<Control("ready")>> \/ toPage'[n] = toPage[n]
    BY <1>1, <1>5 DEF Ready, Written
  <2>2. srv'[n] = "history" /\ srv[n] \in Boot
    BY <1>5 DEF Ready, At, Boot, TypeInv, BridgeInv, BridgeTypeOK, BridgeTypes
  <2> QED BY <1>1, <2>1, <2>2, ControlFrames, AddedInOrder
<1>6. CASE srv[n] = "list" /\ At(n, "create") /\ UNCHANGED toPage
  <2>1. srv'[n] = "create" /\ srv[n] \in Boot
    BY <1>6 DEF At, Boot, TypeInv, BridgeInv, BridgeTypeOK, BridgeTypes
  <2> QED BY <1>1, <1>6, <2>1, StaysInOrder
<1>7. CASE Unreachable(n)
  BY <1>1, <1>7, LeavesInOrder DEF Unreachable
<1>8. CASE srv[n] = "history" /\ StartPump(n, f) /\ f.t = "res"
  <2>1. At(n, "select") /\ toPage' = Written(n, IF History(f).empty THEN <<>> ELSE <<History(f)>>)
    BY <1>8 DEF StartPump
  <2>2. Written(n, <<>>)[n] = toPage[n]
    BY <1>1 DEF Written
  <2>3. CASE History(f).empty
    <3>1. toPage'[n] = toPage[n] /\ srv'[n] = "select"
      BY <2>1, <2>2, <2>3 DEF At, TypeInv, BridgeInv, BridgeTypeOK, BridgeTypes
    <3> QED BY <1>1, <3>1, StaysInOrder DEF Boot
  <2>4. CASE ~History(f).empty
    BY <1>1, <1>2, <1>8, <2>1, <2>4, TranscriptInOrder
  <2> QED BY <2>3, <2>4
<1>9. CASE srv[n] = "ask" /\ SendHistory(n, f) /\ f.t = "res"
  <2>1. At(n, "select") /\ toPage' = Written(n, IF f.ok THEN <<History(f)>> ELSE <<>>)
    BY <1>9 DEF SendHistory
  <2>2. Written(n, <<>>)[n] = toPage[n]
    BY <1>1 DEF Written
  <2>3. CASE ~f.ok
    <3>1. toPage'[n] = toPage[n] /\ srv'[n] = "select"
      BY <2>1, <2>2, <2>3 DEF At, TypeInv, BridgeInv, BridgeTypeOK, BridgeTypes
    <3> QED BY <1>1, <3>1, StaysInOrder DEF Boot
  <2>4. CASE f.ok
    BY <1>1, <1>2, <1>9, <2>1, <2>4, TranscriptInOrder
  <2> QED BY <2>3, <2>4
<1> QED BY <1>1, <1>4, <1>5, <1>6, <1>7, <1>8, <1>9

LEMMA BridgeInOrder ==
    ASSUME TypeInv, NEW n \in Conns, OrderOf(n), BridgeNext, UNCHANGED page
    PROVE  OrderOf(n)'
<1>1. begun' = begun
  BY DEF page, stream
<1>2. CASE AgentStreams \/ AgentFinishes \/ AgentFails
  <2>1. UNCHANGED <<toPage, srv, torn>>
    BY <1>2 DEF AgentStreams, AgentFinishes, AgentFails, sockets, handler
  <2> QED BY <1>1, <2>1, StaysInOrder DEF OrderOf
<1>3. ASSUME NEW m \in Conns,
             \/ Handle(m) \/ Pump(m) \/ PumpEnds(m) \/ GatewayAnswers(m)
             \/ GatewayRefuses(m) \/ SendRefused(m) \/ DialFails(m) \/ TimesOut(m) \/ UpstreamBreaks(m)
      PROVE  OrderOf(n)'
  <2>1. CASE m # n
    BY <1>1, <1>3, <2>1, OthersStayInOrder
  <2>2. CASE m = n
    BY <1>1, <1>3, <2>2, SilentInOrder, EndingsInOrder, PumpInOrder, ReadSendInOrder,
       ReadResInOrder DEF Handle
  <2> QED BY <2>1, <2>2
<1> QED BY <1>2, <1>3 DEF BridgeNext

\* The page takes a frame from a socket, or forgets them all; a stream goes on or
\* ends.
LEMMA TakenInOrder ==
    ASSUME TypeInv, NEW n \in Conns, OrderOf(n), srv' = srv, torn' = torn,
           \/ toPage'[n] = toPage[n]
           \/ toPage'[n] = <<>>
           \/ toPage[n] # <<>> /\ toPage'[n] = Tail(toPage[n]),
           begun' = begun \/ begun' = 0
    PROVE  OrderOf(n)'
<1>1. toPage[n] \in Seq(PageFrames) /\ n # 0
  BY DEF TypeInv, BridgeInv, SocketsTypeOK, Conns
<1>2. /\ HasChat(toPage'[n]) => HasChat(toPage[n])
      /\ HasHistory(toPage'[n]) => HasHistory(toPage[n])
      /\ StreamsLast(toPage[n]) => StreamsLast(toPage'[n])
  BY <1>1, NoFrame, LaterFrames
<1>3. begun # n => begun' # n
  BY <1>1
<1>4. /\ HasChat(toPage[n])' <=> HasChat(toPage'[n])
      /\ HasHistory(toPage[n])' <=> HasHistory(toPage'[n])
      /\ StreamsLast(toPage[n])' <=> StreamsLast(toPage'[n])
  BY DEF HasChat, HasHistory, StreamsLast, IsChat
<1> QED BY <1>2, <1>3, <1>4 DEF OrderOf

\* A stream begins on socket n: the transcript has come before.
LEMMA BegunInOrder ==
    ASSUME TypeInv, NEW n \in Conns, OrderOf(n), srv' = srv, torn' = torn, toPage[n] # <<>>,
           IsChat(Head(toPage[n])), toPage'[n] = Tail(toPage[n])
    PROVE  OrderOf(n)'
<1>1. toPage[n] \in Seq(PageFrames)
  BY DEF TypeInv, BridgeInv, SocketsTypeOK
<1>2. /\ HasChat(toPage[n])
      /\ HasHistory(toPage'[n]) => HasHistory(toPage[n])
      /\ StreamsLast(toPage[n]) => StreamsLast(toPage'[n]) /\ ~HasHistory(toPage[n])
  BY <1>1, LaterFrames
<1>3. /\ HasHistory(toPage[n])' <=> HasHistory(toPage'[n])
      /\ StreamsLast(toPage[n])' <=> StreamsLast(toPage'[n])
  BY DEF HasHistory, StreamsLast, IsChat
<1> QED BY <1>2, <1>3 DEF OrderOf

LEMMA OrderInvInit == Init => OrderInv
<1> SUFFICES ASSUME Init PROVE OrderInv
  OBVIOUS
<1>1. begun = 0 /\ ws = 1 /\ el = "none" /\ \A n \in Conns : toPage[n] = <<>> /\ srv[n] = "none" /\ n # 0
  BY DEF Init, SocketsInit, BridgeInit, PageInit, Conns
<1>2. \A n \in Conns : OrderOf(n)
  BY <1>1, NoFrame DEF OrderOf
<1> QED BY <1>1, <1>2, TypeInvInit DEF OrderInv

LEMMA TornStays ==
    ASSUME TypeInv, BridgeNext, NEW n \in Conns, torn[n]
    PROVE  torn'[n]
<1>1. CASE torn' = torn
  BY <1>1
<1>2. ASSUME NEW m \in Conns, ReadHistory(m) PROVE torn'[n]
  BY <1>2 DEF ReadHistory, TypeInv, BridgeInv, BridgeTypeOK, BridgeTypes
<1>3. CASE AgentStreams \/ AgentFinishes \/ AgentFails
  BY <1>1, <1>3 DEF AgentStreams, AgentFinishes, AgentFails, handler
<1>4. ASSUME NEW m \in Conns, Dial(m) \/ ReadRes(m) \/ Select(m) \/ PageGone(m) PROVE torn'[n]
  BY <1>1, <1>4 DEF Dial, ReadRes, Select, PageGone
<1>5. ASSUME NEW m \in Conns, RequestFails(m) \/ TimesOut(m) PROVE torn'[n]
  BY <1>1, <1>5 DEF RequestFails, TimesOut, Abandon
<1>6. ASSUME NEW m \in Conns, ReadSend(m) \/ SendRefused(m) \/ Pump(m) \/ PumpEnds(m)
      PROVE  torn'[n]
  BY <1>1, <1>6 DEF ReadSend, SendRefused, TakeSend, Pump, PumpEnds, handler
<1>7. ASSUME NEW m \in Conns, GatewayAnswers(m) \/ GatewayRefuses(m) PROVE torn'[n]
  BY <1>1, <1>7 DEF GatewayAnswers, GatewayRefuses, Respond, handler
<1>8. ASSUME NEW m \in Conns, DialFails(m) \/ UpstreamBreaks(m) PROVE torn'[n]
  BY <1>1, <1>8 DEF DialFails, UpstreamBreaks, handler
<1> QED BY <1>2, <1>3, <1>4, <1>5, <1>6, <1>7, <1>8 DEF BridgeNext, Handle

LEMMA BridgeKeepsOrder ==
    ASSUME OrderInv, BridgeNext, UNCHANGED page
    PROVE  OrderInv'
<1>1. TypeInv' /\ \A n \in Conns : OrderOf(n)'
  BY BridgeKeepsTypes, BridgeInOrder DEF OrderInv
<1>2. UNCHANGED <<begun, ws, el>>
  BY DEF page, client, stream
<1>3. torn[ws] => torn'[ws]
  BY TornStays DEF OrderInv, TypeInv, PageTypeOK, PageTypes
<1> QED BY <1>1, <1>2, <1>3 DEF OrderInv

LEMMA AcceptKeepsOrder ==
    ASSUME OrderInv, Accept
    PROVE  OrderInv'
<1>1. /\ UNCHANGED <<begun, ws, el, torn, toPage>>
      /\ srv[ws] = "none" /\ srv' = [srv EXCEPT ![ws] = "dial"]
      /\ srv \in [Conns -> {"none", "dial", "list", "create", "history",
                            "select", "read", "ask", "done"}]
      /\ ws \in Conns
  BY DEF OrderInv, Accept, Opened, stream, TypeInv, BridgeInv, BridgeTypeOK, BridgeTypes,
     Undialled, PageTypeOK, PageTypes
<1>2. ASSUME NEW n \in Conns PROVE OrderOf(n)'
  <2>1. OrderOf(n) /\ (srv'[n] \in Boot => srv[n] \in Boot) /\ (srv'[n] = "ask" => srv[n] = "ask")
    BY <1>1 DEF OrderInv, Boot
  <2> QED BY <1>1, <2>1, StaysInOrder DEF OrderOf
<1> QED BY <1>1, <1>2, AcceptKeepsTypes DEF OrderInv

\* What the page does to its socket.
LEMMA SocketStepsKeepOrder ==
    ASSUME OrderInv, UNCHANGED bridge,
           ConnectFails \/ SocketBreaks \/ CloseEvent \/ RequestHistory \/ Submit
    PROVE  OrderInv'
<1>1. /\ UNCHANGED <<begun, ws, el, srv, torn>>
      /\ toPage' = toPage \/ toPage' = [toPage EXCEPT ![ws] = <<>>]
  BY DEF ConnectFails, SocketBreaks, CloseEvent, Closed, RequestHistory, Submit, page, client, stream,
     bridge, handler
<1>2. toPage \in [Conns -> Seq(PageFrames)]
  BY DEF OrderInv, TypeInv, BridgeInv, SocketsTypeOK
<1>3. ASSUME NEW n \in Conns PROVE OrderOf(n)'
  <2>1. toPage'[n] = toPage[n] \/ toPage'[n] = <<>>
    BY <1>1, <1>2
  <2> QED BY <1>1, <2>1, TakenInOrder DEF OrderInv
<1>4. TypeInv'
  BY LosingKeepsTypes, SendingKeepsTypes DEF OrderInv
<1> QED BY <1>1, <1>3, <1>4 DEF OrderInv

LEMMA ReconnectKeepsOrder ==
    ASSUME OrderInv, Reconnect, UNCHANGED bridge
    PROVE  OrderInv'
<1>1. /\ UNCHANGED <<begun, el, srv, torn, toPage>> /\ ws' = ws + 1
      /\ begun \in Nat /\ ws \in Nat /\ begun <= ws
  BY ChatBounds DEF Reconnect, bridge, handler, stream, OrderInv, TypeInv, PageTypeOK, PageTypes, Conns
<1>2. ASSUME NEW n \in Conns PROVE OrderOf(n)'
  BY <1>1, TakenInOrder DEF OrderInv
<1>3. begun' <= ws' /\ begun' # ws'
  BY <1>1
<1> QED BY <1>2, <1>3, ReconnectKeepsTypes DEF OrderInv

LEMMA ReceiveKeepsOrder ==
    ASSUME OrderInv, Receive, UNCHANGED bridge
    PROVE  OrderInv'
<1> DEFINE f == Head(toPage[ws])
<1>1. /\ ws \in Conns /\ toPage[ws] # <<>> /\ toPage \in [Conns -> Seq(PageFrames)]
      /\ begun \in Nat /\ ws \in Nat /\ begun <= ws
      /\ UNCHANGED <<srv, torn>>
  BY ChatBounds DEF Receive, bridge, handler, OrderInv, TypeInv, BridgeInv, SocketsTypeOK,
     PageTypeOK, PageTypes, Conns
<1>2. TypeInv'
  BY ReceiveKeepsTypes DEF OrderInv
<1>3. CASE StartsClosing
  <2>1. UNCHANGED <<begun, ws, el>> /\ \A n \in Conns : toPage'[n] = toPage[n] \/ toPage'[n] = <<>>
    BY <1>1, <1>3 DEF StartsClosing, page, client, stream
  <2>2. ASSUME NEW n \in Conns PROVE OrderOf(n)'
    BY <1>1, <2>1, TakenInOrder DEF OrderInv
  <2> QED BY <1>1, <1>2, <2>1, <2>2 DEF OrderInv
<1>4. ASSUME UNCHANGED client, toPage' = [toPage EXCEPT ![ws] = Tail(@)]
      PROVE  /\ ws' = ws
             /\ \A n \in Conns : toPage'[n] = IF n = ws THEN Tail(toPage[n]) ELSE toPage[n]
  BY <1>1, <1>4 DEF client
<1>5. ASSUME UNCHANGED client, toPage' = [toPage EXCEPT ![ws] = Tail(@)],
             begun' = begun \/ begun' = 0
      PROVE  begun' <= ws' /\ \A n \in Conns : OrderOf(n)'
  <2>1. ASSUME NEW n \in Conns PROVE OrderOf(n)'
    BY <1>1, <1>4, <1>5, TakenInOrder DEF OrderInv
  <2> QED BY <1>1, <1>4, <1>5, <2>1
<1>6. CASE UNCHANGED client /\ toPage' = [toPage EXCEPT ![ws] = Tail(@)] /\ (OnReady \/ OnChatError)
  <2>1. (UNCHANGED <<begun, el>>) \/ (begun' = 0 /\ el' = "none")
    BY <1>6 DEF OnReady, OnChatError, EndStream, stream
  <2> QED BY <1>1, <1>2, <1>4, <1>5, <1>6, <2>1 DEF OrderInv
<1>7. CASE /\ UNCHANGED client /\ toPage' = [toPage EXCEPT ![ws] = Tail(@)]
           /\ f.t = "history" /\ OnHistory(f.runs, f.empty)
  \* The stream whose element goes is not of this socket.
  <2>1. begun' = begun
    BY <1>7 DEF OnHistory, stream
  <2>2. begun # ws \/ torn[ws]
    BY <1>1, <1>7, LaterFrames DEF OrderInv, OrderOf
  <2> QED BY <1>1, <1>2, <1>4, <1>5, <1>7, <2>1, <2>2 DEF OrderInv
<1>8. CASE /\ UNCHANGED client /\ toPage' = [toPage EXCEPT ![ws] = Tail(@)]
           /\ f.t = "delta" /\ OnChatDelta(f.run)
  <2>1. CASE streaming
    BY <1>1, <1>2, <1>4, <1>5, <1>8, <2>1 DEF OrderInv, OnChatDelta
  <2>2. CASE ~streaming
    <3>1. begun' = ws /\ el' = "attached"
      BY <1>8, <2>2 DEF OnChatDelta
    <3>2. ASSUME NEW n \in Conns PROVE OrderOf(n)'
      <4>1. CASE n = ws
        BY <1>1, <1>4, <1>8, <4>1, BegunInOrder DEF OrderInv, IsChat
      <4>2. CASE n # ws
        <5>1. toPage'[n] = toPage[n] /\ begun' # n
          BY <1>4, <1>8, <3>1, <4>2
        <5> QED BY <1>1, <5>1 DEF OrderInv, OrderOf, HasChat, HasHistory, StreamsLast, IsChat
      <4> QED BY <4>1, <4>2
    <3> QED BY <1>1, <1>2, <1>4, <1>8, <3>1, <3>2 DEF OrderInv
  <2> QED BY <2>1, <2>2
<1>9. CASE /\ UNCHANGED client /\ toPage' = [toPage EXCEPT ![ws] = Tail(@)]
           /\ f.t = "final" /\ OnChatFinal(f.run)
  <2>1. begun' = 0 /\ el' = "none"
    BY <1>9 DEF OnChatFinal, EndStream
  <2> QED BY <1>1, <1>2, <1>4, <1>5, <1>9, <2>1 DEF OrderInv
<1> QED BY <1>3, <1>6, <1>7, <1>8, <1>9 DEF Receive

LEMMA OrderInvKept == OrderInv /\ [Next]_vars => OrderInv'
<1> SUFFICES ASSUME OrderInv, [Next]_vars PROVE OrderInv'
  OBVIOUS
<1>1. CASE Accept
  BY <1>1, AcceptKeepsOrder
<1>2. CASE BridgeNext /\ UNCHANGED page
  BY <1>2, BridgeKeepsOrder
<1>3. CASE PageNext /\ UNCHANGED bridge
  BY <1>3, SocketStepsKeepOrder, ReconnectKeepsOrder, ReceiveKeepsOrder DEF PageNext
<1>4. CASE UNCHANGED vars
  <2>1. UNCHANGED <<begun, ws, el, srv, torn, toPage>>
    BY <1>4 DEF vars, sockets, bridge, handler, page, client, stream
  <2>2. TypeInv'
    BY <1>4, TypeInvKept DEF OrderInv
  <2>3. ASSUME NEW n \in Conns PROVE OrderOf(n)'
    BY <2>1, TakenInOrder DEF OrderInv
  <2> QED BY <2>1, <2>2, <2>3 DEF OrderInv
<1> QED BY <1>1, <1>2, <1>3, <1>4 DEF Next

\* onChatFinal (main.ts) hands the answer to an element the transcript has
\* removed only when the stream began on an earlier socket, or history was asked
\* for in its middle.
THEOREM AnswersStayOnThePage == Spec => SwallowedAcrossSockets
<1>1. ASSUME OrderInv, [Next]_vars
      PROVE  [~(swallowed' \subseteq swallowed) => begun \notin {0, ws} \/ torn[ws]]_vars
  <2> SUFFICES ASSUME Next, ~(swallowed' \subseteq swallowed)
               PROVE  begun \notin {0, ws} \/ torn[ws]
    BY <1>1 DEF vars, page, view
  <2>1. Receive
    BY DEF Next, Accept, Opened, PageNext, ConnectFails, SocketBreaks, CloseEvent, Closed, Reconnect,
       RequestHistory, Submit, page, view
  <2>2. el = "detached"
    BY <2>1 DEF Receive, StartsClosing, OnReady, OnHistory, OnChatDelta, OnChatFinal, OnChatError,
       page, view
  <2>3. begun # 0 /\ (begun # ws \/ torn[ws])
    BY <1>1, <2>2 DEF OrderInv, TypeInv, PageTypeOK, PageLinks
  <2> QED BY <2>3
<1> QED BY <1>1, OrderInvInit, OrderInvKept, PTL DEF Spec, SwallowedAcrossSockets
=============================================================================
