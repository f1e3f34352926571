----------------------------- MODULE ChatBridge -----------------------------
(***************************************************************************)
(* The chat server's WebSocket bridge (web/chat/server/bridge.go) and the   *)
(* agent's gateway behind it.                                               *)
(*                                                                          *)
(* handleWS accepts the page's socket, dials the gateway, finds or creates  *)
(* the session, sends "ready" and the transcript, and then runs two         *)
(* goroutines: the pump forwards chat events to the page, the loop reads    *)
(* the page's frames.  The loop looks whether the pump has ended only       *)
(* between two frames of the page.  A "history" frame makes the loop read   *)
(* the gateway's socket while the pump reads it too.                        *)
(*                                                                          *)
(* Representation.  The gateway is external: it answers a request when it   *)
(* likes, works on one message at a time and sends every chat event to all  *)
(* connections.  All users share one session (bridge.go:237).  Loading the  *)
(* configuration, Dial and the handshake are one step.  A read that fails   *)
(* or times out closes the gateway's socket (coder/websocket).  Frames no   *)
(* reader looks at, deltas without text and malformed frames are left out.  *)
(***************************************************************************)
EXTENDS ChatSockets

\* The messages of the session: what the user sent and what the agent answered.
Posts == [by : {"user", "agent"}, run : Runs]
Post(who, r) == [by |-> who, run |-> r]

CONSTANTS
    HistoryLimit,   \* messages the bridge asks the gateway for: 50
    Skipped         \* messages whose text requestHistory leaves out

ASSUME HistoryBounds == HistoryLimit \in Nat \ {0} /\ Skipped \subseteq Posts

VARIABLES
    srv,        \* where handleWS is, per socket
    pump,       \* off, on, ended (upstreamErr holds its error)
    up,         \* the gateway's socket: none, open, broken, closed
    asked,      \* the request the gateway has yet to answer
    fromGw,     \* frames of the gateway not read yet
    hist,       \* history: the page was sent the transcript, or it was skipped
    torn,       \* history: the loop has read next to the pump
    session,    \* the gateway has a session
    inbox,      \* messages the agent has yet to answer
    said,       \* pieces of the current answer it has sent
    log,        \* the messages of the session, oldest first
    omitted,    \* history: answers the gateway's transcript did not hold, per socket
    refused     \* history: messages the gateway did not take

handler == <<srv, pump, hist, torn>>
upstream == <<up, asked, fromGw>>
agent == <<session, inbox, said, log, omitted, refused>>
bridge == <<handler, upstream, agent>>

Requests == {"none", "list", "create", "history"}
Responses == [t : {"res"}, ok : BOOLEAN, found : BOOLEAN, posts : SUBSET Posts]

\* Runs with a final answer.
answered == {r \in Runs : \E i \in DOMAIN log : log[i] = Post("agent", r)}

BridgeTypes ==
    /\ srv \in [Conns -> {"none", "dial", "list", "create", "history",
                          "select", "read", "ask", "done"}]
    /\ pump \in [Conns -> {"off", "on", "ended"}]
    /\ up \in [Conns -> {"none", "open", "broken", "closed"}]
    /\ asked \in [Conns -> Requests]
    /\ fromGw \in [Conns -> Seq(Responses \union ChatEvents)]
    /\ hist \in [Conns -> {"due", "sent", "skipped"}]
    /\ torn \in [Conns -> BOOLEAN]
    /\ session \in BOOLEAN
    /\ inbox \in Seq(Runs)
    /\ said \in 0 .. MaxDeltas
    /\ log \in Seq(Posts)
    /\ omitted \in [Conns -> SUBSET Runs]
    /\ refused \in SUBSET Runs

\* Nothing comes from a gateway that is gone; the pump runs beside the loop; the
\* requests of the bootstrap are waited for.
BridgeLinks ==
    \A n \in Conns :
        /\ up[n] # "open" => fromGw[n] = <<>> /\ asked[n] = "none"
        /\ pump[n] = "on" => srv[n] \in {"select", "read", "ask"}
        /\ asked[n] \in {"list", "create"} => srv[n] = asked[n]

BridgeTypeOK == BridgeTypes /\ BridgeLinks

BridgeInit ==
    /\ srv = [n \in Conns |-> "none"]
    /\ pump = [n \in Conns |-> "off"]
    /\ up = [n \in Conns |-> "none"]
    /\ asked = [n \in Conns |-> "none"]
    /\ fromGw = [n \in Conns |-> <<>>]
    /\ hist = [n \in Conns |-> "due"]
    /\ torn = [n \in Conns |-> FALSE]
    /\ session \in BOOLEAN
    /\ inbox = <<>>
    /\ said = 0
    /\ log = <<>>
    /\ omitted = [n \in Conns |-> {}]
    /\ refused = {}

-----------------------------------------------------------------------------
(* The gateway *)

\* What chat.history returns: the last messages.
Latest == {log[i] : i \in {j \in DOMAIN log : j + HistoryLimit > Len(log)}}

\* Answers that are too old for it, or that requestHistory leaves out.
PassedOver == {r \in answered : Post("agent", r) \notin Latest \ Skipped}

\* What the gateway answers to request q; a refusal is a fault.
Answer(q, ok) ==
    [t |-> "res", ok |-> ok, found |-> ok /\ q = "list" /\ session,
     posts |-> IF ok /\ q = "history" THEN Latest ELSE {}]

Respond(n, ok) ==
    /\ asked[n] # "none"
    /\ fromGw' = [fromGw EXCEPT ![n] = Append(@, Answer(asked[n], ok))]
    /\ session' = (session \/ (ok /\ asked[n] = "create"))
    /\ omitted' = IF ok /\ asked[n] = "history"
                  THEN [omitted EXCEPT ![n] = PassedOver] ELSE omitted
    /\ asked' = [asked EXCEPT ![n] = "none"]
    /\ UNCHANGED <<socket, toServer, toPage, handler, up, inbox, said, log, refused>>

GatewayAnswers(n) == Respond(n, TRUE) /\ UNCHANGED faults

GatewayRefuses(n) == Respond(n, FALSE) /\ Fault

Broadcast(e) ==
    fromGw' = [n \in Conns |-> IF up[n] = "open" THEN Append(fromGw[n], e) ELSE fromGw[n]]

AgentStreams ==
    /\ inbox # <<>>
    /\ said < MaxDeltas
    /\ said' = said + 1
    /\ Broadcast(Event("delta", Head(inbox), said + 1))
    /\ UNCHANGED <<sockets, handler, up, asked, session, inbox, log, omitted, refused>>

AgentFinishes ==
    /\ inbox # <<>>
    /\ Broadcast(Event("final", Head(inbox), 0))
    /\ log' = Append(log, Post("agent", Head(inbox)))
    /\ inbox' = Tail(inbox)
    /\ said' = 0
    /\ UNCHANGED <<sockets, handler, up, asked, session, omitted, refused>>

AgentFails ==
    /\ inbox # <<>>
    /\ Fault
    /\ Broadcast(Event("error", Head(inbox), 0))
    /\ inbox' = Tail(inbox)
    /\ said' = 0
    /\ UNCHANGED <<socket, toServer, toPage, handler, up, asked, session, log, omitted, refused>>

\* The gateway's socket is gone, with what was in it.
Cut(n, how) ==
    /\ up' = [up EXCEPT ![n] = how]
    /\ asked' = [asked EXCEPT ![n] = "none"]
    /\ fromGw' = [fromGw EXCEPT ![n] = <<>>]

UpstreamBreaks(n) ==
    /\ up[n] = "open"
    /\ Fault
    /\ Cut(n, "broken")
    /\ UNCHANGED <<socket, toServer, toPage, handler, agent>>

-----------------------------------------------------------------------------
(* handleWS *)

At(n, s) == srv' = [srv EXCEPT ![n] = s]

\* The deferred calls: the pump's context is cancelled, both sockets close.
Leave(n, frames) ==
    /\ At(n, "done")
    /\ pump' = [pump EXCEPT ![n] = "off"]
    /\ toPage' = Written(n, frames \o <<Control("close")>>)
    /\ Cut(n, "closed")

Unreachable(n) == Leave(n, <<Control("failed")>>)

\* A request is written to the gateway.
Ask(n, q) == asked' = [asked EXCEPT ![n] = q]

Dial(n) ==
    /\ srv[n] = "dial"
    /\ At(n, "list")
    /\ up' = [up EXCEPT ![n] = "open"]
    /\ Ask(n, "list")
    /\ UNCHANGED <<sockets, pump, hist, torn, fromGw, agent>>

DialFails(n) ==
    /\ srv[n] = "dial"
    /\ Fault
    /\ Unreachable(n)
    /\ UNCHANGED <<socket, toServer, hist, torn, agent>>

\* "ready", then the request for the transcript.
Ready(n) ==
    /\ At(n, "history")
    /\ toPage' = Written(n, <<Control("ready")>>)
    /\ Ask(n, "history")
    /\ UNCHANGED <<pump, up, hist>>

\* What requestHistory makes of a response.
History(res) ==
    LET kept == res.posts \ Skipped IN
    Transcript({r \in Runs : Post("agent", r) \in kept}, kept = {})

\* The bootstrap is over: the transcript is sent unless it is empty, the pump
\* starts.
StartPump(n, res) ==
    /\ At(n, "select")
    /\ pump' = [pump EXCEPT ![n] = "on"]
    /\ toPage' = Written(n, IF History(res).empty THEN <<>> ELSE <<History(res)>>)
    /\ hist' = [hist EXCEPT ![n] = IF res.ok THEN "sent" ELSE "skipped"]
    /\ UNCHANGED <<up, asked>>

\* The answer to a "history" frame of the page.
SendHistory(n, res) ==
    /\ At(n, "select")
    /\ toPage' = Written(n, IF res.ok THEN <<History(res)>> ELSE <<>>)
    /\ UNCHANGED <<pump, up, asked, hist>>

\* readUntilRes takes a frame, and drops it unless it is the response.
ReadRes(n) ==
    /\ srv[n] \in {"list", "create", "history", "ask"}
    /\ fromGw[n] # <<>>
    /\ LET f == Head(fromGw[n])
           rest == fromGw' = [fromGw EXCEPT ![n] = Tail(@)] IN
       IF f.t # "res"
       THEN rest /\ UNCHANGED <<toPage, srv, pump, up, asked, hist>>
       ELSE \/ srv[n] = "list" /\ f.found /\ rest /\ Ready(n)
            \/ srv[n] = "list" /\ ~f.found /\ rest /\ At(n, "create") /\ Ask(n, "create")
               /\ UNCHANGED <<toPage, pump, up, hist>>
            \/ srv[n] = "create" /\ f.ok /\ rest /\ Ready(n)
            \/ srv[n] = "create" /\ ~f.ok /\ Unreachable(n) /\ UNCHANGED hist
            \/ srv[n] = "history" /\ rest /\ StartPump(n, f)
            \/ srv[n] = "ask" /\ rest /\ SendHistory(n, f)
    /\ UNCHANGED <<socket, toServer, faults, torn, agent>>

\* The read or write of a request fails; the library closes the gateway's socket.
Abandon(n) ==
    /\ srv[n] \in {"list", "create", "history", "ask"}
    /\ \/ srv[n] \in {"list", "create"} /\ Unreachable(n) /\ UNCHANGED hist
       \/ /\ srv[n] \in {"history", "ask"}
          /\ At(n, "select")
          /\ Cut(n, "broken")
          /\ pump' = [pump EXCEPT ![n] = IF srv[n] = "history" THEN "on" ELSE @]
          /\ hist' = [hist EXCEPT ![n] = IF srv[n] = "history" THEN "skipped" ELSE @]
          /\ UNCHANGED toPage
    /\ UNCHANGED <<socket, toServer, torn, agent>>

\* The gateway does not answer within 30 seconds.
TimesOut(n) == asked[n] # "none" /\ Fault /\ Abandon(n)

\* The gateway's socket is broken, or the pump took the response.
RequestFails(n) ==
    /\ up[n] # "open" \/ (asked[n] = "none" /\ \A i \in DOMAIN fromGw[n] : fromGw[n][i].t # "res")
    /\ Abandon(n)
    /\ UNCHANGED faults

\* Fault: the pump forwards deltas and finals only.
PumpDropsErrorFault(n) ==
    /\ pump[n] = "on"
    /\ fromGw[n] # <<>>
    /\ LET f == Head(fromGw[n]) IN
       toPage' = IF IsChat(f) /\ f.t # "error" THEN Written(n, <<f>>) ELSE toPage
    /\ fromGw' = [fromGw EXCEPT ![n] = Tail(@)]
    /\ UNCHANGED <<socket, toServer, faults, handler, up, asked, agent>>

\* The pump forwards a chat event and drops everything else.
Pump(n) ==
    /\ pump[n] = "on"
    /\ fromGw[n] # <<>>
    /\ LET f == Head(fromGw[n]) IN
       toPage' = IF IsChat(f) THEN Written(n, <<f>>) ELSE toPage
    /\ fromGw' = [fromGw EXCEPT ![n] = Tail(@)]
    /\ UNCHANGED <<socket, toServer, faults, handler, up, asked, agent>>

PumpEnds(n) ==
    /\ pump[n] = "on"
    /\ up[n] = "broken"
    /\ pump' = [pump EXCEPT ![n] = "ended"]
    /\ UNCHANGED <<sockets, srv, hist, torn, upstream, agent>>

\* The select of the loop: it ends with the pump, or blocks in Read.
Select(n) ==
    /\ srv[n] = "select"
    /\ IF pump[n] = "ended"
       THEN Leave(n, <<>>)
       ELSE At(n, "read") /\ UNCHANGED <<pump, toPage, upstream>>
    /\ UNCHANGED <<socket, toServer, faults, hist, torn, agent>>

\* The loop takes a message and writes chat.send to the gateway.
TakeSend(n) ==
    /\ srv[n] = "read"
    /\ toServer[n] # <<>>
    /\ Head(toServer[n]).t = "send"
    /\ toServer' = [toServer EXCEPT ![n] = Tail(@)]
    /\ At(n, "select")
    /\ UNCHANGED <<socket, pump, hist, torn, upstream, session, said, omitted>>

\* The message reaches the agent, or the gateway's socket is broken.
ReadSend(n) ==
    /\ TakeSend(n)
    /\ LET r == Head(toServer[n]).run IN
       \/ /\ up[n] = "open"
          /\ inbox' = Append(inbox, r)
          /\ log' = Append(log, Post("user", r))
          /\ UNCHANGED toPage
       \/ /\ up[n] = "broken"
          /\ \/ toPage' = Written(n, <<Control("failed")>>)
             \/ pump[n] = "on" /\ UNCHANGED toPage      \* not noticed yet
          /\ UNCHANGED <<log, inbox>>
    /\ UNCHANGED <<faults, refused>>

\* The gateway refuses it: the pump drops the response, nobody is told.
SendRefused(n) ==
    /\ TakeSend(n)
    /\ up[n] = "open"
    /\ Fault
    /\ refused' = refused \union {Head(toServer[n]).run}
    /\ UNCHANGED <<toPage, inbox, log>>

\* requestHistory, up to its read.
ReadHistory(n) ==
    /\ srv[n] = "read"
    /\ toServer[n] # <<>>
    /\ Head(toServer[n]).t = "history"
    /\ toServer' = [toServer EXCEPT ![n] = Tail(@)]
    /\ At(n, "ask")
    /\ torn' = [torn EXCEPT ![n] = TRUE]
    /\ IF up[n] = "open" THEN Ask(n, "history") ELSE UNCHANGED asked
    /\ UNCHANGED <<socket, toPage, faults, pump, hist, up, fromGw, agent>>

\* A read from the page, or the write of "ready", finds the socket closed.
PageGone(n) ==
    /\ srv[n] \in {"history", "read"}
    /\ socket[n] = "closed"
    /\ toServer[n] = <<>>
    /\ Leave(n, <<>>)
    /\ UNCHANGED <<socket, toServer, faults, hist, torn, agent>>

-----------------------------------------------------------------------------

Handle(n) ==
    \/ Dial(n) \/ ReadRes(n) \/ Select(n)
    \/ RequestFails(n) \/ ReadSend(n) \/ ReadHistory(n) \/ PageGone(n)

BridgeNext ==
    \/ AgentStreams \/ AgentFinishes \/ AgentFails
    \/ \E n \in Conns :
         \/ Handle(n) \/ Pump(n) \/ PumpEnds(n) \/ GatewayAnswers(n)
         \/ GatewayRefuses(n) \/ SendRefused(n) \/ DialFails(n) \/ TimesOut(n) \/ UpstreamBreaks(n)
=============================================================================
