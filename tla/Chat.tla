-------------------------------- MODULE Chat --------------------------------
(* The chat: page, bridge and gateway together. *)
EXTENDS FiniteSets, ChatBridge, ChatPage

vars == <<sockets, bridge, page>>

TypeOK == SocketsTypeOK /\ BridgeTypeOK /\ PageTypeOK

Init == SocketsInit /\ BridgeInit /\ PageInit

\* The server accepts the page's socket.
Accept ==
    /\ Opened
    /\ srv' = [srv EXCEPT ![ws] = "dial"]
    /\ UNCHANGED <<pump, hist, torn, upstream, agent>>

Next ==
    \/ Accept
    \/ BridgeNext /\ UNCHANGED page
    \/ PageNext /\ UNCHANGED bridge

Spec == Init /\ [][Next]_vars

\* What happens by itself: goroutines run, gateway and agent answer, the network
\* delivers and timers fire.  Nobody has to send a message, and no failure has to
\* happen.
Served(n) == Handle(n) \/ Pump(n) \/ PumpEnds(n) \/ GatewayAnswers(n)

Progress ==
    \/ Accept
    \/ (Receive \/ CloseEvent \/ Reconnect) /\ UNCHANGED bridge
    \/ (AgentFinishes \/ \E n \in Conns : Served(n)) /\ UNCHANGED page

FairSpec == Spec /\ WF_vars(Progress)

-----------------------------------------------------------------------------
(* Properties *)

\* client.send drops a message silently unless the socket is open.  While the
\* send box is enabled it is, but for the moment between the server's close frame
\* and onclose: only a message submitted then is dropped.
InputMeansConnected == input => socket[ws] \in {"open", "closing"}

OnItsWay(P(_)) ==
    \/ \E i \in DOMAIN toPage[ws] : P(toPage[ws][i])
    \/ \E i \in DOMAIN fromGw[ws] : P(fromGw[ws][i])

\* A stream that began on this socket shows the pieces of one run only, and it
\* will end: the agent is still at the run, or its end is on the way.  (Not when
\* a history request reads next to the pump, or the gateway is gone.)
StreamEnds ==
    streaming /\ begun = ws /\ socket[ws] = "open" /\ up[ws] = "open" /\ ~torn[ws] =>
        \E r \in Runs :
            LET ends(f) == f.t \in {"final", "error"} /\ f.run = r IN
            /\ text = {r}
            /\ (inbox # <<>> /\ Head(inbox) = r) \/ OnItsWay(ends)

\* No answer is lost at a reconnect: once a socket has been sent its transcript,
\* every answer the agent has given is on the page or on its way there, but for
\* those that completed a stream begun on an earlier socket, whose element the
\* transcript has removed, and those that were older than the last HistoryLimit
\* messages, or of a text requestHistory leaves out, when the gateway answered.
NothingLost ==
    socket[ws] = "open" /\ up[ws] = "open" /\ hist[ws] = "sent" /\ ~torn[ws] =>
        \A r \in answered \ omitted[ws] :
            LET brings(f) == \/ f.t = "final" /\ f.run = r
                             \/ f.t = "history" /\ r \in f.runs IN
            r \in shown \union swallowed \/ OnItsWay(brings)

\* An answer goes to an element that is no longer on the page only when its
\* stream began on an earlier socket, or history was asked for in its middle.
SwallowedAcrossSockets ==
    [][~(swallowed' \subseteq swallowed) => begun \notin {0, ws} \/ torn[ws]]_vars

\* main.ts:290: errors that only go to the status bar "come in before any user
\* message".
StatusErrorsComeFirst ==
    [][status # "error" /\ status' = "error" => ~waiting]_vars

-----------------------------------------------------------------------------
(* Progress *)

Usable == input /\ ~streaming

\* The ways the page can be left without a send box: it has given up; an error
\* before the first piece of an answer; the gateway has refused the message, of
\* which nobody tells the page; the gateway's socket is gone and the loop waits for
\* a frame of the page; a stream whose end was missed; a history request that took
\* the end of the answer.
GaveUp == socket[ws] = "closed" /\ ~timer
ErrorInBar == status = "error" /\ socket[ws] = "open"
Refused == waiting /\ submitted \in refused
Deaf == srv[ws] = "read" /\ pump[ws] = "ended"
StaleStream == streaming /\ begun # ws

\* (The model, not the page, runs out of sockets.)
NoSocketLeft == timer /\ ws = MaxConns

\* There is no other way: otherwise the page gets its send box back.
Recovers ==
    <>[](Usable \/ GaveUp \/ ErrorInBar \/ Refused \/ Deaf \/ StaleStream \/ torn[ws]
         \/ NoSocketLeft)

-----------------------------------------------------------------------------
(* What the bridge promises *)

\* Frames behind the response.
Behind(frames) ==
    LET here == {i \in DOMAIN frames : frames[i].t = "res"} IN
    IF here = {} THEN <<>>
    ELSE SubSeq(frames, (CHOOSE i \in here : TRUE) + 1, Len(frames))

Responded(n) ==
    srv[n] = "history" /\ asked[n] = "none"

\* The page takes no more frames.
Shut(n) == socket[n] \in {"closing", "closed"}

\* A socket is subscribed once the gateway has answered the request for the
\* transcript: what came before it is dropped, what follows is forwarded.
PhaseOf(n) ==
    LET over == up[n] # "none" /\ (up[n] # "open" \/ torn[n] \/ Shut(n)) IN
    CASE over                                        -> "over"
      [] ~over /\ (pump[n] = "on" \/ Responded(n)) -> "open"
      [] OTHER                                       -> "new"

\* The chat events among frames, in their order.
ChatAt(s) == {i \in DOMAIN s : IsChat(s[i])}
Rank(s, i) == Cardinality({j \in ChatAt(s) : j <= i})
Chats(s) == [k \in 1 .. Cardinality(ChatAt(s)) |-> s[CHOOSE i \in ChatAt(s) : Rank(s, i) = k]]

\* Chat events the bridge is still to forward: the pump has nothing else to read.
Coming(n) ==
    IF pump[n] = "on" THEN fromGw[n]
    ELSE IF srv[n] = "history" THEN Behind(fromGw[n]) ELSE <<>>

FeedOf(n) ==
    IF torn[n] \/ Shut(n) THEN <<>> ELSE Chats(toPage[n]) \o Coming(n)

Feed == INSTANCE ChatFeed WITH
    Events <- ChatEvents,
    phase <- [n \in Conns |-> PhaseOf(n)],
    feed <- [n \in Conns |-> FeedOf(n)]

\* The bridge and the channels on both sides are the ordered feed of ChatFeed.
ImplementsFeed == Feed!Spec
=============================================================================
