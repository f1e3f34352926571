------------------------------ MODULE ChatPage ------------------------------
(***************************************************************************)
(* The chat page after login: GatewayClient (web/chat/src/gateway.ts) and   *)
(* renderChat with its callbacks (web/chat/src/main.ts).                    *)
(*                                                                          *)
(* Representation.  A user message and the agent's answer to it are one     *)
(* run.  `el` is currentStreamEl: attached to the page, or detached by a    *)
(* transcript that replaced all messages.  `text` is streamedText.  The     *)
(* typing dots, the copy of the conversation in localStorage (shown only    *)
(* while there is no transcript) and the delays are left out.  The session  *)
(* does not expire; nothing in the page calls requestHistory, which         *)
(* GatewayClient offers.                                                    *)
(***************************************************************************)
EXTENDS ChatSockets

CONSTANT MaxAttempts   \* maxReconnectAttempts

ASSUME PageBounds == MaxAttempts \in Nat \ {0}

VARIABLES
    ws,          \* number of the client's current socket
    timer,       \* reconnectTimer is set
    attempts,    \* reconnectAttempts
    status,      \* the status bar: connecting, online, reconnecting, error
    input,       \* the send box is enabled
    streaming,   \* isStreaming
    el,          \* none, attached, detached
    text,        \* the runs whose pieces are in streamedText
    shown,       \* runs whose answer is on the page
    submitted,   \* messages submitted
    begun,       \* history: the socket on which the current stream began
    swallowed,   \* history: runs whose answer went to a detached element
    waiting      \* history: on the current socket, a message has no answer yet

client == <<ws, timer, attempts>>
stream == <<streaming, el, text, begun>>
view == <<status, input, shown, swallowed, waiting>>
page == <<client, stream, view, submitted>>

PageTypes ==
    /\ ws \in Conns
    /\ timer \in BOOLEAN
    /\ attempts \in 0 .. MaxAttempts
    /\ status \in {"connecting", "online", "reconnecting", "error"}
    /\ input \in BOOLEAN
    /\ streaming \in BOOLEAN
    /\ el \in {"none", "attached", "detached"}
    /\ text \in SUBSET Runs
    /\ shown \in SUBSET Runs
    /\ submitted \in 0 .. MaxRuns
    /\ begun \in 0 .. MaxConns
    /\ swallowed \in SUBSET Runs
    /\ waiting \in BOOLEAN

\* One socket at a time; a stream has an element and a socket it began on.
PageLinks ==
    /\ \A n \in Conns : (socket[n] = "unused") <=> (n > ws)
    /\ \A n \in Conns : socket[n] \in {"connecting", "open", "closing"} => n = ws /\ ~timer
    /\ streaming <=> el # "none"
    /\ streaming <=> begun # 0

PageTypeOK == PageTypes /\ PageLinks

PageInit ==
    /\ ws = 1
    /\ timer = FALSE
    /\ attempts = 0
    /\ status = "connecting"
    /\ input = FALSE
    /\ streaming = FALSE
    /\ el = "none"
    /\ text = {}
    /\ shown = {}
    /\ submitted = 0
    /\ begun = 0
    /\ swallowed = {}
    /\ waiting = FALSE

-----------------------------------------------------------------------------
(* GatewayClient *)

\* onopen.  The server has accepted the socket; it has not dialled yet.
Opened ==
    /\ socket[ws] = "connecting"
    /\ socket' = [socket EXCEPT ![ws] = "open"]
    /\ attempts' = 0
    /\ UNCHANGED <<toServer, toPage, faults, ws, timer, stream, view, submitted>>

\* Fault: the comparison of scheduleReconnect allows one attempt too many.
ClosedOffByOneFault ==
    /\ socket' = [socket EXCEPT ![ws] = "closed"]
    /\ toPage' = [toPage EXCEPT ![ws] = <<>>]
    /\ status' = "reconnecting"
    /\ input' = FALSE
    /\ IF ~timer /\ attempts <= MaxAttempts
       THEN timer' = TRUE /\ attempts' = attempts + 1
       ELSE UNCHANGED <<timer, attempts>>
    /\ waiting' = FALSE
    /\ UNCHANGED <<ws, stream, shown, swallowed, submitted>>

\* Fault: onDisconnected only changes the status bar.
ClosedKeepsInputFault ==
    /\ socket' = [socket EXCEPT ![ws] = "closed"]
    /\ toPage' = [toPage EXCEPT ![ws] = <<>>]
    /\ status' = "reconnecting"
    /\ IF ~timer /\ attempts < MaxAttempts
       THEN timer' = TRUE /\ attempts' = attempts + 1
       ELSE UNCHANGED <<timer, attempts>>
    /\ waiting' = FALSE
    /\ UNCHANGED <<ws, input, stream, shown, swallowed, submitted>>

\* onclose: onDisconnected and scheduleReconnect.
Closed ==
    /\ socket' = [socket EXCEPT ![ws] = "closed"]
    /\ toPage' = [toPage EXCEPT ![ws] = <<>>]
    /\ status' = "reconnecting"
    /\ input' = FALSE
    /\ IF ~timer /\ attempts < MaxAttempts
       THEN timer' = TRUE /\ attempts' = attempts + 1
       ELSE UNCHANGED <<timer, attempts>>
    /\ waiting' = FALSE
    /\ UNCHANGED <<ws, stream, shown, swallowed, submitted>>

\* onerror and onclose; the session is still good.
ConnectFails ==
    /\ socket[ws] = "connecting"
    /\ Fault
    /\ Closed
    /\ UNCHANGED toServer

\* The network fails; the server gets some of what was sent.
SocketBreaks ==
    /\ socket[ws] = "open"
    /\ Fault
    /\ Closed
    /\ \/ UNCHANGED toServer
       \/ toServer' = [toServer EXCEPT ![ws] = <<>>]

\* The timer of scheduleReconnect: connect.
Reconnect ==
    /\ timer
    /\ ws < MaxConns
    /\ timer' = FALSE
    /\ ws' = ws + 1
    /\ socket' = [socket EXCEPT ![ws + 1] = "connecting"]
    /\ UNCHANGED <<toServer, toPage, faults, attempts, stream, view, submitted>>

Send(f) == toServer' = [toServer EXCEPT ![ws] = Append(@, f)]

RequestHistory ==
    /\ socket[ws] = "open"
    /\ Fault
    /\ Send(Control("history"))
    /\ UNCHANGED <<socket, toPage, page>>

-----------------------------------------------------------------------------
(* renderChat *)

\* The submit handler; client.send drops the message unless the socket is open.
Submit ==
    /\ input
    /\ ~streaming
    /\ submitted < MaxRuns
    /\ submitted' = submitted + 1
    /\ input' = FALSE
    /\ waiting' = TRUE
    /\ IF socket[ws] = "open" THEN Send(Message(submitted + 1)) ELSE UNCHANGED toServer
    /\ UNCHANGED <<socket, toPage, faults, client, stream, status, shown, swallowed>>

\* Fault: onReady leaves the send box as it is.
OnReadyKeepsInputFault ==
    /\ status' = "online"
    /\ UNCHANGED <<input, stream, shown, swallowed, waiting>>

OnReady ==
    /\ status' = "online"
    /\ input' = TRUE
    /\ UNCHANGED <<stream, shown, swallowed, waiting>>

\* The transcript replaces all messages, the one being streamed included.
OnHistory(S, empty) ==
    IF empty
    THEN UNCHANGED <<stream, view>>
    ELSE /\ shown' = S
         /\ el' = IF el = "attached" THEN "detached" ELSE el
         /\ swallowed' = swallowed \ S
         /\ UNCHANGED <<streaming, text, begun, status, input, waiting>>

OnChatDelta(r) ==
    /\ streaming' = TRUE
    /\ el' = IF streaming THEN el ELSE "attached"
    /\ begun' = IF streaming THEN begun ELSE ws
    /\ text' = (IF streaming THEN text ELSE {}) \union {r}
    /\ UNCHANGED view

\* Fault: currentStreamEl is not reset.
EndStreamKeepsElementFault ==
    /\ streaming' = FALSE
    /\ el' = IF el = "detached" THEN el ELSE "none"
    /\ begun' = 0

EndStream == streaming' = FALSE /\ el' = "none" /\ begun' = 0

\* Fault: a final answer without a stream is not shown.
OnChatFinalNeedsStreamFault(r) ==
    /\ IF el = "detached"
       THEN swallowed' = swallowed \union {r} /\ UNCHANGED shown
       ELSE /\ shown' = IF el = "attached" THEN shown \union {r} ELSE shown
            /\ UNCHANGED swallowed
    /\ EndStream
    /\ text' = {}
    /\ input' = TRUE
    /\ waiting' = FALSE
    /\ UNCHANGED status

OnChatFinal(r) ==
    /\ IF el = "detached"
       THEN swallowed' = swallowed \union {r} /\ UNCHANGED shown
       ELSE shown' = shown \union {r} /\ UNCHANGED swallowed
    /\ EndStream
    /\ text' = {}
    /\ input' = TRUE
    /\ waiting' = FALSE
    /\ UNCHANGED status

\* Without a stream the error only goes to the status bar.
OnChatError ==
    IF ~streaming /\ el = "none"
    THEN status' = "error" /\ UNCHANGED <<stream, input, shown, swallowed, waiting>>
    ELSE /\ EndStream
         /\ input' = TRUE
         /\ waiting' = FALSE
         /\ UNCHANGED <<text, status, shown, swallowed>>

\* The server's close frame: readyState is CLOSING, nothing is told yet.
StartsClosing ==
    /\ socket' = [socket EXCEPT ![ws] = "closing"]
    /\ toPage' = [toPage EXCEPT ![ws] = <<>>]
    /\ UNCHANGED page

\* The closing handshake is over: onclose.
CloseEvent ==
    /\ socket[ws] = "closing"
    /\ Closed
    /\ UNCHANGED <<toServer, faults>>

\* onmessage, or the server's close.
Receive ==
    /\ socket[ws] = "open"
    /\ toPage[ws] # <<>>
    /\ LET f == Head(toPage[ws]) IN
       \/ f.t = "close" /\ StartsClosing
       \/ /\ \/ f.t = "ready" /\ OnReady
             \/ f.t = "history" /\ OnHistory(f.runs, f.empty)
             \/ f.t = "delta" /\ OnChatDelta(f.run)
             \/ f.t = "final" /\ OnChatFinal(f.run)
             \/ f.t \in {"error", "failed"} /\ OnChatError
          /\ toPage' = [toPage EXCEPT ![ws] = Tail(@)]
          /\ UNCHANGED <<socket, client, submitted>>
    /\ UNCHANGED <<toServer, faults>>

PageNext ==
    \/ ConnectFails \/ SocketBreaks \/ Reconnect \/ RequestHistory \/ Submit \/ Receive
    \/ CloseEvent
=============================================================================
