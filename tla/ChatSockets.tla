---------------------------- MODULE ChatSockets ----------------------------
(***************************************************************************)
(* The WebSockets between the chat page and the chat server: what           *)
(* ChatBridge (the server) and ChatPage (the browser) share.                *)
(*                                                                          *)
(* The page opens one socket after the other; number n is its n-th.  Frames *)
(* arrive in order until the socket is closed.  `socket` is the page's view *)
(* (readyState): the server learns of a closed socket when it reads or      *)
(* writes.  "close" at the end of toPage is the server's close frame, on     *)
(* which the browser is "closing" until it runs onclose.                    *)
(***************************************************************************)
EXTENDS Naturals, Sequences

CONSTANTS
    MaxConns,    \* sockets the page opens
    MaxRuns,     \* messages the user sends, each answered by one run of the agent
    MaxDeltas,   \* pieces in which the agent streams an answer
    MaxFaults    \* bound on failures and history requests

ASSUME ChatBounds ==
    /\ MaxConns \in Nat \ {0}
    /\ MaxRuns \in Nat
    /\ MaxDeltas \in Nat
    /\ MaxFaults \in Nat

Conns == 1 .. MaxConns
Runs == 1 .. MaxRuns

VARIABLES
    socket,      \* [Conns -> unused, connecting, open, closing, closed]
    toServer,    \* frames the server has not read yet
    toPage,      \* frames the page has not received yet
    faults

sockets == <<socket, toServer, toPage, faults>>

\* Frames: a control frame, a chat event of a run, a message, or the transcript:
\* the runs it holds the answers of, and whether it holds nothing at all.
Control(t) == [t |-> t]
Event(t, r, k) == [t |-> t, run |-> r, k |-> k]
Transcript(S, empty) == [t |-> "history", runs |-> S, empty |-> empty]
Message(r) == [t |-> "send", run |-> r]

ServerFrames == {Control("history")} \union {Message(r) : r \in Runs}
ChatEvents ==
    {Event("delta", r, k) : r \in Runs, k \in 1 .. MaxDeltas}
    \union {Event(t, r, 0) : t \in {"final", "error"}, r \in Runs}
PageFrames ==
    {Control(t) : t \in {"ready", "failed", "close"}}
    \union {Transcript(S, e) : S \in SUBSET Runs, e \in BOOLEAN} \union ChatEvents

IsChat(f) == f.t \in {"delta", "final", "error"}

SocketsTypeOK ==
    /\ socket \in [Conns -> {"unused", "connecting", "open", "closing", "closed"}]
    /\ toServer \in [Conns -> Seq(ServerFrames)]
    /\ toPage \in [Conns -> Seq(PageFrames)]
    /\ faults \in 0 .. MaxFaults

SocketsInit ==
    /\ socket = [n \in Conns |-> IF n = 1 THEN "connecting" ELSE "unused"]
    /\ toServer = [n \in Conns |-> <<>>]
    /\ toPage = [n \in Conns |-> <<>>]
    /\ faults = 0

Fault == faults < MaxFaults /\ faults' = faults + 1

\* A write to socket n; nobody reads what is written to a closed one.
Written(n, frames) ==
    IF socket[n] = "open" THEN [toPage EXCEPT ![n] = @ \o frames] ELSE toPage
=============================================================================
