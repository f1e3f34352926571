------------------------------ MODULE ChatFeed ------------------------------
(***************************************************************************)
(* What the chat bridge promises for each socket: from the moment it is     *)
(* subscribed, chat events reach the page in order and without a gap; when  *)
(* it ends, only the last of them may be missing, and nothing follows.      *)
(***************************************************************************)
EXTENDS Naturals, Sequences

CONSTANTS Conns, Events

VARIABLES
    phase,   \* [Conns -> new, open, over]
    feed     \* chat events the page has not received yet

FeedTypeOK ==
    /\ phase \in [Conns -> {"new", "open", "over"}]
    /\ feed \in [Conns -> Seq(Events)]

Init ==
    /\ phase = [n \in Conns |-> "new"]
    /\ feed = [n \in Conns |-> <<>>]

Subscribe(n) ==
    /\ phase[n] = "new"
    /\ phase' = [phase EXCEPT ![n] = "open"]
    /\ UNCHANGED feed

Emit(e) ==
    /\ feed' = [n \in Conns |-> IF phase[n] = "open" THEN Append(feed[n], e) ELSE feed[n]]
    /\ UNCHANGED phase

Deliver(n) ==
    /\ feed[n] # <<>>
    /\ feed' = [feed EXCEPT ![n] = Tail(@)]
    /\ UNCHANGED phase

End(n) ==
    /\ phase[n] # "over"
    /\ phase' = [phase EXCEPT ![n] = "over"]
    /\ \E i \in 0 .. Len(feed[n]) : feed' = [feed EXCEPT ![n] = SubSeq(@, 1, i)]

\* The page closes an ended socket: what it has not received is gone.
Drop(n) ==
    /\ phase[n] = "over"
    /\ feed' = [feed EXCEPT ![n] = <<>>]
    /\ UNCHANGED phase

Next ==
    \/ \E e \in Events : Emit(e)
    \/ \E n \in Conns : Subscribe(n) \/ Deliver(n) \/ End(n) \/ Drop(n)

Spec == Init /\ [][Next]_<<phase, feed>>
=============================================================================
