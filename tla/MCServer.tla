------------------------------ MODULE MCServer ------------------------------
(***************************************************************************)
(* Small instances of Server.                                              *)
(***************************************************************************)
EXTENDS Server, TLC

CONSTANTS c1, c2, c3

Req(op, topic, tag, ack, echo) ==
    [op |-> op, topic |-> topic, tag |-> tag, ack |-> ack, echo |-> echo, room |-> "all"]

Tight(r, room) == [r EXCEPT !.room = room]

\* A topic that is subscribed and published to, one that the tree refuses, and
\* one whose identifier with tag T0 is that of A with tag TA.
A == <<"a">>
Refused == <<"a", "*", "b">>
AA == <<"a", "a">>
MCTopic == {A, Refused, AA}

T0 == <<"_0">>
TA == <<"_0", "a">>
MCTag == {T0, TA}

Subscribe == Req("SUB", A, T0, TRUE, FALSE)
Publish == Req("PUB", A, NONE, TRUE, FALSE)

\* How many requests each connection sends.
OneEach == [c \in Conn |-> 1]
TwoAndOne == (c1 :> 2) @@ (c2 :> 1)

\* Addresses are only compared; which one a client gets is of no consequence.
PtrSymmetry == Permutations(Ptr)

\* A subscriber, a publisher, and a third connection that comes and goes.
ThreeRequests == (c1 :> {Subscribe}) @@ (c2 :> {Publish, Tight(Publish, "reply"), Tight(Publish, "none")}) @@ (c3 :> {})

\* A client that uses the requests with a topic in every way, or sends a frame
\* that is rejected, and one that subscribes.
AllRequests ==
    (c1 :> {Req("SUB", A, T0, FALSE, FALSE), Req("SUB", A, TA, FALSE, FALSE),
            Req("SUB", Refused, NONE, FALSE, FALSE), Req("SUB", NONE, NONE, FALSE, FALSE),
            Req("UNSUB", A, T0, FALSE, FALSE), Req("UNSUB", AA, T0, FALSE, FALSE),
            Req("UNSUB", Refused, T0, FALSE, FALSE), Req("UNSUB", A, NONE, TRUE, FALSE),
            Req("PUB", A, NONE, FALSE, TRUE),
            Req("PUB", NONE, NONE, TRUE, FALSE), Req("BAD", NONE, NONE, FALSE, FALSE)})
    @@ (c2 :> {Req("SUB", A, NONE, TRUE, FALSE)})

\* One connection that sends requests of one kind.
InvalidSubscribe == (c1 :> {Req("SUB", Refused, T0, TRUE, FALSE)})

\* A subscriber and a publisher, which may also send the requests without a topic.
TwoRequests ==
    (c1 :> {Subscribe, Req("CONNECT", NONE, NONE, FALSE, FALSE)})
    @@ (c2 :> {Publish, Req("NOOP", NONE, NONE, FALSE, FALSE)})
=============================================================================
