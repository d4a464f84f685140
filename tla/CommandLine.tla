---------------------------- MODULE CommandLine ----------------------------
(***************************************************************************)
(* The command-line clients, tools/bpsp.c and client/c-client/client.c,    *)
(* which have the same commands: `sub` subscribes to its arguments one     *)
(* after the other and then shows what arrives; `pub` publishes each line  *)
(* of input to each of its arguments.  Both take the next frame to arrive  *)
(* for the reply to what they have just sent.                              *)
(*                                                                         *)
(* The broker at the other end is reduced to what a client sees of it:     *)
(* requests are served in order, and messages arrive at any time.          *)
(***************************************************************************)
EXTENDS Topics, Integers

CONSTANTS
    Commands,      \* the command lines that may be given
    Long,          \* the topics that do not fit in a frame
    Cut,           \* what is sent of topics whose length does not fit in 16 bits
    Published,     \* the topics others publish to
    MaxInput,      \* bound on the lines of input
    MaxPublished   \* bound on the messages of others

ASSUME CommandLineAssumption ==
    /\ Commands \subseteq [name : {"sub", "pub"}, argv : Seq(Seq(STRING)) \ {<<>>}]
    /\ Published \subseteq Seq(STRING)
    /\ Cut \in [DOMAIN Cut -> Seq(STRING)]
    /\ MaxInput \in Nat /\ MaxPublished \in Nat

VARIABLES
    cmd,         \* the command and its arguments
    pc,          \* where the client is
    argi,        \* the next argument
    s,           \* the status of the last operation
    input,       \* how many lines have been read
    shown,       \* what has been printed, with the opcode of the frame behind it
    requests,    \* frames on the way to the broker
    frames,      \* frames on the way to the client
    connection,  \* the connection
    served,      \* the requests the broker has served (external)
    published    \* how many messages others have published (external)

vars == <<cmd, pc, argi, s, input, shown, requests, frames, connection, served, published>>
clientVars == <<cmd, pc, argi, s, input, shown>>
others == <<cmd, served, published>>   \* what no step of the client changes

PC == {"start", "handshake", "subscribe", "await_sub", "listen", "input", "publish", "await_pub", "exit"}

TypeOK ==
    /\ pc \in PC
    /\ argi \in 1 .. Len(cmd.argv) + 1
    /\ s \in {"OK", "ERR", "undefined"}
    /\ input \in 0..MaxInput
    /\ \A i \in 1..Len(shown) : /\ shown[i].text \in {"Subscribing", "Received", "Published"}
                                /\ shown[i].op \in {"INFO", "OK", "MSG"}
    /\ \A i \in 1..Len(requests) : requests[i].op \in {"CONNECT", "SUB", "PUB"}
    /\ \A i \in 1..Len(frames) : frames[i].op \in {"INFO", "OK", "MSG"}
    /\ connection \in {"none", "open", "closed"}
    /\ published \in 0..MaxPublished

Init ==
    /\ cmd \in Commands
    /\ pc = "start" /\ argi = 1 /\ s = "OK" /\ input = 0 /\ shown = <<>>
    /\ requests = <<>> /\ frames = <<>> /\ connection = "none"
    /\ served = <<>> /\ published = 0

-----------------------------------------------------------------------------
\* An empty argument.
Blank == <<"">>

\* What arrives of a topic: of one of 2^16 bytes or more frame__set_var_header counts,
\* and var_header__to_bytes copies, what is left of its length in 16 bits.
OnWire(topic) == IF topic \in DOMAIN Cut THEN Cut[topic] ELSE topic

\* frame__send of a request; on a closed connection it fails or seems to succeed.
SendFrame(op, topic, ack) ==
    requests' = IF connection = "open" THEN Append(requests, [op |-> op, topic |-> topic, ack |-> ack])
                                       ELSE requests

\* frame__recv of the next frame.
RecvFrame == frames # <<>> /\ frames' = Tail(frames)

Show(text, topic) == shown' = Append(shown, [text |-> text, op |-> Head(frames).op, topic |-> topic])

\* The argument the loop is at can be sent.
Sendable == argi <= Len(cmd.argv) /\ cmd.argv[argi] \notin Long \cup {Blank}

\* An empty x-topic has no value (frame.c:23) for frame__send to follow.  The command
\* is not followed further, as after an exit.
SendBlank ==
    /\ pc \in {"subscribe", "publish"} /\ argi <= Len(cmd.argv) /\ cmd.argv[argi] = Blank
    /\ s' = "undefined" /\ pc' = "exit"
    /\ UNCHANGED <<argi, input, shown, requests, frames, connection, others>>

\* _connect: the socket, and CONNECT; whatever arrives next is the answer.
Connect ==
    /\ pc = "start"
    /\ \/ connection' = "open" /\ pc' = "handshake"
          /\ requests' = Append(requests, [op |-> "CONNECT", topic |-> <<>>, ack |-> FALSE])
       \/ pc' = "exit" /\ UNCHANGED <<connection, requests>>
    /\ UNCHANGED <<argi, s, input, shown, frames, others>>

Handshake ==
    /\ pc = "handshake" /\ RecvFrame
    /\ pc' = IF cmd.name = "sub" THEN "subscribe" ELSE "input"
    /\ UNCHANGED <<argi, s, input, shown, requests, connection, others>>

\* A send or a receive fails once the connection is closed; every one of them
\* ends the command.
Fail ==
    /\ connection = "closed"
    /\ \/ pc \in {"handshake", "await_sub", "listen", "await_pub"}
       \/ pc \in {"subscribe", "publish"} /\ argi <= Len(cmd.argv)
    /\ pc' = "exit" /\ s' = "ERR"
    /\ UNCHANGED <<argi, input, shown, requests, frames, connection, others>>

-----------------------------------------------------------------------------
(***************************************************************************)
(* handle_sub.                                                             *)
(***************************************************************************)
\* Faulty variant: no acknowledgement is asked for.
Sub_NoAck ==
    /\ pc = "subscribe" /\ Sendable
    /\ SendFrame("SUB", OnWire(cmd.argv[argi]), FALSE)
    /\ pc' = "await_sub"
    /\ UNCHANGED <<argi, s, input, shown, frames, connection, others>>

Sub ==
    /\ pc = "subscribe" /\ Sendable
    /\ SendFrame("SUB", OnWire(cmd.argv[argi]), TRUE)
    /\ pc' = "await_sub"
    /\ UNCHANGED <<argi, s, input, shown, frames, connection, others>>

\* frame__SUB fails: the loop ends, and the next one does not begin.
SubTooLong ==
    /\ pc = "subscribe" /\ argi <= Len(cmd.argv) /\ cmd.argv[argi] \in Long
    /\ s' = "ERR" /\ argi' = argi + 1 /\ pc' = "exit"
    /\ UNCHANGED <<input, shown, requests, frames, connection, others>>

SubReply ==
    /\ pc = "await_sub" /\ RecvFrame
    /\ Show("Subscribing", cmd.argv[argi])
    /\ argi' = argi + 1 /\ pc' = "subscribe"
    /\ UNCHANGED <<s, input, requests, connection, others>>

SubDone ==
    /\ pc = "subscribe" /\ argi > Len(cmd.argv)
    /\ pc' = "listen"
    /\ UNCHANGED <<argi, s, input, shown, requests, frames, connection, others>>

\* Faulty variant: the loop still counts arguments.
Listen_CountsOn ==
    /\ pc = "listen" /\ RecvFrame
    /\ Show("Received", Head(frames).topic)
    /\ argi' = argi + 1
    /\ UNCHANGED <<pc, s, input, requests, connection, others>>

Listen ==
    /\ pc = "listen" /\ RecvFrame
    /\ Show("Received", Head(frames).topic)
    /\ UNCHANGED <<pc, argi, s, input, requests, connection, others>>

\* The payload of a message (which is not in the model) is copied to a buffer of
\* 2^16 bytes, however long it is.
ListenOverruns ==
    /\ pc = "listen" /\ frames # <<>> /\ Head(frames).op = "MSG"
    /\ s' = "undefined" /\ pc' = "exit"
    /\ UNCHANGED <<argi, input, shown, requests, frames, connection, others>>

-----------------------------------------------------------------------------
(***************************************************************************)
(* handle_pub.                                                             *)
(***************************************************************************)
\* A line, or "exit" or the end of the input.
Input ==
    /\ pc = "input"
    /\ \/ input < MaxInput /\ input' = input + 1 /\ argi' = 1 /\ pc' = "publish"
       \/ pc' = "exit" /\ UNCHANGED <<input, argi>>
    /\ UNCHANGED <<s, shown, requests, frames, connection, others>>

\* Faulty variant: no acknowledgement is asked for.
Pub_NoAck ==
    /\ pc = "publish" /\ Sendable
    /\ SendFrame("PUB", OnWire(cmd.argv[argi]), FALSE)
    /\ pc' = "await_pub"
    /\ UNCHANGED <<argi, s, input, shown, frames, connection, others>>

Pub ==
    /\ pc = "publish" /\ Sendable
    /\ SendFrame("PUB", OnWire(cmd.argv[argi]), TRUE)
    /\ pc' = "await_pub"
    /\ UNCHANGED <<argi, s, input, shown, frames, connection, others>>

\* frame__PUB fails: the loop goes on with the next topic, whose status replaces
\* this one.
PubTooLong ==
    /\ pc = "publish" /\ argi <= Len(cmd.argv) /\ cmd.argv[argi] \in Long
    /\ s' = "ERR" /\ argi' = argi + 1
    /\ UNCHANGED <<pc, input, shown, requests, frames, connection, others>>

\* Faulty variant: the line is printed without waiting for a frame.
PubReply_NoWait ==
    /\ pc = "await_pub"
    /\ shown' = Append(shown, [text |-> "Published", op |-> "OK", topic |-> cmd.argv[argi]])
    /\ s' = "OK" /\ argi' = argi + 1 /\ pc' = "publish"
    /\ UNCHANGED <<input, requests, frames, connection, others>>

PubReply ==
    /\ pc = "await_pub" /\ RecvFrame
    /\ Show("Published", cmd.argv[argi])
    /\ s' = "OK" /\ argi' = argi + 1 /\ pc' = "publish"
    /\ UNCHANGED <<input, requests, connection, others>>

PubDone ==
    /\ pc = "publish" /\ argi > Len(cmd.argv)
    /\ pc' = IF s = "OK" THEN "input" ELSE "exit"
    /\ UNCHANGED <<argi, s, input, shown, requests, frames, connection, others>>

\* The command returns, or exits, and the connection goes with it.
Quit ==
    /\ pc = "exit" /\ connection = "open"
    /\ connection' = "closed" /\ frames' = <<>>
    /\ UNCHANGED <<clientVars, requests, served, published>>

-----------------------------------------------------------------------------
(***************************************************************************)
(* The broker.  An OK has the headers of the request it answers, a MSG     *)
(* those of the publication, but with the topic of the subscription.       *)
(***************************************************************************)
Reply(r) ==
    IF r.op = "CONNECT" THEN << [op |-> "INFO", topic |-> <<>>] >>
    ELSE IF r.ack THEN << [op |-> "OK", topic |-> r.topic] >> ELSE <<>>

\* In the order of handle__SUB: the subscription is in place before the reply.
BrokerServe ==
    /\ requests # <<>> /\ (\A i \in 1..Len(served) : served[i].done)
    /\ requests' = Tail(requests)
    /\ served' = Append(served, [req |-> Head(requests), done |-> FALSE])
    /\ UNCHANGED <<clientVars, frames, connection, published>>

BrokerReply ==
    /\ served # <<>> /\ ~Last(served).done
    /\ served' = [served EXCEPT ![Len(served)].done = TRUE]
    /\ frames' = IF connection = "open" THEN frames \o Reply(Last(served).req) ELSE frames
    /\ UNCHANGED <<clientVars, requests, connection, published>>

Subscribed ==
    {served[i].req.topic : i \in {j \in 1..Len(served) : served[j].req.op = "SUB" /\ Valid(served[j].req.topic)}}

\* Somebody publishes to topic, and one of the subscriptions gets it.
BrokerDeliver(topic, sub) ==
    /\ published < MaxPublished /\ connection = "open"
    /\ sub \in Subscribed /\ Valid(topic) /\ Matches(Tokens(sub), Tokens(topic))
    /\ published' = published + 1
    /\ frames' = Append(frames, [op |-> "MSG", topic |-> sub])
    /\ UNCHANGED <<clientVars, requests, connection, served>>

\* The broker's loop for this connection ends: a reply that has no room, or the
\* broker itself stops.
BrokerClose ==
    /\ connection = "open"
    /\ connection' = "closed" /\ requests' = <<>>
    /\ UNCHANGED <<clientVars, frames, served, published>>

-----------------------------------------------------------------------------
Client ==
    \/ Connect \/ Handshake \/ Fail \/ Quit \/ SendBlank
    \/ Sub \/ SubTooLong \/ SubReply \/ SubDone \/ Listen \/ ListenOverruns
    \/ Input \/ Pub \/ PubTooLong \/ PubReply \/ PubDone

Broker ==
    \/ BrokerServe \/ BrokerReply \/ BrokerClose
    \/ \E topic \in Published, i \in 1..Len(cmd.argv) : BrokerDeliver(topic, OnWire(cmd.argv[i]))

Next == Client \/ Broker

\* The client runs, and the broker serves what it is sent.
Fairness == WF_vars(Client) /\ WF_vars(BrokerServe \/ BrokerReply)

Spec == Init /\ [][Next]_vars /\ Fairness

-----------------------------------------------------------------------------
Lines(text, op) == {i \in 1..Len(shown) : shown[i].text = text /\ shown[i].op = op}
Card(set) == Cardinality(set)

\* The lines that tell of a subscription or a publication, the requests for one
\* that have been served, and which of them an element is.
Told == {i \in 1..Len(shown) : shown[i].text # "Received"}
Made == {i \in 1..Len(served) : served[i].req.op \in {"SUB", "PUB"}}
Rank(set, i) == Card({j \in set : j <= i})

\* A frame taken for something else is not lost: for every message that was taken
\* for the reply to a SUB, a reply is shown as a message, or is still to come,
\* unless the connection has closed.
NothingSwallowed ==
    pc \in {"subscribe", "await_sub", "listen"} /\ connection = "open" =>
        Card(Lines("Subscribing", "MSG")) + (IF pc = "await_sub" THEN 1 ELSE 0)
            = Card(Lines("Received", "OK"))
              + Card({i \in 1..Len(frames) : frames[i].op = "OK"})
              + Card({i \in 1..Len(requests) : requests[i].op = "SUB"})
              + Card({i \in 1..Len(served) : served[i].req.op = "SUB" /\ ~served[i].done})

\* What is told of subscriptions and publications are the requests the broker
\* serves, in their order, although the client never looks at what it takes for a
\* reply: never more than one behind, and ahead by no more than the messages that
\* were taken for replies.  A topic that is sent cut is told of uncut.
ToldInOrder ==
    /\ Card(Made) - 1 <= Card(Told)
    /\ Card(Told) <= Card(Made) + Card(Lines("Subscribing", "MSG"))
    /\ \A i \in Told, j \in Made : Rank(Told, i) = Rank(Made, j) => OnWire(shown[i].topic) = served[j].req.topic

\* The command gets through its arguments: it never waits for a frame that does
\* not come.
GetsThrough ==
    pc \in {"handshake", "subscribe", "await_sub", "publish", "await_pub"}
        ~> pc \in {"listen", "input", "exit"}
=============================================================================
