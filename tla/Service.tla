------------------------------ MODULE Service -------------------------------
(***************************************************************************)
(* What the broker promises the programs connected to it, without threads, *)
(* locks, sockets or memory.  Each connection has one request at a time;   *)
(* a publication is owed at once to all subscriptions that match it, and   *)
(* its request ends when each of them has got the message or is leaving.   *)
(* Server implements it until one of its data races bites.                 *)
(***************************************************************************)
EXTENDS Naturals, Sequences

CONSTANTS
    Conn, NONE, Request, NoRequest,
    Subscription,   \* records with the fields conn, topic and tag
    ValidTopic,     \* the topics that can be subscribed to
    Hits            \* the pairs of a subscribed and a published topic that match

VARIABLES
    stage,       \* of each connection's current request
    asked,       \* that request
    turn,        \* its number
    outcome,     \* what its reply is going to say
    subscribed,  \* the subscriptions in place
    due,         \* the subscriptions each connection's publication is owed to
    delivered,   \* the frames each connection has been sent whole
    left,        \* the connections whose peer has closed
    over,        \* the connections nothing refers to any more
    broken       \* whether the broker's promise has lapsed

requestVars == <<stage, asked, turn, outcome>>
serviceVars == <<requestVars, subscribed, due, delivered, left, over, broken>>

Init ==
    /\ stage = [c \in Conn |-> "ready"]
    /\ asked = [c \in Conn |-> NoRequest]
    /\ turn = [c \in Conn |-> 0]
    /\ outcome = [c \in Conn |-> "OK"]
    /\ subscribed = {}
    /\ due = [c \in Conn |-> {}]
    /\ delivered = [c \in Conn |-> {}]
    /\ left = {}
    /\ over = {}
    /\ broken = FALSE

Own(c) == {s \in subscribed : s.conn = c}

Begin(c) ==
    /\ stage[c] = "ready"
    /\ \E r \in Request : asked' = [asked EXCEPT ![c] = r]
    /\ stage' = [stage EXCEPT ![c] = "asked"]
    /\ turn' = [turn EXCEPT ![c] = @ + 1]
    /\ UNCHANGED <<outcome, subscribed, due, delivered, left, over, broken>>

\* The request of connection c, one with opcode op, takes effect.
Serve(c, op) ==
    /\ stage[c] = "asked" /\ asked[c].op = op
    /\ stage' = [stage EXCEPT ![c] = "done"]
    /\ UNCHANGED <<asked, turn, delivered, left, over, broken>>

Subscribe(c) ==
    /\ Serve(c, "SUB")
    /\ \E s \in Subscription :
          /\ s.conn = c /\ s.topic \in ValidTopic
          /\ s.topic = asked[c].topic /\ asked[c].tag \in {s.tag, NONE}
          /\ subscribed' = subscribed \cup {s}
    /\ UNCHANGED <<outcome, due>>

\* Only a connection's own subscription can be taken back, or one whose SUB was
\* refused for its topic without the client being told, and only under the name
\* the request gives: the tag followed by the topic, which is not always that of
\* one pair alone.
Unsubscribe(c) ==
    /\ Serve(c, "UNSUB") /\ asked[c].topic # NONE /\ asked[c].tag # NONE
    /\ \E s \in Subscription :
          /\ s.tag \o s.topic = asked[c].tag \o asked[c].topic
          /\ s \in Own(c) \/ (s.conn = c /\ s.topic \notin ValidTopic)
          /\ subscribed' = subscribed \ {s}
    /\ UNCHANGED <<outcome, due>>

\* A refused UNSUB is reported.  A refused SUB is not, as the broker is.
Refuse(c) ==
    /\ \/ Serve(c, "SUB") /\ outcome'[c] \in {"OK", "ERR"}
       \/ Serve(c, "UNSUB") /\ outcome'[c] = "ERR"
    /\ outcome' = [outcome EXCEPT ![c] = outcome'[c]]
    /\ UNCHANGED <<subscribed, due>>

Matching(c) ==
    {s \in subscribed : /\ <<s.topic, asked[c].topic>> \in Hits
                        /\ s.conn # c \/ asked[c].echo}

\* A publication is for everyone who is subscribed now.
Publish(c) ==
    /\ Serve(c, "PUB") /\ asked[c].topic # NONE
    /\ due' = [due EXCEPT ![c] = Matching(c)]
    /\ UNCHANGED <<outcome, subscribed>>

Answer(c) ==
    /\ Serve(c, "CONNECT") \/ Serve(c, "NOOP")
    /\ UNCHANGED <<outcome, subscribed, due>>

Receives(d, f) ==
    /\ d \notin over /\ f \notin delivered[d]
    /\ delivered' = [delivered EXCEPT ![d] = @ \cup {f}]

Deliver(c) ==
    /\ \E s \in due[c] :
          /\ due' = [due EXCEPT ![c] = @ \ {s}]
          /\ Receives(s.conn, [op |-> "MSG", from |-> c, n |-> turn[c], sub |-> s])
    /\ UNCHANGED <<requestVars, subscribed, left, over, broken>>

\* Only those who are leaving miss a message, unless its headers leave no room for
\* those of a delivery.
Drop(c) ==
    /\ \E s \in due[c] :
          /\ s.conn \in left \/ stage[s.conn] = "ended" \/ asked[c].room # "all"
          /\ due' = [due EXCEPT ![c] = @ \ {s}]
    /\ UNCHANGED <<requestVars, subscribed, delivered, left, over, broken>>

Reply(c) ==
    CASE asked[c].op = "CONNECT" -> "INFO"
      [] asked[c].op = "NOOP" -> "NOOP"
      [] OTHER -> outcome[c]

\* The request ends with its reply, or with none if none was asked for.
Finish(c) ==
    /\ stage[c] = "done" /\ due[c] = {}
    /\ IF asked[c].ack \/ asked[c].op \in {"CONNECT", "NOOP"}
       THEN Receives(c, [op |-> Reply(c), from |-> c, n |-> turn[c], sub |-> NONE])
       ELSE UNCHANGED delivered
    /\ stage' = [stage EXCEPT ![c] = "ready"]
    /\ asked' = [asked EXCEPT ![c] = NoRequest]
    /\ outcome' = [outcome EXCEPT ![c] = "OK"]
    /\ UNCHANGED <<turn, subscribed, due, left, over, broken>>

\* The connection fails, but never in the middle of a publication.
Fail(c) ==
    /\ stage[c] # "ended" /\ due[c] = {}
    /\ stage' = [stage EXCEPT ![c] = "ended"]
    /\ UNCHANGED <<asked, turn, outcome, subscribed, due, delivered, left, over, broken>>

PeerLeaves(c) ==
    /\ left' = left \cup {c}
    /\ UNCHANGED <<requestVars, subscribed, due, delivered, over, broken>>

\* All subscriptions of a connection that has ended go at once, and the
\* connection only after them.
Quit(c) ==
    /\ stage[c] = "ended"
    /\ subscribed' = subscribed \ Own(c)
    /\ UNCHANGED <<requestVars, due, delivered, left, over, broken>>

End(c) ==
    /\ stage[c] = "ended" /\ c \in left /\ Own(c) = {}
    /\ over' = over \cup {c}
    /\ UNCHANGED <<requestVars, subscribed, due, delivered, left, broken>>

Next ==
    \/ broken'
    \/ \E c \in Conn :
          \/ Begin(c) \/ Subscribe(c) \/ Unsubscribe(c) \/ Refuse(c) \/ Publish(c) \/ Answer(c)
          \/ Deliver(c) \/ Drop(c) \/ Finish(c) \/ Fail(c)
          \/ PeerLeaves(c) \/ Quit(c) \/ End(c)

Spec == Init /\ [][Next]_serviceVars
=============================================================================
