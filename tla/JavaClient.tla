----------------------------- MODULE JavaClient -----------------------------
(***************************************************************************)
(* The Java client (core/client/BPSPClient.java, Subscriber.java,          *)
(* Publisher.java): an application thread that connects, subscribes,       *)
(* publishes and closes, and main loop threads that take replies to the    *)
(* handlers waiting for them and messages to their subscribers.  Nothing   *)
(* is synchronised; a stopped loop is not waited for.                      *)
(*                                                                         *)
(* The broker is reduced to what a client sees of it: the thread of its    *)
(* own connection, which serves one request after the other, and those of  *)
(* other clients, which deliver what they have found by now.               *)
(***************************************************************************)
EXTENDS Topics, Integers

CONSTANTS
    Subscriber,    \* Subscriber objects; each has a tag of its own
    Publisher,     \* Publisher objects
    TopicOf,       \* the topic of each of them
    MaxConnects,   \* bound on connections
    MaxLoops,      \* bound on main loops
    MaxRequests,   \* bound on requests
    MaxOthers,     \* bound on messages that other clients publish
    NONE           \* null

Handler == Subscriber \cup Publisher
Conn == 1..MaxConnects
Loop == 1..MaxLoops

ASSUME JavaAssumption ==
    /\ Subscriber \cap Publisher = {}
    /\ TopicOf \in [Handler -> Seq(STRING)]
    /\ {MaxConnects, MaxLoops, MaxRequests, MaxOthers} \subseteq Nat
    /\ NONE \notin Handler /\ NONE \notin Conn /\ NONE \notin Loop
    /\ NONE \notin [op : {"PUB", "SUB", "UNSUB"}, h : Handler]

VARIABLES
    app,           \* where the application's thread is
    asked,         \* the call it is in: operation and handler
    isConnected,   \* fields of BPSPClient
    _running,
    threadLoop,
    connection,
    pendingReply,  \* what can be reached from the list's first element
    size,          \* the list's element count
    broken,        \* whether what is added can no longer be reached
    subs,
    running,       \* the field of each handler
    loop,          \* each loop: where it is, the connection it reads, the frame it has
    open,          \* connections that neither end has closed (external)
    requests,      \* frames to the broker, by connection (external)
    frames,        \* frames from the broker, by connection (external)
    brokerSubs,    \* the broker's table of each connection's subscribers (external)
    answer,        \* the reply that is still to be sent, by connection (external)
    found,         \* deliveries that are still to be made, by connection (external)
    sent,          \* number of requests
    others,        \* number of messages published by other clients (external)
    disturbed,     \* whether calls have crossed in a way the client does not handle (history)
    last           \* the frame handled last: for whom it was, who got it (history)

appVars == <<app, asked, sent>>
fields == <<isConnected, _running, threadLoop, connection>>
list == <<pendingReply, size, broken>>
inside == <<brokerSubs, answer, found, others>>
broker == <<open, requests, frames, inside>>
vars == <<appVars, fields, list, subs, running, loop, broker, disturbed, last>>

Frame(op, of, topic) == [op |-> op, of |-> of, topic |-> topic, late |-> FALSE]
NoLoop == [at |-> "none", conn |-> NONE, frame |-> NONE]
Alive(l) == loop[l].at \notin {"none", "dead"}

TypeOK ==
    /\ app \in {"idle", "handshake", "enqueue", "table"}
    /\ asked = NONE \/ (asked.op \in {"PUB", "SUB", "UNSUB"} /\ asked.h \in Handler)
    /\ isConnected \in BOOLEAN /\ _running \in BOOLEAN
    /\ threadLoop \in Loop \cup {NONE} /\ connection \in Conn \cup {NONE}
    /\ pendingReply \in Seq(Handler) /\ size \in Int /\ broken \in BOOLEAN
    /\ ~disturbed => size = Len(pendingReply) /\ ~broken
    /\ subs \subseteq Subscriber
    /\ running \in [Handler -> BOOLEAN]
    /\ \A l \in Loop : /\ loop[l].at \in {"none", "check", "recv", "read", "process", "poll", "dead"}
                       /\ loop[l].conn \in Conn \cup {NONE}
    /\ open \subseteq Conn
    /\ \A c \in Conn : brokerSubs[c] \subseteq Subscriber

Init ==
    /\ app = "idle" /\ asked = NONE /\ sent = 0
    /\ isConnected = FALSE /\ _running = FALSE /\ threadLoop = NONE /\ connection = NONE
    /\ pendingReply = <<>> /\ size = 0 /\ broken = FALSE
    /\ subs = {} /\ running = [h \in Handler |-> FALSE]
    /\ loop = [l \in Loop |-> NoLoop]
    /\ open = {} /\ requests = [c \in Conn |-> <<>>] /\ frames = [c \in Conn |-> <<>>]
    /\ brokerSubs = [c \in Conn |-> {}] /\ answer = [c \in Conn |-> <<>>] /\ found = [c \in Conn |-> {}]
    /\ others = 0 /\ disturbed = FALSE /\ last = NONE

-----------------------------------------------------------------------------
(***************************************************************************)
(* The application's thread.                                               *)
(***************************************************************************)
\* A request is written; on a connection that has closed it may seem to be.
SendFrame(frame) ==
    requests' = IF connection \in open THEN [requests EXCEPT ![connection] = Append(@, frame)] ELSE requests

NextConn == IF connection = NONE THEN 1 ELSE connection + 1

\* Faulty variant: CONNECT is not sent.
Connect_Silent ==
    /\ app = "idle" /\ ~isConnected /\ NextConn \in Conn
    /\ connection' = NextConn /\ open' = open \cup {NextConn}
    /\ isConnected' = TRUE /\ app' = "handshake"
    /\ disturbed' = (disturbed \/ size # 0 \/ subs # {} \/ \E l \in Loop : Alive(l))
    /\ UNCHANGED <<asked, sent, _running, threadLoop, list, subs, running, loop, requests, frames,
                   inside, last>>

\* connect: what the old connection has left in the fields stays there.  (If the
\* socket cannot be connected nothing changes.)
Connect ==
    /\ app = "idle" /\ ~isConnected /\ NextConn \in Conn
    /\ connection' = NextConn /\ open' = open \cup {NextConn}
    /\ requests' = [requests EXCEPT ![NextConn] = << Frame("CONNECT", NONE, NONE) >>]
    /\ isConnected' = TRUE /\ app' = "handshake"
    /\ disturbed' = (disturbed \/ size # 0 \/ subs # {} \/ \E l \in Loop : Alive(l))
    /\ UNCHANGED <<asked, sent, _running, threadLoop, list, subs, running, loop, frames,
                   inside, last>>

\* Any frame but an ERR is good enough.
Handshake ==
    /\ app = "handshake" /\ frames[connection] # <<>>
    /\ Head(frames[connection]).op # "ERR"
    /\ frames' = [frames EXCEPT ![connection] = Tail(@)]
    /\ app' = "idle"
    /\ UNCHANGED <<asked, sent, fields, list, subs, running, loop, open, requests, inside,
                   disturbed, last>>

\* Once a connection is closed the broker destroys its client, and nothing more
\* comes on it.
Destroy(c) ==
    /\ open' = open \ {c} /\ requests' = [requests EXCEPT ![c] = <<>>]
    /\ brokerSubs' = [brokerSubs EXCEPT ![c] = {}]
    /\ answer' = [answer EXCEPT ![c] = <<>>] /\ found' = [found EXCEPT ![c] = {}]
    /\ others' = others

\* close, with stopMainLoop.
CloseFields ==
    /\ Destroy(connection) /\ frames' = [frames EXCEPT ![connection] = <<>>]
    /\ isConnected' = FALSE /\ _running' = FALSE /\ threadLoop' = NONE

HandshakeFail ==
    /\ app = "handshake"
    /\ connection \notin open \/ (frames[connection] # <<>> /\ Head(frames[connection]).op = "ERR")
    /\ CloseFields
    /\ app' = "idle"
    /\ UNCHANGED <<asked, sent, connection, list, subs, running, loop, disturbed, last>>

Close ==
    /\ app = "idle" /\ isConnected
    /\ CloseFields
    /\ UNCHANGED <<appVars, connection, list, subs, running, loop, disturbed, last>>

StartMainLoop ==
    /\ app = "idle" /\ isConnected /\ threadLoop = NONE
    /\ \E l \in Loop :
          /\ loop[l].at = "none" /\ \A k \in 1 .. l - 1 : loop[k].at # "none"
          /\ threadLoop' = l /\ loop' = [loop EXCEPT ![l].at = "check"]
    /\ _running' = TRUE
    /\ UNCHANGED <<appVars, isConnected, connection, list, subs, running, broker, disturbed, last>>

\* pub, sub and unsub up to sendFrame; a call that throws before changes nothing.
Request(op, h) ==
    /\ app = "idle" /\ isConnected /\ sent < MaxRequests
    /\ op = "SUB" => h \notin subs
    /\ op = "UNSUB" => h \in subs
    /\ sent' = sent + 1
    /\ SendFrame(Frame(op, h, TopicOf[h]))
    /\ asked' = [op |-> op, h |-> h] /\ app' = "enqueue"
    /\ UNCHANGED <<fields, list, subs, running, loop, open, frames, inside, disturbed, last>>

Pub == \E p \in Publisher : Request("PUB", p)
Sub == \E s \in Subscriber : Request("SUB", s)
Unsub == \E s \in Subscriber : Request("UNSUB", s)

AfterEnqueue ==
    IF asked.op = "PUB" THEN app' = "idle" /\ asked' = NONE ELSE app' = "table" /\ asked' = asked

\* Faulty variants: the handler is put in front; every handler goes into subs.
Enqueue_InFront ==
    /\ app = "enqueue"
    /\ pendingReply' = <<asked.h>> \o pendingReply
    /\ size' = size + 1
    /\ AfterEnqueue
    /\ UNCHANGED <<sent, fields, broken, subs, running, loop, broker, disturbed, last>>

Enqueue_AllToTable ==
    /\ app = "enqueue"
    /\ pendingReply' = Append(pendingReply, asked.h)
    /\ size' = size + 1
    /\ app' = "table" /\ asked' = asked
    /\ UNCHANGED <<sent, fields, broken, subs, running, loop, broker, disturbed, last>>

\* enqueuePendingReply, after the frame has been sent.
Enqueue ==
    /\ app = "enqueue"
    /\ pendingReply' = IF broken THEN pendingReply ELSE Append(pendingReply, asked.h)
    /\ size' = size + 1
    /\ AfterEnqueue
    /\ UNCHANGED <<sent, fields, broken, subs, running, loop, broker, disturbed, last>>

\* Faulty variant: the subscriber is not entered.
Table_NotEntered ==
    /\ app = "table"
    /\ subs' = subs \ {asked.h}
    /\ app' = "idle" /\ asked' = NONE
    /\ UNCHANGED <<sent, fields, list, running, loop, broker, disturbed, last>>

\* subs.put and subs.remove.
Table ==
    /\ app = "table"
    /\ subs' = IF asked.op = "UNSUB" THEN subs \ {asked.h} ELSE subs \cup {asked.h}
    /\ app' = "idle" /\ asked' = NONE
    /\ UNCHANGED <<sent, fields, list, running, loop, broker, disturbed, last>>

-----------------------------------------------------------------------------
(***************************************************************************)
(* A main loop.                                                            *)
(***************************************************************************)
Goto(l, at) ==
    loop' = [loop EXCEPT ![l] = [at |-> at, conn |-> NONE, frame |-> IF at = "poll" THEN @.frame ELSE NONE]]
loopOnly == <<appVars, fields, list, subs, running, broker, disturbed, last>>

LoopCheck(l) ==
    /\ loop[l].at = "check"
    /\ Goto(l, IF _running THEN "recv" ELSE "dead")
    /\ UNCHANGED loopOnly

\* checkConnected throws, which ends the loop; otherwise the loop reads the
\* connection of now.
LoopRecv(l) ==
    /\ loop[l].at = "recv"
    /\ IF isConnected THEN loop' = [loop EXCEPT ![l].at = "read", ![l].conn = connection]
                      ELSE Goto(l, "dead")
    /\ UNCHANGED loopOnly

LoopRead(l) ==
    /\ loop[l].at = "read" /\ frames[loop[l].conn] # <<>>
    /\ loop' = [loop EXCEPT ![l] = [at |-> "process", conn |-> NONE, frame |-> Head(frames[@.conn])]]
    /\ frames' = [frames EXCEPT ![loop[l].conn] = Tail(@)]
    /\ UNCHANGED <<appVars, fields, list, subs, running, open, requests, inside, disturbed, last>>

\* Faulty variant: closing the socket does not wake the reader.
LoopReadFail_Asleep(l) ==
    /\ loop[l].at = "read" /\ loop[l].conn \notin open /\ isConnected
    /\ Goto(l, "dead")
    /\ UNCHANGED loopOnly

LoopReadFail(l) ==
    /\ loop[l].at = "read" /\ loop[l].conn \notin open
    /\ Goto(l, "dead")
    /\ UNCHANGED loopOnly

\* deliveryReply up to poll: a reply that finds no handler is dropped.
LoopReply(l) ==
    /\ loop[l].at = "process" /\ loop[l].frame.op \in {"OK", "ERR"}
    /\ IF size > 0 THEN Goto(l, "poll") /\ UNCHANGED <<disturbed, last>>
       ELSE /\ Goto(l, "check") /\ disturbed' = TRUE
            /\ last' = [op |-> loop[l].frame.op, of |-> loop[l].frame.of, to |-> NONE]
    /\ UNCHANGED <<appVars, fields, list, subs, running, broker>>

\* Faulty variant: OK always means subscribed.
Replied_NoToggle(h, op) == op = "OK"

\* replyOk and replyError: a subscriber takes an OK for the reply to a SUB or to
\* an UNSUB by what it believes to be.
Replied(h, op) == op = "OK" /\ (h \in Subscriber => ~running[h])

\* The handler's reply method, or a NullPointerException that ends the loop.
Deliver(l, h) ==
    IF h = NONE
    THEN Goto(l, "dead") /\ UNCHANGED <<running, last>>
    ELSE /\ Goto(l, "check")
         /\ running' = [running EXCEPT ![h] = Replied(h, loop[l].frame.op)]
         /\ last' = [op |-> loop[l].frame.op, of |-> loop[l].frame.of, to |-> h]

First == IF pendingReply = <<>> THEN NONE ELSE Head(pendingReply)
Rest == IF pendingReply = <<>> THEN <<>> ELSE Tail(pendingReply)

LoopPoll(l) ==
    /\ loop[l].at = "poll"
    /\ pendingReply' = Rest
    /\ size' = IF pendingReply = <<>> THEN size ELSE size - 1
    /\ Deliver(l, First)
    /\ UNCHANGED <<appVars, fields, broken, subs, broker, disturbed>>

\* add and poll at the same time, on a list that nothing protects: either update
\* of the count may be lost, the new element too if the list had at most one,
\* and then even every later one.
EnqueueDuringPoll(l) ==
    /\ app = "enqueue" /\ loop[l].at = "poll"
    /\ size' \in size - 1 .. size + 1
    /\ \/ pendingReply' = Append(Rest, asked.h) /\ broken' = broken
       \/ Len(pendingReply) <= 1 /\ pendingReply' = <<>> /\ broken' \in {broken, TRUE}
    /\ AfterEnqueue
    /\ Deliver(l, First)
    /\ disturbed' = TRUE
    /\ UNCHANGED <<sent, fields, subs, broker>>

\* Faulty variant: a message for nobody is handed to null.
LoopMsg_NoNullCheck(l) ==
    /\ loop[l].at = "process" /\ loop[l].frame.op = "MSG"
    /\ LET s == loop[l].frame.of
       IN /\ last' = [op |-> "MSG", of |-> s, to |-> IF s \in subs THEN s ELSE NONE]
          /\ Goto(l, IF s \in subs THEN "check" ELSE "dead")
    /\ UNCHANGED <<appVars, fields, list, subs, running, broker, disturbed>>

\* deliveryMsg: the subscriber is looked up by x-topic, which is the topic it has
\* subscribed to, and by the tag.
LoopMsg(l) ==
    /\ loop[l].at = "process" /\ loop[l].frame.op = "MSG"
    /\ LET s == loop[l].frame.of
       IN last' = [op |-> "MSG", of |-> s, to |-> IF s \in subs THEN s ELSE NONE]
    /\ Goto(l, "check")
    /\ UNCHANGED <<appVars, fields, list, subs, running, broker, disturbed>>

\* processFrame of any other frame: a loop that reads the answer to CONNECT.
LoopOther(l) ==
    /\ loop[l].at = "process" /\ loop[l].frame.op = "INFO"
    /\ Goto(l, "check")
    /\ UNCHANGED loopOnly

-----------------------------------------------------------------------------
(***************************************************************************)
(* The broker.                                                             *)
(***************************************************************************)
\* The table has every subscriber whose SUB came, the tree only those with a
\* topic it accepts.
Hit(c, topic) ==
    {s \in brokerSubs[c] : /\ Valid(TopicOf[s]) /\ Valid(topic)
                           /\ Matches(Tokens(TopicOf[s]), Tokens(topic))}

\* A refused SUB is answered with OK too; an UNSUB of what is not in the table
\* is refused.
Answer(c, r) ==
    IF r.op = "CONNECT" THEN Frame("INFO", NONE, NONE)
    ELSE Frame(IF r.op = "UNSUB" /\ r.of \notin brokerSubs[c] THEN "ERR" ELSE "OK", r.of, r.topic)

\* A request takes effect.  A PUB finds its subscribers, itself included (the
\* client sets PUB_ECHO).
BrokerServe(c) ==
    /\ c \in open /\ requests[c] # <<>> /\ answer[c] = <<>>
    /\ LET r == Head(requests[c])
       IN /\ brokerSubs' = [brokerSubs EXCEPT ![c] =
                IF r.op = "SUB" THEN @ \cup {r.of} ELSE IF r.op = "UNSUB" THEN @ \ {r.of} ELSE @]
          /\ found' = IF r.op = "PUB" THEN [found EXCEPT ![c] = @ \cup ({0} \X Hit(c, r.topic))] ELSE found
          /\ answer' = [answer EXCEPT ![c] = << Answer(c, r) >>]
    /\ requests' = [requests EXCEPT ![c] = Tail(@)]
    /\ UNCHANGED <<appVars, fields, list, subs, running, loop, open, frames, others, disturbed, last>>

\* The reply is sent, that to a PUB after its messages.
BrokerReply(c) ==
    /\ c \in open /\ answer[c] # <<>> /\ \A d \in found[c] : d[1] # 0
    /\ frames' = [frames EXCEPT ![c] = Append(@, Head(answer[c]))]
    /\ answer' = [answer EXCEPT ![c] = <<>>]
    /\ UNCHANGED <<appVars, fields, list, subs, running, loop, open, requests, brokerSubs, found, others,
                   disturbed, last>>

\* Another client publishes: its thread takes a copy of the subscribers found.
BrokerPublish(c) ==
    /\ c \in open /\ others < MaxOthers
    /\ \E t \in {TopicOf[p] : p \in Publisher} :
          /\ Hit(c, t) # {}
          /\ found' = [found EXCEPT ![c] = @ \cup ({others + 1} \X Hit(c, t))]
    /\ others' = others + 1
    /\ UNCHANGED <<appVars, fields, list, subs, running, loop, open, requests, frames, brokerSubs, answer,
                   disturbed, last>>

\* A message of a copy is sent.  Only the client is looked up again: by now its
\* subscription may have ended, which the frame records (history).
BrokerDeliver(c) ==
    /\ c \in open
    /\ \E d \in found[c] :
          /\ frames' = [frames EXCEPT ![c] = Append(@, [Frame("MSG", d[2], TopicOf[d[2]])
                                                        EXCEPT !.late = d[2] \notin brokerSubs[c]])]
          /\ found' = [found EXCEPT ![c] = @ \ {d}]
    /\ UNCHANGED <<appVars, fields, list, subs, running, loop, open, requests, brokerSubs, answer, others,
                   disturbed, last>>

BrokerClose(c) ==
    /\ c \in open
    /\ Destroy(c)
    /\ UNCHANGED <<appVars, fields, list, subs, running, loop, frames, disturbed, last>>

-----------------------------------------------------------------------------
App == Connect \/ Handshake \/ HandshakeFail \/ Close \/ StartMainLoop \/ Pub \/ Sub \/ Unsub \/ Enqueue \/ Table

MainLoop(l) ==
    \/ LoopCheck(l) \/ LoopRecv(l) \/ LoopRead(l) \/ LoopReadFail(l)
    \/ LoopReply(l) \/ LoopPoll(l) \/ EnqueueDuringPoll(l) \/ LoopMsg(l) \/ LoopOther(l)

BrokerThreads(c) == BrokerServe(c) \/ BrokerReply(c) \/ BrokerDeliver(c)

Next ==
    \/ App
    \/ \E l \in Loop : MainLoop(l)
    \/ \E c \in Conn : BrokerThreads(c) \/ BrokerPublish(c) \/ BrokerClose(c)

\* Calls run to their end, loops run, and the broker answers; nothing makes the
\* application call anything.
Fairness ==
    /\ WF_vars(Handshake \/ HandshakeFail \/ Enqueue \/ Table)
    /\ \A l \in Loop : WF_vars(MainLoop(l))
    /\ \A c \in Conn : WF_vars(BrokerThreads(c))

Spec == Init /\ [][Next]_vars /\ Fairness

-----------------------------------------------------------------------------
\* As long as calls have not crossed, a reply reaches the handler that asked,
\* although nothing in it is compared with the handler: also when requests are
\* sent without waiting, and on a later connection.
RepliesMatched == ~disturbed /\ last # NONE /\ last.op # "MSG" => last.to = last.of

Quiet == app = "idle" /\ size = 0 /\ \A l \in Loop : loop[l].at # "poll"

\* As long as calls have not crossed, a subscriber is running exactly if the
\* broker has it in the connection's table, whenever nothing is outstanding,
\* although it only counts OKs.  (The tree has it too if it accepts the topic.)
RunningAgrees ==
    ~disturbed /\ Quiet /\ connection \in open => \A s \in Subscriber : running[s] <=> s \in brokerSubs[connection]

\* A call about the subscriber has not returned, or its reply has not come.
Outstanding(s) ==
    \/ asked # NONE /\ asked.h = s
    \/ \E i \in 1..Len(pendingReply) : pendingReply[i] = s

\* As long as calls have not crossed, a message that was sent while its
\* subscription was in force is dropped only while one of the subscriber's calls
\* is outstanding: before the OK of a SUB, between the SUB's taking effect and
\* subs.put, or after the subs.remove of an UNSUB.  Any other message that is
\* dropped was sent late, from a copy taken before its subscription had ended.
MissedOnlyDuringCalls ==
    ~disturbed =>
        \A l \in Loop :
            loop[l].at = "process" /\ loop[l].frame.op = "MSG" /\ ~loop[l].frame.late =>
                loop[l].frame.of \in subs \/ Outstanding(loop[l].frame.of)

\* connect returns, unless a loop of an earlier connection is still there to take
\* the broker's answer.
ConnectReturns == app = "handshake" /\ ~disturbed ~> app = "idle"

\* What is outstanding is answered while a loop runs and the connection lasts.
Answered == size > 0 /\ threadLoop # NONE ~> size = 0 \/ disturbed \/ connection \notin open

\* Once the client is closed its loops end, or go on with the next connection.
LoopsEnd == ~isConnected ~> isConnected \/ \A l \in Loop : ~Alive(l)
=============================================================================
