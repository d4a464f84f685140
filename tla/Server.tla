------------------------------- MODULE Server -------------------------------
(***************************************************************************)
(* The broker process: the accept loop (server/server.c, lib/broker.c),    *)
(* one thread per client connection (server/handle.c), and the structures  *)
(* they share: the table of clients under cli_rw_lock, each client's       *)
(* subscriptions and socket under its mutex, and the topic tree under its  *)
(* own lock, here the plain set of subscriptions it implements (module     *)
(* Subscriptions).                                                         *)
(*                                                                         *)
(* A connection stands for a client _id, which is never used twice; the    *)
(* memory of its bpsp__client structure is, once it has been freed.        *)
(***************************************************************************)
EXTENDS Topics

CONSTANTS
    Conn,           \* connections, and the threads that serve them
    Ptr,            \* addresses of client structures
    Topic,          \* topics of SUB, UNSUB and PUB frames, as sequences of levels
    Tag,            \* values of x-sub-tag, as the sequences '/' splits them into
    DefaultTag,     \* "_0"
    RequestsOf,     \* the requests a peer may send, for each connection
    MaxRequests,    \* bound on the requests of each connection
    SocketBuffer,   \* frame parts a socket holds before a write blocks
    AcceptMayFail,  \* whether net__accept and pthread_create may fail
    NONE            \* a header that is missing, a pointer that is null

ASSUME ServerAssumption ==
    /\ Topic \subseteq Seq(STRING)
    /\ Tag \subseteq Seq(STRING)
    /\ DefaultTag \in Tag
    /\ MaxRequests \in [Conn -> Nat]
    /\ SocketBuffer \in Nat \ {0}
    /\ AcceptMayFail \in BOOLEAN
    /\ NONE \notin Conn \cup Ptr \cup Topic \cup Tag

\* The topics topic__extract_token accepts, and those that find each other.
ValidTopic == {t \in Topic : Valid(t)}
Hits == {h \in ValidTopic \X ValidTopic : Matches(Tokens(h[1]), Tokens(h[2]))}

\* "BAD" is a frame that frame__recv rejects, "NOOP" one with any other opcode.
Opcode == {"CONNECT", "PUB", "SUB", "UNSUB", "NOOP", "BAD"}

\* What the variable headers of a request leave room for: all that is added to
\* them; the status code of a reply, but perhaps not the labels of a delivery; not
\* even a status code, although labels may replace headers that are there.
Room == {"all", "reply", "none"}
Request == [op : Opcode, topic : Topic \cup {NONE}, tag : Tag \cup {NONE},
            ack : BOOLEAN, echo : BOOLEAN, room : Room]

ASSUME RequestAssumption == RequestsOf \in [Conn -> SUBSET Request]

\* A subscription as the tree and a find's result array hold it.
Subscription == [conn : Conn, topic : Topic, tag : Tag]

\* A frame the server sends: a reply to request n of connection "from", or the
\* message published by that request for subscription sub.
Frame == [op : {"INFO", "NOOP", "OK", "ERR", "MSG"}, from : Conn, n : Nat,
          sub : Subscription \cup {NONE}]

\* frame__send hands the socket a fixed header and then the rest.
Part == {"header", "rest"} \X Frame

VARIABLES
    peer,        \* the other end of each connection
    sent,        \* how many requests it has sent
    in,          \* requests on the wire to the server
    wire,        \* every frame part the server has written to the socket
    read,        \* how many of them the peer has read
    accepting,   \* the connection broker__accept is entering in the table
    table,       \* broker->clients
    ptr,         \* the address of each connection's client structure
    isClose,     \* client->is_close
    freed,       \* connections whose client structure has been freed
    subs,        \* client->subs: pairs << topic, tag >>
    registered,  \* the subscriptions in the topic tree
    mutex,       \* holder of client->mutex
    pc,          \* control state of each thread
    req,         \* client->in_frame
    num,         \* the number of that request
    status,      \* the status handle__reply is given
    pending,     \* subscriptions handle__PUB has still to deliver to, or the one
                 \* client__unsub0 has still to take out of the tree
    to,          \* connection whose client a send is for
    frame,       \* the frame it sends
    part,        \* how many parts of it have been written
    snapshot,    \* the result of the last find (history)
    raced,       \* whether a table access overlapped one of broker__accept's
    dirty,       \* threads whose walk in topic__print_tree met a writer
    server       \* the process

peerVars == <<peer, sent, in, read>>
sendVars == <<to, frame, part>>
handlerVars == <<req, num, status, pending, snapshot>>
clientVars == <<ptr, isClose, freed, subs>>
brokerVars == <<accepting, table, raced, server>>
vars == <<peer, sent, in, wire, read, accepting, table, ptr, isClose, freed, subs, registered,
          mutex, pc, req, num, status, pending, to, frame, part, snapshot, raced, dirty, server>>

\* Between requests and between sends the thread's locals are dead; they are kept
\* at fixed values.
NoFrame(c) == [op |-> "NOOP", from |-> c, n |-> 0, sub |-> NONE]
NoRequest == [op |-> "NOOP", topic |-> NONE, tag |-> NONE, ack |-> FALSE, echo |-> FALSE,
              room |-> "all"]

\* Where a thread can be: before its connection is accepted; in client__read;
\* in a handler; between client->subs and the tree in client__sub0 and
\* client__unsub0; in the delivery loop of handle__PUB; in handle__reply; in
\* client__send before and after it takes the mutex; in broker__destroy_client,
\* client__unsub_all, the rest of client__destroy and topic__print_tree.
PC == {"away", "loop", "handle", "add", "del", "deliver", "reply",
       "lock", "write", "destroy", "unsub_all", "close", "free", "print", "gone"}

TypeOK ==
    /\ peer \in [Conn -> {"away", "backlog", "open", "closed"}]
    /\ sent \in [Conn -> Nat]
    /\ in \in [Conn -> Seq(Request)]
    /\ wire \in [Conn -> Seq(Part)]
    /\ read \in [Conn -> Nat]
    /\ accepting \in Conn \cup {NONE}
    /\ table \in SUBSET Conn
    /\ ptr \in [Conn -> Ptr \cup {NONE}]
    /\ isClose \in SUBSET Conn
    /\ freed \in SUBSET Conn
    /\ subs \in [Conn -> SUBSET (Topic \X Tag)]
    /\ registered \in SUBSET Subscription
    /\ mutex \in [Conn -> Conn \cup {NONE}]
    /\ pc \in [Conn -> PC]
    /\ req \in [Conn -> Request]
    /\ num \in [Conn -> Nat]
    /\ status \in [Conn -> {"OK", "ERR"}]
    /\ pending \in [Conn -> SUBSET Subscription]
    /\ to \in [Conn -> Conn]
    /\ frame \in [Conn -> Frame]
    /\ part \in [Conn -> 0..1]
    /\ snapshot \in [Conn -> SUBSET Subscription]
    /\ raced \in {"no", "now", "past"}
    /\ dirty \in SUBSET Conn
    /\ server \in {"up", "crashed"}

Init ==
    /\ peer = [c \in Conn |-> "away"]
    /\ sent = [c \in Conn |-> 0]
    /\ in = [c \in Conn |-> <<>>]
    /\ wire = [c \in Conn |-> <<>>]
    /\ read = [c \in Conn |-> 0]
    /\ accepting = NONE
    /\ table = {}
    /\ ptr = [c \in Conn |-> NONE]
    /\ isClose = {}
    /\ freed = {}
    /\ subs = [c \in Conn |-> {}]
    /\ registered = {}
    /\ mutex = [c \in Conn |-> NONE]
    /\ pc = [c \in Conn |-> "away"]
    /\ req = [c \in Conn |-> NoRequest]
    /\ num = [c \in Conn |-> 0]
    /\ status = [c \in Conn |-> "OK"]
    /\ pending = [c \in Conn |-> {}]
    /\ to = [c \in Conn |-> c]
    /\ frame = [c \in Conn |-> NoFrame(c)]
    /\ part = [c \in Conn |-> 0]
    /\ snapshot = [c \in Conn |-> {}]
    /\ raced = "no"
    /\ dirty = {}
    /\ server = "up"

-----------------------------------------------------------------------------
(***************************************************************************)
(* The peers: client programs and the network between.                     *)
(***************************************************************************)
Connect(c) ==
    /\ peer[c] = "away"
    /\ peer' = [peer EXCEPT ![c] = "backlog"]
    /\ UNCHANGED <<sent, in, read>>

\* A peer sends requests without waiting for the replies to earlier ones.
Submit(c, r) ==
    /\ peer[c] = "open" /\ sent[c] < MaxRequests[c]
    /\ in' = [in EXCEPT ![c] = Append(@, r)]
    /\ sent' = [sent EXCEPT ![c] = @ + 1]
    /\ UNCHANGED <<peer, read>>

PeerRead(c) ==
    /\ peer[c] = "open" /\ read[c] < Len(wire[c])
    /\ read' = [read EXCEPT ![c] = @ + 1]
    /\ UNCHANGED <<peer, sent, in>>

Disconnect(c) ==
    /\ peer[c] \in {"backlog", "open"}
    /\ peer' = [peer EXCEPT ![c] = "closed"]
    /\ UNCHANGED <<sent, in, read>>

ServerIdle ==
    UNCHANGED <<wire, brokerVars, clientVars, registered, mutex, pc, handlerVars, sendVars, dirty>>

Peer(c) ==
    /\ \/ Connect(c)
       \/ \E r \in RequestsOf[c] : Submit(c, r)
       \/ PeerRead(c)
       \/ Disconnect(c)
    /\ ServerIdle

-----------------------------------------------------------------------------
(***************************************************************************)
(* The accept loop.  broker__accept looks the new _id up in the table and  *)
(* adds the client without taking cli_rw_lock.                             *)
(***************************************************************************)
InUse == {ptr[d] : d \in Conn \ freed}

AcceptBegin(c, p) ==
    /\ accepting = NONE
    /\ peer[c] \in {"backlog", "closed"} /\ ptr[c] = NONE
    /\ p \notin InUse
    /\ accepting' = c
    /\ ptr' = [ptr EXCEPT ![c] = p]
    /\ peer' = [peer EXCEPT ![c] = IF @ = "backlog" THEN "open" ELSE @]
    /\ UNCHANGED <<sent, in, wire, read, table, isClose, freed, subs, registered, mutex, pc,
                   handlerVars, sendVars, raced, dirty, server>>

\* HASH_ADD is done and the thread started.  An overlapping HASH_DEL may have
\* made the table lose the new entry.
AcceptEnd(c) ==
    /\ accepting = c
    /\ table' \in IF raced = "now" THEN {table, table \cup {c}} ELSE {table \cup {c}}
    /\ raced' = IF raced = "now" THEN "past" ELSE raced
    /\ accepting' = NONE
    /\ pc' = [pc EXCEPT ![c] = "loop"]
    /\ UNCHANGED <<peerVars, wire, clientVars, registered, mutex, handlerVars, sendVars, dirty, server>>

\* pthread_create fails, which server__loop does not notice: nobody serves the
\* connection and nobody closes it.
AcceptNoThread(c) ==
    /\ AcceptMayFail /\ accepting = c
    /\ table' \in IF raced = "now" THEN {table, table \cup {c}} ELSE {table \cup {c}}
    /\ raced' = IF raced = "now" THEN "past" ELSE raced
    /\ accepting' = NONE
    /\ UNCHANGED <<peerVars, wire, clientVars, registered, mutex, pc, handlerVars, sendVars, dirty, server>>

\* broker__accept returns NULL, server__loop starts a thread with it, and
\* server__handle_client dereferences it.
AcceptFail ==
    /\ AcceptMayFail /\ accepting = NONE
    /\ server' = "crashed"
    /\ UNCHANGED <<peerVars, wire, accepting, table, raced, clientVars, registered, mutex, pc,
                   handlerVars, sendVars, dirty>>

\* A lookup, or a removal, that overlaps the unlocked accesses to the table.
RacedRead == IF accepting # NONE /\ raced = "no" THEN "past" ELSE raced
RacedWrite == IF accepting # NONE THEN "now" ELSE raced

-----------------------------------------------------------------------------
(***************************************************************************)
(* The thread of connection c.                                             *)
(***************************************************************************)
Goto(c, label) == pc' = [pc EXCEPT ![c] = label]

\* The handler has returned BPSP_OK.
EndRequest(c) ==
    /\ Goto(c, "loop")
    /\ req' = [req EXCEPT ![c] = NoRequest]
    /\ status' = [status EXCEPT ![c] = "OK"]
    /\ snapshot' = [snapshot EXCEPT ![c] = {}]
    /\ UNCHANGED <<num, pending>>

\* client__read returns a frame.
Recv(c) ==
    /\ pc[c] = "loop" /\ in[c] # <<>> /\ Head(in[c]).op # "BAD"
    /\ req' = [req EXCEPT ![c] = Head(in[c])]
    /\ in' = [in EXCEPT ![c] = Tail(@)]
    /\ num' = [num EXCEPT ![c] = @ + 1]
    /\ Goto(c, "handle")
    /\ UNCHANGED <<peer, sent, wire, read, brokerVars, clientVars, registered, mutex, status, pending,
                   snapshot, sendVars, dirty>>

\* client__read fails, on a bad frame or on a connection the peer has closed;
\* requests the peer sent before it closed may be lost.
RecvFail(c) ==
    /\ pc[c] = "loop"
    /\ peer[c] = "closed" \/ (in[c] # <<>> /\ Head(in[c]).op = "BAD")
    /\ Goto(c, "destroy")
    /\ UNCHANGED <<peerVars, wire, brokerVars, clientVars, registered, mutex, handlerVars, sendVars, dirty>>

\* Start client__send of frame f to the client of connection d.
StartSend(c, d, f) ==
    /\ to' = [to EXCEPT ![c] = d]
    /\ frame' = [frame EXCEPT ![c] = f]
    /\ part' = [part EXCEPT ![c] = 0]
    /\ Goto(c, "lock")

Reply(c, op) == [op |-> op, from |-> c, n |-> num[c], sub |-> NONE]

\* handle__CONNECT answers with INFO; handle__ECHO sends the frame back.
HandleSimple(c) ==
    /\ pc[c] = "handle" /\ req[c].op \in {"CONNECT", "NOOP"}
    /\ StartSend(c, c, Reply(c, IF req[c].op = "CONNECT" THEN "INFO" ELSE "NOOP"))
    /\ UNCHANGED <<peerVars, wire, brokerVars, clientVars, registered, mutex, handlerVars, dirty>>

\* handle__PUB without x-topic: the status is asserted before the reply, so the
\* loop ends and the connection is torn down.
PubNoTopic(c) ==
    /\ pc[c] = "handle" /\ req[c].op = "PUB" /\ req[c].topic = NONE
    /\ Goto(c, "destroy")
    /\ UNCHANGED <<peerVars, wire, brokerVars, clientVars, registered, mutex, handlerVars, sendVars, dirty>>

\* handle__PUB takes a copy of the matching subscriptions.
PubFind(c) ==
    /\ pc[c] = "handle" /\ req[c].op = "PUB" /\ req[c].topic # NONE
    /\ LET found == {s \in registered : <<s.topic, req[c].topic>> \in Hits}
       IN /\ pending' = [pending EXCEPT ![c] = found]
          /\ snapshot' = [snapshot EXCEPT ![c] = found]
    /\ Goto(c, "deliver")
    /\ UNCHANGED <<peerVars, wire, brokerVars, clientVars, registered, mutex, req, num, status,
                   sendVars, dirty>>

Skips(c, s) == s.conn = c /\ ~req[c].echo

\* The publisher's own subscription.
DeliverSkip(c, s) ==
    /\ pc[c] = "deliver" /\ s \in pending[c] /\ Skips(c, s)
    /\ pending' = [pending EXCEPT ![c] = @ \ {s}]
    /\ UNCHANGED <<peerVars, wire, brokerVars, clientVars, registered, mutex, pc, req, num, status,
                   snapshot, sendVars, dirty>>

\* A label does not fit, before the client is looked up or (x-from) after it: the
\* loop goes on to the next subscription.  Whether one fits depends on the tag and
\* the topic of the subscription: of a request that has not room for all labels,
\* each delivery may end here or go on in DeliverHit or DeliverMiss.
DeliverNoRoom(c, s) ==
    /\ pc[c] = "deliver" /\ s \in pending[c] /\ ~Skips(c, s) /\ req[c].room # "all"
    /\ pending' = [pending EXCEPT ![c] = @ \ {s}]
    /\ raced' \in {raced, RacedRead}
    /\ UNCHANGED <<peerVars, wire, accepting, table, server, clientVars, registered, mutex, pc, req, num,
                   status, snapshot, sendVars, dirty>>

\* Faulty variant: the lookup compares the address alone.
Target_ByPointer(s) == {d \in table : ptr[d] = ptr[s.conn]}

\* The clients client__is_close tells to be closed.
Closed == isClose \ freed

\* The clients of the table a find with the subscription's client_id and client
\* pointer returns.
Target(s) == {d \in table : d = s.conn /\ ptr[d] = ptr[s.conn]}

\* broker__deliver_msg holds cli_rw_lock for reading while it looks the client
\* up and sends to it.
DeliverHit(c, s) ==
    /\ pc[c] = "deliver" /\ s \in pending[c] /\ ~Skips(c, s)
    /\ pending' = [pending EXCEPT ![c] = @ \ {s}]
    /\ \E d \in Target(s) \ Closed :
          StartSend(c, d, [op |-> "MSG", from |-> c, n |-> num[c], sub |-> s])
    /\ raced' = RacedRead
    /\ UNCHANGED <<peerVars, wire, accepting, table, server, clientVars, registered, mutex, req, num,
                   status, snapshot, dirty>>

\* The client is not found, or is closed, and the message is dropped.  A lookup
\* that overlaps HASH_ADD may miss a client that is there.
DeliverMiss(c, s) ==
    /\ pc[c] = "deliver" /\ s \in pending[c] /\ ~Skips(c, s)
    /\ Target(s) \subseteq Closed \/ accepting # NONE
    /\ pending' = [pending EXCEPT ![c] = @ \ {s}]
    /\ raced' = RacedRead
    /\ UNCHANGED <<peerVars, wire, accepting, table, server, clientVars, registered, mutex, pc, req, num,
                   status, snapshot, sendVars, dirty>>

DeliverEnd(c) ==
    /\ pc[c] = "deliver" /\ pending[c] = {}
    /\ Goto(c, "reply")
    /\ UNCHANGED <<peerVars, wire, brokerVars, clientVars, registered, mutex, handlerVars, sendVars, dirty>>

-----------------------------------------------------------------------------
TagOf(r) == IF r.tag = NONE THEN DefaultTag ELSE r.tag

\* A subscription as client->subs holds it, and the identifier it has there:
\* the tag, a '/' and the topic.
Key(r) == <<r.topic, TagOf(r)>>

Identifier(key) == key[2] \o key[1]

\* The entries of client->subs under the identifier the request asks for.
Entries(c) == {key \in subs[c] : Identifier(key) = Identifier(Key(req[c]))}

\* handle__SUB and handle__UNSUB without x-topic.
SubNoTopic(c) ==
    /\ pc[c] = "handle" /\ req[c].op \in {"SUB", "UNSUB"} /\ req[c].topic = NONE
    /\ status' = [status EXCEPT ![c] = "ERR"]
    /\ Goto(c, "reply")
    /\ UNCHANGED <<peerVars, wire, brokerVars, clientVars, registered, mutex, req, num, pending,
                   snapshot, sendVars, dirty>>

\* Faulty variant: a missing x-topic is not noticed.
SubEnter_Unchecked(c) ==
    /\ pc[c] = "handle" /\ req[c].op = "SUB"
    /\ mutex[c] = NONE
    /\ subs' = [subs EXCEPT ![c] = @ \cup {Key(req[c])}] /\ Goto(c, "add")
    /\ UNCHANGED <<peerVars, wire, brokerVars, ptr, isClose, freed, registered, mutex, handlerVars,
                   sendVars, dirty>>

\* client__sub0 enters the subscription in client->subs under the mutex, or
\* finds a duplicate.  The status of client__sub0 goes to a variable that
\* shadows the one handle__reply is given, which stays BPSP_OK.
SubEnter(c) ==
    /\ pc[c] = "handle" /\ req[c].op = "SUB" /\ req[c].topic # NONE
    /\ mutex[c] = NONE
    /\ IF Entries(c) # {}
       THEN subs' = subs /\ Goto(c, "reply")
       ELSE subs' = [subs EXCEPT ![c] = @ \cup {Key(req[c])}] /\ Goto(c, "add")
    /\ UNCHANGED <<peerVars, wire, brokerVars, ptr, isClose, freed, registered, mutex, handlerVars,
                   sendVars, dirty>>

\* A write to the tree meets the walks of topic__print_tree, which take no lock.
WriteTree(set) ==
    /\ registered' = set
    /\ dirty' = IF set = registered THEN dirty ELSE dirty \cup {d \in Conn : pc[d] = "print"}

TreeSub(c) == [conn |-> c, topic |-> req[c].topic, tag |-> TagOf(req[c])]

\* broker__add_sub; for an invalid topic the tree is left alone.
SubAdd(c) ==
    /\ pc[c] = "add"
    /\ WriteTree(IF req[c].topic \in ValidTopic THEN registered \cup {TreeSub(c)} ELSE registered)
    /\ Goto(c, "reply")
    /\ UNCHANGED <<peerVars, wire, brokerVars, clientVars, mutex, handlerVars, sendVars>>

\* client__unsub0 without a tag is refused; otherwise it takes the subscription
\* out of client->subs under the mutex, if it is there.
UnsubNoTag(c) ==
    /\ pc[c] = "handle" /\ req[c].op = "UNSUB" /\ req[c].topic # NONE /\ req[c].tag = NONE
    /\ status' = [status EXCEPT ![c] = "ERR"]
    /\ Goto(c, "reply")
    /\ UNCHANGED <<peerVars, wire, brokerVars, clientVars, registered, mutex, req, num, pending,
                   snapshot, sendVars, dirty>>

\* Faulty variant: an unknown subscription is not reported.
UnsubUnknown_Silent == "OK"

\* The status of an UNSUB that finds no subscription.
UnsubUnknown == "ERR"

UnsubRemove(c) ==
    /\ pc[c] = "handle" /\ req[c].op = "UNSUB" /\ req[c].topic # NONE /\ req[c].tag # NONE
    /\ mutex[c] = NONE
    /\ IF Entries(c) # {}
       THEN /\ subs' = [subs EXCEPT ![c] = @ \ Entries(c)]
            /\ pending' = [pending EXCEPT ![c] =
                              {[conn |-> c, topic |-> key[1], tag |-> key[2]] : key \in Entries(c)}]
            /\ status' = status
            /\ Goto(c, "del")
       ELSE /\ subs' = subs
            /\ pending' = pending
            /\ status' = [status EXCEPT ![c] = UnsubUnknown]
            /\ Goto(c, "reply")
    /\ UNCHANGED <<peerVars, wire, brokerVars, ptr, isClose, freed, registered, mutex, req, num,
                   snapshot, sendVars, dirty>>

\* broker__del_sub; the subscriber structure is freed.
UnsubDel(c) ==
    /\ pc[c] = "del"
    /\ WriteTree(registered \ pending[c])
    /\ pending' = [pending EXCEPT ![c] = {}]
    /\ Goto(c, "reply")
    /\ UNCHANGED <<peerVars, wire, brokerVars, clientVars, mutex, req, num, status, snapshot, sendVars>>

\* handle__reply sends nothing unless the request asks for it.  A reply has the
\* request's headers and more; if they do not fit the loop ends.
HandleReply(c) ==
    /\ pc[c] = "reply" /\ ~(req[c].ack /\ req[c].room = "none")
    /\ IF req[c].ack
       THEN StartSend(c, c, Reply(c, status[c])) /\ UNCHANGED handlerVars
       ELSE EndRequest(c) /\ UNCHANGED sendVars
    /\ UNCHANGED <<peerVars, wire, brokerVars, clientVars, registered, mutex, dirty>>

ReplyNoRoom(c) ==
    /\ pc[c] = "reply" /\ req[c].ack /\ req[c].room = "none"
    /\ Goto(c, "destroy")
    /\ UNCHANGED <<peerVars, wire, brokerVars, clientVars, registered, mutex, handlerVars, sendVars, dirty>>

-----------------------------------------------------------------------------
(***************************************************************************)
(* client__send, for the thread of connection c.                           *)
(***************************************************************************)
EndSend(c) ==
    /\ to' = [to EXCEPT ![c] = c]
    /\ frame' = [frame EXCEPT ![c] = NoFrame(c)]
    /\ part' = [part EXCEPT ![c] = 0]

\* Faulty variant: a message that cannot be sent ends the publisher's loop.
SendFailed_EndsPub(c) ==
    /\ Goto(c, "destroy")
    /\ EndSend(c)
    /\ UNCHANGED handlerVars

\* A reply that cannot be sent ends the loop; broker__deliver_msg ignores it.
SendFailed(c) ==
    /\ Goto(c, IF frame[c].op = "MSG" THEN "deliver" ELSE "destroy")
    /\ EndSend(c)
    /\ UNCHANGED handlerVars

\* Faulty variant: the socket is written without the mutex.
SendLock_NoMutex(c) ==
    /\ pc[c] = "lock" /\ to[c] \notin isClose
    /\ Goto(c, "write")
    /\ UNCHANGED <<peerVars, wire, brokerVars, clientVars, registered, mutex, handlerVars, sendVars, dirty>>

SendLock(c) ==
    /\ pc[c] = "lock" /\ to[c] \notin isClose /\ mutex[to[c]] = NONE
    /\ mutex' = [mutex EXCEPT ![to[c]] = c]
    /\ Goto(c, "write")
    /\ UNCHANGED <<peerVars, wire, brokerVars, clientVars, registered, handlerVars, sendVars, dirty>>

\* net__write blocks while the socket's buffer is full.
HasRoom(d) == Len(wire[d]) - read[d] < SocketBuffer

SendHeader(c) ==
    /\ pc[c] = "write" /\ part[c] = 0 /\ to[c] \notin isClose /\ HasRoom(to[c])
    /\ wire' = [wire EXCEPT ![to[c]] = Append(@, <<"header", frame[c]>>)]
    /\ part' = [part EXCEPT ![c] = 1]
    /\ UNCHANGED <<peerVars, brokerVars, clientVars, registered, mutex, pc, handlerVars, to, frame, dirty>>

\* Faulty variant: the mutex is not released.
SendRest_KeepsMutex(c) ==
    /\ pc[c] = "write" /\ part[c] = 1 /\ to[c] \notin isClose /\ HasRoom(to[c])
    /\ wire' = [wire EXCEPT ![to[c]] = Append(@, <<"rest", frame[c]>>)]
    /\ EndSend(c)
    /\ IF frame[c].op = "MSG"
       THEN Goto(c, "deliver") /\ UNCHANGED handlerVars
       ELSE EndRequest(c)
    /\ UNCHANGED <<peerVars, brokerVars, clientVars, registered, mutex, dirty>>

\* The last write, after which the mutex and, for a message, cli_rw_lock are
\* released.
SendRest(c) ==
    /\ pc[c] = "write" /\ part[c] = 1 /\ to[c] \notin isClose /\ HasRoom(to[c])
    /\ wire' = [wire EXCEPT ![to[c]] = Append(@, <<"rest", frame[c]>>)]
    /\ mutex' = [mutex EXCEPT ![to[c]] = NONE]
    /\ EndSend(c)
    /\ IF frame[c].op = "MSG"
       THEN Goto(c, "deliver") /\ UNCHANGED handlerVars
       ELSE EndRequest(c)
    /\ UNCHANGED <<peerVars, brokerVars, clientVars, registered, dirty>>

\* Faulty variants: the mutex is not released; a write that would block fails.
SendError_KeepsMutex(c) ==
    /\ pc[c] = "write" /\ peer[to[c]] = "closed" /\ to[c] \notin isClose
    /\ SendFailed(c)
    /\ UNCHANGED <<peerVars, wire, brokerVars, clientVars, registered, mutex, dirty>>

SendError_WouldBlock(c) ==
    /\ pc[c] = "write" /\ (peer[to[c]] = "closed" \/ ~HasRoom(to[c])) /\ to[c] \notin isClose
    /\ mutex' = [mutex EXCEPT ![to[c]] = NONE]
    /\ SendFailed(c)
    /\ UNCHANGED <<peerVars, wire, brokerVars, clientVars, registered, dirty>>

\* A write fails once the peer has closed.
SendError(c) ==
    /\ pc[c] = "write" /\ peer[to[c]] = "closed" /\ to[c] \notin isClose
    /\ mutex' = [mutex EXCEPT ![to[c]] = NONE]
    /\ SendFailed(c)
    /\ UNCHANGED <<peerVars, wire, brokerVars, clientVars, registered, dirty>>

\* The client is closed, and freed, while the send waits or writes: undefined
\* behaviour, at which the modelled execution ends.
SendStale(c) ==
    /\ pc[c] \in {"lock", "write"} /\ to[c] \in isClose
    /\ server' = "crashed"
    /\ UNCHANGED <<peerVars, wire, accepting, table, raced, clientVars, registered, mutex, pc,
                   handlerVars, sendVars, dirty>>

-----------------------------------------------------------------------------
(***************************************************************************)
(* The end of the thread of connection c.                                  *)
(***************************************************************************)
\* Faulty variant: broker__deliver_msg does not hold cli_rw_lock during the send.
CliReaders_None == {}

\* The threads that hold cli_rw_lock for reading.
CliReaders == {d \in Conn : pc[d] \in {"lock", "write"} /\ frame[d].op = "MSG"}

\* broker__destroy_client takes cli_rw_lock for writing and removes the client
\* from the table; an overlapping HASH_ADD may undo that.
DestroyRemove(c) ==
    /\ pc[c] = "destroy" /\ CliReaders = {}
    /\ table' \in IF accepting # NONE THEN {table, table \ {c}} ELSE {table \ {c}}
    /\ raced' = RacedWrite
    /\ Goto(c, "unsub_all")
    /\ UNCHANGED <<peerVars, wire, accepting, server, clientVars, registered, mutex, handlerVars,
                   sendVars, dirty>>

\* Faulty variant: the subscriptions stay in the tree.
DestroyUnsub_TreeKept(c) ==
    /\ pc[c] = "unsub_all"
    /\ subs[c] = {} \/ mutex[c] = NONE
    /\ subs' = [subs EXCEPT ![c] = {}]
    /\ Goto(c, "close")
    /\ UNCHANGED <<peerVars, wire, brokerVars, ptr, isClose, freed, registered, mutex, handlerVars,
                   sendVars, dirty>>

\* client__unsub_all holds the mutex and the tree's lock for the whole batch; it
\* takes neither when there is nothing to remove.
DestroyUnsub(c) ==
    /\ pc[c] = "unsub_all"
    /\ subs[c] = {} \/ mutex[c] = NONE
    /\ WriteTree({s \in registered : ~(s.conn = c /\ <<s.topic, s.tag>> \in subs[c])})
    /\ subs' = [subs EXCEPT ![c] = {}]
    /\ Goto(c, "close")
    /\ UNCHANGED <<peerVars, wire, brokerVars, ptr, isClose, freed, mutex, handlerVars, sendVars>>

\* The socket is closed and the client marked closed.
DestroyClose(c) ==
    /\ pc[c] = "close"
    /\ isClose' = isClose \cup {c}
    /\ peer' = [peer EXCEPT ![c] = "closed"]
    /\ Goto(c, "free")
    /\ UNCHANGED <<sent, in, wire, read, brokerVars, ptr, freed, subs, registered, mutex, handlerVars,
                   sendVars, dirty>>

DestroyFree(c) ==
    /\ pc[c] = "free"
    /\ freed' = freed \cup {c}
    /\ Goto(c, "print")
    /\ UNCHANGED <<peerVars, wire, brokerVars, ptr, isClose, subs, registered, mutex, handlerVars,
                   sendVars, dirty>>

\* topic__print_tree walks the tree without its lock.  If a writer changed it
\* meanwhile the walk may read a freed node.
PrintTree(c) ==
    /\ pc[c] = "print"
    /\ Goto(c, "gone")
    /\ server' \in IF c \in dirty THEN {"up", "crashed"} ELSE {"up"}
    /\ dirty' = dirty \ {c}
    /\ UNCHANGED <<peerVars, wire, accepting, table, raced, clientVars, registered, mutex,
                   handlerVars, sendVars>>

\* A table access that overlaps HASH_ADD may follow a pointer that HASH_ADD has
\* moved or freed.
TableCrash(c) ==
    /\ accepting # NONE
    /\ \/ pc[c] = "deliver" /\ \E s \in pending[c] : ~Skips(c, s)
       \/ pc[c] = "destroy" /\ CliReaders = {}
    /\ server' = "crashed"
    /\ raced' = "past"
    /\ UNCHANGED <<peerVars, wire, accepting, table, clientVars, registered, mutex, pc,
                   handlerVars, sendVars, dirty>>

-----------------------------------------------------------------------------
Handler(c) ==
    \/ HandleSimple(c) \/ PubNoTopic(c) \/ PubFind(c) \/ SubNoTopic(c)
    \/ SubEnter(c) \/ SubAdd(c) \/ UnsubNoTag(c) \/ UnsubRemove(c) \/ UnsubDel(c)
    \/ \E s \in pending[c] :
          DeliverSkip(c, s) \/ DeliverNoRoom(c, s) \/ DeliverHit(c, s) \/ DeliverMiss(c, s)
    \/ DeliverEnd(c) \/ HandleReply(c) \/ ReplyNoRoom(c)

Send(c) ==
    SendLock(c) \/ SendHeader(c) \/ SendRest(c) \/ SendError(c) \/ SendStale(c)

Destroy(c) ==
    \/ DestroyRemove(c) \/ DestroyUnsub(c) \/ DestroyClose(c) \/ DestroyFree(c)
    \/ PrintTree(c)

Thread(c) ==
    server = "up" /\ (Recv(c) \/ RecvFail(c) \/ Handler(c) \/ Send(c) \/ Destroy(c))

Accept(c) == server = "up" /\ ((\E p \in Ptr : AcceptBegin(c, p)) \/ AcceptEnd(c) \/ AcceptNoThread(c))

Next ==
    \/ \E c \in Conn : Thread(c) \/ Accept(c) \/ (server = "up" /\ (Peer(c) \/ TableCrash(c)))
    \/ server = "up" /\ AcceptFail

\* Threads are scheduled, connections waiting in the backlog are accepted, and
\* peers keep reading what they are sent.
Fairness ==
    \A c \in Conn :
        /\ WF_vars(Thread(c))
        /\ WF_vars(Accept(c))
        /\ WF_vars(server = "up" /\ PeerRead(c) /\ ServerIdle)

Spec == Init /\ [][Next]_vars /\ Fairness

-----------------------------------------------------------------------------
\* Unless broker__accept's unlocked table accesses have overlapped others, no
\* thread ever sends through a client that has been closed or freed, although
\* handle__PUB works on a copy of the subscriptions that may be out of date; and
\* a freed client has left nothing behind in the table of clients, the tree or
\* its mutex.
NoUseAfterFree ==
    raced = "no" =>
        /\ \A c \in Conn : pc[c] \in {"lock", "write"} => to[c] \notin isClose
        /\ \A c \in freed : /\ c \notin table /\ mutex[c] = NONE /\ subs[c] = {}
                            /\ \A s \in registered : s.conn # c

\* client->subs and the tree, which client__sub0 and client__unsub0 update under
\* different locks one after the other, agree whenever the client's thread is
\* not between the two: the tree has exactly the client's valid subscriptions.
TablesAgree ==
    \A c \in Conn :
        pc[c] \notin {"add", "del"} =>
            \A t \in Topic, g \in Tag :
                [conn |-> c, topic |-> t, tag |-> g] \in registered
                    <=> <<t, g>> \in subs[c] /\ t \in ValidTopic

\* client__send's mutex keeps the parts of frames that several threads send to
\* one client apart.
Whole(stream) ==
    \A i \in 1..Len(stream) :
        IF i % 2 = 1 THEN stream[i][1] = "header"
        ELSE stream[i][1] = "rest" /\ stream[i][2] = stream[i - 1][2]

\* The messages of one publisher arrive in the order it sent them, the replies in
\* the order of the requests, and no frame twice.
InOrder(stream) ==
    \A i, j \in 1..Len(stream) :
        i < j /\ stream[i][1] = "header" /\ stream[j][1] = "header" =>
            LET f == stream[i][2]
                g == stream[j][2]
            IN f # g /\ (f.from = g.from => f.n <= g.n)

\* What is written to a connection, by its own thread and by any number of
\* publishers, is in order; and as long as the peer reads it, a sequence of whole
\* frames.
WireIntegrity == \A c \in Conn : InOrder(wire[c]) /\ (peer[c] = "open" => Whole(wire[c]))

\* A message is only ever written to the connection that subscribed, and a reply
\* to the one that asked, even when the address of a client structure in the
\* copy has been given to another connection meanwhile.
RightAddressee ==
    \A c \in Conn : \A i \in 1..Len(wire[c]) :
        LET f == wire[c][i][2]
        IN c = IF f.op = "MSG" THEN f.sub.conn ELSE f.from

Delivered(c, s) ==
    \E i \in 1..Len(wire[s.conn]) :
        wire[s.conn][i] = <<"rest", [op |-> "MSG", from |-> c, n |-> num[c], sub |-> s]>>

\* When a PUB whose headers leave room for the labels is answered with OK, every
\* subscription it found has the whole message, unless it is the publisher's own
\* and no echo was asked for, or the subscriber's connection is closed or being
\* torn down.
AckMeansDelivered ==
    raced = "no" =>
        \A c \in Conn :
            pc[c] \in {"lock", "write"} /\ req[c].op = "PUB" /\ req[c].room = "all" /\ frame[c].op = "OK" =>
                \A s \in snapshot[c] :
                    \/ Skips(c, s)
                    \/ peer[s.conn] = "closed"
                    \/ pc[s.conn] \in {"destroy", "unsub_all", "close", "free", "print", "gone"}
                    \/ Delivered(c, s)

\* As long as peers read, the thread of a closed connection ends and takes its
\* subscriptions with it: no lock, and no send to another client, blocks it
\* forever.
ClosedIsCleanedUp ==
    \A c \in Conn : peer[c] = "closed" ~> pc[c] = "gone" \/ server = "crashed"

\* As long as peers read, every request that arrives is handled to its end.
RequestsServed ==
    \A c \in Conn : in[c] # <<>> ~> \/ in[c] = <<>> /\ pc[c] = "loop"
                                   \/ pc[c] = "gone" \/ server = "crashed"

-----------------------------------------------------------------------------
(***************************************************************************)
(* What a client program can tell of all this: the stage of its request,   *)
(* the subscriptions in the tree, to whom a publication has still to be    *)
(* sent, and the frames that have been written whole.                      *)
(***************************************************************************)
StageOf(c) ==
    CASE pc[c] \in {"away", "loop"} -> "ready"
      [] pc[c] \in {"handle", "add", "del"} -> "asked"
      [] pc[c] \in {"deliver", "reply", "lock", "write"} -> "done"
      [] OTHER -> "ended"

DueOf(c) ==
    LET inFlight == IF frame[c].op = "MSG" THEN {frame[c].sub} ELSE {}
    IN IF pc[c] = "deliver" \/ inFlight # {}
       THEN {s \in pending[c] \cup inFlight : ~Skips(c, s)} ELSE {}

DeliveredTo(c) == {wire[c][i][2] : i \in {j \in DOMAIN wire[c] : wire[c][j][1] = "rest"}}

Stage == [c \in Conn |-> StageOf(c)]
Due == [c \in Conn |-> DueOf(c)]
DeliveredFrames == [c \in Conn |-> DeliveredTo(c)]
Left == {c \in Conn : peer[c] = "closed"}
Broken == raced # "no" \/ server = "crashed"

Promise == INSTANCE Service WITH
    stage <- Stage,
    asked <- req,
    turn <- num,
    outcome <- status,
    subscribed <- registered,
    due <- Due,
    delivered <- DeliveredFrames,
    left <- Left,
    over <- freed,
    broken <- Broken

\* The broker implements the service: until the table of clients is raced or the
\* process has crashed, a publication reaches exactly the subscriptions that were
\* in place at one moment of its request and are not leaving, each once; its
\* request ends only after that; replies tell what was done; a connection changes
\* no subscription but its own and takes all of them with it; and none is sent
\* anything once it is over.
ImplementsService == Promise!Spec

-----------------------------------------------------------------------------
\* A positive acknowledgement of a SUB means that the subscription is in place.
SubAckTruthful ==
    \A c \in Conn : pc[c] = "lock" /\ req[c].op = "SUB" /\ frame[c].op = "OK"
                        => TreeSub(c) \in registered
=============================================================================
