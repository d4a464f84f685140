-------------------------- MODULE ServerInvariant ---------------------------
(***************************************************************************)
(* The inductive invariant of Server, from which the safety properties of  *)
(* the broker follow. It has one part for each discipline the code relies  *)
(* on: which thread may touch a structure when, and what is true of the    *)
(* structure while it does.                                                *)
(***************************************************************************)
EXTENDS Server

\* frame__send is under way: the thread waits for the mutex or writes.
Sending(c) == pc[c] \in {"lock", "write"}
\* The thread has left handle__client_loop.
Ended == {"destroy", "unsub_all", "close", "free", "print", "gone"}

\* The control state tells which clients are closed and freed, and the client
\* being accepted has no thread yet.
ControlInv ==
    /\ \A c \in Conn : c \in isClose <=> pc[c] \in {"free", "print", "gone"}
    /\ \A c \in Conn : c \in freed <=> pc[c] \in {"print", "gone"}
    /\ \A c \in isClose : peer[c] = "closed"
    /\ accepting # NONE => pc[accepting] = "away" /\ ptr[accepting] # NONE
    /\ \A c \in Conn : pc[c] # "away" => ptr[c] # NONE

\* A client has at most one subscription under each identifier, and none before
\* and after it is served.
KeysInv ==
    \A c \in Conn :
        /\ pc[c] \in {"away", "close", "free", "print", "gone"} => subs[c] = {}
        /\ \A k, l \in subs[c] : Identifier(k) = Identifier(l) => k = l

\* An UNSUB that has taken a subscription from the client has still to take it out
\* of the tree, where it is unless its topic was refused.
RemovalInv ==
    \A c \in Conn : pc[c] = "del" =>
        \E s \in Subscription :
            /\ pending[c] = {s} /\ s.conn = c /\ <<s.topic, s.tag>> \notin subs[c]
            /\ s.topic \in ValidTopic => s \in registered

\* What an UNSUB takes away has the identifier it asks for.
NamedInv ==
    \A c \in Conn : pc[c] = "del" =>
        /\ req[c].topic # NONE /\ req[c].tag # NONE
        /\ \A s \in pending[c] : s.tag \o s.topic = req[c].tag \o req[c].topic

\* The subscriptions in the tree and those of the clients, also half way through
\* a SUB or an UNSUB.
TreeInv ==
    /\ \A s \in registered :
          /\ s.topic \in ValidTopic
          /\ \/ <<s.topic, s.tag>> \in subs[s.conn]
             \/ pc[s.conn] = "del" /\ s \in pending[s.conn]
    /\ \A c \in Conn, t \in ValidTopic, g \in Tag :
          <<t, g>> \in subs[c] =>
              \/ [conn |-> c, topic |-> t, tag |-> g] \in registered
              \/ pc[c] = "add" /\ <<t, g>> = Key(req[c])
    /\ \A c \in Conn : pc[c] = "add" => Key(req[c]) \in subs[c]

\* What a thread is doing belongs to its request, and it has subscriptions to
\* deliver to only in a publication.
RequestInv ==
    \A c \in Conn :
        /\ pc[c] = "add" => req[c].op = "SUB" /\ req[c].topic # NONE
        /\ pc[c] = "del" => req[c].op = "UNSUB"
        /\ pc[c] = "deliver" => req[c].op = "PUB"
        /\ pc[c] = "reply" => req[c].op \in {"PUB", "SUB", "UNSUB"}
        /\ pending[c] # {} => \/ pc[c] \in {"del", "deliver"}
                              \/ Sending(c) /\ frame[c].op = "MSG"
        /\ \/ pc[c] \in {"away", "loop", "handle", "add", "del", "deliver"}
           \/ Sending(c) /\ frame[c].op = "MSG"
           => status[c] = "OK"

\* A thread sends a message for the subscription it has just taken from those
\* pending, to the client that has subscribed, and a reply to its own client.
SendInv ==
    \A c \in Conn :
        /\ pc[c] # "write" => part[c] = 0
        /\ ~Sending(c) => frame[c] = NoFrame(c)
        /\ Sending(c) =>
             /\ frame[c].from = c /\ frame[c].n = num[c]
             /\ frame[c].op = "MSG" =>
                   /\ frame[c].sub \in snapshot[c] \ pending[c] /\ ~Skips(c, frame[c].sub)
                   /\ to[c] = frame[c].sub.conn /\ req[c].op = "PUB"
             /\ frame[c].op # "MSG" =>
                   /\ frame[c].sub = NONE /\ to[c] = c
                   /\ frame[c].op = IF req[c].op = "CONNECT" THEN "INFO"
                                    ELSE IF req[c].op = "NOOP" THEN "NOOP" ELSE status[c]
                   /\ req[c].ack \/ req[c].op \in {"CONNECT", "NOOP"}

\* Who holds a client's mutex is writing to its socket, and the other way round.
MutexInv == \A c, d \in Conn : mutex[d] = c <=> pc[c] = "write" /\ to[c] = d

\* A find copies subscriptions of clients that have been accepted.
SnapshotInv ==
    \A c \in Conn :
        /\ pc[c] = "deliver" \/ (Sending(c) /\ frame[c].op = "MSG")
           => pending[c] \subseteq snapshot[c]
        /\ \A s \in snapshot[c] : pc[s.conn] # "away"

\* Without races in the table, it has the clients that are served, and none that
\* has begun to be torn down; whoever sends a message sends to one of them.
Served == {"loop", "handle", "add", "del", "deliver", "reply", "lock", "write", "destroy"}
TableInv ==
    raced = "no" =>
        /\ \A c \in CliReaders : to[c] \in table
        /\ \A c \in table : pc[c] \in Served \cup {"away"}
        /\ \A c \in Conn : pc[c] \in Served => c \in table

\* The number of a frame on the wire is that of a request that has been read, and
\* of the current request of a connection nothing is on the wire that is still to
\* be sent.
Unsent(c, kind, f) ==
    /\ pc[c] \notin {"handle", "add", "del"}
    /\ pc[c] \in {"deliver", "reply"} => f.op = "MSG"
    /\ pc[c] = "deliver" => f.sub \notin pending[c]
    /\ Sending(c) =>
          /\ f.op # "MSG" => f = frame[c]
          /\ frame[c].op = "MSG" => f.sub \notin pending[c]
          /\ f = frame[c] => part[c] = 1 /\ kind = "header"
Numbered(p) ==
    LET f == p[2]
    IN f.n <= num[f.from] /\ (f.n = num[f.from] => Unsent(f.from, p[1], f))
NumberInv == \A d \in Conn : \A i \in 1..Len(wire[d]) : Numbered(wire[d][i])

Odd(n) == n % 2 = 1

\* A stream has a header without its rest only while somebody writes to it.
WholeAt(d) ==
    /\ Whole(wire[d])
    /\ ~Odd(Len(wire[d])) => \A c \in Conn : pc[c] = "write" /\ to[c] = d => part[c] = 0
    /\ Odd(Len(wire[d])) =>
          \E c \in Conn : /\ pc[c] = "write" /\ to[c] = d /\ part[c] = 1
                         /\ wire[d][Len(wire[d])] = <<"header", frame[c]>>
WholeInv == \A d \in Conn : peer[d] # "closed" => WholeAt(d)

\* Nothing more is owed to a subscription of the current publication of c.
Done(c, s) ==
    \/ Skips(c, s)
    \/ peer[s.conn] = "closed"
    \/ pc[s.conn] \in Ended
    \/ Delivered(c, s)

\* A publication has dealt with those it has found, but for the ones pending and
\* the one it is sending to.
Publishing(c) ==
    req[c].op = "PUB" /\ req[c].room = "all" /\ pc[c] \in {"deliver", "reply", "lock", "write"}
Published(c) ==
    Publishing(c) =>
        \A s \in snapshot[c] \ pending[c] :
            (Sending(c) /\ frame[c].op = "MSG" /\ frame[c].sub = s) \/ Done(c, s)
PublishInv == raced = "no" => \A c \in Conn : Published(c)

\* The inductive invariant.
ServerInv ==
    /\ TypeOK /\ ControlInv /\ KeysInv /\ RemovalInv /\ NamedInv /\ TreeInv /\ RequestInv
    /\ SendInv /\ MutexInv /\ SnapshotInv /\ TableInv /\ NumberInv /\ WholeInv /\ PublishInv
    /\ RightAddressee /\ (\A c \in Conn : InOrder(wire[c]))

\* What handle__PUB finds.
Found(c) == {s \in registered : <<s.topic, req[c].topic>> \in Hits}
=============================================================================
