---------------------------- MODULE ServerProofs ----------------------------
(***************************************************************************)
(* The theorems about the broker, for every set of connections, addresses, *)
(* topics, tags and requests: the invariants that the runs of MCServer     *)
(* check on small instances.                                               *)
(***************************************************************************)
EXTENDS ServerSteps

-----------------------------------------------------------------------------
(***************************************************************************)
(* Every step keeps the parts of the inductive invariant that are about    *)
(* what has been written to the sockets.                                   *)
(***************************************************************************)
USE DEF peerVars, sendVars, handlerVars, clientVars, brokerVars

\* Odd and even positions alternate.
LEMMA Parity ==
    /\ \A n \in Nat : Odd(n + 1) <=> ~Odd(n)
    /\ ~Odd(0) /\ Odd(1)
  BY DEF Odd

\* The streams only grow, by the part the holder of a mutex is at.
LEMMA WireGrows ==
    ASSUME TypeOK, Next
    PROVE  \/ wire' = wire
           \/ \E c \in Conn : /\ SendHeader(c) /\ pc[c] = "write" /\ part[c] = 0
                              /\ wire' = [wire EXCEPT ![to[c]] = Append(@, <<"header", frame[c]>>)]
           \/ \E c \in Conn : /\ SendRest(c) /\ pc[c] = "write" /\ part[c] = 1
                              /\ wire' = [wire EXCEPT ![to[c]] = Append(@, <<"rest", frame[c]>>)]
<1> DEFINE Grows == \/ wire' = wire
                    \/ \E c \in Conn :
                          /\ SendHeader(c) /\ pc[c] = "write" /\ part[c] = 0
                          /\ wire' = [wire EXCEPT ![to[c]] = Append(@, <<"header", frame[c]>>)]
                    \/ \E c \in Conn :
                          /\ SendRest(c) /\ pc[c] = "write" /\ part[c] = 1
                          /\ wire' = [wire EXCEPT ![to[c]] = Append(@, <<"rest", frame[c]>>)]
<1>1. ASSUME NEW c \in Conn, SendHeader(c) PROVE Grows
  BY <1>1 DEF SendHeader
<1>2. ASSUME NEW c \in Conn, SendRest(c) PROVE Grows
  BY <1>2 DEF SendRest
<1>3. ASSUME NEW c \in Conn, Peer(c) \/ Accept(c) \/ TableCrash(c) \/ Recv(c) \/ RecvFail(c)
             \/ Handler(c) \/ SendLock(c) \/ SendError(c) \/ SendStale(c) \/ Destroy(c)
      PROVE  wire' = wire
  BY <1>3 DEF Peer, ServerIdle, Accept, AcceptBegin, AcceptEnd, AcceptNoThread, TableCrash, Recv,
     RecvFail, Handler, HandleSimple, PubNoTopic, PubFind, SubNoTopic, SubEnter, SubAdd,
     UnsubNoTag, UnsubRemove, UnsubDel, DeliverSkip, DeliverNoRoom, DeliverHit, DeliverMiss,
     DeliverEnd, HandleReply, ReplyNoRoom, SendLock, SendError, SendStale, Destroy,
     DestroyRemove, DestroyUnsub, DestroyClose, DestroyFree, PrintTree
<1>4. ASSUME AcceptFail PROVE wire' = wire
  BY <1>4 DEF AcceptFail
<1>5. Grows
  BY <1>1, <1>2, <1>3, <1>4 DEF Next, Thread, Send
<1> QED BY <1>5

\* What a stream is after a write.
LEMMA Written ==
    ASSUME TypeOK, NEW c \in Conn, NEW kind \in {"header", "rest"},
           wire' = [wire EXCEPT ![to[c]] = Append(@, <<kind, frame[c]>>)]
    PROVE  /\ \A d \in Conn : d # to[c] => wire'[d] = wire[d]
           /\ Len(wire'[to[c]]) = Len(wire[to[c]]) + 1
           /\ \A i \in 1..Len(wire[to[c]]) : wire'[to[c]][i] = wire[to[c]][i]
           /\ wire'[to[c]][Len(wire[to[c]]) + 1] = <<kind, frame[c]>>
           /\ Len(wire[to[c]]) \in Nat
           /\ to[c] \in Conn
<1>1. wire \in [Conn -> Seq(Part)] /\ to[c] \in Conn /\ frame[c] \in Frame
  BY DEF TypeOK
<1>2. wire[to[c]] \in Seq(Part) /\ <<kind, frame[c]>> \in Part
  BY <1>1 DEF Part
<1>3. wire'[to[c]] = Append(wire[to[c]], <<kind, frame[c]>>)
  BY <1>1
<1>4. /\ Len(Append(wire[to[c]], <<kind, frame[c]>>)) = Len(wire[to[c]]) + 1
      /\ \A i \in 1..Len(wire[to[c]]) : Append(wire[to[c]], <<kind, frame[c]>>)[i] = wire[to[c]][i]
      /\ Append(wire[to[c]], <<kind, frame[c]>>)[Len(wire[to[c]]) + 1] = <<kind, frame[c]>>
  BY <1>2, AppendProperties
<1>5. Len(wire[to[c]]) \in Nat
  BY <1>2, LenProperties
<1> QED BY <1>1, <1>3, <1>4, <1>5

\* Every part of a stream was there before or is the one just written.
LEMMA OldOrNew ==
    ASSUME TypeOK, NEW c \in Conn, NEW kind \in {"header", "rest"},
           wire' = [wire EXCEPT ![to[c]] = Append(@, <<kind, frame[c]>>)],
           NEW d \in Conn, NEW i \in 1..Len(wire'[d])
    PROVE  \/ i \in 1..Len(wire[d]) /\ wire'[d][i] = wire[d][i]
           \/ d = to[c] /\ i = Len(wire[d]) + 1 /\ wire'[d][i] = <<kind, frame[c]>>
<1>1. CASE d # to[c]
  BY <1>1, Written
<1>2. CASE d = to[c]
  <2>1. i \in 1..Len(wire[d]) \/ i = Len(wire[d]) + 1
    BY <1>2, Written
  <2> QED BY <1>2, <2>1, Written
<1> QED BY <1>1, <1>2

\* A write takes nothing back.
LEMMA Grown ==
    ASSUME TypeOK, NEW c \in Conn, NEW kind \in {"header", "rest"},
           wire' = [wire EXCEPT ![to[c]] = Append(@, <<kind, frame[c]>>)],
           NEW d \in Conn, NEW i \in 1..Len(wire[d])
    PROVE  i \in 1..Len(wire'[d]) /\ wire'[d][i] = wire[d][i]
<1>1. CASE d # to[c]
  BY <1>1, Written
<1>2. CASE d = to[c]
  <2>1. /\ Len(wire'[d]) = Len(wire[d]) + 1 /\ Len(wire[d]) \in Nat
        /\ wire'[d][i] = wire[d][i]
    BY <1>2, Written
  <2> QED BY <2>1
<1> QED BY <1>1, <1>2

\* A part that is on a stream stays there.
LEMMA PartsStay ==
    ASSUME TypeOK, Next, NEW d \in Conn, NEW i \in 1..Len(wire[d])
    PROVE  i \in 1..Len(wire'[d]) /\ wire'[d][i] = wire[d][i]
  BY WireGrows, Grown

\* A message goes to the connection that has subscribed, a reply to the one that
\* has asked.
LEMMA AddresseeStep ==
    ASSUME TypeOK, SendInv, RightAddressee, Next
    PROVE  RightAddressee'
<1>1. CASE wire' = wire
  BY <1>1 DEF RightAddressee
<1>2. ASSUME NEW c \in Conn, NEW kind \in {"header", "rest"}, pc[c] = "write",
             wire' = [wire EXCEPT ![to[c]] = Append(@, <<kind, frame[c]>>)]
      PROVE  RightAddressee'
  <2>1. to[c] = IF frame[c].op = "MSG" THEN frame[c].sub.conn ELSE frame[c].from
    BY <1>2 DEF SendInv, Sending
  <2> SUFFICES ASSUME NEW d \in Conn, NEW i \in 1..Len(wire'[d])
               PROVE  d = IF wire'[d][i][2].op = "MSG" THEN wire'[d][i][2].sub.conn
                          ELSE wire'[d][i][2].from
    BY DEF RightAddressee
  <2>2. CASE i \in 1..Len(wire[d]) /\ wire'[d][i] = wire[d][i]
    BY <2>2 DEF RightAddressee
  <2>3. CASE d = to[c] /\ wire'[d][i] = <<kind, frame[c]>>
    BY <2>1, <2>3
  <2>4. \/ i \in 1..Len(wire[d]) /\ wire'[d][i] = wire[d][i]
        \/ d = to[c] /\ wire'[d][i] = <<kind, frame[c]>>
    BY <1>2, OldOrNew
  <2> QED BY <2>2, <2>3, <2>4
<1> QED BY <1>1, <1>2, WireGrows

\* A frame whose header is written has the highest number yet of its connection,
\* and is not on any stream.
LEMMA OrderStep ==
    ASSUME TypeOK, SendInv, NumberInv, \A c \in Conn : InOrder(wire[c]), Next
    PROVE  \A c \in Conn : InOrder(wire'[c])
<1>1. CASE wire' = wire
  BY <1>1
<1>2. ASSUME NEW c \in Conn, pc[c] = "write", part[c] = 1,
             wire' = [wire EXCEPT ![to[c]] = Append(@, <<"rest", frame[c]>>)]
      PROVE  \A d \in Conn : InOrder(wire'[d])
  <2> SUFFICES ASSUME NEW d \in Conn, NEW i \in 1..Len(wire'[d]), NEW j \in 1..Len(wire'[d]), i < j,
                      wire'[d][i][1] = "header", wire'[d][j][1] = "header"
               PROVE  /\ wire'[d][i][2] # wire'[d][j][2]
                      /\ wire'[d][i][2].from = wire'[d][j][2].from =>
                            wire'[d][i][2].n <= wire'[d][j][2].n
    BY DEF InOrder
  <2>1. i \in 1..Len(wire[d]) /\ wire'[d][i] = wire[d][i]
    BY <1>2, OldOrNew
  <2>2. j \in 1..Len(wire[d]) /\ wire'[d][j] = wire[d][j]
    BY <1>2, OldOrNew
  <2> QED BY <2>1, <2>2 DEF InOrder
<1>3. ASSUME NEW c \in Conn, pc[c] = "write", part[c] = 0,
             wire' = [wire EXCEPT ![to[c]] = Append(@, <<"header", frame[c]>>)]
      PROVE  \A d \in Conn : InOrder(wire'[d])
  <2> SUFFICES ASSUME NEW d \in Conn, NEW i \in 1..Len(wire'[d]), NEW j \in 1..Len(wire'[d]), i < j,
                      wire'[d][i][1] = "header", wire'[d][j][1] = "header"
               PROVE  /\ wire'[d][i][2] # wire'[d][j][2]
                      /\ wire'[d][i][2].from = wire'[d][j][2].from =>
                            wire'[d][i][2].n <= wire'[d][j][2].n
    BY DEF InOrder
  <2>1. i \in 1..Len(wire[d]) /\ wire'[d][i] = wire[d][i]
    <3>1. \/ i \in 1..Len(wire[d]) /\ wire'[d][i] = wire[d][i]
          \/ i = Len(wire[d]) + 1
      BY <1>3, OldOrNew
    <3>2. j \in 1..Len(wire[d]) \/ j = Len(wire[d]) + 1
      BY <1>3, OldOrNew
    <3>3. Len(wire[d]) \in Nat
      BY LenProperties DEF TypeOK
    <3> QED BY <3>1, <3>2, <3>3
  <2>2. CASE j \in 1..Len(wire[d]) /\ wire'[d][j] = wire[d][j]
    BY <2>1, <2>2 DEF InOrder
  <2>3. CASE wire'[d][j] = <<"header", frame[c]>>
    <3>1. Numbered(wire[d][i]) /\ frame[c].from = c /\ frame[c].n = num[c]
      BY <1>3, <2>1 DEF NumberInv, SendInv, Sending
    <3>2. wire[d][i][2] # frame[c]
      BY <1>3, <3>1 DEF Numbered, Unsent, Sending
    <3> QED BY <2>1, <2>3, <3>1, <3>2 DEF Numbered
  <2>4. \/ j \in 1..Len(wire[d]) /\ wire'[d][j] = wire[d][j]
        \/ wire'[d][j] = <<"header", frame[c]>>
    BY <1>3, OldOrNew
  <2> QED BY <2>2, <2>3, <2>4
<1> QED BY <1>1, <1>2, <1>3, WireGrows

\* A part on the wire is of a request that has been read, and when it is of the
\* current one, of a frame the thread has finished with or is about to finish.
LEMMA NumberedStays ==
    ASSUME TypeOK, ControlInv, NEW p \in Part, Numbered(p), Next
    PROVE  Numbered(p)'
<1>0. /\ pc \in [Conn -> PC] /\ num \in [Conn -> Nat]
      /\ pending \in [Conn -> SUBSET Subscription] /\ frame \in [Conn -> Frame]
      /\ part \in [Conn -> 0..1] /\ status \in [Conn -> {"OK", "ERR"}]
  BY DEF TypeOK
<1>f. p[2] \in Frame /\ p[2].from \in Conn /\ p[2].n \in Nat
  BY DEF Part, Frame
<1>1. ASSUME NEW c \in Conn, Peer(c) \/ (\E q \in Ptr : AcceptBegin(c, q)) \/ AcceptNoThread(c)
             \/ SendStale(c) \/ TableCrash(c)
      PROVE  Numbered(p)'
  <2>1. UNCHANGED <<num, pending, frame, part, pc>>
    BY <1>1 DEF Peer, Connect, Submit, PeerRead, Disconnect, ServerIdle, AcceptBegin,
       AcceptNoThread, SendStale, TableCrash
  <2> QED BY <1>0, <2>1, <1>f DEF Numbered, Unsent, Sending
<1>2. ASSUME NEW c \in Conn, AcceptEnd(c) \/ RecvFail(c) \/ PubNoTopic(c) \/ SubNoTopic(c)
             \/ (SubEnter(c) /\ Entries(c) # {}) \/ (SubEnter(c) /\ Entries(c) = {})
             \/ SubAdd(c) \/ UnsubNoTag(c) \/ (UnsubRemove(c) /\ Entries(c) = {})
             \/ DeliverEnd(c) \/ (HandleReply(c) /\ ~req[c].ack) \/ ReplyNoRoom(c)
             \/ SendLock(c) \/ DestroyRemove(c) \/ DestroyUnsub(c) \/ DestroyClose(c)
             \/ DestroyFree(c) \/ PrintTree(c)
      PROVE  Numbered(p)'
  <2>1. /\ UNCHANGED <<num, pending, frame, part>>
        /\ \/ pc[c] = "away" /\ pc' = [pc EXCEPT ![c] = "loop"]
           \/ pc[c] = "loop" /\ pc' = [pc EXCEPT ![c] = "destroy"]
           \/ pc[c] = "handle" /\ pc' = [pc EXCEPT ![c] = "destroy"]
           \/ pc[c] = "handle" /\ pc' = [pc EXCEPT ![c] = "reply"]
           \/ pc[c] = "handle" /\ pc' = [pc EXCEPT ![c] = "add"]
           \/ pc[c] = "add" /\ pc' = [pc EXCEPT ![c] = "reply"]
           \/ pc[c] = "deliver" /\ pc' = [pc EXCEPT ![c] = "reply"]
           \/ pc[c] = "reply" /\ pc' = [pc EXCEPT ![c] = "loop"]
           \/ pc[c] = "reply" /\ pc' = [pc EXCEPT ![c] = "destroy"]
           \/ pc[c] = "lock" /\ pc' = [pc EXCEPT ![c] = "write"]
           \/ pc[c] = "destroy" /\ pc' = [pc EXCEPT ![c] = "unsub_all"]
           \/ pc[c] = "unsub_all" /\ pc' = [pc EXCEPT ![c] = "close"]
           \/ pc[c] = "close" /\ pc' = [pc EXCEPT ![c] = "free"]
           \/ pc[c] = "free" /\ pc' = [pc EXCEPT ![c] = "print"]
           \/ pc[c] = "print" /\ pc' = [pc EXCEPT ![c] = "gone"]
    BY <1>2, AcceptedAway DEF AcceptEnd, Goto, RecvFail, PubNoTopic, SubNoTopic, SubEnter,
       SubAdd, WriteTree, UnsubNoTag, UnsubRemove, UnsubUnknown, DeliverEnd, HandleReply,
       EndRequest, ReplyNoRoom, SendLock, DestroyRemove, DestroyUnsub, DestroyClose,
       DestroyFree, PrintTree
  <2> QED BY <1>0, <2>1, <1>f DEF Numbered, Unsent, Sending
<1>3. ASSUME NEW c \in Conn, Recv(c) PROVE Numbered(p)'
  <2>1. /\ pc[c] = "loop" /\ in[c] # <<>> /\ pc' = [pc EXCEPT ![c] = "handle"]
        /\ num' = [num EXCEPT ![c] = @ + 1]
        /\ UNCHANGED <<pending, frame, part>>
    BY <1>3 DEF Recv, Goto
  <2> QED BY <1>0, <2>1, <1>f DEF Numbered, Unsent, Sending
<1>4. ASSUME NEW c \in Conn, HandleSimple(c) PROVE Numbered(p)'
  <2>1. /\ pc[c] = "handle" /\ req[c].op \in {"CONNECT", "NOOP"}
        /\ pc' = [pc EXCEPT ![c] = "lock"]
        /\ frame' = [frame EXCEPT ![c] = Reply(c, IF req[c].op = "CONNECT" THEN "INFO" ELSE "NOOP")]
        /\ part' = [part EXCEPT ![c] = 0]
        /\ UNCHANGED <<num, pending>>
    BY <1>4 DEF HandleSimple, StartSend, Goto
  <2> QED BY <1>0, <2>1, <1>f DEF Numbered, Unsent, Sending
<1>5. ASSUME NEW c \in Conn, PubFind(c) PROVE Numbered(p)'
  <2>1. /\ pc[c] = "handle" /\ req[c].op = "PUB" /\ req[c].topic # NONE
        /\ pc' = [pc EXCEPT ![c] = "deliver"] /\ pending' = [pending EXCEPT ![c] = Found(c)]
        /\ UNCHANGED <<num, frame, part>>
    BY <1>5 DEF PubFind, Goto, Found
  <2> QED BY <1>0, <2>1, <1>f DEF Numbered, Unsent, Sending
<1>6. ASSUME NEW c \in Conn, UnsubRemove(c) /\ Entries(c) # {} PROVE Numbered(p)'
  <2>1. /\ pc[c] = "handle" /\ req[c].op = "UNSUB" /\ req[c].topic # NONE
        /\ pc' = [pc EXCEPT ![c] = "del"]
        /\ pending' = [pending EXCEPT ![c] =
                      {[conn |-> c, topic |-> key[1], tag |-> key[2]] : key \in Entries(c)}]
        /\ UNCHANGED <<num, frame, part>>
    BY <1>6 DEF UnsubRemove, Goto
  <2> QED BY <1>0, <2>1, <1>f DEF Numbered, Unsent, Sending
<1>7. ASSUME NEW c \in Conn, UnsubDel(c) PROVE Numbered(p)'
  <2>1. /\ pc[c] = "del" /\ pc' = [pc EXCEPT ![c] = "reply"]
        /\ pending' = [pending EXCEPT ![c] = {}]
        /\ UNCHANGED <<num, frame, part>>
    BY <1>7 DEF UnsubDel, WriteTree, Goto
  <2> QED BY <1>0, <2>1, <1>f DEF Numbered, Unsent, Sending
<1>8. ASSUME NEW c \in Conn, NEW s \in pending[c], DeliverSkip(c, s)
      PROVE  Numbered(p)'
  <2>1. /\ pc[c] = "deliver" /\ s \in pending[c] /\ Skips(c, s) /\ pc' = pc
        /\ pending' = [pending EXCEPT ![c] = @ \ {s}]
        /\ UNCHANGED <<num, frame, part>>
    BY <1>8 DEF DeliverSkip
  <2> QED BY <1>0, <2>1, <1>f DEF Numbered, Unsent, Sending
<1>9. ASSUME NEW c \in Conn, NEW s \in pending[c], DeliverNoRoom(c, s)
      PROVE  Numbered(p)'
  <2>1. /\ pc[c] = "deliver" /\ s \in pending[c] /\ ~Skips(c, s) /\ req[c].room # "all"
        /\ pc' = pc /\ pending' = [pending EXCEPT ![c] = @ \ {s}]
        /\ UNCHANGED <<num, frame, part>>
    BY <1>9 DEF DeliverNoRoom
  <2> QED BY <1>0, <2>1, <1>f DEF Numbered, Unsent, Sending
<1>10. ASSUME NEW c \in Conn, NEW s \in pending[c], DeliverMiss(c, s)
      PROVE  Numbered(p)'
  <2>1. /\ pc[c] = "deliver" /\ s \in pending[c] /\ ~Skips(c, s)
        /\ (Target(s) \subseteq Closed \/ accepting # NONE) /\ pc' = pc
        /\ pending' = [pending EXCEPT ![c] = @ \ {s}]
        /\ UNCHANGED <<num, frame, part>>
    BY <1>10 DEF DeliverMiss
  <2> QED BY <1>0, <2>1, <1>f DEF Numbered, Unsent, Sending
<1>11. ASSUME NEW c \in Conn, NEW s \in pending[c], DeliverHit(c, s)
      PROVE  Numbered(p)'
  <2>1. /\ pc[c] = "deliver" /\ s \in pending[c] /\ ~Skips(c, s) /\ s.conn \in table \ Closed
        /\ pc' = [pc EXCEPT ![c] = "lock"] /\ pending' = [pending EXCEPT ![c] = @ \ {s}]
        /\ frame' = [frame EXCEPT ![c] = [op |-> "MSG", from |-> c, n |-> num[c], sub |-> s]]
        /\ part' = [part EXCEPT ![c] = 0] /\ num' = num
    BY <1>11 DEF DeliverHit, StartSend, Target, Goto
  <2> QED BY <1>0, <2>1, <1>f DEF Numbered, Unsent, Sending
<1>12. ASSUME NEW c \in Conn, HandleReply(c) /\ req[c].ack PROVE Numbered(p)'
  <2>1. /\ pc[c] = "reply" /\ req[c].ack /\ pc' = [pc EXCEPT ![c] = "lock"]
        /\ frame' = [frame EXCEPT ![c] = Reply(c, status[c])] /\ part' = [part EXCEPT ![c] = 0]
        /\ UNCHANGED <<num, pending>>
    BY <1>12 DEF HandleReply, StartSend, Goto
  <2> QED BY <1>0, <2>1, <1>f DEF Numbered, Unsent, Sending, Reply
<1>13. ASSUME NEW c \in Conn, SendHeader(c) PROVE Numbered(p)'
  <2>1. /\ pc[c] = "write" /\ part[c] = 0 /\ to[c] \notin isClose /\ pc' = pc
        /\ part' = [part EXCEPT ![c] = 1]
        /\ UNCHANGED <<num, pending, frame>>
    BY <1>13 DEF SendHeader
  <2> QED BY <1>0, <2>1, <1>f DEF Numbered, Unsent, Sending
<1>14. ASSUME NEW c \in Conn, SendRest(c) /\ frame[c].op = "MSG" PROVE Numbered(p)'
  <2>1. /\ pc[c] = "write" /\ part[c] = 1 /\ to[c] \notin isClose /\ frame[c].op = "MSG"
        /\ pc' = [pc EXCEPT ![c] = "deliver"] /\ frame' = [frame EXCEPT ![c] = NoFrame(c)]
        /\ part' = [part EXCEPT ![c] = 0]
        /\ UNCHANGED <<num, pending>>
    BY <1>14 DEF SendRest, EndSend, Goto
  <2> QED BY <1>0, <2>1, <1>f DEF Numbered, Unsent, Sending
<1>15. ASSUME NEW c \in Conn, SendRest(c) /\ frame[c].op # "MSG" PROVE Numbered(p)'
  <2>1. /\ pc[c] = "write" /\ part[c] = 1 /\ to[c] \notin isClose /\ frame[c].op # "MSG"
        /\ pc' = [pc EXCEPT ![c] = "loop"] /\ frame' = [frame EXCEPT ![c] = NoFrame(c)]
        /\ part' = [part EXCEPT ![c] = 0]
        /\ UNCHANGED <<num, pending>>
    BY <1>15 DEF SendRest, EndSend, EndRequest, Goto
  <2> QED BY <1>0, <2>1, <1>f DEF Numbered, Unsent, Sending
<1>16. ASSUME NEW c \in Conn, SendError(c) /\ frame[c].op = "MSG" PROVE Numbered(p)'
  <2>1. /\ pc[c] = "write" /\ peer[to[c]] = "closed" /\ frame[c].op = "MSG"
        /\ pc' = [pc EXCEPT ![c] = "deliver"] /\ frame' = [frame EXCEPT ![c] = NoFrame(c)]
        /\ part' = [part EXCEPT ![c] = 0]
        /\ UNCHANGED <<num, pending>>
    BY <1>16 DEF SendError, SendFailed, EndSend, Goto
  <2> QED BY <1>0, <2>1, <1>f DEF Numbered, Unsent, Sending
<1>17. ASSUME NEW c \in Conn, SendError(c) /\ frame[c].op # "MSG" PROVE Numbered(p)'
  <2>1. /\ pc[c] = "write" /\ peer[to[c]] = "closed" /\ frame[c].op # "MSG"
        /\ pc' = [pc EXCEPT ![c] = "destroy"] /\ frame' = [frame EXCEPT ![c] = NoFrame(c)]
        /\ part' = [part EXCEPT ![c] = 0]
        /\ UNCHANGED <<num, pending>>
    BY <1>17 DEF SendError, SendFailed, EndSend, Goto
  <2> QED BY <1>0, <2>1, <1>f DEF Numbered, Unsent, Sending
<1>18. ASSUME AcceptFail PROVE Numbered(p)'
  <2>1. UNCHANGED <<num, pending, frame, part, pc>>
    BY <1>18 DEF AcceptFail
  <2> QED BY <1>0, <2>1, <1>f DEF Numbered, Unsent, Sending
<1> QED
  BY <1>1, <1>2, <1>3, <1>4, <1>5, <1>6, <1>7, <1>8, <1>9, <1>10, <1>11, <1>12, <1>13, <1>14,
     <1>15, <1>16, <1>17, <1>18 DEF Next, Thread, Accept, Handler, Send, Destroy

\* The part that is written is of the frame the thread is sending.
LEMMA NumberStep ==
    ASSUME TypeOK, ControlInv, SendInv, NumberInv, Next
    PROVE  NumberInv'
<1>0. /\ wire \in [Conn -> Seq(Part)] /\ frame \in [Conn -> Frame] /\ num \in [Conn -> Nat]
      /\ pc \in [Conn -> PC] /\ pending \in [Conn -> SUBSET Subscription] /\ part \in [Conn -> 0..1]
  BY DEF TypeOK
<1>1. \A d \in Conn : \A i \in 1..Len(wire[d]) : wire[d][i] \in Part
  BY <1>0, ElementOfSeq
<1>2. \A p \in Part : Numbered(p) => Numbered(p)'
  BY NumberedStays
<1>3. CASE wire' = wire
  BY <1>1, <1>2, <1>3 DEF NumberInv
<1>4. ASSUME NEW c \in Conn, NEW kind \in {"header", "rest"}, NEW f \in Frame, f = frame[c],
             wire' = [wire EXCEPT ![to[c]] = Append(@, <<kind, frame[c]>>)],
             Numbered(<<kind, f>>)'
      PROVE  NumberInv'
  <2> SUFFICES ASSUME NEW d \in Conn, NEW i \in 1..Len(wire'[d]) PROVE Numbered(wire[d][i])'
    BY DEF NumberInv
  <2>1. CASE i \in 1..Len(wire[d]) /\ wire'[d][i] = wire[d][i]
    BY <1>1, <1>2, <2>1 DEF NumberInv
  <2>2. CASE wire'[d][i] = <<kind, f>>
    BY <1>4, <2>2
  <2> QED BY <1>4, <2>1, <2>2, OldOrNew
<1>5. ASSUME NEW c \in Conn, SendHeader(c)
      PROVE  \A f \in Frame : f = frame[c] => Numbered(<<"header", f>>)'
  <2>1. /\ pc[c] = "write" /\ part' = [part EXCEPT ![c] = 1]
        /\ UNCHANGED <<pc, num, pending, frame>>
    BY <1>5 DEF SendHeader
  <2>2. /\ frame[c].from = c /\ frame[c].n = num[c]
        /\ frame[c].op = "MSG" => frame[c].sub \notin pending[c]
    BY <2>1 DEF SendInv, Sending
  <2> QED BY <1>0, <2>1, <2>2 DEF Numbered, Unsent, Sending
<1>6. ASSUME NEW c \in Conn, SendRest(c)
      PROVE  \A f \in Frame : f = frame[c] => Numbered(<<"rest", f>>)'
  <2>1. /\ pc[c] = "write" /\ UNCHANGED <<num, pending>>
        /\ pc' = [pc EXCEPT ![c] = IF frame[c].op = "MSG" THEN "deliver" ELSE "loop"]
    BY <1>6 DEF SendRest, Goto, EndRequest
  <2>2. /\ frame[c].from = c /\ frame[c].n = num[c]
        /\ frame[c].op = "MSG" => frame[c].sub \notin pending[c]
    BY <2>1 DEF SendInv, Sending
  <2> QED BY <1>0, <2>1, <2>2 DEF Numbered, Unsent, Sending
<1>7. \A c \in Conn : frame[c] \in Frame
  BY <1>0
<1> QED BY <1>7, <1>3, <1>4, <1>5, <1>6, WireGrows

\* The holder of a mutex completes the frame it has begun before anybody else
\* writes to the socket, unless the peer has closed.
LEMMA WholeStep ==
    ASSUME TypeOK, ControlInv, SendInv, MutexInv, WholeInv, Next
    PROVE  WholeInv'
<1>0. /\ pc \in [Conn -> PC] /\ to \in [Conn -> Conn] /\ part \in [Conn -> 0..1]
      /\ frame \in [Conn -> Frame] /\ wire \in [Conn -> Seq(Part)]
      /\ mutex \in [Conn -> Conn \cup {NONE}]
      /\ peer \in [Conn -> {"away", "backlog", "open", "closed"}]
  BY DEF TypeOK
<1>p. \A d \in Conn : peer[d] = "closed" => peer'[d] = "closed"
  BY PeerStays
<1>m. \A c, d \in Conn : pc[c] = "write" /\ pc[d] = "write" /\ to[c] = to[d] => c = d
  BY <1>0 DEF MutexInv
<1>1. ASSUME NEW c \in Conn, Peer(c) \/ (\E p \in Ptr : AcceptBegin(c, p)) \/ AcceptNoThread(c)
             \/ SendStale(c) \/ TableCrash(c)
             \/ (\E s \in pending[c] : DeliverSkip(c, s) \/ DeliverNoRoom(c, s)
                                       \/ DeliverMiss(c, s))
      PROVE  WholeInv'
  <2>1. UNCHANGED <<to, part, frame, wire, pc>>
    BY <1>1 DEF Peer, Connect, Submit, PeerRead, Disconnect, ServerIdle, AcceptBegin,
       AcceptNoThread, SendStale, TableCrash, DeliverSkip, DeliverNoRoom, DeliverMiss
  <2>2. \A d \in Conn : WholeAt(d) => WholeAt(d)'
    BY <1>0, <2>1 DEF WholeAt
  <2> QED BY <2>2, <1>p DEF WholeInv
<1>2. ASSUME NEW c \in Conn, AcceptEnd(c) \/ Recv(c) \/ RecvFail(c) \/ PubNoTopic(c)
             \/ PubFind(c) \/ SubNoTopic(c) \/ (SubEnter(c) /\ Entries(c) # {})
             \/ (SubEnter(c) /\ Entries(c) = {}) \/ SubAdd(c) \/ UnsubNoTag(c)
             \/ (UnsubRemove(c) /\ Entries(c) # {}) \/ (UnsubRemove(c) /\ Entries(c) = {})
             \/ UnsubDel(c) \/ DeliverEnd(c) \/ (HandleReply(c) /\ ~req[c].ack)
             \/ ReplyNoRoom(c) \/ DestroyRemove(c) \/ DestroyUnsub(c) \/ DestroyClose(c)
             \/ DestroyFree(c) \/ PrintTree(c)
      PROVE  WholeInv'
  <2>1. /\ UNCHANGED <<to, part, frame, wire>>
        /\ pc[c] # "write" /\ \E l \in PC \ {"write"} : pc' = [pc EXCEPT ![c] = l]
    BY <1>2, AcceptedAway DEF AcceptEnd, Goto, Recv, RecvFail, PubNoTopic, PubFind, SubNoTopic,
       SubEnter, SubAdd, WriteTree, UnsubNoTag, UnsubRemove, UnsubUnknown, UnsubDel, DeliverEnd,
       HandleReply, EndRequest, ReplyNoRoom, DestroyRemove, DestroyUnsub, DestroyClose,
       DestroyFree, PrintTree, PC
  <2>2. \A d \in Conn : WholeAt(d) => WholeAt(d)'
    BY <1>0, <2>1 DEF WholeAt
  <2> QED BY <2>2, <1>p DEF WholeInv
<1>3. ASSUME NEW c \in Conn, HandleSimple(c) PROVE WholeInv'
  <2>1. /\ pc[c] = "handle" /\ req[c].op \in {"CONNECT", "NOOP"}
        /\ pc' = [pc EXCEPT ![c] = "lock"] /\ to' = [to EXCEPT ![c] = c]
        /\ part' = [part EXCEPT ![c] = 0]
        /\ frame' = [frame EXCEPT ![c] = Reply(c, IF req[c].op = "CONNECT" THEN "INFO" ELSE "NOOP")]
        /\ wire' = wire
    BY <1>3 DEF HandleSimple, StartSend, Goto
  <2>2. \A d \in Conn : WholeAt(d) => WholeAt(d)'
    BY <1>0, <2>1 DEF WholeAt
  <2> QED BY <2>2, <1>p DEF WholeInv
<1>4. ASSUME NEW c \in Conn, NEW s \in pending[c], DeliverHit(c, s)
      PROVE  WholeInv'
  <2>1. /\ pc[c] = "deliver" /\ s \in pending[c] /\ ~Skips(c, s) /\ s.conn \in table \ Closed
        /\ pc' = [pc EXCEPT ![c] = "lock"] /\ to' = [to EXCEPT ![c] = s.conn]
        /\ part' = [part EXCEPT ![c] = 0]
        /\ frame' = [frame EXCEPT ![c] = [op |-> "MSG", from |-> c, n |-> num[c], sub |-> s]]
        /\ wire' = wire
    BY <1>4 DEF DeliverHit, StartSend, Target, Goto
  <2>2. \A d \in Conn : WholeAt(d) => WholeAt(d)'
    BY <1>0, <2>1 DEF WholeAt
  <2> QED BY <2>2, <1>p DEF WholeInv
<1>5. ASSUME NEW c \in Conn, HandleReply(c) /\ req[c].ack PROVE WholeInv'
  <2>1. /\ pc[c] = "reply" /\ req[c].ack /\ pc' = [pc EXCEPT ![c] = "lock"]
        /\ to' = [to EXCEPT ![c] = c] /\ part' = [part EXCEPT ![c] = 0]
        /\ frame' = [frame EXCEPT ![c] = Reply(c, status[c])] /\ wire' = wire
    BY <1>5 DEF HandleReply, StartSend, Goto
  <2>2. \A d \in Conn : WholeAt(d) => WholeAt(d)'
    BY <1>0, <2>1 DEF WholeAt
  <2> QED BY <2>2, <1>p DEF WholeInv
<1>6. ASSUME NEW c \in Conn, SendLock(c) PROVE WholeInv'
  <2>1. /\ pc[c] = "lock" /\ mutex[to[c]] = NONE /\ pc' = [pc EXCEPT ![c] = "write"]
        /\ UNCHANGED <<to, part, frame, wire>>
    BY <1>6 DEF SendLock, Goto
  <2>2. part[c] = 0 /\ \A d \in Conn : pc[d] = "write" => to[d] # to[c]
    BY <1>0, <2>1, ServerAssumption DEF SendInv, MutexInv
  <2>3. ASSUME NEW d \in Conn, peer'[d] # "closed" PROVE WholeAt(d)'
    <3>1. WholeAt(d)
      BY <1>p, <2>3 DEF WholeInv
    <3> QED BY <1>0, <2>1, <2>2, <3>1 DEF WholeAt
  <2> QED BY <2>3 DEF WholeInv
<1>7. ASSUME NEW c \in Conn, SendHeader(c) PROVE WholeInv'
  <2>1. /\ pc[c] = "write" /\ part[c] = 0 /\ to[c] \notin isClose /\ pc' = pc
        /\ part' = [part EXCEPT ![c] = 1]
        /\ wire' = [wire EXCEPT ![to[c]] = Append(@, <<"header", frame[c]>>)]
        /\ UNCHANGED <<to, frame>>
    BY <1>7 DEF SendHeader
  <2>2. /\ to[c] \in Conn /\ \A d \in Conn : d # to[c] => wire'[d] = wire[d]
        /\ Len(wire[to[c]]) \in Nat /\ Len(wire'[to[c]]) = Len(wire[to[c]]) + 1
        /\ \A i \in 1..Len(wire[to[c]]) : wire'[to[c]][i] = wire[to[c]][i]
        /\ wire'[to[c]][Len(wire[to[c]]) + 1] = <<"header", frame[c]>>
    BY <2>1, Written
  <2>3. ASSUME NEW d \in Conn, d # to[c], peer'[d] # "closed" PROVE WholeAt(d)'
    <3>1. WholeAt(d) /\ wire'[d] = wire[d]
      BY <1>p, <2>2, <2>3 DEF WholeInv
    <3>2. \A e \in Conn : to[e] = d => e # c
      BY <2>3
    <3> QED BY <1>0, <2>1, <3>1, <3>2 DEF WholeAt
  <2>4. ASSUME NEW d \in Conn, d = to[c], peer'[d] # "closed" PROVE WholeAt(d)'
    <3>1. WholeAt(to[c])
      BY <1>p, <2>2, <2>4 DEF WholeInv
    <3>2. ~Odd(Len(wire[to[c]]))
      BY <1>m, <2>1, <2>2, <3>1 DEF WholeAt
    <3>3. Odd(Len(wire[to[c]]) + 1)
      BY <2>2, <3>2, Parity
    <3>4. Whole(wire'[to[c]])
      <4> SUFFICES ASSUME NEW i \in 1..Len(wire'[to[c]])
                   PROVE  IF Odd(i) THEN wire'[to[c]][i][1] = "header"
                          ELSE /\ wire'[to[c]][i][1] = "rest"
                               /\ wire'[to[c]][i][2] = wire'[to[c]][i - 1][2]
        BY DEF Whole, Odd
      <4>1. CASE i \in 1..Len(wire[to[c]])
        <5>1. ~Odd(i) => i - 1 \in 1..Len(wire[to[c]])
          BY <2>2, <4>1, Parity
        <5> QED BY <2>2, <3>1, <4>1, <5>1, ZenonT(60) DEF WholeAt, Whole, Odd
      <4>2. CASE i = Len(wire[to[c]]) + 1
        BY <2>2, <3>3, <4>2
      <4> QED BY <2>2, <4>1, <4>2
    <3> QED BY <1>0, <2>1, <2>2, <2>4, <3>3, <3>4, ZenonT(60) DEF WholeAt
  <2> QED BY <2>3, <2>4 DEF WholeInv
<1>8. ASSUME NEW c \in Conn, SendRest(c) /\ frame[c].op = "MSG" PROVE WholeInv'
  <2>1. /\ pc[c] = "write" /\ part[c] = 1 /\ to[c] \notin isClose /\ frame[c].op = "MSG"
        /\ pc' = [pc EXCEPT ![c] = "deliver"] /\ to' = [to EXCEPT ![c] = c]
        /\ part' = [part EXCEPT ![c] = 0] /\ frame' = [frame EXCEPT ![c] = NoFrame(c)]
        /\ wire' = [wire EXCEPT ![to[c]] = Append(@, <<"rest", frame[c]>>)]
    BY <1>8 DEF SendRest, EndSend, Goto
  <2>2. /\ to[c] \in Conn /\ \A d \in Conn : d # to[c] => wire'[d] = wire[d]
        /\ Len(wire[to[c]]) \in Nat /\ Len(wire'[to[c]]) = Len(wire[to[c]]) + 1
        /\ \A i \in 1..Len(wire[to[c]]) : wire'[to[c]][i] = wire[to[c]][i]
        /\ wire'[to[c]][Len(wire[to[c]]) + 1] = <<"rest", frame[c]>>
    BY <2>1, Written
  <2>3. ASSUME NEW d \in Conn, d # to[c], peer'[d] # "closed" PROVE WholeAt(d)'
    <3>1. WholeAt(d) /\ wire'[d] = wire[d]
      BY <1>p, <2>2, <2>3 DEF WholeInv
    <3>2. \A e \in Conn : to[e] = d => e # c
      BY <2>3
    <3> QED BY <1>0, <2>1, <3>1, <3>2 DEF WholeAt
  <2>4. ASSUME NEW d \in Conn, d = to[c], peer'[d] # "closed" PROVE WholeAt(d)'
    <3>1. WholeAt(to[c])
      BY <1>p, <2>2, <2>4 DEF WholeInv
    <3>2. /\ Odd(Len(wire[to[c]])) /\ wire[to[c]][Len(wire[to[c]])] = <<"header", frame[c]>>
          /\ Len(wire[to[c]]) # 0
      BY <1>m, <2>1, <2>2, <3>1, Parity DEF WholeAt
    <3>3. ~Odd(Len(wire[to[c]]) + 1)
      BY <2>2, <3>2, Parity
    <3>4. Whole(wire'[to[c]])
      <4> SUFFICES ASSUME NEW i \in 1..Len(wire'[to[c]])
                   PROVE  IF Odd(i) THEN wire'[to[c]][i][1] = "header"
                          ELSE /\ wire'[to[c]][i][1] = "rest"
                               /\ wire'[to[c]][i][2] = wire'[to[c]][i - 1][2]
        BY DEF Whole, Odd
      <4>1. CASE i \in 1..Len(wire[to[c]])
        <5>1. ~Odd(i) => i - 1 \in 1..Len(wire[to[c]])
          BY <2>2, <4>1, Parity
        <5> QED BY <2>2, <3>1, <4>1, <5>1, ZenonT(60) DEF WholeAt, Whole, Odd
      <4>2. CASE i = Len(wire[to[c]]) + 1
        <5>1. i - 1 = Len(wire[to[c]]) /\ Len(wire[to[c]]) \in 1..Len(wire[to[c]]) /\ ~Odd(i)
          BY <2>2, <3>2, <3>3, <4>2
        <5> QED BY <2>2, <3>2, <4>2, <5>1, SMTT(60)
      <4> QED BY <2>2, <4>1, <4>2
    <3>5. \A e \in Conn : pc'[e] = "write" => to'[e] # to[c]
      BY <1>0, <1>m, <2>1
    <3> QED BY <1>0, <2>1, <2>2, <2>4, <3>3, <3>4, <3>5 DEF WholeAt
  <2> QED BY <2>3, <2>4 DEF WholeInv
<1>9. ASSUME NEW c \in Conn, SendRest(c) /\ frame[c].op # "MSG" PROVE WholeInv'
  <2>1. /\ pc[c] = "write" /\ part[c] = 1 /\ to[c] \notin isClose /\ frame[c].op # "MSG"
        /\ pc' = [pc EXCEPT ![c] = "loop"] /\ to' = [to EXCEPT ![c] = c]
        /\ part' = [part EXCEPT ![c] = 0] /\ frame' = [frame EXCEPT ![c] = NoFrame(c)]
        /\ wire' = [wire EXCEPT ![to[c]] = Append(@, <<"rest", frame[c]>>)]
    BY <1>9 DEF SendRest, EndSend, EndRequest, Goto
  <2>2. /\ to[c] \in Conn /\ \A d \in Conn : d # to[c] => wire'[d] = wire[d]
        /\ Len(wire[to[c]]) \in Nat /\ Len(wire'[to[c]]) = Len(wire[to[c]]) + 1
        /\ \A i \in 1..Len(wire[to[c]]) : wire'[to[c]][i] = wire[to[c]][i]
        /\ wire'[to[c]][Len(wire[to[c]]) + 1] = <<"rest", frame[c]>>
    BY <2>1, Written
  <2>3. ASSUME NEW d \in Conn, d # to[c], peer'[d] # "closed" PROVE WholeAt(d)'
    <3>1. WholeAt(d) /\ wire'[d] = wire[d]
      BY <1>p, <2>2, <2>3 DEF WholeInv
    <3>2. \A e \in Conn : to[e] = d => e # c
      BY <2>3
    <3> QED BY <1>0, <2>1, <3>1, <3>2 DEF WholeAt
  <2>4. ASSUME NEW d \in Conn, d = to[c], peer'[d] # "closed" PROVE WholeAt(d)'
    <3>1. WholeAt(to[c])
      BY <1>p, <2>2, <2>4 DEF WholeInv
    <3>2. /\ Odd(Len(wire[to[c]])) /\ wire[to[c]][Len(wire[to[c]])] = <<"header", frame[c]>>
          /\ Len(wire[to[c]]) # 0
      BY <1>m, <2>1, <2>2, <3>1, Parity DEF WholeAt
    <3>3. ~Odd(Len(wire[to[c]]) + 1)
      BY <2>2, <3>2, Parity
    <3>4. Whole(wire'[to[c]])
      <4> SUFFICES ASSUME NEW i \in 1..Len(wire'[to[c]])
                   PROVE  IF Odd(i) THEN wire'[to[c]][i][1] = "header"
                          ELSE /\ wire'[to[c]][i][1] = "rest"
                               /\ wire'[to[c]][i][2] = wire'[to[c]][i - 1][2]
        BY DEF Whole, Odd
      <4>1. CASE i \in 1..Len(wire[to[c]])
        <5>1. ~Odd(i) => i - 1 \in 1..Len(wire[to[c]])
          BY <2>2, <4>1, Parity
        <5> QED BY <2>2, <3>1, <4>1, <5>1, ZenonT(60) DEF WholeAt, Whole, Odd
      <4>2. CASE i = Len(wire[to[c]]) + 1
        <5>1. i - 1 = Len(wire[to[c]]) /\ Len(wire[to[c]]) \in 1..Len(wire[to[c]]) /\ ~Odd(i)
          BY <2>2, <3>2, <3>3, <4>2
        <5> QED BY <2>2, <3>2, <4>2, <5>1, SMTT(60)
      <4> QED BY <2>2, <4>1, <4>2
    <3>5. \A e \in Conn : pc'[e] = "write" => to'[e] # to[c]
      BY <1>0, <1>m, <2>1
    <3> QED BY <1>0, <2>1, <2>2, <2>4, <3>3, <3>4, <3>5 DEF WholeAt
  <2> QED BY <2>3, <2>4 DEF WholeInv
<1>10. ASSUME NEW c \in Conn, SendError(c) /\ frame[c].op = "MSG" PROVE WholeInv'
  <2>1. /\ pc[c] = "write" /\ peer[to[c]] = "closed" /\ frame[c].op = "MSG"
        /\ pc' = [pc EXCEPT ![c] = "deliver"] /\ to' = [to EXCEPT ![c] = c]
        /\ part' = [part EXCEPT ![c] = 0] /\ frame' = [frame EXCEPT ![c] = NoFrame(c)]
        /\ wire' = wire
    BY <1>10 DEF SendError, SendFailed, EndSend, Goto
  <2>2. ASSUME NEW d \in Conn, peer'[d] # "closed" PROVE WholeAt(d)'
    <3>1. WholeAt(d) /\ d # to[c]
      BY <1>p, <2>1, <2>2 DEF WholeInv
    <3> QED BY <1>0, <2>1, <3>1 DEF WholeAt
  <2> QED BY <2>2 DEF WholeInv
<1>11. ASSUME NEW c \in Conn, SendError(c) /\ frame[c].op # "MSG" PROVE WholeInv'
  <2>1. /\ pc[c] = "write" /\ peer[to[c]] = "closed" /\ frame[c].op # "MSG"
        /\ pc' = [pc EXCEPT ![c] = "destroy"] /\ to' = [to EXCEPT ![c] = c]
        /\ part' = [part EXCEPT ![c] = 0] /\ frame' = [frame EXCEPT ![c] = NoFrame(c)]
        /\ wire' = wire
    BY <1>11 DEF SendError, SendFailed, EndSend, Goto
  <2>2. ASSUME NEW d \in Conn, peer'[d] # "closed" PROVE WholeAt(d)'
    <3>1. WholeAt(d) /\ d # to[c]
      BY <1>p, <2>1, <2>2 DEF WholeInv
    <3> QED BY <1>0, <2>1, <3>1 DEF WholeAt
  <2> QED BY <2>2 DEF WholeInv
<1>12. ASSUME AcceptFail PROVE WholeInv'
  <2>1. UNCHANGED <<to, part, frame, wire, pc>>
    BY <1>12 DEF AcceptFail
  <2>2. \A d \in Conn : WholeAt(d) => WholeAt(d)'
    BY <1>0, <2>1 DEF WholeAt
  <2> QED BY <2>2, <1>p DEF WholeInv
<1> QED
  BY <1>1, <1>2, <1>3, <1>4, <1>5, <1>6, <1>7, <1>8, <1>9, <1>10, <1>11, <1>12 DEF Next, Thread,
     Accept, Handler, Send, Destroy

-----------------------------------------------------------------------------
(***************************************************************************)
(* Publications.                                                           *)
(***************************************************************************)
\* A thread that leaves its loop never comes back.
LEMMA EndedStays ==
    ASSUME TypeOK, ControlInv, NEW d \in Conn, pc[d] \in Ended, Next
    PROVE  pc'[d] \in Ended
<1>0. pc \in [Conn -> PC]
  BY DEF TypeOK
<1>1. ASSUME NEW c \in Conn, Peer(c) \/ (\E p \in Ptr : AcceptBegin(c, p)) \/ AcceptNoThread(c)
             \/ SendStale(c) \/ TableCrash(c) \/ SendHeader(c)
             \/ (\E s \in pending[c] : DeliverSkip(c, s) \/ DeliverNoRoom(c, s)
                                       \/ DeliverMiss(c, s))
      PROVE  pc'[d] \in Ended
  <2>1. pc' = pc
    BY <1>1 DEF Peer, Connect, Submit, PeerRead, Disconnect, ServerIdle, AcceptBegin,
       AcceptNoThread, SendStale, TableCrash, DeliverSkip, DeliverNoRoom, DeliverMiss,
       SendHeader
  <2> QED BY <1>0, <2>1 DEF Ended
<1>2. ASSUME NEW c \in Conn, AcceptEnd(c) \/ Recv(c) \/ RecvFail(c) \/ HandleSimple(c)
             \/ PubNoTopic(c) \/ PubFind(c) \/ SubNoTopic(c) \/ (SubEnter(c) /\ Entries(c) # {})
             \/ (SubEnter(c) /\ Entries(c) = {}) \/ SubAdd(c) \/ UnsubNoTag(c)
             \/ (UnsubRemove(c) /\ Entries(c) # {}) \/ (UnsubRemove(c) /\ Entries(c) = {})
             \/ UnsubDel(c) \/ DeliverEnd(c) \/ (HandleReply(c) /\ req[c].ack)
             \/ (HandleReply(c) /\ ~req[c].ack) \/ ReplyNoRoom(c) \/ SendLock(c)
             \/ (SendRest(c) /\ frame[c].op = "MSG") \/ (SendRest(c) /\ frame[c].op # "MSG")
             \/ (SendError(c) /\ frame[c].op = "MSG") \/ (SendError(c) /\ frame[c].op # "MSG")
             \/ DestroyRemove(c) \/ DestroyUnsub(c) \/ DestroyClose(c) \/ DestroyFree(c)
             \/ PrintTree(c) \/ (\E s \in pending[c] : DeliverHit(c, s))
      PROVE  pc'[d] \in Ended
  <2>1. /\ TRUE
        /\ \/ pc[c] = "away" /\ pc' = [pc EXCEPT ![c] = "loop"]
           \/ pc[c] = "loop" /\ pc' = [pc EXCEPT ![c] = "handle"]
           \/ pc[c] = "loop" /\ pc' = [pc EXCEPT ![c] = "destroy"]
           \/ pc[c] = "handle" /\ pc' = [pc EXCEPT ![c] = "lock"]
           \/ pc[c] = "handle" /\ pc' = [pc EXCEPT ![c] = "destroy"]
           \/ pc[c] = "handle" /\ pc' = [pc EXCEPT ![c] = "deliver"]
           \/ pc[c] = "handle" /\ pc' = [pc EXCEPT ![c] = "reply"]
           \/ pc[c] = "handle" /\ pc' = [pc EXCEPT ![c] = "add"]
           \/ pc[c] = "add" /\ pc' = [pc EXCEPT ![c] = "reply"]
           \/ pc[c] = "handle" /\ pc' = [pc EXCEPT ![c] = "del"]
           \/ pc[c] = "del" /\ pc' = [pc EXCEPT ![c] = "reply"]
           \/ pc[c] = "deliver" /\ pc' = [pc EXCEPT ![c] = "lock"]
           \/ pc[c] = "deliver" /\ pc' = [pc EXCEPT ![c] = "reply"]
           \/ pc[c] = "reply" /\ pc' = [pc EXCEPT ![c] = "lock"]
           \/ pc[c] = "reply" /\ pc' = [pc EXCEPT ![c] = "loop"]
           \/ pc[c] = "reply" /\ pc' = [pc EXCEPT ![c] = "destroy"]
           \/ pc[c] = "lock" /\ pc' = [pc EXCEPT ![c] = "write"]
           \/ pc[c] = "write" /\ pc' = [pc EXCEPT ![c] = "deliver"]
           \/ pc[c] = "write" /\ pc' = [pc EXCEPT ![c] = "loop"]
           \/ pc[c] = "write" /\ pc' = [pc EXCEPT ![c] = "destroy"]
           \/ pc[c] = "destroy" /\ pc' = [pc EXCEPT ![c] = "unsub_all"]
           \/ pc[c] = "unsub_all" /\ pc' = [pc EXCEPT ![c] = "close"]
           \/ pc[c] = "close" /\ pc' = [pc EXCEPT ![c] = "free"]
           \/ pc[c] = "free" /\ pc' = [pc EXCEPT ![c] = "print"]
           \/ pc[c] = "print" /\ pc' = [pc EXCEPT ![c] = "gone"]
    BY <1>2, AcceptedAway DEF AcceptEnd, Goto, Recv, RecvFail, HandleSimple, StartSend,
       PubNoTopic, PubFind, SubNoTopic, SubEnter, SubAdd, WriteTree, UnsubNoTag, UnsubRemove,
       UnsubUnknown, UnsubDel, DeliverHit, Target, DeliverEnd, HandleReply, EndRequest,
       ReplyNoRoom, SendLock, SendRest, EndSend, SendError, SendFailed, DestroyRemove,
       DestroyUnsub, DestroyClose, DestroyFree, PrintTree
  <2> QED BY <1>0, <2>1 DEF Ended
<1>3. ASSUME AcceptFail PROVE pc'[d] \in Ended
  <2>1. pc' = pc
    BY <1>3 DEF AcceptFail
  <2> QED BY <1>0, <2>1 DEF Ended
<1> QED
  BY <1>1, <1>2, <1>3 DEF Next, Thread, Accept, Handler, Send, Destroy

\* What has been settled for a subscription stays so during the publication.
LEMMA DoneStays ==
    ASSUME TypeOK, ControlInv, Next, NEW c \in Conn, NEW s \in Subscription, Done(c, s),
           num'[c] = num[c], req'[c] = req[c]
    PROVE  Done(c, s)'
<1>0. s.conn \in Conn
  BY DEF Subscription
<1>1. CASE Skips(c, s)
  BY <1>1 DEF Done, Skips
<1>2. CASE peer[s.conn] = "closed"
  BY <1>0, <1>2, PeerStays DEF Done
<1>3. CASE pc[s.conn] \in Ended
  BY <1>0, <1>3, EndedStays DEF Done
<1>4. CASE Delivered(c, s)
  <2>1. PICK i \in 1..Len(wire[s.conn]) :
             wire[s.conn][i] = <<"rest", [op |-> "MSG", from |-> c, n |-> num[c], sub |-> s]>>
    BY <1>4 DEF Delivered
  <2>2. i \in 1..Len(wire'[s.conn]) /\ wire'[s.conn][i] = wire[s.conn][i]
    BY <1>0, PartsStay
  <2> QED BY <2>1, <2>2 DEF Delivered, Done
<1> QED BY <1>1, <1>2, <1>3, <1>4 DEF Done

\* A subscription leaves those pending when it is skipped, is sent the message,
\* or is found to be leaving.
LEMMA PublishStep ==
    ASSUME TypeOK, ControlInv, RequestInv, SendInv, SnapshotInv, TableInv, PublishInv, Next
    PROVE  PublishInv'
<1>0. /\ pc \in [Conn -> PC] /\ req \in [Conn -> Request] /\ num \in [Conn -> Nat]
      /\ frame \in [Conn -> Frame] /\ snapshot \in [Conn -> SUBSET Subscription]
      /\ pending \in [Conn -> SUBSET Subscription] /\ raced \in {"no", "now", "past"}
  BY DEF TypeOK
<1>d. \A c \in Conn, s \in Subscription :
        Done(c, s) /\ num'[c] = num[c] /\ req'[c] = req[c] => Done(c, s)'
  BY DoneStays
<1>1. ASSUME NEW c \in Conn, Peer(c) \/ (\E p \in Ptr : AcceptBegin(c, p)) \/ SendStale(c)
             \/ SendHeader(c)
      PROVE  PublishInv'
  <2>1. UNCHANGED <<req, num, frame, snapshot, pending, raced, pc>>
    BY <1>1 DEF Peer, Connect, Submit, PeerRead, Disconnect, ServerIdle, AcceptBegin, SendStale,
       SendHeader
  <2> QED BY <1>0, <2>1, <1>d DEF PublishInv, Published, Publishing, Sending
<1>2. ASSUME NEW c \in Conn, RecvFail(c) \/ PubNoTopic(c) \/ ReplyNoRoom(c) \/ DestroyUnsub(c)
             \/ DestroyClose(c) \/ DestroyFree(c) \/ PrintTree(c)
      PROVE  PublishInv'
  <2>1. /\ UNCHANGED <<req, num, frame, snapshot, pending, raced>>
        /\ pc[c] \notin {"lock", "write", "deliver"}
        /\ \E l \in PC \ {"deliver", "reply", "lock", "write"} : pc' = [pc EXCEPT ![c] = l]
    BY <1>2 DEF RecvFail, Goto, PubNoTopic, ReplyNoRoom, DestroyUnsub, WriteTree, DestroyClose,
       DestroyFree, PrintTree, PC
  <2> QED BY <1>0, <2>1, <1>d DEF PublishInv, Published, Publishing, Sending
<1>3. ASSUME NEW c \in Conn, AcceptEnd(c) PROVE PublishInv'
  <2>1. /\ pc[c] = "away" /\ accepting = c /\ pc' = [pc EXCEPT ![c] = "loop"]
        /\ (raced' = "no" => raced = "no")
        /\ UNCHANGED <<req, num, frame, snapshot, pending>>
    BY <1>3, AcceptedAway DEF AcceptEnd, Goto
  <2> QED BY <1>0, <2>1, <1>d DEF PublishInv, Published, Publishing, Sending
<1>4. ASSUME NEW c \in Conn, AcceptNoThread(c) PROVE PublishInv'
  <2>1. /\ accepting = c /\ pc' = pc /\ (raced' = "no" => raced = "no")
        /\ UNCHANGED <<req, num, frame, snapshot, pending>>
    BY <1>4 DEF AcceptNoThread
  <2> QED BY <1>0, <2>1, <1>d DEF PublishInv, Published, Publishing, Sending
<1>5. ASSUME NEW c \in Conn, TableCrash(c) PROVE PublishInv'
  <2>1. /\ pc' = pc /\ raced' = "past"
        /\ UNCHANGED <<req, num, frame, snapshot, pending>>
    BY <1>5 DEF TableCrash
  <2> QED BY <1>0, <2>1, <1>d DEF PublishInv, Published, Publishing, Sending
<1>6. ASSUME NEW c \in Conn, Recv(c) PROVE PublishInv'
  <2>1. /\ pc[c] = "loop" /\ in[c] # <<>> /\ pc' = [pc EXCEPT ![c] = "handle"]
        /\ req' = [req EXCEPT ![c] = Head(in[c])] /\ num' = [num EXCEPT ![c] = @ + 1]
        /\ UNCHANGED <<frame, snapshot, pending, raced>>
    BY <1>6 DEF Recv, Goto
  <2> QED BY <1>0, <2>1, <1>d DEF PublishInv, Published, Publishing, Sending
<1>7. ASSUME NEW c \in Conn, HandleSimple(c) PROVE PublishInv'
  <2>1. /\ pc[c] = "handle" /\ req[c].op \in {"CONNECT", "NOOP"}
        /\ pc' = [pc EXCEPT ![c] = "lock"]
        /\ frame' = [frame EXCEPT ![c] = Reply(c, IF req[c].op = "CONNECT" THEN "INFO" ELSE "NOOP")]
        /\ UNCHANGED <<req, num, snapshot, pending, raced>>
    BY <1>7 DEF HandleSimple, StartSend, Goto
  <2> QED BY <1>0, <2>1, <1>d DEF PublishInv, Published, Publishing, Sending, Reply
<1>8. ASSUME NEW c \in Conn, PubFind(c) PROVE PublishInv'
  <2>1. /\ pc[c] = "handle" /\ req[c].op = "PUB" /\ req[c].topic # NONE
        /\ pc' = [pc EXCEPT ![c] = "deliver"] /\ snapshot' = [snapshot EXCEPT ![c] = Found(c)]
        /\ pending' = [pending EXCEPT ![c] = Found(c)]
        /\ UNCHANGED <<req, num, frame, raced>>
    BY <1>8 DEF PubFind, Goto, Found
  <2> QED BY <1>0, <2>1, <1>d DEF PublishInv, Published, Publishing, Sending
<1>9. ASSUME NEW c \in Conn, SubNoTopic(c) PROVE PublishInv'
  <2>1. /\ pc[c] = "handle" /\ req[c].op \in {"SUB", "UNSUB"}
        /\ pc' = [pc EXCEPT ![c] = "reply"]
        /\ UNCHANGED <<req, num, frame, snapshot, pending, raced>>
    BY <1>9 DEF SubNoTopic, Goto
  <2> QED BY <1>0, <2>1, <1>d DEF PublishInv, Published, Publishing, Sending
<1>10. ASSUME NEW c \in Conn, SubEnter(c) /\ Entries(c) # {} PROVE PublishInv'
  <2>1. /\ pc[c] = "handle" /\ req[c].op = "SUB" /\ pc' = [pc EXCEPT ![c] = "reply"]
        /\ UNCHANGED <<req, num, frame, snapshot, pending, raced>>
    BY <1>10 DEF SubEnter, Goto
  <2> QED BY <1>0, <2>1, <1>d DEF PublishInv, Published, Publishing, Sending
<1>11. ASSUME NEW c \in Conn, SubEnter(c) /\ Entries(c) = {} PROVE PublishInv'
  <2>1. /\ pc[c] = "handle" /\ req[c].op = "SUB" /\ req[c].topic # NONE
        /\ pc' = [pc EXCEPT ![c] = "add"]
        /\ UNCHANGED <<req, num, frame, snapshot, pending, raced>>
    BY <1>11 DEF SubEnter, Goto
  <2> QED BY <1>0, <2>1, <1>d DEF PublishInv, Published, Publishing, Sending
<1>12. ASSUME NEW c \in Conn, SubAdd(c) PROVE PublishInv'
  <2>1. /\ pc[c] = "add" /\ req[c].op = "SUB" /\ pc' = [pc EXCEPT ![c] = "reply"]
        /\ UNCHANGED <<req, num, frame, snapshot, pending, raced>>
    BY <1>12 DEF SubAdd, WriteTree, Goto, RequestInv
  <2> QED BY <1>0, <2>1, <1>d DEF PublishInv, Published, Publishing, Sending
<1>13. ASSUME NEW c \in Conn, UnsubNoTag(c) PROVE PublishInv'
  <2>1. /\ pc[c] = "handle" /\ req[c].op = "UNSUB" /\ pc' = [pc EXCEPT ![c] = "reply"]
        /\ UNCHANGED <<req, num, frame, snapshot, pending, raced>>
    BY <1>13 DEF UnsubNoTag, Goto
  <2> QED BY <1>0, <2>1, <1>d DEF PublishInv, Published, Publishing, Sending
<1>14. ASSUME NEW c \in Conn, UnsubRemove(c) /\ Entries(c) # {} PROVE PublishInv'
  <2>1. /\ pc[c] = "handle" /\ req[c].op = "UNSUB" /\ req[c].topic # NONE
        /\ pc' = [pc EXCEPT ![c] = "del"]
        /\ pending' = [pending EXCEPT ![c] =
                      {[conn |-> c, topic |-> key[1], tag |-> key[2]] : key \in Entries(c)}]
        /\ UNCHANGED <<req, num, frame, snapshot, raced>>
    BY <1>14 DEF UnsubRemove, Goto
  <2> QED BY <1>0, <2>1, <1>d DEF PublishInv, Published, Publishing, Sending
<1>15. ASSUME NEW c \in Conn, UnsubRemove(c) /\ Entries(c) = {} PROVE PublishInv'
  <2>1. /\ pc[c] = "handle" /\ req[c].op = "UNSUB" /\ pc' = [pc EXCEPT ![c] = "reply"]
        /\ UNCHANGED <<req, num, frame, snapshot, pending, raced>>
    BY <1>15 DEF UnsubRemove, UnsubUnknown, Goto
  <2> QED BY <1>0, <2>1, <1>d DEF PublishInv, Published, Publishing, Sending
<1>16. ASSUME NEW c \in Conn, UnsubDel(c) PROVE PublishInv'
  <2>1. /\ pc[c] = "del" /\ req[c].op = "UNSUB" /\ pc' = [pc EXCEPT ![c] = "reply"]
        /\ pending' = [pending EXCEPT ![c] = {}]
        /\ UNCHANGED <<req, num, frame, snapshot, raced>>
    BY <1>16 DEF UnsubDel, WriteTree, Goto, RequestInv
  <2> QED BY <1>0, <2>1, <1>d DEF PublishInv, Published, Publishing, Sending
<1>17. ASSUME NEW c \in Conn, NEW s \in pending[c], DeliverSkip(c, s)
      PROVE  PublishInv'
  <2>1. /\ pc[c] = "deliver" /\ s \in pending[c] /\ Skips(c, s) /\ pc' = pc
        /\ pending' = [pending EXCEPT ![c] = @ \ {s}]
        /\ UNCHANGED <<req, num, frame, snapshot, raced>>
    BY <1>17 DEF DeliverSkip
  <2>2. Done(c, s)
    BY <2>1 DEF Done
  <2> QED BY <1>0, <2>1, <2>2, <1>d DEF PublishInv, Published, Publishing, Sending
<1>18. ASSUME NEW c \in Conn, NEW s \in pending[c], DeliverNoRoom(c, s)
      PROVE  PublishInv'
  <2>1. /\ pc[c] = "deliver" /\ s \in pending[c] /\ ~Skips(c, s) /\ req[c].room # "all"
        /\ pc' = pc /\ pending' = [pending EXCEPT ![c] = @ \ {s}]
        /\ (raced' = "no" => raced = "no")
        /\ UNCHANGED <<req, num, frame, snapshot>>
    BY <1>18 DEF DeliverNoRoom, RacedRead
  <2> QED BY <1>0, <2>1, <1>d DEF PublishInv, Published, Publishing, Sending
<1>19. ASSUME NEW c \in Conn, NEW s \in pending[c], DeliverMiss(c, s)
      PROVE  PublishInv'
  <2>1. /\ pc[c] = "deliver" /\ s \in pending[c] /\ ~Skips(c, s)
        /\ (Target(s) \subseteq Closed \/ accepting # NONE) /\ pc' = pc
        /\ pending' = [pending EXCEPT ![c] = @ \ {s}] /\ (raced' = "no" => raced = "no")
        /\ UNCHANGED <<req, num, frame, snapshot>>
    BY <1>19 DEF DeliverMiss, RacedRead
  <2>2. raced' = "no" => accepting = NONE /\ raced = "no"
    BY <1>19 DEF DeliverMiss, RacedRead
  <2>3. s.conn \in Conn /\ pc[s.conn] # "away"
    BY <1>0, <2>1 DEF SnapshotInv, Subscription
  <2>4. raced' = "no" => Done(c, s)
    <3>1. CASE s.conn \in table /\ raced' = "no"
      <4>1. s.conn \in isClose
        BY <2>1, <2>2, <3>1 DEF Target, Closed
      <4> QED BY <4>1 DEF ControlInv, Done
    <3>2. CASE s.conn \notin table /\ raced' = "no"
      BY <1>0, <2>2, <2>3, <3>2 DEF TableInv, Served, Ended, PC, Done
    <3> QED BY <3>1, <3>2
  <2> QED BY <1>0, <2>1, <2>4, <1>d DEF PublishInv, Published, Publishing, Sending
<1>20. ASSUME NEW c \in Conn, NEW s \in pending[c], DeliverHit(c, s)
      PROVE  PublishInv'
  <2>1. /\ pc[c] = "deliver" /\ s \in pending[c] /\ ~Skips(c, s) /\ s.conn \in table \ Closed
        /\ pc' = [pc EXCEPT ![c] = "lock"]
        /\ frame' = [frame EXCEPT ![c] = [op |-> "MSG", from |-> c, n |-> num[c], sub |-> s]]
        /\ pending' = [pending EXCEPT ![c] = @ \ {s}] /\ (raced' = "no" => raced = "no")
        /\ UNCHANGED <<req, num, snapshot>>
    BY <1>20 DEF DeliverHit, StartSend, Target, Goto, RacedRead
  <2> QED BY <1>0, <2>1, <1>d DEF PublishInv, Published, Publishing, Sending
<1>21. ASSUME NEW c \in Conn, DeliverEnd(c) PROVE PublishInv'
  <2>1. /\ pc[c] = "deliver" /\ pending[c] = {} /\ pc' = [pc EXCEPT ![c] = "reply"]
        /\ UNCHANGED <<req, num, frame, snapshot, pending, raced>>
    BY <1>21 DEF DeliverEnd, Goto
  <2> QED BY <1>0, <2>1, <1>d DEF PublishInv, Published, Publishing, Sending
<1>22. ASSUME NEW c \in Conn, HandleReply(c) /\ req[c].ack PROVE PublishInv'
  <2>1. /\ pc[c] = "reply" /\ req[c].ack /\ pc' = [pc EXCEPT ![c] = "lock"]
        /\ frame' = [frame EXCEPT ![c] = Reply(c, status[c])]
        /\ UNCHANGED <<req, num, snapshot, pending, raced>>
    BY <1>22 DEF HandleReply, StartSend, Goto
  <2> QED BY <1>0, <2>1, <1>d DEF PublishInv, Published, Publishing, Sending, Reply
<1>23. ASSUME NEW c \in Conn, HandleReply(c) /\ ~req[c].ack PROVE PublishInv'
  <2>1. /\ pc[c] = "reply" /\ pc' = [pc EXCEPT ![c] = "loop"]
        /\ req' = [req EXCEPT ![c] = NoRequest] /\ snapshot' = [snapshot EXCEPT ![c] = {}]
        /\ UNCHANGED <<num, frame, pending, raced>>
    BY <1>23 DEF HandleReply, EndRequest, Goto
  <2> QED BY <1>0, <2>1, <1>d DEF PublishInv, Published, Publishing, Sending
<1>24. ASSUME NEW c \in Conn, SendLock(c) PROVE PublishInv'
  <2>1. /\ pc[c] = "lock" /\ mutex[to[c]] = NONE /\ pc' = [pc EXCEPT ![c] = "write"]
        /\ UNCHANGED <<req, num, frame, snapshot, pending, raced>>
    BY <1>24 DEF SendLock, Goto
  <2> QED BY <1>0, <2>1, <1>d DEF PublishInv, Published, Publishing, Sending
<1>25. ASSUME NEW c \in Conn, SendRest(c) /\ frame[c].op = "MSG" PROVE PublishInv'
  <2>1. /\ pc[c] = "write" /\ part[c] = 1 /\ to[c] \notin isClose /\ frame[c].op = "MSG"
        /\ pc' = [pc EXCEPT ![c] = "deliver"] /\ frame' = [frame EXCEPT ![c] = NoFrame(c)]
        /\ UNCHANGED <<req, num, snapshot, pending, raced>>
    BY <1>25 DEF SendRest, EndSend, Goto
  <2>2. /\ to[c] = frame[c].sub.conn /\ frame[c].sub \in Subscription
        /\ frame[c] = [op |-> "MSG", from |-> c, n |-> num[c], sub |-> frame[c].sub]
    <3>1. frame[c].sub \in snapshot[c] /\ frame[c].from = c /\ frame[c].n = num[c]
          /\ to[c] = frame[c].sub.conn
      BY <2>1 DEF SendInv, Sending
    <3>2. frame[c] \in Frame
      BY <1>0
    <3> QED BY <1>0, <2>1, <3>1, <3>2 DEF Frame
  <2>3. \A s \in Subscription : frame[c].sub = s => Delivered(c, s)'
    <3>1. /\ wire'[to[c]][Len(wire[to[c]]) + 1] = <<"rest", frame[c]>>
          /\ Len(wire[to[c]]) \in Nat /\ Len(wire'[to[c]]) = Len(wire[to[c]]) + 1
      BY <1>25, Written DEF SendRest
    <3>2. Len(wire[to[c]]) + 1 \in 1..Len(wire'[to[c]])
      BY <3>1
    <3> QED BY <1>0, <2>1, <2>2, <3>1, <3>2 DEF Delivered
  <2>4. \A s \in Subscription : frame[c].sub = s => Done(c, s)'
    BY <2>3 DEF Done
  <2> QED BY <1>0, <2>1, <2>4, <1>d DEF PublishInv, Published, Publishing, Sending
<1>26. ASSUME NEW c \in Conn, SendRest(c) /\ frame[c].op # "MSG" PROVE PublishInv'
  <2>1. /\ pc[c] = "write" /\ part[c] = 1 /\ to[c] \notin isClose /\ frame[c].op # "MSG"
        /\ pc' = [pc EXCEPT ![c] = "loop"] /\ req' = [req EXCEPT ![c] = NoRequest]
        /\ frame' = [frame EXCEPT ![c] = NoFrame(c)] /\ snapshot' = [snapshot EXCEPT ![c] = {}]
        /\ UNCHANGED <<num, pending, raced>>
    BY <1>26 DEF SendRest, EndSend, EndRequest, Goto
  <2> QED BY <1>0, <2>1, <1>d DEF PublishInv, Published, Publishing, Sending
<1>27. ASSUME NEW c \in Conn, SendError(c) /\ frame[c].op = "MSG" PROVE PublishInv'
  <2>1. /\ pc[c] = "write" /\ peer[to[c]] = "closed" /\ frame[c].op = "MSG"
        /\ pc' = [pc EXCEPT ![c] = "deliver"] /\ frame' = [frame EXCEPT ![c] = NoFrame(c)]
        /\ UNCHANGED <<req, num, snapshot, pending, raced>>
    BY <1>27 DEF SendError, SendFailed, EndSend, Goto
  <2>2. \A s \in Subscription : frame[c].sub = s => Done(c, s)
    BY <2>1 DEF SendInv, Sending, Done
  <2> QED BY <1>0, <2>1, <2>2, <1>d DEF PublishInv, Published, Publishing, Sending
<1>28. ASSUME NEW c \in Conn, SendError(c) /\ frame[c].op # "MSG" PROVE PublishInv'
  <2>1. /\ pc[c] = "write" /\ peer[to[c]] = "closed" /\ frame[c].op # "MSG"
        /\ pc' = [pc EXCEPT ![c] = "destroy"] /\ frame' = [frame EXCEPT ![c] = NoFrame(c)]
        /\ UNCHANGED <<req, num, snapshot, pending, raced>>
    BY <1>28 DEF SendError, SendFailed, EndSend, Goto
  <2> QED BY <1>0, <2>1, <1>d DEF PublishInv, Published, Publishing, Sending
<1>29. ASSUME NEW c \in Conn, DestroyRemove(c) PROVE PublishInv'
  <2>1. /\ pc[c] = "destroy" /\ CliReaders = {} /\ pc' = [pc EXCEPT ![c] = "unsub_all"]
        /\ (raced' = "no" => raced = "no")
        /\ UNCHANGED <<req, num, frame, snapshot, pending>>
    BY <1>29 DEF DestroyRemove, Goto, RacedWrite
  <2> QED BY <1>0, <2>1, <1>d DEF PublishInv, Published, Publishing, Sending
<1>30. ASSUME AcceptFail PROVE PublishInv'
  <2>1. UNCHANGED <<req, num, frame, snapshot, pending, raced, pc>>
    BY <1>30 DEF AcceptFail
  <2> QED BY <1>0, <2>1, <1>d DEF PublishInv, Published, Publishing, Sending
<1> QED
  BY <1>1, <1>2, <1>3, <1>4, <1>5, <1>6, <1>7, <1>8, <1>9, <1>10, <1>11, <1>12, <1>13, <1>14,
     <1>15, <1>16, <1>17, <1>18, <1>19, <1>20, <1>21, <1>22, <1>23, <1>24, <1>25, <1>26, <1>27,
     <1>28, <1>29, <1>30 DEF Next, Thread, Accept, Handler, Send, Destroy

-----------------------------------------------------------------------------
(***************************************************************************)
(* The whole inductive invariant, and the theorems that follow from it.    *)
(* (ServerSteps has the parts that are about the broker's own state.)      *)
(***************************************************************************)
\* The broker starts without connections, subscriptions and frames.
LEMMA InitInv == Init => ServerInv
<1> SUFFICES ASSUME Init PROVE ServerInv
  OBVIOUS
<1>1. \A c \in Conn : Len(wire[c]) = 0 /\ wire[c] = <<>>
  BY DEF Init
<1>2. TypeOK
  <2>1. NoRequest \in Request /\ \A c \in Conn : NoFrame(c) \in Frame
    BY Constructed
  <2>2. "away" \in PC
    BY DEF PC
  <2> QED BY <2>1, <2>2, ServerAssumption DEF Init, TypeOK
<1>3. ControlInv /\ KeysInv /\ RemovalInv /\ NamedInv /\ TreeInv /\ RequestInv /\ SnapshotInv
  BY DEF Init, ControlInv, KeysInv, RemovalInv, NamedInv, TreeInv, RequestInv, SnapshotInv, Sending
<1>4. SendInv
  BY DEF Init, SendInv, Sending
<1>5. MutexInv
  BY ServerAssumption DEF Init, MutexInv
<1>6. TableInv
  BY DEF Init, TableInv, CliReaders, Served
<1>7. NumberInv /\ RightAddressee
  BY <1>1 DEF NumberInv, RightAddressee
<1>8. \A c \in Conn : InOrder(wire[c])
  BY <1>1 DEF InOrder
<1>9. WholeInv
  BY <1>1, Parity DEF Init, WholeInv, WholeAt, Whole
<1>10. PublishInv
  BY DEF Init, PublishInv, Published, Publishing
<1> QED
  BY <1>2, <1>3, <1>4, <1>5, <1>6, <1>7, <1>8, <1>9, <1>10 DEF ServerInv

\* Every operation of the broker keeps every part.
LEMMA NextInv == ServerInv /\ [Next]_vars => ServerInv'
<1>1. ASSUME ServerInv, Next PROVE ServerInv'
  <2>1. TypeOK' /\ ControlInv' /\ KeysInv'
    BY <1>1, TypeStep, ControlStep, KeysStep DEF ServerInv
  <2>2. RemovalInv' /\ NamedInv' /\ TreeInv' /\ RequestInv' /\ SendInv'
    BY <1>1, RemovalStep, NamedStep, TreeStep, RequestStep, SendStep DEF ServerInv
  <2>3. MutexInv' /\ SnapshotInv' /\ TableInv'
    BY <1>1, MutexStep, SnapshotStep, TableStep DEF ServerInv
  <2>4. NumberInv' /\ WholeInv' /\ PublishInv'
    BY <1>1, NumberStep, WholeStep, PublishStep DEF ServerInv
  <2>5. RightAddressee' /\ (\A c \in Conn : InOrder(wire'[c]))
    BY <1>1, AddresseeStep, OrderStep DEF ServerInv
  <2> QED BY <2>1, <2>2, <2>3, <2>4, <2>5 DEF ServerInv
<1>2. ASSUME ServerInv, UNCHANGED vars PROVE ServerInv'
  <2>1. TypeOK'
    BY <1>2 DEF ServerInv, vars, TypeOK
  <2>6. ControlInv' /\ KeysInv' /\ RemovalInv' /\ NamedInv'
    BY <1>2 DEF ServerInv, vars, ControlInv, KeysInv, RemovalInv, NamedInv
  <2>7. TreeInv' /\ RequestInv'
    BY <1>2 DEF ServerInv, vars, TreeInv, RequestInv, Sending
  <2>2. SendInv' /\ MutexInv' /\ SnapshotInv' /\ TableInv'
    BY <1>2 DEF ServerInv, vars, SendInv, MutexInv, SnapshotInv, TableInv, Sending, Skips,
       CliReaders, Served
  <2>3. NumberInv'
    BY <1>2, SMTT(60) DEF ServerInv, vars, NumberInv, Numbered, Unsent, Sending
  <2>8. WholeInv'
    BY <1>2 DEF ServerInv, vars, WholeInv, WholeAt
  <2>4. PublishInv'
    BY <1>2, ZenonT(60) DEF ServerInv, vars, PublishInv, Published, Publishing, Done, Delivered, Sending, Skips
  <2>5. RightAddressee' /\ (\A c \in Conn : InOrder(wire'[c]))
    BY <1>2 DEF ServerInv, vars, RightAddressee
  <2> QED BY <2>1, <2>2, <2>3, <2>4, <2>5, <2>6, <2>7, <2>8 DEF ServerInv
<1> QED BY <1>1, <1>2

\* The conjunction of the parts is an invariant.
LEMMA Inductive == Spec => []ServerInv
  BY InitInv, NextInv, PTL DEF Spec

\* Whoever sends, sends to a client that is still served, or is its own; so a
\* client that has been freed is not sent to and has no mutex, entry or
\* subscription left.
LEMMA FreedIsUnused == ServerInv => NoUseAfterFree
<1> SUFFICES ASSUME ServerInv, raced = "no" PROVE NoUseAfterFree
  BY DEF NoUseAfterFree
<1>0. /\ mutex \in [Conn -> Conn \cup {NONE}] /\ to \in [Conn -> Conn] /\ freed \in SUBSET Conn
      /\ registered \in SUBSET Subscription
  BY DEF ServerInv, TypeOK
<1>1. ASSUME NEW c \in Conn, pc[c] \in {"lock", "write"} PROVE to[c] \notin isClose
  <2>1. CASE frame[c].op = "MSG"
    <3>1. to[c] \in table
      BY <1>1, <2>1 DEF ServerInv, TableInv, CliReaders
    <3>2. pc[to[c]] \in Served \cup {"away"}
      BY <3>1 DEF ServerInv, TableInv
    <3> QED BY <1>0, <3>2 DEF ServerInv, ControlInv, Served
  <2>2. CASE frame[c].op # "MSG"
    <3>1. to[c] = c
      BY <1>1, <2>2 DEF ServerInv, SendInv, Sending
    <3> QED BY <1>1, <3>1 DEF ServerInv, ControlInv
  <2> QED BY <2>1, <2>2
<1>2. ASSUME NEW c \in freed
      PROVE  /\ c \notin table /\ mutex[c] = NONE /\ subs[c] = {}
             /\ \A s \in registered : s.conn # c
  <2>1. c \in Conn /\ pc[c] \in {"print", "gone"} /\ c \in isClose
    BY <1>0, <1>2 DEF ServerInv, ControlInv
  <2>2. c \notin table
    BY <2>1 DEF ServerInv, TableInv, Served
  <2>3. mutex[c] = NONE
    BY <1>0, <1>1, <2>1 DEF ServerInv, MutexInv
  <2>4. subs[c] = {}
    BY <2>1 DEF ServerInv, KeysInv
  <2>5. \A s \in registered : s.conn # c
    BY <2>1, <2>4 DEF ServerInv, TreeInv
  <2> QED BY <2>2, <2>3, <2>4, <2>5
<1> QED BY <1>1, <1>2 DEF NoUseAfterFree

\* Outside the two-step updates of client__sub0 and client__unsub0 the tree and
\* the clients' own tables agree.
LEMMA Agreement == ServerInv => TablesAgree
<1> SUFFICES ASSUME ServerInv, NEW c \in Conn, pc[c] \notin {"add", "del"},
                    NEW t \in Topic, NEW g \in Tag
             PROVE  [conn |-> c, topic |-> t, tag |-> g] \in registered
                       <=> <<t, g>> \in subs[c] /\ t \in ValidTopic
  BY DEF TablesAgree
<1>1. ASSUME [conn |-> c, topic |-> t, tag |-> g] \in registered
      PROVE  <<t, g>> \in subs[c] /\ t \in ValidTopic
  BY <1>1 DEF ServerInv, TreeInv
<1>2. ASSUME <<t, g>> \in subs[c], t \in ValidTopic
      PROVE  [conn |-> c, topic |-> t, tag |-> g] \in registered
  BY <1>2 DEF ServerInv, TreeInv
<1> QED BY <1>1, <1>2

\* Replies are sent when nothing is pending any more.
LEMMA AckedIsDelivered == ServerInv => AckMeansDelivered
<1> SUFFICES ASSUME ServerInv, raced = "no", NEW c \in Conn, pc[c] \in {"lock", "write"},
                    req[c].op = "PUB", req[c].room = "all", frame[c].op = "OK",
                    NEW s \in snapshot[c]
             PROVE  Done(c, s)
  BY DEF AckMeansDelivered, Done, Ended
<1>1. pending[c] = {}
  BY DEF ServerInv, RequestInv
<1> QED BY <1>1 DEF ServerInv, PublishInv, Published, Publishing

\* Every variable of the broker keeps its type.
THEOREM TypeCorrect == Spec => []TypeOK
<1>1. ServerInv => TypeOK
  BY DEF ServerInv
<1> QED BY <1>1, Inductive, PTL

\* Without a race in broker__accept no client structure is used after
\* client__destroy, and a freed client has left nothing behind.
THEOREM NeverUsedAfterFree == Spec => []NoUseAfterFree
  BY Inductive, FreedIsUnused, PTL

\* The clients' tables of subscriptions and the topic tree agree whenever their
\* thread is not between the two updates.
THEOREM TablesAlwaysAgree == Spec => []TablesAgree
  BY Inductive, Agreement, PTL

\* Messages go only to the connection that subscribed and replies to the one that
\* asked.
THEOREM OnlyToAddressee == Spec => []RightAddressee
<1>1. ServerInv => RightAddressee
  BY DEF ServerInv
<1> QED BY <1>1, Inductive, PTL

\* Whatever threads write to a socket, the peer reads whole frames, in order and
\* none twice.
THEOREM WireIsWhole == Spec => []WireIntegrity
<1>1. ServerInv => WireIntegrity
  BY DEF ServerInv, WireIntegrity, WholeInv, WholeAt
<1> QED BY <1>1, Inductive, PTL

\* A publication that is answered with OK has reached everyone it was for.
THEOREM AckedMeansDelivered == Spec => []AckMeansDelivered
  BY Inductive, AckedIsDelivered, PTL

-----------------------------------------------------------------------------
(***************************************************************************)
(* The broker implements the service it promises: every step of Server,    *)
(* seen through the refinement mapping of Server's instance Promise, is a  *)
(* step of Service or leaves its variables unchanged.                      *)
(***************************************************************************)

USE DEF peerVars, sendVars, handlerVars, clientVars, brokerVars

\* A step of the service, or one its clients cannot see.
Maps == Promise!Next \/ UNCHANGED Promise!serviceVars

\* The initial states are those of the service.
LEMMA ServiceInit == Init => Promise!Init
<1> SUFFICES ASSUME Init PROVE Promise!Init
  OBVIOUS
<1>1. \A c \in Conn : StageOf(c) = "ready"
  BY DEF Init, StageOf
<1>2. \A c \in Conn : DueOf(c) = {}
  BY DEF Init, DueOf, NoFrame
<1>3. \A c \in Conn : DeliveredTo(c) = {}
  BY DEF Init, DeliveredTo
<1> QED
  BY <1>1, <1>2, <1>3 DEF Init, Promise!Init, Stage, Due, DeliveredFrames, Left, Broken

\* A thread changes the stage of its own connection, and what its own publication
\* is owed to.
LEMMA Views ==
    ASSUME NEW c \in Conn,
           \A d \in Conn : d # c => /\ pc'[d] = pc[d] /\ frame'[d] = frame[d]
                                    /\ pending'[d] = pending[d] /\ req'[d] = req[d]
    PROVE  /\ Stage' = [Stage EXCEPT ![c] = StageOf(c)'] /\ Stage[c] = StageOf(c)
           /\ Due' = [Due EXCEPT ![c] = DueOf(c)'] /\ Due[c] = DueOf(c)
           /\ StageOf(c)' = StageOf(c) => Stage' = Stage
           /\ DueOf(c)' = DueOf(c) => Due' = Due
<1>1. \A d \in Conn : d # c => StageOf(d)' = StageOf(d)
  BY DEF StageOf
<1>2. \A d \in Conn : d # c => DueOf(d)' = DueOf(d)
  BY DEF DueOf, Skips
<1> QED BY <1>1, <1>2 DEF Stage, Due

\* What the view is of has not changed.
LEMMA Same ==
    ASSUME UNCHANGED <<pc, frame, pending, req>>
    PROVE  UNCHANGED <<Stage, Due>>
<1>1. \A d \in Conn : StageOf(d)' = StageOf(d)
  BY DEF StageOf
<1>2. \A d \in Conn : DueOf(d)' = DueOf(d)
  BY DEF DueOf, Skips
<1> QED BY <1>1, <1>2 DEF Stage, Due

\* What is on the wire and which peers are there decide what they see.
LEMMA Kept ==
    /\ wire' = wire => DeliveredFrames' = DeliveredFrames
    /\ peer' = peer => Left' = Left
  BY DEF DeliveredFrames, DeliveredTo, Left

\* A step of the thread of c that its peer cannot tell from none.
LEMMA Stutter ==
    ASSUME NEW c \in Conn,
           \A d \in Conn : d # c => /\ pc'[d] = pc[d] /\ frame'[d] = frame[d]
                                    /\ pending'[d] = pending[d] /\ req'[d] = req[d],
           StageOf(c)' = StageOf(c), DueOf(c)' = DueOf(c),
           UNCHANGED <<req, num, status, registered, freed>>,
           DeliveredFrames' = DeliveredFrames, Left' = Left, Broken' = Broken
    PROVE  UNCHANGED Promise!serviceVars
<1>1. Stage' = Stage /\ Due' = Due
  BY Views
<1> QED BY <1>1 DEF Promise!serviceVars, Promise!requestVars

\* Once the table has been raced it counts as raced.
LEMMA NotRaced ==
    ASSUME TypeOK, Next, raced' = "no"
    PROVE  raced = "no"
<1>1. ASSUME NEW c \in Conn, AcceptEnd(c) \/ AcceptNoThread(c) \/ DestroyRemove(c) \/ TableCrash(c)
      PROVE  raced = "no"
  BY <1>1 DEF TypeOK, AcceptEnd, AcceptNoThread, DestroyRemove, TableCrash, RacedWrite
<1>2. ASSUME NEW c \in Conn, NEW s \in pending[c],
             DeliverNoRoom(c, s) \/ DeliverHit(c, s) \/ DeliverMiss(c, s)
      PROVE  raced = "no"
  BY <1>2 DEF TypeOK, DeliverNoRoom, DeliverHit, DeliverMiss, RacedRead
<1>3. ASSUME NEW c \in Conn, Peer(c) \/ (\E p \in Ptr : AcceptBegin(c, p)) \/ Recv(c) \/ RecvFail(c)
             \/ Send(c) \/ DestroyUnsub(c) \/ DestroyClose(c) \/ DestroyFree(c) \/ PrintTree(c)
             \/ HandleSimple(c) \/ PubNoTopic(c) \/ PubFind(c) \/ SubNoTopic(c) \/ SubEnter(c)
             \/ SubAdd(c) \/ UnsubNoTag(c) \/ UnsubRemove(c) \/ UnsubDel(c)
             \/ (\E s \in pending[c] : DeliverSkip(c, s)) \/ DeliverEnd(c) \/ HandleReply(c)
             \/ ReplyNoRoom(c)
      PROVE  raced = "no"
  BY <1>3 DEF Peer, ServerIdle, AcceptBegin, Recv, RecvFail, Send, SendLock, SendHeader,
     SendRest, SendError, SendStale, DestroyUnsub, DestroyClose, DestroyFree, PrintTree,
     HandleSimple, PubNoTopic, PubFind, SubNoTopic, SubEnter, SubAdd, UnsubNoTag, UnsubRemove,
     UnsubDel, DeliverSkip, DeliverEnd, HandleReply, ReplyNoRoom
<1>4. ASSUME AcceptFail PROVE raced = "no"
  BY <1>4 DEF AcceptFail
<1> QED
  BY <1>1, <1>2, <1>3, <1>4 DEF Next, Thread, Accept, Handler, Destroy

\* A header alone does not deliver a frame.
LEMMA HeaderDelivers ==
    ASSUME TypeOK, NEW c \in Conn, SendHeader(c)
    PROVE  DeliveredFrames' = DeliveredFrames
<1>1. wire' = [wire EXCEPT ![to[c]] = Append(@, <<"header", frame[c]>>)]
  BY DEF SendHeader
<1>2. ASSUME NEW d \in Conn PROVE DeliveredTo(d)' = DeliveredTo(d)
  <2>0. wire[d] \in Seq(Part) /\ wire'[d] \in Seq(Part)
    <3>1. wire \in [Conn -> Seq(Part)] /\ to[c] \in Conn /\ <<"header", frame[c]>> \in Part
      BY DEF TypeOK, Part
    <3> QED BY <1>1, <3>1, AppendProperties
  <2>1. DOMAIN wire[d] = 1..Len(wire[d]) /\ DOMAIN wire'[d] = 1..Len(wire'[d])
    BY <2>0, LenProperties
  <2>2. ASSUME NEW i \in DOMAIN wire'[d], wire'[d][i][1] = "rest"
        PROVE  i \in DOMAIN wire[d] /\ wire'[d][i] = wire[d][i]
    BY <1>1, <2>1, <2>2, OldOrNew
  <2>3. ASSUME NEW i \in DOMAIN wire[d]
        PROVE  i \in DOMAIN wire'[d] /\ wire'[d][i] = wire[d][i]
    BY <1>1, <2>1, <2>3, Grown
  <2> QED BY <2>2, <2>3 DEF DeliveredTo
<1> QED BY <1>2 DEF DeliveredFrames

\* The rest of a frame delivers it, for the first time, to a client that has not
\* been freed.
LEMMA RestDelivers ==
    ASSUME TypeOK, ControlInv, SendInv, NumberInv, NEW c \in Conn, SendRest(c)
    PROVE  /\ to[c] \notin freed /\ frame[c] \notin DeliveredFrames[to[c]]
           /\ DeliveredFrames' = [DeliveredFrames EXCEPT ![to[c]] = @ \cup {frame[c]}]
<1>1. /\ wire' = [wire EXCEPT ![to[c]] = Append(@, <<"rest", frame[c]>>)]
      /\ pc[c] = "write" /\ to[c] \notin isClose
  BY DEF SendRest
<1>2. to[c] \in Conn /\ wire \in [Conn -> Seq(Part)] /\ <<"rest", frame[c]>> \in Part
  BY DEF TypeOK, Part
<1>3. to[c] \notin freed
  BY <1>1, <1>2 DEF ControlInv
<1>4. \A d \in Conn : wire[d] \in Seq(Part) /\ wire'[d] \in Seq(Part)
  BY <1>1, <1>2, AppendProperties
<1>5. \A d \in Conn : DOMAIN wire[d] = 1..Len(wire[d]) /\ DOMAIN wire'[d] = 1..Len(wire'[d])
  BY <1>4, LenProperties
<1>6. frame[c] \notin DeliveredTo(to[c])
  <2> SUFFICES ASSUME NEW i \in DOMAIN wire[to[c]], wire[to[c]][i][1] = "rest",
                      wire[to[c]][i][2] = frame[c]
               PROVE  FALSE
    BY DEF DeliveredTo
  <2>1. Numbered(wire[to[c]][i]) /\ frame[c].from = c /\ frame[c].n = num[c]
    <3>1. Numbered(wire[to[c]][i])
      BY <1>2, <1>5 DEF NumberInv
    <3> QED BY <1>1, <3>1 DEF SendInv, Sending
  <2> QED BY <1>1, <2>1 DEF Numbered, Unsent, Sending
<1>7. ASSUME NEW d \in Conn, d # to[c] PROVE DeliveredTo(d)' = DeliveredTo(d)
  <2>1. wire'[d] = wire[d]
    BY <1>1, <1>7, Written
  <2> QED BY <2>1 DEF DeliveredTo
<1>8. ASSUME NEW d \in Conn, d = to[c] PROVE DeliveredTo(d)' = DeliveredTo(d) \cup {frame[c]}
  <2>1. ASSUME NEW i \in DOMAIN wire'[d]
        PROVE  \/ i \in DOMAIN wire[d] /\ wire'[d][i] = wire[d][i]
               \/ wire'[d][i] = <<"rest", frame[c]>>
    BY <1>1, <1>5, <2>1, OldOrNew
  <2>2. ASSUME NEW i \in DOMAIN wire[d]
        PROVE  i \in DOMAIN wire'[d] /\ wire'[d][i] = wire[d][i]
    BY <1>1, <1>5, <2>2, Grown
  <2>3. \E i \in DOMAIN wire'[d] : wire'[d][i] = <<"rest", frame[c]>>
    <3>1. /\ Len(wire'[d]) = Len(wire[d]) + 1 /\ Len(wire[d]) \in Nat
          /\ wire'[d][Len(wire[d]) + 1] = <<"rest", frame[c]>>
      BY <1>1, <1>8, Written
    <3>2. Len(wire[d]) + 1 \in DOMAIN wire'[d]
      BY <1>5, <3>1
    <3> QED BY <3>1, <3>2
  <2> QED BY <2>1, <2>2, <2>3 DEF DeliveredTo
<1> QED BY <1>2, <1>3, <1>6, <1>7, <1>8 DEF DeliveredFrames

\* A thread that is not sending has no frame in hand.
LEMMA IdleFrame ==
    ASSUME SendInv, NEW c \in Conn, ~Sending(c)
    PROVE  frame[c].op = "NOOP"
<1>1. frame[c] = NoFrame(c)
  BY DEF SendInv
<1> QED BY <1>1 DEF NoFrame

\* Every step of the broker is a step of the service or leaves all a program
\* can tell of it as it was.
LEMMA ServiceStep ==
    ASSUME ServerInv, ~Broken', Next
    PROVE  Maps
<1>0. /\ pc \in [Conn -> PC] /\ frame \in [Conn -> Frame]
      /\ pending \in [Conn -> SUBSET Subscription] /\ req \in [Conn -> Request]
      /\ status \in [Conn -> {"OK", "ERR"}] /\ num \in [Conn -> Nat]
      /\ snapshot \in [Conn -> SUBSET Subscription] /\ registered \in SUBSET Subscription
      /\ peer \in [Conn -> {"away", "backlog", "open", "closed"}] /\ to \in [Conn -> Conn]
      /\ wire \in [Conn -> Seq(Part)]
  BY DEF ServerInv, TypeOK
<1>i. TypeOK /\ ControlInv /\ KeysInv /\ RemovalInv /\ NamedInv /\ TreeInv
      /\ RequestInv /\ SendInv /\ SnapshotInv /\ TableInv /\ NumberInv
  BY DEF ServerInv
<1>q. \A c \in Conn : ~Sending(c) => frame[c].op = "NOOP"
  BY <1>i, IdleFrame
<1>r. raced = "no" /\ raced' = "no"
  BY <1>i, NotRaced DEF Broken
<1>b. ~Broken /\ Broken' = Broken
  BY <1>r DEF Broken, Next, Thread, Accept
<1>1. ASSUME NEW c \in Conn, Peer(c) PROVE Maps
  <2>1. /\ pc' = pc
        /\ UNCHANGED <<frame, pending, req, num, status, registered, freed, wire>>
    BY <1>1 DEF Peer, Connect, Submit, PeerRead, Disconnect, ServerIdle
  <2>2. UNCHANGED <<Stage, Due, DeliveredFrames>>
    BY <2>1, Kept, Same
  <2>3. CASE Disconnect(c)
    <3>1. Left' = Left \cup {c}
      BY <1>0, <2>3 DEF Disconnect, Left
    <3> QED BY <1>b, <2>1, <2>2, <3>1
               DEF Maps, Promise!Next, Promise!PeerLeaves, Promise!requestVars
  <2>4. CASE ~Disconnect(c)
    <3>1. Left' = Left
      BY <1>1, <1>0, <2>4 DEF Peer, Connect, Submit, PeerRead, Left
    <3> QED BY <1>b, <2>1, <2>2, <3>1 DEF Maps, Promise!serviceVars, Promise!requestVars
  <2> QED BY <2>3, <2>4
<1>2. ASSUME NEW c \in Conn, \E p \in Ptr : AcceptBegin(c, p) PROVE Maps
  <2>1. /\ accepting = NONE /\ pc' = pc
        /\ peer' = [peer EXCEPT ![c] = IF @ = "backlog" THEN "open" ELSE @]
        /\ UNCHANGED <<frame, pending, req, num, status, registered, freed, wire>>
    BY <1>2 DEF AcceptBegin
  <2>2. Left' = Left
    BY <1>0, <2>1 DEF Left
  <2>3. UNCHANGED <<Stage, Due, DeliveredFrames>>
    BY <2>1, Kept, Same
  <2> QED BY <1>b, <2>1, <2>2, <2>3 DEF Maps, Promise!serviceVars, Promise!requestVars
<1>3. ASSUME NEW c \in Conn, AcceptEnd(c) PROVE Maps
  <2>1. /\ pc[c] = "away" /\ accepting = c /\ pc' = [pc EXCEPT ![c] = "loop"]
        /\ UNCHANGED <<frame, pending, req, num, status, registered, freed, wire, peer>>
    BY <1>3, AcceptedAway, <1>i DEF AcceptEnd, Goto
  <2>2. StageOf(c) = "ready" /\ StageOf(c)' = "ready"
    BY <1>0, <2>1 DEF StageOf
  <2>3. DueOf(c) = {} /\ DueOf(c)' = {}
    BY <1>0, <1>q, <2>1 DEF DueOf, Sending
  <2>4. DeliveredFrames' = DeliveredFrames /\ Left' = Left
    BY <2>1, Kept
  <2> QED BY <1>0, <1>b, <2>1, <2>2, <2>3, <2>4, Stutter DEF Maps
<1>4. ASSUME NEW c \in Conn, AcceptNoThread(c) PROVE Maps
  <2>1. /\ accepting = c /\ pc' = pc
        /\ UNCHANGED <<frame, pending, req, num, status, registered, freed, wire, peer>>
    BY <1>4 DEF AcceptNoThread
  <2>2. UNCHANGED <<Stage, Due, DeliveredFrames, Left>>
    BY <2>1, Kept, Same
  <2> QED BY <1>b, <2>1, <2>2 DEF Maps, Promise!serviceVars, Promise!requestVars
<1>5. ASSUME NEW c \in Conn, SendStale(c) PROVE Maps
  <2>1. /\ pc' = pc
        /\ UNCHANGED <<frame, pending, req, num, status, registered, freed, wire, peer>>
    BY <1>5 DEF SendStale
  <2> QED BY <1>5 DEF SendStale, TableCrash, Broken
<1>6. ASSUME NEW c \in Conn, TableCrash(c) PROVE Maps
  <2>1. /\ pc' = pc
        /\ UNCHANGED <<frame, pending, req, num, status, registered, freed, wire, peer>>
    BY <1>6 DEF TableCrash
  <2> QED BY <1>6 DEF SendStale, TableCrash, Broken
<1>7. ASSUME NEW c \in Conn, Recv(c) PROVE Maps
  <2>1. /\ pc[c] = "loop" /\ in[c] # <<>> /\ pc' = [pc EXCEPT ![c] = "handle"]
        /\ req' = [req EXCEPT ![c] = Head(in[c])] /\ num' = [num EXCEPT ![c] = @ + 1]
        /\ UNCHANGED <<frame, pending, status, registered, freed, wire, peer>>
    BY <1>7 DEF Recv, Goto
  <2>2. StageOf(c) = "ready" /\ StageOf(c)' = "asked"
    BY <1>0, <2>1 DEF StageOf
  <2>3. DueOf(c) = {} /\ DueOf(c)' = {}
    BY <1>0, <1>q, <2>1 DEF DueOf, Sending
  <2>4. DeliveredFrames' = DeliveredFrames /\ Left' = Left
    BY <2>1, Kept
  <2>5. /\ Stage' = [Stage EXCEPT ![c] = "asked"] /\ Due' = Due
        /\ Stage[c] = "ready" /\ Due[c] = DueOf(c)
    BY <1>0, <2>1, <2>2, <2>3, Views
  <2>6. Head(in[c]) \in Request
    BY <1>i, <2>1 DEF TypeOK
  <2>9. Promise!Begin(c)
    BY <1>0, <1>b, <2>1, <2>3, <2>4, <2>5, <2>6 DEF Promise!Begin, Promise!requestVars
  <2> QED BY <2>9 DEF Maps, Promise!Next
<1>8. ASSUME NEW c \in Conn, RecvFail(c) PROVE Maps
  <2>1. /\ pc[c] = "loop" /\ pc' = [pc EXCEPT ![c] = "destroy"]
        /\ UNCHANGED <<frame, pending, req, num, status, registered, freed, wire, peer>>
    BY <1>8 DEF RecvFail, Goto
  <2>2. StageOf(c) = "ready" /\ StageOf(c)' = "ended"
    BY <1>0, <2>1 DEF StageOf
  <2>3. DueOf(c) = {} /\ DueOf(c)' = {}
    BY <1>0, <1>q, <2>1 DEF DueOf, Sending
  <2>4. DeliveredFrames' = DeliveredFrames /\ Left' = Left
    BY <2>1, Kept
  <2>5. /\ Stage' = [Stage EXCEPT ![c] = "ended"] /\ Due' = Due
        /\ Stage[c] = "ready" /\ Due[c] = DueOf(c)
    BY <1>0, <2>1, <2>2, <2>3, Views
  <2>9. Promise!Fail(c)
    BY <1>0, <1>b, <2>1, <2>3, <2>4, <2>5 DEF Promise!Fail, Promise!requestVars
  <2> QED BY <2>9 DEF Maps, Promise!Next
<1>9. ASSUME NEW c \in Conn, HandleSimple(c) PROVE Maps
  <2>1. /\ pc[c] = "handle" /\ req[c].op \in {"CONNECT", "NOOP"}
        /\ pc' = [pc EXCEPT ![c] = "lock"]
        /\ frame' = [frame EXCEPT ![c] = Reply(c, IF req[c].op = "CONNECT" THEN "INFO" ELSE "NOOP")]
        /\ UNCHANGED <<pending, req, num, status, registered, freed, wire, peer>>
    BY <1>9 DEF HandleSimple, StartSend, Goto
  <2>2. StageOf(c) = "asked" /\ StageOf(c)' = "done"
    BY <1>0, <2>1 DEF StageOf
  <2>3. DueOf(c) = {} /\ DueOf(c)' = {}
    BY <1>0, <1>q, <2>1 DEF DueOf, Sending, Reply
  <2>4. DeliveredFrames' = DeliveredFrames /\ Left' = Left
    BY <2>1, Kept
  <2>5. /\ Stage' = [Stage EXCEPT ![c] = "done"] /\ Due' = Due
        /\ Stage[c] = "asked" /\ Due[c] = DueOf(c)
    BY <1>0, <2>1, <2>2, <2>3, Views
  <2>9. Promise!Answer(c)
    BY <1>0, <1>b, <2>1, <2>3, <2>4, <2>5 DEF Promise!Answer, Promise!Serve, Promise!requestVars
  <2> QED BY <2>9 DEF Maps, Promise!Next
<1>10. ASSUME NEW c \in Conn, PubNoTopic(c) PROVE Maps
  <2>1. /\ pc[c] = "handle" /\ req[c].op = "PUB" /\ pc' = [pc EXCEPT ![c] = "destroy"]
        /\ UNCHANGED <<frame, pending, req, num, status, registered, freed, wire, peer>>
    BY <1>10 DEF PubNoTopic, Goto
  <2>2. StageOf(c) = "asked" /\ StageOf(c)' = "ended"
    BY <1>0, <2>1 DEF StageOf
  <2>3. DueOf(c) = {} /\ DueOf(c)' = {}
    BY <1>0, <1>q, <2>1 DEF DueOf, Sending
  <2>4. DeliveredFrames' = DeliveredFrames /\ Left' = Left
    BY <2>1, Kept
  <2>5. /\ Stage' = [Stage EXCEPT ![c] = "ended"] /\ Due' = Due
        /\ Stage[c] = "asked" /\ Due[c] = DueOf(c)
    BY <1>0, <2>1, <2>2, <2>3, Views
  <2>9. Promise!Fail(c)
    BY <1>0, <1>b, <2>1, <2>3, <2>4, <2>5 DEF Promise!Fail, Promise!requestVars
  <2> QED BY <2>9 DEF Maps, Promise!Next
<1>11. ASSUME NEW c \in Conn, PubFind(c) PROVE Maps
  <2>1. /\ pc[c] = "handle" /\ req[c].op = "PUB" /\ req[c].topic # NONE
        /\ pc' = [pc EXCEPT ![c] = "deliver"] /\ pending' = [pending EXCEPT ![c] = Found(c)]
        /\ UNCHANGED <<frame, req, num, status, registered, freed, wire, peer>>
    BY <1>11 DEF PubFind, Goto, Found
  <2>2. StageOf(c) = "asked" /\ StageOf(c)' = "done"
    BY <1>0, <2>1 DEF StageOf
  <2>3. DueOf(c) = {} /\ DueOf(c)' = Promise!Matching(c)
    BY <1>0, <1>q, <2>1 DEF DueOf, Sending, Found, Skips, Promise!Matching
  <2>4. DeliveredFrames' = DeliveredFrames /\ Left' = Left
    BY <2>1, Kept
  <2>5. /\ Stage' = [Stage EXCEPT ![c] = "done"] /\ Due' = [Due EXCEPT ![c] = Promise!Matching(c)]
        /\ Stage[c] = "asked" /\ Due[c] = DueOf(c)
    BY <1>0, <2>1, <2>2, <2>3, Views
  <2>9. Promise!Publish(c)
    BY <1>0, <1>b, <2>1, <2>3, <2>4, <2>5 DEF Promise!Publish, Promise!Serve,
       Promise!requestVars
  <2> QED BY <2>9 DEF Maps, Promise!Next
<1>12. ASSUME NEW c \in Conn, SubNoTopic(c) PROVE Maps
  <2>1. /\ pc[c] = "handle" /\ req[c].op \in {"SUB", "UNSUB"}
        /\ pc' = [pc EXCEPT ![c] = "reply"] /\ status' = [status EXCEPT ![c] = "ERR"]
        /\ UNCHANGED <<frame, pending, req, num, registered, freed, wire, peer>>
    BY <1>12 DEF SubNoTopic, Goto
  <2>2. StageOf(c) = "asked" /\ StageOf(c)' = "done"
    BY <1>0, <2>1 DEF StageOf
  <2>3. DueOf(c) = {} /\ DueOf(c)' = {}
    BY <1>0, <1>q, <2>1 DEF DueOf, Sending
  <2>4. DeliveredFrames' = DeliveredFrames /\ Left' = Left
    BY <2>1, Kept
  <2>5. /\ Stage' = [Stage EXCEPT ![c] = "done"] /\ Due' = Due
        /\ Stage[c] = "asked" /\ Due[c] = DueOf(c)
    BY <1>0, <2>1, <2>2, <2>3, Views
  <2>9. Promise!Refuse(c)
    BY <1>0, <1>b, <2>1, <2>3, <2>4, <2>5 DEF Promise!Refuse, Promise!Serve, Promise!requestVars
  <2> QED BY <2>9 DEF Maps, Promise!Next
<1>13. ASSUME NEW c \in Conn, SubEnter(c) /\ Entries(c) # {} PROVE Maps
  <2>1. /\ pc[c] = "handle" /\ req[c].op = "SUB" /\ pc' = [pc EXCEPT ![c] = "reply"]
        /\ UNCHANGED <<frame, pending, req, num, status, registered, freed, wire, peer>>
    BY <1>13 DEF SubEnter, Goto
  <2>2. StageOf(c) = "asked" /\ StageOf(c)' = "done"
    BY <1>0, <2>1 DEF StageOf
  <2>3. DueOf(c) = {} /\ DueOf(c)' = {}
    BY <1>0, <1>q, <2>1 DEF DueOf, Sending
  <2>4. DeliveredFrames' = DeliveredFrames /\ Left' = Left
    BY <2>1, Kept
  <2>5. /\ Stage' = [Stage EXCEPT ![c] = "done"] /\ Due' = Due
        /\ Stage[c] = "asked" /\ Due[c] = DueOf(c)
    BY <1>0, <2>1, <2>2, <2>3, Views
  <2>6. status' = [status EXCEPT ![c] = status'[c]] /\ status'[c] \in {"OK", "ERR"}
    BY <1>0, <2>1
  <2>9. Promise!Refuse(c)
    BY <1>0, <1>b, <2>1, <2>3, <2>4, <2>5, <2>6 DEF Promise!Refuse, Promise!Serve,
       Promise!requestVars
  <2> QED BY <2>9 DEF Maps, Promise!Next
<1>14. ASSUME NEW c \in Conn, SubEnter(c) /\ Entries(c) = {} PROVE Maps
  <2>1. /\ pc[c] = "handle" /\ req[c].op = "SUB" /\ req[c].topic # NONE
        /\ pc' = [pc EXCEPT ![c] = "add"]
        /\ UNCHANGED <<frame, pending, req, num, status, registered, freed, wire, peer>>
    BY <1>14 DEF SubEnter, Goto
  <2>2. StageOf(c) = "asked" /\ StageOf(c)' = "asked"
    BY <1>0, <2>1 DEF StageOf
  <2>3. DueOf(c) = {} /\ DueOf(c)' = {}
    BY <1>0, <1>q, <2>1 DEF DueOf, Sending
  <2>4. DeliveredFrames' = DeliveredFrames /\ Left' = Left
    BY <2>1, Kept
  <2> QED BY <1>0, <1>b, <2>1, <2>2, <2>3, <2>4, Stutter DEF Maps
<1>15. ASSUME NEW c \in Conn, SubAdd(c) PROVE Maps
  <2>1. /\ pc[c] = "add" /\ pc' = [pc EXCEPT ![c] = "reply"]
        /\ registered' = IF req[c].topic \in ValidTopic THEN registered \cup {TreeSub(c)}
                         ELSE registered
        /\ UNCHANGED <<frame, pending, req, num, status, freed, wire, peer>>
    BY <1>15 DEF SubAdd, WriteTree, Goto
  <2>2. StageOf(c) = "asked" /\ StageOf(c)' = "done"
    BY <1>0, <2>1 DEF StageOf
  <2>3. DueOf(c) = {} /\ DueOf(c)' = {}
    BY <1>0, <1>q, <2>1 DEF DueOf, Sending
  <2>4. DeliveredFrames' = DeliveredFrames /\ Left' = Left
    BY <2>1, Kept
  <2>5. /\ Stage' = [Stage EXCEPT ![c] = "done"] /\ Due' = Due /\ Stage[c] = "asked"
        /\ req[c].op = "SUB" /\ req[c].topic # NONE
    BY <1>0, <1>i, <2>1, <2>2, <2>3, Views DEF RequestInv
  <2>6. CASE req[c].topic \in ValidTopic
    <3>1. /\ TreeSub(c) \in Subscription /\ TreeSub(c).conn = c
          /\ TreeSub(c).topic = req[c].topic /\ req[c].tag \in {TreeSub(c).tag, NONE}
      BY <1>0, <2>6, Constructed, Fields DEF TreeSub, TagOf, ValidTopic
    <3>2. Promise!Subscribe(c)
      BY <1>b, <2>1, <2>4, <2>5, <2>6, <3>1 DEF Promise!Subscribe, Promise!Serve
    <3> QED BY <3>2 DEF Maps, Promise!Next
  <2>7. CASE req[c].topic \notin ValidTopic
    <3>1. status' = [status EXCEPT ![c] = status'[c]] /\ status'[c] \in {"OK", "ERR"}
      BY <1>0, <2>1
    <3>2. Promise!Refuse(c)
      BY <1>b, <2>1, <2>4, <2>5, <2>7, <3>1 DEF Promise!Refuse, Promise!Serve
    <3> QED BY <3>2 DEF Maps, Promise!Next
  <2> QED BY <2>6, <2>7
<1>16. ASSUME NEW c \in Conn, UnsubNoTag(c) PROVE Maps
  <2>1. /\ pc[c] = "handle" /\ req[c].op = "UNSUB" /\ pc' = [pc EXCEPT ![c] = "reply"]
        /\ status' = [status EXCEPT ![c] = "ERR"]
        /\ UNCHANGED <<frame, pending, req, num, registered, freed, wire, peer>>
    BY <1>16 DEF UnsubNoTag, Goto
  <2>2. StageOf(c) = "asked" /\ StageOf(c)' = "done"
    BY <1>0, <2>1 DEF StageOf
  <2>3. DueOf(c) = {} /\ DueOf(c)' = {}
    BY <1>0, <1>q, <2>1 DEF DueOf, Sending
  <2>4. DeliveredFrames' = DeliveredFrames /\ Left' = Left
    BY <2>1, Kept
  <2>5. /\ Stage' = [Stage EXCEPT ![c] = "done"] /\ Due' = Due
        /\ Stage[c] = "asked" /\ Due[c] = DueOf(c)
    BY <1>0, <2>1, <2>2, <2>3, Views
  <2>9. Promise!Refuse(c)
    BY <1>0, <1>b, <2>1, <2>3, <2>4, <2>5 DEF Promise!Refuse, Promise!Serve, Promise!requestVars
  <2> QED BY <2>9 DEF Maps, Promise!Next
<1>17. ASSUME NEW c \in Conn, UnsubRemove(c) /\ Entries(c) # {} PROVE Maps
  <2>1. /\ pc[c] = "handle" /\ req[c].op = "UNSUB" /\ req[c].topic # NONE
        /\ pc' = [pc EXCEPT ![c] = "del"]
        /\ pending' = [pending EXCEPT ![c] =
                      {[conn |-> c, topic |-> key[1], tag |-> key[2]] : key \in Entries(c)}]
        /\ UNCHANGED <<frame, req, num, status, registered, freed, wire, peer>>
    BY <1>17 DEF UnsubRemove, Goto
  <2>2. StageOf(c) = "asked" /\ StageOf(c)' = "asked"
    BY <1>0, <2>1 DEF StageOf
  <2>3. DueOf(c) = {} /\ DueOf(c)' = {}
    BY <1>0, <1>q, <2>1 DEF DueOf, Sending
  <2>4. DeliveredFrames' = DeliveredFrames /\ Left' = Left
    BY <2>1, Kept
  <2> QED BY <1>0, <1>b, <2>1, <2>2, <2>3, <2>4, Stutter DEF Maps
<1>18. ASSUME NEW c \in Conn, UnsubRemove(c) /\ Entries(c) = {} PROVE Maps
  <2>1. /\ pc[c] = "handle" /\ req[c].op = "UNSUB" /\ pc' = [pc EXCEPT ![c] = "reply"]
        /\ status' = [status EXCEPT ![c] = "ERR"]
        /\ UNCHANGED <<frame, pending, req, num, registered, freed, wire, peer>>
    BY <1>18 DEF UnsubRemove, UnsubUnknown, Goto
  <2>2. StageOf(c) = "asked" /\ StageOf(c)' = "done"
    BY <1>0, <2>1 DEF StageOf
  <2>3. DueOf(c) = {} /\ DueOf(c)' = {}
    BY <1>0, <1>q, <2>1 DEF DueOf, Sending
  <2>4. DeliveredFrames' = DeliveredFrames /\ Left' = Left
    BY <2>1, Kept
  <2>5. /\ Stage' = [Stage EXCEPT ![c] = "done"] /\ Due' = Due
        /\ Stage[c] = "asked" /\ Due[c] = DueOf(c)
    BY <1>0, <2>1, <2>2, <2>3, Views
  <2>9. Promise!Refuse(c)
    BY <1>0, <1>b, <2>1, <2>3, <2>4, <2>5 DEF Promise!Refuse, Promise!Serve, Promise!requestVars
  <2> QED BY <2>9 DEF Maps, Promise!Next
<1>19. ASSUME NEW c \in Conn, UnsubDel(c) PROVE Maps
  <2>1. /\ pc[c] = "del" /\ pc' = [pc EXCEPT ![c] = "reply"]
        /\ pending' = [pending EXCEPT ![c] = {}] /\ registered' = registered \ pending[c]
        /\ UNCHANGED <<frame, req, num, status, freed, wire, peer>>
    BY <1>19 DEF UnsubDel, WriteTree, Goto
  <2>2. StageOf(c) = "asked" /\ StageOf(c)' = "done"
    BY <1>0, <2>1 DEF StageOf
  <2>3. DueOf(c) = {} /\ DueOf(c)' = {}
    BY <1>0, <1>q, <2>1 DEF DueOf, Sending
  <2>4. DeliveredFrames' = DeliveredFrames /\ Left' = Left
    BY <2>1, Kept
  <2>5. /\ Stage' = [Stage EXCEPT ![c] = "done"] /\ Due' = Due /\ Stage[c] = "asked"
        /\ req[c].op = "UNSUB"
    BY <1>0, <1>i, <2>1, <2>2, <2>3, Views DEF RequestInv
  <2>6. PICK s \in Subscription : /\ pending[c] = {s} /\ s.conn = c
                                  /\ s.topic \in ValidTopic => s \in registered
    BY <1>i, <2>1 DEF RemovalInv
  <2>7. s \in Promise!Own(c) \/ (s.conn = c /\ s.topic \notin ValidTopic)
    BY <2>6 DEF Promise!Own
  <2>9. /\ req[c].topic # NONE /\ req[c].tag # NONE
        /\ s.tag \o s.topic = req[c].tag \o req[c].topic
    BY <1>i, <2>1, <2>6 DEF NamedInv
  <2>8. Promise!Unsubscribe(c)
    BY <1>b, <2>1, <2>4, <2>5, <2>6, <2>7, <2>9 DEF Promise!Unsubscribe, Promise!Serve
  <2> QED BY <2>8 DEF Maps, Promise!Next
<1>20. ASSUME NEW c \in Conn, NEW s \in pending[c], DeliverSkip(c, s)
      PROVE  Maps
  <2>1. /\ pc[c] = "deliver" /\ s \in pending[c] /\ Skips(c, s) /\ pc' = pc
        /\ pending' = [pending EXCEPT ![c] = @ \ {s}]
        /\ UNCHANGED <<frame, req, num, status, registered, freed, wire, peer>>
    BY <1>20 DEF DeliverSkip
  <2>2. StageOf(c) = "done" /\ StageOf(c)' = "done"
    BY <1>0, <2>1 DEF StageOf
  <2>3. DueOf(c)' = DueOf(c)
    BY <1>0, <1>q, <2>1 DEF DueOf, Sending, Skips
  <2>4. DeliveredFrames' = DeliveredFrames /\ Left' = Left
    BY <2>1, Kept
  <2> QED BY <1>0, <1>b, <2>1, <2>2, <2>3, <2>4, Stutter DEF Maps
<1>21. ASSUME NEW c \in Conn, NEW s \in pending[c], DeliverNoRoom(c, s)
      PROVE  Maps
  <2>1. /\ pc[c] = "deliver" /\ s \in pending[c] /\ ~Skips(c, s) /\ req[c].room # "all"
        /\ pc' = pc /\ pending' = [pending EXCEPT ![c] = @ \ {s}]
        /\ UNCHANGED <<frame, req, num, status, registered, freed, wire, peer>>
    BY <1>21 DEF DeliverNoRoom
  <2>2. StageOf(c) = "done" /\ StageOf(c)' = "done"
    BY <1>0, <2>1 DEF StageOf
  <2>3. DueOf(c)' = DueOf(c) \ {s} /\ s \in DueOf(c)
    BY <1>0, <1>q, <2>1 DEF DueOf, Sending, Skips
  <2>4. DeliveredFrames' = DeliveredFrames /\ Left' = Left
    BY <2>1, Kept
  <2>5. /\ Stage' = Stage /\ Due' = [Due EXCEPT ![c] = Due[c] \ {s}] /\ s \in Due[c]
    BY <1>0, <2>1, <2>2, <2>3, Views
  <2>6. req[c].room # "all"
    BY <2>1
  <2>7. Promise!Drop(c)
    BY <1>b, <2>1, <2>4, <2>5, <2>6 DEF Promise!Drop, Promise!requestVars
  <2> QED BY <2>7 DEF Maps, Promise!Next
<1>22. ASSUME NEW c \in Conn, NEW s \in pending[c], DeliverMiss(c, s)
      PROVE  Maps
  <2>1. /\ pc[c] = "deliver" /\ s \in pending[c] /\ ~Skips(c, s)
        /\ (Target(s) \subseteq Closed \/ accepting # NONE) /\ pc' = pc
        /\ pending' = [pending EXCEPT ![c] = @ \ {s}]
        /\ UNCHANGED <<frame, req, num, status, registered, freed, wire, peer>>
    BY <1>22 DEF DeliverMiss
  <2>2. StageOf(c) = "done" /\ StageOf(c)' = "done"
    BY <1>0, <2>1 DEF StageOf
  <2>3. DueOf(c)' = DueOf(c) \ {s} /\ s \in DueOf(c)
    BY <1>0, <1>q, <2>1 DEF DueOf, Sending, Skips
  <2>4. DeliveredFrames' = DeliveredFrames /\ Left' = Left
    BY <2>1, Kept
  <2>5. /\ Stage' = Stage /\ Due' = [Due EXCEPT ![c] = Due[c] \ {s}] /\ s \in Due[c]
    BY <1>0, <2>1, <2>2, <2>3, Views
  <2>6. s.conn \in Left \/ Stage[s.conn] = "ended"
    <3>1. s.conn \in Conn /\ pc[s.conn] # "away"
      BY <1>0, <1>i, <2>1 DEF SnapshotInv, Subscription
    <3>2. CASE s.conn \in table
      <4>1. s.conn \in isClose
        BY <1>22, <1>r, <3>2 DEF DeliverMiss, RacedRead, Target, Closed
      <4> QED BY <1>i, <3>1, <4>1 DEF ControlInv, Left
    <3>3. CASE s.conn \notin table
      <4>1. pc[s.conn] \in PC \ (Served \cup {"away"})
        BY <1>0, <1>i, <1>r, <3>1, <3>3 DEF TableInv
      <4> QED BY <3>1, <4>1 DEF Stage, StageOf, PC, Served
    <3> QED BY <3>2, <3>3
  <2>7. Promise!Drop(c)
    BY <1>b, <2>1, <2>4, <2>5, <2>6 DEF Promise!Drop, Promise!requestVars
  <2> QED BY <2>7 DEF Maps, Promise!Next
<1>23. ASSUME NEW c \in Conn, NEW s \in pending[c], DeliverHit(c, s)
      PROVE  Maps
  <2>1. /\ pc[c] = "deliver" /\ s \in pending[c] /\ ~Skips(c, s) /\ s.conn \in table \ Closed
        /\ pc' = [pc EXCEPT ![c] = "lock"]
        /\ frame' = [frame EXCEPT ![c] = [op |-> "MSG", from |-> c, n |-> num[c], sub |-> s]]
        /\ pending' = [pending EXCEPT ![c] = @ \ {s}]
        /\ UNCHANGED <<req, num, status, registered, freed, wire, peer>>
    BY <1>23 DEF DeliverHit, StartSend, Target, Goto
  <2>2. StageOf(c) = "done" /\ StageOf(c)' = "done"
    BY <1>0, <2>1 DEF StageOf
  <2>3. DueOf(c)' = DueOf(c)
    BY <1>0, <1>q, <2>1 DEF DueOf, Sending, Skips
  <2>4. DeliveredFrames' = DeliveredFrames /\ Left' = Left
    BY <2>1, Kept
  <2> QED BY <1>0, <1>b, <2>1, <2>2, <2>3, <2>4, Stutter DEF Maps
<1>24. ASSUME NEW c \in Conn, DeliverEnd(c) PROVE Maps
  <2>1. /\ pc[c] = "deliver" /\ pending[c] = {} /\ pc' = [pc EXCEPT ![c] = "reply"]
        /\ UNCHANGED <<frame, pending, req, num, status, registered, freed, wire, peer>>
    BY <1>24 DEF DeliverEnd, Goto
  <2>2. StageOf(c) = "done" /\ StageOf(c)' = "done"
    BY <1>0, <2>1 DEF StageOf
  <2>3. DueOf(c)' = DueOf(c)
    BY <1>0, <1>q, <2>1 DEF DueOf, Sending, Skips
  <2>4. DeliveredFrames' = DeliveredFrames /\ Left' = Left
    BY <2>1, Kept
  <2> QED BY <1>0, <1>b, <2>1, <2>2, <2>3, <2>4, Stutter DEF Maps
<1>25. ASSUME NEW c \in Conn, HandleReply(c) /\ req[c].ack PROVE Maps
  <2>1. /\ pc[c] = "reply" /\ req[c].ack /\ pc' = [pc EXCEPT ![c] = "lock"]
        /\ frame' = [frame EXCEPT ![c] = Reply(c, status[c])]
        /\ UNCHANGED <<pending, req, num, status, registered, freed, wire, peer>>
    BY <1>25 DEF HandleReply, StartSend, Goto
  <2>2. StageOf(c) = "done" /\ StageOf(c)' = "done"
    BY <1>0, <2>1 DEF StageOf
  <2>3. DueOf(c) = {} /\ DueOf(c)' = {}
    BY <1>0, <1>q, <2>1 DEF DueOf, Sending, Reply
  <2>4. DeliveredFrames' = DeliveredFrames /\ Left' = Left
    BY <2>1, Kept
  <2> QED BY <1>0, <1>b, <2>1, <2>2, <2>3, <2>4, Stutter DEF Maps
<1>26. ASSUME NEW c \in Conn, HandleReply(c) /\ ~req[c].ack PROVE Maps
  <2>1. /\ pc[c] = "reply" /\ pc' = [pc EXCEPT ![c] = "loop"]
        /\ req' = [req EXCEPT ![c] = NoRequest] /\ status' = [status EXCEPT ![c] = "OK"]
        /\ UNCHANGED <<frame, pending, num, registered, freed, wire, peer>>
    BY <1>26 DEF HandleReply, EndRequest, Goto
  <2>2. StageOf(c) = "done" /\ StageOf(c)' = "ready"
    BY <1>0, <2>1 DEF StageOf
  <2>3. DueOf(c) = {} /\ DueOf(c)' = {}
    BY <1>0, <1>q, <2>1 DEF DueOf, Sending
  <2>4. DeliveredFrames' = DeliveredFrames /\ Left' = Left
    BY <2>1, Kept
  <2>5. /\ Stage' = [Stage EXCEPT ![c] = "ready"] /\ Due' = Due
        /\ Stage[c] = "done" /\ Due[c] = DueOf(c)
    BY <1>0, <2>1, <2>2, <2>3, Views
  <2>6. req[c].op \in {"PUB", "SUB", "UNSUB"} /\ ~req[c].ack
    BY <1>26, <1>i, <2>1 DEF RequestInv
  <2>9. Promise!Finish(c)
    BY <1>0, <1>b, <2>1, <2>3, <2>4, <2>5, <2>6 DEF Promise!Finish, Promise!requestVars
  <2> QED BY <2>9 DEF Maps, Promise!Next
<1>27. ASSUME NEW c \in Conn, ReplyNoRoom(c) PROVE Maps
  <2>1. /\ pc[c] = "reply" /\ pc' = [pc EXCEPT ![c] = "destroy"]
        /\ UNCHANGED <<frame, pending, req, num, status, registered, freed, wire, peer>>
    BY <1>27 DEF ReplyNoRoom, Goto
  <2>2. StageOf(c) = "done" /\ StageOf(c)' = "ended"
    BY <1>0, <2>1 DEF StageOf
  <2>3. DueOf(c) = {} /\ DueOf(c)' = {}
    BY <1>0, <1>q, <2>1 DEF DueOf, Sending
  <2>4. DeliveredFrames' = DeliveredFrames /\ Left' = Left
    BY <2>1, Kept
  <2>5. /\ Stage' = [Stage EXCEPT ![c] = "ended"] /\ Due' = Due
        /\ Stage[c] = "done" /\ Due[c] = DueOf(c)
    BY <1>0, <2>1, <2>2, <2>3, Views
  <2>9. Promise!Fail(c)
    BY <1>0, <1>b, <2>1, <2>3, <2>4, <2>5 DEF Promise!Fail, Promise!requestVars
  <2> QED BY <2>9 DEF Maps, Promise!Next
<1>28. ASSUME NEW c \in Conn, SendLock(c) PROVE Maps
  <2>1. /\ pc[c] = "lock" /\ mutex[to[c]] = NONE /\ pc' = [pc EXCEPT ![c] = "write"]
        /\ UNCHANGED <<frame, pending, req, num, status, registered, freed, wire, peer>>
    BY <1>28 DEF SendLock, Goto
  <2>2. StageOf(c) = "done" /\ StageOf(c)' = "done"
    BY <1>0, <2>1 DEF StageOf
  <2>3. DueOf(c)' = DueOf(c)
    BY <1>0, <2>1 DEF DueOf, Skips
  <2>4. DeliveredFrames' = DeliveredFrames /\ Left' = Left
    BY <2>1, Kept
  <2> QED BY <1>0, <1>b, <2>1, <2>2, <2>3, <2>4, Stutter DEF Maps
<1>29. ASSUME NEW c \in Conn, SendHeader(c) PROVE Maps
  <2>1. /\ pc[c] = "write" /\ part[c] = 0 /\ to[c] \notin isClose /\ pc' = pc
        /\ wire' = [wire EXCEPT ![to[c]] = Append(@, <<"header", frame[c]>>)]
        /\ UNCHANGED <<frame, pending, req, num, status, registered, freed, peer>>
    BY <1>29 DEF SendHeader
  <2>2. UNCHANGED <<Stage, Due>> /\ Left' = Left
    BY <2>1, Kept, Same
  <2>3. DeliveredFrames' = DeliveredFrames
    BY <1>29, <1>i, HeaderDelivers
  <2> QED BY <1>b, <2>1, <2>2, <2>3 DEF Maps, Promise!serviceVars, Promise!requestVars
<1>30. ASSUME NEW c \in Conn, SendRest(c) /\ frame[c].op = "MSG" PROVE Maps
  <2>1. /\ pc[c] = "write" /\ part[c] = 1 /\ to[c] \notin isClose /\ frame[c].op = "MSG"
        /\ pc' = [pc EXCEPT ![c] = "deliver"] /\ frame' = [frame EXCEPT ![c] = NoFrame(c)]
        /\ wire' = [wire EXCEPT ![to[c]] = Append(@, <<"rest", frame[c]>>)]
        /\ UNCHANGED <<pending, req, num, status, registered, freed, peer>>
    BY <1>30 DEF SendRest, EndSend, Goto
  <2> DEFINE s == frame[c].sub
  <2>0. /\ s \in Subscription /\ s \notin pending[c] /\ ~Skips(c, s) /\ s.conn = to[c]
        /\ frame[c] = [op |-> "MSG", from |-> c, n |-> num[c], sub |-> s]
    <3>1. /\ s \in snapshot[c] \ pending[c] /\ ~Skips(c, s) /\ s.conn = to[c]
          /\ frame[c].from = c /\ frame[c].n = num[c]
      BY <1>i, <2>1 DEF SendInv, Sending
    <3>2. frame[c] \in Frame
      BY <1>0
    <3> QED BY <1>0, <2>1, <3>1, <3>2 DEF Frame
  <2>2. StageOf(c) = "done" /\ StageOf(c)' = "done"
    BY <1>0, <2>1 DEF StageOf
  <2>3. DueOf(c)' = DueOf(c) \ {s} /\ s \in DueOf(c)
    BY <1>0, <2>0, <2>1 DEF DueOf, Skips, NoFrame
  <2>4. /\ to[c] \notin freed /\ frame[c] \notin DeliveredFrames[to[c]]
        /\ DeliveredFrames' = [DeliveredFrames EXCEPT ![to[c]] = @ \cup {frame[c]}] /\ Left' = Left
    BY <1>30, <1>i, <2>1, RestDelivers, Kept
  <2>5. /\ Stage' = Stage /\ Due' = [Due EXCEPT ![c] = Due[c] \ {s}] /\ s \in Due[c]
    BY <1>0, <2>1, <2>2, <2>3, Views
  <2>6. Promise!Receives(s.conn, [op |-> "MSG", from |-> c, n |-> num[c], sub |-> s])
    BY <2>0, <2>4 DEF Promise!Receives
  <2>7. Promise!Deliver(c)
    BY <1>b, <2>1, <2>4, <2>5, <2>6 DEF Promise!Deliver, Promise!requestVars
  <2> QED BY <2>7 DEF Maps, Promise!Next
<1>31. ASSUME NEW c \in Conn, SendRest(c) /\ frame[c].op # "MSG" PROVE Maps
  <2>1. /\ pc[c] = "write" /\ part[c] = 1 /\ to[c] \notin isClose /\ frame[c].op # "MSG"
        /\ pc' = [pc EXCEPT ![c] = "loop"] /\ frame' = [frame EXCEPT ![c] = NoFrame(c)]
        /\ req' = [req EXCEPT ![c] = NoRequest] /\ status' = [status EXCEPT ![c] = "OK"]
        /\ wire' = [wire EXCEPT ![to[c]] = Append(@, <<"rest", frame[c]>>)]
        /\ UNCHANGED <<pending, num, registered, freed, peer>>
    BY <1>31 DEF SendRest, EndSend, EndRequest, Goto
  <2>0. /\ to[c] = c /\ frame[c] = [op |-> Promise!Reply(c), from |-> c, n |-> num[c], sub |-> NONE]
        /\ req[c].ack \/ req[c].op \in {"CONNECT", "NOOP"}
    <3>1. /\ to[c] = c /\ frame[c].from = c /\ frame[c].n = num[c] /\ frame[c].sub = NONE
          /\ req[c].ack \/ req[c].op \in {"CONNECT", "NOOP"}
          /\ frame[c].op = IF req[c].op = "CONNECT" THEN "INFO"
                           ELSE IF req[c].op = "NOOP" THEN "NOOP" ELSE status[c]
      BY <1>i, <2>1 DEF SendInv, Sending
    <3>2. frame[c].op = Promise!Reply(c)
      BY <3>1 DEF Promise!Reply
    <3>3. frame[c] \in Frame
      BY <1>0
    <3> QED BY <3>1, <3>2, <3>3 DEF Frame
  <2>2. StageOf(c) = "done" /\ StageOf(c)' = "ready"
    BY <1>0, <2>1 DEF StageOf
  <2>3. DueOf(c) = {} /\ DueOf(c)' = {}
    BY <1>0, <1>q, <2>1 DEF DueOf, Sending, NoFrame
  <2>4. /\ to[c] \notin freed /\ frame[c] \notin DeliveredFrames[to[c]]
        /\ DeliveredFrames' = [DeliveredFrames EXCEPT ![to[c]] = @ \cup {frame[c]}] /\ Left' = Left
    BY <1>31, <1>i, <2>1, RestDelivers, Kept
  <2>5. /\ Stage' = [Stage EXCEPT ![c] = "ready"] /\ Due' = Due /\ Stage[c] = "done" /\ Due[c] = {}
    BY <1>0, <2>1, <2>2, <2>3, Views
  <2>6. Promise!Receives(c, [op |-> Promise!Reply(c), from |-> c, n |-> num[c], sub |-> NONE])
    BY <2>0, <2>4 DEF Promise!Receives
  <2>7. Promise!Finish(c)
    BY <1>b, <2>0, <2>1, <2>4, <2>5, <2>6 DEF Promise!Finish
  <2> QED BY <2>7 DEF Maps, Promise!Next
<1>32. ASSUME NEW c \in Conn, SendError(c) /\ frame[c].op = "MSG" PROVE Maps
  <2>1. /\ pc[c] = "write" /\ peer[to[c]] = "closed" /\ frame[c].op = "MSG"
        /\ pc' = [pc EXCEPT ![c] = "deliver"] /\ frame' = [frame EXCEPT ![c] = NoFrame(c)]
        /\ UNCHANGED <<pending, req, num, status, registered, freed, wire, peer>>
    BY <1>32 DEF SendError, SendFailed, EndSend, Goto
  <2> DEFINE s == frame[c].sub
  <2>0. /\ s \in Subscription /\ s \notin pending[c] /\ ~Skips(c, s) /\ s.conn = to[c]
        /\ s.conn \in Conn
    BY <1>0, <1>i, <2>1 DEF SendInv, Sending, Subscription
  <2>2. StageOf(c) = "done" /\ StageOf(c)' = "done"
    BY <1>0, <2>1 DEF StageOf
  <2>3. DueOf(c)' = DueOf(c) \ {s} /\ s \in DueOf(c)
    BY <1>0, <2>0, <2>1 DEF DueOf, Skips, NoFrame
  <2>4. DeliveredFrames' = DeliveredFrames /\ Left' = Left
    BY <2>1, Kept
  <2>5. /\ Stage' = Stage /\ Due' = [Due EXCEPT ![c] = Due[c] \ {s}] /\ s \in Due[c]
    BY <1>0, <2>1, <2>2, <2>3, Views
  <2>6. s.conn \in Left
    BY <2>0, <2>1 DEF Left
  <2>7. Promise!Drop(c)
    BY <1>b, <2>1, <2>4, <2>5, <2>6 DEF Promise!Drop, Promise!requestVars
  <2> QED BY <2>7 DEF Maps, Promise!Next
<1>33. ASSUME NEW c \in Conn, SendError(c) /\ frame[c].op # "MSG" PROVE Maps
  <2>1. /\ pc[c] = "write" /\ peer[to[c]] = "closed" /\ frame[c].op # "MSG"
        /\ pc' = [pc EXCEPT ![c] = "destroy"] /\ frame' = [frame EXCEPT ![c] = NoFrame(c)]
        /\ UNCHANGED <<pending, req, num, status, registered, freed, wire, peer>>
    BY <1>33 DEF SendError, SendFailed, EndSend, Goto
  <2>2. StageOf(c) = "done" /\ StageOf(c)' = "ended"
    BY <1>0, <2>1 DEF StageOf
  <2>3. DueOf(c) = {} /\ DueOf(c)' = {}
    BY <1>0, <1>q, <2>1 DEF DueOf, Sending, NoFrame
  <2>4. DeliveredFrames' = DeliveredFrames /\ Left' = Left
    BY <2>1, Kept
  <2>5. /\ Stage' = [Stage EXCEPT ![c] = "ended"] /\ Due' = Due
        /\ Stage[c] = "done" /\ Due[c] = DueOf(c)
    BY <1>0, <2>1, <2>2, <2>3, Views
  <2>9. Promise!Fail(c)
    BY <1>0, <1>b, <2>1, <2>3, <2>4, <2>5 DEF Promise!Fail, Promise!requestVars
  <2> QED BY <2>9 DEF Maps, Promise!Next
<1>34. ASSUME NEW c \in Conn, DestroyRemove(c) PROVE Maps
  <2>1. /\ pc[c] = "destroy" /\ CliReaders = {} /\ pc' = [pc EXCEPT ![c] = "unsub_all"]
        /\ UNCHANGED <<frame, pending, req, num, status, registered, freed, wire, peer>>
    BY <1>34 DEF DestroyRemove, Goto
  <2>2. StageOf(c) = "ended" /\ StageOf(c)' = "ended"
    BY <1>0, <2>1 DEF StageOf
  <2>3. DueOf(c) = {} /\ DueOf(c)' = {}
    BY <1>0, <1>q, <2>1 DEF DueOf, Sending
  <2>4. DeliveredFrames' = DeliveredFrames /\ Left' = Left
    BY <2>1, Kept
  <2> QED BY <1>0, <1>b, <2>1, <2>2, <2>3, <2>4, Stutter DEF Maps
<1>35. ASSUME NEW c \in Conn, DestroyUnsub(c) PROVE Maps
  <2>1. /\ pc[c] = "unsub_all" /\ pc' = [pc EXCEPT ![c] = "close"]
        /\ registered' = {s \in registered : ~(s.conn = c /\ <<s.topic, s.tag>> \in subs[c])}
        /\ UNCHANGED <<frame, pending, req, num, status, freed, wire, peer>>
    BY <1>35 DEF DestroyUnsub, WriteTree, Goto
  <2>2. StageOf(c) = "ended" /\ StageOf(c)' = "ended"
    BY <1>0, <2>1 DEF StageOf
  <2>3. DueOf(c) = {} /\ DueOf(c)' = {}
    BY <1>0, <1>q, <2>1 DEF DueOf, Sending
  <2>4. DeliveredFrames' = DeliveredFrames /\ Left' = Left
    BY <2>1, Kept
  <2>5. Stage' = Stage /\ Due' = Due /\ Stage[c] = "ended"
    BY <1>0, <2>1, <2>2, <2>3, Views
  <2>6. registered' = registered \ Promise!Own(c)
    BY <1>i, <2>1 DEF TreeInv, Promise!Own
  <2>7. Promise!Quit(c)
    BY <1>b, <2>1, <2>4, <2>5, <2>6 DEF Promise!Quit, Promise!requestVars
  <2> QED BY <2>7 DEF Maps, Promise!Next
<1>36. ASSUME NEW c \in Conn, DestroyClose(c) PROVE Maps
  <2>1. /\ pc[c] = "close" /\ pc' = [pc EXCEPT ![c] = "free"]
        /\ peer' = [peer EXCEPT ![c] = "closed"]
        /\ UNCHANGED <<frame, pending, req, num, status, registered, freed, wire>>
    BY <1>36 DEF DestroyClose, Goto
  <2>2. StageOf(c) = "ended" /\ StageOf(c)' = "ended"
    BY <1>0, <2>1 DEF StageOf
  <2>3. DueOf(c) = {} /\ DueOf(c)' = {}
    BY <1>0, <1>q, <2>1 DEF DueOf, Sending
  <2>4. DeliveredFrames' = DeliveredFrames /\ Left' = Left \cup {c}
    BY <1>0, <2>1, Kept DEF Left
  <2>5. Stage' = Stage /\ Due' = Due
    BY <1>0, <2>1, <2>2, <2>3, Views
  <2>6. Promise!PeerLeaves(c)
    BY <1>b, <2>1, <2>4, <2>5 DEF Promise!PeerLeaves, Promise!requestVars
  <2> QED BY <2>6 DEF Maps, Promise!Next
<1>37. ASSUME NEW c \in Conn, DestroyFree(c) PROVE Maps
  <2>1. /\ pc[c] = "free" /\ pc' = [pc EXCEPT ![c] = "print"] /\ freed' = freed \cup {c}
        /\ UNCHANGED <<frame, pending, req, num, status, registered, wire, peer>>
    BY <1>37 DEF DestroyFree, Goto
  <2>2. StageOf(c) = "ended" /\ StageOf(c)' = "ended"
    BY <1>0, <2>1 DEF StageOf
  <2>3. DueOf(c) = {} /\ DueOf(c)' = {}
    BY <1>0, <1>q, <2>1 DEF DueOf, Sending
  <2>4. DeliveredFrames' = DeliveredFrames /\ Left' = Left
    BY <2>1, Kept
  <2>5. Stage' = Stage /\ Due' = Due /\ Stage[c] = "ended"
    BY <1>0, <2>1, <2>2, <2>3, Views
  <2>6. c \in Left
    BY <1>i, <2>1 DEF ControlInv, Left
  <2>7. Promise!Own(c) = {}
    BY <1>i, <2>1 DEF KeysInv, TreeInv, Promise!Own
  <2>8. Promise!End(c)
    BY <1>b, <2>1, <2>4, <2>5, <2>6, <2>7 DEF Promise!End, Promise!requestVars
  <2> QED BY <2>8 DEF Maps, Promise!Next
<1>38. ASSUME NEW c \in Conn, PrintTree(c) PROVE Maps
  <2>1. /\ pc[c] = "print" /\ pc' = [pc EXCEPT ![c] = "gone"]
        /\ UNCHANGED <<frame, pending, req, num, status, registered, freed, wire, peer>>
    BY <1>38 DEF PrintTree, Goto
  <2>2. StageOf(c) = "ended" /\ StageOf(c)' = "ended"
    BY <1>0, <2>1 DEF StageOf
  <2>3. DueOf(c) = {} /\ DueOf(c)' = {}
    BY <1>0, <1>q, <2>1 DEF DueOf, Sending
  <2>4. DeliveredFrames' = DeliveredFrames /\ Left' = Left
    BY <2>1, Kept
  <2> QED BY <1>0, <1>b, <2>1, <2>2, <2>3, <2>4, Stutter DEF Maps
<1>39. ASSUME AcceptFail PROVE Maps
  BY <1>39 DEF AcceptFail, Broken
<1> QED
  BY <1>1, <1>2, <1>3, <1>4, <1>5, <1>6, <1>7, <1>8, <1>9, <1>10, <1>11, <1>12, <1>13, <1>14,
     <1>15, <1>16, <1>17, <1>18, <1>19, <1>20, <1>21, <1>22, <1>23, <1>24, <1>25, <1>26, <1>27,
     <1>28, <1>29, <1>30, <1>31, <1>32, <1>33, <1>34, <1>35, <1>36, <1>37, <1>38, <1>39 DEF
     Next, Thread, Accept, Handler, Send, Destroy

\* The broker implements the service until its table is raced or it crashes: the
\* refinement that the runs check on small instances.
THEOREM Implementation == Spec => ImplementsService
<1>1. ServerInv /\ [Next]_vars => [Promise!Next]_(Promise!serviceVars)
  <2>1. ASSUME ServerInv, Next PROVE Maps
    <3>1. CASE Broken'
      BY <3>1 DEF Maps, Promise!Next
    <3>2. CASE ~Broken'
      BY <2>1, <3>2, ServiceStep
    <3> QED BY <3>1, <3>2
  <2>2. ASSUME UNCHANGED vars PROVE UNCHANGED Promise!serviceVars
    <3>1. UNCHANGED <<Stage, Due, DeliveredFrames, Left>>
      BY <2>2, Same, Kept DEF vars
    <3> QED BY <2>2, <3>1 DEF vars, Promise!serviceVars, Promise!requestVars, Broken
  <2> QED BY <2>1, <2>2 DEF Maps
<1> QED BY <1>1, ServiceInit, Inductive, PTL DEF Spec, ImplementsService, Promise!Spec
=============================================================================
