---------------------------- MODULE ServerSteps -----------------------------
(***************************************************************************)
(* Every step of the broker keeps its variables in their types, and the    *)
(* parts of the inductive invariant that are about the threads, the        *)
(* subscriptions, the mutexes and the table of clients.                    *)
(***************************************************************************)
EXTENDS ServerInvariant, SequenceTheorems, TLAPS

USE DEF peerVars, sendVars, handlerVars, clientVars, brokerVars

-----------------------------------------------------------------------------
(***************************************************************************)
(* Types.                                                                  *)
(***************************************************************************)
\* The control states.
LEMMA Labels ==
    /\ "loop" \in PC /\ "handle" \in PC /\ "add" \in PC /\ "del" \in PC /\ "deliver" \in PC
    /\ "reply" \in PC /\ "lock" \in PC /\ "write" \in PC /\ "destroy" \in PC
    /\ "unsub_all" \in PC /\ "close" \in PC /\ "free" \in PC /\ "print" \in PC /\ "gone" \in PC
  BY DEF PC

\* The values the handlers construct.
LEMMA Constructed ==
    /\ NoRequest \in Request
    /\ \A c \in Conn : NoFrame(c) \in Frame
    /\ \A c \in Conn, n \in Nat, op \in {"INFO", "NOOP", "OK", "ERR"} :
          [op |-> op, from |-> c, n |-> n, sub |-> NONE] \in Frame
    /\ \A c \in Conn, n \in Nat, s \in Subscription :
          [op |-> "MSG", from |-> c, n |-> n, sub |-> s] \in Frame
    /\ \A f \in Frame : <<"header", f>> \in Part /\ <<"rest", f>> \in Part
    /\ \A c \in Conn, t \in Topic, g \in Tag : [conn |-> c, topic |-> t, tag |-> g] \in Subscription
<1>1. NoRequest \in Request
  BY DEF NoRequest, Request, Opcode, Room
<1>2. \A c \in Conn : NoFrame(c) \in Frame
  BY DEF NoFrame, Frame
<1>3. \A c \in Conn, n \in Nat, op \in {"INFO", "NOOP", "OK", "ERR"} :
          [op |-> op, from |-> c, n |-> n, sub |-> NONE] \in Frame
  BY DEF Frame
<1>4. \A c \in Conn, n \in Nat, s \in Subscription :
          [op |-> "MSG", from |-> c, n |-> n, sub |-> s] \in Frame
  BY DEF Frame
<1>5. \A f \in Frame : <<"header", f>> \in Part /\ <<"rest", f>> \in Part
  BY DEF Part
<1>6. \A c \in Conn, t \in Topic, g \in Tag : [conn |-> c, topic |-> t, tag |-> g] \in Subscription
  BY DEF Subscription
<1> QED BY <1>1, <1>2, <1>3, <1>4, <1>5, <1>6

\* What a request carries.
LEMMA Fields ==
    /\ \A r \in Request : /\ r.topic \in Topic \cup {NONE} /\ r.tag \in Tag \cup {NONE}
                          /\ r.ack \in BOOLEAN /\ r.echo \in BOOLEAN /\ r.room \in Room
                          /\ TagOf(r) \in Tag
    /\ \A s \in Subscription : s.conn \in Conn /\ s.topic \in Topic /\ s.tag \in Tag
  BY ServerAssumption DEF Request, Subscription, TagOf

\* Every operation keeps every variable in its type.
LEMMA TypeStep ==
    ASSUME TypeOK, Next
    PROVE  TypeOK'
<1> USE Labels
<1>1. ASSUME NEW c \in Conn, RecvFail(c) \/ PubNoTopic(c) \/ (SubEnter(c) /\ Entries(c) # {})
             \/ DeliverEnd(c) \/ ReplyNoRoom(c)
      PROVE  TypeOK'
  <2>1. \E label \in PC : pc' = [pc EXCEPT ![c] = label]
    BY <1>1 DEF RecvFail, Goto, PubNoTopic, SubEnter, DeliverEnd, ReplyNoRoom
  <2>2. UNCHANGED <<peer, sent, in, wire, read, accepting, table, ptr, isClose, freed, subs,
        registered, mutex, req, num, status, pending, to, frame, part, snapshot, raced, dirty,
        server>>
    BY <1>1 DEF RecvFail, Goto, PubNoTopic, SubEnter, DeliverEnd, ReplyNoRoom
  <2> QED BY <2>1, <2>2 DEF TypeOK
<1>2. ASSUME NEW c \in Conn, \E p \in Ptr : AcceptBegin(c, p) PROVE TypeOK'
  <2>1. /\ peer' = [peer EXCEPT ![c] = IF @ = "backlog" THEN "open" ELSE @]
        /\ (\E p \in Ptr : ptr' = [ptr EXCEPT ![c] = p])
        /\ accepting' = c
        /\ UNCHANGED <<sent, in, wire, read, table, isClose, freed, subs, registered, mutex, pc,
                      req, num, status, pending, to, frame, part, snapshot, raced,
                      dirty, server>>
    BY <1>2 DEF AcceptBegin
  <2>2. /\ peer \in [Conn -> {"away", "backlog", "open", "closed"}]
        /\ ptr \in [Conn -> Ptr \cup {NONE}] /\ accepting \in Conn \cup {NONE}
    BY DEF TypeOK
  <2>3. /\ peer' \in [Conn -> {"away", "backlog", "open", "closed"}]
        /\ ptr' \in [Conn -> Ptr \cup {NONE}] /\ accepting' \in Conn \cup {NONE}
    BY <2>1, <2>2
  <2> QED BY <2>1, <2>3 DEF TypeOK
<1>3. ASSUME NEW c \in Conn, AcceptEnd(c) PROVE TypeOK'
  <2>1. /\ pc' = [pc EXCEPT ![c] = "loop"] /\ table' \in {table, table \cup {c}}
        /\ raced' \in {raced, "past"} /\ accepting' = NONE
        /\ UNCHANGED <<peer, sent, in, wire, read, ptr, isClose, freed, subs, registered, mutex,
                      req, num, status, pending, to, frame, part, snapshot, dirty,
                      server>>
    BY <1>3 DEF AcceptEnd, Goto
  <2>2. /\ pc \in [Conn -> PC] /\ table \in SUBSET Conn /\ raced \in {"no", "now", "past"}
        /\ accepting \in Conn \cup {NONE}
    BY DEF TypeOK
  <2>3. /\ pc' \in [Conn -> PC] /\ table' \in SUBSET Conn /\ raced' \in {"no", "now", "past"}
        /\ accepting' \in Conn \cup {NONE}
    BY <2>1, <2>2
  <2> QED BY <2>1, <2>3 DEF TypeOK
<1>4. ASSUME NEW c \in Conn, AcceptNoThread(c) PROVE TypeOK'
  <2>1. /\ table' \in {table, table \cup {c}} /\ raced' \in {raced, "past"}
        /\ accepting' = NONE
        /\ UNCHANGED <<peer, sent, in, wire, read, ptr, isClose, freed, subs, registered, mutex,
                      pc, req, num, status, pending, to, frame, part, snapshot, dirty,
                      server>>
    BY <1>4 DEF AcceptNoThread
  <2>2. /\ table \in SUBSET Conn /\ raced \in {"no", "now", "past"}
        /\ accepting \in Conn \cup {NONE}
    BY DEF TypeOK
  <2>3. /\ table' \in SUBSET Conn /\ raced' \in {"no", "now", "past"}
        /\ accepting' \in Conn \cup {NONE}
    BY <2>1, <2>2
  <2> QED BY <2>1, <2>3 DEF TypeOK
<1>5. ASSUME AcceptFail PROVE TypeOK'
  <2>1. /\ server' = "crashed"
        /\ UNCHANGED <<peer, sent, in, wire, read, accepting, table, ptr, isClose, freed, subs,
                      registered, mutex, pc, req, num, status, pending, to, frame, part,
                      snapshot, raced, dirty>>
    BY <1>5 DEF AcceptFail
  <2>2. server \in {"up", "crashed"}
    BY DEF TypeOK
  <2>3. server' \in {"up", "crashed"}
    BY <2>1, <2>2
  <2> QED BY <2>1, <2>3 DEF TypeOK
<1>6. ASSUME NEW c \in Conn, SendStale(c) PROVE TypeOK'
  <2>1. /\ server' = "crashed"
        /\ UNCHANGED <<peer, sent, in, wire, read, accepting, table, ptr, isClose, freed, subs,
                      registered, mutex, pc, req, num, status, pending, to, frame, part,
                      snapshot, raced, dirty>>
    BY <1>6 DEF SendStale
  <2>2. server \in {"up", "crashed"}
    BY DEF TypeOK
  <2>3. server' \in {"up", "crashed"}
    BY <2>1, <2>2
  <2> QED BY <2>1, <2>3 DEF TypeOK
<1>7. ASSUME NEW c \in Conn, TableCrash(c) PROVE TypeOK'
  <2>1. /\ server' = "crashed" /\ raced' = "past"
        /\ UNCHANGED <<peer, sent, in, wire, read, accepting, table, ptr, isClose, freed, subs,
                      registered, mutex, pc, req, num, status, pending, to, frame, part,
                      snapshot, dirty>>
    BY <1>7 DEF TableCrash
  <2>2. /\ server \in {"up", "crashed"} /\ raced \in {"no", "now", "past"}
    BY DEF TypeOK
  <2>3. /\ server' \in {"up", "crashed"} /\ raced' \in {"no", "now", "past"}
    BY <2>1, <2>2
  <2> QED BY <2>1, <2>3 DEF TypeOK
<1>8. ASSUME NEW c \in Conn, Recv(c) PROVE TypeOK'
  <2>1. /\ in[c] # <<>> /\ pc' = [pc EXCEPT ![c] = "handle"]
        /\ req' = [req EXCEPT ![c] = Head(in[c])] /\ num' = [num EXCEPT ![c] = @ + 1]
        /\ in' = [in EXCEPT ![c] = Tail(@)]
        /\ UNCHANGED <<peer, sent, wire, read, accepting, table, ptr, isClose, freed, subs,
                      registered, mutex, status, pending, to, frame, part, snapshot,
                      raced, dirty, server>>
    BY <1>8 DEF Recv, Goto
  <2>2. /\ pc \in [Conn -> PC] /\ req \in [Conn -> Request] /\ num \in [Conn -> Nat]
        /\ in \in [Conn -> Seq(Request)]
    BY DEF TypeOK
  <2>3. /\ pc' \in [Conn -> PC] /\ req' \in [Conn -> Request] /\ num' \in [Conn -> Nat]
        /\ in' \in [Conn -> Seq(Request)]
    BY <2>1, <2>2
  <2> QED BY <2>1, <2>3 DEF TypeOK
<1>9. ASSUME NEW c \in Conn, HandleSimple(c) PROVE TypeOK'
  <2>1. /\ pc' = [pc EXCEPT ![c] = "lock"] /\ to' = [to EXCEPT ![c] = c]
        /\ frame' = [frame EXCEPT ![c] = Reply(c, IF req[c].op = "CONNECT" THEN "INFO" ELSE "NOOP")]
        /\ part' = [part EXCEPT ![c] = 0]
        /\ UNCHANGED <<peer, sent, in, wire, read, accepting, table, ptr, isClose, freed, subs,
                      registered, mutex, req, num, status, pending, snapshot, raced,
                      dirty, server>>
    BY <1>9 DEF HandleSimple, StartSend, Goto
  <2>2. /\ pc \in [Conn -> PC] /\ to \in [Conn -> Conn] /\ frame \in [Conn -> Frame]
        /\ part \in [Conn -> 0..1] /\ num \in [Conn -> Nat] /\ req \in [Conn -> Request]
    BY DEF TypeOK
  <2>3. Reply(c, IF req[c].op = "CONNECT" THEN "INFO" ELSE "NOOP") \in Frame
    BY <2>2, Constructed DEF Reply
  <2>4. /\ pc' \in [Conn -> PC] /\ to' \in [Conn -> Conn] /\ frame' \in [Conn -> Frame]
        /\ part' \in [Conn -> 0..1]
    BY <2>1, <2>2, <2>3
  <2> QED BY <2>1, <2>4 DEF TypeOK
<1>10. ASSUME NEW c \in Conn, PubFind(c) PROVE TypeOK'
  <2>1. /\ pc' = [pc EXCEPT ![c] = "deliver"] /\ pending' = [pending EXCEPT ![c] = Found(c)]
        /\ snapshot' = [snapshot EXCEPT ![c] = Found(c)]
        /\ UNCHANGED <<peer, sent, in, wire, read, accepting, table, ptr, isClose, freed, subs,
                      registered, mutex, req, num, status, to, frame, part, raced,
                      dirty, server>>
    BY <1>10 DEF PubFind, Goto, Found
  <2>2. /\ pc \in [Conn -> PC] /\ pending \in [Conn -> SUBSET Subscription]
        /\ snapshot \in [Conn -> SUBSET Subscription] /\ registered \in SUBSET Subscription
        /\ req \in [Conn -> Request]
    BY DEF TypeOK
  <2>3. /\ pc' \in [Conn -> PC] /\ pending' \in [Conn -> SUBSET Subscription]
        /\ snapshot' \in [Conn -> SUBSET Subscription]
    BY <2>1, <2>2 DEF Found
  <2> QED BY <2>1, <2>3 DEF TypeOK
<1>11. ASSUME NEW c \in Conn, SubNoTopic(c) PROVE TypeOK'
  <2>1. /\ pc' = [pc EXCEPT ![c] = "reply"] /\ status' = [status EXCEPT ![c] = "ERR"]
        /\ UNCHANGED <<peer, sent, in, wire, read, accepting, table, ptr, isClose, freed, subs,
                      registered, mutex, req, num, pending, to, frame, part, snapshot,
                      raced, dirty, server>>
    BY <1>11 DEF SubNoTopic, Goto
  <2>2. /\ pc \in [Conn -> PC] /\ status \in [Conn -> {"OK", "ERR"}]
    BY DEF TypeOK
  <2>3. /\ pc' \in [Conn -> PC] /\ status' \in [Conn -> {"OK", "ERR"}]
    BY <2>1, <2>2
  <2> QED BY <2>1, <2>3 DEF TypeOK
<1>12. ASSUME NEW c \in Conn, SubEnter(c) /\ Entries(c) = {} PROVE TypeOK'
  <2>1. /\ req[c].topic # NONE /\ pc' = [pc EXCEPT ![c] = "add"]
        /\ subs' = [subs EXCEPT ![c] = @ \cup {Key(req[c])}]
        /\ UNCHANGED <<peer, sent, in, wire, read, accepting, table, ptr, isClose, freed,
                      registered, mutex, req, num, status, pending, to, frame, part,
                      snapshot, raced, dirty, server>>
    BY <1>12 DEF SubEnter, Goto
  <2>2. /\ pc \in [Conn -> PC] /\ subs \in [Conn -> SUBSET (Topic \X Tag)]
        /\ req \in [Conn -> Request]
    BY DEF TypeOK
  <2>3. /\ pc' \in [Conn -> PC] /\ subs' \in [Conn -> SUBSET (Topic \X Tag)]
    BY <2>1, <2>2, Fields DEF Key
  <2> QED BY <2>1, <2>3 DEF TypeOK
<1>13. ASSUME NEW c \in Conn, SubAdd(c) PROVE TypeOK'
  <2>1. /\ pc[c] = "add" /\ pc' = [pc EXCEPT ![c] = "reply"]
        /\ registered' = IF req[c].topic \in ValidTopic THEN registered \cup {TreeSub(c)}
                         ELSE registered
        /\ dirty' \in {dirty, dirty \cup {d \in Conn : pc[d] = "print"}}
        /\ UNCHANGED <<peer, sent, in, wire, read, accepting, table, ptr, isClose, freed, subs,
                      mutex, req, num, status, pending, to, frame, part, snapshot,
                      raced, server>>
    BY <1>13 DEF SubAdd, WriteTree, Goto
  <2>2. /\ pc \in [Conn -> PC] /\ registered \in SUBSET Subscription /\ dirty \in SUBSET Conn
        /\ req \in [Conn -> Request]
    BY DEF TypeOK
  <2>3. /\ pc' \in [Conn -> PC] /\ registered' \in SUBSET Subscription
        /\ dirty' \in SUBSET Conn
    BY <2>1, <2>2, Constructed, Fields DEF ValidTopic, TreeSub
  <2> QED BY <2>1, <2>3 DEF TypeOK
<1>14. ASSUME NEW c \in Conn, UnsubNoTag(c) PROVE TypeOK'
  <2>1. /\ pc' = [pc EXCEPT ![c] = "reply"] /\ status' = [status EXCEPT ![c] = "ERR"]
        /\ UNCHANGED <<peer, sent, in, wire, read, accepting, table, ptr, isClose, freed, subs,
                      registered, mutex, req, num, pending, to, frame, part, snapshot,
                      raced, dirty, server>>
    BY <1>14 DEF UnsubNoTag, Goto
  <2>2. /\ pc \in [Conn -> PC] /\ status \in [Conn -> {"OK", "ERR"}]
    BY DEF TypeOK
  <2>3. /\ pc' \in [Conn -> PC] /\ status' \in [Conn -> {"OK", "ERR"}]
    BY <2>1, <2>2
  <2> QED BY <2>1, <2>3 DEF TypeOK
<1>15. ASSUME NEW c \in Conn, UnsubRemove(c) /\ Entries(c) # {} PROVE TypeOK'
  <2>1. /\ pc' = [pc EXCEPT ![c] = "del"] /\ subs' = [subs EXCEPT ![c] = @ \ Entries(c)]
        /\ pending' = [pending EXCEPT ![c] =
                      {[conn |-> c, topic |-> key[1], tag |-> key[2]] : key \in Entries(c)}]
        /\ UNCHANGED <<peer, sent, in, wire, read, accepting, table, ptr, isClose, freed,
                      registered, mutex, req, num, status, to, frame, part, snapshot,
                      raced, dirty, server>>
    BY <1>15 DEF UnsubRemove, Goto
  <2>2. /\ pc \in [Conn -> PC] /\ subs \in [Conn -> SUBSET (Topic \X Tag)]
        /\ pending \in [Conn -> SUBSET Subscription] /\ req \in [Conn -> Request]
    BY DEF TypeOK
  <2>3. /\ pc' \in [Conn -> PC] /\ subs' \in [Conn -> SUBSET (Topic \X Tag)]
        /\ pending' \in [Conn -> SUBSET Subscription]
    BY <2>1, <2>2, Constructed DEF Entries
  <2> QED BY <2>1, <2>3 DEF TypeOK
<1>16. ASSUME NEW c \in Conn, UnsubRemove(c) /\ Entries(c) = {} PROVE TypeOK'
  <2>1. /\ pc' = [pc EXCEPT ![c] = "reply"] /\ status' = [status EXCEPT ![c] = "ERR"]
        /\ UNCHANGED <<peer, sent, in, wire, read, accepting, table, ptr, isClose, freed, subs,
                      registered, mutex, req, num, pending, to, frame, part, snapshot,
                      raced, dirty, server>>
    BY <1>16 DEF UnsubRemove, UnsubUnknown, Goto
  <2>2. /\ pc \in [Conn -> PC] /\ status \in [Conn -> {"OK", "ERR"}]
    BY DEF TypeOK
  <2>3. /\ pc' \in [Conn -> PC] /\ status' \in [Conn -> {"OK", "ERR"}]
    BY <2>1, <2>2
  <2> QED BY <2>1, <2>3 DEF TypeOK
<1>17. ASSUME NEW c \in Conn, UnsubDel(c) PROVE TypeOK'
  <2>1. /\ pc' = [pc EXCEPT ![c] = "reply"] /\ registered' = registered \ pending[c]
        /\ pending' = [pending EXCEPT ![c] = {}]
        /\ dirty' \in {dirty, dirty \cup {d \in Conn : pc[d] = "print"}}
        /\ UNCHANGED <<peer, sent, in, wire, read, accepting, table, ptr, isClose, freed, subs,
                      mutex, req, num, status, to, frame, part, snapshot, raced,
                      server>>
    BY <1>17 DEF UnsubDel, WriteTree, Goto
  <2>2. /\ pc \in [Conn -> PC] /\ registered \in SUBSET Subscription
        /\ pending \in [Conn -> SUBSET Subscription] /\ dirty \in SUBSET Conn
    BY DEF TypeOK
  <2>3. /\ pc' \in [Conn -> PC] /\ registered' \in SUBSET Subscription
        /\ pending' \in [Conn -> SUBSET Subscription] /\ dirty' \in SUBSET Conn
    BY <2>1, <2>2
  <2> QED BY <2>1, <2>3 DEF TypeOK
<1>18. ASSUME NEW c \in Conn, NEW s \in pending[c], DeliverSkip(c, s)
      PROVE  TypeOK'
  <2>1. /\ pending' = [pending EXCEPT ![c] = @ \ {s}]
        /\ UNCHANGED <<peer, sent, in, wire, read, accepting, table, ptr, isClose, freed, subs,
                      registered, mutex, pc, req, num, status, to, frame, part,
                      snapshot, raced, dirty, server>>
    BY <1>18 DEF DeliverSkip
  <2>2. pending \in [Conn -> SUBSET Subscription]
    BY DEF TypeOK
  <2>3. pending' \in [Conn -> SUBSET Subscription]
    BY <2>1, <2>2
  <2> QED BY <2>1, <2>3 DEF TypeOK
<1>19. ASSUME NEW c \in Conn, NEW s \in pending[c], DeliverNoRoom(c, s)
      PROVE  TypeOK'
  <2>1. /\ pending' = [pending EXCEPT ![c] = @ \ {s}] /\ raced' \in {raced, "past"}
        /\ UNCHANGED <<peer, sent, in, wire, read, accepting, table, ptr, isClose, freed, subs,
                      registered, mutex, pc, req, num, status, to, frame, part,
                      snapshot, dirty, server>>
    BY <1>19 DEF DeliverNoRoom, RacedRead
  <2>2. /\ pending \in [Conn -> SUBSET Subscription] /\ raced \in {"no", "now", "past"}
    BY DEF TypeOK
  <2>3. /\ pending' \in [Conn -> SUBSET Subscription] /\ raced' \in {"no", "now", "past"}
    BY <2>1, <2>2
  <2> QED BY <2>1, <2>3 DEF TypeOK
<1>20. ASSUME NEW c \in Conn, NEW s \in pending[c], DeliverMiss(c, s)
      PROVE  TypeOK'
  <2>1. /\ pending' = [pending EXCEPT ![c] = @ \ {s}] /\ raced' \in {raced, "past"}
        /\ UNCHANGED <<peer, sent, in, wire, read, accepting, table, ptr, isClose, freed, subs,
                      registered, mutex, pc, req, num, status, to, frame, part,
                      snapshot, dirty, server>>
    BY <1>20 DEF DeliverMiss, RacedRead
  <2>2. /\ pending \in [Conn -> SUBSET Subscription] /\ raced \in {"no", "now", "past"}
    BY DEF TypeOK
  <2>3. /\ pending' \in [Conn -> SUBSET Subscription] /\ raced' \in {"no", "now", "past"}
    BY <2>1, <2>2
  <2> QED BY <2>1, <2>3 DEF TypeOK
<1>21. ASSUME NEW c \in Conn, NEW s \in pending[c], DeliverHit(c, s)
      PROVE  TypeOK'
  <2>1. /\ pc' = [pc EXCEPT ![c] = "lock"] /\ pending' = [pending EXCEPT ![c] = @ \ {s}]
        /\ to' = [to EXCEPT ![c] = s.conn]
        /\ frame' = [frame EXCEPT ![c] = [op |-> "MSG", from |-> c, n |-> num[c], sub |-> s]]
        /\ part' = [part EXCEPT ![c] = 0] /\ raced' \in {raced, "past"}
        /\ UNCHANGED <<peer, sent, in, wire, read, accepting, table, ptr, isClose, freed, subs,
                      registered, mutex, req, num, status, snapshot, dirty, server>>
    BY <1>21 DEF DeliverHit, StartSend, Target, Goto, RacedRead
  <2>2. /\ pc \in [Conn -> PC] /\ pending \in [Conn -> SUBSET Subscription]
        /\ to \in [Conn -> Conn] /\ frame \in [Conn -> Frame] /\ part \in [Conn -> 0..1]
        /\ raced \in {"no", "now", "past"} /\ num \in [Conn -> Nat]
    BY DEF TypeOK
  <2>3. /\ pc' \in [Conn -> PC] /\ pending' \in [Conn -> SUBSET Subscription]
        /\ to' \in [Conn -> Conn] /\ frame' \in [Conn -> Frame] /\ part' \in [Conn -> 0..1]
        /\ raced' \in {"no", "now", "past"}
    BY <2>1, <2>2, Constructed, Fields, SMTT(30)
  <2> QED BY <2>1, <2>3 DEF TypeOK
<1>22. ASSUME NEW c \in Conn, HandleReply(c) /\ req[c].ack PROVE TypeOK'
  <2>1. /\ pc' = [pc EXCEPT ![c] = "lock"] /\ to' = [to EXCEPT ![c] = c]
        /\ frame' = [frame EXCEPT ![c] = Reply(c, status[c])] /\ part' = [part EXCEPT ![c] = 0]
        /\ UNCHANGED <<peer, sent, in, wire, read, accepting, table, ptr, isClose, freed, subs,
                      registered, mutex, req, num, status, pending, snapshot, raced,
                      dirty, server>>
    BY <1>22 DEF HandleReply, StartSend, Goto
  <2>2. /\ pc \in [Conn -> PC] /\ to \in [Conn -> Conn] /\ frame \in [Conn -> Frame]
        /\ part \in [Conn -> 0..1] /\ num \in [Conn -> Nat]
        /\ status \in [Conn -> {"OK", "ERR"}]
    BY DEF TypeOK
  <2>3. Reply(c, status[c]) \in Frame
    BY <2>2, Constructed DEF Reply
  <2>4. /\ pc' \in [Conn -> PC] /\ to' \in [Conn -> Conn] /\ frame' \in [Conn -> Frame]
        /\ part' \in [Conn -> 0..1]
    BY <2>1, <2>2, <2>3
  <2> QED BY <2>1, <2>4 DEF TypeOK
<1>23. ASSUME NEW c \in Conn, HandleReply(c) /\ ~req[c].ack PROVE TypeOK'
  <2>1. /\ pc' = [pc EXCEPT ![c] = "loop"] /\ req' = [req EXCEPT ![c] = NoRequest]
        /\ status' = [status EXCEPT ![c] = "OK"] /\ snapshot' = [snapshot EXCEPT ![c] = {}]
        /\ UNCHANGED <<peer, sent, in, wire, read, accepting, table, ptr, isClose, freed, subs,
                      registered, mutex, num, pending, to, frame, part, raced, dirty,
                      server>>
    BY <1>23 DEF HandleReply, EndRequest, Goto
  <2>2. /\ pc \in [Conn -> PC] /\ req \in [Conn -> Request]
        /\ status \in [Conn -> {"OK", "ERR"}] /\ snapshot \in [Conn -> SUBSET Subscription]
    BY DEF TypeOK
  <2>3. /\ pc' \in [Conn -> PC] /\ req' \in [Conn -> Request]
        /\ status' \in [Conn -> {"OK", "ERR"}] /\ snapshot' \in [Conn -> SUBSET Subscription]
    BY <2>1, <2>2, Constructed
  <2> QED BY <2>1, <2>3 DEF TypeOK
<1>24. ASSUME NEW c \in Conn, SendLock(c) PROVE TypeOK'
  <2>1. /\ pc' = [pc EXCEPT ![c] = "write"] /\ mutex' = [mutex EXCEPT ![to[c]] = c]
        /\ UNCHANGED <<peer, sent, in, wire, read, accepting, table, ptr, isClose, freed, subs,
                      registered, req, num, status, pending, to, frame, part, snapshot,
                      raced, dirty, server>>
    BY <1>24 DEF SendLock, Goto
  <2>2. /\ pc \in [Conn -> PC] /\ mutex \in [Conn -> Conn \cup {NONE}] /\ to \in [Conn -> Conn]
    BY DEF TypeOK
  <2>3. /\ pc' \in [Conn -> PC] /\ mutex' \in [Conn -> Conn \cup {NONE}]
    BY <2>1, <2>2
  <2> QED BY <2>1, <2>3 DEF TypeOK
<1>25. ASSUME NEW c \in Conn, SendHeader(c) PROVE TypeOK'
  <2>1. /\ wire' = [wire EXCEPT ![to[c]] = Append(@, <<"header", frame[c]>>)]
        /\ part' = [part EXCEPT ![c] = 1]
        /\ UNCHANGED <<peer, sent, in, read, accepting, table, ptr, isClose, freed, subs,
                      registered, mutex, pc, req, num, status, pending, to, frame,
                      snapshot, raced, dirty, server>>
    BY <1>25 DEF SendHeader
  <2>2. /\ wire \in [Conn -> Seq(Part)] /\ part \in [Conn -> 0..1] /\ frame \in [Conn -> Frame]
        /\ to \in [Conn -> Conn]
    BY DEF TypeOK
  <2>3. Append(wire[to[c]], <<"header", frame[c]>>) \in Seq(Part)
    BY <2>2, Constructed, AppendProperties
  <2>4. /\ wire' \in [Conn -> Seq(Part)] /\ part' \in [Conn -> 0..1]
    BY <2>1, <2>2, <2>3
  <2> QED BY <2>1, <2>4 DEF TypeOK
<1>26. ASSUME NEW c \in Conn, SendRest(c) /\ frame[c].op = "MSG" PROVE TypeOK'
  <2>1. /\ pc' = [pc EXCEPT ![c] = "deliver"]
        /\ wire' = [wire EXCEPT ![to[c]] = Append(@, <<"rest", frame[c]>>)]
        /\ mutex' = [mutex EXCEPT ![to[c]] = NONE] /\ to' = [to EXCEPT ![c] = c]
        /\ frame' = [frame EXCEPT ![c] = NoFrame(c)] /\ part' = [part EXCEPT ![c] = 0]
        /\ UNCHANGED <<peer, sent, in, read, accepting, table, ptr, isClose, freed, subs,
                      registered, req, num, status, pending, snapshot, raced, dirty,
                      server>>
    BY <1>26 DEF SendRest, EndSend, Goto
  <2>2. /\ pc \in [Conn -> PC] /\ wire \in [Conn -> Seq(Part)]
        /\ mutex \in [Conn -> Conn \cup {NONE}] /\ to \in [Conn -> Conn]
        /\ frame \in [Conn -> Frame] /\ part \in [Conn -> 0..1]
    BY DEF TypeOK
  <2>3. /\ Append(wire[to[c]], <<"rest", frame[c]>>) \in Seq(Part)
        /\ NoFrame(c) \in Frame
    BY <2>2, Constructed, AppendProperties
  <2>4. /\ pc' \in [Conn -> PC] /\ wire' \in [Conn -> Seq(Part)]
        /\ mutex' \in [Conn -> Conn \cup {NONE}] /\ to' \in [Conn -> Conn]
        /\ frame' \in [Conn -> Frame] /\ part' \in [Conn -> 0..1]
    BY <2>1, <2>2, <2>3
  <2> QED BY <2>1, <2>4 DEF TypeOK
<1>27. ASSUME NEW c \in Conn, SendRest(c) /\ frame[c].op # "MSG" PROVE TypeOK'
  <2>1. /\ pc' = [pc EXCEPT ![c] = "loop"]
        /\ wire' = [wire EXCEPT ![to[c]] = Append(@, <<"rest", frame[c]>>)]
        /\ mutex' = [mutex EXCEPT ![to[c]] = NONE] /\ to' = [to EXCEPT ![c] = c]
        /\ frame' = [frame EXCEPT ![c] = NoFrame(c)] /\ part' = [part EXCEPT ![c] = 0]
        /\ req' = [req EXCEPT ![c] = NoRequest] /\ status' = [status EXCEPT ![c] = "OK"]
        /\ snapshot' = [snapshot EXCEPT ![c] = {}]
        /\ UNCHANGED <<peer, sent, in, read, accepting, table, ptr, isClose, freed, subs,
                      registered, num, pending, raced, dirty, server>>
    BY <1>27 DEF SendRest, EndSend, EndRequest, Goto
  <2>2. /\ pc \in [Conn -> PC] /\ wire \in [Conn -> Seq(Part)]
        /\ mutex \in [Conn -> Conn \cup {NONE}] /\ to \in [Conn -> Conn]
        /\ frame \in [Conn -> Frame] /\ part \in [Conn -> 0..1] /\ req \in [Conn -> Request]
        /\ status \in [Conn -> {"OK", "ERR"}] /\ snapshot \in [Conn -> SUBSET Subscription]
    BY DEF TypeOK
  <2>3. /\ Append(wire[to[c]], <<"rest", frame[c]>>) \in Seq(Part)
        /\ NoFrame(c) \in Frame /\ NoRequest \in Request
    BY <2>2, Constructed, AppendProperties
  <2>4. /\ pc' \in [Conn -> PC] /\ wire' \in [Conn -> Seq(Part)]
        /\ mutex' \in [Conn -> Conn \cup {NONE}] /\ to' \in [Conn -> Conn]
        /\ frame' \in [Conn -> Frame] /\ part' \in [Conn -> 0..1] /\ req' \in [Conn -> Request]
        /\ status' \in [Conn -> {"OK", "ERR"}] /\ snapshot' \in [Conn -> SUBSET Subscription]
    BY <2>1, <2>2, <2>3
  <2> QED BY <2>1, <2>4 DEF TypeOK
<1>28. ASSUME NEW c \in Conn, SendError(c) /\ frame[c].op = "MSG" PROVE TypeOK'
  <2>1. /\ pc' = [pc EXCEPT ![c] = "deliver"] /\ mutex' = [mutex EXCEPT ![to[c]] = NONE]
        /\ to' = [to EXCEPT ![c] = c] /\ frame' = [frame EXCEPT ![c] = NoFrame(c)]
        /\ part' = [part EXCEPT ![c] = 0]
        /\ UNCHANGED <<peer, sent, in, wire, read, accepting, table, ptr, isClose, freed, subs,
                      registered, req, num, status, pending, snapshot, raced, dirty,
                      server>>
    BY <1>28 DEF SendError, SendFailed, EndSend, Goto
  <2>2. /\ pc \in [Conn -> PC] /\ mutex \in [Conn -> Conn \cup {NONE}] /\ to \in [Conn -> Conn]
        /\ frame \in [Conn -> Frame] /\ part \in [Conn -> 0..1]
    BY DEF TypeOK
  <2>3. /\ pc' \in [Conn -> PC] /\ mutex' \in [Conn -> Conn \cup {NONE}]
        /\ to' \in [Conn -> Conn] /\ frame' \in [Conn -> Frame] /\ part' \in [Conn -> 0..1]
    BY <2>1, <2>2, Constructed
  <2> QED BY <2>1, <2>3 DEF TypeOK
<1>29. ASSUME NEW c \in Conn, SendError(c) /\ frame[c].op # "MSG" PROVE TypeOK'
  <2>1. /\ pc' = [pc EXCEPT ![c] = "destroy"] /\ mutex' = [mutex EXCEPT ![to[c]] = NONE]
        /\ to' = [to EXCEPT ![c] = c] /\ frame' = [frame EXCEPT ![c] = NoFrame(c)]
        /\ part' = [part EXCEPT ![c] = 0]
        /\ UNCHANGED <<peer, sent, in, wire, read, accepting, table, ptr, isClose, freed, subs,
                      registered, req, num, status, pending, snapshot, raced, dirty,
                      server>>
    BY <1>29 DEF SendError, SendFailed, EndSend, Goto
  <2>2. /\ pc \in [Conn -> PC] /\ mutex \in [Conn -> Conn \cup {NONE}] /\ to \in [Conn -> Conn]
        /\ frame \in [Conn -> Frame] /\ part \in [Conn -> 0..1]
    BY DEF TypeOK
  <2>3. /\ pc' \in [Conn -> PC] /\ mutex' \in [Conn -> Conn \cup {NONE}]
        /\ to' \in [Conn -> Conn] /\ frame' \in [Conn -> Frame] /\ part' \in [Conn -> 0..1]
    BY <2>1, <2>2, Constructed
  <2> QED BY <2>1, <2>3 DEF TypeOK
<1>30. ASSUME NEW c \in Conn, DestroyRemove(c) PROVE TypeOK'
  <2>1. /\ pc' = [pc EXCEPT ![c] = "unsub_all"] /\ table' \in {table, table \ {c}}
        /\ raced' \in {raced, "now"}
        /\ UNCHANGED <<peer, sent, in, wire, read, accepting, ptr, isClose, freed, subs,
                      registered, mutex, req, num, status, pending, to, frame, part,
                      snapshot, dirty, server>>
    BY <1>30 DEF DestroyRemove, Goto, RacedWrite
  <2>2. /\ pc \in [Conn -> PC] /\ table \in SUBSET Conn /\ raced \in {"no", "now", "past"}
    BY DEF TypeOK
  <2>3. /\ pc' \in [Conn -> PC] /\ table' \in SUBSET Conn /\ raced' \in {"no", "now", "past"}
    BY <2>1, <2>2
  <2> QED BY <2>1, <2>3 DEF TypeOK
<1>31. ASSUME NEW c \in Conn, DestroyUnsub(c) PROVE TypeOK'
  <2>1. /\ pc' = [pc EXCEPT ![c] = "close"]
        /\ registered' = {s \in registered : ~(s.conn = c /\ <<s.topic, s.tag>> \in subs[c])}
        /\ subs' = [subs EXCEPT ![c] = {}]
        /\ dirty' \in {dirty, dirty \cup {d \in Conn : pc[d] = "print"}}
        /\ UNCHANGED <<peer, sent, in, wire, read, accepting, table, ptr, isClose, freed, mutex,
                      req, num, status, pending, to, frame, part, snapshot, raced,
                      server>>
    BY <1>31 DEF DestroyUnsub, WriteTree, Goto
  <2>2. /\ pc \in [Conn -> PC] /\ registered \in SUBSET Subscription
        /\ subs \in [Conn -> SUBSET (Topic \X Tag)] /\ dirty \in SUBSET Conn
    BY DEF TypeOK
  <2>3. /\ pc' \in [Conn -> PC] /\ registered' \in SUBSET Subscription
        /\ subs' \in [Conn -> SUBSET (Topic \X Tag)] /\ dirty' \in SUBSET Conn
    BY <2>1, <2>2
  <2> QED BY <2>1, <2>3 DEF TypeOK
<1>32. ASSUME NEW c \in Conn, DestroyClose(c) PROVE TypeOK'
  <2>1. /\ pc' = [pc EXCEPT ![c] = "free"] /\ isClose' = isClose \cup {c}
        /\ peer' = [peer EXCEPT ![c] = "closed"]
        /\ UNCHANGED <<sent, in, wire, read, accepting, table, ptr, freed, subs, registered,
                      mutex, req, num, status, pending, to, frame, part, snapshot,
                      raced, dirty, server>>
    BY <1>32 DEF DestroyClose, Goto
  <2>2. /\ pc \in [Conn -> PC] /\ isClose \in SUBSET Conn
        /\ peer \in [Conn -> {"away", "backlog", "open", "closed"}]
    BY DEF TypeOK
  <2>3. /\ pc' \in [Conn -> PC] /\ isClose' \in SUBSET Conn
        /\ peer' \in [Conn -> {"away", "backlog", "open", "closed"}]
    BY <2>1, <2>2
  <2> QED BY <2>1, <2>3 DEF TypeOK
<1>33. ASSUME NEW c \in Conn, DestroyFree(c) PROVE TypeOK'
  <2>1. /\ pc' = [pc EXCEPT ![c] = "print"] /\ freed' = freed \cup {c}
        /\ UNCHANGED <<peer, sent, in, wire, read, accepting, table, ptr, isClose, subs,
                      registered, mutex, req, num, status, pending, to, frame, part,
                      snapshot, raced, dirty, server>>
    BY <1>33 DEF DestroyFree, Goto
  <2>2. /\ pc \in [Conn -> PC] /\ freed \in SUBSET Conn
    BY DEF TypeOK
  <2>3. /\ pc' \in [Conn -> PC] /\ freed' \in SUBSET Conn
    BY <2>1, <2>2
  <2> QED BY <2>1, <2>3 DEF TypeOK
<1>34. ASSUME NEW c \in Conn, PrintTree(c) PROVE TypeOK'
  <2>1. /\ pc' = [pc EXCEPT ![c] = "gone"] /\ server' \in {"up", "crashed"}
        /\ dirty' = dirty \ {c}
        /\ UNCHANGED <<peer, sent, in, wire, read, accepting, table, ptr, isClose, freed, subs,
                      registered, mutex, req, num, status, pending, to, frame, part,
                      snapshot, raced>>
    BY <1>34 DEF PrintTree, Goto
  <2>2. /\ pc \in [Conn -> PC] /\ server \in {"up", "crashed"} /\ dirty \in SUBSET Conn
    BY DEF TypeOK
  <2>3. /\ pc' \in [Conn -> PC] /\ server' \in {"up", "crashed"} /\ dirty' \in SUBSET Conn
    BY <2>1, <2>2
  <2> QED BY <2>1, <2>3 DEF TypeOK
<1>35. ASSUME NEW c \in Conn, Peer(c) PROVE TypeOK'
  <2>0. /\ peer \in [Conn -> {"away", "backlog", "open", "closed"}] /\ sent \in [Conn -> Nat]
        /\ in \in [Conn -> Seq(Request)] /\ read \in [Conn -> Nat]
    BY DEF TypeOK
  <2>1. UNCHANGED <<wire, accepting, table, ptr, isClose, freed, subs, registered, mutex, pc,
        req, num, status, pending, to, frame, part, snapshot, raced, dirty, server>>
    BY <1>35 DEF Peer, ServerIdle
  <2>2. /\ peer' \in [Conn -> {"away", "backlog", "open", "closed"}] /\ sent' \in [Conn -> Nat]
        /\ in' \in [Conn -> Seq(Request)] /\ read' \in [Conn -> Nat]
    <3>1. CASE Connect(c)
      BY <2>0, <3>1 DEF Connect
    <3>2. CASE \E r \in RequestsOf[c] : Submit(c, r)
      <4>1. PICK r \in RequestsOf[c] : Submit(c, r)
        BY <3>2
      <4>2. r \in Request
        BY RequestAssumption
      <4>3. Append(in[c], r) \in Seq(Request)
        BY <2>0, <4>2, AppendProperties
      <4> QED BY <2>0, <4>1, <4>3 DEF Submit
    <3>3. CASE PeerRead(c)
      BY <2>0, <3>3 DEF PeerRead
    <3>4. CASE Disconnect(c)
      BY <2>0, <3>4 DEF Disconnect
    <3> QED BY <1>35, <3>1, <3>2, <3>3, <3>4 DEF Peer
  <2> QED BY <2>1, <2>2 DEF TypeOK
<1> QED
  BY <1>1, <1>2, <1>3, <1>4, <1>5, <1>6, <1>7, <1>8, <1>9, <1>10, <1>11, <1>12, <1>13, <1>14,
     <1>15, <1>16, <1>17, <1>18, <1>19, <1>20, <1>21, <1>22, <1>23, <1>24, <1>25, <1>26, <1>27,
     <1>28, <1>29, <1>30, <1>31, <1>32, <1>33, <1>34, <1>35 DEF Next, Thread, Accept, Handler,
     Send, Destroy

-----------------------------------------------------------------------------
(***************************************************************************)
(* Threads and the clients they serve.                                     *)
(***************************************************************************)
\* A connection has no thread before broker__accept is done with it.
LEMMA AcceptedAway ==
    ASSUME ControlInv, NEW c \in Conn, AcceptEnd(c) \/ AcceptNoThread(c)
    PROVE  pc[c] = "away"
  BY ServerAssumption DEF ControlInv, AcceptEnd, AcceptNoThread

\* A connection that its peer or the broker has closed stays closed.
LEMMA PeerStays ==
    ASSUME TypeOK, Next, NEW d \in Conn, peer[d] = "closed"
    PROVE  peer'[d] = "closed"
<1>0. peer \in [Conn -> {"away", "backlog", "open", "closed"}]
  BY DEF TypeOK
<1>1. ASSUME NEW c \in Conn, Peer(c) PROVE peer'[d] = "closed"
  BY <1>0, <1>1 DEF Peer, Connect, Submit, PeerRead, Disconnect
<1>2. ASSUME NEW c \in Conn, NEW p \in Ptr, AcceptBegin(c, p) PROVE peer'[d] = "closed"
  BY <1>0, <1>2 DEF AcceptBegin
<1>3. ASSUME NEW c \in Conn, DestroyClose(c) PROVE peer'[d] = "closed"
  BY <1>0, <1>3 DEF DestroyClose
<1>4. ASSUME NEW c \in Conn, AcceptEnd(c) \/ AcceptNoThread(c) \/ AcceptFail \/ TableCrash(c)
             \/ Recv(c) \/ RecvFail(c) \/ Handler(c) \/ Send(c)
             \/ DestroyRemove(c) \/ DestroyUnsub(c) \/ DestroyFree(c) \/ PrintTree(c)
      PROVE  peer' = peer
  BY <1>4 DEF AcceptEnd, AcceptNoThread, AcceptFail, TableCrash, Recv, RecvFail, Handler,
     HandleSimple, PubNoTopic, PubFind, SubNoTopic, SubEnter, SubAdd, UnsubNoTag, UnsubRemove,
     UnsubDel, DeliverSkip, DeliverNoRoom, DeliverHit, DeliverMiss, DeliverEnd, HandleReply,
     ReplyNoRoom, Send, SendLock, SendHeader, SendRest, SendError, SendStale, DestroyRemove,
     DestroyUnsub, DestroyFree, PrintTree
<1>5. ASSUME AcceptFail PROVE peer' = peer
  BY <1>5 DEF AcceptFail
<1> QED
  BY <1>1, <1>2, <1>3, <1>4, <1>5 DEF Next, Thread, Accept, Destroy

\* A thread goes through client__destroy in order: the client is marked closed,
\* with its socket, before it is freed. broker__accept takes a new connection,
\* which has no thread.
LEMMA ControlStep ==
    ASSUME TypeOK, ControlInv, Next
    PROVE  ControlInv'
<1>0. /\ pc \in [Conn -> PC] /\ isClose \in SUBSET Conn /\ freed \in SUBSET Conn
      /\ peer \in [Conn -> {"away", "backlog", "open", "closed"}]
      /\ ptr \in [Conn -> Ptr \cup {NONE}] /\ accepting \in Conn \cup {NONE}
  BY DEF TypeOK
<1>p. \A d \in Conn : peer[d] = "closed" => peer'[d] = "closed"
  BY PeerStays
<1>1. ASSUME NEW c \in Conn, Peer(c) \/ SendStale(c) \/ TableCrash(c) \/ SendHeader(c)
             \/ (\E s \in pending[c] : DeliverSkip(c, s) \/ DeliverNoRoom(c, s)
                                       \/ DeliverMiss(c, s))
      PROVE  ControlInv'
  <2>1. UNCHANGED <<isClose, freed, ptr, accepting, pc>>
    BY <1>1 DEF Peer, Connect, Submit, PeerRead, Disconnect, ServerIdle, SendStale, TableCrash,
       DeliverSkip, DeliverNoRoom, DeliverMiss, SendHeader
  <2> QED BY <1>0, <2>1, ServerAssumption, <1>p DEF ControlInv
<1>2. ASSUME NEW c \in Conn, Recv(c) \/ RecvFail(c) \/ HandleSimple(c) \/ PubNoTopic(c)
             \/ PubFind(c) \/ SubNoTopic(c) \/ (SubEnter(c) /\ Entries(c) # {})
             \/ (SubEnter(c) /\ Entries(c) = {}) \/ SubAdd(c) \/ UnsubNoTag(c)
             \/ (UnsubRemove(c) /\ Entries(c) # {}) \/ (UnsubRemove(c) /\ Entries(c) = {})
             \/ UnsubDel(c) \/ DeliverEnd(c) \/ (HandleReply(c) /\ req[c].ack)
             \/ (HandleReply(c) /\ ~req[c].ack) \/ ReplyNoRoom(c) \/ SendLock(c)
             \/ (SendRest(c) /\ frame[c].op = "MSG") \/ (SendRest(c) /\ frame[c].op # "MSG")
             \/ (SendError(c) /\ frame[c].op = "MSG") \/ (SendError(c) /\ frame[c].op # "MSG")
             \/ DestroyRemove(c) \/ DestroyUnsub(c) \/ PrintTree(c)
             \/ (\E s \in pending[c] : DeliverHit(c, s))
      PROVE  ControlInv'
  <2>1. /\ UNCHANGED <<isClose, freed, ptr, accepting>>
        /\ \/ /\ pc[c] \notin {"away", "free", "print", "gone"}
              /\ \E l \in PC \ {"away", "free", "print", "gone"} : pc' = [pc EXCEPT ![c] = l]
           \/ pc[c] = "print" /\ pc' = [pc EXCEPT ![c] = "gone"]
    BY <1>2 DEF Recv, Goto, RecvFail, HandleSimple, StartSend, PubNoTopic, PubFind, SubNoTopic,
       SubEnter, SubAdd, WriteTree, UnsubNoTag, UnsubRemove, UnsubUnknown, UnsubDel, DeliverHit,
       Target, DeliverEnd, HandleReply, EndRequest, ReplyNoRoom, SendLock, SendRest, EndSend,
       SendError, SendFailed, DestroyRemove, DestroyUnsub, PrintTree, PC
  <2> QED BY <1>0, <2>1, ServerAssumption, <1>p DEF ControlInv
<1>3. ASSUME NEW c \in Conn, \E p \in Ptr : AcceptBegin(c, p) PROVE ControlInv'
  <2>1. /\ ptr[c] = NONE /\ pc' = pc /\ accepting' = c
        /\ (\E p \in Ptr : ptr' = [ptr EXCEPT ![c] = p])
        /\ UNCHANGED <<isClose, freed>>
    BY <1>3 DEF AcceptBegin
  <2> QED BY <1>0, <2>1, ServerAssumption, <1>p DEF ControlInv
<1>4. ASSUME NEW c \in Conn, AcceptEnd(c) PROVE ControlInv'
  <2>1. /\ pc[c] = "away" /\ accepting = c /\ pc' = [pc EXCEPT ![c] = "loop"]
        /\ accepting' = NONE
        /\ UNCHANGED <<isClose, freed, ptr>>
    BY <1>4, AcceptedAway DEF AcceptEnd, Goto
  <2> QED BY <1>0, <2>1, ServerAssumption, <1>p DEF ControlInv
<1>5. ASSUME NEW c \in Conn, AcceptNoThread(c) PROVE ControlInv'
  <2>1. /\ accepting = c /\ pc' = pc /\ accepting' = NONE
        /\ UNCHANGED <<isClose, freed, ptr>>
    BY <1>5 DEF AcceptNoThread
  <2> QED BY <1>0, <2>1, ServerAssumption, <1>p DEF ControlInv
<1>6. ASSUME NEW c \in Conn, DestroyClose(c) PROVE ControlInv'
  <2>1. /\ pc[c] = "close" /\ pc' = [pc EXCEPT ![c] = "free"] /\ isClose' = isClose \cup {c}
        /\ peer' = [peer EXCEPT ![c] = "closed"]
        /\ UNCHANGED <<freed, ptr, accepting>>
    BY <1>6 DEF DestroyClose, Goto
  <2> QED BY <1>0, <2>1, ServerAssumption, <1>p DEF ControlInv
<1>7. ASSUME NEW c \in Conn, DestroyFree(c) PROVE ControlInv'
  <2>1. /\ pc[c] = "free" /\ pc' = [pc EXCEPT ![c] = "print"] /\ freed' = freed \cup {c}
        /\ UNCHANGED <<isClose, ptr, accepting>>
    BY <1>7 DEF DestroyFree, Goto
  <2> QED BY <1>0, <2>1, ServerAssumption, <1>p DEF ControlInv
<1>8. ASSUME AcceptFail PROVE ControlInv'
  <2>1. UNCHANGED <<isClose, freed, ptr, accepting, pc>>
    BY <1>8 DEF AcceptFail
  <2> QED BY <1>0, <2>1, ServerAssumption, <1>p DEF ControlInv
<1> QED
  BY <1>1, <1>2, <1>3, <1>4, <1>5, <1>6, <1>7, <1>8 DEF Next, Thread, Accept, Handler, Send,
     Destroy

\* The thread goes from state to state as its request demands.
LEMMA RequestStep ==
    ASSUME TypeOK, ControlInv, SendInv, RequestInv, Next
    PROVE  RequestInv'
<1>0. /\ pc \in [Conn -> PC] /\ req \in [Conn -> Request]
      /\ pending \in [Conn -> SUBSET Subscription] /\ frame \in [Conn -> Frame]
      /\ status \in [Conn -> {"OK", "ERR"}]
  BY DEF TypeOK
<1>1. ASSUME NEW c \in Conn, Peer(c) \/ (\E p \in Ptr : AcceptBegin(c, p)) \/ AcceptNoThread(c)
             \/ SendStale(c) \/ TableCrash(c) \/ SendHeader(c)
      PROVE  RequestInv'
  <2>1. UNCHANGED <<req, pending, frame, status, pc>>
    BY <1>1 DEF Peer, Connect, Submit, PeerRead, Disconnect, ServerIdle, AcceptBegin,
       AcceptNoThread, SendStale, TableCrash, SendHeader
  <2> QED BY <1>0, <2>1 DEF RequestInv, Sending
<1>2. ASSUME NEW c \in Conn, AcceptEnd(c) \/ RecvFail(c) \/ PubNoTopic(c) \/ ReplyNoRoom(c)
             \/ DestroyRemove(c) \/ DestroyUnsub(c) \/ DestroyClose(c) \/ DestroyFree(c)
             \/ PrintTree(c)
      PROVE  RequestInv'
  <2>1. /\ UNCHANGED <<req, pending, frame, status>>
        /\ pc[c] \notin {"del", "deliver", "lock", "write"}
        /\ \E l \in PC \ {"away", "handle", "add", "del", "deliver", "reply", "lock", "write"} :
              pc' = [pc EXCEPT ![c] = l] /\ (l = "loop" => pc[c] = "away")
    BY <1>2, AcceptedAway DEF AcceptEnd, Goto, RecvFail, PubNoTopic, ReplyNoRoom, DestroyRemove,
       DestroyUnsub, WriteTree, DestroyClose, DestroyFree, PrintTree, PC
  <2> QED BY <1>0, <2>1 DEF RequestInv, Sending
<1>3. ASSUME NEW c \in Conn, Recv(c) PROVE RequestInv'
  <2>1. /\ pc[c] = "loop" /\ in[c] # <<>> /\ pc' = [pc EXCEPT ![c] = "handle"]
        /\ req' = [req EXCEPT ![c] = Head(in[c])]
        /\ UNCHANGED <<pending, frame, status>>
    BY <1>3 DEF Recv, Goto
  <2> QED BY <1>0, <2>1 DEF RequestInv, Sending
<1>4. ASSUME NEW c \in Conn, HandleSimple(c) PROVE RequestInv'
  <2>1. /\ pc[c] = "handle" /\ req[c].op \in {"CONNECT", "NOOP"}
        /\ pc' = [pc EXCEPT ![c] = "lock"]
        /\ frame' = [frame EXCEPT ![c] = Reply(c, IF req[c].op = "CONNECT" THEN "INFO" ELSE "NOOP")]
        /\ UNCHANGED <<req, pending, status>>
    BY <1>4 DEF HandleSimple, StartSend, Goto
  <2> QED BY <1>0, <2>1 DEF RequestInv, Sending
<1>5. ASSUME NEW c \in Conn, PubFind(c) PROVE RequestInv'
  <2>1. /\ pc[c] = "handle" /\ req[c].op = "PUB" /\ req[c].topic # NONE
        /\ pc' = [pc EXCEPT ![c] = "deliver"] /\ pending' = [pending EXCEPT ![c] = Found(c)]
        /\ UNCHANGED <<req, frame, status>>
    BY <1>5 DEF PubFind, Goto, Found
  <2> QED BY <1>0, <2>1 DEF RequestInv, Sending
<1>6. ASSUME NEW c \in Conn, SubNoTopic(c) PROVE RequestInv'
  <2>1. /\ pc[c] = "handle" /\ req[c].op \in {"SUB", "UNSUB"}
        /\ pc' = [pc EXCEPT ![c] = "reply"] /\ status' = [status EXCEPT ![c] = "ERR"]
        /\ UNCHANGED <<req, pending, frame>>
    BY <1>6 DEF SubNoTopic, Goto
  <2> QED BY <1>0, <2>1 DEF RequestInv, Sending
<1>7. ASSUME NEW c \in Conn, SubEnter(c) /\ Entries(c) # {} PROVE RequestInv'
  <2>1. /\ pc[c] = "handle" /\ req[c].op = "SUB" /\ pc' = [pc EXCEPT ![c] = "reply"]
        /\ UNCHANGED <<req, pending, frame, status>>
    BY <1>7 DEF SubEnter, Goto
  <2> QED BY <1>0, <2>1 DEF RequestInv, Sending
<1>8. ASSUME NEW c \in Conn, SubEnter(c) /\ Entries(c) = {} PROVE RequestInv'
  <2>1. /\ pc[c] = "handle" /\ req[c].op = "SUB" /\ req[c].topic # NONE
        /\ pc' = [pc EXCEPT ![c] = "add"]
        /\ UNCHANGED <<req, pending, frame, status>>
    BY <1>8 DEF SubEnter, Goto
  <2> QED BY <1>0, <2>1 DEF RequestInv, Sending
<1>9. ASSUME NEW c \in Conn, SubAdd(c) PROVE RequestInv'
  <2>1. /\ pc[c] = "add" /\ pc' = [pc EXCEPT ![c] = "reply"]
        /\ UNCHANGED <<req, pending, frame, status>>
    BY <1>9 DEF SubAdd, WriteTree, Goto
  <2> QED BY <1>0, <2>1 DEF RequestInv, Sending
<1>10. ASSUME NEW c \in Conn, UnsubNoTag(c) PROVE RequestInv'
  <2>1. /\ pc[c] = "handle" /\ req[c].op = "UNSUB" /\ pc' = [pc EXCEPT ![c] = "reply"]
        /\ status' = [status EXCEPT ![c] = "ERR"]
        /\ UNCHANGED <<req, pending, frame>>
    BY <1>10 DEF UnsubNoTag, Goto
  <2> QED BY <1>0, <2>1 DEF RequestInv, Sending
<1>11. ASSUME NEW c \in Conn, UnsubRemove(c) /\ Entries(c) # {} PROVE RequestInv'
  <2>1. /\ pc[c] = "handle" /\ req[c].op = "UNSUB" /\ req[c].topic # NONE
        /\ pc' = [pc EXCEPT ![c] = "del"]
        /\ pending' = [pending EXCEPT ![c] =
                      {[conn |-> c, topic |-> key[1], tag |-> key[2]] : key \in Entries(c)}]
        /\ UNCHANGED <<req, frame, status>>
    BY <1>11 DEF UnsubRemove, Goto
  <2> QED BY <1>0, <2>1 DEF RequestInv, Sending
<1>12. ASSUME NEW c \in Conn, UnsubRemove(c) /\ Entries(c) = {} PROVE RequestInv'
  <2>1. /\ pc[c] = "handle" /\ req[c].op = "UNSUB" /\ pc' = [pc EXCEPT ![c] = "reply"]
        /\ status' = [status EXCEPT ![c] = "ERR"]
        /\ UNCHANGED <<req, pending, frame>>
    BY <1>12 DEF UnsubRemove, UnsubUnknown, Goto
  <2> QED BY <1>0, <2>1 DEF RequestInv, Sending
<1>13. ASSUME NEW c \in Conn, UnsubDel(c) PROVE RequestInv'
  <2>1. /\ pc[c] = "del" /\ pc' = [pc EXCEPT ![c] = "reply"]
        /\ pending' = [pending EXCEPT ![c] = {}]
        /\ UNCHANGED <<req, frame, status>>
    BY <1>13 DEF UnsubDel, WriteTree, Goto
  <2> QED BY <1>0, <2>1 DEF RequestInv, Sending
<1>14. ASSUME NEW c \in Conn, NEW s \in pending[c], DeliverSkip(c, s)
      PROVE  RequestInv'
  <2>1. /\ pc[c] = "deliver" /\ s \in pending[c] /\ Skips(c, s) /\ pc' = pc
        /\ pending' = [pending EXCEPT ![c] = @ \ {s}]
        /\ UNCHANGED <<req, frame, status>>
    BY <1>14 DEF DeliverSkip
  <2> QED BY <1>0, <2>1 DEF RequestInv, Sending
<1>15. ASSUME NEW c \in Conn, NEW s \in pending[c], DeliverNoRoom(c, s)
      PROVE  RequestInv'
  <2>1. /\ pc[c] = "deliver" /\ s \in pending[c] /\ ~Skips(c, s) /\ req[c].room # "all"
        /\ pc' = pc /\ pending' = [pending EXCEPT ![c] = @ \ {s}]
        /\ UNCHANGED <<req, frame, status>>
    BY <1>15 DEF DeliverNoRoom
  <2> QED BY <1>0, <2>1 DEF RequestInv, Sending
<1>16. ASSUME NEW c \in Conn, NEW s \in pending[c], DeliverMiss(c, s)
      PROVE  RequestInv'
  <2>1. /\ pc[c] = "deliver" /\ s \in pending[c] /\ ~Skips(c, s)
        /\ (Target(s) \subseteq Closed \/ accepting # NONE) /\ pc' = pc
        /\ pending' = [pending EXCEPT ![c] = @ \ {s}]
        /\ UNCHANGED <<req, frame, status>>
    BY <1>16 DEF DeliverMiss
  <2> QED BY <1>0, <2>1 DEF RequestInv, Sending
<1>17. ASSUME NEW c \in Conn, NEW s \in pending[c], DeliverHit(c, s)
      PROVE  RequestInv'
  <2>1. /\ pc[c] = "deliver" /\ s \in pending[c] /\ ~Skips(c, s) /\ s.conn \in table \ Closed
        /\ pc' = [pc EXCEPT ![c] = "lock"] /\ pending' = [pending EXCEPT ![c] = @ \ {s}]
        /\ frame' = [frame EXCEPT ![c] = [op |-> "MSG", from |-> c, n |-> num[c], sub |-> s]]
        /\ UNCHANGED <<req, status>>
    BY <1>17 DEF DeliverHit, StartSend, Target, Goto
  <2> QED BY <1>0, <2>1 DEF RequestInv, Sending
<1>18. ASSUME NEW c \in Conn, DeliverEnd(c) PROVE RequestInv'
  <2>1. /\ pc[c] = "deliver" /\ pending[c] = {} /\ pc' = [pc EXCEPT ![c] = "reply"]
        /\ UNCHANGED <<req, pending, frame, status>>
    BY <1>18 DEF DeliverEnd, Goto
  <2> QED BY <1>0, <2>1 DEF RequestInv, Sending
<1>19. ASSUME NEW c \in Conn, HandleReply(c) /\ req[c].ack PROVE RequestInv'
  <2>1. /\ pc[c] = "reply" /\ req[c].ack /\ pc' = [pc EXCEPT ![c] = "lock"]
        /\ frame' = [frame EXCEPT ![c] = Reply(c, status[c])]
        /\ UNCHANGED <<req, pending, status>>
    BY <1>19 DEF HandleReply, StartSend, Goto
  <2> QED BY <1>0, <2>1 DEF RequestInv, Sending, Reply
<1>20. ASSUME NEW c \in Conn, HandleReply(c) /\ ~req[c].ack PROVE RequestInv'
  <2>1. /\ pc[c] = "reply" /\ pc' = [pc EXCEPT ![c] = "loop"]
        /\ req' = [req EXCEPT ![c] = NoRequest] /\ status' = [status EXCEPT ![c] = "OK"]
        /\ UNCHANGED <<pending, frame>>
    BY <1>20 DEF HandleReply, EndRequest, Goto
  <2> QED BY <1>0, <2>1 DEF RequestInv, Sending
<1>21. ASSUME NEW c \in Conn, SendLock(c) PROVE RequestInv'
  <2>1. /\ pc[c] = "lock" /\ mutex[to[c]] = NONE /\ pc' = [pc EXCEPT ![c] = "write"]
        /\ UNCHANGED <<req, pending, frame, status>>
    BY <1>21 DEF SendLock, Goto
  <2> QED BY <1>0, <2>1 DEF RequestInv, Sending
<1>22. ASSUME NEW c \in Conn, SendRest(c) /\ frame[c].op = "MSG" PROVE RequestInv'
  <2>1. /\ pc[c] = "write" /\ part[c] = 1 /\ to[c] \notin isClose /\ frame[c].op = "MSG"
        /\ pc' = [pc EXCEPT ![c] = "deliver"] /\ frame' = [frame EXCEPT ![c] = NoFrame(c)]
        /\ req[c].op = "PUB"
        /\ UNCHANGED <<req, pending, status>>
    BY <1>22 DEF SendRest, EndSend, Goto, SendInv, Sending
  <2> QED BY <1>0, <2>1 DEF RequestInv, Sending
<1>23. ASSUME NEW c \in Conn, SendRest(c) /\ frame[c].op # "MSG" PROVE RequestInv'
  <2>1. /\ pc[c] = "write" /\ part[c] = 1 /\ to[c] \notin isClose /\ frame[c].op # "MSG"
        /\ pc' = [pc EXCEPT ![c] = "loop"] /\ req' = [req EXCEPT ![c] = NoRequest]
        /\ frame' = [frame EXCEPT ![c] = NoFrame(c)] /\ status' = [status EXCEPT ![c] = "OK"]
        /\ pending' = pending
    BY <1>23 DEF SendRest, EndSend, EndRequest, Goto
  <2> QED BY <1>0, <2>1 DEF RequestInv, Sending
<1>24. ASSUME NEW c \in Conn, SendError(c) /\ frame[c].op = "MSG" PROVE RequestInv'
  <2>1. /\ pc[c] = "write" /\ peer[to[c]] = "closed" /\ frame[c].op = "MSG"
        /\ pc' = [pc EXCEPT ![c] = "deliver"] /\ frame' = [frame EXCEPT ![c] = NoFrame(c)]
        /\ req[c].op = "PUB"
        /\ UNCHANGED <<req, pending, status>>
    BY <1>24 DEF SendError, SendFailed, EndSend, Goto, SendInv, Sending
  <2> QED BY <1>0, <2>1 DEF RequestInv, Sending
<1>25. ASSUME NEW c \in Conn, SendError(c) /\ frame[c].op # "MSG" PROVE RequestInv'
  <2>1. /\ pc[c] = "write" /\ peer[to[c]] = "closed" /\ frame[c].op # "MSG"
        /\ pc' = [pc EXCEPT ![c] = "destroy"] /\ frame' = [frame EXCEPT ![c] = NoFrame(c)]
        /\ UNCHANGED <<req, pending, status>>
    BY <1>25 DEF SendError, SendFailed, EndSend, Goto
  <2> QED BY <1>0, <2>1 DEF RequestInv, Sending
<1>26. ASSUME AcceptFail PROVE RequestInv'
  <2>1. UNCHANGED <<req, pending, frame, status, pc>>
    BY <1>26 DEF AcceptFail
  <2> QED BY <1>0, <2>1 DEF RequestInv, Sending
<1> QED
  BY <1>1, <1>2, <1>3, <1>4, <1>5, <1>6, <1>7, <1>8, <1>9, <1>10, <1>11, <1>12, <1>13, <1>14,
     <1>15, <1>16, <1>17, <1>18, <1>19, <1>20, <1>21, <1>22, <1>23, <1>24, <1>25, <1>26 DEF
     Next, Thread, Accept, Handler, Send, Destroy

\* A send is of the frame that was started, to the client it was started for.
LEMMA SendStep ==
    ASSUME TypeOK, ControlInv, RequestInv, SnapshotInv, SendInv, Next
    PROVE  SendInv'
<1>0. /\ pc \in [Conn -> PC] /\ to \in [Conn -> Conn] /\ frame \in [Conn -> Frame]
      /\ part \in [Conn -> 0..1] /\ num \in [Conn -> Nat]
      /\ snapshot \in [Conn -> SUBSET Subscription]
      /\ pending \in [Conn -> SUBSET Subscription] /\ req \in [Conn -> Request]
      /\ status \in [Conn -> {"OK", "ERR"}]
  BY DEF TypeOK
<1>1. ASSUME NEW c \in Conn, Peer(c) \/ (\E p \in Ptr : AcceptBegin(c, p)) \/ AcceptNoThread(c)
             \/ SendStale(c) \/ TableCrash(c)
      PROVE  SendInv'
  <2>1. UNCHANGED <<to, frame, part, num, snapshot, pending, req, status, pc>>
    BY <1>1 DEF Peer, Connect, Submit, PeerRead, Disconnect, ServerIdle, AcceptBegin,
       AcceptNoThread, SendStale, TableCrash
  <2> QED BY <1>0, <2>1 DEF SendInv, Sending, Skips, NoFrame
<1>2. ASSUME NEW c \in Conn, AcceptEnd(c) \/ RecvFail(c) \/ PubNoTopic(c)
             \/ (SubEnter(c) /\ Entries(c) # {}) \/ (SubEnter(c) /\ Entries(c) = {})
             \/ SubAdd(c) \/ DeliverEnd(c) \/ ReplyNoRoom(c) \/ DestroyRemove(c)
             \/ DestroyUnsub(c) \/ DestroyClose(c) \/ DestroyFree(c) \/ PrintTree(c)
      PROVE  SendInv'
  <2>1. /\ UNCHANGED <<to, frame, part, num, snapshot, pending, req, status>>
        /\ pc[c] \notin {"lock", "write"}
        /\ \E l \in PC \ {"lock", "write"} : pc' = [pc EXCEPT ![c] = l]
    BY <1>2, AcceptedAway DEF AcceptEnd, Goto, RecvFail, PubNoTopic, SubEnter, SubAdd,
       WriteTree, DeliverEnd, ReplyNoRoom, DestroyRemove, DestroyUnsub, DestroyClose,
       DestroyFree, PrintTree, PC
  <2> QED BY <1>0, <2>1 DEF SendInv, Sending, Skips, NoFrame
<1>3. ASSUME NEW c \in Conn, Recv(c) PROVE SendInv'
  <2>1. /\ pc[c] = "loop" /\ in[c] # <<>> /\ pc' = [pc EXCEPT ![c] = "handle"]
        /\ num' = [num EXCEPT ![c] = @ + 1] /\ req' = [req EXCEPT ![c] = Head(in[c])]
        /\ UNCHANGED <<to, frame, part, snapshot, pending, status>>
    BY <1>3 DEF Recv, Goto
  <2> QED BY <1>0, <2>1 DEF SendInv, Sending, Skips, NoFrame
<1>4. ASSUME NEW c \in Conn, HandleSimple(c) PROVE SendInv'
  <2>1. /\ pc[c] = "handle" /\ req[c].op \in {"CONNECT", "NOOP"}
        /\ pc' = [pc EXCEPT ![c] = "lock"] /\ to' = [to EXCEPT ![c] = c]
        /\ frame' = [frame EXCEPT ![c] = Reply(c, IF req[c].op = "CONNECT" THEN "INFO" ELSE "NOOP")]
        /\ part' = [part EXCEPT ![c] = 0]
        /\ UNCHANGED <<num, snapshot, pending, req, status>>
    BY <1>4 DEF HandleSimple, StartSend, Goto
  <2> QED BY <1>0, <2>1 DEF SendInv, Sending, Skips, NoFrame, Reply
<1>5. ASSUME NEW c \in Conn, PubFind(c) PROVE SendInv'
  <2>1. /\ pc[c] = "handle" /\ req[c].op = "PUB" /\ req[c].topic # NONE
        /\ pc' = [pc EXCEPT ![c] = "deliver"] /\ snapshot' = [snapshot EXCEPT ![c] = Found(c)]
        /\ pending' = [pending EXCEPT ![c] = Found(c)]
        /\ UNCHANGED <<to, frame, part, num, req, status>>
    BY <1>5 DEF PubFind, Goto, Found
  <2> QED BY <1>0, <2>1 DEF SendInv, Sending, Skips, NoFrame
<1>6. ASSUME NEW c \in Conn, SubNoTopic(c) PROVE SendInv'
  <2>1. /\ pc[c] = "handle" /\ req[c].op \in {"SUB", "UNSUB"}
        /\ pc' = [pc EXCEPT ![c] = "reply"] /\ status' = [status EXCEPT ![c] = "ERR"]
        /\ UNCHANGED <<to, frame, part, num, snapshot, pending, req>>
    BY <1>6 DEF SubNoTopic, Goto
  <2> QED BY <1>0, <2>1 DEF SendInv, Sending, Skips, NoFrame
<1>7. ASSUME NEW c \in Conn, UnsubNoTag(c) PROVE SendInv'
  <2>1. /\ pc[c] = "handle" /\ req[c].op = "UNSUB" /\ pc' = [pc EXCEPT ![c] = "reply"]
        /\ status' = [status EXCEPT ![c] = "ERR"]
        /\ UNCHANGED <<to, frame, part, num, snapshot, pending, req>>
    BY <1>7 DEF UnsubNoTag, Goto
  <2> QED BY <1>0, <2>1 DEF SendInv, Sending, Skips, NoFrame
<1>8. ASSUME NEW c \in Conn, UnsubRemove(c) /\ Entries(c) # {} PROVE SendInv'
  <2>1. /\ pc[c] = "handle" /\ req[c].op = "UNSUB" /\ req[c].topic # NONE
        /\ pc' = [pc EXCEPT ![c] = "del"]
        /\ pending' = [pending EXCEPT ![c] =
                      {[conn |-> c, topic |-> key[1], tag |-> key[2]] : key \in Entries(c)}]
        /\ UNCHANGED <<to, frame, part, num, snapshot, req, status>>
    BY <1>8 DEF UnsubRemove, Goto
  <2> QED BY <1>0, <2>1 DEF SendInv, Sending, Skips, NoFrame
<1>9. ASSUME NEW c \in Conn, UnsubRemove(c) /\ Entries(c) = {} PROVE SendInv'
  <2>1. /\ pc[c] = "handle" /\ req[c].op = "UNSUB" /\ pc' = [pc EXCEPT ![c] = "reply"]
        /\ status' = [status EXCEPT ![c] = "ERR"]
        /\ UNCHANGED <<to, frame, part, num, snapshot, pending, req>>
    BY <1>9 DEF UnsubRemove, UnsubUnknown, Goto
  <2> QED BY <1>0, <2>1 DEF SendInv, Sending, Skips, NoFrame
<1>10. ASSUME NEW c \in Conn, UnsubDel(c) PROVE SendInv'
  <2>1. /\ pc[c] = "del" /\ pc' = [pc EXCEPT ![c] = "reply"]
        /\ pending' = [pending EXCEPT ![c] = {}]
        /\ UNCHANGED <<to, frame, part, num, snapshot, req, status>>
    BY <1>10 DEF UnsubDel, WriteTree, Goto
  <2> QED BY <1>0, <2>1 DEF SendInv, Sending, Skips, NoFrame
<1>11. ASSUME NEW c \in Conn, NEW s \in pending[c], DeliverSkip(c, s)
      PROVE  SendInv'
  <2>1. /\ pc[c] = "deliver" /\ s \in pending[c] /\ Skips(c, s) /\ pc' = pc
        /\ pending' = [pending EXCEPT ![c] = @ \ {s}]
        /\ UNCHANGED <<to, frame, part, num, snapshot, req, status>>
    BY <1>11 DEF DeliverSkip
  <2> QED BY <1>0, <2>1 DEF SendInv, Sending, Skips, NoFrame
<1>12. ASSUME NEW c \in Conn, NEW s \in pending[c], DeliverNoRoom(c, s)
      PROVE  SendInv'
  <2>1. /\ pc[c] = "deliver" /\ s \in pending[c] /\ ~Skips(c, s) /\ req[c].room # "all"
        /\ pc' = pc /\ pending' = [pending EXCEPT ![c] = @ \ {s}]
        /\ UNCHANGED <<to, frame, part, num, snapshot, req, status>>
    BY <1>12 DEF DeliverNoRoom
  <2> QED BY <1>0, <2>1 DEF SendInv, Sending, Skips, NoFrame
<1>13. ASSUME NEW c \in Conn, NEW s \in pending[c], DeliverMiss(c, s)
      PROVE  SendInv'
  <2>1. /\ pc[c] = "deliver" /\ s \in pending[c] /\ ~Skips(c, s)
        /\ (Target(s) \subseteq Closed \/ accepting # NONE) /\ pc' = pc
        /\ pending' = [pending EXCEPT ![c] = @ \ {s}]
        /\ UNCHANGED <<to, frame, part, num, snapshot, req, status>>
    BY <1>13 DEF DeliverMiss
  <2> QED BY <1>0, <2>1 DEF SendInv, Sending, Skips, NoFrame
<1>14. ASSUME NEW c \in Conn, NEW s \in pending[c], DeliverHit(c, s)
      PROVE  SendInv'
  <2>1. /\ pc[c] = "deliver" /\ s \in pending[c] /\ ~Skips(c, s) /\ s.conn \in table \ Closed
        /\ pc' = [pc EXCEPT ![c] = "lock"] /\ to' = [to EXCEPT ![c] = s.conn]
        /\ frame' = [frame EXCEPT ![c] = [op |-> "MSG", from |-> c, n |-> num[c], sub |-> s]]
        /\ part' = [part EXCEPT ![c] = 0] /\ pending' = [pending EXCEPT ![c] = @ \ {s}]
        /\ req[c].op = "PUB" /\ s \in snapshot[c]
        /\ UNCHANGED <<num, snapshot, req, status>>
    BY <1>14 DEF DeliverHit, StartSend, Target, Goto, RequestInv, SnapshotInv
  <2> QED BY <1>0, <2>1 DEF SendInv, Sending, Skips, NoFrame
<1>15. ASSUME NEW c \in Conn, HandleReply(c) /\ req[c].ack PROVE SendInv'
  <2>1. /\ pc[c] = "reply" /\ req[c].ack /\ pc' = [pc EXCEPT ![c] = "lock"]
        /\ to' = [to EXCEPT ![c] = c] /\ frame' = [frame EXCEPT ![c] = Reply(c, status[c])]
        /\ part' = [part EXCEPT ![c] = 0]
        /\ UNCHANGED <<num, snapshot, pending, req, status>>
    BY <1>15 DEF HandleReply, StartSend, Goto
  <2> QED BY <1>0, <2>1 DEF SendInv, Sending, Skips, NoFrame, Reply, RequestInv
<1>16. ASSUME NEW c \in Conn, HandleReply(c) /\ ~req[c].ack PROVE SendInv'
  <2>1. /\ pc[c] = "reply" /\ pc' = [pc EXCEPT ![c] = "loop"]
        /\ snapshot' = [snapshot EXCEPT ![c] = {}] /\ req' = [req EXCEPT ![c] = NoRequest]
        /\ status' = [status EXCEPT ![c] = "OK"]
        /\ UNCHANGED <<to, frame, part, num, pending>>
    BY <1>16 DEF HandleReply, EndRequest, Goto
  <2> QED BY <1>0, <2>1 DEF SendInv, Sending, Skips, NoFrame
<1>17. ASSUME NEW c \in Conn, SendLock(c) PROVE SendInv'
  <2>1. /\ pc[c] = "lock" /\ mutex[to[c]] = NONE /\ pc' = [pc EXCEPT ![c] = "write"]
        /\ UNCHANGED <<to, frame, part, num, snapshot, pending, req, status>>
    BY <1>17 DEF SendLock, Goto
  <2> QED BY <1>0, <2>1 DEF SendInv, Sending, Skips, NoFrame
<1>18. ASSUME NEW c \in Conn, SendHeader(c) PROVE SendInv'
  <2>1. /\ pc[c] = "write" /\ part[c] = 0 /\ to[c] \notin isClose /\ pc' = pc
        /\ part' = [part EXCEPT ![c] = 1]
        /\ UNCHANGED <<to, frame, num, snapshot, pending, req, status>>
    BY <1>18 DEF SendHeader
  <2> QED BY <1>0, <2>1 DEF SendInv, Sending, Skips, NoFrame
<1>19. ASSUME NEW c \in Conn, SendRest(c) /\ frame[c].op = "MSG" PROVE SendInv'
  <2>1. /\ pc[c] = "write" /\ part[c] = 1 /\ to[c] \notin isClose /\ frame[c].op = "MSG"
        /\ pc' = [pc EXCEPT ![c] = "deliver"] /\ to' = [to EXCEPT ![c] = c]
        /\ frame' = [frame EXCEPT ![c] = NoFrame(c)] /\ part' = [part EXCEPT ![c] = 0]
        /\ UNCHANGED <<num, snapshot, pending, req, status>>
    BY <1>19 DEF SendRest, EndSend, Goto
  <2> QED BY <1>0, <2>1 DEF SendInv, Sending, Skips, NoFrame
<1>20. ASSUME NEW c \in Conn, SendRest(c) /\ frame[c].op # "MSG" PROVE SendInv'
  <2>1. /\ pc[c] = "write" /\ part[c] = 1 /\ to[c] \notin isClose /\ frame[c].op # "MSG"
        /\ pc' = [pc EXCEPT ![c] = "loop"] /\ to' = [to EXCEPT ![c] = c]
        /\ frame' = [frame EXCEPT ![c] = NoFrame(c)] /\ part' = [part EXCEPT ![c] = 0]
        /\ snapshot' = [snapshot EXCEPT ![c] = {}] /\ req' = [req EXCEPT ![c] = NoRequest]
        /\ status' = [status EXCEPT ![c] = "OK"]
        /\ UNCHANGED <<num, pending>>
    BY <1>20 DEF SendRest, EndSend, EndRequest, Goto
  <2> QED BY <1>0, <2>1 DEF SendInv, Sending, Skips, NoFrame
<1>21. ASSUME NEW c \in Conn, SendError(c) /\ frame[c].op = "MSG" PROVE SendInv'
  <2>1. /\ pc[c] = "write" /\ peer[to[c]] = "closed" /\ frame[c].op = "MSG"
        /\ pc' = [pc EXCEPT ![c] = "deliver"] /\ to' = [to EXCEPT ![c] = c]
        /\ frame' = [frame EXCEPT ![c] = NoFrame(c)] /\ part' = [part EXCEPT ![c] = 0]
        /\ UNCHANGED <<num, snapshot, pending, req, status>>
    BY <1>21 DEF SendError, SendFailed, EndSend, Goto
  <2> QED BY <1>0, <2>1 DEF SendInv, Sending, Skips, NoFrame
<1>22. ASSUME NEW c \in Conn, SendError(c) /\ frame[c].op # "MSG" PROVE SendInv'
  <2>1. /\ pc[c] = "write" /\ peer[to[c]] = "closed" /\ frame[c].op # "MSG"
        /\ pc' = [pc EXCEPT ![c] = "destroy"] /\ to' = [to EXCEPT ![c] = c]
        /\ frame' = [frame EXCEPT ![c] = NoFrame(c)] /\ part' = [part EXCEPT ![c] = 0]
        /\ UNCHANGED <<num, snapshot, pending, req, status>>
    BY <1>22 DEF SendError, SendFailed, EndSend, Goto
  <2> QED BY <1>0, <2>1 DEF SendInv, Sending, Skips, NoFrame
<1>23. ASSUME AcceptFail PROVE SendInv'
  <2>1. UNCHANGED <<to, frame, part, num, snapshot, pending, req, status, pc>>
    BY <1>23 DEF AcceptFail
  <2> QED BY <1>0, <2>1 DEF SendInv, Sending, Skips, NoFrame
<1> QED
  BY <1>1, <1>2, <1>3, <1>4, <1>5, <1>6, <1>7, <1>8, <1>9, <1>10, <1>11, <1>12, <1>13, <1>14,
     <1>15, <1>16, <1>17, <1>18, <1>19, <1>20, <1>21, <1>22, <1>23 DEF Next, Thread, Accept,
     Handler, Send, Destroy

\* Only the holder of a mutex lets it go.
LEMMA MutexStep ==
    ASSUME TypeOK, ControlInv, MutexInv, Next
    PROVE  MutexInv'
<1>0. /\ pc \in [Conn -> PC] /\ to \in [Conn -> Conn] /\ mutex \in [Conn -> Conn \cup {NONE}]
  BY DEF TypeOK
<1>1. ASSUME NEW c \in Conn, Peer(c) \/ (\E p \in Ptr : AcceptBegin(c, p)) \/ AcceptNoThread(c)
             \/ SendStale(c) \/ TableCrash(c) \/ SendHeader(c)
             \/ (\E s \in pending[c] : DeliverSkip(c, s) \/ DeliverNoRoom(c, s)
                                       \/ DeliverMiss(c, s))
      PROVE  MutexInv'
  <2>1. UNCHANGED <<mutex, to, pc>>
    BY <1>1 DEF Peer, Connect, Submit, PeerRead, Disconnect, ServerIdle, AcceptBegin,
       AcceptNoThread, SendStale, TableCrash, DeliverSkip, DeliverNoRoom, DeliverMiss,
       SendHeader
  <2> QED BY <1>0, <2>1, ServerAssumption DEF MutexInv
<1>2. ASSUME NEW c \in Conn, AcceptEnd(c) \/ Recv(c) \/ RecvFail(c) \/ PubNoTopic(c)
             \/ PubFind(c) \/ SubNoTopic(c) \/ (SubEnter(c) /\ Entries(c) # {})
             \/ (SubEnter(c) /\ Entries(c) = {}) \/ SubAdd(c) \/ UnsubNoTag(c)
             \/ (UnsubRemove(c) /\ Entries(c) # {}) \/ (UnsubRemove(c) /\ Entries(c) = {})
             \/ UnsubDel(c) \/ DeliverEnd(c) \/ (HandleReply(c) /\ ~req[c].ack)
             \/ ReplyNoRoom(c) \/ DestroyRemove(c) \/ DestroyUnsub(c) \/ DestroyClose(c)
             \/ DestroyFree(c) \/ PrintTree(c)
      PROVE  MutexInv'
  <2>1. /\ UNCHANGED <<mutex, to>>
        /\ pc[c] # "write" /\ \E l \in PC \ {"write"} : pc' = [pc EXCEPT ![c] = l]
    BY <1>2, AcceptedAway DEF AcceptEnd, Goto, Recv, RecvFail, PubNoTopic, PubFind, SubNoTopic,
       SubEnter, SubAdd, WriteTree, UnsubNoTag, UnsubRemove, UnsubUnknown, UnsubDel, DeliverEnd,
       HandleReply, EndRequest, ReplyNoRoom, DestroyRemove, DestroyUnsub, DestroyClose,
       DestroyFree, PrintTree, PC
  <2> QED BY <1>0, <2>1, ServerAssumption DEF MutexInv
<1>3. ASSUME NEW c \in Conn, HandleSimple(c) PROVE MutexInv'
  <2>1. /\ pc[c] = "handle" /\ req[c].op \in {"CONNECT", "NOOP"}
        /\ pc' = [pc EXCEPT ![c] = "lock"] /\ to' = [to EXCEPT ![c] = c] /\ mutex' = mutex
    BY <1>3 DEF HandleSimple, StartSend, Goto
  <2> QED BY <1>0, <2>1, ServerAssumption DEF MutexInv
<1>4. ASSUME NEW c \in Conn, NEW s \in pending[c], DeliverHit(c, s)
      PROVE  MutexInv'
  <2>1. /\ pc[c] = "deliver" /\ s \in pending[c] /\ ~Skips(c, s) /\ s.conn \in table \ Closed
        /\ pc' = [pc EXCEPT ![c] = "lock"] /\ to' = [to EXCEPT ![c] = s.conn] /\ mutex' = mutex
    BY <1>4 DEF DeliverHit, StartSend, Target, Goto
  <2> QED BY <1>0, <2>1, ServerAssumption DEF MutexInv
<1>5. ASSUME NEW c \in Conn, HandleReply(c) /\ req[c].ack PROVE MutexInv'
  <2>1. /\ pc[c] = "reply" /\ req[c].ack /\ pc' = [pc EXCEPT ![c] = "lock"]
        /\ to' = [to EXCEPT ![c] = c] /\ mutex' = mutex
    BY <1>5 DEF HandleReply, StartSend, Goto
  <2> QED BY <1>0, <2>1, ServerAssumption DEF MutexInv
<1>6. ASSUME NEW c \in Conn, SendLock(c) PROVE MutexInv'
  <2>1. /\ pc[c] = "lock" /\ mutex[to[c]] = NONE /\ pc' = [pc EXCEPT ![c] = "write"]
        /\ mutex' = [mutex EXCEPT ![to[c]] = c] /\ to' = to
    BY <1>6 DEF SendLock, Goto
  <2> QED BY <1>0, <2>1, ServerAssumption DEF MutexInv
<1>7. ASSUME NEW c \in Conn, SendRest(c) /\ frame[c].op = "MSG" PROVE MutexInv'
  <2>1. /\ pc[c] = "write" /\ part[c] = 1 /\ to[c] \notin isClose /\ frame[c].op = "MSG"
        /\ pc' = [pc EXCEPT ![c] = "deliver"] /\ mutex' = [mutex EXCEPT ![to[c]] = NONE]
        /\ to' = [to EXCEPT ![c] = c]
    BY <1>7 DEF SendRest, EndSend, Goto
  <2> QED BY <1>0, <2>1, ServerAssumption DEF MutexInv
<1>8. ASSUME NEW c \in Conn, SendRest(c) /\ frame[c].op # "MSG" PROVE MutexInv'
  <2>1. /\ pc[c] = "write" /\ part[c] = 1 /\ to[c] \notin isClose /\ frame[c].op # "MSG"
        /\ pc' = [pc EXCEPT ![c] = "loop"] /\ mutex' = [mutex EXCEPT ![to[c]] = NONE]
        /\ to' = [to EXCEPT ![c] = c]
    BY <1>8 DEF SendRest, EndSend, EndRequest, Goto
  <2> QED BY <1>0, <2>1, ServerAssumption DEF MutexInv
<1>9. ASSUME NEW c \in Conn, SendError(c) /\ frame[c].op = "MSG" PROVE MutexInv'
  <2>1. /\ pc[c] = "write" /\ peer[to[c]] = "closed" /\ frame[c].op = "MSG"
        /\ pc' = [pc EXCEPT ![c] = "deliver"] /\ mutex' = [mutex EXCEPT ![to[c]] = NONE]
        /\ to' = [to EXCEPT ![c] = c]
    BY <1>9 DEF SendError, SendFailed, EndSend, Goto
  <2> QED BY <1>0, <2>1, ServerAssumption DEF MutexInv
<1>10. ASSUME NEW c \in Conn, SendError(c) /\ frame[c].op # "MSG" PROVE MutexInv'
  <2>1. /\ pc[c] = "write" /\ peer[to[c]] = "closed" /\ frame[c].op # "MSG"
        /\ pc' = [pc EXCEPT ![c] = "destroy"] /\ mutex' = [mutex EXCEPT ![to[c]] = NONE]
        /\ to' = [to EXCEPT ![c] = c]
    BY <1>10 DEF SendError, SendFailed, EndSend, Goto
  <2> QED BY <1>0, <2>1, ServerAssumption DEF MutexInv
<1>11. ASSUME AcceptFail PROVE MutexInv'
  <2>1. UNCHANGED <<mutex, to, pc>>
    BY <1>11 DEF AcceptFail
  <2> QED BY <1>0, <2>1, ServerAssumption DEF MutexInv
<1> QED
  BY <1>1, <1>2, <1>3, <1>4, <1>5, <1>6, <1>7, <1>8, <1>9, <1>10, <1>11 DEF Next, Thread,
     Accept, Handler, Send, Destroy

-----------------------------------------------------------------------------
(***************************************************************************)
(* Subscriptions.                                                          *)
(***************************************************************************)
\* client__sub0 enters a subscription only if its identifier is new, and
\* client__unsub_all leaves none.
LEMMA KeysStep ==
    ASSUME TypeOK, ControlInv, KeysInv, Next
    PROVE  KeysInv'
<1>0. /\ pc \in [Conn -> PC] /\ subs \in [Conn -> SUBSET (Topic \X Tag)]
  BY DEF TypeOK
<1>1. ASSUME NEW c \in Conn, Peer(c) \/ (\E p \in Ptr : AcceptBegin(c, p)) \/ AcceptNoThread(c)
             \/ SendStale(c) \/ TableCrash(c) \/ SendHeader(c)
             \/ (\E s \in pending[c] : DeliverSkip(c, s) \/ DeliverNoRoom(c, s)
                                       \/ DeliverMiss(c, s))
      PROVE  KeysInv'
  <2>1. UNCHANGED <<subs, pc>>
    BY <1>1 DEF Peer, Connect, Submit, PeerRead, Disconnect, ServerIdle, AcceptBegin,
       AcceptNoThread, SendStale, TableCrash, DeliverSkip, DeliverNoRoom, DeliverMiss,
       SendHeader
  <2> QED BY <1>0, <2>1 DEF KeysInv
<1>2. ASSUME NEW c \in Conn, AcceptEnd(c) \/ Recv(c) \/ RecvFail(c) \/ HandleSimple(c)
             \/ PubNoTopic(c) \/ PubFind(c) \/ SubNoTopic(c) \/ (SubEnter(c) /\ Entries(c) # {})
             \/ SubAdd(c) \/ UnsubNoTag(c) \/ (UnsubRemove(c) /\ Entries(c) = {}) \/ UnsubDel(c)
             \/ DeliverEnd(c) \/ (HandleReply(c) /\ req[c].ack)
             \/ (HandleReply(c) /\ ~req[c].ack) \/ ReplyNoRoom(c) \/ SendLock(c)
             \/ (SendRest(c) /\ frame[c].op = "MSG") \/ (SendRest(c) /\ frame[c].op # "MSG")
             \/ (SendError(c) /\ frame[c].op = "MSG") \/ (SendError(c) /\ frame[c].op # "MSG")
             \/ DestroyRemove(c) \/ DestroyClose(c) \/ DestroyFree(c) \/ PrintTree(c)
             \/ (\E s \in pending[c] : DeliverHit(c, s))
      PROVE  KeysInv'
  <2>1. /\ subs' = subs
        /\ \E l \in PC : /\ pc' = [pc EXCEPT ![c] = l]
                         /\ l \in {"away", "close", "free", "print", "gone"}
                              => pc[c] \in {"close", "free", "print"}
    BY <1>2, AcceptedAway DEF AcceptEnd, Goto, Recv, RecvFail, HandleSimple, StartSend,
       PubNoTopic, PubFind, SubNoTopic, SubEnter, SubAdd, WriteTree, UnsubNoTag, UnsubRemove,
       UnsubUnknown, UnsubDel, DeliverHit, Target, DeliverEnd, HandleReply, EndRequest,
       ReplyNoRoom, SendLock, SendRest, EndSend, SendError, SendFailed, DestroyRemove,
       DestroyClose, DestroyFree, PrintTree, PC
  <2> QED BY <1>0, <2>1 DEF KeysInv
<1>3. ASSUME NEW c \in Conn, SubEnter(c) /\ Entries(c) = {} PROVE KeysInv'
  <2>1. /\ pc[c] = "handle" /\ req[c].op = "SUB" /\ req[c].topic # NONE
        /\ pc' = [pc EXCEPT ![c] = "add"] /\ subs' = [subs EXCEPT ![c] = @ \cup {Key(req[c])}]
        /\ Entries(c) = {}
    BY <1>3 DEF SubEnter, Goto
  <2> QED BY <1>0, <2>1 DEF KeysInv, Entries
<1>4. ASSUME NEW c \in Conn, UnsubRemove(c) /\ Entries(c) # {} PROVE KeysInv'
  <2>1. /\ pc[c] = "handle" /\ req[c].op = "UNSUB" /\ req[c].topic # NONE
        /\ pc' = [pc EXCEPT ![c] = "del"] /\ subs' = [subs EXCEPT ![c] = @ \ Entries(c)]
    BY <1>4 DEF UnsubRemove, Goto
  <2> QED BY <1>0, <2>1 DEF KeysInv
<1>5. ASSUME NEW c \in Conn, DestroyUnsub(c) PROVE KeysInv'
  <2>1. /\ pc[c] = "unsub_all" /\ pc' = [pc EXCEPT ![c] = "close"]
        /\ subs' = [subs EXCEPT ![c] = {}]
    BY <1>5 DEF DestroyUnsub, WriteTree, Goto
  <2> QED BY <1>0, <2>1 DEF KeysInv
<1>6. ASSUME AcceptFail PROVE KeysInv'
  <2>1. UNCHANGED <<subs, pc>>
    BY <1>6 DEF AcceptFail
  <2> QED BY <1>0, <2>1 DEF KeysInv
<1> QED
  BY <1>1, <1>2, <1>3, <1>4, <1>5, <1>6 DEF Next, Thread, Accept, Handler, Send, Destroy

\* What client__unsub0 has taken from the client is one subscription, and
\* nobody else takes it out of the tree.
LEMMA RemovalStep ==
    ASSUME TypeOK, ControlInv, KeysInv, TreeInv, RemovalInv, Next
    PROVE  RemovalInv'
<1>0. /\ pc \in [Conn -> PC] /\ subs \in [Conn -> SUBSET (Topic \X Tag)]
      /\ pending \in [Conn -> SUBSET Subscription] /\ registered \in SUBSET Subscription
  BY DEF TypeOK
<1>1. ASSUME NEW c \in Conn, Peer(c) \/ (\E p \in Ptr : AcceptBegin(c, p)) \/ AcceptNoThread(c)
             \/ SendStale(c) \/ TableCrash(c) \/ SendHeader(c)
      PROVE  RemovalInv'
  <2>1. UNCHANGED <<subs, pending, registered, pc>>
    BY <1>1 DEF Peer, Connect, Submit, PeerRead, Disconnect, ServerIdle, AcceptBegin,
       AcceptNoThread, SendStale, TableCrash, SendHeader
  <2> QED BY <1>0, <2>1 DEF RemovalInv
<1>2. ASSUME NEW c \in Conn, AcceptEnd(c) \/ Recv(c) \/ RecvFail(c) \/ HandleSimple(c)
             \/ PubNoTopic(c) \/ SubNoTopic(c) \/ (SubEnter(c) /\ Entries(c) # {})
             \/ UnsubNoTag(c) \/ (UnsubRemove(c) /\ Entries(c) = {}) \/ DeliverEnd(c)
             \/ (HandleReply(c) /\ req[c].ack) \/ (HandleReply(c) /\ ~req[c].ack)
             \/ ReplyNoRoom(c) \/ SendLock(c) \/ (SendRest(c) /\ frame[c].op = "MSG")
             \/ (SendRest(c) /\ frame[c].op # "MSG") \/ (SendError(c) /\ frame[c].op = "MSG")
             \/ (SendError(c) /\ frame[c].op # "MSG") \/ DestroyRemove(c) \/ DestroyClose(c)
             \/ DestroyFree(c) \/ PrintTree(c)
      PROVE  RemovalInv'
  <2>1. /\ UNCHANGED <<subs, pending, registered>>
        /\ \E l \in PC \ {"del"} : pc' = [pc EXCEPT ![c] = l]
    BY <1>2, AcceptedAway DEF AcceptEnd, Goto, Recv, RecvFail, HandleSimple, StartSend,
       PubNoTopic, SubNoTopic, SubEnter, UnsubNoTag, UnsubRemove, UnsubUnknown, DeliverEnd,
       HandleReply, EndRequest, ReplyNoRoom, SendLock, SendRest, EndSend, SendError, SendFailed,
       DestroyRemove, DestroyClose, DestroyFree, PrintTree, PC
  <2> QED BY <1>0, <2>1 DEF RemovalInv
<1>3. ASSUME NEW c \in Conn, PubFind(c) PROVE RemovalInv'
  <2>1. /\ pc[c] = "handle" /\ req[c].op = "PUB" /\ req[c].topic # NONE
        /\ pc' = [pc EXCEPT ![c] = "deliver"] /\ pending' = [pending EXCEPT ![c] = Found(c)]
        /\ UNCHANGED <<subs, registered>>
    BY <1>3 DEF PubFind, Goto, Found
  <2> QED BY <1>0, <2>1 DEF RemovalInv
<1>4. ASSUME NEW c \in Conn, SubEnter(c) /\ Entries(c) = {} PROVE RemovalInv'
  <2>1. /\ pc[c] = "handle" /\ req[c].op = "SUB" /\ req[c].topic # NONE
        /\ pc' = [pc EXCEPT ![c] = "add"] /\ subs' = [subs EXCEPT ![c] = @ \cup {Key(req[c])}]
        /\ UNCHANGED <<pending, registered>>
    BY <1>4 DEF SubEnter, Goto
  <2> QED BY <1>0, <2>1 DEF RemovalInv
<1>5. ASSUME NEW c \in Conn, SubAdd(c) PROVE RemovalInv'
  <2>1. /\ pc[c] = "add" /\ pc' = [pc EXCEPT ![c] = "reply"]
        /\ registered' = IF req[c].topic \in ValidTopic THEN registered \cup {TreeSub(c)}
                         ELSE registered
        /\ UNCHANGED <<subs, pending>>
    BY <1>5 DEF SubAdd, WriteTree, Goto
  <2> QED BY <1>0, <2>1 DEF RemovalInv
<1>6. ASSUME NEW c \in Conn, UnsubRemove(c) /\ Entries(c) # {} PROVE RemovalInv'
  <2>1. /\ pc[c] = "handle" /\ req[c].op = "UNSUB" /\ req[c].topic # NONE
        /\ pc' = [pc EXCEPT ![c] = "del"] /\ subs' = [subs EXCEPT ![c] = @ \ Entries(c)]
        /\ pending' = [pending EXCEPT ![c] =
                      {[conn |-> c, topic |-> key[1], tag |-> key[2]] : key \in Entries(c)}]
        /\ registered' = registered
    BY <1>6 DEF UnsubRemove, Goto
  <2>2. PICK k \in Entries(c) : TRUE
    BY <1>6
  <2>3. Entries(c) = {k} /\ k \in subs[c]
    BY <2>2 DEF KeysInv, Entries
  <2>4. k \in Topic \X Tag
    BY <1>0, <2>3
  <2> DEFINE s == [conn |-> c, topic |-> k[1], tag |-> k[2]]
  <2>5. s \in Subscription /\ <<s.topic, s.tag>> = k
    BY <2>4 DEF Subscription
  <2>6. pending'[c] = {s} /\ <<s.topic, s.tag>> \notin subs'[c]
    BY <1>0, <2>1, <2>3, <2>5
  <2>7. s.topic \in ValidTopic => s \in registered
    BY <2>1, <2>3, <2>4, <2>5 DEF TreeInv
  <2> QED BY <1>0, <2>1, <2>5, <2>6, <2>7 DEF RemovalInv
<1>7. ASSUME NEW c \in Conn, UnsubDel(c) PROVE RemovalInv'
  <2>1. /\ pc[c] = "del" /\ pc' = [pc EXCEPT ![c] = "reply"]
        /\ pending' = [pending EXCEPT ![c] = {}] /\ registered' = registered \ pending[c]
        /\ subs' = subs
    BY <1>7 DEF UnsubDel, WriteTree, Goto
  <2> QED BY <1>0, <2>1 DEF RemovalInv
<1>8. ASSUME NEW c \in Conn, NEW s \in pending[c], DeliverSkip(c, s)
      PROVE  RemovalInv'
  <2>1. /\ pc[c] = "deliver" /\ s \in pending[c] /\ Skips(c, s) /\ pc' = pc
        /\ pending' = [pending EXCEPT ![c] = @ \ {s}]
        /\ UNCHANGED <<subs, registered>>
    BY <1>8 DEF DeliverSkip
  <2> QED BY <1>0, <2>1 DEF RemovalInv
<1>9. ASSUME NEW c \in Conn, NEW s \in pending[c], DeliverNoRoom(c, s)
      PROVE  RemovalInv'
  <2>1. /\ pc[c] = "deliver" /\ s \in pending[c] /\ ~Skips(c, s) /\ req[c].room # "all"
        /\ pc' = pc /\ pending' = [pending EXCEPT ![c] = @ \ {s}]
        /\ UNCHANGED <<subs, registered>>
    BY <1>9 DEF DeliverNoRoom
  <2> QED BY <1>0, <2>1 DEF RemovalInv
<1>10. ASSUME NEW c \in Conn, NEW s \in pending[c], DeliverMiss(c, s)
      PROVE  RemovalInv'
  <2>1. /\ pc[c] = "deliver" /\ s \in pending[c] /\ ~Skips(c, s)
        /\ (Target(s) \subseteq Closed \/ accepting # NONE) /\ pc' = pc
        /\ pending' = [pending EXCEPT ![c] = @ \ {s}]
        /\ UNCHANGED <<subs, registered>>
    BY <1>10 DEF DeliverMiss
  <2> QED BY <1>0, <2>1 DEF RemovalInv
<1>11. ASSUME NEW c \in Conn, NEW s \in pending[c], DeliverHit(c, s)
      PROVE  RemovalInv'
  <2>1. /\ pc[c] = "deliver" /\ s \in pending[c] /\ ~Skips(c, s) /\ s.conn \in table \ Closed
        /\ pc' = [pc EXCEPT ![c] = "lock"] /\ pending' = [pending EXCEPT ![c] = @ \ {s}]
        /\ UNCHANGED <<subs, registered>>
    BY <1>11 DEF DeliverHit, StartSend, Target, Goto
  <2> QED BY <1>0, <2>1 DEF RemovalInv
<1>12. ASSUME NEW c \in Conn, DestroyUnsub(c) PROVE RemovalInv'
  <2>1. /\ pc[c] = "unsub_all" /\ pc' = [pc EXCEPT ![c] = "close"]
        /\ subs' = [subs EXCEPT ![c] = {}]
        /\ registered' = {s \in registered : ~(s.conn = c /\ <<s.topic, s.tag>> \in subs[c])}
        /\ pending' = pending
    BY <1>12 DEF DestroyUnsub, WriteTree, Goto
  <2> QED BY <1>0, <2>1, SMTT(30) DEF RemovalInv
<1>13. ASSUME AcceptFail PROVE RemovalInv'
  <2>1. UNCHANGED <<subs, pending, registered, pc>>
    BY <1>13 DEF AcceptFail
  <2> QED BY <1>0, <2>1 DEF RemovalInv
<1> QED
  BY <1>1, <1>2, <1>3, <1>4, <1>5, <1>6, <1>7, <1>8, <1>9, <1>10, <1>11, <1>12, <1>13 DEF Next,
     Thread, Accept, Handler, Send, Destroy

\* The request and what it has taken away stay as they are until client__unsub0
\* has taken it out of the tree.
LEMMA NamedStep ==
    ASSUME TypeOK, ControlInv, NamedInv, Next
    PROVE  NamedInv'
<1>0. /\ pc \in [Conn -> PC] /\ subs \in [Conn -> SUBSET (Topic \X Tag)]
      /\ pending \in [Conn -> SUBSET Subscription] /\ req \in [Conn -> Request]
  BY DEF TypeOK
<1> DEFINE Kept == \A d \in Conn :
               pc'[d] = "del" => pc[d] = "del" /\ req'[d] = req[d] /\ pending'[d] = pending[d]
<1>k. ASSUME Kept PROVE NamedInv'
  BY <1>k DEF NamedInv
<1>1. ASSUME NEW c \in Conn, Peer(c) \/ (\E p \in Ptr : AcceptBegin(c, p)) \/ AcceptNoThread(c)
             \/ SendStale(c) \/ TableCrash(c) \/ SendHeader(c)
      PROVE  NamedInv'
  <2>1. UNCHANGED <<req, pending, pc>>
    BY <1>1 DEF Peer, Connect, Submit, PeerRead, Disconnect, ServerIdle, AcceptBegin,
       AcceptNoThread, SendStale, TableCrash, SendHeader, handlerVars
  <2> QED BY <1>k, <2>1
<1>2. ASSUME NEW c \in Conn, AcceptEnd(c) \/ RecvFail(c) \/ HandleSimple(c)
             \/ PubNoTopic(c) \/ SubNoTopic(c) \/ SubEnter(c) \/ SubAdd(c)
             \/ UnsubNoTag(c) \/ (UnsubRemove(c) /\ Entries(c) = {}) \/ DeliverEnd(c)
             \/ (HandleReply(c) /\ req[c].ack)
             \/ ReplyNoRoom(c) \/ SendLock(c) \/ (SendRest(c) /\ frame[c].op = "MSG")
             \/ SendError(c) \/ DestroyRemove(c) \/ DestroyUnsub(c) \/ DestroyClose(c)
             \/ DestroyFree(c) \/ PrintTree(c)
      PROVE  NamedInv'
  <2>1. /\ UNCHANGED <<req, pending>>
        /\ \E l \in PC \ {"del"} : pc' = [pc EXCEPT ![c] = l]
    BY <1>2, AcceptedAway DEF AcceptEnd, Goto, RecvFail, HandleSimple, StartSend,
       PubNoTopic, SubNoTopic, SubEnter, SubAdd, UnsubNoTag, UnsubRemove, UnsubUnknown, DeliverEnd,
       HandleReply, ReplyNoRoom, SendLock, SendRest, EndSend, SendError, SendFailed,
       DestroyRemove, DestroyUnsub, DestroyClose, DestroyFree, PrintTree, PC, handlerVars
  <2> QED BY <1>0, <1>k, <2>1
<1>3. ASSUME NEW c \in Conn, Recv(c) \/ PubFind(c) \/ UnsubDel(c) \/ (HandleReply(c) /\ ~req[c].ack)
             \/ (SendRest(c) /\ frame[c].op # "MSG")
      PROVE  NamedInv'
  <2>1. pc'[c] # "del" /\ \A d \in Conn \ {c} : pc'[d] = pc[d]
    BY <1>0, <1>3 DEF Recv, PubFind, UnsubDel, HandleReply, SendRest, EndRequest, Goto, PC
  <2>2. \A d \in Conn \ {c} : pending'[d] = pending[d]
    BY <1>0, <1>3 DEF Recv, PubFind, UnsubDel, HandleReply, SendRest, EndRequest
  <2>3. \A d \in Conn \ {c} : req'[d] = req[d]
    BY <1>0, <1>3 DEF Recv, PubFind, UnsubDel, HandleReply, SendRest, EndRequest
  <2> QED BY <1>k, <2>1, <2>2, <2>3
<1>4. ASSUME NEW c \in Conn, UnsubRemove(c) /\ Entries(c) # {} PROVE NamedInv'
  <2>1. /\ req[c].topic # NONE /\ req[c].tag # NONE
        /\ pc' = [pc EXCEPT ![c] = "del"] /\ req' = req
        /\ pending' = [pending EXCEPT ![c] =
                      {[conn |-> c, topic |-> key[1], tag |-> key[2]] : key \in Entries(c)}]
    BY <1>4 DEF UnsubRemove, Goto
  <2>2. \A key \in Entries(c) : key[2] \o key[1] = req[c].tag \o req[c].topic
    BY <2>1 DEF Entries, Identifier, Key, TagOf
  <2>3. ASSUME NEW s \in pending'[c] PROVE s.tag \o s.topic = req[c].tag \o req[c].topic
    <3>1. PICK key \in Entries(c) : s = [conn |-> c, topic |-> key[1], tag |-> key[2]]
      BY <1>0, <2>1
    <3>2. s.tag = key[2] /\ s.topic = key[1]
      BY <3>1
    <3>3. key[2] \o key[1] = req[c].tag \o req[c].topic
      BY <2>2, <3>1
    <3> QED BY <3>2, <3>3, Zenon
  <2>4. \A d \in Conn \ {c} : pc'[d] = pc[d] /\ pending'[d] = pending[d]
    BY <1>0, <2>1
  <2> QED BY <2>1, <2>3, <2>4 DEF NamedInv
<1>5. ASSUME NEW c \in Conn, NEW s \in pending[c],
             DeliverSkip(c, s) \/ DeliverNoRoom(c, s) \/ DeliverMiss(c, s) \/ DeliverHit(c, s)
      PROVE  NamedInv'
  <2>1. /\ pc[c] = "deliver" /\ (pc' = pc \/ pc' = [pc EXCEPT ![c] = "lock"])
        /\ pending' = [pending EXCEPT ![c] = @ \ {s}] /\ req' = req
    BY <1>5 DEF DeliverSkip, DeliverNoRoom, DeliverMiss, DeliverHit, StartSend, Goto
  <2> QED BY <1>0, <1>k, <2>1
<1>6. ASSUME AcceptFail PROVE NamedInv'
  <2>1. UNCHANGED <<req, pending, pc>>
    BY <1>6 DEF AcceptFail, handlerVars
  <2> QED BY <1>k, <2>1
<1> QED
  BY <1>1, <1>2, <1>3, <1>4, <1>5, <1>6 DEF Next, Thread, Accept, Handler, Send, Destroy

\* A subscription is entered first in the client and then in the tree, and
\* taken out in the same order, by the thread of its client alone.
LEMMA TreeStep ==
    ASSUME TypeOK, ControlInv, KeysInv, RemovalInv, TreeInv, Next
    PROVE  TreeInv'
<1>0. /\ pc \in [Conn -> PC] /\ subs \in [Conn -> SUBSET (Topic \X Tag)]
      /\ pending \in [Conn -> SUBSET Subscription] /\ registered \in SUBSET Subscription
      /\ req \in [Conn -> Request]
  BY DEF TypeOK
<1>1. ASSUME NEW c \in Conn, Peer(c) \/ (\E p \in Ptr : AcceptBegin(c, p)) \/ AcceptNoThread(c)
             \/ SendStale(c) \/ TableCrash(c) \/ SendHeader(c)
      PROVE  TreeInv'
  <2>1. UNCHANGED <<subs, pending, registered, req, pc>>
    BY <1>1 DEF Peer, Connect, Submit, PeerRead, Disconnect, ServerIdle, AcceptBegin,
       AcceptNoThread, SendStale, TableCrash, SendHeader
  <2> QED BY <1>0, <2>1 DEF TreeInv
<1>2. ASSUME NEW c \in Conn, AcceptEnd(c) \/ RecvFail(c) \/ HandleSimple(c) \/ PubNoTopic(c)
             \/ SubNoTopic(c) \/ (SubEnter(c) /\ Entries(c) # {}) \/ UnsubNoTag(c)
             \/ (UnsubRemove(c) /\ Entries(c) = {}) \/ DeliverEnd(c)
             \/ (HandleReply(c) /\ req[c].ack) \/ ReplyNoRoom(c) \/ SendLock(c)
             \/ (SendRest(c) /\ frame[c].op = "MSG") \/ (SendError(c) /\ frame[c].op = "MSG")
             \/ (SendError(c) /\ frame[c].op # "MSG") \/ DestroyRemove(c) \/ DestroyClose(c)
             \/ DestroyFree(c) \/ PrintTree(c)
      PROVE  TreeInv'
  <2>1. /\ UNCHANGED <<subs, pending, registered, req>>
        /\ pc[c] \notin {"add", "del"} /\ \E l \in PC \ {"add", "del"} : pc' = [pc EXCEPT ![c] = l]
    BY <1>2, AcceptedAway DEF AcceptEnd, Goto, RecvFail, HandleSimple, StartSend, PubNoTopic,
       SubNoTopic, SubEnter, UnsubNoTag, UnsubRemove, UnsubUnknown, DeliverEnd, HandleReply,
       ReplyNoRoom, SendLock, SendRest, EndSend, SendError, SendFailed, DestroyRemove,
       DestroyClose, DestroyFree, PrintTree, PC
  <2> QED BY <1>0, <2>1 DEF TreeInv
<1>3. ASSUME NEW c \in Conn, Recv(c) PROVE TreeInv'
  <2>1. /\ pc[c] = "loop" /\ in[c] # <<>> /\ pc' = [pc EXCEPT ![c] = "handle"]
        /\ req' = [req EXCEPT ![c] = Head(in[c])]
        /\ UNCHANGED <<subs, pending, registered>>
    BY <1>3 DEF Recv, Goto
  <2> QED BY <1>0, <2>1 DEF TreeInv
<1>4. ASSUME NEW c \in Conn, PubFind(c) PROVE TreeInv'
  <2>1. /\ pc[c] = "handle" /\ req[c].op = "PUB" /\ req[c].topic # NONE
        /\ pc' = [pc EXCEPT ![c] = "deliver"] /\ pending' = [pending EXCEPT ![c] = Found(c)]
        /\ UNCHANGED <<subs, registered, req>>
    BY <1>4 DEF PubFind, Goto, Found
  <2> QED BY <1>0, <2>1 DEF TreeInv
<1>5. ASSUME NEW c \in Conn, SubEnter(c) /\ Entries(c) = {} PROVE TreeInv'
  <2>1. /\ pc[c] = "handle" /\ req[c].op = "SUB" /\ req[c].topic # NONE
        /\ pc' = [pc EXCEPT ![c] = "add"] /\ subs' = [subs EXCEPT ![c] = @ \cup {Key(req[c])}]
        /\ UNCHANGED <<pending, registered, req>>
    BY <1>5 DEF SubEnter, Goto
  <2> QED BY <1>0, <2>1 DEF TreeInv
<1>6. ASSUME NEW c \in Conn, SubAdd(c) PROVE TreeInv'
  <2>1. /\ pc[c] = "add" /\ pc' = [pc EXCEPT ![c] = "reply"]
        /\ registered' = IF req[c].topic \in ValidTopic THEN registered \cup {TreeSub(c)}
                         ELSE registered
        /\ UNCHANGED <<subs, pending, req>>
    BY <1>6 DEF SubAdd, WriteTree, Goto
  <2>2. /\ TreeSub(c).conn = c /\ <<TreeSub(c).topic, TreeSub(c).tag>> = Key(req[c])
        /\ TreeSub(c).topic = req[c].topic
    BY DEF TreeSub, Key
  <2>3. \A t, g : <<t, g>> = Key(req[c]) => [conn |-> c, topic |-> t, tag |-> g] = TreeSub(c)
    BY DEF TreeSub, Key
  <2>4. Key(req[c])[1] = req[c].topic
    BY DEF Key
  <2> QED BY <1>0, <2>1, <2>2, <2>3, <2>4 DEF TreeInv
<1>7. ASSUME NEW c \in Conn, UnsubRemove(c) /\ Entries(c) # {} PROVE TreeInv'
  <2>1. /\ pc[c] = "handle" /\ req[c].op = "UNSUB" /\ req[c].topic # NONE
        /\ pc' = [pc EXCEPT ![c] = "del"] /\ subs' = [subs EXCEPT ![c] = @ \ Entries(c)]
        /\ pending' = [pending EXCEPT ![c] =
                      {[conn |-> c, topic |-> key[1], tag |-> key[2]] : key \in Entries(c)}]
        /\ UNCHANGED <<registered, req>>
    BY <1>7 DEF UnsubRemove, Goto
  <2>2. \A s \in registered : s.conn = c /\ <<s.topic, s.tag>> \in Entries(c) => s \in pending'[c]
    <3> SUFFICES ASSUME NEW s \in registered, s.conn = c, <<s.topic, s.tag>> \in Entries(c)
                 PROVE  s \in pending'[c]
      OBVIOUS
    <3>1. s = [conn |-> c, topic |-> <<s.topic, s.tag>>[1], tag |-> <<s.topic, s.tag>>[2]]
      BY <1>0 DEF Subscription
    <3> QED BY <1>0, <2>1, <3>1
  <2> QED BY <1>0, <2>1, <2>2 DEF TreeInv
<1>8. ASSUME NEW c \in Conn, UnsubDel(c) PROVE TreeInv'
  <2>1. /\ pc[c] = "del" /\ pc' = [pc EXCEPT ![c] = "reply"]
        /\ pending' = [pending EXCEPT ![c] = {}] /\ registered' = registered \ pending[c]
        /\ UNCHANGED <<subs, req>>
    BY <1>8 DEF UnsubDel, WriteTree, Goto
  <2>2. PICK s \in Subscription : /\ pending[c] = {s} /\ s.conn = c
                                  /\ <<s.topic, s.tag>> \notin subs[c]
    BY <2>1 DEF RemovalInv
  <2> QED BY <1>0, <2>1, <2>2 DEF TreeInv
<1>9. ASSUME NEW c \in Conn, NEW s \in pending[c], DeliverSkip(c, s)
      PROVE  TreeInv'
  <2>1. /\ pc[c] = "deliver" /\ s \in pending[c] /\ Skips(c, s) /\ pc' = pc
        /\ pending' = [pending EXCEPT ![c] = @ \ {s}]
        /\ UNCHANGED <<subs, registered, req>>
    BY <1>9 DEF DeliverSkip
  <2> QED BY <1>0, <2>1 DEF TreeInv
<1>10. ASSUME NEW c \in Conn, NEW s \in pending[c], DeliverNoRoom(c, s)
      PROVE  TreeInv'
  <2>1. /\ pc[c] = "deliver" /\ s \in pending[c] /\ ~Skips(c, s) /\ req[c].room # "all"
        /\ pc' = pc /\ pending' = [pending EXCEPT ![c] = @ \ {s}]
        /\ UNCHANGED <<subs, registered, req>>
    BY <1>10 DEF DeliverNoRoom
  <2> QED BY <1>0, <2>1 DEF TreeInv
<1>11. ASSUME NEW c \in Conn, NEW s \in pending[c], DeliverMiss(c, s)
      PROVE  TreeInv'
  <2>1. /\ pc[c] = "deliver" /\ s \in pending[c] /\ ~Skips(c, s)
        /\ (Target(s) \subseteq Closed \/ accepting # NONE) /\ pc' = pc
        /\ pending' = [pending EXCEPT ![c] = @ \ {s}]
        /\ UNCHANGED <<subs, registered, req>>
    BY <1>11 DEF DeliverMiss
  <2> QED BY <1>0, <2>1 DEF TreeInv
<1>12. ASSUME NEW c \in Conn, NEW s \in pending[c], DeliverHit(c, s)
      PROVE  TreeInv'
  <2>1. /\ pc[c] = "deliver" /\ s \in pending[c] /\ ~Skips(c, s) /\ s.conn \in table \ Closed
        /\ pc' = [pc EXCEPT ![c] = "lock"] /\ pending' = [pending EXCEPT ![c] = @ \ {s}]
        /\ UNCHANGED <<subs, registered, req>>
    BY <1>12 DEF DeliverHit, StartSend, Target, Goto
  <2> QED BY <1>0, <2>1 DEF TreeInv
<1>13. ASSUME NEW c \in Conn, HandleReply(c) /\ ~req[c].ack PROVE TreeInv'
  <2>1. /\ pc[c] = "reply" /\ pc' = [pc EXCEPT ![c] = "loop"]
        /\ req' = [req EXCEPT ![c] = NoRequest]
        /\ UNCHANGED <<subs, pending, registered>>
    BY <1>13 DEF HandleReply, EndRequest, Goto
  <2> QED BY <1>0, <2>1 DEF TreeInv
<1>14. ASSUME NEW c \in Conn, SendRest(c) /\ frame[c].op # "MSG" PROVE TreeInv'
  <2>1. /\ pc[c] = "write" /\ part[c] = 1 /\ to[c] \notin isClose /\ frame[c].op # "MSG"
        /\ pc' = [pc EXCEPT ![c] = "loop"] /\ req' = [req EXCEPT ![c] = NoRequest]
        /\ UNCHANGED <<subs, pending, registered>>
    BY <1>14 DEF SendRest, EndSend, EndRequest, Goto
  <2> QED BY <1>0, <2>1 DEF TreeInv
<1>15. ASSUME NEW c \in Conn, DestroyUnsub(c) PROVE TreeInv'
  <2>1. /\ pc[c] = "unsub_all" /\ pc' = [pc EXCEPT ![c] = "close"]
        /\ subs' = [subs EXCEPT ![c] = {}]
        /\ registered' = {s \in registered : ~(s.conn = c /\ <<s.topic, s.tag>> \in subs[c])}
        /\ UNCHANGED <<pending, req>>
    BY <1>15 DEF DestroyUnsub, WriteTree, Goto
  <2> QED BY <1>0, <2>1 DEF TreeInv
<1>16. ASSUME AcceptFail PROVE TreeInv'
  <2>1. UNCHANGED <<subs, pending, registered, req, pc>>
    BY <1>16 DEF AcceptFail
  <2> QED BY <1>0, <2>1 DEF TreeInv
<1> QED
  BY <1>1, <1>2, <1>3, <1>4, <1>5, <1>6, <1>7, <1>8, <1>9, <1>10, <1>11, <1>12, <1>13, <1>14,
     <1>15, <1>16 DEF Next, Thread, Accept, Handler, Send, Destroy

\* What is pending was found, and found are only subscriptions of clients that
\* were accepted.
LEMMA SnapshotStep ==
    ASSUME TypeOK, ControlInv, KeysInv, TreeInv, SnapshotInv, Next
    PROVE  SnapshotInv'
<1>0. /\ pc \in [Conn -> PC] /\ pending \in [Conn -> SUBSET Subscription]
      /\ snapshot \in [Conn -> SUBSET Subscription] /\ frame \in [Conn -> Frame]
      /\ status \in [Conn -> {"OK", "ERR"}]
  BY DEF TypeOK
<1>1. ASSUME NEW c \in Conn, Peer(c) \/ (\E p \in Ptr : AcceptBegin(c, p)) \/ AcceptNoThread(c)
             \/ SendStale(c) \/ TableCrash(c) \/ SendHeader(c)
      PROVE  SnapshotInv'
  <2>1. UNCHANGED <<pending, snapshot, frame, pc>>
    BY <1>1 DEF Peer, Connect, Submit, PeerRead, Disconnect, ServerIdle, AcceptBegin,
       AcceptNoThread, SendStale, TableCrash, SendHeader
  <2> QED BY <1>0, <2>1 DEF SnapshotInv, Sending
<1>2. ASSUME NEW c \in Conn, AcceptEnd(c) \/ Recv(c) \/ RecvFail(c) \/ PubNoTopic(c)
             \/ SubNoTopic(c) \/ (SubEnter(c) /\ Entries(c) # {})
             \/ (SubEnter(c) /\ Entries(c) = {}) \/ SubAdd(c) \/ UnsubNoTag(c)
             \/ (UnsubRemove(c) /\ Entries(c) = {}) \/ DeliverEnd(c) \/ ReplyNoRoom(c)
             \/ DestroyRemove(c) \/ DestroyUnsub(c) \/ DestroyClose(c) \/ DestroyFree(c)
             \/ PrintTree(c)
      PROVE  SnapshotInv'
  <2>1. /\ UNCHANGED <<pending, snapshot, frame>>
        /\ pc[c] \notin {"lock", "write"}
        /\ \E l \in PC \ {"away", "deliver", "lock", "write"} : pc' = [pc EXCEPT ![c] = l]
    BY <1>2, AcceptedAway DEF AcceptEnd, Goto, Recv, RecvFail, PubNoTopic, SubNoTopic, SubEnter,
       SubAdd, WriteTree, UnsubNoTag, UnsubRemove, UnsubUnknown, DeliverEnd, ReplyNoRoom,
       DestroyRemove, DestroyUnsub, DestroyClose, DestroyFree, PrintTree, PC
  <2> QED BY <1>0, <2>1 DEF SnapshotInv, Sending
<1>3. ASSUME NEW c \in Conn, HandleSimple(c) PROVE SnapshotInv'
  <2>1. /\ pc[c] = "handle" /\ req[c].op \in {"CONNECT", "NOOP"}
        /\ pc' = [pc EXCEPT ![c] = "lock"]
        /\ frame' = [frame EXCEPT ![c] = Reply(c, IF req[c].op = "CONNECT" THEN "INFO" ELSE "NOOP")]
        /\ UNCHANGED <<pending, snapshot>>
    BY <1>3 DEF HandleSimple, StartSend, Goto
  <2> QED BY <1>0, <2>1 DEF SnapshotInv, Sending, Reply
<1>4. ASSUME NEW c \in Conn, PubFind(c) PROVE SnapshotInv'
  <2>1. /\ pc[c] = "handle" /\ req[c].op = "PUB" /\ req[c].topic # NONE
        /\ pc' = [pc EXCEPT ![c] = "deliver"] /\ pending' = [pending EXCEPT ![c] = Found(c)]
        /\ snapshot' = [snapshot EXCEPT ![c] = Found(c)] /\ frame' = frame
    BY <1>4 DEF PubFind, Goto, Found
  <2>2. Found(c) \subseteq registered
    BY DEF Found
  <2>3. \A s \in registered : s.conn \in Conn /\ pc[s.conn] # "away"
    BY ZenonT(60) DEF TypeOK, Subscription, KeysInv, TreeInv
  <2> QED BY <1>0, <2>1, <2>2, <2>3 DEF SnapshotInv, Sending
<1>5. ASSUME NEW c \in Conn, UnsubRemove(c) /\ Entries(c) # {} PROVE SnapshotInv'
  <2>1. /\ pc[c] = "handle" /\ req[c].op = "UNSUB" /\ req[c].topic # NONE
        /\ pc' = [pc EXCEPT ![c] = "del"]
        /\ pending' = [pending EXCEPT ![c] =
                      {[conn |-> c, topic |-> key[1], tag |-> key[2]] : key \in Entries(c)}]
        /\ UNCHANGED <<snapshot, frame>>
    BY <1>5 DEF UnsubRemove, Goto
  <2> QED BY <1>0, <2>1 DEF SnapshotInv, Sending
<1>6. ASSUME NEW c \in Conn, UnsubDel(c) PROVE SnapshotInv'
  <2>1. /\ pc[c] = "del" /\ pc' = [pc EXCEPT ![c] = "reply"]
        /\ pending' = [pending EXCEPT ![c] = {}]
        /\ UNCHANGED <<snapshot, frame>>
    BY <1>6 DEF UnsubDel, WriteTree, Goto
  <2> QED BY <1>0, <2>1 DEF SnapshotInv, Sending
<1>7. ASSUME NEW c \in Conn, NEW s \in pending[c], DeliverSkip(c, s)
      PROVE  SnapshotInv'
  <2>1. /\ pc[c] = "deliver" /\ s \in pending[c] /\ Skips(c, s) /\ pc' = pc
        /\ pending' = [pending EXCEPT ![c] = @ \ {s}]
        /\ UNCHANGED <<snapshot, frame>>
    BY <1>7 DEF DeliverSkip
  <2> QED BY <1>0, <2>1 DEF SnapshotInv, Sending
<1>8. ASSUME NEW c \in Conn, NEW s \in pending[c], DeliverNoRoom(c, s)
      PROVE  SnapshotInv'
  <2>1. /\ pc[c] = "deliver" /\ s \in pending[c] /\ ~Skips(c, s) /\ req[c].room # "all"
        /\ pc' = pc /\ pending' = [pending EXCEPT ![c] = @ \ {s}]
        /\ UNCHANGED <<snapshot, frame>>
    BY <1>8 DEF DeliverNoRoom
  <2> QED BY <1>0, <2>1 DEF SnapshotInv, Sending
<1>9. ASSUME NEW c \in Conn, NEW s \in pending[c], DeliverMiss(c, s)
      PROVE  SnapshotInv'
  <2>1. /\ pc[c] = "deliver" /\ s \in pending[c] /\ ~Skips(c, s)
        /\ (Target(s) \subseteq Closed \/ accepting # NONE) /\ pc' = pc
        /\ pending' = [pending EXCEPT ![c] = @ \ {s}]
        /\ UNCHANGED <<snapshot, frame>>
    BY <1>9 DEF DeliverMiss
  <2> QED BY <1>0, <2>1 DEF SnapshotInv, Sending
<1>10. ASSUME NEW c \in Conn, NEW s \in pending[c], DeliverHit(c, s)
      PROVE  SnapshotInv'
  <2>1. /\ pc[c] = "deliver" /\ s \in pending[c] /\ ~Skips(c, s) /\ s.conn \in table \ Closed
        /\ pc' = [pc EXCEPT ![c] = "lock"] /\ pending' = [pending EXCEPT ![c] = @ \ {s}]
        /\ frame' = [frame EXCEPT ![c] = [op |-> "MSG", from |-> c, n |-> num[c], sub |-> s]]
        /\ snapshot' = snapshot
    BY <1>10 DEF DeliverHit, StartSend, Target, Goto
  <2> QED BY <1>0, <2>1 DEF SnapshotInv, Sending
<1>11. ASSUME NEW c \in Conn, HandleReply(c) /\ req[c].ack PROVE SnapshotInv'
  <2>1. /\ pc[c] = "reply" /\ req[c].ack /\ pc' = [pc EXCEPT ![c] = "lock"]
        /\ frame' = [frame EXCEPT ![c] = Reply(c, status[c])]
        /\ UNCHANGED <<pending, snapshot>>
    BY <1>11 DEF HandleReply, StartSend, Goto
  <2> QED BY <1>0, <2>1 DEF SnapshotInv, Sending, Reply
<1>12. ASSUME NEW c \in Conn, HandleReply(c) /\ ~req[c].ack PROVE SnapshotInv'
  <2>1. /\ pc[c] = "reply" /\ pc' = [pc EXCEPT ![c] = "loop"]
        /\ snapshot' = [snapshot EXCEPT ![c] = {}]
        /\ UNCHANGED <<pending, frame>>
    BY <1>12 DEF HandleReply, EndRequest, Goto
  <2> QED BY <1>0, <2>1 DEF SnapshotInv, Sending
<1>13. ASSUME NEW c \in Conn, SendLock(c) PROVE SnapshotInv'
  <2>1. /\ pc[c] = "lock" /\ mutex[to[c]] = NONE /\ pc' = [pc EXCEPT ![c] = "write"]
        /\ UNCHANGED <<pending, snapshot, frame>>
    BY <1>13 DEF SendLock, Goto
  <2> QED BY <1>0, <2>1 DEF SnapshotInv, Sending
<1>14. ASSUME NEW c \in Conn, SendRest(c) /\ frame[c].op = "MSG" PROVE SnapshotInv'
  <2>1. /\ pc[c] = "write" /\ part[c] = 1 /\ to[c] \notin isClose /\ frame[c].op = "MSG"
        /\ pc' = [pc EXCEPT ![c] = "deliver"] /\ frame' = [frame EXCEPT ![c] = NoFrame(c)]
        /\ UNCHANGED <<pending, snapshot>>
    BY <1>14 DEF SendRest, EndSend, Goto
  <2> QED BY <1>0, <2>1 DEF SnapshotInv, Sending
<1>15. ASSUME NEW c \in Conn, SendRest(c) /\ frame[c].op # "MSG" PROVE SnapshotInv'
  <2>1. /\ pc[c] = "write" /\ part[c] = 1 /\ to[c] \notin isClose /\ frame[c].op # "MSG"
        /\ pc' = [pc EXCEPT ![c] = "loop"] /\ snapshot' = [snapshot EXCEPT ![c] = {}]
        /\ frame' = [frame EXCEPT ![c] = NoFrame(c)] /\ pending' = pending
    BY <1>15 DEF SendRest, EndSend, EndRequest, Goto
  <2> QED BY <1>0, <2>1 DEF SnapshotInv, Sending
<1>16. ASSUME NEW c \in Conn, SendError(c) /\ frame[c].op = "MSG" PROVE SnapshotInv'
  <2>1. /\ pc[c] = "write" /\ peer[to[c]] = "closed" /\ frame[c].op = "MSG"
        /\ pc' = [pc EXCEPT ![c] = "deliver"] /\ frame' = [frame EXCEPT ![c] = NoFrame(c)]
        /\ UNCHANGED <<pending, snapshot>>
    BY <1>16 DEF SendError, SendFailed, EndSend, Goto
  <2> QED BY <1>0, <2>1 DEF SnapshotInv, Sending
<1>17. ASSUME NEW c \in Conn, SendError(c) /\ frame[c].op # "MSG" PROVE SnapshotInv'
  <2>1. /\ pc[c] = "write" /\ peer[to[c]] = "closed" /\ frame[c].op # "MSG"
        /\ pc' = [pc EXCEPT ![c] = "destroy"] /\ frame' = [frame EXCEPT ![c] = NoFrame(c)]
        /\ UNCHANGED <<pending, snapshot>>
    BY <1>17 DEF SendError, SendFailed, EndSend, Goto
  <2> QED BY <1>0, <2>1 DEF SnapshotInv, Sending
<1>18. ASSUME AcceptFail PROVE SnapshotInv'
  <2>1. UNCHANGED <<pending, snapshot, frame, pc>>
    BY <1>18 DEF AcceptFail
  <2> QED BY <1>0, <2>1 DEF SnapshotInv, Sending
<1> QED
  BY <1>1, <1>2, <1>3, <1>4, <1>5, <1>6, <1>7, <1>8, <1>9, <1>10, <1>11, <1>12, <1>13, <1>14,
     <1>15, <1>16, <1>17, <1>18 DEF Next, Thread, Accept, Handler, Send, Destroy

-----------------------------------------------------------------------------
(***************************************************************************)
(* The table of clients.                                                   *)
(***************************************************************************)
\* DestroyRemove waits for the readers of cli_rw_lock, so that no client leaves
\* the table while a message is being sent to it.
LEMMA TableStep ==
    ASSUME TypeOK, ControlInv, TableInv, Next
    PROVE  TableInv'
<1>0. /\ pc \in [Conn -> PC] /\ to \in [Conn -> Conn] /\ frame \in [Conn -> Frame]
      /\ table \in SUBSET Conn /\ raced \in {"no", "now", "past"}
  BY DEF TypeOK
<1>1. ASSUME NEW c \in Conn, Peer(c) \/ (\E p \in Ptr : AcceptBegin(c, p)) \/ SendStale(c)
             \/ SendHeader(c) \/ (\E s \in pending[c] : DeliverSkip(c, s))
      PROVE  TableInv'
  <2>1. UNCHANGED <<to, frame, table, raced, pc>>
    BY <1>1 DEF Peer, Connect, Submit, PeerRead, Disconnect, ServerIdle, AcceptBegin, SendStale,
       DeliverSkip, SendHeader
  <2> QED BY <1>0, <2>1 DEF TableInv, CliReaders, Served
<1>2. ASSUME NEW c \in Conn, Recv(c) \/ RecvFail(c) \/ PubNoTopic(c) \/ PubFind(c)
             \/ SubNoTopic(c) \/ (SubEnter(c) /\ Entries(c) # {})
             \/ (SubEnter(c) /\ Entries(c) = {}) \/ SubAdd(c) \/ UnsubNoTag(c)
             \/ (UnsubRemove(c) /\ Entries(c) # {}) \/ (UnsubRemove(c) /\ Entries(c) = {})
             \/ UnsubDel(c) \/ DeliverEnd(c) \/ (HandleReply(c) /\ ~req[c].ack)
             \/ ReplyNoRoom(c) \/ SendLock(c) \/ DestroyUnsub(c) \/ DestroyClose(c)
             \/ DestroyFree(c) \/ PrintTree(c)
      PROVE  TableInv'
  <2>1. /\ UNCHANGED <<to, frame, table, raced>>
        /\ \/ pc[c] = "loop" /\ pc' = [pc EXCEPT ![c] = "handle"]
           \/ pc[c] = "loop" /\ pc' = [pc EXCEPT ![c] = "destroy"]
           \/ pc[c] = "handle" /\ pc' = [pc EXCEPT ![c] = "destroy"]
           \/ pc[c] = "handle" /\ pc' = [pc EXCEPT ![c] = "deliver"]
           \/ pc[c] = "handle" /\ pc' = [pc EXCEPT ![c] = "reply"]
           \/ pc[c] = "handle" /\ pc' = [pc EXCEPT ![c] = "add"]
           \/ pc[c] = "add" /\ pc' = [pc EXCEPT ![c] = "reply"]
           \/ pc[c] = "handle" /\ pc' = [pc EXCEPT ![c] = "del"]
           \/ pc[c] = "del" /\ pc' = [pc EXCEPT ![c] = "reply"]
           \/ pc[c] = "deliver" /\ pc' = [pc EXCEPT ![c] = "reply"]
           \/ pc[c] = "reply" /\ pc' = [pc EXCEPT ![c] = "loop"]
           \/ pc[c] = "reply" /\ pc' = [pc EXCEPT ![c] = "destroy"]
           \/ pc[c] = "lock" /\ pc' = [pc EXCEPT ![c] = "write"]
           \/ pc[c] = "unsub_all" /\ pc' = [pc EXCEPT ![c] = "close"]
           \/ pc[c] = "close" /\ pc' = [pc EXCEPT ![c] = "free"]
           \/ pc[c] = "free" /\ pc' = [pc EXCEPT ![c] = "print"]
           \/ pc[c] = "print" /\ pc' = [pc EXCEPT ![c] = "gone"]
    BY <1>2 DEF Recv, Goto, RecvFail, PubNoTopic, PubFind, SubNoTopic, SubEnter, SubAdd,
       WriteTree, UnsubNoTag, UnsubRemove, UnsubUnknown, UnsubDel, DeliverEnd, HandleReply,
       EndRequest, ReplyNoRoom, SendLock, DestroyUnsub, DestroyClose, DestroyFree, PrintTree
  <2> QED BY <1>0, <2>1 DEF TableInv, CliReaders, Served
<1>3. ASSUME NEW c \in Conn, AcceptEnd(c) PROVE TableInv'
  <2>1. /\ pc[c] = "away" /\ accepting = c /\ pc' = [pc EXCEPT ![c] = "loop"]
        /\ (raced' = "no" => raced = "no" /\ table' = table \cup {c})
        /\ UNCHANGED <<to, frame>>
    BY <1>3, AcceptedAway, <1>0 DEF AcceptEnd, Goto
  <2> QED BY <1>0, <2>1 DEF TableInv, CliReaders, Served
<1>4. ASSUME NEW c \in Conn, AcceptNoThread(c) PROVE TableInv'
  <2>1. /\ pc[c] = "away" /\ pc' = pc
        /\ (raced' = "no" => raced = "no" /\ table' = table \cup {c})
        /\ UNCHANGED <<to, frame>>
    BY <1>4, <1>0, AcceptedAway DEF AcceptNoThread
  <2> QED BY <1>0, <2>1 DEF TableInv, CliReaders, Served
<1>5. ASSUME NEW c \in Conn, TableCrash(c) PROVE TableInv'
  <2>1. /\ pc' = pc /\ raced' = "past"
        /\ UNCHANGED <<to, frame, table>>
    BY <1>5 DEF TableCrash
  <2> QED BY <1>0, <2>1 DEF TableInv, CliReaders, Served
<1>6. ASSUME NEW c \in Conn, HandleSimple(c) PROVE TableInv'
  <2>1. /\ pc[c] = "handle" /\ req[c].op \in {"CONNECT", "NOOP"}
        /\ pc' = [pc EXCEPT ![c] = "lock"] /\ to' = [to EXCEPT ![c] = c]
        /\ frame' = [frame EXCEPT ![c] = Reply(c, IF req[c].op = "CONNECT" THEN "INFO" ELSE "NOOP")]
        /\ UNCHANGED <<table, raced>>
    BY <1>6 DEF HandleSimple, StartSend, Goto
  <2> QED BY <1>0, <2>1 DEF TableInv, CliReaders, Served
<1>7. ASSUME NEW c \in Conn, NEW s \in pending[c], DeliverNoRoom(c, s)
      PROVE  TableInv'
  <2>1. /\ pc[c] = "deliver" /\ s \in pending[c] /\ ~Skips(c, s) /\ req[c].room # "all"
        /\ pc' = pc /\ (raced' = "no" => raced = "no")
        /\ UNCHANGED <<to, frame, table>>
    BY <1>7 DEF DeliverNoRoom, RacedRead
  <2> QED BY <1>0, <2>1 DEF TableInv, CliReaders, Served
<1>8. ASSUME NEW c \in Conn, NEW s \in pending[c], DeliverMiss(c, s)
      PROVE  TableInv'
  <2>1. /\ pc[c] = "deliver" /\ s \in pending[c] /\ ~Skips(c, s)
        /\ (Target(s) \subseteq Closed \/ accepting # NONE) /\ pc' = pc
        /\ (raced' = "no" => raced = "no")
        /\ UNCHANGED <<to, frame, table>>
    BY <1>8 DEF DeliverMiss, RacedRead
  <2> QED BY <1>0, <2>1 DEF TableInv, CliReaders, Served
<1>9. ASSUME NEW c \in Conn, NEW s \in pending[c], DeliverHit(c, s)
      PROVE  TableInv'
  <2>1. /\ pc[c] = "deliver" /\ s \in pending[c] /\ ~Skips(c, s) /\ s.conn \in table \ Closed
        /\ pc' = [pc EXCEPT ![c] = "lock"] /\ to' = [to EXCEPT ![c] = s.conn]
        /\ frame' = [frame EXCEPT ![c] = [op |-> "MSG", from |-> c, n |-> num[c], sub |-> s]]
        /\ (raced' = "no" => raced = "no")
        /\ table' = table
    BY <1>9 DEF DeliverHit, StartSend, Target, Goto, RacedRead
  <2> QED BY <1>0, <2>1 DEF TableInv, CliReaders, Served
<1>10. ASSUME NEW c \in Conn, HandleReply(c) /\ req[c].ack PROVE TableInv'
  <2>1. /\ pc[c] = "reply" /\ req[c].ack /\ pc' = [pc EXCEPT ![c] = "lock"]
        /\ to' = [to EXCEPT ![c] = c] /\ frame' = [frame EXCEPT ![c] = Reply(c, status[c])]
        /\ UNCHANGED <<table, raced>>
    BY <1>10 DEF HandleReply, StartSend, Goto
  <2> QED BY <1>0, <2>1 DEF TableInv, CliReaders, Served
<1>11. ASSUME NEW c \in Conn, SendRest(c) /\ frame[c].op = "MSG" PROVE TableInv'
  <2>1. /\ pc[c] = "write" /\ part[c] = 1 /\ to[c] \notin isClose /\ frame[c].op = "MSG"
        /\ pc' = [pc EXCEPT ![c] = "deliver"] /\ to' = [to EXCEPT ![c] = c]
        /\ frame' = [frame EXCEPT ![c] = NoFrame(c)]
        /\ UNCHANGED <<table, raced>>
    BY <1>11 DEF SendRest, EndSend, Goto
  <2> QED BY <1>0, <2>1 DEF TableInv, CliReaders, Served
<1>12. ASSUME NEW c \in Conn, SendRest(c) /\ frame[c].op # "MSG" PROVE TableInv'
  <2>1. /\ pc[c] = "write" /\ part[c] = 1 /\ to[c] \notin isClose /\ frame[c].op # "MSG"
        /\ pc' = [pc EXCEPT ![c] = "loop"] /\ to' = [to EXCEPT ![c] = c]
        /\ frame' = [frame EXCEPT ![c] = NoFrame(c)]
        /\ UNCHANGED <<table, raced>>
    BY <1>12 DEF SendRest, EndSend, EndRequest, Goto
  <2> QED BY <1>0, <2>1 DEF TableInv, CliReaders, Served
<1>13. ASSUME NEW c \in Conn, SendError(c) /\ frame[c].op = "MSG" PROVE TableInv'
  <2>1. /\ pc[c] = "write" /\ peer[to[c]] = "closed" /\ frame[c].op = "MSG"
        /\ pc' = [pc EXCEPT ![c] = "deliver"] /\ to' = [to EXCEPT ![c] = c]
        /\ frame' = [frame EXCEPT ![c] = NoFrame(c)]
        /\ UNCHANGED <<table, raced>>
    BY <1>13 DEF SendError, SendFailed, EndSend, Goto
  <2> QED BY <1>0, <2>1 DEF TableInv, CliReaders, Served
<1>14. ASSUME NEW c \in Conn, SendError(c) /\ frame[c].op # "MSG" PROVE TableInv'
  <2>1. /\ pc[c] = "write" /\ peer[to[c]] = "closed" /\ frame[c].op # "MSG"
        /\ pc' = [pc EXCEPT ![c] = "destroy"] /\ to' = [to EXCEPT ![c] = c]
        /\ frame' = [frame EXCEPT ![c] = NoFrame(c)]
        /\ UNCHANGED <<table, raced>>
    BY <1>14 DEF SendError, SendFailed, EndSend, Goto
  <2> QED BY <1>0, <2>1 DEF TableInv, CliReaders, Served
<1>15. ASSUME NEW c \in Conn, DestroyRemove(c) PROVE TableInv'
  <2>1. /\ pc[c] = "destroy" /\ CliReaders = {} /\ pc' = [pc EXCEPT ![c] = "unsub_all"]
        /\ (raced' = "no" => raced = "no" /\ table' = table \ {c})
        /\ UNCHANGED <<to, frame>>
    BY <1>15 DEF DestroyRemove, Goto, RacedWrite
  <2> QED BY <1>0, <2>1 DEF TableInv, CliReaders, Served
<1>16. ASSUME AcceptFail PROVE TableInv'
  <2>1. UNCHANGED <<to, frame, table, raced, pc>>
    BY <1>16 DEF AcceptFail
  <2> QED BY <1>0, <2>1 DEF TableInv, CliReaders, Served
<1> QED
  BY <1>1, <1>2, <1>3, <1>4, <1>5, <1>6, <1>7, <1>8, <1>9, <1>10, <1>11, <1>12, <1>13, <1>14,
     <1>15, <1>16 DEF Next, Thread, Accept, Handler, Send, Destroy
=============================================================================
