------------------------- MODULE CommandLineProofs --------------------------
(***************************************************************************)
(* The theorems about the command-line clients, for all command lines,     *)
(* inputs and messages of others.                                          *)
(***************************************************************************)
EXTENDS CommandLine, FiniteSetTheorems, TLAPS

-----------------------------------------------------------------------------
(***************************************************************************)
(* How many elements of a sequence are in a set, when the sequence grows   *)
(* at its end and shrinks at its head.                                     *)
(***************************************************************************)
Where(q, S) == {i \in 1..Len(q) : q[i] \in S}
Count(q, S) == Cardinality(Where(q, S))

One(x, S) == IF x \in S THEN 1 ELSE 0

\* The positions are finitely many.
LEMMA WhereFinite ==
    ASSUME NEW T, NEW q \in Seq(T), NEW S
    PROVE  IsFiniteSet(Where(q, S)) /\ Count(q, S) \in Nat
<1>1. IsFiniteSet(1..Len(q))
  BY FS_Interval
<1>2. Where(q, S) \in SUBSET (1..Len(q))
  BY DEF Where
<1>3. IsFiniteSet(Where(q, S))
  BY <1>1, <1>2, FS_Subset
<1> QED BY <1>3, FS_CardinalityType DEF Count

LEMMA CountEmpty == ASSUME NEW S PROVE Count(<<>>, S) = 0
<1>1. Where(<<>>, S) = {}
  BY DEF Where
<1> QED BY <1>1, FS_EmptySet DEF Count

\* An element at the end adds its position.
LEMMA CountAppend ==
    ASSUME NEW T, NEW q \in Seq(T), NEW x \in T, NEW S
    PROVE  Count(Append(q, x), S) = Count(q, S) + One(x, S)
<1> DEFINE n == Len(q) + 1
           r == Append(q, x)
<1>1. Len(r) = n /\ r[n] = x /\ \A i \in 1..Len(q) : r[i] = q[i]
  OBVIOUS
<1>2. n \notin Where(q, S) /\ Len(q) \in Nat
  BY DEF Where
<1>3. IsFiniteSet(Where(q, S)) /\ Count(q, S) \in Nat
  BY WhereFinite
<1>4. CASE x \in S
  <2>1. Where(r, S) = Where(q, S) \cup {n}
    BY <1>1, <1>2, <1>4 DEF Where
  <2> QED BY <1>2, <1>3, <1>4, <2>1, FS_AddElement DEF Count, One
<1>5. CASE x \notin S
  <2>1. Where(r, S) = Where(q, S)
    BY <1>1, <1>2, <1>5 DEF Where
  <2> QED BY <1>3, <1>5, <2>1 DEF Count, One
<1> QED BY <1>4, <1>5

\* Without its head a sequence has the same elements, one position earlier.
LEMMA CountTail ==
    ASSUME NEW T, NEW q \in Seq(T), q # <<>>, NEW S
    PROVE  Count(q, S) = Count(Tail(q), S) + One(Head(q), S)
<1> DEFINE r == Tail(q)
           later == Where(q, S) \ {1}
           shift == [i \in Where(r, S) |-> i + 1]
<1>1. /\ r \in Seq(T) /\ Len(q) \in Nat /\ Len(r) = Len(q) - 1
      /\ \A i \in 1..Len(r) : r[i] = q[i + 1]
  OBVIOUS
<1>2. IsFiniteSet(Where(q, S)) /\ IsFiniteSet(Where(r, S)) /\ Count(q, S) \in Nat /\ Count(r, S) \in Nat
  BY <1>1, WhereFinite
<1>3. shift \in Bijection(Where(r, S), later)
  <2>1. shift \in [Where(r, S) -> later]
    BY <1>1 DEF Where
  <2>2. \A i, j \in Where(r, S) : shift[i] = shift[j] => i = j
    BY <1>1 DEF Where
  <2>3. \A j \in later : \E i \in Where(r, S) : shift[i] = j
    <3> SUFFICES ASSUME NEW j \in later PROVE \E i \in Where(r, S) : shift[i] = j
      OBVIOUS
    <3>1. j \in 2..Len(q) /\ q[j] \in S
      BY <1>1 DEF Where
    <3>2. j - 1 \in 1..Len(r) /\ r[j - 1] = q[j]
      BY <1>1, <3>1
    <3>3. j - 1 \in Where(r, S)
      BY <3>1, <3>2 DEF Where
    <3> QED BY <3>1, <3>3
  <2> QED BY <2>1, <2>2, <2>3 DEF Bijection, Injection, Surjection, IsInjective
<1>4. Cardinality(later) = Count(r, S)
  BY <1>2, <1>3, FS_Bijection DEF ExistsBijection, Count
<1>5. 1 \in Where(q, S) <=> Head(q) \in S
  BY <1>1 DEF Where
<1>6. Cardinality(later) = IF 1 \in Where(q, S) THEN Count(q, S) - 1 ELSE Count(q, S)
  BY <1>2, FS_RemoveElement DEF Count
<1> QED BY <1>2, <1>4, <1>5, <1>6 DEF One

-----------------------------------------------------------------------------
(***************************************************************************)
(* The inductive invariant.                                                *)
(***************************************************************************)
Topic == Seq(STRING)
Line == [text : {"Subscribing", "Received", "Published"}, op : {"INFO", "OK", "MSG"}, topic : Topic]
Request == [op : {"CONNECT", "SUB", "PUB"}, topic : Topic, ack : BOOLEAN]
Frame == [op : {"INFO", "OK", "MSG"}, topic : Topic]

LinesWith(op) == {l \in Line : l.op = op}
Mistaken == {l \in Line : l.text = "Subscribing" /\ l.op = "MSG"}
Overdue == {l \in Line : l.text = "Received" /\ l.op = "OK"}
FramesWith(op) == {f \in Frame : f.op = op}
Subs == {r \in Request : r.op = "SUB"}

TypeInv ==
    /\ TypeOK /\ cmd \in Commands
    /\ shown \in Seq(Line) /\ requests \in Seq(Request) /\ frames \in Seq(Frame)
    /\ served \in Seq([req : Request, done : BOOLEAN])

Awaits == pc \in {"await_sub", "await_pub"}
Working == pc \notin {"start", "handshake", "exit"}

\* What the control state says of the connection and the command.  INFO is the
\* first frame to arrive, and is taken by the handshake.
PhaseInv ==
    /\ pc = "start" => connection = "none"
    /\ connection = "none" =>
          /\ pc \in {"start", "exit"}
          /\ served = <<>> /\ requests = <<>> /\ frames = <<>> /\ shown = <<>>
    /\ pc = "handshake" =>
          /\ shown = <<>>
          /\ frames = <<>> \/ (Len(frames) = 1 /\ Len(served) = 1 /\ served[1].done)
    /\ Working => /\ served # <<>> /\ served[1].done
                  /\ \A i \in 1..Len(frames) : frames[i].op # "INFO"
    /\ pc \in {"subscribe", "await_sub", "listen"} => cmd.name = "sub"
    /\ pc \in {"input", "publish", "await_pub"} => cmd.name = "pub"
    /\ Awaits => argi <= Len(cmd.argv)

\* The broker serves one request at a time.
ServedInv == \A i \in 1..Len(served) : i < Len(served) => served[i].done

\* The requests in the order in which they were sent, those that were served and
\* those on their way: CONNECT and then what the command is for.
Total == Len(served) + Len(requests)
Nth(n) == IF n <= Len(served) THEN served[n].req ELSE requests[n - Len(served)]

AskedInv ==
    \A n \in 1..Total :
        IF n = 1 THEN Nth(n).op = "CONNECT"
                 ELSE Nth(n).op = (IF cmd.name = "sub" THEN "SUB" ELSE "PUB") /\ Nth(n).ack

\* The lines that tell of requests come before those that show messages.
ToldInv ==
    /\ Told = 1..Card(Told)
    /\ pc \notin {"listen", "exit"} => Told = 1..Len(shown)

\* The lines tell of the requests one by one, and the client is at most one ahead.
OrderInv ==
    /\ Total <= 1 + Card(Told) + (IF Awaits \/ pc = "exit" THEN 1 ELSE 0)
    /\ connection = "open" /\ pc # "exit" => Total = 1 + Card(Told) + (IF Awaits THEN 1 ELSE 0)
    /\ \A n \in 2..Total : n - 1 <= Card(Told) => OnWire(shown[n - 1].topic) = Nth(n).topic
    /\ Awaits => \A n \in 2..Total : n - 1 > Card(Told) => Nth(n).topic = OnWire(cmd.argv[argi])

\* How many requests after CONNECT have been replied to.
Replied == IF Len(served) <= 1 THEN 0 ELSE Len(served) - (IF Last(served).done THEN 1 ELSE 2)

\* Every line that tells of a request has used up a reply or a message, and
\* publishers get no messages.
CountInv ==
    /\ Card(Told) <= Count(shown, LinesWith("OK")) + Count(shown, Mistaken)
    /\ Count(shown, LinesWith("OK")) + Count(frames, FramesWith("OK")) <= Replied
    /\ cmd.name = "pub" => \A i \in 1..Len(frames) : frames[i].op # "MSG"

\* NothingSwallowed, counting with Count.
SwallowInv ==
    pc \in {"subscribe", "await_sub", "listen"} /\ connection = "open" =>
        Count(shown, Mistaken) + (IF pc = "await_sub" THEN 1 ELSE 0)
            = Count(shown, Overdue) + Count(frames, FramesWith("OK")) + Count(requests, Subs)
              + (IF Last(served).done \/ Last(served).req.op # "SUB" THEN 0 ELSE 1)

CommandInv ==
    /\ TypeInv /\ PhaseInv /\ ServedInv /\ AskedInv /\ ToldInv /\ OrderInv /\ CountInv
    /\ SwallowInv

-----------------------------------------------------------------------------
(***************************************************************************)
(* What the operations do to the sequences.                                *)
(***************************************************************************)
\* The frame that is received.
LEMMA Arrived ==
    ASSUME TypeInv, RecvFrame
    PROVE  /\ Head(frames) \in Frame /\ Head(frames) = frames[1] /\ frames' \in Seq(Frame)
           /\ Len(frames') = Len(frames) - 1 /\ Len(frames) \in Nat \ {0}
           /\ \A i \in 1..Len(frames') : frames'[i] = frames[i + 1]
  BY DEF TypeInv, RecvFrame

\* The arguments are topics.
LEMMA Arguments ==
    ASSUME TypeInv
    PROVE  /\ cmd.name \in {"sub", "pub"} /\ cmd.argv \in Seq(Topic) /\ Len(cmd.argv) \in Nat
           /\ \A i \in 1..Len(cmd.argv) : cmd.argv[i] \in Topic
<1>1. cmd.name \in {"sub", "pub"} /\ cmd.argv \in Seq(Topic)
  BY CommandLineAssumption DEF TypeInv, Topic
<1> QED BY <1>1

\* What is sent of them too.
LEMMA WireIs == ASSUME NEW topic \in Topic PROVE OnWire(topic) \in Topic
BY CommandLineAssumption DEF OnWire, Topic

\* A sent request is the last of all.
LEMMA Sent ==
    ASSUME TypeInv, NEW r \in Request, requests' = Append(requests, r), served' = served
    PROVE  /\ requests' \in Seq(Request) /\ Total' = Total + 1 /\ Total \in Nat
           /\ \A n \in Nat : n = Total + 1 => Nth(n)' = r
           /\ \A n \in 1..Total : Nth(n)' = Nth(n)
<1>1. /\ requests \in Seq(Request) /\ Len(served) \in Nat /\ Len(requests) \in Nat
      /\ Len(requests') = Len(requests) + 1 /\ requests'[Len(requests) + 1] = r
      /\ \A i \in 1..Len(requests) : requests'[i] = requests[i]
  BY DEF TypeInv
<1>2. requests' \in Seq(Request)
  BY <1>1
<1>3. Total' = Total + 1 /\ Total \in Nat /\ \A n \in Nat : n = Total + 1 => Nth(n)' = r
  BY <1>1 DEF Total, Nth
<1>4. ASSUME NEW n \in 1..Total PROVE Nth(n)' = Nth(n)
  <2>1. n > Len(served) => n - Len(served) \in 1..Len(requests)
    BY <1>1 DEF Total
  <2> QED BY <1>1, <2>1 DEF Total, Nth
<1> QED BY <1>2, <1>3, <1>4

\* Serving a request changes none of them.
LEMMA ServedKeeps ==
    ASSUME TypeInv, BrokerServe
    PROVE  /\ requests' \in Seq(Request) /\ served' \in Seq([req : Request, done : BOOLEAN])
           /\ Len(served') = Len(served) + 1 /\ Len(served) \in Nat
           /\ served'[Len(served')] = [req |-> Head(requests), done |-> FALSE]
           /\ Head(requests) \in Request
           /\ \A i \in 1..Len(served) : served'[i] = served[i] /\ served[i].done
           /\ Total' = Total /\ \A n \in 1..Total : Nth(n)' = Nth(n)
<1>1. /\ requests \in Seq(Request) /\ requests # <<>>
      /\ served \in Seq([req : Request, done : BOOLEAN]) /\ Len(served) \in Nat
      /\ Len(requests) \in Nat
  BY DEF TypeInv, BrokerServe
<1>2. /\ Head(requests) \in Request /\ Head(requests) = requests[1]
      /\ requests' \in Seq(Request) /\ Len(requests') = Len(requests) - 1
      /\ \A i \in 1..Len(requests') : requests'[i] = requests[i + 1]
  BY <1>1 DEF BrokerServe
<1> DEFINE e == [req |-> Head(requests), done |-> FALSE]
<1>3. e \in [req : Request, done : BOOLEAN] /\ served' = Append(served, e)
  BY <1>2 DEF BrokerServe
<1> HIDE DEF e
<1>4. /\ served' \in Seq([req : Request, done : BOOLEAN]) /\ Len(served') = Len(served) + 1
      /\ served'[Len(served')] = e /\ \A i \in 1..Len(served) : served'[i] = served[i]
  BY <1>1, <1>3
<1>5. \A i \in 1..Len(served) : served[i].done
  BY DEF BrokerServe
<1>6. Total' = Total
  BY <1>1, <1>2, <1>4 DEF Total
<1>7. ASSUME NEW n \in 1..Total PROVE Nth(n)' = Nth(n)
  <2>1. CASE n <= Len(served)
    BY <1>1, <1>4, <2>1 DEF Nth, Total
  <2>2. CASE n = Len(served) + 1
    <3>1. Nth(n) = requests[1] /\ Nth(n)' = served'[n].req
      BY <1>1, <1>4, <2>2 DEF Nth
    <3>2. served'[n].req = Head(requests)
      BY <1>1, <1>4, <2>2 DEF e
    <3> QED BY <1>2, <3>1, <3>2
  <2>3. CASE n > Len(served) + 1
    <3>1. n - Len(served) - 1 \in 1..Len(requests')
      BY <1>1, <1>2, <2>3 DEF Total
    <3> QED BY <1>1, <1>2, <1>4, <2>3, <3>1 DEF Nth, Total
  <2> QED BY <1>1, <2>1, <2>2, <2>3 DEF Total
<1> QED BY <1>1, <1>2, <1>4, <1>5, <1>6, <1>7 DEF e

\* An element is replaced.
LEMMA Replaced ==
    ASSUME NEW T, NEW q \in Seq(T), NEW m \in 1..Len(q), NEW x \in T, NEW r,
           r = [q EXCEPT ![m] = x]
    PROVE  /\ r \in Seq(T) /\ Len(r) = Len(q) /\ r[m] = x
           /\ \A i \in 1..Len(q) : i # m => r[i] = q[i]
<1>1. q \in [1..Len(q) -> T] /\ Len(q) \in Nat
  OBVIOUS
<1>2. r \in [1..Len(q) -> T] /\ r[m] = x /\ \A i \in 1..Len(q) : i # m => r[i] = q[i]
  BY <1>1
<1>3. r \in Seq(T) /\ Len(r) = Len(q)
  BY <1>1, <1>2
<1> QED BY <1>2, <1>3

\* A reply only marks the last one.
LEMMA RepliedKeeps ==
    ASSUME TypeInv, BrokerReply
    PROVE  /\ served' \in Seq([req : Request, done : BOOLEAN])
           /\ Len(served') = Len(served) /\ Len(served) \in Nat \ {0} /\ requests' = requests
           /\ Last(served) = served[Len(served)] /\ Last(served).req \in Request
           /\ ~served[Len(served)].done /\ served'[Len(served)].done
           /\ \A i \in 1..Len(served) : /\ served'[i].req = served[i].req
                                        /\ i < Len(served) => served'[i].done = served[i].done
           /\ Total' = Total /\ \A n \in 1..Total : Nth(n)' = Nth(n)
<1> DEFINE R == [req : Request, done : BOOLEAN]
           m == Len(served)
<1>1. served \in Seq(R) /\ m \in Nat \ {0} /\ Len(requests) \in Nat /\ requests' = requests
  BY DEF TypeInv, BrokerReply
<1> HIDE DEF R
<1>2. m \in 1..m /\ served[m] \in R
  BY <1>1
<1> DEFINE e == [served[m] EXCEPT !.done = TRUE]
           r == served'
<1>3. r = [served EXCEPT ![m] = e]
  BY DEF BrokerReply
<1>4. e \in R /\ e.req = served[m].req /\ e.done
  BY <1>2 DEF R
<1> HIDE DEF e, r
<1>5. r \in Seq(R) /\ Len(r) = Len(served) /\ r[m] = e /\ \A i \in 1..Len(served) : i # m => r[i] = served[i]
  BY <1>1, <1>2, <1>3, <1>4, Replaced
<1>7. Last(served) = served[m] /\ ~served[m].done
  BY DEF BrokerReply, Last
<1>8. \A i \in 1..m : r[i].req = served[i].req /\ (i < m => r[i].done = served[i].done)
  BY <1>1, <1>4, <1>5
<1>9. Total' = Total /\ \A n \in 1..Total : Nth(n)' = Nth(n)
  BY <1>1, <1>5, <1>8 DEF Total, Nth, r
<1> QED BY <1>1, <1>2, <1>4, <1>5, <1>7, <1>8, <1>9 DEF R, r

\* The broker's loop ends: the requests on their way are lost.
LEMMA ClosedKeeps ==
    ASSUME TypeInv, BrokerClose
    PROVE  /\ requests' = <<>> /\ Total' = Len(served) /\ Total' <= Total /\ Total \in Nat
           /\ Len(served) \in Nat /\ \A n \in 1..Total' : Nth(n)' = Nth(n)
<1>1. /\ requests' = <<>> /\ served' = served /\ Len(requests) \in Nat /\ Len(served) \in Nat
      /\ Len(requests') = 0
  BY DEF TypeInv, BrokerClose
<1> QED BY <1>1 DEF Total, Nth

\* SUB and PUB are sent in the same way.
LEMMA Sends ==
    ASSUME TypeInv, PhaseInv, Sub \/ Pub
    PROVE  \E r \in Request :
               /\ r.topic = OnWire(cmd.argv[argi]) /\ r.ack /\ argi <= Len(cmd.argv)
               /\ r.op = (IF cmd.name = "sub" THEN "SUB" ELSE "PUB")
               /\ requests' = IF connection = "open" THEN Append(requests, r) ELSE requests
               /\ IF cmd.name = "sub" THEN pc = "subscribe" /\ pc' = "await_sub"
                                      ELSE pc = "publish" /\ pc' = "await_pub"
               /\ UNCHANGED <<cmd, argi, s, input, shown, frames, connection, served, published>>
<1> DEFINE op == IF cmd.name = "sub" THEN "SUB" ELSE "PUB"
           r == [op |-> op, topic |-> OnWire(cmd.argv[argi]), ack |-> TRUE]
<1>1. argi \in 1..Len(cmd.argv) /\ argi <= Len(cmd.argv)
  <2>1. argi \in 1 .. Len(cmd.argv) + 1 /\ Len(cmd.argv) \in Nat
    BY Arguments DEF TypeInv, TypeOK
  <2>2. argi <= Len(cmd.argv)
    BY DEF Sub, Pub, Sendable
  <2> QED BY <2>1, <2>2
<1>2. r \in Request
  BY <1>1, Arguments, WireIs DEF Request
<1>3. IF Sub THEN cmd.name = "sub" ELSE cmd.name = "pub"
  BY DEF Sub, Pub, PhaseInv
<1>4. requests' = IF connection = "open" THEN Append(requests, r) ELSE requests
  BY <1>3 DEF Sub, Pub, SendFrame
<1>5. /\ r.topic = OnWire(cmd.argv[argi]) /\ r.ack /\ r.op = op
  OBVIOUS
<1> HIDE DEF r
<1> QED BY <1>1, <1>2, <1>3, <1>4, <1>5 DEF Sub, Pub, others

\* And their replies are told in the same way.
LEMMA Tells ==
    ASSUME TypeInv, PhaseInv, SubReply \/ PubReply
    PROVE  /\ Awaits /\ argi <= Len(cmd.argv) /\ RecvFrame /\ argi' = argi + 1
           /\ IF cmd.name = "sub" THEN pc = "await_sub" /\ pc' = "subscribe"
                                  ELSE pc = "await_pub" /\ pc' = "publish"
           /\ s' \in {s, "OK"} /\ UNCHANGED <<cmd, input, requests, connection, served, published>>
           /\ \E l \in Line :
                 /\ l.text = (IF cmd.name = "sub" THEN "Subscribing" ELSE "Published")
                 /\ l.op = Head(frames).op /\ l.topic = cmd.argv[argi] /\ shown' = Append(shown, l)
<1> DEFINE text == IF cmd.name = "sub" THEN "Subscribing" ELSE "Published"
           l == [text |-> text, op |-> Head(frames).op, topic |-> cmd.argv[argi]]
<1>1. Awaits /\ argi <= Len(cmd.argv) /\ RecvFrame /\ argi' = argi + 1
  BY DEF SubReply, PubReply, Awaits, PhaseInv
<1>2. cmd.argv[argi] \in Topic /\ Head(frames).op \in {"INFO", "OK", "MSG"}
  BY <1>1, Arguments, Arrived DEF TypeInv, TypeOK, Frame
<1>3. l \in Line
  BY <1>2 DEF Line
<1>4. IF SubReply THEN cmd.name = "sub" ELSE cmd.name = "pub"
  BY DEF SubReply, PubReply, PhaseInv
<1>5. shown' = Append(shown, l)
  BY <1>4 DEF SubReply, PubReply, Show
<1>6. l.text = text /\ l.op = Head(frames).op /\ l.topic = cmd.argv[argi]
  OBVIOUS
<1> HIDE DEF l
<1>7. \E m \in Line : m.text = text /\ m.op = Head(frames).op /\ m.topic = cmd.argv[argi] /\ shown' = Append(shown, m)
  BY <1>3, <1>5, <1>6
<1> HIDE DEF text
<1>8. /\ IF cmd.name = "sub" THEN pc = "await_sub" /\ pc' = "subscribe"
                             ELSE pc = "await_pub" /\ pc' = "publish"
      /\ s' \in {s, "OK"} /\ UNCHANGED <<cmd, input, requests, connection, served, published>>
  BY <1>4 DEF SubReply, PubReply, others
<1> QED BY <1>1, <1>7, <1>8 DEF text

\* What arrives otherwise is shown as a message.
LEMMA Shows ==
    ASSUME TypeInv, Listen
    PROVE  /\ pc = "listen" /\ RecvFrame
           /\ UNCHANGED <<cmd, pc, argi, s, input, requests, connection, served, published>>
           /\ \E l \in Line : l.text = "Received" /\ l.op = Head(frames).op /\ shown' = Append(shown, l)
<1> DEFINE l == [text |-> "Received", op |-> Head(frames).op, topic |-> Head(frames).topic]
<1>1. pc = "listen" /\ RecvFrame /\ shown' = Append(shown, l)
  BY DEF Listen, Show
<1>2. l \in Line
  BY <1>1, Arrived DEF Frame, Line
<1>3. l.text = "Received" /\ l.op = Head(frames).op
  OBVIOUS
<1> HIDE DEF l
<1>4. \E m \in Line : m.text = "Received" /\ m.op = Head(frames).op /\ shown' = Append(shown, m)
  BY <1>1, <1>2, <1>3
<1> QED BY <1>1, <1>4 DEF Listen, others

\* A connection begins with CONNECT.
LEMMA Connects ==
    ASSUME TypeInv, Connect
    PROVE  /\ pc = "start" /\ UNCHANGED <<cmd, argi, s, input, shown, frames, served, published>>
           /\ \/ pc' = "exit" /\ UNCHANGED <<connection, requests>>
              \/ /\ pc' = "handshake" /\ connection' = "open"
                 /\ \E r \in Request : r.op = "CONNECT" /\ requests' = Append(requests, r)
<1> DEFINE r == [op |-> "CONNECT", topic |-> <<>>, ack |-> FALSE]
<1>1. r \in Request /\ r.op = "CONNECT"
  BY DEF Request, Topic
<1>2. /\ pc = "start" /\ UNCHANGED <<cmd, argi, s, input, shown, frames, served, published>>
      /\ \/ pc' = "exit" /\ UNCHANGED <<connection, requests>>
         \/ pc' = "handshake" /\ connection' = "open" /\ requests' = Append(requests, r)
  BY DEF Connect, others
<1> HIDE DEF r
<1> QED BY <1>1, <1>2

\* A reply, while the connection is open: INFO to CONNECT, and OK to the others,
\* which ask for one.
LEMMA Replies ==
    ASSUME TypeInv, AskedInv, BrokerReply
    PROVE  \/ connection # "open" /\ frames' = frames
           \/ /\ connection = "open"
              /\ \E f \in Frame : /\ f.op = (IF Len(served) = 1 THEN "INFO" ELSE "OK")
                                /\ frames' = Append(frames, f)
<1> DEFINE m == Len(served)
           q == Last(served).req
           info == [op |-> "INFO", topic |-> <<>>]
           ok == [op |-> "OK", topic |-> q.topic]
<1>1. m \in Nat \ {0} /\ q = served[m].req /\ q \in Request /\ Len(requests) \in Nat
  BY RepliedKeeps DEF TypeInv
<1>2. IF m = 1 THEN q.op = "CONNECT" ELSE q.op # "CONNECT" /\ q.ack
  <2>1. m \in 1..Total /\ Nth(m) = q
    BY <1>1 DEF Total, Nth
  <2> QED BY <2>1 DEF AskedInv
<1>3. Reply(q) = IF m = 1 THEN <<info>> ELSE <<ok>>
  BY <1>2 DEF Reply
<1>4. info \in Frame /\ info.op = "INFO"
  BY DEF Frame, Topic
<1>5. ok \in Frame /\ ok.op = "OK"
  BY <1>1 DEF Frame, Request
<1>6. frames \in Seq(Frame) /\ (frames' = IF connection = "open" THEN frames \o Reply(q) ELSE frames)
  BY DEF BrokerReply, TypeInv
<1> HIDE DEF info, ok, q
<1>7. \A f \in Frame : frames \o <<f>> = Append(frames, f)
  BY <1>6
<1>8. CASE connection = "open" /\ m = 1
  <2>1. frames' = Append(frames, info)
    BY <1>3, <1>4, <1>6, <1>7, <1>8
  <2> QED BY <1>4, <1>8, <2>1
<1>9. CASE connection = "open" /\ m # 1
  <2>1. frames' = Append(frames, ok)
    BY <1>3, <1>5, <1>6, <1>7, <1>9
  <2> QED BY <1>5, <1>9, <2>1
<1> QED BY <1>6, <1>8, <1>9

\* A message arrives only for a subscription, which publishers do not have.
LEMMA Delivers ==
    ASSUME TypeInv, AskedInv, NEW topic, NEW i \in 1..Len(cmd.argv), BrokerDeliver(topic, OnWire(cmd.argv[i]))
    PROVE  /\ cmd.name = "sub" /\ Len(served) > 1 /\ connection = "open"
           /\ UNCHANGED <<cmd, pc, argi, s, input, shown, requests, connection, served>>
           /\ \E f \in Frame : f.op = "MSG" /\ frames' = Append(frames, f)
<1>1. PICK j \in 1..Len(served) : served[j].req.op = "SUB"
  BY DEF BrokerDeliver, Subscribed
<1>2. Len(served) \in Nat /\ Len(requests) \in Nat
  BY DEF TypeInv
<1>3. j \in 1..Total /\ Nth(j).op = "SUB"
  BY <1>1, <1>2 DEF Total, Nth
<1>4. cmd.name = "sub" /\ j # 1
  BY <1>3 DEF AskedInv
<1> DEFINE f == [op |-> "MSG", topic |-> OnWire(cmd.argv[i])]
<1>5. f \in Frame /\ f.op = "MSG" /\ frames' = Append(frames, f)
  BY Arguments, WireIs DEF Frame, BrokerDeliver
<1> HIDE DEF f
<1>6. \E g \in Frame : g.op = "MSG" /\ frames' = Append(frames, g)
  BY <1>5
<1> QED BY <1>1, <1>2, <1>4, <1>6 DEF BrokerDeliver, clientVars

\* The lines that tell of requests, when nothing or a line that does not tell, or
\* one that does, is added.
LEMMA ToldKeeps ==
    ASSUME TypeInv, ToldInv
    PROVE  /\ Card(Told) \in Nat /\ Len(shown) \in Nat /\ Card(Told) <= Len(shown)
           /\ pc \notin {"listen", "exit"} => Card(Told) = Len(shown)
           /\ shown' = shown => Told' = Told /\ Card(Told)' = Card(Told)
<1>1. Len(shown) \in Nat /\ Told \in SUBSET (1..Len(shown))
  BY DEF TypeInv, Told
<1>2. IsFiniteSet(1..Len(shown)) /\ Cardinality(1..Len(shown)) = Len(shown)
  BY <1>1, FS_Interval
<1>3. Card(Told) \in Nat /\ Card(Told) <= Len(shown)
  BY <1>1, <1>2, FS_Subset, FS_CardinalityType DEF Card
<1>4. pc \notin {"listen", "exit"} => Card(Told) = Len(shown)
  BY <1>2 DEF ToldInv, Card
<1>5. shown' = shown => Told' = Told /\ Card(Told)' = Card(Told)
  BY DEF Told, Card
<1> QED BY <1>1, <1>3, <1>4, <1>5

LEMMA ToldGrows ==
    ASSUME TypeInv, ToldInv, NEW l \in Line, shown' = Append(shown, l)
    PROVE  /\ Len(shown') = Len(shown) + 1 /\ shown'[Len(shown) + 1] = l
           /\ \A i \in 1..Len(shown) : shown'[i] = shown[i]
           /\ l.text = "Received" => Told' = Told /\ Card(Told)' = Card(Told)
           /\ l.text # "Received" /\ pc \notin {"listen", "exit"} =>
                 Told' = 1..Len(shown') /\ Card(Told)' = Card(Told) + 1
<1>1. shown \in Seq(Line) /\ Len(shown) \in Nat
  BY DEF TypeInv
<1>2. /\ Len(shown') = Len(shown) + 1 /\ shown'[Len(shown) + 1] = l
      /\ \A i \in 1..Len(shown) : shown'[i] = shown[i]
  BY <1>1
<1>3. CASE l.text = "Received"
  <2>1. Told' = Told
    BY <1>1, <1>2, <1>3 DEF Told
  <2> QED BY <1>2, <1>3, <2>1 DEF Card
<1>4. CASE l.text # "Received" /\ pc \notin {"listen", "exit"}
  <2>1. Told = 1..Len(shown)
    BY <1>4 DEF ToldInv
  <2>2. \A i \in 1..Len(shown) : shown[i].text # "Received"
    BY <2>1 DEF Told
  <2>3. \A i \in 1..Len(shown') : shown'[i].text # "Received"
    BY <1>1, <1>2, <1>4, <2>2
  <2>4. Told' = 1..Len(shown')
    BY <2>3 DEF Told
  <2>5. Cardinality(1..Len(shown)) = Len(shown) /\ Cardinality(1..Len(shown')) = Len(shown) + 1
    BY <1>1, <1>2, FS_Interval
  <2> QED BY <1>2, <1>4, <2>1, <2>4, <2>5 DEF Card
<1> QED BY <1>2, <1>3, <1>4

-----------------------------------------------------------------------------
(***************************************************************************)
(* Every operation keeps every part of the invariant.                      *)
(***************************************************************************)
LEMMA TypeStep ==
    ASSUME TypeInv, PhaseInv, Next
    PROVE  TypeInv'
<1> DEFINE n == Len(cmd.argv)
<1>0. /\ pc \in PC /\ argi \in 1 .. n + 1 /\ s \in {"OK", "ERR", "undefined"} /\ input \in 0..MaxInput
      /\ connection \in {"none", "open", "closed"} /\ published \in 0..MaxPublished
      /\ n \in Nat /\ cmd \in Commands
  BY Arguments DEF TypeInv, TypeOK
<1>s. ASSUME /\ shown' \in Seq(Line) /\ requests' \in Seq(Request) /\ frames' \in Seq(Frame)
             /\ served' \in Seq([req : Request, done : BOOLEAN]) /\ cmd' = cmd
             /\ pc' \in PC /\ argi' \in 1 .. n + 1 /\ s' \in {"OK", "ERR", "undefined"} /\ input' \in 0..MaxInput
             /\ connection' \in {"none", "open", "closed"} /\ published' \in 0..MaxPublished
      PROVE  TypeInv'
  <2>1. \A i \in 1..Len(shown') : shown'[i] \in Line
    BY <1>s
  <2>2. \A i \in 1..Len(requests') : requests'[i] \in Request
    BY <1>s
  <2>3. \A i \in 1..Len(frames') : frames'[i] \in Frame
    BY <1>s
  <2> QED BY <1>0, <1>s, <2>1, <2>2, <2>3 DEF TypeInv, TypeOK, Line, Request, Frame
<1>t. /\ shown \in Seq(Line) /\ requests \in Seq(Request) /\ frames \in Seq(Frame)
      /\ served \in Seq([req : Request, done : BOOLEAN])
  BY DEF TypeInv
<1>e. <<>> \in Topic
  BY DEF Topic
<1>1. CASE Connect
  <2>1. requests' \in Seq(Request)
    <3>1. requests' = requests \/ \E r \in Request : requests' = Append(requests, r)
      BY <1>1, Connects
    <3>2. CASE requests' = requests
      BY <1>t, <3>2
    <3>3. CASE \E r \in Request : requests' = Append(requests, r)
      <4>1. PICK r \in Request : requests' = Append(requests, r)
        BY <3>3
      <4> QED BY <1>t, <4>1
    <3> QED BY <3>1, <3>2, <3>3
  <2> QED BY <1>0, <1>1, <1>s, <1>t, <2>1, Connects DEF PC
<1>2. CASE Handshake
  <2>1. frames' \in Seq(Frame)
    BY <1>2, Arrived DEF Handshake
  <2> QED BY <1>0, <1>2, <1>s, <1>t, <2>1 DEF Handshake, PC, others
<1>3. CASE Fail \/ SubDone \/ PubDone \/ SendBlank \/ ListenOverruns
  <2>1. CASE Fail \/ SubDone \/ PubDone
    BY <1>0, <1>s, <1>t, <2>1 DEF Fail, SubDone, PubDone, PC, others
  <2>2. CASE SendBlank \/ ListenOverruns
    BY <1>0, <1>s, <1>t, <2>2 DEF SendBlank, ListenOverruns, PC, others
  <2> QED BY <1>3, <2>1, <2>2
<1>4. CASE Quit
  <2>1. frames' \in Seq(Frame)
    BY <1>4 DEF Quit
  <2> QED BY <1>0, <1>4, <1>s, <1>t, <2>1 DEF Quit, clientVars
<1>5. CASE Sub \/ Pub
  <2>1. requests' \in Seq(Request)
    <3>1. requests' = requests \/ \E r \in Request : requests' = Append(requests, r)
      BY <1>5, Sends
    <3>2. CASE requests' = requests
      BY <1>t, <3>2
    <3>3. CASE \E r \in Request : requests' = Append(requests, r)
      <4>1. PICK r \in Request : requests' = Append(requests, r)
        BY <3>3
      <4> QED BY <1>t, <4>1
    <3> QED BY <3>1, <3>2, <3>3
  <2> QED BY <1>0, <1>5, <1>s, <1>t, <2>1, Sends DEF PC
<1>6. CASE SubTooLong \/ PubTooLong
  <2>1. CASE SubTooLong
    BY <1>0, <1>s, <1>t, <2>1 DEF SubTooLong, PC, others
  <2>2. CASE PubTooLong
    BY <1>0, <1>s, <1>t, <2>2 DEF PubTooLong, PC, others
  <2> QED BY <1>6, <2>1, <2>2
<1>7. CASE SubReply \/ PubReply
  <2>1. shown' \in Seq(Line) /\ frames' \in Seq(Frame)
    <3>1. RecvFrame
      BY <1>7, Tells
    <3>2. PICK l \in Line : shown' = Append(shown, l)
      BY <1>7, Tells
    <3>3. shown' \in Seq(Line)
      BY <1>t, <3>2
    <3> QED BY <3>1, <3>3, Arrived
  <2>2. /\ argi' = argi + 1 /\ argi <= n /\ pc' \in {"subscribe", "publish"} /\ s' \in {s, "OK"}
        /\ UNCHANGED <<cmd, input, requests, connection, served, published>>
    <3>1. argi' = argi + 1 /\ argi <= n /\ s' \in {s, "OK"} /\ UNCHANGED <<cmd, input, requests, connection, served, published>>
      BY <1>7, Tells
    <3>2. IF cmd.name = "sub" THEN pc' = "subscribe" ELSE pc' = "publish"
      BY <1>7, Tells
    <3> QED BY <3>1, <3>2
  <2>3. argi' \in 1 .. n + 1 /\ pc' \in PC /\ s' \in {"OK", "ERR", "undefined"}
    BY <1>0, <2>2 DEF PC
  <2> HIDE DEF n
  <2> QED BY <1>0, <1>s, <1>t, <2>1, <2>2, <2>3
<1>8. CASE Listen
  <2>1. shown' \in Seq(Line) /\ frames' \in Seq(Frame)
    <3>1. RecvFrame
      BY <1>8, Shows
    <3>2. PICK l \in Line : shown' = Append(shown, l)
      BY <1>8, Shows
    <3>3. shown' \in Seq(Line)
      BY <1>t, <3>2
    <3> QED BY <3>1, <3>3, Arrived
  <2> QED BY <1>0, <1>8, <1>s, <1>t, <2>1, Shows
<1>9. CASE Input
  BY <1>0, <1>9, <1>s, <1>t, CommandLineAssumption DEF Input, PC, others
<1>10. CASE BrokerServe
  <2>1. requests' \in Seq(Request) /\ served' \in Seq([req : Request, done : BOOLEAN])
    BY <1>10, ServedKeeps
  <2> QED BY <1>0, <1>10, <1>s, <1>t, <2>1 DEF BrokerServe, clientVars
<1>11. CASE BrokerReply
  <2>1. served' \in Seq([req : Request, done : BOOLEAN]) /\ Last(served).req \in Request
    BY <1>11, RepliedKeeps
  <2>2. Reply(Last(served).req) \in Seq(Frame)
    <3>1. [op |-> "INFO", topic |-> <<>>] \in Frame
      BY <1>e DEF Frame
    <3>2. [op |-> "OK", topic |-> Last(served).req.topic] \in Frame
      BY <2>1 DEF Frame, Request
    <3> QED BY <3>1, <3>2 DEF Reply
  <2>3. frames' \in Seq(Frame)
    BY <1>11, <1>t, <2>2 DEF BrokerReply
  <2> QED BY <1>0, <1>11, <1>s, <1>t, <2>1, <2>3 DEF BrokerReply, clientVars
<1>12. CASE BrokerClose
  <2>1. requests' \in Seq(Request)
    BY <1>12 DEF BrokerClose
  <2> QED BY <1>0, <1>12, <1>s, <1>t, <2>1 DEF BrokerClose, clientVars
<1>13. ASSUME NEW topic \in Published, NEW i \in 1..n, BrokerDeliver(topic, OnWire(cmd.argv[i]))
       PROVE  TypeInv'
  <2>1. [op |-> "MSG", topic |-> OnWire(cmd.argv[i])] \in Frame
    BY Arguments, WireIs DEF Frame
  <2>2. frames' \in Seq(Frame)
    BY <1>13, <1>t, <2>1 DEF BrokerDeliver
  <2>3. published' \in 0..MaxPublished
    BY <1>0, <1>13, CommandLineAssumption DEF BrokerDeliver
  <2> QED BY <1>0, <1>13, <1>s, <1>t, <2>2, <2>3 DEF BrokerDeliver, clientVars
<1> QED
  BY <1>1, <1>2, <1>3, <1>4, <1>5, <1>6, <1>7, <1>8, <1>9, <1>10, <1>11, <1>12, <1>13
     DEF Next, Client, Broker

\* The steps that only change where the client is, or how far it is.
Quiet ==
    Fail \/ SubDone \/ PubDone \/ Input \/ SubTooLong \/ PubTooLong \/ SendBlank \/ ListenOverruns

LEMMA QuietKeeps ==
    ASSUME Quiet
    PROVE  /\ UNCHANGED <<cmd, shown, requests, frames, connection, served>>
           /\ pc \notin {"start", "exit"} /\ pc' # "start" /\ pc' # "handshake" /\ ~Awaits'
           /\ Awaits \/ pc \in {"handshake", "listen"} => pc' = "exit"
           /\ pc \in {"subscribe", "await_sub"} => pc' \in {"subscribe", "listen", "exit"}
           /\ pc' \in {"subscribe", "listen"} => pc = "subscribe"
           /\ pc' \in {"input", "publish"} => pc \in {"input", "publish"}
           /\ pc' \in {"subscribe", "listen", "input", "publish", "exit"}
<1>1. CASE Fail
  BY <1>1 DEF Fail, Awaits, others
<1>2. CASE SubDone \/ PubDone
  BY <1>2 DEF SubDone, PubDone, Awaits, others
<1>3. CASE Input
  BY <1>3 DEF Input, Awaits, others
<1>4. CASE SubTooLong \/ PubTooLong
  BY <1>4 DEF SubTooLong, PubTooLong, Awaits, others
<1>5. CASE SendBlank \/ ListenOverruns
  BY <1>5 DEF SendBlank, ListenOverruns, Awaits, others
<1> QED BY <1>1, <1>2, <1>3, <1>4, <1>5 DEF Quiet

LEMMA PhaseStep ==
    ASSUME CommandInv, Next
    PROVE  PhaseInv'
<1>0. /\ TypeInv /\ PhaseInv /\ ServedInv /\ AskedInv /\ ToldInv /\ OrderInv
      /\ Len(served) \in Nat /\ Len(requests) \in Nat /\ Len(frames) \in Nat
      /\ cmd.name \in {"sub", "pub"} /\ frames \in Seq(Frame) /\ pc \in PC
  BY Arguments DEF CommandInv, TypeInv, TypeOK
<1>h. pc = "handshake" => Total <= 1 /\ requests \in Seq(Request)
  <2> SUFFICES ASSUME pc = "handshake" PROVE Total <= 1
    BY <1>0 DEF TypeInv
  <2>1. Card(Told) = 0
    BY <1>0, ToldKeeps DEF PhaseInv
  <2> QED BY <1>0, <2>1 DEF OrderInv, Awaits
<1>1. CASE Connect
  BY <1>0, <1>1, Connects DEF PhaseInv, Working, Awaits
<1>2. CASE Handshake
  <2>1. Len(frames) = 1 /\ Len(served) = 1 /\ served[1].done /\ Len(frames') = 0
    BY <1>0, <1>2, Arrived DEF Handshake, PhaseInv, RecvFrame
  <2>2. served # <<>>
    BY <2>1
  <2>3. served' = served /\ connection' = connection /\ connection # "none"
    BY <1>0, <1>2 DEF Handshake, PhaseInv, others
  <2> QED BY <1>0, <1>2, <2>1, <2>2, <2>3 DEF Handshake, PhaseInv, Working, Awaits, others
<1>3. CASE Quiet
  BY <1>0, <1>3, QuietKeeps DEF PhaseInv, Working, PC, Awaits
<1>4. CASE Quit
  BY <1>0, <1>4 DEF PhaseInv, Quit, Working, Awaits, clientVars
<1>5. CASE Sub \/ Pub
  <2>1. PICK r \in Request :
               /\ argi <= Len(cmd.argv)
               /\ IF cmd.name = "sub" THEN pc = "subscribe" /\ pc' = "await_sub"
                                      ELSE pc = "publish" /\ pc' = "await_pub"
               /\ UNCHANGED <<cmd, argi, s, input, shown, frames, connection, served, published>>
    BY <1>0, <1>5, Sends
  <2> QED BY <1>0, <2>1 DEF PhaseInv, Working, Awaits
<1>6. CASE SubReply \/ PubReply
  <2>1. /\ Awaits /\ RecvFrame /\ UNCHANGED <<cmd, connection, served>>
        /\ IF cmd.name = "sub" THEN pc = "await_sub" /\ pc' = "subscribe"
                               ELSE pc = "await_pub" /\ pc' = "publish"
    BY <1>0, <1>6, Tells
  <2>2. \A i \in 1..Len(frames') : i + 1 \in 1..Len(frames) /\ frames'[i] = frames[i + 1]
    BY <1>0, <2>1, Arrived
  <2>3. \A i \in 1..Len(frames') : frames'[i].op # "INFO"
    BY <1>0, <2>1, <2>2 DEF PhaseInv, Working, Awaits
  <2> QED BY <1>0, <2>1, <2>3 DEF PhaseInv, Working, Awaits
<1>7. CASE Listen
  <2>1. pc = "listen" /\ RecvFrame /\ UNCHANGED <<cmd, pc, argi, connection, served>>
    BY <1>0, <1>7, Shows
  <2>2. \A i \in 1..Len(frames') : i + 1 \in 1..Len(frames) /\ frames'[i] = frames[i + 1]
    BY <1>0, <2>1, Arrived
  <2>3. \A i \in 1..Len(frames') : frames'[i].op # "INFO"
    BY <1>0, <2>1, <2>2 DEF PhaseInv, Working
  <2> QED BY <1>0, <2>1, <2>3 DEF PhaseInv, Working, Awaits
<1>8. CASE BrokerServe
  <2>1. /\ Len(served') = Len(served) + 1 /\ \A i \in 1..Len(served) : served'[i] = served[i]
        /\ requests # <<>> /\ UNCHANGED <<cmd, pc, argi, shown, frames, connection>>
    BY <1>0, <1>8, ServedKeeps DEF BrokerServe, clientVars
  <2>2. pc = "handshake" => frames = <<>>
    <3>1. Len(requests) > 0
      BY <1>0, <2>1 DEF TypeInv
    <3> QED BY <1>0, <1>h, <3>1 DEF PhaseInv, Total
  <2>3. Working => served' # <<>> /\ served'[1].done
    <3>1. Working => Len(served) > 0 /\ served[1].done
      BY <1>0 DEF PhaseInv, TypeInv
    <3> QED BY <1>0, <2>1, <3>1
  <2>4. connection # "none"
    BY <1>0, <2>1 DEF PhaseInv
  <2> QED BY <1>0, <2>1, <2>2, <2>3, <2>4 DEF PhaseInv, Working, Awaits
<1>9. CASE BrokerReply
  <2>0. UNCHANGED <<cmd, pc, argi, shown, requests, connection>>
    BY <1>9 DEF BrokerReply, clientVars
  <2>1. /\ Len(served') = Len(served) /\ Len(served) > 0
        /\ ~served[Len(served)].done /\ served'[Len(served)].done
        /\ \A i \in 1..Len(served) : i < Len(served) => served'[i].done = served[i].done
    <3>1. Len(served) \in Nat \ {0} => Len(served) > 0
      OBVIOUS
    <3> QED BY <1>0, <1>9, <3>1, RepliedKeeps
  <2>2. connection # "none"
    <3>1. served # <<>>
      BY <1>9 DEF BrokerReply
    <3> QED BY <1>0, <3>1 DEF PhaseInv
  <2>3. \/ frames' = frames
        \/ \E f \in Frame : f.op = (IF Len(served) = 1 THEN "INFO" ELSE "OK") /\ frames' = Append(frames, f)
    BY <1>0, <1>9, Replies
  <2>4. pc = "handshake" => frames = <<>> /\ Len(served) = 1
    BY <1>0, <1>h, <2>1 DEF PhaseInv, Total
  <2>5. pc = "handshake" => frames' = <<>> \/ Len(frames') = 1
    <3>1. pc = "handshake" /\ frames' # frames => \E f \in Frame : frames' = Append(<<>>, f)
      BY <2>3, <2>4
    <3> QED BY <2>4, <3>1
  <2>6. Working => Len(served) > 1 /\ served'[1].done /\ served' # <<>>
    BY <1>0, <2>1 DEF PhaseInv
  <2>7. Working => \A i \in 1..Len(frames') : frames'[i].op # "INFO"
    <3> SUFFICES ASSUME Working PROVE \A i \in 1..Len(frames') : frames'[i].op # "INFO"
      OBVIOUS
    <3>0. Len(served) # 1
      <4>1. Len(served) > 1
        BY <2>6
      <4> QED BY <1>0, <4>1
    <3>i. \A i \in 1..Len(frames) : frames[i].op # "INFO"
      BY <1>0 DEF PhaseInv
    <3>1. CASE frames' = frames
      BY <3>i, <3>1
    <3>2. CASE frames' # frames
      <4>1. PICK f \in Frame : f.op = "OK" /\ frames' = Append(frames, f)
        BY <2>3, <3>0, <3>2
      <4>2. /\ Len(frames') = Len(frames) + 1 /\ frames'[Len(frames) + 1] = f
            /\ \A i \in 1..Len(frames) : frames'[i] = frames[i]
        BY <1>0, <4>1
      <4> QED BY <1>0, <3>i, <4>1, <4>2
    <3> QED BY <3>1, <3>2
  <2> QED BY <1>0, <2>0, <2>1, <2>2, <2>4, <2>5, <2>6, <2>7 DEF PhaseInv, Working, Awaits
<1>10. CASE BrokerClose
  BY <1>0, <1>10 DEF PhaseInv, BrokerClose, Working, Awaits, clientVars
<1>11. ASSUME NEW topic \in Published, NEW i \in 1..Len(cmd.argv), BrokerDeliver(topic, OnWire(cmd.argv[i]))
       PROVE  PhaseInv'
  <2>1. /\ Len(served) > 1 /\ connection = "open"
        /\ UNCHANGED <<cmd, pc, argi, s, input, shown, requests, connection, served>>
    BY <1>0, <1>11, Delivers
  <2>2. PICK f \in Frame : f.op = "MSG" /\ frames' = Append(frames, f)
    BY <1>0, <1>11, Delivers
  <2>3. /\ Len(frames') = Len(frames) + 1 /\ frames'[Len(frames) + 1] = f
        /\ \A k \in 1..Len(frames) : frames'[k] = frames[k]
    BY <1>0, <2>2
  <2>4. pc # "handshake"
    BY <1>0, <1>h, <2>1 DEF Total
  <2>5. Working => \A k \in 1..Len(frames') : frames'[k].op # "INFO"
    BY <1>0, <2>2, <2>3 DEF PhaseInv
  <2> QED BY <1>0, <2>1, <2>4, <2>5 DEF PhaseInv, Working, Awaits
<1> QED
  BY <1>1, <1>2, <1>3, <1>4, <1>5, <1>6, <1>7, <1>8, <1>9, <1>10, <1>11
     DEF Next, Client, Broker, Quiet

LEMMA ServedStep ==
    ASSUME TypeInv, ServedInv, Next
    PROVE  ServedInv'
<1>1. CASE BrokerServe
  BY <1>1, ServedKeeps DEF ServedInv
<1>2. CASE BrokerReply
  BY <1>2, RepliedKeeps DEF ServedInv
<1>3. CASE served' = served
  BY <1>3 DEF ServedInv
<1>4. BrokerServe \/ BrokerReply \/ served' = served
  <2>1. CASE Client
    BY <2>1 DEF Client, Connect, Handshake, Fail, Quit, SendBlank, ListenOverruns, Sub, SubTooLong, SubReply, SubDone, Listen,
                Input, Pub, PubTooLong, PubReply, PubDone, others, clientVars
  <2>2. CASE Broker
    BY <2>2 DEF Broker, BrokerClose, BrokerDeliver
  <2> QED BY <2>1, <2>2 DEF Next
<1> QED BY <1>1, <1>2, <1>3, <1>4


\* The requests are the same, or one is added.
LEMMA AskedSame ==
    ASSUME AskedInv, cmd' = cmd, Total \in Nat, Total' \in Nat, Total' <= Total,
           \A n \in 1..Total' : Nth(n)' = Nth(n)
    PROVE  AskedInv'
<1>1. \A n \in 1..Total' : n \in 1..Total /\ Nth(n)' = Nth(n)
  OBVIOUS
<1> QED BY <1>1 DEF AskedInv

LEMMA Unasked ==
    ASSUME TypeInv, UNCHANGED <<requests, served>>
    PROVE  Total' = Total /\ Total \in Nat /\ \A n \in 1..Total : Nth(n)' = Nth(n)
<1>1. Len(requests) \in Nat /\ Len(served) \in Nat
  BY DEF TypeInv
<1> QED BY <1>1 DEF Total, Nth

LEMMA AskedStep ==
    ASSUME TypeInv, PhaseInv, AskedInv, Next
    PROVE  AskedInv'
<1>0. Len(served) \in Nat /\ Len(requests) \in Nat /\ Total \in Nat /\ Total = Len(served) + Len(requests)
  BY DEF TypeInv, Total
<1>a. ASSUME NEW r \in Request, requests' = Append(requests, r), served' = served, cmd' = cmd,
             IF Total = 0 THEN r.op = "CONNECT"
                          ELSE r.op = (IF cmd.name = "sub" THEN "SUB" ELSE "PUB") /\ r.ack
      PROVE  AskedInv'
  <2>1. /\ Total' = Total + 1 /\ \A n \in Nat : n = Total + 1 => Nth(n)' = r
        /\ \A n \in 1..Total : Nth(n)' = Nth(n)
    BY <1>a, Sent
  <2>2. \A n \in 1..Total' : n \in 1..Total \/ (n = Total + 1 /\ Nth(n)' = r)
    BY <1>0, <2>1
  <2> QED BY <1>0, <1>a, <2>1, <2>2 DEF AskedInv
<1>u. ASSUME UNCHANGED <<requests, served, cmd>> PROVE AskedInv'
  BY <1>u, Unasked, AskedSame
<1>1. CASE Connect
  <2>1. served = <<>> /\ requests = <<>> /\ UNCHANGED <<cmd, served>>
    BY <1>1, Connects DEF PhaseInv
  <2>2. Total = 0
    BY <1>0, <2>1
  <2>3. requests' = requests \/ \E r \in Request : r.op = "CONNECT" /\ requests' = Append(requests, r)
    BY <1>1, Connects
  <2> QED BY <1>a, <1>u, <2>1, <2>2, <2>3
<1>2. CASE Sub \/ Pub
  <2>1. PICK r \in Request :
               /\ r.ack /\ r.op = (IF cmd.name = "sub" THEN "SUB" ELSE "PUB")
               /\ requests' = IF connection = "open" THEN Append(requests, r) ELSE requests
               /\ pc \in {"subscribe", "publish"}
               /\ UNCHANGED <<cmd, served>>
    BY <1>2, Sends
  <2>2. Len(served) # 0
    BY <2>1 DEF PhaseInv, Working, TypeInv
  <2>3. Total # 0
    BY <1>0, <2>2
  <2> QED BY <1>a, <1>u, <2>1, <2>3
<1>3. CASE BrokerServe
  <2>1. cmd' = cmd
    BY <1>3 DEF BrokerServe, clientVars
  <2> QED BY <1>0, <1>3, <2>1, ServedKeeps, AskedSame
<1>4. CASE BrokerReply
  <2>1. cmd' = cmd
    BY <1>4 DEF BrokerReply, clientVars
  <2> QED BY <1>0, <1>4, <2>1, RepliedKeeps, AskedSame
<1>5. CASE BrokerClose
  <2>1. cmd' = cmd
    BY <1>5 DEF BrokerClose, clientVars
  <2> QED BY <1>0, <1>5, <2>1, ClosedKeeps, AskedSame
<1>6. CASE Quiet \/ Handshake \/ Quit
  <2>1. UNCHANGED <<requests, served, cmd>>
    BY <1>6, QuietKeeps DEF Handshake, Quit, others, clientVars
  <2> QED BY <1>u, <2>1
<1>7. CASE SubReply \/ PubReply \/ Listen
  <2>1. UNCHANGED <<requests, served, cmd>>
    BY <1>7, Tells, Shows
  <2> QED BY <1>u, <2>1
<1>8. ASSUME NEW topic \in Published, NEW i \in 1..Len(cmd.argv), BrokerDeliver(topic, OnWire(cmd.argv[i]))
      PROVE  AskedInv'
  <2>1. UNCHANGED <<requests, served, cmd>>
    BY <1>8, Delivers
  <2> QED BY <1>u, <2>1
<1> QED
  BY <1>1, <1>2, <1>3, <1>4, <1>5, <1>6, <1>7, <1>8 DEF Next, Client, Broker, Quiet

\* The lines stay in two parts: those that tell, and those that show messages.
LEMMA ToldStep ==
    ASSUME TypeInv, PhaseInv, AskedInv, ToldInv, Next
    PROVE  ToldInv'
<1>0. Len(shown) \in Nat /\ Card(Told) \in Nat /\ Card(Told) <= Len(shown)
  BY ToldKeeps
<1>u. ASSUME shown' = shown, pc' \notin {"listen", "exit"} => pc \notin {"listen", "exit"}
      PROVE  ToldInv'
  BY <1>u, ToldKeeps DEF ToldInv
<1>1. CASE SubReply \/ PubReply
  <2>1. PICK l \in Line : /\ l.text = (IF cmd.name = "sub" THEN "Subscribing" ELSE "Published")
                          /\ shown' = Append(shown, l)
    BY <1>1, Tells
  <2>2. l.text # "Received" /\ pc \notin {"listen", "exit"}
    BY <1>1, <2>1, Tells DEF Awaits
  <2>3. Told' = 1..Len(shown') /\ Len(shown') = Len(shown) + 1
    BY <2>1, <2>2, ToldGrows
  <2>4. Cardinality(1..Len(shown')) = Len(shown')
    BY <1>0, <2>3, FS_Interval
  <2> QED BY <2>3, <2>4 DEF ToldInv, Card
<1>2. CASE Listen
  <2>1. pc' = "listen" /\ \E l \in Line : l.text = "Received" /\ shown' = Append(shown, l)
    BY <1>2, Shows
  <2>2. Told' = Told /\ Card(Told)' = Card(Told)
    BY <2>1, ToldGrows
  <2> QED BY <2>1, <2>2 DEF ToldInv
<1>3. CASE Sub \/ Pub
  <2>1. shown' = shown /\ pc \notin {"listen", "exit"}
    BY <1>3, Sends
  <2> QED BY <1>u, <2>1
<1>4. CASE Connect \/ Handshake \/ Quit
  BY <1>4, <1>u, Connects DEF Handshake, Quit, clientVars
<1>5. CASE Quiet
  BY <1>5, <1>u, QuietKeeps
<1>6. CASE BrokerServe \/ BrokerReply \/ BrokerClose
  BY <1>6, <1>u DEF BrokerServe, BrokerReply, BrokerClose, clientVars
<1>7. ASSUME NEW topic \in Published, NEW i \in 1..Len(cmd.argv), BrokerDeliver(topic, OnWire(cmd.argv[i]))
      PROVE  ToldInv'
  BY <1>7, <1>u, Delivers
<1> QED
  BY <1>1, <1>2, <1>3, <1>4, <1>5, <1>6, <1>7 DEF Next, Client, Broker, Quiet


LEMMA OrderStep ==
    ASSUME CommandInv, Next
    PROVE  OrderInv'
<1> DEFINE T == Card(Told)
<1>0. /\ TypeInv /\ PhaseInv /\ AskedInv /\ ToldInv /\ OrderInv
      /\ T \in Nat /\ Len(shown) \in Nat /\ T <= Len(shown)
      /\ Len(served) \in Nat /\ Len(requests) \in Nat /\ Total \in Nat
  BY ToldKeeps DEF CommandInv, TypeInv, Total
<1>o. /\ Total <= 1 + T + (IF Awaits \/ pc = "exit" THEN 1 ELSE 0)
      /\ connection = "open" /\ pc # "exit" => Total = 1 + T + (IF Awaits THEN 1 ELSE 0)
      /\ \A n \in 2..Total : n - 1 <= T => OnWire(shown[n - 1].topic) = Nth(n).topic
      /\ Awaits => \A n \in 2..Total : n - 1 > T => Nth(n).topic = OnWire(cmd.argv[argi])
  BY <1>0 DEF OrderInv
\* The same lines, and no more requests.
<1>u. ASSUME shown' = shown, Total' \in Nat, Total' <= Total, \A n \in 1..Total' : Nth(n)' = Nth(n),
             Awaits' => Awaits /\ UNCHANGED <<cmd, argi>>,
             Awaits \/ pc = "exit" => Awaits' \/ pc' = "exit",
             connection' = "open" /\ pc' # "exit" =>
                 connection = "open" /\ pc # "exit" /\ (Awaits => Awaits') /\ Total' = Total
      PROVE  OrderInv'
  <2>1. T' = T
    BY <1>0, <1>u, ToldKeeps
  <2>2. \A n \in 2..Total' : n \in 2..Total /\ Nth(n)' = Nth(n)
    BY <1>0, <1>u
  <2>3. Total' <= 1 + T + (IF Awaits' \/ pc' = "exit" THEN 1 ELSE 0)
    BY <1>0, <1>o, <1>u
  <2>4. connection' = "open" /\ pc' # "exit" => Total' = 1 + T + (IF Awaits' THEN 1 ELSE 0)
    BY <1>0, <1>o, <1>u
  <2>5. \A n \in 2..Total' : n - 1 <= T => OnWire(shown'[n - 1].topic) = Nth(n)'.topic
    BY <1>o, <1>u, <2>2
  <2>6. Awaits' => \A n \in 2..Total' : n - 1 > T => Nth(n)'.topic = OnWire(cmd'.argv[argi'])
    BY <1>o, <1>u, <2>2
  <2> QED BY <2>1, <2>3, <2>4, <2>5, <2>6 DEF OrderInv
<1>v. ASSUME UNCHANGED <<requests, served>>
      PROVE  Total' \in Nat /\ Total' <= Total /\ Total' = Total /\ \A n \in 1..Total' : Nth(n)' = Nth(n)
  BY <1>0, <1>v, Unasked
<1>1. CASE Connect
  <2>1. CASE pc' = "exit"
    <3>1. UNCHANGED <<requests, served, shown>> /\ ~Awaits' /\ pc = "start"
      BY <1>0, <1>1, <2>1, Connects DEF Awaits
    <3> QED BY <1>u, <1>v, <2>1, <3>1
  <2>2. CASE pc' # "exit"
    <3>1. PICK r \in Request : requests' = Append(requests, r)
      BY <1>0, <1>1, <2>2, Connects
    <3>2. shown' = shown /\ served' = served /\ pc' = "handshake" /\ pc = "start"
      BY <1>0, <1>1, <2>2, Connects
    <3>3. served = <<>> /\ requests = <<>> /\ shown = <<>>
      BY <1>0, <3>2 DEF PhaseInv
    <3>4. Total = 0 /\ T = 0 /\ Total' = 1 /\ T' = 0
      BY <1>0, <3>1, <3>2, <3>3, Sent, ToldKeeps DEF Total
    <3>5. ~Awaits'
      BY <3>2 DEF Awaits
    <3> QED BY <3>4, <3>5 DEF OrderInv
  <2> QED BY <2>1, <2>2
<1>2. CASE Handshake
  <2>1. UNCHANGED <<requests, served, shown, connection>> /\ ~Awaits' /\ ~Awaits /\ pc = "handshake"
    BY <1>0, <1>2, Arguments DEF Handshake, Awaits, others
  <2> QED BY <1>u, <1>v, <2>1
<1>3. CASE Quiet
  BY <1>0, <1>3, <1>u, <1>v, QuietKeeps
<1>4. CASE Quit
  <2>1. /\ UNCHANGED <<requests, served, shown, pc>> /\ ~Awaits' /\ ~Awaits /\ pc = "exit"
        /\ connection' = "closed"
    BY <1>4 DEF Quit, clientVars, Awaits
  <2> QED BY <1>u, <1>v, <2>1
<1>5. CASE Sub \/ Pub
  <2>1. PICK r \in Request :
               /\ r.topic = OnWire(cmd.argv[argi])
               /\ requests' = IF connection = "open" THEN Append(requests, r) ELSE requests
               /\ IF cmd.name = "sub" THEN pc = "subscribe" /\ pc' = "await_sub"
                                      ELSE pc = "publish" /\ pc' = "await_pub"
               /\ UNCHANGED <<cmd, argi, s, input, shown, frames, connection, served, published>>
    BY <1>0, <1>5, Sends
  <2>2. Awaits' /\ ~Awaits /\ pc # "exit" /\ T' = T
    BY <1>0, <2>1, ToldKeeps DEF Awaits
  <2>3. CASE connection = "open"
    <3>1. /\ Total' = Total + 1 /\ \A n \in Nat : n = Total + 1 => Nth(n)' = r
          /\ \A n \in 1..Total : Nth(n)' = Nth(n)
      BY <1>0, <2>1, <2>3, Sent
    <3>2. Total = 1 + T
      BY <1>0, <1>o, <2>2, <2>3
    <3>3. \A n \in 2..Total' : n \in 2..Total \/ n = Total + 1
      BY <1>0, <3>1
    <3>4. ASSUME NEW n \in 2..Total', n - 1 <= T PROVE OnWire(shown'[n - 1].topic) = Nth(n)'.topic
      <4>1. n \in 2..Total
        BY <1>0, <3>2, <3>3, <3>4
      <4>2. Nth(n)' = Nth(n) /\ shown' = shown
        BY <2>1, <3>1, <4>1
      <4>3. OnWire(shown[n - 1].topic) = Nth(n).topic
        BY <1>o, <3>4, <4>1
      <4> QED BY <4>2, <4>3
    <3>5. \A n \in 2..Total' : n - 1 > T => Nth(n)'.topic = OnWire(cmd'.argv[argi'])
      BY <1>0, <2>1, <3>1, <3>2, <3>3
    <3> QED BY <1>0, <2>2, <3>1, <3>2, <3>4, <3>5 DEF OrderInv
  <2>4. CASE connection # "open"
    <3>1. Total' = Total /\ \A n \in 1..Total : Nth(n)' = Nth(n)
      BY <1>v, <2>1, <2>4
    <3>2. Total <= 1 + T
      BY <1>0, <1>o, <2>2
    <3>3. \A n \in 2..Total' : n - 1 <= T => OnWire(shown'[n - 1].topic) = Nth(n)'.topic
      BY <1>0, <1>o, <2>1, <3>1
    <3>4. \A n \in 2..Total' : ~(n - 1 > T)
      BY <1>0, <3>1, <3>2
    <3> QED BY <1>0, <2>1, <2>2, <2>4, <3>1, <3>2, <3>3, <3>4 DEF OrderInv
  <2> QED BY <2>3, <2>4
<1>6. CASE SubReply \/ PubReply
  <2>1. /\ Awaits /\ ~Awaits' /\ pc' # "exit" /\ pc \notin {"listen", "exit"}
        /\ UNCHANGED <<requests, connection, served>>
    BY <1>0, <1>6, Tells DEF Awaits
  <2>2. PICK l \in Line : /\ l.text = (IF cmd.name = "sub" THEN "Subscribing" ELSE "Published")
                          /\ l.topic = cmd.argv[argi] /\ shown' = Append(shown, l)
    BY <1>0, <1>6, Tells
  <2>3. /\ T' = T + 1 /\ shown'[Len(shown) + 1] = l /\ T = Len(shown)
        /\ \A i \in 1..Len(shown) : shown'[i] = shown[i]
    BY <1>0, <2>1, <2>2, ToldGrows, ToldKeeps
  <2>4. Total' = Total /\ \A n \in 1..Total : Nth(n)' = Nth(n)
    BY <1>v, <2>1
  <2>5. ASSUME NEW n \in 2..Total', n - 1 <= T' PROVE OnWire(shown'[n - 1].topic) = Nth(n)'.topic
    <3>1. n \in 2..Total /\ Nth(n)' = Nth(n)
      BY <1>0, <2>4
    <3>2. CASE n - 1 <= T
      <4>1. n - 1 \in 1..Len(shown)
        BY <1>0, <2>3, <3>2
      <4> QED BY <1>o, <2>3, <3>1, <3>2, <4>1
    <3>3. CASE n - 1 > T
      <4>1. n - 1 = Len(shown) + 1
        BY <1>0, <2>3, <2>5, <3>3
      <4> QED BY <1>o, <2>1, <2>2, <2>3, <3>1, <3>3, <4>1
    <3> QED BY <1>0, <3>2, <3>3
  <2> QED BY <1>0, <1>o, <2>1, <2>3, <2>4, <2>5 DEF OrderInv
<1>7. CASE Listen
  <2>1. /\ UNCHANGED <<pc, requests, connection, served>> /\ ~Awaits /\ ~Awaits'
        /\ \E l \in Line : l.text = "Received" /\ shown' = Append(shown, l)
    BY <1>0, <1>7, Shows DEF Awaits
  <2>2. T' = T /\ \A i \in 1..Len(shown) : shown'[i] = shown[i]
    BY <1>0, <2>1, ToldGrows
  <2>3. Total' = Total /\ \A n \in 1..Total : Nth(n)' = Nth(n)
    BY <1>v, <2>1
  <2>4. ASSUME NEW n \in 2..Total', n - 1 <= T' PROVE OnWire(shown'[n - 1].topic) = Nth(n)'.topic
    <3>1. n \in 2..Total /\ Nth(n)' = Nth(n) /\ n - 1 \in 1..Len(shown)
      BY <1>0, <2>2, <2>3, <2>4
    <3> QED BY <1>o, <2>2, <2>4, <3>1
  <2> QED BY <1>0, <1>o, <2>1, <2>2, <2>3, <2>4 DEF OrderInv
<1>8. CASE BrokerServe
  <2>1. UNCHANGED <<cmd, pc, argi, shown, connection>>
    BY <1>8 DEF BrokerServe, clientVars
  <2>2. Awaits' <=> Awaits
    BY <2>1 DEF Awaits
  <2>3. Total' = Total /\ \A n \in 1..Total : Nth(n)' = Nth(n)
    BY <1>0, <1>8, ServedKeeps
  <2> QED BY <1>0, <1>u, <2>1, <2>2, <2>3
<1>9. CASE BrokerReply
  <2>1. UNCHANGED <<cmd, pc, argi, shown, connection>>
    BY <1>9 DEF BrokerReply, clientVars
  <2>2. Awaits' <=> Awaits
    BY <2>1 DEF Awaits
  <2>3. Total' = Total /\ \A n \in 1..Total : Nth(n)' = Nth(n)
    BY <1>0, <1>9, RepliedKeeps
  <2> QED BY <1>0, <1>u, <2>1, <2>2, <2>3
<1>10. CASE BrokerClose
  <2>1. UNCHANGED <<cmd, pc, argi, shown>> /\ connection' = "closed"
    BY <1>10 DEF BrokerClose, clientVars
  <2>2. Awaits' <=> Awaits
    BY <2>1 DEF Awaits
  <2>3. Total' \in Nat /\ Total' <= Total /\ \A n \in 1..Total' : Nth(n)' = Nth(n)
    BY <1>0, <1>10, ClosedKeeps
  <2> QED BY <1>0, <1>u, <2>1, <2>2, <2>3
<1>11. ASSUME NEW topic \in Published, NEW i \in 1..Len(cmd.argv), BrokerDeliver(topic, OnWire(cmd.argv[i]))
       PROVE  OrderInv'
  <2>1. UNCHANGED <<cmd, pc, argi, shown, requests, served, connection>>
    BY <1>0, <1>11, Delivers
  <2>2. Awaits' <=> Awaits
    BY <2>1 DEF Awaits
  <2> QED BY <1>0, <1>u, <1>v, <2>1, <2>2
<1> QED
  BY <1>1, <1>2, <1>3, <1>4, <1>5, <1>6, <1>7, <1>8, <1>9, <1>10, <1>11
     DEF Next, Client, Broker, Quiet


\* What the frame at the head is, once the handshake is over: a reply or, for a
\* subscriber, a message.
LEMMA Taken ==
    ASSUME TypeInv, PhaseInv, CountInv, RecvFrame, Working
    PROVE  /\ Head(frames).op \in {"OK", "MSG"} /\ (cmd.name = "pub" => Head(frames).op = "OK")
           /\ Count(frames, FramesWith("OK")) \in Nat /\ Count(frames', FramesWith("OK")) \in Nat
           /\ Count(frames', FramesWith("OK"))
                = Count(frames, FramesWith("OK")) - (IF Head(frames).op = "OK" THEN 1 ELSE 0)
<1>1. /\ Head(frames) \in Frame /\ Head(frames) = frames[1] /\ frames' \in Seq(Frame)
      /\ Len(frames) \in Nat \ {0} /\ frames \in Seq(Frame) /\ frames # <<>> /\ frames' = Tail(frames)
  BY Arrived DEF TypeInv, RecvFrame
<1>2. 1 \in 1..Len(frames)
  BY <1>1
<1>3. Head(frames).op # "INFO" /\ (cmd.name = "pub" => Head(frames).op # "MSG")
  BY <1>1, <1>2 DEF PhaseInv, CountInv
<1>4. Head(frames).op \in {"INFO", "OK", "MSG"}
  BY <1>1 DEF Frame
<1>5. Count(frames, FramesWith("OK")) = Count(frames', FramesWith("OK")) + One(Head(frames), FramesWith("OK"))
  BY <1>1, CountTail
<1>6. One(Head(frames), FramesWith("OK")) = IF Head(frames).op = "OK" THEN 1 ELSE 0
  BY <1>1 DEF One, FramesWith
<1>7. Count(frames, FramesWith("OK")) \in Nat /\ Count(frames', FramesWith("OK")) \in Nat
  BY <1>1, WhereFinite
<1> QED BY <1>3, <1>4, <1>5, <1>6, <1>7

\* A line adds to the counts it is of.
LEMMA LineCounts ==
    ASSUME TypeInv, NEW l \in Line, shown' = Append(shown, l)
    PROVE  /\ Count(shown', LinesWith("OK")) = Count(shown, LinesWith("OK")) + (IF l.op = "OK" THEN 1 ELSE 0)
           /\ Count(shown', Mistaken) = Count(shown, Mistaken)
                  + (IF l.text = "Subscribing" /\ l.op = "MSG" THEN 1 ELSE 0)
           /\ Count(shown', Overdue) = Count(shown, Overdue)
                  + (IF l.text = "Received" /\ l.op = "OK" THEN 1 ELSE 0)
<1>1. shown \in Seq(Line)
  BY DEF TypeInv
<1>2. \A S : Count(shown', S) = Count(shown, S) + One(l, S)
  BY <1>1, CountAppend
<1>3. One(l, LinesWith("OK")) = IF l.op = "OK" THEN 1 ELSE 0
  BY DEF One, LinesWith
<1>4. One(l, Mistaken) = IF l.text = "Subscribing" /\ l.op = "MSG" THEN 1 ELSE 0
  BY DEF One, Mistaken
<1>5. One(l, Overdue) = IF l.text = "Received" /\ l.op = "OK" THEN 1 ELSE 0
  BY DEF One, Overdue
<1> QED BY <1>2, <1>3, <1>4, <1>5

\* And so does a frame.
LEMMA FrameCounts ==
    ASSUME TypeInv, NEW f \in Frame, frames' = Append(frames, f)
    PROVE  /\ Count(frames', FramesWith("OK")) = Count(frames, FramesWith("OK")) + (IF f.op = "OK" THEN 1 ELSE 0)
           /\ \A i \in 1..Len(frames') : frames'[i] = f \/ \E j \in 1..Len(frames) : frames'[i] = frames[j]
<1>1. frames \in Seq(Frame) /\ Len(frames) \in Nat
  BY DEF TypeInv
<1>2. Count(frames', FramesWith("OK")) = Count(frames, FramesWith("OK")) + One(f, FramesWith("OK"))
  BY <1>1, CountAppend
<1>3. One(f, FramesWith("OK")) = IF f.op = "OK" THEN 1 ELSE 0
  BY DEF One, FramesWith
<1>4. /\ Len(frames') = Len(frames) + 1 /\ frames'[Len(frames) + 1] = f
      /\ \A i \in 1..Len(frames) : frames'[i] = frames[i]
  BY <1>1
<1>5. \A i \in 1..Len(frames') : i = Len(frames) + 1 \/ i \in 1..Len(frames)
  BY <1>1, <1>4
<1> QED BY <1>2, <1>3, <1>4, <1>5

LEMMA CountStep ==
    ASSUME CommandInv, Next
    PROVE  CountInv'
<1> DEFINE T == Card(Told)
           okShown == Count(shown, LinesWith("OK"))
           mistaken == Count(shown, Mistaken)
           okFrames == Count(frames, FramesWith("OK"))
<1>0. /\ TypeInv /\ PhaseInv /\ AskedInv /\ ToldInv /\ ServedInv /\ OrderInv /\ CountInv
      /\ T \in Nat /\ Len(served) \in Nat /\ cmd.name \in {"sub", "pub"}
      /\ shown \in Seq(Line) /\ frames \in Seq(Frame) /\ Len(frames) \in Nat
  BY ToldKeeps, Arguments DEF CommandInv, TypeInv
<1>n. okShown \in Nat /\ mistaken \in Nat /\ okFrames \in Nat
  BY <1>0, WhereFinite
<1>c. /\ T <= okShown + mistaken /\ okShown + okFrames <= Replied
      /\ cmd.name = "pub" => \A i \in 1..Len(frames) : frames[i].op # "MSG"
  BY <1>0 DEF CountInv
<1>r. Replied \in Int
  BY <1>0 DEF Replied
<1> HIDE DEF T, okShown, mistaken, okFrames
<1>d. /\ shown' = shown => T' = T /\ okShown' = okShown /\ mistaken' = mistaken
      /\ frames' = frames => okFrames' = okFrames
      /\ served' = served => Replied' = Replied
  BY <1>0, ToldKeeps DEF T, okShown, mistaken, okFrames, Replied
<1>q. ASSUME T' <= okShown' + mistaken', okShown' + okFrames' <= Replied',
             cmd'.name = "pub" => \A i \in 1..Len(frames') : frames'[i].op # "MSG"
      PROVE  CountInv'
  BY <1>q DEF CountInv, T, okShown, mistaken, okFrames
<1>u. ASSUME UNCHANGED <<cmd, shown, frames, served>> PROVE CountInv'
  BY <1>c, <1>d, <1>q, <1>u
\* The frame that is taken moves from one count to the other.
<1>t. ASSUME RecvFrame PROVE cmd.name = "pub" => \A i \in 1..Len(frames') : frames'[i].op # "MSG"
  <2>1. \A i \in 1..Len(frames') : i + 1 \in 1..Len(frames) /\ frames'[i] = frames[i + 1]
    BY <1>0, <1>t, Arrived
  <2> QED BY <1>c, <2>1
<1>1. CASE Connect \/ Quiet \/ Sub \/ Pub
  <2>1. UNCHANGED <<cmd, shown, frames, served>>
    BY <1>0, <1>1, Connects, QuietKeeps, Sends
  <2> QED BY <1>u, <2>1
<1>2. CASE Handshake
  <2>1. RecvFrame /\ UNCHANGED <<cmd, shown, served>>
    BY <1>2 DEF Handshake, others
  <2>2. frames # <<>> /\ frames' = Tail(frames)
    BY <2>1 DEF RecvFrame
  <2>3. okFrames = okFrames' + One(Head(frames), FramesWith("OK")) /\ okFrames' \in Nat
    <3>1. Tail(frames) \in Seq(Frame)
      BY <1>0, <2>2
    <3> QED BY <1>0, <2>2, <3>1, CountTail, WhereFinite DEF okFrames
  <2>4. okFrames' <= okFrames
    <3>1. One(Head(frames), FramesWith("OK")) \in {0, 1}
      BY DEF One
    <3> QED BY <1>n, <2>3, <3>1
  <2>5. T' = T /\ okShown' = okShown /\ mistaken' = mistaken /\ Replied' = Replied /\ cmd' = cmd
    BY <1>d, <2>1
  <2>6. T' <= okShown' + mistaken'
    BY <1>c, <2>5
  <2>7. okShown' + okFrames' <= Replied'
    <3>1. okShown + okFrames' <= Replied
      BY <1>c, <1>n, <1>r, <2>3, <2>4
    <3> QED BY <2>5, <3>1
  <2>8. cmd'.name = "pub" => \A i \in 1..Len(frames') : frames'[i].op # "MSG"
    BY <1>t, <2>1, <2>5
  <2> QED BY <1>q, <2>6, <2>7, <2>8
<1>3. CASE Quit
  <2>1. UNCHANGED <<cmd, shown, served>> /\ frames' = <<>>
    BY <1>3 DEF Quit, clientVars
  <2>2. okFrames' = 0
    BY <2>1, CountEmpty DEF okFrames
  <2>3. \A i \in 1..Len(frames') : frames'[i].op # "MSG"
    BY <2>1
  <2> QED BY <1>c, <1>d, <1>n, <1>q, <1>r, <2>1, <2>2, <2>3
<1>4. CASE SubReply \/ PubReply
  <2>1. Awaits /\ RecvFrame /\ UNCHANGED <<cmd, served>> /\ Working /\ pc \notin {"listen", "exit"}
    BY <1>0, <1>4, Tells DEF Awaits, Working
  <2>2. PICK l \in Line : /\ l.text = (IF cmd.name = "sub" THEN "Subscribing" ELSE "Published")
                          /\ l.op = Head(frames).op /\ shown' = Append(shown, l)
    BY <1>0, <1>4, Tells
  <2>3. T' = T + 1
    BY <1>0, <2>1, <2>2, ToldGrows DEF T
  <2>4. /\ l.op \in {"OK", "MSG"} /\ (cmd.name = "pub" => l.op = "OK") /\ okFrames' \in Nat
        /\ okFrames' = okFrames - (IF l.op = "OK" THEN 1 ELSE 0)
    BY <1>0, <2>1, <2>2, Taken DEF okFrames
  <2>5. /\ okShown' = okShown + (IF l.op = "OK" THEN 1 ELSE 0)
        /\ mistaken' = mistaken + (IF l.text = "Subscribing" /\ l.op = "MSG" THEN 1 ELSE 0)
    BY <1>0, <2>2, LineCounts DEF okShown, mistaken
  <2>6. T' <= okShown' + mistaken'
    BY <1>0, <1>c, <1>n, <2>2, <2>3, <2>4, <2>5
  <2>7. okShown' + okFrames' <= Replied'
    BY <1>c, <1>d, <1>n, <1>r, <2>1, <2>4, <2>5
  <2> QED BY <1>q, <1>t, <2>1, <2>6, <2>7
<1>5. CASE Listen
  <2>1. pc = "listen" /\ RecvFrame /\ UNCHANGED <<cmd, served>> /\ Working
    BY <1>0, <1>5, Shows DEF Working
  <2>2. PICK l \in Line : l.text = "Received" /\ l.op = Head(frames).op /\ shown' = Append(shown, l)
    BY <1>0, <1>5, Shows
  <2>3. T' = T
    BY <1>0, <2>2, ToldGrows DEF T
  <2>4. okFrames' \in Nat /\ okFrames' = okFrames - (IF l.op = "OK" THEN 1 ELSE 0)
    BY <1>0, <2>1, <2>2, Taken DEF okFrames
  <2>5. okShown' = okShown + (IF l.op = "OK" THEN 1 ELSE 0) /\ mistaken' = mistaken
    BY <1>0, <1>n, <2>2, LineCounts DEF okShown, mistaken
  <2>6. T' <= okShown' + mistaken' /\ okShown' + okFrames' <= Replied'
    BY <1>0, <1>c, <1>d, <1>n, <1>r, <2>1, <2>3, <2>4, <2>5
  <2> QED BY <1>q, <1>t, <2>1, <2>6
<1>6. CASE BrokerServe
  <2>1. UNCHANGED <<cmd, shown, frames>>
    BY <1>6 DEF BrokerServe, clientVars
  <2>2. Replied' = Replied
    <3>1. /\ Len(served') = Len(served) + 1
          /\ served'[Len(served')] = [req |-> Head(requests), done |-> FALSE]
          /\ \A i \in 1..Len(served) : served[i].done
      BY <1>0, <1>6, ServedKeeps
    <3>2. ~Last(served').done
      BY <3>1 DEF Last
    <3>3. Len(served) > 0 => Last(served).done
      BY <1>0, <3>1 DEF Last
    <3> QED BY <1>0, <3>1, <3>2, <3>3 DEF Replied
  <2> QED BY <1>c, <1>d, <1>q, <2>1, <2>2
<1>7. CASE BrokerReply
  <2>1. UNCHANGED <<cmd, shown>>
    BY <1>7 DEF BrokerReply, clientVars
  <2>2. Replied' = IF Len(served) = 1 THEN Replied ELSE Replied + 1
    <3>1. /\ Len(served') = Len(served) /\ Len(served) \in Nat \ {0}
          /\ ~served[Len(served)].done /\ served'[Len(served)].done
      BY <1>0, <1>7, RepliedKeeps
    <3>2. ~Last(served).done /\ Last(served').done
      BY <3>1 DEF Last
    <3> QED BY <3>1, <3>2 DEF Replied
  <2>3. CASE frames' = frames
    BY <1>c, <1>d, <1>n, <1>q, <1>r, <2>1, <2>2, <2>3
  <2>4. CASE frames' # frames
    <3>1. PICK f \in Frame : f.op = (IF Len(served) = 1 THEN "INFO" ELSE "OK") /\ frames' = Append(frames, f)
      BY <1>0, <1>7, <2>4, Replies
    <3>2. /\ okFrames' = okFrames + (IF f.op = "OK" THEN 1 ELSE 0)
          /\ \A i \in 1..Len(frames') : frames'[i] = f \/ \E j \in 1..Len(frames) : frames'[i] = frames[j]
      BY <1>0, <3>1, FrameCounts DEF okFrames
    <3>3. okShown' + okFrames' <= Replied'
      BY <1>c, <1>d, <1>n, <1>r, <2>1, <2>2, <3>1, <3>2
    <3>4. cmd.name = "pub" => \A i \in 1..Len(frames') : frames'[i].op # "MSG"
      BY <1>c, <3>1, <3>2
    <3> QED BY <1>c, <1>d, <1>q, <2>1, <3>3, <3>4
  <2> QED BY <2>3, <2>4
<1>8. CASE BrokerClose
  <2>1. UNCHANGED <<cmd, shown, frames, served>>
    BY <1>8 DEF BrokerClose, clientVars
  <2> QED BY <1>u, <2>1
<1>9. ASSUME NEW topic \in Published, NEW i \in 1..Len(cmd.argv), BrokerDeliver(topic, OnWire(cmd.argv[i]))
      PROVE  CountInv'
  <2>1. cmd.name = "sub" /\ UNCHANGED <<cmd, shown, served>>
    BY <1>0, <1>9, Delivers
  <2>2. PICK f \in Frame : f.op = "MSG" /\ frames' = Append(frames, f)
    BY <1>0, <1>9, Delivers
  <2>3. okFrames' = okFrames
    BY <1>0, <1>n, <2>2, FrameCounts DEF okFrames
  <2> QED BY <1>c, <1>d, <1>q, <2>1, <2>3
<1> QED
  BY <1>1, <1>2, <1>3, <1>4, <1>5, <1>6, <1>7, <1>8, <1>9 DEF Next, Client, Broker, Quiet


LEMMA SwallowStep ==
    ASSUME CommandInv, Next
    PROVE  SwallowInv'
<1> DEFINE mistaken == Count(shown, Mistaken)
           overdue == Count(shown, Overdue)
           okFrames == Count(frames, FramesWith("OK"))
           subs == Count(requests, Subs)
           undone == IF Last(served).done \/ Last(served).req.op # "SUB" THEN 0 ELSE 1
           waits == IF pc = "await_sub" THEN 1 ELSE 0
           listens == pc \in {"subscribe", "await_sub", "listen"} /\ connection = "open"
<1>0. /\ TypeInv /\ PhaseInv /\ AskedInv /\ ToldInv /\ ServedInv /\ OrderInv /\ CountInv /\ SwallowInv
      /\ Len(served) \in Nat /\ Len(requests) \in Nat /\ cmd.name \in {"sub", "pub"}
      /\ shown \in Seq(Line) /\ frames \in Seq(Frame) /\ requests \in Seq(Request)
      /\ served \in Seq([req : Request, done : BOOLEAN])
  BY Arguments DEF CommandInv, TypeInv
<1>l. Len(served) \in Nat /\ Len(requests) \in Nat
  BY <1>0
<1>n. mistaken \in Nat /\ overdue \in Nat /\ okFrames \in Nat /\ subs \in Nat
  BY <1>0, WhereFinite
<1>z. undone \in {0, 1} /\ waits \in {0, 1}
  OBVIOUS
<1>c. listens => mistaken + waits = overdue + okFrames + subs + undone
  BY <1>0 DEF SwallowInv
<1>q. ASSUME listens' => mistaken' + waits' = overdue' + okFrames' + subs' + undone' PROVE SwallowInv'
  BY <1>q DEF SwallowInv
<1>d. /\ shown' = shown => mistaken' = mistaken /\ overdue' = overdue
      /\ frames' = frames => okFrames' = okFrames
      /\ requests' = requests => subs' = subs
      /\ served' = served => undone' = undone
      /\ pc' = pc => waits' = waits
      /\ pc' = pc /\ connection' = connection => (listens' <=> listens)
  OBVIOUS
<1>w. listens => Len(served) > 0 /\ cmd.name = "sub" /\ Working
  <2>1. listens => served # <<>> /\ cmd.name = "sub" /\ Working
    BY <1>0 DEF PhaseInv, Working
  <2> QED BY <1>0, <2>1
<1>e. listens' <=> pc' \in {"subscribe", "await_sub", "listen"} /\ connection' = "open"
  OBVIOUS
<1>f. listens <=> pc \in {"subscribe", "await_sub", "listen"} /\ connection = "open"
  OBVIOUS
<1>g. waits = (IF pc = "await_sub" THEN 1 ELSE 0) /\ waits' = (IF pc' = "await_sub" THEN 1 ELSE 0)
  OBVIOUS
<1>h. undone' = IF Last(served').done \/ Last(served').req.op # "SUB" THEN 0 ELSE 1
  OBVIOUS
<1>i. undone = IF Last(served).done \/ Last(served).req.op # "SUB" THEN 0 ELSE 1
  OBVIOUS
<1> HIDE DEF mistaken, overdue, okFrames, subs, undone, waits, listens
<1>1. CASE Connect \/ Quit \/ BrokerClose
  <2>1. ~listens'
    BY <1>0, <1>1, <1>e, Connects DEF Quit, BrokerClose
  <2> QED BY <1>q, <2>1
<1>2. CASE Handshake
  <2>1. /\ pc' = (IF cmd.name = "sub" THEN "subscribe" ELSE "input") /\ RecvFrame /\ pc = "handshake"
        /\ UNCHANGED <<shown, requests, connection, served>>
    BY <1>2 DEF Handshake, others
  <2>2. shown = <<>> /\ frames # <<>> /\ Len(frames) = 1 /\ Len(served) = 1 /\ served[1].done
    BY <1>0, <2>1 DEF PhaseInv, RecvFrame
  <2>3. Card(Told) = 0
    BY <1>0, <2>2, ToldKeeps
  <2>4. Total <= 1
    BY <1>0, <2>1, <2>3 DEF OrderInv, Awaits
  <2>5. Len(requests) = 0 /\ Len(frames') = 0 /\ frames' \in Seq(Frame)
    BY <1>0, <2>1, <2>2, <2>4, Arrived DEF Total
  <2>6. requests = <<>> /\ frames' = <<>>
    BY <1>0, <2>5
  <2>7. mistaken' = 0 /\ overdue' = 0 /\ okFrames' = 0 /\ subs' = 0
    BY <2>1, <2>2, <2>6, CountEmpty DEF mistaken, overdue, okFrames, subs
  <2>8. Last(served').done
    BY <2>1, <2>2 DEF Last
  <2>9. undone' = 0 /\ waits' = 0
    BY <1>g, <1>h, <2>1, <2>8
  <2> QED BY <1>q, <2>7, <2>9
<1>3. CASE Quiet
  <2>1. UNCHANGED <<shown, requests, frames, connection, served>>
    BY <1>3, QuietKeeps
  <2>2. listens' => listens /\ waits' = waits
    BY <1>3, <1>e, <1>f, <1>g, <2>1, QuietKeeps DEF Awaits
  <2> QED BY <1>c, <1>d, <1>q, <2>1, <2>2
<1>4. CASE Sub \/ Pub
  <2>1. PICK r \in Request :
               /\ r.op = (IF cmd.name = "sub" THEN "SUB" ELSE "PUB")
               /\ requests' = IF connection = "open" THEN Append(requests, r) ELSE requests
               /\ IF cmd.name = "sub" THEN pc = "subscribe" /\ pc' = "await_sub"
                                      ELSE pc = "publish" /\ pc' = "await_pub"
               /\ UNCHANGED <<cmd, argi, s, input, shown, frames, connection, served, published>>
    BY <1>0, <1>4, Sends
  <2>a. SUFFICES ASSUME pc' \in {"subscribe", "await_sub", "listen"}, connection' = "open"
                 PROVE  mistaken' + waits' = overdue' + okFrames' + subs' + undone'
    BY <1>e, <1>q
  <2>2. pc = "subscribe" /\ pc' = "await_sub" /\ connection = "open" /\ r.op = "SUB"
    BY <1>0, <2>a, <2>1
  <2>3. listens /\ waits = 0 /\ waits' = 1
    BY <1>f, <1>g, <2>2
  <2>4. subs' = subs + One(r, Subs) /\ One(r, Subs) = 1
    BY <1>0, <2>1, <2>2, CountAppend DEF subs, One, Subs
  <2> QED BY <1>c, <1>d, <1>n, <1>z, <2>1, <2>3, <2>4
<1>5. CASE SubReply \/ PubReply
  <2>1. /\ RecvFrame /\ UNCHANGED <<cmd, requests, connection, served>>
        /\ IF cmd.name = "sub" THEN pc = "await_sub" /\ pc' = "subscribe"
                               ELSE pc = "await_pub" /\ pc' = "publish"
    BY <1>0, <1>5, Tells
  <2>2. PICK l \in Line : /\ l.text = (IF cmd.name = "sub" THEN "Subscribing" ELSE "Published")
                          /\ l.op = Head(frames).op /\ shown' = Append(shown, l)
    BY <1>0, <1>5, Tells
  <2>a. SUFFICES ASSUME pc' \in {"subscribe", "await_sub", "listen"}, connection' = "open"
                 PROVE  mistaken' + waits' = overdue' + okFrames' + subs' + undone'
    BY <1>e, <1>q
  <2>3. pc = "await_sub" /\ pc' = "subscribe" /\ connection = "open" /\ l.text = "Subscribing"
    BY <1>0, <2>a, <2>1, <2>2
  <2>4. listens /\ waits = 1 /\ waits' = 0
    BY <1>f, <1>g, <2>3
  <2>n. okFrames' \in Nat
    BY <1>0, <1>w, <2>1, <2>4, Taken DEF okFrames
  <2>5. l.op \in {"OK", "MSG"} /\ okFrames' = okFrames - (IF l.op = "OK" THEN 1 ELSE 0)
    BY <1>0, <1>w, <2>1, <2>2, <2>4, Taken DEF okFrames
  <2>6. mistaken' = mistaken + (IF l.op = "MSG" THEN 1 ELSE 0) /\ overdue' = overdue
    BY <1>0, <1>n, <2>2, <2>3, LineCounts DEF mistaken, overdue
  <2>7. mistaken + 1 = overdue + okFrames + subs + undone /\ UNCHANGED <<subs, undone>>
    BY <1>c, <1>d, <2>1, <2>4
  <2>8. CASE l.op = "OK"
    <3>1. okFrames' = okFrames - 1 /\ mistaken' = mistaken + 0 /\ overdue' = overdue
      BY <2>5, <2>6, <2>8
    <3>2. mistaken' + 0 = overdue' + okFrames' + subs + undone
      BY <1>n, <1>z, <2>n, <2>7, <3>1
    <3> QED BY <2>4, <2>7, <3>2
  <2>9. CASE l.op = "MSG"
    <3>1. okFrames' = okFrames - 0 /\ mistaken' = mistaken + 1 /\ overdue' = overdue
      BY <2>5, <2>6, <2>9
    <3>2. mistaken' + 0 = overdue' + okFrames' + subs + undone
      BY <1>n, <1>z, <2>n, <2>7, <3>1
    <3> QED BY <2>4, <2>7, <3>2
  <2> QED BY <2>5, <2>8, <2>9
<1>6. CASE Listen
  <2>1. pc = "listen" /\ RecvFrame /\ UNCHANGED <<pc, requests, connection, served>>
    BY <1>0, <1>6, Shows
  <2>2. PICK l \in Line : l.text = "Received" /\ l.op = Head(frames).op /\ shown' = Append(shown, l)
    BY <1>0, <1>6, Shows
  <2>a. SUFFICES ASSUME pc' \in {"subscribe", "await_sub", "listen"}, connection' = "open"
                 PROVE  mistaken' + waits' = overdue' + okFrames' + subs' + undone'
    BY <1>e, <1>q
  <2>3. listens
    BY <1>f, <2>a, <2>1
  <2>n. okFrames' \in Nat
    BY <1>0, <1>w, <2>1, <2>3, Taken DEF okFrames
  <2>4. okFrames' = okFrames - (IF l.op = "OK" THEN 1 ELSE 0)
    BY <1>0, <1>w, <2>1, <2>2, <2>3, Taken DEF okFrames
  <2>5. mistaken' = mistaken /\ overdue' = overdue + (IF l.op = "OK" THEN 1 ELSE 0)
    BY <1>0, <1>n, <2>2, LineCounts DEF mistaken, overdue
  <2>6. mistaken + waits = overdue + okFrames + subs + undone /\ UNCHANGED <<waits, subs, undone>>
    BY <1>c, <1>d, <2>1, <2>3
  <2>7. CASE l.op = "OK"
    <3>1. okFrames' = okFrames - 1 /\ overdue' = overdue + 1 /\ mistaken' = mistaken
      BY <2>4, <2>5, <2>7
    <3>2. mistaken' + waits = overdue' + okFrames' + subs + undone
      BY <1>n, <1>z, <2>n, <2>6, <3>1
    <3> QED BY <2>6, <3>2
  <2>8. CASE l.op # "OK"
    <3>1. okFrames' = okFrames - 0 /\ overdue' = overdue + 0 /\ mistaken' = mistaken
      BY <2>4, <2>5, <2>8
    <3>2. mistaken' + waits = overdue' + okFrames' + subs + undone
      BY <1>n, <1>z, <2>n, <2>6, <3>1
    <3> QED BY <2>6, <3>2
  <2> QED BY <2>7, <2>8
<1>7. CASE BrokerServe
  <2>1. UNCHANGED <<cmd, pc, shown, frames, connection>> /\ requests # <<>> /\ requests' = Tail(requests)
    BY <1>7 DEF BrokerServe, clientVars
  <2>a. SUFFICES ASSUME pc' \in {"subscribe", "await_sub", "listen"}, connection' = "open"
                 PROVE  mistaken' + waits' = overdue' + okFrames' + subs' + undone'
    BY <1>e, <1>q
  <2>2. listens
    BY <1>f, <2>a, <2>1
  <2>3. /\ served'[Len(served')] = [req |-> Head(requests), done |-> FALSE]
        /\ Head(requests) \in Request /\ requests' \in Seq(Request)
        /\ \A i \in 1..Len(served) : served[i].done
    BY <1>0, <1>7, ServedKeeps
  <2>4. ~Last(served').done /\ Last(served').req = Head(requests)
    BY <2>3 DEF Last
  <2>5. undone' = One(Head(requests), Subs)
    BY <1>h, <2>3, <2>4 DEF One, Subs
  <2>6. Last(served).done
    BY <1>0, <1>w, <2>2, <2>3 DEF Last
  <2>7. undone = 0
    BY <1>i, <2>6
  <2>8. subs = subs' + One(Head(requests), Subs)
    BY <1>0, <2>1, CountTail DEF subs
  <2>9. subs' \in Nat
    BY <2>3, WhereFinite DEF subs
  <2>10. undone' \in {0, 1}
    BY <2>5 DEF One
  <2> QED BY <1>c, <1>d, <1>n, <1>z, <2>1, <2>2, <2>5, <2>7, <2>8, <2>9, <2>10
<1>8. CASE BrokerReply
  <2>1. UNCHANGED <<cmd, pc, shown, requests, connection>>
    BY <1>8 DEF BrokerReply, clientVars
  <2>a. SUFFICES ASSUME pc' \in {"subscribe", "await_sub", "listen"}, connection' = "open"
                 PROVE  mistaken' + waits' = overdue' + okFrames' + subs' + undone'
    BY <1>e, <1>q
  <2>2. listens /\ connection = "open" /\ Working /\ cmd.name = "sub"
    BY <1>f, <1>w, <2>a, <2>1
  <2>3. /\ Len(served') = Len(served) /\ Len(served) \in Nat \ {0}
        /\ ~served[Len(served)].done /\ served'[Len(served)].done
    BY <1>0, <1>8, RepliedKeeps
  <2>o. Len(served) # 1
    <3>1. Working
      BY <2>2
    <3>2. served[1].done
      BY <1>0, <3>1 DEF PhaseInv
    <3> QED BY <2>3, <3>2
  <2>4. Len(served) > 1
    BY <2>3, <2>o
  <2>5. Last(served) = served[Len(served)] /\ Last(served') = served'[Len(served)]
    BY <2>3 DEF Last
  <2>6. served[Len(served)].req.op = "SUB"
    <3>1. Len(served) \in 1..Total /\ Len(served) <= Len(served)
      BY <1>l, <2>4 DEF Total
    <3>2. Nth(Len(served)) = served[Len(served)].req
      BY <3>1 DEF Nth
    <3>3. AskedInv /\ cmd.name = "sub"
      BY <1>0, <2>2
    <3> QED BY <2>o, <3>1, <3>2, <3>3 DEF AskedInv
  <2>7. undone = 1 /\ undone' = 0
    BY <1>h, <1>i, <2>3, <2>5, <2>6
  <2>8. PICK f \in Frame : f.op = "OK" /\ frames' = Append(frames, f)
    BY <1>0, <1>8, <2>2, <2>o, Replies
  <2>9. okFrames' = okFrames + 1
    BY <1>0, <2>8, FrameCounts DEF okFrames
  <2> QED BY <1>c, <1>d, <1>n, <1>z, <2>1, <2>2, <2>7, <2>9
<1>9. ASSUME NEW topic \in Published, NEW i \in 1..Len(cmd.argv), BrokerDeliver(topic, OnWire(cmd.argv[i]))
      PROVE  SwallowInv'
  <2>1. UNCHANGED <<pc, shown, requests, connection, served>>
    BY <1>0, <1>9, Delivers
  <2>2. PICK f \in Frame : f.op = "MSG" /\ frames' = Append(frames, f)
    BY <1>0, <1>9, Delivers
  <2>3. okFrames' = okFrames
    BY <1>0, <1>n, <2>2, FrameCounts DEF okFrames
  <2> QED BY <1>c, <1>d, <1>q, <2>1, <2>3
<1> QED
  BY <1>1, <1>2, <1>3, <1>4, <1>5, <1>6, <1>7, <1>8, <1>9 DEF Next, Client, Broker, Quiet


-----------------------------------------------------------------------------
(***************************************************************************)
(* The invariant, and what follows from it.                                *)
(***************************************************************************)
LEMMA InitInv == Init => CommandInv
<1> SUFFICES ASSUME Init PROVE CommandInv
  OBVIOUS
<1>1. /\ cmd \in Commands /\ pc = "start" /\ argi = 1 /\ s = "OK" /\ input = 0 /\ shown = <<>>
      /\ requests = <<>> /\ frames = <<>> /\ connection = "none" /\ served = <<>> /\ published = 0
      /\ Len(shown) = 0 /\ Len(requests) = 0 /\ Len(frames) = 0 /\ Len(served) = 0
  BY DEF Init
<1>2. TypeInv
  <2>1. cmd.argv \in Seq(Seq(STRING))
    BY <1>1, CommandLineAssumption
  <2>2. argi \in 1 .. Len(cmd.argv) + 1
    BY <1>1, <2>1
  <2>3. input \in 0..MaxInput /\ published \in 0..MaxPublished
    BY <1>1, CommandLineAssumption
  <2>4. /\ shown \in Seq(Line) /\ requests \in Seq(Request) /\ frames \in Seq(Frame)
        /\ served \in Seq([req : Request, done : BOOLEAN])
    BY <1>1
  <2>5. pc \in PC
    BY <1>1 DEF PC
  <2> QED BY <1>1, <2>2, <2>3, <2>4, <2>5 DEF TypeInv, TypeOK
<1>3. PhaseInv
  BY <1>1 DEF PhaseInv, Working, Awaits
<1>4. ServedInv
  BY <1>1 DEF ServedInv
<1>5. Total = 0 /\ AskedInv
  BY <1>1 DEF Total, AskedInv
<1>6. Told = {} /\ Card(Told) = 0 /\ Told = 1..0
  <2>1. Told = {}
    BY <1>1 DEF Told
  <2> QED BY <2>1, FS_EmptySet DEF Card
<1>7. ToldInv
  BY <1>1, <1>6 DEF ToldInv
<1>8. OrderInv
  <2>1. ~Awaits
    BY <1>1 DEF Awaits
  <2> QED BY <1>1, <1>5, <1>6, <2>1 DEF OrderInv
<1>9. \A S : Count(shown, S) = 0 /\ Count(frames, S) = 0
  BY <1>1, CountEmpty
<1>10. CountInv
  <2>1. Replied = 0
    BY <1>1 DEF Replied
  <2> QED BY <1>1, <1>6, <1>9, <2>1 DEF CountInv
<1>11. SwallowInv
  BY <1>1 DEF SwallowInv
<1> QED BY <1>2, <1>3, <1>4, <1>5, <1>7, <1>8, <1>10, <1>11 DEF CommandInv

LEMMA NextInv == CommandInv /\ [Next]_vars => CommandInv'
<1>1. ASSUME CommandInv, Next PROVE CommandInv'
  <2>1. TypeInv'
    BY <1>1, TypeStep DEF CommandInv
  <2>2. PhaseInv' /\ OrderInv' /\ CountInv' /\ SwallowInv'
    BY <1>1, PhaseStep, OrderStep, CountStep, SwallowStep
  <2>3. ServedInv' /\ AskedInv' /\ ToldInv'
    BY <1>1, ServedStep, AskedStep, ToldStep DEF CommandInv
  <2> QED BY <2>1, <2>2, <2>3 DEF CommandInv
<1>2. ASSUME CommandInv, UNCHANGED vars PROVE CommandInv'
  <2>1. /\ cmd' = cmd /\ pc' = pc /\ argi' = argi /\ s' = s /\ input' = input /\ shown' = shown
        /\ requests' = requests /\ frames' = frames /\ connection' = connection /\ served' = served
        /\ published' = published
    BY <1>2 DEF vars
  <2>2. TypeInv' /\ PhaseInv' /\ ServedInv'
    BY <1>2, <2>1 DEF CommandInv, TypeInv, TypeOK, PhaseInv, ServedInv, Working, Awaits
  <2>3. AskedInv' /\ ToldInv' /\ OrderInv'
    BY <1>2, <2>1 DEF CommandInv, AskedInv, ToldInv, OrderInv, Total, Nth, Told, Card, Awaits
  <2>4. CountInv' /\ SwallowInv'
    BY <1>2, <2>1 DEF CommandInv, CountInv, SwallowInv, Told, Card, Replied, Count, Where
  <2> QED BY <2>2, <2>3, <2>4 DEF CommandInv
<1> QED BY <1>1, <1>2

\* The invariant holds of every behaviour.
LEMMA AlwaysInv == Spec => []CommandInv
BY InitInv, NextInv, PTL DEF Spec

\* The positions NothingSwallowed and ToldInOrder speak of, by what is there.
LEMMA LinesAre ==
    ASSUME TypeInv
    PROVE  /\ Card(Lines("Subscribing", "MSG")) = Count(shown, Mistaken)
           /\ Card(Lines("Received", "OK")) = Count(shown, Overdue)
           /\ Card({i \in 1..Len(frames) : frames[i].op = "OK"}) = Count(frames, FramesWith("OK"))
           /\ Card({i \in 1..Len(requests) : requests[i].op = "SUB"}) = Count(requests, Subs)
<1>1. \A i \in 1..Len(shown) : shown[i] \in Line
  BY DEF TypeInv
<1>2. \A i \in 1..Len(frames) : frames[i] \in Frame
  BY DEF TypeInv
<1>3. \A i \in 1..Len(requests) : requests[i] \in Request
  BY DEF TypeInv
<1>4. Lines("Subscribing", "MSG") = Where(shown, Mistaken)
  BY <1>1 DEF Lines, Where, Mistaken
<1>5. Lines("Received", "OK") = Where(shown, Overdue)
  BY <1>1 DEF Lines, Where, Overdue
<1>6. {i \in 1..Len(frames) : frames[i].op = "OK"} = Where(frames, FramesWith("OK"))
  BY <1>2 DEF Where, FramesWith
<1>7. {i \in 1..Len(requests) : requests[i].op = "SUB"} = Where(requests, Subs)
  BY <1>3 DEF Where, Subs
<1> QED BY <1>4, <1>5, <1>6, <1>7 DEF Card, Count

LEMMA InvSwallowed == CommandInv => NothingSwallowed
<1>a. SUFFICES ASSUME CommandInv, pc \in {"subscribe", "await_sub", "listen"}, connection = "open"
               PROVE  Card(Lines("Subscribing", "MSG")) + (IF pc = "await_sub" THEN 1 ELSE 0)
                        = Card(Lines("Received", "OK"))
                          + Card({i \in 1..Len(frames) : frames[i].op = "OK"})
                          + Card({i \in 1..Len(requests) : requests[i].op = "SUB"})
                          + Card({i \in 1..Len(served) : served[i].req.op = "SUB" /\ ~served[i].done})
  BY DEF NothingSwallowed
<1> DEFINE U == {i \in 1..Len(served) : served[i].req.op = "SUB" /\ ~served[i].done}
           last == Len(served)
<1>1. TypeInv /\ ServedInv /\ PhaseInv /\ SwallowInv
  BY <1>a DEF CommandInv
<1>2. served # <<>>
  BY <1>1, <1>a DEF PhaseInv, Working
<1>3. last \in Nat /\ last > 0
  BY <1>1, <1>2 DEF TypeInv
<1>4. \A i \in 1..last : i = last \/ i < last
  BY <1>3
<1>5. \A i \in U : i = last
  BY <1>1, <1>4 DEF ServedInv
<1>6. Last(served) = served[last] /\ last \in 1..last
  BY <1>3 DEF Last
<1>7. Card(U) = IF Last(served).done \/ Last(served).req.op # "SUB" THEN 0 ELSE 1
  <2>1. CASE Last(served).done \/ Last(served).req.op # "SUB"
    <3>1. U = {}
      BY <1>5, <1>6, <2>1
    <3> QED BY <2>1, <3>1, FS_EmptySet DEF Card
  <2>2. CASE ~(Last(served).done \/ Last(served).req.op # "SUB")
    <3>1. last \in U
      BY <1>6, <2>2
    <3>2. U = {last}
      BY <1>5, <3>1
    <3> QED BY <2>2, <3>2, FS_Singleton DEF Card
  <2> QED BY <2>1, <2>2
<1> HIDE DEF U
<1>8. Count(shown, Mistaken) + (IF pc = "await_sub" THEN 1 ELSE 0)
        = Count(shown, Overdue) + Count(frames, FramesWith("OK")) + Count(requests, Subs)
          + (IF Last(served).done \/ Last(served).req.op # "SUB" THEN 0 ELSE 1)
  BY <1>a, <1>1 DEF SwallowInv
<1>9. Count(shown, Mistaken) + (IF pc = "await_sub" THEN 1 ELSE 0)
        = Count(shown, Overdue) + Count(frames, FramesWith("OK")) + Count(requests, Subs) + Card(U)
  BY <1>7, <1>8, Zenon
<1>10. Card(Lines("Subscribing", "MSG")) + (IF pc = "await_sub" THEN 1 ELSE 0)
        = Card(Lines("Received", "OK"))
          + Card({i \in 1..Len(frames) : frames[i].op = "OK"})
          + Card({i \in 1..Len(requests) : requests[i].op = "SUB"}) + Card(U)
  BY <1>1, <1>9, LinesAre, Zenon
<1> QED BY <1>10 DEF U

LEMMA InvInOrder == CommandInv => ToldInOrder
<1> SUFFICES ASSUME CommandInv PROVE ToldInOrder
  OBVIOUS
<1> DEFINE T == Card(Told)
           L == Len(served)
<1>0. /\ TypeInv /\ AskedInv /\ ToldInv /\ OrderInv /\ CountInv
      /\ T \in Nat /\ L \in Nat /\ Len(requests) \in Nat /\ Told = 1..T
  BY ToldKeeps DEF CommandInv, TypeInv, ToldInv
<1>1. Made = 2..L
  <2>1. ASSUME NEW i \in 1..L PROVE served[i].req.op \in {"SUB", "PUB"} <=> i \in 2..L
    <3>1. i \in 1..Total /\ Nth(i) = served[i].req
      BY <1>0 DEF Total, Nth
    <3>2. IF i = 1 THEN Nth(i).op = "CONNECT" ELSE Nth(i).op \in {"SUB", "PUB"}
      BY <1>0, <3>1 DEF AskedInv
    <3>3. i \in 2..L <=> i # 1
      BY <1>0
    <3> QED BY <3>1, <3>2, <3>3
  <2>2. \A i \in 2..L : i \in 1..L
    BY <1>0
  <2> QED BY <2>1, <2>2 DEF Made
<1>2. Card(Made) = IF L >= 1 THEN L - 1 ELSE 0
  <2>1. \A m \in Nat : Cardinality(2..m) = IF 2 > m THEN 0 ELSE m - 2 + 1
    BY FS_Interval
  <2>2. \A m \in Nat : Cardinality(2..m) = IF m >= 1 THEN m - 1 ELSE 0
    BY <2>1
  <2>3. Cardinality(2..L) = IF L >= 1 THEN L - 1 ELSE 0
    BY <1>0, <2>2
  <2> QED BY <1>1, <2>3 DEF Card
<1>3. ASSUME NEW i \in Told PROVE i \in 1..T /\ Rank(Told, i) = i
  <2>1. {j \in Told : j <= i} = 1..i /\ i \in 1..T
    BY <1>0
  <2>2. Cardinality(1..i) = i
    BY <1>0, <2>1, FS_Interval
  <2> QED BY <2>1, <2>2 DEF Rank, Card
<1>4. ASSUME NEW j \in Made PROVE j \in 2..L /\ Rank(Made, j) = j - 1
  <2>1. {k \in Made : k <= j} = 2..j /\ j \in 2..L
    BY <1>0, <1>1
  <2>2. Cardinality(2..j) = j - 1
    BY <1>0, <2>1, FS_Interval
  <2> QED BY <2>1, <2>2 DEF Rank, Card
<1>5. Total = L + Len(requests)
  BY DEF Total
<1> HIDE DEF T, L
<1>6. Card(Made) - 1 <= T
  <2>1. Total <= 1 + T + 1
    BY <1>0, <1>5 DEF OrderInv, T
  <2> QED BY <1>0, <1>2, <1>5, <2>1
<1>7. T <= Card(Made) + Card(Lines("Subscribing", "MSG"))
  <2> DEFINE ok == Count(shown, LinesWith("OK"))
             mistaken == Count(shown, Mistaken)
             okFrames == Count(frames, FramesWith("OK"))
  <2>1. ok \in Nat /\ mistaken \in Nat /\ okFrames \in Nat
    BY <1>0, WhereFinite DEF TypeInv
  <2>2. T <= ok + mistaken /\ ok + okFrames <= Replied
    BY <1>0 DEF CountInv, T
  <2>3. Card(Lines("Subscribing", "MSG")) = mistaken
    BY <1>0, LinesAre
  <2> HIDE DEF ok, mistaken, okFrames
  <2>4. Replied \in Int /\ Replied <= Card(Made) /\ Card(Made) \in Nat
    BY <1>0, <1>2 DEF Replied, L
  <2> QED BY <1>0, <2>1, <2>2, <2>3, <2>4
<1>8. ASSUME NEW i \in Told, NEW j \in Made, Rank(Told, i) = Rank(Made, j)
      PROVE  OnWire(shown[i].topic) = served[j].req.topic
  <2>1. i \in 1..T /\ j \in 2..L /\ i = j - 1
    BY <1>3, <1>4, <1>8
  <2>2. j \in 2..Total /\ j <= L /\ j - 1 <= T
    BY <1>0, <1>5, <2>1
  <2>3. Nth(j) = served[j].req
    BY <2>2 DEF Nth, L
  <2>4. OnWire(shown[j - 1].topic) = Nth(j).topic
    BY <1>0, <2>2 DEF OrderInv, T
  <2> QED BY <2>1, <2>3, <2>4
<1> QED BY <1>6, <1>7, <1>8 DEF ToldInOrder, T

\* The type invariant of the command-line clients, whatever the command line, the
\* input and the messages of others.
THEOREM CommandTypeCorrect == Spec => []TypeOK
<1>1. CommandInv => TypeOK
  BY DEF CommandInv, TypeInv
<1> QED BY <1>1, AlwaysInv, PTL

\* handle_sub of tools/bpsp.c and c-client/client.c takes whatever frame comes
\* next for the reply to its SUB, but loses none: every message taken for a reply
\* leaves one reply that is shown as a message later, or is still on its way.
THEOREM NothingLost == Spec => []NothingSwallowed
BY InvSwallowed, AlwaysInv, PTL

\* The lines that handle_sub and handle_pub print are those of the requests the
\* broker has served, in the same order, never more than one behind and ahead by
\* no more than the messages that were taken for replies.
THEOREM AlwaysInOrder == Spec => []ToldInOrder
BY InvInOrder, AlwaysInv, PTL
=============================================================================
