-------------------------- MODULE JavaClientProofs --------------------------
(***************************************************************************)
(* The Java client's queue of handlers agrees with what is on its way, as  *)
(* long as calls have not crossed: for all sets of subscribers and         *)
(* publishers, topics and numbers of requests, connections and loops.      *)
(***************************************************************************)
EXTENDS JavaClient, SequenceTheorems, TLAPS

-----------------------------------------------------------------------------
(***************************************************************************)
(* Types.                                                                  *)
(***************************************************************************)
UsedTopic == {TopicOf[h] : h \in Handler} \cup {NONE}
OutFrame ==
    {r \in [op : {"CONNECT", "PUB", "SUB", "UNSUB"}, of : Handler \cup {NONE}, topic : UsedTopic,
            late : BOOLEAN] :
        r.op = "SUB" => r.of \in Subscriber}
InFrame ==
    [op : {"INFO", "OK", "ERR", "MSG"}, of : Handler \cup {NONE}, topic : UsedTopic, late : BOOLEAN]
LoopState ==
    [at : {"none", "check", "recv", "read", "process", "poll", "dead"},
     conn : Conn \cup {NONE}, frame : InFrame \cup {NONE}]

\* The types of what is shared with the broker too.
Types ==
    /\ app \in {"idle", "handshake", "enqueue", "table"}
    /\ isConnected \in BOOLEAN /\ _running \in BOOLEAN
    /\ threadLoop \in Loop \cup {NONE} /\ connection \in Conn \cup {NONE}
    /\ pendingReply \in Seq(Handler) /\ size \in Int /\ broken \in BOOLEAN
    /\ subs \in SUBSET Subscriber /\ running \in [Handler -> BOOLEAN]
    /\ loop \in [Loop -> LoopState]
    /\ open \in SUBSET Conn
    /\ requests \in [Conn -> Seq(OutFrame)] /\ frames \in [Conn -> Seq(InFrame)]
    /\ brokerSubs \in [Conn -> SUBSET Subscriber] /\ answer \in [Conn -> Seq(InFrame)]
    /\ found \in [Conn -> SUBSET (Nat \X Subscriber)] /\ others \in Nat
    /\ disturbed \in BOOLEAN

\* The call the application is in.
CallInv ==
    /\ app \in {"idle", "handshake"} => asked = NONE
    /\ app \in {"enqueue", "table"} =>
          /\ asked # NONE /\ asked.op \in {"PUB", "SUB", "UNSUB"}
          /\ asked.op = "PUB" => asked.h \in Publisher /\ app = "enqueue"
          /\ asked.op = "SUB" => asked.h \in Subscriber \ subs
          /\ asked.op = "UNSUB" => asked.h \in subs
    /\ app # "idle" => isConnected

\* Connections are numbered in the order they are made, and only the last one can
\* be open.
ConnectionInv ==
    /\ isConnected => connection \in Conn
    /\ ~isConnected => threadLoop = NONE /\ open = {}
    /\ open \subseteq {connection}
    /\ \A c \in Conn : connection = NONE \/ connection < c =>
          /\ requests[c] = <<>> /\ frames[c] = <<>>
          /\ brokerSubs[c] = {} /\ answer[c] = <<>> /\ found[c] = {}

\* What a loop has in its hands depends on where it is.
LoopInv ==
    \A l \in Loop :
        /\ loop[l].at = "read" => loop[l].conn \in Conn
        /\ loop[l].at \in {"process", "poll"} => loop[l].frame \in InFrame
        /\ loop[l].at = "poll" => loop[l].frame.op \in {"OK", "ERR"}

-----------------------------------------------------------------------------
(***************************************************************************)
(* What is on its way.  F are frames to the client, R requests to the      *)
(* broker, W the handlers that wait for a reply.                           *)
(***************************************************************************)
IsReply(f) == f.op \in {"OK", "ERR"}
One(f) == IF IsReply(f) THEN 1 ELSE 0

\* cnt tells for each frame how many replies have come with it, b of them before
\* the first; the n-th reply is for the n-th handler that waits.
Counts(F, W, b, cnt) ==
    /\ cnt \in [0..Len(F) -> 0..Len(W)] /\ cnt[0] = b
    /\ \A i, j \in 0..Len(F) : i <= j => cnt[i] <= cnt[j]
    /\ \A i \in 1..Len(F) : /\ cnt[i] = cnt[i - 1] + One(F[i]) /\ F[i].op # "ERR"
                            /\ IsReply(F[i]) => F[i].of = W[cnt[i]]

Toggle(set, h) == IF h \notin Subscriber THEN set ELSE IF h \in set THEN set \ {h} ELSE set \cup {h}

\* t tells who is subscribed after each reply: at first those who believe they
\* are, at the end those the application has asked for.  Who has no reply to come
\* stays as he is.
Views(W, first, told, t) ==
    /\ t \in [0..Len(W) -> SUBSET Subscriber] /\ t[0] = first /\ t[Len(W)] = told
    /\ \A k \in 1..Len(W) : t[k] = Toggle(t[k - 1], W[k])
    /\ \A s \in Subscriber, k, m \in 0..Len(W) :
          k <= m /\ (\A j \in k + 1 .. m : W[j] # s) => (s \in t[k] <=> s \in t[m])

\* A message that is not late is for somebody who is subscribed when it comes, or
\* who is told so by the next reply.
InTime(f) == f.op = "MSG" /\ ~f.late
Awaits(s, W, n, t) == s \in t[n] \/ (n < Len(W) /\ W[n + 1] = s)
Messages(F, W, cnt, t) == \A i \in 1..Len(F) : InTime(F[i]) => Awaits(F[i].of, W, cnt[i], t)

\* The reply that the broker still has to send is for the next handler.
Owed(D, W, n) ==
    D = <<>> \/ (Len(D) = 1 /\ D[1].op = "OK" /\ n < Len(W) /\ D[1].of = W[n + 1])

\* A request is about the handler that waits for its reply, and asks for a change.
Suits(r, h, set) ==
    /\ r.op \in {"PUB", "SUB", "UNSUB"} /\ r.of = h
    /\ r.op = "PUB" => h \in Publisher
    /\ r.op = "SUB" => h \in Subscriber \ set
    /\ r.op = "UNSUB" => h \in set
Asks(R, W, n, t) ==
    n + Len(R) = Len(W) /\ \A j \in 1..Len(R) : Suits(R[j], W[n + j], t[n + j - 1])

-----------------------------------------------------------------------------
Inbox == IF connection \in Conn THEN frames[connection] ELSE <<>>
Outbox == IF connection \in open THEN requests[connection] ELSE <<>>
Due == IF connection \in open THEN answer[connection] ELSE <<>>
Waiting == IF app = "enqueue" THEN Append(pendingReply, asked.h) ELSE pendingReply
Believed == {s \in Subscriber : running[s]}
Told ==
    IF app \notin {"enqueue", "table"} \/ asked.op = "PUB" THEN subs
    ELSE IF asked.op = "SUB" THEN subs \cup {asked.h} ELSE subs \ {asked.h}

InHand(l) == loop[l].at \in {"process", "poll"} /\ IsReply(loop[l].frame)
Base == IF \E l \in Loop : InHand(l) THEN 1 ELSE 0
Ahead == IF Due = <<>> THEN 0 ELSE One(Due[1])
Heeds(s) == s \in Believed \/ (Waiting # <<>> /\ Waiting[1] = s)

\* The loop that reads reads the connection, and nobody else does.
OneLoop ==
    /\ size = Len(pendingReply) /\ ~broken
    /\ \A l, m \in Loop : Alive(l) /\ Alive(m) => l = m
    /\ isConnected => \A l \in Loop : Alive(l) => l = threadLoop
    /\ \A l \in Loop : loop[l].at = "read" => loop[l].conn = connection
    /\ \A l \in Loop : loop[l].at = "poll" => pendingReply # <<>>
    /\ last = NONE \/ (last.op # "MSG" => last.to = last.of)

\* Until connect has returned there is only CONNECT and its answer.
Shaking ==
    app = "handshake" =>
        /\ pendingReply = <<>> /\ subs = {} /\ brokerSubs[connection] = {}
        /\ found[connection] = {} /\ \A l \in Loop : ~Alive(l)
        /\ \/ /\ Inbox = <<>> /\ Due = <<>>
              /\ connection \in open => Outbox = << Frame("CONNECT", NONE, NONE) >>
           \/ Inbox = <<>> /\ Due = << Frame("INFO", NONE, NONE) >> /\ Outbox = <<>>
           \/ Inbox = << Frame("INFO", NONE, NONE) >> /\ Due = <<>> /\ Outbox = <<>>

Agree(cnt, t) ==
    /\ Counts(Inbox, Waiting, Base, cnt) /\ Views(Waiting, Believed, Told, t)
    /\ Messages(Inbox, Waiting, cnt, t)
    /\ \A l \in Loop : InHand(l) => /\ loop[l].frame.op = "OK" /\ Waiting # <<>>
                                    /\ loop[l].frame.of = Waiting[1]
    /\ \A l \in Loop : loop[l].at = "process" /\ InTime(loop[l].frame) => Heeds(loop[l].frame.of)
    /\ connection \in open => brokerSubs[connection] = t[cnt[Len(Inbox)] + Ahead]
    /\ connection \in open /\ app # "handshake" =>
          Owed(Due, Waiting, cnt[Len(Inbox)]) /\ Asks(Outbox, Waiting, cnt[Len(Inbox)] + Ahead, t)

Calm == OneLoop /\ Shaking /\ \E cnt, t : Agree(cnt, t)

JavaInv == Types /\ CallInv /\ ConnectionInv /\ LoopInv /\ (~disturbed => Calm)

-----------------------------------------------------------------------------
(***************************************************************************)
(* The four things that happen to what is on its way.                      *)
(***************************************************************************)
\* Another handler waits.
LEMMA WaitsToo ==
    ASSUME NEW F \in Seq(InFrame), NEW W \in Seq(Handler), NEW h \in Handler, NEW b, NEW cnt,
           NEW first, NEW told, NEW t, Counts(F, W, b, cnt), Views(W, first, told, t)
    PROVE  \E u : /\ Counts(F, Append(W, h), b, cnt)
                  /\ Views(Append(W, h), first, Toggle(told, h), u)
                  /\ \A k \in 0..Len(W) : u[k] = t[k]
<1> DEFINE V == Append(W, h)
           n == Len(W)
           u == [k \in 0 .. n + 1 |-> IF k <= n THEN t[k] ELSE Toggle(told, h)]
<1>1. /\ V \in Seq(Handler) /\ Len(V) = n + 1 /\ n \in Nat /\ V[n + 1] = h
      /\ \A k \in 1..n : V[k] = W[k]
  BY AppendProperties, LenProperties
<1>2. Len(F) \in Nat
  BY LenProperties
<1> HIDE DEF V
<1>3. Counts(F, V, b, cnt)
  <2>1. cnt \in [0..Len(F) -> 0 .. n + 1]
    <3>1. cnt \in [0..Len(F) -> 0..n]
      BY DEF Counts
    <3>2. 0..n \subseteq 0 .. n + 1
      BY <1>1
    <3> QED BY <3>1, <3>2
  <2>2. ASSUME NEW i \in 1..Len(F), IsReply(F[i]) PROVE F[i].of = V[cnt[i]]
    <3>1. i \in 0..Len(F) /\ i - 1 \in 0..Len(F)
      BY <1>2
    <3>2. cnt[i] = cnt[i - 1] + 1 /\ F[i].of = W[cnt[i]]
      BY <2>2 DEF Counts, One
    <3>3. cnt[i] \in 0..n /\ cnt[i - 1] \in 0..n
      BY <3>1 DEF Counts
    <3>4. cnt[i] \in 1..n
      BY <1>1, <3>2, <3>3
    <3> QED BY <1>1, <3>2, <3>4
  <2> QED BY <1>1, <2>1, <2>2 DEF Counts
<1>4. told \in SUBSET Subscriber /\ Toggle(told, h) \in SUBSET Subscriber
  BY <1>1 DEF Views, Toggle
<1>5. \A k \in 0..n : u[k] = t[k]
  BY <1>1
<1>6. u[n + 1] = Toggle(told, h) /\ u[n] = told
  BY <1>1 DEF Views
<1>7. u \in [0 .. n + 1 -> SUBSET Subscriber]
  BY <1>1, <1>4 DEF Views
<1> HIDE DEF u
<1>8. ASSUME NEW k \in 1 .. n + 1 PROVE u[k] = Toggle(u[k - 1], V[k])
  <2>1. CASE k = n + 1
    <3>1. k - 1 = n
      BY <1>1, <2>1
    <3> QED BY <1>1, <1>6, <2>1, <3>1
  <2>2. CASE k # n + 1
    <3>1. k \in 1..n /\ k \in 0..n /\ k - 1 \in 0..n
      BY <1>1, <2>2
    <3> QED BY <1>1, <1>5, <3>1 DEF Views
  <2> QED BY <2>1, <2>2
<1>9. ASSUME NEW s \in Subscriber, NEW k \in 0 .. n + 1, NEW m \in 0 .. n + 1, k <= m,
             \A j \in k + 1 .. m : V[j] # s
      PROVE  s \in u[k] <=> s \in u[m]
  <2>1. CASE m # n + 1
    <3>1. k \in 0..n /\ m \in 0..n /\ \A j \in k + 1 .. m : j \in 1..n
      BY <1>1, <1>9, <2>1
    <3>2. \A j \in k + 1 .. m : W[j] # s
      BY <1>1, <1>9, <3>1
    <3> QED BY <1>5, <1>9, <3>1, <3>2 DEF Views
  <2>2. CASE m = n + 1 /\ k # n + 1
    <3>1. /\ k \in 0..n /\ n \in 0..n /\ k <= n /\ n + 1 \in k + 1 .. m
          /\ \A j \in k + 1 .. n : j \in k + 1 .. m /\ j \in 1..n
      BY <1>1, <1>9, <2>2
    <3>2. \A j \in k + 1 .. n : W[j] # s
      BY <1>1, <1>9, <3>1
    <3>3. s \in t[k] <=> s \in t[n]
      BY <3>1, <3>2 DEF Views
    <3>4. h # s
      BY <1>1, <1>9, <3>1
    <3>5. s \in Toggle(told, h) <=> s \in told
      BY <3>4 DEF Toggle
    <3> QED BY <1>5, <1>6, <2>2, <3>1, <3>3, <3>5
  <2>3. CASE m = n + 1 /\ k = n + 1
    BY <2>3
  <2> QED BY <2>1, <2>2, <2>3
<1>10. Views(V, first, Toggle(told, h), u)
  <2>1. u[0] = first
    BY <1>1, <1>5 DEF Views
  <2> QED BY <1>1, <1>6, <1>7, <1>8, <1>9, <2>1 DEF Views
<1> QED BY <1>3, <1>5, <1>10 DEF V

\* A loop takes the first frame.
LEMMA Taken ==
    ASSUME NEW F \in Seq(InFrame), F # <<>>, NEW W \in Seq(Handler), NEW cnt, NEW t,
           Counts(F, W, 0, cnt), Messages(F, W, cnt, t)
    PROVE  \E d : /\ Counts(Tail(F), W, One(Head(F)), d) /\ Messages(Tail(F), W, d, t)
                  /\ d[Len(Tail(F))] = cnt[Len(F)]
<1> DEFINE G == Tail(F)
           n == Len(F)
           d == [i \in 0 .. n - 1 |-> cnt[i + 1]]
<1>1. /\ G \in Seq(InFrame) /\ Len(G) = n - 1 /\ n \in Nat \ {0} /\ Head(F) = F[1]
      /\ \A i \in 1 .. n - 1 : G[i] = F[i + 1]
  BY HeadTailProperties, EmptySeq
<1>2. Len(W) \in Nat
  BY LenProperties
<1> HIDE DEF G
<1>3. \A i \in 0 .. n - 1 : d[i] = cnt[i + 1] /\ i + 1 \in 1..n /\ i + 1 \in 0..n
  BY <1>1
<1>4. d \in [0 .. n - 1 -> 0..Len(W)]
  BY <1>1, <1>3 DEF Counts
<1> HIDE DEF d
<1>5. d[0] = One(Head(F))
  <2>1. 0 \in 0 .. n - 1 /\ 1 \in 1..n /\ 0 + 1 = 1 /\ 1 - 1 = 0
    BY <1>1
  <2>2. cnt[1] = cnt[0] + One(F[1]) /\ cnt[0] = 0 /\ One(F[1]) \in Nat
    BY <2>1 DEF Counts, One
  <2> QED BY <1>1, <1>3, <2>1, <2>2
<1>6. ASSUME NEW i \in 1 .. n - 1
      PROVE  /\ d[i] = d[i - 1] + One(G[i]) /\ G[i].op # "ERR"
             /\ IsReply(G[i]) => G[i].of = W[d[i]]
             /\ InTime(G[i]) => Awaits(G[i].of, W, d[i], t)
  <2>1. /\ i \in 0 .. n - 1 /\ i - 1 \in 0 .. n - 1 /\ i + 1 \in 1..n
        /\ (i + 1) - 1 = i /\ (i - 1) + 1 = i
    BY <1>1
  <2>2. d[i] = cnt[i + 1] /\ d[i - 1] = cnt[i] /\ G[i] = F[i + 1]
    BY <1>1, <1>3, <2>1
  <2>3. /\ cnt[i + 1] = cnt[i] + One(F[i + 1]) /\ F[i + 1].op # "ERR"
        /\ IsReply(F[i + 1]) => F[i + 1].of = W[cnt[i + 1]]
    BY <2>1 DEF Counts
  <2> QED BY <2>1, <2>2, <2>3 DEF Messages
<1>7. ASSUME NEW i \in 0 .. n - 1, NEW j \in 0 .. n - 1, i <= j PROVE d[i] <= d[j]
  <2>1. i + 1 \in 0..n /\ j + 1 \in 0..n /\ i + 1 <= j + 1
    BY <1>1, <1>7
  <2> QED BY <1>3, <2>1 DEF Counts
<1>8. d[Len(G)] = cnt[Len(F)]
  <2>1. n - 1 \in 0 .. n - 1 /\ (n - 1) + 1 = n
    BY <1>1
  <2> QED BY <1>1, <1>3, <2>1
<1> QED BY <1>1, <1>4, <1>5, <1>6, <1>7, <1>8 DEF Counts, Messages, G

\* A reply is given to the first handler.
LEMMA Given ==
    ASSUME NEW F \in Seq(InFrame), NEW R \in Seq(OutFrame), NEW W \in Seq(Handler), W # <<>>,
           NEW cnt, NEW first, NEW told, NEW t,
           NEW D, Counts(F, W, 1, cnt), Views(W, first, told, t), Messages(F, W, cnt, t)
    PROVE  \E d, u : /\ Counts(F, Tail(W), 0, d) /\ Messages(F, Tail(W), d, u)
                     /\ Views(Tail(W), Toggle(first, Head(W)), told, u)
                     /\ Owed(D, W, cnt[Len(F)]) => Owed(D, Tail(W), d[Len(F)])
                     /\ \A a \in 0..1 : cnt[Len(F)] + a <= Len(W) =>
                           /\ u[d[Len(F)] + a] = t[cnt[Len(F)] + a]
                           /\ Asks(R, W, cnt[Len(F)] + a, t) => Asks(R, Tail(W), d[Len(F)] + a, u)
<1> DEFINE V == Tail(W)
           l == Len(F)
           n == Len(W)
           d == [i \in 0..l |-> cnt[i] - 1]
           u == [k \in 0 .. n - 1 |-> t[k + 1]]
<1>1. /\ V \in Seq(Handler) /\ Len(V) = n - 1 /\ n \in Nat \ {0} /\ Head(W) = W[1]
      /\ \A k \in 1 .. n - 1 : V[k] = W[k + 1]
  BY HeadTailProperties, EmptySeq
<1>2. l \in Nat
  BY LenProperties
<1>3. ASSUME NEW i \in 0..l
      PROVE  d[i] = cnt[i] - 1 /\ cnt[i] \in 1..n /\ d[i] \in 0 .. n - 1 /\ d[i] + 1 = cnt[i]
  <2>1. cnt[0] = 1 /\ cnt[i] \in 0..n
    BY DEF Counts
  <2>2. 0 \in 0..l /\ 0 <= i
    BY <1>2
  <2>3. cnt[0] <= cnt[i]
    BY <2>2 DEF Counts
  <2> QED BY <1>1, <2>1, <2>3
<1>4. \A k \in 0 .. n - 1 : u[k] = t[k + 1] /\ k + 1 \in 1..n /\ k + 1 \in 0..n
  BY <1>1
<1>5. d \in [0..l -> 0 .. n - 1]
  BY <1>3
<1>6. u \in [0 .. n - 1 -> SUBSET Subscriber]
  BY <1>1, <1>4 DEF Views
<1> HIDE DEF V, d, u
<1>7. Counts(F, V, 0, d)
  <2>1. d[0] = 0
    <3>1. cnt[0] = 1 /\ 0 \in 0..l
      BY <1>2 DEF Counts
    <3> QED BY <1>3, <3>1
  <2>2. ASSUME NEW i \in 0..l, NEW j \in 0..l, i <= j PROVE d[i] <= d[j]
    <3>1. cnt[i] <= cnt[j]
      BY <2>2 DEF Counts
    <3> QED BY <1>1, <1>3, <3>1
  <2>3. ASSUME NEW i \in 1..l
        PROVE  /\ d[i] = d[i - 1] + One(F[i]) /\ F[i].op # "ERR"
               /\ IsReply(F[i]) => F[i].of = V[d[i]]
    <3>1. i \in 0..l /\ i - 1 \in 0..l
      BY <1>2
    <3>2. /\ cnt[i] = cnt[i - 1] + One(F[i]) /\ F[i].op # "ERR"
          /\ IsReply(F[i]) => F[i].of = W[cnt[i]]
      BY DEF Counts
    <3>3. One(F[i]) \in Nat /\ (IsReply(F[i]) => One(F[i]) = 1)
      BY DEF One
    <3>4. d[i] = d[i - 1] + One(F[i])
      <4>1. /\ d[i] + 1 = cnt[i] /\ d[i - 1] + 1 = cnt[i - 1]
            /\ d[i] \in 0 .. n - 1 /\ d[i - 1] \in 0 .. n - 1
        BY <1>3, <3>1
      <4>2. d[i] + 1 = (d[i - 1] + 1) + One(F[i])
        BY <3>2, <4>1
      <4>3. \A a, b \in 0 .. n - 1, o \in Nat : a + 1 = (b + 1) + o => a = b + o
        BY <1>1
      <4> QED BY <3>3, <4>1, <4>2, <4>3
    <3>5. ASSUME IsReply(F[i]) PROVE F[i].of = V[d[i]]
      <4>0. /\ d[i] + 1 = cnt[i] /\ d[i] \in 0 .. n - 1 /\ d[i - 1] \in 0 .. n - 1
        BY <1>3, <3>1
      <4>1. d[i] \in 1 .. n - 1 /\ cnt[i] = d[i] + 1
        BY <1>1, <3>3, <3>4, <3>5, <4>0
      <4> QED BY <1>1, <3>2, <3>5, <4>1
    <3> QED BY <3>2, <3>4, <3>5
  <2> QED BY <1>1, <1>5, <2>1, <2>2, <2>3 DEF Counts
<1>8. Messages(F, V, d, u)
  <2>1. ASSUME NEW i \in 1..l, InTime(F[i]) PROVE Awaits(F[i].of, V, d[i], u)
    <3>1. i \in 0..l
      BY <1>2
    <3>2. u[d[i]] = t[cnt[i]] /\ d[i] \in 0 .. n - 1 /\ cnt[i] = d[i] + 1
      BY <1>3, <1>4, <3>1
    <3>3. Awaits(F[i].of, W, cnt[i], t)
      BY <2>1 DEF Messages
    <3>4. cnt[i] < n => d[i] < n - 1 /\ V[d[i] + 1] = W[cnt[i] + 1]
      BY <1>1, <3>2
    <3> QED BY <1>1, <3>2, <3>3, <3>4 DEF Awaits
  <2> QED BY <2>1 DEF Messages
<1>9. Views(V, Toggle(first, Head(W)), told, u)
  <2>1. u[0] = Toggle(first, Head(W))
    <3>1. 0 \in 0 .. n - 1 /\ 0 + 1 = 1 /\ 1 \in 1..n /\ 1 - 1 = 0
      BY <1>1
    <3>2. t[1] = Toggle(t[0], W[1]) /\ t[0] = first
      BY <3>1 DEF Views
    <3> QED BY <1>1, <1>4, <3>1, <3>2
  <2>2. u[n - 1] = told
    <3>1. n - 1 \in 0 .. n - 1 /\ (n - 1) + 1 = n
      BY <1>1
    <3> QED BY <1>4, <3>1 DEF Views
  <2>3. ASSUME NEW k \in 1 .. n - 1 PROVE u[k] = Toggle(u[k - 1], V[k])
    <3>1. k \in 0 .. n - 1 /\ k - 1 \in 0 .. n - 1 /\ k + 1 \in 1..n /\ (k + 1) - 1 = k /\ (k - 1) + 1 = k
      BY <1>1
    <3>2. t[k + 1] = Toggle(t[k], W[k + 1])
      BY <3>1 DEF Views
    <3> QED BY <1>1, <1>4, <3>1, <3>2
  <2>4. ASSUME NEW s \in Subscriber, NEW k \in 0 .. n - 1, NEW m \in 0 .. n - 1, k <= m,
               \A j \in k + 1 .. m : V[j] # s
        PROVE  s \in u[k] <=> s \in u[m]
    <3>1. k + 1 \in 0..n /\ m + 1 \in 0..n /\ k + 1 <= m + 1
      BY <1>1, <2>4
    <3>2. ASSUME NEW j \in (k + 1) + 1 .. m + 1 PROVE W[j] # s
      <4>1. j - 1 \in k + 1 .. m /\ j - 1 \in 1 .. n - 1 /\ (j - 1) + 1 = j
        BY <1>1
      <4>2. V[j - 1] = W[j]
        BY <1>1, <4>1
      <4> QED BY <2>4, <4>1, <4>2
    <3>3. s \in t[k + 1] <=> s \in t[m + 1]
      BY <3>1, <3>2 DEF Views
    <3> QED BY <1>4, <3>3
  <2> QED BY <1>1, <1>6, <2>1, <2>2, <2>3, <2>4 DEF Views
<1>10. l \in 0..l /\ d[l] + 1 = cnt[l] /\ d[l] \in 0 .. n - 1
  <2>1. l \in 0..l
    BY <1>2
  <2> QED BY <1>3, <2>1
<1>11. ASSUME NEW a \in 0..1, cnt[l] + a <= n
       PROVE  u[d[l] + a] = t[cnt[l] + a] /\ (Asks(R, W, cnt[l] + a, t) => Asks(R, V, d[l] + a, u))
  <2> DEFINE x == d[l] + a
             y == cnt[l] + a
  <2>0. x \in 0 .. n - 1 /\ x + 1 = y
    BY <1>1, <1>10, <1>11
  <2>1. Len(R) \in Nat
    BY LenProperties
  <2>2. u[x] = t[y]
    BY <1>4, <2>0
  <2> HIDE DEF x, y
  <2>3. ASSUME Asks(R, W, y, t) PROVE Asks(R, V, x, u)
    <3>1. y + Len(R) = n
      BY <2>3 DEF Asks
    <3>2. x + Len(R) = n - 1
      BY <1>1, <2>0, <2>1, <3>1
    <3>3. ASSUME NEW j \in 1..Len(R) PROVE Suits(R[j], V[x + j], u[x + j - 1])
      <4>1. /\ x + j \in 1 .. n - 1 /\ (x + j) + 1 = y + j
            /\ x + j - 1 \in 0 .. n - 1 /\ (x + j - 1) + 1 = y + j - 1
        <5>1. n \in Nat
          BY <1>1
        <5>2. x \in Nat
          BY <2>0, <5>1
        <5> QED BY <2>0, <2>1, <3>2, <5>1, <5>2
      <4>2. V[x + j] = W[y + j] /\ u[x + j - 1] = t[y + j - 1]
        BY <1>1, <1>4, <4>1
      <4> QED BY <2>3, <4>2 DEF Asks
    <3> QED BY <1>1, <3>2, <3>3 DEF Asks
  <2> QED BY <2>2, <2>3 DEF x, y
<1>12. ASSUME Owed(D, W, cnt[l]) PROVE Owed(D, V, d[l])
  <2>1. cnt[l] < n => d[l] < n - 1 /\ V[d[l] + 1] = W[cnt[l] + 1]
    BY <1>1, <1>10
  <2> QED BY <1>1, <1>12, <2>1 DEF Owed
<1> QED BY <1>7, <1>8, <1>9, <1>11, <1>12 DEF V

\* A frame comes in; a reply is for the next handler.
FitsIn(f, W, n, t) ==
    /\ f.op # "ERR" /\ (IsReply(f) => n < Len(W) /\ f.of = W[n + 1])
    /\ InTime(f) => Awaits(f.of, W, n, t)

LEMMA Arrived ==
    ASSUME NEW F \in Seq(InFrame), NEW W \in Seq(Handler), NEW b, NEW cnt, NEW t,
           NEW f \in InFrame, Counts(F, W, b, cnt), Messages(F, W, cnt, t), FitsIn(f, W, cnt[Len(F)], t)
    PROVE  \E d : /\ Counts(Append(F, f), W, b, d) /\ Messages(Append(F, f), W, d, t)
                  /\ d[Len(Append(F, f))] = cnt[Len(F)] + One(f)
<1> DEFINE G == Append(F, f)
           l == Len(F)
           c == cnt[l]
           o == One(f)
           d == [i \in 0 .. l + 1 |-> IF i <= l THEN cnt[i] ELSE c + o]
<1>1. /\ l \in Nat /\ Len(G) = l + 1 /\ Len(W) \in Nat
      /\ G[l + 1] = f /\ \A i \in 1..l : G[i] = F[i]
  BY AppendProperties, LenProperties
<1> HIDE DEF G
<1>2. d[l + 1] = c + o /\ \A i \in 0..l : d[i] = cnt[i]
  BY <1>1
<1>3. \A i \in 0..l : cnt[i] \in 0..Len(W) /\ cnt[i] <= c
  <2>1. l \in 0..l /\ \A i \in 0..l : i <= l
    BY <1>1
  <2> QED BY <2>1 DEF Counts
<1>0. o \in 0..1 /\ (IsReply(f) => o = 1) /\ (~IsReply(f) => o = 0)
  BY DEF One
<1>10. /\ f.op # "ERR" /\ (IsReply(f) => c < Len(W) /\ f.of = W[c + 1])
       /\ InTime(f) => Awaits(f.of, W, c, t)
  BY DEF FitsIn
<1> HIDE DEF o
<1>9. c \in 0..Len(W) /\ c + o \in 0..Len(W)
  <2>1. c \in 0..Len(W)
    BY <1>1, <1>3
  <2> QED BY <1>0, <1>1, <1>10, <2>1
<1>4. d \in [0 .. l + 1 -> 0..Len(W)]
  <2>1. \A i \in 0 .. l + 1 : i <= l => i \in 0..l
    BY <1>1
  <2> QED BY <1>3, <1>9, <2>1
<1> HIDE DEF d
<1>5. d[0] = b
  <2>1. 0 \in 0..l
    BY <1>1
  <2> QED BY <1>2, <2>1 DEF Counts
<1>6. ASSUME NEW i \in 0 .. l + 1, NEW j \in 0 .. l + 1, i <= j PROVE d[i] <= d[j]
  <2>1. CASE j <= l
    <3>1. i \in 0..l /\ j \in 0..l
      BY <1>1, <1>6, <2>1
    <3> QED BY <1>2, <1>6, <3>1 DEF Counts
  <2>2. CASE i <= l /\ ~(j <= l)
    <3>1. i \in 0..l /\ j = l + 1
      BY <1>1, <2>2
    <3>2. cnt[i] <= c + o
      BY <1>0, <1>1, <1>3, <1>9, <3>1
    <3> QED BY <1>2, <3>1, <3>2
  <2>3. CASE ~(i <= l)
    <3>1. i = l + 1 /\ j = l + 1
      BY <1>1, <1>6, <2>3
    <3> QED BY <1>1, <1>2, <1>9, <3>1
  <2>4. j <= l \/ (i <= l /\ ~(j <= l)) \/ ~(i <= l)
    OBVIOUS
  <2> QED BY <2>1, <2>2, <2>3, <2>4
<1>7. ASSUME NEW i \in 1 .. l + 1
      PROVE  /\ d[i] = d[i - 1] + One(G[i]) /\ G[i].op # "ERR"
             /\ IsReply(G[i]) => G[i].of = W[d[i]]
             /\ InTime(G[i]) => Awaits(G[i].of, W, d[i], t)
  <2>1. CASE i <= l
    <3>1. i \in 1..l /\ i \in 0..l /\ i - 1 \in 0..l
      BY <1>1, <2>1
    <3>2. G[i] = F[i] /\ d[i] = cnt[i] /\ d[i - 1] = cnt[i - 1]
      BY <1>1, <1>2, <3>1
    <3> QED BY <3>1, <3>2 DEF Counts, Messages
  <2>2. CASE ~(i <= l)
    <3>1. i = l + 1 /\ i - 1 = l /\ l \in 0..l
      BY <1>1, <2>2
    <3>2. G[i] = f /\ d[i] = c + o /\ d[i - 1] = c
      BY <1>1, <1>2, <3>1
    <3>3. IsReply(f) => f.of = W[c + o]
      BY <1>0, <1>10
    <3>4. InTime(f) => Awaits(f.of, W, c + o, t)
      <4>1. InTime(f) => ~IsReply(f)
        BY DEF InTime, IsReply
      <4>2. InTime(f) => c + o = c
        BY <1>0, <1>9, <4>1
      <4> QED BY <1>10, <4>2
    <3> QED BY <1>10, <3>2, <3>3, <3>4 DEF o
  <2> QED BY <2>1, <2>2
<1> QED BY <1>1, <1>2, <1>4, <1>5, <1>6, <1>7 DEF Counts, Messages, G, o

-----------------------------------------------------------------------------
(***************************************************************************)
(* Types, the call, the connection and the loops: calls may have crossed.  *)
(***************************************************************************)
Plain == Types /\ CallInv /\ ConnectionInv /\ LoopInv

\* The same, in one word each.
Meets(F, W, b, cnt, t, f) ==
    /\ F \in Seq(InFrame) /\ W \in Seq(Handler) /\ f \in InFrame
    /\ Counts(F, W, b, cnt) /\ Messages(F, W, cnt, t) /\ FitsIn(f, W, cnt[Len(F)], t)

Grown(F, W, b, cnt, t, f, d) ==
    /\ Counts(Append(F, f), W, b, d) /\ Messages(Append(F, f), W, d, t)
    /\ d[Len(Append(F, f))] = cnt[Len(F)] + One(f)

LEMMA Arrives ==
    ASSUME NEW F, NEW W, NEW b, NEW cnt, NEW t, NEW f, Meets(F, W, b, cnt, t, f)
    PROVE  \E d : Grown(F, W, b, cnt, t, f, d)
<1>1. /\ F \in Seq(InFrame) /\ W \in Seq(Handler) /\ f \in InFrame
      /\ Counts(F, W, b, cnt) /\ Messages(F, W, cnt, t) /\ FitsIn(f, W, cnt[Len(F)], t)
  BY DEF Meets
<1>2. \E d : /\ Counts(Append(F, f), W, b, d) /\ Messages(Append(F, f), W, d, t)
             /\ d[Len(Append(F, f))] = cnt[Len(F)] + One(f)
  BY <1>1, Arrived
<1> QED BY <1>2 DEF Grown

\* What the broker finds and answers.
LEMMA Answers ==
    ASSUME Types, NEW c \in Conn, NEW r \in OutFrame
    PROVE  Answer(c, r) \in InFrame /\ Hit(c, r.topic) \subseteq Subscriber
<1>1. /\ Frame("INFO", NONE, NONE) \in InFrame
      /\ Frame("OK", r.of, r.topic) \in InFrame /\ Frame("ERR", r.of, r.topic) \in InFrame
  BY DEF OutFrame, InFrame, UsedTopic, Frame
<1>2. Hit(c, r.topic) \subseteq Subscriber
  BY DEF Hit, Types
<1> QED BY <1>1, <1>2 DEF Answer

\* A message is a frame; it is in time if its subscriber is subscribed.
LEMMA Sends ==
    ASSUME NEW s \in Subscriber, NEW b \in BOOLEAN
    PROVE  LET f == [Frame("MSG", s, TopicOf[s]) EXCEPT !.late = b]
           IN f \in InFrame /\ f.op = "MSG" /\ f.of = s /\ (InTime(f) => ~b)
  BY DEF Frame, InFrame, UsedTopic, Handler, InTime

\* The calls of the application keep this part of the invariant.
LEMMA PlainApp ==
    ASSUME Plain, App
    PROVE  Plain'
<1> USE DEF Plain
<1>0. Conn \subseteq Nat /\ Loop \subseteq Nat /\ NONE \notin Conn /\ NONE \notin Handler
  BY JavaAssumption DEF Conn, Loop
<1>1. CASE Connect
  <2>1. Frame("CONNECT", NONE, NONE) \in OutFrame
    BY DEF OutFrame, UsedTopic, Frame
  <2>2. Types'
    BY <1>1, <2>1 DEF Connect, Types, list, NextConn, inside
  <2>3. CallInv' /\ LoopInv'
    BY <1>1 DEF Connect, CallInv, LoopInv, inside
  <2>4. ConnectionInv'
    BY <1>0, <1>1 DEF Connect, ConnectionInv, NextConn, Types, inside
  <2> QED BY <2>2, <2>3, <2>4
<1>2. CASE Handshake
  <2>1. connection \in Conn /\ Tail(frames[connection]) \in Seq(InFrame)
    BY <1>2, HeadTailProperties DEF Handshake, Types, CallInv, ConnectionInv, inside
  <2>2. Types'
    BY <1>2, <2>1 DEF Handshake, Types, list, fields, inside
  <2>3. CallInv' /\ LoopInv'
    BY <1>2 DEF Handshake, CallInv, LoopInv, fields, inside
  <2>4. ConnectionInv'
    BY <1>0, <1>2, <2>1 DEF Handshake, ConnectionInv, Types, fields, inside
  <2> QED BY <2>2, <2>3, <2>4
<1>3. CASE HandshakeFail \/ Close
  <2>1. connection \in Conn
    BY <1>3 DEF HandshakeFail, Close, CallInv, ConnectionInv
  <2>5. CloseFields /\ UNCHANGED <<connection, list, subs, running, loop, disturbed>>
        /\ app' \in {app, "idle"}
    BY <1>3 DEF HandshakeFail, Close, appVars
  <2>2. Types'
    <3>1. /\ frames' \in [Conn -> Seq(InFrame)] /\ requests' \in [Conn -> Seq(OutFrame)]
          /\ brokerSubs' \in [Conn -> SUBSET Subscriber] /\ answer' \in [Conn -> Seq(InFrame)]
          /\ found' \in [Conn -> SUBSET (Nat \X Subscriber)]
      BY <2>1, <2>5 DEF CloseFields, Types, Destroy
    <3> QED BY <2>5, <3>1 DEF CloseFields, Types, list, Destroy
  <2>3. CallInv' /\ LoopInv'
    BY <1>3 DEF HandshakeFail, Close, CloseFields, CallInv, LoopInv, appVars, Destroy
  <2>4. ConnectionInv'
    <3>1. open' = {} /\ connection' = connection /\ isConnected' = FALSE /\ threadLoop' = NONE
      BY <2>5 DEF CloseFields, ConnectionInv, Destroy
    <3>2. \A c \in Conn : c # connection =>
             /\ requests'[c] = requests[c] /\ frames'[c] = frames[c]
             /\ brokerSubs'[c] = brokerSubs[c] /\ answer'[c] = answer[c] /\ found'[c] = found[c]
      BY <2>5 DEF CloseFields, Types, Destroy
    <3>3. \A c \in Conn : connection < c => c # connection
      BY <1>0, <2>1
    <3> QED BY <1>0, <2>1, <3>1, <3>2, <3>3 DEF ConnectionInv
  <2> QED BY <2>2, <2>3, <2>4
<1>4. CASE StartMainLoop
  <2>1. PICK l \in Loop : /\ loop[l].at = "none" /\ threadLoop' = l
                          /\ loop' = [loop EXCEPT ![l].at = "check"]
    BY <1>4 DEF StartMainLoop
  <2>2. Types'
    <3>1. loop' \in [Loop -> LoopState]
      <4>1. loop' = [loop EXCEPT ![l] = [loop[l] EXCEPT !.at = "check"]]
        BY <2>1 DEF Types
      <4>2. [loop[l] EXCEPT !.at = "check"] \in LoopState
        BY DEF Types, LoopState
      <4> QED BY <4>1, <4>2 DEF Types
    <3> QED BY <1>4, <2>1, <3>1 DEF StartMainLoop, Types, list, appVars, broker, inside
  <2>3. CallInv' /\ LoopInv'
    BY <1>4, <2>1 DEF StartMainLoop, CallInv, LoopInv, Types, LoopState, appVars
  <2>4. ConnectionInv'
    BY <1>4 DEF StartMainLoop, ConnectionInv, broker, inside
  <2> QED BY <2>2, <2>3, <2>4
<1>5. ASSUME NEW op \in {"PUB", "SUB", "UNSUB"}, NEW h \in Handler, Request(op, h),
             op = "PUB" => h \in Publisher, op # "PUB" => h \in Subscriber
      PROVE  Plain'
  <2>1. connection \in Conn
    BY <1>5 DEF Request, ConnectionInv, inside
  <2>2. Frame(op, h, TopicOf[h]) \in OutFrame
    BY <1>5 DEF OutFrame, UsedTopic, Frame
  <2>3. Append(requests[connection], Frame(op, h, TopicOf[h])) \in Seq(OutFrame)
    BY <2>1, <2>2, AppendProperties DEF Types
  <2>4. Types'
    BY <1>5, <2>1, <2>3 DEF Request, SendFrame, Types, list, fields, inside
  <2>5. CallInv' /\ LoopInv'
    <3>1. [op |-> op, h |-> h] # NONE
      BY JavaAssumption
    <3> QED BY <1>5, <3>1 DEF Request, CallInv, LoopInv, fields, inside
  <2>6. ConnectionInv'
    BY <1>0, <1>5, <2>1 DEF Request, SendFrame, ConnectionInv, Types, fields, inside
  <2> QED BY <2>4, <2>5, <2>6
<1>6. CASE Pub \/ Sub \/ Unsub
  BY <1>5, <1>6 DEF Pub, Sub, Unsub, Handler
<1>7. CASE Enqueue
  <2>1. asked.h \in Handler
    BY <1>7 DEF Enqueue, CallInv, Types, Handler
  <2>2. Append(pendingReply, asked.h) \in Seq(Handler)
    BY <2>1, AppendProperties DEF Types
  <2>3. Types'
    BY <1>7, <2>2 DEF Enqueue, AfterEnqueue, Types, fields, broker, inside
  <2>4. CallInv' /\ LoopInv'
    BY <1>7 DEF Enqueue, AfterEnqueue, CallInv, LoopInv, fields
  <2>5. ConnectionInv'
    BY <1>7 DEF Enqueue, ConnectionInv, fields, broker, inside
  <2> QED BY <2>3, <2>4, <2>5
<1>8. CASE Table
  <2>1. Types'
    BY <1>8 DEF Table, CallInv, Types, list, fields, broker, inside
  <2>2. CallInv' /\ LoopInv' /\ ConnectionInv'
    BY <1>8 DEF Table, CallInv, LoopInv, ConnectionInv, fields, broker, inside
  <2> QED BY <2>1, <2>2
<1> QED BY <1>1, <1>2, <1>3, <1>4, <1>6, <1>7, <1>8 DEF App

\* So do the steps of a main loop, those on a list that two threads change too.
LEMMA PlainLoop ==
    ASSUME Plain, NEW l \in Loop, MainLoop(l)
    PROVE  Plain'
<1> USE DEF Plain
<1>0. Conn \subseteq Nat /\ Loop \subseteq Nat /\ NONE \notin Conn /\ NONE \notin Handler
  BY JavaAssumption DEF Conn, Loop
<1>1. ASSUME NEW at \in {"recv", "check", "dead"}, Goto(l, at)
      PROVE  /\ loop' \in [Loop -> LoopState] /\ LoopInv'
  BY <1>1 DEF Goto, Types, LoopState, LoopInv
<1>2. ASSUME UNCHANGED <<app, asked, subs, fields, open, requests, frames, brokerSubs, answer, found>>
      PROVE  CallInv' /\ ConnectionInv'
  BY <1>2 DEF CallInv, ConnectionInv, fields
<1>3. CASE LoopCheck(l)
  <2>1. loop' \in [Loop -> LoopState] /\ LoopInv'
    BY <1>1, <1>3 DEF LoopCheck
  <2>2. UNCHANGED loopOnly
    BY <1>3 DEF LoopCheck
  <2> QED BY <1>2, <2>1, <2>2 DEF Types, loopOnly, appVars, fields, list, broker, inside
<1>4. CASE LoopRecv(l)
  <2>1. loop' \in [Loop -> LoopState] /\ LoopInv'
    <3>1. CASE isConnected
      <4>1. connection \in Conn /\ loop[l] \in LoopState
        BY <3>1 DEF ConnectionInv, Types
      <4>2. loop' = [loop EXCEPT ![l] = [at |-> "read", conn |-> connection, frame |-> loop[l].frame]]
        BY <1>4, <3>1, <4>1 DEF LoopRecv, Types, LoopState
      <4>3. loop' \in [Loop -> LoopState]
        BY <4>1, <4>2 DEF Types, LoopState
      <4> QED BY <4>1, <4>2, <4>3 DEF LoopInv, Types
    <3>2. CASE ~isConnected
      BY <1>1, <1>4, <3>2 DEF LoopRecv
    <3> QED BY <3>1, <3>2
  <2>2. UNCHANGED loopOnly
    BY <1>4 DEF LoopRecv
  <2> QED BY <1>2, <2>1, <2>2 DEF Types, loopOnly, appVars, fields, list, broker, inside
<1>5. CASE LoopRead(l)
  <2> DEFINE c == loop[l].conn
  <2>1. c \in Conn /\ frames[c] \in Seq(InFrame) /\ frames[c] # <<>>
    BY <1>5 DEF LoopRead, LoopInv, Types, inside
  <2>2. Head(frames[c]) \in InFrame /\ Tail(frames[c]) \in Seq(InFrame)
    BY <2>1, HeadTailProperties
  <2>3. loop' = [loop EXCEPT ![l] = [at |-> "process", conn |-> NONE, frame |-> Head(frames[c])]]
        /\ frames' = [frames EXCEPT ![c] = Tail(frames[c])]
    BY <1>5, <2>1 DEF LoopRead, inside
  <2> HIDE DEF c
  <2>4. loop' \in [Loop -> LoopState] /\ LoopInv'
    BY <2>2, <2>3 DEF Types, LoopState, LoopInv
  <2>5. Types'
    <3>1. frames' \in [Conn -> Seq(InFrame)]
      BY <2>1, <2>2, <2>3 DEF Types
    <3> QED BY <1>5, <2>4, <3>1 DEF LoopRead, Types, appVars, fields, list, inside
  <2>6. CallInv'
    BY <1>5 DEF LoopRead, CallInv, appVars, fields, inside
  <2>7. \A d \in Conn : frames[d] = <<>> => frames'[d] = <<>>
    BY <2>1, <2>3 DEF Types
  <2>8. ConnectionInv'
    BY <1>5, <2>7 DEF LoopRead, ConnectionInv, fields, inside
  <2> QED BY <2>4, <2>5, <2>6, <2>8
<1>6. CASE LoopReadFail(l)
  <2>1. loop' \in [Loop -> LoopState] /\ LoopInv'
    BY <1>1, <1>6 DEF LoopReadFail
  <2>2. UNCHANGED loopOnly
    BY <1>6 DEF LoopReadFail
  <2> QED BY <1>2, <2>1, <2>2 DEF Types, loopOnly, appVars, fields, list, broker, inside
<1>7. CASE LoopReply(l)
  <2>1. loop' \in [Loop -> LoopState] /\ LoopInv'
    <3>1. CASE size > 0
      <4>1. /\ loop[l].frame \in InFrame /\ loop[l].frame.op \in {"OK", "ERR"} /\ loop[l] \in LoopState
            /\ loop' = [loop EXCEPT ![l] = [at |-> "poll", conn |-> NONE, frame |-> loop[l].frame]]
        BY <1>7, <3>1 DEF LoopReply, Goto, Types, LoopInv
      <4>2. loop' \in [Loop -> LoopState]
        BY <4>1 DEF Types, LoopState
      <4> QED BY <4>1, <4>2 DEF LoopInv, Types
    <3>2. CASE ~(size > 0)
      BY <1>1, <1>7, <3>2 DEF LoopReply
    <3> QED BY <3>1, <3>2
  <2>2. UNCHANGED <<appVars, fields, list, subs, running, broker>> /\ disturbed' \in {disturbed, TRUE}
    BY <1>7 DEF LoopReply
  <2> QED BY <1>2, <2>1, <2>2 DEF Types, appVars, fields, list, broker, inside
<1>8. ASSUME Deliver(l, First)
      PROVE  /\ loop' \in [Loop -> LoopState] /\ LoopInv'
             /\ running' \in [Handler -> BOOLEAN]
             /\ Rest \in Seq(Handler)
  <2>1. Rest \in Seq(Handler) /\ (First # NONE => First \in Handler)
    BY HeadTailProperties DEF First, Rest, Types
  <2>2. running' \in [Handler -> BOOLEAN]
    <3>1. \A h : Replied(h, loop[l].frame.op) \in BOOLEAN
      BY DEF Replied
    <3> QED BY <1>8, <2>1, <3>1 DEF Deliver, Types
  <2>3. Goto(l, "dead") \/ Goto(l, "check")
    BY <1>8 DEF Deliver
  <2> QED BY <1>1, <2>1, <2>2, <2>3
<1>9. CASE LoopPoll(l)
  <2>1. /\ UNCHANGED <<appVars, fields, broken, subs, broker, disturbed>>
        /\ pendingReply' = Rest /\ size' \in Int
    BY <1>9 DEF LoopPoll, Types
  <2>2. Deliver(l, First)
    BY <1>9 DEF LoopPoll
  <2> QED BY <1>2, <1>8, <2>1, <2>2 DEF Types, appVars, fields, broker, inside
<1>10. CASE EnqueueDuringPoll(l)
  <2>1. UNCHANGED <<fields, subs, broker>> /\ disturbed' = TRUE /\ Deliver(l, First) /\ AfterEnqueue
        /\ app = "enqueue"
    BY <1>10 DEF EnqueueDuringPoll
  <2>0. size' \in size - 1 .. size + 1 /\ pendingReply' \in {Append(Rest, asked.h), <<>>}
    BY <1>10, Zenon DEF EnqueueDuringPoll
  <2>8. broken' \in BOOLEAN
    BY <1>10, Zenon DEF EnqueueDuringPoll, Types
  <2>2. size' \in Int
    BY <2>0 DEF Types
  <2>3. asked.h \in Handler
    BY <2>1 DEF CallInv, Types, Handler
  <2>4. pendingReply' \in Seq(Handler)
    <3>1. Append(Rest, asked.h) \in Seq(Handler)
      BY <1>8, <2>1, <2>3, AppendProperties
    <3>2. <<>> \in Seq(Handler)
      OBVIOUS
    <3> QED BY <2>0, <3>1, <3>2
  <2>5. CallInv' /\ app' \in {"idle", "table"}
    BY <2>1 DEF AfterEnqueue, CallInv, fields
  <2>6. ConnectionInv'
    BY <2>1 DEF ConnectionInv, fields, broker, inside
  <2>7. Types'
    BY <1>8, <2>1, <2>2, <2>4, <2>5, <2>8 DEF Types, fields, broker, inside
  <2> QED BY <1>8, <2>1, <2>5, <2>6, <2>7
<1>11. CASE LoopMsg(l) \/ LoopOther(l)
  <2>1. Goto(l, "check") /\ UNCHANGED <<appVars, fields, list, subs, running, broker, disturbed>>
    BY <1>11 DEF LoopMsg, LoopOther, loopOnly
  <2>2. loop' \in [Loop -> LoopState] /\ LoopInv'
    BY <1>1, <2>1
  <2> QED BY <1>2, <2>1, <2>2 DEF Types, appVars, fields, list, broker, inside
<1> QED BY <1>3, <1>4, <1>5, <1>6, <1>7, <1>9, <1>10, <1>11 DEF MainLoop

\* So do the steps of the broker.
LEMMA PlainBroker ==
    ASSUME Plain, NEW c \in Conn, BrokerThreads(c) \/ BrokerPublish(c) \/ BrokerClose(c)
    PROVE  Plain'
<1> USE DEF Plain, BrokerThreads
<1>0. Conn \subseteq Nat /\ NONE \notin Conn
  BY JavaAssumption DEF Conn
<1>1. c \in open /\ c = connection
  BY DEF BrokerServe, BrokerReply, BrokerDeliver, BrokerPublish, BrokerClose, ConnectionInv
<1>2. CallInv' /\ LoopInv'
  BY DEF BrokerServe, BrokerReply, BrokerDeliver, BrokerPublish, BrokerClose, CallInv, LoopInv, appVars, fields
<1>3. CASE BrokerServe(c)
  <2> DEFINE r == Head(requests[c])
             H == {0} \X Hit(c, r.topic)
  <2>1. r \in OutFrame /\ Tail(requests[c]) \in Seq(OutFrame)
    BY <1>3, HeadTailProperties DEF BrokerServe, Types
  <2>2. Answer(c, r) \in InFrame /\ Hit(c, r.topic) \subseteq Subscriber
    BY <2>1, Answers
  <2>3. H \subseteq Nat \X Subscriber
    BY <2>2
  <2>4. /\ requests' = [requests EXCEPT ![c] = Tail(requests[c])]
        /\ answer' = [answer EXCEPT ![c] = << Answer(c, r) >>]
        /\ found' \in {found, [found EXCEPT ![c] = found[c] \cup H]}
        /\ brokerSubs' = [brokerSubs EXCEPT ![c] =
              IF r.op = "SUB" THEN brokerSubs[c] \cup {r.of}
              ELSE IF r.op = "UNSUB" THEN brokerSubs[c] \ {r.of} ELSE brokerSubs[c]]
    BY <1>3 DEF BrokerServe, Types
  <2> HIDE DEF r, H
  <2>5. Types'
    <3>1. brokerSubs' \in [Conn -> SUBSET Subscriber]
      BY <2>1, <2>4 DEF OutFrame, Types
    <3>2. requests' \in [Conn -> Seq(OutFrame)] /\ answer' \in [Conn -> Seq(InFrame)]
      BY <2>1, <2>2, <2>4 DEF Types
    <3>3. found' \in [Conn -> SUBSET (Nat \X Subscriber)]
      <4> DEFINE P == Nat \X Subscriber
      <4>1. found \in [Conn -> SUBSET P] /\ H \in SUBSET P
        BY <2>3 DEF Types
      <4> HIDE DEF P
      <4>2. found' \in [Conn -> SUBSET P]
        BY <2>4, <4>1
      <4> QED BY <4>2 DEF P
    <3> QED BY <1>3, <3>1, <3>2, <3>3 DEF BrokerServe, Types, appVars, fields, list
  <2>6. ConnectionInv'
    BY <1>0, <1>1, <1>3, <2>4 DEF BrokerServe, ConnectionInv, Types, fields
  <2> QED BY <1>2, <2>5, <2>6
<1>4. CASE BrokerReply(c)
  <2>1. Head(answer[c]) \in InFrame
    BY <1>4, HeadTailProperties DEF BrokerReply, Types
  <2>2. Append(frames[c], Head(answer[c])) \in Seq(InFrame)
    BY <2>1, AppendProperties DEF Types
  <2>3. Types'
    BY <1>4, <2>2 DEF BrokerReply, Types, appVars, fields, list
  <2>4. ConnectionInv'
    BY <1>0, <1>1, <1>4 DEF BrokerReply, ConnectionInv, Types, fields
  <2> QED BY <1>2, <2>3, <2>4
<1>5. CASE BrokerDeliver(c)
  <2>1. PICK d \in found[c] :
           /\ frames' = [frames EXCEPT ![c] = Append(frames[c], [Frame("MSG", d[2], TopicOf[d[2]])
                                                      EXCEPT !.late = d[2] \notin brokerSubs[c]])]
           /\ found' = [found EXCEPT ![c] = found[c] \ {d}]
    BY <1>5 DEF BrokerDeliver, Types
  <2>2. d[2] \in Subscriber
    BY DEF Types
  <2>3. [Frame("MSG", d[2], TopicOf[d[2]]) EXCEPT !.late = d[2] \notin brokerSubs[c]] \in InFrame
    BY <2>2, Sends
  <2>4. frames' \in [Conn -> Seq(InFrame)]
    BY <2>1, <2>3, AppendProperties DEF Types
  <2>5. Types'
    <3>1. found' \in [Conn -> SUBSET (Nat \X Subscriber)]
      <4> DEFINE P == Nat \X Subscriber
      <4>1. found \in [Conn -> SUBSET P]
        BY DEF Types
      <4> HIDE DEF P
      <4>2. found' \in [Conn -> SUBSET P]
        BY <2>1, <4>1
      <4> QED BY <4>2 DEF P
    <3> QED BY <1>5, <2>4, <3>1 DEF BrokerDeliver, Types, appVars, fields, list
  <2>6. ConnectionInv'
    BY <1>0, <1>1, <1>5, <2>1 DEF BrokerDeliver, ConnectionInv, Types, fields
  <2> QED BY <1>2, <2>5, <2>6
<1>6. CASE BrokerPublish(c)
  <2>1. PICK t : found' = [found EXCEPT ![c] = found[c] \cup ({others + 1} \X Hit(c, t))]
    BY <1>6 DEF BrokerPublish, Types
  <2>2. Hit(c, t) \subseteq Subscriber /\ others + 1 \in Nat
    BY DEF Hit, Types
  <2>3. {others + 1} \X Hit(c, t) \subseteq Nat \X Subscriber
    BY <2>2
  <2>4. Types'
    <3>1. found' \in [Conn -> SUBSET (Nat \X Subscriber)]
      BY <2>1, <2>3 DEF Types
    <3> QED BY <1>6, <2>2, <3>1 DEF BrokerPublish, Types, appVars, fields, list
  <2>5. ConnectionInv'
    BY <1>0, <1>1, <1>6, <2>1 DEF BrokerPublish, ConnectionInv, Types, fields
  <2> QED BY <1>2, <2>4, <2>5
<1>7. CASE BrokerClose(c)
  <2>1. Types'
    BY <1>7 DEF BrokerClose, Destroy, Types, appVars, fields, list
  <2>2. ConnectionInv'
    BY <1>0, <1>1, <1>7 DEF BrokerClose, Destroy, ConnectionInv, Types, fields
  <2> QED BY <1>2, <2>1, <2>2
<1> QED BY <1>3, <1>4, <1>5, <1>6, <1>7

-----------------------------------------------------------------------------
(***************************************************************************)
(* As long as calls have not crossed, what waits agrees with what comes.   *)
(***************************************************************************)
\* Types of what is on its way.
LEMMA Ways ==
    ASSUME Plain
    PROVE  /\ Inbox \in Seq(InFrame) /\ Outbox \in Seq(OutFrame) /\ Waiting \in Seq(Handler)
           /\ Due \in Seq(InFrame) /\ Ahead \in 0..1 /\ (Due = <<>> => Ahead = 0)
           /\ Believed \in SUBSET Subscriber /\ Told \in SUBSET Subscriber
           /\ (connection \in open => connection \in Conn)
<1>1. /\ Inbox \in Seq(InFrame) /\ Outbox \in Seq(OutFrame) /\ Due \in Seq(InFrame)
      /\ Ahead \in 0..1 /\ (Due = <<>> => Ahead = 0) /\ (connection \in open => connection \in Conn)
  BY DEF Plain, Types, Inbox, Outbox, Due, Ahead, One
<1>2. CASE app = "enqueue"
  <2>1. asked.h \in Handler
    BY <1>2 DEF Plain, CallInv, Types, Handler
  <2>2. Waiting \in Seq(Handler)
    BY <1>2, <2>1, AppendProperties DEF Plain, Types, Waiting
  <2> QED BY <1>1, <1>2, <2>1, <2>2 DEF Plain, Types, CallInv, Believed, Told
<1>3. CASE app # "enqueue"
  <2>1. Waiting \in Seq(Handler)
    BY <1>3 DEF Plain, Types, Waiting
  <2> QED BY <1>1, <1>3, <2>1 DEF Plain, Types, CallInv, Believed, Told
<1> QED BY <1>2, <1>3

\* The empty case.
LEMMA Nobody ==
    ASSUME NEW W \in Seq(Handler), NEW b \in 0..Len(W), NEW t
    PROVE  /\ Counts(<<>>, W, b, [i \in 0..0 |-> b]) /\ Messages(<<>>, W, [i \in 0..0 |-> b], t)
           /\ \A set \in SUBSET Subscriber : Views(<<>>, set, set, [k \in 0..0 |-> set])
<1> DEFINE d == [i \in 0..0 |-> b]
<1>1. Len(W) \in Nat /\ Len(<<>>) = 0
  BY LenProperties
<1>2. d \in [0..0 -> 0..Len(W)] /\ d[0] = b /\ \A i, j \in 0..0 : d[i] <= d[j]
  BY <1>1
<1>3. ASSUME NEW set \in SUBSET Subscriber
      PROVE  Views(<<>>, set, set, [k \in 0..0 |-> set])
  BY <1>1 DEF Views
<1> HIDE DEF d
<1>4. Counts(<<>>, W, b, d) /\ Messages(<<>>, W, d, t)
  BY <1>1, <1>2 DEF Counts, Messages
<1> QED BY <1>3, <1>4 DEF d

\* Loops keep what they have in their hands.
Keeps(m) ==
    /\ InHand(m)' <=> InHand(m)
    /\ InHand(m) => loop'[m].frame = loop[m].frame
    /\ loop'[m].at = "process" => loop[m].at = "process" /\ loop'[m].frame = loop[m].frame

\* Nothing is sent, taken or answered.
LEMMA Unmoved ==
    ASSUME \A m \in Loop : Keeps(m),
           UNCHANGED <<connection, frames, open, requests, brokerSubs, answer, running>>,
           Waiting' = Waiting, Told' = Told, app = "handshake" => app' = "handshake",
           \E cnt, t : Agree(cnt, t)
    PROVE  (\E cnt, t : Agree(cnt, t))'
<1>1. Base' = Base
  BY DEF Base, Keeps
<1>2. /\ Inbox' = Inbox /\ Outbox' = Outbox /\ Believed' = Believed /\ Due' = Due /\ Ahead' = Ahead
      /\ \A s : Heeds(s)' <=> Heeds(s)
  BY DEF Inbox, Outbox, Believed, Due, Ahead, Heeds
<1>3. PICK cnt, t : Agree(cnt, t)
  OBVIOUS
<1>4. ASSUME NEW l \in Loop, InHand(l)'
      PROVE  loop'[l].frame.op = "OK" /\ Waiting' # <<>> /\ loop'[l].frame.of = Waiting'[1]
  BY <1>3, <1>4 DEF Keeps, Agree
<1>5. ASSUME NEW l \in Loop, loop'[l].at = "process", InTime(loop'[l].frame)
      PROVE  Heeds(loop[l].frame.of)'
  BY <1>2, <1>3, <1>5 DEF Keeps, Agree
<1>6. Agree(cnt, t)'
  BY <1>1, <1>2, <1>3, <1>4, <1>5 DEF Agree
<1> QED BY <1>6

\* A loop that has no reply in its hands goes to another place.
LEMMA Goes ==
    ASSUME Plain, NEW l \in Loop, NEW at \in {"recv", "check", "dead"}, Goto(l, at), ~InHand(l)
    PROVE  /\ \A m \in Loop : Keeps(m)
           /\ loop'[l].at = at /\ \A m \in Loop : m # l => loop'[m] = loop[m]
<1>1. loop'[l].at = at /\ \A m \in Loop : m # l => loop'[m] = loop[m]
  BY DEF Goto, Plain, Types
<1>2. Keeps(l)
  BY <1>1 DEF Keeps, InHand
<1>3. ASSUME NEW m \in Loop, m # l PROVE Keeps(m)
  BY <1>1, <1>3 DEF Keeps, InHand
<1> QED BY <1>1, <1>2, <1>3

\* A loop that is there: connect has returned.
LEMMA NotShaking ==
    ASSUME Calm, NEW l \in Loop, Alive(l)
    PROVE  app # "handshake"
  BY DEF Calm, Shaking

\* startMainLoop: no other loop is there, and nothing is in its hands.
LEMMA CalmStartMainLoop ==
    ASSUME Plain, Calm, StartMainLoop
    PROVE  Calm'
<1>1. PICK l \in Loop : /\ loop[l].at = "none" /\ threadLoop' = l
                        /\ loop' = [loop EXCEPT ![l].at = "check"]
  BY DEF StartMainLoop
<1>2. \A m \in Loop : ~Alive(m)
  <2>1. NONE \notin Loop
    BY JavaAssumption DEF Loop
  <2> QED BY <2>1 DEF Calm, OneLoop, StartMainLoop
<1>3. loop'[l].at = "check" /\ \A m \in Loop : m # l => loop'[m] = loop[m]
  BY <1>1 DEF Plain, Types, LoopState
<1>4. \A m \in Loop : Keeps(m)
  BY <1>1, <1>3 DEF Keeps, InHand
<1>5. UNCHANGED <<app, asked, connection, frames, open, requests, brokerSubs, answer, found, running, subs,
                  pendingReply, size, broken, last>> /\ app = "idle"
  BY DEF StartMainLoop, appVars, list, broker, inside
<1>6. Waiting' = Waiting /\ Told' = Told
  BY <1>5 DEF Waiting, Told
<1>7. (\E cnt, t : Agree(cnt, t))'
  BY <1>4, <1>5, <1>6, Unmoved DEF Calm
<1>8. OneLoop'
  BY <1>1, <1>2, <1>3, <1>5 DEF Calm, OneLoop, Alive
<1> QED BY <1>5, <1>7, <1>8 DEF Calm, Shaking

\* enqueuePendingReply: who is about to wait waits.
LEMMA CalmEnqueue ==
    ASSUME Plain, Calm, Enqueue
    PROVE  Calm'
<1>1. /\ app = "enqueue" /\ pendingReply' = Append(pendingReply, asked.h) /\ size' = size + 1
      /\ AfterEnqueue
      /\ UNCHANGED <<fields, broken, subs, running, loop, broker, disturbed, last>>
  BY DEF Enqueue, Calm, OneLoop
<1>2. asked.h \in Handler /\ asked.op \in {"PUB", "SUB", "UNSUB"}
  BY <1>1 DEF Plain, CallInv, Types, Handler
<1>3. Len(pendingReply') = Len(pendingReply) + 1 /\ pendingReply' # <<>>
  <2>1. pendingReply \in Seq(Handler)
    BY DEF Plain, Types
  <2>2. Len(Append(pendingReply, asked.h)) = Len(pendingReply) + 1 /\ Append(pendingReply, asked.h) # <<>>
    BY <1>2, <2>1, AppendProperties
  <2> QED BY <1>1, <2>2
<1>4. Waiting' = Waiting /\ Told' = Told /\ app' \in {"idle", "table"}
  BY <1>1, <1>2 DEF AfterEnqueue, Waiting, Told
<1>5. \A m \in Loop : Keeps(m)
  BY <1>1 DEF Keeps, InHand
<1>6. (\E cnt, t : Agree(cnt, t))'
  BY <1>1, <1>4, <1>5, Unmoved DEF Calm, fields, broker, inside
<1>7. OneLoop'
  BY <1>1, <1>3 DEF Calm, OneLoop, Alive, fields
<1> QED BY <1>4, <1>6, <1>7 DEF Calm, Shaking

\* subs.put and subs.remove: what the application has asked for is what subs holds.
LEMMA CalmTable ==
    ASSUME Plain, Calm, Table
    PROVE  Calm'
<1>1. /\ app = "table" /\ app' = "idle" /\ asked.op \in {"SUB", "UNSUB"}
      /\ subs' = IF asked.op = "UNSUB" THEN subs \ {asked.h} ELSE subs \cup {asked.h}
      /\ UNCHANGED <<fields, list, running, loop, broker, disturbed, last>>
  BY DEF Table, Plain, CallInv
<1>2. Waiting' = Waiting /\ Told' = Told
  BY <1>1 DEF Waiting, Told, list
<1>3. \A m \in Loop : Keeps(m)
  BY <1>1 DEF Keeps, InHand
<1>4. (\E cnt, t : Agree(cnt, t))'
  BY <1>1, <1>2, <1>3, Unmoved DEF Calm, fields, broker, inside
<1>5. OneLoop'
  BY <1>1 DEF Calm, OneLoop, Alive, fields, list
<1> QED BY <1>1, <1>4, <1>5 DEF Calm, Shaking

\* The main loop goes on without a frame, ends, or has handled a frame that is no
\* reply.
LEMMA CalmGoto ==
    ASSUME Plain, Calm, NEW l \in Loop, Alive(l), ~InHand(l),
           NEW at \in {"recv", "check", "dead"}, Goto(l, at),
           UNCHANGED <<appVars, fields, list, subs, running, broker, disturbed>>,
           last' = NONE \/ last'.op = "MSG" \/ last' = last
    PROVE  Calm'
<1>1. /\ \A m \in Loop : Keeps(m)
      /\ loop'[l].at = at /\ \A m \in Loop : m # l => loop'[m] = loop[m]
  BY Goes
<1>2. Waiting' = Waiting /\ Told' = Told
  BY DEF Waiting, Told, appVars, list
<1>3. (\E cnt, t : Agree(cnt, t))'
  BY <1>1, <1>2, Unmoved DEF Calm, appVars, fields, broker, inside
<1>4. \A m \in Loop : Alive(m)' => Alive(m)
  BY <1>1 DEF Alive
<1>5. \A m \in Loop : loop'[m].at \in {"read", "poll"} => loop'[m] = loop[m]
  BY <1>1
<1>6. OneLoop'
  BY <1>4, <1>5 DEF Calm, OneLoop, fields, list
<1>7. Shaking'
  BY NotShaking DEF Shaking, appVars
<1> QED BY <1>3, <1>6, <1>7 DEF Calm

\* The steps of a main loop that have no reply in their hands.
LEMMA CalmIdleLoop ==
    ASSUME Plain, Calm, NEW l \in Loop,
           LoopCheck(l) \/ (LoopRecv(l) /\ ~isConnected) \/ LoopReadFail(l) \/ LoopMsg(l) \/ LoopOther(l)
    PROVE  Calm'
<1>1. loop[l].at \in {"check", "recv", "read", "process"}
      /\ (loop[l].at = "process" => loop[l].frame.op \in {"MSG", "INFO"})
  BY DEF LoopCheck, LoopRecv, LoopReadFail, LoopMsg, LoopOther
<1>2. Alive(l) /\ ~InHand(l)
  BY <1>1 DEF Alive, InHand, IsReply
<1>3. \E at \in {"recv", "check", "dead"} : Goto(l, at)
  BY DEF LoopCheck, LoopRecv, LoopReadFail, LoopMsg, LoopOther
<1>4. /\ UNCHANGED <<appVars, fields, list, subs, running, broker, disturbed>>
      /\ last'.op = "MSG" \/ last' = last
  BY DEF LoopCheck, LoopRecv, LoopReadFail, LoopMsg, LoopOther, loopOnly
<1> QED BY <1>2, <1>3, <1>4, CalmGoto

\* The loop reads the connection of now, and it is the only loop.
LEMMA CalmLoopRecv ==
    ASSUME Plain, Calm, NEW l \in Loop, LoopRecv(l), isConnected
    PROVE  Calm'
<1>1. /\ loop[l].at = "recv" /\ loop' = [loop EXCEPT ![l].at = "read", ![l].conn = connection]
      /\ UNCHANGED loopOnly
  BY DEF LoopRecv
<1>2. /\ loop'[l].at = "read" /\ loop'[l].conn = connection
      /\ \A m \in Loop : m # l => loop'[m] = loop[m]
  BY <1>1 DEF Plain, Types, LoopState
<1>3. \A m \in Loop : Keeps(m) /\ (Alive(m)' <=> Alive(m))
  <2>1. Keeps(l) /\ (Alive(l)' <=> Alive(l))
    BY <1>1, <1>2 DEF Keeps, InHand, Alive
  <2>2. ASSUME NEW m \in Loop, m # l PROVE Keeps(m) /\ (Alive(m)' <=> Alive(m))
    BY <1>2, <2>2 DEF Keeps, InHand, Alive
  <2> QED BY <2>1, <2>2
<1>4. Waiting' = Waiting /\ Told' = Told
  BY <1>1 DEF Waiting, Told, loopOnly, appVars, list
<1>5. (\E cnt, t : Agree(cnt, t))'
  BY <1>1, <1>3, <1>4, Unmoved DEF Calm, loopOnly, appVars, fields, broker, inside
<1>6. OneLoop'
  BY <1>1, <1>2, <1>3 DEF Calm, OneLoop, loopOnly, fields, list
<1>7. Shaking'
  <2>1. Alive(l)
    BY <1>1 DEF Alive
  <2> QED BY <1>1, <2>1, NotShaking DEF Shaking, loopOnly, appVars
<1> QED BY <1>5, <1>6, <1>7 DEF Calm

\* deliveryReply up to poll: somebody waits.
LEMMA CalmLoopReply ==
    ASSUME Plain, Calm, NEW l \in Loop, LoopReply(l), ~disturbed'
    PROVE  Calm'
<1>1. /\ loop[l].at = "process" /\ loop[l].frame.op \in {"OK", "ERR"} /\ size > 0
      /\ Goto(l, "poll") /\ UNCHANGED <<appVars, fields, list, subs, running, broker, disturbed, last>>
  BY DEF LoopReply
<1>2. /\ loop'[l] = [at |-> "poll", conn |-> NONE, frame |-> loop[l].frame]
      /\ \A m \in Loop : m # l => loop'[m] = loop[m]
  BY <1>1 DEF Goto, Plain, Types
<1>3. \A m \in Loop : Keeps(m) /\ (Alive(m)' <=> Alive(m))
  <2>1. Keeps(l) /\ (Alive(l)' <=> Alive(l))
    BY <1>1, <1>2 DEF Keeps, InHand, Alive, IsReply
  <2>2. ASSUME NEW m \in Loop, m # l PROVE Keeps(m) /\ (Alive(m)' <=> Alive(m))
    BY <1>2, <2>2 DEF Keeps, InHand, Alive
  <2> QED BY <2>1, <2>2
<1>4. Waiting' = Waiting /\ Told' = Told
  BY <1>1 DEF Waiting, Told, appVars, list
<1>5. (\E cnt, t : Agree(cnt, t))'
  BY <1>1, <1>3, <1>4, Unmoved DEF Calm, appVars, fields, broker, inside
<1>6. pendingReply # <<>>
  BY <1>1 DEF Calm, OneLoop
<1>7. OneLoop'
  BY <1>1, <1>2, <1>3, <1>6 DEF Calm, OneLoop, fields, list
<1>8. Shaking'
  <2>1. Alive(l)
    BY <1>1 DEF Alive
  <2> QED BY <1>1, <2>1, NotShaking DEF Shaking, appVars
<1> QED BY <1>5, <1>7, <1>8 DEF Calm

\* There is nobody in the loops: nothing is in their hands.
LEMMA Empty ==
    ASSUME \A l \in Loop : ~Alive(l)
    PROVE  Base = 0 /\ \A l \in Loop : ~InHand(l) /\ loop[l].at # "process"
  BY DEF Alive, InHand, Base

\* connect, with nothing left over: nothing is on its way but CONNECT.
LEMMA CalmConnect ==
    ASSUME Plain, Calm, Connect, ~disturbed'
    PROVE  Calm'
<1> DEFINE n == NextConn
<1>0. Conn \subseteq Nat /\ NONE \notin Conn
  BY JavaAssumption DEF Conn
<1>1. /\ app = "idle" /\ n \in Conn /\ connection' = n /\ app' = "handshake"
      /\ requests' = [requests EXCEPT ![n] = << Frame("CONNECT", NONE, NONE) >>]
      /\ size = 0 /\ subs = {} /\ \A l \in Loop : ~Alive(l)
      /\ UNCHANGED <<list, subs, running, loop, frames, brokerSubs, answer, found, last>>
      /\ n \in open'
  BY DEF Connect, inside
<1>2. frames[n] = <<>> /\ brokerSubs[n] = {} /\ answer[n] = <<>> /\ found[n] = {}
  BY <1>0, <1>1 DEF NextConn, Plain, ConnectionInv, Types
<1> HIDE DEF n
<1>3. pendingReply = <<>>
  <2>1. pendingReply \in Seq(Handler) /\ Len(pendingReply) = 0
    BY <1>1 DEF Calm, OneLoop, Plain, Types
  <2> QED BY <2>1, EmptySeq
<1>4. Believed = {}
  <2>1. PICK cnt, t : Agree(cnt, t)
    BY DEF Calm
  <2>2. Waiting = <<>> /\ Told = {}
    BY <1>1, <1>3 DEF Waiting, Told
  <2> QED BY <2>1, <2>2 DEF Agree, Views
<1>5. /\ Inbox' = <<>> /\ Outbox' = << Frame("CONNECT", NONE, NONE) >> /\ Waiting' = <<>>
      /\ Believed' = {} /\ Told' = {} /\ Due' = <<>> /\ Ahead' = 0
  BY <1>1, <1>2, <1>3, <1>4 DEF Inbox, Outbox, Due, Ahead, Waiting, Believed, Told, list, Plain, Types
<1>6. \A l \in Loop : ~Alive(l)' /\ ~InHand(l)' /\ loop'[l].at # "process"
  BY <1>1, Empty DEF Alive, InHand
<1>7. Base' = 0
  BY <1>6 DEF Base
<1> DEFINE cnt == [i \in 0..0 |-> 0]
           t == [k \in 0..0 |-> {}]
<1>8. <<>> \in Seq(Handler) /\ Len(<<>>) = 0 /\ 0 \in 0..0
  OBVIOUS
<1>9. Counts(<<>>, <<>>, 0, cnt) /\ Messages(<<>>, <<>>, cnt, t) /\ Views(<<>>, {}, {}, t)
  BY <1>8, Nobody
<1>10. t[cnt[0] + 0] = {}
  OBVIOUS
<1> HIDE DEF cnt, t
<1>11. Agree(cnt, t)'
  BY <1>1, <1>2, <1>5, <1>6, <1>7, <1>8, <1>9, <1>10 DEF Agree
<1>12. OneLoop'
  BY <1>1, <1>6 DEF Calm, OneLoop, Alive, list
<1>13. Shaking'
  BY <1>1, <1>2, <1>3, <1>5, <1>6 DEF Shaking, list
<1> QED BY <1>11, <1>12, <1>13 DEF Calm

\* The answer to CONNECT is the only frame.
LEMMA CalmHandshake ==
    ASSUME Plain, Calm, Handshake
    PROVE  Calm'
<1> DEFINE c == connection
<1>1. /\ app = "handshake" /\ app' = "idle" /\ c \in Conn /\ frames[c] # <<>>
      /\ frames' = [frames EXCEPT ![c] = Tail(frames[c])]
      /\ UNCHANGED <<fields, list, subs, running, loop, open, requests, brokerSubs, answer, found, disturbed, last>>
  BY DEF Handshake, Plain, CallInv, ConnectionInv, Types, inside
<1>2. /\ Inbox = << Frame("INFO", NONE, NONE) >> /\ Outbox = <<>> /\ pendingReply = <<>> /\ Due = <<>>
      /\ Inbox = frames[c] /\ \A l \in Loop : ~Alive(l)
  BY <1>1 DEF Calm, Shaking, Inbox
<1>3. /\ Inbox' = <<>> /\ Outbox' = <<>> /\ Waiting' = <<>> /\ Waiting = <<>>
      /\ Believed' = Believed /\ Told' = Told /\ Due' = <<>> /\ Ahead' = 0 /\ Ahead = 0
  <2>1. Tail(<< Frame("INFO", NONE, NONE) >>) = <<>>
    OBVIOUS
  <2> QED BY <1>1, <1>2, <2>1 DEF Inbox, Outbox, Due, Ahead, Waiting, Believed, Told, list, fields, Plain, Types
<1>4. PICK e, t : Agree(e, t)
  BY DEF Calm
<1>5. Len(<< Frame("INFO", NONE, NONE) >>) = 1 /\ Len(<<>>) = 0 /\ <<>> \in Seq(Handler) /\ 0 \in 0..0
  OBVIOUS
<1>6. e[1] = 0
  <2>1. e \in [0..1 -> 0..0]
    BY <1>2, <1>3, <1>4, <1>5 DEF Agree, Counts
  <2> QED BY <2>1
<1>7. Base' = 0 /\ \A l \in Loop : ~InHand(l)' /\ loop'[l].at # "process"
  BY <1>1, <1>2, Empty DEF InHand, Base
<1> DEFINE cnt == [i \in 0..0 |-> 0]
<1>8. Counts(<<>>, <<>>, 0, cnt) /\ Messages(<<>>, <<>>, cnt, t) /\ cnt[0] = 0
  BY <1>5, Nobody
<1> HIDE DEF cnt
<1>9. connection' = connection /\ open' = open /\ brokerSubs' = brokerSubs
  BY <1>1 DEF fields
<1>10. Asks(<<>>, <<>>, 0, t) /\ Owed(<<>>, <<>>, 0) /\ 0 + 0 = 0
  BY <1>5 DEF Asks, Owed
<1>11. Agree(cnt, t)'
  BY <1>1, <1>2, <1>3, <1>4, <1>5, <1>6, <1>7, <1>8, <1>9, <1>10 DEF Agree
<1>12. OneLoop'
  BY <1>1 DEF Calm, OneLoop, Alive, list, fields
<1> QED BY <1>1, <1>11, <1>12 DEF Calm, Shaking

\* close: what has not been read is lost, who waits goes on waiting.
LEMMA CalmClose ==
    ASSUME Plain, Calm, HandshakeFail \/ Close
    PROVE  Calm'
<1> DEFINE c == connection
<1>1. /\ app \in {"idle", "handshake"} /\ app' = "idle" /\ c \in Conn /\ CloseFields
      /\ UNCHANGED <<connection, list, subs, running, loop, disturbed, last>>
  BY DEF HandshakeFail, Close, Plain, CallInv, ConnectionInv, appVars
<1>2. /\ frames' = [frames EXCEPT ![c] = <<>>] /\ c \notin open' /\ isConnected' = FALSE
  BY <1>1 DEF CloseFields, Destroy
<1>3. /\ Inbox' = <<>> /\ Waiting' = Waiting /\ Believed' = Believed /\ Told' = Told /\ Base' = Base
  BY <1>1, <1>2 DEF Inbox, Waiting, Believed, Told, Base, InHand, list, Plain, Types
<1>4. PICK e, t : Agree(e, t)
  BY DEF Calm
<1>5. Waiting \in Seq(Handler) /\ Base \in 0..Len(Waiting)
  <2>1. Inbox \in Seq(InFrame) /\ Waiting \in Seq(Handler)
    BY Ways
  <2>2. 0 \in 0..Len(Inbox)
    BY <2>1, LenProperties
  <2> QED BY <1>4, <2>1, <2>2 DEF Agree, Counts
<1>6. PICK cnt : Counts(<<>>, Waiting, Base, cnt) /\ Messages(<<>>, Waiting, cnt, t)
  BY <1>5, Nobody
<1>9. /\ loop' = loop /\ \A l \in Loop : InHand(l)' <=> InHand(l)
      /\ connection' \notin open' /\ \A s : Heeds(s)' <=> Heeds(s)
  BY <1>1, <1>2, <1>3 DEF InHand, Heeds
<1>10. /\ \A l \in Loop : InHand(l)' => /\ loop'[l].frame.op = "OK" /\ Waiting' # <<>>
                                        /\ loop'[l].frame.of = Waiting'[1]
       /\ \A l \in Loop : loop'[l].at = "process" /\ InTime(loop'[l].frame) =>
                            Heeds(loop[l].frame.of)'
  BY <1>3, <1>4, <1>9 DEF Agree
<1>11. Counts(Inbox', Waiting', Base', cnt) /\ Messages(Inbox', Waiting', cnt, t)
       /\ Views(Waiting', Believed', Told', t)
  BY <1>3, <1>4, <1>6 DEF Agree
<1>7. Agree(cnt, t)'
  BY <1>9, <1>10, <1>11 DEF Agree
<1>8. OneLoop'
  BY <1>1, <1>2 DEF Calm, OneLoop, Alive, list
<1> QED BY <1>1, <1>7, <1>8 DEF Calm, Shaking

\* The broker closes: nothing more is promised about requests.
LEMMA CalmBrokerClose ==
    ASSUME Plain, Calm, NEW c \in Conn, BrokerClose(c)
    PROVE  Calm'
<1>1. /\ c = connection /\ c \notin open'
      /\ UNCHANGED <<appVars, fields, list, subs, running, loop, frames, disturbed, last>>
      /\ brokerSubs'[c] = {} /\ found'[c] = {}
  BY DEF BrokerClose, Destroy, Plain, ConnectionInv, Types
<1>2. /\ Inbox' = Inbox /\ Outbox' = <<>> /\ Waiting' = Waiting /\ Believed' = Believed
      /\ Told' = Told /\ Base' = Base /\ Due' = <<>> /\ \A s : Heeds(s)' <=> Heeds(s)
  BY <1>1 DEF Inbox, Outbox, Due, Waiting, Believed, Told, Base, InHand, Heeds, list, fields, appVars
<1>3. PICK cnt, t : Agree(cnt, t)
  BY DEF Calm
<1>4. Agree(cnt, t)'
  BY <1>1, <1>2, <1>3 DEF Agree, InHand, fields, appVars
<1>5. OneLoop'
  BY <1>1 DEF Calm, OneLoop, Alive, list, fields
<1>6. Shaking'
  BY <1>1, <1>2 DEF Calm, Shaking, Alive, list, fields, appVars
<1> QED BY <1>4, <1>5, <1>6 DEF Calm

\* A request is added for the handler added last.
LEMMA Asked ==
    ASSUME NEW R \in Seq(OutFrame), NEW r \in OutFrame, NEW W \in Seq(Handler), NEW h \in Handler,
           NEW n \in 0..Len(W), NEW t, NEW u, Asks(R, W, n, t),
           \A k \in 0..Len(W) : u[k] = t[k], Suits(r, h, t[Len(W)])
    PROVE  Asks(Append(R, r), Append(W, h), n, u)
<1> DEFINE Q == Append(R, r)
           V == Append(W, h)
           k == Len(R)
           m == Len(W)
<1>1. /\ k \in Nat /\ m \in Nat /\ Len(Q) = k + 1 /\ Len(V) = m + 1
      /\ Q[k + 1] = r /\ V[m + 1] = h
      /\ \A i \in 1..k : Q[i] = R[i]
      /\ \A i \in 1..m : V[i] = W[i]
  BY AppendProperties, LenProperties
<1> HIDE DEF Q, V
<1>2. n + k = m
  BY DEF Asks
<1>3. ASSUME NEW j \in 1 .. k + 1 PROVE Suits(Q[j], V[n + j], u[n + j - 1])
  <2>1. CASE j = k + 1
    <3>0. k \in Nat /\ m \in Nat /\ n \in Nat
      BY <1>1
    <3>1. n + j = m + 1 /\ n + j - 1 = m /\ m \in 0..m
      BY <1>2, <2>1, <3>0
    <3> QED BY <1>1, <2>1, <3>1
  <2>2. CASE j # k + 1
    <3>1. j \in 1..k /\ n + j \in 1..m /\ n + j - 1 \in 0..m
      BY <1>1, <1>2, <2>2
    <3>2. Suits(R[j], W[n + j], t[n + j - 1])
      BY <3>1 DEF Asks
    <3> QED BY <1>1, <3>1, <3>2
  <2> QED BY <2>1, <2>2
<1>4. n + (k + 1) = m + 1
  BY <1>1, <1>2
<1> QED BY <1>1, <1>3, <1>4 DEF Asks, Q, V

\* A request is sent before its handler waits: to the invariant it waits at once.
LEMMA CalmRequest ==
    ASSUME Plain, Calm, NEW op \in {"PUB", "SUB", "UNSUB"}, NEW h \in Handler, Request(op, h),
           op = "PUB" => h \in Publisher, op # "PUB" => h \in Subscriber
    PROVE  Calm'
<1> DEFINE r == Frame(op, h, TopicOf[h])
<1>1. /\ app = "idle" /\ app' = "enqueue" /\ asked' = [op |-> op, h |-> h]
      /\ (op = "SUB" => h \notin subs) /\ (op = "UNSUB" => h \in subs)
      /\ requests' = IF connection \in open
                     THEN [requests EXCEPT ![connection] = Append(requests[connection], r)] ELSE requests
      /\ UNCHANGED <<fields, list, subs, running, loop, open, frames, brokerSubs, answer, found, disturbed, last>>
  BY DEF Request, SendFrame, inside
<1>2. r \in OutFrame /\ Suits(r, h, subs)
  BY <1>1 DEF OutFrame, UsedTopic, Frame, Suits
<1> HIDE DEF r
<1>3. h \in Subscriber <=> op # "PUB"
  BY JavaAssumption
<1>4. /\ Inbox' = Inbox /\ Waiting = pendingReply /\ Waiting' = Append(Waiting, h)
      /\ Believed' = Believed /\ Base' = Base /\ Told = subs /\ Told' = Toggle(Told, h)
      /\ Due' = Due /\ Ahead' = Ahead
  BY <1>1, <1>3 DEF Inbox, Due, Ahead, Waiting, Believed, Base, InHand, Told, Toggle, fields, list
<1>5. /\ Inbox \in Seq(InFrame) /\ Outbox \in Seq(OutFrame) /\ Waiting \in Seq(Handler)
      /\ (connection \in open => connection \in Conn) /\ Due \in Seq(InFrame) /\ Ahead \in 0..1
      /\ (Due = <<>> => Ahead = 0)
  BY Ways
<1>6. connection \in open => Outbox' = Append(Outbox, r)
  BY <1>1, <1>5 DEF Outbox, fields, Plain, Types
<1>7. PICK cnt, t : Agree(cnt, t)
  BY DEF Calm
<1>8. PICK u : /\ Counts(Inbox, Append(Waiting, h), Base, cnt)
               /\ Views(Append(Waiting, h), Believed, Toggle(Told, h), u)
               /\ \A k \in 0..Len(Waiting) : u[k] = t[k]
  BY <1>5, <1>7, WaitsToo DEF Agree
<1>9. \A i \in 0..Len(Inbox) : cnt[i] \in 0..Len(Waiting)
  BY <1>7 DEF Agree, Counts
<1>10. Len(Inbox) \in 0..Len(Inbox) /\ \A i \in 1..Len(Inbox) : i \in 0..Len(Inbox)
  BY <1>5, LenProperties
<1>18. /\ Len(Waiting) \in Nat /\ Len(Append(Waiting, h)) = Len(Waiting) + 1
       /\ \A i \in 1..Len(Waiting) : Append(Waiting, h)[i] = Waiting[i]
  BY <1>5, AppendProperties, LenProperties
<1>19. \A n \in 0..Len(Waiting) : n < Len(Waiting) =>
          n < Len(Waiting) + 1 /\ Append(Waiting, h)[n + 1] = Waiting[n + 1]
  BY <1>18
<1>11. Messages(Inbox, Append(Waiting, h), cnt, u)
  BY <1>7, <1>8, <1>9, <1>10, <1>18, <1>19 DEF Agree, Messages, Awaits
<1>20. ASSUME connection \in open
       PROVE  /\ Owed(Due, Append(Waiting, h), cnt[Len(Inbox)])
              /\ cnt[Len(Inbox)] + Ahead \in 0..Len(Waiting)
  <2>1. Owed(Due, Waiting, cnt[Len(Inbox)]) /\ cnt[Len(Inbox)] \in 0..Len(Waiting)
    BY <1>1, <1>7, <1>9, <1>10, <1>20 DEF Agree
  <2>2. Owed(Due, Append(Waiting, h), cnt[Len(Inbox)])
    BY <1>18, <1>19, <2>1 DEF Owed
  <2>3. Due # <<>> => cnt[Len(Inbox)] < Len(Waiting)
    BY <2>1 DEF Owed
  <2> QED BY <1>5, <1>18, <2>1, <2>2, <2>3
<1>12. connection \in open => Asks(Append(Outbox, r), Append(Waiting, h), cnt[Len(Inbox)] + Ahead, u)
  <2>1. t[Len(Waiting)] = subs
    BY <1>4, <1>7 DEF Agree, Views
  <2>2. connection \in open => Asks(Outbox, Waiting, cnt[Len(Inbox)] + Ahead, t)
    BY <1>1, <1>7 DEF Agree
  <2> QED BY <1>2, <1>5, <1>8, <1>20, <2>1, <2>2, Asked
<1>13. ASSUME NEW l \in Loop, InHand(l)'
       PROVE  loop'[l].frame.op = "OK" /\ Waiting' # <<>> /\ loop'[l].frame.of = Waiting'[1]
  <2>1. loop[l].frame.op = "OK" /\ Waiting # <<>> /\ loop[l].frame.of = Waiting[1] /\ loop' = loop
    BY <1>1, <1>7, <1>13 DEF Agree, InHand
  <2>2. 1 \in 1..Len(Waiting)
    BY <1>5, <2>1, LenProperties, EmptySeq
  <2> QED BY <1>4, <1>5, <2>1, <2>2, AppendProperties
<1>14. connection \in open => u[cnt[Len(Inbox)] + Ahead] = t[cnt[Len(Inbox)] + Ahead]
  BY <1>8, <1>20
<1>15. ASSUME NEW l \in Loop, loop'[l].at = "process", InTime(loop'[l].frame)
       PROVE  Heeds(loop[l].frame.of)'
  <2>1. loop' = loop /\ Heeds(loop[l].frame.of)
    BY <1>1, <1>7, <1>15 DEF Agree
  <2>2. Waiting # <<>> => Append(Waiting, h) # <<>> /\ Append(Waiting, h)[1] = Waiting[1]
    <3>1. Waiting # <<>> => 1 \in 1..Len(Waiting)
      BY <1>5, LenProperties, EmptySeq
    <3> QED BY <1>5, <1>18, <3>1, AppendProperties
  <2> QED BY <1>4, <2>1, <2>2 DEF Heeds
<1>16. Agree(cnt, u)'
  <2>1. Counts(Inbox', Waiting', Base', cnt) /\ Views(Waiting', Believed', Told', u)
        /\ Messages(Inbox', Waiting', cnt, u)
    BY <1>4, <1>8, <1>11
  <2>2. connection' = connection /\ open' = open /\ brokerSubs' = brokerSubs
    BY <1>1 DEF fields
  <2>3. connection \in open => brokerSubs[connection] = u[cnt[Len(Inbox)] + Ahead]
    BY <1>7, <1>14 DEF Agree
  <2>4. connection \in open => /\ Owed(Due', Waiting', cnt[Len(Inbox)])
                               /\ Asks(Outbox', Waiting', cnt[Len(Inbox)] + Ahead, u)
    BY <1>4, <1>6, <1>12, <1>20
  <2> QED BY <1>4, <1>13, <1>15, <2>1, <2>2, <2>3, <2>4 DEF Agree
<1>17. OneLoop'
  BY <1>1 DEF Calm, OneLoop, Alive, list, fields
<1> QED BY <1>1, <1>16, <1>17 DEF Calm, Shaking

\* A loop takes the next frame; a reply is for the handler that waits longest.
LEMMA CalmLoopRead ==
    ASSUME Plain, Calm, NEW l \in Loop, LoopRead(l)
    PROVE  Calm'
<1> DEFINE c == connection
           f == Head(Inbox)
<1>1. /\ loop[l].at = "read" /\ loop[l].conn = c /\ c \in Conn /\ frames[c] # <<>> /\ Inbox = frames[c]
      /\ UNCHANGED <<appVars, fields, list, subs, running, open, requests, brokerSubs, answer, found, disturbed, last>>
  BY DEF LoopRead, Calm, OneLoop, Plain, LoopInv, Inbox, inside
<1>2. /\ loop' = [loop EXCEPT ![l] = [at |-> "process", conn |-> NONE, frame |-> f]]
      /\ frames' = [frames EXCEPT ![c] = Tail(Inbox)]
  BY <1>1 DEF LoopRead, Plain, Types, inside
<1>3. Alive(l) /\ ~InHand(l) /\ \A m \in Loop : m # l => ~Alive(m) /\ ~InHand(m)
  BY <1>1 DEF Alive, InHand, Calm, OneLoop
<1>4. Base = 0
  BY <1>3 DEF Base
<1>5. /\ loop'[l].at = "process" /\ loop'[l].frame = f
      /\ \A m \in Loop : m # l => loop'[m] = loop[m]
  BY <1>2 DEF Plain, Types
<1>6. /\ Inbox' = Tail(Inbox) /\ Outbox' = Outbox /\ Waiting' = Waiting
      /\ Believed' = Believed /\ Told' = Told /\ Due' = Due /\ Ahead' = Ahead
      /\ \A s : Heeds(s)' <=> Heeds(s)
  BY <1>1, <1>2 DEF Inbox, Outbox, Due, Ahead, Heeds, Waiting, Believed, Told, list, fields, appVars, Plain, Types
<1>7. \A m \in Loop : InHand(m)' <=> m = l /\ IsReply(f)
  <2>1. InHand(l)' <=> IsReply(f)
    BY <1>5 DEF InHand
  <2>2. ASSUME NEW m \in Loop, m # l PROVE ~InHand(m)'
    BY <1>3, <1>5, <2>2 DEF InHand
  <2> QED BY <2>1, <2>2
<1>8. Base' = One(f)
  BY <1>7 DEF Base, One
<1>9. PICK cnt, t : Agree(cnt, t)
  BY DEF Calm
<1>10. Inbox \in Seq(InFrame) /\ Inbox # <<>> /\ Waiting \in Seq(Handler)
  BY <1>1, Ways
<1>11. PICK d : /\ Counts(Tail(Inbox), Waiting, One(f), d) /\ Messages(Tail(Inbox), Waiting, d, t)
                /\ d[Len(Tail(Inbox))] = cnt[Len(Inbox)]
  BY <1>4, <1>9, <1>10, Taken DEF Agree
<1>12. 1 \in 1..Len(Inbox) /\ 1 \in 0..Len(Inbox) /\ f = Inbox[1] /\ 1 - 1 = 0
  BY <1>10, HeadTailProperties, EmptySeq, LenProperties
<1>13. /\ cnt[1] = 0 + One(f) /\ cnt[1] \in 0..Len(Waiting) /\ f.op # "ERR"
       /\ (IsReply(f) => f.of = Waiting[cnt[1]]) /\ t[0] = Believed
       /\ (InTime(f) => Awaits(f.of, Waiting, cnt[1], t))
  BY <1>4, <1>9, <1>12 DEF Agree, Counts, Messages, Views
<1>14. IsReply(f) => f.op = "OK" /\ Waiting # <<>> /\ f.of = Waiting[1]
  <2> SUFFICES ASSUME IsReply(f) PROVE f.op = "OK" /\ Waiting # <<>> /\ f.of = Waiting[1]
    OBVIOUS
  <2>1. cnt[1] = 1
    BY <1>13 DEF One
  <2>2. Waiting # <<>>
    BY <1>10, <1>13, <2>1
  <2> QED BY <1>13, <2>1, <2>2 DEF IsReply
<1>15. InTime(f) => Heeds(f.of)
  <2> SUFFICES ASSUME InTime(f) PROVE Heeds(f.of)
    OBVIOUS
  <2>1. cnt[1] = 0
    BY <1>13 DEF One, IsReply, InTime
  <2>2. f.of \in Believed \/ (0 < Len(Waiting) /\ Waiting[0 + 1] = f.of)
    BY <1>13, <2>1 DEF Awaits
  <2>3. 0 < Len(Waiting) => Waiting # <<>>
    OBVIOUS
  <2> QED BY <2>2, <2>3 DEF Heeds
<1> HIDE DEF f
<1>16. Agree(d, t)'
  <2>1. Counts(Inbox', Waiting', Base', d) /\ Messages(Inbox', Waiting', d, t) /\ Views(Waiting', Believed', Told', t)
    BY <1>6, <1>8, <1>9, <1>11 DEF Agree
  <2>2. \A m \in Loop : InHand(m)' => /\ loop'[m].frame.op = "OK" /\ Waiting' # <<>>
                                      /\ loop'[m].frame.of = Waiting'[1]
    BY <1>5, <1>6, <1>7, <1>14
  <2>3. \A m \in Loop : loop'[m].at = "process" /\ InTime(loop'[m].frame) =>
                           Heeds(loop[m].frame.of)'
    BY <1>3, <1>5, <1>6, <1>15 DEF Alive
  <2>4. connection' = connection /\ open' = open /\ brokerSubs' = brokerSubs /\ app' = app
    BY <1>1 DEF fields, appVars
  <2>5. /\ connection \in open => brokerSubs[connection] = t[d[Len(Inbox')] + Ahead']
        /\ connection \in open /\ app # "handshake" =>
              Owed(Due', Waiting', d[Len(Inbox')]) /\ Asks(Outbox', Waiting', d[Len(Inbox')] + Ahead', t)
    BY <1>6, <1>9, <1>11 DEF Agree
  <2> QED BY <2>1, <2>2, <2>3, <2>4, <2>5 DEF Agree
<1>17. OneLoop'
  <2>1. \A m \in Loop : Alive(m)' => m = l
    BY <1>3, <1>5 DEF Alive
  <2>2. \A m \in Loop : loop'[m].at \notin {"read", "poll"}
    BY <1>3, <1>5 DEF Alive
  <2>3. isConnected => l = threadLoop
    BY <1>3 DEF Calm, OneLoop
  <2> QED BY <1>1, <2>1, <2>2, <2>3 DEF Calm, OneLoop, list, fields
<1>18. Shaking'
  BY <1>1, <1>3, NotShaking DEF Shaking, appVars
<1> QED BY <1>16, <1>17, <1>18 DEF Calm

\* The reply is given to the handler that has waited longest, who changes its mind.
LEMMA CalmLoopPoll ==
    ASSUME Plain, Calm, NEW l \in Loop, LoopPoll(l)
    PROVE  Calm'
<1> DEFINE h == Head(Waiting)
<1>1. /\ loop[l].at = "poll" /\ pendingReply # <<>> /\ pendingReply' = Tail(pendingReply) /\ size' = size - 1
      /\ Deliver(l, Head(pendingReply))
      /\ UNCHANGED <<appVars, fields, broken, subs, broker, disturbed>>
  BY DEF LoopPoll, Calm, OneLoop, First, Rest
<1>2. pendingReply \in Seq(Handler) /\ NONE \notin Handler
  BY JavaAssumption DEF Plain, Types
<1>3. /\ Head(pendingReply) \in Handler /\ Tail(pendingReply) \in Seq(Handler)
      /\ Len(Tail(pendingReply)) = Len(pendingReply) - 1
  BY <1>1, <1>2, HeadTailProperties
<1>4. Alive(l) /\ InHand(l) /\ \A m \in Loop : m # l => ~Alive(m)
  <2>1. Alive(l) /\ InHand(l)
    BY <1>1 DEF Alive, InHand, IsReply, Plain, LoopInv
  <2> QED BY <2>1 DEF Calm, OneLoop
<1>5. Base = 1
  BY <1>4 DEF Base
<1>6. PICK cnt, t : Agree(cnt, t)
  BY DEF Calm
<1>7. /\ h = Head(pendingReply) /\ Waiting' = Tail(Waiting) /\ Waiting # <<>> /\ Waiting \in Seq(Handler)
  <2>1. CASE app = "enqueue"
    <3>1. asked.h \in Handler
      BY <2>1 DEF Plain, CallInv, Types, Handler
    <3>2. /\ Head(Append(pendingReply, asked.h)) = Head(pendingReply)
          /\ Tail(Append(pendingReply, asked.h)) = Append(Tail(pendingReply), asked.h)
      BY <1>1, <1>2, <3>1, HeadTailAppend
    <3>3. Append(pendingReply, asked.h) # <<>> /\ Append(pendingReply, asked.h) \in Seq(Handler)
      BY <1>2, <3>1, AppendProperties
    <3> QED BY <1>1, <2>1, <3>2, <3>3 DEF Waiting, appVars
  <2>2. CASE app # "enqueue"
    BY <1>1, <1>2, <2>2 DEF Waiting, appVars
  <2> QED BY <2>1, <2>2
<1>8. h = Waiting[1]
  BY <1>7, HeadTailProperties
<1>9. loop[l].frame.op = "OK" /\ loop[l].frame.of = h
  BY <1>4, <1>6, <1>8 DEF Agree
<1>10. /\ Goto(l, "check") /\ running' = [running EXCEPT ![h] = (h \in Subscriber => ~running[h])]
       /\ last' = [op |-> "OK", of |-> h, to |-> h] /\ h \in Handler
  BY <1>1, <1>2, <1>3, <1>7, <1>9 DEF Deliver, Replied
<1> HIDE DEF h
<1>11. Believed' = Toggle(Believed, h)
  <2>1. CASE h \in Subscriber
    BY <1>10, <2>1 DEF Believed, Toggle, Plain, Types, Handler
  <2>2. CASE h \notin Subscriber
    BY <1>10, <2>2 DEF Believed, Toggle, Plain, Types, Handler
  <2> QED BY <2>1, <2>2
<1>12. loop'[l].at = "check" /\ \A m \in Loop : m # l => loop'[m] = loop[m]
  BY <1>10 DEF Goto, Plain, Types
<1>13. \A m \in Loop : ~InHand(m)' /\ loop'[m].at \notin {"process", "read", "poll"}
  BY <1>4, <1>12 DEF InHand, Alive
<1>14. /\ Base' = 0 /\ Inbox' = Inbox /\ Outbox' = Outbox /\ Told' = Told
       /\ Due' = Due /\ Ahead' = Ahead
  BY <1>1, <1>13 DEF Base, Inbox, Outbox, Due, Ahead, Told, broker, fields, appVars, inside
<1>15. /\ Inbox \in Seq(InFrame) /\ Outbox \in Seq(OutFrame) /\ Due \in Seq(InFrame)
       /\ Ahead \in 0..1 /\ (Due = <<>> => Ahead = 0)
  BY Ways
<1>16. PICK d, u : /\ Counts(Inbox, Tail(Waiting), 0, d) /\ Messages(Inbox, Tail(Waiting), d, u)
                   /\ Views(Tail(Waiting), Toggle(Believed, h), Told, u)
                   /\ Owed(Due, Waiting, cnt[Len(Inbox)]) => Owed(Due, Tail(Waiting), d[Len(Inbox)])
                   /\ \A a \in 0..1 : cnt[Len(Inbox)] + a <= Len(Waiting) =>
                         /\ u[d[Len(Inbox)] + a] = t[cnt[Len(Inbox)] + a]
                         /\ Asks(Outbox, Waiting, cnt[Len(Inbox)] + a, t) =>
                               Asks(Outbox, Tail(Waiting), d[Len(Inbox)] + a, u)
  BY <1>5, <1>6, <1>7, <1>15, Given DEF Agree, h
<1>20. connection \in open => /\ Owed(Due, Waiting, cnt[Len(Inbox)])
                              /\ cnt[Len(Inbox)] + Ahead <= Len(Waiting)
  <2>1. app # "handshake"
    BY <1>4, NotShaking
  <2>2. cnt[Len(Inbox)] \in 0..Len(Waiting)
    <3>1. Len(Inbox) \in 0..Len(Inbox)
      BY <1>15, LenProperties
    <3> QED BY <1>6, <3>1 DEF Agree, Counts
  <2>3. connection \in open => Owed(Due, Waiting, cnt[Len(Inbox)])
    BY <1>6, <2>1 DEF Agree
  <2>4. connection \in open /\ Due # <<>> => cnt[Len(Inbox)] < Len(Waiting)
    BY <2>3 DEF Owed
  <2>5. Len(Waiting) \in Nat
    BY <1>7, LenProperties
  <2> QED BY <1>15, <2>2, <2>3, <2>4, <2>5
<1>17. Agree(d, u)'
  <2>1. Counts(Inbox', Waiting', Base', d) /\ Messages(Inbox', Waiting', d, u) /\ Views(Waiting', Believed', Told', u)
    BY <1>7, <1>11, <1>14, <1>16
  <2>2. connection' = connection /\ open' = open /\ brokerSubs' = brokerSubs /\ app' = app
    BY <1>1 DEF fields, appVars, broker, inside
  <2>3. ASSUME connection \in open
        PROVE  /\ brokerSubs[connection] = u[d[Len(Inbox)] + Ahead]
               /\ Owed(Due, Tail(Waiting), d[Len(Inbox)])
               /\ app # "handshake" => Asks(Outbox, Tail(Waiting), d[Len(Inbox)] + Ahead, u)
    <3>1. /\ u[d[Len(Inbox)] + Ahead] = t[cnt[Len(Inbox)] + Ahead]
          /\ Asks(Outbox, Waiting, cnt[Len(Inbox)] + Ahead, t) =>
                Asks(Outbox, Tail(Waiting), d[Len(Inbox)] + Ahead, u)
      BY <1>15, <1>16, <1>20, <2>3
    <3> QED BY <1>6, <1>16, <1>20, <2>3, <3>1 DEF Agree
  <2> QED BY <1>7, <1>13, <1>14, <2>1, <2>2, <2>3 DEF Agree
<1>18. OneLoop'
  <2>1. \A m \in Loop : Alive(m)' => m = l
    BY <1>4, <1>12 DEF Alive
  <2>2. isConnected => l = threadLoop
    BY <1>4 DEF Calm, OneLoop
  <2> QED BY <1>1, <1>3, <1>10, <1>13, <2>1, <2>2 DEF Calm, OneLoop, fields
<1>19. Shaking'
  BY <1>1, <1>4, NotShaking DEF Shaking, appVars
<1> QED BY <1>17, <1>18, <1>19 DEF Calm

\* The broker has answered the first request.
LEMMA Served ==
    ASSUME NEW R \in Seq(OutFrame), R # <<>>, NEW W \in Seq(Handler), NEW n \in 0..Len(W), NEW t,
           Asks(R, W, n, t)
    PROVE  /\ n < Len(W) /\ n + 1 \in 1..Len(W) /\ Suits(Head(R), W[n + 1], t[n])
           /\ Asks(Tail(R), W, n + 1, t)
<1> DEFINE Q == Tail(R)
           k == Len(R)
           m == Len(W)
<1>1. /\ k \in Nat \ {0} /\ m \in Nat /\ Len(Q) = k - 1 /\ Head(R) = R[1]
      /\ \A i \in 1 .. k - 1 : Q[i] = R[i + 1]
  BY HeadTailProperties, EmptySeq, LenProperties
<1> HIDE DEF Q
<1>2. n + k = m
  BY DEF Asks
<1>3. n < m /\ n + 1 \in 1..m /\ 1 \in 1..k /\ n + 1 - 1 = n
  BY <1>1, <1>2
<1>4. Suits(R[1], W[n + 1], t[n])
  <2>1. Suits(R[1], W[n + 1], t[n + 1 - 1])
    BY <1>3 DEF Asks
  <2> QED BY <1>3, <2>1
<1>5. ASSUME NEW j \in 1 .. k - 1 PROVE Suits(Q[j], W[(n + 1) + j], t[(n + 1) + j - 1])
  <2>1. j + 1 \in 1..k /\ n + (j + 1) = (n + 1) + j /\ n + (j + 1) - 1 = (n + 1) + j - 1
    BY <1>1
  <2>2. Suits(R[j + 1], W[n + (j + 1)], t[n + (j + 1) - 1])
    BY <2>1 DEF Asks
  <2> QED BY <1>1, <2>1, <2>2
<1>6. (n + 1) + (k - 1) = m
  BY <1>1, <1>2
<1> QED BY <1>1, <1>3, <1>4, <1>5, <1>6 DEF Asks, Q

\* What the broker's threads leave alone.
LEMMA Stays ==
    ASSUME Plain, Calm, NEW c \in Conn, c = connection, c \in open,
           UNCHANGED <<appVars, fields, list, subs, running, loop, open, disturbed, last>>
    PROVE  /\ Inbox = frames[c] /\ Inbox' = frames'[c] /\ Outbox = requests[c] /\ Outbox' = requests'[c]
           /\ Due = answer[c] /\ Due' = answer'[c]
           /\ Waiting' = Waiting /\ Believed' = Believed /\ Told' = Told /\ Base' = Base /\ OneLoop'
           /\ connection' = connection /\ connection' \in open' /\ app' = app
           /\ \A l \in Loop : (InHand(l)' <=> InHand(l)) /\ loop'[l] = loop[l]
           /\ \A s : Heeds(s)' <=> Heeds(s)
<1>1. /\ Inbox = frames[c] /\ Inbox' = frames'[c] /\ Outbox = requests[c] /\ Outbox' = requests'[c]
      /\ Due = answer[c] /\ Due' = answer'[c]
  BY DEF Inbox, Outbox, Due, fields
<1>2. /\ Waiting' = Waiting /\ Believed' = Believed /\ Told' = Told /\ Base' = Base
      /\ \A l \in Loop : (InHand(l)' <=> InHand(l)) /\ loop'[l] = loop[l]
      /\ \A s : Heeds(s)' <=> Heeds(s)
  BY DEF Waiting, Believed, Told, Base, InHand, Heeds, appVars, list
<1>3. OneLoop'
  BY DEF Calm, OneLoop, Alive, fields, list
<1> QED BY <1>1, <1>2, <1>3 DEF fields, appVars

\* What the agreement needs after a step of the broker's threads.
LEMMA StillAgree ==
    ASSUME Plain, Calm, NEW c \in Conn, c = connection, c \in open,
           UNCHANGED <<appVars, fields, list, subs, running, loop, open, disturbed, last>>,
           NEW cnt, NEW t, Agree(cnt, t), NEW d,
           Counts(frames'[c], Waiting, Base, d), Messages(frames'[c], Waiting, d, t),
           brokerSubs'[c] = t[d[Len(frames'[c])] + Ahead'],
           app # "handshake" => /\ Owed(answer'[c], Waiting, d[Len(frames'[c])])
                                /\ Asks(requests'[c], Waiting, d[Len(frames'[c])] + Ahead', t)
    PROVE  Agree(d, t)'
<1>1. /\ Inbox' = frames'[c] /\ Outbox' = requests'[c] /\ Due' = answer'[c]
      /\ Waiting' = Waiting /\ Believed' = Believed /\ Told' = Told /\ Base' = Base
      /\ connection' = connection /\ app' = app
      /\ \A l \in Loop : (InHand(l)' <=> InHand(l)) /\ loop'[l] = loop[l]
      /\ \A s : Heeds(s)' <=> Heeds(s)
  BY Stays
<1>2. Counts(Inbox', Waiting', Base', d) /\ Messages(Inbox', Waiting', d, t) /\ Views(Waiting', Believed', Told', t)
  BY <1>1 DEF Agree
<1>3. /\ \A l \in Loop : InHand(l)' => /\ loop'[l].frame.op = "OK" /\ Waiting' # <<>>
                                       /\ loop'[l].frame.of = Waiting'[1]
      /\ \A l \in Loop : loop'[l].at = "process" /\ InTime(loop'[l].frame) => Heeds(loop[l].frame.of)'
  BY <1>1 DEF Agree
<1> QED BY <1>1, <1>2, <1>3 DEF Agree

\* The number of replies that have come or are due.
LEMMA Counted ==
    ASSUME Plain, Calm, NEW cnt, NEW t, Agree(cnt, t), connection \in open
    PROVE  LET n == cnt[Len(Inbox)]
           IN /\ n \in 0..Len(Waiting) /\ Len(Waiting) \in Nat /\ n + 0 = n
              /\ app # "handshake" /\ Due # <<>> =>
                    Ahead = 1 /\ n + 1 \in 1..Len(Waiting) /\ t[n + 1] = Toggle(t[n], Waiting[n + 1])
<1> DEFINE n == cnt[Len(Inbox)]
<1>1. Inbox \in Seq(InFrame) /\ Waiting \in Seq(Handler)
  BY Ways
<1>2. Len(Inbox) \in 0..Len(Inbox) /\ Len(Waiting) \in Nat
  BY <1>1, LenProperties
<1>3. n \in 0..Len(Waiting)
  BY <1>2 DEF Agree, Counts
<1> HIDE DEF n
<1>4. n + 0 = n
  BY <1>3
<1>5. ASSUME app # "handshake", Due # <<>>
      PROVE  Ahead = 1 /\ n + 1 \in 1..Len(Waiting) /\ t[n + 1] = Toggle(t[n], Waiting[n + 1])
  <2>1. Owed(Due, Waiting, n)
    BY <1>5 DEF Agree, n
  <2>2. Due[1].op = "OK" /\ n < Len(Waiting)
    BY <1>5, <2>1 DEF Owed
  <2>3. Ahead = 1
    BY <1>5, <2>2 DEF Ahead, One, IsReply
  <2>4. PICK k \in 1..Len(Waiting) : k = n + 1 /\ k - 1 = n
    BY <1>2, <1>3, <2>2
  <2>5. t[k] = Toggle(t[k - 1], Waiting[k])
    BY DEF Agree, Views
  <2> QED BY <2>3, <2>4, <2>5
<1> QED BY <1>2, <1>3, <1>4, <1>5 DEF n

\* A copy is taken: nothing is sent yet.
LEMMA CalmBrokerPublish ==
    ASSUME Plain, Calm, NEW c \in Conn, BrokerPublish(c)
    PROVE  Calm'
<1>1. /\ c \in open /\ c = connection /\ brokerSubs[c] # {}
      /\ UNCHANGED <<appVars, fields, list, subs, running, loop, open, requests, frames, brokerSubs, answer,
                     disturbed, last>>
  BY DEF BrokerPublish, Hit, Plain, ConnectionInv
<1>2. app # "handshake" /\ app' = app
  BY <1>1 DEF Calm, Shaking, appVars
<1>3. Waiting' = Waiting /\ Told' = Told /\ \A m \in Loop : Keeps(m)
  BY <1>1 DEF Waiting, Told, Keeps, InHand, appVars, list
<1>4. (\E cnt, t : Agree(cnt, t))'
  BY <1>1, <1>2, <1>3, Unmoved DEF Calm, fields
<1>5. OneLoop' /\ Shaking'
  BY <1>1, <1>2 DEF Calm, OneLoop, Shaking, Alive, fields, list
<1> QED BY <1>4, <1>5 DEF Calm

\* A message that is sent in time is for somebody who will believe to be
\* subscribed when it comes, or is told so next.
LEMMA CalmBrokerDeliver ==
    ASSUME Plain, Calm, NEW c \in Conn, BrokerDeliver(c)
    PROVE  Calm'
<1>1. /\ c \in open /\ c = connection /\ found[c] # {}
      /\ UNCHANGED <<appVars, fields, list, subs, running, loop, open, requests, brokerSubs, answer,
                     disturbed, last>>
  BY DEF BrokerDeliver, Plain, ConnectionInv
<1>2. PICK e \in found[c] :
         frames' = [frames EXCEPT ![c] = Append(frames[c], [Frame("MSG", e[2], TopicOf[e[2]])
                                             EXCEPT !.late = e[2] \notin brokerSubs[c]])]
  BY DEF BrokerDeliver, Plain, Types
<1>3. e[2] \in Subscriber
  BY DEF Plain, Types
<1>4. PICK f \in InFrame : /\ frames' = [frames EXCEPT ![c] = Append(frames[c], f)]
                           /\ f.op = "MSG" /\ (InTime(f) => f.of \in brokerSubs[c])
  <2> DEFINE b == e[2] \notin brokerSubs[c]
             g == [Frame("MSG", e[2], TopicOf[e[2]]) EXCEPT !.late = b]
  <2>1. b \in BOOLEAN
    OBVIOUS
  <2>2. g \in InFrame /\ g.op = "MSG" /\ g.of = e[2] /\ (InTime(g) => ~b)
    <3> HIDE DEF b
    <3> QED BY <1>3, <2>1, Sends
  <2>3. frames' = [frames EXCEPT ![c] = Append(frames[c], g)]
    BY <1>2
  <2>4. ~b => e[2] \in brokerSubs[c]
    OBVIOUS
  <2> HIDE DEF b, g
  <2> QED BY <2>2, <2>3, <2>4
<1>5. app # "handshake"
  BY <1>1 DEF Calm, Shaking
<1>6. /\ Inbox = frames[c] /\ Due = answer[c] /\ Due' = Due /\ Outbox = requests[c]
      /\ OneLoop' /\ app' = app /\ frames'[c] = Append(Inbox, f) /\ Ahead' = Ahead
  <2>1. /\ Inbox = frames[c] /\ Due = answer[c] /\ Due' = answer'[c] /\ Outbox = requests[c]
        /\ OneLoop' /\ app' = app
    BY <1>1, Stays
  <2>2. Due' = Due /\ frames'[c] = Append(Inbox, f)
    BY <1>1, <1>4, <2>1 DEF Plain, Types
  <2> QED BY <2>1, <2>2 DEF Ahead
<1>7. PICK cnt, t : Agree(cnt, t)
  BY DEF Calm
<1> DEFINE n == cnt[Len(Inbox)]
<1>8. /\ Inbox \in Seq(InFrame) /\ Waiting \in Seq(Handler) /\ (Due = <<>> => Ahead = 0)
  BY Ways
<1>9. /\ n \in 0..Len(Waiting) /\ Len(Waiting) \in Nat /\ n + 0 = n
      /\ Due # <<>> => Ahead = 1 /\ n + 1 \in 1..Len(Waiting) /\ t[n + 1] = Toggle(t[n], Waiting[n + 1])
  BY <1>1, <1>5, <1>7, Counted
<1>10. brokerSubs[c] = t[n + Ahead]
  BY <1>1, <1>7 DEF Agree
<1> HIDE DEF n
<1>11. ASSUME InTime(f) PROVE Awaits(f.of, Waiting, n, t)
  <2>1. f.of \in t[n + Ahead]
    BY <1>4, <1>10, <1>11
  <2>2. CASE Due = <<>>
    BY <1>8, <1>9, <2>1, <2>2 DEF Awaits
  <2>3. CASE Due # <<>>
    <3>1. f.of \in Toggle(t[n], Waiting[n + 1]) /\ n < Len(Waiting)
      BY <1>9, <2>1, <2>3
    <3>2. f.of \in t[n] \/ f.of = Waiting[n + 1]
      BY <3>1 DEF Toggle
    <3> QED BY <3>1, <3>2 DEF Awaits
  <2> QED BY <2>2, <2>3
<1>12. PICK d : /\ Counts(Append(Inbox, f), Waiting, Base, d) /\ Messages(Append(Inbox, f), Waiting, d, t)
                /\ d[Len(Append(Inbox, f))] = n
  <2>1. f.op # "ERR" /\ ~IsReply(f) /\ One(f) = 0
    BY <1>4 DEF IsReply, One
  <2>2. Counts(Inbox, Waiting, Base, cnt) /\ Messages(Inbox, Waiting, cnt, t)
    BY <1>7 DEF Agree
  <2>3. \E d : /\ Counts(Append(Inbox, f), Waiting, Base, d) /\ Messages(Append(Inbox, f), Waiting, d, t)
               /\ d[Len(Append(Inbox, f))] = cnt[Len(Inbox)] + One(f)
    <3>1. FitsIn(f, Waiting, cnt[Len(Inbox)], t)
      BY <1>11, <2>1 DEF n, FitsIn
    <3>2. Inbox \in Seq(InFrame) /\ Waiting \in Seq(Handler) /\ f \in InFrame
      BY <1>8
    <3> QED BY <2>2, <3>1, <3>2, Arrived
  <2>4. cnt[Len(Inbox)] + One(f) = n
    BY <1>9, <2>1 DEF n
  <2> QED BY <2>3, <2>4
<1>13. Agree(d, t)'
  <2>1. Owed(Due, Waiting, n) /\ Asks(Outbox, Waiting, n + Ahead, t)
    BY <1>1, <1>5, <1>7 DEF Agree, n
  <2>2. brokerSubs' = brokerSubs /\ answer' = answer /\ requests' = requests
    BY <1>1
  <2>3. /\ Counts(frames'[c], Waiting, Base, d) /\ Messages(frames'[c], Waiting, d, t)
        /\ brokerSubs'[c] = t[d[Len(frames'[c])] + Ahead']
        /\ Owed(answer'[c], Waiting, d[Len(frames'[c])])
        /\ Asks(requests'[c], Waiting, d[Len(frames'[c])] + Ahead', t)
    BY <1>6, <1>10, <1>12, <2>1, <2>2
  <2> QED BY <1>1, <1>7, <2>3, StillAgree
<1>14. Shaking'
  BY <1>5, <1>6 DEF Shaking
<1> QED BY <1>6, <1>13, <1>14 DEF Calm

\* The broker sends the reply, to the next handler.
LEMMA CalmBrokerReply ==
    ASSUME Plain, Calm, NEW c \in Conn, BrokerReply(c)
    PROVE  Calm'
<1>1. /\ c \in open /\ c = connection /\ answer[c] # <<>>
      /\ frames' = [frames EXCEPT ![c] = Append(frames[c], Head(answer[c]))]
      /\ answer' = [answer EXCEPT ![c] = <<>>]
      /\ UNCHANGED <<appVars, fields, list, subs, running, loop, open, requests, brokerSubs, found,
                     disturbed, last>>
  BY DEF BrokerReply, Plain, ConnectionInv, Types
<1>2. /\ Inbox = frames[c] /\ Inbox' = frames'[c] /\ Due = answer[c] /\ Due' = answer'[c]
      /\ Outbox = requests[c] /\ Outbox' = requests'[c] /\ OneLoop' /\ app' = app
      /\ connection' = connection
  BY <1>1, Stays
<1>4. /\ Inbox \in Seq(InFrame) /\ Waiting \in Seq(Handler) /\ Due \in Seq(InFrame)
  BY Ways
<1>5. PICK f \in InFrame : f = Due[1] /\ f = Head(answer[c])
  BY <1>1, <1>2, <1>4, HeadTailProperties
<1>3. /\ frames'[c] = Append(Inbox, f) /\ answer'[c] = <<>> /\ Ahead' = 0 /\ Due # <<>>
      /\ requests' = requests /\ brokerSubs' = brokerSubs
  BY <1>1, <1>2, <1>5 DEF Ahead, Plain, Types
<1>6. PICK cnt, t : Agree(cnt, t)
  BY DEF Calm
<1> DEFINE n == cnt[Len(Inbox)]
<1>7. n \in 0..Len(Waiting) /\ Len(Waiting) \in Nat
  BY <1>1, <1>6, Counted
<1>8. /\ brokerSubs[c] = t[n + Ahead] /\ Ahead = One(f)
      /\ app # "handshake" => Owed(Due, Waiting, n) /\ Asks(Outbox, Waiting, n + Ahead, t)
  BY <1>1, <1>3, <1>5, <1>6 DEF Agree, Ahead
<1>9. app = "handshake" => Inbox = <<>> /\ Outbox = <<>> /\ f = Frame("INFO", NONE, NONE)
  <2> SUFFICES ASSUME app = "handshake" PROVE Inbox = <<>> /\ Outbox = <<>> /\ f = Frame("INFO", NONE, NONE)
    OBVIOUS
  <2>1. Inbox = <<>> /\ Due = << Frame("INFO", NONE, NONE) >> /\ Outbox = <<>>
    BY <1>3 DEF Calm, Shaking
  <2> QED BY <1>5, <2>1
<1>10. /\ f.op # "ERR" /\ ~InTime(f)
       /\ IsReply(f) => n < Len(Waiting) /\ f.of = Waiting[n + 1]
  <2>1. CASE app = "handshake"
    <3>1. f.op = "INFO"
      BY <1>9, <2>1 DEF Frame
    <3> QED BY <3>1 DEF IsReply, InTime
  <2>2. CASE app # "handshake"
    <3>1. f.op = "OK" /\ n < Len(Waiting) /\ f.of = Waiting[n + 1]
      BY <1>3, <1>5, <1>8, <2>2 DEF Owed
    <3> QED BY <3>1 DEF InTime
  <2> QED BY <2>1, <2>2
<1>11. PICK d : /\ Counts(Append(Inbox, f), Waiting, Base, d) /\ Messages(Append(Inbox, f), Waiting, d, t)
                /\ d[Len(Append(Inbox, f))] = n + One(f)
  <2>1. Counts(Inbox, Waiting, Base, cnt) /\ Messages(Inbox, Waiting, cnt, t)
    BY <1>6 DEF Agree
  <2>2. FitsIn(f, Waiting, cnt[Len(Inbox)], t)
    BY <1>10 DEF FitsIn
  <2>3. Inbox \in Seq(InFrame) /\ Waiting \in Seq(Handler) /\ f \in InFrame
    BY <1>4, <1>5
  <2>4. Meets(Inbox, Waiting, Base, cnt, t, f)
    BY <2>1, <2>2, <2>3 DEF Meets
  <2> HIDE DEF n
  <2>5. \E d : Grown(Inbox, Waiting, Base, cnt, t, f, d)
    BY <2>4, Arrives
  <2> QED BY <2>5 DEF n, Grown
<1> HIDE DEF n
<1>12. n + One(f) \in Nat /\ (n + One(f)) + 0 = n + One(f)
  BY <1>7 DEF One
<1>13. Agree(d, t)'
  <2>1. Owed(<<>>, Waiting, n + One(f))
    BY DEF Owed
  <2>2. /\ Counts(frames'[c], Waiting, Base, d) /\ Messages(frames'[c], Waiting, d, t)
        /\ brokerSubs'[c] = t[d[Len(frames'[c])] + Ahead']
        /\ app # "handshake" => /\ Owed(answer'[c], Waiting, d[Len(frames'[c])])
                                /\ Asks(requests'[c], Waiting, d[Len(frames'[c])] + Ahead', t)
    BY <1>2, <1>3, <1>8, <1>11, <1>12, <2>1
  <2> QED BY <1>1, <1>6, <2>2, StillAgree
<1>14. Shaking'
  <2> SUFFICES ASSUME app' = "handshake" PROVE Shaking'
    BY DEF Shaking
  <2>1. Append(<<>>, f) = <<f>>
    OBVIOUS
  <2>2. Inbox' = << Frame("INFO", NONE, NONE) >> /\ Due' = <<>> /\ Outbox' = <<>>
    BY <1>2, <1>3, <1>9, <2>1
  <2> QED BY <1>1, <1>2, <2>2 DEF Calm, Shaking, Alive, list, fields
<1> QED BY <1>2, <1>13, <1>14 DEF Calm

\* A request takes effect: the reply that is due says so.
LEMMA CalmBrokerServe ==
    ASSUME Plain, Calm, NEW c \in Conn, BrokerServe(c)
    PROVE  Calm'
<1> DEFINE r == Head(requests[c])
           f == Answer(c, r)
<1>1. /\ c \in open /\ c = connection /\ requests[c] # <<>> /\ answer[c] = <<>>
      /\ requests' = [requests EXCEPT ![c] = Tail(requests[c])]
      /\ answer' = [answer EXCEPT ![c] = <<f>>]
      /\ brokerSubs' = [brokerSubs EXCEPT ![c] =
            IF r.op = "SUB" THEN brokerSubs[c] \cup {r.of}
            ELSE IF r.op = "UNSUB" THEN brokerSubs[c] \ {r.of} ELSE brokerSubs[c]]
      /\ (r.op # "PUB" => found' = found)
      /\ UNCHANGED <<appVars, fields, list, subs, running, loop, open, frames, disturbed, last>>
  BY DEF BrokerServe, Plain, ConnectionInv, Types
<1>2. /\ Inbox = frames[c] /\ Inbox' = frames'[c] /\ Due = answer[c] /\ Due' = answer'[c]
      /\ Outbox = requests[c] /\ Outbox' = requests'[c] /\ OneLoop' /\ app' = app
      /\ connection' = connection
  BY <1>1, Stays
<1>3. /\ Outbox # <<>> /\ r = Head(Outbox) /\ requests'[c] = Tail(Outbox) /\ answer'[c] = <<f>>
      /\ Due = <<>> /\ Ahead = 0 /\ frames'[c] = Inbox
      /\ brokerSubs'[c] = IF r.op = "SUB" THEN brokerSubs[c] \cup {r.of}
                          ELSE IF r.op = "UNSUB" THEN brokerSubs[c] \ {r.of} ELSE brokerSubs[c]
  BY <1>1, <1>2 DEF Ahead, Plain, Types
<1>4. Inbox \in Seq(InFrame) /\ Outbox \in Seq(OutFrame) /\ Waiting \in Seq(Handler)
  BY Ways
<1>5. r \in OutFrame
  BY <1>3, <1>4, HeadTailProperties
<1>6. PICK cnt, t : Agree(cnt, t)
  BY DEF Calm
<1> DEFINE n == cnt[Len(Inbox)]
<1>7. n \in 0..Len(Waiting) /\ Len(Waiting) \in Nat /\ n + 0 = n
  BY <1>1, <1>6, Counted
<1>8. /\ brokerSubs[c] = t[n] /\ Counts(Inbox, Waiting, Base, cnt) /\ Messages(Inbox, Waiting, cnt, t)
      /\ app # "handshake" => Asks(Outbox, Waiting, n, t)
  BY <1>1, <1>3, <1>6, <1>7 DEF Agree
<1>9. Ahead' = One(f)
  <2>1. <<f>> # <<>> /\ <<f>>[1] = f
    OBVIOUS
  <2> HIDE DEF f
  <2> QED BY <1>2, <1>3, <2>1 DEF Ahead
<1>10. CASE app = "handshake"
  <2>1. Inbox = <<>> /\ Outbox = << Frame("CONNECT", NONE, NONE) >>
    BY <1>1, <1>3, <1>10 DEF Calm, Shaking
  <2>2. r.op = "CONNECT" /\ Tail(Outbox) = <<>>
    BY <1>3, <2>1 DEF Frame
  <2>3. f = Frame("INFO", NONE, NONE) /\ brokerSubs' = brokerSubs /\ found' = found
    BY <1>1, <2>2 DEF Answer, Plain, Types
  <2>4. One(f) = 0
    BY <2>3 DEF One, IsReply, Frame
  <2> HIDE DEF f, r, n
  <2>5. Agree(cnt, t)'
    <3>1. /\ Counts(frames'[c], Waiting, Base, cnt) /\ Messages(frames'[c], Waiting, cnt, t)
          /\ brokerSubs'[c] = t[cnt[Len(frames'[c])] + Ahead']
      BY <1>3, <1>7, <1>8, <1>9, <2>3, <2>4 DEF n
    <3> QED BY <1>1, <1>6, <1>10, <3>1, StillAgree
  <2>6. Inbox' = <<>> /\ Due' = << Frame("INFO", NONE, NONE) >> /\ Outbox' = <<>>
    BY <1>2, <1>3, <2>1, <2>2, <2>3
  <2>7. Shaking'
    BY <1>1, <1>2, <1>10, <2>3, <2>6 DEF Calm, Shaking, Alive, list
  <2> QED BY <1>2, <2>5, <2>7 DEF Calm
<1>11. CASE app # "handshake"
  <2>1. /\ n < Len(Waiting) /\ n + 1 \in 1..Len(Waiting) /\ Suits(r, Waiting[n + 1], t[n])
        /\ Asks(Tail(Outbox), Waiting, n + 1, t)
    BY <1>3, <1>4, <1>7, <1>8, <1>11, Served
  <2>2. t[n + 1] = Toggle(t[n], r.of) /\ r.of = Waiting[n + 1]
    <3>1. PICK k \in 1..Len(Waiting) : k = n + 1
      BY <2>1
    <3>2. k - 1 = n
      BY <1>7, <3>1
    <3>3. t[k] = Toggle(t[k - 1], Waiting[k])
      BY <1>6 DEF Agree, Views
    <3>4. r.of = Waiting[n + 1]
      BY <2>1 DEF Suits
    <3> HIDE DEF n
    <3> QED BY <3>1, <3>2, <3>3, <3>4
  <2>3. brokerSubs'[c] = t[n + 1]
    <3>1. t[n] \subseteq Subscriber
      BY <1>6, <1>7 DEF Agree, Views
    <3>2. Subscriber \cap Publisher = {}
      BY JavaAssumption
    <3> QED BY <1>3, <1>8, <2>1, <2>2, <3>1, <3>2 DEF Suits, Toggle
  <2>4. f = Frame("OK", r.of, r.topic)
    BY <1>8, <2>1, <2>2 DEF Answer, Suits
  <2>5. f.op = "OK" /\ f.of = Waiting[n + 1] /\ One(f) = 1
    BY <2>2, <2>4 DEF Frame, One, IsReply
  <2> HIDE DEF f, r, n
  <2>6. Owed(<<f>>, Waiting, n)
    <3>1. Len(<<f>>) = 1 /\ <<f>>[1] = f
      OBVIOUS
    <3> QED BY <2>1, <2>5, <3>1 DEF Owed
  <2>7. Agree(cnt, t)'
    <3>1. /\ Counts(frames'[c], Waiting, Base, cnt) /\ Messages(frames'[c], Waiting, cnt, t)
          /\ brokerSubs'[c] = t[cnt[Len(frames'[c])] + Ahead']
          /\ Owed(answer'[c], Waiting, cnt[Len(frames'[c])])
          /\ Asks(requests'[c], Waiting, cnt[Len(frames'[c])] + Ahead', t)
      BY <1>3, <1>8, <1>9, <2>1, <2>3, <2>5, <2>6 DEF n
    <3> QED BY <1>1, <1>6, <3>1, StillAgree
  <2>8. Shaking'
    BY <1>2, <1>11 DEF Shaking
  <2> QED BY <1>2, <2>7, <2>8 DEF Calm
<1> QED BY <1>10, <1>11

-----------------------------------------------------------------------------
\* Initially nothing is on its way.
LEMMA CalmInit ==
    ASSUME Init
    PROVE  JavaInv
<1>1. Plain
  <2>1. NoLoop \in LoopState
    BY DEF LoopState, NoLoop
  <2>2. /\ requests \in [Conn -> Seq(OutFrame)] /\ frames \in [Conn -> Seq(InFrame)]
        /\ answer \in [Conn -> Seq(InFrame)] /\ found \in [Conn -> SUBSET (Nat \X Subscriber)]
    BY DEF Init
  <2>3. pendingReply \in Seq(Handler) /\ loop \in [Loop -> LoopState]
    BY <2>1 DEF Init
  <2>4. Types
    <3>1. {isConnected, _running, broken, disturbed} \subseteq BOOLEAN
      BY DEF Init
    <3>2. /\ app = "idle" /\ threadLoop = NONE /\ connection = NONE /\ size \in Int
          /\ subs = {} /\ open = {} /\ brokerSubs \in [Conn -> SUBSET Subscriber]
          /\ running \in [Handler -> BOOLEAN] /\ others \in Nat
      BY DEF Init
    <3> QED BY <2>2, <2>3, <3>1, <3>2 DEF Types
  <2>5. CallInv /\ ConnectionInv /\ LoopInv
    BY DEF Init, NoLoop, CallInv, ConnectionInv, LoopInv
  <2> QED BY <2>4, <2>5 DEF Plain
<1>2. NONE \notin Conn
  BY JavaAssumption DEF Conn
<1>3. \A l \in Loop : ~Alive(l) /\ loop[l].at = "none"
  BY DEF Init, Alive, NoLoop
<1>4. Base = 0 /\ \A l \in Loop : ~InHand(l) /\ loop[l].at # "process"
  BY <1>3, Empty
<1>5. Inbox = <<>> /\ Waiting = <<>> /\ Believed = {} /\ Told = {} /\ connection \notin open
  BY <1>2 DEF Init, Inbox, Waiting, Believed, Told, Handler
<1> DEFINE cnt == [i \in 0..0 |-> 0]
           t == [k \in 0..0 |-> {}]
<1>6. <<>> \in Seq(Handler) /\ Len(<<>>) = 0 /\ 0 \in 0..0
  OBVIOUS
<1>7. Counts(<<>>, <<>>, 0, cnt) /\ Messages(<<>>, <<>>, cnt, t) /\ Views(<<>>, {}, {}, t)
  BY <1>6, Nobody
<1> HIDE DEF cnt, t
<1>8. Agree(cnt, t)
  BY <1>4, <1>5, <1>7 DEF Agree
<1>9. OneLoop
  BY <1>3, <1>6 DEF Init, OneLoop
<1>10. Shaking
  BY DEF Init, Shaking
<1> QED BY <1>1, <1>8, <1>9, <1>10 DEF JavaInv, Plain, Calm

\* A step by which calls do not cross keeps the agreement.
LEMMA CalmStep ==
    ASSUME Plain, Calm, Next, ~disturbed'
    PROVE  Calm'
<1>1. CASE Pub \/ Sub \/ Unsub
  BY <1>1, CalmRequest DEF Pub, Sub, Unsub, Handler
<1>2. CASE App
  BY <1>1, <1>2, CalmConnect, CalmHandshake, CalmClose, CalmStartMainLoop, CalmEnqueue, CalmTable DEF App
<1>3. ASSUME NEW l \in Loop, MainLoop(l) PROVE Calm'
  <2>1. CASE EnqueueDuringPoll(l)
    BY <2>1 DEF EnqueueDuringPoll
  <2>2. CASE LoopCheck(l) \/ LoopRecv(l) \/ LoopReadFail(l) \/ LoopMsg(l) \/ LoopOther(l)
    BY <2>2, CalmIdleLoop, CalmLoopRecv
  <2> QED BY <1>3, <2>1, <2>2, CalmLoopRead, CalmLoopReply, CalmLoopPoll DEF MainLoop
<1> QED BY <1>2, <1>3, CalmBrokerServe, CalmBrokerReply, CalmBrokerDeliver, CalmBrokerPublish,
          CalmBrokerClose DEF Next, BrokerThreads

\* Once calls have crossed, they have.
LEMMA StaysDisturbed ==
    ASSUME Next
    PROVE  disturbed => disturbed'
  BY DEF Next, App, Connect, Handshake, HandshakeFail, Close, StartMainLoop, Pub, Sub, Unsub, Request, inside,
     Enqueue, Table, MainLoop, LoopCheck, LoopRecv, LoopRead, LoopReadFail, LoopReply, LoopPoll,
     EnqueueDuringPoll, LoopMsg, LoopOther, loopOnly, BrokerThreads, BrokerServe, BrokerReply, BrokerDeliver,
     BrokerPublish, BrokerClose

\* The invariant is inductive.
LEMMA JavaStep ==
    ASSUME JavaInv, [Next]_vars
    PROVE  JavaInv'
<1>1. CASE Next
  <2>1. Plain /\ (~disturbed => Calm)
    BY DEF JavaInv, Plain
  <2>2. Plain'
    BY <1>1, <2>1, PlainApp, PlainLoop, PlainBroker DEF Next
  <2>3. ~disturbed' => Calm'
    BY <1>1, <2>1, CalmStep, StaysDisturbed
  <2> QED BY <2>2, <2>3 DEF JavaInv, Plain
<1>2. CASE UNCHANGED vars
  <2>1. UNCHANGED <<app, asked, isConnected, _running, threadLoop, connection, pendingReply, size, broken,
                    subs, running, loop, open, requests, frames, brokerSubs, answer, found, others,
                    disturbed, last>>
    BY <1>2 DEF vars, appVars, fields, list, broker, inside
  <2>2. (Types /\ CallInv /\ ConnectionInv /\ LoopInv)'
    BY <2>1 DEF JavaInv, Types, CallInv, ConnectionInv, LoopInv
  <2>3. ASSUME ~disturbed PROVE Calm'
    <3>1. Calm
      BY <2>3 DEF JavaInv
    <3>2. \A m \in Loop : Keeps(m)
      BY <2>1 DEF Keeps, InHand
    <3>3. Waiting' = Waiting /\ Told' = Told
      BY <2>1 DEF Waiting, Told
    <3>4. (\E cnt, t : Agree(cnt, t))'
      BY <2>1, <3>1, <3>2, <3>3, Unmoved DEF Calm
    <3>5. OneLoop' /\ Shaking'
      BY <2>1, <3>1 DEF Calm, OneLoop, Shaking, Alive, Inbox, Outbox, Due
    <3> QED BY <3>4, <3>5 DEF Calm
  <2> QED BY <2>1, <2>2, <2>3 DEF JavaInv
<1> QED BY <1>1, <1>2

-----------------------------------------------------------------------------
(***************************************************************************)
(* The theorems.                                                           *)
(***************************************************************************)
\* The inductive invariant holds.
LEMMA JavaInductive == Spec => []JavaInv
<1>1. Init => JavaInv
  BY CalmInit
<1>2. JavaInv /\ [Next]_vars => JavaInv'
  BY JavaStep
<1> QED BY <1>1, <1>2, PTL DEF Spec

\* The client's fields have their types, and the list of pending replies is sound
\* until calls cross.
THEOREM JavaTypeCorrect == Spec => []TypeOK
<1>1. JavaInv => TypeOK
  <2> SUFFICES ASSUME JavaInv PROVE TypeOK
    OBVIOUS
  <2>1. asked = NONE \/ (asked.op \in {"PUB", "SUB", "UNSUB"} /\ asked.h \in Handler)
    BY DEF JavaInv, Types, CallInv, Handler
  <2>2. ~disturbed => size = Len(pendingReply) /\ ~broken
    BY DEF JavaInv, Calm, OneLoop
  <2>3. \A l \in Loop : /\ loop[l].at \in {"none", "check", "recv", "read", "process", "poll", "dead"}
                        /\ loop[l].conn \in Conn \cup {NONE}
    BY DEF JavaInv, Types, LoopState
  <2> QED BY <2>1, <2>2, <2>3 DEF JavaInv, Types, TypeOK
<1> QED BY <1>1, JavaInductive, PTL

\* deliveryReply hands a reply to the handler that asked, as long as calls have not
\* crossed: of any number of requests, subscribers and connections.
THEOREM AlwaysMatched == Spec => []RepliesMatched
<1>1. JavaInv => RepliesMatched
  BY DEF JavaInv, Calm, OneLoop, RepliesMatched
<1> QED BY <1>1, JavaInductive, PTL

\* With nothing outstanding on an open connection, running says of each subscriber
\* whether the broker has its subscription.
THEOREM AlwaysAgrees == Spec => []RunningAgrees
<1>1. JavaInv => RunningAgrees
  <2> SUFFICES ASSUME JavaInv, ~disturbed, Quiet, connection \in open
               PROVE  \A s \in Subscriber : running[s] <=> s \in brokerSubs[connection]
    BY DEF RunningAgrees
  <2>1. Plain /\ Calm
    BY DEF JavaInv, Plain
  <2>2. PICK cnt, t : Agree(cnt, t)
    BY <2>1 DEF Calm
  <2>3. Waiting = <<>> /\ Len(Waiting) = 0
    <3>1. pendingReply \in Seq(Handler) /\ Len(pendingReply) = 0
      BY <2>1 DEF Plain, Types, Calm, OneLoop, Quiet
    <3>2. pendingReply = <<>>
      BY <3>1, EmptySeq
    <3> QED BY <3>1, <3>2 DEF Waiting, Quiet
  <2>4. cnt[Len(Inbox)] = 0
    <3>1. Inbox \in Seq(InFrame)
      BY <2>1, Ways
    <3>2. Len(Inbox) \in 0..Len(Inbox)
      BY <3>1, LenProperties
    <3>3. cnt \in [0..Len(Inbox) -> 0..0]
      BY <2>2, <2>3 DEF Agree, Counts
    <3> QED BY <3>2, <3>3
  <2>6. Ahead = 0
    <3>1. Owed(Due, Waiting, 0)
      BY <2>2, <2>4 DEF Agree, Quiet
    <3>2. Due = <<>>
      BY <2>3, <3>1 DEF Owed
    <3> QED BY <3>2 DEF Ahead
  <2>5. t[0] = Believed /\ brokerSubs[connection] = t[0]
    BY <2>2, <2>4, <2>6 DEF Agree, Views
  <2> QED BY <2>5 DEF Believed
<1> QED BY <1>1, JavaInductive, PTL

\* deliveryMsg drops a message that was sent while its subscription was in force
\* only while one of the subscriber's calls is outstanding.
THEOREM OnlyDuringCalls == Spec => []MissedOnlyDuringCalls
<1>1. JavaInv => MissedOnlyDuringCalls
  <2> SUFFICES ASSUME JavaInv, ~disturbed, NEW l \in Loop, loop[l].at = "process", InTime(loop[l].frame)
               PROVE  loop[l].frame.of \in subs \/ Outstanding(loop[l].frame.of)
    BY Zenon DEF MissedOnlyDuringCalls, InTime
  <2> DEFINE s == loop[l].frame.of
  <2>1. Plain /\ Calm
    BY DEF JavaInv, Plain
  <2>2. PICK cnt, t : Agree(cnt, t)
    BY <2>1 DEF Calm
  <2>9. Heeds(s)
    BY <2>2 DEF Agree
  <2> HIDE DEF s
  <2>5. Waiting \in Seq(Handler) /\ pendingReply \in Seq(Handler)
    BY <2>1, Ways DEF Plain, Types
  <2> SUFFICES ASSUME ~Outstanding(s) PROVE s \in subs
    BY DEF s
  <2>6. \A j \in 1..Len(Waiting) : Waiting[j] # s
    <3>1. \A j \in 1..Len(pendingReply) : pendingReply[j] # s
      BY DEF Outstanding
    <3>2. CASE app = "enqueue"
      <4>1. asked.h \in Handler /\ asked # NONE
        BY <2>1, <3>2 DEF Plain, CallInv, Types, Handler
      <4> QED BY <2>5, <3>1, <3>2, <4>1, AppendProperties DEF Waiting, Outstanding
    <3>3. CASE app # "enqueue"
      BY <3>1, <3>3 DEF Waiting
    <3> QED BY <3>2, <3>3
  <2>3. s \in Believed
    <3>1. Waiting # <<>> => 1 \in 1..Len(Waiting)
      BY <2>5, LenProperties, EmptySeq
    <3> QED BY <2>6, <2>9, <3>1 DEF Heeds
  <2>4. s \in Subscriber /\ s \in t[0] /\ t[Len(Waiting)] = Told
    BY <2>2, <2>3 DEF Agree, Views, Believed
  <2>7. s \in t[Len(Waiting)]
    <3>1. 0 \in 0..Len(Waiting) /\ Len(Waiting) \in 0..Len(Waiting) /\ 0 <= Len(Waiting) /\ 0 + 1 = 1
      BY <2>5, LenProperties
    <3>2. s \in t[0] <=> s \in t[Len(Waiting)]
      BY <2>2, <2>4, <2>6, <3>1 DEF Agree, Views
    <3> QED BY <2>4, <3>2
  <2>8. app \in {"enqueue", "table"} => asked # NONE
    BY <2>1 DEF Plain, CallInv
  <2> QED BY <2>4, <2>7, <2>8 DEF Told, Outstanding
<1> QED BY <1>1, JavaInductive, PTL
=============================================================================
