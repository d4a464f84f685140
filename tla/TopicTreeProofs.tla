--------------------------- MODULE TopicTreeProofs ---------------------------
(***************************************************************************)
(* Proofs about TopicTree, for every set of subscribers, topics and        *)
(* readers.                                                                *)
(***************************************************************************)
EXTENDS TopicTree, FiniteSetTheorems, TLAPS

\* Every token of every topic.
Token == {SL, ML}
           \cup {Path[s][k] : s \in ValidSub, k \in Nat}
           \cup {Toks[t][k] : t \in ValidTopic, k \in Nat}

\* Tokens(t) is a sequence.
LEMMA TokensSeq ==
    ASSUME NEW t \in Seq(STRING), NEW T,
           \A k \in 1..Len(Tokens(t)) : Tokens(t)[k] \in T
    PROVE  Tokens(t) \in Seq(T)
<1> DEFINE n == Cardinality(Words(t))
           F(k) == Tokens(t)[k]
<1>1. n \in Nat
  <2>1. IsFiniteSet(1..Len(t))
    BY FS_Interval
  <2>2. Words(t) \subseteq 1..Len(t)
    BY DEF Words
  <2> QED
    BY <2>1, <2>2, FS_Subset, FS_CardinalityType
<1>2. Tokens(t) = [k \in 1..n |-> F(k)]
  BY DEF Tokens
<1> HIDE DEF n, F
<1>3. Len(Tokens(t)) = n
  BY <1>1, <1>2
<1>4. \A k \in 1..n : F(k) \in T
  BY <1>3 DEF F
<1> QED
  BY <1>1, <1>2, <1>4

\* The paths of subscribers and topics are sequences of tokens.
LEMMA PathSeq ==
    /\ \A s \in ValidSub : Path[s] \in Seq(Token)
    /\ \A t \in ValidTopic : Toks[t] \in Seq(Token)
<1>1. ASSUME NEW s \in ValidSub PROVE Path[s] \in Seq(Token)
  <2>1. TopicOf[s] \in Seq(STRING)
    BY SubAssumption DEF ValidSub
  <2>2. Path[s] = Tokens(TopicOf[s])
    BY DEF Path
  <2>3. \A k \in 1..Len(Path[s]) : Path[s][k] \in Token
    BY DEF Token
  <2>4. Tokens(TopicOf[s]) \in Seq(Token)
    <3> HIDE DEF Token
    <3>1. \A k \in 1..Len(Tokens(TopicOf[s])) : Tokens(TopicOf[s])[k] \in Token
      BY <2>2, <2>3
    <3> QED BY <2>1, <3>1, TokensSeq
  <2> QED
    BY <2>2, <2>4
<1>2. ASSUME NEW t \in ValidTopic PROVE Toks[t] \in Seq(Token)
  <2>1. t \in Seq(STRING)
    BY SubAssumption DEF ValidTopic
  <2>2. Toks[t] = Tokens(t)
    BY DEF Toks
  <2>3. \A k \in 1..Len(Toks[t]) : Toks[t][k] \in Token
    BY DEF Token
  <2>4. Tokens(t) \in Seq(Token)
    <3> HIDE DEF Token
    <3>1. \A k \in 1..Len(Tokens(t)) : Tokens(t)[k] \in Token
      BY <2>2, <2>3
    <3> QED BY <2>1, <3>1, TokensSeq
  <2> QED
    BY <2>2, <2>4
<1> QED BY <1>1, <1>2

\* A prefix, token by token.
LEMMA PrefixPointwise ==
    ASSUME NEW q \in Seq(Token), NEW p \in Seq(Token)
    PROVE  IsPrefix(q, p) <=> Len(q) <= Len(p) /\ \A i \in 1..Len(q) : q[i] = p[i]
  BY DEF IsPrefix

\* PrefixesUpTo has the prefixes of at most n tokens.
LEMMA PrefixesAre ==
    ASSUME NEW p \in Seq(Token), NEW n \in 0..Len(p), NEW q
    PROVE  q \in PrefixesUpTo(p, n) <=> q \in Seq(Token) /\ IsPrefix(q, p) /\ Len(q) <= n
<1>1. ASSUME q \in PrefixesUpTo(p, n)
      PROVE  q \in Seq(Token) /\ IsPrefix(q, p) /\ Len(q) <= n
  <2>1. PICK k \in 0..n : q = SubSeq(p, 1, k)
    BY <1>1 DEF PrefixesUpTo
  <2>2. q \in Seq(Token) /\ Len(q) = k /\ \A i \in 1..k : q[i] = p[i]
    BY <2>1
  <2> QED BY <2>2, PrefixPointwise
<1>2. ASSUME q \in Seq(Token), IsPrefix(q, p), Len(q) <= n
      PROVE  q \in PrefixesUpTo(p, n)
  <2>1. Len(q) \in 0..n /\ q = SubSeq(p, 1, Len(q))
    BY <1>2, PrefixPointwise
  <2> QED BY <2>1 DEF PrefixesUpTo
<1> QED BY <1>1, <1>2

\* The root's path is a prefix of every other.
LEMMA EmptyPath ==
    /\ <<>> \in Seq(Token) /\ Len(<<>>) = 0
    /\ \A a \in Seq(Token) : Len(a) = 0 <=> a = <<>>
    /\ \A a \in Seq(Token) : IsPrefix(<<>>, a) /\ IsPrefix(a, a)
    /\ \A a \in Seq(Token) : IsPrefix(a, <<>>) => a = <<>>
<1>1. <<>> \in Seq(Token) /\ Len(<<>>) = 0
  OBVIOUS
<1>2. \A a \in Seq(Token) : Len(a) = 0 <=> a = <<>>
  OBVIOUS
<1>3. \A a \in Seq(Token) : IsPrefix(<<>>, a)
  <2> DEFINE e == <<>>
  <2>1. e \in Seq(Token) /\ Len(e) = 0
    BY <1>1
  <2> HIDE DEF e
  <2>2. ASSUME NEW a \in Seq(Token) PROVE IsPrefix(e, a)
    <3>1. IsPrefix(e, a) <=> Len(e) <= Len(a) /\ \A i \in 1..Len(e) : e[i] = a[i]
      BY <2>1, PrefixPointwise
    <3> QED BY <2>1, <3>1
  <2> QED BY <2>2 DEF e
<1>4. \A a \in Seq(Token) : IsPrefix(a, a)
  BY PrefixPointwise
<1>5. \A a \in Seq(Token) : IsPrefix(a, <<>>) => a = <<>>
  <2> DEFINE e == <<>>
  <2>1. e \in Seq(Token) /\ Len(e) = 0
    BY <1>1
  <2> HIDE DEF e
  <2>2. ASSUME NEW a \in Seq(Token), IsPrefix(a, e) PROVE Len(a) = 0
    <3>1. IsPrefix(a, e) <=> Len(a) <= Len(e) /\ \A i \in 1..Len(a) : a[i] = e[i]
      BY <2>1, PrefixPointwise
    <3> QED BY <2>1, <2>2, <3>1
  <2> QED BY <1>2, <2>2 DEF e
<1> QED BY <1>1, <1>2, <1>3, <1>4, <1>5

\* Prefixes has exactly the prefixes.
LEMMA PrefixesSeq ==
    ASSUME NEW p \in Seq(Token)
    PROVE  /\ \A q : q \in Prefixes(p) <=> q \in Seq(Token) /\ IsPrefix(q, p)
           /\ <<>> \in Prefixes(p) /\ p \in Prefixes(p)
<1>1. Prefixes(p) = PrefixesUpTo(p, Len(p))
  BY DEF Prefixes, PrefixesUpTo
<1>2. ASSUME NEW q PROVE q \in Prefixes(p) <=> q \in Seq(Token) /\ IsPrefix(q, p)
  <2>1. q \in Prefixes(p) <=> q \in Seq(Token) /\ IsPrefix(q, p) /\ Len(q) <= Len(p)
    BY <1>1, PrefixesAre
  <2> QED BY <2>1, PrefixPointwise
<1>3. <<>> \in Seq(Token) /\ IsPrefix(<<>>, p) /\ IsPrefix(p, p)
  BY EmptyPath
<1> QED BY <1>2, <1>3

\* IsPrefix orders paths, linearly below each path.
LEMMA PrefixOrder ==
    ASSUME NEW a \in Seq(Token), NEW b \in Seq(Token), NEW c \in Seq(Token)
    PROVE  /\ IsPrefix(a, a)
           /\ IsPrefix(a, b) /\ IsPrefix(b, c) => IsPrefix(a, c)
           /\ IsPrefix(a, b) /\ IsPrefix(b, a) => a = b
           /\ IsPrefix(a, c) /\ IsPrefix(b, c) /\ Len(a) <= Len(b) => IsPrefix(a, b)
<1>1. IsPrefix(a, a)
  BY PrefixPointwise
<1>3. IsPrefix(a, b) /\ IsPrefix(b, c) => IsPrefix(a, c)
  BY PrefixPointwise
<1>4. IsPrefix(a, b) /\ IsPrefix(b, a) => a = b
  BY PrefixPointwise
<1>5. IsPrefix(a, c) /\ IsPrefix(b, c) /\ Len(a) <= Len(b) => IsPrefix(a, b)
  BY PrefixPointwise
<1> QED BY <1>1, <1>3, <1>4, <1>5

\* Paths has the path of every valid subscriber and those above it.
LEMMA PathsClosed ==
    /\ Paths \subseteq Seq(Token)
    /\ <<>> \in Paths
    /\ \A s \in ValidSub : Path[s] \in Paths
    /\ \A s \in ValidSub : Prefixes(Path[s]) \subseteq Paths
    /\ NULL \notin Paths /\ Dangling \notin Paths
<1>1. Paths \subseteq Seq(Token)
  <2>1. \A s \in ValidSub : \A q \in Prefixes(Path[s]) : q \in Seq(Token)
    BY PathSeq, PrefixesSeq
  <2> QED BY <2>1, EmptyPath DEF Paths
<1>2. <<>> \in Paths /\ \A s \in ValidSub : Prefixes(Path[s]) \subseteq Paths
  BY DEF Paths
<1>3. \A s \in ValidSub : Path[s] \in Prefixes(Path[s])
  BY PathSeq, PrefixesSeq
<1> QED BY <1>1, <1>2, <1>3, PointerAssumption

-----------------------------------------------------------------------------
\* The empty tree has its type.
LEMMA TypeInit == Init => TypeOK
<1> SUFFICES ASSUME Init PROVE TypeOK
  OBVIOUS
<1>1. nodes \in SUBSET Paths
  BY PathsClosed DEF Init
<1> QED BY <1>1 DEF Init, TypeOK, Status

\* Every operation keeps the types.
LEMMA TypeNext == TypeOK /\ [Next]_vars => TypeOK'
<1> SUFFICES ASSUME TypeOK, [Next]_vars PROVE TypeOK'
  OBVIOUS
<1> USE DEF TypeOK, treeVars, findVars, Status
<1>1. ASSUME NEW s \in Sub, AddInvalid(s) PROVE TypeOK'
  BY <1>1 DEF AddInvalid
<1>2. ASSUME NEW s \in Sub, AddNew(s) PROVE TypeOK'
  BY <1>2, PathsClosed DEF AddNew
<1>3. ASSUME NEW s \in Sub, AddDup(s) PROVE TypeOK'
  BY <1>3, PathsClosed DEF AddDup
<1>4. ASSUME NEW s \in ValidSub, NEW k \in 0..Len(Path[s]),
             AddNoMemory(s, k) \/ AddUndefined(s, k)
      PROVE  TypeOK'
  <2>1. s \in Sub
    BY DEF ValidSub
  <2>2. PrefixesUpTo(Path[s], k) \subseteq Paths
    <3>1. Path[s] \in Seq(Token)
      BY PathSeq
    <3>2. PrefixesUpTo(Path[s], k) \subseteq Prefixes(Path[s])
      BY <3>1 DEF Prefixes, PrefixesUpTo
    <3> QED BY <3>2, PathsClosed
  <2>3. node' \in [Sub -> Paths \cup {NULL, Dangling}]
    BY <1>4, <2>1, PathsClosed DEF AddNoMemory, AddUndefined, AddGivesUp
  <2> QED BY <1>4, <2>2, <2>3 DEF AddNoMemory, AddUndefined, AddGivesUp
<1>5. ASSUME NEW s \in Sub, DelAbsent(s) PROVE TypeOK'
  BY <1>5 DEF DelAbsent
<1>6. ASSUME NEW s \in Sub, DelPresent(s) PROVE TypeOK'
  <2>1. node' \in [Sub -> Paths \cup {NULL, Dangling}]
    BY <1>6 DEF DelPresent
  <2>2. nodes' \in SUBSET Paths /\ subs' \in [Paths -> SUBSET Sub]
    BY <1>6 DEF DelPresent
  <2> QED BY <1>6, <2>1, <2>2 DEF DelPresent
<1>7. ASSUME NEW s \in Sub, DelDangling(s) PROVE TypeOK'
  BY <1>7 DEF DelDangling
<1>8. ASSUME NEW r \in Reader, NEW t \in PubTopic, FindBegin(r, t) PROVE TypeOK'
  BY <1>8, PathsClosed DEF FindBegin
<1>9. ASSUME NEW r \in Reader, NEW t \in PubTopic, FindInvalid(r, t) PROVE TypeOK'
  BY <1>9 DEF FindInvalid
<1>10. ASSUME NEW r \in Reader, NEW q \in Paths, FindDescend(r, q) PROVE TypeOK'
  BY <1>10 DEF FindDescend, Children, CopyToArray
<1>11. ASSUME NEW r \in Reader, NEW q \in Paths, FindCollect(r, q) PROVE TypeOK'
  BY <1>11 DEF FindCollect, CopyToArray
<1>12. ASSUME NEW r \in Reader, FindEnd(r) PROVE TypeOK'
  BY <1>12 DEF FindEnd
<1>13. ASSUME NEW r \in Reader, FindReturn(r) PROVE TypeOK'
  BY <1>13 DEF FindReturn
<1>14. ASSUME NEW t, ExtractUndefined(t) PROVE TypeOK'
  BY <1>14 DEF ExtractUndefined
<1>15. ASSUME NEW r \in Reader, FindExits(r) PROVE TypeOK'
  BY <1>15 DEF FindExits
<1>16. CASE UNCHANGED vars
  BY <1>16 DEF vars
<1> QED
  BY <1>1, <1>2, <1>3, <1>4, <1>5, <1>6, <1>7, <1>8, <1>9, <1>10, <1>11, <1>12, <1>13, <1>14, <1>15, <1>16
  DEF Next, Add, Del, Find, Walk

\* Type correctness: in particular the nodes a find has yet to visit and the
\* pointers of subscribers stay within the paths of valid topics.
THEOREM TypeCorrect == Spec => []TypeOK
  BY TypeInit, TypeNext, PTL DEF Spec

-----------------------------------------------------------------------------
(***************************************************************************)
(* The shape of the tree.                                                  *)
(***************************************************************************)
TreeInv == TypeOK /\ ParentClosed /\ Placed /\ NoGarbage /\ NoDanglingNode

\* The empty tree has the shape.
LEMMA TreeInit == Init => TreeInv
<1> SUFFICES ASSUME Init PROVE TreeInv
  OBVIOUS
<1>1. TypeOK
  BY TypeInit
<1>2. ParentClosed
  <2>1. nodes = {<<>>}
    BY DEF Init
  <2>2. \A x \in Prefixes(<<>>) : x = <<>>
    BY PrefixesSeq, EmptyPath
  <2> QED BY <2>1, <2>2 DEF ParentClosed
<1>3. Placed /\ NoGarbage /\ NoDanglingNode
  BY DEF Init, Placed, NoGarbage, NoDanglingNode
<1> QED BY <1>1, <1>2, <1>3 DEF TreeInv

\* Adding the prefixes of a path keeps the set of nodes closed.
LEMMA ClosedUnderAdd ==
    ASSUME NEW s \in ValidSub, NEW k \in 0..Len(Path[s]), TypeOK, ParentClosed,
           nodes' = nodes \cup PrefixesUpTo(Path[s], k)
    PROVE  ParentClosed'
<1> DEFINE p == Path[s]
<1>0. p \in Seq(Token)
  BY PathSeq
<1>1. <<>> \in nodes'
  BY DEF ParentClosed
<1>2. ASSUME NEW q \in nodes', NEW x \in Prefixes(q) PROVE x \in nodes'
  <2>1. CASE q \in nodes
    BY <1>2, <2>1 DEF ParentClosed
  <2>2. CASE q \in PrefixesUpTo(p, k)
    <3> HIDE DEF p
    <3>1. k \in 0..Len(p)
      BY DEF p
    <3>2. q \in Seq(Token) /\ IsPrefix(q, p) /\ Len(q) <= k
      BY <1>0, <2>2, <3>1, PrefixesAre
    <3>3. x \in Seq(Token) /\ IsPrefix(x, q)
      BY <1>2, <3>2, PrefixesSeq
    <3>4. IsPrefix(x, p)
      BY <1>0, <3>2, <3>3, PrefixOrder
    <3>5. Len(x) <= Len(q)
      BY <3>2, <3>3, PrefixPointwise
    <3>6. Len(x) <= k
      BY <3>1, <3>2, <3>3, <3>5
    <3>7. x \in PrefixesUpTo(p, k)
      BY <1>0, <3>1, <3>3, <3>4, <3>6, PrefixesAre
    <3> QED BY <3>7 DEF p
  <2> QED BY <1>2, <2>1, <2>2
<1> QED BY <1>1, <1>2 DEF ParentClosed

\* A step that leaves the tree and the node pointers alone.
LEMMA TreeUnchanged ==
    ASSUME TreeInv, TypeOK', UNCHANGED <<nodes, subs, node, corrupt>>
    PROVE  TreeInv'
  BY DEF TreeInv, ParentClosed, Placed, NoGarbage, NoDanglingNode

\* An add makes the nodes down to its topic and puts the subscriber in the last.
LEMMA TreeAddNew ==
    ASSUME TreeInv, TypeOK', ~corrupt, NEW s \in Sub, AddNew(s)
    PROVE  TreeInv'
<1> USE DEF TreeInv
<1> DEFINE p == Path[s]
<1>0. s \in ValidSub /\ p \in Seq(Token) /\ p \in Paths
  BY PathSeq, PathsClosed DEF AddNew
<1>1. nodes' = nodes \cup Prefixes(p) /\ subs' = [subs EXCEPT ![p] = @ \cup {s}]
      /\ node' = [node EXCEPT ![s] = p] /\ corrupt' = corrupt
  BY DEF AddNew
<1>2. p \in Prefixes(p)
  BY <1>0, PrefixesSeq
<1>3. ParentClosed'
  <2>1. Prefixes(p) = PrefixesUpTo(p, Len(p)) /\ Len(p) \in 0..Len(p)
    BY <1>0 DEF Prefixes, PrefixesUpTo
  <2> QED BY <1>0, <1>1, <2>1, ClosedUnderAdd
<1>4. Placed'
  <2> SUFFICES ASSUME NEW q \in Paths, NEW x \in subs'[q]
               PROVE  q \in nodes' /\ x \in ValidSub /\ q = Path[x] /\ node'[x] = q
    BY DEF Placed
  <2>1. CASE x = s /\ q = p
    BY <1>0, <1>1, <1>2, <2>1 DEF TypeOK
  <2>2. CASE x \in subs[q] /\ x # s
    BY <1>1, <2>2 DEF TypeOK, Placed
  <2>3. CASE x = s /\ q # p
    BY <1>0, <1>1, <2>3 DEF TypeOK, Placed
  <2> QED BY <1>0, <1>1, <2>1, <2>2, <2>3 DEF TypeOK
<1>5. NoGarbage'
  <2> SUFFICES ASSUME ~MallocMayFail, NEW q \in nodes', q # <<>>
               PROVE  \E x \in Sub : x \in ValidSub /\ IsPrefix(q, Path[x]) /\ x \in subs'[Path[x]]
    BY DEF NoGarbage
  <2>1. CASE q \in nodes
    <3>1. PICK x \in Sub : x \in ValidSub /\ IsPrefix(q, Path[x]) /\ x \in subs[Path[x]]
      BY <2>1 DEF NoGarbage
    <3> QED BY <1>0, <1>1, <3>1, PathsClosed DEF TypeOK
  <2>2. CASE q \in Prefixes(p)
    BY <1>0, <1>1, <2>2, PrefixesSeq DEF TypeOK
  <2> QED BY <1>1, <2>1, <2>2
<1>6. NoDanglingNode'
  <2> SUFFICES ASSUME ~MallocMayFail, NEW x \in Sub, node'[x] # NULL
               PROVE  node'[x] # Dangling /\ node'[x] \in nodes' /\ x \in subs'[node'[x]]
    BY <1>1 DEF NoDanglingNode
  <2>1. CASE x = s
    BY <1>0, <1>1, <1>2, <2>1, PathsClosed DEF TypeOK
  <2>2. CASE x # s
    <3>1. node'[x] = node[x]
      BY <1>1, <2>2 DEF TypeOK
    <3>2. node[x] # Dangling /\ node[x] \in nodes /\ x \in subs[node[x]]
      BY <3>1 DEF NoDanglingNode
    <3> QED BY <1>0, <1>1, <3>1, <3>2 DEF TypeOK
  <2> QED BY <2>1, <2>2
<1> QED BY <1>3, <1>4, <1>5, <1>6

\* An add that runs out of memory leaves the nodes it has made.
LEMMA TreeAddGivesUp ==
    ASSUME TreeInv, TypeOK', NEW s \in ValidSub, NEW k \in 0..Len(Path[s]), AddGivesUp(s, k)
    PROVE  TreeInv'
<1> USE DEF TreeInv
<1>1. MallocMayFail /\ subs' = subs /\ s \notin subs[Path[s]]
  BY DEF AddGivesUp
<1>2. nodes' = nodes \cup PrefixesUpTo(Path[s], k)
  BY DEF AddGivesUp
<1>3. ParentClosed'
  BY <1>2, ClosedUnderAdd
<1>4. \A x \in Sub : x # s => node'[x] = node[x]
  BY DEF AddGivesUp, TypeOK, ValidSub
<1>5. Placed'
  <2> SUFFICES ASSUME NEW q \in Paths, NEW x \in subs[q]
               PROVE  q \in nodes' /\ x \in ValidSub /\ q = Path[x] /\ node'[x] = q
    BY <1>1 DEF Placed
  <2>1. x \in Sub /\ q \in nodes /\ x \in ValidSub /\ q = Path[x] /\ node[x] = q
    BY DEF Placed, TypeOK
  <2>2. x # s
    BY <1>1, <2>1
  <2> QED BY <1>2, <1>4, <2>1, <2>2
<1>6. NoGarbage' /\ NoDanglingNode'
  BY <1>1 DEF NoGarbage, NoDanglingNode
<1> QED BY <1>3, <1>5, <1>6

\* The process ends: the tree stays as it was.
LEMMA TreeEnds ==
    ASSUME TreeInv, TypeOK', MallocMayFail, UNCHANGED <<nodes, subs, node>>
    PROVE  TreeInv'
  BY DEF TreeInv, ParentClosed, Placed, NoGarbage, NoDanglingNode

\* What the prune frees: nothing that still holds a subscriber, and with a node
\* all that is live below it.
LEMMA PrunedNodes ==
    ASSUME NEW p \in Seq(Token), NEW h \in [Paths -> SUBSET Sub], nodes \subseteq Paths
    PROVE  /\ \A q \in Pruned(p, h) : q # <<>> /\ q \in Seq(Token) /\ IsPrefix(q, p)
           /\ \A q \in Pruned(p, h) : q \in nodes => h[q] = {}
           /\ \A x \in Pruned(p, h), q \in nodes : IsPrefix(x, q) => q \in Pruned(p, h)
<1>1. ASSUME NEW q \in Pruned(p, h) PROVE q # <<>> /\ q \in Seq(Token) /\ IsPrefix(q, p)
  BY PrefixesSeq DEF Pruned
<1>2. ASSUME NEW q \in Pruned(p, h), q \in nodes PROVE h[q] = {}
  BY <1>1, <1>2, PrefixOrder DEF Pruned
<1>3. ASSUME NEW x \in Pruned(p, h), NEW q \in nodes, IsPrefix(x, q) PROVE q \in Pruned(p, h)
  <2>1. x \in Seq(Token) /\ x # <<>> /\ q \in Seq(Token)
    BY <1>1, PathsClosed
  <2>2. IsPrefix(q, p) /\ h[q] = {}
    BY <1>3 DEF Pruned
  <2>3. q # <<>>
    BY <1>3, <2>1, EmptyPath
  <2>4. q \in Prefixes(p) \ {<<>>}
    BY <2>1, <2>2, <2>3, PrefixesSeq
  <2>5. ASSUME NEW n \in nodes, IsPrefix(q, n) PROVE IsPrefix(n, p) /\ h[n] = {}
    <3>1. n \in Seq(Token)
      BY PathsClosed
    <3>2. IsPrefix(x, n)
      BY <1>3, <2>1, <2>5, <3>1, PrefixOrder
    <3> QED BY <3>2 DEF Pruned
  <2> QED BY <2>4, <2>5 DEF Pruned
<1> QED BY <1>1, <1>2, <1>3

\* A delete frees the branch that it leaves empty, and nothing else.
LEMMA TreeDelPresent ==
    ASSUME TreeInv, TypeOK', ~corrupt, NEW s \in Sub, DelPresent(s)
    PROVE  TreeInv'
<1> USE DEF TreeInv
<1> DEFINE p == node[s]
           freed == Pruned(p, subs')
<1>0. p \in Paths /\ s \in subs[p] /\ s \in ValidSub /\ p = Path[s] /\ p \in nodes
      /\ p \in Seq(Token)
  <2>1. p \in Paths /\ s \in subs[p]
    BY DEF DelPresent, TypeOK
  <2> QED BY <2>1, PathsClosed DEF Placed
<1>1. subs' = [subs EXCEPT ![p] = @ \ {s}] /\ nodes' = nodes \ freed /\ corrupt' = corrupt
  BY DEF DelPresent
<1>2. node' = [x \in Sub |-> CASE x = s -> NULL
                               [] x # s /\ node[x] \in freed -> Dangling
                               [] OTHER -> node[x]]
  BY DEF DelPresent
<1>3. /\ subs' \in [Paths -> SUBSET Sub]
      /\ \A q \in Paths : subs'[q] = subs[q] \ {s}
  <2>1. \A q \in Paths : q # p => s \notin subs[q]
    BY <1>0 DEF Placed
  <2> QED BY <1>0, <1>1, <2>1 DEF TypeOK
<1>4. nodes \subseteq Paths /\ nodes \subseteq Seq(Token)
  BY PathsClosed DEF TypeOK
<1>5. /\ \A q \in freed : q # <<>> /\ q \in Seq(Token) /\ IsPrefix(q, p)
      /\ \A q \in freed : q \in nodes => subs'[q] = {}
      /\ \A x \in freed, q \in nodes : IsPrefix(x, q) => q \in freed
  BY <1>0, <1>3, <1>4, PrunedNodes
<1>6. \A q \in nodes : q # <<>> /\ IsPrefix(q, p) /\ q \notin freed =>
        \E n \in nodes : IsPrefix(q, n) /\ ~(IsPrefix(n, p) /\ subs'[n] = {})
  BY <1>0, <1>4, PrefixesSeq DEF Pruned
<1> HIDE DEF p, freed
<1>7. ParentClosed'
  <2>1. <<>> \in nodes'
    BY <1>1, <1>5 DEF ParentClosed
  <2>2. ASSUME NEW q \in nodes', NEW x \in Prefixes(q) PROVE x \in nodes'
    <3>1. q \in nodes /\ q \notin freed /\ q \in Seq(Token)
      BY <1>1, <1>4
    <3>2. x \in nodes /\ IsPrefix(x, q)
      BY <3>1, PrefixesSeq DEF ParentClosed
    <3> QED BY <1>1, <1>5, <3>1, <3>2
  <2> QED BY <2>1, <2>2 DEF ParentClosed
<1>8. ASSUME NEW q \in Paths, NEW x \in subs[q], x # s
      PROVE  q \in nodes' /\ x \in subs'[q] /\ x \in Sub /\ x \in ValidSub
             /\ q = Path[x] /\ node[x] = q /\ node'[x] = q
  <2>1. q \in nodes /\ x \in Sub /\ x \in ValidSub /\ q = Path[x] /\ node[x] = q
    BY <1>8 DEF Placed, TypeOK
  <2>2. x \in subs'[q]
    BY <1>3, <1>8
  <2>3. q \notin freed
    BY <1>5, <2>1, <2>2
  <2>4. node'[x] = q
    BY <1>2, <1>8, <2>1, <2>3
  <2> QED BY <1>1, <2>1, <2>2, <2>3, <2>4
<1>9. Placed'
  <2> SUFFICES ASSUME NEW q \in Paths, NEW x \in subs'[q]
               PROVE  q \in nodes' /\ x \in ValidSub /\ q = Path[x] /\ node'[x] = q
    BY DEF Placed
  <2>1. x \in subs[q] /\ x # s
    BY <1>3
  <2> QED BY <1>8, <2>1
<1>10. NoGarbage'
  <2> SUFFICES ASSUME ~MallocMayFail, NEW q \in nodes', q # <<>>
               PROVE  \E x \in Sub : x \in ValidSub /\ IsPrefix(q, Path[x]) /\ x \in subs'[Path[x]]
    BY DEF NoGarbage
  <2>0. q \in nodes /\ q \notin freed /\ q \in Seq(Token)
    BY <1>1, <1>4
  <2>1. PICK x \in Sub : x \in ValidSub /\ IsPrefix(q, Path[x]) /\ x \in subs[Path[x]]
    BY <2>0 DEF NoGarbage
  <2>2. CASE x # s
    <3>1. x \in subs'[Path[x]]
      BY <1>8, <2>1, <2>2, PathsClosed
    <3> QED BY <2>1, <3>1
  <2>3. CASE x = s
    <3>1. PICK n \in nodes : IsPrefix(q, n) /\ ~(IsPrefix(n, p) /\ subs'[n] = {})
      BY <1>0, <1>6, <2>0, <2>1, <2>3
    <3>2. n \in Paths /\ n \in Seq(Token)
      BY <1>4
    <3>3. CASE subs'[n] # {}
      <4>1. PICK y \in subs'[n] : TRUE
        BY <3>3
      <4>2. y \in subs[n] /\ y # s
        BY <1>3, <3>2, <4>1
      <4>3. y \in Sub /\ y \in ValidSub /\ n = Path[y]
        BY <1>8, <3>2, <4>2
      <4> QED BY <3>1, <4>1, <4>3
    <3>4. CASE ~IsPrefix(n, p)
      <4>1. n # <<>>
        BY <1>0, <3>4, EmptyPath
      <4>2. PICK y \in Sub : y \in ValidSub /\ IsPrefix(n, Path[y]) /\ y \in subs[Path[y]]
        BY <4>1 DEF NoGarbage
      <4>3. y # s
        BY <1>0, <3>4, <4>2
      <4>4. y \in subs'[Path[y]]
        BY <1>8, <4>2, <4>3, PathsClosed
      <4>5. IsPrefix(q, Path[y])
        BY <2>0, <3>1, <3>2, <4>2, PathSeq, PrefixOrder
      <4> QED BY <4>2, <4>4, <4>5
    <3> QED BY <3>1, <3>3, <3>4
  <2> QED BY <2>2, <2>3
<1>11. NoDanglingNode'
  <2> SUFFICES ASSUME ~MallocMayFail, NEW x \in Sub, node'[x] # NULL
               PROVE  node'[x] # Dangling /\ node'[x] \in nodes' /\ x \in subs'[node'[x]]
    BY <1>1 DEF NoDanglingNode
  <2>1. x # s
    BY <1>2
  <2>2. node[x] # NULL
    <3>1. CASE node[x] \in freed
      BY <1>0, <1>5, <3>1, PathsClosed, PrefixesSeq
    <3>2. CASE node[x] \notin freed
      BY <1>2, <2>1, <3>2
    <3> QED BY <3>1, <3>2
  <2>3. node[x] \in nodes /\ x \in subs[node[x]]
    BY <2>2 DEF NoDanglingNode
  <2>4. node'[x] = node[x] /\ node[x] \in nodes' /\ x \in subs'[node[x]] /\ node[x] \in Paths
    BY <1>4, <1>8, <2>1, <2>3
  <2> QED BY <2>4, PathsClosed
<1> QED BY <1>7, <1>9, <1>10, <1>11

\* Every operation keeps the shape.
LEMMA TreeNext == TreeInv /\ [Next]_vars => TreeInv'
<1> SUFFICES ASSUME TreeInv, [Next]_vars PROVE TreeInv'
  OBVIOUS
<1>0. TypeOK'
  BY TypeNext DEF TreeInv
<1>1. CASE UNCHANGED vars
  BY <1>0, <1>1, TreeUnchanged DEF vars
<1>2. ASSUME NEW s \in Sub, Add(s), ~corrupt PROVE TreeInv'
  <2>1. CASE AddInvalid(s)
    BY <1>0, <2>1, TreeUnchanged DEF AddInvalid
  <2>2. CASE AddNew(s)
    BY <1>0, <1>2, <2>2, TreeAddNew
  <2>3. CASE AddDup(s)
    <3>1. node' = node
      BY <2>3, PathsClosed DEF AddDup, TreeInv, Placed, TypeOK
    <3> QED BY <1>0, <2>3, <3>1, TreeUnchanged DEF AddDup
  <2>4. ASSUME s \in ValidSub, NEW k \in 0..Len(Path[s]), AddNoMemory(s, k) \/ AddUndefined(s, k)
        PROVE  TreeInv'
    BY <1>0, <2>4, TreeAddGivesUp DEF AddNoMemory, AddUndefined
  <2>5. CASE ExtractUndefined(TopicOf[s])
    BY <1>0, <2>5, TreeEnds DEF ExtractUndefined
  <2> QED BY <1>2, <2>1, <2>2, <2>3, <2>4, <2>5 DEF Add
<1>3. ASSUME NEW s \in Sub, Del(s), ~corrupt PROVE TreeInv'
  <2>1. CASE DelAbsent(s)
    BY <1>0, <2>1, TreeUnchanged DEF DelAbsent
  <2>2. CASE DelPresent(s)
    BY <1>0, <1>3, <2>2, TreeDelPresent
  <2>3. CASE DelDangling(s)
    <3>1. MallocMayFail
      <4>1. SUFFICES ASSUME ~MallocMayFail PROVE FALSE
        OBVIOUS
      <4> QED BY <2>3, <4>1, PointerAssumption DEF DelDangling, TreeInv, NoDanglingNode
    <3> QED BY <1>0, <2>3, <3>1, TreeEnds DEF DelDangling
  <2>4. CASE ExtractUndefined(TopicOf[s])
    BY <1>0, <2>4, TreeEnds DEF ExtractUndefined
  <2> QED BY <1>3, <2>1, <2>2, <2>3, <2>4 DEF Del
<1>4. ASSUME NEW r \in Reader, Find(r) PROVE TreeInv'
  <2>1. CASE UNCHANGED treeVars
    BY <1>0, <2>1, TreeUnchanged DEF treeVars
  <2>2. ASSUME NEW t \in PubTopic, ExtractUndefined(t) PROVE TreeInv'
    BY <1>0, <2>2, TreeEnds DEF ExtractUndefined
  <2>3. CASE FindExits(r)
    BY <1>0, <2>3, TreeEnds DEF FindExits
  <2> QED
    BY <1>4, <2>1, <2>2, <2>3
    DEF Find, Walk, FindBegin, FindInvalid, FindDescend, FindCollect, FindEnd, FindReturn
<1> QED BY <1>1, <1>2, <1>3, <1>4 DEF Next

\* The conjunction of the parts is an invariant: whether a node may be freed
\* depends on who is placed where, and the other way round.
LEMMA TreeInductive == Spec => []TreeInv
  BY TreeInit, TreeNext, PTL DEF Spec

\* The tree stays connected, for all subscribers and topics: the nodes are closed
\* under parents, whatever topic__tree_prune_node frees and wherever
\* topic__add_subscriber gives up with BPSP_NO_MEMORY, up to the first allocation
\* whose failure is undefined behaviour.
THEOREM StaysConnected == Spec => []ParentClosed
<1>1. TreeInv => ParentClosed
  BY DEF TreeInv
<1> QED BY <1>1, TreeInductive, PTL

\* Every subscriber sits in the live node of its topic, the one that sub->node
\* points to.
THEOREM StaysPlaced == Spec => []Placed
<1>1. TreeInv => Placed
  BY DEF TreeInv
<1> QED BY <1>1, TreeInductive, PTL

\* Without allocation failures no empty branch is left by topic__tree_prune_node.
THEOREM NothingLeftOver == Spec => []NoGarbage
<1>1. TreeInv => NoGarbage
  BY DEF TreeInv
<1> QED BY <1>1, TreeInductive, PTL

\* Without allocation failures sub->node never points to a freed node.
THEOREM NeverDangles == Spec => []NoDanglingNode
<1>1. TreeInv => NoDanglingNode
  BY DEF TreeInv
<1> QED BY <1>1, TreeInductive, PTL

-----------------------------------------------------------------------------
(***************************************************************************)
(* The walk of a find.                                                     *)
(***************************************************************************)
\* A visit to q, and from there to its descendants, will collect subscriber s.
Reaches(q, s, t) ==
    /\ IsPrefix(q, Path[s])
    /\ \/ MatchesWhole(Path[s], t)
       \/ MatchesRest(Path[s], t) /\ Len(q) < Len(Path[s])

Wanted(s, t) == s \in ValidSub /\ s \in subs[Path[s]] /\ Matches(Path[s], t)

\* The pending nodes are live and fit the topic; none lies above another; the
\* array holds one copy of each matching subscriber no pending node leads to.
WalkInv(r) ==
    LET t == Toks[topic[r]]
    IN /\ topic[r] \in ValidTopic
       /\ \A q \in pending[r] : q \in nodes /\ Len(q) <= Len(t) /\ Fits(q, t, Len(q))
       /\ \A q1, q2 \in pending[r] : IsPrefix(q1, q2) => q1 = q2
       /\ \A s \in Sub :
            copies[r][s] = IF Wanted(s, t) /\ ~\E q \in pending[r] : Reaches(q, s, t)
                           THEN 1 ELSE 0

FindInv == TreeInv /\ \A r \in Reader : pc[r] = "walk" => WalkInv(r)

\* A path extended by one token.
LEMMA Extended ==
    ASSUME NEW q \in Seq(Token), NEW x \in Token
    PROVE  /\ Append(q, x) \in Seq(Token)
           /\ Len(Append(q, x)) = Len(q) + 1
           /\ Append(q, x)[Len(q) + 1] = x
           /\ \A i \in 1..Len(q) : Append(q, x)[i] = q[i]
           /\ IsPrefix(q, Append(q, x))
           /\ \A p \in Seq(Token) :
                 IsPrefix(q, p) /\ Len(q) < Len(p) /\ p[Len(q) + 1] = x => IsPrefix(Append(q, x), p)
<1> DEFINE c == Append(q, x)
<1>1. c \in Seq(Token) /\ Len(c) = Len(q) + 1 /\ c[Len(q) + 1] = x
      /\ \A i \in 1..Len(q) : c[i] = q[i]
  OBVIOUS
<1> HIDE DEF c
<1>2. IsPrefix(q, c)
  BY <1>1, PrefixPointwise
<1>3. ASSUME NEW p \in Seq(Token), IsPrefix(q, p), Len(q) < Len(p), p[Len(q) + 1] = x
      PROVE  IsPrefix(c, p)
  <2>1. \A i \in 1..Len(q) : q[i] = p[i]
    BY <1>3, PrefixPointwise
  <2>2. Len(c) <= Len(p) /\ \A i \in 1..Len(c) : c[i] = p[i]
    BY <1>1, <1>3, <2>1
  <2> QED BY <1>1, <2>2, PrefixPointwise
<1> QED BY <1>1, <1>2, <1>3 DEF c

\* Of two prefixes of an extended path one is the path itself or a prefix of q.
LEMMA BelowExtended ==
    ASSUME NEW q \in Seq(Token), NEW x \in Token, NEW a \in Seq(Token),
           IsPrefix(a, Append(q, x))
    PROVE  IsPrefix(a, q) \/ a = Append(q, x)
<1> DEFINE c == Append(q, x)
<1>1. c \in Seq(Token) /\ Len(c) = Len(q) + 1 /\ IsPrefix(q, c)
  BY Extended
<1> HIDE DEF c
<1>2. IsPrefix(a, c) /\ Len(a) <= Len(c) /\ \A i \in 1..Len(a) : a[i] = c[i]
  BY <1>1, PrefixPointwise DEF c
<1>3. CASE Len(a) <= Len(q)
  BY <1>1, <1>2, <1>3, PrefixOrder
<1>4. ASSUME Len(a) = Len(c) PROVE a = c
  BY <1>1, <1>2, <1>4
<1>5. Len(a) <= Len(q) \/ Len(a) = Len(c)
  BY <1>1, <1>2
<1> QED BY <1>3, <1>4, <1>5 DEF c

\* Visiting an inner node of the walk.
LEMMA WalkDescend ==
    ASSUME TreeInv, NEW r \in Reader, NEW q \in Paths, FindDescend(r, q), WalkInv(r)
    PROVE  WalkInv(r)'
<1> DEFINE t == Toks[topic[r]]
           n == Len(q)
           tok == t[n + 1]
           C == Children(q, tok)
           M == MultiLevel(q)
<1>1. q \in Seq(Token) /\ n \in Nat /\ t \in Seq(Token) /\ n < Len(t) /\ tok \in Token
      /\ SL \in Token /\ ML \in Token /\ SL # ML
  <2>1. q \in Seq(Token) /\ t \in Seq(Token)
    BY PathsClosed, PathSeq DEF WalkInv
  <2>2. SL \in Token /\ ML \in Token
    BY DEF Token
  <2>3. SL # ML
    BY DEF SL, ML
  <2>4. n < Len(t)
    BY DEF FindDescend
  <2> QED BY <2>1, <2>2, <2>3, <2>4
<1>2. q \in pending[r] /\ q \in nodes /\ Fits(q, t, n) /\ topic[r] \in ValidTopic
  BY DEF FindDescend, WalkInv
<1>3. /\ topic' = topic /\ nodes' = nodes /\ subs' = subs
      /\ pending'[r] = (pending[r] \ {q}) \cup C
      /\ \A s \in Sub : copies'[r][s] = IF s \in M THEN copies[r][s] + 1 ELSE copies[r][s]
  BY DEF FindDescend, treeVars, CopyToArray, TreeInv, TypeOK
<1>4. /\ \A a \in pending[r] : a \in nodes /\ a \in Seq(Token) /\ Len(a) <= Len(t) /\ Fits(a, t, Len(a))
      /\ \A a, b \in pending[r] : IsPrefix(a, b) => a = b
      /\ nodes \subseteq Seq(Token)
  BY PathsClosed DEF WalkInv, TreeInv, TypeOK
<1>5. \A s \in Sub : copies[r][s] = IF Wanted(s, t) /\ ~\E a \in pending[r] : Reaches(a, s, t)
                                    THEN 1 ELSE 0
  BY DEF WalkInv
<1>6. \A c \in C : c \in nodes /\ \E x \in Token : c = Append(q, x) /\ (x = SL \/ (x = tok /\ x # ML))
  BY <1>1 DEF Children
<1>7. ASSUME NEW x \in Token, Append(q, x) \in nodes, x = SL \/ (x = tok /\ x # ML)
      PROVE  Append(q, x) \in C
  BY <1>1, <1>7 DEF Children
<1>8. ASSUME NEW s \in M
      PROVE  s \in Sub /\ s \in ValidSub /\ Path[s] = Append(q, ML) /\ s \in subs[Path[s]]
  BY DEF MultiLevel, TreeInv, Placed, TypeOK
<1>9. ASSUME NEW s \in ValidSub, s \in subs[Path[s]], Path[s] = Append(q, ML) PROVE s \in M
  BY <1>9, PathsClosed DEF MultiLevel, TreeInv, Placed
<1> HIDE DEF t, n, tok, C, M
<1>10. ASSUME NEW c \in C
       PROVE  c \in nodes /\ c \in Seq(Token) /\ Len(c) = n + 1 /\ IsPrefix(q, c) /\ Fits(c, t, n + 1)
  <2>0. c \in nodes
    BY <1>6
  <2>1. PICK x \in Token : c = Append(q, x) /\ (x = SL \/ (x = tok /\ x # ML))
    BY <1>6
  <2>2. c \in Seq(Token) /\ Len(c) = n + 1 /\ c[n + 1] = x /\ IsPrefix(q, c)
        /\ \A i \in 1..n : c[i] = q[i]
    BY <1>1, <2>1, Extended DEF n
  <2>3. Fits(c, t, n + 1)
    BY <1>1, <1>2, <2>1, <2>2 DEF Fits, tok
  <2> QED BY <2>0, <2>2, <2>3
<1>11. \A a \in pending'[r] : a \in nodes' /\ Len(a) <= Len(t) /\ Fits(a, t, Len(a))
  BY <1>1, <1>3, <1>4, <1>10
<1>12. ASSUME NEW a \in pending'[r], NEW b \in pending'[r], IsPrefix(a, b) PROVE a = b
  <2>1. CASE a \in pending[r] /\ b \in pending[r]
    BY <1>4, <1>12, <2>1
  <2>2. CASE a \in C /\ b \in pending[r] /\ b # q
    <3>1. IsPrefix(q, b)
      BY <1>1, <1>4, <1>10, <1>12, <2>2, PrefixOrder
    <3> QED BY <1>2, <1>4, <2>2, <3>1
  <2>3. CASE a \in pending[r] /\ a # q /\ b \in C
    <3>1. PICK x \in Token : b = Append(q, x)
      BY <1>6, <2>3
    <3>2. IsPrefix(a, q) \/ a = b
      BY <1>1, <1>4, <1>12, <2>3, <3>1, BelowExtended
    <3> QED BY <1>2, <1>4, <2>3, <3>2
  <2>4. CASE a \in C /\ b \in C
    <3>1. a \in Seq(Token) /\ b \in Seq(Token) /\ Len(a) = n + 1 /\ Len(b) = n + 1
      BY <1>10, <2>4
    <3>2. \A i \in 1..Len(a) : a[i] = b[i]
      BY <1>12, <3>1, PrefixPointwise
    <3> QED BY <1>1, <3>1, <3>2
  <2> QED BY <1>3, <2>1, <2>2, <2>3, <2>4
<1>13. ASSUME NEW s \in M
       PROVE  /\ Wanted(s, t) /\ Reaches(q, s, t)
              /\ ~\E a \in pending'[r] : Reaches(a, s, t)
  <2>1. s \in ValidSub /\ Path[s] = Append(q, ML) /\ s \in subs[Path[s]]
    BY <1>8
  <2>2. Path[s] \in Seq(Token) /\ Len(Path[s]) = n + 1 /\ Path[s][n + 1] = ML /\ IsPrefix(q, Path[s])
        /\ \A i \in 1..n : Path[s][i] = q[i]
    BY <1>1, <2>1, Extended DEF n
  <2>3. Fits(Path[s], t, n)
    BY <1>2, <2>2 DEF Fits
  <2>4. MatchesRest(Path[s], t)
    BY <1>1, <2>2, <2>3, EmptyPath DEF MatchesRest
  <2>5. ~MatchesWhole(Path[s], t)
    BY <1>1, <2>2 DEF MatchesWhole, Fits
  <2>6. Wanted(s, t) /\ Reaches(q, s, t)
    BY <1>1, <2>1, <2>2, <2>4 DEF Wanted, Reaches, Matches, n
  <2>7. ASSUME NEW a \in pending'[r], Reaches(a, s, t) PROVE FALSE
    <3>1. IsPrefix(a, Path[s]) /\ Len(a) < n + 1
      BY <2>2, <2>5, <2>7 DEF Reaches
    <3>2. a \in pending[r] /\ a # q
      BY <1>1, <1>3, <1>10, <3>1
    <3>3. a \in Seq(Token)
      BY <1>4, <3>2
    <3>4. IsPrefix(a, q) \/ a = Path[s]
      BY <1>1, <2>1, <3>1, <3>3, BelowExtended
    <3> QED BY <1>2, <1>4, <2>2, <3>1, <3>2, <3>4
  <2> QED BY <2>6, <2>7
<1>14. ASSUME NEW s \in Sub, s \notin M, Wanted(s, t)
       PROVE  (\E a \in pending[r] : Reaches(a, s, t)) <=> (\E a \in pending'[r] : Reaches(a, s, t))
  <2> DEFINE p == Path[s]
  <2>0. s \in ValidSub /\ s \in subs[p] /\ p \in Seq(Token) /\ p \in nodes
    BY <1>14, PathSeq, PathsClosed DEF Wanted, TreeInv, Placed
  <2>1. ASSUME NEW a \in pending[r], Reaches(a, s, t)
        PROVE  \E b \in pending'[r] : Reaches(b, s, t)
    <3>1. CASE a # q
      BY <1>3, <2>1, <3>1
    <3>2. CASE a = q
      <4>1. IsPrefix(q, p)
        BY <2>1, <3>2 DEF Reaches
      <4>2. n < Len(p) /\ (MatchesWhole(p, t) \/ (MatchesRest(p, t) /\ n + 1 < Len(p)))
        <5>1. CASE MatchesWhole(p, t)
          BY <1>1, <5>1 DEF MatchesWhole
        <5>2. CASE ~MatchesWhole(p, t)
          <6>1. MatchesRest(p, t) /\ n < Len(p)
            BY <2>1, <3>2, <5>2 DEF Reaches, n
          <6>2. n + 1 # Len(p)
            <7>1. SUFFICES ASSUME n + 1 = Len(p) PROVE FALSE
              OBVIOUS
            <7>2. p[n + 1] = ML
              BY <6>1, <7>1 DEF MatchesRest
            <7>3. IsPrefix(Append(q, ML), p)
              BY <1>1, <2>0, <4>1, <6>1, <7>2, Extended DEF n
            <7>4. p = Append(q, ML)
              <8> DEFINE c == Append(q, ML)
              <8>1. c \in Seq(Token) /\ Len(c) = Len(p)
                BY <1>1, <7>1, Extended DEF n
              <8> HIDE DEF c
              <8>2. \A i \in 1..Len(c) : c[i] = p[i]
                BY <2>0, <7>3, <8>1, PrefixPointwise DEF c
              <8>3. c = p
                BY <2>0, <8>1, <8>2
              <8> QED BY <8>3 DEF c
            <7> QED BY <1>9, <1>14, <2>0, <7>4
          <6> QED BY <1>1, <2>0, <6>1, <6>2
        <5> QED BY <5>1, <5>2
      <4>3. p[n + 1] = SL \/ (p[n + 1] = tok /\ p[n + 1] # ML)
        <5>1. CASE MatchesWhole(p, t)
          BY <1>1, <2>0, <4>2, <5>1 DEF MatchesWhole, Fits, tok
        <5>2. CASE MatchesRest(p, t) /\ n + 1 < Len(p)
          BY <1>1, <2>0, <4>2, <5>2 DEF MatchesRest, Fits, tok
        <5> QED BY <4>2, <5>1, <5>2
      <4>4. PICK x \in Token : x = p[n + 1]
        BY <1>1, <4>3
      <4>5. IsPrefix(Append(q, x), p) /\ Append(q, x) \in Seq(Token) /\ Len(Append(q, x)) = n + 1
        BY <1>1, <2>0, <4>1, <4>2, <4>4, Extended DEF n
      <4>6. Append(q, x) \in nodes
        BY <2>0, <4>5, PrefixesSeq DEF TreeInv, ParentClosed
      <4>7. Append(q, x) \in C
        BY <1>7, <4>3, <4>4, <4>6
      <4>8. Reaches(Append(q, x), s, t)
        BY <4>2, <4>5 DEF Reaches
      <4> QED BY <1>3, <4>7, <4>8
    <3> QED BY <3>1, <3>2
  <2>2. ASSUME NEW b \in pending'[r], Reaches(b, s, t)
        PROVE  \E a \in pending[r] : Reaches(a, s, t)
    <3>1. CASE b \in pending[r]
      BY <2>2, <3>1
    <3>2. CASE b \in C
      <4>1. b \in Seq(Token) /\ Len(b) = n + 1 /\ IsPrefix(q, b)
        BY <1>10, <3>2
      <4>2. IsPrefix(q, p)
        BY <1>1, <2>0, <2>2, <4>1, PrefixOrder DEF Reaches
      <4>3. Len(q) < Len(b)
        BY <1>1, <4>1 DEF n
      <4>4. Reaches(q, s, t)
        BY <1>1, <2>0, <2>2, <4>1, <4>2, <4>3 DEF Reaches
      <4> QED BY <1>2, <4>4
    <3> QED BY <1>3, <3>1, <3>2
  <2> QED BY <2>1, <2>2
<1>15. ASSUME NEW s \in Sub
       PROVE  copies'[r][s] = IF Wanted(s, t) /\ ~\E a \in pending'[r] : Reaches(a, s, t)
                              THEN 1 ELSE 0
  <2>1. CASE s \in M
    <3>1. copies[r][s] = 0
      BY <1>2, <1>5, <1>13, <2>1
    <3> QED BY <1>3, <1>13, <2>1, <3>1
  <2>2. CASE s \notin M /\ Wanted(s, t)
    BY <1>3, <1>5, <1>14, <2>2
  <2>3. CASE s \notin M /\ ~Wanted(s, t)
    BY <1>3, <1>5, <2>3
  <2> QED BY <2>1, <2>2, <2>3
<1>16. t = Toks[topic'[r]] /\ \A s : Wanted(s, t)' <=> Wanted(s, t)
  BY <1>3 DEF t, Wanted
<1> QED
  BY <1>2, <1>3, <1>11, <1>12, <1>15, <1>16 DEF WalkInv, t, Wanted

\* Visiting a node at the end of the topic.
LEMMA WalkCollect ==
    ASSUME TreeInv, NEW r \in Reader, NEW q \in Paths, FindCollect(r, q), WalkInv(r)
    PROVE  WalkInv(r)'
<1> DEFINE t == Toks[topic[r]]
<1>1. q \in Seq(Token) /\ t \in Seq(Token) /\ Len(q) = Len(t)
  BY PathsClosed, PathSeq DEF WalkInv, FindCollect
<1>2. q \in pending[r] /\ Fits(q, t, Len(q)) /\ topic[r] \in ValidTopic
  BY DEF FindCollect, WalkInv
<1>3. /\ topic' = topic /\ nodes' = nodes /\ subs' = subs
      /\ pending'[r] = pending[r] \ {q}
      /\ \A s \in Sub : copies'[r][s] = IF s \in subs[q] THEN copies[r][s] + 1 ELSE copies[r][s]
  BY DEF FindCollect, treeVars, CopyToArray, TreeInv, TypeOK
<1>4. /\ \A a \in pending[r] : a \in nodes /\ a \in Seq(Token) /\ Len(a) <= Len(t) /\ Fits(a, t, Len(a))
      /\ \A a, b \in pending[r] : IsPrefix(a, b) => a = b
  BY PathsClosed DEF WalkInv, TreeInv, TypeOK
<1>5. \A s \in Sub : copies[r][s] = IF Wanted(s, t) /\ ~\E a \in pending[r] : Reaches(a, s, t)
                                    THEN 1 ELSE 0
  BY DEF WalkInv
<1>6. ASSUME NEW s \in subs[q]
      PROVE  s \in Sub /\ s \in ValidSub /\ Path[s] = q /\ s \in subs[Path[s]]
  BY DEF TreeInv, Placed, TypeOK
<1> HIDE DEF t
<1>7. ASSUME NEW s \in subs[q]
      PROVE  /\ Wanted(s, t) /\ Reaches(q, s, t)
             /\ ~\E a \in pending'[r] : Reaches(a, s, t)
  <2>1. MatchesWhole(Path[s], t) /\ IsPrefix(q, Path[s])
    BY <1>1, <1>2, <1>6, EmptyPath DEF MatchesWhole
  <2>2. ASSUME NEW a \in pending'[r], Reaches(a, s, t) PROVE FALSE
    BY <1>2, <1>3, <1>4, <1>6, <2>2 DEF Reaches
  <2> QED BY <1>6, <2>1, <2>2 DEF Wanted, Reaches, Matches
<1>8. ASSUME NEW s \in Sub, s \notin subs[q], Wanted(s, t) PROVE ~Reaches(q, s, t)
  <2> SUFFICES ASSUME Reaches(q, s, t) PROVE FALSE
    OBVIOUS
  <2>1. s \in ValidSub /\ s \in subs[Path[s]] /\ Path[s] \in Seq(Token) /\ IsPrefix(q, Path[s])
    BY <1>8, PathSeq DEF Wanted, Reaches
  <2>2. CASE MatchesWhole(Path[s], t)
    <3>1. Len(q) = Len(Path[s]) /\ \A i \in 1..Len(q) : q[i] = Path[s][i]
      BY <1>1, <2>1, <2>2, PrefixPointwise DEF MatchesWhole
    <3>2. q = Path[s]
      BY <1>1, <2>1, <3>1
    <3> QED BY <1>8, <2>1, <3>2
  <2>3. CASE MatchesRest(Path[s], t) /\ Len(q) < Len(Path[s])
    BY <1>1, <2>1, <2>3 DEF MatchesRest
  <2> QED BY <2>2, <2>3 DEF Reaches
<1>9. ASSUME NEW s \in Sub
      PROVE  copies'[r][s] = IF Wanted(s, t) /\ ~\E a \in pending'[r] : Reaches(a, s, t)
                             THEN 1 ELSE 0
  <2>1. CASE s \in subs[q]
    <3>1. copies[r][s] = 0
      BY <1>2, <1>5, <1>7, <2>1
    <3> QED BY <1>3, <1>7, <2>1, <3>1
  <2>2. CASE s \notin subs[q] /\ Wanted(s, t)
    <3>1. (\E a \in pending[r] : Reaches(a, s, t)) <=> (\E a \in pending'[r] : Reaches(a, s, t))
      BY <1>3, <1>8, <2>2
    <3> QED BY <1>3, <1>5, <2>2, <3>1
  <2>3. CASE s \notin subs[q] /\ ~Wanted(s, t)
    BY <1>3, <1>5, <2>3
  <2> QED BY <2>1, <2>2, <2>3
<1> QED
  BY <1>2, <1>3, <1>4, <1>9 DEF WalkInv, t, Wanted

\* A walk starts at the root with nothing collected.
LEMMA WalkBegin ==
    ASSUME TreeInv, NEW r \in Reader, NEW t \in PubTopic, FindBegin(r, t)
    PROVE  WalkInv(r)'
<1>1. /\ t \in ValidTopic /\ topic'[r] = t /\ pending'[r] = {<<>>}
      /\ nodes' = nodes /\ subs' = subs
      /\ \A s \in Sub : copies'[r][s] = 0
  BY DEF FindBegin, treeVars, TreeInv, TypeOK
<1>2. Toks[t] \in Seq(Token)
  BY <1>1, PathSeq
<1>3. <<>> \in nodes /\ Len(<<>>) <= Len(Toks[t]) /\ Fits(<<>>, Toks[t], Len(<<>>))
  BY <1>2, EmptyPath DEF TreeInv, ParentClosed, Fits
<1>4. ASSUME NEW s \in Sub, Wanted(s, Toks[t]) PROVE Reaches(<<>>, s, Toks[t])
  <2>1. s \in ValidSub /\ Path[s] \in Seq(Token)
    BY <1>4, PathSeq DEF Wanted
  <2>2. IsPrefix(<<>>, Path[s])
    BY <2>1, EmptyPath
  <2>3. MatchesRest(Path[s], Toks[t]) => Len(<<>>) < Len(Path[s])
    <3>1. Path[s] # <<>> => Len(Path[s]) # 0
      BY <2>1, EmptyPath
    <3>2. Len(Path[s]) \in Nat /\ Len(<<>>) = 0
      BY <2>1, EmptyPath
    <3> QED BY <3>1, <3>2 DEF MatchesRest
  <2> QED BY <1>4, <2>2, <2>3 DEF Wanted, Matches, Reaches
<1>5. \A s \in Sub : Wanted(s, Toks[t])' <=> Wanted(s, Toks[t])
  BY <1>1 DEF Wanted
<1> QED
  BY <1>1, <1>3, <1>4, <1>5 DEF WalkInv, Wanted

\* A step that leaves the tree and a reader's walk alone.
LEMMA WalkUnchanged ==
    ASSUME NEW r \in Reader, WalkInv(r), nodes' = nodes, subs' = subs,
           topic'[r] = topic[r], pending'[r] = pending[r], copies'[r] = copies[r]
    PROVE  WalkInv(r)'
  BY DEF WalkInv, Wanted

\* Nobody is walking at first.
LEMMA FindInit == Init => FindInv
  BY TreeInit DEF Init, FindInv

\* A walk will have collected what it should, whatever step comes next: writers wait
\* for readers.
LEMMA FindNext == FindInv /\ [Next]_vars => FindInv'
<1> SUFFICES ASSUME FindInv, [Next]_vars PROVE FindInv'
  OBVIOUS
<1>0. TreeInv /\ TreeInv' /\ TypeOK
  BY TreeNext DEF FindInv, TreeInv
<1> SUFFICES ASSUME NEW r \in Reader, pc'[r] = "walk" PROVE WalkInv(r)'
  BY <1>0 DEF FindInv
<1>1. pc[r] = "walk" => WalkInv(r)
  BY DEF FindInv
<1>2. CASE UNCHANGED vars
  BY <1>1, <1>2, WalkUnchanged DEF vars
<1>3. ASSUME NEW s \in Sub, Add(s) \/ Del(s) PROVE WalkInv(r)'
  <2>1. UNCHANGED findVars
    BY <1>3 DEF Add, Del, AddInvalid, AddNew, AddDup, AddNoMemory, AddUndefined, AddGivesUp,
                    ExtractUndefined, DelAbsent, DelPresent, DelDangling
  <2>2. pc[r] = "walk" /\ WalkInv(r)
    BY <1>1, <2>1 DEF findVars
  <2>3. ~WriteLock
    BY <2>2 DEF WriteLock
  <2>4. nodes' = nodes /\ subs' = subs
    BY <1>3, <2>3 DEF Add, Del, AddInvalid, AddNew, AddDup, AddNoMemory, AddUndefined, AddGivesUp,
                    ExtractUndefined, DelAbsent, DelPresent, DelDangling
  <2> QED BY <2>1, <2>2, <2>4, WalkUnchanged DEF findVars
<1>4. ASSUME NEW x \in Reader, Find(x) PROVE WalkInv(r)'
  <2>1. nodes' = nodes /\ subs' = subs
    BY <1>4 DEF Find, Walk, FindBegin, FindInvalid, FindDescend, FindCollect, FindEnd, FindReturn,
                FindExits, ExtractUndefined, treeVars
  <2>2. CASE x # r
    <3>1. pc'[r] = pc[r] /\ topic'[r] = topic[r] /\ pending'[r] = pending[r] /\ copies'[r] = copies[r]
      BY <1>0, <1>4, <2>2
      DEF TypeOK, Find, Walk, FindBegin, FindInvalid, FindDescend, FindCollect, FindEnd, FindReturn,
          FindExits, ExtractUndefined, findVars
    <3> QED BY <1>1, <2>1, <3>1, WalkUnchanged
  <2>3. ASSUME x = r, NEW t \in PubTopic, FindBegin(r, t) PROVE WalkInv(r)'
    BY <1>0, <2>3, WalkBegin
  <2>4. ASSUME x = r, NEW q \in Paths, FindDescend(r, q) PROVE WalkInv(r)'
    <3>1. WalkInv(r)
      BY <1>1, <2>4 DEF FindDescend
    <3> QED BY <1>0, <2>4, <3>1, WalkDescend
  <2>5. ASSUME x = r, NEW q \in Paths, FindCollect(r, q) PROVE WalkInv(r)'
    <3>1. WalkInv(r)
      BY <1>1, <2>5 DEF FindCollect
    <3> QED BY <1>0, <2>5, <3>1, WalkCollect
  <2>6. ASSUME x = r, (\E t \in PubTopic : FindInvalid(r, t)) \/ FindEnd(r) \/ FindReturn(r)
        PROVE  FALSE
    BY <1>0, <2>6 DEF TypeOK, FindInvalid, FindEnd, FindReturn
  <2>7. ASSUME x = r, FindExits(r) \/ \E t \in PubTopic : ExtractUndefined(t) PROVE WalkInv(r)'
    <3>1. UNCHANGED findVars
      BY <2>7 DEF FindExits, ExtractUndefined
    <3> QED BY <1>1, <2>1, <3>1, WalkUnchanged DEF findVars
  <2> QED BY <1>4, <2>2, <2>3, <2>4, <2>5, <2>6, <2>7 DEF Find, Walk
<1> QED BY <1>2, <1>3, <1>4 DEF Next

\* A walk with nothing left to visit has collected what it should.
LEMMA FindInvExact == FindInv => FindExact
<1> SUFFICES ASSUME FindInv, NEW r \in Reader, pc[r] = "walk", pending[r] = {}, NEW s \in Sub
             PROVE  copies[r][s] = IF /\ s \in ValidSub /\ s \in subs[Path[s]]
                                      /\ Matches(Path[s], Toks[topic[r]])
                                   THEN 1 ELSE 0
  BY DEF FindExact
<1> QED BY DEF FindInv, WalkInv, Wanted

\* Finds are exact, for every set of subscribers, every topic and any number of
\* concurrent readers: the array that topic__tree_find_subscribers returns has
\* one copy of each registered subscriber that matches by the reference
\* definition, and no other, even after allocations have failed.
THEOREM FindsAreExact == Spec => []FindExact
  BY FindInit, FindNext, FindInvExact, PTL DEF Spec

-----------------------------------------------------------------------------
(***************************************************************************)
(* The tree implements the abstract set of subscriptions.                  *)
(***************************************************************************)
\* Both modules read topics the same way.
LEMMA SameTopics ==
    /\ \A t : Abstract!Valid(t) <=> Valid(t)
    /\ \A t : Abstract!Tokens(t) = Tokens(t)
    /\ \A p, t : Abstract!Matches(p, t) <=> Matches(p, t)
<1>1. \A t : Abstract!Words(t) = Words(t)
  BY DEF Abstract!Words, Words
<1>2. ASSUME NEW t PROVE Abstract!Valid(t) <=> Valid(t)
  BY <1>1 DEF Abstract!Valid, Valid, Abstract!Copied, Copied, Abstract!Last, Last
<1>4. ASSUME NEW t PROVE Abstract!Tokens(t) = Tokens(t)
  BY Zenon DEF Abstract!Tokens, Tokens, Abstract!WordAt, WordAt, Abstract!Words, Words,
               Abstract!Cardinality, Cardinality
<1>5. ASSUME NEW p, NEW t PROVE Abstract!Matches(p, t) <=> Matches(p, t)
  BY DEF Abstract!Matches, Matches, Abstract!MatchesWhole, MatchesWhole, Abstract!MatchesRest,
         MatchesRest, Abstract!Fits, Fits, Abstract!SL, SL, Abstract!ML, ML
<1> QED BY <1>2, <1>4, <1>5

\* The empty tree is the empty set of subscriptions.
LEMMA AbstractInit == Init => Abstract!Init
  BY PathsClosed DEF Init, Abstract!Init, Registered, Answer, Abstract!NoAnswer

\* Every step is one of the set of subscriptions, or leaves it alone.
LEMMA AbstractNext ==
    FindInv /\ [Next]_vars => [Abstract!Next]_(Abstract!subscriptionVars)
<1> SUFFICES ASSUME FindInv, [Next]_vars
             PROVE  Abstract!Next \/ UNCHANGED <<Registered, ret, Answer>>
  BY DEF Abstract!subscriptionVars
<1> USE DEF Abstract!Returns, Abstract!NoAnswer
<1>0. TypeOK /\ TypeOK' /\ Placed /\ FindExact
  BY TypeNext, FindInvExact DEF FindInv, TreeInv
<1>1. CASE UNCHANGED vars
  BY <1>1 DEF vars, Registered, Answer
<1>2. ASSUME NEW s \in Sub, Add(s) PROVE Abstract!Subscribe(s) \/ UNCHANGED <<Registered, ret, Answer>>
  <2>1. Answer' = Answer
    BY <1>2 DEF Add, AddInvalid, AddNew, AddDup, AddNoMemory, AddUndefined, AddGivesUp, ExtractUndefined,
                findVars, Answer
  <2>2. CASE AddInvalid(s)
    BY <2>1, <2>2, SameTopics DEF AddInvalid, Abstract!Subscribe, Registered, ValidSub
  <2>3. CASE AddNew(s)
    <3>1. s \in ValidSub /\ Path[s] \in Paths
      BY <2>3, PathsClosed DEF AddNew
    <3>2. Registered' = Registered \cup {s}
      <4>1. ASSUME NEW x \in ValidSub, x # s PROVE x \in subs'[Path[x]] <=> x \in subs[Path[x]]
        BY <1>0, <2>3, <4>1, PathsClosed DEF AddNew, TypeOK
      <4>2. s \in subs'[Path[s]]
        BY <1>0, <2>3, <3>1 DEF AddNew, TypeOK
      <4> QED BY <3>1, <4>1, <4>2 DEF Registered, ValidSub
    <3> QED BY <2>1, <2>3, <3>1, <3>2, SameTopics DEF AddNew, Abstract!Subscribe, Registered, ValidSub
  <2>4. CASE AddDup(s)
    BY <2>1, <2>4 DEF AddDup, Abstract!Subscribe, Registered
  <2>5. ASSUME s \in ValidSub, NEW k \in 0..Len(Path[s]), AddNoMemory(s, k) PROVE Abstract!Subscribe(s)
    BY <2>1, <2>5 DEF AddNoMemory, AddGivesUp, Abstract!Subscribe, Registered
  <2>6. ASSUME s \in ValidSub, NEW k \in 0..Len(Path[s]), AddUndefined(s, k)
        PROVE  UNCHANGED <<Registered, ret, Answer>>
    BY <2>1, <2>6 DEF AddUndefined, AddGivesUp, Registered
  <2>7. CASE ExtractUndefined(TopicOf[s])
    BY <2>1, <2>7 DEF ExtractUndefined, Registered
  <2> QED BY <1>2, <2>2, <2>3, <2>4, <2>5, <2>6, <2>7 DEF Add
<1>3. ASSUME NEW s \in Sub, DelAbsent(s) PROVE Abstract!Unsubscribe(s)
  <2>1. Answer' = Answer /\ Registered' = Registered /\ ret' = "OK"
    BY <1>3 DEF DelAbsent, findVars, Answer, Registered
  <2>2. s \notin Registered
    BY <1>0, <1>3, PathsClosed DEF DelAbsent, Registered, Placed
  <2> QED BY <2>1, <2>2 DEF Abstract!Unsubscribe
<1>4. ASSUME NEW s \in Sub, DelPresent(s) PROVE Abstract!Unsubscribe(s)
  <2>1. Answer' = Answer /\ ret' = "OK" /\ subs' = [subs EXCEPT ![node[s]] = @ \ {s}]
    BY <1>4 DEF DelPresent, findVars, Answer
  <2>2. node[s] \in Paths /\ s \in ValidSub /\ node[s] = Path[s]
    BY <1>0, <1>4 DEF DelPresent, TypeOK, Placed
  <2>3. \A x \in ValidSub : x \in subs'[Path[x]] <=> x \in subs[Path[x]] /\ x # s
    BY <1>0, <2>1, <2>2, PathsClosed DEF TypeOK
  <2>4. Registered' = Registered \ {s}
    BY <2>3 DEF Registered, ValidSub
  <2> QED BY <2>1, <2>4 DEF Abstract!Unsubscribe
<1>5. ASSUME NEW s \in Sub, DelDangling(s) PROVE UNCHANGED <<Registered, ret, Answer>>
  BY <1>5 DEF DelDangling, findVars, Registered, Answer
<1>11. ASSUME NEW t, ExtractUndefined(t) PROVE UNCHANGED <<Registered, ret, Answer>>
  BY <1>11 DEF ExtractUndefined, findVars, Registered, Answer
<1>12. ASSUME NEW r \in Reader, FindExits(r) PROVE UNCHANGED <<Registered, ret, Answer>>
  BY <1>12 DEF FindExits, findVars, Registered, Answer
<1>6. ASSUME NEW r \in Reader, Find(r) PROVE Registered' = Registered /\ ret' = ret
  BY <1>6 DEF Find, Walk, FindBegin, FindInvalid, FindDescend, FindCollect, FindEnd, FindReturn,
              FindExits, ExtractUndefined, treeVars, Registered
<1>7. ASSUME NEW r \in Reader, (\E t \in PubTopic : FindBegin(r, t))
             \/ \E q \in Paths : FindDescend(r, q) \/ FindCollect(r, q)
      PROVE  Answer' = Answer
  <2>1. pc[r] # "done" /\ pc'[r] # "done"
    BY <1>0, <1>7 DEF FindBegin, FindDescend, FindCollect, TypeOK
  <2>2. \A x \in Reader : x # r => pc'[x] = pc[x] /\ copies'[x] = copies[x]
    BY <1>0, <1>7 DEF FindBegin, FindDescend, FindCollect, TypeOK
  <2> QED BY <2>1, <2>2 DEF Answer
<1>8. ASSUME NEW r \in Reader, NEW t \in PubTopic, FindInvalid(r, t) PROVE Abstract!Query(r, t)
  <2>1. ~Valid(t)
    BY <1>8 DEF FindInvalid, ValidTopic
  <2>2. Answer' = [Answer EXCEPT ![r] = <<[s \in Sub |-> 0]>>] /\ Answer[r] = <<>>
    BY <1>0, <1>8 DEF FindInvalid, Answer, TypeOK
  <2>3. Abstract!Exact(t) = [s \in Sub |-> 0]
    BY <2>1, SameTopics DEF Abstract!Exact
  <2>4. Registered' = Registered /\ ret' = ret
    BY <1>6, <1>8 DEF Find
  <2> QED BY <2>2, <2>3, <2>4 DEF Abstract!Query
<1>9. ASSUME NEW r \in Reader, FindEnd(r) PROVE \E t \in PubTopic : Abstract!Query(r, t)
  <2> DEFINE t == topic[r]
  <2>1. t \in ValidTopic /\ t \in PubTopic /\ Valid(t) /\ Toks[t] = Tokens(t)
    BY <1>9 DEF FindEnd, FindInv, WalkInv, ValidTopic, Toks
  <2>2. Answer' = [Answer EXCEPT ![r] = <<copies[r]>>] /\ Answer[r] = <<>>
    BY <1>0, <1>9 DEF FindEnd, Answer, TypeOK
  <2>3. copies[r] = Abstract!Exact(t)
    <3>1. copies[r] = [s \in Sub |-> copies[r][s]]
      BY <1>0 DEF TypeOK
    <3>2. ASSUME NEW s \in Sub
          PROVE  copies[r][s] = IF s \in Registered /\ Valid(t) /\ Matches(Tokens(TopicOf[s]), Tokens(t))
                                THEN 1 ELSE 0
      BY <1>0, <1>9, <2>1 DEF FindEnd, FindExact, Registered, Path
    <3> QED BY <3>1, <3>2, SameTopics DEF Abstract!Exact
  <2>4. Registered' = Registered /\ ret' = ret
    BY <1>6, <1>9 DEF Find, Walk
  <2> QED BY <2>1, <2>2, <2>3, <2>4 DEF Abstract!Query
<1>10. ASSUME NEW r \in Reader, FindReturn(r) PROVE Abstract!Forget(r)
  <2>1. Answer' = [Answer EXCEPT ![r] = <<>>]
    BY <1>0, <1>10 DEF FindReturn, Answer, TypeOK
  <2>2. Registered' = Registered /\ ret' = ret
    BY <1>6, <1>10 DEF Find
  <2> QED BY <2>1, <2>2 DEF Abstract!Forget
<1> QED
  BY <1>1, <1>2, <1>3, <1>4, <1>5, <1>6, <1>7, <1>8, <1>9, <1>10, <1>11, <1>12
  DEF Next, Del, Find, Walk, Abstract!Next

\* The topic tree implements the plain set of subscriptions of Subscriptions, up
\* to the first allocation whose failure is undefined behaviour: adds and deletes
\* take effect at once and report truthfully, and each find answers, at one
\* instant, with exactly the matching subscriptions.
THEOREM TreeImplementsSubscriptions == Spec => ImplementsSubscriptions
<1>1. FindInv /\ [Next]_vars => [Abstract!Next]_(Abstract!subscriptionVars)
  BY AbstractNext
<1> QED
  BY <1>1, AbstractInit, FindInit, FindNext, PTL DEF Spec, ImplementsSubscriptions, Abstract!Spec
=============================================================================
