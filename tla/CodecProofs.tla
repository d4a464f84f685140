------------------------------ MODULE CodecProofs --------------------------------
(***************************************************************************)
(* The theorems about the text of headers, for all topics and sizes.       *)
(***************************************************************************)
EXTENDS Codec, FiniteSetTheorems, SequenceTheorems, WellFoundedInduction, TLAPS

-----------------------------------------------------------------------------
(***************************************************************************)
(* Induction over numbers and over what a fold of the community modules    *)
(* computes, without a predicate or an operator as a parameter.            *)
(***************************************************************************)
LEMMA Steps ==
    ASSUME NEW n \in Nat, NEW P, 0 \in P, \A i \in 1 .. n : i - 1 \in P => i \in P
    PROVE  \A i \in 0 .. n : i \in P
<1> DEFINE Q == {i \in 0 .. n : i \notin P}
<1> SUFFICES ASSUME Q # {} PROVE FALSE
  OBVIOUS
<1>1. PICK i \in Q : \A j \in Q : ~(j < i)
  <2>1. Q \subseteq Nat
    OBVIOUS
  <2>2. \E i \in Q : \A j \in Q : ~(<<j, i>> \in OpToRel(<, Nat))
    <3> HIDE DEF Q
    <3> QED BY <2>1, WFMin, NatLessThanWellFounded
  <2>3. \A i, j \in Q : j < i => <<j, i>> \in OpToRel(<, Nat)
    BY <2>1 DEF OpToRel
  <2> HIDE DEF Q
  <2> QED BY <2>2, <2>3
<1>2. i \in 1 .. n /\ i - 1 \in 0 .. n /\ i - 1 < i
  OBVIOUS
<1>3. i - 1 \notin Q
  BY <1>1, <1>2
<1> QED BY <1>2, <1>3

\* The largest of some numbers up to n.
LEMMA MaxOf ==
    ASSUME NEW n \in Nat, NEW s \in SUBSET (1 .. n)
    PROVE  n \in s => Max(s) = n
<1> SUFFICES ASSUME n \in s PROVE Max(s) = n
  OBVIOUS
<1>1. \A x \in s : (\A y \in s : x >= y) <=> x = n
  OBVIOUS
<1>2. \E x \in s : \A y \in s : x >= y
  BY <1>1
<1>3. Max(s) \in s /\ \A y \in s : Max(s) >= y
  BY <1>2 DEF Max
<1> QED BY <1>1, <1>3

LEMMA MaxIn ==
    ASSUME NEW n \in Nat, NEW s \in SUBSET (1 .. n), s # {}
    PROVE  Max(s) \in s /\ \A j \in s : j <= Max(s)
<1> DEFINE Has(i) == \A t \in SUBSET (1 .. i) : t # {} => \E x \in t : \A y \in t : x >= y
           P == {i \in 0 .. n : Has(i)}
<1>1. 0 \in P
  <2>1. \A t \in SUBSET (1 .. 0) : t = {}
    OBVIOUS
  <2>2. Has(0)
    BY <2>1
  <2> HIDE DEF Has
  <2> QED BY <2>2
<1>2. ASSUME NEW i \in 1 .. n, i - 1 \in P PROVE i \in P
  <2> SUFFICES ASSUME NEW t \in SUBSET (1 .. i), t # {} PROVE \E x \in t : \A y \in t : x >= y
    BY <1>2
  <2>1. CASE i \in t
    BY <2>1
  <2>2. CASE i \notin t
    <3>1. t \in SUBSET (1 .. (i - 1))
      BY <2>2
    <3> QED BY <1>2, <3>1
  <2> QED BY <2>1, <2>2
<1>3. n \in P
  <2> HIDE DEF P
  <2>1. \A i \in 0 .. n : i \in P
    BY <1>1, <1>2, Steps
  <2> QED BY <2>1
<1>4. \E x \in s : \A y \in s : x >= y
  BY <1>3
<1>5. Max(s) \in s /\ \A y \in s : Max(s) >= y
  BY <1>4 DEF Max
<1> QED BY <1>5

LEMMA UpTo ==
    /\ 1 .. 0 = {}
    /\ \A i \in Nat \ {0} : 1 .. i # {} /\ Max(1 .. i) = i /\ (1 .. i) \ {i} = 1 .. (i - 1)
<1>1. ASSUME NEW i \in Nat \ {0} PROVE 1 .. i # {} /\ Max(1 .. i) = i /\ (1 .. i) \ {i} = 1 .. (i - 1)
  <2>1. i \in 1 .. i /\ 1 .. i \in SUBSET (1 .. i) /\ i \in Nat
    OBVIOUS
  <2>2. Max(1 .. i) = i
    BY <2>1, MaxOf
  <2>3. (1 .. i) \ {i} = 1 .. (i - 1)
    OBVIOUS
  <2> QED BY <2>1, <2>2, <2>3
<1> QED BY <1>1

\* The elements are taken in their order, each with the function next.
Iterates(n, base, next, h) ==
    \A s \in SUBSET (1 .. n) : h[s] = IF s = {} THEN base ELSE next[<<Max(s), h[s \ {Max(s)}]>>]

LEMMA Iterated ==
    ASSUME NEW n \in Nat, NEW A, NEW base \in A, NEW next \in [(1 .. n) \X A -> A]
    PROVE  \E h \in [SUBSET (1 .. n) -> A] : Iterates(n, base, next, h)
<1> DEFINE P == {i \in 0 .. n : \E h \in [SUBSET (1 .. i) -> A] : Iterates(i, base, next, h)}
<1>1. 0 \in P
  <2> DEFINE h == [s \in SUBSET (1 .. 0) |-> base]
  <2>1. \A s \in SUBSET (1 .. 0) : s = {}
    BY UpTo
  <2>2. h \in [SUBSET (1 .. 0) -> A] /\ Iterates(0, base, next, h)
    BY <2>1 DEF Iterates
  <2> QED BY <2>2
<1>2. ASSUME NEW i \in 1 .. n, i - 1 \in P PROVE i \in P
  <2>1. PICK g \in [SUBSET (1 .. (i - 1)) -> A] : Iterates(i - 1, base, next, g)
    BY <1>2
  <2> DEFINE h == [s \in SUBSET (1 .. i) |-> IF i \in s THEN next[<<i, g[s \ {i}]>>] ELSE g[s]]
  <2>2. ASSUME NEW s \in SUBSET (1 .. i)
        PROVE  s \ {i} \in SUBSET (1 .. (i - 1)) /\ i \notin s \ {i}
    OBVIOUS
  <2>3. ASSUME NEW s \in SUBSET (1 .. i), i \notin s PROVE s \in SUBSET (1 .. (i - 1))
    BY <2>3
  <2>4. h \in [SUBSET (1 .. i) -> A]
    <3>1. ASSUME NEW s \in SUBSET (1 .. i) PROVE h[s] \in A
      <4>1. CASE i \in s
        <5>1. g[s \ {i}] \in A
          BY <2>2
        <5>2. <<i, g[s \ {i}]>> \in (1 .. n) \X A
          BY <5>1
        <5> QED BY <4>1, <5>2
      <4>2. CASE i \notin s
        BY <2>3, <4>2
      <4> QED BY <4>1, <4>2
    <3> QED BY <3>1
  <2>5. ASSUME NEW s \in SUBSET (1 .. i)
        PROVE  h[s] = IF s = {} THEN base ELSE next[<<Max(s), h[s \ {Max(s)}]>>]
    <3>1. CASE i \in s
      <4>1. Max(s) = i
        BY <3>1, MaxOf
      <4>2. h[s \ {i}] = g[s \ {i}]
        BY <2>2
      <4> QED BY <3>1, <4>1, <4>2
    <3>2. CASE i \notin s
      <4>1. s \in SUBSET (1 .. (i - 1)) /\ h[s] = g[s]
        BY <2>3, <3>2
      <4>2. g[s] = IF s = {} THEN base ELSE next[<<Max(s), g[s \ {Max(s)}]>>]
        BY <2>1, <4>1 DEF Iterates
      <4>3. h[s \ {Max(s)}] = g[s \ {Max(s)}]
        BY <3>2
      <4> QED BY <4>1, <4>2, <4>3
    <3> QED BY <3>1, <3>2
  <2> HIDE DEF h
  <2>6. Iterates(i, base, next, h)
    BY <2>5 DEF Iterates
  <2> QED BY <2>4, <2>6
<1>3. n \in P
  <2> HIDE DEF P
  <2>1. \A i \in 0 .. n : i \in P
    BY <1>1, <1>2, Steps
  <2> QED BY <2>1
<1> QED BY <1>3

-----------------------------------------------------------------------------
(***************************************************************************)
(* The folds of Codec, step by step.                                       *)
(***************************************************************************)
Header(B) == Seq(B) \X Seq(B)

\* PutAll.
Puts(A, base, more, p) ==
    /\ p \in [0 .. Len(more) -> A] /\ p[0] = base
    /\ \A i \in 1 .. Len(more) : p[i] = Put(p[i - 1], more[i])

LEMMA PutAllSteps ==
    ASSUME NEW A, NEW base \in A, NEW H, NEW more \in Seq(H), \A a \in A, h \in H : Put(a, h) \in A
    PROVE  \E p : Puts(A, base, more, p) /\ PutAll(base, more) = p[Len(more)]
<1> DEFINE n == Len(more)
           It(g) == g = [s \in SUBSET (DOMAIN more) |->
                          IF s = {} THEN base ELSE Put(g[s \ {Max(s)}], more[Max(s)])]
           next == [q \in (1 .. n) \X A |-> Put(q[2], more[q[1]])]
<1>1. PutAll(base, more) = (CHOOSE g : It(g))[DOMAIN more]
  BY DEF PutAll, FoldLeft, MapThenFoldSet
<1>2. n \in Nat /\ DOMAIN more = 1 .. n /\ \A i \in 1 .. n : more[i] \in H
  OBVIOUS
<1>3. /\ next \in [(1 .. n) \X A -> A] /\ base \in A
      /\ \A i \in 1 .. n, a \in A : next[<<i, a>>] = Put(a, more[i])
  BY <1>2
<1> HIDE DEF next, n
<1>4. PICK h \in [SUBSET (1 .. n) -> A] : Iterates(n, base, next, h)
  BY <1>2, <1>3, Iterated
<1>5. ASSUME NEW s \in SUBSET (1 .. n)
      PROVE  h[s] = IF s = {} THEN base ELSE Put(h[s \ {Max(s)}], more[Max(s)])
  <2>1. CASE s = {}
    BY <1>4, <2>1 DEF Iterates
  <2>2. CASE s # {}
    <3>1. Max(s) \in 1 .. n /\ s \ {Max(s)} \in SUBSET (1 .. n)
      BY <1>2, <2>2, MaxIn
    <3>2. h[s] = next[<<Max(s), h[s \ {Max(s)}]>>]
      BY <1>4, <2>2 DEF Iterates
    <3> QED BY <1>3, <2>2, <3>1, <3>2
  <2> QED BY <2>1, <2>2
<1>6. It(h)
  BY <1>2, <1>5
<1> DEFINE g == CHOOSE g : It(g)
           p == [i \in 0 .. n |-> g[1 .. i]]
<1>7. It(g)
  <2> HIDE DEF It
  <2> QED BY <1>6
<1> HIDE DEF g
<1>8. p[0] = base
  <2>1. 0 \in 0 .. n /\ 1 .. 0 = {} /\ {} \in SUBSET (DOMAIN more)
    BY <1>2, UpTo
  <2>2. g[{}] = base
    BY <1>7, <2>1
  <2> QED BY <2>1, <2>2
<1>9. ASSUME NEW i \in 1 .. n PROVE p[i] = Put(p[i - 1], more[i])
  <2>1. 1 .. i \in SUBSET (1 .. n) /\ 1 .. i # {} /\ Max(1 .. i) = i /\ (1 .. i) \ {i} = 1 .. (i - 1)
    BY <1>2, UpTo
  <2>2. g[1 .. i] = Put(g[1 .. (i - 1)], more[i])
    BY <1>2, <1>7, <2>1
  <2> QED BY <1>2, <2>2
<1>10. PutAll(base, more) = p[n] /\ p = [i \in 0 .. n |-> p[i]]
  BY <1>1, <1>2 DEF g
<1> HIDE DEF p
<1> DEFINE P == {i \in 0 .. n : p[i] \in A}
<1>11. 0 \in P
  BY <1>2, <1>3, <1>8
<1>12. ASSUME NEW i \in 1 .. n, i - 1 \in P PROVE i \in P
  <2>1. i \in 0 .. n /\ p[i - 1] \in A /\ <<i, p[i - 1]>> \in (1 .. n) \X A
    BY <1>2, <1>12
  <2>2. p[i] = next[<<i, p[i - 1]>>]
    BY <1>3, <1>9, <2>1
  <2>3. p[i] \in A
    BY <1>3, <2>1, <2>2
  <2> QED BY <2>1, <2>3
<1>13. \A i \in 0 .. n : i \in P
  <2> HIDE DEF P
  <2> QED BY <1>2, <1>11, <1>12, Steps
<1>14. p \in [0 .. n -> A]
  BY <1>10, <1>13
<1> QED BY <1>8, <1>9, <1>10, <1>14 DEF n, Puts

\* What a HashMap makes of pairs.
MapFrom(hs) == FoldLeft(JavaPut, {}, hs)

LEMMA JavaPutSteps ==
    ASSUME NEW H, NEW hs \in Seq(H)
    PROVE  \E p \in [0 .. Len(hs) -> (SUBSET H)] :
              /\ p[0] = {} /\ MapFrom(hs) = p[Len(hs)]
              /\ \A i \in 1 .. Len(hs) : p[i] = JavaPut(p[i - 1], hs[i])
<1> DEFINE n == Len(hs)
           It(g) == g = [s \in SUBSET (DOMAIN hs) |->
                          IF s = {} THEN {} ELSE JavaPut(g[s \ {Max(s)}], hs[Max(s)])]
           next == [q \in (1 .. n) \X (SUBSET H) |-> JavaPut(q[2], hs[q[1]])]
<1>1. MapFrom(hs) = (CHOOSE g : It(g))[DOMAIN hs]
  BY DEF MapFrom, FoldLeft, MapThenFoldSet
<1>2. n \in Nat /\ DOMAIN hs = 1 .. n /\ \A i \in 1 .. n : hs[i] \in H
  OBVIOUS
<1>3. /\ next \in [(1 .. n) \X (SUBSET H) -> (SUBSET H)] /\ {} \in (SUBSET H)
      /\ \A i \in 1 .. n, a \in (SUBSET H) : next[<<i, a>>] = JavaPut(a, hs[i])
  BY <1>2 DEF JavaPut
<1> HIDE DEF next, n
<1>4. PICK h \in [SUBSET (1 .. n) -> (SUBSET H)] : Iterates(n, {}, next, h)
  BY <1>2, <1>3, Iterated
<1>5. ASSUME NEW s \in SUBSET (1 .. n)
      PROVE  h[s] = IF s = {} THEN {} ELSE JavaPut(h[s \ {Max(s)}], hs[Max(s)])
  <2>1. CASE s = {}
    BY <1>4, <2>1 DEF Iterates
  <2>2. CASE s # {}
    <3>1. Max(s) \in 1 .. n /\ s \ {Max(s)} \in SUBSET (1 .. n)
      BY <1>2, <2>2, MaxIn
    <3>2. h[s] = next[<<Max(s), h[s \ {Max(s)}]>>]
      BY <1>4, <2>2 DEF Iterates
    <3> QED BY <1>3, <2>2, <3>1, <3>2
  <2> QED BY <2>1, <2>2
<1>6. It(h)
  BY <1>2, <1>5
<1> DEFINE g == CHOOSE g : It(g)
           p == [i \in 0 .. n |-> g[1 .. i]]
<1>7. It(g)
  <2> HIDE DEF It
  <2> QED BY <1>6
<1> HIDE DEF g
<1>8. p[0] = {}
  <2>1. 0 \in 0 .. n /\ 1 .. 0 = {} /\ {} \in SUBSET (DOMAIN hs)
    BY <1>2, UpTo
  <2>2. g[{}] = {}
    BY <1>7, <2>1
  <2> QED BY <2>1, <2>2
<1>9. ASSUME NEW i \in 1 .. n PROVE p[i] = JavaPut(p[i - 1], hs[i])
  <2>1. 1 .. i \in SUBSET (1 .. n) /\ 1 .. i # {} /\ Max(1 .. i) = i /\ (1 .. i) \ {i} = 1 .. (i - 1)
    BY <1>2, UpTo
  <2>2. g[1 .. i] = JavaPut(g[1 .. (i - 1)], hs[i])
    BY <1>2, <1>7, <2>1
  <2> QED BY <1>2, <2>2
<1>10. MapFrom(hs) = p[n] /\ p = [i \in 0 .. n |-> p[i]]
  BY <1>1, <1>2 DEF g
<1> HIDE DEF p
<1> DEFINE P == {i \in 0 .. n : p[i] \in (SUBSET H)}
<1>11. 0 \in P
  BY <1>2, <1>3, <1>8
<1>12. ASSUME NEW i \in 1 .. n, i - 1 \in P PROVE i \in P
  <2>1. i \in 0 .. n /\ p[i - 1] \in (SUBSET H) /\ <<i, p[i - 1]>> \in (1 .. n) \X (SUBSET H)
    BY <1>2, <1>12
  <2>2. p[i] = next[<<i, p[i - 1]>>]
    BY <1>3, <1>9, <2>1
  <2>3. p[i] \in (SUBSET H)
    BY <1>3, <2>1, <2>2
  <2> QED BY <2>1, <2>3
<1>13. \A i \in 0 .. n : i \in P
  <2> HIDE DEF P
  <2> QED BY <1>2, <1>11, <1>12, Steps
<1>14. p \in [0 .. n -> (SUBSET H)]
  BY <1>10, <1>13
<1> QED BY <1>8, <1>9, <1>10, <1>14 DEF n

\* The announced size.
LEMMA SizeSteps ==
    ASSUME NEW B, NEW hs \in Seq(Header(B))
    PROVE  \E p \in [0 .. Len(hs) -> Nat] :
              /\ p[0] = 0 /\ SizeOf(hs) = p[Len(hs)]
              /\ \A i \in 1 .. Len(hs) : p[i] = p[i - 1] + Len(hs[i][1]) + Len(hs[i][2]) + 5
<1> DEFINE n == Len(hs)
           It(g) == g = [s \in SUBSET (DOMAIN hs) |->
                          IF s = {} THEN 0 ELSE g[s \ {Max(s)}] + Len(hs[Max(s)][1]) + Len(hs[Max(s)][2]) + 5]
           next == [q \in (1 .. n) \X Nat |-> q[2] + Len(hs[q[1]][1]) + Len(hs[q[1]][2]) + 5]
<1>1. SizeOf(hs) = (CHOOSE g : It(g))[DOMAIN hs]
  BY DEF SizeOf, FoldLeft, MapThenFoldSet
<1>2. n \in Nat /\ DOMAIN hs = 1 .. n /\ \A i \in 1 .. n : hs[i] \in Header(B)
  OBVIOUS
<1>3. /\ next \in [(1 .. n) \X Nat -> Nat] /\ 0 \in Nat
      /\ \A i \in 1 .. n, a \in Nat : next[<<i, a>>] = a + Len(hs[i][1]) + Len(hs[i][2]) + 5
  <2>1. \A i \in 1 .. n : Len(hs[i][1]) \in Nat /\ Len(hs[i][2]) \in Nat
    BY <1>2 DEF Header
  <2>2. \A q \in (1 .. n) \X Nat : q[1] \in 1 .. n /\ q[2] \in Nat
    OBVIOUS
  <2>3. \A q \in (1 .. n) \X Nat : q[2] + Len(hs[q[1]][1]) + Len(hs[q[1]][2]) + 5 \in Nat
    BY <2>1, <2>2
  <2>4. \A i \in 1 .. n, a \in Nat : next[<<i, a>>] = a + Len(hs[i][1]) + Len(hs[i][2]) + 5
    OBVIOUS
  <2> QED BY <2>3, <2>4
<1> HIDE DEF next, n
<1>4. PICK h \in [SUBSET (1 .. n) -> Nat] : Iterates(n, 0, next, h)
  BY <1>2, <1>3, Iterated
<1>5. ASSUME NEW s \in SUBSET (1 .. n)
      PROVE  h[s] = IF s = {} THEN 0 ELSE h[s \ {Max(s)}] + Len(hs[Max(s)][1]) + Len(hs[Max(s)][2]) + 5
  <2>1. CASE s = {}
    BY <1>4, <2>1 DEF Iterates
  <2>2. CASE s # {}
    <3>1. Max(s) \in 1 .. n /\ s \ {Max(s)} \in SUBSET (1 .. n)
      BY <1>2, <2>2, MaxIn
    <3>2. h[s] = next[<<Max(s), h[s \ {Max(s)}]>>]
      BY <1>4, <2>2 DEF Iterates
    <3> QED BY <1>3, <2>2, <3>1, <3>2
  <2> QED BY <2>1, <2>2
<1>6. It(h)
  BY <1>2, <1>5
<1> DEFINE g == CHOOSE g : It(g)
           p == [i \in 0 .. n |-> g[1 .. i]]
<1>7. It(g)
  <2> HIDE DEF It
  <2> QED BY <1>6
<1> HIDE DEF g
<1>8. p[0] = 0
  <2>1. 0 \in 0 .. n /\ 1 .. 0 = {} /\ {} \in SUBSET (DOMAIN hs)
    BY <1>2, UpTo
  <2>2. g[{}] = 0
    BY <1>7, <2>1
  <2> QED BY <2>1, <2>2
<1>9. ASSUME NEW i \in 1 .. n PROVE p[i] = p[i - 1] + Len(hs[i][1]) + Len(hs[i][2]) + 5
  <2>1. 1 .. i \in SUBSET (1 .. n) /\ 1 .. i # {} /\ Max(1 .. i) = i /\ (1 .. i) \ {i} = 1 .. (i - 1)
    BY <1>2, UpTo
  <2>2. g[1 .. i] = g[1 .. (i - 1)] + Len(hs[i][1]) + Len(hs[i][2]) + 5
    BY <1>2, <1>7, <2>1
  <2> QED BY <1>2, <2>2
<1>10. SizeOf(hs) = p[n] /\ p = [i \in 0 .. n |-> p[i]]
  BY <1>1, <1>2 DEF g
<1> HIDE DEF p
<1> DEFINE P == {i \in 0 .. n : p[i] \in Nat}
<1>11. 0 \in P
  BY <1>2, <1>3, <1>8
<1>12. ASSUME NEW i \in 1 .. n, i - 1 \in P PROVE i \in P
  <2>1. i \in 0 .. n /\ p[i - 1] \in Nat /\ <<i, p[i - 1]>> \in (1 .. n) \X Nat
    BY <1>2, <1>12
  <2>2. p[i] = next[<<i, p[i - 1]>>]
    BY <1>3, <1>9, <2>1
  <2>3. p[i] \in Nat
    BY <1>3, <2>1, <2>2
  <2> QED BY <2>1, <2>3
<1>13. \A i \in 0 .. n : i \in P
  <2> HIDE DEF P
  <2> QED BY <1>2, <1>11, <1>12, Steps
<1>14. p \in [0 .. n -> Nat]
  BY <1>10, <1>13
<1> QED BY <1>8, <1>9, <1>10, <1>14 DEF n

\* The parser's loop, with whatever lies between two marks for a header.
AnyScan(text) ==
    [marks : Seq(Nat), skip : BOOLEAN, headers : Seq({HeaderAt(text, m, i) : m \in Seq(Nat), i \in Nat})]

LEMMA ScanSteps ==
    ASSUME NEW B, NEW text \in Seq(B)
    PROVE  \E p \in [0 .. Len(text) -> AnyScan(text)] :
              /\ p[0] = Scanning /\ Scan(text) = p[Len(text)]
              /\ \A i \in 1 .. Len(text) : p[i] = ScanAt(text, p[i - 1], i, Delimits(text, i))
<1> DEFINE idx == [i \in DOMAIN text |-> i]
           n == Len(text)
           It(g) == g = [s \in SUBSET (DOMAIN idx) |->
                          IF s = {} THEN Scanning ELSE ScanAt(text, g[s \ {Max(s)}], idx[Max(s)], Delimits(text, idx[Max(s)]))]
           next == [q \in (1 .. n) \X AnyScan(text) |-> ScanAt(text, q[2], idx[q[1]], Delimits(text, idx[q[1]]))]
<1>1. Scan(text) = (CHOOSE g : It(g))[DOMAIN idx]
  BY DEF Scan, FoldLeftDomain, FoldLeft, MapThenFoldSet
<1>2. n \in Nat /\ DOMAIN idx = 1 .. n /\ \A i \in 1 .. n : idx[i] = i
  OBVIOUS
<1>n. n \in Nat
  OBVIOUS
<1> HIDE DEF idx
<1>3. /\ next \in [(1 .. n) \X AnyScan(text) -> AnyScan(text)] /\ Scanning \in AnyScan(text)
      /\ \A i \in 1 .. n, a \in AnyScan(text) : next[<<i, a>>] = ScanAt(text, a, idx[i], Delimits(text, idx[i]))
  <2>1. ASSUME NEW a \in AnyScan(text), NEW i \in 1 .. n
        PROVE  ScanAt(text, a, i, Delimits(text, i)) \in AnyScan(text)
    <3> DEFINE X == {HeaderAt(text, m, j) : m \in Seq(Nat), j \in Nat}
    <3>1. a.marks \in Seq(Nat) /\ a.headers \in Seq(X) /\ a.skip \in BOOLEAN /\ i \in Nat
      BY <1>2 DEF AnyScan
    <3>2. HeaderAt(text, a.marks, i) \in X
      BY <3>1
    <3> HIDE DEF X
    <3> DEFINE A == [marks : Seq(Nat), skip : BOOLEAN, headers : Seq(X)]
               x == HeaderAt(text, a.marks, i)
    <3>3. a \in A /\ AnyScan(text) = A
      BY DEF AnyScan, X
    <3>4. x \in X
      BY <3>2
    <3> HIDE DEF x
    <3>5. Append(a.marks, i) \in Seq(Nat) /\ Append(a.headers, x) \in Seq(X) /\ <<>> \in Seq(Nat)
      BY <3>1, <3>4
    <3>6. [a EXCEPT !.skip = FALSE] \in A
      BY <3>3
    <3>7. [a EXCEPT !.marks = Append(@, i)] \in A
      BY <3>3, <3>5
    <3>8. [marks |-> <<>>, skip |-> TRUE, headers |-> Append(a.headers, x)] \in A
      BY <3>5
    <3> HIDE DEF A
    <3> QED BY <3>3, <3>6, <3>7, <3>8 DEF ScanAt, x
  <2>2. Scanning \in AnyScan(text)
    BY DEF Scanning, AnyScan
  <2>3. \A q \in (1 .. n) \X AnyScan(text) : q[1] \in 1 .. n /\ q[2] \in AnyScan(text)
    OBVIOUS
  <2>4. \A q \in (1 .. n) \X AnyScan(text) :
           ScanAt(text, q[2], idx[q[1]], Delimits(text, idx[q[1]])) \in AnyScan(text)
    BY <1>2, <2>1, <2>3
  <2>5. \A i \in 1 .. n, a \in AnyScan(text) :
           next[<<i, a>>] = ScanAt(text, a, idx[i], Delimits(text, idx[i]))
    OBVIOUS
  <2> QED BY <2>2, <2>4, <2>5
<1> HIDE DEF next, n
<1>4. PICK h \in [SUBSET (1 .. n) -> AnyScan(text)] : Iterates(n, Scanning, next, h)
  BY <1>2, <1>3, Iterated
<1>5. ASSUME NEW s \in SUBSET (1 .. n)
      PROVE  h[s] = IF s = {} THEN Scanning ELSE ScanAt(text, h[s \ {Max(s)}], idx[Max(s)], Delimits(text, idx[Max(s)]))
  <2>1. CASE s = {}
    BY <1>4, <2>1 DEF Iterates
  <2>2. CASE s # {}
    <3>1. Max(s) \in 1 .. n /\ s \ {Max(s)} \in SUBSET (1 .. n)
      BY <1>2, <2>2, MaxIn
    <3>2. h[s] = next[<<Max(s), h[s \ {Max(s)}]>>]
      BY <1>4, <2>2 DEF Iterates
    <3> QED BY <1>3, <2>2, <3>1, <3>2
  <2> QED BY <2>1, <2>2
<1>6. It(h)
  BY <1>2, <1>5
<1> DEFINE g == CHOOSE g : It(g)
           p == [i \in 0 .. n |-> g[1 .. i]]
<1>7. It(g)
  <2> HIDE DEF It
  <2> QED BY <1>6
<1> HIDE DEF g
<1>8. p[0] = Scanning
  <2>1. 0 \in 0 .. n /\ 1 .. 0 = {} /\ {} \in SUBSET (DOMAIN idx)
    BY <1>2, UpTo
  <2>2. g[{}] = Scanning
    BY <1>7, <2>1
  <2> QED BY <2>1, <2>2
<1>9. ASSUME NEW i \in 1 .. n PROVE p[i] = ScanAt(text, p[i - 1], idx[i], Delimits(text, idx[i]))
  <2>1. 1 .. i \in SUBSET (1 .. n) /\ 1 .. i # {} /\ Max(1 .. i) = i /\ (1 .. i) \ {i} = 1 .. (i - 1)
    BY <1>n, UpTo
  <2>2. g[1 .. i] = ScanAt(text, g[1 .. (i - 1)], idx[i], Delimits(text, idx[i]))
    <3> DEFINE s == 1 .. i
    <3> HIDE DEF s
    <3>1. s \in SUBSET (DOMAIN idx) /\ s # {}
      BY <1>2, <2>1 DEF s
    <3>2. g[s] = ScanAt(text, g[s \ {Max(s)}], idx[Max(s)], Delimits(text, idx[Max(s)]))
      BY <1>7, <3>1
    <3> QED BY <2>1, <3>2 DEF s
  <2> QED BY <1>2, <2>2
<1>10. Scan(text) = p[n] /\ p = [i \in 0 .. n |-> p[i]]
  BY <1>1, <1>2 DEF g
<1> HIDE DEF p
<1> DEFINE P == {i \in 0 .. n : p[i] \in AnyScan(text)}
<1>11. 0 \in P
  BY <1>2, <1>3, <1>8
<1>12. ASSUME NEW i \in 1 .. n, i - 1 \in P PROVE i \in P
  <2>1. i \in 0 .. n /\ p[i - 1] \in AnyScan(text) /\ <<i, p[i - 1]>> \in (1 .. n) \X AnyScan(text)
    BY <1>2, <1>12
  <2>2. p[i] = next[<<i, p[i - 1]>>]
    BY <1>3, <1>9, <2>1
  <2>3. p[i] \in AnyScan(text)
    BY <1>3, <2>1, <2>2
  <2> QED BY <2>1, <2>3
<1>13. \A i \in 0 .. n : i \in P
  <2> HIDE DEF P
  <2> QED BY <1>2, <1>11, <1>12, Steps
<1>14. p \in [0 .. n -> AnyScan(text)]
  BY <1>10, <1>13
<1> QED BY <1>2, <1>8, <1>9, <1>10, <1>14 DEF n

\* A concatenation.
LEMMA FlattenSteps ==
    ASSUME NEW B, NEW seqs \in Seq(Seq(B))
    PROVE  \E p \in [0 .. Len(seqs) -> Seq(B)] :
              /\ p[0] = <<>> /\ FlattenSeq(seqs) = p[Len(seqs)]
              /\ \A i \in 1 .. Len(seqs) : p[i] = p[i - 1] \o seqs[i]
<1> DEFINE n == Len(seqs)
           It(g) == g = [i \in 1 .. Len(seqs) |-> IF i = 1 THEN seqs[i] ELSE g[i - 1] \o seqs[i]]
           next == [q \in (1 .. n) \X Seq(B) |-> q[2] \o seqs[q[1]]]
<1>1. n # 0 => FlattenSeq(seqs) = (CHOOSE g : It(g))[Len(seqs)]
  BY DEF FlattenSeq
<1>2. n \in Nat /\ \A i \in 1 .. n : seqs[i] \in Seq(B)
  OBVIOUS
<1>3. /\ next \in [(1 .. n) \X Seq(B) -> Seq(B)] /\ <<>> \in Seq(B)
      /\ \A i \in 1 .. n, a \in Seq(B) : next[<<i, a>>] = a \o seqs[i]
  <2>1. \A q \in (1 .. n) \X Seq(B) : q[1] \in 1 .. n /\ q[2] \in Seq(B)
    OBVIOUS
  <2>2. \A q \in (1 .. n) \X Seq(B) : q[2] \o seqs[q[1]] \in Seq(B)
    BY <1>2, <2>1
  <2>3. ASSUME NEW i \in 1 .. n, NEW a \in Seq(B) PROVE next[<<i, a>>] = a \o seqs[i]
    <3>1. <<i, a>> \in (1 .. n) \X Seq(B)
      OBVIOUS
    <3> QED BY <3>1
  <2>4. <<>> \in Seq(B)
    OBVIOUS
  <2> QED BY <2>2, <2>3, <2>4
<1>n. n \in Nat
  OBVIOUS
<1>z. n = 0 => FlattenSeq(seqs) = <<>>
  BY DEF FlattenSeq
<1>g. n # 0 => FlattenSeq(seqs) = (CHOOSE g : It(g))[n]
  BY <1>1
<1> HIDE DEF next, n
<1>4. PICK h \in [SUBSET (1 .. n) -> Seq(B)] : Iterates(n, <<>>, next, h)
  BY <1>n, <1>3, Iterated
<1> DEFINE p == [i \in 0 .. n |-> h[1 .. i]]
<1>5. p \in [0 .. n -> Seq(B)] /\ p[0] = <<>>
  <2>1. \A i \in 0 .. n : 1 .. i \in SUBSET (1 .. n)
    BY <1>2
  <2>2. 0 \in 0 .. n /\ 1 .. 0 = {} /\ {} \in SUBSET (1 .. n)
    BY <1>n, UpTo
  <2>3. h[{}] = <<>>
    BY <1>4, <2>2 DEF Iterates
  <2> QED BY <1>n, <2>1, <2>2, <2>3
<1>6. ASSUME NEW i \in 1 .. n PROVE p[i] = p[i - 1] \o seqs[i]
  <2>1. 1 .. i \in SUBSET (1 .. n) /\ 1 .. i # {} /\ Max(1 .. i) = i /\ (1 .. i) \ {i} = 1 .. (i - 1)
    BY <1>n, UpTo
  <2>4. h[1 .. i] = next[<<i, h[1 .. (i - 1)]>>]
    <3> DEFINE s == 1 .. i
    <3> HIDE DEF s
    <3>1. s \in SUBSET (1 .. n) /\ s # {}
      BY <2>1 DEF s
    <3>2. h[s] = next[<<Max(s), h[s \ {Max(s)}]>>]
      BY <1>4, <3>1 DEF Iterates
    <3> QED BY <2>1, <3>2 DEF s
  <2>2. h[1 .. i] = next[<<i, h[1 .. (i - 1)]>>] /\ i - 1 \in 0 .. n /\ i \in 0 .. n
    BY <1>n, <2>4
  <2>3. h[1 .. (i - 1)] \in Seq(B)
    BY <1>5, <2>2
  <2> QED BY <1>3, <2>2, <2>3
<1> HIDE DEF p
<1>7. CASE n = 0
  <2>1. FlattenSeq(seqs) = p[n]
    BY <1>5, <1>7, <1>z
  <2> QED BY <1>5, <1>6, <2>1 DEF n
<1>8. CASE n # 0
  <2> DEFINE f == [i \in 1 .. n |-> p[i]]
  <2>1. ASSUME NEW i \in 1 .. n PROVE f[i] = IF i = 1 THEN seqs[i] ELSE f[i - 1] \o seqs[i]
    <3>1. CASE i = 1
      <4>1. <<>> \o seqs[i] = seqs[i]
        BY <1>2
      <4>2. p[i] = p[0] \o seqs[i] /\ p[0] = <<>>
        <5>1. p[i] = p[i - 1] \o seqs[i]
          BY <1>6
        <5>2. i - 1 = 0
          BY <3>1
        <5> QED BY <1>5, <5>1, <5>2
      <4> QED BY <3>1, <4>1, <4>2
    <3>2. CASE i # 1
      <4>1. i - 1 \in 1 .. n
        BY <1>2, <3>2
      <4> QED BY <1>6, <3>2, <4>1
    <3> QED BY <3>1, <3>2
  <2>2. It(f)
    BY <2>1 DEF n
  <2> DEFINE g == CHOOSE g : It(g)
             P == {i \in 0 .. n : i > 0 => g[i] = p[i]}
  <2>3. It(g)
    <3> HIDE DEF It
    <3> QED BY <2>2
  <2> HIDE DEF g
  <2>4. \A i \in 1 .. n : g[i] = IF i = 1 THEN seqs[i] ELSE g[i - 1] \o seqs[i]
    BY <2>3 DEF n
  <2>5. 0 \in P
    BY <1>2
  <2>6. ASSUME NEW i \in 1 .. n, i - 1 \in P PROVE i \in P
    <3>1. f[i] = IF i = 1 THEN seqs[i] ELSE f[i - 1] \o seqs[i]
      BY <2>1
    <3>2. CASE i = 1
      <4>1. g[i] = f[i] /\ f[i] = p[i] /\ i \in 0 .. n
        BY <1>n, <2>4, <3>1, <3>2
      <4> QED BY <4>1
    <3>3. CASE i # 1
      <4>1. i - 1 \in 1 .. n /\ g[i - 1] = p[i - 1] /\ i \in 0 .. n
        BY <1>n, <2>6, <3>3
      <4>2. g[i] = p[i]
        BY <1>6, <2>4, <3>3, <4>1
      <4> QED BY <4>1, <4>2
    <3> QED BY <3>2, <3>3
  <2>7. \A i \in 0 .. n : i \in P
    <3> HIDE DEF P
    <3> QED BY <1>2, <2>5, <2>6, Steps
  <2>8. g[n] = p[n]
    BY <1>2, <1>8, <2>7
  <2>9. FlattenSeq(seqs) = p[n]
    BY <1>g, <1>8, <2>8 DEF g
  <2> QED BY <1>5, <1>6, <2>9 DEF n
<1> QED BY <1>7, <1>8

-----------------------------------------------------------------------------
(***************************************************************************)
(* Where the parts of a written text lie.                                  *)
(***************************************************************************)
LEMMA Joined ==
    ASSUME NEW B, NEW s \in Seq(B), NEW t \in Seq(B)
    PROVE  /\ s \o t \in Seq(B) /\ Len(s \o t) = Len(s) + Len(t) /\ Len(s) \in Nat /\ Len(t) \in Nat
           /\ \A i \in 1 .. Len(s) : (s \o t)[i] = s[i]
           /\ \A i \in 1 .. Len(t) : (s \o t)[Len(s) + i] = t[i]
<1>1. s \o t \in Seq(B) /\ Len(s \o t) = Len(s) + Len(t) /\ Len(s) \in Nat /\ Len(t) \in Nat
  OBVIOUS
<1>2. \A i \in 1 .. Len(s) + Len(t) : (s \o t)[i] = IF i <= Len(s) THEN s[i] ELSE t[i - Len(s)]
  BY ConcatProperties
<1>3. ASSUME NEW i \in 1 .. Len(t) PROVE (s \o t)[Len(s) + i] = t[i]
  <2>1. Len(s) + i \in 1 .. Len(s) + Len(t) /\ ~(Len(s) + i <= Len(s)) /\ (Len(s) + i) - Len(s) = i
    BY <1>1
  <2> QED BY <1>2, <2>1
<1>4. ASSUME NEW i \in 1 .. Len(s) PROVE (s \o t)[i] = s[i]
  <2>1. i \in 1 .. Len(s) + Len(t) /\ i <= Len(s)
    BY <1>1
  <2> QED BY <1>2, <2>1
<1> QED BY <1>1, <1>3, <1>4

\* The header h lies in the text after the first o characters.
Lies(text, o, h) ==
    /\ text[o + 1] = Quote /\ \A j \in 1 .. Len(h[1]) : text[o + 1 + j] = h[1][j]
    /\ text[o + Len(h[1]) + 2] = Quote /\ text[o + Len(h[1]) + 3] = Quote
    /\ \A j \in 1 .. Len(h[2]) : text[o + Len(h[1]) + 3 + j] = h[2][j]
    /\ text[o + Len(h[1]) + Len(h[2]) + 4] = Quote /\ text[o + Len(h[1]) + Len(h[2]) + 5] = Semicolon

LengthOf(h) == Len(h[1]) + Len(h[2]) + 5

LEMMA HeaderTextIs ==
    ASSUME NEW B, {Quote, Semicolon} \subseteq B, NEW h \in Header(B)
    PROVE  /\ HeaderText(h) \in Seq(B) /\ Len(HeaderText(h)) = LengthOf(h) /\ Lies(HeaderText(h), 0, h)
           /\ Len(h[1]) \in Nat /\ Len(h[2]) \in Nat
<1> DEFINE k == h[1]
           v == h[2]
           a == Len(k)
           b == Len(v)
           q1 == <<Quote>>
           q2 == <<Quote, Quote>>
           q3 == <<Quote, Semicolon>>
           t1 == q1 \o k
           t2 == t1 \o q2
           t3 == t2 \o v
           t4 == t3 \o q3
<1>0. Quote \in B /\ Semicolon \in B
  OBVIOUS
<1>1. k \in Seq(B) /\ v \in Seq(B) /\ a \in Nat /\ b \in Nat
  BY DEF Header
<1>2. /\ q1 \in Seq(B) /\ Len(q1) = 1 /\ q1[1] = Quote
      /\ q2 \in Seq(B) /\ Len(q2) = 2 /\ q2[1] = Quote /\ q2[2] = Quote
      /\ q3 \in Seq(B) /\ Len(q3) = 2 /\ q3[1] = Quote /\ q3[2] = Semicolon
  BY <1>0
<1>3. HeaderText(h) = t4
  BY DEF HeaderText
<1> HIDE DEF k, v, q1, q2, q3
<1>4. /\ t1 \in Seq(B) /\ Len(t1) = a + 1 /\ t1[1] = Quote /\ \A i \in 1 .. a : t1[1 + i] = k[i]
  <2>0. q1 \in Seq(B) /\ k \in Seq(B)
    BY <1>1, <1>2
  <2>1. /\ t1 \in Seq(B) /\ Len(t1) = Len(q1) + Len(k) /\ \A i \in 1 .. Len(q1) : t1[i] = q1[i]
        /\ \A i \in 1 .. Len(k) : t1[Len(q1) + i] = k[i]
    BY <2>0, Joined
  <2> QED BY <1>1, <1>2, <2>1
<1> HIDE DEF t1
<1>5. /\ t2 \in Seq(B) /\ Len(t2) = a + 3 /\ \A i \in 1 .. a + 1 : t2[i] = t1[i]
      /\ t2[a + 2] = Quote /\ t2[a + 3] = Quote
  <2>1. /\ t2 \in Seq(B) /\ Len(t2) = Len(t1) + Len(q2) /\ \A i \in 1 .. Len(t1) : t2[i] = t1[i]
        /\ \A i \in 1 .. Len(q2) : t2[Len(t1) + i] = q2[i]
    <3>1. t1 \in Seq(B) /\ q2 \in Seq(B)
      BY <1>2, <1>4
    <3> QED BY <3>1, Joined
  <2>2. 1 \in 1 .. Len(q2) /\ 2 \in 1 .. Len(q2) /\ a + 1 + 1 = a + 2 /\ a + 1 + 2 = a + 3
    BY <1>1, <1>2
  <2>3. t2[a + 2] = Quote /\ t2[a + 3] = Quote
    BY <1>1, <1>2, <1>4, <2>1, <2>2
  <2> QED BY <1>1, <1>2, <1>4, <2>1, <2>3
<1> HIDE DEF t2
<1>6. /\ t3 \in Seq(B) /\ Len(t3) = a + b + 3 /\ \A i \in 1 .. a + 3 : t3[i] = t2[i]
      /\ \A i \in 1 .. b : t3[a + 3 + i] = v[i]
  <2>1. /\ t3 \in Seq(B) /\ Len(t3) = Len(t2) + Len(v) /\ \A i \in 1 .. Len(t2) : t3[i] = t2[i]
        /\ \A i \in 1 .. Len(v) : t3[Len(t2) + i] = v[i]
    <3>1. t2 \in Seq(B) /\ v \in Seq(B)
      BY <1>1, <1>5
    <3> QED BY <3>1, Joined
  <2> QED BY <1>1, <1>5, <2>1
<1> HIDE DEF t3
<1>7. /\ t4 \in Seq(B) /\ Len(t4) = a + b + 5 /\ \A i \in 1 .. a + b + 3 : t4[i] = t3[i]
      /\ t4[a + b + 4] = Quote /\ t4[a + b + 5] = Semicolon
  <2>1. /\ t4 \in Seq(B) /\ Len(t4) = Len(t3) + Len(q3) /\ \A i \in 1 .. Len(t3) : t4[i] = t3[i]
        /\ \A i \in 1 .. Len(q3) : t4[Len(t3) + i] = q3[i]
    <3>1. t3 \in Seq(B) /\ q3 \in Seq(B)
      BY <1>2, <1>6
    <3> QED BY <3>1, Joined
  <2>2. 1 \in 1 .. Len(q3) /\ 2 \in 1 .. Len(q3) /\ a + b + 3 + 1 = a + b + 4 /\ a + b + 3 + 2 = a + b + 5
    BY <1>1, <1>2
  <2>3. t4[a + b + 4] = Quote /\ t4[a + b + 5] = Semicolon
    BY <1>1, <1>2, <1>6, <2>1, <2>2
  <2> QED BY <1>1, <1>2, <1>6, <2>1, <2>3
<1> HIDE DEF t4
<1>8. /\ t4[1] = Quote /\ \A j \in 1 .. a : t4[1 + j] = k[j]
      /\ t4[a + 2] = Quote /\ t4[a + 3] = Quote /\ \A j \in 1 .. b : t4[a + 3 + j] = v[j]
  <2>1. t4[1] = Quote
    BY <1>1, <1>4, <1>5, <1>6, <1>7
  <2>2. ASSUME NEW j \in 1 .. a PROVE t4[1 + j] = k[j]
    <3>1. 1 + j \in 1 .. a + 1 /\ 1 + j \in 1 .. a + 3 /\ 1 + j \in 1 .. a + b + 3
      BY <1>1
    <3> QED BY <1>4, <1>5, <1>6, <1>7, <3>1
  <2>3. t4[a + 2] = Quote /\ t4[a + 3] = Quote
    <3>1. \A i \in {a + 2, a + 3} : i \in 1 .. a + 3 /\ i \in 1 .. a + b + 3
      BY <1>1
    <3> QED BY <1>5, <1>6, <1>7, <3>1
  <2>4. ASSUME NEW j \in 1 .. b PROVE t4[a + 3 + j] = v[j]
    <3>1. a + 3 + j \in 1 .. a + b + 3
      BY <1>1
    <3> QED BY <1>6, <1>7, <3>1
  <2> QED BY <2>1, <2>2, <2>3, <2>4
<1>9. Lies(t4, 0, h)
  <2>1. \A j \in Int : 0 + j = j
    OBVIOUS
  <2>2. 0 + 1 = 1 /\ 0 + a = a
    BY <1>1
  <2> QED BY <1>1, <1>7, <1>8, <2>1, <2>2 DEF Lies, k, v
<1> QED BY <1>1, <1>3, <1>7, <1>9 DEF LengthOf, k, v

\* The headers of a text one after the other: at[i] characters have the first i.
Laid(text, hs, at) ==
    /\ at[0] = 0 /\ at[Len(hs)] = Len(text)
    /\ \A i \in 1 .. Len(hs) :
          at[i] = at[i - 1] + LengthOf(hs[i]) /\ at[i] <= Len(text) /\ Lies(text, at[i - 1], hs[i])

LEMMA TextSteps ==
    ASSUME NEW B, {Quote, Semicolon} \subseteq B, NEW hs \in Seq(Header(B))
    PROVE  \E p \in [0 .. Len(hs) -> Seq(B)] :
              /\ p[0] = <<>> /\ ToText(hs) = p[Len(hs)]
              /\ \A i \in 1 .. Len(hs) : p[i] = p[i - 1] \o HeaderText(hs[i])
<1> DEFINE seqs == [i \in DOMAIN hs |-> HeaderText(hs[i])]
<1>1. Len(hs) \in Nat /\ DOMAIN hs = 1 .. Len(hs) /\ \A i \in 1 .. Len(hs) : hs[i] \in Header(B)
  OBVIOUS
<1>2. \A i \in 1 .. Len(hs) : HeaderText(hs[i]) \in Seq(B)
  BY <1>1, HeaderTextIs
<1>3. seqs \in Seq(Seq(B)) /\ Len(seqs) = Len(hs) /\ \A i \in 1 .. Len(hs) : seqs[i] = HeaderText(hs[i])
  BY <1>1, <1>2
<1>4. ToText(hs) = FlattenSeq(seqs)
  BY DEF ToText
<1> HIDE DEF seqs
<1>5. PICK p \in [0 .. Len(seqs) -> Seq(B)] :
         /\ p[0] = <<>> /\ FlattenSeq(seqs) = p[Len(seqs)]
         /\ \A i \in 1 .. Len(seqs) : p[i] = p[i - 1] \o seqs[i]
  BY <1>3, FlattenSteps
<1> QED BY <1>3, <1>4, <1>5

LEMMA LiesAfter ==
    ASSUME NEW B, NEW s \in Seq(B), NEW x \in Seq(B), NEW h \in Header(B), Len(x) = LengthOf(h), Lies(x, 0, h)
    PROVE  Lies(s \o x, Len(s), h)
<1> DEFINE t == s \o x
           a == Len(h[1])
           b == Len(h[2])
           o == Len(s)
<1>1. o \in Nat /\ \A i \in 1 .. Len(x) : t[o + i] = x[i]
  BY Joined
<1>2. a \in Nat /\ b \in Nat /\ Len(x) = a + b + 5
  BY DEF Header, LengthOf
<1>3. /\ x[1] = Quote /\ \A j \in 1 .. a : x[1 + j] = h[1][j]
      /\ x[a + 2] = Quote /\ x[a + 3] = Quote
      /\ \A j \in 1 .. b : x[a + 3 + j] = h[2][j]
      /\ x[a + b + 4] = Quote /\ x[a + b + 5] = Semicolon
  <2>1. /\ x[0 + 1] = Quote /\ \A j \in 1 .. a : x[0 + 1 + j] = h[1][j]
        /\ x[0 + a + 2] = Quote /\ x[0 + a + 3] = Quote
        /\ \A j \in 1 .. b : x[0 + a + 3 + j] = h[2][j]
        /\ x[0 + a + b + 4] = Quote /\ x[0 + a + b + 5] = Semicolon
    BY DEF Lies
  <2>2. /\ 0 + 1 = 1 /\ 0 + a + 2 = a + 2 /\ 0 + a + 3 = a + 3 /\ 0 + a + b + 4 = a + b + 4
        /\ 0 + a + b + 5 = a + b + 5
    BY <1>2
  <2>3. (\A j \in 1 .. a : 0 + 1 + j = 1 + j) /\ \A j \in 1 .. b : 0 + a + 3 + j = a + 3 + j
    BY <1>2
  <2> HIDE DEF a, b
  <2>4. x[1] = Quote /\ x[a + 2] = Quote /\ x[a + 3] = Quote /\ x[a + b + 4] = Quote /\ x[a + b + 5] = Semicolon
    BY <2>1, <2>2
  <2>5. ASSUME NEW j \in 1 .. a PROVE x[1 + j] = h[1][j]
    BY <2>1, <2>3
  <2>6. ASSUME NEW j \in 1 .. b PROVE x[a + 3 + j] = h[2][j]
    BY <2>1, <2>3
  <2> QED BY <2>4, <2>5, <2>6
<1> HIDE DEF t, a, b, o
<1>4. t[o + 1] = Quote /\ t[o + a + 2] = Quote /\ t[o + a + 3] = Quote
      /\ t[o + a + b + 4] = Quote /\ t[o + a + b + 5] = Semicolon
  <2>1. /\ o + (a + 2) = o + a + 2 /\ o + (a + 3) = o + a + 3
        /\ o + (a + b + 4) = o + a + b + 4 /\ o + (a + b + 5) = o + a + b + 5
    BY <1>1, <1>2
  <2>2. \A i \in {1, a + 2, a + 3, a + b + 4, a + b + 5} : i \in 1 .. Len(x)
    BY <1>2
  <2>3. \A i \in {1, a + 2, a + 3, a + b + 4, a + b + 5} : t[o + i] = x[i]
    BY <1>1, <2>2
  <2> QED BY <1>3, <2>1, <2>3
<1>5. ASSUME NEW j \in 1 .. a PROVE t[o + 1 + j] = h[1][j]
  <2>1. 1 + j \in 1 .. Len(x) /\ o + (1 + j) = o + 1 + j
    BY <1>1, <1>2
  <2> QED BY <1>1, <1>3, <2>1
<1>6. ASSUME NEW j \in 1 .. b PROVE t[o + a + 3 + j] = h[2][j]
  <2>1. a + 3 + j \in 1 .. Len(x) /\ o + (a + 3 + j) = o + a + 3 + j
    BY <1>1, <1>2
  <2> QED BY <1>1, <1>3, <2>1
<1> QED BY <1>4, <1>5, <1>6 DEF Lies, t, a, b, o

LEMMA LiesIn ==
    ASSUME NEW B, NEW h \in Header(B), NEW o \in Nat, NEW s, NEW t, Lies(s, o, h),
           \A i \in 1 .. o + LengthOf(h) : t[i] = s[i]
    PROVE  Lies(t, o, h)
<1> DEFINE a == Len(h[1])
           b == Len(h[2])
           n == o + LengthOf(h)
<1>1. a \in Nat /\ b \in Nat /\ n = o + a + b + 5
  BY DEF Header, LengthOf
<1>2. /\ s[o + 1] = Quote /\ \A j \in 1 .. a : s[o + 1 + j] = h[1][j]
      /\ s[o + a + 2] = Quote /\ s[o + a + 3] = Quote
      /\ \A j \in 1 .. b : s[o + a + 3 + j] = h[2][j]
      /\ s[o + a + b + 4] = Quote /\ s[o + a + b + 5] = Semicolon
  BY DEF Lies
<1>m. \A i \in 1 .. n : t[i] = s[i]
  OBVIOUS
<1> HIDE DEF a, b, n
<1>3. \A i \in {o + 1, o + a + 2, o + a + 3, o + a + b + 4, o + a + b + 5} : i \in 1 .. n
  BY <1>1
<1>4. \A j \in 1 .. a : o + 1 + j \in 1 .. n
  BY <1>1
<1>5. \A j \in 1 .. b : o + a + 3 + j \in 1 .. n
  BY <1>1
<1>6. /\ t[o + 1] = Quote /\ \A j \in 1 .. a : t[o + 1 + j] = h[1][j]
      /\ t[o + a + 2] = Quote /\ t[o + a + 3] = Quote
      /\ \A j \in 1 .. b : t[o + a + 3 + j] = h[2][j]
      /\ t[o + a + b + 4] = Quote /\ t[o + a + b + 5] = Semicolon
  BY <1>2, <1>3, <1>4, <1>5, <1>m
<1> QED BY <1>6 DEF Lies, a, b

\* A text is its headers one after the other.
LEMMA TextLaid ==
    ASSUME NEW B, {Quote, Semicolon} \subseteq B, NEW hs \in Seq(Header(B))
    PROVE  ToText(hs) \in Seq(B) /\ \E at \in [0 .. Len(hs) -> Nat] : Laid(ToText(hs), hs, at)
<1> DEFINE n == Len(hs)
           text == ToText(hs)
<1>0. n \in Nat /\ \A i \in 1 .. n : hs[i] \in Header(B)
  OBVIOUS
<1>1. PICK p \in [0 .. n -> Seq(B)] :
         p[0] = <<>> /\ text = p[n] /\ \A i \in 1 .. n : p[i] = p[i - 1] \o HeaderText(hs[i])
  BY TextSteps
<1> HIDE DEF n, text
<1>2. ASSUME NEW i \in 1 .. n
      PROVE  /\ i - 1 \in 0 .. n /\ i \in 0 .. n /\ p[i] \in Seq(B) /\ p[i - 1] \in Seq(B)
             /\ Len(p[i]) = Len(p[i - 1]) + LengthOf(hs[i])
             /\ Len(p[i - 1]) \in Nat /\ Len(p[i]) \in Nat /\ LengthOf(hs[i]) \in Nat
             /\ Lies(p[i], Len(p[i - 1]), hs[i])
             /\ \A j \in 1 .. Len(p[i - 1]) : p[i][j] = p[i - 1][j]
  <2> DEFINE x == HeaderText(hs[i])
             h == hs[i]
             s == p[i - 1]
  <2>1. i - 1 \in 0 .. n /\ i \in 0 .. n /\ h \in Header(B)
    BY <1>0
  <2>2. x \in Seq(B) /\ Len(x) = LengthOf(h) /\ Lies(x, 0, h)
    BY <2>1, HeaderTextIs
  <2>3. s \in Seq(B) /\ p[i] = s \o x
    BY <1>1, <2>1
  <2> HIDE DEF x, h, s
  <2>4. /\ s \o x \in Seq(B) /\ Len(s \o x) = Len(s) + Len(x) /\ Len(s) \in Nat /\ Len(x) \in Nat
        /\ \A j \in 1 .. Len(s) : (s \o x)[j] = s[j]
    BY <2>2, <2>3, Joined
  <2>5. Lies(s \o x, Len(s), h)
    BY <2>1, <2>2, <2>3, LiesAfter
  <2>6. Len(s) + Len(x) \in Nat
    BY <2>4
  <2> QED BY <2>1, <2>2, <2>3, <2>4, <2>5, <2>6 DEF h, s
<1> DEFINE Ext(i) == Len(p[i]) <= Len(text) /\ \A j \in 1 .. Len(p[i]) : text[j] = p[i][j]
           P == {k \in 0 .. n : Ext(n - k)}
<1>3. text \in Seq(B) /\ Len(text) \in Nat
  BY <1>0, <1>1
<1>4. 0 \in P
  <2>1. Ext(n) /\ n - 0 = n /\ 0 \in 0 .. n
    BY <1>0, <1>1, <1>3
  <2> HIDE DEF Ext
  <2> QED BY <2>1
<1>5. ASSUME NEW k \in 1 .. n, k - 1 \in P PROVE k \in P
  <2>1. n - (k - 1) = n - k + 1 /\ n - k + 1 \in 1 .. n /\ n - k + 1 - 1 = n - k /\ k \in 0 .. n
    BY <1>0
  <2> DEFINE i == n - k + 1
  <2>2. Ext(i) /\ i \in 1 .. n /\ i - 1 = n - k
    <3> HIDE DEF Ext
    <3>1. Ext(n - (k - 1))
      BY <1>5
    <3>2. i = n - (k - 1) /\ i \in 1 .. n /\ i - 1 = n - k
      BY <1>0, <2>1
    <3> HIDE DEF i
    <3>3. Ext(i)
      BY <3>1, <3>2
    <3> QED BY <3>2, <3>3
  <2> HIDE DEF i
  <2>3. /\ Len(p[i - 1]) <= Len(p[i]) /\ Len(p[i - 1]) \in Nat /\ Len(p[i]) \in Nat
        /\ \A j \in 1 .. Len(p[i - 1]) : p[i][j] = p[i - 1][j]
    BY <1>2, <2>2
  <2>4. Ext(i - 1)
    BY <1>3, <2>2, <2>3
  <2>5. Ext(n - k)
    BY <2>2, <2>4
  <2> HIDE DEF Ext
  <2> QED BY <2>1, <2>5
<1>6. ASSUME NEW i \in 0 .. n PROVE Ext(i)
  <2>1. \A k \in 0 .. n : k \in P
    <3> HIDE DEF P
    <3> QED BY <1>0, <1>4, <1>5, Steps
  <2>2. n - i \in 0 .. n /\ n - (n - i) = i
    BY <1>0
  <2>3. Ext(n - (n - i))
    <3> HIDE DEF Ext
    <3> QED BY <2>1, <2>2
  <2> HIDE DEF Ext
  <2> QED BY <2>2, <2>3
<1> DEFINE at == [i \in 0 .. n |-> Len(p[i])]
<1>7. at \in [0 .. n -> Nat] /\ at[0] = 0 /\ at[n] = Len(text)
  BY <1>0, <1>1
<1>8. ASSUME NEW i \in 1 .. n
      PROVE  at[i] = at[i - 1] + LengthOf(hs[i]) /\ at[i] <= Len(text) /\ Lies(text, at[i - 1], hs[i])
  <2>1. at[i] = Len(p[i]) /\ at[i - 1] = Len(p[i - 1])
    BY <1>2
  <2>2. Len(p[i]) <= Len(text) /\ \A j \in 1 .. Len(p[i]) : text[j] = p[i][j]
    BY <1>2, <1>6
  <2>3. \A j \in 1 .. Len(p[i - 1]) + LengthOf(hs[i]) : text[j] = p[i][j]
    BY <1>2, <2>2
  <2>4. Lies(text, Len(p[i - 1]), hs[i])
    BY <1>0, <1>2, <2>3, LiesIn
  <2> QED BY <1>2, <2>1, <2>2, <2>4
<1> HIDE DEF at
<1>9. Laid(text, hs, at)
  BY <1>7, <1>8 DEF Laid, n
<1> QED BY <1>3, <1>7, <1>9 DEF text, n

\* Both languages announce the length of the text they write.
LEMMA SizeIsLength ==
    ASSUME NEW B, {Quote, Semicolon} \subseteq B, NEW hs \in Seq(Header(B))
    PROVE  SizeOf(hs) = Len(ToText(hs)) /\ SizeOf(hs) \in Nat
<1> DEFINE n == Len(hs)
<1>0. n \in Nat /\ \A i \in 1 .. n : Len(hs[i][1]) \in Nat /\ Len(hs[i][2]) \in Nat
  BY DEF Header
<1>1. PICK at \in [0 .. n -> Nat] : Laid(ToText(hs), hs, at)
  BY TextLaid
<1>2. PICK p \in [0 .. n -> Nat] :
         /\ p[0] = 0 /\ SizeOf(hs) = p[n]
         /\ \A i \in 1 .. n : p[i] = p[i - 1] + Len(hs[i][1]) + Len(hs[i][2]) + 5
  BY SizeSteps
<1>3. /\ at[0] = 0 /\ at[n] = Len(ToText(hs))
      /\ \A i \in 1 .. n : at[i] = at[i - 1] + (Len(hs[i][1]) + Len(hs[i][2]) + 5)
  BY <1>1 DEF Laid, LengthOf
<1> HIDE DEF n
<1> DEFINE P == {i \in 0 .. n : p[i] = at[i]}
<1>4. 0 \in P
  BY <1>0, <1>2, <1>3
<1>5. ASSUME NEW i \in 1 .. n, i - 1 \in P PROVE i \in P
  <2>1. i \in 0 .. n /\ i - 1 \in 0 .. n /\ p[i - 1] = at[i - 1] /\ p[i - 1] \in Nat
    BY <1>0, <1>2, <1>5
  <2>2. p[i] = at[i]
    <3> DEFINE c == Len(hs[i][1])
               d == Len(hs[i][2])
    <3>1. c \in Nat /\ d \in Nat /\ p[i] = p[i - 1] + c + d + 5 /\ at[i] = at[i - 1] + (c + d + 5)
      BY <1>0, <1>2, <1>3
    <3> HIDE DEF c, d
    <3> QED BY <2>1, <3>1
  <2> QED BY <2>1, <2>2
<1>6. \A i \in 0 .. n : i \in P
  <2> HIDE DEF P
  <2> QED BY <1>0, <1>4, <1>5, Steps
<1>7. n \in 0 .. n /\ p[n] = at[n] /\ p[n] \in Nat
  BY <1>0, <1>6
<1> QED BY <1>2, <1>3, <1>7

-----------------------------------------------------------------------------
(***************************************************************************)
(* Parsing a written text gives back its headers if they are clean.        *)
(***************************************************************************)
Reading(m, hs) == [marks |-> m, skip |-> FALSE, headers |-> hs]
Skipping(m, hs) == [marks |-> m, skip |-> TRUE, headers |-> hs]

Scans(text, p) ==
    /\ p \in [0 .. Len(text) -> AnyScan(text)] /\ p[0] = Reading(<<>>, <<>>)
    /\ \A i \in 1 .. Len(text) : p[i] = ScanAt(text, p[i - 1], i, Delimits(text, i))

LEMMA ScanIs ==
    ASSUME NEW B, NEW text \in Seq(B)
    PROVE  \E p : Scans(text, p) /\ Scan(text) = p[Len(text)]
BY ScanSteps DEF Scans, Reading, Scanning

\* The Java parser is the same.
LEMMA JavaScanIs == \A text : JavaScan(text) = Scan(text)
BY DEF JavaScan, Scan, JavaDelimits, Delimits

LEMMA StateIs ==
    ASSUME NEW M, NEW H, NEW q \in [marks : M, skip : BOOLEAN, headers : H]
    PROVE  /\ [q EXCEPT !.skip = FALSE] = Reading(q.marks, q.headers)
           /\ ~q.skip => \A x : [q EXCEPT !.marks = x] = Reading(x, q.headers)
<1>1. \A x : [q EXCEPT !.skip = x] = [marks |-> q.marks, skip |-> x, headers |-> q.headers]
  OBVIOUS
<1>2. \A x : [q EXCEPT !.marks = x] = [marks |-> x, skip |-> q.skip, headers |-> q.headers]
  OBVIOUS
<1>3. q.skip \in BOOLEAN
  OBVIOUS
<1>4. ~q.skip => q.skip = FALSE
  BY <1>3
<1> QED BY <1>1, <1>2, <1>4 DEF Reading

LEMMA StateHas ==
    /\ \A m, hs : Reading(m, hs).marks = m /\ ~Reading(m, hs).skip /\ Reading(m, hs).headers = hs
    /\ \A m, hs : Skipping(m, hs).marks = m /\ Skipping(m, hs).skip /\ Skipping(m, hs).headers = hs
BY DEF Reading, Skipping

\* One turn of the loop.
LEMMA ScanTurn ==
    ASSUME NEW B, NEW text \in Seq(B), NEW p, Scans(text, p), NEW i \in 1 .. Len(text), NEW m \in Seq(Nat), NEW hs
    PROVE  /\ p[i - 1] = Skipping(m, hs) => p[i] = Reading(m, hs)
           /\ p[i - 1] = Reading(m, hs) =>
                 /\ ~Delimits(text, i) => p[i] = Reading(m, hs)
                 /\ Delimits(text, i) /\ Len(m) < 3 => p[i] = Reading(Append(m, i), hs)
                 /\ Delimits(text, i) /\ Len(m) >= 3 =>
                       p[i] = Skipping(<<>>, Append(hs, HeaderAt(text, m, i)))
<1> DEFINE q == p[i - 1]
<1>1. p[i] = ScanAt(text, q, i, Delimits(text, i))
  BY DEF Scans
<1> SUFFICES /\ q = Skipping(m, hs) => p[i] = Reading(m, hs)
             /\ q = Reading(m, hs) =>
                   /\ ~Delimits(text, i) => p[i] = Reading(m, hs)
                   /\ Delimits(text, i) /\ Len(m) < 3 => p[i] = Reading(Append(m, i), hs)
                   /\ Delimits(text, i) /\ Len(m) >= 3 =>
                         p[i] = Skipping(<<>>, Append(hs, HeaderAt(text, m, i)))
  OBVIOUS
<1>t. q \in AnyScan(text)
  <2>1. i - 1 \in 0 .. Len(text)
    OBVIOUS
  <2> QED BY <2>1 DEF Scans
<1> HIDE DEF q
<1>e. /\ [q EXCEPT !.skip = FALSE] = Reading(q.marks, q.headers)
      /\ ~q.skip => \A x : [q EXCEPT !.marks = x] = Reading(x, q.headers)
  <2> DEFINE H == Seq({HeaderAt(text, x, j) : x \in Seq(Nat), j \in Nat})
  <2>1. q \in [marks : Seq(Nat), skip : BOOLEAN, headers : H]
    BY <1>t DEF AnyScan
  <2> HIDE DEF H
  <2> QED BY <2>1, StateIs
<1>2. ASSUME q = Skipping(m, hs) PROVE p[i] = Reading(m, hs)
  <2>1. q.skip /\ q.marks = m /\ q.headers = hs
    BY <1>2, StateHas
  <2>2. [q EXCEPT !.skip = FALSE] = Reading(m, hs)
    BY <1>e, <2>1
  <2> QED BY <1>1, <2>1, <2>2 DEF ScanAt
<1>3. ASSUME q = Reading(m, hs)
      PROVE  /\ ~Delimits(text, i) => p[i] = Reading(m, hs)
             /\ Delimits(text, i) /\ Len(m) < 3 => p[i] = Reading(Append(m, i), hs)
             /\ Delimits(text, i) /\ Len(m) >= 3 =>
                   p[i] = Skipping(<<>>, Append(hs, HeaderAt(text, m, i)))
  <2>1. ~q.skip /\ q.marks = m /\ q.headers = hs
    BY <1>3, StateHas
  <2>2. [q EXCEPT !.marks = Append(@, i)] = Reading(Append(m, i), hs)
    BY <1>e, <2>1
  <2>3. [marks |-> <<>>, skip |-> TRUE, headers |-> Append(q.headers, HeaderAt(text, q.marks, i))]
          = Skipping(<<>>, Append(hs, HeaderAt(text, m, i)))
    BY <2>1 DEF Skipping
  <2>4. Len(m) \in Nat /\ ~(Len(m) < 3 /\ Len(m) >= 3)
    OBVIOUS
  <2>s. ~q.skip
    BY <2>1
  <2>5. CASE ~Delimits(text, i)
    BY <1>1, <1>3, <2>s, <2>5 DEF ScanAt
  <2>6. CASE Delimits(text, i) /\ Len(m) < 3
    <3>1. p[i] = Reading(Append(m, i), hs)
      BY <1>1, <2>1, <2>s, <2>2, <2>6 DEF ScanAt
    <3> QED BY <2>4, <2>6, <3>1
  <2>7. CASE Delimits(text, i) /\ Len(m) >= 3
    <3>1. ~(Len(q.marks) < 3)
      BY <2>1, <2>4, <2>7
    <3>2. p[i] = Skipping(<<>>, Append(hs, HeaderAt(text, m, i)))
      BY <1>1, <2>s, <2>3, <2>7, <3>1 DEF ScanAt
    <3> QED BY <2>4, <2>7, <3>2
  <2> QED BY <2>4, <2>5, <2>6, <2>7
<1> QED BY <1>2, <1>3

\* Where nothing delimits, nothing happens.
LEMMA ScanStays ==
    ASSUME NEW B, NEW text \in Seq(B), NEW p, Scans(text, p), NEW i \in 0 .. Len(text),
           NEW j \in 0 .. Len(text), i <= j, NEW m \in Seq(Nat), NEW hs, p[i] = Reading(m, hs),
           \A k \in 1 .. Len(text) : i < k /\ k <= j => ~Delimits(text, k)
    PROVE  p[j] = Reading(m, hs)
<1> DEFINE P == {k \in 0 .. j : k >= i => p[k] = Reading(m, hs)}
<1>0. Len(text) \in Nat /\ j \in Nat
  OBVIOUS
<1>1. 0 \in P
  BY <1>0
<1>2. ASSUME NEW k \in 1 .. j, k - 1 \in P PROVE k \in P
  <2>1. k \in 1 .. Len(text) /\ k \in 0 .. j
    BY <1>0
  <2>2. CASE k <= i
    BY <1>0, <2>1, <2>2
  <2>3. CASE ~(k <= i)
    <3>1. p[k - 1] = Reading(m, hs) /\ ~Delimits(text, k)
      BY <1>0, <1>2, <2>1, <2>3
    <3>2. p[k] = Reading(m, hs)
      BY <2>1, <3>1, ScanTurn
    <3> QED BY <2>1, <3>2
  <2> QED BY <2>2, <2>3
<1>3. \A k \in 0 .. j : k \in P
  <2> HIDE DEF P
  <2> QED BY <1>0, <1>1, <1>2, Steps
<1>4. j \in 0 .. j
  OBVIOUS
<1> QED BY <1>3, <1>4

\* A part of a text.
LEMMA PartIs ==
    ASSUME NEW B, NEW text \in Seq(B), NEW s \in Seq(B), NEW o \in Nat, o + Len(s) <= Len(text),
           \A j \in 1 .. Len(s) : text[o + j] = s[j]
    PROVE  SubSeq(text, o + 1, o + Len(s)) = s
<1> DEFINE n == Len(s)
           r == SubSeq(text, o + 1, o + n)
<1>1. n \in Nat /\ Len(text) \in Nat
  OBVIOUS
<1>2. \A i \in o + 1 .. o + n : text[i] \in B
  BY <1>1
<1>3. /\ r \in Seq(B) /\ Len(r) = IF o + 1 <= o + n THEN (o + n) - (o + 1) + 1 ELSE 0
      /\ \A i \in 1 .. (o + n) - (o + 1) + 1 : r[i] = text[(o + 1) + i - 1]
  <2>1. o + 1 \in Int /\ o + n \in Int
    BY <1>1
  <2> HIDE DEF n
  <2> QED BY <1>2, <2>1, SubSeqProperties
<1>4. Len(r) = n /\ \A i \in 1 .. n : r[i] = s[i]
  <2>1. (o + n) - (o + 1) + 1 = n /\ \A i \in 1 .. n : (o + 1) + i - 1 = o + i
    BY <1>1
  <2>2. Len(r) = n
    BY <1>1, <1>3
  <2>3. \A i \in 1 .. n : r[i] = text[o + i]
    <3> HIDE DEF r, n
    <3> QED BY <1>3, <2>1
  <2> QED BY <2>2, <2>3
<1> HIDE DEF r
<1>5. r = s
  BY <1>3, <1>4, SeqEqual
<1> QED BY <1>5 DEF r

LEMMA CleanIs ==
    ASSUME NEW B, NEW t \in Seq(B), Clean(t)
    PROVE  /\ \A j \in 1 .. Len(t) : t[j] = Quote => j > 1 /\ t[j - 1] = Backslash
           /\ Len(t) > 0 => t[Len(t)] # Backslash
<1>1. DOMAIN t = 1 .. Len(t) /\ Len(t) \in Nat /\ (Len(t) > 0 => t # <<>>)
  OBVIOUS
<1> QED BY <1>1 DEF Clean, Last

\* From before the first quote of a clean header to behind its semicolon.
LEMMA ScanOne ==
    ASSUME NEW B, NEW text \in Seq(B), NEW p, Scans(text, p), NEW h \in Header(B), NEW o \in Nat,
           o + LengthOf(h) <= Len(text), Lies(text, o, h), Clean(h[1]), Clean(h[2]),
           o > 0 => text[o] # Backslash, NEW hs, p[o] = Reading(<<>>, hs)
    PROVE  p[o + LengthOf(h)] = Reading(<<>>, Append(hs, h))
<1> DEFINE k == h[1]
           v == h[2]
           a == Len(k)
           b == Len(v)
<1>1. /\ k \in Seq(B) /\ v \in Seq(B) /\ a \in Nat /\ b \in Nat /\ h = <<k, v>> /\ Len(text) \in Nat
      /\ LengthOf(h) = a + b + 5 /\ o + LengthOf(h) = o + a + b + 5 /\ o + a + b + 5 <= Len(text)
  BY DEF Header, LengthOf
<1>2. /\ text[o + 1] = Quote /\ \A j \in 1 .. a : text[o + 1 + j] = k[j]
      /\ text[o + a + 2] = Quote /\ text[o + a + 3] = Quote
      /\ \A j \in 1 .. b : text[o + a + 3 + j] = v[j]
      /\ text[o + a + b + 4] = Quote
  BY DEF Lies
<1>3. /\ \A j \in 1 .. a : k[j] = Quote => j > 1 /\ k[j - 1] = Backslash
      /\ a > 0 => k[a] # Backslash
      /\ \A j \in 1 .. b : v[j] = Quote => j > 1 /\ v[j - 1] = Backslash
      /\ b > 0 => v[b] # Backslash
  BY <1>1, CleanIs
<1>q. Quote # Backslash
  BY DEF Quote, Backslash
<1> HIDE DEF k, v, a, b
<1> DEFINE d1 == o + 1
           d2 == o + a + 2
           d3 == o + a + 3
           d4 == o + a + b + 4
<1>r. /\ o \in 0 .. Len(text) /\ d1 \in 1 .. Len(text) /\ d2 \in 1 .. Len(text) /\ d3 \in 1 .. Len(text)
      /\ d4 \in 1 .. Len(text) /\ d4 + 1 \in 1 .. Len(text)
      /\ d1 - 1 = o /\ d2 - 1 = d1 + a /\ d3 - 1 = d2 /\ d4 - 1 = d3 + b /\ (d4 + 1) - 1 = d4
      /\ d1 + a <= Len(text) /\ d3 + b <= Len(text) /\ d4 + 1 = o + a + b + 5
  BY <1>1
\* The four delimiters.
<1>4. Delimits(text, d1)
  <2>1. o = 0 => d1 = 1
    OBVIOUS
  <2>2. o # 0 => o > 0
    OBVIOUS
  <2> QED BY <1>2, <1>r, <2>1, <2>2 DEF Delimits
<1>5. Delimits(text, d2)
  <2>1. text[d2 - 1] # Backslash
    <3>1. CASE a = 0
      <4>1. d2 - 1 = o + 1
        BY <1>r, <3>1
      <4> QED BY <1>2, <1>q, <4>1
    <3>2. CASE a # 0
      <4>1. a > 0 /\ a \in 1 .. a /\ d2 - 1 = o + 1 + a
        BY <1>1, <1>r, <3>2
      <4> QED BY <1>2, <1>3, <4>1
    <3> QED BY <3>1, <3>2
  <2> QED BY <1>2, <2>1 DEF Delimits
<1>6. Delimits(text, d3)
  BY <1>2, <1>q, <1>r DEF Delimits
<1>7. Delimits(text, d4)
  <2>1. text[d4 - 1] # Backslash
    <3>1. CASE b = 0
      <4>1. d4 - 1 = o + a + 3
        BY <1>1, <3>1
      <4> QED BY <1>2, <1>q, <4>1
    <3>2. CASE b # 0
      <4>1. b > 0 /\ b \in 1 .. b /\ d4 - 1 = o + a + 3 + b
        BY <1>1, <3>2
      <4> QED BY <1>2, <1>3, <4>1
    <3> QED BY <3>1, <3>2
  <2> QED BY <1>2, <2>1 DEF Delimits
\* Nothing between them delimits.
<1>8. ASSUME NEW j \in 1 .. a PROVE ~Delimits(text, d1 + j)
  <2>1. d1 + j # 1 /\ text[d1 + j] = k[j]
    BY <1>1, <1>2
  <2>2. k[j] = Quote => text[(d1 + j) - 1] = Backslash
    <3> SUFFICES ASSUME k[j] = Quote PROVE text[(d1 + j) - 1] = Backslash
      OBVIOUS
    <3>1. j > 1 /\ k[j - 1] = Backslash
      BY <1>3
    <3>2. j - 1 \in 1 .. a /\ (d1 + j) - 1 = o + 1 + (j - 1)
      BY <1>1, <3>1
    <3> QED BY <1>2, <3>1, <3>2
  <2> QED BY <2>1, <2>2 DEF Delimits
<1>9. ASSUME NEW j \in 1 .. b PROVE ~Delimits(text, d3 + j)
  <2>1. d3 + j # 1 /\ text[d3 + j] = v[j]
    BY <1>1, <1>2
  <2>2. v[j] = Quote => text[(d3 + j) - 1] = Backslash
    <3> SUFFICES ASSUME v[j] = Quote PROVE text[(d3 + j) - 1] = Backslash
      OBVIOUS
    <3>1. j > 1 /\ v[j - 1] = Backslash
      BY <1>3
    <3>2. j - 1 \in 1 .. b /\ (d3 + j) - 1 = o + a + 3 + (j - 1)
      BY <1>1, <3>1
    <3> QED BY <1>2, <3>1, <3>2
  <2> QED BY <2>1, <2>2 DEF Delimits
\* So the loop goes through these states.
<1>p. \A j \in 1 .. a : text[d1 + j] = k[j]
  BY <1>2
<1>v. \A j \in 1 .. b : text[d3 + j] = v[j]
  BY <1>2
<1>w. /\ d2 - 1 = d1 + a /\ d4 - 1 = d3 + b /\ d1 + a = d2 - 1 /\ d3 + b = d4 - 1
  BY <1>r
<1> HIDE DEF d1, d2, d3, d4
<1>n. d1 \in Nat /\ d2 \in Nat /\ d3 \in Nat /\ Len(text) \in Nat
  BY <1>1, <1>r
<1> DEFINE m0 == <<>>
           m1 == Append(m0, d1)
           m2 == Append(m1, d2)
           m3 == Append(m2, d3)
<1>m. m0 \in Seq(Nat) /\ Len(m0) < 3
  OBVIOUS
<1>m1. m1 \in Seq(Nat) /\ Len(m1) < 3 /\ Len(m1) = 1 /\ m1[1] = d1
  BY <1>n
<1>m2. m2 \in Seq(Nat) /\ Len(m2) < 3 /\ Len(m2) = 2 /\ m2[1] = d1 /\ m2[2] = d2
  <2> HIDE DEF m1
  <2>1. m1 \in Seq(Nat) /\ d2 \in Nat
    BY <1>n, <1>m1
  <2>2. /\ m2 \in Seq(Nat) /\ Len(m2) = Len(m1) + 1 /\ m2[Len(m1) + 1] = d2
        /\ \A i \in 1 .. Len(m1) : m2[i] = m1[i]
    BY <2>1, AppendProperties
  <2>3. 1 + 1 = 2 /\ Len(m1) = 1 /\ \A i \in 1 .. 1 : m2[i] = m1[i]
    BY <1>m1, <2>2
  <2>4. Len(m2) = 2 /\ m2[2] = d2
    BY <2>2, <2>3
  <2> HIDE DEF m2
  <2> QED BY <1>m1, <2>2, <2>3, <2>4
<1>m3. m3 \in Seq(Nat) /\ Len(m3) >= 3 /\ m3[1] = d1 /\ m3[2] = d2 /\ m3[3] = d3
  <2> HIDE DEF m2
  <2>1. m2 \in Seq(Nat) /\ d3 \in Nat
    BY <1>n, <1>m2
  <2>2. /\ m3 \in Seq(Nat) /\ Len(m3) = Len(m2) + 1 /\ m3[Len(m2) + 1] = d3
        /\ \A i \in 1 .. Len(m2) : m3[i] = m2[i]
    BY <2>1, AppendProperties
  <2>3. 2 + 1 = 3 /\ Len(m2) = 2 /\ \A i \in 1 .. 2 : m3[i] = m2[i]
    BY <1>m2, <2>2
  <2>4. Len(m3) = 3 /\ m3[3] = d3
    BY <2>2, <2>3
  <2> HIDE DEF m3
  <2> QED BY <1>m2, <2>2, <2>3, <2>4
<1>s. p[d1 - 1] = Reading(m0, hs)
  BY <1>r
<1> HIDE DEF m0, m1, m2, m3
<1>10. p[d1] = Reading(m1, hs)
  BY <1>4, <1>m, <1>r, <1>s, ScanTurn DEF m1
<1>11. p[d1 + a] = Reading(m1, hs)
  <2>1. d1 \in 0 .. Len(text) /\ d1 + a <= Len(text) /\ a \in Nat
    BY <1>1, <1>r
  <2>2. m1 \in Seq(Nat) /\ p[d1] = Reading(m1, hs)
    BY <1>10, <1>m1
  <2>3. ASSUME NEW i \in 1 .. Len(text), d1 < i, i <= d1 + a PROVE ~Delimits(text, i)
    <3>1. i - d1 \in 1 .. a /\ d1 + (i - d1) = i
      BY <1>n, <2>1, <2>3
    <3> QED BY <1>8, <3>1
  <2> DEFINE j == d1 + a
  <2>4. j \in 0 .. Len(text) /\ d1 <= j
    BY <1>n, <2>1
  <2>5. \A i \in 1 .. Len(text) : d1 < i /\ i <= j => ~Delimits(text, i)
    BY <2>3
  <2> HIDE DEF j
  <2>6. p[j] = Reading(m1, hs)
    BY <2>1, <2>2, <2>4, <2>5, ScanStays
  <2> QED BY <2>6 DEF j
<1>12. p[d2] = Reading(m2, hs)
  <2>1. p[d2 - 1] = Reading(m1, hs)
    BY <1>11, <1>r
  <2>2. m1 \in Seq(Nat) /\ Len(m1) < 3 /\ d2 \in 1 .. Len(text) /\ Delimits(text, d2)
    BY <1>5, <1>m1, <1>r
  <2>3. p[d2] = Reading(Append(m1, d2), hs)
    BY <2>1, <2>2, ScanTurn
  <2> QED BY <2>3 DEF m2
<1>13. p[d3] = Reading(m3, hs)
  <2>1. p[d3 - 1] = Reading(m2, hs)
    BY <1>12, <1>r
  <2>2. m2 \in Seq(Nat) /\ Len(m2) < 3 /\ d3 \in 1 .. Len(text) /\ Delimits(text, d3)
    BY <1>6, <1>m2, <1>r
  <2>3. p[d3] = Reading(Append(m2, d3), hs)
    BY <2>1, <2>2, ScanTurn
  <2> QED BY <2>3 DEF m3
<1>14. p[d3 + b] = Reading(m3, hs)
  <2>1. d3 \in 0 .. Len(text) /\ d3 + b <= Len(text) /\ b \in Nat
    BY <1>1, <1>r
  <2>2. m3 \in Seq(Nat) /\ p[d3] = Reading(m3, hs)
    BY <1>13, <1>m3
  <2>3. ASSUME NEW i \in 1 .. Len(text), d3 < i, i <= d3 + b PROVE ~Delimits(text, i)
    <3>1. i - d3 \in 1 .. b /\ d3 + (i - d3) = i
      BY <1>n, <2>1, <2>3
    <3> QED BY <1>9, <3>1
  <2> DEFINE j == d3 + b
  <2>4. j \in 0 .. Len(text) /\ d3 <= j
    BY <1>n, <2>1
  <2>5. \A i \in 1 .. Len(text) : d3 < i /\ i <= j => ~Delimits(text, i)
    BY <2>3
  <2> HIDE DEF j
  <2>6. p[j] = Reading(m3, hs)
    BY <2>1, <2>2, <2>4, <2>5, ScanStays
  <2> QED BY <2>6 DEF j
<1>15. p[d4] = Skipping(<<>>, Append(hs, HeaderAt(text, m3, d4)))
  <2>1. p[d4 - 1] = Reading(m3, hs)
    BY <1>14, <1>r
  <2> QED BY <1>7, <1>m3, <1>r, <2>1, ScanTurn
<1>16. HeaderAt(text, m3, d4) = h
  <2>1. HeaderAt(text, m3, d4) = <<SubSeq(text, d1 + 1, d2 - 1), SubSeq(text, d3 + 1, d4 - 1)>>
    BY <1>m3 DEF HeaderAt
  <2>2. SubSeq(text, d1 + 1, d1 + a) = k
    <3>1. d1 \in Nat /\ d1 + Len(k) <= Len(text) /\ \A j \in 1 .. Len(k) : text[d1 + j] = k[j]
      BY <1>n, <1>p, <1>r DEF a
    <3>2. SubSeq(text, d1 + 1, d1 + Len(k)) = k
      BY <1>1, <3>1, PartIs
    <3> QED BY <3>2 DEF a
  <2>3. SubSeq(text, d3 + 1, d3 + b) = v
    <3>1. d3 \in Nat /\ d3 + Len(v) <= Len(text) /\ \A j \in 1 .. Len(v) : text[d3 + j] = v[j]
      BY <1>n, <1>v, <1>r DEF b
    <3>2. SubSeq(text, d3 + 1, d3 + Len(v)) = v
      BY <1>1, <3>1, PartIs
    <3> QED BY <3>2 DEF b
  <2> QED BY <1>1, <1>w, <2>1, <2>2, <2>3
<1>17. p[d4 + 1] = Reading(<<>>, Append(hs, h))
  <2>1. p[(d4 + 1) - 1] = Skipping(<<>>, Append(hs, h))
    BY <1>15, <1>16, <1>r
  <2> DEFINE i == d4 + 1
             m == m0
             g == Append(hs, h)
  <2>2. i \in 1 .. Len(text) /\ p[i - 1] = Skipping(m, g) /\ m \in Seq(Nat)
    BY <1>m, <1>r, <2>1 DEF m0
  <2> HIDE DEF i, g, m
  <2>4. p[i] = Reading(m, g)
    BY <2>2, ScanTurn
  <2>3. p[i] = Reading(<<>>, Append(hs, h))
    BY <2>4 DEF m, g, m0
  <2> QED BY <2>3 DEF i
<1> QED BY <1>1, <1>17, <1>r

CleanHeaders(B) == {h \in Header(B) : Clean(h[1]) /\ Clean(h[2])}

\* What is written by one language is what is parsed by the other.
LEMMA RoundTrip ==
    ASSUME NEW B, {Quote, Semicolon} \subseteq B, NEW hs \in Seq(CleanHeaders(B))
    PROVE  Scan(ToText(hs)) = Reading(<<>>, hs)
<1> DEFINE n == Len(hs)
           text == ToText(hs)
<1>1. /\ n \in Nat /\ hs \in Seq(Header(B))
      /\ \A i \in 1 .. n : hs[i] \in Header(B) /\ Clean(hs[i][1]) /\ Clean(hs[i][2])
  <2>1. \A i \in 1 .. n : hs[i] \in CleanHeaders(B)
    OBVIOUS
  <2>2. CleanHeaders(B) \subseteq Header(B)
    BY DEF CleanHeaders
  <2>3. hs \in Seq(Header(B))
    BY <2>2, SeqMonotonic
  <2> QED BY <2>1, <2>3 DEF CleanHeaders
<1>2. text \in Seq(B) /\ \E at \in [0 .. n -> Nat] : Laid(text, hs, at)
  BY <1>1, TextLaid
<1>3. PICK at \in [0 .. n -> Nat] : Laid(text, hs, at)
  BY <1>2
<1>4. PICK p : Scans(text, p) /\ Scan(text) = p[Len(text)]
  BY <1>2, ScanIs
<1>5. /\ at[0] = 0 /\ at[n] = Len(text)
      /\ \A i \in 1 .. n :
            at[i] = at[i - 1] + LengthOf(hs[i]) /\ at[i] <= Len(text) /\ Lies(text, at[i - 1], hs[i])
  BY <1>3 DEF Laid
<1> HIDE DEF n, text
<1>6. ASSUME NEW i \in 0 .. n, at[i] > 0 PROVE text[at[i]] # Backslash
  <2>1. i \in 1 .. n
    BY <1>1, <1>5, <1>6
  <2>2. /\ Lies(text, at[i - 1], hs[i]) /\ at[i - 1] \in Nat
        /\ at[i] = at[i - 1] + (Len(hs[i][1]) + Len(hs[i][2]) + 5)
        /\ Len(hs[i][1]) \in Nat /\ Len(hs[i][2]) \in Nat
    <3>1. i - 1 \in 0 .. n
      BY <1>1, <2>1
    <3>2. Len(hs[i][1]) \in Nat /\ Len(hs[i][2]) \in Nat
      BY <1>1, <2>1 DEF Header
    <3> QED BY <1>3, <1>5, <2>1, <3>1, <3>2 DEF LengthOf
  <2>3. at[i] = at[i - 1] + Len(hs[i][1]) + Len(hs[i][2]) + 5
    <3> DEFINE c == Len(hs[i][1])
               d == Len(hs[i][2])
    <3>1. c \in Nat /\ d \in Nat /\ at[i - 1] \in Nat /\ at[i] = at[i - 1] + (c + d + 5)
      BY <2>2
    <3> HIDE DEF c, d
    <3>2. at[i] = at[i - 1] + c + d + 5
      BY <3>1
    <3> QED BY <3>2 DEF c, d
  <2>4. text[at[i]] = Semicolon
    BY <2>2, <2>3 DEF Lies
  <2> QED BY <2>4 DEF Semicolon, Backslash
<1> DEFINE P == {i \in 0 .. n : p[at[i]] = Reading(<<>>, SubSeq(hs, 1, i))}
<1>7. 0 \in P
  <2>1. SubSeq(hs, 1, 0) = <<>>
    BY SubSeqEmpty
  <2>2. p[0] = Reading(<<>>, <<>>) /\ 0 \in 0 .. n
    BY <1>1, <1>4 DEF Scans
  <2> QED BY <1>5, <2>1, <2>2
<1>8. ASSUME NEW i \in 1 .. n, i - 1 \in P PROVE i \in P
  <2> DEFINE o == at[i - 1]
             h == hs[i]
             before == SubSeq(hs, 1, i - 1)
  <2>1. i \in 0 .. n /\ i - 1 \in 0 .. n /\ h \in Header(B) /\ Clean(h[1]) /\ Clean(h[2])
    BY <1>1
  <2>2. /\ o \in Nat /\ p[o] = Reading(<<>>, before) /\ Lies(text, o, h)
        /\ at[i] = o + LengthOf(h) /\ o + LengthOf(h) <= Len(text)
    <3>1. o \in Nat
      BY <1>3, <2>1
    <3>2. p[o] = Reading(<<>>, before)
      BY <1>8
    <3>3. at[i] = o + LengthOf(h) /\ at[i] <= Len(text) /\ Lies(text, o, h)
      BY <1>5
    <3> QED BY <3>1, <3>2, <3>3
  <2>3. o > 0 => text[o] # Backslash
    BY <1>6, <2>1
  <2>4. SubSeq(hs, 1, i) = Append(before, h)
    BY <1>1, <2>1 DEF n
  <2> HIDE DEF o, h, before
  <2>5. p[o + LengthOf(h)] = Reading(<<>>, Append(before, h))
    BY <1>2, <1>4, <2>1, <2>2, <2>3, ScanOne
  <2> QED BY <2>1, <2>2, <2>4, <2>5
<1>9. \A i \in 0 .. n : i \in P
  <2> HIDE DEF P
  <2> QED BY <1>1, <1>7, <1>8, Steps
<1>10. n \in 0 .. n /\ SubSeq(hs, 1, n) = hs
  <2>1. SubSeq(hs, 1, Len(hs)) = hs
    BY <1>1, SubSeqFull
  <2> QED BY <1>1, <2>1 DEF n
<1>11. p[at[n]] = Reading(<<>>, hs)
  BY <1>9, <1>10
<1> QED BY <1>4, <1>5, <1>11 DEF text

-----------------------------------------------------------------------------
(***************************************************************************)
(* What setting headers makes of them.                                     *)
(***************************************************************************)
Distinct(hs) == \A i, j \in DOMAIN hs : hs[i][1] = hs[j][1] => i = j
Named(hs) == \A i \in DOMAIN hs : hs[i][1] # <<>>

\* In C the headers are a list, in Java a map: the same is in them.
LEMMA PutIs ==
    ASSUME NEW H, NEW hs \in Seq(H), NEW h \in H
    PROVE  /\ Put(hs, h) \in Seq(H)
           /\ Distinct(hs) => Distinct(Put(hs, h))
           /\ Distinct(hs) /\ h[1] # <<>> => ToSet(Put(hs, h)) = JavaPut(ToSet(hs), h)
<1> DEFINE n == Len(hs)
           r == Put(hs, h)
<1>0. n \in Nat /\ DOMAIN hs = 1 .. n /\ \A i \in 1 .. n : hs[i] \in H
  OBVIOUS
<1>1. CASE h[1] = <<>>
  BY <1>1 DEF Put
<1>2. CASE h[1] # <<>> /\ h[1] \in Keys(hs)
  <2>1. r = [i \in 1 .. n |-> IF hs[i][1] = h[1] THEN h ELSE hs[i]]
    BY <1>0, <1>2 DEF Put
  <2>2. r \in Seq(H) /\ DOMAIN r = 1 .. n
    BY <1>0, <2>1
  <2>3. \A i \in 1 .. n : r[i] = IF hs[i][1] = h[1] THEN h ELSE hs[i]
    BY <2>1
  <2>4. \A i \in 1 .. n : r[i][1] = hs[i][1]
    BY <2>3
  <2> HIDE DEF r
  <2>5. Distinct(hs) => Distinct(r)
    BY <1>0, <2>2, <2>4 DEF Distinct
  <2>6. PICK k \in 1 .. n : hs[k][1] = h[1]
    BY <1>0, <1>2 DEF Keys
  <2>7. \A x : x \in ToSet(r) <=> x \in JavaPut(ToSet(hs), h)
    <3>1. \A x : x \in ToSet(r) <=> \E i \in 1 .. n : x = r[i]
      BY <2>2 DEF ToSet
    <3>2. \A x : x \in ToSet(hs) <=> \E i \in 1 .. n : x = hs[i]
      BY <1>0 DEF ToSet
    <3>3. \A x : x \in JavaPut(ToSet(hs), h) <=> (x \in ToSet(hs) /\ x[1] # h[1]) \/ x = h
      BY DEF JavaPut
    <3> QED BY <2>3, <2>6, <3>1, <3>2, <3>3
  <2>8. ToSet(r) = JavaPut(ToSet(hs), h)
    BY <2>7
  <2> QED BY <2>2, <2>5, <2>8 DEF r
<1>3. CASE h[1] # <<>> /\ h[1] \notin Keys(hs)
  <2>1. r = Append(hs, h)
    BY <1>3 DEF Put
  <2>2. /\ r \in Seq(H) /\ DOMAIN r = 1 .. (n + 1) /\ Len(r) = n + 1
        /\ r[n + 1] = h /\ \A i \in 1 .. n : r[i] = hs[i]
    BY <1>0, <2>1, AppendProperties
  <2>3. \A i \in 1 .. n : hs[i][1] # h[1]
    BY <1>0, <1>3 DEF Keys
  <2> HIDE DEF r
  <2>4. \A i \in 1 .. (n + 1) : i \in 1 .. n \/ i = n + 1
    BY <1>0
  <2>5. Distinct(hs) => Distinct(r)
    BY <1>0, <2>2, <2>3, <2>4 DEF Distinct
  <2>6. \A x : x \in ToSet(r) <=> x \in JavaPut(ToSet(hs), h)
    <3>1. \A x : x \in ToSet(r) <=> \E i \in 1 .. (n + 1) : x = r[i]
      BY <2>2 DEF ToSet
    <3>2. \A x : x \in ToSet(hs) <=> \E i \in 1 .. n : x = hs[i]
      BY <1>0 DEF ToSet
    <3>3. \A x : x \in JavaPut(ToSet(hs), h) <=> (x \in ToSet(hs) /\ x[1] # h[1]) \/ x = h
      BY DEF JavaPut
    <3>4. \A i \in 1 .. n : i \in 1 .. (n + 1)
      BY <1>0
    <3>5. n + 1 \in 1 .. (n + 1)
      BY <1>0
    <3> QED BY <2>2, <2>3, <2>4, <3>1, <3>2, <3>3, <3>4, <3>5
  <2>7. ToSet(r) = JavaPut(ToSet(hs), h)
    BY <2>6
  <2> QED BY <2>2, <2>5, <2>7 DEF r
<1> QED BY <1>1, <1>2, <1>3

\* A map after headers of different names have been put into it one by one.
LEMMA MapIs ==
    ASSUME NEW H, NEW more \in Seq(H), Distinct(more), NEW q, NEW S, q[0] = S,
           \A i \in 1 .. Len(more) : q[i] = JavaPut(q[i - 1], more[i])
    PROVE  q[Len(more)] = {g \in S : g[1] \notin Keys(more)} \cup ToSet(more)
<1> DEFINE n == Len(more)
           Is(i) == \A x : x \in q[i] <=> \/ x \in S /\ \A j \in 1 .. i : more[j][1] # x[1]
                                          \/ \E j \in 1 .. i : x = more[j]
           P == {i \in 0 .. n : Is(i)}
<1>0. n \in Nat /\ DOMAIN more = 1 .. n
  OBVIOUS
<1>1. 0 \in P
  <2>1. Is(0)
    BY UpTo
  <2> HIDE DEF Is
  <2> QED BY <1>0, <2>1
<1>2. ASSUME NEW i \in 1 .. n, i - 1 \in P PROVE i \in P
  <2>1. Is(i - 1) /\ i \in 0 .. n
    BY <1>0, <1>2
  <2>2. \A x : x \in q[i] <=> (x \in q[i - 1] /\ x[1] # more[i][1]) \/ x = more[i]
    BY DEF JavaPut
  <2>3. \A j \in 1 .. i : j \in 1 .. (i - 1) \/ j = i
    BY <1>0
  <2>4. \A j \in 1 .. (i - 1) : j \in 1 .. i /\ j \in 1 .. n /\ j # i
    BY <1>0
  <2>5. \A j \in 1 .. (i - 1) : more[j][1] # more[i][1]
    BY <1>0, <2>4 DEF Distinct
  <2>6. i \in 1 .. i
    BY <1>0
  <2>7. Is(i)
    BY <2>1, <2>2, <2>3, <2>4, <2>5, <2>6
  <2> HIDE DEF Is
  <2> QED BY <2>1, <2>7
<1>3. n \in P
  <2> HIDE DEF P
  <2>1. \A i \in 0 .. n : i \in P
    BY <1>0, <1>1, <1>2, Steps
  <2> QED BY <1>0, <2>1
<1>4. Is(n)
  BY <1>3
<1>5. \A x : x \in ToSet(more) <=> \E j \in 1 .. n : x = more[j]
  BY <1>0 DEF ToSet
<1>6. \A x : x[1] \notin Keys(more) <=> \A j \in 1 .. n : more[j][1] # x[1]
  BY <1>0 DEF Keys
<1>7. \A x : x \in q[n] <=> x \in {g \in S : g[1] \notin Keys(more)} \cup ToSet(more)
  BY <1>4, <1>5, <1>6
<1> QED BY <1>7

\* PutAll with headers of different names.
LEMMA PutAllIs ==
    ASSUME NEW H, NEW base \in Seq(H), Distinct(base), NEW more \in Seq(H), Distinct(more), Named(more)
    PROVE  /\ Distinct(PutAll(base, more))
           /\ ToSet(PutAll(base, more)) = {g \in ToSet(base) : g[1] \notin Keys(more)} \cup ToSet(more)
<1> DEFINE n == Len(more)
           A == {hs \in Seq(H) : Distinct(hs)}
<1>0. n \in Nat /\ DOMAIN more = 1 .. n /\ \A i \in 1 .. n : more[i] \in H /\ more[i][1] # <<>>
  BY DEF Named
<1>1. base \in A /\ \A a \in A, h \in H : Put(a, h) \in A
  BY PutIs
<1>2. PICK p \in [0 .. n -> A] :
         /\ p[0] = base /\ PutAll(base, more) = p[n]
         /\ \A i \in 1 .. n : p[i] = Put(p[i - 1], more[i])
  <2> HIDE DEF A
  <2>1. \E p : Puts(A, base, more, p) /\ PutAll(base, more) = p[Len(more)]
    BY <1>1, PutAllSteps
  <2> QED BY <2>1 DEF Puts
<1> DEFINE q == [i \in 0 .. n |-> ToSet(p[i])]
<1>3. ASSUME NEW i \in 1 .. n PROVE q[i] = JavaPut(q[i - 1], more[i])
  <2>1. i \in 0 .. n /\ i - 1 \in 0 .. n /\ p[i] = Put(p[i - 1], more[i])
    BY <1>0, <1>2
  <2>2. p[i - 1] \in Seq(H) /\ Distinct(p[i - 1])
    BY <1>2, <2>1
  <2>3. ToSet(Put(p[i - 1], more[i])) = JavaPut(ToSet(p[i - 1]), more[i])
    BY <1>0, <2>2, PutIs
  <2> QED BY <2>1, <2>3
<1>4. q[0] = ToSet(base) /\ q[n] = ToSet(PutAll(base, more)) /\ n \in 0 .. n
  BY <1>0, <1>2
<1>5. Distinct(PutAll(base, more))
  BY <1>2, <1>4
<1> HIDE DEF q
<1>6. q[n] = {g \in ToSet(base) : g[1] \notin Keys(more)} \cup ToSet(more)
  BY <1>3, <1>4, MapIs
<1> QED BY <1>4, <1>5, <1>6

\* PutAll in general.
LEMMA PutAllIn ==
    ASSUME NEW H, NEW base \in Seq(H), NEW more \in Seq(H)
    PROVE  PutAll(base, more) \in Seq(H)
<1>1. \A a \in Seq(H), h \in H : Put(a, h) \in Seq(H)
  BY PutIs
<1>2. PICK p \in [0 .. Len(more) -> Seq(H)] : PutAll(base, more) = p[Len(more)]
  <2> DEFINE A == Seq(H)
  <2>1. base \in A /\ \A a \in A, h \in H : Put(a, h) \in A
    BY <1>1
  <2> HIDE DEF A
  <2>2. \E p : Puts(A, base, more, p) /\ PutAll(base, more) = p[Len(more)]
    BY <2>1, PutAllSteps
  <2> QED BY <2>2 DEF A, Puts
<1>3. Len(more) \in 0 .. Len(more)
  OBVIOUS
<1> QED BY <1>2, <1>3

\* What fromString makes of the headers that are found.
LEMMA MapOf ==
    ASSUME NEW H, NEW hs \in Seq(H)
    PROVE  /\ MapFrom(hs) \subseteq H
           /\ Distinct(hs) => MapFrom(hs) = ToSet(hs)
<1>1. PICK p \in [0 .. Len(hs) -> (SUBSET H)] :
         /\ p[0] = {} /\ MapFrom(hs) = p[Len(hs)]
         /\ \A i \in 1 .. Len(hs) : p[i] = JavaPut(p[i - 1], hs[i])
  BY JavaPutSteps
<1>2. Len(hs) \in 0 .. Len(hs)
  OBVIOUS
<1>3. ASSUME Distinct(hs) PROVE p[Len(hs)] = {g \in {} : g[1] \notin Keys(hs)} \cup ToSet(hs)
  BY <1>1, <1>3, MapIs
<1>4. p[Len(hs)] \in SUBSET H
  BY <1>1, <1>2
<1>5. {g \in {} : g[1] \notin Keys(hs)} \cup ToSet(hs) = ToSet(hs)
  OBVIOUS
<1> QED BY <1>1, <1>3, <1>4, <1>5

LEMMA FromStringIs == \A text : FromString(text) = MapFrom(JavaScan(text).headers)
BY DEF FromString, MapFrom

-----------------------------------------------------------------------------
(***************************************************************************)
(* Whatever text the parser is given, what it takes apart is clean, and no *)
(* character of two bytes is cut in it, if none is cut in the text.        *)
(***************************************************************************)
Paired(t) == \A i \in 1 .. Len(t) : t[i] = Wide2 => i > 1 /\ t[i - 1] = Wide1

Good(B) == {h \in CleanHeaders(B) : Paired(h[1]) /\ Paired(h[2])}

LEMMA Between ==
    ASSUME NEW B, NEW text \in Seq(B), text[1] = Quote, Paired(text),
           NEW c \in 1 .. Len(text), NEW d \in 1 .. Len(text), c < d, Delimits(text, c), Delimits(text, d),
           \A j \in 1 .. Len(text) : c < j /\ j < d => ~Delimits(text, j)
    PROVE  /\ SubSeq(text, c + 1, d - 1) \in Seq(B)
           /\ Clean(SubSeq(text, c + 1, d - 1)) /\ Paired(SubSeq(text, c + 1, d - 1))
<1> DEFINE n == d - 1 - c
           t == SubSeq(text, c + 1, d - 1)
<1>0. n \in Nat /\ Len(text) \in Nat /\ c \in Nat /\ d \in Nat
  OBVIOUS
<1>1. t \in Seq(B) /\ Len(t) = n /\ \A i \in 1 .. n : t[i] = text[c + i]
  <2>1. \A i \in c + 1 .. d - 1 : text[i] \in B
    OBVIOUS
  <2>2. c + 1 \in Int /\ d - 1 \in Int
    OBVIOUS
  <2>3. /\ t \in Seq(B) /\ Len(t) = IF c + 1 <= d - 1 THEN (d - 1) - (c + 1) + 1 ELSE 0
        /\ \A i \in 1 .. (d - 1) - (c + 1) + 1 : t[i] = text[(c + 1) + i - 1]
    BY <2>1, <2>2, SubSeqProperties
  <2>4. Len(t) = n
    BY <1>0, <2>3
  <2>5. (d - 1) - (c + 1) + 1 = n /\ \A i \in 1 .. n : (c + 1) + i - 1 = c + i
    BY <1>0
  <2> HIDE DEF t, n
  <2>6. \A i \in 1 .. n : t[i] = text[c + i]
    BY <2>3, <2>5
  <2> QED BY <2>3, <2>4, <2>6
<1>2. \A i \in 1 .. n : c + i \in 1 .. Len(text) /\ c < c + i /\ c + i < d /\ c + i # 1 /\ (c + i) - 1 = c + (i - 1)
  BY <1>0
<1>3. \A i \in 1 .. n : i > 1 => i - 1 \in 1 .. n
  BY <1>0
<1>4. \A i \in 1 .. n : ~(i > 1) => (c + i) - 1 = c
  BY <1>0
<1>5. text[c] = Quote
  BY DEF Delimits
<1>6. d > 1 /\ text[d] = Quote /\ text[d - 1] # Backslash
  BY <1>0 DEF Delimits
<1>7. Quote # Backslash /\ Quote # Wide1
  BY DEF Quote, Backslash, Wide1
<1> HIDE DEF t, n
<1>8. ASSUME NEW i \in 1 .. n, t[i] = Quote PROVE i > 1 /\ t[i - 1] = Backslash
  <2>1. ~Delimits(text, c + i) /\ text[c + i] = Quote
    BY <1>1, <1>2, <1>8
  <2>2. text[(c + i) - 1] = Backslash
    BY <1>2, <2>1 DEF Delimits
  <2>3. i > 1
    BY <1>4, <1>5, <1>7, <2>2
  <2> QED BY <1>1, <1>2, <1>3, <2>2, <2>3
<1>9. ASSUME NEW i \in 1 .. n, t[i] = Wide2 PROVE i > 1 /\ t[i - 1] = Wide1
  <2>1. text[c + i] = Wide2
    BY <1>1, <1>2, <1>9
  <2>2. text[(c + i) - 1] = Wide1
    BY <1>2, <2>1 DEF Paired
  <2>3. i > 1
    BY <1>4, <1>5, <1>7, <2>2
  <2> QED BY <1>1, <1>2, <1>3, <2>2, <2>3
<1>10. ASSUME t # <<>> PROVE Last(t) # Backslash
  <2>1. n \in 1 .. n /\ c + n = d - 1
    BY <1>0, <1>1, <1>10 DEF n
  <2>2. t[n] = text[d - 1]
    BY <1>1, <2>1
  <2> QED BY <1>1, <1>6, <2>2 DEF Last
<1>11. DOMAIN t = 1 .. n
  BY <1>1
<1>12. Clean(t) /\ Paired(t)
  BY <1>1, <1>8, <1>9, <1>10, <1>11 DEF Clean, Paired
<1> QED BY <1>1, <1>12 DEF t

\* What is remembered after i characters: the delimiters since the first one of
\* this header.
Remembers(text, i, m) ==
    /\ m \in Seq(1 .. i) /\ Len(m) <= 3
    /\ \A k, l \in 1 .. Len(m) : k < l => m[k] < m[l]
    /\ \A k \in 1 .. Len(m) : Delimits(text, m[k])
    /\ \A j \in 1 .. i : Len(m) > 0 /\ j > m[1] /\ Delimits(text, j) => \E k \in 1 .. Len(m) : m[k] = j

\* Nothing between two neighbours of those delimits.
LEMMA Neighbours ==
    ASSUME NEW B, NEW text \in Seq(B), text[1] = Quote, Paired(text), NEW i \in 1 .. Len(text), NEW m,
           Remembers(text, i - 1, m), Len(m) >= 3, Delimits(text, i)
    PROVE  HeaderAt(text, m, i) \in Good(B)
<1> DEFINE a == m[1]
           b == m[2]
           c == m[3]
<1>1. Len(m) = 3 /\ Len(text) \in Nat
  <2>1. m \in Seq(1 .. (i - 1)) /\ Len(m) <= 3
    BY DEF Remembers
  <2>2. Len(m) \in Nat
    BY <2>1, LenProperties
  <2>3. Len(text) \in Nat
    OBVIOUS
  <2>4. Len(m) = 3
    <3> DEFINE x == Len(m)
    <3>1. x \in Nat /\ x <= 3 /\ x >= 3
      BY <2>1, <2>2
    <3> HIDE DEF x
    <3>2. x = 3
      BY <3>1
    <3> QED BY <3>2 DEF x
  <2> QED BY <2>3, <2>4
<1>2. 1 \in 1 .. Len(m) /\ 2 \in 1 .. Len(m) /\ 3 \in 1 .. Len(m) /\ \A k \in 1 .. Len(m) : k \in {1, 2, 3}
  BY <1>1
<1>3. a \in 1 .. (i - 1) /\ b \in 1 .. (i - 1) /\ c \in 1 .. (i - 1)
  BY <1>2 DEF Remembers
<1>4. a < b /\ b < c /\ c < i /\ Delimits(text, a) /\ Delimits(text, b) /\ Delimits(text, c)
  <2>1. c < i
    BY <1>1, <1>3
  <2> QED BY <1>2, <2>1 DEF Remembers
<1>5. \A j \in 1 .. (i - 1) : j > a /\ Delimits(text, j) => j \in {a, b, c}
  <2>1. \A j \in 1 .. (i - 1) : Len(m) > 0 /\ j > m[1] /\ Delimits(text, j) => \E k \in 1 .. Len(m) : m[k] = j
    BY DEF Remembers
  <2> QED BY <1>1, <1>2, <2>1
<1> HIDE DEF a, b, c
<1>6. /\ a \in 1 .. Len(text) /\ b \in 1 .. Len(text) /\ c \in 1 .. Len(text)
  BY <1>1, <1>3
<1>7. \A j \in 1 .. Len(text) : a < j /\ j < b => ~Delimits(text, j)
  <2> SUFFICES ASSUME NEW j \in 1 .. Len(text), a < j, j < b, Delimits(text, j) PROVE FALSE
    OBVIOUS
  <2>1. j \in 1 .. (i - 1) /\ j > a /\ j # a /\ j # b /\ j # c
    BY <1>3, <1>4, <1>6
  <2> QED BY <1>5, <2>1
<1>8. \A j \in 1 .. Len(text) : c < j /\ j < i => ~Delimits(text, j)
  <2> SUFFICES ASSUME NEW j \in 1 .. Len(text), c < j, j < i, Delimits(text, j) PROVE FALSE
    OBVIOUS
  <2>1. j \in 1 .. (i - 1) /\ j > a /\ j # a /\ j # b /\ j # c
    BY <1>3, <1>4, <1>6
  <2> QED BY <1>5, <2>1
<1> DEFINE s == SubSeq(text, a + 1, b - 1)
           t == SubSeq(text, c + 1, i - 1)
<1>9. s \in Seq(B) /\ Clean(s) /\ Paired(s)
  BY <1>4, <1>6, <1>7, Between
<1>10. t \in Seq(B) /\ Clean(t) /\ Paired(t)
  BY <1>4, <1>6, <1>8, Between
<1>11. HeaderAt(text, m, i) = <<s, t>>
  BY DEF HeaderAt, a, b, c
<1> HIDE DEF s, t
<1>12. <<s, t>> \in Good(B)
  BY <1>9, <1>10 DEF Good, CleanHeaders, Header
<1> QED BY <1>11, <1>12

\* One more character.
LEMMA Remembering ==
    ASSUME NEW B, NEW text \in Seq(B), NEW i \in 1 .. Len(text), NEW m, Remembers(text, i - 1, m)
    PROVE  /\ ~Delimits(text, i) => Remembers(text, i, m)
           /\ Delimits(text, i) /\ Len(m) < 3 => Remembers(text, i, Append(m, i))
           /\ m = <<>> => Remembers(text, i, m)
           /\ Remembers(text, i, <<>>) /\ m \in Seq(Nat)
<1>0. /\ Len(text) \in Nat /\ m \in Seq(1 .. (i - 1)) /\ Len(m) \in Nat /\ Len(m) <= 3
      /\ \A k \in 1 .. Len(m) : m[k] \in 1 .. (i - 1)
  BY DEF Remembers
<1>1. 1 .. (i - 1) \subseteq 1 .. i /\ 1 .. (i - 1) \subseteq Nat
  OBVIOUS
<1>2. m \in Seq(1 .. i) /\ m \in Seq(Nat)
  <2>1. m \in Seq(1 .. (i - 1))
    BY <1>0
  <2> QED BY <1>1, <2>1, SeqMonotonic
<1>3. \A j \in 1 .. i : j \in 1 .. (i - 1) \/ j = i
  OBVIOUS
<1>4. ASSUME ~Delimits(text, i) PROVE Remembers(text, i, m)
  BY <1>0, <1>2, <1>3, <1>4 DEF Remembers
<1>5. Remembers(text, i, <<>>)
  BY DEF Remembers
<1>6. ASSUME Delimits(text, i), Len(m) < 3 PROVE Remembers(text, i, Append(m, i))
  <2> DEFINE r == Append(m, i)
             n == Len(m)
  <2>1. i \in 1 .. i
    OBVIOUS
  <2>2. r \in Seq(1 .. i) /\ Len(r) = n + 1 /\ r[n + 1] = i /\ \A k \in 1 .. n : r[k] = m[k]
    BY <1>2, <2>1, AppendProperties
  <2>3. \A k \in 1 .. (n + 1) : k \in 1 .. n \/ k = n + 1
    BY <1>0
  <2>4. \A k \in 1 .. n : m[k] < i /\ k < n + 1 /\ ~(n + 1 < k) /\ k \in 1 .. (n + 1)
    BY <1>0
  <2>e. n + 1 \in 1 .. (n + 1) /\ ~(n + 1 < n + 1) /\ 1 \in 1 .. (n + 1) /\ n + 1 <= 3 /\ n + 1 > 0
    BY <1>0, <1>6
  <2> HIDE DEF r, n
  <2>5. \A k, l \in 1 .. (n + 1) : k < l => r[k] < r[l]
    <3> SUFFICES ASSUME NEW k \in 1 .. (n + 1), NEW l \in 1 .. (n + 1), k < l PROVE r[k] < r[l]
      OBVIOUS
    <3>1. CASE l \in 1 .. n
      <4>1. k \in 1 .. n
        BY <2>3, <2>4, <3>1
      <4> QED BY <2>2, <3>1, <4>1 DEF Remembers, n
    <3>2. CASE l = n + 1
      <4>1. k \in 1 .. n
        BY <2>3, <2>e, <3>2
      <4> QED BY <2>2, <2>4, <3>2, <4>1
    <3> QED BY <2>3, <3>1, <3>2
  <2>6. \A k \in 1 .. (n + 1) : Delimits(text, r[k])
    <3>1. \A k \in 1 .. n : Delimits(text, m[k])
      BY DEF Remembers, n
    <3> QED BY <1>6, <2>2, <2>3, <3>1
  <2>7. ASSUME NEW j \in 1 .. i, j > r[1], Delimits(text, j) PROVE \E k \in 1 .. (n + 1) : r[k] = j
    <3>1. CASE j = i
      BY <2>2, <2>e, <3>1
    <3>2. CASE j \in 1 .. (i - 1)
      <4>1. n > 0
        <5>1. ASSUME n = 0 PROVE FALSE
          <6>1. r[1] = i
            BY <2>2, <5>1
          <6> QED BY <2>7, <3>2, <6>1
        <5> QED BY <1>0, <5>1 DEF n
      <4>2. r[1] = m[1]
        <5>1. 1 \in 1 .. n
          BY <1>0, <4>1 DEF n
        <5> QED BY <2>2, <5>1
      <4>3. \E k \in 1 .. n : m[k] = j
        BY <2>7, <3>2, <4>1, <4>2 DEF Remembers, n
      <4> QED BY <2>2, <2>4, <4>3
    <3> QED BY <1>3, <3>1, <3>2
  <2>8. Remembers(text, i, r)
    BY <2>2, <2>5, <2>6, <2>7, <2>e DEF Remembers
  <2> QED BY <2>8 DEF r
<1> QED BY <1>2, <1>4, <1>5, <1>6

LEMMA CleanScan ==
    ASSUME NEW B, NEW text \in Seq(B), text # <<>> => text[1] = Quote, Paired(text)
    PROVE  Scan(text).headers \in Seq(Good(B))
<1> DEFINE n == Len(text)
<1>0. n \in Nat /\ (n > 0 => text[1] = Quote)
  OBVIOUS
<1>1. PICK p : Scans(text, p) /\ Scan(text) = p[n]
  BY ScanIs
<1> DEFINE Is(i) == \E m \in Seq(Nat), hs \in Seq(Good(B)) :
                       /\ Remembers(text, i, m)
                       /\ p[i] = Reading(m, hs) \/ (p[i] = Skipping(m, hs) /\ m = <<>>)
           P == {i \in 0 .. n : Is(i)}
<1>2. 0 \in P
  <2>1. Remembers(text, 0, <<>>)
    BY DEF Remembers
  <2>2. p[0] = Reading(<<>>, <<>>) /\ <<>> \in Seq(Nat) /\ <<>> \in Seq(Good(B))
    BY <1>1 DEF Scans
  <2>3. Is(0)
    BY <2>1, <2>2
  <2> HIDE DEF Is
  <2> QED BY <1>0, <2>3
<1>3. ASSUME NEW i \in 1 .. n, i - 1 \in P PROVE i \in P
  <2>1. PICK m \in Seq(Nat), hs \in Seq(Good(B)) :
           /\ Remembers(text, i - 1, m)
           /\ p[i - 1] = Reading(m, hs) \/ (p[i - 1] = Skipping(m, hs) /\ m = <<>>)
    BY <1>3
  <2>2. i \in 0 .. n /\ text[1] = Quote
    BY <1>0
  <2>3. /\ ~Delimits(text, i) => Remembers(text, i, m)
        /\ Delimits(text, i) /\ Len(m) < 3 => Remembers(text, i, Append(m, i))
        /\ m = <<>> => Remembers(text, i, m)
        /\ Remembers(text, i, <<>>)
    BY <2>1, Remembering
  <2>4. /\ p[i - 1] = Skipping(m, hs) => p[i] = Reading(m, hs)
        /\ p[i - 1] = Reading(m, hs) =>
              /\ ~Delimits(text, i) => p[i] = Reading(m, hs)
              /\ Delimits(text, i) /\ Len(m) < 3 => p[i] = Reading(Append(m, i), hs)
              /\ Delimits(text, i) /\ Len(m) >= 3 =>
                    p[i] = Skipping(<<>>, Append(hs, HeaderAt(text, m, i)))
    BY <1>1, <2>1, ScanTurn
  <2>5. Is(i)
    <3>1. CASE p[i - 1] = Skipping(m, hs) /\ m = <<>>
      BY <2>1, <2>3, <2>4, <3>1
    <3>2. CASE p[i - 1] = Reading(m, hs) /\ ~Delimits(text, i)
      BY <2>1, <2>3, <2>4, <3>2
    <3>3. CASE p[i - 1] = Reading(m, hs) /\ Delimits(text, i) /\ Len(m) < 3
      <4>1. Append(m, i) \in Seq(Nat)
        BY <1>0, <2>1
      <4> QED BY <2>1, <2>3, <2>4, <3>3, <4>1
    <3>4. CASE p[i - 1] = Reading(m, hs) /\ Delimits(text, i) /\ Len(m) >= 3
      <4>1. HeaderAt(text, m, i) \in Good(B)
        BY <2>1, <2>2, <3>4, Neighbours
      <4>2. Append(hs, HeaderAt(text, m, i)) \in Seq(Good(B))
        BY <2>1, <4>1, AppendProperties
      <4>3. p[i] = Skipping(<<>>, Append(hs, HeaderAt(text, m, i))) /\ <<>> \in Seq(Nat)
        BY <2>4, <3>4
      <4> QED BY <2>3, <4>2, <4>3
    <3>5. Len(m) \in Nat
      BY <2>1
    <3> QED BY <2>1, <3>1, <3>2, <3>3, <3>4, <3>5
  <2> HIDE DEF Is
  <2> QED BY <2>2, <2>5
<1>4. n \in P
  <2> HIDE DEF P
  <2>1. \A i \in 0 .. n : i \in P
    BY <1>0, <1>2, <1>3, Steps
  <2> QED BY <1>0, <2>1
<1>5. PICK m \in Seq(Nat), hs \in Seq(Good(B)) : p[n] = Reading(m, hs) \/ p[n] = Skipping(m, hs)
  BY <1>4
<1>6. p[n].headers = hs
  BY <1>5, StateHas
<1> QED BY <1>1, <1>5, <1>6

-----------------------------------------------------------------------------
(***************************************************************************)
(* Turning characters into bytes, and back, goes part by part.             *)
(***************************************************************************)
LEMMA FlattenJoin ==
    ASSUME NEW B, NEW s \in Seq(Seq(B)), NEW t \in Seq(Seq(B))
    PROVE  /\ FlattenSeq(s \o t) = FlattenSeq(s) \o FlattenSeq(t)
           /\ FlattenSeq(s) \in Seq(B) /\ FlattenSeq(t) \in Seq(B)
<1> DEFINE m == Len(s)
           n == Len(t)
           u == s \o t
<1>0. /\ u \in Seq(Seq(B)) /\ m \in Nat /\ n \in Nat /\ Len(u) = m + n
      /\ \A i \in 1 .. m : u[i] = s[i]
      /\ \A i \in 1 .. n : u[m + i] = t[i]
  <2> DEFINE A == Seq(B)
  <2>1. s \in Seq(A) /\ t \in Seq(A)
    OBVIOUS
  <2> HIDE DEF A
  <2>2. /\ u \in Seq(A) /\ m \in Nat /\ n \in Nat /\ Len(u) = m + n
        /\ \A i \in 1 .. m : u[i] = s[i]
        /\ \A i \in 1 .. n : u[m + i] = t[i]
    BY <2>1, Joined
  <2> QED BY <2>2 DEF A
<1>e. (\A i \in 1 .. m : s[i] \in Seq(B)) /\ (\A i \in 1 .. n : t[i] \in Seq(B))
  OBVIOUS
<1> HIDE DEF u
<1>1. PICK p \in [0 .. m -> Seq(B)] :
         /\ p[0] = <<>> /\ FlattenSeq(s) = p[m] /\ \A i \in 1 .. m : p[i] = p[i - 1] \o s[i]
  BY FlattenSteps
<1>2. PICK q \in [0 .. n -> Seq(B)] :
         /\ q[0] = <<>> /\ FlattenSeq(t) = q[n] /\ \A i \in 1 .. n : q[i] = q[i - 1] \o t[i]
  BY FlattenSteps
<1>3. PICK r \in [0 .. Len(u) -> Seq(B)] :
         /\ r[0] = <<>> /\ FlattenSeq(u) = r[Len(u)] /\ \A i \in 1 .. Len(u) : r[i] = r[i - 1] \o u[i]
  <2>1. u \in Seq(Seq(B))
    BY <1>0
  <2> QED BY <2>1, FlattenSteps
<1> HIDE DEF m, n
<1>r. \A i \in 1 .. (m + n) : r[i] = r[i - 1] \o u[i]
  BY <1>0, <1>3
<1> DEFINE P == {i \in 0 .. m : r[i] = p[i]}
           Q == {i \in 0 .. n : r[m + i] = p[m] \o q[i]}
<1>4. 0 \in P
  BY <1>0, <1>1, <1>3
<1>5. ASSUME NEW i \in 1 .. m, i - 1 \in P PROVE i \in P
  <2>1. i \in 0 .. m /\ i \in 1 .. (m + n) /\ r[i - 1] = p[i - 1]
    BY <1>0, <1>5
  <2>2. r[i] = r[i - 1] \o u[i] /\ u[i] = s[i] /\ p[i] = p[i - 1] \o s[i]
    BY <1>0, <1>1, <1>r, <2>1
  <2> QED BY <2>1, <2>2
<1>6. \A i \in 0 .. m : i \in P
  <2> HIDE DEF P
  <2> QED BY <1>0, <1>4, <1>5, Steps
<1>7. r[m] = p[m] /\ p[m] \in Seq(B) /\ q[n] \in Seq(B)
  BY <1>0, <1>1, <1>2, <1>6
<1>8. 0 \in Q
  <2>1. m + 0 = m /\ 0 \in 0 .. n
    BY <1>0
  <2>2. p[m] \o <<>> = p[m]
    BY <1>7
  <2> QED BY <1>2, <1>7, <2>1, <2>2
<1>9. ASSUME NEW i \in 1 .. n, i - 1 \in Q PROVE i \in Q
  <2>1. i \in 0 .. n /\ m + i \in 1 .. (m + n) /\ (m + i) - 1 = m + (i - 1) /\ i - 1 \in 0 .. n
    BY <1>0
  <2>2. r[m + i] = r[m + (i - 1)] \o t[i]
    BY <1>0, <1>r, <2>1
  <2>3. r[m + (i - 1)] = p[m] \o q[i - 1] /\ q[i - 1] \in Seq(B) /\ t[i] \in Seq(B)
    BY <1>2, <1>9, <1>e, <2>1
  <2>4. (p[m] \o q[i - 1]) \o t[i] = p[m] \o (q[i - 1] \o t[i])
    <3> DEFINE x == p[m]
               y == q[i - 1]
               z == t[i]
    <3>1. x \in Seq(B) /\ y \in Seq(B) /\ z \in Seq(B)
      BY <1>7, <2>3
    <3> HIDE DEF x, y, z
    <3>2. (x \o y) \o z = x \o (y \o z)
      BY <3>1, SMTT(30)
    <3> QED BY <3>2 DEF x, y, z
  <2>5. r[m + i] = p[m] \o q[i]
    BY <1>2, <2>2, <2>3, <2>4
  <2> QED BY <2>1, <2>5
<1>10. \A i \in 0 .. n : i \in Q
  <2> HIDE DEF Q
  <2> QED BY <1>0, <1>8, <1>9, Steps
<1>11. r[m + n] = p[m] \o q[n]
  BY <1>0, <1>10
<1>12. FlattenSeq(u) = p[m] \o q[n]
  BY <1>0, <1>3, <1>11
<1> QED BY <1>1, <1>2, <1>7, <1>12 DEF u

\* The concatenation of what f makes of each element.
Spread(f, t) == FlattenSeq([i \in DOMAIN t |-> f[t[i]]])

Spreads(B, C, f) == f \in [B -> Seq(C)]

LEMMA SpreadJoin ==
    ASSUME NEW B, NEW C, NEW f, Spreads(B, C, f), NEW s \in Seq(B), NEW t \in Seq(B)
    PROVE  /\ Spread(f, s \o t) = Spread(f, s) \o Spread(f, t)
           /\ Spread(f, s) \in Seq(C)
<1> DEFINE g(x) == [i \in DOMAIN x |-> f[x[i]]]
           A == Seq(C)
<1>1. \A x \in Seq(B) : g(x) \in Seq(A) /\ Len(g(x)) = Len(x) /\ \A i \in 1 .. Len(x) : g(x)[i] = f[x[i]]
  <2> TAKE x \in Seq(B)
  <2>1. Len(x) \in Nat /\ DOMAIN x = 1 .. Len(x) /\ \A i \in 1 .. Len(x) : f[x[i]] \in A
    BY DEF Spreads
  <2> HIDE DEF A
  <2> QED BY <2>1
<1>2. /\ s \o t \in Seq(B) /\ Len(s \o t) = Len(s) + Len(t) /\ Len(s) \in Nat /\ Len(t) \in Nat
      /\ \A i \in 1 .. Len(s) : (s \o t)[i] = s[i]
      /\ \A i \in 1 .. Len(t) : (s \o t)[Len(s) + i] = t[i]
  BY Joined
<1>x. \A x : Spread(f, x) = FlattenSeq(g(x))
  BY DEF Spread
<1> HIDE DEF A, g
<1>3. /\ g(s) \o g(t) \in Seq(A) /\ Len(g(s) \o g(t)) = Len(s) + Len(t)
      /\ \A i \in 1 .. Len(s) : (g(s) \o g(t))[i] = g(s)[i]
      /\ \A i \in 1 .. Len(t) : (g(s) \o g(t))[Len(s) + i] = g(t)[i]
  <2>1. g(s) \in Seq(A) /\ g(t) \in Seq(A) /\ Len(g(s)) = Len(s) /\ Len(g(t)) = Len(t)
    BY <1>1
  <2>2. /\ g(s) \o g(t) \in Seq(A) /\ Len(g(s) \o g(t)) = Len(g(s)) + Len(g(t))
        /\ \A i \in 1 .. Len(g(s)) : (g(s) \o g(t))[i] = g(s)[i]
        /\ \A i \in 1 .. Len(g(t)) : (g(s) \o g(t))[Len(g(s)) + i] = g(t)[i]
    <3> DEFINE x == g(s)
               y == g(t)
    <3>1. x \in Seq(A) /\ y \in Seq(A)
      BY <2>1
    <3> HIDE DEF x, y
    <3>2. /\ x \o y \in Seq(A) /\ Len(x \o y) = Len(x) + Len(y)
          /\ \A i \in 1 .. Len(x) : (x \o y)[i] = x[i]
          /\ \A i \in 1 .. Len(y) : (x \o y)[Len(x) + i] = y[i]
      BY <3>1, Joined
    <3> QED BY <3>2 DEF x, y
  <2> QED BY <2>1, <2>2
<1>4. \A i \in 1 .. (Len(s) + Len(t)) : i \in 1 .. Len(s) \/ (i - Len(s) \in 1 .. Len(t) /\ i = Len(s) + (i - Len(s)))
  BY <1>2
<1>5. g(s \o t) \in Seq(A) /\ Len(g(s \o t)) = Len(s) + Len(t)
  BY <1>1, <1>2
<1>6. ASSUME NEW i \in 1 .. (Len(s) + Len(t)) PROVE g(s \o t)[i] = (g(s) \o g(t))[i]
  <2>1. g(s \o t)[i] = f[(s \o t)[i]]
    BY <1>1, <1>2
  <2>2. CASE i \in 1 .. Len(s)
    BY <1>1, <1>2, <1>3, <2>1, <2>2
  <2>3. CASE i - Len(s) \in 1 .. Len(t) /\ i = Len(s) + (i - Len(s))
    <3> DEFINE j == i - Len(s)
    <3>1. j \in 1 .. Len(t) /\ i = Len(s) + j
      BY <2>3
    <3> HIDE DEF j
    <3>2. (g(s) \o g(t))[i] = g(t)[j] /\ (s \o t)[i] = t[j]
      BY <1>2, <1>3, <3>1
    <3>3. g(t)[j] = f[t[j]]
      BY <1>1, <3>1
    <3> QED BY <2>1, <3>2, <3>3
  <2> QED BY <1>4, <2>2, <2>3
<1>7. g(s \o t) = g(s) \o g(t)
  BY <1>3, <1>5, <1>6, SeqEqual
<1>8. g(s) \in Seq(A) /\ g(t) \in Seq(A)
  BY <1>1
<1>9. FlattenSeq(g(s) \o g(t)) = FlattenSeq(g(s)) \o FlattenSeq(g(t)) /\ FlattenSeq(g(s)) \in Seq(C)
  BY <1>8, FlattenJoin DEF A
<1> QED BY <1>7, <1>9, <1>x

LEMMA SpreadOne ==
    ASSUME NEW B, NEW C, NEW f, Spreads(B, C, f)
    PROVE  Spread(f, <<>>) = <<>> /\ \A x \in B : Spread(f, <<x>>) = f[x]
<1>0. \A s \in Seq(Seq(C)) : Len(s) = 1 => FlattenSeq(s) = s[1]
  <2> TAKE s \in Seq(Seq(C))
  <2> HAVE Len(s) = 1
  <2>1. PICK p \in [0 .. Len(s) -> Seq(C)] :
           /\ p[0] = <<>> /\ FlattenSeq(s) = p[Len(s)] /\ \A i \in 1 .. Len(s) : p[i] = p[i - 1] \o s[i]
    BY FlattenSteps
  <2>2. 1 \in 1 .. Len(s) /\ 1 - 1 = 0 /\ s[1] \in Seq(C)
    <3> DEFINE A == Seq(C)
    <3>1. s \in Seq(A) /\ 1 \in 1 .. Len(s) /\ 1 - 1 = 0
      OBVIOUS
    <3> HIDE DEF A
    <3>2. s[1] \in A
      BY <3>1, ElementOfSeq, Zenon
    <3> QED BY <3>1, <3>2 DEF A
  <2>3. FlattenSeq(s) = <<>> \o s[1]
    BY <2>1, <2>2
  <2> QED BY <2>2, <2>3
<1>1. ASSUME NEW x \in B PROVE Spread(f, <<x>>) = f[x]
  <2> DEFINE s == [i \in DOMAIN <<x>> |-> f[<<x>>[i]]]
  <2>1. DOMAIN <<x>> = 1 .. 1 /\ <<x>>[1] = x /\ f[x] \in Seq(C)
    BY DEF Spreads
  <2>2. s \in Seq(Seq(C)) /\ Len(s) = 1 /\ s[1] = f[x]
    <3> DEFINE A == Seq(C)
    <3>1. f[x] \in A
      BY <2>1
    <3> HIDE DEF A
    <3>2. s = [i \in 1 .. 1 |-> f[x]]
      BY <2>1
    <3>3. s \in Seq(A) /\ Len(s) = 1 /\ s[1] = f[x]
      BY <3>1, <3>2
    <3> QED BY <3>3 DEF A
  <2>3. Spread(f, <<x>>) = FlattenSeq(s)
    BY DEF Spread
  <2> HIDE DEF s
  <2> QED BY <1>0, <2>2, <2>3
<1>2. Spread(f, <<>>) = <<>>
  <2> DEFINE s == [i \in DOMAIN <<>> |-> f[<<>>[i]]]
  <2>1. s = <<>>
    OBVIOUS
  <2>2. Spread(f, <<>>) = FlattenSeq(<<>>)
    BY <2>1 DEF Spread
  <2>3. <<>> \in Seq(Seq(C)) /\ Len(<<>>) = 0
    OBVIOUS
  <2>4. PICK p \in [0 .. Len(<<>>) -> Seq(C)] : p[0] = <<>> /\ FlattenSeq(<<>>) = p[Len(<<>>)]
    BY <2>3, FlattenSteps
  <2> QED BY <2>2, <2>3, <2>4
<1> QED BY <1>1, <1>2

SpreadHeader(f, h) == <<Spread(f, h[1]), Spread(f, h[2])>>
SpreadHeaders(f, hs) == [i \in DOMAIN hs |-> SpreadHeader(f, hs[i])]

Marking(B, C, f) ==
    /\ {Quote, Semicolon} \subseteq B /\ {Quote, Semicolon} \subseteq C /\ f \in [B -> Seq(C)]
    /\ f[Quote] = <<Quote>> /\ f[Semicolon] = <<Semicolon>>

LEMMA SpreadHeaderText ==
    ASSUME NEW B, NEW C, NEW f, Marking(B, C, f), NEW h \in Header(B)
    PROVE  /\ SpreadHeader(f, h) \in Header(C)
           /\ Spread(f, HeaderText(h)) = HeaderText(SpreadHeader(f, h))
<1> DEFINE k == h[1]
           v == h[2]
           q == <<Quote>>
           q1 == <<Quote>>
           q2 == <<Quote, Quote>>
           q3 == <<Quote, Semicolon>>
           qs == <<Semicolon>>
           t1 == q1 \o k
           t2 == t1 \o q2
           t3 == t2 \o v
           t4 == t3 \o q3
<1>0. Quote \in B /\ Semicolon \in B /\ Spreads(B, C, f) /\ f[Quote] = q /\ f[Semicolon] = qs
  BY DEF Marking, Spreads
<1>1. k \in Seq(B) /\ v \in Seq(B)
  BY DEF Header
<1>2. q1 \in Seq(B) /\ q2 \in Seq(B) /\ q3 \in Seq(B) /\ q \in Seq(B) /\ qs \in Seq(B) /\ q2 = q \o q /\ q3 = q \o qs
  BY <1>0
<1>3. Spread(f, q) = q /\ Spread(f, qs) = qs
  BY <1>0, SpreadOne
<1>4. HeaderText(h) = t4
  BY DEF HeaderText
<1>5. HeaderText(SpreadHeader(f, h))
        = (((q1 \o Spread(f, k)) \o q2) \o Spread(f, v)) \o q3
  BY DEF HeaderText, SpreadHeader
<1>6. q1 = q
  OBVIOUS
<1> HIDE DEF k, v, q, q1, q2, q3, qs
<1>7. Spread(f, q2) = q2 /\ Spread(f, q3) = q3 /\ Spread(f, q1) = q1
  <2>1. Spread(f, q \o q) = Spread(f, q) \o Spread(f, q)
    BY <1>0, <1>2, SpreadJoin
  <2>2. Spread(f, q \o qs) = Spread(f, q) \o Spread(f, qs)
    BY <1>0, <1>2, SpreadJoin
  <2> QED BY <1>2, <1>3, <1>6, <2>1, <2>2
<1>8. t1 \in Seq(B) /\ Spread(f, t1) = q1 \o Spread(f, k)
  <2>0. Spreads(B, C, f) /\ q1 \in Seq(B) /\ k \in Seq(B)
    BY <1>0, <1>1, <1>2
  <2>1. Spread(f, q1 \o k) = Spread(f, q1) \o Spread(f, k)
    BY <2>0, SpreadJoin
  <2> QED BY <1>1, <1>2, <1>7, <2>1
<1> HIDE DEF t1
<1>9. t2 \in Seq(B) /\ Spread(f, t2) = Spread(f, t1) \o q2
  <2>0. Spreads(B, C, f) /\ t1 \in Seq(B) /\ q2 \in Seq(B)
    BY <1>0, <1>2, <1>8
  <2>1. Spread(f, t1 \o q2) = Spread(f, t1) \o Spread(f, q2)
    BY <2>0, SpreadJoin
  <2> QED BY <1>2, <1>7, <1>8, <2>1
<1> HIDE DEF t2
<1>10. t3 \in Seq(B) /\ Spread(f, t3) = Spread(f, t2) \o Spread(f, v)
  <2>0. Spreads(B, C, f) /\ t2 \in Seq(B) /\ v \in Seq(B)
    BY <1>0, <1>1, <1>9
  <2>1. Spread(f, t2 \o v) = Spread(f, t2) \o Spread(f, v)
    BY <2>0, SpreadJoin
  <2> QED BY <1>1, <1>9, <2>1
<1> HIDE DEF t3
<1>11. Spread(f, t4) = Spread(f, t3) \o q3
  <2>0. Spreads(B, C, f) /\ t3 \in Seq(B) /\ q3 \in Seq(B)
    BY <1>0, <1>2, <1>10
  <2>1. Spread(f, t3 \o q3) = Spread(f, t3) \o Spread(f, q3)
    BY <2>0, SpreadJoin
  <2> QED BY <1>7, <2>1
<1>12. Spread(f, k) \in Seq(C) /\ Spread(f, v) \in Seq(C)
  BY <1>0, <1>1, SpreadJoin
<1>13. SpreadHeader(f, h) \in Header(C)
  BY <1>12 DEF SpreadHeader, Header, k, v
<1> QED BY <1>4, <1>5, <1>8, <1>9, <1>10, <1>11, <1>13

LEMMA SpreadText ==
    ASSUME NEW B, NEW C, NEW f, Marking(B, C, f), NEW hs \in Seq(Header(B))
    PROVE  /\ SpreadHeaders(f, hs) \in Seq(Header(C)) /\ Len(SpreadHeaders(f, hs)) = Len(hs)
           /\ \A i \in 1 .. Len(hs) : SpreadHeaders(f, hs)[i] = SpreadHeader(f, hs[i])
           /\ Spread(f, ToText(hs)) = ToText(SpreadHeaders(f, hs))
<1> DEFINE n == Len(hs)
           gs == SpreadHeaders(f, hs)
<1>0. n \in Nat /\ DOMAIN hs = 1 .. n /\ \A i \in 1 .. n : hs[i] \in Header(B)
  OBVIOUS
<1>1. \A i \in 1 .. n : SpreadHeader(f, hs[i]) \in Header(C)
  BY <1>0, SpreadHeaderText
<1>2. gs \in Seq(Header(C)) /\ Len(gs) = n /\ \A i \in 1 .. n : gs[i] = SpreadHeader(f, hs[i])
  <2> DEFINE A == Header(C)
  <2>1. \A i \in 1 .. n : SpreadHeader(f, hs[i]) \in A
    BY <1>1
  <2> HIDE DEF A
  <2>2. gs \in Seq(A) /\ Len(gs) = n /\ \A i \in 1 .. n : gs[i] = SpreadHeader(f, hs[i])
    BY <1>0, <2>1 DEF SpreadHeaders
  <2> QED BY <2>2 DEF A
<1> HIDE DEF gs
<1>3. {Quote, Semicolon} \subseteq B /\ {Quote, Semicolon} \subseteq C /\ Spreads(B, C, f)
  BY DEF Marking, Spreads
<1>4. PICK p \in [0 .. n -> Seq(B)] :
         /\ p[0] = <<>> /\ ToText(hs) = p[n] /\ \A i \in 1 .. n : p[i] = p[i - 1] \o HeaderText(hs[i])
  BY <1>3, TextSteps
<1>5. PICK q \in [0 .. Len(gs) -> Seq(C)] :
         /\ q[0] = <<>> /\ ToText(gs) = q[Len(gs)]
         /\ \A i \in 1 .. Len(gs) : q[i] = q[i - 1] \o HeaderText(gs[i])
  BY <1>2, <1>3, TextSteps
<1> HIDE DEF n
<1>6. q[0] = <<>> /\ ToText(gs) = q[n] /\ \A i \in 1 .. n : q[i] = q[i - 1] \o HeaderText(gs[i])
  BY <1>2, <1>5
<1> DEFINE P == {i \in 0 .. n : Spread(f, p[i]) = q[i]}
<1>7. 0 \in P
  BY <1>0, <1>3, <1>4, <1>6, SpreadOne
<1>8. ASSUME NEW i \in 1 .. n, i - 1 \in P PROVE i \in P
  <2>1. i \in 0 .. n /\ i - 1 \in 0 .. n /\ p[i - 1] \in Seq(B) /\ Spread(f, p[i - 1]) = q[i - 1]
    BY <1>0, <1>4, <1>8
  <2>2. HeaderText(hs[i]) \in Seq(B)
    BY <1>0, <1>3, HeaderTextIs
  <2>3. Spread(f, HeaderText(hs[i])) = HeaderText(gs[i])
    BY <1>0, <1>2, SpreadHeaderText
  <2>4. Spread(f, p[i - 1] \o HeaderText(hs[i])) = Spread(f, p[i - 1]) \o Spread(f, HeaderText(hs[i]))
    <3> DEFINE x == p[i - 1]
               y == HeaderText(hs[i])
    <3>1. Spreads(B, C, f) /\ x \in Seq(B) /\ y \in Seq(B)
      BY <1>3, <2>1, <2>2
    <3> HIDE DEF x, y
    <3>2. Spread(f, x \o y) = Spread(f, x) \o Spread(f, y)
      BY <3>1, SpreadJoin
    <3> QED BY <3>2 DEF x, y
  <2>5. Spread(f, p[i]) = q[i]
    BY <1>4, <1>6, <2>1, <2>3, <2>4
  <2> QED BY <2>1, <2>5
<1>9. \A i \in 0 .. n : i \in P
  <2> HIDE DEF P
  <2> QED BY <1>0, <1>7, <1>8, Steps
<1>10. Spread(f, p[n]) = q[n]
  BY <1>0, <1>9
<1> QED BY <1>2, <1>4, <1>6, <1>10 DEF n, gs

\* The bytes of texts.
Plain == Byte \ {Fixed, LastFixed}

EncodeMap == [c \in Char |-> BytesOf(c)]
DecodeMap == [b \in Plain |-> CharsOf(b)]

DecodeHeader(h) == <<Decode(h[1]), Decode(h[2])>>
DecodeHeaders(hs) == [i \in DOMAIN hs |-> DecodeHeader(hs[i])]

LEMMA Letters ==
    /\ Char \ {Wide} \subseteq Plain /\ Wide1 \in Plain /\ Wide2 \in Plain
    /\ \A b \in Plain : b \in Char \ {Wide} \/ b = Wide1 \/ b = Wide2
    /\ Wide \in Char /\ Quote \in Char \ {Wide} /\ Semicolon \in Char \ {Wide} /\ Backslash \in Char \ {Wide}
    /\ Wide1 \notin Char /\ Wide2 \notin Char /\ Wide1 # Wide2 /\ Wide # Quote /\ Wide # Backslash /\ Quote # Backslash
    /\ Fixed \notin Plain /\ LastFixed \notin Plain /\ Fixed # LastFixed /\ Plain \subseteq Byte
BY DEF Plain, Byte, Char, Wide, Quote, Semicolon, Backslash, Wide1, Wide2, Fixed, LastFixed

LEMMA OneOf ==
    ASSUME NEW B, NEW x \in B, NEW y \in B
    PROVE  <<x>> \in Seq(B) /\ <<x, y>> \in Seq(B) /\ <<>> \in Seq(B)
OBVIOUS

LEMMA SeqIs ==
    ASSUME NEW B, NEW n \in Nat, NEW f, f = [i \in 1 .. n |-> f[i]], \A i \in 1 .. n : f[i] \in B
    PROVE  f \in Seq(B) /\ Len(f) = n
OBVIOUS

LEMMA Maps ==
    /\ \A c \in Char : BytesOf(c) \in Seq(Plain)
    /\ \A b \in Plain : CharsOf(b) \in Seq(Char)
    /\ \A c \in Char \ {Wide} : BytesOf(c) = <<c>>
    /\ \A b \in Plain : b # Wide1 /\ b # Wide2 => CharsOf(b) = <<b>>
    /\ CharsOf(Wide1) = <<Wide>> /\ CharsOf(Wide2) = <<>>
<1>1. \A c \in Char : BytesOf(c) \in Seq(Plain)
  <2> TAKE c \in Char
  <2>1. CASE c = Wide
    <3>1. <<Wide1, Wide2>> \in Seq(Plain)
      BY Letters, OneOf
    <3> QED BY <2>1, <3>1 DEF BytesOf
  <2>2. CASE c # Wide
    <3>1. c \in Plain
      BY <2>2, Letters
    <3>2. <<c>> \in Seq(Plain)
      BY <3>1, OneOf
    <3> QED BY <2>2, <3>2 DEF BytesOf
  <2> QED BY <2>1, <2>2
<1>2. Wide1 # Wide2
  BY Letters
<1>3. CharsOf(Wide1) = <<Wide>> /\ CharsOf(Wide2) = <<>>
  BY <1>2 DEF CharsOf
<1>4. \A b \in Plain : b # Wide1 /\ b # Wide2 => CharsOf(b) = <<b>>
  BY DEF CharsOf
<1>5. \A b \in Plain : CharsOf(b) \in Seq(Char)
  <2> TAKE b \in Plain
  <2>1. CASE b = Wide1 \/ b = Wide2
    <3>1. <<Wide>> \in Seq(Char) /\ <<>> \in Seq(Char)
      BY Letters, OneOf
    <3> QED BY <1>3, <2>1, <3>1
  <2>2. CASE b # Wide1 /\ b # Wide2
    <3>1. b \in Char
      BY <2>2, Letters
    <3>2. <<b>> \in Seq(Char)
      BY <3>1, OneOf
    <3> QED BY <1>4, <2>2, <3>2
  <2> QED BY <2>1, <2>2
<1> QED BY <1>1, <1>3, <1>4, <1>5 DEF BytesOf

LEMMA MapsMark == Marking(Char, Plain, EncodeMap) /\ Marking(Plain, Char, DecodeMap)
<1>1. Quote \in Char /\ Semicolon \in Char /\ Quote \in Plain /\ Semicolon \in Plain
  BY Letters
<1>2. EncodeMap \in [Char -> Seq(Plain)] /\ DecodeMap \in [Plain -> Seq(Char)]
  BY Maps DEF EncodeMap, DecodeMap
<1>3. EncodeMap[Quote] = <<Quote>> /\ EncodeMap[Semicolon] = <<Semicolon>>
  BY <1>1, Letters, Maps DEF EncodeMap
<1>4. DecodeMap[Quote] = <<Quote>> /\ DecodeMap[Semicolon] = <<Semicolon>>
  <2>1. Quote # Wide1 /\ Quote # Wide2 /\ Semicolon # Wide1 /\ Semicolon # Wide2
    BY Letters
  <2> QED BY <1>1, <2>1, Maps DEF DecodeMap
<1> QED BY <1>1, <1>2, <1>3, <1>4 DEF Marking

LEMMA EncodeIs ==
    ASSUME NEW t \in Seq(Char)
    PROVE  Encode(t) = Spread(EncodeMap, t) /\ Encode(t) \in Seq(Plain)
<1>1. \A i \in DOMAIN t : t[i] \in Char
  OBVIOUS
<1>2. [i \in DOMAIN t |-> BytesOf(t[i])] = [i \in DOMAIN t |-> EncodeMap[t[i]]]
  BY <1>1 DEF EncodeMap
<1>3. Spreads(Char, Plain, EncodeMap)
  BY MapsMark DEF Marking, Spreads
<1>4. Spread(EncodeMap, t) \in Seq(Plain)
  BY <1>3, SpreadJoin
<1> QED BY <1>2, <1>4 DEF Encode, Spread

LEMMA DecodeIs ==
    ASSUME NEW t \in Seq(Plain)
    PROVE  Decode(t) = Spread(DecodeMap, t) /\ Decode(t) \in Seq(Char)
<1>1. \A i \in DOMAIN t : t[i] \in Plain
  OBVIOUS
<1>2. [i \in DOMAIN t |-> CharsOf(t[i])] = [i \in DOMAIN t |-> DecodeMap[t[i]]]
  BY <1>1 DEF DecodeMap
<1>3. Spreads(Plain, Char, DecodeMap)
  BY MapsMark DEF Marking, Spreads
<1>4. Spread(DecodeMap, t) \in Seq(Char)
  BY <1>3, SpreadJoin
<1> QED BY <1>2, <1>4 DEF Decode, Spread

\* A character of one byte is the same in both.
LEMMA SameLetter ==
    \A c \in Char \ {Wide} : Encode(<<c>>) = <<c>> /\ Decode(<<c>>) = <<c>>
<1> TAKE c \in Char \ {Wide}
<1>1. c \in Char /\ c \in Plain /\ c # Wide1 /\ c # Wide2
  BY Letters
<1>2. BytesOf(c) = <<c>> /\ CharsOf(c) = <<c>>
  BY <1>1, Maps
<1>3. Spreads(Char, Plain, EncodeMap) /\ Spreads(Plain, Char, DecodeMap)
  BY MapsMark DEF Marking, Spreads
<1>4. Spread(EncodeMap, <<c>>) = EncodeMap[c] /\ Spread(DecodeMap, <<c>>) = DecodeMap[c]
  BY <1>1, <1>3, SpreadOne
<1>5. <<c>> \in Seq(Char) /\ <<c>> \in Seq(Plain)
  BY <1>1, OneOf
<1>6. Encode(<<c>>) = EncodeMap[c] /\ Decode(<<c>>) = DecodeMap[c]
  BY <1>4, <1>5, EncodeIs, DecodeIs
<1> QED BY <1>1, <1>2, <1>6 DEF EncodeMap, DecodeMap

LEMMA EncodeText ==
    ASSUME NEW hs \in Seq(Header(Char))
    PROVE  /\ EncodeHeaders(hs) \in Seq(Header(Plain)) /\ Len(EncodeHeaders(hs)) = Len(hs)
           /\ \A i \in 1 .. Len(hs) : EncodeHeaders(hs)[i] = <<Encode(hs[i][1]), Encode(hs[i][2])>>
           /\ Encode(ToText(hs)) = ToText(EncodeHeaders(hs))
<1>0. DOMAIN hs = 1 .. Len(hs) /\ \A i \in 1 .. Len(hs) : hs[i] \in Header(Char)
  OBVIOUS
<1>1. \A i \in 1 .. Len(hs) : hs[i][1] \in Seq(Char) /\ hs[i][2] \in Seq(Char)
  BY <1>0 DEF Header
<1>2. \A i \in 1 .. Len(hs) : SpreadHeader(EncodeMap, hs[i]) = <<Encode(hs[i][1]), Encode(hs[i][2])>>
  BY <1>1, EncodeIs DEF SpreadHeader
<1>3. EncodeHeaders(hs) = SpreadHeaders(EncodeMap, hs)
  BY <1>0, <1>2 DEF EncodeHeaders, SpreadHeaders
<1>4. {Quote, Semicolon} \subseteq Char /\ Marking(Char, Plain, EncodeMap)
  BY Letters, MapsMark
<1>5. ToText(hs) \in Seq(Char)
  BY <1>4, TextLaid
<1>6. Encode(ToText(hs)) = Spread(EncodeMap, ToText(hs))
  BY <1>5, EncodeIs
<1>7. /\ SpreadHeaders(EncodeMap, hs) \in Seq(Header(Plain)) /\ Len(SpreadHeaders(EncodeMap, hs)) = Len(hs)
      /\ \A i \in 1 .. Len(hs) : SpreadHeaders(EncodeMap, hs)[i] = SpreadHeader(EncodeMap, hs[i])
      /\ Spread(EncodeMap, ToText(hs)) = ToText(SpreadHeaders(EncodeMap, hs))
  BY <1>4, SpreadText
<1> QED BY <1>2, <1>3, <1>6, <1>7

LEMMA DecodeText ==
    ASSUME NEW hs \in Seq(Header(Plain))
    PROVE  /\ DecodeHeaders(hs) \in Seq(Header(Char)) /\ Len(DecodeHeaders(hs)) = Len(hs)
           /\ \A i \in 1 .. Len(hs) : DecodeHeaders(hs)[i] = DecodeHeader(hs[i])
           /\ Decode(ToText(hs)) = ToText(DecodeHeaders(hs))
<1>0. DOMAIN hs = 1 .. Len(hs) /\ \A i \in 1 .. Len(hs) : hs[i] \in Header(Plain)
  OBVIOUS
<1>1. \A i \in 1 .. Len(hs) : hs[i][1] \in Seq(Plain) /\ hs[i][2] \in Seq(Plain)
  BY <1>0 DEF Header
<1>2. \A i \in 1 .. Len(hs) : SpreadHeader(DecodeMap, hs[i]) = DecodeHeader(hs[i])
  BY <1>1, DecodeIs DEF SpreadHeader, DecodeHeader
<1>3. DecodeHeaders(hs) = SpreadHeaders(DecodeMap, hs)
  BY <1>0, <1>2 DEF DecodeHeaders, SpreadHeaders
<1>4. {Quote, Semicolon} \subseteq Plain /\ Marking(Plain, Char, DecodeMap)
  BY Letters, MapsMark
<1>5. ToText(hs) \in Seq(Plain)
  BY <1>4, TextLaid
<1>6. Decode(ToText(hs)) = Spread(DecodeMap, ToText(hs))
  BY <1>5, DecodeIs
<1>7. /\ SpreadHeaders(DecodeMap, hs) \in Seq(Header(Char)) /\ Len(SpreadHeaders(DecodeMap, hs)) = Len(hs)
      /\ \A i \in 1 .. Len(hs) : SpreadHeaders(DecodeMap, hs)[i] = SpreadHeader(DecodeMap, hs[i])
      /\ Spread(DecodeMap, ToText(hs)) = ToText(SpreadHeaders(DecodeMap, hs))
  BY <1>4, SpreadText
<1> QED BY <1>2, <1>3, <1>6, <1>7

\* Decoding keeps a text clean, if no character is cut in it.
LEMMA DecodeClean ==
    ASSUME NEW t \in Seq(Plain), Clean(t), Paired(t)
    PROVE  Clean(Decode(t))
<1> DEFINE n == Len(t)
           s == [i \in DOMAIN t |-> CharsOf(t[i])]
           A == Seq(Char)
<1>0. n \in Nat /\ DOMAIN t = 1 .. n /\ \A i \in 1 .. n : t[i] \in Plain
  OBVIOUS
<1>1. s \in Seq(Seq(Char)) /\ Len(s) = n /\ \A i \in 1 .. n : s[i] = CharsOf(t[i])
  <2>1. \A i \in 1 .. n : CharsOf(t[i]) \in A
    BY <1>0, Maps
  <2> HIDE DEF A
  <2>2. s \in Seq(A) /\ Len(s) = n /\ \A i \in 1 .. n : s[i] = CharsOf(t[i])
    BY <1>0, <2>1
  <2> QED BY <2>2 DEF A
<1>2. Decode(t) = FlattenSeq(s)
  BY DEF Decode
<1> HIDE DEF s, A
<1>3. PICK q \in [0 .. Len(s) -> Seq(Char)] :
         /\ q[0] = <<>> /\ FlattenSeq(s) = q[Len(s)] /\ \A i \in 1 .. Len(s) : q[i] = q[i - 1] \o s[i]
  <2>1. s \in Seq(Seq(Char))
    BY <1>1
  <2> QED BY <2>1, FlattenSteps
<1>4. /\ q \in [0 .. n -> Seq(Char)] /\ q[0] = <<>> /\ Decode(t) = q[n]
      /\ \A i \in 1 .. n : q[i] = q[i - 1] \o CharsOf(t[i])
  BY <1>1, <1>2, <1>3
<1> DEFINE Escaped(x) == \A j \in 1 .. Len(x) : x[j] = Quote => j > 1 /\ x[j - 1] = Backslash
           Ends(x, i) == i > 0 => Len(x) > 0 /\ x[Len(x)] = IF t[i] = Wide1 \/ t[i] = Wide2 THEN Wide ELSE t[i]
           P == {i \in 0 .. n : Escaped(q[i]) /\ Ends(q[i], i)}
<1>5. 0 \in P
  BY <1>0, <1>4
<1>c. /\ \A j \in 1 .. n : t[j] = Quote => j > 1 /\ t[j - 1] = Backslash
      /\ n > 0 => t[n] # Backslash
  BY CleanIs
<1>6. ASSUME NEW i \in 1 .. n, i - 1 \in P PROVE i \in P
  <2> DEFINE x == q[i - 1]
             y == q[i]
             b == t[i]
  <2>1. /\ i \in 0 .. n /\ i - 1 \in 0 .. n /\ x \in Seq(Char) /\ y \in Seq(Char) /\ b \in Plain
        /\ Escaped(x) /\ Ends(x, i - 1) /\ y = x \o CharsOf(b)
    <3>1. i \in 0 .. n /\ i - 1 \in 0 .. n /\ b \in Plain
      BY <1>0
    <3>2. x \in Seq(Char) /\ y \in Seq(Char) /\ y = x \o CharsOf(b)
      BY <1>4, <3>1
    <3>3. Escaped(x) /\ Ends(x, i - 1)
      <4> HIDE DEF Escaped, Ends
      <4> QED BY <1>6
    <3> HIDE DEF Escaped, Ends, x, y, b
    <3> QED BY <3>1, <3>2, <3>3
  <2> HIDE DEF x, y
  <2>2. CASE b = Wide2
    <3>1. i > 1 /\ t[i - 1] = Wide1
      BY <2>2 DEF Paired
    <3>2. y = x
      <4>1. x \o <<>> = x
        <5>1. x \in Seq(Char)
          BY <2>1
        <5> QED BY <5>1, ConcatEmptySeq
      <4> QED BY <2>1, <2>2, <4>1, Maps
    <3>3. Len(x) > 0 /\ x[Len(x)] = Wide
      <4>1. i - 1 > 0
        <5> HIDE DEF Escaped, Ends, P
        <5>1. i \in Nat
          BY <1>0
        <5>2. i > 1
          BY <3>1
        <5> QED BY <5>1, <5>2
      <4>2. Ends(x, i - 1)
        BY <2>1
      <4> QED BY <3>1, <4>1, <4>2
    <3>4. Escaped(y) /\ Ends(y, i)
      BY <2>1, <2>2, <3>2, <3>3 DEF b
    <3> QED BY <2>1, <3>4 DEF y
  <2>3. CASE b # Wide2
    <3> DEFINE c == IF b = Wide1 THEN Wide ELSE b
    <3>1. CharsOf(b) = <<c>> /\ c \in Char /\ (c = Quote => b = Quote)
      BY <2>1, <2>3, Letters, Maps
    <3>2. y = Append(x, c)
      <4> HIDE DEF c
      <4>1. x \in Seq(Char) /\ c \in Char /\ y = x \o <<c>>
        BY <2>1, <3>1
      <4> QED BY <4>1, AppendIsConcat
    <3>3. Len(y) = Len(x) + 1 /\ y[Len(x) + 1] = c /\ (\A j \in 1 .. Len(x) : y[j] = x[j]) /\ Len(x) \in Nat
      <4>1. x \in Seq(Char) /\ c \in Char
        BY <2>1, <3>1
      <4> HIDE DEF c
      <4> QED BY <3>2, <4>1, AppendProperties
    <3>4. Ends(y, i)
      <4>1. Len(y) > 0 /\ y[Len(y)] = c
        <5> HIDE DEF c
        <5> QED BY <3>3
      <4>2. c = IF b = Wide1 \/ b = Wide2 THEN Wide ELSE b
        BY <2>3
      <4> QED BY <4>1, <4>2 DEF b
    <3>5. ASSUME c = Quote PROVE Len(x) > 0 /\ x[Len(x)] = Backslash
      <4>1. i > 1 /\ t[i - 1] = Backslash
        BY <1>c, <3>1, <3>5 DEF b
      <4>2. i - 1 > 0 /\ Backslash # Wide1 /\ Backslash # Wide2
        BY <1>0, <4>1, Letters
      <4> QED BY <2>1, <4>1, <4>2
    <3> HIDE DEF c
    <3>6. ASSUME NEW j \in 1 .. Len(y), y[j] = Quote PROVE j > 1 /\ y[j - 1] = Backslash
      <4>1. CASE j \in 1 .. Len(x)
        <5>1. j > 1 /\ x[j - 1] = Backslash
          BY <2>1, <3>3, <3>6, <4>1
        <5>2. j - 1 \in 1 .. Len(x)
          BY <3>3, <4>1, <5>1
        <5> QED BY <3>3, <5>1, <5>2
      <4>2. CASE j = Len(x) + 1
        <5>1. c = Quote /\ Len(x) > 0
          BY <3>3, <3>5, <3>6, <4>2
        <5>2. j - 1 = Len(x) /\ Len(x) \in 1 .. Len(x) /\ j > 1
          BY <3>3, <4>2, <5>1
        <5> QED BY <3>3, <3>5, <5>1, <5>2
      <4> QED BY <3>3, <4>1, <4>2
    <3>7. Escaped(y)
      BY <3>6
    <3> HIDE DEF Escaped, Ends
    <3> QED BY <2>1, <3>4, <3>7 DEF y
  <2> QED BY <2>2, <2>3
<1>7. n \in P
  <2> HIDE DEF P
  <2>1. \A i \in 0 .. n : i \in P
    BY <1>0, <1>5, <1>6, Steps
  <2> QED BY <1>0, <2>1
<1>8. /\ Decode(t) \in Seq(Char) /\ Escaped(Decode(t)) /\ Ends(Decode(t), n)
  BY <1>0, <1>4, <1>7
<1> DEFINE r == Decode(t)
<1>9. r # <<>> => Last(r) # Backslash
  <2>1. CASE n = 0
    <3>1. r = <<>>
      BY <1>4, <2>1
    <3> QED BY <3>1
  <2>2. CASE n # 0
    <3>1. n > 0 /\ t[n] # Backslash
      BY <1>0, <1>c, <2>2
    <3>2. r[Len(r)] # Backslash
      BY <1>8, <3>1, Letters
    <3> QED BY <3>2 DEF Last
  <2> QED BY <2>1, <2>2
<1> HIDE DEF r
<1>10. r \in Seq(Char) /\ Escaped(r)
  BY <1>8 DEF r
<1>11. DOMAIN r = 1 .. Len(r)
  BY <1>10
<1>12. Clean(r)
  BY <1>9, <1>10, <1>11 DEF Clean
<1> QED BY <1>12 DEF r

\* What the Java client parses of a text the broker has written.
LEMMA Reparse ==
    ASSUME NEW hs \in Seq(Good(Plain))
    PROVE  /\ Scan(Decode(ToText(hs))) = Reading(<<>>, DecodeHeaders(hs))
           /\ hs \in Seq(Header(Plain)) /\ DecodeHeaders(hs) \in Seq(CleanHeaders(Char))
<1>1. Good(Plain) \subseteq Header(Plain)
  BY DEF Good, CleanHeaders
<1>2. hs \in Seq(Header(Plain)) /\ \A i \in 1 .. Len(hs) : hs[i] \in Good(Plain)
  BY <1>1, SeqMonotonic
<1>3. /\ DecodeHeaders(hs) \in Seq(Header(Char)) /\ Len(DecodeHeaders(hs)) = Len(hs)
      /\ \A i \in 1 .. Len(hs) : DecodeHeaders(hs)[i] = DecodeHeader(hs[i])
      /\ Decode(ToText(hs)) = ToText(DecodeHeaders(hs))
  BY <1>2, DecodeText
<1> DEFINE gs == DecodeHeaders(hs)
<1>4. ASSUME NEW i \in 1 .. Len(hs) PROVE gs[i] \in CleanHeaders(Char)
  <2> DEFINE k == hs[i][1]
             v == hs[i][2]
  <2>1. k \in Seq(Plain) /\ v \in Seq(Plain) /\ Clean(k) /\ Clean(v) /\ Paired(k) /\ Paired(v)
    BY <1>2 DEF Good, CleanHeaders, Header
  <2>2. gs[i] = <<Decode(k), Decode(v)>>
    BY <1>3 DEF DecodeHeader
  <2> HIDE DEF k, v, gs
  <2>3. Clean(Decode(k)) /\ Clean(Decode(v)) /\ Decode(k) \in Seq(Char) /\ Decode(v) \in Seq(Char)
    BY <2>1, DecodeClean, DecodeIs
  <2>4. <<Decode(k), Decode(v)>> \in CleanHeaders(Char)
    BY <2>3 DEF CleanHeaders, Header
  <2> QED BY <2>2, <2>4
<1> HIDE DEF gs
<1>5. gs \in Seq(CleanHeaders(Char))
  <2> DEFINE A == CleanHeaders(Char)
  <2>1. Len(gs) \in Nat /\ gs = [i \in 1 .. Len(gs) |-> gs[i]] /\ \A i \in 1 .. Len(gs) : gs[i] \in A
    BY <1>3, <1>4 DEF gs
  <2> HIDE DEF A
  <2>2. gs \in Seq(A)
    BY <2>1
  <2> QED BY <2>2 DEF A
<1>6. {Quote, Semicolon} \subseteq Char
  BY Letters
<1>7. Scan(ToText(gs)) = Reading(<<>>, gs)
  BY <1>5, <1>6, RoundTrip
<1> QED BY <1>2, <1>3, <1>5, <1>7 DEF gs

-----------------------------------------------------------------------------
(***************************************************************************)
(* Streams of whole frames.                                                *)
(***************************************************************************)
BytesIn(f) == FixedBytes \o (f.text \o Payload(f.head.data))

BytesMap(G) == [f \in G |-> BytesIn(f)]
HeadMap(G) == [f \in G |-> <<f.head>>]

Made(s, G, fs) == s.bytes = Spread(BytesMap(G), fs) /\ s.heads = Spread(HeadMap(G), fs)

\* The stream has frames of G, and nothing else.
Whole(s, G) == \E fs \in Seq(G) : Made(s, G, fs)

\* A frame announces the size it has.
Framing(H, G) ==
    \A f \in G : f.text \in Seq(Plain) /\ f.head \in H /\ f.head.size = Len(f.text) /\ f.head.data \in Nat

LEMMA FixedIs ==
    /\ FixedBytes \in Seq(Byte) /\ Len(FixedBytes) = 8 /\ FixedSize = 8 /\ FixedBytes[8] = LastFixed
    /\ \A i \in 1 .. 7 : FixedBytes[i] = Fixed
    /\ ToSet(FixedBytes) = {Fixed, LastFixed}
<1>1. /\ Len(FixedBytes) = 8 /\ FixedBytes[8] = LastFixed /\ DOMAIN FixedBytes = 1 .. 8
      /\ FixedBytes = [i \in 1 .. 8 |-> FixedBytes[i]]
  BY DEF FixedBytes
<1>2. \A i \in 1 .. 7 : FixedBytes[i] = Fixed
  <2>1. \A i \in 1 .. 7 : i \in {1, 2, 3, 4, 5, 6, 7}
    OBVIOUS
  <2>2. /\ FixedBytes[1] = Fixed /\ FixedBytes[2] = Fixed /\ FixedBytes[3] = Fixed
        /\ FixedBytes[4] = Fixed /\ FixedBytes[5] = Fixed /\ FixedBytes[6] = Fixed /\ FixedBytes[7] = Fixed
    BY DEF FixedBytes
  <2> QED BY <2>1, <2>2
<1>3. Fixed \in Byte /\ LastFixed \in Byte
  BY DEF Byte
<1>4. \A i \in 1 .. 8 : i \in 1 .. 7 \/ i = 8
  OBVIOUS
<1>5. \A i \in 1 .. 8 : FixedBytes[i] \in Byte
  BY <1>1, <1>2, <1>3, <1>4
<1>6. FixedBytes \in Seq(Byte)
  <2>1. 8 \in Nat
    OBVIOUS
  <2> QED BY <1>1, <1>5, <2>1, SeqIs
<1>7. ToSet(FixedBytes) = {Fixed, LastFixed}
  <2>1. 1 \in 1 .. 7 /\ 1 \in 1 .. 8 /\ 8 \in 1 .. 8
    OBVIOUS
  <2>2. FixedBytes[1] = Fixed
    BY <1>2, <2>1
  <2>3. \A x : x \in ToSet(FixedBytes) <=> \E i \in 1 .. 8 : x = FixedBytes[i]
    BY <1>1 DEF ToSet
  <2>4. \A x : x \in ToSet(FixedBytes) <=> x \in {Fixed, LastFixed}
    BY <1>1, <1>2, <1>4, <2>1, <2>2, <2>3
  <2> QED BY <2>4
<1> QED BY <1>1, <1>2, <1>6, <1>7 DEF FixedSize

LEMMA PayloadIs ==
    \A n \in Nat : /\ Payload(n) \in Seq(Plain) /\ Payload(n) \in Seq(Byte) /\ Len(Payload(n)) = n
                   /\ \A i \in 1 .. n : Payload(n)[i] = "a"
<1> TAKE n \in Nat
<1>1. "a" \in Plain /\ "a" \in Byte
  BY DEF Plain, Byte, Char, Wide, Fixed, LastFixed
<1> QED BY <1>1 DEF Payload

LEMMA PlainSeq == \A t \in Seq(Plain) : t \in Seq(Byte)
<1>1. Plain \subseteq Byte
  BY Letters
<1> QED BY <1>1, SeqMonotonic

LEMMA MapsSpread ==
    ASSUME NEW H, NEW G, Framing(H, G)
    PROVE  Spreads(G, Byte, BytesMap(G)) /\ Spreads(G, H, HeadMap(G))
<1>1. ASSUME NEW f \in G PROVE BytesIn(f) \in Seq(Byte) /\ <<f.head>> \in Seq(H)
  <2>1. f.text \in Seq(Plain) /\ f.head \in H /\ f.head.data \in Nat
    BY DEF Framing
  <2>2. f.text \in Seq(Byte) /\ Payload(f.head.data) \in Seq(Byte) /\ FixedBytes \in Seq(Byte)
    BY <2>1, FixedIs, PayloadIs, PlainSeq
  <2>3. BytesIn(f) \in Seq(Byte)
    BY <2>2 DEF BytesIn
  <2>4. <<f.head>> \in Seq(H)
    BY <2>1, OneOf
  <2> QED BY <2>3, <2>4
<1> QED BY <1>1 DEF Spreads, BytesMap, HeadMap

LEMMA WholeEmpty ==
    ASSUME NEW H, NEW G, Framing(H, G)
    PROVE  Whole(Empty, G)
<1>1. Spread(BytesMap(G), <<>>) = <<>> /\ Spread(HeadMap(G), <<>>) = <<>>
  BY MapsSpread, SpreadOne
<1>2. Empty.bytes = <<>> /\ Empty.heads = <<>> /\ <<>> \in Seq(G)
  BY DEF Empty
<1> QED BY <1>1, <1>2 DEF Whole, Made

LEMMA WholeJoin ==
    ASSUME NEW H, NEW G, Framing(H, G), NEW s, NEW t, Whole(s, G), Whole(t, G)
    PROVE  Whole(Join(s, t), G)
<1>1. PICK fs \in Seq(G) : Made(s, G, fs)
  BY DEF Whole
<1>2. PICK gs \in Seq(G) : Made(t, G, gs)
  BY DEF Whole
<1>3. Spreads(G, Byte, BytesMap(G)) /\ Spreads(G, H, HeadMap(G))
  BY MapsSpread
<1>4. Spread(BytesMap(G), fs \o gs) = Spread(BytesMap(G), fs) \o Spread(BytesMap(G), gs)
  BY <1>3, SpreadJoin
<1>5. Spread(HeadMap(G), fs \o gs) = Spread(HeadMap(G), fs) \o Spread(HeadMap(G), gs)
  BY <1>3, SpreadJoin
<1>6. Join(s, t).bytes = s.bytes \o t.bytes /\ Join(s, t).heads = s.heads \o t.heads
  BY DEF Join
<1>7. fs \o gs \in Seq(G)
  OBVIOUS
<1>8. Made(Join(s, t), G, fs \o gs)
  BY <1>1, <1>2, <1>4, <1>5, <1>6 DEF Made
<1> QED BY <1>7, <1>8 DEF Whole

LEMMA WholeFramed ==
    ASSUME NEW H, NEW G, Framing(H, G), NEW f \in G
    PROVE  Whole(Framed(f.head, f.text \o Payload(f.head.data)), G)
<1> DEFINE s == Framed(f.head, f.text \o Payload(f.head.data))
<1>1. Spread(BytesMap(G), <<f>>) = BytesMap(G)[f] /\ Spread(HeadMap(G), <<f>>) = HeadMap(G)[f]
  BY MapsSpread, SpreadOne
<1>2. BytesMap(G)[f] = BytesIn(f) /\ HeadMap(G)[f] = <<f.head>> /\ <<f>> \in Seq(G)
  BY OneOf DEF BytesMap, HeadMap
<1>3. s.bytes = BytesIn(f) /\ s.heads = <<f.head>>
  BY DEF Framed, BytesIn
<1> HIDE DEF s
<1>4. Made(s, G, <<f>>)
  BY <1>1, <1>2, <1>3 DEF Made
<1>5. Whole(s, G)
  BY <1>2, <1>4 DEF Whole
<1> QED BY <1>5 DEF s

LEMMA WholeMore ==
    ASSUME NEW G, NEW K, G \subseteq K, NEW s, Whole(s, G)
    PROVE  Whole(s, K)
<1>1. PICK fs \in Seq(G) : Made(s, G, fs)
  BY DEF Whole
<1>2. \A i \in DOMAIN fs : fs[i] \in G /\ fs[i] \in K
  <2>1. \A i \in DOMAIN fs : fs[i] \in G
    BY <1>1
  <2> QED BY <2>1
<1>3. [i \in DOMAIN fs |-> BytesMap(G)[fs[i]]] = [i \in DOMAIN fs |-> BytesMap(K)[fs[i]]]
  BY <1>2 DEF BytesMap
<1>4. [i \in DOMAIN fs |-> HeadMap(G)[fs[i]]] = [i \in DOMAIN fs |-> HeadMap(K)[fs[i]]]
  BY <1>2 DEF HeadMap
<1>5. Made(s, K, fs)
  BY <1>1, <1>3, <1>4 DEF Made, Spread
<1>6. fs \in Seq(K)
  BY <1>1, SeqMonotonic
<1> QED BY <1>5, <1>6 DEF Whole

\* Cutting a sequence of four parts.
LEMMA Pieces ==
    ASSUME NEW B, NEW a \in Seq(B), NEW x \in Seq(B), NEW y \in Seq(B), NEW r \in Seq(B), NEW b,
           b = (a \o (x \o y)) \o r
    PROVE  /\ b \in Seq(B) /\ Len(b) = Len(a) + Len(x) + Len(y) + Len(r)
           /\ SubSeq(b, 1, Len(a)) = a
           /\ SubSeq(b, Len(a) + 1, Len(a) + Len(x)) = x
           /\ SubSeq(b, Len(a) + Len(x) + Len(y) + 1, Len(b)) = r
<1> DEFINE la == Len(a)
           lx == Len(x)
           ly == Len(y)
           lr == Len(r)
           u == x \o y
           v == a \o u
<1>0. la \in Nat /\ lx \in Nat /\ ly \in Nat /\ lr \in Nat
  OBVIOUS
<1>1. /\ u \in Seq(B) /\ Len(u) = lx + ly /\ \A i \in 1 .. lx : u[i] = x[i]
  BY Joined
<1> HIDE DEF u
<1>2. /\ v \in Seq(B) /\ Len(v) = la + Len(u) /\ (\A i \in 1 .. la : v[i] = a[i])
      /\ \A i \in 1 .. Len(u) : v[la + i] = u[i]
  <2>1. u \in Seq(B)
    BY <1>1
  <2> QED BY <2>1, Joined
<1>b. b = v \o r
  BY DEF u
<1> HIDE DEF v
<1>3. /\ b \in Seq(B) /\ Len(b) = Len(v) + lr /\ (\A i \in 1 .. Len(v) : b[i] = v[i])
      /\ \A i \in 1 .. lr : b[Len(v) + i] = r[i]
  <2>1. v \in Seq(B)
    BY <1>2
  <2> QED BY <1>b, <2>1, Joined
<1>4. Len(b) = la + lx + ly + lr /\ Len(v) = la + lx + ly
  BY <1>0, <1>1, <1>2, <1>3
<1> HIDE DEF la, lx, ly, lr
<1>5. \A i \in 1 .. la : b[0 + i] = a[i]
  <2> TAKE i \in 1 .. la
  <2>1. i \in 1 .. Len(v) /\ 0 + i = i
    BY <1>0, <1>4
  <2> QED BY <1>2, <1>3, <2>1
<1>6. \A i \in 1 .. lx : b[la + i] = x[i]
  <2> TAKE i \in 1 .. lx
  <2>1. la + i \in 1 .. Len(v) /\ i \in 1 .. Len(u)
    BY <1>0, <1>1, <1>4
  <2> QED BY <1>1, <1>2, <1>3, <2>1
<1>7. b \in Seq(B) /\ 0 \in Nat /\ 0 + la <= Len(b) /\ la + lx <= Len(b) /\ Len(v) \in Nat /\ Len(v) + lr <= Len(b)
  BY <1>0, <1>3, <1>4
<1>8. SubSeq(b, 0 + 1, 0 + la) = a
  BY <1>5, <1>7, PartIs DEF la
<1>9. SubSeq(b, la + 1, la + lx) = x
  BY <1>0, <1>6, <1>7, PartIs DEF lx
<1>10. SubSeq(b, Len(v) + 1, Len(v) + lr) = r
  BY <1>3, <1>7, PartIs DEF lr
<1>11. 0 + 1 = 1 /\ 0 + la = la
  BY <1>0
<1>12. SubSeq(b, la + lx + ly + 1, Len(b)) = r
  BY <1>3, <1>4, <1>10
<1> QED BY <1>3, <1>4, <1>8, <1>9, <1>11, <1>12 DEF la, lx, ly, lr

\* The first frame of such a stream can be read, and leaves the others.
LEMMA WholeNext ==
    ASSUME NEW H, NEW G, Framing(H, G), NEW s, Whole(s, G), s.bytes # <<>> \/ s.heads # <<>>
    PROVE  \E f \in G : /\ s.heads # <<>> /\ Head(s.heads) = f.head /\ TextOf(s) = f.text
                        /\ Arrived(s) /\ InFrame(s) /\ Whole(Rest(s), G)
<1>1. PICK fs \in Seq(G) : Made(s, G, fs)
  BY DEF Whole
<1>s. Spreads(G, Byte, BytesMap(G)) /\ Spreads(G, H, HeadMap(G))
  BY MapsSpread
<1>2. fs # <<>>
  <2>1. Spread(BytesMap(G), <<>>) = <<>> /\ Spread(HeadMap(G), <<>>) = <<>>
    BY <1>s, SpreadOne
  <2> QED BY <1>1, <2>1 DEF Made
<1> DEFINE f == Head(fs)
           gs == Tail(fs)
<1>3. f \in G /\ gs \in Seq(G) /\ fs = <<f>> \o gs
  <2>1. f \in G /\ gs \in Seq(G)
    BY <1>2
  <2>2. Len(gs) = Len(fs) - 1 /\ \A i \in 1 .. Len(gs) : gs[i] = fs[i + 1]
    BY <1>2
  <2>3. f = fs[1] /\ Len(fs) \in Nat /\ Len(fs) > 0
    BY <1>2
  <2> HIDE DEF f, gs
  <2>4. /\ <<f>> \o gs \in Seq(G) /\ Len(<<f>> \o gs) = 1 + Len(gs)
        /\ \A i \in 1 .. 1 : (<<f>> \o gs)[i] = <<f>>[i]
        /\ \A i \in 1 .. Len(gs) : (<<f>> \o gs)[1 + i] = gs[i]
    <3>1. <<f>> \in Seq(G) /\ Len(<<f>>) = 1
      BY <2>1
    <3> DEFINE x == <<f>>
    <3> HIDE DEF x
    <3>2. x \in Seq(G) /\ gs \in Seq(G) /\ Len(x) = 1
      BY <2>1, <3>1 DEF x
    <3>3. /\ x \o gs \in Seq(G) /\ Len(x \o gs) = Len(x) + Len(gs)
          /\ (\A i \in 1 .. Len(x) : (x \o gs)[i] = x[i])
          /\ \A i \in 1 .. Len(gs) : (x \o gs)[Len(x) + i] = gs[i]
      BY <3>2, Joined
    <3>4. /\ x \o gs \in Seq(G) /\ Len(x \o gs) = 1 + Len(gs)
          /\ (\A i \in 1 .. 1 : (x \o gs)[i] = x[i])
          /\ \A i \in 1 .. Len(gs) : (x \o gs)[1 + i] = gs[i]
      BY <3>2, <3>3
    <3> QED BY <3>4 DEF x
  <2> DEFINE z == <<f>> \o gs
  <2>5. z[1] = f
    BY <2>4
  <2> HIDE DEF z
  <2>6. z \in Seq(G) /\ Len(z) = Len(fs)
    BY <2>2, <2>3, <2>4 DEF z
  <2>7. ASSUME NEW i \in 1 .. Len(z) PROVE z[i] = fs[i]
    <3>1. CASE i = 1
      BY <2>3, <2>5, <3>1
    <3>2. CASE i # 1
      <4>1. i - 1 \in 1 .. Len(gs) /\ 1 + (i - 1) = i /\ (i - 1) + 1 = i
        BY <2>2, <2>3, <2>6, <3>2
      <4>2. z[1 + (i - 1)] = gs[i - 1] /\ gs[i - 1] = fs[(i - 1) + 1]
        BY <2>2, <2>4, <4>1 DEF z
      <4> QED BY <4>1, <4>2
    <3> QED BY <3>1, <3>2
  <2>8. z = fs
    BY <2>6, <2>7, SeqEqual
  <2> QED BY <2>1, <2>8 DEF z
<1> HIDE DEF f, gs
<1> DEFINE r == Spread(BytesMap(G), gs)
           k == Spread(HeadMap(G), gs)
<1>4. s.bytes = BytesIn(f) \o r /\ r \in Seq(Byte)
  <2>1. <<f>> \in Seq(G) /\ Spread(BytesMap(G), <<f>>) = BytesMap(G)[f]
    BY <1>3, <1>s, OneOf, SpreadOne
  <2>2. Spread(BytesMap(G), <<f>> \o gs) = Spread(BytesMap(G), <<f>>) \o r /\ r \in Seq(Byte)
    <3> DEFINE x == <<f>>
               m == BytesMap(G)
    <3>1. x \in Seq(G) /\ gs \in Seq(G) /\ Spreads(G, Byte, m)
      BY <1>3, <1>s, <2>1
    <3> HIDE DEF x, m
    <3>2. Spread(m, x \o gs) = Spread(m, x) \o Spread(m, gs)
      BY <3>1, SpreadJoin
    <3>3. Spread(m, gs) \in Seq(Byte)
      BY <3>1, SpreadJoin
    <3> QED BY <3>2, <3>3 DEF x, m
  <2>3. BytesMap(G)[f] = BytesIn(f)
    BY <1>3 DEF BytesMap
  <2> QED BY <1>1, <1>3, <2>1, <2>2, <2>3 DEF Made
<1>5. s.heads = <<f.head>> \o k /\ k \in Seq(H)
  <2>1. <<f>> \in Seq(G) /\ Spread(HeadMap(G), <<f>>) = HeadMap(G)[f]
    BY <1>3, <1>s, OneOf, SpreadOne
  <2>2. Spread(HeadMap(G), <<f>> \o gs) = Spread(HeadMap(G), <<f>>) \o k /\ k \in Seq(H)
    <3> DEFINE x == <<f>>
               m == HeadMap(G)
    <3>1. x \in Seq(G) /\ gs \in Seq(G) /\ Spreads(G, H, m)
      BY <1>3, <1>s, <2>1
    <3> HIDE DEF x, m
    <3>2. Spread(m, x \o gs) = Spread(m, x) \o Spread(m, gs)
      BY <3>1, SpreadJoin
    <3>3. Spread(m, gs) \in Seq(H)
      BY <3>1, SpreadJoin
    <3> QED BY <3>2, <3>3 DEF x, m
  <2>3. HeadMap(G)[f] = <<f.head>>
    BY <1>3 DEF HeadMap
  <2> QED BY <1>1, <1>3, <2>1, <2>2, <2>3 DEF Made
<1> HIDE DEF r, k
<1> DEFINE b == s.bytes
           x == f.text
           d == f.head.data
           y == Payload(d)
           a == FixedBytes
<1>6. f.head \in H /\ x \in Seq(Plain) /\ f.head.size = Len(x) /\ d \in Nat
  BY <1>3 DEF Framing
<1>7. x \in Seq(Byte) /\ y \in Seq(Byte) /\ a \in Seq(Byte) /\ Len(y) = d /\ Len(a) = 8 /\ FixedSize = 8
  BY <1>6, FixedIs, PayloadIs, PlainSeq
<1>8. b = (a \o (x \o y)) \o r
  BY <1>4 DEF BytesIn
<1> HIDE DEF b, x, y, a
<1>9. /\ b \in Seq(Byte) /\ Len(b) = Len(a) + Len(x) + Len(y) + Len(r)
      /\ SubSeq(b, 1, Len(a)) = a
      /\ SubSeq(b, Len(a) + 1, Len(a) + Len(x)) = x
      /\ SubSeq(b, Len(a) + Len(x) + Len(y) + 1, Len(b)) = r
  <2>1. a \in Seq(Byte) /\ x \in Seq(Byte) /\ y \in Seq(Byte) /\ r \in Seq(Byte)
    BY <1>4, <1>7
  <2> QED BY <1>8, <2>1, Pieces
<1>10. s.heads # <<>> /\ Head(s.heads) = f.head /\ Tail(s.heads) = k
  <2> DEFINE h == f.head
  <2>1. h \in H /\ k \in Seq(H) /\ s.heads = <<h>> \o k
    BY <1>5, <1>6
  <2> HIDE DEF h
  <2>2. <<h>> \o k # <<>> /\ Head(<<h>> \o k) = h /\ Tail(<<h>> \o k) = k
    BY <2>1
  <2> QED BY <2>1, <2>2 DEF h
<1>11. TextOf(s) = x
  BY <1>6, <1>7, <1>9, <1>10 DEF TextOf, b
<1>12. Arrived(s)
  <2>0. Len(x) \in Nat /\ Len(r) \in Nat
    BY <1>4, <1>7
  <2>1. Len(b) = 8 + Len(x) + d + Len(r) /\ Len(x) \in Nat /\ Len(r) \in Nat
    BY <1>7, <1>9, <2>0
  <2>2. Len(b) >= 8 /\ Len(b) >= 8 + Len(x) + d
    BY <1>6, <2>1
  <2>3. SubSeq(b, 1, 8) = FixedBytes
    BY <1>7, <1>9 DEF a
  <2> QED BY <1>6, <1>7, <1>10, <2>2, <2>3 DEF Arrived, AtFrame, b, d
<1>13. InFrame(s)
  <2>1. \A i \in DOMAIN x : x[i] \in Plain
    BY <1>6
  <2>2. ToSet(x) \subseteq Plain
    BY <2>1 DEF ToSet
  <2>3. ToSet(x) \cap {Fixed, LastFixed} = {}
    BY <2>2, Letters
  <2> QED BY <1>11, <2>3, FixedIs DEF InFrame
<1>14. Whole(Rest(s), G)
  <2>1. FixedSize + Head(s.heads).size + Head(s.heads).data + 1 = Len(a) + Len(x) + Len(y) + 1
    BY <1>6, <1>7, <1>10 DEF d
  <2>2. Rest(s).bytes = r /\ Rest(s).heads = k
    BY <1>9, <1>10, <2>1 DEF Rest, b
  <2>3. Made(Rest(s), G, gs)
    BY <2>2 DEF Made, r, k
  <2> QED BY <1>3, <2>3 DEF Whole
<1> QED BY <1>3, <1>10, <1>11, <1>12, <1>13, <1>14 DEF x

-----------------------------------------------------------------------------
(***************************************************************************)
(* Streams that may be out of step: for each fixed header there is what it *)
(* says, and behind it comes a text or another fixed header.               *)
(***************************************************************************)
Stream(H) == [bytes : Seq(Byte), heads : Seq(H)]

LastAt(bytes) == {i \in 1 .. Len(bytes) : bytes[i] = LastFixed}

Numbers(s, f) ==
    /\ f \in [LastAt(s.bytes) -> 1 .. Len(s.heads)]
    /\ \A i, j \in LastAt(s.bytes) : i < j => f[i] < f[j]

Numbered(s) == \E f : Numbers(s, f)

LEMMA NumberedJoin ==
    ASSUME NEW H, NEW s \in Stream(H), NEW t \in Stream(H), Numbered(s), Numbered(t)
    PROVE  Join(s, t) \in Stream(H) /\ Numbered(Join(s, t))
<1> DEFINE a == s.bytes
           b == t.bytes
           x == s.heads
           y == t.heads
           u == a \o b
           z == x \o y
           m == Len(a)
           n == Len(x)
<1>1. a \in Seq(Byte) /\ b \in Seq(Byte) /\ x \in Seq(H) /\ y \in Seq(H)
  BY DEF Stream
<1>2. Join(s, t) = [bytes |-> u, heads |-> z]
  BY DEF Join
<1>3. PICK f : Numbers(s, f)
  BY DEF Numbered
<1>4. PICK g : Numbers(t, g)
  BY DEF Numbered
<1>5. /\ f \in [LastAt(a) -> 1 .. n] /\ \A i, j \in LastAt(a) : i < j => f[i] < f[j]
  BY <1>3 DEF Numbers
<1>6. /\ g \in [LastAt(b) -> 1 .. Len(y)] /\ \A i, j \in LastAt(b) : i < j => g[i] < g[j]
  BY <1>4 DEF Numbers
<1> HIDE DEF a, b, x, y
<1>7. /\ u \in Seq(Byte) /\ Len(u) = m + Len(b) /\ m \in Nat /\ Len(b) \in Nat
      /\ (\A i \in 1 .. m : u[i] = a[i])
      /\ \A i \in 1 .. Len(b) : u[m + i] = b[i]
  BY <1>1, Joined
<1>8. z \in Seq(H) /\ Len(z) = n + Len(y) /\ n \in Nat /\ Len(y) \in Nat
  BY <1>1, Joined
<1> HIDE DEF u, z, m, n
<1>9. ASSUME NEW i \in LastAt(u)
      PROVE  /\ i \in Nat
             /\ (i <= m /\ i \in LastAt(a)) \/ (i > m /\ i - m \in LastAt(b))
  <2>1. i \in 1 .. Len(u) /\ u[i] = LastFixed /\ i \in Nat
    BY <1>7 DEF LastAt
  <2>2. CASE i <= m
    <3>1. i \in 1 .. m /\ a[i] = LastFixed
      BY <1>7, <2>1, <2>2
    <3> QED BY <2>1, <2>2, <3>1 DEF LastAt, m
  <2>3. CASE ~(i <= m)
    <3>1. i - m \in 1 .. Len(b) /\ m + (i - m) = i /\ i > m
      BY <1>7, <2>1, <2>3
    <3>2. b[i - m] = LastFixed
      BY <1>7, <2>1, <3>1
    <3> QED BY <2>1, <3>1, <3>2 DEF LastAt
  <2> QED BY <2>2, <2>3
<1> DEFINE h == [i \in LastAt(u) |-> IF i <= m THEN f[i] ELSE n + g[i - m]]
<1>10. ASSUME NEW i \in LastAt(u)
       PROVE  /\ i <= m => h[i] \in 1 .. n
              /\ ~(i <= m) => h[i] \in n + 1 .. Len(z)
  <2>1. CASE i <= m
    BY <1>5, <1>7, <1>9, <2>1
  <2>2. CASE ~(i <= m)
    <3>1. i - m \in LastAt(b)
      BY <1>7, <1>9, <2>2
    <3>2. g[i - m] \in 1 .. Len(y)
      BY <1>6, <3>1
    <3> QED BY <1>8, <2>2, <3>2
  <2> QED BY <2>1, <2>2
<1>11. h \in [LastAt(u) -> 1 .. Len(z)]
  <2>1. ASSUME NEW i \in LastAt(u) PROVE h[i] \in 1 .. Len(z)
    <3> HIDE DEF h
    <3> QED BY <1>8, <1>10
  <2> QED BY <2>1
<1>12. ASSUME NEW i \in LastAt(u), NEW j \in LastAt(u), i < j PROVE h[i] < h[j]
  <2>0. i \in Nat /\ j \in Nat
    BY <1>9
  <2>1. CASE j <= m
    <3>1. i <= m /\ i \in LastAt(a) /\ j \in LastAt(a)
      BY <1>7, <1>9, <1>12, <2>0, <2>1
    <3>2. f[i] < f[j]
      BY <1>5, <1>12, <3>1
    <3> QED BY <2>1, <3>1, <3>2
  <2>2. CASE i <= m /\ ~(j <= m)
    <3>1. h[i] \in 1 .. n /\ h[j] \in n + 1 .. Len(z)
      BY <1>10, <2>2
    <3> HIDE DEF h
    <3> QED BY <1>8, <3>1
  <2>3. CASE ~(i <= m) /\ ~(j <= m)
    <3>1. i - m \in LastAt(b) /\ j - m \in LastAt(b) /\ i - m < j - m
      BY <1>7, <1>9, <1>12, <2>0, <2>3
    <3>2. g[i - m] < g[j - m] /\ g[i - m] \in Nat /\ g[j - m] \in Nat
      BY <1>6, <1>8, <3>1
    <3>3. h[i] = n + g[i - m] /\ h[j] = n + g[j - m]
      BY <2>3
    <3> HIDE DEF h
    <3> QED BY <1>8, <3>2, <3>3
  <2> QED BY <2>0, <1>7, <1>12, <2>1, <2>2, <2>3
<1> HIDE DEF h
<1>13. Numbers([bytes |-> u, heads |-> z], h)
  BY <1>11, <1>12 DEF Numbers
<1>14. [bytes |-> u, heads |-> z] \in Stream(H)
  BY <1>7, <1>8 DEF Stream
<1> QED BY <1>2, <1>13, <1>14 DEF Numbered

LEMMA NumberedEmpty == \A H : Empty \in Stream(H) /\ Numbered(Empty)
<1> TAKE H
<1>1. Empty.bytes = <<>> /\ Empty.heads = <<>> /\ Len(<<>>) = 0
  BY DEF Empty
<1>2. LastAt(<<>>) = {}
  BY DEF LastAt
<1>3. Numbers(Empty, [i \in {} |-> 1])
  BY <1>1, <1>2 DEF Numbers
<1>4. Empty \in Stream(H)
  BY DEF Empty, Stream
<1> QED BY <1>3, <1>4 DEF Numbered

\* A fixed header and bytes that are none of one.
LEMMA HeadAndRest ==
    ASSUME NEW rest \in Seq(Plain)
    PROVE  /\ FixedBytes \o rest \in Seq(Byte) /\ Len(FixedBytes \o rest) = 8 + Len(rest) /\ Len(rest) \in Nat
           /\ (\A i \in 1 .. 7 : (FixedBytes \o rest)[i] = Fixed) /\ (FixedBytes \o rest)[8] = LastFixed
           /\ \A i \in 1 .. Len(rest) : (FixedBytes \o rest)[8 + i] = rest[i] /\ rest[i] \in Plain
<1> DEFINE a == FixedBytes
           u == a \o rest
<1>1. rest \in Seq(Byte) /\ a \in Seq(Byte) /\ Len(a) = 8 /\ a[8] = LastFixed /\ \A i \in 1 .. 7 : a[i] = Fixed
  BY FixedIs, PlainSeq
<1> HIDE DEF a
<1>2. /\ u \in Seq(Byte) /\ Len(u) = Len(a) + Len(rest) /\ Len(rest) \in Nat
      /\ (\A i \in 1 .. Len(a) : u[i] = a[i])
      /\ \A i \in 1 .. Len(rest) : u[Len(a) + i] = rest[i]
  <2>1. a \in Seq(Byte) /\ rest \in Seq(Byte)
    BY <1>1
  <2> QED BY <2>1, Joined
<1>3. 8 \in 1 .. 8 /\ \A i \in 1 .. 7 : i \in 1 .. 8
  OBVIOUS
<1>4. \A i \in 1 .. Len(rest) : rest[i] \in Plain
  OBVIOUS
<1> HIDE DEF u
<1>5. /\ u \in Seq(Byte) /\ Len(u) = 8 + Len(rest) /\ Len(rest) \in Nat
      /\ (\A i \in 1 .. 7 : u[i] = Fixed) /\ u[8] = LastFixed
      /\ \A i \in 1 .. Len(rest) : u[8 + i] = rest[i] /\ rest[i] \in Plain
  BY <1>1, <1>2, <1>3, <1>4
<1> QED BY <1>5 DEF u, a

LEMMA NumberedFramed ==
    ASSUME NEW H, NEW head \in H, NEW rest \in Seq(Plain)
    PROVE  Framed(head, rest) \in Stream(H) /\ Numbered(Framed(head, rest))
<1> DEFINE u == FixedBytes \o rest
<1>1. Framed(head, rest) = [bytes |-> u, heads |-> <<head>>]
  BY DEF Framed
<1>2. /\ u \in Seq(Byte) /\ Len(u) = 8 + Len(rest) /\ Len(rest) \in Nat
      /\ (\A i \in 1 .. 7 : u[i] = Fixed) /\ u[8] = LastFixed
      /\ \A i \in 1 .. Len(rest) : u[8 + i] = rest[i] /\ rest[i] \in Plain
  BY HeadAndRest
<1> HIDE DEF u
<1>3. ASSUME NEW i \in LastAt(u) PROVE i = 8
  <2>1. i \in 1 .. 8 + Len(rest) /\ u[i] = LastFixed
    BY <1>2 DEF LastAt
  <2>2. CASE i < 8
    <3>1. i \in 1 .. 7
      BY <1>2, <2>1, <2>2
    <3> QED BY <1>2, <2>1, <3>1, Letters
  <2>3. CASE i > 8
    <3>1. i - 8 \in 1 .. Len(rest) /\ 8 + (i - 8) = i
      BY <1>2, <2>1, <2>3
    <3>2. u[i] \in Plain
      BY <1>2, <3>1
    <3> QED BY <2>1, <3>2, Letters
  <2> QED BY <1>2, <2>1, <2>2, <2>3
<1>4. Len(<<head>>) = 1 /\ 1 \in 1 .. 1 /\ <<head>> \in Seq(H)
  BY OneOf
<1>5. \A i, j \in LastAt(u) : ~(i < j)
  BY <1>3
<1>6. Numbers([bytes |-> u, heads |-> <<head>>], [i \in LastAt(u) |-> 1])
  BY <1>4, <1>5 DEF Numbers
<1>7. [bytes |-> u, heads |-> <<head>>] \in Stream(H)
  BY <1>2, <1>4 DEF Stream
<1> QED BY <1>1, <1>6, <1>7 DEF Numbered

LEMMA AtFrameIs ==
    ASSUME NEW b \in Seq(Byte), Len(b) >= FixedSize, SubSeq(b, 1, FixedSize) = FixedBytes
    PROVE  b[8] = LastFixed /\ Len(b) \in Nat /\ Len(b) >= 8 /\ 8 \in 1 .. Len(b) /\ FixedSize = 8
<1>1. FixedSize = 8 /\ FixedBytes[8] = LastFixed /\ 8 \in 1 .. 8
  BY FixedIs
<1>2. Len(b) \in Nat /\ Len(b) >= 8
  BY <1>1
<1>3. \A i \in 1 .. 8 : b[i] \in Byte
  BY <1>2
<1>6. SubSeq(b, 1, 8)[8] = b[8]
  <2> DEFINE m == 1
             n == 8
  <2>1. m \in Int /\ n \in Int /\ \A i \in m .. n : b[i] \in Byte
    BY <1>3
  <2>2. n \in 1 .. n - m + 1 /\ m + n - 1 = n
    OBVIOUS
  <2> HIDE DEF m, n
  <2>3. \A i \in 1 .. n - m + 1 : SubSeq(b, m, n)[i] = b[m + i - 1]
    BY <2>1, SubSeqProperties
  <2>4. SubSeq(b, m, n)[n] = b[n]
    BY <2>2, <2>3
  <2> QED BY <2>4 DEF m, n
<1> QED BY <1>1, <1>2, <1>6

\* The end of a sequence.
LEMMA EndIs ==
    ASSUME NEW B, NEW b \in Seq(B), NEW k \in 0 .. Len(b)
    PROVE  /\ SubSeq(b, k + 1, Len(b)) \in Seq(B) /\ Len(SubSeq(b, k + 1, Len(b))) = Len(b) - k
           /\ \A i \in 1 .. Len(b) - k : SubSeq(b, k + 1, Len(b))[i] = b[k + i]
<1> DEFINE n == Len(b)
           r == SubSeq(b, k + 1, n)
<1>0. n \in Nat /\ k \in Nat
  OBVIOUS
<1>1. \A i \in k + 1 .. n : b[i] \in B
  BY <1>0
<1>2. /\ r \in Seq(B) /\ Len(r) = IF k + 1 <= n THEN n - (k + 1) + 1 ELSE 0
      /\ \A i \in 1 .. n - (k + 1) + 1 : r[i] = b[(k + 1) + i - 1]
  <2>1. k + 1 \in Int /\ n \in Int
    BY <1>0
  <2> HIDE DEF n
  <2> QED BY <1>1, <2>1, SubSeqProperties
<1>3. n - (k + 1) + 1 = n - k /\ \A i \in 1 .. n - k : (k + 1) + i - 1 = k + i
  BY <1>0
<1>4. Len(r) = n - k
  BY <1>0, <1>2
<1>5. \A i \in 1 .. n - k : r[i] = b[k + i]
  <2> HIDE DEF r, n
  <2> QED BY <1>2, <1>3
<1> QED BY <1>2, <1>4, <1>5

\* A frame has been taken from the stream: there is a head for it, and the rest is
\* such a stream.
Cut(s, k) == [bytes |-> SubSeq(s.bytes, k + 1, Len(s.bytes)), heads |-> Tail(s.heads)]

LEMMA NumberedCut ==
    ASSUME NEW H, NEW s \in Stream(H), Numbered(s), Len(s.bytes) >= FixedSize, AtFrame(s)
    PROVE  /\ s.heads # <<>> /\ Head(s.heads) \in H
           /\ \A k \in 8 .. Len(s.bytes) : Cut(s, k) \in Stream(H) /\ Numbered(Cut(s, k))
<1> DEFINE b == s.bytes
           x == s.heads
<1>1. b \in Seq(Byte) /\ x \in Seq(H)
  BY DEF Stream
<1>2. PICK f : Numbers(s, f)
  BY DEF Numbered
<1>3. f \in [LastAt(b) -> 1 .. Len(x)] /\ \A i, j \in LastAt(b) : i < j => f[i] < f[j]
  BY <1>2 DEF Numbers
<1>4. SubSeq(b, 1, FixedSize) = FixedBytes /\ Len(b) >= FixedSize
  BY DEF AtFrame
<1> HIDE DEF b, x
<1>5. b[8] = LastFixed /\ Len(b) \in Nat /\ Len(b) >= 8 /\ 8 \in 1 .. Len(b)
  BY <1>1, <1>4, AtFrameIs
<1>6. 8 \in LastAt(b)
  BY <1>5 DEF LastAt
<1>7. Len(x) \in Nat /\ f[8] \in 1 .. Len(x) /\ Len(x) > 0
  <2>1. Len(x) \in Nat
    BY <1>1
  <2>2. f[8] \in 1 .. Len(x)
    BY <1>3, <1>6
  <2> QED BY <2>1, <2>2
<1>8. x # <<>> /\ Head(x) \in H /\ Tail(x) \in Seq(H) /\ Len(Tail(x)) = Len(x) - 1
  <2>1. x # <<>>
    BY <1>1, <1>7
  <2> QED BY <1>1, <2>1
<1>9. ASSUME NEW k \in 8 .. Len(b) PROVE Cut(s, k) \in Stream(H) /\ Numbered(Cut(s, k))
  <2> DEFINE r == SubSeq(b, k + 1, Len(b))
             y == Tail(x)
             g == [i \in LastAt(r) |-> f[k + i] - 1]
  <2>1. Cut(s, k) = [bytes |-> r, heads |-> y]
    BY DEF Cut, b, x
  <2>2. k \in 0 .. Len(b) /\ k \in Nat /\ k >= 8
    BY <1>5
  <2>3. r \in Seq(Byte) /\ Len(r) = Len(b) - k /\ \A i \in 1 .. Len(b) - k : r[i] = b[k + i]
    BY <1>1, <2>2, EndIs
  <2> HIDE DEF r, y
  <2>4. ASSUME NEW i \in LastAt(r) PROVE i \in Nat /\ k + i \in LastAt(b) /\ 8 < k + i
    <3>1. i \in 1 .. Len(b) - k /\ r[i] = LastFixed
      BY <2>3 DEF LastAt
    <3>2. k + i \in 1 .. Len(b) /\ 8 < k + i
      BY <1>5, <2>2, <3>1
    <3>3. b[k + i] = LastFixed
      BY <2>3, <3>1
    <3> QED BY <3>1, <3>2, <3>3 DEF LastAt
  <2>5. ASSUME NEW i \in LastAt(r) PROVE f[k + i] - 1 \in 1 .. Len(x) - 1
    <3>1. f[8] < f[k + i] /\ f[k + i] \in 1 .. Len(x)
      BY <1>3, <1>6, <2>4
    <3> QED BY <1>7, <3>1
  <2>6. Len(y) = Len(x) - 1 /\ y \in Seq(H)
    BY <1>8 DEF y
  <2>7. g \in [LastAt(r) -> 1 .. Len(y)]
    BY <2>5, <2>6
  <2>8. ASSUME NEW i \in LastAt(r), NEW j \in LastAt(r), i < j PROVE g[i] < g[j]
    <3>1. k + i \in LastAt(b) /\ k + j \in LastAt(b) /\ k + i < k + j
      BY <2>2, <2>4, <2>8
    <3>2. f[k + i] < f[k + j] /\ f[k + i] \in Int /\ f[k + j] \in Int
      BY <1>3, <1>7, <3>1
    <3> QED BY <3>2
  <2> HIDE DEF g
  <2>9. Numbers([bytes |-> r, heads |-> y], g)
    BY <2>7, <2>8 DEF Numbers
  <2>10. [bytes |-> r, heads |-> y] \in Stream(H)
    BY <2>3, <2>6 DEF Stream
  <2> QED BY <2>1, <2>9, <2>10 DEF Numbered
<1> QED BY <1>8, <1>9 DEF b, x

\* What may follow what.
Follows(c, d) == (d = Wide2 => c = Wide1) /\ (c = LastFixed => d \in {Quote, Fixed})
Local(b) == \A i \in 1 .. Len(b) : i > 1 => Follows(b[i - 1], b[i])
Opens(b) == b # <<>> => b[1] = Fixed

LEMMA LocalJoin ==
    ASSUME NEW a \in Seq(Byte), NEW b \in Seq(Byte), Local(a), Local(b), Opens(b)
    PROVE  Local(a \o b) /\ (Opens(a) => Opens(a \o b))
<1> DEFINE u == a \o b
           m == Len(a)
<1>1. /\ u \in Seq(Byte) /\ Len(u) = m + Len(b) /\ m \in Nat /\ Len(b) \in Nat
      /\ (\A i \in 1 .. m : u[i] = a[i])
      /\ \A i \in 1 .. Len(b) : u[m + i] = b[i]
  BY Joined
<1>0. (m = 0 <=> a = <<>>) /\ (Len(b) = 0 <=> b = <<>>)
  OBVIOUS
<1>e. a = <<>> => u = b
  OBVIOUS
<1> HIDE DEF u, m
<1>2. ASSUME NEW i \in 1 .. Len(u), i > 1 PROVE Follows(u[i - 1], u[i])
  <2>1. CASE i <= m
    <3>1. i \in 1 .. m /\ i - 1 \in 1 .. m
      BY <1>1, <1>2, <2>1
    <3>2. Follows(a[i - 1], a[i])
      BY <1>2, <3>1 DEF Local, m
    <3> QED BY <1>1, <3>1, <3>2
  <2>2. CASE i = m + 1
    <3>1. 1 \in 1 .. Len(b) /\ b # <<>>
      BY <1>0, <1>1, <2>2
    <3>2. u[i] = Fixed
      BY <1>1, <2>2, <3>1 DEF Opens
    <3> QED BY <3>2, Letters DEF Follows
  <2>3. CASE i > m + 1
    <3> DEFINE j == i - m
    <3>1. /\ j \in 1 .. Len(b) /\ j - 1 \in 1 .. Len(b) /\ j > 1
          /\ m + j = i /\ m + (j - 1) = i - 1
      BY <1>1, <2>3
    <3> HIDE DEF j
    <3>2. Follows(b[j - 1], b[j])
      BY <3>1 DEF Local
    <3>3. u[m + j] = b[j] /\ u[m + (j - 1)] = b[j - 1]
      BY <1>1, <3>1
    <3> QED BY <3>1, <3>2, <3>3
  <2> QED BY <1>1, <2>1, <2>2, <2>3
<1>3. ASSUME Opens(a) PROVE Opens(u)
  <2>1. CASE m = 0
    BY <1>0, <1>e, <2>1
  <2>2. CASE m # 0
    <3>1. 1 \in 1 .. m /\ a # <<>>
      BY <1>0, <1>1, <2>2
    <3> QED BY <1>1, <1>3, <3>1 DEF Opens
  <2> QED BY <2>1, <2>2
<1>4. Local(u) /\ (Opens(a) => Opens(u))
  BY <1>2, <1>3 DEF Local
<1> QED BY <1>4 DEF u

LEMMA LocalFramed ==
    ASSUME NEW rest \in Seq(Plain), Paired(rest), rest # <<>> => rest[1] = Quote
    PROVE  Local(FixedBytes \o rest) /\ Opens(FixedBytes \o rest)
<1> DEFINE u == FixedBytes \o rest
<1>2. /\ u \in Seq(Byte) /\ Len(u) = 8 + Len(rest) /\ Len(rest) \in Nat
      /\ (\A i \in 1 .. 7 : u[i] = Fixed) /\ u[8] = LastFixed
      /\ \A i \in 1 .. Len(rest) : u[8 + i] = rest[i] /\ rest[i] \in Plain
  BY HeadAndRest
<1>0. Len(rest) > 0 => rest[1] = Quote
  OBVIOUS
<1> HIDE DEF u
<1>3. ASSUME NEW i \in 1 .. Len(u), i > 1 PROVE Follows(u[i - 1], u[i])
  <2>1. CASE i <= 8
    <3>1. i \in 1 .. 7 \/ i = 8
      BY <1>2, <2>1
    <3>2. i - 1 \in 1 .. 7
      BY <1>2, <1>3, <2>1
    <3> QED BY <1>2, <3>1, <3>2, Letters DEF Follows
  <2>2. CASE i = 9
    <3>1. 1 \in 1 .. Len(rest) /\ i = 8 + 1 /\ i - 1 = 8 /\ Len(rest) > 0
      BY <1>2, <2>2
    <3>2. u[i] = Quote /\ u[i - 1] = LastFixed
      BY <1>0, <1>2, <3>1
    <3> QED BY <3>2, Letters DEF Follows
  <2>3. CASE i > 9
    <3> DEFINE j == i - 8
    <3>1. j \in 1 .. Len(rest) /\ j - 1 \in 1 .. Len(rest) /\ j > 1 /\ 8 + j = i /\ 8 + (j - 1) = i - 1
      BY <1>2, <2>3
    <3> HIDE DEF j
    <3>2. u[i] = rest[j] /\ u[i - 1] = rest[j - 1] /\ rest[j - 1] \in Plain
      BY <1>2, <3>1
    <3>3. rest[j] = Wide2 => rest[j - 1] = Wide1
      BY <3>1 DEF Paired
    <3> QED BY <3>2, <3>3, Letters DEF Follows
  <2> QED BY <1>2, <2>1, <2>2, <2>3
<1>4. Opens(u)
  <2>1. 1 \in 1 .. 7
    OBVIOUS
  <2> QED BY <1>2, <2>1 DEF Opens
<1>5. Local(u)
  BY <1>3 DEF Local
<1> QED BY <1>4, <1>5 DEF u

LEMMA LocalCut ==
    ASSUME NEW b \in Seq(Byte), Local(b), NEW k \in 0 .. Len(b)
    PROVE  Local(SubSeq(b, k + 1, Len(b)))
<1> DEFINE r == SubSeq(b, k + 1, Len(b))
<1>1. r \in Seq(Byte) /\ Len(r) = Len(b) - k /\ \A i \in 1 .. Len(b) - k : r[i] = b[k + i]
  BY EndIs
<1>2. Len(b) \in Nat /\ k \in Nat
  OBVIOUS
<1> HIDE DEF r
<1>3. ASSUME NEW i \in 1 .. Len(r), i > 1 PROVE Follows(r[i - 1], r[i])
  <2>1. i \in 1 .. Len(b) - k /\ i - 1 \in 1 .. Len(b) - k
    BY <1>1, <1>2, <1>3
  <2>2. k + i \in 1 .. Len(b) /\ k + i > 1 /\ (k + i) - 1 = k + (i - 1)
    BY <1>2, <2>1
  <2>3. Follows(b[(k + i) - 1], b[k + i])
    BY <2>2 DEF Local
  <2> QED BY <1>1, <2>1, <2>2, <2>3
<1>4. Local(r)
  BY <1>3 DEF Local
<1> QED BY <1>4 DEF r

\* The text that is cut out behind a fixed header.
LEMMA TextCut ==
    ASSUME NEW b \in Seq(Byte), Local(b), Len(b) >= FixedSize, SubSeq(b, 1, FixedSize) = FixedBytes,
           NEW n \in Nat, 8 + n <= Len(b), NEW t, t = SubSeq(b, 8 + 1, 8 + n),
           ToSet(t) \cap ToSet(FixedBytes) = {}
    PROVE  t \in Seq(Plain) /\ Paired(t) /\ (t # <<>> => t[1] = Quote)
<1>1. b[8] = LastFixed /\ Len(b) \in Nat
  BY AtFrameIs
<1>2. t \in Seq(Byte) /\ Len(t) = n /\ \A i \in 1 .. n : t[i] = b[8 + i]
  <2>1. \A i \in 8 + 1 .. 8 + n : b[i] \in Byte
    BY <1>1
  <2>2. 8 + 1 \in Int /\ 8 + n \in Int
    OBVIOUS
  <2>3. /\ t \in Seq(Byte) /\ Len(t) = IF 8 + 1 <= 8 + n THEN (8 + n) - (8 + 1) + 1 ELSE 0
        /\ \A i \in 1 .. (8 + n) - (8 + 1) + 1 : t[i] = b[(8 + 1) + i - 1]
    BY <2>1, <2>2, SubSeqProperties
  <2>4. Len(t) = n
    BY <2>3
  <2>5. (8 + n) - (8 + 1) + 1 = n /\ \A i \in 1 .. n : (8 + 1) + i - 1 = 8 + i
    OBVIOUS
  <2>6. \A i \in 1 .. n : t[i] = b[8 + i]
    BY <2>3, <2>5
  <2> QED BY <2>3, <2>4, <2>6
<1>3. DOMAIN t = 1 .. n /\ t = [i \in 1 .. n |-> t[i]] /\ \A i \in 1 .. n : t[i] \in Byte
  BY <1>2
<1>4. \A i \in 1 .. n : t[i] \in Plain
  <2>1. \A i \in 1 .. n : t[i] \in ToSet(t)
    BY <1>3 DEF ToSet
  <2>2. \A x : x \in ToSet(t) => x # Fixed /\ x # LastFixed
    BY FixedIs
  <2> QED BY <1>3, <2>1, <2>2 DEF Plain
<1>5. t \in Seq(Plain)
  <2>1. t = [i \in 1 .. n |-> t[i]]
    BY <1>3
  <2> QED BY <1>4, <2>1, SeqIs
<1>6. ASSUME NEW i \in 1 .. n PROVE Follows(b[(8 + i) - 1], b[8 + i])
  <2>1. 8 + i \in 1 .. Len(b) /\ 8 + i > 1
    BY <1>1
  <2> QED BY <2>1 DEF Local
<1>7. n > 0 => t[1] = Quote
  <2> SUFFICES ASSUME n > 0 PROVE t[1] = Quote
    OBVIOUS
  <2>1. 1 \in 1 .. n /\ (8 + 1) - 1 = 8
    OBVIOUS
  <2>2. Follows(LastFixed, t[1]) /\ t[1] \in Plain
    BY <1>1, <1>2, <1>4, <1>6, <2>1
  <2> QED BY <2>2, Letters DEF Follows
<1>8. ASSUME NEW i \in 1 .. n, t[i] = Wide2 PROVE i > 1 /\ t[i - 1] = Wide1
  <2>1. i > 1
    <3>1. CASE i = 1
      BY <1>7, <1>8, <3>1, Letters
    <3> QED BY <3>1
  <2>2. i - 1 \in 1 .. n /\ (8 + i) - 1 = 8 + (i - 1)
    BY <2>1
  <2>3. b[8 + (i - 1)] = Wide1
    BY <1>2, <1>6, <1>8, <2>2 DEF Follows
  <2> QED BY <1>2, <2>1, <2>2, <2>3
<1>9. t # <<>> => n > 0
  BY <1>2
<1> QED BY <1>2, <1>5, <1>7, <1>8, <1>9 DEF Paired

\* No character of an encoded text is cut.
LEMMA PairedJoin ==
    ASSUME NEW s \in Seq(Plain), NEW t \in Seq(Plain), Paired(s), Paired(t)
    PROVE  Paired(s \o t)
<1> DEFINE u == s \o t
           m == Len(s)
<1>1. /\ u \in Seq(Plain) /\ Len(u) = m + Len(t) /\ m \in Nat /\ Len(t) \in Nat
      /\ (\A i \in 1 .. m : u[i] = s[i])
      /\ \A i \in 1 .. Len(t) : u[m + i] = t[i]
  BY Joined
<1> HIDE DEF u, m
<1>2. ASSUME NEW i \in 1 .. Len(u), u[i] = Wide2 PROVE i > 1 /\ u[i - 1] = Wide1
  <2>1. CASE i <= m
    <3>1. i \in 1 .. m /\ s[i] = Wide2
      BY <1>1, <1>2, <2>1
    <3>2. i > 1 /\ s[i - 1] = Wide1
      BY <3>1 DEF Paired, m
    <3>3. i - 1 \in 1 .. m
      BY <1>1, <3>1, <3>2
    <3> QED BY <1>1, <3>2, <3>3
  <2>2. CASE ~(i <= m)
    <3> DEFINE j == i - m
    <3>1. j \in 1 .. Len(t) /\ m + j = i
      BY <1>1, <2>2
    <3> HIDE DEF j
    <3>2. t[j] = Wide2
      BY <1>1, <1>2, <3>1
    <3>3. j > 1 /\ t[j - 1] = Wide1
      BY <3>1, <3>2 DEF Paired
    <3>4. j - 1 \in 1 .. Len(t) /\ m + (j - 1) = i - 1 /\ i > 1
      BY <1>1, <3>1, <3>3
    <3> QED BY <1>1, <3>3, <3>4
  <2> QED BY <2>1, <2>2
<1>3. Paired(u)
  BY <1>2 DEF Paired
<1> QED BY <1>3 DEF u

LEMMA EncodePaired ==
    ASSUME NEW t \in Seq(Char)
    PROVE  Paired(Encode(t))
<1> DEFINE n == Len(t)
           s == [i \in DOMAIN t |-> BytesOf(t[i])]
           A == Seq(Plain)
<1>0. n \in Nat /\ DOMAIN t = 1 .. n /\ \A i \in 1 .. n : t[i] \in Char
  OBVIOUS
<1>1. s \in Seq(Seq(Plain)) /\ Len(s) = n /\ \A i \in 1 .. n : s[i] = BytesOf(t[i])
  <2>1. \A i \in 1 .. n : BytesOf(t[i]) \in A
    BY <1>0, Maps
  <2> HIDE DEF A
  <2>2. s \in Seq(A) /\ Len(s) = n /\ \A i \in 1 .. n : s[i] = BytesOf(t[i])
    BY <1>0, <2>1
  <2> QED BY <2>2 DEF A
<1>2. Encode(t) = FlattenSeq(s)
  BY DEF Encode
<1> HIDE DEF s, A
<1>3. PICK q \in [0 .. Len(s) -> Seq(Plain)] :
         /\ q[0] = <<>> /\ FlattenSeq(s) = q[Len(s)] /\ \A i \in 1 .. Len(s) : q[i] = q[i - 1] \o s[i]
  <2>1. s \in Seq(Seq(Plain))
    BY <1>1
  <2> QED BY <2>1, FlattenSteps
<1>4. /\ q \in [0 .. n -> Seq(Plain)] /\ q[0] = <<>> /\ Encode(t) = q[n]
      /\ \A i \in 1 .. n : q[i] = q[i - 1] \o BytesOf(t[i])
  BY <1>1, <1>2, <1>3
<1> DEFINE P == {i \in 0 .. n : Paired(q[i])}
<1>5. 0 \in P
  <2>1. Paired(<<>>)
    BY DEF Paired
  <2> QED BY <1>0, <1>4, <2>1
<1>6. ASSUME NEW c \in Char PROVE Paired(BytesOf(c))
  <2>1. CASE c = Wide
    <3> DEFINE w == <<Wide1, Wide2>>
    <3>1. BytesOf(c) = w /\ Len(w) = 2 /\ w[1] = Wide1 /\ w[2] = Wide2
      BY <2>1 DEF BytesOf
    <3>2. \A i \in 1 .. 2 : i \in {1, 2}
      OBVIOUS
    <3> HIDE DEF w
    <3>3. \A i \in 1 .. Len(w) : w[i] = Wide2 => i > 1 /\ w[i - 1] = Wide1
      <4> SUFFICES ASSUME NEW i \in 1 .. 2, w[i] = Wide2 PROVE i > 1 /\ w[i - 1] = Wide1
        BY <3>1
      <4>1. i = 2
        BY <3>1, <3>2, Letters
      <4> QED BY <3>1, <4>1
    <3> QED BY <3>1, <3>3 DEF Paired
  <2>2. CASE c # Wide
    <3> DEFINE w == <<c>>
    <3>1. BytesOf(c) = w /\ Len(w) = 1 /\ w[1] = c /\ c # Wide2
      BY <2>2, Letters DEF BytesOf
    <3>2. \A i \in 1 .. 1 : i = 1
      OBVIOUS
    <3> QED BY <3>1, <3>2 DEF Paired
  <2> QED BY <2>1, <2>2
<1>7. ASSUME NEW i \in 1 .. n, i - 1 \in P PROVE i \in P
  <2>0. i \in 0 .. n /\ i - 1 \in 0 .. n
    BY <1>0
  <2>1. i \in 0 .. n /\ Paired(q[i - 1]) /\ q[i - 1] \in Seq(Plain)
    BY <1>4, <1>7, <2>0
  <2>2. BytesOf(t[i]) \in Seq(Plain) /\ Paired(BytesOf(t[i]))
    BY <1>0, <1>6, Maps
  <2>3. Paired(q[i - 1] \o BytesOf(t[i]))
    <3> DEFINE x == q[i - 1]
               y == BytesOf(t[i])
    <3>1. x \in Seq(Plain) /\ y \in Seq(Plain) /\ Paired(x) /\ Paired(y)
      BY <2>1, <2>2
    <3> HIDE DEF x, y
    <3>2. Paired(x \o y)
      BY <3>1, PairedJoin
    <3> QED BY <3>2 DEF x, y
  <2> QED BY <1>4, <2>1, <2>3
<1>8. \A i \in 0 .. n : i \in P
  <2> HIDE DEF P
  <2> QED BY <1>0, <1>5, <1>7, Steps
<1> QED BY <1>0, <1>4, <1>8

-----------------------------------------------------------------------------
(***************************************************************************)
(* The headers of requests.                                                *)
(***************************************************************************)
RequestKeys == {TopicKey, TagKey, TimeKey}
AllKeys == {TopicKey, TagKey, OriginKey, FromKey, StatusKey, TimeKey}

LEMMA KeysAre ==
    /\ \A k \in AllKeys \cup {Short} :
          /\ k \in Seq(Char) /\ k \in Seq(Plain) /\ k # <<>> /\ Clean(k) /\ Paired(k)
          /\ Encode(k) = k /\ Decode(k) = k
    /\ TopicKey \notin {TagKey, OriginKey, FromKey, StatusKey, TimeKey}
    /\ TagKey \notin {OriginKey, FromKey, StatusKey, TimeKey}
    /\ OriginKey \notin {FromKey, StatusKey, TimeKey} /\ FromKey \notin {StatusKey, TimeKey} /\ StatusKey # TimeKey
<1> DEFINE L == {"t", "g", "o", "f", "s", "m", "a"}
<1>1. \A c \in L : c \in Char \ {Wide} /\ c # Quote /\ c # Backslash /\ c # Wide2
  BY DEF Char, Wide, Quote, Backslash, Wide2
<1>2. \A k \in AllKeys \cup {Short} : \E c \in L : k = <<c>>
  BY DEF AllKeys, TopicKey, TagKey, OriginKey, FromKey, StatusKey, TimeKey, Short
<1> HIDE DEF L
<1>3. ASSUME NEW c \in L
      PROVE  /\ <<c>> \in Seq(Char) /\ <<c>> \in Seq(Plain) /\ <<c>> # <<>>
             /\ Clean(<<c>>) /\ Paired(<<c>>) /\ Encode(<<c>>) = <<c>> /\ Decode(<<c>>) = <<c>>
  <2>1. c \in Char /\ c \in Plain /\ c \in Char \ {Wide} /\ c # Quote /\ c # Backslash /\ c # Wide2
    BY <1>1, Letters
  <2>2. <<c>> \in Seq(Char) /\ <<c>> \in Seq(Plain)
    BY <2>1, OneOf
  <2>3. Encode(<<c>>) = <<c>> /\ Decode(<<c>>) = <<c>>
    BY <2>1, SameLetter
  <2>4. Len(<<c>>) = 1 /\ DOMAIN <<c>> = 1 .. 1 /\ <<c>>[1] = c /\ <<c>> # <<>>
    OBVIOUS
  <2>5. \A i \in 1 .. 1 : i = 1
    OBVIOUS
  <2>6. Last(<<c>>) = c
    BY <2>4 DEF Last
  <2>7. Clean(<<c>>) /\ Paired(<<c>>)
    BY <2>1, <2>4, <2>5, <2>6 DEF Clean, Paired
  <2> QED BY <2>2, <2>3, <2>4, <2>7
<1>4. /\ TopicKey \notin {TagKey, OriginKey, FromKey, StatusKey, TimeKey}
      /\ TagKey \notin {OriginKey, FromKey, StatusKey, TimeKey}
      /\ OriginKey \notin {FromKey, StatusKey, TimeKey} /\ FromKey \notin {StatusKey, TimeKey} /\ StatusKey # TimeKey
  <2>1. /\ TopicKey[1] = "t" /\ TagKey[1] = "g" /\ OriginKey[1] = "o" /\ FromKey[1] = "f"
        /\ StatusKey[1] = "s" /\ TimeKey[1] = "m"
    BY DEF TopicKey, TagKey, OriginKey, FromKey, StatusKey, TimeKey
  <2> QED BY <2>1
<1> QED BY <1>2, <1>3, <1>4

\* An order in which all headers come once.
Order(order, headers) ==
    /\ order \in Seq(Header(Char)) /\ ToSet(order) = ToSet(headers)
    /\ \A i, j \in 1 .. Len(order) : i # j => order[i] # order[j]

LEMMA OrderIs ==
    ASSUME NEW headers \in Seq(Header(Char)), NEW order \in SetToSeqs(ToSet(headers))
    PROVE  Order(order, headers)
<1> DEFINE S == ToSet(headers)
           n == Len(headers)
           D == 1 .. Cardinality(S)
<1>1. order \in [D -> S] /\ \A i, j \in D : i # j => order[i] # order[j]
  BY DEF SetToSeqs
<1>2. n \in Nat /\ headers \in [1 .. n -> Header(Char)] /\ DOMAIN headers = 1 .. n
  OBVIOUS
<1>3. \A x : x \in S <=> \E i \in 1 .. n : x = headers[i]
  BY <1>2 DEF ToSet
<1>4. S \subseteq Header(Char)
  BY <1>2, <1>3
<1>5. headers \in Surjection(1 .. n, S)
  <2>1. headers \in [1 .. n -> S]
    BY <1>2, <1>3
  <2> HIDE DEF S
  <2> QED BY <1>3, <2>1 DEF Surjection
<1> HIDE DEF S
<1>6. IsFiniteSet(1 .. n)
  BY <1>2, FS_Interval
<1>7. IsFiniteSet(S)
  BY <1>5, <1>6, FS_Surjection
<1>8. Cardinality(S) \in Nat
  BY <1>7, FS_CardinalityType
<1>9. Cardinality(D) = Cardinality(S)
  <2> DEFINE c == Cardinality(S)
  <2>1. c \in Nat /\ 1 \in Int /\ c \in Int
    BY <1>8
  <2>2. Cardinality(1 .. c) = IF 1 > c THEN 0 ELSE c - 1 + 1
    BY <2>1, FS_Interval
  <2> HIDE DEF c
  <2>3. (IF 1 > c THEN 0 ELSE c - 1 + 1) = c
    BY <2>1
  <2> QED BY <2>2, <2>3 DEF c
<1>10. order \in Injection(D, S)
  BY <1>1 DEF Injection, IsInjective
<1>11. order \in Surjection(D, S)
  <2> HIDE DEF D
  <2> QED BY <1>7, <1>9, <1>10, FS_Injection
<1>12. \A x \in S : \E i \in D : order[i] = x
  BY <1>11 DEF Surjection
<1> DEFINE c == Cardinality(S)
<1>13. order = [i \in 1 .. c |-> order[i]] /\ (\A i \in 1 .. c : order[i] \in S) /\ c \in Nat
  BY <1>1, <1>8
<1>14. order \in Seq(Header(Char)) /\ Len(order) = c /\ DOMAIN order = 1 .. c
  <2>1. \A i \in 1 .. c : order[i] \in Header(Char)
    BY <1>4, <1>13
  <2> HIDE DEF c
  <2>2. order \in Seq(Header(Char)) /\ Len(order) = c
    BY <1>13, <2>1, SeqIs
  <2>3. DOMAIN order = 1 .. c
    BY <1>13
  <2> QED BY <2>2, <2>3
<1>15. ToSet(order) = S
  <2>1. \A x : x \in ToSet(order) <=> \E i \in 1 .. c : x = order[i]
    BY <1>14 DEF ToSet
  <2>2. \A x : x \in ToSet(order) <=> x \in S
    BY <1>12, <1>13, <2>1
  <2> QED BY <2>2
<1> QED BY <1>1, <1>14, <1>15 DEF Order, S

EncodeHeader(h) == <<Encode(h[1]), Encode(h[2])>>

\* What the client and the broker know of the headers of a request.
Usual(hs) == Distinct(hs) /\ Keys(hs) \subseteq RequestKeys /\ <<TimeKey, Short>> \in ToSet(hs)

LEMMA RequestHeadersAre ==
    ASSUME NEW op, NEW topic \in Text
    PROVE  LET hs == RequestHeaders(op, topic)
           IN /\ hs \in Seq(Header(Char)) /\ Distinct(hs) /\ Keys(hs) \subseteq RequestKeys
              /\ <<TimeKey, Short>> \in ToSet(hs) /\ hs # <<>> /\ Order(hs, hs)
<1> DEFINE hs == RequestHeaders(op, topic)
           a == <<TopicKey, topic>>
           b == <<TagKey, Short>>
           c == <<TimeKey, Short>>
<1>1. topic \in Seq(Char)
  BY CodecAssumption
<1>2. TopicKey \in Seq(Char) /\ TagKey \in Seq(Char) /\ TimeKey \in Seq(Char) /\ Short \in Seq(Char)
  BY KeysAre DEF AllKeys
<1>3. a \in Header(Char) /\ b \in Header(Char) /\ c \in Header(Char)
  BY <1>1, <1>2 DEF Header
<1>4. a[1] = TopicKey /\ b[1] = TagKey /\ c[1] = TimeKey /\ TopicKey # TagKey /\ TopicKey # TimeKey /\ TagKey # TimeKey
  BY KeysAre
<1>5. hs = IF op = "PUB" THEN <<a, c>> ELSE <<a, b, c>>
  BY DEF RequestHeaders
<1> HIDE DEF a, b, c, hs
<1> DEFINE A == Header(Char)
<1> HIDE DEF A
<1>6. a \in A /\ b \in A /\ c \in A
  BY <1>3 DEF A
<1>7. /\ hs \in Seq(A) /\ hs # <<>>
      /\ (Len(hs) = 2 /\ hs[1] = a /\ hs[2] = c) \/ (Len(hs) = 3 /\ hs[1] = a /\ hs[2] = b /\ hs[3] = c)
  <2>1. CASE op = "PUB"
    BY <1>5, <1>6, <2>1
  <2>2. CASE op # "PUB"
    BY <1>5, <1>6, <2>2
  <2> QED BY <2>1, <2>2
<1>8. DOMAIN hs = 1 .. Len(hs)
  BY <1>7
<1>9. (\A i \in 1 .. 2 : i \in {1, 2}) /\ (\A i \in 1 .. 3 : i \in {1, 2, 3}) /\ 2 \in 1 .. 2 /\ 3 \in 1 .. 3
  OBVIOUS
<1>10. \A i, j \in 1 .. Len(hs) : hs[i][1] = hs[j][1] => i = j
  BY <1>4, <1>7, <1>9
<1>11. \A i \in 1 .. Len(hs) : hs[i][1] \in RequestKeys
  BY <1>4, <1>7, <1>9 DEF RequestKeys
<1>12. c \in ToSet(hs)
  <2>1. \E i \in 1 .. Len(hs) : hs[i] = c
    BY <1>7, <1>9
  <2> QED BY <1>8, <2>1 DEF ToSet
<1>13. \A i, j \in 1 .. Len(hs) : i # j => hs[i] # hs[j]
  BY <1>10
<1>14. Distinct(hs) /\ Keys(hs) \subseteq RequestKeys
  BY <1>8, <1>10, <1>11 DEF Distinct, Keys
<1>15. Order(hs, hs)
  BY <1>7, <1>13 DEF Order, A
<1> QED BY <1>7, <1>12, <1>14, <1>15 DEF hs, c, A

LEMMA TextOpens ==
    ASSUME NEW B, {Quote, Semicolon} \subseteq B, NEW hs \in Seq(Header(B)), hs # <<>>
    PROVE  ToText(hs) # <<>> /\ ToText(hs)[1] = Quote
<1> DEFINE n == Len(hs)
           text == ToText(hs)
<1>1. text \in Seq(B) /\ \E at \in [0 .. n -> Nat] : Laid(text, hs, at)
  BY TextLaid
<1>2. PICK at \in [0 .. n -> Nat] : Laid(text, hs, at)
  BY <1>1
<1>3. n \in Nat /\ n > 0 /\ 1 \in 1 .. n /\ 0 \in 0 .. n /\ 1 - 1 = 0
  OBVIOUS
<1> HIDE DEF text
<1>4. /\ at[0] = 0 /\ at[1] = at[1 - 1] + LengthOf(hs[1]) /\ at[1] <= Len(text) /\ Lies(text, at[1 - 1], hs[1])
  BY <1>2, <1>3 DEF Laid
<1>5. at[1 - 1] = 0 /\ 0 + 1 = 1
  BY <1>3, <1>4
<1>6. text[1] = Quote
  BY <1>4, <1>5 DEF Lies
<1>7. LengthOf(hs[1]) \in Nat /\ LengthOf(hs[1]) > 0
  <2>1. hs[1] \in Header(B)
    BY <1>3
  <2>2. Len(hs[1][1]) \in Nat /\ Len(hs[1][2]) \in Nat
    BY <2>1 DEF Header
  <2> DEFINE a == Len(hs[1][1])
             b == Len(hs[1][2])
  <2>3. a \in Nat /\ b \in Nat /\ LengthOf(hs[1]) = a + b + 5
    BY <2>2 DEF LengthOf
  <2> HIDE DEF a, b
  <2> QED BY <2>3
<1>8. Len(text) > 0
  BY <1>1, <1>4, <1>5, <1>7
<1>9. text # <<>>
  BY <1>1, <1>8
<1> QED BY <1>6, <1>9 DEF text

\* The text of a request.
LEMMA RequestText ==
    ASSUME NEW op, NEW topic \in Text, NEW order, Order(order, RequestHeaders(op, topic))
    PROVE  LET es == EncodeHeaders(order)
           IN /\ es \in Seq(Header(Plain)) /\ Usual(es)
              /\ ToSet(es) = ToSet(EncodeHeaders(RequestHeaders(op, topic)))
              /\ Encode(ToText(order)) = ToText(es)
              /\ ToText(es) \in Seq(Plain) /\ Paired(ToText(es)) /\ ToText(es) # <<>> /\ ToText(es)[1] = Quote
<1> DEFINE hs == RequestHeaders(op, topic)
           es == EncodeHeaders(order)
           m == Len(order)
           n == Len(hs)
<1>0. /\ hs \in Seq(Header(Char)) /\ Distinct(hs) /\ Keys(hs) \subseteq RequestKeys
      /\ <<TimeKey, Short>> \in ToSet(hs) /\ hs # <<>>
  BY RequestHeadersAre
<1>1. /\ order \in Seq(Header(Char)) /\ ToSet(order) = ToSet(hs)
      /\ \A i, j \in 1 .. m : i # j => order[i] # order[j]
  BY DEF Order
<1> HIDE DEF hs
<1>2. /\ es \in Seq(Header(Plain)) /\ Len(es) = m /\ Encode(ToText(order)) = ToText(es)
      /\ \A i \in 1 .. m : es[i] = EncodeHeader(order[i])
  BY <1>1, EncodeText DEF EncodeHeader
<1>3. /\ Len(EncodeHeaders(hs)) = n /\ EncodeHeaders(hs) \in Seq(Header(Plain))
      /\ \A i \in 1 .. n : EncodeHeaders(hs)[i] = EncodeHeader(hs[i])
  BY <1>0, EncodeText DEF EncodeHeader
<1> HIDE DEF es
<1>4. m \in Nat /\ n \in Nat /\ DOMAIN order = 1 .. m /\ DOMAIN hs = 1 .. n
  BY <1>0, <1>1
<1>5. DOMAIN es = 1 .. m /\ DOMAIN EncodeHeaders(hs) = 1 .. n
  BY <1>2, <1>3
<1>6. (\A x : x \in ToSet(order) <=> \E i \in 1 .. m : x = order[i]) /\ (\A x : x \in ToSet(hs) <=> \E i \in 1 .. n : x = hs[i])
  BY <1>4 DEF ToSet
<1>7. /\ \A x : x \in ToSet(es) <=> \E i \in 1 .. m : x = es[i]
      /\ \A x : x \in ToSet(EncodeHeaders(hs)) <=> \E i \in 1 .. n : x = EncodeHeaders(hs)[i]
  BY <1>5 DEF ToSet
<1>8. ToSet(es) = ToSet(EncodeHeaders(hs))
  <2>1. \A x : x \in ToSet(es) <=> \E h \in ToSet(order) : x = EncodeHeader(h)
    BY <1>2, <1>6, <1>7
  <2>2. \A x : x \in ToSet(EncodeHeaders(hs)) <=> \E h \in ToSet(hs) : x = EncodeHeader(h)
    BY <1>3, <1>6, <1>7
  <2>3. \A x : x \in ToSet(es) <=> x \in ToSet(EncodeHeaders(hs))
    BY <1>1, <2>1, <2>2
  <2> QED BY <2>3
<1>9. ASSUME NEW i \in 1 .. m PROVE order[i][1] \in RequestKeys /\ es[i][1] = order[i][1] /\ \E k \in 1 .. n : order[i] = hs[k]
  <2>1. PICK k \in 1 .. n : order[i] = hs[k]
    BY <1>1, <1>6
  <2>2. order[i][1] \in RequestKeys
    BY <1>0, <1>4, <2>1 DEF Keys
  <2>3. Encode(order[i][1]) = order[i][1]
    BY <2>2, KeysAre DEF RequestKeys, AllKeys
  <2> QED BY <1>2, <2>1, <2>2, <2>3 DEF EncodeHeader
<1>10. Distinct(es)
  <2> SUFFICES ASSUME NEW i \in 1 .. m, NEW j \in 1 .. m, es[i][1] = es[j][1] PROVE i = j
    BY <1>5 DEF Distinct
  <2>1. PICK k \in 1 .. n : order[i] = hs[k]
    BY <1>9
  <2>2. PICK l \in 1 .. n : order[j] = hs[l]
    BY <1>9
  <2>3. hs[k][1] = hs[l][1]
    BY <1>9, <2>1, <2>2
  <2>4. k = l
    BY <1>0, <1>4, <2>3 DEF Distinct
  <2> QED BY <1>1, <2>1, <2>2, <2>4
<1>11. Keys(es) \subseteq RequestKeys
  BY <1>5, <1>9 DEF Keys
<1>12. <<TimeKey, Short>> \in ToSet(es)
  <2>1. PICK i \in 1 .. m : order[i] = <<TimeKey, Short>>
    BY <1>0, <1>1, <1>6
  <2>2. Encode(TimeKey) = TimeKey /\ Encode(Short) = Short
    BY KeysAre DEF AllKeys
  <2>3. EncodeHeader(<<TimeKey, Short>>) = <<TimeKey, Short>>
    BY <2>2 DEF EncodeHeader
  <2>4. es[i] = <<TimeKey, Short>>
    BY <1>2, <2>1, <2>3
  <2> QED BY <1>7, <2>4
<1>13. es # <<>>
  <2>1. m # 0
    BY <1>0, <1>1, <1>6
  <2> QED BY <1>2, <2>1
<1>14. {Quote, Semicolon} \subseteq Plain /\ {Quote, Semicolon} \subseteq Char
  BY Letters
<1>15. ToText(es) # <<>> /\ ToText(es)[1] = Quote
  BY <1>2, <1>13, <1>14, TextOpens
<1>16. ToText(order) \in Seq(Char)
  BY <1>1, <1>14, TextLaid
<1>17. Paired(ToText(es)) /\ ToText(es) \in Seq(Plain)
  <2>1. Paired(Encode(ToText(order))) /\ Encode(ToText(order)) \in Seq(Plain)
    BY <1>16, EncodePaired, EncodeIs
  <2> QED BY <1>2, <2>1
<1>18. Usual(es)
  BY <1>10, <1>11, <1>12 DEF Usual
<1> QED BY <1>2, <1>8, <1>15, <1>17, <1>18 DEF es, hs

-----------------------------------------------------------------------------
(***************************************************************************)
(* Cut values, and the size of a frame that is labelled.                   *)
(***************************************************************************)
\* No character is cut in a text if none is cut in its parts.
LEMMA PairedText ==
    ASSUME NEW hs \in Seq(Header(Plain)), \A i \in 1 .. Len(hs) : Paired(hs[i][1]) /\ Paired(hs[i][2])
    PROVE  Paired(ToText(hs))
<1> DEFINE n == Len(hs)
<1>0. n \in Nat /\ \A i \in 1 .. n : hs[i] \in Header(Plain)
  OBVIOUS
<1>1. {Quote, Semicolon} \subseteq Plain /\ Quote # Wide2 /\ Semicolon # Wide2
  BY Letters
<1>2. PICK p \in [0 .. n -> Seq(Plain)] :
         p[0] = <<>> /\ ToText(hs) = p[n] /\ \A i \in 1 .. n : p[i] = p[i - 1] \o HeaderText(hs[i])
  BY <1>1, TextSteps
<1>3. ASSUME NEW i \in 1 .. n PROVE Paired(HeaderText(hs[i])) /\ HeaderText(hs[i]) \in Seq(Plain)
  <2> DEFINE k == hs[i][1]
             v == hs[i][2]
             a == <<Quote>>
             b == <<Quote, Quote>>
             c == <<Quote, Semicolon>>
  <2>1. k \in Seq(Plain) /\ v \in Seq(Plain) /\ Paired(k) /\ Paired(v)
    BY <1>0 DEF Header
  <2>2. a \in Seq(Plain) /\ b \in Seq(Plain) /\ c \in Seq(Plain)
    BY <1>1, OneOf
  <2>3. Paired(a) /\ Paired(b) /\ Paired(c)
    <3>1. Len(a) = 1 /\ Len(b) = 2 /\ Len(c) = 2 /\ a[1] = Quote /\ b[1] = Quote /\ b[2] = Quote /\ c[1] = Quote /\ c[2] = Semicolon
      OBVIOUS
    <3>2. (\A j \in 1 .. 1 : j = 1) /\ (\A j \in 1 .. 2 : j = 1 \/ j = 2)
      OBVIOUS
    <3> HIDE DEF a, b, c
    <3> QED BY <1>1, <3>1, <3>2 DEF Paired
  <2>4. HeaderText(hs[i]) = a \o k \o b \o v \o c
    BY DEF HeaderText
  <2> HIDE DEF a, b, c, k, v
  <2>5. a \o k \in Seq(Plain) /\ Paired(a \o k)
    BY <2>1, <2>2, <2>3, PairedJoin
  <2> DEFINE d == a \o k
  <2>d. d \in Seq(Plain) /\ Paired(d)
    BY <2>5
  <2> HIDE DEF d
  <2>6. d \o b \in Seq(Plain) /\ Paired(d \o b)
    BY <2>2, <2>3, <2>d, PairedJoin
  <2> DEFINE e == d \o b
  <2>e. e \in Seq(Plain) /\ Paired(e)
    BY <2>6
  <2> HIDE DEF e
  <2>7. e \o v \in Seq(Plain) /\ Paired(e \o v)
    BY <2>1, <2>e, PairedJoin
  <2> DEFINE f == e \o v
  <2>f. f \in Seq(Plain) /\ Paired(f)
    BY <2>7
  <2> HIDE DEF f
  <2>8. f \o c \in Seq(Plain) /\ Paired(f \o c)
    BY <2>2, <2>3, <2>f, PairedJoin
  <2> QED BY <2>4, <2>8 DEF f, e, d
<1> HIDE DEF n
<1> DEFINE P == {i \in 0 .. n : Paired(p[i])}
<1>4. 0 \in P
  <2>1. Paired(<<>>)
    BY DEF Paired
  <2> QED BY <1>0, <1>2, <2>1
<1>5. ASSUME NEW i \in 1 .. n, i - 1 \in P PROVE i \in P
  <2>1. i \in 0 .. n /\ i - 1 \in 0 .. n /\ Paired(p[i - 1]) /\ p[i - 1] \in Seq(Plain)
    BY <1>0, <1>2, <1>5
  <2> DEFINE x == p[i - 1]
             y == HeaderText(hs[i])
  <2>2. x \in Seq(Plain) /\ Paired(x) /\ y \in Seq(Plain) /\ Paired(y) /\ p[i] = x \o y
    BY <1>2, <1>3, <2>1
  <2> HIDE DEF x, y
  <2>3. Paired(x \o y)
    BY <2>2, PairedJoin
  <2> QED BY <2>1, <2>2, <2>3
<1>6. \A i \in 0 .. n : i \in P
  <2> HIDE DEF P
  <2> QED BY <1>0, <1>4, <1>5, Steps
<1> QED BY <1>0, <1>2, <1>6

\* What is left of a value.
LEMMA CutValueIs ==
    ASSUME NEW t \in Seq(Plain), Paired(t)
    PROVE  /\ CutValue(t) \in Seq(Plain) /\ Paired(CutValue(t))
           /\ Len(t) < Limit => CutValue(t) = t
<1> DEFINE n == Len(t)
           m == n % Limit
           c == SubSeq(t, 1, m)
<1>1. n \in Nat /\ Limit \in Nat /\ Limit > 0
  BY CodecAssumption
<1>2. CutValue(t) = c
  BY DEF CutValue
<1>3. m \in 0 .. Limit - 1 /\ (n < Limit => m = n)
  <2> HIDE DEF n
  <2> QED BY <1>1
<1> HIDE DEF m
<1>4. m \in 0 .. n
  <2> HIDE DEF n
  <2> QED BY <1>1, <1>3
<1>5. c \in Seq(Plain) /\ Len(c) = m /\ \A i \in 1 .. m : c[i] = t[i]
  <2>1. \A i \in 1 .. m : t[i] \in Plain
    BY <1>4
  <2> QED BY <1>4, <2>1, SubSeqProperties
<1> HIDE DEF c
<1>6. Paired(c)
  <2> SUFFICES ASSUME NEW i \in 1 .. m, c[i] = Wide2 PROVE i > 1 /\ c[i - 1] = Wide1
    BY <1>5 DEF Paired
  <2>1. i \in 1 .. n /\ t[i] = Wide2
    BY <1>4, <1>5
  <2>2. i > 1 /\ t[i - 1] = Wide1
    BY <2>1 DEF Paired
  <2>3. i - 1 \in 1 .. m
    BY <1>4, <2>2
  <2> QED BY <1>5, <2>2, <2>3
<1>7. ASSUME n < Limit PROVE c = t
  <2>1. m = n
    BY <1>3, <1>7
  <2> QED BY <1>5, <2>1, SeqEqual
<1> QED BY <1>2, <1>5, <1>6, <1>7

\* And of headers.
LEMMA CutHeadersAre ==
    ASSUME NEW es \in Seq(Header(Plain)), \A i \in 1 .. Len(es) : Paired(es[i][1]) /\ Paired(es[i][2])
    PROVE  LET cs == CutHeaders(es)
           IN /\ cs \in Seq(Header(Plain)) /\ Len(cs) = Len(es)
              /\ \A i \in 1 .. Len(es) : Paired(cs[i][1]) /\ Paired(cs[i][2])
              /\ AllClean(ToSet(es)) => cs = es
<1> DEFINE n == Len(es)
           cs == CutHeaders(es)
           c(i) == <<es[i][1], CutValue(es[i][2])>>
<1>1. n \in Nat /\ DOMAIN es = 1 .. n /\ es = [i \in 1 .. n |-> es[i]] /\ \A i \in 1 .. n : es[i] \in Header(Plain)
  OBVIOUS
<1>2. cs = [i \in 1 .. n |-> c(i)]
  BY <1>1 DEF CutHeaders
<1>3. ASSUME NEW i \in 1 .. n
      PROVE  /\ c(i) \in Header(Plain) /\ Paired(c(i)[1]) /\ Paired(c(i)[2])
             /\ AllClean(ToSet(es)) => c(i) = es[i]
  <2> DEFINE k == es[i][1]
             v == es[i][2]
  <2>1. k \in Seq(Plain) /\ v \in Seq(Plain) /\ Paired(k) /\ Paired(v) /\ es[i] = <<k, v>>
    BY <1>1 DEF Header
  <2>2. AllClean(ToSet(es)) => Len(v) < Limit
    <3>1. es[i] \in ToSet(es)
      BY <1>1 DEF ToSet
    <3> QED BY <3>1 DEF AllClean
  <2> HIDE DEF k, v
  <2>3. CutValue(v) \in Seq(Plain) /\ Paired(CutValue(v)) /\ (Len(v) < Limit => CutValue(v) = v)
    BY <2>1, CutValueIs
  <2>4. <<k, CutValue(v)>> \in Header(Plain)
    BY <2>1, <2>3 DEF Header
  <2>5. c(i) = <<k, CutValue(v)>>
    BY DEF k, v
  <2> QED BY <2>1, <2>2, <2>3, <2>4, <2>5
<1> HIDE DEF cs, c, n
<1>4. cs \in Seq(Header(Plain)) /\ Len(cs) = n /\ \A i \in 1 .. n : cs[i] = c(i)
  <2>1. cs = [i \in 1 .. n |-> cs[i]] /\ \A i \in 1 .. n : cs[i] = c(i)
    BY <1>2
  <2> DEFINE A == Header(Plain)
  <2>2. \A i \in 1 .. n : cs[i] \in A
    BY <1>3, <2>1
  <2> HIDE DEF A
  <2>3. cs \in Seq(A) /\ Len(cs) = n
    BY <1>1, <2>1, <2>2, SeqIs
  <2> QED BY <2>1, <2>3 DEF A
<1>5. ASSUME AllClean(ToSet(es)) PROVE cs = es
  <2>1. \A i \in 1 .. n : c(i) = es[i]
    BY <1>3, <1>5
  <2> QED BY <1>1, <1>2, <2>1
<1> QED BY <1>3, <1>4, <1>5 DEF n, cs

\* The size after one value has been replaced.
LEMMA SizeReplaced ==
    ASSUME NEW B, NEW hs \in Seq(Header(B)), NEW gs \in Seq(Header(B)), Len(gs) = Len(hs),
           NEW k \in 1 .. Len(hs), gs[k][1] = hs[k][1], \A i \in 1 .. Len(hs) : i # k => gs[i] = hs[i]
    PROVE  /\ SizeOf(hs) \in Nat /\ SizeOf(hs) >= Len(hs[k][2])
           /\ SizeOf(gs) = SizeOf(hs) - Len(hs[k][2]) + Len(gs[k][2])
<1> DEFINE n == Len(hs)
           x == Len(hs[k][2])
           y == Len(gs[k][2])
<1>0. /\ n \in Nat /\ \A i \in 1 .. n : Len(hs[i][1]) \in Nat /\ Len(hs[i][2]) \in Nat /\ Len(gs[i][1]) \in Nat /\ Len(gs[i][2]) \in Nat
  <2>1. n \in Nat /\ \A i \in 1 .. n : hs[i] \in Header(B) /\ gs[i] \in Header(B)
    OBVIOUS
  <2>2. \A h \in Header(B) : Len(h[1]) \in Nat /\ Len(h[2]) \in Nat
    BY DEF Header
  <2> HIDE DEF n
  <2> QED BY <2>1, <2>2
<1>1. PICK p \in [0 .. n -> Nat] :
         /\ p[0] = 0 /\ SizeOf(hs) = p[n]
         /\ \A i \in 1 .. n : p[i] = p[i - 1] + Len(hs[i][1]) + Len(hs[i][2]) + 5
  BY SizeSteps
<1>2. PICK q \in [0 .. n -> Nat] :
         /\ q[0] = 0 /\ SizeOf(gs) = q[n]
         /\ \A i \in 1 .. n : q[i] = q[i - 1] + Len(gs[i][1]) + Len(gs[i][2]) + 5
  <2>1. PICK q \in [0 .. Len(gs) -> Nat] :
           /\ q[0] = 0 /\ SizeOf(gs) = q[Len(gs)]
           /\ \A i \in 1 .. Len(gs) : q[i] = q[i - 1] + Len(gs[i][1]) + Len(gs[i][2]) + 5
    BY SizeSteps
  <2>2. Len(gs) = n
    OBVIOUS
  <2> HIDE DEF n
  <2> QED BY <2>1, <2>2
<1> HIDE DEF n
<1>k. k \in 1 .. n
  BY DEF n
<1>3. x \in Nat /\ y \in Nat
  BY <1>0, <1>k
<1> HIDE DEF x, y
<1> DEFINE P == {i \in 0 .. n : /\ i < k => q[i] = p[i]
                                /\ i >= k => p[i] >= x /\ q[i] = p[i] - x + y}
<1>4. 0 \in P
  BY <1>0, <1>1, <1>2, <1>k
<1>5. ASSUME NEW i \in 1 .. n, i - 1 \in P PROVE i \in P
  <2>1. i \in 0 .. n /\ i - 1 \in 0 .. n
    BY <1>0
  <2> DEFINE a == p[i - 1]
             b == q[i - 1]
             c == Len(hs[i][1])
             d == Len(hs[i][2])
             e == Len(gs[i][2])
  <2>2. a \in Nat /\ b \in Nat /\ c \in Nat /\ d \in Nat /\ e \in Nat
    BY <1>0, <1>1, <1>2, <2>1
  <2>3. /\ i - 1 < k => b = a
        /\ i - 1 >= k => a >= x /\ b = a - x + y
    BY <1>5
  <2>4. Len(gs[i][1]) = c
    BY DEF n
  <2>5. p[i] = a + c + d + 5 /\ q[i] = b + c + e + 5
    BY <1>1, <1>2, <2>4
  <2>6. (i # k => e = d) /\ (i = k => d = x /\ e = y)
    BY DEF n, x, y
  <2> HIDE DEF a, b, c, d, e
  <2>7. i < k => q[i] = p[i]
    BY <1>0, <1>k, <2>2, <2>3, <2>5, <2>6
  <2>8. i >= k => p[i] >= x /\ q[i] = p[i] - x + y
    <3>1. CASE i = k
      BY <1>0, <1>3, <1>k, <2>2, <2>3, <2>5, <2>6, <3>1
    <3>2. CASE i # k
      BY <1>0, <1>3, <1>k, <2>2, <2>3, <2>5, <2>6, <3>2
    <3> QED BY <3>1, <3>2
  <2> QED BY <2>1, <2>7, <2>8
<1>6. \A i \in 0 .. n : i \in P
  <2> HIDE DEF P
  <2> QED BY <1>0, <1>4, <1>5, Steps
<1>7. n \in 0 .. n /\ n >= k
  BY <1>0, <1>k
<1>8. p[n] >= x /\ q[n] = p[n] - x + y /\ p[n] \in Nat
  BY <1>1, <1>6, <1>7
<1> QED BY <1>1, <1>2, <1>8 DEF x, y

\* The size after a header has been added.
LEMMA SizeAppended ==
    ASSUME NEW B, NEW hs \in Seq(Header(B)), NEW h \in Header(B)
    PROVE  SizeOf(hs) \in Nat /\ SizeOf(Append(hs, h)) = SizeOf(hs) + Len(h[1]) + Len(h[2]) + 5
<1> DEFINE n == Len(hs)
           gs == Append(hs, h)
           H == Header(B)
<1>0. hs \in Seq(H) /\ h \in H
  OBVIOUS
<1> HIDE DEF H
<1>1. /\ gs \in Seq(H) /\ Len(gs) = n + 1 /\ n \in Nat
      /\ gs[n + 1] = h /\ \A i \in 1 .. n : gs[i] = hs[i]
  BY <1>0, AppendProperties
<1>2. PICK p \in [0 .. n -> Nat] :
         /\ p[0] = 0 /\ SizeOf(hs) = p[n]
         /\ \A i \in 1 .. n : p[i] = p[i - 1] + Len(hs[i][1]) + Len(hs[i][2]) + 5
  BY SizeSteps
<1> HIDE DEF n, gs
<1>3. PICK q \in [0 .. Len(gs) -> Nat] :
         /\ q[0] = 0 /\ SizeOf(gs) = q[Len(gs)]
         /\ \A i \in 1 .. Len(gs) : q[i] = q[i - 1] + Len(gs[i][1]) + Len(gs[i][2]) + 5
  <2>1. gs \in Seq(Header(B))
    BY <1>1 DEF H
  <2> QED BY <2>1, SizeSteps
<1> DEFINE P == {i \in 0 .. n : p[i] = q[i]}
<1>4. 0 \in P
  BY <1>1, <1>2, <1>3
<1>5. ASSUME NEW i \in 1 .. n, i - 1 \in P PROVE i \in P
  <2>1. i \in 0 .. n /\ i - 1 \in 0 .. n /\ i \in 1 .. Len(gs) /\ p[i - 1] = q[i - 1] /\ gs[i] = hs[i]
    BY <1>1, <1>5
  <2>2. p[i] = q[i]
    BY <1>2, <1>3, <2>1
  <2> QED BY <2>1, <2>2
<1>6. \A i \in 0 .. n : i \in P
  <2> HIDE DEF P
  <2> QED BY <1>1, <1>4, <1>5, Steps
<1>7. n \in 0 .. n /\ n + 1 \in 1 .. Len(gs) /\ (n + 1) - 1 = n
  BY <1>1
<1>8. p[n] = q[n] /\ p[n] \in Nat
  BY <1>2, <1>6, <1>7
<1>9. q[n + 1] = q[n] + Len(h[1]) + Len(h[2]) + 5
  BY <1>1, <1>3, <1>7
<1> QED BY <1>1, <1>2, <1>3, <1>8, <1>9 DEF gs

LEMMA SetIs ==
    ASSUME NEW H, NEW hs \in Seq(H)
    PROVE  /\ DOMAIN hs = 1 .. Len(hs) /\ Len(hs) \in Nat
           /\ \A x : x \in ToSet(hs) <=> \E i \in 1 .. Len(hs) : x = hs[i]
           /\ \A k : k \in Keys(hs) <=> \E i \in 1 .. Len(hs) : k = hs[i][1]
           /\ \A k : k \in Keys(hs) <=> \E h \in ToSet(hs) : k = h[1]
           /\ ToSet(hs) \subseteq H
<1>1. DOMAIN hs = 1 .. Len(hs) /\ Len(hs) \in Nat /\ \A i \in 1 .. Len(hs) : hs[i] \in H
  OBVIOUS
<1>2. \A x : x \in ToSet(hs) <=> \E i \in 1 .. Len(hs) : x = hs[i]
  BY <1>1 DEF ToSet
<1>3. \A k : k \in Keys(hs) <=> \E i \in 1 .. Len(hs) : k = hs[i][1]
  BY <1>1 DEF Keys
<1>4. \A k : k \in Keys(hs) <=> \E h \in ToSet(hs) : k = h[1]
  BY <1>2, <1>3
<1>5. ToSet(hs) \subseteq H
  BY <1>1, <1>2
<1> QED BY <1>1, <1>2, <1>3, <1>4, <1>5

LEMMA GoodIs ==
    ASSUME NEW k \in Seq(Plain), NEW v \in Seq(Plain), Clean(k), Clean(v), Paired(k), Paired(v)
    PROVE  <<k, v>> \in Good(Plain)
<1>1. <<k, v>> \in Header(Plain) /\ <<k, v>>[1] = k /\ <<k, v>>[2] = v
  BY DEF Header
<1> QED BY <1>1 DEF Good, CleanHeaders

\* The texts of the broker's own headers.
LEMMA OwnIs ==
    /\ \A k \in AllKeys : <<k, Short>> \in Good(Plain)
    /\ \A k \in AllKeys, h \in Good(Plain) : <<k, h[2]>> \in Good(Plain)
<1>1. \A k \in AllKeys \cup {Short} : k \in Seq(Plain) /\ Clean(k) /\ Paired(k)
  BY KeysAre
<1>2. \A h \in Good(Plain) : h[2] \in Seq(Plain) /\ Clean(h[2]) /\ Paired(h[2])
  BY DEF Good, CleanHeaders, Header
<1>3. \A k \in AllKeys : <<k, Short>> \in Good(Plain)
  BY <1>1, GoodIs
<1>4. \A k \in AllKeys, h \in Good(Plain) : <<k, h[2]>> \in Good(Plain)
  BY <1>1, <1>2, GoodIs
<1> QED BY <1>3, <1>4

-----------------------------------------------------------------------------
(***************************************************************************)
(* Labelling a frame.                                                      *)
(***************************************************************************)
Headers == Seq(Good(Plain))
Labelling == [headers : Headers, size : 0 .. Limit - 1, ok : BOOLEAN, refused : BOOLEAN]

\* The size is right as long as nothing has been refused.
Sized(f) == f \in Labelling /\ Distinct(f.headers) /\ (~f.refused => f.ok /\ f.size = SizeOf(f.headers))

\* g is f with the header h, unless something has been refused.
Gets(f, h, g) ==
    Sized(g) /\ (~g.refused => ~f.refused /\ ToSet(g.headers) = JavaPut(ToSet(f.headers), h))

LEMMA HeadersAre ==
    ASSUME NEW hs \in Headers
    PROVE  /\ hs \in Seq(Header(Plain)) /\ ToText(hs) \in Seq(Plain)
           /\ SizeOf(hs) = Len(ToText(hs)) /\ SizeOf(hs) \in Nat
<1>1. hs \in Seq(Header(Plain))
  BY Reparse DEF Headers
<1>2. {Quote, Semicolon} \subseteq Plain
  BY Letters
<1> QED BY <1>1, <1>2, SizeIsLength, TextLaid

\* The size of headers after one has been set.
LEMMA SizePut ==
    ASSUME NEW hs \in Headers, Distinct(hs), NEW h \in Good(Plain), h[1] # <<>>
    PROVE  /\ SizeOf(hs) \in Nat /\ Len(h[1]) \in Nat /\ Len(h[2]) \in Nat
           /\ h[1] \notin Keys(hs) => SizeOf(Put(hs, h)) = SizeOf(hs) + Len(h[1]) + Len(h[2]) + 5
           /\ \A k \in DOMAIN hs : hs[k][1] = h[1] =>
                 /\ Len(hs[k][2]) \in Nat /\ Len(hs[k][2]) <= SizeOf(hs)
                 /\ SizeOf(Put(hs, h)) = SizeOf(hs) - Len(hs[k][2]) + Len(h[2])
<1> DEFINE n == Len(hs)
           r == Put(hs, h)
<1>1. hs \in Seq(Header(Plain)) /\ h \in Header(Plain) /\ SizeOf(hs) \in Nat
  BY HeadersAre DEF Good, CleanHeaders
<1>2. n \in Nat /\ DOMAIN hs = 1 .. n /\ \A i \in 1 .. n : hs[i] \in Header(Plain)
  BY <1>1
<1>3. \A g \in Header(Plain) : Len(g[1]) \in Nat /\ Len(g[2]) \in Nat
  BY DEF Header
<1>4. ASSUME h[1] \notin Keys(hs) PROVE SizeOf(r) = SizeOf(hs) + Len(h[1]) + Len(h[2]) + 5
  <2>1. r = Append(hs, h)
    BY <1>4 DEF Put
  <2> QED BY <1>1, <2>1, SizeAppended
<1>5. ASSUME NEW k \in 1 .. n, hs[k][1] = h[1]
      PROVE  /\ Len(hs[k][2]) \in Nat /\ Len(hs[k][2]) <= SizeOf(hs)
             /\ SizeOf(r) = SizeOf(hs) - Len(hs[k][2]) + Len(h[2])
  <2>1. h[1] \in Keys(hs)
    BY <1>2, <1>5 DEF Keys
  <2>2. r = [i \in 1 .. n |-> IF hs[i][1] = h[1] THEN h ELSE hs[i]]
    BY <1>2, <2>1 DEF Put
  <2>3. r \in Seq(Header(Plain))
    <3> DEFINE H == Header(Plain)
    <3>1. hs \in Seq(H) /\ h \in H
      BY <1>1
    <3> HIDE DEF H, r
    <3>2. Put(hs, h) \in Seq(H)
      BY <3>1, PutIs
    <3> QED BY <3>2 DEF H, r
  <2>4. \A i \in 1 .. n : r[i] = IF hs[i][1] = h[1] THEN h ELSE hs[i]
    BY <2>2
  <2>5. DOMAIN r = 1 .. n
    BY <2>2
  <2> HIDE DEF r
  <2>6. Len(r) = n
    BY <1>2, <2>3, <2>5
  <2>7. \A i \in 1 .. n : i # k => hs[i][1] # h[1]
    BY <1>2, <1>5 DEF Distinct
  <2>8. r[k] = h /\ r[k][1] = hs[k][1] /\ \A i \in 1 .. n : i # k => r[i] = hs[i]
    BY <1>5, <2>4, <2>7
  <2>9. SizeOf(hs) >= Len(hs[k][2]) /\ SizeOf(r) = SizeOf(hs) - Len(hs[k][2]) + Len(r[k][2])
    BY <1>1, <2>3, <2>6, <2>8, SizeReplaced
  <2>10. Len(hs[k][2]) \in Nat
    BY <1>2, <1>3
  <2> QED BY <1>1, <2>8, <2>9, <2>10
<1> QED BY <1>1, <1>2, <1>3, <1>4, <1>5

\* Whether the header was there or not, the size is right if it fits.
LEMMA SetVarHeaderIs ==
    ASSUME NEW f, Sized(f), NEW h \in Good(Plain), h[1] # <<>>
    PROVE  Gets(f, h, SetVarHeader(f, h))
<1> DEFINE hs == f.headers
           known == h[1] \in Keys(hs)
           at == CHOOSE i \in DOMAIN hs : hs[i][1] = h[1]
           old == Len(hs[at][2])
           rest == IF known THEN (f.size - old) % Limit ELSE f.size + Len(h[1]) + 5
           new == Len(h[2])
           fits == rest + new < Limit
           r == Put(hs, h)
           size == IF fits THEN rest + new ELSE rest
           g == SetVarHeader(f, h)
<1>1. /\ f \in Labelling /\ hs \in Headers /\ f.size \in 0 .. Limit - 1 /\ Distinct(hs)
      /\ ~f.refused => f.ok /\ f.size = SizeOf(hs)
  BY DEF Sized, Labelling
<1>2. g = IF known \/ fits THEN [headers |-> r, size |-> size, ok |-> fits, refused |-> f.refused \/ ~fits]
                           ELSE [f EXCEPT !.ok = FALSE, !.refused = TRUE]
  BY DEF SetVarHeader
<1>3. /\ SizeOf(hs) \in Nat /\ Len(h[1]) \in Nat /\ new \in Nat
      /\ ~known => SizeOf(r) = SizeOf(hs) + Len(h[1]) + new + 5
      /\ \A k \in DOMAIN hs : hs[k][1] = h[1] =>
            /\ Len(hs[k][2]) \in Nat /\ Len(hs[k][2]) <= SizeOf(hs)
            /\ SizeOf(r) = SizeOf(hs) - Len(hs[k][2]) + new
  BY <1>1, SizePut
<1>4. known => old \in Nat /\ old <= SizeOf(hs) /\ SizeOf(r) = SizeOf(hs) - old + new
  <2> SUFFICES ASSUME known PROVE at \in DOMAIN hs /\ hs[at][1] = h[1]
    BY <1>3
  <2>1. \E i \in DOMAIN hs : hs[i][1] = h[1]
    BY DEF Keys
  <2> QED BY <2>1
<1>5. Limit \in Nat /\ Limit > 0
  BY CodecAssumption
<1>6. r \in Headers /\ Distinct(r) /\ ToSet(r) = JavaPut(ToSet(hs), h)
  <2> DEFINE H == Good(Plain)
  <2>1. hs \in Seq(H) /\ h \in H
    BY <1>1 DEF Headers
  <2> HIDE DEF H, hs
  <2>2. Put(hs, h) \in Seq(H) /\ Distinct(Put(hs, h)) /\ ToSet(Put(hs, h)) = JavaPut(ToSet(hs), h)
    BY <1>1, <2>1, PutIs
  <2> QED BY <2>2 DEF H, Headers
<1> DEFINE l == Len(h[1])
           z == SizeOf(hs)
           y == SizeOf(r)
           w == f.size
<1>7. /\ z \in Nat /\ l \in Nat /\ new \in Nat /\ w \in 0 .. Limit - 1
      /\ ~known => y = z + l + new + 5
      /\ known => old \in Nat /\ old <= z /\ y = z - old + new
      /\ rest = IF known THEN (w - old) % Limit ELSE w + l + 5
      /\ ~f.refused => w = z
  BY <1>1, <1>3, <1>4
<1> HIDE DEF known, old, new, rest, l, z, y, w, r, at, g
<1>8. /\ rest \in Nat /\ (known \/ fits => size \in 0 .. Limit - 1)
      /\ ~f.refused /\ fits => size = y
  <2>1. CASE known
    <3>1. (w - old) % Limit \in 0 .. Limit - 1 /\ (w - old \in 0 .. Limit - 1 => (w - old) % Limit = w - old)
      <4>1. w - old \in Int
        BY <1>5, <1>7, <2>1
      <4> DEFINE d == w - old
      <4> HIDE DEF d
      <4>2. d \in Int
        BY <4>1 DEF d
      <4>3. d % Limit \in 0 .. Limit - 1 /\ (d \in 0 .. Limit - 1 => d % Limit = d)
        BY <1>5, <4>2
      <4> QED BY <4>3 DEF d
    <3>2. rest \in 0 .. Limit - 1 /\ rest = (w - old) % Limit
      BY <1>7, <2>1, <3>1
    <3>3. ~f.refused => rest = z - old
      BY <1>5, <1>7, <2>1, <3>1, <3>2
    <3>4. size \in 0 .. Limit - 1 /\ rest \in Nat
      BY <1>5, <1>7, <3>2
    <3>5. ~f.refused /\ fits => size = y
      BY <1>5, <1>7, <2>1, <3>3
    <3> QED BY <3>4, <3>5
  <2>2. CASE ~known
    <3>1. rest = w + l + 5
      BY <1>7, <2>2
    <3> QED BY <1>5, <1>7, <2>2, <3>1
  <2> QED BY <2>1, <2>2
<1>9. CASE known \/ fits
  <2>1. g = [headers |-> r, size |-> size, ok |-> fits, refused |-> f.refused \/ ~fits]
    BY <1>2, <1>9
  <2> HIDE DEF fits, size
  <2>2. g.headers = r /\ g.size = size
    BY <2>1
  <2>3. g.ok = fits /\ g.refused = (f.refused \/ ~fits)
    BY <2>1
  <2>4. g \in Labelling
    <3>1. fits \in BOOLEAN /\ (f.refused \/ ~fits) \in BOOLEAN
      BY DEF fits
    <3> QED BY <1>6, <1>8, <1>9, <2>1, <3>1 DEF Labelling
  <2>5. ~g.refused => ~f.refused /\ fits
    BY <2>3
  <2>6. ~g.refused => g.ok /\ g.size = SizeOf(g.headers)
    BY <1>8, <2>2, <2>3, <2>5 DEF y
  <2>7. Gets(f, h, g)
    BY <1>6, <2>2, <2>4, <2>5, <2>6 DEF Gets, Sized
  <2> QED BY <2>7 DEF g
<1>10. CASE ~(known \/ fits)
  <2>1. g = [f EXCEPT !.ok = FALSE, !.refused = TRUE]
    BY <1>2, <1>10
  <2>2. g \in Labelling /\ g.headers = hs /\ g.refused
    BY <1>1, <2>1 DEF Labelling
  <2>3. Gets(f, h, g)
    BY <1>1, <2>2 DEF Gets, Sized
  <2> QED BY <2>3 DEF g
<1> QED BY <1>9, <1>10

LEMMA AndThenIs ==
    ASSUME NEW f, Sized(f), NEW h \in Good(Plain), h[1] # <<>>
    PROVE  Gets(f, h, AndThen(f, h))
<1>1. CASE f.ok
  <2>1. AndThen(f, h) = SetVarHeader(f, h)
    BY <1>1 DEF AndThen
  <2> QED BY <2>1, SetVarHeaderIs
<1>2. CASE ~f.ok
  <2>1. AndThen(f, h) = f
    BY <1>2 DEF AndThen
  <2>2. f.refused
    BY <1>2 DEF Sized
  <2> QED BY <2>1, <2>2 DEF Gets
<1> QED BY <1>1, <1>2

\* A subscription's tag can be written.
Sub == [tag : Seq(Char \ {Quote, Backslash, Wide}) \ {<<>>}, exact : BOOLEAN]

LEMMA TagIs ==
    ASSUME NEW sub \in Sub
    PROVE  <<TagKey, sub.tag>> \in Good(Plain)
<1> DEFINE t == sub.tag
           n == Len(t)
           C == Char \ {Quote, Backslash, Wide}
<1>1. t \in Seq(C)
  BY DEF Sub
<1>2. C \subseteq Plain /\ Quote \notin C /\ Backslash \notin C /\ Wide2 \notin C
  BY Letters
<1> HIDE DEF C, t
<1>3. t \in Seq(Plain)
  BY <1>1, <1>2, SeqMonotonic
<1>4. n \in Nat /\ DOMAIN t = 1 .. n /\ \A i \in 1 .. n : t[i] \in C
  BY <1>1
<1>5. Paired(t)
  BY <1>2, <1>4 DEF Paired
<1>6. Clean(t)
  <2>1. t # <<>> => n \in 1 .. n
    BY <1>1
  <2>2. t # <<>> => Last(t) # Backslash
    BY <1>2, <1>4, <2>1 DEF Last
  <2> QED BY <1>2, <1>4, <2>2 DEF Clean
<1>7. TagKey \in Seq(Plain) /\ Clean(TagKey) /\ Paired(TagKey)
  BY KeysAre DEF AllKeys
<1> QED BY <1>3, <1>5, <1>6, <1>7, GoodIs DEF t

\* The four labels of a message.
Marked(S, tag, topic, subscribed) ==
    JavaPut(JavaPut(JavaPut(JavaPut(S, <<TagKey, tag>>), <<OriginKey, topic>>), <<TopicKey, subscribed>>), <<FromKey, Short>>)

LEMMA LabelledIs ==
    ASSUME NEW f, Sized(f), NEW sub \in Sub, NEW topic, <<TopicKey, topic>> \in Good(Plain)
    PROVE  LET g == Labelled(f, sub, topic)
           IN /\ Sized(g)
              /\ ~g.refused => /\ ~f.refused
                              /\ ToSet(g.headers) = Marked(ToSet(f.headers), sub.tag, topic, IF sub.exact THEN topic ELSE Short)
<1> DEFINE a == <<TagKey, sub.tag>>
           b == <<OriginKey, topic>>
           s == IF sub.exact THEN topic ELSE Short
           c == <<TopicKey, s>>
           d == <<FromKey, Short>>
           f1 == SetVarHeader(f, a)
           f2 == AndThen(f1, b)
           f3 == AndThen(f2, c)
           f4 == AndThen(f3, d)
           G == Good(Plain)
<1>1. a \in G /\ a[1] # <<>>
  BY TagIs, KeysAre DEF AllKeys
<1>2. b \in G /\ b[1] # <<>>
  <2>1. <<TopicKey, topic>>[2] = topic /\ OriginKey \in AllKeys
    BY DEF AllKeys
  <2>2. <<OriginKey, <<TopicKey, topic>>[2]>> \in G
    BY <2>1, OwnIs
  <2> QED BY <2>1, <2>2, KeysAre
<1>3. c \in G /\ c[1] # <<>>
  <2>1. TopicKey \in AllKeys /\ TopicKey # <<>>
    BY KeysAre DEF AllKeys
  <2>2. <<TopicKey, Short>> \in G
    BY <2>1, OwnIs
  <2>3. s = topic \/ s = Short
    OBVIOUS
  <2> QED BY <2>1, <2>2, <2>3
<1>4. d \in G /\ d[1] # <<>>
  BY OwnIs, KeysAre DEF AllKeys
<1>5. Labelled(f, sub, topic) = f4
  BY DEF Labelled
<1>6. Marked(ToSet(f.headers), sub.tag, topic, s) = JavaPut(JavaPut(JavaPut(JavaPut(ToSet(f.headers), a), b), c), d)
  BY DEF Marked
<1> HIDE DEF a, b, c, d, s, G
<1>7. Gets(f, a, f1)
  BY <1>1, SetVarHeaderIs DEF G
<1> HIDE DEF f1
<1>8. Gets(f1, b, f2)
  BY <1>2, <1>7, AndThenIs DEF G, Gets
<1> HIDE DEF f2
<1>9. Gets(f2, c, f3)
  BY <1>3, <1>8, AndThenIs DEF G, Gets
<1> HIDE DEF f3
<1>10. Gets(f3, d, f4)
  BY <1>4, <1>9, AndThenIs DEF G, Gets
<1> HIDE DEF f4
<1>11. Sized(f4) /\ (~f4.refused => ~f.refused /\ ToSet(f4.headers) = JavaPut(JavaPut(JavaPut(JavaPut(ToSet(f.headers), a), b), c), d))
  BY <1>7, <1>8, <1>9, <1>10 DEF Gets
<1> QED BY <1>5, <1>6, <1>11 DEF s

-----------------------------------------------------------------------------
(***************************************************************************)
(* The frames that are on their way.                                       *)
(***************************************************************************)
Ops == {"PUB", "SUB", "MSG", "OK", "ERR"}

Heads == [op : Ops, size : 0 .. Limit - 1, data : {0, 1}, meant : SUBSET Header(Plain), refused : BOOLEAN]

Frame == {f \in [head : Heads, text : Seq(Plain)] : f.head.size = Len(f.text)}

\* The text of a request has the headers that are meant, if none has to be cut.
Writes(head, text, hs) == hs \in Seq(Header(Plain)) /\ text = ToText(hs) /\ ToSet(hs) = head.meant /\ Usual(hs)

Requests == {f \in Frame : AllClean(f.head.meant) => \E hs : Writes(f.head, f.text, hs)}

\* A message or a reply has headers that can be parsed again, if none was refused.
Readily(head, text) == ~head.refused => \E hs \in Headers : text = ToText(hs)

Answers == {f \in Frame : Readily(f.head, f.text)}

\* The headers the broker sets itself.
Own(op) == {TimeKey, StatusKey} \cup IF op = "MSG" THEN {TagKey, OriginKey, TopicKey, FromKey} ELSE {}

\* What is left of the headers that are meant.
Keeps(op, meant, hs) ==
    /\ Distinct(hs) /\ Keys(hs) \subseteq AllKeys /\ \A h \in meant : h[1] \in AllKeys
    /\ {h \in ToSet(hs) : h[1] \notin Own(op)} = {h \in meant : h[1] \notin Own(op)}
    /\ op = "MSG" => {h[2] : h \in {j \in ToSet(hs) : j[1] = OriginKey}}
                        = {h[2] : h \in {j \in meant : j[1] = TopicKey}}

Faithfully(head, text) ==
    ~head.refused /\ AllClean(head.meant) =>
        \E hs \in Headers : text = ToText(hs) /\ Keeps(head.op, head.meant, hs)

Faithful == {f \in Frame : Faithfully(f.head, f.text)}

LEMMA FrameIs ==
    \A f \in Frame : f.text \in Seq(Plain) /\ f.head \in Heads /\ f.head.size = Len(f.text) /\ f.head.data \in Nat
BY DEF Frame, Heads

LEMMA FramingIs == Framing(Heads, Requests) /\ Framing(Heads, Answers) /\ Framing(Heads, Faithful)
<1>1. Requests \subseteq Frame /\ Answers \subseteq Frame /\ Faithful \subseteq Frame
  BY DEF Requests, Answers, Faithful
<1> QED BY <1>1, FrameIs DEF Framing

LEMMA WholeIs ==
    ASSUME NEW H, NEW G, Framing(H, G), NEW s, Whole(s, G)
    PROVE  s.bytes \in Seq(Byte) /\ s.heads \in Seq(H)
<1>1. PICK fs \in Seq(G) : Made(s, G, fs)
  BY DEF Whole
<1>2. Spreads(G, Byte, BytesMap(G)) /\ Spreads(G, H, HeadMap(G))
  BY MapsSpread
<1>3. Spread(BytesMap(G), fs) \in Seq(Byte)
  BY <1>2, SpreadJoin
<1>4. Spread(HeadMap(G), fs) \in Seq(H)
  BY <1>2, SpreadJoin
<1> QED BY <1>1, <1>3, <1>4 DEF Made

\* A stream to the broker.
Sound(s) == s \in Stream(Heads) /\ Numbered(s) /\ Local(s.bytes)

LEMMA SoundEmpty == Sound(Empty) /\ Opens(Empty.bytes)
<1>1. Empty \in Stream(Heads) /\ Numbered(Empty)
  BY NumberedEmpty
<1>2. Empty.bytes = <<>>
  BY DEF Empty
<1>3. Local(<<>>)
  BY DEF Local
<1> QED BY <1>1, <1>2, <1>3 DEF Sound, Opens

LEMMA SoundJoin ==
    ASSUME NEW s, NEW t, Sound(s), Sound(t), Opens(t.bytes)
    PROVE  Sound(Join(s, t)) /\ (Opens(s.bytes) => Opens(Join(s, t).bytes))
<1>1. s \in Stream(Heads) /\ t \in Stream(Heads) /\ Numbered(s) /\ Numbered(t)
  BY DEF Sound
<1>2. Join(s, t) \in Stream(Heads) /\ Numbered(Join(s, t))
  BY <1>1, NumberedJoin
<1>3. s.bytes \in Seq(Byte) /\ t.bytes \in Seq(Byte) /\ Local(s.bytes) /\ Local(t.bytes)
  BY <1>1 DEF Sound, Stream
<1>4. Local(s.bytes \o t.bytes) /\ (Opens(s.bytes) => Opens(s.bytes \o t.bytes))
  BY <1>3, LocalJoin
<1>5. Join(s, t).bytes = s.bytes \o t.bytes
  BY DEF Join
<1> QED BY <1>2, <1>4, <1>5 DEF Sound

LEMMA SoundFramed ==
    ASSUME NEW head \in Heads, NEW rest \in Seq(Plain), Paired(rest), rest # <<>> => rest[1] = Quote
    PROVE  Sound(Framed(head, rest)) /\ Opens(Framed(head, rest).bytes)
<1>1. Framed(head, rest) \in Stream(Heads) /\ Numbered(Framed(head, rest))
  BY NumberedFramed
<1>2. Local(FixedBytes \o rest) /\ Opens(FixedBytes \o rest)
  BY LocalFramed
<1>3. Framed(head, rest).bytes = FixedBytes \o rest
  BY DEF Framed
<1> QED BY <1>1, <1>2, <1>3 DEF Sound

\* A text with a payload.
LEMMA WithPayload ==
    ASSUME NEW text \in Seq(Plain), Paired(text), text # <<>>, text[1] = Quote, NEW n \in Nat
    PROVE  LET rest == text \o Payload(n)
           IN rest \in Seq(Plain) /\ Paired(rest) /\ rest[1] = Quote
<1> DEFINE p == Payload(n)
           rest == text \o p
<1>1. p \in Seq(Plain) /\ Len(p) = n /\ \A i \in 1 .. n : p[i] = "a"
  BY PayloadIs
<1>2. "a" # Wide2
  BY DEF Wide2
<1>3. Paired(p)
  BY <1>1, <1>2 DEF Paired
<1> HIDE DEF p
<1>4. /\ rest \in Seq(Plain) /\ Len(text) \in Nat
      /\ \A i \in 1 .. Len(text) : rest[i] = text[i]
  BY <1>1, Joined
<1>5. 1 \in 1 .. Len(text)
  OBVIOUS
<1>6. Paired(rest)
  BY <1>1, <1>3, PairedJoin
<1>7. rest[1] = Quote
  BY <1>4, <1>5
<1> QED BY <1>4, <1>6, <1>7 DEF p

-----------------------------------------------------------------------------
(***************************************************************************)
(* The inductive invariant, and the steps of the client.                   *)
(***************************************************************************)
PlainRequests == [op : Ops \cup {"NOOP"}, headers : Headers, meant : SUBSET Header(Plain), data : {0, 1}]

Types ==
    /\ language \in {"java", "c"} /\ sent \in 0 .. MaxFrames
    /\ broker \in {"read", "handle", "deliver", "lost", "rejected", "undefined", "end"}
    /\ reader \in {"read", "dead"} /\ thrown \in BOOLEAN /\ truncated \in BOOLEAN
    /\ request \in PlainRequests /\ Distinct(request.headers)
    /\ subs \in Seq(Sub) /\ msg \in Labelling

\* On the way to the broker there may be anything between fixed headers once a
\* write has thrown or a size has not fitted, and only whole requests before.
ToBroker ==
    /\ Sound(buffer) /\ Opens(buffer.bytes) /\ Sound(wire)
    /\ ~thrown => Whole(buffer, Requests)
    /\ ~Disturbed => Whole(wire, Requests)

\* What comes back is always in whole frames.
FromBroker ==
    /\ back \in Stream(Heads) /\ Whole(back, Answers)
    /\ ~Disturbed => Whole(back, Faithful)

\* What the broker has in its hands.
Handling(r) ==
    AllClean(r.meant) =>
        ToSet(r.headers) = r.meant /\ Distinct(r.headers) /\ Keys(r.headers) \subseteq RequestKeys

\* And the message it labels.
Kept(meant, hs) ==
    /\ Keys(hs) \subseteq AllKeys /\ \A h \in meant : h[1] \in AllKeys
    /\ {h \in ToSet(hs) : h[1] \notin Own("MSG")} = {h \in meant : h[1] \notin Own("MSG")}

InHand ==
    /\ broker = "lost" => Disturbed
    /\ broker = "handle" => SizeOf(request.headers) < Limit
    /\ broker = "deliver" => Sized(msg)
    /\ ~Disturbed =>
          /\ broker = "rejected" => ~AllClean(request.meant)
          /\ broker \in {"handle", "deliver"} => Handling(request)
          /\ broker = "deliver" /\ ~msg.refused /\ AllClean(request.meant) => Kept(request.meant, msg.headers)

\* What the receiver has got.
Received(g) ==
    LET meant == {DecodeHeader(h) : h \in g.meant}
    IN /\ {h \in g.headers : h[1] \notin Own(g.op)} = {h \in meant : h[1] \notin Own(g.op)}
       /\ g.op = "MSG" => {h[2] : h \in {j \in g.headers : j[1] = OriginKey}}
                             = {h[2] : h \in {j \in meant : j[1] = TopicKey}}

InTheEnd == ~Disturbed /\ got.op # "NOOP" /\ ~got.refused /\ AllClean(got.meant) => Received(got)

\* What has ended its main loop is still the first thing on its stream.
Ended == reader = "dead" => back.heads # <<>> /\ Head(back.heads).refused

CodecInv == Types /\ ToBroker /\ FromBroker /\ InHand /\ InTheEnd /\ Ended

LEMMA Nothing == NoRequest \in PlainRequests /\ Distinct(NoRequest.headers) /\ NoFrame \in Labelling
<1>1. <<>> \in Headers
  BY DEF Headers
<1>2. Distinct(<<>>)
  BY DEF Distinct
<1>3. NoRequest \in PlainRequests /\ NoRequest.headers = <<>>
  BY <1>1 DEF NoRequest, PlainRequests
<1>4. 0 \in 0 .. Limit - 1
  BY CodecAssumption
<1>5. NoFrame \in Labelling
  BY <1>1, <1>4 DEF NoFrame, Labelling
<1> QED BY <1>2, <1>3, <1>5

LEMMA CodecInit == Init => CodecInv
<1> SUFFICES ASSUME Init PROVE CodecInv
  OBVIOUS
<1>1. Whole(Empty, Requests) /\ Whole(Empty, Answers) /\ Whole(Empty, Faithful)
  BY FramingIs, WholeEmpty
<1>2. Empty \in Stream(Heads)
  BY NumberedEmpty
<1>3. ToBroker
  BY <1>1, SoundEmpty DEF Init, ToBroker
<1>4. FromBroker
  BY <1>1, <1>2 DEF Init, FromBroker
<1>5. Types
  <2>1. NoRequest \in PlainRequests /\ Distinct(NoRequest.headers) /\ NoFrame \in Labelling
    BY Nothing
  <2>2. 0 \in 0 .. MaxFrames
    BY CodecAssumption
  <2>3. <<>> \in Seq(Sub)
    OBVIOUS
  <2> QED BY <2>1, <2>2, <2>3 DEF Init, Types
<1>6. InHand
  BY DEF Init, InHand
<1>7. InTheEnd /\ Ended
  BY DEF Init, InTheEnd, NothingGot, Ended
<1> QED BY <1>3, <1>4, <1>5, <1>6, <1>7 DEF CodecInv

\* The head of a request.
LEMMA HeadIs ==
    ASSUME NEW op \in {"PUB", "SUB"}, NEW topic \in Text, NEW n \in Nat, NEW data \in {0, 1}
    PROVE  LET head == FixedHeader(op, n, data, RequestHeaders(op, topic))
           IN /\ head \in Heads /\ head.data = data
              /\ head.meant = ToSet(EncodeHeaders(RequestHeaders(op, topic)))
              /\ n < Limit => head.size = n
<1> DEFINE hs == RequestHeaders(op, topic)
           head == FixedHeader(op, n, data, hs)
           meant == ToSet(EncodeHeaders(hs))
<1>1. hs \in Seq(Header(Char))
  BY RequestHeadersAre
<1>2. EncodeHeaders(hs) \in Seq(Header(Plain))
  BY <1>1, EncodeText
<1>3. meant \subseteq Header(Plain)
  <2> DEFINE es == EncodeHeaders(hs)
             H == Header(Plain)
  <2>1. es \in Seq(H)
    BY <1>2
  <2> HIDE DEF es, H
  <2>2. ToSet(es) \subseteq H
    BY <2>1 DEF ToSet
  <2> QED BY <2>2 DEF es, H
<1>4. Limit \in Nat /\ Limit > 0
  BY CodecAssumption
<1>5. n % Limit \in 0 .. Limit - 1 /\ (n < Limit => n % Limit = n)
  BY <1>4
<1>6. op \in Ops
  BY DEF Ops
<1>7. head = [op |-> op, size |-> n % Limit, data |-> data, meant |-> meant, refused |-> FALSE]
  BY DEF FixedHeader
<1> HIDE DEF meant, hs
<1>8. head \in Heads
  BY <1>3, <1>5, <1>6, <1>7 DEF Heads
<1> QED BY <1>5, <1>7, <1>8 DEF meant, hs

\* A request that is put on the stream.
LEMMA NewRequest ==
    ASSUME NEW op \in {"PUB", "SUB"}, NEW topic \in Text, NEW data \in {0, 1}, NEW n \in Nat, NEW text \in Seq(Plain),
           Paired(text), text # <<>>, text[1] = Quote
    PROVE  LET hs == RequestHeaders(op, topic)
               head == FixedHeader(op, n, data, hs)
               frame == Framed(head, text \o Payload(data))
           IN /\ Sound(frame) /\ Opens(frame.bytes)
              /\ n < Limit /\ n = Len(text) /\ (AllClean(head.meant) => \E es : Writes(head, text, es)) => Whole(frame, Requests)
<1> DEFINE head == FixedHeader(op, n, data, RequestHeaders(op, topic))
           rest == text \o Payload(data)
           frame == Framed(head, rest)
<1>1. head \in Heads /\ head.data = data /\ (n < Limit => head.size = n)
  BY HeadIs
<1>2. data \in Nat
  OBVIOUS
<1> HIDE DEF head
<1>3. rest \in Seq(Plain) /\ Paired(rest) /\ rest[1] = Quote
  BY <1>2, WithPayload
<1> HIDE DEF rest
<1>4. Sound(frame) /\ Opens(frame.bytes)
  BY <1>1, <1>3, SoundFramed
<1>5. ASSUME n < Limit, n = Len(text), AllClean(head.meant) => \E es : Writes(head, text, es)
      PROVE  Whole(frame, Requests)
  <2> DEFINE f == [head |-> head, text |-> text]
  <2>1. f \in [head : Heads, text : Seq(Plain)] /\ f.head = head /\ f.text = text
    BY <1>1
  <2>2. f.head.size = Len(f.text)
    BY <1>1, <1>5, <2>1
  <2> HIDE DEF f
  <2>3. f \in Requests
    BY <1>5, <2>1, <2>2 DEF Requests, Frame
  <2>4. Whole(Framed(f.head, f.text \o Payload(f.head.data)), Requests)
    BY <2>3, FramingIs, WholeFramed
  <2> QED BY <1>1, <2>1, <2>4 DEF rest
<1> QED BY <1>4, <1>5 DEF head, rest

\* The text the C client writes.
LEMMA CutRequest ==
    ASSUME NEW op \in {"PUB", "SUB"}, NEW topic \in Text
    PROVE  LET hs == RequestHeaders(op, topic)
               cs == CutHeaders(EncodeHeaders(hs))
               text == ToText(cs)
           IN /\ text \in Seq(Plain) /\ Paired(text) /\ text # <<>> /\ text[1] = Quote
              /\ SizeOf(cs) = Len(text) /\ SizeOf(cs) \in Nat
              /\ \A head : head.meant = ToSet(EncodeHeaders(hs)) /\ AllClean(head.meant) => \E es : Writes(head, text, es)
<1> DEFINE hs == RequestHeaders(op, topic)
           es == EncodeHeaders(hs)
           cs == CutHeaders(es)
           text == ToText(cs)
<1>1. hs \in Seq(Header(Char)) /\ Order(hs, hs) /\ hs # <<>>
  BY RequestHeadersAre
<1>2. es \in Seq(Header(Plain)) /\ Usual(es)
  BY <1>1, RequestText
<1>3. Len(es) = Len(hs) /\ \A i \in 1 .. Len(hs) : es[i] = <<Encode(hs[i][1]), Encode(hs[i][2])>>
  BY <1>1, EncodeText
<1> HIDE DEF hs, es
<1>4. \A i \in 1 .. Len(es) : Paired(es[i][1]) /\ Paired(es[i][2])
  <2>1. \A i \in 1 .. Len(hs) : hs[i][1] \in Seq(Char) /\ hs[i][2] \in Seq(Char)
    BY <1>1 DEF Header
  <2> QED BY <1>3, <2>1, EncodePaired
<1>5. /\ cs \in Seq(Header(Plain)) /\ Len(cs) = Len(es)
      /\ \A i \in 1 .. Len(es) : Paired(cs[i][1]) /\ Paired(cs[i][2])
      /\ AllClean(ToSet(es)) => cs = es
  BY <1>2, <1>4, CutHeadersAre
<1>6. cs # <<>>
  <2>1. Len(hs) # 0
    BY <1>1
  <2> HIDE DEF cs
  <2> QED BY <1>3, <1>5, <2>1
<1> HIDE DEF cs
<1>7. {Quote, Semicolon} \subseteq Plain
  BY Letters
<1>8. text \in Seq(Plain) /\ SizeOf(cs) = Len(text) /\ SizeOf(cs) \in Nat
  BY <1>5, <1>7, TextLaid, SizeIsLength
<1>9. text # <<>> /\ text[1] = Quote
  BY <1>5, <1>6, <1>7, TextOpens
<1>10. Paired(text)
  BY <1>5, PairedText
<1>11. ASSUME NEW head, head.meant = ToSet(es), AllClean(head.meant) PROVE \E gs : Writes(head, text, gs)
  <2>1. text = ToText(es)
    BY <1>5, <1>11
  <2>2. Writes(head, text, es)
    BY <1>2, <1>11, <2>1 DEF Writes
  <2> QED BY <2>2
<1> QED BY <1>8, <1>9, <1>10, <1>11 DEF text, cs, es, hs

\* What an action of others leaves as it is; a disturbance is for ever.
LEMMA Elsewhere ==
    ASSUME CodecInv, Disturbed => Disturbed'
    PROVE  /\ UNCHANGED <<broker, request, msg>> => InHand'
           /\ UNCHANGED back => FromBroker'
           /\ UNCHANGED <<back, reader>> => Ended'
           /\ UNCHANGED got => InTheEnd'
           /\ UNCHANGED <<buffer, wire, thrown, truncated>> => ToBroker'
           /\ UNCHANGED <<thrown, truncated>> => Disturbed' = Disturbed
<1>1. InHand /\ FromBroker /\ InTheEnd /\ ToBroker /\ Ended
  BY DEF CodecInv
<1>2. ASSUME UNCHANGED <<broker, request, msg>> PROVE InHand'
  BY <1>1, <1>2 DEF InHand, Handling, Kept, Sized
<1>3. ASSUME UNCHANGED back PROVE FromBroker'
  BY <1>1, <1>3 DEF FromBroker
<1>4. ASSUME UNCHANGED got PROVE InTheEnd'
  BY <1>1, <1>4 DEF InTheEnd, Received
<1>5. ASSUME UNCHANGED <<buffer, wire, thrown, truncated>> PROVE ToBroker'
  BY <1>1, <1>5 DEF ToBroker, Disturbed
<1>6. UNCHANGED <<thrown, truncated>> => Disturbed' = Disturbed
  BY DEF Disturbed
<1>7. ASSUME UNCHANGED <<back, reader>> PROVE Ended'
  BY <1>1, <1>7 DEF Ended
<1> QED BY <1>2, <1>3, <1>4, <1>5, <1>6, <1>7

LEMMA CSendStep ==
    ASSUME CodecInv, NEW op \in {"PUB", "SUB"}, NEW topic \in Text, NEW data \in {0, 1}, CSend(op, topic, data)
    PROVE  CodecInv'
<1> DEFINE hs == RequestHeaders(op, topic)
           cs == CutHeaders(EncodeHeaders(hs))
           n == SizeOf(cs)
           text == ToText(cs)
           head == FixedHeader(op, n, data, hs)
           frame == Framed(head, text \o Payload(data))
<1>1. /\ sent < MaxFrames /\ sent' = sent + 1 /\ wire' = IF n < Limit THEN Join(wire, frame) ELSE wire
      /\ UNCHANGED <<language, buffer, broker, request, subs, msg, back, reader, got, thrown, truncated>>
  BY DEF CSend
<1>2. Disturbed' = Disturbed
  BY <1>1 DEF Disturbed
<1>3. InHand' /\ FromBroker' /\ InTheEnd' /\ Ended'
  BY <1>1, <1>2, Elsewhere
<1>4. Types'
  <2>1. Types
    BY DEF CodecInv
  <2>2. sent' \in 0 .. MaxFrames
    BY <1>1, <2>1, CodecAssumption DEF Types
  <2> QED BY <1>1, <2>1, <2>2 DEF Types
<1>5. /\ text \in Seq(Plain) /\ Paired(text) /\ text # <<>> /\ text[1] = Quote
      /\ n = Len(text) /\ n \in Nat
      /\ \A g : g.meant = ToSet(EncodeHeaders(hs)) /\ AllClean(g.meant) => \E es : Writes(g, text, es)
  BY CutRequest
<1>6. head.meant = ToSet(EncodeHeaders(hs))
  BY <1>5, HeadIs
<1> HIDE DEF text, n
<1>7. AllClean(head.meant) => \E es : Writes(head, text, es)
  BY <1>5, <1>6
<1>8. Sound(frame) /\ Opens(frame.bytes) /\ (n < Limit => Whole(frame, Requests))
  BY <1>5, <1>7, NewRequest
<1> HIDE DEF frame
<1>9. ToBroker
  BY DEF CodecInv
<1>10. CASE n < Limit
  <2>1. wire' = Join(wire, frame)
    BY <1>1, <1>10
  <2>2. Sound(Join(wire, frame))
    BY <1>8, <1>9, SoundJoin DEF ToBroker
  <2>3. ~Disturbed => Whole(Join(wire, frame), Requests)
    BY <1>8, <1>9, <1>10, FramingIs, WholeJoin DEF ToBroker
  <2>4. ToBroker'
    BY <1>1, <1>2, <1>9, <2>1, <2>2, <2>3 DEF ToBroker
  <2> QED BY <1>3, <1>4, <2>4 DEF CodecInv
<1>11. CASE ~(n < Limit)
  <2>1. UNCHANGED wire
    BY <1>1, <1>11
  <2>2. ToBroker'
    BY <1>1, <1>2, <1>9, <2>1 DEF ToBroker
  <2> QED BY <1>3, <1>4, <2>2 DEF CodecInv
<1> QED BY <1>10, <1>11

LEMMA JavaSendStep ==
    ASSUME CodecInv, NEW op \in {"PUB", "SUB"}, NEW topic \in Text, NEW data \in {0, 1}, JavaSend(op, topic, data)
    PROVE  CodecInv'
<1> DEFINE hs == RequestHeaders(op, topic)
           n == SizeOf(hs)
           head == FixedHeader(op, n, data, hs)
           frame(order) == Framed(head, Encode(ToText(order)) \o Payload(data))
           start == Framed(head, <<>>)
<1>1. PICK order \in SetToSeqs(ToSet(hs)) :
         IF SizeRight(hs, Encode(ToText(order)))
         THEN /\ wire' = Join(wire, Join(buffer, frame(order)))
              /\ buffer' = Empty /\ thrown' = thrown
         ELSE /\ wire' = wire
              /\ buffer' = Join(buffer, start) /\ thrown' = TRUE
  BY DEF JavaSend
<1>2. /\ sent < MaxFrames /\ sent' = sent + 1 /\ truncated' = (truncated \/ n >= Limit)
      /\ UNCHANGED <<language, broker, request, subs, msg, back, reader, got>>
  BY DEF JavaSend
<1>3. Types /\ ToBroker
  BY DEF CodecInv
<1>4. hs \in Seq(Header(Char))
  BY RequestHeadersAre
<1>5. Order(order, hs)
  BY <1>1, <1>4, OrderIs
<1>6. n \in Nat
  <2>1. {Quote, Semicolon} \subseteq Char
    BY Letters
  <2> QED BY <1>4, <2>1, SizeIsLength
<1> DEFINE text == ToText(EncodeHeaders(order))
<1>7. Encode(ToText(order)) = text
  BY <1>5, RequestText
<1>8. /\ Sound(frame(order)) /\ Opens(frame(order).bytes)
      /\ n < Limit /\ n = Len(text) => Whole(frame(order), Requests)
  <2> DEFINE es == EncodeHeaders(order)
  <2>1. /\ es \in Seq(Header(Plain)) /\ Usual(es) /\ ToSet(es) = ToSet(EncodeHeaders(hs))
        /\ text \in Seq(Plain) /\ Paired(text) /\ text # <<>> /\ text[1] = Quote
    BY <1>5, RequestText
  <2>2. head.meant = ToSet(EncodeHeaders(hs))
    BY <1>6, HeadIs
  <2>3. Writes(head, text, es)
    BY <2>1, <2>2 DEF Writes
  <2> HIDE DEF text, n, es
  <2>4. LET f == Framed(head, text \o Payload(data))
        IN Sound(f) /\ Opens(f.bytes) /\ (n < Limit /\ n = Len(text) => Whole(f, Requests))
    BY <1>6, <2>1, <2>3, NewRequest
  <2> QED BY <1>7, <2>4
<1>9. Sound(start) /\ Opens(start.bytes)
  <2>1. head \in Heads
    BY <1>6, HeadIs
  <2>2. <<>> \in Seq(Plain) /\ Paired(<<>>)
    BY DEF Paired
  <2> HIDE DEF head
  <2> QED BY <2>1, <2>2, SoundFramed
<1>10. SizeRight(hs, Encode(ToText(order))) <=> n = Len(text)
  BY <1>7 DEF SizeRight
<1> DEFINE f == frame(order)
<1>11. /\ n = Len(text) => wire' = Join(wire, Join(buffer, f)) /\ buffer' = Empty /\ thrown' = thrown
       /\ n # Len(text) => wire' = wire /\ buffer' = Join(buffer, start) /\ thrown' = TRUE
  BY <1>1, <1>10
<1>12. Sound(f) /\ Opens(f.bytes) /\ (n < Limit /\ n = Len(text) => Whole(f, Requests))
  BY <1>8
<1> HIDE DEF f, start, n, hs, text
<1>13. truncated' \in BOOLEAN /\ thrown' \in BOOLEAN /\ (thrown => thrown') /\ (truncated => truncated')
  <2>1. thrown \in BOOLEAN /\ truncated \in BOOLEAN
    BY <1>3 DEF Types
  <2>2. truncated' \in BOOLEAN /\ (truncated => truncated')
    BY <1>2, <2>1, Zenon
  <2>3. thrown' = thrown \/ thrown' = TRUE
    BY <1>11, Zenon
  <2>4. thrown' \in BOOLEAN /\ (thrown => thrown')
    BY <2>1, <2>3, Zenon
  <2> QED BY <2>2, <2>4
<1>14. Disturbed => Disturbed'
  BY <1>13 DEF Disturbed
<1>15. InHand' /\ FromBroker' /\ InTheEnd' /\ Ended'
  BY <1>2, <1>14, Elsewhere
<1>16. Types'
  <2>1. sent' \in 0 .. MaxFrames
    BY <1>2, <1>3, CodecAssumption DEF Types
  <2> QED BY <1>2, <1>3, <1>13, <2>1 DEF Types
<1>17. Sound(buffer) /\ Opens(buffer.bytes) /\ Sound(wire) /\ (~thrown => Whole(buffer, Requests)) /\ (~Disturbed => Whole(wire, Requests))
  BY <1>3 DEF ToBroker
<1>18. CASE n = Len(text)
  <2> DEFINE g == Join(buffer, f)
  <2>1. Sound(g) /\ Opens(g.bytes)
    BY <1>12, <1>17, SoundJoin
  <2>2. ~thrown /\ n < Limit => Whole(g, Requests)
    BY <1>12, <1>17, <1>18, FramingIs, WholeJoin
  <2> HIDE DEF g
  <2>3. Sound(Join(wire, g))
    BY <1>17, <2>1, SoundJoin
  <2>4. ~Disturbed' => ~Disturbed /\ ~thrown /\ n < Limit
    <3>1. ~truncated' => n < Limit
      <4>1. ~truncated' => ~(n >= Limit)
        BY <1>2
      <4> QED BY <1>6, <4>1, CodecAssumption
    <3> QED BY <1>13, <1>14, <3>1 DEF Disturbed
  <2>5. ~Disturbed' => Whole(Join(wire, g), Requests)
    BY <1>17, <2>2, <2>4, FramingIs, WholeJoin
  <2>6. wire' = Join(wire, g) /\ buffer' = Empty
    BY <1>11, <1>18 DEF g
  <2>7. Sound(Empty) /\ Opens(Empty.bytes) /\ Whole(Empty, Requests)
    BY SoundEmpty, FramingIs, WholeEmpty
  <2>8. ToBroker'
    BY <2>3, <2>5, <2>6, <2>7 DEF ToBroker
  <2> QED BY <1>15, <1>16, <2>8 DEF CodecInv
<1>19. CASE n # Len(text)
  <2>1. Sound(Join(buffer, start)) /\ Opens(Join(buffer, start).bytes)
    BY <1>9, <1>17, SoundJoin DEF start
  <2>2. wire' = wire /\ buffer' = Join(buffer, start) /\ thrown'
    BY <1>11, <1>19
  <2>3. Disturbed'
    BY <2>2 DEF Disturbed
  <2>4. ToBroker'
    BY <1>17, <2>1, <2>2, <2>3 DEF ToBroker
  <2> QED BY <1>15, <1>16, <2>4 DEF CodecInv
<1> QED BY <1>18, <1>19

-----------------------------------------------------------------------------
(***************************************************************************)
(* The steps of the broker.                                                *)
(***************************************************************************)
\* What is next on an undisturbed stream.
LEMMA NextRequest ==
    ASSUME CodecInv, ~Disturbed, Len(wire.bytes) >= FixedSize
    PROVE  /\ Arrived(wire) /\ InFrame(wire) /\ Whole(Rest(wire), Requests)
           /\ AllClean(Head(wire.heads).meant) => \E hs : Writes(Head(wire.heads), TextOf(wire), hs)
<1>1. Whole(wire, Requests) /\ wire \in Stream(Heads)
  BY DEF CodecInv, ToBroker, Sound
<1>2. wire.bytes # <<>>
  BY FixedIs
<1>3. PICK f \in Requests : /\ Head(wire.heads) = f.head /\ TextOf(wire) = f.text
                            /\ Arrived(wire) /\ InFrame(wire) /\ Whole(Rest(wire), Requests)
  BY <1>1, <1>2, FramingIs, WholeNext
<1>4. AllClean(f.head.meant) => \E hs : Writes(f.head, f.text, hs)
  BY DEF Requests
<1> QED BY <1>3, <1>4

LEMMA BrokerLostStep == ASSUME CodecInv, BrokerLost PROVE CodecInv'
<1>1. /\ Len(wire.bytes) >= FixedSize /\ (AtFrame(wire) => Arrived(wire) /\ ~InFrame(wire)) /\ broker' = "lost"
      /\ UNCHANGED <<language, sent, buffer, wire, request, subs, msg, back, reader, got, thrown, truncated>>
  BY DEF BrokerLost, client
<1>2. Disturbed
  <2> SUFFICES ASSUME ~Disturbed PROVE FALSE
    OBVIOUS
  <2>1. Arrived(wire) /\ InFrame(wire)
    BY <1>1, NextRequest
  <2> QED BY <1>1, <2>1 DEF Arrived
<1>3. Disturbed'
  BY <1>1, <1>2 DEF Disturbed
<1>4. FromBroker' /\ InTheEnd' /\ ToBroker' /\ Ended'
  BY <1>1, <1>3, Elsewhere
<1>5. Types'
  BY <1>1 DEF CodecInv, Types
<1>6. InHand'
  <2>1. broker' \notin {"handle", "deliver"}
    BY <1>1
  <2> QED BY <1>3, <2>1 DEF InHand
<1> QED BY <1>4, <1>5, <1>6 DEF CodecInv

\* A text that is cut out has clean headers, in step or not.
LEMMA NextText ==
    ASSUME CodecInv, Arrived(wire), InFrame(wire)
    PROVE  /\ Head(wire.heads) \in Heads /\ TextOf(wire) \in Seq(Plain) /\ Scan(TextOf(wire)).headers \in Seq(Good(Plain))
           /\ Sound(Rest(wire))
<1> DEFINE b == wire.bytes
           h == Head(wire.heads)
           n == h.size
           d == h.data
           text == TextOf(wire)
<1>1. wire \in Stream(Heads) /\ Numbered(wire) /\ Local(b)
  BY DEF CodecInv, ToBroker, Sound
<1>2. Len(b) >= FixedSize /\ AtFrame(wire) /\ Len(b) >= FixedSize + n + d
  BY DEF Arrived
<1>3. /\ h \in Heads
      /\ \A k \in 8 .. Len(b) : Cut(wire, k) \in Stream(Heads) /\ Numbered(Cut(wire, k))
  BY <1>1, <1>2, NumberedCut
<1>4. n \in Nat /\ d \in Nat
  <2>1. n \in 0 .. Limit - 1 /\ d \in {0, 1}
    BY <1>3 DEF Heads
  <2> QED BY <2>1, CodecAssumption
<1>5. b \in Seq(Byte) /\ Len(b) \in Nat
  BY <1>1 DEF Stream
<1>6. FixedSize = 8
  BY FixedIs
<1>7. text = SubSeq(b, 8 + 1, 8 + n) /\ ToSet(text) \cap ToSet(FixedBytes) = {} /\ SubSeq(b, 1, FixedSize) = FixedBytes
  BY <1>2, <1>6 DEF TextOf, InFrame, AtFrame
<1>8. Rest(wire) = Cut(wire, 8 + n + d)
  BY <1>6 DEF Rest, Cut
<1> HIDE DEF text, n, d, h, b
<1>9. 8 + n <= Len(b) /\ 8 + n + d \in 8 .. Len(b) /\ 8 + n + d \in 0 .. Len(b)
  BY <1>2, <1>4, <1>5, <1>6
<1>10. text \in Seq(Plain) /\ Paired(text) /\ (text # <<>> => text[1] = Quote)
  BY <1>1, <1>2, <1>4, <1>5, <1>7, <1>9, TextCut
<1>11. Scan(text).headers \in Seq(Good(Plain))
  BY <1>10, CleanScan
<1> DEFINE k == 8 + n + d
<1>12. Cut(wire, k) \in Stream(Heads) /\ Numbered(Cut(wire, k))
  BY <1>3, <1>9
<1>13. Cut(wire, k).bytes = SubSeq(b, k + 1, Len(b))
  BY DEF Cut, b
<1>14. k \in 0 .. Len(b)
  BY <1>9
<1> HIDE DEF k
<1>15. Local(SubSeq(b, k + 1, Len(b)))
  BY <1>1, <1>5, <1>14, LocalCut
<1>16. Sound(Cut(wire, k))
  BY <1>12, <1>13, <1>15 DEF Sound
<1> QED BY <1>3, <1>8, <1>10, <1>11, <1>16 DEF text, h, k

LEMMA TimeIs ==
    /\ <<TimeKey, Short>> \in Good(Plain) /\ <<TimeKey, Short>>[1] = TimeKey
    /\ TimeKey # <<>>
<1>1. TimeKey \in AllKeys \cup {Short} /\ Short \in AllKeys \cup {Short}
  BY DEF AllKeys
<1>2. /\ TimeKey \in Seq(Plain) /\ Clean(TimeKey) /\ Paired(TimeKey) /\ TimeKey # <<>>
      /\ Short \in Seq(Plain) /\ Clean(Short) /\ Paired(Short)
  BY <1>1, KeysAre
<1> QED BY <1>2, GoodIs

\* A frame of clean headers is parsed to what it was built with.
LEMMA CleanRequest ==
    ASSUME NEW head, NEW text, NEW hs, Writes(head, text, hs), AllClean(head.meant)
    PROVE  LET r == Build(ParseVarHeader(text))
           IN /\ Scan(text) = Reading(<<>>, hs)
              /\ ToSet(r) = head.meant /\ Distinct(r) /\ Keys(r) \subseteq RequestKeys
<1> DEFINE H == Header(Plain)
           p == ParseVarHeader(text)
           r == Build(p)
           t == <<TimeKey, Short>>
           S == ToSet(hs)
<1>1. /\ hs \in Seq(H) /\ text = ToText(hs) /\ S = head.meant
      /\ Distinct(hs) /\ Keys(hs) \subseteq RequestKeys /\ t \in S
  BY DEF Writes, Usual
<1>2. hs \in Seq(CleanHeaders(Plain))
  <2>1. \A i \in 1 .. Len(hs) : hs[i] \in S /\ hs[i] \in H
    BY <1>1, SetIs
  <2>2. \A i \in 1 .. Len(hs) : hs[i] \in CleanHeaders(Plain)
    BY <1>1, <2>1 DEF AllClean, CleanHeaders
  <2>3. hs = [i \in 1 .. Len(hs) |-> hs[i]] /\ Len(hs) \in Nat
    BY <1>1
  <2> HIDE DEF H
  <2> QED BY <2>2, <2>3, SeqIs
<1>3. Scan(text) = Reading(<<>>, hs)
  <2>1. {Quote, Semicolon} \subseteq Plain
    BY Letters
  <2> QED BY <1>1, <1>2, <2>1, RoundTrip
<1>4. p = PutAll(<<>>, hs)
  BY <1>3, StateHas DEF ParseVarHeader
<1>5. Named(hs) /\ Distinct(<<>>) /\ <<>> \in Seq(H)
  <2>1. \A i \in 1 .. Len(hs) : hs[i][1] \in RequestKeys
    BY <1>1, SetIs
  <2>2. \A k \in RequestKeys : k # <<>>
    BY KeysAre DEF RequestKeys, AllKeys
  <2>3. DOMAIN hs = 1 .. Len(hs)
    BY <1>1
  <2>4. Named(hs)
    BY <2>1, <2>2, <2>3 DEF Named
  <2>5. Distinct(<<>>)
    BY DEF Distinct
  <2> QED BY <2>4, <2>5
<1>6. t \in H
  BY TimeIs DEF Good, CleanHeaders
<1>7. Distinct(p) /\ ToSet(p) = {g \in ToSet(<<>>) : g[1] \notin Keys(hs)} \cup ToSet(hs) /\ p \in Seq(H)
  <2> HIDE DEF H
  <2>1. PutAll(<<>>, hs) \in Seq(H)
    BY <1>1, <1>5, PutAllIn
  <2> DEFINE e == <<>>
  <2>2. e \in Seq(H) /\ Distinct(e)
    BY <1>5
  <2> HIDE DEF e
  <2>3. /\ Distinct(PutAll(e, hs))
        /\ ToSet(PutAll(e, hs)) = {g \in ToSet(e) : g[1] \notin Keys(hs)} \cup ToSet(hs)
    <3>1. hs \in Seq(H) /\ Distinct(hs) /\ Named(hs)
      BY <1>1, <1>5
    <3> QED BY <2>2, <3>1, PutAllIs
  <2> QED BY <1>4, <2>1, <2>3 DEF e
<1>8. ToSet(p) = S
  <2>1. ToSet(<<>>) = {}
    BY DEF ToSet
  <2> QED BY <1>7, <2>1
<1> HIDE DEF H, p, t
<1>9. r = Put(p, t)
  BY DEF Build, t
<1>10. t[1] = TimeKey /\ t[1] # <<>>
  BY TimeIs DEF t
<1>11. Put(p, t) \in Seq(H) /\ Distinct(Put(p, t)) /\ ToSet(Put(p, t)) = JavaPut(ToSet(p), t)
  BY <1>6, <1>7, <1>10, PutIs
<1>12. \A x \in S : x[1] = t[1] => x = t
  <2>1. \A x : x \in S <=> \E i \in 1 .. Len(hs) : x = hs[i]
    BY <1>1, SetIs
  <2>2. DOMAIN hs = 1 .. Len(hs)
    BY <1>1
  <2> QED BY <1>1, <2>1, <2>2 DEF Distinct
<1>13. JavaPut(S, t) = S
  BY <1>1, <1>12 DEF JavaPut
<1>14. ToSet(r) = S /\ Distinct(r) /\ r \in Seq(H)
  BY <1>8, <1>9, <1>11, <1>13
<1> HIDE DEF r, S
<1>15. Keys(r) \subseteq RequestKeys
  <2>1. /\ \A k : k \in Keys(r) <=> \E h \in ToSet(r) : k = h[1]
    BY <1>14, SetIs
  <2>2. /\ \A k : k \in Keys(hs) <=> \E h \in ToSet(hs) : k = h[1]
    BY <1>1, SetIs
  <2> QED BY <1>1, <1>14, <2>1, <2>2 DEF S
<1> QED BY <1>1, <1>3, <1>14, <1>15 DEF r, p

LEMMA PutAllDistinct ==
    ASSUME NEW H, NEW more \in Seq(H)
    PROVE  Distinct(PutAll(<<>>, more))
<1> DEFINE A == {hs \in Seq(H) : Distinct(hs)}
<1>1. <<>> \in A /\ \A a \in A, h \in H : Put(a, h) \in A
  <2>1. Distinct(<<>>)
    BY DEF Distinct
  <2> QED BY <2>1, PutIs
<1>2. Len(more) \in 0 .. Len(more)
  OBVIOUS
<1>3. PutAll(<<>>, more) \in A
  <2> HIDE DEF A
  <2>1. \E p : Puts(A, <<>>, more, p) /\ PutAll(<<>>, more) = p[Len(more)]
    BY <1>1, PutAllSteps
  <2> QED BY <1>2, <2>1 DEF Puts
<1> QED BY <1>3

LEMMA BrokerRecvStep == ASSUME CodecInv, BrokerRecv PROVE CodecInv'
<1> DEFINE text == TextOf(wire)
           head == Head(wire.heads)
           r == Build(ParseVarHeader(text))
<1>1. /\ Arrived(wire) /\ InFrame(wire)
      /\ request' = [op |-> head.op, headers |-> r, meant |-> head.meant, data |-> head.data]
      /\ broker' \in {"undefined", "handle", "end"} /\ (broker' = "handle" => SizeOf(r) < Limit)
      /\ wire' = Rest(wire)
      /\ UNCHANGED <<language, sent, buffer, subs, msg, back, reader, got, thrown, truncated>>
  BY DEF BrokerRecv, client
<1>2. Disturbed' = Disturbed
  BY <1>1 DEF Disturbed
<1>3. FromBroker' /\ InTheEnd' /\ Ended'
  BY <1>1, <1>2, Elsewhere
<1>4. head \in Heads /\ Scan(text).headers \in Seq(Good(Plain)) /\ Sound(Rest(wire))
  BY <1>1, NextText
<1>5. r \in Headers /\ Distinct(r)
  <2> DEFINE A == Good(Plain)
             hs == Scan(text).headers
             t == <<TimeKey, Short>>
  <2>1. <<>> \in Seq(A) /\ hs \in Seq(A) /\ t \in A
    BY <1>4, TimeIs
  <2>2. r = Put(PutAll(<<>>, hs), t)
    BY DEF Build, ParseVarHeader
  <2> HIDE DEF A, hs, t
  <2>3. PutAll(<<>>, hs) \in Seq(A) /\ Distinct(PutAll(<<>>, hs))
    BY <2>1, PutAllIn, PutAllDistinct
  <2>4. Put(PutAll(<<>>, hs), t) \in Seq(A) /\ Distinct(Put(PutAll(<<>>, hs), t))
    BY <2>1, <2>3, PutIs
  <2> QED BY <2>2, <2>4 DEF A, Headers
<1> HIDE DEF r, text
<1>6. request' \in PlainRequests /\ Distinct(request'.headers)
  <2>1. head.op \in Ops \cup {"NOOP"} /\ head.meant \in SUBSET Header(Plain) /\ head.data \in {0, 1}
    BY <1>4 DEF Heads
  <2> HIDE DEF head
  <2> QED BY <1>1, <1>5, <2>1 DEF PlainRequests
<1>7. Types'
  <2>1. Types
    BY DEF CodecInv
  <2> QED BY <1>1, <1>6, <2>1 DEF Types
<1>8. ASSUME ~Disturbed
      PROVE  Whole(Rest(wire), Requests) /\ (AllClean(head.meant) => \E hs : Writes(head, text, hs))
  <2>1. Len(wire.bytes) >= FixedSize
    BY <1>1 DEF Arrived
  <2> QED BY <1>8, <2>1, NextRequest DEF text
<1>9. ToBroker'
  <2>1. ToBroker
    BY DEF CodecInv
  <2> QED BY <1>1, <1>2, <1>4, <1>8, <2>1 DEF ToBroker
<1>10. ASSUME ~Disturbed PROVE Handling(request')
  <2> SUFFICES ASSUME AllClean(request'.meant)
               PROVE  ToSet(request'.headers) = request'.meant /\ Distinct(request'.headers)
                      /\ Keys(request'.headers) \subseteq RequestKeys
    BY DEF Handling
  <2>1. request'.meant = head.meant /\ request'.headers = r
    BY <1>1
  <2>3. AllClean(head.meant)
    BY <2>1
  <2>2. PICK hs : Writes(head, text, hs)
    BY <1>8, <1>10, <2>3
  <2>4. ToSet(r) = head.meant /\ Distinct(r) /\ Keys(r) \subseteq RequestKeys
    BY <2>2, <2>3, CleanRequest DEF r
  <2> QED BY <2>1, <2>4
<1>11. InHand'
  <2>1. broker' # "lost" /\ broker' # "rejected" /\ broker' # "deliver"
    BY <1>1
  <2>2. broker' = "handle" => SizeOf(request'.headers) < Limit
    BY <1>1
  <2> QED BY <1>2, <1>10, <2>1, <2>2 DEF InHand
<1> QED BY <1>3, <1>7, <1>9, <1>11 DEF CodecInv

LEMMA BrokerRejectStep == ASSUME CodecInv, BrokerReject PROVE CodecInv'
<1> DEFINE text == TextOf(wire)
           head == Head(wire.heads)
<1>1. /\ Arrived(wire) /\ InFrame(wire) /\ Partial(Scan(text))
      /\ request' = [NoRequest EXCEPT !.meant = head.meant] /\ broker' = "rejected"
      /\ UNCHANGED <<language, sent, buffer, wire, subs, msg, back, reader, got, thrown, truncated>>
  BY DEF BrokerReject, client
<1>2. Disturbed' = Disturbed
  BY <1>1 DEF Disturbed
<1>3. FromBroker' /\ InTheEnd' /\ ToBroker' /\ Ended'
  BY <1>1, <1>2, Elsewhere
<1>4. head \in Heads
  BY <1>1, NextText
<1>5. request' = [op |-> "NOOP", headers |-> <<>>, meant |-> head.meant, data |-> 0]
  BY <1>1 DEF NoRequest
<1>6. request' \in PlainRequests /\ Distinct(request'.headers)
  <2>1. head.meant \in SUBSET Header(Plain) /\ <<>> \in Headers /\ Distinct(<<>>)
    BY <1>4 DEF Heads, Headers, Distinct
  <2> QED BY <1>5, <2>1 DEF PlainRequests
<1>7. Types'
  BY <1>1, <1>6 DEF CodecInv, Types
<1>8. ASSUME ~Disturbed PROVE ~AllClean(request'.meant)
  <2> SUFFICES ASSUME AllClean(head.meant) PROVE FALSE
    BY <1>5
  <2>1. Len(wire.bytes) >= FixedSize
    BY <1>1 DEF Arrived
  <2>2. PICK hs : Writes(head, text, hs)
    BY <1>8, <2>1, NextRequest
  <2>3. Scan(text) = Reading(<<>>, hs)
    BY <2>2, CleanRequest
  <2>4. Scan(text).marks = <<>>
    BY <2>3, StateHas
  <2> QED BY <1>1, <2>4 DEF Partial
<1>9. InHand'
  BY <1>1, <1>2, <1>8 DEF InHand
<1> QED BY <1>3, <1>7, <1>9 DEF CodecInv

\* A frame that is sent back.
LEMMA NewAnswer ==
    ASSUME NEW head \in Heads, NEW text \in Seq(Plain), head.size = Len(text)
    PROVE  LET s == Framed(head, text \o Payload(head.data))
           IN /\ s \in Stream(Heads)
              /\ Readily(head, text) => Whole(s, Answers)
              /\ Faithfully(head, text) => Whole(s, Faithful)
<1> DEFINE p == Payload(head.data)
           rest == text \o p
           s == Framed(head, rest)
           f == [head |-> head, text |-> text]
<1>1. f \in [head : Heads, text : Seq(Plain)] /\ f.head = head /\ f.text = text
  OBVIOUS
<1>2. head.data \in Nat
  BY DEF Heads
<1>3. p \in Seq(Plain)
  BY <1>2, PayloadIs
<1> HIDE DEF f
<1>4. f \in Frame
  BY <1>1 DEF Frame
<1>5. s = Framed(f.head, f.text \o Payload(f.head.data))
  BY <1>1
<1> HIDE DEF p
<1>6. rest \in Seq(Plain)
  BY <1>3, Joined
<1> HIDE DEF rest
<1>7. s \in Stream(Heads)
  BY <1>6, NumberedFramed
<1> HIDE DEF s
<1>8. ASSUME Readily(head, text) PROVE Whole(s, Answers)
  <2>1. f \in Answers
    BY <1>1, <1>4, <1>8 DEF Answers
  <2> QED BY <1>5, <2>1, FramingIs, WholeFramed
<1>9. ASSUME Faithfully(head, text) PROVE Whole(s, Faithful)
  <2>1. f \in Faithful
    BY <1>1, <1>4, <1>9 DEF Faithful
  <2> QED BY <1>5, <2>1, FramingIs, WholeFramed
<1> QED BY <1>7, <1>8, <1>9 DEF s, rest, p

\* A stream the broker may add to what is on its way back.
Answering(s) == s \in Stream(Heads) /\ Whole(s, Answers) /\ (~Disturbed => Whole(s, Faithful))

LEMMA AnswerEmpty == Answering(Empty)
BY NumberedEmpty, FramingIs, WholeEmpty DEF Answering

\* A status keeps the other headers.
LEMMA ReplyKeeps ==
    ASSUME NEW hs \in Headers, Distinct(hs), NEW M, ToSet(hs) = JavaPut(M, <<StatusKey, Short>>),
           \A h \in M : h[1] \in RequestKeys, NEW op \in {"OK", "ERR"}
    PROVE  Keeps(op, M, hs)
<1> DEFINE a == <<StatusKey, Short>>
           S == ToSet(hs)
<1>1. a[1] = StatusKey /\ StatusKey \in Own(op) /\ StatusKey \in AllKeys /\ RequestKeys \subseteq AllKeys /\ op # "MSG"
  BY DEF Own, AllKeys, RequestKeys
<1>2. \A x : x \in S <=> (x \in M /\ x[1] # StatusKey) \/ x = a
  BY <1>1 DEF JavaPut
<1>3. \A k : k \in Keys(hs) <=> \E h \in S : k = h[1]
  BY SetIs DEF Headers
<1> HIDE DEF a, S
<1>4. Keys(hs) \subseteq AllKeys /\ \A h \in M : h[1] \in AllKeys
  BY <1>1, <1>2, <1>3
<1>5. \A x : x \in {h \in S : h[1] \notin Own(op)} <=> x \in {h \in M : h[1] \notin Own(op)}
  BY <1>1, <1>2
<1>6. {h \in S : h[1] \notin Own(op)} = {h \in M : h[1] \notin Own(op)}
  BY <1>5
<1> QED BY <1>1, <1>4, <1>6 DEF Keeps, S

LEMMA ReplyIs ==
    ASSUME request \in PlainRequests, Distinct(request.headers), ~Disturbed => Handling(request), NEW op \in {"OK", "ERR"}
    PROVE  Answering(Reply(op))
<1> DEFINE a == <<StatusKey, Short>>
           base == request.headers
           hs == Put(base, a)
           n == SizeOf(hs)
           text == ToText(hs)
           head == [op |-> op, size |-> n, data |-> 1, meant |-> request.meant, refused |-> FALSE]
           s == Framed(head, text \o Payload(1))
<1>1. base \in Headers /\ request.meant \in SUBSET Header(Plain)
  BY DEF PlainRequests
<1>2. a \in Good(Plain) /\ a[1] # <<>>
  BY OwnIs, KeysAre DEF AllKeys
<1>3. hs \in Headers /\ Distinct(hs) /\ ToSet(hs) = JavaPut(ToSet(base), a)
  <2> DEFINE H == Good(Plain)
  <2>1. base \in Seq(H) /\ a \in H
    BY <1>1, <1>2 DEF Headers
  <2> HIDE DEF H, base, a
  <2>2. Put(base, a) \in Seq(H) /\ Distinct(Put(base, a)) /\ ToSet(Put(base, a)) = JavaPut(ToSet(base), a)
    BY <1>2, <2>1, PutIs DEF base
  <2> QED BY <2>2 DEF H, Headers
<1>4. Reply(op) = IF n < Limit THEN s ELSE Empty
  BY DEF Reply
<1> HIDE DEF hs
<1>5. n = Len(text) /\ n \in Nat /\ text \in Seq(Plain)
  BY <1>3, HeadersAre
<1>6. CASE ~(n < Limit)
  BY <1>4, <1>6, AnswerEmpty
<1>7. CASE n < Limit
  <2>1. n \in 0 .. Limit - 1 /\ op \in Ops
    BY <1>5, <1>7, CodecAssumption DEF Ops
  <2> HIDE DEF n, text
  <2>2. head \in Heads /\ head.size = n /\ head.data = 1 /\ head.op = op /\ head.meant = request.meant
    BY <1>1, <2>1 DEF Heads
  <2> HIDE DEF head
  <2>3. Readily(head, text)
    BY <1>3 DEF Readily, text
  <2>4. ASSUME ~Disturbed PROVE Faithfully(head, text)
    <3> SUFFICES ASSUME AllClean(request.meant) PROVE Keeps(op, request.meant, hs)
      BY <1>3, <2>2 DEF Faithfully, text
    <3>1. ToSet(base) = request.meant /\ Keys(base) \subseteq RequestKeys
      BY <2>4 DEF Handling
    <3>2. \A h \in ToSet(base) : h[1] \in RequestKeys
      <4>1. \A k : k \in Keys(base) <=> \E h \in ToSet(base) : k = h[1]
        BY <1>1, SetIs DEF Headers
      <4> QED BY <3>1, <4>1
    <3> QED BY <1>3, <3>1, <3>2, ReplyKeeps
  <2>5. /\ s \in Stream(Heads)
        /\ Readily(head, text) => Whole(s, Answers)
        /\ Faithfully(head, text) => Whole(s, Faithful)
    <3>1. head.size = Len(text)
      BY <1>5, <2>2
    <3> QED BY <1>5, <2>2, <3>1, NewAnswer
  <2>6. Reply(op) = s
    BY <1>4, <1>7
  <2> QED BY <2>3, <2>4, <2>5, <2>6 DEF Answering
<1> QED BY <1>6, <1>7

\* The labels keep the other headers.
Relabels(S, T, topic) ==
    /\ \A h \in T : h[1] \in AllKeys
    /\ {h \in T : h[1] \notin Own("MSG")} = {h \in S : h[1] \notin Own("MSG")}
    /\ {h[2] : h \in {j \in T : j[1] = OriginKey}} = {topic}

LEMMA MarkedKeeps ==
    ASSUME NEW S, \A h \in S : h[1] \in AllKeys, NEW tag, NEW topic, NEW subscribed
    PROVE  Relabels(S, Marked(S, tag, topic, subscribed), topic)
<1> DEFINE a == <<TagKey, tag>>
           b == <<OriginKey, topic>>
           c == <<TopicKey, subscribed>>
           d == <<FromKey, Short>>
           T == Marked(S, tag, topic, subscribed)
           O == Own("MSG")
<1>1. a[1] = TagKey /\ b[1] = OriginKey /\ b[2] = topic /\ c[1] = TopicKey /\ d[1] = FromKey
  OBVIOUS
<1>2. T = JavaPut(JavaPut(JavaPut(JavaPut(S, a), b), c), d)
  BY DEF Marked
<1> HIDE DEF a, b, c, d, T
<1>3. \A X, h, x : x \in JavaPut(X, h) <=> (x \in X /\ x[1] # h[1]) \/ x = h
  BY DEF JavaPut
<1>4. /\ TopicKey \notin {TagKey, OriginKey, FromKey} /\ TagKey \notin {OriginKey, FromKey} /\ OriginKey # FromKey
  BY KeysAre
<1>5. \A x : x \in T <=> \/ x \in S /\ x[1] \notin {TagKey, OriginKey, TopicKey, FromKey}
                         \/ x \in {a, b, c, d}
  <2> DEFINE S1 == JavaPut(S, a)
             S2 == JavaPut(S1, b)
             S3 == JavaPut(S2, c)
  <2>1. \A x : x \in S1 <=> (x \in S /\ x[1] # TagKey) \/ x = a
    BY <1>1, <1>3
  <2> HIDE DEF S1
  <2>2. \A x : x \in S2 <=> (x \in S1 /\ x[1] # OriginKey) \/ x = b
    BY <1>1, <1>3
  <2> HIDE DEF S2
  <2>3. \A x : x \in S3 <=> (x \in S2 /\ x[1] # TopicKey) \/ x = c
    BY <1>1, <1>3
  <2> HIDE DEF S3
  <2>4. \A x : x \in T <=> (x \in S3 /\ x[1] # FromKey) \/ x = d
    BY <1>1, <1>2, <1>3 DEF S3, S2, S1
  <2> QED BY <1>1, <1>4, <2>1, <2>2, <2>3, <2>4
<1>6. {TagKey, OriginKey, TopicKey, FromKey} \subseteq O /\ {TagKey, OriginKey, TopicKey, FromKey} \subseteq AllKeys
  BY DEF Own, AllKeys
<1> HIDE DEF O
<1>7. \A h \in T : h[1] \in AllKeys
  BY <1>1, <1>5, <1>6
<1>8. \A x : x \in {h \in T : h[1] \notin O} <=> x \in {h \in S : h[1] \notin O}
  BY <1>1, <1>5, <1>6
<1>9. {h \in T : h[1] \notin O} = {h \in S : h[1] \notin O}
  BY <1>8
<1>10. {j \in T : j[1] = OriginKey} = {b}
  BY <1>1, <1>4, <1>5
<1>11. {h[2] : h \in {j \in T : j[1] = OriginKey}} = {topic}
  BY <1>1, <1>10
<1> QED BY <1>7, <1>9, <1>11 DEF T, O, Relabels

\* A message is a whole frame, and if nothing was refused, its headers are in it.
LEMMA MessageIs ==
    ASSUME request \in PlainRequests, NEW g, Sized(g), NEW fill \in {Quote, "a"},
           ~Disturbed /\ ~g.refused /\ AllClean(request.meant) => Keeps("MSG", request.meant, g.headers)
    PROVE  Answering(Message(g, fill))
<1> DEFINE hs == g.headers
           text == ToText(hs)
           n == g.size
           b == Buffer(g, fill)
           head == [op |-> "MSG", size |-> n, data |-> request.data, meant |-> request.meant, refused |-> g.refused]
<1>1. /\ hs \in Headers /\ n \in 0 .. Limit - 1 /\ g.refused \in BOOLEAN
      /\ ~g.refused => n = SizeOf(hs)
  BY DEF Sized, Labelling
<1>2. text \in Seq(Plain) /\ SizeOf(hs) = Len(text)
  BY <1>1, HeadersAre
<1>3. request.data \in {0, 1} /\ request.meant \in SUBSET Header(Plain)
  BY DEF PlainRequests
<1>4. fill \in Plain
  BY DEF Plain, Byte, Char, Wide, Quote, Fixed, LastFixed
<1>5. n \in Nat /\ n < Limit
  BY <1>1, CodecAssumption
<1>6. b = [i \in 1 .. n |-> IF i <= Len(text) /\ Len(text) < Limit THEN text[i] ELSE fill]
  BY DEF Buffer
<1>7. Message(g, fill) = Framed(head, b \o Payload(request.data))
  BY DEF Message
<1>8. head \in Heads /\ head.size = n /\ head.data = request.data /\ head.op = "MSG" /\ head.meant = request.meant
  <2> HIDE DEF n
  <2> QED BY <1>1, <1>3 DEF Heads, Ops
<1>9. head.refused = g.refused
  OBVIOUS
<1> HIDE DEF head, n, hs, text, b
<1>10. b \in Seq(Plain) /\ Len(b) = n /\ \A i \in 1 .. n : b[i] = IF i <= Len(text) /\ Len(text) < Limit THEN text[i] ELSE fill
  <2>1. \A i \in 1 .. n : b[i] = IF i <= Len(text) /\ Len(text) < Limit THEN text[i] ELSE fill
    BY <1>6
  <2>2. \A i \in 1 .. n : i <= Len(text) => text[i] \in Plain
    BY <1>2, <1>5
  <2>3. \A i \in 1 .. n : b[i] \in Plain
    BY <1>4, <2>1, <2>2
  <2>4. b = [i \in 1 .. n |-> b[i]]
    BY <1>6
  <2> QED BY <1>5, <2>1, <2>3, <2>4, SeqIs
<1>11. ~g.refused => b = text
  <2> SUFFICES ASSUME ~g.refused PROVE b = text
    OBVIOUS
  <2>1. Len(text) = n
    BY <1>1, <1>2
  <2>2. \A i \in 1 .. n : b[i] = text[i]
    BY <1>5, <1>10, <2>1
  <2> QED BY <1>2, <1>10, <2>1, <2>2, SeqEqual
<1>12. Readily(head, b)
  BY <1>1, <1>9, <1>11 DEF Readily, text
<1>13. ~Disturbed => Faithfully(head, b)
  BY <1>1, <1>8, <1>9, <1>11 DEF Faithfully, text, hs
<1>14. LET s == Framed(head, b \o Payload(head.data))
       IN /\ s \in Stream(Heads)
          /\ Readily(head, b) => Whole(s, Answers)
          /\ Faithfully(head, b) => Whole(s, Faithful)
  <2>1. head.size = Len(b)
    BY <1>8, <1>10
  <2> QED BY <1>8, <1>10, <2>1, NewAnswer
<1> QED BY <1>7, <1>8, <1>12, <1>13, <1>14 DEF Answering

LEMMA AnswerJoin ==
    ASSUME NEW s, NEW t, s \in Stream(Heads), t \in Stream(Heads)
    PROVE  /\ Join(s, t) \in Stream(Heads)
           /\ Whole(s, Answers) /\ Whole(t, Answers) => Whole(Join(s, t), Answers)
           /\ Whole(s, Faithful) /\ Whole(t, Faithful) => Whole(Join(s, t), Faithful)
<1>1. Join(s, t) \in Stream(Heads)
  <2> DEFINE A == Heads
             a == s.bytes
             b == t.bytes
             x == s.heads
             y == t.heads
  <2>1. a \in Seq(Byte) /\ b \in Seq(Byte) /\ x \in Seq(A) /\ y \in Seq(A)
    BY DEF Stream
  <2>2. Join(s, t) = [bytes |-> a \o b, heads |-> x \o y]
    BY DEF Join
  <2> HIDE DEF A, a, b, x, y
  <2>3. a \o b \in Seq(Byte) /\ x \o y \in Seq(A)
    BY <2>1, Joined
  <2> QED BY <2>2, <2>3 DEF Stream, A
<1>2. Whole(s, Answers) /\ Whole(t, Answers) => Whole(Join(s, t), Answers)
  BY FramingIs, WholeJoin
<1>3. Whole(s, Faithful) /\ Whole(t, Faithful) => Whole(Join(s, t), Faithful)
  BY FramingIs, WholeJoin
<1> QED BY <1>1, <1>2, <1>3

\* What is added does not change what is first.
LEMMA AddBack ==
    ASSUME CodecInv, NEW s, Answering(s), back' = Join(back, s), UNCHANGED <<reader, thrown, truncated>>
    PROVE  FromBroker' /\ Ended'
<1>1. back \in Stream(Heads) /\ Whole(back, Answers) /\ (~Disturbed => Whole(back, Faithful)) /\ Ended
  BY DEF CodecInv, FromBroker
<1>2. Disturbed' = Disturbed
  BY DEF Disturbed
<1>3. FromBroker'
  <2>1. Join(back, s) \in Stream(Heads) /\ Whole(Join(back, s), Answers) /\ (~Disturbed => Whole(Join(back, s), Faithful))
    BY <1>1, AnswerJoin DEF Answering
  <2> QED BY <1>2, <2>1 DEF FromBroker
<1>4. ASSUME reader = "dead" PROVE back'.heads # <<>> /\ Head(back'.heads).refused
  <2> DEFINE x == back.heads
             y == s.heads
             H == Heads
  <2>1. x # <<>> /\ Head(x).refused
    BY <1>1, <1>4 DEF Ended
  <2>2. x \in Seq(H) /\ y \in Seq(H) /\ back'.heads = x \o y
    BY <1>1 DEF Answering, Stream, Join
  <2> HIDE DEF x, y, H
  <2>3. x \o y # <<>> /\ Head(x \o y) = Head(x)
    BY <2>1, <2>2
  <2> QED BY <2>1, <2>2, <2>3
<1> QED BY <1>3, <1>4 DEF Ended

LEMMA HandlePubStep == ASSUME CodecInv, HandlePub PROVE CodecInv'
<1> DEFINE hs == request.headers
           n == SizeOf(hs)
<1>1. /\ broker = "handle" /\ subs' \in Found /\ broker' = "deliver"
      /\ msg' = [headers |-> hs, size |-> n, ok |-> TRUE, refused |-> FALSE]
      /\ UNCHANGED <<language, sent, buffer, wire, request, back, reader, got, thrown, truncated>>
  BY DEF HandlePub, NoFrame, client
<1>2. Disturbed' = Disturbed
  BY <1>1 DEF Disturbed
<1>3. FromBroker' /\ InTheEnd' /\ ToBroker' /\ Ended'
  BY <1>1, <1>2, Elsewhere
<1>4. Types /\ n < Limit /\ (~Disturbed => Handling(request))
  BY <1>1 DEF CodecInv, InHand
<1>5. hs \in Headers /\ Distinct(hs)
  BY <1>4 DEF Types, PlainRequests
<1>6. n \in 0 .. Limit - 1
  <2>1. n \in Nat
    BY <1>5, HeadersAre
  <2> HIDE DEF n
  <2> QED BY <1>4, <2>1, CodecAssumption
<1>7. subs' \in Seq(Sub)
  BY <1>1, CodecAssumption DEF Sub
<1> HIDE DEF n
<1>8. msg' \in Labelling /\ msg'.headers = hs /\ msg'.size = n /\ msg'.ok
  BY <1>1, <1>5, <1>6 DEF Labelling
<1>9. Types'
  BY <1>1, <1>4, <1>7, <1>8 DEF Types
<1>10. Sized(msg')
  BY <1>5, <1>8 DEF Sized, n
<1>11. ASSUME ~Disturbed, AllClean(request.meant) PROVE Kept(request.meant, hs)
  <2>1. ToSet(hs) = request.meant /\ Keys(hs) \subseteq RequestKeys
    BY <1>4, <1>11 DEF Handling
  <2>2. RequestKeys \subseteq AllKeys
    BY DEF RequestKeys, AllKeys
  <2>3. \A k : k \in Keys(hs) <=> \E h \in ToSet(hs) : k = h[1]
    BY <1>5, SetIs DEF Headers
  <2> QED BY <2>1, <2>2, <2>3 DEF Kept
<1>12. InHand'
  BY <1>1, <1>2, <1>4, <1>8, <1>10, <1>11 DEF InHand, Handling, Sized, Kept
<1> QED BY <1>3, <1>9, <1>12 DEF CodecInv

\* A subscription's labels are set.
LEMMA LabelStep ==
    ASSUME CodecInv, broker = "deliver", subs # <<>>, NEW topic \in TopicsIn
    PROVE  LET g == Labelled(msg, Head(subs), topic)
           IN /\ Sized(g)
              /\ ~Disturbed /\ ~g.refused /\ AllClean(request.meant) =>
                    Kept(request.meant, g.headers) /\ Keeps("MSG", request.meant, g.headers)
<1> DEFINE sub == Head(subs)
           g == Labelled(msg, sub, topic)
           hs == request.headers
           M == request.meant
           T == ToSet(g.headers)
           S == ToSet(msg.headers)
           O == Own("MSG")
<1>1. /\ Types /\ Sized(msg) /\ (~Disturbed => Handling(request))
      /\ ~Disturbed /\ ~msg.refused /\ AllClean(M) => Kept(M, msg.headers)
  BY DEF CodecInv, InHand
<1>2. sub \in Sub
  BY <1>1 DEF Types
<1>3. hs \in Headers /\ Distinct(hs)
  BY <1>1 DEF Types, PlainRequests
<1>4. PICK t \in ToSet(hs) : t[1] = TopicKey /\ topic = t[2]
  BY DEF TopicsIn
<1>5. <<TopicKey, topic>> \in Good(Plain)
  <2>1. t \in Good(Plain)
    BY <1>3, <1>4, SetIs DEF Headers
  <2>2. TopicKey \in AllKeys
    BY DEF AllKeys
  <2> QED BY <1>4, <2>1, <2>2, OwnIs
<1>6. /\ Sized(g)
      /\ ~g.refused => ~msg.refused /\ T = Marked(S, sub.tag, topic, IF sub.exact THEN topic ELSE Short)
  BY <1>1, <1>2, <1>5, LabelledIs
<1> HIDE DEF g, sub
<1>7. ASSUME ~Disturbed, ~g.refused, AllClean(M) PROVE Kept(M, g.headers) /\ Keeps("MSG", M, g.headers)
  <2>1. Kept(M, msg.headers) /\ ToSet(hs) = M
    BY <1>1, <1>6, <1>7 DEF Handling
  <2>2. g.headers \in Headers /\ Distinct(g.headers) /\ msg.headers \in Headers
    BY <1>1, <1>6 DEF Sized, Labelling
  <2>3. /\ \A k : k \in Keys(g.headers) <=> \E h \in T : k = h[1]
        /\ \A k : k \in Keys(msg.headers) <=> \E h \in S : k = h[1]
    BY <2>2, SetIs DEF Headers
  <2>4. \A h \in S : h[1] \in AllKeys
    BY <2>1, <2>3 DEF Kept
  <2>5. /\ \A h \in T : h[1] \in AllKeys
        /\ {h \in T : h[1] \notin O} = {h \in S : h[1] \notin O}
        /\ {h[2] : h \in {j \in T : j[1] = OriginKey}} = {topic}
    <3> DEFINE s == IF sub.exact THEN topic ELSE Short
    <3>1. T = Marked(S, sub.tag, topic, s)
      BY <1>6, <1>7
    <3> HIDE DEF s, S, T
    <3>2. Relabels(S, Marked(S, sub.tag, topic, s), topic)
      BY <2>4, MarkedKeeps
    <3>3. Relabels(S, T, topic)
      BY <3>1, <3>2
    <3> QED BY <3>3 DEF Relabels
  <2>6. {h[2] : h \in {j \in M : j[1] = TopicKey}} = {topic}
    <3>1. \A x : x \in ToSet(hs) <=> \E i \in 1 .. Len(hs) : x = hs[i]
      BY <1>3, SetIs DEF Headers
    <3>2. DOMAIN hs = 1 .. Len(hs)
      BY <1>3 DEF Headers
    <3>3. \A j \in ToSet(hs) : j[1] = TopicKey => j = t
      BY <1>3, <1>4, <3>1, <3>2 DEF Distinct
    <3>4. {j \in ToSet(hs) : j[1] = TopicKey} = {t}
      BY <1>4, <3>3
    <3> QED BY <1>4, <2>1, <3>4
  <2>7. Keys(g.headers) \subseteq AllKeys
    BY <2>3, <2>5
  <2>8. (\A h \in M : h[1] \in AllKeys) /\ {h \in S : h[1] \notin O} = {h \in M : h[1] \notin O}
    BY <2>1 DEF Kept
  <2>9. Kept(M, g.headers)
    BY <2>5, <2>7, <2>8 DEF Kept
  <2>10. Keeps("MSG", M, g.headers)
    BY <2>2, <2>5, <2>6, <2>7, <2>8 DEF Keeps
  <2> QED BY <2>9, <2>10
<1> QED BY <1>6, <1>7 DEF g, sub

\* An invariant of the broker that goes on delivering.
LEMMA StillDelivering ==
    ASSUME CodecInv, broker = "deliver", subs # <<>>, NEW topic \in TopicsIn, msg' = Labelled(msg, Head(subs), topic),
           broker' \in {"deliver", "undefined"}, UNCHANGED <<request, thrown, truncated>>
    PROVE  InHand' /\ msg' \in Labelling
<1>1. /\ Sized(msg')
      /\ ~Disturbed /\ ~msg'.refused /\ AllClean(request.meant) => Kept(request.meant, msg'.headers)
  BY LabelStep
<1>2. Disturbed' = Disturbed
  BY DEF Disturbed
<1>3. ~Disturbed => Handling(request)
  BY DEF CodecInv, InHand
<1>4. msg' \in Labelling
  BY <1>1 DEF Sized
<1>5. InHand'
  BY <1>1, <1>2, <1>3 DEF InHand, Handling, Sized, Kept
<1> QED BY <1>4, <1>5

LEMMA DeliverStep == ASSUME CodecInv, Deliver PROVE CodecInv'
<1>1. PICK topic \in TopicsIn, fill \in {Quote, "a"} :
         /\ msg' = Labelled(msg, Head(subs), topic)
         /\ back' = IF msg'.ok THEN Join(back, Message(msg', fill)) ELSE back
  BY DEF Deliver
<1>2. /\ broker = "deliver" /\ subs # <<>> /\ subs' = Tail(subs)
      /\ UNCHANGED <<language, sent, buffer, wire, broker, request, reader, got, thrown, truncated>>
  BY DEF Deliver, client
<1>3. Disturbed' = Disturbed
  BY <1>2 DEF Disturbed
<1>4. InTheEnd' /\ ToBroker'
  BY <1>2, <1>3, Elsewhere
<1>5. InHand' /\ msg' \in Labelling
  BY <1>1, <1>2, StillDelivering
<1>6. Types'
  <2>1. Types
    BY DEF CodecInv
  <2>2. subs' \in Seq(Sub)
    BY <1>2, <2>1 DEF Types
  <2> QED BY <1>2, <1>5, <2>1, <2>2 DEF Types
<1>7. FromBroker' /\ Ended'
  <2>1. CASE msg'.ok
    <3> DEFINE s == Message(msg', fill)
    <3>1. /\ Sized(msg')
          /\ ~Disturbed /\ ~msg'.refused /\ AllClean(request.meant) => Keeps("MSG", request.meant, msg'.headers)
      BY <1>1, <1>2, LabelStep
    <3>2. request \in PlainRequests
      BY DEF CodecInv, Types
    <3>3. Answering(s)
      BY <3>1, <3>2, MessageIs
    <3>4. back' = Join(back, s)
      BY <1>1, <2>1
    <3> HIDE DEF s
    <3> QED BY <1>2, <3>3, <3>4, AddBack
  <2>2. CASE ~msg'.ok
    <3>1. UNCHANGED back
      BY <1>1, <2>2
    <3> QED BY <1>2, <1>3, <3>1, Elsewhere
  <2> QED BY <2>1, <2>2
<1> QED BY <1>4, <1>5, <1>6, <1>7 DEF CodecInv

LEMMA DeliverOverrunsStep == ASSUME CodecInv, DeliverOverruns PROVE CodecInv'
<1>1. PICK topic \in TopicsIn : msg' = Labelled(msg, Head(subs), topic)
  BY DEF DeliverOverruns
<1>2. /\ broker = "deliver" /\ subs # <<>> /\ broker' = "undefined"
      /\ UNCHANGED <<language, sent, buffer, wire, request, subs, back, reader, got, thrown, truncated>>
  BY DEF DeliverOverruns, client
<1>3. Disturbed' = Disturbed
  BY <1>2 DEF Disturbed
<1>4. FromBroker' /\ InTheEnd' /\ ToBroker' /\ Ended'
  BY <1>2, <1>3, Elsewhere
<1>5. InHand' /\ msg' \in Labelling
  BY <1>1, <1>2, StillDelivering
<1>6. Types'
  BY <1>2, <1>5 DEF CodecInv, Types
<1> QED BY <1>4, <1>5, <1>6 DEF CodecInv

LEMMA HandleReplyStep == ASSUME CodecInv, HandleReply PROVE CodecInv'
<1> DEFINE reply == IF TopicsIn # {} THEN Reply("OK") ELSE IF request.op = "PUB" THEN Empty ELSE Reply("ERR")
<1>1. /\ broker \in {"deliver", "handle"} /\ request' = NoRequest /\ msg' = NoFrame
      /\ back' = Join(back, reply) /\ broker' = IF reply = Empty THEN "end" ELSE "read"
      /\ UNCHANGED <<language, sent, buffer, wire, subs, reader, got, thrown, truncated>>
  BY DEF HandleReply, client
<1>2. Disturbed' = Disturbed
  BY <1>1 DEF Disturbed
<1>3. InTheEnd' /\ ToBroker'
  BY <1>1, <1>2, Elsewhere
<1>4. request \in PlainRequests /\ Distinct(request.headers) /\ (~Disturbed => Handling(request))
  BY <1>1 DEF CodecInv, Types, InHand
<1>5. Answering(reply)
  <2>1. Answering(Reply("OK")) /\ Answering(Reply("ERR")) /\ Answering(Empty)
    BY <1>4, ReplyIs, AnswerEmpty
  <2> QED BY <2>1
<1>6. broker' \in {"end", "read"}
  BY <1>1
<1> HIDE DEF reply
<1>7. FromBroker' /\ Ended'
  BY <1>1, <1>5, AddBack
<1>8. Types'
  BY <1>1, <1>6, Nothing DEF CodecInv, Types
<1>9. InHand'
  BY <1>6 DEF InHand
<1> QED BY <1>3, <1>7, <1>8, <1>9 DEF CodecInv

-----------------------------------------------------------------------------
(***************************************************************************)
(* The step of the receiver.                                               *)
(***************************************************************************)
\* What the Java client makes of a text of the broker.
LEMMA ReceivedIs ==
    ASSUME NEW hs \in Seq(Good(Plain))
    PROVE  LET t == Decode(ToText(hs))
           IN /\ ~Partial(JavaScan(t)) /\ FromString(t) \subseteq Header(Char)
              /\ Distinct(hs) /\ Keys(hs) \subseteq AllKeys => FromString(t) = {DecodeHeader(h) : h \in ToSet(hs)}
<1> DEFINE t == Decode(ToText(hs))
           ds == DecodeHeaders(hs)
<1>1. Scan(t) = Reading(<<>>, ds) /\ hs \in Seq(Header(Plain)) /\ ds \in Seq(CleanHeaders(Char))
  BY Reparse
<1>2. ds \in Seq(Header(Char)) /\ Len(ds) = Len(hs) /\ \A i \in 1 .. Len(hs) : ds[i] = DecodeHeader(hs[i])
  BY <1>1, DecodeText
<1> HIDE DEF ds, t
<1>3. JavaScan(t).marks = <<>> /\ JavaScan(t).headers = ds
  BY <1>1, JavaScanIs, StateHas
<1>4. FromString(t) = MapFrom(ds)
  BY <1>3, FromStringIs
<1>5. MapFrom(ds) \subseteq Header(Char) /\ (Distinct(ds) => MapFrom(ds) = ToSet(ds))
  BY <1>2, MapOf
<1>6. ASSUME Distinct(hs), Keys(hs) \subseteq AllKeys PROVE FromString(t) = {DecodeHeader(h) : h \in ToSet(hs)}
  <2>1. DOMAIN hs = 1 .. Len(hs) /\ DOMAIN ds = 1 .. Len(hs)
    BY <1>1, <1>2
  <2>2. \A i \in 1 .. Len(hs) : hs[i][1] \in AllKeys
    BY <1>1, <1>6, SetIs
  <2>3. \A i \in 1 .. Len(hs) : ds[i][1] = hs[i][1]
    BY <1>2, <2>2, KeysAre DEF DecodeHeader
  <2>4. Distinct(ds)
    BY <1>6, <2>1, <2>3 DEF Distinct
  <2>5. \A x : x \in ToSet(ds) <=> \E i \in 1 .. Len(hs) : x = ds[i]
    BY <1>2, SetIs
  <2>6. \A x : x \in ToSet(hs) <=> \E i \in 1 .. Len(hs) : x = hs[i]
    BY <1>1, SetIs
  <2>7. \A x : x \in ToSet(ds) <=> \E h \in ToSet(hs) : x = DecodeHeader(h)
    BY <1>2, <2>5, <2>6
  <2>8. \A x : x \in ToSet(ds) <=> x \in {DecodeHeader(h) : h \in ToSet(hs)}
    BY <2>7
  <2> QED BY <1>4, <1>5, <2>4, <2>8
<1> QED BY <1>3, <1>4, <1>5, <1>6 DEF Partial, t

LEMMA StillKept ==
    ASSUME NEW op, NEW meant, NEW hs \in Seq(Good(Plain)), Keeps(op, meant, hs), NEW g, g.op = op, g.meant = meant,
           g.headers = {DecodeHeader(h) : h \in ToSet(hs)}
    PROVE  Received(g)
<1> DEFINE S == ToSet(hs)
           M == {DecodeHeader(h) : h \in meant}
           D == {DecodeHeader(h) : h \in S}
<1>1. /\ Keys(hs) \subseteq AllKeys /\ \A h \in meant : h[1] \in AllKeys
      /\ {h \in S : h[1] \notin Own(op)} = {h \in meant : h[1] \notin Own(op)}
      /\ op = "MSG" => {h[2] : h \in {j \in S : j[1] = OriginKey}} = {h[2] : h \in {j \in meant : j[1] = TopicKey}}
  BY DEF Keeps
<1>2. \A h \in S : h[1] \in AllKeys
  <2>1. \A k : k \in Keys(hs) <=> \E h \in ToSet(hs) : k = h[1]
    BY SetIs
  <2> QED BY <1>1, <2>1
<1>3. \A h \in S \cup meant : DecodeHeader(h)[1] = h[1] /\ DecodeHeader(h)[2] = Decode(h[2])
  BY <1>1, <1>2, KeysAre DEF DecodeHeader
<1> HIDE DEF S
<1>4. {x \in D : x[1] \notin Own(op)} = {x \in M : x[1] \notin Own(op)}
  <2>1. \A x : x \in {y \in D : y[1] \notin Own(op)} <=> \E h \in {j \in S : j[1] \notin Own(op)} : x = DecodeHeader(h)
    BY <1>3
  <2>2. \A x : x \in {y \in M : y[1] \notin Own(op)} <=> \E h \in {j \in meant : j[1] \notin Own(op)} : x = DecodeHeader(h)
    BY <1>3
  <2>3. \A x : x \in {y \in D : y[1] \notin Own(op)} <=> x \in {y \in M : y[1] \notin Own(op)}
    BY <1>1, <2>1, <2>2
  <2> HIDE DEF D, M
  <2> QED BY <2>3
<1>5. ASSUME op = "MSG"
      PROVE  {h[2] : h \in {j \in D : j[1] = OriginKey}} = {h[2] : h \in {j \in M : j[1] = TopicKey}}
  <2> DEFINE V == {h[2] : h \in {j \in S : j[1] = OriginKey}}
             W == {h[2] : h \in {j \in meant : j[1] = TopicKey}}
  <2>1. V = W
    BY <1>1, <1>5
  <2>2. \A x : x \in {h[2] : h \in {j \in D : j[1] = OriginKey}} <=> \E v \in V : x = Decode(v)
    BY <1>3
  <2>3. \A x : x \in {h[2] : h \in {j \in M : j[1] = TopicKey}} <=> \E v \in W : x = Decode(v)
    BY <1>3
  <2> HIDE DEF V, W, D, M
  <2>4. \A x : x \in {h[2] : h \in {j \in D : j[1] = OriginKey}} <=> x \in {h[2] : h \in {j \in M : j[1] = TopicKey}}
    BY <2>1, <2>2, <2>3
  <2> QED BY <2>4
<1> QED BY <1>4, <1>5 DEF Received, S

LEMMA JavaRecvStep == ASSUME CodecInv, JavaRecv PROVE CodecInv'
<1> DEFINE text == TextOf(back)
           head == Head(back.heads)
           map == FromString(Decode(text))
           new == [op |-> head.op, headers |-> map, meant |-> head.meant, data |-> head.data, refused |-> head.refused]
<1>1. /\ back # Empty /\ reader = "read"
      /\ Readable(back) => got' = new /\ back' = Rest(back) /\ reader' = reader
      /\ ~Readable(back) => reader' = "dead" /\ UNCHANGED <<got, back>>
      /\ UNCHANGED <<language, sent, buffer, wire, broker, request, subs, msg, thrown, truncated>>
  BY DEF JavaRecv, client
<1>2. /\ Types /\ back \in Stream(Heads) /\ Whole(back, Answers)
      /\ ~Disturbed => Whole(back, Faithful)
  BY DEF CodecInv, FromBroker
<1>3. back.bytes # <<>> \/ back.heads # <<>>
  <2>1. back = [bytes |-> back.bytes, heads |-> back.heads]
    BY <1>2 DEF Stream
  <2> QED BY <1>1, <2>1 DEF Empty
<1>4. PICK f \in Answers : /\ back.heads # <<>> /\ head = f.head /\ text = f.text
                           /\ Arrived(back) /\ InFrame(back) /\ Whole(Rest(back), Answers)
  BY <1>2, <1>3, FramingIs, WholeNext
<1>5. Disturbed' = Disturbed
  BY <1>1 DEF Disturbed
<1>6. InHand' /\ ToBroker'
  BY <1>1, <1>5, Elsewhere
<1>7. Types'
  BY <1>1, <1>2 DEF Types
<1>8. CASE ~Readable(back)
  <2>1. UNCHANGED <<got, back>>
    BY <1>1, <1>8
  <2>2. FromBroker' /\ InTheEnd'
    BY <1>5, <2>1, Elsewhere
  <2>3. head.refused
    <3> SUFFICES ASSUME ~head.refused PROVE Readable(back)
      BY <1>8
    <3>1. PICK hs \in Headers : text = ToText(hs)
      BY <1>4 DEF Answers, Readily
    <3>2. ~Partial(JavaScan(Decode(text)))
      BY <3>1, ReceivedIs DEF Headers
    <3> QED BY <1>4, <3>2 DEF Readable
  <2>4. Ended'
    BY <1>4, <2>1, <2>3 DEF Ended
  <2> QED BY <1>6, <1>7, <2>2, <2>4 DEF CodecInv
<1>9. CASE Readable(back)
  <2>1. got' = new /\ back' = Rest(back) /\ reader' = "read"
    BY <1>1, <1>9
  <2>2. got'.op = head.op /\ got'.headers = map /\ got'.meant = head.meant
    BY <2>1
  <2>3. got'.refused = head.refused
    BY <2>1
  <2> HIDE DEF new
  <2>4. ASSUME ~Disturbed
        PROVE  Whole(Rest(back), Faithful) /\ (~head.refused /\ AllClean(head.meant) => Received(got'))
    <3>1. Whole(back, Faithful)
      BY <1>2, <2>4
    <3>2. PICK g \in Faithful : /\ head = g.head /\ text = g.text
                                /\ Arrived(back) /\ InFrame(back) /\ Whole(Rest(back), Faithful)
      BY <1>3, <3>1, FramingIs, WholeNext
    <3>3. ASSUME ~head.refused, AllClean(head.meant) PROVE Received(got')
      <4>1. PICK gs \in Headers : text = ToText(gs) /\ Keeps(head.op, head.meant, gs)
        BY <3>2, <3>3 DEF Faithful, Faithfully
      <4>2. Distinct(gs) /\ Keys(gs) \subseteq AllKeys
        BY <4>1 DEF Keeps
      <4>3. map = {DecodeHeader(h) : h \in ToSet(gs)}
        BY <4>1, <4>2, ReceivedIs DEF Headers
      <4> HIDE DEF map, head
      <4> QED BY <2>2, <4>1, <4>3, StillKept DEF Headers
    <3> QED BY <3>2, <3>3
  <2>5. FromBroker'
    <3>1. Rest(back) \in Stream(Heads)
      <4>1. Rest(back).bytes \in Seq(Byte) /\ Rest(back).heads \in Seq(Heads)
        BY <1>4, FramingIs, WholeIs
      <4> QED BY <4>1 DEF Rest, Stream
    <3> QED BY <1>4, <1>5, <2>1, <2>4, <3>1 DEF FromBroker
  <2>6. InTheEnd'
    BY <1>5, <2>2, <2>3, <2>4 DEF InTheEnd
  <2>7. Ended'
    BY <2>1 DEF Ended
  <2> QED BY <1>6, <1>7, <2>5, <2>6, <2>7 DEF CodecInv
<1> QED BY <1>8, <1>9

LEMMA CodecNext == CodecInv /\ [Next]_vars => CodecInv'
<1> SUFFICES ASSUME CodecInv, [Next]_vars PROVE CodecInv'
  OBVIOUS
<1>1. ASSUME NEW op \in {"PUB", "SUB"}, NEW topic \in Text, NEW data \in {0, 1}, JavaSend(op, topic, data) PROVE CodecInv'
  BY <1>1, JavaSendStep
<1>2. ASSUME NEW op \in {"PUB", "SUB"}, NEW topic \in Text, NEW data \in {0, 1}, CSend(op, topic, data) PROVE CodecInv'
  BY <1>2, CSendStep
<1>3. CASE BrokerLost
  BY <1>3, BrokerLostStep
<1>4. CASE BrokerRecv
  BY <1>4, BrokerRecvStep
<1>5. CASE BrokerReject
  BY <1>5, BrokerRejectStep
<1>6. CASE HandlePub \/ Deliver \/ DeliverOverruns \/ HandleReply
  BY <1>6, HandlePubStep, DeliverStep, DeliverOverrunsStep, HandleReplyStep
<1>7. CASE JavaRecv
  BY <1>7, JavaRecvStep
<1>8. CASE UNCHANGED vars
  <2>1. UNCHANGED <<language, sent, buffer, wire, broker, request, subs, msg, back, reader, got, thrown, truncated>>
    BY <1>8 DEF vars, client
  <2>2. Disturbed' = Disturbed
    BY <2>1 DEF Disturbed
  <2>3. InHand' /\ FromBroker' /\ InTheEnd' /\ ToBroker' /\ Ended'
    BY <2>1, <2>2, Elsewhere
  <2>4. Types'
    BY <2>1 DEF CodecInv, Types
  <2> QED BY <2>3, <2>4 DEF CodecInv
<1>9. ASSUME NEW op \in {"PUB", "SUB"}, NEW topic \in Text,
             LET data == IF op = "PUB" THEN 1 ELSE 0 IN JavaSend(op, topic, data) \/ CSend(op, topic, data)
      PROVE  CodecInv'
  <2> DEFINE data == IF op = "PUB" THEN 1 ELSE 0
  <2>1. data \in {0, 1} /\ (JavaSend(op, topic, data) \/ CSend(op, topic, data))
    BY <1>9
  <2> HIDE DEF data
  <2> QED BY <1>1, <1>2, <2>1
<1> QED BY <1>3, <1>4, <1>5, <1>6, <1>7, <1>8, <1>9 DEF Next

-----------------------------------------------------------------------------
(***************************************************************************)
(* The theorems.                                                           *)
(***************************************************************************)
LEMMA CodecInductive == Spec => []CodecInv
BY CodecInit, CodecNext, PTL DEF Spec

LEMMA CodecImplies == CodecInv => TypeOK /\ InStep /\ SameHeaders /\ ReceiverSurvives
<1> SUFFICES ASSUME CodecInv PROVE TypeOK /\ InStep /\ SameHeaders /\ ReceiverSurvives
  OBVIOUS
<1>1. Types /\ ToBroker /\ FromBroker /\ InHand /\ InTheEnd /\ Ended
  BY DEF CodecInv
<1>2. TypeOK
  <2>1. buffer \in Stream(Heads) /\ wire \in Stream(Heads) /\ back \in Stream(Heads)
    BY <1>1 DEF ToBroker, FromBroker, Sound
  <2>2. ASSUME NEW s \in Stream(Heads)
        PROVE  ToSet(s.bytes) \subseteq Byte /\ \A h \in ToSet(s.heads) : h.size \in 0 .. Limit - 1
    <3>1. s.bytes \in Seq(Byte) /\ s.heads \in Seq(Heads)
      BY DEF Stream
    <3>2. ToSet(s.bytes) \subseteq Byte /\ ToSet(s.heads) \subseteq Heads
      BY <3>1, SetIs
    <3> QED BY <3>2 DEF Heads
  <2>3. request.headers \in Headers /\ msg.headers \in Headers /\ msg.size \in 0 .. Limit - 1
    BY <1>1 DEF Types, PlainRequests, Labelling
  <2>4. ASSUME NEW hs \in Headers PROVE ToSet(hs) \subseteq Seq(Byte) \X Seq(Byte)
    <3>1. hs \in Seq(Header(Plain))
      BY HeadersAre
    <3>2. ToSet(hs) \subseteq Header(Plain)
      BY <3>1, SetIs
    <3>3. Seq(Plain) \subseteq Seq(Byte)
      BY PlainSeq
    <3> QED BY <3>2, <3>3 DEF Header
  <2>5. ToSet(request.headers) \cup ToSet(msg.headers) \subseteq Seq(Byte) \X Seq(Byte)
    BY <2>3, <2>4
  <2> QED BY <1>1, <2>1, <2>2, <2>3, <2>5 DEF TypeOK, Types
<1>3. InStep
  BY <1>1 DEF InHand, InStep
<1>4. ReceiverSurvives
  BY <1>1 DEF Ended, ReceiverSurvives
<1>5. SameHeaders
  <2> SUFFICES ASSUME ~Disturbed PROVE SameHeaders
    BY DEF SameHeaders
  <2>1. broker = "rejected" => ~AllClean(request.meant)
    BY <1>1 DEF InHand
  <2>2. broker \in {"handle", "deliver"} /\ AllClean(request.meant) => ToSet(request.headers) = request.meant
    BY <1>1 DEF InHand, Handling
  <2>3. got.op # "NOOP" /\ ~got.refused /\ AllClean(got.meant) => Received(got)
    BY <1>1 DEF InTheEnd
  <2> QED BY <2>1, <2>2, <2>3 DEF SameHeaders, Received, Own, DecodeHeader
<1> QED BY <1>2, <1>3, <1>4, <1>5

\* Every size that is announced fits in the two bytes of the fixed header, and
\* only bytes are on the streams, for all topics and every limit.
THEOREM CodecTypeCorrect == Spec => []TypeOK
BY CodecInductive, CodecImplies, PTL

\* Whatever topics the clients use, and in whatever order a HashMap gives the
\* headers, the broker never looks for a frame where there is none, unless
\* writeTo has thrown or a size has not fitted.
THEOREM AlwaysInStep == Spec => []InStep
BY CodecInductive, CodecImplies, PTL

\* Of clean texts shorter than 2^16 bytes, with characters of one and of two bytes,
\* the broker and the client that gets the message or the reply parse what was set;
\* of messages, those before which no label of the same publication was refused.
THEOREM AlwaysSameHeaders == Spec => []SameHeaders
BY CodecInductive, CodecImplies, PTL

\* No text a client sends, clean or not, cut or not, in step or not, ends the main
\* loop of the client that gets what the broker makes of it, but for a message that
\* was labelled after a label had been refused.
THEOREM AlwaysSurvives == Spec => []ReceiverSurvives
BY CodecInductive, CodecImplies, PTL

=============================================================================
