---------------------------- MODULE FramesProofs ----------------------------
(***************************************************************************)
(* The theorems about frames and their variable headers, for all requests, *)
(* subscriptions, names and sizes.                                         *)
(***************************************************************************)
EXTENDS Frames, FiniteSetTheorems, WellFoundedInduction, TLAPS

-----------------------------------------------------------------------------
(***************************************************************************)
(* Induction over the subsets of a finite set, without a predicate as a    *)
(* parameter: a family of subsets has a smallest one.                      *)
(***************************************************************************)
LEMMA Smallest ==
    ASSUME NEW S, IsFiniteSet(S), NEW P \in SUBSET (SUBSET S), P # {}
    PROVE  \E T \in P : \A U \in P : U \subseteq T => U = T
<1>1. P \subseteq FiniteSubsetsOf(S)
  BY FS_Subset DEF FiniteSubsetsOf
<1>2. \E T \in P : \A U \in P : ~(<<U, T>> \in StrictSubsetOrdering(S))
  BY <1>1, FS_StrictSubsetOrderingWellFounded, WFMin
<1>3. PICK T \in P : \A U \in P : ~(<<U, T>> \in StrictSubsetOrdering(S))
  BY <1>2
<1>4. ASSUME NEW U \in P, U \subseteq T, U # T PROVE FALSE
  <2>1. <<U, T>> \in StrictSubsetOrdering(S)
    BY <1>4 DEF StrictSubsetOrdering
  <2> QED BY <1>3, <2>1
<1> QED BY <1>4

(***************************************************************************)
(* What a fold of the community modules computes.  From base, the elements *)
(* of S are taken in the order of c (c[s] last), each with the function    *)
(* next.                                                                   *)
(***************************************************************************)
Folds(base, c, next, T, h) ==
    /\ h = [s \in SUBSET T |-> h[s]]
    /\ \A s \in SUBSET T : h[s] = IF s = {} THEN base ELSE next[<<c[s], h[s \ {c[s]}]>>]

\* Two of them agree where both are defined.
LEMMA FoldUnique ==
    ASSUME NEW S, IsFiniteSet(S), NEW base, NEW next, NEW c, \A s \in SUBSET S : s # {} => c[s] \in s,
           NEW T \in SUBSET S, NEW h, Folds(base, c, next, T, h),
           NEW U \in SUBSET S, NEW k, Folds(base, c, next, U, k)
    PROVE  \A s \in SUBSET (T \cap U) : h[s] = k[s]
<1> DEFINE P == {s \in SUBSET (T \cap U) : h[s] # k[s]}
<1> SUFFICES ASSUME P # {} PROVE FALSE
  OBVIOUS
<1>1. P \in SUBSET (SUBSET S)
  <2>1. \A s \in P : s \in SUBSET S
    OBVIOUS
  <2> QED BY <2>1
<1>s. \E s \in P : \A r \in P : r \subseteq s => r = s
  <2> HIDE DEF P
  <2> QED BY <1>1, Smallest
<1>2. PICK s \in P : \A r \in P : r \subseteq s => r = s
  BY <1>s
<1>3. s \in SUBSET T /\ s \in SUBSET U /\ s \in SUBSET S /\ h[s] # k[s]
  OBVIOUS
<1>4. s # {}
  BY <1>3 DEF Folds
<1>5. c[s] \in s /\ s \ {c[s]} \in SUBSET (T \cap U) /\ s \ {c[s]} # s
  BY <1>3, <1>4
<1>6. s \ {c[s]} \notin P
  BY <1>2, <1>5
<1>7. h[s \ {c[s]}] = k[s \ {c[s]}]
  BY <1>5, <1>6
<1>8. h[s] = next[<<c[s], h[s \ {c[s]}]>>] /\ k[s] = next[<<c[s], k[s \ {c[s]}]>>]
  BY <1>3, <1>4 DEF Folds
<1> QED BY <1>3, <1>7, <1>8

\* There is one.
LEMMA FoldExists ==
    ASSUME NEW S, IsFiniteSet(S), NEW base, NEW next, NEW c, \A s \in SUBSET S : s # {} => c[s] \in s
    PROVE  \A T \in SUBSET S : \E h : Folds(base, c, next, T, h)
<1> DEFINE P == {T \in SUBSET S : ~\E h : Folds(base, c, next, T, h)}
<1> SUFFICES ASSUME P # {} PROVE FALSE
  OBVIOUS
<1>1. P \in SUBSET (SUBSET S)
  <2>1. \A s \in P : s \in SUBSET S
    OBVIOUS
  <2> QED BY <2>1
<1>s. \E T \in P : \A r \in P : r \subseteq T => r = T
  <2> HIDE DEF P
  <2> QED BY <1>1, Smallest
<1>2. PICK T \in P : \A r \in P : r \subseteq T => r = T
  BY <1>s
<1> DEFINE H(s) == CHOOSE h : Folds(base, c, next, s, h)
<1>3. ASSUME NEW s \in SUBSET T, s # T PROVE Folds(base, c, next, s, H(s))
  <2>1. s \in SUBSET S /\ s \notin P
    BY <1>2, <1>3
  <2>2. \E h : Folds(base, c, next, s, h)
    BY <2>1
  <2> QED BY <2>2
<1> HIDE DEF H
<1> DEFINE val(s) == IF s = T THEN (IF T = {} THEN base ELSE next[<<c[T], H(T \ {c[T]})[T \ {c[T]}]>>])
                     ELSE H(s)[s]
           h == [s \in SUBSET T |-> val(s)]
<1>4. T \in SUBSET S
  OBVIOUS
<1>5. ASSUME NEW s \in SUBSET T PROVE val(s) = IF s = {} THEN base ELSE next[<<c[s], h[s \ {c[s]}]>>]
  <2>1. CASE s = {}
    <3>1. CASE T = {}
      BY <2>1, <3>1
    <3>2. CASE T # {}
      <4>1. Folds(base, c, next, s, H(s)) /\ s \in SUBSET s
        BY <1>3, <2>1, <3>2
      <4>2. H(s)[s] = base
        BY <2>1, <4>1 DEF Folds
      <4> QED BY <2>1, <3>2, <4>2
    <3> QED BY <3>1, <3>2
  <2>2. CASE s # {}
    <3> DEFINE r == s \ {c[s]}
    <3>1. c[s] \in s /\ r \in SUBSET T /\ r # T /\ r \in SUBSET s /\ r \in SUBSET S /\ s \in SUBSET S
      BY <1>4, <2>2
    <3>2. h[r] = H(r)[r]
      BY <3>1
    <3>3. CASE s = T
      BY <2>2, <3>2, <3>3
    <3>4. CASE s # T
      <4>1. Folds(base, c, next, s, H(s)) /\ Folds(base, c, next, r, H(r))
        BY <1>3, <3>1, <3>4
      <4>2. H(s)[r] = H(r)[r]
        <5>1. r \in SUBSET (s \cap r)
          BY <3>1
        <5>2. \A q \in SUBSET (s \cap r) : H(s)[q] = H(r)[q]
          <6> DEFINE hs == H(s)
                     hr == H(r)
          <6>1. s \in SUBSET S /\ r \in SUBSET S /\ Folds(base, c, next, s, hs) /\ Folds(base, c, next, r, hr)
            BY <3>1, <4>1
          <6> HIDE DEF r, hs, hr
          <6>2. \A q \in SUBSET (s \cap r) : hs[q] = hr[q]
            BY <6>1, FoldUnique
          <6> QED BY <6>2 DEF hs, hr
        <5> QED BY <5>1, <5>2
      <4>3. H(s)[s] = next[<<c[s], H(s)[r]>>]
        BY <2>2, <4>1 DEF Folds
      <4> QED BY <2>2, <3>2, <3>4, <4>2, <4>3
    <3> QED BY <3>3, <3>4
  <2> QED BY <2>1, <2>2
<1>6. Folds(base, c, next, T, h)
  <2> HIDE DEF val
  <2>1. h = [s \in SUBSET T |-> h[s]]
    OBVIOUS
  <2>2. ASSUME NEW s \in SUBSET T PROVE h[s] = IF s = {} THEN base ELSE next[<<c[s], h[s \ {c[s]}]>>]
    BY <1>5
  <2> QED BY <2>1, <2>2 DEF Folds
<1> QED BY <1>6

\* It has the type of what it accumulates.
LEMMA FoldType ==
    ASSUME NEW S, IsFiniteSet(S), NEW A, NEW base \in A, NEW next, NEW c,
           \A s \in SUBSET S : s # {} => c[s] \in s,
           \A x \in S, a \in A : next[<<x, a>>] \in A,
           NEW h, Folds(base, c, next, S, h)
    PROVE  \A s \in SUBSET S : h[s] \in A
<1> DEFINE P == {s \in SUBSET S : h[s] \notin A}
<1> SUFFICES ASSUME P # {} PROVE FALSE
  OBVIOUS
<1>1. P \in SUBSET (SUBSET S)
  OBVIOUS
<1>s. \E s \in P : \A r \in P : r \subseteq s => r = s
  <2> HIDE DEF P
  <2> QED BY <1>1, Smallest
<1>2. PICK s \in P : \A r \in P : r \subseteq s => r = s
  BY <1>s
<1>3. s \in SUBSET S /\ h[s] \notin A
  OBVIOUS
<1>4. s # {}
  BY <1>3 DEF Folds
<1>5. c[s] \in s /\ c[s] \in S /\ s \ {c[s]} \in SUBSET S /\ s \ {c[s]} # s
  BY <1>3, <1>4
<1>6. h[s \ {c[s]}] \in A
  BY <1>2, <1>5
<1>7. h[s] = next[<<c[s], h[s \ {c[s]}]>>]
  BY <1>3, <1>4 DEF Folds
<1> QED BY <1>3, <1>5, <1>6, <1>7

-----------------------------------------------------------------------------
(***************************************************************************)
(* The sum of a function over a finite set.                                *)
(***************************************************************************)
Pick(s) == CHOOSE x \in s : TRUE

Sums(w, g) ==
    g = [s \in SUBSET (DOMAIN w) |-> IF s = {} THEN 0 ELSE w[Pick(s)] + g[s \ {Pick(s)}]]

Weights(D) == [D -> Nat]

LEMMA SumsExist ==
    ASSUME NEW D, IsFiniteSet(D), NEW w \in Weights(D)
    PROVE  \E g \in [SUBSET D -> Nat] : Sums(w, g)
<1> DEFINE c == [s \in SUBSET D |-> Pick(s)]
           next == [p \in D \X Nat |-> w[p[1]] + p[2]]
<1>1. \A s \in SUBSET D : s # {} => c[s] \in s
  BY DEF Pick
<1>2. \A x \in D, n \in Nat : next[<<x, n>>] = w[x] + n /\ next[<<x, n>>] \in Nat
  BY DEF Weights
<1>c. \A s \in SUBSET D : c[s] = Pick(s)
  OBVIOUS
<1>d. DOMAIN w = D
  BY DEF Weights
<1> HIDE DEF c, next
<1>3. PICK h : Folds(0, c, next, D, h)
  BY <1>1, FoldExists
<1>4. \A s \in SUBSET D : h[s] \in Nat
  BY <1>1, <1>2, <1>3, FoldType
<1>5. h = [s \in SUBSET D |-> h[s]] /\ h \in [SUBSET D -> Nat]
  BY <1>3, <1>4 DEF Folds
<1>6. ASSUME NEW s \in SUBSET D PROVE h[s] = IF s = {} THEN 0 ELSE w[Pick(s)] + h[s \ {Pick(s)}]
  <2>1. CASE s = {}
    BY <1>3, <2>1 DEF Folds
  <2>2. CASE s # {}
    <3>1. h[s] = next[<<Pick(s), h[s \ {Pick(s)}]>>]
      BY <1>3, <1>c, <2>2 DEF Folds
    <3>2. Pick(s) \in D /\ s \ {Pick(s)} \in SUBSET D
      BY <1>1, <1>c, <2>2
    <3> QED BY <1>2, <1>4, <2>2, <3>1, <3>2
  <2> QED BY <2>1, <2>2
<1>7. Sums(w, h)
  BY <1>5, <1>6, <1>d DEF Sums
<1> QED BY <1>5, <1>7

\* Taking any element out takes its weight out, whatever the order of the fold.
LEMMA SumsTakeOut ==
    ASSUME NEW D, IsFiniteSet(D), NEW w \in Weights(D), NEW g, Sums(w, g)
    PROVE  /\ g[{}] = 0
           /\ \A s \in SUBSET D : g[s] \in Nat /\ \A x \in s : g[s] = w[x] + g[s \ {x}]
<1>0. /\ DOMAIN w = D /\ \A x \in D : w[x] \in Nat
      /\ \A s \in SUBSET D : g[s] = IF s = {} THEN 0 ELSE w[Pick(s)] + g[s \ {Pick(s)}]
  BY DEF Weights, Sums
<1>1. g[{}] = 0
  BY <1>0
<1> DEFINE Good(s) == g[s] \in Nat /\ \A x \in s : g[s] = w[x] + g[s \ {x}]
           P == {s \in SUBSET D : ~Good(s)}
<1>2. ASSUME P # {} PROVE FALSE
  <2>1. P \in SUBSET (SUBSET D)
    OBVIOUS
  <2>s. \E s \in P : \A r \in P : r \subseteq s => r = s
    <3> HIDE DEF P
    <3> QED BY <1>2, <2>1, Smallest
  <2>2. PICK s \in P : \A r \in P : r \subseteq s => r = s
    BY <2>s
  <2>3. s \in SUBSET D /\ ~Good(s)
    OBVIOUS
  <2>4. ASSUME NEW r \in SUBSET s, r # s PROVE Good(r)
    BY <2>2, <2>3, <2>4
  <2>5. CASE s = {}
    BY <1>1, <2>3, <2>5
  <2>6. CASE s # {}
    <3> DEFINE y == Pick(s)
    <3>1. y \in s /\ g[s] = w[y] + g[s \ {y}] /\ Good(s \ {y}) /\ w[y] \in Nat
      BY <1>0, <2>3, <2>4, <2>6 DEF Pick
    <3>2. g[s] \in Nat
      BY <3>1
    <3> HIDE DEF y
    <3>3. ASSUME NEW x \in s PROVE g[s] = w[x] + g[s \ {x}]
      <4>1. CASE x = y
        BY <3>1, <4>1
      <4>2. CASE x # y
        <5> DEFINE r == s \ {x, y}
        <5>1. s \ {y} # s /\ s \ {x} # s /\ x \in s \ {y} /\ y \in s \ {x}
          BY <3>1, <4>2
        <5>2. Good(s \ {y}) /\ Good(s \ {x}) /\ Good(r)
          BY <2>4, <5>1
        <5>3. (s \ {y}) \ {x} = r /\ (s \ {x}) \ {y} = r
          OBVIOUS
        <5>4. g[s \ {y}] = w[x] + g[r]
          BY <5>1, <5>2, <5>3
        <5>5. g[s \ {x}] = w[y] + g[r]
          BY <5>1, <5>2, <5>3
        <5>6. g[r] \in Nat /\ w[x] \in Nat
          BY <1>0, <2>3, <5>2
        <5> HIDE DEF r
        <5> QED BY <3>1, <5>4, <5>5, <5>6
      <4> QED BY <4>1, <4>2
    <3> QED BY <2>3, <3>2, <3>3
  <2> QED BY <2>5, <2>6
<1>3. \A s \in SUBSET D : Good(s)
  BY <1>2
<1> QED BY <1>1, <1>3

\* A subset weighs no more.
LEMMA SumsGrow ==
    ASSUME NEW D, IsFiniteSet(D), NEW w \in Weights(D), NEW g, Sums(w, g), NEW r \in SUBSET D
    PROVE  g[r] <= g[D]
<1>0. /\ \A s \in SUBSET D : g[s] \in Nat /\ \A x \in s : g[s] = w[x] + g[s \ {x}]
      /\ \A x \in D : w[x] \in Nat
  BY SumsTakeOut DEF Weights
<1> DEFINE P == {s \in SUBSET D : r \subseteq s /\ ~(g[r] <= g[s])}
<1> SUFFICES ASSUME P # {} PROVE FALSE
  OBVIOUS
<1>1. P \in SUBSET (SUBSET D)
  OBVIOUS
<1>s. \E s \in P : \A q \in P : q \subseteq s => q = s
  <2> HIDE DEF P
  <2> QED BY <1>1, Smallest
<1>2. PICK s \in P : \A q \in P : q \subseteq s => q = s
  BY <1>s
<1>3. s \in SUBSET D /\ r \subseteq s /\ ~(g[r] <= g[s])
  OBVIOUS
<1>4. s # r
  BY <1>0, <1>3
<1>5. PICK x \in s : x \notin r
  BY <1>3, <1>4
<1>6. s \ {x} \in SUBSET D /\ r \subseteq s \ {x} /\ s \ {x} # s
  BY <1>3, <1>5
<1>7. g[r] <= g[s \ {x}]
  BY <1>2, <1>6
<1>8. g[s] = w[x] + g[s \ {x}] /\ w[x] \in Nat /\ g[s \ {x}] \in Nat /\ g[r] \in Nat
  BY <1>0, <1>3, <1>6
<1> QED BY <1>3, <1>7, <1>8

\* The sum of a set depends on nothing but its weights.
LEMMA SumsAgree ==
    ASSUME NEW D, IsFiniteSet(D), NEW w \in Weights(D), NEW g, Sums(w, g),
           NEW E, IsFiniteSet(E), NEW v \in Weights(E), NEW h, Sums(v, h),
           NEW r, r \subseteq D, r \subseteq E, \A x \in r : w[x] = v[x]
    PROVE  g[r] = h[r]
<1>0. /\ g[{}] = 0 /\ \A s \in SUBSET D : \A x \in s : g[s] = w[x] + g[s \ {x}]
      /\ h[{}] = 0 /\ \A s \in SUBSET E : \A x \in s : h[s] = v[x] + h[s \ {x}]
  BY SumsTakeOut
<1> DEFINE P == {s \in SUBSET r : g[s] # h[s]}
<1>1. P = {}
  <2> SUFFICES ASSUME P # {} PROVE FALSE
    OBVIOUS
  <2>1. P \in SUBSET (SUBSET D)
    OBVIOUS
  <2>s. \E s \in P : \A q \in P : q \subseteq s => q = s
    <3> HIDE DEF P
    <3> QED BY <2>1, Smallest
  <2>2. PICK s \in P : \A q \in P : q \subseteq s => q = s
    BY <2>s
  <2>3. s \in SUBSET r /\ g[s] # h[s] /\ s \in SUBSET D /\ s \in SUBSET E
    OBVIOUS
  <2>4. s # {}
    BY <1>0, <2>3
  <2>5. PICK x \in s : TRUE
    BY <2>4
  <2>6. s \ {x} \in SUBSET r /\ s \ {x} # s
    BY <2>3
  <2>7. g[s \ {x}] = h[s \ {x}]
    BY <2>2, <2>6
  <2>8. g[s] = w[x] + g[s \ {x}] /\ h[s] = v[x] + h[s \ {x}] /\ w[x] = v[x]
    BY <1>0, <2>3
  <2> QED BY <2>3, <2>7, <2>8
<1> QED BY <1>1

-----------------------------------------------------------------------------
(***************************************************************************)
(* Frames as records, and the size of their headers.                       *)
(***************************************************************************)
Value == Nat \cup {NONE}
HeaderTable == UNION {[D -> Value] : D \in {E \in SUBSET Key : IsFiniteSet(E)}}
Frame ==
    [vars_size : 0 .. Limit - 1, opcode : Opcode, ack : BOOLEAN, headers : HeaderTable,
     data_size : Nat, payload_size : Nat, pos : Nat, completed : BOOLEAN, wild : BOOLEAN]

\* What setting a header leaves alone.
Alike(f, g) ==
    /\ g.opcode = f.opcode /\ g.ack = f.ack /\ g.completed = f.completed
    /\ g.data_size = f.data_size /\ g.payload_size = f.payload_size /\ g.pos = f.pos

LEMMA TableIs ==
    ASSUME NEW h \in HeaderTable
    PROVE  /\ h \in [DOMAIN h -> Value] /\ DOMAIN h \in SUBSET Key /\ IsFiniteSet(DOMAIN h)
           /\ \A k \in DOMAIN h : h[k] \in Value
<1>1. PICK D \in {E \in SUBSET Key : IsFiniteSet(E)} : h \in [D -> Value]
  BY DEF HeaderTable
<1> QED BY <1>1

LEMMA IsTable ==
    ASSUME NEW D \in SUBSET Key, IsFiniteSet(D), NEW h \in [D -> Value]
    PROVE  h \in HeaderTable
BY DEF HeaderTable

LEMMA FrameIs == \A f \in Frame : IsFrame(f)
<1> SUFFICES ASSUME NEW f \in Frame PROVE IsFrame(f)
  OBVIOUS
<1>1. DOMAIN f = DOMAIN EmptyFrame
  BY DEF Frame, EmptyFrame
<1>2. f.headers \in HeaderTable
  BY DEF Frame
<1>3. DOMAIN f.headers \subseteq Key /\ \A k \in DOMAIN f.headers : f.headers[k] \in Nat \cup {NONE}
  BY <1>2, TableIs DEF Value
<1> QED BY <1>1, <1>3 DEF Frame, IsFrame

\* WithHeader sets one header and nothing else.
LEMMA WithHeaderIs ==
    ASSUME NEW f \in Frame, NEW k \in Key, NEW u \in Value, NEW g, g = WithHeader(f, k, u)
    PROVE  /\ g \in Frame /\ Alike(f, g) /\ g.vars_size = f.vars_size /\ g.wild = f.wild
           /\ DOMAIN g.headers = DOMAIN f.headers \cup {k} /\ g.headers[k] = u
           /\ \A j \in DOMAIN f.headers : j # k => g.headers[j] = f.headers[j]
<1> DEFINE h == [j \in DOMAIN f.headers \cup {k} |-> IF j = k THEN u ELSE f.headers[j]]
<1>0. f.headers \in HeaderTable
  BY DEF Frame
<1>1. DOMAIN f.headers \in SUBSET Key /\ IsFiniteSet(DOMAIN f.headers) /\ \A j \in DOMAIN f.headers : f.headers[j] \in Value
  BY <1>0, TableIs
<1>2. DOMAIN f.headers \cup {k} \in SUBSET Key /\ IsFiniteSet(DOMAIN f.headers \cup {k})
  BY <1>1, FS_AddElement
<1>3. h \in [DOMAIN f.headers \cup {k} -> Value]
  BY <1>1
<1>4. h \in HeaderTable
  <2> HIDE DEF h
  <2> QED BY <1>2, <1>3, IsTable
<1>5. g = [f EXCEPT !.headers = h]
  BY DEF WithHeader
<1>6. /\ DOMAIN h = DOMAIN f.headers \cup {k} /\ h[k] = u
      /\ \A j \in DOMAIN f.headers : j # k => h[j] = f.headers[j]
  OBVIOUS
<1> HIDE DEF h
<1>7. g \in Frame /\ g.headers = h /\ Alike(f, g) /\ g.vars_size = f.vars_size /\ g.wild = f.wild
  BY <1>4, <1>5 DEF Frame, Alike
<1> QED BY <1>6, <1>7

\* The weights of the headers; one that was set to nothing counts as empty.
Length(u) == IF u = NONE THEN 0 ELSE u
Weigh(f) == [k \in DOMAIN f.headers |-> HeaderBytes(k, Length(f.headers[k]))]
Sized(f) == \E g : Sums(Weigh(f), g) /\ f.vars_size = g[DOMAIN f.headers]

LEMMA WeighIs ==
    ASSUME NEW f \in Frame
    PROVE  /\ Weigh(f) \in Weights(DOMAIN f.headers) /\ IsFiniteSet(DOMAIN f.headers)
           /\ DOMAIN f.headers \subseteq Key
           /\ \A k \in DOMAIN f.headers :
                 /\ Weigh(f)[k] = KeyLen[k] + Length(f.headers[k]) + 5
                 /\ Length(f.headers[k]) \in Nat /\ KeyLen[k] \in Nat
<1>0. f.headers \in HeaderTable
  BY DEF Frame
<1>1. /\ DOMAIN f.headers \in SUBSET Key /\ IsFiniteSet(DOMAIN f.headers)
      /\ \A k \in DOMAIN f.headers : f.headers[k] \in Value
  BY <1>0, TableIs
<1>2. \A k \in DOMAIN f.headers : Length(f.headers[k]) \in Nat /\ KeyLen[k] \in Nat
  BY <1>1, FramesAssumption DEF Length, Value
<1> QED BY <1>1, <1>2 DEF Weigh, Weights, HeaderBytes

\* Setting one header changes the size by the difference of its weights.
LEMMA SizedSet ==
    ASSUME NEW f \in Frame, NEW g \in Frame, NEW k, Sized(f),
           DOMAIN g.headers = DOMAIN f.headers \cup {k},
           \A j \in DOMAIN f.headers : j # k => g.headers[j] = f.headers[j],
           g.vars_size = f.vars_size - (IF k \in DOMAIN f.headers THEN Weigh(f)[k] ELSE 0) + Weigh(g)[k]
    PROVE  Sized(g)
<1> DEFINE D == DOMAIN f.headers
           E == DOMAIN g.headers
           w == Weigh(f)
           v == Weigh(g)
<1>1. w \in Weights(D) /\ IsFiniteSet(D) /\ v \in Weights(E) /\ IsFiniteSet(E)
  BY WeighIs
<1>2. PICK a : Sums(w, a) /\ f.vars_size = a[D]
  BY DEF Sized
<1>3. PICK b : Sums(v, b)
  BY <1>1, SumsExist
<1>4. E = D \cup {k} /\ \A j \in D \ {k} : v[j] = w[j]
  BY DEF Weigh
<1>5. \A s \in SUBSET D : a[s] \in Nat /\ \A x \in s : a[s] = w[x] + a[s \ {x}]
  <2> HIDE DEF w, v, D, E
  <2> QED BY <1>1, <1>2, SumsTakeOut
<1>b. \A s \in SUBSET E : b[s] \in Nat /\ \A x \in s : b[s] = v[x] + b[s \ {x}]
  <2> HIDE DEF w, v, D, E
  <2> QED BY <1>1, <1>3, SumsTakeOut
<1>6. b[D \ {k}] = a[D \ {k}]
  <2>1. D \ {k} \subseteq D /\ D \ {k} \subseteq E /\ \A j \in D \ {k} : w[j] = v[j]
    BY <1>4
  <2> DEFINE r == D \ {k}
  <2> HIDE DEF w, v, D, E, r
  <2> QED BY <1>1, <1>2, <1>3, <2>1, SumsAgree DEF r
<1>7. b[E] = v[k] + b[D \ {k}] /\ v[k] \in Nat
  <2>1. E \ {k} = D \ {k} /\ k \in E /\ E \in SUBSET E
    BY <1>4
  <2>2. v[k] \in Nat
    BY <1>1, <2>1 DEF Weights
  <2> HIDE DEF w, v, D, E
  <2>3. b[E] = v[k] + b[E \ {k}]
    BY <1>b, <2>1
  <2> QED BY <2>1, <2>2, <2>3
<1>8. a[D] = (IF k \in D THEN w[k] ELSE 0) + a[D \ {k}] /\ a[D \ {k}] \in Nat /\ (k \in D => w[k] \in Nat)
  <2>0. D \in SUBSET D /\ D \ {k} \in SUBSET D
    OBVIOUS
  <2>3. k \in D => w[k] \in Nat
    BY <1>1 DEF Weights
  <2> HIDE DEF w, v, D, E
  <2>4. a[D] \in Nat /\ a[D \ {k}] \in Nat
    BY <1>5, <2>0
  <2>1. CASE k \in D
    BY <1>5, <2>0, <2>1, <2>3, <2>4
  <2>2. CASE k \notin D
    <3>1. D \ {k} = D
      BY <2>2
    <3>2. a[D] = a[D \ {k}]
      BY <3>1
    <3>3. (IF k \in D THEN w[k] ELSE 0) = 0
      BY <2>2
    <3> QED BY <2>2, <2>4, <3>2, <3>3
  <2> QED BY <2>1, <2>2
<1>9. g.vars_size = a[D] - (IF k \in D THEN w[k] ELSE 0) + v[k]
  BY <1>2
<1> HIDE DEF w, v, D, E
<1>10. g.vars_size = b[E]
  BY <1>6, <1>7, <1>8, <1>9
<1> QED BY <1>3, <1>10 DEF Sized, E, v

\* No header is longer than all of them.
LEMMA SizedBound ==
    ASSUME NEW f \in Frame, Sized(f), NEW k \in DOMAIN f.headers
    PROVE  Weigh(f)[k] <= f.vars_size
<1> DEFINE D == DOMAIN f.headers
           w == Weigh(f)
<1>1. w \in Weights(D) /\ IsFiniteSet(D) /\ k \in D
  BY WeighIs
<1>2. PICK a : Sums(w, a) /\ f.vars_size = a[D]
  BY DEF Sized
<1> HIDE DEF w, D
<1>3. \A s \in SUBSET D : a[s] \in Nat /\ \A x \in s : a[s] = w[x] + a[s \ {x}]
  BY <1>1, <1>2, SumsTakeOut
<1>4. a[D] = w[k] + a[D \ {k}] /\ a[D \ {k}] \in Nat /\ w[k] \in Nat
  BY <1>1, <1>3 DEF Weights
<1> QED BY <1>2, <1>4 DEF w

\* A frame without headers has size 0, and the size is what Bytes computes when
\* every header has a value.
LEMMA SizedEmpty ==
    ASSUME NEW f \in Frame, DOMAIN f.headers = {}
    PROVE  Sized(f) <=> f.vars_size = 0
<1>1. Weigh(f) \in Weights({}) /\ IsFiniteSet({})
  BY WeighIs, FS_EmptySet
<1>2. \A g : Sums(Weigh(f), g) => g[{}] = 0
  BY <1>1, SumsTakeOut
<1>3. \E g : Sums(Weigh(f), g)
  BY <1>1, SumsExist
<1> QED BY <1>2, <1>3 DEF Sized

LEMMA SizedBytes ==
    ASSUME NEW f \in Frame, Sized(f), ~Junk(f)
    PROVE  f.vars_size = Bytes(f.headers)
<1> DEFINE h == f.headers
           D == DOMAIN h
           w == Weigh(f)
           It(g) == g = [s \in SUBSET D |->
                          IF s = {} THEN 0
                          ELSE HeaderBytes(CHOOSE x \in s : TRUE, h[CHOOSE x \in s : TRUE])
                               + g[s \ {CHOOSE x \in s : TRUE}]]
<1>1. w \in Weights(D) /\ IsFiniteSet(D)
  BY WeighIs
<1>2. Bytes(h) = (CHOOSE g : It(g))[D]
  BY DEF Bytes, MapThenSumSet, MapThenFoldSet
<1>3. \A k \in D : w[k] = HeaderBytes(k, h[k])
  BY DEF Weigh, Junk, Length
<1>4. DOMAIN w = D
  BY DEF Weigh
<1>5. \A g : It(g) <=> Sums(w, g)
  <2> SUFFICES ASSUME NEW g PROVE It(g) <=> Sums(w, g)
    OBVIOUS
  <2>1. \A s \in SUBSET D : s # {} => (CHOOSE x \in s : TRUE) \in D /\ Pick(s) = CHOOSE x \in s : TRUE
    BY DEF Pick
  <2>2. ASSUME NEW s \in SUBSET D
        PROVE  (IF s = {} THEN 0 ELSE HeaderBytes(CHOOSE x \in s : TRUE, h[CHOOSE x \in s : TRUE])
                                      + g[s \ {CHOOSE x \in s : TRUE}])
                 = (IF s = {} THEN 0 ELSE w[Pick(s)] + g[s \ {Pick(s)}])
    <3>1. CASE s = {}
      BY <3>1
    <3>2. CASE s # {}
      <4>1. (CHOOSE x \in s : TRUE) = Pick(s) /\ Pick(s) \in D
        BY <2>1, <3>2
      <4>2. w[Pick(s)] = HeaderBytes(Pick(s), h[Pick(s)])
        BY <1>3, <4>1
      <4> HIDE DEF w, h, D
      <4> QED BY <3>2, <4>1, <4>2
    <3> QED BY <3>1, <3>2
  <2> QED BY <1>4, <2>2 DEF Sums
<1> HIDE DEF w, It
<1>6. PICK a : Sums(w, a) /\ f.vars_size = a[D]
  BY DEF Sized, w
<1>7. It(CHOOSE g : It(g))
  BY <1>5, <1>6
<1>8. Sums(w, CHOOSE g : It(g))
  BY <1>5, <1>7
<1> DEFINE c == CHOOSE g : It(g)
<1>9. Sums(w, c)
  BY <1>8
<1> HIDE DEF c, D
<1>10. c[D] = a[D]
  BY <1>1, <1>6, <1>9, SumsAgree
<1> QED BY <1>2, <1>6, <1>10 DEF c, D

-----------------------------------------------------------------------------
(***************************************************************************)
(* What frame__set_var_header does, by the way it takes.                   *)
(***************************************************************************)
Result == [ok : BOOLEAN, f : Frame]

\* No pointer that was never set, and none will be made by copying.
Clean(f) == ~f.wild /\ \A k \in DOMAIN f.headers : f.headers[k] \in Nat \ {0}

\* g is f with header k set to u.
Puts(f, g, k, u) ==
    /\ g \in Frame /\ Alike(f, g) /\ g.wild = f.wild
    /\ DOMAIN g.headers = DOMAIN f.headers \cup {k} /\ g.headers[k] = u
    /\ \A j \in DOMAIN f.headers : j # k => g.headers[j] = f.headers[j]

Refuses(f, k, v, r) == r.ok = FALSE /\ r.f = f /\ (KeyLen[k] > 0 => f.vars_size + HeaderBytes(k, v) >= Limit)
Adds(f, k, v, r) ==
    /\ r.ok = TRUE /\ k \notin DOMAIN f.headers /\ KeyLen[k] > 0
    /\ Puts(f, r.f, k, IF v = 0 THEN NONE ELSE v)
    /\ r.f.vars_size = f.vars_size + HeaderBytes(k, v)
Follows(f, k, r) ==
    /\ r.ok = FALSE /\ k \in DOMAIN f.headers /\ f.headers[k] = NONE
    /\ r.f \in Frame /\ Alike(f, r.f) /\ r.f.wild = TRUE
    /\ r.f.headers = f.headers /\ r.f.vars_size = f.vars_size
Replaces(f, k, v, r) ==
    /\ k \in DOMAIN f.headers /\ f.headers[k] \in Nat /\ KeyLen[k] > 0
    /\ Puts(f, r.f, k, v)
    /\ LET size == (f.vars_size - f.headers[k]) % Limit
       IN /\ r.ok = (size + v < Limit)
          /\ r.f.vars_size = IF r.ok THEN size + v ELSE size

LEMMA SetWays ==
    ASSUME NEW f \in Frame, NEW k \in Key, NEW v \in Nat, NEW r, r = SetVarHeader(f, k, v)
    PROVE  /\ r \in Result
           /\ Refuses(f, k, v, r) \/ Adds(f, k, v, r) \/ Follows(f, k, r) \/ Replaces(f, k, v, r)
<1>0. /\ KeyLen[k] \in Nat /\ Limit \in Nat /\ Limit > 0 /\ f.vars_size \in 0 .. Limit - 1
      /\ f.headers \in HeaderTable /\ v \in Value
      /\ HeaderBytes(k, v) \in Nat
  BY FramesAssumption DEF Frame, Value, HeaderBytes
<1>1. \A j \in DOMAIN f.headers : f.headers[j] \in Value
  BY <1>0, TableIs
<1>2. CASE KeyLen[k] = 0
  <2>1. r = [ok |-> FALSE, f |-> f]
    BY <1>2 DEF SetVarHeader
  <2> QED BY <1>2, <2>1 DEF Result, Refuses
<1>3. CASE KeyLen[k] # 0 /\ k \notin DOMAIN f.headers
  <2> DEFINE u == IF v = 0 THEN NONE ELSE v
             g == WithHeader(f, k, u)
  <2>1. r = AddHeader(f, k, v)
    BY <1>3 DEF SetVarHeader
  <2>2. CASE f.vars_size + HeaderBytes(k, v) < Limit
    <3>1. u \in Value
      BY DEF Value
    <3> HIDE DEF u
    <3>2. /\ g \in Frame /\ Alike(f, g) /\ g.vars_size = f.vars_size /\ g.wild = f.wild
          /\ DOMAIN g.headers = DOMAIN f.headers \cup {k} /\ g.headers[k] = u
          /\ \A j \in DOMAIN f.headers : j # k => g.headers[j] = f.headers[j]
      BY <3>1, WithHeaderIs
    <3>3. r = [ok |-> TRUE, f |-> [g EXCEPT !.vars_size = g.vars_size + HeaderBytes(k, v)]]
      BY <2>1, <2>2 DEF AddHeader, u
    <3>4. g.vars_size + HeaderBytes(k, v) \in 0 .. Limit - 1
      BY <1>0, <2>2, <3>2
    <3> HIDE DEF g
    <3>5. /\ r.ok = TRUE /\ r.f \in Frame /\ r \in Result /\ r.f.headers = g.headers
          /\ r.f.vars_size = f.vars_size + HeaderBytes(k, v) /\ r.f.wild = g.wild /\ Alike(g, r.f)
      BY <3>2, <3>3, <3>4 DEF Frame, Result, Alike
    <3>6. Alike(f, r.f)
      BY <3>2, <3>5 DEF Alike
    <3>7. Puts(f, r.f, k, u)
      BY <3>2, <3>5, <3>6 DEF Puts
    <3>8. KeyLen[k] > 0
      BY <1>0, <1>3
    <3> QED BY <1>3, <3>5, <3>7, <3>8 DEF Adds, u
  <2>3. CASE ~(f.vars_size + HeaderBytes(k, v) < Limit)
    <3>1. r = [ok |-> FALSE, f |-> f]
      BY <2>1, <2>3 DEF AddHeader
    <3>2. f.vars_size + HeaderBytes(k, v) >= Limit
      BY <1>0, <2>3
    <3> QED BY <3>1, <3>2 DEF Result, Refuses
  <2> QED BY <2>2, <2>3
<1>4. CASE KeyLen[k] # 0 /\ k \in DOMAIN f.headers /\ f.headers[k] = NONE
  <2>1. r = [ok |-> FALSE, f |-> [f EXCEPT !.wild = TRUE]]
    BY <1>4 DEF SetVarHeader
  <2>2. /\ r \in Result /\ r.ok = FALSE /\ r.f \in Frame /\ Alike(f, r.f) /\ r.f.wild = TRUE
        /\ r.f.headers = f.headers /\ r.f.vars_size = f.vars_size
    <3> DEFINE g == [f EXCEPT !.wild = TRUE]
    <3>1. /\ g \in Frame /\ Alike(f, g) /\ g.wild = TRUE
          /\ g.headers = f.headers /\ g.vars_size = f.vars_size
      BY DEF Frame, Alike
    <3>2. r = [ok |-> FALSE, f |-> g]
      BY <2>1
    <3> HIDE DEF g
    <3>3. r.ok = FALSE /\ r.f = g /\ r \in Result
      BY <3>1, <3>2 DEF Result
    <3> QED BY <3>1, <3>3
  <2> QED BY <1>4, <2>2 DEF Follows
<1>5. CASE KeyLen[k] # 0 /\ k \in DOMAIN f.headers /\ f.headers[k] # NONE
  <2> DEFINE size == (f.vars_size - f.headers[k]) % Limit
             g == WithHeader(f, k, v)
             n == IF size + v < Limit THEN size + v ELSE size
  <2>1. f.headers[k] \in Nat
    BY <1>1, <1>5 DEF Value
  <2>2. /\ g \in Frame /\ Alike(f, g) /\ g.vars_size = f.vars_size /\ g.wild = f.wild
        /\ DOMAIN g.headers = DOMAIN f.headers \cup {k} /\ g.headers[k] = v
        /\ \A j \in DOMAIN f.headers : j # k => g.headers[j] = f.headers[j]
    BY <1>0, WithHeaderIs
  <2>3. r = [ok |-> size + v < Limit, f |-> [g EXCEPT !.vars_size = n]]
    BY <1>5 DEF SetVarHeader, ReplaceHeader
  <2>4. size \in 0 .. Limit - 1
    BY <1>0, <2>1
  <2> HIDE DEF size
  <2>5. n \in 0 .. Limit - 1
    BY <1>0, <2>4
  <2> HIDE DEF g
  <2>6. r.ok = (size + v < Limit) /\ r.f = [g EXCEPT !.vars_size = n] /\ r = [ok |-> r.ok, f |-> r.f]
    BY <2>3
  <2>7. r.ok \in BOOLEAN
    BY <2>6
  <2>8. r.f.vars_size = IF r.ok THEN size + v ELSE size
    BY <2>2, <2>6 DEF Frame
  <2> HIDE DEF n
  <2>9. r.f \in Frame /\ r.f.headers = g.headers /\ r.f.wild = g.wild /\ Alike(g, r.f)
    BY <2>2, <2>5, <2>6 DEF Frame, Alike
  <2>10. r \in Result
    BY <2>6, <2>7, <2>9 DEF Result
  <2>11. Alike(f, r.f)
    BY <2>2, <2>9 DEF Alike
  <2>12. Puts(f, r.f, k, v)
    BY <2>2, <2>9, <2>11 DEF Puts
  <2>13. KeyLen[k] > 0
    BY <1>0, <1>5
  <2> QED BY <1>5, <2>1, <2>6, <2>8, <2>10, <2>12, <2>13 DEF Replaces, size
<1> QED BY <1>2, <1>3, <1>4, <1>5

\* Whatever happens to a header, the others stay.
Sets(f, k, v, r) ==
    /\ r \in Result /\ r.f \in Frame /\ Alike(f, r.f)
    /\ DOMAIN r.f.headers \in {DOMAIN f.headers, DOMAIN f.headers \cup {k}}
    /\ \A j \in DOMAIN f.headers : j # k => r.f.headers[j] = f.headers[j]
    /\ r.ok => /\ KeyLen[k] > 0 /\ r.f.wild = f.wild
               /\ k \in DOMAIN r.f.headers /\ r.f.headers[k] \in {v, NONE}
    /\ ~(k \in DOMAIN f.headers /\ f.headers[k] = NONE) => r.f.wild = f.wild
    /\ f.wild => r.f.wild
    /\ Clean(f) /\ v # 0 => Clean(r.f)

LEMMA SetIs == \A f \in Frame, k \in Key, v \in Nat : Sets(f, k, v, SetVarHeader(f, k, v))
<1> SUFFICES ASSUME NEW f \in Frame, NEW k \in Key, NEW v \in Nat, NEW r, r = SetVarHeader(f, k, v)
             PROVE  Sets(f, k, v, r)
  OBVIOUS
<1> USE DEF Sets
<1>0. r \in Result /\ r.f \in Frame /\ f.wild \in BOOLEAN
  BY SetWays DEF Result, Frame
<1>1. CASE Refuses(f, k, v, r)
  <2>1. r.ok = FALSE /\ r.f = f
    BY <1>1 DEF Refuses
  <2> QED BY <1>0, <2>1 DEF Alike
<1>2. CASE Follows(f, k, r)
  <2>1. Clean(f) => FALSE
    BY <1>2, FramesAssumption DEF Follows, Clean
  <2> QED BY <1>0, <1>2, <2>1 DEF Follows
<1>3. ASSUME NEW u \in {v, NONE}, Puts(f, r.f, k, u), KeyLen[k] > 0, u = NONE => v = 0
      PROVE  /\ Alike(f, r.f) /\ DOMAIN r.f.headers = DOMAIN f.headers \cup {k}
             /\ \A j \in DOMAIN f.headers : j # k => r.f.headers[j] = f.headers[j]
             /\ KeyLen[k] > 0 /\ r.f.wild = f.wild /\ k \in DOMAIN r.f.headers /\ r.f.headers[k] \in {v, NONE}
             /\ Clean(f) /\ v # 0 => Clean(r.f)
  <2>1. ASSUME Clean(f), v # 0 PROVE Clean(r.f)
    <3>1. u \in Nat \ {0}
      BY <1>3, <2>1
    <3> QED BY <1>3, <2>1, <3>1 DEF Clean, Puts
  <2> QED BY <1>3, <2>1 DEF Puts
<1>4. CASE Adds(f, k, v, r)
  <2> DEFINE u == IF v = 0 THEN NONE ELSE v
  <2>1. u \in {v, NONE} /\ Puts(f, r.f, k, u) /\ KeyLen[k] > 0 /\ (u = NONE => v = 0)
    BY <1>4, FramesAssumption DEF Adds
  <2> QED BY <1>0, <1>3, <2>1
<1>5. CASE Replaces(f, k, v, r)
  <2>1. Puts(f, r.f, k, v) /\ KeyLen[k] > 0 /\ (v = NONE => v = 0)
    BY <1>5, FramesAssumption DEF Replaces
  <2> QED BY <1>0, <1>3, <2>1
<1> QED BY <1>1, <1>2, <1>4, <1>5, SetWays

\* A header that is set is counted, and a value that is replaced no longer is.
Counts(f, k, v, r) ==
    /\ r.ok => Sized(r.f)
    /\ f.vars_size + HeaderBytes(k, v) < Limit =>
          /\ Sized(r.f) /\ r.f.vars_size <= f.vars_size + HeaderBytes(k, v)
          /\ KeyLen[k] > 0 => r.ok \/ r.f.wild

LEMMA SetSized ==
    \A f \in Frame, k \in Key, v \in Nat : Sized(f) => Counts(f, k, v, SetVarHeader(f, k, v))
<1> SUFFICES ASSUME NEW f \in Frame, Sized(f), NEW k \in Key, NEW v \in Nat, NEW r, r = SetVarHeader(f, k, v)
             PROVE  Counts(f, k, v, r)
  OBVIOUS
<1> USE DEF Counts
<1>0. /\ KeyLen[k] \in Nat /\ Limit \in Nat /\ Limit > 0 /\ f.vars_size \in 0 .. Limit - 1
      /\ HeaderBytes(k, v) = KeyLen[k] + v + 5
  BY FramesAssumption DEF Frame, HeaderBytes
<1>1. r.f \in Frame /\ r \in Result
  BY SetWays DEF Result
<1>2. CASE Refuses(f, k, v, r)
  <2>1. r.ok = FALSE /\ r.f = f /\ (KeyLen[k] > 0 => f.vars_size + HeaderBytes(k, v) >= Limit)
    BY <1>2 DEF Refuses
  <2>2. f.vars_size <= f.vars_size + HeaderBytes(k, v)
    BY <1>0
  <2>3. f.vars_size + HeaderBytes(k, v) < Limit => ~(KeyLen[k] > 0)
    BY <1>0, <2>1
  <2> QED BY <2>1, <2>2, <2>3
<1>3. CASE Follows(f, k, r)
  <2>1. Weigh(r.f) = Weigh(f) /\ r.f.vars_size = f.vars_size /\ r.f.headers = f.headers /\ r.ok = FALSE /\ r.f.wild
    BY <1>3 DEF Follows, Weigh
  <2>2. Sized(r.f)
    BY <2>1 DEF Sized
  <2>3. f.vars_size <= f.vars_size + HeaderBytes(k, v)
    BY <1>0
  <2> QED BY <2>1, <2>2, <2>3
<1>4. CASE Adds(f, k, v, r)
  <2>1. /\ DOMAIN r.f.headers = DOMAIN f.headers \cup {k} /\ k \notin DOMAIN f.headers
        /\ \A j \in DOMAIN f.headers : j # k => r.f.headers[j] = f.headers[j]
        /\ r.f.headers[k] = IF v = 0 THEN NONE ELSE v
    BY <1>4 DEF Adds, Puts
  <2>2. Length(r.f.headers[k]) = v
    BY <2>1, FramesAssumption DEF Length
  <2>3. Weigh(r.f)[k] = HeaderBytes(k, v)
    BY <2>1, <2>2 DEF Weigh
  <2>4. r.f.vars_size = f.vars_size + HeaderBytes(k, v)
    BY <1>4 DEF Adds
  <2>5. r.f.vars_size = f.vars_size - (IF k \in DOMAIN f.headers THEN Weigh(f)[k] ELSE 0) + Weigh(r.f)[k]
    BY <1>0, <2>1, <2>3, <2>4
  <2>6. Sized(r.f)
    BY <1>1, <2>1, <2>5, SizedSet
  <2>7. r.ok /\ r.f.vars_size <= f.vars_size + HeaderBytes(k, v)
    BY <1>0, <1>4, <2>4 DEF Adds
  <2> QED BY <2>6, <2>7
<1>5. CASE Replaces(f, k, v, r)
  <2> DEFINE old == f.headers[k]
  <2>1. /\ DOMAIN r.f.headers = DOMAIN f.headers \cup {k} /\ k \in DOMAIN f.headers /\ old \in Nat
        /\ \A j \in DOMAIN f.headers : j # k => r.f.headers[j] = f.headers[j]
        /\ r.f.headers[k] = v
    BY <1>5 DEF Replaces, Puts
  <2>2. Length(r.f.headers[k]) = v /\ Length(old) = old
    BY <2>1, FramesAssumption DEF Length
  <2>3. Weigh(r.f)[k] = KeyLen[k] + v + 5 /\ Weigh(f)[k] = KeyLen[k] + old + 5
    BY <2>1, <2>2 DEF Weigh, HeaderBytes
  <2>4. Weigh(f)[k] <= f.vars_size
    BY <2>1, SizedBound
  <2>5. (f.vars_size - old) % Limit = f.vars_size - old
    BY <1>0, <2>1, <2>3, <2>4
  <2>6. /\ r.ok = (f.vars_size - old + v < Limit)
        /\ r.f.vars_size = IF r.ok THEN f.vars_size - old + v ELSE f.vars_size - old
    BY <1>5, <2>5 DEF Replaces
  <2>7. ASSUME r.ok PROVE Sized(r.f)
    <3>1. r.f.vars_size = f.vars_size - old + v
      BY <2>6, <2>7
    <3>2. r.f.vars_size = f.vars_size - (IF k \in DOMAIN f.headers THEN Weigh(f)[k] ELSE 0) + Weigh(r.f)[k]
      BY <1>0, <2>1, <2>3, <3>1
    <3> QED BY <1>1, <2>1, <3>2, SizedSet
  <2>8. ASSUME f.vars_size + HeaderBytes(k, v) < Limit
        PROVE  r.ok /\ r.f.vars_size <= f.vars_size + HeaderBytes(k, v)
    <3>1. f.vars_size - old + v < Limit
      BY <1>0, <2>1, <2>8
    <3>2. r.f.vars_size = f.vars_size - old + v /\ r.ok
      BY <2>6, <3>1
    <3> QED BY <1>0, <2>1, <3>2
  <2> QED BY <2>7, <2>8
<1> QED BY <1>2, <1>3, <1>4, <1>5, SetWays

-----------------------------------------------------------------------------
(***************************************************************************)
(* frame__parse_var_header: one header of the wire after the other.        *)
(***************************************************************************)
Headers == Seq(Key \X Nat)

\* The way FoldLeft takes the headers: the last index last.
LEMMA MaxIs ==
    ASSUME NEW n \in Nat, NEW s \in SUBSET (1 .. n), s # {}
    PROVE  Max(s) \in s /\ \A j \in s : j <= Max(s)
<1> DEFINE Above(i) == {j \in s : j > i}
           P == {Above(i) : i \in s}
<1>i. \A i \in s : i \in Int
  OBVIOUS
<1>0. \A i, j \in s : j \in Above(i) <=> j > i
  OBVIOUS
<1>a. \A i \in s : Above(i) \in SUBSET s
  OBVIOUS
<1>1. P \in SUBSET (SUBSET (1 .. n)) /\ P # {}
  <2> HIDE DEF Above
  <2> QED BY <1>a
<1>f. IsFiniteSet(1 .. n)
  BY FS_Interval
<1>2. \E T \in P : \A U \in P : U \subseteq T => U = T
  <2> DEFINE S == 1 .. n
  <2>1. IsFiniteSet(S) /\ P \in SUBSET (SUBSET S) /\ P # {}
    BY <1>1, <1>f
  <2> HIDE DEF P, S
  <2> QED BY <2>1, Smallest
<1>3. \E i \in s : \A j \in s : Above(j) \subseteq Above(i) => Above(j) = Above(i)
  <2> HIDE DEF Above
  <2> QED BY <1>2
<1>p. PICK i \in s : \A j \in s : Above(j) \subseteq Above(i) => Above(j) = Above(i)
  BY <1>3
<1>4. ASSUME NEW j \in s, j > i PROVE FALSE
  <2>1. j \in Above(i) /\ j \notin Above(j)
    BY <1>0, <1>4, <1>i
  <2>2. \A m \in s : m \in Above(j) => m \in Above(i)
    BY <1>0, <1>4, <1>i
  <2> HIDE DEF Above
  <2>3. Above(j) \subseteq Above(i)
    BY <1>a, <2>2
  <2> QED BY <1>p, <2>1, <2>3
<1>5. \A j \in s : i >= j
  BY <1>4
<1>6. \E x \in s : \A y \in s : x >= y
  BY <1>5
<1>7. Max(s) \in s /\ \A y \in s : Max(s) >= y
  BY <1>6 DEF Max
<1> QED BY <1>7

WireWeights(hs) == [i \in DOMAIN hs |-> HeaderBytes(hs[i][1], hs[i][2])]

LEMMA HeadersAre ==
    ASSUME NEW hs \in Headers
    PROVE  /\ Len(hs) \in Nat /\ DOMAIN hs = 1 .. Len(hs) /\ IsFiniteSet(DOMAIN hs)
           /\ \A i \in DOMAIN hs : hs[i] = <<hs[i][1], hs[i][2]>> /\ hs[i][1] \in Key /\ hs[i][2] \in Nat
           /\ WireWeights(hs) \in Weights(DOMAIN hs)
           /\ \A i \in DOMAIN hs : WireWeights(hs)[i] = HeaderBytes(hs[i][1], hs[i][2])
<1>1. Len(hs) \in Nat /\ DOMAIN hs = 1 .. Len(hs) /\ \A i \in DOMAIN hs : hs[i] \in Key \X Nat
  BY DEF Headers
<1>2. IsFiniteSet(DOMAIN hs)
  BY <1>1, FS_Interval
<1>3. \A i \in DOMAIN hs : hs[i] = <<hs[i][1], hs[i][2]>> /\ hs[i][1] \in Key /\ hs[i][2] \in Nat
  BY <1>1
<1>4. \A i \in DOMAIN hs : HeaderBytes(hs[i][1], hs[i][2]) \in Nat
  BY <1>3, FramesAssumption DEF HeaderBytes
<1> QED BY <1>1, <1>2, <1>3, <1>4 DEF WireWeights, Weights

\* TextBytes is the sum of these weights.
LEMMA TextIs ==
    ASSUME NEW hs \in Headers
    PROVE  \E g : Sums(WireWeights(hs), g) /\ TextBytes(hs) = g[DOMAIN hs]
<1> DEFINE D == DOMAIN hs
           w == WireWeights(hs)
           It(g) == g = [s \in SUBSET D |->
                          IF s = {} THEN 0
                          ELSE HeaderBytes(hs[CHOOSE x \in s : TRUE][1], hs[CHOOSE x \in s : TRUE][2])
                               + g[s \ {CHOOSE x \in s : TRUE}]]
<1>1. w \in Weights(D) /\ IsFiniteSet(D) /\ \A i \in D : w[i] = HeaderBytes(hs[i][1], hs[i][2])
  BY HeadersAre
<1>2. TextBytes(hs) = (CHOOSE g : It(g))[D]
  BY DEF TextBytes, MapThenSumSet, MapThenFoldSet
<1>4. DOMAIN w = D
  BY DEF WireWeights
<1>5. \A g : It(g) <=> Sums(w, g)
  <2> SUFFICES ASSUME NEW g PROVE It(g) <=> Sums(w, g)
    OBVIOUS
  <2>1. \A s \in SUBSET D : s # {} => (CHOOSE x \in s : TRUE) \in D /\ Pick(s) = CHOOSE x \in s : TRUE
    BY DEF Pick
  <2>2. ASSUME NEW s \in SUBSET D
        PROVE  (IF s = {} THEN 0 ELSE HeaderBytes(hs[CHOOSE x \in s : TRUE][1], hs[CHOOSE x \in s : TRUE][2])
                                      + g[s \ {CHOOSE x \in s : TRUE}])
                 = (IF s = {} THEN 0 ELSE w[Pick(s)] + g[s \ {Pick(s)}])
    <3>1. CASE s = {}
      BY <3>1
    <3>2. CASE s # {}
      <4>1. (CHOOSE x \in s : TRUE) = Pick(s) /\ Pick(s) \in D
        BY <2>1, <3>2
      <4>2. w[Pick(s)] = HeaderBytes(hs[Pick(s)][1], hs[Pick(s)][2])
        BY <1>1, <4>1
      <4> HIDE DEF w, D
      <4> QED BY <3>2, <4>1, <4>2
    <3> QED BY <3>1, <3>2
  <2> QED BY <1>4, <2>2 DEF Sums
<1> HIDE DEF w, It, D
<1>6. \E g : Sums(w, g)
  BY <1>1, SumsExist
<1>7. It(CHOOSE g : It(g))
  BY <1>5, <1>6
<1>8. Sums(w, CHOOSE g : It(g))
  BY <1>5, <1>7
<1> QED BY <1>2, <1>8 DEF w, D

\* The frames on the way, one for each set of headers that have been taken.
Parsing(f, hs, h) ==
    \A s \in SUBSET (DOMAIN hs) :
        h[s] = IF s = {} THEN f ELSE SetVarHeader(h[s \ {Max(s)}], hs[Max(s)][1], hs[Max(s)][2]).f

LEMMA ParseIs ==
    ASSUME NEW f \in Frame, NEW hs \in Headers
    PROVE  \E h : Parsing(f, hs, h) /\ ParseVarHeader(f, hs) = h[DOMAIN hs]
<1> DEFINE D == DOMAIN hs
           It(g) == g = [s \in SUBSET D |->
                          IF s = {} THEN f
                          ELSE SetVarHeader(g[s \ {Max(s)}], hs[Max(s)][1], hs[Max(s)][2]).f]
           c == [s \in SUBSET D |-> Max(s)]
           next == [p \in D \X Frame |-> SetVarHeader(p[2], hs[p[1]][1], hs[p[1]][2]).f]
<1>1. ParseVarHeader(f, hs) = (CHOOSE g : It(g))[D]
  BY DEF ParseVarHeader, FoldLeft, MapThenFoldSet
<1>2. IsFiniteSet(D) /\ D = 1 .. Len(hs) /\ Len(hs) \in Nat
  BY HeadersAre
<1>3. \A s \in SUBSET D : c[s] = Max(s) /\ (s # {} => c[s] \in s)
  BY <1>2, MaxIs
<1>4. \A x \in D, a \in Frame : next[<<x, a>>] = SetVarHeader(a, hs[x][1], hs[x][2]).f
  OBVIOUS
<1>5. \A x \in D, a \in Frame : next[<<x, a>>] \in Frame
  <2> SUFFICES ASSUME NEW x \in D, NEW a \in Frame PROVE SetVarHeader(a, hs[x][1], hs[x][2]).f \in Frame
    BY <1>4
  <2>1. hs[x][1] \in Key /\ hs[x][2] \in Nat
    BY HeadersAre
  <2> QED BY <2>1, SetWays DEF Result
<1> HIDE DEF c, next
<1>6. \E h : Folds(f, c, next, D, h)
  <2> HIDE DEF D
  <2> QED BY <1>2, <1>3, FoldExists
<1>7. PICK h : Folds(f, c, next, D, h)
  BY <1>6
<1>8. \A s \in SUBSET D : h[s] \in Frame
  <2> HIDE DEF D
  <2> QED BY <1>2, <1>3, <1>5, <1>7, FoldType
<1>9. It(h)
  <2>1. ASSUME NEW s \in SUBSET D
        PROVE  h[s] = IF s = {} THEN f ELSE SetVarHeader(h[s \ {Max(s)}], hs[Max(s)][1], hs[Max(s)][2]).f
    <3>1. CASE s = {}
      BY <1>7, <3>1 DEF Folds
    <3>2. CASE s # {}
      <4>1. Max(s) \in D /\ s \ {Max(s)} \in SUBSET D /\ c[s] = Max(s)
        BY <1>3, <3>2
      <4>2. h[s] = next[<<Max(s), h[s \ {Max(s)}]>>]
        BY <1>7, <3>2, <4>1 DEF Folds
      <4>3. h[s \ {Max(s)}] \in Frame
        BY <1>8, <4>1
      <4> HIDE DEF D
      <4> QED BY <1>4, <3>2, <4>1, <4>2, <4>3
    <3> QED BY <3>1, <3>2
  <2>2. h = [s \in SUBSET D |-> h[s]]
    BY <1>7 DEF Folds
  <2> QED BY <2>1, <2>2
<1> DEFINE g == CHOOSE g : It(g)
<1> HIDE DEF It
<1>10. It(g)
  BY <1>9
<1> HIDE DEF g
<1>11. \A s \in SUBSET D :
          g[s] = IF s = {} THEN f ELSE SetVarHeader(g[s \ {Max(s)}], hs[Max(s)][1], hs[Max(s)][2]).f
  BY <1>10 DEF It
<1>12. Parsing(f, hs, g)
  BY <1>11 DEF Parsing
<1> QED BY <1>1, <1>12 DEF g

\* A frame as frame__empty leaves it, but for opcode and flag.
Fresh(f) == f \in Frame /\ DOMAIN f.headers = {} /\ f.vars_size = 0 /\ ~f.wild

\* What g has of the headers whose indices are in s: each named one with the value
\* that came last, or with none.
Has(g, hs, s) ==
    /\ \A k \in DOMAIN g.headers : \E i \in s : hs[i][1] = k
    /\ \A i \in s : KeyLen[hs[i][1]] > 0 => hs[i][1] \in DOMAIN g.headers
    /\ \A i \in s :
          KeyLen[hs[i][1]] > 0 /\ (\A j \in s : hs[j][1] = hs[i][1] => j <= i) =>
             g.headers[hs[i][1]] \in {hs[i][2], NONE}

\* One header more.
LEMMA HasOneMore ==
    ASSUME NEW g \in Frame, NEW hs \in Headers, NEW s \in SUBSET (DOMAIN hs), NEW m \in s,
           \A j \in s : j <= m, Has(g, hs, s \ {m}),
           NEW r, r = SetVarHeader(g, hs[m][1], hs[m][2]), r.ok \/ KeyLen[hs[m][1]] = 0, ~r.f.wild
    PROVE  Has(r.f, hs, s)
<1> DEFINE t == s \ {m}
           k == hs[m][1]
           v == hs[m][2]
<1>0. k \in Key /\ v \in Nat /\ KeyLen[k] \in Nat /\ DOMAIN hs = 1 .. Len(hs) /\ Len(hs) \in Nat
  BY HeadersAre, FramesAssumption
<1>1. /\ \A j \in DOMAIN g.headers : \E i \in t : hs[i][1] = j
      /\ \A i \in t : KeyLen[hs[i][1]] > 0 => hs[i][1] \in DOMAIN g.headers
      /\ \A i \in t :
            KeyLen[hs[i][1]] > 0 /\ (\A j \in t : hs[j][1] = hs[i][1] => j <= i) =>
               g.headers[hs[i][1]] \in {hs[i][2], NONE}
  BY DEF Has
<1>2. /\ DOMAIN r.f.headers \in {DOMAIN g.headers, DOMAIN g.headers \cup {k}}
      /\ \A j \in DOMAIN g.headers : j # k => r.f.headers[j] = g.headers[j]
      /\ r.ok => k \in DOMAIN r.f.headers /\ r.f.headers[k] \in {v, NONE}
  <2>1. Sets(g, k, v, r)
    BY <1>0, SetIs
  <2> QED BY <2>1 DEF Sets
<1>o. KeyLen[k] > 0 => r.ok
  BY <1>0
<1>3. t \subseteq s /\ m \in s /\ \A i \in s : i = m \/ i \in t
  OBVIOUS
<1>4. \A j \in DOMAIN r.f.headers : \E i \in s : hs[i][1] = j
  BY <1>1, <1>2, <1>3
<1>5. \A i \in s : KeyLen[hs[i][1]] > 0 => hs[i][1] \in DOMAIN r.f.headers
  BY <1>1, <1>2, <1>3, <1>o
<1>6. ASSUME NEW i \in s, KeyLen[hs[i][1]] > 0, \A j \in s : hs[j][1] = hs[i][1] => j <= i
      PROVE  r.f.headers[hs[i][1]] \in {hs[i][2], NONE}
  <2>1. CASE i = m
    BY <1>2, <1>6, <1>o, <2>1
  <2>2. CASE i # m
    <3>1. i \in t /\ i \in Nat /\ m \in Nat
      BY <1>0, <1>3, <2>2
    <3>2. hs[i][1] # k
      <4> SUFFICES ASSUME hs[m][1] = hs[i][1] PROVE FALSE
        OBVIOUS
      <4>1. m <= i /\ i <= m
        BY <1>6
      <4> QED BY <2>2, <3>1, <4>1
    <3>3. g.headers[hs[i][1]] \in {hs[i][2], NONE} /\ hs[i][1] \in DOMAIN g.headers
      BY <1>1, <1>3, <1>6, <3>1
    <3> QED BY <1>2, <3>2, <3>3
  <2> QED BY <2>1, <2>2
<1> QED BY <1>4, <1>5, <1>6 DEF Has

\* A request as long as the wire allows is parsed whole: nothing is dropped, the
\* headers are counted, and only an empty value can leave a pointer unset.
LEMMA ParseWhole ==
    ASSUME NEW f, Fresh(f), NEW hs \in Headers, TextBytes(hs) < Limit, NEW g, g = ParseVarHeader(f, hs)
    PROVE  /\ g \in Frame /\ Alike(f, g) /\ Sized(g)
           /\ ~g.wild => Has(g, hs, DOMAIN hs)
           /\ (\A i \in DOMAIN hs : hs[i][2] # 0) => Clean(g)
<1> DEFINE D == DOMAIN hs
           w == WireWeights(hs)
<1>0. f \in Frame /\ DOMAIN f.headers = {} /\ f.vars_size = 0 /\ ~f.wild
  BY DEF Fresh
<1>1. PICK sum : Sums(w, sum) /\ TextBytes(hs) = sum[D]
  BY TextIs
<1>2. PICK h : Parsing(f, hs, h) /\ ParseVarHeader(f, hs) = h[D]
  BY <1>0, ParseIs
<1>3. /\ IsFiniteSet(D) /\ D = 1 .. Len(hs) /\ Len(hs) \in Nat /\ w \in Weights(D)
      /\ \A i \in D : hs[i][1] \in Key /\ hs[i][2] \in Nat /\ w[i] = HeaderBytes(hs[i][1], hs[i][2])
  BY HeadersAre
<1>4. /\ sum[{}] = 0
      /\ \A s \in SUBSET D : sum[s] \in Nat /\ \A x \in s : sum[s] = w[x] + sum[s \ {x}]
  <2>1. IsFiniteSet(D) /\ w \in Weights(D)
    BY <1>3
  <2> HIDE DEF D, w
  <2> QED BY <1>1, <2>1, SumsTakeOut
<1>5. \A s \in SUBSET D : sum[s] <= sum[D]
  <2> HIDE DEF D, w
  <2> QED BY <1>1, <1>3, SumsGrow
<1> DEFINE Good(s) ==
             /\ h[s] \in Frame /\ Alike(f, h[s]) /\ Sized(h[s]) /\ h[s].vars_size <= sum[s]
             /\ h[s].wild \/ Has(h[s], hs, s)
             /\ (\A i \in s : hs[i][2] # 0) => Clean(h[s])
           P == {s \in SUBSET D : ~Good(s)}
<1>6. Good({})
  <2>1. h[{}] = f
    BY <1>2 DEF Parsing
  <2>2. Sized(f)
    BY <1>0, SizedEmpty
  <2>3. Clean(f) /\ Has(f, hs, {}) /\ Alike(f, f)
    BY <1>0 DEF Clean, Has, Alike
  <2> QED BY <1>0, <1>4, <2>1, <2>2, <2>3
<1>7. ASSUME NEW s \in SUBSET D, s # {}, Good(s \ {Max(s)}) PROVE Good(s)
  <2> DEFINE m == Max(s)
             t == s \ {m}
             k == hs[m][1]
             v == hs[m][2]
             r == SetVarHeader(h[t], k, v)
  <2>1. m \in s /\ \A j \in s : j <= m
    BY <1>3, <1>7, MaxIs
  <2>2. h[s] = r.f
    BY <1>2, <1>7 DEF Parsing
  <2>3. t \in SUBSET D /\ m \in D
    BY <2>1
  <2>g. Good(t)
    BY <1>7
  <2> HIDE DEF m, D, w
  <2>4. k \in Key /\ v \in Nat /\ w[m] = HeaderBytes(k, v) /\ KeyLen[k] \in Nat
    BY <1>3, <2>3, FramesAssumption
  <2>5. sum[s] = w[m] + sum[t] /\ sum[t] \in Nat /\ sum[s] <= sum[D] /\ w[m] \in Nat /\ sum[D] \in Nat /\ sum[s] \in Nat
    BY <1>3, <1>4, <1>5, <2>1, <2>3 DEF Weights
  <2>6. h[t] \in Frame /\ h[t].vars_size \in Nat /\ h[t].vars_size <= sum[t] /\ Sized(h[t]) /\ Limit \in Nat
    BY <2>g, FramesAssumption DEF Frame
  <2>7. h[t].vars_size + HeaderBytes(k, v) < Limit /\ h[t].vars_size + HeaderBytes(k, v) <= sum[s]
    <3> DEFINE n == h[t].vars_size
               hb == HeaderBytes(k, v)
    <3>1. n \in Nat /\ n <= sum[t] /\ sum[s] = hb + sum[t] /\ hb \in Nat /\ sum[s] <= sum[D] /\ sum[D] < Limit
      BY <1>1, <2>4, <2>5, <2>6
    <3> HIDE DEF n, hb
    <3>2. n + hb < Limit /\ n + hb <= sum[s]
      BY <2>5, <2>6, <3>1
    <3> QED BY <3>2 DEF n, hb
  <2> HIDE DEF k, v, t
  <2>8. /\ Sized(r.f) /\ r.f.vars_size <= h[t].vars_size + HeaderBytes(k, v)
        /\ KeyLen[k] > 0 => r.ok \/ r.f.wild
    <3>1. Counts(h[t], k, v, r)
      BY <2>4, <2>6, SetSized
    <3> QED BY <2>7, <3>1 DEF Counts
  <2>9. /\ r.f \in Frame /\ Alike(h[t], r.f) /\ (h[t].wild => r.f.wild)
        /\ Clean(h[t]) /\ v # 0 => Clean(r.f)
    <3>1. Sets(h[t], k, v, r)
      BY <2>4, <2>6, SetIs
    <3> QED BY <3>1 DEF Sets
  <2>10. Alike(f, r.f)
    BY <2>9, <2>g DEF Alike
  <2>11. r.f.vars_size <= sum[s]
    <3>1. r.f.vars_size \in Nat /\ HeaderBytes(k, v) \in Nat
      BY <2>4, <2>5, <2>9, FramesAssumption DEF Frame
    <3> QED BY <2>5, <2>6, <2>7, <2>8, <3>1
  <2>12. ASSUME ~r.f.wild PROVE Has(r.f, hs, s)
    <3>1. Has(h[t], hs, t)
      BY <2>9, <2>12, <2>g
    <3>2. r.ok \/ KeyLen[k] = 0
      BY <2>4, <2>8, <2>12
    <3>3. s \in SUBSET (DOMAIN hs)
      BY DEF D
    <3> HIDE DEF r
    <3>4. r = SetVarHeader(h[t], hs[m][1], hs[m][2]) /\ t = s \ {m} /\ (r.ok \/ KeyLen[hs[m][1]] = 0)
      BY <3>2 DEF r, t, k, v
    <3> DEFINE q == h[t]
    <3>5. q \in Frame /\ Has(q, hs, s \ {m}) /\ r = SetVarHeader(q, hs[m][1], hs[m][2])
      BY <2>6, <3>1, <3>4
    <3> HIDE DEF q
    <3> QED BY <2>1, <2>12, <3>3, <3>4, <3>5, HasOneMore
  <2>13. ASSUME \A i \in s : hs[i][2] # 0 PROVE Clean(r.f)
    <3>1. Clean(h[t])
      BY <2>13, <2>g DEF t
    <3>2. v # 0
      BY <2>1, <2>13 DEF v
    <3> QED BY <2>9, <3>1, <3>2
  <2> HIDE DEF r
  <2> QED BY <2>2, <2>8, <2>9, <2>10, <2>11, <2>12, <2>13
<1>8. ASSUME P # {} PROVE FALSE
  <2>1. P \in SUBSET (SUBSET D)
    <3> HIDE DEF Good, D
    <3> QED OBVIOUS
  <2>s. \E s \in P : \A r \in P : r \subseteq s => r = s
    <3>1. IsFiniteSet(D)
      BY <1>3
    <3> HIDE DEF P, D
    <3> QED BY <1>8, <2>1, <3>1, Smallest
  <2>2. PICK s \in P : \A r \in P : r \subseteq s => r = s
    BY <2>s
  <2> HIDE DEF Good
  <2>3. s \in SUBSET D /\ ~Good(s)
    OBVIOUS
  <2>4. s # {}
    BY <1>6, <2>3
  <2>5. Max(s) \in s
    BY <1>3, <2>3, <2>4, MaxIs
  <2>6. s \ {Max(s)} \notin P /\ s \ {Max(s)} \in SUBSET D
    BY <2>2, <2>3, <2>5
  <2>7. Good(s \ {Max(s)})
    BY <2>6
  <2> QED BY <1>7, <2>3, <2>4, <2>7
<1>9. Good(D)
  <2> HIDE DEF Good
  <2> QED BY <1>8
<1>10. g = h[D]
  BY <1>2
<1> QED BY <1>9, <1>10

-----------------------------------------------------------------------------
(***************************************************************************)
(* frame__copy_var_headers, into a frame without headers.                  *)
(***************************************************************************)
\* The results on the way, one for each set of headers that have been copied.
Copying(dst, src, h) ==
    \A s \in SUBSET (DOMAIN src.headers) :
        h[s] = IF s = {} THEN [ok |-> TRUE, f |-> dst]
               ELSE IF h[s \ {Pick(s)}].ok /\ ~h[s \ {Pick(s)}].f.wild
                    THEN SetVarHeader(h[s \ {Pick(s)}].f, Pick(s), src.headers[Pick(s)])
                    ELSE h[s \ {Pick(s)}]

LEMMA CopyIs ==
    ASSUME NEW dst \in Frame, NEW src \in Frame, ~Junk(src)
    PROVE  \E h : Copying(dst, src, h) /\ CopyVarHeaders(dst, src) = h[DOMAIN src.headers]
<1> DEFINE D == DOMAIN src.headers
           base == [ok |-> TRUE, f |-> dst]
           It(g) == g = [s \in SUBSET D |->
                          IF s = {} THEN base
                          ELSE IF g[s \ {CHOOSE x \in s : TRUE}].ok /\ ~g[s \ {CHOOSE x \in s : TRUE}].f.wild
                               THEN SetVarHeader(g[s \ {CHOOSE x \in s : TRUE}].f, CHOOSE x \in s : TRUE,
                                                 src.headers[CHOOSE x \in s : TRUE])
                               ELSE g[s \ {CHOOSE x \in s : TRUE}]]
           c == [s \in SUBSET D |-> Pick(s)]
           step(x, a) == IF a.ok /\ ~a.f.wild THEN SetVarHeader(a.f, x, src.headers[x]) ELSE a
           next == [p \in D \X Result |-> step(p[1], p[2])]
<1>1. CopyVarHeaders(dst, src) = (CHOOSE g : It(g))[D]
  BY DEF CopyVarHeaders, FoldSet, MapThenFoldSet, Then
<1>2. IsFiniteSet(D) /\ D \subseteq Key
  BY WeighIs
<1>3. \A s \in SUBSET D : c[s] = Pick(s) /\ (s # {} => c[s] \in s)
  BY DEF Pick
<1>4. \A x \in D, a \in Result : next[<<x, a>>] = step(x, a)
  OBVIOUS
<1>5. \A x \in D, a \in Result : next[<<x, a>>] \in Result
  <2> SUFFICES ASSUME NEW x \in D, NEW a \in Result PROVE step(x, a) \in Result
    BY <1>4
  <2>1. src.headers[x] \in Nat /\ x \in Key /\ a.f \in Frame
    <3>1. src.headers \in HeaderTable /\ a.f \in Frame
      BY DEF Frame, Result
    <3>2. src.headers[x] \in Value /\ src.headers[x] # NONE
      BY <3>1, TableIs DEF Junk
    <3> QED BY <1>2, <3>1, <3>2 DEF Value
  <2>2. SetVarHeader(a.f, x, src.headers[x]) \in Result
    BY <2>1, SetWays
  <2> QED BY <2>2
<1>b. base \in Result
  BY DEF Result
<1> HIDE DEF c, next, base
<1>6. \E h : Folds(base, c, next, D, h)
  <2> HIDE DEF D
  <2> QED BY <1>2, <1>3, FoldExists
<1>7. PICK h : Folds(base, c, next, D, h)
  BY <1>6
<1>8. \A s \in SUBSET D : h[s] \in Result
  <2>1. IsFiniteSet(D) /\ \A s \in SUBSET D : s # {} => c[s] \in s
    BY <1>2, <1>3
  <2> HIDE DEF D
  <2> QED BY <1>5, <1>7, <1>b, <2>1, FoldType
<1>9. It(h)
  <2>1. ASSUME NEW s \in SUBSET D
        PROVE  h[s] = IF s = {} THEN base ELSE step(CHOOSE x \in s : TRUE, h[s \ {CHOOSE x \in s : TRUE}])
    <3>1. CASE s = {}
      BY <1>7, <3>1 DEF Folds
    <3>2. CASE s # {}
      <4> DEFINE y == CHOOSE x \in s : TRUE
      <4>1. y \in D /\ s \ {y} \in SUBSET D /\ c[s] = y
        BY <1>3, <3>2 DEF Pick
      <4> HIDE DEF y, D, step
      <4>2. h[s] = next[<<y, h[s \ {y}]>>]
        BY <1>7, <3>2, <4>1 DEF Folds
      <4>3. h[s \ {y}] \in Result
        BY <1>8, <4>1
      <4>4. h[s] = step(y, h[s \ {y}])
        BY <1>4, <4>1, <4>2, <4>3
      <4> QED BY <3>2, <4>4 DEF y
    <3> QED BY <3>1, <3>2
  <2>2. h = [s \in SUBSET D |-> h[s]]
    BY <1>7 DEF Folds
  <2> QED BY <2>1, <2>2
<1> DEFINE g == CHOOSE g : It(g)
<1> HIDE DEF It
<1>10. It(g)
  BY <1>9
<1> HIDE DEF g
<1>11. \A s \in SUBSET D :
          g[s] = IF s = {} THEN base
                 ELSE IF g[s \ {Pick(s)}].ok /\ ~g[s \ {Pick(s)}].f.wild
                      THEN SetVarHeader(g[s \ {Pick(s)}].f, Pick(s), src.headers[Pick(s)])
                      ELSE g[s \ {Pick(s)}]
  BY <1>10 DEF It, Pick
<1>12. Copying(dst, src, g)
  BY <1>11 DEF Copying, base
<1> QED BY <1>1, <1>12 DEF g

\* A copy has all headers, with the values they had or with none, or it is an error.
Copies(dst, src, r) ==
    /\ r \in Result /\ Alike(dst, r.f)
    /\ r.ok => /\ ~r.f.wild /\ Sized(r.f) /\ DOMAIN r.f.headers = DOMAIN src.headers
               /\ \A k \in DOMAIN src.headers : r.f.headers[k] \in {src.headers[k], NONE}
    /\ Clean(src) => Clean(r.f)

LEMMA CopyWhole ==
    ASSUME NEW dst, Fresh(dst), NEW src \in Frame
    PROVE  Copies(dst, src, CopyVarHeaders(dst, src))
<1> DEFINE D == DOMAIN src.headers
           all == CopyVarHeaders(dst, src)
<1>0. dst \in Frame /\ DOMAIN dst.headers = {} /\ dst.vars_size = 0 /\ ~dst.wild
  BY DEF Fresh
<1>1. CASE Junk(src)
  <2> DEFINE g == [dst EXCEPT !.wild = TRUE]
  <2>1. all = [ok |-> FALSE, f |-> g]
    BY <1>1 DEF CopyVarHeaders
  <2>2. g \in Frame /\ Alike(dst, g)
    BY <1>0 DEF Frame, Alike
  <2> HIDE DEF g, all
  <2>3. all \in Result /\ all.ok = FALSE /\ all.f = g
    BY <2>1, <2>2 DEF Result
  <2>4. ~Clean(src)
    BY <1>1, FramesAssumption DEF Junk, Clean
  <2>5. Copies(dst, src, all)
    BY <2>2, <2>3, <2>4 DEF Copies
  <2> QED BY <2>5 DEF all
<1>2. CASE ~Junk(src)
  <2>1. PICK h : Copying(dst, src, h) /\ all = h[D]
    BY <1>0, <1>2, CopyIs
  <2>2. IsFiniteSet(D) /\ D \subseteq Key
    BY WeighIs
  <2>3. \A k \in D : src.headers[k] \in Nat
    <3>1. src.headers \in HeaderTable
      BY DEF Frame
    <3> QED BY <1>2, <3>1, TableIs DEF Junk, Value
  <2> DEFINE Good(s) ==
               /\ h[s] \in Result /\ Alike(dst, h[s].f) /\ ~h[s].f.wild
               /\ h[s].ok => /\ Sized(h[s].f) /\ DOMAIN h[s].f.headers = s
                             /\ \A k \in s : h[s].f.headers[k] \in {src.headers[k], NONE}
               /\ Clean(src) => Clean(h[s].f)
             P == {s \in SUBSET D : ~Good(s)}
  <2>4. Good({})
    <3>1. h[{}] = [ok |-> TRUE, f |-> dst]
      BY <2>1 DEF Copying
    <3>2. Sized(dst)
      BY <1>0, SizedEmpty
    <3>3. Clean(dst) /\ Alike(dst, dst)
      BY <1>0 DEF Clean, Alike
    <3>4. h[{}] \in Result /\ h[{}].ok = TRUE /\ h[{}].f = dst
      BY <1>0, <3>1 DEF Result
    <3> QED BY <1>0, <3>2, <3>3, <3>4
  <2>5. ASSUME NEW s \in SUBSET D, s # {}, Good(s \ {Pick(s)}) PROVE Good(s)
    <3> DEFINE y == Pick(s)
               t == s \ {y}
               v == src.headers[y]
               q == h[t]
               r == SetVarHeader(q.f, y, v)
    <3>1. y \in s
      BY <2>5 DEF Pick
    <3>2. h[s] = IF q.ok /\ ~q.f.wild THEN r ELSE q
      BY <2>1, <2>5 DEF Copying
    <3>g. Good(t)
      BY <2>5
    <3>q. /\ q \in Result /\ q.f \in Frame /\ Alike(dst, q.f) /\ ~q.f.wild
          /\ q.ok => /\ Sized(q.f) /\ DOMAIN q.f.headers = t
                     /\ \A k \in t : q.f.headers[k] \in {src.headers[k], NONE}
          /\ Clean(src) => Clean(q.f)
      BY <3>g DEF Result
    <3>3. y \in Key /\ v \in Nat /\ (Clean(src) => v # 0)
      BY <2>2, <2>3, <3>1 DEF Clean
    <3>4. CASE ~q.ok
      <4>1. h[s] = q
        BY <3>2, <3>4
      <4> HIDE DEF q
      <4> QED BY <3>4, <3>q, <4>1
    <3>5. CASE q.ok
      <4>1. h[s] = r
        BY <3>2, <3>5, <3>q
      <4>t. t = s \ {y} /\ y \in s
        BY <3>1
      <4> HIDE DEF q, y, t
      <4>2. Sets(q.f, y, v, r)
        BY <3>3, <3>q, SetIs
      <4>3. Counts(q.f, y, v, r)
        BY <3>3, <3>5, <3>q, SetSized
      <4>v. v = src.headers[y]
        OBVIOUS
      <4> HIDE DEF r, v
      <4>4. r \in Result /\ Alike(q.f, r.f) /\ r.f \in Frame
        BY <4>2 DEF Sets
      <4>5. Alike(dst, r.f)
        BY <3>q, <4>4 DEF Alike
      <4>6. y \notin DOMAIN q.f.headers
        BY <3>5, <3>q, <4>t
      <4>7. r.f.wild = q.f.wild
        BY <4>2, <4>6 DEF Sets
      <4>8. r.ok => Sized(r.f)
        BY <4>3 DEF Counts
      <4>9. r.ok => DOMAIN r.f.headers = s
        BY <3>5, <3>q, <4>2, <4>t DEF Sets
      <4>10. r.ok => \A k \in s : r.f.headers[k] \in {src.headers[k], NONE}
        <5> SUFFICES ASSUME r.ok, NEW k \in s PROVE r.f.headers[k] \in {src.headers[k], NONE}
          OBVIOUS
        <5>1. CASE k = y
          BY <4>2, <4>v, <5>1 DEF Sets
        <5>2. CASE k # y
          <6>1. k \in t /\ k \in DOMAIN q.f.headers
            BY <3>5, <3>q, <4>t, <5>2
          <6>2. r.f.headers[k] = q.f.headers[k]
            BY <4>2, <5>2, <6>1 DEF Sets
          <6> QED BY <3>5, <3>q, <6>1, <6>2
        <5> QED BY <5>1, <5>2
      <4>11. Clean(src) => Clean(r.f)
        BY <3>3, <3>q, <4>2 DEF Sets
      <4> QED BY <3>q, <4>1, <4>4, <4>5, <4>7, <4>8, <4>9, <4>10, <4>11
    <3> QED BY <3>4, <3>5
  <2>6. ASSUME P # {} PROVE FALSE
    <3>1. P \in SUBSET (SUBSET D)
      <4> HIDE DEF Good, D
      <4> QED OBVIOUS
    <3>s. \E s \in P : \A r \in P : r \subseteq s => r = s
      <4> HIDE DEF P, D
      <4> QED BY <2>2, <2>6, <3>1, Smallest
    <3>2. PICK s \in P : \A r \in P : r \subseteq s => r = s
      BY <3>s
    <3> HIDE DEF Good, D
    <3>3. s \in SUBSET D /\ ~Good(s)
      OBVIOUS
    <3>4. s # {}
      BY <2>4, <3>3
    <3>5. Pick(s) \in s
      BY <3>4 DEF Pick
    <3>6. s \ {Pick(s)} \notin P /\ s \ {Pick(s)} \in SUBSET D
      BY <3>2, <3>3, <3>5
    <3>7. Good(s \ {Pick(s)})
      BY <3>6
    <3> QED BY <2>5, <3>3, <3>4, <3>7
  <2>7. Good(D)
    <3> HIDE DEF Good
    <3> QED BY <2>6
  <2> HIDE DEF all
  <2>8. Copies(dst, src, all)
    BY <2>1, <2>7 DEF Copies
  <2> QED BY <2>8 DEF all
<1> QED BY <1>1, <1>2

-----------------------------------------------------------------------------
(***************************************************************************)
(* The payload, the control part, and the end of every frame that is made. *)
(***************************************************************************)
SameHeaders(f, g) == g.headers = f.headers /\ g.vars_size = f.vars_size /\ g.wild = f.wild

LEMMA SameHeadersKeep ==
    ASSUME NEW f, NEW g, SameHeaders(f, g)
    PROVE  (Sized(f) => Sized(g)) /\ (Clean(f) => Clean(g))
<1>1. Weigh(g) = Weigh(f) /\ g.vars_size = f.vars_size /\ g.headers = f.headers /\ g.wild = f.wild
  BY DEF SameHeaders, Weigh
<1> QED BY <1>1 DEF Sized, Clean

LEMMA EmptyFrameIs == Fresh(EmptyFrame) /\ EmptyFrame \in Frame /\ ~EmptyFrame.completed /\ Clean(EmptyFrame)
<1>1. EmptyHeaders \in [{} -> Value] /\ IsFiniteSet({}) /\ DOMAIN EmptyHeaders = {}
  BY FS_EmptySet DEF EmptyHeaders
<1>2. EmptyHeaders \in HeaderTable
  BY <1>1, IsTable
<1>3. 0 \in 0 .. Limit - 1
  BY FramesAssumption
<1>4. EmptyFrame \in Frame
  BY <1>2, <1>3 DEF Frame, EmptyFrame, Opcode
<1>5. ~EmptyFrame.completed /\ ~EmptyFrame.wild /\ EmptyFrame.vars_size = 0 /\ EmptyFrame.headers = EmptyHeaders
  BY DEF EmptyFrame
<1> QED BY <1>1, <1>4, <1>5 DEF Fresh, Clean

LEMMA EmptyIs ==
    ASSUME NEW opcode \in Opcode, NEW ack \in BOOLEAN, NEW f, f = [EmptyFrame EXCEPT !.opcode = opcode, !.ack = ack]
    PROVE  Fresh(f) /\ ~f.completed /\ f.opcode = opcode /\ f.ack = ack /\ f \in Frame /\ Clean(f)
<1>1. /\ EmptyFrame \in Frame /\ DOMAIN EmptyFrame.headers = {} /\ EmptyFrame.vars_size = 0
      /\ ~EmptyFrame.wild /\ ~EmptyFrame.completed
  BY EmptyFrameIs DEF Fresh
<1>2. /\ f \in Frame /\ f.opcode = opcode /\ f.ack = ack /\ f.headers = EmptyFrame.headers
      /\ f.vars_size = EmptyFrame.vars_size /\ f.wild = EmptyFrame.wild /\ f.completed = EmptyFrame.completed
  BY <1>1 DEF Frame
<1> QED BY <1>1, <1>2 DEF Fresh, Clean

\* The request's or the reply's opcode, if it is one.
Controls(f, opcode, ack, r) ==
    /\ r \in Result /\ r.ok = (opcode # "NOOP") /\ SameHeaders(f, r.f) /\ r.f.completed = f.completed
    /\ r.f.data_size = f.data_size /\ r.f.payload_size = f.payload_size /\ r.f.pos = f.pos
    /\ r.ok => r.f.opcode = opcode /\ r.f.ack = ack

LEMMA ControlIs ==
    \A f \in Frame, opcode \in Opcode, ack \in BOOLEAN : Controls(f, opcode, ack, Control(f, opcode, ack))
<1> SUFFICES ASSUME NEW f \in Frame, NEW opcode \in Opcode, NEW ack \in BOOLEAN,
                    NEW r, r = Control(f, opcode, ack)
             PROVE  Controls(f, opcode, ack, r)
  OBVIOUS
<1> DEFINE g == IF opcode # "NOOP" THEN [f EXCEPT !.opcode = opcode, !.ack = ack] ELSE f
<1>1. /\ g \in Frame /\ SameHeaders(f, g) /\ g.completed = f.completed
      /\ g.data_size = f.data_size /\ g.payload_size = f.payload_size /\ g.pos = f.pos
      /\ opcode # "NOOP" => g.opcode = opcode /\ g.ack = ack
  BY DEF Frame, SameHeaders
<1>2. r = [ok |-> opcode # "NOOP", f |-> g]
  BY DEF Control
<1> HIDE DEF g
<1>3. r.ok = (opcode # "NOOP") /\ r.f = g /\ r \in Result
  BY <1>1, <1>2 DEF Result
<1> QED BY <1>1, <1>3 DEF Controls

\* The payload, of the size that is asked for if there is memory.
Fills(f, size, r) ==
    /\ r \in Result /\ SameHeaders(f, r.f)
    /\ r.f.opcode = f.opcode /\ r.f.ack = f.ack /\ r.f.completed = f.completed
    /\ r.ok => r.f.data_size = size /\ r.f.payload_size = size

LEMMA MallocIs ==
    \A f \in Frame, size \in Nat, alloc \in BOOLEAN : Fills(f, size, MallocPayload(f, size, alloc))
<1> SUFFICES ASSUME NEW f \in Frame, NEW size \in Nat, NEW alloc \in BOOLEAN,
                    NEW r, r = MallocPayload(f, size, alloc)
             PROVE  Fills(f, size, r)
  OBVIOUS
<1> DEFINE n == IF size = 0 \/ alloc \/ f.payload_size = size THEN size ELSE 0
           g == [f EXCEPT !.payload_size = n, !.data_size = n, !.pos = 0]
<1>1. r = [ok |-> n = size, f |-> g]
  BY DEF MallocPayload
<1>2. n \in Nat
  OBVIOUS
<1> HIDE DEF n
<1>3. /\ g \in Frame /\ SameHeaders(f, g) /\ g.opcode = f.opcode /\ g.ack = f.ack /\ g.completed = f.completed
      /\ g.data_size = n /\ g.payload_size = n
  BY <1>2 DEF Frame, SameHeaders
<1> HIDE DEF g
<1>4. r.ok = (n = size) /\ r.f = g /\ r \in Result
  BY <1>1, <1>3 DEF Result
<1> QED BY <1>3, <1>4 DEF Fills

LEMMA SetPos ==
    ASSUME NEW f \in Frame, NEW size \in Nat
    PROVE  LET g == [f EXCEPT !.pos = size]
           IN /\ g \in Frame /\ SameHeaders(f, g) /\ g.opcode = f.opcode /\ g.ack = f.ack
              /\ g.completed = f.completed /\ g.data_size = f.data_size /\ g.payload_size = f.payload_size
              /\ g.pos = size
BY DEF Frame, SameHeaders

LEMMA PutPayloadIs ==
    \A f \in Frame, size \in Nat, alloc \in BOOLEAN :
        ~f.wild => /\ Fills(f, size, PutPayload(f, size, alloc))
                   /\ PutPayload(f, size, alloc).ok => PutPayload(f, size, alloc).f.pos = size
<1> SUFFICES ASSUME NEW f \in Frame, NEW size \in Nat, NEW alloc \in BOOLEAN, ~f.wild,
                    NEW r, r = PutPayload(f, size, alloc)
             PROVE  Fills(f, size, r) /\ (r.ok => r.f.pos = size)
  OBVIOUS
<1> DEFINE q == MallocPayload(f, size, alloc)
           g == [q.f EXCEPT !.pos = size]
<1>1. Fills(f, size, q)
  BY MallocIs
<1>2. r = IF q.ok /\ ~q.f.wild THEN [ok |-> TRUE, f |-> g] ELSE q
  BY DEF PutPayload, Then
<1> HIDE DEF q
<1>3. q.f \in Frame /\ ~q.f.wild
  BY <1>1 DEF Fills, Result, SameHeaders
<1>4. /\ g \in Frame /\ SameHeaders(q.f, g) /\ g.opcode = q.f.opcode /\ g.ack = q.f.ack
      /\ g.completed = q.f.completed /\ g.data_size = q.f.data_size /\ g.payload_size = q.f.payload_size
      /\ g.pos = size
  BY <1>3, SetPos
<1>5. CASE q.ok
  <2>1. r = [ok |-> TRUE, f |-> g]
    BY <1>2, <1>3, <1>5
  <2> HIDE DEF g
  <2>2. r \in Result /\ r.f = g
    BY <1>4, <2>1 DEF Result
  <2> QED BY <1>1, <1>4, <1>5, <2>2 DEF Fills, SameHeaders
<1>6. CASE ~q.ok
  <2>1. r = q
    BY <1>2, <1>6
  <2> QED BY <1>1, <1>6, <2>1
<1> QED BY <1>5, <1>6

LEMMA ReplacePayloadIs ==
    \A f \in Frame, size \in Nat, alloc \in BOOLEAN :
        /\ Fills(f, size, ReplacePayload(f, size, alloc))
        /\ ReplacePayload(f, size, alloc).ok => ReplacePayload(f, size, alloc).f.pos = size
<1> SUFFICES ASSUME NEW f \in Frame, NEW size \in Nat, NEW alloc \in BOOLEAN,
                    NEW r, r = ReplacePayload(f, size, alloc)
             PROVE  Fills(f, size, r) /\ (r.ok => r.f.pos = size)
  OBVIOUS
<1> DEFINE g == [f EXCEPT !.pos = size, !.payload_size = size, !.data_size = size]
<1>1. r = IF alloc THEN [ok |-> TRUE, f |-> g] ELSE [ok |-> FALSE, f |-> f]
  BY DEF ReplacePayload
<1>2. /\ g \in Frame /\ SameHeaders(f, g) /\ g.opcode = f.opcode /\ g.ack = f.ack /\ g.completed = f.completed
      /\ g.data_size = size /\ g.payload_size = size /\ g.pos = size
  BY DEF Frame, SameHeaders
<1> HIDE DEF g
<1>3. CASE alloc
  <2>1. r.ok = TRUE /\ r.f = g /\ r \in Result
    BY <1>1, <1>2, <1>3 DEF Result
  <2> QED BY <1>2, <2>1 DEF Fills
<1>4. CASE ~alloc
  <2>1. r.ok = FALSE /\ r.f = f /\ r \in Result
    BY <1>1, <1>4 DEF Result
  <2> QED BY <2>1 DEF Fills, SameHeaders
<1> QED BY <1>3, <1>4

\* g has what f has of the headers that are not in own, and no others.
Keeps(f, g, own) ==
    /\ DOMAIN f.headers \subseteq DOMAIN g.headers /\ DOMAIN g.headers \subseteq DOMAIN f.headers \cup own
    /\ \A j \in DOMAIN f.headers : j \notin own => g.headers[j] = f.headers[j]

LEMMA SetKeeps ==
    ASSUME NEW f, NEW k, NEW v, NEW r, Sets(f, k, v, r), NEW own, k \in own
    PROVE  Keeps(f, r.f, own)
BY DEF Sets, Keeps

LEMMA KeepsChain ==
    ASSUME NEW f, NEW g, NEW h, NEW own, Keeps(f, g, own), Keeps(g, h, own)
    PROVE  Keeps(f, h, own)
BY DEF Keeps

Whole(f, size) == f.completed /\ f.data_size = size /\ f.payload_size = size /\ f.pos = size

\* frame__build completes a frame, and nothing else does.
Builds(f, r) ==
    /\ r \in Result /\ r.f \in Frame /\ r.ok \in BOOLEAN
    /\ r.f.opcode = f.opcode /\ r.f.ack = f.ack /\ Keeps(f, r.f, {"x-time"})
    /\ r.f.data_size = f.data_size /\ r.f.payload_size = f.payload_size /\ r.f.pos = f.pos
    /\ r.ok => r.f.completed /\ r.f.wild = f.wild /\ (Sized(f) => Sized(r.f))
    /\ r.f.completed => r.ok \/ f.completed
    /\ Clean(f) => Clean(r.f)

LEMMA BuildIs == \A f \in Frame : Builds(f, Build(f))
<1> SUFFICES ASSUME NEW f \in Frame, NEW b, b = Build(f) PROVE Builds(f, b)
  OBVIOUS
<1> DEFINE r == SetVarHeader(f, "x-time", TimeLen)
           g == [r.f EXCEPT !.completed = TRUE]
<1>1. "x-time" \in Key /\ TimeLen \in Nat /\ TimeLen # 0
  BY FramesAssumption
<1>2. Sets(f, "x-time", TimeLen, r) /\ (Sized(f) => Counts(f, "x-time", TimeLen, r))
  BY <1>1, SetIs, SetSized
<1>3. b = IF r.ok /\ f.opcode # "NOOP" THEN [r EXCEPT !.f.completed = TRUE] ELSE [r EXCEPT !.ok = FALSE]
  BY DEF Build
<1> HIDE DEF r
<1>4. r \in Result /\ r.f \in Frame /\ Alike(f, r.f) /\ (Clean(f) => Clean(r.f))
  BY <1>1, <1>2 DEF Sets
<1>5. Keeps(f, r.f, {"x-time"})
  BY <1>2, SetKeeps
<1>6. /\ g \in Frame /\ SameHeaders(r.f, g) /\ g.opcode = r.f.opcode /\ g.ack = r.f.ack /\ g.completed
      /\ g.data_size = r.f.data_size /\ g.payload_size = r.f.payload_size /\ g.pos = r.f.pos
  BY <1>4 DEF Frame, SameHeaders
<1>7. CASE r.ok /\ f.opcode # "NOOP"
  <2>1. b = [r EXCEPT !.f = g]
    BY <1>3, <1>7
  <2> HIDE DEF g
  <2>2. b.ok = r.ok /\ b.f = g /\ b \in Result
    BY <1>4, <1>6, <2>1 DEF Result
  <2>3. Sized(f) => Sized(r.f)
    BY <1>2, <1>7 DEF Counts
  <2>4. r.f.wild = f.wild
    BY <1>2, <1>7 DEF Sets
  <2>5. (Sized(f) => Sized(g)) /\ (Clean(f) => Clean(g))
    BY <1>4, <1>6, <2>3, SameHeadersKeep
  <2>6. Keeps(f, g, {"x-time"})
    BY <1>5, <1>6 DEF Keeps, SameHeaders
  <2>7. g.wild = f.wild
    BY <1>6, <2>4 DEF SameHeaders
  <2>8. /\ g.opcode = f.opcode /\ g.ack = f.ack
        /\ g.data_size = f.data_size /\ g.payload_size = f.payload_size /\ g.pos = f.pos
    BY <1>4, <1>6 DEF Alike
  <2> QED BY <1>6, <1>7, <2>2, <2>5, <2>6, <2>7, <2>8 DEF Builds
<1>8. CASE ~(r.ok /\ f.opcode # "NOOP")
  <2>1. b = [r EXCEPT !.ok = FALSE]
    BY <1>3, <1>8
  <2>2. b.ok = FALSE /\ b.f = r.f /\ b \in Result
    BY <1>4, <2>1 DEF Result
  <2> QED BY <1>4, <1>5, <2>2 DEF Builds, Alike
<1> QED BY <1>7, <1>8

-----------------------------------------------------------------------------
(***************************************************************************)
(* The frames the server makes: what has been received, the replies, and   *)
(* the message of a publication.                                           *)
(***************************************************************************)
Names(hs) == {hs[i][1] : i \in 1 .. Len(hs)}
Wired(hs, k) == hs[Max({i \in 1 .. Len(hs) : hs[i][1] = k})][2]

\* The headers of the wire are in f, each with its last value or with none.
CarriesOr(f, hs, own) ==
    \A k \in Names(hs) \ (own \cup {"x-time"}) :
        KeyLen[k] > 0 => k \in DOMAIN f.headers /\ f.headers[k] \in {Wired(hs, k), NONE}

Named(f, hs) == DOMAIN f.headers \subseteq Names(hs) \cup {"x-time"}

LEMMA HasAll ==
    ASSUME NEW g, NEW hs \in Headers, Has(g, hs, DOMAIN hs)
    PROVE  Named(g, hs) /\ CarriesOr(g, hs, {})
<1>0. DOMAIN hs = 1 .. Len(hs) /\ Len(hs) \in Nat
  BY HeadersAre
<1>1. Named(g, hs)
  BY <1>0 DEF Has, Named, Names
<1>2. ASSUME NEW k \in Names(hs), KeyLen[k] > 0
      PROVE  k \in DOMAIN g.headers /\ g.headers[k] \in {Wired(hs, k), NONE}
  <2> DEFINE at == {i \in 1 .. Len(hs) : hs[i][1] = k}
  <2>1. at \in SUBSET (1 .. Len(hs)) /\ at # {}
    BY DEF Names
  <2>2. \A i \in DOMAIN hs : hs[i][1] = k <=> i \in at
    BY <1>0
  <2>w. Wired(hs, k) = hs[Max(at)][2]
    BY DEF Wired
  <2> HIDE DEF at
  <2>3. Max(at) \in at /\ \A j \in at : j <= Max(at)
    BY <1>0, <2>1, MaxIs
  <2>4. Max(at) \in DOMAIN hs /\ hs[Max(at)][1] = k
    BY <1>0, <2>1, <2>2, <2>3
  <2>5. \A j \in DOMAIN hs : hs[j][1] = hs[Max(at)][1] => j <= Max(at)
    BY <2>2, <2>3, <2>4
  <2>6. g.headers[hs[Max(at)][1]] \in {hs[Max(at)][2], NONE} /\ hs[Max(at)][1] \in DOMAIN g.headers
    BY <1>2, <2>4, <2>5 DEF Has
  <2> QED BY <2>4, <2>6, <2>w
<1> QED BY <1>1, <1>2 DEF CarriesOr

\* Headers the server sets itself do not matter to what is carried.
LEMMA CarriesKeeps ==
    ASSUME NEW f, NEW g, NEW hs, NEW own, NEW more, CarriesOr(f, hs, own), Keeps(f, g, more),
           more \subseteq own \cup {"x-time"}
    PROVE  CarriesOr(g, hs, own)
BY DEF CarriesOr, Keeps

LEMMA FreshSame ==
    ASSUME NEW f, Fresh(f), NEW g \in Frame, SameHeaders(f, g)
    PROVE  Fresh(g) /\ Clean(g)
BY DEF Fresh, SameHeaders, Clean

\* frame__recv: a frame that is taken for good is the request, whole.
Receives(q, b) ==
    /\ b \in Result /\ (b.f.completed => Sized(b.f))
    /\ b.ok /\ ~b.f.wild => /\ Whole(b.f, q.data) /\ b.f.opcode = q.opcode /\ b.f.ack = q.ack
                            /\ Named(b.f, q.headers) /\ CarriesOr(b.f, q.headers, {})
    /\ (\A i \in DOMAIN q.headers : q.headers[i][2] # 0) => Clean(b.f)

LEMMA ReceivedIs ==
    ASSUME NEW old, NEW q \in Request, NEW alloc \in BOOLEAN
    PROVE  Receives(q, Received(old, q, alloc))
<1> DEFINE b == Received(old, q, alloc)
           c == Control(Emptied(old), q.opcode, q.ack)
           p == IF c.ok /\ ~c.f.wild THEN [ok |-> ~q.malformed, f |-> ParseVarHeader(c.f, q.headers)] ELSE c
           m == IF p.ok /\ ~p.f.wild THEN MallocPayload(p.f, q.data, alloc) ELSE p
           g == [m.f EXCEPT !.pos = q.data]
           d == IF m.ok /\ ~m.f.wild THEN [ok |-> TRUE, f |-> g] ELSE m
           Full == \A i \in DOMAIN q.headers : q.headers[i][2] # 0
<1>1. b = IF d.ok /\ ~d.f.wild THEN Build(d.f) ELSE d
  BY DEF Received, Then
<1>2. /\ q.opcode \in Opcode /\ q.ack \in BOOLEAN /\ q.malformed \in BOOLEAN /\ q.data \in Nat
      /\ q.headers \in Headers /\ TextBytes(q.headers) < Limit
  BY RequestAssumption, WireAssumption DEF Headers
<1> HIDE DEF b
<1>3. Controls(EmptyFrame, q.opcode, q.ack, c)
  BY <1>2, ControlIs, EmptyFrameIs DEF Emptied
<1> HIDE DEF c
<1>4. c \in Result /\ c.f \in Frame /\ Fresh(c.f) /\ Clean(c.f) /\ ~c.f.completed /\ ~c.f.wild
  <2>1. c \in Result /\ c.f \in Frame /\ SameHeaders(EmptyFrame, c.f) /\ ~c.f.completed
    BY <1>3, EmptyFrameIs DEF Controls, Result
  <2>2. Fresh(c.f) /\ Clean(c.f)
    BY <2>1, EmptyFrameIs, FreshSame
  <2> QED BY <2>1, <2>2 DEF Fresh
<1>5. CASE ~c.ok
  <2>1. b = c
    BY <1>1, <1>5
  <2>2. Receives(q, b)
    BY <1>4, <1>5, <2>1 DEF Receives
  <2> QED BY <2>2 DEF b
<1>6. CASE c.ok
  <2>1. p = [ok |-> ~q.malformed, f |-> ParseVarHeader(c.f, q.headers)]
    BY <1>4, <1>6
  <2> HIDE DEF p
  <2>2. /\ p.f \in Frame /\ Alike(c.f, p.f) /\ Sized(p.f)
        /\ ~p.f.wild => Has(p.f, q.headers, DOMAIN q.headers)
        /\ Full => Clean(p.f)
    <3> DEFINE hs == q.headers
    <3>1. p.f = ParseVarHeader(c.f, hs) /\ hs \in Headers /\ TextBytes(hs) < Limit /\ Fresh(c.f)
      BY <1>2, <1>4, <2>1
    <3> HIDE DEF hs
    <3>2. /\ p.f \in Frame /\ Alike(c.f, p.f) /\ Sized(p.f)
          /\ ~p.f.wild => Has(p.f, hs, DOMAIN hs)
          /\ (\A i \in DOMAIN hs : hs[i][2] # 0) => Clean(p.f)
      BY <3>1, ParseWhole
    <3> QED BY <3>2 DEF hs
  <2>3. p \in Result /\ ~p.f.completed
    BY <1>2, <1>4, <2>1, <2>2 DEF Result, Alike
  <2> HIDE DEF Full
  <2>4. CASE ~(p.ok /\ ~p.f.wild)
    <3>1. b = p
      BY <1>1, <2>4
    <3>2. Receives(q, b)
      BY <2>2, <2>3, <2>4, <3>1 DEF Receives, Full
    <3> QED BY <3>2 DEF b
  <2>5. CASE p.ok /\ ~p.f.wild
    <3>1. Fills(p.f, q.data, m)
      BY <1>2, <2>2, <2>5, MallocIs
    <3>2. Named(p.f, q.headers) /\ CarriesOr(p.f, q.headers, {})
      <4> DEFINE hs == q.headers
      <4>1. hs \in Headers /\ Has(p.f, hs, DOMAIN hs)
        BY <1>2, <2>2, <2>5
      <4> HIDE DEF hs
      <4>2. Named(p.f, hs) /\ CarriesOr(p.f, hs, {})
        BY <4>1, HasAll
      <4> QED BY <4>2 DEF hs
    <3>3. p.f.opcode = q.opcode /\ p.f.ack = q.ack
      BY <1>3, <1>6, <2>2 DEF Alike, Controls
    <3> HIDE DEF m
    <3>4. /\ m \in Result /\ m.f \in Frame /\ SameHeaders(p.f, m.f) /\ ~m.f.completed /\ ~m.f.wild
          /\ m.f.opcode = q.opcode /\ m.f.ack = q.ack
          /\ m.ok => m.f.data_size = q.data /\ m.f.payload_size = q.data
      BY <2>3, <2>5, <3>1, <3>3 DEF Fills, Result, SameHeaders
    <3>5. CASE ~m.ok
      <4>1. b = m
        BY <1>1, <3>5
      <4>2. Full => Clean(m.f)
        BY <2>2, <3>4, SameHeadersKeep
      <4>3. Receives(q, b)
        BY <3>4, <3>5, <4>1, <4>2 DEF Receives, Full
      <4> QED BY <4>3 DEF b
    <3>6. CASE m.ok
      <4>1. /\ g \in Frame /\ SameHeaders(m.f, g) /\ g.opcode = m.f.opcode /\ g.ack = m.f.ack
            /\ g.completed = m.f.completed /\ g.data_size = m.f.data_size /\ g.payload_size = m.f.payload_size
            /\ g.pos = q.data
        BY <1>2, <3>4, SetPos
      <4>2. d = [ok |-> TRUE, f |-> g]
        BY <3>4, <3>6
      <4> HIDE DEF d, g
      <4>3. SameHeaders(p.f, g) /\ ~g.wild
        BY <2>5, <3>4, <4>1 DEF SameHeaders
      <4>4. b = Build(g)
        BY <1>1, <4>2, <4>3
      <4>5. Builds(g, b)
        BY <4>1, <4>4, BuildIs
      <4>6. Sized(g) /\ (Full => Clean(g))
        BY <2>2, <4>3, SameHeadersKeep
      <4>7. Named(g, q.headers) /\ CarriesOr(g, q.headers, {})
        BY <3>2, <4>3 DEF Named, CarriesOr, SameHeaders
      <4>8. CarriesOr(b.f, q.headers, {})
        <5>1. Keeps(g, b.f, {"x-time"})
          BY <4>5 DEF Builds
        <5> QED BY <4>7, <5>1, CarriesKeeps
      <4>9. Named(b.f, q.headers)
        BY <4>5, <4>7 DEF Builds, Named, Keeps
      <4>10. b.ok => Whole(b.f, q.data) /\ b.f.opcode = q.opcode /\ b.f.ack = q.ack
        BY <3>4, <3>6, <4>1, <4>5 DEF Builds, Whole
      <4>11. b \in Result /\ (b.f.completed => Sized(b.f)) /\ (Full => Clean(b.f))
        BY <3>4, <4>1, <4>5, <4>6 DEF Builds
      <4>12. Receives(q, b)
        BY <4>8, <4>9, <4>10, <4>11 DEF Receives, Full
      <4> QED BY <4>12 DEF b
    <3> QED BY <3>5, <3>6
  <2> QED BY <2>4, <2>5
<1> QED BY <1>5, <1>6

\* A reply or a message that is made for good is complete and counted.
Makes(b) ==
    /\ b \in Result /\ (b.f.completed => Sized(b.f))
    /\ b.ok => b.f.completed /\ ~b.f.wild /\ b.f.data_size = b.f.payload_size /\ b.f.pos = b.f.payload_size

LEMMA INFOIs ==
    ASSUME NEW old, NEW alloc \in BOOLEAN
    PROVE  LET b == INFO(old, alloc) IN Makes(b) /\ Clean(b.f) /\ (b.ok => b.f.opcode = "INFO")
<1> DEFINE b == INFO(old, alloc)
           f == [EmptyFrame EXCEPT !.opcode = "INFO"]
           p == PutPayload(f, 1, alloc)
<1>1. b = IF p.ok /\ ~p.f.wild THEN Build(p.f) ELSE p
  BY DEF INFO, Then, Emptied
<1>2. f \in Frame /\ Fresh(f) /\ ~f.completed /\ Clean(f) /\ ~f.wild /\ f.opcode = "INFO"
  <2>1. /\ f \in Frame /\ SameHeaders(EmptyFrame, f) /\ f.completed = EmptyFrame.completed
        /\ f.opcode = "INFO"
    BY EmptyFrameIs DEF Frame, SameHeaders, Opcode
  <2>2. Fresh(f) /\ Clean(f)
    <3> HIDE DEF f
    <3> QED BY <2>1, EmptyFrameIs, FreshSame
  <2> QED BY <2>1, <2>2, EmptyFrameIs DEF Fresh
<1> HIDE DEF f, b
<1>3. Fills(f, 1, p) /\ (p.ok => p.f.pos = 1)
  BY <1>2, PutPayloadIs
<1> HIDE DEF p
<1>4. /\ p \in Result /\ p.f \in Frame /\ SameHeaders(f, p.f) /\ ~p.f.completed /\ ~p.f.wild /\ p.f.opcode = "INFO"
      /\ p.ok => p.f.data_size = 1 /\ p.f.payload_size = 1
  BY <1>2, <1>3 DEF Fills, Result, SameHeaders
<1>5. Sized(p.f) /\ Clean(p.f)
  <2>1. Sized(f)
    BY <1>2, SizedEmpty DEF Fresh
  <2> QED BY <1>2, <1>4, <2>1, SameHeadersKeep
<1>6. CASE ~p.ok
  <2>1. b = p
    BY <1>1, <1>6
  <2>2. Makes(b) /\ Clean(b.f) /\ (b.ok => b.f.opcode = "INFO")
    BY <1>4, <1>5, <1>6, <2>1 DEF Makes
  <2> QED BY <2>2 DEF b
<1>7. CASE p.ok
  <2>1. b = Build(p.f)
    BY <1>1, <1>4, <1>7
  <2>2. Builds(p.f, b)
    BY <1>4, <2>1, BuildIs
  <2>3. Makes(b) /\ Clean(b.f) /\ (b.ok => b.f.opcode = "INFO")
    BY <1>3, <1>4, <1>5, <1>7, <2>2 DEF Builds, Makes
  <2> QED BY <2>3 DEF b
<1> QED BY <1>6, <1>7

\* A frame that is being made from src, and has its headers.
Draft(src, k) ==
    /\ k \in Result /\ ~k.f.completed /\ (Clean(src) => Clean(k.f))
    /\ k.ok => /\ ~k.f.wild /\ Sized(k.f) /\ DOMAIN k.f.headers = DOMAIN src.headers
               /\ \A j \in DOMAIN src.headers : k.f.headers[j] \in {src.headers[j], NONE}

LEMMA CopyDrafts ==
    ASSUME NEW src \in Frame, NEW c \in Result, Fresh(c.f), ~c.f.completed, NEW k,
           k = IF c.ok /\ ~c.f.wild THEN CopyVarHeaders(c.f, src) ELSE c
    PROVE  Draft(src, k)
<1>0. ~c.f.wild /\ c.f \in Frame /\ Clean(c.f)
  BY DEF Fresh, Clean
<1>1. CASE c.ok
  <2>1. k = CopyVarHeaders(c.f, src)
    BY <1>0, <1>1
  <2>2. Copies(c.f, src, k)
    BY <2>1, CopyWhole
  <2> QED BY <2>2 DEF Copies, Draft, Alike
<1>2. CASE ~c.ok
  <2>1. k = c
    BY <1>2
  <2> QED BY <1>0, <1>2, <2>1 DEF Draft
<1> QED BY <1>1, <1>2

LEMMA DraftSame ==
    ASSUME NEW src, NEW k, Draft(src, k), k.ok, NEW r \in Result, SameHeaders(k.f, r.f),
           r.f.completed = k.f.completed
    PROVE  Draft(src, r)
<1>1. Sized(r.f) /\ (Clean(src) => Clean(r.f))
  BY SameHeadersKeep DEF Draft
<1> QED BY <1>1 DEF Draft, SameHeaders

\* What was made from src has its headers, but for those in own.
MakesFrom(src, b, own) ==
    /\ Makes(b) /\ (Clean(src) => Clean(b.f))
    /\ b.ok => \A j \in DOMAIN src.headers \ own :
                  j \in DOMAIN b.f.headers /\ b.f.headers[j] \in {src.headers[j], NONE}

LEMMA DraftBuilt ==
    ASSUME NEW src, NEW t, NEW own, t \in Result, ~t.f.completed, Clean(src) => Clean(t.f), t.ok,
           ~t.f.wild, Sized(t.f), DOMAIN src.headers \subseteq DOMAIN t.f.headers,
           \A j \in DOMAIN src.headers \ own : t.f.headers[j] \in {src.headers[j], NONE},
           t.f.data_size = t.f.payload_size, t.f.pos = t.f.payload_size, "x-time" \in own,
           NEW b, b = Build(t.f)
    PROVE  /\ MakesFrom(src, b, own) /\ b.f.opcode = t.f.opcode /\ b.f.payload_size = t.f.payload_size
<1>1. t.f \in Frame
  BY DEF Result
<1>2. Builds(t.f, b)
  BY <1>1, BuildIs
<1>3. Makes(b)
  BY <1>2 DEF Builds, Makes
<1>4. \A j \in DOMAIN src.headers \ own :
         j \in DOMAIN b.f.headers /\ b.f.headers[j] \in {src.headers[j], NONE}
  BY <1>2 DEF Builds, Keeps
<1>5. (Clean(src) => Clean(b.f)) /\ b.f.opcode = t.f.opcode /\ b.f.payload_size = t.f.payload_size
  BY <1>2 DEF Builds
<1> QED BY <1>3, <1>4, <1>5 DEF MakesFrom

LEMMA DraftStops ==
    ASSUME NEW src, NEW b, NEW own, Draft(src, b), ~b.ok
    PROVE  MakesFrom(src, b, own)
BY DEF Draft, MakesFrom, Makes

LEMMA MSGIs ==
    ASSUME NEW src \in Frame, NEW alloc \in BOOLEAN, NEW b, b = MSG(src, alloc)
    PROVE  /\ MakesFrom(src, b, {"x-time"})
           /\ b.ok => b.f.opcode = "MSG" /\ b.f.payload_size = src.payload_size
<1> DEFINE c == IF src.completed THEN Control(EmptyFrame, src.opcode, src.ack) ELSE [ok |-> FALSE, f |-> EmptyFrame]
           k == IF c.ok /\ ~c.f.wild THEN CopyVarHeaders(c.f, src) ELSE c
           p == IF k.ok /\ ~k.f.wild THEN PutPayload(k.f, src.payload_size, alloc) ELSE k
           t == IF p.ok /\ ~p.f.wild THEN Control(p.f, "MSG", p.f.ack) ELSE p
<1>1. b = IF t.ok /\ ~t.f.wild THEN Build(t.f) ELSE t
  BY DEF MSG, Then
<1>2. c \in Result /\ Fresh(c.f) /\ ~c.f.completed
  <2>1. CASE src.completed
    <3> DEFINE r == Control(EmptyFrame, src.opcode, src.ack)
    <3>0. src.opcode \in Opcode /\ src.ack \in BOOLEAN
      BY DEF Frame
    <3>1. Controls(EmptyFrame, src.opcode, src.ack, r)
      BY <3>0, EmptyFrameIs, ControlIs
    <3>c. c = r
      BY <2>1
    <3> HIDE DEF r, c
    <3>2. r \in Result /\ r.f \in Frame /\ SameHeaders(EmptyFrame, r.f) /\ ~r.f.completed
      BY <3>1, EmptyFrameIs DEF Controls, Result
    <3>3. Fresh(r.f)
      BY <3>2, EmptyFrameIs, FreshSame
    <3> QED BY <3>2, <3>3, <3>c
  <2>2. CASE ~src.completed
    <3>1. c = [ok |-> FALSE, f |-> EmptyFrame]
      BY <2>2
    <3> HIDE DEF c
    <3> QED BY <3>1, EmptyFrameIs DEF Result
  <2> QED BY <2>1, <2>2
<1> HIDE DEF c
<1>3. Draft(src, k)
  BY <1>2, CopyDrafts
<1> HIDE DEF k
<1>4. CASE ~k.ok
  <2>1. b = k
    BY <1>1, <1>4
  <2> QED BY <1>3, <1>4, <2>1, DraftStops
<1>5. CASE k.ok
  <2>1. ~k.f.wild /\ k.f \in Frame /\ src.payload_size \in Nat
    BY <1>3, <1>5 DEF Draft, Result, Frame
  <2>2. p = PutPayload(k.f, src.payload_size, alloc)
    BY <1>5, <2>1
  <2> HIDE DEF p
  <2>3. Fills(k.f, src.payload_size, p) /\ (p.ok => p.f.pos = src.payload_size)
    BY <2>1, <2>2, PutPayloadIs
  <2>4. Draft(src, p)
    BY <1>3, <1>5, <2>3, DraftSame DEF Fills
  <2>5. CASE ~p.ok
    <3>1. b = p
      BY <1>1, <2>5
    <3> QED BY <2>4, <2>5, <3>1, DraftStops
  <2>6. CASE p.ok
    <3>1. ~p.f.wild /\ p.f \in Frame /\ p.f.ack \in BOOLEAN /\ "MSG" \in Opcode
      BY <2>4, <2>6 DEF Draft, Result, Frame, Opcode
    <3>2. t = Control(p.f, "MSG", p.f.ack)
      BY <2>6, <3>1
    <3> HIDE DEF t
    <3>3. Controls(p.f, "MSG", p.f.ack, t)
      BY <3>1, <3>2, ControlIs
    <3>4. t.ok /\ t.f.opcode = "MSG"
      BY <3>3 DEF Controls
    <3>5. Draft(src, t)
      BY <2>4, <2>6, <3>3, DraftSame DEF Controls
    <3>6. t.f.data_size = src.payload_size /\ t.f.payload_size = src.payload_size /\ t.f.pos = src.payload_size
      BY <2>3, <2>6, <3>3 DEF Controls, Fills
    <3>7. b = Build(t.f)
      BY <1>1, <3>4, <3>5 DEF Draft
    <3>8. MakesFrom(src, b, {"x-time"}) /\ b.f.opcode = t.f.opcode /\ b.f.payload_size = t.f.payload_size
      <4>1. /\ t \in Result /\ ~t.f.completed /\ (Clean(src) => Clean(t.f))
            /\ ~t.f.wild /\ Sized(t.f) /\ DOMAIN src.headers \subseteq DOMAIN t.f.headers
            /\ \A j \in DOMAIN src.headers \ {"x-time"} : t.f.headers[j] \in {src.headers[j], NONE}
        BY <3>4, <3>5 DEF Draft
      <4>2. t.f.data_size = t.f.payload_size /\ t.f.pos = t.f.payload_size
        BY <3>6
      <4> DEFINE own == {"x-time"}
      <4>3. "x-time" \in own /\ \A j \in DOMAIN src.headers \ own : t.f.headers[j] \in {src.headers[j], NONE}
        BY <4>1
      <4> HIDE DEF own
      <4>4. MakesFrom(src, b, own) /\ b.f.opcode = t.f.opcode /\ b.f.payload_size = t.f.payload_size
        BY <3>4, <3>7, <4>1, <4>2, <4>3, DraftBuilt
      <4> QED BY <4>4 DEF own
    <3> QED BY <3>4, <3>6, <3>8
  <2> QED BY <2>5, <2>6
<1> QED BY <1>4, <1>5

LEMMA AnswerIs ==
    ASSUME NEW old, NEW src \in Frame, NEW opcode \in {"OK", "ERR"}, NEW alloc \in BOOLEAN,
           NEW b, b = Answer(old, src, opcode, alloc)
    PROVE  MakesFrom(src, b, {"x-status-code", "x-time"}) /\ (b.ok => b.f.opcode = opcode)
<1> DEFINE own == {"x-status-code", "x-time"}
           c == Control(Emptied(old), src.opcode, src.ack)
           k == IF c.ok /\ ~c.f.wild THEN CopyVarHeaders(c.f, src) ELSE c
           t == IF k.ok /\ ~k.f.wild THEN Control(k.f, opcode, k.f.ack) ELSE k
           p == IF t.ok /\ ~t.f.wild THEN (IF opcode = "OK" THEN PutPayload(t.f, 1, alloc)
                                           ELSE ReplacePayload(t.f, 1, alloc)) ELSE t
           q == IF p.ok /\ ~p.f.wild THEN SetVarHeader(p.f, "x-status-code", CodeLen) ELSE p
<1>1. b = IF q.ok /\ ~q.f.wild THEN Build(q.f) ELSE q
  BY DEF Answer, Then
<1>2. c \in Result /\ Fresh(c.f) /\ ~c.f.completed
  <2>0. src.opcode \in Opcode /\ src.ack \in BOOLEAN
    BY DEF Frame
  <2>1. Controls(EmptyFrame, src.opcode, src.ack, c)
    BY <2>0, EmptyFrameIs, ControlIs DEF Emptied
  <2> HIDE DEF c
  <2>2. c \in Result /\ c.f \in Frame /\ SameHeaders(EmptyFrame, c.f) /\ ~c.f.completed
    BY <2>1, EmptyFrameIs DEF Controls, Result
  <2>3. Fresh(c.f)
    BY <2>2, EmptyFrameIs, FreshSame
  <2> QED BY <2>2, <2>3
<1> HIDE DEF c
<1>3. Draft(src, k)
  BY <1>2, CopyDrafts
<1> HIDE DEF k, own
<1>o. (b.ok => b.f.opcode = opcode) /\ MakesFrom(src, b, own)
  <2>1. CASE ~k.ok
    <3>1. b = k
      BY <1>1, <2>1
    <3> QED BY <1>3, <2>1, <3>1, DraftStops
  <2>2. CASE k.ok
    <3>1. ~k.f.wild /\ k.f \in Frame /\ k.f.ack \in BOOLEAN /\ opcode \in Opcode /\ opcode # "NOOP"
      BY <1>3, <2>2 DEF Draft, Result, Frame, Opcode
    <3>2. t = Control(k.f, opcode, k.f.ack)
      BY <2>2, <3>1
    <3> HIDE DEF t
    <3>3. Controls(k.f, opcode, k.f.ack, t)
      BY <3>1, <3>2, ControlIs
    <3>4. t.ok /\ t.f.opcode = opcode
      BY <3>1, <3>3 DEF Controls
    <3>5. Draft(src, t)
      BY <1>3, <2>2, <3>3, DraftSame DEF Controls
    <3>6. ~t.f.wild /\ t.f \in Frame
      BY <3>4, <3>5 DEF Draft, Result
    <3>7. p = IF opcode = "OK" THEN PutPayload(t.f, 1, alloc) ELSE ReplacePayload(t.f, 1, alloc)
      BY <3>4, <3>6
    <3> HIDE DEF p
    <3>8. Fills(t.f, 1, p) /\ (p.ok => p.f.pos = 1)
      <4>1. Fills(t.f, 1, PutPayload(t.f, 1, alloc)) /\ (PutPayload(t.f, 1, alloc).ok => PutPayload(t.f, 1, alloc).f.pos = 1)
        BY <3>6, PutPayloadIs
      <4>2. Fills(t.f, 1, ReplacePayload(t.f, 1, alloc)) /\ (ReplacePayload(t.f, 1, alloc).ok => ReplacePayload(t.f, 1, alloc).f.pos = 1)
        BY <3>6, ReplacePayloadIs
      <4> QED BY <3>7, <4>1, <4>2
    <3>9. Draft(src, p) /\ p.f.opcode = opcode
      BY <3>4, <3>5, <3>8, DraftSame DEF Fills
    <3>10. CASE ~p.ok
      <4>1. b = p
        BY <1>1, <3>10
      <4> QED BY <3>9, <3>10, <4>1, DraftStops
    <3>11. CASE p.ok
      <4>1. /\ ~p.f.wild /\ p.f \in Frame /\ Sized(p.f) /\ ~p.f.completed
            /\ DOMAIN p.f.headers = DOMAIN src.headers /\ (Clean(src) => Clean(p.f))
            /\ \A j \in DOMAIN src.headers : p.f.headers[j] \in {src.headers[j], NONE}
        BY <3>9, <3>11 DEF Draft, Result
      <4>2. q = SetVarHeader(p.f, "x-status-code", CodeLen)
        BY <3>11, <4>1
      <4>3. "x-status-code" \in Key /\ CodeLen \in Nat /\ CodeLen # 0
        BY FramesAssumption
      <4> HIDE DEF q
      <4>4. Sets(p.f, "x-status-code", CodeLen, q) /\ Counts(p.f, "x-status-code", CodeLen, q)
        BY <4>1, <4>2, <4>3, SetIs, SetSized
      <4>5. q \in Result /\ ~q.f.completed /\ (Clean(src) => Clean(q.f)) /\ q.f.opcode = opcode
        BY <3>9, <4>1, <4>3, <4>4 DEF Sets, Alike
      <4>6. CASE ~q.ok
        <5>1. b = q
          BY <1>1, <4>6
        <5> QED BY <4>5, <4>6, <5>1 DEF MakesFrom, Makes
      <4>7. CASE q.ok
        <5>1. ~q.f.wild /\ Sized(q.f)
          BY <4>1, <4>4, <4>7 DEF Sets, Counts
        <5>2. DOMAIN src.headers \subseteq DOMAIN q.f.headers
          BY <4>1, <4>4 DEF Sets
        <5>3. \A j \in DOMAIN src.headers \ own : q.f.headers[j] \in {src.headers[j], NONE}
          BY <4>1, <4>4 DEF Sets, own
        <5>4. q.f.data_size = q.f.payload_size /\ q.f.pos = q.f.payload_size
          BY <3>8, <3>11, <4>4 DEF Sets, Alike, Fills
        <5>5. b = Build(q.f) /\ "x-time" \in own
          BY <1>1, <4>7, <5>1 DEF own
        <5>6. MakesFrom(src, b, own) /\ b.f.opcode = q.f.opcode
          BY <4>5, <4>7, <5>1, <5>2, <5>3, <5>4, <5>5, DraftBuilt
        <5> QED BY <4>5, <5>6
      <4> QED BY <4>6, <4>7
    <3> QED BY <3>10, <3>11
  <2> QED BY <2>1, <2>2
<1> QED BY <1>o DEF own

-----------------------------------------------------------------------------
(***************************************************************************)
(* The labels of a delivery.                                               *)
(***************************************************************************)
Own == {"x-sub-tag", "x-origin-topic", "x-topic", "x-from"}

\* A frame that is being labelled; full tells that no label is empty.
Labelling(f, r, full) ==
    /\ r \in Result /\ r.f \in Frame /\ Alike(f, r.f) /\ Keeps(f, r.f, Own)
    /\ full /\ Clean(f) => Clean(r.f)
    /\ r.ok => ~r.f.wild /\ (Sized(f) => Sized(r.f))

LEMMA OneLabel ==
    ASSUME NEW f, NEW p, NEW full, Labelling(f, p, full), NEW k \in Own \cap Key, NEW v \in Nat, full => v # 0,
           NEW r, r = IF p.ok /\ ~p.f.wild THEN SetVarHeader(p.f, k, v) ELSE p
    PROVE  /\ Labelling(f, r, full)
           /\ r.ok => /\ p.ok /\ k \in DOMAIN r.f.headers /\ r.f.headers[k] \in {v, NONE}
                      /\ \A j \in DOMAIN p.f.headers : j # k => j \in DOMAIN r.f.headers /\ r.f.headers[j] = p.f.headers[j]
<1>0. p.f \in Frame /\ Alike(f, p.f) /\ Keeps(f, p.f, Own)
  BY DEF Labelling
<1>1. CASE ~p.ok
  <2>1. r = p
    BY <1>1
  <2> QED BY <1>1, <2>1
<1>2. CASE p.ok
  <2>1. ~p.f.wild /\ (Sized(f) => Sized(p.f))
    BY <1>2 DEF Labelling
  <2>2. r = SetVarHeader(p.f, k, v)
    BY <1>2, <2>1
  <2>3. Sets(p.f, k, v, r)
    BY <1>0, <2>2, SetIs
  <2>4. Sized(f) => Counts(p.f, k, v, r)
    BY <1>0, <2>1, <2>2, SetSized
  <2>5. Keeps(f, r.f, Own)
    <3>1. Keeps(p.f, r.f, Own)
      BY <2>3, SetKeeps
    <3> QED BY <1>0, <3>1, KeepsChain
  <2>6. r \in Result /\ r.f \in Frame /\ Alike(f, r.f)
    BY <1>0, <2>3 DEF Sets, Alike
  <2>7. full /\ Clean(f) => Clean(r.f)
    BY <2>3 DEF Labelling, Sets
  <2>8. r.ok => ~r.f.wild /\ (Sized(f) => Sized(r.f))
    BY <2>1, <2>3, <2>4 DEF Sets, Counts
  <2>9. r.ok => /\ k \in DOMAIN r.f.headers /\ r.f.headers[k] \in {v, NONE}
                /\ \A j \in DOMAIN p.f.headers : j # k => j \in DOMAIN r.f.headers /\ r.f.headers[j] = p.f.headers[j]
    BY <2>3 DEF Sets
  <2> QED BY <1>2, <2>5, <2>6, <2>7, <2>8, <2>9 DEF Labelling
<1> QED BY <1>1, <1>2

\* All three labels, or the frame is not sent.
Labels(r, tag, origin, topic) ==
    /\ "x-sub-tag" \in DOMAIN r.f.headers /\ r.f.headers["x-sub-tag"] \in {tag, NONE}
    /\ "x-origin-topic" \in DOMAIN r.f.headers /\ r.f.headers["x-origin-topic"] \in {origin, NONE}
    /\ "x-topic" \in DOMAIN r.f.headers /\ r.f.headers["x-topic"] \in {topic, NONE}

LEMMA LabelledIs ==
    ASSUME NEW f \in Frame, ~f.wild, NEW sub \in Found, NEW full, in.headers["x-topic"] \in Nat,
           full => in.headers["x-topic"] # 0 /\ sub.tag # 0
    PROVE  LET r == Labelled(f, sub)
           IN Labelling(f, r, full) /\ (r.ok => Labels(r, sub.tag, in.headers["x-topic"], sub.topic))
<1> DEFINE origin == in.headers["x-topic"]
           o == [ok |-> TRUE, f |-> f]
           a == IF o.ok /\ ~o.f.wild THEN SetVarHeader(o.f, "x-sub-tag", sub.tag) ELSE o
           b == IF a.ok /\ ~a.f.wild THEN SetVarHeader(a.f, "x-origin-topic", origin) ELSE a
           r == IF b.ok /\ ~b.f.wild THEN SetVarHeader(b.f, "x-topic", sub.topic) ELSE b
<1>1. Labelled(f, sub) = r
  BY DEF Labelled, Then
<1>2. {"x-sub-tag", "x-origin-topic", "x-topic"} \subseteq Own \cap Key
  BY FramesAssumption DEF Own
<1>3. sub.tag \in Nat /\ sub.topic \in Nat /\ (full => sub.tag # 0) /\ sub.topic # 0
  BY FramesAssumption
<1>4. Labelling(f, o, full)
  BY DEF Labelling, Result, Alike, Keeps
<1>5. origin \in Nat /\ (full => origin # 0)
  OBVIOUS
<1> HIDE DEF o, origin
<1>6. Labelling(f, a, full) /\ (a.ok => "x-sub-tag" \in DOMAIN a.f.headers /\ a.f.headers["x-sub-tag"] \in {sub.tag, NONE})
  BY <1>2, <1>3, <1>4, OneLabel
<1> HIDE DEF a
<1>7. /\ Labelling(f, b, full)
      /\ b.ok => /\ a.ok /\ "x-origin-topic" \in DOMAIN b.f.headers /\ b.f.headers["x-origin-topic"] \in {origin, NONE}
                 /\ \A j \in DOMAIN a.f.headers : j # "x-origin-topic" =>
                       j \in DOMAIN b.f.headers /\ b.f.headers[j] = a.f.headers[j]
  <2>1. "x-origin-topic" \in Own \cap Key
    BY <1>2
  <2> QED BY <1>5, <1>6, <2>1, OneLabel
<1> HIDE DEF b
<1>8. /\ Labelling(f, r, full)
      /\ r.ok => /\ b.ok /\ "x-topic" \in DOMAIN r.f.headers /\ r.f.headers["x-topic"] \in {sub.topic, NONE}
                 /\ \A j \in DOMAIN b.f.headers : j # "x-topic" =>
                       j \in DOMAIN r.f.headers /\ r.f.headers[j] = b.f.headers[j]
  <2>1. "x-topic" \in Own \cap Key
    BY <1>2
  <2> QED BY <1>3, <1>7, <2>1, OneLabel
<1> HIDE DEF r
<1>9. r.ok => Labels(r, sub.tag, origin, sub.topic)
  BY <1>6, <1>7, <1>8 DEF Labels
<1> QED BY <1>1, <1>8, <1>9 DEF origin

LEMMA DeliveredIs ==
    ASSUME NEW f \in Frame, ~f.wild, NEW sub \in Found, NEW full, in.headers["x-topic"] \in Nat,
           full => in.headers["x-topic"] # 0 /\ sub.tag # 0
    PROVE  LET r == Then(Labelled(f, sub), LAMBDA g : SetVarHeader(g, "x-from", FromLen))
           IN Labelling(f, r, full) /\ (r.ok => Labels(r, sub.tag, in.headers["x-topic"], sub.topic))
<1> DEFINE p == Labelled(f, sub)
           r == IF p.ok /\ ~p.f.wild THEN SetVarHeader(p.f, "x-from", FromLen) ELSE p
           origin == in.headers["x-topic"]
<1>1. Then(Labelled(f, sub), LAMBDA g : SetVarHeader(g, "x-from", FromLen)) = r
  BY DEF Then
<1>2. Labelling(f, p, full) /\ (p.ok => Labels(p, sub.tag, origin, sub.topic))
  BY LabelledIs
<1>3. "x-from" \in Own \cap Key /\ FromLen \in Nat /\ FromLen # 0
  BY FramesAssumption DEF Own
<1> HIDE DEF p, origin
<1>4. /\ Labelling(f, r, full)
      /\ r.ok => /\ p.ok /\ \A j \in DOMAIN p.f.headers : j # "x-from" =>
                               j \in DOMAIN r.f.headers /\ r.f.headers[j] = p.f.headers[j]
  BY <1>2, <1>3, OneLabel
<1> HIDE DEF r
<1>5. r.ok => Labels(r, sub.tag, origin, sub.topic)
  BY <1>2, <1>4 DEF Labels
<1> QED BY <1>1, <1>4, <1>5 DEF origin

-----------------------------------------------------------------------------
(***************************************************************************)
(* What is carried from one frame into the next.                           *)
(***************************************************************************)
LEMMA CarriesMore ==
    ASSUME NEW f, NEW hs, NEW own, CarriesOr(f, hs, {})
    PROVE  CarriesOr(f, hs, own)
BY DEF CarriesOr

LEMMA CarriesMade ==
    ASSUME NEW src, NEW b, NEW hs, NEW own, NEW more, CarriesOr(src, hs, own), MakesFrom(src, b, more), b.ok,
           more \subseteq own \cup {"x-time"}
    PROVE  CarriesOr(b.f, hs, own)
BY DEF CarriesOr, MakesFrom

\* In a frame that can be sent, each header has the value it had on the wire.
LEMMA CarriesGives ==
    ASSUME NEW f, NEW own, CarriesOr(f, request.headers, own), ~Junk(f)
    PROVE  Carries(f, own)
<1>1. \A k : OnWire(k) = Wired(request.headers, k)
  BY DEF OnWire, Wired
<1>2. \A k \in DOMAIN f.headers : f.headers[k] # NONE
  BY DEF Junk
<1> QED BY <1>1, <1>2 DEF Carries, CarriesOr, Names

LEMMA NotClean == \A f : f.wild \/ Junk(f) => ~Clean(f)
BY FramesAssumption DEF Junk, Clean
-----------------------------------------------------------------------------
(***************************************************************************)
(* The inductive invariant.                                                *)
(***************************************************************************)
NonEmpty == \A i \in 1 .. Len(request.headers) : request.headers[i][2] # 0
NoBlank == NonEmpty /\ ~blank

TypeInv ==
    /\ in \in Frame /\ out \in Frame /\ (msg = NONE \/ msg \in Frame)
    /\ pc \in {"recv", "handle", "deliver", "reply", "end", "undefined"}
    /\ request \in Request \cup {NONE}
    /\ last = NONE \/ (last.frame \in Frame /\ last.sub \in Found \cup {NONE} /\ last.whole \in BOOLEAN)
    /\ refused \in BOOLEAN /\ blank \in BOOLEAN

\* Wherever a frame is complete, its headers are counted.
SizeInv ==
    /\ in.completed => Sized(in)
    /\ out.completed => Sized(out)
    /\ msg # NONE /\ msg.completed /\ ~refused => Sized(msg)

AskedInv == pc # "recv" \/ last # NONE => request \in Request

\* As long as a request is handled, in_frame is that request.
InInv ==
    pc \in {"handle", "deliver", "reply"} =>
        /\ Whole(in, request.data) /\ ~in.wild /\ in.opcode = request.opcode
        /\ Named(in, request.headers) /\ CarriesOr(in, request.headers, {})
        /\ NonEmpty => Clean(in)

\* Between two deliveries, whatever the last of them has left, deliver_frame is the
\* message but for its labels.
MsgInv ==
    pc = "deliver" =>
        /\ msg \in Frame /\ Whole(msg, request.data) /\ ~msg.wild /\ msg.opcode = "MSG"
        /\ CarriesOr(msg, request.headers, Own)
        /\ ~refused => Sized(msg)
        /\ NoBlank => Clean(msg)
        /\ HasTopic /\ in.headers["x-topic"] # NONE

FramesInv ==
    TypeInv /\ SizeInv /\ AskedInv /\ InInv /\ MsgInv /\ SentIsFaithful /\ UndefinedHasCause

LEMMA InitInv == Init => FramesInv
<1> SUFFICES ASSUME Init PROVE FramesInv
  OBVIOUS
<1>1. TypeInv
  BY EmptyFrameIs DEF Init, TypeInv
<1>2. SizeInv
  BY EmptyFrameIs DEF Init, SizeInv
<1> QED BY <1>1, <1>2 DEF Init, FramesInv, AskedInv, InInv, MsgInv, SentIsFaithful, UndefinedHasCause

LEMMA InvTyped == FramesInv => TypeOK
<1>1. TypeInv => TypeOK
  BY FrameIs DEF TypeInv, TypeOK
<1> QED BY <1>1 DEF FramesInv

LEMMA InvCounted == FramesInv => HeadersCounted
<1>1. \A f \in Frame : Sized(f) => Counted(f)
  BY SizedBytes DEF Counted
<1>2. TypeInv /\ SizeInv => HeadersCounted
  BY <1>1 DEF TypeInv, SizeInv, HeadersCounted
<1> QED BY <1>2 DEF FramesInv

\* What may be sent, and for whom, while a request is handled.
Faithful(f, sub) ==
    /\ f.completed /\ f.data_size = f.payload_size /\ f.pos = f.payload_size
    /\ sub # NONE => /\ f.opcode = "MSG" /\ f.payload_size = request.data
                     /\ f.headers["x-sub-tag"] = sub.tag /\ f.headers["x-topic"] = sub.topic
                     /\ f.headers["x-origin-topic"] = OnWire("x-topic")
                     /\ Carries(f, Own)
    /\ f.opcode \in {"OK", "ERR"} /\ request.opcode \in {"PUB", "SUB", "UNSUB"} => Carries(f, {"x-status-code"})

LEMMA SentGood ==
    ASSUME NEW f, NEW sub, Faithful(f, sub), request' = request, NEW w, sub = NONE => w,
           last' = [frame |-> f, sub |-> sub, whole |-> w]
    PROVE  SentIsFaithful'
<1>1. last'.frame = f /\ last'.sub = sub /\ last'.whole = w
  OBVIOUS
<1>2. \A k : OnWire(k)' = OnWire(k)
  BY DEF OnWire
<1>3. \A own : Carries(f, own) => Carries(last.frame, own)'
  BY <1>1, <1>2 DEF Carries
<1> QED BY <1>1, <1>2, <1>3 DEF SentIsFaithful, Faithful, Own

LEMMA SentSame ==
    ASSUME SentIsFaithful, request' = request, last' = last
    PROVE  SentIsFaithful'
<1>1. \A k : OnWire(k)' = OnWire(k)
  BY DEF OnWire
<1>2. \A own : Carries(last.frame, own) => Carries(last.frame, own)'
  BY <1>1 DEF Carries
<1> QED BY <1>1, <1>2 DEF SentIsFaithful

\* A step that leaves the request and in_frame alone.
LEMMA InSame ==
    ASSUME InInv, request' = request, in' = in, pc \in {"handle", "deliver", "reply"}
    PROVE  InInv'
<1>1. NonEmpty' <=> NonEmpty
  BY DEF NonEmpty
<1> QED BY <1>1 DEF InInv

\* Every step that sends, or that stops before, does one of these.
LEMMA SentIs ==
    ASSUME NEW f \in Frame, NEW sub \in Found \cup {NONE}, NEW label, Sent(f, sub, label),
           last = NONE \/ (last.frame \in Frame /\ last.sub \in Found \cup {NONE} /\ last.whole \in BOOLEAN),
           request' = request, SentIsFaithful, ~Junk(f) => Faithful(f, sub),
           NonEmpty /\ ~blank' => Clean(f), label # "undefined",
           Sized(f) \/ (sub # NONE /\ refused' /\ msg' = f /\ ~f.wild)
    PROVE  /\ last' = NONE \/ (last'.frame \in Frame /\ last'.sub \in Found \cup {NONE} /\ last'.whole \in BOOLEAN)
           /\ SentIsFaithful' /\ UndefinedHasCause' /\ pc' \in {label, "undefined"}
<1>s. ~Junk(f) /\ Sized(f) => f.vars_size = Bytes(f.headers)
  BY SizedBytes
<1>1. CASE Junk(f) /\ pc' = "undefined" /\ last' = last
  <2>2. ~NonEmpty \/ blank'
    BY <1>1, NotClean
  <2>3. SentIsFaithful'
    BY <1>1, SentSame
  <2>4. UndefinedHasCause'
    BY <2>2 DEF UndefinedHasCause, NonEmpty
  <2> QED BY <1>1, <2>3, <2>4
<1>2. CASE ~Junk(f) /\ pc' = label /\ last' = [frame |-> f, sub |-> sub, whole |-> f.vars_size = Bytes(f.headers)]
  <2> DEFINE w == f.vars_size = Bytes(f.headers)
  <2>1. w \in BOOLEAN /\ (sub = NONE => w)
    BY <1>2, <1>s
  <2>2. last' = [frame |-> f, sub |-> sub, whole |-> w]
    BY <1>2
  <2> HIDE DEF w
  <2>3. SentIsFaithful'
    BY <1>2, <2>1, <2>2, SentGood
  <2>4. UndefinedHasCause'
    BY <1>2 DEF UndefinedHasCause
  <2> QED BY <1>2, <2>1, <2>2, <2>3, <2>4
<1>3. CASE Overruns(f) /\ pc' = "undefined" /\ last' = last
  <2>1. ~Sized(f)
    <3>1. f.vars_size \in Nat
      BY DEF Frame
    <3> QED BY <1>3, <1>s, <3>1 DEF Overruns
  <2>2. SentIsFaithful'
    BY <1>3, SentSame
  <2>3. UndefinedHasCause'
    BY <2>1 DEF UndefinedHasCause
  <2> QED BY <1>3, <2>2, <2>3
<1> QED BY <1>1, <1>2, <1>3 DEF Sent

-----------------------------------------------------------------------------
(***************************************************************************)
(* Every step keeps it.                                                    *)
(***************************************************************************)
LEMMA RecvInv ==
    ASSUME FramesInv, NEW r \in Request, NEW alloc \in BOOLEAN, Recv(r, alloc)
    PROVE  FramesInv'
<1> DEFINE b == Received(in, r, alloc)
<1>1. Receives(r, b)
  BY ReceivedIs
<1>2. /\ request' = r /\ in' = b.f /\ pc' = After(b, "handle") /\ last' = NONE
      /\ out' = out /\ msg' = msg /\ refused' = refused /\ blank' = blank
  BY DEF Recv
<1> HIDE DEF b
<1>3. b.f \in Frame /\ b.ok \in BOOLEAN
  BY <1>1 DEF Receives, Result
<1>4. pc' = IF b.f.wild THEN "undefined" ELSE IF b.ok THEN "handle" ELSE "end"
  BY <1>2 DEF After
<1>5. TypeInv'
  BY <1>2, <1>3, <1>4 DEF FramesInv, TypeInv
<1>6. SizeInv'
  BY <1>1, <1>2 DEF FramesInv, SizeInv, Receives
<1>7. AskedInv'
  BY <1>2 DEF AskedInv
<1>n. NonEmpty' => Clean(b.f)
  <2>1. r.headers \in Headers
    BY RequestAssumption DEF Headers
  <2>2. DOMAIN r.headers = 1 .. Len(r.headers)
    BY <2>1, HeadersAre
  <2> QED BY <1>1, <1>2, <2>2 DEF NonEmpty, Receives
<1>8. InInv'
  <2> SUFFICES ASSUME pc' = "handle" PROVE InInv'
    BY <1>4 DEF InInv
  <2>1. b.ok /\ ~b.f.wild
    BY <1>4
  <2> QED BY <1>1, <1>2, <1>n, <2>1 DEF InInv, Receives
<1>9. MsgInv' /\ SentIsFaithful'
  BY <1>2, <1>4 DEF MsgInv, SentIsFaithful
<1>10. UndefinedHasCause'
  <2> SUFFICES ASSUME pc' = "undefined" PROVE ~NonEmpty'
    BY DEF UndefinedHasCause, NonEmpty
  <2>1. b.f.wild
    BY <1>4
  <2> QED BY <1>n, <2>1, NotClean
<1> QED BY <1>5, <1>6, <1>7, <1>8, <1>9, <1>10 DEF FramesInv

LEMMA EchoInv == FramesInv /\ HandleEcho => FramesInv'
<1> SUFFICES ASSUME FramesInv, HandleEcho PROVE FramesInv'
  OBVIOUS
<1>1. /\ pc = "handle" /\ in.opcode \notin {"CONNECT", "PUB", "SUB", "UNSUB"} /\ Sent(in, NONE, "recv")
      /\ in' = in /\ out' = out /\ msg' = msg /\ request' = request /\ refused' = refused /\ blank' = blank
  BY DEF HandleEcho
<1>2. in \in Frame /\ Whole(in, request.data) /\ in.opcode = request.opcode /\ (NonEmpty => Clean(in)) /\ Sized(in)
  BY <1>1 DEF FramesInv, InInv, TypeInv, SizeInv, Whole
<1>3. Faithful(in, NONE)
  BY <1>1, <1>2 DEF Faithful, Whole
<1>4. /\ last' = NONE \/ (last'.frame \in Frame /\ last'.sub \in Found \cup {NONE} /\ last'.whole \in BOOLEAN)
      /\ SentIsFaithful' /\ UndefinedHasCause' /\ pc' \in {"recv", "undefined"}
  BY <1>1, <1>2, <1>3, SentIs DEF FramesInv, TypeInv
<1>5. TypeInv'
  BY <1>1, <1>4 DEF FramesInv, TypeInv
<1>6. SizeInv'
  BY <1>1 DEF FramesInv, SizeInv
<1>7. AskedInv' /\ InInv' /\ MsgInv'
  BY <1>1, <1>4 DEF FramesInv, AskedInv, InInv, MsgInv
<1> QED BY <1>4, <1>5, <1>6, <1>7 DEF FramesInv

LEMMA ConnectInv ==
    ASSUME FramesInv, NEW alloc \in BOOLEAN, HandleConnect(alloc)
    PROVE  FramesInv'
<1> DEFINE b == INFO(out, alloc)
<1>1. /\ pc = "handle" /\ out' = b.f
      /\ IF b.ok THEN Sent(b.f, NONE, "recv") ELSE pc' = "end" /\ last' = last
      /\ in' = in /\ msg' = msg /\ request' = request /\ refused' = refused /\ blank' = blank
  BY DEF HandleConnect
<1>2. Makes(b) /\ Clean(b.f) /\ (b.ok => b.f.opcode = "INFO")
  BY INFOIs
<1> HIDE DEF b
<1>3. b.f \in Frame /\ b.ok \in BOOLEAN /\ (b.f.completed => Sized(b.f))
  BY <1>2 DEF Makes, Result
<1>4. /\ last' = NONE \/ (last'.frame \in Frame /\ last'.sub \in Found \cup {NONE} /\ last'.whole \in BOOLEAN)
      /\ SentIsFaithful' /\ UndefinedHasCause' /\ pc' \in {"recv", "undefined", "end"}
  <2>1. CASE b.ok
    <3>1. Faithful(b.f, NONE)
      BY <1>2, <2>1 DEF Faithful, Makes
    <3>2. Sent(b.f, NONE, "recv")
      BY <1>1, <2>1
    <3>3. Sized(b.f)
      BY <1>2, <1>3, <2>1 DEF Makes
    <3> QED BY <1>1, <1>2, <1>3, <3>1, <3>2, <3>3, SentIs DEF FramesInv, TypeInv
  <2>2. CASE ~b.ok
    <3>1. pc' = "end" /\ last' = last
      BY <1>1, <2>2
    <3>2. SentIsFaithful'
      BY <1>1, <3>1, SentSame DEF FramesInv
    <3> QED BY <3>1, <3>2 DEF FramesInv, TypeInv, UndefinedHasCause
  <2> QED BY <2>1, <2>2
<1>5. TypeInv'
  BY <1>1, <1>3, <1>4 DEF FramesInv, TypeInv
<1>6. SizeInv'
  BY <1>1, <1>3 DEF FramesInv, SizeInv
<1>7. AskedInv' /\ InInv' /\ MsgInv'
  BY <1>1, <1>4 DEF FramesInv, AskedInv, InInv, MsgInv
<1> QED BY <1>4, <1>5, <1>6, <1>7 DEF FramesInv

LEMMA UndefinedInv == FramesInv /\ Undefined => FramesInv'
<1> SUFFICES ASSUME FramesInv, Undefined PROVE FramesInv'
  OBVIOUS
<1>1. /\ pc = "handle" /\ pc' = "undefined" /\ \E k \in Looked : in.headers[k] = NONE
      /\ in' = in /\ out' = out /\ msg' = msg /\ request' = request /\ last' = last /\ refused' = refused /\ blank' = blank
  BY DEF Undefined
<1>2. Junk(in)
  BY <1>1 DEF Junk, Looked
<1>3. ~NonEmpty
  BY <1>1, <1>2, NotClean DEF FramesInv, InInv
<1>4. UndefinedHasCause'
  BY <1>1, <1>3 DEF UndefinedHasCause, NonEmpty
<1>5. SentIsFaithful'
  BY <1>1, SentSame DEF FramesInv
<1>6. TypeInv' /\ SizeInv'
  BY <1>1 DEF FramesInv, TypeInv, SizeInv
<1>7. AskedInv' /\ InInv' /\ MsgInv'
  BY <1>1 DEF FramesInv, AskedInv, InInv, MsgInv
<1> QED BY <1>4, <1>5, <1>6, <1>7 DEF FramesInv

LEMMA QuietInv == FramesInv /\ HandleQuiet => FramesInv'
<1> SUFFICES ASSUME FramesInv, HandleQuiet PROVE FramesInv'
  OBVIOUS
<1>1. /\ pc = "handle" /\ pc' \in {"end", "reply"}
      /\ in' = in /\ out' = out /\ msg' = msg /\ request' = request /\ last' = last /\ refused' = refused /\ blank' = blank
  BY DEF HandleQuiet
<1>2. InInv'
  BY <1>1, InSame DEF FramesInv
<1>3. SentIsFaithful'
  BY <1>1, SentSame DEF FramesInv
<1>4. TypeInv' /\ SizeInv'
  BY <1>1 DEF FramesInv, TypeInv, SizeInv
<1>5. AskedInv' /\ MsgInv' /\ UndefinedHasCause'
  BY <1>1 DEF FramesInv, AskedInv, MsgInv, UndefinedHasCause
<1> QED BY <1>2, <1>3, <1>4, <1>5 DEF FramesInv

LEMMA PubInv ==
    ASSUME FramesInv, NEW alloc \in BOOLEAN, HandlePub(alloc)
    PROVE  FramesInv'
<1> DEFINE b == MSG(in, alloc)
<1>1. /\ pc = "handle" /\ HasTopic /\ Defined /\ in.opcode = "PUB"
      /\ msg' = b.f /\ pc' = After(b, "deliver") /\ refused' = refused /\ blank' = blank
      /\ in' = in /\ out' = out /\ request' = request /\ last' = last
  BY DEF HandlePub
<1>2. /\ in \in Frame /\ Whole(in, request.data) /\ CarriesOr(in, request.headers, {})
      /\ NonEmpty => Clean(in)
  BY <1>1 DEF FramesInv, InInv, TypeInv
<1>3. MakesFrom(in, b, {"x-time"}) /\ (b.ok => b.f.opcode = "MSG" /\ b.f.payload_size = in.payload_size)
  BY <1>2, MSGIs
<1> HIDE DEF b
<1>4. /\ b.f \in Frame /\ b.ok \in BOOLEAN /\ (b.f.completed => Sized(b.f)) /\ (NonEmpty => Clean(b.f))
      /\ b.ok => b.f.completed /\ ~b.f.wild /\ b.f.data_size = b.f.payload_size /\ b.f.pos = b.f.payload_size
  BY <1>2, <1>3 DEF MakesFrom, Makes, Result
<1>5. pc' = IF b.f.wild THEN "undefined" ELSE IF b.ok THEN "deliver" ELSE "end"
  BY <1>1 DEF After
<1>6. TypeInv'
  BY <1>1, <1>4, <1>5 DEF FramesInv, TypeInv
<1>7. SizeInv'
  BY <1>1, <1>4 DEF FramesInv, SizeInv
<1>8. InInv'
  BY <1>1, InSame DEF FramesInv
<1>9. SentIsFaithful' /\ AskedInv'
  BY <1>1, SentSame DEF FramesInv, AskedInv
<1>10. UndefinedHasCause'
  <2> SUFFICES ASSUME pc' = "undefined" PROVE ~NonEmpty
    BY <1>1 DEF UndefinedHasCause, NonEmpty
  <2>1. b.f.wild
    BY <1>5
  <2> QED BY <1>4, <2>1, NotClean
<1>11. MsgInv'
  <2> SUFFICES ASSUME pc' = "deliver" PROVE MsgInv'
    BY DEF MsgInv
  <2>1. b.ok /\ ~b.f.wild
    BY <1>5
  <2>2. CarriesOr(b.f, request.headers, {})
    BY <1>2, <1>3, <2>1, CarriesMade
  <2>3. CarriesOr(b.f, request.headers, Own)
    BY <2>2, CarriesMore
  <2>4. in.headers["x-topic"] # NONE
    <3>1. "x-topic" \in Looked
      BY <1>1 DEF Looked, HasTopic
    <3> QED BY <1>1, <3>1 DEF Defined
  <2>5. Whole(b.f, request.data) /\ b.f.opcode = "MSG"
    BY <1>2, <1>3, <1>4, <2>1 DEF Whole
  <2>6. (NoBlank' => NonEmpty) /\ HasTopic'
    BY <1>1 DEF NonEmpty, NoBlank, HasTopic
  <2> QED BY <1>1, <1>4, <2>1, <2>3, <2>4, <2>5, <2>6 DEF MsgInv
<1> QED BY <1>6, <1>7, <1>8, <1>9, <1>10, <1>11 DEF FramesInv

\* The topic that was published to, at any delivery.
LEMMA AtDelivery ==
    ASSUME FramesInv, pc = "deliver"
    PROVE  /\ in.headers["x-topic"] \in Nat /\ (NonEmpty => in.headers["x-topic"] # 0)
           /\ in.headers["x-topic"] = OnWire("x-topic")
<1>1. /\ in \in Frame /\ "x-topic" \in DOMAIN in.headers /\ in.headers["x-topic"] # NONE
      /\ Named(in, request.headers) /\ CarriesOr(in, request.headers, {}) /\ (NonEmpty => Clean(in))
  BY DEF FramesInv, TypeInv, InInv, MsgInv, HasTopic
<1>2. in.headers["x-topic"] \in Nat
  <2>1. in.headers \in HeaderTable
    BY <1>1 DEF Frame
  <2> QED BY <1>1, <2>1, TableIs DEF Value
<1>3. "x-topic" \in Names(request.headers) \ ({} \cup {"x-time"})
  BY <1>1 DEF Named
<1>4. in.headers["x-topic"] \in {Wired(request.headers, "x-topic"), NONE}
  BY <1>1, <1>3, FramesAssumption DEF CarriesOr
<1>5. OnWire("x-topic") = Wired(request.headers, "x-topic")
  BY DEF OnWire, Wired
<1>6. NonEmpty => in.headers["x-topic"] # 0
  BY <1>1 DEF Clean
<1> QED BY <1>1, <1>2, <1>4, <1>5, <1>6

\* Labels, set or not, leave deliver_frame the message it is.
LEMMA LabelsInv ==
    ASSUME FramesInv, pc = "deliver", NEW r, NEW full, Labelling(msg, r, full), msg' = r.f,
           refused' = (refused \/ ~r.ok), blank' \in BOOLEAN, NoBlank' => NoBlank /\ full, pc' \in {"deliver", "undefined"}, pc' = "deliver" => ~r.f.wild,
           in' = in, out' = out, request' = request,
           last' = NONE \/ (last'.frame \in Frame /\ last'.sub \in Found \cup {NONE} /\ last'.whole \in BOOLEAN)
    PROVE  TypeInv' /\ SizeInv' /\ AskedInv' /\ InInv' /\ MsgInv'
<1>1. /\ msg \in Frame /\ Whole(msg, request.data) /\ msg.opcode = "MSG" /\ CarriesOr(msg, request.headers, Own)
      /\ (NoBlank => Clean(msg)) /\ HasTopic /\ in.headers["x-topic"] # NONE
      /\ ~refused => Sized(msg)
  BY DEF FramesInv, MsgInv
<1>2. /\ r \in Result /\ r.f \in Frame /\ Alike(msg, r.f) /\ Keeps(msg, r.f, Own) /\ (full /\ Clean(msg) => Clean(r.f))
      /\ r.ok => (Sized(msg) => Sized(r.f))
  BY DEF Labelling
<1>3. r.ok \in BOOLEAN /\ refused \in BOOLEAN
  BY <1>2 DEF Result, FramesInv, TypeInv
<1>4. TypeInv'
  BY <1>2, <1>3 DEF FramesInv, TypeInv
<1>5. SizeInv'
  <2>0. (in.completed => Sized(in)) /\ (out.completed => Sized(out))
    BY DEF FramesInv, SizeInv
  <2>1. ASSUME msg' # NONE, msg'.completed, ~refused' PROVE Sized(msg')
    <3>1. r.ok /\ ~refused
      BY <1>3, <2>1
    <3> QED BY <1>1, <1>2, <3>1
  <2> QED BY <2>0, <2>1 DEF SizeInv
<1>6. InInv'
  BY InSame DEF FramesInv
<1>7. AskedInv'
  BY DEF FramesInv, AskedInv
<1>8. MsgInv'
  <2> SUFFICES ASSUME pc' = "deliver" PROVE MsgInv'
    BY DEF MsgInv
  <2>1. CarriesOr(r.f, request.headers, Own)
    BY <1>1, <1>2, CarriesKeeps
  <2>2. Whole(r.f, request.data) /\ r.f.opcode = "MSG"
    BY <1>1, <1>2 DEF Whole, Alike
  <2>3. (NoBlank' => Clean(r.f)) /\ HasTopic'
    BY <1>1, <1>2 DEF HasTopic
  <2>4. ~refused' => Sized(r.f)
    BY <1>1, <1>2, <1>3
  <2> QED BY <1>1, <1>2, <2>1, <2>2, <2>3, <2>4 DEF MsgInv
<1> QED BY <1>4, <1>5, <1>6, <1>7, <1>8

LEMMA DeliverInv ==
    ASSUME FramesInv, NEW sub \in Found, Deliver(sub)
    PROVE  FramesInv'
<1> DEFINE full == NonEmpty /\ sub.tag # 0
           r == Then(Labelled(msg, sub), LAMBDA g : SetVarHeader(g, "x-from", FromLen))
           origin == in.headers["x-topic"]
<1>1. /\ pc = "deliver" /\ msg' = r.f /\ refused' = (refused \/ ~r.ok) /\ blank' = (blank \/ sub.tag = 0)
      /\ IF r.ok THEN Sent(r.f, sub, "deliver")
                 ELSE pc' = (IF r.f.wild THEN "undefined" ELSE "deliver") /\ last' = last
      /\ in' = in /\ out' = out /\ request' = request
  BY DEF Deliver
<1>2. /\ msg \in Frame /\ ~msg.wild /\ Whole(msg, request.data) /\ msg.opcode = "MSG"
      /\ CarriesOr(msg, request.headers, Own) /\ (NoBlank => Clean(msg))
  BY <1>1 DEF FramesInv, MsgInv
<1>3. origin \in Nat /\ (NonEmpty => origin # 0) /\ origin = OnWire("x-topic")
  BY <1>1, AtDelivery
<1>4. Labelling(msg, r, full) /\ (r.ok => Labels(r, sub.tag, origin, sub.topic))
  BY <1>2, <1>3, DeliveredIs
<1>n. blank' \in BOOLEAN /\ (NoBlank' <=> NoBlank /\ full) /\ (NonEmpty /\ ~blank' <=> NoBlank')
  BY <1>1 DEF NoBlank, NonEmpty, FramesInv, TypeInv
<1> HIDE DEF r, origin, full
<1>5. /\ r \in Result /\ r.f \in Frame /\ Alike(msg, r.f) /\ Keeps(msg, r.f, Own)
      /\ (NoBlank' => Clean(r.f)) /\ (r.ok => ~r.f.wild) /\ r.ok \in BOOLEAN
  BY <1>2, <1>4, <1>n DEF Labelling, Result
<1>6. /\ last' = NONE \/ (last'.frame \in Frame /\ last'.sub \in Found \cup {NONE} /\ last'.whole \in BOOLEAN)
      /\ SentIsFaithful' /\ UndefinedHasCause' /\ pc' \in {"deliver", "undefined"}
      /\ pc' = "deliver" => ~r.f.wild
  <2>1. CASE r.ok
    <3>1. ASSUME ~Junk(r.f) PROVE Faithful(r.f, sub)
      <4>1. \A k \in DOMAIN r.f.headers : r.f.headers[k] # NONE
        BY <3>1 DEF Junk
      <4>2. /\ r.f.headers["x-sub-tag"] = sub.tag /\ r.f.headers["x-topic"] = sub.topic
            /\ r.f.headers["x-origin-topic"] = OnWire("x-topic")
        BY <1>3, <1>4, <2>1, <4>1 DEF Labels
      <4>3. CarriesOr(r.f, request.headers, Own)
        BY <1>2, <1>5, CarriesKeeps
      <4>4. Carries(r.f, Own)
        BY <3>1, <4>3, CarriesGives
      <4>5. /\ r.f.completed /\ r.f.opcode = "MSG" /\ r.f.payload_size = request.data
            /\ r.f.data_size = r.f.payload_size /\ r.f.pos = r.f.payload_size
        BY <1>2, <1>5 DEF Whole, Alike
      <4> QED BY <4>2, <4>4, <4>5 DEF Faithful
    <3>2. Sent(r.f, sub, "deliver")
      BY <1>1, <2>1
    <3>3. /\ last' = NONE \/ (last'.frame \in Frame /\ last'.sub \in Found \cup {NONE} /\ last'.whole \in BOOLEAN)
          /\ SentIsFaithful' /\ UndefinedHasCause' /\ pc' \in {"deliver", "undefined"}
      <4>1. Sized(r.f) \/ (refused' /\ msg' = r.f /\ ~r.f.wild)
        <5>1. refused' = refused
          BY <1>1, <2>1 DEF FramesInv, TypeInv
        <5>2. ~refused => Sized(msg)
          BY <1>1 DEF FramesInv, MsgInv
        <5>3. Sized(msg) => Sized(r.f)
          BY <1>4, <2>1 DEF Labelling
        <5>4. refused \in BOOLEAN
          BY DEF FramesInv, TypeInv
        <5> QED BY <1>1, <1>5, <2>1, <5>1, <5>2, <5>3, <5>4
      <4>2. sub # NONE \/ Sized(r.f)
        BY FramesAssumption
      <4>3. NonEmpty /\ ~blank' => Clean(r.f)
        BY <1>5, <1>n
      <4> QED BY <1>1, <1>5, <3>1, <3>2, <4>1, <4>2, <4>3, SentIs DEF FramesInv, TypeInv
    <3> QED BY <1>5, <2>1, <3>3
  <2>2. CASE ~r.ok
    <3>1. pc' = (IF r.f.wild THEN "undefined" ELSE "deliver") /\ last' = last
      BY <1>1, <2>2
    <3>2. SentIsFaithful'
      BY <1>1, <3>1, SentSame DEF FramesInv
    <3>3. UndefinedHasCause'
      <4> SUFFICES ASSUME pc' = "undefined" PROVE ~NoBlank'
        BY <1>1 DEF UndefinedHasCause, NonEmpty, NoBlank
      <4>1. r.f.wild
        BY <3>1
      <4> QED BY <1>5, <4>1, NotClean
    <3> QED BY <3>1, <3>2, <3>3 DEF FramesInv, TypeInv
  <2> QED BY <2>1, <2>2
<1>7. TypeInv' /\ SizeInv' /\ AskedInv' /\ InInv' /\ MsgInv'
  BY <1>1, <1>4, <1>6, <1>n, LabelsInv
<1> QED BY <1>6, <1>7 DEF FramesInv

LEMMA DeliverGoneInv ==
    ASSUME FramesInv, NEW sub \in Found, DeliverGone(sub)
    PROVE  FramesInv'
<1> DEFINE full == NonEmpty /\ sub.tag # 0
           r == Labelled(msg, sub)
<1>1. /\ pc = "deliver" /\ msg' = r.f /\ refused' = (refused \/ ~r.ok) /\ blank' = (blank \/ sub.tag = 0)
      /\ pc' = IF r.f.wild THEN "undefined" ELSE "deliver"
      /\ in' = in /\ out' = out /\ request' = request /\ last' = last
  BY DEF DeliverGone
<1>2. msg \in Frame /\ ~msg.wild /\ (NoBlank => Clean(msg))
  BY <1>1 DEF FramesInv, MsgInv
<1>3. in.headers["x-topic"] \in Nat /\ (NonEmpty => in.headers["x-topic"] # 0)
  BY <1>1, AtDelivery
<1>4. Labelling(msg, r, full)
  BY <1>2, <1>3, LabelledIs
<1>n. blank' \in BOOLEAN /\ (NoBlank' <=> NoBlank /\ full) /\ (NonEmpty /\ ~blank' <=> NoBlank')
  BY <1>1 DEF NoBlank, NonEmpty, FramesInv, TypeInv
<1> HIDE DEF r, full
<1>5. NoBlank' => Clean(r.f)
  BY <1>2, <1>4, <1>n DEF Labelling
<1>6. SentIsFaithful'
  BY <1>1, SentSame DEF FramesInv
<1>7. UndefinedHasCause'
  <2> SUFFICES ASSUME pc' = "undefined" PROVE ~NoBlank'
    BY <1>1 DEF UndefinedHasCause, NonEmpty, NoBlank
  <2>1. r.f.wild
    BY <1>1
  <2> QED BY <1>5, <2>1, NotClean
<1>8. last' = NONE \/ (last'.frame \in Frame /\ last'.sub \in Found \cup {NONE} /\ last'.whole \in BOOLEAN)
  BY <1>1 DEF FramesInv, TypeInv
<1>9. TypeInv' /\ SizeInv' /\ AskedInv' /\ InInv' /\ MsgInv'
  <2>1. pc' \in {"deliver", "undefined"} /\ (pc' = "deliver" => ~r.f.wild)
    BY <1>1
  <2> QED BY <1>1, <1>4, <1>8, <1>n, <2>1, LabelsInv
<1> QED BY <1>6, <1>7, <1>9 DEF FramesInv

LEMMA DeliverEndInv == FramesInv /\ DeliverEnd => FramesInv'
<1> SUFFICES ASSUME FramesInv, DeliverEnd PROVE FramesInv'
  OBVIOUS
<1>1. /\ pc = "deliver" /\ pc' = "reply" /\ msg' = NONE /\ refused' = FALSE /\ blank' = FALSE
      /\ in' = in /\ out' = out /\ request' = request /\ last' = last
  BY DEF DeliverEnd
<1>2. InInv'
  BY <1>1, InSame DEF FramesInv
<1>3. SentIsFaithful'
  BY <1>1, SentSame DEF FramesInv
<1>4. TypeInv' /\ SizeInv'
  BY <1>1 DEF FramesInv, TypeInv, SizeInv
<1>5. AskedInv' /\ MsgInv' /\ UndefinedHasCause'
  BY <1>1 DEF FramesInv, AskedInv, MsgInv, UndefinedHasCause
<1> QED BY <1>2, <1>3, <1>4, <1>5 DEF FramesInv

LEMMA ReplyInv ==
    ASSUME FramesInv, NEW opcode \in {"OK", "ERR"}, NEW alloc \in BOOLEAN, Reply(opcode, alloc)
    PROVE  FramesInv'
<1> DEFINE b == Answer(out, in, opcode, alloc)
<1>1. pc = "reply" /\ in' = in /\ msg' = msg /\ request' = request /\ refused' = refused /\ blank' = blank
  BY DEF Reply
<1>2. in \in Frame /\ CarriesOr(in, request.headers, {}) /\ (NonEmpty => Clean(in))
  BY <1>1 DEF FramesInv, InInv, TypeInv
<1>3. CASE ~in.ack
  <2>1. pc' = "recv" /\ out' = out /\ last' = last
    BY <1>3 DEF Reply
  <2>2. SentIsFaithful'
    BY <1>1, <2>1, SentSame DEF FramesInv
  <2>3. TypeInv' /\ SizeInv'
    BY <1>1, <2>1 DEF FramesInv, TypeInv, SizeInv
  <2>4. AskedInv' /\ InInv' /\ MsgInv' /\ UndefinedHasCause'
    BY <1>1, <2>1 DEF FramesInv, AskedInv, InInv, MsgInv, UndefinedHasCause
  <2> QED BY <2>2, <2>3, <2>4 DEF FramesInv
<1>4. CASE in.ack
  <2>1. out' = b.f /\ IF b.ok THEN Sent(b.f, NONE, "recv") ELSE pc' = After(b, "recv") /\ last' = last
    BY <1>4 DEF Reply
  <2>2. MakesFrom(in, b, {"x-status-code", "x-time"}) /\ (b.ok => b.f.opcode = opcode)
    BY <1>2, AnswerIs
  <2> HIDE DEF b
  <2>3. /\ b.f \in Frame /\ b.ok \in BOOLEAN /\ (b.f.completed => Sized(b.f)) /\ (NonEmpty => Clean(b.f))
        /\ b.ok => b.f.completed /\ ~b.f.wild /\ b.f.data_size = b.f.payload_size /\ b.f.pos = b.f.payload_size
    BY <1>2, <2>2 DEF MakesFrom, Makes, Result
  <2>4. /\ last' = NONE \/ (last'.frame \in Frame /\ last'.sub \in Found \cup {NONE} /\ last'.whole \in BOOLEAN)
        /\ SentIsFaithful' /\ UndefinedHasCause' /\ pc' \in {"recv", "undefined", "end"}
    <3>1. CASE b.ok
      <4>1. ASSUME ~Junk(b.f) PROVE Faithful(b.f, NONE)
        <5> DEFINE own == {"x-status-code"}
        <5>1. {"x-status-code", "x-time"} \subseteq own \cup {"x-time"}
          OBVIOUS
        <5> HIDE DEF own
        <5>2. CarriesOr(in, request.headers, own)
          BY <1>2, CarriesMore
        <5>3. CarriesOr(b.f, request.headers, own)
          BY <2>2, <3>1, <5>1, <5>2, CarriesMade
        <5>4. Carries(b.f, own)
          BY <4>1, <5>3, CarriesGives
        <5> QED BY <2>3, <3>1, <5>4 DEF Faithful, own
      <4>2. Sent(b.f, NONE, "recv")
        BY <2>1, <3>1
      <4>3. Sized(b.f)
        BY <2>3, <3>1
      <4> QED BY <1>1, <2>3, <4>1, <4>2, <4>3, SentIs DEF FramesInv, TypeInv
    <3>2. CASE ~b.ok
      <4>1. pc' = (IF b.f.wild THEN "undefined" ELSE "end") /\ last' = last
        BY <2>1, <3>2 DEF After
      <4>2. SentIsFaithful'
        BY <1>1, <4>1, SentSame DEF FramesInv
      <4>3. UndefinedHasCause'
        <5> SUFFICES ASSUME pc' = "undefined" PROVE ~NonEmpty
          BY <1>1 DEF UndefinedHasCause, NonEmpty
        <5>1. b.f.wild
          BY <4>1
        <5> QED BY <2>3, <5>1, NotClean
      <4> QED BY <4>1, <4>2, <4>3 DEF FramesInv, TypeInv
    <3> QED BY <3>1, <3>2
  <2>5. TypeInv'
    BY <1>1, <2>1, <2>3, <2>4 DEF FramesInv, TypeInv
  <2>6. SizeInv'
    BY <1>1, <2>1, <2>3 DEF FramesInv, SizeInv
  <2>7. AskedInv' /\ InInv' /\ MsgInv'
    BY <1>1, <2>4 DEF FramesInv, AskedInv, InInv, MsgInv
  <2> QED BY <2>4, <2>5, <2>6, <2>7 DEF FramesInv
<1> QED BY <1>3, <1>4

LEMMA StutterInv == FramesInv /\ UNCHANGED vars => FramesInv'
<1> SUFFICES ASSUME FramesInv, UNCHANGED vars PROVE FramesInv'
  OBVIOUS
<1>1. /\ in' = in /\ out' = out /\ msg' = msg /\ pc' = pc
      /\ request' = request /\ last' = last /\ refused' = refused /\ blank' = blank
  BY DEF vars
<1>2. SentIsFaithful'
  BY <1>1, SentSame DEF FramesInv
<1>3. TypeInv' /\ SizeInv' /\ AskedInv'
  BY <1>1 DEF FramesInv, TypeInv, SizeInv, AskedInv
<1>4. (NonEmpty' <=> NonEmpty) /\ (NoBlank' <=> NoBlank) /\ (HasTopic' <=> HasTopic)
  BY <1>1 DEF NonEmpty, NoBlank, HasTopic
<1>5. InInv' /\ MsgInv'
  BY <1>1, <1>4 DEF FramesInv, InInv, MsgInv
<1>6. UndefinedHasCause'
  BY <1>1 DEF FramesInv, UndefinedHasCause
<1> QED BY <1>2, <1>3, <1>5, <1>6 DEF FramesInv

LEMMA NextInv == FramesInv /\ [Next]_vars => FramesInv'
<1> SUFFICES ASSUME FramesInv, [Next]_vars PROVE FramesInv'
  OBVIOUS
<1>a. \A alloc \in Alloc : alloc \in BOOLEAN
  BY DEF Alloc
<1>1. ASSUME NEW alloc \in Alloc, NEW r \in Request, Recv(r, alloc) PROVE FramesInv'
  BY <1>1, <1>a, RecvInv
<1>2. ASSUME NEW alloc \in Alloc, HandleConnect(alloc) PROVE FramesInv'
  BY <1>2, <1>a, ConnectInv
<1>3. ASSUME NEW alloc \in Alloc, HandlePub(alloc) PROVE FramesInv'
  BY <1>3, <1>a, PubInv
<1>4. ASSUME NEW alloc \in Alloc, NEW opcode \in {"OK", "ERR"}, Reply(opcode, alloc) PROVE FramesInv'
  BY <1>4, <1>a, ReplyInv
<1>5. CASE HandleEcho
  BY <1>5, EchoInv
<1>6. CASE HandleQuiet
  BY <1>6, QuietInv
<1>7. CASE Undefined
  BY <1>7, UndefinedInv
<1>8. ASSUME NEW sub \in Found, Deliver(sub) PROVE FramesInv'
  BY <1>8, DeliverInv
<1>9. ASSUME NEW sub \in Found, DeliverGone(sub) PROVE FramesInv'
  BY <1>9, DeliverGoneInv
<1>10. CASE DeliverEnd
  BY <1>10, DeliverEndInv
<1>11. CASE UNCHANGED vars
  BY <1>11, StutterInv
<1> QED BY <1>1, <1>2, <1>3, <1>4, <1>5, <1>6, <1>7, <1>8, <1>9, <1>10, <1>11 DEF Next

LEMMA AlwaysInv == Spec => []FramesInv
BY InitInv, NextInv, PTL DEF Spec

-----------------------------------------------------------------------------
\* Every frame of a client's thread is one at every step, whatever is received.
THEOREM FramesTypeCorrect == Spec => []TypeOK
BY AlwaysInv, InvTyped, PTL

\* vars_size is the size of the headers of every complete request and reply, and of
\* deliver_frame until a header has not fitted, in whatever order headers were parsed
\* (frame__parse_var_header), copied (frame__copy_var_headers), added and replaced
\* (frame__set_var_header).
THEOREM AlwaysCounted == Spec => []HeadersCounted
BY AlwaysInv, InvCounted, PTL

\* What handle__reply sends is all of its frame, with the headers of its request, and
\* what handle__PUB sends to a subscriber, if frame__send does not cut it, has that
\* subscriber's labels and the rest of the publication, for all requests and
\* subscriptions and after any deliveries that failed.
THEOREM AlwaysFaithful == Spec => []SentIsFaithful
<1>1. FramesInv => SentIsFaithful
  BY DEF FramesInv
<1> QED BY <1>1, AlwaysInv, PTL

\* The pointer var_header__new leaves unset is followed only while a request with an
\* empty value is handled or delivered to a subscription with an empty tag, and
\* frame__send writes past its buffer only after a label has been refused.
THEOREM UndefinedConfined == Spec => []UndefinedHasCause
<1>1. FramesInv => UndefinedHasCause
  BY DEF FramesInv
<1> QED BY <1>1, AlwaysInv, PTL
=============================================================================
