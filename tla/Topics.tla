------------------------------- MODULE Topics -------------------------------
(***************************************************************************)
(* Topic strings and how the broker cuts them into tokens                  *)
(* (lib/topic.c: topic__extract_token, topic__next_token).                 *)
(*                                                                         *)
(* A topic string is modelled by the sequence of its levels, the pieces    *)
(* between consecutive '/' characters; a level may be empty.  The empty    *)
(* string is << "" >>, "/a" is << "", "a" >> and "a//b" is                 *)
(* << "a", "", "b" >>.  Levels are opaque: only "", "+" and "*" are told   *)
(* apart from the others.                                                  *)
(***************************************************************************)
EXTENDS Naturals, Sequences, FiniteSets, SequencesExt

\* The positions of the non-empty levels: what strtok_r returns, one by one.
Words(topic) == {i \in 1..Len(topic) : topic[i] # ""}

\* topic__extract_token refuses the empty topic and a leading or trailing '/'
\* with BPSP_INVALID_TOPIC, and copies any other before it looks at its words.
Copied(topic) == topic # <<>> /\ Head(topic) # "" /\ Last(topic) # ""

\* It then refuses a word "*" followed by another word.
Valid(topic) ==
    /\ Copied(topic)
    /\ \A i, j \in Words(topic) : topic[i] = "*" => j <= i

\* The position of the k-th word.
WordAt(topic, k) ==
    CHOOSE i \in Words(topic) : Cardinality({j \in Words(topic) : j <= i}) = k

\* The tokens the walks over the tree see.  strtok_r skips a run of '/' but
\* overwrites only the first of them, and topic__next_token restarts one byte
\* after the previous token: a word that follows n empty levels is met with n
\* leading '/' characters, which is a literal even when the word is a wildcard.
Tokens(topic) ==
    [k \in 1..Cardinality(Words(topic)) |->
        LET i == WordAt(topic, k)
            before == IF k = 1 THEN 0 ELSE WordAt(topic, k - 1)
        IN <<i - before - 1, topic[i]>>]

\* The token stored in a node's sl_node, and the one stored in its ml_node.
SL == <<0, "+">>
ML == <<0, "*">>

-----------------------------------------------------------------------------
(***************************************************************************)
(* The reference definition of matching, from the meaning of the           *)
(* wildcards: '+' stands for exactly one token, a final '*' for one or     *)
(* more, any other token for itself.                                       *)
(***************************************************************************)
\* The first n tokens of pattern p stand for the first n tokens of t.
Fits(p, t, n) == \A i \in 1..n : p[i] = SL \/ (p[i] = t[i] /\ p[i] # ML)

MatchesWhole(p, t) == Len(p) = Len(t) /\ Fits(p, t, Len(p))

MatchesRest(p, t) ==
    /\ p # <<>> /\ p[Len(p)] = ML
    /\ Len(p) <= Len(t)
    /\ Fits(p, t, Len(p) - 1)

Matches(p, t) == MatchesWhole(p, t) \/ MatchesRest(p, t)

-----------------------------------------------------------------------------
\* The prefixes of a path that have at most n tokens.
PrefixesUpTo(p, n) == {SubSeq(p, 1, k) : k \in 0..n}
=============================================================================
