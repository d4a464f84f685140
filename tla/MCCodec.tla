------------------------------ MODULE MCCodec -------------------------------
EXTENDS Codec

\* Texts of one to three characters, with quotes and backslashes anywhere; one that
\* makes up another header; and four that are too long: the size of the first wraps
\* to zero in a PUB of the Java client, that of the second to a whole header in a
\* SUB; the C client sends none of the third and one byte of the last.
MCText ==
    [1..1 -> {"a", Quote, Backslash, Wide}] \cup [1..2 -> {"a", Quote, Backslash}]
    \cup {<<c, Backslash, d>> : c, d \in {Quote, Backslash}}
    \cup {<<Wide, Backslash>>, <<"a", Quote, Semicolon, Quote, "g", Quote, Quote, "a">>}
    \cup {[i \in 1..n |-> "a"] : n \in {Limit - 13, Limit - 12, Limit, Limit + 1}}

\* Three subscriptions, of the topic or of wildcards: the tag of the second does not
\* fit, after which the third is announced with too small a size or, if the count
\* has passed zero, with too large a one.
MCFound ==
    LET Tag(n) == [i \in 1..n |-> "a"]
        Relabelled(n, exact) ==
            << [tag |-> Short, exact |-> exact], [tag |-> Tag(n), exact |-> ~exact], [tag |-> Short, exact |-> exact] >>
    IN {Relabelled(34, TRUE), Relabelled(36, FALSE)}
=============================================================================
