------------------------------ MODULE MCFrames ------------------------------
EXTENDS Frames

\* Names and values are one character long where their length does not matter;
\* the quotes and the semicolon are counted as in the code.
MCKey == {"x-topic", "x-sub-tag", "x-origin-topic", "x-from", "x-time", "x-status-code", "x-other", ""}
MCKeyLen == [k \in MCKey |-> IF k = "" THEN 0 ELSE 1]

\* Headers that are missing, empty, repeated, long, unnamed or the server's own.
TopicHeader(n) == <<"x-topic", n>>
WireHeaders ==
    {<<>>, <<TopicHeader(1)>>, <<TopicHeader(9)>>, <<TopicHeader(0)>>}
    \cup {<<TopicHeader(1), h>> : h \in {"x-other", "x-sub-tag", "x-time"} \X {0, 1, 9}}
    \cup {<<TopicHeader(9), TopicHeader(n)>> : n \in {0, 1}}
    \cup {<< <<"", 1>>, TopicHeader(1)>>, <<TopicHeader(9), <<"x-sub-tag", 9>> >>,
          << <<"x-other", 0>>, <<"x-other", 1>> >>}

\* Subscriptions whose labels are short, do not fit with others, are long or empty.
MCFound ==
    {[tag |-> 0, topic |-> 1], [tag |-> 1, topic |-> 1], [tag |-> 4, topic |-> 2],
     [tag |-> 1, topic |-> 9], [tag |-> 9, topic |-> 1]}

MCRequest ==
    [opcode : {"PUB"}, ack : {TRUE}, malformed : {FALSE}, data : {1}, headers : WireHeaders]
    \cup [opcode : {"PUB"}, ack : {FALSE}, malformed : {FALSE}, data : {0},
          headers : {<<TopicHeader(1)>>, <<TopicHeader(9)>>, <<TopicHeader(1), <<"x-sub-tag", 0>> >>}]
    \cup [opcode : {"SUB", "UNSUB"}, ack : {TRUE}, malformed : {FALSE}, data : {0}, headers : WireHeaders]
    \cup [opcode : {"CONNECT", "OK", "NOOP"}, ack : {TRUE}, malformed : BOOLEAN, data : {2},
          headers : {<< <<"x-other", 1>> >>, << <<"x-other", 0>> >>}]
=============================================================================
