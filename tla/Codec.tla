------------------------------- MODULE Codec --------------------------------
(***************************************************************************)
(* The text of variable headers, as the Java client (core/frame) and the C *)
(* code (lib/frame.c) write and parse it: "key""value"; for each header,   *)
(* with a quote inside a text escaped by a backslash, which neither side   *)
(* adds or removes.  A client sends requests with topics of any text to    *)
(* the broker, which parses them and builds replies, and one message for   *)
(* all subscriptions that are found, from their headers, which a Java      *)
(* client parses again.                                                    *)
(*                                                                         *)
(* A text is a sequence of characters; one character of UTF-8 is two bytes *)
(* long.  Names of headers are one character long.  Bytes of a fixed       *)
(* header are told from others, so that a reader out of step is seen.      *)
(***************************************************************************)
EXTENDS Integers, Sequences, FiniteSetsExt, SequencesExt

CONSTANTS
    Text,       \* the texts clients use as topics
    Found,      \* what a publication may find: subscriptions in their order, each
                \* with its tag and whether it is of the very topic or of a wildcard
    Limit,      \* 2^16
    MaxFrames   \* bound on the requests of the client

Quote == "quote"
Backslash == "backslash"
Semicolon == "semicolon"
Wide == "wide"               \* the character of two bytes
Char == {Quote, Backslash, Wide, "a", Semicolon, "t", "g", "o", "f", "s", "m"}

ASSUME CodecAssumption ==
    /\ Text \subseteq Seq(Char) \ {<<>>}
    /\ Found \subseteq Seq([tag : Seq(Char \ {Quote, Backslash, Wide}) \ {<<>>}, exact : BOOLEAN])
    /\ Limit \in Nat \ {0}
    /\ MaxFrames \in Nat

\* x-topic, x-sub-tag, x-origin-topic, x-from, x-status-code and x-time.
TopicKey == <<"t">>
TagKey == <<"g">>
OriginKey == <<"o">>
FromKey == <<"f">>
StatusKey == <<"s">>
TimeKey == <<"m">>
Short == <<"a">>             \* the values clients and broker give to the others

VARIABLES
    language,   \* the language the client is written in
    sent,       \* how many requests it has made
    buffer,     \* what is in the Java client's BufferedOutputStream
    wire,       \* what is on its way to the broker
    broker,     \* where the broker's thread is
    request,    \* the request it has parsed, or NoRequest
    subs,       \* the subscriptions it still has to deliver to
    msg,        \* the deliver_frame for all of them, or NoFrame
    back,       \* what is on its way from the broker to a Java client
    reader,     \* that client's main loop
    got,        \* the frame it has parsed last, or NothingGot
    thrown,     \* whether writeTo has thrown half way (history)
    truncated   \* whether a size of the Java client has not fitted in two bytes (history)

client == <<language, sent, buffer, thrown, truncated>>
vars == <<client, wire, broker, request, subs, msg, back, reader, got>>

\* A parsed frame: its headers, and those it was built with (history).
NoRequest == [op |-> "NOOP", headers |-> <<>>, meant |-> {}, data |-> 0]
NothingGot == [op |-> "NOOP", headers |-> {}, meant |-> {}, data |-> 0, refused |-> FALSE]

\* A frame that is labelled: its headers, vars_size, whether the last header fitted,
\* and whether any has not (history).
NoFrame == [headers |-> <<>>, size |-> 0, ok |-> TRUE, refused |-> FALSE]

-----------------------------------------------------------------------------
(***************************************************************************)
(* Bytes and characters.                                                   *)
(***************************************************************************)
Wide1 == "wide 1"            \* the bytes of Wide
Wide2 == "wide 2"
Fixed == "fixed"             \* a byte of a fixed header, and its last one
LastFixed == "last fixed"

BytesOf(char) == IF char = Wide THEN <<Wide1, Wide2>> ELSE <<char>>

Encode(text) == FlattenSeq([i \in DOMAIN text |-> BytesOf(text[i])])

\* No reader in step cuts a character in two; half of one that was sent cut is read
\* as one character too.
CharsOf(byte) ==
    CASE byte = Wide1 -> <<Wide>> [] byte = Wide2 -> <<>> [] OTHER -> <<byte>>

Decode(bytes) == FlattenSeq([i \in DOMAIN bytes |-> CharsOf(bytes[i])])

\* A stream has the bytes that are on their way and what the fixed headers among
\* them say: opcode, sizes and, as history, the headers the frame was built with.
FixedBytes == <<Fixed, Fixed, Fixed, Fixed, Fixed, Fixed, Fixed, LastFixed>>
FixedSize == Len(FixedBytes)

Byte == (Char \ {Wide}) \cup {Wide1, Wide2, Fixed, LastFixed}

Empty == [bytes |-> <<>>, heads |-> <<>>]
Join(s, t) == [bytes |-> s.bytes \o t.bytes, heads |-> s.heads \o t.heads]
Framed(head, rest) == [bytes |-> FixedBytes \o rest, heads |-> <<head>>]

Payload(n) == [i \in 1..n |-> "a"]

-----------------------------------------------------------------------------
(***************************************************************************)
(* Writing and parsing.  Headers are a sequence of pairs.                  *)
(***************************************************************************)
HeaderText(h) == <<Quote>> \o h[1] \o <<Quote, Quote>> \o h[2] \o <<Quote, Semicolon>>

\* var_header__to_bytes, and VarHeader.toStr once an order has been chosen.
ToText(headers) == FlattenSeq([i \in DOMAIN headers |-> HeaderText(headers[i])])

\* What both languages add up for the announced size; C counts bytes, Java
\* characters.
SizeOf(headers) == FoldLeft(LAMBDA n, h : n + Len(h[1]) + Len(h[2]) + 5, 0, headers)

\* The positions at which frame__parse_var_header does not go on to the next one.
Delimits(text, i) == i = 1 \/ (text[i] = Quote /\ text[i - 1] # Backslash)

\* The same for VarHeader.fromString.
JavaDelimits(text, i) == i = 1 \/ (text[i] = Quote /\ text[i - 1] # Backslash)

Scanning == [marks |-> <<>>, skip |-> FALSE, headers |-> <<>>]

\* Faulty variant: the value keeps its quote.
HeaderAt_KeepsQuote(text, marks, i) ==
    << SubSeq(text, marks[1] + 1, marks[2] - 1), SubSeq(text, marks[3], i - 1) >>

\* The texts between the first two and the last two delimiters.
HeaderAt(text, marks, i) ==
    << SubSeq(text, marks[1] + 1, marks[2] - 1), SubSeq(text, marks[3] + 1, i - 1) >>

\* One turn of the loop: three delimiters are remembered, the fourth ends a header,
\* after which one character is skipped.
ScanAt(text, scan, i, delimits) ==
    IF scan.skip THEN [scan EXCEPT !.skip = FALSE]
    ELSE IF ~delimits THEN scan
    ELSE IF Len(scan.marks) < 3 THEN [scan EXCEPT !.marks = Append(@, i)]
    ELSE [marks |-> <<>>, skip |-> TRUE,
          headers |-> Append(scan.headers, HeaderAt(text, scan.marks, i))]

Scan(text) == FoldLeftDomain(LAMBDA scan, i : ScanAt(text, scan, i, Delimits(text, i)), Scanning, text)

JavaScan(text) ==
    FoldLeftDomain(LAMBDA scan, i : ScanAt(text, scan, i, JavaDelimits(text, i)), Scanning, text)

\* The text ends inside a header.
Partial(scan) == scan.marks # <<>>

Keys(headers) == {headers[i][1] : i \in DOMAIN headers}

\* frame__set_var_header: no header without a name, and the last value counts.
Put(headers, h) ==
    IF h[1] = <<>> THEN headers
    ELSE IF h[1] \in Keys(headers)
         THEN [i \in DOMAIN headers |-> IF headers[i][1] = h[1] THEN h ELSE headers[i]]
         ELSE Append(headers, h)

PutAll(headers, more) == FoldLeft(Put, headers, more)

\* frame__parse_var_header, and what a HashMap makes of the pairs fromString finds.
ParseVarHeader(bytes) == PutAll(<<>>, Scan(bytes).headers)

JavaPut(map, h) == {j \in map : j[1] # h[1]} \cup {h}
FromString(text) == FoldLeft(JavaPut, {}, JavaScan(text).headers)

\* Faulty variant: the old value of a header is not taken off.
SetVarHeader_KeepsSize(f, h) ==
    LET known == h[1] \in Keys(f.headers)
        rest == IF known THEN f.size ELSE f.size + Len(h[1]) + 5
        fits == rest + Len(h[2]) < Limit
    IN IF known \/ fits
       THEN [headers |-> Put(f.headers, h), size |-> IF fits THEN rest + Len(h[2]) ELSE rest,
             ok |-> fits, refused |-> f.refused \/ ~fits]
       ELSE [f EXCEPT !.ok = FALSE, !.refused = TRUE]

\* frame__set_var_header and vars_size.  The old value of a header is taken off
\* and replaced before the new one is found not to fit; a new header that does not
\* fit is not added.
SetVarHeader(f, h) ==
    LET known == h[1] \in Keys(f.headers)
        old == Len(f.headers[CHOOSE i \in DOMAIN f.headers : f.headers[i][1] = h[1]][2])
        rest == IF known THEN (f.size - old) % Limit ELSE f.size + Len(h[1]) + 5
        fits == rest + Len(h[2]) < Limit
    IN IF known \/ fits
       THEN [headers |-> Put(f.headers, h), size |-> IF fits THEN rest + Len(h[2]) ELSE rest,
             ok |-> fits, refused |-> f.refused \/ ~fits]
       ELSE [f EXCEPT !.ok = FALSE, !.refused = TRUE]

\* The next header is set only if the last one fitted.
AndThen(f, h) == IF f.ok THEN SetVarHeader(f, h) ELSE f

\* A header with an empty value has no pointer to it (see Frames); every frame of
\* these clients asks for a reply, for which the pointer is followed at the latest.
HasEmpty(headers) == \E i \in DOMAIN headers : headers[i][1] # <<>> /\ headers[i][2] = <<>>

\* frame__build gives every frame a new x-time.
Build(headers) == Put(headers, <<TimeKey, Short>>)

-----------------------------------------------------------------------------
(***************************************************************************)
(* The client.                                                             *)
(***************************************************************************)
Init ==
    /\ language \in {"java", "c"}
    /\ sent = 0
    /\ buffer = Empty /\ wire = Empty /\ back = Empty
    /\ broker = "read" /\ request = NoRequest /\ subs = <<>> /\ msg = NoFrame
    /\ reader = "read" /\ got = NothingGot
    /\ thrown = FALSE /\ truncated = FALSE

\* The headers of a request, in the order in which they are set.
RequestHeaders(op, topic) ==
    IF op = "PUB" THEN << <<TopicKey, topic>>, <<TimeKey, Short>> >>
                  ELSE << <<TopicKey, topic>>, <<TagKey, Short>>, <<TimeKey, Short>> >>

EncodeHeaders(headers) == [i \in DOMAIN headers |-> << Encode(headers[i][1]), Encode(headers[i][2]) >>]

\* Faulty variant: a size of any length is written.
FixedHeader_AnySize(op, size, data, headers) ==
    [op |-> op, size |-> size, data |-> data, meant |-> ToSet(EncodeHeaders(headers)), refused |-> FALSE]

FixedHeader(op, size, data, headers) ==
    [op |-> op, size |-> size % Limit, data |-> data, meant |-> ToSet(EncodeHeaders(headers)),
     refused |-> FALSE]

\* VarHeader.toBytes throws if the size that was added up is not that of the text.
SizeRight(headers, bytes) == SizeOf(headers) = Len(bytes)

\* Frame.writeTo: the headers come in the order of a HashMap.  The fixed header is
\* in the buffer when toBytes throws, and stays there; BPSPClient goes on.
JavaSend(op, topic, data) ==
    /\ language = "java" /\ sent < MaxFrames
    /\ sent' = sent + 1
    /\ LET headers == RequestHeaders(op, topic)
           head == FixedHeader(op, SizeOf(headers), data, headers)
       IN /\ \E order \in SetToSeqs(ToSet(headers)) :
                LET bytes == Encode(ToText(order))
                IN IF SizeRight(headers, bytes)
                   THEN /\ wire' = Join(wire, Join(buffer, Framed(head, bytes \o Payload(data))))
                        /\ buffer' = Empty /\ thrown' = thrown
                   ELSE /\ wire' = wire
                        /\ buffer' = Join(buffer, Framed(head, <<>>)) /\ thrown' = TRUE
          /\ truncated' = (truncated \/ SizeOf(headers) >= Limit)
    /\ UNCHANGED <<language, broker, request, subs, msg, back, reader, got>>

\* Lengths of values have 16 bits in frame.c: of a longer value what is left of
\* its length is counted, and as many of its bytes are written.
CutValue(bytes) == SubSeq(bytes, 1, Len(bytes) % Limit)

CutHeaders(headers) == [i \in DOMAIN headers |-> << headers[i][1], CutValue(headers[i][2]) >>]

\* frame__PUB and frame__SUB with frame__send: a frame whose headers, so counted,
\* do not fit is not sent.
CSend(op, topic, data) ==
    /\ language = "c" /\ sent < MaxFrames
    /\ sent' = sent + 1
    /\ LET headers == CutHeaders(EncodeHeaders(RequestHeaders(op, topic)))
       IN wire' = IF SizeOf(headers) < Limit
                  THEN Join(wire, Framed(FixedHeader(op, SizeOf(headers), data, RequestHeaders(op, topic)),
                                         ToText(headers) \o Payload(data)))
                  ELSE wire
    /\ UNCHANGED <<language, buffer, broker, request, subs, msg, back, reader, got, thrown, truncated>>

-----------------------------------------------------------------------------
(***************************************************************************)
(* The broker.                                                             *)
(***************************************************************************)
TextOf(stream) == SubSeq(stream.bytes, FixedSize + 1, FixedSize + Head(stream.heads).size)

\* The next bytes are a fixed header; a whole frame has arrived; no other fixed
\* header is in the text it announces.
AtFrame(stream) == SubSeq(stream.bytes, 1, FixedSize) = FixedBytes

Arrived(stream) ==
    /\ Len(stream.bytes) >= FixedSize /\ AtFrame(stream)
    /\ Len(stream.bytes) >= FixedSize + Head(stream.heads).size + Head(stream.heads).data

InFrame(stream) == ToSet(TextOf(stream)) \cap ToSet(FixedBytes) = {}

\* Faulty variant: the payload is left on the stream.
Rest_NoPayload(stream) ==
    [bytes |-> SubSeq(stream.bytes, FixedSize + Head(stream.heads).size + 1, Len(stream.bytes)),
     heads |-> Tail(stream.heads)]

\* The stream after the frame.
Rest(stream) ==
    [bytes |-> SubSeq(stream.bytes, FixedSize + Head(stream.heads).size + Head(stream.heads).data + 1,
                      Len(stream.bytes)),
     heads |-> Tail(stream.heads)]

\* frame__recv finds something else where it expects a frame.  What it makes of
\* that is not followed further.
BrokerLost ==
    /\ broker = "read" /\ Len(wire.bytes) >= FixedSize
    /\ AtFrame(wire) => Arrived(wire) /\ ~InFrame(wire)
    /\ broker' = "lost"
    /\ UNCHANGED <<client, wire, request, subs, msg, back, reader, got>>

\* frame__recv parses the headers, and x-time is set.
BrokerRecv ==
    /\ broker = "read" /\ Arrived(wire) /\ InFrame(wire)
    /\ ~Partial(Scan(TextOf(wire)))
    /\ LET parsed == ParseVarHeader(TextOf(wire))
       IN /\ request' = [op |-> Head(wire.heads).op, headers |-> Build(parsed),
                         meant |-> Head(wire.heads).meant, data |-> Head(wire.heads).data]
          /\ broker' = IF HasEmpty(Scan(TextOf(wire)).headers) THEN "undefined"
                       ELSE IF SizeOf(Build(parsed)) < Limit THEN "handle" ELSE "end"
    /\ wire' = Rest(wire)
    /\ UNCHANGED <<client, subs, msg, back, reader, got>>

\* A text that ends inside a header ends the connection.
BrokerReject ==
    /\ broker = "read" /\ Arrived(wire) /\ InFrame(wire)
    /\ Partial(Scan(TextOf(wire)))
    /\ request' = [NoRequest EXCEPT !.meant = Head(wire.heads).meant]
    /\ broker' = "rejected"
    /\ UNCHANGED <<client, wire, subs, msg, back, reader, got>>

\* The topic of the request, if it has one, in a set.
TopicsIn == {h[2] : h \in {j \in ToSet(request.headers) : j[1] = TopicKey}}

\* handle__PUB finds the subscriptions and makes the one deliver_frame of frame__MSG.
HandlePub ==
    /\ broker = "handle" /\ request.op = "PUB" /\ TopicsIn # {}
    /\ subs' \in Found
    /\ msg' = [NoFrame EXCEPT !.headers = request.headers, !.size = SizeOf(request.headers)]
    /\ broker' = "deliver"
    /\ UNCHANGED <<client, wire, request, back, reader, got>>

\* The labels of handle__PUB and broker__deliver_msg for a subscription, of the
\* topic or of a wildcard (Short).
Labelled(f, sub, topic) ==
    AndThen(AndThen(AndThen(SetVarHeader(f, <<TagKey, sub.tag>>), <<OriginKey, topic>>),
                    <<TopicKey, IF sub.exact THEN topic ELSE Short>>),
            <<FromKey, Short>>)

\* frame__send takes a buffer of vars_size bytes for the headers, writes them all to
\* it and sends what is in it: what else it holds, and what a text of Limit bytes,
\* which starts to overwrite itself, leaves in it, is not known (fill).
Buffer(f, fill) ==
    LET text == ToText(f.headers)
    IN [i \in 1..f.size |-> IF i <= Len(text) /\ Len(text) < Limit THEN text[i] ELSE fill]

Message(f, fill) ==
    Framed([op |-> "MSG", size |-> f.size, data |-> request.data, meant |-> request.meant,
            refused |-> f.refused],
           Buffer(f, fill) \o Payload(request.data))

\* The next subscription, of a Java client (which for simplicity also reads the
\* replies).  The same deliver_frame gets new labels; one that does not fit ends this
\* delivery, not the loop.
Deliver ==
    /\ broker = "deliver" /\ subs # <<>>
    /\ \E topic \in TopicsIn, fill \in {Quote, "a"} :
          /\ msg' = Labelled(msg, Head(subs), topic)
          /\ back' = IF msg'.ok THEN Join(back, Message(msg', fill)) ELSE back
    /\ subs' = Tail(subs)
    /\ UNCHANGED <<client, wire, broker, request, reader, got>>

\* Writing past the buffer need not end well.
DeliverOverruns ==
    /\ broker = "deliver" /\ subs # <<>>
    /\ \E topic \in TopicsIn :
          /\ msg' = Labelled(msg, Head(subs), topic)
          /\ msg'.ok /\ msg'.size < Len(ToText(msg'.headers))
    /\ broker' = "undefined"
    /\ UNCHANGED <<client, wire, request, subs, back, reader, got>>

\* frame__OK and frame__ERR: a new frame with the headers of the request and a
\* status; none if they do not fit.
Reply(op) ==
    LET headers == Put(request.headers, <<StatusKey, Short>>)
    IN IF SizeOf(headers) < Limit
       THEN Framed([op |-> op, size |-> SizeOf(headers), data |-> 1, meant |-> request.meant,
                    refused |-> FALSE],
                   ToText(headers) \o Payload(1))
       ELSE Empty

\* The reply, after all deliveries.  A PUB without a topic, or a reply that does not
\* fit, ends the connection.
HandleReply ==
    /\ \/ broker = "deliver" /\ subs = <<>>
       \/ broker = "handle" /\ ~(request.op = "PUB" /\ TopicsIn # {})
    /\ LET reply == IF TopicsIn # {} THEN Reply("OK")
                    ELSE IF request.op = "PUB" THEN Empty ELSE Reply("ERR")
       IN /\ back' = Join(back, reply)
          /\ broker' = IF reply = Empty THEN "end" ELSE "read"
    /\ request' = NoRequest /\ msg' = NoFrame
    /\ UNCHANGED <<client, wire, subs, reader, got>>

-----------------------------------------------------------------------------
(***************************************************************************)
(* The main loop of the Java client that gets the message or the reply.    *)
(***************************************************************************)
\* What is next can be read and parsed; what the client makes of a stream that is
\* out of step is not followed.
Readable(stream) ==
    Arrived(stream) /\ InFrame(stream) /\ ~Partial(JavaScan(Decode(TextOf(stream))))

\* Frame.readFrom.  If VarHeader.fromString throws, the main loop ends.
JavaRecv ==
    /\ reader = "read" /\ back # Empty
    /\ IF Readable(back)
       THEN /\ got' = [op |-> Head(back.heads).op, headers |-> FromString(Decode(TextOf(back))),
                       meant |-> Head(back.heads).meant, data |-> Head(back.heads).data,
                       refused |-> Head(back.heads).refused]
            /\ back' = Rest(back) /\ reader' = reader
       ELSE reader' = "dead" /\ UNCHANGED <<got, back>>
    /\ UNCHANGED <<client, wire, broker, request, subs, msg>>

Next ==
    \/ \E op \in {"PUB", "SUB"}, topic \in Text :
          LET data == IF op = "PUB" THEN 1 ELSE 0
          IN JavaSend(op, topic, data) \/ CSend(op, topic, data)
    \/ BrokerLost \/ BrokerRecv \/ BrokerReject
    \/ HandlePub \/ Deliver \/ DeliverOverruns \/ HandleReply
    \/ JavaRecv

Spec == Init /\ [][Next]_vars

-----------------------------------------------------------------------------
\* Types; every announced size fits in the two bytes of the fixed header, and a
\* stream never has half a character in place of a byte.
TypeOK ==
    /\ language \in {"java", "c"} /\ sent \in 0..MaxFrames
    /\ \A s \in {buffer, wire, back} :
          /\ ToSet(s.bytes) \subseteq Byte
          /\ \A h \in ToSet(s.heads) : h.size \in 0 .. Limit - 1
    /\ msg.size \in 0 .. Limit - 1
    /\ broker \in {"read", "handle", "deliver", "lost", "rejected", "undefined", "end"}
    /\ reader \in {"read", "dead"}
    /\ ToSet(request.headers) \cup ToSet(msg.headers) \subseteq Seq(Byte) \X Seq(Byte)
    /\ {thrown, truncated} \subseteq BOOLEAN

\* Every quote is escaped, and the last character escapes nothing.
Clean(text) ==
    /\ \A i \in DOMAIN text : text[i] = Quote => i > 1 /\ text[i - 1] = Backslash
    /\ text = <<>> \/ Last(text) # Backslash

\* So are all headers, and the length of each value fits in 16 bits.
AllClean(headers) == \A h \in headers : Clean(h[1]) /\ Clean(h[2]) /\ Len(h[2]) < Limit

Disturbed == thrown \/ truncated

\* Whatever the topics are, the broker finds a frame where it looks for one,
\* unless a write of the Java client has thrown half way or a size has not fitted
\* in two bytes: no text makes the reader run past its frame.
InStep == broker = "lost" => Disturbed

\* If all texts are clean and none has 2^16 bytes, the broker accepts the frame and
\* gets the headers the client has set, also those of more than one byte a character,
\* whatever order they were written in; and so does the client that gets the reply,
\* or a message before which no label of the same publication has been refused, but
\* for those the broker sets itself, and with the published topic as x-origin-topic.
SameHeaders ==
    ~Disturbed =>
        /\ broker = "rejected" => ~AllClean(request.meant)
        /\ broker \in {"handle", "deliver"} /\ AllClean(request.meant) => ToSet(request.headers) = request.meant
        /\ got.op # "NOOP" /\ ~got.refused /\ AllClean(got.meant) =>
              LET own == {TimeKey, StatusKey}
                         \cup IF got.op = "MSG" THEN {TagKey, OriginKey, TopicKey, FromKey} ELSE {}
                  meant == {<<Decode(h[1]), Decode(h[2])>> : h \in got.meant}
              IN /\ {h \in got.headers : h[1] \notin own} = {h \in meant : h[1] \notin own}
                 /\ got.op = "MSG" =>
                       {h[2] : h \in {j \in got.headers : j[1] = OriginKey}}
                           = {h[2] : h \in {j \in meant : j[1] = TopicKey}}

\* Whatever a client sends, clean or not, cut or not, the only thing the broker makes
\* of it that ends the main loop of a client that receives it is a message labelled
\* after a label of the same publication was refused: what the broker's parser has
\* taken apart can be written and parsed again.
ReceiverSurvives == reader = "dead" => back.heads # <<>> /\ Head(back.heads).refused
=============================================================================
