------------------------------- MODULE Frames -------------------------------
(***************************************************************************)
(* The frames of one client thread (lib/frame.c, lib/frame_op.c): the      *)
(* request it receives in in_frame, the reply it builds in out_frame, and  *)
(* the MSG frame it copies from a PUB and changes again for every          *)
(* subscriber it delivers to.                                              *)
(*                                                                         *)
(* A header's value is known by its length, and a payload by its size.     *)
(* vars_size is an unsigned integer below Limit (65536 in the code).       *)
(***************************************************************************)
EXTENDS Integers, Sequences, FiniteSetsExt, SequencesExt

CONSTANTS
    Key,            \* names of headers
    KeyLen,         \* and their lengths
    Limit,          \* 2^16
    Request,        \* the frames a peer may send
    Found,          \* the subscriptions a find may return, by the lengths of tag and topic
    TimeLen,        \* length of what date_now_utc writes
    FromLen,        \* length of the publisher's address
    CodeLen,        \* length of a status code
    AllocMayFail,   \* whether an allocation for a payload may fail
    NONE            \* no value, no frame

\* The labels of a subscription came in the headers of a SUB.  Its tag may be empty:
\* an x-sub-tag given twice, the second time without a value, leaves it so.  An
\* empty topic is refused by the tree.
ASSUME FramesAssumption ==
    /\ {"x-topic", "x-sub-tag", "x-origin-topic", "x-from", "x-time", "x-status-code"} \subseteq Key
    /\ KeyLen \in [Key -> Nat] /\ KeyLen["x-topic"] > 0
    /\ Limit \in Nat \ {0}
    /\ Found \subseteq [tag : 0 .. Limit - 1, topic : 1 .. Limit - 1]
    /\ {TimeLen, FromLen, CodeLen} \subseteq Nat \ {0}
    /\ AllocMayFail \in BOOLEAN
    /\ NONE \notin Nat \cup Found

Opcode == {"NOOP", "INFO", "CONNECT", "PUB", "SUB", "UNSUB", "MSG", "OK", "ERR"}

\* The headers of a request in the order of the wire; malformed if the text
\* ends inside a header.
ASSUME RequestAssumption ==
    \A r \in Request :
        /\ r.opcode \in Opcode /\ r.ack \in BOOLEAN /\ r.malformed \in BOOLEAN /\ r.data \in Nat
        /\ r.headers \in Seq(Key \X Nat)

VARIABLES
    in,       \* client->in_frame
    out,      \* client->out_frame
    msg,      \* deliver_frame, or NONE
    pc,       \* where the client's thread is
    request,  \* the request as it was on the wire (history)
    last,     \* the frame sent last, the subscription it was meant for, and whether the
              \* headers that went out were all of its headers and nothing else (history)
    refused,  \* whether a header of deliver_frame has not been set (history)
    blank     \* whether deliver_frame has been given an empty tag (history)

vars == <<in, out, msg, pc, request, last, refused, blank>>

EmptyHeaders == [k \in {} |-> NONE]

EmptyFrame == [vars_size |-> 0, opcode |-> "NOOP", ack |-> FALSE, headers |-> EmptyHeaders,
               data_size |-> 0, payload_size |-> 0, pos |-> 0, completed |-> FALSE, wild |-> FALSE]

\* Faulty variant: the headers are kept.
Emptied_KeepsHeaders(f) == [EmptyFrame EXCEPT !.headers = f.headers, !.vars_size = f.vars_size]

\* frame__empty, with which every frame is begun, leaves nothing of the last one.
Emptied(f) == EmptyFrame

\* A header's value is NONE if the pointer to it has never been set; a frame is
\* wild once such a pointer has been followed.
IsFrame(f) ==
    /\ DOMAIN f = DOMAIN EmptyFrame
    /\ f.vars_size \in 0 .. Limit - 1 /\ f.opcode \in Opcode
    /\ DOMAIN f.headers \subseteq Key
    /\ \A k \in DOMAIN f.headers : f.headers[k] \in Nat \cup {NONE}
    /\ {f.data_size, f.payload_size, f.pos} \subseteq Nat
    /\ {f.ack, f.completed, f.wild} \subseteq BOOLEAN

-----------------------------------------------------------------------------
(***************************************************************************)
(* Variable headers.  An operation on a frame returns whether it returned  *)
(* BPSP_OK, and the frame.                                                 *)
(***************************************************************************)
\* What var_header__to_bytes writes: two pairs of quotes and a semicolon each.
HeaderBytes(k, v) == KeyLen[k] + v + 5
Bytes(headers) == MapThenSumSet(LAMBDA k : HeaderBytes(k, headers[k]), DOMAIN headers)

\* The headers of a request are no longer than its vars_size, of 16 bits, can say.
\* (Left out: a last header with no semicolon after it, in exactly Limit - 1 bytes.)
TextBytes(headers) ==
    MapThenSumSet(LAMBDA i : HeaderBytes(headers[i][1], headers[i][2]), DOMAIN headers)
ASSUME WireAssumption == \A r \in Request : TextBytes(r.headers) < Limit

Junk(f) == \E k \in DOMAIN f.headers : f.headers[k] = NONE

WithHeader(f, k, v) == [f EXCEPT !.headers = [j \in DOMAIN @ \cup {k} |-> IF j = k THEN v ELSE @[j]]]

\* The old length is subtracted, and the value replaced, before it is known that
\* the new one fits.
ReplaceHeader(f, k, v) ==
    LET size == (f.vars_size - f.headers[k]) % Limit
        fits == size + v < Limit
    IN [ok |-> fits,
        f  |-> [WithHeader(f, k, v) EXCEPT !.vars_size = IF fits THEN size + v ELSE size]]

\* Faulty variant: the limit itself is let through.
AddHeader_OffByOne(f, k, v) ==
    IF f.vars_size + HeaderBytes(k, v) <= Limit
    THEN [ok |-> TRUE,
          f  |-> [WithHeader(f, k, IF v = 0 THEN NONE ELSE v)
                     EXCEPT !.vars_size = @ + HeaderBytes(k, v)]]
    ELSE [ok |-> FALSE, f |-> f]

\* var_header__new sets no value if it is given an empty one.
AddHeader(f, k, v) ==
    IF f.vars_size + HeaderBytes(k, v) < Limit
    THEN [ok |-> TRUE,
          f  |-> [WithHeader(f, k, IF v = 0 THEN NONE ELSE v)
                     EXCEPT !.vars_size = @ + HeaderBytes(k, v)]]
    ELSE [ok |-> FALSE, f |-> f]

\* Faulty variant: a header that is there is left as it is.
SetVarHeader_IfAbsent(f, k, v) ==
    IF KeyLen[k] = 0 THEN [ok |-> FALSE, f |-> f]
    ELSE IF k \in DOMAIN f.headers THEN [ok |-> TRUE, f |-> f]
    ELSE AddHeader(f, k, v)

\* Faulty variant: a header that is there is counted again.
SetVarHeader_CountedTwice(f, k, v) ==
    IF KeyLen[k] = 0 THEN [ok |-> FALSE, f |-> f]
    ELSE IF k \in DOMAIN f.headers /\ f.headers[k] = NONE THEN [ok |-> FALSE, f |-> [f EXCEPT !.wild = TRUE]]
    ELSE AddHeader(f, k, v)

\* frame__set_var_header.
SetVarHeader(f, k, v) ==
    IF KeyLen[k] = 0 THEN [ok |-> FALSE, f |-> f]
    ELSE IF k \notin DOMAIN f.headers THEN AddHeader(f, k, v)
    ELSE IF f.headers[k] = NONE THEN [ok |-> FALSE, f |-> [f EXCEPT !.wild = TRUE]]
    ELSE ReplaceHeader(f, k, v)

\* frame__parse_var_header does not look at the status of frame__set_var_header.
ParseVarHeader(f, headers) ==
    FoldLeft(LAMBDA g, h : SetVarHeader(g, h[1], h[2]).f, f, headers)

\* An operation on the frame of a result, skipped if that is an error.
Then(r, Op(_)) == IF r.ok /\ ~r.f.wild THEN Op(r.f) ELSE r

\* frame__copy_var_headers follows every value of src.
CopyVarHeaders(dst, src) ==
    IF Junk(src) THEN [ok |-> FALSE, f |-> [dst EXCEPT !.wild = TRUE]]
    ELSE FoldSet(LAMBDA k, r : Then(r, LAMBDA g : SetVarHeader(g, k, src.headers[k])),
                 [ok |-> TRUE, f |-> dst], DOMAIN src.headers)

\* frame__build sets x-time, and completes a frame that has an opcode.
Build(f) ==
    LET r == SetVarHeader(f, "x-time", TimeLen)
    IN IF r.ok /\ f.opcode # "NOOP" THEN [r EXCEPT !.f.completed = TRUE]
                                    ELSE [r EXCEPT !.ok = FALSE]

-----------------------------------------------------------------------------
(***************************************************************************)
(* The payload.  alloc tells whether memory can be had.                    *)
(***************************************************************************)
MallocPayload(f, size, alloc) ==
    LET n == IF size = 0 \/ alloc \/ f.payload_size = size THEN size ELSE 0
    IN [ok |-> n = size,
        f  |-> [f EXCEPT !.payload_size = n, !.data_size = n, !.pos = 0]]

\* frame__put_payload, which is never called to append.
PutPayload(f, size, alloc) ==
    Then(MallocPayload(f, size, alloc),
         LAMBDA g : [ok |-> TRUE, f |-> [g EXCEPT !.pos = size]])

\* frame__replace_payload, after the allocation of what it is given.
ReplacePayload(f, size, alloc) ==
    IF alloc THEN [ok |-> TRUE, f |-> [f EXCEPT !.pos = size, !.payload_size = size, !.data_size = size]]
             ELSE [ok |-> FALSE, f |-> f]

-----------------------------------------------------------------------------
(***************************************************************************)
(* The frames the server makes.                                            *)
(***************************************************************************)
\* frame__set_frame_control.
Control(f, opcode, ack) ==
    [ok |-> opcode # "NOOP", f |-> IF opcode # "NOOP" THEN [f EXCEPT !.opcode = opcode, !.ack = ack] ELSE f]

\* frame__recv, once every part has been read.
Received(old, r, alloc) ==
    LET control == Control(Emptied(old), r.opcode, r.ack)
        parsed == Then(control, LAMBDA f : [ok |-> ~r.malformed, f |-> ParseVarHeader(f, r.headers)])
        filled == Then(parsed, LAMBDA f : MallocPayload(f, r.data, alloc))
        read   == Then(filled, LAMBDA f : [ok |-> TRUE, f |-> [f EXCEPT !.pos = r.data]])
    IN Then(read, Build)

INFO(old, alloc) == Then(PutPayload([Emptied(old) EXCEPT !.opcode = "INFO"], 1, alloc), Build)

\* frame__MSG; frame__copy wants a completed frame.
MSG(src, alloc) ==
    LET control == IF src.completed THEN Control(EmptyFrame, src.opcode, src.ack)
                                    ELSE [ok |-> FALSE, f |-> EmptyFrame]
        copied == Then(control, LAMBDA f : CopyVarHeaders(f, src))
        filled == Then(copied, LAMBDA f : PutPayload(f, src.payload_size, alloc))
    IN Then(Then(filled, LAMBDA f : Control(f, "MSG", f.ack)), Build)

\* frame__OK and frame__ERR: the request's headers, a text and a status code.
Answer(old, src, opcode, alloc) ==
    LET copied == Then(Control(Emptied(old), src.opcode, src.ack), LAMBDA f : CopyVarHeaders(f, src))
        control == Then(copied, LAMBDA f : Control(f, opcode, f.ack))
        filled == Then(control, LAMBDA f : IF opcode = "OK" THEN PutPayload(f, 1, alloc)
                                           ELSE ReplacePayload(f, 1, alloc))
    IN Then(Then(filled, LAMBDA f : SetVarHeader(f, "x-status-code", CodeLen)), Build)

-----------------------------------------------------------------------------
(***************************************************************************)
(* The thread of the client.                                               *)
(***************************************************************************)
TypeOK ==
    /\ IsFrame(in) /\ IsFrame(out)
    /\ msg = NONE \/ IsFrame(msg)
    /\ pc \in {"recv", "handle", "deliver", "reply", "end", "undefined"}
    /\ request \in Request \cup {NONE}
    /\ last = NONE \/ (IsFrame(last.frame) /\ last.sub \in Found \cup {NONE} /\ last.whole \in BOOLEAN)
    /\ {refused, blank} \subseteq BOOLEAN

Init ==
    /\ in = EmptyFrame /\ out = EmptyFrame /\ msg = NONE
    /\ pc = "recv" /\ request = NONE /\ last = NONE /\ refused = FALSE /\ blank = FALSE

\* Where the thread goes after an operation.
After(r, label) == IF r.f.wild THEN "undefined" ELSE IF r.ok THEN label ELSE "end"

\* frame__send takes a buffer of vars_size bytes for the headers, lets
\* var_header__to_bytes write all of them, and sends vars_size bytes of it.
Overruns(f) == ~Junk(f) /\ f.vars_size < Bytes(f.headers)

\* It follows the values of a frame.  Writing past the buffer is undefined; if the
\* thread survives it the headers go out cut.  With more announced than there is,
\* what was in the buffer before goes out after them.
Sent(f, sub, label) ==
    \/ /\ Junk(f) \/ Overruns(f)
       /\ pc' = "undefined" /\ last' = last
    \/ /\ ~Junk(f)
       /\ pc' = label
       /\ last' = [frame |-> f, sub |-> sub, whole |-> f.vars_size = Bytes(f.headers)]

Alloc == IF AllocMayFail THEN BOOLEAN ELSE {TRUE}

Recv(r, alloc) ==
    /\ pc = "recv"
    /\ request' = r
    /\ in' = Received(in, r, alloc).f
    /\ pc' = After(Received(in, r, alloc), "handle")
    /\ last' = NONE
    /\ UNCHANGED <<out, msg, refused, blank>>

\* handle__ECHO sends in_frame back; it is what every opcode but four gets.
HandleEcho ==
    /\ pc = "handle" /\ in.opcode \notin {"CONNECT", "PUB", "SUB", "UNSUB"}
    /\ Sent(in, NONE, "recv")
    /\ UNCHANGED <<in, out, msg, request, refused, blank>>

HandleConnect(alloc) ==
    /\ pc = "handle" /\ in.opcode = "CONNECT"
    /\ LET r == INFO(out, alloc)
       IN /\ out' = r.f
          /\ IF r.ok THEN Sent(r.f, NONE, "recv") ELSE pc' = "end" /\ last' = last
    /\ UNCHANGED <<in, msg, request, refused, blank>>

HasTopic == "x-topic" \in DOMAIN in.headers

\* The topic and the tag of a request are looked at as soon as it is handled.
Looked == {k \in {"x-topic", "x-sub-tag"} \cap DOMAIN in.headers :
              in.opcode = "PUB" => k = "x-topic"}
Undefined ==
    /\ pc = "handle" /\ in.opcode \in {"PUB", "SUB", "UNSUB"}
    /\ HasTopic /\ \E k \in Looked : in.headers[k] = NONE
    /\ pc' = "undefined"
    /\ UNCHANGED <<in, out, msg, request, last, refused, blank>>

Defined == \A k \in Looked : in.headers[k] # NONE

\* SUB and UNSUB, and a PUB that finds nobody.
HandleQuiet ==
    /\ pc = "handle" /\ in.opcode \in {"PUB", "SUB", "UNSUB"}
    /\ HasTopic => Defined
    /\ pc' = IF in.opcode = "PUB" /\ ~HasTopic THEN "end" ELSE "reply"
    /\ UNCHANGED <<in, out, msg, request, last, refused, blank>>

HandlePub(alloc) ==
    /\ pc = "handle" /\ in.opcode = "PUB" /\ HasTopic /\ Defined
    /\ msg' = MSG(in, alloc).f
    /\ pc' = After(MSG(in, alloc), "deliver")
    /\ UNCHANGED <<in, out, request, last, refused, blank>>

\* The headers that tell one delivery from the next are set in the same
\* deliver_frame, the last of them by broker__deliver_msg; one that does not fit
\* ends this delivery, not the loop.
Labelled(f, sub) ==
    Then(Then(SetVarHeader(f, "x-sub-tag", sub.tag),
              LAMBDA g : SetVarHeader(g, "x-origin-topic", in.headers["x-topic"])),
         LAMBDA g : SetVarHeader(g, "x-topic", sub.topic))

Deliver(sub) ==
    /\ pc = "deliver"
    /\ LET r == Then(Labelled(msg, sub), LAMBDA g : SetVarHeader(g, "x-from", FromLen))
       IN /\ msg' = r.f
          /\ refused' = (refused \/ ~r.ok)
          /\ blank' = (blank \/ sub.tag = 0)
          /\ IF r.ok THEN Sent(r.f, sub, "deliver")
                     ELSE pc' = (IF r.f.wild THEN "undefined" ELSE "deliver") /\ last' = last
    /\ UNCHANGED <<in, out, request>>

\* The client is no longer in the table: x-from is not set and nothing is sent.
DeliverGone(sub) ==
    /\ pc = "deliver"
    /\ LET r == Labelled(msg, sub)
       IN /\ msg' = r.f
          /\ refused' = (refused \/ ~r.ok)
          /\ blank' = (blank \/ sub.tag = 0)
          /\ pc' = IF r.f.wild THEN "undefined" ELSE "deliver"
    /\ UNCHANGED <<in, out, request, last>>

DeliverEnd ==
    /\ pc = "deliver"
    /\ msg' = NONE
    /\ pc' = "reply"
    /\ refused' = FALSE /\ blank' = FALSE
    /\ UNCHANGED <<in, out, request, last>>

\* The status handle__reply is given: handle__SUB loses the one of the
\* subscription, and an UNSUB needs a tag and something to remove.
Outcome ==
    {o \in {"OK", "ERR"} :
        /\ o = "OK" => HasTopic /\ (in.opcode = "UNSUB" => "x-sub-tag" \in DOMAIN in.headers)
        /\ o = "ERR" => ~HasTopic \/ in.opcode = "UNSUB"}

\* handle__reply.
Reply(opcode, alloc) ==
    /\ pc = "reply" /\ opcode \in Outcome
    /\ IF in.ack
       THEN LET r == Answer(out, in, opcode, alloc)
            IN /\ out' = r.f
               /\ IF r.ok THEN Sent(r.f, NONE, "recv") ELSE pc' = After(r, "recv") /\ last' = last
       ELSE pc' = "recv" /\ out' = out /\ last' = last
    /\ UNCHANGED <<in, msg, request, refused, blank>>

Next ==
    \/ \E alloc \in Alloc :
          \/ \E r \in Request : Recv(r, alloc)
          \/ HandleConnect(alloc) \/ HandlePub(alloc)
          \/ \E opcode \in {"OK", "ERR"} : Reply(opcode, alloc)
    \/ HandleEcho \/ HandleQuiet \/ Undefined
    \/ \E sub \in Found : Deliver(sub) \/ DeliverGone(sub)
    \/ DeliverEnd

Spec == Init /\ [][Next]_vars

-----------------------------------------------------------------------------
Counted(f) == ~Junk(f) => f.vars_size = Bytes(f.headers)

\* The size a frame announces is the size of its headers, however they were
\* parsed, copied, added and replaced: always for requests and replies, and for
\* the frame of a delivery as long as every header has fitted.
HeadersCounted ==
    /\ in.completed => Counted(in)
    /\ out.completed => Counted(out)
    /\ msg # NONE /\ msg.completed /\ ~refused => Counted(msg)

\* The last value of a header on the wire.
OnWire(k) ==
    LET at == {i \in 1..Len(request.headers) : request.headers[i][1] = k}
    IN request.headers[Max(at)][2]

\* The request's headers are in every frame made from it, except those the
\* server sets itself.
Carries(f, own) ==
    \A k \in {request.headers[i][1] : i \in 1..Len(request.headers)} \ (own \cup {"x-time"}) :
        KeyLen[k] > 0 => k \in DOMAIN f.headers /\ f.headers[k] = OnWire(k)

\* Every reply goes out whole, with the headers of its request.  Every message that
\* goes out whole (all do until a label has been refused: HeadersCounted) has the tag
\* and the topic of the subscription it is for, not those of an earlier delivery from
\* the same frame, with the topic that was published to as x-origin-topic and the
\* other headers and the payload of the PUB.  What is sent is complete.
SentIsFaithful ==
    last # NONE =>
        LET h == last.frame.headers
        IN /\ last.frame.completed
           /\ last.frame.data_size = last.frame.payload_size /\ last.frame.pos = last.frame.payload_size
           /\ last.sub = NONE => last.whole
           /\ last.sub # NONE =>
                 /\ last.frame.opcode = "MSG" /\ last.frame.payload_size = request.data
                 /\ last.whole =>
                       /\ h["x-sub-tag"] = last.sub.tag /\ h["x-topic"] = last.sub.topic
                       /\ h["x-origin-topic"] = OnWire("x-topic")
                       /\ Carries(last.frame, {"x-sub-tag", "x-origin-topic", "x-topic", "x-from"})
           /\ last.frame.opcode \in {"OK", "ERR"} /\ request.opcode \in {"PUB", "SUB", "UNSUB"} =>
                 Carries(last.frame, {"x-status-code"})

\* Undefined behaviour has one of three causes, all of the request at hand: it has a
\* header with an empty value, it is delivered to a subscription with an empty tag,
\* or a label of one of its deliveries has been refused.  No pointer that was never
\* set is left over in a frame that is used again, and none comes from what else the
\* server adds.
UndefinedHasCause ==
    pc = "undefined" =>
        \/ \E i \in 1..Len(request.headers) : request.headers[i][2] = 0
        \/ blank
        \/ refused /\ ~msg.wild

\* The size a frame announces is the size of the headers it is sent with.
AnnouncedSize == last # NONE => last.frame.vars_size = Bytes(last.frame.headers)
=============================================================================
