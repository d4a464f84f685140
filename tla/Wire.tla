-------------------------------- MODULE Wire --------------------------------
(***************************************************************************)
(* Frames over a stream socket (lib/frame_rw.c, net__read and net__write   *)
(* of lib/net.c).  frame__send writes a frame in up to three parts, and    *)
(* frame__recv reads it in up to three; each write and each read is a loop *)
(* around a system call that transfers some of the bytes asked for.  The   *)
(* connection may close anywhere in a frame.                               *)
(*                                                                         *)
(* A byte is the frame and the part it belongs to and its place in there.  *)
(***************************************************************************)
EXTENDS Integers, Sequences

CONSTANTS
    Sizes,       \* the frames to send: their vars_size and data_size
    FixedSize,   \* FIXED_HEADER_SIZE
    Buffer       \* bytes the socket holds

ASSUME WireAssumption ==
    /\ Sizes \in Seq([vars : Nat, data : Nat])
    /\ FixedSize \in Nat \ {0} /\ Buffer \in Nat \ {0}

PartName == {"fixed", "vars", "data"}
PartSize(i, part) ==
    IF part = "fixed" THEN FixedSize ELSE IF part = "vars" THEN Sizes[i].vars ELSE Sizes[i].data

Byte == (1..Len(Sizes)) \X PartName \X (Nat \ {0})

VARIABLES
    out,      \* the part being written: frame, part and n_write
    stream,   \* bytes in the socket
    closed,   \* whether an end has closed the connection
    in,       \* the part being read: part, size asked for and n_read
    buf,      \* what has been read of it
    got,      \* the sizes of the frames received, in order
    sender,   \* how frame__send ended: "open", or an error
    receiver  \* how frame__recv ended

vars == <<out, stream, closed, in, buf, got, sender, receiver>>

Status == {"open", "closed", "io_error", "garbled"}

TypeOK ==
    /\ out \in [frame : 1 .. Len(Sizes) + 1, part : PartName, n_write : Nat]
    /\ stream \in Seq(Byte)
    /\ closed \in BOOLEAN
    /\ in \in [vars : Nat, data : Nat, part : PartName, n_read : Nat]
    /\ buf \in Seq(Byte)
    /\ got \in Seq([vars : Nat, data : Nat])
    /\ sender \in Status /\ receiver \in Status

Start == [vars |-> 0, data |-> 0, part |-> "fixed", n_read |-> 0]

Init ==
    /\ out = [frame |-> 1, part |-> "fixed", n_write |-> 0]
    /\ stream = <<>> /\ closed = FALSE
    /\ in = Start /\ buf = <<>> /\ got = <<>>
    /\ sender = "open" /\ receiver = "open"

Piece(i, part, from, n) == [k \in 1..n |-> <<i, part, from + k>>]

\* The part after the given one, or "fixed" for the next frame; an empty part
\* is left out.
Following(part, varsSize, dataSize) ==
    IF part = "fixed" /\ varsSize > 0 THEN "vars"
    ELSE IF part # "data" /\ dataSize > 0 THEN "data"
    ELSE "fixed"

-----------------------------------------------------------------------------
\* Faulty variant: what send has not taken is forgotten.
Send_Once(n) ==
    /\ sender = "open" /\ out.frame <= Len(Sizes)
    /\ n <= PartSize(out.frame, out.part) - out.n_write /\ Len(stream) + n <= Buffer
    /\ stream' = IF closed THEN stream ELSE stream \o Piece(out.frame, out.part, out.n_write, n)
    /\ LET part == Following(out.part, Sizes[out.frame].vars, Sizes[out.frame].data)
       IN out' = [frame |-> IF part = "fixed" THEN out.frame + 1 ELSE out.frame,
                  part |-> part, n_write |-> 0]
    /\ UNCHANGED <<closed, in, buf, got, sender, receiver>>

\* One call of send in net__write, which returns when the whole part is written.
\* On a connection that has closed it may still seem to succeed.
Send(n) ==
    /\ sender = "open" /\ out.frame <= Len(Sizes)
    /\ n <= PartSize(out.frame, out.part) - out.n_write /\ Len(stream) + n <= Buffer
    /\ stream' = IF closed THEN stream ELSE stream \o Piece(out.frame, out.part, out.n_write, n)
    /\ LET part == Following(out.part, Sizes[out.frame].vars, Sizes[out.frame].data)
       IN out' = IF out.n_write + n < PartSize(out.frame, out.part)
                 THEN [out EXCEPT !.n_write = @ + n]
                 ELSE [frame |-> IF part = "fixed" THEN out.frame + 1 ELSE out.frame,
                       part |-> part, n_write |-> 0]
    /\ UNCHANGED <<closed, in, buf, got, sender, receiver>>

SendError ==
    /\ sender = "open" /\ out.frame <= Len(Sizes) /\ closed
    /\ sender' = "io_error"
    /\ UNCHANGED <<out, stream, closed, in, buf, got, receiver>>

-----------------------------------------------------------------------------
Asked(r) == IF r.part = "fixed" THEN FixedSize ELSE IF r.part = "vars" THEN r.vars ELSE r.data

\* What datatype__d16 and datatype__d32 find in a fixed header.
Decoded(bytes) == {Sizes[i] : i \in {j \in 1..Len(Sizes) : bytes = Piece(j, "fixed", 0, FixedSize)}}

\* One call of recv in net__read, which returns when the whole part is there.
Recv(n) ==
    /\ receiver = "open"
    /\ n <= Len(stream) /\ n <= Asked(in) - in.n_read
    /\ stream' = SubSeq(stream, n + 1, Len(stream))
    /\ LET bytes == buf \o SubSeq(stream, 1, n)
           sizes == IF in.part = "fixed" THEN Decoded(bytes) ELSE {[vars |-> in.vars, data |-> in.data]}
       IN IF in.n_read + n < Asked(in)
          THEN in' = [in EXCEPT !.n_read = @ + n] /\ buf' = bytes /\ UNCHANGED <<got, receiver>>
          ELSE /\ buf' = <<>>
               /\ IF sizes = {} THEN receiver' = "garbled" /\ UNCHANGED <<in, got>>
                  ELSE \E s \in sizes :
                     /\ receiver' = receiver
                     /\ LET part == Following(in.part, s.vars, s.data)
                        IN /\ in' = IF part = "fixed" THEN Start
                                    ELSE [vars |-> s.vars, data |-> s.data, part |-> part, n_read |-> 0]
                           /\ got' = IF part = "fixed" THEN Append(got, s) ELSE got
    /\ UNCHANGED <<out, closed, sender>>

\* Faulty variants: the end of the stream is not noticed; the error is added
\* to n_read.
RecvClosed_Retries ==
    /\ receiver = "open" /\ closed /\ stream = <<>>
    /\ UNCHANGED vars

RecvClosed_CountsError ==
    /\ receiver = "open" /\ closed /\ stream = <<>>
    /\ receiver' \in {"closed", "io_error"}
    /\ in' = [in EXCEPT !.n_read = @ - 1]
    /\ UNCHANGED <<out, stream, closed, buf, got, sender>>

\* recv returns 0 or an error once the stream has ended.
RecvClosed ==
    /\ receiver = "open" /\ closed /\ stream = <<>>
    /\ receiver' \in {"closed", "io_error"}
    /\ UNCHANGED <<out, stream, closed, in, buf, got, sender>>

\* The connection is closed or reset, and bytes on their way may be lost.
Close ==
    /\ ~closed
    /\ closed' = TRUE
    /\ \E n \in 0..Len(stream) : stream' = SubSeq(stream, 1, n)
    /\ UNCHANGED <<out, in, buf, got, sender, receiver>>

Next ==
    \/ \E n \in 1..Buffer : Send(n) \/ Recv(n)
    \/ SendError \/ RecvClosed \/ Close

Fairness == WF_vars(\E n \in 1..Buffer : Send(n)) /\ WF_vars(\E n \in 1..Buffer : Recv(n)) /\ WF_vars(RecvClosed)

Spec == Init /\ [][Next]_vars /\ Fairness

-----------------------------------------------------------------------------
\* However reads and writes are cut, the reader stays in step with the writer:
\* what it has of a part are bytes of that part of the next frame, from its
\* beginning, and the frames it has are the ones sent, in order.  A frame is only
\* handed over when all of it has been written: a connection that closes inside a
\* frame never yields that frame.
InStep ==
    /\ receiver # "garbled"
    /\ got = SubSeq(Sizes, 1, Len(got))
    /\ buf = Piece(Len(got) + 1, in.part, 0, in.n_read)
    /\ Len(got) < out.frame

\* Every frame arrives, or the reader learns that the connection is closed.
EventuallyRead == <>(got = Sizes \/ receiver \in {"closed", "io_error"})
=============================================================================
