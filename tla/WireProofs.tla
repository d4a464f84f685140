----------------------------- MODULE WireProofs -----------------------------
(***************************************************************************)
(* The reader of a stream stays in step with its writer, for all sequences *)
(* of frames, sizes of the buffer and ways to cut reads and writes.        *)
(*                                                                         *)
(* The bytes in the socket, with the byte to be written next behind them,  *)
(* are consecutive, and the first of them is the one to be read next.      *)
(***************************************************************************)
EXTENDS Wire, SequenceTheorems, TLAPS

\* A byte, or the first one after the last frame.
Cursor == (1 .. Len(Sizes) + 1) \X PartName \X (Nat \ {0})

SizeOf(b) == PartSize(b[1], b[2])

\* The first byte after the part of b.
After(b) ==
    LET part == Following(b[2], Sizes[b[1]].vars, Sizes[b[1]].data)
    IN <<IF part = "fixed" THEN b[1] + 1 ELSE b[1], part, 1>>

\* The byte m places after b, as far as the one that follows the part of b.
Shift(b, m) == IF b[3] + m <= SizeOf(b) THEN <<b[1], b[2], b[3] + m>> ELSE After(b)

\* The bytes to be written and to be read next.
Writes == <<out.frame, out.part, out.n_write + 1>>
Reads == <<Len(got) + 1, in.part, in.n_read + 1>>

\* The stream, and while the connection is open the byte that will be next.
At(k) == IF k <= Len(stream) THEN stream[k] ELSE Writes
Known == IF closed THEN Len(stream) ELSE Len(stream) + 1

\* The writer is inside a part that is not empty, or has sent everything.
WriterInv ==
    /\ out.frame <= Len(Sizes) => out.n_write < PartSize(out.frame, out.part)
    /\ out.frame = Len(Sizes) + 1 => out.part = "fixed" /\ out.n_write = 0

\* The reader is inside a part of the next frame, and knows that frame's sizes
\* once it has the fixed header.
ReaderInv ==
    /\ in.n_read < Asked(in)
    /\ in.part # "fixed" =>
          /\ Len(got) + 1 \in 1..Len(Sizes)
          /\ in.vars = Sizes[Len(got) + 1].vars /\ in.data = Sizes[Len(got) + 1].data

\* Bytes belong to parts that have been written, and the last byte of a frame is
\* behind the writer.
WrittenInv ==
    \A k \in 1..Len(stream) :
        /\ stream[k][3] <= SizeOf(stream[k])
        /\ stream[k][1] <= out.frame
        /\ stream[k][3] = SizeOf(stream[k]) => After(stream[k])[1] <= out.frame

\* Bytes are consecutive.
RunInv ==
    \A j, k \in 1..Known :
        j <= k /\ At(j)[3] + (k - j) <= SizeOf(At(j)) + 1 => At(k) = Shift(At(j), k - j)

\* The first of them is to be read next.
JoinInv == 1 <= Known => At(1) = Reads

\* The inductive invariant.
WireInv == TypeOK /\ WriterInv /\ ReaderInv /\ WrittenInv /\ RunInv /\ JoinInv /\ InStep

-----------------------------------------------------------------------------
\* Sizes are numbers, and a part that follows another is not empty.
LEMMA Sized ==
    /\ Len(Sizes) \in Nat /\ FixedSize \in Nat \ {0} /\ Buffer \in Nat \ {0}
    /\ \A i \in 1..Len(Sizes) : /\ Sizes[i] \in [vars : Nat, data : Nat]
                                /\ Sizes[i].vars \in Nat /\ Sizes[i].data \in Nat
    /\ \A i \in 1..Len(Sizes), part \in PartName : PartSize(i, part) \in Nat
    /\ \A i : PartSize(i, "fixed") = FixedSize
<1>1. Sizes \in Seq([vars : Nat, data : Nat])
  BY WireAssumption
<1>2. \A i \in 1..Len(Sizes) : Sizes[i] \in [vars : Nat, data : Nat]
  BY <1>1, ElementOfSeq
<1>3. Len(Sizes) \in Nat
  BY <1>1, LenProperties
<1> QED BY <1>2, <1>3, WireAssumption DEF PartSize, PartName

\* After a part comes another one of the same frame, or the next fixed header.
LEMMA AfterPart ==
    ASSUME NEW i \in 1..Len(Sizes), NEW part \in PartName, NEW x
    PROVE  LET b == After(<<i, part, x>>)
           IN /\ b \in Cursor /\ b[3] = 1
              /\ b[1] = i \/ b = <<i + 1, "fixed", 1>>
              /\ b[1] = i => b[1] \in 1..Len(Sizes) /\ 1 <= PartSize(b[1], b[2]) /\ b[2] # "fixed"
              /\ b[2] = Following(part, Sizes[i].vars, Sizes[i].data)
  BY Sized DEF After, Following, Cursor, PartName, PartSize

\* A piece of a part is a sequence of bytes.
LEMMA Pieces ==
    ASSUME NEW i \in 1..Len(Sizes), NEW part \in PartName, NEW from \in Nat, NEW n \in Nat
    PROVE  Piece(i, part, from, n) \in Seq(Byte) /\ Len(Piece(i, part, from, n)) = n
<1>1. Piece(i, part, from, n) \in [1..n -> Byte]
  BY Sized DEF Piece, Byte
<1>2. Piece(i, part, from, n) \in Seq(Byte)
  BY <1>1, SeqDef
<1>3. 1..Len(Piece(i, part, from, n)) = 1..n /\ Len(Piece(i, part, from, n)) \in Nat
  BY <1>1, <1>2, LenProperties
<1>4. \A l \in Nat : 1..l = 1..n => l = n
  <2>1. ASSUME NEW l \in Nat, 1..l = 1..n PROVE l = n
    <3>1. (l + 1 \notin 1..n \/ n < 1) /\ (n + 1 \notin 1..l \/ l < 1)
      BY <2>1
    <3>2. (n \in 1..l \/ n = 0) /\ (l \in 1..n \/ l = 0)
      BY <2>1
    <3> QED BY <3>1, <3>2
  <2> QED BY <2>1
<1> QED BY <1>2, <1>3, <1>4

\* One call of send puts the next bytes of the part behind the stream, and what is
\* written next is the byte after them.
LEMMA SendStream ==
    ASSUME TypeOK, WriterInv, NEW n \in 1..Buffer, Send(n)
    PROVE  /\ out.frame \in 1..Len(Sizes) /\ out.part \in PartName /\ out.n_write \in Nat
           /\ out.n_write + n <= PartSize(out.frame, out.part)
           /\ UNCHANGED <<closed, in, buf, got, sender, receiver>>
           /\ Writes' = Shift(Writes, n)
           /\ out' \in [frame : 1 .. Len(Sizes) + 1, part : PartName, n_write : Nat]
           /\ out.frame <= out'.frame /\ WriterInv'
           /\ closed => stream' = stream
           /\ ~closed => /\ stream' \in Seq(Byte) /\ Len(stream') = Len(stream) + n
                         /\ \A k \in 1..Len(stream) : stream'[k] = stream[k]
                         /\ \A m \in 1..n :
                               stream'[Len(stream) + m] = <<out.frame, out.part, out.n_write + m>>
<1>1. /\ out.frame \in 1..Len(Sizes) /\ out.part \in PartName /\ out.n_write \in Nat
      /\ n \in Nat \ {0} /\ PartSize(out.frame, out.part) \in Nat
      /\ out.n_write + n <= PartSize(out.frame, out.part)
  <2>1. out.frame \in 1..Len(Sizes) /\ out.part \in PartName /\ out.n_write \in Nat
    BY Sized DEF TypeOK, Send
  <2>2. n \in Nat \ {0} /\ PartSize(out.frame, out.part) \in Nat
    BY <2>1, Sized
  <2>3. n <= PartSize(out.frame, out.part) - out.n_write
    BY DEF Send
  <2> QED BY <2>1, <2>2, <2>3
<1> DEFINE next == After(<<out.frame, out.part, out.n_write + 1>>)
<1>2. /\ next \in Cursor /\ next[3] = 1
      /\ next[1] = out.frame \/ next = <<out.frame + 1, "fixed", 1>>
      /\ next[1] = out.frame => /\ next[1] \in 1..Len(Sizes) /\ 1 <= PartSize(next[1], next[2])
                                /\ next[2] # "fixed"
      /\ next[2] = Following(out.part, Sizes[out.frame].vars, Sizes[out.frame].data)
  BY <1>1, AfterPart
<1>3. ASSUME out.n_write + n < PartSize(out.frame, out.part)
      PROVE  /\ Writes' = Shift(Writes, n) /\ out.frame <= out'.frame /\ WriterInv'
             /\ out' \in [frame : 1 .. Len(Sizes) + 1, part : PartName, n_write : Nat]
  <2>1. out' = [out EXCEPT !.n_write = @ + n]
    BY <1>3 DEF Send
  <2>2. /\ out' \in [frame : 1 .. Len(Sizes) + 1, part : PartName, n_write : Nat]
        /\ out'.frame = out.frame /\ out'.part = out.part /\ out'.n_write = out.n_write + n
    <3>1. out \in [frame : 1 .. Len(Sizes) + 1, part : PartName, n_write : Nat]
      BY DEF TypeOK
    <3> QED BY <1>1, <2>1, <3>1
  <2>3. Writes' = Shift(Writes, n)
    BY <1>1, <1>3, <2>2 DEF Writes, Shift, SizeOf
  <2>4. WriterInv'
    BY <1>1, <1>3, <2>2, Sized DEF WriterInv
  <2> QED BY <1>1, <2>2, <2>3, <2>4
<1>4. ASSUME ~(out.n_write + n < PartSize(out.frame, out.part))
      PROVE  /\ Writes' = Shift(Writes, n) /\ out.frame <= out'.frame /\ WriterInv'
             /\ out' \in [frame : 1 .. Len(Sizes) + 1, part : PartName, n_write : Nat]
  <2>1. out' = [frame |-> IF next[2] = "fixed" THEN out.frame + 1 ELSE out.frame,
                part |-> next[2], n_write |-> 0]
    BY <1>2, <1>4 DEF Send
  <2>2. out'.frame = next[1] /\ out'.part = next[2] /\ out'.n_write = 0
    BY <1>1, <1>2, <2>1
  <2>3. out' \in [frame : 1 .. Len(Sizes) + 1, part : PartName, n_write : Nat]
    BY <1>1, <1>2, <2>1, Sized DEF Cursor
  <2>4. Writes' = <<next[1], next[2], 1>> /\ next = <<next[1], next[2], 1>>
    BY <1>2, <2>2 DEF Writes, Cursor
  <2>5. Shift(Writes, n) = next
    BY <1>1, <1>4 DEF Shift, SizeOf, Writes
  <2>6. WriterInv'
    <3>1. CASE next[1] = out.frame
      <4>1. /\ out'.frame \in 1..Len(Sizes) /\ 1 <= PartSize(out'.frame, out'.part)
            /\ PartSize(out'.frame, out'.part) \in Nat
        BY <1>1, <1>2, <2>2, <3>1, Sized DEF Cursor
      <4> QED BY <2>2, <4>1, Sized DEF WriterInv
    <3>2. CASE next = <<out.frame + 1, "fixed", 1>>
      <4>1. PartSize(out'.frame, out'.part) = FixedSize
        BY <2>2, <3>2, Sized
      <4> QED BY <1>1, <2>2, <3>2, <4>1, Sized DEF WriterInv
    <3> QED BY <1>2, <3>1, <3>2
  <2> QED BY <1>1, <1>2, <2>2, <2>3, <2>4, <2>5, <2>6
<1>5. closed => stream' = stream
  BY DEF Send
<1>6. ASSUME ~closed
      PROVE  /\ stream' \in Seq(Byte) /\ Len(stream') = Len(stream) + n
             /\ \A k \in 1..Len(stream) : stream'[k] = stream[k]
             /\ \A m \in 1..n : stream'[Len(stream) + m] = <<out.frame, out.part, out.n_write + m>>
  <2> DEFINE piece == Piece(out.frame, out.part, out.n_write, n)
  <2>1. stream' = stream \o piece
    BY <1>6 DEF Send
  <2>2. /\ piece \in Seq(Byte) /\ Len(piece) = n
        /\ \A k \in 1..n : piece[k] = <<out.frame, out.part, out.n_write + k>>
    <3>1. n \in Nat
      BY <1>1
    <3>2. \A k \in 1..n : piece[k] = <<out.frame, out.part, out.n_write + k>>
      BY DEF Piece
    <3> QED BY <1>1, <3>1, <3>2, Pieces
  <2>4. stream \in Seq(Byte) /\ Len(stream) \in Nat
    BY LenProperties DEF TypeOK
  <2> HIDE DEF piece
  <2>3. /\ stream' \in Seq(Byte) /\ Len(stream') = Len(stream) + Len(piece)
        /\ \A i \in 1 .. Len(stream) + Len(piece) :
              stream'[i] = IF i <= Len(stream) THEN stream[i] ELSE piece[i - Len(stream)]
    BY <2>1, <2>2, <2>4, ConcatProperties
  <2>5. \A k \in 1..Len(stream) : stream'[k] = stream[k]
    BY <1>1, <2>2, <2>3, <2>4
  <2>6. ASSUME NEW m \in 1..n
        PROVE  stream'[Len(stream) + m] = <<out.frame, out.part, out.n_write + m>>
    <3>1. Len(stream) + m \in 1 .. Len(stream) + n /\ ~(Len(stream) + m <= Len(stream))
          /\ (Len(stream) + m) - Len(stream) = m
      BY <1>1, <2>4
    <3> QED BY <2>2, <2>3, <3>1
  <2> QED BY <2>2, <2>3, <2>5, <2>6
<1>7. UNCHANGED <<closed, in, buf, got, sender, receiver>>
  BY DEF Send
<1> QED BY <1>1, <1>3, <1>4, <1>5, <1>6, <1>7

\* The byte to be written next lies inside its part.
LEMMA NextInside ==
    ASSUME NEW o \in [frame : 1 .. Len(Sizes) + 1, part : PartName, n_write : Nat],
           o.frame <= Len(Sizes) => o.n_write < PartSize(o.frame, o.part),
           o.frame = Len(Sizes) + 1 => o.part = "fixed" /\ o.n_write = 0
    PROVE  LET b == <<o.frame, o.part, o.n_write + 1>>
           IN b \in Cursor /\ SizeOf(b) \in Nat /\ b[3] <= SizeOf(b)
<1>1. PartSize(o.frame, o.part) \in Nat /\ o.n_write < PartSize(o.frame, o.part)
  <2>1. CASE o.frame \in 1..Len(Sizes)
    BY <2>1, Sized
  <2>2. CASE o.frame = Len(Sizes) + 1
    BY <2>2, Sized
  <2> QED BY <2>1, <2>2, Sized
<1> QED BY <1>1 DEF Cursor, SizeOf

\* The bytes in the stream and the one to be written next lie inside their parts.
LEMMA Inside ==
    ASSUME TypeOK, WriterInv, WrittenInv
    PROVE  /\ Len(stream) \in Nat /\ Known \in Nat
           /\ \A k \in 1..Known : /\ At(k) \in Cursor /\ SizeOf(At(k)) \in Nat
                                  /\ At(k)[3] <= SizeOf(At(k))
           /\ \A k \in 1..Len(stream) : stream[k] \in Byte /\ At(k) = stream[k]
<1>1. Len(stream) \in Nat /\ Known \in Nat
  BY LenProperties DEF TypeOK, Known
<1>2. \A k \in 1..Len(stream) : stream[k] \in Byte /\ At(k) = stream[k]
  <2>1. \A k \in 1..Len(stream) : stream[k] \in Byte
    BY ElementOfSeq DEF TypeOK
  <2> QED BY <2>1 DEF At
<1>3. ASSUME NEW k \in 1..Len(stream)
      PROVE  At(k) \in Cursor /\ SizeOf(At(k)) \in Nat /\ At(k)[3] <= SizeOf(At(k))
  <2> DEFINE b == stream[k]
  <2>1. b \in Byte /\ At(k) = b
    BY <1>2
  <2>2. b[3] <= SizeOf(b)
    BY DEF WrittenInv
  <2> HIDE DEF b
  <2>3. b[1] \in 1..Len(Sizes) /\ b[2] \in PartName /\ b \in Cursor
    BY <2>1, Sized DEF Byte, Cursor
  <2>4. SizeOf(b) \in Nat
    BY <2>3, Sized DEF SizeOf
  <2> QED BY <2>1, <2>2, <2>3, <2>4
<1>4. Writes \in Cursor /\ SizeOf(Writes) \in Nat /\ Writes[3] <= SizeOf(Writes)
  BY NextInside DEF TypeOK, WriterInv, Writes
<1>5. \A k \in 1..Known : k \in 1..Len(stream) \/ At(k) = Writes
  BY <1>1 DEF Known, At
<1> QED BY <1>1, <1>2, <1>3, <1>4, <1>5

\* Two shifts make one.
LEMMA Shifts ==
    ASSUME NEW b \in Cursor, SizeOf(b) \in Nat
    PROVE  /\ b[3] <= SizeOf(b) => Shift(b, 0) = b
           /\ \A i, m \in Nat : b[3] + i <= SizeOf(b) => Shift(Shift(b, i), m) = Shift(b, i + m)
<1>1. b = <<b[1], b[2], b[3]>> /\ b[3] \in Nat
  BY DEF Cursor
<1>2. b[3] <= SizeOf(b) => Shift(b, 0) = b
  BY <1>1 DEF Shift
<1>3. ASSUME NEW i \in Nat, NEW m \in Nat, b[3] + i <= SizeOf(b)
      PROVE  Shift(Shift(b, i), m) = Shift(b, i + m)
  <2>1. Shift(b, i) = <<b[1], b[2], b[3] + i>>
    BY <1>3 DEF Shift
  <2>2. SizeOf(Shift(b, i)) = SizeOf(b) /\ After(Shift(b, i)) = After(b)
    BY <2>1 DEF SizeOf, After
  <2>3. b[3] + i + m = b[3] + (i + m)
    BY <1>1
  <2> QED BY <2>1, <2>2, <2>3 DEF Shift
<1> QED BY <1>2, <1>3

\* However many bytes a call of send takes, the bytes stay consecutive.
LEMMA SendStep ==
    ASSUME WireInv, NEW n \in 1..Buffer, Send(n)
    PROVE  WireInv'
<1> USE DEF WireInv
<1>1. n \in Nat \ {0} /\ Len(got) \in Nat /\ Len(got) < out.frame
  BY Sized, LenProperties DEF TypeOK, InStep
<1>2. /\ out.frame \in 1..Len(Sizes) /\ out.part \in PartName /\ out.n_write \in Nat
      /\ out.n_write + n <= PartSize(out.frame, out.part)
      /\ UNCHANGED <<closed, in, buf, got, sender, receiver>>
      /\ Writes' = Shift(Writes, n)
      /\ out' \in [frame : 1 .. Len(Sizes) + 1, part : PartName, n_write : Nat]
      /\ out.frame <= out'.frame /\ WriterInv'
      /\ closed => stream' = stream
  BY SendStream
<1>3. ASSUME ~closed
      PROVE  /\ stream' \in Seq(Byte) /\ Len(stream') = Len(stream) + n
             /\ \A k \in 1..Len(stream) : stream'[k] = stream[k]
             /\ \A m \in 1..n : stream'[Len(stream) + m] = <<out.frame, out.part, out.n_write + m>>
  BY <1>3, SendStream
<1>4. TypeOK'
  BY <1>2, <1>3 DEF TypeOK
<1>5. ReaderInv' /\ InStep'
  <2>1. out'.frame \in Nat /\ out.frame \in Nat /\ Len(got)' = Len(got)
    BY <1>2, Sized
  <2> QED BY <1>1, <1>2, <2>1 DEF ReaderInv, InStep, Asked
<1>6. /\ Len(stream) \in Nat /\ Known \in Nat
      /\ \A k \in 1..Known : /\ At(k) \in Cursor /\ SizeOf(At(k)) \in Nat
                             /\ At(k)[3] <= SizeOf(At(k))
      /\ \A k \in 1..Len(stream) : stream[k] \in Byte /\ At(k) = stream[k]
  BY Inside
<1>7. ASSUME NEW k \in 1..Len(stream), stream'[k] = stream[k]
      PROVE  /\ stream'[k][3] <= SizeOf(stream'[k]) /\ stream'[k][1] <= out'.frame
             /\ stream'[k][3] = SizeOf(stream'[k]) => After(stream'[k])[1] <= out'.frame
  <2>1. stream[k][1] \in Nat /\ out.frame \in Nat /\ out'.frame \in Nat
    BY <1>2, <1>6, Sized, SMTT(60) DEF Byte
  <2>2. After(stream[k])[1] \in Nat
    BY <1>6, Sized DEF Byte, After
  <2> QED BY <1>2, <1>7, <2>1, <2>2, SMTT(60) DEF WrittenInv
<1>8. CASE closed
  <2>1. Known' = Known /\ Known = Len(stream) /\ \A k \in 1..Known : At(k)' = At(k)
    BY <1>2, <1>8 DEF Known, At
  <2>2. WrittenInv'
    BY <1>2, <1>7, <1>8 DEF WrittenInv, SizeOf, PartSize, After, Following
  <2>3. RunInv'
    BY <2>1 DEF RunInv
  <2>4. JoinInv'
    BY <1>2, <1>6, <2>1 DEF JoinInv, Reads
  <2> QED BY <1>2, <1>4, <1>5, <2>2, <2>3, <2>4
<1>9. CASE ~closed
  <2>0. PICK l \in Nat : l = Len(stream)
    BY <1>6
  <2>1. Known = l + 1 /\ Known' = l + n + 1 /\ l = Len(stream) /\ Len(stream)' = l + n
    BY <1>1, <1>2, <1>3, <1>6, <1>9, <2>0 DEF Known
  <2>2. At(l + 1) = Writes /\ Writes = <<out.frame, out.part, out.n_write + 1>>
    BY <2>1 DEF At, Writes
  <2>w. /\ Writes \in Cursor /\ SizeOf(Writes) = PartSize(out.frame, out.part)
        /\ SizeOf(Writes) \in Nat /\ Writes[3] <= SizeOf(Writes)
    <3>1. l + 1 \in 1..Known
      BY <2>1
    <3>2. SizeOf(Writes) = PartSize(out.frame, out.part)
      BY <2>2 DEF SizeOf
    <3> QED BY <1>6, <2>2, <3>1, <3>2
  <2>3. \A k \in 1 .. l : At(k)' = At(k)
    BY <1>3, <1>9, <2>1 DEF At
  <2>4. ASSUME NEW m \in 0..n PROVE At(l + 1 + m)' = Shift(Writes, m)
    <3>1. CASE m = n
      <4>1. ~(l + 1 + m <= Len(stream)')
        BY <1>1, <1>3, <1>9, <2>1, <3>1
      <4> QED BY <1>2, <3>1, <4>1 DEF At
    <3>2. CASE m # n
      <4>1. m + 1 \in 1..n /\ l + (m + 1) = l + 1 + m /\ l + 1 + m <= Len(stream)'
        BY <1>1, <1>3, <1>9, <2>1, <3>2
      <4>2. At(l + 1 + m)' = <<out.frame, out.part, out.n_write + (m + 1)>>
        <5>1. stream'[l + (m + 1)] = <<out.frame, out.part, out.n_write + (m + 1)>>
          BY <1>3, <1>9, <2>1, <4>1
        <5> QED BY <4>1, <5>1 DEF At
      <4>3. out.n_write + 1 + m <= SizeOf(Writes) /\ out.n_write + (m + 1) = out.n_write + 1 + m
        BY <1>1, <1>2, <2>w, <4>1, SMTT(60)
      <4>4. Shift(Writes, m) = <<out.frame, out.part, out.n_write + 1 + m>>
        BY <2>2, <4>3 DEF Shift
      <4> QED BY <4>2, <4>3, <4>4
    <3> QED BY <3>1, <3>2
  <2>5. At(l + 1)' = At(l + 1)
    <3>1. Shift(Writes, 0) = Writes
      BY <2>w, Shifts
    <3>2. 0 \in 0..n /\ l + 1 + 0 = l + 1
      BY <1>1, <2>1
    <3> QED BY <2>2, <2>4, <3>1, <3>2
  <2>6. ASSUME NEW k \in 1 .. l + 1 PROVE At(k)' = At(k)
    <3>1. k \in 1..l \/ k = l + 1
      BY <2>1
    <3> QED BY <2>3, <2>5, <3>1
  <2>7. WrittenInv'
    <3>1. ASSUME NEW k \in 1..Len(stream)'
          PROVE  /\ stream'[k][3] <= SizeOf(stream'[k]) /\ stream'[k][1] <= out'.frame
                 /\ stream'[k][3] = SizeOf(stream'[k]) => After(stream'[k])[1] <= out'.frame
      <4>1. CASE k \in 1..l
        BY <1>3, <1>7, <1>9, <2>1, <4>1
      <4>2. CASE k \notin 1..l
        <5>1. PICK m \in 1..n : k = l + m
          <6>1. k - l \in 1..n /\ k = l + (k - l)
            BY <1>1, <1>3, <1>9, <2>1, <4>2
          <6> QED BY <6>1
        <5>2. stream'[k] = <<out.frame, out.part, out.n_write + m>>
          BY <1>3, <1>9, <2>1, <5>1
        <5>3. SizeOf(stream'[k]) = SizeOf(Writes) /\ After(stream'[k]) = After(Writes)
          BY <2>2, <5>2 DEF SizeOf, After
        <5>4. ASSUME out.n_write + m = SizeOf(Writes) PROVE After(Writes)[1] <= out'.frame
          <6>1. m = n
            BY <1>1, <1>2, <2>w, <5>1, <5>4
          <6>2. Shift(Writes, n) = After(Writes)
            BY <1>1, <1>2, <2>2, <2>w, <5>4, <6>1 DEF Shift
          <6>3. After(Writes)[1] = out'.frame
            BY <1>2, <6>2 DEF Writes
          <6> QED BY <1>2, <6>3, Sized
        <5> QED BY <1>1, <1>2, <2>w, <5>1, <5>2, <5>3, <5>4
      <4> QED BY <4>1, <4>2
    <3> QED BY <3>1 DEF WrittenInv, SizeOf, PartSize, After, Following
  <2>8. WriterInv' /\ TypeOK'
    BY <1>2, <1>4
  <2>9. ASSUME NEW j \in 1..Known', NEW k \in 1..Known', j <= k,
               At(j)'[3] + (k - j) <= SizeOf(At(j)') + 1
        PROVE  At(k)' = Shift(At(j)', k - j)
    <3>1. CASE j <= l + 1 /\ k <= l + 1
      BY <2>1, <2>6, <2>9, <3>1 DEF RunInv
    <3>2. CASE j <= l + 1 /\ k > l + 1
      <4> DEFINE i == l + 1 - j
      <4>1. /\ i \in Nat /\ k - (l + 1) \in 1..n
            /\ k = l + 1 + (k - (l + 1)) /\ k - j = i + (k - (l + 1))
            /\ j \in 1..Known /\ j \in 1 .. l + 1
        BY <1>1, <2>1, <3>2
      <4> DEFINE m == k - (l + 1)
      <4>2. At(j)' = At(j) /\ At(j) \in Cursor /\ SizeOf(At(j)) \in Nat
        BY <1>6, <2>6, <4>1
      <4>3. At(j)[3] + i <= SizeOf(At(j))
        BY <2>9, <4>1, <4>2 DEF Cursor
      <4>4. At(l + 1) = Shift(At(j), i)
        <5>1. /\ l + 1 \in 1..Known /\ j <= l + 1 /\ (l + 1) - j = i
              /\ At(j)[3] + i <= SizeOf(At(j)) + 1
          BY <2>1, <4>1, <4>2, <4>3, SMTT(60) DEF Cursor
        <5> QED BY <4>1, <5>1 DEF RunInv
      <4>5. At(k)' = Shift(Writes, m)
        <5>1. m \in 0..n /\ l + 1 + m = k
          BY <1>1, <4>1
        <5>2. At(l + 1 + m)' = Shift(Writes, m)
          BY <2>4, <5>1
        <5> QED BY <5>1, <5>2
      <4>6. Shift(Shift(At(j), i), m) = Shift(At(j), i + m)
        <5>1. m \in Nat
          BY <1>1, <4>1
        <5> QED BY <4>1, <4>2, <4>3, <5>1, Shifts
      <4> QED BY <2>2, <4>1, <4>2, <4>4, <4>5, <4>6
    <3>3. CASE j > l + 1
      <4>a. PICK i \in 1..n : j = l + 1 + i
        <5>1. j - (l + 1) \in 1..n /\ j = l + 1 + (j - (l + 1))
          BY <1>1, <2>1, <2>9, <3>3
        <5> QED BY <5>1
      <4>b. PICK m \in 0..n : k = j + m /\ k - j = m
        <5>1. k - j \in 0..n /\ k = j + (k - j)
          BY <1>1, <2>1, <2>9, <3>3
        <5> QED BY <5>1
      <4>1. i \in Nat /\ m \in Nat /\ i \in 0..n /\ i + m \in 0..n /\ k = l + 1 + (i + m)
        BY <1>1, <2>1, <4>a, <4>b
      <4>2. At(j)' = Shift(Writes, i) /\ At(k)' = Shift(Writes, i + m)
        BY <2>4, <4>1, <4>a
      <4>3. CASE i < n
        <5>1. Writes[3] + i <= SizeOf(Writes)
          BY <1>1, <1>2, <2>2, <2>w, <4>1, <4>3, SMTT(60)
        <5>2. Shift(Shift(Writes, i), m) = Shift(Writes, i + m)
          BY <2>w, <4>1, <5>1, Shifts
        <5> QED BY <4>2, <4>b, <5>2
      <4>4. CASE i = n
        <5>1. k = j /\ m = 0
          BY <1>1, <4>1, <4>4, <4>a, <4>b
        <5>2. At(j)' \in Cursor /\ SizeOf(At(j)') \in Nat /\ At(j)'[3] <= SizeOf(At(j)')
          <6>1. At(j)' = <<out'.frame, out'.part, out'.n_write + 1>>
            BY <1>2, <4>2, <4>4 DEF Writes
          <6> QED BY <1>2, <6>1, NextInside DEF WriterInv
        <5>3. Shift(At(j)', 0) = At(j)'
          BY <5>2, Shifts
        <5> QED BY <4>b, <5>1, <5>3
      <4> QED BY <1>1, <4>a, <4>3, <4>4
    <3> QED BY <2>1, <2>9, <3>1, <3>2, <3>3
  <2>10. RunInv'
    BY <2>9 DEF RunInv, Shift, SizeOf, PartSize, After, Following
  <2>11. JoinInv'
    BY <1>2, <2>1, <2>6 DEF JoinInv, Reads
  <2> QED BY <1>2, <1>4, <1>5, <2>7, <2>10, <2>11
<1> QED BY <1>8, <1>9

\* What the reader has asked for is the size of the part it is in.
LEMMA ReaderInside ==
    ASSUME WireInv
    PROVE  /\ Len(got) \in Nat /\ in.n_read \in Nat /\ in.part \in PartName
           /\ Asked(in) \in Nat /\ in.n_read < Asked(in)
           /\ Asked(in) = SizeOf(Reads) /\ SizeOf(Reads) = PartSize(Len(got) + 1, in.part)
<1>1. Len(got) \in Nat /\ in.n_read \in Nat /\ in.part \in PartName
  BY LenProperties DEF WireInv, TypeOK
<1>2. in.n_read < Asked(in) /\ Asked(in) \in Nat
  BY Sized DEF WireInv, TypeOK, ReaderInv, Asked
<1>3. Asked(in) = PartSize(Len(got) + 1, in.part)
  BY <1>1, Sized DEF WireInv, ReaderInv, Asked, PartSize
<1> QED BY <1>1, <1>2, <1>3 DEF SizeOf, Reads

\* One call of recv takes the next bytes of the part the reader is in.
LEMMA RecvStream ==
    ASSUME WireInv, NEW n \in 1..Buffer, Recv(n)
    PROVE  /\ n \in Nat \ {0} /\ n <= Len(stream) /\ in.n_read + n <= Asked(in)
           /\ Len(stream) \in Nat /\ Len(got) + 1 \in 1..Len(Sizes)
           /\ \A k \in 1..n : stream[k] = <<Len(got) + 1, in.part, in.n_read + k>>
           /\ stream' \in Seq(Byte) /\ Len(stream') = Len(stream) - n
           /\ \A k \in 1..Len(stream') : stream'[k] = stream[k + n]
           /\ buf \o SubSeq(stream, 1, n) = Piece(Len(got) + 1, in.part, 0, in.n_read + n)
<1> USE DEF WireInv
<1>1. n \in Nat \ {0} /\ n <= Len(stream) /\ n <= Asked(in) - in.n_read
  BY Sized DEF Recv
<1>2. /\ Len(got) \in Nat /\ in.n_read \in Nat /\ in.part \in PartName
      /\ Asked(in) \in Nat /\ in.n_read < Asked(in) /\ Asked(in) = SizeOf(Reads)
  BY ReaderInside
<1>3. /\ Len(stream) \in Nat /\ Known \in Nat
      /\ \A k \in 1..Len(stream) : stream[k] \in Byte /\ At(k) = stream[k]
  BY Inside
<1>4. ASSUME NEW k \in 1..n PROVE stream[k] = <<Len(got) + 1, in.part, in.n_read + k>>
  <2>1. 1 \in 1..Known /\ k \in 1..Known /\ k \in 1..Len(stream) /\ 1 <= k
    BY <1>1, <1>3 DEF Known
  <2>2. At(1) = Reads
    BY <1>3, <2>1 DEF JoinInv
  <2>3. Reads[3] + (k - 1) <= SizeOf(Reads) /\ Reads[3] + (k - 1) = in.n_read + k
    BY <1>1, <1>2, SMTT(60) DEF Reads
  <2>4. SizeOf(Reads) <= SizeOf(Reads) + 1
    BY <1>2
  <2>5. Reads[3] + (k - 1) <= SizeOf(Reads) + 1
    BY <1>2, <2>3, <2>4 DEF Reads
  <2>6. At(k) = Shift(Reads, k - 1)
    BY <2>1, <2>2, <2>5 DEF RunInv
  <2> QED BY <1>3, <2>1, <2>3, <2>6 DEF Shift, Reads
<1>5. Len(got) + 1 \in 1..Len(Sizes)
  <2>1. 1 \in 1..n /\ 1 \in 1..Len(stream)
    BY <1>1, <1>3
  <2>2. stream[1] \in Byte /\ stream[1][1] = Len(got) + 1
    BY <1>3, <1>4, <2>1
  <2> QED BY <2>2 DEF Byte
<1>6. /\ stream' \in Seq(Byte) /\ Len(stream') = Len(stream) - n
      /\ \A k \in 1..Len(stream') : stream'[k] = stream[k + n]
  <2>1. stream' = SubSeq(stream, n + 1, Len(stream))
    BY DEF Recv
  <2>2. \A i \in n + 1 .. Len(stream) : stream[i] \in Byte
    BY <1>1, <1>3
  <2>3. n + 1 \in Int /\ Len(stream) \in Int
    BY <1>1, <1>3
  <2>4. /\ stream' \in Seq(Byte)
        /\ Len(stream') = IF n + 1 <= Len(stream) THEN Len(stream) - (n + 1) + 1 ELSE 0
        /\ \A i \in 1 .. Len(stream) - (n + 1) + 1 : stream'[i] = stream[n + 1 + i - 1]
    BY <2>1, <2>2, <2>3, SubSeqProperties
  <2>5. Len(stream') = Len(stream) - n
    BY <1>1, <1>3, <2>4
  <2>6. ASSUME NEW k \in 1..Len(stream') PROVE stream'[k] = stream[k + n]
    <3>1. k \in 1 .. Len(stream) - (n + 1) + 1 /\ n + 1 + k - 1 = k + n
      BY <1>1, <1>3, <2>5
    <3> QED BY <2>4, <3>1
  <2> QED BY <2>4, <2>5, <2>6
<1>7. buf \o SubSeq(stream, 1, n) = Piece(Len(got) + 1, in.part, 0, in.n_read + n)
  <2> DEFINE read == SubSeq(stream, 1, n)
             piece == Piece(Len(got) + 1, in.part, 0, in.n_read + n)
  <2>1. /\ read \in Seq(Byte) /\ Len(read) = n /\ \A i \in 1..n : read[i] = stream[i]
    <3>1. \A i \in 1..n : stream[i] \in Byte
      BY <1>1, <1>3
    <3>2. 1 \in Int /\ n \in Int /\ 1 <= n /\ n - 1 + 1 = n
      BY <1>1
    <3>3. /\ read \in Seq(Byte) /\ Len(read) = IF 1 <= n THEN n - 1 + 1 ELSE 0
          /\ \A i \in 1 .. n - 1 + 1 : read[i] = stream[1 + i - 1]
      BY <3>1, <3>2, SubSeqProperties
    <3>4. ASSUME NEW i \in 1..n PROVE read[i] = stream[i]
      <4>1. 1 + i - 1 = i
        OBVIOUS
      <4> QED BY <3>2, <3>3, <4>1
    <3> QED BY <3>2, <3>3, <3>4
  <2>2. /\ buf \in Seq(Byte) /\ Len(buf) = in.n_read
        /\ \A k \in 1..in.n_read : buf[k] = <<Len(got) + 1, in.part, k>>
    <3>1. buf = Piece(Len(got) + 1, in.part, 0, in.n_read)
      BY DEF InStep
    <3>2. Len(buf) = in.n_read
      BY <1>2, <1>5, <3>1, Pieces
    <3> QED BY <1>2, <3>1, <3>2 DEF TypeOK, Piece
  <2>3. /\ piece \in Seq(Byte) /\ Len(piece) = in.n_read + n
    <3>1. in.n_read + n \in Nat
      BY <1>1, <1>2
    <3> QED BY <1>2, <1>5, <3>1, Pieces
  <2>4. \A k \in 1 .. in.n_read + n : piece[k] = <<Len(got) + 1, in.part, k>>
    BY <1>1, <1>2 DEF Piece
  <2> HIDE DEF read, piece
  <2>5. /\ buf \o read \in Seq(Byte) /\ Len(buf \o read) = in.n_read + n
        /\ \A i \in 1 .. in.n_read + n :
              (buf \o read)[i] = IF i <= in.n_read THEN buf[i] ELSE read[i - in.n_read]
    <3>1. /\ buf \o read \in Seq(Byte) /\ Len(buf \o read) = Len(buf) + Len(read)
          /\ \A i \in 1 .. Len(buf) + Len(read) :
                (buf \o read)[i] = IF i <= Len(buf) THEN buf[i] ELSE read[i - Len(buf)]
      BY <2>1, <2>2, ConcatProperties
    <3> QED BY <2>1, <2>2, <3>1
  <2>6. ASSUME NEW i \in 1 .. in.n_read + n PROVE (buf \o read)[i] = piece[i]
    <3>1. CASE i <= in.n_read
      <4>1. i \in 1..in.n_read
        BY <1>1, <1>2, <3>1
      <4>2. buf[i] = <<Len(got) + 1, in.part, i>>
        BY <2>2, <4>1
      <4>3. piece[i] = <<Len(got) + 1, in.part, i>>
        BY <2>4
      <4>4. (buf \o read)[i] = buf[i]
        BY <2>5, <3>1
      <4> QED BY <4>2, <4>3, <4>4
    <3>2. CASE ~(i <= in.n_read)
      <4>1. i - in.n_read \in 1..n /\ in.n_read + (i - in.n_read) = i
        BY <1>1, <1>2, <3>2
      <4>2. read[i - in.n_read] = <<Len(got) + 1, in.part, in.n_read + (i - in.n_read)>>
        BY <1>4, <2>1, <4>1
      <4> QED BY <2>4, <2>5, <3>2, <4>1, <4>2
    <3> QED BY <3>1, <3>2
  <2>7. buf \o read = piece
    BY <2>3, <2>5, <2>6, SeqEqual
  <2> QED BY <2>7 DEF read, piece
<1>8. in.n_read + n <= Asked(in)
  BY <1>1, <1>2
<1> QED BY <1>1, <1>3, <1>4, <1>5, <1>6, <1>7, <1>8

\* The fixed header tells the sizes of the frame it belongs to.
LEMMA HeaderDecoded ==
    ASSUME NEW i \in 1..Len(Sizes)
    PROVE  Decoded(Piece(i, "fixed", 0, FixedSize)) = {Sizes[i]}
<1>1. ASSUME NEW j \in 1..Len(Sizes),
             Piece(i, "fixed", 0, FixedSize) = Piece(j, "fixed", 0, FixedSize)
      PROVE  j = i
  <2>1. 1 \in 1..FixedSize
    BY Sized
  <2>2. /\ Piece(i, "fixed", 0, FixedSize)[1] = <<i, "fixed", 0 + 1>>
        /\ Piece(j, "fixed", 0, FixedSize)[1] = <<j, "fixed", 0 + 1>>
    BY <2>1 DEF Piece
  <2> QED BY <1>1, <2>2
<1> QED BY <1>1 DEF Decoded

\* The reader goes on to the byte after those it has read, and hands a frame over
\* when it has passed its last part.
LEMMA RecvReader ==
    ASSUME WireInv, NEW n \in 1..Buffer, Recv(n)
    PROVE  /\ Reads' = Shift(Reads, n) /\ ReaderInv' /\ receiver' = receiver
           /\ in' \in [vars : Nat, data : Nat, part : PartName, n_read : Nat]
           /\ got' \in Seq([vars : Nat, data : Nat]) /\ buf' \in Seq(Byte)
           /\ got' = SubSeq(Sizes, 1, Len(got')) /\ Len(got') < out.frame
           /\ buf' = Piece(Len(got') + 1, in'.part, 0, in'.n_read)
<1> USE DEF WireInv
<1> DEFINE i == Len(got) + 1
           total == in.n_read + n
           piece == Piece(i, in.part, 0, total)
           sizes == IF in.part = "fixed" THEN Decoded(piece)
                    ELSE {[vars |-> in.vars, data |-> in.data]}
<1>1. /\ n \in Nat \ {0} /\ n <= Len(stream) /\ total <= Asked(in)
      /\ Len(stream) \in Nat /\ i \in 1..Len(Sizes)
      /\ \A k \in 1..n : stream[k] = <<i, in.part, in.n_read + k>>
      /\ buf \o SubSeq(stream, 1, n) = piece
  BY RecvStream
<1>2. /\ Len(got) \in Nat /\ in.n_read \in Nat /\ in.part \in PartName
      /\ Asked(in) \in Nat /\ in.n_read < Asked(in) /\ Asked(in) = SizeOf(Reads)
  BY ReaderInside
<1>3. piece \in Seq(Byte) /\ total \in Nat
  <2>1. total \in Nat
    BY <1>1, <1>2, SMTT(60)
  <2> QED BY <1>1, <1>2, <2>1, Pieces
<1>4. /\ Reads = <<i, in.part, in.n_read + 1>>
      /\ in \in [vars : Nat, data : Nat, part : PartName, n_read : Nat]
  BY DEF Reads, TypeOK
<1>5. /\ got \in Seq([vars : Nat, data : Nat])
      /\ got = SubSeq(Sizes, 1, Len(got)) /\ Len(got) < out.frame
  BY DEF InStep, TypeOK
<1>6. CASE total < Asked(in)
  <2>1. in' = [in EXCEPT !.n_read = @ + n] /\ buf' = piece /\ got' = got /\ receiver' = receiver
    BY <1>1, <1>6 DEF Recv
  <2>2. /\ in' \in [vars : Nat, data : Nat, part : PartName, n_read : Nat]
        /\ in'.n_read = total /\ in'.part = in.part /\ in'.vars = in.vars /\ in'.data = in.data
    BY <1>3, <1>4, <2>1
  <2>3. Reads' = Shift(Reads, n)
    <3>1. Reads' = <<i, in.part, total + 1>>
      BY <2>1, <2>2 DEF Reads
    <3>2. Reads[3] + n = total + 1 /\ total + 1 <= SizeOf(Reads)
      <4>1. in.n_read + 1 + n = total + 1
        BY <1>1, <1>2
      <4>2. total + 1 <= SizeOf(Reads)
        BY <1>2, <1>3, <1>6
      <4> QED BY <1>4, <4>1, <4>2
    <3> QED BY <1>4, <3>1, <3>2 DEF Shift
  <2>4. ReaderInv'
    <3>1. Asked(in)' = Asked(in)
      BY <2>2 DEF Asked
    <3> QED BY <1>6, <2>1, <2>2, <3>1 DEF ReaderInv
  <2> QED BY <1>3, <1>5, <2>1, <2>2, <2>3, <2>4
<1>7. CASE ~(total < Asked(in))
  <2>1. total = Asked(in)
    BY <1>1, <1>2, <1>3, <1>7, SMTT(60)
  <2>2. sizes = {Sizes[i]}
    <3>1. CASE in.part = "fixed"
      <4>1. total = FixedSize
        BY <2>1, <3>1 DEF Asked
      <4> QED BY <1>1, <3>1, <4>1, HeaderDecoded
    <3>2. CASE in.part # "fixed"
      <4>1. Sizes[i] = [vars |-> in.vars, data |-> in.data]
        BY <1>1, <3>2, Sized DEF ReaderInv
      <4> QED BY <3>2, <4>1
    <3> QED BY <3>1, <3>2
  <2> DEFINE part == Following(in.part, Sizes[i].vars, Sizes[i].data)
             next == After(Reads)
  <2>3. /\ buf' = <<>> /\ receiver' = receiver
        /\ in' = IF part = "fixed" THEN Start
                 ELSE [vars |-> Sizes[i].vars, data |-> Sizes[i].data, part |-> part, n_read |-> 0]
        /\ got' = IF part = "fixed" THEN Append(got, Sizes[i]) ELSE got
    <3>1. buf' = <<>> /\ \E s \in sizes :
               /\ receiver' = receiver
               /\ in' = IF Following(in.part, s.vars, s.data) = "fixed" THEN Start
                        ELSE [vars |-> s.vars, data |-> s.data,
                              part |-> Following(in.part, s.vars, s.data), n_read |-> 0]
               /\ got' = IF Following(in.part, s.vars, s.data) = "fixed" THEN Append(got, s)
                         ELSE got
      BY <1>1, <1>7, <2>2 DEF Recv
    <3> QED BY <2>2, <3>1
  <2>4. /\ next \in Cursor /\ next[3] = 1
        /\ next[1] = i \/ next = <<i + 1, "fixed", 1>>
        /\ next[1] = i => 1 <= PartSize(next[1], next[2]) /\ next[2] # "fixed"
        /\ next[2] = part
    BY <1>1, <1>2, <1>4, AfterPart
  <2>5. Shift(Reads, n) = next
    BY <1>1, <1>2, <1>4, <2>1 DEF Shift
  <2>6. next[1] <= out.frame
    <3>1. stream[n] = <<i, in.part, total>> /\ n \in 1..Len(stream)
      BY <1>1
    <3>2. SizeOf(stream[n]) = SizeOf(Reads) /\ After(stream[n]) = next
      BY <1>4, <3>1 DEF SizeOf, After
    <3>3. stream[n][3] = SizeOf(stream[n])
      BY <1>2, <2>1, <3>1, <3>2
    <3> QED BY <3>1, <3>2, <3>3 DEF WrittenInv
  <2>7. Sizes[i] \in [vars : Nat, data : Nat] /\ Sizes[i].vars \in Nat /\ Sizes[i].data \in Nat
    BY <1>1, Sized
  <2>e. /\ buf' \in Seq(Byte)
        /\ \A m \in Nat : buf' = Piece(m + 1, in'.part, 0, 0)
    <3>1. ASSUME NEW m \in Nat PROVE Piece(m + 1, in'.part, 0, 0) = <<>>
      BY DEF Piece
    <3> QED BY <2>3, <3>1, EmptySeq
  <2>8. CASE part = "fixed"
    <3>1. in' = Start /\ got' = Append(got, Sizes[i]) /\ next = <<i + 1, "fixed", 1>>
      BY <2>3, <2>4, <2>8
    <3>2. got' \in Seq([vars : Nat, data : Nat]) /\ Len(got') = i
      BY <1>5, <2>7, <3>1, AppendProperties
    <3>3. /\ in' \in [vars : Nat, data : Nat, part : PartName, n_read : Nat]
          /\ in'.part = "fixed" /\ in'.n_read = 0
      BY <3>1 DEF Start, PartName
    <3>4. got' = SubSeq(Sizes, 1, i)
      <4>1. SubSeq(Sizes, 1, i) = SubSeq(Sizes, 1, i - 1) \o <<Sizes[i]>>
        <5>1. Sizes \in Seq([vars : Nat, data : Nat]) /\ 1 \in 1..Len(Sizes) /\ i \in 1..Len(Sizes)
          BY <1>1, <1>2, WireAssumption
        <5> QED BY <1>2, <5>1, SubSeqRecursiveSecond
      <4>2. Append(got, Sizes[i]) = got \o <<Sizes[i]>>
        BY <1>5, <2>7, AppendProperties
      <4>3. i - 1 = Len(got)
        BY <1>2
      <4> QED BY <1>5, <3>1, <4>1, <4>2, <4>3
    <3>5. Reads' = next
      BY <3>1, <3>2, <3>3 DEF Reads
    <3>6. ReaderInv'
      BY <3>3, Sized DEF ReaderInv, Asked
    <3>7. Len(got') < out.frame
      BY <1>2, <2>6, <3>1, <3>2 DEF TypeOK
    <3>8. buf' = Piece(Len(got') + 1, in'.part, 0, in'.n_read)
      <4>1. Len(got') \in Nat
        BY <1>2, <3>2
      <4> QED BY <2>e, <3>3, <4>1
    <3> QED BY <2>3, <2>5, <2>e, <3>2, <3>3, <3>4, <3>5, <3>6, <3>7, <3>8
  <2>9. CASE part # "fixed"
    <3>1. /\ in' = [vars |-> Sizes[i].vars, data |-> Sizes[i].data, part |-> part, n_read |-> 0]
          /\ got' = got /\ next = <<i, part, 1>>
      BY <2>3, <2>4, <2>9 DEF Cursor
    <3>2. /\ in' \in [vars : Nat, data : Nat, part : PartName, n_read : Nat]
          /\ in'.part = part /\ in'.n_read = 0
          /\ in'.vars = Sizes[i].vars /\ in'.data = Sizes[i].data
      BY <2>4, <2>7, <3>1 DEF Cursor
    <3>3. Reads' = next
      BY <3>1, <3>2 DEF Reads
    <3>4. ReaderInv'
      <4>1. Asked(in)' = PartSize(i, part) /\ 1 <= PartSize(i, part) /\ PartSize(i, part) \in Nat
        BY <1>1, <2>4, <2>7, <2>9, <3>1, <3>2, Sized DEF Asked, PartSize, Cursor
      <4> QED BY <1>1, <3>1, <3>2, <4>1 DEF ReaderInv
    <3>5. buf' = Piece(Len(got') + 1, in'.part, 0, in'.n_read)
      BY <1>2, <2>e, <3>1, <3>2
    <3> QED BY <1>5, <2>3, <2>5, <2>e, <3>1, <3>2, <3>3, <3>4, <3>5
  <2> QED BY <2>8, <2>9
<1> QED BY <1>6, <1>7

\* However many bytes a call of recv returns, the reader stays at the first byte
\* of the stream.
LEMMA RecvStep ==
    ASSUME WireInv, NEW n \in 1..Buffer, Recv(n)
    PROVE  WireInv'
<1> USE DEF WireInv
<1>1. /\ n \in Nat \ {0} /\ n <= Len(stream) /\ in.n_read + n <= Asked(in)
      /\ stream' \in Seq(Byte) /\ Len(stream') = Len(stream) - n
      /\ \A k \in 1..Len(stream') : stream'[k] = stream[k + n]
  BY RecvStream
<1>2. /\ Reads' = Shift(Reads, n) /\ ReaderInv' /\ receiver' = receiver
      /\ in' \in [vars : Nat, data : Nat, part : PartName, n_read : Nat]
      /\ got' \in Seq([vars : Nat, data : Nat]) /\ buf' \in Seq(Byte)
      /\ got' = SubSeq(Sizes, 1, Len(got')) /\ Len(got') < out.frame
      /\ buf' = Piece(Len(got') + 1, in'.part, 0, in'.n_read)
  BY RecvReader
<1>3. UNCHANGED <<out, closed, sender>>
  BY DEF Recv
<1>4. Len(stream) \in Nat /\ Known \in Nat
      /\ \A k \in 1..Known : At(k) \in Cursor /\ SizeOf(At(k)) \in Nat
  BY Inside
<1>5. TypeOK' /\ InStep' /\ WriterInv'
  BY <1>1, <1>2, <1>3 DEF TypeOK, InStep, WriterInv
<1>6. WrittenInv'
  <2>1. ASSUME NEW k \in 1..Len(stream')
        PROVE  stream'[k] = stream[k + n] /\ k + n \in 1..Len(stream)
    BY <1>1, <1>4
  <2> QED BY <1>3, <2>1 DEF WrittenInv
<1>7. Known' = Known - n
  BY <1>1, <1>3, <1>4 DEF Known
<1>8. ASSUME NEW k \in 1..Known' PROVE At(k)' = At(k + n) /\ k + n \in 1..Known
  <2>1. k + n \in 1..Known /\ k \in Nat \ {0}
    BY <1>1, <1>4, <1>7
  <2>2. CASE k <= Len(stream')
    <3>1. k \in 1..Len(stream') /\ k + n <= Len(stream)
      BY <1>1, <1>4, <2>1, <2>2
    <3> QED BY <1>1, <2>1, <2>2, <3>1 DEF At
  <2>3. CASE ~(k <= Len(stream'))
    <3>1. ~(k + n <= Len(stream))
      BY <1>1, <1>4, <2>1, <2>3
    <3>2. Writes' = Writes
      BY <1>3 DEF Writes
    <3> QED BY <2>1, <2>3, <3>1, <3>2 DEF At
  <2> QED BY <2>2, <2>3
<1>9. RunInv'
  <2>1. ASSUME NEW j \in 1..Known', NEW k \in 1..Known', j <= k,
               At(j)'[3] + (k - j) <= SizeOf(At(j)') + 1
        PROVE  At(k)' = Shift(At(j)', k - j)
    <3>1. j + n <= k + n /\ (k + n) - (j + n) = k - j
      BY <1>1, <1>4, <1>7, <2>1
    <3>2. /\ At(j)' = At(j + n) /\ j + n \in 1..Known
          /\ At(k)' = At(k + n) /\ k + n \in 1..Known
      BY <1>8
    <3>3. At(j + n)[3] + ((k + n) - (j + n)) <= SizeOf(At(j + n)) + 1
      BY <2>1, <3>1, <3>2
    <3>4. At(k + n) = Shift(At(j + n), (k + n) - (j + n))
      BY <3>1, <3>2, <3>3 DEF RunInv
    <3> QED BY <3>1, <3>2, <3>4
  <2> QED BY <2>1 DEF RunInv, Shift, SizeOf, PartSize, After, Following
<1>10. JoinInv'
  <2>1. ASSUME 1 <= Known' PROVE At(1)' = Reads'
    <3>1. 1 \in 1..Known' /\ 1 \in 1..Known /\ 1 + n \in 1..Known /\ 1 <= Known /\ 1 <= 1 + n
          /\ (1 + n) - 1 = n
      BY <1>1, <1>4, <1>7, <2>1
    <3>2. At(1)' = At(1 + n) /\ At(1) = Reads
      BY <1>8, <3>1 DEF JoinInv
    <3>3. Reads[3] + n <= SizeOf(Reads) + 1
      <4>1. in.n_read \in Nat /\ Asked(in) = SizeOf(Reads) /\ Asked(in) \in Nat
        BY ReaderInside
      <4> QED BY <1>1, <4>1 DEF Reads
    <3>4. At(1 + n) = Shift(At(1), n)
      BY <3>1, <3>2, <3>3 DEF RunInv
    <3> QED BY <1>2, <3>2, <3>4
  <2> QED BY <2>1 DEF JoinInv
<1> QED BY <1>2, <1>5, <1>6, <1>9, <1>10

\* A connection that closes loses bytes at the end of the stream only.
LEMMA CloseStep ==
    ASSUME WireInv, Close
    PROVE  WireInv'
<1> USE DEF WireInv
<1>1. PICK n \in 0..Len(stream) : stream' = SubSeq(stream, 1, n)
  BY DEF Close
<1>2. closed' = TRUE /\ ~closed /\ UNCHANGED <<out, in, buf, got, sender, receiver>>
  BY DEF Close
<1>3. Len(stream) \in Nat /\ Known \in Nat
      /\ \A k \in 1..Len(stream) : stream[k] \in Byte /\ At(k) = stream[k]
  BY Inside
<1>4. stream' \in Seq(Byte) /\ Len(stream') = n /\ \A k \in 1..n : stream'[k] = stream[k]
  <2>1. n \in Int /\ 1 \in Int /\ \A i \in 1..n : stream[i] \in Byte
    BY <1>3
  <2>2. /\ stream' \in Seq(Byte) /\ Len(stream') = IF 1 <= n THEN n - 1 + 1 ELSE 0
        /\ \A i \in 1 .. n - 1 + 1 : stream'[i] = stream[1 + i - 1]
    BY <1>1, <2>1, SubSeqProperties
  <2>3. ASSUME NEW k \in 1..n PROVE stream'[k] = stream[k]
    <3>1. k \in 1 .. n - 1 + 1 /\ 1 + k - 1 = k
      BY <1>3
    <3> QED BY <2>2, <3>1
  <2> QED BY <1>3, <2>2, <2>3
<1>5. Known' = n /\ Known = Len(stream) + 1
  BY <1>2, <1>4 DEF Known
<1>6. ASSUME NEW k \in 1..n PROVE At(k)' = At(k) /\ k \in 1..Known /\ k \in 1..Len(stream)
  BY <1>3, <1>4, <1>5 DEF At
<1>7. TypeOK' /\ InStep' /\ WriterInv' /\ ReaderInv'
  BY <1>2, <1>4 DEF TypeOK, InStep, WriterInv, ReaderInv, Asked
<1>8. WrittenInv'
  BY <1>2, <1>4, <1>6 DEF WrittenInv
<1>9. RunInv'
  BY <1>5, <1>6 DEF RunInv
<1>10. JoinInv'
  <2>1. Reads' = Reads
    BY <1>2 DEF Reads
  <2>2. ASSUME 1 <= n PROVE At(1)' = Reads
    <3>1. 1 \in 1..n /\ 1 <= Known
      BY <1>3, <1>5, <2>2
    <3> QED BY <1>6, <3>1 DEF JoinInv
  <2> QED BY <1>5, <2>1, <2>2 DEF JoinInv
<1> QED BY <1>7, <1>8, <1>9, <1>10

\* A step that leaves the stream and both ends' places alone.
LEMMA OtherStep ==
    ASSUME WireInv, UNCHANGED <<out, stream, closed, in, buf, got>>,
           sender' \in Status, receiver' \in Status, receiver' # "garbled"
    PROVE  WireInv'
<1> USE DEF WireInv
<1>1. TypeOK' /\ InStep'
  BY DEF TypeOK, InStep
<1>2. WriterInv' /\ ReaderInv' /\ WrittenInv'
  BY DEF WriterInv, ReaderInv, Asked, WrittenInv
<1>3. Known' = Known /\ Reads' = Reads /\ \A k : At(k)' = At(k)
  BY DEF Known, Reads, At, Writes
<1>4. RunInv' /\ JoinInv'
  BY <1>3 DEF RunInv, JoinInv
<1> QED BY <1>1, <1>2, <1>4

\* Nothing is in the stream at first.
LEMMA InitWire == Init => WireInv
<1> SUFFICES ASSUME Init PROVE WireInv
  OBVIOUS
<1>1. Len(stream) = 0 /\ Len(got) = 0
  BY DEF Init
<1>2. TypeOK
  <2>1. stream \in Seq(Byte) /\ buf \in Seq(Byte) /\ got \in Seq([vars : Nat, data : Nat])
    BY EmptySeq DEF Init
  <2>2. [frame |-> 1, part |-> "fixed", n_write |-> 0]
            \in [frame : 1 .. Len(Sizes) + 1, part : PartName, n_write : Nat]
    BY Sized DEF PartName
  <2>3. Start \in [vars : Nat, data : Nat, part : PartName, n_read : Nat]
    BY DEF Start, PartName
  <2> QED BY <2>1, <2>2, <2>3 DEF Init, TypeOK, Status
<1>3. WriterInv /\ ReaderInv
  BY <1>1, Sized DEF Init, WriterInv, ReaderInv, Start, Asked
<1>4. WrittenInv
  BY <1>1 DEF WrittenInv
<1>5. Known = 1 /\ At(1) = <<1, "fixed", 1>> /\ Reads = <<1, "fixed", 1>>
  BY <1>1 DEF Init, Known, At, Writes, Reads, Start
<1>6. RunInv
  <2>1. <<1, "fixed", 1>> \in Cursor /\ SizeOf(<<1, "fixed", 1>>) = FixedSize
    BY Sized DEF Cursor, PartName, SizeOf
  <2>2. Shift(<<1, "fixed", 1>>, 0) = <<1, "fixed", 1>>
    BY <2>1, Sized DEF Shift
  <2>3. ASSUME NEW j \in 1..Known, NEW k \in 1..Known
        PROVE  j = 1 /\ k = 1 /\ k - j = 0
    BY <1>5
  <2> QED BY <1>5, <2>2, <2>3 DEF RunInv
<1>7. JoinInv
  BY <1>5 DEF JoinInv
<1>8. InStep
  <2>1. SubSeq(Sizes, 1, 0) = <<>>
    BY SubSeqEmpty
  <2>2. Piece(1, "fixed", 0, 0) = <<>>
    BY DEF Piece
  <2> QED BY <1>1, <2>1, <2>2 DEF Init, InStep, Start
<1> QED BY <1>2, <1>3, <1>4, <1>6, <1>7, <1>8 DEF WireInv

\* No step gets the two ends out of step.
LEMMA NextWire == WireInv /\ [Next]_vars => WireInv'
<1> SUFFICES ASSUME WireInv, [Next]_vars PROVE WireInv'
  OBVIOUS
<1>0. sender \in Status /\ receiver \in Status /\ receiver # "garbled"
  BY DEF WireInv, TypeOK, InStep
<1>1. ASSUME NEW n \in 1..Buffer, Send(n) PROVE WireInv'
  BY <1>1, SendStep
<1>2. ASSUME NEW n \in 1..Buffer, Recv(n) PROVE WireInv'
  BY <1>2, RecvStep
<1>3. CASE SendError
  BY <1>0, <1>3, OtherStep DEF SendError, Status
<1>4. CASE RecvClosed
  BY <1>0, <1>4, OtherStep DEF RecvClosed, Status
<1>5. CASE Close
  BY <1>5, CloseStep
<1>6. CASE UNCHANGED vars
  BY <1>0, <1>6, OtherStep DEF vars
<1> QED BY <1>1, <1>2, <1>3, <1>4, <1>5, <1>6 DEF Next

\* The two ends of a connection are in step as WireInv says, always.
LEMMA WireInductive == Spec => []WireInv
  BY InitWire, NextWire, PTL DEF Spec

-----------------------------------------------------------------------------
\* Every variable of the two ends keeps its type.
THEOREM WireTypeCorrect == Spec => []TypeOK
<1>1. WireInv => TypeOK
  BY DEF WireInv
<1> QED BY <1>1, WireInductive, PTL

\* net__read and net__write may be cut anywhere by the system calls, and the
\* connection may close anywhere: frame__recv returns the frames that frame__send
\* was given, in order and whole, and nothing else.
THEOREM AlwaysInStep == Spec => []InStep
<1>1. WireInv => InStep
  BY DEF WireInv
<1> QED BY <1>1, WireInductive, PTL
=============================================================================
