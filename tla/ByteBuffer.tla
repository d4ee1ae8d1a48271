----------------------------- MODULE ByteBuffer -----------------------------
(***************************************************************************)
(* cByteBuffer (Client/ByteBuffer.cpp): the ring buffer behind the         *)
(* signalling client's received data and outgoing packets.  One thread     *)
(* uses a buffer, so a call is one action.  The bytes are those of an      *)
(* alphabet of 2 * B values, where B is 0x80 in the code: a byte below B   *)
(* ends a VarInt.  io keeps the last call: its kind, whether it returned   *)
(* true, the integers given or returned and the bytes put in or taken out. *)
(***************************************************************************)
EXTENDS Integers, Sequences, SequencesExt

CONSTANTS
  Size,       \* m_BufferSize, one more than the capacity asked for
  B,          \* 0x80, the continuation bit of a VarInt
  ShortBytes, \* bytes of a UInt16: 2 in the code
  IntBytes,   \* bytes of a UInt32: 4 in the code
  LongBytes,  \* bytes of a UInt64: 8 in the code
  Chunks,     \* the byte sequences callers write
  VarInts,    \* the integers callers write as VarInt
  Strings     \* the strings callers write

Radix == 2 * B
Byte  == 0..Radix - 1
\* b to the power of n.
Power(b, n) == LET p[k \in Nat] == IF k = 0 THEN 1 ELSE b * p[k - 1] IN p[n]
Width(n) == Power(Radix, n)

ASSUME ByteBufferAssumption ==
  /\ Size \in Nat \ {0}
  /\ B \in Nat /\ B > 1
  /\ {ShortBytes, IntBytes, LongBytes} \subseteq Nat \ {0}
  /\ Chunks \subseteq Seq(Byte)
  /\ VarInts \subseteq 0..Width(LongBytes) - 1
  /\ Strings \subseteq Seq(Byte)

VARIABLES
  buf,   \* m_Buffer
  start, \* m_DataStart
  write, \* m_WritePos
  read,  \* m_ReadPos
  io     \* the last call, as its caller sees it
vars == <<buf, start, write, read, io>>

Positions == 0..Size - 1

\* new char[] leaves the bytes as they are found.
Init ==
  /\ buf \in [Positions -> Byte]
  /\ start = 0
  /\ write = 0
  /\ read = 0
  /\ io = [op |-> "new", ok |-> TRUE, val |-> <<>>, bytes |-> <<>>]

Returns(op, ok, val, bytes) ==
  io' = [op |-> op, ok |-> ok, val |-> val, bytes |-> bytes]

-----------------------------------------------------------------------------
GetFreeSpace ==
  IF write >= start THEN Size - write + start - 1 ELSE start - write - 1

GetReadableSpace ==
  IF read > write THEN Size - read + write ELSE write - read

CanReadBytes(n)  == n <= GetReadableSpace
CanWriteBytes(n) == n <= GetFreeSpace

TillEnd(pos) == Size - pos

\* Where a copy of n bytes that begins at pos leaves the position.
Advance(pos, n) == IF TillEnd(pos) <= n THEN n - TillEnd(pos) ELSE pos + n

\* The bytes s copied to pos, the part that does not fit to the front.
CopyIn(pos, s) ==
  [i \in Positions |->
     IF i >= pos /\ i < pos + Len(s) THEN s[i - pos + 1]
     ELSE IF i < Len(s) - TillEnd(pos) THEN s[TillEnd(pos) + i + 1]
     ELSE buf[i]]

\* The n bytes from pos, the part beyond the end from the front.
CopyOut(pos, n) ==
  [k \in 1..n |-> IF k <= TillEnd(pos) THEN buf[pos + k - 1]
                  ELSE buf[k - TillEnd(pos) - 1]]

\* Write and WriteBuf with the integers val that the bytes s stand for.
Put(s, val) ==
  /\ IF CanWriteBytes(Len(s))
     THEN buf' = CopyIn(write, s) /\ write' = Advance(write, Len(s))
     ELSE UNCHANGED <<buf, write>>
  /\ Returns("write", CanWriteBytes(Len(s)), val, s)
  /\ UNCHANGED <<start, read>>

Write(s) == Put(s, <<>>)

\* htons, HostToNetwork4 and HostToNetwork8: the n bytes of v, highest first.
BigEndian(v, n) == [i \in 1..n |-> (v \div Width(n - i)) % Radix]
FromBigEndian(s) == FoldLeft(LAMBDA v, b : v * Radix + b, 0, s)

\* WriteBEInt8 ... WriteBEDouble, WriteBool and WritePosition64, as bit patterns.
WriteBE(v, n) == Put(BigEndian(v, n), <<>>)

\* WriteLEInt32
WriteLE(v) == Put(Reverse(BigEndian(v, IntBytes)), <<>>)

\* The loop of WriteVarInt32 and WriteVarInt64: digits in base B, lowest first,
\* all but the last one with the continuation bit.
Encode[v \in Nat] ==
  IF v < B THEN <<v>> ELSE <<(v % B) + B>> \o Encode[v \div B]

WriteVarInt(v) == Put(Encode[v], <<v>>)

\* The length check is a lower bound: the prefix may be written and the body not.
WriteVarUTF8String(s) ==
  LET prefix == Encode[Len(s) % Width(IntBytes)]
      fits(t) == CanWriteBytes(Len(t))
      put(t)  == buf' = CopyIn(write, t) /\ write' = Advance(write, Len(t))
  IN /\ \/ /\ fits(prefix \o s)
           /\ put(prefix \o s)
        \/ /\ ~fits(prefix \o s) /\ CanWriteBytes(Len(s) + 1) /\ fits(prefix)
           /\ put(prefix)
        \/ /\ ~(CanWriteBytes(Len(s) + 1) /\ fits(prefix))
           /\ UNCHANGED <<buf, write>>
     /\ Returns("string", fits(prefix \o s), <<>>, prefix \o s)
     /\ UNCHANGED <<start, read>>

-----------------------------------------------------------------------------
\* ReadBuf and ReadString; ReadAll asks for what is readable.
ReadBuf(n) ==
  /\ read' = IF CanReadBytes(n) THEN Advance(read, n) ELSE read
  /\ Returns("fixed", CanReadBytes(n), <<>>,
             IF CanReadBytes(n) THEN CopyOut(read, n) ELSE <<>>)
  /\ UNCHANGED <<buf, start, write>>

\* ReadBEInt8 ... ReadBEDouble, ReadBool and ReadPosition64, as bit patterns.
ReadBE(n) ==
  /\ CanReadBytes(n)
  /\ read' = Advance(read, n)
  /\ Returns("fixed", TRUE, <<FromBigEndian(CopyOut(read, n))>>, CopyOut(read, n))
  /\ UNCHANGED <<buf, start, write>>

ReadLE ==
  /\ CanReadBytes(IntBytes)
  /\ read' = Advance(read, IntBytes)
  /\ LET s == CopyOut(read, IntBytes)
     IN Returns("fixed", TRUE, <<FromBigEndian(Reverse(s))>>, s)
  /\ UNCHANGED <<buf, start, write>>

\* The refusal of ReadBE and ReadLE.
ReadRefused(n) ==
  /\ ~CanReadBytes(n)
  /\ Returns("fixed", FALSE, <<>>, <<>>)
  /\ UNCHANGED <<buf, start, write, read>>

\* Length of the VarInt at the cursor, 0 when the data ends before it does.
VarLen == SelectInSeq(CopyOut(read, GetReadableSpace), LAMBDA b : b < B)

\* Faulty: the digits are put together highest first.
VarValues_HighFirst(s, width) ==
  {FoldLeft(LAMBDA v, b : v * B + (b % B), 0, s) % width}

\* What the digits s are read as in an integer of the given width.  A shift by the
\* width or more is undefined in C: any value may come out.
VarValues(s, width) ==
  IF Power(B, Len(s) - 1) < width
  THEN {FoldRight(LAMBDA b, v : v * B + (b % B), s, 0) % width}
  ELSE 0..width - 1

\* ReadVarInt32, ReadVarInt64 and the template that casts the latter's value.
ReadVarInt(width, target) ==
  /\ VarLen > 0
  /\ read' = Advance(read, VarLen)
  /\ LET s == CopyOut(read, VarLen)
     IN \E v \in VarValues(s, width) : Returns("var", TRUE, <<v % target>>, s)
  /\ UNCHANGED <<buf, start, write>>

\* A VarInt, alone or before a string, whose last digit has not come: the digits
\* that are there have been read.
ReadVarIntCut ==
  /\ VarLen = 0
  /\ read' = write
  /\ Returns("var", FALSE, <<>>, <<>>)
  /\ UNCHANGED <<buf, start, write>>

\* A string of n bytes after a length prefix of k bytes.
ReadPrefixed(k, n) ==
  /\ IF n <= GetReadableSpace - k
     THEN /\ read' = Advance(Advance(read, k), n)
          /\ Returns("var", TRUE, <<>>, CopyOut(read, k + n))
     ELSE /\ read' = Advance(read, k)
          /\ Returns("var", FALSE, <<>>, <<>>)
  /\ UNCHANGED <<buf, start, write>>

ReadVarUTF8String ==
  /\ VarLen > 0
  /\ \E v \in VarValues(CopyOut(read, VarLen), Width(LongBytes)) :
       ReadPrefixed(VarLen, v % Width(IntBytes))

ReadBEUTF16String16 ==
  /\ CanReadBytes(ShortBytes)
  /\ ReadPrefixed(ShortBytes, 2 * FromBigEndian(CopyOut(read, ShortBytes)))

AdvanceReadPos(n) == IF read + n >= Size THEN read + n - Size ELSE read + n

SkipRead(n) ==
  /\ read' = IF CanReadBytes(n) THEN AdvanceReadPos(n) ELSE read
  /\ Returns("fixed", CanReadBytes(n), <<>>,
             IF CanReadBytes(n) THEN CopyOut(read, n) ELSE <<>>)
  /\ UNCHANGED <<buf, start, write>>

\* ReadToByteBuffer into a buffer with the given room: all n bytes or none.
\* The copy goes through 1024 bytes at a time, which nobody can tell apart.
ReadToByteBuffer(n, room) ==
  /\ LET ok == n <= room /\ CanReadBytes(n)
     IN /\ read' = IF ok THEN Advance(read, n) ELSE read
        /\ Returns("fixed", ok, <<>>, IF ok THEN CopyOut(read, n) ELSE <<>>)
  /\ UNCHANGED <<buf, start, write>>

-----------------------------------------------------------------------------
CommitRead ==
  /\ start' = read
  /\ Returns("commit", TRUE, <<>>, <<>>)
  /\ UNCHANGED <<buf, write, read>>

ResetRead ==
  /\ read' = start
  /\ Returns("reset", TRUE, <<>>, <<>>)
  /\ UNCHANGED <<buf, start, write>>

\* Faulty: data that wraps around the end is not told from data that does not.
Uncommitted_NoWrap == [k \in 1..read - start |-> buf[start + k - 1]]

\* The data from m_DataStart to m_ReadPos.
Uncommitted ==
  IF read < start
  THEN [k \in 1..Size - start |-> buf[start + k - 1]]
         \o [k \in 1..read |-> buf[k - 1]]
  ELSE [k \in 1..read - start |-> buf[start + k - 1]]

ReadAgain ==
  /\ Returns("again", TRUE, <<>>, Uncommitted)
  /\ UNCHANGED <<buf, start, write, read>>

\* memset's arguments are in the wrong order, so that it sets no byte.
ClearAll ==
  /\ start' = 0
  /\ write' = 0
  /\ read' = 0
  /\ Returns("clear", TRUE, <<>>, <<>>)
  /\ UNCHANGED buf

Counts == 0..Size
Widths == {1, ShortBytes, IntBytes, LongBytes}

Next == \/ \E s \in Chunks : Write(s)
        \/ \E n \in Widths : \E v \in VarInts : WriteBE(v, n)
        \/ \E v \in VarInts : WriteLE(v) \/ WriteVarInt(v)
        \/ \E s \in Strings : WriteVarUTF8String(s)
        \/ \E n \in Counts : ReadBuf(n) \/ SkipRead(n)
        \/ \E n \in Counts : \E room \in {0, Size} : ReadToByteBuffer(n, room)
        \/ \E n \in Widths : ReadBE(n) \/ ReadRefused(n)
        \/ ReadLE
        \/ \E target \in {Width(IntBytes), Width(LongBytes)} :
             ReadVarInt(Width(LongBytes), target)
        \/ ReadVarInt(Width(IntBytes), Width(IntBytes))
        \/ ReadVarIntCut
        \/ ReadVarUTF8String
        \/ ReadBEUTF16String16
        \/ CommitRead \/ ResetRead \/ ReadAgain \/ ClearAll

Spec == Init /\ [][Next]_vars

-----------------------------------------------------------------------------
Distance(a, b) == (b + Size - a) % Size

\* The positions are inside the buffer (the ASSERTs of CheckValid) and what is
\* handed over are bytes and integers; the read position is between the start of the
\* data and the write position, around the end of the buffer too.
TypeOK ==
  /\ buf \in [Positions -> Byte]
  /\ start \in Positions
  /\ write \in Positions
  /\ read \in Positions
  /\ io.op \in {"new", "write", "string", "fixed", "var", "again", "commit",
                "reset", "clear"}
  /\ io.ok \in BOOLEAN
  /\ io.val \in Seq(Nat)
  /\ io.bytes \in Seq(Byte)
  /\ Distance(start, read) <= Distance(start, write)

\* An integer written as a VarInt, of either width, is read back as the same integer
\* by ReadVarLong, wherever in the ring its digits lie.  (The types are a part of it.)
WrittenIntsDecode ==
  /\ TypeOK
  /\ (io.op = "write" /\ io.ok /\ io.val # <<>>) =>
       \E k \in 1..GetReadableSpace :
         LET s == CopyOut((write + Size - k) % Size, k)
         IN /\ SelectInSeq(s, LAMBDA b : b < B) = k
            /\ VarValues(s, Width(LongBytes)) = {io.val[1]}

Segment(a, b) == [k \in 1..Distance(a, b) |-> buf[(a + k - 1) % Size]]

\* The ring buffer is a bounded queue of bytes with a cursor that can be rolled
\* back: no call loses, reorders or overwrites a byte that was written and not
\* committed, and a refused write or fixed-size read changes nothing.
Fifo == INSTANCE ByteFifo WITH Capacity <- Size - 1,
                               taken <- Segment(start, read),
                               rest <- Segment(read, write)
ImplementsByteFifo == Fifo!Spec
=============================================================================
