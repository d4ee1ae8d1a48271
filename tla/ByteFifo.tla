------------------------------ MODULE ByteFifo ------------------------------
(***************************************************************************)
(* What cByteBuffer promises its callers: a bounded first-in first-out     *)
(* sequence of bytes with a read cursor that can be rolled back to the     *)
(* last commit.  io is the last call as its caller sees it.                *)
(***************************************************************************)
EXTENDS Integers, Sequences, SequencesExt

CONSTANT Capacity \* the a_BufferSize of the constructor

VARIABLES
  taken, \* bytes read since the last commit
  rest,  \* bytes written and not read
  io     \* [op, ok, val, bytes] of the last call
vars == <<taken, rest, io>>

Init == taken = <<>> /\ rest = <<>> /\ io.op = "new"

Fits(s) == Len(taken) + Len(rest) + Len(s) <= Capacity

\* A write appends all its bytes, or reports that they do not fit and does nothing.
Write ==
  /\ io'.op = "write"
  /\ taken' = taken
  /\ io'.ok = Fits(io'.bytes)
  /\ rest' = IF io'.ok THEN rest \o io'.bytes ELSE rest

\* A string that does not fit may leave a proper prefix of its encoding behind.
WriteString ==
  /\ io'.op = "string"
  /\ taken' = taken
  /\ io'.ok = Fits(io'.bytes)
  /\ IF io'.ok THEN rest' = rest \o io'.bytes
     ELSE \E k \in 0..Len(io'.bytes) - 1 : rest' = rest \o SubSeq(io'.bytes, 1, k)

\* A read takes its bytes from the front.
Take ==
  /\ io'.op \in {"fixed", "var"}
  /\ io'.ok
  /\ rest = io'.bytes \o rest'
  /\ taken' = taken \o io'.bytes

\* A read of a fixed number of bytes that fails does nothing.
TakeNothing ==
  /\ io'.op = "fixed"
  /\ ~io'.ok
  /\ UNCHANGED <<taken, rest>>

\* A read of a prefixed value that fails may have moved the cursor, and only that.
TakePart ==
  /\ io'.op = "var"
  /\ ~io'.ok
  /\ taken' \o rest' = taken \o rest
  /\ IsPrefix(taken, taken')

ReadAgain ==
  /\ io'.op = "again"
  /\ io'.bytes = taken
  /\ UNCHANGED <<taken, rest>>

Commit == io'.op = "commit" /\ taken' = <<>> /\ rest' = rest
Reset  == io'.op = "reset" /\ taken' = <<>> /\ rest' = taken \o rest
Clear  == io'.op = "clear" /\ taken' = <<>> /\ rest' = <<>>

Next == Write \/ WriteString \/ Take \/ TakeNothing \/ TakePart \/ ReadAgain
          \/ Commit \/ Reset \/ Clear

Spec == Init /\ [][Next]_vars
=============================================================================
