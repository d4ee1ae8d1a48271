---------------------------- MODULE MCByteBuffer ----------------------------
EXTENDS ByteBuffer
\* Two chunks that differ and one of digits that never ends.
MCChunks  == {<<1>>, <<2, 1>>, <<3, 3, 3>>}
\* One, two and three digits that are not the same backwards.
MCVarInts == {0, 2, 6}
\* The longest fits the length check and not the buffer.
MCStrings == {<<>>, <<1>>, <<1, 0>>}
=============================================================================
