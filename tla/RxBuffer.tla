------------------------------ MODULE RxBuffer ------------------------------
(***************************************************************************)
(* The growable byte buffer of rmqsBuffer.c, used for RxQueue and TxQueue. *)
(*                                                                         *)
(* A buffer is one record with the fields of rmqsBuffer_t.  Data is a      *)
(* sequence that holds the Size valid bytes; the allocated memory beyond   *)
(* them is only a number, CurrentMemorySize.  A byte may be any value: the *)
(* users of this module choose what identifies a byte.                     *)
(***************************************************************************)
EXTENDS Integers, Sequences

CONSTANT ChunkSize      \* rmqsBufferCreate sets it to 1024000

ASSUME ChunkSizeAssumption == ChunkSize \in Nat \ {0}

Larger(a, b) == IF a > b THEN a ELSE b

\* The buffers whose bytes are in Byte.
Buffer(Byte) ==
    [Data : Seq(Byte), Size : Nat, Position : Nat, CurrentMemorySize : Nat,
     Tag1 : BOOLEAN, Tag2 : Nat]

\* Tag1 and Tag2 are the marks rmqsWaitMessage leaves: a complete message is at
\* the front of the buffer, and its length.
EmptyBuffer ==
    [Data |-> << >>, Size |-> 0, Position |-> 0, CurrentMemorySize |-> 0,
     Tag1 |-> FALSE, Tag2 |-> 0]

\* rmqsBufferSetMemorySize, for a required size that is not zero: memory grows
\* to a whole number of chunks and never shrinks.  (Allocation is taken to
\* succeed: the code does not look at the result.)
ChunksForRoundedDown(n) == (n \div ChunkSize) * ChunkSize      \* mutant

ChunksFor(n) == (((n - 1) \div ChunkSize) + 1) * ChunkSize

MemoryFor(B, n) == Larger(B.CurrentMemorySize, ChunksFor(n))

\* rmqsBufferWrite: overwrite or extend from Position on, and advance Position.
BufferWrite(B, W) ==
    LET last == B.Position + Len(W)
        size == Larger(B.Size, last)
    IN  IF Len(W) = 0 THEN B
        ELSE [Data |-> [i \in 1..size |-> IF i > B.Position /\ i <= last
                                          THEN W[i - B.Position] ELSE B.Data[i]],
              Size |-> size, Position |-> last,
              CurrentMemorySize |-> MemoryFor(B, last),
              Tag1 |-> B.Tag1, Tag2 |-> B.Tag2]

\* mutant: one byte too many is dropped
BufferDeleteOffByOne(B, n) ==
    LET gone == (IF n > B.Size THEN B.Size ELSE n) + 1
    IN  [Data |-> [i \in 1..(B.Size - gone) |-> B.Data[i + gone]],
         Size |-> B.Size - gone,
         Position |-> IF B.Position >= gone THEN B.Position - gone ELSE 0,
         CurrentMemorySize |-> B.CurrentMemorySize,
         Tag1 |-> B.Tag1, Tag2 |-> B.Tag2]

\* rmqsBufferDelete: drop the first n bytes (all of them when there are fewer).
BufferDelete(B, n) ==
    LET gone == IF n > B.Size THEN B.Size ELSE n
    IN  [Data |-> [i \in 1..(B.Size - gone) |-> B.Data[i + gone]],
         Size |-> B.Size - gone,
         Position |-> IF B.Position >= gone THEN B.Position - gone ELSE 0,
         CurrentMemorySize |-> B.CurrentMemorySize,
         Tag1 |-> B.Tag1, Tag2 |-> B.Tag2]

\* The marks of rmqsWaitMessage: a complete message of n bytes is at the front.
Marked(B, tag1, tag2) ==
    [Data |-> B.Data, Size |-> B.Size, Position |-> B.Position,
     CurrentMemorySize |-> B.CurrentMemorySize, Tag1 |-> tag1, Tag2 |-> tag2]

\* rmqsBufferMoveTo: move the cursor, at most to the end.
BufferMoveTo(B, p) == [B EXCEPT !.Position = IF p >= B.Size THEN B.Size ELSE p]

\* rmqsBufferClear(Buffer, false): forget the bytes and keep the memory.
BufferClear(B) == [B EXCEPT !.Data = << >>, !.Size = 0, !.Position = 0]
=============================================================================
