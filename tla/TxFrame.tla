------------------------------ MODULE TxFrame ------------------------------
(***************************************************************************)
(* How rmqsPublish builds a frame in TxQueue, field by field, with the     *)
(* size patched in at the end, and how its messages are found again: by    *)
(* the broker, which follows the stream protocol, and by the consumer that *)
(* calls rmqsCheckAQMP1_0Message.  TxQueue is used for all the frames of a *)
(* client one after the other, long and short.                             *)
(***************************************************************************)
EXTENDS RxBuffer, SequencesExt

CONSTANTS
    Short,          \* the longest message with a header of one size byte: 255
    MessageSize,    \* the sizes of the messages published
    MaxBatch,       \* the messages of a call of rmqsPublish
    MaxFrames       \* bound on the frames published

ASSUME TxAssumption ==
    /\ Short \in Nat /\ MessageSize \subseteq Nat /\ MaxBatch \in Nat
    /\ MaxFrames \in Nat

VARIABLES
    IsLittleEndianMachine,  \* of rmqsClientConfiguration_t
    TxQueue,                \* of rmqsClient_t
    frame,                  \* what rmqsSendMessage got last
    batch,                  \* history: the messages it was built from
    frames                  \* the frames sent (bounded by MaxFrames)

vars == <<IsLittleEndianMachine, TxQueue, frame, batch, frames>>

\* Byte k of a number of several bytes, 0 for the most significant; and a byte of
\* the text of message id.
NumberByte(v, w, k) == [of |-> v, width |-> w, k |-> k]
TextByte(id, k) == [of |-> id, width |-> 0, k |-> k]

BigEndian(v, w) == [k \in 1..w |-> NumberByte(v, w, k - 1)]

\* How a machine holds a number in memory.
InMemory(little, v, w) == IF little THEN Reverse(BigEndian(v, w)) ELSE BigEndian(v, w)

SwapNever(bytes) == bytes                                              \* mutant

Swap(bytes) == Reverse(bytes)

\* rmqsAddUInt8ToBuffer ... rmqsAddUInt64ToBuffer.
AddUInt(B, v, w) ==
    LET bytes == InMemory(IsLittleEndianMachine, v, w)
    IN  BufferWrite(B, IF IsLittleEndianMachine /\ w > 1 THEN Swap(bytes) ELSE bytes)

\* rmqsAddBytesToBuffer; a length of its own is declared first when it is asked for.
AddBytes(B, bytes, DeclareLength) ==
    BufferWrite(IF DeclareLength THEN AddUInt(B, Len(bytes), 4) ELSE B, bytes)

-----------------------------------------------------------------------------
(* The messages.                                                           *)

\* Every message has text; only one with the encoding AMQP1_0 may be empty (an
\* empty one with no encoding is sent with a length of -1, which has no meaning
\* in the Publish command).
Messages(id) ==
    {m \in [PublishingId : {id}, Size : MessageSize, Encoding : {"None", "AMQP1_0"}] :
        m.Encoding = "AMQP1_0" \/ m.Size > 0}

Text(m) == [k \in 1..m.Size |-> TextByte(m.PublishingId, k)]

\* The bytes before the size: they say what follows and how long the size is.
Header(type) == <<"Byte0", "Byte1", "DataType", type>>

ShortAlways(size) == TRUE                                              \* mutant

IsShort(size) == size <= Short

\* rmqsAMQP1_0DataFrame8, whose size has 8 bits, and rmqsAMQP1_0DataFrame32, whose
\* size is little endian.
DataFrame(size) ==
    IF IsShort(size)
    THEN Header("V_8") \o BigEndian(size % (Short + 1), 1)
    ELSE LET bytes == InMemory(IsLittleEndianMachine, size, 4)
         IN  Header("V_32") \o (IF IsLittleEndianMachine THEN bytes ELSE Swap(bytes))

AddMessageBare(B, m) ==        \* mutant: the header is not counted
    LET C == AddUInt(B, m.PublishingId, 8)
    IN  AddBytes(AddBytes(AddUInt(C, m.Size, 4), DataFrame(m.Size), FALSE), Text(m), FALSE)

AddMessage(B, m) ==
    LET C == AddUInt(B, m.PublishingId, 8)
        header == DataFrame(m.Size)
    IN  IF m.Encoding = "AMQP1_0"
        THEN AddBytes(AddBytes(AddUInt(C, m.Size + Len(header), 4), header, FALSE),
                      Text(m), FALSE)
        ELSE AddBytes(C, Text(m), TRUE)

-----------------------------------------------------------------------------
(* rmqsPublish.                                                            *)

ClearPositionOnly(B) == BufferMoveTo(B, 0)                             \* mutant

Clear(B) == BufferClear(B)

\* Key, version, publisher id 1 and number of messages follow the size.
Built(B, messages) ==
    LET sized == AddUInt(Clear(B), 0, 4)
        keyed == AddUInt(AddUInt(sized, "Publish", 2), 1, 2)
        counted == AddUInt(AddUInt(keyed, 1, 1), Len(messages), 4)
        built[n \in 0..Len(messages)] ==
            IF n = 0 THEN counted ELSE AddMessage(built[n - 1], messages[n])
    IN  built[Len(messages)]

\* rmqsBufferMoveTo(TxQueue, 0), and the size is written over the zero.
SizePatched(B) == AddUInt(BufferMoveTo(B, 0), B.Size - 4, 4)

Init ==
    /\ IsLittleEndianMachine \in BOOLEAN
    /\ TxQueue = EmptyBuffer
    /\ frame = << >> /\ batch = << >> /\ frames = 0

Publish(messages) ==
    /\ frames < MaxFrames /\ frames' = frames + 1
    /\ TxQueue' = SizePatched(Built(TxQueue, messages))
    /\ frame' = TxQueue'.Data
    /\ batch' = messages
    /\ UNCHANGED IsLittleEndianMachine

\* Batches of n messages.
Batches(n) ==
    {batched \in [1..n -> UNION {Messages(id) : id \in 1..n}] :
        \A k \in 1..n : batched[k].PublishingId = k}

Next == \E n \in 1..MaxBatch : \E messages \in Batches(n) : Publish(messages)

Spec == Init /\ [][Next]_vars

-----------------------------------------------------------------------------
(* The way back.                                                           *)

\* The number at the front of some bytes, most significant byte first; -1: none.
NumberAt(bytes, w) ==
    IF Len(bytes) >= w /\ SubSeq(bytes, 1, w) = BigEndian(bytes[1].of, w)
    THEN bytes[1].of ELSE -1

From(bytes, n) == SubSeq(bytes, n, Len(bytes))

\* The broker takes the entries of a Publish frame one by one: id, length, bytes.
Entries(bytes, count) ==
    LET size(rest) == NumberAt(From(rest, 9), 4)
        left[n \in 0..count] ==
            IF n = 0 THEN bytes
            ELSE LET rest == left[n - 1] IN From(rest, 13 + size(rest))
        entry(rest) == [PublishingId |-> NumberAt(rest, 8),
                        Data |-> SubSeq(rest, 13, 12 + size(rest))]
    IN  [rest |-> left[count], entries |-> [i \in 1..count |-> entry(left[i - 1])]]

NotAMQP == [is |-> FALSE, Message |-> << >>]

\* The size as a machine reads it from a data frame, swapped on a big endian one.
DataFrameSize(little, bytes) ==
    LET read == IF little THEN Reverse(bytes) ELSE Swap(bytes)
    IN  IF read = BigEndian(bytes[1].of, 4) THEN bytes[1].of ELSE 0

\* rmqsCheckAQMP1_0Message on a machine: the message without its header.
CheckAQMP1_0Message(little, data) ==
    IF Len(data) < 5 \/ SubSeq(data, 1, 3) # <<"Byte0", "Byte1", "DataType">>
    THEN NotAMQP
    ELSE CASE data[4] = "V_8"  -> [is |-> TRUE, Message |-> SubSeq(data, 6, 5 + data[5].of)]
           [] data[4] = "V_32" -> [is |-> TRUE, Message |->
                SubSeq(data, 9, 8 + DataFrameSize(little, SubSeq(data, 5, 8)))]
           [] OTHER -> NotAMQP

-----------------------------------------------------------------------------
(* Properties.                                                             *)

TypeOK ==
    /\ IsLittleEndianMachine \in BOOLEAN /\ frames \in 0..MaxFrames
    /\ TxQueue.Size = Len(TxQueue.Data) /\ TxQueue.Size <= TxQueue.CurrentMemorySize
    /\ TxQueue.Position \in 0..TxQueue.Size

\* The size at the front of the frame is the number of bytes that follow it, in
\* network order on every machine, also after a longer frame in the same buffer.
SizeIsRight == frame # << >> => NumberAt(frame, 4) = Len(frame) - 4

\* The broker finds the messages of the batch, with their ids and nothing between or
\* behind them.
BrokerFindsMessages ==
    frame # << >> =>
        LET count == NumberAt(From(frame, 10), 4)
            found == Entries(From(frame, 14), count)
        IN  /\ count = Len(batch) /\ found.rest = << >>
            /\ \A i \in 1..count : found.entries[i].PublishingId = batch[i].PublishingId

\* A consumer on any machine gets the text of each message back, whichever header
\* its size has asked for.
TextComesBack ==
    \A i \in DOMAIN batch, little \in BOOLEAN :
        LET data == Entries(From(frame, 14), Len(batch)).entries[i].Data
            checked == CheckAQMP1_0Message(little, data)
        IN  IF batch[i].Encoding = "AMQP1_0"
            THEN checked.is /\ checked.Message = Text(batch[i])
            ELSE data = Text(batch[i])
=============================================================================
