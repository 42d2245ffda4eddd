------------------------------ MODULE RxStream ------------------------------
(***************************************************************************)
(* rmqsWaitMessage (rmqsProtocol.c) over one TCP connection: the broker    *)
(* writes frames, the network hands their bytes over in segments of any    *)
(* length, and the client cuts the frames out of RxQueue again, handles    *)
(* the pushed ones itself and returns the others to its caller.            *)
(*                                                                         *)
(* A byte is identified by its offset in the stream of bytes the broker    *)
(* writes, so a buffer that lost, repeated or moved a byte holds the wrong *)
(* offsets.  A field read from the buffer has the value the broker wrote   *)
(* only when its bytes are the bytes of that field.                        *)
(***************************************************************************)
EXTENDS RxBuffer

CONSTANTS
    Kind,           \* the commands the broker sends
    Size,           \* the frame lengths, with the 4 bytes of the length
    Corr,           \* the values of the correlation id (0: the frame has none)
    Code,           \* the values of the response code (0: the frame has none)
    Timeout,        \* the timeouts the callers pass, never 0
    RxBufferSize,   \* RMQS_CLIENT_RX_BUFFER_SIZE
    ClientTypes,    \* rmqsctPublisher, rmqsctConsumer
    StrayLength,    \* what a length field read at a wrong place may hold
    MaxFrames       \* bound on the frames the broker sends

HeaderSize == 8     \* sizeof(rmqsMsgHeader_t): length 4, key 2, version 2

ASSUME StreamAssumption ==
    /\ Size \subseteq Nat /\ \A s \in Size : s >= HeaderSize
    /\ Corr \subseteq Nat
    /\ Timeout \subseteq Nat \ {0}
    /\ RxBufferSize \in Nat \ {0}
    /\ StrayLength \subseteq Nat
    /\ MaxFrames \in Nat
    /\ "none" \notin Kind

Frame == [kind : Kind, size : Size, corr : Corr, code : Code]

\* What handled records of a message: which frame it is, and who got it.
Delivery ==
    [frame : Nat, by : {"HandlePublishResult", "HandleDeliver",
                        "HandleMetadataUpdate", "nobody", "caller"}]

VARIABLES
    \* the broker and the network
    frames,         \* the frames written, in order
    start,          \* the offset of the first byte of each of them
    written,        \* the number of bytes written
    link,           \* "up"; "eof", closed by the broker; "reset"; "dead"
    SocketTimeout,  \* SO_RCVTIMEO of the socket, 0 when there is none
    \* the client: rmqsClient_t
    ClientType, RxQueue, LastRxTimeout,
    \* the running call of rmqsWaitMessage
    pc,             \* "idle": no call is running
    RxTimeout, ConnectionError,
    result,         \* what the last call returned
    \* history
    received,       \* the number of bytes recv has returned
    handled         \* the frames cut out of the stream and who got them

broker == <<frames, start, written>>
call == <<RxTimeout, ConnectionError, result>>
vars == <<frames, start, written, link, SocketTimeout, ClientType, RxQueue,
          LastRxTimeout, pc, RxTimeout, ConnectionError, result, received, handled>>

Init ==
    /\ frames = << >> /\ start = << >> /\ written = 0
    /\ link = "up" /\ SocketTimeout = 0
    /\ ClientType \in ClientTypes
    /\ RxQueue = EmptyBuffer /\ LastRxTimeout = 0
    /\ pc = "idle" /\ RxTimeout = 0 /\ ConnectionError = FALSE /\ result = FALSE
    /\ received = 0 /\ handled = << >>

-----------------------------------------------------------------------------
(* Fields read from the front of the buffer.                               *)

\* n bytes of D from index i on are the bytes of the stream from offset o on.
Holds(D, i, o, n) == \A j \in 0..(n - 1) : i + j <= Len(D) /\ D[i + j] = o + j

\* The frames whose field of n bytes at distance d is what index 1 + d of D holds.
FieldOf(D, d, n) == {k \in DOMAIN frames : Holds(D, 1 + d, start[k] + d, n)}

\* The length field plus its own four bytes.
MessageSizes(D) ==
    IF FieldOf(D, 0, 4) = {} THEN StrayLength
    ELSE {frames[k].size : k \in FieldOf(D, 0, 4)}

Keys(D) ==
    IF FieldOf(D, 4, 2) = {} THEN {"none"}
    ELSE {frames[k].kind : k \in FieldOf(D, 4, 2)}

\* The frame whose bytes are the first m bytes of D, 0 when there is none.
FramesIn(D, m) ==
    LET whole == {k \in DOMAIN frames : frames[k].size = m /\ Holds(D, 1, start[k], m)}
    IN  IF whole = {} THEN {0} ELSE whole

\* Who takes a message with this key: the dispatch at the end of rmqsWaitMessage.
Handler(type, key) ==
    IF key \in {"PublishConfirm", "PublishError"}
    THEN IF type = "Publisher" THEN "HandlePublishResult" ELSE "nobody"
    ELSE IF key = "Deliver"
    THEN IF type = "Consumer" THEN "HandleDeliver" ELSE "nobody"
    ELSE IF key = "MetadataUpdate" THEN "HandleMetadataUpdate"
    ELSE "caller"

-----------------------------------------------------------------------------
(* The broker and the network.                                             *)

Send(f) ==
    /\ link = "up" /\ Len(frames) < MaxFrames
    /\ frames' = Append(frames, f)
    /\ start' = Append(start, written)
    /\ written' = written + f.size
    /\ UNCHANGED <<link, SocketTimeout, ClientType, RxQueue, LastRxTimeout,
                   pc, call, received, handled>>

Break(how) ==
    /\ link = "up" /\ link' = how
    /\ UNCHANGED <<broker, SocketTimeout, ClientType, RxQueue, LastRxTimeout,
                   pc, call, received, handled>>

-----------------------------------------------------------------------------
(* rmqsWaitMessage.                                                        *)

Call(t) ==
    /\ pc = "idle"
    /\ pc' = "top" /\ RxTimeout' = t /\ ConnectionError' = FALSE
    /\ UNCHANGED <<broker, link, SocketTimeout, ClientType, RxQueue, LastRxTimeout,
                   result, received, handled>>

Return(ok, error) ==
    /\ pc' = "idle" /\ result' = ok /\ ConnectionError' = error
    /\ UNCHANGED RxTimeout

\* mutant: the whole buffer
DequeuedAll(B) ==
    IF B.Tag1 THEN Marked(BufferDelete(B, B.Size), FALSE, 0)
    ELSE B

\* The top of the loop: the message that was handled leaves the buffer.
Dequeued(B) ==
    IF B.Tag1 THEN Marked(BufferDelete(B, B.Tag2), FALSE, 0)
    ELSE B

PendingNever(B) == FALSE                                         \* mutant

\* RxPendingBytes: bytes behind the message that was handled come first.
Pending(B) == B.Tag1 /\ BufferDelete(B, B.Tag2).Size > 0

\* mutant: the timeout is set once for the socket
ArmTimeoutOnce ==
    /\ SocketTimeout' = IF LastRxTimeout = 0 THEN RxTimeout ELSE SocketTimeout
    /\ LastRxTimeout' = RxTimeout

\* Before recv the timeout is set, unless it is the one that was set last.
ArmTimeout ==
    /\ SocketTimeout' = IF RxTimeout # LastRxTimeout THEN RxTimeout ELSE SocketTimeout
    /\ LastRxTimeout' = RxTimeout

LoopTop ==
    /\ pc = "top"
    /\ RxQueue' = Dequeued(RxQueue)
    /\ IF Pending(RxQueue)
       THEN pc' = "parse" /\ UNCHANGED <<SocketTimeout, LastRxTimeout>>
       ELSE pc' = "recv" /\ ArmTimeout
    /\ UNCHANGED <<broker, link, ClientType, call, received, handled>>

\* recv returns n of the bytes that are there; they go to the end of RxQueue.
Recv(n) ==
    /\ pc = "recv" /\ link # "dead"
    /\ n <= RxBufferSize /\ n <= written - received
    /\ RxQueue' = BufferWrite(RxQueue, [i \in 1..n |-> received + i - 1])
    /\ received' = received + n
    /\ pc' = "parse"
    /\ UNCHANGED <<broker, link, SocketTimeout, ClientType, LastRxTimeout, call, handled>>

\* recv returns -1 because SO_RCVTIMEO ran out.
RecvTimeout ==
    /\ pc = "recv" /\ SocketTimeout # 0
    /\ written = received /\ link = "up"
    /\ Return(FALSE, FALSE)
    /\ UNCHANGED <<broker, link, SocketTimeout, ClientType, RxQueue, LastRxTimeout,
                   received, handled>>

\* recv returns 0: the broker closed the connection, or it is gone already.
RecvClosed ==
    /\ pc = "recv"
    /\ (link = "eof" /\ written = received) \/ link = "dead"
    /\ Return(FALSE, FALSE)
    /\ UNCHANGED <<broker, link, SocketTimeout, ClientType, RxQueue, LastRxTimeout,
                   received, handled>>

\* recv returns -1 with ECONNRESET, once; bytes not yet received are lost.
RecvReset ==
    /\ pc = "recv" /\ link = "reset"
    /\ link' = "dead"
    /\ Return(FALSE, TRUE)
    /\ UNCHANGED <<broker, SocketTimeout, ClientType, RxQueue, LastRxTimeout,
                   received, handled>>

\* The length has not arrived: back to the top of the loop.
ParseNoLength ==
    /\ pc = "parse" /\ RxQueue.Size < 4
    /\ pc' = "top"
    /\ UNCHANGED <<broker, link, SocketTimeout, ClientType, RxQueue, LastRxTimeout,
                   call, received, handled>>

\* mutant: true although the message is not complete
ParsePartialTrue ==
    /\ pc = "parse" /\ RxQueue.Size >= 4
    /\ \E m \in MessageSizes(RxQueue.Data) : RxQueue.Size < m
    /\ Return(TRUE, ConnectionError)
    /\ UNCHANGED <<broker, link, SocketTimeout, ClientType, RxQueue, LastRxTimeout,
                   received, handled>>

\* The length has arrived and the rest has not: the call returns false.
ParsePartial ==
    /\ pc = "parse" /\ RxQueue.Size >= 4
    /\ \E m \in MessageSizes(RxQueue.Data) : RxQueue.Size < m
    /\ Return(FALSE, ConnectionError)
    /\ UNCHANGED <<broker, link, SocketTimeout, ClientType, RxQueue, LastRxTimeout,
                   received, handled>>

\* A message is complete: it is marked, and handled here or returned.
ParseComplete ==
    /\ pc = "parse" /\ RxQueue.Size >= 4
    /\ \E m \in MessageSizes(RxQueue.Data), key \in Keys(RxQueue.Data) :
         /\ RxQueue.Size >= m
         /\ RxQueue' = Marked(RxQueue, TRUE, m)
         /\ \E k \in FramesIn(RxQueue.Data, m) :
              handled' = Append(handled, [frame |-> k, by |-> Handler(ClientType, key)])
         /\ IF Handler(ClientType, key) = "caller"
            THEN Return(TRUE, ConnectionError)
            ELSE pc' = "top" /\ UNCHANGED call
    /\ UNCHANGED <<broker, link, SocketTimeout, ClientType, LastRxTimeout, received>>

Environment == (\E f \in Frame : Send(f)) \/ Break("eof") \/ Break("reset")

RecvSome == \E n \in 1..RxBufferSize : Recv(n)

WaitMessage ==
    \/ LoopTop \/ RecvSome \/ RecvTimeout \/ RecvClosed \/ RecvReset
    \/ ParseNoLength \/ ParsePartial \/ ParseComplete

Next == Environment \/ (\E t \in Timeout : Call(t)) \/ WaitMessage

\* The callers poll: rmqsConsumerPoll, rmqsPublisherPoll and rmqsWaitResponse
\* call again after a return.  The bytes of the network arrive.
Fairness == WF_vars(WaitMessage) /\ WF_vars(\E t \in Timeout : Call(t))

Spec == Init /\ [][Next]_vars

FairSpec == Spec /\ Fairness
-----------------------------------------------------------------------------
(* Properties.                                                             *)

TypeOK ==
    /\ frames \in Seq(Frame) /\ start \in Seq(Nat) /\ written \in Nat
    /\ link \in {"up", "eof", "reset", "dead"}
    /\ SocketTimeout \in Timeout \cup {0} /\ LastRxTimeout \in Timeout \cup {0}
    /\ ClientType \in ClientTypes
    /\ RxQueue \in Buffer(Nat)
    /\ pc \in {"idle", "top", "recv", "parse"}
    /\ RxTimeout \in Timeout \cup {0}
    /\ ConnectionError \in BOOLEAN /\ result \in BOOLEAN
    /\ received \in Nat
    /\ handled \in Seq(Delivery)

\* The frame at the front of RxQueue, complete or not: the one that was handled
\* last while it is marked, else the next one.
Front == IF RxQueue.Tag1 THEN Len(handled) ELSE Len(handled) + 1

OffsetOf(k) == IF k \in DOMAIN start THEN start[k] ELSE written

\* RxQueue holds, in order and without a gap, exactly the received bytes from
\* the first byte of a frame on, the cursor is at their end (so that the next
\* rmqsBufferWrite appends), and a marked message is one whole frame.
Framing ==
    /\ Len(RxQueue.Data) = RxQueue.Size /\ RxQueue.Position = RxQueue.Size
    /\ received <= written
    /\ received - RxQueue.Size = OffsetOf(Front)
    /\ \A i \in 1..RxQueue.Size : RxQueue.Data[i] = received - RxQueue.Size + i - 1
    /\ IF RxQueue.Tag1
       THEN Front \in DOMAIN frames /\ RxQueue.Tag2 = frames[Front].size
            /\ RxQueue.Tag2 <= RxQueue.Size
       ELSE RxQueue.Tag2 = 0

\* The buffer never holds more bytes than its memory has room for.
InMemory == RxQueue.Size <= RxQueue.CurrentMemorySize

\* However the bytes are cut into segments, frame k is the k-th one handled: no
\* frame is lost, repeated, merged, split or taken out of turn, and each goes to
\* the handler of its key; a pushed frame is never returned to the caller.
InOrderOnce ==
    \A k \in DOMAIN handled :
        /\ k \in DOMAIN frames /\ handled[k].frame = k
        /\ handled[k].by = Handler(ClientType, frames[k].kind)

\* While the client blocks in recv, and when a call has returned false, RxQueue
\* does not hold a whole frame nobody has seen: the client never waits for bytes
\* that it has already.
NoStrandedFrame ==
    pc \in {"recv", "idle"} /\ ~RxQueue.Tag1 /\ Front \in DOMAIN frames
        => RxQueue.Size < frames[Front].size

\* recv blocks for the timeout of the call and never without one: the timeout of
\* the socket is kept in step by LastRxTimeout.
RecvIsTimed == pc = "recv" => SocketTimeout = RxTimeout /\ SocketTimeout # 0

\* A message is returned only marked, and it is one for the caller.
ReturnsMarkedMessage ==
    pc = "idle" /\ result =>
        RxQueue.Tag1 /\ Len(handled) > 0 /\ handled[Len(handled)].by = "caller"

\* RxStream implements FrameChannel: cutting the frames out of the segments is
\* the same as taking them, one at a time, from a queue of frames.
Garbled == [kind |-> "none", size |-> 0, corr |-> 0, code |-> 0]

Channel == INSTANCE FrameChannel WITH
    sent  <- frames,
    taken <- [k \in 1..Len(handled) |->
                IF handled[k].frame \in DOMAIN frames
                THEN frames[handled[k].frame] ELSE Garbled],
    up    <- link = "up"

ImplementsChannel == Channel!ChannelSpec
=============================================================================
