------------------------- MODULE WaitResponseProofs -------------------------
(***************************************************************************)
(* Proofs about RxBuffer and RxStream, for any number of frames of any     *)
(* length from 8 bytes on, cut into segments anywhere; and about           *)
(* rmqsWaitResponse, which drives the receive side as RxStream allows, so  *)
(* that what RxStream promises holds below every request, and the timeouts *)
(* it passes down stay within the time of the request.                     *)
(***************************************************************************)
EXTENDS WaitResponse, SequenceTheorems, TLAPS

(***************************************************************************)
(* The buffer.                                                             *)
(***************************************************************************)

\* A function on 1..n is a sequence of length n.
LEMMA SequenceLemma ==
  ASSUME NEW S, NEW n \in Nat, NEW f \in [1..n -> S]
  PROVE  f \in Seq(S) /\ Len(f) = n
<1>1. f \in Seq(S)
  BY SeqDef
<1>2. DOMAIN f = 1..Len(f) /\ Len(f) \in Nat /\ DOMAIN f = 1..n
  BY <1>1, LenProperties
<1>3. QED
  BY <1>1, <1>2

\* rmqsBufferSetMemorySize rounds a required size up, never down.
LEMMA ChunksForLemma ==
  ASSUME NEW n \in Nat \ {0}
  PROVE  ChunksFor(n) \in Nat /\ ChunksFor(n) >= n
<1>1. n - 1 \in Nat /\ ChunkSize \in Nat \ {0}
  BY ChunkSizeAssumption
<1>2. /\ (n - 1) \div ChunkSize \in Nat
      /\ n - 1 < (((n - 1) \div ChunkSize) + 1) * ChunkSize
  BY <1>1
<1>3. (((n - 1) \div ChunkSize) + 1) * ChunkSize \in Nat
  BY <1>1, <1>2
<1>4. QED
  BY <1>2, <1>3 DEF ChunksFor

\* With the cursor at the end rmqsBufferWrite appends: the bytes that were there
\* stay, the new ones follow, the cursor is at the new end, and memory suffices.
LEMMA BufferWriteLemma ==
  ASSUME NEW B \in Buffer(Nat), NEW W \in Seq(Nat), Len(W) > 0,
         Len(B.Data) = B.Size, B.Position = B.Size
  PROVE  LET C == BufferWrite(B, W) IN
         /\ C \in Buffer(Nat)
         /\ C.Size = B.Size + Len(W) /\ C.Position = C.Size
         /\ Len(C.Data) = C.Size
         /\ \A i \in 1..B.Size : C.Data[i] = B.Data[i]
         /\ \A i \in (B.Size + 1)..C.Size : C.Data[i] = W[i - B.Size]
         /\ C.CurrentMemorySize >= C.Size
         /\ C.Tag1 = B.Tag1 /\ C.Tag2 = B.Tag2
<1> DEFINE last == B.Position + Len(W)
           data == [i \in 1..last |-> IF i > B.Position /\ i <= last
                                      THEN W[i - B.Position] ELSE B.Data[i]]
           C == BufferWrite(B, W)
<1>1. last \in Nat \ {0} /\ last > B.Size /\ Larger(B.Size, last) = last
  BY DEF Buffer, Larger
<1>2. ChunksFor(last) \in Nat /\ ChunksFor(last) >= last
  BY <1>1, ChunksForLemma
<1>3. C = [Data |-> data, Size |-> last, Position |-> last,
           CurrentMemorySize |-> MemoryFor(B, last), Tag1 |-> B.Tag1, Tag2 |-> B.Tag2]
  <2>1. BufferWrite(B, W) =
          [Data |-> [i \in 1..Larger(B.Size, last) |->
                       IF i > B.Position /\ i <= last THEN W[i - B.Position] ELSE B.Data[i]],
           Size |-> Larger(B.Size, last), Position |-> last,
           CurrentMemorySize |-> MemoryFor(B, last), Tag1 |-> B.Tag1, Tag2 |-> B.Tag2]
    <3>1. Len(W) # 0
      OBVIOUS
    <3>2. QED
      BY <3>1, Zenon DEF BufferWrite
  <2>2. QED
    BY <1>1, <2>1, Zenon
<1>4. data \in Seq(Nat) /\ Len(data) = last
  <2>1. \A i \in 1..last : data[i] \in Nat
    BY <1>1 DEF Buffer
  <2>2. data \in [1..last -> Nat]
    BY <2>1
  <2> HIDE DEF data, last
  <2>3. QED
    BY <1>1, <2>2, SequenceLemma
<1>5. MemoryFor(B, last) \in Nat /\ MemoryFor(B, last) >= last
  BY <1>1, <1>2 DEF MemoryFor, Buffer, Larger
<1>6. /\ C \in Buffer(Nat) /\ C.Data = data /\ C.Size = last /\ C.Position = last
      /\ C.CurrentMemorySize >= last /\ C.Tag1 = B.Tag1 /\ C.Tag2 = B.Tag2
  <2> HIDE DEF data, last, C
  <2> QED
    BY <1>1, <1>3, <1>4, <1>5 DEF Buffer
<1>7. last = B.Size + Len(W)
  OBVIOUS
<1>8. \A i \in 1..B.Size : data[i] = B.Data[i]
  BY <1>1 DEF Buffer
<1>9. \A i \in (B.Size + 1)..last : data[i] = W[i - B.Size]
  BY <1>1 DEF Buffer
<1> HIDE DEF data, last, C
<1>10. QED
  BY <1>4, <1>6, <1>7, <1>8, <1>9 DEF C

\* rmqsBufferDelete drops a prefix and moves the rest to the front.
LEMMA BufferDeleteLemma ==
  ASSUME NEW B \in Buffer(Nat), NEW n \in Nat, n <= B.Size,
         Len(B.Data) = B.Size, B.Position = B.Size
  PROVE  LET C == BufferDelete(B, n) IN
         /\ C \in Buffer(Nat)
         /\ C.Size = B.Size - n /\ C.Position = C.Size
         /\ Len(C.Data) = C.Size
         /\ \A i \in 1..C.Size : C.Data[i] = B.Data[i + n]
         /\ C.CurrentMemorySize = B.CurrentMemorySize
<1> DEFINE data == [i \in 1..(B.Size - n) |-> B.Data[i + n]]
           C == BufferDelete(B, n)
<1>1. data \in Seq(Nat) /\ Len(data) = B.Size - n
  <2>1. \A i \in 1..(B.Size - n) : data[i] \in Nat
    BY DEF Buffer
  <2>2. B.Size - n \in Nat
    BY DEF Buffer
  <2>3. data \in [1..(B.Size - n) -> Nat]
    BY <2>1
  <2> HIDE DEF data
  <2>4. QED
    BY <2>2, <2>3, SequenceLemma
<1>2. C = [Data |-> data, Size |-> B.Size - n, Position |-> B.Size - n,
           CurrentMemorySize |-> B.CurrentMemorySize, Tag1 |-> B.Tag1, Tag2 |-> B.Tag2]
  <2>1. (IF n > B.Size THEN B.Size ELSE n) = n
    BY DEF Buffer
  <2>2. (IF B.Position >= n THEN B.Position - n ELSE 0) = B.Size - n
    BY DEF Buffer
  <2>3. QED
    BY <2>1, <2>2, Zenon DEF BufferDelete
<1>3. \A i \in 1..(B.Size - n) : data[i] = B.Data[i + n]
  OBVIOUS
<1>4. B.Size - n \in Nat
  BY DEF Buffer
<1> HIDE DEF data, C
<1>5. QED
  BY <1>1, <1>2, <1>3, <1>4 DEF Buffer, C

(***************************************************************************)
(* The inductive invariant.                                                *)
(***************************************************************************)

\* The frames lie on the wire one behind the other, without a gap.
Wire ==
    /\ Len(start) = Len(frames)
    /\ \A k \in DOMAIN frames :
         /\ start[k] + frames[k].size = OffsetOf(k + 1)
         /\ start[k] < written
    /\ \A j, k \in DOMAIN frames : j < k => start[j] < start[k]

\* Outside the parsing step, an unmarked buffer holds less than a frame; blocked
\* in recv or about to parse, the client has no mark left.
Incomplete ==
    /\ pc \in {"recv", "parse"} => ~RxQueue.Tag1
    /\ pc # "parse" /\ ~RxQueue.Tag1 /\ Front \in DOMAIN frames
         => RxQueue.Size < frames[Front].size

\* LastRxTimeout is what the socket was told last, and a running call has a timeout.
Timed ==
    /\ SocketTimeout = LastRxTimeout
    /\ pc # "idle" => RxTimeout # 0
    /\ pc = "recv" => LastRxTimeout = RxTimeout

IInv ==
    /\ TypeOK
    /\ Wire
    /\ Framing
    /\ InMemory
    /\ InOrderOnce
    /\ Incomplete
    /\ Timed
    /\ ReturnsMarkedMessage

LEMMA InitIInv == Init => IInv
<1> SUFFICES ASSUME Init PROVE IInv
  OBVIOUS
<1> USE DEF Init
<1>1. frames = << >> /\ start = << >> /\ handled = << >> /\ RxQueue.Data = << >>
      /\ Len(frames) = 0 /\ Len(start) = 0 /\ Len(handled) = 0
      /\ DOMAIN frames = {} /\ DOMAIN start = {} /\ DOMAIN handled = {}
  BY DEF EmptyBuffer
<1>2. TypeOK
  <2>1. RxQueue \in Buffer(Nat)
    BY DEF EmptyBuffer, Buffer
  <2>2. frames \in Seq(Frame) /\ start \in Seq(Nat) /\ handled \in Seq(Delivery)
    BY EmptySeq
  <2>3. QED
    BY <2>1, <2>2 DEF TypeOK
<1>3. Wire
  BY <1>1 DEF Wire
<1>4. Framing
  BY <1>1 DEF Framing, Front, OffsetOf, EmptyBuffer
<1>5. InMemory /\ InOrderOnce /\ Incomplete /\ Timed /\ ReturnsMarkedMessage
  BY <1>1 DEF InMemory, InOrderOnce, Incomplete, Timed, ReturnsMarkedMessage, EmptyBuffer, Front
<1>6. QED
  BY <1>2, <1>3, <1>4, <1>5 DEF IInv

\* A new frame starts where the last one ends; what the client has done is not
\* disturbed, because it refers to earlier frames only.
LEMMA SendStep ==
  ASSUME IInv, NEW f \in Frame, Send(f)
  PROVE  IInv'
<1>0. PICK n \in Nat : n = Len(frames)
  BY LenProperties DEF IInv, TypeOK
<1>1. /\ frames \in Seq(Frame) /\ start \in Seq(Nat) /\ written \in Nat
      /\ Len(start) = n /\ n \in Nat /\ f.size \in Nat /\ f.size >= 8
  <2>1. f.size \in Size
    BY DEF Frame
  <2>2. f.size \in Nat /\ f.size >= 8
    BY <2>1, StreamAssumption DEF HeaderSize
  <2>3. QED
    BY <1>0, <2>2 DEF IInv, TypeOK, Wire
<1>2. /\ frames' \in Seq(Frame) /\ start' \in Seq(Nat) /\ written' = written + f.size
      /\ Len(frames') = n + 1 /\ Len(start') = n + 1
      /\ \A k \in 1..n : frames'[k] = frames[k] /\ start'[k] = start[k]
      /\ frames'[n + 1] = f /\ start'[n + 1] = written
  BY <1>0, <1>1 DEF Send
<1>3. DOMAIN frames = 1..n /\ DOMAIN start = 1..n
      /\ DOMAIN frames' = 1..(n + 1) /\ DOMAIN start' = 1..(n + 1)
  BY <1>0, <1>1, <1>2
<1>4. UNCHANGED <<link, SocketTimeout, ClientType, RxQueue, LastRxTimeout,
                  pc, RxTimeout, ConnectionError, result, received, handled>>
  BY DEF Send, call
<1>5. \A k \in 1..(n + 1) : OffsetOf(k)' = OffsetOf(k)
  BY <1>1, <1>2, <1>3 DEF OffsetOf
<1>6. TypeOK'
  BY <1>1, <1>2, <1>4 DEF IInv, TypeOK
<1>7. Wire'
  <2>1. Len(start') = Len(frames')
    BY <1>2
  <2>2. ASSUME NEW k \in 1..n
        PROVE  start'[k] + frames'[k].size = OffsetOf(k + 1)' /\ start'[k] < written'
    <3>1. start[k] + frames[k].size = OffsetOf(k + 1) /\ start[k] < written
      BY <1>3 DEF IInv, Wire
    <3>2. k + 1 \in 1..(n + 1) /\ start[k] \in Nat
      BY <1>1
    <3>3. OffsetOf(k + 1)' = OffsetOf(k + 1)
      BY <3>2, <1>5
    <3>4. start'[k] = start[k] /\ frames'[k] = frames[k] /\ written' > start[k]
      BY <3>1, <3>2, <1>1, <1>2
    <3>5. QED
      BY <3>1, <3>3, <3>4, Zenon
  <2>3. start'[n + 1] + frames'[n + 1].size = OffsetOf((n + 1) + 1)' /\ start'[n + 1] < written'
    <3>1. OffsetOf((n + 1) + 1)' = written'
      BY <1>1, <1>3 DEF OffsetOf
    <3>2. QED
      BY <3>1, <1>1, <1>2
  <2>4. ASSUME NEW j \in 1..(n + 1), NEW k \in 1..(n + 1), j < k
        PROVE  start'[j] < start'[k]
    <3>1. j \in 1..n
      BY <2>4, <1>1
    <3>2. CASE k \in 1..n
      <4>1. start[j] < start[k]
        BY <3>1, <3>2, <2>4, <1>3 DEF IInv, Wire
      <4>2. QED
        BY <3>1, <3>2, <4>1, <1>2
    <3>3. CASE k = n + 1
      <4>1. start[j] < written
        BY <3>1, <1>3 DEF IInv, Wire
      <4>2. QED
        BY <3>1, <3>3, <4>1, <1>2
    <3>4. QED
      BY <3>2, <3>3, <1>1
  <2>5. \A k \in 1..(n + 1) : start'[k] + frames'[k].size = OffsetOf(k + 1)' /\ start'[k] < written'
    <3>1. \A k \in 1..(n + 1) : k \in 1..n \/ k = n + 1
      BY <1>1
    <3>2. QED
      BY <3>1, <2>2, <2>3, Zenon
  <2>6. \A j, k \in 1..(n + 1) : j < k => start'[j] < start'[k]
    BY <2>4
  <2>7. QED
    BY <2>1, <2>5, <2>6, <1>3 DEF Wire
<1>8. Front' = Front /\ Front \in 1..(n + 1)
  <2>1. Len(handled) <= n
    BY <1>1, <1>3 DEF IInv, InOrderOnce, TypeOK
  <2>2. Len(handled) \in Nat
    BY DEF IInv, TypeOK
  <2>3. RxQueue.Tag1 => Front \in DOMAIN frames
    BY DEF IInv, Framing
  <2>4. QED
    BY <2>1, <2>2, <2>3, <1>1, <1>3, <1>4 DEF Front
<1>9. Framing'
  <2>1. received <= written'
    BY <1>1, <1>2 DEF IInv, Framing, TypeOK
  <2>2. OffsetOf(Front)' = OffsetOf(Front)
    BY <1>5, <1>8 DEF OffsetOf
  <2>3. QED
    BY <2>1, <2>2, <1>2, <1>3, <1>4, <1>8 DEF IInv, Framing
<1>10. InMemory' /\ Timed' /\ ReturnsMarkedMessage'
  BY <1>4 DEF IInv, InMemory, Timed, ReturnsMarkedMessage
<1>11. InOrderOnce'
  BY <1>1, <1>2, <1>3, <1>4 DEF IInv, InOrderOnce
<1>12. Incomplete'
  <2>1. CASE Front \in 1..n
    BY <2>1, <1>2, <1>3, <1>4, <1>8 DEF IInv, Incomplete
  <2>2. CASE Front = n + 1 /\ ~RxQueue.Tag1
    <3>1. RxQueue.Size = 0
      BY <2>2, <1>1, <1>3 DEF IInv, Framing, OffsetOf, TypeOK, Buffer
    <3>2. QED
      BY <3>1, <2>2, <1>1, <1>2, <1>4, <1>8 DEF IInv, Incomplete
  <2>3. RxQueue.Tag1 => Front \in 1..n
    BY <1>3 DEF IInv, Framing
  <2>4. QED
    BY <2>1, <2>2, <2>3, <1>1, <1>8
<1>13. QED
  BY <1>6, <1>7, <1>9, <1>10, <1>11, <1>12 DEF IInv

\* A step that leaves the wire, the buffer and the history alone.
LEMMA UnchangedStream ==
  ASSUME IInv,
         UNCHANGED <<frames, start, written, RxQueue, received, handled, ClientType>>
  PROVE  Wire' /\ Framing' /\ InMemory' /\ InOrderOnce' /\ Front' = Front
<1>1. Front' = Front /\ \A k \in Nat : OffsetOf(k)' = OffsetOf(k)
  BY DEF Front, OffsetOf
<1>2. Wire'
  BY DEF IInv, Wire, OffsetOf
<1>3. Framing'
  BY DEF IInv, Framing, Front, OffsetOf
<1>4. InMemory' /\ InOrderOnce'
  BY DEF IInv, InMemory, InOrderOnce
<1>5. QED
  BY <1>1, <1>2, <1>3, <1>4

LEMMA BreakStep ==
  ASSUME IInv, NEW how \in {"eof", "reset"}, Break(how)
  PROVE  IInv'
<1> USE DEF Break, broker, call
<1>1. Wire' /\ Framing' /\ InMemory' /\ InOrderOnce' /\ Front' = Front
  BY UnchangedStream
<1>2. TypeOK'
  BY DEF IInv, TypeOK
<1>3. Incomplete' /\ Timed' /\ ReturnsMarkedMessage'
  BY <1>1 DEF IInv, Incomplete, Timed, ReturnsMarkedMessage
<1>4. QED
  BY <1>1, <1>2, <1>3 DEF IInv

LEMMA CallStep ==
  ASSUME IInv, NEW t \in Timeout, Call(t)
  PROVE  IInv'
<1> USE DEF Call, broker
<1>1. Wire' /\ Framing' /\ InMemory' /\ InOrderOnce' /\ Front' = Front
  BY UnchangedStream
<1>2. TypeOK'
  BY DEF IInv, TypeOK
<1>3. t # 0
  BY StreamAssumption
<1>4. Incomplete' /\ Timed' /\ ReturnsMarkedMessage'
  BY <1>1, <1>3 DEF IInv, Incomplete, Timed, ReturnsMarkedMessage
<1>5. QED
  BY <1>1, <1>2, <1>4 DEF IInv

\* recv fails, times out or finds the connection closed: nothing was taken.
LEMMA RecvFailStep ==
  ASSUME IInv, RecvTimeout \/ RecvClosed \/ RecvReset
  PROVE  IInv'
<1> USE DEF RecvTimeout, RecvClosed, RecvReset, Return, broker
<1>1. Wire' /\ Framing' /\ InMemory' /\ InOrderOnce' /\ Front' = Front
  BY UnchangedStream
<1>2. TypeOK'
  BY DEF IInv, TypeOK
<1>3. Incomplete' /\ Timed' /\ ReturnsMarkedMessage'
  BY <1>1 DEF IInv, Incomplete, Timed, ReturnsMarkedMessage
<1>4. QED
  BY <1>1, <1>2, <1>3 DEF IInv

\* What is read from the front of the buffer are the fields of the frame there.
LEMMA FrontField ==
  ASSUME IInv, Front \in DOMAIN frames,
         NEW d \in Nat, NEW n \in Nat, n > 0, d + n <= RxQueue.Size
  PROVE  FieldOf(RxQueue.Data, d, n) = {Front}
<1> DEFINE D == RxQueue.Data
           s == RxQueue.Size
<1>1. /\ start \in Seq(Nat) /\ s \in Nat /\ received \in Nat
      /\ DOMAIN start = DOMAIN frames /\ DOMAIN frames \subseteq Nat
  BY LenProperties DEF IInv, TypeOK, Wire, Buffer
<1>2. PICK f \in DOMAIN frames : f = Front
  OBVIOUS
<1>3. /\ Len(D) = s
      /\ \A i \in 1..s : D[i] = start[f] + i - 1
      /\ start[f] \in Nat
  <2>1. received - s = start[f]
    BY <1>1, <1>2 DEF IInv, Framing, OffsetOf
  <2>2. start[f] \in Nat
    BY <1>1
  <2>3. QED
    BY <2>1, <2>2 DEF IInv, Framing
<1>4. \A k \in DOMAIN frames : start[k] = start[f] => k = f
  <2> SUFFICES ASSUME NEW k \in DOMAIN frames, start[k] = start[f], k # f
               PROVE  FALSE
    OBVIOUS
  <2>1. k \in Nat /\ f \in Nat /\ start[k] \in Nat
    BY <1>1, <1>3
  <2>2. k < f \/ f < k
    BY <2>1
  <2>3. start[k] < start[f] \/ start[f] < start[k]
    BY <2>2 DEF IInv, Wire
  <2>4. QED
    BY <2>1, <2>3
<1>5. d + n <= s
  OBVIOUS
<1> HIDE DEF D, s
<1>6. ASSUME NEW j \in 0..(n - 1)
      PROVE  (1 + d) + j \in 1..s /\ D[(1 + d) + j] = (start[f] + d) + j
  <2>1. (1 + d) + j \in 1..s
    BY <1>1, <1>5
  <2>2. QED
    BY <2>1, <1>3
<1>7. Holds(D, 1 + d, start[f] + d, n)
  <2>1. ASSUME NEW j \in 0..(n - 1) PROVE (1 + d) + j <= Len(D)
    <3>1. (1 + d) + j \in 1..s /\ Len(D) = s
      BY <1>3, <1>6
    <3>2. QED
      BY <1>1, <3>1
  <2>2. QED
    BY <2>1, <1>6 DEF Holds
<1>8. ASSUME NEW k \in DOMAIN frames, Holds(D, 1 + d, start[k] + d, n)
      PROVE  k = f
  <2>1. 0 \in 0..(n - 1)
    OBVIOUS
  <2>2. D[(1 + d) + 0] = (start[k] + d) + 0 /\ D[(1 + d) + 0] = (start[f] + d) + 0
    BY <2>1, <1>6, <1>8 DEF Holds
  <2>3. start[k] \in Nat
    BY <1>1
  <2>4. start[k] = start[f]
    BY <2>2, <2>3, <1>3
  <2>5. QED
    BY <2>4, <1>4
<1>9. FieldOf(D, d, n) = {f}
  BY <1>7, <1>8 DEF FieldOf
<1>10. QED
  BY <1>2, <1>9 DEF D

LEMMA FrameSize ==
  ASSUME IInv, NEW k \in DOMAIN frames
  PROVE  frames[k] \in Frame /\ frames[k].size \in Nat /\ frames[k].size >= 8
<1>1. frames[k] \in Frame
  BY LenProperties DEF IInv, TypeOK
<1>2. frames[k].size \in Size
  BY <1>1 DEF Frame
<1>3. QED
  BY <1>1, <1>2, StreamAssumption DEF HeaderSize

\* What the parser reads: once the length is there it is the length of the next
\* frame, and once the frame is there its key and its bytes are that frame's.
LEMMA ParseFacts ==
  ASSUME IInv, pc = "parse", RxQueue.Size >= 4
  PROVE  /\ Front = Len(handled) + 1 /\ Front \in DOMAIN frames
         /\ MessageSizes(RxQueue.Data) = {frames[Front].size}
         /\ RxQueue.Size >= frames[Front].size =>
              /\ Keys(RxQueue.Data) = {frames[Front].kind}
              /\ FramesIn(RxQueue.Data, frames[Front].size) = {Front}
<1> DEFINE D == RxQueue.Data
           s == RxQueue.Size
<1>1. ~RxQueue.Tag1 /\ Front = Len(handled) + 1
  BY DEF IInv, Incomplete, Front
<1>2. /\ s \in Nat /\ written \in Nat /\ received \in Nat
      /\ start \in Seq(Nat) /\ DOMAIN start = DOMAIN frames
  BY LenProperties DEF IInv, TypeOK, Wire, Buffer
<1>3. Front \in DOMAIN frames
  <2>1. SUFFICES ASSUME Front \notin DOMAIN frames PROVE FALSE
    OBVIOUS
  <2>2. received - s = written /\ received <= written
    BY <2>1, <1>2 DEF IInv, Framing, OffsetOf
  <2>3. QED
    BY <2>2, <1>2
<1>4. PICK f \in DOMAIN frames : f = Front
  BY <1>3
<1>5. FieldOf(D, 0, 4) = {f}
  BY <1>2, <1>4, FrontField
<1>6. MessageSizes(D) = {frames[f].size}
  BY <1>5 DEF MessageSizes
<1>7. ASSUME s >= frames[f].size
      PROVE  Keys(D) = {frames[f].kind} /\ FramesIn(D, frames[f].size) = {f}
  <2>1. frames[f].size \in Nat /\ frames[f].size >= 8
    BY FrameSize
  <2>2. FieldOf(D, 4, 2) = {f}
    <3>1. 4 + 2 <= RxQueue.Size
      BY <1>2, <1>7, <2>1
    <3>2. 4 \in Nat /\ 2 \in Nat /\ 2 > 0 /\ Front \in DOMAIN frames
      BY <1>3
    <3>3. QED
      BY <1>4, <3>1, <3>2, FrontField
  <2>3. Keys(D) = {frames[f].kind}
    BY <2>2 DEF Keys
  <2>4. FieldOf(D, 0, frames[f].size) = {f}
    <3>1. 0 + frames[f].size <= RxQueue.Size
      BY <1>2, <1>7, <2>1
    <3>2. 0 \in Nat /\ frames[f].size > 0 /\ Front \in DOMAIN frames
      BY <1>3, <2>1
    <3>3. QED
      BY <1>4, <2>1, <3>1, <3>2, FrontField
  <2>5. \A k \in DOMAIN frames : Holds(D, 1, start[k], frames[f].size) <=> k = f
    <3>1. ASSUME NEW k \in DOMAIN frames
          PROVE  1 + 0 = 1 /\ start[k] + 0 = start[k]
      BY <1>2
    <3>2. QED
      BY <2>4, <3>1 DEF FieldOf
  <2>6. FramesIn(D, frames[f].size) = {f}
    BY <2>5 DEF FramesIn
  <2>7. QED
    BY <2>3, <2>6
<1>8. QED
  BY <1>1, <1>4, <1>6, <1>7 DEF D, s

\* The parser stops without a frame: the buffer holds less than the next one.
LEMMA ParseShortStep ==
  ASSUME IInv, ParseNoLength \/ ParsePartial
  PROVE  IInv'
<1> USE DEF ParseNoLength, ParsePartial, Return, broker, call
<1>1. Wire' /\ Framing' /\ InMemory' /\ InOrderOnce' /\ Front' = Front
  BY UnchangedStream
<1>2. TypeOK'
  BY DEF IInv, TypeOK
<1>3. Timed' /\ ReturnsMarkedMessage'
  BY DEF IInv, Timed, ReturnsMarkedMessage, Incomplete
<1>4. Front \in DOMAIN frames => RxQueue.Size < frames[Front].size
  <2>1. CASE ParseNoLength
    <3>1. ASSUME NEW k \in DOMAIN frames PROVE frames[k].size >= 8 /\ frames[k].size \in Nat
      <4>1. frames[k] \in Frame
        BY LenProperties DEF IInv, TypeOK
      <4>2. frames[k].size \in Size
        BY <4>1 DEF Frame
      <4>3. QED
        BY <4>2, StreamAssumption DEF HeaderSize
    <3>2. RxQueue.Size \in Nat /\ RxQueue.Size < 4
      BY <2>1 DEF IInv, TypeOK, Buffer
    <3>3. QED
      BY <3>1, <3>2
  <2>2. CASE ParsePartial
    <3>1. pc = "parse" /\ RxQueue.Size >= 4
      BY <2>2
    <3>2. MessageSizes(RxQueue.Data) = {frames[Front].size}
      BY <3>1, ParseFacts
    <3>3. QED
      BY <2>2, <3>2
  <2>3. QED
    BY <2>1, <2>2
<1>5. Incomplete'
  BY <1>1, <1>4 DEF IInv, Incomplete
<1>6. QED
  BY <1>1, <1>2, <1>3, <1>5 DEF IInv

\* A complete message is marked and handled: it is the next frame.
LEMMA ParseCompleteFacts ==
  ASSUME IInv, ParseComplete
  PROVE  /\ Front = Len(handled) + 1 /\ Front \in DOMAIN frames
         /\ RxQueue.Size >= frames[Front].size
         /\ RxQueue' = Marked(RxQueue, TRUE, frames[Front].size)
         /\ handled' = Append(handled, [frame |-> Front,
                                        by |-> Handler(ClientType, frames[Front].kind)])
         /\ IF Handler(ClientType, frames[Front].kind) = "caller"
            THEN Return(TRUE, ConnectionError)
            ELSE pc' = "top" /\ UNCHANGED call
         /\ UNCHANGED <<frames, start, written, link, SocketTimeout, ClientType,
                        LastRxTimeout, received>>
<1>1. pc = "parse" /\ RxQueue.Size >= 4
  BY DEF ParseComplete
<1>2. /\ Front = Len(handled) + 1 /\ Front \in DOMAIN frames
      /\ MessageSizes(RxQueue.Data) = {frames[Front].size}
      /\ RxQueue.Size >= frames[Front].size =>
           /\ Keys(RxQueue.Data) = {frames[Front].kind}
           /\ FramesIn(RxQueue.Data, frames[Front].size) = {Front}
  BY <1>1, ParseFacts
<1>3. PICK m \in MessageSizes(RxQueue.Data), key \in Keys(RxQueue.Data) :
         /\ RxQueue.Size >= m
         /\ RxQueue' = Marked(RxQueue, TRUE, m)
         /\ \E k \in FramesIn(RxQueue.Data, m) :
              handled' = Append(handled, [frame |-> k, by |-> Handler(ClientType, key)])
         /\ IF Handler(ClientType, key) = "caller"
            THEN Return(TRUE, ConnectionError)
            ELSE pc' = "top" /\ UNCHANGED call
  BY DEF ParseComplete
<1>4. m = frames[Front].size
  BY <1>2, <1>3
<1>5. key = frames[Front].kind /\ FramesIn(RxQueue.Data, m) = {Front}
  BY <1>2, <1>3, <1>4
<1>6. handled' = Append(handled, [frame |-> Front, by |-> Handler(ClientType, key)])
  BY <1>3, <1>5
<1>7. UNCHANGED <<frames, start, written, link, SocketTimeout, ClientType,
                  LastRxTimeout, received>>
  BY DEF ParseComplete, broker
<1>8. QED
  BY <1>2, <1>3, <1>4, <1>5, <1>6, <1>7

LEMMA ParseCompleteStep ==
  ASSUME IInv, ParseComplete
  PROVE  IInv'
<1> DEFINE h == Handler(ClientType, frames[Front].kind)
<1>1. /\ Front = Len(handled) + 1 /\ Front \in DOMAIN frames
      /\ RxQueue.Size >= frames[Front].size
      /\ RxQueue' = Marked(RxQueue, TRUE, frames[Front].size)
      /\ handled' = Append(handled, [frame |-> Front, by |-> h])
      /\ IF h = "caller" THEN Return(TRUE, ConnectionError)
         ELSE pc' = "top" /\ UNCHANGED call
      /\ UNCHANGED <<frames, start, written, link, SocketTimeout, ClientType,
                     LastRxTimeout, received>>
  BY ParseCompleteFacts
<1>2. PICK f \in DOMAIN frames : f = Front
  BY <1>1
<1>3. h \in {"HandlePublishResult", "HandleDeliver", "HandleMetadataUpdate", "nobody", "caller"}
  BY DEF Handler
<1>4. /\ frames \in Seq(Frame) /\ handled \in Seq(Delivery)
      /\ Len(handled) \in Nat /\ f = Len(handled) + 1
      /\ DOMAIN handled = 1..Len(handled)
      /\ RxQueue \in Buffer(Nat)
  BY <1>1, <1>2, LenProperties DEF IInv, TypeOK
<1>5. frames[f] \in Frame /\ frames[f].size \in Nat
  <2>1. frames[f] \in Frame
    BY <1>4
  <2>2. frames[f].size \in Size
    BY <2>1 DEF Frame
  <2>3. QED
    BY <2>1, <2>2, StreamAssumption
<1> HIDE DEF h
<1>6. [frame |-> f, by |-> h] \in Delivery
  BY <1>3, <1>4 DEF Delivery
<1>7. /\ handled' \in Seq(Delivery) /\ Len(handled') = f
      /\ DOMAIN handled' = 1..f
      /\ \A k \in 1..Len(handled) : handled'[k] = handled[k]
      /\ handled'[f] = [frame |-> f, by |-> h]
  BY <1>1, <1>2, <1>4, <1>6
<1>8. /\ RxQueue' \in Buffer(Nat)
      /\ RxQueue'.Data = RxQueue.Data /\ RxQueue'.Size = RxQueue.Size
      /\ RxQueue'.Position = RxQueue.Position
      /\ RxQueue'.CurrentMemorySize = RxQueue.CurrentMemorySize
      /\ RxQueue'.Tag1 = TRUE /\ RxQueue'.Tag2 = frames[f].size
  BY <1>1, <1>2, <1>4, <1>5 DEF Marked, Buffer
<1>9. Front' = f
  BY <1>7, <1>8 DEF Front
<1>10. /\ RxTimeout' = RxTimeout /\ pc' \in {"idle", "top"}
       /\ ConnectionError' = ConnectionError
       /\ result' \in BOOLEAN
       /\ pc' = "idle" => h = "caller"
  BY <1>1 DEF Return, call, IInv, TypeOK
<1>11. TypeOK'
  BY <1>1, <1>7, <1>8, <1>10 DEF IInv, TypeOK
<1>12. Wire'
  BY <1>1 DEF IInv, Wire, OffsetOf
<1>13. Framing'
  <2>1. OffsetOf(f)' = OffsetOf(f)
    BY <1>1 DEF OffsetOf
  <2>2. received - RxQueue.Size = OffsetOf(f)
    BY <1>2 DEF IInv, Framing
  <2>3. QED
    BY <1>1, <1>2, <1>8, <1>9, <2>1, <2>2 DEF IInv, Framing
<1>14. InMemory'
  BY <1>8 DEF IInv, InMemory
<1>15. InOrderOnce'
  <2>1. ASSUME NEW k \in 1..Len(handled)
        PROVE  k \in DOMAIN frames /\ handled[k].frame = k
               /\ handled[k].by = Handler(ClientType, frames[k].kind)
    BY <1>4 DEF IInv, InOrderOnce
  <2>2. h = Handler(ClientType, frames[f].kind)
    BY <1>2 DEF h
  <2>3. \A k \in 1..f : k \in 1..Len(handled) \/ k = f
    BY <1>4
  <2>4. ASSUME NEW k \in 1..f
        PROVE  k \in DOMAIN frames /\ handled'[k].frame = k
               /\ handled'[k].by = Handler(ClientType, frames[k].kind)
    <3>1. CASE k \in 1..Len(handled)
      BY <3>1, <2>1, <1>7
    <3>2. CASE k = f
      BY <3>2, <2>2, <1>7
    <3>3. QED
      BY <2>3, <3>1, <3>2
  <2>5. QED
    BY <2>4, <1>1, <1>7 DEF InOrderOnce, Handler
<1>16. Incomplete' /\ Timed'
  BY <1>1, <1>8, <1>10 DEF IInv, Incomplete, Timed, ParseComplete
<1>17. ReturnsMarkedMessage'
  BY <1>4, <1>7, <1>8, <1>10 DEF ReturnsMarkedMessage
<1>18. QED
  BY <1>11, <1>12, <1>13, <1>14, <1>15, <1>16, <1>17 DEF IInv

\* The message that was handled leaves the buffer, and what follows it begins at
\* the next frame.
LEMMA LoopTopStep ==
  ASSUME IInv, LoopTop
  PROVE  IInv'
<1> DEFINE B == RxQueue
           C == BufferDelete(RxQueue, RxQueue.Tag2)
<1>1. UNCHANGED <<frames, start, written, link, ClientType, RxTimeout,
                  ConnectionError, result, received, handled>>
  BY DEF LoopTop, broker, call
<1>2. /\ frames \in Seq(Frame) /\ start \in Seq(Nat) /\ B \in Buffer(Nat)
      /\ written \in Nat /\ received \in Nat /\ Len(handled) \in Nat
      /\ DOMAIN start = DOMAIN frames /\ DOMAIN frames \subseteq Nat
  BY LenProperties DEF IInv, TypeOK, Wire
<1>3. pc = "top" /\ RxTimeout # 0
  BY DEF LoopTop, IInv, Timed
<1>4. Timed'
  BY <1>1, <1>3 DEF LoopTop, ArmTimeout, IInv, Timed
<1>5. Wire' /\ InOrderOnce'
  BY <1>1 DEF IInv, Wire, InOrderOnce, OffsetOf
<1>6. pc' \in {"parse", "recv"} /\ ReturnsMarkedMessage'
  BY DEF LoopTop, ReturnsMarkedMessage
<1>7. SocketTimeout' \in Timeout \cup {0} /\ LastRxTimeout' \in Timeout \cup {0}
  BY DEF LoopTop, ArmTimeout, IInv, TypeOK
<1>8. CASE ~RxQueue.Tag1
  <2>1. RxQueue' = RxQueue /\ pc' = "recv"
    BY <1>8 DEF LoopTop, Dequeued, Pending
  <2>2. Framing' /\ InMemory' /\ Front' = Front
    BY <1>1, <2>1, UnchangedStream
  <2>3. TypeOK'
    BY <1>1, <1>2, <1>6, <1>7, <2>1 DEF IInv, TypeOK
  <2>4. Incomplete'
    BY <1>1, <1>3, <1>8, <2>1, <2>2 DEF IInv, Incomplete
  <2>5. QED
    BY <1>4, <1>5, <1>6, <2>2, <2>3, <2>4 DEF IInv
<1>9. CASE RxQueue.Tag1
  <2>1. PICK f \in DOMAIN frames : f = Front
    BY <1>9 DEF IInv, Framing
  <2>2. /\ f = Len(handled) /\ B.Tag2 = frames[f].size /\ B.Tag2 <= B.Size
        /\ Len(B.Data) = B.Size /\ B.Position = B.Size /\ received <= written
        /\ \A i \in 1..B.Size : B.Data[i] = received - B.Size + i - 1
        /\ B.Size <= B.CurrentMemorySize /\ B.Tag2 \in Nat
    BY <1>2, <1>9, <2>1 DEF IInv, Framing, Front, InMemory, Buffer
  <2>3. received - B.Size = start[f] /\ start[f] + frames[f].size = OffsetOf(f + 1)
    BY <1>2, <2>1 DEF IInv, Framing, Wire, OffsetOf
  <2>4. /\ C \in Buffer(Nat)
        /\ C.Size = B.Size - B.Tag2 /\ C.Position = C.Size
        /\ Len(C.Data) = C.Size
        /\ \A i \in 1..C.Size : C.Data[i] = B.Data[i + B.Tag2]
        /\ C.CurrentMemorySize = B.CurrentMemorySize
    BY <1>2, <2>2, BufferDeleteLemma
  <2>5. RxQueue' = Marked(C, FALSE, 0)
    BY <1>9 DEF LoopTop, Dequeued
  <2>6. pc' = IF C.Size > 0 THEN "parse" ELSE "recv"
    BY <1>9 DEF LoopTop, Pending
  <2> HIDE DEF C
  <2>7. /\ RxQueue' \in Buffer(Nat) /\ RxQueue'.Data = C.Data
        /\ RxQueue'.Size = C.Size /\ RxQueue'.Position = C.Position
        /\ RxQueue'.CurrentMemorySize = C.CurrentMemorySize
        /\ RxQueue'.Tag1 = FALSE /\ RxQueue'.Tag2 = 0
    BY <2>4, <2>5 DEF Marked, Buffer
  <2>8. Front' = f + 1
    BY <1>1, <2>2, <2>7 DEF Front
  <2>9. \A i \in 1..C.Size : C.Data[i] = received - C.Size + i - 1
    <3>1. ASSUME NEW i \in 1..C.Size PROVE C.Data[i] = received - C.Size + i - 1
      <4>0. B.Size \in Nat /\ B.Tag2 \in Nat /\ B.Tag2 <= B.Size /\ i \in 1..(B.Size - B.Tag2)
        BY <1>2, <2>2, <2>4 DEF Buffer
      <4>1. i + B.Tag2 \in 1..B.Size /\ B.Size \in Nat /\ i \in Nat
        BY <4>0
      <4>2. B.Data[i + B.Tag2] = received - B.Size + (i + B.Tag2) - 1
        BY <2>2, <4>1
      <4>3. C.Data[i] = B.Data[i + B.Tag2]
        BY <2>4
      <4>4. QED
        BY <1>2, <2>2, <2>4, <4>1, <4>2, <4>3
    <3>2. QED
      BY <3>1
  <2>10. received - C.Size = OffsetOf(f + 1)
    BY <1>2, <2>2, <2>3, <2>4 DEF Buffer
  <2>11. OffsetOf(f + 1)' = OffsetOf(f + 1)
    BY <1>1 DEF OffsetOf
  <2>12. Framing'
    BY <1>1, <2>2, <2>4, <2>7, <2>8, <2>9, <2>10, <2>11 DEF Framing
  <2>13. InMemory'
    BY <1>2, <2>2, <2>4, <2>7 DEF InMemory, Buffer
  <2>14. TypeOK'
    BY <1>1, <1>6, <1>7, <2>7 DEF IInv, TypeOK
  <2>15. Incomplete'
    <3>1. ASSUME NEW k \in DOMAIN frames PROVE frames[k].size >= 8 /\ frames[k].size \in Nat
      <4>1. frames[k] \in Frame
        BY <1>2
      <4>2. frames[k].size \in Size
        BY <4>1 DEF Frame
      <4>3. QED
        BY <4>2, StreamAssumption DEF HeaderSize
    <3>2. C.Size \in Nat
      BY <2>4 DEF Buffer
    <3>3. pc' # "parse" => C.Size = 0
      BY <2>6, <3>2
    <3>4. QED
      BY <1>1, <2>7, <3>1, <3>3 DEF Incomplete
  <2>16. QED
    BY <1>4, <1>5, <1>6, <2>12, <2>13, <2>14, <2>15 DEF IInv
<1>10. QED
  BY <1>8, <1>9

\* What recv returns is appended; the front of the buffer stays where it is.
LEMMA RecvStep ==
  ASSUME IInv, NEW n \in 1..RxBufferSize, Recv(n)
  PROVE  IInv'
<1> DEFINE B == RxQueue
           W == [i \in 1..n |-> received + i - 1]
           C == BufferWrite(RxQueue, W)
<1>1. UNCHANGED <<frames, start, written, link, SocketTimeout, ClientType,
                  LastRxTimeout, RxTimeout, ConnectionError, result, handled>>
  BY DEF Recv, broker, call
<1>2. /\ pc = "recv" /\ n <= written - received /\ received' = received + n
      /\ RxQueue' = C /\ pc' = "parse"
  BY DEF Recv
<1>3. /\ frames \in Seq(Frame) /\ start \in Seq(Nat) /\ B \in Buffer(Nat)
      /\ written \in Nat /\ received \in Nat /\ n \in Nat /\ n > 0
      /\ B.Size \in Nat
  BY StreamAssumption DEF IInv, TypeOK, Buffer
<1>4. W \in Seq(Nat) /\ Len(W) = n
  <2>1. W \in [1..n -> Nat]
    BY <1>3
  <2> HIDE DEF W
  <2>2. QED
    BY <1>3, <2>1, SequenceLemma
<1>5. /\ ~B.Tag1 /\ B.Tag2 = 0 /\ Len(B.Data) = B.Size /\ B.Position = B.Size
      /\ received <= written /\ received - B.Size = OffsetOf(Front)
      /\ \A i \in 1..B.Size : B.Data[i] = received - B.Size + i - 1
  BY <1>2 DEF IInv, Framing, Incomplete
<1>6. \A i \in 1..n : W[i] = received + i - 1
  OBVIOUS
<1> HIDE DEF W
<1>7. /\ C \in Buffer(Nat)
      /\ C.Size = B.Size + n /\ C.Position = C.Size
      /\ Len(C.Data) = C.Size
      /\ \A i \in 1..B.Size : C.Data[i] = B.Data[i]
      /\ \A i \in (B.Size + 1)..C.Size : C.Data[i] = W[i - B.Size]
      /\ C.CurrentMemorySize >= C.Size
      /\ C.Tag1 = B.Tag1 /\ C.Tag2 = B.Tag2
  BY <1>3, <1>4, <1>5, BufferWriteLemma
<1> HIDE DEF C
<1>8. Front' = Front /\ OffsetOf(Front)' = OffsetOf(Front)
  BY <1>1, <1>2, <1>5, <1>7 DEF Front, OffsetOf
<1>9. \A i \in 1..C.Size : C.Data[i] = (received + n) - C.Size + i - 1
  <2>1. ASSUME NEW i \in 1..C.Size
        PROVE  C.Data[i] = (received + n) - C.Size + i - 1
    <3>1. CASE i \in 1..B.Size
      BY <3>1, <1>3, <1>5, <1>7
    <3>2. CASE i \in (B.Size + 1)..C.Size
      <4>1. i - B.Size \in 1..n
        BY <3>2, <1>3, <1>7
      <4>2. C.Data[i] = received + (i - B.Size) - 1
        BY <3>2, <4>1, <1>6, <1>7
      <4>3. QED
        BY <4>2, <1>3, <1>7
    <3>3. QED
      BY <3>1, <3>2, <1>3, <1>7
  <2>2. QED
    BY <2>1
<1>10. TypeOK'
  BY <1>1, <1>2, <1>3, <1>7 DEF IInv, TypeOK
<1>11. Wire' /\ InOrderOnce'
  BY <1>1 DEF IInv, Wire, InOrderOnce, OffsetOf
<1>12. Framing'
  <2>1. received' <= written' /\ received' - RxQueue'.Size = OffsetOf(Front)'
    BY <1>1, <1>2, <1>3, <1>5, <1>7, <1>8
  <2>2. QED
    BY <2>1, <1>1, <1>2, <1>5, <1>7, <1>9 DEF Framing
<1>13. InMemory'
  BY <1>2, <1>7 DEF InMemory, Buffer
<1>14. Incomplete' /\ Timed' /\ ReturnsMarkedMessage'
  BY <1>1, <1>2, <1>5, <1>7 DEF IInv, Incomplete, Timed, ReturnsMarkedMessage
<1>15. QED
  BY <1>10, <1>11, <1>12, <1>13, <1>14 DEF IInv

\* IInv is inductive.
LEMMA NextIInv == IInv /\ [Next]_vars => IInv'
<1> SUFFICES ASSUME IInv, [Next]_vars PROVE IInv'
  OBVIOUS
<1>1. ASSUME NEW f \in Frame, Send(f) PROVE IInv'
  BY <1>1, SendStep
<1>2. CASE Break("eof") \/ Break("reset")
  BY <1>2, BreakStep
<1>3. ASSUME NEW t \in Timeout, Call(t) PROVE IInv'
  BY <1>3, CallStep
<1>4. CASE LoopTop
  BY <1>4, LoopTopStep
<1>5. CASE RecvSome
  BY <1>5, RecvStep DEF RecvSome
<1>6. CASE RecvTimeout \/ RecvClosed \/ RecvReset
  BY <1>6, RecvFailStep
<1>7. CASE ParseNoLength \/ ParsePartial
  BY <1>7, ParseShortStep
<1>8. CASE ParseComplete
  BY <1>8, ParseCompleteStep
<1>9. CASE UNCHANGED vars
  <2>1. Wire' /\ Framing' /\ InMemory' /\ InOrderOnce' /\ Front' = Front
    BY <1>9, UnchangedStream DEF vars
  <2>2. TypeOK'
    BY <1>9 DEF IInv, TypeOK, vars
  <2>3. Incomplete' /\ Timed' /\ ReturnsMarkedMessage'
    BY <1>9, <2>1 DEF IInv, Incomplete, Timed, ReturnsMarkedMessage, vars
  <2>4. QED
    BY <2>1, <2>2, <2>3 DEF IInv
<1>10. QED
  BY <1>1, <1>2, <1>3, <1>4, <1>5, <1>6, <1>7, <1>8, <1>9
     DEF Next, Environment, WaitMessage

(***************************************************************************)
(* The theorems.                                                           *)
(***************************************************************************)

\* Every reachable state of rmqsWaitMessage satisfies the inductive invariant.
THEOREM Inductive == Spec => []IInv
<1>1. Init => IInv
  BY InitIInv
<1>2. IInv /\ [Next]_vars => IInv'
  BY NextIInv
<1>3. QED
  BY <1>1, <1>2, PTL DEF Spec

\* Type correctness of the receive side.
THEOREM TypeCorrect == Spec => []TypeOK
<1>1. IInv => TypeOK
  BY DEF IInv
<1>2. QED
  BY <1>1, Inductive, PTL

\* RxQueue holds the received bytes from the start of a frame on, whatever the
\* lengths of the frames and wherever TCP cuts them (rmqsWaitMessage).
THEOREM FramingHolds == Spec => [](Framing /\ InMemory)
<1>1. IInv => Framing /\ InMemory
  BY DEF IInv
<1>2. QED
  BY <1>1, Inductive, PTL

\* Every frame is handled once, in order and by the handler of its key.
THEOREM HandledInOrderOnce == Spec => []InOrderOnce
<1>1. IInv => InOrderOnce
  BY DEF IInv
<1>2. QED
  BY <1>1, Inductive, PTL

\* rmqsWaitMessage never blocks in recv, nor returns false, over a whole frame.
THEOREM NothingStranded == Spec => []NoStrandedFrame
<1>1. IInv => NoStrandedFrame
  BY DEF IInv, Incomplete, NoStrandedFrame
<1>2. QED
  BY <1>1, Inductive, PTL

\* recv never blocks without a timeout, and always with that of the call.
THEOREM RecvTimed == Spec => []RecvIsTimed
<1>1. IInv => RecvIsTimed
  BY DEF IInv, Timed, RecvIsTimed
<1>2. QED
  BY <1>1, Inductive, PTL

\* A call that returns true leaves a marked message for its caller.
THEOREM ReturnsMarked == Spec => []ReturnsMarkedMessage
<1>1. IInv => ReturnsMarkedMessage
  BY DEF IInv
<1>2. QED
  BY <1>1, Inductive, PTL

(***************************************************************************)
(* The refinement: RxStream implements the safety part of FrameChannel.    *)
(***************************************************************************)

\* The abstract history of the frames taken, as a function of the detailed state.
TakenOf(fs, hs) ==
    [k \in 1..Len(hs) |-> IF hs[k].frame \in DOMAIN fs THEN fs[hs[k].frame] ELSE Garbled]

Taken == TakenOf(frames, handled)

\* With every frame handled in its turn, it is a prefix of the frames sent.
LEMMA TakenOfLemma ==
  ASSUME NEW fs \in Seq(Frame), NEW hs \in Seq(Delivery),
         \A k \in DOMAIN hs : k \in DOMAIN fs /\ hs[k].frame = k
  PROVE  /\ TakenOf(fs, hs) \in Seq(Frame) /\ Len(TakenOf(fs, hs)) = Len(hs)
         /\ \A k \in 1..Len(hs) : k \in DOMAIN fs /\ TakenOf(fs, hs)[k] = fs[k]
<1>1. Len(hs) \in Nat /\ DOMAIN hs = 1..Len(hs)
  BY LenProperties
<1>2. ASSUME NEW k \in 1..Len(hs)
      PROVE  k \in DOMAIN fs /\ TakenOf(fs, hs)[k] = fs[k] /\ TakenOf(fs, hs)[k] \in Frame
  <2>1. k \in DOMAIN fs /\ hs[k].frame = k
    BY <1>1
  <2>2. TakenOf(fs, hs)[k] = fs[k]
    BY <2>1 DEF TakenOf
  <2>3. fs[k] \in Frame
    BY <2>1
  <2>4. QED
    BY <2>1, <2>2, <2>3
<1>3. TakenOf(fs, hs) \in [1..Len(hs) -> Frame]
  BY <1>2 DEF TakenOf
<1>4. TakenOf(fs, hs) \in Seq(Frame) /\ Len(TakenOf(fs, hs)) = Len(hs)
  BY <1>1, <1>3, SequenceLemma
<1>5. QED
  BY <1>2, <1>4

LEMMA TakenIsPrefix ==
  ASSUME IInv, IInv'
  PROVE  /\ Taken \in Seq(Frame) /\ Len(Taken) = Len(handled)
         /\ \A k \in 1..Len(handled) : k \in DOMAIN frames /\ Taken[k] = frames[k]
         /\ Taken' \in Seq(Frame) /\ Len(Taken') = Len(handled')
         /\ \A k \in 1..Len(handled') : Taken'[k] = frames'[k]
<1>1. /\ frames \in Seq(Frame) /\ handled \in Seq(Delivery)
      /\ \A k \in DOMAIN handled : k \in DOMAIN frames /\ handled[k].frame = k
  BY DEF IInv, TypeOK, InOrderOnce
<1>2. /\ frames' \in Seq(Frame) /\ handled' \in Seq(Delivery)
      /\ \A k \in DOMAIN handled' : k \in DOMAIN frames' /\ handled'[k].frame = k
  BY DEF IInv, TypeOK, InOrderOnce
<1>3. Taken = TakenOf(frames, handled) /\ Taken' = TakenOf(frames', handled')
  BY DEF Taken
<1>4. QED
  BY <1>1, <1>2, <1>3, TakenOfLemma

\* Steps that neither send nor handle a frame leave the abstract state alone, or
\* break the connection.
LEMMA OtherStepsStutter ==
  ASSUME IInv, UNCHANGED <<frames, handled>>, (link' = "up") = (link = "up")
  PROVE  UNCHANGED Channel!channelVars
BY DEF Channel!channelVars

LEMMA SendRefines ==
  ASSUME IInv, IInv', NEW f \in Frame, Send(f)
  PROVE  Channel!ChannelSend(f)
<1>1. /\ link = "up" /\ link' = "up" /\ frames' = Append(frames, f)
      /\ handled' = handled /\ frames \in Seq(Frame)
  BY DEF Send, IInv, TypeOK
<1>2. Taken' = Taken
  <2>1. /\ Taken \in Seq(Frame) /\ Len(Taken) = Len(handled)
        /\ \A k \in 1..Len(handled) : k \in DOMAIN frames /\ Taken[k] = frames[k]
        /\ Taken' \in Seq(Frame) /\ Len(Taken') = Len(handled')
        /\ \A k \in 1..Len(handled') : Taken'[k] = frames'[k]
    BY TakenIsPrefix
  <2>3. \A k \in 1..Len(handled) : frames'[k] = frames[k]
    BY <1>1, <2>1
  <2>4. QED
    BY <1>1, <2>1, <2>3, SeqEqual
<1>3. QED
  BY <1>1, <1>2 DEF Channel!ChannelSend, Taken, TakenOf

LEMMA HandleRefines ==
  ASSUME IInv, IInv', ParseComplete
  PROVE  Channel!ChannelTake
<1>1. /\ Front = Len(handled) + 1 /\ Front \in DOMAIN frames
      /\ handled' = Append(handled, [frame |-> Front,
                                     by |-> Handler(ClientType, frames[Front].kind)])
      /\ frames' = frames /\ link' = link
  BY ParseCompleteFacts
<1>2. frames \in Seq(Frame) /\ handled \in Seq(Delivery) /\ Len(handled) \in Nat
  BY LenProperties DEF IInv, TypeOK
<1>3. PICK n \in Nat : n = Len(handled)
  BY <1>2
<1>4. /\ Taken \in Seq(Frame) /\ Len(Taken) = n
      /\ \A k \in 1..n : k \in DOMAIN frames /\ Taken[k] = frames[k]
  BY <1>3, TakenIsPrefix
<1>5. Len(handled') = n + 1
  BY <1>1, <1>2, <1>3
<1>6. /\ Taken' \in Seq(Frame) /\ Len(Taken') = Len(handled')
      /\ \A k \in 1..Len(handled') : Taken'[k] = frames'[k]
  BY TakenIsPrefix
<1>7. n + 1 \in DOMAIN frames /\ frames[n + 1] \in Frame /\ n < Len(frames)
  BY <1>1, <1>2, <1>3
<1>8. /\ Append(Taken, frames[n + 1]) \in Seq(Frame)
      /\ Len(Append(Taken, frames[n + 1])) = n + 1
      /\ \A k \in 1..n : Append(Taken, frames[n + 1])[k] = frames[k]
      /\ Append(Taken, frames[n + 1])[n + 1] = frames[n + 1]
  BY <1>4, <1>7
<1>9. \A k \in 1..(n + 1) : Append(Taken, frames[n + 1])[k] = Taken'[k]
  <2>1. \A k \in 1..(n + 1) : k \in 1..n \/ k = n + 1
    OBVIOUS
  <2>2. QED
    BY <2>1, <1>1, <1>5, <1>6, <1>8
<1>10. Taken' = Append(Taken, frames[n + 1])
  BY <1>5, <1>6, <1>8, <1>9, SeqEqual
<1>11. Len(Taken) < Len(frames) /\ Taken' = Append(Taken, frames[Len(Taken) + 1])
  BY <1>4, <1>7, <1>10
<1>12. QED
  BY <1>1, <1>11 DEF Channel!ChannelTake, Taken, TakenOf

\* Cutting the frames out of the segments implements a queue of frames: what the
\* client handles is at any time a prefix of what the broker sent, and it grows
\* by one frame at a time (rmqsWaitMessage against FrameChannel).
THEOREM ImplementsSafeChannel == Spec => Channel!ChannelSafe
<1>1. Init => Channel!ChannelInit
  BY DEF Init, Channel!ChannelInit
<1>2. IInv /\ IInv' /\ [Next]_vars => [Channel!ChannelNext]_(Channel!channelVars)
  <2> SUFFICES ASSUME IInv, IInv', [Next]_vars
               PROVE  Channel!ChannelNext \/ UNCHANGED Channel!channelVars
    OBVIOUS
  <2>1. ASSUME NEW f \in Frame, Send(f) PROVE Channel!ChannelNext
    BY <2>1, SendRefines DEF Channel!ChannelNext
  <2>2. CASE Break("eof") \/ Break("reset")
    BY <2>2 DEF Break, broker, Channel!ChannelNext, Channel!ChannelBreak
  <2>3. CASE ParseComplete
    BY <2>3, HandleRefines DEF Channel!ChannelNext
  <2>4. CASE \/ \E t \in Timeout : Call(t)
             \/ LoopTop \/ RecvSome \/ RecvTimeout \/ RecvClosed \/ RecvReset
             \/ ParseNoLength \/ ParsePartial \/ UNCHANGED vars
    <3>1. UNCHANGED <<frames, handled>> /\ (link' = "up") = (link = "up")
      BY <2>4 DEF Call, LoopTop, RecvSome, Recv, RecvTimeout, RecvClosed, RecvReset,
                  ParseNoLength, ParsePartial, broker, vars
    <3>2. QED
      BY <3>1, OtherStepsStutter
  <2>5. QED
    BY <2>1, <2>2, <2>3, <2>4 DEF Next, Environment, WaitMessage
<1>3. QED
  BY <1>1, <1>2, Inductive, PTL DEF Spec, Channel!ChannelSafe

(***************************************************************************)
(* rmqsWaitResponse.                                                       *)
(***************************************************************************)

\* The request in progress: the ids given out so far are in Corr, and while the
\* loop has time left the timeout of the next call is neither 0 nor too long.
RequestTypes ==
    /\ CorrelationId \in Nat /\ elapsed \in Nat
    /\ requests \in Seq(RequestRecord)
    /\ CorrelationId = FirstCorrelationId + Len(requests)
    /\ Len(requests) <= MaxRequests

TimeoutInRange ==
    /\ at # "caller" /\ elapsed < RequestTimeout => WaitMessageTimeout \in 1..RequestTimeout
    /\ pc # "idle" => RxTimeout \in 1..RequestTimeout

WIInv == RequestTypes /\ TimeoutInRange

LEMMA WInitWIInv == WInit => IInv /\ WIInv
<1>1. WInit => IInv
  BY InitIInv DEF WInit
<1>2. WInit => RequestTypes /\ TimeoutInRange
  BY RequestAssumption DEF WInit, Init, RequestTypes, TimeoutInRange
<1>3. QED
  BY <1>1, <1>2 DEF WIInv

\* What rmqsWaitMessage leaves alone.
LEMMA WaitMessageSteps ==
  ASSUME WIInv, InWaitMessage
  PROVE  /\ [Next]_vars /\ UNCHANGED <<CorrelationId, at, elapsed, WaitMessageTimeout, requests>>
         /\ RxTimeout' = RxTimeout /\ (pc = "idle" => pc' = "idle")
<1>1. UNCHANGED <<CorrelationId, at, elapsed, WaitMessageTimeout, requests>>
  BY DEF InWaitMessage
<1>2. RecvSegment => RecvSome
  BY DEF RecvSegment, RecvSome
<1>3. WaitMessage
  BY <1>2 DEF InWaitMessage, WaitMessage
<1>4. RxTimeout' = RxTimeout /\ pc # "idle"
  BY <1>3 DEF WaitMessage, LoopTop, RecvSome, Recv, RecvTimeout, RecvClosed, RecvReset,
              ParseNoLength, ParsePartial, ParseComplete, Return, call, ArmTimeout
<1>5. QED
  BY <1>1, <1>3, <1>4 DEF Next

LEMMA AnswerSends ==
  ASSUME WIInv, NEW r \in DOMAIN requests, NEW code \in Code \ {0}, Answer(r, code)
  PROVE  Next
<1>1. requests[r] \in RequestRecord
  BY DEF WIInv, RequestTypes
<1>2. FrameOf(requests[r].key, requests[r].corr, code) \in Frame
  BY <1>1, RequestAssumption DEF FrameOf, Frame, RequestRecord
<1>3. Send(FrameOf(requests[r].key, requests[r].corr, code))
  BY DEF Answer
<1>4. QED
  BY <1>2, <1>3 DEF Next, Environment

LEMMA UnsolicitedSends ==
  ASSUME NEW kind \in Kind, Unsolicited(kind)
  PROVE  Next
<1>1. PICK corr \in Corr, code \in Code : Send(FrameOf(kind, corr, code))
  BY DEF Unsolicited
<1>2. FrameOf(kind, corr, code) \in Frame
  BY <1>1, RequestAssumption DEF FrameOf, Frame
<1>3. QED
  BY <1>1, <1>2 DEF Next, Environment

\* Every step of the request is a step of RxStream or leaves it alone.
LEMMA WNextIsNext == WIInv /\ [WNext]_allVars => [Next]_vars
<1> SUFFICES ASSUME WIInv, [WNext]_allVars PROVE [Next]_vars
  OBVIOUS
<1>1. ASSUME NEW r \in DOMAIN requests, NEW code \in Code \ {0}, Answer(r, code)
      PROVE  [Next]_vars
  BY <1>1, AnswerSends
<1>2. ASSUME NEW kind \in Kind \ RequestKey, Unsolicited(kind) PROVE [Next]_vars
  BY <1>2, UnsolicitedSends
<1>3. CASE Break("eof") \/ Break("reset")
  BY <1>3 DEF Next, Environment
<1>4. ASSUME NEW key \in RequestKey, Request(key) PROVE [Next]_vars
  BY <1>4 DEF Request
<1>5. CASE CallWaitMessage
  <2>1. WaitMessageTimeout \in Timeout
    BY <1>5, RequestAssumption DEF CallWaitMessage, WIInv, TimeoutInRange
  <2>2. QED
    BY <1>5, <2>1 DEF CallWaitMessage, Next
<1>6. CASE TimeIsUp \/ TakeResponse \/ SkipMessage \/ NoMessage \/ ConnectionLost
  BY <1>6 DEF TimeIsUp, TakeResponse, SkipMessage, NoMessage, ConnectionLost, Finish
<1>7. CASE InWaitMessage
  BY <1>7, WaitMessageSteps
<1>8. CASE Tick
  BY <1>8 DEF Tick
<1>9. CASE UNCHANGED allVars
  BY <1>9 DEF allVars
<1>10. QED
  BY <1>1, <1>2, <1>3, <1>4, <1>5, <1>6, <1>7, <1>8, <1>9 DEF WNext, Client

LEMMA FinishKeeps ==
  ASSUME WIInv, NEW frame \in Nat,
         NEW end \in {"success", "refused", "error", "timeout"}, Finish(end, frame)
  PROVE  RequestTypes' /\ TimeoutInRange'
<1>1. PICK n \in Nat : n = Len(requests)
  BY DEF WIInv, RequestTypes
<1>2. requests \in [1..n -> RequestRecord]
  BY <1>1 DEF WIInv, RequestTypes
<1>3. ASSUME n \in 1..n PROVE Ended(requests[n], end, frame) \in RequestRecord
  <2>1. requests[n] \in RequestRecord
    BY <1>2, <1>3
  <2>2. QED
    BY <2>1 DEF Ended, RequestRecord
<1>4. requests' = [requests EXCEPT ![n] = Ended(requests[n], end, frame)]
  BY <1>1 DEF Finish, Current
<1>5. requests' \in [1..n -> RequestRecord]
  BY <1>2, <1>3, <1>4
<1>6. requests' \in Seq(RequestRecord) /\ Len(requests') = n
  BY <1>1, <1>5
<1>7. RequestTypes'
  BY <1>1, <1>6 DEF WIInv, RequestTypes, Finish, vars
<1>8. TimeoutInRange'
  BY DEF WIInv, TimeoutInRange, Finish, vars
<1>9. QED
  BY <1>7, <1>8

LEMMA RequestKeeps ==
  ASSUME WIInv, NEW key \in RequestKey, Request(key)
  PROVE  RequestTypes' /\ TimeoutInRange'
<1>1. PICK n \in Nat : n = Len(requests)
  BY DEF WIInv, RequestTypes
<1>2. /\ requests \in Seq(RequestRecord) /\ CorrelationId = FirstCorrelationId + n
      /\ n < MaxRequests /\ CorrelationId' = FirstCorrelationId + (n + 1)
  BY <1>1, RequestAssumption DEF WIInv, RequestTypes, Request, Current
<1>3. FirstCorrelationId + (n + 1) \in Corr
  <2>1. \A i \in 1..MaxRequests : FirstCorrelationId + i \in Corr
    BY RequestAssumption
  <2>2. n + 1 \in 1..MaxRequests
    BY <1>1, <1>2, RequestAssumption
  <2>3. QED
    BY <2>1, <2>2
<1>4. [key |-> key, corr |-> CorrelationId + 1, arrived |-> link = "up",
       end |-> "none", frame |-> 0] \in RequestRecord
  <2>1. CorrelationId + 1 \in Corr
    BY <1>2, <1>3 DEF Request
  <2>2. (link = "up") \in BOOLEAN
    OBVIOUS
  <2>3. QED
    BY <2>1, <2>2, Zenon DEF RequestRecord
<1>5. requests' \in Seq(RequestRecord) /\ Len(requests') = n + 1
  BY <1>1, <1>2, <1>4 DEF Request
<1>6. RequestTypes'
  BY <1>2, <1>5, RequestAssumption DEF RequestTypes, Request
<1>7. TimeoutInRange'
  BY RequestAssumption DEF TimeoutInRange, Request, vars
<1>8. QED
  BY <1>6, <1>7

\* A step that leaves the request alone.
LEMMA RequestUnchanged ==
  ASSUME WIInv, UNCHANGED <<CorrelationId, at, elapsed, WaitMessageTimeout, requests>>,
         RxTimeout' = RxTimeout, pc = "idle" => pc' = "idle"
  PROVE  RequestTypes' /\ TimeoutInRange'
BY DEF WIInv, RequestTypes, TimeoutInRange

LEMMA SendLeavesCall ==
  ASSUME NEW f, Send(f)
  PROVE  RxTimeout' = RxTimeout /\ pc' = pc
BY DEF Send, call

LEMMA SkipKeeps ==
  ASSUME WIInv, SkipMessage
  PROVE  RequestTypes' /\ TimeoutInRange'
<1>1. RequestTypes'
  BY DEF WIInv, RequestTypes, SkipMessage, vars
<1>2. ASSUME elapsed < RequestTimeout
      PROVE  UInt32Minus(RequestTimeout, elapsed) \in 0..RequestTimeout \ {0}
  BY <1>2, RequestAssumption DEF UInt32Minus, WIInv, RequestTypes
<1>3. TimeoutInRange'
  BY <1>2, RequestAssumption DEF WIInv, TimeoutInRange, SkipMessage, vars, UInt32Minus, RequestTypes
<1>4. QED
  BY <1>1, <1>3

LEMMA WNextKeeps ==
  ASSUME IInv, WIInv, [WNext]_allVars
  PROVE  RequestTypes' /\ TimeoutInRange'
<1>1. ASSUME NEW r \in DOMAIN requests, NEW code \in Code \ {0}, Answer(r, code)
      PROVE  RequestTypes' /\ TimeoutInRange'
  BY <1>1, SendLeavesCall, RequestUnchanged DEF Answer
<1>2. ASSUME NEW kind \in Kind \ RequestKey, Unsolicited(kind)
      PROVE  RequestTypes' /\ TimeoutInRange'
  BY <1>2, SendLeavesCall, RequestUnchanged DEF Unsolicited, request
<1>3. CASE (Break("eof") \/ Break("reset")) /\ UNCHANGED request
  BY <1>3, RequestUnchanged DEF Break, call, request
<1>4. ASSUME NEW key \in RequestKey, Request(key) PROVE RequestTypes' /\ TimeoutInRange'
  BY <1>4, RequestKeeps
<1>5. CASE CallWaitMessage
  <2>1. RequestTypes'
    BY <1>5 DEF WIInv, RequestTypes, CallWaitMessage
  <2>2. TimeoutInRange'
    BY <1>5 DEF WIInv, TimeoutInRange, CallWaitMessage, Call
  <2>3. QED
    BY <2>1, <2>2
<1>6. CASE TimeIsUp \/ ConnectionLost
  BY <1>6, FinishKeeps DEF TimeIsUp, ConnectionLost
<1>7. CASE TakeResponse
  <2>1. Len(handled) > 0 /\ handled \in Seq(Delivery)
    BY <1>7 DEF TakeResponse, IInv, ReturnsMarkedMessage, TypeOK
  <2>2. handled[Len(handled)].frame \in Nat
    <3>1. PICK n \in 1..Len(handled) : n = Len(handled)
      BY <2>1
    <3>2. handled[n] \in Delivery
      BY <2>1
    <3>3. QED
      BY <3>1, <3>2 DEF Delivery
  <2>3. QED
    BY <1>7, <2>2, FinishKeeps DEF TakeResponse
<1>8. CASE SkipMessage
  BY <1>8, SkipKeeps
<1>9. CASE NoMessage
  <2>1. RequestTypes'
    BY <1>9 DEF WIInv, RequestTypes, NoMessage, vars
  <2>2. TimeoutInRange'
    BY <1>9 DEF WIInv, TimeoutInRange, NoMessage, vars
  <2>3. QED
    BY <2>1, <2>2
<1>10. CASE InWaitMessage
  BY <1>10, WaitMessageSteps, RequestUnchanged
<1>11. CASE Tick
  <2>1. RequestTypes'
    BY <1>11 DEF WIInv, RequestTypes, Tick, vars
  <2>2. elapsed <= elapsed'
    BY <1>11 DEF Tick, WIInv, RequestTypes
  <2>3. TimeoutInRange'
    BY <1>11, <2>2, RequestAssumption DEF WIInv, RequestTypes, TimeoutInRange, Tick, vars
  <2>4. QED
    BY <2>1, <2>3
<1>12. CASE UNCHANGED allVars
  BY <1>12, RequestUnchanged DEF allVars, vars, request, call
<1>13. QED
  BY <1>1, <1>2, <1>3, <1>4, <1>5, <1>6, <1>7, <1>8, <1>9, <1>10, <1>11, <1>12
     DEF WNext, Client

LEMMA WNextWIInv == IInv /\ WIInv /\ [WNext]_allVars => IInv' /\ WIInv'
<1> SUFFICES ASSUME IInv, WIInv, [WNext]_allVars PROVE IInv' /\ WIInv'
  OBVIOUS
<1>1. [Next]_vars
  BY WNextIsNext
<1>2. IInv'
  BY <1>1, NextIInv
<1>3. WIInv'
  BY WNextKeeps DEF WIInv
<1>4. QED
  BY <1>2, <1>3

LEMMA WInductive == WSpec => [](IInv /\ WIInv)
BY WInitWIInv, WNextWIInv, PTL DEF WSpec

\* rmqsWaitResponse and the request functions drive the receive side only by
\* calls of rmqsWaitMessage: what is proved of RxStream holds below them.
THEOREM UsesWaitMessageHolds == WSpec => UsesWaitMessage
<1>1. WInit => Init
  BY DEF WInit
<1>2. WIInv /\ [WNext]_allVars => [Next]_vars
  BY WNextIsNext
<1>3. QED
  BY <1>1, <1>2, WInductive, PTL DEF WSpec, Spec, UsesWaitMessage

\* However often the rest of the time is computed anew, and although the clock
\* may run out before it is (RxTimeout - Time wraps around), recv is entered only
\* with a timeout that is not 0 and not longer than the time of the request.
THEOREM RecvWithinRequestHolds == WSpec => []RecvWithinRequest
<1>1. WIInv => RecvWithinRequest
  BY DEF WIInv, TimeoutInRange, RecvWithinRequest
<1>2. QED
  BY <1>1, WInductive, PTL

\* Every frame is handled once, in order and by the handler of its key, while
\* requests wait, time out and are repeated.
THEOREM RequestsKeepOrder == WSpec => []InOrderOnce
BY UsesWaitMessageHolds, HandledInOrderOnce, PTL DEF UsesWaitMessage
(***************************************************************************)
(* Which answer belongs to which request.                                  *)
(***************************************************************************)

\* A frame with the key of a request is the answer to a request that was sent; of
\* the others only the broker's own Close carries a correlation id.
Sourced(k) ==
    /\ frames[k].size = SizeOf[frames[k].kind]
    /\ IF frames[k].kind \in RequestKey
       THEN \E r \in DOMAIN requests : Answers(k, r)
       ELSE frames[k].kind = "CloseRequest" \/ frames[k].corr = 0

Provenance ==
    /\ \A r \in DOMAIN requests :
         requests[r].corr = FirstCorrelationId + r /\ requests[r].key \in RequestKey
    /\ \A k \in DOMAIN frames : Sourced(k)

\* rmqsWaitMessage runs only under the loop of rmqsWaitResponse.
Control ==
    /\ pc # "idle" => at = "wait"
    /\ at # "caller" => Current > 0

\* The answer to the request in progress is the message just returned, or it has
\* not been handled.
Undropped ==
    IsLittleEndianMachine /\ at # "caller" => \A k \in DOMAIN handled :
        Answers(k, Current) => at = "wait" /\ pc = "idle" /\ result /\ k = Len(handled)

\* What came of request r is justified by the frame it was decided by.
Outcome(r) ==
    /\ requests[r].end \in {"success", "refused"} => requests[r].frame \in DOMAIN frames
    /\ requests[r].end = "success" =>
         /\ Answers(requests[r].frame, r) \/ PassesForAnswer(requests[r].frame, r)
         /\ frames[requests[r].frame].code = OK
    /\ requests[r].end = "refused" =>
         \/ Answers(requests[r].frame, r) /\ frames[requests[r].frame].code # OK
         \/ frames[requests[r].frame].kind = "CloseRequest"
         \/ frames[requests[r].frame].size < ResponseSize

Outcomes == \A r \in DOMAIN requests : Outcome(r)

AInv == Provenance /\ Control /\ Undropped /\ Outcomes

LEMMA WInitAInv == WInit => AInv
<1> SUFFICES ASSUME WInit PROVE AInv
  OBVIOUS
<1>1. DOMAIN requests = {} /\ DOMAIN frames = {} /\ DOMAIN handled = {}
      /\ at = "caller" /\ pc = "idle"
  BY DEF WInit, Init
<1>2. QED
  BY <1>1 DEF AInv, Provenance, Control, Undropped, Outcomes

\* Frames and requests are only added, and a request keeps its key and id: what
\* answers what stays so.
Grows ==
    /\ DOMAIN frames \subseteq DOMAIN frames' /\ DOMAIN requests \subseteq DOMAIN requests'
    /\ \A k \in DOMAIN frames : frames'[k] = frames[k]
    /\ \A r \in DOMAIN requests :
         requests'[r].key = requests[r].key /\ requests'[r].corr = requests[r].corr

LEMMA AnswersStay ==
  ASSUME Grows, NEW k \in DOMAIN frames, NEW r \in DOMAIN requests
  PROVE  Answers(k, r)' <=> Answers(k, r)
BY DEF Grows, Answers

\* The steps on frames and on requests.
LEMMA SendGrows ==
  ASSUME IInv, NEW f \in Frame, Send(f), UNCHANGED requests
  PROVE  /\ Grows
         /\ \A k \in DOMAIN frames' : k \in DOMAIN frames \/ frames'[k] = f
<1>1. PICK n \in Nat : n = Len(frames) /\ frames \in Seq(Frame)
  BY LenProperties DEF IInv, TypeOK
<1>2. /\ frames' = Append(frames, f) /\ Len(frames') = n + 1
      /\ DOMAIN frames = 1..n /\ DOMAIN frames' = 1..(n + 1)
      /\ \A k \in 1..n : frames'[k] = frames[k]
      /\ frames'[n + 1] = f
  BY <1>1 DEF Send
<1>3. QED
  BY <1>1, <1>2 DEF Grows

LEMMA FinishFacts ==
  ASSUME WIInv, Control, at # "caller", NEW end, NEW frame, Finish(end, frame)
  PROVE  /\ Current \in DOMAIN requests /\ DOMAIN requests' = DOMAIN requests
         /\ \A r \in DOMAIN requests \ {Current} : requests'[r] = requests[r]
         /\ requests'[Current] = Ended(requests[Current], end, frame)
         /\ Grows /\ Current' = Current
<1>1. PICK n \in Nat : n = Len(requests) /\ n > 0 /\ DOMAIN requests = 1..n
  BY DEF WIInv, RequestTypes, Control, Current
<1>2. requests' = [requests EXCEPT ![n] = Ended(requests[n], end, frame)]
  BY <1>1 DEF Finish, Current
<1>3. /\ DOMAIN requests' = DOMAIN requests
      /\ \A r \in DOMAIN requests \ {n} : requests'[r] = requests[r]
      /\ requests'[n] = Ended(requests[n], end, frame)
  BY <1>1, <1>2
<1>4. Grows
  BY <1>3 DEF Grows, Ended, Finish, vars
<1>5. Len(requests') = n
  BY <1>1, <1>2 DEF WIInv, RequestTypes
<1>6. QED
  BY <1>1, <1>3, <1>4, <1>5 DEF Current

\* Once there are as many frames and requests, and as many of them ended, the
\* sources and the outcomes hold again.
LEMMA ProvenanceStays ==
  ASSUME Provenance, Grows, DOMAIN frames' = DOMAIN frames, DOMAIN requests' = DOMAIN requests
  PROVE  Provenance'
<1>1. ASSUME NEW k \in DOMAIN frames PROVE Sourced(k)'
  <2>1. frames'[k] = frames[k]
    BY DEF Grows
  <2>2. \A r \in DOMAIN requests : Answers(k, r)' <=> Answers(k, r)
    BY AnswersStay
  <2>3. QED
    BY <2>1, <2>2 DEF Provenance, Sourced
<1>2. \A r \in DOMAIN requests : requests'[r].corr = requests[r].corr
                              /\ requests'[r].key = requests[r].key
  BY DEF Grows
<1>3. QED
  BY <1>1, <1>2 DEF Provenance

LEMMA OutcomeStays ==
  ASSUME Grows, NEW r \in DOMAIN requests, Outcome(r), requests'[r] = requests[r]
  PROVE  Outcome(r)'
<1>1. CASE requests[r].end \in {"success", "refused"}
  <2>1. PICK k \in DOMAIN frames : k = requests[r].frame
    BY <1>1 DEF Outcome
  <2>2. frames'[k] = frames[k] /\ k \in DOMAIN frames' /\ (Answers(k, r)' <=> Answers(k, r))
    BY <2>1, AnswersStay DEF Grows
  <2>3. PassesForAnswer(k, r)' <=> PassesForAnswer(k, r)
    BY <2>2 DEF PassesForAnswer
  <2>4. QED
    BY <2>1, <2>2, <2>3 DEF Outcome
<1>2. CASE requests[r].end \notin {"success", "refused"}
  BY <1>2 DEF Outcome
<1>3. QED
  BY <1>1, <1>2

LEMMA OutcomesStay ==
  ASSUME Outcomes, Grows, UNCHANGED requests
  PROVE  Outcomes'
BY OutcomeStays DEF Outcomes

\* The client does nothing: the broker, the clock, or a step of the network.
LEMMA QuietStep ==
  ASSUME IInv, AInv, Grows, Provenance', UNCHANGED <<requests, handled, at, pc, result>>
  PROVE  AInv'
<1>1. Control' /\ Outcomes'
  BY OutcomesStay DEF AInv, Control, Current
<1>2. Undropped'
  <2>1. SUFFICES ASSUME IsLittleEndianMachine, at # "caller",
                        NEW k \in DOMAIN handled, Answers(k, Current)'
                 PROVE  at = "wait" /\ pc = "idle" /\ result /\ k = Len(handled)
    BY DEF Undropped
  <2>2. k \in DOMAIN frames
    BY DEF IInv, InOrderOnce
  <2>3. frames'[k] = frames[k] /\ Current' = Current
    BY <2>2 DEF Grows, Current
  <2>4. Answers(k, Current)
    BY <2>1, <2>2, <2>3 DEF Answers, Current
  <2>5. QED
    BY <2>1, <2>4 DEF AInv, Undropped
<1>3. QED
  BY <1>1, <1>2 DEF AInv

LEMMA AnswerKeepsA ==
  ASSUME IInv, WIInv, AInv, NEW r \in DOMAIN requests, NEW code \in Code \ {0}, Answer(r, code)
  PROVE  AInv'
<1> DEFINE f == FrameOf(requests[r].key, requests[r].corr, code)
<1>1. requests[r] \in RequestRecord /\ requests[r].key \in RequestKey
  BY DEF WIInv, RequestTypes, AInv, Provenance
<1>2. f \in Frame /\ Send(f) /\ UNCHANGED <<requests, at>>
  BY <1>1, RequestAssumption DEF FrameOf, Frame, RequestRecord, Answer
<1>3. Grows /\ \A k \in DOMAIN frames' : k \in DOMAIN frames \/ frames'[k] = f
  BY <1>2, SendGrows
<1>4. ASSUME NEW k \in DOMAIN frames' PROVE Sourced(k)'
  <2>1. CASE k \in DOMAIN frames
    <3>1. frames'[k] = frames[k] /\ \A q \in DOMAIN requests : Answers(k, q)' <=> Answers(k, q)
      BY <1>3, <2>1, AnswersStay DEF Grows
    <3>2. Sourced(k)
      BY <2>1 DEF AInv, Provenance
    <3>3. QED
      BY <1>2, <3>1, <3>2 DEF Sourced
  <2>2. CASE frames'[k] = f
    <3>1. Answers(k, r)'
      BY <1>2, <2>2 DEF Answers, FrameOf
    <3>2. QED
      BY <1>1, <1>2, <2>2, <3>1 DEF Sourced, FrameOf
  <2>3. QED
    BY <1>3, <2>1, <2>2
<1>5. Provenance'
  BY <1>2, <1>4 DEF AInv, Provenance
<1>6. UNCHANGED <<handled, pc, result>>
  BY <1>2 DEF Send, call
<1>7. QED
  BY <1>2, <1>3, <1>5, <1>6, QuietStep

LEMMA UnsolicitedKeepsA ==
  ASSUME IInv, WIInv, AInv, NEW kind \in Kind \ RequestKey, Unsolicited(kind)
  PROVE  AInv'
<1>1. PICK corr \in Corr, code \in Code :
         Send(FrameOf(kind, corr, code)) /\ (kind # "CloseRequest" => corr = 0)
  BY DEF Unsolicited
<1> DEFINE f == FrameOf(kind, corr, code)
<1>2. f \in Frame /\ Send(f) /\ UNCHANGED <<requests, at>>
  BY <1>1, RequestAssumption DEF FrameOf, Frame, Unsolicited, request
<1>3. Grows /\ \A k \in DOMAIN frames' : k \in DOMAIN frames \/ frames'[k] = f
  BY <1>2, SendGrows
<1>4. ASSUME NEW k \in DOMAIN frames' PROVE Sourced(k)'
  <2>1. CASE k \in DOMAIN frames
    <3>1. frames'[k] = frames[k] /\ \A q \in DOMAIN requests : Answers(k, q)' <=> Answers(k, q)
      BY <1>3, <2>1, AnswersStay DEF Grows
    <3>2. Sourced(k)
      BY <2>1 DEF AInv, Provenance
    <3>3. QED
      BY <1>2, <3>1, <3>2 DEF Sourced
  <2>2. CASE frames'[k] = f
    BY <1>1, <2>2 DEF Sourced, FrameOf
  <2>3. QED
    BY <1>3, <2>1, <2>2
<1>5. Provenance'
  BY <1>2, <1>4 DEF AInv, Provenance
<1>6. UNCHANGED <<handled, pc, result>>
  BY <1>2 DEF Send, call
<1>7. QED
  BY <1>2, <1>3, <1>5, <1>6, QuietStep

\* A new request has an id no frame has yet.
LEMMA RequestKeepsA ==
  ASSUME IInv, WIInv, AInv, NEW key \in RequestKey, Request(key)
  PROVE  AInv'
<1>1. PICK n \in Nat : n = Len(requests)
  BY DEF WIInv, RequestTypes
<1> DEFINE q == [key |-> key, corr |-> CorrelationId + 1, arrived |-> link = "up",
                 end |-> "none", frame |-> 0]
<1>2. /\ requests \in Seq(RequestRecord) /\ CorrelationId = FirstCorrelationId + n
      /\ requests' = Append(requests, q) /\ UNCHANGED <<frames, handled, pc, result>>
      /\ at' = "loop" /\ pc = "idle"
  BY <1>1 DEF WIInv, RequestTypes, Request, vars
<1>3. /\ DOMAIN requests = 1..n /\ DOMAIN requests' = 1..(n + 1)
      /\ Len(requests') = n + 1
      /\ \A r \in 1..n : requests'[r] = requests[r]
      /\ requests'[n + 1] = q
  BY <1>1, <1>2
<1>4. Grows
  BY <1>2, <1>3 DEF Grows
<1>5. q.key = key /\ q.corr = FirstCorrelationId + (n + 1) /\ q.end = "none"
  BY <1>1, <1>2, RequestAssumption
<1> HIDE DEF q
<1>6. Provenance'
  <2>1. ASSUME NEW k \in DOMAIN frames PROVE Sourced(k)'
    <3>1. Sourced(k) /\ \A r \in DOMAIN requests : Answers(k, r)' <=> Answers(k, r)
      BY <1>4, AnswersStay DEF AInv, Provenance
    <3>2. QED
      BY <1>2, <1>3, <3>1 DEF Sourced
  <2>2. ASSUME NEW r \in 1..(n + 1)
        PROVE  requests'[r].corr = FirstCorrelationId + r /\ requests'[r].key \in RequestKey
    <3>1. r \in 1..n \/ r = n + 1
      BY <1>1
    <3>2. QED
      BY <3>1, <1>3, <1>5 DEF AInv, Provenance
  <2>3. QED
    BY <2>1, <2>2, <1>2, <1>3 DEF Provenance
<1>7. Control'
  BY <1>1, <1>2, <1>3 DEF Control, Current
<1>8. Outcomes'
  <2>1. \A r \in 1..n : Outcome(r)'
    BY <1>3, <1>4, OutcomeStays DEF AInv, Outcomes
  <2>2. Outcome(n + 1)'
    BY <1>3, <1>5 DEF Outcome
  <2>3. \A r \in 1..(n + 1) : r \in 1..n \/ r = n + 1
    BY <1>1
  <2>4. QED
    BY <2>1, <2>2, <2>3, <1>3 DEF Outcomes
<1>9. Undropped'
  <2>1. SUFFICES ASSUME NEW k \in DOMAIN handled, Answers(k, Current)'
                 PROVE  FALSE
    BY <1>2 DEF Undropped
  <2>2. Current' = n + 1
    BY <1>3 DEF Current
  <2>3. k \in DOMAIN frames /\ frames[k].kind = key
        /\ frames[k].corr = FirstCorrelationId + (n + 1)
    BY <2>1, <2>2, <1>2, <1>3, <1>5 DEF Answers
  <2>4. PICK r \in 1..n : Answers(k, r)
    BY <2>3, <1>3 DEF AInv, Provenance, Sourced
  <2>5. frames[k].corr = FirstCorrelationId + r
    BY <2>4, <1>3 DEF Answers, AInv, Provenance
  <2>6. QED
    BY <1>1, <2>3, <2>5, RequestAssumption
<1>10. QED
  BY <1>6, <1>7, <1>8, <1>9 DEF AInv

\* The request function returns, and what it returns is justified.
LEMMA FinishKeepsA ==
  ASSUME IInv, WIInv, AInv, at # "caller", pc = "idle", NEW end, NEW frame, Finish(end, frame),
         end \in {"success", "refused"} => frame \in DOMAIN frames,
         end = "success" => /\ Answers(frame, Current) \/ PassesForAnswer(frame, Current)
                            /\ frames[frame].code = OK,
         end = "refused" => \/ Answers(frame, Current) /\ frames[frame].code # OK
                            \/ frames[frame].kind = "CloseRequest"
                            \/ frames[frame].size < ResponseSize
  PROVE  AInv'
<1>1. /\ Current \in DOMAIN requests /\ DOMAIN requests' = DOMAIN requests
      /\ \A r \in DOMAIN requests \ {Current} : requests'[r] = requests[r]
      /\ requests'[Current] = Ended(requests[Current], end, frame)
      /\ Grows /\ Current' = Current
  BY FinishFacts DEF AInv
<1>2. at' = "caller" /\ UNCHANGED <<frames, handled, pc, result>>
  BY DEF Finish, vars
<1>3. Provenance'
  BY <1>1, <1>2, ProvenanceStays DEF AInv
<1>4. Control' /\ Undropped'
  BY <1>2 DEF Control, Undropped
<1>5. ASSUME NEW r \in DOMAIN requests PROVE Outcome(r)'
  <2>1. CASE r # Current
    BY <1>1, <2>1, OutcomeStays DEF AInv, Outcomes
  <2>2. CASE r = Current
    <3>1. requests'[r] = Ended(requests[r], end, frame)
      BY <1>1, <2>2
    <3>2. /\ Answers(frame, r)' <=> Answers(frame, r)
          /\ PassesForAnswer(frame, r)' <=> PassesForAnswer(frame, r)
      BY <1>2, <3>1 DEF Answers, PassesForAnswer, Ended
    <3>3. QED
      BY <1>2, <2>2, <3>1, <3>2 DEF Outcome, Ended
  <2>3. QED
    BY <2>1, <2>2
<1>6. QED
  BY <1>1, <1>3, <1>4, <1>5 DEF AInv, Outcomes

\* What rmqsWaitResponse reads of a message it was returned are the fields of the
\* frame handled last, as far as that frame has them.
LEMMA MarkedFields ==
  ASSUME IInv, pc = "idle", result, LongEnough
  PROVE  /\ Front = Len(handled) /\ Front \in DOMAIN handled /\ Front \in DOMAIN frames
         /\ handled[Front].frame = Front
         /\ Keys(RxQueue.Data) = {frames[Front].kind}
         /\ frames[Front].size >= ResponseSize =>
              /\ CorrelationRead(RxQueue.Data) = {frames[Front].corr}
              /\ CodeRead(RxQueue.Data) = {frames[Front].code}
<1>1. RxQueue.Tag1 /\ Front = Len(handled) /\ Front \in DOMAIN handled
  BY LenProperties DEF IInv, ReturnsMarkedMessage, Front, TypeOK
<1>2. Front \in DOMAIN frames /\ handled[Front].frame = Front
  BY <1>1 DEF IInv, InOrderOnce
<1>3. PICK f \in DOMAIN frames : f = Front
  BY <1>2
<1>4. RxQueue.Size \in Nat /\ RxQueue.Size >= 14
  BY DEF LongEnough, ResponseSize, IInv, TypeOK, Buffer
<1>5. ASSUME NEW d \in {4, 8, 12}, NEW n \in {2, 4}, d + n <= 14
      PROVE  FieldOf(RxQueue.Data, d, n) = {f}
  <2>1. d \in Nat /\ n \in Nat /\ n > 0 /\ d + n <= RxQueue.Size
    BY <1>4, <1>5
  <2>2. QED
    BY <1>3, <2>1, FrontField
<1>6. /\ FieldOf(RxQueue.Data, 4, 2) = {f} /\ FieldOf(RxQueue.Data, 8, 4) = {f}
      /\ FieldOf(RxQueue.Data, 12, 2) = {f}
  BY <1>5
<1>7. Keys(RxQueue.Data) = {frames[f].kind}
  BY <1>6 DEF Keys
<1>8. ASSUME frames[f].size >= ResponseSize
      PROVE  /\ CorrelationRead(RxQueue.Data) = {frames[f].corr}
             /\ CodeRead(RxQueue.Data) = {frames[f].code}
  <2>1. frames[f].size \in Nat
    BY FrameSize
  <2>2. frames[f].size >= 12 /\ frames[f].size >= 14
    BY <2>1, <1>8 DEF ResponseSize
  <2>3. QED
    BY <1>6, <2>2 DEF CorrelationRead, CodeRead
<1>9. QED
  BY <1>1, <1>2, <1>3, <1>7, <1>8

\* The message in RxQueue, when it is as long as a response and has the current
\* correlation id, is the broker's Close or the answer to the request.
LEMMA SourceOfMatch ==
  ASSUME IInv, WIInv, AInv, at = "wait", NEW f \in DOMAIN frames,
         frames[f].corr = CorrelationId
  PROVE  Answers(f, Current) \/ frames[f].kind = "CloseRequest"
<1>1. PICK n \in Nat : n = Len(requests) /\ n > 0 /\ DOMAIN requests = 1..n
  BY DEF WIInv, RequestTypes, AInv, Control, Current
<1>2. CorrelationId = FirstCorrelationId + n /\ FirstCorrelationId \in Nat
  BY <1>1, RequestAssumption DEF WIInv, RequestTypes
<1>3. CASE frames[f].kind \notin RequestKey
  BY <1>1, <1>2, <1>3 DEF AInv, Provenance, Sourced
<1>4. CASE frames[f].kind \in RequestKey
  <2>1. PICK r \in 1..n : Answers(f, r)
    BY <1>1, <1>4 DEF AInv, Provenance, Sourced
  <2>2. frames[f].corr = FirstCorrelationId + r
    BY <1>1, <2>1 DEF Answers, AInv, Provenance
  <2>3. r = n
    BY <1>1, <1>2, <2>2
  <2>4. QED
    BY <1>1, <2>1, <2>3 DEF Current
<1>5. QED
  BY <1>3, <1>4

LEMMA TakeResponseKeepsA ==
  ASSUME IInv, WIInv, AInv, TakeResponse
  PROVE  AInv'
<1>1. at = "wait" /\ pc = "idle" /\ result /\ Matches /\ LongEnough
  BY DEF TakeResponse, Matches
<1>2. PICK f \in DOMAIN frames :
         /\ f = Front /\ handled[Len(handled)].frame = f
         /\ Keys(RxQueue.Data) = {frames[f].kind}
         /\ frames[f].size >= ResponseSize =>
              /\ CorrelationRead(RxQueue.Data) = {frames[f].corr}
              /\ CodeRead(RxQueue.Data) = {frames[f].code}
  BY <1>1, MarkedFields
<1> DEFINE end == IF (\A key \in Keys(RxQueue.Data) : Masked(key) = requests[Current].key)
                       /\ CodeRead(RxQueue.Data) = {OK}
                  THEN "success" ELSE "refused"
<1>3. Finish(end, f)
  BY <1>2 DEF TakeResponse
<1>4. frames[f].size >= ResponseSize => Answers(f, Current) \/ frames[f].kind = "CloseRequest"
  <2>1. SUFFICES ASSUME frames[f].size >= ResponseSize
                 PROVE  Answers(f, Current) \/ frames[f].kind = "CloseRequest"
    OBVIOUS
  <2>2. frames[f].corr = CorrelationId
    BY <1>1, <1>2, <2>1 DEF Matches
  <2>3. QED
    BY <1>1, <2>2, SourceOfMatch
<1>5. frames[f].size < ResponseSize \/ frames[f].size >= ResponseSize
  BY FrameSize DEF ResponseSize
<1>6. Current \in DOMAIN requests /\ requests[Current].corr = CorrelationId
  BY <1>1 DEF WIInv, RequestTypes, Current, AInv, Provenance, Control
<1>7. end = "success" => /\ Answers(f, Current) \/ PassesForAnswer(f, Current)
                         /\ frames[f].code = OK
  <2>1. SUFFICES ASSUME Masked(frames[f].kind) = requests[Current].key,
                        CodeRead(RxQueue.Data) = {OK}
                 PROVE  /\ Answers(f, Current) \/ PassesForAnswer(f, Current)
                        /\ frames[f].code = OK
    BY <1>2
  <2>2. frames[f].kind = requests[Current].key
        \/ (frames[f].kind = "CloseRequest" /\ requests[Current].key = "Close")
    BY <2>1 DEF Masked
  <2>3. frames[f].kind \in RequestKey \cup ({"CloseRequest"} \cap Kind)
        /\ frames[f].size = SizeOf[frames[f].kind]
    <3>1. frames[f].kind \in Kind
      BY FrameSize DEF Frame
    <3>2. QED
      BY <1>6, <2>2, <3>1 DEF AInv, Provenance, Sourced
  <2>4. frames[f].size >= ResponseSize
    BY <2>3, RequestAssumption
  <2>5. frames[f].corr = CorrelationId
    BY <1>1, <1>2, <2>4 DEF Matches
  <2>6. Answers(f, Current) \/ PassesForAnswer(f, Current)
    BY <1>6, <2>2, <2>5 DEF Answers, PassesForAnswer
  <2>7. QED
    BY <1>2, <2>1, <2>4, <2>6
<1>8. end = "refused" => \/ Answers(f, Current) /\ frames[f].code # OK
                         \/ frames[f].kind = "CloseRequest"
                         \/ frames[f].size < ResponseSize
  <2>1. SUFFICES ASSUME end = "refused", frames[f].size >= ResponseSize, Answers(f, Current)
                 PROVE  frames[f].code # OK
    BY <1>4, <1>5
  <2>2. \A key \in Keys(RxQueue.Data) : Masked(key) = requests[Current].key
    <3>1. requests[Current].key # "CloseRequest"
      BY <1>6, RequestAssumption DEF AInv, Provenance
    <3>2. QED
      BY <1>2, <2>1, <3>1 DEF Answers, Masked
  <2>3. CodeRead(RxQueue.Data) # {OK}
    BY <2>1, <2>2
  <2>4. QED
    BY <1>2, <2>1, <2>3
<1> HIDE DEF end
<1>9. QED
  BY <1>1, <1>3, <1>7, <1>8, FinishKeepsA

\* The message is not taken: then it does not answer the request.
LEMMA SkipKeepsA ==
  ASSUME IInv, WIInv, AInv, SkipMessage
  PROVE  AInv'
<1>1. /\ at = "wait" /\ at' = "loop" /\ pc = "idle" /\ result /\ ~Matches
      /\ UNCHANGED <<frames, requests, handled, pc, result>>
  BY DEF SkipMessage, vars
<1>2. Grows /\ Current' = Current
  BY <1>1 DEF Grows, Current
<1>3. Provenance' /\ Outcomes' /\ Control'
  BY <1>1, <1>2, ProvenanceStays, OutcomesStay DEF AInv, Control
<1>4. Undropped'
  <2>1. SUFFICES ASSUME IsLittleEndianMachine, NEW k \in DOMAIN handled, Answers(k, Current)'
                 PROVE  FALSE
    BY <1>1 DEF Undropped
  <2>2. Answers(k, Current) /\ k = Len(handled)
    BY <1>1, <1>2, <2>1 DEF Answers, AInv, Undropped
  <2>3. RxQueue.Tag1 /\ Front = k
    BY <1>1, <2>2 DEF IInv, ReturnsMarkedMessage, Front
  <2>4. Current \in DOMAIN requests /\ CorrelationId = FirstCorrelationId + Current
    BY <1>1 DEF WIInv, RequestTypes, AInv, Control, Current
  <2>5. /\ k \in DOMAIN frames /\ frames[k].kind \in RequestKey
        /\ frames[k].corr = CorrelationId /\ frames[k].size = SizeOf[frames[k].kind]
    BY <2>2, <2>4 DEF Answers, AInv, Provenance, Sourced
  <2>6. frames[k].size >= ResponseSize
    BY <2>5, RequestAssumption
  <2>7. LongEnough
    <3>1. RxQueue.Size >= frames[k].size /\ RxQueue.Size \in Nat
      BY <2>3 DEF IInv, Framing, TypeOK, Buffer
    <3>2. QED
      BY <2>5, <2>6, <3>1, FrameSize DEF LongEnough, ResponseSize
  <2>8. Keys(RxQueue.Data) = {frames[k].kind} /\ CorrelationRead(RxQueue.Data) = {CorrelationId}
    BY <1>1, <2>3, <2>5, <2>6, <2>7, MarkedFields
  <2>9. HasCorrelationId(frames[k].kind)
    BY <2>5, RequestAssumption DEF HasCorrelationId
  <2>10. QED
    BY <1>1, <2>1, <2>7, <2>8, <2>9 DEF Matches
<1>5. QED
  BY <1>3, <1>4 DEF AInv

\* The loop goes on without a message that answers the request.
LEMMA LoopKeepsA ==
  ASSUME IInv, AInv, NoMessage \/ CallWaitMessage
  PROVE  AInv'
<1>1. UNCHANGED <<frames, requests, handled>> /\ at # "caller" /\ at' # "caller"
      /\ (at = "loop" \/ ~result)
  BY DEF NoMessage, CallWaitMessage, Call, broker, vars
<1>2. Grows /\ Current' = Current
  BY <1>1 DEF Grows, Current
<1>3. Provenance' /\ Outcomes'
  BY <1>1, <1>2, ProvenanceStays, OutcomesStay DEF AInv
<1>4. Control'
  BY <1>1, <1>2 DEF AInv, Control, NoMessage, CallWaitMessage, vars
<1>5. Undropped'
  BY <1>1, <1>2 DEF AInv, Undropped, Answers
<1>6. QED
  BY <1>3, <1>4, <1>5 DEF AInv

\* A frame cut out of the stream answers the request only if it is returned.
LEMMA ParseKeepsA ==
  ASSUME IInv, WIInv, AInv, ParseComplete, UNCHANGED <<at, requests>>
  PROVE  AInv'
<1> DEFINE h == Handler(ClientType, frames[Front].kind)
<1>1. /\ Front = Len(handled) + 1 /\ Front \in DOMAIN frames
      /\ handled' = Append(handled, [frame |-> Front, by |-> h])
      /\ IF h = "caller" THEN Return(TRUE, ConnectionError)
         ELSE pc' = "top" /\ UNCHANGED call
      /\ UNCHANGED frames
  BY ParseCompleteFacts
<1>2. Grows /\ Current' = Current
  BY <1>1 DEF Grows, Current
<1>3. Provenance' /\ Outcomes'
  BY <1>1, <1>2, ProvenanceStays, OutcomesStay DEF AInv
<1>4. pc = "parse" /\ at = "wait"
  BY DEF ParseComplete, AInv, Control
<1>5. Control'
  BY <1>2, <1>4 DEF AInv, Control
<1>6. Undropped'
  <2>1. PICK n \in Nat : n = Len(handled) /\ DOMAIN handled = 1..n /\ Len(handled') = n + 1
                         /\ DOMAIN handled' = 1..(n + 1)
    BY <1>1, LenProperties DEF IInv, TypeOK
  <2>2. ASSUME IsLittleEndianMachine, NEW k \in 1..(n + 1), Answers(k, Current)
        PROVE  k = n + 1 /\ pc' = "idle" /\ result'
    <3>1. k \notin 1..n
      BY <1>4, <2>1, <2>2 DEF AInv, Undropped
    <3>2. k = Front
      BY <1>1, <2>1, <3>1
    <3>3. Current \in DOMAIN requests
      BY <1>4 DEF AInv, Control, WIInv, RequestTypes, Current
    <3>4. frames[k].kind \in RequestKey
      BY <2>2, <3>3 DEF Answers, AInv, Provenance
    <3>5. h = "caller"
      BY <3>2, <3>4, RequestAssumption DEF Handler
    <3>6. QED
      BY <1>1, <2>1, <3>2, <3>5 DEF Return
  <2>3. \A k \in DOMAIN handled' : Answers(k, Current)' => Answers(k, Current)
    BY <1>1, <1>2 DEF Answers
  <2>4. QED
    BY <1>4, <2>1, <2>2, <2>3 DEF Undropped
<1>7. QED
  BY <1>3, <1>5, <1>6 DEF AInv

\* The other steps of rmqsWaitMessage cut no frame out of the stream.
LEMMA WaitMessageKeepsA ==
  ASSUME IInv, WIInv, AInv, InWaitMessage
  PROVE  AInv'
<1>1. UNCHANGED <<at, requests>>
  BY WaitMessageSteps
<1>2. CASE ParseComplete
  BY <1>1, <1>2, ParseKeepsA
<1>3. CASE ~ParseComplete
  <2>1. LoopTop \/ RecvTimeout \/ RecvSegment \/ RecvClosed \/ RecvReset
          \/ ParseNoLength \/ ParsePartial
    BY <1>3 DEF InWaitMessage
  <2>2. UNCHANGED <<frames, handled>> /\ pc # "idle"
    BY <2>1 DEF LoopTop, RecvTimeout, RecvSegment, Recv, RecvClosed, RecvReset,
                ParseNoLength, ParsePartial, broker
  <2>3. Grows /\ Current' = Current
    BY <1>1, <2>2 DEF Grows, Current
  <2>4. Provenance' /\ Outcomes'
    BY <1>1, <2>2, <2>3, ProvenanceStays, OutcomesStay DEF AInv
  <2>5. Control' /\ Undropped'
    BY <1>1, <2>2, <2>3 DEF AInv, Control, Undropped, Answers
  <2>6. QED
    BY <2>4, <2>5 DEF AInv
<1>4. QED
  BY <1>2, <1>3

LEMMA WNextAInv == IInv /\ WIInv /\ AInv /\ [WNext]_allVars => AInv'
<1> SUFFICES ASSUME IInv, WIInv, AInv, [WNext]_allVars PROVE AInv'
  OBVIOUS
<1>1. ASSUME NEW r \in DOMAIN requests, NEW code \in Code \ {0}, Answer(r, code) PROVE AInv'
  BY <1>1, AnswerKeepsA
<1>2. ASSUME NEW kind \in Kind \ RequestKey, Unsolicited(kind) PROVE AInv'
  BY <1>2, UnsolicitedKeepsA
<1>3. ASSUME UNCHANGED <<frames, requests, handled, at, pc, result>> PROVE AInv'
  <2>1. Grows
    BY <1>3 DEF Grows
  <2>2. Provenance'
    BY <1>3, <2>1, ProvenanceStays DEF AInv
  <2>3. QED
    BY <1>3, <2>1, <2>2, QuietStep
<1>4. CASE (Break("eof") \/ Break("reset")) /\ UNCHANGED request
  BY <1>3, <1>4 DEF Break, broker, call, request
<1>5. ASSUME NEW key \in RequestKey, Request(key) PROVE AInv'
  BY <1>5, RequestKeepsA
<1>6. CASE CallWaitMessage \/ NoMessage
  BY <1>6, LoopKeepsA
<1>7. CASE TimeIsUp \/ ConnectionLost
  <2>1. at # "caller" /\ pc = "idle"
    BY <1>7 DEF TimeIsUp, ConnectionLost, AInv, Control
  <2>2. QED
    BY <1>7, <2>1, FinishKeepsA DEF TimeIsUp, ConnectionLost
<1>8. CASE TakeResponse
  BY <1>8, TakeResponseKeepsA
<1>9. CASE SkipMessage
  BY <1>9, SkipKeepsA
<1>10. CASE InWaitMessage
  BY <1>10, WaitMessageKeepsA
<1>11. CASE Tick \/ UNCHANGED allVars
  BY <1>3, <1>11 DEF Tick, vars, allVars, request
<1>12. QED
  BY <1>1, <1>2, <1>4, <1>5, <1>6, <1>7, <1>8, <1>9, <1>10, <1>11 DEF WNext, Client

LEMMA AInductive == WSpec => [](IInv /\ AInv)
BY WInitAInv, WNextAInv, WInductive, PTL DEF WSpec

\* A request function that returns true was answered, and with OK, by the broker:
\* neither a late answer to an earlier request nor another message of the broker
\* passes for the response (rmqsWaitResponse compares the correlation id); only
\* rmqsClose also takes a Close of the broker with its id and OK for it.
THEOREM SuccessHolds == WSpec => []SuccessIsAnswered
<1>1. AInv => SuccessIsAnswered
  BY DEF AInv, Outcomes, Outcome, SuccessIsAnswered
<1>2. QED
  BY <1>1, AInductive, PTL

\* A request function reports a refusal only of a response that says so, of the
\* broker's Close, or of a message shorter than a response.
THEOREM RefusalHolds == WSpec => []RefusalIsAnswered
<1>1. AInv => RefusalIsAnswered
  BY DEF AInv, Outcomes, Outcome, RefusalIsAnswered
<1>2. QED
  BY <1>1, AInductive, PTL

\* While rmqsWaitResponse is in its loop, the response it waits for has not gone
\* by: neither rmqsWaitMessage nor the loop has dropped it, on a little-endian
\* machine (on another the loop drops it whenever it comes).
THEOREM AnswerKept == WSpec => []AnswerNotDropped
<1>1. IInv /\ AInv => AnswerNotDropped
  BY DEF IInv, InOrderOnce, AInv, Undropped, AnswerNotDropped
<1>2. QED
  BY <1>1, AInductive, PTL

(***************************************************************************)
(* Types.  The clock of the request stops one tick after its time, so the  *)
(* rest of the time wraps around below 0 by one at most.                   *)
(***************************************************************************)

Clocks ==
    /\ at \in {"caller", "loop", "wait"}
    /\ elapsed \in 0..(RequestTimeout + 1) /\ waited \in 0..RequestTimeout
    /\ WaitMessageTimeout \in 0..(UInt32 - 1)
    /\ answered \subseteq DOMAIN requests

LEMMA RestOfTime ==
  ASSUME elapsed \in 0..(RequestTimeout + 1)
  PROVE  UInt32Minus(RequestTimeout, elapsed) \in 0..(UInt32 - 1)
BY RequestAssumption DEF UInt32Minus

\* What has been answered was sent: requests are never taken back.
LEMMA AnsweredWereSent ==
  ASSUME IInv, WIInv, AInv, answered \subseteq DOMAIN requests, [WNext]_allVars
  PROVE  answered' \subseteq DOMAIN requests'
<1>1. ASSUME NEW r \in DOMAIN requests, NEW code \in Code \ {0}, Answer(r, code)
      PROVE  answered' \subseteq DOMAIN requests'
  BY <1>1 DEF Answer
<1>2. ASSUME NEW key \in RequestKey, Request(key)
      PROVE  answered' \subseteq DOMAIN requests'
  <2>1. PICK n \in Nat : n = Len(requests) /\ DOMAIN requests = 1..n
    BY DEF WIInv, RequestTypes
  <2>2. DOMAIN requests' = 1..(n + 1)
    BY <1>2, <2>1 DEF Request, WIInv, RequestTypes
  <2>3. QED
    BY <1>2, <2>1, <2>2 DEF Request
<1>3. ASSUME NEW end, NEW frame, Finish(end, frame), at # "caller"
      PROVE  answered' \subseteq DOMAIN requests'
  BY <1>3, FinishFacts DEF AInv, Finish
<1>4. CASE TimeIsUp \/ TakeResponse \/ ConnectionLost
  BY <1>3, <1>4 DEF TimeIsUp, TakeResponse, ConnectionLost
<1>5. CASE UNCHANGED <<requests, answered>>
  BY <1>5
<1>6. QED
  BY <1>1, <1>2, <1>4, <1>5
     DEF WNext, Client, CallWaitMessage, SkipMessage, NoMessage, InWaitMessage, Tick,
         Unsolicited, request, allVars

LEMMA ClocksKept ==
  ASSUME IInv, WIInv, AInv, Clocks, [WNext]_allVars
  PROVE  Clocks'
<1>1. answered' \subseteq DOMAIN requests'
  BY AnsweredWereSent DEF Clocks
<1>2. SocketTimeout \in 0..RequestTimeout /\ RequestTimeout \in Nat /\ UInt32 \in Nat
      /\ RequestTimeout < UInt32
  BY RequestAssumption DEF IInv, TypeOK
<1>3. CASE UNCHANGED <<at, elapsed, waited, WaitMessageTimeout>>
  BY <1>1, <1>3 DEF Clocks
<1>4. ASSUME NEW key \in RequestKey, Request(key) PROVE Clocks'
  BY <1>1, <1>2, <1>4 DEF Clocks, Request
<1>5. CASE CallWaitMessage \/ NoMessage
  BY <1>1, <1>5 DEF Clocks, CallWaitMessage, NoMessage
<1>6. CASE TimeIsUp \/ TakeResponse \/ ConnectionLost
  BY <1>1, <1>6 DEF Clocks, TimeIsUp, TakeResponse, ConnectionLost, Finish
<1>7. CASE SkipMessage
  BY <1>1, <1>7, RestOfTime DEF Clocks, SkipMessage
<1>8. CASE InWaitMessage
  BY <1>1, <1>2, <1>8 DEF Clocks, InWaitMessage
<1>9. CASE Tick
  <2>1. elapsed' \in 0..(RequestTimeout + 1)
    BY <1>2, <1>9 DEF Clocks, Tick
  <2>2. waited' \in 0..RequestTimeout
    BY <1>2, <1>9 DEF Clocks, Tick
  <2>3. QED
    BY <1>1, <1>9, <2>1, <2>2 DEF Clocks, Tick
<1>10. QED
  BY <1>3, <1>4, <1>5, <1>6, <1>7, <1>8, <1>9
     DEF WNext, Client, Answer, Unsolicited, request, allVars

\* The types of the variables of the request, the range of its clock among them.
THEOREM WTypeCorrect == WSpec => []WTypeOK
<1>1. WInit => Clocks
  BY RequestAssumption DEF WInit, Clocks
<1>2. IInv /\ WIInv /\ AInv /\ Clocks /\ [WNext]_allVars => Clocks'
  BY ClocksKept
<1>3. WIInv /\ Clocks => WTypeOK
  BY DEF WIInv, RequestTypes, Clocks, WTypeOK
<1>4. QED
  BY <1>1, <1>2, <1>3, WInductive, AInductive, PTL DEF WSpec
=============================================================================
