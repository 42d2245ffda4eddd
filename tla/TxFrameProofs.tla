---------------------------- MODULE TxFrameProofs ----------------------------
(***************************************************************************)
(* Proofs about TxFrame, for messages of any size, batches of any length   *)
(* and any number of frames in the same buffer, on machines of both byte   *)
(* orders: a frame has its size in front, and gives its messages back.     *)
(***************************************************************************)
EXTENDS TxFrame, SequenceProofs

\* What rmqsAddUInt..ToBuffer are given: numbers, and the key of a command.
Number == Nat \cup {"Publish"}

Byte == [of : Number, width : Nat, k : Nat]
          \cup {"Byte0", "Byte1", "DataType", "V_8", "V_32"}

(***************************************************************************)
(* Sequences of bytes.                                                     *)
(***************************************************************************)

LEMMA FunctionIsSequence ==
  ASSUME NEW S, NEW n \in Nat, NEW f \in [1..n -> S]
  PROVE  f \in Seq(S) /\ Len(f) = n
OBVIOUS

LEMMA ConcatFacts ==
  ASSUME NEW S, NEW s \in Seq(S), NEW t \in Seq(S)
  PROVE  /\ s \o t \in Seq(S) /\ Len(s \o t) = Len(s) + Len(t)
         /\ Len(s) \in Nat /\ Len(t) \in Nat
         /\ \A i \in 1..Len(s) : (s \o t)[i] = s[i]
         /\ \A i \in 1..Len(t) : (s \o t)[Len(s) + i] = t[i]
OBVIOUS

LEMMA ConcatAssociative ==
  ASSUME NEW S, NEW s \in Seq(S), NEW t \in Seq(S), NEW u \in Seq(S)
  PROVE  (s \o t) \o u = s \o (t \o u)
OBVIOUS

LEMMA ConcatEmpty ==
  ASSUME NEW S, NEW s \in Seq(S)
  PROVE  s \o << >> = s /\ << >> \o s = s /\ << >> \in Seq(S)
OBVIOUS

\* The end of a sequence from an index on, and a piece of it.
LEMMA PieceFacts ==
  ASSUME NEW S, NEW s \in Seq(S), NEW a \in Nat \ {0}, NEW b \in Nat, b <= Len(s), a <= b + 1
  PROVE  /\ SubSeq(s, a, b) \in Seq(S) /\ Len(SubSeq(s, a, b)) = (b - a) + 1
         /\ \A i \in 1..((b - a) + 1) : SubSeq(s, a, b)[i] = s[(a + i) - 1]
OBVIOUS

\* A sequence turned round twice.
LEMMA ReverseFacts ==
  ASSUME NEW S, NEW s \in Seq(S)
  PROVE  /\ Reverse(s) \in Seq(S) /\ Len(Reverse(s)) = Len(s)
         /\ \A i \in 1..Len(s) : Reverse(s)[i] = s[(Len(s) - i) + 1]
<1>1. PICK n \in Nat : n = Len(s)
  OBVIOUS
<1>2. Reverse(s) = [i \in 1..n |-> s[(n - i) + 1]]
  BY <1>1 DEF Reverse
<1>3. Reverse(s) \in [1..n -> S]
  BY <1>1, <1>2
<1>4. QED
  BY <1>1, <1>2, <1>3, FunctionIsSequence

LEMMA ReverseTwice ==
  ASSUME NEW S, NEW s \in Seq(S)
  PROVE  Reverse(Reverse(s)) = s
<1>1. PICK n \in Nat : n = Len(s)
  OBVIOUS
<1>2. PICK t \in Seq(S) : t = Reverse(s) /\ Len(t) = n /\ \A i \in 1..n : t[i] = s[(n - i) + 1]
  BY <1>1, ReverseFacts
<1>3. PICK u \in Seq(S) : u = Reverse(t) /\ Len(u) = n /\ \A i \in 1..n : u[i] = t[(n - i) + 1]
  <2>1. /\ Reverse(t) \in Seq(S) /\ Len(Reverse(t)) = Len(t)
        /\ \A i \in 1..Len(t) : Reverse(t)[i] = t[(Len(t) - i) + 1]
    BY ReverseFacts
  <2>2. QED
    BY <1>2, <2>1
<1>4. ASSUME NEW i \in 1..n PROVE u[i] = s[i]
  <2>1. (n - i) + 1 \in 1..n /\ (n - ((n - i) + 1)) + 1 = i
    OBVIOUS
  <2>2. QED
    BY <1>2, <1>3, <2>1
<1>5. u = s
  BY <1>1, <1>3, <1>4, SameSequence
<1>6. QED
  BY <1>2, <1>3, <1>5

(***************************************************************************)
(* Numbers and their bytes.                                                *)
(***************************************************************************)

LEMMA BigEndianFacts ==
  ASSUME NEW v \in Number, NEW w \in Nat
  PROVE  /\ BigEndian(v, w) \in Seq(Byte) /\ Len(BigEndian(v, w)) = w
         /\ \A i \in 1..w : BigEndian(v, w)[i] = NumberByte(v, w, i - 1)
         /\ \A i \in 1..w : BigEndian(v, w)[i].of = v
<1>1. \A i \in 1..w : NumberByte(v, w, i - 1) \in Byte /\ NumberByte(v, w, i - 1).of = v
  BY DEF NumberByte, Byte
<1>2. BigEndian(v, w) = [i \in 1..w |-> NumberByte(v, w, i - 1)]
  BY DEF BigEndian
<1>3. BigEndian(v, w) \in [1..w -> Byte]
  BY <1>1, <1>2
<1>4. QED
  BY <1>1, <1>2, <1>3, FunctionIsSequence

\* A number whose bytes stand at the front of a sequence is found there.
LEMMA NumberAtLemma ==
  ASSUME NEW s \in Seq(Byte), NEW v \in Number, NEW w \in Nat \ {0}, w <= Len(s),
         \A i \in 1..w : s[i] = BigEndian(v, w)[i]
  PROVE  NumberAt(s, w) = v
<1>1. PICK b \in Seq(Byte) : b = BigEndian(v, w) /\ Len(b) = w /\ \A i \in 1..w : b[i].of = v
  BY BigEndianFacts
<1>2. PICK f \in Seq(Byte) : f = SubSeq(s, 1, w) /\ Len(f) = w /\ \A i \in 1..w : f[i] = s[i]
  <2>1. (w - 1) + 1 = w /\ \A i \in 1..w : (1 + i) - 1 = i
    OBVIOUS
  <2>2. /\ SubSeq(s, 1, w) \in Seq(Byte) /\ Len(SubSeq(s, 1, w)) = (w - 1) + 1
        /\ \A i \in 1..((w - 1) + 1) : SubSeq(s, 1, w)[i] = s[(1 + i) - 1]
    <3>1. 1 \in Nat \ {0} /\ w \in Nat /\ w <= Len(s) /\ 1 <= w + 1
      OBVIOUS
    <3>2. QED
      BY <3>1, PieceFacts
  <2>3. \A i \in 1..w : SubSeq(s, 1, w)[i] = s[i]
    BY <2>1, <2>2
  <2>4. QED
    BY <2>1, <2>2, <2>3
<1>3. f = b
  BY <1>1, <1>2, SameSequence
<1>4. 1 \in 1..w /\ s[1].of = v
  BY <1>1
<1>5. QED
  BY <1>1, <1>2, <1>3, <1>4 DEF NumberAt

(***************************************************************************)
(* TxQueue: what is written at its end is appended.                        *)
(***************************************************************************)

\* rmqsBufferSetMemorySize rounds a required size up, never down.
LEMMA ChunksForEnough ==
  ASSUME NEW n \in Nat \ {0}
  PROVE  ChunksFor(n) \in Nat /\ ChunksFor(n) >= n
<1>1. n - 1 \in Nat /\ ChunkSize \in Nat \ {0}
  BY ChunkSizeAssumption
<1>2. /\ (n - 1) \div ChunkSize \in Nat
      /\ n - 1 < (((n - 1) \div ChunkSize) + 1) * ChunkSize
  BY <1>1
<1>3. (((n - 1) \div ChunkSize) + 1) * ChunkSize \in Nat
  BY <1>1, <1>2
<1>4. QED
  BY <1>2, <1>3 DEF ChunksFor

\* The buffer holds these bytes, in memory it has, with the cursor behind them.
Holds(B, bytes) ==
    /\ B \in Buffer(Byte) /\ B.Data = bytes
    /\ B.Size = Len(bytes) /\ B.Position = Len(bytes) /\ Len(bytes) <= B.CurrentMemorySize

\* The buffer as it is between two calls: whole, with the cursor somewhere in it.
Whole(B) ==
    /\ B \in Buffer(Byte) /\ B.Size = Len(B.Data)
    /\ B.Size <= B.CurrentMemorySize /\ B.Position \in 0..B.Size

\* rmqsBufferWrite, with the cursor anywhere in the buffer.
LEMMA WriteFacts ==
  ASSUME NEW B, Whole(B), NEW W \in Seq(Byte), Len(W) > 0
  PROVE  LET C == BufferWrite(B, W)
             last == B.Position + Len(W)
         IN  /\ Whole(C) /\ C.Size = Larger(B.Size, last) /\ C.Position = last
             /\ \A i \in 1..Len(W) : C.Data[B.Position + i] = W[i]
             /\ \A i \in 1..B.Size : i <= B.Position \/ i > last => C.Data[i] = B.Data[i]
<1>1. PICK p \in Nat, n \in Nat, l \in Nat, m \in Nat :
        /\ p = B.Position /\ n = B.Size /\ l = Len(W) /\ m = B.CurrentMemorySize
        /\ l > 0 /\ p <= n /\ n = Len(B.Data) /\ n <= m /\ B.Data \in Seq(Byte)
        /\ B.Tag1 \in BOOLEAN /\ B.Tag2 \in Nat
  BY DEF Whole, Buffer
<1>2. PICK z \in Nat : z = Larger(n, p + l) /\ z >= n /\ z >= p + l /\ (z = n \/ z = p + l)
  BY DEF Larger
<1>3. PICK c \in Nat : c = MemoryFor(B, p + l) /\ c >= m /\ c >= p + l
  <2>1. p + l \in Nat \ {0}
    BY <1>1
  <2>2. PICK d \in Nat : d = ChunksFor(p + l) /\ d >= p + l
    BY <2>1, ChunksForEnough
  <2>3. QED
    BY <1>1, <2>1, <2>2 DEF MemoryFor, Larger
<1> DEFINE data == [i \in 1..z |-> IF i > p /\ i <= p + l THEN W[i - p] ELSE B.Data[i]]
<1>4. BufferWrite(B, W) = [Data |-> data, Size |-> z, Position |-> p + l,
                           CurrentMemorySize |-> c, Tag1 |-> B.Tag1, Tag2 |-> B.Tag2]
  <2>1. Len(W) # 0
    OBVIOUS
  <2>2. BufferWrite(B, W) =
          [Data |-> [i \in 1..Larger(B.Size, B.Position + Len(W)) |->
                       IF i > B.Position /\ i <= B.Position + Len(W)
                       THEN W[i - B.Position] ELSE B.Data[i]],
           Size |-> Larger(B.Size, B.Position + Len(W)), Position |-> B.Position + Len(W),
           CurrentMemorySize |-> MemoryFor(B, B.Position + Len(W)),
           Tag1 |-> B.Tag1, Tag2 |-> B.Tag2]
    BY <2>1, Zenon DEF BufferWrite
  <2>3. QED
    BY <1>1, <1>2, <1>3, <2>2, Zenon
<1>5. data \in [1..z -> Byte]
  <2>1. ASSUME NEW i \in 1..z, i > p, i <= p + l PROVE W[i - p] \in Byte
    <3>1. i - p \in 1..l
      BY <2>1
    <3>2. QED
      BY <1>1, <3>1, ElementOf
  <2>2. ASSUME NEW i \in 1..z, ~(i > p /\ i <= p + l) PROVE B.Data[i] \in Byte
    <3>1. i \in 1..n
      BY <1>1, <1>2, <2>2
    <3>2. QED
      BY <1>1, <3>1, ElementOf
  <2>3. QED
    BY <2>1, <2>2
<1>6. /\ \A i \in 1..l : data[p + i] = W[i]
      /\ \A i \in 1..n : i <= p \/ i > p + l => data[i] = B.Data[i]
  <2>1. ASSUME NEW i \in 1..l PROVE data[p + i] = W[i]
    <3>1. p + i \in 1..z /\ p + i > p /\ p + i <= p + l /\ (p + i) - p = i
      BY <1>2
    <3>2. QED
      BY <3>1
  <2>2. ASSUME NEW i \in 1..n, i <= p \/ i > p + l PROVE data[i] = B.Data[i]
    <3>1. i \in 1..z /\ ~(i > p /\ i <= p + l)
      BY <1>2, <2>2
    <3>2. QED
      BY <3>1
  <2>3. QED
    BY <2>1, <2>2
<1> HIDE DEF data
<1>7. data \in Seq(Byte) /\ Len(data) = z
  BY <1>5, FunctionIsSequence
<1>8. PICK C : /\ C = BufferWrite(B, W) /\ C \in Buffer(Byte) /\ C.Data = data /\ C.Size = z
               /\ C.Position = p + l /\ C.CurrentMemorySize = c
  BY <1>1, <1>4, <1>7 DEF Buffer
<1>9. Whole(C)
  BY <1>1, <1>2, <1>3, <1>7, <1>8 DEF Whole
<1>10. QED
  BY <1>1, <1>2, <1>6, <1>8, <1>9

LEMMA WriteAppends ==
  ASSUME NEW B, NEW s \in Seq(Byte), Holds(B, s), NEW W \in Seq(Byte)
  PROVE  Holds(BufferWrite(B, W), s \o W)
<1>1. CASE W = << >>
  BY <1>1, ConcatEmpty DEF Holds, BufferWrite
<1>2. CASE W # << >>
  <2>1. PICK n \in Nat, l \in Nat : n = Len(s) /\ l = Len(W) /\ l > 0
    BY <1>2
  <2>2. Whole(B) /\ B.Size = n /\ B.Position = n /\ B.Data = s
    BY <2>1 DEF Holds, Whole
  <2>3. Larger(n, n + l) = n + l
    BY DEF Larger
  <2>4. PICK C : /\ C = BufferWrite(B, W) /\ Whole(C) /\ C.Size = n + l /\ C.Position = n + l
                 /\ \A i \in 1..l : C.Data[n + i] = W[i]
                 /\ \A i \in 1..n : C.Data[i] = s[i]
    <3>1. LET D == BufferWrite(B, W)
              last == B.Position + Len(W)
          IN  /\ Whole(D) /\ D.Size = Larger(B.Size, last) /\ D.Position = last
              /\ \A i \in 1..Len(W) : D.Data[B.Position + i] = W[i]
              /\ \A i \in 1..B.Size : i <= B.Position \/ i > last => D.Data[i] = B.Data[i]
      BY <2>1, <2>2, WriteFacts
    <3>2. QED
      BY <2>1, <2>2, <2>3, <3>1
  <2>5. PICK t \in Seq(Byte) : /\ t = s \o W /\ Len(t) = n + l
                               /\ \A i \in 1..n : t[i] = s[i]
                               /\ \A i \in 1..l : t[n + i] = W[i]
    <3>1. /\ s \o W \in Seq(Byte) /\ Len(s \o W) = Len(s) + Len(W)
          /\ \A i \in 1..Len(s) : (s \o W)[i] = s[i]
          /\ \A i \in 1..Len(W) : (s \o W)[Len(s) + i] = W[i]
      BY ConcatFacts
    <3>2. QED
      BY <2>1, <3>1
  <2>6. ASSUME NEW i \in 1..(n + l) PROVE C.Data[i] = t[i]
    <3>1. CASE i <= n
      BY <2>4, <2>5, <3>1
    <3>2. CASE i > n
      <4>1. PICK j \in 1..l : i = n + j
        <5>1. i - n \in 1..l /\ i = n + (i - n)
          BY <3>2
        <5>2. QED
          BY <5>1
      <4>2. QED
        BY <2>4, <2>5, <4>1
    <3>3. QED
      BY <3>1, <3>2
  <2>7. C.Data \in Seq(Byte) /\ Len(C.Data) = n + l /\ n + l \in Nat
    BY <2>4 DEF Whole, Buffer
  <2>8. C.Data = t
    BY <2>5, <2>6, <2>7, SameSequence
  <2>9. QED
    BY <2>4, <2>5, <2>7, <2>8 DEF Holds, Whole
<1>3. QED
  BY <1>1, <1>2

\* rmqsAddUInt..ToBuffer writes the most significant byte first on every machine.
LEMMA UIntBytes ==
  ASSUME NEW B, NEW v \in Number, NEW w \in Nat \ {0}, IsLittleEndianMachine \in BOOLEAN
  PROVE  AddUInt(B, v, w) = BufferWrite(B, BigEndian(v, w))
<1>1. PICK b \in Seq(Byte) : b = BigEndian(v, w) /\ Len(b) = w
  BY BigEndianFacts
<1>2. Reverse(Reverse(b)) = b
  BY ReverseTwice
<1>3. CASE ~IsLittleEndianMachine
  BY <1>1, <1>3 DEF AddUInt, InMemory
<1>4. CASE IsLittleEndianMachine /\ w > 1
  BY <1>1, <1>2, <1>4 DEF AddUInt, InMemory, Swap
<1>5. CASE IsLittleEndianMachine /\ ~(w > 1)
  <2>1. w = 1
    BY <1>5
  <2>2. Reverse(b) = b
    <3>1. PICK r \in Seq(Byte) : r = Reverse(b) /\ Len(r) = 1
                                 /\ \A i \in 1..1 : r[i] = b[(1 - i) + 1]
      BY <1>1, <2>1, ReverseFacts
    <3>2. \A i \in 1..1 : r[i] = b[i]
      BY <3>1
    <3>3. r = b
      BY <1>1, <2>1, <3>1, <3>2, SameSequence
    <3>4. QED
      BY <3>1, <3>3
  <2>3. QED
    BY <1>1, <1>5, <2>2 DEF AddUInt, InMemory
<1>6. QED
  BY <1>3, <1>4, <1>5

LEMMA UIntAppended ==
  ASSUME NEW B, NEW s \in Seq(Byte), Holds(B, s), NEW v \in Number, NEW w \in Nat \ {0},
         IsLittleEndianMachine \in BOOLEAN
  PROVE  Holds(AddUInt(B, v, w), s \o BigEndian(v, w)) /\ s \o BigEndian(v, w) \in Seq(Byte)
<1>1. BigEndian(v, w) \in Seq(Byte)
  BY BigEndianFacts
<1>2. QED
  BY <1>1, UIntBytes, WriteAppends

(***************************************************************************)
(* Messages as they stand in a frame.                                      *)
(***************************************************************************)

\* What rmqsPublish is given.
Publication == [PublishingId : Nat, Size : Nat, Encoding : {"None", "AMQP1_0"}]

\* The header of a data frame as it is sent, whatever machine builds it.
DataHeader(size) ==
    IF IsShort(size) THEN Header("V_8") \o BigEndian(size, 1)
                     ELSE Header("V_32") \o Reverse(BigEndian(size, 4))

\* The bytes of a message behind its length, and all its bytes.
Body(m) == IF m.Encoding = "AMQP1_0" THEN DataHeader(m.Size) \o Text(m) ELSE Text(m)

Encoded(m) == BigEndian(m.PublishingId, 8) \o (BigEndian(Len(Body(m)), 4) \o Body(m))

LEMMA HeaderFacts ==
  ASSUME NEW type \in {"V_8", "V_32"}
  PROVE  /\ Header(type) \in Seq(Byte) /\ Len(Header(type)) = 4
         /\ Header(type)[1] = "Byte0" /\ Header(type)[2] = "Byte1"
         /\ Header(type)[3] = "DataType" /\ Header(type)[4] = type
<1>1. type \in Byte /\ "Byte0" \in Byte /\ "Byte1" \in Byte /\ "DataType" \in Byte
  BY DEF Byte
<1>2. QED
  BY <1>1 DEF Header

LEMMA TextFacts ==
  ASSUME NEW m \in Publication
  PROVE  Text(m) \in Seq(Byte) /\ Len(Text(m)) = m.Size
<1>1. m.Size \in Nat /\ m.PublishingId \in Nat
  BY DEF Publication
<1>2. \A k \in 1..m.Size : TextByte(m.PublishingId, k) \in Byte
  BY <1>1 DEF TextByte, Byte, Number
<1>3. Text(m) \in [1..m.Size -> Byte]
  BY <1>2 DEF Text
<1>4. QED
  BY <1>1, <1>3, FunctionIsSequence

LEMMA DataHeaderFacts ==
  ASSUME NEW size \in Nat
  PROVE  /\ DataHeader(size) \in Seq(Byte) /\ Len(DataHeader(size)) \in {5, 8}
         /\ IsShort(size) => /\ Len(DataHeader(size)) = 5
                             /\ \A i \in 1..4 : DataHeader(size)[i] = Header("V_8")[i]
                             /\ DataHeader(size)[5].of = size
         /\ ~IsShort(size) =>
              /\ Len(DataHeader(size)) = 8
              /\ \A i \in 1..4 : DataHeader(size)[i] = Header("V_32")[i]
              /\ \A i \in 1..4 : DataHeader(size)[4 + i] = Reverse(BigEndian(size, 4))[i]
<1>0. size \in Number /\ 1 \in Nat /\ 4 \in Nat
  BY DEF Number
<1>1. CASE IsShort(size)
  <2>1. PICK h \in Seq(Byte) : h = Header("V_8") /\ Len(h) = 4
    BY HeaderFacts
  <2>2. PICK b \in Seq(Byte) : b = BigEndian(size, 1) /\ Len(b) = 1 /\ b[1].of = size
    <3>1. /\ BigEndian(size, 1) \in Seq(Byte) /\ Len(BigEndian(size, 1)) = 1
          /\ \A i \in 1..1 : BigEndian(size, 1)[i].of = size
      BY <1>0, BigEndianFacts
    <3>2. 1 \in 1..1
      OBVIOUS
    <3>3. QED
      BY <3>1, <3>2
  <2>3. /\ h \o b \in Seq(Byte) /\ Len(h \o b) = 5
        /\ \A i \in 1..4 : (h \o b)[i] = h[i]
        /\ (h \o b)[4 + 1] = b[1]
    <3>1. /\ h \o b \in Seq(Byte) /\ Len(h \o b) = Len(h) + Len(b)
          /\ \A i \in 1..Len(h) : (h \o b)[i] = h[i]
          /\ \A i \in 1..Len(b) : (h \o b)[Len(h) + i] = b[i]
      BY ConcatFacts
    <3>2. Len(h) = 4 /\ Len(b) = 1
      BY <2>1, <2>2, Zenon
    <3>3. 1 \in 1..Len(b) /\ Len(h) + Len(b) = 5
      BY <3>2
    <3>4. QED
      BY <3>1, <3>2, <3>3
  <2>4. DataHeader(size) = h \o b
    BY <1>1, <2>1, <2>2 DEF DataHeader
  <2>5. QED
    BY <1>1, <2>1, <2>2, <2>3, <2>4
<1>2. CASE ~IsShort(size)
  <2>1. PICK h \in Seq(Byte) : h = Header("V_32") /\ Len(h) = 4
    BY HeaderFacts
  <2>2. PICK b \in Seq(Byte) : b = BigEndian(size, 4) /\ Len(b) = 4
    BY <1>0, BigEndianFacts
  <2>3. PICK r \in Seq(Byte) : r = Reverse(b) /\ Len(r) = 4
    BY <2>2, ReverseFacts
  <2>4. /\ h \o r \in Seq(Byte) /\ Len(h \o r) = 8
        /\ \A i \in 1..4 : (h \o r)[i] = h[i]
        /\ \A i \in 1..4 : (h \o r)[4 + i] = r[i]
    <3>1. /\ h \o r \in Seq(Byte) /\ Len(h \o r) = Len(h) + Len(r)
          /\ \A i \in 1..Len(h) : (h \o r)[i] = h[i]
          /\ \A i \in 1..Len(r) : (h \o r)[Len(h) + i] = r[i]
      BY ConcatFacts
    <3>2. QED
      BY <2>1, <2>3, <3>1
  <2>5. DataHeader(size) = h \o r
    BY <1>2, <2>1, <2>2, <2>3 DEF DataHeader
  <2>6. QED
    BY <1>2, <2>1, <2>2, <2>3, <2>4, <2>5
<1>3. QED
  BY <1>1, <1>2

\* The header that rmqsPublish builds is this one on machines of both byte orders.
LEMMA DataFrameSame ==
  ASSUME NEW size \in Nat, IsLittleEndianMachine \in BOOLEAN
  PROVE  DataFrame(size) = DataHeader(size)
<1>1. CASE IsShort(size)
  <2>1. Short \in Nat /\ size <= Short
    BY <1>1, TxAssumption DEF IsShort
  <2>2. size % (Short + 1) = size
    BY <2>1
  <2>3. QED
    BY <1>1, <2>2 DEF DataFrame, DataHeader
<1>2. CASE ~IsShort(size)
  BY <1>2 DEF DataFrame, DataHeader, InMemory, Swap
<1>3. QED
  BY <1>1, <1>2

LEMMA BodyFacts ==
  ASSUME NEW m \in Publication
  PROVE  /\ Body(m) \in Seq(Byte) /\ Len(Body(m)) \in Nat
         /\ m.Encoding = "AMQP1_0" =>
              /\ Body(m) = DataHeader(m.Size) \o Text(m)
              /\ Len(Body(m)) = m.Size + Len(DataHeader(m.Size))
         /\ m.Encoding # "AMQP1_0" => Body(m) = Text(m)
<1>1. m.Size \in Nat
  BY DEF Publication
<1>2. PICK t \in Seq(Byte) : t = Text(m) /\ Len(t) = m.Size
  BY TextFacts
<1>3. PICK h \in Seq(Byte) : h = DataHeader(m.Size)
  BY <1>1, DataHeaderFacts
<1>4. h \o t \in Seq(Byte) /\ Len(h \o t) = Len(h) + Len(t)
  BY ConcatFacts
<1>5. CASE m.Encoding = "AMQP1_0"
  BY <1>1, <1>2, <1>3, <1>4, <1>5 DEF Body
<1>6. CASE m.Encoding # "AMQP1_0"
  BY <1>1, <1>2, <1>6 DEF Body
<1>7. QED
  BY <1>5, <1>6

LEMMA EncodedFacts ==
  ASSUME NEW m \in Publication
  PROVE  /\ Encoded(m) \in Seq(Byte) /\ Len(Encoded(m)) = 12 + Len(Body(m))
         /\ \A i \in 1..8 : Encoded(m)[i] = BigEndian(m.PublishingId, 8)[i]
         /\ \A i \in 1..4 : Encoded(m)[8 + i] = BigEndian(Len(Body(m)), 4)[i]
         /\ \A i \in 1..Len(Body(m)) : Encoded(m)[12 + i] = Body(m)[i]
<1>1. PICK b \in Seq(Byte), n \in Nat : b = Body(m) /\ n = Len(b)
  BY BodyFacts
<1>2. PICK p \in Seq(Byte) : p = BigEndian(m.PublishingId, 8) /\ Len(p) = 8
  <2>1. m.PublishingId \in Number /\ 8 \in Nat
    BY DEF Publication, Number
  <2>2. QED
    BY <2>1, BigEndianFacts
<1>3. PICK q \in Seq(Byte) : q = BigEndian(n, 4) /\ Len(q) = 4
  <2>1. n \in Number /\ 4 \in Nat
    BY DEF Number
  <2>2. QED
    BY <2>1, BigEndianFacts
<1>4. PICK r \in Seq(Byte) : /\ r = q \o b /\ Len(r) = 4 + n
                             /\ \A i \in 1..4 : r[i] = q[i]
                             /\ \A i \in 1..n : r[4 + i] = b[i]
  <2>1. /\ q \o b \in Seq(Byte) /\ Len(q \o b) = Len(q) + Len(b)
        /\ \A i \in 1..Len(q) : (q \o b)[i] = q[i]
        /\ \A i \in 1..Len(b) : (q \o b)[Len(q) + i] = b[i]
    BY ConcatFacts
  <2>2. /\ q \o b \in Seq(Byte) /\ Len(q \o b) = 4 + n
        /\ \A i \in 1..4 : (q \o b)[i] = q[i]
        /\ \A i \in 1..n : (q \o b)[4 + i] = b[i]
    BY <1>1, <1>3, <2>1
  <2>3. QED
    BY <2>2
<1>5. PICK e \in Seq(Byte) : /\ e = p \o r /\ Len(e) = 12 + n
                             /\ \A i \in 1..8 : e[i] = p[i]
                             /\ \A i \in 1..(4 + n) : e[8 + i] = r[i]
  <2>1. /\ p \o r \in Seq(Byte) /\ Len(p \o r) = Len(p) + Len(r)
        /\ \A i \in 1..Len(p) : (p \o r)[i] = p[i]
        /\ \A i \in 1..Len(r) : (p \o r)[Len(p) + i] = r[i]
    BY ConcatFacts
  <2>2. /\ p \o r \in Seq(Byte) /\ Len(p \o r) = 8 + (4 + n)
        /\ \A i \in 1..8 : (p \o r)[i] = p[i]
        /\ \A i \in 1..(4 + n) : (p \o r)[8 + i] = r[i]
    BY <1>2, <1>4, <2>1
  <2>3. 8 + (4 + n) = 12 + n
    OBVIOUS
  <2>4. QED
    BY <2>2, <2>3
<1>6. ASSUME NEW i \in 1..n PROVE e[12 + i] = b[i]
  <2>1. 4 + i \in 1..(4 + n) /\ 8 + (4 + i) = 12 + i
    OBVIOUS
  <2>2. e[8 + (4 + i)] = r[4 + i]
    BY <1>5, <2>1
  <2>3. QED
    BY <1>4, <2>1, <2>2
<1>7. \A i \in 1..4 : i \in 1..(4 + n)
  OBVIOUS
<1>8. e = Encoded(m)
  BY <1>1, <1>2, <1>3, <1>4, <1>5 DEF Encoded
<1>9. QED
  BY <1>1, <1>2, <1>3, <1>4, <1>5, <1>6, <1>7, <1>8

\* What rmqsPublish adds to a frame for a message.
LEMMA MessageAppended ==
  ASSUME NEW B, NEW s \in Seq(Byte), Holds(B, s), NEW m \in Publication,
         IsLittleEndianMachine \in BOOLEAN
  PROVE  Holds(AddMessage(B, m), s \o Encoded(m)) /\ s \o Encoded(m) \in Seq(Byte)
<1>1. PICK b \in Seq(Byte), n \in Nat : b = Body(m) /\ n = Len(b)
  BY BodyFacts
<1>2. PICK p \in Seq(Byte) : p = BigEndian(m.PublishingId, 8)
  <2>1. m.PublishingId \in Number /\ 8 \in Nat
    BY DEF Publication, Number
  <2>2. QED
    BY <2>1, BigEndianFacts
<1>3. PICK q \in Seq(Byte) : q = BigEndian(n, 4)
  <2>1. n \in Number /\ 4 \in Nat
    BY DEF Number
  <2>2. QED
    BY <2>1, BigEndianFacts
<1>4. PICK C : C = AddUInt(B, m.PublishingId, 8) /\ Holds(C, s \o p) /\ s \o p \in Seq(Byte)
  <2>1. m.PublishingId \in Number /\ 8 \in Nat \ {0}
    BY DEF Publication, Number
  <2>2. QED
    BY <1>2, <2>1, UIntAppended
<1>5. PICK D : /\ D = AddUInt(C, n, 4) /\ Holds(D, (s \o p) \o q)
               /\ (s \o p) \o q \in Seq(Byte)
  <2>1. n \in Number /\ 4 \in Nat \ {0}
    BY DEF Number
  <2>2. QED
    BY <1>3, <1>4, <2>1, UIntAppended
<1>6. m.Size \in Nat /\ Text(m) \in Seq(Byte) /\ Len(Text(m)) = m.Size
  BY TextFacts DEF Publication
<1>7. Holds(AddMessage(B, m), ((s \o p) \o q) \o b)
  <2>1. CASE m.Encoding = "AMQP1_0"
    <3>1. PICK h \in Seq(Byte) : h = DataFrame(m.Size) /\ h = DataHeader(m.Size)
      BY <1>6, DataFrameSame, DataHeaderFacts
    <3>2. b = h \o Text(m) /\ n = m.Size + Len(h)
      BY <1>1, <2>1, <3>1, BodyFacts
    <3>3. AddMessage(B, m) = BufferWrite(BufferWrite(D, h), Text(m))
      BY <1>4, <1>5, <2>1, <3>1, <3>2, Zenon DEF AddMessage, AddBytes
    <3>4. Holds(BufferWrite(D, h), ((s \o p) \o q) \o h) /\ ((s \o p) \o q) \o h \in Seq(Byte)
      BY <1>5, <3>1, WriteAppends, ConcatFacts
    <3>5. Holds(BufferWrite(BufferWrite(D, h), Text(m)), (((s \o p) \o q) \o h) \o Text(m))
      BY <1>6, <3>4, WriteAppends
    <3>6. (((s \o p) \o q) \o h) \o Text(m) = ((s \o p) \o q) \o (h \o Text(m))
      <4>1. PICK u \in Seq(Byte), t \in Seq(Byte) : u = (s \o p) \o q /\ t = Text(m)
        BY <1>5, <1>6
      <4>2. (u \o h) \o t = u \o (h \o t)
        BY ConcatAssociative
      <4>3. QED
        BY <4>1, <4>2
    <3>7. QED
      BY <3>2, <3>3, <3>5, <3>6, Zenon
  <2>2. CASE m.Encoding # "AMQP1_0"
    <3>1. b = Text(m) /\ n = Len(Text(m))
      BY <1>1, <2>2, BodyFacts
    <3>2. AddMessage(B, m) = BufferWrite(D, b)
      BY <1>4, <1>5, <2>2, <3>1, Zenon DEF AddMessage, AddBytes
    <3>3. QED
      BY <1>5, <3>2, WriteAppends
  <2>3. QED
    BY <2>1, <2>2
<1>8. ((s \o p) \o q) \o b = s \o (p \o (q \o b))
  <2>1. (s \o p) \o q = s \o (p \o q)
    BY ConcatAssociative
  <2>2. p \o q \in Seq(Byte)
    BY ConcatFacts
  <2>3. (s \o (p \o q)) \o b = s \o ((p \o q) \o b)
    BY <2>2, ConcatAssociative
  <2>4. (p \o q) \o b = p \o (q \o b)
    BY ConcatAssociative
  <2>5. QED
    BY <2>1, <2>3, <2>4
<1>9. Encoded(m) = p \o (q \o b)
  BY <1>1, <1>2, <1>3 DEF Encoded
<1>10. Encoded(m) \in Seq(Byte)
  BY EncodedFacts
<1>11. s \o Encoded(m) \in Seq(Byte)
  BY <1>10, ConcatFacts
<1>12. QED
  BY <1>7, <1>8, <1>9, <1>11

(***************************************************************************)
(* A frame, from its messages.                                             *)
(***************************************************************************)

\* What is left of the messages when the first k are taken, for each k.
Tails(r, messages, n) ==
    /\ r \in [0..n -> Seq(Byte)] /\ r[n] = << >>
    /\ \A k \in 1..n : r[k - 1] = Encoded(messages[k]) \o r[k]

LEMMA TailsStart == \E r : \A messages : Tails(r, messages, 0)
<1> DEFINE r == [k \in 0..0 |-> << >>]
<1>1. << >> \in Seq(Byte)
  OBVIOUS
<1>2. r \in [0..0 -> Seq(Byte)] /\ r[0] = << >>
  BY <1>1
<1> HIDE DEF r
<1>3. \A messages : Tails(r, messages, 0)
  BY <1>2 DEF Tails
<1>4. QED
  BY <1>3, Zenon

\* Another message behind the others.
LEMMA TailsGrow ==
  ASSUME NEW messages, NEW n \in Nat, NEW r, Tails(r, messages, n),
         \A k \in 1..(n + 1) : messages[k] \in Publication
  PROVE  \E t : Tails(t, messages, n + 1) /\ t[0] = r[0] \o Encoded(messages[n + 1])
<1>1. PICK e \in Seq(Byte) : e = Encoded(messages[n + 1])
  <2>1. messages[n + 1] \in Publication
    OBVIOUS
  <2>2. QED
    BY <2>1, EncodedFacts
<1>2. r \in [0..n -> Seq(Byte)] /\ \A k \in 0..n : r[k] \in Seq(Byte)
  BY DEF Tails
<1>3. \A k \in 0..n : r[k] \o e \in Seq(Byte)
  BY <1>2, ConcatFacts
<1>4. << >> \in Seq(Byte)
  OBVIOUS
<1> DEFINE t == [k \in 0..(n + 1) |-> IF k = n + 1 THEN << >> ELSE r[k] \o e]
<1>5. /\ t \in [0..(n + 1) -> Seq(Byte)] /\ t[n + 1] = << >>
      /\ \A k \in 0..n : t[k] = r[k] \o e
  <2>1. \A k \in 0..(n + 1) : k # n + 1 => k \in 0..n
    OBVIOUS
  <2>2. \A k \in 0..n : k \in 0..(n + 1) /\ k # n + 1
    OBVIOUS
  <2>3. t \in [0..(n + 1) -> Seq(Byte)]
    BY <1>3, <1>4, <2>1
  <2>4. n + 1 \in 0..(n + 1)
    OBVIOUS
  <2>5. QED
    BY <2>2, <2>3, <2>4
<1> HIDE DEF t
<1>6. ASSUME NEW k \in 1..(n + 1) PROVE t[k - 1] = Encoded(messages[k]) \o t[k]
  <2>1. k - 1 \in 0..n
    OBVIOUS
  <2>2. CASE k = n + 1
    <3>1. k - 1 = n
      BY <2>2
    <3>2. t[k - 1] = r[n] \o e /\ r[n] = << >>
      BY <1>5, <2>1, <3>1 DEF Tails
    <3>3. << >> \o e = e /\ e \o << >> = e
      BY ConcatEmpty
    <3>4. QED
      BY <1>1, <1>5, <2>2, <3>2, <3>3
  <2>3. CASE k # n + 1
    <3>1. k \in 1..n /\ k \in 0..n
      BY <2>3
    <3>2. PICK c \in Seq(Byte) : c = Encoded(messages[k])
      <4>1. messages[k] \in Publication
        OBVIOUS
      <4>2. QED
        BY <4>1, EncodedFacts
    <3>3. r[k - 1] = c \o r[k] /\ r[k] \in Seq(Byte)
      BY <1>2, <3>1, <3>2 DEF Tails
    <3>4. (c \o r[k]) \o e = c \o (r[k] \o e)
      <4>1. PICK x \in Seq(Byte) : x = r[k]
        BY <3>3
      <4>2. (c \o x) \o e = c \o (x \o e)
        BY ConcatAssociative
      <4>3. QED
        BY <4>1, <4>2
    <3>5. QED
      BY <1>5, <2>1, <3>1, <3>2, <3>3, <3>4
  <2>4. QED
    BY <2>2, <2>3
<1>7. Tails(t, messages, n + 1)
  BY <1>5, <1>6 DEF Tails
<1>8. t[0] = r[0] \o e
  BY <1>5
<1>9. QED
  BY <1>1, <1>7, <1>8, Zenon

\* What rmqsPublish writes before the messages, the size still zero.
Preamble(n) ==
    (((BigEndian(0, 4) \o BigEndian("Publish", 2)) \o BigEndian(1, 2)) \o BigEndian(1, 1))
      \o BigEndian(n, 4)

LEMMA PreambleWritten ==
  ASSUME NEW B, Whole(B), NEW n \in Nat, IsLittleEndianMachine \in BOOLEAN
  PROVE  LET sized == AddUInt(Clear(B), 0, 4)
             keyed == AddUInt(AddUInt(sized, "Publish", 2), 1, 2)
         IN  Holds(AddUInt(AddUInt(keyed, 1, 1), n, 4), Preamble(n))
<1>1. /\ "Publish" \in Number /\ 0 \in Number /\ 1 \in Number /\ n \in Number
      /\ 1 \in Nat \ {0} /\ 2 \in Nat \ {0} /\ 4 \in Nat \ {0}
  BY DEF Number
<1>2. Holds(Clear(B), << >>) /\ << >> \in Seq(Byte)
  <2>1. PICK C : C = Clear(B)
    OBVIOUS
  <2>2. << >> \in Seq(Byte) /\ Len(<< >>) = 0
    OBVIOUS
  <2>3. /\ C \in Buffer(Byte) /\ C.Data = << >> /\ C.Size = 0 /\ C.Position = 0
        /\ C.CurrentMemorySize \in Nat
    BY <2>1, <2>2 DEF Whole, Clear, BufferClear, Buffer
  <2>4. QED
    BY <2>1, <2>2, <2>3 DEF Holds
<1>3. PICK s1 : s1 = BigEndian(0, 4) /\ s1 \in Seq(Byte) /\ << >> \o s1 = s1
  <2>1. BigEndian(0, 4) \in Seq(Byte)
    BY <1>1, BigEndianFacts
  <2>2. QED
    BY <2>1, ConcatEmpty
<1>4. PICK C1 : C1 = AddUInt(Clear(B), 0, 4)
  OBVIOUS
<1>5. Holds(C1, s1)
  <2>1. Holds(AddUInt(Clear(B), 0, 4), << >> \o BigEndian(0, 4))
    BY <1>1, <1>2, UIntAppended
  <2>2. QED
    BY <1>3, <1>4, <2>1
<1>6. PICK C2, s2 : C2 = AddUInt(C1, "Publish", 2) /\ s2 = s1 \o BigEndian("Publish", 2)
  OBVIOUS
<1>7. Holds(C2, s2) /\ s2 \in Seq(Byte)
  BY <1>1, <1>3, <1>5, <1>6, UIntAppended
<1>8. PICK C3, s3 : C3 = AddUInt(C2, 1, 2) /\ s3 = s2 \o BigEndian(1, 2)
  OBVIOUS
<1>9. Holds(C3, s3) /\ s3 \in Seq(Byte)
  BY <1>1, <1>7, <1>8, UIntAppended
<1>10. PICK C4, s4 : C4 = AddUInt(C3, 1, 1) /\ s4 = s3 \o BigEndian(1, 1)
  OBVIOUS
<1>11. Holds(C4, s4) /\ s4 \in Seq(Byte)
  BY <1>1, <1>9, <1>10, UIntAppended
<1>12. Holds(AddUInt(C4, n, 4), s4 \o BigEndian(n, 4))
  BY <1>1, <1>11, UIntAppended
<1>13. s4 \o BigEndian(n, 4) = Preamble(n)
  BY <1>3, <1>6, <1>8, <1>10, Zenon DEF Preamble
<1>14. QED
  BY <1>4, <1>6, <1>8, <1>10, <1>12, <1>13, Zenon

LEMMA PreambleFacts ==
  ASSUME NEW n \in Nat
  PROVE  /\ Preamble(n) \in Seq(Byte) /\ Len(Preamble(n)) = 13
         /\ \A i \in 1..4 : Preamble(n)[9 + i] = BigEndian(n, 4)[i]
<1>1. /\ "Publish" \in Number /\ 0 \in Number /\ 1 \in Number /\ n \in Number
      /\ 1 \in Nat /\ 2 \in Nat /\ 4 \in Nat
  BY DEF Number
<1>2. PICK a \in Seq(Byte) : a = BigEndian(0, 4) /\ Len(a) = 4
  BY <1>1, BigEndianFacts
<1>3. PICK b \in Seq(Byte) : b = BigEndian("Publish", 2) /\ Len(b) = 2
  BY <1>1, BigEndianFacts
<1>4. PICK c \in Seq(Byte) : c = BigEndian(1, 2) /\ Len(c) = 2
  BY <1>1, BigEndianFacts
<1>5. PICK d \in Seq(Byte) : d = BigEndian(1, 1) /\ Len(d) = 1
  BY <1>1, BigEndianFacts
<1>6. PICK e \in Seq(Byte) : e = BigEndian(n, 4) /\ Len(e) = 4
  BY <1>1, BigEndianFacts
<1>7. Len(a) = 4 /\ Len(b) = 2 /\ Len(c) = 2 /\ Len(d) = 1 /\ Len(e) = 4
  BY <1>2, <1>3, <1>4, <1>5, <1>6, Zenon
<1>8. PICK s \in Seq(Byte) : s = a \o b /\ Len(s) = 6
  <2>1. a \o b \in Seq(Byte) /\ Len(a \o b) = Len(a) + Len(b)
    BY ConcatFacts
  <2>2. Len(a \o b) = 6
    BY <1>7, <2>1
  <2>3. QED
    BY <2>1, <2>2, Zenon
<1>9. Len(s) = 6
  BY <1>8, Zenon
<1>10. PICK t \in Seq(Byte) : t = s \o c /\ Len(t) = 8
  <2>1. s \o c \in Seq(Byte) /\ Len(s \o c) = Len(s) + Len(c)
    BY ConcatFacts
  <2>2. Len(s \o c) = 8
    BY <1>7, <1>9, <2>1
  <2>3. QED
    BY <2>1, <2>2, Zenon
<1>11. Len(t) = 8
  BY <1>10, Zenon
<1>12. PICK u \in Seq(Byte) : u = t \o d /\ Len(u) = 9
  <2>1. t \o d \in Seq(Byte) /\ Len(t \o d) = Len(t) + Len(d)
    BY ConcatFacts
  <2>2. Len(t \o d) = 9
    BY <1>7, <1>11, <2>1
  <2>3. QED
    BY <2>1, <2>2, Zenon
<1>13. Len(u) = 9
  BY <1>12, Zenon
<1>14. /\ u \o e \in Seq(Byte) /\ Len(u \o e) = 13
       /\ \A i \in 1..4 : (u \o e)[9 + i] = e[i]
  <2>1. /\ u \o e \in Seq(Byte) /\ Len(u \o e) = Len(u) + Len(e)
        /\ \A i \in 1..Len(e) : (u \o e)[Len(u) + i] = e[i]
    BY ConcatFacts
  <2>2. QED
    BY <1>7, <1>13, <2>1
<1>15. Preamble(n) = u \o e
  BY <1>2, <1>3, <1>4, <1>5, <1>6, <1>8, <1>10, <1>12, Zenon DEF Preamble
<1>16. QED
  BY <1>6, <1>14, <1>15, Zenon

\* The buffers between the messages, as far as the first n.
Steps(f, first, messages, n) ==
    f = [k \in 0..n |-> IF k = 0 THEN first ELSE AddMessage(f[k - 1], messages[k])]

LEMMA StepsExist ==
  ASSUME NEW first, NEW messages, NEW n \in Nat
  PROVE  \E f : Steps(f, first, messages, n)
<1> DEFINE S == {l \in Nat : \E f : Steps(f, first, messages, l)}
<1>1. 0 \in S
  <2> DEFINE f == [k \in 0..0 |-> first]
  <2>1. f = [k \in 0..0 |-> IF k = 0 THEN first ELSE AddMessage(f[k - 1], messages[k])]
    <3>1. \A k \in 0..0 : k = 0
      OBVIOUS
    <3>2. QED
      BY <3>1
  <2>2. QED
    BY <2>1, Zenon DEF Steps
<1>2. ASSUME NEW l \in Nat, l \in S PROVE l + 1 \in S
  <2>1. PICK f : Steps(f, first, messages, l)
    BY <1>2
  <2> DEFINE g == [k \in 0..(l + 1) |->
                     IF k = l + 1 THEN AddMessage(f[l], messages[l + 1]) ELSE f[k]]
             h == [k \in 0..(l + 1) |-> IF k = 0 THEN first
                                        ELSE AddMessage(g[k - 1], messages[k])]
  <2>2. ASSUME NEW k \in 0..(l + 1) PROVE g[k] = h[k]
    <3>1. CASE k = l + 1
      <4>1. k # 0 /\ k - 1 = l /\ l \in 0..(l + 1) /\ l # l + 1
        BY <3>1
      <4>2. QED
        BY <3>1, <4>1
    <3>2. CASE k # l + 1 /\ k # 0
      <4>1. k \in 0..l /\ k - 1 \in 0..(l + 1) /\ k - 1 # l + 1
        BY <3>2
      <4>2. f[k] = AddMessage(f[k - 1], messages[k])
        BY <2>1, <3>2, <4>1, Zenon DEF Steps
      <4>3. g[k] = f[k] /\ g[k - 1] = f[k - 1] /\ h[k] = AddMessage(g[k - 1], messages[k])
        BY <3>2, <4>1
      <4>4. QED
        BY <4>2, <4>3, Zenon
    <3>3. CASE k = 0
      <4>1. 0 \in 0..l /\ 0 # l + 1 /\ 0 \in 0..(l + 1)
        OBVIOUS
      <4>2. f[0] = first
        BY <2>1, <4>1, Zenon DEF Steps
      <4>3. QED
        BY <3>3, <4>1, <4>2
    <3>4. QED
      BY <3>1, <3>2, <3>3
  <2>3. g = h
    <3>1. DOMAIN g = 0..(l + 1) /\ DOMAIN h = 0..(l + 1)
      OBVIOUS
    <3> HIDE DEF g, h
    <3>2. g = [k \in DOMAIN g |-> g[k]] /\ h = [k \in DOMAIN h |-> h[k]]
      BY DEF g, h
    <3>3. QED
      BY <2>2, <3>1, <3>2
  <2>4. Steps(g, first, messages, l + 1)
    BY <2>3, Zenon DEF Steps
  <2>5. l + 1 \in Nat
    OBVIOUS
  <2>6. QED
    BY <2>4, <2>5, Zenon
<1> HIDE DEF S
<1>3. n \in S
  BY <1>1, <1>2, NatSetInduction
<1>4. QED
  BY <1>3 DEF S

\* All of a frame but its size.
LEMMA BuiltFacts ==
  ASSUME NEW B, Whole(B), NEW n \in Nat, NEW messages \in [1..n -> Publication],
         IsLittleEndianMachine \in BOOLEAN
  PROVE  \E r : Tails(r, messages, n) /\ Holds(Built(B, messages), Preamble(n) \o r[0])
<1>1. Len(messages) = n
  BY FunctionIsSequence
<1> DEFINE sized == AddUInt(Clear(B), 0, 4)
           keyed == AddUInt(AddUInt(sized, "Publish", 2), 1, 2)
           counted == AddUInt(AddUInt(keyed, 1, 1), n, 4)
           f == CHOOSE f : f = [k \in 0..n |->
                  IF k = 0 THEN counted ELSE AddMessage(f[k - 1], messages[k])]
<1>2. Built(B, messages) = f[n]
  BY <1>1, Zenon DEF Built
<1>3. Steps(f, counted, messages, n)
  <2> HIDE DEF counted
  <2>1. PICK g : Steps(g, counted, messages, n)
    BY StepsExist
  <2>2. QED
    BY <2>1, Zenon DEF Steps
<1>4. Holds(counted, Preamble(n)) /\ Preamble(n) \in Seq(Byte)
  BY PreambleWritten, PreambleFacts
<1> HIDE DEF sized, keyed, counted, f
<1> DEFINE S == {l \in Nat : l <= n =>
                   \E r : Tails(r, messages, l) /\ Holds(f[l], Preamble(n) \o r[0])}
<1>5. 0 \in S
  <2>1. PICK r : Tails(r, messages, 0)
    BY TailsStart
  <2>2. r[0] = << >> /\ Preamble(n) \o << >> = Preamble(n)
    BY <1>4, <2>1, ConcatEmpty DEF Tails
  <2>3. f[0] = counted
    <3>1. 0 \in 0..n
      OBVIOUS
    <3>2. QED
      BY <1>3, <3>1, Zenon DEF Steps
  <2>4. Holds(f[0], Preamble(n) \o r[0])
    BY <1>4, <2>2, <2>3
  <2>5. QED
    BY <2>1, <2>4
<1>6. ASSUME NEW l \in Nat, l \in S PROVE l + 1 \in S
  <2>1. SUFFICES ASSUME l + 1 <= n
                 PROVE  \E r : Tails(r, messages, l + 1) /\ Holds(f[l + 1], Preamble(n) \o r[0])
    <3>1. l + 1 \in Nat
      OBVIOUS
    <3>2. QED
      BY <3>1, Zenon
  <2>2. PICK r : Tails(r, messages, l) /\ Holds(f[l], Preamble(n) \o r[0])
    <3>1. l <= n
      BY <2>1
    <3>2. QED
      BY <1>6, <3>1, Zenon
  <2>3. /\ l + 1 \in 1..n /\ l + 1 \in 0..n /\ l + 1 # 0 /\ (l + 1) - 1 = l
        /\ \A k \in 1..(l + 1) : k \in 1..n
    BY <2>1
  <2>4. PICK m \in Publication : m = messages[l + 1]
    BY <2>3
  <2>5. PICK t : Tails(t, messages, l + 1) /\ t[0] = r[0] \o Encoded(m)
    <3>1. \A k \in 1..(l + 1) : messages[k] \in Publication
      BY <2>3
    <3>2. QED
      BY <2>2, <2>4, <3>1, TailsGrow
  <2>6. f[l + 1] = AddMessage(f[l], m)
    BY <1>3, <2>3, <2>4, Zenon DEF Steps
  <2>7. r[0] \in Seq(Byte)
    BY <2>2 DEF Tails
  <2>8. PICK s \in Seq(Byte) : s = Preamble(n) \o r[0]
    BY <1>4, <2>7, ConcatFacts
  <2>9. Holds(f[l + 1], s \o Encoded(m))
    BY <2>2, <2>6, <2>8, MessageAppended
  <2>10. s \o Encoded(m) = Preamble(n) \o t[0]
    <3>1. PICK a \in Seq(Byte), b \in Seq(Byte), e \in Seq(Byte) :
            a = Preamble(n) /\ b = r[0] /\ e = Encoded(m)
      BY <1>4, <2>7, EncodedFacts
    <3>2. (a \o b) \o e = a \o (b \o e)
      BY ConcatAssociative
    <3>3. QED
      BY <2>5, <2>8, <3>1, <3>2
  <2>11. QED
    BY <2>5, <2>9, <2>10, Zenon
<1> HIDE DEF S
<1>7. n \in S
  BY <1>5, <1>6, NatSetInduction
<1>8. QED
  BY <1>2, <1>7 DEF S

\* A whole frame: its size, the number of its messages, and behind that the messages.
Framed(f, messages, n) ==
    /\ f \in Seq(Byte)
    /\ \E r : /\ Tails(r, messages, n)
              /\ Len(f) = 13 + Len(r[0]) /\ From(f, 14) = r[0]
              /\ \A i \in 1..4 : f[i] = BigEndian(Len(f) - 4, 4)[i]
              /\ \A i \in 1..4 : f[9 + i] = BigEndian(n, 4)[i]

\* What rmqsPublish leaves in TxQueue, whatever was in it before.
LEMMA FrameFacts ==
  ASSUME NEW B, Whole(B), NEW n \in Nat, NEW messages \in [1..n -> Publication],
         IsLittleEndianMachine \in BOOLEAN
  PROVE  LET C == SizePatched(Built(B, messages))
         IN  Whole(C) /\ Framed(C.Data, messages, n)
<1>1. PICK r : Tails(r, messages, n) /\ Holds(Built(B, messages), Preamble(n) \o r[0])
  BY BuiltFacts
<1>2. PICK t \in Seq(Byte), l \in Nat : t = r[0] /\ l = Len(t)
  BY <1>1 DEF Tails
<1>3. PICK a \in Seq(Byte) : /\ a = Preamble(n) /\ Len(a) = 13
                             /\ \A i \in 1..4 : a[9 + i] = BigEndian(n, 4)[i]
  BY PreambleFacts
<1>4. PICK s \in Seq(Byte) : /\ s = a \o t /\ Len(s) = 13 + l
                             /\ \A i \in 1..13 : s[i] = a[i]
                             /\ \A i \in 1..l : s[13 + i] = t[i]
  <2>1. /\ a \o t \in Seq(Byte) /\ Len(a \o t) = Len(a) + Len(t)
        /\ \A i \in 1..Len(a) : (a \o t)[i] = a[i]
        /\ \A i \in 1..Len(t) : (a \o t)[Len(a) + i] = t[i]
    BY ConcatFacts
  <2>2. /\ Len(a \o t) = 13 + l /\ \A i \in 1..13 : (a \o t)[i] = a[i]
        /\ \A i \in 1..l : (a \o t)[13 + i] = t[i]
    BY <1>2, <1>3, <2>1
  <2>3. QED
    BY <2>1, <2>2
<1>5. PICK D : D = Built(B, messages) /\ Holds(D, s)
  BY <1>1, <1>2, <1>3, <1>4, Zenon
<1>6. PICK E : /\ E = BufferMoveTo(D, 0) /\ Whole(E) /\ E.Data = s /\ E.Size = 13 + l
               /\ E.Position = 0
  <2>1. D.Size = 13 + l /\ D.Data = s /\ D \in Buffer(Byte) /\ 13 + l <= D.CurrentMemorySize
    BY <1>4, <1>5 DEF Holds
  <2>2. BufferMoveTo(D, 0) = [D EXCEPT !.Position = 0]
    <3>1. ~(0 >= 13 + l)
      OBVIOUS
    <3>2. QED
      BY <2>1, <3>1 DEF BufferMoveTo
  <2>3. PICK F : F = [D EXCEPT !.Position = 0]
    OBVIOUS
  <2>4. /\ F \in Buffer(Byte) /\ F.Data = s /\ F.Size = 13 + l /\ F.Position = 0
        /\ F.CurrentMemorySize = D.CurrentMemorySize
    BY <2>1, <2>3 DEF Buffer
  <2>5. Whole(F)
    BY <1>4, <2>1, <2>4 DEF Whole
  <2>6. QED
    BY <2>2, <2>3, <2>4, <2>5
<1>7. PICK w \in Seq(Byte) : w = BigEndian(9 + l, 4) /\ Len(w) = 4
  <2>1. 9 + l \in Number /\ 4 \in Nat
    BY DEF Number
  <2>2. QED
    BY <2>1, BigEndianFacts
<1>8. SizePatched(D) = BufferWrite(E, w)
  <2>1. D.Size - 4 = 9 + l
    <3>1. D.Size = 13 + l
      BY <1>4, <1>5 DEF Holds
    <3>2. QED
      BY <3>1
  <2>2. 9 + l \in Number /\ 4 \in Nat \ {0}
    BY DEF Number
  <2>3. AddUInt(E, 9 + l, 4) = BufferWrite(E, w)
    BY <1>7, <2>2, UIntBytes
  <2>4. QED
    BY <1>6, <2>1, <2>3, Zenon DEF SizePatched
<1>9. Len(w) = 4 /\ w \in Seq(Byte)
  BY <1>7, Zenon
<1>10. PICK C : /\ C = BufferWrite(E, w) /\ Whole(C) /\ C.Size = 13 + l
               /\ \A i \in 1..4 : C.Data[i] = w[i]
               /\ \A j \in 5..(13 + l) : C.Data[j] = s[j]
  <2>1. LET G == BufferWrite(E, w)
            last == E.Position + Len(w)
        IN  /\ Whole(G) /\ G.Size = Larger(E.Size, last) /\ G.Position = last
            /\ \A i \in 1..Len(w) : G.Data[E.Position + i] = w[i]
            /\ \A i \in 1..E.Size : i <= E.Position \/ i > last => G.Data[i] = E.Data[i]
    <3>1. Len(w) > 0
      BY <1>9
    <3>2. Whole(E)
      BY <1>6, Zenon
    <3>3. QED
      BY <3>1, <3>2, WriteFacts
  <2>2. Larger(13 + l, 4) = 13 + l
    BY DEF Larger
  <2>3. E.Position + Len(w) = 4 /\ E.Position = 0 /\ E.Size = 13 + l /\ E.Data = s /\ Len(w) = 4
    BY <1>6, <1>9
  <2>4. PICK G : G = BufferWrite(E, w)
    OBVIOUS
  <2>5. /\ Whole(G) /\ G.Size = 13 + l
        /\ \A i \in 1..4 : G.Data[0 + i] = w[i]
        /\ \A i \in 1..(13 + l) : i <= 0 \/ i > 4 => G.Data[i] = s[i]
    BY <2>1, <2>2, <2>3, <2>4
  <2>6. /\ \A i \in 1..4 : G.Data[i] = w[i]
        /\ \A i \in 5..(13 + l) : G.Data[i] = s[i]
    BY <2>5
  <2>7. QED
    BY <2>4, <2>5, <2>6
<1>11. PICK f \in Seq(Byte) : f = C.Data /\ Len(f) = 13 + l
  BY <1>10 DEF Whole, Buffer
<1>12. \A i \in 1..4 : f[9 + i] = BigEndian(n, 4)[i]
  <2>1. ASSUME NEW i \in 1..4 PROVE f[9 + i] = a[9 + i]
    <3>1. 9 + i \in 5..(13 + l) /\ 9 + i \in 1..13
      OBVIOUS
    <3>2. QED
      BY <1>4, <1>10, <1>11, <3>1
  <2>2. QED
    BY <1>3, <2>1
<1>13. From(f, 14) = t
  <2>1. PICK u \in Seq(Byte) : /\ u = SubSeq(f, 14, 13 + l) /\ Len(u) = l
                               /\ \A i \in 1..l : u[i] = f[13 + i]
    <3>1. 14 \in Nat \ {0} /\ 13 + l \in Nat /\ 13 + l <= Len(f) /\ 14 <= (13 + l) + 1
          /\ ((13 + l) - 14) + 1 = l /\ \A i \in 1..l : (14 + i) - 1 = 13 + i
      BY <1>11
    <3>2. /\ SubSeq(f, 14, 13 + l) \in Seq(Byte)
          /\ Len(SubSeq(f, 14, 13 + l)) = ((13 + l) - 14) + 1
          /\ \A i \in 1..(((13 + l) - 14) + 1) : SubSeq(f, 14, 13 + l)[i] = f[(14 + i) - 1]
      BY <3>1, PieceFacts
    <3>3. /\ SubSeq(f, 14, 13 + l) \in Seq(Byte) /\ Len(SubSeq(f, 14, 13 + l)) = l
          /\ \A i \in 1..l : SubSeq(f, 14, 13 + l)[i] = f[13 + i]
      BY <3>1, <3>2
    <3>4. QED
      BY <3>3
  <2>2. ASSUME NEW i \in 1..l PROVE u[i] = t[i]
    <3>1. 13 + i \in 5..(13 + l)
      OBVIOUS
    <3>2. f[13 + i] = s[13 + i]
      <4>1. \A j \in 5..(13 + l) : C.Data[j] = s[j]
        BY <1>10
      <4>2. f = C.Data
        BY <1>11, Zenon
      <4>3. C.Data[13 + i] = s[13 + i]
        BY <3>1, <4>1
      <4>4. QED
        BY <4>2, <4>3
    <3>3. u[i] = f[13 + i]
      BY <2>1, Zenon
    <3>4. s[13 + i] = t[i]
      BY <1>4, Zenon
    <3>5. QED
      BY <3>2, <3>3, <3>4
  <2>3. u = t
    BY <1>2, <2>1, <2>2, SameSequence
  <2>4. QED
    BY <1>11, <2>1, <2>3 DEF From
<1>14. \A i \in 1..4 : f[i] = BigEndian(Len(f) - 4, 4)[i]
  <2>1. Len(f) - 4 = 9 + l
    BY <1>11
  <2>2. QED
    BY <1>7, <1>10, <1>11, <2>1
<1>15. Framed(f, messages, n)
  <2>1. Len(f) = 13 + Len(r[0])
    BY <1>2, <1>11
  <2>2. QED
    BY <1>1, <1>2, <1>12, <1>13, <1>14, <2>1, Zenon DEF Framed
<1>16. QED
  BY <1>5, <1>8, <1>10, <1>11, <1>15, Zenon

(***************************************************************************)
(* The way back.                                                           *)
(***************************************************************************)

LEMMA FromFacts ==
  ASSUME NEW s \in Seq(Byte), NEW k \in Nat, NEW l \in Nat, Len(s) = k + l
  PROVE  /\ From(s, k + 1) \in Seq(Byte) /\ Len(From(s, k + 1)) = l
         /\ \A i \in 1..l : From(s, k + 1)[i] = s[k + i]
<1>1. /\ k + 1 \in Nat \ {0} /\ k + l \in Nat /\ k + l <= Len(s) /\ k + 1 <= (k + l) + 1
      /\ ((k + l) - (k + 1)) + 1 = l
      /\ \A i \in 1..l : ((k + 1) + i) - 1 = k + i
  OBVIOUS
<1>2. /\ SubSeq(s, k + 1, k + l) \in Seq(Byte)
      /\ Len(SubSeq(s, k + 1, k + l)) = ((k + l) - (k + 1)) + 1
      /\ \A i \in 1..(((k + l) - (k + 1)) + 1) :
           SubSeq(s, k + 1, k + l)[i] = s[((k + 1) + i) - 1]
  BY <1>1, PieceFacts
<1>3. From(s, k + 1) = SubSeq(s, k + 1, k + l)
  BY DEF From
<1>4. QED
  BY <1>1, <1>2, <1>3

EntryRead(rest, m, t) ==
    /\ NumberAt(rest, 8) = m.PublishingId
    /\ NumberAt(From(rest, 9), 4) = Len(Body(m))
    /\ From(rest, 13 + Len(Body(m))) = t
    /\ SubSeq(rest, 13, 12 + Len(Body(m))) = Body(m)

\* What the broker makes of the front of the messages.
LEMMA EntryFacts ==
  ASSUME NEW m \in Publication, NEW t \in Seq(Byte), NEW rest, rest = Encoded(m) \o t
  PROVE  /\ rest \in Seq(Byte) /\ Len(rest) = (12 + Len(Body(m))) + Len(t)
         /\ NumberAt(rest, 8) = m.PublishingId
         /\ NumberAt(From(rest, 9), 4) = Len(Body(m))
         /\ From(rest, 13 + Len(Body(m))) = t
         /\ SubSeq(rest, 13, 12 + Len(Body(m))) = Body(m)
<1>1. PICK b \in Seq(Byte), n \in Nat, l \in Nat : b = Body(m) /\ n = Len(b) /\ l = Len(t)
  BY BodyFacts
<1>2. PICK e \in Seq(Byte) : /\ e = Encoded(m) /\ Len(e) = 12 + n
                             /\ \A i \in 1..8 : e[i] = BigEndian(m.PublishingId, 8)[i]
                             /\ \A i \in 1..4 : e[8 + i] = BigEndian(n, 4)[i]
                             /\ \A i \in 1..n : e[12 + i] = b[i]
  <2>1. /\ Encoded(m) \in Seq(Byte) /\ Len(Encoded(m)) = 12 + n
        /\ \A i \in 1..8 : Encoded(m)[i] = BigEndian(m.PublishingId, 8)[i]
        /\ \A i \in 1..4 : Encoded(m)[8 + i] = BigEndian(n, 4)[i]
        /\ \A i \in 1..n : Encoded(m)[12 + i] = b[i]
    BY <1>1, EncodedFacts
  <2>2. QED
    BY <2>1
<1>3. /\ rest \in Seq(Byte) /\ Len(rest) = (12 + n) + l
      /\ \A i \in 1..(12 + n) : rest[i] = e[i]
      /\ \A i \in 1..l : rest[(12 + n) + i] = t[i]
  <2>1. Len(e) = 12 + n /\ Len(t) = l /\ rest = e \o t
    BY <1>1, <1>2
  <2>2. /\ e \o t \in Seq(Byte) /\ Len(e \o t) = Len(e) + Len(t)
        /\ \A i \in 1..Len(e) : (e \o t)[i] = e[i]
        /\ \A i \in 1..Len(t) : (e \o t)[Len(e) + i] = t[i]
    BY ConcatFacts
  <2>3. QED
    BY <2>1, <2>2
<1>4. NumberAt(rest, 8) = m.PublishingId
  <2>1. ASSUME NEW i \in 1..8 PROVE rest[i] = BigEndian(m.PublishingId, 8)[i]
    <3>1. i \in 1..(12 + n) /\ rest[i] = e[i]
      BY <1>3
    <3>2. QED
      BY <1>2, <3>1
  <2>2. m.PublishingId \in Number /\ 8 \in Nat \ {0} /\ 8 <= Len(rest)
    BY <1>3 DEF Publication, Number
  <2>3. QED
    BY <1>3, <2>1, <2>2, NumberAtLemma
<1>5. NumberAt(From(rest, 9), 4) = n
  <2>1. PICK f \in Seq(Byte) : f = From(rest, 9) /\ Len(f) = (4 + n) + l
                               /\ \A i \in 1..((4 + n) + l) : f[i] = rest[8 + i]
    <3>1. Len(rest) = 8 + ((4 + n) + l) /\ 8 \in Nat /\ (4 + n) + l \in Nat /\ 8 + 1 = 9
      BY <1>3
    <3>2. /\ From(rest, 8 + 1) \in Seq(Byte) /\ Len(From(rest, 8 + 1)) = (4 + n) + l
          /\ \A i \in 1..((4 + n) + l) : From(rest, 8 + 1)[i] = rest[8 + i]
      BY <1>3, <3>1, FromFacts
    <3>3. QED
      BY <3>1, <3>2
  <2>2. ASSUME NEW i \in 1..4 PROVE f[i] = BigEndian(n, 4)[i]
    <3>1. i \in 1..((4 + n) + l) /\ 8 + i \in 1..(12 + n)
      OBVIOUS
    <3>2. f[i] = rest[8 + i] /\ rest[8 + i] = e[8 + i]
      BY <1>3, <2>1, <3>1
    <3>3. e[8 + i] = BigEndian(n, 4)[i]
      BY <1>2
    <3>4. QED
      BY <3>2, <3>3
  <2>3. n \in Number /\ 4 \in Nat \ {0} /\ 4 <= Len(f)
    BY <2>1 DEF Number
  <2>4. NumberAt(f, 4) = n
    BY <2>2, <2>3, NumberAtLemma
  <2>5. QED
    BY <2>1, <2>4
<1>6. From(rest, 13 + n) = t
  <2>1. 12 + n \in Nat /\ (12 + n) + 1 = 13 + n
    OBVIOUS
  <2>2. PICK f \in Seq(Byte) : f = From(rest, 13 + n) /\ Len(f) = l
                               /\ \A i \in 1..l : f[i] = rest[(12 + n) + i]
    <3>1. /\ From(rest, (12 + n) + 1) \in Seq(Byte) /\ Len(From(rest, (12 + n) + 1)) = l
          /\ \A i \in 1..l : From(rest, (12 + n) + 1)[i] = rest[(12 + n) + i]
      BY <1>3, <2>1, FromFacts
    <3>2. QED
      BY <2>1, <3>1
  <2>3. \A i \in 1..l : f[i] = t[i]
    BY <1>3, <2>2
  <2>4. Len(t) = l /\ Len(f) = l
    BY <1>1, <2>2
  <2>5. f = t
    BY <2>3, <2>4, SameSequence
  <2>6. QED
    BY <2>2, <2>5
<1>7. SubSeq(rest, 13, 12 + n) = b
  <2>1. /\ 13 \in Nat \ {0} /\ 12 + n \in Nat /\ 12 + n <= Len(rest) /\ 13 <= (12 + n) + 1
        /\ ((12 + n) - 13) + 1 = n /\ \A i \in 1..n : (13 + i) - 1 = 12 + i
    BY <1>3
  <2>2. /\ SubSeq(rest, 13, 12 + n) \in Seq(Byte)
        /\ Len(SubSeq(rest, 13, 12 + n)) = ((12 + n) - 13) + 1
        /\ \A i \in 1..(((12 + n) - 13) + 1) : SubSeq(rest, 13, 12 + n)[i] = rest[(13 + i) - 1]
    BY <1>3, <2>1, PieceFacts
  <2>3. PICK f \in Seq(Byte) : f = SubSeq(rest, 13, 12 + n) /\ Len(f) = n
                               /\ \A i \in 1..n : f[i] = rest[12 + i]
    <3>1. /\ Len(SubSeq(rest, 13, 12 + n)) = n
          /\ \A i \in 1..n : SubSeq(rest, 13, 12 + n)[i] = rest[12 + i]
      BY <2>1, <2>2
    <3>2. QED
      BY <2>2, <3>1
  <2>4. ASSUME NEW i \in 1..n PROVE f[i] = b[i]
    <3>1. 12 + i \in 1..(12 + n)
      OBVIOUS
    <3>2. f[i] = rest[12 + i] /\ rest[12 + i] = e[12 + i]
      BY <1>3, <2>3, <3>1
    <3>3. e[12 + i] = b[i]
      BY <1>2
    <3>4. QED
      BY <3>2, <3>3
  <2>5. Len(b) = n /\ Len(f) = n
    BY <1>1, <2>3
  <2>6. f = b
    BY <2>4, <2>5, SameSequence
  <2>7. QED
    BY <2>3, <2>6
<1>8. QED
  BY <1>1, <1>3, <1>4, <1>5, <1>6, <1>7

LEMMA EntryIsRead ==
  ASSUME NEW m \in Publication, NEW t \in Seq(Byte)
  PROVE  EntryRead(Encoded(m) \o t, m, t)
BY EntryFacts, Zenon DEF EntryRead

\* What the broker makes of all the messages.
LEMMA EntriesFacts ==
  ASSUME NEW n \in Nat, NEW messages \in [1..n -> Publication], NEW r, Tails(r, messages, n)
  PROVE  /\ Entries(r[0], n).rest = << >>
         /\ \A i \in 1..n :
              /\ Entries(r[0], n).entries[i].PublishingId = messages[i].PublishingId
              /\ Entries(r[0], n).entries[i].Data = Body(messages[i])
<1> DEFINE size(rest) == NumberAt(From(rest, 9), 4)
           left == CHOOSE f : f = [k \in 0..n |->
                     IF k = 0 THEN r[0]
                     ELSE LET rest == f[k - 1] IN From(rest, 13 + size(rest))]
           entry(rest) == [PublishingId |-> NumberAt(rest, 8),
                           Data |-> SubSeq(rest, 13, 12 + size(rest))]
<1>1. /\ Entries(r[0], n).rest = left[n]
      /\ Entries(r[0], n).entries = [i \in 1..n |-> entry(left[i - 1])]
  <2>1. PICK x, y : x = left[n] /\ y = [i \in 1..n |-> entry(left[i - 1])]
    OBVIOUS
  <2>2. Entries(r[0], n) = [rest |-> x, entries |-> y]
    BY <2>1, Zenon DEF Entries
  <2>3. Entries(r[0], n).rest = x /\ Entries(r[0], n).entries = y
    <3> HIDE <2>1
    <3>1. QED
      BY <2>2
  <2>4. QED
    BY <2>1, <2>3, Zenon
<1>2. r \in [0..n -> Seq(Byte)] /\ r[n] = << >>
  BY DEF Tails
<1>3. ASSUME NEW k \in 1..n
      PROVE  /\ NumberAt(r[k - 1], 8) = messages[k].PublishingId
             /\ SubSeq(r[k - 1], 13, 12 + size(r[k - 1])) = Body(messages[k])
             /\ From(r[k - 1], 13 + size(r[k - 1])) = r[k]
  <2>1. k - 1 \in 0..n /\ k \in 0..n
    OBVIOUS
  <2>2. PICK m \in Publication, t \in Seq(Byte), s \in Seq(Byte) :
          m = messages[k] /\ t = r[k] /\ s = r[k - 1] /\ s = Encoded(m) \o t
    BY <1>2, <2>1 DEF Tails
  <2>3. /\ NumberAt(s, 8) = m.PublishingId
        /\ NumberAt(From(s, 9), 4) = Len(Body(m))
        /\ From(s, 13 + Len(Body(m))) = t
        /\ SubSeq(s, 13, 12 + Len(Body(m))) = Body(m)
    <3>1. EntryRead(Encoded(m) \o t, m, t)
      BY EntryIsRead, Zenon
    <3>2. EntryRead(s, m, t)
      BY <2>2, <3>1, Zenon
    <3>3. QED
      BY <3>2, Zenon DEF EntryRead
  <2>4. QED
    BY <2>2, <2>3
<1>4. r = [k \in 0..n |->
             IF k = 0 THEN r[0] ELSE LET rest == r[k - 1] IN From(rest, 13 + size(rest))]
  <2>1. ASSUME NEW k \in 0..n
        PROVE  r[k] = IF k = 0 THEN r[0] ELSE From(r[k - 1], 13 + size(r[k - 1]))
    <3>1. CASE k = 0
      BY <3>1
    <3>2. CASE k # 0
      <4>1. k \in 1..n
        BY <3>2
      <4>2. QED
        BY <1>3, <3>2, <4>1, Zenon
    <3>3. QED
      BY <3>1, <3>2
  <2> HIDE DEF size
  <2>2. QED
    BY <1>2, <2>1
<1>5. left = [k \in 0..n |->
                IF k = 0 THEN r[0] ELSE LET rest == left[k - 1] IN From(rest, 13 + size(rest))]
  BY <1>4, Zenon
<1> HIDE DEF left
<1> DEFINE S == {k \in Nat : k <= n => left[k] = r[k]}
<1>6. 0 \in S
  <2>1. 0 \in 0..n
    OBVIOUS
  <2>2. left[0] = r[0]
    BY <1>5, <2>1, Zenon
  <2>3. QED
    BY <2>2
<1>7. ASSUME NEW k \in Nat, k \in S PROVE k + 1 \in S
  <2>1. SUFFICES ASSUME k + 1 <= n PROVE left[k + 1] = r[k + 1]
    <3>1. k + 1 \in Nat
      OBVIOUS
    <3>2. QED
      BY <3>1, Zenon
  <2>2. k + 1 \in 0..n /\ k + 1 \in 1..n /\ k + 1 # 0 /\ (k + 1) - 1 = k /\ k <= n
    BY <2>1
  <2>3. left[k] = r[k]
    BY <1>7, <2>2, Zenon
  <2>4. left[k + 1] = From(left[k], 13 + size(left[k]))
    BY <1>5, <2>2, Zenon
  <2>5. From(r[k], 13 + size(r[k])) = r[k + 1]
    BY <1>3, <2>2, Zenon
  <2>6. QED
    BY <2>3, <2>4, <2>5, Zenon
<1> HIDE DEF S
<1>8. Nat \subseteq S
  BY <1>6, <1>7, NatSetInduction
<1>9. \A k \in 0..n : left[k] = r[k]
  BY <1>8 DEF S
<1>10. ASSUME NEW i \in 1..n
       PROVE  /\ Entries(r[0], n).entries[i].PublishingId = messages[i].PublishingId
              /\ Entries(r[0], n).entries[i].Data = Body(messages[i])
  <2>1. i - 1 \in 0..n
    OBVIOUS
  <2>2. left[i - 1] = r[i - 1]
    BY <1>9, <2>1
  <2>3. Entries(r[0], n).entries[i] = entry(r[i - 1])
    BY <1>1, <2>2, Zenon
  <2>4. /\ NumberAt(r[i - 1], 8) = messages[i].PublishingId
        /\ SubSeq(r[i - 1], 13, 12 + size(r[i - 1])) = Body(messages[i])
    BY <1>3
  <2> HIDE DEF size
  <2>5. QED
    BY <2>3, <2>4
<1>11. Entries(r[0], n).rest = << >>
  <2>1. n \in 0..n
    OBVIOUS
  <2>2. Entries(r[0], n).rest = left[n]
    BY <1>1, Zenon
  <2>3. QED
    BY <1>2, <1>9, <2>1, <2>2
<1>12. QED
  BY <1>10, <1>11

\* What the consumer makes of the bytes of a message, on either machine.
LEMMA TextFound ==
  ASSUME NEW m \in Publication, m.Encoding = "AMQP1_0", NEW little \in BOOLEAN
  PROVE  LET checked == CheckAQMP1_0Message(little, Body(m))
         IN  checked.is = TRUE /\ checked.Message = Text(m)
<1>1. PICK n \in Nat : n = m.Size
  BY DEF Publication
<1>2. PICK t \in Seq(Byte) : t = Text(m) /\ Len(t) = n
  BY <1>1, TextFacts
<1>3. PICK h \in Seq(Byte), l \in {5, 8} : h = DataHeader(n) /\ Len(h) = l
  BY DataHeaderFacts
<1>4. PICK b \in Seq(Byte) : /\ b = Body(m) /\ Len(b) = l + n
                             /\ \A i \in 1..l : b[i] = h[i]
                             /\ \A i \in 1..n : b[l + i] = t[i]
  <2>1. Body(m) = h \o t
    BY <1>1, <1>2, <1>3, BodyFacts
  <2>2. /\ h \o t \in Seq(Byte) /\ Len(h \o t) = Len(h) + Len(t)
        /\ \A i \in 1..Len(h) : (h \o t)[i] = h[i]
        /\ \A i \in 1..Len(t) : (h \o t)[Len(h) + i] = t[i]
    BY ConcatFacts
  <2>3. Len(h) = l /\ Len(t) = n
    BY <1>2, <1>3
  <2>4. /\ Len(h \o t) = l + n
        /\ \A i \in 1..l : (h \o t)[i] = h[i]
        /\ \A i \in 1..n : (h \o t)[l + i] = t[i]
    BY <2>2, <2>3
  <2>5. QED
    BY <2>1, <2>2, <2>4
<1>5. ASSUME NEW type \in {"V_8", "V_32"}, \A i \in 1..4 : h[i] = Header(type)[i]
      PROVE  SubSeq(b, 1, 3) = <<"Byte0", "Byte1", "DataType">> /\ b[4] = type
  <2>1. /\ Header(type)[1] = "Byte0" /\ Header(type)[2] = "Byte1"
        /\ Header(type)[3] = "DataType" /\ Header(type)[4] = type
    BY HeaderFacts
  <2>2. \A i \in 1..4 : b[i] = Header(type)[i]
    <3>1. \A i \in 1..4 : i \in 1..l
      OBVIOUS
    <3>2. QED
      BY <1>4, <1>5, <3>1
  <2>3. b[1] = "Byte0" /\ b[2] = "Byte1" /\ b[3] = "DataType" /\ b[4] = type
    BY <2>1, <2>2
  <2>4. PICK f \in Seq(Byte) : f = SubSeq(b, 1, 3) /\ Len(f) = 3
                               /\ \A i \in 1..3 : f[i] = b[i]
    <3>1. 1 \in Nat \ {0} /\ 3 \in Nat /\ 3 <= Len(b) /\ 1 <= 3 + 1 /\ (3 - 1) + 1 = 3
          /\ \A i \in 1..3 : (1 + i) - 1 = i
      BY <1>4
    <3>2. /\ SubSeq(b, 1, 3) \in Seq(Byte) /\ Len(SubSeq(b, 1, 3)) = (3 - 1) + 1
          /\ \A i \in 1..((3 - 1) + 1) : SubSeq(b, 1, 3)[i] = b[(1 + i) - 1]
      BY <3>1, PieceFacts
    <3>3. Len(SubSeq(b, 1, 3)) = 3 /\ \A i \in 1..3 : SubSeq(b, 1, 3)[i] = b[i]
      BY <3>1, <3>2
    <3>4. QED
      BY <3>2, <3>3
  <2>5. PICK g \in Seq(Byte) : /\ g = <<"Byte0", "Byte1", "DataType">> /\ Len(g) = 3
                               /\ g[1] = "Byte0" /\ g[2] = "Byte1" /\ g[3] = "DataType"
    <3>1. "Byte0" \in Byte /\ "Byte1" \in Byte /\ "DataType" \in Byte
      BY DEF Byte
    <3>2. <<"Byte0", "Byte1", "DataType">> \in Seq(Byte)
      BY <3>1
    <3>3. QED
      BY <3>2
  <2>6. \A i \in 1..3 : i = 1 \/ i = 2 \/ i = 3
    OBVIOUS
  <2>7. \A i \in 1..3 : f[i] = g[i]
    BY <2>3, <2>4, <2>5, <2>6
  <2>8. f = g
    <3>1. Len(f) = 3 /\ Len(g) = 3
      BY <2>4, <2>5, Zenon
    <3>2. QED
      BY <2>7, <3>1, SameSequence
  <2>9. QED
    BY <2>3, <2>4, <2>5, <2>8
<1>6. SubSeq(b, l + 1, l + n) = t
  <2>1. /\ l + 1 \in Nat \ {0} /\ l + n \in Nat /\ l + n <= Len(b) /\ l + 1 <= (l + n) + 1
        /\ ((l + n) - (l + 1)) + 1 = n /\ \A i \in 1..n : ((l + 1) + i) - 1 = l + i
    BY <1>4
  <2>2. /\ SubSeq(b, l + 1, l + n) \in Seq(Byte)
        /\ Len(SubSeq(b, l + 1, l + n)) = ((l + n) - (l + 1)) + 1
        /\ \A i \in 1..(((l + n) - (l + 1)) + 1) :
             SubSeq(b, l + 1, l + n)[i] = b[((l + 1) + i) - 1]
    BY <2>1, PieceFacts
  <2>3. PICK f \in Seq(Byte) : f = SubSeq(b, l + 1, l + n) /\ Len(f) = n
                               /\ \A i \in 1..n : f[i] = b[l + i]
    <3>1. /\ Len(SubSeq(b, l + 1, l + n)) = n
          /\ \A i \in 1..n : SubSeq(b, l + 1, l + n)[i] = b[l + i]
      BY <2>1, <2>2
    <3>2. QED
      BY <2>2, <3>1
  <2>4. \A i \in 1..n : f[i] = t[i]
    BY <1>4, <2>3
  <2>5. Len(t) = n /\ Len(f) = n
    BY <1>2, <2>3
  <2>6. f = t
    BY <2>4, <2>5, SameSequence
  <2>7. QED
    BY <2>3, <2>6
<1>7. CASE IsShort(n)
  <2>1. l = 5 /\ \A i \in 1..4 : h[i] = Header("V_8")[i]
    BY <1>3, <1>7, DataHeaderFacts
  <2>2. SubSeq(b, 1, 3) = <<"Byte0", "Byte1", "DataType">> /\ b[4] = "V_8"
    BY <1>5, <2>1
  <2>3. b[5].of = n
    <3>1. h[5].of = n
      BY <1>3, <1>7, DataHeaderFacts
    <3>2. b[5] = h[5]
      BY <1>4, <2>1
    <3>3. QED
      BY <3>1, <3>2
  <2>4. ~(Len(b) < 5)
    BY <1>4
  <2>5. CheckAQMP1_0Message(little, b) = [is |-> TRUE, Message |-> SubSeq(b, 6, 5 + n)]
    BY <2>2, <2>3, <2>4, Zenon DEF CheckAQMP1_0Message
  <2>6. SubSeq(b, 6, 5 + n) = t
    BY <1>6, <2>1
  <2>7. QED
    BY <1>2, <1>4, <2>5, <2>6
<1>8. CASE ~IsShort(n)
  <2>1. l = 8 /\ \A i \in 1..4 : h[i] = Header("V_32")[i]
    BY <1>3, <1>8, DataHeaderFacts
  <2>2. SubSeq(b, 1, 3) = <<"Byte0", "Byte1", "DataType">> /\ b[4] = "V_32"
    BY <1>5, <2>1
  <2>3. PICK c \in Seq(Byte) : /\ c = BigEndian(n, 4) /\ Len(c) = 4
                               /\ \A i \in 1..4 : c[i].of = n
    <3>1. n \in Number /\ 4 \in Nat
      BY DEF Number
    <3>2. /\ BigEndian(n, 4) \in Seq(Byte) /\ Len(BigEndian(n, 4)) = 4
          /\ \A i \in 1..4 : BigEndian(n, 4)[i].of = n
      BY <3>1, BigEndianFacts
    <3>3. QED
      BY <3>2, Zenon
  <2>4. PICK d \in Seq(Byte) : d = Reverse(c) /\ Len(d) = 4
                               /\ \A i \in 1..4 : d[i] = c[(4 - i) + 1]
    <3>1. /\ Reverse(c) \in Seq(Byte) /\ Len(Reverse(c)) = Len(c)
          /\ \A i \in 1..Len(c) : Reverse(c)[i] = c[(Len(c) - i) + 1]
      BY ReverseFacts
    <3>2. Len(c) = 4
      BY <2>3, Zenon
    <3>3. Len(Reverse(c)) = 4 /\ \A i \in 1..4 : Reverse(c)[i] = c[(4 - i) + 1]
      BY <3>1, <3>2
    <3>4. QED
      BY <3>1, <3>3
  <2>5. SubSeq(b, 5, 8) = d
    <3>1. PICK f \in Seq(Byte) : f = SubSeq(b, 5, 8) /\ Len(f) = 4
                                 /\ \A i \in 1..4 : f[i] = b[4 + i]
      <4>1. 5 \in Nat \ {0} /\ 8 \in Nat /\ 8 <= Len(b) /\ 5 <= 8 + 1 /\ (8 - 5) + 1 = 4
            /\ \A i \in 1..4 : (5 + i) - 1 = 4 + i
        BY <1>4, <2>1
      <4>2. /\ SubSeq(b, 5, 8) \in Seq(Byte) /\ Len(SubSeq(b, 5, 8)) = (8 - 5) + 1
            /\ \A i \in 1..((8 - 5) + 1) : SubSeq(b, 5, 8)[i] = b[(5 + i) - 1]
        BY <4>1, PieceFacts
      <4>3. Len(SubSeq(b, 5, 8)) = 4 /\ \A i \in 1..4 : SubSeq(b, 5, 8)[i] = b[4 + i]
        BY <4>1, <4>2
      <4>4. QED
        BY <4>2, <4>3
    <3>2. \A i \in 1..4 : h[4 + i] = d[i]
      BY <1>3, <1>8, <2>3, <2>4, DataHeaderFacts
    <3>3. \A i \in 1..4 : b[4 + i] = h[4 + i]
      BY <1>4, <2>1
    <3>4. \A i \in 1..4 : f[i] = d[i]
      BY <3>1, <3>2, <3>3
    <3>5. Len(d) = 4 /\ Len(f) = 4
      BY <2>4, <3>1
    <3>6. f = d
      BY <3>4, <3>5, SameSequence
    <3>7. QED
      BY <3>1, <3>6
  <2>6. DataFrameSize(little, d) = n
    <3>1. Reverse(d) = c
      BY <2>4, ReverseTwice
    <3>2. d[1].of = n
      <4>1. 1 \in 1..4 /\ 4 \in 1..4 /\ (4 - 1) + 1 = 4
        OBVIOUS
      <4>2. d[1] = c[4]
        BY <2>4, <4>1
      <4>3. c[4].of = n
        BY <2>3, <4>1
      <4>4. QED
        BY <4>2, <4>3
    <3>3. QED
      BY <2>3, <3>1, <3>2, Zenon DEF DataFrameSize, Swap
  <2>7. ~(Len(b) < 5) /\ "V_32" # "V_8"
    BY <1>4
  <2>8. CheckAQMP1_0Message(little, b) = [is |-> TRUE, Message |-> SubSeq(b, 9, 8 + n)]
    BY <2>2, <2>5, <2>6, <2>7, Zenon DEF CheckAQMP1_0Message
  <2>9. SubSeq(b, 9, 8 + n) = t
    BY <1>6, <2>1
  <2>10. QED
    BY <1>2, <1>4, <2>8, <2>9
<1>9. QED
  BY <1>7, <1>8

(***************************************************************************)
(* The inductive invariant: TxQueue is whole, and the last frame is framed *)
(* from the last batch.                                                    *)
(***************************************************************************)

FrameInv ==
    /\ IsLittleEndianMachine \in BOOLEAN /\ frames \in 0..MaxFrames
    /\ Whole(TxQueue)
    /\ \/ frame = << >> /\ batch = << >>
       \/ \E n \in Nat : batch \in [1..n -> Publication] /\ Framed(frame, batch, n)

LEMMA BatchesFacts ==
  ASSUME NEW n \in Nat, NEW messages \in Batches(n)
  PROVE  messages \in [1..n -> Publication]
<1>1. ASSUME NEW id \in 1..n, NEW m \in Messages(id) PROVE m \in Publication
  <2>1. MessageSize \subseteq Nat /\ id \in Nat
    BY TxAssumption
  <2>2. m \in [PublishingId : {id}, Size : MessageSize, Encoding : {"None", "AMQP1_0"}]
    BY DEF Messages
  <2>3. QED
    BY <2>1, <2>2 DEF Publication
<1>2. messages \in [1..n -> UNION {Messages(id) : id \in 1..n}]
  BY Zenon DEF Batches
<1>3. \A k \in 1..n : messages[k] \in Publication
  BY <1>1, <1>2
<1>4. QED
  BY <1>2, <1>3

LEMMA FrameInvInit == Init => FrameInv
<1>1. SUFFICES ASSUME Init PROVE FrameInv
  OBVIOUS
<1>2. PICK B : B = EmptyBuffer
  OBVIOUS
<1>3. /\ B \in Buffer(Byte) /\ B.Data = << >> /\ B.Size = 0 /\ B.Position = 0
      /\ B.CurrentMemorySize = 0
  BY <1>2 DEF EmptyBuffer, Buffer
<1>4. Whole(B)
  BY <1>3 DEF Whole
<1>5. 0 \in 0..MaxFrames
  BY TxAssumption
<1>6. QED
  BY <1>1, <1>2, <1>4, <1>5, Zenon DEF Init, FrameInv

LEMMA FrameInvNext == FrameInv /\ [Next]_vars => FrameInv'
<1>1. SUFFICES ASSUME FrameInv, [Next]_vars PROVE FrameInv'
  OBVIOUS
<1>2. CASE Next
  <2>1. PICK n \in 1..MaxBatch : \E messages \in Batches(n) : Publish(messages)
    BY <1>2 DEF Next
  <2>2. PICK messages \in Batches(n) : Publish(messages)
    BY <2>1
  <2>3. n \in Nat /\ messages \in [1..n -> Publication]
    BY BatchesFacts, TxAssumption
  <2>4. PICK C : C = SizePatched(Built(TxQueue, messages))
    OBVIOUS
  <2>5. Whole(C) /\ Framed(C.Data, messages, n)
    BY <1>1, <2>3, <2>4, FrameFacts DEF FrameInv
  <2>6. TxQueue' = C /\ frame' = C.Data /\ batch' = messages
    BY <2>2, <2>4, Zenon DEF Publish
  <2>7. frames' \in 0..MaxFrames
    BY <1>1, <2>2, TxAssumption DEF FrameInv, Publish
  <2>8. IsLittleEndianMachine' \in BOOLEAN
    BY <1>1, <2>2, Zenon DEF FrameInv, Publish
  <2>9. QED
    BY <2>3, <2>5, <2>6, <2>7, <2>8, Zenon DEF FrameInv
<1>3. CASE UNCHANGED vars
  BY <1>1, <1>3, Zenon DEF FrameInv, vars
<1>4. QED
  BY <1>1, <1>2, <1>3

LEMMA FrameInvAlways == Spec => []FrameInv
BY FrameInvInit, FrameInvNext, PTL DEF Spec

\* Whatever frames were built in it, TxQueue keeps its sizes: the valid bytes are
\* counted, they fit into its memory, and the cursor is among them.
THEOREM TypeCorrect == Spec => []TypeOK
<1>1. FrameInv => TypeOK
  BY DEF FrameInv, TypeOK, Whole
<1>2. QED
  BY <1>1, FrameInvAlways, PTL

\* The size that rmqsPublish patches in at the front of a frame counts the bytes
\* behind it, in network order on every machine, also after longer frames.
THEOREM SizeAlwaysRight == Spec => []SizeIsRight
<1>1. FrameInv => SizeIsRight
  <2>1. SUFFICES ASSUME FrameInv, frame # << >> PROVE NumberAt(frame, 4) = Len(frame) - 4
    BY DEF SizeIsRight
  <2>2. PICK n \in Nat : Framed(frame, batch, n)
    BY <2>1 DEF FrameInv
  <2>3. PICK r : /\ Tails(r, batch, n) /\ Len(frame) = 13 + Len(r[0])
                 /\ \A i \in 1..4 : frame[i] = BigEndian(Len(frame) - 4, 4)[i]
    BY <2>2, Zenon DEF Framed
  <2> PICK f \in Seq(Byte) : f = frame
    BY <2>2 DEF Framed
  <2>4. r[0] \in Seq(Byte)
    BY <2>3 DEF Tails
  <2>5. Len(f) - 4 \in Number /\ 4 \in Nat \ {0} /\ 4 <= Len(f)
    <3>1. PICK l \in Nat : l = Len(r[0])
      BY <2>4
    <3>2. Len(f) = 13 + l
      BY <2>3, <3>1
    <3>3. QED
      BY <3>2 DEF Number
  <2>6. NumberAt(f, 4) = Len(f) - 4
    BY <2>3, <2>5, NumberAtLemma
  <2>7. QED
    BY <2>3, <2>6
<1>2. QED
  BY <1>1, FrameInvAlways, PTL

\* A frame, as the broker and a consumer see it.
LEMMA FramedFacts ==
  ASSUME NEW f, NEW messages, NEW n \in Nat, messages \in [1..n -> Publication],
         Framed(f, messages, n)
  PROVE  /\ Len(messages) = n /\ DOMAIN messages = 1..n
         /\ NumberAt(From(f, 10), 4) = n
         /\ Entries(From(f, 14), n).rest = << >>
         /\ \A i \in 1..n :
              /\ Entries(From(f, 14), n).entries[i].PublishingId = messages[i].PublishingId
              /\ Entries(From(f, 14), n).entries[i].Data = Body(messages[i])
<1>1. Len(messages) = n /\ DOMAIN messages = 1..n
  BY FunctionIsSequence
<1>2. PICK r : /\ Tails(r, messages, n)
               /\ Len(f) = 13 + Len(r[0]) /\ From(f, 14) = r[0]
               /\ \A i \in 1..4 : f[9 + i] = BigEndian(n, 4)[i]
  BY DEF Framed
<1>3. f \in Seq(Byte)
  BY DEF Framed
<1>4. NumberAt(From(f, 10), 4) = n
  <2>1. PICK l \in Nat : l = Len(r[0])
    BY <1>2 DEF Tails
  <2>2. Len(f) = 9 + (4 + l) /\ 4 + l \in Nat /\ 9 \in Nat /\ 9 + 1 = 10
    BY <1>2, <2>1
  <2>3. /\ From(f, 9 + 1) \in Seq(Byte) /\ Len(From(f, 9 + 1)) = 4 + l
        /\ \A i \in 1..(4 + l) : From(f, 9 + 1)[i] = f[9 + i]
    BY <1>3, <2>2, FromFacts
  <2>4. PICK g \in Seq(Byte) : /\ g = From(f, 10) /\ Len(g) = 4 + l
                               /\ \A i \in 1..(4 + l) : g[i] = f[9 + i]
    BY <2>2, <2>3
  <2>5. ASSUME NEW i \in 1..4 PROVE g[i] = BigEndian(n, 4)[i]
    <3>1. i \in 1..(4 + l)
      OBVIOUS
    <3>2. QED
      BY <1>2, <2>4, <3>1
  <2>6. n \in Number /\ 4 \in Nat \ {0} /\ 4 <= Len(g)
    BY <2>4 DEF Number
  <2>7. NumberAt(g, 4) = n
    BY <2>5, <2>6, NumberAtLemma
  <2>8. QED
    BY <2>4, <2>7
<1>5. /\ Entries(r[0], n).rest = << >>
      /\ \A i \in 1..n :
           /\ Entries(r[0], n).entries[i].PublishingId = messages[i].PublishingId
           /\ Entries(r[0], n).entries[i].Data = Body(messages[i])
  BY <1>2, EntriesFacts
<1>6. QED
  BY <1>1, <1>2, <1>4, <1>5, Zenon

\* A broker that follows the protocol finds the messages of the batch in the frame,
\* with their ids, and nothing between or behind them.
THEOREM BrokerAlwaysFindsMessages == Spec => []BrokerFindsMessages
<1>1. FrameInv => BrokerFindsMessages
  <2>1. SUFFICES ASSUME FrameInv, frame # << >>
        PROVE  LET count == NumberAt(From(frame, 10), 4)
                   found == Entries(From(frame, 14), count)
               IN  /\ count = Len(batch) /\ found.rest = << >>
                   /\ \A i \in 1..count :
                        found.entries[i].PublishingId = batch[i].PublishingId
    BY Zenon DEF BrokerFindsMessages
  <2>2. PICK n \in Nat : batch \in [1..n -> Publication] /\ Framed(frame, batch, n)
    BY <2>1 DEF FrameInv
  <2>3. /\ Len(batch) = n /\ NumberAt(From(frame, 10), 4) = n
        /\ Entries(From(frame, 14), n).rest = << >>
        /\ \A i \in 1..n :
             Entries(From(frame, 14), n).entries[i].PublishingId = batch[i].PublishingId
    BY <2>2, FramedFacts
  <2>4. QED
    BY <2>3, Zenon
<1>2. QED
  BY <1>1, FrameInvAlways, PTL

\* A consumer gets the text of each message back on machines of both byte orders,
\* whether the size of the text has asked for the short or for the long header.
THEOREM TextAlwaysComesBack == Spec => []TextComesBack
<1>1. FrameInv => TextComesBack
  <2>1. SUFFICES ASSUME FrameInv, NEW i \in DOMAIN batch, NEW little \in BOOLEAN
        PROVE  LET data == Entries(From(frame, 14), Len(batch)).entries[i].Data
                   checked == CheckAQMP1_0Message(little, data)
               IN  IF batch[i].Encoding = "AMQP1_0"
                   THEN checked.is /\ checked.Message = Text(batch[i])
                   ELSE data = Text(batch[i])
    BY Zenon DEF TextComesBack
  <2>2. batch # << >>
    BY <2>1
  <2>3. PICK n \in Nat : batch \in [1..n -> Publication] /\ Framed(frame, batch, n)
    BY <2>1, <2>2 DEF FrameInv
  <2>4. /\ Len(batch) = n /\ i \in 1..n
        /\ Entries(From(frame, 14), n).entries[i].Data = Body(batch[i])
    BY <2>3, FramedFacts
  <2>5. PICK m \in Publication : m = batch[i]
    BY <2>3, <2>4
  <2>6. CASE m.Encoding = "AMQP1_0"
    <3>1. LET checked == CheckAQMP1_0Message(little, Body(m))
          IN  checked.is = TRUE /\ checked.Message = Text(m)
      BY <2>6, TextFound
    <3>2. QED
      BY <2>4, <2>5, <2>6, <3>1, Zenon
  <2>7. CASE m.Encoding # "AMQP1_0"
    <3>1. Body(m) = Text(m)
      BY <2>7, BodyFacts
    <3>2. QED
      BY <2>4, <2>5, <2>7, <3>1, Zenon
  <2>8. QED
    BY <2>6, <2>7
<1>2. QED
  BY <1>1, FrameInvAlways, PTL
=============================================================================
