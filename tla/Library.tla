------------------------------ MODULE Library ------------------------------
(***************************************************************************)
(* The objects that an application makes of the library beside its         *)
(* configuration (publishers and consumers with their clients and buffers, *)
(* messages, batches and metadata) and what each owns in memory.           *)
(***************************************************************************)
EXTENDS ClientConfiguration

CONSTANTS
    MaxObjects,     \* bound on the objects at a time
    MaxChunks,      \* bound on the chunks of a buffer's memory
    MaxListed       \* bound on the streams in metadata

ASSUME LibraryAssumption == {MaxObjects, MaxChunks, MaxListed} \subseteq Nat

VARIABLE handle     \* the objects of the application: their addresses, or 0

vars == <<configurationVars, handle>>

Handles == {"publisher", "consumer", "message", "batch", "metadata"}
Open == {h \in Handles : handle[h] # Null}

LibraryInit == Init /\ handle = [h \in Handles |-> Null]

\* An object is made: its address is the first that is allocated for it.
Make(h, after) ==
    /\ handle[h] = Null /\ Cardinality(Open) < MaxObjects
    /\ call.op \in {"none", "Create"} /\ Len(written) <= MaxEdited     \* bound
    /\ memory' = after
    /\ handle' = [handle EXCEPT ![h] = NewAddress(memory)]
    /\ UNCHANGED <<ClientConfiguration, written, call>>

Use(h, after) ==
    /\ handle[h] # Null
    /\ memory' = after
    /\ UNCHANGED <<ClientConfiguration, written, call, handle>>

Dispose(h, after) ==
    /\ handle[h] # Null
    /\ memory' = after
    /\ handle' = [handle EXCEPT ![h] = Null]
    /\ UNCHANGED <<ClientConfiguration, written, call>>

-----------------------------------------------------------------------------
(* rmqsBuffer.c: its memory.                                               *)

BufferBlock == Block(1, [Data |-> Null], 0)

BufferDestroyData(m, buffer) == FreeMemory(m, buffer)                  \* mutant

BufferDestroy(m, buffer) == FreeWith(m, buffer, <<"Data">>)

\* Memory of this many chunks is needed; it is never given back.
BufferSetMemorySize(m, buffer, chunks) ==
    LET CurrentMemorySize == m.block[buffer].value
        data == PointerIn(m, buffer, "Data")
        grown == IF data = Null
                 THEN AllocateInto(m, buffer, "Data", Block(chunks, NoPointers, 0))
                 ELSE RellocateMemory(m, data, chunks)
    IN  IF data # Null /\ chunks <= CurrentMemorySize THEN m
        ELSE [grown EXCEPT !.block[buffer].value = chunks]

-----------------------------------------------------------------------------
(* Clients, publishers and consumers.                                      *)

ClientCreate(m, parent) ==
    LET client == NewAddress(m)
        bare == AllocateMemory(m, Block(1, [ClientConfiguration |-> ClientConfiguration,
                                            ParentObject |-> parent,
                                            TxQueue |-> Null, RxQueue |-> Null], 0))
    IN  AllocateInto(AllocateInto(bare, client, "TxQueue", BufferBlock),
                     client, "RxQueue", BufferBlock)

ClientDestroy(m, client) ==
    FreeMemory(BufferDestroy(BufferDestroy(m, PointerIn(m, client, "TxQueue")),
                             PointerIn(m, client, "RxQueue")), client)

PublisherOrConsumer == {"publisher", "consumer"}

\* rmqsPublisherCreate, rmqsConsumerCreate
ClientObjectCreate(h) ==
    LET object == NewAddress(memory)
        bare == AllocateMemory(memory, Block(1, [Client |-> Null], 0))
    IN  /\ ClientConfiguration # Null
        /\ Make(h, SetPointer(ClientCreate(bare, object), object, "Client", NewAddress(bare)))

ClientOf(h) == PointerIn(memory, handle[h], "Client")

\* A frame of this size is built in TxQueue, or received in RxQueue.
Buffers(h) ==
    \E queue \in {"TxQueue", "RxQueue"}, chunks \in 1..MaxChunks :
        Use(h, BufferSetMemorySize(memory, PointerIn(memory, ClientOf(h), queue), chunks))

\* rmqsPublisherDestroy, rmqsConsumerDestroy
ClientObjectDestroy(h) ==
    handle[h] # Null /\ Dispose(h, FreeMemory(ClientDestroy(memory, ClientOf(h)), handle[h]))

-----------------------------------------------------------------------------
(* rmqsMessage.c.                                                          *)

\* The data of a message is copied, or stays with the application.
MessageCreate(CopyData) ==
    LET copied == IF CopyData THEN <<"Data">> ELSE << >>
    IN  Make("message", AllocateEach(AllocateMemory(memory, Block(1, [Data |-> Null], copied)),
                                     NewAddress(memory), copied))

MessageDestroy ==
    /\ handle["message"] # Null
    /\ Dispose("message", FreeWith(memory, handle["message"],
                                   memory.block[handle["message"]].value))

\* Some of the numbers up to n, in order.
Some(n) == {s \in SeqOf(1..n, n) : \A i, j \in DOMAIN s : i < j => s[i] < s[j]}

\* A batch is an array of messages, some with data of their own.
BatchCreate(copied) ==
    Make("batch", AllocateEach(AllocateMemory(memory, Block(1, [k \in 1..2 |-> Null], copied)),
                               NewAddress(memory), copied))

BatchDestroy ==
    /\ handle["batch"] # Null
    /\ Dispose("batch", FreeWith(memory, handle["batch"], memory.block[handle["batch"]].value))

-----------------------------------------------------------------------------
(* Metadata.                                                               *)

NoMetadata == [BrokerMetadataList |-> Null, StreamMetadataList |-> Null]

MetadataCreate == Make("metadata", AllocateMemory(memory, Block(1, NoMetadata, 0)))

\* rmqsMetadata with an answer that lists brokers or none, and so many streams, of
\* which some have replicas.  The metadata is cleared first, so that it must hold
\* nothing yet.
Metadata(brokers, streams, replicated) ==
    LET a == handle["metadata"]
        withBrokers == IF brokers THEN AllocateInto(memory, a, "BrokerMetadataList", Plain)
                       ELSE memory
        withStreams == AllocateInto(withBrokers, a, "StreamMetadataList",
                                    Block(1, [k \in 1..streams |-> Null], 0))
    IN  /\ a # Null /\ memory.block[a].pointer = NoMetadata
        /\ Use("metadata", IF streams = 0 THEN withBrokers
                           ELSE AllocateEach(withStreams, NewAddress(withBrokers), replicated))

StreamsFreed(m, a) ==
    LET streams == PointerIn(m, a, "StreamMetadataList")
    IN  IF streams = Null THEN m
        ELSE FreeWith(m, streams, [k \in DOMAIN m.block[streams].pointer |-> k])

MetadataDestroy ==
    LET a == handle["metadata"]
        unlisted == FreeIfAny(memory, PointerIn(memory, a, "BrokerMetadataList"))
    IN  a # Null /\ Dispose("metadata", FreeMemory(StreamsFreed(unlisted, a), a))

-----------------------------------------------------------------------------
Objects ==
    \/ \E h \in PublisherOrConsumer :
         ClientObjectCreate(h) \/ (handle[h] # Null /\ Buffers(h)) \/ ClientObjectDestroy(h)
    \/ (\E CopyData \in BOOLEAN : MessageCreate(CopyData)) \/ MessageDestroy
    \/ (\E copied \in Some(2) : BatchCreate(copied)) \/ BatchDestroy
    \/ MetadataCreate \/ MetadataDestroy
    \/ \E brokers \in BOOLEAN, streams \in 0..MaxListed : \E replicated \in Some(streams) :
         Metadata(brokers, streams, replicated)

\* A configuration is destroyed after the publishers and consumers that use it; that it
\* is made and edited only while there are no other objects either is a bound.
Next ==
    \/ Objects
    \/ Open = {} /\ ConfigurationNext /\ UNCHANGED handle

LibrarySpec == LibraryInit /\ [][Next]_vars
-----------------------------------------------------------------------------
\* The memory in use is that of the blocks, and they are those that the configuration
\* and the objects of the application lead to: nothing is lost while they are made,
\* used, edited or given up, and after all are destroyed rmqsGetUsedMemory returns 0,
\* which the test rawClientTest.c asserts of one way through the library.
NothingLost ==
    /\ Accounted(memory)
    /\ Live(memory) =
         Reachable(memory, ({ClientConfiguration} \cup {handle[h] : h \in Handles}) \ {Null})
=============================================================================
