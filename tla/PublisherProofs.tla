-------------------------- MODULE PublisherProofs --------------------------
(***************************************************************************)
(* The two threads of Publisher never read from the connection at the same *)
(* time, although nothing but the flags of rmqsThread.c keeps them apart;  *)
(* the callback gets the results of the broker as they were decided; and a *)
(* query of the sequence returns what was stored of the messages published *)
(* before it.  For any number of messages, in batches and frames of any    *)
(* length, and for an array of any size.                                   *)
(***************************************************************************)
EXTENDS Publisher, SequenceProofs, TLAPS

ThreadType ==
    thread \in [exists : BOOLEAN, ThreadHandle : BOOLEAN, TerminateRequest : BOOLEAN,
                Terminated : BOOLEAN]

\* While the routine runs the flags say so: Terminated is its last step, and
\* rmqsThreadStop sets it only after it has seen it.
FlagsTell ==
    routine # "none" => thread.exists /\ thread.ThreadHandle /\ ~thread.Terminated

\* A request waits only while the thread is taken for stopped.
RequestsApart == call # NoCall => ~Started

Apart == ThreadType /\ FlagsTell /\ RequestsApart

-----------------------------------------------------------------------------
\* Apart says more than OneReader.
LEMMA ApartIsOneReader == Apart => OneReader
BY DEF Apart, FlagsTell, RequestsApart, OneReader, Started, Stopped

LEMMA InitApart == Init => Apart
BY DEF Init, ConnectionInit, ThreadInit, NoThread, Flags, Apart, ThreadType, FlagsTell,
       RequestsApart

\* A step that leaves the thread alone, and does not start a request while the thread
\* is taken for running, keeps Apart.
LEMMA ThreadUnchanged ==
    ASSUME Apart, UNCHANGED <<thread, routine>>,
           call' # NoCall => call' = call \/ ~Started
    PROVE  Apart'
BY DEF Apart, ThreadType, FlagsTell, RequestsApart, Started, Stopped

\* The calls of rmqsThread.c by the application, while no request waits.
LEMMA PollThreadApart ==
    ASSUME Apart, PollThread
    PROVE  Apart'
<1>1. call = NoCall /\ call' = NoCall
  BY DEF PollThread, connection
<1>2. RequestsApart'
  BY <1>1 DEF RequestsApart
<1>3. CASE ThreadCreate
  BY <1>2, <1>3 DEF ThreadCreate, Flags, Apart, ThreadType, FlagsTell
<1>4. CASE ThreadStart
  BY <1>2, <1>4 DEF ThreadStart, Flags, Apart, ThreadType, FlagsTell
<1>5. CASE ThreadStop
  BY <1>2, <1>5 DEF ThreadStop, Apart, ThreadType, FlagsTell
<1>6. CASE ThreadStopReturns
  BY <1>2, <1>6 DEF ThreadStopReturns, Apart, ThreadType, FlagsTell
<1>7. CASE ThreadDestroy
  <2>1. routine = "none"
    BY <1>7 DEF ThreadDestroy, Apart, FlagsTell, Started, Stopped
  <2>2. QED
    BY <1>2, <1>7, <2>1 DEF ThreadDestroy, NoThread, Flags, Apart, ThreadType, FlagsTell
<1>8. QED
  BY <1>3, <1>4, <1>5, <1>6, <1>7 DEF PollThread

\* A poll thread that goes on leaves the flags; one that ends sets Terminated, while no
\* request waits.
LEMMA RoutineApart ==
    ASSUME Apart, Routine
    PROVE  Apart'
<1>1. call' = call
  BY DEF Routine, connection
<1>2. CASE PollReturns
  BY <1>1, <1>2 DEF PollReturns, Apart, ThreadType, FlagsTell, RequestsApart, Started, Stopped
<1>3. CASE RoutineTop
  BY <1>1, <1>3 DEF RoutineTop, Apart, ThreadType, FlagsTell, RequestsApart, Started, Stopped
<1>4. CASE RoutineEnds
  <2>1. call = NoCall
    BY <1>4 DEF RoutineEnds, Apart, FlagsTell, RequestsApart, Started, Stopped
  <2>2. QED
    BY <1>1, <1>4, <2>1 DEF RoutineEnds, Apart, ThreadType, FlagsTell, RequestsApart
<1>5. QED
  BY <1>2, <1>3, <1>4 DEF Routine

\* A frame that is dropped by the poll.
LEMMA PollDropsApart ==
    ASSUME Apart, PollDrops
    PROVE  Apart'
BY DEF PollDrops, Apart, ThreadType, FlagsTell, RequestsApart, Started, Stopped

\* One step for each action.
LEMMA NextApart ==
    ASSUME Apart, [Next]_vars
    PROVE  Apart'
<1>1. CASE PollThread
  BY <1>1, PollThreadApart
<1>2. CASE DeclarePublisher \/ DeletePublisher \/ QueryPublisherSequence
  <2>1. UNCHANGED <<thread, routine>> /\ ~Started
    BY <1>2 DEF DeclarePublisher, DeletePublisher, QueryPublisherSequence, PublisherRequest,
                client, threadVars
  <2>2. QED
    BY <2>1, ThreadUnchanged
<1>3. ASSUME NEW n \in BatchSize, Publish(n)
      PROVE  Apart'
  BY <1>3, ThreadUnchanged DEF Publish, threadVars
<1>4. CASE PublisherResponse \/ QueryResponse \/ RequestGiveUp \/ SkipFrame
  <2>1. UNCHANGED <<thread, routine>> /\ (call' = call \/ call' = NoCall)
    BY <1>4 DEF PublisherResponse, QueryResponse, RequestGiveUp, SkipFrame, Response, GiveUp,
                Skip, client, threadVars
  <2>2. QED
    BY <2>1, ThreadUnchanged
<1>5. CASE HandlePublishResult \/ PublishResult
  BY <1>5, ThreadUnchanged DEF HandlePublishResult, PublishResult, connection, threadVars
<1>6. CASE PollDrops
  BY <1>6, PollDropsApart
<1>7. CASE Routine
  BY <1>7, RoutineApart
<1>8. CASE BrokerAnswers
  BY <1>8, ThreadUnchanged
     DEF BrokerAnswers, BrokerDeclares, BrokerDeletes, BrokerAnswersQuery, BrokerStores,
         BrokerTakes, client, threadVars
<1>9. ASSUME NEW n \in 1..MaxMessages, BrokerReports(n)
      PROVE  Apart'
  BY <1>9, ThreadUnchanged DEF BrokerReports, client, threadVars
<1>10. CASE Heartbeat \/ (Lose /\ UNCHANGED <<client, broker>>)
  BY <1>10, ThreadUnchanged DEF Heartbeat, BrokerHeartbeat, Lose, client, threadVars
<1>11. CASE UNCHANGED vars
  BY <1>11, ThreadUnchanged DEF vars, connection, client, threadVars
<1>12. QED
  BY <1>1, <1>2, <1>3, <1>4, <1>5, <1>6, <1>7, <1>8, <1>9, <1>10, <1>11
     DEF Next, Application, Poll

-----------------------------------------------------------------------------
\* A request of the application never waits for its response while the poll thread is
\* inside rmqsPublisherPoll: rmqsThreadStop returns only when the routine has ended.
THEOREM OneReaderHolds == Spec => []OneReader
<1>1. Init => Apart
  BY InitApart
<1>2. Apart /\ [Next]_vars => Apart'
  BY NextApart
<1>3. Apart => OneReader
  BY ApartIsOneReader
<1>4. QED
  BY <1>1, <1>2, <1>3, PTL DEF Spec

(***************************************************************************)
(* Types.                                                                  *)
(***************************************************************************)

Requested == {"DeclarePublisher", "DeletePublisher", "QueryPublisherSequence"}

\* The frames on their way to the broker and to the client.
FromClient ==
    [key : Requested \cup {"Publish"}, corr : Nat, code : {"none"}, arg : Seq(1..MaxMessages)]

Refusals == {"OK", "StreamDoesNotExist", "PublisherDoesNotExist"}

Replies == [key : Requested, corr : Nat, code : Refusals, arg : Seq(0..MaxMessages)]

ResultFrames == [key : ResultKeys, corr : {0}, code : {"none"}, arg : Seq(Results) \ {<< >>}]

Heartbeats == [key : {"Heartbeat"}, corr : {0}, code : {"none"}, arg : {<< >>}]

FromBroker ==
    {m \in Replies : m.key = "QueryPublisherSequence" => Len(m.arg) = 1}
    \cup ResultFrames \cup Heartbeats

Channels ==
    /\ toBroker \in Seq(FromClient) /\ toClient \in Seq(FromBroker)
    /\ link \in {"up", "down"} /\ CorrelationId \in 0..MaxRequests
    /\ call # NoCall => call.key \in Requested /\ call.corr = CorrelationId /\ CorrelationId > 0

Numbers ==
    /\ published \in 0..MaxMessages /\ sent \in 0..published /\ asked \in 0..published
    /\ queried \in [Sequence : 0..MaxMessages, answered : BOOLEAN]

\* The frame being handled, its next record and the entries of the array in use.
Handler ==
    /\ handling = Idle
       \/ /\ handling \in [key : ResultKeys, records : Seq(Results), i : Nat,
                           PublishIdCount : 0..(ArraySize - 1)]
          /\ handling.i < Len(handling.records)
    /\ PublishResultArray \in [0..(ArraySize - 1) -> Results]
    /\ reported \in Seq(Told)

Store ==
    /\ declared \in BOOLEAN /\ stored \subseteq 1..published
    /\ \A j \in DOMAIN toBroker : \A k \in DOMAIN toBroker[j].arg : toBroker[j].arg[k] <= published
    /\ pending \in Seq(Told) /\ decided \in Seq(Told)

ThreadMoves == routine \in {"none", "top", "poll", "left"} /\ stopping \in BOOLEAN

Types == Channels /\ Numbers /\ Handler /\ Store /\ ThreadMoves

LEMMA ResultTypes ==
  /\ \A id \in 0..MaxMessages : Result(id, 0) \in Results
  /\ \A id \in 0..MaxMessages : Result(id, PublisherDoesNotExist) \in Results
BY DEF Result, Results

LEMMA InitTypes == Init => Types
<1> SUFFICES ASSUME Init PROVE Types
  OBVIOUS
<1> USE DEF Init, ConnectionInit
<1>1. MaxMessages \in Nat /\ ArraySize \in Nat \ {0} /\ MaxRequests \in Nat
  BY PublisherAssumption, RequestsAssumption
<1>2. Channels
  BY <1>1 DEF Channels
<1>3. Numbers
  BY <1>1 DEF Numbers, NotQueried
<1>4. Handler
  BY <1>1, ResultTypes DEF Handler
<1>5. Store
  <2>1. declared = FALSE /\ stored = {} /\ DOMAIN toBroker = {}
        /\ pending = << >> /\ decided = << >>
    OBVIOUS
  <2>2. << >> \in Seq(Told)
    OBVIOUS
  <2>3. QED
    BY <2>1, <2>2 DEF Store
<1>6. ThreadMoves
  BY DEF ThreadMoves, ThreadInit
<1>7. QED
  BY <1>2, <1>3, <1>4, <1>5, <1>6 DEF Types

\* What a request function sends.
LEMMA RequestTypes ==
  ASSUME Channels, NEW key \in Requested, PublisherRequest(key, << >>)
  PROVE  /\ Channels' /\ toClient' = toClient /\ link' = link
         /\ toBroker' = toBroker
            \/ toBroker' = Append(toBroker, Message(key, CorrelationId + 1, "none", << >>))
         /\ call = NoCall /\ call' # NoCall /\ call'.key = key
<1> USE DEF PublisherRequest, Request
<1>1. Message(key, CorrelationId + 1, "none", << >>) \in FromClient
  <2>1. << >> \in Seq(1..MaxMessages) /\ CorrelationId + 1 \in Nat
    BY RequestsAssumption DEF Channels
  <2>2. QED
    BY <2>1 DEF Message, FromClient
<1>2. toBroker' = toBroker
      \/ toBroker' = Append(toBroker, Message(key, CorrelationId + 1, "none", << >>))
  BY <1>1 DEF Sent, Channels
<1>3. toBroker' \in Seq(FromClient)
  <2>1. toBroker \in Seq(FromClient)
    BY DEF Channels
  <2>2. Append(toBroker, Message(key, CorrelationId + 1, "none", << >>)) \in Seq(FromClient)
    BY <1>1, <2>1
  <2>3. QED
    BY <1>2, <2>1, <2>2
<1>4. call' = [key |-> key, corr |-> CorrelationId + 1, arg |-> << >>]
  OBVIOUS
<1>5. call' # NoCall
  <2>1. key # "none"
    BY DEF Requested
  <2>2. QED
    BY <1>4, <2>1 DEF NoCall
<1>6. CorrelationId' \in 0..MaxRequests /\ CorrelationId' > 0 /\ CorrelationId' = CorrelationId + 1
  BY RequestsAssumption DEF Channels
<1>7. Channels'
  BY <1>3, <1>4, <1>5, <1>6 DEF Channels
<1>8. QED
  BY <1>2, <1>4, <1>5, <1>7

\* The thread that reads takes the first frame.
LEMMA TakeTypes ==
  ASSUME Channels, Arrived, Take, UNCHANGED <<toBroker, link, CorrelationId>>,
         call' = call \/ call' = NoCall
  PROVE  Channels' /\ Head(toClient) \in FromBroker
BY DEF Channels, Arrived, Take

\* The broker takes the first frame and sends at most one.
LEMMA BrokerTypes ==
  ASSUME Channels, toBroker # << >>, BrokerTakes,
         toClient' = toClient \/ \E m \in FromBroker : BrokerSends(<<m>>)
  PROVE  Channels' /\ Head(toBroker) \in FromClient
<1>1. toBroker' \in Seq(FromClient) /\ Head(toBroker) \in FromClient
  BY DEF Channels, BrokerTakes
<1>2. toClient' \in Seq(FromBroker)
  <2>1. toClient \in Seq(FromBroker)
    BY DEF Channels
  <2>2. ASSUME NEW m \in FromBroker PROVE toClient \o <<m>> \in Seq(FromBroker)
    BY <2>1
  <2>3. QED
    BY <2>1, <2>2 DEF BrokerSends
<1>3. QED
  BY <1>1, <1>2 DEF Channels, BrokerTakes

LEMMA ReplyTypes ==
  ASSUME NEW m \in FromClient, m.key \in Requested, NEW code \in Refusals,
         NEW arg \in Seq(0..MaxMessages),
         m.key = "QueryPublisherSequence" => Len(arg) = 1
  PROVE  Reply(m, code, arg) \in FromBroker
BY DEF Reply, Message, FromClient, FromBroker, Replies

\* The ids on their way are published ones, whatever frame leaves or joins them.
LEMMA IdsStay ==
  ASSUME Types, published' >= published, published' \in Nat, UNCHANGED <<stored>>,
         \/ toBroker' = toBroker \/ toBroker' = << >>
         \/ toBroker # << >> /\ toBroker' = Tail(toBroker)
         \/ \E m : /\ m.arg \in Seq(Nat) /\ \A k \in DOMAIN m.arg : m.arg[k] <= published'
                   /\ toBroker' = Append(toBroker, m)
  PROVE  /\ stored' \subseteq 1..published'
         /\ \A j \in DOMAIN toBroker' : \A k \in DOMAIN toBroker'[j].arg :
              toBroker'[j].arg[k] <= published'
<1>1. /\ toBroker \in Seq(FromClient) /\ published \in Nat /\ stored \subseteq 1..published
      /\ \A j \in DOMAIN toBroker : \A k \in DOMAIN toBroker[j].arg :
           toBroker[j].arg[k] <= published
  BY PublisherAssumption DEF Types, Channels, Numbers, Store
<1>2. ASSUME NEW j \in DOMAIN toBroker, NEW k \in DOMAIN toBroker[j].arg
      PROVE  toBroker[j].arg[k] <= published'
  <2>1. toBroker[j] \in FromClient
    BY <1>1
  <2>2. PICK a \in Seq(1..MaxMessages) : a = toBroker[j].arg
    BY <2>1 DEF FromClient
  <2> a[k] \in 1..MaxMessages
    BY <2>2, ElementOf
  <2>3. toBroker[j].arg[k] <= published
    BY <1>1
  <2>4. QED
    BY <1>1, <2>2, <2>3, PublisherAssumption
<1>3. CASE toBroker' = toBroker \/ toBroker' = << >>
  BY <1>1, <1>2, <1>3
<1>4. CASE toBroker # << >> /\ toBroker' = Tail(toBroker)
  BY <1>1, <1>2, <1>4, TailFacts
<1>5. ASSUME NEW m, m.arg \in Seq(Nat), \A k \in DOMAIN m.arg : m.arg[k] <= published',
             toBroker' = Append(toBroker, m)
      PROVE  \A j \in DOMAIN toBroker' : \A k \in DOMAIN toBroker'[j].arg :
               toBroker'[j].arg[k] <= published'
  <2>1. PICK n \in Nat : n = Len(toBroker)
    BY <1>1
  <2>2. /\ DOMAIN toBroker' = 1..(n + 1) /\ DOMAIN toBroker = 1..n /\ toBroker'[n + 1] = m
        /\ \A j \in 1..n : toBroker'[j] = toBroker[j]
    BY <1>1, <1>5, <2>1
  <2>3. \A j \in 1..(n + 1) : j \in 1..n \/ j = n + 1
    BY <2>1
  <2>4. QED
    BY <1>2, <1>5, <2>2, <2>3
<1>6. stored' \subseteq 1..published'
  BY <1>1
<1>7. QED
  BY <1>3, <1>4, <1>5, <1>6

LEMMA RequestStep ==
  ASSUME Types, DeclarePublisher \/ DeletePublisher \/ QueryPublisherSequence
  PROVE  Types'
<1>1. PICK key \in Requested : PublisherRequest(key, << >>)
  BY DEF DeclarePublisher, DeletePublisher, QueryPublisherSequence, Requested
<1>2. UNCHANGED <<thread, routine, stopping, handler, published, sent, broker>>
  BY DEF DeclarePublisher, DeletePublisher, QueryPublisherSequence, client, threadVars
<1>3. /\ Channels'
      /\ toBroker' = toBroker
            \/ toBroker' = Append(toBroker, Message(key, CorrelationId + 1, "none", << >>))
  BY <1>1, RequestTypes DEF Types
<1>4. Numbers'
  <2>1. CASE DeclarePublisher \/ DeletePublisher
    BY <2>1 DEF Types, Numbers, DeclarePublisher, DeletePublisher, client
  <2>2. CASE QueryPublisherSequence
    <3>1. /\ UNCHANGED <<published, sent>> /\ asked' = published
          /\ queried' = [Sequence |-> 0, answered |-> FALSE]
      BY <2>2 DEF QueryPublisherSequence, NotQueried
    <3>2. published \in 0..MaxMessages /\ MaxMessages \in Nat
      BY PublisherAssumption DEF Types, Numbers
    <3>3. asked' \in 0..published' /\ queried' \in [Sequence : 0..MaxMessages, answered : BOOLEAN]
      BY <3>1, <3>2
    <3>4. QED
      BY <3>1, <3>2, <3>3 DEF Types, Numbers
  <2>3. QED
    BY <2>1, <2>2
<1>5. Store'
  <2>1. published' \in Nat /\ published' >= published
    BY <1>2 DEF Types, Numbers
  <2>2. \/ toBroker' = toBroker
        \/ \E m : /\ m.arg \in Seq(Nat) /\ \A k \in DOMAIN m.arg : m.arg[k] <= published'
                  /\ toBroker' = Append(toBroker, m)
    <3> DEFINE m == Message(key, CorrelationId + 1, "none", << >>)
    <3>1. m.arg = << >> /\ m.arg \in Seq(Nat) /\ DOMAIN m.arg = {}
      BY DEF Message
    <3> HIDE DEF m
    <3>2. QED
      BY <1>3, <3>1 DEF m
  <2>3. UNCHANGED stored
    BY <1>2 DEF broker
  <2>4. QED
    BY <1>2, <2>1, <2>2, <2>3, IdsStay DEF Types, Store, broker
<1>6. Handler' /\ ThreadMoves'
  BY <1>2 DEF Types, Handler, ThreadMoves, handler
<1>7. QED
  BY <1>3, <1>4, <1>5, <1>6 DEF Types

LEMMA PublishStep ==
  ASSUME Types, NEW n \in BatchSize, Publish(n)
  PROVE  Types'
<1> DEFINE ids == [k \in 1..n |-> published + k]
           m == Push("Publish", ids)
<1>1. n \in Nat /\ n > 0 /\ published \in Nat /\ published' = published + n
      /\ published' \in 0..MaxMessages /\ MaxMessages \in Nat
  BY PublisherAssumption DEF Publish, Types, Numbers
<1>2. /\ ids \in Seq(1..MaxMessages) /\ ids \in Seq(Nat) /\ DOMAIN ids = 1..n
      /\ \A k \in DOMAIN ids : ids[k] <= published'
  <2>1. \A k \in 1..n : published + k \in 1..MaxMessages /\ published + k <= published'
    BY <1>1
  <2>2. QED
    BY <1>1, <2>1
<1> HIDE DEF ids
<1>3. m \in FromClient /\ m.arg = ids
  BY <1>2 DEF Push, Message, FromClient
<1>4. toBroker' = toBroker \/ toBroker' = Append(toBroker, m)
  BY <1>3 DEF Publish, Sent, Types, Channels, ids
<1> HIDE DEF m
<1>5. toBroker' \in Seq(FromClient)
  BY <1>3, <1>4 DEF Types, Channels
<1>6. Channels' /\ Handler' /\ ThreadMoves'
  BY <1>5 DEF Publish, Types, Channels, Handler, ThreadMoves, handler, threadVars
<1>7. Numbers'
  BY <1>1 DEF Publish, Types, Numbers
<1>8. Store'
  <2>1. /\ published' \in Nat /\ published' >= published
        /\ UNCHANGED <<declared, stored, pending, decided>>
    BY <1>1 DEF Publish, broker
  <2>2. QED
    BY <1>2, <1>3, <1>4, <2>1, IdsStay DEF Types, Store
<1>9. QED
  BY <1>6, <1>7, <1>8 DEF Types

\* The client takes a frame, gives up or waits on; nothing is published or decided.
LEMMA ClientStep ==
  ASSUME Types, Channels', Numbers', Handler', ThreadMoves',
         UNCHANGED <<toBroker, published, broker>>
  PROVE  Types'
BY DEF Types, Store, broker

LEMMA ResponseStep ==
  ASSUME Types, PublisherResponse \/ QueryResponse
  PROVE  Types'
<1>1. Response /\ UNCHANGED <<toBroker, link, CorrelationId, published, sent, asked, broker,
                              routine, stopping, handler>>
  BY DEF PublisherResponse, QueryResponse, client, threadVars
<1>2. Channels' /\ Head(toClient) \in FromBroker
  BY <1>1, TakeTypes DEF Response, Types
<1>3. Numbers'
  <2>1. CASE PublisherResponse
    BY <2>1 DEF PublisherResponse, Types, Numbers, client
  <2>2. CASE QueryResponse /\ Good(Head(toClient))
    <3>1. Head(toClient).key = "QueryPublisherSequence"
      BY <2>2 DEF QueryResponse, Good
    <3>2. Head(toClient) \in Replies /\ Len(Head(toClient).arg) = 1
      BY <1>2, <3>1 DEF FromBroker, Heartbeats, ResultFrames, ResultKeys
    <3>3. Head(toClient).arg[1] \in 0..MaxMessages
      <4>1. PICK a \in Seq(0..MaxMessages) : a = Head(toClient).arg
        BY <3>2 DEF Replies
      <4>2. 1 \in DOMAIN a
        BY <3>2, <4>1
      <4>3. QED
        BY <4>1, <4>2, ElementOf
    <3>4. QED
      BY <2>2, <3>3 DEF QueryResponse, Types, Numbers
  <2>3. CASE QueryResponse /\ ~Good(Head(toClient))
    BY <2>3 DEF QueryResponse, Types, Numbers
  <2>4. QED
    BY <2>1, <2>2, <2>3
<1>4. Handler' /\ ThreadMoves'
  BY <1>1 DEF Types, Handler, ThreadMoves, handler
<1>5. QED
  BY <1>1, <1>2, <1>3, <1>4, ClientStep

LEMMA DropStep ==
  ASSUME Types, RequestGiveUp \/ SkipFrame \/ PollDrops
  PROVE  Types'
<1>1. /\ UNCHANGED <<toBroker, link, CorrelationId, handler, published, sent, asked, queried,
                     broker, stopping>>
      /\ routine' \in {routine, "poll", "top"} /\ (call' = call \/ call' = NoCall)
      /\ toClient' = toClient \/ (Arrived /\ Take)
  BY DEF RequestGiveUp, GiveUp, SkipFrame, Skip, PollDrops, client, threadVars
<1>2. Channels'
  BY <1>1, TakeTypes DEF Types, Channels
<1>3. Numbers' /\ Handler' /\ ThreadMoves'
  BY <1>1 DEF Types, Numbers, Handler, ThreadMoves, handler
<1>4. QED
  BY <1>1, <1>2, <1>3, ClientStep

LEMMA HandleStep ==
  ASSUME Types, HandlePublishResult
  PROVE  Types'
<1>1. /\ Arrived /\ Take /\ Head(toClient).key \in ResultKeys
      /\ UNCHANGED <<toBroker, link, CorrelationId, call, thread, routine, stopping,
                     PublishResultArray, published, sent, reported, asked, queried, broker>>
      /\ handling' = [key |-> Head(toClient).key, records |-> Head(toClient).arg,
                      i |-> 0, PublishIdCount |-> 0]
  BY DEF HandlePublishResult, Reads, threadVars
<1>2. Channels' /\ Head(toClient) \in FromBroker
  BY <1>1, TakeTypes DEF Types
<1>3. Head(toClient) \in ResultFrames
  BY <1>1, <1>2 DEF FromBroker, Heartbeats, Replies, ResultKeys, Requested
<1>4. Handler'
  <2>1. /\ Head(toClient).arg \in Seq(Results) /\ Len(Head(toClient).arg) > 0
        /\ ArraySize \in Nat \ {0}
    BY <1>3, PublisherAssumption DEF ResultFrames
  <2>2. QED
    BY <1>1, <2>1 DEF Types, Handler
<1>5. Numbers' /\ ThreadMoves'
  BY <1>1 DEF Types, Numbers, ThreadMoves
<1>6. QED
  BY <1>1, <1>2, <1>4, <1>5, ClientStep

\* One record of a frame, in terms of the record, the number of entries in use and
\* the entries that are handed over.
Passed(count) ==
    [k \in 1..count |-> [result |-> PublishResultArray'[k - 1],
                         Confirmed |-> handling.key = "PublishConfirm"]]

LEMMA PublishResultFacts ==
  ASSUME Types, PublishResult
  PROVE  \E count \in 1..ArraySize, i \in Nat :
         /\ handling # Idle
         /\ handling \in [key : ResultKeys, records : Seq(Results), i : Nat,
                          PublishIdCount : 0..(ArraySize - 1)]
         /\ count = handling.PublishIdCount + 1 /\ i = handling.i /\ i < Len(handling.records)
         /\ handling.records[i + 1] \in Results
         /\ PublishResultArray' \in [0..(ArraySize - 1) -> Results]
         /\ \A k \in 1..(count - 1) : PublishResultArray'[k - 1] = PublishResultArray[k - 1]
         /\ PublishResultArray'[count - 1] =
              Entry(PublishResultArray[count - 1], handling.records[i + 1])
         /\ Passed(count) \in Seq(Told) /\ Len(Passed(count)) = count
         /\ \A k \in 1..count : Passed(count)[k] =
              [result |-> PublishResultArray'[k - 1], Confirmed |-> handling.key = "PublishConfirm"]
         /\ reported' = IF Flush(count, i) THEN reported \o Passed(count) ELSE reported
         /\ handling' = IF i = Len(handling.records) - 1 THEN Idle
                        ELSE [key |-> handling.key, records |-> handling.records, i |-> i + 1,
                              PublishIdCount |-> IF Flush(count, i) THEN 0 ELSE count]
<1>1. /\ handling # Idle
      /\ handling \in [key : ResultKeys, records : Seq(Results), i : Nat,
                       PublishIdCount : 0..(ArraySize - 1)]
      /\ handling.i < Len(handling.records)
      /\ PublishResultArray \in [0..(ArraySize - 1) -> Results]
      /\ ArraySize \in Nat \ {0}
  BY PublisherAssumption DEF Types, Handler, PublishResult
<1>2. PICK c \in 0..(ArraySize - 1), i \in Nat : c = handling.PublishIdCount /\ i = handling.i
  BY <1>1
<1>3. c + 1 \in 1..ArraySize /\ (c + 1) - 1 = c
  BY <1>1, <1>2
<1>4. handling.records[i + 1] \in Results
  <2>1. PICK r \in Seq(Results) : r = handling.records
    BY <1>1
  <2>2. i + 1 \in DOMAIN r
    BY <1>1, <1>2, <2>1
  <2>3. QED
    BY <2>1, <2>2, ElementOf
<1> DEFINE e == Entry(PublishResultArray[c], handling.records[i + 1])
<1>5. e \in Results
  BY <1>4 DEF Entry, Result, Results
<1>6. PublishResultArray' = [PublishResultArray EXCEPT ![c] = e]
  BY <1>2 DEF PublishResult
<1> HIDE DEF e
<1>7. /\ PublishResultArray' \in [0..(ArraySize - 1) -> Results]
      /\ PublishResultArray'[c] = e
      /\ \A k \in 1..((c + 1) - 1) : PublishResultArray'[k - 1] = PublishResultArray[k - 1]
  BY <1>1, <1>5, <1>6
<1>8. /\ Passed(c + 1) \in Seq(Told) /\ Len(Passed(c + 1)) = c + 1
      /\ \A k \in 1..(c + 1) : Passed(c + 1)[k] =
           [result |-> PublishResultArray'[k - 1], Confirmed |-> handling.key = "PublishConfirm"]
  <2>1. ASSUME NEW k \in 1..(c + 1)
        PROVE  [result |-> PublishResultArray'[k - 1],
                Confirmed |-> handling.key = "PublishConfirm"] \in Told
    <3>1. k - 1 \in 0..(ArraySize - 1)
      BY <1>1, <1>3
    <3>2. PublishResultArray'[k - 1] \in Results
      BY <1>7, <3>1
    <3>3. QED
      BY <3>2, Zenon DEF Told
  <2>2. c + 1 \in Nat
    OBVIOUS
  <2>3. PICK n \in Nat : n = c + 1
    BY <2>2
  <2>4. PICK p : p = Passed(n)
    OBVIOUS
  <2>5. p \in [1..n -> Told]
    BY <2>1, <2>3, <2>4, Zenon DEF Passed
  <2>6. p \in Seq(Told) /\ Len(p) = n
    BY <2>3, <2>5
  <2>7. \A k \in 1..n : p[k] =
          [result |-> PublishResultArray'[k - 1], Confirmed |-> handling.key = "PublishConfirm"]
    BY <2>4, Zenon DEF Passed
  <2>8. QED
    BY <2>3, <2>4, <2>6, <2>7, Zenon
<1>9. reported' = IF Flush(c + 1, i) THEN reported \o Passed(c + 1) ELSE reported
  BY <1>2, Zenon DEF PublishResult, Passed
<1>10. handling' = IF i = Len(handling.records) - 1 THEN Idle
                   ELSE [key |-> handling.key, records |-> handling.records, i |-> i + 1,
                         PublishIdCount |-> IF Flush(c + 1, i) THEN 0 ELSE c + 1]
  BY <1>2, Zenon DEF PublishResult
<1> USE <1>3
<1>11. WITNESS c + 1 \in 1..ArraySize, i \in Nat
<1>12. QED
  BY <1>1, <1>2, <1>3, <1>4, <1>7, <1>8, <1>9, <1>10 DEF e

LEMMA PublishResultStep ==
  ASSUME Types, PublishResult
  PROVE  Types'
<1>1. PICK count \in 1..ArraySize, i \in Nat :
         /\ handling \in [key : ResultKeys, records : Seq(Results), i : Nat,
                          PublishIdCount : 0..(ArraySize - 1)]
         /\ i < Len(handling.records)
         /\ PublishResultArray' \in [0..(ArraySize - 1) -> Results]
         /\ Passed(count) \in Seq(Told)
         /\ reported' = IF Flush(count, i) THEN reported \o Passed(count) ELSE reported
         /\ handling' = IF i = Len(handling.records) - 1 THEN Idle
                        ELSE [key |-> handling.key, records |-> handling.records, i |-> i + 1,
                              PublishIdCount |-> IF Flush(count, i) THEN 0 ELSE count]
  BY PublishResultFacts
<1>2. reported' \in Seq(Told)
  BY <1>1 DEF Types, Handler
<1>3. ArraySize \in Nat \ {0} /\ (~Flush(count, i) => count # ArraySize)
  BY PublisherAssumption DEF Flush
<1>4. PICK rest \in 0..(ArraySize - 1) : rest = IF Flush(count, i) THEN 0 ELSE count
  BY <1>3
<1>5. Handler'
  <2>1. CASE i = Len(handling.records) - 1
    BY <1>1, <1>2, <2>1 DEF Handler
  <2>2. CASE i # Len(handling.records) - 1
    <3> DEFINE h == [key |-> handling.key, records |-> handling.records, i |-> i + 1,
                     PublishIdCount |-> rest]
    <3>1. /\ h \in [key : ResultKeys, records : Seq(Results), i : Nat,
                    PublishIdCount : 0..(ArraySize - 1)]
          /\ h.i = i + 1 /\ h.records = handling.records
      BY <1>1, <1>4
    <3>2. handling' = h
      BY <1>1, <1>4, <2>2
    <3> HIDE DEF h
    <3>3. h.i < Len(h.records)
      BY <1>1, <2>2, <3>1
    <3>4. QED
      BY <1>1, <1>2, <3>1, <3>2, <3>3 DEF Handler
  <2>3. QED
    BY <2>1, <2>2
<1>6. Channels' /\ Numbers' /\ ThreadMoves'
  BY DEF PublishResult, Types, Channels, Numbers, ThreadMoves, connection, threadVars
<1>7. QED
  BY <1>5, <1>6, ClientStep DEF PublishResult, connection

\* A step of the broker that takes a request and answers it.
LEMMA BrokerReplies ==
  ASSUME Types, NEW key \in Requested, BrokerSees(key), BrokerTakes,
         NEW code \in Refusals, NEW arg \in Seq(0..MaxMessages),
         key = "QueryPublisherSequence" => Len(arg) = 1,
         BrokerSends(<<Reply(Head(toBroker), code, arg)>>),
         declared' \in BOOLEAN, UNCHANGED <<client, stored, pending, decided>>
  PROVE  Types'
<1>1. Head(toBroker) \in FromClient /\ Head(toBroker).key = key /\ toBroker # << >>
  BY DEF BrokerSees, Types, Channels
<1>2. Reply(Head(toBroker), code, arg) \in FromBroker
  BY <1>1, ReplyTypes
<1>3. Channels' /\ toBroker' = Tail(toBroker)
  BY <1>1, <1>2, BrokerTypes DEF Types, BrokerTakes
<1>4. Numbers' /\ Handler' /\ ThreadMoves'
  BY DEF Types, Numbers, Handler, ThreadMoves, client, handler, threadVars
<1>5. Store'
  BY <1>1, <1>3, IdsStay DEF Types, Numbers, Store, client
<1>6. QED
  BY <1>3, <1>4, <1>5 DEF Types

\* What QueryPublisherSequence is answered with.
LEMMA LastStored ==
  ASSUME Types
  PROVE  /\ Max(stored \cup {0}) \in stored \cup {0}
         /\ Max(stored \cup {0}) \in 0..MaxMessages
         /\ \A id \in stored : id <= Max(stored \cup {0})
<1>1. stored \cup {0} \in SUBSET (0..MaxMessages) /\ MaxMessages \in Nat
  BY PublisherAssumption DEF Types, Store, Numbers
<1>2. QED
  BY <1>1, MaxLemma

\* What the broker decides of the messages of a frame.
ResultsOf(ids) ==
    [k \in DOMAIN ids |->
        [result |-> Result(ids[k], IF declared THEN 0 ELSE PublisherDoesNotExist),
         Confirmed |-> declared]]

LEMMA StoreFacts ==
  ASSUME Types, BrokerStores
  PROVE  LET ids == Head(toBroker).arg IN
         /\ toBroker # << >> /\ link = "up" /\ Head(toBroker).key = "Publish"
         /\ Head(toBroker) \in FromClient
         /\ ids \in Seq(1..MaxMessages) /\ \A k \in DOMAIN ids : ids[k] \in 1..published
         /\ ResultsOf(ids) \in Seq(Told) /\ Len(ResultsOf(ids)) = Len(ids)
         /\ pending' = pending \o ResultsOf(ids) /\ decided' = decided \o ResultsOf(ids)
         /\ stored' = IF declared THEN stored \cup ToSet(ids) ELSE stored
         /\ BrokerTakes /\ UNCHANGED <<toClient, client, declared>>
<1> DEFINE ids == Head(toBroker).arg
<1>1. /\ toBroker # << >> /\ link = "up" /\ Head(toBroker).key = "Publish"
      /\ Head(toBroker) \in FromClient /\ Head(toBroker) = toBroker[1] /\ 1 \in DOMAIN toBroker
  BY TailFacts DEF BrokerStores, BrokerSees, Types, Channels
<1>2. ids \in Seq(1..MaxMessages)
  BY <1>1 DEF FromClient
<1>3. ASSUME NEW k \in DOMAIN ids PROVE ids[k] \in 1..published /\ ids[k] \in 0..MaxMessages
  <2>1. ids[k] \in 1..MaxMessages
    BY <1>2, ElementOf
  <2>2. ids[k] <= published
    BY <1>1 DEF Types, Store
  <2>3. QED
    BY <2>1, <2>2, PublisherAssumption DEF Types, Numbers
<1>4. ResultsOf(ids) \in Seq(Told) /\ Len(ResultsOf(ids)) = Len(ids)
  <2>1. ASSUME NEW k \in DOMAIN ids
        PROVE  [result |-> Result(ids[k], IF declared THEN 0 ELSE PublisherDoesNotExist),
                Confirmed |-> declared] \in Told
    <3>1. Result(ids[k], IF declared THEN 0 ELSE PublisherDoesNotExist) \in Results
      BY <1>3, ResultTypes
    <3>2. QED
      BY <3>1, Zenon DEF Told, Types, Store
  <2>2. ResultsOf(ids) \in [DOMAIN ids -> Told]
    BY <2>1, Zenon DEF ResultsOf
  <2>3. DOMAIN ids = 1..Len(ids) /\ Len(ids) \in Nat
    BY <1>2
  <2> HIDE DEF ids
  <2>4. QED
    BY <2>2, <2>3
<1>5. /\ pending' = pending \o ResultsOf(ids) /\ decided' = decided \o ResultsOf(ids)
      /\ stored' = IF declared THEN stored \cup ToSet(ids) ELSE stored
      /\ BrokerTakes /\ UNCHANGED <<toClient, client, declared>>
  BY Zenon DEF BrokerStores, ResultsOf
<1>6. QED
  BY <1>1, <1>2, <1>3, <1>4, <1>5

LEMMA BrokerStoresStep ==
  ASSUME Types, BrokerStores
  PROVE  Types'
<1> DEFINE ids == Head(toBroker).arg
<1>1. /\ toBroker # << >>
      /\ ids \in Seq(1..MaxMessages) /\ \A k \in DOMAIN ids : ids[k] \in 1..published
      /\ ResultsOf(ids) \in Seq(Told)
      /\ pending' = pending \o ResultsOf(ids) /\ decided' = decided \o ResultsOf(ids)
      /\ stored' = IF declared THEN stored \cup ToSet(ids) ELSE stored
      /\ BrokerTakes /\ UNCHANGED <<toClient, client, declared>>
  BY StoreFacts
<1> HIDE DEF ids
<1>2. Channels' /\ toBroker' = Tail(toBroker)
  BY <1>1, BrokerTypes DEF Types, BrokerTakes
<1>3. Numbers' /\ Handler' /\ ThreadMoves'
  BY <1>1 DEF Types, Numbers, Handler, ThreadMoves, client, handler, threadVars
<1>4. published' = published /\ published \in Nat
  BY <1>1, PublisherAssumption DEF client, Types, Numbers
<1>5. \A j \in DOMAIN toBroker' : \A k \in DOMAIN toBroker'[j].arg :
        toBroker'[j].arg[k] <= published'
  BY <1>1, <1>2, <1>4, TailFacts DEF Types, Channels, Store
<1>6. stored' \subseteq 1..published'
  <2>1. ToSet(ids) \subseteq 1..published
    BY <1>1 DEF ToSet
  <2>2. QED
    BY <1>1, <1>4, <2>1 DEF Types, Store
<1>7. pending' \in Seq(Told) /\ decided' \in Seq(Told) /\ declared' \in BOOLEAN
  BY <1>1 DEF Types, Store
<1>8. Store'
  BY <1>5, <1>6, <1>7 DEF Store
<1>9. QED
  BY <1>2, <1>3, <1>8 DEF Types

\* The frame in which the broker tells of the next n results.
ReportOf(n) ==
    Push(IF pending[1].Confirmed THEN "PublishConfirm" ELSE "PublishError",
         [k \in 1..n |-> pending[k].result])

LEMMA ReportFacts ==
  ASSUME Types, NEW n, BrokerReports(n)
  PROVE  /\ n \in 1..Len(pending) /\ Len(pending) \in Nat /\ link = "up"
         /\ \A k \in 1..n : pending[k] \in Told /\ pending[k].Confirmed = pending[1].Confirmed
         /\ ReportOf(n) \in ResultFrames /\ Len(ReportOf(n).arg) = n
         /\ ReportOf(n).key = IF pending[1].Confirmed THEN "PublishConfirm" ELSE "PublishError"
         /\ DOMAIN ReportOf(n).arg = 1..n
         /\ \A k \in 1..n : ReportOf(n).arg[k] = pending[k].result
         /\ toClient' = Append(toClient, ReportOf(n))
         /\ pending' = SubSeq(pending, n + 1, Len(pending))
         /\ UNCHANGED <<toBroker, link, CorrelationId, call, client, declared, stored, decided>>
<1>1. PICK p \in Seq(Told) : p = pending
  BY DEF Types, Store
<1>2. n \in 1..Len(p) /\ Len(p) \in Nat /\ link = "up"
  BY <1>1 DEF BrokerReports
<1>3. \A k \in 1..n : p[k] \in Told /\ p[k].result \in Results /\ p[k].Confirmed = p[1].Confirmed
  <2>1. \A k \in 1..n : p[k] \in Told
    BY <1>2, ElementOf
  <2>2. \A k \in 1..n : p[k].result \in Results
    BY <2>1, Zenon DEF Told
  <2>3. QED
    BY <1>1, <2>1, <2>2 DEF BrokerReports
<1> DEFINE arg == [k \in 1..n |-> p[k].result]
<1>4. arg \in Seq(Results) /\ Len(arg) = n /\ DOMAIN arg = 1..n /\ \A k \in 1..n : arg[k] = p[k].result
  BY <1>2, <1>3
<1>5. arg # << >>
  BY <1>2, <1>4
<1>6. ReportOf(n) = [key |-> IF p[1].Confirmed THEN "PublishConfirm" ELSE "PublishError",
                     corr |-> 0, code |-> "none", arg |-> arg]
  BY <1>1 DEF ReportOf, Push, Message
<1> HIDE DEF arg
<1>7. ReportOf(n) \in ResultFrames /\ ReportOf(n).arg = arg
  BY <1>4, <1>5, <1>6 DEF ResultFrames, ResultKeys
<1>8. toClient' = Append(toClient, ReportOf(n))
  <2>1. toClient' = toClient \o <<ReportOf(n)>>
    BY Zenon DEF BrokerReports, BrokerSends, ReportOf
  <2>2. QED
    BY <1>7, <2>1 DEF Types, Channels, FromBroker
<1>9. /\ pending' = SubSeq(pending, n + 1, Len(pending))
      /\ UNCHANGED <<toBroker, link, CorrelationId, call, client, declared, stored, decided>>
  BY DEF BrokerReports
<1>10. QED
  BY <1>1, <1>2, <1>3, <1>4, <1>6, <1>7, <1>8, <1>9

LEMMA ReportStep ==
  ASSUME Types, NEW n, BrokerReports(n)
  PROVE  Types'
<1>1. /\ n \in 1..Len(pending) /\ ReportOf(n) \in FromBroker
      /\ toClient' = Append(toClient, ReportOf(n))
      /\ pending' = SubSeq(pending, n + 1, Len(pending))
      /\ UNCHANGED <<toBroker, link, CorrelationId, call, client, declared, stored, decided>>
  BY ReportFacts DEF FromBroker
<1>2. Channels'
  BY <1>1 DEF Types, Channels
<1>3. Numbers' /\ Handler' /\ ThreadMoves'
  BY <1>1 DEF Types, Numbers, Handler, ThreadMoves, client, handler, threadVars
<1>4. published' = published /\ pending' \in Seq(Told)
  BY <1>1 DEF client, Types, Store
<1>5. Store'
  BY <1>1, <1>4 DEF Types, Store
<1>6. QED
  BY <1>2, <1>3, <1>5 DEF Types

LEMMA LoseStep ==
  ASSUME Types, Lose, UNCHANGED <<client, broker>>
  PROVE  Types'
<1>1. PICK n \in 0..Len(toClient) : toClient' = SubSeq(toClient, 1, n)
  BY DEF Lose
<1>2. toBroker' = << >> /\ toBroker' \in Seq(FromClient) /\ DOMAIN toBroker' = {}
  BY DEF Lose
<1>3. toClient' \in Seq(FromBroker)
  BY <1>1 DEF Types, Channels
<1>4. Channels'
  BY <1>2, <1>3 DEF Lose, Types, Channels
<1>5. Numbers' /\ Handler' /\ ThreadMoves'
  BY DEF Types, Numbers, Handler, ThreadMoves, client, handler, threadVars
<1>6. UNCHANGED <<declared, stored, pending, decided, published>>
  BY DEF client, broker
<1>7. Store'
  BY <1>2, <1>6 DEF Types, Store
<1>8. QED
  BY <1>4, <1>5, <1>7 DEF Types

LEMMA ThreadStep ==
  ASSUME Types, PollThread \/ Routine \/ UNCHANGED vars
  PROVE  Types'
<1>1. UNCHANGED <<connection, handler, published, sent, asked, queried, broker>>
  BY DEF PollThread, Routine, vars, client
<1>2. Channels' /\ Numbers' /\ Handler' /\ Store'
  BY <1>1 DEF Types, Channels, Numbers, Handler, Store, connection, handler, broker
<1>3. ThreadMoves'
  BY DEF Types, ThreadMoves, PollThread, ThreadCreate, ThreadStart, ThreadStop,
         ThreadStopReturns, ThreadDestroy, Routine, PollReturns, RoutineTop, RoutineEnds, vars,
         client, threadVars
<1>4. QED
  BY <1>2, <1>3 DEF Types

LEMMA BrokerAnswersStep ==
  ASSUME Types, BrokerDeclares \/ BrokerDeletes \/ BrokerAnswersQuery
  PROVE  Types'
<1>1. << >> \in Seq(0..MaxMessages)
  OBVIOUS
<1>2. CASE BrokerDeclares
  <2>1. PICK code \in Refusals :
          /\ BrokerSends(<<Reply(Head(toBroker), code, << >>)>>)
          /\ declared' = (declared \/ code = "OK")
    BY <1>2 DEF BrokerDeclares, Refusals
  <2>2. QED
    BY <1>1, <1>2, <2>1, BrokerReplies DEF BrokerDeclares, Requested
<1>3. CASE BrokerDeletes
  <2>1. PICK code \in Refusals : code = IF declared THEN "OK" ELSE "PublisherDoesNotExist"
    BY DEF Refusals
  <2>2. QED
    BY <1>1, <1>3, <2>1, BrokerReplies DEF BrokerDeletes, Requested
<1>4. CASE BrokerAnswersQuery
  <2>1. PICK arg \in Seq(0..MaxMessages) : arg = <<Max(stored \cup {0})>> /\ Len(arg) = 1
    <3>1. PICK last \in 0..MaxMessages : last = Max(stored \cup {0})
      BY LastStored
    <3>2. <<last>> \in Seq(0..MaxMessages) /\ Len(<<last>>) = 1
      OBVIOUS
    <3>3. QED
      BY <3>1, <3>2
  <2>2. declared' \in BOOLEAN
    BY <1>4 DEF BrokerAnswersQuery, broker, Types, Store
  <2>3. QED
    BY <1>4, <2>1, <2>2, BrokerReplies DEF BrokerAnswersQuery, Requested, Refusals, broker
<1>5. QED
  BY <1>2, <1>3, <1>4

\* The broker's heartbeat.
LEMMA HeartbeatFacts ==
  ASSUME Types, Heartbeat
  PROVE  /\ link = "up" /\ Push("Heartbeat", << >>) \in Heartbeats
         /\ toClient' = Append(toClient, Push("Heartbeat", << >>))
         /\ UNCHANGED <<toBroker, link, CorrelationId, call, client, broker>>
<1>1. Push("Heartbeat", << >>) \in Heartbeats
  BY DEF Push, Message, Heartbeats
<1>2. PICK m \in Heartbeats : m = Push("Heartbeat", << >>)
  BY <1>1
<1>3. toClient \in Seq(FromBroker) /\ m \in FromBroker
  BY DEF Types, Channels, FromBroker
<1>4. toClient' = toClient \o <<m>>
  BY <1>2 DEF Heartbeat, BrokerHeartbeat, BrokerSends
<1>5. toClient' = Append(toClient, m)
  BY <1>3, <1>4
<1>6. QED
  BY <1>1, <1>2, <1>5 DEF Heartbeat, BrokerHeartbeat

LEMMA HeartbeatStep ==
  ASSUME Types, Heartbeat
  PROVE  Types'
<1>1. PICK m \in Heartbeats :
        /\ toClient' = Append(toClient, m)
        /\ UNCHANGED <<toBroker, link, CorrelationId, call, client, broker>>
  BY HeartbeatFacts
<1>2. toClient \in Seq(FromBroker) /\ m \in FromBroker
  BY DEF Types, Channels, FromBroker
<1>3. toClient' \in Seq(FromBroker)
  BY <1>1, <1>2
<1>4. Channels'
  BY <1>1, <1>3 DEF Types, Channels
<1>5. Numbers' /\ Handler' /\ ThreadMoves'
  BY <1>1 DEF Types, Numbers, Handler, ThreadMoves, client, handler, threadVars
<1>6. QED
  BY <1>1, <1>4, <1>5, ClientStep DEF client

LEMMA NextTypes ==
  ASSUME Types, [Next]_vars
  PROVE  Types'
BY RequestStep, PublishStep, ResponseStep, DropStep, HandleStep, PublishResultStep,
   BrokerStoresStep, ReportStep, LoseStep, ThreadStep, BrokerAnswersStep, HeartbeatStep
   DEF Next, Application, Poll, BrokerAnswers

LEMMA TypesHold == Spec => []Types
<1>1. Init => Types
  BY InitTypes
<1>2. Types /\ [Next]_vars => Types'
  BY NextTypes
<1>3. QED
  BY <1>1, <1>2, PTL DEF Spec

LEMMA TypesAreTypeOK == Types /\ ThreadType => TypeOK
<1> SUFFICES ASSUME Types, ThreadType PROVE TypeOK
  OBVIOUS
<1>1. ArraySize \in Nat \ {0} /\ MaxMessages \in Nat
  BY PublisherAssumption
<1>2. DOMAIN PublishResultArray = 0..(ArraySize - 1)
  BY DEF Types, Handler
<1>3. /\ handling.key \in ResultKeys \cup {"none"} /\ handling.records \in Seq(Results)
      /\ handling.i \in Nat /\ handling.PublishIdCount \in DOMAIN PublishResultArray
  <2>1. CASE handling = Idle
    BY <1>1, <1>2, <2>1 DEF Idle
  <2>2. CASE handling # Idle
    BY <1>2, <2>2 DEF Types, Handler
  <2>3. QED
    BY <2>1, <2>2
<1>4. stored \subseteq 1..MaxMessages
  BY <1>1 DEF Types, Store, Numbers
<1>5. QED
  BY <1>3, <1>4 DEF TypeOK, Types, Channels, Numbers, Handler, Store, ThreadMoves, ThreadType

\* Every variable has its type, and PublishIdCount stays within PublishResultArray at
\* every step of the loop of rmqsHandlePublishResult.
THEOREM PTypeCorrect == Spec => []TypeOK
<1>1. Init => Apart
  BY InitApart
<1>2. Apart /\ [Next]_vars => Apart'
  BY NextApart
<1>3. Apart => ThreadType
  BY DEF Apart
<1>4. QED
  BY <1>1, <1>2, <1>3, TypesHold, TypesAreTypeOK, PTL DEF Spec

(***************************************************************************)
(* The results the broker decided are in one line: those the callback got, *)
(* those of the frame being handled, those of the frames on their way and  *)
(* those still to be sent.  pos tells where in that line the results of    *)
(* each frame on its way begin, and where the last one ends.               *)
(***************************************************************************)

\* The result of a record, as it was decided.
ToldBy(key, result) == [result |-> result, Confirmed |-> key = "PublishConfirm"]

Carries(m) == IF m.key \in ResultKeys THEN Len(m.arg) ELSE 0

Tells(p, m) == \A k \in DOMAIN m.arg : decided[p + k] = ToldBy(m.key, m.arg[k])

Frames(pos) ==
    /\ pos \in [1..(Len(toClient) + 1) -> 0..Len(decided)]
    /\ \A j \in DOMAIN toClient :
         /\ pos[j + 1] = pos[j] + Carries(toClient[j])
         /\ toClient[j].key \in ResultKeys => Tells(pos[j], toClient[j])

\* On a live connection the results still to be sent come next, and are the last.
Ends(end) ==
    link = "up" =>
        /\ end + Len(pending) = Len(decided)
        /\ \A k \in DOMAIN pending : decided[end + k] = pending[k]

\* The results of the frame being handled: first the entries of the array in use, then
\* the records to come.
Handled(h, array, start) ==
    /\ \A k \in 1..h.PublishIdCount : decided[start + k] = ToldBy(h.key, array[k - 1])
    /\ \A k \in (h.i + 1)..Len(h.records) :
         decided[start + h.PublishIdCount + (k - h.i)] = ToldBy(h.key, h.records[k])

Begins(begin) ==
    /\ handling = Idle => begin = Len(reported)
    /\ handling # Idle =>
         /\ begin = Len(reported) + handling.PublishIdCount
                      + (Len(handling.records) - handling.i)
         /\ Handled(handling, PublishResultArray, Len(reported))

\* Only an error has a code.
Codes == \A k \in DOMAIN decided : decided[k].Confirmed => decided[k].result.Code = 0

Prefix ==
    /\ Len(reported) <= Len(decided)
    /\ \A k \in DOMAIN reported : reported[k] = decided[k]

Flow ==
    /\ Codes /\ Prefix
    /\ \E pos : Frames(pos) /\ Begins(pos[1]) /\ Ends(pos[Len(toClient) + 1])

LEMMA FramesSay ==
  ASSUME Types, NEW pos, Frames(pos), NEW n, n = Len(toClient)
  PROVE  /\ n \in Nat /\ Len(decided) \in Nat
         /\ pos \in [1..(n + 1) -> 0..Len(decided)]
         /\ \A j \in 1..n : /\ pos[j + 1] = pos[j] + Carries(toClient[j])
                            /\ toClient[j].key \in ResultKeys => Tells(pos[j], toClient[j])
<1>1. toClient \in Seq(FromBroker) /\ decided \in Seq(Told)
  BY DEF Types, Channels, Store
<1>2. n \in Nat /\ Len(decided) \in Nat /\ DOMAIN toClient = 1..n
  BY <1>1
<1>3. QED
  BY <1>2, Zenon DEF Frames

LEMMA EndOfFrames ==
  ASSUME Types, NEW pos, Frames(pos)
  PROVE  /\ pos[Len(toClient) + 1] \in 0..Len(decided) /\ pos[Len(toClient) + 1] \in Nat
         /\ Len(decided) \in Nat
<1>1. PICK n \in Nat : n = Len(toClient)
  BY DEF Types, Channels
<1>2. pos \in [1..(n + 1) -> 0..Len(decided)] /\ Len(decided) \in Nat
  BY <1>1, FramesSay
<1>3. QED
  BY <1>1, <1>2

\* Places in that line.
LEMMA WithinLine ==
  ASSUME NEW r \in Nat, NEW c \in Nat, NEW i \in Nat, NEW l \in Nat, NEW n \in Nat,
         r + c + (l - i) \in 0..n, NEW k \in (i + 1)..l
  PROVE  r + c + (k - i) \in 1..n
<1>1. k \in Nat /\ i < k /\ k <= l
  OBVIOUS
<1>2. r + c + (k - i) <= r + c + (l - i)
  BY <1>1
<1>3. QED
  BY <1>1, <1>2

LEMMA FlowSays ==
  ASSUME Types, Flow
  PROVE  ReportedAsDecided /\ NothingHeldBack
<1>1. /\ reported \in Seq(Told) /\ decided \in Seq(Told) /\ pending \in Seq(Told)
      /\ toClient \in Seq(FromBroker)
  BY DEF Types, Handler, Store, Channels
<1>2. ReportedAsDecided
  BY <1>1 DEF Flow, Prefix, ReportedAsDecided, IsPrefix
<1>3. NothingHeldBack
  <2>1. SUFFICES ASSUME handling = Idle, link = "up"
                 PROVE  Len(reported) + Underway + Len(pending) = Len(decided)
    BY DEF NothingHeldBack
  <2>2. PICK pos : Frames(pos) /\ Begins(pos[1]) /\ Ends(pos[Len(toClient) + 1])
    BY DEF Flow
  <2>3. PICK n \in Nat : n = Len(toClient) /\ DOMAIN toClient = 1..n
    BY <1>1
  <2> DEFINE w == [k \in DOMAIN toClient |->
                     IF toClient[k].key \in ResultKeys THEN Len(toClient[k].arg) ELSE 0]
             g == [i \in 0..n |-> pos[i + 1] - pos[1]]
  <2>4. \A k \in 1..n : w[k] = Carries(toClient[k]) /\ Carries(toClient[k]) \in Nat
    <3>1. ASSUME NEW k \in 1..n PROVE Carries(toClient[k]) \in Nat
      <4>1. toClient[k] \in FromBroker
        BY <1>1, <2>3, ElementOf
      <4>2. toClient[k].key \in ResultKeys => toClient[k].arg \in Seq(Results)
        BY <4>1 DEF FromBroker, Heartbeats, Replies, ResultFrames, ResultKeys, Requested
      <4>3. QED
        BY <4>2 DEF Carries
    <3>2. QED
      BY <2>3, <3>1 DEF Carries
  <2>5. w \in Seq(Nat) /\ Len(w) = n
    BY <2>3, <2>4
  <2>6. Underway = Sum(w)
    BY Zenon DEF Underway
  <2> HIDE DEF w
  <2>7. /\ \A i \in 1..(n + 1) : pos[i] \in Nat
        /\ \A i \in 1..n : pos[i + 1] = pos[i] + w[i]
    <3>1. /\ pos \in [1..(n + 1) -> 0..Len(decided)] /\ Len(decided) \in Nat
          /\ \A i \in 1..n : pos[i + 1] = pos[i] + Carries(toClient[i])
      BY <2>2, <2>3, FramesSay
    <3>2. QED
      BY <2>4, <3>1
  <2>8. \A i \in 0..n : g[i] \in Nat
    <3> DEFINE S == {i \in Nat : i <= n => pos[i + 1] - pos[1] \in Nat}
    <3>1. 0 \in S
      BY <2>7
    <3>2. ASSUME NEW i \in Nat, i \in S PROVE i + 1 \in S
      <4>1. CASE i + 1 <= n
        <5>1. pos[i + 1] - pos[1] \in Nat /\ pos[i + 1] \in Nat /\ pos[1] \in Nat /\ w[i + 1] \in Nat
          BY <2>4, <2>7, <3>2, <4>1
        <5>2. pos[(i + 1) + 1] = pos[i + 1] + w[i + 1]
          BY <2>7, <4>1
        <5>3. QED
          BY <5>1, <5>2
      <4>2. QED
        BY <4>1
    <3> HIDE DEF S
    <3>3. Nat \subseteq S
      BY <3>1, <3>2, NatSetInduction
    <3>4. QED
      BY <3>3 DEF S
  <2>9. Running(g, w)
    <3>1. g[0] = 0
      BY <2>7
    <3>2. ASSUME NEW i \in 1..n PROVE g[i] = g[i - 1] + w[i]
      <4>1. g[i] = pos[i + 1] - pos[1] /\ g[i - 1] = pos[(i - 1) + 1] - pos[1] /\ (i - 1) + 1 = i
        OBVIOUS
      <4>2. pos[i + 1] = pos[i] + w[i] /\ pos[i] \in Nat /\ pos[1] \in Nat /\ w[i] \in Nat
        BY <2>4, <2>7
      <4>3. QED
        BY <4>1, <4>2
    <3>3. g \in [0..n -> Nat]
      BY <2>8
    <3> HIDE DEF g
    <3>4. QED
      BY <2>5, <3>1, <3>2, <3>3 DEF Running
  <2>10. Underway = g[n] /\ g[n] = pos[n + 1] - pos[1]
    BY <2>5, <2>6, <2>9, SumIsRunning
  <2>11. pos[1] = Len(reported) /\ pos[n + 1] + Len(pending) = Len(decided)
    BY <2>1, <2>2, <2>3 DEF Begins, Ends
  <2>12. QED
    BY <1>1, <2>7, <2>10, <2>11
<1>4. QED
  BY <1>2, <1>3

LEMMA InitFlow == Init => Flow
<1> SUFFICES ASSUME Init PROVE Flow
  OBVIOUS
<1> DEFINE pos == [j \in 1..1 |-> 0]
<1>1. /\ toClient = << >> /\ reported = << >> /\ decided = << >> /\ pending = << >>
      /\ handling = Idle
  BY DEF Init, ConnectionInit
<1>2. Codes /\ Prefix
  BY <1>1 DEF Codes, Prefix
<1>3. Frames(pos) /\ Begins(pos[1]) /\ Ends(pos[Len(toClient) + 1])
  BY <1>1 DEF Frames, Begins, Ends
<1>4. QED
  BY <1>2, <1>3 DEF Flow

\* The reading thread takes the first frame.
LEMMA TakeFrames ==
  ASSUME Types, NEW pos, Frames(pos), Arrived, Take, decided' = decided
  PROVE  /\ pos[2] = pos[1] + Carries(Head(toClient)) /\ pos[1] \in Nat
         /\ Head(toClient).key \in ResultKeys => Tells(pos[1], Head(toClient))
         /\ \E new : /\ Frames(new)' /\ new[1] = pos[2]
                     /\ new[Len(toClient') + 1] = pos[Len(toClient) + 1]
<1>1. PICK n \in Nat \ {0} : n = Len(toClient)
  BY DEF Types, Channels, Arrived
<1>2. /\ toClient \in Seq(FromBroker) /\ DOMAIN toClient = 1..n /\ Head(toClient) = toClient[1]
      /\ Len(toClient') = n - 1 /\ DOMAIN toClient' = 1..(n - 1)
      /\ \A j \in 1..(n - 1) : toClient'[j] = toClient[j + 1]
  BY <1>1 DEF Types, Channels, Arrived, Take
<1>3. /\ pos \in [1..(n + 1) -> 0..Len(decided)] /\ Len(decided) \in Nat
      /\ \A j \in 1..n : /\ pos[j + 1] = pos[j] + Carries(toClient[j])
                         /\ toClient[j].key \in ResultKeys => Tells(pos[j], toClient[j])
  BY <1>1, <1>2, FramesSay
<1>4. /\ pos[2] = pos[1] + Carries(Head(toClient)) /\ pos[1] \in Nat
      /\ Head(toClient).key \in ResultKeys => Tells(pos[1], Head(toClient))
  BY <1>2, <1>3
<1> DEFINE new == [j \in 1..n |-> pos[j + 1]]
<1>5. \A j \in 1..n : new[j] = pos[j + 1] /\ new[j] \in 0..Len(decided)
  BY <1>3
<1>6. new \in [1..n -> 0..Len(decided)]
  BY <1>5
<1> HIDE DEF new
<1>7. ASSUME NEW j \in 1..(n - 1)
      PROVE  /\ new[j + 1] = new[j] + Carries(toClient'[j])
             /\ toClient'[j].key \in ResultKeys => Tells(new[j], toClient'[j])
  BY <1>2, <1>3, <1>5
<1>8. Frames(new)'
  <2>1. (n - 1) + 1 = n
    OBVIOUS
  <2>2. QED
    BY <1>2, <1>6, <1>7, <2>1, Zenon DEF Frames, Tells
<1>9. QED
  BY <1>1, <1>2, <1>4, <1>5, <1>8

\* The broker sends one more frame.
LEMMA AppendFrames ==
  ASSUME Types, NEW pos, Frames(pos), NEW m \in FromBroker, toClient' = Append(toClient, m),
         decided' = decided,
         pos[Len(toClient) + 1] + Carries(m) \in 0..Len(decided),
         m.key \in ResultKeys => Tells(pos[Len(toClient) + 1], m)
  PROVE  \E new : /\ Frames(new)' /\ new[1] = pos[1]
                  /\ new[Len(toClient') + 1] = pos[Len(toClient) + 1] + Carries(m)
<1>1. PICK n \in Nat : n = Len(toClient)
  BY DEF Types, Channels
<1>2. /\ DOMAIN toClient = 1..n /\ Len(toClient') = n + 1 /\ DOMAIN toClient' = 1..(n + 1)
      /\ toClient'[n + 1] = m /\ \A j \in 1..n : toClient'[j] = toClient[j]
  BY <1>1 DEF Types, Channels
<1>3. /\ pos \in [1..(n + 1) -> 0..Len(decided)] /\ Len(decided) \in Nat
      /\ \A j \in 1..n : /\ pos[j + 1] = pos[j] + Carries(toClient[j])
                         /\ toClient[j].key \in ResultKeys => Tells(pos[j], toClient[j])
  BY <1>1, <1>2, FramesSay
<1> DEFINE new == [j \in 1..(n + 2) |-> IF j = n + 2 THEN pos[n + 1] + Carries(m) ELSE pos[j]]
<1>4. /\ new \in [1..(n + 2) -> 0..Len(decided)]
      /\ new[n + 2] = pos[n + 1] + Carries(m) /\ \A j \in 1..(n + 1) : new[j] = pos[j]
  BY <1>1, <1>3
<1> HIDE DEF new
<1>5. ASSUME NEW j \in 1..(n + 1)
      PROVE  /\ new[j + 1] = new[j] + Carries(toClient'[j])
             /\ toClient'[j].key \in ResultKeys => Tells(new[j], toClient'[j])
  <2>1. CASE j = n + 1
    BY <1>1, <1>2, <1>4, <2>1
  <2>2. CASE j # n + 1
    <3>1. j \in 1..n /\ j + 1 \in 1..(n + 1)
      BY <2>2
    <3>2. QED
      BY <1>2, <1>3, <1>4, <3>1
  <2>3. QED
    BY <2>1, <2>2
<1>6. Frames(new)'
  <2>1. (n + 1) + 1 = n + 2
    OBVIOUS
  <2>2. QED
    BY <1>2, <1>4, <1>5, <2>1, Zenon DEF Frames, Tells
<1>7. QED
  BY <1>1, <1>2, <1>4, <1>6

\* A step that touches neither the results nor the frames.
LEMMA FlowUnchanged ==
  ASSUME Flow, UNCHANGED <<toClient, handler, pending, decided, link>>
  PROVE  Flow'
BY DEF Flow, Codes, Prefix, Frames, Tells, Begins, Handled, Ends, handler

\* A frame without results is taken.
LEMMA FlowTakesOther ==
  ASSUME Types, Flow, Arrived, Take, Head(toClient).key \notin ResultKeys,
         UNCHANGED <<handler, pending, decided, link>>
  PROVE  Flow'
<1>1. PICK pos : Frames(pos) /\ Begins(pos[1]) /\ Ends(pos[Len(toClient) + 1])
  BY DEF Flow
<1>2. PICK new : /\ pos[2] = pos[1] + Carries(Head(toClient)) /\ pos[1] \in Nat
                 /\ Frames(new)' /\ new[1] = pos[2]
                 /\ new[Len(toClient') + 1] = pos[Len(toClient) + 1]
  BY <1>1, TakeFrames
<1>3. new[1] = pos[1]
  BY <1>2 DEF Carries
<1>4. Begins(new[1])'
  BY <1>1, <1>3 DEF Begins, Handled, handler
<1>5. Ends(new[Len(toClient) + 1])'
  BY <1>1, <1>2 DEF Ends
<1>6. Codes' /\ Prefix'
  BY DEF Flow, Codes, Prefix, handler
<1>7. QED
  BY <1>2, <1>4, <1>5, <1>6 DEF Flow

LEMMA FlowHandle ==
  ASSUME Types, Flow, HandlePublishResult
  PROVE  Flow'
<1>1. PICK pos : Frames(pos) /\ Begins(pos[1]) /\ Ends(pos[Len(toClient) + 1])
  BY DEF Flow
<1>2. /\ Arrived /\ Take /\ handling = Idle /\ Head(toClient).key \in ResultKeys
      /\ UNCHANGED <<link, PublishResultArray, reported, broker>>
      /\ handling' = [key |-> Head(toClient).key, records |-> Head(toClient).arg,
                      i |-> 0, PublishIdCount |-> 0]
  BY DEF HandlePublishResult, Reads
<1>3. decided' = decided /\ pending' = pending
  BY <1>2 DEF broker
<1>4. PICK new : /\ pos[2] = pos[1] + Carries(Head(toClient)) /\ pos[1] \in Nat
                 /\ Tells(pos[1], Head(toClient))
                 /\ Frames(new)' /\ new[1] = pos[2]
                 /\ new[Len(toClient') + 1] = pos[Len(toClient) + 1]
  BY <1>1, <1>2, <1>3, TakeFrames
<1>5. PICK m \in ResultFrames : m = Head(toClient)
  <2>1. Head(toClient) \in FromBroker
    BY <1>2 DEF Types, Channels, Arrived
  <2>2. QED
    BY <1>2, <2>1 DEF FromBroker, Heartbeats, Replies, ResultKeys, Requested
<1>6. PICK a \in Seq(Results) : a = m.arg
  BY <1>5 DEF ResultFrames
<1>7. handling' # Idle
  BY <1>2 DEF Idle, ResultKeys
<1>8. Begins(new[1])'
  <2>1. new[1] = Len(reported) + 0 + (Len(a) - 0)
    BY <1>1, <1>2, <1>4, <1>5, <1>6 DEF Begins, Carries
  <2>2. \A k \in 1..Len(a) : decided[Len(reported) + k] = ToldBy(m.key, a[k])
    <3>1. pos[1] = Len(reported) /\ DOMAIN a = 1..Len(a)
      BY <1>1, <1>2 DEF Begins
    <3>2. Tells(Len(reported), m)
      BY <1>4, <1>5, <3>1
    <3>3. QED
      BY <1>6, <3>1, <3>2, Zenon DEF Tells
  <2>3. /\ handling'.key = m.key /\ handling'.records = a /\ handling'.i = 0
        /\ handling'.PublishIdCount = 0
    BY <1>2, <1>5, <1>6
  <2>4. Len(reported) \in Nat /\ Len(a) \in Nat
    BY DEF Types, Handler
  <2>5. Handled(handling, PublishResultArray, Len(reported))'
    <3>1. /\ \A k \in (0 + 1)..Len(a) : /\ Len(reported) + 0 + (k - 0) = Len(reported) + k
                                        /\ k \in 1..Len(a)
          /\ \A k \in 1..0 : FALSE
      BY <2>4
    <3>2. QED
      BY <1>2, <1>3, <2>2, <2>3, <3>1, Zenon DEF Handled
  <2>6. QED
    BY <1>2, <1>7, <2>1, <2>3, <2>5 DEF Begins
<1>9. Ends(new[Len(toClient) + 1])'
  BY <1>1, <1>2, <1>3, <1>4 DEF Ends
<1>10. Codes' /\ Prefix'
  BY <1>2, <1>3 DEF Flow, Codes, Prefix
<1>11. QED
  BY <1>4, <1>8, <1>9, <1>10 DEF Flow

\* The broker sends a frame without results.
LEMMA FlowReplies ==
  ASSUME Types, Flow, NEW m \in FromBroker, m.key \notin ResultKeys,
         toClient' = Append(toClient, m), UNCHANGED <<handler, pending, decided, link>>
  PROVE  Flow'
<1>1. PICK pos : Frames(pos) /\ Begins(pos[1]) /\ Ends(pos[Len(toClient) + 1])
  BY DEF Flow
<1>2. /\ pos[Len(toClient) + 1] \in 0..Len(decided) /\ Carries(m) = 0
      /\ pos[Len(toClient) + 1] + Carries(m) = pos[Len(toClient) + 1]
  BY <1>1, EndOfFrames DEF Carries
<1>3. PICK new : /\ Frames(new)' /\ new[1] = pos[1]
                 /\ new[Len(toClient') + 1] = pos[Len(toClient) + 1]
  BY <1>1, <1>2, AppendFrames
<1>4. Begins(new[1])'
  BY <1>1, <1>3 DEF Begins, Handled, handler
<1>5. Ends(new[Len(toClient) + 1])'
  BY <1>1, <1>3 DEF Ends
<1>6. Codes' /\ Prefix'
  BY DEF Flow, Codes, Prefix, handler
<1>7. QED
  BY <1>3, <1>4, <1>5, <1>6 DEF Flow

\* Some of the results still to be sent are sent in a frame.
LEMMA FlowReports ==
  ASSUME Types, Flow, NEW n, BrokerReports(n)
  PROVE  Flow'
<1>1. PICK pos : Frames(pos) /\ Begins(pos[1]) /\ Ends(pos[Len(toClient) + 1])
  BY DEF Flow
<1> DEFINE end == pos[Len(toClient) + 1]
           m == ReportOf(n)
<1>2. /\ n \in 1..Len(pending) /\ Len(pending) \in Nat /\ link = "up"
      /\ \A k \in 1..n : pending[k] \in Told /\ pending[k].Confirmed = pending[1].Confirmed
      /\ m \in ResultFrames /\ Len(m.arg) = n /\ DOMAIN m.arg = 1..n
      /\ m.key = IF pending[1].Confirmed THEN "PublishConfirm" ELSE "PublishError"
      /\ \A k \in 1..n : m.arg[k] = pending[k].result
      /\ toClient' = Append(toClient, m)
      /\ pending' = SubSeq(pending, n + 1, Len(pending))
      /\ UNCHANGED <<link, client, decided>>
  BY ReportFacts
<1> HIDE DEF m
<1>3. m \in FromBroker /\ m.key \in ResultKeys /\ Carries(m) = n
  BY <1>2 DEF FromBroker, Heartbeats, ResultFrames, Carries
<1>4. /\ end \in Nat /\ Len(decided) \in Nat /\ end + Len(pending) = Len(decided)
      /\ \A k \in DOMAIN pending : decided[end + k] = pending[k]
  BY <1>1, <1>2, EndOfFrames DEF Ends
<1>5. PICK p \in Seq(Told) : p = pending /\ DOMAIN p = 1..Len(p)
  BY DEF Types, Store
<1>6. Tells(end, m)
  <2>1. ASSUME NEW k \in 1..n
        PROVE  decided[end + k] = ToldBy(m.key, m.arg[k])
    <3>1. p[k] \in Told /\ p[1] \in Told /\ p[k].Confirmed = p[1].Confirmed /\ decided[end + k] = p[k]
      BY <1>2, <1>4, <1>5
    <3>2. p[k] = [result |-> p[k].result, Confirmed |-> m.key = "PublishConfirm"]
      BY <1>2, <1>5, <3>1 DEF Told
    <3>3. QED
      BY <1>2, <1>5, <3>1, <3>2 DEF ToldBy
  <2>2. QED
    BY <1>2, <2>1 DEF Tells
<1> HIDE DEF end
<1>7. end + n \in 0..Len(decided)
  BY <1>2, <1>4
<1>8. PICK new : /\ Frames(new)' /\ new[1] = pos[1] /\ new[Len(toClient') + 1] = end + n
  BY <1>1, <1>2, <1>3, <1>6, <1>7, AppendFrames DEF end
<1>9. UNCHANGED <<handling, reported, PublishResultArray>>
  BY <1>2 DEF client, handler
<1>10. Begins(new[1])'
  BY <1>1, <1>2, <1>8, <1>9 DEF Begins, Handled
<1>11. Ends(new[Len(toClient) + 1])'
  <2>1. PICK q \in Seq(Told) : q = pending' /\ q = SubSeq(p, n + 1, Len(p))
    <3>1. SubSeq(p, n + 1, Len(p)) \in Seq(Told)
      BY <1>2, <1>5
    <3>2. QED
      BY <1>2, <1>5, <3>1
  <2>2. /\ Len(q) = Len(p) - n /\ DOMAIN q = 1..(Len(p) - n)
        /\ \A k \in DOMAIN q : q[k] = p[n + k]
    <3>1. n \in 1..Len(p)
      BY <1>2, <1>5
    <3>2. QED
      BY <2>1, <3>1, RestFacts
  <2>3. end + n + Len(q) = Len(decided)
    <3>1. PICK l \in Nat : l = Len(p)
      OBVIOUS
    <3>2. n \in Nat /\ end + l = Len(decided) /\ Len(q) = l - n
      BY <1>2, <1>4, <1>5, <2>2, <3>1
    <3>3. QED
      BY <1>4, <3>2
  <2>4. ASSUME NEW k \in DOMAIN q PROVE decided[end + n + k] = q[k]
    <3>1. n + k \in DOMAIN p /\ end + n + k = end + (n + k)
      BY <1>2, <1>4, <1>5, <2>2
    <3>2. QED
      BY <1>4, <1>5, <2>2, <3>1
  <2>5. QED
    BY <1>2, <1>8, <2>1, <2>3, <2>4 DEF Ends
<1>12. Codes' /\ Prefix'
  BY <1>2, <1>9 DEF Flow, Codes, Prefix
<1>13. QED
  BY <1>8, <1>10, <1>11, <1>12 DEF Flow

\* The broker decides more, on a live connection.
LEMMA FlowStores ==
  ASSUME Types, Flow, BrokerStores
  PROVE  Flow'
<1>1. PICK pos : Frames(pos) /\ Begins(pos[1]) /\ Ends(pos[Len(toClient) + 1])
  BY DEF Flow
<1> DEFINE ids == Head(toBroker).arg
<1>2. PICK new \in Seq(Told) :
        /\ new = ResultsOf(ids) /\ link = "up" /\ ids \in Seq(1..MaxMessages)
        /\ pending' = pending \o new /\ decided' = decided \o new
        /\ BrokerTakes /\ UNCHANGED <<toClient, client>>
  BY StoreFacts
<1>3. \A k \in DOMAIN new : new[k].Confirmed => new[k].result.Code = 0
  BY <1>2 DEF ResultsOf, Result
<1> HIDE DEF ids
<1>4. PICK d \in Seq(Told), p \in Seq(Told) : d = decided /\ p = pending
  BY DEF Types, Store
<1>5. PICK L \in Nat, N \in Nat : L = Len(d) /\ N = Len(new)
  BY <1>4
<1>6. /\ Len(decided') = L + N /\ \A k \in 1..L : decided'[k] = decided[k]
      /\ \A k \in 1..N : decided'[L + k] = new[k]
      /\ DOMAIN decided = 1..L /\ DOMAIN decided' = 1..(L + N) /\ DOMAIN new = 1..N
  BY <1>2, <1>4, <1>5
<1>7. Codes'
  <2>1. ASSUME NEW k \in 1..(L + N), decided'[k].Confirmed
        PROVE  decided'[k].result.Code = 0
    <3>1. CASE k \in 1..L
      BY <1>6, <2>1, <3>1 DEF Flow, Codes
    <3>2. CASE k \notin 1..L
      <4>1. k - L \in 1..N /\ L + (k - L) = k
        BY <3>2
      <4>2. QED
        BY <1>3, <1>6, <2>1, <4>1
    <3>3. QED
      BY <3>1, <3>2
  <2>2. QED
    BY <1>6, <2>1 DEF Codes
<1>8. UNCHANGED <<reported, handling, PublishResultArray, link>> /\ reported \in Seq(Told)
  BY <1>2 DEF client, handler, BrokerTakes, Types, Handler
<1>9. PICK R \in Nat : R = Len(reported) /\ DOMAIN reported = 1..R
  BY <1>8
<1>10. Prefix'
  <2>1. R <= L /\ \A k \in 1..R : reported[k] = decided[k]
    BY <1>4, <1>5, <1>9 DEF Flow, Prefix
  <2>2. R <= L + N /\ \A k \in 1..R : reported[k] = decided'[k]
    BY <1>6, <2>1
  <2>3. QED
    BY <1>6, <1>8, <1>9, <2>2 DEF Prefix
<1>11. PICK n \in Nat : n = Len(toClient) /\ DOMAIN toClient = 1..n /\ toClient' = toClient
  BY <1>2 DEF Types, Channels
<1>12. /\ pos \in [1..(n + 1) -> 0..L]
       /\ \A j \in 1..n : /\ pos[j + 1] = pos[j] + Carries(toClient[j])
                          /\ toClient[j].key \in ResultKeys => Tells(pos[j], toClient[j])
  BY <1>1, <1>4, <1>5, <1>11, FramesSay
<1>13. Frames(pos)'
  <2>1. ASSUME NEW j \in 1..n, toClient[j].key \in ResultKeys, NEW k \in DOMAIN toClient[j].arg
        PROVE  decided'[pos[j] + k] = ToldBy(toClient[j].key, toClient[j].arg[k])
    <3>1. toClient[j] \in ResultFrames
      <4>1. toClient[j] \in FromBroker
        BY <1>11, ElementOf DEF Types, Channels
      <4>2. QED
        BY <2>1, <4>1 DEF FromBroker, Heartbeats, Replies, ResultKeys, Requested
    <3>2. PICK a \in Seq(Results) : a = toClient[j].arg
      BY <3>1 DEF ResultFrames
    <3>3. k \in 1..Len(a) /\ Len(a) = Carries(toClient[j]) /\ Len(a) \in Nat
      BY <2>1, <3>2 DEF Carries
    <3>4. pos[j] \in 0..L /\ pos[j + 1] \in 0..L /\ pos[j + 1] = pos[j] + Len(a)
      BY <1>12, <3>3
    <3>5. pos[j] + k \in 1..L
      BY <3>3, <3>4
    <3>6. decided[pos[j] + k] = ToldBy(toClient[j].key, toClient[j].arg[k])
      BY <1>12, <2>1 DEF Tells
    <3>7. QED
      BY <1>6, <3>5, <3>6
  <2>2. pos \in [1..(n + 1) -> 0..(L + N)]
    <3>1. \A k \in 0..L : k \in 0..(L + N)
      OBVIOUS
    <3>2. QED
      BY <1>12, <3>1
  <2>3. QED
    BY <1>6, <1>11, <1>12, <2>1, <2>2, Zenon DEF Frames, Tells
<1>14. Begins(pos[1])'
  <2>1. CASE handling = Idle
    BY <1>1, <1>8, <2>1 DEF Begins
  <2>2. CASE handling # Idle
    <3>1. PICK h \in [key : ResultKeys, records : Seq(Results), i : Nat,
                      PublishIdCount : 0..(ArraySize - 1)] : h = handling /\ h.i < Len(h.records)
      BY <2>2 DEF Types, Handler
    <3>2. PICK c \in Nat, i \in Nat, l \in Nat :
                 c = h.PublishIdCount /\ i = h.i /\ l = Len(h.records) /\ i < l
      BY <3>1, PublisherAssumption
    <3>3. pos[1] = R + c + (l - i) /\ pos[1] \in 0..L
      BY <1>1, <1>9, <1>12, <2>2, <3>1, <3>2 DEF Begins
    <3>4. Handled(h, PublishResultArray, R)
      BY <1>1, <1>9, <2>2, <3>1 DEF Begins
    <3>5. ASSUME NEW k \in 1..c
          PROVE  decided'[R + k] = ToldBy(h.key, PublishResultArray[k - 1])
      <4>1. R + k \in 1..L
        BY <3>2, <3>3
      <4>2. QED
        BY <1>6, <3>2, <3>4, <4>1 DEF Handled
    <3>6. ASSUME NEW k \in (i + 1)..l
          PROVE  decided'[R + c + (k - i)] = ToldBy(h.key, h.records[k])
      <4>1. R + c + (k - i) \in 1..L
        BY <3>2, <3>3, WithinLine
      <4>2. QED
        BY <1>6, <3>2, <3>4, <4>1 DEF Handled
    <3>7. Handled(handling, PublishResultArray, Len(reported))'
      BY <1>8, <1>9, <3>1, <3>2, <3>5, <3>6, Zenon DEF Handled
    <3>8. QED
      BY <1>8, <1>9, <2>2, <3>1, <3>2, <3>3, <3>7 DEF Begins
  <2>3. QED
    BY <2>1, <2>2
<1>15. Ends(pos[Len(toClient) + 1])'
  <2>0. PICK end \in 0..L : end = pos[Len(toClient) + 1]
    BY <1>1, <1>4, <1>5, EndOfFrames
  <2>1. PICK M \in Nat : M = Len(p) /\ DOMAIN p = 1..M
    BY <1>4
  <2>2. end + M = L /\ \A k \in 1..M : decided[end + k] = p[k]
    BY <1>1, <1>2, <1>4, <1>5, <2>0, <2>1 DEF Ends
  <2>3. /\ Len(pending') = M + N /\ DOMAIN pending' = 1..(M + N)
        /\ \A k \in 1..M : pending'[k] = p[k]
        /\ \A k \in 1..N : pending'[M + k] = new[k]
    BY <1>2, <1>4, <1>5, <2>1
  <2>4. ASSUME NEW k \in 1..(M + N) PROVE decided'[end + k] = pending'[k]
    <3>1. CASE k \in 1..M
      <4>1. end + k \in 1..L
        BY <2>2, <3>1
      <4>2. QED
        BY <1>6, <2>2, <2>3, <3>1, <4>1
    <3>2. CASE k \notin 1..M
      <4>1. PICK x \in 1..N : x = k - M /\ end + k = L + x /\ M + x = k
        BY <2>2, <3>2
      <4>2. decided'[L + x] = new[x] /\ pending'[M + x] = new[x]
        BY <1>6, <2>3
      <4>3. QED
        BY <4>1, <4>2, Zenon
    <3>3. QED
      BY <3>1, <3>2
  <2>5. end + (M + N) = L + N
    BY <2>2
  <2>6. QED
    BY <1>6, <1>11, <2>0, <2>3, <2>4, <2>5, Zenon DEF Ends
<1>16. QED
  BY <1>7, <1>10, <1>11, <1>13, <1>14, <1>15 DEF Flow

\* An entry of the array is what was decided, whatever it was before.
LEMMA EntryIsDecided ==
  ASSUME NEW record \in Results, NEW old, handling.key \in ResultKeys,
         handling.key = "PublishConfirm" => record.Code = 0
  PROVE  Entry(old, record) = record
BY DEF Results, Entry, Result, ResultKeys

\* One record goes into the array, and the array perhaps to the callback.
LEMMA FlowResult ==
  ASSUME Types, Flow, PublishResult
  PROVE  Flow'
<1>1. PICK pos : Frames(pos) /\ Begins(pos[1]) /\ Ends(pos[Len(toClient) + 1])
  BY DEF Flow
<1>2. PICK count \in 1..ArraySize, i \in Nat :
         /\ handling # Idle
         /\ handling \in [key : ResultKeys, records : Seq(Results), i : Nat,
                          PublishIdCount : 0..(ArraySize - 1)]
         /\ count = handling.PublishIdCount + 1 /\ i = handling.i /\ i < Len(handling.records)
         /\ handling.records[i + 1] \in Results
         /\ \A k \in 1..(count - 1) : PublishResultArray'[k - 1] = PublishResultArray[k - 1]
         /\ PublishResultArray'[count - 1] =
              Entry(PublishResultArray[count - 1], handling.records[i + 1])
         /\ Passed(count) \in Seq(Told) /\ Len(Passed(count)) = count
         /\ \A k \in 1..count : Passed(count)[k] =
              [result |-> PublishResultArray'[k - 1], Confirmed |-> handling.key = "PublishConfirm"]
         /\ reported' = IF Flush(count, i) THEN reported \o Passed(count) ELSE reported
         /\ handling' = IF i = Len(handling.records) - 1 THEN Idle
                        ELSE [key |-> handling.key, records |-> handling.records, i |-> i + 1,
                              PublishIdCount |-> IF Flush(count, i) THEN 0 ELSE count]
  BY PublishResultFacts
<1>3. UNCHANGED <<toClient, link, pending, decided>>
  BY DEF PublishResult, connection, broker
<1>4. PICK records \in Seq(Results), key \in ResultKeys :
        records = handling.records /\ key = handling.key
  BY <1>2
<1>5. PICK R \in Nat, D \in Nat, l \in Nat, c \in Nat :
        /\ R = Len(reported) /\ D = Len(decided) /\ l = Len(records) /\ count = c + 1
        /\ DOMAIN reported = 1..R /\ DOMAIN decided = 1..D /\ i < l
        /\ c = handling.PublishIdCount
  <2>1. count - 1 \in Nat /\ count = (count - 1) + 1
    BY PublisherAssumption
  <2>2. reported \in Seq(Told) /\ decided \in Seq(Told)
    BY DEF Types, Handler, Store
  <2>3. handling.PublishIdCount = count - 1
    BY <1>2, PublisherAssumption
  <2>4. /\ Len(reported) \in Nat /\ Len(decided) \in Nat /\ Len(records) \in Nat
        /\ DOMAIN reported = 1..Len(reported) /\ DOMAIN decided = 1..Len(decided)
        /\ i < Len(records)
    BY <1>2, <1>4, <2>2
  <2>5. QED
    BY <2>1, <2>3, <2>4, Zenon
<1>6. R + c + (l - i) = pos[1] /\ R + c + (l - i) \in 0..D /\ Len(toClient) \in Nat
  <2>1. pos[1] = R + c + (l - i)
    BY <1>1, <1>2, <1>4, <1>5 DEF Begins
  <2>2. Len(toClient) \in Nat /\ pos \in [1..(Len(toClient) + 1) -> 0..D]
    BY <1>1, <1>5, FramesSay
  <2>3. QED
    BY <2>1, <2>2
<1>7. /\ \A k \in 1..c : decided[R + k] = ToldBy(key, PublishResultArray[k - 1])
      /\ \A k \in (i + 1)..l : decided[R + c + (k - i)] = ToldBy(key, records[k])
  BY <1>1, <1>2, <1>4, <1>5 DEF Begins, Handled
<1>8. R + count \in 1..D /\ decided[R + count] = ToldBy(key, records[i + 1])
  <2>1. R + c + ((i + 1) - i) = R + count /\ i + 1 \in (i + 1)..l
    BY <1>5
  <2>2. R + count \in 1..D
    BY <1>5, <1>6, <2>1, WithinLine
  <2>3. QED
    BY <1>7, <2>1, <2>2
<1>9. PublishResultArray'[c] = records[i + 1]
  <2>1. records[i + 1] \in Results /\ count - 1 = c
    BY <1>2, <1>4, <1>5
  <2>2. ASSUME key = "PublishConfirm" PROVE records[i + 1].Code = 0
    <3>1. /\ decided[R + count].Confirmed = (key = "PublishConfirm")
          /\ decided[R + count].result = records[i + 1]
      BY <1>8 DEF ToldBy
    <3>2. QED
      BY <1>5, <1>8, <2>2, <3>1, Zenon DEF Flow, Codes
  <2>3. QED
    BY <1>2, <1>4, <2>1, <2>2, EntryIsDecided
<1>10. \A k \in 1..count : decided[R + k] = ToldBy(key, PublishResultArray'[k - 1])
  <2>1. ASSUME NEW k \in 1..count
        PROVE  decided[R + k] = ToldBy(key, PublishResultArray'[k - 1])
    <3>1. CASE k = count
      <4>1. k - 1 = c
        BY <1>5, <3>1
      <4>2. QED
        BY <1>8, <1>9, <3>1, <4>1
    <3>2. CASE k # count
      <4>1. k \in 1..c /\ k \in 1..(count - 1)
        BY <1>5, <3>2
      <4>2. PublishResultArray'[k - 1] = PublishResultArray[k - 1]
        BY <1>2, <4>1
      <4>3. QED
        BY <1>7, <4>1, <4>2
    <3>3. QED
      BY <3>1, <3>2
  <2>2. QED
    BY <2>1
<1>11. \A k \in 1..count : Passed(count)[k] = decided[R + k]
  BY <1>2, <1>4, <1>10 DEF ToldBy
<1>12. PICK S \in Nat, rest \in Nat :
         /\ S = Len(reported') /\ DOMAIN reported' = 1..S /\ S + rest = R + count
         /\ rest = (IF Flush(count, i) THEN 0 ELSE count)
         /\ S = (IF Flush(count, i) THEN R + count ELSE R)
         /\ S <= D /\ \A k \in 1..S : reported'[k] = decided[k]
  <2>1. reported \in Seq(Told) /\ R <= D /\ \A k \in 1..R : reported[k] = decided[k]
    BY <1>5 DEF Types, Handler, Flow, Prefix
  <2>2. CASE Flush(count, i)
    <3>0. PICK passed \in Seq(Told) :
            /\ passed = Passed(count) /\ Len(passed) = count /\ DOMAIN passed = 1..count
            /\ reported' = reported \o passed /\ count \in Nat
      <4>1. PICK passed \in Seq(Told) : passed = Passed(count) /\ Len(passed) = count
        BY <1>2
      <4>2. reported' = reported \o passed /\ count \in Nat
        BY <1>2, <1>5, <2>2, <4>1
      <4>3. DOMAIN passed = 1..count
        BY <4>1
      <4>4. QED
        BY <4>1, <4>2, <4>3
    <3>1. /\ Len(reported') = R + count /\ DOMAIN reported' = 1..(R + count)
          /\ R + count <= D /\ R + count \in Nat
          /\ \A k \in 1..R : reported'[k] = reported[k]
          /\ \A k \in 1..count : reported'[R + k] = passed[k]
      <4>1. R + count <= D /\ R + count \in Nat
        BY <1>8, <3>0
      <4>2. R = Len(reported)
        BY <1>5
      <4>3. QED
        BY <2>1, <3>0, <4>1, <4>2
    <3>2. ASSUME NEW k \in 1..(R + count) PROVE reported'[k] = decided[k]
      <4>1. CASE k \in 1..R
        BY <2>1, <3>1, <4>1
      <4>2. CASE k \notin 1..R
        <5>1. PICK x \in 1..count : k = R + x
          <6>1. k - R \in 1..count /\ k = R + (k - R)
            BY <3>0, <4>2
          <6>2. QED
            BY <6>1
        <5>2. QED
          BY <1>11, <3>0, <3>1, <5>1
      <4>3. QED
        BY <4>1, <4>2
    <3>3. (R + count) + 0 = R + count
      BY <3>1
    <3>4. QED
      BY <2>2, <3>1, <3>2, <3>3
  <2>3. CASE ~Flush(count, i)
    <3>1. reported' = reported /\ count \in Nat
      BY <1>2, <1>5, <2>3
    <3>2. QED
      BY <1>5, <2>1, <2>3, <3>1
  <2>4. QED
    BY <2>2, <2>3
<1>13. Codes' /\ Prefix'
  BY <1>3, <1>5, <1>12 DEF Flow, Codes, Prefix
<1>14. Frames(pos)' /\ Ends(pos[Len(toClient) + 1])'
  BY <1>1, <1>3 DEF Frames, Tells, Ends
<1>15. Begins(pos[1])'
  <2>1. CASE i = l - 1
    <3>1. handling' = Idle /\ Flush(count, i)
      BY <1>2, <1>4, <1>5, <2>1 DEF Flush
    <3>2. pos[1] = S
      BY <1>5, <1>6, <1>12, <2>1, <3>1
    <3>3. QED
      BY <1>12, <3>1, <3>2 DEF Begins
  <2>2. CASE i # l - 1
    <3>1. handling' = [key |-> key, records |-> records, i |-> i + 1, PublishIdCount |-> rest]
      BY <1>2, <1>4, <1>5, <1>12, <2>2
    <3>2. /\ handling'.key = key /\ handling'.records = records /\ handling'.i = i + 1
          /\ handling'.PublishIdCount = rest /\ handling' # Idle
      BY <3>1 DEF Idle, ResultKeys
    <3>3. pos[1] = S + rest + (l - (i + 1))
      <4>1. S + rest = R + c + 1 /\ pos[1] = R + c + (l - i)
        BY <1>5, <1>6, <1>12
      <4>2. QED
        BY <4>1
    <3>4. \A k \in 1..rest : decided[S + k] = ToldBy(key, PublishResultArray'[k - 1])
      <4>1. CASE Flush(count, i)
        BY <1>12, <4>1
      <4>2. CASE ~Flush(count, i)
        BY <1>10, <1>12, <4>2
      <4>3. QED
        BY <4>1, <4>2
    <3>5. ASSUME NEW k \in ((i + 1) + 1)..l
          PROVE  decided[S + rest + (k - (i + 1))] = ToldBy(key, records[k])
      <4>1. k \in (i + 1)..l /\ S + rest + (k - (i + 1)) = R + c + (k - i)
        <5>1. S + rest = R + c + 1 /\ k \in Nat /\ i + 2 <= k /\ k <= l
          BY <1>5, <1>12
        <5>2. QED
          BY <5>1
      <4>2. QED
        BY <1>7, <4>1
    <3>6. Handled(handling, PublishResultArray, Len(reported))'
      BY <1>3, <1>5, <1>12, <3>2, <3>4, <3>5, Zenon DEF Handled
    <3>7. QED
      BY <1>5, <1>12, <3>2, <3>3, <3>6 DEF Begins
  <2>3. QED
    BY <2>1, <2>2
<1>16. QED
  BY <1>13, <1>14, <1>15 DEF Flow

\* The frames that have not arrived are lost, and what is to be sent is not looked at.
LEMMA FlowLose ==
  ASSUME Types, Flow, Lose, UNCHANGED <<client, broker>>
  PROVE  Flow'
<1>1. PICK pos : Frames(pos) /\ Begins(pos[1])
  BY DEF Flow
<1>2. PICK c \in Seq(FromBroker) : c = toClient
  BY DEF Types, Channels
<1>3. PICK n \in 0..Len(c) : toClient' = SubSeq(c, 1, n) /\ link' = "down"
  BY <1>2 DEF Lose
<1>4. PICK l \in Nat : l = Len(c) /\ n \in Nat /\ n <= l
  BY <1>3
<1>5. /\ Len(toClient') = n /\ DOMAIN toClient' = 1..n
      /\ \A j \in 1..n : toClient'[j] = toClient[j]
  BY <1>2, <1>3, <1>4
<1>6. /\ pos \in [1..(l + 1) -> 0..Len(decided)] /\ Len(decided) \in Nat
      /\ \A j \in 1..l : /\ pos[j + 1] = pos[j] + Carries(toClient[j])
                         /\ toClient[j].key \in ResultKeys => Tells(pos[j], toClient[j])
  BY <1>1, <1>2, <1>4, FramesSay
<1> DEFINE new == [j \in 1..(n + 1) |-> pos[j]]
<1>7. new \in [1..(n + 1) -> 0..Len(decided)] /\ \A j \in 1..(n + 1) : new[j] = pos[j]
  BY <1>4, <1>6
<1>8. new[1] = pos[1]
  BY <1>4, <1>7
<1> HIDE DEF new
<1>9. UNCHANGED <<handling, PublishResultArray, reported, decided>>
  BY DEF client, handler, broker
<1>10. ASSUME NEW j \in 1..n
       PROVE  /\ new[j + 1] = new[j] + Carries(toClient'[j])
              /\ toClient'[j].key \in ResultKeys => Tells(new[j], toClient'[j])
  <2>1. j \in 1..l /\ new[j] = pos[j] /\ new[j + 1] = pos[j + 1] /\ toClient'[j] = toClient[j]
    BY <1>4, <1>5, <1>7
  <2>2. QED
    BY <1>6, <2>1
<1>11. Frames(new)'
  BY <1>5, <1>7, <1>9, <1>10, Zenon DEF Frames, Tells
<1>12. Begins(new[1])'
  BY <1>1, <1>8, <1>9 DEF Begins, Handled
<1>13. Ends(new[Len(toClient) + 1])'
  BY <1>3 DEF Ends
<1>14. Codes' /\ Prefix'
  BY <1>9 DEF Flow, Codes, Prefix
<1>15. QED
  BY <1>11, <1>12, <1>13, <1>14 DEF Flow

\* What the broker sends when it answers a request.
LEMMA AnswerFacts ==
  ASSUME Types, BrokerDeclares \/ BrokerDeletes \/ BrokerAnswersQuery
  PROVE  \E key \in Requested, code \in Refusals, arg \in Seq(0..MaxMessages) :
           LET m == Reply(Head(toBroker), code, arg) IN
           /\ Head(toBroker).key = key /\ Head(toBroker) \in FromClient /\ toBroker # << >>
           /\ link = "up" /\ m \in FromBroker /\ m.key = key /\ m.corr = Head(toBroker).corr
           /\ key = "QueryPublisherSequence" => arg = <<Max(stored \cup {0})>>
           /\ toClient' = Append(toClient, m) /\ BrokerTakes
           /\ UNCHANGED <<client, stored, pending, decided>>
<1>1. ASSUME NEW key \in Requested, BrokerSees(key), BrokerTakes,
             NEW code \in Refusals, NEW arg \in Seq(0..MaxMessages),
             key = "QueryPublisherSequence" => Len(arg) = 1 /\ arg = <<Max(stored \cup {0})>>,
             BrokerSends(<<Reply(Head(toBroker), code, arg)>>),
             UNCHANGED <<client, stored, pending, decided>>
      PROVE  LET m == Reply(Head(toBroker), code, arg) IN
             /\ Head(toBroker).key = key /\ Head(toBroker) \in FromClient /\ toBroker # << >>
             /\ link = "up" /\ m \in FromBroker /\ m.key = key /\ m.corr = Head(toBroker).corr
             /\ key = "QueryPublisherSequence" => arg = <<Max(stored \cup {0})>>
             /\ toClient' = Append(toClient, m) /\ BrokerTakes
             /\ UNCHANGED <<client, stored, pending, decided>>
  <2> DEFINE m == Reply(Head(toBroker), code, arg)
  <2>1. Head(toBroker) \in FromClient /\ Head(toBroker).key = key /\ toBroker # << >> /\ link = "up"
    BY <1>1 DEF BrokerSees, Types, Channels
  <2>2. m \in FromBroker
    BY <1>1, <2>1, ReplyTypes
  <2>3. m.key = key /\ m.corr = Head(toBroker).corr
    BY <2>1 DEF Reply, Message
  <2>4. toClient' = toClient \o <<m>>
    BY <1>1, Zenon DEF BrokerSends
  <2> HIDE DEF m
  <2>5. toClient' = Append(toClient, m)
    BY <2>2, <2>4 DEF Types, Channels
  <2>6. QED
    BY <1>1, <2>1, <2>2, <2>3, <2>5 DEF m
<1>2. << >> \in Seq(0..MaxMessages)
  OBVIOUS
<1>3. CASE BrokerDeclares
  <2>1. PICK code \in Refusals : BrokerSends(<<Reply(Head(toBroker), code, << >>)>>)
    BY <1>3 DEF BrokerDeclares, Refusals
  <2>2. /\ "DeclarePublisher" \in Requested /\ BrokerSees("DeclarePublisher") /\ BrokerTakes
        /\ UNCHANGED <<client, stored, pending, decided>>
    BY <1>3 DEF BrokerDeclares, Requested
  <2>3. QED
    BY <1>1, <1>2, <2>1, <2>2
<1>4. CASE BrokerDeletes
  <2>1. PICK code \in Refusals : BrokerSends(<<Reply(Head(toBroker), code, << >>)>>)
    BY <1>4 DEF BrokerDeletes, Refusals
  <2>2. /\ "DeletePublisher" \in Requested /\ BrokerSees("DeletePublisher") /\ BrokerTakes
        /\ UNCHANGED <<client, stored, pending, decided>>
    BY <1>4 DEF BrokerDeletes, Requested
  <2>3. QED
    BY <1>1, <1>2, <2>1, <2>2
<1>5. CASE BrokerAnswersQuery
  <2>1. PICK last \in 0..MaxMessages : last = Max(stored \cup {0})
    BY LastStored
  <2>2. PICK arg \in Seq(0..MaxMessages) : arg = <<last>> /\ Len(arg) = 1
    <3>1. <<last>> \in Seq(0..MaxMessages) /\ Len(<<last>>) = 1
      OBVIOUS
    <3>2. QED
      BY <3>1
  <2>3. /\ "QueryPublisherSequence" \in Requested /\ "OK" \in Refusals
        /\ BrokerSees("QueryPublisherSequence") /\ BrokerTakes
        /\ UNCHANGED <<client, stored, pending, decided>>
        /\ BrokerSends(<<Reply(Head(toBroker), "OK", arg)>>)
    BY <1>5, <2>1, <2>2 DEF BrokerAnswersQuery, Requested, Refusals, broker
  <2>4. QED
    BY <1>1, <2>1, <2>2, <2>3
<1>6. QED
  BY <1>3, <1>4, <1>5

LEMMA NextFlow ==
  ASSUME Types, Flow, [Next]_vars
  PROVE  Flow'
<1>1. CASE \/ PollThread \/ DeclarePublisher \/ DeletePublisher \/ QueryPublisherSequence
           \/ RequestGiveUp \/ Routine \/ UNCHANGED vars
  <2>1. UNCHANGED <<toClient, handler, pending, decided, link>>
    BY <1>1 DEF PollThread, DeclarePublisher, DeletePublisher, QueryPublisherSequence,
                PublisherRequest, Request, RequestGiveUp, GiveUp, Routine, vars, connection,
                client, broker
  <2>2. QED
    BY <2>1, FlowUnchanged
<1>2. ASSUME NEW n \in BatchSize, Publish(n) PROVE Flow'
  BY <1>2, FlowUnchanged DEF Publish, broker
<1>3. CASE PublisherResponse \/ QueryResponse \/ SkipFrame \/ PollDrops
  <2>1. /\ UNCHANGED <<handler, pending, decided, link>> /\ Arrived /\ Take
        /\ Matches(Head(toClient)) \/ ~IsPush(Head(toClient))
    BY <1>3 DEF PublisherResponse, QueryResponse, Response, Misread, IsShort, IsPush, SkipFrame,
                Skip, PollDrops, client, broker
  <2>2. Head(toClient).key \notin ResultKeys
    BY <2>1 DEF Matches, HasCorrelationId, IsPush, ResultKeys
  <2>3. QED
    BY <2>1, <2>2, FlowTakesOther
<1>4. CASE BrokerDeclares \/ BrokerDeletes \/ BrokerAnswersQuery
  <2>1. PICK key \in Requested, code \in Refusals, arg \in Seq(0..MaxMessages) :
          LET m == Reply(Head(toBroker), code, arg) IN
          /\ m \in FromBroker /\ m.key = key /\ toClient' = Append(toClient, m) /\ BrokerTakes
          /\ UNCHANGED <<client, stored, pending, decided>>
    BY <1>4, AnswerFacts
  <2>2. key \notin ResultKeys /\ UNCHANGED <<handler, pending, decided, link>>
    BY <2>1 DEF Requested, ResultKeys, client, BrokerTakes
  <2>3. QED
    BY <2>1, <2>2, FlowReplies
<1>5. CASE Heartbeat
  <2>1. PICK m \in Heartbeats :
          /\ toClient' = Append(toClient, m)
          /\ UNCHANGED <<handler, pending, decided, link>>
    BY <1>5, HeartbeatFacts DEF client, broker
  <2>2. m \in FromBroker /\ m.key \notin ResultKeys
    BY DEF FromBroker, Heartbeats, ResultKeys
  <2>3. QED
    BY <2>1, <2>2, FlowReplies
<1>6. QED
  BY <1>1, <1>2, <1>3, <1>4, <1>5, FlowHandle, FlowResult, FlowStores, FlowReports, FlowLose
     DEF Next, Application, Poll, BrokerAnswers

LEMMA FlowHolds == Spec => [](Types /\ Flow)
<1>1. Init => Types /\ Flow
  BY InitTypes, InitFlow
<1>2. (Types /\ Flow) /\ [Next]_vars => (Types /\ Flow)'
  BY NextTypes, NextFlow
<1>3. QED
  BY <1>1, <1>2, PTL DEF Spec

\* The callback gets the results of the broker, in order, once and each with its own
\* code, however the frames and the array cut them.
THEOREM ResultsReported == Spec => []ReportedAsDecided
<1>1. Types /\ Flow => ReportedAsDecided
  BY FlowSays
<1>2. QED
  BY <1>1, FlowHolds, PTL

\* Between two frames the array holds nothing back: every result is with the callback,
\* on the connection or still to be sent.
THEOREM ResultsComplete == Spec => []NothingHeldBack
<1>1. Types /\ Flow => NothingHeldBack
  BY FlowSays
<1>2. QED
  BY <1>1, FlowHolds, PTL

(***************************************************************************)
(* The query of the sequence.  No message is published while a request     *)
(* waits, so none is behind the request on its way to the broker, and none *)
(* is stored once it is answered.  A late answer has an older correlation  *)
(* id and is not taken for this one.                                       *)
(***************************************************************************)

Correlated ==
    /\ \A j \in DOMAIN toBroker : toBroker[j].corr <= CorrelationId
    /\ \A j \in DOMAIN toClient : toClient[j].corr <= CorrelationId

NoneBehind ==
    \A j, k \in DOMAIN toBroker :
        toBroker[j].corr = call.corr /\ j < k => toBroker[k].key # "Publish"

NonePublished == \A k \in DOMAIN toBroker : toBroker[k].key # "Publish"

LastOfAll == Max(stored \cup {0})

TrueAnswers ==
    \A j \in DOMAIN toClient :
        toClient[j].corr = call.corr =>
            /\ NonePublished
            /\ toClient[j].key = "QueryPublisherSequence" => toClient[j].arg = <<LastOfAll>>

Asking ==
    call # NoCall =>
        /\ call.key = "QueryPublisherSequence" => asked = published
        /\ NoneBehind /\ TrueAnswers

\* What is stored later was published later.
Answered ==
    queried.answered =>
        /\ queried.Sequence = Max({0} \cup {id \in stored : id <= asked})
        /\ \A j \in DOMAIN toBroker : toBroker[j].key = "Publish" =>
             \A k \in DOMAIN toBroker[j].arg : toBroker[j].arg[k] > asked

Query == Correlated /\ Asking /\ Answered

LEMMA QuerySays == Query => SequenceIsStored
BY DEF Query, Answered, SequenceIsStored

LEMMA InitQuery == Init => Query
BY DEF Init, ConnectionInit, NotQueried, Query, Correlated, Asking, Answered

\* A step that leaves the frames and the query alone; a request may end.
LEMMA QueryUnchanged ==
  ASSUME Query, UNCHANGED <<toBroker, toClient, stored, published, asked, queried>>,
         UNCHANGED CorrelationId, call' = call \/ call' = NoCall
  PROVE  Query'
BY DEF Query, Correlated, Asking, NoneBehind, NonePublished, LastOfAll, TrueAnswers, Answered

\* The client takes a frame.
LEMMA QueryTakes ==
  ASSUME Types, Query, Arrived, Take, UNCHANGED <<toBroker, stored, published, asked, queried>>,
         UNCHANGED CorrelationId, call' = call \/ call' = NoCall
  PROVE  Query'
<1>1. \A j \in DOMAIN toClient' : j + 1 \in DOMAIN toClient /\ toClient'[j] = toClient[j + 1]
  BY TailFacts DEF Types, Channels, Arrived, Take
<1>2. Correlated' /\ Answered'
  BY <1>1 DEF Query, Correlated, Answered
<1>3. ASSUME call' # NoCall PROVE TrueAnswers'
  BY <1>1, <1>3 DEF Query, Asking, TrueAnswers, NonePublished, LastOfAll
<1>4. Asking'
  BY <1>3 DEF Query, Asking, NoneBehind
<1>5. QED
  BY <1>2, <1>4 DEF Query

LEMMA QueryEnds ==
  ASSUME Types, Query, QueryResponse
  PROVE  Query'
<1>1. /\ call # NoCall /\ call.key = "QueryPublisherSequence" /\ Arrived /\ Take
      /\ Good(Head(toClient)) => Head(toClient).corr = call.corr
      /\ call' = NoCall
      /\ UNCHANGED <<toBroker, stored, published, asked, CorrelationId>>
  BY DEF QueryResponse, Waits, Response, Matches, Misread, IsShort, Good, broker
<1>2. CASE ~Good(Head(toClient))
  BY <1>1, <1>2, QueryTakes DEF QueryResponse
<1>3. CASE Good(Head(toClient))
  <2>1. 1 \in DOMAIN toClient /\ Head(toClient) = toClient[1]
        /\ \A j \in DOMAIN toClient' : j + 1 \in DOMAIN toClient /\ toClient'[j] = toClient[j + 1]
    BY <1>1, TailFacts DEF Types, Channels, Arrived, Take
  <2>2. NonePublished /\ Head(toClient).arg = <<LastOfAll>> /\ asked = published
    BY <1>1, <1>3, <2>1 DEF Query, Asking, TrueAnswers, Good
  <2>3. queried' = [Sequence |-> LastOfAll, answered |-> TRUE]
    <3>1. queried' = [Sequence |-> Head(toClient).arg[1], answered |-> TRUE]
      BY <1>3, Zenon DEF QueryResponse
    <3>2. Head(toClient).arg[1] = LastOfAll
      BY <2>2
    <3>3. QED
      BY <3>1, <3>2, Zenon
  <2>4. stored \cup {0} = {0} \cup {id \in stored : id <= asked}
    <3>1. stored \subseteq 1..published /\ published \in Nat
      BY PublisherAssumption DEF Types, Store, Numbers
    <3>2. \A id \in stored : id <= asked
      BY <2>2, <3>1
    <3>3. QED
      BY <3>2, Zenon
  <2>5. Answered'
    BY <1>1, <2>2, <2>3, <2>4 DEF Answered, NonePublished, LastOfAll
  <2>6. Correlated' /\ Asking'
    BY <1>1, <2>1 DEF Query, Correlated, Asking
  <2>7. QED
    BY <2>5, <2>6 DEF Query
<1>4. QED
  BY <1>2, <1>3

\* A request is sent: its id is new.
LEMMA QueryRequests ==
  ASSUME Types, Query, DeclarePublisher \/ DeletePublisher \/ QueryPublisherSequence
  PROVE  Query'
<1>1. PICK key \in Requested : PublisherRequest(key, << >>)
  BY DEF DeclarePublisher, DeletePublisher, QueryPublisherSequence, Requested
<1>2. PICK new \in Nat \ {0} : new = CorrelationId + 1
  BY RequestsAssumption DEF Types, Channels
<1> DEFINE m == Message(key, new, "none", << >>)
<1>3. /\ CorrelationId' = new /\ call' = [key |-> key, corr |-> new, arg |-> << >>]
      /\ toBroker' = toBroker \/ toBroker' = Append(toBroker, m)
      /\ UNCHANGED <<toClient, stored, published>>
      /\ \/ UNCHANGED <<asked, queried>> /\ key # "QueryPublisherSequence"
         \/ asked' = published /\ queried' = NotQueried
  <2>1. toBroker' = toBroker \/ toBroker' = Append(toBroker, m)
    BY <1>1, <1>2, RequestTypes DEF Types
  <2>2. UNCHANGED <<stored, published>>
    BY DEF DeclarePublisher, DeletePublisher, QueryPublisherSequence, client, broker
  <2>3. \/ UNCHANGED <<asked, queried>> /\ key # "QueryPublisherSequence"
        \/ asked' = published /\ queried' = NotQueried
    <3>1. CASE QueryPublisherSequence
      BY <3>1 DEF QueryPublisherSequence
    <3>2. CASE DeclarePublisher \/ DeletePublisher
      <4>1. call'.key # "QueryPublisherSequence"
        BY <3>2 DEF DeclarePublisher, DeletePublisher, PublisherRequest, Request
      <4>2. call'.key = key
        BY <1>1 DEF PublisherRequest, Request
      <4>3. QED
        BY <3>2, <4>1, <4>2 DEF DeclarePublisher, DeletePublisher, client
    <3>3. QED
      BY <3>1, <3>2
  <2>4. QED
    BY <1>1, <1>2, <2>1, <2>2, <2>3 DEF PublisherRequest, Request
<1>4. /\ \A j \in DOMAIN toBroker : toBroker[j].corr <= new /\ toBroker[j].corr # new
      /\ \A j \in DOMAIN toClient : toClient[j].corr <= new /\ toClient[j].corr # new
  <2>1. \A j \in DOMAIN toBroker : toBroker[j].corr \in Nat
    <3>1. ASSUME NEW j \in DOMAIN toBroker PROVE toBroker[j].corr \in Nat
      <4>1. toBroker[j] \in FromClient
        BY ElementOf DEF Types, Channels
      <4>2. QED
        BY <4>1 DEF FromClient
    <3>2. QED
      BY <3>1
  <2>2. \A j \in DOMAIN toClient : toClient[j].corr \in Nat
    <3>1. ASSUME NEW j \in DOMAIN toClient PROVE toClient[j].corr \in Nat
      <4>1. toClient[j] \in FromBroker
        BY ElementOf DEF Types, Channels
      <4>2. QED
        BY <4>1 DEF FromBroker, Heartbeats, Replies, ResultFrames
    <3>2. QED
      BY <3>1
  <2>3. CorrelationId \in Nat
    BY RequestsAssumption DEF Types, Channels
  <2>4. QED
    BY <1>2, <2>1, <2>2, <2>3 DEF Query, Correlated
<1>5. PICK n \in Nat :
        /\ DOMAIN toBroker = 1..n
        /\ \A j \in DOMAIN toBroker' : \/ j \in 1..n /\ toBroker'[j] = toBroker[j]
                                       \/ j = n + 1 /\ toBroker'[j] = m
  <2>1. PICK b \in Seq(FromClient) : b = toBroker
    BY DEF Types, Channels
  <2>2. PICK c : c = toBroker' /\ (c = b \/ c = Append(b, m))
    BY <1>3, <2>1
  <2>3. QED
    BY <2>1, <2>2, GrownBy
<1>6. m.corr = new /\ m.key = key /\ key # "Publish" /\ m.arg = << >>
  BY DEF Message, Requested
<1> HIDE DEF m
<1>7. Correlated'
  <2>1. \A j \in DOMAIN toBroker' : toBroker'[j].corr <= new
    BY <1>4, <1>5, <1>6
  <2>2. QED
    BY <1>3, <1>4, <2>1 DEF Correlated
<1>8. Asking'
  <2>1. call'.corr = new /\ call'.key = key
    BY <1>3
  <2>2. \A j, k \in DOMAIN toBroker' : toBroker'[j].corr = new => ~(j < k)
    BY <1>4, <1>5, <1>6
  <2>3. NoneBehind'
    BY <2>1, <2>2 DEF NoneBehind
  <2>4. TrueAnswers'
    BY <1>3, <1>4, <2>1 DEF TrueAnswers
  <2>5. key = "QueryPublisherSequence" => asked' = published'
    BY <1>3
  <2>6. QED
    BY <2>1, <2>3, <2>4, <2>5 DEF Asking
<1>9. Answered'
  <2>1. CASE queried' = NotQueried
    BY <2>1 DEF Answered, NotQueried
  <2>2. CASE UNCHANGED <<asked, queried>>
    BY <1>3, <1>5, <1>6, <2>2 DEF Query, Answered
  <2>3. QED
    BY <1>3, <2>1, <2>2
<1>10. QED
  BY <1>7, <1>8, <1>9 DEF Query

\* Messages are published, while no request waits, with ids beyond those asked for.
LEMMA QueryPublishes ==
  ASSUME Types, Query, NEW n \in BatchSize, Publish(n)
  PROVE  Query'
<1> DEFINE ids == [k \in 1..n |-> published + k]
           m == Push("Publish", ids)
<1>1. /\ call = NoCall /\ call' = call /\ UNCHANGED <<toClient, CorrelationId, asked, queried, stored>>
      /\ toBroker' = toBroker \/ toBroker' = toBroker \o <<m>>
  BY DEF Publish, Sent, broker
<1>2. /\ published \in Nat /\ asked \in Nat /\ asked <= published /\ n \in Nat
      /\ CorrelationId \in Nat
  BY PublisherAssumption, RequestsAssumption DEF Types, Numbers, Channels
<1>3. m.corr = 0 /\ m.arg = ids /\ \A k \in DOMAIN ids : ids[k] > asked
  BY <1>2 DEF Push, Message
<1> HIDE DEF m, ids
<1>4. PICK s \in Nat :
        /\ DOMAIN toBroker = 1..s
        /\ \A j \in DOMAIN toBroker' : \/ j \in 1..s /\ toBroker'[j] = toBroker[j]
                                       \/ j = s + 1 /\ toBroker'[j] = m
  <2>1. PICK b \in Seq(FromClient) : b = toBroker
    BY DEF Types, Channels
  <2>2. PICK c : c = toBroker' /\ (c = b \/ c = Append(b, m))
    BY <1>1, <2>1
  <2>3. QED
    BY <2>1, <2>2, GrownBy
<1>5. Correlated'
  BY <1>1, <1>2, <1>3, <1>4 DEF Query, Correlated
<1>6. Asking'
  BY <1>1 DEF Asking
<1>7. Answered'
  <2>1. SUFFICES ASSUME queried.answered
                 PROVE  \A j \in DOMAIN toBroker' : toBroker'[j].key = "Publish" =>
                          \A k \in DOMAIN toBroker'[j].arg : toBroker'[j].arg[k] > asked
    BY <1>1 DEF Query, Answered
  <2>2. \A j \in DOMAIN toBroker : toBroker[j].key = "Publish" =>
           \A k \in DOMAIN toBroker[j].arg : toBroker[j].arg[k] > asked
    BY <2>1 DEF Query, Answered
  <2>3. QED
    BY <1>3, <1>4, <2>2
<1>8. QED
  BY <1>5, <1>6, <1>7 DEF Query

\* What the broker leaves when it takes the first frame.
LEMMA BrokerRest ==
  ASSUME Types, Query, toBroker # << >>, BrokerTakes
  PROVE  /\ 1 \in DOMAIN toBroker /\ Head(toBroker) = toBroker[1]
         /\ \A j \in DOMAIN toBroker' : /\ j + 1 \in DOMAIN toBroker /\ j \in Nat \ {0}
                                        /\ toBroker'[j] = toBroker[j + 1]
         /\ \A j \in DOMAIN toBroker' : toBroker'[j].corr <= CorrelationId
         /\ (NoneBehind /\ toBroker[1].corr = call.corr => NonePublished')
         /\ (NoneBehind => NoneBehind') /\ (NonePublished => NonePublished')
<1>1. /\ 1 \in DOMAIN toBroker /\ Head(toBroker) = toBroker[1]
      /\ \A j \in DOMAIN toBroker' : /\ j + 1 \in DOMAIN toBroker /\ j \in Nat \ {0}
                                     /\ toBroker'[j] = toBroker[j + 1]
  BY TailFacts DEF Types, Channels, BrokerTakes
<1>2. \A j \in DOMAIN toBroker' : toBroker'[j].corr <= CorrelationId
  BY <1>1 DEF Query, Correlated
<1>3. ASSUME NoneBehind, toBroker[1].corr = call.corr PROVE NonePublished'
  <2>1. ASSUME NEW j \in DOMAIN toBroker' PROVE toBroker'[j].key # "Publish"
    <3>1. j + 1 \in DOMAIN toBroker /\ 1 < j + 1 /\ toBroker'[j] = toBroker[j + 1]
      BY <1>1
    <3>2. QED
      BY <1>1, <1>3, <3>1 DEF NoneBehind
  <2>2. QED
    BY <2>1 DEF NonePublished
<1>4. NoneBehind => NoneBehind'
  <2>1. ASSUME NoneBehind, NEW j \in DOMAIN toBroker', NEW k \in DOMAIN toBroker',
               toBroker'[j].corr = call.corr, j < k
        PROVE  toBroker'[k].key # "Publish"
    <3>1. /\ j + 1 \in DOMAIN toBroker /\ k + 1 \in DOMAIN toBroker /\ j + 1 < k + 1
          /\ toBroker'[j] = toBroker[j + 1] /\ toBroker'[k] = toBroker[k + 1]
      BY <1>1, <2>1
    <3>2. QED
      BY <2>1, <3>1 DEF NoneBehind
  <2>2. QED
    BY <2>1 DEF NoneBehind, BrokerTakes
<1>5. NonePublished => NonePublished'
  BY <1>1 DEF NonePublished
<1>6. QED
  BY <1>1, <1>2, <1>3, <1>4, <1>5

\* A request is answered: no message is behind it, so none is stored from now on.
LEMMA QueryAnswers ==
  ASSUME Types, Query, BrokerDeclares \/ BrokerDeletes \/ BrokerAnswersQuery
  PROVE  Query'
<1>1. PICK key \in Requested, code \in Refusals, arg \in Seq(0..MaxMessages) :
        LET m == Reply(Head(toBroker), code, arg) IN
        /\ Head(toBroker).key = key /\ toBroker # << >>
        /\ m \in FromBroker /\ m.key = key /\ m.corr = Head(toBroker).corr
        /\ key = "QueryPublisherSequence" => arg = <<Max(stored \cup {0})>>
        /\ toClient' = Append(toClient, m) /\ BrokerTakes
        /\ UNCHANGED <<client, stored, pending, decided>>
  BY AnswerFacts
<1>2. PICK m \in FromBroker : m = Reply(Head(toBroker), code, arg)
  BY <1>1
<1>3. m.arg = arg /\ m.key = key /\ m.corr = Head(toBroker).corr
  BY <1>1, <1>2 DEF Reply, Message
<1>4. PICK n \in Nat :
        /\ DOMAIN toClient = 1..n
        /\ \A j \in DOMAIN toClient' : \/ j \in 1..n /\ toClient'[j] = toClient[j]
                                       \/ j = n + 1 /\ toClient'[j] = m
  <2>1. PICK b \in Seq(FromBroker) : b = toClient
    BY DEF Types, Channels
  <2>2. PICK c : c = toClient' /\ (c = b \/ c = Append(b, m))
    BY <1>1, <1>2, <2>1
  <2>3. QED
    BY <2>1, <2>2, GrownBy
<1>5. /\ 1 \in DOMAIN toBroker /\ Head(toBroker) = toBroker[1]
      /\ \A j \in DOMAIN toBroker' : j + 1 \in DOMAIN toBroker /\ toBroker'[j] = toBroker[j + 1]
      /\ \A j \in DOMAIN toBroker' : toBroker'[j].corr <= CorrelationId
      /\ (NoneBehind /\ toBroker[1].corr = call.corr => NonePublished')
      /\ (NoneBehind => NoneBehind') /\ (NonePublished => NonePublished')
  BY <1>1, BrokerRest
<1>6. UNCHANGED <<CorrelationId, call, published, asked, queried, stored>>
  BY <1>1 DEF BrokerTakes, client
<1>7. Correlated'
  <2>1. m.corr <= CorrelationId
    BY <1>3, <1>5 DEF Query, Correlated
  <2>2. QED
    BY <1>4, <1>5, <1>6, <2>1 DEF Query, Correlated
<1>8. Asking'
  <2>1. SUFFICES ASSUME call # NoCall PROVE Asking'
    BY <1>6 DEF Asking
  <2>2. NoneBehind /\ TrueAnswers /\ (call.key = "QueryPublisherSequence" => asked = published)
    BY <2>1 DEF Query, Asking
  <2>3. ASSUME NEW j \in DOMAIN toClient', toClient'[j].corr = call.corr
        PROVE  /\ NonePublished'
               /\ toClient'[j].key = "QueryPublisherSequence" => toClient'[j].arg = <<LastOfAll>>
    <3>1. CASE j \in 1..n /\ toClient'[j] = toClient[j]
      BY <1>4, <1>5, <2>2, <2>3, <3>1 DEF TrueAnswers
    <3>2. CASE toClient'[j] = m
      BY <1>1, <1>3, <1>5, <2>1, <2>2, <2>3, <3>2 DEF LastOfAll
    <3>3. QED
      BY <1>4, <3>1, <3>2
  <2>4. TrueAnswers'
    BY <1>6, <2>3 DEF TrueAnswers, LastOfAll
  <2>5. QED
    BY <1>5, <1>6, <2>2, <2>4 DEF Asking
<1>9. Answered'
  BY <1>5, <1>6 DEF Query, Answered
<1>10. QED
  BY <1>7, <1>8, <1>9 DEF Query

\* Messages are stored: not while an answer is on its way, and all beyond what a query
\* that was answered asked for.
LEMMA QueryStores ==
  ASSUME Types, Query, BrokerStores
  PROVE  Query'
<1> DEFINE ids == Head(toBroker).arg
<1>1. /\ toBroker # << >> /\ Head(toBroker).key = "Publish" /\ BrokerTakes
      /\ stored' = IF declared THEN stored \cup ToSet(ids) ELSE stored
      /\ UNCHANGED <<toClient, client>>
  BY StoreFacts
<1>2. /\ 1 \in DOMAIN toBroker /\ Head(toBroker) = toBroker[1]
      /\ \A j \in DOMAIN toBroker' : j + 1 \in DOMAIN toBroker /\ toBroker'[j] = toBroker[j + 1]
      /\ \A j \in DOMAIN toBroker' : toBroker'[j].corr <= CorrelationId
      /\ NoneBehind => NoneBehind'
  BY <1>1, BrokerRest
<1>3. UNCHANGED <<CorrelationId, call, published, asked, queried>>
  BY <1>1 DEF BrokerTakes, client
<1>4. Correlated'
  BY <1>1, <1>2, <1>3 DEF Query, Correlated
<1>5. ~NonePublished
  BY <1>1, <1>2 DEF NonePublished
<1>6. Asking'
  BY <1>1, <1>2, <1>3, <1>5 DEF Query, Asking, TrueAnswers
<1>7. Answered'
  <2>1. SUFFICES ASSUME queried.answered PROVE Answered'
    BY <1>3 DEF Answered
  <2>2. \A k \in DOMAIN ids : ids[k] > asked
    BY <1>1, <1>2, <2>1 DEF Query, Answered
  <2>3. \A k \in DOMAIN ids : ~(ids[k] <= asked)
    <3>1. /\ ids \in Seq(1..MaxMessages) /\ asked \in Nat
      BY StoreFacts, PublisherAssumption DEF Types, Numbers
    <3> HIDE DEF ids
    <3>2. ASSUME NEW k \in DOMAIN ids PROVE ~(ids[k] <= asked)
      <4>1. ids[k] \in 1..MaxMessages /\ ids[k] > asked
        BY <2>2, <3>1, ElementOf
      <4>2. QED
        BY <3>1, <4>1, PublisherAssumption
    <3>3. QED
      BY <3>2
  <2>4. {id \in stored' : id <= asked} = {id \in stored : id <= asked}
    <3> HIDE DEF ids
    <3>1. \A id \in ToSet(ids) : ~(id <= asked)
      BY <2>3 DEF ToSet
    <3>2. QED
      BY <1>1, <3>1
  <2>5. \A j \in DOMAIN toBroker' : toBroker'[j].key = "Publish" =>
           \A k \in DOMAIN toBroker'[j].arg : toBroker'[j].arg[k] > asked
    BY <1>2, <2>1 DEF Query, Answered
  <2>6. QED
    BY <1>3, <2>1, <2>4, <2>5 DEF Query, Answered
<1>8. QED
  BY <1>4, <1>6, <1>7 DEF Query

\* A frame of results, or a heartbeat, has no correlation id of a request.
LEMMA QueryReports ==
  ASSUME Types, Query, Heartbeat \/ \E n \in 1..MaxMessages : BrokerReports(n)
  PROVE  Query'
<1>1. PICK m \in ResultFrames \cup Heartbeats :
        /\ toClient' = Append(toClient, m)
        /\ UNCHANGED <<toBroker, CorrelationId, call, client, stored>>
  BY ReportFacts, HeartbeatFacts DEF broker
<1>2. PICK l \in Nat :
        /\ DOMAIN toClient = 1..l
        /\ \A j \in DOMAIN toClient' : \/ j \in 1..l /\ toClient'[j] = toClient[j]
                                       \/ j = l + 1 /\ toClient'[j] = m
  <2>1. PICK b \in Seq(FromBroker) : b = toClient
    BY DEF Types, Channels
  <2>2. PICK c : c = toClient' /\ (c = b \/ c = Append(b, m))
    BY <1>1, <2>1
  <2>3. m \in FromBroker
    BY DEF FromBroker
  <2>4. QED
    BY <2>1, <2>2, <2>3, GrownBy
<1>3. m.corr = 0 /\ CorrelationId \in Nat /\ (call # NoCall => call.corr # 0)
  BY RequestsAssumption DEF ResultFrames, Heartbeats, Types, Channels
<1>4. UNCHANGED <<published, asked, queried>>
  BY <1>1 DEF client
<1>5. Correlated'
  BY <1>1, <1>2, <1>3 DEF Query, Correlated
<1>6. ASSUME call # NoCall PROVE TrueAnswers'
  <2>1. TrueAnswers
    BY <1>6 DEF Query, Asking
  <2>2. QED
    BY <1>1, <1>2, <1>3, <1>6, <2>1 DEF TrueAnswers, NonePublished, LastOfAll
<1>7. Asking'
  BY <1>1, <1>4, <1>6 DEF Query, Asking, NoneBehind
<1>8. Answered'
  BY <1>1, <1>4 DEF Query, Answered
<1>9. QED
  BY <1>5, <1>7, <1>8 DEF Query

LEMMA QueryLoses ==
  ASSUME Types, Query, Lose, UNCHANGED <<client, broker>>
  PROVE  Query'
<1>1. PICK c \in Seq(FromBroker) : c = toClient
  BY DEF Types, Channels
<1>2. PICK n \in 0..Len(c) : toClient' = SubSeq(c, 1, n)
  BY <1>1 DEF Lose
<1>3. \A j \in DOMAIN toClient' : j \in DOMAIN toClient /\ toClient'[j] = toClient[j]
  BY <1>1, <1>2
<1>4. /\ DOMAIN toBroker' = {}
      /\ UNCHANGED <<CorrelationId, call, published, asked, queried, stored>>
  BY DEF Lose, client, broker
<1>5. Correlated' /\ Answered'
  BY <1>3, <1>4 DEF Query, Correlated, Answered
<1>6. Asking'
  BY <1>3, <1>4 DEF Query, Asking, NoneBehind, TrueAnswers, NonePublished, LastOfAll
<1>7. QED
  BY <1>5, <1>6 DEF Query

LEMMA NextQuery ==
  ASSUME Types, Query, [Next]_vars
  PROVE  Query'
<1>1. CASE PollThread \/ RequestGiveUp \/ Routine \/ PublishResult \/ UNCHANGED vars
  <2>1. /\ UNCHANGED <<toBroker, toClient, stored, published, asked, queried>>
        /\ UNCHANGED CorrelationId /\ (call' = call \/ call' = NoCall)
    BY <1>1 DEF PollThread, RequestGiveUp, GiveUp, Routine, PublishResult, vars, connection,
                client, broker
  <2>2. QED
    BY <2>1, QueryUnchanged
<1>2. CASE PublisherResponse \/ SkipFrame \/ PollDrops \/ HandlePublishResult
  <2>1. /\ Arrived /\ Take /\ UNCHANGED <<toBroker, stored, published, asked, queried>>
        /\ UNCHANGED CorrelationId /\ (call' = call \/ call' = NoCall)
    BY <1>2 DEF PublisherResponse, Response, SkipFrame, Skip, PollDrops, HandlePublishResult,
                Reads, client, broker
  <2>2. QED
    BY <2>1, QueryTakes
<1>3. QED
  BY <1>1, <1>2, QueryEnds, QueryRequests, QueryPublishes, QueryAnswers, QueryStores,
     QueryReports, QueryLoses
     DEF Next, Application, Poll, BrokerAnswers

\* rmqsQueryPublisherSequence returns the last message stored of those published before
\* the call, whatever arrives while it waits and whatever became of earlier queries.
THEOREM SequenceHolds == Spec => []SequenceIsStored
<1>1. Init => Types /\ Query
  BY InitTypes, InitQuery
<1>2. (Types /\ Query) /\ [Next]_vars => (Types /\ Query)'
  BY NextTypes, NextQuery
<1>3. Types /\ Query => SequenceIsStored
  BY QuerySays
<1>4. QED
  BY <1>1, <1>2, <1>3, PTL DEF Spec
=============================================================================
