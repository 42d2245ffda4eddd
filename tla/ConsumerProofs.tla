--------------------------- MODULE ConsumerProofs ---------------------------
(***************************************************************************)
(* The messages of a subscription reach the callback in order, each once;  *)
(* an offset is stored under the stream of its message; a query of the     *)
(* offset returns the last one stored before it; and no credit is lost and *)
(* none appears.  For any streams, chunks of any length and any number of  *)
(* requests, subscriptions and frames on their way.                        *)
(***************************************************************************)
EXTENDS Consumer, SequenceProofs

Name == Stream \cup {""}

Offset == 0..LogLength

Changes == {"Subscribe", "Unsubscribe"}

Asked == Changes \cup {"QueryOffset"}

\* The frames on their way to the broker and to the client.
FromClient ==
    [key : {"Subscribe"}, corr : Nat \ {0}, code : {"none"}, arg : Id \X Stream \X Offset]
    \cup [key : {"Unsubscribe"}, corr : Nat \ {0}, code : {"none"}, arg : {<<i>> : i \in Id}]
    \cup [key : {"QueryOffset"}, corr : Nat \ {0}, code : {"none"}, arg : {<<s>> : s \in Stream}]
    \cup [key : {"Credit"}, corr : {0}, code : {"none"}, arg : Id \X Nat]
    \cup [key : {"StoreOffset"}, corr : {0}, code : {"none"}, arg : Name \X Offset]

Chunks == {a \in Id \X Offset \X Nat \X Stream \X Nat : a[2] + a[3] <= LogLength}

Codes == {"OK", "SubscriptionIDAlreadyExists", "SubscriptionIDDoesNotExist"}

FromBroker ==
    [key : Changes, corr : Nat \ {0}, code : Codes, arg : {<< >>}]
    \cup [key : {"QueryOffset"}, corr : Nat \ {0}, code : {"OK", "NoOffset"},
          arg : {<<o>> : o \in Offset}]
    \cup [key : {"Credit", "Heartbeat"}, corr : {0}, code : {"none"}, arg : {<< >>}]
    \cup [key : {"Deliver"}, corr : {0}, code : {"none"}, arg : Chunks]

LEMMA ClientFrame ==
  ASSUME NEW m \in FromClient
  PROVE  /\ m.key \in Asked \cup {"Credit", "StoreOffset"} /\ m.corr \in Nat
         /\ m.corr = 0 <=> m.key \in {"Credit", "StoreOffset"}
         /\ m.key = "Subscribe" =>
              m.arg[1] \in Id /\ m.arg[2] \in Stream /\ m.arg[3] \in Offset
         /\ m.key = "Unsubscribe" => m.arg[1] \in Id
         /\ m.key = "QueryOffset" => m.arg[1] \in Stream
         /\ m.key = "Credit" => m.arg[1] \in Id /\ m.arg[2] \in Nat
         /\ m.key = "StoreOffset" => m.arg[1] \in Name /\ m.arg[2] \in Offset
<1>1. CASE m \in [key : {"Subscribe"}, corr : Nat \ {0}, code : {"none"},
                  arg : Id \X Stream \X Offset]
  BY <1>1 DEF Asked, Changes
<1>2. CASE m \in [key : {"Unsubscribe"}, corr : Nat \ {0}, code : {"none"},
                  arg : {<<i>> : i \in Id}]
  BY <1>2 DEF Asked, Changes
<1>3. CASE m \in [key : {"QueryOffset"}, corr : Nat \ {0}, code : {"none"},
                  arg : {<<s>> : s \in Stream}]
  BY <1>3 DEF Asked, Changes
<1>4. CASE m \in [key : {"Credit"}, corr : {0}, code : {"none"}, arg : Id \X Nat]
  BY <1>4 DEF Asked, Changes
<1>5. CASE m \in [key : {"StoreOffset"}, corr : {0}, code : {"none"}, arg : Name \X Offset]
  BY <1>5 DEF Asked, Changes
<1>6. QED
  BY <1>1, <1>2, <1>3, <1>4, <1>5 DEF FromClient

LEMMA BrokerFrame ==
  ASSUME NEW m \in FromBroker
  PROVE  /\ m.key \in Asked \cup {"Credit", "Heartbeat", "Deliver"} /\ m.corr \in Nat
         /\ m.corr = 0 <=> m.key \in {"Credit", "Heartbeat", "Deliver"}
         /\ IsShort(m) <=> m.key \in {"Credit", "Heartbeat"}
         /\ IsPush(m) <=> m.key = "Deliver"
         /\ HasCorrelationId(m.key) <=> m.key # "Deliver"
         /\ m.key = "QueryOffset" => m.arg[1] \in Offset
         /\ m.key = "Deliver" =>
              /\ m.arg[1] \in Id /\ m.arg[2] \in Offset /\ m.arg[3] \in Nat
              /\ m.arg[4] \in Stream /\ m.arg[5] \in Nat /\ m.arg[2] + m.arg[3] <= LogLength
              /\ m.arg = <<m.arg[1], m.arg[2], m.arg[3], m.arg[4], m.arg[5]>>
<1> USE DEF IsPush, HasCorrelationId, IsShort
<1>1. CASE m \in [key : Changes, corr : Nat \ {0}, code : Codes, arg : {<< >>}]
  BY <1>1 DEF Asked, Changes
<1>2. CASE m \in [key : {"QueryOffset"}, corr : Nat \ {0}, code : {"OK", "NoOffset"},
                  arg : {<<o>> : o \in Offset}]
  BY <1>2 DEF Asked, Changes
<1>3. CASE m \in [key : {"Credit", "Heartbeat"}, corr : {0}, code : {"none"}, arg : {<< >>}]
  BY <1>3 DEF Asked, Changes
<1>4. CASE m \in [key : {"Deliver"}, corr : {0}, code : {"none"}, arg : Chunks]
  BY <1>4 DEF Asked, Changes, Chunks
<1>5. QED
  BY <1>1, <1>2, <1>3, <1>4 DEF FromBroker

LEMMA Constants ==
  /\ LogLength \in Nat /\ InitialCredit \in Nat /\ DefaultCredit \in Nat
  /\ "" \notin Stream /\ \A o \in Offset : o \in Nat /\ o <= LogLength
<1>1. LogLength \in Nat /\ InitialCredit \in Nat /\ DefaultCredit \in Nat
  BY ConsumerAssumption
<1>2. "" \notin Stream
  BY ConsumerAssumption
<1>3. \A o \in 0..LogLength : o \in Nat /\ o <= LogLength
  BY <1>1
<1>4. QED
  BY <1>1, <1>2, <1>3 DEF Offset

\* What the client and the broker put into their frames.
LEMMA ClientFrames ==
  /\ \A c \in Nat \ {0}, i \in Id, s \in Stream, o \in Offset :
       Message("Subscribe", c, "none", <<i, s, o>>) \in FromClient
  /\ \A c \in Nat \ {0}, i \in Id : Message("Unsubscribe", c, "none", <<i>>) \in FromClient
  /\ \A c \in Nat \ {0}, s \in Stream : Message("QueryOffset", c, "none", <<s>>) \in FromClient
  /\ \A i \in Id, n \in Nat : Push("Credit", <<i, n>>) \in FromClient
  /\ \A s \in Name, o \in Offset : Push("StoreOffset", <<s, o>>) \in FromClient
BY DEF Message, Push, FromClient

LEMMA BrokerFrames ==
  /\ \A m \in FromClient, code \in Codes :
       m.key \in Changes => Reply(m, code, << >>) \in FromBroker
  /\ \A m \in FromClient, o \in Offset, code \in {"OK", "NoOffset"} :
       m.key = "QueryOffset" => Reply(m, code, <<o>>) \in FromBroker
  /\ Push("Credit", << >>) \in FromBroker /\ Push("Heartbeat", << >>) \in FromBroker
  /\ \A i \in Id, o \in Offset, n \in Nat, s \in Stream, e \in Nat :
       o + n <= LogLength => Push("Deliver", <<i, o, n, s, e>>) \in FromBroker
<1>1. ASSUME NEW m \in FromClient, NEW code \in Codes, m.key \in Changes
      PROVE  Reply(m, code, << >>) \in FromBroker
  <2>1. m.corr \in Nat \ {0}
    BY <1>1, ClientFrame DEF Changes
  <2>2. QED
    BY <1>1, <2>1 DEF Reply, Message, FromBroker
<1>2. ASSUME NEW m \in FromClient, NEW o \in Offset, NEW code \in {"OK", "NoOffset"},
             m.key = "QueryOffset"
      PROVE  Reply(m, code, <<o>>) \in FromBroker
  <2>1. m.corr \in Nat \ {0}
    BY <1>2, ClientFrame
  <2>2. QED
    BY <1>2, <2>1 DEF Reply, Message, FromBroker
<1>3. Push("Credit", << >>) \in FromBroker /\ Push("Heartbeat", << >>) \in FromBroker
  BY DEF Push, Message, FromBroker
<1>4. ASSUME NEW i \in Id, NEW o \in Offset, NEW n \in Nat, NEW s \in Stream, NEW e \in Nat,
             o + n <= LogLength
      PROVE  Push("Deliver", <<i, o, n, s, e>>) \in FromBroker
  <2>1. <<i, o, n, s, e>> \in Chunks
    BY <1>4 DEF Chunks
  <2>2. QED
    BY <2>1 DEF Push, Message, FromBroker
<1>5. QED
  BY <1>1, <1>2, <1>3, <1>4

Channels ==
    /\ toBroker \in Seq(FromClient) /\ toClient \in Seq(FromBroker)
    /\ call # NoCall =>
         /\ call.key \in Asked /\ call.corr = CorrelationId /\ CorrelationId > 0
         /\ Message(call.key, call.corr, "none", call.arg) \in FromClient

\* The subscriptions are numbered as they were made; a chunk has the number of its own.
Numbers ==
    /\ \A i \in Id : Subscribed(i) =>
         /\ subscription[i].stream \in Stream /\ subscription[i].number \in 1..Len(made)
         /\ \A j \in Id : subscription[j].number = subscription[i].number => j = i
    /\ \A k \in DOMAIN toClient : toClient[k].key = "Deliver" =>
         /\ toClient[k].arg[5] \in 1..Len(made)
         /\ \A i \in Id : subscription[i].number = toClient[k].arg[5] => toClient[k].arg[1] = i

Types ==
    /\ TypeOK
    /\ made \in Seq(Offset) /\ chunks \in [Id -> Nat] /\ grants \in [Id -> Nat]
    /\ Channels /\ Numbers

LEMMA CallFacts ==
  ASSUME Channels
  PROVE  /\ call # NoCall =>
              /\ call.key \in Asked /\ call.corr \in Nat \ {0}
              /\ call.key = "Subscribe" => call.arg[1] \in Id /\ call.arg[2] \in Stream
              /\ call.key = "Unsubscribe" => call.arg[1] \in Id
              /\ call.key = "QueryOffset" => call.arg[1] \in Stream
         /\ call.key \in Asked => call # NoCall
<1>1. ASSUME call # NoCall
      PROVE  /\ call.key \in Asked /\ call.corr \in Nat \ {0}
             /\ call.key = "Subscribe" => call.arg[1] \in Id /\ call.arg[2] \in Stream
             /\ call.key = "Unsubscribe" => call.arg[1] \in Id
             /\ call.key = "QueryOffset" => call.arg[1] \in Stream
  <2>1. PICK m \in FromClient : m = Message(call.key, call.corr, "none", call.arg)
    BY <1>1 DEF Channels
  <2>2. m.key = call.key /\ m.corr = call.corr /\ m.arg = call.arg
    BY <2>1 DEF Message
  <2>3. call.key \in Asked
    BY <1>1 DEF Channels
  <2>4. call.corr \in Nat \ {0}
    BY <2>2, <2>3, ClientFrame DEF Asked, Changes
  <2>5. QED
    BY <2>2, <2>3, <2>4, ClientFrame
<1>2. "none" \notin Asked /\ NoCall.key = "none"
  BY DEF Asked, Changes, NoCall
<1>3. QED
  BY <1>1, <1>2

-----------------------------------------------------------------------------
(* The steps, without the details the invariants do not need.              *)

Sends(m) ==
    m \in FromClient /\ toBroker' = IF link = "up" THEN Append(toBroker, m) ELSE toBroker

Receives == toClient # << >> /\ Head(toClient) \in FromBroker /\ toClient' = Tail(toClient)

Takes == link = "up" /\ toBroker # << >> /\ Head(toBroker) \in FromClient /\ toBroker' = Tail(toBroker)

Tells(m) == m \in FromBroker /\ toClient' = Append(toClient, m)

NotQueried == [ValidOffset |-> FALSE, Offset |-> 0, answered |-> FALSE]

Asks(key, arg) ==
    LET m == Message(key, CorrelationId + 1, "none", arg) IN
    /\ key \in Asked /\ Sends(m)
    /\ CorrelationId < MaxRequests /\ CorrelationId' = CorrelationId + 1
    /\ call = NoCall /\ call' = [key |-> key, corr |-> CorrelationId + 1, arg |-> arg]
    /\ IF key = "QueryOffset" THEN asked' = stores[arg[1]] /\ queried' = NotQueried
       ELSE UNCHANGED <<asked, queried>>
    /\ UNCHANGED <<toClient, link, SubscriptionStreamTable, passed, doubt, stores, misnamed,
                   broker, chunks, grants>>

\* The request ends without its answer: its time is up, or a short frame is taken for
\* the answer.
GivesUp ==
    /\ call # NoCall /\ call' = NoCall
    /\ toClient' = toClient \/ (Receives /\ IsShort(Head(toClient)))
    /\ doubt' = IF call.key \in Changes THEN [doubt EXCEPT ![call.arg[1]] = "now"] ELSE doubt
    /\ queried' \in {queried, NotQueried}
    /\ UNCHANGED <<toBroker, link, CorrelationId, SubscriptionStreamTable, passed,
                   stores, misnamed, asked, broker, chunks, grants>>

\* The name a good response gives to the id of the call.
NewName(c) == IF c.key = "Subscribe" THEN c.arg[2] ELSE ""

LearnsName ==
    /\ Receives /\ Head(toClient).corr = call.corr
    /\ call.key \in Changes /\ call' = NoCall
    /\ IF Good(Head(toClient))
       THEN /\ SubscriptionStreamTable' =
                 [SubscriptionStreamTable EXCEPT ![call.arg[1]] = NewName(call)]
            /\ doubt' = [doubt EXCEPT ![call.arg[1]] = IF @ = "now" THEN "past" ELSE @]
       ELSE UNCHANGED <<SubscriptionStreamTable, doubt>>
    /\ UNCHANGED <<toBroker, link, CorrelationId, passed, stores, misnamed, asked, queried,
                   broker, chunks, grants>>

LearnsOffset ==
    /\ Receives /\ Head(toClient).corr = call.corr
    /\ call.key = "QueryOffset" /\ call' = NoCall
    /\ queried' = IF Good(Head(toClient))
                  THEN [ValidOffset |-> TRUE, Offset |-> Head(toClient).arg[1], answered |-> TRUE]
                  ELSE [ValidOffset |-> FALSE, Offset |-> 0, answered |->
                          Head(toClient).key = call.key /\ Head(toClient).code = "NoOffset"]
    /\ UNCHANGED <<toBroker, link, CorrelationId, SubscriptionStreamTable, passed, doubt,
                   stores, misnamed, asked, broker, chunks, grants>>

Drops ==
    /\ Receives /\ Head(toClient).key # "Deliver"
    /\ call # NoCall => Head(toClient).corr # call.corr
    /\ UNCHANGED <<toBroker, link, CorrelationId, call, client, broker, chunks, grants>>

Handles(k, i, first, n, stream, number) ==
    LET name == SubscriptionStreamTable[i]
        store == Push("StoreOffset", <<name, first + k - 1>>)
        credit == Push("Credit", <<i, DefaultCredit>>)
    IN  /\ Receives /\ Head(toClient).key = "Deliver"
        /\ Head(toClient).arg = <<i, first, n, stream, number>> /\ k \in 0..n
        /\ credit \in FromClient
        /\ k # 0 => store \in FromClient /\ first + k - 1 \in Offset
        /\ passed' = [passed EXCEPT ![number] = @ \o Offsets(first, n)]
        /\ toBroker' = IF link = "up"
                       THEN Append(IF k = 0 THEN toBroker ELSE Append(toBroker, store), credit)
                       ELSE toBroker
        /\ stores' = IF k # 0 /\ name # "" /\ link = "up"
                     THEN [stores EXCEPT ![name] = first + k - 1] ELSE stores
        /\ misnamed' = (misnamed \/ (k # 0 /\ name # stream /\ doubt[i] # "now"))
        /\ chunks' = IF subscription[i].number = number
                     THEN [chunks EXCEPT ![i] = @ + 1] ELSE chunks
        /\ UNCHANGED <<link, CorrelationId, call, SubscriptionStreamTable, doubt, asked, queried,
                       broker, grants>>

Grants(i) ==
    /\ call = NoCall /\ toBroker = << >> /\ i \in Id
    /\ Sends(Push("Credit", <<i, 1>>))
    /\ grants' = IF link = "up" THEN [grants EXCEPT ![i] = @ + 1] ELSE grants
    /\ UNCHANGED <<toClient, link, CorrelationId, call, client, broker, chunks>>

StoresOffset(s) ==
    /\ call = NoCall /\ toBroker = << >> /\ s \in Stream
    /\ Sends(Push("StoreOffset", <<s, 0>>))
    /\ stores' = IF link = "up" THEN [stores EXCEPT ![s] = 0] ELSE stores
    /\ UNCHANGED <<toClient, link, CorrelationId, call, SubscriptionStreamTable, passed, doubt,
                   misnamed, asked, queried, broker, chunks, grants>>

Refuses ==
    /\ Takes /\ Head(toBroker).key \in Changes
    /\ \E code \in Codes \ {"OK"} : Tells(Reply(Head(toBroker), code, << >>))
    /\ UNCHANGED <<link, CorrelationId, call, client, broker, chunks, grants>>

Opens(i, s, o) ==
    /\ Takes /\ Head(toBroker).key = "Subscribe"
    /\ i = Head(toBroker).arg[1] /\ s = Head(toBroker).arg[2] /\ o = Head(toBroker).arg[3]
    /\ i \in Id /\ s \in Stream /\ o \in Offset /\ ~Subscribed(i)
    /\ Tells(Reply(Head(toBroker), "OK", << >>))
    /\ subscription' = [subscription EXCEPT ![i] =
         [stream |-> s, credit |-> InitialCredit, next |-> o, number |-> Len(made) + 1]]
    /\ made' = Append(made, o) /\ passed' = Append(passed, << >>)
    /\ chunks' = [chunks EXCEPT ![i] = 0] /\ grants' = [grants EXCEPT ![i] = 0]
    /\ UNCHANGED <<link, CorrelationId, call, SubscriptionStreamTable, doubt, stores, misnamed,
                   asked, queried, offsets>>

Closes(i) ==
    /\ Takes /\ Head(toBroker).key = "Unsubscribe"
    /\ i = Head(toBroker).arg[1] /\ i \in Id /\ Subscribed(i)
    /\ Tells(Reply(Head(toBroker), "OK", << >>))
    /\ subscription' = [subscription EXCEPT ![i] = NoSubscription]
    /\ UNCHANGED <<link, CorrelationId, call, client, made, offsets, chunks, grants>>

Credited(i, n) ==
    /\ Takes /\ Head(toBroker).key = "Credit"
    /\ i = Head(toBroker).arg[1] /\ n = Head(toBroker).arg[2]
    /\ i \in Id /\ n \in Nat /\ Subscribed(i)
    /\ Serve(i, subscription[i].credit + n, subscription[i].next)
    /\ UNCHANGED <<toClient, link, CorrelationId, call, client, made, offsets, chunks, grants>>

CreditRefused ==
    /\ Takes /\ Head(toBroker).key = "Credit" /\ ~Subscribed(Head(toBroker).arg[1])
    /\ Tells(Push("Credit", << >>))
    /\ UNCHANGED <<link, CorrelationId, call, client, broker, chunks, grants>>

Stores(s, o) ==
    /\ Takes /\ Head(toBroker).key = "StoreOffset"
    /\ s = Head(toBroker).arg[1] /\ o = Head(toBroker).arg[2] /\ s \in Name /\ o \in Offset
    /\ offsets' = IF s = "" THEN offsets ELSE [offsets EXCEPT ![s] = o]
    /\ UNCHANGED <<toClient, link, CorrelationId, call, client, subscription, made, chunks, grants>>

AnswersQuery(s) ==
    /\ Takes /\ Head(toBroker).key = "QueryOffset"
    /\ s = Head(toBroker).arg[1] /\ s \in Stream
    /\ Tells(IF offsets[s] = LogLength THEN Reply(Head(toBroker), "NoOffset", <<0>>)
             ELSE Reply(Head(toBroker), "OK", <<offsets[s]>>))
    /\ UNCHANGED <<link, CorrelationId, call, client, broker, chunks, grants>>

Delivers(i, n) ==
    /\ link = "up" /\ Subscribed(i) /\ i \in Id /\ n \in Nat
    /\ subscription[i].credit > 0 /\ subscription[i].next + n <= LogLength
    /\ Tells(Push("Deliver", <<i, subscription[i].next, n, subscription[i].stream,
                               subscription[i].number>>))
    /\ Serve(i, subscription[i].credit - 1, subscription[i].next + n)
    /\ UNCHANGED <<toBroker, link, CorrelationId, call, client, made, offsets, chunks, grants>>

Loses ==
    /\ toBroker' = << >> /\ link' = "down"
    /\ \E n \in 0..Len(toClient) : toClient' = SubSeq(toClient, 1, n)
    /\ UNCHANGED <<CorrelationId, call, client, broker, chunks, grants>>

RequestIsMade == \E key \in Asked : \E arg : Asks(key, arg)

ChunkIsHandled ==
    \E k \in Nat, i \in Id, first \in Offset, n \in Nat, stream \in Stream,
       number \in Nat \ {0} :
        first + n <= LogLength /\ Handles(k, i, first, n, stream, number)

HeartbeatIsSent ==
    /\ link = "up" /\ Tells(Push("Heartbeat", << >>))
    /\ UNCHANGED <<toBroker, link, CorrelationId, call, client, broker, chunks, grants>>

CreditIsSent == \E i \in Id : Grants(i)

OffsetIsSent == \E s \in Stream : StoresOffset(s)

IdIsOpened == \E i \in Id, s \in Stream, o \in Offset : Opens(i, s, o)

IdIsClosed == \E i \in Id : Closes(i)

CreditArrives == \E i \in Id, n \in Nat : Credited(i, n)

OffsetIsStored == \E s \in Name, o \in Offset : Stores(s, o)

QueryIsAnswered == \E s \in Stream : AnswersQuery(s)

ChunkIsSent == \E i \in Id, n \in Nat : Delivers(i, n)

ClientSteps ==
    \/ RequestIsMade \/ GivesUp \/ LearnsName \/ LearnsOffset \/ Drops \/ ChunkIsHandled
    \/ CreditIsSent \/ OffsetIsSent

BrokerSteps ==
    \/ Refuses \/ CreditRefused \/ Loses \/ IdIsOpened \/ IdIsClosed \/ CreditArrives
    \/ OffsetIsStored \/ QueryIsAnswered \/ ChunkIsSent \/ HeartbeatIsSent

Steps == ClientSteps \/ BrokerSteps \/ UNCHANGED vars

-----------------------------------------------------------------------------
(* Every step of Next is one of these.                                     *)

LEMMA Sending ==
  ASSUME Channels, NEW m \in FromClient
  PROVE  (toBroker' = Sent(<<m>>)) => Sends(m)
<1>1. toBroker \in Seq(FromClient)
  BY DEF Channels
<1>2. toBroker \o <<m>> = Append(toBroker, m)
  BY <1>1
<1>3. QED
  BY <1>2 DEF Sent, Sends

LEMMA Receiving ==
  ASSUME Channels, Arrived, Take
  PROVE  Receives
BY DEF Channels, Arrived, Take, Receives

LEMMA Telling ==
  ASSUME Channels, NEW m \in FromBroker, BrokerSends(<<m>>)
  PROVE  Tells(m)
<1>1. toClient \in Seq(FromBroker)
  BY DEF Channels
<1>2. toClient \o <<m>> = Append(toClient, m)
  BY <1>1
<1>3. QED
  BY <1>2 DEF BrokerSends, Tells

LEMMA Taking ==
  ASSUME Channels, NEW key, BrokerSees(key), BrokerTakes
  PROVE  Takes /\ Head(toBroker).key = key /\ UNCHANGED <<link, CorrelationId, call>>
BY DEF Channels, BrokerSees, BrokerTakes, Takes

LEMMA RequestShape ==
  ASSUME Types,
         \/ \E i \in Id, s \in Stream, o \in FirstOffset : Subscribe(i, s, o)
         \/ \E i \in Id : Unsubscribe(i)
         \/ \E s \in Stream : QueryOffset(s)
  PROVE  RequestIsMade
<1>1. Channels /\ CorrelationId + 1 \in Nat \ {0}
  <2>1. Channels /\ CorrelationId \in 0..MaxRequests
    BY DEF Types, TypeOK
  <2>2. QED
    BY <2>1, RequestsAssumption
<1>2. ASSUME NEW key \in Asked, NEW arg, Message(key, CorrelationId + 1, "none", arg) \in FromClient,
             Request(key, arg),
             IF key = "QueryOffset" THEN asked' = stores[arg[1]] /\ queried' = NotQueried
             ELSE UNCHANGED <<asked, queried>>,
             UNCHANGED <<SubscriptionStreamTable, passed, doubt, stores, misnamed, broker, chunks,
                         grants>>
      PROVE  RequestIsMade
  <2>1. Sends(Message(key, CorrelationId + 1, "none", arg))
    BY <1>1, <1>2, Sending DEF Request
  <2>2. Asks(key, arg)
    BY <1>2, <2>1 DEF Request, Asks
  <2>3. QED
    BY <2>2 DEF RequestIsMade
<1>3. ASSUME NEW i \in Id, NEW s \in Stream, NEW o \in FirstOffset, Subscribe(i, s, o)
      PROVE  RequestIsMade
  <2>1. o \in Offset
    BY ConsumerAssumption DEF Offset
  <2>2. Message("Subscribe", CorrelationId + 1, "none", <<i, s, o>>) \in FromClient
    BY <1>1, <2>1, ClientFrames
  <2>3. "Subscribe" \in Asked /\ "Subscribe" # "QueryOffset"
    BY DEF Asked, Changes
  <2>4. QED
    BY <1>2, <1>3, <2>2, <2>3 DEF Subscribe, client
<1>4. ASSUME NEW i \in Id, Unsubscribe(i)
      PROVE  RequestIsMade
  <2>1. Message("Unsubscribe", CorrelationId + 1, "none", <<i>>) \in FromClient
    BY <1>1, ClientFrames
  <2>2. "Unsubscribe" \in Asked /\ "Unsubscribe" # "QueryOffset"
    BY DEF Asked, Changes
  <2>3. QED
    BY <1>2, <1>4, <2>1, <2>2 DEF Unsubscribe, client
<1>5. ASSUME NEW s \in Stream, QueryOffset(s)
      PROVE  RequestIsMade
  <2>1. Message("QueryOffset", CorrelationId + 1, "none", <<s>>) \in FromClient
    BY <1>1, ClientFrames
  <2>2. "QueryOffset" \in Asked /\ <<s>>[1] = s
    BY DEF Asked
  <2>3. QED
    BY <1>2, <1>5, <2>1, <2>2 DEF QueryOffset, NotQueried
<1>6. QED
  BY <1>3, <1>4, <1>5

LEMMA GiveUpShape ==
  ASSUME Types, SubscriptionGiveUp \/ QueryOffsetGiveUp
  PROVE  GivesUp
BY DEF SubscriptionGiveUp, QueryOffsetGiveUp, GiveUp, GivesUp, Changes, client

\* A short frame that is taken for the answer does not match, and is not good.
LEMMA MistakeShape ==
  ASSUME Types, Responses, ~Matches(Head(toClient))
  PROVE  GivesUp
<1> DEFINE m == Head(toClient)
<1>1. Receives /\ IsShort(m) /\ call # NoCall /\ call' = NoCall
  <2>1. Response
    BY DEF Responses, SubscribeResponse, UnsubscribeResponse, QueryOffsetResponse
  <2>2. QED
    BY <2>1, Receiving DEF Types, Response, Misread
<1>2. ~Good(m) /\ m.key \notin Asked /\ call.key \in Asked
  <2>1. m \in FromBroker
    BY <1>1 DEF Receives
  <2>2. m.key \notin Asked
    BY <1>1, <2>1, BrokerFrame DEF Asked, Changes
  <2>3. call.key \in Asked
    BY <1>1, CallFacts DEF Types
  <2>4. QED
    BY <2>2, <2>3 DEF Good
<1>3. doubt \in [Id -> {"none", "now", "past"}]
  BY DEF Types, TypeOK
<1>4. ASSUME NEW i, doubt' = Resolved(i) PROVE doubt' = [doubt EXCEPT ![i] = "now"]
  BY <1>4 DEF Resolved
<1>5. CASE SubscribeResponse
  BY <1>1, <1>2, <1>4, <1>5 DEF SubscribeResponse, GivesUp, Changes
<1>6. CASE UnsubscribeResponse
  BY <1>1, <1>2, <1>4, <1>6 DEF UnsubscribeResponse, GivesUp, Changes
<1>7. CASE QueryOffsetResponse
  <2>1. queried' = NotQueried
    BY <1>2, <1>7 DEF QueryOffsetResponse, NotQueried
  <2>2. QED
    BY <1>1, <1>7, <2>1 DEF QueryOffsetResponse, GivesUp, Changes
<1>8. QED
  BY <1>5, <1>6, <1>7 DEF Responses

LEMMA ResponseShape ==
  ASSUME Types, Responses, Matches(Head(toClient))
  PROVE  LearnsName \/ LearnsOffset
<1>1. Response /\ Receives /\ Head(toClient).corr = call.corr /\ call' = NoCall
  <2>1. Response
    BY DEF Responses, SubscribeResponse, UnsubscribeResponse, QueryOffsetResponse
  <2>2. QED
    BY <2>1, Receiving DEF Types, Response, Matches
<1>2. doubt \in [Id -> {"none", "now", "past"}]
  BY DEF Types, TypeOK
<1>3. ASSUME NEW i \in Id, doubt' = Resolved(i)
      PROVE  doubt' = IF Good(Head(toClient))
                      THEN [doubt EXCEPT ![i] = IF @ = "now" THEN "past" ELSE @] ELSE doubt
  BY <1>2, <1>3 DEF Resolved
<1>4. call.key \in Changes => call.arg[1] \in Id
  BY CallFacts DEF Types, Asked, Changes
<1>5. CASE SubscribeResponse
  <2>1. call.key = "Subscribe"
    BY <1>5 DEF SubscribeResponse
  <2>2. call.key \in Changes /\ NewName(call) = call.arg[2]
    BY <2>1 DEF Changes, NewName
  <2>3. QED
    BY <1>1, <1>3, <1>4, <1>5, <2>2 DEF SubscribeResponse, LearnsName
<1>6. CASE UnsubscribeResponse
  <2>1. call.key = "Unsubscribe"
    BY <1>6 DEF UnsubscribeResponse
  <2>2. call.key \in Changes /\ NewName(call) = ""
    BY <2>1 DEF Changes, NewName
  <2>3. QED
    BY <1>1, <1>3, <1>4, <1>6, <2>2 DEF UnsubscribeResponse, LearnsName
<1>7. CASE QueryOffsetResponse
  BY <1>1, <1>7 DEF QueryOffsetResponse, LearnsOffset
<1>8. QED
  BY <1>5, <1>6, <1>7 DEF Responses

LEMMA DropShape ==
  ASSUME Types, PollDrops \/ SkipFrame
  PROVE  Drops
<1>1. Receives
  BY Receiving DEF Types, PollDrops, SkipFrame, Skip
<1>2. Head(toClient) \in FromBroker
  BY <1>1 DEF Receives
<1>3. Head(toClient).key # "Deliver" /\ HasCorrelationId(Head(toClient).key)
  BY <1>2, BrokerFrame DEF PollDrops, SkipFrame, Skip
<1>4. IsLittleEndianMachine
  BY ConsumerAssumption
<1>5. QED
  BY <1>1, <1>3, <1>4 DEF PollDrops, SkipFrame, Skip, Matches, Drops

LEMMA ChunkShape ==
  ASSUME Types, NEW k, HandleDeliver(k)
  PROVE  ChunkIsHandled
<1>1. Receives /\ Head(toClient).key = "Deliver"
  BY Receiving DEF Types, HandleDeliver
<1>2. PICK i \in Id, first \in Offset, n \in Nat, stream \in Stream, number \in Nat :
        Head(toClient).arg = <<i, first, n, stream, number>> /\ first + n <= LogLength
  <2>1. Head(toClient) \in FromBroker
    BY <1>1 DEF Receives
  <2>2. PICK m \in FromBroker : m = Head(toClient)
    BY <2>1
  <2>3. QED
    BY <1>1, <2>2, BrokerFrame
<1>3. number \in Nat \ {0}
  <2>1. toClient \in Seq(FromBroker) /\ toClient # << >>
    BY <1>1 DEF Receives, Types, Channels
  <2>2. 1 \in DOMAIN toClient /\ toClient[1] = Head(toClient)
    BY <2>1
  <2>3. Head(toClient).arg[5] \in 1..Len(made)
    BY <1>1, <2>2 DEF Types, Numbers
  <2>4. QED
    BY <1>2, <2>3
<1> DEFINE name == SubscriptionStreamTable[i]
           store == Push("StoreOffset", <<name, first + k - 1>>)
           credit == Push("Credit", <<i, DefaultCredit>>)
           o == Offsets(first, n)
<1>4. /\ Head(toClient).arg[1] = i /\ Head(toClient).arg[2] = first /\ Head(toClient).arg[3] = n
      /\ Head(toClient).arg[4] = stream /\ Head(toClient).arg[5] = number
  BY <1>2
<1> k \in 0..n
  BY <1>4 DEF HandleDeliver
<1>5. k # 0 => o[k] = first + k - 1 /\ first + k - 1 \in Offset
  <2>1. first \in 0..LogLength /\ LogLength \in Nat /\ first + n <= LogLength
    BY <1>2, ConsumerAssumption DEF Offset
  <2>2. k # 0 => k \in 1..n /\ first + k - 1 \in 0..LogLength
    BY <2>1
  <2>3. QED
    BY <2>2 DEF Offsets, Offset
<1>6. name \in Name
  BY DEF Types, TypeOK, Name
<1>7. credit \in FromClient /\ (k # 0 => store \in FromClient) /\ toBroker \in Seq(FromClient)
  BY <1>5, <1>6, ClientFrames, ConsumerAssumption DEF Types, Channels
<1>8. /\ passed' = [passed EXCEPT ![number] = @ \o o]
      /\ toBroker' = Sent((IF k = 0 THEN << >> ELSE <<Push("StoreOffset", <<name, o[k]>>)>>)
                            \o <<credit>>)
      /\ stores' = IF k # 0 /\ name # "" /\ link = "up"
                   THEN [stores EXCEPT ![name] = o[k]] ELSE stores
      /\ misnamed' = (misnamed \/ (k # 0 /\ name # stream /\ doubt[i] # "now"))
      /\ chunks' = IF subscription[i].number = number
                   THEN [chunks EXCEPT ![i] = @ + 1] ELSE chunks
      /\ UNCHANGED <<link, CorrelationId, call, SubscriptionStreamTable, doubt, asked, queried,
                     broker, grants>>
  BY <1>4 DEF HandleDeliver, CreditBack
<1>9. toBroker' = IF link = "up"
                  THEN Append(IF k = 0 THEN toBroker ELSE Append(toBroker, store), credit)
                  ELSE toBroker
  <2> HIDE DEF credit, name, o
  <2>1. CASE k = 0
    <3>1. << >> \o <<credit>> = <<credit>> /\ toBroker \o <<credit>> = Append(toBroker, credit)
      BY <1>7
    <3>2. QED
      BY <1>8, <2>1, <3>1 DEF Sent
  <2>2. CASE k # 0
    <3>1. Push("StoreOffset", <<name, o[k]>>) = store
      BY <1>5, <2>2
    <3> HIDE DEF store
    <3>2. toBroker \o (<<store>> \o <<credit>>) = Append(Append(toBroker, store), credit)
      BY <1>7, <2>2, AppendTwo
    <3>3. QED
      BY <1>8, <2>2, <3>1, <3>2 DEF Sent
  <2>3. QED
    BY <2>1, <2>2
<1>10. stores' = IF k # 0 /\ name # "" /\ link = "up"
                 THEN [stores EXCEPT ![name] = first + k - 1] ELSE stores
  BY <1>5, <1>8
<1>11. Handles(k, i, first, n, stream, number)
  BY <1>1, <1>2, <1>5, <1>7, <1>8, <1>9, <1>10, Zenon DEF Handles
<1>12. k \in Nat
  OBVIOUS
<1>13. QED
  BY <1>2, <1>3, <1>11, <1>12, Zenon DEF ChunkIsHandled

LEMMA PushShape ==
  ASSUME Types
  PROVE  /\ \A i \in Id : Credit(i) => Grants(i)
         /\ \A s \in Stream : StoreOffset(s, 0) => StoresOffset(s)
<1>1. Channels
  BY DEF Types
<1>2. ASSUME NEW i \in Id, Credit(i) PROVE Grants(i)
  <2>1. Push("Credit", <<i, 1>>) \in FromClient
    BY ClientFrames
  <2>2. QED
    BY <1>1, <1>2, <2>1, Sending DEF Credit, Grants
<1>3. ASSUME NEW s \in Stream, StoreOffset(s, 0) PROVE StoresOffset(s)
  <2>1. s \in Name
    BY DEF Name
  <2>2. 0 \in Offset
    <3>1. LogLength \in Nat
      BY ConsumerAssumption
    <3>2. QED
      BY <3>1 DEF Offset
  <2>3. Push("StoreOffset", <<s, 0>>) \in FromClient
    BY <2>1, <2>2, ClientFrames
  <2>4. QED
    BY <1>1, <1>3, <2>3, Sending DEF StoreOffset, StoresOffset
<1>4. QED
  BY <1>2, <1>3

LEMMA SubscribeShape ==
  ASSUME Types, BrokerSubscribes
  PROVE  Refuses \/ IdIsOpened
<1>1. Takes /\ Head(toBroker).key = "Subscribe" /\ UNCHANGED <<link, CorrelationId, call>>
  BY Taking DEF Types, BrokerSubscribes
<1>2. PICK m \in FromClient : m = Head(toBroker)
  BY <1>1 DEF Takes
<1>3. PICK i \in Id, s \in Stream, o \in Offset : i = m.arg[1] /\ s = m.arg[2] /\ o = m.arg[3]
  BY <1>1, <1>2, ClientFrame
<1>4. /\ Reply(m, "OK", << >>) \in FromBroker
      /\ Reply(m, "SubscriptionIDAlreadyExists", << >>) \in FromBroker
  <2>1. m.key \in Changes /\ "OK" \in Codes /\ "SubscriptionIDAlreadyExists" \in Codes
    BY <1>1, <1>2 DEF Changes, Codes
  <2>2. QED
    BY <2>1, BrokerFrames
<1>5. CASE Subscribed(i)
  <2>1. /\ BrokerSends(<<Reply(m, "SubscriptionIDAlreadyExists", << >>)>>)
        /\ UNCHANGED <<subscription, made, passed, chunks, grants, SubscriptionStreamTable, doubt,
                       stores, misnamed, asked, queried, offsets>>
    BY <1>2, <1>3, <1>5 DEF BrokerSubscribes
  <2>2. Tells(Reply(m, "SubscriptionIDAlreadyExists", << >>))
    BY <1>4, <2>1, Telling DEF Types
  <2>3. "SubscriptionIDAlreadyExists" \in Codes \ {"OK"} /\ Head(toBroker).key \in Changes
    BY <1>1 DEF Codes, Changes
  <2>4. Refuses
    BY <1>1, <1>2, <2>1, <2>2, <2>3 DEF Refuses, client, broker
  <2>5. QED
    BY <2>4
<1>6. CASE ~Subscribed(i)
  <2>1. /\ BrokerSends(<<Reply(m, "OK", << >>)>>)
        /\ subscription' = [subscription EXCEPT ![i] =
             [stream |-> s, credit |-> InitialCredit, next |-> o, number |-> Len(made) + 1]]
        /\ made' = Append(made, o) /\ passed' = Append(passed, << >>)
        /\ chunks' = [chunks EXCEPT ![i] = 0] /\ grants' = [grants EXCEPT ![i] = 0]
        /\ UNCHANGED <<SubscriptionStreamTable, doubt, stores, misnamed, asked, queried, offsets>>
    BY <1>2, <1>3, <1>6 DEF BrokerSubscribes
  <2>2. Tells(Reply(m, "OK", << >>))
    BY <1>4, <2>1, Telling DEF Types
  <2>3. Opens(i, s, o)
    BY <1>1, <1>2, <1>3, <1>6, <2>1, <2>2 DEF Opens
  <2>4. QED
    BY <2>3 DEF IdIsOpened
<1>7. QED
  BY <1>5, <1>6

LEMMA UnsubscribeShape ==
  ASSUME Types, BrokerUnsubscribes
  PROVE  Refuses \/ IdIsClosed
<1>1. Takes /\ Head(toBroker).key = "Unsubscribe" /\ UNCHANGED <<link, CorrelationId, call>>
  BY Taking DEF Types, BrokerUnsubscribes
<1>2. PICK m \in FromClient : m = Head(toBroker)
  BY <1>1 DEF Takes
<1>3. PICK i \in Id : i = m.arg[1]
  BY <1>1, <1>2, ClientFrame
<1>4. /\ Reply(m, "OK", << >>) \in FromBroker
      /\ Reply(m, "SubscriptionIDDoesNotExist", << >>) \in FromBroker
  <2>1. m.key \in Changes /\ "OK" \in Codes /\ "SubscriptionIDDoesNotExist" \in Codes
    BY <1>1, <1>2 DEF Changes, Codes
  <2>2. QED
    BY <2>1, BrokerFrames
<1>5. /\ BrokerSends(<<Reply(m, IF Subscribed(i) THEN "OK"
                                ELSE "SubscriptionIDDoesNotExist", << >>)>>)
      /\ subscription' = [subscription EXCEPT ![i] = NoSubscription]
      /\ UNCHANGED <<client, made, offsets, chunks, grants>>
  BY <1>2, <1>3 DEF BrokerUnsubscribes
<1>6. CASE Subscribed(i)
  <2>1. Tells(Reply(m, "OK", << >>))
    BY <1>4, <1>5, <1>6, Telling DEF Types
  <2>2. Closes(i)
    BY <1>1, <1>2, <1>3, <1>5, <1>6, <2>1 DEF Closes
  <2>3. QED
    BY <2>2 DEF IdIsClosed
<1>7. CASE ~Subscribed(i)
  <2>1. Tells(Reply(m, "SubscriptionIDDoesNotExist", << >>))
    BY <1>4, <1>5, <1>7, Telling DEF Types
  <2>2. subscription' = subscription
    <3>1. DOMAIN subscription = Id /\ subscription = [j \in Id |-> subscription[j]]
      BY DEF Types, TypeOK
    <3>2. QED
      BY <1>5, <1>7, <3>1 DEF Subscribed
  <2>3. "SubscriptionIDDoesNotExist" \in Codes \ {"OK"} /\ Head(toBroker).key \in Changes
    BY <1>1 DEF Codes, Changes
  <2>4. Refuses
    BY <1>1, <1>2, <1>5, <2>1, <2>2, <2>3 DEF Refuses, broker
  <2>5. QED
    BY <2>4
<1>8. QED
  BY <1>6, <1>7

LEMMA CreditShape ==
  ASSUME Types, BrokerCredits
  PROVE  CreditRefused \/ CreditArrives
<1>1. Takes /\ Head(toBroker).key = "Credit" /\ UNCHANGED <<link, CorrelationId, call>>
  BY Taking DEF Types, BrokerCredits
<1>2. PICK m \in FromClient : m = Head(toBroker)
  BY <1>1 DEF Takes
<1>3. PICK i \in Id, n \in Nat : i = m.arg[1] /\ n = m.arg[2]
  BY <1>1, <1>2, ClientFrame
<1>4. UNCHANGED <<client, made, offsets, chunks, grants>>
  BY DEF BrokerCredits
<1>5. CASE Subscribed(i)
  <2>1. Serve(i, subscription[i].credit + n, subscription[i].next) /\ UNCHANGED toClient
    BY <1>2, <1>3, <1>5 DEF BrokerCredits
  <2>2. Credited(i, n)
    BY <1>1, <1>2, <1>3, <1>4, <1>5, <2>1 DEF Credited
  <2>3. QED
    BY <2>2 DEF CreditArrives
<1>6. CASE ~Subscribed(i)
  <2>1. BrokerSends(<<Push("Credit", << >>)>>) /\ UNCHANGED subscription
    BY <1>2, <1>3, <1>6 DEF BrokerCredits
  <2>2. Tells(Push("Credit", << >>))
    BY <2>1, BrokerFrames, Telling DEF Types
  <2>3. CreditRefused
    BY <1>1, <1>2, <1>3, <1>4, <1>6, <2>1, <2>2 DEF CreditRefused, broker
  <2>4. QED
    BY <2>3
<1>7. QED
  BY <1>5, <1>6

LEMMA StoreShape ==
  ASSUME Types, BrokerStores
  PROVE  OffsetIsStored
<1>1. Takes /\ Head(toBroker).key = "StoreOffset" /\ UNCHANGED <<link, CorrelationId, call>>
  BY Taking DEF Types, BrokerStores
<1>2. PICK m \in FromClient : m = Head(toBroker)
  BY <1>1 DEF Takes
<1>3. PICK s \in Name, o \in Offset : s = m.arg[1] /\ o = m.arg[2]
  BY <1>1, <1>2, ClientFrame
<1>4. Stores(s, o)
  BY <1>1, <1>2, <1>3 DEF BrokerStores, Stores
<1>5. QED
  BY <1>4 DEF OffsetIsStored

LEMMA QueryShape ==
  ASSUME Types, BrokerAnswersQuery
  PROVE  QueryIsAnswered
<1>1. Takes /\ Head(toBroker).key = "QueryOffset" /\ UNCHANGED <<link, CorrelationId, call>>
  BY Taking DEF Types, BrokerAnswersQuery
<1>2. PICK m \in FromClient : m = Head(toBroker)
  BY <1>1 DEF Takes
<1>3. PICK s \in Stream : s = m.arg[1]
  BY <1>1, <1>2, ClientFrame
<1> DEFINE answer == IF offsets[s] = LogLength THEN Reply(m, "NoOffset", <<0>>)
                     ELSE Reply(m, "OK", <<offsets[s]>>)
<1>4. answer \in FromBroker
  <2>1. offsets[s] \in Offset /\ 0 \in Offset
    <3>1. offsets \in [Stream -> 0..LogLength] /\ LogLength \in Nat
      BY ConsumerAssumption DEF Types, TypeOK
    <3>2. QED
      BY <3>1 DEF Offset
  <2>2. m.key = "QueryOffset"
    BY <1>1, <1>2
  <2>3. QED
    BY <2>1, <2>2, BrokerFrames
<1>5. BrokerSends(<<answer>>) /\ UNCHANGED <<client, broker, chunks, grants>>
  BY <1>2, <1>3 DEF BrokerAnswersQuery
<1>6. Tells(answer)
  <2> HIDE DEF answer
  <2> QED
    BY <1>4, <1>5, Telling DEF Types
<1>7. AnswersQuery(s)
  BY <1>1, <1>2, <1>3, <1>5, <1>6 DEF AnswersQuery
<1>8. QED
  BY <1>7 DEF QueryIsAnswered

LEMMA DeliverShape ==
  ASSUME Types, NEW i \in Id, NEW n \in ChunkEntries, Deliver(i, n)
  PROVE  Delivers(i, n) /\ n \in Nat
<1>1. n \in Nat
  BY ConsumerAssumption
<1>2. /\ subscription[i].stream \in Stream /\ subscription[i].number \in Nat
      /\ subscription[i].next \in Offset /\ subscription[i].next + n <= LogLength
  <2>1. subscription \in [Id -> [stream : Stream \cup {""}, credit : Nat, next : 0..LogLength,
                                 number : Nat]]
    BY DEF Types, TypeOK
  <2>2. Subscribed(i) /\ subscription[i].next + n <= LogLength
    BY DEF Deliver
  <2>3. subscription[i].stream \in Stream
    BY <2>2 DEF Types, Numbers
  <2>4. QED
    BY <2>1, <2>2, <2>3 DEF Offset
<1> DEFINE m == Push("Deliver", <<i, subscription[i].next, n, subscription[i].stream,
                                  subscription[i].number>>)
<1>3. m \in FromBroker
  BY <1>1, <1>2, BrokerFrames
<1>4. BrokerSends(<<m>>)
  BY DEF Deliver
<1>5. Tells(m)
  <2> HIDE DEF m
  <2> QED
    BY <1>3, <1>4, Telling DEF Types
<1>6. QED
  BY <1>1, <1>5 DEF Deliver, Delivers

LEMMA HeartbeatShape ==
  ASSUME Types, Heartbeat
  PROVE  HeartbeatIsSent
<1>1. PICK m \in FromBroker : m = Push("Heartbeat", << >>)
  BY BrokerFrames
<1>2. BrokerSends(<<m>>)
  BY <1>1 DEF Heartbeat, BrokerHeartbeat
<1>3. Tells(m)
  BY <1>2, Telling DEF Types
<1>4. QED
  BY <1>1, <1>3 DEF Heartbeat, BrokerHeartbeat, HeartbeatIsSent

LEMMA Shapes == Types /\ [Next]_vars => Steps
<1> SUFFICES ASSUME Types, [Next]_vars PROVE Steps
  OBVIOUS
<1>1. CASE Application
  <2>1. CASE \E i \in Id : Credit(i)
    BY <2>1, PushShape DEF Steps, ClientSteps, CreditIsSent
  <2>2. CASE \E s \in Stream : StoreOffset(s, 0)
    BY <2>2, PushShape DEF Steps, ClientSteps, OffsetIsSent
  <2>3. CASE \/ \E i \in Id, s \in Stream, o \in FirstOffset : Subscribe(i, s, o)
             \/ \E i \in Id : Unsubscribe(i)
             \/ \E s \in Stream : QueryOffset(s)
    BY <2>3, RequestShape DEF Steps, ClientSteps
  <2>4. QED
    BY <1>1, <2>1, <2>2, <2>3 DEF Application
<1>2. CASE SubscriptionGiveUp \/ QueryOffsetGiveUp
  BY <1>2, GiveUpShape DEF Steps, ClientSteps
<1>3. CASE Responses
  BY <1>3, MistakeShape, ResponseShape DEF Steps, ClientSteps
<1>4. CASE Poll
  BY <1>4, DropShape, ChunkShape DEF Poll, Steps, ClientSteps
<1>5. CASE BrokerAnswers
  BY <1>5, SubscribeShape, UnsubscribeShape, CreditShape, StoreShape, QueryShape
     DEF BrokerAnswers, Steps, BrokerSteps
<1>6. CASE \E i \in Id, n \in ChunkEntries : Deliver(i, n)
  BY <1>6, DeliverShape DEF Steps, BrokerSteps, ChunkIsSent
<1>7. CASE Lose /\ UNCHANGED <<client, broker, chunks, grants>>
  BY <1>7 DEF Lose, Loses, Steps, BrokerSteps
<1>8. CASE Heartbeat
  BY <1>8, HeartbeatShape DEF Steps, BrokerSteps
<1>9. CASE UNCHANGED vars
  BY <1>9 DEF Steps
<1>10. QED
  BY <1>1, <1>2, <1>3, <1>4, <1>5, <1>6, <1>7, <1>8, <1>9 DEF Next

\* Which steps change what.
LEMMA Changing ==
  ASSUME Steps
  PROVE  /\ UNCHANGED CorrelationId \/ RequestIsMade
         /\ UNCHANGED call \/ call' = NoCall \/ RequestIsMade
         /\ UNCHANGED link \/ Loses
         /\ UNCHANGED SubscriptionStreamTable \/ LearnsName
         /\ UNCHANGED doubt \/ GivesUp \/ LearnsName
         /\ \/ UNCHANGED <<asked, queried>> \/ RequestIsMade \/ LearnsOffset
            \/ UNCHANGED asked /\ queried' = NotQueried
         /\ UNCHANGED <<stores, misnamed>> \/ ChunkIsHandled \/ OffsetIsSent
         /\ UNCHANGED <<passed, made>> \/ ChunkIsHandled \/ IdIsOpened
         /\ UNCHANGED subscription \/ IdIsOpened \/ IdIsClosed \/ CreditArrives \/ ChunkIsSent
         /\ UNCHANGED offsets \/ OffsetIsStored
         /\ UNCHANGED <<chunks, grants>> \/ ChunkIsHandled \/ CreditIsSent \/ IdIsOpened
<1> USE DEF client, broker
<1>1. CASE RequestIsMade
  <2>1. PICK key, arg : Asks(key, arg)
    BY <1>1 DEF RequestIsMade
  <2>2. QED
    BY <1>1, <2>1 DEF Asks
<1>2. CASE GivesUp
  BY <1>2 DEF GivesUp
<1>3. CASE LearnsName
  BY <1>3 DEF LearnsName
<1>4. CASE LearnsOffset
  BY <1>4 DEF LearnsOffset
<1>5. CASE Drops
  BY <1>5 DEF Drops
<1>6. CASE ChunkIsHandled
  <2>1. PICK k, i, first, n, stream, number : Handles(k, i, first, n, stream, number)
    BY <1>6 DEF ChunkIsHandled
  <2>2. QED
    BY <1>6, <2>1 DEF Handles
<1>7. CASE CreditIsSent
  BY <1>7 DEF CreditIsSent, Grants
<1>8. CASE OffsetIsSent
  BY <1>8 DEF OffsetIsSent, StoresOffset
<1>9. CASE Refuses \/ CreditRefused \/ HeartbeatIsSent \/ Loses
  BY <1>9 DEF Refuses, CreditRefused, HeartbeatIsSent, Loses
<1>10. CASE IdIsOpened
  <2>1. PICK i, s, o : Opens(i, s, o)
    BY <1>10 DEF IdIsOpened
  <2>2. QED
    BY <1>10, <2>1 DEF Opens
<1>11. CASE IdIsClosed
  BY <1>11 DEF IdIsClosed, Closes
<1>12. CASE CreditArrives
  BY <1>12 DEF CreditArrives, Credited
<1>13. CASE OffsetIsStored
  BY <1>13 DEF OffsetIsStored, Stores
<1>14. CASE QueryIsAnswered
  BY <1>14 DEF QueryIsAnswered, AnswersQuery
<1>15. CASE ChunkIsSent
  BY <1>15 DEF ChunkIsSent, Delivers
<1>16. CASE UNCHANGED vars
  BY <1>16 DEF vars, connection
<1>17. QED
  BY <1>1, <1>2, <1>3, <1>4, <1>5, <1>6, <1>7, <1>8, <1>9, <1>10, <1>11, <1>12, <1>13, <1>14,
     <1>15, <1>16 DEF Steps, ClientSteps, BrokerSteps

-----------------------------------------------------------------------------
(* The types, and the numbers of the subscriptions.                        *)

LEMMA ChannelsStep ==
  ASSUME Types, Steps
  PROVE  toBroker' \in Seq(FromClient) /\ toClient' \in Seq(FromBroker)
<1>0. toBroker \in Seq(FromClient) /\ toClient \in Seq(FromBroker)
  BY DEF Types, Channels
<1>1. ASSUME NEW m, Sends(m) PROVE toBroker' \in Seq(FromClient)
  BY <1>0, <1>1 DEF Sends
<1>2. Receives => toClient' \in Seq(FromBroker)
  BY <1>0 DEF Receives
<1>3. Takes => toBroker' \in Seq(FromClient)
  BY <1>0 DEF Takes
<1>4. ASSUME NEW m, Tells(m) PROVE toClient' \in Seq(FromBroker)
  BY <1>0, <1>4 DEF Tells
<1>5. CASE RequestIsMade
  <2>1. PICK key, arg : Asks(key, arg)
    BY <1>5 DEF RequestIsMade
  <2>2. QED
    BY <1>0, <1>1, <2>1 DEF Asks
<1>6. CASE GivesUp
  BY <1>0, <1>2, <1>6 DEF GivesUp
<1>7. CASE LearnsName \/ LearnsOffset \/ Drops
  BY <1>0, <1>2, <1>7 DEF LearnsName, LearnsOffset, Drops
<1>8. CASE ChunkIsHandled
  <2>1. PICK k, i, first, n, stream, number : Handles(k, i, first, n, stream, number)
    BY <1>8 DEF ChunkIsHandled
  <2> DEFINE store == Push("StoreOffset", <<SubscriptionStreamTable[i], first + k - 1>>)
             credit == Push("Credit", <<i, DefaultCredit>>)
  <2>2. /\ Receives /\ credit \in FromClient /\ (k # 0 => store \in FromClient)
        /\ toBroker' = IF link = "up"
                       THEN Append(IF k = 0 THEN toBroker ELSE Append(toBroker, store), credit)
                       ELSE toBroker
    BY <2>1 DEF Handles
  <2> HIDE DEF store, credit
  <2>3. (IF k = 0 THEN toBroker ELSE Append(toBroker, store)) \in Seq(FromClient)
    BY <1>0, <2>2
  <2>4. toBroker' \in Seq(FromClient)
    BY <1>0, <2>2, <2>3
  <2>5. QED
    BY <1>2, <2>2, <2>4
<1>9. CASE CreditIsSent
  BY <1>0, <1>1, <1>9 DEF CreditIsSent, Grants
<1>10. CASE OffsetIsSent
  BY <1>0, <1>1, <1>10 DEF OffsetIsSent, StoresOffset
<1>11. CASE Refuses \/ CreditRefused \/ HeartbeatIsSent
  BY <1>0, <1>3, <1>4, <1>11 DEF Refuses, CreditRefused, HeartbeatIsSent
<1>12. CASE Loses
  BY <1>0, <1>12 DEF Loses
<1>13. CASE IdIsOpened
  BY <1>3, <1>4, <1>13 DEF IdIsOpened, Opens
<1>14. CASE IdIsClosed
  BY <1>3, <1>4, <1>14 DEF IdIsClosed, Closes
<1>15. CASE CreditArrives
  BY <1>0, <1>3, <1>15 DEF CreditArrives, Credited
<1>16. CASE OffsetIsStored
  BY <1>0, <1>3, <1>16 DEF OffsetIsStored, Stores
<1>17. CASE QueryIsAnswered
  BY <1>3, <1>4, <1>17 DEF QueryIsAnswered, AnswersQuery
<1>18. CASE ChunkIsSent
  BY <1>0, <1>4, <1>18 DEF ChunkIsSent, Delivers
<1>19. CASE UNCHANGED vars
  BY <1>0, <1>19 DEF vars, connection
<1>20. QED
  BY <1>5, <1>6, <1>7, <1>8, <1>9, <1>10, <1>11, <1>12, <1>13, <1>14, <1>15, <1>16, <1>17, <1>18,
     <1>19 DEF Steps, ClientSteps, BrokerSteps

LEMMA CallStep ==
  ASSUME Types, Steps
  PROVE  /\ CorrelationId' \in 0..MaxRequests
         /\ call' # NoCall =>
              /\ call'.key \in Asked /\ call'.corr = CorrelationId' /\ CorrelationId' > 0
              /\ Message(call'.key, call'.corr, "none", call'.arg) \in FromClient
<1>1. CorrelationId \in 0..MaxRequests /\ Channels
  BY DEF Types, TypeOK
<1>2. CASE RequestIsMade
  <2>1. PICK key, arg : key \in Asked /\ Asks(key, arg)
    BY <1>2 DEF RequestIsMade
  <2>2. CorrelationId' = CorrelationId + 1 /\ CorrelationId' \in 0..MaxRequests /\ CorrelationId' > 0
    BY <1>1, <2>1, RequestsAssumption DEF Asks
  <2>3. /\ call' = [key |-> key, corr |-> CorrelationId + 1, arg |-> arg]
        /\ Message(key, CorrelationId + 1, "none", arg) \in FromClient
    BY <2>1 DEF Asks, Sends
  <2>4. call'.key = key /\ call'.corr = CorrelationId + 1 /\ call'.arg = arg /\ key \in Asked
    BY <2>1, <2>3
  <2>5. QED
    BY <2>2, <2>3, <2>4
<1>3. CASE UNCHANGED CorrelationId /\ (UNCHANGED call \/ call' = NoCall)
  BY <1>1, <1>3 DEF Channels
<1>4. QED
  BY <1>2, <1>3, Changing

LEMMA ClientTypes ==
  ASSUME Types, Steps
  PROVE  /\ link' \in {"up", "down"}
         /\ SubscriptionStreamTable' \in [Id -> Stream \cup {""}]
         /\ doubt' \in [Id -> {"none", "now", "past"}]
         /\ stores' \in [Stream -> 0..LogLength] /\ asked' \in 0..LogLength
         /\ queried' \in [ValidOffset : BOOLEAN, Offset : 0..LogLength, answered : BOOLEAN]
         /\ misnamed' \in BOOLEAN
<1>1. /\ link \in {"up", "down"} /\ SubscriptionStreamTable \in [Id -> Stream \cup {""}]
      /\ doubt \in [Id -> {"none", "now", "past"}]
      /\ stores \in [Stream -> 0..LogLength] /\ asked \in 0..LogLength
      /\ queried \in [ValidOffset : BOOLEAN, Offset : 0..LogLength, answered : BOOLEAN]
      /\ misnamed \in BOOLEAN /\ Channels
  BY DEF Types, TypeOK
<1>2. LogLength \in Nat
  BY ConsumerAssumption
<1>3. link' \in {"up", "down"}
  BY <1>1, Changing DEF Loses
<1>4. /\ SubscriptionStreamTable' \in [Id -> Stream \cup {""}]
      /\ doubt' \in [Id -> {"none", "now", "past"}]
  <2>1. CASE LearnsName
    <3>1. call.key \in Changes /\ call # NoCall
      BY <1>1, <2>1, CallFacts DEF LearnsName, Asked
    <3>2. NewName(call) \in Stream \cup {""}
      BY <1>1, <3>1, CallFacts DEF NewName
    <3>3. QED
      BY <1>1, <2>1, <3>2 DEF LearnsName
  <2>2. CASE GivesUp
    <3>1. doubt' \in [Id -> {"none", "now", "past"}]
      BY <1>1, <2>2 DEF GivesUp
    <3>2. QED
      BY <1>1, <2>2, <3>1 DEF GivesUp
  <2>3. CASE UNCHANGED doubt /\ UNCHANGED SubscriptionStreamTable
    BY <1>1, <2>3
  <2>4. QED
    BY <2>1, <2>2, <2>3, Changing
<1>5. asked' \in 0..LogLength
      /\ queried' \in [ValidOffset : BOOLEAN, Offset : 0..LogLength, answered : BOOLEAN]
  <2>1. CASE RequestIsMade
    <3>1. PICK key, arg : key \in Asked /\ Asks(key, arg)
      BY <2>1 DEF RequestIsMade
    <3>2. CASE key = "QueryOffset"
      <4>1. asked' = stores[arg[1]] /\ queried' = NotQueried
        BY <3>1, <3>2 DEF Asks
      <4>2. arg[1] \in Stream
        <5>1. PICK m \in FromClient : m = Message(key, CorrelationId + 1, "none", arg)
          BY <3>1 DEF Asks, Sends
        <5>2. m.key = key /\ m.arg = arg
          BY <5>1 DEF Message
        <5>3. QED
          BY <3>2, <5>2, ClientFrame
      <4>3. 0 \in 0..LogLength
        BY <1>2
      <4>4. QED
        BY <1>1, <4>1, <4>2, <4>3 DEF NotQueried
    <3>3. CASE key # "QueryOffset"
      BY <1>1, <3>1, <3>3 DEF Asks
    <3>4. QED
      BY <3>2, <3>3
  <2>2. CASE LearnsOffset
    <3>1. PICK m \in FromBroker : m = Head(toClient)
      BY <2>2 DEF LearnsOffset, Receives
    <3>2. /\ asked' = asked
          /\ queried' = IF Good(m)
                        THEN [ValidOffset |-> TRUE, Offset |-> m.arg[1], answered |-> TRUE]
                        ELSE [ValidOffset |-> FALSE, Offset |-> 0, answered |->
                                m.key = call.key /\ m.code = "NoOffset"]
      BY <2>2, <3>1 DEF LearnsOffset
    <3>3. Good(m) => m.arg[1] \in 0..LogLength
      BY <2>2, BrokerFrame DEF LearnsOffset, Good, Offset
    <3>4. 0 \in 0..LogLength
      BY <1>2
    <3>5. QED
      BY <1>1, <3>2, <3>3, <3>4
  <2>3. CASE UNCHANGED asked /\ queried' = NotQueried
    <3>1. 0 \in 0..LogLength
      BY <1>2
    <3>2. NotQueried \in [ValidOffset : BOOLEAN, Offset : 0..LogLength, answered : BOOLEAN]
      BY <3>1 DEF NotQueried
    <3>3. QED
      BY <1>1, <2>3, <3>2
  <2>4. CASE UNCHANGED <<asked, queried>>
    BY <1>1, <2>4
  <2>5. QED
    BY <2>1, <2>2, <2>3, <2>4, Changing
<1>6. stores' \in [Stream -> 0..LogLength] /\ misnamed' \in BOOLEAN
  <2>1. CASE ChunkIsHandled
    <3>1. PICK k \in Nat, i \in Id, first \in Offset, n \in Nat, stream \in Stream,
               number \in Nat \ {0} : Handles(k, i, first, n, stream, number)
      BY <2>1 DEF ChunkIsHandled
    <3>2. PICK name \in Stream \cup {""} : name = SubscriptionStreamTable[i]
      BY <1>1
    <3>3. /\ stores' = IF k # 0 /\ name # "" /\ link = "up"
                       THEN [stores EXCEPT ![name] = first + k - 1] ELSE stores
          /\ k # 0 => first + k - 1 \in 0..LogLength
          /\ misnamed' = (misnamed \/ (k # 0 /\ name # stream /\ doubt[i] # "now"))
      BY <3>1, <3>2 DEF Handles, Offset
    <3>4. misnamed' \in BOOLEAN
      BY <1>1, <3>3
    <3>5. stores' \in [Stream -> 0..LogLength]
      BY <1>1, <3>3
    <3>6. QED
      BY <3>4, <3>5
  <2>2. CASE OffsetIsSent
    <3>1. PICK s \in Stream : StoresOffset(s)
      BY <2>2 DEF OffsetIsSent
    <3>2. stores' = (IF link = "up" THEN [stores EXCEPT ![s] = 0] ELSE stores)
          /\ misnamed' = misnamed /\ 0 \in 0..LogLength
      BY <1>2, <3>1 DEF StoresOffset
    <3>3. QED
      BY <1>1, <3>2
  <2>3. QED
    BY <1>1, <2>1, <2>2, Changing
<1>7. QED
  BY <1>3, <1>4, <1>5, <1>6

Subscriptions ==
    [stream : Stream \cup {""}, credit : Nat, next : 0..LogLength, number : Nat]

LEMMA SubscriptionType ==
  ASSUME NEW r \in Subscriptions
  PROVE  r.stream \in Name /\ r.credit \in Nat /\ r.next \in Offset /\ r.number \in Nat
BY DEF Subscriptions, Name, Offset

LEMMA ServeFacts ==
  ASSUME subscription \in [Id -> Subscriptions], NEW i \in Id, NEW credit \in Nat,
         NEW next \in Offset, Serve(i, credit, next)
  PROVE  /\ subscription' \in [Id -> Subscriptions]
         /\ subscription'[i].stream = subscription[i].stream
         /\ subscription'[i].number = subscription[i].number
         /\ subscription'[i].credit = credit /\ subscription'[i].next = next
         /\ \A j \in Id : j # i => subscription'[j] = subscription[j]
BY DEF Serve, Subscriptions, Offset

LEMMA SubscriptionStep ==
  ASSUME Types, Steps
  PROVE  subscription' \in [Id -> Subscriptions]
<1>1. subscription \in [Id -> Subscriptions] /\ made \in Seq(Offset)
  BY DEF Types, TypeOK, Subscriptions
<1>2. LogLength \in Nat /\ InitialCredit \in Nat
  BY ConsumerAssumption
<1>3. CASE IdIsOpened
  <2>1. PICK i \in Id, s \in Stream, o \in Offset : Opens(i, s, o)
    BY <1>3 DEF IdIsOpened
  <2>2. subscription' = [subscription EXCEPT ![i] =
          [stream |-> s, credit |-> InitialCredit, next |-> o, number |-> Len(made) + 1]]
    BY <2>1 DEF Opens
  <2>3. Len(made) + 1 \in Nat
    BY <1>1
  <2>4. [stream |-> s, credit |-> InitialCredit, next |-> o, number |-> Len(made) + 1]
          \in Subscriptions
    BY <1>2, <2>3 DEF Subscriptions, Offset
  <2>5. QED
    BY <1>1, <2>2, <2>4
<1>4. CASE IdIsClosed
  <2>1. PICK i \in Id : Closes(i)
    BY <1>4 DEF IdIsClosed
  <2>2. subscription' = [subscription EXCEPT ![i] = NoSubscription]
    BY <2>1 DEF Closes
  <2>3. NoSubscription \in Subscriptions
    BY <1>2 DEF NoSubscription, Subscriptions
  <2>4. QED
    BY <1>1, <2>2, <2>3
<1>5. CASE CreditArrives
  <2>1. PICK i \in Id, n \in Nat : Credited(i, n)
    BY <1>5 DEF CreditArrives
  <2>2. subscription[i].credit + n \in Nat /\ subscription[i].next \in Offset
    <3>1. subscription[i].credit \in Nat /\ subscription[i].next \in Offset
      BY <1>1, SubscriptionType
    <3>2. QED
      BY <3>1
  <2>3. Serve(i, subscription[i].credit + n, subscription[i].next)
    BY <2>1 DEF Credited
  <2>4. QED
    BY <1>1, <2>2, <2>3, ServeFacts
<1>6. CASE ChunkIsSent
  <2>1. PICK i \in Id, n \in Nat : Delivers(i, n)
    BY <1>6 DEF ChunkIsSent
  <2>2. /\ subscription[i].credit > 0 /\ subscription[i].next + n <= LogLength
        /\ Serve(i, subscription[i].credit - 1, subscription[i].next + n)
    BY <2>1 DEF Delivers
  <2>3. subscription[i].credit - 1 \in Nat /\ subscription[i].next + n \in Offset
    <3>1. subscription[i].credit \in Nat /\ subscription[i].next \in Nat
      BY <1>1, SubscriptionType, Constants
    <3>2. QED
      BY <1>2, <2>2, <3>1 DEF Offset
  <2>4. QED
    BY <1>1, <2>2, <2>3, ServeFacts
<1>7. QED
  BY <1>1, <1>3, <1>4, <1>5, <1>6, Changing

LEMMA CountersStep ==
  ASSUME Types, Steps
  PROVE  chunks' \in [Id -> Nat] /\ grants' \in [Id -> Nat]
<1>1. chunks \in [Id -> Nat] /\ grants \in [Id -> Nat]
  BY DEF Types
<1>2. CASE ChunkIsHandled
  <2>1. PICK k \in Nat, i \in Id, first \in Offset, n \in Nat, stream \in Stream,
             number \in Nat \ {0} : Handles(k, i, first, n, stream, number)
    BY <1>2 DEF ChunkIsHandled
  <2>2. /\ chunks' = IF subscription[i].number = number
                     THEN [chunks EXCEPT ![i] = @ + 1] ELSE chunks
        /\ grants' = grants
    BY <2>1 DEF Handles
  <2>3. QED
    BY <1>1, <2>2
<1>3. CASE CreditIsSent
  <2>1. PICK i \in Id : Grants(i)
    BY <1>3 DEF CreditIsSent
  <2>2. /\ grants' = IF link = "up" THEN [grants EXCEPT ![i] = @ + 1] ELSE grants
        /\ chunks' = chunks
    BY <2>1 DEF Grants
  <2>3. QED
    BY <1>1, <2>2
<1>4. CASE IdIsOpened
  BY <1>1, <1>4 DEF IdIsOpened, Opens
<1>5. QED
  BY <1>1, <1>2, <1>3, <1>4, Changing

LEMMA OffsetsStep ==
  ASSUME Types, Steps
  PROVE  offsets' \in [Stream -> 0..LogLength]
<1>1. offsets \in [Stream -> 0..LogLength]
  BY DEF Types, TypeOK
<1>2. CASE OffsetIsStored
  BY <1>1, <1>2 DEF OffsetIsStored, Stores, Offset, Name
<1>3. QED
  BY <1>1, <1>2, Changing

LEMMA OffsetsType ==
  ASSUME NEW first \in Offset, NEW n \in Nat, first + n <= LogLength
  PROVE  Offsets(first, n) \in Seq(0..(LogLength - 1))
<1>1. first \in Nat /\ LogLength \in Nat
  BY Constants
<1>2. \A k \in 1..n : first + k - 1 \in 0..(LogLength - 1)
  BY <1>1
<1>3. [k \in 1..n |-> first + k - 1] \in [1..n -> 0..(LogLength - 1)]
  BY <1>2
<1>4. QED
  BY <1>3 DEF Offsets

LEMMA PassedStep ==
  ASSUME Types, Steps
  PROVE  passed' \in Seq(Seq(0..(LogLength - 1))) /\ Len(passed') = Len(made')
         /\ made' \in Seq(Offset)
<1> DEFINE P == Seq(0..(LogLength - 1))
<1>1. passed \in Seq(P) /\ made \in Seq(Offset) /\ Len(passed) = Len(made) /\ << >> \in P
  <2>1. << >> \in P
    OBVIOUS
  <2>2. passed \in Seq(P) /\ made \in Seq(Offset) /\ Len(passed) = Len(made)
    BY Zenon DEF Types, TypeOK
  <2>3. QED
    BY <2>1, <2>2
<1>2. CASE ChunkIsHandled
  <2>1. PICK k \in Nat, i \in Id, first \in Offset, n \in Nat, stream \in Stream,
             number \in Nat \ {0} :
          first + n <= LogLength /\ Handles(k, i, first, n, stream, number)
    BY <1>2 DEF ChunkIsHandled
  <2>2. PICK o \in P : o = Offsets(first, n)
    BY <2>1, OffsetsType
  <2>3. /\ toClient # << >> /\ Head(toClient).key = "Deliver"
        /\ Head(toClient).arg = <<i, first, n, stream, number>>
        /\ passed' = [passed EXCEPT ![number] = @ \o o] /\ made' = made
    BY <2>1, <2>2, Zenon DEF Handles, Receives, broker
  <2>4. number \in DOMAIN passed
    <3>1. toClient \in Seq(FromBroker)
      BY DEF Types, Channels
    <3>2. 1 \in DOMAIN toClient /\ toClient[1] = Head(toClient)
      BY <2>3, <3>1
    <3>3. number \in 1..Len(made)
      <4>1. Head(toClient).arg[5] = number
        BY <2>3
      <4>2. QED
        BY <2>3, <3>2, <4>1 DEF Types, Numbers
    <3>4. QED
      BY <1>1, <3>3
  <2> HIDE DEF P
  <2>5. passed[number] \in P
    BY <1>1, <2>4, ElementOf
  <2>6. passed[number] \o o \in P
    BY <2>5 DEF P
  <2>7. passed' \in Seq(P) /\ Len(passed') = Len(passed)
    BY <1>1, <2>3, <2>4, <2>6, ReplaceFacts
  <2>8. QED
    BY <1>1, <2>3, <2>7 DEF P
<1>3. CASE IdIsOpened
  <2>1. PICK i \in Id, s \in Stream, o \in Offset : Opens(i, s, o)
    BY <1>3 DEF IdIsOpened
  <2>2. made' = Append(made, o) /\ passed' = Append(passed, << >>)
    BY <2>1 DEF Opens
  <2> HIDE DEF P
  <2>3. made' \in Seq(Offset) /\ Len(made') = Len(made) + 1
        /\ passed' \in Seq(P) /\ Len(passed') = Len(passed) + 1
    BY <1>1, <2>2
  <2>4. QED
    BY <1>1, <2>3 DEF P
<1>4. QED
  BY <1>1, <1>2, <1>3, Changing

LEMMA ReplyFacts ==
  ASSUME NEW m \in FromClient, NEW code, NEW arg, m.key \in Asked
  PROVE  LET r == Reply(m, code, arg) IN
         /\ r.key = m.key /\ r.corr = m.corr /\ r.code = code /\ r.arg = arg
         /\ r.key # "Deliver" /\ r.corr # 0
BY ClientFrame DEF Reply, Message, Asked, Changes

LEMMA PushFacts ==
  ASSUME NEW key, NEW arg
  PROVE  Push(key, arg).key = key /\ Push(key, arg).corr = 0 /\ Push(key, arg).arg = arg
BY DEF Push, Message

\* A request that ends without its answer leaves the frames as they are, or takes one
\* that is neither a chunk nor an answer.
LEMMA GivesUpFacts ==
  ASSUME GivesUp
  PROVE  \/ toClient' = toClient
         \/ Receives /\ Head(toClient).key \notin Asked \cup {"Deliver"} /\ Head(toClient).corr = 0
<1>1. CASE Receives /\ IsShort(Head(toClient))
  <2>1. PICK m \in FromBroker : m = Head(toClient)
    BY <1>1 DEF Receives
  <2>2. m.key \in {"Credit", "Heartbeat"} /\ m.corr = 0
    BY <1>1, <2>1, BrokerFrame
  <2>3. QED
    BY <1>1, <2>1, <2>2 DEF Asked, Changes
<1>2. QED
  BY <1>1 DEF GivesUp

\* What becomes of the frames on their way to the client.
LEMMA Arriving ==
  ASSUME Types, Steps
  PROVE  \/ UNCHANGED toClient \/ ChunkIsSent \/ ChunkIsHandled
         \/ Receives /\ Head(toClient).key # "Deliver"
         \/ link' = "down" /\ \E n \in 0..Len(toClient) : toClient' = SubSeq(toClient, 1, n)
         \/ \E m \in FromBroker : m.key # "Deliver" /\ toClient' = Append(toClient, m)
<1> DEFINE Told == \E m \in FromBroker : m.key # "Deliver" /\ toClient' = Append(toClient, m)
<1>1. CASE RequestIsMade \/ GivesUp \/ CreditIsSent \/ OffsetIsSent
  BY <1>1, GivesUpFacts
     DEF RequestIsMade, Asks, CreditIsSent, Grants, OffsetIsSent, StoresOffset
<1>2. CASE LearnsName \/ LearnsOffset \/ Drops
  <2>1. CASE LearnsName \/ LearnsOffset
    <3>1. Receives /\ Head(toClient).corr = call.corr /\ call.key \in Asked
      BY <2>1 DEF LearnsName, LearnsOffset, Asked
    <3>2. call.corr # 0
      BY <3>1, CallFacts DEF Types
    <3>3. Head(toClient).key # "Deliver"
      BY <3>1, <3>2, BrokerFrame DEF Receives
    <3>4. QED
      BY <3>1, <3>3
  <2>2. QED
    BY <1>2, <2>1 DEF Drops
<1>3. CASE ChunkIsHandled
  BY <1>3
<1>4. CASE Loses
  BY <1>4 DEF Loses
<1>5. CASE CreditArrives \/ OffsetIsStored
  BY <1>5 DEF CreditArrives, Credited, OffsetIsStored, Stores
<1>6. CASE UNCHANGED vars
  BY <1>6 DEF vars, connection
<1>7. \A m : Tells(m) /\ m.key # "Deliver" => Told
  BY DEF Tells
<1>8. Takes /\ Head(toBroker).key \in Asked =>
        \A code, arg : Reply(Head(toBroker), code, arg).key # "Deliver"
  BY DEF Reply, Message, Asked, Changes
<1> HIDE DEF Told
<1>9. Refuses => Told
  BY <1>7, <1>8 DEF Refuses, Asked
<1>10. CreditRefused \/ HeartbeatIsSent => Told
  BY <1>7, PushFacts DEF CreditRefused, HeartbeatIsSent
<1>11. IdIsOpened => Told
  BY <1>7, <1>8 DEF IdIsOpened, Opens, Asked, Changes
<1>12. IdIsClosed => Told
  BY <1>7, <1>8 DEF IdIsClosed, Closes, Asked, Changes
<1>13. QueryIsAnswered => Told
  BY <1>7, <1>8 DEF QueryIsAnswered, AnswersQuery, Asked
<1>14. QED
  BY <1>1, <1>2, <1>3, <1>4, <1>5, <1>6, <1>9, <1>10, <1>11, <1>12, <1>13
     DEF Steps, ClientSteps, BrokerSteps, Told

\* A chunk on its way was on its way before, or is the one sent now.
LEMMA ChunksArriving ==
  ASSUME Types, Steps, NEW k \in DOMAIN toClient', toClient'[k].key = "Deliver"
  PROVE  \/ \E j \in DOMAIN toClient : toClient[j] = toClient'[k]
         \/ \E i \in Id, n \in Nat :
              Delivers(i, n) /\ toClient'[k].arg[1] = i
              /\ toClient'[k].arg[5] = subscription[i].number
<1>1. toClient \in Seq(FromBroker)
  BY DEF Types, Channels
<1>2. CASE UNCHANGED toClient
  BY <1>2
<1>3. CASE Receives \/ ChunkIsHandled
  <2>1. ASSUME ChunkIsHandled PROVE Receives
    <3>1. PICK j \in Nat, i \in Id, first \in Offset, n \in Nat, stream \in Stream,
               number \in Nat \ {0} : Handles(j, i, first, n, stream, number)
      BY <2>1 DEF ChunkIsHandled
    <3>2. QED
      BY <3>1, Zenon DEF Handles
  <2>2. toClient # << >> /\ toClient' = Tail(toClient)
    BY <1>3, <2>1 DEF Receives
  <2>3. k + 1 \in DOMAIN toClient /\ toClient'[k] = toClient[k + 1]
    BY <1>1, <2>2, TailFacts
  <2>4. QED
    BY <2>3
<1>4. ASSUME NEW n \in 0..Len(toClient), toClient' = SubSeq(toClient, 1, n)
      PROVE  \E j \in DOMAIN toClient : toClient[j] = toClient'[k]
  <2>1. k \in DOMAIN toClient /\ toClient'[k] = toClient[k]
    BY <1>1, <1>4
  <2>2. QED
    BY <2>1
<1>5. ASSUME NEW m \in FromBroker, m.key # "Deliver", toClient' = Append(toClient, m)
      PROVE  \E j \in DOMAIN toClient : toClient[j] = toClient'[k]
  BY <1>1, <1>5, GrownBy
<1>6. CASE ChunkIsSent
  <2>1. PICK i \in Id, n \in Nat : Delivers(i, n)
    BY <1>6 DEF ChunkIsSent
  <2> DEFINE a == <<i, subscription[i].next, n, subscription[i].stream, subscription[i].number>>
             m == Push("Deliver", a)
  <2>2. m.arg[1] = i /\ m.arg[5] = subscription[i].number
    BY PushFacts
  <2>3. toClient' = Append(toClient, m)
    BY <2>1 DEF Delivers, Tells
  <2> HIDE DEF m
  <2>4. (\E j \in DOMAIN toClient : toClient[j] = toClient'[k]) \/ toClient'[k] = m
    BY <1>1, <2>3, GrownBy
  <2>5. QED
    BY <2>1, <2>2, <2>4
<1>7. QED
  BY <1>2, <1>3, <1>4, <1>5, <1>6, Arriving

LEMMA NumbersStep ==
  ASSUME Types, Steps
  PROVE  Numbers'
<1>1. /\ subscription \in [Id -> Subscriptions] /\ made \in Seq(Offset)
      /\ toClient \in Seq(FromBroker) /\ Numbers
  BY DEF Types, TypeOK, Subscriptions, Channels
<1>2. PICK l \in Nat : l = Len(made)
  BY <1>1
<1>3. NoSubscription.number = 0 /\ NoSubscription.stream = ""
  BY DEF NoSubscription
<1>4. \A i \in Id : subscription[i].number \in Nat /\ subscription[i].number <= l
  <2>1. \A i \in Id : Subscribed(i) => subscription[i].number \in 1..l
    BY <1>1, <1>2 DEF Numbers
  <2>2. \A i \in Id : ~Subscribed(i) => subscription[i].number = 0
    BY <1>3 DEF Subscribed
  <2>3. QED
    BY <1>2, <2>1, <2>2
\* The steps that leave streams and numbers as they are.
<1>5. ASSUME UNCHANGED made,
             \A i \in Id : /\ subscription'[i] # NoSubscription =>
                                subscription[i] # NoSubscription
                           /\ subscription'[i] # NoSubscription =>
                                /\ subscription'[i].stream = subscription[i].stream
                                /\ subscription'[i].number = subscription[i].number
                           /\ subscription'[i].number \in {0, subscription[i].number}
      PROVE  Numbers'
  <2>1. ASSUME NEW i \in Id, subscription'[i] # NoSubscription
        PROVE  /\ subscription'[i].stream \in Stream
               /\ subscription'[i].number \in 1..Len(made')
               /\ \A j \in Id : subscription'[j].number = subscription'[i].number => j = i
    <3>1. /\ subscription[i].stream \in Stream /\ subscription[i].number \in 1..l
          /\ \A j \in Id : subscription[j].number = subscription[i].number => j = i
      BY <1>1, <1>2, <1>5, <2>1 DEF Numbers, Subscribed
    <3>2. subscription[i].number # 0
      BY <3>1
    <3>3. QED
      BY <1>2, <1>5, <2>1, <3>1, <3>2
  <2>2. ASSUME NEW k \in DOMAIN toClient', toClient'[k].key = "Deliver"
        PROVE  /\ toClient'[k].arg[5] \in 1..Len(made')
               /\ \A i \in Id :
                    subscription'[i].number = toClient'[k].arg[5] => toClient'[k].arg[1] = i
    <3>1. /\ toClient'[k].arg[5] \in 1..l
          /\ \A i \in Id : subscription[i].number = toClient'[k].arg[5] => toClient'[k].arg[1] = i
      <4>1. CASE \E j \in DOMAIN toClient : toClient[j] = toClient'[k]
        BY <1>1, <1>2, <2>2, <4>1 DEF Numbers
      <4>2. CASE \E i \in Id, n \in Nat :
                   Delivers(i, n) /\ toClient'[k].arg[1] = i
                   /\ toClient'[k].arg[5] = subscription[i].number
        <5>1. PICK i \in Id : /\ Subscribed(i) /\ toClient'[k].arg[1] = i
                              /\ toClient'[k].arg[5] = subscription[i].number
          BY <4>2 DEF Delivers
        <5>2. QED
          BY <1>1, <1>2, <5>1 DEF Numbers
      <4>3. QED
        BY <2>2, <4>1, <4>2, ChunksArriving
    <3>2. toClient'[k].arg[5] # 0
      BY <3>1
    <3>3. QED
      BY <1>2, <1>5, <3>1, <3>2
  <2>3. QED
    BY <2>1, <2>2 DEF Numbers, Subscribed
<1>6. CASE IdIsOpened
  <2>1. PICK i \in Id, s \in Stream, o \in Offset : Opens(i, s, o)
    BY <1>6 DEF IdIsOpened
  <2>2. subscription' = [subscription EXCEPT ![i] =
          [stream |-> s, credit |-> InitialCredit, next |-> o, number |-> l + 1]]
        /\ made' = Append(made, o)
    BY <1>2, <2>1 DEF Opens
  <2>3. Len(made') = l + 1
    BY <1>1, <1>2, <2>2
  <2>4. /\ subscription'[i].stream = s /\ subscription'[i].number = l + 1
        /\ \A j \in Id : j # i => subscription'[j] = subscription[j]
    BY <1>1, <2>2
  <2>5. ASSUME NEW j \in Id, subscription'[j] # NoSubscription
        PROVE  /\ subscription'[j].stream \in Stream
               /\ subscription'[j].number \in 1..Len(made')
               /\ \A e \in Id : subscription'[e].number = subscription'[j].number => e = j
    <3>1. CASE j = i
      <4>1. \A e \in Id : e # i => subscription'[e].number # l + 1
        BY <1>2, <1>4, <2>4
      <4>2. QED
        BY <1>2, <2>3, <2>4, <3>1, <4>1
    <3>2. CASE j # i
      <4>1. /\ subscription[j].stream \in Stream /\ subscription[j].number \in 1..l
            /\ \A e \in Id : subscription[e].number = subscription[j].number => e = j
        BY <1>1, <1>2, <2>4, <2>5, <3>2 DEF Numbers, Subscribed
      <4>2. subscription[j].number # l + 1 /\ subscription[j].number \in 1..(l + 1)
        BY <4>1
      <4>3. QED
        BY <2>3, <2>4, <3>2, <4>1, <4>2
    <3>3. QED
      BY <3>1, <3>2
  <2>6. ASSUME NEW k \in DOMAIN toClient', toClient'[k].key = "Deliver"
        PROVE  /\ toClient'[k].arg[5] \in 1..Len(made')
               /\ \A e \in Id :
                    subscription'[e].number = toClient'[k].arg[5] => toClient'[k].arg[1] = e
    <3>1. Takes
      BY <2>1 DEF Opens
    <3>2. ~ \E e \in Id, n \in Nat : Delivers(e, n)
      <4>1. UNCHANGED toBroker => ~Takes
        <5>1. toBroker \in Seq(FromClient)
          BY DEF Types, Channels
        <5>2. toBroker # << >> => Len(Tail(toBroker)) # Len(toBroker)
          BY <5>1
        <5>3. QED
          BY <5>2 DEF Takes
      <4>2. QED
        BY <3>1, <4>1 DEF Delivers
    <3>3. PICK j \in DOMAIN toClient : toClient[j] = toClient'[k]
      BY <2>6, <3>2, ChunksArriving
    <3>4. /\ toClient'[k].arg[5] \in 1..l
          /\ \A e \in Id : subscription[e].number = toClient'[k].arg[5] => toClient'[k].arg[1] = e
      BY <1>1, <1>2, <2>6, <3>3 DEF Numbers
    <3>5. toClient'[k].arg[5] # l + 1 /\ toClient'[k].arg[5] \in 1..(l + 1)
      BY <3>4
    <3>6. QED
      BY <2>3, <2>4, <3>4, <3>5
  <2>7. QED
    BY <2>5, <2>6 DEF Numbers, Subscribed
<1>7. CASE IdIsClosed
  <2>1. PICK i \in Id : Closes(i)
    BY <1>7 DEF IdIsClosed
  <2>2. subscription' = [subscription EXCEPT ![i] = NoSubscription] /\ UNCHANGED made
    BY <2>1 DEF Closes
  <2>3. QED
    BY <1>1, <1>3, <1>5, <2>2
<1>8. CASE CreditArrives
  <2>1. PICK i \in Id, n \in Nat : Credited(i, n)
    BY <1>8 DEF CreditArrives
  <2>2. subscription[i].credit + n \in Nat /\ subscription[i].next \in Offset
    <3>1. subscription[i].credit \in Nat /\ subscription[i].next \in Offset
      BY <1>1, SubscriptionType
    <3>2. QED
      BY <3>1
  <2>3. /\ Serve(i, subscription[i].credit + n, subscription[i].next) /\ Subscribed(i)
        /\ UNCHANGED made
    BY <2>1 DEF Credited
  <2>4. QED
    BY <1>1, <1>5, <2>2, <2>3, ServeFacts DEF Subscribed
<1>9. CASE ChunkIsSent
  <2>1. PICK i \in Id, n \in Nat : Delivers(i, n)
    BY <1>9 DEF ChunkIsSent
  <2>2. /\ subscription[i].credit > 0 /\ subscription[i].next + n <= LogLength
        /\ Serve(i, subscription[i].credit - 1, subscription[i].next + n) /\ Subscribed(i)
        /\ UNCHANGED made
    BY <2>1 DEF Delivers
  <2>3. subscription[i].credit - 1 \in Nat /\ subscription[i].next + n \in Offset
    <3>1. /\ subscription[i].credit \in Nat /\ subscription[i].next \in Nat
          /\ LogLength \in Nat
      BY <1>1, SubscriptionType, Constants
    <3>2. QED
      BY <2>2, <3>1 DEF Offset
  <2>4. QED
    BY <1>1, <1>5, <2>2, <2>3, ServeFacts DEF Subscribed
<1>10. CASE UNCHANGED <<subscription, made>>
  BY <1>5, <1>10
<1>11. CASE ChunkIsHandled
  <2>1. PICK k \in Nat, i \in Id, first \in Offset, n \in Nat, stream \in Stream,
             number \in Nat \ {0} : Handles(k, i, first, n, stream, number)
    BY <1>11 DEF ChunkIsHandled
  <2>2. UNCHANGED <<subscription, made>>
    BY <2>1 DEF Handles, broker
  <2>3. QED
    BY <1>10, <2>2
<1>12. QED
  BY <1>6, <1>7, <1>8, <1>9, <1>10, <1>11, Changing

LEMMA TypesStep ==
  ASSUME Types, Steps
  PROVE  Types'
<1>1. Channels'
  BY ChannelsStep, CallStep DEF Channels
<1>2. TypeOK'
  BY CallStep, ClientTypes, SubscriptionStep, OffsetsStep, PassedStep, Zenon
     DEF TypeOK, Subscriptions
<1>3. QED
  BY <1>1, <1>2, CountersStep, PassedStep, NumbersStep DEF Types

LEMMA InitTypes == Init => Types
<1> SUFFICES ASSUME Init PROVE Types
  OBVIOUS
<1>1. /\ toBroker = << >> /\ toClient = << >> /\ call = NoCall
      /\ passed = << >> /\ made = << >>
  BY Zenon DEF Init, ConnectionInit
<1>2. link = "up" /\ CorrelationId = 0 /\ misnamed = FALSE /\ asked = LogLength
  BY Zenon DEF Init, ConnectionInit
<1>3. /\ SubscriptionStreamTable = [i \in Id |-> ""] /\ doubt = [i \in Id |-> "none"]
      /\ subscription = [i \in Id |-> NoSubscription]
  BY Zenon DEF Init
<1>4. /\ stores = [s \in Stream |-> LogLength] /\ offsets = [s \in Stream |-> LogLength]
      /\ chunks = [i \in Id |-> 0] /\ grants = [i \in Id |-> 0]
  BY Zenon DEF Init
<1>5. queried = NotQueried
  BY Zenon DEF Init, NotQueried
<1>6. LogLength \in Nat /\ MaxRequests \in Nat
  BY Constants, RequestsAssumption
<1>7. Channels
  BY <1>1 DEF Channels
<1>8. Numbers
  <2>1. DOMAIN toClient = {}
    BY <1>1
  <2>2. \A i \in Id : ~Subscribed(i)
    BY <1>3 DEF Subscribed
  <2>3. QED
    BY <2>1, <2>2, Zenon DEF Numbers
<1>9. made \in Seq(Offset) /\ chunks \in [Id -> Nat] /\ grants \in [Id -> Nat]
  BY <1>1, <1>4
<1>10. passed \in Seq(Seq(0..(LogLength - 1))) /\ Len(passed) = Len(made)
  BY <1>1
<1>11. 0 \in 0..LogLength /\ LogLength \in 0..LogLength /\ 0 \in 0..MaxRequests
  BY <1>6
<1>12. subscription \in [Id -> Subscriptions]
  <2>1. NoSubscription \in Subscriptions
    BY <1>11 DEF NoSubscription, Subscriptions
  <2>2. QED
    BY <1>3, <2>1
<1>13. /\ link \in {"up", "down"} /\ CorrelationId \in 0..MaxRequests
       /\ misnamed \in BOOLEAN /\ asked \in 0..LogLength
  BY <1>2, <1>11
<1>14. /\ SubscriptionStreamTable \in [Id -> Stream \cup {""}]
       /\ doubt \in [Id -> {"none", "now", "past"}]
  BY <1>3
<1>15. stores \in [Stream -> 0..LogLength] /\ offsets \in [Stream -> 0..LogLength]
  BY <1>4, <1>11
<1>16. queried \in [ValidOffset : BOOLEAN, Offset : 0..LogLength, answered : BOOLEAN]
  BY <1>5, <1>11 DEF NotQueried
<1>17. TypeOK
  BY <1>10, <1>12, <1>13, <1>14, <1>15, <1>16, Zenon DEF TypeOK, Subscriptions
<1>18. QED
  BY <1>7, <1>8, <1>9, <1>17 DEF Types

-----------------------------------------------------------------------------
(* Requests and responses.                                                 *)

Ordered == InTurn(toBroker, toClient, CorrelationId, call)

\* A request that the broker takes and answers.
LEMMA ReplyTurn ==
  ASSUME Types, Ordered, Takes, Head(toBroker).key \in Asked, NEW code, NEW arg,
         Tells(Reply(Head(toBroker), code, arg)), UNCHANGED <<CorrelationId, call>>
  PROVE  Ordered'
<1>1. toBroker \in Seq(FromClient) /\ toClient \in Seq(FromBroker) /\ toBroker # << >>
  BY DEF Types, Channels, Takes
<1>2. PICK m \in FromClient : m = Head(toBroker)
  BY DEF Takes
<1>3. PICK r : r = Reply(m, code, arg)
  OBVIOUS
<1>4. r.corr = m.corr /\ r.key = m.key /\ r.corr # 0
  BY <1>2, <1>3, ReplyFacts
<1>5. InTurn(Tail(toBroker), Append(toClient, r), CorrelationId, call)
  BY <1>1, <1>2, <1>4, InTurnReply DEF Ordered
<1>6. QED
  BY <1>2, <1>3, <1>5 DEF Ordered, Takes, Tells

LEMMA OrderedStep ==
  ASSUME Types, Ordered, Steps
  PROVE  Ordered'
<1>1. /\ toBroker \in Seq(FromClient) /\ toClient \in Seq(FromBroker)
      /\ CorrelationId \in Nat
      /\ call # NoCall => call.corr \in Nat \ {0}
  <2>1. CorrelationId \in 0..MaxRequests /\ MaxRequests \in Nat
    BY RequestsAssumption DEF Types, TypeOK
  <2>2. QED
    BY <2>1, CallFacts DEF Types, Channels
<1>2. /\ Receives => toClient # << >> /\ toClient' = Tail(toClient)
      /\ Takes => toBroker # << >> /\ toBroker' = Tail(toBroker)
  BY DEF Receives, Takes
<1>3. CASE RequestIsMade
  <2>1. PICK key, arg : key \in Asked /\ Asks(key, arg)
    BY <1>3 DEF RequestIsMade
  <2>2. /\ toBroker' = toBroker
           \/ toBroker' = Append(toBroker, Message(key, CorrelationId + 1, "none", arg))
        /\ toClient' = toClient /\ CorrelationId' = CorrelationId + 1
        /\ call' = [key |-> key, corr |-> CorrelationId + 1, arg |-> arg]
    BY <2>1 DEF Asks, Sends
  <2>3. \A m \in FromClient : m.corr \in Nat
    BY ClientFrame
  <2>4. \A m \in FromBroker : m.corr \in Nat
    BY BrokerFrame
  <2>5. QED
    BY <1>1, <2>2, <2>3, <2>4, InTurnNew DEF Ordered
<1>4. ASSUME Receives PROVE InTurn(toBroker, toClient', CorrelationId, call)
  <2>1. InTurn(toBroker, Tail(toClient), CorrelationId, call)
    BY <1>1, <1>2, <1>4, InTurnTail DEF Ordered
  <2>2. QED
    BY <1>2, <1>4, <2>1
<1>5. CASE GivesUp
  <2>1. InTurn(toBroker, toClient', CorrelationId, call)
    BY <1>4, <1>5, GivesUpFacts DEF Ordered
  <2>2. QED
    BY <1>5, <2>1, InTurnEnds DEF Ordered, GivesUp
<1>6. CASE LearnsName
  BY <1>4, <1>6, InTurnEnds DEF Ordered, LearnsName
<1>7. CASE LearnsOffset
  BY <1>4, <1>7, InTurnEnds DEF Ordered, LearnsOffset
<1>8. CASE Drops
  BY <1>4, <1>8 DEF Ordered, Drops
<1>9. CASE ChunkIsHandled
  <2>1. PICK k \in Nat, i \in Id, first \in Offset, n \in Nat, stream \in Stream,
             number \in Nat \ {0} : Handles(k, i, first, n, stream, number)
    BY <1>9 DEF ChunkIsHandled
  <2>2. PICK store, credit : /\ store = Push("StoreOffset", <<SubscriptionStreamTable[i], first + k - 1>>)
                             /\ credit = Push("Credit", <<i, DefaultCredit>>)
    OBVIOUS
  <2>3. /\ Receives /\ credit \in FromClient /\ (k # 0 => store \in FromClient)
        /\ toBroker' = IF link = "up"
                       THEN Append(IF k = 0 THEN toBroker ELSE Append(toBroker, store), credit)
                       ELSE toBroker
        /\ UNCHANGED <<CorrelationId, call>>
    BY <2>1, <2>2 DEF Handles
  <2>4. store.corr = 0 /\ credit.corr = 0
    BY <2>2, PushFacts
  <2>5. PICK t : t = IF k = 0 THEN toBroker ELSE Append(toBroker, store)
    OBVIOUS
  <2>6. t \in Seq(FromClient) /\ InTurn(t, toClient', CorrelationId, call)
    <3>1. CASE k = 0
      BY <1>1, <1>4, <2>3, <2>5, <3>1
    <3>2. CASE k # 0
      <4>1. Append(toBroker, store) \in Seq(FromClient)
        BY <1>1, <2>3, <3>2
      <4>2. QED
        BY <1>1, <1>4, <2>3, <2>4, <2>5, <3>2, <4>1, InTurnPush
    <3>3. QED
      BY <3>1, <3>2
  <2>7. InTurn(Append(t, credit), toClient', CorrelationId, call)
    BY <1>1, <2>4, <2>6, InTurnPush
  <2>8. InTurn(toBroker', toClient', CorrelationId, call)
    BY <1>4, <2>3, <2>5, <2>7
  <2>9. QED
    BY <2>3, <2>8 DEF Ordered
<1>10. ASSUME NEW m, Sends(m), m.corr = 0, UNCHANGED <<toClient, CorrelationId, call>>
       PROVE  Ordered'
  BY <1>1, <1>10, InTurnPush DEF Ordered, Sends
<1>11. CASE CreditIsSent
  BY <1>10, <1>11, PushFacts DEF CreditIsSent, Grants
<1>12. CASE OffsetIsSent
  BY <1>10, <1>12, PushFacts DEF OffsetIsSent, StoresOffset
<1>13. CASE Refuses
  BY <1>13, ReplyTurn DEF Refuses, Asked
<1>14. CASE IdIsOpened
  BY <1>14, ReplyTurn DEF IdIsOpened, Opens, Asked, Changes
<1>15. CASE IdIsClosed
  BY <1>15, ReplyTurn DEF IdIsClosed, Closes, Asked, Changes
<1>16. CASE QueryIsAnswered
  <2>1. PICK s \in Stream : AnswersQuery(s)
    BY <1>16 DEF QueryIsAnswered
  <2>2. \E code, arg : Tells(Reply(Head(toBroker), code, arg))
    BY <2>1 DEF AnswersQuery
  <2>3. Takes /\ Head(toBroker).key \in Asked /\ UNCHANGED <<CorrelationId, call>>
    BY <2>1 DEF AnswersQuery, Asked
  <2>4. QED
    BY <2>2, <2>3, ReplyTurn
<1>17. ASSUME Takes PROVE InTurn(toBroker', toClient, CorrelationId, call)
  <2>1. InTurn(Tail(toBroker), toClient, CorrelationId, call)
    BY <1>1, <1>2, <1>17, InTurnTaken DEF Ordered
  <2>2. QED
    BY <1>2, <1>17, <2>1
<1>18. CASE CreditArrives
  BY <1>17, <1>18 DEF CreditArrives, Credited, Ordered
<1>19. CASE OffsetIsStored
  BY <1>17, <1>19 DEF OffsetIsStored, Stores, Ordered
<1>20. CASE CreditRefused \/ HeartbeatIsSent
  <2>1. PICK m : /\ m.corr = 0 /\ toClient' = Append(toClient, m)
                 /\ Takes \/ UNCHANGED toBroker
                 /\ UNCHANGED <<CorrelationId, call>>
    BY <1>20, PushFacts DEF CreditRefused, HeartbeatIsSent, Tells
  <2>2. InTurn(toBroker', toClient, CorrelationId, call)
    BY <1>17, <2>1 DEF Ordered
  <2>3. toBroker' \in Seq(FromClient)
    BY ChannelsStep
  <2>4. InTurn(toBroker', Append(toClient, m), CorrelationId, call)
    BY <1>1, <2>1, <2>2, <2>3, InTurnTells
  <2>5. QED
    BY <2>1, <2>4 DEF Ordered
<1>21. CASE ChunkIsSent
  <2>1. PICK i \in Id, n \in Nat : Delivers(i, n)
    BY <1>21 DEF ChunkIsSent
  <2>2. PICK m : /\ m = Push("Deliver", <<i, subscription[i].next, n, subscription[i].stream,
                                          subscription[i].number>>)
                 /\ m.corr = 0
    BY PushFacts
  <2>3. UNCHANGED <<toBroker, CorrelationId, call>> /\ toClient' = Append(toClient, m)
    BY <2>1, <2>2 DEF Delivers, Tells
  <2>4. QED
    BY <1>1, <2>2, <2>3, InTurnTells DEF Ordered
<1>22. CASE Loses
  <2>1. PICK n \in 0..Len(toClient) : toClient' = SubSeq(toClient, 1, n)
    BY <1>22 DEF Loses
  <2>2. toBroker' = << >> /\ UNCHANGED <<CorrelationId, call>>
    BY <1>22 DEF Loses
  <2>3. QED
    BY <1>1, <2>1, <2>2, InTurnLost DEF Ordered
<1>23. CASE UNCHANGED vars
  BY <1>23 DEF vars, connection, Ordered
<1>24. QED
  BY <1>3, <1>5, <1>6, <1>7, <1>8, <1>9, <1>11, <1>12, <1>13, <1>14, <1>15, <1>16, <1>18, <1>19,
     <1>20, <1>21, <1>22, <1>23 DEF Steps, ClientSteps, BrokerSteps

-----------------------------------------------------------------------------
(* The messages of a subscription.                                         *)

\* A chunk of subscription e goes on where the one before it ended.
ChunkSteps(e) ==
    {t \in Offset \X FromBroker \X Offset :
        IF t[2].key = "Deliver" /\ t[2].arg[5] = e
        THEN t[2].arg[2] = t[1] /\ t[3] = t[1] + t[2].arg[3]
        ELSE t[3] = t[1]}

\* From the messages that were handed to the callback the chunks on their way lead to the
\* next offset of the broker.
InOrder ==
    \A e \in DOMAIN made : \E end \in Offset :
        /\ Leads(made[e] + Len(passed[e]), toClient, end, ChunkSteps(e), Offset)
        /\ \A i \in Id : link = "up" /\ subscription[i].number = e => subscription[i].next = end

LEMMA ChunkStep ==
  ASSUME NEW e, NEW m \in FromBroker, NEW x \in Offset, NEW y
  PROVE  /\ ~(m.key = "Deliver" /\ m.arg[5] = e) => <<x, m, x>> \in ChunkSteps(e)
         /\ <<x, m, y>> \in ChunkSteps(e) =>
              IF m.key = "Deliver" /\ m.arg[5] = e
              THEN m.arg[2] = x /\ y = x + m.arg[3]
              ELSE y = x
         /\ m.key = "Deliver" /\ m.arg[5] = e /\ m.arg[2] = x /\ y = x + m.arg[3] /\ y \in Offset
              => <<x, m, y>> \in ChunkSteps(e)
BY DEF ChunkSteps

\* The subscriptions stay what they were, or end.
QuietSubscriptions ==
    \A i \in Id : /\ subscription'[i].number \in {0, subscription[i].number}
                  /\ subscription'[i].number # 0 =>
                       subscription'[i].next = subscription[i].next

LEMMA Quiet ==
  ASSUME Types, Steps
  PROVE  IdIsOpened \/ ChunkIsSent \/ QuietSubscriptions
<1>1. subscription \in [Id -> Subscriptions]
  BY DEF Types, TypeOK, Subscriptions
<1>2. CASE UNCHANGED subscription
  BY <1>2 DEF QuietSubscriptions
<1>3. CASE IdIsClosed
  <2>1. PICK i \in Id : Closes(i)
    BY <1>3 DEF IdIsClosed
  <2>2. subscription' = [subscription EXCEPT ![i] = NoSubscription] /\ NoSubscription.number = 0
    BY <2>1 DEF Closes, NoSubscription
  <2>3. QED
    BY <1>1, <2>2 DEF QuietSubscriptions
<1>4. CASE CreditArrives
  <2>1. PICK i \in Id, n \in Nat : Credited(i, n)
    BY <1>4 DEF CreditArrives
  <2>2. subscription[i].credit + n \in Nat /\ subscription[i].next \in Offset
    <3>1. subscription[i].credit \in Nat /\ subscription[i].next \in Offset
      BY <1>1, SubscriptionType
    <3>2. QED
      BY <3>1
  <2>3. Serve(i, subscription[i].credit + n, subscription[i].next)
    BY <2>1 DEF Credited
  <2>4. QED
    BY <1>1, <2>2, <2>3, ServeFacts DEF QuietSubscriptions
<1>5. QED
  BY <1>2, <1>3, <1>4, Changing

LEMMA HandledFacts ==
  ASSUME Types, InOrder, NEW k \in Nat, NEW i \in Id, NEW first \in Offset, NEW n \in Nat,
         NEW stream \in Stream, NEW number \in Nat \ {0}, first + n <= LogLength,
         Handles(k, i, first, n, stream, number)
  PROVE  /\ number \in DOMAIN made /\ number \in DOMAIN passed
         /\ first = made[number] + Len(passed[number])
         /\ passed' \in Seq(Seq(0..(LogLength - 1))) /\ DOMAIN passed' = DOMAIN passed
         /\ passed'[number] = passed[number] \o Offsets(first, n)
         /\ \A e \in DOMAIN passed : e # number => passed'[e] = passed[e]
         /\ Receives /\ Head(toClient).key = "Deliver"
         /\ Head(toClient).arg = <<i, first, n, stream, number>>
<1>1. /\ toClient \in Seq(FromBroker) /\ made \in Seq(Offset) /\ Len(passed) = Len(made)
      /\ passed \in Seq(Seq(0..(LogLength - 1)))
  <2>1. toClient \in Seq(FromBroker) /\ made \in Seq(Offset)
    BY DEF Types, Channels
  <2>2. passed \in Seq(Seq(0..(LogLength - 1))) /\ Len(passed) = Len(made)
    BY Zenon DEF Types, TypeOK
  <2>3. QED
    BY <2>1, <2>2
<1>2. /\ Receives /\ Head(toClient).key = "Deliver"
      /\ Head(toClient).arg = <<i, first, n, stream, number>>
      /\ passed' = [passed EXCEPT ![number] = @ \o Offsets(first, n)]
  BY Zenon DEF Handles
<1>3. PICK m \in FromBroker : /\ m = Head(toClient) /\ m = toClient[1] /\ 1 \in DOMAIN toClient
                              /\ m.key = "Deliver" /\ m.arg = <<i, first, n, stream, number>>
  BY <1>1, <1>2, TailFacts DEF Receives
<1>4. m.arg[2] = first /\ m.arg[3] = n /\ m.arg[5] = number
  BY <1>3
<1>5. number \in 1..Len(made)
  BY <1>3, <1>4 DEF Types, Numbers
<1>6. number \in DOMAIN made /\ number \in DOMAIN passed
  BY <1>1, <1>5
<1>7. PICK x : x = made[number] + Len(passed[number])
  OBVIOUS
<1>8. PICK end : Leads(x, toClient, end, ChunkSteps(number), Offset)
  BY <1>6, <1>7 DEF InOrder
<1>9. PICK y \in Offset : <<x, m, y>> \in ChunkSteps(number)
  BY <1>1, <1>2, <1>3, <1>8, LeadsTail DEF Receives
<1>10. x \in Offset
  BY <1>1, <1>8, LeadsType
<1>11. first = x
  BY <1>3, <1>4, <1>9, <1>10, ChunkStep
<1>12. PICK P : P = Seq(0..(LogLength - 1))
  OBVIOUS
<1>13. passed[number] \in P /\ Offsets(first, n) \in P
  BY <1>1, <1>6, <1>12, OffsetsType, ElementOf
<1>14. passed[number] \o Offsets(first, n) \in P
  BY <1>12, <1>13
<1>15. /\ passed' \in Seq(P) /\ DOMAIN passed' = DOMAIN passed
       /\ passed'[number] = passed[number] \o Offsets(first, n)
       /\ \A e \in DOMAIN passed : e # number => passed'[e] = passed[e]
  BY <1>1, <1>2, <1>6, <1>12, <1>14, ReplaceFacts
<1>16. QED
  BY <1>2, <1>6, <1>7, <1>11, <1>12, <1>15

\* What the link may do in a step.
LEMMA LinkStep ==
  ASSUME Types, Steps
  PROVE  link' = "up" => link = "up"
BY Changing DEF Loses

\* The end of the frames on their way, when no chunk comes or goes.
LEMMA QuietOrder ==
  ASSUME Types, Steps, NEW e, NEW x, NEW end \in Offset,
         Leads(x, toClient, end, ChunkSteps(e), Offset)
  PROVE  \/ ChunkIsSent \/ ChunkIsHandled
         \/ \E y \in Offset : /\ Leads(x, toClient', y, ChunkSteps(e), Offset)
                              /\ link' = "up" => y = end
<1>1. toClient \in Seq(FromBroker)
  BY DEF Types, Channels
<1>2. CASE UNCHANGED toClient
  BY <1>2
<1>3. CASE Receives /\ Head(toClient).key # "Deliver"
  <2>1. toClient # << >> /\ toClient' = Tail(toClient) /\ Head(toClient) \in FromBroker
    BY <1>3 DEF Receives
  <2>2. PICK y \in Offset : /\ <<x, Head(toClient), y>> \in ChunkSteps(e)
                            /\ Leads(y, Tail(toClient), end, ChunkSteps(e), Offset)
    BY <1>1, <2>1, LeadsTail
  <2>3. x \in Offset
    BY <1>1, LeadsType
  <2>4. y = x
    BY <1>3, <2>1, <2>2, <2>3, ChunkStep
  <2>5. QED
    BY <2>1, <2>2, <2>4
<1>4. CASE link' = "down" /\ \E n \in 0..Len(toClient) : toClient' = SubSeq(toClient, 1, n)
  <2>1. PICK n \in 0..Len(toClient) : toClient' = SubSeq(toClient, 1, n)
    BY <1>4
  <2>2. QED
    BY <1>1, <1>4, <2>1, LeadsFront
<1>5. CASE \E m \in FromBroker : m.key # "Deliver" /\ toClient' = Append(toClient, m)
  <2>1. PICK m \in FromBroker : m.key # "Deliver" /\ toClient' = Append(toClient, m)
    BY <1>5
  <2>2. <<end, m, end>> \in ChunkSteps(e)
    BY <2>1, ChunkStep
  <2>3. QED
    BY <1>1, <2>1, <2>2, LeadsAppend
<1>6. QED
  BY <1>2, <1>3, <1>4, <1>5, Arriving

LEMMA InOrderQuiet ==
  ASSUME Types, InOrder, Steps, UNCHANGED <<made, passed>>, QuietSubscriptions
  PROVE  ChunkIsSent \/ ChunkIsHandled \/ InOrder'
<1> SUFFICES ASSUME ~ChunkIsSent, ~ChunkIsHandled, NEW e \in DOMAIN made
             PROVE  \E end \in Offset :
                      /\ Leads(made[e] + Len(passed[e]), toClient', end, ChunkSteps(e), Offset)
                      /\ \A i \in Id :
                           link' = "up" /\ subscription'[i].number = e => subscription'[i].next = end
  BY DEF InOrder
<1>1. PICK end \in Offset :
        /\ Leads(made[e] + Len(passed[e]), toClient, end, ChunkSteps(e), Offset)
        /\ \A i \in Id : link = "up" /\ subscription[i].number = e => subscription[i].next = end
  BY DEF InOrder
<1>2. PICK y \in Offset : /\ Leads(made[e] + Len(passed[e]), toClient', y, ChunkSteps(e), Offset)
                          /\ link' = "up" => y = end
  BY <1>1, QuietOrder
<1>3. e # 0
  BY DEF Types
<1>4. ASSUME NEW i \in Id, link' = "up", subscription'[i].number = e
      PROVE  subscription'[i].next = y
  BY <1>1, <1>2, <1>3, <1>4, LinkStep DEF QuietSubscriptions
<1>5. QED
  BY <1>2, <1>4

\* A new subscription begins where it was asked to begin.
LEMMA InOrderOpens ==
  ASSUME Types, InOrder, Steps, NEW i \in Id, NEW s \in Stream, NEW o \in Offset, Opens(i, s, o)
  PROVE  InOrder'
<1>1. /\ toClient \in Seq(FromBroker) /\ made \in Seq(Offset) /\ Numbers
      /\ subscription \in [Id -> Subscriptions]
  BY Zenon DEF Types, TypeOK, Channels, Subscriptions
<1>2. PICK l \in Nat : l = Len(made) /\ l = Len(passed)
  <2>1. Len(made) = Len(passed)
    BY Zenon DEF Types, TypeOK
  <2>2. QED
    BY <1>1, <2>1
<1>3. passed \in Seq(Seq(0..(LogLength - 1)))
  BY Zenon DEF Types, TypeOK
<1>4. /\ made' = Append(made, o) /\ passed' = Append(passed, << >>)
      /\ subscription' = [subscription EXCEPT ![i] =
           [stream |-> s, credit |-> InitialCredit, next |-> o, number |-> l + 1]]
      /\ Takes /\ link' = link
  BY <1>2 DEF Opens
<1>5. /\ DOMAIN made' = 1..(l + 1) /\ made'[l + 1] = o /\ \A e \in 1..l : made'[e] = made[e]
      /\ DOMAIN made = 1..l
  <2>1. /\ DOMAIN Append(made, o) = 1..(Len(made) + 1) /\ DOMAIN made = 1..Len(made)
        /\ Append(made, o)[Len(made) + 1] = o
        /\ \A e \in 1..Len(made) : Append(made, o)[e] = made[e]
    BY <1>1, AppendFacts
  <2>2. QED
    BY <1>2, <1>4, <2>1
<1>6. Len(passed'[l + 1]) = 0 /\ \A e \in 1..l : passed'[e] = passed[e]
  BY <1>2, <1>3, <1>4
<1>7. /\ subscription'[i].number = l + 1 /\ subscription'[i].next = o
      /\ \A j \in Id : j # i => subscription'[j] = subscription[j]
  BY <1>1, <1>4
<1>8. ~ChunkIsSent /\ ~ChunkIsHandled
  <2>1. toBroker \in Seq(FromClient)
    BY DEF Types, Channels
  <2>2. Len(toBroker') < Len(toBroker) /\ made' # made
    <3>1. Len(made') # Len(made)
      BY <1>1, <1>4
    <3>2. QED
      BY <1>4, <2>1, <3>1 DEF Takes
  <2>3. ~ChunkIsSent
    BY <2>1, <2>2 DEF ChunkIsSent, Delivers
  <2>4. ASSUME ChunkIsHandled PROVE FALSE
    <3>1. PICK k \in Nat, j \in Id, first \in Offset, n \in Nat, stream \in Stream,
               number \in Nat \ {0} : Handles(k, j, first, n, stream, number)
      BY <2>4 DEF ChunkIsHandled
    <3>2. UNCHANGED broker
      BY <3>1, Zenon DEF Handles
    <3>3. QED
      BY <2>2, <3>2 DEF broker
  <2>5. QED
    BY <2>3, <2>4
<1>9. ASSUME NEW e \in 1..l
      PROVE  \E end \in Offset :
               /\ Leads(made'[e] + Len(passed'[e]), toClient', end, ChunkSteps(e), Offset)
               /\ \A j \in Id :
                    link' = "up" /\ subscription'[j].number = e => subscription'[j].next = end
  <2>1. PICK end \in Offset :
          /\ Leads(made[e] + Len(passed[e]), toClient, end, ChunkSteps(e), Offset)
          /\ \A j \in Id : link = "up" /\ subscription[j].number = e => subscription[j].next = end
    BY <1>5 DEF InOrder
  <2>2. PICK y \in Offset : /\ Leads(made[e] + Len(passed[e]), toClient', y, ChunkSteps(e), Offset)
                            /\ link' = "up" => y = end
    BY <1>8, <2>1, QuietOrder
  <2>3. \A j \in Id : link' = "up" /\ subscription'[j].number = e => subscription'[j].next = y
    BY <1>2, <1>4, <1>7, <2>1, <2>2
  <2>4. QED
    BY <1>5, <1>6, <2>2, <2>3
<1>10. \E end \in Offset :
         /\ Leads(made'[l + 1] + Len(passed'[l + 1]), toClient', end, ChunkSteps(l + 1), Offset)
         /\ \A j \in Id :
              link' = "up" /\ subscription'[j].number = l + 1 => subscription'[j].next = end
  <2>1. \A k \in DOMAIN toClient : <<o, toClient[k], o>> \in ChunkSteps(l + 1)
    <3>1. ASSUME NEW k \in DOMAIN toClient
          PROVE  <<o, toClient[k], o>> \in ChunkSteps(l + 1)
      <4>1. toClient[k] \in FromBroker
        BY <1>1
      <4>2. ~(toClient[k].key = "Deliver" /\ toClient[k].arg[5] = l + 1)
        BY <1>1, <1>2 DEF Numbers
      <4>3. QED
        BY <4>1, <4>2, ChunkStep
    <3>2. QED
      BY <3>1
  <2>2. Leads(o, toClient, o, ChunkSteps(l + 1), Offset)
    BY <1>1, <2>1, LeadsInPlace
  <2>3. PICK y \in Offset : /\ Leads(o, toClient', y, ChunkSteps(l + 1), Offset)
                            /\ link' = "up" => y = o
    BY <1>8, <2>2, QuietOrder
  <2>4. ASSUME NEW j \in Id, link' = "up", subscription'[j].number = l + 1
        PROVE  subscription'[j].next = y
    <3>1. subscription[j].number # l + 1
      <4>1. CASE Subscribed(j)
        <5>1. subscription[j].number \in 1..Len(made)
          BY <1>1, <4>1 DEF Numbers
        <5>2. QED
          BY <1>2, <5>1
      <4>2. CASE ~Subscribed(j)
        <5>1. NoSubscription.number = 0
          BY DEF NoSubscription
        <5>2. subscription[j] = NoSubscription
          BY <4>2 DEF Subscribed
        <5>3. QED
          BY <1>2, <5>1, <5>2
      <4>3. QED
        BY <4>1, <4>2
    <3>2. QED
      BY <1>7, <2>3, <2>4, <3>1
  <2>5. made'[l + 1] + Len(passed'[l + 1]) = o
    <3>1. o \in Nat
      BY Constants
    <3>2. QED
      BY <1>5, <1>6, <3>1
  <2>6. QED
    BY <2>3, <2>4, <2>5
<1>11. QED
  <2>1. \A e \in DOMAIN made' : e \in 1..l \/ e = l + 1
    BY <1>5
  <2>2. QED
    BY <1>9, <1>10, <2>1 DEF InOrder

\* A chunk that is sent goes on where the broker stopped.
LEMMA InOrderSent ==
  ASSUME Types, InOrder, NEW i \in Id, NEW n \in Nat, Delivers(i, n)
  PROVE  InOrder'
<1>1. /\ toClient \in Seq(FromBroker) /\ Numbers /\ subscription \in [Id -> Subscriptions]
  BY Zenon DEF Types, TypeOK, Channels, Subscriptions
<1>2. PICK number, next : /\ number = subscription[i].number /\ next = subscription[i].next
                          /\ number \in Nat /\ next \in Offset
  BY <1>1, SubscriptionType
<1>3. PICK m : m = Push("Deliver", <<i, next, n, subscription[i].stream, number>>)
  OBVIOUS
<1>4. m.key = "Deliver" /\ m.arg[2] = next /\ m.arg[3] = n /\ m.arg[5] = number
  BY <1>3, PushFacts
<1>5. /\ m \in FromBroker /\ toClient' = Append(toClient, m) /\ link = "up" /\ Subscribed(i)
      /\ subscription[i].credit > 0 /\ next + n <= LogLength
      /\ Serve(i, subscription[i].credit - 1, next + n) /\ UNCHANGED <<made, passed, link>>
  BY <1>2, <1>3 DEF Delivers, Tells, client
<1>6. subscription[i].credit - 1 \in Nat /\ next + n \in Offset
  <2>1. subscription[i].credit \in Nat /\ next \in Nat /\ LogLength \in Nat
    BY <1>1, <1>2, SubscriptionType, Constants
  <2>2. QED
    BY <1>5, <2>1 DEF Offset
<1>7. /\ subscription'[i].number = number /\ subscription'[i].next = next + n
      /\ \A j \in Id : j # i => subscription'[j] = subscription[j]
  BY <1>1, <1>2, <1>5, <1>6, ServeFacts
<1>8. \A j \in Id : subscription[j].number = number => j = i
  BY <1>1, <1>2, <1>5 DEF Numbers
<1> SUFFICES ASSUME NEW e \in DOMAIN made
             PROVE  \E end \in Offset :
                      /\ Leads(made[e] + Len(passed[e]), toClient', end, ChunkSteps(e), Offset)
                      /\ \A j \in Id : subscription'[j].number = e => subscription'[j].next = end
  BY <1>5 DEF InOrder
<1>9. PICK end \in Offset :
        /\ Leads(made[e] + Len(passed[e]), toClient, end, ChunkSteps(e), Offset)
        /\ \A j \in Id : subscription[j].number = e => subscription[j].next = end
  BY <1>5 DEF InOrder
<1>10. PICK x : x = made[e] + Len(passed[e])
  OBVIOUS
<1>11. CASE number = e
  <2>1. end = next
    BY <1>2, <1>9, <1>11
  <2>2. <<end, m, next + n>> \in ChunkSteps(e)
    <3>1. PICK y \in Offset : y = next + n
      BY <1>6
    <3>2. m.arg[2] = end /\ y = end + m.arg[3] /\ m.arg[5] = e
      BY <1>4, <1>11, <2>1, <3>1
    <3>3. QED
      BY <1>4, <1>5, <3>1, <3>2 DEF ChunkSteps
  <2>3. Leads(x, Append(toClient, m), next + n, ChunkSteps(e), Offset)
    BY <1>1, <1>5, <1>6, <1>9, <1>10, <2>2, LeadsAppend
  <2>4. ASSUME NEW j \in Id, subscription'[j].number = e PROVE subscription'[j].next = next + n
    BY <1>7, <1>8, <1>11, <2>4
  <2>5. QED
    BY <1>5, <1>6, <1>10, <2>3, <2>4
<1>12. CASE number # e
  <2>1. <<end, m, end>> \in ChunkSteps(e)
    BY <1>4, <1>5, <1>12, ChunkStep
  <2>2. Leads(x, Append(toClient, m), end, ChunkSteps(e), Offset)
    BY <1>1, <1>5, <1>9, <1>10, <2>1, LeadsAppend
  <2>3. ASSUME NEW j \in Id, subscription'[j].number = e PROVE subscription'[j].next = end
    BY <1>7, <1>9, <1>12, <2>3
  <2>4. QED
    BY <1>5, <1>10, <2>2, <2>3
<1>13. QED
  BY <1>11, <1>12

LEMMA InOrderHandled ==
  ASSUME Types, InOrder, ChunkIsHandled
  PROVE  InOrder'
<1>1. PICK k \in Nat, i \in Id, first \in Offset, n \in Nat, stream \in Stream,
           number \in Nat \ {0} :
             first + n <= LogLength /\ Handles(k, i, first, n, stream, number)
  BY DEF ChunkIsHandled
<1>2. UNCHANGED <<link, made, subscription>>
  <2>1. UNCHANGED <<link, broker>>
    BY <1>1, Zenon DEF Handles
  <2>2. QED
    BY <2>1 DEF broker
<1>3. /\ number \in DOMAIN made /\ number \in DOMAIN passed
      /\ first = made[number] + Len(passed[number])
      /\ passed'[number] = passed[number] \o Offsets(first, n)
      /\ \A e \in DOMAIN passed : e # number => passed'[e] = passed[e]
      /\ Receives /\ Head(toClient).key = "Deliver"
      /\ Head(toClient).arg = <<i, first, n, stream, number>>
  BY <1>1, HandledFacts
<1>4. /\ toClient \in Seq(FromBroker) /\ made \in Seq(Offset) /\ Len(passed) = Len(made)
      /\ passed \in Seq(Seq(0..(LogLength - 1)))
  <2>1. toClient \in Seq(FromBroker) /\ made \in Seq(Offset)
    BY DEF Types, Channels
  <2>2. passed \in Seq(Seq(0..(LogLength - 1))) /\ Len(passed) = Len(made)
    BY Zenon DEF Types, TypeOK
  <2>3. QED
    BY <2>1, <2>2
<1>5. PICK m \in FromBroker : /\ m = Head(toClient) /\ toClient # << >>
                              /\ toClient' = Tail(toClient) /\ m.key = "Deliver"
                              /\ m.arg[2] = first /\ m.arg[3] = n /\ m.arg[5] = number
  BY <1>3 DEF Receives
<1>6. DOMAIN made = DOMAIN passed
  BY <1>4
<1> SUFFICES ASSUME NEW e \in DOMAIN made
             PROVE  \E end \in Offset :
                      /\ Leads(made[e] + Len(passed'[e]), toClient', end, ChunkSteps(e), Offset)
                      /\ \A j \in Id :
                           link = "up" /\ subscription[j].number = e => subscription[j].next = end
  BY <1>2 DEF InOrder
<1>7. PICK end \in Offset :
        /\ Leads(made[e] + Len(passed[e]), toClient, end, ChunkSteps(e), Offset)
        /\ \A j \in Id : link = "up" /\ subscription[j].number = e => subscription[j].next = end
  BY DEF InOrder
<1>8. PICK x : x = made[e] + Len(passed[e])
  OBVIOUS
<1>9. PICK y \in Offset : /\ <<x, m, y>> \in ChunkSteps(e)
                          /\ Leads(y, Tail(toClient), end, ChunkSteps(e), Offset)
  BY <1>4, <1>5, <1>7, <1>8, LeadsTail
<1>10. x \in Offset
  BY <1>4, <1>7, <1>8, LeadsType
<1>11. y = made[e] + Len(passed'[e])
  <2>0. IF m.arg[5] = e THEN y = x + m.arg[3] ELSE y = x
    BY <1>5, <1>9, <1>10 DEF ChunkSteps
  <2>1. CASE number = e
    <3>1. y = x + n
      BY <1>5, <2>0, <2>1
    <3>2. PICK P : P = 0..(LogLength - 1)
      OBVIOUS
    <3>3. passed[e] \in Seq(P) /\ Offsets(first, n) \in Seq(P) /\ Len(Offsets(first, n)) = n
      <4>1. passed[e] \in Seq(P)
        BY <1>4, <1>6, <3>2, ElementOf
      <4>2. Offsets(first, n) \in Seq(P)
        BY <1>1, <3>2, OffsetsType
      <4>3. Len(Offsets(first, n)) = n
        BY DEF Offsets
      <4>4. QED
        BY <4>1, <4>2, <4>3
    <3>4. Len(passed'[e]) = Len(passed[e]) + n
      BY <1>3, <2>1, <3>3
    <3>5. made[e] \in Nat /\ Len(passed[e]) \in Nat
      <4>1. made[e] \in Offset
        BY <1>4, ElementOf
      <4>2. Len(passed[e]) \in Nat
        BY <3>3
      <4>3. QED
        BY <4>1, <4>2, Constants
    <3>6. QED
      BY <1>8, <3>1, <3>4, <3>5
  <2>2. CASE number # e
    <3>1. y = x
      BY <1>5, <2>0, <2>2
    <3>2. QED
      BY <1>3, <1>6, <1>8, <2>2, <3>1
  <2>3. QED
    BY <2>1, <2>2
<1>12. QED
  BY <1>5, <1>7, <1>9, <1>11

LEMMA InOrderStep ==
  ASSUME Types, InOrder, Steps
  PROVE  InOrder'
<1>1. CASE ChunkIsSent
  BY <1>1, InOrderSent DEF ChunkIsSent
<1>2. CASE ChunkIsHandled
  BY <1>2, InOrderHandled
<1>3. CASE IdIsOpened
  BY <1>3, InOrderOpens DEF IdIsOpened
<1>4. CASE ~ChunkIsSent /\ ~ChunkIsHandled /\ ~IdIsOpened
  BY <1>4, InOrderQuiet, Quiet, Changing
<1>5. QED
  BY <1>1, <1>2, <1>3, <1>4

LEMMA MessagesStep ==
  ASSUME Types, InOrder, MessagesInOrder, Steps
  PROVE  MessagesInOrder'
<1>1. /\ made \in Seq(Offset) /\ Len(passed) = Len(made)
      /\ passed \in Seq(Seq(0..(LogLength - 1)))
  <2>1. made \in Seq(Offset)
    BY DEF Types
  <2>2. passed \in Seq(Seq(0..(LogLength - 1))) /\ Len(passed) = Len(made)
    BY Zenon DEF Types, TypeOK
  <2>3. QED
    BY <2>1, <2>2
<1>2. CASE ChunkIsHandled
  <2>1. PICK k \in Nat, i \in Id, first \in Offset, n \in Nat, stream \in Stream,
             number \in Nat \ {0} :
               first + n <= LogLength /\ Handles(k, i, first, n, stream, number)
    BY <1>2 DEF ChunkIsHandled
  <2>2. UNCHANGED made
    <3>1. UNCHANGED broker
      BY <2>1, Zenon DEF Handles
    <3>2. QED
      BY <3>1 DEF broker
  <2>3. /\ number \in DOMAIN made /\ number \in DOMAIN passed /\ DOMAIN passed' = DOMAIN passed
        /\ first = made[number] + Len(passed[number])
        /\ passed'[number] = passed[number] \o Offsets(first, n)
        /\ \A e \in DOMAIN passed : e # number => passed'[e] = passed[e]
    BY <2>1, HandledFacts
  <2>4. PICK p, o, l, b :
          /\ p = passed[number] /\ o = Offsets(first, n) /\ l = Len(p) /\ b = made[number]
          /\ l \in Nat /\ b \in Nat
    <3>1. Len(passed[number]) \in Nat
      BY <1>1, <2>3, ElementOf
    <3>2. made[number] \in Offset
      BY <1>1, <2>3, ElementOf
    <3>3. QED
      BY <3>1, <3>2, Constants
  <2>5. p \in Seq(Nat) /\ o \in Seq(Nat) /\ Len(o) = n /\ \A j \in 1..n : o[j] = first + j - 1
    <3>1. p \in Seq(0..(LogLength - 1))
      BY <1>1, <2>3, <2>4, ElementOf
    <3>2. p \in Seq(Nat)
      <4>1. PICK P : P = 0..(LogLength - 1)
        OBVIOUS
      <4>2. LogLength \in Nat
        BY Constants
      <4>3. \A e \in P : e \in Nat
        BY <4>1, <4>2
      <4>4. p \in Seq(P)
        BY <3>1, <4>1
      <4>5. QED
        BY <4>3, <4>4, SeqWider
    <3>3. first \in Nat
      BY Constants
    <3>4. o = [j \in 1..n |-> first + j - 1]
      BY <2>4 DEF Offsets
    <3>5. \A j \in 1..n : first + j - 1 \in Nat
      BY <3>3
    <3>6. QED
      BY <3>2, <3>4, <3>5
  <2>6. \A j \in 1..l : p[j] = b + j - 1
    <3>1. DOMAIN p = 1..l
      BY <2>4, <2>5
    <3>2. \A j \in DOMAIN passed[number] : passed[number][j] = made[number] + j - 1
      BY <2>3, Zenon DEF MessagesInOrder
    <3>3. QED
      BY <2>4, <3>1, <3>2
  <2>7. ASSUME NEW j \in 1..(l + n) PROVE (p \o o)[j] = b + j - 1
    <3>1. l = Len(p) /\ l \in Nat
      BY <2>4
    <3>2. CASE j <= l
      <4>1. (p \o o)[j] = p[j] /\ j \in 1..l
        BY <2>5, <3>1, <3>2
      <4>2. QED
        BY <2>6, <4>1
    <3>3. CASE j > l
      <4>1. (p \o o)[j] = o[j - l] /\ j - l \in 1..n
        BY <2>5, <3>1, <3>3
      <4>2. first = b + l /\ b \in Nat
        BY <2>3, <2>4
      <4>3. o[j - l] = first + (j - l) - 1
        BY <2>5, <4>1
      <4>4. QED
        BY <3>1, <4>1, <4>2, <4>3
    <3>4. j <= l \/ j > l
      BY <3>1
    <3>5. QED
      BY <3>2, <3>3, <3>4
  <2>8. DOMAIN (p \o o) = 1..(l + n)
    <3>1. l = Len(p) /\ l \in Nat
      BY <2>4
    <3>2. p \o o \in Seq(Nat) /\ Len(p \o o) = Len(p) + Len(o)
      BY <2>5
    <3>3. QED
      BY <2>5, <3>1, <3>2
  <2>9. QED
    BY <2>2, <2>3, <2>4, <2>7, <2>8 DEF MessagesInOrder
<1>3. CASE IdIsOpened
  <2>1. PICK i \in Id, s \in Stream, o \in Offset : Opens(i, s, o)
    BY <1>3 DEF IdIsOpened
  <2>2. made' = Append(made, o) /\ passed' = Append(passed, << >>)
    BY <2>1 DEF Opens
  <2>3. PICK l \in Nat : l = Len(made) /\ l = Len(passed)
    BY <1>1
  <2>4. << >> \in Seq(0..(LogLength - 1))
    OBVIOUS
  <2>5. /\ DOMAIN passed' = 1..(l + 1) /\ DOMAIN passed = 1..l
        /\ passed'[l + 1] = << >> /\ \A e \in 1..l : passed'[e] = passed[e]
    <3>1. PICK S : S = Seq(0..(LogLength - 1))
      OBVIOUS
    <3>2. passed \in Seq(S) /\ << >> \in S
      BY <1>1, <2>4, <3>1
    <3>3. /\ DOMAIN Append(passed, << >>) = 1..(Len(passed) + 1) /\ DOMAIN passed = 1..Len(passed)
          /\ Append(passed, << >>)[Len(passed) + 1] = << >>
          /\ \A e \in 1..Len(passed) : Append(passed, << >>)[e] = passed[e]
      BY <3>2, AppendFacts
    <3>4. QED
      BY <2>2, <2>3, <3>3
  <2>6. \A e \in 1..l : made'[e] = made[e]
    <3>1. \A e \in 1..Len(made) : Append(made, o)[e] = made[e]
      BY <1>1, AppendFacts
    <3>2. QED
      BY <2>2, <2>3, <3>1
  <2>7. ASSUME NEW e \in DOMAIN passed', NEW k \in DOMAIN passed'[e]
        PROVE  passed'[e][k] = made'[e] + k - 1
    <3>1. CASE e = l + 1
      BY <2>5, <2>7, <3>1
    <3>2. CASE e \in 1..l
      BY <2>5, <2>6, <2>7, <3>2 DEF MessagesInOrder
    <3>3. QED
      BY <2>3, <2>5, <3>1, <3>2
  <2>8. QED
    BY <2>7 DEF MessagesInOrder
<1>4. CASE UNCHANGED <<passed, made>>
  BY <1>4 DEF MessagesInOrder
<1>5. QED
  BY <1>2, <1>3, <1>4, Changing

LEMMA InitMessages == Init => InOrder /\ MessagesInOrder
<1> SUFFICES ASSUME Init PROVE InOrder /\ MessagesInOrder
  OBVIOUS
<1>1. passed = << >> /\ made = << >>
  BY Zenon DEF Init
<1>2. DOMAIN passed = {} /\ DOMAIN made = {}
  BY <1>1
<1>3. QED
  BY <1>2 DEF InOrder, MessagesInOrder

-----------------------------------------------------------------------------
(* The stored offsets.                                                     *)

\* The request m asks for the offset of stream s, for the call c.
AsksFor(s, c, m) == c # NoCall /\ m.corr = c.corr /\ c.key = "QueryOffset" /\ c.arg[1] = s

\* What a frame to the broker makes of the stored offset of s; the request of the call
\* finds what the client had stored when it asked.
StoreSteps(s, c, told) ==
    {t \in Offset \X FromClient \X Offset :
        /\ t[3] = IF t[2].key = "StoreOffset" /\ t[2].arg[1] = s THEN t[2].arg[2] ELSE t[1]
        /\ AsksFor(s, c, t[2]) => t[1] = told}

\* From what the broker has stored the frames on their way lead to what the client had
\* stored.
Stored ==
    link = "up" => \A s \in Stream :
        Leads(offsets[s], toBroker, stores[s], StoreSteps(s, call, asked), Offset)

\* The answer to the query on its way tells what was stored when it was made.
Truly ==
    call.key = "QueryOffset" =>
        /\ ~queried.ValidOffset /\ ~queried.answered
        /\ \A j \in DOMAIN toClient : toClient[j].corr = call.corr =>
             IF asked = LogLength THEN toClient[j].code = "NoOffset"
             ELSE toClient[j].code = "OK" /\ toClient[j].arg[1] = asked

LEMMA StoreStep ==
  ASSUME NEW s, NEW c, NEW told, NEW m \in FromClient, NEW x \in Offset, NEW y
  PROVE  /\ <<x, m, y>> \in StoreSteps(s, c, told) =>
              /\ y = IF m.key = "StoreOffset" /\ m.arg[1] = s THEN m.arg[2] ELSE x
              /\ AsksFor(s, c, m) => x = told
         /\ /\ y \in Offset
            /\ y = IF m.key = "StoreOffset" /\ m.arg[1] = s THEN m.arg[2] ELSE x
            /\ AsksFor(s, c, m) => x = told
            => <<x, m, y>> \in StoreSteps(s, c, told)
BY DEF StoreSteps

LEMMA OffsetTypes ==
  ASSUME Types
  PROVE  /\ toBroker \in Seq(FromClient) /\ toClient \in Seq(FromBroker)
         /\ stores \in [Stream -> Offset] /\ offsets \in [Stream -> Offset] /\ asked \in Offset
         /\ call # NoCall => call.corr \in Nat \ {0}
         /\ CorrelationId \in Nat
<1>1. /\ toBroker \in Seq(FromClient) /\ toClient \in Seq(FromBroker)
      /\ call # NoCall => call.corr \in Nat \ {0}
  BY CallFacts DEF Types, Channels
<1>2. stores \in [Stream -> Offset] /\ offsets \in [Stream -> Offset] /\ asked \in Offset
  BY Zenon DEF Types, TypeOK, Offset
<1>3. CorrelationId \in 0..MaxRequests
  BY Zenon DEF Types, TypeOK
<1>4. CorrelationId \in Nat
  BY <1>3, RequestsAssumption
<1>5. QED
  BY <1>1, <1>2, <1>4

\* A frame that asks for nothing is sent.
LEMMA StoredPush ==
  ASSUME Types, NEW s, NEW tb \in Seq(FromClient), NEW a, NEW b,
         Leads(a, tb, b, StoreSteps(s, call, asked), Offset),
         NEW m \in FromClient, m.corr = 0, NEW d \in Offset,
         d = IF m.key = "StoreOffset" /\ m.arg[1] = s THEN m.arg[2] ELSE b
  PROVE  Leads(a, Append(tb, m), d, StoreSteps(s, call, asked), Offset)
<1>1. ~AsksFor(s, call, m)
  BY OffsetTypes DEF AsksFor
<1>2. b \in Offset
  BY LeadsType
<1>3. <<b, m, d>> \in StoreSteps(s, call, asked)
  BY <1>1, <1>2, StoreStep
<1>4. QED
  BY <1>3, LeadsAppend

\* The broker takes a frame.
LEMMA StoredTaken ==
  ASSUME Types, Stored, Takes, NEW s \in Stream
  PROVE  /\ Leads(IF Head(toBroker).key = "StoreOffset" /\ Head(toBroker).arg[1] = s
                  THEN Head(toBroker).arg[2] ELSE offsets[s],
                  toBroker', stores[s], StoreSteps(s, call, asked), Offset)
         /\ AsksFor(s, call, Head(toBroker)) => offsets[s] = asked
<1>1. toBroker \in Seq(FromClient) /\ offsets[s] \in Offset
  BY OffsetTypes
<1>2. PICK m \in FromClient : /\ m = Head(toBroker) /\ toBroker # << >> /\ link = "up"
                              /\ toBroker' = Tail(toBroker)
  BY DEF Takes
<1>3. PICK y \in Offset : /\ <<offsets[s], m, y>> \in StoreSteps(s, call, asked)
                          /\ Leads(y, toBroker', stores[s], StoreSteps(s, call, asked), Offset)
  BY <1>1, <1>2, LeadsTail DEF Stored
<1>4. /\ y = IF m.key = "StoreOffset" /\ m.arg[1] = s THEN m.arg[2] ELSE offsets[s]
      /\ AsksFor(s, call, m) => offsets[s] = asked
  BY <1>1, <1>3, StoreStep
<1>5. QED
  BY <1>2, <1>3, <1>4

LEMMA StoredAsks ==
  ASSUME Types, Ordered, Stored, NEW key \in Asked, NEW arg, Asks(key, arg)
  PROVE  Stored'
<1>1. /\ toBroker \in Seq(FromClient) /\ toClient \in Seq(FromBroker)
      /\ stores \in [Stream -> Offset] /\ CorrelationId \in Nat
  BY OffsetTypes
<1>2. PICK m \in FromClient : /\ m = Message(key, CorrelationId + 1, "none", arg)
                              /\ m.key = key /\ m.corr = CorrelationId + 1 /\ m.arg = arg
  BY DEF Asks, Sends, Message
<1>3. PICK c : c = [key |-> key, corr |-> CorrelationId + 1, arg |-> arg]
  OBVIOUS
<1>4. /\ call' = c /\ UNCHANGED <<offsets, stores, link>>
      /\ link = "up" => toBroker' = Append(toBroker, m)
      /\ key = "QueryOffset" => asked' = stores[arg[1]]
  BY <1>2, <1>3 DEF Asks, Sends, broker
<1>5. c.corr = CorrelationId + 1 /\ c.key = key /\ c.arg = arg
  BY <1>3
<1>6. \A j \in DOMAIN toBroker : toBroker[j].corr # CorrelationId + 1
  <2>1. \A n \in FromClient : n.corr \in Nat
    BY ClientFrame
  <2>2. \A n \in FromBroker : n.corr \in Nat
    BY BrokerFrame
  <2>3. QED
    BY <1>1, <2>1, <2>2, InTurnNew DEF Ordered
<1> SUFFICES ASSUME link = "up", NEW s \in Stream
             PROVE  Leads(offsets[s], Append(toBroker, m), stores[s], StoreSteps(s, c, asked'),
                          Offset)
  BY <1>4 DEF Stored
<1>7. Leads(offsets[s], toBroker, stores[s], StoreSteps(s, call, asked), Offset)
  BY DEF Stored
<1>8. ASSUME NEW j \in DOMAIN toBroker, NEW x \in Offset, NEW y \in Offset,
             <<x, toBroker[j], y>> \in StoreSteps(s, call, asked)
      PROVE  <<x, toBroker[j], y>> \in StoreSteps(s, c, asked')
  <2>1. PICK n \in FromClient : n = toBroker[j]
    BY <1>1, ElementOf
  <2>2. ~AsksFor(s, c, n)
    BY <1>5, <1>6, <2>1 DEF AsksFor
  <2>3. QED
    BY <1>8, <2>1, <2>2 DEF StoreSteps
<1>9. Leads(offsets[s], toBroker, stores[s], StoreSteps(s, c, asked'), Offset)
  BY <1>1, <1>7, <1>8, LeadsOtherwise
<1>10. stores[s] \in Offset
  BY <1>1
<1>11. m.key # "StoreOffset" /\ (AsksFor(s, c, m) => stores[s] = asked')
  BY <1>2, <1>4, <1>5 DEF Asked, Changes, AsksFor
<1>12. <<stores[s], m, stores[s]>> \in StoreSteps(s, c, asked')
  BY <1>10, <1>11, StoreStep
<1>13. QED
  BY <1>1, <1>9, <1>10, <1>12, LeadsAppend

LEMMA StoredHandled ==
  ASSUME Types, Stored, ChunkIsHandled
  PROVE  Stored'
<1>1. PICK k \in Nat, i \in Id, first \in Offset, n \in Nat, stream \in Stream,
           number \in Nat \ {0} : Handles(k, i, first, n, stream, number)
  BY DEF ChunkIsHandled
<1>2. PICK name, o, store, credit :
        /\ name = SubscriptionStreamTable[i] /\ o = first + k - 1
        /\ store = Push("StoreOffset", <<name, o>>) /\ credit = Push("Credit", <<i, DefaultCredit>>)
  OBVIOUS
<1>3. /\ credit \in FromClient /\ (k # 0 => store \in FromClient /\ o \in Offset)
      /\ toBroker' = IF link = "up"
                     THEN Append(IF k = 0 THEN toBroker ELSE Append(toBroker, store), credit)
                     ELSE toBroker
      /\ stores' = IF k # 0 /\ name # "" /\ link = "up"
                   THEN [stores EXCEPT ![name] = o] ELSE stores
      /\ UNCHANGED <<link, call, asked, offsets>>
  BY <1>1, <1>2 DEF Handles, broker
<1>4. /\ store.corr = 0 /\ store.key = "StoreOffset" /\ store.arg[1] = name /\ store.arg[2] = o
      /\ credit.corr = 0 /\ credit.key = "Credit"
  BY <1>2, PushFacts
<1>5. toBroker \in Seq(FromClient) /\ stores \in [Stream -> Offset] /\ "" \notin Stream
  BY OffsetTypes, Constants
<1> SUFFICES ASSUME link = "up", NEW s \in Stream
             PROVE  Leads(offsets[s], toBroker', stores'[s], StoreSteps(s, call, asked), Offset)
  BY <1>3 DEF Stored
<1>6. Leads(offsets[s], toBroker, stores[s], StoreSteps(s, call, asked), Offset)
  BY DEF Stored
<1>7. PICK d : d = stores'[s]
  OBVIOUS
<1>8. PICK t : t = IF k = 0 THEN toBroker ELSE Append(toBroker, store)
  OBVIOUS
<1>9. d \in Offset /\ t \in Seq(FromClient)
      /\ Leads(offsets[s], t, d, StoreSteps(s, call, asked), Offset)
  <2>1. CASE k = 0
    BY <1>3, <1>5, <1>6, <1>7, <1>8, <2>1
  <2>2. CASE k # 0
    <3>1. d = IF name = s THEN o ELSE stores[s]
      BY <1>3, <1>5, <1>7, <2>2
    <3>2. d \in Offset /\ store \in FromClient
      BY <1>3, <1>5, <2>2, <3>1
    <3>3. Leads(offsets[s], Append(toBroker, store), d, StoreSteps(s, call, asked), Offset)
      BY <1>4, <1>5, <1>6, <3>1, <3>2, StoredPush
    <3>4. Append(toBroker, store) \in Seq(FromClient)
      BY <1>5, <3>2, AppendFacts
    <3>5. QED
      BY <1>8, <2>2, <3>2, <3>3, <3>4
  <2>3. QED
    BY <2>1, <2>2
<1>10. Leads(offsets[s], Append(t, credit), d, StoreSteps(s, call, asked), Offset)
  BY <1>3, <1>4, <1>9, StoredPush
<1>11. QED
  BY <1>3, <1>7, <1>8, <1>10

LEMMA StoredStep ==
  ASSUME Types, Ordered, Stored, Steps
  PROVE  Stored'
<1>1. /\ toBroker \in Seq(FromClient) /\ stores \in [Stream -> Offset]
      /\ offsets \in [Stream -> Offset]
  BY OffsetTypes
<1>2. CASE RequestIsMade
  BY <1>2, StoredAsks DEF RequestIsMade
<1>3. CASE ChunkIsHandled
  BY <1>3, StoredHandled
\* The call ends.
<1>4. CASE GivesUp \/ LearnsName \/ LearnsOffset
  <2>1. call' = NoCall /\ UNCHANGED <<toBroker, link, offsets, stores, asked>>
    BY <1>4 DEF GivesUp, LearnsName, LearnsOffset, broker
  <2> SUFFICES ASSUME link = "up", NEW s \in Stream
               PROVE  Leads(offsets[s], toBroker, stores[s], StoreSteps(s, NoCall, asked), Offset)
    BY <2>1 DEF Stored
  <2>2. Leads(offsets[s], toBroker, stores[s], StoreSteps(s, call, asked), Offset)
    BY DEF Stored
  <2>3. ASSUME NEW j \in DOMAIN toBroker, NEW x \in Offset, NEW y \in Offset,
               <<x, toBroker[j], y>> \in StoreSteps(s, call, asked)
        PROVE  <<x, toBroker[j], y>> \in StoreSteps(s, NoCall, asked)
    <3>1. PICK n \in FromClient : n = toBroker[j]
      BY <1>1, ElementOf
    <3>2. ~AsksFor(s, NoCall, n)
      BY DEF AsksFor
    <3>3. QED
      BY <2>3, <3>1, <3>2 DEF StoreSteps
  <2>4. QED
    BY <1>1, <2>2, <2>3, LeadsOtherwise
<1>5. CASE Drops \/ ChunkIsSent \/ HeartbeatIsSent \/ UNCHANGED vars
  <2>1. UNCHANGED <<toBroker, link, offsets, stores, asked, call>>
    BY <1>5 DEF Drops, ChunkIsSent, HeartbeatIsSent, Delivers, vars, connection, client, broker
  <2>2. QED
    BY <2>1 DEF Stored
\* A frame that asks for nothing is sent.
<1>6. CASE CreditIsSent
  <2>1. PICK i \in Id : Grants(i)
    BY <1>6 DEF CreditIsSent
  <2>2. PICK m : m = Push("Credit", <<i, 1>>)
    OBVIOUS
  <2>3. /\ m \in FromClient /\ (link = "up" => toBroker' = Append(toBroker, m))
        /\ UNCHANGED <<link, offsets, stores, asked, call>>
    BY <2>1, <2>2 DEF Grants, Sends, client, broker
  <2>4. m.key = "Credit" /\ m.corr = 0
    BY <2>2, PushFacts
  <2> SUFFICES ASSUME link = "up", NEW s \in Stream
               PROVE  Leads(offsets[s], Append(toBroker, m), stores[s],
                            StoreSteps(s, call, asked), Offset)
    BY <2>3 DEF Stored
  <2>5. stores[s] \in Offset
    BY <1>1
  <2>6. QED
    BY <1>1, <2>3, <2>4, <2>5, StoredPush DEF Stored
<1>7. CASE OffsetIsSent
  <2>1. PICK q \in Stream : StoresOffset(q)
    BY <1>7 DEF OffsetIsSent
  <2>2. PICK m : m = Push("StoreOffset", <<q, 0>>)
    OBVIOUS
  <2>3. /\ m \in FromClient /\ (link = "up" => toBroker' = Append(toBroker, m))
        /\ stores' = IF link = "up" THEN [stores EXCEPT ![q] = 0] ELSE stores
        /\ UNCHANGED <<link, offsets, asked, call>>
    BY <2>1, <2>2 DEF StoresOffset, Sends, broker
  <2>4. m.key = "StoreOffset" /\ m.corr = 0 /\ m.arg[1] = q /\ m.arg[2] = 0
    BY <2>2, PushFacts
  <2> SUFFICES ASSUME link = "up", NEW s \in Stream
               PROVE  Leads(offsets[s], Append(toBroker, m), stores'[s],
                            StoreSteps(s, call, asked), Offset)
    BY <2>3 DEF Stored
  <2>5. PICK d : d = stores'[s]
    OBVIOUS
  <2>6. d = IF q = s THEN 0 ELSE stores[s]
    BY <1>1, <2>3, <2>5
  <2>7. 0 \in Offset
    <3>1. LogLength \in Nat
      BY Constants
    <3>2. QED
      BY <3>1 DEF Offset
  <2>8. d \in Offset
    BY <1>1, <2>6, <2>7
  <2>9. Leads(offsets[s], Append(toBroker, m), d, StoreSteps(s, call, asked), Offset)
    BY <1>1, <2>3, <2>4, <2>6, <2>8, StoredPush DEF Stored
  <2>10. QED
    BY <2>5, <2>9
\* The broker takes a frame.
<1>8. ASSUME Takes, Head(toBroker).key # "StoreOffset",
             UNCHANGED <<link, offsets, stores, asked, call>>
      PROVE  Stored'
  BY <1>8, StoredTaken DEF Stored
<1>9. CASE Refuses
  BY <1>8, <1>9 DEF Refuses, Changes, client, broker
<1>10. CASE CreditRefused
  BY <1>8, <1>10 DEF CreditRefused, client, broker
<1>11. CASE IdIsOpened
  BY <1>8, <1>11 DEF IdIsOpened, Opens
<1>12. CASE IdIsClosed
  BY <1>8, <1>12 DEF IdIsClosed, Closes, client
<1>13. CASE CreditArrives
  BY <1>8, <1>13 DEF CreditArrives, Credited, client
<1>14. CASE QueryIsAnswered
  BY <1>8, <1>14 DEF QueryIsAnswered, AnswersQuery, client, broker
<1>15. CASE OffsetIsStored
  <2>1. PICK q \in Name, o \in Offset : Stores(q, o)
    BY <1>15 DEF OffsetIsStored
  <2>2. /\ Takes /\ Head(toBroker).key = "StoreOffset"
        /\ Head(toBroker).arg[1] = q /\ Head(toBroker).arg[2] = o
        /\ offsets' = IF q = "" THEN offsets ELSE [offsets EXCEPT ![q] = o]
        /\ UNCHANGED <<link, stores, asked, call>>
    BY <2>1 DEF Stores, client
  <2> SUFFICES ASSUME link = "up", NEW s \in Stream
               PROVE  Leads(offsets'[s], toBroker', stores[s], StoreSteps(s, call, asked), Offset)
    BY <2>2 DEF Stored
  <2>3. offsets'[s] = IF q = s THEN o ELSE offsets[s]
    BY <1>1, <2>2, Constants
  <2>4. QED
    BY <2>2, <2>3, StoredTaken
<1>16. CASE Loses
  BY <1>16 DEF Loses, Stored
<1>17. QED
  BY <1>2, <1>3, <1>4, <1>5, <1>6, <1>7, <1>9, <1>10, <1>11, <1>12, <1>13, <1>14, <1>15, <1>16
     DEF Steps, ClientSteps, BrokerSteps

\* A frame tells the call what was stored when it was made.
Tell(m) == IF asked = LogLength THEN m.code = "NoOffset" ELSE m.code = "OK" /\ m.arg[1] = asked

\* The frames that are left tell what they told before.
LEMMA TrulyLeft ==
  ASSUME Truly, UNCHANGED <<call, asked, queried>>,
         \A k \in DOMAIN toClient' : \E j \in DOMAIN toClient : toClient'[k] = toClient[j]
  PROVE  Truly'
BY DEF Truly

LEMMA TrulyTold ==
  ASSUME Types, Truly, UNCHANGED <<call, asked, queried>>, NEW m \in FromBroker, Tells(m),
         call.key = "QueryOffset" /\ m.corr = call.corr => Tell(m)
  PROVE  Truly'
<1>1. toClient \in Seq(FromBroker) /\ toClient' = Append(toClient, m)
  BY OffsetTypes DEF Tells
<1> SUFFICES ASSUME call.key = "QueryOffset"
             PROVE  /\ ~queried.ValidOffset /\ ~queried.answered
                    /\ \A k \in DOMAIN toClient' : toClient'[k].corr = call.corr => Tell(toClient'[k])
  BY DEF Truly, Tell
<1>2. /\ ~queried.ValidOffset /\ ~queried.answered
      /\ \A j \in DOMAIN toClient : toClient[j].corr = call.corr => Tell(toClient[j])
  BY DEF Truly, Tell
<1>3. \A k \in DOMAIN toClient' :
        toClient'[k] = m \/ \E j \in DOMAIN toClient : toClient'[k] = toClient[j]
  BY <1>1, GrownBy
<1>4. QED
  BY <1>2, <1>3

\* A request that asks for no offset is answered.
LEMMA TrulyReplied ==
  ASSUME Types, Ordered, Truly, Takes, Head(toBroker).key \in Changes, NEW code,
         Tells(Reply(Head(toBroker), code, << >>)), UNCHANGED <<call, asked, queried>>
  PROVE  Truly'
<1>1. toBroker \in Seq(FromClient) /\ toBroker # << >>
  BY OffsetTypes DEF Takes
<1>2. PICK r : r = Reply(Head(toBroker), code, << >>)
  OBVIOUS
<1>3. r \in FromBroker /\ Tells(r) /\ r.corr = Head(toBroker).corr
  BY <1>2 DEF Tells, Reply, Message
<1>4. call # NoCall /\ Head(toBroker).corr = call.corr => Head(toBroker).key = call.key
  BY <1>1, InTurnTaken DEF Ordered
<1>5. call.key = "QueryOffset" => call # NoCall
  BY DEF NoCall
<1>6. ~(call.key = "QueryOffset" /\ r.corr = call.corr)
  BY <1>3, <1>4, <1>5 DEF Changes
<1>7. QED
  BY <1>3, <1>6, TrulyTold

\* The broker answers the query with what was stored when it was made.
LEMMA TrulyAnswered ==
  ASSUME Types, Ordered, Stored, Truly, NEW s \in Stream, AnswersQuery(s)
  PROVE  Truly'
<1>1. toBroker \in Seq(FromClient) /\ offsets[s] \in Offset
  BY OffsetTypes
<1>2. PICK m \in FromClient : m = Head(toBroker) /\ m.key = "QueryOffset" /\ m.arg[1] = s
  BY DEF AnswersQuery, Takes
<1>3. PICK r : r = IF offsets[s] = LogLength THEN Reply(m, "NoOffset", <<0>>)
                   ELSE Reply(m, "OK", <<offsets[s]>>)
  OBVIOUS
<1>4. /\ Takes /\ toBroker # << >> /\ Tells(r) /\ r \in FromBroker
      /\ UNCHANGED <<call, asked, queried>>
  BY <1>2, <1>3 DEF AnswersQuery, Tells, Takes, client
<1>5. /\ r.corr = m.corr
      /\ IF offsets[s] = LogLength THEN r.code = "NoOffset"
         ELSE r.code = "OK" /\ r.arg[1] = offsets[s]
  BY <1>3 DEF Reply, Message
<1>6. ASSUME call.key = "QueryOffset", r.corr = call.corr PROVE Tell(r)
  <2>1. call # NoCall
    BY <1>6 DEF NoCall
  <2>2. m.arg = call.arg
    BY <1>1, <1>2, <1>4, <1>5, <1>6, <2>1, InTurnTaken DEF Ordered
  <2>3. AsksFor(s, call, m)
    BY <1>2, <1>5, <1>6, <2>1, <2>2 DEF AsksFor
  <2>4. offsets[s] = asked
    BY <1>2, <1>4, <2>3, StoredTaken
  <2>5. QED
    BY <1>5, <2>4 DEF Tell
<1>7. QED
  BY <1>4, <1>6, TrulyTold

LEMMA TrulyStep ==
  ASSUME Types, Ordered, Stored, Truly, Steps
  PROVE  Truly'
<1>1. /\ toClient \in Seq(FromBroker) /\ toBroker \in Seq(FromClient) /\ CorrelationId \in Nat
      /\ call # NoCall => call.corr \in Nat \ {0}
  BY OffsetTypes
<1>2. CASE RequestIsMade
  <2>1. PICK key, arg : key \in Asked /\ Asks(key, arg)
    BY <1>2 DEF RequestIsMade
  <2>2. /\ call' = [key |-> key, corr |-> CorrelationId + 1, arg |-> arg] /\ toClient' = toClient
        /\ key = "QueryOffset" => queried' = NotQueried
    BY <2>1 DEF Asks
  <2>3. call'.key = key /\ call'.corr = CorrelationId + 1
    BY <2>2
  <2>4. ~NotQueried.ValidOffset /\ ~NotQueried.answered
    BY DEF NotQueried
  <2>5. \A j \in DOMAIN toClient : toClient[j].corr # CorrelationId + 1
    <3>1. \A n \in FromClient : n.corr \in Nat
      BY ClientFrame
    <3>2. \A n \in FromBroker : n.corr \in Nat
      BY BrokerFrame
    <3>3. QED
      BY <1>1, <3>1, <3>2, InTurnNew DEF Ordered
  <2>6. QED
    BY <2>2, <2>3, <2>4, <2>5 DEF Truly
<1>3. CASE GivesUp \/ LearnsName \/ LearnsOffset
  <2>1. call' = NoCall
    BY <1>3 DEF GivesUp, LearnsName, LearnsOffset
  <2>2. NoCall.key # "QueryOffset"
    BY DEF NoCall
  <2>3. QED
    BY <2>1, <2>2 DEF Truly
<1>4. CASE Drops \/ ChunkIsHandled
  <2>1. ASSUME ChunkIsHandled PROVE Receives /\ UNCHANGED <<call, asked, queried>>
    <3>1. PICK k \in Nat, i \in Id, first \in Offset, n \in Nat, stream \in Stream,
               number \in Nat \ {0} : Handles(k, i, first, n, stream, number)
      BY <2>1 DEF ChunkIsHandled
    <3>2. QED
      BY <3>1, Zenon DEF Handles
  <2>2. Receives /\ UNCHANGED <<call, asked, queried>>
    BY <1>4, <2>1 DEF Drops, client
  <2>3. ASSUME NEW k \in DOMAIN toClient' PROVE \E j \in DOMAIN toClient : toClient'[k] = toClient[j]
    <3>1. toClient' = Tail(toClient) /\ toClient # << >>
      BY <2>2 DEF Receives
    <3>2. k + 1 \in DOMAIN toClient /\ toClient'[k] = toClient[k + 1]
      BY <1>1, <3>1, TailFacts
    <3>3. QED
      BY <3>2
  <2>4. QED
    BY <2>2, <2>3, TrulyLeft
<1>5. CASE CreditIsSent \/ OffsetIsSent \/ CreditArrives \/ OffsetIsStored \/ UNCHANGED vars
  <2>1. UNCHANGED <<toClient, call, asked, queried>>
    BY <1>5 DEF CreditIsSent, Grants, OffsetIsSent, StoresOffset, CreditArrives, Credited,
                OffsetIsStored, Stores, vars, connection, client
  <2>2. QED
    BY <2>1 DEF Truly
<1>6. CASE Loses
  <2>1. PICK n \in 0..Len(toClient) :
          toClient' = SubSeq(toClient, 1, n) /\ UNCHANGED <<call, asked, queried>>
    BY <1>6 DEF Loses, client
  <2>2. \A k \in DOMAIN toClient' : k \in DOMAIN toClient /\ toClient'[k] = toClient[k]
    BY <1>1, <2>1
  <2>3. QED
    BY <2>1, <2>2, TrulyLeft
<1>7. CASE Refuses
  BY <1>7, TrulyReplied DEF Refuses, client
<1>8. CASE IdIsOpened
  BY <1>8, TrulyReplied DEF IdIsOpened, Opens, Changes
<1>9. CASE IdIsClosed
  BY <1>9, TrulyReplied DEF IdIsClosed, Closes, Changes, client
<1>10. ASSUME NEW arg, NEW key, Tells(Push(key, arg)), UNCHANGED <<call, asked, queried>>
       PROVE  Truly'
  <2>1. PICK m \in FromBroker : m = Push(key, arg) /\ Tells(m) /\ m.corr = 0
    BY <1>10, PushFacts DEF Tells
  <2>2. call.key = "QueryOffset" => call # NoCall
    BY DEF NoCall
  <2>3. QED
    BY <1>1, <1>10, <2>1, <2>2, TrulyTold
<1>11. CASE CreditRefused \/ HeartbeatIsSent
  BY <1>10, <1>11 DEF CreditRefused, HeartbeatIsSent, client
<1>12. CASE ChunkIsSent
  BY <1>10, <1>12 DEF ChunkIsSent, Delivers, client
<1>13. CASE QueryIsAnswered
  BY <1>13, TrulyAnswered DEF QueryIsAnswered
<1>14. QED
  BY <1>2, <1>3, <1>4, <1>5, <1>6, <1>7, <1>8, <1>9, <1>11, <1>12, <1>13
     DEF Steps, ClientSteps, BrokerSteps

LEMMA ReadsStep ==
  ASSUME Types, Ordered, Truly, ReadsItsStores, Steps
  PROVE  ReadsItsStores'
<1>1. CASE UNCHANGED <<asked, queried>>
  BY <1>1 DEF ReadsItsStores
<1>2. CASE RequestIsMade
  <2>1. PICK key, arg : Asks(key, arg)
    BY <1>2 DEF RequestIsMade
  <2>2. queried' = NotQueried \/ UNCHANGED <<asked, queried>>
    BY <2>1 DEF Asks
  <2>3. ~NotQueried.answered
    BY DEF NotQueried
  <2>4. QED
    BY <2>2, <2>3 DEF ReadsItsStores
<1>3. CASE LearnsOffset
  <2>1. toClient \in Seq(FromBroker) /\ toClient # << >> /\ 1 \in DOMAIN toClient
    BY <1>3, OffsetTypes DEF LearnsOffset, Receives
  <2>2. PICK m : m = Head(toClient) /\ m = toClient[1]
    BY <2>1
  <2>3. call # NoCall /\ m.corr = call.corr /\ call.key = "QueryOffset"
    BY <1>3, <2>2 DEF LearnsOffset, NoCall
  <2>4. m.key = call.key
    <3>1. \A j \in DOMAIN toClient : toClient[j].corr = call.corr => toClient[j].key = call.key
      BY <2>3 DEF Ordered, InTurn
    <3>2. QED
      BY <2>1, <2>2, <2>3, <3>1
  <2>5. Tell(m)
    BY <2>1, <2>2, <2>3 DEF Truly, Tell
  <2>6. /\ asked' = asked
        /\ queried' = IF Good(m)
                      THEN [ValidOffset |-> TRUE, Offset |-> m.arg[1], answered |-> TRUE]
                      ELSE [ValidOffset |-> FALSE, Offset |-> 0, answered |->
                              m.key = call.key /\ m.code = "NoOffset"]
    BY <1>3, <2>2 DEF LearnsOffset
  <2>7. Good(m) <=> asked # LogLength
    BY <2>4, <2>5 DEF Tell, Good
  <2>8. CASE asked = LogLength
    <3>1. ~queried'.ValidOffset
      BY <2>6, <2>7, <2>8
    <3>2. QED
      BY <2>6, <2>8, <3>1 DEF ReadsItsStores
  <2>9. CASE asked # LogLength
    <3>1. queried'.ValidOffset /\ queried'.Offset = asked
      BY <2>5, <2>6, <2>7, <2>9 DEF Tell
    <3>2. QED
      BY <2>6, <2>9, <3>1 DEF ReadsItsStores
  <2>10. QED
    BY <2>8, <2>9
<1>4. CASE queried' = NotQueried
  <2>1. ~NotQueried.answered
    BY DEF NotQueried
  <2>2. QED
    BY <1>4, <2>1 DEF ReadsItsStores
<1>5. QED
  BY <1>1, <1>2, <1>3, <1>4, Changing

LEMMA InitOffsets == Init => Ordered /\ Stored /\ Truly /\ ReadsItsStores
<1> SUFFICES ASSUME Init PROVE Ordered /\ Stored /\ Truly /\ ReadsItsStores
  OBVIOUS
<1>1. toBroker = << >> /\ toClient = << >> /\ CorrelationId = 0 /\ call = NoCall
  BY Zenon DEF Init, ConnectionInit
<1>2. /\ stores = [s \in Stream |-> LogLength] /\ offsets = [s \in Stream |-> LogLength]
      /\ queried = NotQueried
  BY Zenon DEF Init, NotQueried
<1>3. Ordered
  BY <1>1, InTurnAtFirst DEF Ordered
<1>4. Stored
  <2>1. LogLength \in Offset
    <3>1. LogLength \in Nat
      BY Constants
    <3>2. QED
      BY <3>1 DEF Offset
  <2>2. \A s \in Stream : stores[s] = LogLength /\ offsets[s] = LogLength
    BY <1>2
  <2>3. QED
    BY <1>1, <2>1, <2>2, LeadsEmpty DEF Stored
<1>5. Truly
  BY <1>1 DEF Truly, NoCall
<1>6. ReadsItsStores
  <2>1. ~NotQueried.answered
    BY DEF NotQueried
  <2>2. QED
    BY <1>2, <2>1 DEF ReadsItsStores
<1>7. QED
  BY <1>3, <1>4, <1>5, <1>6

-----------------------------------------------------------------------------
(* The names of the streams.                                               *)

\* What the client knows of an id: the name in its table, and whether it is sure of it.
Known == [known : BOOLEAN, name : Name]

\* The frame m is the good answer to the call c, which changes id i.
Answers(i, c, m) ==
    c.key \in Changes /\ c.arg[1] = i /\ m.corr = c.corr /\ m.key = c.key /\ m.code = "OK"

\* A good answer gives a new name; a chunk has the name that is known when it is handled.
NameSteps(i, c) ==
    {t \in Known \X FromBroker \X Known :
        /\ t[3] = IF Answers(i, c, t[2]) THEN [known |-> TRUE, name |-> NewName(c)] ELSE t[1]
        /\ t[2].key = "Deliver" /\ t[2].arg[1] = i /\ t[1].known => t[2].arg[4] = t[1].name}

InTable(i) == [known |-> doubt[i] # "now", name |-> SubscriptionStreamTable[i]]

\* From the table the frames on their way lead to the stream the broker has for the id.
Named ==
    \A i \in Id : \E end \in Known :
        /\ Leads(InTable(i), toClient, end, NameSteps(i, call), Known)
        /\ link = "up" /\ end.known => subscription[i].stream = end.name

\* A change on its way to the broker is the one the client waits for, or one it gave up.
Pending ==
    \A j \in DOMAIN toBroker : toBroker[j].key \in Changes =>
        \/ call # NoCall /\ toBroker[j].corr = call.corr
        \/ doubt[toBroker[j].arg[1]] = "now"

LEMMA InTableFacts ==
  ASSUME Types, NEW i \in Id
  PROVE  /\ InTable(i) \in Known /\ InTable(i).known = (doubt[i] # "now")
         /\ InTable(i).name = SubscriptionStreamTable[i]
<1>1. SubscriptionStreamTable[i] \in Name
  <2>1. SubscriptionStreamTable \in [Id -> Name]
    BY Zenon DEF Types, TypeOK, Name
  <2>2. QED
    BY <2>1
<1>2. QED
  BY <1>1 DEF InTable, Known

LEMMA NoAnswers ==
  ASSUME NEW i, NEW m
  PROVE  ~Answers(i, NoCall, m)
BY DEF Answers, NoCall, Changes

LEMMA NoPushAnswers ==
  ASSUME Types, NEW i, NEW m, m.corr = 0
  PROVE  ~Answers(i, call, m)
BY CallFacts DEF Types, Answers, Asked

\* The names when no frame on its way answers either of the calls.
LEMMA NamesOtherwise ==
  ASSUME NEW i, NEW tc \in Seq(FromBroker), NEW a, NEW b, NEW c, NEW d,
         Leads(a, tc, b, NameSteps(i, c), Known),
         \A j \in DOMAIN tc : ~Answers(i, c, tc[j]) /\ ~Answers(i, d, tc[j])
  PROVE  Leads(a, tc, b, NameSteps(i, d), Known)
<1>1. ASSUME NEW j \in DOMAIN tc, NEW x \in Known, NEW y \in Known,
             <<x, tc[j], y>> \in NameSteps(i, c)
      PROVE  <<x, tc[j], y>> \in NameSteps(i, d)
  <2>1. PICK m \in FromBroker : m = tc[j]
    BY ElementOf
  <2>2. ~Answers(i, c, m) /\ ~Answers(i, d, m)
    BY <2>1
  <2>3. QED
    BY <1>1, <2>1, <2>2 DEF NameSteps
<1>2. QED
  BY <1>1, LeadsOtherwise

\* The client takes a frame.
LEMMA NamesTail ==
  ASSUME Types, Receives, NEW i \in Id, NEW b, NEW c,
         Leads(InTable(i), toClient, b, NameSteps(i, c), Known)
  PROVE  /\ Leads(IF Answers(i, c, Head(toClient)) THEN [known |-> TRUE, name |-> NewName(c)]
                  ELSE InTable(i), toClient', b, NameSteps(i, c), Known)
         /\ Head(toClient).key = "Deliver" /\ Head(toClient).arg[1] = i /\ doubt[i] # "now" =>
              Head(toClient).arg[4] = SubscriptionStreamTable[i]
<1>1. toClient \in Seq(FromBroker) /\ toClient # << >> /\ toClient' = Tail(toClient)
  BY OffsetTypes DEF Receives
<1>2. PICK m \in FromBroker : m = Head(toClient)
  BY DEF Receives
<1>3. PICK y \in Known : <<InTable(i), m, y>> \in NameSteps(i, c)
                         /\ Leads(y, Tail(toClient), b, NameSteps(i, c), Known)
  BY <1>1, <1>2, LeadsTail
<1>4. PICK x \in Known : x = InTable(i) /\ x.known = (doubt[i] # "now")
                         /\ x.name = SubscriptionStreamTable[i]
  BY InTableFacts
<1>5. /\ y = IF Answers(i, c, m) THEN [known |-> TRUE, name |-> NewName(c)] ELSE x
      /\ m.key = "Deliver" /\ m.arg[1] = i /\ x.known => m.arg[4] = x.name
  BY <1>3, <1>4 DEF NameSteps
<1>6. QED
  BY <1>1, <1>2, <1>3, <1>4, <1>5

\* The broker tells something that does not answer the call.
LEMMA NamesTold ==
  ASSUME Types, NEW i \in Id, NEW m \in FromBroker, NEW b \in Known,
         Leads(InTable(i), toClient, b, NameSteps(i, call), Known),
         ~Answers(i, call, m), Tells(m),
         m.key = "Deliver" /\ m.arg[1] = i /\ b.known => m.arg[4] = b.name
  PROVE  Leads(InTable(i), toClient', b, NameSteps(i, call), Known)
<1>1. toClient \in Seq(FromBroker) /\ toClient' = Append(toClient, m)
  BY OffsetTypes DEF Tells
<1>2. <<b, m, b>> \in NameSteps(i, call)
  BY DEF NameSteps
<1>3. QED
  BY <1>1, <1>2, LeadsAppend

\* No frame on its way to the client answers the call.
NoneAnswers == \A i \in Id : \A j \in DOMAIN toClient : ~Answers(i, call, toClient[j])

\* The broker takes a request that changes id i and answers it well.
LEMMA NamedAnswered ==
  ASSUME Types, Ordered, Pending, Named, NEW i \in Id, NEW s \in Name,
         Takes, Head(toBroker).key \in Changes, Head(toBroker).arg[1] = i,
         s = NewName(Head(toBroker)), Tells(Reply(Head(toBroker), "OK", << >>)),
         subscription'[i].stream = s,
         \A j \in Id : j # i => subscription'[j].stream = subscription[j].stream,
         UNCHANGED <<link, call, doubt, SubscriptionStreamTable>>
  PROVE  Named'
<1>1. toBroker \in Seq(FromClient) /\ toClient \in Seq(FromBroker) /\ toBroker # << >>
  BY OffsetTypes DEF Takes
<1>2. PICK m \in FromClient : m = Head(toBroker) /\ m = toBroker[1] /\ 1 \in DOMAIN toBroker
  BY <1>1, TailFacts DEF Takes
<1>3. PICK r \in FromBroker : r = Reply(m, "OK", << >>) /\ Tells(r)
  BY <1>2 DEF Tells
<1>4. r.key = m.key /\ r.corr = m.corr /\ r.code = "OK" /\ r.key # "Deliver"
  BY <1>2, <1>3 DEF Reply, Message, Changes
<1>5. m.corr # 0
  BY <1>2, ClientFrame DEF Changes
<1>6. call # NoCall => \A k \in DOMAIN toClient : toClient[k].corr # call.corr
  BY <1>1, <1>2, <1>5, InTurnTaken DEF Ordered
<1>7. NoneAnswers
  BY <1>6, NoAnswers DEF NoneAnswers, Answers
<1>8. call # NoCall /\ m.corr = call.corr => m.key = call.key /\ m.arg = call.arg
  BY <1>1, <1>2, InTurnTaken DEF Ordered
<1> SUFFICES ASSUME NEW j \in Id
             PROVE  \E end \in Known :
                      /\ Leads(InTable(j), toClient', end, NameSteps(j, call), Known)
                      /\ link = "up" /\ end.known => subscription'[j].stream = end.name
  BY DEF Named, InTable
<1>9. PICK end \in Known :
        /\ Leads(InTable(j), toClient, end, NameSteps(j, call), Known)
        /\ link = "up" /\ end.known => subscription[j].stream = end.name
  BY DEF Named
<1>10. CASE Answers(j, call, r)
  <2>1. call # NoCall /\ m.corr = call.corr /\ m.key = call.key /\ m.arg = call.arg /\ j = i
    BY <1>2, <1>4, <1>8, <1>10, NoAnswers DEF Answers
  <2>2. NewName(call) = s
    BY <1>2, <2>1 DEF NewName
  <2>3. PICK y \in Known : y = [known |-> TRUE, name |-> s]
    BY DEF Known
  <2>4. <<end, r, y>> \in NameSteps(j, call)
    BY <1>4, <1>10, <2>2, <2>3 DEF NameSteps
  <2>5. Leads(InTable(j), Append(toClient, r), y, NameSteps(j, call), Known)
    BY <1>1, <1>9, <2>4, LeadsAppend
  <2>6. y.name = s
    BY <2>3
  <2>7. QED
    BY <1>3, <2>1, <2>5, <2>6 DEF Tells
<1>11. CASE ~Answers(j, call, r)
  <2>1. Leads(InTable(j), toClient', end, NameSteps(j, call), Known)
    BY <1>3, <1>4, <1>9, <1>11, NamesTold
  <2>2. CASE j # i
    BY <1>9, <2>1, <2>2
  <2>3. CASE j = i
    <3>1. ~(call # NoCall /\ m.corr = call.corr)
      BY <1>2, <1>4, <1>8, <1>11, <2>3 DEF Answers
    <3>2. doubt[i] = "now"
      BY <1>2, <3>1 DEF Pending
    <3>3. ASSUME NEW k \in DOMAIN toClient, NEW x \in Known, NEW y \in Known,
                 <<x, toClient[k], y>> \in NameSteps(j, call)
          PROVE  y = x
      <4>1. PICK n \in FromBroker : n = toClient[k]
        BY <1>1, ElementOf
      <4>2. ~Answers(j, call, n)
        BY <1>7, <4>1 DEF NoneAnswers
      <4>3. QED
        BY <3>3, <4>1, <4>2 DEF NameSteps
    <3>4. end = InTable(j)
      BY <1>1, <1>9, <3>3, LeadsNowhere
    <3>5. ~end.known
      BY <2>3, <3>2, <3>4, InTableFacts
    <3>6. QED
      BY <2>1, <3>5
  <2>4. QED
    BY <2>2, <2>3
<1>12. QED
  BY <1>10, <1>11

\* The broker tells something that changes no name.
LEMMA NamedTold ==
  ASSUME Types, Named, NEW m \in FromBroker, Tells(m),
         \A i \in Id : ~Answers(i, call, m) /\ subscription'[i].stream = subscription[i].stream,
         m.key = "Deliver" => link = "up" /\ m.arg[4] = subscription[m.arg[1]].stream,
         UNCHANGED <<link, call, doubt, SubscriptionStreamTable>>
  PROVE  Named'
<1> SUFFICES ASSUME NEW i \in Id
             PROVE  \E end \in Known :
                      /\ Leads(InTable(i), toClient', end, NameSteps(i, call), Known)
                      /\ link = "up" /\ end.known => subscription[i].stream = end.name
  BY DEF Named, InTable
<1>1. PICK end \in Known :
        /\ Leads(InTable(i), toClient, end, NameSteps(i, call), Known)
        /\ link = "up" /\ end.known => subscription[i].stream = end.name
  BY DEF Named
<1>2. m.key = "Deliver" /\ m.arg[1] = i /\ end.known => m.arg[4] = end.name
  BY <1>1
<1>3. QED
  BY <1>1, <1>2, NamesTold

\* The steps of the client that take a frame, or end the call.
LEMMA NamedTaken ==
  ASSUME Types, Ordered, Named, Receives, ~LearnsName,
         \A i \in Id : ~Answers(i, call, Head(toClient)),
         UNCHANGED call \/ (call' = NoCall /\ call.key = "QueryOffset"),
         UNCHANGED <<link, doubt, SubscriptionStreamTable, subscription>>
  PROVE  Named'
<1>1. toClient' \in Seq(FromBroker)
  <2>1. toClient \in Seq(FromBroker)
    BY OffsetTypes
  <2>2. QED
    BY <2>1 DEF Receives
<1> SUFFICES ASSUME NEW i \in Id
             PROVE  \E end \in Known :
                      /\ Leads(InTable(i), toClient', end, NameSteps(i, call'), Known)
                      /\ link = "up" /\ end.known => subscription[i].stream = end.name
  BY DEF Named, InTable
<1>2. PICK end \in Known :
        /\ Leads(InTable(i), toClient, end, NameSteps(i, call), Known)
        /\ link = "up" /\ end.known => subscription[i].stream = end.name
  BY DEF Named
<1>3. Leads(InTable(i), toClient', end, NameSteps(i, call), Known)
  BY <1>2, NamesTail
<1>4. CASE UNCHANGED call
  BY <1>2, <1>3, <1>4
<1>5. CASE call' = NoCall /\ call.key = "QueryOffset"
  <2>1. \A m : ~Answers(i, call, m) /\ ~Answers(i, NoCall, m)
    BY <1>5, NoAnswers DEF Answers, Changes
  <2>2. Leads(InTable(i), toClient', end, NameSteps(i, NoCall), Known)
    BY <1>1, <1>3, <2>1, NamesOtherwise
  <2>3. QED
    BY <1>2, <1>5, <2>2
<1>6. QED
  BY <1>4, <1>5

\* The answer to the call comes in, and the table takes its name.
LEMMA NamedLearnt ==
  ASSUME Types, Ordered, Named, LearnsName
  PROVE  Named'
<1>1. /\ Receives /\ Head(toClient).corr = call.corr /\ call.key \in Changes /\ call' = NoCall
      /\ UNCHANGED <<toBroker, link, subscription>>
  BY DEF LearnsName, broker
<1>2. toClient \in Seq(FromBroker) /\ toClient # << >> /\ toClient' = Tail(toClient)
  BY <1>1, OffsetTypes DEF Receives
<1>3. PICK m \in FromBroker : m = Head(toClient) /\ m.corr = call.corr
  BY <1>1 DEF Receives
<1>4. call # NoCall /\ call.arg[1] \in Id
  BY <1>1, CallFacts DEF Types, Asked, Changes
<1>5. m.key = call.key /\ \A j \in DOMAIN toClient' : toClient'[j].corr # call.corr
  <2>1. \A j \in DOMAIN toClient : toClient[j].corr = call.corr =>
          toClient[j].key = call.key /\ \A k \in DOMAIN toClient : toClient[k].corr = call.corr => k = j
    BY <1>4 DEF Ordered, InTurn
  <2>2. 1 \in DOMAIN toClient /\ m = toClient[1]
    BY <1>2, <1>3, TailFacts
  <2>3. ASSUME NEW j \in DOMAIN toClient' PROVE toClient'[j].corr # call.corr
    <3>1. j + 1 \in DOMAIN toClient /\ toClient'[j] = toClient[j + 1]
      BY <1>2, TailFacts
    <3>2. j + 1 # 1
      BY <1>2
    <3>3. QED
      BY <1>3, <2>1, <2>2, <3>1, <3>2
  <2>4. QED
    BY <1>3, <2>1, <2>2, <2>3
<1>6. PICK a : a = call.arg[1] /\ a \in Id
  BY <1>4
<1>7. IF Good(m)
      THEN /\ SubscriptionStreamTable' = [SubscriptionStreamTable EXCEPT ![a] = NewName(call)]
           /\ doubt' = [doubt EXCEPT ![a] = IF @ = "now" THEN "past" ELSE @]
      ELSE UNCHANGED <<SubscriptionStreamTable, doubt>>
  BY <1>3, <1>6 DEF LearnsName
<1>8. /\ SubscriptionStreamTable \in [Id -> Stream \cup {""}]
      /\ doubt \in [Id -> {"none", "now", "past"}]
  BY Zenon DEF Types, TypeOK
<1> SUFFICES ASSUME NEW i \in Id
             PROVE  \E end \in Known :
                      /\ Leads(InTable(i)', toClient', end, NameSteps(i, NoCall), Known)
                      /\ link = "up" /\ end.known => subscription[i].stream = end.name
  BY <1>1 DEF Named
<1>9. PICK end \in Known :
        /\ Leads(InTable(i), toClient, end, NameSteps(i, call), Known)
        /\ link = "up" /\ end.known => subscription[i].stream = end.name
  BY DEF Named
<1>10. PICK x : x = IF Answers(i, call, m) THEN [known |-> TRUE, name |-> NewName(call)]
                    ELSE InTable(i)
  OBVIOUS
<1>11. Leads(x, toClient', end, NameSteps(i, call), Known)
  BY <1>1, <1>3, <1>9, <1>10, NamesTail
<1>12. toClient' \in Seq(FromBroker)
  BY <1>2
<1>13. \A j \in DOMAIN toClient' : ~Answers(i, call, toClient'[j]) /\ ~Answers(i, NoCall, toClient'[j])
  BY <1>5, NoAnswers DEF Answers
<1>14. Leads(x, toClient', end, NameSteps(i, NoCall), Known)
  BY <1>11, <1>12, <1>13, NamesOtherwise
<1>15. Answers(i, call, m) <=> i = a /\ Good(m)
  BY <1>1, <1>3, <1>5, <1>6 DEF Answers, Good
<1>16. InTable(i)' = x
  <2>1. CASE Answers(i, call, m)
    <3>1. SubscriptionStreamTable'[i] = NewName(call) /\ doubt'[i] # "now"
      BY <1>7, <1>8, <1>15, <2>1
    <3>2. QED
      BY <1>10, <2>1, <3>1 DEF InTable
  <2>2. CASE ~Answers(i, call, m)
    <3>1. SubscriptionStreamTable'[i] = SubscriptionStreamTable[i] /\ doubt'[i] = doubt[i]
      BY <1>7, <1>8, <1>15, <2>2
    <3>2. QED
      BY <1>10, <2>2, <3>1 DEF InTable
  <2>3. QED
    BY <2>1, <2>2
<1>17. QED
  BY <1>9, <1>14, <1>16

\* A call begins: nothing on its way answers it.
LEMMA NamedAsks ==
  ASSUME Types, Ordered, Named, NEW key \in Asked, NEW arg, Asks(key, arg)
  PROVE  Named'
<1>1. toClient \in Seq(FromBroker) /\ toBroker \in Seq(FromClient) /\ CorrelationId \in Nat
  BY OffsetTypes
<1>2. PICK c : c = [key |-> key, corr |-> CorrelationId + 1, arg |-> arg]
  OBVIOUS
<1>3. /\ call = NoCall /\ call' = c
      /\ UNCHANGED <<toClient, link, doubt, SubscriptionStreamTable, subscription>>
  BY <1>2 DEF Asks, broker
<1>4. c.corr = CorrelationId + 1
  BY <1>2
<1>5. \A j \in DOMAIN toClient : toClient[j].corr # CorrelationId + 1
  <2>1. \A n \in FromClient : n.corr \in Nat
    BY ClientFrame
  <2>2. \A n \in FromBroker : n.corr \in Nat
    BY BrokerFrame
  <2>3. QED
    BY <1>1, <2>1, <2>2, InTurnNew DEF Ordered
<1> SUFFICES ASSUME NEW i \in Id
             PROVE  \E end \in Known :
                      /\ Leads(InTable(i), toClient, end, NameSteps(i, c), Known)
                      /\ link = "up" /\ end.known => subscription[i].stream = end.name
  BY <1>3 DEF Named, InTable
<1>6. PICK end \in Known :
        /\ Leads(InTable(i), toClient, end, NameSteps(i, call), Known)
        /\ link = "up" /\ end.known => subscription[i].stream = end.name
  BY DEF Named
<1>7. \A j \in DOMAIN toClient : ~Answers(i, call, toClient[j]) /\ ~Answers(i, c, toClient[j])
  BY <1>4, <1>3, <1>5, NoAnswers DEF Answers
<1>8. Leads(InTable(i), toClient, end, NameSteps(i, c), Known)
  BY <1>1, <1>6, <1>7, NamesOtherwise
<1>9. QED
  BY <1>6, <1>8

\* A call ends without its answer: from now on the client is not sure of its id.
LEMMA NamedGivesUp ==
  ASSUME Types, Named, GivesUp
  PROVE  Named'
<1>1. /\ call # NoCall /\ call' = NoCall
      /\ doubt' = IF call.key \in Changes THEN [doubt EXCEPT ![call.arg[1]] = "now"] ELSE doubt
      /\ UNCHANGED <<link, SubscriptionStreamTable, subscription>>
  BY DEF GivesUp, broker
<1>2. toClient' \in Seq(FromBroker) /\ doubt \in [Id -> {"none", "now", "past"}]
  <2>1. doubt \in [Id -> {"none", "now", "past"}]
    BY Zenon DEF Types, TypeOK
  <2>2. QED
    BY <2>1, ChannelsStep DEF Steps, ClientSteps
<1> SUFFICES ASSUME NEW i \in Id
             PROVE  \E end \in Known :
                      /\ Leads(InTable(i)', toClient', end, NameSteps(i, NoCall), Known)
                      /\ link = "up" /\ end.known => subscription[i].stream = end.name
  BY <1>1 DEF Named
<1>3. CASE call.key \in Changes /\ call.arg[1] = i
  <2>1. doubt'[i] = "now"
    BY <1>1, <1>2, <1>3
  <2>2. PICK x : x = [known |-> FALSE, name |-> SubscriptionStreamTable[i]]
    OBVIOUS
  <2>3. x \in Known /\ ~x.known
    <3>1. SubscriptionStreamTable[i] \in Name
      BY InTableFacts DEF Known
    <3>2. QED
      BY <2>2, <3>1 DEF Known
  <2>4. InTable(i)' = x
    BY <1>1, <2>1, <2>2 DEF InTable
  <2>5. ASSUME NEW j \in DOMAIN toClient' PROVE <<x, toClient'[j], x>> \in NameSteps(i, NoCall)
    <3>1. PICK m \in FromBroker : m = toClient'[j]
      BY <1>2, ElementOf
    <3>2. ~Answers(i, NoCall, m)
      BY NoAnswers
    <3>3. QED
      BY <2>3, <3>1, <3>2 DEF NameSteps
  <2>6. Leads(x, toClient', x, NameSteps(i, NoCall), Known)
    BY <1>2, <2>3, <2>5, LeadsInPlace
  <2>7. QED
    BY <2>3, <2>4, <2>6
<1>4. CASE ~(call.key \in Changes /\ call.arg[1] = i)
  <2>1. doubt'[i] = doubt[i]
    BY <1>1, <1>2, <1>4
  <2>2. InTable(i)' = InTable(i)
    BY <1>1, <2>1 DEF InTable
  <2>3. PICK end \in Known :
          /\ Leads(InTable(i), toClient, end, NameSteps(i, call), Known)
          /\ link = "up" /\ end.known => subscription[i].stream = end.name
    BY DEF Named
  <2>4. \A m : ~Answers(i, call, m) /\ ~Answers(i, NoCall, m)
    BY <1>4, NoAnswers DEF Answers
  <2>5. Leads(InTable(i), toClient', end, NameSteps(i, call), Known)
    BY <2>3, <2>4, GivesUpFacts, NamesTail
  <2>6. Leads(InTable(i), toClient', end, NameSteps(i, NoCall), Known)
    BY <1>2, <2>4, <2>5, NamesOtherwise
  <2>7. QED
    BY <2>2, <2>3, <2>6
<1>5. QED
  BY <1>3, <1>4

LEMMA NamedStep ==
  ASSUME Types, Ordered, Pending, Named, Steps
  PROVE  Named'
<1>1. /\ toClient \in Seq(FromBroker) /\ toBroker \in Seq(FromClient)
      /\ subscription \in [Id -> Subscriptions]
  <2>1. subscription \in [Id -> Subscriptions]
    BY Zenon DEF Types, TypeOK, Subscriptions
  <2>2. QED
    BY <2>1, OffsetTypes
<1>2. CASE RequestIsMade
  BY <1>2, NamedAsks DEF RequestIsMade
<1>3. CASE GivesUp
  BY <1>3, NamedGivesUp
<1>4. CASE LearnsName
  BY <1>4, NamedLearnt
<1>5. CASE ~LearnsName /\ LearnsOffset
  <2>1. /\ Receives /\ call' = NoCall /\ call.key = "QueryOffset"
        /\ UNCHANGED <<link, doubt, SubscriptionStreamTable, subscription>>
    BY <1>5 DEF LearnsOffset, broker
  <2>2. \A i \in Id : ~Answers(i, call, Head(toClient))
    BY <2>1 DEF Answers, Changes
  <2>3. QED
    BY <1>5, <2>1, <2>2, NamedTaken
<1>6. CASE ~LearnsName /\ Drops
  <2>1. /\ Receives /\ UNCHANGED <<call, link, doubt, SubscriptionStreamTable, subscription>>
        /\ call # NoCall => Head(toClient).corr # call.corr
    BY <1>6 DEF Drops, client, broker
  <2>2. \A i \in Id : ~Answers(i, call, Head(toClient))
    BY <2>1, NoAnswers DEF Answers
  <2>3. QED
    BY <1>6, <2>1, <2>2, NamedTaken
<1>7. CASE ~LearnsName /\ ChunkIsHandled
  <2>1. PICK k \in Nat, i \in Id, first \in Offset, n \in Nat, stream \in Stream,
             number \in Nat \ {0} : Handles(k, i, first, n, stream, number)
    BY <1>7 DEF ChunkIsHandled
  <2>2. /\ Receives /\ Head(toClient).key = "Deliver"
        /\ UNCHANGED <<call, link, doubt, SubscriptionStreamTable, broker>>
    BY <2>1, Zenon DEF Handles
  <2>3. Head(toClient).corr = 0
    BY <2>2, BrokerFrame DEF Receives
  <2>4. \A j \in Id : ~Answers(j, call, Head(toClient))
    BY <2>3, NoPushAnswers
  <2>5. UNCHANGED subscription
    BY <2>2 DEF broker
  <2>6. QED
    BY <1>7, <2>2, <2>4, <2>5, NamedTaken
\* Nothing comes or goes, and every subscription keeps its stream.
<1>8. ASSUME UNCHANGED <<toClient, link, call, doubt, SubscriptionStreamTable>>,
             \A i \in Id : subscription'[i].stream = subscription[i].stream
      PROVE  Named'
  <2>1. \A i \in Id : InTable(i)' = InTable(i)
    BY <1>8 DEF InTable
  <2>2. QED
    BY <1>8, <2>1 DEF Named
<1>9. CASE CreditIsSent \/ OffsetIsSent \/ OffsetIsStored \/ UNCHANGED vars
  <2>1. UNCHANGED <<toClient, link, call, doubt, SubscriptionStreamTable, subscription>>
    BY <1>9 DEF CreditIsSent, Grants, OffsetIsSent, StoresOffset, OffsetIsStored, Stores,
                vars, connection, client, broker
  <2>2. QED
    BY <1>8, <2>1
<1>10. CASE CreditArrives
  <2>1. PICK i \in Id, n \in Nat : Credited(i, n)
    BY <1>10 DEF CreditArrives
  <2>2. subscription[i].credit + n \in Nat /\ subscription[i].next \in Offset
    <3>1. subscription[i].credit \in Nat /\ subscription[i].next \in Offset
      BY <1>1, SubscriptionType
    <3>2. QED
      BY <3>1
  <2>3. /\ Serve(i, subscription[i].credit + n, subscription[i].next)
        /\ UNCHANGED <<toClient, link, call, doubt, SubscriptionStreamTable>>
    BY <2>1 DEF Credited, client
  <2>4. \A j \in Id : subscription'[j].stream = subscription[j].stream
    BY <1>1, <2>2, <2>3, ServeFacts
  <2>5. QED
    BY <1>8, <2>3, <2>4
<1>11. CASE Loses
  <2>1. PICK n \in 0..Len(toClient) : toClient' = SubSeq(toClient, 1, n)
    BY <1>11 DEF Loses
  <2>2. link' = "down" /\ UNCHANGED <<call, doubt, SubscriptionStreamTable>>
    BY <1>11 DEF Loses, client
  <2> SUFFICES ASSUME NEW i \in Id
               PROVE  \E end \in Known :
                        Leads(InTable(i), SubSeq(toClient, 1, n), end, NameSteps(i, call), Known)
    BY <2>1, <2>2 DEF Named, InTable
  <2>3. QED
    BY <1>1, LeadsFront DEF Named
<1>12. ASSUME NEW m, Tells(m), \A i \in Id : ~Answers(i, call, m), m.key # "Deliver",
              UNCHANGED <<link, call, client, broker>>
       PROVE  Named'
  <2>1. m \in FromBroker /\ UNCHANGED <<doubt, SubscriptionStreamTable, subscription>>
    BY <1>12 DEF Tells, client, broker
  <2>2. QED
    BY <1>12, <2>1, NamedTold
<1>13. CASE Refuses
  <2>1. PICK code \in Codes \ {"OK"} : Tells(Reply(Head(toBroker), code, << >>))
    BY <1>13 DEF Refuses
  <2>2. PICK r : r = Reply(Head(toBroker), code, << >>) /\ r.code # "OK" /\ r.key # "Deliver"
    <3>1. PICK r : r = Reply(Head(toBroker), code, << >>)
      OBVIOUS
    <3>2. r.code = code /\ r.key = Head(toBroker).key
      BY <3>1 DEF Reply, Message
    <3>3. Head(toBroker).key # "Deliver"
      BY <1>13 DEF Refuses, Changes
    <3>4. QED
      BY <2>1, <3>1, <3>2, <3>3
  <2>3. \A i \in Id : ~Answers(i, call, r)
    BY <2>2 DEF Answers
  <2>4. QED
    BY <1>12, <1>13, <2>1, <2>2, <2>3 DEF Refuses
<1>14. CASE CreditRefused \/ HeartbeatIsSent
  <2>1. PICK r : Tells(r) /\ r.corr = 0 /\ r.key # "Deliver"
    BY <1>14, PushFacts DEF CreditRefused, HeartbeatIsSent
  <2>2. \A i \in Id : ~Answers(i, call, r)
    BY <2>1, NoPushAnswers
  <2>3. QED
    BY <1>12, <1>14, <2>1, <2>2 DEF CreditRefused, HeartbeatIsSent
<1>15. CASE QueryIsAnswered
  <2>1. PICK s \in Stream : AnswersQuery(s)
    BY <1>15 DEF QueryIsAnswered
  <2>2. PICK r : /\ Tells(r) /\ r = IF offsets[s] = LogLength
                                    THEN Reply(Head(toBroker), "NoOffset", <<0>>)
                                    ELSE Reply(Head(toBroker), "OK", <<offsets[s]>>)
    BY <2>1 DEF AnswersQuery
  <2>3. r.key = "QueryOffset"
    BY <2>1, <2>2 DEF AnswersQuery, Reply, Message
  <2>4. \A i \in Id : ~Answers(i, call, r)
    BY <2>3 DEF Answers, Changes
  <2>5. QED
    BY <1>12, <2>1, <2>2, <2>3, <2>4 DEF AnswersQuery
<1>16. CASE IdIsOpened
  <2>1. PICK i \in Id, s \in Stream, o \in Offset : Opens(i, s, o)
    BY <1>16 DEF IdIsOpened
  <2>2. /\ Takes /\ Head(toBroker).key = "Subscribe" /\ Head(toBroker).arg[1] = i
        /\ Head(toBroker).arg[2] = s /\ Tells(Reply(Head(toBroker), "OK", << >>))
        /\ subscription' = [subscription EXCEPT ![i] =
             [stream |-> s, credit |-> InitialCredit, next |-> o, number |-> Len(made) + 1]]
        /\ UNCHANGED <<link, call, doubt, SubscriptionStreamTable>>
    BY <2>1 DEF Opens
  <2>3. /\ subscription'[i].stream = s
        /\ \A j \in Id : j # i => subscription'[j].stream = subscription[j].stream
    BY <1>1, <2>2
  <2>4. s = NewName(Head(toBroker)) /\ Head(toBroker).key \in Changes /\ s \in Name
    BY <2>2 DEF NewName, Changes, Name
  <2>5. QED
    BY <2>2, <2>3, <2>4, NamedAnswered
<1>17. CASE IdIsClosed
  <2>1. PICK i \in Id : Closes(i)
    BY <1>17 DEF IdIsClosed
  <2>2. /\ Takes /\ Head(toBroker).key = "Unsubscribe" /\ Head(toBroker).arg[1] = i
        /\ Tells(Reply(Head(toBroker), "OK", << >>))
        /\ subscription' = [subscription EXCEPT ![i] = NoSubscription]
        /\ UNCHANGED <<link, call, doubt, SubscriptionStreamTable>>
    BY <2>1 DEF Closes, client
  <2>3. NoSubscription.stream = ""
    BY DEF NoSubscription
  <2>4. /\ subscription'[i].stream = ""
        /\ \A j \in Id : j # i => subscription'[j].stream = subscription[j].stream
    BY <1>1, <2>2, <2>3
  <2>5. "" = NewName(Head(toBroker)) /\ Head(toBroker).key \in Changes /\ "" \in Name
    BY <2>2 DEF NewName, Changes, Name
  <2>6. QED
    BY <2>2, <2>4, <2>5, NamedAnswered
<1>18. CASE ChunkIsSent
  <2>1. PICK i \in Id, n \in Nat : Delivers(i, n)
    BY <1>18 DEF ChunkIsSent
  <2>2. PICK m : /\ m = Push("Deliver", <<i, subscription[i].next, n, subscription[i].stream,
                                          subscription[i].number>>)
                 /\ m.corr = 0 /\ m.arg[1] = i /\ m.arg[4] = subscription[i].stream
    BY PushFacts
  <2>3. /\ Tells(m) /\ m \in FromBroker /\ link = "up"
        /\ subscription[i].credit > 0 /\ subscription[i].next + n <= LogLength
        /\ Serve(i, subscription[i].credit - 1, subscription[i].next + n)
        /\ UNCHANGED <<link, call, doubt, SubscriptionStreamTable>>
    BY <2>1, <2>2 DEF Delivers, Tells, client
  <2>4. subscription[i].credit - 1 \in Nat /\ subscription[i].next + n \in Offset
    <3>1. /\ subscription[i].credit \in Nat /\ subscription[i].next \in Nat
          /\ LogLength \in Nat
      BY <1>1, SubscriptionType, Constants
    <3>2. QED
      BY <2>3, <3>1 DEF Offset
  <2>5. \A j \in Id : subscription'[j].stream = subscription[j].stream
    BY <1>1, <2>3, <2>4, ServeFacts
  <2>6. \A j \in Id : ~Answers(j, call, m)
    BY <2>2, NoPushAnswers
  <2>7. QED
    BY <2>2, <2>3, <2>5, <2>6, NamedTold
<1>19. QED
  BY <1>2, <1>3, <1>4, <1>5, <1>6, <1>7, <1>9, <1>10, <1>11, <1>13, <1>14, <1>15, <1>16, <1>17,
     <1>18 DEF Steps, ClientSteps, BrokerSteps

\* The frames on their way to the broker, but for a request and what a handled chunk sends.
LEMMA PendingLess ==
  ASSUME Pending, UNCHANGED <<call, doubt>>,
         \A k \in DOMAIN toBroker' : toBroker'[k].key \in Changes =>
           \E j \in DOMAIN toBroker : toBroker'[k] = toBroker[j]
  PROVE  Pending'
BY DEF Pending

LEMMA PendingAsks ==
  ASSUME Types, Pending, NEW key \in Asked, NEW arg, Asks(key, arg)
  PROVE  Pending'
<1>1. toBroker \in Seq(FromClient)
  BY OffsetTypes
<1>2. PICK m : m = Message(key, CorrelationId + 1, "none", arg)
  OBVIOUS
<1>3. PICK c : c = [key |-> key, corr |-> CorrelationId + 1, arg |-> arg]
  OBVIOUS
<1>4. /\ toBroker' = toBroker \/ toBroker' = Append(toBroker, m)
      /\ call = NoCall /\ call' = c /\ doubt' = doubt
  BY <1>2, <1>3 DEF Asks, Sends
<1>5. m.corr = c.corr
  BY <1>2, <1>3 DEF Message
<1>6. c # NoCall
  <2>1. c.key = key /\ NoCall.key = "none" /\ key # "none"
    BY <1>3 DEF NoCall, Asked, Changes
  <2>2. QED
    BY <2>1
<1>7. ASSUME NEW k \in DOMAIN toBroker', toBroker'[k].key \in Changes
      PROVE  toBroker'[k].corr = c.corr \/ doubt[toBroker'[k].arg[1]] = "now"
  <2>1. toBroker'[k] = m \/ \E j \in DOMAIN toBroker : toBroker'[k] = toBroker[j]
    BY <1>1, <1>4, GrownBy
  <2>2. QED
    BY <1>4, <1>5, <1>7, <2>1 DEF Pending
<1>8. QED
  BY <1>4, <1>6, <1>7 DEF Pending

LEMMA PendingGivesUp ==
  ASSUME Types, Ordered, Pending, GivesUp
  PROVE  Pending'
<1>1. /\ call # NoCall /\ UNCHANGED toBroker
      /\ doubt' = IF call.key \in Changes THEN [doubt EXCEPT ![call.arg[1]] = "now"] ELSE doubt
  BY DEF GivesUp
<1>2. toBroker \in Seq(FromClient) /\ doubt \in [Id -> {"none", "now", "past"}]
  <2>1. doubt \in [Id -> {"none", "now", "past"}]
    BY Zenon DEF Types, TypeOK
  <2>2. QED
    BY <2>1, OffsetTypes
<1>3. ASSUME NEW j \in DOMAIN toBroker, toBroker[j].key \in Changes
      PROVE  doubt'[toBroker[j].arg[1]] = "now"
  <2>1. PICK m \in FromClient : m = toBroker[j] /\ m.arg[1] \in Id
    <3>1. toBroker[j] \in FromClient
      BY <1>2, ElementOf
    <3>2. QED
      BY <1>3, <3>1, ClientFrame DEF Changes
  <2>2. CASE m.corr = call.corr
    <3>1. m.key = call.key /\ m.arg = call.arg
      BY <1>1, <2>1, <2>2 DEF Ordered, InTurn
    <3>2. QED
      BY <1>1, <1>2, <1>3, <2>1, <3>1
  <2>3. CASE m.corr # call.corr
    <3>1. doubt[m.arg[1]] = "now"
      BY <1>3, <2>1, <2>3 DEF Pending
    <3>2. QED
      BY <1>1, <1>2, <2>1, <3>1
  <2>4. QED
    BY <2>2, <2>3
<1>4. QED
  BY <1>1, <1>3 DEF Pending

\* The answer to the call comes when no change is on its way any more.
LEMMA PendingLearns ==
  ASSUME Types, Ordered, LearnsName \/ LearnsOffset
  PROVE  Pending'
<1>1. /\ Receives /\ Head(toClient).corr = call.corr /\ UNCHANGED toBroker /\ call.key \in Asked
  BY DEF LearnsName, LearnsOffset, Asked
<1>2. /\ toClient \in Seq(FromBroker) /\ toClient # << >> /\ toBroker \in Seq(FromClient)
      /\ call # NoCall
  BY <1>1, OffsetTypes, CallFacts DEF Receives, Types
<1>3. 1 \in DOMAIN toClient /\ toClient[1].corr = call.corr
  BY <1>1, <1>2, TailFacts
<1>4. \A k \in DOMAIN toBroker : toBroker[k].corr = 0
  BY <1>2, <1>3 DEF Ordered, InTurn
<1>5. ASSUME NEW k \in DOMAIN toBroker PROVE toBroker[k].key \notin Changes
  <2>1. PICK m \in FromClient : m = toBroker[k] /\ m.corr = 0
    BY <1>2, <1>4, ElementOf
  <2>2. QED
    BY <2>1, ClientFrame DEF Changes
<1>6. QED
  BY <1>1, <1>5 DEF Pending

LEMMA PendingStep ==
  ASSUME Types, Ordered, Pending, Steps
  PROVE  Pending'
<1>1. toBroker \in Seq(FromClient)
  BY OffsetTypes
<1>2. CASE RequestIsMade
  BY <1>2, PendingAsks DEF RequestIsMade
<1>3. CASE GivesUp
  BY <1>3, PendingGivesUp
<1>4. CASE LearnsName \/ LearnsOffset
  BY <1>4, PendingLearns
<1>5. CASE Drops \/ ChunkIsSent \/ HeartbeatIsSent \/ UNCHANGED vars
  <2>1. UNCHANGED <<toBroker, call, doubt>>
    BY <1>5 DEF Drops, ChunkIsSent, HeartbeatIsSent, Delivers, vars, connection, client
  <2>2. QED
    BY <2>1 DEF Pending
<1>6. ASSUME NEW t \in Seq(FromClient), NEW m, m.key \notin Changes,
             \A k \in DOMAIN t : t[k].key \in Changes =>
               \E j \in DOMAIN toBroker : t[k] = toBroker[j]
      PROVE  \A k \in DOMAIN Append(t, m) : Append(t, m)[k].key \in Changes =>
               \E j \in DOMAIN toBroker : Append(t, m)[k] = toBroker[j]
  <2>1. PICK u : u = Append(t, m)
    OBVIOUS
  <2>2. \A k \in DOMAIN u : u[k] = m \/ (k \in DOMAIN t /\ u[k] = t[k])
    BY <2>1, GrownBy
  <2>3. QED
    BY <1>6, <2>1, <2>2
<1>7. CASE ChunkIsHandled
  <2>1. PICK k \in Nat, i \in Id, first \in Offset, n \in Nat, stream \in Stream,
             number \in Nat \ {0} : Handles(k, i, first, n, stream, number)
    BY <1>7 DEF ChunkIsHandled
  <2>2. PICK store, credit :
          /\ store = Push("StoreOffset", <<SubscriptionStreamTable[i], first + k - 1>>)
          /\ credit = Push("Credit", <<i, DefaultCredit>>)
    OBVIOUS
  <2>3. /\ k # 0 => store \in FromClient
        /\ toBroker' = IF link = "up"
                       THEN Append(IF k = 0 THEN toBroker ELSE Append(toBroker, store), credit)
                       ELSE toBroker
        /\ UNCHANGED <<call, doubt>>
    BY <2>1, <2>2 DEF Handles
  <2>4. store.key \notin Changes /\ credit.key \notin Changes
    BY <2>2, PushFacts DEF Changes
  <2>5. PICK t : t = IF k = 0 THEN toBroker ELSE Append(toBroker, store)
    OBVIOUS
  <2>6. /\ t \in Seq(FromClient)
        /\ \A l \in DOMAIN t : t[l].key \in Changes => \E j \in DOMAIN toBroker : t[l] = toBroker[j]
    <3>1. CASE k = 0
      BY <1>1, <2>5, <3>1
    <3>2. CASE k # 0
      <4>1. Append(toBroker, store) \in Seq(FromClient)
        BY <1>1, <2>3, <3>2, AppendFacts
      <4>2. QED
        BY <1>1, <1>6, <2>4, <2>5, <3>2, <4>1
    <3>3. QED
      BY <3>1, <3>2
  <2>7. \A l \in DOMAIN toBroker' : toBroker'[l].key \in Changes =>
          \E j \in DOMAIN toBroker : toBroker'[l] = toBroker[j]
    <3>1. CASE link = "up"
      <4>1. toBroker' = Append(t, credit)
        BY <2>3, <2>5, <3>1
      <4>2. QED
        BY <1>6, <2>4, <2>6, <4>1
    <3>2. CASE link # "up"
      BY <2>3, <3>2
    <3>3. QED
      BY <3>1, <3>2
  <2>8. QED
    BY <2>3, <2>7, PendingLess
<1>8. ASSUME NEW m, Sends(m), m.key \notin Changes, UNCHANGED <<call, doubt>>
      PROVE  Pending'
  <2>1. \A k \in DOMAIN toBroker' : toBroker'[k] = m \/ \E j \in DOMAIN toBroker : toBroker'[k] = toBroker[j]
    BY <1>1, <1>8, GrownBy DEF Sends
  <2>2. QED
    BY <1>8, <2>1, PendingLess
<1>9. CASE CreditIsSent
  BY <1>8, <1>9, PushFacts DEF CreditIsSent, Grants, client, Changes
<1>10. CASE OffsetIsSent
  BY <1>8, <1>10, PushFacts DEF OffsetIsSent, StoresOffset, Changes
<1>11. ASSUME Takes, UNCHANGED <<call, doubt>> PROVE Pending'
  <2>1. \A k \in DOMAIN toBroker' : \E j \in DOMAIN toBroker : toBroker'[k] = toBroker[j]
    <3>1. toBroker' = Tail(toBroker) /\ toBroker # << >>
      BY <1>11 DEF Takes
    <3>2. ASSUME NEW k \in DOMAIN toBroker'
          PROVE  k + 1 \in DOMAIN toBroker /\ toBroker'[k] = toBroker[k + 1]
      BY <1>1, <3>1, TailFacts
    <3>3. QED
      BY <3>2
  <2>2. QED
    BY <1>11, <2>1, PendingLess
<1>12. CASE Refuses \/ CreditRefused
  BY <1>11, <1>12 DEF Refuses, CreditRefused, client
<1>13. CASE IdIsOpened
  BY <1>11, <1>13 DEF IdIsOpened, Opens
<1>14. CASE IdIsClosed
  BY <1>11, <1>14 DEF IdIsClosed, Closes, client
<1>15. CASE CreditArrives
  BY <1>11, <1>15 DEF CreditArrives, Credited, client
<1>16. CASE OffsetIsStored
  BY <1>11, <1>16 DEF OffsetIsStored, Stores, client
<1>17. CASE QueryIsAnswered
  BY <1>11, <1>17 DEF QueryIsAnswered, AnswersQuery, client
<1>18. CASE Loses
  <2>1. toBroker' = << >>
    BY <1>18 DEF Loses
  <2>2. QED
    BY <2>1 DEF Pending
<1>19. QED
  BY <1>2, <1>3, <1>4, <1>5, <1>7, <1>9, <1>10, <1>12, <1>13, <1>14, <1>15, <1>16, <1>17, <1>18
     DEF Steps, ClientSteps, BrokerSteps

LEMMA StreamStep ==
  ASSUME Types, Named, StoredUnderItsStream, Steps
  PROVE  StoredUnderItsStream'
<1>1. CASE ChunkIsHandled
  <2>1. PICK k \in Nat, i \in Id, first \in Offset, n \in Nat, stream \in Stream,
             number \in Nat \ {0} : Handles(k, i, first, n, stream, number)
    BY <1>1 DEF ChunkIsHandled
  <2>2. /\ Receives /\ Head(toClient).key = "Deliver"
        /\ Head(toClient).arg = <<i, first, n, stream, number>>
        /\ misnamed' = (misnamed \/ (k # 0 /\ SubscriptionStreamTable[i] # stream /\ doubt[i] # "now"))
    BY <2>1, Zenon DEF Handles
  <2>3. Head(toClient).arg[1] = i /\ Head(toClient).arg[4] = stream
    BY <2>2
  <2>4. PICK end \in Known : Leads(InTable(i), toClient, end, NameSteps(i, call), Known)
    BY DEF Named
  <2>5. doubt[i] # "now" => stream = SubscriptionStreamTable[i]
    BY <2>2, <2>3, <2>4, NamesTail
  <2>6. QED
    BY <2>2, <2>5 DEF StoredUnderItsStream
<1>2. CASE OffsetIsSent
  BY <1>2 DEF OffsetIsSent, StoresOffset, StoredUnderItsStream
<1>3. CASE UNCHANGED misnamed
  BY <1>3 DEF StoredUnderItsStream
<1>4. QED
  BY <1>1, <1>2, <1>3, Changing

LEMMA InitNames == Init => Pending /\ Named /\ StoredUnderItsStream
<1> SUFFICES ASSUME Init PROVE Pending /\ Named /\ StoredUnderItsStream
  OBVIOUS
<1>1. toBroker = << >> /\ toClient = << >> /\ misnamed = FALSE
  BY Zenon DEF Init, ConnectionInit
<1>2. /\ SubscriptionStreamTable = [i \in Id |-> ""] /\ doubt = [i \in Id |-> "none"]
      /\ subscription = [i \in Id |-> NoSubscription]
  BY Zenon DEF Init
<1>3. Named
  <2>1. NoSubscription.stream = ""
    BY DEF NoSubscription
  <2>2. ASSUME NEW i \in Id
        PROVE  \E end \in Known :
                 /\ Leads(InTable(i), << >>, end, NameSteps(i, call), Known)
                 /\ end.known => subscription[i].stream = end.name
    <3>1. PICK x : x = [known |-> TRUE, name |-> ""]
      OBVIOUS
    <3>2. x \in Known /\ x.name = ""
      BY <3>1 DEF Known, Name
    <3>3. InTable(i) = x
      BY <1>2, <3>1 DEF InTable
    <3>4. subscription[i].stream = ""
      BY <1>2, <2>1
    <3>5. Leads(x, << >>, x, NameSteps(i, call), Known)
      BY <3>2, LeadsEmpty
    <3>6. QED
      BY <3>2, <3>3, <3>4, <3>5
  <2>3. QED
    BY <1>1, <2>2 DEF Named
<1>4. Pending
  BY <1>1 DEF Pending
<1>5. QED
  BY <1>1, <1>3, <1>4 DEF StoredUnderItsStream

\* Every variable stays in its type: a connection never carries a frame the other
\* side could not have sent, and a subscription has a stream and a number of its own.
THEOREM CTypeCorrect == Spec => []TypeOK
<1>1. Init => Types
  BY InitTypes
<1>2. Types /\ [Next]_vars => Types'
  BY Shapes, TypesStep
<1>3. Types => TypeOK
  BY DEF Types
<1>4. QED
  BY <1>1, <1>2, <1>3, PTL DEF Spec

\* The callback gets the messages of every subscription in order, each once.
THEOREM MessagesHold == Spec => []MessagesInOrder
<1> DEFINE I == Types /\ InOrder /\ MessagesInOrder
<1>1. Init => I
  BY InitTypes, InitMessages
<1>2. I /\ [Next]_vars => I'
  <2>1. SUFFICES ASSUME I, [Next]_vars PROVE I'
    OBVIOUS
  <2>2. Steps
    BY <2>1, Shapes
  <2>3. QED
    BY <2>1, <2>2, TypesStep, InOrderStep, MessagesStep
<1>3. QED
  BY <1>1, <1>2, PTL DEF Spec

\* A query of the offset returns the last one stored before it was made.
THEOREM QueriesHold == Spec => []ReadsItsStores
<1> DEFINE I == Types /\ Ordered /\ Stored /\ Truly /\ ReadsItsStores
<1>1. Init => I
  BY InitTypes, InitOffsets
<1>2. I /\ [Next]_vars => I'
  <2>1. SUFFICES ASSUME I, [Next]_vars PROVE I'
    OBVIOUS
  <2>2. Steps
    BY <2>1, Shapes
  <2>3. QED
    BY <2>1, <2>2, TypesStep, OrderedStep, StoredStep, TrulyStep, ReadsStep
<1>3. QED
  BY <1>1, <1>2, PTL DEF Spec

\* An offset is stored under the stream its message came from, except after a request
\* for its id that ended without the answer to it.
THEOREM StreamsHold == Spec => []StoredUnderItsStream
<1> DEFINE I == Types /\ Ordered /\ Pending /\ Named /\ StoredUnderItsStream
<1>1. Init => I
  BY InitTypes, InitOffsets, InitNames
<1>2. I /\ [Next]_vars => I'
  <2>1. SUFFICES ASSUME I, [Next]_vars PROVE I'
    OBVIOUS
  <2>2. Steps
    BY <2>1, Shapes
  <2>3. QED
    BY <2>1, <2>2, TypesStep, OrderedStep, PendingStep, NamedStep, StreamStep
<1>3. QED
  BY <1>1, <1>2, PTL DEF Spec

(***************************************************************************)
(* No credit is lost and none appears: the balance of every subscription.  *)
(***************************************************************************)

-----------------------------------------------------------------------------
(* Sums over the frames on their way.                                      *)

\* What each frame of s weighs.
Weights(f, s) == [k \in DOMAIN s |-> f[s[k]]]

LEMMA WeightsType ==
  ASSUME NEW S, NEW f \in [S -> Nat], NEW s \in Seq(S), NEW w, w = Weights(f, s)
  PROVE  w \in Seq(Nat) /\ Len(w) = Len(s) /\ \A k \in DOMAIN s : w[k] = f[s[k]]
<1>1. \A k \in 1..Len(s) : f[s[k]] \in Nat
  BY ElementOf
<1>2. PICK n \in Nat : n = Len(s) /\ DOMAIN s = 1..n
  OBVIOUS
<1>3. w \in [1..n -> Nat] /\ \A k \in 1..n : w[k] = f[s[k]]
  BY <1>1, <1>2 DEF Weights
<1>4. w \in Seq(Nat) /\ Len(w) = n
  BY <1>3
<1>5. QED
  BY <1>2, <1>3, <1>4

LEMMA WeightsTail ==
  ASSUME NEW S, NEW f \in [S -> Nat], NEW s \in Seq(S), s # << >>
  PROVE  Sum(Weights(f, s)) = f[Head(s)] + Sum(Weights(f, Tail(s)))
<1>1. PICK w, t, v : w = Weights(f, s) /\ t = Tail(s) /\ v = Weights(f, t)
  OBVIOUS
<1>2. /\ t \in Seq(S) /\ Len(t) = Len(s) - 1 /\ Head(s) = s[1] /\ Len(s) \in Nat \ {0}
      /\ 1 \in DOMAIN s /\ \A j \in DOMAIN t : j + 1 \in DOMAIN s /\ t[j] = s[j + 1]
  BY <1>1, TailFacts
<1>3. /\ w \in Seq(Nat) /\ Len(w) = Len(s) /\ v \in Seq(Nat) /\ Len(v) = Len(t)
      /\ \A k \in DOMAIN s : w[k] = f[s[k]]
      /\ \A k \in DOMAIN t : v[k] = f[t[k]]
  <2>1. w \in Seq(Nat) /\ Len(w) = Len(s) /\ \A k \in DOMAIN s : w[k] = f[s[k]]
    BY <1>1, WeightsType
  <2>2. v \in Seq(Nat) /\ Len(v) = Len(t) /\ \A k \in DOMAIN t : v[k] = f[t[k]]
    <3>1. v = Weights(f, t)
      BY <1>1
    <3>2. t \in Seq(S)
      BY <1>2
    <3>3. QED
      BY <3>1, <3>2, WeightsType
  <2>3. QED
    BY <2>1, <2>2
<1>4. Tail(w) = v
  <2>1. PICK u, n : u = Tail(w) /\ n = Len(t)
    OBVIOUS
  <2>2. w # << >>
    BY <1>2, <1>3
  <2>3. /\ u \in Seq(Nat) /\ Len(u) = Len(w) - 1
        /\ \A k \in DOMAIN u : k + 1 \in DOMAIN w /\ u[k] = w[k + 1]
    BY <1>3, <2>1, <2>2, TailFacts
  <2>4. n \in Nat /\ Len(u) = n /\ Len(v) = n /\ DOMAIN u = 1..n /\ DOMAIN t = 1..n
    BY <1>2, <1>3, <2>1, <2>3
  <2>5. ASSUME NEW k \in 1..n PROVE u[k] = v[k]
    <3>1. u[k] = w[k + 1]
      BY <2>3, <2>4
    <3>2. k + 1 \in DOMAIN s /\ t[k] = s[k + 1]
      BY <1>2, <2>4
    <3>3. w[k + 1] = f[s[k + 1]] /\ v[k] = f[t[k]]
      BY <1>3, <2>4, <3>2
    <3>4. QED
      BY <3>1, <3>2, <3>3
  <2>6. u = v
    BY <1>3, <2>3, <2>4, <2>5, SameSequence
  <2>7. QED
    BY <2>1, <2>6
<1>5. Sum(w) = w[1] + Sum(Tail(w))
  BY <1>2, <1>3, SumTail
<1>6. w[1] = f[s[1]]
  BY <1>2, <1>3
<1>7. QED
  BY <1>1, <1>2, <1>4, <1>5, <1>6

LEMMA WeightsAppend ==
  ASSUME NEW S, NEW f \in [S -> Nat], NEW s \in Seq(S), NEW e \in S
  PROVE  Sum(Weights(f, Append(s, e))) = Sum(Weights(f, s)) + f[e]
<1>1. PICK w, t, v : w = Weights(f, s) /\ t = Append(s, e) /\ v = Weights(f, t)
  OBVIOUS
<1>2. /\ t \in Seq(S) /\ Len(s) \in Nat /\ DOMAIN s = 1..Len(s)
      /\ Len(t) = Len(s) + 1 /\ DOMAIN t = 1..(Len(s) + 1)
      /\ t[Len(s) + 1] = e /\ \A j \in 1..Len(s) : t[j] = s[j]
  BY <1>1, AppendFacts
<1>3. /\ w \in Seq(Nat) /\ Len(w) = Len(s) /\ v \in Seq(Nat) /\ Len(v) = Len(t)
      /\ \A k \in DOMAIN s : w[k] = f[s[k]]
      /\ \A k \in DOMAIN t : v[k] = f[t[k]]
  <2>1. w \in Seq(Nat) /\ Len(w) = Len(s) /\ \A k \in DOMAIN s : w[k] = f[s[k]]
    BY <1>1, WeightsType
  <2>2. v \in Seq(Nat) /\ Len(v) = Len(t) /\ \A k \in DOMAIN t : v[k] = f[t[k]]
    <3>1. v = Weights(f, t)
      BY <1>1
    <3>2. t \in Seq(S)
      BY <1>2
    <3>3. QED
      BY <3>1, <3>2, WeightsType
  <2>3. QED
    BY <2>1, <2>2
<1>4. v = Append(w, f[e])
  <2>1. PICK u : u = Append(w, f[e])
    OBVIOUS
  <2>2. /\ u \in Seq(Nat) /\ Len(u) = Len(w) + 1 /\ u[Len(w) + 1] = f[e]
        /\ \A j \in 1..Len(w) : u[j] = w[j]
    BY <1>3, <2>1, AppendFacts
  <2>3. PICK n \in Nat : n = Len(s)
    BY <1>2
  <2>4. Len(u) = Len(v) /\ Len(v) = n + 1
    BY <1>2, <1>3, <2>2, <2>3
  <2>5. DOMAIN s = 1..n /\ DOMAIN t = 1..(n + 1) /\ Len(w) = n
    BY <1>2, <1>3, <2>3
  <2>6. ASSUME NEW j \in 1..(n + 1) PROVE u[j] = v[j]
    <3>1. v[j] = f[t[j]]
      BY <1>3, <2>5
    <3>2. CASE j = n + 1
      BY <1>2, <2>2, <2>3, <2>5, <3>1, <3>2
    <3>3. CASE j # n + 1
      <4>1. j \in 1..n
        BY <3>3
      <4>2. u[j] = w[j] /\ w[j] = f[s[j]] /\ t[j] = s[j]
        BY <1>2, <1>3, <2>2, <2>3, <2>5, <4>1
      <4>3. QED
        BY <3>1, <4>2
    <3>4. QED
      BY <3>2, <3>3
  <2>7. n + 1 \in Nat
    BY <2>3
  <2>8. u = v
    BY <1>3, <2>2, <2>4, <2>6, <2>7, SameSequence
  <2>9. QED
    BY <2>1, <2>8
<1>5. Sum(Append(w, f[e])) = Sum(w) + f[e]
  BY <1>3, SumAppend
<1>6. QED
  BY <1>1, <1>4, <1>5

\* Frames without weight.
LEMMA WeightsNone ==
  ASSUME NEW S, NEW f \in [S -> Nat], NEW s \in Seq(S), \A k \in DOMAIN s : f[s[k]] = 0
  PROVE  Sum(Weights(f, s)) = 0
<1>1. PICK w : w = Weights(f, s)
  OBVIOUS
<1>2. w \in Seq(Nat) /\ Len(w) = Len(s) /\ \A k \in DOMAIN s : w[k] = 0
  BY <1>1, WeightsType
<1>3. \A k \in 1..Len(w) : w[k] = 0
  BY <1>2
<1> DEFINE g == [i \in 0..Len(w) |-> 0]
<1>4. Running(g, w)
  BY <1>2, <1>3 DEF Running
<1>5. g[Len(w)] = 0
  BY <1>2
<1> HIDE DEF g
<1>6. QED
  BY <1>1, <1>2, <1>4, <1>5, SumIsRunning

\* The credit a frame brings for id i.
CreditFor(i) ==
    [m \in FromClient |-> IF m.key = "Credit" /\ m.arg[1] = i THEN m.arg[2] ELSE 0]

\* A frame with a chunk of the subscription e.
ChunkFor(e) == [m \in FromBroker |-> IF m.key = "Deliver" /\ m.arg[5] = e THEN 1 ELSE 0]

LEMMA WeightTypes ==
  /\ \A i : CreditFor(i) \in [FromClient -> Nat]
  /\ \A e : ChunkFor(e) \in [FromBroker -> Nat]
<1>1. \A m \in FromClient : m.key = "Credit" => m.arg[2] \in Nat
  BY ClientFrame
<1>2. \A i, m : m \in FromClient => (IF m.key = "Credit" /\ m.arg[1] = i THEN m.arg[2] ELSE 0) \in Nat
  BY <1>1
<1>3. QED
  BY <1>2 DEF CreditFor, ChunkFor

\* The chunks of subscription e among the frames tc.
Chunked(tc, e) == Sum(Weights(ChunkFor(e), tc))

LEMMA TotalIsSum ==
  ASSUME NEW tb \in Seq(FromClient), NEW i
  PROVE  Total(tb, i) = Sum(Weights(CreditFor(i), tb))
<1>1. \A k \in DOMAIN tb : tb[k] \in FromClient
  BY ElementOf
<1>2. [k \in DOMAIN tb |-> IF tb[k].key = "Credit" /\ tb[k].arg[1] = i THEN tb[k].arg[2] ELSE 0]
        = Weights(CreditFor(i), tb)
  BY <1>1 DEF Weights, CreditFor
<1>3. QED
  BY <1>2 DEF Total

LEMMA ChunkedIsSum ==
  ASSUME NEW tc \in Seq(FromBroker), NEW e
  PROVE  Chunked(tc, e) =
           Sum([k \in DOMAIN tc |-> IF tc[k].key = "Deliver" /\ tc[k].arg[5] = e THEN 1 ELSE 0])
<1>1. \A k \in DOMAIN tc : tc[k] \in FromBroker
  BY ElementOf
<1>2. [k \in DOMAIN tc |-> IF tc[k].key = "Deliver" /\ tc[k].arg[5] = e THEN 1 ELSE 0]
        = Weights(ChunkFor(e), tc)
  BY <1>1 DEF Weights, ChunkFor
<1>3. QED
  BY <1>2 DEF Chunked

LEMMA SumOfWeights ==
  ASSUME NEW S, NEW f \in [S -> Nat], NEW s \in Seq(S)
  PROVE  Sum(Weights(f, s)) \in Nat
<1>1. Weights(f, s) \in Seq(Nat)
  BY WeightsType
<1>2. QED
  BY <1>1, SumType

\* The credit on its way, frame by frame.
LEMMA TotalFacts ==
  ASSUME NEW tb \in Seq(FromClient), NEW i
  PROVE  /\ Total(tb, i) \in Nat
         /\ (\A k \in DOMAIN tb : ~(tb[k].key = "Credit" /\ tb[k].arg[1] = i)) => Total(tb, i) = 0
<1>1. CreditFor(i) \in [FromClient -> Nat] /\ Total(tb, i) = Sum(Weights(CreditFor(i), tb))
  BY WeightTypes, TotalIsSum
<1>2. ASSUME \A k \in DOMAIN tb : ~(tb[k].key = "Credit" /\ tb[k].arg[1] = i)
      PROVE  \A k \in DOMAIN tb : CreditFor(i)[tb[k]] = 0
  BY <1>2, ElementOf DEF CreditFor
<1>3. QED
  BY <1>1, <1>2, SumOfWeights, WeightsNone

LEMMA TotalTail ==
  ASSUME NEW tb \in Seq(FromClient), tb # << >>, NEW i
  PROVE  Total(tb, i) = Total(Tail(tb), i)
            + (IF Head(tb).key = "Credit" /\ Head(tb).arg[1] = i THEN Head(tb).arg[2] ELSE 0)
<1>1. CreditFor(i) \in [FromClient -> Nat]
  BY WeightTypes
<1>2. PICK t \in Seq(FromClient) : t = Tail(tb)
  <2>1. Tail(tb) \in Seq(FromClient)
    OBVIOUS
  <2>2. QED
    BY <2>1, Zenon
<1>3. PICK m : m = Head(tb) /\ m \in FromClient
  OBVIOUS
<1>4. PICK x, y, z : x = Sum(Weights(CreditFor(i), tb)) /\ y = Sum(Weights(CreditFor(i), t))
                     /\ z = CreditFor(i)[m]
  OBVIOUS
<1>5. x = z + y
  BY <1>1, <1>2, <1>3, <1>4, WeightsTail
<1>6. y \in Nat /\ z \in Nat
  BY <1>1, <1>2, <1>3, <1>4, SumOfWeights
<1>7. z = IF m.key = "Credit" /\ m.arg[1] = i THEN m.arg[2] ELSE 0
  BY <1>3, <1>4 DEF CreditFor
<1>8. x = Total(tb, i) /\ y = Total(t, i)
  BY <1>2, <1>4, TotalIsSum
<1>9. x = y + z
  BY <1>5, <1>6
<1>10. QED
  BY <1>2, <1>3, <1>7, <1>8, <1>9

LEMMA TotalAppend ==
  ASSUME NEW tb \in Seq(FromClient), NEW m \in FromClient, NEW i
  PROVE  Total(Append(tb, m), i) = Total(tb, i)
            + (IF m.key = "Credit" /\ m.arg[1] = i THEN m.arg[2] ELSE 0)
<1>1. CreditFor(i) \in [FromClient -> Nat]
  BY WeightTypes
<1>2. PICK t \in Seq(FromClient) : t = Append(tb, m)
  <2>1. Append(tb, m) \in Seq(FromClient)
    OBVIOUS
  <2>2. QED
    BY <2>1, Zenon
<1>3. PICK x, y, z : x = Sum(Weights(CreditFor(i), tb)) /\ y = Sum(Weights(CreditFor(i), t))
                     /\ z = CreditFor(i)[m]
  OBVIOUS
<1>4. y = x + z
  BY <1>1, <1>2, <1>3, WeightsAppend
<1>5. z = IF m.key = "Credit" /\ m.arg[1] = i THEN m.arg[2] ELSE 0
  BY <1>3 DEF CreditFor
<1>6. x = Total(tb, i) /\ y = Total(t, i)
  BY <1>2, <1>3, TotalIsSum
<1>7. QED
  BY <1>2, <1>4, <1>5, <1>6

\* The chunks on their way, frame by frame.
LEMMA ChunkedFacts ==
  ASSUME NEW tc \in Seq(FromBroker), NEW e
  PROVE  /\ Chunked(tc, e) \in Nat
         /\ (\A k \in DOMAIN tc : ~(tc[k].key = "Deliver" /\ tc[k].arg[5] = e)) => Chunked(tc, e) = 0
<1>1. ChunkFor(e) \in [FromBroker -> Nat] /\ Chunked(tc, e) = Sum(Weights(ChunkFor(e), tc))
  BY WeightTypes DEF Chunked
<1>2. ASSUME \A k \in DOMAIN tc : ~(tc[k].key = "Deliver" /\ tc[k].arg[5] = e)
      PROVE  \A k \in DOMAIN tc : ChunkFor(e)[tc[k]] = 0
  BY <1>2, ElementOf DEF ChunkFor
<1>3. QED
  BY <1>1, <1>2, SumOfWeights, WeightsNone

LEMMA ChunkedTail ==
  ASSUME NEW tc \in Seq(FromBroker), tc # << >>, NEW e
  PROVE  Chunked(tc, e) = Chunked(Tail(tc), e)
            + (IF Head(tc).key = "Deliver" /\ Head(tc).arg[5] = e THEN 1 ELSE 0)
<1>1. ChunkFor(e) \in [FromBroker -> Nat]
  BY WeightTypes
<1>2. PICK t \in Seq(FromBroker) : t = Tail(tc)
  <2>1. Tail(tc) \in Seq(FromBroker)
    OBVIOUS
  <2>2. QED
    BY <2>1, Zenon
<1>3. PICK m : m = Head(tc) /\ m \in FromBroker
  OBVIOUS
<1>4. PICK x, y, z : x = Chunked(tc, e) /\ y = Chunked(t, e) /\ z = ChunkFor(e)[m]
  OBVIOUS
<1>5. x = z + y
  BY <1>1, <1>2, <1>3, <1>4, WeightsTail DEF Chunked
<1>6. y \in Nat /\ z \in Nat
  BY <1>1, <1>2, <1>3, <1>4, SumOfWeights DEF Chunked
<1>7. z = IF m.key = "Deliver" /\ m.arg[5] = e THEN 1 ELSE 0
  BY <1>3, <1>4 DEF ChunkFor
<1>8. x = y + z
  BY <1>5, <1>6
<1>9. QED
  BY <1>2, <1>3, <1>4, <1>7, <1>8

LEMMA ChunkedAppend ==
  ASSUME NEW tc \in Seq(FromBroker), NEW m \in FromBroker, NEW e
  PROVE  Chunked(Append(tc, m), e) = Chunked(tc, e)
            + (IF m.key = "Deliver" /\ m.arg[5] = e THEN 1 ELSE 0)
<1>1. ChunkFor(e) \in [FromBroker -> Nat]
  BY WeightTypes
<1>2. ChunkFor(e)[m] = IF m.key = "Deliver" /\ m.arg[5] = e THEN 1 ELSE 0
  BY DEF ChunkFor
<1>3. QED
  BY <1>1, <1>2, WeightsAppend DEF Chunked

-----------------------------------------------------------------------------
(* What is on its way for an id is about its present subscription.         *)

ChunkOf(i, m) == m.key = "Deliver" /\ m.arg[1] = i

\* The chunks for i on their way are of the subscription it has.
Fresh(i, tc, number) == \A j \in DOMAIN tc : ChunkOf(i, tc[j]) => tc[j].arg[5] = number

\* The chunks for i, which has no subscription any more, come before the answer to the
\* call that ended it.
Settled(i, tc, c) ==
    \A j \in DOMAIN tc : ChunkOf(i, tc[j]) =>
        /\ c # NoCall /\ c.key = "Unsubscribe" /\ c.arg[1] = i
        /\ \E k \in DOMAIN tc : j < k /\ tc[k].corr = c.corr

CreditOf(i, m) == m.key = "Credit" /\ m.arg[1] = i

OpeningOf(i, m) == m.key = "Subscribe" /\ m.arg[1] = i

\* No credit for i is behind a request to subscribe: it would count for the new subscription.
Clear(i, tb) ==
    \A j \in DOMAIN tb : \A k \in DOMAIN tb : j < k /\ OpeningOf(i, tb[j]) => ~CreditOf(i, tb[k])

Current ==
    link = "up" => \A i \in Id : doubt[i] = "none" =>
        IF subscription[i].number # 0 THEN Fresh(i, toClient, subscription[i].number)
        ELSE Settled(i, toClient, call) /\ Clear(i, toBroker)

LEMMA FreshTail ==
  ASSUME NEW tc \in Seq(FromBroker), tc # << >>, NEW i, NEW e, Fresh(i, tc, e)
  PROVE  Fresh(i, Tail(tc), e)
<1>1. PICK t : t = Tail(tc)
  OBVIOUS
<1>2. \A j \in DOMAIN t : j + 1 \in DOMAIN tc /\ t[j] = tc[j + 1]
  BY <1>1, TailFacts
<1>3. Fresh(i, t, e)
  BY <1>2 DEF Fresh
<1>4. QED
  BY <1>1, <1>3

LEMMA FreshAppend ==
  ASSUME NEW tc \in Seq(FromBroker), NEW m, NEW i, NEW e, Fresh(i, tc, e),
         ChunkOf(i, m) => m.arg[5] = e
  PROVE  Fresh(i, Append(tc, m), e)
<1>1. PICK t : t = Append(tc, m)
  OBVIOUS
<1>2. \A j \in DOMAIN t : t[j] = m \/ (j \in DOMAIN tc /\ t[j] = tc[j])
  BY <1>1, GrownBy
<1>3. Fresh(i, t, e)
  BY <1>2 DEF Fresh
<1>4. QED
  BY <1>1, <1>3

LEMMA SettledTail ==
  ASSUME NEW tc \in Seq(FromBroker), tc # << >>, NEW i, NEW c, Settled(i, tc, c)
  PROVE  Settled(i, Tail(tc), c)
<1>1. PICK t : t = Tail(tc)
  OBVIOUS
<1>2. PICK n \in Nat : DOMAIN tc = 1..(n + 1) /\ DOMAIN t = 1..n /\ \A j \in 1..n : t[j] = tc[j + 1]
  <2>1. PICK n \in Nat : n + 1 = Len(tc)
    OBVIOUS
  <2>2. QED
    BY <1>1, <2>1
<1>3. ASSUME NEW j \in DOMAIN t, ChunkOf(i, t[j])
      PROVE  /\ c # NoCall /\ c.key = "Unsubscribe" /\ c.arg[1] = i
             /\ \E k \in DOMAIN t : j < k /\ t[k].corr = c.corr
  <2>1. j \in 1..n /\ j + 1 \in DOMAIN tc /\ ChunkOf(i, tc[j + 1])
    BY <1>2, <1>3
  <2>2. PICK k \in DOMAIN tc : j + 1 < k /\ tc[k].corr = c.corr
    BY <2>1 DEF Settled
  <2>3. PICK l \in Nat : l + 1 = k /\ l \in 1..n /\ j < l
    <3>1. k \in 1..(n + 1) /\ j \in Nat /\ j + 1 < k
      BY <1>2, <2>1, <2>2
    <3>2. k - 1 \in Nat /\ (k - 1) + 1 = k /\ k - 1 \in 1..n /\ j < k - 1
      BY <3>1
    <3>3. QED
      BY <3>2
  <2>4. t[l] = tc[k] /\ l \in DOMAIN t
    BY <1>2, <2>3
  <2>5. QED
    BY <2>1, <2>2, <2>3, <2>4 DEF Settled
<1>4. Settled(i, t, c)
  BY <1>3 DEF Settled
<1>5. QED
  BY <1>1, <1>4

LEMMA SettledAppend ==
  ASSUME NEW tc \in Seq(FromBroker), NEW m, NEW i, NEW c, Settled(i, tc, c), ~ChunkOf(i, m)
  PROVE  Settled(i, Append(tc, m), c)
<1>1. PICK t : t = Append(tc, m)
  OBVIOUS
<1>2. PICK n \in Nat : DOMAIN tc = 1..n /\ DOMAIN t = 1..(n + 1) /\ t[n + 1] = m
                       /\ \A j \in 1..n : t[j] = tc[j]
  <2>1. PICK n \in Nat : n = Len(tc)
    OBVIOUS
  <2>2. QED
    BY <1>1, <2>1
<1>3. ASSUME NEW j \in DOMAIN t, ChunkOf(i, t[j])
      PROVE  /\ c # NoCall /\ c.key = "Unsubscribe" /\ c.arg[1] = i
             /\ \E k \in DOMAIN t : j < k /\ t[k].corr = c.corr
  <2>1. j \in DOMAIN tc /\ ChunkOf(i, tc[j])
    BY <1>2, <1>3
  <2>2. PICK k \in DOMAIN tc : j < k /\ tc[k].corr = c.corr
    BY <2>1 DEF Settled
  <2>3. k \in DOMAIN t /\ t[k] = tc[k]
    BY <1>2
  <2>4. QED
    BY <2>1, <2>2, <2>3 DEF Settled
<1>4. Settled(i, t, c)
  BY <1>3 DEF Settled
<1>5. QED
  BY <1>1, <1>4

LEMMA ClearTail ==
  ASSUME NEW tb \in Seq(FromClient), tb # << >>, NEW i, Clear(i, tb)
  PROVE  /\ Clear(i, Tail(tb))
         /\ OpeningOf(i, Head(tb)) => \A k \in DOMAIN Tail(tb) : ~CreditOf(i, Tail(tb)[k])
<1>1. PICK t : t = Tail(tb)
  OBVIOUS
<1>2. PICK n \in Nat : DOMAIN tb = 1..(n + 1) /\ DOMAIN t = 1..n /\ Head(tb) = tb[1]
                       /\ \A j \in 1..n : t[j] = tb[j + 1]
  <2>1. PICK n \in Nat : n + 1 = Len(tb)
    OBVIOUS
  <2>2. QED
    BY <1>1, <2>1
<1>3. \A j \in DOMAIN t : j \in Nat /\ j + 1 \in DOMAIN tb /\ 1 < j + 1 /\ t[j] = tb[j + 1]
  BY <1>2
<1>4. \A j \in DOMAIN t : \A k \in DOMAIN t : j < k => j + 1 < k + 1
  BY <1>2
<1>5. Clear(i, t)
  BY <1>3, <1>4 DEF Clear
<1>6. OpeningOf(i, Head(tb)) => \A k \in DOMAIN t : ~CreditOf(i, t[k])
  <2>1. 1 \in DOMAIN tb
    BY <1>2
  <2>2. QED
    BY <1>2, <1>3, <2>1 DEF Clear
<1>7. QED
  BY <1>1, <1>5, <1>6

LEMMA ClearAppend ==
  ASSUME NEW tb \in Seq(FromClient), NEW m, NEW i, Clear(i, tb),
         ~CreditOf(i, m) \/ \A j \in DOMAIN tb : ~OpeningOf(i, tb[j])
  PROVE  Clear(i, Append(tb, m))
<1>1. PICK t : t = Append(tb, m)
  OBVIOUS
<1>2. PICK n \in Nat : DOMAIN tb = 1..n /\ DOMAIN t = 1..(n + 1) /\ t[n + 1] = m
                       /\ \A j \in 1..n : t[j] = tb[j]
  <2>1. PICK n \in Nat : n = Len(tb)
    OBVIOUS
  <2>2. QED
    BY <1>1, <2>1
<1>3. ASSUME NEW j \in DOMAIN t, NEW k \in DOMAIN t, j < k, OpeningOf(i, t[j])
      PROVE  ~CreditOf(i, t[k])
  <2>1. j \in DOMAIN tb /\ t[j] = tb[j]
    BY <1>2, <1>3
  <2>2. CASE k = n + 1
    BY <1>2, <1>3, <2>1, <2>2
  <2>3. CASE k # n + 1
    <3>1. k \in DOMAIN tb /\ t[k] = tb[k]
      BY <1>2, <2>3
    <3>2. QED
      BY <1>3, <2>1, <3>1 DEF Clear
  <2>4. QED
    BY <2>2, <2>3
<1>4. Clear(i, t)
  BY <1>3 DEF Clear
<1>5. QED
  BY <1>1, <1>4

-----------------------------------------------------------------------------
(* What a step does to the frames on their way to the broker.              *)

LEMMA HandledCredit ==
  ASSUME Types, NEW k \in Nat, NEW i \in Id, NEW first \in Offset, NEW n \in Nat,
         NEW stream \in Stream, NEW number \in Nat \ {0},
         Handles(k, i, first, n, stream, number), link = "up"
  PROVE  \E t \in Seq(FromClient), m \in FromClient :
           /\ t = toBroker \/ \E s \in FromClient : s.key = "StoreOffset" /\ t = Append(toBroker, s)
           /\ m.key = "Credit" /\ m.arg[1] = i /\ m.arg[2] = DefaultCredit
           /\ toBroker' = Append(t, m)
<1>1. toBroker \in Seq(FromClient)
  BY OffsetTypes
<1>2. PICK store, credit :
        /\ store = Push("StoreOffset", <<SubscriptionStreamTable[i], first + k - 1>>)
        /\ credit = Push("Credit", <<i, DefaultCredit>>)
  OBVIOUS
<1>3. /\ k # 0 => store \in FromClient
      /\ credit \in FromClient
      /\ toBroker' = Append(IF k = 0 THEN toBroker ELSE Append(toBroker, store), credit)
  BY <1>2 DEF Handles
<1>4. /\ store.key = "StoreOffset" /\ credit.key = "Credit"
      /\ credit.arg[1] = i /\ credit.arg[2] = DefaultCredit
  BY <1>2, PushFacts
<1>5. CASE k = 0
  BY <1>1, <1>3, <1>4, <1>5
<1>6. CASE k # 0
  <2>1. PICK t \in Seq(FromClient) : t = Append(toBroker, store)
    <3>1. Append(toBroker, store) \in Seq(FromClient)
      BY <1>1, <1>3, <1>6, AppendFacts
    <3>2. QED
      BY <3>1, Zenon
  <2>2. toBroker' = Append(t, credit)
    BY <1>3, <1>6, <2>1
  <2>3. QED
    BY <1>3, <1>4, <1>6, <2>1, <2>2
<1>7. QED
  BY <1>5, <1>6

LEMMA Leaving ==
  ASSUME Types, Steps
  PROVE  \/ UNCHANGED toBroker \/ ChunkIsHandled \/ CreditIsSent \/ link' # "up"
         \/ \E m \in FromClient : m.key # "Credit" /\ toBroker' = Append(toBroker, m)
         \/ /\ toBroker # << >> /\ toBroker' = Tail(toBroker)
            /\ Head(toBroker).key # "Credit" \/ CreditArrives \/ CreditRefused
<1>1. CASE RequestIsMade
  <2>1. PICK key, arg : key \in Asked /\ Asks(key, arg)
    BY <1>1 DEF RequestIsMade
  <2>2. PICK m : m = Message(key, CorrelationId + 1, "none", arg)
    OBVIOUS
  <2>3. m \in FromClient /\ toBroker' = IF link = "up" THEN Append(toBroker, m) ELSE toBroker
    BY <2>1, <2>2 DEF Asks, Sends
  <2>4. m.key # "Credit"
    BY <2>1, <2>2 DEF Message, Asked, Changes
  <2>5. QED
    BY <2>3, <2>4
<1>2. CASE \/ GivesUp \/ LearnsName \/ LearnsOffset \/ Drops \/ ChunkIsSent \/ HeartbeatIsSent
           \/ UNCHANGED vars
  BY <1>2 DEF GivesUp, LearnsName, LearnsOffset, Drops, ChunkIsSent, Delivers, HeartbeatIsSent,
              vars, connection
<1>3. CASE OffsetIsSent
  <2>1. PICK s \in Stream : StoresOffset(s)
    BY <1>3 DEF OffsetIsSent
  <2>2. PICK m : m = Push("StoreOffset", <<s, 0>>) /\ m.key = "StoreOffset"
    BY PushFacts
  <2>3. m \in FromClient /\ toBroker' = IF link = "up" THEN Append(toBroker, m) ELSE toBroker
    BY <2>1, <2>2 DEF StoresOffset, Sends
  <2>4. QED
    BY <2>2, <2>3
<1>4. CASE Refuses
  BY <1>4 DEF Refuses, Takes, Changes
<1>5. CASE CreditRefused
  BY <1>5 DEF CreditRefused, Takes
<1>6. CASE IdIsOpened
  BY <1>6 DEF IdIsOpened, Opens, Takes
<1>7. CASE IdIsClosed
  BY <1>7 DEF IdIsClosed, Closes, Takes
<1>8. CASE CreditArrives
  BY <1>8 DEF CreditArrives, Credited, Takes
<1>9. CASE OffsetIsStored
  BY <1>9 DEF OffsetIsStored, Stores, Takes
<1>10. CASE QueryIsAnswered
  BY <1>10 DEF QueryIsAnswered, AnswersQuery, Takes
<1>11. CASE Loses
  BY <1>11 DEF Loses
<1>12. QED
  BY <1>1, <1>2, <1>3, <1>4, <1>5, <1>6, <1>7, <1>8, <1>9, <1>10, <1>11
     DEF Steps, ClientSteps, BrokerSteps

LEMMA SubscribedNumber ==
  ASSUME Types, NEW i \in Id
  PROVE  /\ Subscribed(i) <=> subscription[i].number # 0
         /\ subscription[i].number <= Len(made) /\ Len(made) \in Nat
<1>1. Len(made) \in Nat
  <2>1. made \in Seq(Offset)
    BY Zenon DEF Types
  <2>2. QED
    BY <2>1
<1>2. CASE Subscribed(i)
  <2>1. subscription[i].number \in 1..Len(made)
    BY <1>2 DEF Types, Numbers
  <2>2. QED
    BY <1>1, <1>2, <2>1
<1>3. CASE ~Subscribed(i)
  <2>1. subscription[i] = NoSubscription /\ NoSubscription.number = 0
    BY <1>3 DEF Subscribed, NoSubscription
  <2>2. QED
    BY <1>1, <1>3, <2>1
<1>4. QED
  BY <1>2, <1>3

LEMMA DoubtStep ==
  ASSUME Types, Steps, NEW i \in Id, doubt'[i] = "none"
  PROVE  doubt[i] = "none"
<1>1. doubt \in [Id -> {"none", "now", "past"}]
  BY Zenon DEF Types, TypeOK
<1>2. CASE UNCHANGED doubt
  BY <1>2
<1>3. CASE GivesUp
  BY <1>1, <1>3 DEF GivesUp
<1>4. CASE LearnsName
  BY <1>1, <1>4 DEF LearnsName
<1>5. QED
  BY <1>2, <1>3, <1>4, Changing

LEMMA CallEnds ==
  ASSUME Steps
  PROVE  UNCHANGED call \/ RequestIsMade \/ GivesUp \/ LearnsName \/ LearnsOffset
<1> USE DEF client, broker
<1>1. CASE ChunkIsHandled
  <2>1. PICK k, i, first, n, stream, number : Handles(k, i, first, n, stream, number)
    BY <1>1 DEF ChunkIsHandled
  <2>2. QED
    BY <2>1, Zenon DEF Handles
<1>2. CASE Drops \/ CreditIsSent \/ OffsetIsSent \/ UNCHANGED vars
  BY <1>2 DEF Drops, CreditIsSent, Grants, OffsetIsSent, StoresOffset, vars, connection
<1>3. CASE BrokerSteps
  BY <1>3 DEF BrokerSteps, Refuses, CreditRefused, Loses, IdIsOpened, Opens, IdIsClosed, Closes,
              CreditArrives, Credited, OffsetIsStored, Stores, QueryIsAnswered, AnswersQuery,
              ChunkIsSent, Delivers, HeartbeatIsSent
<1>4. QED
  BY <1>1, <1>2, <1>3 DEF Steps, ClientSteps

LEMMA NumberStep ==
  ASSUME Types, Steps, NEW i \in Id
  PROVE  \/ subscription'[i].number = subscription[i].number
         \/ \E s \in Stream, o \in Offset : Opens(i, s, o)
         \/ Closes(i)
<1>1. subscription \in [Id -> Subscriptions]
  BY Zenon DEF Types, TypeOK, Subscriptions, Name, Offset
<1>2. CASE UNCHANGED subscription
  BY <1>2
<1>3. CASE IdIsOpened
  <2>1. PICK j \in Id, s \in Stream, o \in Offset : Opens(j, s, o)
    BY <1>3 DEF IdIsOpened
  <2>2. CASE j = i
    BY <2>1, <2>2
  <2>3. CASE j # i
    <3>1. subscription' = [subscription EXCEPT ![j] =
            [stream |-> s, credit |-> InitialCredit, next |-> o, number |-> Len(made) + 1]]
      BY <2>1, Zenon DEF Opens
    <3>2. subscription'[i] = subscription[i]
      BY <1>1, <2>3, <3>1
    <3>3. QED
      BY <3>2
  <2>4. QED
    BY <2>2, <2>3
<1>4. CASE IdIsClosed
  <2>1. PICK j \in Id : Closes(j)
    BY <1>4 DEF IdIsClosed
  <2>2. CASE j = i
    BY <2>1, <2>2
  <2>3. CASE j # i
    BY <1>1, <2>1, <2>3 DEF Closes
  <2>4. QED
    BY <2>2, <2>3
<1>5. CASE CreditArrives
  <2>1. PICK j \in Id, n \in Nat : Credited(j, n)
    BY <1>5 DEF CreditArrives
  <2>2. subscription[j].credit + n \in Nat /\ subscription[j].next \in Offset
    BY <1>1, SubscriptionType
  <2>3. Serve(j, subscription[j].credit + n, subscription[j].next)
    BY <2>1, Zenon DEF Credited
  <2>4. QED
    BY <1>1, <2>2, <2>3, ServeFacts
<1>6. CASE ChunkIsSent
  <2>1. PICK j \in Id, n \in Nat : Delivers(j, n)
    BY <1>6 DEF ChunkIsSent
  <2>2. /\ subscription[j].credit > 0 /\ subscription[j].next + n <= LogLength
        /\ Serve(j, subscription[j].credit - 1, subscription[j].next + n)
    BY <2>1, Zenon DEF Delivers
  <2>3. subscription[j].credit - 1 \in Nat /\ subscription[j].next + n \in Offset
    <3>1. subscription[j].credit \in Nat /\ subscription[j].next \in Nat /\ LogLength \in Nat
      BY <1>1, SubscriptionType, Constants
    <3>2. QED
      BY <2>2, <3>1 DEF Offset
  <2>4. QED
    BY <1>1, <2>2, <2>3, ServeFacts
<1>7. QED
  BY <1>2, <1>3, <1>4, <1>5, <1>6, Changing

-----------------------------------------------------------------------------
(* Current is kept.                                                        *)

\* A chunk for an id without subscription: its end is answered, so that no request is on
\* its way to the broker.
LEMMA Settling ==
  ASSUME Types, Ordered, NEW i \in Id, Settled(i, toClient, call),
         NEW j \in DOMAIN toClient, ChunkOf(i, toClient[j])
  PROVE  /\ call # NoCall /\ call.key = "Unsubscribe" /\ call.arg[1] = i
         /\ \E k \in DOMAIN toClient : j < k /\ toClient[k].corr = call.corr
         /\ \A l \in DOMAIN toBroker : ~OpeningOf(i, toBroker[l])
<1>1. toBroker \in Seq(FromClient)
  BY OffsetTypes
<1>2. /\ call # NoCall /\ call.key = "Unsubscribe" /\ call.arg[1] = i
      /\ \E k \in DOMAIN toClient : j < k /\ toClient[k].corr = call.corr
  BY DEF Settled
<1>3. \A l \in DOMAIN toBroker : toBroker[l].corr = 0
  BY <1>2 DEF Ordered, InTurn
<1>4. ASSUME NEW l \in DOMAIN toBroker PROVE ~OpeningOf(i, toBroker[l])
  <2>1. PICK m \in FromClient : m = toBroker[l]
    BY <1>1, ElementOf
  <2>2. m.key # "Subscribe"
    BY <1>3, <2>1, ClientFrame
  <2>3. QED
    BY <2>1, <2>2 DEF OpeningOf
<1>5. QED
  BY <1>2, <1>4

LEMMA ClearStep ==
  ASSUME Types, Ordered, Steps, NEW i \in Id, link' = "up",
         Settled(i, toClient, call), Clear(i, toBroker)
  PROVE  Clear(i, toBroker')
<1>1. toBroker \in Seq(FromClient) /\ toClient \in Seq(FromBroker) /\ link = "up"
  BY OffsetTypes, LinkStep
<1>2. CASE UNCHANGED toBroker
  BY <1>2
<1>3. CASE ChunkIsHandled
  <2>1. PICK k \in Nat, h \in Id, first \in Offset, n \in Nat, stream \in Stream,
             number \in Nat \ {0} : Handles(k, h, first, n, stream, number)
    BY <1>3 DEF ChunkIsHandled
  <2>2. PICK t \in Seq(FromClient), m \in FromClient :
          /\ t = toBroker \/ \E s \in FromClient : s.key = "StoreOffset" /\ t = Append(toBroker, s)
          /\ m.key = "Credit" /\ m.arg[1] = h
          /\ toBroker' = Append(t, m)
    BY <1>1, <2>1, HandledCredit
  <2>3. Clear(i, t) /\ \A l \in DOMAIN t : OpeningOf(i, t[l]) =>
                         \E j \in DOMAIN toBroker : OpeningOf(i, toBroker[j])
    <3>1. CASE t = toBroker
      BY <3>1
    <3>2. ASSUME NEW s \in FromClient, s.key = "StoreOffset", t = Append(toBroker, s)
          PROVE  Clear(i, t) /\ \A l \in DOMAIN t : OpeningOf(i, t[l]) =>
                                  \E j \in DOMAIN toBroker : OpeningOf(i, toBroker[j])
      <4>1. ~CreditOf(i, s) /\ ~OpeningOf(i, s)
        BY <3>2 DEF CreditOf, OpeningOf
      <4>2. Clear(i, t)
        BY <1>1, <3>2, <4>1, ClearAppend
      <4>3. \A l \in DOMAIN t : t[l] = s \/ (l \in DOMAIN toBroker /\ t[l] = toBroker[l])
        BY <1>1, <3>2, GrownBy
      <4>4. QED
        BY <4>1, <4>2, <4>3
    <3>3. QED
      BY <2>2, <3>1, <3>2
  <2>4. CASE h = i
    <3>1. /\ Receives /\ Head(toClient).key = "Deliver"
          /\ Head(toClient).arg = <<h, first, n, stream, number>>
      BY <2>1, Zenon DEF Handles
    <3>2. 1 \in DOMAIN toClient /\ toClient[1] = Head(toClient)
      BY <1>1, <3>1, TailFacts DEF Receives
    <3>3. ChunkOf(i, toClient[1])
      BY <2>4, <3>1, <3>2 DEF ChunkOf
    <3>4. \A l \in DOMAIN toBroker : ~OpeningOf(i, toBroker[l])
      BY <3>2, <3>3, Settling
    <3>5. QED
      BY <2>2, <2>3, <3>4, ClearAppend
  <2>5. CASE h # i
    <3>1. ~CreditOf(i, m)
      BY <2>2, <2>5 DEF CreditOf
    <3>2. QED
      BY <2>2, <2>3, <3>1, ClearAppend
  <2>6. QED
    BY <2>4, <2>5
<1>4. CASE CreditIsSent
  <2>1. PICK h \in Id : Grants(h)
    BY <1>4 DEF CreditIsSent
  <2>2. PICK m : m = Push("Credit", <<h, 1>>)
    OBVIOUS
  <2>3. toBroker = << >> /\ toBroker' = Append(toBroker, m)
    BY <1>1, <2>1, <2>2 DEF Grants, Sends
  <2>4. \A j \in DOMAIN toBroker : ~OpeningOf(i, toBroker[j])
    BY <2>3
  <2>5. QED
    BY <1>1, <2>3, <2>4, ClearAppend
<1>5. ASSUME NEW m \in FromClient, m.key # "Credit", toBroker' = Append(toBroker, m)
      PROVE  Clear(i, toBroker')
  <2>1. ~CreditOf(i, m)
    BY <1>5 DEF CreditOf
  <2>2. QED
    BY <1>1, <1>5, <2>1, ClearAppend
<1>6. CASE toBroker # << >> /\ toBroker' = Tail(toBroker)
  BY <1>1, <1>6, ClearTail
<1>7. QED
  BY <1>2, <1>3, <1>4, <1>5, <1>6, Leaving

\* The id has no subscription and gets none.
LEMMA SettledStep ==
  ASSUME Types, Ordered, Steps, NEW i \in Id, link' = "up", doubt'[i] = "none",
         Settled(i, toClient, call), subscription[i].number = 0
  PROVE  Settled(i, toClient', call')
<1>1. /\ toClient \in Seq(FromBroker) /\ doubt \in [Id -> {"none", "now", "past"}]
  <2>1. doubt \in [Id -> {"none", "now", "past"}]
    BY Zenon DEF Types, TypeOK
  <2>2. QED
    BY <2>1, OffsetTypes
<1>2. ASSUME \A j \in DOMAIN toClient' : ~ChunkOf(i, toClient'[j])
      PROVE  Settled(i, toClient', call')
  BY <1>2 DEF Settled
<1>3. CASE UNCHANGED call
  <2>1. CASE UNCHANGED toClient
    BY <1>3, <2>1
  <2>2. ASSUME Receives PROVE Settled(i, toClient', call')
    <3>1. toClient # << >> /\ toClient' = Tail(toClient)
      BY <2>2 DEF Receives
    <3>2. QED
      BY <1>1, <1>3, <3>1, SettledTail
  <2>3. CASE ChunkIsHandled
    <3>1. PICK k \in Nat, h \in Id, first \in Offset, n \in Nat, stream \in Stream,
               number \in Nat \ {0} : Handles(k, h, first, n, stream, number)
      BY <2>3 DEF ChunkIsHandled
    <3>2. Receives
      BY <3>1, Zenon DEF Handles
    <3>3. QED
      BY <2>2, <3>2
  <2>4. CASE ChunkIsSent
    <3>1. PICK h \in Id, n \in Nat : Delivers(h, n)
      BY <2>4 DEF ChunkIsSent
    <3>2. PICK m : m = Push("Deliver", <<h, subscription[h].next, n, subscription[h].stream,
                                         subscription[h].number>>)
      OBVIOUS
    <3>3. toClient' = Append(toClient, m) /\ Subscribed(h)
      BY <3>1, <3>2 DEF Delivers, Tells
    <3>4. m.arg[1] = h
      BY <3>2, PushFacts
    <3>5. h # i
      BY <3>3, SubscribedNumber
    <3>6. ~ChunkOf(i, m)
      BY <3>4, <3>5 DEF ChunkOf
    <3>7. QED
      BY <1>1, <1>3, <3>3, <3>6, SettledAppend
  <2>5. ASSUME NEW m \in FromBroker, m.key # "Deliver", toClient' = Append(toClient, m)
        PROVE  Settled(i, toClient', call')
    <3>1. ~ChunkOf(i, m)
      BY <2>5 DEF ChunkOf
    <3>2. QED
      BY <1>1, <1>3, <2>5, <3>1, SettledAppend
  <2>6. link' # "down"
    OBVIOUS
  <2>7. QED
    BY <2>1, <2>2, <2>3, <2>4, <2>5, <2>6, Arriving
<1>4. CASE RequestIsMade
  <2>1. PICK key, arg : Asks(key, arg)
    BY <1>4 DEF RequestIsMade
  <2>2. call = NoCall /\ UNCHANGED toClient
    BY <2>1 DEF Asks
  <2>3. QED
    BY <1>2, <2>2 DEF Settled
<1>5. CASE GivesUp
  <2>1. doubt' = IF call.key \in Changes THEN [doubt EXCEPT ![call.arg[1]] = "now"] ELSE doubt
    BY <1>5 DEF GivesUp
  <2>2. ~(call.key = "Unsubscribe" /\ call.arg[1] = i)
    BY <1>1, <2>1 DEF Changes
  <2>3. \A j \in DOMAIN toClient : ~ChunkOf(i, toClient[j])
    BY <2>2 DEF Settled
  <2>4. CASE UNCHANGED toClient
    BY <1>2, <2>3, <2>4
  <2>5. CASE Receives
    <3>1. toClient # << >> /\ toClient' = Tail(toClient)
      BY <2>5 DEF Receives
    <3>2. ASSUME NEW j \in DOMAIN toClient' PROVE ~ChunkOf(i, toClient'[j])
      <4>1. j + 1 \in DOMAIN toClient /\ toClient'[j] = toClient[j + 1]
        BY <1>1, <3>1, TailFacts
      <4>2. QED
        BY <2>3, <4>1
    <3>3. QED
      BY <1>2, <3>2
  <2>6. QED
    BY <1>5, <2>4, <2>5, GivesUpFacts
<1>6. CASE LearnsName \/ LearnsOffset
  <2>1. Receives /\ Head(toClient).corr = call.corr
    BY <1>6 DEF LearnsName, LearnsOffset
  <2>2. PICK t : t = Tail(toClient) /\ toClient' = t
    BY <2>1 DEF Receives
  <2>3. /\ toClient # << >> /\ 1 \in DOMAIN toClient /\ toClient[1].corr = call.corr
        /\ DOMAIN toClient \subseteq Nat
    BY <1>1, <2>1, TailFacts DEF Receives
  <2>4. \A j \in DOMAIN t : j \in Nat /\ j # 0 /\ j + 1 \in DOMAIN toClient /\ t[j] = toClient[j + 1]
    <3>1. DOMAIN Tail(toClient) \subseteq Nat \ {0}
      BY <1>1, <2>3
    <3>2. QED
      BY <1>1, <2>2, <2>3, <3>1, TailFacts
  <2>5. ASSUME NEW j \in DOMAIN t, ChunkOf(i, t[j]) PROVE FALSE
    <3>1. j + 1 \in DOMAIN toClient /\ ChunkOf(i, toClient[j + 1])
      BY <2>4, <2>5
    <3>2. call # NoCall /\ \E k \in DOMAIN toClient : j + 1 < k /\ toClient[k].corr = call.corr
      BY <3>1 DEF Settled
    <3>3. PICK k \in DOMAIN toClient : j + 1 < k /\ toClient[k].corr = call.corr
      BY <3>2
    <3>4. k = 1
      BY <2>3, <3>2, <3>3 DEF Ordered, InTurn
    <3>5. QED
      BY <2>4, <3>3, <3>4
  <2>6. QED
    BY <1>2, <2>2, <2>5
<1>7. QED
  BY <1>3, <1>4, <1>5, <1>6, CallEnds

\* An id gets a subscription: nothing of the one before it is on its way.
LEMMA CurrentOpens ==
  ASSUME Types, Ordered, NEW i \in Id, NEW s \in Stream, NEW o \in Offset, Opens(i, s, o),
         Settled(i, toClient, call), Clear(i, toBroker)
  PROVE  /\ \A j \in DOMAIN toClient' : ~ChunkOf(i, toClient'[j])
         /\ \A k \in DOMAIN toBroker' : ~CreditOf(i, toBroker'[k])
<1>1. toClient \in Seq(FromBroker) /\ toBroker \in Seq(FromClient)
  BY OffsetTypes
<1>2. PICK r : r = Reply(Head(toBroker), "OK", << >>)
  OBVIOUS
<1>3. /\ Takes /\ Head(toBroker).key = "Subscribe" /\ Head(toBroker).arg[1] = i
      /\ toClient' = Append(toClient, r)
  BY <1>2 DEF Opens, Tells
<1>4. toBroker # << >> /\ toBroker' = Tail(toBroker) /\ OpeningOf(i, Head(toBroker))
  BY <1>3 DEF Takes, OpeningOf
<1>5. 1 \in DOMAIN toBroker /\ toBroker[1] = Head(toBroker)
  BY <1>1, <1>4, TailFacts
<1>6. \A j \in DOMAIN toClient : ~ChunkOf(i, toClient[j])
  BY <1>4, <1>5, Settling
<1>7. r.key = "Subscribe"
  BY <1>2, <1>3 DEF Reply, Message
<1>8. \A j \in DOMAIN toClient' : ~ChunkOf(i, toClient'[j])
  <2>1. PICK t : t = toClient' /\ t = Append(toClient, r)
    BY <1>3
  <2>2. \A j \in DOMAIN t : t[j] = r \/ (j \in DOMAIN toClient /\ t[j] = toClient[j])
    BY <1>1, <2>1, GrownBy
  <2>3. ~ChunkOf(i, r)
    BY <1>7 DEF ChunkOf
  <2>4. QED
    BY <1>6, <2>1, <2>2, <2>3
<1>9. \A k \in DOMAIN toBroker' : ~CreditOf(i, toBroker'[k])
  <2>1. \A k \in DOMAIN Tail(toBroker) : ~CreditOf(i, Tail(toBroker)[k])
    BY <1>1, <1>4, ClearTail
  <2>2. QED
    BY <1>4, <2>1, Zenon
<1>10. QED
  BY <1>8, <1>9

\* An id loses its subscription: the answer comes behind its chunks.
LEMMA CurrentCloses ==
  ASSUME Types, Ordered, Pending, NEW i \in Id, Closes(i), doubt[i] = "none"
  PROVE  Settled(i, toClient', call') /\ Clear(i, toBroker')
<1>1. toClient \in Seq(FromBroker) /\ toBroker \in Seq(FromClient)
  BY OffsetTypes
<1>2. PICK r : r = Reply(Head(toBroker), "OK", << >>)
  OBVIOUS
<1>3. /\ Takes /\ Head(toBroker).key = "Unsubscribe" /\ Head(toBroker).arg[1] = i
      /\ toClient' = Append(toClient, r) /\ UNCHANGED call
  BY <1>2 DEF Closes, Tells
<1>4. /\ toBroker # << >> /\ 1 \in DOMAIN toBroker /\ toBroker[1] = Head(toBroker)
  BY <1>1, <1>3, TailFacts DEF Takes
<1>5. call # NoCall /\ Head(toBroker).corr = call.corr
  BY <1>3, <1>4 DEF Pending, Changes
<1>6. call.key = "Unsubscribe" /\ call.arg[1] = i
  BY <1>3, <1>4, <1>5 DEF Ordered, InTurn
<1>7. r.corr = call.corr /\ r.key = "Unsubscribe"
  BY <1>2, <1>3, <1>5 DEF Reply, Message
<1>8. Settled(i, toClient', call')
  <2>1. PICK t : t = toClient' /\ t = Append(toClient, r)
    BY <1>3
  <2>2. PICK n \in Nat : DOMAIN toClient = 1..n /\ DOMAIN t = 1..(n + 1) /\ t[n + 1] = r
    <3>1. PICK n \in Nat : n = Len(toClient)
      BY <1>1
    <3>2. QED
      BY <1>1, <2>1, <3>1
  <2>3. ASSUME NEW j \in DOMAIN t, ChunkOf(i, t[j])
        PROVE  \E k \in DOMAIN t : j < k /\ t[k].corr = call.corr
    <3>1. j # n + 1
      BY <1>7, <2>2, <2>3 DEF ChunkOf
    <3>2. j < n + 1 /\ n + 1 \in DOMAIN t
      BY <2>2, <3>1
    <3>3. QED
      BY <1>7, <2>2, <3>2
  <2>4. QED
    BY <1>3, <1>5, <1>6, <2>1, <2>3 DEF Settled
<1>9. Clear(i, toBroker')
  <2>1. PICK t : t = Tail(toBroker) /\ toBroker' = t
    BY <1>3 DEF Takes
  <2>2. \A j \in DOMAIN t : 1 < j + 1 /\ j + 1 \in DOMAIN toBroker /\ t[j] = toBroker[j + 1]
    <3>1. DOMAIN Tail(toBroker) \subseteq Nat \ {0}
      BY <1>1, <1>4
    <3>2. \A j \in Nat \ {0} : 1 < j + 1
      OBVIOUS
    <3>3. QED
      BY <1>1, <1>4, <2>1, <3>1, <3>2, TailFacts
  <2>3. ASSUME NEW j \in DOMAIN t PROVE ~OpeningOf(i, t[j])
    <3>1. toBroker[j + 1].corr = 0
      BY <1>4, <1>5, <2>2 DEF Ordered, InTurn
    <3>2. PICK m \in FromClient : m = t[j] /\ m.corr = 0
      BY <1>1, <2>2, <3>1, ElementOf
    <3>3. m.key # "Subscribe"
      BY <3>2, ClientFrame
    <3>4. QED
      BY <3>2, <3>3 DEF OpeningOf
  <2>4. QED
    BY <2>1, <2>3 DEF Clear
<1>10. QED
  BY <1>8, <1>9

LEMMA CurrentStep ==
  ASSUME Types, Ordered, Pending, Current, Steps
  PROVE  Current'
<1> SUFFICES ASSUME link' = "up", NEW i \in Id, doubt'[i] = "none"
             PROVE  IF subscription'[i].number # 0
                    THEN Fresh(i, toClient', subscription'[i].number)
                    ELSE Settled(i, toClient', call') /\ Clear(i, toBroker')
  BY DEF Current
<1>1. link = "up" /\ doubt[i] = "none"
  BY LinkStep, DoubtStep
<1>2. IF subscription[i].number # 0 THEN Fresh(i, toClient, subscription[i].number)
      ELSE Settled(i, toClient, call) /\ Clear(i, toBroker)
  BY <1>1 DEF Current
<1>3. CASE subscription'[i].number = subscription[i].number /\ subscription[i].number # 0
  <2>1. ASSUME NEW k \in DOMAIN toClient', ChunkOf(i, toClient'[k])
        PROVE  toClient'[k].arg[5] = subscription[i].number
    <3>1. toClient'[k].key = "Deliver" /\ toClient'[k].arg[1] = i
      BY <2>1 DEF ChunkOf
    <3>2. \/ \E j \in DOMAIN toClient : toClient[j] = toClient'[k]
          \/ toClient'[k].arg[5] = subscription[i].number
      BY <3>1, ChunksArriving
    <3>3. QED
      BY <1>2, <1>3, <2>1, <3>2 DEF Fresh
  <2>2. QED
    BY <1>3, <2>1 DEF Fresh
<1>4. CASE subscription'[i].number = subscription[i].number /\ subscription[i].number = 0
  BY <1>2, <1>4, SettledStep, ClearStep
<1>5. ASSUME NEW s \in Stream, NEW o \in Offset, Opens(i, s, o)
      PROVE  subscription'[i].number # 0 /\ Fresh(i, toClient', subscription'[i].number)
  <2>1. subscription \in [Id -> Subscriptions]
    BY Zenon DEF Types, TypeOK, Subscriptions, Name, Offset
  <2>2. ~Subscribed(i) /\ subscription' = [subscription EXCEPT ![i] =
          [stream |-> s, credit |-> InitialCredit, next |-> o, number |-> Len(made) + 1]]
    BY <1>5, Zenon DEF Opens
  <2>3. subscription[i].number = 0 /\ Len(made) \in Nat
    BY <2>2, SubscribedNumber
  <2>4. subscription'[i].number = Len(made) + 1
    BY <2>1, <2>2
  <2>5. \A j \in DOMAIN toClient' : ~ChunkOf(i, toClient'[j])
    BY <1>2, <1>5, <2>3, CurrentOpens
  <2>6. QED
    BY <2>3, <2>4, <2>5 DEF Fresh
<1>6. CASE Closes(i)
  <2>1. subscription \in [Id -> Subscriptions]
    BY Zenon DEF Types, TypeOK, Subscriptions, Name, Offset
  <2>2. subscription' = [subscription EXCEPT ![i] = NoSubscription] /\ NoSubscription.number = 0
    BY <1>6 DEF Closes, NoSubscription
  <2>3. subscription'[i].number = 0
    BY <2>1, <2>2
  <2>4. QED
    BY <1>1, <1>6, <2>3, CurrentCloses
<1>7. QED
  BY <1>3, <1>4, <1>5, <1>6, NumberStep

-----------------------------------------------------------------------------
(* The balance of one subscription.                                        *)

Balance(credit, tc, e, tb, i, handled, granted) ==
    credit + Chunked(tc, e) + Total(tb, i) + handled
        = InitialCredit + granted + DefaultCredit * handled

LEMMA BalanceIs ==
  ASSUME Types, NEW i \in Id
  PROVE  subscription[i].credit + Underway(i) + Total(toBroker, i) + chunks[i]
             = InitialCredit + grants[i] + DefaultCredit * chunks[i]
         <=> Balance(subscription[i].credit, toClient, subscription[i].number, toBroker, i,
                     chunks[i], grants[i])
<1>1. toClient \in Seq(FromBroker)
  BY OffsetTypes
<1>2. Underway(i) = Chunked(toClient, subscription[i].number)
  <2>1. PICK e : e = subscription[i].number
    OBVIOUS
  <2>2. QED
    BY <1>1, <2>1, ChunkedIsSum DEF Underway
<1>3. QED
  BY <1>2 DEF Balance

LEMMA BalanceIsNext ==
  ASSUME Types', NEW i \in Id
  PROVE  (subscription'[i].credit + Underway(i)' + Total(toBroker', i) + chunks'[i]
             = InitialCredit + grants'[i] + DefaultCredit * chunks'[i])
         <=> Balance(subscription'[i].credit, toClient', subscription'[i].number, toBroker', i,
                     chunks'[i], grants'[i])
<1>1. toClient' \in Seq(FromBroker)
  BY DEF Types, Channels
<1>2. Underway(i)' = Chunked(toClient', subscription'[i].number)
  <2>1. PICK e : e = subscription'[i].number
    OBVIOUS
  <2>2. QED
    BY <1>1, <2>1, ChunkedIsSum DEF Underway
<1>3. QED
  BY <1>2 DEF Balance

LEMMA BalanceTypes ==
  ASSUME Types, NEW i \in Id
  PROVE  /\ subscription \in [Id -> Subscriptions]
         /\ chunks \in [Id -> Nat] /\ grants \in [Id -> Nat]
         /\ toBroker \in Seq(FromClient) /\ toClient \in Seq(FromBroker)
         /\ subscription[i].credit \in Nat /\ chunks[i] \in Nat /\ grants[i] \in Nat
         /\ Total(toBroker, i) \in Nat
         /\ \A e : Chunked(toClient, e) \in Nat
<1>1. subscription \in [Id -> Subscriptions]
  BY Zenon DEF Types, TypeOK, Subscriptions, Name, Offset
<1>2. chunks \in [Id -> Nat] /\ grants \in [Id -> Nat]
  BY Zenon DEF Types
<1>3. toBroker \in Seq(FromClient) /\ toClient \in Seq(FromBroker)
  BY OffsetTypes
<1>4. subscription[i].credit \in Nat
  BY <1>1, SubscriptionType
<1>5. QED
  BY <1>1, <1>2, <1>3, <1>4, TotalFacts, ChunkedFacts

LEMMA TotalKept ==
  ASSUME Types, Steps, NEW i \in Id, link' = "up"
  PROVE  \/ ChunkIsHandled \/ CreditIsSent \/ CreditArrives \/ CreditRefused
         \/ Total(toBroker', i) = Total(toBroker, i)
<1>1. toBroker \in Seq(FromClient) /\ Total(toBroker, i) \in Nat
  BY BalanceTypes
<1>2. ASSUME NEW m \in FromClient, m.key # "Credit", toBroker' = Append(toBroker, m)
      PROVE  Total(toBroker', i) = Total(toBroker, i)
  <2>1. Total(Append(toBroker, m), i) = Total(toBroker, i) + 0
    BY <1>1, <1>2, TotalAppend
  <2>2. QED
    BY <1>1, <1>2, <2>1
<1>3. ASSUME toBroker # << >>, toBroker' = Tail(toBroker), Head(toBroker).key # "Credit"
      PROVE  Total(toBroker', i) = Total(toBroker, i)
  <2>1. Total(toBroker, i) = Total(Tail(toBroker), i) + 0
    BY <1>1, <1>3, TotalTail
  <2>2. PICK t \in Seq(FromClient) : t = Tail(toBroker)
    <3>1. Tail(toBroker) \in Seq(FromClient)
      BY <1>1, <1>3
    <3>2. QED
      BY <3>1, Zenon
  <2>3. Total(t, i) \in Nat
    BY TotalFacts
  <2>4. QED
    BY <1>3, <2>1, <2>2, <2>3
<1>4. QED
  BY <1>2, <1>3, Leaving

LEMMA ChunkedKept ==
  ASSUME Types, Steps, NEW i \in Id, link' = "up", NEW e
  PROVE  \/ ChunkIsHandled \/ ChunkIsSent
         \/ Chunked(toClient', e) = Chunked(toClient, e)
<1>1. toClient \in Seq(FromBroker) /\ Chunked(toClient, e) \in Nat
  BY BalanceTypes
<1>2. ASSUME NEW m \in FromBroker, m.key # "Deliver", toClient' = Append(toClient, m)
      PROVE  Chunked(toClient', e) = Chunked(toClient, e)
  <2>1. Chunked(Append(toClient, m), e) = Chunked(toClient, e) + 0
    BY <1>1, <1>2, ChunkedAppend
  <2>2. QED
    BY <1>1, <1>2, <2>1
<1>3. ASSUME Receives, Head(toClient).key # "Deliver"
      PROVE  Chunked(toClient', e) = Chunked(toClient, e)
  <2>1. toClient # << >> /\ toClient' = Tail(toClient)
    BY <1>3 DEF Receives
  <2>2. Chunked(toClient, e) = Chunked(Tail(toClient), e) + 0
    BY <1>1, <1>3, <2>1, ChunkedTail
  <2>3. PICK t \in Seq(FromBroker) : t = Tail(toClient)
    <3>1. Tail(toClient) \in Seq(FromBroker)
      BY <1>1, <2>1
    <3>2. QED
      BY <3>1, Zenon
  <2>4. Chunked(t, e) \in Nat
    BY ChunkedFacts
  <2>5. QED
    BY <2>1, <2>2, <2>3, <2>4
<1>4. link' # "down"
  OBVIOUS
<1>5. QED
  BY <1>2, <1>3, <1>4, Arriving

LEMMA BalanceOpens ==
  ASSUME Types, Types', Ordered, NEW i \in Id, NEW s \in Stream, NEW o \in Offset, Opens(i, s, o),
         Settled(i, toClient, call), Clear(i, toBroker)
  PROVE  Balance(subscription'[i].credit, toClient', subscription'[i].number, toBroker', i,
                 chunks'[i], grants'[i])
<1>1. /\ subscription' = [subscription EXCEPT ![i] =
           [stream |-> s, credit |-> InitialCredit, next |-> o, number |-> Len(made) + 1]]
      /\ chunks' = [chunks EXCEPT ![i] = 0] /\ grants' = [grants EXCEPT ![i] = 0]
  BY Zenon DEF Opens
<1>2. /\ subscription'[i].credit = InitialCredit /\ chunks'[i] = 0 /\ grants'[i] = 0
  BY <1>1, BalanceTypes
<1>3. toBroker' \in Seq(FromClient) /\ toClient' \in Seq(FromBroker)
  BY DEF Types, Channels
<1>4. /\ \A j \in DOMAIN toClient' : ~ChunkOf(i, toClient'[j])
      /\ \A k \in DOMAIN toBroker' : ~CreditOf(i, toBroker'[k])
  BY CurrentOpens
<1>5. Total(toBroker', i) = 0
  BY <1>3, <1>4, TotalFacts DEF CreditOf
<1>6. PICK e : e = subscription'[i].number
  OBVIOUS
<1>7. ASSUME NEW k \in DOMAIN toClient', toClient'[k].key = "Deliver"
      PROVE  toClient'[k].arg[5] # e
  <2>1. toClient'[k].arg[5] = e => toClient'[k].arg[1] = i
    BY <1>6, <1>7 DEF Types, Numbers
  <2>2. QED
    BY <1>4, <1>7, <2>1 DEF ChunkOf
<1>8. Chunked(toClient', e) = 0
  BY <1>3, <1>7, ChunkedFacts
<1>9. DefaultCredit \in Nat /\ InitialCredit \in Nat
  BY Constants
<1>10. DefaultCredit * 0 = 0
  BY <1>9
<1>11. QED
  BY <1>2, <1>5, <1>6, <1>8, <1>9, <1>10 DEF Balance

LEMMA BalanceHandled ==
  ASSUME Types, NEW i \in Id, link = "up", ChunkIsHandled,
         Fresh(i, toClient, subscription[i].number),
         Balance(subscription[i].credit, toClient, subscription[i].number, toBroker, i,
                 chunks[i], grants[i])
  PROVE  Balance(subscription'[i].credit, toClient', subscription'[i].number, toBroker', i,
                 chunks'[i], grants'[i])
<1>1. PICK k \in Nat, h \in Id, first \in Offset, n \in Nat, stream \in Stream,
           number \in Nat \ {0} : Handles(k, h, first, n, stream, number)
  BY DEF ChunkIsHandled
<1>2. PICK x \in Seq(FromClient), m \in FromClient :
        /\ x = toBroker \/ \E s \in FromClient : s.key = "StoreOffset" /\ x = Append(toBroker, s)
        /\ m.key = "Credit" /\ m.arg[1] = h /\ m.arg[2] = DefaultCredit
        /\ toBroker' = Append(x, m)
  <2>1. \E t \in Seq(FromClient), m \in FromClient :
          /\ t = toBroker \/ \E s \in FromClient : s.key = "StoreOffset" /\ t = Append(toBroker, s)
          /\ m.key = "Credit" /\ m.arg[1] = h /\ m.arg[2] = DefaultCredit
          /\ toBroker' = Append(t, m)
    BY <1>1, HandledCredit
  <2>2. QED
    BY <2>1
<1>3. /\ Receives /\ Head(toClient).key = "Deliver"
      /\ Head(toClient).arg = <<h, first, n, stream, number>>
      /\ chunks' = IF subscription[h].number = number THEN [chunks EXCEPT ![h] = @ + 1] ELSE chunks
      /\ UNCHANGED <<subscription, grants>>
  <2>1. UNCHANGED broker /\ UNCHANGED grants
    BY <1>1, Zenon DEF Handles
  <2>2. QED
    BY <1>1, <2>1, Zenon DEF Handles, broker
<1>4. /\ chunks \in [Id -> Nat] /\ toBroker \in Seq(FromClient) /\ toClient \in Seq(FromBroker)
      /\ subscription[i].credit \in Nat /\ chunks[i] \in Nat /\ grants[i] \in Nat
      /\ Total(toBroker, i) \in Nat /\ DefaultCredit \in Nat /\ InitialCredit \in Nat
  BY BalanceTypes, Constants
<1>5. /\ toClient # << >> /\ toClient' = Tail(toClient)
      /\ 1 \in DOMAIN toClient /\ toClient[1] = Head(toClient)
  BY <1>3, <1>4, TailFacts DEF Receives
<1>6. Head(toClient).arg[1] = h /\ Head(toClient).arg[5] = number
  BY <1>3
<1>7. h = i <=> number = subscription[i].number
  <2>1. h = i => number = subscription[i].number
    BY <1>3, <1>5, <1>6 DEF Fresh, ChunkOf
  <2>2. number = subscription[i].number => h = i
    BY <1>3, <1>5, <1>6 DEF Types, Numbers
  <2>3. QED
    BY <2>1, <2>2
\* The chunk goes, and its credit comes.
<1>8. PICK e, u, v : /\ e = subscription[i].number
                     /\ u = Chunked(toClient, e) /\ v = Chunked(toClient', e)
  OBVIOUS
<1>9. u = v + (IF h = i THEN 1 ELSE 0) /\ v \in Nat /\ u \in Nat
  <2>1. PICK z \in Seq(FromBroker) : z = toClient'
    <3>1. Tail(toClient) \in Seq(FromBroker)
      BY <1>4, <1>5
    <3>2. QED
      BY <1>5, <3>1, Zenon
  <2>2. v \in Nat /\ u \in Nat
    BY <1>4, <1>8, <2>1, ChunkedFacts
  <2>3. u = v + (IF Head(toClient).key = "Deliver" /\ Head(toClient).arg[5] = e THEN 1 ELSE 0)
    BY <1>4, <1>5, <1>8, ChunkedTail
  <2>4. QED
    BY <1>3, <1>6, <1>7, <1>8, <2>2, <2>3
<1>10. Total(x, i) = Total(toBroker, i)
  <2>1. ASSUME NEW s \in FromClient, s.key = "StoreOffset", x = Append(toBroker, s)
        PROVE  Total(x, i) = Total(toBroker, i)
    <3>1. Total(Append(toBroker, s), i) = Total(toBroker, i) + 0
      BY <1>4, <2>1, TotalAppend
    <3>2. QED
      BY <1>4, <2>1, <3>1
  <2>2. QED
    BY <1>2, <2>1
<1>11. Total(toBroker', i) = Total(toBroker, i) + (IF h = i THEN DefaultCredit ELSE 0)
  <2>1. Total(Append(x, m), i) = Total(x, i)
          + (IF m.key = "Credit" /\ m.arg[1] = i THEN m.arg[2] ELSE 0)
    BY TotalAppend
  <2>2. QED
    BY <1>2, <1>10, <2>1
<1>12. chunks'[i] = chunks[i] + (IF h = i THEN 1 ELSE 0)
  <2>1. CASE h = i
    BY <1>3, <1>4, <1>7, <2>1
  <2>2. CASE h # i
    BY <1>3, <1>4, <2>2
  <2>3. QED
    BY <2>1, <2>2
<1>13. \A y \in Nat : DefaultCredit * (y + 1) = DefaultCredit * y + DefaultCredit
  BY <1>4
<1>14. PICK c, t, d, g, w : /\ c = subscription[i].credit /\ t = Total(toBroker, i) /\ d = chunks[i]
                            /\ g = grants[i] /\ w = DefaultCredit * d
  OBVIOUS
<1>15. c \in Nat /\ t \in Nat /\ d \in Nat /\ g \in Nat /\ w \in Nat
  BY <1>4, <1>14
<1>16. c + u + t + d = InitialCredit + g + w
  BY <1>8, <1>14 DEF Balance
<1>17. CASE h = i
  <2>1. DefaultCredit * (d + 1) = w + DefaultCredit
    BY <1>13, <1>14, <1>15
  <2>2. c + v + (t + DefaultCredit) + (d + 1) = InitialCredit + g + (w + DefaultCredit)
    BY <1>4, <1>9, <1>15, <1>16, <1>17
  <2>3. QED
    BY <1>3, <1>8, <1>11, <1>12, <1>14, <1>17, <2>1, <2>2 DEF Balance
<1>18. CASE h # i
  <2>1. u = v
    BY <1>9, <1>18
  <2>2. /\ Total(toBroker', i) = t /\ chunks'[i] = d
    BY <1>4, <1>11, <1>12, <1>14, <1>15, <1>18
  <2>3. QED
    BY <1>3, <1>8, <1>14, <1>16, <2>1, <2>2 DEF Balance
<1>19. QED
  BY <1>17, <1>18

\* The other steps: the broker takes or spends credit, or the application gives some.
LEMMA BalanceQuiet ==
  ASSUME Types, Steps, NEW i \in Id, link = "up", link' = "up", ~ChunkIsHandled,
         Subscribed(i), subscription'[i].number = subscription[i].number,
         Balance(subscription[i].credit, toClient, subscription[i].number, toBroker, i,
                 chunks[i], grants[i])
  PROVE  Balance(subscription'[i].credit, toClient', subscription'[i].number, toBroker', i,
                 chunks'[i], grants'[i])
<1>1. /\ subscription \in [Id -> Subscriptions] /\ chunks \in [Id -> Nat] /\ grants \in [Id -> Nat]
      /\ toBroker \in Seq(FromClient) /\ toClient \in Seq(FromBroker)
      /\ InitialCredit \in Nat /\ DefaultCredit \in Nat
  BY BalanceTypes, Constants
<1>2. PICK e, c, u, t, d, g, w :
        /\ e = subscription[i].number /\ c = subscription[i].credit
        /\ u = Chunked(toClient, e) /\ t = Total(toBroker, i)
        /\ d = chunks[i] /\ g = grants[i] /\ w = DefaultCredit * d
  OBVIOUS
<1>3. c \in Nat /\ u \in Nat /\ t \in Nat /\ d \in Nat /\ g \in Nat /\ w \in Nat
  <2>1. c \in Nat /\ u \in Nat /\ t \in Nat /\ d \in Nat /\ g \in Nat
    BY <1>2, BalanceTypes
  <2>2. QED
    BY <1>1, <1>2, <2>1
<1>4. c + u + t + d = InitialCredit + g + w
  BY <1>2 DEF Balance
<1> SUFFICES subscription'[i].credit + Chunked(toClient', e) + Total(toBroker', i) + chunks'[i]
               = InitialCredit + grants'[i] + DefaultCredit * chunks'[i]
  BY <1>2 DEF Balance
<1>5. CASE CreditIsSent
  <2>1. PICK h \in Id : Grants(h)
    BY <1>5 DEF CreditIsSent
  <2>2. PICK m : m = Push("Credit", <<h, 1>>)
    OBVIOUS
  <2>3. /\ m \in FromClient /\ toBroker' = Append(toBroker, m)
        /\ grants' = [grants EXCEPT ![h] = @ + 1] /\ UNCHANGED <<toClient, subscription, chunks>>
    BY <2>1, <2>2 DEF Grants, Sends, broker
  <2>4. m.key = "Credit" /\ m.arg[1] = h /\ m.arg[2] = 1
    BY <2>2, PushFacts
  <2>5. Total(toBroker', i) = t + (IF h = i THEN 1 ELSE 0)
    <3>1. Total(Append(toBroker, m), i) = Total(toBroker, i)
            + (IF m.key = "Credit" /\ m.arg[1] = i THEN m.arg[2] ELSE 0)
      BY <1>1, <2>3, TotalAppend
    <3>2. QED
      BY <1>2, <2>3, <2>4, <3>1
  <2>6. grants'[i] = g + (IF h = i THEN 1 ELSE 0)
    <3>1. CASE h = i
      BY <1>1, <1>2, <2>3, <3>1
    <3>2. CASE h # i
      BY <1>1, <1>2, <1>3, <2>3, <3>2
    <3>3. QED
      BY <3>1, <3>2
  <2>7. subscription'[i].credit = c /\ Chunked(toClient', e) = u /\ chunks'[i] = d
    BY <1>2, <2>3
  <2>8. PICK z \in Nat : z = IF h = i THEN 1 ELSE 0
    OBVIOUS
  <2>9. c + u + (t + z) + d = InitialCredit + (g + z) + w
    BY <1>1, <1>3, <1>4
  <2>10. QED
    BY <1>2, <2>5, <2>6, <2>7, <2>8, <2>9
<1>6. CASE CreditArrives
  <2>1. PICK h \in Id, n \in Nat : Credited(h, n)
    BY <1>6 DEF CreditArrives
  <2>2. /\ toBroker # << >> /\ toBroker' = Tail(toBroker) /\ Head(toBroker).key = "Credit"
        /\ Head(toBroker).arg[1] = h /\ Head(toBroker).arg[2] = n
        /\ Serve(h, subscription[h].credit + n, subscription[h].next)
        /\ UNCHANGED <<toClient, chunks, grants>>
    BY <2>1 DEF Credited, Takes
  <2>3. PICK y \in Nat : y = Total(toBroker', i)
    <3>1. Total(Tail(toBroker), i) \in Nat
      <4>1. PICK x \in Seq(FromClient) : x = Tail(toBroker)
        <5>1. Tail(toBroker) \in Seq(FromClient)
          BY <1>1, <2>2
        <5>2. QED
          BY <5>1, Zenon
      <4>2. QED
        BY <4>1, TotalFacts
    <3>2. QED
      BY <2>2, <3>1
  <2>4. t = y + (IF h = i THEN n ELSE 0)
    <3>1. Total(toBroker, i) = Total(Tail(toBroker), i)
            + (IF Head(toBroker).key = "Credit" /\ Head(toBroker).arg[1] = i
               THEN Head(toBroker).arg[2] ELSE 0)
      BY <1>1, <2>2, TotalTail
    <3>2. QED
      BY <1>2, <2>2, <2>3, <3>1
  <2>5. subscription'[i].credit = c + (IF h = i THEN n ELSE 0)
    <3>1. subscription[h].credit + n \in Nat /\ subscription[h].next \in Offset
      BY <1>1, SubscriptionType
    <3>2. /\ subscription'[h].credit = subscription[h].credit + n
          /\ h # i => subscription'[i] = subscription[i]
      BY <1>1, <2>2, <3>1, ServeFacts
    <3>3. QED
      BY <1>2, <1>3, <3>2
  <2>6. PICK z \in Nat : z = IF h = i THEN n ELSE 0
    OBVIOUS
  <2>7. (c + z) + u + y + d = InitialCredit + g + w
    BY <1>1, <1>3, <1>4, <2>4, <2>6
  <2>8. QED
    BY <1>2, <2>2, <2>3, <2>5, <2>6, <2>7
<1>7. CASE CreditRefused
  <2>1. /\ toBroker # << >> /\ toBroker' = Tail(toBroker) /\ Head(toBroker).key = "Credit"
        /\ ~Subscribed(Head(toBroker).arg[1]) /\ Tells(Push("Credit", << >>))
        /\ UNCHANGED <<subscription, chunks, grants>>
    BY <1>7 DEF CreditRefused, Takes, broker
  <2>2. Total(toBroker', i) = t
    <3>1. Head(toBroker).arg[1] # i
      BY <2>1
    <3>2. Total(toBroker, i) = Total(Tail(toBroker), i) + 0
      BY <1>1, <2>1, <3>1, TotalTail
    <3>3. Total(Tail(toBroker), i) \in Nat
      <4>1. PICK x \in Seq(FromClient) : x = Tail(toBroker)
        <5>1. Tail(toBroker) \in Seq(FromClient)
          BY <1>1, <2>1
        <5>2. QED
          BY <5>1, Zenon
      <4>2. QED
        BY <4>1, TotalFacts
    <3>4. QED
      BY <1>2, <2>1, <3>2, <3>3
  <2>3. Chunked(toClient', e) = u
    <3>1. PICK m : m = Push("Credit", << >>) /\ m.key = "Credit"
      BY PushFacts
    <3>2. m \in FromBroker /\ toClient' = Append(toClient, m)
      BY <2>1, <3>1 DEF Tells
    <3>3. Chunked(Append(toClient, m), e) = Chunked(toClient, e) + 0
      BY <1>1, <3>1, <3>2, ChunkedAppend
    <3>4. QED
      BY <1>2, <1>3, <3>2, <3>3
  <2>4. QED
    BY <1>2, <1>4, <2>1, <2>2, <2>3
<1>8. CASE ChunkIsSent
  <2>1. PICK h \in Id, n \in Nat : Delivers(h, n)
    BY <1>8 DEF ChunkIsSent
  <2>2. PICK m : m = Push("Deliver", <<h, subscription[h].next, n, subscription[h].stream,
                                       subscription[h].number>>)
    OBVIOUS
  <2>3. m.key = "Deliver" /\ m.arg[5] = subscription[h].number
    BY <2>2, PushFacts
  <2>4. /\ m \in FromBroker /\ toClient' = Append(toClient, m)
        /\ Subscribed(h) /\ subscription[h].credit > 0 /\ subscription[h].next + n <= LogLength
        /\ Serve(h, subscription[h].credit - 1, subscription[h].next + n)
        /\ UNCHANGED <<toBroker, chunks, grants>>
    BY <2>1, <2>2 DEF Delivers, Tells
  <2>5. subscription[h].number = e <=> h = i
    <3>1. subscription[h].number = e => h = i
      BY <1>2 DEF Types, Numbers
    <3>2. QED
      BY <1>2, <3>1
  <2>6. Chunked(toClient', e) = u + (IF h = i THEN 1 ELSE 0)
    <3>1. Chunked(Append(toClient, m), e) = Chunked(toClient, e)
            + (IF m.key = "Deliver" /\ m.arg[5] = e THEN 1 ELSE 0)
      BY <1>1, <2>4, ChunkedAppend
    <3>2. QED
      BY <1>2, <2>3, <2>4, <2>5, <3>1
  <2>7. subscription'[i].credit + (IF h = i THEN 1 ELSE 0) = c /\ subscription'[i].credit \in Nat
    <3>1. subscription[h].credit - 1 \in Nat /\ subscription[h].next + n \in Offset
      <4>1. subscription[h].credit \in Nat /\ subscription[h].next \in Nat /\ LogLength \in Nat
        BY <1>1, SubscriptionType, Constants
      <4>2. QED
        BY <2>4, <4>1 DEF Offset
    <3>2. /\ subscription'[h].credit = subscription[h].credit - 1
          /\ h # i => subscription'[i] = subscription[i]
      BY <1>1, <2>4, <3>1, ServeFacts
    <3>3. CASE h = i
      BY <1>2, <1>3, <3>1, <3>2, <3>3
    <3>4. CASE h # i
      BY <1>2, <1>3, <3>2, <3>4
    <3>5. QED
      BY <3>3, <3>4
  <2>8. PICK z \in Nat, x \in Nat : z = (IF h = i THEN 1 ELSE 0) /\ x = subscription'[i].credit
    BY <2>7
  <2>9. x + (u + z) + t + d = InitialCredit + g + w
    <3>1. x + z = c
      BY <2>7, <2>8
    <3>2. QED
      BY <1>1, <1>3, <1>4, <3>1
  <2>10. QED
    BY <1>2, <2>4, <2>6, <2>8, <2>9
<1>9. ASSUME ~CreditIsSent, ~CreditArrives, ~CreditRefused, ~ChunkIsSent
      PROVE  subscription'[i].credit + Chunked(toClient', e) + Total(toBroker', i) + chunks'[i]
               = InitialCredit + grants'[i] + DefaultCredit * chunks'[i]
  <2>1. Total(toBroker', i) = t
    BY <1>2, <1>9, TotalKept
  <2>2. Chunked(toClient', e) = u
    BY <1>2, <1>9, ChunkedKept
  <2>3. subscription'[i] = subscription[i] /\ chunks'[i] = d /\ grants'[i] = g
    <3>1. CASE IdIsOpened
      <4>1. PICK h \in Id, s \in Stream, o \in Offset : Opens(h, s, o)
        BY <3>1 DEF IdIsOpened
      <4>2. /\ subscription' = [subscription EXCEPT ![h] =
                 [stream |-> s, credit |-> InitialCredit, next |-> o, number |-> Len(made) + 1]]
            /\ chunks' = [chunks EXCEPT ![h] = 0] /\ grants' = [grants EXCEPT ![h] = 0]
            /\ ~Subscribed(h)
        BY <4>1, Zenon DEF Opens
      <4>3. h # i
        BY <4>2 DEF Subscribed
      <4>4. QED
        BY <1>1, <1>2, <4>2, <4>3
    <3>2. CASE IdIsClosed
      <4>1. PICK h \in Id : Closes(h)
        BY <3>2 DEF IdIsClosed
      <4>2. /\ subscription' = [subscription EXCEPT ![h] = NoSubscription]
            /\ UNCHANGED <<chunks, grants>>
        BY <4>1, Zenon DEF Closes
      <4>3. h # i
        <5>1. subscription[i].number # 0
          BY SubscribedNumber
        <5>2. CASE h = i
          <6>1. subscription'[i] = NoSubscription
            BY <1>1, <4>2, <5>2
          <6>2. NoSubscription.number = 0
            BY DEF NoSubscription
          <6>3. QED
            BY <5>1, <6>1, <6>2
        <5>3. QED
          BY <5>2
      <4>4. QED
        BY <1>1, <1>2, <4>2, <4>3
    <3>3. CASE ~IdIsOpened /\ ~IdIsClosed
      BY <1>2, <1>9, <3>3, Changing
    <3>4. QED
      BY <3>1, <3>2, <3>3
  <2>4. QED
    BY <1>2, <1>4, <2>1, <2>2, <2>3
<1>10. QED
  BY <1>5, <1>6, <1>7, <1>8, <1>9

LEMMA BalanceStep ==
  ASSUME Types, Types', Ordered, Current, CreditBalance, Steps
  PROVE  CreditBalance'
<1> DEFINE Kept(i) ==
      Balance(subscription'[i].credit, toClient', subscription'[i].number, toBroker', i,
              chunks'[i], grants'[i])
<1>1. ASSUME NEW i \in Id, link' = "up", Subscribed(i)', doubt'[i] = "none"
      PROVE  Kept(i)
  <2>1. link = "up" /\ doubt[i] = "none"
    BY <1>1, LinkStep, DoubtStep
  <2>2. IF subscription[i].number # 0 THEN Fresh(i, toClient, subscription[i].number)
        ELSE Settled(i, toClient, call) /\ Clear(i, toBroker)
    BY <2>1 DEF Current
  <2>3. ASSUME NEW s \in Stream, NEW o \in Offset, Opens(i, s, o)
        PROVE  Kept(i)
    <3>1. ~Subscribed(i)
      BY <2>3, Zenon DEF Opens
    <3>2. Settled(i, toClient, call) /\ Clear(i, toBroker)
      BY <2>2, <3>1, SubscribedNumber
    <3>3. QED
      BY <2>3, <3>2, BalanceOpens
  <2>4. CASE Closes(i)
    <3>1. subscription' = [subscription EXCEPT ![i] = NoSubscription]
      BY <2>4, Zenon DEF Closes
    <3>2. subscription'[i] = NoSubscription
      BY <3>1, BalanceTypes
    <3>3. QED
      BY <1>1, <3>2 DEF Subscribed
  <2>5. CASE subscription'[i].number = subscription[i].number
    <3>1. subscription[i].number # 0
      <4>1. subscription'[i] # NoSubscription
        BY <1>1 DEF Subscribed
      <4>2. subscription'[i].number \in 1..Len(made')
        BY <1>1 DEF Types, Numbers
      <4>3. QED
        BY <2>5, <4>2
    <3>2. Subscribed(i) /\ Fresh(i, toClient, subscription[i].number)
      BY <2>2, <3>1, SubscribedNumber
    <3>3. Balance(subscription[i].credit, toClient, subscription[i].number, toBroker, i,
                  chunks[i], grants[i])
      BY <2>1, <3>2, BalanceIs DEF CreditBalance
    <3>4. QED
      BY <1>1, <2>1, <2>5, <3>2, <3>3, BalanceHandled, BalanceQuiet
  <2>6. QED
    BY <2>3, <2>4, <2>5, NumberStep
<1> HIDE DEF Kept
<1>2. ASSUME NEW i \in Id, link' = "up", Subscribed(i)', doubt'[i] = "none"
      PROVE  subscription'[i].credit + Underway(i)' + Total(toBroker', i) + chunks'[i]
               = InitialCredit + grants'[i] + DefaultCredit * chunks'[i]
  BY <1>1, <1>2, BalanceIsNext DEF Kept
<1>3. QED
  BY <1>2 DEF CreditBalance

LEMMA InitCredit == Init => Current /\ CreditBalance
<1> SUFFICES ASSUME Init PROVE Current /\ CreditBalance
  OBVIOUS
<1>1. /\ toBroker = << >> /\ toClient = << >> /\ subscription = [i \in Id |-> NoSubscription]
  BY Zenon DEF Init, ConnectionInit
<1>2. \A i \in Id : subscription[i] = NoSubscription /\ NoSubscription.number = 0
  BY <1>1 DEF NoSubscription
<1>3. Current
  BY <1>1, <1>2 DEF Current, Settled, Clear
<1>4. CreditBalance
  BY <1>2 DEF CreditBalance, Subscribed
<1>5. QED
  BY <1>3, <1>4

-----------------------------------------------------------------------------

\* For every subscription whose requests all got their answers, what the broker may
\* still send, what is on its way and what comes back add up to what was given.
THEOREM CreditHolds == Spec => []CreditBalance
<1> DEFINE I == Types /\ Ordered /\ Pending /\ Current /\ CreditBalance
<1>1. Init => I
  BY InitTypes, InitOffsets, InitNames, InitCredit
<1>2. I /\ [Next]_vars => I'
  <2>1. SUFFICES ASSUME I, [Next]_vars PROVE I'
    OBVIOUS
  <2>2. Steps
    BY <2>1, Shapes
  <2>3. Types'
    BY <2>1, <2>2, TypesStep
  <2>4. QED
    BY <2>1, <2>2, <2>3, OrderedStep, PendingStep, CurrentStep, BalanceStep
<1>3. QED
  BY <1>1, <1>2, PTL DEF Spec
=============================================================================
