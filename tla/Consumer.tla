------------------------------ MODULE Consumer ------------------------------
(***************************************************************************)
(* rmqsConsumer.c: subscriptions, the chunks the broker delivers as long   *)
(* as it has credit, the messages handed to the callback of the            *)
(* application, and the offsets stored for them.                           *)
(*                                                                         *)
(* One thread of the application makes the requests and polls.  A chunk is *)
(* handled in rmqsConsumerPoll or while a request waits for its response.  *)
(***************************************************************************)
EXTENDS Requests, Sums

CONSTANTS
    Id,             \* the subscription ids the application uses
    Stream,
    LogLength,      \* the messages in each stream: offsets 0 .. LogLength - 1
    FirstOffset,    \* the offsets the application subscribes from
    ChunkEntries,   \* the numbers of messages a chunk may hold
    InitialCredit,  \* the credit of rmqsSubscribe
    DefaultCredit,  \* of rmqsConsumer_t
    MaxGrants       \* bound on the calls of rmqsCredit by the application

ASSUME ConsumerAssumption ==
    /\ Id \subseteq 1..255      \* SubscriptionStreamTable[SubscriptionId - 1]
    /\ "" \notin Stream
    /\ LogLength \in Nat /\ FirstOffset \subseteq 0..LogLength
    /\ ChunkEntries \subseteq Nat \ {0}
    /\ InitialCredit \in Nat /\ DefaultCredit \in Nat /\ MaxGrants \in Nat
    /\ IsLittleEndianMachine    \* on another machine no client logs in (SessionProofs)

VARIABLES
    \* the client
    SubscriptionStreamTable,
    passed,         \* history: the offsets the callback got, for each subscription made
    doubt,          \* history: "now": a call for this id ended without its answer
                    \* (it ran out of time, or took a short frame for it), and none
                    \* after it got a good response; "past": one did; "none"
    stores,         \* history: the last offset sent to be stored, per stream; LogLength: none
    misnamed,       \* history: an offset went to a stream it does not belong to
    asked,          \* history: what stores was when rmqsQueryOffset was called
    queried,        \* the result of the last rmqsQueryOffset
    \* the broker
    subscription,   \* of each id: its stream ("" when there is none), credit, next offset
    made,           \* the subscriptions made: the offset each began with
    offsets,        \* the stored offset of each stream, LogLength when there is none
    \* history
    chunks,         \* the chunks of the subscription that were handled, per id
    grants          \* the credit rmqsCredit gave the subscription, per id

client == <<SubscriptionStreamTable, passed, doubt, stores, misnamed, asked, queried>>
broker == <<subscription, made, offsets>>
vars == <<connection, client, broker, chunks, grants>>

NoSubscription == [stream |-> "", credit |-> 0, next |-> 0, number |-> 0]

Init ==
    /\ ConnectionInit
    /\ SubscriptionStreamTable = [i \in Id |-> ""]
    /\ passed = << >> /\ doubt = [i \in Id |-> "none"]
    /\ stores = [s \in Stream |-> LogLength] /\ misnamed = FALSE /\ asked = LogLength
    /\ queried = [ValidOffset |-> FALSE, Offset |-> 0, answered |-> FALSE]
    /\ subscription = [i \in Id |-> NoSubscription]
    /\ made = << >> /\ offsets = [s \in Stream |-> LogLength]
    /\ chunks = [i \in Id |-> 0] /\ grants = [i \in Id |-> 0]

-----------------------------------------------------------------------------
(* Subscriptions.                                                          *)

SubscribeEarly(i, s, o) ==     \* mutant: the table is set before the response
    /\ Request("Subscribe", <<i, s, o>>)
    /\ SubscriptionStreamTable' = [SubscriptionStreamTable EXCEPT ![i] = s]
    /\ UNCHANGED <<passed, doubt, stores, misnamed, asked, queried, broker, chunks, grants>>

Subscribe(i, s, o) ==
    /\ Request("Subscribe", <<i, s, o>>)
    /\ UNCHANGED <<client, broker, chunks, grants>>

Unsubscribe(i) ==
    /\ Request("Unsubscribe", <<i>>)
    /\ UNCHANGED <<client, broker, chunks, grants>>

\* A frame that only passes for the response leaves the client in doubt; after a
\* good response client and broker agree again.
Resolved(i) ==
    [doubt EXCEPT ![i] =
        IF ~Matches(Head(toClient)) THEN "now"
        ELSE IF @ = "now" /\ Good(Head(toClient)) THEN "past" ELSE @]

\* The table changes when the response is good, and only then.
SubscribeResponse ==
    /\ call.key = "Subscribe" /\ Response
    /\ LET i == call.arg[1] IN
         /\ SubscriptionStreamTable' =
              IF Good(Head(toClient))
              THEN [SubscriptionStreamTable EXCEPT ![i] = call.arg[2]]
              ELSE SubscriptionStreamTable
         /\ doubt' = Resolved(i)
    /\ UNCHANGED <<toBroker, link, CorrelationId, passed, stores, misnamed, asked, queried,
                   broker, chunks, grants>>

UnsubscribeResponse ==
    /\ call.key = "Unsubscribe" /\ Response
    /\ LET i == call.arg[1] IN
         /\ SubscriptionStreamTable' =
              IF Good(Head(toClient))
              THEN [SubscriptionStreamTable EXCEPT ![i] = ""]
              ELSE SubscriptionStreamTable
         /\ doubt' = Resolved(i)
    /\ UNCHANGED <<toBroker, link, CorrelationId, passed, stores, misnamed, asked, queried,
                   broker, chunks, grants>>

SubscriptionGiveUp ==
    /\ call.key \in {"Subscribe", "Unsubscribe"} /\ GiveUp
    /\ doubt' = [doubt EXCEPT ![call.arg[1]] = "now"]
    /\ UNCHANGED <<SubscriptionStreamTable, passed, stores, misnamed, asked, queried,
                   broker, chunks, grants>>

\* rmqsCredit, called by the application (in the model only when nothing else is on
\* its way).
Credit(i) ==
    /\ call = NoCall /\ toBroker = << >> /\ grants[i] < MaxGrants
    /\ toBroker' = Sent(<<Push("Credit", <<i, 1>>)>>)
    /\ grants' = IF link = "up" THEN [grants EXCEPT ![i] = @ + 1] ELSE grants
    /\ UNCHANGED <<toClient, link, CorrelationId, call, client, broker, chunks>>

-----------------------------------------------------------------------------
(* Offsets.                                                                *)

QueryOffset(s) ==
    /\ Request("QueryOffset", <<s>>)
    /\ asked' = stores[s]
    /\ queried' = [ValidOffset |-> FALSE, Offset |-> 0, answered |-> FALSE]
    /\ UNCHANGED <<SubscriptionStreamTable, passed, doubt, stores, misnamed,
                   broker, chunks, grants>>

QueryOffsetResponse ==
    /\ call.key = "QueryOffset" /\ Response
    /\ LET m == Head(toClient) IN
         queried' = IF Good(m)
                    THEN [ValidOffset |-> TRUE, Offset |-> m.arg[1], answered |-> TRUE]
                    ELSE [ValidOffset |-> FALSE, Offset |-> 0,
                          answered |-> m.key = call.key /\ m.code = "NoOffset"]
    /\ UNCHANGED <<toBroker, link, CorrelationId, SubscriptionStreamTable, passed, doubt,
                   stores, misnamed, asked, broker, chunks, grants>>

QueryOffsetGiveUp ==
    /\ call.key = "QueryOffset" /\ GiveUp
    /\ UNCHANGED <<client, broker, chunks, grants>>

\* rmqsStoreOffset, called by the application with a stream of its own choice (in
\* the model only when nothing else is on its way).
StoreOffset(s, o) ==
    /\ call = NoCall /\ toBroker = << >>
    /\ toBroker' = Sent(<<Push("StoreOffset", <<s, o>>)>>)
    /\ stores' = IF link = "up" THEN [stores EXCEPT ![s] = o] ELSE stores
    /\ UNCHANGED <<toClient, link, CorrelationId, call, SubscriptionStreamTable, passed,
                   doubt, misnamed, asked, queried, broker, chunks, grants>>

-----------------------------------------------------------------------------
(* rmqsHandleDeliver.  The frame is <<id, first offset, number of messages,  *)
(* stream, number of the subscription>>; the last two are history, for the  *)
(* client does not get them.                                                *)

\* The offsets given to the callback: the first is that of the chunk.
OffsetsFromOne(first, n) == [k \in 1..n |-> first + k]                 \* mutant

Offsets(first, n) == [k \in 1..n |-> first + k - 1]

\* The credit that goes back for a chunk of n messages.
CreditPerMessage(i, n) == <<Push("Credit", <<i, DefaultCredit * n>>)>> \* mutants
NoCredit(i, n) == << >>

CreditBack(i, n) == <<Push("Credit", <<i, DefaultCredit>>)>>

\* At most one StoreOffset for a chunk is chosen by the callback here, for message k
\* (0: none); each is a frame of its own.
HandleDeliver(k) ==
    /\ Arrived /\ Head(toClient).key = "Deliver"
    /\ LET arg == Head(toClient).arg
           i == arg[1]
           name == SubscriptionStreamTable[i]
           o == Offsets(arg[2], arg[3])
       IN  /\ k \in 0..arg[3]
           /\ passed' = [passed EXCEPT ![arg[5]] = @ \o o]
           /\ toBroker' = Sent(
                (IF k = 0 THEN << >> ELSE <<Push("StoreOffset", <<name, o[k]>>)>>)
                  \o CreditBack(i, arg[3]))
           /\ stores' = IF k # 0 /\ name # "" /\ link = "up"
                        THEN [stores EXCEPT ![name] = o[k]] ELSE stores
           /\ misnamed' = (misnamed \/ (k # 0 /\ name # arg[4] /\ doubt[i] # "now"))
           /\ chunks' = IF subscription[i].number = arg[5]
                        THEN [chunks EXCEPT ![i] = @ + 1] ELSE chunks
    /\ Take
    /\ UNCHANGED <<link, CorrelationId, call, SubscriptionStreamTable, doubt, asked,
                   queried, broker, grants>>

SkipFrame == Skip /\ UNCHANGED <<client, broker, chunks, grants>>

\* rmqsConsumerPoll drops what is not a push message.
PollDrops ==
    /\ call = NoCall /\ Arrived /\ ~IsPush(Head(toClient))
    /\ Take
    /\ UNCHANGED <<toBroker, link, CorrelationId, call, client, broker, chunks, grants>>

Poll == PollDrops \/ SkipFrame \/ \E k \in 0..LogLength : HandleDeliver(k)

Responses == SubscribeResponse \/ UnsubscribeResponse \/ QueryOffsetResponse

-----------------------------------------------------------------------------
(* The broker.                                                             *)

Subscribed(i) == subscription[i] # NoSubscription

\* The subscription of id i with this credit and its next chunk from here.
Serve(i, credit, next) ==
    subscription' = [subscription EXCEPT ![i] =
        [stream |-> @.stream, credit |-> credit, next |-> next, number |-> @.number]]

BrokerSubscribes ==
    /\ BrokerSees("Subscribe")
    /\ LET m == Head(toBroker)
           i == m.arg[1]
       IN  IF Subscribed(i)
           THEN /\ BrokerSends(<<Reply(m, "SubscriptionIDAlreadyExists", << >>)>>)
                /\ UNCHANGED <<subscription, made, passed, chunks, grants>>
           ELSE /\ BrokerSends(<<Reply(m, "OK", << >>)>>)
                /\ subscription' = [subscription EXCEPT ![i] =
                     [stream |-> m.arg[2], credit |-> InitialCredit, next |-> m.arg[3],
                      number |-> Len(made) + 1]]
                /\ made' = Append(made, m.arg[3])
                /\ passed' = Append(passed, << >>)
                /\ chunks' = [chunks EXCEPT ![i] = 0] /\ grants' = [grants EXCEPT ![i] = 0]
    /\ BrokerTakes
    /\ UNCHANGED <<SubscriptionStreamTable, doubt, stores, misnamed, asked, queried, offsets>>

BrokerUnsubscribes ==
    /\ BrokerSees("Unsubscribe")
    /\ LET m == Head(toBroker)
           i == m.arg[1]
       IN  /\ BrokerSends(<<Reply(m, IF Subscribed(i) THEN "OK"
                                     ELSE "SubscriptionIDDoesNotExist", << >>)>>)
           /\ subscription' = [subscription EXCEPT ![i] = NoSubscription]
    /\ BrokerTakes
    /\ UNCHANGED <<client, made, offsets, chunks, grants>>

\* Credit has an answer only when there is no such subscription.
BrokerCredits ==
    /\ BrokerSees("Credit")
    /\ LET i == Head(toBroker).arg[1] IN
         IF Subscribed(i)
         THEN /\ Serve(i, subscription[i].credit + Head(toBroker).arg[2], subscription[i].next)
              /\ UNCHANGED toClient
         ELSE /\ BrokerSends(<<Push("Credit", << >>)>>)
              /\ UNCHANGED subscription
    /\ BrokerTakes
    /\ UNCHANGED <<client, made, offsets, chunks, grants>>

BrokerStores ==
    /\ BrokerSees("StoreOffset")
    /\ LET arg == Head(toBroker).arg IN
         offsets' = IF arg[1] = "" THEN offsets ELSE [offsets EXCEPT ![arg[1]] = arg[2]]
    /\ BrokerTakes
    /\ UNCHANGED <<toClient, client, subscription, made, chunks, grants>>

BrokerAnswersQuery ==
    /\ BrokerSees("QueryOffset")
    /\ LET m == Head(toBroker)
           o == offsets[m.arg[1]]
       IN  BrokerSends(<<IF o = LogLength THEN Reply(m, "NoOffset", <<0>>)
                         ELSE Reply(m, "OK", <<o>>)>>)
    /\ BrokerTakes
    /\ UNCHANGED <<client, broker, chunks, grants>>

\* A chunk costs one credit.
Deliver(i, n) ==
    /\ link = "up" /\ Subscribed(i)
    /\ subscription[i].credit > 0
    /\ subscription[i].next + n <= LogLength
    /\ BrokerSends(<<Push("Deliver", <<i, subscription[i].next, n, subscription[i].stream,
                                       subscription[i].number>>)>>)
    /\ Serve(i, subscription[i].credit - 1, subscription[i].next + n)
    /\ UNCHANGED <<toBroker, link, CorrelationId, call, client, made, offsets, chunks, grants>>

Heartbeat == BrokerHeartbeat /\ UNCHANGED <<client, broker, chunks, grants>>

BrokerAnswers ==
    \/ BrokerSubscribes \/ BrokerUnsubscribes \/ BrokerCredits \/ BrokerStores
    \/ BrokerAnswersQuery

Application ==
    \/ \E i \in Id, s \in Stream, o \in FirstOffset : Subscribe(i, s, o)
    \/ \E i \in Id : Unsubscribe(i) \/ Credit(i)
    \/ \E s \in Stream : QueryOffset(s) \/ StoreOffset(s, 0)

Next ==
    \/ Application
    \/ SubscriptionGiveUp \/ QueryOffsetGiveUp
    \/ Responses \/ Poll
    \/ BrokerAnswers
    \/ \E i \in Id, n \in ChunkEntries : Deliver(i, n)
    \/ Heartbeat
    \/ Lose /\ UNCHANGED <<client, broker, chunks, grants>>

Spec == Init /\ [][Next]_vars

\* The application polls as long as it is subscribed, and the broker serves it.
FairSpec ==
    /\ Spec
    /\ WF_vars(Responses \/ Poll) /\ WF_vars(BrokerAnswers)
    /\ \A i \in Id : WF_vars(\E n \in ChunkEntries : Deliver(i, n))
-----------------------------------------------------------------------------
(* Properties.                                                             *)

TypeOK ==
    /\ link \in {"up", "down"} /\ CorrelationId \in 0..MaxRequests
    /\ SubscriptionStreamTable \in [Id -> Stream \cup {""}]
    /\ passed \in Seq(Seq(0..(LogLength - 1))) /\ Len(passed) = Len(made)
    /\ doubt \in [Id -> {"none", "now", "past"}]
    /\ stores \in [Stream -> 0..LogLength] /\ asked \in 0..LogLength
    /\ queried \in [ValidOffset : BOOLEAN, Offset : 0..LogLength, answered : BOOLEAN]
    /\ misnamed \in BOOLEAN
    /\ subscription \in [Id -> [stream : Stream \cup {""}, credit : Nat,
                                next : 0..LogLength, number : Nat]]
    /\ offsets \in [Stream -> 0..LogLength]

\* The callback gets the messages of a subscription in order, each once and none
\* left out, however they are cut into chunks and although chunks arrive while
\* requests wait and run out of time.
MessagesInOrder ==
    \A e \in DOMAIN passed : \A k \in DOMAIN passed[e] : passed[e][k] = made[e] + k - 1

\* The credit for id i on its way to the broker.
Total(messages, i) ==
    Sum([k \in DOMAIN messages |->
            IF messages[k].key = "Credit" /\ messages[k].arg[1] = i
            THEN messages[k].arg[2] ELSE 0])

\* The chunks of the current subscription of id i on their way to the client.
Underway(i) ==
    Sum([k \in DOMAIN toClient |->
            IF toClient[k].key = "Deliver" /\ toClient[k].arg[5] = subscription[i].number
            THEN 1 ELSE 0])

\* No credit is lost and none appears: what the broker may still send, what it has
\* sent and what comes back is the credit of the subscription, plus DefaultCredit - 1
\* for every chunk (nothing when DefaultCredit is 1), plus what the application gave.
\* A request for this id that ended without its answer may let an old chunk add to it.
CreditBalance ==
    \A i \in Id :
        link = "up" /\ Subscribed(i) /\ doubt[i] = "none" =>
            subscription[i].credit + Underway(i) + Total(toBroker, i) + chunks[i]
                = InitialCredit + grants[i] + DefaultCredit * chunks[i]

\* An offset is stored under the stream the message came from, also while a request
\* to change the subscription waits; after one that ended without its answer (it ran
\* out of time, or a heartbeat passed for the answer) only once another has got a good
\* response.
StoredUnderItsStream == ~misnamed

\* rmqsQueryOffset returns the last offset the client had stored when it asked,
\* although chunks are handled and more offsets stored while it waits.
ReadsItsStores ==
    queried.answered =>
        IF asked = LogLength THEN ~queried.ValidOffset
        ELSE queried.ValidOffset /\ queried.Offset = asked

\* With the credit coming back the broker delivers the whole stream, unless the
\* subscription ends.
AllDelivered ==
    \A i \in Id : Subscribed(i) ~>
        \/ link = "down" \/ ~Subscribed(i)
        \/ Len(passed[subscription[i].number]) + made[subscription[i].number] >= LogLength
=============================================================================
