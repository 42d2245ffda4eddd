----------------------------- MODULE Publisher -----------------------------
(***************************************************************************)
(* rmqsPublisher.c: publishers, the messages published in batches, and the *)
(* results the broker sends for them, collected in PublishResultArray and  *)
(* handed to the callback of the application.                              *)
(*                                                                         *)
(* Two threads use the client, in the way of rawClientTest.c: one thread   *)
(* publishes while the other polls, and makes its requests only before it  *)
(* has started the other and after rmqsThreadStop.                         *)
(***************************************************************************)
EXTENDS Requests, Thread, Sums

CONSTANTS
    ArraySize,      \* RMQS_PUBLISH_RESULT_ARRAY_SIZE
    BatchSize,      \* the numbers of messages of a call of rmqsPublish
    MaxMessages     \* bound on the messages published

ASSUME PublisherAssumption ==
    /\ ArraySize \in Nat \ {0} /\ BatchSize \subseteq Nat \ {0}
    /\ MaxMessages \in Nat

VARIABLES
    \* the client
    handling,           \* rmqsHandlePublishResult: its frame, or Idle
    PublishResultArray, \* of rmqsPublisher_t
    published,          \* the last publishing id used
    sent,               \* history: the last one sent on a live connection
    reported,           \* history: the results the callback got
    asked,              \* history: what published was when the sequence was asked for
    queried,            \* the result of the last rmqsQueryPublisherSequence
    \* the broker
    declared,           \* the publisher is declared
    stored,             \* the ids of the messages stored
    pending,            \* the results not sent yet
    decided             \* history: all the results, in order

handler == <<handling, PublishResultArray, reported>>
client == <<threadVars, handler, published, sent, asked, queried>>
broker == <<declared, stored, pending, decided>>
vars == <<connection, client, broker>>

\* Codes of rmqsResponseCode_t in a result: 0 for a confirmed message.
PublisherDoesNotExist == 18

Result(id, code) == [PublishingId |-> id, Code |-> code]

Idle == [key |-> "none", records |-> << >>, i |-> 0, PublishIdCount |-> 0]

NotQueried == [Sequence |-> 0, answered |-> FALSE]

Init ==
    /\ ConnectionInit
    /\ ThreadInit /\ handling = Idle
    /\ PublishResultArray = [k \in 0..(ArraySize - 1) |-> Result(0, 0)]
    /\ published = 0 /\ sent = 0 /\ reported = << >>
    /\ asked = 0 /\ queried = NotQueried
    /\ declared = FALSE /\ stored = {} /\ pending = << >> /\ decided = << >>

-----------------------------------------------------------------------------
(* The thread that publishes.                                              *)

\* rmqsThreadCreate, rmqsThreadStart, rmqsThreadStop and rmqsThreadDestroy.
PollThread ==
    /\ call = NoCall
    /\ ThreadCreate \/ ThreadStart \/ ThreadStop \/ ThreadStopReturns \/ ThreadDestroy
    /\ UNCHANGED <<connection, handler, published, sent, asked, queried, broker>>

\* One of the application's requests, when it takes the poll thread for stopped; the
\* first of them is to declare the publisher.
PublisherRequest(key, arg) ==
    /\ ~Started /\ (key = "DeclarePublisher" \/ CorrelationId > 0)
    /\ Request(key, arg)

DeclarePublisher ==
    PublisherRequest("DeclarePublisher", << >>) /\ UNCHANGED <<client, broker>>

DeletePublisher ==
    PublisherRequest("DeletePublisher", << >>) /\ UNCHANGED <<client, broker>>

QueryPublisherSequence ==
    /\ PublisherRequest("QueryPublisherSequence", << >>)
    /\ asked' = published /\ queried' = NotQueried
    /\ UNCHANGED <<threadVars, handler, published, sent, broker>>

\* rmqsPublish of a batch of n messages with the next publishing ids: one frame,
\* and no answer is waited for.
Publish(n) ==
    /\ call = NoCall /\ ~stopping /\ published + n <= MaxMessages
    /\ toBroker' = Sent(<<Push("Publish", [k \in 1..n |-> published + k])>>)
    /\ published' = published + n
    /\ sent' = IF link = "up" THEN published + n ELSE sent
    /\ UNCHANGED <<toClient, link, CorrelationId, call, threadVars, handler, asked,
                   queried, broker>>

Waits == call # NoCall /\ handling = Idle

PublisherResponse ==
    /\ Waits /\ call.key \in {"DeclarePublisher", "DeletePublisher"} /\ Response
    /\ UNCHANGED <<toBroker, link, CorrelationId, client, broker>>

QueryResponse ==
    /\ Waits /\ call.key = "QueryPublisherSequence" /\ Response
    /\ queried' = IF Good(Head(toClient))
                  THEN [Sequence |-> Head(toClient).arg[1], answered |-> TRUE]
                  ELSE queried
    /\ UNCHANGED <<toBroker, link, CorrelationId, threadVars, handler, published, sent,
                   asked, broker>>

RequestGiveUp == Waits /\ GiveUp /\ UNCHANGED <<client, broker>>

SkipFrame == Waits /\ Skip /\ UNCHANGED <<client, broker>>

-----------------------------------------------------------------------------
(* rmqsHandlePublishResult, on the thread that reads from the connection.  *)

Reads == (routine = "poll" \/ call # NoCall) /\ handling = Idle /\ Arrived

ResultKeys == {"PublishConfirm", "PublishError"}

HandlePublishResult ==
    /\ Reads /\ Head(toClient).key \in ResultKeys
    /\ handling' = [key |-> Head(toClient).key, records |-> Head(toClient).arg,
                    i |-> 0, PublishIdCount |-> 0]
    /\ Take
    /\ UNCHANGED <<toBroker, link, CorrelationId, call, threadVars, PublishResultArray,
                   published, sent, reported, asked, queried, broker>>

CodeStays(old, record) ==                                              \* mutant
    Result(record.PublishingId, IF handling.key = "PublishError" THEN record.Code ELSE old.Code)

\* The entry of the array for a record; only PublishError has a code.
Entry(old, record) ==
    Result(record.PublishingId, IF handling.key = "PublishError" THEN record.Code ELSE 0)

FlushWhenFull(count, i) == count = ArraySize                           \* mutants
FlushAtTheEnd(count, i) == i = Len(handling.records) - 1

\* The callback is called when the array is full and after the last record.
Flush(count, i) == count = ArraySize \/ i = Len(handling.records) - 1

\* One record: the loop.
PublishResult ==
    /\ handling # Idle
    /\ LET count == handling.PublishIdCount + 1
           last == handling.i = Len(handling.records) - 1
       IN  /\ PublishResultArray' =
                [PublishResultArray EXCEPT ![handling.PublishIdCount] =
                   Entry(@, handling.records[handling.i + 1])]
           /\ reported' =
                IF Flush(count, handling.i)
                THEN reported \o [k \in 1..count |->
                       [result |-> PublishResultArray'[k - 1],
                        Confirmed |-> handling.key = "PublishConfirm"]]
                ELSE reported
           /\ handling' =
                IF last THEN Idle
                ELSE [key |-> handling.key, records |-> handling.records,
                      i |-> handling.i + 1,
                      PublishIdCount |-> IF Flush(count, handling.i) THEN 0 ELSE count]
    /\ UNCHANGED <<connection, threadVars, published, sent, asked, queried, broker>>

\* rmqsPublisherPoll drops a frame that rmqsWaitMessage does not handle itself, and
\* returns if its time is up.
PollDrops ==
    /\ routine = "poll" /\ handling = Idle /\ Arrived /\ ~IsPush(Head(toClient))
    /\ routine' \in {"poll", "top"}
    /\ Take
    /\ UNCHANGED <<toBroker, link, CorrelationId, call, thread, stopping, handler, published,
                   sent, asked, queried, broker>>

Poll == HandlePublishResult \/ PublishResult \/ PollDrops

\* rmqsPublisherPoll returns when nothing has come, or the connection has failed.
PollReturns ==
    /\ routine = "poll" /\ handling = Idle /\ ~Arrived
    /\ routine' = "top"
    /\ UNCHANGED <<thread, stopping>>

\* PollThreadRoutineCallback: Terminate is looked at between two calls.
RoutineTop ==
    /\ routine = "top"
    /\ routine' = IF thread.TerminateRequest THEN "left" ELSE "poll"
    /\ UNCHANGED <<thread, stopping>>

Routine ==
    /\ PollReturns \/ RoutineTop \/ RoutineEnds
    /\ UNCHANGED <<connection, handler, published, sent, asked, queried, broker>>

-----------------------------------------------------------------------------
(* The broker.                                                             *)

\* A publisher may be refused (its stream does not exist).
BrokerDeclares ==
    /\ BrokerSees("DeclarePublisher")
    /\ \E code \in {"OK", "StreamDoesNotExist"} :
         /\ ~declared \/ code # "OK"
         /\ BrokerSends(<<Reply(Head(toBroker), code, << >>)>>)
         /\ declared' = (declared \/ code = "OK")
    /\ BrokerTakes
    /\ UNCHANGED <<client, stored, pending, decided>>

BrokerDeletes ==
    /\ BrokerSees("DeletePublisher")
    /\ BrokerSends(<<Reply(Head(toBroker), IF declared THEN "OK"
                                           ELSE "PublisherDoesNotExist", << >>)>>)
    /\ declared' = FALSE
    /\ BrokerTakes
    /\ UNCHANGED <<client, stored, pending, decided>>

BrokerAnswersQuery ==
    /\ BrokerSees("QueryPublisherSequence")
    /\ BrokerSends(<<Reply(Head(toBroker), "OK", <<Max(stored \cup {0})>>)>>)
    /\ BrokerTakes
    /\ UNCHANGED <<client, broker>>

\* The messages of a declared publisher are stored, the others refused.
BrokerStores ==
    /\ BrokerSees("Publish")
    /\ LET ids == Head(toBroker).arg
           results == [k \in DOMAIN ids |->
             [result |-> Result(ids[k], IF declared THEN 0 ELSE PublisherDoesNotExist),
              Confirmed |-> declared]]
       IN  /\ stored' = IF declared THEN stored \cup ToSet(ids) ELSE stored
           /\ pending' = pending \o results
           /\ decided' = decided \o results
    /\ BrokerTakes
    /\ UNCHANGED <<toClient, client, declared>>

\* One frame tells of the next n messages with the same result.
BrokerReports(n) ==
    /\ link = "up" /\ n \in 1..Len(pending)
    /\ \A k \in 1..n : pending[k].Confirmed = pending[1].Confirmed
    /\ BrokerSends(<<Push(IF pending[1].Confirmed THEN "PublishConfirm" ELSE "PublishError",
                          [k \in 1..n |-> pending[k].result])>>)
    /\ pending' = SubSeq(pending, n + 1, Len(pending))
    /\ UNCHANGED <<toBroker, link, CorrelationId, call, client, declared, stored, decided>>

Heartbeat == BrokerHeartbeat /\ UNCHANGED <<client, broker>>

BrokerAnswers == BrokerDeclares \/ BrokerDeletes \/ BrokerAnswersQuery \/ BrokerStores

Application ==
    \/ PollThread
    \/ DeclarePublisher \/ DeletePublisher \/ QueryPublisherSequence
    \/ \E n \in BatchSize : Publish(n)

Next ==
    \/ Application
    \/ PublisherResponse \/ QueryResponse \/ RequestGiveUp \/ SkipFrame
    \/ Poll \/ Routine
    \/ BrokerAnswers
    \/ \E n \in 1..MaxMessages : BrokerReports(n)
    \/ Heartbeat
    \/ Lose /\ UNCHANGED <<client, broker>>

Spec == Init /\ [][Next]_vars

ReturnsFromStop == PollThread /\ ThreadStopReturns

\* Both threads run, and the broker serves the connection.
FairSpec ==
    /\ Spec
    /\ WF_vars(Poll) /\ WF_vars(Routine) /\ WF_vars(ReturnsFromStop)
    /\ WF_vars(BrokerAnswers)
    /\ WF_vars(\E n \in 1..MaxMessages : BrokerReports(n))
-----------------------------------------------------------------------------
(* Properties.                                                             *)

Results == [PublishingId : 0..MaxMessages, Code : {0, PublisherDoesNotExist}]
Told == [result : Results, Confirmed : BOOLEAN]

\* PublishIdCount stays within PublishResultArray at every step of the loop.
TypeOK ==
    /\ link \in {"up", "down"} /\ CorrelationId \in 0..MaxRequests
    /\ thread \in [exists : BOOLEAN, ThreadHandle : BOOLEAN, TerminateRequest : BOOLEAN,
                   Terminated : BOOLEAN]
    /\ routine \in {"none", "top", "poll", "left"} /\ {stopping, declared} \subseteq BOOLEAN
    /\ handling.key \in ResultKeys \cup {"none"} /\ handling.records \in Seq(Results)
    /\ handling.i \in Nat /\ handling.PublishIdCount \in DOMAIN PublishResultArray
    /\ PublishResultArray \in [0..(ArraySize - 1) -> Results]
    /\ published \in 0..MaxMessages /\ sent \in 0..published /\ asked \in 0..published
    /\ queried \in [Sequence : 0..MaxMessages, answered : BOOLEAN]
    /\ stored \subseteq 1..MaxMessages
    /\ {reported, pending, decided} \subseteq Seq(Told)

\* The callback gets the results of the broker, all of them, in order and once, each
\* with its own code and as confirmed or not, however the frames and the array cut
\* them: an entry left in the array by another frame is never passed on.
ReportedAsDecided == IsPrefix(reported, decided)

\* The number of results on their way to the client.
Underway ==
    Sum([k \in DOMAIN toClient |->
            IF toClient[k].key \in ResultKeys THEN Len(toClient[k].arg) ELSE 0])

\* When no frame is being handled the array holds nothing back: the broker's results
\* are with the callback, on the connection or still to be sent.
NothingHeldBack ==
    handling = Idle /\ link = "up" =>
        Len(reported) + Underway + Len(pending) = Len(decided)

\* rmqsQueryPublisherSequence returns the last of the messages stored among those
\* published before the call, although results arrive while it waits and an earlier
\* query may have run out of time.
SequenceIsStored ==
    queried.answered =>
        queried.Sequence = Max({0} \cup {id \in stored : id <= asked})

Reported(id) == \E k \in DOMAIN reported : reported[k].result.PublishingId = id

\* While the poll thread runs every message sent gets its result in the end, confirmed
\* or not, unless the connection breaks.  (The messages have an end, MaxMessages.)
AllReported == []<>(link = "down" \/ ~Started \/ \A id \in 1..sent : Reported(id))

\* The client has one RxQueue and no lock: a request of the application never waits
\* for its response while the poll thread is inside rmqsPublisherPoll.
OneReader == ~(call # NoCall /\ routine = "poll")

\* rmqsThreadStop returns, whatever the poll thread was doing when it was called.
StopReturns == []<>~stopping
=============================================================================
