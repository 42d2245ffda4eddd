------------------------------ MODULE Requests ------------------------------
(***************************************************************************)
(* A client and a broker that exchange whole frames over one connection:   *)
(* the base of ClientSession, Consumer and Publisher.  It is the view of   *)
(* rmqsSendMessage, rmqsWaitMessage and rmqsWaitResponse those modules     *)
(* need: RxStream shows that the frames arrive whole, once and in order,   *)
(* WaitResponse how a request ends.  Time is not counted here: a request   *)
(* may run out of time at any moment.                                      *)
(***************************************************************************)
EXTENDS Calls

CONSTANTS
    MaxRequests,            \* bound on the requests of the client
    IsLittleEndianMachine   \* of rmqsClientConfiguration_t

ASSUME RequestsAssumption == MaxRequests \in Nat /\ IsLittleEndianMachine \in BOOLEAN

VARIABLES
    toBroker, toClient,     \* the frames on their way, first come first
    link,                   \* "up" or "down"
    CorrelationId,          \* of rmqsClient_t
    call                    \* the request function that waits, or NoCall

connection == <<toBroker, toClient, link, CorrelationId, call>>

Push(key, arg) == Message(key, 0, "none", arg)

ConnectionInit ==
    /\ toBroker = << >> /\ toClient = << >> /\ link = "up"
    /\ CorrelationId = 0 /\ call = NoCall

-----------------------------------------------------------------------------
(* The client.                                                             *)

\* rmqsSendMessage: what is sent on a dead connection is lost, unnoticed.
Sent(messages) == IF link = "up" THEN toBroker \o messages ELSE toBroker

\* mutant: the correlation id is used before it is incremented
RequestWithOldId(key, arg) ==
    /\ call = NoCall /\ CorrelationId < MaxRequests
    /\ CorrelationId' = CorrelationId + 1
    /\ call' = [key |-> key, corr |-> CorrelationId, arg |-> arg]
    /\ toBroker' = Sent(<<Message(key, CorrelationId, "none", arg)>>)
    /\ UNCHANGED <<toClient, link>>

\* The common part of the request functions: a frame with a new correlation id,
\* and then rmqsWaitResponse.
Request(key, arg) ==
    /\ call = NoCall /\ CorrelationId < MaxRequests
    /\ CorrelationId' = CorrelationId + 1
    /\ call' = [key |-> key, corr |-> CorrelationId + 1, arg |-> arg]
    /\ toBroker' = Sent(<<Message(key, CorrelationId + 1, "none", arg)>>)
    /\ UNCHANGED <<toClient, link>>

Arrived == toClient # << >>

\* rmqsCommandHasCorrelationId
HasCorrelationId(key) == key \notin {"Tune", "PublishConfirm", "PublishError", "Deliver"}

\* mutant: the correlation id is not compared
MatchesAnyId(m) == call # NoCall /\ IsLittleEndianMachine /\ HasCorrelationId(m.key)

\* rmqsWaitResponse takes this frame for the response: on a little-endian machine,
\* for on another it compares nothing and passes over every frame.
Matches(m) ==
    /\ call # NoCall /\ IsLittleEndianMachine
    /\ HasCorrelationId(m.key) /\ m.corr = call.corr

\* The frames shorter than rmqsResponse_t.
IsShort(m) == m.key \in {"Heartbeat", "Credit"}

\* It takes a short frame for the response, for it reads beyond its end: with a
\* frame behind it the buffer is long enough, and the bytes read there may be the
\* id (the length of the next frame is one).  Lengths are not modelled here.
Misread ==
    /\ call # NoCall /\ IsLittleEndianMachine
    /\ Len(toClient) > 1 /\ IsShort(Head(toClient))

Take == toClient' = Tail(toClient)

Response == Arrived /\ (Matches(Head(toClient)) \/ Misread) /\ call' = NoCall /\ Take

GoodKey(m) == m.key = call.key                                         \* mutant

\* The response is the one to the request, and good.
Good(m) == m.key = call.key /\ m.code = "OK"

\* rmqsWaitMessage handles these frames itself.
IsPush(m) == m.key \in {"PublishConfirm", "PublishError", "Deliver", "MetadataUpdate"}

\* rmqsWaitResponse passes over a frame that is neither.
Skip ==
    /\ call # NoCall /\ Arrived
    /\ ~Matches(Head(toClient)) /\ ~IsPush(Head(toClient))
    /\ Take
    /\ UNCHANGED <<toBroker, link, CorrelationId, call>>

\* Time runs out, or recv fails on the dead connection.
GiveUp ==
    /\ call # NoCall /\ call' = NoCall
    /\ UNCHANGED <<toBroker, toClient, link, CorrelationId>>

-----------------------------------------------------------------------------
(* The broker and the network.                                             *)

BrokerSees(key) == link = "up" /\ toBroker # << >> /\ Head(toBroker).key = key

BrokerTakes == toBroker' = Tail(toBroker) /\ UNCHANGED <<link, CorrelationId, call>>

BrokerSends(messages) == toClient' = toClient \o messages

\* The broker's heartbeat.  The model bounds it: one comes while a request waits, but
\* not the last one, and while nothing else is on its way to the client (other frames
\* may follow it before it is read).
BrokerHeartbeat ==
    /\ link = "up" /\ toClient = << >>
    /\ call # NoCall /\ CorrelationId < MaxRequests
    /\ BrokerSends(<<Push("Heartbeat", << >>)>>)
    /\ UNCHANGED <<toBroker, link, CorrelationId, call>>

Reply(m, code, arg) == Message(m.key, m.corr, code, arg)

\* The connection breaks; the client may still read what has arrived.
Lose ==
    /\ link = "up" /\ link' = "down"
    /\ \E n \in 0..Len(toClient) : toClient' = SubSeq(toClient, 1, n)
    /\ toBroker' = << >>
    /\ UNCHANGED <<CorrelationId, call>>
=============================================================================
