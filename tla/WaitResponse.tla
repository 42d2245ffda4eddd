---------------------------- MODULE WaitResponse ----------------------------
(***************************************************************************)
(* rmqsWaitResponse (rmqsProtocol.c) and the request functions around it:  *)
(* a request is sent with a new correlation id, and the client calls       *)
(* rmqsWaitMessage until a response with that id comes, the connection     *)
(* fails or the time is up.  The broker answers each request at most once, *)
(* late or never, and sends heartbeats, pushes and its own Close request   *)
(* whenever it likes.                                                      *)
(*                                                                         *)
(* The module adds the request to RxStream: every step of it that touches  *)
(* the receive side is a step of RxStream.                                 *)
(***************************************************************************)
EXTENDS RxStream

CONSTANTS
    RequestKey,         \* the commands the client sends as requests
    SizeOf,             \* the length of the frames of each kind
    FirstCorrelationId, \* Client->CorrelationId when the model starts
    RequestTimeout,     \* RMQS_RX_DEFAULT_TIMEOUT, in ticks of the clock
    UInt32,             \* the modulus of uint32_t
    IsLittleEndianMachine, \* of rmqsClientConfiguration_t
    MaxRequests,        \* bound on the requests the client sends
    Cut                 \* bound on where TCP cuts a frame: after so many bytes of it

OK == 1                 \* rmqsrOK
ResponseSize == 14      \* sizeof(rmqsResponse_t)

ASSUME RequestAssumption ==
    /\ RequestKey \subseteq Kind
    /\ SizeOf \in [Kind -> Size]
    /\ FirstCorrelationId \in Nat
    /\ RequestTimeout \in Nat \ {0} /\ RequestTimeout < UInt32 /\ UInt32 \in Nat
    /\ Timeout = 1..RequestTimeout
    /\ IsLittleEndianMachine \in BOOLEAN
    /\ MaxRequests \in Nat
    /\ \A r \in 1..MaxRequests : FirstCorrelationId + r \in Corr
    /\ 0 \in Corr \cap Code
    /\ Cut \subseteq Nat
    \* Every response has the fields of rmqsResponse_t, and none is pushed; the
    \* broker's Close request has them too.
    /\ \A key \in RequestKey \cup ({"CloseRequest"} \cap Kind) : SizeOf[key] >= ResponseSize
    /\ RequestKey \cap {"Tune", "PublishConfirm", "PublishError", "Deliver",
                        "MetadataUpdate", "CloseRequest"} = {}

\* What requests records: key and correlation id, whether it reached the broker,
\* how the function returned, and the frame it took for the response.
RequestRecord ==
    [key : RequestKey, corr : Corr, arrived : BOOLEAN,
     end : {"none", "success", "refused", "error", "timeout"}, frame : Nat]

VARIABLES
    CorrelationId,
    at,                 \* where the request is: "caller", "loop", "wait"
    elapsed,            \* rmqsTimerGetTime(WaitReplyTimer), up to RequestTimeout + 1
    waited,             \* how long recv has blocked, up to SocketTimeout
    WaitMessageTimeout,
    requests,           \* history: the requests, what came of them
    answered            \* the requests the broker has answered

request == <<CorrelationId, at, elapsed, waited, WaitMessageTimeout, requests, answered>>

allVars == <<vars, request>>

WInit ==
    /\ Init
    /\ CorrelationId = FirstCorrelationId
    /\ at = "caller" /\ elapsed = 0 /\ waited = 0 /\ WaitMessageTimeout = 0
    /\ requests = << >> /\ answered = {}

Current == Len(requests)

-----------------------------------------------------------------------------
(* The broker.                                                             *)

FrameOf(kind, corr, code) ==
    [kind |-> kind, size |-> SizeOf[kind], corr |-> corr, code |-> code]

Answer(r, code) ==
    /\ r \notin answered /\ requests[r].arrived
    /\ Send(FrameOf(requests[r].key, requests[r].corr, code))
    /\ answered' = answered \cup {r}
    /\ UNCHANGED <<CorrelationId, at, elapsed, waited, WaitMessageTimeout, requests>>

\* A frame that answers nothing.  The broker's own Close has a correlation id that
\* the broker has numbered and, where a response has its code, the ClosingCode; OK
\* is the one of an orderly end.
Unsolicited(kind) ==
    /\ \E corr \in Corr, code \in Code :
         /\ IF kind = "CloseRequest" THEN corr # 0 /\ code # 0 ELSE corr = 0 /\ code = 0
         /\ Send(FrameOf(kind, corr, code))
    /\ UNCHANGED request

-----------------------------------------------------------------------------
(* The request functions (rmqsOpen, rmqsCreate, rmqsSubscribe, ...): a new  *)
(* correlation id, rmqsSendMessage, whose result is ignored, and the start  *)
(* of rmqsWaitResponse.                                                     *)

Request(key) ==
    /\ at = "caller" /\ pc = "idle" /\ Current < MaxRequests
    /\ CorrelationId' = CorrelationId + 1
    /\ requests' = Append(requests,
          [key |-> key, corr |-> CorrelationId + 1, arrived |-> link = "up",
           end |-> "none", frame |-> 0])
    /\ at' = "loop" /\ elapsed' = 0 /\ WaitMessageTimeout' = RequestTimeout
    /\ UNCHANGED <<vars, waited, answered>>

Ended(q, end, frame) ==
    [key |-> q.key, corr |-> q.corr, arrived |-> q.arrived, end |-> end, frame |-> frame]

\* The request function returns.
Finish(end, frame) ==
    /\ at' = "caller"
    /\ requests' = [requests EXCEPT ![Current] = Ended(requests[Current], end, frame)]
    /\ UNCHANGED <<vars, CorrelationId, elapsed, waited, WaitMessageTimeout, answered>>

\* mutants: one turn of the loop more; the timer started inside the loop
CallWaitMessageAtTheEnd ==
    /\ at = "loop" /\ elapsed <= RequestTimeout
    /\ Call(WaitMessageTimeout)
    /\ at' = "wait"
    /\ UNCHANGED <<CorrelationId, elapsed, waited, WaitMessageTimeout, requests, answered>>

CallWaitMessageRestarted ==
    /\ at = "loop" /\ elapsed < RequestTimeout
    /\ Call(WaitMessageTimeout)
    /\ at' = "wait" /\ elapsed' = 0
    /\ UNCHANGED <<CorrelationId, waited, WaitMessageTimeout, requests, answered>>

\* The head of the loop of rmqsWaitResponse.
CallWaitMessage ==
    /\ at = "loop" /\ elapsed < RequestTimeout
    /\ Call(WaitMessageTimeout)
    /\ at' = "wait"
    /\ UNCHANGED <<CorrelationId, elapsed, waited, WaitMessageTimeout, requests, answered>>

TimeIsUp ==
    /\ at = "loop" /\ elapsed >= RequestTimeout
    /\ Finish("timeout", 0)

\* The correlation id of rmqsResponse_t: the bytes 9 to 12 of RxQueue.  Behind a
\* message of 8 bytes they are the length field of the next one.
CorrelationRead(D) ==
    {IF frames[k].size >= 12 THEN frames[k].corr ELSE frames[k + 1].size - 4 :
        k \in FieldOf(D, 8, 4)}

CodeRead(D) ==
    {IF frames[k].size >= 14 THEN frames[k].code ELSE 0 : k \in FieldOf(D, 12, 2)}

\* Key & 0x7FFF: a request of the broker has the key of the response to it.
Masked(kind) == IF kind = "CloseRequest" THEN "Close" ELSE kind

HasCorrelationId(key) == key \notin {"Tune", "PublishConfirm", "PublishError", "Deliver"}

LongerThanNeeded == RxQueue.Size > ResponseSize                     \* mutant

LongEnough == RxQueue.Size >= ResponseSize

\* mutant: the correlation id is not compared
MatchesAny ==
    LongEnough /\ IsLittleEndianMachine /\ \A key \in Keys(RxQueue.Data) : HasCorrelationId(key)

\* The message is taken for the response to the request: looked at and returned only
\* in the branch for little-endian machines.
Matches ==
    /\ LongEnough
    /\ IsLittleEndianMachine
    /\ \A key \in Keys(RxQueue.Data) : HasCorrelationId(key)
    /\ CorrelationRead(RxQueue.Data) = {CorrelationId}

\* Its key and code decide what the request function returns.
TakeResponse ==
    /\ at = "wait" /\ pc = "idle" /\ result /\ Matches
    /\ Finish(IF (\A key \in Keys(RxQueue.Data) : Masked(key) = requests[Current].key)
                 /\ CodeRead(RxQueue.Data) = {OK}
              THEN "success" ELSE "refused",
              handled[Len(handled)].frame)

\* The difference of two uint32_t.
UInt32Minus(a, b) == IF b <= a THEN a - b ELSE (a - b) + UInt32

\* mutant: the rest of the time without the width of uint32_t
SkipMessageSigned ==
    /\ at = "wait" /\ pc = "idle" /\ result /\ ~Matches
    /\ WaitMessageTimeout' = RequestTimeout - elapsed
    /\ at' = "loop"
    /\ UNCHANGED <<vars, CorrelationId, elapsed, waited, requests, answered>>

\* Another message: it is dropped, and the rest of the time is waited.
SkipMessage ==
    /\ at = "wait" /\ pc = "idle" /\ result /\ ~Matches
    /\ WaitMessageTimeout' = UInt32Minus(RequestTimeout, elapsed)
    /\ at' = "loop"
    /\ UNCHANGED <<vars, CorrelationId, elapsed, waited, requests, answered>>

\* rmqsWaitMessage returned false, without an error of the connection.
NoMessage ==
    /\ at = "wait" /\ pc = "idle" /\ ~result /\ ~ConnectionError
    /\ at' = "loop"
    /\ UNCHANGED <<vars, CorrelationId, elapsed, waited, WaitMessageTimeout,
                   requests, answered>>

ConnectionLost ==
    /\ at = "wait" /\ pc = "idle" /\ ~result /\ ConnectionError
    /\ Finish("error", 0)

\* recv, at one of the places chosen to cut (RxStream has all of them).
RecvSegment ==
    \E n \in 1..RxBufferSize :
        /\ \/ received + n = written
           \/ \E k \in DOMAIN frames, c \in Cut : received + n = start[k] + c
        /\ Recv(n)

\* The steps of rmqsWaitMessage; recv gives up when its timeout has run out.
InWaitMessage ==
    /\ \/ LoopTop /\ waited' = 0
       \/ RecvTimeout /\ waited >= SocketTimeout /\ UNCHANGED waited
       \/ (RecvSegment \/ RecvClosed \/ RecvReset \/ ParseNoLength \/ ParsePartial
             \/ ParseComplete) /\ UNCHANGED waited
    /\ UNCHANGED <<CorrelationId, at, elapsed, WaitMessageTimeout, requests, answered>>

\* The clock, as far as the request looks at it.
Tick ==
    /\ at # "caller"
    /\ elapsed <= RequestTimeout \/ (pc = "recv" /\ waited < SocketTimeout)
    /\ elapsed' = IF elapsed <= RequestTimeout THEN elapsed + 1 ELSE elapsed
    /\ waited' = IF pc = "recv" /\ waited < SocketTimeout THEN waited + 1 ELSE waited
    /\ UNCHANGED <<vars, CorrelationId, at, WaitMessageTimeout, requests, answered>>

Client ==
    \/ CallWaitMessage \/ TimeIsUp \/ TakeResponse \/ SkipMessage \/ NoMessage
    \/ ConnectionLost \/ InWaitMessage

WNext ==
    \/ \E r \in DOMAIN requests, code \in Code \ {0} : Answer(r, code)
    \/ \E kind \in Kind \ RequestKey : Unsolicited(kind)
    \/ (Break("eof") \/ Break("reset")) /\ UNCHANGED request
    \/ \E key \in RequestKey : Request(key)
    \/ Client
    \/ Tick

\* The thread runs and time passes.  The broker owes nothing.
WFairness == WF_allVars(Client) /\ WF_allVars(Tick)

WSpec == WInit /\ [][WNext]_allVars

FairWSpec == WSpec /\ WFairness
-----------------------------------------------------------------------------
(* Properties.                                                             *)

WTypeOK ==
    /\ CorrelationId \in Nat
    /\ at \in {"caller", "loop", "wait"}
    /\ elapsed \in 0..(RequestTimeout + 1) /\ waited \in 0..RequestTimeout
    /\ WaitMessageTimeout \in 0..(UInt32 - 1)
    /\ requests \in Seq(RequestRecord)
    /\ answered \subseteq DOMAIN requests

\* Frame k is the broker's answer to request r.
Answers(k, r) ==
    /\ k \in DOMAIN frames
    /\ frames[k].kind = requests[r].key /\ frames[k].corr = requests[r].corr

\* Frame k is the broker's own Close, with the id rmqsClose waits for in request r.
PassesForAnswer(k, r) ==
    /\ requests[r].key = "Close" /\ frames[k].kind = "CloseRequest"
    /\ frames[k].corr = requests[r].corr

\* A request function returns true only if the broker answered this request, and
\* answered OK: never for the late answer to an earlier request that timed out, and
\* never for a heartbeat or another frame that answers nothing.  One exception is in
\* the code: rmqsClose also returns true for a Close the broker itself sends when it
\* has the id rmqsClose waits for and the ClosingCode OK.
SuccessIsAnswered ==
    \A r \in DOMAIN requests :
        requests[r].end = "success" =>
            /\ Answers(requests[r].frame, r) \/ PassesForAnswer(requests[r].frame, r)
            /\ frames[requests[r].frame].code = OK

\* A request is reported refused only by an answer to it that does not say OK, by a
\* Close the broker sent, or by a message too short for a response that was read
\* beyond its end (RespondsWithinMessage is about those).
RefusalIsAnswered ==
    \A r \in DOMAIN requests :
        requests[r].end = "refused" =>
            \/ Answers(requests[r].frame, r) /\ frames[requests[r].frame].code # OK
            \/ frames[requests[r].frame].kind = "CloseRequest"
            \/ frames[requests[r].frame].size < ResponseSize

\* The response lies within the complete message of Tag2 bytes: no byte of the next
\* message is taken for a part of it.
RespondsWithinMessage ==
    \A r \in DOMAIN requests :
        requests[r].end \in {"success", "refused"} =>
            frames[requests[r].frame].size >= ResponseSize

\* While the client goes on waiting, the answer it waits for is not among the
\* messages it has dropped: on a little-endian machine.  (On another one it drops
\* every answer, and each request runs out of time.)
AnswerNotDropped ==
    IsLittleEndianMachine /\ at = "loop" =>
        \A k \in DOMAIN handled : ~Answers(handled[k].frame, Current)

\* The timeout computed from the rest of the time never reaches recv as 0 (wait
\* for ever) or wrapped around below 0, although the time may be over when it is
\* computed.
RecvWithinRequest ==
    pc # "idle" => RxTimeout \in 1..RequestTimeout

\* rmqsWaitResponse drives the receive side only by calls of rmqsWaitMessage.
UsesWaitMessage == Spec

\* Every request returns, whatever the broker does: it may stay silent, close or
\* reset the connection, or stop in the middle of a frame.
RequestReturns == at # "caller" ~> at = "caller"
=============================================================================
