--------------------------- MODULE ClientSession ---------------------------
(***************************************************************************)
(* rmqsClient.c: rmqsClientLogin with its six steps, the administration of *)
(* streams and rmqsClientLogout, against a broker that follows the stream  *)
(* protocol.  One thread of the application makes the calls, one after the *)
(* other; it stops using the client when the login has failed.             *)
(***************************************************************************)
EXTENDS Requests

CONSTANTS
    Stream          \* the streams the application administers

VARIABLES
    \* the client
    step,           \* the call rmqsClientLogin is at, "loggedIn", "failed", "loggedOut"
    reason,         \* history: why the login failed
    lastCreate,     \* the code and StreamAlreadyExists of the last rmqsCreate
    told,           \* history: what the results say of each stream
    \* the broker
    peer,           \* how far the protocol has come
    streams,        \* the streams that exist
    opened          \* history: the broker has accepted Open

client == <<step, reason, lastCreate, told>>
broker == <<peer, streams, opened>>
vars == <<connection, client, broker>>

LoginSteps == {"PeerProperties", "SaslHandshake", "SaslAuthenticate", "Tune", "Open"}

Init ==
    /\ ConnectionInit
    /\ step = "PeerProperties" /\ reason = "none"
    /\ lastCreate = [code |-> "none", StreamAlreadyExists |-> FALSE]
    /\ told = [s \in Stream |-> "unknown"]
    /\ peer = "start" /\ streams \in SUBSET Stream /\ opened = FALSE

-----------------------------------------------------------------------------
(* The requests of rmqsClientLogin.                                        *)

LoginRequest(key) ==
    /\ step = key /\ Request(key, << >>)
    /\ UNCHANGED <<client, broker>>

PeerProperties == LoginRequest("PeerProperties")
SaslHandshake == LoginRequest("SaslHandshake")
SaslAuthenticate == LoginRequest("SaslAuthenticate")
Open == LoginRequest("Open")

\* The step that follows a good response.
NextStepUntuned(key) ==                                                \* mutant
    CASE key = "PeerProperties"   -> "SaslHandshake"
      [] key = "SaslHandshake"    -> "SaslAuthenticate"
      [] key = "SaslAuthenticate" -> "Open"
      [] key = "Open"             -> "loggedIn"

NextStep(key) ==
    CASE key = "PeerProperties"   -> "SaslHandshake"
      [] key = "SaslHandshake"    -> "SaslAuthenticate"
      [] key = "SaslAuthenticate" -> "Tune"
      [] key = "Open"             -> "loggedIn"

Fail(why) == step' = "failed" /\ reason' = why /\ UNCHANGED <<lastCreate, told>>

\* PLAIN is among the mechanisms of the handshake.
PlainAuthSupported(m) == m.key = "SaslHandshake" => "PLAIN" \in m.arg[1]

LoginResponse ==
    /\ step \in LoginSteps /\ Response
    /\ LET m == Head(toClient) IN
         IF Good(m) /\ PlainAuthSupported(m)
         THEN step' = NextStep(call.key) /\ UNCHANGED <<reason, lastCreate, told>>
         ELSE Fail("refused")
    /\ UNCHANGED <<toBroker, link, CorrelationId, broker>>

LoginGiveUp ==
    /\ step \in LoginSteps /\ GiveUp
    /\ Fail(IF link = "up" THEN "timeout" ELSE "lost")
    /\ UNCHANGED broker

\* rmqsWaitMessage for Tune: the next frame is it, and it is answered ...
Tune ==
    /\ step = "Tune" /\ Arrived /\ Head(toClient).key = "Tune"
    /\ Take
    /\ toBroker' = Sent(<<Push("Tune", << >>)>>)
    /\ step' = "Open"
    /\ UNCHANGED <<link, CorrelationId, call, reason, lastCreate, told, broker>>

\* ... or the login fails, because it is another frame,
NotTune ==
    /\ step = "Tune" /\ Arrived /\ Head(toClient).key # "Tune"
    /\ Take
    /\ Fail("refused")
    /\ UNCHANGED <<toBroker, link, CorrelationId, call, broker>>

\* because only the first part of it has arrived (ParsePartial of RxStream),
TunePart ==
    /\ step = "Tune" /\ Arrived /\ Head(toClient).key = "Tune"
    /\ Fail("partial")
    /\ UNCHANGED <<connection, broker>>

\* or because nothing comes in time.
NoTuneForever ==                                                       \* mutant
    /\ step = "Tune" /\ ~Arrived /\ link = "down"
    /\ Fail("lost")
    /\ UNCHANGED <<connection, broker>>

NoTune ==
    /\ step = "Tune" /\ ~Arrived
    /\ Fail(IF link = "up" THEN "timeout" ELSE "lost")
    /\ UNCHANGED <<connection, broker>>

Login ==
    \/ PeerProperties \/ SaslHandshake \/ SaslAuthenticate \/ Open
    \/ LoginResponse \/ LoginGiveUp \/ Tune \/ NotTune \/ TunePart \/ NoTune

-----------------------------------------------------------------------------
(* Streams.                                                                *)

\* A change of the stream is asked for: until the result is known it may or may
\* not have happened.
StreamRequest(key, s) ==
    /\ step = "loggedIn" /\ Request(key, <<s>>)
    /\ told' = IF key = "Metadata" THEN told ELSE [told EXCEPT ![s] = "unknown"]
    /\ UNCHANGED <<step, reason, lastCreate, broker>>

Create(s) == StreamRequest("Create", s)
Delete(s) == StreamRequest("Delete", s)
Metadata(s) == StreamRequest("Metadata", s)

\* StreamAlreadyExists is looked at behind the test of the response code.  (Behind a
\* short frame taken for the response the code is a part of the next frame: "none"
\* stands for it.)
CreateResult(m) ==
    [code |-> m.code,
     StreamAlreadyExists |-> Good(m) /\ m.code = "StreamAlreadyExists"]

\* What the result says of the stream.  The answer to Metadata has no code: the
\* codes of the streams are in its body.
Says(m, before) ==
    CASE m.key = "Create" /\ m.code \in {"OK", "StreamAlreadyExists"} -> "exists"
      [] m.key = "Delete" /\ m.code \in {"OK", "StreamDoesNotExist"}  -> "absent"
      [] m.key = "Metadata" -> IF m.arg[1] = "OK" THEN "exists" ELSE "absent"
      [] OTHER -> before

StreamResponse ==
    /\ step = "loggedIn" /\ call.key \in {"Create", "Delete", "Metadata"} /\ Response
    /\ LET m == Head(toClient) IN
         /\ told' = IF m.key = call.key
                    THEN [told EXCEPT ![call.arg[1]] = Says(m, told[call.arg[1]])]
                    ELSE told
         /\ lastCreate' = IF call.key = "Create" THEN CreateResult(m) ELSE lastCreate
    /\ UNCHANGED <<toBroker, link, CorrelationId, step, reason, broker>>

\* rmqsHeartbeat answers nothing and waits for nothing.
Heartbeat ==
    /\ step = "loggedIn" /\ call = NoCall /\ Len(toBroker) < 2
    /\ toBroker' = Sent(<<Push("Heartbeat", << >>)>>)
    /\ UNCHANGED <<toClient, link, CorrelationId, call, client, broker>>

\* rmqsClientLogout: rmqsClose.
Logout ==
    /\ step = "loggedIn" /\ Request("Close", << >>)
    /\ UNCHANGED <<client, broker>>

LogoutResponse ==
    /\ step = "loggedIn" /\ call.key = "Close" /\ Response
    /\ step' = IF Good(Head(toClient)) THEN "loggedOut" ELSE step
    /\ UNCHANGED <<toBroker, link, CorrelationId, reason, lastCreate, told, broker>>

LoggedInGiveUp == step = "loggedIn" /\ GiveUp /\ UNCHANGED <<client, broker>>

SkipFrame == Skip /\ UNCHANGED <<client, broker>>

\* rmqsHandleMetadataUpdate calls the application back, and nothing else.
HandleMetadataUpdate ==
    /\ call # NoCall \/ step = "Tune"
    /\ Arrived /\ Head(toClient).key = "MetadataUpdate"
    /\ Take
    /\ UNCHANGED <<toBroker, link, CorrelationId, call, client, broker>>

Waiting ==
    \/ StreamResponse \/ LogoutResponse \/ LoggedInGiveUp \/ SkipFrame
    \/ HandleMetadataUpdate

-----------------------------------------------------------------------------
(* The broker.                                                             *)

\* The command allowed in each state, and the state after it.
Expected ==
    [start |-> "PeerProperties", properties |-> "SaslHandshake",
     handshake |-> "SaslAuthenticate", authenticated |-> "none",
     tuning |-> "Tune", tuned |-> "Open"]

After ==
    [start |-> "properties", properties |-> "handshake",
     handshake |-> "authenticated", authenticated |-> "tuning",
     tuning |-> "tuned", tuned |-> "open"]

BrokerLogin ==
    /\ link = "up" /\ toBroker # << >>
    /\ peer \in DOMAIN Expected /\ Head(toBroker).key = Expected[peer]
    /\ LET m == Head(toBroker) IN
         \/ \* accepted
            /\ peer' = After[peer]
            /\ opened' = (opened \/ m.key = "Open")
            /\ CASE m.key = "Tune" -> UNCHANGED toClient
                 [] m.key = "SaslHandshake" ->
                      \E mechanisms \in {{"PLAIN", "EXTERNAL"}, {"EXTERNAL"}} :
                          BrokerSends(<<Reply(m, "OK", <<mechanisms>>)>>)
                 [] OTHER -> BrokerSends(<<Reply(m, "OK", << >>)>>)
         \/ \* refused: authentication failure, no access to the virtual host
            /\ m.key \in {"SaslAuthenticate", "Open"}
            /\ peer' = "closed" /\ UNCHANGED opened
            /\ BrokerSends(<<Reply(m, "AccessRefused", <<{}>>)>>)
    /\ BrokerTakes
    /\ UNCHANGED <<client, streams>>

\* After the authentication the broker sends Tune by itself.
BrokerTunes ==
    /\ link = "up" /\ peer = "authenticated"
    /\ BrokerSends(<<Push("Tune", << >>)>>)
    /\ peer' = After[peer]
    /\ UNCHANGED <<toBroker, link, CorrelationId, call, client, streams, opened>>

BrokerStreams ==
    /\ peer = "open"
    /\ \/ /\ BrokerSees("Create")
          /\ LET m == Head(toBroker)
                 s == m.arg[1]
             IN  \/ /\ streams' = streams \cup {s}
                    /\ BrokerSends(<<Reply(m, IF s \in streams THEN "StreamAlreadyExists"
                                              ELSE "OK", << >>)>>)
                 \/ /\ BrokerSends(<<Reply(m, "PreconditionFailed", << >>)>>)
                    /\ UNCHANGED streams
       \/ /\ BrokerSees("Delete")
          /\ LET m == Head(toBroker)
                 s == m.arg[1]
             IN  /\ streams' = streams \ {s}
                 /\ BrokerSends(<<Reply(m, IF s \in streams THEN "OK"
                                           ELSE "StreamDoesNotExist", << >>)>>)
       \/ /\ BrokerSees("Metadata")
          /\ LET m == Head(toBroker) IN
               BrokerSends(<<Reply(m, "none", <<IF m.arg[1] \in streams THEN "OK"
                                                ELSE "StreamDoesNotExist">>)>>)
          /\ UNCHANGED streams
       \/ /\ BrokerSees("Heartbeat") /\ UNCHANGED <<streams, toClient>>
    /\ BrokerTakes
    /\ UNCHANGED <<client, peer, opened>>

BrokerCloses ==
    /\ peer = "open" /\ BrokerSees("Close")
    /\ BrokerSends(<<Reply(Head(toBroker), "OK", << >>)>>)
    /\ peer' = "closed" /\ BrokerTakes
    /\ UNCHANGED <<client, streams, opened>>

\* The broker ends the session itself, with a request whose id it chooses: it may
\* be the id the client waits for, and the ClosingCode may be OK.
BrokerSendsClose ==
    /\ link = "up" /\ peer # "closed"
    /\ \E id \in {1, CorrelationId}, code \in {"OK", "CloseCode"} :
          BrokerSends(<<Message("Close", id, code, << >>)>>)
    /\ peer' = "closed"
    /\ UNCHANGED <<toBroker, link, CorrelationId, call, client, streams, opened>>

\* From the authentication on, so also where the client waits for Tune.
BrokerPushes(key) ==
    /\ link = "up" /\ peer \in {"authenticated", "tuning", "tuned", "open"}
    /\ Len(toClient) < 2
    /\ BrokerSends(<<Push(key, << >>)>>)
    /\ UNCHANGED <<toBroker, link, CorrelationId, call, client, broker>>

Broker ==
    \/ BrokerLogin \/ BrokerTunes \/ BrokerStreams \/ BrokerCloses
    \/ BrokerSendsClose
    \/ \E key \in {"Heartbeat", "MetadataUpdate"} : BrokerPushes(key)

Next ==
    \/ Login
    \/ \E s \in Stream : Create(s) \/ Delete(s) \/ Metadata(s)
    \/ Heartbeat \/ Logout \/ Waiting
    \/ Broker
    \/ Lose /\ UNCHANGED <<client, broker>>

Spec == Init /\ [][Next]_vars

\* The thread that makes the calls runs, and its timeouts run out.
FairSpec == Spec /\ WF_vars(Login) /\ WF_vars(Waiting)
-----------------------------------------------------------------------------
(* Properties.                                                             *)

Result == {"unknown", "exists", "absent"}

\* The types, and that a waiting request is the one with the newest correlation id.
TypeOK ==
    /\ link \in {"up", "down"} /\ CorrelationId \in 0..MaxRequests
    /\ call = NoCall \/ call.corr = CorrelationId
    /\ step \in LoginSteps \cup {"loggedIn", "failed", "loggedOut"}
    /\ reason \in {"none", "refused", "timeout", "lost", "partial"}
    /\ lastCreate.StreamAlreadyExists \in BOOLEAN
    /\ told \in [Stream -> Result]
    /\ peer \in DOMAIN Expected \cup {"open", "closed"}
    /\ streams \subseteq Stream /\ opened \in BOOLEAN

\* rmqsClientLogin returns true only when the broker has gone through all the
\* steps with it and has opened the virtual host for this connection.
LoggedInIsOpened == step \in {"loggedIn", "loggedOut"} => opened

\* The broker never gets a command that the state of the protocol does not allow,
\* whatever it answered before and however late.
Allowed(state) ==
    IF state = "open" THEN {"Create", "Delete", "Metadata", "Close", "Heartbeat"}
    ELSE {Expected[state]}

InProtocolOrder ==
    toBroker # << >> /\ peer # "closed" => Head(toBroker).key \in Allowed(peer)

\* What rmqsCreate, rmqsDelete and rmqsMetadata reported last of a stream is so,
\* although earlier requests for it ran out of time and their answers came late:
\* unless a later change has been asked for and not been answered.
ToldTheTruth ==
    \A s \in Stream :
        /\ told[s] = "exists" => s \in streams
        /\ told[s] = "absent" => s \notin streams

\* A login ends: none of its steps waits for ever.
LoginEnds == step \in LoginSteps ~> step \notin LoginSteps

\* rmqsCreate tells that the stream exists already when that is the answer of the
\* broker (the caller in rawClientTest.c goes on with the stream in that case).
ExistingStreamReported ==
    lastCreate.code = "StreamAlreadyExists" => lastCreate.StreamAlreadyExists

\* The login waits for the Tune frame and does not fail because only a part of it
\* has arrived.
TuneAwaited == reason # "partial"
=============================================================================
