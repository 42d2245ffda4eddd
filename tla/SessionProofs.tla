--------------------------- MODULE SessionProofs ---------------------------
(***************************************************************************)
(* The login goes through the steps of the protocol, and what the client   *)
(* is told of a stream is so: for any streams and any number of requests,  *)
(* with answers that come late and a broker that ends the session itself.  *)
(***************************************************************************)
EXTENDS ClientSession, SequenceProofs

LoginKeys == {"PeerProperties", "SaslHandshake", "SaslAuthenticate", "Open"}
Changes == {"Create", "Delete"}
StreamKeys == Changes \cup {"Metadata"}
Asked == LoginKeys \cup StreamKeys \cup {"Close"}

About == {<<s>> : s \in Stream}

\* The frames the client may send, and the ones the broker may send.
FromClient ==
    [key : LoginKeys \cup {"Close"}, corr : Nat \ {0}, code : {"none"}, arg : {<< >>}]
    \cup [key : StreamKeys, corr : Nat \ {0}, code : {"none"}, arg : About]
    \cup [key : {"Tune", "Heartbeat"}, corr : {0}, code : {"none"}, arg : {<< >>}]

Codes == {"OK", "AccessRefused", "StreamAlreadyExists", "PreconditionFailed",
          "StreamDoesNotExist", "none"}

Contents == {<< >>, <<{}>>, <<{"EXTERNAL"}>>, <<{"PLAIN", "EXTERNAL"}>>, <<"OK">>,
             <<"StreamDoesNotExist">>}

FromBroker ==
    [key : Asked, corr : Nat \ {0}, code : Codes, arg : Contents]
    \cup [key : {"Tune", "Heartbeat", "MetadataUpdate"}, corr : {0}, code : {"none"},
          arg : {<< >>}]
    \cup [key : {"Close"}, corr : Nat, code : {"OK", "CloseCode"}, arg : {<< >>}]

LEMMA ClientFrame ==
  ASSUME NEW m \in FromClient
  PROVE  /\ m.key \in Asked \cup {"Tune", "Heartbeat"} /\ m.corr \in Nat
         /\ m.corr = 0 <=> m.key \in {"Tune", "Heartbeat"}
         /\ m.key \in StreamKeys => m.arg[1] \in Stream /\ m.arg = <<m.arg[1]>>
<1>1. CASE m \in [key : LoginKeys \cup {"Close"}, corr : Nat \ {0}, code : {"none"},
                  arg : {<< >>}]
  BY <1>1 DEF Asked, LoginKeys, StreamKeys, Changes
<1>2. CASE m \in [key : StreamKeys, corr : Nat \ {0}, code : {"none"}, arg : About]
  BY <1>2 DEF Asked, LoginKeys, StreamKeys, Changes, About
<1>3. CASE m \in [key : {"Tune", "Heartbeat"}, corr : {0}, code : {"none"}, arg : {<< >>}]
  BY <1>3 DEF Asked, LoginKeys, StreamKeys, Changes
<1>4. QED
  BY <1>1, <1>2, <1>3 DEF FromClient

\* What the client and the broker put into their frames.
LEMMA ClientFrames ==
  /\ \A key \in LoginKeys \cup {"Close"}, c \in Nat \ {0} :
       Message(key, c, "none", << >>) \in FromClient
  /\ \A key \in StreamKeys, c \in Nat \ {0}, s \in Stream :
       Message(key, c, "none", <<s>>) \in FromClient
  /\ \A key \in {"Tune", "Heartbeat"} : Push(key, << >>) \in FromClient
BY DEF Message, Push, FromClient, About

LEMMA BrokerFrames ==
  /\ \A m \in FromClient, code \in Codes, arg \in Contents :
       m.key \in Asked => Reply(m, code, arg) \in FromBroker
  /\ \A key \in {"Tune", "Heartbeat", "MetadataUpdate"} : Push(key, << >>) \in FromBroker
  /\ \A id \in Nat, code \in {"OK", "CloseCode"} :
       Message("Close", id, code, << >>) \in FromBroker
<1>1. ASSUME NEW m \in FromClient, NEW code \in Codes, NEW arg \in Contents, m.key \in Asked
      PROVE  Reply(m, code, arg) \in FromBroker
  <2>1. m.corr \in Nat \ {0}
    BY <1>1, ClientFrame DEF Asked, LoginKeys, StreamKeys, Changes
  <2>2. QED
    BY <1>1, <2>1 DEF Reply, Message, FromBroker
<1>2. \A key \in {"Tune", "Heartbeat", "MetadataUpdate"} : Push(key, << >>) \in FromBroker
  BY DEF Push, Message, FromBroker
<1>3. \A id \in Nat, code \in {"OK", "CloseCode"} :
       Message("Close", id, code, << >>) \in FromBroker
  BY DEF Message, FromBroker
<1>4. QED
  BY <1>1, <1>2, <1>3

-----------------------------------------------------------------------------
(* The frames on their way, as sets.                                       *)

LEMMA SetOf ==
  ASSUME NEW S, NEW s \in Seq(S)
  PROVE  \A x : x \in ToSet(s) <=> \E i \in DOMAIN s : x = s[i]
BY DEF ToSet

LEMMA SetTail ==
  ASSUME NEW S, NEW s \in Seq(S), s # << >>
  PROVE  ToSet(Tail(s)) \subseteq ToSet(s) /\ Head(s) \in ToSet(s)
<1>1. PICK t : t = Tail(s)
  OBVIOUS
<1>2. /\ Head(s) = s[1] /\ 1 \in DOMAIN s
      /\ \A j \in DOMAIN t : j + 1 \in DOMAIN s /\ t[j] = s[j + 1]
  BY <1>1, TailFacts
<1>3. QED
  BY <1>1, <1>2 DEF ToSet

LEMMA SetAppend ==
  ASSUME NEW S, NEW s \in Seq(S), NEW e \in S
  PROVE  ToSet(Append(s, e)) = ToSet(s) \cup {e}
<1>1. PICK t : t = Append(s, e)
  OBVIOUS
<1>2. PICK n \in Nat : n = Len(s)
  OBVIOUS
<1>3. /\ DOMAIN s = 1..n /\ DOMAIN t = 1..(n + 1) /\ t[n + 1] = e
      /\ \A j \in 1..n : t[j] = s[j]
  BY <1>1, <1>2, AppendFacts
<1>4. ASSUME NEW x \in ToSet(t) PROVE x \in ToSet(s) \cup {e}
  BY <1>2, <1>3, <1>4 DEF ToSet
<1>5. ASSUME NEW x \in ToSet(s) \cup {e} PROVE x \in ToSet(t)
  BY <1>2, <1>3, <1>5 DEF ToSet
<1>6. QED
  BY <1>1, <1>4, <1>5

LEMMA SetSub ==
  ASSUME NEW S, NEW s \in Seq(S), NEW n \in 0..Len(s)
  PROVE  SubSeq(s, 1, n) \in Seq(S) /\ ToSet(SubSeq(s, 1, n)) \subseteq ToSet(s)
<1>1. PICK t : t = SubSeq(s, 1, n)
  OBVIOUS
<1>2. t \in Seq(S) /\ \A j \in DOMAIN t : j \in DOMAIN s /\ t[j] = s[j]
  BY <1>1
<1>3. QED
  BY <1>1, <1>2 DEF ToSet

-----------------------------------------------------------------------------
(* The protocol of the login, state by state.                              *)

LoginPeer == {"start", "properties", "handshake", "authenticated", "tuning", "tuned"}

LEMMA Protocol ==
  /\ DOMAIN Expected = LoginPeer
  /\ Expected["start"] = "PeerProperties" /\ After["start"] = "properties"
  /\ Expected["properties"] = "SaslHandshake" /\ After["properties"] = "handshake"
  /\ Expected["handshake"] = "SaslAuthenticate" /\ After["handshake"] = "authenticated"
  /\ Expected["authenticated"] = "none" /\ After["authenticated"] = "tuning"
  /\ Expected["tuning"] = "Tune" /\ After["tuning"] = "tuned"
  /\ Expected["tuned"] = "Open" /\ After["tuned"] = "open"
BY DEF Expected, After, LoginPeer

LEMMA NextSteps ==
  /\ NextStep("PeerProperties") = "SaslHandshake"
  /\ NextStep("SaslHandshake") = "SaslAuthenticate"
  /\ NextStep("SaslAuthenticate") = "Tune"
  /\ NextStep("Open") = "loggedIn"
BY DEF NextStep

-----------------------------------------------------------------------------
(* The types.                                                              *)

\* The call that waits is the one of the step, or of the session.
Calling ==
    call # NoCall =>
        /\ CorrelationId # 0 /\ call.corr = CorrelationId
        /\ \/ call.key \in LoginKeys /\ step = call.key
           \/ call.key = "Close" /\ step = "loggedIn"
           \/ call.key \in StreamKeys /\ step = "loggedIn" /\ call.arg \in About

Types ==
    /\ toBroker \in Seq(FromClient) /\ toClient \in Seq(FromBroker)
    /\ link = "down" => toBroker = << >>
    /\ Calling
    /\ TypeOK

LEMMA InitTypes == Init => Types
<1>1. SUFFICES ASSUME Init PROVE Types
  OBVIOUS
<1>2. toBroker = << >> /\ toClient = << >> /\ link = "up" /\ CorrelationId = 0 /\ call = NoCall
  BY <1>1 DEF Init, ConnectionInit
<1>3. << >> \in Seq(FromClient) /\ << >> \in Seq(FromBroker)
  OBVIOUS
<1>4. Calling
  BY <1>2 DEF Calling
<1>5. TypeOK
  <2>1. link \in {"up", "down"} /\ CorrelationId \in 0..MaxRequests
    BY <1>2, RequestsAssumption
  <2>2. call = NoCall \/ call.corr = CorrelationId
    BY <1>2
  <2>3. /\ step \in LoginSteps \cup {"loggedIn", "failed", "loggedOut"}
        /\ reason \in {"none", "refused", "timeout", "lost", "partial"}
        /\ lastCreate.StreamAlreadyExists \in BOOLEAN
    BY <1>1 DEF Init, LoginSteps
  <2>4. told \in [Stream -> Result]
    BY <1>1 DEF Init, Result
  <2>5. /\ peer \in DOMAIN Expected \cup {"open", "closed"}
        /\ streams \subseteq Stream /\ opened \in BOOLEAN
    BY <1>1, Protocol DEF Init, LoginPeer
  <2>6. QED
    BY <2>1, <2>2, <2>3, <2>4, <2>5, Zenon DEF TypeOK
<1>6. QED
  BY <1>2, <1>3, <1>4, <1>5 DEF Types

-----------------------------------------------------------------------------
(* The shapes of the steps.                                                *)

Sends(m) == IF link = "up" THEN toBroker' = Append(toBroker, m) ELSE toBroker' = toBroker
Receives == toClient # << >> /\ toClient' = Tail(toClient)
Tells(m) == toClient' = Append(toClient, m)
Takes == link = "up" /\ toBroker # << >> /\ toBroker' = Tail(toBroker)

\* A request function.
Asks(key, arg) ==
    /\ call = NoCall /\ CorrelationId < MaxRequests
    /\ CorrelationId' = CorrelationId + 1
    /\ call' = [key |-> key, corr |-> CorrelationId + 1, arg |-> arg]
    /\ Message(key, CorrelationId + 1, "none", arg) \in FromClient
    /\ Sends(Message(key, CorrelationId + 1, "none", arg))
    /\ UNCHANGED <<toClient, link, step, reason, lastCreate, broker>>

LoginIsAsked == \E key \in LoginKeys : step = key /\ Asks(key, << >>) /\ told' = told

StreamIsAsked ==
    \E key \in StreamKeys, s \in Stream :
        /\ step = "loggedIn" /\ Asks(key, <<s>>)
        /\ told' = IF key = "Metadata" THEN told ELSE [told EXCEPT ![s] = "unknown"]

CloseIsAsked == step = "loggedIn" /\ Asks("Close", << >>) /\ told' = told

\* A frame that is not answered.
TuneIsSent ==
    /\ step = "Tune" /\ Receives /\ Head(toClient).key = "Tune"
    /\ Push("Tune", << >>) \in FromClient /\ Sends(Push("Tune", << >>))
    /\ step' = "Open"
    /\ UNCHANGED <<link, CorrelationId, call, reason, lastCreate, told, broker>>

HeartbeatIsSent ==
    /\ step = "loggedIn" /\ call = NoCall
    /\ Push("Heartbeat", << >>) \in FromClient /\ Sends(Push("Heartbeat", << >>))
    /\ UNCHANGED <<toClient, link, CorrelationId, call, client, broker>>

\* The response to the call, or a short frame that is taken for it.
IsAnswered ==
    /\ Receives /\ call # NoCall /\ call' = NoCall /\ IsLittleEndianMachine
    /\ Head(toClient).corr = call.corr \/ IsShort(Head(toClient))
    /\ UNCHANGED <<toBroker, link, CorrelationId, broker>>

LoginIsAnswered ==
    /\ IsAnswered /\ call.key \in LoginKeys
    /\ \/ /\ Head(toClient).key = call.key /\ Head(toClient).code = "OK"
          /\ step' = NextStep(call.key) /\ reason' = reason
       \/ step' = "failed" /\ reason' = "refused"
    /\ UNCHANGED <<lastCreate, told>>

StreamIsAnswered ==
    /\ IsAnswered /\ call.key \in StreamKeys
    /\ LET m == Head(toClient) IN
         /\ told' = IF m.key = call.key
                    THEN [told EXCEPT ![call.arg[1]] = Says(m, told[call.arg[1]])]
                    ELSE told
         /\ lastCreate' = IF call.key = "Create" THEN CreateResult(m) ELSE lastCreate
    /\ UNCHANGED <<step, reason>>

CloseIsAnswered ==
    /\ IsAnswered /\ call.key = "Close"
    /\ step' \in {step, "loggedOut"}
    /\ UNCHANGED <<reason, lastCreate, told>>

\* A frame is passed over, or time runs out, or the login fails.
Leaves ==
    /\ toClient' = toClient \/ Receives
    /\ \/ UNCHANGED <<call, step, reason>>
       \/ step = "loggedIn" /\ call' = NoCall /\ UNCHANGED <<step, reason>>
       \/ call' = NoCall /\ step' = "failed" /\ reason' \in {"refused", "timeout", "lost", "partial"}
    /\ UNCHANGED <<toBroker, link, CorrelationId, lastCreate, told, broker>>

ClientSteps ==
    \/ LoginIsAsked \/ StreamIsAsked \/ CloseIsAsked \/ TuneIsSent \/ HeartbeatIsSent
    \/ LoginIsAnswered \/ StreamIsAnswered \/ CloseIsAnswered \/ Leaves

\* The broker answers the first frame.
Replies(code, arg) ==
    /\ Takes /\ Head(toBroker) \in FromClient
    /\ Reply(Head(toBroker), code, arg) \in FromBroker /\ Tells(Reply(Head(toBroker), code, arg))
    /\ UNCHANGED <<link, CorrelationId, call, client>>

LoginIsAccepted ==
    /\ peer \in LoginPeer /\ Head(toBroker).key = Expected[peer]
    /\ Head(toBroker).key \in LoginKeys
    /\ \E arg \in Contents : Replies("OK", arg)
    /\ peer' = After[peer] /\ opened' = (opened \/ Head(toBroker).key = "Open")
    /\ UNCHANGED streams

LoginIsRefused ==
    /\ Head(toBroker).key \in LoginKeys /\ Replies("AccessRefused", <<{}>>)
    /\ peer' = "closed" /\ UNCHANGED <<streams, opened>>

TuneIsTaken ==
    /\ peer = "tuning" /\ Takes /\ Head(toBroker).key = "Tune" /\ peer' = "tuned"
    /\ UNCHANGED <<toClient, link, CorrelationId, call, client, streams, opened>>

StreamIsCreated ==
    /\ peer = "open" /\ Head(toBroker).key = "Create"
    /\ LET s == Head(toBroker).arg[1] IN
         \/ /\ streams' = streams \cup {s}
            /\ Replies(IF s \in streams THEN "StreamAlreadyExists" ELSE "OK", << >>)
         \/ Replies("PreconditionFailed", << >>) /\ UNCHANGED streams
    /\ UNCHANGED <<peer, opened>>

StreamIsDeleted ==
    /\ peer = "open" /\ Head(toBroker).key = "Delete"
    /\ LET s == Head(toBroker).arg[1] IN
         /\ streams' = streams \ {s}
         /\ Replies(IF s \in streams THEN "OK" ELSE "StreamDoesNotExist", << >>)
    /\ UNCHANGED <<peer, opened>>

MetadataIsTold ==
    /\ peer = "open" /\ Head(toBroker).key = "Metadata"
    /\ Replies("none", <<IF Head(toBroker).arg[1] \in streams THEN "OK" ELSE "StreamDoesNotExist">>)
    /\ UNCHANGED <<peer, streams, opened>>

HeartbeatIsTaken ==
    /\ peer = "open" /\ Takes
    /\ UNCHANGED <<toClient, link, CorrelationId, call, client, broker>>

CloseIsTaken ==
    /\ peer = "open" /\ Head(toBroker).key = "Close" /\ Replies("OK", << >>)
    /\ peer' = "closed" /\ UNCHANGED <<streams, opened>>

\* The broker sends a frame of its own.
TuneIsTold ==
    /\ link = "up" /\ peer = "authenticated" /\ peer' = "tuning"
    /\ Push("Tune", << >>) \in FromBroker /\ Tells(Push("Tune", << >>))
    /\ UNCHANGED <<toBroker, link, CorrelationId, call, client, streams, opened>>

CloseIsTold ==
    /\ peer' = "closed"
    /\ \E id \in Nat, code \in {"OK", "CloseCode"} :
         LET m == Message("Close", id, code, << >>) IN m \in FromBroker /\ Tells(m)
    /\ UNCHANGED <<toBroker, link, CorrelationId, call, client, streams, opened>>

PushIsTold ==
    /\ \E key \in {"Heartbeat", "MetadataUpdate"} : LET m == Push(key, << >>) IN
         m \in FromBroker /\ Tells(m)
    /\ UNCHANGED <<toBroker, link, CorrelationId, call, client, broker>>

Loses ==
    /\ toBroker' = << >> /\ link' = "down"
    /\ \E n \in 0..Len(toClient) : toClient' = SubSeq(toClient, 1, n)
    /\ UNCHANGED <<CorrelationId, call, client, broker>>

BrokerSteps ==
    \/ LoginIsAccepted \/ LoginIsRefused \/ TuneIsTaken
    \/ StreamIsCreated \/ StreamIsDeleted \/ MetadataIsTold \/ HeartbeatIsTaken \/ CloseIsTaken
    \/ TuneIsTold \/ CloseIsTold \/ PushIsTold \/ Loses

Steps == ClientSteps \/ BrokerSteps

-----------------------------------------------------------------------------
(* Every step of Next is one of these.                                     *)

LEMMA Sending ==
  ASSUME Types, NEW m \in FromClient, toBroker' = Sent(<<m>>)
  PROVE  Sends(m)
<1>1. toBroker \in Seq(FromClient)
  BY DEF Types
<1>2. toBroker \o <<m>> = Append(toBroker, m)
  BY <1>1
<1>3. QED
  BY <1>2 DEF Sent, Sends

LEMMA Telling ==
  ASSUME Types, NEW m \in FromBroker, BrokerSends(<<m>>)
  PROVE  Tells(m)
<1>1. toClient \in Seq(FromBroker)
  BY DEF Types
<1>2. toClient \o <<m>> = Append(toClient, m)
  BY <1>1
<1>3. QED
  BY <1>2 DEF BrokerSends, Tells

LEMMA FirstFrame ==
  ASSUME Types, toBroker # << >>
  PROVE  Head(toBroker) \in FromClient
<1>1. toBroker \in Seq(FromClient)
  BY DEF Types
<1>2. 1 \in DOMAIN toBroker /\ Head(toBroker) = toBroker[1]
  BY <1>1, TailFacts
<1>3. QED
  BY <1>1, <1>2, ElementOf

LEMMA Requesting ==
  ASSUME Types, NEW key, NEW arg, Request(key, arg),
         Message(key, CorrelationId + 1, "none", arg) \in FromClient,
         UNCHANGED <<step, reason, lastCreate, broker>>
  PROVE  Asks(key, arg)
<1>1. Sends(Message(key, CorrelationId + 1, "none", arg))
  BY Sending DEF Request
<1>2. QED
  BY <1>1 DEF Request, Asks

LEMMA LastId == Types => CorrelationId \in Nat /\ CorrelationId + 1 \in Nat \ {0}
<1>1. SUFFICES ASSUME Types PROVE CorrelationId \in Nat
  OBVIOUS
<1>2. CorrelationId \in 0..MaxRequests
  BY <1>1 DEF Types, TypeOK
<1>3. QED
  BY <1>2, RequestsAssumption

LEMMA LoginShape ==
  ASSUME Types, Login
  PROVE  Steps
<1>1. ASSUME NEW key \in LoginKeys, LoginRequest(key) PROVE LoginIsAsked
  <2>1. Message(key, CorrelationId + 1, "none", << >>) \in FromClient
    BY ClientFrames, LastId
  <2>2. Asks(key, << >>)
    BY <1>1, <2>1, Requesting DEF LoginRequest, client
  <2>3. QED
    BY <1>1, <2>2 DEF LoginIsAsked, LoginRequest, client
<1>2. CASE LoginResponse
  <2>1. IsAnswered
    BY <1>2 DEF LoginResponse, Response, Matches, Misread, Arrived, Take, Receives,
              IsAnswered
  <2>2. call.key \in LoginKeys
    BY <1>2, <2>1 DEF Types, Calling, LoginResponse, LoginSteps, IsAnswered
  <2>3. QED
    BY <1>2, <2>1, <2>2
       DEF LoginResponse, Fail, Good, LoginIsAnswered, Steps, ClientSteps
<1>3. CASE LoginGiveUp
  BY <1>3 DEF LoginGiveUp, GiveUp, Fail, Leaves, Steps, ClientSteps
<1>4. CASE Tune
  <2>1. Push("Tune", << >>) \in FromClient
    BY ClientFrames
  <2>2. Sends(Push("Tune", << >>))
    BY <1>4, <2>1, Sending DEF Tune
  <2>3. QED
    BY <1>4, <2>1, <2>2 DEF Tune, Arrived, Take, Receives, TuneIsSent, Steps, ClientSteps
<1>5. CASE NotTune \/ TunePart \/ NoTune
  <2>1. call = NoCall
    BY <1>5 DEF NotTune, TunePart, NoTune, Types, Calling, LoginKeys
  <2>2. QED
    BY <1>5, <2>1
       DEF NotTune, TunePart, NoTune, Arrived, Take, Receives, Fail, connection, Leaves,
           Steps, ClientSteps
<1>6. QED
  BY <1>1, <1>2, <1>3, <1>4, <1>5
     DEF Login, PeerProperties, SaslHandshake, SaslAuthenticate, Open, LoginKeys,
         Steps, ClientSteps

LEMMA SessionShape ==
  ASSUME Types,
         \/ \E s \in Stream : Create(s) \/ Delete(s) \/ Metadata(s)
         \/ Heartbeat \/ Logout
  PROVE  Steps
<1>1. ASSUME NEW s \in Stream, NEW key \in StreamKeys, StreamRequest(key, s)
      PROVE  StreamIsAsked
  <2>1. Message(key, CorrelationId + 1, "none", <<s>>) \in FromClient
    BY ClientFrames, LastId
  <2>2. Asks(key, <<s>>)
    BY <1>1, <2>1, Requesting DEF StreamRequest
  <2>3. QED
    BY <1>1, <2>2 DEF StreamIsAsked, StreamRequest
<1>2. CASE Heartbeat
  <2>1. Push("Heartbeat", << >>) \in FromClient
    BY ClientFrames
  <2>2. Sends(Push("Heartbeat", << >>))
    BY <1>2, <2>1, Sending DEF Heartbeat
  <2>3. QED
    BY <1>2, <2>1, <2>2 DEF Heartbeat, HeartbeatIsSent, Steps, ClientSteps
<1>3. CASE Logout
  <2>1. Message("Close", CorrelationId + 1, "none", << >>) \in FromClient
    BY ClientFrames, LastId
  <2>2. Asks("Close", << >>)
    BY <1>3, <2>1, Requesting DEF Logout, client
  <2>3. QED
    BY <1>3, <2>2 DEF CloseIsAsked, Logout, client, Steps, ClientSteps
<1>4. QED
  BY <1>1, <1>2, <1>3
     DEF Create, Delete, Metadata, StreamKeys, Changes, Steps, ClientSteps

LEMMA WaitingShape ==
  ASSUME Types, Waiting
  PROVE  Steps
<1>1. CASE StreamResponse
  <2>1. IsAnswered
    BY <1>1 DEF StreamResponse, Response, Matches, Misread, Arrived, Take, Receives,
              IsAnswered
  <2>2. QED
    BY <1>1, <2>1
       DEF StreamResponse, StreamIsAnswered, StreamKeys, Changes, Steps, ClientSteps
<1>2. CASE LogoutResponse
  <2>1. IsAnswered
    BY <1>2 DEF LogoutResponse, Response, Matches, Misread, Arrived, Take, Receives,
              IsAnswered
  <2>2. QED
    BY <1>2, <2>1 DEF LogoutResponse, CloseIsAnswered, Steps, ClientSteps
<1>3. CASE LoggedInGiveUp \/ SkipFrame \/ HandleMetadataUpdate
  BY <1>3 DEF LoggedInGiveUp, GiveUp, SkipFrame, Skip, HandleMetadataUpdate, Arrived, Take,
              Receives, client, Leaves, Steps, ClientSteps
<1>4. QED
  BY <1>1, <1>2, <1>3 DEF Waiting

LEMMA Replying ==
  ASSUME Types, link = "up", toBroker # << >>, BrokerTakes, UNCHANGED client,
         NEW code \in Codes, NEW arg \in Contents, Head(toBroker).key \in Asked,
         BrokerSends(<<Reply(Head(toBroker), code, arg)>>)
  PROVE  Replies(code, arg)
<1>1. Head(toBroker) \in FromClient
  BY FirstFrame
<1>2. Reply(Head(toBroker), code, arg) \in FromBroker
  BY <1>1, BrokerFrames
<1>3. QED
  BY <1>1, <1>2, Telling DEF Replies, Takes, BrokerTakes

LEMMA BrokerLoginShape ==
  ASSUME Types, BrokerLogin
  PROVE  Steps
<1> DEFINE m == Head(toBroker)
<1>1. /\ link = "up" /\ toBroker # << >> /\ peer \in LoginPeer /\ m.key = Expected[peer]
      /\ BrokerTakes /\ UNCHANGED client /\ streams' = streams
  BY Protocol DEF BrokerLogin
<1>2. m \in FromClient
  BY <1>1, FirstFrame
<1>3. m.key \in Asked \cup {"Tune", "Heartbeat"}
  BY <1>2, ClientFrame
<1>4. m.key \in LoginKeys \/ (m.key = "Tune" /\ peer = "tuning")
  BY <1>1, <1>3, Protocol DEF LoginPeer, LoginKeys, Asked, StreamKeys, Changes
<1>5. CASE /\ peer' = After[peer] /\ opened' = (opened \/ m.key = "Open")
           /\ CASE m.key = "Tune" -> UNCHANGED toClient
                [] m.key = "SaslHandshake" ->
                     \E mechanisms \in {{"PLAIN", "EXTERNAL"}, {"EXTERNAL"}} :
                         BrokerSends(<<Reply(m, "OK", <<mechanisms>>)>>)
                [] OTHER -> BrokerSends(<<Reply(m, "OK", << >>)>>)
  <2>1. CASE m.key = "Tune"
    <3>1. peer = "tuning" /\ peer' = "tuned" /\ opened' = opened /\ toClient' = toClient
      BY <1>4, <1>5, <2>1, Protocol DEF LoginKeys, Types, TypeOK
    <3>2. QED
      BY <1>1, <2>1, <3>1 DEF TuneIsTaken, Takes, BrokerTakes, Steps, BrokerSteps
  <2>2. CASE m.key # "Tune"
    <3>1. PICK arg \in Contents : BrokerSends(<<Reply(m, "OK", arg)>>)
      <4>1. CASE m.key = "SaslHandshake"
        <5>1. PICK mechanisms \in {{"PLAIN", "EXTERNAL"}, {"EXTERNAL"}} :
                BrokerSends(<<Reply(m, "OK", <<mechanisms>>)>>)
          BY <1>5, <4>1
        <5>2. <<mechanisms>> \in Contents
          BY DEF Contents
        <5>3. QED
          BY <5>1, <5>2
      <4>2. CASE m.key # "SaslHandshake"
        <5>1. BrokerSends(<<Reply(m, "OK", << >>)>>)
          BY <1>5, <2>2, <4>2
        <5>2. << >> \in Contents
          BY DEF Contents
        <5>3. QED
          BY <5>1, <5>2
      <4>3. QED
        BY <4>1, <4>2
    <3>2. m.key \in LoginKeys /\ m.key \in Asked /\ "OK" \in Codes
      BY <1>4, <2>2 DEF Asked, Codes
    <3>3. Replies("OK", arg)
      BY <1>1, <3>1, <3>2, Replying
    <3>4. QED
      BY <1>1, <1>5, <3>2, <3>3 DEF LoginIsAccepted, Steps, BrokerSteps
  <2>3. QED
    BY <2>1, <2>2
<1>6. CASE /\ m.key \in {"SaslAuthenticate", "Open"}
           /\ peer' = "closed" /\ UNCHANGED opened
           /\ BrokerSends(<<Reply(m, "AccessRefused", <<{}>>)>>)
  <2>1. /\ m.key \in LoginKeys /\ m.key \in Asked
        /\ "AccessRefused" \in Codes /\ <<{}>> \in Contents
    BY <1>6 DEF Asked, LoginKeys, Codes, Contents
  <2>2. Replies("AccessRefused", <<{}>>)
    BY <1>1, <1>6, <2>1, Replying
  <2>3. QED
    BY <1>1, <1>6, <2>1, <2>2 DEF LoginIsRefused, Steps, BrokerSteps
<1>7. QED
  BY <1>5, <1>6 DEF BrokerLogin

LEMMA BrokerStreamsShape ==
  ASSUME Types, BrokerStreams
  PROVE  Steps
<1> DEFINE m == Head(toBroker)
           s == m.arg[1]
<1>1. peer = "open" /\ BrokerTakes /\ UNCHANGED <<client, peer, opened>>
  BY DEF BrokerStreams
<1>2. /\ \A key \in StreamKeys : key \in Asked
      /\ {"OK", "StreamAlreadyExists", "PreconditionFailed", "StreamDoesNotExist", "none"}
           \subseteq Codes
      /\ {<< >>, <<"OK">>, <<"StreamDoesNotExist">>} \subseteq Contents
  BY DEF Asked, Codes, Contents
<1>3. ASSUME NEW key \in StreamKeys, BrokerSees(key)
      PROVE  link = "up" /\ toBroker # << >> /\ m.key = key /\ m.key \in Asked
  BY <1>2, <1>3 DEF BrokerSees
<1>4. CASE /\ BrokerSees("Create")
           /\ \/ /\ streams' = streams \cup {s}
                 /\ BrokerSends(<<Reply(m, IF s \in streams THEN "StreamAlreadyExists"
                                           ELSE "OK", << >>)>>)
              \/ /\ BrokerSends(<<Reply(m, "PreconditionFailed", << >>)>>)
                 /\ UNCHANGED streams
  <2>1. link = "up" /\ toBroker # << >> /\ m.key = "Create" /\ m.key \in Asked
    BY <1>3, <1>4 DEF StreamKeys, Changes
  <2>2. ASSUME NEW code \in Codes, BrokerSends(<<Reply(m, code, << >>)>>)
        PROVE  Replies(code, << >>)
    BY <1>1, <1>2, <2>1, <2>2, Replying
  <2>3. StreamIsCreated
    BY <1>1, <1>2, <1>4, <2>1, <2>2 DEF StreamIsCreated
  <2>4. QED
    BY <2>3 DEF Steps, BrokerSteps
<1>5. CASE /\ BrokerSees("Delete")
           /\ streams' = streams \ {s}
           /\ BrokerSends(<<Reply(m, IF s \in streams THEN "OK"
                                     ELSE "StreamDoesNotExist", << >>)>>)
  <2>1. link = "up" /\ toBroker # << >> /\ m.key = "Delete" /\ m.key \in Asked
    BY <1>3, <1>5 DEF StreamKeys, Changes
  <2>2. ASSUME NEW code \in Codes, BrokerSends(<<Reply(m, code, << >>)>>)
        PROVE  Replies(code, << >>)
    BY <1>1, <1>2, <2>1, <2>2, Replying
  <2>3. StreamIsDeleted
    BY <1>1, <1>2, <1>5, <2>1, <2>2 DEF StreamIsDeleted
  <2>4. QED
    BY <2>3 DEF Steps, BrokerSteps
<1>6. CASE /\ BrokerSees("Metadata")
           /\ BrokerSends(<<Reply(m, "none", <<IF s \in streams THEN "OK"
                                               ELSE "StreamDoesNotExist">>)>>)
           /\ UNCHANGED streams
  <2>1. link = "up" /\ toBroker # << >> /\ m.key = "Metadata" /\ m.key \in Asked
    BY <1>3, <1>6 DEF StreamKeys
  <2>2. PICK arg \in Contents :
          arg = <<IF s \in streams THEN "OK" ELSE "StreamDoesNotExist">>
    BY <1>2
  <2>3. BrokerSends(<<Reply(m, "none", arg)>>)
    BY <1>6, <2>2
  <2>4. Replies("none", arg)
    BY <1>1, <1>2, <2>1, <2>3, Replying
  <2>5. QED
    BY <1>1, <1>6, <2>1, <2>2, <2>4 DEF MetadataIsTold, Steps, BrokerSteps
<1>7. CASE BrokerSees("Heartbeat") /\ UNCHANGED <<streams, toClient>>
  BY <1>1, <1>7 DEF BrokerSees, BrokerTakes, Takes, HeartbeatIsTaken, Steps, BrokerSteps, broker
<1>8. QED
  BY <1>4, <1>5, <1>6, <1>7 DEF BrokerStreams

LEMMA BrokerShape ==
  ASSUME Types, Broker \/ (Lose /\ UNCHANGED <<client, broker>>)
  PROVE  Steps
<1>1. CASE BrokerTunes
  <2>1. Push("Tune", << >>) \in FromBroker
    BY BrokerFrames
  <2>2. Tells(Push("Tune", << >>)) /\ peer' = "tuning"
    BY <1>1, <2>1, Telling, Protocol DEF BrokerTunes
  <2>3. QED
    BY <1>1, <2>1, <2>2 DEF BrokerTunes, TuneIsTold, Steps, BrokerSteps
<1>2. CASE BrokerCloses
  <2>1. Head(toBroker).key \in Asked /\ "OK" \in Codes /\ << >> \in Contents
    BY <1>2 DEF BrokerCloses, BrokerSees, Asked, Codes, Contents
  <2>2. Replies("OK", << >>)
    BY <1>2, <2>1, Replying DEF BrokerCloses, BrokerSees
  <2>3. QED
    BY <1>2, <2>2 DEF BrokerCloses, BrokerSees, CloseIsTaken, Steps, BrokerSteps
<1>3. CASE BrokerSendsClose
  <2>1. PICK id \in Nat, code \in {"OK", "CloseCode"} :
          BrokerSends(<<Message("Close", id, code, << >>)>>)
    BY <1>3, LastId DEF BrokerSendsClose
  <2>2. Message("Close", id, code, << >>) \in FromBroker
    BY BrokerFrames
  <2>3. Tells(Message("Close", id, code, << >>))
    BY <2>1, <2>2, Telling
  <2>4. QED
    BY <1>3, <2>2, <2>3 DEF BrokerSendsClose, CloseIsTold, Steps, BrokerSteps
<1>4. ASSUME NEW key \in {"Heartbeat", "MetadataUpdate"}, BrokerPushes(key)
      PROVE  Steps
  <2>1. Push(key, << >>) \in FromBroker
    BY BrokerFrames
  <2>2. Tells(Push(key, << >>))
    BY <1>4, <2>1, Telling DEF BrokerPushes
  <2>3. QED
    BY <1>4, <2>1, <2>2 DEF BrokerPushes, PushIsTold, Steps, BrokerSteps
<1>5. CASE Lose /\ UNCHANGED <<client, broker>>
  BY <1>5 DEF Lose, Loses, Steps, BrokerSteps
<1>6. QED
  BY <1>1, <1>2, <1>3, <1>4, <1>5, BrokerLoginShape, BrokerStreamsShape DEF Broker

LEMMA Shapes == Types /\ [Next]_vars => Steps
<1>1. ASSUME UNCHANGED vars PROVE Steps
  BY <1>1 DEF vars, connection, client, broker, Leaves, Steps, ClientSteps
<1>2. ASSUME Types, Next PROVE Steps
  <2>1. CASE Login
    BY <1>2, <2>1, LoginShape
  <2>2. CASE \/ \E s \in Stream : Create(s) \/ Delete(s) \/ Metadata(s)
             \/ Heartbeat \/ Logout
    BY <1>2, <2>2, SessionShape
  <2>3. CASE Waiting
    BY <1>2, <2>3, WaitingShape
  <2>4. CASE Broker \/ (Lose /\ UNCHANGED <<client, broker>>)
    BY <1>2, <2>4, BrokerShape
  <2>5. QED
    BY <1>2, <2>1, <2>2, <2>3, <2>4, Zenon DEF Next
<1>3. QED
  BY <1>1, <1>2

-----------------------------------------------------------------------------
(* Every step keeps the types.                                             *)

\* What becomes of the frames to the broker, and of those to the client.
LEMMA ToBroker ==
  ASSUME Types, Steps
  PROVE  \/ toBroker' = toBroker /\ link' = link
         \/ link' = link /\ link = "up" /\ \E m \in FromClient : toBroker' = Append(toBroker, m)
         \/ Takes /\ link' = link
         \/ toBroker' = << >> /\ link' = "down"
<1>1. ASSUME NEW m \in FromClient, Sends(m), link' = link
      PROVE  \/ toBroker' = toBroker /\ link' = link
             \/ link' = link /\ link = "up" /\ toBroker' = Append(toBroker, m)
  BY <1>1 DEF Sends, Types, TypeOK
<1>2. CASE LoginIsAsked \/ StreamIsAsked \/ CloseIsAsked
  BY <1>1, <1>2 DEF LoginIsAsked, StreamIsAsked, CloseIsAsked, Asks
<1>3. CASE TuneIsSent \/ HeartbeatIsSent
  BY <1>1, <1>3 DEF TuneIsSent, HeartbeatIsSent
<1>4. CASE LoginIsAnswered \/ StreamIsAnswered \/ CloseIsAnswered \/ Leaves
  BY <1>4 DEF LoginIsAnswered, StreamIsAnswered, CloseIsAnswered, IsAnswered, Leaves
<1>5. CASE \/ LoginIsAccepted \/ LoginIsRefused \/ TuneIsTaken \/ StreamIsCreated
           \/ StreamIsDeleted \/ MetadataIsTold \/ HeartbeatIsTaken \/ CloseIsTaken
  BY <1>5 DEF LoginIsAccepted, LoginIsRefused, TuneIsTaken, StreamIsCreated, StreamIsDeleted,
              MetadataIsTold, HeartbeatIsTaken, CloseIsTaken, Replies
<1>6. CASE TuneIsTold \/ CloseIsTold \/ PushIsTold
  BY <1>6 DEF TuneIsTold, CloseIsTold, PushIsTold
<1>7. CASE Loses
  BY <1>7 DEF Loses
<1>8. QED
  BY <1>2, <1>3, <1>4, <1>5, <1>6, <1>7 DEF Steps, ClientSteps, BrokerSteps

LEMMA ToClient ==
  ASSUME Types, Steps
  PROVE  \/ toClient' = toClient
         \/ Receives
         \/ \E m \in FromBroker : Tells(m)
         \/ \E n \in 0..Len(toClient) : toClient' = SubSeq(toClient, 1, n)
<1>1. CASE LoginIsAsked \/ StreamIsAsked \/ CloseIsAsked \/ TuneIsSent \/ HeartbeatIsSent
  BY <1>1 DEF LoginIsAsked, StreamIsAsked, CloseIsAsked, Asks, TuneIsSent, HeartbeatIsSent
<1>2. CASE LoginIsAnswered \/ StreamIsAnswered \/ CloseIsAnswered \/ Leaves
  BY <1>2 DEF LoginIsAnswered, StreamIsAnswered, CloseIsAnswered, IsAnswered, Leaves
<1>3. ASSUME NEW code, NEW arg, Replies(code, arg) PROVE \E m \in FromBroker : Tells(m)
  BY <1>3 DEF Replies
<1>4. CASE LoginIsAccepted \/ LoginIsRefused \/ MetadataIsTold \/ CloseIsTaken
  BY <1>3, <1>4 DEF LoginIsAccepted, LoginIsRefused, MetadataIsTold, CloseIsTaken
<1>5. CASE StreamIsCreated \/ StreamIsDeleted
  BY <1>3, <1>5 DEF StreamIsCreated, StreamIsDeleted
<1>6. CASE TuneIsTaken \/ HeartbeatIsTaken
  BY <1>6 DEF TuneIsTaken, HeartbeatIsTaken
<1>7. CASE TuneIsTold \/ CloseIsTold \/ PushIsTold
  BY <1>7 DEF TuneIsTold, CloseIsTold, PushIsTold
<1>8. CASE Loses
  BY <1>8 DEF Loses
<1>9. QED
  BY <1>1, <1>2, <1>4, <1>5, <1>6, <1>7, <1>8 DEF Steps, ClientSteps, BrokerSteps

LEMMA ChannelsStep ==
  ASSUME Types, Steps
  PROVE  /\ toBroker' \in Seq(FromClient) /\ toClient' \in Seq(FromBroker)
         /\ link' = "down" => toBroker' = << >>
<1>1. PICK b \in Seq(FromClient) : b = toBroker
  BY DEF Types
<1>2. PICK c \in Seq(FromBroker) : c = toClient
  BY DEF Types
<1>3. /\ \A m \in FromClient : Append(b, m) \in Seq(FromClient)
      /\ b # << >> => Tail(b) \in Seq(FromClient)
      /\ << >> \in Seq(FromClient)
  BY TailFacts, AppendFacts
<1>4. /\ \A m \in FromBroker : Append(c, m) \in Seq(FromBroker)
      /\ c # << >> => Tail(c) \in Seq(FromBroker)
      /\ \A n \in 0..Len(c) : SubSeq(c, 1, n) \in Seq(FromBroker)
  BY TailFacts, AppendFacts, SetSub
<1>5. toBroker' \in Seq(FromClient)
  BY <1>1, <1>3, ToBroker, Zenon DEF Takes
<1>6. toClient' \in Seq(FromBroker)
  BY <1>2, <1>4, ToClient, Zenon DEF Receives, Tells
<1>7. link' = "down" => toBroker' = << >>
  BY ToBroker DEF Types, Takes
<1>8. QED
  BY <1>5, <1>6, <1>7

\* The call and the last correlation id.
LEMMA CallStep ==
  ASSUME Types, Steps
  PROVE  \/ CorrelationId' = CorrelationId /\ call' \in {call, NoCall}
         \/ \E key, arg : Asks(key, arg)
<1>1. CASE LoginIsAsked \/ StreamIsAsked \/ CloseIsAsked
  BY <1>1 DEF LoginIsAsked, StreamIsAsked, CloseIsAsked
<1>2. CASE TuneIsSent \/ HeartbeatIsSent
  BY <1>2 DEF TuneIsSent, HeartbeatIsSent
<1>3. CASE LoginIsAnswered \/ StreamIsAnswered \/ CloseIsAnswered \/ Leaves
  BY <1>3 DEF LoginIsAnswered, StreamIsAnswered, CloseIsAnswered, IsAnswered, Leaves
<1>4. CASE BrokerSteps
  BY <1>4 DEF BrokerSteps, LoginIsAccepted, LoginIsRefused, TuneIsTaken, StreamIsCreated,
              StreamIsDeleted, MetadataIsTold, HeartbeatIsTaken, CloseIsTaken, Replies,
              TuneIsTold, CloseIsTold, PushIsTold, Loses
<1>5. QED
  BY <1>1, <1>2, <1>3, <1>4 DEF Steps, ClientSteps

LEMMA AskFacts ==
  ASSUME Types, NEW key, NEW arg, Asks(key, arg)
  PROVE  /\ call' # NoCall /\ call'.key = key /\ call'.arg = arg
         /\ call'.corr = CorrelationId' /\ CorrelationId' # 0 /\ CorrelationId' \in 0..MaxRequests
<1>1. CorrelationId \in 0..MaxRequests /\ CorrelationId \in Nat
  BY LastId DEF Types, TypeOK
<1>2. call'.key = key /\ call'.arg = arg /\ call'.corr = CorrelationId + 1
  BY DEF Asks
<1>3. NoCall.corr = 0
  BY DEF NoCall
<1>4. QED
  BY <1>1, <1>2, <1>3, RequestsAssumption DEF Asks

LEMMA CallingStep ==
  ASSUME Types, Steps
  PROVE  Calling'
<1>1. CASE LoginIsAsked \/ StreamIsAsked \/ CloseIsAsked
  <2>1. PICK key, arg :
          /\ Asks(key, arg)
          /\ \/ key \in LoginKeys /\ step = key
             \/ key = "Close" /\ step = "loggedIn"
             \/ key \in StreamKeys /\ step = "loggedIn" /\ arg \in About
    BY <1>1 DEF LoginIsAsked, StreamIsAsked, CloseIsAsked, About
  <2>2. /\ call'.key = key /\ call'.arg = arg /\ call'.corr = CorrelationId'
        /\ CorrelationId' # 0 /\ step' = step
    BY <2>1, AskFacts DEF Asks
  <2>3. QED
    BY <2>1, <2>2 DEF Calling
<1>2. CASE TuneIsSent
  <2>1. call' = NoCall
    BY <1>2 DEF TuneIsSent, Types, Calling, LoginKeys
  <2>2. QED
    BY <2>1 DEF Calling
<1>3. CASE LoginIsAnswered \/ StreamIsAnswered \/ CloseIsAnswered
  <2>1. call' = NoCall
    BY <1>3 DEF LoginIsAnswered, StreamIsAnswered, CloseIsAnswered, IsAnswered
  <2>2. QED
    BY <2>1 DEF Calling
<1>4. CASE HeartbeatIsSent \/ Leaves \/ BrokerSteps
  <2>1. \/ call' = NoCall
        \/ call' = call /\ CorrelationId' = CorrelationId /\ step' = step
    BY <1>4 DEF HeartbeatIsSent, Leaves, BrokerSteps, LoginIsAccepted, LoginIsRefused,
                TuneIsTaken, StreamIsCreated, StreamIsDeleted, MetadataIsTold,
                HeartbeatIsTaken, CloseIsTaken, Replies, TuneIsTold, CloseIsTold, PushIsTold,
                Loses, client
  <2>2. QED
    BY <2>1 DEF Types, Calling
<1>5. QED
  BY <1>1, <1>2, <1>3, <1>4 DEF Steps, ClientSteps

LEMMA SaysFacts ==
  ASSUME NEW m, NEW before \in Result
  PROVE  /\ Says(m, before) \in Result
         /\ Says(m, before) = IF Says(m, "unknown") = "unknown" THEN before ELSE Says(m, "unknown")
BY DEF Says, Result

\* What the client keeps of the login and of the streams.
LEMMA ClientStep ==
  ASSUME Types, Steps
  PROVE  /\ step' \in LoginSteps \cup {"loggedIn", "failed", "loggedOut"}
         /\ reason' \in {"none", "refused", "timeout", "lost", "partial"}
         /\ lastCreate'.StreamAlreadyExists \in BOOLEAN
         /\ told' \in [Stream -> Result]
<1>1. /\ step \in LoginSteps \cup {"loggedIn", "failed", "loggedOut"}
      /\ reason \in {"none", "refused", "timeout", "lost", "partial"}
      /\ lastCreate.StreamAlreadyExists \in BOOLEAN
      /\ told \in [Stream -> Result]
  BY Zenon DEF Types, TypeOK
<1>2. CASE LoginIsAsked \/ CloseIsAsked \/ HeartbeatIsSent \/ BrokerSteps
  <2>1. UNCHANGED client
    BY <1>2 DEF LoginIsAsked, CloseIsAsked, Asks, HeartbeatIsSent, BrokerSteps,
                LoginIsAccepted, LoginIsRefused, TuneIsTaken, StreamIsCreated, StreamIsDeleted,
                MetadataIsTold, HeartbeatIsTaken, CloseIsTaken, Replies, TuneIsTold,
                CloseIsTold, PushIsTold, Loses, client
  <2>2. QED
    BY <1>1, <2>1 DEF client
<1>3. CASE StreamIsAsked
  BY <1>1, <1>3 DEF StreamIsAsked, Asks, Result
<1>4. CASE TuneIsSent
  BY <1>1, <1>4 DEF TuneIsSent, LoginSteps
<1>5. CASE LoginIsAnswered
  <2>1. step' \in LoginSteps \cup {"loggedIn", "failed", "loggedOut"}
    BY <1>5, NextSteps DEF LoginIsAnswered, LoginKeys, LoginSteps
  <2>2. QED
    BY <1>1, <1>5, <2>1 DEF LoginIsAnswered
<1>6. CASE StreamIsAnswered
  <2>1. call.arg[1] \in Stream
    BY <1>6 DEF StreamIsAnswered, IsAnswered, Types, Calling, StreamKeys, Changes, LoginKeys,
                About
  <2>2. told' \in [Stream -> Result]
    <3>1. told[call.arg[1]] \in Result
      BY <1>1, <2>1
    <3>2. Says(Head(toClient), told[call.arg[1]]) \in Result
      BY <3>1, SaysFacts
    <3>3. QED
      BY <1>1, <1>6, <3>2 DEF StreamIsAnswered
  <2>3. lastCreate'.StreamAlreadyExists \in BOOLEAN
    <3>1. CreateResult(Head(toClient)).StreamAlreadyExists \in BOOLEAN
      BY DEF CreateResult, Good
    <3>2. QED
      BY <1>1, <1>6, <3>1 DEF StreamIsAnswered
  <2>4. QED
    BY <1>1, <1>6, <2>2, <2>3 DEF StreamIsAnswered
<1>7. CASE CloseIsAnswered
  BY <1>1, <1>7 DEF CloseIsAnswered
<1>8. CASE Leaves
  BY <1>1, <1>8 DEF Leaves
<1>9. QED
  BY <1>2, <1>3, <1>4, <1>5, <1>6, <1>7, <1>8 DEF Steps, ClientSteps

LEMMA PeerStep ==
  ASSUME Types, Steps
  PROVE  /\ peer' \in DOMAIN Expected \cup {"open", "closed"}
         /\ streams' \subseteq Stream /\ opened' \in BOOLEAN
<1>1. /\ peer \in LoginPeer \cup {"open", "closed"} /\ DOMAIN Expected = LoginPeer
      /\ streams \subseteq Stream /\ opened \in BOOLEAN
  BY Protocol, Zenon DEF Types, TypeOK
<1>2. CASE LoginIsAccepted
  <2>1. peer' \in LoginPeer \cup {"open"}
    BY <1>2, Protocol DEF LoginIsAccepted, LoginPeer
  <2>2. QED
    BY <1>1, <1>2, <2>1 DEF LoginIsAccepted
<1>3. CASE \/ LoginIsRefused \/ TuneIsTaken \/ CloseIsTaken \/ TuneIsTold \/ CloseIsTold
  BY <1>1, <1>3 DEF LoginIsRefused, TuneIsTaken, CloseIsTaken, TuneIsTold, CloseIsTold,
                    LoginPeer
<1>4. CASE StreamIsCreated \/ StreamIsDeleted
  <2>1. Head(toBroker) \in FromClient /\ Head(toBroker).key \in StreamKeys
    BY <1>4 DEF StreamIsCreated, StreamIsDeleted, Replies, StreamKeys, Changes
  <2>2. Head(toBroker).arg[1] \in Stream
    BY <2>1, ClientFrame
  <2>3. QED
    BY <1>1, <1>4, <2>2 DEF StreamIsCreated, StreamIsDeleted
<1>5. CASE MetadataIsTold \/ HeartbeatIsTaken \/ PushIsTold \/ Loses
  BY <1>1, <1>5 DEF MetadataIsTold, HeartbeatIsTaken, PushIsTold, Loses, broker
<1>6. CASE ClientSteps
  BY <1>1, <1>6 DEF ClientSteps, LoginIsAsked, StreamIsAsked, CloseIsAsked, Asks, TuneIsSent,
                    HeartbeatIsSent, LoginIsAnswered, StreamIsAnswered, CloseIsAnswered,
                    IsAnswered, Leaves, broker
<1>7. QED
  BY <1>2, <1>3, <1>4, <1>5, <1>6 DEF Steps, BrokerSteps

LEMMA TypesStep ==
  ASSUME Types, Steps
  PROVE  Types'
<1>1. Calling'
  BY CallingStep
<1>2. /\ link' \in {"up", "down"}
      /\ CorrelationId' \in 0..MaxRequests
      /\ call' = NoCall \/ call'.corr = CorrelationId'
  <2>1. link' \in {"up", "down"}
    BY ToBroker DEF Types, TypeOK
  <2>2. CorrelationId' \in 0..MaxRequests
    BY CallStep, AskFacts DEF Types, TypeOK
  <2>3. QED
    BY <1>1, <2>1, <2>2 DEF Calling
<1>3. TypeOK'
  BY <1>2, ClientStep, PeerStep, Zenon DEF TypeOK
<1>4. QED
  BY <1>1, <1>3, ChannelsStep DEF Types

-----------------------------------------------------------------------------
(* The order of the protocol.                                              *)

\* A broker in the state p has gone through the step of key.
Gone(key, p) ==
    /\ key = "PeerProperties" => p # "start"
    /\ key = "SaslHandshake" => p \notin {"start", "properties"}
    /\ key = "SaslAuthenticate" => p \notin {"start", "properties", "handshake"}
    /\ key = "Tune" => p \notin {"start", "properties", "handshake", "authenticated"}
    /\ key = "Open" => p \in {"open", "closed"}

\* A good answer, or Tune, shows that the broker has gone through the step.
Shown ==
    \A m \in ToSet(toClient) : m.key = "Tune" \/ m.code = "OK" =>
        Gone(m.key, peer) /\ (m.key = "Open" => opened)

\* The commands tb are the ones a broker in the state p expects.
Fits(tb, p) ==
    \/ tb = << >>
    \/ p = "open" /\ \A j \in DOMAIN tb : tb[j].key \in Allowed("open")
    \/ /\ p \in {"start", "properties", "handshake", "tuning", "tuned"}
       /\ Len(tb) = 1 /\ tb[1].key = Expected[p]
    \/ p = "tuning" /\ Len(tb) = 2 /\ tb[1].key = "Tune" /\ tb[2].key = "Open"

\* How many commands may be on their way in each state of the broker, for a client at
\* the call st that waits or not.
Ready(st, waits, n, p) ==
    /\ st = "PeerProperties" =>
         IF waits THEN (n = 1 /\ p = "start") \/ (n = 0 /\ p = "properties")
         ELSE n = 0 /\ p = "start"
    /\ st = "SaslHandshake" =>
         IF waits THEN (n = 1 /\ p = "properties") \/ (n = 0 /\ p = "handshake")
         ELSE n = 0 /\ p = "properties"
    /\ st = "SaslAuthenticate" =>
         IF waits THEN (n = 1 /\ p = "handshake") \/ (n = 0 /\ p \in {"authenticated", "tuning"})
         ELSE n = 0 /\ p = "handshake"
    /\ st = "Tune" => n = 0 /\ p \in {"authenticated", "tuning"}
    /\ st = "Open" =>
         IF waits THEN \/ n = 2 /\ p = "tuning"
                       \/ n = 1 /\ p = "tuned"
                       \/ n = 0 /\ p = "open"
         ELSE (n = 1 /\ p = "tuning") \/ (n = 0 /\ p = "tuned")
    /\ st = "loggedIn" => p = "open"

Progress ==
    link = "up" /\ peer # "closed" =>
        Fits(toBroker, peer) /\ Ready(step, call # NoCall, Len(toBroker), peer)

\* Only a client that the broker has let in is logged in.
InOrder == Shown /\ Progress /\ LoggedInIsOpened

LEMMA InitOrder == Init => InOrder
<1>1. SUFFICES ASSUME Init PROVE InOrder
  OBVIOUS
<1>2. toBroker = << >> /\ toClient = << >> /\ call = NoCall /\ step = "PeerProperties" /\ peer = "start"
  BY <1>1 DEF Init, ConnectionInit
<1>3. Len(toBroker) = 0 /\ ToSet(toClient) = {}
  BY <1>2 DEF ToSet
<1>4. Progress
  BY <1>2, <1>3 DEF Progress, Fits, Ready
<1>5. QED
  BY <1>2, <1>3, <1>4 DEF InOrder, Shown, LoggedInIsOpened

LEMMA PeerGoesOn ==
  ASSUME Types, Steps
  PROVE  /\ \/ peer' = peer
            \/ peer' = "closed"
            \/ peer \in LoginPeer /\ peer' = After[peer]
         /\ opened => opened'
<1>1. CASE LoginIsAccepted
  BY <1>1, Zenon DEF LoginIsAccepted
<1>2. CASE TuneIsTaken \/ TuneIsTold
  <2>1. /\ peer \in LoginPeer /\ peer' = After[peer]
        /\ opened' = opened
    BY <1>2, Protocol DEF TuneIsTaken, TuneIsTold, LoginPeer
  <2>2. QED
    BY <2>1
<1>3. CASE LoginIsRefused \/ CloseIsTaken \/ CloseIsTold
  BY <1>3 DEF LoginIsRefused, CloseIsTaken, CloseIsTold
<1>4. CASE \/ StreamIsCreated \/ StreamIsDeleted \/ MetadataIsTold \/ HeartbeatIsTaken
           \/ PushIsTold \/ Loses
  BY <1>4 DEF StreamIsCreated, StreamIsDeleted, MetadataIsTold, HeartbeatIsTaken, PushIsTold,
              Loses, broker
<1>5. CASE ClientSteps
  <2>1. UNCHANGED broker
    BY <1>5 DEF ClientSteps, LoginIsAsked, StreamIsAsked, CloseIsAsked, Asks, TuneIsSent,
                HeartbeatIsSent, LoginIsAnswered, StreamIsAnswered, CloseIsAnswered,
                IsAnswered, Leaves
  <2>2. QED
    BY <2>1, Zenon DEF broker
<1>6. \/ LoginIsAccepted \/ TuneIsTaken \/ TuneIsTold
      \/ LoginIsRefused \/ CloseIsTaken \/ CloseIsTold
      \/ StreamIsCreated \/ StreamIsDeleted \/ MetadataIsTold \/ HeartbeatIsTaken
      \/ PushIsTold \/ Loses \/ ClientSteps
  BY Zenon DEF Steps, BrokerSteps
<1>7. QED
  BY <1>1, <1>2, <1>3, <1>4, <1>5, <1>6, Zenon

LEMMA StillGone ==
  ASSUME NEW key, NEW p, NEW q, Gone(key, p),
         \/ q = p
         \/ q = "closed"
         \/ p \in LoginPeer /\ q = After[p]
  PROVE  Gone(key, q)
<1>1. CASE q = p \/ q = "closed"
  BY <1>1 DEF Gone
<1>2. CASE p \in LoginPeer /\ q = After[p]
  BY <1>2, Protocol DEF Gone, LoginPeer
<1>3. QED
  BY <1>1, <1>2

\* What is new among the frames to the client.
LEMMA Arriving ==
  ASSUME Types, Steps
  PROVE  \/ ToSet(toClient') \subseteq ToSet(toClient)
         \/ \E m \in FromBroker : Tells(m) /\ ToSet(toClient') = ToSet(toClient) \cup {m}
<1>1. PICK c \in Seq(FromBroker) : c = toClient
  BY DEF Types
<1>2. /\ c # << >> => ToSet(Tail(c)) \subseteq ToSet(c)
      /\ \A m \in FromBroker : ToSet(Append(c, m)) = ToSet(c) \cup {m}
      /\ \A n \in 0..Len(c) : ToSet(SubSeq(c, 1, n)) \subseteq ToSet(c)
  BY SetTail, SetAppend, SetSub
<1>3. CASE toClient' = toClient
  BY <1>3
<1>4. CASE Receives
  BY <1>1, <1>2, <1>4, Zenon DEF Receives
<1>5. ASSUME NEW m \in FromBroker, Tells(m)
      PROVE  ToSet(toClient') = ToSet(toClient) \cup {m}
  BY <1>1, <1>2, <1>5, Zenon DEF Tells
<1>6. ASSUME NEW n \in 0..Len(toClient), toClient' = SubSeq(toClient, 1, n)
      PROVE  ToSet(toClient') \subseteq ToSet(toClient)
  BY <1>1, <1>2, <1>6, Zenon
<1>7. QED
  BY <1>3, <1>4, <1>5, <1>6, ToClient

LEMMA ReplyFacts ==
  ASSUME NEW m, NEW code, NEW arg
  PROVE  /\ Reply(m, code, arg).key = m.key /\ Reply(m, code, arg).corr = m.corr
         /\ Reply(m, code, arg).code = code /\ Reply(m, code, arg).arg = arg
BY DEF Reply, Message

\* A step tells the client one frame, and only these steps do.
LEMMA SameTold ==
  ASSUME Types, NEW m \in FromBroker, NEW n \in FromBroker, Tells(m), Tells(n)
  PROVE  n = m
<1>1. PICK c \in Seq(FromBroker) : c = toClient
  BY DEF Types
<1>2. Append(c, m) = Append(c, n)
  BY <1>1 DEF Tells
<1>3. Append(c, m)[Len(c) + 1] = m /\ Append(c, n)[Len(c) + 1] = n
  BY AppendFacts
<1>4. QED
  BY <1>2, <1>3

LEMMA WhoTells ==
  ASSUME Types, Steps, NEW m \in FromBroker, Tells(m)
  PROVE  \/ LoginIsAccepted \/ LoginIsRefused \/ StreamIsCreated \/ StreamIsDeleted
         \/ MetadataIsTold \/ CloseIsTaken \/ TuneIsTold \/ CloseIsTold \/ PushIsTold
<1>1. PICK c \in Seq(FromBroker) : c = toClient
  BY DEF Types
<1>2. Len(Append(c, m)) = Len(c) + 1 /\ Len(c) \in Nat
  BY AppendFacts
<1>3. toClient' # toClient
  BY <1>1, <1>2 DEF Tells
<1>4. c # << >> => Len(Tail(c)) = Len(c) - 1
  BY TailFacts
<1>5. \A n \in 0..Len(c) : Len(SubSeq(c, 1, n)) = n
  BY <1>2
<1>6. ~Receives
  BY <1>1, <1>2, <1>4 DEF Receives, Tells
<1>7. ~Loses
  BY <1>1, <1>2, <1>5 DEF Loses, Tells
<1>8. ~TuneIsTaken /\ ~HeartbeatIsTaken
  BY <1>3 DEF TuneIsTaken, HeartbeatIsTaken
<1>9. ~ClientSteps
  BY <1>3, <1>6 DEF ClientSteps, LoginIsAsked, StreamIsAsked, CloseIsAsked, Asks, TuneIsSent,
                    HeartbeatIsSent, LoginIsAnswered, StreamIsAnswered, CloseIsAnswered,
                    IsAnswered, Leaves
<1>10. QED
  BY <1>7, <1>8, <1>9 DEF Steps, BrokerSteps

\* Who sends Tune or a good answer has gone through its step.
LEMMA ShownStep ==
  ASSUME Types, Shown, Steps
  PROVE  Shown'
<1>1. ASSUME NEW m \in ToSet(toClient), m.key = "Tune" \/ m.code = "OK"
      PROVE  Gone(m.key, peer') /\ (m.key = "Open" => opened')
  <2>1. Gone(m.key, peer) /\ (m.key = "Open" => opened)
    BY <1>1 DEF Shown
  <2>2. Gone(m.key, peer')
    BY <2>1, PeerGoesOn, StillGone
  <2>3. m.key = "Open" => opened'
    BY <2>1, PeerGoesOn, Zenon
  <2>4. QED
    BY <2>2, <2>3
<1>2. CASE ToSet(toClient') \subseteq ToSet(toClient)
  BY <1>1, <1>2, Zenon DEF Shown
<1>3. ASSUME NEW m \in FromBroker, Tells(m), ToSet(toClient') = ToSet(toClient) \cup {m},
             m.key = "Tune" \/ m.code = "OK"
      PROVE  Gone(m.key, peer') /\ (m.key = "Open" => opened')
  <2>1. \A n \in FromBroker : Tells(n) => n = m
    BY <1>3, SameTold
  <2>3. CASE LoginIsAccepted
    <3>1. /\ peer \in LoginPeer /\ Head(toBroker).key = Expected[peer] /\ peer' = After[peer]
          /\ m.key = Head(toBroker).key
      BY <2>1, <2>3, ReplyFacts DEF LoginIsAccepted, Replies
    <3>2. Gone(m.key, peer')
      BY <3>1, Protocol DEF Gone, LoginPeer
    <3>3. m.key = "Open" => opened'
      BY <2>3, <3>1, Zenon DEF LoginIsAccepted
    <3>4. QED
      BY <3>2, <3>3
  <2>4. CASE LoginIsRefused
    <3>1. m.code = "AccessRefused" /\ peer' = "closed"
      BY <2>1, <2>4, ReplyFacts DEF LoginIsRefused, Replies
    <3>2. QED
      BY <1>3, <3>1 DEF Gone
  <2>5. CASE StreamIsCreated \/ StreamIsDeleted \/ MetadataIsTold \/ CloseIsTaken
    <3>1. m.key \in {"Create", "Delete", "Metadata", "Close"}
      BY <2>1, <2>5, ReplyFacts
         DEF StreamIsCreated, StreamIsDeleted, MetadataIsTold, CloseIsTaken, Replies
    <3>2. QED
      BY <3>1 DEF Gone
  <2>6. CASE TuneIsTold
    <3>1. m.key = "Tune" /\ peer' = "tuning"
      BY <2>1, <2>6 DEF TuneIsTold, Push, Message
    <3>2. QED
      BY <3>1 DEF Gone
  <2>7. CASE CloseIsTold
    <3>1. PICK id \in Nat, code \in {"OK", "CloseCode"} : m = Message("Close", id, code, << >>)
      BY <2>1, <2>7, Zenon DEF CloseIsTold
    <3>2. QED
      BY <3>1 DEF Message, Gone
  <2>8. CASE PushIsTold
    <3>1. PICK key \in {"Heartbeat", "MetadataUpdate"} : m = Push(key, << >>)
      BY <2>1, <2>8, Zenon DEF PushIsTold
    <3>2. QED
      BY <3>1 DEF Push, Message, Gone
  <2>9. QED
    BY <1>3, <2>3, <2>4, <2>5, <2>6, <2>7, <2>8, WhoTells
<1>4. CASE \E m \in FromBroker : Tells(m) /\ ToSet(toClient') = ToSet(toClient) \cup {m}
  <2>1. PICK m \in FromBroker : Tells(m) /\ ToSet(toClient') = ToSet(toClient) \cup {m}
    BY <1>4
  <2>2. ASSUME NEW x \in ToSet(toClient'), x.key = "Tune" \/ x.code = "OK"
        PROVE  Gone(x.key, peer') /\ (x.key = "Open" => opened')
    <3>1. CASE x = m
      BY <1>3, <2>1, <2>2, <3>1, Zenon
    <3>2. CASE x \in ToSet(toClient)
      BY <1>1, <2>2, <3>2, Zenon
    <3>3. QED
      BY <2>1, <3>1, <3>2
  <2>3. QED
    BY <2>2, Zenon DEF Shown
<1>5. QED
  BY <1>2, <1>4, Arriving

-----------------------------------------------------------------------------
(* The commands stay in the order of the protocol.                         *)

LEMMA LongerBy ==
  ASSUME NEW S, NEW s \in Seq(S), NEW e \in S, NEW t, t = Append(s, e), NEW n, n = Len(s)
  PROVE  /\ n \in Nat /\ (n = 0 <=> s = << >>) /\ Len(t) = n + 1 /\ t[n + 1] = e
         /\ DOMAIN s = 1..n /\ DOMAIN t = 1..(n + 1) /\ \A j \in 1..n : t[j] = s[j]
OBVIOUS

LEMMA LengthFacts ==
  ASSUME NEW S, NEW s \in Seq(S)
  PROVE  Len(s) \in Nat /\ DOMAIN s = 1..Len(s) /\ (Len(s) = 0 <=> s = << >>)
OBVIOUS

LEMMA ShorterBy ==
  ASSUME NEW S, NEW s \in Seq(S), s # << >>, NEW t, t = Tail(s), NEW n, n = Len(s)
  PROVE  /\ n \in Nat \ {0} /\ Len(t) = n - 1 /\ (n = 1 <=> t = << >>)
         /\ Head(s) = s[1] /\ DOMAIN s = 1..n /\ DOMAIN t = 1..(n - 1)
         /\ \A j \in 1..(n - 1) : t[j] = s[j + 1]
<1>1. /\ n \in Nat \ {0} /\ Head(s) = s[1] /\ DOMAIN s = 1..n
      /\ Len(t) = n - 1 /\ t \in Seq(S)
  BY TailFacts
<1>2. DOMAIN t = 1..Len(t) /\ (Len(t) = 0 <=> t = << >>)
  BY <1>1, LengthFacts
<1>3. \A j \in DOMAIN t : t[j] = s[j + 1]
  BY TailFacts
<1>4. QED
  BY <1>1, <1>2, <1>3

LEMMA ProgressAsks ==
  ASSUME Types, InOrder, LoginIsAsked
  PROVE  Progress'
<1>1. SUFFICES ASSUME link = "up", peer # "closed" PROVE Progress'
  BY DEF LoginIsAsked, Asks, broker, Progress
<1>2. PICK key \in LoginKeys : step = key /\ Asks(key, << >>)
  BY DEF LoginIsAsked
<1>3. PICK m \in FromClient : m = Message(key, CorrelationId + 1, "none", << >>)
  BY <1>2 DEF Asks
<1>4. PICK t, b : t = toBroker' /\ b = toBroker
  OBVIOUS
<1>5. PICK n : n = Len(b)
  OBVIOUS
<1>6. /\ n \in Nat /\ Len(t) = n + 1 /\ t[n + 1] = m
      /\ \A j \in 1..n : t[j] = b[j]
      /\ n = 0 <=> b = << >>
  <2>1. b \in Seq(FromClient)
    BY <1>4 DEF Types
  <2>2. t = Append(b, m)
    BY <1>1, <1>2, <1>3, <1>4 DEF Asks, Sends
  <2>3. QED
    BY <1>5, <2>1, <2>2, LongerBy
<1>7. Fits(b, peer) /\ Ready(key, FALSE, n, peer)
  BY <1>1, <1>2, <1>4, <1>5 DEF InOrder, Progress, Asks
<1>8. m.key = key /\ call' # NoCall /\ step' = key /\ peer' = peer
  BY <1>2, <1>3, AskFacts DEF Asks, Message, broker
<1>9. Fits(t, peer) /\ Ready(key, TRUE, n + 1, peer)
  <2>1. CASE n = 0 /\ peer \in {"start", "properties", "handshake", "tuned"}
    BY <1>6, <1>7, <1>8, <2>1, Protocol DEF Fits, Ready, LoginKeys
  <2>2. CASE n = 1 /\ peer = "tuning" /\ key = "Open"
    <3>1. b[1].key = "Tune" /\ t[1] = b[1]
      <4>1. b # << >> /\ 1 \in 1..n
        BY <1>6, <2>2
      <4>2. b[1].key = "Tune"
        BY <1>5, <1>7, <2>2, <4>1, Protocol DEF Fits
      <4>3. QED
        BY <1>6, <4>1, <4>2
    <3>2. QED
      BY <1>6, <1>8, <2>2, <3>1 DEF Fits, Ready
  <2>3. QED
    BY <1>7, <2>1, <2>2 DEF Ready, LoginKeys
<1>10. QED
  BY <1>4, <1>6, <1>8, <1>9 DEF Progress

\* A client that is logged in sends what an open session allows.
LEMMA ProgressSends ==
  ASSUME Types, InOrder, step = "loggedIn", NEW m \in FromClient, Sends(m),
         m.key \in Allowed("open"), UNCHANGED <<link, peer, step>>
  PROVE  Progress'
<1>1. SUFFICES ASSUME link = "up", peer # "closed" PROVE Progress'
  BY DEF Progress
<1>2. PICK t, b : t = toBroker' /\ b = toBroker
  OBVIOUS
<1>3. PICK n : n = Len(b)
  OBVIOUS
<1>4. /\ n \in Nat /\ t[n + 1] = m /\ DOMAIN b = 1..n /\ DOMAIN t = 1..(n + 1)
      /\ \A j \in 1..n : t[j] = b[j]
  <2>1. b \in Seq(FromClient)
    BY <1>2 DEF Types
  <2>2. t = Append(b, m)
    BY <1>1, <1>2 DEF Sends
  <2>3. QED
    BY <1>3, <2>1, <2>2, LongerBy
<1>5. peer = "open" /\ Fits(b, peer)
  BY <1>1, <1>2 DEF InOrder, Progress, Ready
<1>6. \A j \in DOMAIN b : b[j].key \in Allowed("open")
  <2>1. CASE b = << >>
    BY <2>1
  <2>2. CASE b # << >>
    BY <1>5, <2>2 DEF Fits
  <2>3. QED
    BY <2>1, <2>2
<1>7. \A j \in DOMAIN t : t[j].key \in Allowed("open")
  <2>1. ASSUME NEW j \in DOMAIN t PROVE t[j].key \in Allowed("open")
    <3>1. CASE j \in 1..n
      BY <1>4, <1>6, <3>1
    <3>2. CASE j = n + 1
      BY <1>4, <3>2
    <3>3. QED
      BY <1>4, <2>1, <3>1, <3>2
  <2>2. QED
    BY <2>1
<1>8. QED
  BY <1>2, <1>5, <1>7 DEF Progress, Fits, Ready

LEMMA ProgressTunes ==
  ASSUME Types, InOrder, TuneIsSent
  PROVE  Progress'
<1>1. SUFFICES ASSUME link = "up", peer # "closed" PROVE Progress'
  BY DEF TuneIsSent, broker, Progress
<1>2. PICK m \in FromClient : m = Push("Tune", << >>)
  BY DEF TuneIsSent
<1>3. PICK t, b : t = toBroker' /\ b = toBroker
  OBVIOUS
<1>4. b = << >> /\ peer \in {"authenticated", "tuning"}
  <2>1. Len(b) = 0 /\ peer \in {"authenticated", "tuning"}
    BY <1>1, <1>3 DEF InOrder, Progress, Ready, TuneIsSent
  <2>2. b \in Seq(FromClient)
    BY <1>3 DEF Types
  <2>3. QED
    BY <2>1, <2>2, LengthFacts
<1>5. peer = "tuning"
  <2>1. Head(toClient) \in ToSet(toClient)
    BY SetTail DEF Types, TuneIsSent, Receives
  <2>2. Gone("Tune", peer)
    BY <2>1 DEF InOrder, Shown, TuneIsSent
  <2>3. QED
    BY <1>4, <2>2 DEF Gone
<1>6. Len(t) = 1 /\ t[1] = m
  <2>1. b \in Seq(FromClient)
    BY <1>3 DEF Types
  <2>2. t = Append(b, m)
    BY <1>1, <1>2, <1>3 DEF TuneIsSent, Sends
  <2>3. PICK n : n = Len(b)
    OBVIOUS
  <2>4. n = 0 /\ Len(t) = n + 1 /\ t[n + 1] = m
    BY <1>4, <2>1, <2>2, <2>3, LongerBy
  <2>5. QED
    BY <2>4
<1>7. /\ m.key = "Tune" /\ step' = "Open" /\ call' = NoCall /\ peer' = peer
  BY <1>2 DEF TuneIsSent, Push, Message, broker, Types, Calling, LoginKeys
<1>8. QED
  BY <1>3, <1>5, <1>6, <1>7, Protocol DEF Progress, Fits, Ready

LEMMA ProgressAnswered ==
  ASSUME Types, InOrder, LoginIsAnswered
  PROVE  Progress'
<1>1. /\ UNCHANGED <<toBroker, link, peer>> /\ call' = NoCall /\ call # NoCall
      /\ call.key \in LoginKeys
  BY DEF LoginIsAnswered, IsAnswered, broker
<1>2. SUFFICES ASSUME link = "up", peer # "closed" PROVE Progress'
  BY <1>1 DEF Progress
<1>3. PICK n : n = Len(toBroker)
  OBVIOUS
<1>4. Fits(toBroker, peer) /\ Ready(step, TRUE, n, peer)
  BY <1>1, <1>2, <1>3 DEF InOrder, Progress
<1>5. step = call.key
  BY <1>1 DEF Types, Calling, LoginKeys, StreamKeys, Changes
<1>6. CASE step' = "failed"
  BY <1>1, <1>4, <1>6 DEF Progress, Ready
<1>7. CASE Head(toClient).key = call.key /\ Head(toClient).code = "OK" /\ step' = NextStep(call.key)
  <2>1. Head(toClient) \in ToSet(toClient)
    BY SetTail DEF Types, LoginIsAnswered, IsAnswered, Receives
  <2>2. Gone(step, peer)
    BY <1>5, <1>7, <2>1 DEF InOrder, Shown
  <2>3. Ready(step', FALSE, n, peer)
    BY <1>1, <1>4, <1>5, <1>7, <2>2, NextSteps DEF LoginKeys, Gone, Ready
  <2>4. QED
    BY <1>1, <1>3, <1>4, <2>3 DEF Progress
<1>8. QED
  BY <1>6, <1>7 DEF LoginIsAnswered

\* The broker takes a command of the login.
LEMMA ProgressLogin ==
  ASSUME Types, InOrder, LoginIsAccepted \/ TuneIsTaken
  PROVE  Progress'
<1>1. /\ link = "up" /\ toBroker # << >> /\ toBroker' = Tail(toBroker)
      /\ peer \in LoginPeer /\ Head(toBroker).key = Expected[peer] /\ peer' = After[peer]
      /\ Head(toBroker).key \in LoginKeys \cup {"Tune"}
      /\ UNCHANGED <<call, step>>
  BY Protocol DEF LoginIsAccepted, TuneIsTaken, Replies, Takes, client, LoginPeer
<1>2. PICK t, b, n : t = toBroker' /\ b = toBroker /\ n = Len(b)
  OBVIOUS
<1>3. /\ n \in Nat \ {0} /\ Len(t) = n - 1 /\ (n = 1 <=> t = << >>)
      /\ Head(b) = b[1] /\ \A j \in 1..(n - 1) : t[j] = b[j + 1]
  <2>1. b \in Seq(FromClient) /\ b # << >> /\ t = Tail(b)
    BY <1>1, <1>2 DEF Types
  <2>2. QED
    BY <1>2, <2>1, ShorterBy
<1>4. Fits(b, peer) /\ Ready(step, call # NoCall, n, peer)
  BY <1>1, <1>2 DEF InOrder, Progress, LoginPeer
<1>5. \/ n = 1 /\ peer \in {"start", "properties", "handshake", "tuning", "tuned"}
      \/ n = 2 /\ peer = "tuning" /\ b[2].key = "Open"
  BY <1>1, <1>2, <1>4 DEF Fits, LoginPeer
<1>6. Fits(t, peer')
  <2>1. CASE n = 1
    BY <1>3, <2>1 DEF Fits
  <2>2. CASE n = 2
    <3>1. Len(t) = 1 /\ t[1] = b[2] /\ peer' = "tuned"
      BY <1>1, <1>3, <1>5, <2>2, Protocol
    <3>2. QED
      BY <1>5, <2>2, <3>1, Protocol DEF Fits
  <2>3. QED
    BY <1>5, <2>1, <2>2
<1>7. Ready(step, call # NoCall, n - 1, peer')
  BY <1>1, <1>4, <1>5, Protocol DEF Ready
<1>8. QED
  BY <1>1, <1>2, <1>3, <1>6, <1>7 DEF Progress

\* The broker takes a command of an open session.
LEMMA ProgressServes ==
  ASSUME Types, InOrder, peer = "open", Takes, UNCHANGED <<peer, step, call>>
  PROVE  Progress'
<1>1. PICK t, b, n : t = toBroker' /\ b = toBroker /\ n = Len(b)
  OBVIOUS
<1>2. /\ n \in Nat \ {0} /\ DOMAIN b = 1..n /\ DOMAIN t = 1..(n - 1)
      /\ \A j \in 1..(n - 1) : t[j] = b[j + 1]
  <2>1. b \in Seq(FromClient) /\ b # << >> /\ t = Tail(b)
    BY <1>1 DEF Types, Takes
  <2>2. QED
    BY <1>1, <2>1, ShorterBy
<1>3. Fits(b, peer) /\ Ready(step, call # NoCall, n, peer)
  BY <1>1 DEF InOrder, Progress, Takes
<1>4. \A j \in DOMAIN b : b[j].key \in Allowed("open")
  <2>1. b # << >>
    BY <1>1 DEF Takes
  <2>2. QED
    BY <1>3, <2>1 DEF Fits
<1>5. \A j \in DOMAIN t : t[j].key \in Allowed("open")
  BY <1>2, <1>4
<1>6. Ready(step, call # NoCall, Len(t), peer)
  BY <1>2, <1>3 DEF Ready
<1>7. QED
  BY <1>1, <1>5, <1>6 DEF Progress, Fits

LEMMA OpenAllows ==
  Allowed("open") = {"Create", "Delete", "Metadata", "Close", "Heartbeat"}
BY DEF Allowed

LEMMA ProgressStep ==
  ASSUME Types, InOrder, Steps
  PROVE  Progress'
<1>1. CASE StreamIsAsked \/ CloseIsAsked
  <2>1. PICK key, arg :
          /\ key \in StreamKeys \cup {"Close"} /\ step = "loggedIn" /\ Asks(key, arg)
    BY <1>1 DEF StreamIsAsked, CloseIsAsked
  <2>2. PICK m \in FromClient : m = Message(key, CorrelationId + 1, "none", arg) /\ Sends(m)
    BY <2>1 DEF Asks
  <2>3. m.key \in Allowed("open")
    BY <2>1, <2>2, OpenAllows DEF Message, StreamKeys, Changes
  <2>4. UNCHANGED <<link, peer, step>>
    BY <2>1 DEF Asks, broker
  <2>5. QED
    BY <2>1, <2>2, <2>3, <2>4, ProgressSends
<1>2. CASE HeartbeatIsSent
  <2>1. PICK m \in FromClient : m = Push("Heartbeat", << >>) /\ Sends(m)
    BY <1>2 DEF HeartbeatIsSent
  <2>2. m.key \in Allowed("open")
    BY <2>1, OpenAllows DEF Push, Message
  <2>3. UNCHANGED <<link, peer, step>> /\ step = "loggedIn"
    BY <1>2 DEF HeartbeatIsSent, client, broker
  <2>4. QED
    BY <2>1, <2>2, <2>3, ProgressSends
<1>3. CASE StreamIsAnswered \/ CloseIsAnswered
  <2>1. /\ UNCHANGED <<toBroker, link, peer>> /\ step' \in {step, "loggedOut"}
        /\ step = "loggedIn"
    BY <1>3 DEF StreamIsAnswered, CloseIsAnswered, IsAnswered, broker, Types, Calling,
                LoginKeys, StreamKeys, Changes
  <2>2. QED
    BY <2>1 DEF InOrder, Progress, Ready
<1>4. CASE Leaves
  <2>1. /\ UNCHANGED <<toBroker, link, peer>>
        /\ \/ UNCHANGED <<call, step>>
           \/ step = "loggedIn" /\ step' = step
           \/ step' = "failed"
    BY <1>4 DEF Leaves, broker
  <2>2. QED
    BY <2>1 DEF InOrder, Progress, Ready
<1>5. CASE LoginIsRefused \/ CloseIsTaken \/ CloseIsTold
  BY <1>5 DEF LoginIsRefused, CloseIsTaken, CloseIsTold, Progress
<1>6. CASE StreamIsCreated \/ StreamIsDeleted \/ MetadataIsTold \/ HeartbeatIsTaken
  <2>1. peer = "open" /\ Takes /\ UNCHANGED <<peer, step, call>>
    BY <1>6 DEF StreamIsCreated, StreamIsDeleted, MetadataIsTold, HeartbeatIsTaken, Replies,
                client, broker
  <2>2. QED
    BY <2>1, ProgressServes
<1>7. CASE TuneIsTold
  <2>1. UNCHANGED <<toBroker, link, call, step>> /\ peer = "authenticated" /\ peer' = "tuning"
    BY <1>7 DEF TuneIsTold, client
  <2>2. QED
    BY <2>1 DEF InOrder, Progress, Fits, Ready
<1>8. CASE PushIsTold
  <2>1. UNCHANGED <<toBroker, link, call, step, peer>>
    BY <1>8 DEF PushIsTold, client, broker
  <2>2. QED
    BY <2>1 DEF InOrder, Progress
<1>9. CASE Loses
  BY <1>9 DEF Loses, Progress
<1>10. QED
  BY <1>1, <1>2, <1>3, <1>4, <1>5, <1>6, <1>7, <1>8, <1>9, ProgressAsks, ProgressTunes,
     ProgressAnswered, ProgressLogin DEF Steps, ClientSteps, BrokerSteps

LEMMA LoggedInStep ==
  ASSUME Types, InOrder, Steps
  PROVE  LoggedInIsOpened'
<1>1. CASE LoginIsAnswered
  <2>1. SUFFICES ASSUME step' \in {"loggedIn", "loggedOut"} PROVE opened'
    BY DEF LoggedInIsOpened
  <2>2. /\ Head(toClient).key = call.key /\ Head(toClient).code = "OK"
        /\ step' = NextStep(call.key) /\ call.key \in LoginKeys
    BY <1>1, <2>1 DEF LoginIsAnswered
  <2>3. call.key = "Open"
    BY <2>1, <2>2, NextSteps DEF LoginKeys
  <2>4. Head(toClient) \in ToSet(toClient)
    BY <1>1, SetTail DEF Types, LoginIsAnswered, IsAnswered, Receives
  <2>5. opened
    BY <2>2, <2>3, <2>4 DEF InOrder, Shown
  <2>6. QED
    BY <2>5, PeerGoesOn, Zenon
<1>2. ASSUME step' \in {"loggedIn", "loggedOut"} => step \in {"loggedIn", "loggedOut"}
      PROVE  LoggedInIsOpened'
  <2>1. LoggedInIsOpened
    BY DEF InOrder
  <2>2. opened => opened'
    BY PeerGoesOn
  <2>3. QED
    BY <1>2, <2>1, <2>2, Zenon DEF LoggedInIsOpened
<1>3. CASE \/ LoginIsAsked \/ StreamIsAsked \/ CloseIsAsked \/ TuneIsSent \/ HeartbeatIsSent
           \/ StreamIsAnswered \/ Leaves
  BY <1>2, <1>3 DEF LoginIsAsked, StreamIsAsked, CloseIsAsked, Asks, TuneIsSent,
                    HeartbeatIsSent, StreamIsAnswered, Leaves, client
<1>4. CASE CloseIsAnswered
  <2>1. step = "loggedIn"
    BY <1>4 DEF CloseIsAnswered, IsAnswered, Types, Calling, LoginKeys, StreamKeys, Changes
  <2>2. QED
    BY <1>2, <2>1
<1>5. CASE BrokerSteps
  <2>1. step' = step
    BY <1>5 DEF BrokerSteps, LoginIsAccepted, LoginIsRefused, TuneIsTaken, StreamIsCreated,
                StreamIsDeleted, MetadataIsTold, HeartbeatIsTaken, CloseIsTaken, Replies,
                TuneIsTold, CloseIsTold, PushIsTold, Loses, client
  <2>2. QED
    BY <1>2, <2>1
<1>6. QED
  BY <1>1, <1>3, <1>4, <1>5 DEF Steps, ClientSteps

LEMMA OrderStep ==
  ASSUME Types, InOrder, Steps
  PROVE  InOrder'
BY ShownStep, ProgressStep, LoggedInStep DEF InOrder

LEMMA OrderSays ==
  ASSUME Types, InOrder
  PROVE  InProtocolOrder
<1>1. SUFFICES ASSUME toBroker # << >>, peer # "closed" PROVE Head(toBroker).key \in Allowed(peer)
  BY DEF InProtocolOrder
<1>2. link = "up"
  BY <1>1 DEF Types, TypeOK
<1>3. Fits(toBroker, peer)
  BY <1>1, <1>2 DEF InOrder, Progress
<1>4. toBroker[1] = Head(toBroker) /\ 1 \in DOMAIN toBroker
  BY <1>1, TailFacts DEF Types
<1>5. CASE peer = "open"
  BY <1>1, <1>3, <1>4, <1>5 DEF Fits
<1>6. CASE peer # "open"
  <2>1. toBroker[1].key = Expected[peer]
    BY <1>1, <1>3, <1>6, Protocol DEF Fits
  <2>2. QED
    BY <1>4, <1>6, <2>1 DEF Allowed
<1>7. QED
  BY <1>5, <1>6

-----------------------------------------------------------------------------
(* What the results say of a stream.                                       *)

Turn == InTurn(toBroker, << >>, CorrelationId, call)

\* A stream that is to be changed is one the client claims nothing of.
Undecided ==
    \A m \in ToSet(toBroker) : m.key \in Changes => told[m.arg[1]] = "unknown"

\* The broker has no other ids than those of its own Close and those of requests made.
KnownIds == \A m \in ToSet(toClient) : m.key = "Close" \/ m.corr <= CorrelationId

\* The answer to the call that waits says how things are, and no request is left that
\* could change them.
TrueAnswers ==
    call # NoCall =>
        \A m \in ToSet(toClient) : m.corr = call.corr /\ m.key # "Close" =>
            /\ \A f \in ToSet(toBroker) : f.corr = 0
            /\ call.key \in StreamKeys /\ m.key = call.key =>
                 /\ Says(m, "unknown") = "exists" => call.arg[1] \in streams
                 /\ Says(m, "unknown") = "absent" => call.arg[1] \notin streams

Truth == Turn /\ Undecided /\ KnownIds /\ TrueAnswers /\ ToldTheTruth

LEMMA InitTruth == Init => Truth
<1>1. SUFFICES ASSUME Init PROVE Truth
  OBVIOUS
<1>2. /\ toBroker = << >> /\ toClient = << >> /\ CorrelationId = 0 /\ call = NoCall
      /\ told = [s \in Stream |-> "unknown"]
  BY <1>1 DEF Init, ConnectionInit
<1>3. ToSet(toBroker) = {} /\ ToSet(toClient) = {}
  BY <1>2 DEF ToSet
<1>4. Turn
  BY <1>2, InTurnAtFirst DEF Turn
<1>5. QED
  BY <1>2, <1>3, <1>4 DEF Truth, Undecided, KnownIds, TrueAnswers, ToldTheTruth

\* What is new among the frames to the broker.
LEMMA Queueing ==
  ASSUME Types, NEW m \in FromClient, Sends(m)
  PROVE  ToSet(toBroker') \subseteq ToSet(toBroker) \cup {m}
<1>1. PICK b \in Seq(FromClient) : b = toBroker
  BY DEF Types
<1>2. ToSet(Append(b, m)) = ToSet(b) \cup {m}
  BY SetAppend
<1>3. QED
  BY <1>1, <1>2, Zenon DEF Sends

LEMMA Taking ==
  ASSUME Types, Takes
  PROVE  /\ ToSet(toBroker') \subseteq ToSet(toBroker)
         /\ Head(toBroker) \in ToSet(toBroker) /\ Head(toBroker) \in FromClient
<1>1. PICK b \in Seq(FromClient) : b = toBroker
  BY DEF Types
<1>2. b # << >>
  BY <1>1 DEF Takes
<1>3. ToSet(Tail(b)) \subseteq ToSet(b) /\ Head(b) \in ToSet(b)
  BY <1>2, SetTail
<1>4. Head(b) \in FromClient
  BY <1>1, <1>2, FirstFrame
<1>5. QED
  BY <1>1, <1>3, <1>4, Zenon DEF Takes

LEMMA FramesOf ==
  ASSUME Types
  PROVE  /\ \A m \in ToSet(toBroker) : m \in FromClient
         /\ \A m \in ToSet(toClient) : m \in FromBroker
<1>1. PICK b \in Seq(FromClient), c \in Seq(FromBroker) : b = toBroker /\ c = toClient
  BY DEF Types
<1>2. \A i \in DOMAIN b : b[i] \in FromClient
  BY ElementOf
<1>3. \A i \in DOMAIN c : c[i] \in FromBroker
  BY ElementOf
<1>4. QED
  BY <1>1, <1>2, <1>3 DEF ToSet

LEMMA BrokerFrame ==
  ASSUME NEW m \in FromBroker
  PROVE  m.corr \in Nat /\ (m.key \in StreamKeys => m.key # "Close" /\ ~IsShort(m))
<1>1. CASE m \in [key : Asked, corr : Nat \ {0}, code : Codes, arg : Contents]
  BY <1>1 DEF StreamKeys, Changes, IsShort
<1>2. CASE m \in [key : {"Tune", "Heartbeat", "MetadataUpdate"}, corr : {0}, code : {"none"},
                  arg : {<< >>}]
  BY <1>2 DEF StreamKeys, Changes
<1>3. CASE m \in [key : {"Close"}, corr : Nat, code : {"OK", "CloseCode"}, arg : {<< >>}]
  BY <1>3 DEF StreamKeys, Changes
<1>4. QED
  BY <1>1, <1>2, <1>3 DEF FromBroker

LEMMA TurnStep ==
  ASSUME Types, Truth, Steps
  PROVE  Turn'
<1>1. /\ call # NoCall => call.corr \in Nat \ {0}
      /\ CorrelationId \in Nat /\ toBroker \in Seq(FromClient)
  <2>1. call # NoCall => call.corr = CorrelationId /\ CorrelationId # 0
    BY DEF Types, Calling
  <2>2. CorrelationId \in Nat /\ toBroker \in Seq(FromClient)
    BY LastId DEF Types
  <2>3. QED
    BY <2>1, <2>2
<1>2. PICK b \in Seq(FromClient) : b = toBroker
  BY <1>1
<1>3. PICK last \in Nat : last = CorrelationId
  BY <1>1
<1>4. PICK c : c = call /\ (c # NoCall => c.corr \in Nat \ {0})
  BY <1>1
<1>5. InTurn(b, << >>, last, c)
  BY <1>2, <1>3, <1>4 DEF Truth, Turn
<1>6. << >> \in Seq(FromBroker) /\ \A m \in FromBroker : m.corr \in Nat
  BY BrokerFrame
<1>7. ASSUME UNCHANGED <<toBroker, CorrelationId>>, call' \in {call, NoCall}
      PROVE  Turn'
  <2>1. InTurn(b, << >>, last, NoCall)
    BY <1>5, InTurnEnds
  <2>2. QED
    BY <1>2, <1>3, <1>4, <1>5, <1>7, <2>1 DEF Turn
<1>8. CASE LoginIsAsked \/ StreamIsAsked \/ CloseIsAsked
  <2>1. PICK key, arg : Asks(key, arg)
    BY <1>8 DEF LoginIsAsked, StreamIsAsked, CloseIsAsked
  <2>2. PICK t : t = toBroker'
    OBVIOUS
  <2>3. t = b \/ t = Append(b, Message(key, last + 1, "none", arg))
    BY <1>2, <1>3, <1>4, <2>1, <2>2 DEF Asks, Sends
  <2>4. \A m \in FromClient : m.corr \in Nat
    BY ClientFrame
  <2>5. InTurn(t, << >>, last + 1, [key |-> key, corr |-> last + 1, arg |-> arg])
    BY <1>5, <1>6, <2>3, <2>4, InTurnNew
  <2>6. QED
    BY <1>2, <1>3, <1>4, <2>1, <2>2, <2>5 DEF Turn, Asks
<1>9. CASE TuneIsSent \/ HeartbeatIsSent
  <2>1. PICK m \in FromClient : m.corr = 0 /\ Sends(m)
    BY <1>9 DEF TuneIsSent, HeartbeatIsSent, Push, Message
  <2>2. UNCHANGED <<call, CorrelationId>>
    BY <1>9 DEF TuneIsSent, HeartbeatIsSent
  <2>3. InTurn(Append(b, m), << >>, last, c)
    BY <1>2, <1>3, <1>4, <1>5, <2>1, InTurnPush
  <2>4. QED
    BY <1>2, <1>3, <1>4, <1>5, <2>1, <2>2, <2>3 DEF Turn, Sends
<1>10. CASE LoginIsAnswered \/ StreamIsAnswered \/ CloseIsAnswered \/ Leaves
  BY <1>7, <1>10 DEF LoginIsAnswered, StreamIsAnswered, CloseIsAnswered, IsAnswered, Leaves
<1>11. CASE TuneIsTold \/ CloseIsTold \/ PushIsTold
  BY <1>7, <1>11 DEF TuneIsTold, CloseIsTold, PushIsTold
<1>12. CASE \/ LoginIsAccepted \/ LoginIsRefused \/ TuneIsTaken \/ StreamIsCreated
           \/ StreamIsDeleted \/ MetadataIsTold \/ HeartbeatIsTaken \/ CloseIsTaken
  <2>1. Takes /\ UNCHANGED <<call, CorrelationId>>
    BY <1>12 DEF LoginIsAccepted, LoginIsRefused, TuneIsTaken, StreamIsCreated,
                StreamIsDeleted, MetadataIsTold, HeartbeatIsTaken, CloseIsTaken, Replies
  <2>2. b # << >> /\ toBroker' = Tail(b)
    BY <1>2, <1>3, <1>4, <2>1 DEF Takes
  <2>3. InTurn(Tail(b), << >>, last, c)
    BY <1>5, <2>2, InTurnTaken
  <2>4. QED
    BY <1>2, <1>3, <1>4, <2>1, <2>2, <2>3 DEF Turn
<1>13. CASE Loses
  BY <1>2, <1>3, <1>4, <1>5, <1>13 DEF Loses, Turn, InTurn
<1>14. QED
  BY <1>8, <1>9, <1>10, <1>11, <1>12, <1>13 DEF Steps, ClientSteps, BrokerSteps

\* The first frame to the broker, and what is behind it.
LEMMA TurnFirst ==
  ASSUME Types, Truth, Takes
  PROVE  /\ Head(toBroker).corr <= CorrelationId
         /\ call # NoCall /\ Head(toBroker).corr = call.corr =>
              /\ Head(toBroker).key = call.key /\ Head(toBroker).arg = call.arg
              /\ \A f \in ToSet(toBroker') : f.corr = 0
<1>1. PICK b, t, c, last :
        /\ b = toBroker /\ t = toBroker' /\ c = call /\ last = CorrelationId
        /\ b \in Seq(FromClient)
  BY DEF Types
<1>2. b \in Seq(FromClient) /\ b # << >> /\ InTurn(b, << >>, last, c)
  BY <1>1 DEF Truth, Turn, Takes
<1>3. /\ Head(b).corr <= last
      /\ c # NoCall /\ Head(b).corr = c.corr =>
           /\ Head(b).key = c.key /\ Head(b).arg = c.arg
           /\ \A k \in DOMAIN Tail(b) : Tail(b)[k].corr = 0
  BY <1>2, InTurnTaken
<1>4. t = Tail(b)
  BY <1>1 DEF Takes
<1>5. c # NoCall /\ Head(b).corr = c.corr => \A k \in DOMAIN t : t[k].corr = 0
  BY <1>3, <1>4, Zenon
<1>6. QED
  BY <1>1, <1>3, <1>5 DEF ToSet

LEMMA KnownStep ==
  ASSUME Types, Truth, Steps
  PROVE  KnownIds'
<1>1. \A m \in ToSet(toClient) : m \in FromBroker /\ (m.key = "Close" \/ m.corr <= CorrelationId)
  BY FramesOf DEF Truth, KnownIds
<1>2. CorrelationId \in Nat /\ CorrelationId' \in {CorrelationId, CorrelationId + 1}
  BY LastId, CallStep DEF Asks
<1>3. \A m \in ToSet(toClient) : m.key = "Close" \/ m.corr <= CorrelationId'
  <2>1. ASSUME NEW m \in ToSet(toClient), m.key # "Close" PROVE m.corr <= CorrelationId'
    <3>1. m.corr \in Nat /\ m.corr <= CorrelationId
      BY <1>1, <2>1, BrokerFrame
    <3>2. QED
      BY <1>2, <3>1
  <2>2. QED
    BY <2>1
<1>4. ASSUME NEW m \in FromBroker, Tells(m)
      PROVE  m.key = "Close" \/ m.corr <= CorrelationId'
  <2>1. \A n \in FromBroker : Tells(n) => n = m
    BY <1>4, SameTold
  <2>2. CASE \E code, arg : Replies(code, arg)
    <3>1. Takes /\ m.corr = Head(toBroker).corr /\ CorrelationId' = CorrelationId
      BY <2>1, <2>2, ReplyFacts DEF Replies
    <3>2. QED
      BY <3>1, TurnFirst
  <2>3. CASE TuneIsTold
    <3>1. m.corr = 0
      BY <2>1, <2>3 DEF TuneIsTold, Push, Message
    <3>2. QED
      BY <1>2, <3>1
  <2>4. CASE CloseIsTold
    <3>1. PICK id \in Nat, code \in {"OK", "CloseCode"} : m = Message("Close", id, code, << >>)
      BY <2>1, <2>4, Zenon DEF CloseIsTold
    <3>2. QED
      BY <3>1 DEF Message
  <2>5. CASE PushIsTold
    <3>1. PICK key \in {"Heartbeat", "MetadataUpdate"} : m = Push(key, << >>)
      BY <2>1, <2>5, Zenon DEF PushIsTold
    <3>2. m.corr = 0
      BY <3>1 DEF Push, Message
    <3>3. QED
      BY <1>2, <3>2
  <2>6. CASE \/ LoginIsAccepted \/ LoginIsRefused \/ StreamIsCreated \/ StreamIsDeleted
             \/ MetadataIsTold \/ CloseIsTaken
    <3>1. \E code, arg : Replies(code, arg)
      BY <2>6, Zenon DEF LoginIsAccepted, LoginIsRefused, StreamIsCreated, StreamIsDeleted,
                         MetadataIsTold, CloseIsTaken
    <3>2. QED
      BY <2>2, <3>1
  <2>7. QED
    BY <1>4, <2>3, <2>4, <2>5, <2>6, WhoTells
<1>5. CASE ToSet(toClient') \subseteq ToSet(toClient)
  BY <1>3, <1>5, Zenon DEF KnownIds
<1>6. CASE \E m \in FromBroker : Tells(m) /\ ToSet(toClient') = ToSet(toClient) \cup {m}
  <2>1. PICK m \in FromBroker : Tells(m) /\ ToSet(toClient') = ToSet(toClient) \cup {m}
    BY <1>6
  <2>2. \A x \in ToSet(toClient') : x = m \/ x \in ToSet(toClient)
    BY <2>1
  <2>3. QED
    BY <1>3, <1>4, <2>1, <2>2, Zenon DEF KnownIds
<1>7. QED
  BY <1>5, <1>6, Arriving

\* The answer that comes to a request about a stream: its call has no other request
\* behind it.
LEMMA AnswerFacts ==
  ASSUME Types, Truth, StreamIsAnswered, Head(toClient).key = call.key
  PROVE  /\ \A f \in ToSet(toBroker) : f.corr = 0
         /\ Says(Head(toClient), "unknown") = "exists" => call.arg[1] \in streams
         /\ Says(Head(toClient), "unknown") = "absent" => call.arg[1] \notin streams
<1>1. Head(toClient) \in ToSet(toClient)
  BY SetTail DEF Types, StreamIsAnswered, IsAnswered, Receives
<1>2. Head(toClient) \in FromBroker
  BY <1>1, FramesOf
<1>3. call.key \in StreamKeys /\ call # NoCall
  BY DEF StreamIsAnswered, IsAnswered
<1>4. Head(toClient).key # "Close" /\ Head(toClient).corr = call.corr
  BY <1>2, <1>3, BrokerFrame DEF StreamIsAnswered, IsAnswered
<1>5. QED
  BY <1>1, <1>3, <1>4 DEF Truth, TrueAnswers

LEMMA UndecidedStep ==
  ASSUME Types, Truth, Steps
  PROVE  Undecided'
<1>1. \A m \in ToSet(toBroker) : m \in FromClient /\ (m.key \in Changes => told[m.arg[1]] = "unknown")
  BY FramesOf DEF Truth, Undecided
<1>2. ASSUME told' = told, NEW m, ToSet(toBroker') \subseteq ToSet(toBroker) \cup {m},
             m.key \notin Changes
      PROVE  Undecided'
  BY <1>1, <1>2 DEF Undecided
<1>3. CASE LoginIsAsked \/ CloseIsAsked
  <2>1. PICK key, arg : Asks(key, arg) /\ key \in LoginKeys \cup {"Close"} /\ told' = told
    BY <1>3 DEF LoginIsAsked, CloseIsAsked
  <2>2. PICK m \in FromClient : m = Message(key, CorrelationId + 1, "none", arg) /\ Sends(m)
    BY <2>1 DEF Asks
  <2>3. m.key \notin Changes
    BY <2>1, <2>2 DEF Message, LoginKeys, Changes
  <2>4. QED
    BY <1>2, <2>1, <2>2, <2>3, Queueing
<1>4. CASE TuneIsSent \/ HeartbeatIsSent
  <2>1. PICK m \in FromClient : m.key \in {"Tune", "Heartbeat"} /\ Sends(m)
    BY <1>4 DEF TuneIsSent, HeartbeatIsSent, Push, Message
  <2>2. m.key \notin Changes /\ told' = told
    BY <1>4, <2>1 DEF Changes, TuneIsSent, HeartbeatIsSent, client
  <2>3. QED
    BY <1>2, <2>1, <2>2, Queueing
<1>5. CASE StreamIsAsked
  <2>1. PICK key \in StreamKeys, s \in Stream :
          /\ Asks(key, <<s>>)
          /\ told' = IF key = "Metadata" THEN told ELSE [told EXCEPT ![s] = "unknown"]
    BY <1>5 DEF StreamIsAsked
  <2>2. PICK m \in FromClient : m = Message(key, CorrelationId + 1, "none", <<s>>) /\ Sends(m)
    BY <2>1 DEF Asks
  <2>3. m.key = key /\ m.arg[1] = s
    BY <2>2 DEF Message
  <2>4. told \in [Stream -> Result]
    BY DEF Types, TypeOK
  <2>5. ASSUME NEW x \in Stream, told[x] = "unknown" \/ (x = s /\ key \in Changes)
        PROVE  told'[x] = "unknown"
    BY <2>1, <2>4, <2>5 DEF Changes
  <2>6. ASSUME NEW f \in ToSet(toBroker'), f.key \in Changes PROVE told'[f.arg[1]] = "unknown"
    <3>1. CASE f = m
      BY <2>3, <2>5, <2>6, <3>1
    <3>2. CASE f \in ToSet(toBroker)
      <4>1. f.arg[1] \in Stream
        BY <1>1, <2>6, <3>2, ClientFrame DEF StreamKeys
      <4>2. QED
        BY <1>1, <2>5, <2>6, <3>2, <4>1
    <3>3. QED
      BY <2>2, <3>1, <3>2, Queueing
  <2>7. QED
    BY <2>6 DEF Undecided
<1>6. CASE StreamIsAnswered
  <2>1. toBroker' = toBroker
    BY <1>6 DEF StreamIsAnswered, IsAnswered
  <2>2. CASE Head(toClient).key # call.key
    <3>1. told' = told
      BY <1>6, <2>2 DEF StreamIsAnswered
    <3>2. QED
      BY <1>1, <2>1, <3>1 DEF Undecided
  <2>3. CASE Head(toClient).key = call.key
    <3>1. \A f \in ToSet(toBroker) : f.corr = 0
      BY <1>6, <2>3, AnswerFacts
    <3>2. \A f \in ToSet(toBroker) : f.key \notin Changes
      BY <1>1, <3>1, ClientFrame DEF Changes
    <3>3. QED
      BY <2>1, <3>2 DEF Undecided
  <2>4. QED
    BY <2>2, <2>3
<1>7. CASE LoginIsAnswered \/ CloseIsAnswered \/ Leaves \/ TuneIsTold \/ CloseIsTold \/ PushIsTold
  <2>1. toBroker' = toBroker /\ told' = told
    BY <1>7 DEF LoginIsAnswered, CloseIsAnswered, IsAnswered, Leaves, TuneIsTold, CloseIsTold,
                PushIsTold, client
  <2>2. QED
    BY <1>1, <2>1 DEF Undecided
<1>8. CASE \/ LoginIsAccepted \/ LoginIsRefused \/ TuneIsTaken \/ StreamIsCreated
           \/ StreamIsDeleted \/ MetadataIsTold \/ HeartbeatIsTaken \/ CloseIsTaken
  <2>1. Takes /\ told' = told
    BY <1>8 DEF LoginIsAccepted, LoginIsRefused, TuneIsTaken, StreamIsCreated,
                StreamIsDeleted, MetadataIsTold, HeartbeatIsTaken, CloseIsTaken, Replies, client
  <2>2. ToSet(toBroker') \subseteq ToSet(toBroker)
    BY <2>1, Taking
  <2>3. QED
    BY <1>1, <2>1, <2>2, Zenon DEF Undecided
<1>9. CASE Loses
  <2>1. ToSet(toBroker') = {}
    BY <1>9 DEF Loses, ToSet
  <2>2. QED
    BY <2>1 DEF Undecided
<1>10. QED
  BY <1>3, <1>4, <1>5, <1>6, <1>7, <1>8, <1>9 DEF Steps, ClientSteps, BrokerSteps

LEMMA ToldStep ==
  ASSUME Types, Truth, Steps
  PROVE  ToldTheTruth'
<1>1. told \in [Stream -> Result]
  BY DEF Types, TypeOK
<1>2. ASSUME NEW s \in Stream
      PROVE  (told[s] = "exists" => s \in streams) /\ (told[s] = "absent" => s \notin streams)
  BY <1>2 DEF Truth, ToldTheTruth
<1>3. CASE StreamIsAsked
  <2>1. PICK x \in Stream : told' = told \/ told' = [told EXCEPT ![x] = "unknown"]
    BY <1>3 DEF StreamIsAsked
  <2>2. streams' = streams
    BY <1>3 DEF StreamIsAsked, Asks, broker
  <2>3. \A s \in Stream : told'[s] = told[s] \/ told'[s] = "unknown"
    BY <1>1, <2>1
  <2>4. QED
    BY <1>2, <2>2, <2>3 DEF ToldTheTruth
<1>4. CASE StreamIsAnswered
  <2>1. streams' = streams
    BY <1>4 DEF StreamIsAnswered, IsAnswered, broker
  <2>2. CASE Head(toClient).key # call.key
    <3>1. told' = told
      BY <1>4, <2>2 DEF StreamIsAnswered
    <3>2. QED
      BY <1>2, <2>1, <3>1 DEF ToldTheTruth
  <2>3. CASE Head(toClient).key = call.key
    <3>1. PICK x, said, now :
            x = call.arg[1] /\ said = Says(Head(toClient), "unknown")
            /\ now = Says(Head(toClient), told[x])
      OBVIOUS
    <3>2. x \in Stream
      BY <1>4, <3>1 DEF StreamIsAnswered, IsAnswered, Types, Calling, StreamKeys, Changes,
                        LoginKeys, About
    <3>3. told' = [told EXCEPT ![x] = now]
      BY <1>4, <2>3, <3>1 DEF StreamIsAnswered
    <3>4. now = IF said = "unknown" THEN told[x] ELSE said
      BY <1>1, <3>1, <3>2, SaysFacts
    <3>5. (said = "exists" => x \in streams) /\ (said = "absent" => x \notin streams)
      BY <1>4, <2>3, <3>1, AnswerFacts
    <3>6. \A s \in Stream : told'[s] = IF s = x THEN now ELSE told[s]
      BY <1>1, <3>2, <3>3
    <3>7. QED
      BY <1>2, <2>1, <3>2, <3>4, <3>5, <3>6 DEF ToldTheTruth
  <2>4. QED
    BY <2>2, <2>3
<1>5. CASE StreamIsCreated \/ StreamIsDeleted
  <2>1. PICK x : x = Head(toBroker).arg[1]
    OBVIOUS
  <2>2. /\ Takes /\ Head(toBroker).key \in Changes /\ told' = told
        /\ streams' \in {streams, streams \cup {x}, streams \ {x}}
    BY <1>5, <2>1 DEF StreamIsCreated, StreamIsDeleted, Replies, Changes, client
  <2>3. told[x] = "unknown"
    BY <2>1, <2>2, Taking DEF Truth, Undecided
  <2>4. \A s \in Stream : s # x => (s \in streams' <=> s \in streams)
    BY <2>2
  <2>5. QED
    BY <1>2, <2>2, <2>3, <2>4 DEF ToldTheTruth
<1>6. CASE \/ LoginIsAsked \/ CloseIsAsked \/ TuneIsSent \/ HeartbeatIsSent
           \/ LoginIsAnswered \/ CloseIsAnswered \/ Leaves
  <2>1. told' = told /\ streams' = streams
    BY <1>6 DEF LoginIsAsked, CloseIsAsked, Asks, TuneIsSent, HeartbeatIsSent,
                LoginIsAnswered, CloseIsAnswered, IsAnswered, Leaves, client, broker
  <2>2. QED
    BY <1>2, <2>1 DEF ToldTheTruth
<1>7. CASE \/ LoginIsAccepted \/ LoginIsRefused \/ TuneIsTaken \/ MetadataIsTold
           \/ HeartbeatIsTaken \/ CloseIsTaken \/ TuneIsTold \/ CloseIsTold \/ PushIsTold
           \/ Loses
  <2>1. told' = told /\ streams' = streams
    BY <1>7 DEF LoginIsAccepted, LoginIsRefused, TuneIsTaken, MetadataIsTold,
                HeartbeatIsTaken, CloseIsTaken, Replies, TuneIsTold, CloseIsTold, PushIsTold,
                Loses, client, broker
  <2>2. QED
    BY <1>2, <2>1 DEF ToldTheTruth
<1>8. QED
  BY <1>3, <1>4, <1>5, <1>6, <1>7 DEF Steps, ClientSteps, BrokerSteps

\* The answer the broker gives to the call that waits.
LEMMA AnswerGiven ==
  ASSUME Types, Truth, Steps, call # NoCall, NEW m \in FromBroker, Tells(m),
         m.corr = call.corr, m.key # "Close"
  PROVE  /\ \A f \in ToSet(toBroker') : f.corr = 0
         /\ call.key \in StreamKeys /\ m.key = call.key =>
              /\ Says(m, "unknown") = "exists" => call.arg[1] \in streams'
              /\ Says(m, "unknown") = "absent" => call.arg[1] \notin streams'
<1>1. \A n \in FromBroker : Tells(n) => n = m
  BY SameTold
<1>2. call.corr # 0
  BY DEF Types, Calling
<1>3. ASSUME NEW code, NEW arg, Replies(code, arg)
      PROVE  /\ Takes /\ m = Reply(Head(toBroker), code, arg)
             /\ m.key = Head(toBroker).key /\ m.code = code /\ m.arg = arg
             /\ Head(toBroker).key = call.key /\ Head(toBroker).arg = call.arg
             /\ \A f \in ToSet(toBroker') : f.corr = 0
  <2>1. Takes /\ m = Reply(Head(toBroker), code, arg)
    BY <1>1, <1>3 DEF Replies
  <2>2. /\ m.key = Head(toBroker).key /\ m.code = code /\ m.arg = arg
        /\ Head(toBroker).corr = call.corr
    BY <2>1, ReplyFacts
  <2>3. QED
    BY <2>1, <2>2, TurnFirst
<1>4. CASE LoginIsAccepted
  <2>1. PICK arg : Replies("OK", arg)
    BY <1>4 DEF LoginIsAccepted
  <2>2. m.key \in LoginKeys /\ \A f \in ToSet(toBroker') : f.corr = 0
    BY <1>3, <1>4, <2>1 DEF LoginIsAccepted
  <2>3. QED
    BY <2>2 DEF LoginKeys, StreamKeys, Changes
<1>5. CASE LoginIsRefused
  <2>1. m.key \in LoginKeys /\ \A f \in ToSet(toBroker') : f.corr = 0
    BY <1>3, <1>5 DEF LoginIsRefused
  <2>2. QED
    BY <2>1 DEF LoginKeys, StreamKeys, Changes
<1>6. CASE CloseIsTaken
  <2>1. m.key = "Close" /\ \A f \in ToSet(toBroker') : f.corr = 0
    BY <1>3, <1>6 DEF CloseIsTaken
  <2>2. QED
    BY <2>1 DEF StreamKeys, Changes
<1>7. CASE StreamIsCreated
  <2>1. PICK s : s = Head(toBroker).arg[1]
    OBVIOUS
  <2>2. CASE /\ streams' = streams \cup {s}
             /\ Replies(IF s \in streams THEN "StreamAlreadyExists" ELSE "OK", << >>)
    <3>1. m.key = "Create" /\ call.arg[1] = s /\ \A f \in ToSet(toBroker') : f.corr = 0
      BY <1>3, <1>7, <2>1, <2>2 DEF StreamIsCreated
    <3>2. Says(m, "unknown") # "absent"
      BY <3>1 DEF Says
    <3>3. QED
      BY <2>2, <3>1, <3>2
  <2>3. CASE Replies("PreconditionFailed", << >>)
    <3>1. /\ m.key = "Create" /\ m.code = "PreconditionFailed"
          /\ \A f \in ToSet(toBroker') : f.corr = 0
      BY <1>3, <1>7, <2>3 DEF StreamIsCreated
    <3>2. Says(m, "unknown") = "unknown"
      BY <3>1 DEF Says
    <3>3. QED
      BY <3>1, <3>2
  <2>4. QED
    BY <1>7, <2>1, <2>2, <2>3 DEF StreamIsCreated
<1>8. CASE StreamIsDeleted
  <2>1. PICK s, code : /\ s = Head(toBroker).arg[1] /\ streams' = streams \ {s}
                       /\ Replies(code, << >>)
    BY <1>8 DEF StreamIsDeleted
  <2>2. m.key = "Delete" /\ call.arg[1] = s /\ \A f \in ToSet(toBroker') : f.corr = 0
    BY <1>3, <1>8, <2>1 DEF StreamIsDeleted
  <2>3. Says(m, "unknown") # "exists"
    BY <2>2 DEF Says
  <2>4. QED
    BY <2>1, <2>2, <2>3
<1>9. CASE MetadataIsTold
  <2>1. PICK s, is :
          /\ s = Head(toBroker).arg[1] /\ is = IF s \in streams THEN "OK" ELSE "StreamDoesNotExist"
          /\ Replies("none", <<is>>) /\ streams' = streams
    BY <1>9 DEF MetadataIsTold
  <2>2. /\ m.key = "Metadata" /\ m.arg = <<is>> /\ call.arg[1] = s
        /\ \A f \in ToSet(toBroker') : f.corr = 0
    BY <1>3, <1>9, <2>1 DEF MetadataIsTold
  <2>3. Says(m, "unknown") = IF s \in streams THEN "exists" ELSE "absent"
    BY <2>1, <2>2 DEF Says
  <2>4. QED
    BY <2>1, <2>2, <2>3
<1>10. CASE TuneIsTold
  <2>1. m.corr = 0
    BY <1>1, <1>10 DEF TuneIsTold, Push, Message
  <2>2. QED
    BY <1>2, <2>1
<1>11. CASE CloseIsTold
  <2>1. PICK id \in Nat, code \in {"OK", "CloseCode"} : m = Message("Close", id, code, << >>)
    BY <1>1, <1>11, Zenon DEF CloseIsTold
  <2>2. QED
    BY <2>1 DEF Message
<1>12. CASE PushIsTold
  <2>1. PICK key \in {"Heartbeat", "MetadataUpdate"} : m = Push(key, << >>)
    BY <1>1, <1>12, Zenon DEF PushIsTold
  <2>2. m.corr = 0
    BY <2>1 DEF Push, Message
  <2>3. QED
    BY <1>2, <2>2
<1>13. QED
  BY <1>4, <1>5, <1>6, <1>7, <1>8, <1>9, <1>10, <1>11, <1>12, WhoTells

LEMMA AnswersStep ==
  ASSUME Types, Truth, Steps
  PROVE  TrueAnswers'
<1>1. CASE LoginIsAsked \/ StreamIsAsked \/ CloseIsAsked
  <2>1. PICK key, arg : Asks(key, arg)
    BY <1>1 DEF LoginIsAsked, StreamIsAsked, CloseIsAsked
  <2>2. CorrelationId \in Nat /\ call'.corr = CorrelationId + 1 /\ toClient' = toClient
    BY <2>1, LastId DEF Asks
  <2>3. ASSUME NEW m \in ToSet(toClient), m.key # "Close" PROVE m.corr # call'.corr
    BY <2>2, <2>3 DEF Truth, KnownIds
  <2>4. QED
    BY <2>2, <2>3 DEF TrueAnswers
<1>2. ASSUME call' = call, call # NoCall,
             ToSet(toBroker') \subseteq ToSet(toBroker),
             streams' = streams \/ \E f \in ToSet(toBroker) : f.corr # 0
      PROVE  TrueAnswers'
  <2>1. ASSUME NEW m \in ToSet(toClient), m.corr = call.corr, m.key # "Close"
        PROVE  /\ \A f \in ToSet(toBroker') : f.corr = 0
               /\ call.key \in StreamKeys /\ m.key = call.key =>
                    /\ Says(m, "unknown") = "exists" => call.arg[1] \in streams'
                    /\ Says(m, "unknown") = "absent" => call.arg[1] \notin streams'
    <3>1. \A f \in ToSet(toBroker) : f.corr = 0
      BY <1>2, <2>1 DEF Truth, TrueAnswers
    <3>2. streams' = streams
      BY <1>2, <3>1
    <3>3. QED
      BY <1>2, <2>1, <3>1, <3>2 DEF Truth, TrueAnswers
  <2>2. ASSUME NEW m \in ToSet(toClient'), m \notin ToSet(toClient)
        PROVE  m \in FromBroker /\ Tells(m)
    BY <2>2, Arriving
  <2>3. ASSUME NEW m \in ToSet(toClient'), m.corr = call.corr, m.key # "Close"
        PROVE  /\ \A f \in ToSet(toBroker') : f.corr = 0
               /\ call.key \in StreamKeys /\ m.key = call.key =>
                    /\ Says(m, "unknown") = "exists" => call.arg[1] \in streams'
                    /\ Says(m, "unknown") = "absent" => call.arg[1] \notin streams'
    <3>1. CASE m \in ToSet(toClient)
      BY <2>1, <2>3, <3>1
    <3>2. CASE m \notin ToSet(toClient)
      BY <1>2, <2>2, <2>3, <3>2, AnswerGiven
    <3>3. QED
      BY <3>1, <3>2
  <2>4. QED
    BY <1>2, <2>3 DEF TrueAnswers
<1>3. SUFFICES ASSUME call' # NoCall, ~(LoginIsAsked \/ StreamIsAsked \/ CloseIsAsked)
               PROVE  TrueAnswers'
  BY <1>1 DEF TrueAnswers
<1>4. CASE TuneIsSent \/ HeartbeatIsSent
  BY <1>3, <1>4 DEF TuneIsSent, HeartbeatIsSent, Types, Calling, LoginKeys
<1>5. CASE LoginIsAnswered \/ StreamIsAnswered \/ CloseIsAnswered
  BY <1>3, <1>5 DEF LoginIsAnswered, StreamIsAnswered, CloseIsAnswered, IsAnswered
<1>6. CASE Leaves \/ TuneIsTold \/ CloseIsTold \/ PushIsTold
  <2>1. call' = call /\ call # NoCall /\ toBroker' = toBroker /\ streams' = streams
    BY <1>3, <1>6 DEF Leaves, TuneIsTold, CloseIsTold, PushIsTold, broker
  <2>2. QED
    BY <1>2, <2>1
<1>7. CASE \/ LoginIsAccepted \/ LoginIsRefused \/ TuneIsTaken \/ MetadataIsTold
           \/ HeartbeatIsTaken \/ CloseIsTaken
  <2>1. call' = call /\ call # NoCall /\ Takes /\ streams' = streams
    BY <1>3, <1>7 DEF LoginIsAccepted, LoginIsRefused, TuneIsTaken, MetadataIsTold,
                      HeartbeatIsTaken, CloseIsTaken, Replies, broker
  <2>2. QED
    BY <1>2, <2>1, Taking
<1>8. CASE StreamIsCreated \/ StreamIsDeleted
  <2>1. call' = call /\ call # NoCall /\ Takes /\ Head(toBroker).key \in Changes
    BY <1>3, <1>8 DEF StreamIsCreated, StreamIsDeleted, Replies, Changes
  <2>2. Head(toBroker) \in ToSet(toBroker) /\ Head(toBroker).corr # 0
    BY <2>1, Taking, ClientFrame DEF Changes
  <2>3. QED
    BY <1>2, <2>1, <2>2, Taking
<1>9. CASE Loses
  <2>1. call' = call /\ call # NoCall /\ ToSet(toBroker') = {} /\ streams' = streams
    BY <1>3, <1>9 DEF Loses, ToSet, broker
  <2>2. QED
    BY <1>2, <2>1
<1>10. QED
  BY <1>3, <1>4, <1>5, <1>6, <1>7, <1>8, <1>9 DEF Steps, ClientSteps, BrokerSteps

LEMMA TruthStep ==
  ASSUME Types, Truth, Steps
  PROVE  Truth'
BY TurnStep, UndecidedStep, KnownStep, AnswersStep, ToldStep DEF Truth

-----------------------------------------------------------------------------
(* The theorems.                                                           *)

\* The types of ClientSession, and that a waiting request is the one with the newest
\* correlation id.
THEOREM STypeCorrect == Spec => []TypeOK
<1>1. Init => Types
  BY InitTypes
<1>2. Types /\ [Next]_vars => Types'
  BY Shapes, TypesStep
<1>3. Types => TypeOK
  BY DEF Types
<1>4. QED
  BY <1>1, <1>2, <1>3, PTL DEF Spec

\* rmqsClientLogin returns true only when the broker has opened the virtual host for
\* this connection, also with late answers, broken connections and a broker that closes.
THEOREM LoginHolds == Spec => []LoggedInIsOpened
<1>1. Init => Types /\ InOrder
  BY InitTypes, InitOrder
<1>2. (Types /\ InOrder) /\ [Next]_vars => (Types /\ InOrder)'
  BY Shapes, TypesStep, OrderStep
<1>3. InOrder => LoggedInIsOpened
  BY DEF InOrder
<1>4. QED
  BY <1>1, <1>2, <1>3, PTL DEF Spec

\* The broker never gets a command from rmqsClientLogin, or from the functions behind
\* it, that the state of the protocol does not allow.
THEOREM ProtocolHolds == Spec => []InProtocolOrder
<1>1. Init => Types /\ InOrder
  BY InitTypes, InitOrder
<1>2. (Types /\ InOrder) /\ [Next]_vars => (Types /\ InOrder)'
  BY Shapes, TypesStep, OrderStep
<1>3. Types /\ InOrder => InProtocolOrder
  BY OrderSays
<1>4. QED
  BY <1>1, <1>2, <1>3, PTL DEF Spec

\* What rmqsCreate, rmqsDelete and rmqsMetadata reported last of a stream is so, whatever
\* became of the requests before.
THEOREM TruthHolds == Spec => []ToldTheTruth
<1>1. Init => Types /\ Truth
  BY InitTypes, InitTruth
<1>2. (Types /\ Truth) /\ [Next]_vars => (Types /\ Truth)'
  BY Shapes, TypesStep, TruthStep
<1>3. Truth => ToldTheTruth
  BY DEF Truth
<1>4. QED
  BY <1>1, <1>2, <1>3, PTL DEF Spec

\* On a big-endian machine rmqsWaitResponse drops every answer: no client gets beyond
\* the first step of rmqsClientLogin, whatever the broker does.
THEOREM BigEndianNeverLogsIn ==
  Spec => [](~IsLittleEndianMachine => step \in {"PeerProperties", "failed"})
<1> DEFINE Stuck == ~IsLittleEndianMachine => step \in {"PeerProperties", "failed"}
<1>1. Init => Types /\ Stuck
  BY InitTypes DEF Init
<1>2. ASSUME Types, Stuck, Steps PROVE Stuck'
  <2>1. CASE LoginIsAsked \/ StreamIsAsked \/ CloseIsAsked
    BY <1>2, <2>1 DEF LoginIsAsked, StreamIsAsked, CloseIsAsked, Asks
  <2>2. CASE TuneIsSent \/ HeartbeatIsSent
    BY <1>2, <2>2 DEF TuneIsSent, HeartbeatIsSent
  <2>3. CASE LoginIsAnswered \/ StreamIsAnswered \/ CloseIsAnswered
    BY <2>3 DEF LoginIsAnswered, StreamIsAnswered, CloseIsAnswered, IsAnswered
  <2>4. CASE Leaves
    BY <1>2, <2>4 DEF Leaves
  <2>5. CASE BrokerSteps
    <3>1. step' = step
      BY <2>5 DEF BrokerSteps, LoginIsAccepted, LoginIsRefused, TuneIsTaken, StreamIsCreated,
                  StreamIsDeleted, MetadataIsTold, HeartbeatIsTaken, CloseIsTaken, Replies,
                  TuneIsTold, CloseIsTold, PushIsTold, Loses, client
    <3>2. QED
      BY <1>2, <3>1
  <2>6. QED
    BY <1>2, <2>1, <2>2, <2>3, <2>4, <2>5 DEF Steps, ClientSteps
<1>3. (Types /\ Stuck) /\ [Next]_vars => (Types /\ Stuck)'
  BY <1>2, Shapes, TypesStep
<1>4. QED
  BY <1>1, <1>3, PTL DEF Spec
=============================================================================
