-------------------------- MODULE MCWaitResponse --------------------------
(* The model of WaitResponse for TLC: the named sets of its cfg files.     *)
EXTENDS WaitResponse

MCKind == {"Open", "Heartbeat", "Close", "CloseRequest", "Deliver"}
MCKindNoClose == {"Open", "Heartbeat"}
MCRequestKey == {"Open", "Close"}
MCRequestKeyOpen == {"Open"}
MCSize == {8, 14, 16}
MCSizeOf == [k \in Kind |-> CASE k = "Heartbeat" -> 8
                              [] k = "CloseRequest" -> 16
                              [] OTHER -> 14]
MCCorr == 0..10
MCCode == {0, 1, 2}
MCTimeout == 1..RequestTimeout
MCClientTypes == {"Consumer"}
MCStrayLength == {4, 30}
===========================================================================
