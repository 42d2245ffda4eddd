---------------------------- MODULE MCRxStream ----------------------------
(* The model of RxStream for TLC: the named sets of MCRxStream.cfg.        *)
EXTENDS RxStream

\* One command of each branch of the dispatch.
MCKind == {"PublishConfirm", "Deliver", "MetadataUpdate", "Heartbeat"}
MCSize == {8, 14}
MCCorr == {0}
MCTimeout == {1, 2}
MCClientTypes == {"Publisher", "Consumer"}
MCStrayLength == {4, 30}
===========================================================================
