------------------------------- MODULE Calls -------------------------------
(***************************************************************************)
(* A frame between a client and a broker as Requests sees it, and the      *)
(* request function that waits for an answer.                              *)
(***************************************************************************)
EXTENDS Naturals, Sequences

\* Names for the codes of rmqsResponseCode_t are used instead of numbers; arg is
\* the rest of the frame, a tuple.
Message(key, corr, code, arg) == [key |-> key, corr |-> corr, code |-> code, arg |-> arg]

NoCall == [key |-> "none", corr |-> 0, arg |-> << >>]
=============================================================================
