----------------------------- MODULE MCTxFrame -----------------------------
(* The model of TxFrame for TLC: messages on both sides of the longest short *)
(* one, and frames that need one to several chunks of memory.               *)
EXTENDS TxFrame

Sizes == {0, 1, Short, Short + 1}
===========================================================================
