----------------------------- MODULE MCConsumer -----------------------------
(* The model of Consumer for TLC. *)
EXTENDS Consumer
===========================================================================
