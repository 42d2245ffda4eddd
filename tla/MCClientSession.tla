-------------------------- MODULE MCClientSession --------------------------
(* The model of ClientSession for TLC. *)
EXTENDS ClientSession
===========================================================================
