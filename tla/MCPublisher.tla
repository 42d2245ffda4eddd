---------------------------- MODULE MCPublisher ----------------------------
(* The model of Publisher for TLC. *)
EXTENDS Publisher
===========================================================================
