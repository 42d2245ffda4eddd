--------------------------- MODULE MCSharedMemory ---------------------------
(* The model of SharedMemory for TLC: the buffers of the two threads. *)
EXTENDS SharedMemory
===========================================================================
