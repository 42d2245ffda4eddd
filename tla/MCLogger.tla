------------------------------ MODULE MCLogger ------------------------------
(* The model of Logger for TLC. *)
EXTENDS Logger

\* A line of the application with and without a comment, and dumps without a byte
\* and of one row and two.
MCEntry ==
    [kind : {"log"}, comment : BOOLEAN, length : {0}]
      \cup [kind : {"dump"}, comment : {FALSE}, length : {0, 16, 17}]
===========================================================================
