------------------------------- MODULE Logger -------------------------------
(***************************************************************************)
(* rmqsLogger.c and rmqsMutex.c: the log file of a configuration, which    *)
(* the thread that sends (a dump of each frame, "TX") and the thread that  *)
(* receives (dumps of each segment, "RAW RX", and each message, "RX")      *)
(* write piece by piece under the mutex of the logger.                     *)
(***************************************************************************)
EXTENDS Naturals, Sequences

CONSTANTS
    Threads,        \* the threads that log
    Entry,          \* what they log, see Pieces
    MaxEntries      \* bound on the entries of all the threads

None == "none"

ASSUME LoggerAssumption ==
    /\ None \notin Threads /\ MaxEntries \in Nat
    /\ Entry \subseteq [kind : {"log", "dump"}, comment : BOOLEAN, length : Nat]

VARIABLES
    File,       \* FALSE when fopen failed
    content,    \* what has been written to the file: pieces, and whose they are
    Mutex,      \* the thread that holds the mutex, or None
    asked,      \* the entry a thread is logging, or None
    written,    \* how many of its pieces it has written
    entries     \* the entries asked for so far

vars == <<File, content, Mutex, asked, written, entries>>

Nothing == [kind |-> None, comment |-> FALSE, length |-> 0]

\* The calls of fputs, with those that always follow one another as one piece.
\* rmqsLoggerRegisterLog: a comment, the line with the message and a separator.
\* rmqsLoggerRegisterDump: for each 16 bytes a row, the header before the first
\* one, and a separator; without bytes, only the separator.
Pieces(e) ==
    LET optional(condition, piece) == IF condition THEN <<piece>> ELSE << >>
    IN  IF e.kind = "log"
        THEN optional(e.comment, "comment") \o <<"message", "separator">>
        ELSE optional(e.length > 0, "header")
             \o [row \in 1..((e.length + 15) \div 16) |-> "row"] \o <<"separator">>

Init ==
    /\ File \in BOOLEAN /\ content = << >> /\ Mutex = None
    /\ asked = [t \in Threads |-> Nothing] /\ written = [t \in Threads |-> 0]
    /\ entries = 0

\* A call for a file that is not open returns at once.
Call(t, e) ==
    /\ File /\ asked[t] = Nothing /\ entries < MaxEntries
    /\ asked' = [asked EXCEPT ![t] = e]
    /\ written' = [written EXCEPT ![t] = 0]
    /\ entries' = entries + 1
    /\ UNCHANGED <<File, content, Mutex>>

LockWithoutWaiting(t) ==                                               \* mutant
    /\ asked[t] # Nothing /\ Mutex # t /\ Mutex' = t
    /\ UNCHANGED <<File, content, asked, written, entries>>

\* rmqsMutexLock
Lock(t) ==
    /\ asked[t] # Nothing /\ Mutex = None /\ Mutex' = t
    /\ UNCHANGED <<File, content, asked, written, entries>>

Put(t) ==
    /\ Mutex = t /\ written[t] < Len(Pieces(asked[t]))
    /\ content' = Append(content, <<t, Pieces(asked[t])[written[t] + 1]>>)
    /\ written' = [written EXCEPT ![t] = @ + 1]
    /\ UNCHANGED <<File, Mutex, asked, entries>>

\* rmqsMutexUnlock, and the call returns.
Unlock(t) ==
    /\ Mutex = t /\ written[t] = Len(Pieces(asked[t]))
    /\ Mutex' = None
    /\ asked' = [asked EXCEPT ![t] = Nothing]
    /\ UNCHANGED <<File, content, written, entries>>

Steps(t) == Lock(t) \/ Put(t) \/ Unlock(t)

Next == \E t \in Threads : Steps(t) \/ \E e \in Entry : Call(t, e)

Spec == Init /\ [][Next]_vars

\* Both threads run, and with entries bounded no thread is kept from the mutex for ever.
FairSpec == Spec /\ \A t \in Threads : WF_vars(Steps(t))
-----------------------------------------------------------------------------
(* Properties.                                                             *)

\* A part of the file up to a separator: whose pieces they are, if one thread's, and what
\* they are.
Part(pieces) ==
    IF \A k \in DOMAIN pieces : pieces[k][1] = pieces[1][1]
    THEN <<pieces[1][1], [k \in DOMAIN pieces |-> pieces[k][2]]>>
    ELSE <<None, << >>>>

\* How far the first n pieces of the file reach with the last separator among them.
Ended[n \in 0..Len(content)] ==
    IF n = 0 \/ content[n][2] = "separator" THEN n ELSE Ended[n - 1]

\* The parts of the first n pieces of the file.
Parts[n \in 0..Len(content)] ==
    IF n = 0 THEN << >>
    ELSE IF content[n][2] = "separator"
         THEN Append(Parts[n - 1], Part(SubSeq(content, Ended[n - 1] + 1, n)))
         ELSE Parts[n - 1]

\* Pieces are left to write in the call of t.
Unwritten(t) == asked[t] # Nothing /\ written[t] < Len(Pieces(asked[t]))

\* The log is of what can be read in the file: an entry is its pieces.
Promise == INSTANCE LogSpec WITH
    Entry <- {Pieces(e) : e \in Entry},
    None <- << >>,
    asked <- [t \in Threads |-> IF Unwritten(t) THEN Pieces(asked[t]) ELSE << >>],
    log <- Parts[Len(content)]

\* The dumps of the sender and of the receiver are never mixed: the file reads as
\* the entries they asked for, whole, each once and in the order of the calls of
\* either, and every call is logged; the mutex is held on every path and given back
\* on every path.
ImplementsLog == Promise!Log
=============================================================================
