------------------------------ MODULE LogSpec ------------------------------
(***************************************************************************)
(* What rmqsLogger.c promises: a log of whole entries.  A thread asks for  *)
(* an entry, which appears in the log at once, and goes on after that.     *)
(***************************************************************************)
LOCAL INSTANCE Sequences

CONSTANTS Threads, Entry, None

VARIABLES
    asked,      \* the entry a thread asks for, or None
    log         \* the entries logged, by whom

logVars == <<asked, log>>

Init == asked = [t \in Threads |-> None] /\ log = << >>

Ask(t, e) ==
    /\ asked[t] = None
    /\ asked' = [asked EXCEPT ![t] = e]
    /\ UNCHANGED log

Write(t) ==
    /\ asked[t] # None
    /\ log' = Append(log, <<t, asked[t]>>)
    /\ asked' = [asked EXCEPT ![t] = None]

Next == \E t \in Threads : Write(t) \/ \E e \in Entry : Ask(t, e)

SafeLog == Init /\ [][Next]_logVars

Log == SafeLog /\ \A t \in Threads : WF_logVars(Write(t))
=============================================================================
