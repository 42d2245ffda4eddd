------------------------------- MODULE Thread -------------------------------
(***************************************************************************)
(* rmqsThread.c: a thread that the application creates, starts, stops and  *)
(* destroys, and the two flags by which it and the thread it starts speak  *)
(* to each other.  Nothing but these flags orders what the two do.         *)
(***************************************************************************)
VARIABLES
    thread,     \* the rmqsThread_t, or NoThread
    routine,    \* where the started thread is
    stopping    \* the application is inside rmqsThreadStop

threadVars == <<thread, routine, stopping>>

Flags(exists, handle) ==
    [exists |-> exists, ThreadHandle |-> handle,
     TerminateRequest |-> FALSE, Terminated |-> FALSE]

NoThread == Flags(FALSE, FALSE)

ThreadInit == thread = NoThread /\ routine = "none" /\ stopping = FALSE

ThreadCreate ==
    /\ ~thread.exists
    /\ thread' = Flags(TRUE, FALSE)
    /\ UNCHANGED <<routine, stopping>>

\* A thread that has been started is started no more: ThreadHandle stays.
ThreadStart ==
    /\ thread.exists /\ ~thread.ThreadHandle
    /\ thread' = Flags(TRUE, TRUE) /\ routine' = "top"
    /\ UNCHANGED stopping

\* rmqsThreadStop as far as the loop, with no CancelIORoutineCallback.
ThreadStop ==
    /\ thread.ThreadHandle /\ ~stopping
    /\ thread' = [thread EXCEPT !.TerminateRequest = TRUE]
    /\ stopping' = TRUE
    /\ UNCHANGED routine

StopLeavesAtOnce ==                                                    \* mutant
    /\ stopping
    /\ thread' = [thread EXCEPT !.TerminateRequest = FALSE, !.Terminated = TRUE]
    /\ stopping' = FALSE
    /\ UNCHANGED routine

\* The loop ends once the flag is seen.
ThreadStopReturns ==
    /\ stopping /\ thread.Terminated
    /\ thread' = [thread EXCEPT !.TerminateRequest = FALSE, !.Terminated = TRUE]
    /\ stopping' = FALSE
    /\ UNCHANGED routine

\* All that the application knows after rmqsThreadStop: the flags it left.
Stopped == thread.Terminated /\ ~thread.TerminateRequest

\* For the application the thread may be running.
Started == thread.ThreadHandle /\ ~Stopped

ThreadDestroy ==
    /\ thread.exists /\ ~stopping /\ ~Started
    /\ thread' = NoThread
    /\ UNCHANGED <<routine, stopping>>

EndUnnoticed ==                                                        \* mutant
    /\ routine = "left" /\ routine' = "none"
    /\ UNCHANGED <<thread, stopping>>

\* rmqsThreadRoutine, when ThreadRoutineCallback has returned.
RoutineEnds ==
    /\ routine = "left" /\ routine' = "none"
    /\ thread' = [thread EXCEPT !.Terminated = TRUE]
    /\ UNCHANGED stopping
=============================================================================
