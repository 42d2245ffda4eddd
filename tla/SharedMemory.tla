---------------------------- MODULE SharedMemory ----------------------------
(***************************************************************************)
(* rmqsMemory.c in a program of two threads, such as rawClientTest.c with  *)
(* its poll thread: rmqsPublish grows TxQueue while rmqsPublisherPoll      *)
(* grows RxQueue.  TotalUsedMemory has no lock, and += and -= load it and  *)
(* store it in two steps.                                                  *)
(***************************************************************************)
EXTENDS Integers, Sequences

CONSTANTS
    Threads,        \* the threads
    Size,           \* the sizes asked for
    MaxBlocks       \* bound on the blocks a thread has at a time

VARIABLES
    block,           \* the sizes of the blocks of a thread, or None
    updates,         \* what a thread inside the allocator has still to add to the total
    loaded,          \* the total that it has loaded, or None
    TotalUsedMemory

vars == <<block, updates, loaded, TotalUsedMemory>>

None == -1

\* sizeof(size_t): the size is kept in front of the block.
HeaderSize == 8

Init ==
    /\ block = [t \in Threads |-> [n \in 1..MaxBlocks |-> None]]
    /\ updates = [t \in Threads |-> << >>] /\ loaded = [t \in Threads |-> None]
    /\ TotalUsedMemory = 0

\* A call that leaves block n with this size and then makes the updates.
Calls(t, n, size, changes) ==
    /\ updates[t] = << >>
    /\ block' = [block EXCEPT ![t][n] = size]
    /\ updates' = [updates EXCEPT ![t] = changes]
    /\ UNCHANGED <<loaded, TotalUsedMemory>>

AllocateMemory(t, n, size) ==
    block[t][n] = None /\ Calls(t, n, size, <<size + HeaderSize>>)

FreeMemory(t, n) ==
    block[t][n] # None /\ Calls(t, n, None, <<-(block[t][n] + HeaderSize)>>)

RellocateMemory(t, n, size) ==
    /\ block[t][n] # None
    /\ Calls(t, n, size, <<-(block[t][n] + HeaderSize), size + HeaderSize>>)

Load(t) ==
    /\ updates[t] # << >> /\ loaded[t] = None
    /\ loaded' = [loaded EXCEPT ![t] = TotalUsedMemory]
    /\ UNCHANGED <<block, updates, TotalUsedMemory>>

Store(t) ==
    /\ loaded[t] # None
    /\ TotalUsedMemory' = loaded[t] + Head(updates[t])
    /\ updates' = [updates EXCEPT ![t] = Tail(@)]
    /\ loaded' = [loaded EXCEPT ![t] = None]
    /\ UNCHANGED block

Next ==
    \E t \in Threads :
        \/ \E n \in 1..MaxBlocks, size \in Size :
             AllocateMemory(t, n, size) \/ RellocateMemory(t, n, size)
        \/ \E n \in 1..MaxBlocks : FreeMemory(t, n)
        \/ Load(t) \/ Store(t)

Spec == Init /\ [][Next]_vars
-----------------------------------------------------------------------------
\* What rawClientTest.c asserts at its end: when everything has been freed, and no
\* thread is inside the allocator, rmqsGetUsedMemory returns 0.
NothingUnfreed ==
    (\A t \in Threads : updates[t] = << >> /\ \A n \in 1..MaxBlocks : block[t][n] = None)
        => TotalUsedMemory = 0
=============================================================================
