------------------------------- MODULE Memory -------------------------------
(***************************************************************************)
(* rmqsMemory.c as one thread sees it: the blocks, each with its size in   *)
(* front and what the owner keeps in it, and the total that               *)
(* rmqsGetUsedMemory returns.  (SharedMemory has what two threads see.)    *)
(*                                                                         *)
(* The pointers in a block are kept apart from its other content, so that  *)
(* what can be reached from where is a matter of this module.              *)
(***************************************************************************)
EXTENDS Naturals, Sequences, FiniteSets, FiniteSetsExt

Null == 0

\* sizeof(size_t), and the size of a block: the accounting only needs that they are counted.
HeaderSize == 1

Block(size, pointer, value) == [size |-> size, pointer |-> pointer, value |-> value]

NoMemory == [block |-> [a \in {} |-> Null], TotalUsedMemory |-> 0]

Live(m) == DOMAIN m.block

\* malloc gives an address that is free; which one does not matter.
NewAddress(m) == CHOOSE a \in 1..(Cardinality(Live(m)) + 1) : a \notin Live(m)

AllocateMemory(m, new) ==
    [block |-> [a \in Live(m) \cup {NewAddress(m)} |->
                  IF a = NewAddress(m) THEN new ELSE m.block[a]],
     TotalUsedMemory |-> m.TotalUsedMemory + new.size + HeaderSize]

FreeMemory(m, a) ==
    [block |-> [b \in Live(m) \ {a} |-> m.block[b]],
     TotalUsedMemory |-> m.TotalUsedMemory - (m.block[a].size + HeaderSize)]

\* The address may change, which nobody but the owner of the pointer would notice.
RellocateMemory(m, a, size) ==
    [block |-> [m.block EXCEPT ![a].size = size],
     TotalUsedMemory |-> m.TotalUsedMemory - (m.block[a].size + HeaderSize)
                           + (size + HeaderSize)]

\* rmqsFreeMemory of a pointer that may be 0, behind the test for it.
FreeIfAny(m, a) == IF a = Null THEN m ELSE FreeMemory(m, a)

PointerIn(m, a, field) == m.block[a].pointer[field]
SetPointer(m, a, field, to) == [m EXCEPT !.block[a].pointer[field] = to]

NoPointers == [field \in {} |-> Null]

\* A block of which nothing is told apart.
Plain == Block(1, NoPointers, 0)

\* A new block, and a pointer to it in the block of its owner.
AllocateInto(m, owner, field, new) ==
    SetPointer(AllocateMemory(m, new), owner, field, NewAddress(m))

\* A block of its own for each of these fields of the owner, one after the other.
AllocateEach(m, owner, fields) ==
    LET made[n \in 0..Len(fields)] ==
          IF n = 0 THEN m ELSE AllocateInto(made[n - 1], owner, fields[n], Plain)
    IN  made[Len(fields)]

\* What these pointers of a block lead to is freed, and then the block itself.
FreeWith(m, a, fields) ==
    LET freed[n \in 0..Len(fields)] ==
          IF n = 0 THEN m ELSE FreeIfAny(freed[n - 1], PointerIn(m, a, fields[n]))
    IN  FreeMemory(freed[Len(fields)], a)

-----------------------------------------------------------------------------
Pointers(m, a) == {PointerIn(m, a, field) : field \in DOMAIN m.block[a].pointer} \ {Null}

\* The blocks that can be reached from these in as many steps as there are blocks.
Reachable(m, roots) ==
    LET more[n \in 0..Cardinality(Live(m))] ==
          IF n = 0 THEN roots
          ELSE LET some == more[n - 1] IN some \cup UNION {Pointers(m, a) : a \in some}
    IN  more[Cardinality(Live(m))]

\* Every pointer in a block is 0 or leads to a block.
NoDangling(m) == \A a \in Live(m) : Pointers(m, a) \subseteq Live(m)

Weight(m, a) == IF a \in Live(m) THEN m.block[a].size + HeaderSize ELSE 0

\* The total is that of the blocks, which are added up from one address to the next.
Accounted(m) ==
    LET last == Max(Live(m) \cup {Null})
        total[a \in 0..last] == IF a = 0 THEN 0 ELSE total[a - 1] + Weight(m, a)
    IN  m.TotalUsedMemory = total[last]
=============================================================================
