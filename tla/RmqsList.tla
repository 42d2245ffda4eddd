------------------------------ MODULE RmqsList ------------------------------
(***************************************************************************)
(* rmqsList.c: a list of nodes in memory, linked by Next, that owns the    *)
(* data of its nodes (rmqsListGenericCreate; no list of the client has     *)
(* another ClearDataCallback).  The operators take a memory m and the      *)
(* address l of the list and give the memory that is left.  ListSpec says  *)
(* what they promise.                                                      *)
(***************************************************************************)
EXTENDS Memory

First(m, l) == PointerIn(m, l, "First")
Count(m, l) == m.block[l].value

ListCreate(m) == AllocateMemory(m, Block(1, [First |-> Null], 0))

\* The nodes from First on, as every loop of rmqsList.c meets them.
Nodes(m, l) ==
    LET node[i \in 1..(Cardinality(Live(m)) + 1)] ==
          IF i = 1 THEN First(m, l)
          ELSE IF node[i - 1] = Null THEN Null ELSE PointerIn(m, node[i - 1], "Next")
        length == CHOOSE n \in 0..Cardinality(Live(m)) :
                    node[n + 1] = Null /\ \A i \in 1..n : node[i] # Null
    IN  [i \in 1..length |-> node[i]]

Data(m, node) == PointerIn(m, node, "Data")

\* The data of the nodes in order: what the list is to its users.
Items(m, l) == [i \in DOMAIN Nodes(m, l) |-> Data(m, Nodes(m, l)[i])]

\* Node i, or 0 past the end.
NodeOr0(m, l, i) == IF i \in DOMAIN Nodes(m, l) THEN Nodes(m, l)[i] ELSE Null

\* A pointer to a node: First of the list for i = 0, else Next of node i.
Link(m, l, i, node) ==
    IF i = 0 THEN SetPointer(m, l, "First", node)
    ELSE SetPointer(m, Nodes(m, l)[i], "Next", node)

\* A new node behind node i, and one more in Count.
AddNode(m, l, i, data) ==
    LET node == NewAddress(m)
        allocated == AllocateMemory(m, Block(1, [Next |-> NodeOr0(m, l, i + 1), Data |-> data], 0))
    IN  [Link(allocated, l, i, node) EXCEPT !.block[l].value = @ + 1]

CountKept(m, l, i) ==                                                  \* mutant
    LET node == Nodes(m, l)[i]
        unlinked == Link(m, l, i - 1, PointerIn(m, node, "Next"))
    IN  FreeMemory(FreeMemory(unlinked, Data(m, node)), node)

\* Node i is taken out, its data cleared and the node freed.
RemoveNode(m, l, i) ==
    LET node == Nodes(m, l)[i]
        unlinked == Link(m, l, i - 1, PointerIn(m, node, "Next"))
    IN  [FreeMemory(FreeMemory(unlinked, Data(m, node)), node) EXCEPT !.block[l].value = @ - 1]

ListAddBegin(m, l, data) == AddNode(m, l, 0, data)

ListAddEnd(m, l, data) == AddNode(m, l, Len(Nodes(m, l)), data)

AddPositionTooEarly(m, l, position, data) ==                           \* mutant
    AddNode(m, l, IF position = 0 THEN 0 ELSE position - 1, data)

\* A position behind the end is the end.
ListAddPosition(m, l, position, data) ==
    AddNode(m, l, Min({position, Len(Nodes(m, l))}), data)

ListDeletePosition(m, l, position) ==
    IF position < Len(Nodes(m, l)) THEN RemoveNode(m, l, position + 1) ELSE m

ListDeleteBegin(m, l) == ListDeletePosition(m, l, 0)

ListDeleteEnd(m, l) ==
    IF Nodes(m, l) = << >> THEN m ELSE RemoveNode(m, l, Len(Nodes(m, l)))

\* Where the data is first, or behind the end.
Where(m, l, data) ==
    Min({i \in DOMAIN Nodes(m, l) : Items(m, l)[i] = data} \cup {Len(Nodes(m, l)) + 1})

\* Position is counted up before the data of the node is looked at: but for the first
\* node it is the node behind the one with the data that is deleted, and data in the
\* last node is not found.
ListDeleteData(m, l, data) ==
    ListDeletePosition(m, l, IF Where(m, l, data) = 1 THEN 0 ELSE Where(m, l, data))

\* While Count is not 0 the first node is deleted, and the list is freed.
ListDestroy(m, l) ==
    LET left[n \in 0..Count(m, l)] == IF n = 0 THEN m ELSE ListDeleteBegin(left[n - 1], l)
    IN  FreeMemory(left[Count(m, l)], l)

ListSearchByData(m, l, data) == NodeOr0(m, l, Where(m, l, data))

ListSearchByPosition(m, l, position) == NodeOr0(m, l, position + 1)

ListGetDataByPosition(m, l, position) ==
    LET node == ListSearchByPosition(m, l, position)
    IN  IF node = Null THEN Null ELSE Data(m, node)
=============================================================================
