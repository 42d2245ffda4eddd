------------------------------ MODULE ListSpec ------------------------------
(***************************************************************************)
(* What rmqsList.c promises its users: a sequence of items, and what each  *)
(* call does to it and returns.  Nothing here knows of nodes and pointers. *)
(***************************************************************************)
EXTENDS Naturals, Sequences, SequencesExt

CONSTANT None       \* returned when there is no such item

VARIABLES
    items,      \* the items, in order
    call        \* the last call: op, position, item and the item it returned

listVars == <<items, call>>

Init == items = << >> /\ call.op = "none"

Called(op) == call'.op = op

Behind(position) == Min({position, Len(items)})

ItemAt(i) == IF i \in DOMAIN items THEN items[i] ELSE None

Without(i) == IF i \in DOMAIN items THEN RemoveAt(items, i) ELSE items

\* The index of an item, or the one behind the end.
Index(item) == Min({i \in DOMAIN items : items[i] = item} \cup {Len(items) + 1})

\* A list is made and filled, and destroyed.
Fill == Called("Create") /\ items = << >> /\ items' \in Seq(Nat)
Destroy == Called("Destroy") /\ items' = << >>

Add ==
    LET item == call'.item IN
    \/ Called("AddBegin") /\ items' = <<item>> \o items
    \/ Called("AddEnd") /\ items' = Append(items, item)
    \/ /\ Called("AddPosition")
       /\ items' = InsertAt(items, Behind(call'.position) + 1, item)

\* DeleteData takes the item behind the one it is given, unless that is the first.
Delete ==
    \/ Called("DeleteBegin") /\ items' = Without(1)
    \/ Called("DeleteEnd") /\ items' = Without(Len(items))
    \/ Called("DeletePosition") /\ items' = Without(call'.position + 1)
    \/ /\ Called("DeleteData")
       /\ LET i == Index(call'.item) IN items' = Without(IF i = 1 THEN 1 ELSE i + 1)

Search ==
    /\ UNCHANGED items
    /\ \/ Called("GetDataByPosition") /\ call'.returned = ItemAt(call'.position + 1)
       \/ Called("SearchByData") /\ call'.returned = ItemAt(Index(call'.item))

List == Init /\ [][Fill \/ Destroy \/ Add \/ Delete \/ Search]_listVars
=============================================================================
