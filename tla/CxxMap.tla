------------------------------- MODULE CxxMap -------------------------------
(***************************************************************************)
(* The C++ variant of the hash map (map/cxx/map.cxx), which nothing but    *)
(* the tests in map/tests/ uses yet.  Its chains are lists of              *)
(* std::unique_ptr: to move a pointer out of a chain takes along the node  *)
(* and every node behind it.                                               *)
(*                                                                         *)
(* A node is represented by its key, as in module HashMap; a caller        *)
(* inserts no key that it has given to the map before and not got back.    *)
(***************************************************************************)
EXTENDS Integers, FiniteSetsExt, SequencesExt

CONSTANTS
    Keys,          \* the nodes that callers may insert
    NoNode,        \* nullptr
    Code,          \* Code[k]: the hash of key k
    InitialSlots,  \* slots of the first table
    MaxLoadFactor, \* MAX_LOAD_FACTOR
    ResizingWork   \* RESIZING_WORK

VARIABLES
    map,     \* Map
    given,   \* the nodes that the map was given and has not returned
    result   \* what the last lookup or pop returned

vars == <<map, given, result>>
------------------------------------------------------------------------------
NullTable == [slots |-> <<>>, size |-> 0]
NullMap == [table1 |-> NullTable, table2 |-> NullTable,
            resizingPosition |-> 0, inBounds |-> TRUE]

Allocated(t) == DOMAIN t.slots # {}
Slots(t) == Cardinality(DOMAIN t.slots)
EmptyTable(n) == [slots |-> [i \in 0 .. n - 1 |-> <<>>], size |-> 0]
SlotOf(t, k) == Code[k] % Slots(t)

\* insert() prepends to the chain.
Inserted(t, k) ==
    [slots |-> [t.slots EXCEPT ![SlotOf(t, k)] = <<k>> \o @], size |-> t.size + 1]

Finds(t, k) == Allocated(t) /\ Contains(t.slots[SlotOf(t, k)], k)

\* lookUp() of a node that is there: the chain ends before it.  The size field
\* is left alone, and what stood behind the node goes with it.
MovedOut(t, k) ==
    [t EXCEPT !.slots[SlotOf(t, k)] = SubSeq(@, 1, SelectInSeq(@, LAMBDA j : j = k) - 1)]

\* detach() of the first node of a slot.
FirstDetached(t, i) == [slots |-> [t.slots EXCEPT ![i] = Tail(@)], size |-> t.size - 1]

\* One round of helpResizing's loop that does work, with the skips before it.
\* Where the size field counts more nodes than there are, the loop reads behind
\* the table.
MoveOne(m) ==
    LET ahead == {i \in DOMAIN m.table2.slots :
                     i >= m.resizingPosition /\ m.table2.slots[i] # <<>>}
        i == Min(ahead)
    IN  IF ahead = {} THEN [m EXCEPT !.inBounds = FALSE]
        ELSE [m EXCEPT !.table1 = Inserted(@, Head(m.table2.slots[i])),
                       !.table2 = FirstDetached(@, i),
                       !.resizingPosition = i]

HelpResizing(m) ==
    LET moved[work \in 0 .. ResizingWork] ==
            IF work = 0 THEN m ELSE MoveOne(moved[work - 1])
        last == moved[Min({ResizingWork, m.table2.size})]
    IN  IF last.table2.size = 0 THEN [last EXCEPT !.table2 = NullTable] ELSE last

StartResizing(m) ==
    [m EXCEPT !.table1 = EmptyTable(Slots(@) * 2), !.table2 = m.table1,
              !.resizingPosition = 0]
------------------------------------------------------------------------------
Init == map = NullMap /\ given = {} /\ result = NoNode

\* mapInsert
Insert(k) ==
    /\ map.inBounds /\ k \notin given
    /\ LET first == IF Allocated(map.table1) THEN map.table1 ELSE EmptyTable(InitialSlots)
           m == [map EXCEPT !.table1 = Inserted(first, k)]
           full == /\ ~Allocated(m.table2)
                   /\ m.table1.size \div Slots(m.table1) >= MaxLoadFactor
       IN  map' = HelpResizing(IF full THEN StartResizing(m) ELSE m)
    /\ given' = given \cup {k}
    /\ UNCHANGED result

\* mapLookUp and mapPop: the node is moved out of its chain and returned, and
\* the size field goes down by n.  What mapPop detaches is the local pointer's
\* node, and the rest of the chain dies with that pointer.
Find(k, n) ==
    /\ map.inBounds
    /\ LET m == HelpResizing(map)
           Out(t) == [MovedOut(t, k) EXCEPT !.size = @ - n]
       IN  \/ Finds(m.table1, k) /\ result' = k /\ map' = [m EXCEPT !.table1 = Out(@)]
           \/ /\ ~Finds(m.table1, k) /\ Finds(m.table2, k)
              /\ result' = k /\ map' = [m EXCEPT !.table2 = Out(@)]
           \/ /\ ~Finds(m.table1, k) /\ ~Finds(m.table2, k)
              /\ result' = NoNode /\ map' = m
    /\ given' = given \ {result'}

LookUp(k) == Find(k, 0)
Pop(k) == Find(k, 1)

\* mapDestroy
Destroy == map.inBounds /\ map' = NullMap /\ given' = {} /\ UNCHANGED result

Next == Destroy \/ \E k \in Keys : Insert(k) \/ LookUp(k) \/ Pop(k)

Spec == Init /\ [][Next]_vars
------------------------------------------------------------------------------
\* The first lookup or pop of a node that was inserted returns it, whatever
\* other nodes were looked up before: what test_lookup.cxx and test_pop.cxx
\* assert of two nodes, which there lie in different chains.
FirstLookUpFinds ==
    [][\A k \in given : LookUp(k) \/ Pop(k) => result' = k]_vars
=============================================================================
