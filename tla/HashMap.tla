------------------------------ MODULE HashMap ------------------------------
(***************************************************************************)
(* The intrusive hash map with progressive resizing (map/c/map.c), which   *)
(* holds the key space of the server and the members of a sorted set.      *)
(* Every call does a bounded amount of the move from the old table to the  *)
(* new one; the steps of that loop are steps of this module.               *)
(*                                                                         *)
(* A node is represented by its key, because the callers never insert a    *)
(* second node for a key.  Numbers of slots are powers of two, so that     *)
(* code & mask is the remainder by the number of slots.                    *)
(***************************************************************************)
EXTENDS Integers, Sequences, FiniteSets

CONSTANTS
    Keys,          \* the nodes that callers may insert
    NoNode,        \* NULL
    Code,          \* Code[k]: the hash of key k
    InitialSlots,  \* slots of the first table
    MaxLoadFactor, \* MAX_LOAD_FACTOR
    ResizingWork   \* RESIZING_WORK

ASSUME MapAssumption ==
    /\ NoNode \notin Keys
    /\ Code \in [Keys -> Nat]
    /\ InitialSlots \in Nat \ {0}
    /\ MaxLoadFactor \in Nat \ {0}
    /\ ResizingWork \in Nat \ {0}

VARIABLES
    table1, table2,    \* CTable: the chains by slot, and the size field
    resizingPosition,
    pc,                \* idle, or the step of the call under way
    work,              \* nodes helpResizing has moved in this call
    call,              \* the call under way: what it does after helpResizing
    result             \* what the last lookup or pop returned

vars == <<table1, table2, resizingPosition, pc, work, call, result>>
------------------------------------------------------------------------------
NullTable == [slots |-> <<>>, size |-> 0]
Allocated(t) == DOMAIN t.slots # {}
Slots(t) == Cardinality(DOMAIN t.slots)

EmptyTable(n) == [slots |-> [i \in 0 .. n - 1 |-> <<>>], size |-> 0]

\* Mutant: the slot is computed from the mask of the other table.
SlotOfOldMask(t, k) ==
    IF Allocated(table2) THEN Code[k] % Slots(table2) ELSE Code[k] % Slots(t)

SlotOf(t, k) == Code[k] % Slots(t)

\* insert() prepends to the chain.
Inserted(t, k) ==
    [slots |-> [t.slots EXCEPT ![SlotOf(t, k)] = <<k>> \o @], size |-> t.size + 1]

\* A chain without its j-th node.
Unlinked(chain, j) ==
    [n \in 1 .. Len(chain) - 1 |-> IF n < j THEN chain[n] ELSE chain[n + 1]]

\* Mutant: the size field is left alone.
DetachedNotCounted(t, i, j) == [t EXCEPT !.slots[i] = Unlinked(@, j)]

\* detach() of the j-th node of slot i.
Detached(t, i, j) ==
    [slots |-> [t.slots EXCEPT ![i] = Unlinked(@, j)], size |-> t.size - 1]

\* lookUp() of a table finds k in the slot of its code.
Finds(t, k) ==
    Allocated(t) /\ \E i \in 1 .. Len(t.slots[SlotOf(t, k)]) :
                        t.slots[SlotOf(t, k)][i] = k

\* Where in that slot.
Place(t, k) ==
    CHOOSE j \in 1 .. Len(t.slots[SlotOf(t, k)]) : t.slots[SlotOf(t, k)][j] = k

Taken(t, k) == Detached(t, SlotOf(t, k), Place(t, k))

\* CMapInsert's test for a new table.
MustResize(t) == ~Allocated(table2) /\ t.size \div Slots(t) >= MaxLoadFactor

\* Mutant: the position of the last resizing is kept.
FirstPositionKept == resizingPosition
FirstPosition == 0

\* Mutant: the loop does one piece of work too many.
MoreWorkInclusive == work <= ResizingWork

\* The loop of helpResizing may go on.
MoreWork == work < ResizingWork

\* Mutant: the position stays where it is.
NextPositionSame == resizingPosition

NextPosition == resizingPosition + 1

\* Mutant: an empty slot counts as work.
WorkOfSkipOne == work + 1

\* `continue` in the loop of helpResizing skips work++.
WorkOfSkip == work

\* Mutant: CMapPop looks into the new table only.
PopTablesNew(k) == IF Finds(table1, k) THEN {1} ELSE {}

\* The table CMapPop takes k from: the new one, then the old one.
PopTables(k) == IF Finds(table1, k) THEN {1} ELSE IF Finds(table2, k) THEN {2} ELSE {}

\* CMapSize
MapSize == table1.size + table2.size

\* Mutant: the last slot is left out.
ScanToMask(t) ==
    LET from[i \in 0 .. Slots(t)] == IF i = 0 THEN <<>> ELSE from[i - 1] \o t.slots[i - 1]
    IN  IF t.size = 0 THEN <<>> ELSE from[Slots(t) - 1]

\* The nodes in the order in which scan() (common/entry.cxx) visits them.
Scan(t) ==
    LET from[i \in 0 .. Slots(t)] == IF i = 0 THEN <<>> ELSE from[i - 1] \o t.slots[i - 1]
    IN  IF t.size = 0 THEN <<>> ELSE from[Slots(t)]

\* Where the nodes are.
InTable(t) ==
    {k \in Keys : \E i \in DOMAIN t.slots : \E j \in 1 .. Len(t.slots[i]) :
                     t.slots[i][j] = k}
Stored == InTable(table1) \cup InTable(table2)
------------------------------------------------------------------------------
Init ==
    /\ table1 = NullTable
    /\ table2 = NullTable
    /\ resizingPosition = 0
    /\ pc = "idle"
    /\ work = 0
    /\ call = [op |-> "none", key |-> NoNode]
    /\ result = NoNode

\* CMapInsert up to its call of helpResizing, with startResizing inlined.
Insert(k) ==
    /\ pc = "idle" /\ k \notin Stored
    /\ LET first == IF Allocated(table1) THEN table1 ELSE EmptyTable(InitialSlots)
           full == Inserted(first, k)
       IN  IF MustResize(full)
           THEN /\ table2' = full
                /\ table1' = EmptyTable(Slots(full) * 2)
                /\ resizingPosition' = FirstPosition
           ELSE /\ table1' = full
                /\ UNCHANGED <<table2, resizingPosition>>
    /\ call' = [op |-> "insert", key |-> k]
    /\ work' = 0
    /\ pc' = "help"
    /\ UNCHANGED result

\* CMapLookUp and CMapPop begin with helpResizing.
Begin(op, k) ==
    /\ pc = "idle"
    /\ call' = [op |-> op, key |-> k]
    /\ work' = 0
    /\ pc' = "help"
    /\ UNCHANGED <<table1, table2, resizingPosition, result>>
------------------------------------------------------------------------------
(* helpResizing                                                            *)

Helping == pc = "help" /\ MoreWork /\ table2.size > 0

HelpSkip ==
    /\ Helping /\ table2.slots[resizingPosition] = <<>>
    /\ resizingPosition' = NextPosition
    /\ work' = WorkOfSkip
    /\ UNCHANGED <<table1, table2, pc, call, result>>

HelpMove ==
    /\ Helping /\ table2.slots[resizingPosition] # <<>>
    /\ LET k == Head(table2.slots[resizingPosition])
       IN  /\ table1' = Inserted(table1, k)
           /\ table2' = Detached(table2, resizingPosition, 1)
    /\ work' = work + 1
    /\ UNCHANGED <<resizingPosition, pc, call, result>>

\* The loop ends; an empty old table is freed.
HelpDone ==
    /\ pc = "help" /\ ~Helping
    /\ table2' = IF table2.size = 0 THEN NullTable ELSE table2
    /\ pc' = IF call.op = "insert" THEN "idle" ELSE "find"
    /\ UNCHANGED <<table1, resizingPosition, work, call, result>>
------------------------------------------------------------------------------
\* The rest of CMapLookUp.
LookUp ==
    /\ pc = "find" /\ call.op = "lookup"
    /\ result' = IF Finds(table1, call.key) \/ Finds(table2, call.key)
                 THEN call.key ELSE NoNode
    /\ pc' = "idle"
    /\ UNCHANGED <<table1, table2, resizingPosition, work, call>>

\* The rest of CMapPop.
Pop ==
    /\ pc = "find" /\ call.op = "pop"
    /\ LET k == call.key
       IN  /\ result' = IF PopTables(k) = {} THEN NoNode ELSE k
           /\ table1' = IF 1 \in PopTables(k) THEN Taken(table1, k) ELSE table1
           /\ table2' = IF 2 \in PopTables(k) THEN Taken(table2, k) ELSE table2
    /\ pc' = "idle"
    /\ UNCHANGED <<resizingPosition, work, call>>

\* CMapDestroy
Destroy ==
    /\ pc = "idle"
    /\ table1' = NullTable
    /\ table2' = NullTable
    /\ resizingPosition' = 0
    /\ UNCHANGED <<pc, work, call, result>>

HelpResizing == HelpSkip \/ HelpMove \/ HelpDone

Next ==
    \/ \E k \in Keys : Insert(k) \/ Begin("lookup", k) \/ Begin("pop", k)
    \/ HelpResizing
    \/ LookUp \/ Pop \/ Destroy

Spec == Init /\ [][Next]_vars

\* A call that has begun runs to its end.
FairSpec == Spec /\ WF_vars(HelpResizing \/ LookUp \/ Pop)
------------------------------------------------------------------------------
TypeOK ==
    /\ \A t \in {table1, table2} :
          /\ t.size \in Nat
          /\ \A i \in DOMAIN t.slots : t.slots[i] \in Seq(Keys)
    /\ resizingPosition \in Nat
    /\ pc \in {"idle", "help", "find"}
    /\ work \in 0 .. ResizingWork
    /\ call \in [op : {"none", "insert", "lookup", "pop"}, key : Keys \cup {NoNode}]
    /\ result \in Keys \cup {NoNode}

\* Every node is in the chain its code selects, in the table it is in: a
\* lookup that visits one chain of each table misses nothing.
Placed ==
    \A t \in {table1, table2} : \A i \in DOMAIN t.slots :
        \A j \in 1 .. Len(t.slots[i]) : SlotOf(t, t.slots[i][j]) = i

\* helpResizing never reads behind the old table: while the old table counts a
\* node, some slot at or after resizingPosition holds one.
ScanInBounds ==
    table2.size > 0 =>
        \E i \in DOMAIN table2.slots : i >= resizingPosition /\ table2.slots[i] # <<>>

\* The size fields count the nodes, and no node is in two chains, or twice in
\* one: what helpResizing's loop and its free() rely on.
Counted ==
    /\ table1.size = Cardinality(InTable(table1))
    /\ table2.size = Cardinality(InTable(table2))
    /\ InTable(table1) \cap InTable(table2) = {}

\* The move to the new table ends before the new table is due for its own
\* resizing, so a table's load never passes the limit.
ResizeInTime ==
    pc = "idle" /\ Allocated(table1) => table1.size < MaxLoadFactor * Slots(table1)

\* The `keys` command, which announces CMapSize keys and then scans both tables,
\* lists every stored node exactly once, wherever a resizing stands.
KeysListed ==
    pc = "idle" =>
        LET listed == Scan(table1) \o Scan(table2)
        IN  /\ {listed[i] : i \in DOMAIN listed} = Stored
            /\ Len(listed) = Cardinality(Stored)
            /\ Len(listed) = MapSize

\* The map is a dictionary, wherever the resizing stands.
Abstract == INSTANCE Dictionary WITH stored <- Stored
ImplementsDictionary == Abstract!Spec

\* Every call returns.
CallsReturn == pc # "idle" ~> pc = "idle"
==============================================================================
