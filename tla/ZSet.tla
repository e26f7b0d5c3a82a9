-------------------------------- MODULE ZSet --------------------------------
(***************************************************************************)
(* The sorted set of zset/zset.cxx: every member is in a hash map by name  *)
(* and in an AVL tree by score and name, through two links of one ZNode.   *)
(* The server is one thread, so that a call is one step.  The map is the   *)
(* set of its nodes, as module Dictionary has it and HashMap implements it.*)
(*                                                                         *)
(* A ZNode is represented by its name: there is never a second one with    *)
(* the same name.  Names are numbers in the order in which less() has      *)
(* them, by bytes and then by length; scores are integers.                 *)
(***************************************************************************)
EXTENDS AVLTree, Sequences

CONSTANTS
    Names,     \* the names of members
    Members,   \* the pairs <<name, score>> that clients add
    Offsets,   \* the offsets of queries
    Limits     \* the limits of queries

ASSUME MembersAssumption == Names = Nodes /\ Members \subseteq Names \X Int
ASSUME QueriesAssumption == Offsets \subseteq Int /\ Limits \subseteq Int

VARIABLES
    map,     \* ZSet.map: the nodes it holds
    tree,    \* ZSet.tree: the root
    heap,    \* ZNode.tree of every node
    score    \* ZNode.score of every node

vars == <<map, tree, heap, score>>

Scores == {m[2] : m \in Members}
------------------------------------------------------------------------------
\* less(): node n is before the pair of this score and name.
Less(sc, n, s, name) == IF sc[n] # s THEN sc[n] < s ELSE n < name

\* Mutant: among equal scores the name is not looked at.
TreeAddByScore(h, root, sc, n) ==
    LET descend[m \in Nodes] ==
          LET side == IF sc[n] < sc[m] THEN "left" ELSE "right"
          IN  IF h[m][side] = NULL THEN [at |-> m, side |-> side]
                                   ELSE descend[h[m][side]]
        leaf == descend[root]
    IN  IF root = NULL
        THEN FixAVL(h, n)
        ELSE FixAVL([h EXCEPT ![leaf.at][leaf.side] = n, ![n].parent = leaf.at], n)

\* Attaches node n, a leaf, and returns the new root.
TreeAdd(h, root, sc, n) ==
    LET descend[m \in Nodes] ==
          LET side == IF Less(sc, n, sc[m], m) THEN "left" ELSE "right"
          IN  IF h[m][side] = NULL THEN [at |-> m, side |-> side]
                                   ELSE descend[h[m][side]]
        leaf == descend[root]
    IN  IF root = NULL
        THEN FixAVL(h, n)
        ELSE FixAVL([h EXCEPT ![leaf.at][leaf.side] = n, ![n].parent = leaf.at], n)

LookUp(n) == IF tree # NULL /\ n \in map THEN n ELSE NULL

TreeIs(t) == heap' = t.heap /\ tree' = t.top

Init ==
    /\ map = {}
    /\ tree = NULL
    /\ heap = [n \in Nodes |-> InitNode]
    /\ score = [n \in Names |-> 0]

\* add() of a name that is not there: create() and two insertions.
Create(n, s) ==
    /\ LookUp(n) = NULL
    /\ map' = map \cup {n}
    /\ score' = [score EXCEPT ![n] = s]
    /\ TreeIs(TreeAdd([heap EXCEPT ![n] = InitNode], tree, score', n))

\* Mutant: the new score is written and the node stays where it is.
MoveInPlace(n, s) ==
    /\ LookUp(n) # NULL /\ score[n] # s
    /\ score' = [score EXCEPT ![n] = s]
    /\ UNCHANGED <<map, tree, heap>>

\* add() of a name that is there, with another score: update().
Move(n, s) ==
    LET cut == DelAVL(heap, n)
    IN  /\ LookUp(n) # NULL /\ score[n] # s
        /\ score' = [score EXCEPT ![n] = s]
        /\ TreeIs(TreeAdd([cut.heap EXCEPT ![n] = InitNode], cut.top, score', n))
        /\ UNCHANGED map

\* Mutant: the node goes from the map only.
RemoveFromMap(n) ==
    /\ LookUp(n) # NULL
    /\ map' = map \ {n}
    /\ UNCHANGED <<tree, heap, score>>

\* pop(), and del() of the node it returns; what is left of a freed node is
\* of no account.
Remove(n) ==
    LET cut == DelAVL(heap, n)
    IN  /\ LookUp(n) # NULL
        /\ map' = map \ {n}
        /\ TreeIs([cut EXCEPT !.heap[n] = InitNode])
        /\ score' = [score EXCEPT ![n] = 0]

Next ==
    \/ \E m \in Members : Create(m[1], m[2]) \/ Move(m[1], m[2])
    \/ \E n \in Names : Remove(n)

Spec == Init /\ [][Next]_vars
------------------------------------------------------------------------------
(***************************************************************************)
(* Queries, which change nothing.                                          *)
(***************************************************************************)
\* Mutant: the last node seen is taken for the candidate.
QueryLast(s, name) ==
    LET search[m \in Nodes] ==
          LET on == IF Less(score, m, s, name) THEN heap[m].right ELSE heap[m].left
          IN  IF on = NULL THEN m ELSE search[on]
    IN  IF tree = NULL THEN NULL ELSE search[tree]

\* The first node that is not before the pair.
Query(s, name) ==
    LET search[at \in (Nodes \cup {NULL}) \X (Nodes \cup {NULL})] ==
          LET curr == at[1]  found == at[2]
          IN  IF curr = NULL THEN found
              ELSE IF Less(score, curr, s, name) THEN search[<<heap[curr].right, found>>]
                                                 ELSE search[<<heap[curr].left, curr>>]
    IN  search[<<tree, NULL>>]

Offset(n, off) == IF n = NULL THEN NULL ELSE OffsetAVL(heap, n, off)

\* The members that zquery writes into its reply: each counts for two
\* against the limit, its name and its score.
ZQuery(s, name, off, limit) ==
    LET from[at \in (Nodes \cup {NULL}) \X Nat] ==
          LET node == at[1]  n == at[2]
          IN  IF node = NULL \/ n >= limit THEN <<>>
              ELSE <<node>> \o from[<<Offset(node, 1), n + 2>>]
    IN  IF limit <= 0 THEN <<>> ELSE from[<<Offset(Query(s, name), off), 0>>]
------------------------------------------------------------------------------
(***************************************************************************)
(* Properties.                                                             *)
(***************************************************************************)
\* Pointers lead from member to member: none is left to a node that a removal
\* has freed.  A node that is not in the set is as create() will find it.
TypeOK ==
    /\ map \subseteq Names
    /\ tree \in map \cup {NULL}
    /\ heap \in Heap
    /\ score \in [Names -> Int]
    /\ \A n \in map :
         {heap[n].parent, heap[n].left, heap[n].right} \subseteq map \cup {NULL}
    /\ \A n \in Names \ map : heap[n] = InitNode /\ score[n] = 0

\* The nodes of the tree from left to right.
InOrder ==
    LET visit[n \in Nodes \cup {NULL}] ==
          IF n = NULL THEN <<>>
          ELSE visit[heap[n].left] \o <<n>> \o visit[heap[n].right]
    IN  visit[tree]

\* The two indexes of a sorted set hold the same members: each node of the
\* map is in the tree, once, and every parent pointer, by which removals and
\* offsets climb, is the reverse of a child pointer (avl.c, delAVL's copy
\* and the rotations).
Linked ==
    /\ LET order == InOrder
       IN  /\ {order[i] : i \in DOMAIN order} = map
           /\ Len(order) = Cardinality(map)
    /\ tree # NULL => heap[tree].parent = NULL
    /\ \A n \in map : \A c \in {heap[n].left, heap[n].right} \ {NULL} :
         heap[c].parent = n

\* The tree is balanced after every insertion, move and removal, with the
\* true height of every subtree in its root (update() and fixAVL()).
Balanced ==
    \A n \in map :
        LET l == Depth(heap, heap[n].left)
            r == Depth(heap, heap[n].right)
        IN  heap[n].depth = 1 + Deeper(l, r) /\ l - r \in -1 .. 1

\* Every node knows the size of its subtree, which offsets are computed
\* from, through rotations and through the copy of a node over its successor.
Counted ==
    \A n \in map :
        heap[n].count = 1 + Count(heap, heap[n].left) + Count(heap, heap[n].right)

\* Every call keeps the pairs in order and changes the one it is about: the
\* sorted set implements Ranking.
Pairs == LET order == InOrder
         IN  [i \in DOMAIN order |-> <<score[order[i]], order[i]>>]

Abstract == INSTANCE Ranking WITH pairs <- Pairs

ImplementsRanking == Abstract!Spec

\* offsetAVL() from any member finds the member that many places further on
\* or back, and NULL at either end, whatever path it climbs.
OffsetCounts ==
    LET order == InOrder
    IN  \A i \in DOMAIN order, off \in Offsets :
            OffsetAVL(heap, order[i], off) =
                IF i + off \in DOMAIN order THEN order[i + off] ELSE NULL

\* A query lists consecutive members from the first that is not before its
\* pair, moved by the offset, as many as have room in the limit; none when
\* the offset leads out of the set.
QueryLists ==
    LET order == InOrder
    IN  \A s \in Scores, name \in Names, off \in Offsets, limit \in Limits :
            LET before == {i \in DOMAIN order : Less(score, order[i], s, name)}
                start  == Cardinality(before) + 1
                first  == start + off
                last   == first + (limit + 1) \div 2 - 1
            IN  ZQuery(s, name, off, limit) =
                    IF start \in DOMAIN order /\ first \in DOMAIN order
                    THEN SubSeq(order, first, IF last < Len(order) THEN last ELSE Len(order))
                    ELSE <<>>
==============================================================================
