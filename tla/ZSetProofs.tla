------------------------------ MODULE ZSetProofs -----------------------------
(***************************************************************************)
(* The sorted set: its map and its tree hold the same members, the tree is *)
(* balanced and in the order of scores and names, with that the sorted set *)
(* implements Ranking, and offsets and queries return what a sorted list   *)
(* would; for all sets of names, all scores and all sequences of calls.    *)
(***************************************************************************)
EXTENDS ZSet, AVLTreeProofs, SequenceTheorems

\* The order of the nodes with these scores.
ByScore(sc) == {p \in Nodes \X Nodes : Less(sc, p[1], sc[p[2]], p[2])}

\* Nodes are in order by score and name, whatever their scores.
LEMMA ByScoreOrders ==
    ASSUME NEW sc \in [Nodes -> Int]
    PROVE  Order(ByScore(sc))
<1>1. \A x, y \in Nodes : <<x, y>> \in ByScore(sc) <=> (sc[x] < sc[y] \/ (sc[x] = sc[y] /\ x < y))
    BY NodesAssumption DEF ByScore, Less
<1>2. \A x \in Nodes : x \in Int /\ sc[x] \in Int
    BY NodesAssumption
<1>3. QED
    BY <1>1, <1>2 DEF Order

\* The side of m on which TreeAdd looks for a place for n.
Way(sc, n, m) == IF Less(sc, n, sc[m], m) THEN "left" ELSE "right"

Descends(f, h, sc, n) ==
    f = [m \in Nodes |->
           IF h[m][Way(sc, n, m)] = NULL THEN [at |-> m, side |-> Way(sc, n, m)]
                                         ELSE f[h[m][Way(sc, n, m)]]]

\* TreeAdd()'s way down is a function.
LEMMA DescendExists ==
    ASSUME NEW h, NEW T, NEW S, NEW root, NEW before, Tree(h, T, S, root, before), Loose(h, S),
           NEW sc, NEW n
    PROVE  \E f : Descends(f, h, sc, n)
<1> DEFINE way(m) == Way(sc, n, m)
           V == [at : Nodes, side : Sides]
           next(f, m) == IF h[m][way(m)] = NULL THEN [at |-> m, side |-> way(m)] ELSE f[h[m][way(m)]]
           rank == [m \in Nodes |-> IF m \in S THEN Cardinality(T[m]) ELSE 0]
           G == [f \in [Nodes -> V] |-> [m \in Nodes |-> next(f, m)]]
<1>1. h \in Heap /\ \A m \in Nodes : way(m) \in Sides /\ h[m][way(m)] \in Nodes \cup {NULL}
    BY HeapTyped DEF Way, Sides, Tree, Ptr
<1> HIDE DEF way
<1>2. CASE Nodes = {}
    <2>1. Descends([m \in Nodes |-> 0], h, sc, n)
        BY <1>2 DEF Descends
    <2>2. QED
        BY <2>1
<1>3. CASE Nodes # {}
    <2>1. rank \in [Nodes -> Nat] /\ V # {}
        <3>1. \A m \in S : Cardinality(T[m]) \in Nat
            BY Smaller
        <3>2. V # {}
            <4>1. PICK m \in Nodes : TRUE
                BY <1>3
            <4>2. [at |-> m, side |-> "left"] \in V
                BY DEF Sides
            <4>3. QED
                BY <4>2
        <3>3. QED
            BY <3>1, <3>2
    <2>2. ASSUME NEW f \in [Nodes -> V], NEW m \in Nodes PROVE next(f, m) \in V
        BY <1>1
    <2>3. \A f \in [Nodes -> V], m \in Nodes : G[f][m] = next(f, m)
        OBVIOUS
    <2>4. G \in [[Nodes -> V] -> [Nodes -> V]]
        BY <2>2
    <2>5. Ranked(Nodes, V, rank, G)
        <3> SUFFICES ASSUME NEW m \in Nodes, NEW f \in [Nodes -> V], NEW g \in [Nodes -> V],
                            \A y \in Nodes : rank[y] < rank[m] => f[y] = g[y]
                     PROVE  next(f, m) = next(g, m)
            BY <2>3 DEF Ranked
        <3>1. CASE h[m][way(m)] = NULL
            BY <3>1
        <3>2. CASE h[m][way(m)] # NULL
            <4>1. m \in S
                BY <1>1, <3>2 DEF Loose
            <4>2. h[m][way(m)] \in S /\ Cardinality(T[h[m][way(m)]]) < Cardinality(T[m])
                BY <1>1, <3>2, <4>1, Smaller
            <4>3. rank[h[m][way(m)]] < rank[m]
                BY <1>1, <3>2, <4>1, <4>2
            <4>4. f[h[m][way(m)]] = g[h[m][way(m)]]
                BY <1>1, <3>2, <4>3
            <4>5. QED
                BY <3>2, <4>4
        <3>3. QED
            BY <3>1, <3>2
    <2> HIDE DEF G, rank, V
    <2>6. PICK f : Defines(f, Nodes, V, G)
        BY <2>1, <2>4, <2>5, RankedFunction
    <2>7. f \in [Nodes -> V] /\ \A m \in Nodes : f[m] = next(f, m)
        BY <2>3, <2>6 DEF Defines
    <2>8. f = [m \in Nodes |-> next(f, m)]
        <3> HIDE DEF next
        <3>1. QED
            BY <2>7
    <2>9. Descends(f, h, sc, n)
        BY <2>8 DEF Descends, way
    <2>10. QED
        BY <2>9
<1>4. QED
    BY <1>2, <1>3

\* The way down from a node ends where the new node belongs.
LEMMA DescendBelongs ==
    ASSUME NEW h, NEW T, NEW S, NEW root, NEW sc \in [Nodes -> Int],
           Tree(h, T, S, root, ByScore(sc)),
           NEW n \in Nodes \ S, NEW f, Descends(f, h, sc, n)
    PROVE  \A m \in S : /\ f[m].at \in S /\ f[m].side \in Sides
                        /\ Belongs(h, T, ByScore(sc), n, f[m].at, f[m].side, T[m])
<1> DEFINE b == ByScore(sc)
           P == {m \in S : /\ f[m].at \in T[m] /\ f[m].side \in Sides
                           /\ Belongs(h, T, b, n, f[m].at, f[m].side, T[m])}
<1>1. S \subseteq Nodes /\ Order(b) /\ \A m \in S : T[m] \subseteq S
    BY DEF Tree, Ptr
<1>2. ASSUME NEW m \in S, \A s \in Sides : h[m][s] # NULL => h[m][s] \in P PROVE m \in P
    <2> DEFINE w == Way(sc, n, m)
               c == h[m][w]
               d == h[m][Other(w)]
    <2>1. w \in Sides /\ m \in Nodes /\ m # n /\ Other(w) \in Sides /\ \A s \in Sides : s = w \/ s = Other(w)
        BY <1>1, OtherSide DEF Way, Sides
    <2>2. f[m] = IF c = NULL THEN [at |-> m, side |-> w] ELSE f[c]
        BY <2>1 DEF Descends
    <2>3. On(b, n, m, w)
        <3>1. CASE Less(sc, n, sc[m], m)
            BY <2>1, <3>1 DEF On, Way, ByScore
        <3>2. CASE ~Less(sc, n, sc[m], m)
            <4>1. <<n, m>> \notin b
                BY <3>2 DEF ByScore
            <4>2. <<m, n>> \in b
                BY <1>1, <2>1, <4>1 DEF Order
            <4>3. QED
                BY <3>2, <4>2 DEF On, Way
        <3>3. QED
            BY <3>1, <3>2
    <2>4. Branch(h, T, S, m, w)
        BY <2>1, Branches
    <2> HIDE DEF w
    <2>5. T[m] = T[c] \cup {m} \cup T[d] /\ T[c] \cap T[d] = {} /\ m \in T[m]
        BY <2>4 DEF Branch
    <2>6. \A x \in T[m], s \in Sides : T[h[x][s]] \subseteq T[x] /\ x \notin T[h[x][s]] /\ x \in S
        <3> SUFFICES ASSUME NEW x \in T[m], NEW s \in Sides
                     PROVE  T[h[x][s]] \subseteq T[x] /\ x \notin T[h[x][s]] /\ x \in S
            OBVIOUS
        <3>1. x \in S
            BY <1>1
        <3>2. Branch(h, T, S, x, s)
            BY <3>1, Branches
        <3>3. QED
            BY <3>1, <3>2 DEF Branch
    <2>7. CASE c = NULL
        <3>1. f[m].at = m /\ f[m].side = w
            BY <2>2, <2>7
        <3>2. ASSUME NEW x \in T[m], NEW s \in Sides, m \in T[h[x][s]] PROVE FALSE
            <4>1. x \in S
                BY <1>1
            <4>2. h[x][s] # NULL
                BY <3>2 DEF Tree
            <4>3. h[x][s] \in S
                BY <4>1, <4>2, Smaller
            <4>4. T[m] \subseteq T[h[x][s]]
                BY <3>2, <4>3, Nested
            <4>5. QED
                BY <2>6, <4>4
        <3>3. Belongs(h, T, b, n, m, w, T[m])
            BY <2>3, <2>7, <3>2 DEF Belongs
        <3>4. QED
            BY <2>1, <2>5, <3>1, <3>3
    <2>8. CASE c # NULL
        <3> DEFINE leaf == f[c]
        <3>1. c \in S /\ leaf.at \in T[c] /\ leaf.side \in Sides /\ Belongs(h, T, b, n, leaf.at, leaf.side, T[c])
            BY <1>2, <2>1, <2>8
        <3>2. f[m] = leaf
            BY <2>2, <2>8
        <3> HIDE DEF leaf, c, d
        <3>3. ASSUME NEW x \in T[m], NEW s \in Sides, leaf.at \in T[h[x][s]] PROVE On(b, n, x, s)
            <4>1. CASE x = m
                <5>1. s = w
                    BY <2>1, <2>5, <3>1, <3>3, <4>1 DEF d
                <5>2. QED
                    BY <2>3, <4>1, <5>1
            <4>2. CASE x \in T[c]
                BY <3>1, <3>3, <4>2 DEF Belongs
            <4>3. CASE x \in T[d]
                <5>1. d # NULL
                    BY <4>3 DEF Tree
                <5>2. d \in S
                    BY <2>1, <5>1, Smaller DEF d
                <5>3. T[x] \subseteq T[d]
                    BY <4>3, <5>2, Nested
                <5>4. leaf.at \in T[d]
                    BY <2>6, <3>3, <5>3
                <5>5. QED
                    BY <2>5, <3>1, <5>4
            <4>4. QED
                BY <2>5, <4>1, <4>2, <4>3
        <3>4. Belongs(h, T, b, n, leaf.at, leaf.side, T[m])
            BY <3>1, <3>3 DEF Belongs
        <3>5. QED
            BY <2>5, <3>1, <3>2, <3>4
    <2>9. QED
        BY <2>7, <2>8
<1> HIDE DEF P, b
<1>3. S \subseteq P
    BY <1>2, TreeInduction DEF b
<1>4. QED
    BY <1>1, <1>3 DEF P, b

\* TreeAdd() of a node that is in no tree.
LEMMA TreeAddFits ==
    ASSUME NEW h, NEW S, NEW root, NEW sc \in [Nodes -> Int],
           Fitted(h, h, root, S, ByScore(sc)), Loose(h, S),
           NEW n \in Nodes \ S, h[n].parent = NULL
    PROVE  LET f == TreeAdd(h, root, sc, n)
           IN  Fitted(h, f.heap, f.top, S \cup {n}, ByScore(sc))
<1> DEFINE b == ByScore(sc)
           f == TreeAdd(h, root, sc, n)
           R == S \cup {n}
           g == CHOOSE descend : Descends(descend, h, sc, n)
           leaf == g[root]
           at == leaf.at
           side == leaf.side
<1>1. PICK T : Tree(h, T, S, root, b)
    BY DEF Fitted
<1>2. h \in Heap /\ Order(b) /\ S \subseteq Nodes /\ RootOK(h, T, S, root) /\ \A s \in Sides : h[n][s] = NULL
    BY <1>1 DEF Tree, Loose
<1>3. f = IF root = NULL THEN FixAVL(h, n)
          ELSE FixAVL([h EXCEPT ![at][side] = n, ![n].parent = at], n)
    BY DEF TreeAdd, Descends, Way
<1>4. CASE root = NULL
    <2>1. S = {} /\ R = {n}
        BY <1>2, <1>4 DEF RootOK
    <2>2. PICK T2 : Climbs(h, T2, R, n, b, n, 0)
        BY <1>2, <2>1, AloneClimbs
    <2> HIDE DEF f, R, b
    <2>3. f = FixAVL(h, n)
        BY <1>3, <1>4
    <2>4. Fitted(h, f.heap, f.top, R, b)
        BY <2>2, <2>3, FixAVLFits
    <2>5. QED
        BY <2>4 DEF f, R, b
<1>5. CASE root # NULL
    <2>1. root \in S /\ T[root] = S
        BY <1>2, <1>5 DEF RootOK
    <2>2. Descends(g, h, sc, n)
        BY <1>1, DescendExists
    <2> HIDE DEF g, f, R
    <2>3. at \in S /\ side \in Sides /\ Belongs(h, T, b, n, at, side, S)
        BY <1>1, <2>1, <2>2, DescendBelongs
    <2> DEFINE k == Attached(h, n, at, side)
    <2> HIDE DEF at, side, leaf, b
    <2>4. f = FixAVL(k, n)
        BY <1>3, <1>5 DEF Attached, WithParent, WithLink
    <2>5. \A x \in S : Kept(h, x)
        BY DEF Fitted, b
    <2>6. Climbs(k, WithLeaf(T, n, at), R, root, b, n, 0)
        BY <1>1, <1>2, <2>3, <2>5, LeafClimbs DEF R
    <2>7. \A y \in Nodes \ R : k[y] = h[y]
        <3>1. at \in Nodes /\ n # at
            BY <1>2, <2>3
        <3>2. \A y \in Nodes \ {n, at} : k[y] = h[y]
            BY <1>2, <2>3, <3>1, AttachedIs
        <3>3. QED
            BY <2>3, <3>2 DEF R
    <2> HIDE DEF k
    <2>8. Fitted(k, f.heap, f.top, R, b)
        BY <2>4, <2>6, FixAVLFits
    <2>9. Fitted(h, f.heap, f.top, R, b)
        BY <2>7, <2>8 DEF Fitted
    <2>10. QED
        BY <2>9 DEF f, R, b
<1>6. QED
    BY <1>4, <1>5
------------------------------------------------------------------------------
(* Scores that change, and nodes that are initialised.                     *)

\* Two orders that are the same for the nodes of a tree.
LEMMA Reordered ==
    ASSUME NEW h, NEW root, NEW S, NEW b, NEW c, Fitted(h, h, root, S, b), Order(c),
           \A x, y \in S : <<x, y>> \in b <=> <<x, y>> \in c
    PROVE  Fitted(h, h, root, S, c)
<1>1. PICK T : Tree(h, T, S, root, b)
    BY DEF Fitted
<1>2. ASSUME NEW n \in S PROVE NodeOK(h, T, S, root, c, n)
    <2>1. NodeOK(h, T, S, root, b, n)
        BY <1>1 DEF Tree
    <2>2. ASSUME NEW s \in Sides, NEW x \in T[h[n][s]] PROVE On(c, x, n, s)
        <3>1. On(b, x, n, s)
            BY <2>1, <2>2 DEF NodeOK
        <3>2. h[n][s] \in Ptr
            BY <1>1, Branches DEF Branch
        <3>3. x \in S
            BY <1>1, <2>2, <3>2 DEF Tree
        <3>4. QED
            BY <3>1, <3>3 DEF On
    <2>3. QED
        BY <2>1, <2>2 DEF NodeOK
<1>3. Tree(h, T, S, root, c)
    BY <1>1, <1>2 DEF Tree
<1>4. QED
    BY <1>3 DEF Fitted

\* create() of a node outside the tree.
Blanked(h, n) == [h EXCEPT ![n] = InitNode]

\* What avlInit() makes is a node.
LEMMA InitTyped ==
    InitNode \in AVLNode
BY DEF InitNode, AVLNode

\* One node is initialised.
LEMMA BlankedIs ==
    ASSUME NEW h \in Heap, NEW n \in Nodes
    PROVE  /\ Blanked(h, n) \in Heap /\ Blanked(h, n)[n] = InitNode
           /\ \A y \in Nodes \ {n} : Blanked(h, n)[y] = h[y]
BY InitTyped DEF Blanked, Heap

\* That leaves a tree without it alone.
LEMMA BlankedFits ==
    ASSUME NEW h, NEW root, NEW S, NEW before, Fitted(h, h, root, S, before),
           NEW n \in Nodes \ S, NEW g, g = Blanked(h, n)
    PROVE  Fitted(g, g, root, S, before)
<1>1. PICK T : Tree(h, T, S, root, before)
    BY DEF Fitted
<1>2. h \in Heap /\ S \subseteq Nodes
    BY <1>1 DEF Tree
<1>3. g \in Heap /\ \A y \in S : g[y] = h[y]
    BY <1>2, BlankedIs
<1>4. \A y \in S : g[y].parent = h[y].parent /\ SameLinks(g, h, y) /\ SameSizes(g, h, y)
    BY <1>3 DEF SameLinks, SameSizes
<1>5. Tree(g, T, S, root, before)
    BY <1>1, <1>3, <1>4, TreeSame
<1>6. ASSUME NEW x \in S PROVE Kept(g, x)
    <2>1. Kept(h, x) /\ x \in Nodes
        BY <1>2 DEF Fitted
    <2>2. \A s \in Sides : h[x][s] # NULL => h[x][s] \in S
        BY <1>1, Branches DEF Branch
    <2>3. \A s \in Sides : h[x][s] # NULL => SameSizes(g, h, h[x][s])
        BY <1>4, <2>2
    <2>4. QED
        BY <1>2, <1>3, <1>4, <2>1, <2>3, KeptSame
<1>7. QED
    BY <1>5, <1>6 DEF Fitted

\* The scores of other nodes are as they were.
LEMMA Rescored ==
    ASSUME NEW sc \in [Nodes -> Int], NEW sd \in [Nodes -> Int], NEW S \in SUBSET Nodes,
           \A x \in S : sd[x] = sc[x],
           NEW h, NEW root, Fitted(h, h, root, S, ByScore(sc))
    PROVE  Fitted(h, h, root, S, ByScore(sd))
<1>1. Order(ByScore(sd))
    BY ByScoreOrders
<1>2. \A x, y \in S : <<x, y>> \in ByScore(sc) <=> <<x, y>> \in ByScore(sd)
    BY DEF ByScore, Less
<1>3. QED
    BY <1>1, <1>2, Reordered
------------------------------------------------------------------------------
\* The nodes outside the set are as create() will find them.
Unused(h, S) == \A y \in Nodes \ S : h[y] = InitNode

\* Unused nodes have no links.
LEMMA UnusedLoose ==
    ASSUME NEW h \in Heap, NEW S, Unused(h, S)
    PROVE  Loose(h, S) /\ Orphans(h, S) /\ \A y \in Nodes \ S : h[y].parent = NULL
BY DEF Unused, Loose, Orphans, InitNode, Sides

\* The types of a tree.
LEMMA FittedTyped ==
    ASSUME NEW f, NEW h, NEW S, NEW root, NEW before, Fitted(f, h, root, S, before)
    PROVE  h \in Heap /\ root \in S \cup {NULL} /\ root \in Ptr /\ S \in SUBSET Nodes
BY DEF Fitted, Tree, RootOK, Ptr

\* TreeAdd() of an unused node.
LEMMA Adds ==
    ASSUME NEW h, NEW root, NEW S, NEW sc \in [Nodes -> Int],
           Fitted(h, h, root, S, ByScore(sc)), Unused(h, S),
           NEW n \in Nodes \ S, NEW r, r = TreeAdd(h, root, sc, n)
    PROVE  /\ Fitted(r.heap, r.heap, r.top, S \cup {n}, ByScore(sc))
           /\ Unused(r.heap, S \cup {n})
<1>1. Loose(h, S) /\ h[n].parent = NULL
    BY FittedTyped, UnusedLoose
<1>2. Fitted(h, r.heap, r.top, S \cup {n}, ByScore(sc))
    BY <1>1, TreeAddFits
<1>3. QED
    BY <1>2 DEF Fitted, Unused

\* delAVL() of a member, after which its node is unused.
LEMMA Cuts ==
    ASSUME NEW h, NEW root, NEW S, NEW before,
           Fitted(h, h, root, S, before), Unused(h, S),
           NEW n \in S, NEW r, r = DelAVL(h, n), NEW g, g = Blanked(r.heap, n)
    PROVE  /\ Fitted(g, g, r.top, S \ {n}, before) /\ Unused(g, S \ {n})
           /\ r = [heap |-> r.heap, top |-> r.top]
<1>1. Loose(h, S) /\ Orphans(h, S)
    BY FittedTyped, UnusedLoose
<1>2. PICK T : Tree(h, T, S, root, before)
    BY DEF Fitted
<1>3. \A x \in S : Kept(h, x)
    BY DEF Fitted
<1>4. Cut(h, r, S, before, n) /\ r \in Answers
    BY <1>1, <1>2, <1>3, DelAVLCuts
<1>5. Fitted(r.heap, r.heap, r.top, S \ {n}, before)
    BY <1>4 DEF Cut, Fitted
<1>6. n \in Nodes \ (S \ {n})
    BY <1>2 DEF Tree
<1>7. Fitted(g, g, r.top, S \ {n}, before)
    BY <1>5, <1>6, BlankedFits
<1>8. Unused(g, S \ {n})
    <2>1. r.heap \in Heap
        BY <1>4 DEF Answers
    <2>2. g[n] = InitNode /\ \A y \in Nodes \ {n} : g[y] = r.heap[y]
        BY <1>6, <2>1, BlankedIs
    <2>3. \A y \in Nodes \ S : r.heap[y] = h[y]
        BY <1>4 DEF Cut
    <2>4. QED
        BY <2>2, <2>3 DEF Unused
<1>9. r = [heap |-> r.heap, top |-> r.top]
    BY <1>4 DEF Answers
<1>10. QED
    BY <1>7, <1>8, <1>9
------------------------------------------------------------------------------
(* The invariant.                                                          *)

\* What TypeOK says without the tree.
Typed ==
    /\ map \subseteq Names
    /\ tree \in Ptr
    /\ heap \in Heap
    /\ score \in [Names -> Int]
    /\ \A n \in Names \ map : heap[n] = InitNode /\ score[n] = 0

IndexInv ==
    /\ Typed
    /\ Fitted(heap, heap, tree, map, ByScore(score))

\* The empty set.
LEMMA InitIndex ==
    Init => IndexInv
<1> SUFFICES ASSUME Init PROVE IndexInv
    OBVIOUS
<1> DEFINE T == [x \in Ptr |-> {}]
<1>1. Typed
    BY InitTyped, MembersAssumption DEF Init, Typed, Heap, Ptr
<1>2. heap \in Heap /\ score \in [Nodes -> Int] /\ map = {} /\ tree = NULL
    BY <1>1, MembersAssumption DEF Typed, Init
<1>3. Order(ByScore(score))
    BY <1>2, ByScoreOrders
<1>4. T \in [Ptr -> SUBSET {}] /\ T[NULL] = {} /\ RootOK(heap, T, {}, NULL)
    BY DEF RootOK, Ptr
<1> HIDE DEF T
<1>5. Tree(heap, T, {}, NULL, ByScore(score))
    BY <1>2, <1>3, <1>4 DEF Tree
<1>6. QED
    BY <1>1, <1>2, <1>5 DEF IndexInv, Fitted

\* add() of a new member.
LEMMA CreateKeeps ==
    ASSUME IndexInv, NEW n \in Names, NEW s \in Int, Create(n, s)
    PROVE  IndexInv'
<1> DEFINE r == TreeAdd([heap EXCEPT ![n] = InitNode], tree, score', n)
<1>1. /\ n \in Nodes /\ map \subseteq Nodes /\ heap \in Heap /\ score \in [Nodes -> Int]
      /\ Unused(heap, map) /\ \A x \in Nodes \ map : score[x] = 0
      /\ Fitted(heap, heap, tree, map, ByScore(score))
    BY MembersAssumption DEF IndexInv, Typed, Unused
<1>2. n \notin map
    <2>1. tree = NULL => map = {}
        BY <1>1 DEF Fitted, Tree, RootOK
    <2>2. n # NULL
        BY <1>1, NodesAssumption
    <2>3. QED
        BY <2>1, <2>2 DEF Create, LookUp
<1>3. score' = [score EXCEPT ![n] = s] /\ map' = map \cup {n}
    BY DEF Create
<1>4. score' \in [Nodes -> Int] /\ \A x \in Nodes \ {n} : score'[x] = score[x]
    BY <1>1, <1>3
<1>5. [heap EXCEPT ![n] = InitNode] = heap
    BY <1>1, <1>2 DEF Unused, Heap
<1>6. Fitted(heap, heap, tree, map, ByScore(score'))
    <2>1. \A x \in map : score'[x] = score[x]
        BY <1>1, <1>2, <1>4
    <2>2. QED
        BY <1>1, <1>4, <2>1, Rescored
<1>7. heap' = r.heap /\ tree' = r.top
    BY DEF Create, TreeIs
<1>8. r = TreeAdd(heap, tree, score', n)
    BY <1>5
<1> HIDE DEF r
<1>9. /\ Fitted(r.heap, r.heap, r.top, map \cup {n}, ByScore(score'))
      /\ Unused(r.heap, map \cup {n})
    BY <1>1, <1>2, <1>4, <1>6, <1>8, Adds
<1>10. heap' \in Heap /\ tree' \in Ptr /\ Unused(heap', map')
    BY <1>3, <1>7, <1>9, FittedTyped
<1>11. Typed'
    BY <1>1, <1>3, <1>4, <1>10, MembersAssumption DEF Typed, Unused, Ptr
<1>12. Fitted(heap', heap', tree', map', ByScore(score'))
    BY <1>3, <1>7, <1>9
<1>13. QED
    BY <1>11, <1>12 DEF IndexInv, ByScore, Less, Fitted

\* add() of a member with another score.
LEMMA MoveKeeps ==
    ASSUME IndexInv, NEW n \in Names, NEW s \in Int, Move(n, s)
    PROVE  IndexInv'
<1> DEFINE cut == DelAVL(heap, n)
           g == Blanked(cut.heap, n)
           r == TreeAdd(g, cut.top, score', n)
           R == map \ {n}
<1>1. /\ n \in Nodes /\ map \subseteq Nodes /\ heap \in Heap /\ score \in [Nodes -> Int]
      /\ Unused(heap, map) /\ \A x \in Nodes \ map : score[x] = 0
      /\ Fitted(heap, heap, tree, map, ByScore(score))
    BY MembersAssumption DEF IndexInv, Typed, Unused
<1>2. n \in map
    <2>1. n # NULL
        BY <1>1, NodesAssumption
    <2>2. QED
        BY <2>1 DEF Move, LookUp
<1>3. score' = [score EXCEPT ![n] = s] /\ map' = map /\ R \cup {n} = map /\ n \in Nodes \ R
    BY <1>1, <1>2 DEF Move
<1>4. score' \in [Nodes -> Int] /\ \A x \in Nodes \ {n} : score'[x] = score[x]
    BY <1>1, <1>3
<1>5. heap' = r.heap /\ tree' = r.top
    BY DEF Move, TreeIs, Blanked
<1> HIDE DEF r
<1>6. Fitted(g, g, cut.top, R, ByScore(score)) /\ Unused(g, R)
    BY <1>1, <1>2, Cuts
<1> HIDE DEF g, cut
<1>7. Fitted(g, g, cut.top, R, ByScore(score'))
    <2>1. R \in SUBSET Nodes /\ \A x \in R : score'[x] = score[x]
        BY <1>1, <1>4
    <2> HIDE DEF R
    <2>2. QED
        BY <1>1, <1>4, <1>6, <2>1, Rescored
<1>8. /\ Fitted(r.heap, r.heap, r.top, R \cup {n}, ByScore(score'))
      /\ Unused(r.heap, R \cup {n})
    <2> HIDE DEF R
    <2>1. r = TreeAdd(g, cut.top, score', n)
        BY DEF r
    <2>2. QED
        BY <1>3, <1>4, <1>6, <1>7, <2>1, Adds
<1> HIDE DEF R
<1>9. heap' \in Heap /\ tree' \in Ptr /\ Unused(heap', map')
    BY <1>3, <1>5, <1>8, FittedTyped
<1>10. Typed'
    BY <1>1, <1>2, <1>3, <1>4, <1>9, MembersAssumption DEF Typed, Unused, Ptr
<1>11. Fitted(heap', heap', tree', map', ByScore(score'))
    BY <1>3, <1>5, <1>8
<1>12. QED
    BY <1>10, <1>11 DEF IndexInv, ByScore, Less, Fitted

\* pop() of a member.
LEMMA RemoveKeeps ==
    ASSUME IndexInv, NEW n \in Names, Remove(n)
    PROVE  IndexInv'
<1> DEFINE cut == DelAVL(heap, n)
           g == Blanked(cut.heap, n)
           R == map \ {n}
<1>1. /\ n \in Nodes /\ map \subseteq Nodes /\ heap \in Heap /\ score \in [Nodes -> Int]
      /\ Unused(heap, map) /\ \A x \in Nodes \ map : score[x] = 0
      /\ Fitted(heap, heap, tree, map, ByScore(score))
    BY MembersAssumption DEF IndexInv, Typed, Unused
<1>2. n \in map
    <2>1. n # NULL
        BY <1>1, NodesAssumption
    <2>2. QED
        BY <2>1 DEF Remove, LookUp
<1>3. score' = [score EXCEPT ![n] = 0] /\ map' = R
    BY DEF Remove
<1>4. score' \in [Nodes -> Int] /\ \A x \in Nodes \ {n} : score'[x] = score[x]
    BY <1>1, <1>3
<1>5. /\ Fitted(g, g, cut.top, R, ByScore(score)) /\ Unused(g, R)
      /\ cut = [heap |-> cut.heap, top |-> cut.top]
    BY <1>1, <1>2, Cuts
<1>6. heap' = g /\ tree' = cut.top
    <2>1. heap' = [cut EXCEPT !.heap[n] = InitNode].heap /\ tree' = [cut EXCEPT !.heap[n] = InitNode].top
        BY DEF Remove, TreeIs
    <2> HIDE DEF cut
    <2> DEFINE k == cut.heap
               t == cut.top
    <2>2. cut = [heap |-> k, top |-> t]
        BY <1>5
    <2> HIDE DEF k, t
    <2>3. [cut EXCEPT !.heap[n] = InitNode] = [heap |-> [k EXCEPT ![n] = InitNode], top |-> t]
        BY <2>2
    <2>4. heap' = [k EXCEPT ![n] = InitNode] /\ tree' = t
        BY <2>1, <2>3
    <2>5. QED
        BY <2>4 DEF k, t, Blanked
<1> HIDE DEF g, cut
<1>7. Fitted(g, g, cut.top, R, ByScore(score'))
    <2>1. R \in SUBSET Nodes /\ \A x \in R : score'[x] = score[x]
        BY <1>1, <1>4
    <2> HIDE DEF R
    <2>2. QED
        BY <1>1, <1>4, <1>5, <2>1, Rescored
<1>8. heap' \in Heap /\ tree' \in Ptr /\ Unused(heap', map')
    BY <1>3, <1>5, <1>6, <1>7, FittedTyped
<1>9. Typed'
    <2>1. \A x \in Nodes \ R : score'[x] = 0
        BY <1>1, <1>3, <1>4
    <2>2. R \subseteq Nodes
        BY <1>1
    <2> HIDE DEF R
    <2>3. QED
        BY <1>3, <1>4, <1>8, <2>1, <2>2, MembersAssumption DEF Typed, Unused, Ptr
<1>10. Fitted(heap', heap', tree', map', ByScore(score'))
    BY <1>3, <1>6, <1>7
<1>11. QED
    BY <1>9, <1>10 DEF IndexInv, ByScore, Less, Fitted

\* Every call keeps the invariant.
LEMMA NextKeeps ==
    IndexInv /\ [Next]_vars => IndexInv'
<1> SUFFICES ASSUME IndexInv, [Next]_vars PROVE IndexInv'
    OBVIOUS
<1>1. ASSUME NEW m \in Members, Create(m[1], m[2]) PROVE IndexInv'
    <2>1. m[1] \in Names /\ m[2] \in Int
        BY MembersAssumption
    <2>2. QED
        BY <1>1, <2>1, CreateKeeps
<1>2. ASSUME NEW m \in Members, Move(m[1], m[2]) PROVE IndexInv'
    <2>1. m[1] \in Names /\ m[2] \in Int
        BY MembersAssumption
    <2>2. QED
        BY <1>2, <2>1, MoveKeeps
<1>3. ASSUME NEW n \in Names, Remove(n) PROVE IndexInv'
    BY <1>3, RemoveKeeps
<1>4. CASE UNCHANGED vars
    BY <1>4 DEF vars, IndexInv, Typed, Fitted, ByScore, Less
<1>5. QED
    BY <1>1, <1>2, <1>3, <1>4 DEF Next

\* At any time the nodes of the map are those of a balanced tree in the order of
\* their scores, with its depths and sizes in its nodes (zset.cxx, avl.c).
THEOREM Indexed ==
    Spec => []IndexInv
<1>1. Init => IndexInv
    BY InitIndex
<1>2. IndexInv /\ [Next]_vars => IndexInv'
    BY NextKeeps
<1>3. QED
    BY <1>1, <1>2, PTL DEF Spec

\* Every pointer of the tree leads from a member to a member or is null, so that
\* none is left to a node that was removed, through delAVL's copy of a node over
\* its successor and the rotations (avl.c); and a node outside the set is as
\* create() will find it.
THEOREM TypeCorrect ==
    Spec => []TypeOK
<1>1. ASSUME IndexInv PROVE TypeOK
    <2>1. PICK T : Tree(heap, T, map, tree, ByScore(score))
        BY <1>1 DEF IndexInv, Fitted
    <2>2. tree \in map \cup {NULL}
        BY <2>1 DEF Tree, RootOK
    <2>3. ASSUME NEW n \in map
          PROVE  {heap[n].parent, heap[n].left, heap[n].right} \subseteq map \cup {NULL}
        <3>1. /\ NodeOK(heap, T, map, tree, ByScore(score), n)
              /\ RootOK(heap, T, map, tree) /\ n \in Nodes /\ heap \in Heap
            BY <2>1 DEF Tree
        <3>2. heap[n].left = heap[n]["left"] /\ heap[n].right = heap[n]["right"]
            BY <3>1, HeapTyped
        <3>3. heap[n].left \in map \cup {NULL} /\ heap[n].right \in map \cup {NULL}
            BY <3>1, <3>2 DEF NodeOK, Sides
        <3>4. heap[n].parent \in map \cup {NULL}
            BY <3>1 DEF NodeOK, RootOK
        <3>5. QED
            BY <3>3, <3>4
    <2>4. QED
        BY <1>1, <2>2, <2>3 DEF IndexInv, Typed, TypeOK
<1>2. QED
    BY <1>1, Indexed, PTL

\* What the invariant says of one member.
LEMMA KeptIs ==
    ASSUME IndexInv, NEW n \in map
    PROVE  LET l == Depth(heap, heap[n].left)
               r == Depth(heap, heap[n].right)
           IN  /\ heap[n].depth = 1 + Deeper(l, r) /\ l - r \in -1 .. 1
               /\ heap[n].count = 1 + Count(heap, heap[n].left) + Count(heap, heap[n].right)
<1>1. Kept(heap, n) /\ heap \in Heap /\ n \in Nodes
    BY MembersAssumption DEF IndexInv, Typed, Fitted
<1>2. /\ heap[n]["left"] = heap[n].left /\ heap[n]["right"] = heap[n].right /\ Other("left") = "right"
      /\ heap[n].left \in Ptr /\ heap[n].right \in Ptr
    BY <1>1, HeapTyped DEF Other
<1>3. Depth(heap, heap[n].left) \in Nat /\ Depth(heap, heap[n].right) \in Nat
    BY <1>1, <1>2, DepthTyped
<1>4. QED
    BY <1>1, <1>2, <1>3 DEF Kept, KeptOn, Close

\* The tree is balanced after every insertion, move and removal, with true
\* heights, whatever its size and history (update() and fixAVL()).
THEOREM AlwaysBalanced ==
    Spec => []Balanced
<1>1. IndexInv => Balanced
    BY KeptIs DEF Balanced
<1>2. QED
    BY <1>1, Indexed, PTL

\* Every node knows the size of its subtree (update(), delAVL()).
THEOREM AlwaysCounted ==
    Spec => []Counted
<1>1. IndexInv => Counted
    BY KeptIs DEF Counted
<1>2. QED
    BY <1>1, Indexed, PTL
------------------------------------------------------------------------------
(* The nodes in their order.                                               *)

\* A sequence lists a set in this order, each member once.
Lists(s, X, before) ==
    /\ s \in Seq(Nodes)
    /\ {s[i] : i \in DOMAIN s} = X
    /\ Len(s) = Cardinality(X)
    /\ \A i, j \in DOMAIN s : i < j => <<s[i], s[j]>> \in before

\* The elements of two sequences, one after the other.
LEMMA Concatenation ==
    ASSUME NEW V, NEW s \in Seq(V), NEW t \in Seq(V), NEW w, w = s \o t
    PROVE  /\ w \in Seq(V) /\ Len(w) = Len(s) + Len(t)
           /\ \A i \in DOMAIN s : i \in DOMAIN w /\ w[i] = s[i]
           /\ \A i \in DOMAIN t : Len(s) + i \in DOMAIN w /\ w[Len(s) + i] = t[i]
           /\ \A i \in DOMAIN w : i \in DOMAIN s \/ (i - Len(s) \in DOMAIN t /\ w[i] = t[i - Len(s)])
<1>1. w \in Seq(V) /\ Len(w) = Len(s) + Len(t) /\ Len(s) \in Nat /\ Len(t) \in Nat
    OBVIOUS
<1>2. DOMAIN s = 1 .. Len(s) /\ DOMAIN t = 1 .. Len(t) /\ DOMAIN w = 1 .. Len(w)
    BY <1>1
<1>3. \A i \in 1 .. Len(w) : w[i] = IF i <= Len(s) THEN s[i] ELSE t[i - Len(s)]
    BY <1>1
<1>4. \A i \in DOMAIN s : i \in DOMAIN w /\ w[i] = s[i]
    BY <1>1, <1>2, <1>3
<1>5. \A i \in DOMAIN t : Len(s) + i \in DOMAIN w /\ w[Len(s) + i] = t[i]
    <2> SUFFICES ASSUME NEW i \in 1 .. Len(t) PROVE Len(s) + i \in 1 .. Len(w) /\ w[Len(s) + i] = t[i]
        BY <1>2
    <2>1. Len(s) + i \in 1 .. Len(w) /\ ~(Len(s) + i <= Len(s)) /\ Len(s) + i - Len(s) = i
        BY <1>1
    <2>2. QED
        BY <1>3, <2>1
<1>6. \A i \in DOMAIN w : i \in DOMAIN s \/ (i - Len(s) \in DOMAIN t /\ w[i] = t[i - Len(s)])
    BY <1>1, <1>2, <1>3
<1>7. QED
    BY <1>1, <1>4, <1>5, <1>6

\* Two lists, all of the first before all of the second.
LEMMA Joined ==
    ASSUME NEW s, NEW t, NEW A \in SUBSET Nodes, NEW B \in SUBSET Nodes, NEW before,
           Lists(s, A, before), Lists(t, B, before), A \cap B = {},
           \A x \in A, y \in B : <<x, y>> \in before,
           NEW w, w = s \o t
    PROVE  Lists(w, A \cup B, before)
<1>1. s \in Seq(Nodes) /\ t \in Seq(Nodes) /\ {s[i] : i \in DOMAIN s} = A /\ {t[i] : i \in DOMAIN t} = B
    BY DEF Lists
<1>2. /\ w \in Seq(Nodes) /\ Len(w) = Len(s) + Len(t)
      /\ \A i \in DOMAIN s : i \in DOMAIN w /\ w[i] = s[i]
      /\ \A i \in DOMAIN t : Len(s) + i \in DOMAIN w /\ w[Len(s) + i] = t[i]
      /\ \A i \in DOMAIN w : i \in DOMAIN s \/ (i - Len(s) \in DOMAIN t /\ w[i] = t[i - Len(s)])
    BY <1>1, Concatenation
<1>3. /\ DOMAIN s = 1 .. Len(s) /\ DOMAIN t = 1 .. Len(t) /\ DOMAIN w = 1 .. Len(w)
      /\ Len(s) \in Nat /\ Len(t) \in Nat /\ Len(w) \in Nat
    BY <1>1, <1>2
<1>4. {w[i] : i \in DOMAIN w} = A \cup B
    <2>1. \A i \in DOMAIN w : w[i] \in A \cup B
        BY <1>1, <1>2
    <2>2. \A x \in A : \E i \in DOMAIN s : x = s[i]
        BY <1>1
    <2>3. \A x \in B : \E i \in DOMAIN t : x = t[i]
        BY <1>1
    <2>4. \A x \in A : \E i \in DOMAIN w : x = w[i]
        BY <1>2, <2>2
    <2>5. ASSUME NEW x \in B PROVE \E k \in DOMAIN w : x = w[k]
        <3>1. PICK i \in DOMAIN t : x = t[i]
            BY <2>3
        <3> DEFINE k == Len(s) + i
        <3>2. k \in DOMAIN w /\ w[k] = t[i]
            BY <1>2
        <3> HIDE DEF k
        <3>3. QED
            BY <3>1, <3>2
    <2>6. QED
        BY <2>1, <2>4, <2>5
<1>5. Len(w) = Cardinality(A \cup B)
    <2>1. IsFiniteSet(A) /\ IsFiniteSet(B)
        BY NodesAssumption, FS_Subset
    <2>2. Cardinality(A \cup B) = Cardinality(A) + Cardinality(B) - Cardinality(A \cap B)
        BY <2>1, FS_Union
    <2>3. Cardinality(A \cap B) = 0
        BY FS_EmptySet
    <2>4. Cardinality(A) \in Nat /\ Cardinality(B) \in Nat
        BY <2>1, FS_CardinalityType
    <2>5. Len(s) = Cardinality(A) /\ Len(t) = Cardinality(B)
        BY DEF Lists
    <2>6. QED
        BY <1>2, <2>2, <2>3, <2>4, <2>5
<1>6. ASSUME NEW i \in DOMAIN w, NEW j \in DOMAIN w, i < j PROVE <<w[i], w[j]>> \in before
    <2>1. i \in DOMAIN s \/ (i - Len(s) \in DOMAIN t /\ w[i] = t[i - Len(s)])
        BY <1>2
    <2>2. j \in DOMAIN s \/ (j - Len(s) \in DOMAIN t /\ w[j] = t[j - Len(s)])
        BY <1>2
    <2>3. CASE j \in DOMAIN s
        <3>1. i \in DOMAIN s
            BY <1>3, <1>6, <2>3
        <3>2. QED
            BY <1>2, <1>6, <2>3, <3>1 DEF Lists
    <2>4. CASE j \notin DOMAIN s /\ i \in DOMAIN s
        BY <1>1, <1>2, <2>2, <2>4
    <2>5. CASE j \notin DOMAIN s /\ i \notin DOMAIN s
        <3> DEFINE ii == i - Len(s)
                   jj == j - Len(s)
        <3>1. ii \in DOMAIN t /\ jj \in DOMAIN t /\ w[i] = t[ii] /\ w[j] = t[jj]
            BY <2>1, <2>2, <2>5
        <3>2. ii < jj
            BY <1>3, <1>6
        <3> HIDE DEF ii, jj
        <3>3. QED
            BY <3>1, <3>2 DEF Lists
    <2>6. QED
        BY <2>3, <2>4, <2>5
<1>7. QED
    BY <1>2, <1>4, <1>5, <1>6 DEF Lists

\* Nothing is listed by the empty sequence.
LEMMA EmptyLists ==
    ASSUME NEW before
    PROVE  Lists(<<>>, {}, before)
<1>1. <<>> \in Seq(Nodes) /\ Len(<<>>) = 0 /\ DOMAIN <<>> = {}
    OBVIOUS
<1>2. Cardinality({}) = 0
    BY FS_EmptySet
<1>3. QED
    BY <1>1, <1>2 DEF Lists

\* One node.
LEMMA Singleton ==
    ASSUME NEW n \in Nodes, NEW before
    PROVE  Lists(<<n>>, {n}, before)
<1>1. <<n>> \in Seq(Nodes) /\ Len(<<n>>) = 1 /\ DOMAIN <<n>> = {1} /\ <<n>>[1] = n
    OBVIOUS
<1>2. Cardinality({n}) = 1
    BY FS_Singleton
<1>3. {<<n>>[i] : i \in DOMAIN <<n>>} = {n}
    BY <1>1
<1>4. \A i, j \in DOMAIN <<n>> : ~(i < j)
    BY <1>1
<1>5. QED
    BY <1>1, <1>2, <1>3, <1>4 DEF Lists
------------------------------------------------------------------------------
Visits(f, h) ==
    f = [n \in Nodes \cup {NULL} |->
           IF n = NULL THEN <<>> ELSE f[h[n].left] \o <<n>> \o f[h[n].right]]

\* Visiting a tree from left to right is a function.
LEMMA VisitsExist ==
    ASSUME NEW h, NEW T, NEW S, NEW root, NEW before, Tree(h, T, S, root, before), Loose(h, S)
    PROVE  \E f : Visits(f, h)
<1> DEFINE V == Seq(Nodes)
           next(f, n) == IF n = NULL THEN <<>> ELSE f[h[n].left] \o <<n>> \o f[h[n].right]
           rank == [n \in Ptr |-> IF n = NULL THEN 0
                                  ELSE IF n \in S THEN Cardinality(T[n]) + 1 ELSE 1]
           G == [f \in [Ptr -> V] |-> [n \in Ptr |-> next(f, n)]]
<1>1. /\ h \in Heap /\ S \subseteq Nodes
      /\ \A n \in Nodes : h[n].left \in Ptr /\ h[n].right \in Ptr
      /\ \A n \in Nodes : h[n].left = h[n]["left"] /\ h[n].right = h[n]["right"]
    <2>1. h \in Heap /\ S \subseteq Nodes
        BY DEF Tree
    <2>2. QED
        BY <2>1, HeapTyped
<1>2. rank \in [Ptr -> Nat]
    <2>1. \A m \in S : Cardinality(T[m]) \in Nat
        BY Smaller
    <2>2. QED
        BY <2>1
<1>3. ASSUME NEW f \in [Ptr -> V], NEW n \in Ptr PROVE next(f, n) \in V
    <2>1. CASE n = NULL
        BY <2>1
    <2>2. CASE n # NULL
        <3>1. n \in Nodes
            BY <2>2 DEF Ptr
        <3>2. f[h[n].left] \in Seq(Nodes) /\ f[h[n].right] \in Seq(Nodes) /\ <<n>> \in Seq(Nodes)
            BY <1>1, <3>1
        <3> HIDE DEF Ptr
        <3>3. f[h[n].left] \o <<n>> \o f[h[n].right] \in Seq(Nodes)
            BY <3>2
        <3>4. QED
            BY <2>2, <3>3
    <2>3. QED
        BY <2>1, <2>2
<1>4. \A f \in [Ptr -> V], n \in Ptr : G[f][n] = next(f, n)
    OBVIOUS
<1>5. G \in [[Ptr -> V] -> [Ptr -> V]]
    <2> HIDE DEF V, next
    <2>1. QED
        BY <1>3
<1>6. ASSUME NEW n \in Nodes, n # NULL, NEW c, c = h[n].left \/ c = h[n].right
      PROVE  c \in Ptr /\ rank[c] < rank[n]
    <2>1. c \in Ptr /\ n \in Ptr
        BY <1>1, <1>6 DEF Ptr
    <2>2. rank[n] \in Nat /\ rank[n] >= 1
        <3>1. n \in S => Cardinality(T[n]) \in Nat
            BY Smaller
        <3>2. QED
            BY <1>6, <2>1, <3>1
    <2>3. CASE c = NULL
        BY <2>1, <2>2, <2>3
    <2>4. CASE c # NULL
        <3>1. n \in S
            BY <1>1, <1>6, <2>4 DEF Loose, Sides
        <3>2. c \in S /\ Cardinality(T[c]) < Cardinality(T[n])
            BY <1>1, <1>6, <2>4, <3>1, Smaller DEF Sides
        <3>3. Cardinality(T[c]) \in Nat /\ Cardinality(T[n]) \in Nat
            BY <3>1, <3>2, Smaller
        <3>4. rank[c] = Cardinality(T[c]) + 1 /\ rank[n] = Cardinality(T[n]) + 1
            BY <1>6, <2>1, <2>4, <3>1, <3>2
        <3>5. QED
            BY <2>1, <3>2, <3>3, <3>4
    <2>5. QED
        BY <2>3, <2>4
<1>7. Ranked(Ptr, V, rank, G)
    <2> SUFFICES ASSUME NEW n \in Ptr, NEW f \in [Ptr -> V], NEW g \in [Ptr -> V],
                        \A y \in Ptr : rank[y] < rank[n] => f[y] = g[y]
                 PROVE  next(f, n) = next(g, n)
        BY <1>4 DEF Ranked
    <2> HIDE DEF rank, V
    <2>1. CASE n = NULL
        BY <2>1
    <2>2. CASE n # NULL
        <3>1. n \in Nodes
            BY <2>2 DEF Ptr
        <3>2. f[h[n].left] = g[h[n].left] /\ f[h[n].right] = g[h[n].right]
            BY <1>6, <2>2, <3>1
        <3>3. QED
            BY <2>2, <3>2
    <2>3. QED
        BY <2>1, <2>2
<1>8. V # {}
    <2>1. <<>> \in Seq(Nodes)
        OBVIOUS
    <2>2. QED
        BY <2>1
<1> HIDE DEF G, rank, V
<1>9. PICK f : Defines(f, Ptr, V, G)
    BY <1>2, <1>5, <1>7, <1>8, RankedFunction
<1>10. f \in [Ptr -> V] /\ \A n \in Ptr : f[n] = next(f, n)
    BY <1>4, <1>9 DEF Defines
<1>11. f = [n \in Ptr |-> next(f, n)]
    <2> HIDE DEF next
    <2>1. QED
        BY <1>10
<1>12. Visits(f, h)
    BY <1>11 DEF Visits, Ptr
<1>13. QED
    BY <1>12

\* Visiting a tree from left to right lists its nodes in their order.
LEMMA VisitLists ==
    ASSUME NEW h, NEW T, NEW S, NEW root, NEW before, Tree(h, T, S, root, before),
           NEW f, Visits(f, h)
    PROVE  /\ \A m \in S : Lists(f[m], T[m], before)
           /\ f[NULL] = <<>>
           /\ Lists(f[root], S, before)
<1> DEFINE P == {m \in S : Lists(f[m], T[m], before)}
<1>1. /\ h \in Heap /\ S \subseteq Nodes /\ T[NULL] = {} /\ NULL \notin Nodes
      /\ Order(before) /\ \A r \in S : T[r] \subseteq S
    BY NodesAssumption DEF Tree, Ptr
<1>2. f[NULL] = <<>> /\ \A m \in Nodes : f[m] = f[h[m].left] \o <<m>> \o f[h[m].right]
    BY <1>1 DEF Visits
<1>3. Lists(<<>>, {}, before)
    BY EmptyLists
<1>4. ASSUME NEW m \in S, \A s \in Sides : h[m][s] # NULL => h[m][s] \in P PROVE m \in P
    <2> DEFINE c == h[m].left
               d == h[m].right
               u == f[c] \o <<m>>
               w == u \o f[d]
    <2>1. /\ "left" \in Sides /\ "right" \in Sides /\ Other("left") = "right" /\ Other("right") = "left"
          /\ Branch(h, T, S, m, "left") /\ Branch(h, T, S, m, "right") /\ NodeOK(h, T, S, root, before, m)
          /\ m \in Nodes
        BY <1>1, Branches DEF Sides, Other, Tree
    <2>2. h[m]["left"] = c /\ h[m]["right"] = d
        BY <1>1, <2>1, HeapTyped
    <2>3. /\ T[m] = T[c] \cup {m} \cup T[d] /\ m \in T[m] /\ m \notin T[c] /\ m \notin T[d]
          /\ T[c] \cap T[d] = {}
          /\ (\A y \in T[c] : On(before, y, m, "left")) /\ (\A y \in T[d] : On(before, y, m, "right"))
        BY <2>1, <2>2 DEF Branch, NodeOK
    <2>4. Lists(f[c], T[c], before) /\ Lists(f[d], T[d], before)
        BY <1>1, <1>2, <1>3, <1>4, <2>1, <2>2
    <2>5. f[m] = w
        BY <1>2, <2>1
    <2> HIDE DEF c, d
    <2>6. T[c] \subseteq Nodes /\ T[d] \subseteq Nodes
        BY <1>1, <2>3
    <2>7. (\A y \in T[c] : <<y, m>> \in before) /\ (\A y \in T[d] : <<m, y>> \in before)
        BY <2>3 DEF On
    <2>8. \A x \in T[c], y \in T[d] : <<x, y>> \in before
        BY <1>1, <2>1, <2>6, <2>7 DEF Order
    <2>9. Lists(<<m>>, {m}, before)
        BY <2>1, Singleton
    <2>10. Lists(u, T[c] \cup {m}, before)
        <3>1. {m} \in SUBSET Nodes /\ T[c] \in SUBSET Nodes /\ T[c] \cap {m} = {}
              /\ \A x \in T[c], y \in {m} : <<x, y>> \in before
            BY <2>1, <2>3, <2>6, <2>7
        <3>2. QED
            BY <2>4, <2>9, <3>1, Joined
    <2> HIDE DEF u
    <2>11. Lists(w, (T[c] \cup {m}) \cup T[d], before)
        <3>1. /\ T[c] \cup {m} \in SUBSET Nodes /\ T[d] \in SUBSET Nodes
              /\ (T[c] \cup {m}) \cap T[d] = {}
              /\ \A x \in T[c] \cup {m}, y \in T[d] : <<x, y>> \in before
            BY <2>1, <2>3, <2>6, <2>7, <2>8
        <3>2. QED
            BY <2>4, <2>10, <3>1, Joined
    <2>12. QED
        BY <2>3, <2>5, <2>11
<1> HIDE DEF P
<1>5. S \subseteq P
    BY <1>4, TreeInduction
<1>6. \A m \in S : Lists(f[m], T[m], before)
    BY <1>5 DEF P
<1>7. Lists(f[root], S, before)
    <2>1. CASE root = NULL
        BY <1>2, <1>3, <2>1 DEF Tree, RootOK
    <2>2. CASE root # NULL
        BY <1>6, <2>2 DEF Tree, RootOK
    <2>3. QED
        BY <2>1, <2>2
<1>8. QED
    BY <1>2, <1>6, <1>7

\* InOrder lists the members by score and name.
LEMMA InOrderLists ==
    ASSUME IndexInv
    PROVE  Lists(InOrder, map, ByScore(score))
<1> DEFINE f == CHOOSE visit : Visits(visit, heap)
<1>1. InOrder = f[tree]
    BY DEF InOrder, Visits
<1>2. PICK T : Tree(heap, T, map, tree, ByScore(score))
    BY DEF IndexInv, Fitted
<1>3. Loose(heap, map)
    BY MembersAssumption, UnusedLoose DEF IndexInv, Typed, Unused
<1>4. Visits(f, heap)
    BY <1>2, <1>3, VisitsExist
<1> HIDE DEF f
<1>5. Lists(f[tree], map, ByScore(score))
    BY <1>2, <1>4, VisitLists
<1>6. QED
    BY <1>1, <1>5

\* Map and tree hold the same members, each once, and every parent pointer is
\* the reverse of a child pointer (zset.cxx, avl.c).
THEOREM AlwaysLinked ==
    Spec => []Linked
<1>1. ASSUME IndexInv PROVE Linked
    <2>1. {InOrder[i] : i \in DOMAIN InOrder} = map /\ Len(InOrder) = Cardinality(map)
        BY <1>1, InOrderLists DEF Lists
    <2>2. PICK T : Tree(heap, T, map, tree, ByScore(score))
        BY <1>1 DEF IndexInv, Fitted
    <2>3. tree # NULL => heap[tree].parent = NULL
        BY <2>2 DEF Tree, RootOK
    <2>4. ASSUME NEW n \in map, NEW c \in {heap[n].left, heap[n].right} \ {NULL}
          PROVE  heap[c].parent = n
        <3>1. NodeOK(heap, T, map, tree, ByScore(score), n) /\ n \in Nodes /\ heap \in Heap
            BY <2>2 DEF Tree
        <3>2. heap[n].left = heap[n]["left"] /\ heap[n].right = heap[n]["right"]
            BY <3>1, HeapTyped
        <3>3. \A s \in Sides : heap[n][s] # NULL => heap[heap[n][s]].parent = n
            BY <3>1 DEF NodeOK
        <3>4. QED
            BY <3>2, <3>3 DEF Sides
    <2>5. QED
        BY <2>1, <2>3, <2>4 DEF Linked
<1>2. QED
    BY <1>1, Indexed, PTL
------------------------------------------------------------------------------
\* The pairs, of any order and scores.
PairsOf(o, sc) == [i \in DOMAIN o |-> <<sc[o[i]], o[i]>>]

\* The pairs of a list of members are in order, one for each.
LEMMA PairsListed ==
    ASSUME NEW o, NEW S \in SUBSET Nodes, NEW sc \in [Nodes -> Int], Lists(o, S, ByScore(sc)),
           NEW p, p = PairsOf(o, sc)
    PROVE  /\ Abstract!Ordered(p)
           /\ Abstract!Contents(p) = {<<sc[n], n>> : n \in S}
           /\ Len(p) = Cardinality(S)
<1>1. o \in Seq(Nodes) /\ {o[i] : i \in DOMAIN o} = S /\ Len(o) = Cardinality(S)
    BY DEF Lists
<1>2. DOMAIN p = DOMAIN o /\ \A i \in DOMAIN o : p[i] = <<sc[o[i]], o[i]>>
    BY DEF PairsOf
<1>3. Abstract!Ordered(p)
    <2> SUFFICES ASSUME NEW i \in DOMAIN o, NEW j \in DOMAIN o, i < j
                 PROVE  Abstract!Below(p[i], p[j])
        BY <1>2 DEF Abstract!Ordered
    <2>1. <<o[i], o[j]>> \in ByScore(sc)
        BY DEF Lists
    <2>2. Less(sc, o[i], sc[o[j]], o[j])
        BY <2>1 DEF ByScore
    <2>3. p[i][1] = sc[o[i]] /\ p[i][2] = o[i] /\ p[j][1] = sc[o[j]] /\ p[j][2] = o[j]
        BY <1>2
    <2>4. QED
        BY <2>2, <2>3 DEF Less, Abstract!Below
<1>4. Abstract!Contents(p) = {<<sc[n], n>> : n \in S}
    <2>1. Abstract!Contents(p) = {<<sc[o[i]], o[i]>> : i \in DOMAIN o}
        BY <1>2 DEF Abstract!Contents
    <2>2. ASSUME NEW i \in DOMAIN o PROVE <<sc[o[i]], o[i]>> \in {<<sc[n], n>> : n \in S}
        <3>1. o[i] \in S
            BY <1>1
        <3>2. QED
            BY <3>1
    <2>3. ASSUME NEW n \in S PROVE <<sc[n], n>> \in {<<sc[o[i]], o[i]>> : i \in DOMAIN o}
        <3>1. PICK i \in DOMAIN o : o[i] = n
            BY <1>1
        <3>2. QED
            BY <3>1
    <2>4. QED
        BY <2>1, <2>2, <2>3
<1>5. Len(p) = Cardinality(S)
    <2>1. p \in Seq(Int \X Nodes) /\ Len(p) = Len(o)
        <3>1. DOMAIN o = 1 .. Len(o) /\ Len(o) \in Nat
            BY <1>1
        <3>2. \A i \in DOMAIN o : o[i] \in Nodes /\ sc[o[i]] \in Int
            BY <1>1
        <3>3. p = [i \in 1 .. Len(o) |-> <<sc[o[i]], o[i]>>]
            BY <3>1 DEF PairsOf
        <3>4. QED
            BY <3>1, <3>2, <3>3
    <2>2. QED
        BY <1>1, <2>1
<1>6. QED
    BY <1>3, <1>4, <1>5

\* One call on the abstract pairs, by what it does to the members and scores.
LEMMA CallIs ==
    ASSUME NEW S \in SUBSET Nodes, NEW sc \in [Nodes -> Int],
           NEW R \in SUBSET Nodes, NEW sd \in [Nodes -> Int],
           NEW n \in Names, \A x \in Nodes \ {n} : (x \in R <=> x \in S) /\ sd[x] = sc[x],
           n \in R => sd[n] \in Scores,
           n \notin R => n \in S,
           NEW old, NEW new,
           Abstract!Contents(old) = {<<sc[x], x>> : x \in S}, Len(old) = Cardinality(S),
           Abstract!Ordered(new), Abstract!Contents(new) = {<<sd[x], x>> : x \in R},
           Len(new) = Cardinality(R)
    PROVE  Abstract!Call(old, new)
<1> DEFINE others == {p \in Abstract!Contents(old) : p[2] # n}
<1>1. others = {<<sc[x], x>> : x \in S \ {n}}
    <2>1. \A x \in S : <<sc[x], x>>[2] = x
        OBVIOUS
    <2>2. QED
        BY <2>1
<1>2. {<<sc[x], x>> : x \in S \ {n}} = {<<sd[x], x>> : x \in R \ {n}}
    <2>1. S \ {n} = R \ {n}
        OBVIOUS
    <2>2. \A x \in R \ {n} : sc[x] = sd[x]
        OBVIOUS
    <2>3. QED
        BY <2>1, <2>2
<1> HIDE DEF others
<1>3. CASE n \in R
    <2>1. {<<sd[x], x>> : x \in R} = {<<sd[x], x>> : x \in R \ {n}} \cup {<<sd[n], n>>}
        BY <1>3
    <2>2. Abstract!Contents(new) = others \cup {<<sd[n], n>>}
        BY <1>1, <1>2, <2>1
    <2>3. QED
        BY <1>3, <2>2 DEF Abstract!Call, others
<1>4. CASE n \notin R
    <2>1. R = S \ {n} /\ n \in S /\ R \ {n} = R
        BY <1>4
    <2>2. Abstract!Contents(new) = others
        BY <1>1, <1>2, <2>1
    <2>3. Len(new) < Len(old)
        <3>1. IsFiniteSet(S)
            BY NodesAssumption, FS_Subset
        <3>2. Cardinality(S \ {n}) = Cardinality(S) - 1 /\ Cardinality(S) \in Nat
            BY <2>1, <3>1, FS_RemoveElement, FS_CardinalityType
        <3>3. QED
            BY <2>1, <3>2
    <2>4. QED
        BY <2>2, <2>3 DEF Abstract!Call, others
<1>5. QED
    BY <1>3, <1>4

\* The pairs of the sorted set are in order, one for each member.
LEMMA PairsAre ==
    ASSUME IndexInv
    PROVE  /\ Abstract!Ordered(Pairs)
           /\ Abstract!Contents(Pairs) = {<<score[n], n>> : n \in map}
           /\ Len(Pairs) = Cardinality(map)
<1>1. Lists(InOrder, map, ByScore(score))
    BY InOrderLists
<1>2. Pairs = PairsOf(InOrder, score)
    BY DEF Pairs, PairsOf
<1>3. map \in SUBSET Nodes /\ score \in [Nodes -> Int]
    BY MembersAssumption DEF IndexInv, Typed
<1>4. QED
    BY <1>1, <1>2, <1>3, PairsListed

\* What a call does to the members and their scores.
Changes(n) ==
    /\ \A x \in Nodes \ {n} : (x \in map' <=> x \in map) /\ score'[x] = score[x]
    /\ n \in map' => score'[n] \in Scores
    /\ n \notin map' => n \in map

\* Every call is about one member.
LEMMA NextChanges ==
    ASSUME IndexInv, Next
    PROVE  \E n \in Names : Changes(n)
<1>1. /\ Names = Nodes /\ map \subseteq Nodes /\ score \in [Nodes -> Int] /\ NULL \notin Nodes
      /\ \A m \in Members : m[1] \in Names /\ m[2] \in Scores
    BY MembersAssumption, NodesAssumption DEF IndexInv, Typed, Scores
<1>2. ASSUME NEW m \in Members, Create(m[1], m[2]) PROVE Changes(m[1])
    BY <1>1, <1>2 DEF Create, Changes
<1>3. ASSUME NEW m \in Members, Move(m[1], m[2]) PROVE Changes(m[1])
    <2>1. m[1] \in map
        BY <1>1, <1>3 DEF Move, LookUp
    <2>2. map' = map /\ score' = [score EXCEPT ![m[1]] = m[2]]
        BY <1>3 DEF Move
    <2>3. QED
        BY <1>1, <2>1, <2>2 DEF Changes
<1>4. ASSUME NEW n \in Names, Remove(n) PROVE Changes(n)
    <2>1. n \in map
        BY <1>1, <1>4 DEF Remove, LookUp
    <2>2. map' = map \ {n} /\ score' = [score EXCEPT ![n] = 0]
        BY <1>4 DEF Remove
    <2>3. QED
        BY <1>1, <2>1, <2>2 DEF Changes
<1>5. QED
    BY <1>1, <1>2, <1>3, <1>4 DEF Next

\* Every call is one of Ranking.
LEMMA NextCalls ==
    ASSUME IndexInv, Next
    PROVE  Abstract!Next
<1>1. IndexInv'
    BY NextKeeps
<1>2. /\ Abstract!Contents(Pairs) = {<<score[n], n>> : n \in map}
      /\ Len(Pairs) = Cardinality(map)
    BY PairsAre
<1>3. /\ Abstract!Ordered(Pairs')
      /\ Abstract!Contents(Pairs') = {<<score'[n], n>> : n \in map'}
      /\ Len(Pairs') = Cardinality(map')
    <2>1. (IndexInv => /\ Abstract!Ordered(Pairs)
                       /\ Abstract!Contents(Pairs) = {<<score[n], n>> : n \in map}
                       /\ Len(Pairs) = Cardinality(map))'
        BY PairsAre, PTL
    <2>2. QED
        BY <1>1, <2>1
<1>4. PICK n \in Names : Changes(n)
    BY NextChanges
<1>5. /\ map \in SUBSET Nodes /\ score \in [Nodes -> Int]
      /\ map' \in SUBSET Nodes /\ score' \in [Nodes -> Int]
    BY <1>1, MembersAssumption DEF IndexInv, Typed
<1>6. Abstract!Call(Pairs, Pairs')
    <2> DEFINE old == Pairs
               new == Pairs'
    <2>1. /\ Abstract!Contents(old) = {<<score[x], x>> : x \in map} /\ Len(old) = Cardinality(map)
          /\ Abstract!Ordered(new) /\ Abstract!Contents(new) = {<<score'[x], x>> : x \in map'}
          /\ Len(new) = Cardinality(map')
        BY <1>2, <1>3
    <2>2. /\ \A x \in Nodes \ {n} : (x \in map' <=> x \in map) /\ score'[x] = score[x]
          /\ n \in map' => score'[n] \in Scores
          /\ n \notin map' => n \in map
        BY <1>4 DEF Changes
    <2> HIDE DEF old, new
    <2>3. Abstract!Call(old, new)
        BY <1>5, <2>1, <2>2, CallIs
    <2>4. QED
        BY <2>3 DEF old, new
<1>7. QED
    BY <1>6 DEF Abstract!Next

\* The sorted set implements Ranking: every call changes the pair it is about and
\* no other, and the pairs stay in order (zset.cxx).
THEOREM RanksByScore ==
    Spec => ImplementsRanking
<1>1. Init => Abstract!Init
    <2> SUFFICES ASSUME Init PROVE Pairs = <<>>
        BY DEF Abstract!Init
    <2>1. IndexInv /\ map = {}
        BY InitIndex DEF Init
    <2>2. Lists(InOrder, {}, ByScore(score))
        BY <2>1, InOrderLists
    <2>3. InOrder \in Seq(Nodes) /\ Len(InOrder) = 0
        BY <2>2, FS_EmptySet DEF Lists
    <2>4. DOMAIN InOrder = {}
        BY <2>3
    <2>5. Pairs = [i \in {} |-> <<score[InOrder[i]], InOrder[i]>>]
        BY <2>4 DEF Pairs
    <2>6. QED
        BY <2>5
<1>2. IndexInv /\ [Next]_vars => [Abstract!Next]_Pairs
    <2>1. ASSUME IndexInv, Next PROVE Abstract!Next
        BY <2>1, NextCalls
    <2>2. ASSUME UNCHANGED vars PROVE UNCHANGED Pairs
        BY <2>2 DEF vars, Pairs, InOrder
    <2>3. QED
        BY <2>1, <2>2
<1>3. QED
    BY <1>1, <1>2, Indexed, PTL DEF Spec, ImplementsRanking, Abstract!Spec
------------------------------------------------------------------------------
(* Offsets.                                                                *)

\* A node is listed at its place.
LEMMA ListedAtPlace ==
    ASSUME NEW S \in SUBSET Nodes, NEW before, Order(before), NEW s, Lists(s, S, before)
    PROVE  /\ DOMAIN s = 1 .. Cardinality(S) /\ Cardinality(S) \in Nat
           /\ \A i \in 1 .. Cardinality(S) : s[i] \in S /\ Place(S, before, s[i]) = i
           /\ \A m \in S : Place(S, before, m) \in 1 .. Cardinality(S) /\ s[Place(S, before, m)] = m
<1> DEFINE N == Cardinality(S)
<1>1. IsFiniteSet(S) /\ N \in Nat
    BY NodesAssumption, FS_Subset, FS_CardinalityType
<1>2. /\ DOMAIN s = 1 .. N /\ s \in Seq(Nodes)
      /\ {s[i] : i \in DOMAIN s} = S
      /\ \A i, j \in DOMAIN s : i < j => <<s[i], s[j]>> \in before
    BY DEF Lists
<1> HIDE DEF N
<1>3. ASSUME NEW i \in 1 .. N PROVE s[i] \in S
    BY <1>2
<1>4. ASSUME NEW i \in 1 .. N PROVE Beside(S, before, s[i], "left") = {s[j] : j \in 1 .. i - 1}
    <2>1. \A j \in 1 .. N : <<s[j], s[i]>> \in before <=> j < i
        <3> SUFFICES ASSUME NEW j \in 1 .. N PROVE <<s[j], s[i]>> \in before <=> j < i
            OBVIOUS
        <3>1. s[i] \in Nodes /\ s[j] \in Nodes
            BY <1>3
        <3>2. CASE j < i
            BY <1>2, <3>2
        <3>3. CASE j = i
            BY <3>1, <3>3 DEF Order
        <3>4. CASE j > i
            <4>1. <<s[i], s[j]>> \in before
                BY <1>2, <3>4
            <4> DEFINE x == s[i]
                       y == s[j]
            <4>2. x \in Nodes /\ y \in Nodes /\ <<x, y>> \in before
                BY <3>1, <4>1
            <4> HIDE DEF x, y
            <4>3. <<y, x>> \notin before
                <5>1. <<y, x>> \in before => <<x, x>> \in before
                    BY <4>2 DEF Order
                <5>2. QED
                    BY <4>2, <5>1 DEF Order
            <4>4. ~(j < i)
                BY <3>4
            <4>5. QED
                BY <4>3, <4>4 DEF x, y
        <3>5. QED
            BY <3>2, <3>3, <3>4
    <2>2. \A j \in 1 .. i - 1 : j \in 1 .. N /\ j < i
        BY <1>1
    <2>3. \A j \in 1 .. N : j < i => j \in 1 .. i - 1
        BY <1>1
    <2>4. Beside(S, before, s[i], "left") = {x \in S : <<x, s[i]>> \in before}
        BY DEF Beside, On
    <2>5. \A x \in S : \E j \in 1 .. N : x = s[j]
        BY <1>2
    <2>6. QED
        BY <1>3, <2>1, <2>2, <2>3, <2>4, <2>5
<1> DEFINE A(i) == {s[j] : j \in 1 .. i}
           U == {i \in 0 .. N : IsFiniteSet(A(i)) /\ Cardinality(A(i)) = i}
<1>5. 0 \in U
    <2>1. A(0) = {}
        OBVIOUS
    <2>2. QED
        BY <1>1, <2>1, FS_EmptySet
<1>6. ASSUME NEW n \in 1 .. N, n - 1 \in U PROVE n \in U
    <2>1. A(n) = A(n - 1) \cup {s[n]}
        BY <1>1
    <2>2. s[n] \notin A(n - 1)
        <3>1. A(n - 1) = Beside(S, before, s[n], "left")
            BY <1>4
        <3>2. s[n] \in Nodes /\ s[n] \notin Beside(S, before, s[n], "left")
            BY <1>3 DEF Beside, On, Order
        <3>3. QED
            BY <3>1, <3>2
    <2>3. IsFiniteSet(A(n - 1)) /\ Cardinality(A(n - 1)) = n - 1
        BY <1>6
    <2> HIDE DEF A
    <2>4. IsFiniteSet(A(n)) /\ Cardinality(A(n)) = (n - 1) + 1
        BY <2>1, <2>2, <2>3, FS_AddElement
    <2>5. QED
        BY <1>1, <2>4
<1>7. \A i \in 0 .. N : i \in U
    <2> HIDE DEF U
    <2>1. QED
        BY <1>1, <1>5, <1>6, InductionUpTo
<1>8. ASSUME NEW i \in 1 .. N PROVE Place(S, before, s[i]) = i
    <2>1. i - 1 \in 0 .. N
        BY <1>1
    <2>2. Cardinality(A(i - 1)) = i - 1
        BY <1>7, <2>1
    <2>3. Beside(S, before, s[i], "left") = A(i - 1)
        BY <1>4
    <2> HIDE DEF A
    <2>4. Place(S, before, s[i]) = (i - 1) + 1
        BY <2>2, <2>3 DEF Place
    <2>5. QED
        BY <1>1, <2>4
<1>9. ASSUME NEW m \in S PROVE Place(S, before, m) \in 1 .. N /\ s[Place(S, before, m)] = m
    <2>1. PICK i \in 1 .. N : m = s[i]
        BY <1>2
    <2>2. QED
        BY <1>8, <2>1
<1>10. QED
    BY <1>1, <1>2, <1>3, <1>8, <1>9 DEF N

\* What it finds, from wherever it stands.
LEMMA WalkFinds ==
    ASSUME NEW h, NEW T, NEW S, NEW root, NEW before, Tree(h, T, S, root, before),
           \A x \in S : Kept(h, x), NEW offset \in Int, NEW f, Walks(f, h, offset),
           NEW s, Lists(s, S, before), NEW n \in S
    PROVE  \A m \in S : f[<<m, Place(S, before, m) - Place(S, before, n)>>] =
               IF Place(S, before, n) + offset \in DOMAIN s
               THEN s[Place(S, before, n) + offset] ELSE NULL
<1> DEFINE N == Cardinality(S)
           P(m) == Place(S, before, m)
           t == P(n) + offset
           found == IF t \in DOMAIN s THEN s[t] ELSE NULL
           size(m, pos) == WalkRank(h, T, S, offset, m, pos)
           U == {k \in Nat : \A m \in S, pos \in Int :
                                pos = P(m) - P(n) /\ size(m, pos) <= k => f[<<m, pos>>] = found}
<1>1. S \in SUBSET Nodes /\ Order(before) /\ h \in Heap /\ \A x \in S : T[x] \subseteq S
    BY DEF Tree, Ptr
<1>2. /\ DOMAIN s = 1 .. N /\ N \in Nat
      /\ \A m \in S : P(m) \in 1 .. N /\ s[P(m)] = m
    BY <1>1, ListedAtPlace
<1>3. \A m \in S, pos \in Int : f[<<m, pos>>] = WalkStep(h, offset, f, m, pos)
    <2> SUFFICES ASSUME NEW m \in S, NEW pos \in Int
                 PROVE  f[<<m, pos>>] = WalkStep(h, offset, f, m, pos)
        OBVIOUS
    <2> DEFINE F == [at \in Nodes \X Int |-> WalkStep(h, offset, f, at[1], at[2])]
    <2>1. F[<<m, pos>>] = WalkStep(h, offset, f, m, pos)
        BY <1>1
    <2>2. f = F
        BY DEF Walks
    <2> HIDE DEF F
    <2>3. QED
        BY <2>1, <2>2
<1>4. ASSUME NEW m \in S, NEW pos \in Int PROVE size(m, pos) \in Nat
    <2>1. IsFiniteSet(S) /\ T[m] \subseteq S
        BY <1>1, NodesAssumption, FS_Subset
    <2>2. Cardinality(T[m]) \in Nat /\ Cardinality(T[m]) <= N
        BY <2>1, FS_Subset, FS_CardinalityType
    <2>3. QED
        BY <1>2, <2>2 DEF WalkRank
<1> HIDE DEF N
<1>5. ASSUME NEW m \in S, NEW pos \in Int, pos = P(m) - P(n),
             \A c \in S, q \in Int : q = P(c) - P(n) /\ size(c, q) < size(m, pos) => f[<<c, q>>] = found
      PROVE  f[<<m, pos>>] = found
    <2>1. /\ P(m) \in Int /\ P(n) \in Int
        BY <1>2
    <2>2. CASE pos = offset /\ \A walk : WalkStep(h, offset, walk, m, pos) = m
        <3>1. t = P(m)
            <4> HIDE DEF P
            <4>1. QED
                BY <1>5, <2>1, <2>2
        <3>2. found = m
            BY <1>2, <3>1
        <3>3. QED
            BY <1>3, <2>2, <3>2
    <2>3. CASE /\ m = root /\ ~Within(h, offset, m, pos)
               /\ \A walk : WalkStep(h, offset, walk, m, pos) = NULL
        <3> DEFINE l == Count(h, h[root].left)
                   r == Count(h, h[root].right)
        <3>1. P(root) = l + 1 /\ N = P(root) + r
            BY <1>1, <2>3, NodesAssumption, PlaceOfRoot DEF N
        <3>2. l \in Nat /\ r \in Nat
            <4>1. "left" \in Sides /\ "right" \in Sides
                BY DEF Sides
            <4>2. Branch(h, T, S, m, "left") /\ Branch(h, T, S, m, "right")
                BY <4>1, Branches
            <4>3. h[m].left \in S \cup {NULL} /\ h[m].right \in S \cup {NULL}
                BY <4>2 DEF Branch
            <4>4. QED
                BY <2>3, <4>3, CountsAre
        <3>3. ~(pos - l <= offset /\ offset <= pos + r)
            BY <2>3 DEF Within
        <3>4. t \notin 1 .. N
            <4> HIDE DEF P, l, r
            <4>1. QED
                BY <1>2, <1>5, <2>1, <2>3, <3>1, <3>2, <3>3
        <3>5. QED
            BY <1>2, <1>3, <2>3, <3>4
    <2>4. CASE \E c, q : GoesTo(h, T, S, before, offset, m, pos, c, q)
        <3>1. PICK c, q : GoesTo(h, T, S, before, offset, m, pos, c, q)
            BY <2>4
        <3>2. /\ c \in S /\ q \in Int /\ WalkStep(h, offset, f, m, pos) = f[<<c, q>>]
              /\ size(c, q) < size(m, pos) /\ q - pos = P(c) - P(m)
            BY <3>1 DEF GoesTo
        <3>3. q = P(c) - P(n)
            <4>1. P(c) \in Int
                BY <1>2, <3>2
            <4> HIDE DEF P
            <4>2. QED
                BY <1>5, <2>1, <3>2, <4>1
        <3>4. f[<<c, q>>] = found
            <4> HIDE DEF P, size, found
            <4>1. QED
                BY <1>5, <3>2, <3>3
        <3>5. QED
            BY <1>3, <3>2, <3>4
    <2>5. \/ pos = offset /\ \A walk : WalkStep(h, offset, walk, m, pos) = m
          \/ /\ m = root /\ ~Within(h, offset, m, pos)
             /\ \A walk : WalkStep(h, offset, walk, m, pos) = NULL
          \/ \E c, q : GoesTo(h, T, S, before, offset, m, pos, c, q)
        BY WalkGoes
    <2> HIDE DEF found, size, P
    <2>6. QED
        BY <2>2, <2>3, <2>4, <2>5
<1> HIDE DEF found, size, P
<1>6. 0 \in U
    <2> SUFFICES ASSUME NEW m \in S, NEW pos \in Int, pos = P(m) - P(n), size(m, pos) <= 0
                 PROVE  f[<<m, pos>>] = found
        OBVIOUS
    <2>1. \A c \in S, q \in Int : ~(size(c, q) < size(m, pos))
        BY <1>4
    <2>2. QED
        BY <1>5, <2>1
<1>7. ASSUME NEW k \in Nat, k \in U PROVE k + 1 \in U
    <2> SUFFICES ASSUME NEW m \in S, NEW pos \in Int, pos = P(m) - P(n), size(m, pos) <= k + 1
                 PROVE  f[<<m, pos>>] = found
        OBVIOUS
    <2>1. \A c \in S, q \in Int : size(c, q) < size(m, pos) => size(c, q) <= k
        BY <1>4
    <2>2. \A c \in S, q \in Int : q = P(c) - P(n) /\ size(c, q) < size(m, pos) => f[<<c, q>>] = found
        BY <1>7, <2>1
    <2>3. QED
        BY <1>5, <2>2
<1>8. \A k \in Nat : k \in U
    <2> HIDE DEF U
    <2>1. QED
        BY <1>6, <1>7, Induction
<1>9. ASSUME NEW m \in S PROVE f[<<m, P(m) - P(n)>>] = found
    <2>1. P(m) \in Int /\ P(n) \in Int
        BY <1>2
    <2>2. P(m) - P(n) \in Int
        BY <2>1
    <2>3. size(m, P(m) - P(n)) \in Nat
        BY <1>4, <2>2
    <2>4. QED
        BY <1>8, <2>2, <2>3
<1>10. QED
    BY <1>9 DEF P, found

\* offsetAVL() counts places in the list of members.
LEMMA OffsetIs ==
    ASSUME IndexInv, NEW i \in DOMAIN InOrder, NEW offset \in Int
    PROVE  /\ InOrder[i] \in map
           /\ OffsetAVL(heap, InOrder[i], offset) =
                  IF i + offset \in DOMAIN InOrder THEN InOrder[i + offset] ELSE NULL
<1> DEFINE s == InOrder
           n == s[i]
           before == ByScore(score)
           f == CHOOSE walk : Walks(walk, heap, offset)
<1>1. OffsetAVL(heap, n, offset) = f[<<n, 0>>]
    BY DEF OffsetAVL, Walks, WalkStep
<1>2. PICK T : Tree(heap, T, map, tree, before)
    BY DEF IndexInv, Fitted
<1>3. Loose(heap, map) /\ Orphans(heap, map) /\ \A x \in map : Kept(heap, x)
    BY MembersAssumption, UnusedLoose DEF IndexInv, Typed, Unused, Fitted
<1>4. Walks(f, heap, offset)
    BY <1>2, <1>3, WalkExists
<1>5. Lists(s, map, before)
    BY InOrderLists
<1>6. map \in SUBSET Nodes /\ Order(before)
    BY <1>2 DEF Tree
<1> HIDE DEF f, s, before
<1>7. /\ n \in map /\ Place(map, before, n) = i /\ i \in Int
    BY <1>5, <1>6, ListedAtPlace DEF s
<1>8. f[<<n, Place(map, before, n) - Place(map, before, n)>>] =
          IF Place(map, before, n) + offset \in DOMAIN s
          THEN s[Place(map, before, n) + offset] ELSE NULL
    BY <1>2, <1>3, <1>4, <1>5, <1>7, WalkFinds
<1>9. i - i = 0
    BY <1>7
<1>10. QED
    BY <1>1, <1>7, <1>8, <1>9 DEF s

\* An offset from any member finds the member that many places on, or nothing
\* behind either end, whatever path offsetAVL() climbs (avl.c).
THEOREM OffsetsCounted ==
    Spec => []OffsetCounts
<1>1. IndexInv => OffsetCounts
    <2> SUFFICES ASSUME IndexInv, NEW i \in DOMAIN InOrder, NEW off \in Offsets
                 PROVE  OffsetAVL(heap, InOrder[i], off) =
                            IF i + off \in DOMAIN InOrder THEN InOrder[i + off] ELSE NULL
        BY DEF OffsetCounts
    <2>1. off \in Int
        BY QueriesAssumption
    <2>2. QED
        BY <2>1, OffsetIs
<1>2. QED
    BY <1>1, Indexed, PTL
------------------------------------------------------------------------------
(* Queries.                                                                *)

Search(h, sc, s, name, search, curr, found) ==
    IF curr = NULL THEN found
    ELSE IF Less(sc, curr, s, name) THEN search[<<h[curr].right, found>>]
                                    ELSE search[<<h[curr].left, curr>>]

Searches(search, h, sc, s, name) ==
    search = [at \in Ptr \X Ptr |-> Search(h, sc, s, name, search, at[1], at[2])]

\* query()'s way down is a function.
LEMMA SearchExists ==
    ASSUME NEW h, NEW T, NEW S, NEW root, NEW before, Tree(h, T, S, root, before), Loose(h, S),
           NEW sc, NEW s, NEW name
    PROVE  \E f : Searches(f, h, sc, s, name)
<1> DEFINE D == Ptr \X Ptr
           next(f, at) == Search(h, sc, s, name, f, at[1], at[2])
           size == [n \in Ptr |-> IF n = NULL THEN 0
                                  ELSE IF n \in S THEN Cardinality(T[n]) + 1 ELSE 1]
           rank == [at \in D |-> size[at[1]]]
           G == [f \in [D -> Ptr] |-> [at \in D |-> next(f, at)]]
<1>1. /\ h \in Heap /\ S \subseteq Nodes
      /\ \A n \in Nodes : h[n].left \in Ptr /\ h[n].right \in Ptr
      /\ \A n \in Nodes : h[n].left = h[n]["left"] /\ h[n].right = h[n]["right"]
    <2>1. h \in Heap /\ S \subseteq Nodes
        BY DEF Tree
    <2>2. QED
        BY <2>1, HeapTyped
<1>2. size \in [Ptr -> Nat]
    <2>1. \A m \in S : Cardinality(T[m]) \in Nat
        BY Smaller
    <2>2. QED
        BY <2>1
<1>3. ASSUME NEW n \in Nodes, n # NULL, NEW c, c = h[n].left \/ c = h[n].right
      PROVE  c \in Ptr /\ size[c] < size[n]
    <2>1. c \in Ptr /\ n \in Ptr
        BY <1>1, <1>3 DEF Ptr
    <2>2. size[n] \in Nat /\ size[n] >= 1
        <3>1. n \in S => Cardinality(T[n]) \in Nat
            BY Smaller
        <3>2. QED
            BY <1>3, <2>1, <3>1
    <2>3. CASE c = NULL
        BY <2>1, <2>2, <2>3
    <2>4. CASE c # NULL
        <3>1. n \in S
            BY <1>1, <1>3, <2>4 DEF Loose, Sides
        <3>2. c \in S /\ Cardinality(T[c]) < Cardinality(T[n])
            BY <1>1, <1>3, <2>4, <3>1, Smaller DEF Sides
        <3>3. Cardinality(T[c]) \in Nat /\ Cardinality(T[n]) \in Nat
            BY <3>1, <3>2, Smaller
        <3>4. size[c] = Cardinality(T[c]) + 1 /\ size[n] = Cardinality(T[n]) + 1
            BY <1>3, <2>1, <2>4, <3>1, <3>2
        <3>5. QED
            BY <2>1, <3>2, <3>3, <3>4
    <2>5. QED
        BY <2>3, <2>4
<1>4. rank \in [D -> Nat] /\ \A x, y \in Ptr : rank[<<x, y>>] = size[x]
    <2> HIDE DEF size
    <2>1. QED
        BY <1>2
<1>5. ASSUME NEW at \in D
      PROVE  \/ \E x \in Ptr : \A f : next(f, at) = x
             \/ \E d \in D : rank[d] < rank[at] /\ \A f : next(f, at) = f[d]
    <2> DEFINE curr == at[1]
               found == at[2]
    <2>1. curr \in Ptr /\ found \in Ptr /\ at = <<curr, found>>
        OBVIOUS
    <2> HIDE DEF curr, found
    <2>2. \A f : next(f, at) = Search(h, sc, s, name, f, curr, found)
        BY DEF curr, found
    <2>3. CASE curr = NULL
        BY <2>1, <2>2, <2>3 DEF Search
    <2>4. CASE curr # NULL
        <3>1. curr \in Nodes
            BY <2>1, <2>4 DEF Ptr
        <3>2. /\ h[curr].right \in Ptr /\ size[h[curr].right] < size[curr]
              /\ h[curr].left \in Ptr /\ size[h[curr].left] < size[curr]
            BY <1>3, <2>4, <3>1
        <3> DEFINE d == IF Less(sc, curr, s, name) THEN <<h[curr].right, found>>
                                                   ELSE <<h[curr].left, curr>>
        <3>3. \A f : next(f, at) = f[d]
            BY <2>2, <2>4 DEF Search
        <3>4. d \in D /\ rank[d] < rank[at]
            <4> HIDE DEF rank, size
            <4>1. QED
                BY <1>4, <2>1, <3>2
        <3>5. QED
            BY <3>3, <3>4
    <2>5. QED
        BY <2>3, <2>4
<1> HIDE DEF next, D
<1>6. \A f \in [D -> Ptr], at \in D : next(f, at) \in Ptr
    BY <1>5
<1>7. G \in [[D -> Ptr] -> [D -> Ptr]]
    BY <1>6
<1>8. \A f \in [D -> Ptr], at \in D : G[f][at] = next(f, at)
    OBVIOUS
<1>9. Ranked(D, Ptr, rank, G)
    <2> SUFFICES ASSUME NEW at \in D, NEW f \in [D -> Ptr], NEW g \in [D -> Ptr],
                        \A y \in D : rank[y] < rank[at] => f[y] = g[y]
                 PROVE  next(f, at) = next(g, at)
        BY <1>8 DEF Ranked
    <2> HIDE DEF rank
    <2>1. QED
        BY <1>5
<1>10. Ptr # {}
    BY DEF Ptr
<1> HIDE DEF G, rank
<1>11. PICK f : Defines(f, D, Ptr, G)
    BY <1>4, <1>7, <1>9, <1>10, RankedFunction
<1>12. f = [at \in D |-> next(f, at)]
    BY <1>8, <1>11 DEF Defines
<1>13. Searches(f, h, sc, s, name)
    BY <1>12 DEF Searches, D, next
<1>14. QED
    BY <1>13

\* r is the first of X that is not in A.
First(r, X, A, before) == r \in X \ A /\ \A y \in X \ A : y = r \/ <<r, y>> \in before

\* The search ends at the first node of a subtree that is not before the
\* pair, or keeps what it found.
LEMMA SearchFinds ==
    ASSUME NEW h, NEW T, NEW S, NEW root, NEW before, Tree(h, T, S, root, before),
           NEW sc, NEW s, NEW name, NEW f, Searches(f, h, sc, s, name),
           NEW A, \A x \in S : x \in A <=> Less(sc, x, s, name),
           \A x, y \in S : <<x, y>> \in before /\ y \in A => x \in A
    PROVE  \A m \in S \cup {NULL}, found \in Ptr :
               IF T[m] \subseteq A THEN f[<<m, found>>] = found
                                   ELSE First(f[<<m, found>>], T[m], A, before)
<1> DEFINE R(m, found) == IF T[m] \subseteq A THEN f[<<m, found>>] = found
                                              ELSE First(f[<<m, found>>], T[m], A, before)
           P == {m \in S : \A found \in Ptr : R(m, found)}
<1>1. /\ S \in SUBSET Nodes /\ Order(before) /\ h \in Heap /\ T[NULL] = {} /\ NULL \in Ptr
      /\ \A m \in S : m \in Ptr /\ m # NULL
    BY NodesAssumption DEF Tree, Ptr
<1>2. \A m \in Ptr, found \in Ptr : f[<<m, found>>] = Search(h, sc, s, name, f, m, found)
    <2> SUFFICES ASSUME NEW m \in Ptr, NEW found \in Ptr
                 PROVE  f[<<m, found>>] = Search(h, sc, s, name, f, m, found)
        OBVIOUS
    <2> DEFINE F == [at \in Ptr \X Ptr |-> Search(h, sc, s, name, f, at[1], at[2])]
    <2>1. F[<<m, found>>] = Search(h, sc, s, name, f, m, found)
        OBVIOUS
    <2>2. f = F
        BY DEF Searches
    <2> HIDE DEF F
    <2>3. QED
        BY <2>1, <2>2
<1>3. ASSUME NEW found \in Ptr PROVE R(NULL, found)
    <2>1. f[<<NULL, found>>] = found
        BY <1>1, <1>2 DEF Search
    <2>2. QED
        BY <1>1, <2>1
<1>4. ASSUME NEW m \in S, \A side \in Sides : h[m][side] # NULL => h[m][side] \in P,
             NEW found \in Ptr
      PROVE  R(m, found)
    <2> DEFINE l == h[m].left
               r == h[m].right
    <2>1. /\ "left" \in Sides /\ "right" \in Sides /\ Other("left") = "right"
          /\ l = h[m]["left"] /\ r = h[m]["right"]
        BY DEF Sides, Other
    <2>2. Branch(h, T, S, m, "left") /\ Branch(h, T, S, m, "right")
        BY <2>1, Branches
    <2>3. /\ l \in S \cup {NULL} /\ r \in S \cup {NULL} /\ l \in Ptr /\ r \in Ptr
          /\ T[m] = T[l] \cup {m} \cup T[r] /\ T[m] \subseteq S
        BY <2>1, <2>2 DEF Branch
    <2>4. /\ \A x \in T[l] : <<x, m>> \in before
          /\ \A x \in T[r] : <<m, x>> \in before
        BY <2>1 DEF Tree, NodeOK, On
    <2>5. \A g \in Ptr : R(l, g) /\ R(r, g)
        <3>1. l # NULL => l \in P
            BY <1>4, <2>1
        <3>2. r # NULL => r \in P
            BY <1>4, <2>1
        <3> HIDE DEF R, l, r
        <3>3. QED
            BY <1>3, <3>1, <3>2
    <2> HIDE DEF l, r
    <2>6. f[<<m, found>>] = IF m \in A THEN f[<<r, found>>] ELSE f[<<l, m>>]
        BY <1>1, <1>2 DEF Search, l, r
    <2>7. CASE m \in A
        <3>1. T[l] \subseteq A
            BY <2>3, <2>4, <2>7
        <3>2. T[m] \subseteq A <=> T[r] \subseteq A
            BY <2>3, <2>7, <3>1
        <3>3. T[m] \ A = T[r] \ A
            BY <2>3, <2>7, <3>1
        <3>4. R(r, found) /\ f[<<m, found>>] = f[<<r, found>>]
            BY <2>5, <2>6, <2>7
        <3>5. QED
            BY <3>2, <3>3, <3>4 DEF First
    <2>8. CASE m \notin A
        <3>1. T[r] \cap A = {}
            BY <2>3, <2>4, <2>8
        <3>2. R(l, m) /\ f[<<m, found>>] = f[<<l, m>>] /\ m \in T[m] /\ m \in Nodes
            BY <1>1, <2>3, <2>5, <2>6, <2>8
        <3>3. CASE T[l] \subseteq A
            <4>1. f[<<m, found>>] = m
                BY <3>2, <3>3
            <4>2. T[m] \ A = {m} \cup T[r]
                BY <2>3, <2>8, <3>1, <3>3
            <4>3. First(m, T[m], A, before)
                BY <2>4, <2>8, <3>2, <4>2 DEF First
            <4>4. QED
                BY <2>8, <3>2, <4>1, <4>3
        <3>4. CASE ~(T[l] \subseteq A)
            <4> DEFINE v == f[<<l, m>>]
            <4>1. First(v, T[l], A, before)
                BY <3>2, <3>4
            <4> HIDE DEF v
            <4>2. v \in T[l] \ A /\ v \in T[m] /\ v \in Nodes /\ <<v, m>> \in before
                BY <1>1, <2>3, <2>4, <4>1 DEF First
            <4>3. ASSUME NEW y \in T[m] \ A PROVE y = v \/ <<v, y>> \in before
                <5>1. CASE y \in T[l]
                    BY <4>1, <4>3, <5>1 DEF First
                <5>2. CASE y = m
                    BY <4>2, <5>2
                <5>3. CASE y \in T[r]
                    <6>1. <<m, y>> \in before /\ y \in Nodes
                        BY <1>1, <2>3, <2>4, <5>3
                    <6>2. QED
                        BY <1>1, <3>2, <4>2, <6>1 DEF Order
                <5>4. QED
                    BY <2>3, <5>1, <5>2, <5>3
            <4>4. First(v, T[m], A, before) /\ f[<<m, found>>] = v
                BY <3>2, <4>2, <4>3 DEF First, v
            <4>5. QED
                BY <2>8, <3>2, <4>4
        <3>5. QED
            BY <3>3, <3>4
    <2>9. QED
        BY <2>7, <2>8
<1>5. S \subseteq P
    <2>1. ASSUME NEW m \in S, \A side \in Sides : h[m][side] # NULL => h[m][side] \in P
          PROVE  m \in P
        BY <1>4, <2>1
    <2> HIDE DEF P
    <2>2. QED
        BY <2>1, TreeInduction
<1>6. \A m \in S \cup {NULL}, found \in Ptr : R(m, found)
    <2> HIDE DEF R
    <2>1. QED
        BY <1>3, <1>5
<1>7. QED
    BY <1>6

\* A set of numbers up to N with all that are smaller is the first of them.
LEMMA Beginning ==
    ASSUME NEW N \in Nat, NEW B \in SUBSET (1 .. N),
           \A i, j \in 1 .. N : i < j /\ j \in B => i \in B
    PROVE  Cardinality(B) \in 0 .. N /\ B = 1 .. Cardinality(B)
<1> DEFINE C == (1 .. N + 1) \ B
<1>1. C \in SUBSET Nat /\ N + 1 \in C
    OBVIOUS
<1>2. PICK k \in C : \A y \in C : k <= y
    BY <1>1, Smallest
<1>3. k \in 1 .. N + 1 /\ k \notin B
    BY <1>2
<1>4. \A i \in 1 .. N : i < k => i \in B
    <2> SUFFICES ASSUME NEW i \in 1 .. N, i < k, i \notin B PROVE FALSE
        OBVIOUS
    <2>1. i \in C
        OBVIOUS
    <2>2. QED
        BY <1>2, <1>3, <2>1
<1>5. \A i \in B : i < k
    <2> SUFFICES ASSUME NEW i \in B, i >= k PROVE FALSE
        BY <1>3
    <2>1. i # k /\ i \in 1 .. N /\ k \in 1 .. N
        BY <1>3
    <2>2. QED
        BY <1>3, <2>1
<1>6. B = 1 .. k - 1 /\ k - 1 \in 0 .. N
    <2>1. k \in Int /\ 1 <= k /\ k <= N + 1
        BY <1>3
    <2>2. k - 1 \in 0 .. N
        BY <2>1
    <2>3. ASSUME NEW i \in B PROVE i \in 1 .. k - 1
        <3>1. i \in Int /\ 1 <= i /\ i < k
            BY <1>5
        <3>2. QED
            BY <2>1, <3>1
    <2>4. ASSUME NEW i \in 1 .. k - 1 PROVE i \in B
        <3>1. i \in 1 .. N /\ i < k
            BY <2>1
        <3>2. QED
            BY <1>4, <3>1
    <2>5. QED
        BY <2>2, <2>3, <2>4
<1>7. Cardinality(1 .. k - 1) = IF 1 > k - 1 THEN 0 ELSE (k - 1) - 1 + 1
    BY <1>3, FS_Interval
<1>8. Cardinality(B) = k - 1
    BY <1>3, <1>6, <1>7
<1>9. QED
    BY <1>6, <1>8

\* How many members are before the pair.
Behind(s, name) == Cardinality({i \in DOMAIN InOrder : Less(score, InOrder[i], s, name)})

\* query() returns the first member that is not before the pair.
LEMMA QueryIs ==
    ASSUME IndexInv, NEW s \in Int, NEW name \in Names
    PROVE  /\ Behind(s, name) \in Nat
           /\ Query(s, name) = IF Behind(s, name) + 1 \in DOMAIN InOrder
                               THEN InOrder[Behind(s, name) + 1] ELSE NULL
<1> DEFINE o == InOrder
           before == ByScore(score)
           f == CHOOSE search : Searches(search, heap, score, s, name)
           A == {x \in map : Less(score, x, s, name)}
           N == Cardinality(map)
           B == {i \in DOMAIN o : Less(score, o[i], s, name)}
           k == Behind(s, name)
           q == f[<<tree, NULL>>]
<1>1. Query(s, name) = q
    BY DEF Query, Searches, Search, Ptr
<1>2. PICK T : Tree(heap, T, map, tree, before)
    BY DEF IndexInv, Fitted
<1>3. Loose(heap, map)
    BY MembersAssumption, UnusedLoose DEF IndexInv, Typed, Unused
<1>4. Searches(f, heap, score, s, name)
    BY <1>2, <1>3, SearchExists
<1>5. /\ map \in SUBSET Nodes /\ Order(before) /\ Lists(o, map, before)
      /\ score \in [Nodes -> Int] /\ name \in Nat /\ \A x \in Nodes : x \in Nat
    BY <1>2, InOrderLists, MembersAssumption, NodesAssumption DEF Tree, IndexInv, Typed
<1>6. \A x, y \in map : <<x, y>> \in before /\ y \in A => x \in A
    <2> SUFFICES ASSUME NEW x \in map, NEW y \in map, <<x, y>> \in before, y \in A PROVE x \in A
        OBVIOUS
    <2>1. Less(score, x, score[y], y) /\ Less(score, y, s, name)
        BY DEF ByScore
    <2>2. x \in Nat /\ y \in Nat /\ score[x] \in Int /\ score[y] \in Int
        BY <1>5
    <2>3. Less(score, x, s, name)
        BY <1>5, <2>1, <2>2 DEF Less
    <2>4. QED
        BY <2>3
<1>7. /\ DOMAIN o = 1 .. N /\ N \in Nat
      /\ \A i \in 1 .. N : o[i] \in map
      /\ \A x \in map : \E i \in 1 .. N : o[i] = x
      /\ \A i, j \in 1 .. N : i < j => <<o[i], o[j]>> \in before
    <2>1. /\ DOMAIN o = 1 .. N /\ N \in Nat
          /\ \A i \in 1 .. N : o[i] \in map
          /\ \A x \in map : Place(map, before, x) \in 1 .. N /\ o[Place(map, before, x)] = x
        BY <1>5, ListedAtPlace
    <2>2. \A i, j \in DOMAIN o : i < j => <<o[i], o[j]>> \in before
        BY <1>5 DEF Lists
    <2>3. QED
        BY <2>1, <2>2
<1>8. IF T[tree] \subseteq A THEN q = NULL ELSE First(q, T[tree], A, before)
    <2>1. tree \in map \cup {NULL} /\ NULL \in Ptr
        BY <1>2 DEF Tree, RootOK, Ptr
    <2>2. \A x \in map : x \in A <=> Less(score, x, s, name)
        OBVIOUS
    <2> HIDE DEF A, f, before
    <2>3. QED
        BY <1>2, <1>4, <1>6, <2>1, <2>2, SearchFinds
<1>9. T[tree] = map
    BY <1>2 DEF Tree, RootOK
<1>10. k = Cardinality(B)
    BY DEF Behind
<1>11. \A i \in 1 .. N : i \in B <=> o[i] \in A
    BY <1>7
<1> HIDE DEF k, A, B, o, before, q, N, f
<1>12. k \in 0 .. N /\ B = 1 .. k
    <2>1. B \subseteq 1 .. N
        BY <1>7 DEF B
    <2>2. \A i, j \in 1 .. N : i < j /\ j \in B => i \in B
        BY <1>6, <1>7, <1>11
    <2>3. QED
        BY <1>7, <1>10, <2>1, <2>2, Beginning
<1>13. CASE k = N
    <2>1. map \subseteq A
        BY <1>7, <1>11, <1>12, <1>13
    <2>2. q = NULL
        BY <1>8, <1>9, <2>1
    <2>3. k + 1 \notin DOMAIN o
        BY <1>7, <1>13
    <2>4. QED
        BY <1>1, <1>7, <1>12, <2>2, <2>3 DEF k, o
<1>14. CASE k # N
    <2>1. k + 1 \in 1 .. N /\ k + 1 \notin B
        BY <1>7, <1>12, <1>14
    <2> DEFINE x == o[k + 1]
    <2>2. x \in map \ A
        BY <1>7, <1>11, <2>1
    <2>3. q \in map \ A /\ (x = q \/ <<q, x>> \in before)
        BY <1>8, <1>9, <2>2 DEF First
    <2>4. PICK j \in 1 .. N : q = o[j]
        BY <1>7, <2>3
    <2>5. j \notin B
        BY <1>11, <2>3, <2>4
    <2>6. j >= k + 1
        BY <1>7, <1>12, <2>1, <2>5
    <2>7. CASE j = k + 1
        BY <1>1, <1>7, <1>12, <2>1, <2>4, <2>7 DEF k, o
    <2>8. CASE j # k + 1
        <3>1. k + 1 < j
            BY <1>7, <1>12, <2>6, <2>8
        <3>2. <<x, q>> \in before
            BY <1>7, <2>1, <2>4, <3>1
        <3> HIDE DEF x
        <3>3. x \in Nodes /\ q \in Nodes
            BY <1>5, <2>2, <2>3
        <3>4. FALSE
            <4>1. x = q \/ <<q, x>> \in before
                BY <2>3
            <4>2. <<x, x>> \in before
                BY <1>5, <3>2, <3>3, <4>1 DEF Order
            <4>3. QED
                BY <1>5, <3>3, <4>2 DEF Order
        <3>5. QED
            BY <3>4
    <2>9. QED
        BY <2>7, <2>8
<1>15. QED
    BY <1>13, <1>14

\* One round of zquery()'s loop, at node with n strings written.
ListStep(from, limit, node, n) ==
    IF node = NULL \/ n >= limit THEN <<>> ELSE <<node>> \o from[<<Offset(node, 1), n + 2>>]

ListsFrom(from, limit) ==
    from = [at \in Ptr \X Nat |-> ListStep(from, limit, at[1], at[2])]

\* An offset is a node or nothing.
LEMMA OffsetTyped ==
    ASSUME IndexInv, NEW n \in Ptr, NEW offset \in Int
    PROVE  Offset(n, offset) \in Ptr
<1>1. CASE n = NULL
    BY <1>1 DEF Offset, Ptr
<1>2. CASE n # NULL /\ n \in map
    <2>1. Lists(InOrder, map, ByScore(score)) /\ map \subseteq Nodes
        BY InOrderLists DEF IndexInv, Fitted, Tree
    <2>2. PICK i \in DOMAIN InOrder : n = InOrder[i]
        BY <1>2, <2>1 DEF Lists
    <2>3. \A j \in DOMAIN InOrder : InOrder[j] \in Ptr
        BY <2>1 DEF Lists, Ptr
    <2>4. OffsetAVL(heap, n, offset) =
              IF i + offset \in DOMAIN InOrder THEN InOrder[i + offset] ELSE NULL
        BY <2>2, OffsetIs
    <2>5. NULL \in Ptr
        BY DEF Ptr
    <2>6. QED
        BY <1>2, <2>3, <2>4, <2>5 DEF Offset
<1>3. CASE n # NULL /\ n \notin map
    <2> DEFINE f == CHOOSE walk : Walks(walk, heap, offset)
               F == [at \in Nodes \X Int |-> WalkStep(heap, offset, f, at[1], at[2])]
    <2>1. OffsetAVL(heap, n, offset) = f[<<n, 0>>]
        BY DEF OffsetAVL, Walks, WalkStep
    <2>2. PICK T : Tree(heap, T, map, tree, ByScore(score))
        BY DEF IndexInv, Fitted
    <2>3. /\ Loose(heap, map) /\ Orphans(heap, map) /\ (\A x \in map : Kept(heap, x))
          /\ heap \in Heap
        BY MembersAssumption, UnusedLoose DEF IndexInv, Typed, Unused, Fitted
    <2>4. f = F
        BY <2>2, <2>3, WalkExists DEF Walks
    <2> HIDE DEF f
    <2>5. n \in Nodes
        BY <1>3 DEF Ptr
    <2>6. F[<<n, 0>>] = WalkStep(heap, offset, f, n, 0)
        BY <2>5
    <2> HIDE DEF F
    <2>7. f[<<n, 0>>] = WalkStep(heap, offset, f, n, 0)
        BY <2>4, <2>6
    <2>8. f[<<n, 0>>] = n \/ f[<<n, 0>>] = NULL
        BY <1>3, <2>3, <2>5, <2>7, WalkOutside
    <2>9. QED
        BY <1>3, <2>1, <2>8 DEF Offset, Ptr
<1>4. QED
    BY <1>1, <1>2, <1>3

\* zquery()'s loop is a function.
LEMMA ListExists ==
    ASSUME IndexInv, NEW limit \in Int
    PROVE  \E f : ListsFrom(f, limit)
<1> DEFINE D == Ptr \X Nat
           V == Seq(Nodes)
           next(f, at) == ListStep(f, limit, at[1], at[2])
           rank == [at \in D |-> IF at[2] >= limit THEN 0 ELSE limit - at[2]]
           G == [f \in [D -> V] |-> [at \in D |-> next(f, at)]]
<1>1. rank \in [D -> Nat]
    OBVIOUS
<1>2. ASSUME NEW at \in D
      PROVE  \/ \A f : next(f, at) = <<>>
             \/ \E d \in D, x \in Nodes : rank[d] < rank[at] /\ \A f : next(f, at) = <<x>> \o f[d]
    <2> DEFINE node == at[1]
               n == at[2]
    <2>1. node \in Ptr /\ n \in Nat /\ at = <<node, n>>
        OBVIOUS
    <2> HIDE DEF node, n
    <2>2. \A f : next(f, at) = ListStep(f, limit, node, n)
        BY DEF node, n
    <2>3. CASE node = NULL \/ n >= limit
        BY <2>2, <2>3 DEF ListStep
    <2>4. CASE ~(node = NULL \/ n >= limit)
        <3> DEFINE y == Offset(node, 1)
                   d == <<y, n + 2>>
        <3>1. node \in Nodes /\ y \in Ptr
            BY <2>1, <2>4, OffsetTyped DEF Ptr
        <3>2. \A f : next(f, at) = <<node>> \o f[d]
            BY <2>2, <2>4 DEF ListStep
        <3> HIDE DEF y
        <3>3. d \in D /\ rank[d] < rank[at]
            BY <2>1, <2>4, <3>1
        <3>4. QED
            BY <3>1, <3>2, <3>3
    <2>5. QED
        BY <2>3, <2>4
<1>3. <<>> \in V
    OBVIOUS
<1>4. \A f \in [D -> V], at \in D : next(f, at) \in V
    <2> SUFFICES ASSUME NEW f \in [D -> V], NEW at \in D PROVE next(f, at) \in V
        OBVIOUS
    <2> HIDE DEF D, next, rank
    <2>1. CASE next(f, at) = <<>>
        BY <1>3, <2>1
    <2>2. CASE next(f, at) # <<>>
        <3>1. PICK d \in D, x \in Nodes : next(f, at) = <<x>> \o f[d]
            BY <1>2, <2>2
        <3>2. f[d] \in Seq(Nodes) /\ <<x>> \in Seq(Nodes)
            OBVIOUS
        <3>3. QED
            BY <3>1, <3>2
    <2>3. QED
        BY <2>1, <2>2
<1> HIDE DEF next, D, V
<1>5. G \in [[D -> V] -> [D -> V]]
    BY <1>4
<1>6. \A f \in [D -> V], at \in D : G[f][at] = next(f, at)
    OBVIOUS
<1>7. Ranked(D, V, rank, G)
    <2> SUFFICES ASSUME NEW at \in D, NEW f \in [D -> V], NEW g \in [D -> V],
                        \A y \in D : rank[y] < rank[at] => f[y] = g[y]
                 PROVE  next(f, at) = next(g, at)
        BY <1>6 DEF Ranked
    <2> HIDE DEF rank
    <2>1. QED
        BY <1>2
<1>8. V # {}
    BY <1>3
<1> HIDE DEF G, rank
<1>9. PICK f : Defines(f, D, V, G)
    BY <1>1, <1>5, <1>7, <1>8, RankedFunction
<1>10. f = [at \in D |-> next(f, at)]
    BY <1>6, <1>9 DEF Defines
<1>11. ListsFrom(f, limit)
    BY <1>10 DEF ListsFrom, D, next
<1>12. QED
    BY <1>11

\* What zquery() writes from a member on.
LEMMA ListIs ==
    ASSUME IndexInv, NEW limit \in Int, NEW f, ListsFrom(f, limit)
    PROVE  \A i \in DOMAIN InOrder, n \in Nat :
               LET last == i + (limit - n + 1) \div 2 - 1
               IN  f[<<InOrder[i], n>>] =
                       SubSeq(InOrder, i, IF last < Len(InOrder) THEN last ELSE Len(InOrder))
<1> DEFINE o == InOrder
           N == Len(o)
           last(i, n) == i + (limit - n + 1) \div 2 - 1
           end(i, n) == IF last(i, n) < N THEN last(i, n) ELSE N
           U == {k \in Nat : \A i \in 1 .. N, n \in Nat :
                                N - i <= k => f[<<o[i], n>>] = SubSeq(o, i, end(i, n))}
<1>1. /\ o \in Seq(Nodes) /\ N \in Nat /\ DOMAIN o = 1 .. N
      /\ \A i \in 1 .. N : o[i] \in Ptr /\ o[i] # NULL
    <2>1. Lists(o, map, ByScore(score))
        BY InOrderLists
    <2>2. o \in Seq(Nodes)
        BY <2>1 DEF Lists
    <2> HIDE DEF o
    <2>3. N \in Nat /\ DOMAIN o = 1 .. N
        BY <2>2
    <2>4. \A i \in 1 .. N : o[i] \in Nodes
        BY <2>2
    <2>5. \A x \in Nodes : x \in Ptr /\ x # NULL
        BY NodesAssumption DEF Ptr
    <2> HIDE DEF N
    <2>6. QED
        BY <2>2, <2>3, <2>4, <2>5
<1>2. ASSUME NEW i \in 1 .. N
      PROVE  Offset(o[i], 1) = IF i + 1 \in 1 .. N THEN o[i + 1] ELSE NULL
    <2>1. OffsetAVL(heap, o[i], 1) = IF i + 1 \in DOMAIN o THEN o[i + 1] ELSE NULL
        BY <1>1, OffsetIs
    <2> HIDE DEF o, N
    <2>2. Offset(o[i], 1) = OffsetAVL(heap, o[i], 1)
        BY <1>1 DEF Offset
    <2>3. QED
        BY <1>1, <2>1, <2>2
<1>3. \A m \in Ptr, n \in Nat : f[<<m, n>>] = ListStep(f, limit, m, n)
    <2> SUFFICES ASSUME NEW m \in Ptr, NEW n \in Nat PROVE f[<<m, n>>] = ListStep(f, limit, m, n)
        OBVIOUS
    <2> DEFINE F == [at \in Ptr \X Nat |-> ListStep(f, limit, at[1], at[2])]
    <2>1. F[<<m, n>>] = ListStep(f, limit, m, n)
        OBVIOUS
    <2>2. f = F
        BY DEF ListsFrom
    <2> HIDE DEF F
    <2>3. QED
        BY <2>1, <2>2
<1>4. \A n \in Nat : f[<<NULL, n>>] = <<>>
    BY <1>3 DEF ListStep, Ptr
<1> HIDE DEF o, N
<1>5. ASSUME NEW i \in 1 .. N, NEW n \in Nat,
             i + 1 \in 1 .. N => f[<<o[i + 1], n + 2>>] = SubSeq(o, i + 1, end(i + 1, n + 2))
      PROVE  f[<<o[i], n>>] = SubSeq(o, i, end(i, n))
    <2>1. f[<<o[i], n>>] =
              IF n >= limit THEN <<>> ELSE <<o[i]>> \o f[<<Offset(o[i], 1), n + 2>>]
        BY <1>1, <1>3 DEF ListStep
    <2>2. CASE n >= limit
        <3>1. last(i, n) \in Int /\ last(i, n) < i
            BY <1>1, <2>2
        <3>2. end(i, n) = last(i, n)
            <4> HIDE DEF last
            <4>1. QED
                BY <1>1, <3>1
        <3> HIDE DEF last, end
        <3>3. SubSeq(o, i, last(i, n)) = <<>>
            BY <1>1, <3>1 DEF N
        <3>4. QED
            BY <2>1, <2>2, <3>2, <3>3
    <2>3. CASE n < limit
        <3>1. /\ last(i, n) \in Int /\ last(i, n) >= i
              /\ last(i + 1, n + 2) = last(i, n)
            BY <1>1, <2>3
        <3> DEFINE e == end(i, n)
        <3>2. e \in i .. N /\ end(i + 1, n + 2) = e
            <4> HIDE DEF last
            <4>1. QED
                BY <1>1, <3>1
        <3> HIDE DEF e, last, end
        <3>3. SubSeq(o, i, e) = <<o[i]>> \o SubSeq(o, i + 1, e)
            BY <1>1, <3>2, SubSeqRecursiveFirst DEF N
        <3> DEFINE rest == f[<<Offset(o[i], 1), n + 2>>]
        <3>4. f[<<o[i], n>>] = <<o[i]>> \o rest
            <4>1. ~(n >= limit)
                BY <2>3
            <4>2. QED
                BY <2>1, <4>1
        <3> HIDE DEF rest
        <3>5. rest = SubSeq(o, i + 1, e) => f[<<o[i], n>>] = SubSeq(o, i, end(i, n))
            BY <3>3, <3>4 DEF e
        <3>6. CASE i + 1 \in 1 .. N
            <4>1. Offset(o[i], 1) = o[i + 1]
                BY <1>2, <3>6
            <4>2. rest = SubSeq(o, i + 1, e)
                BY <1>5, <3>2, <3>6, <4>1 DEF rest
            <4>3. QED
                BY <3>5, <4>2
        <3>7. CASE i + 1 \notin 1 .. N
            <4>1. i = N /\ e = N
                BY <1>1, <3>2, <3>7
            <4>2. SubSeq(o, i + 1, e) = <<>>
                BY <1>1, <4>1, SubSeqEmpty DEF N
            <4>3. rest = <<>>
                <5>1. Offset(o[i], 1) = NULL /\ n + 2 \in Nat
                    BY <1>2, <3>7
                <5>2. QED
                    BY <1>4, <5>1 DEF rest
            <4>4. QED
                BY <3>5, <4>2, <4>3
        <3>8. QED
            BY <3>6, <3>7
    <2>4. n >= limit \/ n < limit
        OBVIOUS
    <2> HIDE DEF end
    <2>5. QED
        BY <2>2, <2>3, <2>4
<1> HIDE DEF end
<1>6. 0 \in U
    <2> SUFFICES ASSUME NEW i \in 1 .. N, NEW n \in Nat, N - i <= 0
                 PROVE  f[<<o[i], n>>] = SubSeq(o, i, end(i, n))
        OBVIOUS
    <2>1. i + 1 \notin 1 .. N
        BY <1>1
    <2>2. QED
        BY <1>5, <2>1
<1>7. ASSUME NEW k \in Nat, k \in U PROVE k + 1 \in U
    <2> SUFFICES ASSUME NEW i \in 1 .. N, NEW n \in Nat, N - i <= k + 1
                 PROVE  f[<<o[i], n>>] = SubSeq(o, i, end(i, n))
        OBVIOUS
    <2>1. N - (i + 1) <= k /\ n + 2 \in Nat
        BY <1>1
    <2>2. i + 1 \in 1 .. N => f[<<o[i + 1], n + 2>>] = SubSeq(o, i + 1, end(i + 1, n + 2))
        BY <1>7, <2>1
    <2>3. QED
        BY <1>5, <2>2
<1>8. \A k \in Nat : k \in U
    <2> HIDE DEF U
    <2>1. QED
        BY <1>6, <1>7, Induction
<1>9. ASSUME NEW i \in 1 .. N, NEW n \in Nat PROVE f[<<o[i], n>>] = SubSeq(o, i, end(i, n))
    <2>1. N - i \in Nat
        BY <1>1
    <2>2. QED
        BY <1>8, <2>1
<1>10. QED
    BY <1>1, <1>9 DEF end, o, N

\* What zquery() writes.
LEMMA ZQueryIs ==
    ASSUME IndexInv, NEW s \in Int, NEW name \in Names, NEW off \in Int, NEW limit \in Int,
           NEW start, start = Behind(s, name) + 1, NEW first, first = start + off,
           NEW last, last = first + (limit + 1) \div 2 - 1
    PROVE  ZQuery(s, name, off, limit) =
               IF start \in DOMAIN InOrder /\ first \in DOMAIN InOrder
               THEN SubSeq(InOrder, first, IF last < Len(InOrder) THEN last ELSE Len(InOrder))
               ELSE <<>>
<1> DEFINE o == InOrder
           f == CHOOSE from : ListsFrom(from, limit)
           node == Offset(Query(s, name), off)
<1>1. ZQuery(s, name, off, limit) = IF limit <= 0 THEN <<>> ELSE f[<<node, 0>>]
    BY DEF ZQuery, ListsFrom, ListStep, Ptr
<1>2. ListsFrom(f, limit)
    BY ListExists
<1>3. /\ o \in Seq(Nodes) /\ Len(o) \in Nat /\ DOMAIN o = 1 .. Len(o)
    <2>1. o \in Seq(Nodes)
        BY InOrderLists DEF Lists
    <2> HIDE DEF o
    <2>2. QED
        BY <2>1
<1>4. start \in Int /\ Query(s, name) = IF start \in DOMAIN o THEN o[start] ELSE NULL
    BY QueryIs
<1>5. first \in Int /\ last \in Int
    BY <1>4
<1>6. node = IF start \in DOMAIN o /\ first \in DOMAIN o THEN o[first] ELSE NULL
    <2>1. CASE start \in DOMAIN o
        <3>1. OffsetAVL(heap, o[start], off) = IF first \in DOMAIN o THEN o[first] ELSE NULL
            BY <2>1, OffsetIs
        <3>2. o[start] # NULL
            <4> HIDE DEF o
            <4>1. o[start] \in Nodes
                BY <1>3, <2>1
            <4>2. QED
                BY <4>1, NodesAssumption
        <3>3. QED
            BY <1>4, <2>1, <3>1, <3>2 DEF Offset
    <2>2. CASE start \notin DOMAIN o
        BY <1>4, <2>2 DEF Offset
    <2>3. QED
        BY <2>1, <2>2
<1>7. \A n \in Nat : f[<<NULL, n>>] = <<>>
    <2> DEFINE F == [at \in Ptr \X Nat |-> ListStep(f, limit, at[1], at[2])]
    <2> SUFFICES ASSUME NEW n \in Nat PROVE f[<<NULL, n>>] = <<>>
        OBVIOUS
    <2>1. F[<<NULL, n>>] = <<>>
        BY DEF ListStep, Ptr
    <2>2. f = F
        BY <1>2 DEF ListsFrom
    <2> HIDE DEF F, f
    <2>3. QED
        BY <2>1, <2>2
<1> HIDE DEF node, f
<1>8. CASE ~(start \in DOMAIN o /\ first \in DOMAIN o)
    BY <1>1, <1>6, <1>7, <1>8
<1>9. CASE start \in DOMAIN o /\ first \in DOMAIN o
    <2> DEFINE end == IF last < Len(o) THEN last ELSE Len(o)
    <2>1. CASE limit <= 0
        <3> HIDE DEF o
        <3>1. last < first /\ first <= Len(o)
            BY <1>3, <1>4, <1>9, <2>1
        <3>2. end = last /\ SubSeq(o, first, last) = <<>>
            <4>1. last < Len(o)
                BY <1>3, <1>5, <3>1
            <4>2. SubSeq(o, first, last) = <<>>
                BY <1>5, <3>1, SubSeqEmpty
            <4>3. QED
                BY <4>1, <4>2
        <3> HIDE DEF end
        <3>3. ZQuery(s, name, off, limit) = SubSeq(o, first, end)
            BY <1>1, <2>1, <3>2
        <3>4. QED
            BY <1>9, <3>3 DEF end, o
    <2>2. CASE ~(limit <= 0)
        <3> DEFINE last0 == first + (limit - 0 + 1) \div 2 - 1
        <3>1. f[<<o[first], 0>>] = SubSeq(o, first, IF last0 < Len(o) THEN last0 ELSE Len(o))
            <4> DEFINE end0(n) == LET l == first + (limit - n + 1) \div 2 - 1
                                  IN  IF l < Len(o) THEN l ELSE Len(o)
            <4>1. \A n \in Nat : f[<<o[first], n>>] = SubSeq(o, first, end0(n))
                <5>1. \A i \in DOMAIN o, n \in Nat :
                          LET l == i + (limit - n + 1) \div 2 - 1
                          IN  f[<<o[i], n>>] = SubSeq(o, i, IF l < Len(o) THEN l ELSE Len(o))
                    BY <1>2, ListIs
                <5>2. first \in DOMAIN o
                    BY <1>9
                <5> HIDE DEF o
                <5>3. QED
                    BY <5>1, <5>2
            <4>2. end0(0) = IF last0 < Len(o) THEN last0 ELSE Len(o)
                OBVIOUS
            <4> HIDE DEF end0, last0
            <4>3. f[<<o[first], 0>>] = SubSeq(o, first, end0(0))
                BY <4>1
            <4>4. QED
                BY <4>2, <4>3
        <3>2. last0 = last
            <4>1. limit - 0 + 1 = limit + 1
                OBVIOUS
            <4>2. QED
                BY <4>1
        <3> HIDE DEF last0
        <3>3. f[<<o[first], 0>>] = SubSeq(o, first, end)
            BY <3>1, <3>2
        <3>4. ZQuery(s, name, off, limit) = f[<<o[first], 0>>]
            BY <1>1, <1>6, <1>9, <2>2
        <3>5. QED
            BY <1>9, <3>3, <3>4
    <2>3. QED
        BY <2>1, <2>2
<1>10. QED
    BY <1>8, <1>9

\* A query lists consecutive members, from the first that is not before its
\* pair and moved by the offset, as many as have room (zset.cxx, req.cxx).
THEOREM QueriesListed ==
    Spec => []QueryLists
<1>1. IndexInv => QueryLists
    <2> SUFFICES ASSUME IndexInv, NEW s \in Scores, NEW name \in Names,
                        NEW off \in Offsets, NEW limit \in Limits
                 PROVE  LET start == Behind(s, name) + 1
                            first == start + off
                            last  == first + (limit + 1) \div 2 - 1
                        IN  ZQuery(s, name, off, limit) =
                                IF start \in DOMAIN InOrder /\ first \in DOMAIN InOrder
                                THEN SubSeq(InOrder, first, IF last < Len(InOrder) THEN last ELSE Len(InOrder))
                                ELSE <<>>
        BY DEF QueryLists, Behind
    <2>1. s \in Int /\ off \in Int /\ limit \in Int
        BY MembersAssumption, QueriesAssumption DEF Scores
    <2>2. QED
        BY <2>1, ZQueryIs
<1>2. QED
    BY <1>1, Indexed, PTL
==============================================================================
