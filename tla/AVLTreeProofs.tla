---------------------------- MODULE AVLTreeProofs ----------------------------
(***************************************************************************)
(* The AVL tree of avl/c/avl.c, for trees of any size and shape: rotations,*)
(* fixAVL() after a new leaf, and delAVL() keep the links, the order of the*)
(* nodes, the balance, the depths and the sizes, and offsetAVL() ends.  The*)
(* subtree of a node, as a set of nodes, is what the lemmas follow through *)
(* these calls.                                                            *)
(***************************************************************************)
EXTENDS AVLTree, Recursion, FiniteSetTheorems

Sides == {"left", "right"}
Ptr == Nodes \cup {NULL}

\* There are two sides.
LEMMA OtherSide ==
    ASSUME NEW side \in Sides
    PROVE  /\ Other(side) \in Sides /\ Other(side) # side /\ Other(Other(side)) = side
           /\ \A s \in Sides : s = side \/ s = Other(side)
BY DEF Sides, Other

\* The heaps g and h have the same sizes and depths; links; parents.
SameLinks(g, h, n) == \A s \in Sides : g[n][s] = h[n][s]
SameSizes(g, h, n) == g[n].depth = h[n].depth /\ g[n].count = h[n].count

\* The fields of a node, and a link by its name and by its side.
LEMMA HeapTyped ==
    ASSUME NEW h \in Heap, NEW n \in Nodes
    PROVE  /\ \A s \in Sides : h[n][s] \in Ptr
           /\ h[n].left \in Ptr /\ h[n].right \in Ptr /\ h[n].parent \in Ptr
           /\ h[n].depth \in Nat /\ h[n].count \in Nat
           /\ h[n].left = h[n]["left"] /\ h[n].right = h[n]["right"]
BY DEF Heap, AVLNode, Sides, Ptr

WithLink(h, n, side, x) == [h EXCEPT ![n][side] = x]
WithParent(h, n, x) == [h EXCEPT ![n].parent = x]

\* A link of one node is set.
LEMMA SetLink ==
    ASSUME NEW h \in Heap, NEW n \in Nodes, NEW side \in Sides, NEW x \in Ptr
    PROVE  LET g == WithLink(h, n, side, x)
           IN  /\ g \in Heap
               /\ g[n][side] = x /\ \A s \in Sides \ {side} : g[n][s] = h[n][s]
               /\ \A y \in Nodes \ {n} : g[y] = h[y]
               /\ \A y \in Nodes : g[y].parent = h[y].parent /\ SameSizes(g, h, y)
BY DEF Heap, AVLNode, Sides, Ptr, SameSizes, WithLink

\* The parent of one node is set.
LEMMA SetUp ==
    ASSUME NEW h \in Heap, NEW n \in Nodes, NEW x \in Ptr
    PROVE  LET g == WithParent(h, n, x)
           IN  /\ g \in Heap
               /\ g[n].parent = x
               /\ \A y \in Nodes \ {n} : g[y] = h[y]
               /\ \A y \in Nodes : SameLinks(g, h, y) /\ SameSizes(g, h, y)
BY DEF Heap, AVLNode, Sides, Ptr, SameSizes, SameLinks, WithParent

\* Depths and sizes are numbers.
LEMMA DepthTyped ==
    ASSUME NEW h \in Heap, NEW n \in Ptr
    PROVE  Depth(h, n) \in Nat /\ Count(h, n) \in Nat
BY HeapTyped, NodesAssumption DEF Depth, Count, Ptr, NULL

\* update(): the depth and the size of one node from those of its children.
LEMMA Updated ==
    ASSUME NEW h \in Heap, NEW n \in Nodes, NEW side \in Sides
    PROVE  LET g == Update(h, n)
               l == h[n][side]
               r == h[n][Other(side)]
           IN  /\ g \in Heap
               /\ g[n].depth = 1 + Deeper(Depth(h, l), Depth(h, r))
               /\ g[n].count = 1 + Count(h, l) + Count(h, r)
               /\ \A y \in Nodes \ {n} : g[y] = h[y]
               /\ \A y \in Nodes : g[y].parent = h[y].parent /\ SameLinks(g, h, y)
<1> DEFINE a == h[n].left
           b == h[n].right
           d == 1 + Deeper(Depth(h, a), Depth(h, b))
           c == 1 + Count(h, a) + Count(h, b)
           g == [h EXCEPT ![n].depth = d, ![n].count = c]
<1>1. Depth(h, a) \in Nat /\ Depth(h, b) \in Nat /\ Count(h, a) \in Nat /\ Count(h, b) \in Nat
    BY HeapTyped, DepthTyped
<1>2. d \in Nat /\ c \in Nat
    BY <1>1 DEF Deeper
<1>3. /\ d = 1 + Deeper(Depth(h, h[n][side]), Depth(h, h[n][Other(side)]))
      /\ c = 1 + Count(h, h[n][side]) + Count(h, h[n][Other(side)])
    <2>1. CASE side = "left"
        BY <2>1, HeapTyped DEF Other
    <2>2. CASE side = "right"
        BY <1>1, <2>2, HeapTyped DEF Other, Deeper
    <2>3. QED
        BY <2>1, <2>2 DEF Sides
<1>4. Update(h, n) = g
    BY DEF Update
<1> HIDE DEF d, c
<1>5. /\ g \in Heap
      /\ g[n].depth = d /\ g[n].count = c
      /\ \A y \in Nodes \ {n} : g[y] = h[y]
      /\ \A y \in Nodes : g[y].parent = h[y].parent /\ SameLinks(g, h, y)
    BY <1>2 DEF Heap, AVLNode, Sides, SameLinks
<1>6. QED
    BY <1>3, <1>4, <1>5
------------------------------------------------------------------------------
(* A rotation, field by field.                                             *)

\* A rotation, and the link of the parent, which the caller renews.
Turn(h, n, side) ==
    LET turned == Rotate(h, n, side)
        p == h[n].parent
    IN  IF p = NULL THEN turned.heap
        ELSE [turned.heap EXCEPT ![p][SideOf(h, p, n)] = turned.top]

\* The nodes that a rotation is about are not the same.
Apart(h, n, side) ==
    LET new == h[n][Other(side)]
        inner == h[new][side]
        p == h[n].parent
    IN  /\ new \in Nodes \ {n}
        /\ inner \in Ptr \ {n, new}
        /\ p \in Ptr \ {n, new} /\ (p # NULL => p # inner)
        /\ h[n][side] \in Ptr \ {n, new}
        /\ h[new][Other(side)] \in Ptr \ {n, new}

\* What it does, field by field: new takes the place of n under p, and n that of
\* inner, between a and inner; b stays with new.
TurnedTo(h, g, n, side, new, inner, p, a, b) ==
    /\ g \in Heap
    /\ g[new].parent = p /\ g[n].parent = new
    /\ inner # NULL => g[inner].parent = n
    /\ \A y \in Nodes \ {n, new, inner} : g[y].parent = h[y].parent
    /\ g[n][side] = a /\ g[n][Other(side)] = inner
    /\ g[new][side] = n /\ g[new][Other(side)] = b
    /\ p # NULL => /\ g[p][SideOf(h, p, n)] = new
                   /\ g[p][Other(SideOf(h, p, n))] = h[p][Other(SideOf(h, p, n))]
    /\ \A y \in Nodes \ {n, new, p} : SameLinks(g, h, y)
    /\ \A y \in Nodes \ {n, new} : SameSizes(g, h, y)
    /\ g[n].depth = 1 + Deeper(Depth(h, a), Depth(h, inner))
    /\ g[n].count = 1 + Count(h, a) + Count(h, inner)
    /\ g[new].depth = 1 + Deeper(g[n].depth, Depth(h, b))
    /\ g[new].count = 1 + g[n].count + Count(h, b)

Turned(h, g, n, side) ==
    LET new == h[n][Other(side)]
    IN  TurnedTo(h, g, n, side, new, h[new][side], h[n].parent, h[n][side],
                 h[new][Other(side)])

\* A side.
LEMMA SideOfTyped ==
    ASSUME NEW h, NEW p, NEW n
    PROVE  SideOf(h, p, n) \in Sides
BY DEF SideOf, Sides

\* SetParent() of a node or NULL.
LEMMA SetParentIs ==
    ASSUME NEW h \in Heap, NEW n \in Ptr, NEW x \in Ptr
    PROVE  LET g == SetParent(h, n, x)
           IN  /\ g \in Heap
               /\ n # NULL => g[n].parent = x
               /\ \A y \in Nodes \ {n} : g[y] = h[y]
               /\ \A y \in Nodes : SameLinks(g, h, y) /\ SameSizes(g, h, y)
<1>1. CASE n = NULL
    <2>1. SetParent(h, n, x) = h
        BY <1>1 DEF SetParent
    <2>2. \A y \in Nodes : SameLinks(h, h, y) /\ SameSizes(h, h, y)
        BY DEF SameLinks, SameSizes
    <2>3. QED
        BY <1>1, <2>1, <2>2
<1>2. CASE n # NULL
    <2>1. n \in Nodes /\ SetParent(h, n, x) = WithParent(h, n, x)
        BY <1>2 DEF SetParent, Ptr, WithParent
    <2>2. QED
        BY <2>1, SetUp
<1>3. QED
    BY <1>1, <1>2

\* Depth and size of a node are in its own fields.
LEMMA DepthSame ==
    ASSUME NEW h, NEW g, NEW n \in Ptr, n # NULL => SameSizes(g, h, n)
    PROVE  Depth(g, n) = Depth(h, n) /\ Count(g, n) = Count(h, n)
BY DEF Depth, Count, SameSizes

\* A rotation, when its nodes are not the same, does what TurnedTo says.
LEMMA TurnIs ==
    ASSUME NEW h \in Heap, NEW n \in Nodes, NEW side \in Sides, Apart(h, n, side)
    PROVE  Turned(h, Turn(h, n, side), n, side) /\ Rotate(h, n, side).top = h[n][Other(side)]
<1> DEFINE other == Other(side)
           new == h[n][other]
           inner == h[new][side]
           p == h[n].parent
           a == h[n][side]
           b == h[new][other]
           h1 == SetParent(h, inner, n)
           h2 == WithLink(h1, n, other, inner)
           h3 == WithParent(h2, n, new)
           h4 == WithLink(h3, new, side, n)
           h5 == WithParent(h4, new, p)
           h6 == Update(h5, n)
           h7 == Update(h6, new)
           g == Turn(h, n, side)
<1>1. /\ new \in Nodes /\ new # n /\ inner \in Ptr /\ inner # n /\ inner # new
      /\ p \in Ptr /\ p # n /\ p # new /\ (p # NULL => p # inner)
      /\ a \in Ptr /\ a # n /\ a # new /\ b \in Ptr /\ b # n /\ b # new
      /\ other \in Sides /\ other # side /\ Other(other) = side
      /\ new \in Ptr /\ n \in Ptr
    BY OtherSide DEF Apart, Ptr
<1>2. Rotate(h, n, side) = [heap |-> h7, top |-> new]
    BY DEF Rotate, WithLink, WithParent
<1>3. g = IF p = NULL THEN h7 ELSE WithLink(h7, p, SideOf(h, p, n), new)
    <2> HIDE DEF h7, new
    <2>1. QED
        BY <1>2 DEF Turn, WithLink
<1>4. /\ h1 \in Heap
      /\ inner # NULL => h1[inner].parent = n
      /\ \A y \in Nodes \ {inner} : h1[y] = h[y]
      /\ \A y \in Nodes : SameLinks(h1, h, y) /\ SameSizes(h1, h, y)
    BY <1>1, SetParentIs
<1> HIDE DEF h1, g, new, inner, p, a, b, other
<1>5. /\ h2 \in Heap
      /\ h2[n][other] = inner /\ h2[n][side] = h1[n][side]
      /\ \A y \in Nodes \ {n} : h2[y] = h1[y]
      /\ \A y \in Nodes : h2[y].parent = h1[y].parent /\ SameSizes(h2, h1, y)
    <2>1. side \in Sides \ {other} /\ other \in Sides /\ inner \in Ptr
        BY <1>1
    <2> HIDE DEF h3, h4, h5, h6, h7
    <2>2. QED
        BY <1>4, <2>1, SetLink
<1> HIDE DEF h2
<1>6. /\ h3 \in Heap
      /\ h3[n].parent = new
      /\ \A y \in Nodes \ {n} : h3[y] = h2[y]
      /\ \A y \in Nodes : SameLinks(h3, h2, y) /\ SameSizes(h3, h2, y)
    BY <1>1, <1>5, SetUp
<1> HIDE DEF h3
<1>7. /\ h4 \in Heap
      /\ h4[new][side] = n /\ h4[new][other] = h3[new][other]
      /\ \A y \in Nodes \ {new} : h4[y] = h3[y]
      /\ \A y \in Nodes : h4[y].parent = h3[y].parent /\ SameSizes(h4, h3, y)
    <2>1. other \in Sides \ {side} /\ new \in Nodes /\ n \in Ptr
        BY <1>1
    <2> HIDE DEF h5, h6, h7
    <2>2. QED
        BY <1>6, <2>1, SetLink
<1> HIDE DEF h4
<1>8. /\ h5 \in Heap
      /\ h5[new].parent = p
      /\ \A y \in Nodes \ {new} : h5[y] = h4[y]
      /\ \A y \in Nodes : SameLinks(h5, h4, y) /\ SameSizes(h5, h4, y)
    BY <1>1, <1>7, SetUp
<1> HIDE DEF h5
<1>9. /\ \A y \in Nodes : SameSizes(h5, h, y)
      /\ h5[new].parent = p /\ h5[n].parent = new /\ (inner # NULL => h5[inner].parent = n)
      /\ \A y \in Nodes \ {n, new, inner} : h5[y].parent = h[y].parent
      /\ h5[n][side] = a /\ h5[n][other] = inner /\ h5[new][side] = n /\ h5[new][other] = b
      /\ \A y \in Nodes \ {n, new} : SameLinks(h5, h, y)
    <2>1. \A y \in Nodes : SameSizes(h5, h, y)
        BY <1>4, <1>5, <1>6, <1>7, <1>8 DEF SameSizes
    <2>2. h5[new].parent = p /\ h5[n].parent = new /\ (inner # NULL => h5[inner].parent = n)
        <3>1. inner # NULL => inner \in Nodes
            BY <1>1 DEF Ptr
        <3>2. QED
            BY <1>1, <1>4, <1>5, <1>6, <1>7, <1>8, <3>1
    <2>3. \A y \in Nodes \ {n, new, inner} : h5[y].parent = h[y].parent
        BY <1>1, <1>4, <1>5, <1>6, <1>7, <1>8
    <2>4. h5[n][side] = a /\ h5[n][other] = inner
        BY <1>1, <1>4, <1>5, <1>6, <1>7, <1>8 DEF SameLinks, a
    <2>5. h5[new][side] = n /\ h5[new][other] = b
        BY <1>1, <1>4, <1>5, <1>6, <1>7, <1>8 DEF SameLinks, b
    <2>6. \A y \in Nodes \ {n, new} : SameLinks(h5, h, y)
        BY <1>1, <1>4, <1>5, <1>6, <1>7, <1>8 DEF SameLinks
    <2>7. QED
        BY <2>1, <2>2, <2>3, <2>4, <2>5, <2>6
<1>10. /\ h6 \in Heap
       /\ h6[n].depth = 1 + Deeper(Depth(h5, a), Depth(h5, inner))
       /\ h6[n].count = 1 + Count(h5, a) + Count(h5, inner)
       /\ \A y \in Nodes \ {n} : h6[y] = h5[y]
       /\ \A y \in Nodes : h6[y].parent = h5[y].parent /\ SameLinks(h6, h5, y)
    BY <1>8, <1>9, Updated DEF other
<1> HIDE DEF h6
<1>11. h6[new][side] = n /\ h6[new][other] = b
    BY <1>1, <1>9, <1>10
<1>12. /\ h7 \in Heap
       /\ h7[new].depth = 1 + Deeper(Depth(h6, n), Depth(h6, b))
       /\ h7[new].count = 1 + Count(h6, n) + Count(h6, b)
       /\ \A y \in Nodes \ {new} : h7[y] = h6[y]
       /\ \A y \in Nodes : h7[y].parent = h6[y].parent /\ SameLinks(h7, h6, y)
    BY <1>1, <1>10, <1>11, Updated DEF other
<1> HIDE DEF h7
<1>13. /\ Depth(h5, a) = Depth(h, a) /\ Count(h5, a) = Count(h, a)
       /\ Depth(h5, inner) = Depth(h, inner) /\ Count(h5, inner) = Count(h, inner)
    BY <1>1, <1>9, DepthSame DEF Ptr
<1>14. Depth(h6, b) = Depth(h, b) /\ Count(h6, b) = Count(h, b)
    <2>1. b # NULL => SameSizes(h6, h, b)
        BY <1>1, <1>9, <1>10 DEF Ptr, SameSizes
    <2>2. QED
        BY <1>1, <2>1, DepthSame
<1>15. Depth(h6, n) = h6[n].depth /\ Count(h6, n) = h6[n].count
    BY NodesAssumption DEF Depth, Count
<1>16. /\ h7[n].depth = 1 + Deeper(Depth(h, a), Depth(h, inner))
       /\ h7[n].count = 1 + Count(h, a) + Count(h, inner)
       /\ h7[new].depth = 1 + Deeper(h7[n].depth, Depth(h, b))
       /\ h7[new].count = 1 + h7[n].count + Count(h, b)
    BY <1>1, <1>10, <1>12, <1>13, <1>14, <1>15
<1>17. \A y \in Nodes \ {n, new} : h7[y] = h5[y]
    BY <1>10, <1>12
<1>18. \A y \in Nodes : h7[y].parent = h5[y].parent /\ SameLinks(h7, h5, y)
    BY <1>10, <1>12 DEF SameLinks
<1>19. CASE p = NULL
    <2>1. g = h7
        BY <1>3, <1>19
    <2>2. \A y \in Nodes \ {n, new, p} : SameLinks(g, h, y)
        BY <1>9, <1>18, <2>1 DEF SameLinks
    <2>3. \A y \in Nodes \ {n, new} : SameSizes(g, h, y)
        BY <1>9, <1>17, <2>1 DEF SameSizes
    <2>4. g[n][side] = a /\ g[n][other] = inner /\ g[new][side] = n /\ g[new][other] = b
        BY <1>1, <1>9, <1>18, <2>1 DEF SameLinks
    <2>5. TurnedTo(h, g, n, side, new, inner, p, a, b)
        <3>1. inner # NULL => inner \in Nodes
            BY <1>1 DEF Ptr
        <3>2. /\ g[new].parent = p /\ g[n].parent = new /\ (inner # NULL => g[inner].parent = n)
              /\ \A y \in Nodes \ {n, new, inner} : g[y].parent = h[y].parent
            BY <1>1, <1>9, <1>18, <2>1, <3>1
        <3>3. QED
            BY <1>12, <1>16, <1>19, <2>1, <2>2, <2>3, <2>4, <3>2 DEF TurnedTo, other
    <2>6. QED
        BY <1>2, <2>5 DEF Turned, a, b, p, new, inner, other, g
<1>20. CASE p # NULL
    <2> DEFINE s == SideOf(h, p, n)
    <2>1. p \in Nodes /\ s \in Sides
        BY <1>1, <1>20, SideOfTyped DEF Ptr
    <2>2. g = WithLink(h7, p, s, new)
        BY <1>3, <1>20
    <2> HIDE DEF s
    <2>3. /\ g \in Heap /\ g[p][s] = new /\ g[p][Other(s)] = h7[p][Other(s)]
          /\ \A y \in Nodes \ {p} : g[y] = h7[y]
          /\ \A y \in Nodes : g[y].parent = h7[y].parent /\ SameSizes(g, h7, y)
        <3>1. Other(s) \in Sides \ {s}
            BY <2>1, OtherSide
        <3>2. h7 \in Heap /\ new \in Ptr
            BY <1>1, <1>12
        <3> DEFINE k == WithLink(h7, p, s, new)
        <3>3. /\ k \in Heap /\ k[p][s] = new /\ k[p][Other(s)] = h7[p][Other(s)]
              /\ \A y \in Nodes \ {p} : k[y] = h7[y]
              /\ \A y \in Nodes : k[y].parent = h7[y].parent /\ SameSizes(k, h7, y)
            BY <2>1, <3>1, <3>2, SetLink
        <3>4. QED
            BY <2>2, <3>3
    <2>4. h7[p][Other(s)] = h[p][Other(s)]
        <3>1. Other(s) \in Sides
            BY <2>1, OtherSide
        <3>2. QED
            BY <1>1, <1>9, <1>17, <2>1, <3>1 DEF SameLinks
    <2>5. \A y \in Nodes \ {n, new, p} : SameLinks(g, h, y)
        BY <1>9, <1>17, <2>3 DEF SameLinks
    <2>6. \A y \in Nodes \ {n, new} : SameSizes(g, h, y)
        BY <1>9, <1>17, <2>3 DEF SameSizes
    <2>7. g[n][side] = a /\ g[n][other] = inner /\ g[new][side] = n /\ g[new][other] = b
        BY <1>1, <1>9, <1>18, <2>3 DEF SameLinks
    <2>8. /\ g[n].depth = h7[n].depth /\ g[n].count = h7[n].count
          /\ g[new].depth = h7[new].depth /\ g[new].count = h7[new].count
        BY <1>1, <2>3 DEF SameSizes
    <2>9. /\ g[new].parent = p /\ g[n].parent = new /\ (inner # NULL => g[inner].parent = n)
          /\ \A y \in Nodes \ {n, new, inner} : g[y].parent = h[y].parent
        <3>1. inner # NULL => inner \in Nodes
            BY <1>1 DEF Ptr
        <3>2. QED
            BY <1>1, <1>9, <1>18, <2>3, <3>1
    <2>10. TurnedTo(h, g, n, side, new, inner, p, a, b)
        <3> HIDE DEF s
        <3>1. s = SideOf(h, p, n)
            BY DEF s
        <3>2. QED
            BY <1>16, <2>3, <2>4, <2>5, <2>6, <2>7, <2>8, <2>9, <3>1 DEF TurnedTo, other
    <2>11. QED
        BY <1>2, <2>10 DEF Turned, a, b, p, new, inner, other, g
<1>21. QED
    BY <1>19, <1>20
------------------------------------------------------------------------------
(* Trees: links, parents and the order of the nodes.                       *)

\* A strict order in which any two nodes are comparable.
Order(before) ==
    /\ \A x \in Nodes : <<x, x>> \notin before
    /\ \A x, y, z \in Nodes : <<x, y>> \in before /\ <<y, z>> \in before => <<x, z>> \in before
    /\ \A x, y \in Nodes : x # y => <<x, y>> \in before \/ <<y, x>> \in before

\* x lies on this side of n.
On(before, x, n, side) == IF side = "left" THEN <<x, n>> \in before ELSE <<n, x>> \in before

\* On a side of, as an order.
LEMMA OnFacts ==
    ASSUME NEW before, Order(before)
    PROVE  /\ \A x, y \in Nodes, side \in Sides :
                  /\ On(before, x, y, side) => x # y /\ ~On(before, x, y, Other(side))
                  /\ On(before, x, y, side) <=> On(before, y, x, Other(side))
                  /\ x # y => On(before, x, y, side) \/ On(before, x, y, Other(side))
           /\ \A x, y, z \in Nodes, side \in Sides :
                  On(before, x, y, side) /\ On(before, y, z, side) => On(before, x, z, side)
BY DEF Order, On, Sides, Other

\* T[n] is the set of nodes in the subtree of n.
NodeOK(h, T, S, root, before, n) ==
    /\ \A side \in Sides :
          /\ h[n][side] \in S \cup {NULL}
          /\ h[n][side] # NULL => h[h[n][side]].parent = n
          /\ \A x \in T[h[n][side]] : On(before, x, n, side)
          /\ T[n] = T[h[n][side]] \cup {n} \cup T[h[n][Other(side)]]
    /\ n # root => /\ h[n].parent \in S
                   /\ \E side \in Sides : h[h[n].parent][side] = n

RootOK(h, T, S, root) ==
    IF root = NULL THEN S = {} ELSE root \in S /\ h[root].parent = NULL /\ T[root] = S

Tree(h, T, S, root, before) ==
    /\ h \in Heap /\ S \in SUBSET Nodes /\ Order(before)
    /\ T \in [Ptr -> SUBSET S] /\ T[NULL] = {}
    /\ RootOK(h, T, S, root)
    /\ \A n \in S : NodeOK(h, T, S, root, before, n)

Branch(h, T, S, n, side) ==
    /\ n \in Nodes /\ n # NULL /\ n \in T[n] /\ n \notin T[h[n][side]]
    /\ T[h[n][side]] \cap T[h[n][Other(side)]] = {}
    /\ h[n][side] \in S \cup {NULL} /\ h[n][side] \in Ptr
    /\ h[n][side] # NULL => h[n][side] \in S /\ h[n][side] \in T[h[n][side]]
    /\ T[n] = T[h[n][side]] \cup {n} \cup T[h[n][Other(side)]]
    /\ T[NULL] = {} /\ T[n] \subseteq S

\* One side of a node: its subtree, without the node and without the other side.
LEMMA BranchFacts ==
    ASSUME NEW h, NEW T, NEW S, NEW root, NEW before, Tree(h, T, S, root, before),
           NEW n \in S, NEW side \in Sides
    PROVE  /\ n \in Nodes /\ n # NULL /\ n \in T[n] /\ n \notin T[h[n][side]]
           /\ T[h[n][side]] \cap T[h[n][Other(side)]] = {}
           /\ h[n][side] \in S \cup {NULL} /\ h[n][side] \in Ptr
           /\ h[n][side] # NULL => h[n][side] \in S /\ h[n][side] \in T[h[n][side]]
           /\ T[n] = T[h[n][side]] \cup {n} \cup T[h[n][Other(side)]]
           /\ T[NULL] = {} /\ T[n] \subseteq S
<1> DEFINE c == h[n][side]
           d == h[n][Other(side)]
<1>1. /\ S \subseteq Nodes /\ Other(side) \in Sides /\ n \in Nodes /\ n # NULL
      /\ T \in [Ptr -> SUBSET S] /\ T[NULL] = {}
    BY OtherSide, NodesAssumption DEF Tree
<1>2. /\ c \in S \cup {NULL} /\ d \in S \cup {NULL}
      /\ \A x \in T[c] : On(before, x, n, side)
      /\ \A x \in T[d] : On(before, x, n, Other(side))
      /\ T[n] = T[c] \cup {n} \cup T[d]
    BY <1>1 DEF Tree, NodeOK
<1>3. T[c] \subseteq Nodes /\ T[d] \subseteq Nodes /\ c \in Ptr
    BY <1>1, <1>2 DEF Ptr
<1>4. n \notin T[c] /\ T[c] \cap T[d] = {}
    <2>1. Order(before)
        BY DEF Tree
    <2> HIDE DEF c, d
    <2>2. QED
        BY <1>1, <1>2, <1>3, <2>1, OnFacts
<1>5. c # NULL => c \in T[c]
    <2> SUFFICES ASSUME c # NULL PROVE c \in T[c]
        OBVIOUS
    <2>1. c \in S
        BY <1>2
    <2> HIDE DEF c
    <2>2. T[c] = T[h[c]["left"]] \cup {c} \cup T[h[c][Other("left")]]
        BY <2>1 DEF Tree, NodeOK, Sides
    <2>3. QED
        BY <2>2
<1>6. T[n] \subseteq S
    BY <1>1 DEF Ptr
<1>7. QED
    BY <1>1, <1>2, <1>3, <1>4, <1>5, <1>6

\* The same under one name.
LEMMA Branches ==
    ASSUME NEW h, NEW T, NEW S, NEW root, NEW before, Tree(h, T, S, root, before),
           NEW n \in S, NEW side \in Sides
    PROVE  Branch(h, T, S, n, side)
BY BranchFacts DEF Branch

\* The parent of a node other than the root, and its links.
LEMMA ParentFacts ==
    ASSUME NEW h, NEW T, NEW S, NEW root, NEW before, Tree(h, T, S, root, before),
           NEW n \in S, n # root
    PROVE  LET p == h[n].parent
           IN  /\ p \in S /\ p \in Nodes /\ p # NULL /\ p # n
               /\ h[p][SideOf(h, p, n)] = n /\ h[p][Other(SideOf(h, p, n))] # n
               /\ T[n] \subseteq T[p] /\ p \in T[p] /\ p \notin T[n]
<1> DEFINE p == h[n].parent
<1>1. p \in S /\ S \subseteq Nodes /\ n \in Nodes
    BY DEF Tree, NodeOK
<1>2. PICK s \in Sides : h[p][s] = n
    BY DEF Tree, NodeOK
<1> HIDE DEF p
<1>3. /\ p \in Nodes /\ p # NULL /\ p \in T[p] /\ p \notin T[n] /\ n \in T[n] /\ n # NULL
      /\ T[n] \cap T[h[p][Other(s)]] = {}
      /\ T[p] = T[n] \cup {p} \cup T[h[p][Other(s)]]
    BY <1>1, <1>2, BranchFacts
<1>4. Other(s) \in Sides /\ h[p][Other(s)] # n
    BY <1>3, <1>2, OtherSide
<1>5. SideOf(h, p, n) = s
    <2>1. h[p].left = h[p]["left"] /\ h \in Heap
        BY <1>3, HeapTyped DEF Tree
    <2>2. QED
        BY <1>2, <1>4, <2>1 DEF SideOf, Sides, Other
<1>6. QED
    BY <1>1, <1>2, <1>3, <1>4, <1>5 DEF p

\* The root is the node without a parent.
LEMMA RootFacts ==
    ASSUME NEW h, NEW T, NEW S, NEW root, NEW before, Tree(h, T, S, root, before), NEW n \in S
    PROVE  /\ root \in S /\ T[root] = S
           /\ h[n].parent = NULL <=> n = root
           /\ h[n].parent \in Ptr
<1>1. root \in S /\ T[root] = S /\ h[root].parent = NULL /\ h \in Heap /\ n \in Nodes
    BY DEF Tree, RootOK
<1>2. n # root => h[n].parent # NULL
    BY ParentFacts
<1>3. QED
    BY <1>1, <1>2, HeapTyped

\* In a tree, the nodes of a rotation are not the same.
LEMMA TreeApart ==
    ASSUME NEW h, NEW T, NEW S, NEW root, NEW before, Tree(h, T, S, root, before),
           NEW n \in S, NEW side \in Sides, h[n][Other(side)] # NULL
    PROVE  Apart(h, n, side)
<1> DEFINE other == Other(side)
           new == h[n][other]
           inner == h[new][side]
           b == h[new][other]
           a == h[n][side]
           p == h[n].parent
<1>1. other \in Sides /\ Other(other) = side
    BY OtherSide
<1>2. /\ new \in S /\ new \in T[new] /\ n \notin T[new] /\ a \in Ptr
      /\ a # NULL => a \in T[a]
      /\ n \notin T[a] /\ T[a] \cap T[new] = {}
      /\ n \in Nodes /\ n # NULL /\ n \in T[n] /\ new \in T[n]
    BY <1>1, BranchFacts
<1> HIDE DEF new, a, other
<1>3. /\ inner \in Ptr /\ b \in Ptr /\ new \in Nodes /\ new # NULL
      /\ inner # NULL => inner \in T[inner]
      /\ b # NULL => b \in T[b]
      /\ new \notin T[inner] /\ new \notin T[b]
      /\ T[new] = T[inner] \cup {new} \cup T[b]
    BY <1>1, <1>2, BranchFacts
<1> HIDE DEF inner, b
<1>4. p \in Ptr /\ p \notin T[n] /\ p # NULL => p # n
    BY <1>2, RootFacts, ParentFacts
<1>5. p # NULL => p \notin T[n]
    BY RootFacts, ParentFacts
<1>6. T[new] \subseteq T[n]
    BY <1>1, BranchFacts DEF new
<1>7. p \in Ptr \ {n, new} /\ (p # NULL => p # inner)
    <2>1. p \in Ptr
        BY RootFacts
    <2> HIDE DEF p
    <2>2. QED
        BY <1>2, <1>3, <1>5, <1>6, <2>1
<1>8. new \in Nodes \ {n} /\ inner \in Ptr \ {n, new} /\ a \in Ptr \ {n, new} /\ b \in Ptr \ {n, new}
    BY <1>2, <1>3
<1>9. QED
    BY <1>7, <1>8 DEF Apart, p, a, b, inner, new, other
------------------------------------------------------------------------------
(* A rotation of a tree.                                                   *)

\* The subtrees after a rotation.
TurnSets(T, n, new, a, inner) == [T EXCEPT ![n] = T[a] \cup {n} \cup T[inner], ![new] = T[n]]

\* A rotation takes a tree to a tree.
LEMMA TurnTree ==
    ASSUME NEW h, NEW T, NEW S, NEW root, NEW before, Tree(h, T, S, root, before),
           NEW n \in S, NEW side \in Sides, h[n][Other(side)] # NULL
    PROVE  LET g == Turn(h, n, side)
               new == h[n][Other(side)]
               T2 == TurnSets(T, n, new, h[n][side], h[new][side])
           IN  /\ Tree(g, T2, S, IF n = root THEN new ELSE root, before)
               /\ Turned(h, g, n, side) /\ T2[new] = T[n]
               /\ Rotate(h, n, side).top = new
<1> DEFINE other == Other(side)
           new == h[n][other]
           inner == h[new][side]
           b == h[new][other]
           a == h[n][side]
           p == h[n].parent
           sp == SideOf(h, p, n)
           g == Turn(h, n, side)
           T2 == TurnSets(T, n, new, a, inner)
           top == IF n = root THEN new ELSE root
<1>1. other \in Sides /\ Other(other) = side /\ other # side /\ \A s \in Sides : s = side \/ s = other
    BY OtherSide
<1>2. h \in Heap /\ S \subseteq Nodes /\ n \in Nodes /\ Order(before)
      /\ T \in [Ptr -> SUBSET S] /\ T[NULL] = {}
    BY DEF Tree
<1>3. Turned(h, g, n, side) /\ Rotate(h, n, side).top = new
    BY <1>2, TreeApart, TurnIs
<1>4. TurnedTo(h, g, n, side, new, inner, p, a, b)
    BY <1>3 DEF Turned
<1>5. Apart(h, n, side)
    BY TreeApart
<1>6. /\ new \in Nodes /\ new # n /\ inner \in Ptr /\ inner # n /\ inner # new
      /\ p \in Ptr /\ p # n /\ p # new /\ (p # NULL => p # inner)
      /\ a \in Ptr /\ a # n /\ a # new /\ b \in Ptr /\ b # n /\ b # new
    BY <1>5 DEF Apart
<1> HIDE DEF g
<1>7. /\ new \in S /\ new \in T[new] /\ n \notin T[new]
      /\ n \notin T[a] /\ T[a] \cap T[new] = {}
      /\ n \in T[n] /\ T[n] = T[a] \cup {n} \cup T[new] /\ T[n] \subseteq S
      /\ a \in S \cup {NULL} /\ n # NULL
    <2>1. side \in Sides /\ other \in Sides /\ Other(side) = other /\ Other(other) = side
        BY <1>1
    <2>2. n \in S /\ Tree(h, T, S, root, before)
        OBVIOUS
    <2> HIDE DEF other
    <2>3. /\ n # NULL /\ n \in T[n] /\ n \notin T[h[n][side]]
          /\ T[h[n][side]] \cap T[h[n][other]] = {}
          /\ h[n][side] \in S \cup {NULL}
          /\ T[n] = T[h[n][side]] \cup {n} \cup T[h[n][other]]
          /\ T[n] \subseteq S
        <3>1. Branch(h, T, S, n, side)
            BY <2>1, <2>2, Branches
        <3>2. QED
            BY <2>1, <3>1 DEF Branch
    <2>4. /\ n \notin T[h[n][other]]
          /\ h[n][other] \in S \cup {NULL}
          /\ h[n][other] # NULL => h[n][other] \in S /\ h[n][other] \in T[h[n][other]]
        BY <2>1, <2>2, BranchFacts
    <2>5. h[n][other] # NULL
        BY <2>1
    <2>6. QED
        BY <2>3, <2>4, <2>5
<1>8. /\ inner \in S \cup {NULL} /\ b \in S \cup {NULL} /\ new # NULL
      /\ new \notin T[inner] /\ new \notin T[b] /\ T[inner] \cap T[b] = {}
      /\ T[new] = T[inner] \cup {new} \cup T[b]
    <2>1. side \in Sides /\ other \in Sides /\ Other(side) = other /\ Other(other) = side
        BY <1>1
    <2>2. new \in S /\ Tree(h, T, S, root, before)
        BY <1>7
    <2> HIDE DEF other, new
    <2>3. /\ new # NULL /\ new \in T[new] /\ new \notin T[h[new][side]]
          /\ T[h[new][side]] \cap T[h[new][other]] = {}
          /\ h[new][side] \in S \cup {NULL}
          /\ T[new] = T[h[new][side]] \cup {new} \cup T[h[new][other]]
          /\ T[new] \subseteq S
        <3>1. Branch(h, T, S, new, side)
            BY <2>1, <2>2, Branches
        <3>2. QED
            BY <2>1, <3>1 DEF Branch
    <2>4. /\ new \notin T[h[new][other]]
          /\ h[new][other] \in S \cup {NULL}
          /\ h[new][other] # NULL => h[new][other] \in S /\ h[new][other] \in T[h[new][other]]
        BY <2>1, <2>2, BranchFacts
    <2>5. QED
        BY <2>3, <2>4
<1>9. /\ \A x \in T[a] : On(before, x, n, side)
      /\ \A x \in T[new] : On(before, x, n, other)
      /\ a # NULL => h[a].parent = n
      /\ h[new].parent = n
    <2>1. NodeOK(h, T, S, root, before, n)
        BY DEF Tree
    <2>2. side \in Sides /\ other \in Sides
        BY <1>1
    <2> HIDE DEF other
    <2>3. /\ \A x \in T[h[n][side]] : On(before, x, n, side)
          /\ h[n][side] # NULL => h[h[n][side]].parent = n
          /\ \A x \in T[h[n][other]] : On(before, x, n, other)
          /\ h[n][other] # NULL => h[h[n][other]].parent = n
        BY <2>1, <2>2 DEF NodeOK
    <2>4. QED
        BY <1>8, <2>3
<1>10. /\ \A x \in T[inner] : On(before, x, new, side)
       /\ \A x \in T[b] : On(before, x, new, other)
       /\ b # NULL => h[b].parent = new
       /\ inner # NULL => h[inner].parent = new
    <2>1. NodeOK(h, T, S, root, before, new)
        BY <1>7 DEF Tree
    <2>2. side \in Sides /\ other \in Sides
        BY <1>1
    <2> HIDE DEF new, other
    <2>3. /\ \A x \in T[h[new][side]] : On(before, x, new, side)
          /\ h[new][side] # NULL => h[h[new][side]].parent = new
          /\ \A x \in T[h[new][other]] : On(before, x, new, other)
          /\ h[new][other] # NULL => h[h[new][other]].parent = new
        BY <2>1, <2>2 DEF NodeOK
    <2>4. QED
        BY <2>3
<1>11. p = NULL <=> n = root
    BY RootFacts
<1>12. n # root => /\ p \in S /\ sp \in Sides /\ h[p][sp] = n /\ h[p][Other(sp)] # n
                   /\ T[n] \subseteq T[p] /\ p \notin T[n]
    BY ParentFacts, SideOfTyped
<1> HIDE DEF a, b, inner, p, sp, new, other
<1>13. /\ T2 \in [Ptr -> SUBSET S] /\ T2[NULL] = {}
       /\ T2[n] = T[a] \cup {n} \cup T[inner] /\ T2[new] = T[n]
       /\ \A x \in Ptr \ {n, new} : T2[x] = T[x]
    <2>1. n \in Ptr /\ new \in Ptr /\ NULL \in Ptr /\ NULL # n /\ NULL # new
        BY <1>2, <1>6, <1>7, <1>8 DEF Ptr
    <2>2. T[a] \cup {n} \cup T[inner] \in SUBSET S /\ T[n] \in SUBSET S
        BY <1>2, <1>6, <1>7, <2>1
    <2>3. QED
        BY <1>2, <1>6, <2>1, <2>2 DEF TurnSets
<1> HIDE DEF T2
<1>14. RootOK(g, T2, S, top)
    <2>1. root \in S /\ T[root] = S /\ h[root].parent = NULL /\ root # NULL
        <3>1. root \in S /\ T[root] = S
            BY RootFacts
        <3>2. h[root].parent = NULL
            BY <3>1, RootFacts
        <3>3. root # NULL
            BY <1>2, <3>1, NodesAssumption
        <3>4. QED
            BY <3>1, <3>2, <3>3
    <2>2. CASE n = root
        <3>1. top = new /\ g[new].parent = NULL /\ T2[new] = S
            BY <1>4, <1>11, <1>13, <2>1, <2>2 DEF TurnedTo
        <3>2. QED
            BY <1>7, <1>8, <3>1 DEF RootOK
    <2>3. CASE n # root
        <3>1. top = root /\ root # n
            BY <2>3
        <3>2. root # new /\ root # inner
            BY <1>7, <1>8, <1>9, <1>10, <2>1
        <3>3. g[root].parent = NULL /\ T2[root] = S
            BY <1>2, <1>4, <1>13, <2>1, <3>1, <3>2 DEF TurnedTo, Ptr
        <3>4. QED
            BY <2>1, <3>1, <3>3 DEF RootOK
    <2>4. QED
        BY <2>2, <2>3
<1>15. NodeOK(g, T2, S, top, before, n)
    <2>1. g[n][side] = a /\ g[n][other] = inner /\ g[n].parent = new /\ g[new][side] = n
        BY <1>4 DEF TurnedTo, other
    <2>2. T2[a] = T[a] /\ T2[inner] = T[inner]
        BY <1>6, <1>13
    <2>3. a # NULL => g[a].parent = n
        <3> SUFFICES ASSUME a # NULL PROVE g[a].parent = n
            OBVIOUS
        <3>1. a \in Nodes \ {n, new, inner}
            BY <1>6, <1>9, <1>10 DEF Ptr
        <3>2. QED
            BY <1>4, <1>9, <3>1 DEF TurnedTo
    <2>4. inner # NULL => g[inner].parent = n
        BY <1>4 DEF TurnedTo
    <2>5. \A x \in T[inner] : On(before, x, n, other)
        BY <1>8, <1>9
    <2>6. ASSUME NEW s \in Sides
          PROVE  /\ g[n][s] \in S \cup {NULL}
                 /\ g[n][s] # NULL => g[g[n][s]].parent = n
                 /\ \A x \in T2[g[n][s]] : On(before, x, n, s)
                 /\ T2[n] = T2[g[n][s]] \cup {n} \cup T2[g[n][Other(s)]]
        <3>1. CASE s = side
            BY <1>7, <1>9, <1>13, <2>1, <2>2, <2>3, <3>1 DEF other
        <3>2. CASE s = other
            BY <1>1, <1>8, <1>9, <1>13, <2>1, <2>2, <2>4, <2>5, <3>2
        <3>3. QED
            BY <1>1, <3>1, <3>2
    <2>7. g[n].parent \in S /\ \E s \in Sides : g[g[n].parent][s] = n
        BY <1>7, <2>1
    <2>8. QED
        BY <2>6, <2>7 DEF NodeOK
<1>16. NodeOK(g, T2, S, top, before, new)
    <2>1. g[new][side] = n /\ g[new][other] = b /\ g[new].parent = p /\ g[n].parent = new
        BY <1>4 DEF TurnedTo, other
    <2>2. T2[b] = T[b] /\ T2[n] = T[a] \cup {n} \cup T[inner] /\ T2[new] = T[n]
        BY <1>6, <1>13
    <2>3. b # NULL => g[b].parent = new
        <3> SUFFICES ASSUME b # NULL PROVE g[b].parent = new
            OBVIOUS
        <3>1. b \in S /\ b \in T[b]
            BY <1>1, <1>7, BranchFacts DEF b
        <3>2. b \in Nodes \ {n, new, inner}
            <4>1. inner \in T[inner] \/ inner = NULL
                BY <1>1, <1>7, BranchFacts DEF inner
            <4>2. QED
                BY <1>2, <1>6, <1>8, <3>1, <4>1
        <3>3. QED
            BY <1>4, <1>10, <3>2 DEF TurnedTo
    <2>4. \A x \in T2[n] : On(before, x, new, side)
        <3>1. On(before, n, new, side)
            BY <1>1, <1>2, <1>6, <1>7, <1>9, OnFacts DEF other
        <3>2. \A x \in T[a] : On(before, x, new, side)
            <4>1. T[a] \subseteq Nodes
                BY <1>2, <1>6
            <4>2. QED
                BY <1>2, <1>6, <1>9, <3>1, <4>1, OnFacts
        <3>3. QED
            BY <1>10, <2>2, <3>1, <3>2
    <2>5. T[n] = T2[n] \cup {new} \cup T[b]
        BY <1>7, <1>8, <2>2
    <2>6. ASSUME NEW s \in Sides
          PROVE  /\ g[new][s] \in S \cup {NULL}
                 /\ g[new][s] # NULL => g[g[new][s]].parent = new
                 /\ \A x \in T2[g[new][s]] : On(before, x, new, s)
                 /\ T2[new] = T2[g[new][s]] \cup {new} \cup T2[g[new][Other(s)]]
        <3>1. CASE s = side
            BY <2>1, <2>2, <2>4, <2>5, <3>1 DEF other
        <3>2. CASE s = other
            BY <1>1, <1>8, <1>10, <2>1, <2>2, <2>3, <2>5, <3>2
        <3>3. QED
            BY <1>1, <3>1, <3>2
    <2>7. new # top => g[new].parent \in S /\ \E s \in Sides : g[g[new].parent][s] = new
        <3>1. new # top => n # root
            OBVIOUS
        <3>2. n # root => p \in S /\ p # NULL /\ sp \in Sides
            BY <1>11, <1>12
        <3>3. p # NULL => g[p][sp] = new
            BY <1>4 DEF TurnedTo, sp
        <3>4. QED
            BY <2>1, <3>1, <3>2, <3>3
    <2>8. QED
        BY <2>6, <2>7 DEF NodeOK
<1>17. ASSUME NEW y \in S, y # n, y # new PROVE NodeOK(g, T2, S, top, before, y)
    <2>1. y \in Nodes /\ y \in Ptr /\ T2[y] = T[y] /\ y # NULL
        BY <1>2, <1>13, <1>17, NodesAssumption DEF Ptr
    <2>2. \A s \in Sides :
             /\ h[y][s] \in S \cup {NULL} /\ h[y][s] \in Ptr
             /\ h[y][s] # NULL => h[h[y][s]].parent = y
             /\ \A x \in T[h[y][s]] : On(before, x, y, s)
             /\ T[y] = T[h[y][s]] \cup {y} \cup T[h[y][Other(s)]]
        BY <1>2 DEF Tree, NodeOK, Ptr
    <2>3. \A s \in Sides : h[y][s] # new
        BY <1>8, <1>9, <1>17, <2>2
    <2>4. ASSUME NEW s \in Sides
          PROVE  IF y = p /\ s = sp THEN h[y][s] = n /\ g[y][s] = new
                                    ELSE h[y][s] # n /\ g[y][s] = h[y][s]
        <3>1. CASE y = p
            <4>1. p # NULL /\ n # root
                BY <1>11, <2>1, <3>1
            <4>2. s = sp \/ s = Other(sp)
                BY <1>12, <4>1, OtherSide
            <4>3. g[p][sp] = new /\ g[p][Other(sp)] = h[p][Other(sp)] /\ Other(sp) # sp
                BY <1>4, <1>12, <4>1, OtherSide DEF TurnedTo, sp
            <4>4. QED
                BY <1>12, <3>1, <4>1, <4>2, <4>3
        <3>2. CASE y # p
            <4>1. h[y][s] # n
                BY <1>7, <2>2, <3>2 DEF p
            <4>2. g[y][s] = h[y][s]
                BY <1>4, <1>17, <2>1, <3>2 DEF TurnedTo, SameLinks
            <4>3. QED
                BY <3>2, <4>1, <4>2
        <3>3. QED
            BY <3>1, <3>2
    <2>5. \A s \in Sides : T2[g[y][s]] = T[h[y][s]]
        BY <1>13, <2>2, <2>3, <2>4
    <2>6. ASSUME NEW s \in Sides
          PROVE  /\ g[y][s] \in S \cup {NULL}
                 /\ g[y][s] # NULL => g[g[y][s]].parent = y
                 /\ \A x \in T2[g[y][s]] : On(before, x, y, s)
                 /\ T2[y] = T2[g[y][s]] \cup {y} \cup T2[g[y][Other(s)]]
        <3>1. Other(s) \in Sides
            BY OtherSide
        <3>2. g[y][s] \in S \cup {NULL}
            BY <1>7, <2>2, <2>4
        <3>3. g[y][s] # NULL => g[g[y][s]].parent = y
            <4>1. CASE y = p /\ s = sp
                BY <1>4, <2>4, <4>1 DEF TurnedTo
            <4>2. CASE ~(y = p /\ s = sp)
                <5>1. g[y][s] = h[y][s] /\ h[y][s] # n /\ h[y][s] # new
                    BY <2>3, <2>4, <4>2
                <5>2. h[y][s] # NULL => h[h[y][s]].parent = y /\ h[y][s] \in Nodes
                    BY <1>2, <2>2
                <5>3. h[y][s] # NULL => h[y][s] # inner
                    BY <1>10, <1>17, <5>2
                <5>4. QED
                    BY <1>4, <5>1, <5>2, <5>3 DEF TurnedTo
            <4>3. QED
                BY <4>1, <4>2
        <3>4. QED
            BY <2>1, <2>2, <2>5, <3>1, <3>2, <3>3
    <2>7. y # top => g[y].parent \in S /\ \E s \in Sides : g[g[y].parent][s] = y
        <3> SUFFICES ASSUME y # top PROVE g[y].parent \in S /\ \E s \in Sides : g[g[y].parent][s] = y
            OBVIOUS
        <3>1. y # root
            BY <1>17
        <3> DEFINE q == h[y].parent
                   sq == SideOf(h, q, y)
        <3>2. q \in S /\ sq \in Sides /\ h[q][sq] = y /\ q \in Nodes /\ q # NULL
            BY <3>1, ParentFacts, SideOfTyped
        <3>3. CASE y = inner
            BY <1>1, <1>4, <2>1, <3>3 DEF TurnedTo, other
        <3>4. CASE y # inner
            <4>1. g[y].parent = q
                BY <1>4, <1>17, <2>1, <3>4 DEF TurnedTo
            <4> HIDE DEF q, sq
            <4>2. CASE q = n
                <5>1. sq = side \/ sq = other
                    BY <1>1, <3>2
                <5>2. y = a
                    BY <1>17, <3>2, <4>2, <5>1 DEF a, new
                <5>3. g[n][side] = y
                    BY <1>4, <5>2 DEF TurnedTo
                <5>4. QED
                    BY <3>2, <4>1, <4>2, <5>3
            <4>3. CASE q = new
                <5>1. sq = side \/ sq = other
                    BY <1>1, <3>2
                <5>2. y = b
                    BY <3>2, <3>4, <4>3, <5>1 DEF b, inner
                <5>3. g[new][other] = y
                    BY <1>4, <5>2 DEF TurnedTo, other
                <5>4. QED
                    BY <1>1, <3>2, <4>1, <4>3, <5>3
            <4>4. CASE q # n /\ q # new
                <5>1. g[q][sq] = y
                    <6>1. CASE q = p
                        <7>1. p # NULL /\ n # root
                            BY <1>11, <3>2, <6>1
                        <7>2. sq # sp
                            BY <1>12, <1>17, <3>2, <6>1, <7>1
                        <7>3. sq = Other(sp)
                            BY <1>12, <3>2, <7>1, <7>2, OtherSide
                        <7>4. g[p][Other(sp)] = h[p][Other(sp)]
                            BY <1>4, <7>1 DEF TurnedTo, sp
                        <7>5. QED
                            BY <3>2, <6>1, <7>3, <7>4
                    <6>2. CASE q # p
                        BY <1>4, <3>2, <4>4, <6>2 DEF TurnedTo, SameLinks
                    <6>3. QED
                        BY <6>1, <6>2
                <5>2. QED
                    BY <3>2, <4>1, <5>1
            <4>5. QED
                BY <4>2, <4>3, <4>4
        <3>5. QED
            BY <3>3, <3>4
    <2>8. QED
        BY <2>6, <2>7 DEF NodeOK
<1>18. g \in Heap
    BY <1>4 DEF TurnedTo
<1>19. Tree(g, T2, S, top, before)
    BY <1>2, <1>13, <1>14, <1>15, <1>16, <1>17, <1>18 DEF Tree
<1>20. QED
    BY <1>3, <1>13, <1>19 DEF g, T2, a, inner, new, other
------------------------------------------------------------------------------
(* Depths, sizes and balance.                                              *)

Close(a, b) == a <= b + 1 /\ b <= a + 1

\* A node knows its depth and size from its children, and is balanced.
KeptOn(h, x, side) ==
    LET l == h[x][side]
        r == h[x][Other(side)]
    IN  /\ h[x].depth = 1 + Deeper(Depth(h, l), Depth(h, r))
        /\ Close(Depth(h, l), Depth(h, r))
        /\ h[x].count = 1 + Count(h, l) + Count(h, r)

Kept(h, x) == KeptOn(h, x, "left")

\* The greater of two depths.
LEMMA DeeperIs ==
    ASSUME NEW a \in Nat, NEW b \in Nat
    PROVE  /\ Deeper(a, b) \in Nat /\ Deeper(a, b) = Deeper(b, a)
           /\ a <= Deeper(a, b) /\ b <= Deeper(a, b)
           /\ Deeper(a, b) = a \/ Deeper(a, b) = b
BY DEF Deeper

\* Kept can be said from either side.
LEMMA KeptSides ==
    ASSUME NEW h \in Heap, NEW x \in Nodes, NEW side \in Sides
    PROVE  Kept(h, x) <=> KeptOn(h, x, side)
<1>1. CASE side = "left"
    BY <1>1 DEF Kept
<1>2. CASE side = "right"
    <2> DEFINE l == h[x]["left"]
               r == h[x]["right"]
    <2>1. /\ Depth(h, l) \in Nat /\ Depth(h, r) \in Nat
          /\ Count(h, l) \in Nat /\ Count(h, r) \in Nat
        BY HeapTyped, DepthTyped DEF Sides
    <2>2. Other("left") = "right" /\ Other("right") = "left"
        BY DEF Other
    <2> HIDE DEF l, r
    <2>3. Deeper(Depth(h, l), Depth(h, r)) = Deeper(Depth(h, r), Depth(h, l))
        BY <2>1, DeeperIs
    <2>4. 1 + Count(h, l) + Count(h, r) = 1 + Count(h, r) + Count(h, l)
        BY <2>1
    <2>5. QED
        BY <1>2, <2>2, <2>3, <2>4 DEF Kept, KeptOn, Close, l, r
<1>3. QED
    BY <1>1, <1>2 DEF Sides

\* A node is as well kept in another heap with the same links and sizes.
LEMMA KeptSame ==
    ASSUME NEW h \in Heap, NEW g \in Heap, NEW x \in Nodes,
           SameLinks(g, h, x), SameSizes(g, h, x),
           \A s \in Sides : h[x][s] # NULL => SameSizes(g, h, h[x][s])
    PROVE  Kept(h, x) <=> Kept(g, x)
<1> DEFINE l == h[x]["left"]
           r == h[x]["right"]
<1>1. l \in Ptr /\ r \in Ptr /\ g[x]["left"] = l /\ g[x]["right"] = r
    BY HeapTyped DEF Sides, SameLinks
<1>2. (l # NULL => SameSizes(g, h, l)) /\ (r # NULL => SameSizes(g, h, r))
    BY DEF Sides
<1> HIDE DEF l, r
<1>3. /\ Depth(g, l) = Depth(h, l) /\ Count(g, l) = Count(h, l)
      /\ Depth(g, r) = Depth(h, r) /\ Count(g, r) = Count(h, r)
    BY <1>1, <1>2, DepthSame
<1>4. g[x].depth = h[x].depth /\ g[x].count = h[x].count
    BY DEF SameSizes
<1>5. Other("left") = "right"
    BY DEF Other
<1>6. QED
    BY <1>1, <1>3, <1>4, <1>5 DEF Kept, KeptOn, l, r

\* A rotation keeps the other nodes well kept, and the two that it turns if the
\* depths it brings together are close.
LEMMA TurnKeeps ==
    ASSUME NEW h, NEW T, NEW S, NEW root, NEW before, Tree(h, T, S, root, before),
           NEW n \in S, NEW side \in Sides, h[n][Other(side)] # NULL,
           NEW g, Turned(h, g, n, side)
    PROVE  LET new == h[n][Other(side)]
               inner == h[new][side]
               b == h[new][Other(side)]
               a == h[n][side]
           IN  /\ \A y \in S : y # n /\ y # new /\ y # h[n].parent /\ Kept(h, y) => Kept(g, y)
               /\ Close(Depth(h, a), Depth(h, inner)) => Kept(g, n)
               /\ g[n].depth = 1 + Deeper(Depth(h, a), Depth(h, inner))
               /\ Close(g[n].depth, Depth(h, b)) => Kept(g, new)
               /\ g[new].depth = 1 + Deeper(g[n].depth, Depth(h, b))
<1> DEFINE other == Other(side)
           new == h[n][other]
           inner == h[new][side]
           b == h[new][other]
           a == h[n][side]
           p == h[n].parent
<1>1. other \in Sides /\ Other(other) = side /\ \A s \in Sides : s = side \/ s = other
    BY OtherSide
<1>2. h \in Heap /\ S \subseteq Nodes /\ n \in Nodes
    BY DEF Tree
<1>3. Apart(h, n, side)
    BY TreeApart
<1>4. /\ new \in Nodes /\ new # n /\ inner \in Ptr /\ inner # n /\ inner # new
      /\ p \in Ptr /\ p # n /\ p # new /\ (p # NULL => p # inner)
      /\ a \in Ptr /\ a # n /\ a # new /\ b \in Ptr /\ b # n /\ b # new
    BY <1>3 DEF Apart
<1>5. TurnedTo(h, g, n, side, new, inner, p, a, b)
    BY DEF Turned
<1>6. h[new].parent = n /\ new \in S
    <2>1. NodeOK(h, T, S, root, before, n)
        BY DEF Tree
    <2>2. h[n][other] # NULL
        OBVIOUS
    <2> HIDE DEF other
    <2>3. QED
        BY <1>1, <1>4, <2>1, <2>2, NodesAssumption DEF NodeOK
<1> HIDE DEF other, new, inner, b, a, p
<1>7. ASSUME NEW y \in S, y # n, y # new, y # p, Kept(h, y) PROVE Kept(g, y)
    <2>1. y \in Nodes /\ g \in Heap /\ SameLinks(g, h, y) /\ SameSizes(g, h, y)
        BY <1>2, <1>5, <1>7 DEF TurnedTo
    <2>2. ASSUME NEW s \in Sides, h[y][s] # NULL PROVE SameSizes(g, h, h[y][s])
        <3>1. h[y][s] \in Nodes /\ h[h[y][s]].parent = y
            BY <1>2, <2>2 DEF Tree, NodeOK
        <3>2. h[y][s] # n /\ h[y][s] # new
            BY <1>6, <1>7, <3>1 DEF p
        <3>3. QED
            BY <1>5, <3>1, <3>2 DEF TurnedTo
    <2>3. QED
        BY <1>2, <1>7, <2>1, <2>2, KeptSame
<1>8. /\ g \in Heap /\ g[n][side] = a /\ g[n][other] = inner
      /\ g[new][side] = n /\ g[new][other] = b
      /\ \A y \in Nodes \ {n, new} : SameSizes(g, h, y)
      /\ g[n].depth = 1 + Deeper(Depth(h, a), Depth(h, inner))
      /\ g[n].count = 1 + Count(h, a) + Count(h, inner)
      /\ g[new].depth = 1 + Deeper(g[n].depth, Depth(h, b))
      /\ g[new].count = 1 + g[n].count + Count(h, b)
    BY <1>5 DEF TurnedTo, other
<1>9. ASSUME NEW x \in {a, b, inner}
      PROVE  Depth(g, x) = Depth(h, x) /\ Count(g, x) = Count(h, x)
    <2>1. x \in Ptr /\ x # n /\ x # new
        BY <1>4
    <2>2. QED
        BY <1>8, <2>1, DepthSame DEF Ptr
<1>10. Depth(g, n) = g[n].depth /\ Count(g, n) = g[n].count
    BY <1>2, NodesAssumption DEF Depth, Count
<1>11. Close(Depth(h, a), Depth(h, inner)) => Kept(g, n)
    <2>1. Close(Depth(h, a), Depth(h, inner)) => KeptOn(g, n, side)
        BY <1>8, <1>9 DEF KeptOn, other
    <2>2. QED
        BY <1>2, <1>8, <2>1, KeptSides
<1>12. Close(g[n].depth, Depth(h, b)) => Kept(g, new)
    <2>1. Close(g[n].depth, Depth(h, b)) => KeptOn(g, new, side)
        BY <1>8, <1>9, <1>10 DEF KeptOn, other
    <2>2. QED
        BY <1>4, <1>8, <2>1, KeptSides
<1>13. QED
    BY <1>7, <1>8, <1>11, <1>12 DEF a, b, inner, new, p, other

\* A node is its fields.
LEMMA NodeSame ==
    ASSUME NEW h \in Heap, NEW g \in Heap, NEW y \in Nodes,
           SameLinks(g, h, y), SameSizes(g, h, y), g[y].parent = h[y].parent
    PROVE  g[y] = h[y]
<1>1. /\ h[y] \in AVLNode /\ g[y] \in AVLNode
    BY DEF Heap
<1>2. /\ g[y].left = h[y].left /\ g[y].right = h[y].right
      /\ g[y].depth = h[y].depth /\ g[y].count = h[y].count
    BY DEF SameLinks, SameSizes, Sides
<1>3. QED
    BY <1>1, <1>2 DEF AVLNode

\* A tree is a tree in another heap where its nodes have the same links and parents.
LEMMA TreeSame ==
    ASSUME NEW h, NEW T, NEW S, NEW root, NEW before, Tree(h, T, S, root, before),
           NEW g \in Heap,
           \A y \in S : g[y].parent = h[y].parent /\ SameLinks(g, h, y)
    PROVE  Tree(g, T, S, root, before)
<1>1. \A y \in S, s \in Sides : g[y][s] = h[y][s]
    BY DEF SameLinks
<1>2. RootOK(g, T, S, root)
    BY DEF Tree, RootOK
<1>3. ASSUME NEW n \in S PROVE NodeOK(g, T, S, root, before, n)
    <2>1. NodeOK(h, T, S, root, before, n)
        BY DEF Tree
    <2>2. ASSUME NEW s \in Sides
          PROVE  /\ g[n][s] \in S \cup {NULL}
                 /\ g[n][s] # NULL => g[g[n][s]].parent = n
                 /\ \A x \in T[g[n][s]] : On(before, x, n, s)
                 /\ T[n] = T[g[n][s]] \cup {n} \cup T[g[n][Other(s)]]
        <3>1. Other(s) \in Sides
            BY OtherSide
        <3>2. g[n][s] = h[n][s] /\ g[n][Other(s)] = h[n][Other(s)]
            BY <1>1, <3>1
        <3>3. /\ h[n][s] \in S \cup {NULL}
              /\ h[n][s] # NULL => h[h[n][s]].parent = n
              /\ \A x \in T[h[n][s]] : On(before, x, n, s)
              /\ T[n] = T[h[n][s]] \cup {n} \cup T[h[n][Other(s)]]
            BY <2>1 DEF NodeOK
        <3>4. QED
            BY <3>2, <3>3
    <2>3. n # root => g[n].parent \in S /\ \E s \in Sides : g[g[n].parent][s] = n
        BY <1>1, <2>1 DEF NodeOK
    <2>4. QED
        BY <2>2, <2>3 DEF NodeOK
<1>4. QED
    BY <1>2, <1>3 DEF Tree

\* What a rotation leaves alone.
LEMMA TurnElsewhere ==
    ASSUME NEW h, NEW T, NEW S, NEW root, NEW before, Tree(h, T, S, root, before),
           NEW n \in S, NEW side \in Sides, h[n][Other(side)] # NULL,
           NEW g, Turned(h, g, n, side)
    PROVE  \A y \in Nodes : y \notin T[n] /\ y # h[n].parent => g[y] = h[y]
<1> DEFINE other == Other(side)
           new == h[n][other]
           inner == h[new][side]
           b == h[new][other]
           a == h[n][side]
           p == h[n].parent
<1> SUFFICES ASSUME NEW y \in Nodes, y \notin T[n], y # p PROVE g[y] = h[y]
    OBVIOUS
<1>1. other \in Sides
    BY OtherSide
<1>2. n \in T[n] /\ new \in T[n] /\ new \in S /\ T[new] \subseteq T[n]
    BY <1>1, Branches DEF Branch
<1>3. inner # NULL => inner \in T[n]
    <2> HIDE DEF new, inner
    <2>1. Branch(h, T, S, new, side)
        BY <1>2, Branches
    <2>2. QED
        BY <1>2, <2>1 DEF Branch, inner
<1>4. TurnedTo(h, g, n, side, new, inner, p, a, b)
    BY DEF Turned
<1> HIDE DEF new, inner, p, a, b, other
<1>5. y # n /\ y # new /\ y # inner
    BY <1>2, <1>3, NodesAssumption
<1>6. h \in Heap /\ g \in Heap
    BY <1>4 DEF Tree, TurnedTo
<1>7. SameLinks(g, h, y) /\ SameSizes(g, h, y) /\ g[y].parent = h[y].parent
    BY <1>4, <1>5 DEF TurnedTo
<1>8. QED
    BY <1>6, <1>7, NodeSame

\* The subtree of m has top in its place, and only m's parent remains stale.
Mended(h, g, T, T2, S, root, before, m, top) ==
    LET p == h[m].parent
        s == SideOf(h, p, m)
    IN  /\ Tree(g, T2, S, IF m = root THEN top ELSE root, before)
        /\ top \in S /\ T2[top] = T[m]
        /\ \A x \in S : x # p => Kept(g, x)
        /\ \A y \in Nodes : y \notin T[m] /\ y # p => g[y] = h[y]
        /\ m # root => /\ g[top].parent = p
                       /\ g[p][s] = top /\ g[p][Other(s)] = h[p][Other(s)]
                       /\ g[p].parent = h[p].parent /\ SameSizes(g, h, p)

\* All but m and its parent are well kept.
Stale(h, T, S, root, before, m) ==
    /\ Tree(h, T, S, root, before) /\ m \in S
    /\ \A x \in S : x # m /\ x # h[m].parent => Kept(h, x)

\* A single rotation.
LEMMA FixSingle ==
    ASSUME NEW h, NEW T, NEW S, NEW root, NEW before, NEW m, Stale(h, T, S, root, before, m),
           NEW deep \in Sides, NEW c, c = h[m][deep],
           Depth(h, c) = Depth(h, h[m][Other(deep)]) + 2,
           ~(Depth(h, h[c][deep]) < Depth(h, h[c][Other(deep)]))
    PROVE  LET g == Turn(h, m, Other(deep))
           IN  /\ \E T2 : Mended(h, g, T, T2, S, root, before, m, c)
               /\ g[c].depth \in {Depth(h, c), Depth(h, c) + 1}
<1> DEFINE other == Other(deep)
           q == h[m][other]
           b == h[c][deep]
           i == h[c][other]
           g == Turn(h, m, other)
           p == h[m].parent
           s == SideOf(h, p, m)
<1>1. Tree(h, T, S, root, before) /\ m \in S /\ h \in Heap /\ m \in Nodes
    BY DEF Stale, Tree
<1>2. other \in Sides /\ Other(other) = deep
    BY OtherSide
<1>3. q \in Ptr /\ Depth(h, q) \in Nat
    BY <1>1, <1>2, HeapTyped, DepthTyped
<1>4. c # NULL /\ c \in S /\ c \in T[m] /\ c \in Nodes
    <2>1. Branch(h, T, S, m, deep)
        BY <1>1, Branches
    <2>2. c # NULL
        BY <1>3 DEF Depth
    <2>3. QED
        BY <1>1, <2>1, <2>2 DEF Branch, Tree
<1>5. b \in Ptr /\ i \in Ptr /\ Depth(h, b) \in Nat /\ Depth(h, i) \in Nat /\ Depth(h, c) = h[c].depth
    BY <1>1, <1>2, <1>4, HeapTyped, DepthTyped DEF Depth
<1>6. p \notin T[m] /\ p # c
    <2>1. p # NULL => p \notin T[m]
        BY <1>1, RootFacts, ParentFacts
    <2>2. T[m] \subseteq Nodes
        BY <1>1, HeapTyped DEF Tree, Ptr
    <2>3. QED
        BY <1>4, <2>1, <2>2, NodesAssumption
<1>7. KeptOn(h, c, deep)
    <2>1. Branch(h, T, S, m, deep)
        BY <1>1, Branches
    <2>2. c # m /\ c # p
        BY <1>1, <1>4, <1>6, <2>1 DEF Branch
    <2>3. Kept(h, c)
        BY <1>4, <2>2 DEF Stale
    <2>4. QED
        BY <1>1, <1>4, <2>3, KeptSides
<1>8. Turned(h, g, m, other) /\ \E T2 : Tree(g, T2, S, IF m = root THEN c ELSE root, before) /\ T2[c] = T[m]
    <2>1. h[m][Other(other)] = c
        BY <1>2
    <2> HIDE DEF other
    <2>2. QED
        BY <1>1, <1>2, <1>4, <2>1, TurnTree
<1>9. /\ \A y \in S : y # m /\ y # c /\ y # p /\ Kept(h, y) => Kept(g, y)
      /\ Close(Depth(h, q), Depth(h, i)) => Kept(g, m)
      /\ g[m].depth = 1 + Deeper(Depth(h, q), Depth(h, i))
      /\ Close(g[m].depth, Depth(h, b)) => Kept(g, c)
      /\ g[c].depth = 1 + Deeper(g[m].depth, Depth(h, b))
    <2>1. h[m][Other(other)] = c /\ h[c][Other(other)] = b /\ h[c][other] = i /\ h[m][other] = q
        BY <1>2
    <2> HIDE DEF g, q, b, i, other
    <2>2. QED
        BY <1>1, <1>2, <1>4, <1>8, <2>1, TurnKeeps
<1> HIDE DEF g, q, b, i, p, s
<1>10. /\ Depth(h, i) <= Depth(h, b) /\ Depth(h, b) = Depth(h, q) + 1
       /\ Depth(h, i) \in {Depth(h, q), Depth(h, q) + 1}
    <2>1. /\ Depth(h, c) = 1 + Deeper(Depth(h, b), Depth(h, i))
          /\ Close(Depth(h, b), Depth(h, i)) /\ ~(Depth(h, b) < Depth(h, i))
          /\ Depth(h, c) = Depth(h, q) + 2
        BY <1>5, <1>7 DEF KeptOn, b, i, q
    <2>2. QED
        BY <1>3, <1>5, <2>1 DEF Close, Deeper
<1>11. /\ g[m].depth = 1 + Depth(h, i) /\ g[c].depth = 2 + Depth(h, i)
       /\ Close(Depth(h, q), Depth(h, i)) /\ Close(g[m].depth, Depth(h, b))
    BY <1>3, <1>5, <1>9, <1>10 DEF Close, Deeper
<1>12. g[c].depth \in {Depth(h, c), Depth(h, c) + 1}
    BY <1>3, <1>5, <1>10, <1>11 DEF q
<1>13. ASSUME NEW x \in S, x # p PROVE Kept(g, x)
    BY <1>9, <1>11, <1>13 DEF Stale, p
<1>14. \A y \in Nodes : y \notin T[m] /\ y # p => g[y] = h[y]
    <2>1. h[m][Other(other)] # NULL
        BY <1>2, <1>4
    <2> HIDE DEF other
    <2>2. QED
        BY <1>1, <1>2, <1>8, <2>1, TurnElsewhere DEF p
<1>15. m # root => /\ g[c].parent = p
                   /\ g[p][s] = c /\ g[p][Other(s)] = h[p][Other(s)]
                   /\ g[p].parent = h[p].parent /\ SameSizes(g, h, p)
    <2> SUFFICES ASSUME m # root
                 PROVE  /\ g[c].parent = p
                        /\ g[p][s] = c /\ g[p][Other(s)] = h[p][Other(s)]
                        /\ g[p].parent = h[p].parent /\ SameSizes(g, h, p)
        OBVIOUS
    <2>1. p \in Nodes /\ p # NULL /\ p # m
        BY <1>1, ParentFacts DEF p
    <2>2. h[m][Other(other)] = c /\ h[c][other] = i
        BY <1>2 DEF i
    <2>3. p # i
        <3>1. Branch(h, T, S, c, other) /\ Branch(h, T, S, m, deep)
            BY <1>1, <1>2, <1>4, Branches
        <3>2. QED
            BY <1>4, <1>6, <2>1, <3>1 DEF Branch, i
    <2>4. PICK a, b1 : TurnedTo(h, g, m, other, c, i, p, a, b1)
        BY <1>8, <2>2 DEF Turned, p
    <2>5. QED
        BY <1>6, <2>1, <2>3, <2>4 DEF TurnedTo, s
<1>16. PICK T2 : Tree(g, T2, S, IF m = root THEN c ELSE root, before) /\ T2[c] = T[m]
    BY <1>8
<1>17. Mended(h, g, T, T2, S, root, before, m, c)
    BY <1>4, <1>13, <1>14, <1>15, <1>16 DEF Mended, p, s
<1>18. QED
    BY <1>12, <1>17 DEF g
------------------------------------------------------------------------------
(* fixLeft() and fixRight().                                               *)

\* The first of two rotations, of a child that is bent.
LEMMA Unbend ==
    ASSUME NEW h, NEW T, NEW S, NEW root, NEW before, NEW m, Stale(h, T, S, root, before, m),
           NEW deep \in Sides, NEW c, c = h[m][deep],
           NEW i, i = h[c][Other(deep)],
           Depth(h, c) = Depth(h, h[m][Other(deep)]) + 2,
           Depth(h, h[c][deep]) < Depth(h, i)
    PROVE  LET k == Turn(h, c, deep)
               p == h[m].parent
               q == h[m][Other(deep)]
           IN  /\ i # NULL /\ i \in T[m]
               /\ \E T1 : Tree(k, T1, S, root, before) /\ T1[m] = T[m]
               /\ Rotate(h, c, deep).top = i /\ SideOf(h, m, c) = deep /\ h[c].parent = m
               /\ k[m][deep] = i /\ k[m][Other(deep)] = q /\ k[m].parent = p
               /\ k[i][deep] = c
               /\ Depth(k, q) = Depth(h, q) /\ Depth(k, c) = Depth(h, q) + 1
               /\ Close(Depth(h, q), Depth(k, k[i][Other(deep)]))
               /\ Depth(k, k[i][Other(deep)]) <= Depth(h, q)
               /\ Depth(h, c) = Depth(h, q) + 2
               /\ \A x \in S : x # m /\ x # p /\ x # i => Kept(k, x)
               /\ \A y \in Nodes : y \notin T[m] => k[y] = h[y]
<1> DEFINE other == Other(deep)
           q == h[m][other]
           b == h[c][deep]
           j == h[i][deep]
           o == h[i][other]
           k == Turn(h, c, deep)
           p == h[m].parent
<1>1. Tree(h, T, S, root, before) /\ m \in S /\ h \in Heap /\ m \in Nodes
    BY DEF Stale, Tree
<1>2. other \in Sides /\ Other(other) = deep
    BY OtherSide
<1>3. q \in Ptr /\ Depth(h, q) \in Nat
    BY <1>1, <1>2, HeapTyped, DepthTyped
<1>4. c # NULL /\ c \in S /\ c \in T[m] /\ c \in Nodes /\ c # m /\ T[c] \subseteq T[m]
      /\ m \notin T[c] /\ q \notin T[c] /\ h[c].parent = m /\ q # m /\ c \in T[c]
    <2>1. Branch(h, T, S, m, deep) /\ Branch(h, T, S, m, other)
        BY <1>1, <1>2, Branches
    <2>2. c # NULL
        BY <1>3 DEF Depth
    <2>3. NodeOK(h, T, S, root, before, m) /\ h[m][deep] # NULL
        BY <1>1, <2>2 DEF Tree
    <2>4. h[c].parent = m
        BY <2>3 DEF NodeOK
    <2>5. c \in S /\ c \in T[m] /\ c \in Nodes /\ c # m /\ T[c] \subseteq T[m] /\ m \notin T[c] /\ c \in T[c]
        BY <1>1, <2>1, <2>2 DEF Branch, Tree
    <2>6. q # m
        BY <2>1 DEF Branch
    <2>7. q \notin T[c]
        <3>1. q = NULL \/ q \in T[q]
            BY <2>1 DEF Branch
        <3>2. T[c] \cap T[q] = {}
            BY <2>1 DEF Branch
        <3>3. T[c] \subseteq Nodes
            BY <1>1, <2>5 DEF Tree, Ptr
        <3>4. QED
            BY <3>1, <3>2, <3>3, NodesAssumption
    <2>8. QED
        BY <2>2, <2>4, <2>5, <2>6, <2>7
<1>5. b \in Ptr /\ i \in Ptr /\ Depth(h, b) \in Nat /\ Depth(h, i) \in Nat /\ Depth(h, c) = h[c].depth
    BY <1>1, <1>2, <1>4, HeapTyped, DepthTyped DEF Depth
<1>6. p \notin T[m] /\ p # c /\ p # m
    <2>1. p # NULL => p \notin T[m] /\ p # m
        BY <1>1, RootFacts, ParentFacts
    <2>2. T[m] \subseteq Nodes
        BY <1>1, HeapTyped DEF Tree, Ptr
    <2>3. QED
        BY <1>1, <1>4, <2>1, <2>2, NodesAssumption
<1>7. Kept(h, c) /\ KeptOn(h, c, deep)
    <2>1. Kept(h, c)
        BY <1>4, <1>6 DEF Stale
    <2>2. QED
        BY <1>1, <1>4, <2>1, KeptSides
<1>8. i # NULL /\ i \in S /\ i \in Nodes /\ i \in T[c] /\ i # c /\ i # b
    <2>1. Branch(h, T, S, c, deep) /\ Branch(h, T, S, c, other)
        BY <1>1, <1>2, <1>4, Branches
    <2>2. i # NULL
        BY <1>5 DEF Depth
    <2>3. i \in S /\ i \in T[i] /\ c \notin T[i] /\ T[b] \cap T[i] = {} /\ T[i] \subseteq T[c]
        BY <2>1, <2>2 DEF Branch
    <2>4. b = NULL \/ b \in T[b]
        BY <2>1 DEF Branch
    <2>5. QED
        BY <1>1, <2>2, <2>3, <2>4 DEF Tree
<1>9. KeptOn(h, i, deep)
    <2>1. i # m /\ i # p
        BY <1>4, <1>6, <1>8
    <2>2. Kept(h, i)
        BY <1>8, <2>1 DEF Stale
    <2>3. QED
        BY <1>1, <1>8, <2>2, KeptSides
<1>10. /\ j \in Ptr /\ o \in Ptr /\ Depth(h, j) \in Nat /\ Depth(h, o) \in Nat
       /\ Depth(h, i) = h[i].depth
    BY <1>1, <1>2, <1>8, HeapTyped, DepthTyped DEF Depth
<1>11. Turned(h, k, c, deep) /\ Rotate(h, c, deep).top = i
       /\ \E T1 : Tree(k, T1, S, root, before) /\ T1[m] = T[m]
    <2>1. h[c][Other(deep)] # NULL
        BY <1>8
    <2> DEFINE T1 == TurnSets(T, c, i, b, j)
    <2>2. c # root
        BY <1>1, <1>4, RootFacts, NodesAssumption
    <2>3. Turned(h, k, c, deep) /\ Rotate(h, c, deep).top = i
          /\ Tree(k, T1, S, IF c = root THEN i ELSE root, before)
        <3> HIDE DEF k
        <3>1. QED
            BY <1>1, <1>4, <2>1, TurnTree DEF k
    <2>4. T1[m] = T[m]
        <3>1. m # c /\ m # i
            BY <1>4, <1>8
        <3>2. T \in [Ptr -> SUBSET S] /\ m \in Ptr
            BY <1>1 DEF Tree, Ptr
        <3>3. QED
            BY <3>1, <3>2 DEF TurnSets
    <2> HIDE DEF T1, k
    <2>5. QED
        BY <2>2, <2>3, <2>4
<1>12. TurnedTo(h, k, c, deep, i, j, m, b, o)
    BY <1>4, <1>11 DEF Turned
<1>13. /\ \A y \in S : y # c /\ y # i /\ y # m /\ Kept(h, y) => Kept(k, y)
       /\ Close(Depth(h, b), Depth(h, j)) => Kept(k, c)
       /\ k[c].depth = 1 + Deeper(Depth(h, b), Depth(h, j))
    <2>1. h[c][Other(deep)] # NULL
        BY <1>8
    <2> HIDE DEF k
    <2>2. QED
        BY <1>1, <1>4, <1>11, <2>1, TurnKeeps
<1>14. \A y \in Nodes : y \notin T[c] /\ y # m => k[y] = h[y]
    <2>1. h[c][Other(deep)] # NULL
        BY <1>8
    <2> HIDE DEF k
    <2>2. QED
        BY <1>1, <1>4, <1>11, <2>1, TurnElsewhere
<1>15. SideOf(h, m, c) = deep
    <2>1. c # root
        BY <1>1, <1>4, RootFacts, NodesAssumption
    <2>2. h[m][SideOf(h, m, c)] = c /\ h[m][Other(SideOf(h, m, c))] # c /\ SideOf(h, m, c) \in Sides
        BY <1>1, <1>4, <2>1, ParentFacts, SideOfTyped
    <2> DEFINE s == SideOf(h, m, c)
    <2>3. s \in Sides /\ h[m][Other(s)] # c
        BY <2>2
    <2> HIDE DEF s
    <2>4. deep = s \/ deep = Other(s)
        BY <2>3, OtherSide
    <2>5. QED
        BY <2>3, <2>4 DEF s
<1> HIDE DEF k, q, b, j, o, p, other
<1>16. /\ k[m][deep] = i /\ k[m][other] = q /\ k[m].parent = p /\ k[i][deep] = c /\ k[i][other] = o
    <2>1. m # NULL
        BY <1>1, NodesAssumption
    <2>2. k[m].parent = h[m].parent
        <3>1. m # i /\ m # c /\ m # j
            <4>1. Apart(h, c, deep)
                BY <1>1, <1>4, <1>8, TreeApart
            <4>2. QED
                BY <1>4, <1>8, <2>1, <4>1 DEF Apart, j
        <3>2. QED
            BY <1>1, <1>12, <3>1 DEF TurnedTo
    <2>3. QED
        BY <1>12, <1>15, <2>1, <2>2 DEF TurnedTo, p, q, other
<1>17. Depth(k, q) = Depth(h, q)
    <2>1. q # NULL => q \in Nodes /\ k[q] = h[q]
        BY <1>3, <1>4, <1>14 DEF Ptr
    <2>2. QED
        BY <2>1 DEF Depth
<1>18. Depth(k, o) = Depth(h, o)
    <2>1. o # c /\ o # i
        <3>1. Branch(h, T, S, i, other) /\ Branch(h, T, S, c, other)
            BY <1>1, <1>2, <1>4, <1>8, Branches
        <3>2. o # NULL => o \in T[i]
            BY <3>1 DEF Branch, o
        <3>3. c \notin T[i]
            BY <3>1 DEF Branch, other
        <3>4. QED
            BY <1>4, <1>8, <3>1, <3>2, <3>3 DEF Branch, o
    <2>2. o # NULL => SameSizes(k, h, o)
        BY <1>10, <1>12, <2>1 DEF TurnedTo, Ptr
    <2>3. QED
        BY <1>10, <2>2, DepthSame
<1>19. /\ Depth(h, i) = Depth(h, q) + 1 /\ Depth(h, b) = Depth(h, q)
       /\ Depth(h, c) = Depth(h, q) + 2
       /\ Depth(h, j) <= Depth(h, q) /\ Depth(h, q) <= Depth(h, j) + 1
       /\ Depth(h, o) <= Depth(h, q) /\ Depth(h, q) <= Depth(h, o) + 1
    <2>1. /\ Depth(h, c) = 1 + Deeper(Depth(h, b), Depth(h, i))
          /\ Close(Depth(h, b), Depth(h, i)) /\ Depth(h, b) < Depth(h, i)
          /\ Depth(h, c) = Depth(h, q) + 2
        BY <1>5, <1>7 DEF KeptOn, b, q, other
    <2>2. /\ Depth(h, i) = 1 + Deeper(Depth(h, j), Depth(h, o))
          /\ Close(Depth(h, j), Depth(h, o))
        BY <1>9, <1>10 DEF KeptOn, j, o, other
    <2>3. QED
        BY <1>3, <1>5, <1>10, <2>1, <2>2 DEF Close, Deeper
<1>20. k[c].depth = Depth(h, q) + 1 /\ Kept(k, c) /\ Depth(k, c) = k[c].depth
    BY <1>3, <1>4, <1>5, <1>10, <1>13, <1>19 DEF Close, Deeper, Depth
<1>21. Close(Depth(h, q), Depth(k, o)) /\ Depth(k, o) <= Depth(h, q)
    BY <1>3, <1>10, <1>18, <1>19 DEF Close
<1>22. \A x \in S : x # m /\ x # p /\ x # i => Kept(k, x)
    BY <1>13, <1>20 DEF Stale, p
<1>23. \A y \in Nodes : y \notin T[m] => k[y] = h[y]
    <2>1. m \in T[m]
        BY <1>1, Branches DEF Branch
    <2>2. QED
        BY <1>4, <1>14, <2>1
<1>24. i \in T[m]
    BY <1>4, <1>8
<1>25. QED
    BY <1>4, <1>8, <1>11, <1>15, <1>16, <1>17, <1>19, <1>20, <1>21, <1>22, <1>23, <1>24
    DEF k, p, q, other

\* A double rotation.
LEMMA FixDouble ==
    ASSUME NEW h, NEW T, NEW S, NEW root, NEW before, NEW m, Stale(h, T, S, root, before, m),
           NEW deep \in Sides, NEW c, c = h[m][deep],
           NEW i, i = h[c][Other(deep)],
           Depth(h, c) = Depth(h, h[m][Other(deep)]) + 2,
           Depth(h, h[c][deep]) < Depth(h, i)
    PROVE  LET g == Turn(Turn(h, c, deep), m, Other(deep))
           IN  /\ \E T2 : Mended(h, g, T, T2, S, root, before, m, i)
               /\ g[i].depth = Depth(h, c)
<1> DEFINE other == Other(deep)
           q == h[m][other]
           k == Turn(h, c, deep)
           o == k[i][other]
           g == Turn(k, m, other)
           p == h[m].parent
           s == SideOf(h, p, m)
<1>1. Tree(h, T, S, root, before) /\ m \in S /\ h \in Heap /\ m \in Nodes
    BY DEF Stale, Tree
<1>2. other \in Sides /\ Other(other) = deep
    BY OtherSide
<1>3. /\ i # NULL /\ i \in T[m]
      /\ \E T1 : Tree(k, T1, S, root, before) /\ T1[m] = T[m]
      /\ k[m][deep] = i /\ k[m][other] = q /\ k[m].parent = p
      /\ k[i][deep] = c
      /\ Depth(k, q) = Depth(h, q) /\ Depth(k, c) = Depth(h, q) + 1
      /\ Close(Depth(h, q), Depth(k, o)) /\ Depth(k, o) <= Depth(h, q)
      /\ Depth(h, c) = Depth(h, q) + 2
      /\ \A x \in S : x # m /\ x # p /\ x # i => Kept(k, x)
      /\ \A y \in Nodes : y \notin T[m] => k[y] = h[y]
    BY Unbend
<1> HIDE DEF k, other, o, q
<1>4. PICK T1 : Tree(k, T1, S, root, before) /\ T1[m] = T[m]
    BY <1>3
<1>5. k \in Heap /\ i \in Nodes /\ i \in S /\ q \in Ptr /\ o \in Ptr
      /\ Depth(h, q) \in Nat /\ Depth(k, o) \in Nat
    <2>1. k \in Heap /\ i \in Nodes /\ i \in S
        BY <1>1, <1>3, <1>4 DEF Tree, Ptr
    <2>2. q \in Ptr /\ o \in Ptr
        BY <1>1, <1>2, <2>1, HeapTyped DEF q, o
    <2>3. QED
        BY <1>1, <2>1, <2>2, DepthTyped
<1>6. p \notin T[m] /\ p # m
    <2>1. p # NULL => p \notin T[m] /\ p # m
        BY <1>1, RootFacts, ParentFacts
    <2>2. T[m] \subseteq Nodes
        BY <1>1, HeapTyped DEF Tree, Ptr
    <2>3. QED
        BY <1>1, <2>1, <2>2, NodesAssumption
<1>7. k[m][Other(other)] = i /\ k[m][Other(other)] # NULL
    BY <1>2, <1>3
<1>8. Turned(k, g, m, other) /\ \E T2 : Tree(g, T2, S, IF m = root THEN i ELSE root, before) /\ T2[i] = T[m]
    BY <1>1, <1>2, <1>4, <1>7, TurnTree
<1> HIDE DEF g, p, s
<1>9. /\ \A y \in S : y # m /\ y # i /\ y # p /\ Kept(k, y) => Kept(g, y)
      /\ Close(Depth(k, q), Depth(k, o)) => Kept(g, m)
      /\ g[m].depth = 1 + Deeper(Depth(k, q), Depth(k, o))
      /\ Close(g[m].depth, Depth(k, c)) => Kept(g, i)
      /\ g[i].depth = 1 + Deeper(g[m].depth, Depth(k, c))
    <2>1. k[i][Other(other)] = c /\ k[i][other] = o /\ k[m][other] = q /\ k[m].parent = p
        BY <1>2, <1>3 DEF o
    <2>2. QED
        BY <1>1, <1>2, <1>4, <1>7, <1>8, <2>1, TurnKeeps
<1>10. /\ g[m].depth = 1 + Depth(h, q) /\ g[i].depth = 2 + Depth(h, q)
       /\ Close(Depth(k, q), Depth(k, o)) /\ Close(g[m].depth, Depth(k, c))
    BY <1>3, <1>5, <1>9 DEF Close, Deeper
<1>11. g[i].depth = Depth(h, c)
    BY <1>3, <1>5, <1>10
<1>12. ASSUME NEW x \in S, x # p PROVE Kept(g, x)
    BY <1>3, <1>9, <1>10, <1>12
<1>13. \A y \in Nodes : y \notin T[m] /\ y # p => g[y] = k[y]
    <2>1. \A y \in Nodes : y \notin T1[m] /\ y # k[m].parent => g[y] = k[y]
        BY <1>1, <1>2, <1>4, <1>7, <1>8, TurnElsewhere
    <2>2. QED
        BY <1>3, <1>4, <2>1
<1>14. \A y \in Nodes : y \notin T[m] /\ y # p => g[y] = h[y]
    BY <1>3, <1>13
<1>15. m # root => /\ g[i].parent = p
                   /\ g[p][s] = i /\ g[p][Other(s)] = h[p][Other(s)]
                   /\ g[p].parent = h[p].parent /\ SameSizes(g, h, p)
    <2> SUFFICES ASSUME m # root
                 PROVE  /\ g[i].parent = p
                        /\ g[p][s] = i /\ g[p][Other(s)] = h[p][Other(s)]
                        /\ g[p].parent = h[p].parent /\ SameSizes(g, h, p)
        OBVIOUS
    <2>1. p \in Nodes /\ p # NULL /\ p # m
        BY <1>1, ParentFacts DEF p
    <2>2. p # i /\ p # o
        <3>1. Branch(k, T1, S, i, other) /\ Branch(k, T1, S, m, deep)
            BY <1>1, <1>2, <1>4, <1>5, Branches
        <3>2. o # NULL => o \in T1[o]
            BY <3>1 DEF Branch, o
        <3>3. T1[o] \subseteq T1[i]
            BY <3>1 DEF Branch, o
        <3>4. T1[i] \subseteq T1[m]
            BY <1>3, <3>1 DEF Branch
        <3>5. QED
            BY <1>3, <1>4, <1>6, <2>1, <3>2, <3>3, <3>4
    <2>3. PICK a, b1 : TurnedTo(k, g, m, other, i, o, p, a, b1)
        BY <1>3, <1>7, <1>8 DEF Turned, o
    <2>4. k[p] = h[p]
        BY <1>3, <1>6, <2>1
    <2>5. SideOf(k, p, m) = s
        BY <2>4 DEF SideOf, s
    <2>6. QED
        BY <2>1, <2>2, <2>3, <2>4, <2>5 DEF TurnedTo, SameSizes
<1>16. PICK T2 : Tree(g, T2, S, IF m = root THEN i ELSE root, before) /\ T2[i] = T[m]
    BY <1>8
<1>17. Mended(h, g, T, T2, S, root, before, m, i)
    BY <1>5, <1>12, <1>14, <1>15, <1>16 DEF Mended, p, s
<1>18. QED
    BY <1>11, <1>17 DEF g, k, other

\* No rotation.
LEMMA FixNothing ==
    ASSUME NEW h, NEW T, NEW S, NEW root, NEW before, NEW m, Stale(h, T, S, root, before, m),
           Kept(h, m)
    PROVE  Mended(h, h, T, T, S, root, before, m, m)
<1>1. Tree(h, T, S, root, before) /\ m \in S
    BY DEF Stale
<1>2. \A x \in S : x # h[m].parent => Kept(h, x)
    BY DEF Stale
<1>3. m # root => h[h[m].parent][SideOf(h, h[m].parent, m)] = m
    BY <1>1, ParentFacts
<1>4. QED
    BY <1>1, <1>2, <1>3 DEF Mended, SameSizes
------------------------------------------------------------------------------
(* fixAVL(), round by round.                                               *)

\* The depths l and r of a node's subtrees, and its depth before they changed.
Near(l, r, d) ==
    \/ Close(l, r) /\ Close(1 + Deeper(l, r), d)
    \/ l = r + 2 /\ d \in {l, l + 1}
    \/ r = l + 2 /\ d \in {r, r + 1}

\* The depth of p is right for a subtree of depth d in the place of m.
Hangs(h, p, m, d) ==
    LET q == Depth(h, h[p][Other(SideOf(h, p, m))])
    IN  h[p].depth = 1 + Deeper(d, q) /\ Close(d, q)

\* fixAVL() has come to m, whose subtree had depth d before.
Climbs(h, T, S, root, before, m, d) ==
    /\ Stale(h, T, S, root, before, m) /\ d \in Nat
    /\ Near(Depth(h, h[m].left), Depth(h, h[m].right), d)
    /\ m # root => Hangs(h, h[m].parent, m, d)

UpdatedTo(h, u, T, S, root, before, m) ==
    /\ Stale(u, T, S, root, before, m)
    /\ u[m].parent = h[m].parent /\ SameLinks(u, h, m)
    /\ u[m].left = h[m].left /\ u[m].right = h[m].right
    /\ \A y \in Nodes \ {m} : u[y] = h[y]
    /\ \A s \in Sides : Depth(u, h[m][s]) = Depth(h, h[m][s])
    /\ Close(Depth(h, h[m].left), Depth(h, h[m].right)) => Kept(u, m)
    /\ u[m].depth = 1 + Deeper(Depth(h, h[m].left), Depth(h, h[m].right))

\* update() of the node that the climb has come to.
LEMMA UpdateStale ==
    ASSUME NEW h, NEW T, NEW S, NEW root, NEW before, NEW m, Stale(h, T, S, root, before, m),
           NEW u, u = Update(h, m)
    PROVE  UpdatedTo(h, u, T, S, root, before, m)
<1>1. Tree(h, T, S, root, before) /\ m \in S /\ h \in Heap /\ m \in Nodes /\ S \subseteq Nodes
    BY DEF Stale, Tree
<1>2. "left" \in Sides /\ Other("left") = "right" /\ "right" \in Sides
    BY DEF Sides, Other
<1>3. /\ u \in Heap
      /\ u[m].depth = 1 + Deeper(Depth(h, h[m]["left"]), Depth(h, h[m]["right"]))
      /\ u[m].count = 1 + Count(h, h[m]["left"]) + Count(h, h[m]["right"])
      /\ \A y \in Nodes \ {m} : u[y] = h[y]
      /\ \A y \in Nodes : u[y].parent = h[y].parent /\ SameLinks(u, h, y)
    <2>1. /\ u \in Heap
          /\ u[m].depth = 1 + Deeper(Depth(h, h[m]["left"]), Depth(h, h[m][Other("left")]))
          /\ u[m].count = 1 + Count(h, h[m]["left"]) + Count(h, h[m][Other("left")])
          /\ \A y \in Nodes \ {m} : u[y] = h[y]
          /\ \A y \in Nodes : u[y].parent = h[y].parent /\ SameLinks(u, h, y)
        BY <1>1, <1>2, Updated
    <2>2. QED
        BY <1>2, <2>1
<1>4. Tree(u, T, S, root, before)
    BY <1>1, <1>3, TreeSame
<1>5. \A s \in Sides : h[m][s] # m /\ h[m][s] \in Ptr
    <2> SUFFICES ASSUME NEW s \in Sides PROVE h[m][s] # m /\ h[m][s] \in Ptr
        OBVIOUS
    <2>1. Branch(h, T, S, m, s)
        BY <1>1, Branches
    <2>2. QED
        BY <2>1 DEF Branch
<1>6. \A s \in Sides : Depth(u, h[m][s]) = Depth(h, h[m][s]) /\ Count(u, h[m][s]) = Count(h, h[m][s])
    <2> SUFFICES ASSUME NEW s \in Sides
                 PROVE  Depth(u, h[m][s]) = Depth(h, h[m][s]) /\ Count(u, h[m][s]) = Count(h, h[m][s])
        OBVIOUS
    <2>1. h[m][s] # NULL => SameSizes(u, h, h[m][s])
        BY <1>3, <1>5 DEF Ptr, SameSizes
    <2>2. QED
        BY <1>5, <2>1, DepthSame
<1>7. /\ u[m].left = u[m]["left"] /\ u[m].right = u[m]["right"]
      /\ h[m].left = h[m]["left"] /\ h[m].right = h[m]["right"]
      /\ u[m]["left"] = h[m]["left"] /\ u[m]["right"] = h[m]["right"]
    BY <1>1, <1>2, <1>3, HeapTyped DEF SameLinks
<1>8. Close(Depth(h, h[m].left), Depth(h, h[m].right)) => Kept(u, m)
    BY <1>2, <1>3, <1>6, <1>7 DEF Kept, KeptOn
<1>9. ASSUME NEW x \in S, x # m, x # h[m].parent PROVE Kept(u, x)
    <2>1. x \in Nodes /\ Kept(h, x) /\ SameLinks(u, h, x) /\ SameSizes(u, h, x)
        BY <1>1, <1>3, <1>9 DEF Stale, SameSizes
    <2>2. ASSUME NEW s \in Sides, h[x][s] # NULL PROVE SameSizes(u, h, h[x][s])
        <3>1. h[x][s] \in Nodes /\ h[h[x][s]].parent = x
            BY <1>1, <2>2 DEF Tree, NodeOK
        <3>2. h[x][s] # m
            BY <1>9, <3>1
        <3>3. QED
            BY <1>3, <3>1, <3>2 DEF SameSizes
    <2>3. QED
        BY <1>1, <1>3, <2>1, <2>2, KeptSame
<1>10. Stale(u, T, S, root, before, m)
    BY <1>1, <1>3, <1>4, <1>9 DEF Stale
<1>11. QED
    BY <1>1, <1>3, <1>6, <1>7, <1>8, <1>10 DEF UpdatedTo

\* What mends the heap after update() mends the one before.
LEMMA MendedBefore ==
    ASSUME NEW h, NEW T, NEW S, NEW root, NEW before, NEW m, Stale(h, T, S, root, before, m),
           NEW u, u = Update(h, m),
           NEW g, NEW T2, NEW top, Mended(u, g, T, T2, S, root, before, m, top)
    PROVE  Mended(h, g, T, T2, S, root, before, m, top)
<1> DEFINE p == h[m].parent
           s == SideOf(h, p, m)
<1>1. u[m].parent = p /\ \A y \in Nodes \ {m} : u[y] = h[y]
    <2>1. UpdatedTo(h, u, T, S, root, before, m)
        BY UpdateStale
    <2>2. QED
        BY <2>1 DEF UpdatedTo
<1>2. Mended(u, g, T, T2, S, root, before, m, top)
    OBVIOUS
<1>3. Tree(h, T, S, root, before) /\ m \in S /\ m \in T[m]
    <2>1. Tree(h, T, S, root, before) /\ m \in S
        BY DEF Stale
    <2>2. Branch(h, T, S, m, "left")
        BY <2>1, Branches DEF Sides
    <2>3. QED
        BY <2>1, <2>2 DEF Branch
<1>4. m # root => p \in Nodes \ {m}
    BY <1>3, ParentFacts
<1> HIDE DEF p, s
<1>5. m # root => u[p] = h[p] /\ SideOf(u, p, m) = s
    BY <1>1, <1>4 DEF SideOf, s
<1>6. /\ \A x \in S : x # p => Kept(g, x)
      /\ \A y \in Nodes : y \notin T[m] /\ y # p => g[y] = h[y]
      /\ Tree(g, T2, S, IF m = root THEN top ELSE root, before)
      /\ top \in S /\ T2[top] = T[m]
    BY <1>1, <1>2, <1>3 DEF Mended
<1>7. m # root => /\ g[top].parent = p
                  /\ g[p][s] = top /\ g[p][Other(s)] = h[p][Other(s)]
                  /\ g[p].parent = h[p].parent /\ SameSizes(g, h, p)
    BY <1>1, <1>2, <1>5 DEF Mended, SameSizes
<1>8. QED
    BY <1>6, <1>7 DEF Mended, p, s

\* What Round() does to the node it has updated.
Fixed(u, m) ==
    LET l == Depth(u, u[m].left)
        r == Depth(u, u[m].right)
    IN  CASE l = r + 2 -> Fix(u, m, "left")
          [] l + 2 = r -> Fix(u, m, "right")
          [] OTHER     -> [heap |-> u, top |-> m]

Renewed(u, m, fixed) ==
    LET p == u[m].parent
    IN  IF p = NULL THEN fixed.heap
        ELSE [fixed.heap EXCEPT ![p][SideOf(u, p, m)] = fixed.top]

\* One round, by what becomes of the node it is about.
LEMMA RoundIs ==
    ASSUME NEW at
    PROVE  LET m == at.node
               u == Update(at.heap, m)
               fixed == Fixed(u, m)
           IN  /\ Round(at).heap = Renewed(u, m, fixed)
               /\ Round(at).top = fixed.top
               /\ Round(at).node = IF u[m].parent = NULL THEN NULL
                                   ELSE fixed.heap[fixed.top].parent
<1> DEFINE m == at.node
           u == Update(at.heap, m)
           fixed == Fixed(u, m)
           p == u[m].parent
<1>1. Round(at) = IF p = NULL THEN [heap |-> fixed.heap, top |-> fixed.top, node |-> NULL]
                  ELSE [heap |-> [fixed.heap EXCEPT ![p][SideOf(u, p, m)] = fixed.top],
                        top  |-> fixed.top,
                        node |-> fixed.heap[fixed.top].parent]
    BY DEF Round, Fixed
<1> HIDE DEF fixed, u
<1>2. QED
    BY <1>1 DEF Renewed, u, fixed

\* A rotation with the renewed link is Turn.
LEMMA RenewedIs ==
    ASSUME NEW u, NEW k, NEW m, NEW side,
           k[m].parent = u[m].parent,
           u[m].parent # NULL => SideOf(k, u[m].parent, m) = SideOf(u, u[m].parent, m)
    PROVE  Renewed(u, m, Rotate(k, m, side)) = Turn(k, m, side)
BY DEF Renewed, Turn

\* The renewed link is not the parent of the node on top.
LEMMA TopParent ==
    ASSUME NEW k, NEW n, NEW side, Turn(k, n, side) \in Heap,
           NEW top \in Nodes, top # k[n].parent
    PROVE  Rotate(k, n, side).heap[top].parent = Turn(k, n, side)[top].parent
<1> DEFINE H == Rotate(k, n, side).heap
           t == Rotate(k, n, side).top
           p == k[n].parent
<1> HIDE DEF H, t
<1>1. Turn(k, n, side) = IF p = NULL THEN H ELSE [H EXCEPT ![p][SideOf(k, p, n)] = t]
    BY DEF Turn, H, t
<1>2. CASE p = NULL
    BY <1>1, <1>2 DEF H
<1>3. CASE p # NULL
    <2> DEFINE g == [H EXCEPT ![p][SideOf(k, p, n)] = t]
    <2>1. g \in Heap
        BY <1>1, <1>3
    <2>2. DOMAIN H = Nodes
        <3>1. DOMAIN g = DOMAIN H
            OBVIOUS
        <3>2. QED
            BY <2>1, <3>1 DEF Heap
    <2>3. g[top] = H[top]
        BY <2>2
    <2>4. QED
        BY <1>1, <1>3, <2>3 DEF H
<1>4. QED
    BY <1>2, <1>3

\* A node that is too deep on one side, after update().
LEMMA FixMends ==
    ASSUME NEW u, NEW T, NEW S, NEW root, NEW before, NEW m, Stale(u, T, S, root, before, m),
           NEW deep \in Sides, NEW c, c = u[m][deep],
           Depth(u, c) = Depth(u, u[m][Other(deep)]) + 2
    PROVE  LET fixed == Fix(u, m, deep)
               g == Renewed(u, m, fixed)
           IN  /\ \E T2 : Mended(u, g, T, T2, S, root, before, m, fixed.top)
               /\ g[fixed.top].depth \in {Depth(u, c), Depth(u, c) + 1}
               /\ u[m].parent # NULL => fixed.heap[fixed.top].parent = u[m].parent
<1> DEFINE i == u[c][Other(deep)]
           other == Other(deep)
           bent == Depth(u, u[c][deep]) < Depth(u, i)
           k == IF bent THEN Turn(u, c, deep) ELSE u
           p == u[m].parent
           fixed == Fix(u, m, deep)
           g == Renewed(u, m, fixed)
           top == fixed.top
<1>1. Tree(u, T, S, root, before) /\ m \in S /\ u \in Heap /\ m \in Nodes
    BY DEF Stale, Tree
<1>2. p # NULL => p \in Nodes /\ p \notin T[m]
    BY <1>1, RootFacts, ParentFacts
<1>3. bent => /\ Rotate(u, c, deep).top = i /\ SideOf(u, m, c) = deep /\ u[c].parent = m
              /\ k[m].parent = p /\ k[m][deep] = i
              /\ \A y \in Nodes : y \notin T[m] => k[y] = u[y]
    <2> SUFFICES ASSUME bent
                 PROVE  /\ Rotate(u, c, deep).top = i /\ SideOf(u, m, c) = deep /\ u[c].parent = m
                        /\ k[m].parent = p /\ k[m][deep] = i
                        /\ \A y \in Nodes : y \notin T[m] => k[y] = u[y]
        OBVIOUS
    <2>1. k = Turn(u, c, deep)
        OBVIOUS
    <2> DEFINE kk == Turn(u, c, deep)
               q == u[m][Other(deep)]
    <2> HIDE DEF k
    <2>2. /\ Rotate(u, c, deep).top = i /\ SideOf(u, m, c) = deep /\ u[c].parent = m
          /\ kk[m].parent = p /\ kk[m][deep] = i
          /\ \A y \in Nodes : y \notin T[m] => kk[y] = u[y]
        <3> HIDE DEF kk
        <3>1. QED
            BY Unbend DEF kk
    <2>3. QED
        BY <2>1, <2>2
<1>4. fixed = Rotate(k, m, other)
    <2>1. m # NULL
        BY <1>1, NodesAssumption
    <2>2. bent => k = [Rotate(u, c, deep).heap EXCEPT ![m][deep] = Rotate(u, c, deep).top]
        BY <1>3, <2>1 DEF Turn
    <2>3. fixed = Rotate(IF bent THEN [Rotate(u, c, deep).heap EXCEPT ![m][deep] = Rotate(u, c, deep).top]
                         ELSE u, m, other)
        BY DEF Fix
    <2> HIDE DEF fixed, bent, other
    <2>4. QED
        BY <2>2, <2>3
<1>5. k[m].parent = p /\ (p # NULL => SideOf(k, p, m) = SideOf(u, p, m))
    <2> HIDE DEF bent
    <2>1. CASE bent
        <3> HIDE DEF k
        <3>1. QED
            BY <1>2, <1>3, <2>1 DEF SideOf
    <2>2. CASE ~bent
        BY <2>2
    <2>3. QED
        BY <2>1, <2>2
<1>6. g = Turn(k, m, other)
    <2> HIDE DEF k, fixed, other
    <2>1. Renewed(u, m, Rotate(k, m, other)) = Turn(k, m, other)
        BY <1>5, RenewedIs
    <2>2. QED
        BY <1>4, <2>1
<1>7. (\E T2 : Mended(u, g, T, T2, S, root, before, m, top)) /\ g[top].depth \in {Depth(u, c), Depth(u, c) + 1}
    <2>1. CASE ~bent
        <3>1. k = u
            BY <2>1
        <3>2. top = c
            <4>1. Rotate(u, m, other).top = u[m][Other(other)]
                BY DEF Rotate
            <4>2. Other(other) = deep
                BY OtherSide
            <4> HIDE DEF fixed, other, k
            <4>3. QED
                BY <1>4, <3>1, <4>1, <4>2
        <3>3. g = Turn(u, m, Other(deep))
            BY <1>6, <3>1
        <3>4. (\E T2 : Mended(u, g, T, T2, S, root, before, m, c)) /\ g[c].depth \in {Depth(u, c), Depth(u, c) + 1}
            <4> DEFINE gg == Turn(u, m, Other(deep))
            <4>1. (\E T2 : Mended(u, gg, T, T2, S, root, before, m, c)) /\ gg[c].depth \in {Depth(u, c), Depth(u, c) + 1}
                <5> HIDE DEF gg
                <5>1. QED
                    BY <2>1, FixSingle DEF gg
            <4> HIDE DEF g
            <4>2. QED
                BY <3>3, <4>1
        <3> HIDE DEF top, g
        <3>5. QED
            BY <3>2, <3>4
    <2>2. CASE bent
        <3>1. k = Turn(u, c, deep)
            BY <2>2
        <3>2. top = i
            <4>1. Rotate(k, m, other).top = k[m][Other(other)]
                BY DEF Rotate
            <4>2. Other(other) = deep
                BY OtherSide
            <4> HIDE DEF fixed, other, k, bent
            <4>3. QED
                BY <1>3, <1>4, <2>2, <4>1, <4>2
        <3>3. g = Turn(Turn(u, c, deep), m, Other(deep))
            BY <1>6, <3>1
        <3>4. (\E T2 : Mended(u, g, T, T2, S, root, before, m, i)) /\ g[i].depth = Depth(u, c)
            <4> DEFINE gg == Turn(Turn(u, c, deep), m, Other(deep))
            <4>1. (\E T2 : Mended(u, gg, T, T2, S, root, before, m, i)) /\ gg[i].depth = Depth(u, c)
                <5> HIDE DEF gg
                <5>1. QED
                    BY <2>2, FixDouble DEF gg
            <4> HIDE DEF g
            <4>2. QED
                BY <3>3, <4>1
        <3> HIDE DEF top, g
        <3>5. QED
            BY <3>2, <3>4
    <2>3. QED
        BY <2>1, <2>2
<1>8. p # NULL => fixed.heap[top].parent = p
    <2> HIDE DEF k, fixed, other, g
    <2> SUFFICES ASSUME p # NULL PROVE fixed.heap[top].parent = p
        OBVIOUS
    <2>1. m # root
        BY <1>1, RootFacts
    <2>2. PICK T2 : Mended(u, g, T, T2, S, root, before, m, top)
        BY <1>7
    <2>3. g \in Heap /\ top \in Nodes /\ g[top].parent = p
        BY <2>1, <2>2 DEF Mended, Tree
    <2>4. top # p
        <3>1. Tree(g, T2, S, root, before) /\ top \in S
            BY <2>1, <2>2 DEF Mended
        <3>2. top # root
            BY <2>3, <3>1, RootFacts
        <3>3. QED
            BY <2>3, <3>1, <3>2, ParentFacts
    <2>5. Rotate(k, m, other).heap[top].parent = Turn(k, m, other)[top].parent
        BY <1>5, <1>6, <2>3, <2>4, TopParent
    <2>6. QED
        BY <1>4, <1>6, <2>3, <2>5
<1> HIDE DEF fixed, g
<1>9. QED
    BY <1>7, <1>8 DEF g, fixed

MendedTo(h, r, T, S, root, before, m, d) ==
    /\ \E T2 : Mended(h, r.heap, T, T2, S, root, before, m, r.top)
    /\ Close(r.heap[r.top].depth, d)
    /\ r.node = h[m].parent

\* One round mends the subtree of its node, and goes on at the parent.
LEMMA RoundMends ==
    ASSUME NEW h, NEW T, NEW S, NEW root, NEW before, NEW m, NEW d,
           Climbs(h, T, S, root, before, m, d),
           NEW at, at.heap = h, at.node = m
    PROVE  MendedTo(h, Round(at), T, S, root, before, m, d)
<1> DEFINE u == Update(h, m)
           fixed == Fixed(u, m)
           r == Round(at)
           l == h[m].left
           x == h[m].right
           p == h[m].parent
<1>1. Stale(h, T, S, root, before, m) /\ h \in Heap /\ m \in Nodes /\ m \in S
    BY DEF Climbs, Stale, Tree
<1> HIDE DEF u
<1>2. UpdatedTo(h, u, T, S, root, before, m)
    BY <1>1, UpdateStale DEF u
<1>3. /\ r.heap = Renewed(u, m, fixed) /\ r.top = fixed.top
      /\ r.node = IF u[m].parent = NULL THEN NULL ELSE fixed.heap[fixed.top].parent
    BY RoundIs DEF u
<1> HIDE DEF r
<1>4. /\ Stale(u, T, S, root, before, m) /\ u[m].parent = p
      /\ u[m].left = l /\ u[m].right = x /\ l = h[m]["left"] /\ x = h[m]["right"]
      /\ u[m]["left"] = l /\ u[m]["right"] = x
      /\ Depth(u, l) = Depth(h, l) /\ Depth(u, x) = Depth(h, x)
      /\ Close(Depth(h, l), Depth(h, x)) => Kept(u, m)
      /\ u[m].depth = 1 + Deeper(Depth(h, l), Depth(h, x))
    <2>1. l = h[m]["left"] /\ x = h[m]["right"]
        BY <1>1, HeapTyped
    <2>2. "left" \in Sides /\ "right" \in Sides
        BY DEF Sides
    <2>3. u[m]["left"] = h[m]["left"] /\ u[m]["right"] = h[m]["right"]
        BY <1>2, <2>2 DEF UpdatedTo, SameLinks
    <2>4. Depth(u, h[m]["left"]) = Depth(h, h[m]["left"]) /\ Depth(u, h[m]["right"]) = Depth(h, h[m]["right"])
        BY <1>2, <2>2 DEF UpdatedTo
    <2>5. QED
        BY <1>2, <2>1, <2>3, <2>4 DEF UpdatedTo
<1>5. Depth(h, l) \in Nat /\ Depth(h, x) \in Nat /\ d \in Nat /\ Near(Depth(h, l), Depth(h, x), d)
    BY <1>1, HeapTyped, DepthTyped DEF Climbs
<1> HIDE DEF fixed
<1>6. fixed = CASE Depth(h, l) = Depth(h, x) + 2 -> Fix(u, m, "left")
                [] Depth(h, l) + 2 = Depth(h, x) -> Fix(u, m, "right")
                [] OTHER -> [heap |-> u, top |-> m]
    BY <1>4 DEF fixed, Fixed
<1> HIDE DEF l, x, p
<1>7. /\ \E T2 : Mended(u, r.heap, T, T2, S, root, before, m, fixed.top)
      /\ Close(r.heap[fixed.top].depth, d)
      /\ p # NULL => fixed.heap[fixed.top].parent = p
    <2>1. CASE Depth(h, l) = Depth(h, x) + 2
        <3>1. fixed = Fix(u, m, "left")
            BY <1>5, <1>6, <2>1
        <3>2. Other("left") = "right" /\ "left" \in Sides
            BY DEF Other, Sides
        <3>3. Depth(u, l) = Depth(u, u[m][Other("left")]) + 2 /\ l = u[m]["left"]
            BY <1>4, <2>1, <3>2
        <3>4. /\ \E T2 : Mended(u, r.heap, T, T2, S, root, before, m, fixed.top)
              /\ r.heap[fixed.top].depth \in {Depth(u, l), Depth(u, l) + 1}
              /\ u[m].parent # NULL => fixed.heap[fixed.top].parent = u[m].parent
            BY <1>3, <1>4, <3>1, <3>2, <3>3, FixMends
        <3>5. d \in {Depth(h, l), Depth(h, l) + 1}
            BY <1>5, <2>1 DEF Near, Close
        <3>6. Close(r.heap[fixed.top].depth, d)
            BY <1>4, <1>5, <3>4, <3>5 DEF Close
        <3>7. QED
            BY <1>4, <3>4, <3>6
    <2>2. CASE Depth(h, l) + 2 = Depth(h, x)
        <3>1. fixed = Fix(u, m, "right")
            BY <1>5, <1>6, <2>2
        <3>2. Other("right") = "left" /\ "right" \in Sides
            BY DEF Other, Sides
        <3>3. Depth(u, x) = Depth(u, u[m][Other("right")]) + 2 /\ x = u[m]["right"]
            BY <1>4, <2>2, <3>2
        <3>4. /\ \E T2 : Mended(u, r.heap, T, T2, S, root, before, m, fixed.top)
              /\ r.heap[fixed.top].depth \in {Depth(u, x), Depth(u, x) + 1}
              /\ u[m].parent # NULL => fixed.heap[fixed.top].parent = u[m].parent
            BY <1>3, <1>4, <3>1, <3>2, <3>3, FixMends
        <3>5. d \in {Depth(h, x), Depth(h, x) + 1}
            BY <1>5, <2>2 DEF Near, Close
        <3>6. Close(r.heap[fixed.top].depth, d)
            BY <1>4, <1>5, <3>4, <3>5 DEF Close
        <3>7. QED
            BY <1>4, <3>4, <3>6
    <2>3. CASE Depth(h, l) # Depth(h, x) + 2 /\ Depth(h, l) + 2 # Depth(h, x)
        <3>1. fixed = [heap |-> u, top |-> m]
            BY <1>6, <2>3
        <3>2. Close(Depth(h, l), Depth(h, x)) /\ Close(1 + Deeper(Depth(h, l), Depth(h, x)), d)
            BY <1>5, <2>3 DEF Near
        <3>3. Mended(u, u, T, T, S, root, before, m, m)
            BY <1>4, <3>2, FixNothing
        <3>4. r.heap = u
            <4>1. p = NULL => Renewed(u, m, fixed) = u
                BY <1>4, <3>1 DEF Renewed
            <4>2. ASSUME p # NULL PROVE Renewed(u, m, fixed) = u
                <5> DEFINE s == SideOf(u, p, m)
                <5>1. Tree(u, T, S, root, before) /\ u \in Heap
                    BY <1>4 DEF Stale, Tree
                <5>2. m # root
                    BY <1>1, <1>4, <4>2, <5>1, RootFacts
                <5>3. p \in Nodes /\ u[p][s] = m /\ s \in Sides
                    BY <1>1, <1>4, <5>1, <5>2, ParentFacts, SideOfTyped
                <5>4. Renewed(u, m, fixed) = [u EXCEPT ![p][s] = m]
                    BY <1>4, <3>1, <4>2 DEF Renewed
                <5> HIDE DEF s
                <5>5. [u EXCEPT ![p][s] = m] = u
                    <6>1. u[p] \in AVLNode
                        BY <5>1, <5>3 DEF Heap
                    <6>2. [u[p] EXCEPT ![s] = m] = u[p]
                        BY <5>3, <6>1 DEF AVLNode, Sides
                    <6>3. QED
                        BY <5>1, <5>3, <6>2 DEF Heap
                <5>6. QED
                    BY <5>4, <5>5
            <4>3. QED
                BY <1>3, <4>1, <4>2
        <3>5. fixed.heap = u /\ fixed.top = m
            BY <3>1
        <3>6. QED
            BY <1>4, <3>2, <3>3, <3>4, <3>5
    <2>4. QED
        BY <2>1, <2>2, <2>3
<1>8. r.node = p
    BY <1>3, <1>4, <1>7
<1>9. PICK T2 : Mended(u, r.heap, T, T2, S, root, before, m, fixed.top)
    BY <1>7
<1>10. Mended(h, r.heap, T, T2, S, root, before, m, r.top)
    BY <1>1, <1>3, <1>9, MendedBefore DEF u
<1>11. QED
    BY <1>3, <1>7, <1>8, <1>10 DEF MendedTo, r, p

\* The climb can go on at p, where the depth of one child has changed from d.
LEMMA ClimbsAt ==
    ASSUME NEW g, NEW T, NEW S, NEW root, NEW before, Tree(g, T, S, root, before),
           NEW p \in S, \A x \in S : x # p => Kept(g, x),
           NEW s \in Sides, NEW d \in Nat,
           g[p].depth = 1 + Deeper(d, Depth(g, g[p][Other(s)])),
           Close(d, Depth(g, g[p][Other(s)])), Close(Depth(g, g[p][s]), d)
    PROVE  Climbs(g, T, S, root, before, p, g[p].depth)
<1> DEFINE e == Depth(g, g[p][s])
           q == Depth(g, g[p][Other(s)])
           pp == g[p].parent
<1>1. g \in Heap /\ p \in Nodes /\ p # NULL
    BY NodesAssumption DEF Tree
<1>2. e \in Nat /\ q \in Nat
    <2>1. Other(s) \in Sides
        BY OtherSide
    <2>2. g[p][s] \in Ptr /\ g[p][Other(s)] \in Ptr
        BY <1>1, <2>1, HeapTyped
    <2>3. QED
        BY <1>1, <2>2, DepthTyped
<1>3. g[p].depth = 1 + Deeper(d, q) /\ Close(d, q) /\ Close(e, d)
    OBVIOUS
<1>4. e = Depth(g, g[p][s]) /\ q = Depth(g, g[p][Other(s)])
    OBVIOUS
<1> HIDE DEF e, q
<1>5. Near(e, q, g[p].depth) /\ Near(q, e, g[p].depth) /\ g[p].depth \in Nat
    <2>1. Near(e, q, 1 + Deeper(d, q)) /\ Near(q, e, 1 + Deeper(d, q)) /\ 1 + Deeper(d, q) \in Nat
        BY <1>2, <1>3 DEF Near, Close, Deeper
    <2>2. QED
        BY <1>3, <2>1
<1>6. Near(Depth(g, g[p].left), Depth(g, g[p].right), g[p].depth)
    <2>1. g[p].left = g[p]["left"] /\ g[p].right = g[p]["right"]
        BY <1>1, HeapTyped
    <2>2. CASE s = "left"
        BY <1>4, <1>5, <2>1, <2>2 DEF Other
    <2>3. CASE s = "right"
        BY <1>4, <1>5, <2>1, <2>3 DEF Other
    <2>4. QED
        BY <2>2, <2>3 DEF Sides
<1>7. Stale(g, T, S, root, before, p)
    BY DEF Stale
<1>8. p # root => Hangs(g, g[p].parent, p, g[p].depth)
    <2> SUFFICES ASSUME p # root PROVE Hangs(g, g[p].parent, p, g[p].depth)
        OBVIOUS
    <2> DEFINE z == SideOf(g, pp, p)
    <2>1. /\ pp \in S /\ pp \in Nodes /\ pp # p /\ g[pp][z] = p /\ z \in Sides
        BY ParentFacts, SideOfTyped
    <2> HIDE DEF z, pp
    <2>2. KeptOn(g, pp, z)
        BY <1>1, <2>1, KeptSides
    <2>3. Depth(g, p) = g[p].depth
        BY <1>1 DEF Depth
    <2>4. QED
        BY <2>1, <2>2, <2>3 DEF KeptOn, Hangs, z, pp
<1>9. QED
    BY <1>5, <1>6, <1>7, <1>8 DEF Climbs

\* The climb goes on at the parent.
LEMMA MendedClimbs ==
    ASSUME NEW h, NEW T, NEW S, NEW root, NEW before, NEW m, NEW d,
           Climbs(h, T, S, root, before, m, d), m # root,
           NEW g, NEW T2, NEW top, Mended(h, g, T, T2, S, root, before, m, top),
           Close(g[top].depth, d)
    PROVE  LET p == h[m].parent
           IN  /\ Climbs(g, T2, S, root, before, p, h[p].depth)
               /\ T[m] \subseteq T2[p] /\ p \in T2[p] /\ p \notin T[m]
<1> DEFINE p == h[m].parent
           s == SideOf(h, p, m)
           c == h[p][Other(s)]
           q == Depth(h, c)
           pp == h[p].parent
<1>1. Tree(h, T, S, root, before) /\ m \in S /\ h \in Heap
    BY DEF Climbs, Stale, Tree
<1>2. /\ p \in S /\ p \in Nodes /\ p # NULL /\ p # m /\ p \notin T[m]
      /\ h[p][s] = m /\ s \in Sides
    BY <1>1, ParentFacts, SideOfTyped
<1> HIDE DEF p, s
<1>3. /\ Tree(g, T2, S, root, before) /\ top \in S /\ T2[top] = T[m]
      /\ \A x \in S : x # p => Kept(g, x)
      /\ \A y \in Nodes : y \notin T[m] /\ y # p => g[y] = h[y]
      /\ g[top].parent = p
      /\ g[p][s] = top /\ g[p][Other(s)] = c
      /\ g[p].parent = pp /\ SameSizes(g, h, p)
    BY DEF Mended, p, s
<1>4. g \in Heap /\ top \in Nodes /\ top # NULL /\ g[p].depth = h[p].depth
    BY <1>3, NodesAssumption DEF Tree, SameSizes
<1>5. T[m] \subseteq T2[p] /\ p \in T2[p]
    <2>1. Branch(g, T2, S, p, s)
        BY <1>2, <1>3, Branches
    <2>2. QED
        BY <1>3, <2>1 DEF Branch
<1>6. c \in Ptr /\ c # p /\ c \notin T[m] /\ Other(s) \in Sides /\ q \in Nat
    <2>1. Other(s) \in Sides
        BY <1>2, OtherSide
    <2>2. Branch(h, T, S, p, Other(s)) /\ Branch(h, T, S, p, s)
        BY <1>1, <1>2, <2>1, Branches
    <2>3. c = NULL \/ c \in T[c]
        BY <2>2 DEF Branch
    <2>4. T[m] \cap T[c] = {}
        BY <1>2, <2>2 DEF Branch
    <2>5. T[m] \subseteq Nodes
        BY <1>1 DEF Tree, Ptr
    <2>6. q \in Nat
        BY <1>1, <2>2, DepthTyped DEF Branch
    <2>7. QED
        BY <1>2, <2>1, <2>2, <2>3, <2>4, <2>5, <2>6, NodesAssumption DEF Branch
<1>7. Depth(g, c) = q
    <2>1. c # NULL => g[c] = h[c]
        BY <1>3, <1>6 DEF Ptr
    <2>2. QED
        BY <2>1 DEF Depth
<1>8. h[p].depth = 1 + Deeper(d, q) /\ Close(d, q) /\ d \in Nat
    BY DEF Climbs, Hangs, p, s
<1>9. Depth(g, top) = g[top].depth
    BY <1>4 DEF Depth
<1>10. Climbs(g, T2, S, root, before, p, g[p].depth)
    <2>1. /\ g[p].depth = 1 + Deeper(d, Depth(g, g[p][Other(s)]))
          /\ Close(d, Depth(g, g[p][Other(s)])) /\ Close(Depth(g, g[p][s]), d)
        BY <1>3, <1>4, <1>7, <1>8, <1>9
    <2>2. QED
        BY <1>2, <1>3, <1>8, <2>1, ClimbsAt
<1>11. QED
    BY <1>2, <1>4, <1>5, <1>10 DEF p

\* A balanced tree of the nodes of S, each knowing its sizes; h is as f elsewhere.
Fitted(f, h, top, S, before) ==
    /\ \E T : Tree(h, T, S, top, before)
    /\ \A x \in S : Kept(h, x)
    /\ \A y \in Nodes \ S : h[y] = f[y]

\* fixAVL() after i rounds, from heap f.
Reached(f, at, i, S, root, before) ==
    \/ at.node = NULL /\ Fitted(f, at.heap, at.top, S, before)
    \/ /\ at.node # NULL
       /\ \E T, d : /\ Climbs(at.heap, T, S, root, before, at.node, d)
                    /\ Cardinality(T[at.node]) > i
       /\ \A y \in Nodes \ S : at.heap[y] = f[y]

\* After one more round, fixAVL() is one level higher or done.
LEMMA ClimbedReaches ==
    ASSUME NEW f, NEW at, NEW i \in Nat, NEW S, NEW root, NEW before,
           Reached(f, at, i, S, root, before)
    PROVE  Reached(f, Climbed(at), i + 1, S, root, before)
<1>1. CASE at.node = NULL
    BY <1>1 DEF Reached, Climbed
<1>2. CASE at.node # NULL
    <2> DEFINE h == at.heap
               m == at.node
               r == Round(at)
               p == h[m].parent
    <2>1. PICK T, d : Climbs(h, T, S, root, before, m, d) /\ Cardinality(T[m]) > i
        BY <1>2 DEF Reached
    <2>2. \A y \in Nodes \ S : h[y] = f[y]
        BY <1>2 DEF Reached
    <2>3. MendedTo(h, r, T, S, root, before, m, d)
        BY <2>1, RoundMends
    <2>4. Climbed(at) = r
        BY <1>2 DEF Climbed
    <2> HIDE DEF r, h, m
    <2>5. PICK T2 : Mended(h, r.heap, T, T2, S, root, before, m, r.top)
        BY <2>3 DEF MendedTo
    <2>6. r.node = p /\ Close(r.heap[r.top].depth, d)
        BY <2>3 DEF MendedTo
    <2>7. Tree(h, T, S, root, before) /\ m \in S /\ T[m] \subseteq S /\ S \subseteq Nodes
        <3>1. Tree(h, T, S, root, before) /\ m \in S
            BY <2>1 DEF Climbs, Stale
        <3>2. QED
            BY <3>1 DEF Tree, Ptr
    <2>8. \A y \in Nodes \ S : r.heap[y] = f[y]
        <3>1. p \in S \/ p = NULL
            BY <2>7, RootFacts, ParentFacts
        <3>2. \A y \in Nodes : y \notin T[m] /\ y # p => r.heap[y] = h[y]
            BY <2>5 DEF Mended
        <3>3. QED
            BY <2>2, <2>7, <3>1, <3>2, NodesAssumption
    <2>9. CASE m = root
        <3>1. p = NULL
            BY <2>7, <2>9, RootFacts
        <3>2. Tree(r.heap, T2, S, r.top, before)
            BY <2>5, <2>9 DEF Mended
        <3>3. \A x \in S : Kept(r.heap, x)
            BY <2>5, <2>7, <3>1, NodesAssumption DEF Mended
        <3>4. Fitted(f, r.heap, r.top, S, before)
            BY <2>8, <3>2, <3>3 DEF Fitted
        <3>5. QED
            BY <2>4, <2>6, <3>1, <3>4 DEF Reached
    <2>10. CASE m # root
        <3>1. /\ Climbs(r.heap, T2, S, root, before, p, h[p].depth)
              /\ T[m] \subseteq T2[p] /\ p \in T2[p] /\ p \notin T[m]
            BY <2>1, <2>5, <2>6, <2>10, MendedClimbs
        <3>2. p # NULL /\ p \in S
            BY <2>7, <2>10, ParentFacts
        <3>3. T2[p] \subseteq S
            BY <2>7, <3>1, <3>2 DEF Climbs, Stale, Tree, Ptr
        <3>4. Cardinality(T2[p]) > i + 1
            <4>1. IsFiniteSet(T2[p]) /\ IsFiniteSet(T[m])
                BY <2>7, <3>3, NodesAssumption, FS_Subset
            <4>2. T[m] \cup {p} \subseteq T2[p]
                BY <3>1
            <4>3. IsFiniteSet(T[m] \cup {p}) /\ Cardinality(T[m] \cup {p}) = Cardinality(T[m]) + 1
                BY <3>1, <4>1, FS_AddElement
            <4>4. Cardinality(T[m] \cup {p}) <= Cardinality(T2[p])
                BY <4>1, <4>2, FS_Subset
            <4>5. Cardinality(T[m]) \in Nat /\ Cardinality(T2[p]) \in Nat
                BY <4>1, FS_CardinalityType
            <4>6. QED
                BY <2>1, <4>3, <4>4, <4>5
        <3>5. QED
            BY <2>4, <2>6, <2>8, <3>1, <3>2, <3>4 DEF Reached
    <2>11. QED
        BY <2>9, <2>10
<1>3. QED
    BY <1>1, <1>2

\* The rounds of fixAVL() as a function.
Rounds(g, h, n, N) ==
    g = [i \in 0 .. N |-> IF i = 0 THEN [heap |-> h, top |-> n, node |-> n] ELSE Climbed(g[i - 1])]

\* The rounds of fixAVL() are a function.
LEMMA RoundsExist ==
    ASSUME NEW h, NEW n
    PROVE  \A N \in Nat : \E g : Rounds(g, h, n, N)
<1> DEFINE T == {N \in Nat : \E g : Rounds(g, h, n, N)}
           a == [heap |-> h, top |-> n, node |-> n]
<1> HIDE DEF a
<1>1. 0 \in T
    <2> DEFINE g == [i \in 0 .. 0 |-> a]
    <2>1. g = [i \in 0 .. 0 |-> IF i = 0 THEN a ELSE Climbed(g[i - 1])]
        OBVIOUS
    <2> HIDE DEF g
    <2>2. Rounds(g, h, n, 0)
        BY <2>1 DEF Rounds, a
    <2>3. QED
        BY <2>2
<1>2. ASSUME NEW N \in Nat, N \in T PROVE N + 1 \in T
    <2>1. PICK f : Rounds(f, h, n, N)
        BY <1>2
    <2>2. f = [i \in 0 .. N |-> IF i = 0 THEN a ELSE Climbed(f[i - 1])]
        BY <2>1 DEF Rounds, a
    <2> DEFINE g == [i \in 0 .. N + 1 |-> IF i = N + 1 THEN Climbed(f[N]) ELSE f[i]]
    <2>3. \A i \in 0 .. N : g[i] = f[i]
        OBVIOUS
    <2>4. ASSUME NEW i \in 0 .. N + 1
          PROVE  g[i] = IF i = 0 THEN a ELSE Climbed(g[i - 1])
        <3>1. CASE i = 0
            <4>1. 0 \in 0 .. N /\ i # N + 1
                BY <3>1
            <4>2. f[0] = a
                BY <2>2, <4>1
            <4>3. QED
                BY <2>3, <3>1, <4>1, <4>2
        <3>2. CASE i = N + 1
            <4>1. i # 0 /\ i - 1 = N /\ N \in 0 .. N
                BY <3>2
            <4>2. g[i] = Climbed(f[N])
                BY <3>2
            <4>3. g[i - 1] = f[N]
                BY <2>3, <4>1
            <4> HIDE DEF g
            <4>4. QED
                BY <4>1, <4>2, <4>3
        <3>3. CASE i # 0 /\ i # N + 1
            <4>1. i \in 0 .. N /\ i - 1 \in 0 .. N
                BY <3>3
            <4>2. f[i] = Climbed(f[i - 1])
                BY <2>2, <3>3, <4>1
            <4>3. g[i] = f[i] /\ g[i - 1] = f[i - 1]
                BY <2>3, <4>1
            <4> HIDE DEF g
            <4>4. QED
                BY <3>3, <4>2, <4>3
        <3>4. QED
            BY <3>1, <3>2, <3>3
    <2>5. g = [i \in 0 .. N + 1 |-> IF i = 0 THEN a ELSE Climbed(g[i - 1])]
        <3>1. g = [i \in 0 .. N + 1 |-> g[i]]
            OBVIOUS
        <3> HIDE DEF g
        <3>2. QED
            BY <2>4, <3>1
    <2> HIDE DEF g
    <2>6. Rounds(g, h, n, N + 1)
        BY <2>5 DEF Rounds, a
    <2>7. QED
        BY <2>6
<1> HIDE DEF T
<1>3. \A N \in Nat : N \in T
    BY <1>1, <1>2, Induction
<1>4. QED
    BY <1>3 DEF T

\* fixAVL() makes a tree fit whose only stale nodes are n and its parent.
THEOREM FixAVLFits ==
    ASSUME NEW h, NEW T, NEW S, NEW root, NEW before, NEW n, NEW d,
           Climbs(h, T, S, root, before, n, d)
    PROVE  LET f == FixAVL(h, n)
           IN  Fitted(h, f.heap, f.top, S, before)
<1> DEFINE N == Cardinality(Nodes)
           g == CHOOSE climb : Rounds(climb, h, n, N)
<1>1. N \in Nat
    BY NodesAssumption, FS_CardinalityType
<1>2. FixAVL(h, n) = [heap |-> g[N].heap, top |-> g[N].top]
    BY DEF FixAVL, Rounds
<1>3. Rounds(g, h, n, N)
    BY <1>1, RoundsExist
<1> HIDE DEF g, N
<1>4. /\ g[0] = [heap |-> h, top |-> n, node |-> n]
      /\ \A i \in 1 .. N : g[i] = Climbed(g[i - 1])
    <2>1. g = [i \in 0 .. N |-> IF i = 0 THEN [heap |-> h, top |-> n, node |-> n] ELSE Climbed(g[i - 1])]
        BY <1>3 DEF Rounds
    <2>2. 0 \in 0 .. N /\ \A i \in 1 .. N : i \in 0 .. N /\ i # 0
        BY <1>1
    <2>3. QED
        BY <2>1, <2>2
<1> DEFINE Good == {i \in Nat : Reached(h, g[i], i, S, root, before)}
<1>5. 0 \in Good
    <2>1. n \in S /\ Tree(h, T, S, root, before) /\ n \in Nodes /\ n # NULL
        BY NodesAssumption DEF Climbs, Stale, Tree
    <2>2. T[n] \subseteq S /\ n \in T[n]
        <3>1. Branch(h, T, S, n, "left")
            BY <2>1, Branches DEF Sides
        <3>2. QED
            BY <3>1 DEF Branch
    <2>3. IsFiniteSet(T[n])
        BY <2>1, <2>2, NodesAssumption, FS_Subset DEF Tree
    <2>4. Cardinality(T[n]) > 0
        BY <2>2, <2>3, FS_CardinalityType, FS_EmptySet
    <2>5. g[0].node = n /\ g[0].heap = h
        BY <1>4
    <2>6. QED
        BY <2>1, <2>4, <2>5 DEF Reached
<1>6. ASSUME NEW i \in 1 .. N, i - 1 \in Good PROVE i \in Good
    <2>1. g[i] = Climbed(g[i - 1]) /\ i - 1 \in Nat /\ i = (i - 1) + 1
        BY <1>4
    <2>2. QED
        BY <1>6, <2>1, ClimbedReaches
<1> HIDE DEF Good
<1>7. N \in Good
    <2>1. \A i \in 0 .. N : i \in Good
        BY <1>1, <1>5, <1>6, InductionUpTo
    <2>2. QED
        BY <1>1, <2>1
<1>8. Reached(h, g[N], N, S, root, before)
    BY <1>7 DEF Good
<1>9. g[N].node = NULL
    <2> SUFFICES ASSUME g[N].node # NULL PROVE FALSE
        OBVIOUS
    <2> DEFINE m == g[N].node
    <2>1. PICK T2, d2 : Climbs(g[N].heap, T2, S, root, before, m, d2) /\ Cardinality(T2[m]) > N
        BY <1>8 DEF Reached
    <2> HIDE DEF m
    <2>2. T2[m] \subseteq Nodes
        BY <2>1 DEF Climbs, Stale, Tree, Ptr
    <2>3. Cardinality(T2[m]) <= N /\ Cardinality(T2[m]) \in Nat
        BY <2>2, NodesAssumption, FS_Subset, FS_CardinalityType DEF N
    <2>4. QED
        BY <1>1, <2>1, <2>3
<1>10. Fitted(h, g[N].heap, g[N].top, S, before)
    BY <1>8, <1>9 DEF Reached
<1>11. QED
    BY <1>2, <1>10
------------------------------------------------------------------------------
(* A new leaf.                                                             *)

\* The leaf n as a child of at.
Attached(h, n, at, side) == WithParent(WithLink(h, at, side, n), n, at)

\* n belongs on this side of at, and where at is under every other node.
Belongs(h, T, before, n, at, side, under) ==
    /\ h[at][side] = NULL /\ On(before, n, at, side)
    /\ \A x \in under, s \in Sides : at \in T[h[x][s]] => On(before, n, x, s)

WithLeaf(T, n, at) ==
    [x \in Ptr |-> IF x = n THEN {n} ELSE IF at \in T[x] THEN T[x] \cup {n} ELSE T[x]]

\* What attaching a leaf does to the fields.
LEMMA AttachedIs ==
    ASSUME NEW h \in Heap, NEW n \in Nodes, NEW at \in Nodes, n # at, NEW side \in Sides
    PROVE  LET g == Attached(h, n, at, side)
           IN  /\ g \in Heap
               /\ g[n].parent = at /\ \A y \in Nodes \ {n} : g[y].parent = h[y].parent
               /\ g[at][side] = n /\ \A s \in Sides \ {side} : g[at][s] = h[at][s]
               /\ \A y \in Nodes \ {at} : SameLinks(g, h, y)
               /\ \A y \in Nodes : SameSizes(g, h, y)
               /\ \A y \in Nodes \ {n, at} : g[y] = h[y]
<1> DEFINE k == WithLink(h, at, side, n)
           g == Attached(h, n, at, side)
<1>1. /\ k \in Heap
      /\ k[at][side] = n /\ \A s \in Sides \ {side} : k[at][s] = h[at][s]
      /\ \A y \in Nodes \ {at} : k[y] = h[y]
      /\ \A y \in Nodes : k[y].parent = h[y].parent /\ SameSizes(k, h, y)
    BY SetLink DEF Ptr
<1> HIDE DEF k
<1>2. /\ g \in Heap
      /\ g[n].parent = at
      /\ \A y \in Nodes \ {n} : g[y] = k[y]
      /\ \A y \in Nodes : SameLinks(g, k, y) /\ SameSizes(g, k, y)
    <2>1. g = WithParent(k, n, at)
        BY DEF Attached, k
    <2>2. at \in Ptr
        BY DEF Ptr
    <2> HIDE DEF g
    <2>3. QED
        BY <1>1, <2>1, <2>2, SetUp
<1> HIDE DEF g
<1>3. /\ g[at][side] = n /\ \A s \in Sides \ {side} : g[at][s] = h[at][s]
      /\ \A y \in Nodes \ {n} : g[y].parent = h[y].parent
      /\ \A y \in Nodes \ {n, at} : g[y] = h[y]
    BY <1>1, <1>2 DEF SameLinks
<1>4. \A y \in Nodes \ {at} : SameLinks(g, h, y)
    BY <1>1, <1>2 DEF SameLinks
<1>5. \A y \in Nodes : SameSizes(g, h, y)
    BY <1>1, <1>2 DEF SameSizes
<1>6. QED
    BY <1>2, <1>3, <1>4, <1>5 DEF g

\* A tree with a leaf at its place in the order is a tree.
LEMMA LeafTree ==
    ASSUME NEW h, NEW T, NEW S, NEW root, NEW before, Tree(h, T, S, root, before),
           NEW n \in Nodes \ S, \A s \in Sides : h[n][s] = NULL,
           NEW at \in S, NEW side \in Sides, Belongs(h, T, before, n, at, side, S)
    PROVE  Tree(Attached(h, n, at, side), WithLeaf(T, n, at), S \cup {n}, root, before)
<1> DEFINE g == Attached(h, n, at, side)
           T2 == WithLeaf(T, n, at)
           R == S \cup {n}
<1>1. /\ h \in Heap /\ S \in SUBSET Nodes /\ Order(before)
      /\ T \in [Ptr -> SUBSET S] /\ T[NULL] = {} /\ RootOK(h, T, S, root)
      /\ at \in Nodes /\ at # n /\ n # NULL /\ at # NULL
    BY NodesAssumption DEF Tree
<1>2. /\ g \in Heap
      /\ g[n].parent = at /\ \A y \in Nodes \ {n} : g[y].parent = h[y].parent
      /\ g[at][side] = n /\ \A s \in Sides \ {side} : g[at][s] = h[at][s]
      /\ \A y \in Nodes \ {at} : SameLinks(g, h, y)
    BY <1>1, AttachedIs
<1> HIDE DEF g
<1>3. /\ T2 \in [Ptr -> SUBSET R] /\ T2[NULL] = {} /\ T2[n] = {n}
      /\ \A x \in Ptr \ {n} : T2[x] = IF at \in T[x] THEN T[x] \cup {n} ELSE T[x]
    BY <1>1 DEF WithLeaf, Ptr
<1> HIDE DEF T2
<1>4. RootOK(g, T2, R, root)
    <2>1. root # NULL /\ root \in S /\ h[root].parent = NULL /\ T[root] = S
        BY <1>1, NodesAssumption DEF RootOK
    <2>2. root \in Ptr \ {n} /\ root \in Nodes \ {n}
        BY <1>1, <2>1 DEF Ptr
    <2>3. QED
        BY <1>2, <1>3, <2>1, <2>2 DEF RootOK
<1>5. NodeOK(g, T2, R, root, before, n)
    <2>1. \A s \in Sides : g[n][s] = NULL /\ g[n][Other(s)] = NULL
        BY <1>1, <1>2, OtherSide DEF SameLinks
    <2>2. g[n].parent \in R /\ \E s \in Sides : g[g[n].parent][s] = n
        BY <1>2
    <2>3. QED
        BY <1>3, <2>1, <2>2 DEF NodeOK
<1>6. ASSUME NEW x \in S PROVE NodeOK(g, T2, R, root, before, x)
    <2>1. x \in Nodes \ {n} /\ x \in Ptr \ {n} /\ x \in Nodes
        BY <1>1 DEF Ptr
    <2>2. ASSUME NEW s \in Sides
          PROVE  /\ g[x][s] \in R \cup {NULL}
                 /\ g[x][s] # NULL => g[g[x][s]].parent = x
                 /\ \A y \in T2[g[x][s]] : On(before, y, x, s)
                 /\ T2[x] = T2[g[x][s]] \cup {x} \cup T2[g[x][Other(s)]]
        <3> DEFINE o == Other(s)
                   c == h[x][s]
                   e == h[x][o]
        <3>1. o \in Sides /\ o # s /\ Other(o) = s /\ \A t \in Sides : t = s \/ t = o
            BY OtherSide
        <3>2. Branch(h, T, S, x, s) /\ Branch(h, T, S, x, o)
            BY <3>1, Branches
        <3> HIDE DEF o
        <3>3. /\ c \in S \cup {NULL} /\ c \in Ptr \ {n} /\ e \in S \cup {NULL} /\ e \in Ptr \ {n}
              /\ T[x] = T[c] \cup {x} \cup T[e] /\ T[c] \cap T[e] = {}
              /\ x \notin T[c] /\ x \notin T[e] /\ x \in T[x]
            BY <1>1, <3>1, <3>2 DEF Branch, o
        <3>4. /\ \A y \in T[c] : On(before, y, x, s)
              /\ c # NULL => h[c].parent = x
            BY DEF Tree, NodeOK
        <3> HIDE DEF c, e
        <3>5. /\ T2[c] = IF at \in T[c] THEN T[c] \cup {n} ELSE T[c]
              /\ T2[e] = IF at \in T[e] THEN T[e] \cup {n} ELSE T[e]
              /\ T2[x] = IF at \in T[x] THEN T[x] \cup {n} ELSE T[x]
            BY <1>3, <2>1, <3>3
        <3>6. at \in T[c] => On(before, n, x, s)
            BY DEF Belongs, c
        <3>7. CASE x # at
            <4>1. g[x][s] = c /\ g[x][o] = e
                BY <1>2, <2>1, <3>1, <3>7 DEF SameLinks, c, e
            <4>2. c # NULL => g[c].parent = x
                <5>1. c # NULL => c \in Nodes \ {n}
                    BY <1>1, <3>3
                <5>2. QED
                    BY <1>2, <3>4, <5>1
            <4>3. \A y \in T2[c] : On(before, y, x, s)
                BY <3>4, <3>5, <3>6
            <4>4. T2[x] = T2[c] \cup {x} \cup T2[e]
                BY <3>3, <3>5, <3>7
            <4>5. QED
                BY <3>3, <4>1, <4>2, <4>3, <4>4 DEF o
        <3>8. CASE x = at /\ s = side
            <4>1. c = NULL /\ On(before, n, at, side)
                BY <3>8 DEF Belongs, c
            <4>2. g[x][s] = n /\ g[x][o] = e
                BY <1>2, <3>1, <3>8 DEF e
            <4>3. T2[x] = {n} \cup {x} \cup T2[e]
                BY <1>1, <3>3, <3>5, <3>8, <4>1
            <4>4. g[n].parent = x
                BY <1>2, <3>8
            <4>5. QED
                BY <1>3, <3>8, <4>1, <4>2, <4>3, <4>4 DEF o
        <3>9. CASE x = at /\ s # side
            <4>1. o = side
                BY <3>1, <3>9
            <4>2. e = NULL
                BY <3>9, <4>1 DEF Belongs, e
            <4>3. g[x][s] = c /\ g[x][o] = n
                BY <1>2, <3>9, <4>1 DEF c
            <4>4. T2[x] = T2[c] \cup {x} \cup {n}
                BY <1>1, <3>3, <3>5, <3>9, <4>2
            <4>5. c # NULL => g[c].parent = x
                <5>1. c # NULL => c \in Nodes \ {n}
                    BY <1>1, <3>3
                <5>2. QED
                    BY <1>2, <3>4, <5>1
            <4>6. \A y \in T2[c] : On(before, y, x, s)
                BY <3>4, <3>5, <3>6
            <4>7. QED
                BY <1>3, <3>3, <4>3, <4>4, <4>5, <4>6 DEF o
        <3>10. QED
            BY <3>7, <3>8, <3>9
    <2>3. x # root => g[x].parent \in R /\ \E s \in Sides : g[g[x].parent][s] = x
        <3> SUFFICES ASSUME x # root PROVE g[x].parent \in R /\ \E s \in Sides : g[g[x].parent][s] = x
            OBVIOUS
        <3> DEFINE q == h[x].parent
                   s == SideOf(h, q, x)
        <3>1. q \in S /\ q \in Nodes /\ h[q][s] = x /\ s \in Sides
            BY ParentFacts, SideOfTyped
        <3>2. g[x].parent = q
            BY <1>2, <2>1
        <3> HIDE DEF q, s
        <3>3. ~(q = at /\ s = side)
            BY <2>1, <3>1, NodesAssumption DEF Belongs
        <3>4. g[q][s] = x
            BY <1>2, <3>1, <3>3 DEF SameLinks
        <3>5. QED
            BY <3>1, <3>2, <3>4
    <2>4. QED
        BY <2>2, <2>3 DEF NodeOK
<1>7. QED
    BY <1>1, <1>2, <1>3, <1>4, <1>5, <1>6 DEF Tree, g, T2

\* The leaf is where fixAVL() begins.
LEMMA LeafClimbs ==
    ASSUME NEW h, NEW T, NEW S, NEW root, NEW before, Tree(h, T, S, root, before),
           \A x \in S : Kept(h, x),
           NEW n \in Nodes \ S, \A s \in Sides : h[n][s] = NULL,
           NEW at \in S, NEW side \in Sides, Belongs(h, T, before, n, at, side, S)
    PROVE  Climbs(Attached(h, n, at, side), WithLeaf(T, n, at), S \cup {n}, root, before, n, 0)
<1> DEFINE g == Attached(h, n, at, side)
           T2 == WithLeaf(T, n, at)
           R == S \cup {n}
<1>1. /\ h \in Heap /\ S \in SUBSET Nodes /\ at \in Nodes /\ at # n /\ n # NULL /\ n \in Nodes
      /\ root # n
    <2>1. root \in S
        BY RootFacts
    <2>2. QED
        BY <2>1, NodesAssumption DEF Tree
<1>2. /\ g \in Heap
      /\ g[n].parent = at /\ \A y \in Nodes \ {n} : g[y].parent = h[y].parent
      /\ g[at][side] = n /\ \A s \in Sides \ {side} : g[at][s] = h[at][s]
      /\ \A y \in Nodes \ {at} : SameLinks(g, h, y)
      /\ \A y \in Nodes : SameSizes(g, h, y)
    BY <1>1, AttachedIs
<1> HIDE DEF g, T2
<1>3. Tree(g, T2, R, root, before)
    BY LeafTree DEF g, T2
<1>4. ASSUME NEW x \in R, x # n, x # g[n].parent PROVE Kept(g, x)
    <2>1. x \in Nodes /\ Kept(h, x) /\ SameLinks(g, h, x) /\ SameSizes(g, h, x)
        BY <1>1, <1>2, <1>4
    <2>2. \A s \in Sides : h[x][s] # NULL => SameSizes(g, h, h[x][s])
        BY <1>1, <1>2, <2>1, HeapTyped DEF Ptr
    <2>3. QED
        BY <1>1, <1>2, <2>1, <2>2, KeptSame
<1>5. Stale(g, T2, R, root, before, n)
    BY <1>3, <1>4 DEF Stale
<1>6. Near(Depth(g, g[n].left), Depth(g, g[n].right), 0)
    <2>1. g[n].left = g[n]["left"] /\ g[n].right = g[n]["right"]
        BY <1>1, <1>2, HeapTyped
    <2>2. g[n].left = NULL /\ g[n].right = NULL
        BY <1>1, <1>2, <2>1 DEF SameLinks, Sides
    <2>3. QED
        BY <2>2 DEF Near, Close, Deeper, Depth
<1>7. Hangs(g, at, n, 0)
    <2> DEFINE o == Other(side)
               e == h[at][o]
    <2>1. o \in Sides /\ o # side
        BY OtherSide
    <2>2. e \in S \cup {NULL}
        <3>1. Branch(h, T, S, at, o)
            BY <2>1, Branches
        <3>2. QED
            BY <3>1 DEF Branch
    <2> HIDE DEF o
    <2>3. g[at][side] = n /\ g[at][o] = e /\ e # n /\ e \in Ptr
        BY <1>1, <1>2, <2>1, <2>2 DEF Ptr
    <2>4. SideOf(g, at, n) = side
        <3>1. g[at].left = g[at]["left"]
            BY <1>1, <1>2, HeapTyped
        <3>2. QED
            BY <2>3, <3>1 DEF SideOf, Sides, o, Other
    <2>5. KeptOn(h, at, side)
        BY <1>1, KeptSides
    <2>6. h[at][side] = NULL /\ Depth(h, NULL) = 0
        BY DEF Belongs, Depth
    <2>7. Depth(g, e) = Depth(h, e)
        BY <1>2, <2>3, DepthSame DEF Ptr
    <2>8. g[at].depth = h[at].depth
        BY <1>1, <1>2 DEF SameSizes
    <2>9. QED
        BY <2>3, <2>4, <2>5, <2>6, <2>7, <2>8 DEF KeptOn, Hangs, o
<1>8. QED
    BY <1>2, <1>5, <1>6, <1>7 DEF Climbs, g, T2

\* The node of a tree of one.
LEMMA AloneClimbs ==
    ASSUME NEW h \in Heap, NEW before, Order(before), NEW n \in Nodes,
           \A s \in Sides : h[n][s] = NULL, h[n].parent = NULL
    PROVE  \E T : Climbs(h, T, {n}, n, before, n, 0)
<1> DEFINE T == [x \in Ptr |-> IF x = n THEN {n} ELSE {}]
<1>1. n # NULL /\ n \in Ptr /\ NULL \in Ptr
    BY NodesAssumption DEF Ptr
<1>2. T \in [Ptr -> SUBSET {n}] /\ T[NULL] = {} /\ T[n] = {n}
    BY <1>1
<1> HIDE DEF T
<1>3. \A s \in Sides : h[n][s] = NULL /\ h[n][Other(s)] = NULL
    BY OtherSide
<1>4. NodeOK(h, T, {n}, n, before, n)
    BY <1>2, <1>3 DEF NodeOK
<1>5. Tree(h, T, {n}, n, before)
    BY <1>1, <1>2, <1>4 DEF Tree, RootOK
<1>6. Stale(h, T, {n}, n, before, n)
    BY <1>5 DEF Stale
<1>7. h[n].left = NULL /\ h[n].right = NULL
    BY HeapTyped DEF Sides
<1>8. Near(Depth(h, h[n].left), Depth(h, h[n].right), 0)
    BY <1>7 DEF Near, Close, Deeper, Depth
<1>9. Climbs(h, T, {n}, n, before, n, 0)
    BY <1>6, <1>8 DEF Climbs
<1>10. QED
    BY <1>9
------------------------------------------------------------------------------
(* Induction over a tree.                                                  *)

\* The subtree of a child is smaller.
LEMMA Smaller ==
    ASSUME NEW h, NEW T, NEW S, NEW root, NEW before, Tree(h, T, S, root, before)
    PROVE  /\ \A m \in S : IsFiniteSet(T[m]) /\ Cardinality(T[m]) \in Nat
           /\ \A m \in S, s \in Sides : h[m][s] # NULL =>
                  h[m][s] \in S /\ Cardinality(T[h[m][s]]) < Cardinality(T[m])
<1>1. S \subseteq Nodes /\ \A m \in S : T[m] \subseteq S
    BY DEF Tree, Ptr
<1>2. \A m \in S : IsFiniteSet(T[m]) /\ Cardinality(T[m]) \in Nat
    <2> SUFFICES ASSUME NEW m \in S PROVE IsFiniteSet(T[m]) /\ Cardinality(T[m]) \in Nat
        OBVIOUS
    <2>1. T[m] \subseteq Nodes
        BY <1>1
    <2>2. QED
        BY <2>1, NodesAssumption, FS_Subset, FS_CardinalityType
<1>3. ASSUME NEW m \in S, NEW s \in Sides, h[m][s] # NULL
      PROVE  h[m][s] \in S /\ Cardinality(T[h[m][s]]) < Cardinality(T[m])
    <2> DEFINE c == h[m][s]
    <2>1. Branch(h, T, S, m, s)
        BY <1>3, Branches
    <2>2. c \in S /\ T[c] \subseteq T[m] /\ m \in T[m] /\ m \notin T[c]
        BY <1>3, <2>1 DEF Branch
    <2> HIDE DEF c
    <2>3. T[c] \cup {m} \subseteq T[m] /\ IsFiniteSet(T[c]) /\ IsFiniteSet(T[m])
        BY <1>2, <2>2
    <2>4. /\ Cardinality(T[c] \cup {m}) = Cardinality(T[c]) + 1
          /\ Cardinality(T[c] \cup {m}) <= Cardinality(T[m])
        BY <2>2, <2>3, FS_AddElement, FS_Subset
    <2>5. Cardinality(T[c]) \in Nat /\ Cardinality(T[m]) \in Nat
        BY <1>2, <2>2
    <2>6. QED
        BY <2>2, <2>4, <2>5 DEF c
<1>4. QED
    BY <1>2, <1>3

\* Induction over a tree from its leaves, for a set of nodes.
LEMMA TreeInduction ==
    ASSUME NEW h, NEW T, NEW S, NEW root, NEW before, Tree(h, T, S, root, before),
           NEW P, \A m \in S : (\A s \in Sides : h[m][s] # NULL => h[m][s] \in P) => m \in P
    PROVE  S \subseteq P
<1> DEFINE size(m) == Cardinality(T[m])
           A == {k \in Nat : \A m \in S : size(m) <= k => m \in P}
<1>1. /\ \A m \in S : size(m) \in Nat
      /\ \A m \in S, s \in Sides : h[m][s] # NULL => h[m][s] \in S /\ size(h[m][s]) < size(m)
    BY Smaller
<1> HIDE DEF size
<1>2. 0 \in A
    <2> SUFFICES ASSUME NEW m \in S, size(m) <= 0 PROVE m \in P
        OBVIOUS
    <2>1. \A s \in Sides : h[m][s] # NULL => h[m][s] \in P
        BY <1>1
    <2>2. QED
        BY <2>1
<1>3. ASSUME NEW k \in Nat, k \in A PROVE k + 1 \in A
    <2> SUFFICES ASSUME NEW m \in S, size(m) <= k + 1 PROVE m \in P
        OBVIOUS
    <2>1. ASSUME NEW s \in Sides, h[m][s] # NULL PROVE h[m][s] \in P
        <3>1. h[m][s] \in S /\ size(h[m][s]) <= k
            BY <1>1, <2>1
        <3>2. QED
            BY <1>3, <3>1
    <2>2. QED
        BY <2>1
<1>4. \A k \in Nat : k \in A
    <2> HIDE DEF A
    <2>1. QED
        BY <1>2, <1>3, Induction
<1>5. QED
    BY <1>1, <1>4

\* The subtree of a node of a subtree lies in it.
LEMMA Nested ==
    ASSUME NEW h, NEW T, NEW S, NEW root, NEW before, Tree(h, T, S, root, before)
    PROVE  \A m \in S : \A x \in T[m] : x \in S /\ T[x] \subseteq T[m]
<1> DEFINE P == {m \in S : \A x \in T[m] : x \in S /\ T[x] \subseteq T[m]}
<1>1. ASSUME NEW m \in S, \A s \in Sides : h[m][s] # NULL => h[m][s] \in P PROVE m \in P
    <2> SUFFICES ASSUME NEW x \in T[m] PROVE x \in S /\ T[x] \subseteq T[m]
        OBVIOUS
    <2>1. Branch(h, T, S, m, "left") /\ "left" \in Sides /\ "right" \in Sides /\ Other("left") = "right"
        BY Branches DEF Sides, Other
    <2>2. T[m] = T[h[m]["left"]] \cup {m} \cup T[h[m]["right"]] /\ T[NULL] = {}
        BY <2>1 DEF Branch
    <2>3. CASE x = m
        BY <2>3
    <2>4. CASE x \in T[h[m]["left"]]
        BY <1>1, <2>1, <2>2, <2>4
    <2>5. CASE x \in T[h[m]["right"]]
        BY <1>1, <2>1, <2>2, <2>5
    <2>6. QED
        BY <2>2, <2>3, <2>4, <2>5
<1> HIDE DEF P
<1>2. S \subseteq P
    BY <1>1, TreeInduction
<1>3. QED
    BY <1>2 DEF P

\* The nodes that are in no tree have no children.
Loose(h, S) == \A y \in Nodes \ S, s \in Sides : h[y][s] = NULL
------------------------------------------------------------------------------
(* Removing a node with one child or none.                                 *)

Without(T, m) == [x \in Ptr |-> T[x] \ {m}]

\* m's left child takes the place of m, which has no right child.
Lifted(h, m) ==
    LET lifted == SetParent(h, h[m].left, h[m].parent)
        p == h[m].parent
    IN  IF p = NULL THEN lifted ELSE WithLink(lifted, p, SideOf(lifted, p, m), h[m].left)

\* What lifting a child to the place of its parent does to the fields.
LEMMA LiftedIs ==
    ASSUME NEW h, NEW T, NEW S, NEW root, NEW before, Tree(h, T, S, root, before),
           NEW m \in S, h[m].right = NULL,
           NEW c, c = h[m].left, NEW p, p = h[m].parent, NEW g, g = Lifted(h, m)
    PROVE  /\ g \in Heap
           /\ c \in (S \cup {NULL}) \ {m} /\ p \in (S \cup {NULL}) \ {m}
           /\ c = h[m]["left"] /\ h[m]["right"] = NULL
           /\ c # NULL => g[c].parent = p /\ h[c].parent = m /\ c # p
           /\ \A y \in Nodes \ {c} : g[y].parent = h[y].parent
           /\ \A y \in Nodes : SameSizes(g, h, y)
           /\ \A y \in Nodes \ {p} : SameLinks(g, h, y)
           /\ p # NULL => /\ g[p][SideOf(h, p, m)] = c /\ h[p][SideOf(h, p, m)] = m
                          /\ SideOf(h, p, m) \in Sides
                          /\ g[p][Other(SideOf(h, p, m))] = h[p][Other(SideOf(h, p, m))]
                          /\ h[p][Other(SideOf(h, p, m))] # m
           /\ p = NULL <=> m = root
<1> DEFINE k == SetParent(h, c, p)
           s == SideOf(h, p, m)
<1>1. h \in Heap /\ S \subseteq Nodes /\ m \in Nodes /\ m # NULL /\ NULL \notin S
    BY NodesAssumption DEF Tree
<1>2. c = h[m]["left"] /\ h[m]["right"] = NULL /\ c \in Ptr /\ p \in Ptr
    BY <1>1, HeapTyped
<1>3. c \in (S \cup {NULL}) \ {m} /\ (c # NULL => h[c].parent = m /\ c \in T[m])
    <2>1. Branch(h, T, S, m, "left") /\ "left" \in Sides
        BY Branches DEF Sides
    <2>2. NodeOK(h, T, S, root, before, m)
        BY DEF Tree
    <2>3. h[m]["left"] # NULL => h[h[m]["left"]].parent = m
        BY <2>1, <2>2 DEF NodeOK
    <2>4. h[m]["left"] # m /\ (h[m]["left"] # NULL => h[m]["left"] \in T[m]) /\ h[m]["left"] \in S \cup {NULL}
        BY <2>1 DEF Branch
    <2>5. QED
        BY <1>2, <2>3, <2>4
<1>4. p = NULL <=> m = root
    BY RootFacts
<1>5. p # NULL => /\ p \in S /\ p # m /\ p \notin T[m] /\ h[p][s] = m /\ h[p][Other(s)] # m
                  /\ s \in Sides /\ Other(s) \in Sides /\ Other(s) # s
    BY <1>4, ParentFacts, SideOfTyped, OtherSide
<1>6. /\ k \in Heap
      /\ c # NULL => k[c].parent = p
      /\ \A y \in Nodes \ {c} : k[y] = h[y]
      /\ \A y \in Nodes : SameLinks(k, h, y) /\ SameSizes(k, h, y)
    BY <1>1, <1>2, SetParentIs
<1>7. g = IF p = NULL THEN k ELSE WithLink(k, p, SideOf(k, p, m), c)
    BY DEF Lifted
<1>8. p # NULL => SideOf(k, p, m) = s
    <2>1. p # NULL => k[p].left = k[p]["left"] /\ h[p].left = h[p]["left"] /\ k[p]["left"] = h[p]["left"]
        BY <1>1, <1>5, <1>6, HeapTyped DEF SameLinks, Sides
    <2>2. QED
        BY <2>1 DEF SideOf
<1> HIDE DEF k, s
<1>9. CASE p = NULL
    <2>1. g = k
        BY <1>7, <1>9
    <2>2. QED
        BY <1>1, <1>2, <1>3, <1>4, <1>5, <1>6, <1>9, <2>1
<1>10. CASE p # NULL
    <2>1. g = WithLink(k, p, s, c)
        BY <1>7, <1>8, <1>10
    <2>2. /\ g \in Heap
          /\ g[p][s] = c /\ \A t \in Sides \ {s} : g[p][t] = k[p][t]
          /\ \A y \in Nodes \ {p} : g[y] = k[y]
          /\ \A y \in Nodes : g[y].parent = k[y].parent /\ SameSizes(g, k, y)
        <3>1. p \in Nodes /\ s \in Sides /\ c \in Ptr /\ k \in Heap
            BY <1>1, <1>2, <1>5, <1>6, <1>10
        <3> DEFINE gg == WithLink(k, p, s, c)
        <3>2. /\ gg \in Heap
              /\ gg[p][s] = c /\ \A t \in Sides \ {s} : gg[p][t] = k[p][t]
              /\ \A y \in Nodes \ {p} : gg[y] = k[y]
              /\ \A y \in Nodes : gg[y].parent = k[y].parent /\ SameSizes(gg, k, y)
            BY <3>1, SetLink
        <3> HIDE DEF gg
        <3>3. g = gg
            BY <2>1 DEF gg
        <3>4. QED
            BY <3>2, <3>3
    <2>3. g[p][Other(s)] = h[p][Other(s)]
        BY <1>1, <1>5, <1>6, <1>10, <2>2 DEF SameLinks
    <2>4. c # NULL => g[c].parent = p /\ c # p
        BY <1>1, <1>3, <1>5, <1>6, <1>10, <2>2
    <2>5. \A y \in Nodes \ {c} : g[y].parent = h[y].parent
        BY <1>6, <2>2
    <2>6. \A y \in Nodes : SameSizes(g, h, y)
        BY <1>6, <2>2 DEF SameSizes
    <2>7. \A y \in Nodes \ {p} : SameLinks(g, h, y)
        BY <1>6, <2>2 DEF SameLinks
    <2>8. QED
        BY <1>2, <1>3, <1>4, <1>5, <1>10, <2>2, <2>3, <2>4, <2>5, <2>6, <2>7 DEF s
<1>11. QED
    BY <1>9, <1>10

\* The tree without a node whose only child takes its place.
LEMMA LiftTree ==
    ASSUME NEW h, NEW T, NEW S, NEW root, NEW before, Tree(h, T, S, root, before),
           NEW m \in S, h[m].right = NULL
    PROVE  Tree(Lifted(h, m), Without(T, m), S \ {m}, IF m = root THEN h[m].left ELSE root, before)
<1> DEFINE c == h[m].left
           p == h[m].parent
           g == Lifted(h, m)
           T2 == Without(T, m)
           R == S \ {m}
           top == IF m = root THEN c ELSE root
           s == SideOf(h, p, m)
<1>1. /\ h \in Heap /\ S \in SUBSET Nodes /\ Order(before) /\ m \in Nodes /\ m # NULL /\ NULL \notin S
      /\ T \in [Ptr -> SUBSET S] /\ T[NULL] = {} /\ RootOK(h, T, S, root)
    BY NodesAssumption DEF Tree
<1> HIDE DEF g, p, c
<1>2. /\ g \in Heap
      /\ c \in (S \cup {NULL}) \ {m} /\ p \in (S \cup {NULL}) \ {m}
      /\ c = h[m]["left"] /\ h[m]["right"] = NULL
      /\ c # NULL => g[c].parent = p /\ h[c].parent = m /\ c # p
      /\ \A y \in Nodes \ {c} : g[y].parent = h[y].parent
      /\ \A y \in Nodes \ {p} : SameLinks(g, h, y)
      /\ p # NULL => /\ g[p][s] = c /\ h[p][s] = m
                     /\ s \in Sides
                     /\ g[p][Other(s)] = h[p][Other(s)]
                     /\ h[p][Other(s)] # m
      /\ p = NULL <=> m = root
    BY LiftedIs DEF g, p, c
<1> HIDE DEF T2, s
<1>3. T2 \in [Ptr -> SUBSET R] /\ \A x \in Ptr : T2[x] = T[x] \ {m}
    BY <1>1 DEF Without, T2
<1>4. T[m] = T[c] \cup {m} /\ m \notin T[c]
    <2>1. Branch(h, T, S, m, "left") /\ Other("left") = "right"
        BY Branches DEF Sides, Other
    <2>2. QED
        BY <1>1, <1>2, <2>1 DEF Branch
<1>5. root \in S /\ root \in Nodes /\ root # NULL /\ T[root] = S /\ h[root].parent = NULL
    BY <1>1, RootFacts
<1>6. RootOK(g, T2, R, top)
    <2>1. c \in Ptr /\ root \in Ptr /\ (c # NULL => c \in Nodes)
        BY <1>1, <1>2, <1>5 DEF Ptr
    <2>2. CASE m = root
        <3>1. T2[c] = R /\ p = NULL
            BY <1>2, <1>3, <1>4, <1>5, <2>1, <2>2
        <3>2. CASE c = NULL
            BY <1>1, <1>3, <2>1, <2>2, <3>1, <3>2 DEF RootOK
        <3>3. CASE c # NULL
            BY <1>2, <2>2, <3>1, <3>3 DEF RootOK
        <3>4. QED
            BY <3>2, <3>3
    <2>3. CASE m # root
        <3>1. p # NULL /\ root # c
            BY <1>1, <1>2, <1>5, <2>3
        <3>2. g[root].parent = NULL
            BY <1>2, <1>5, <3>1
        <3>3. QED
            BY <1>3, <1>5, <2>1, <2>3, <3>2 DEF RootOK
    <2>4. QED
        BY <2>2, <2>3
<1>7. ASSUME NEW x \in R PROVE NodeOK(g, T2, R, top, before, x)
    <2>1. x \in S /\ x # m /\ x \in Nodes /\ x \in Ptr /\ x # NULL
        BY <1>1 DEF Ptr
    <2>2. ASSUME NEW t \in Sides
          PROVE  /\ g[x][t] \in R \cup {NULL}
                 /\ g[x][t] # NULL => g[g[x][t]].parent = x
                 /\ \A y \in T2[g[x][t]] : On(before, y, x, t)
                 /\ T2[g[x][t]] = T[h[x][t]] \ {m}
        <3> DEFINE e == h[x][t]
        <3>1. Branch(h, T, S, x, t)
            BY <2>1, Branches
        <3>2. e \in S \cup {NULL} /\ e \in Ptr
            BY <3>1 DEF Branch
        <3>3. /\ \A y \in T[e] : On(before, y, x, t)
              /\ e # NULL => h[e].parent = x
            BY <2>1 DEF Tree, NodeOK
        <3> HIDE DEF e
        <3>4. CASE x = p /\ t = s
            <4>1. e = m /\ g[x][t] = c
                BY <1>2, <2>1, <3>4 DEF e
            <4>2. T2[c] = T[e] \ {m}
                BY <1>1, <1>2, <1>3, <1>4, <4>1 DEF Ptr
            <4>3. QED
                BY <1>2, <3>3, <3>4, <4>1, <4>2 DEF e
        <3>5. CASE ~(x = p /\ t = s)
            <4>1. g[x][t] = e /\ e # m
                <5>1. CASE x = p
                    <6>1. t = Other(s)
                        BY <1>2, <2>1, <3>5, <5>1, OtherSide
                    <6>2. QED
                        BY <1>2, <2>1, <5>1, <6>1 DEF e
                <5>2. CASE x # p
                    <6>1. g[x][t] = e
                        BY <1>2, <2>1, <5>2 DEF SameLinks, e
                    <6>2. e # m
                        BY <1>1, <3>3, <5>2 DEF p
                    <6>3. QED
                        BY <6>1, <6>2
                <5>3. QED
                    BY <5>1, <5>2
            <4>2. e # NULL => e \in Nodes /\ e # c
                BY <1>1, <1>2, <2>1, <3>2, <3>3
            <4>3. e # NULL => g[e].parent = x
                BY <1>2, <3>3, <4>2
            <4>4. T2[e] = T[e] \ {m}
                BY <1>3, <3>2
            <4>5. QED
                BY <3>2, <3>3, <4>1, <4>3, <4>4 DEF e
        <3>6. QED
            BY <3>4, <3>5
    <2>3. ASSUME NEW t \in Sides PROVE T2[x] = T2[g[x][t]] \cup {x} \cup T2[g[x][Other(t)]]
        <3>1. Branch(h, T, S, x, t) /\ Other(t) \in Sides
            BY <2>1, Branches, OtherSide
        <3>2. T[x] = T[h[x][t]] \cup {x} \cup T[h[x][Other(t)]]
            BY <3>1 DEF Branch
        <3>3. T2[g[x][t]] = T[h[x][t]] \ {m} /\ T2[g[x][Other(t)]] = T[h[x][Other(t)]] \ {m}
            BY <2>2, <3>1
        <3>4. T2[x] = T[x] \ {m}
            BY <1>3, <2>1
        <3>5. QED
            BY <2>1, <3>2, <3>3, <3>4
    <2>4. x # top => g[x].parent \in R /\ \E t \in Sides : g[g[x].parent][t] = x
        <3> SUFFICES ASSUME x # top PROVE g[x].parent \in R /\ \E t \in Sides : g[g[x].parent][t] = x
            OBVIOUS
        <3>1. CASE x = c
            <4>1. m # root /\ p # NULL /\ g[x].parent = p
                BY <1>2, <2>1, <3>1
            <4>2. QED
                BY <1>2, <3>1, <4>1
        <3>2. CASE x # c
            <4> DEFINE q == h[x].parent
                       z == SideOf(h, q, x)
            <4>1. x # root
                <5>1. x = root => m = root
                    BY <3>2
                <5>2. QED
                    BY <2>1, <5>1
            <4>2. q \in S /\ q \in Nodes /\ h[q][z] = x /\ z \in Sides
                BY <2>1, <4>1, ParentFacts, SideOfTyped
            <4>3. g[x].parent = q
                BY <1>2, <2>1, <3>2
            <4> HIDE DEF q, z
            <4>4. q # m
                BY <1>2, <2>1, <3>2, <4>2 DEF Sides
            <4>5. ~(q = p /\ z = s)
                BY <1>1, <1>2, <2>1, <4>2
            <4>6. g[q][z] = x
                <5>1. CASE q = p
                    <6>1. z = Other(s) /\ p # NULL
                        BY <1>1, <1>2, <4>2, <4>5, <5>1, OtherSide
                    <6>2. QED
                        BY <1>2, <4>2, <5>1, <6>1
                <5>2. CASE q # p
                    BY <1>2, <4>2, <5>2 DEF SameLinks
                <5>3. QED
                    BY <5>1, <5>2
            <4>7. QED
                BY <4>2, <4>3, <4>4, <4>6
        <3>3. QED
            BY <3>1, <3>2
    <2>5. QED
        BY <2>2, <2>3, <2>4 DEF NodeOK
<1>8. T2[NULL] = {}
    BY <1>1, <1>3 DEF Ptr
<1>9. QED
    BY <1>1, <1>2, <1>3, <1>6, <1>7, <1>8 DEF Tree, g, T2, c

\* m has been taken out of the tree of S.
Cut(h, r, S, before, m) ==
    /\ \E T : Tree(r.heap, T, S \ {m}, r.top, before)
    /\ \A x \in S \ {m} : Kept(r.heap, x)
    /\ \A y \in Nodes \ S : r.heap[y] = h[y]

\* After that, only the parent may be out of balance, and fixAVL() climbs from there.
LEMMA LiftKeeps ==
    ASSUME NEW h, NEW T, NEW S, NEW root, NEW before, Tree(h, T, S, root, before),
           \A x \in S : Kept(h, x),
           NEW m \in S, h[m].right = NULL
    PROVE  LET g == Lifted(h, m)
               p == h[m].parent
           IN  /\ \A x \in S \ {m} : x # p => Kept(g, x)
               /\ \A y \in Nodes \ S : g[y] = h[y]
               /\ p # NULL => Climbs(g, Without(T, m), S \ {m}, root, before, p, g[p].depth)
<1> DEFINE c == h[m].left
           p == h[m].parent
           g == Lifted(h, m)
           s == SideOf(h, p, m)
<1> HIDE DEF g, p, c
<1>1. /\ h \in Heap /\ S \subseteq Nodes /\ NULL \notin S
    BY NodesAssumption DEF Tree
<1>2. /\ g \in Heap
      /\ c \in (S \cup {NULL}) \ {m} /\ p \in (S \cup {NULL}) \ {m}
      /\ c = h[m]["left"] /\ h[m]["right"] = NULL
      /\ c # NULL => h[c].parent = m
      /\ \A y \in Nodes \ {c} : g[y].parent = h[y].parent
      /\ \A y \in Nodes : SameSizes(g, h, y)
      /\ \A y \in Nodes \ {p} : SameLinks(g, h, y)
      /\ p # NULL => /\ g[p][s] = c /\ h[p][s] = m
                     /\ s \in Sides
                     /\ g[p][Other(s)] = h[p][Other(s)]
      /\ p = NULL <=> m = root
    BY LiftedIs DEF g, p, c
<1> HIDE DEF s
<1>3. ASSUME NEW x \in S \ {m}, x # p PROVE Kept(g, x)
    <2>1. x \in Nodes /\ SameLinks(g, h, x) /\ SameSizes(g, h, x) /\ Kept(h, x)
        BY <1>1, <1>2, <1>3
    <2>2. \A t \in Sides : h[x][t] # NULL => SameSizes(g, h, h[x][t])
        BY <1>1, <1>2, <2>1, HeapTyped DEF Ptr
    <2>3. QED
        BY <1>1, <1>2, <2>1, <2>2, KeptSame
<1>4. ASSUME NEW y \in Nodes \ S PROVE g[y] = h[y]
    <2>1. y # p /\ y # c
        BY <1>2, <1>4, NodesAssumption
    <2>2. SameLinks(g, h, y) /\ SameSizes(g, h, y) /\ g[y].parent = h[y].parent
        BY <1>2, <2>1
    <2>3. QED
        BY <1>1, <1>2, <2>2, NodeSame
<1>5. ASSUME p # NULL PROVE Climbs(g, Without(T, m), S \ {m}, root, before, p, g[p].depth)
    <2> DEFINE R == S \ {m}
               q == h[p][Other(s)]
               d == h[m].depth
    <2>1. Tree(g, Without(T, m), R, root, before)
        <3>1. m # root
            BY <1>2, <1>5
        <3>2. Tree(g, Without(T, m), R, IF m = root THEN h[m].left ELSE root, before)
            BY LiftTree DEF g
        <3> HIDE DEF R
        <3>3. QED
            BY <3>1, <3>2
    <2>2. p \in R /\ p \in Nodes /\ m \in Nodes /\ s \in Sides /\ Other(s) \in Sides
        BY <1>1, <1>2, <1>5, OtherSide
    <2>3. q \in Ptr /\ c \in Ptr /\ d \in Nat
        BY <1>1, <1>2, <2>2, HeapTyped DEF Ptr
    <2>4. Depth(g, c) = Depth(h, c) /\ Depth(g, q) = Depth(h, q)
        BY <1>2, <2>3, DepthSame DEF Ptr
    <2>5. Depth(h, c) \in Nat /\ Depth(h, q) \in Nat
        BY <1>1, <2>3, DepthTyped
    <2>6. d = 1 + Deeper(Depth(h, c), 0) /\ Close(Depth(h, c), 0)
        <3>1. KeptOn(h, m, "left") /\ Other("left") = "right"
            BY DEF Kept, Other
        <3>2. Depth(h, NULL) = 0
            BY DEF Depth
        <3>3. QED
            BY <1>2, <3>1, <3>2 DEF KeptOn
    <2>7. h[p].depth = 1 + Deeper(d, Depth(h, q)) /\ Close(d, Depth(h, q))
        <3>1. KeptOn(h, p, s)
            BY <1>1, <2>2, KeptSides
        <3>2. Depth(h, m) = d
            BY <1>1 DEF Depth
        <3>3. QED
            BY <1>2, <1>5, <3>1, <3>2 DEF KeptOn
    <2> HIDE DEF R, q, d
    <2>8. g[p].depth = h[p].depth
        BY <1>2, <2>2 DEF SameSizes
    <2>9. /\ g[p].depth = 1 + Deeper(d, Depth(g, g[p][Other(s)]))
          /\ Close(d, Depth(g, g[p][Other(s)])) /\ Close(Depth(g, g[p][s]), d)
        <3>1. g[p][Other(s)] = q /\ g[p][s] = c
            BY <1>2, <1>5 DEF q
        <3>2. Close(Depth(h, c), d)
            BY <2>3, <2>5, <2>6 DEF Close, Deeper
        <3>3. QED
            BY <2>4, <2>7, <2>8, <3>1, <3>2
    <2>10. \A x \in R : x # p => Kept(g, x)
        BY <1>3 DEF R
    <2>11. Climbs(g, Without(T, m), R, root, before, p, g[p].depth)
        BY <2>1, <2>2, <2>3, <2>9, <2>10, ClimbsAt
    <2>12. QED
        BY <2>11 DEF R
<1>6. QED
    BY <1>3, <1>4, <1>5 DEF g, p

\* delAVL() of a node without right child.
LEMMA CutLeaf ==
    ASSUME NEW h, NEW T, NEW S, NEW root, NEW before, Tree(h, T, S, root, before),
           \A x \in S : Kept(h, x),
           NEW m \in S, h[m].right = NULL,
           NEW r, r = IF h[m].parent # NULL THEN FixAVL(Lifted(h, m), h[m].parent)
                      ELSE [heap |-> Lifted(h, m), top |-> h[m].left]
    PROVE  Cut(h, r, S, before, m)
<1> DEFINE p == h[m].parent
           g == Lifted(h, m)
           R == S \ {m}
<1>1. m \in R \/ m \notin R
    OBVIOUS
<1>2. /\ \A x \in R : x # p => Kept(g, x)
      /\ \A y \in Nodes \ S : g[y] = h[y]
      /\ p # NULL => Climbs(g, Without(T, m), R, root, before, p, g[p].depth)
    <2> HIDE DEF g
    <2>1. QED
        BY LiftKeeps DEF g
<1>3. Tree(g, Without(T, m), R, IF m = root THEN h[m].left ELSE root, before)
    BY LiftTree
<1> HIDE DEF g, R
<1>4. CASE p # NULL
    <2>1. r = FixAVL(g, p)
        BY <1>4 DEF g
    <2>2. Fitted(g, r.heap, r.top, R, before)
        BY <1>2, <1>4, <2>1, FixAVLFits
    <2>3. QED
        BY <1>2, <2>2 DEF Fitted, Cut, R
<1>5. CASE p = NULL
    <2>1. r = [heap |-> g, top |-> h[m].left]
        BY <1>5 DEF g
    <2>2. m = root
        BY <1>5, RootFacts
    <2>3. \A x \in R : x # NULL
        BY NodesAssumption DEF R, Tree
    <2>4. QED
        BY <1>2, <1>3, <1>5, <2>1, <2>2, <2>3 DEF Cut, R
<1>6. QED
    BY <1>4, <1>5
------------------------------------------------------------------------------
(* The successor of a node.                                                *)

\* A node outside a subtree has all of it on one side.
LEMMA Convex ==
    ASSUME NEW h, NEW T, NEW S, NEW root, NEW before, Tree(h, T, S, root, before), NEW m \in S
    PROVE  \A x \in S \ T[m] : \E s \in Sides : \A y \in T[m] : On(before, y, x, s)
<1> DEFINE P == {r \in S : m \in T[r] => \A x \in T[r] \ T[m] : \E s \in Sides : \A y \in T[m] : On(before, y, x, s)}
<1>1. S \subseteq Nodes /\ Order(before) /\ \A r \in S : T[r] \subseteq S
    BY DEF Tree, Ptr
<1>2. ASSUME NEW r \in S, \A s \in Sides : h[r][s] # NULL => h[r][s] \in P PROVE r \in P
    <2> SUFFICES ASSUME m \in T[r], NEW x \in T[r] \ T[m]
                 PROVE  \E s \in Sides : \A y \in T[m] : On(before, y, x, s)
        OBVIOUS
    <2>1. r # m /\ r \in Nodes
        BY <1>1
    <2>2. PICK s \in Sides : m \in T[h[r][s]]
        <3>1. Branch(h, T, S, r, "left") /\ Other("left") = "right"
            BY Branches DEF Sides, Other
        <3>2. QED
            BY <2>1, <3>1 DEF Branch, Sides
    <2> DEFINE o == Other(s)
               c == h[r][s]
               d == h[r][o]
    <2>3. /\ o \in Sides /\ Branch(h, T, S, r, s) /\ NodeOK(h, T, S, root, before, r)
        BY OtherSide, Branches DEF Tree
    <2>4. /\ T[r] = T[c] \cup {r} \cup T[d] /\ T[c] \subseteq S /\ T[d] \subseteq S
        BY <1>1, <2>3 DEF Branch
    <2>5. (\A y \in T[c] : On(before, y, r, s)) /\ (\A y \in T[d] : On(before, y, r, o))
        BY <2>3 DEF NodeOK
    <2>6. c \in P /\ c \in S
        <3>1. c # NULL
            BY <2>2 DEF Tree
        <3>2. QED
            BY <1>2, <3>1, Smaller
    <2> HIDE DEF o, c, d
    <2>7. T[m] \subseteq T[c]
        BY <2>2, <2>6, Nested DEF c
    <2>8. CASE x = r
        BY <2>5, <2>7, <2>8
    <2>9. CASE x \in T[c]
        BY <2>2, <2>6, <2>9 DEF c
    <2>10. CASE x \in T[d]
        <3>1. On(before, x, r, o) /\ x \in Nodes
            BY <1>1, <2>5, <2>10
        <3>2. On(before, r, x, s)
            BY <1>1, <2>1, <3>1, OnFacts DEF o
        <3>3. \A y \in T[m] : On(before, y, x, s)
            BY <1>1, <2>1, <2>4, <2>5, <2>7, <3>1, <3>2, OnFacts
        <3>4. QED
            BY <3>3
    <2>11. QED
        BY <2>4, <2>8, <2>9, <2>10
<1> HIDE DEF P
<1>3. S \subseteq P
    BY <1>2, TreeInduction
<1>4. root \in S /\ T[root] = S
    BY RootFacts
<1>5. m \in T[root]
    BY <1>4
<1>6. QED
    BY <1>3, <1>4, <1>5 DEF P
Downs(f, h) == f = [m \in Nodes |-> IF h[m].left = NULL THEN m ELSE f[h[m].left]]

\* The way down to the left is a function.
LEMMA DownsExist ==
    ASSUME NEW h, NEW T, NEW S, NEW root, NEW before, Tree(h, T, S, root, before), Loose(h, S)
    PROVE  \E f : Downs(f, h)
<1> DEFINE next(f, m) == IF h[m].left = NULL THEN m ELSE f[h[m].left]
           rank == [m \in Nodes |-> IF m \in S THEN Cardinality(T[m]) ELSE 0]
           G == [f \in [Nodes -> Nodes] |-> [m \in Nodes |-> next(f, m)]]
<1>1. h \in Heap /\ \A m \in Nodes : h[m].left = h[m]["left"] /\ h[m].left \in Nodes \cup {NULL}
    BY HeapTyped DEF Tree, Ptr
<1>2. CASE Nodes = {}
    <2>1. Downs([m \in Nodes |-> 0], h)
        BY <1>2 DEF Downs
    <2>2. QED
        BY <2>1
<1>3. CASE Nodes # {}
    <2>1. rank \in [Nodes -> Nat]
        <3>1. \A m \in S : Cardinality(T[m]) \in Nat
            BY Smaller
        <3>2. QED
            BY <3>1
    <2>2. ASSUME NEW f \in [Nodes -> Nodes], NEW m \in Nodes PROVE next(f, m) \in Nodes
        BY <1>1
    <2>3. \A f \in [Nodes -> Nodes], m \in Nodes : G[f][m] = next(f, m)
        OBVIOUS
    <2>4. G \in [[Nodes -> Nodes] -> [Nodes -> Nodes]]
        BY <2>2
    <2>5. Ranked(Nodes, Nodes, rank, G)
        <3> SUFFICES ASSUME NEW m \in Nodes, NEW f \in [Nodes -> Nodes], NEW g \in [Nodes -> Nodes],
                            \A y \in Nodes : rank[y] < rank[m] => f[y] = g[y]
                     PROVE  next(f, m) = next(g, m)
            BY <2>3 DEF Ranked
        <3>1. CASE h[m].left = NULL
            BY <3>1
        <3>2. CASE h[m].left # NULL
            <4>1. m \in S
                BY <1>1, <3>2 DEF Loose, Sides
            <4>2. h[m]["left"] \in S /\ Cardinality(T[h[m]["left"]]) < Cardinality(T[m])
                BY <1>1, <3>2, <4>1, Smaller DEF Sides
            <4>3. rank[h[m].left] < rank[m]
                BY <1>1, <3>2, <4>1, <4>2
            <4>4. f[h[m].left] = g[h[m].left]
                BY <1>1, <3>2, <4>3
            <4>5. QED
                BY <3>2, <4>4
        <3>3. QED
            BY <3>1, <3>2
    <2> HIDE DEF G, rank
    <2>6. PICK f : Defines(f, Nodes, Nodes, G)
        BY <1>3, <2>1, <2>4, <2>5, RankedFunction
    <2>7. f \in [Nodes -> Nodes] /\ \A m \in Nodes : f[m] = next(f, m)
        BY <2>3, <2>6 DEF Defines
    <2>8. f = [m \in Nodes |-> next(f, m)]
        <3> HIDE DEF next
        <3>1. QED
            BY <2>7
    <2>9. Downs(f, h)
        BY <2>8 DEF Downs
    <2>10. QED
        BY <2>9
<1>4. QED
    BY <1>2, <1>3

\* LeftMost() finds the first node of a subtree.
LEMMA LeftMostIs ==
    ASSUME NEW h, NEW T, NEW S, NEW root, NEW before, Tree(h, T, S, root, before), Loose(h, S),
           NEW n \in S
    PROVE  LET v == LeftMost(h, n)
           IN  v \in T[n] /\ \A x \in T[n] : x = v \/ On(before, v, x, "left")
<1> DEFINE f == CHOOSE down : Downs(down, h)
           P == {m \in S : f[m] \in T[m] /\ \A x \in T[m] : x = f[m] \/ On(before, f[m], x, "left")}
<1>1. LeftMost(h, n) = f[n]
    BY DEF LeftMost, Downs
<1>2. Downs(f, h)
    BY DownsExist
<1> HIDE DEF f
<1>3. S \subseteq Nodes /\ Order(before) /\ \A r \in S : T[r] \subseteq S
    BY DEF Tree, Ptr
<1>4. ASSUME NEW m \in S, \A s \in Sides : h[m][s] # NULL => h[m][s] \in P PROVE m \in P
    <2> DEFINE c == h[m]["left"]
               d == h[m]["right"]
    <2>1. /\ "left" \in Sides /\ "right" \in Sides /\ Other("left") = "right" /\ Other("right") = "left"
          /\ Branch(h, T, S, m, "left") /\ NodeOK(h, T, S, root, before, m)
        BY Branches DEF Sides, Other, Tree
    <2>2. /\ T[m] = T[c] \cup {m} \cup T[d] /\ m \in T[m] /\ T[NULL] = {}
          /\ (\A y \in T[c] : On(before, y, m, "left")) /\ (\A y \in T[d] : On(before, y, m, "right"))
        BY <2>1 DEF Branch, NodeOK
    <2>3. f[m] = IF c = NULL THEN m ELSE f[c]
        <3>1. m \in Nodes /\ h[m].left = c
            BY <1>3, HeapTyped DEF Tree
        <3>2. QED
            BY <1>2, <3>1 DEF Downs
    <2>4. c # NULL => c \in P /\ c \in S
        BY <1>4, <2>1, Smaller
    <2> HIDE DEF c, d
    <2>5. \A y \in T[d] : On(before, m, y, "left")
        <3>1. T[d] \subseteq Nodes /\ m \in Nodes
            BY <1>3, <2>2
        <3>2. QED
            BY <1>3, <2>1, <2>2, <3>1, OnFacts
    <2>6. CASE c = NULL
        BY <2>2, <2>3, <2>5, <2>6
    <2>7. CASE c # NULL
        <3> DEFINE v == f[c]
        <3>1. v \in T[c] /\ f[m] = v /\ \A x \in T[c] : x = v \/ On(before, v, x, "left")
            BY <2>3, <2>4, <2>7
        <3> HIDE DEF v
        <3>2. v \in Nodes /\ m \in Nodes /\ T[d] \subseteq Nodes /\ v \in T[m]
            BY <1>3, <2>2, <3>1
        <3>3. On(before, v, m, "left")
            BY <2>2, <3>1
        <3>4. \A y \in T[d] : On(before, v, y, "left")
            BY <1>3, <2>1, <2>5, <3>2, <3>3, OnFacts
        <3>5. QED
            BY <2>2, <3>1, <3>2, <3>3, <3>4
    <2>8. QED
        BY <2>6, <2>7
<1> HIDE DEF P
<1>5. S \subseteq P
    BY <1>4, TreeInduction
<1>6. QED
    BY <1>1, <1>5 DEF P

\* The first node to the right of m comes right after m.
LEMMA Successor ==
    ASSUME NEW h, NEW T, NEW S, NEW root, NEW before, Tree(h, T, S, root, before), Loose(h, S),
           NEW m \in S, h[m].right # NULL, NEW v, v = LeftMost(h, h[m].right)
    PROVE  /\ v \in S /\ v # m /\ Cardinality(T[v]) < Cardinality(T[m])
           /\ \A x \in S \ {m, v}, s \in Sides : On(before, m, x, s) => On(before, v, x, s)
<1> DEFINE a == h[m]["left"]
           c == h[m]["right"]
<1>1. S \subseteq Nodes /\ Order(before) /\ \A r \in S : T[r] \subseteq S
    BY DEF Tree, Ptr
<1>2. /\ "left" \in Sides /\ "right" \in Sides /\ Other("left") = "right" /\ Other("right") = "left"
      /\ Branch(h, T, S, m, "left") /\ Branch(h, T, S, m, "right") /\ NodeOK(h, T, S, root, before, m)
      /\ m \in Nodes
    BY <1>1, Branches DEF Sides, Other, Tree
<1>3. h[m].right = c
    BY <1>2, HeapTyped DEF Tree
<1>4. c # NULL /\ c \in S /\ Cardinality(T[c]) < Cardinality(T[m])
    BY <1>2, <1>3, Smaller
<1>5. /\ T[m] = T[a] \cup {m} \cup T[c] /\ m \in T[m] /\ m \notin T[c]
      /\ (\A y \in T[a] : On(before, y, m, "left")) /\ (\A y \in T[c] : On(before, y, m, "right"))
    BY <1>2 DEF Branch, NodeOK
<1> HIDE DEF a, c
<1>6. v \in T[c] /\ \A x \in T[c] : x = v \/ On(before, v, x, "left")
    BY <1>3, <1>4, LeftMostIs
<1>7. v \in S /\ v \in T[m] /\ v # m /\ T[v] \subseteq T[c] /\ v \in Nodes
    BY <1>1, <1>4, <1>5, <1>6, Nested
<1>8. Cardinality(T[v]) < Cardinality(T[m])
    <2>1. IsFiniteSet(T[c]) /\ Cardinality(T[v]) \in Nat /\ Cardinality(T[c]) \in Nat /\ Cardinality(T[m]) \in Nat
        BY <1>4, <1>7, Smaller
    <2>2. Cardinality(T[v]) <= Cardinality(T[c])
        BY <1>7, <2>1, FS_Subset
    <2>3. QED
        BY <1>4, <2>1, <2>2
<1>9. ASSUME NEW x \in S \ {m, v}, NEW s \in Sides, On(before, m, x, s) PROVE On(before, v, x, s)
    <2>1. x \in Nodes
        BY <1>1
    <2>2. CASE x \notin T[m]
        <3>1. PICK t \in Sides : \A y \in T[m] : On(before, y, x, t)
            BY <2>2, Convex
        <3>2. t = s
            <4>1. On(before, m, x, t)
                BY <1>5, <3>1
            <4>2. t = s \/ t = Other(s)
                BY OtherSide
            <4>3. ~On(before, m, x, Other(s))
                BY <1>1, <1>2, <1>9, <2>1, OnFacts
            <4>4. QED
                BY <4>1, <4>2, <4>3
        <3>3. QED
            BY <1>7, <3>1, <3>2
    <2>3. CASE x \in T[a]
        <3>1. On(before, x, m, "left")
            BY <1>5, <2>3
        <3>2. On(before, m, x, "right")
            BY <1>1, <1>2, <2>1, <3>1, OnFacts
        <3>3. s = "right"
            BY <1>1, <1>2, <1>9, <2>1, <3>2, OnFacts DEF Sides
        <3>4. On(before, v, m, "right")
            BY <1>5, <1>6
        <3>5. QED
            BY <1>1, <1>2, <1>7, <2>1, <3>2, <3>3, <3>4, OnFacts
    <2>4. CASE x \in T[c]
        <3>1. On(before, x, m, "right")
            BY <1>5, <2>4
        <3>2. On(before, m, x, "left")
            BY <1>1, <1>2, <2>1, <3>1, OnFacts
        <3>3. s = "left"
            BY <1>1, <1>2, <1>9, <2>1, <3>2, OnFacts DEF Sides
        <3>4. QED
            BY <1>6, <1>9, <2>4, <3>3
    <2>5. QED
        BY <1>5, <1>9, <2>2, <2>3, <2>4
<1>10. QED
    BY <1>7, <1>8, <1>9
------------------------------------------------------------------------------
(* The successor becomes a copy of the node, in its place.                 *)

\* v becomes a copy of m, in m's place.
Placed(k, m, v) ==
    LET copy == k[m]
        placed == SetParent(SetParent([k EXCEPT ![v] = copy], copy.left, v), copy.right, v)
        p == copy.parent
    IN  IF p = NULL THEN placed ELSE WithLink(placed, p, SideOf(placed, p, m), v)

PlacedTo(g, k, m, v, p, s) ==
    /\ g \in Heap
    /\ g[v].parent = p /\ \A t \in Sides : g[v][t] = k[m][t]
    /\ g[v].depth = k[m].depth /\ g[v].count = k[m].count
    /\ \A y \in Nodes \ {v} : SameSizes(g, k, y)
    /\ \A y \in Nodes \ {v, p} : SameLinks(g, k, y)
    /\ p # NULL => /\ p \notin {v, m} /\ s \in Sides /\ k[p][s] = m
                   /\ g[p][s] = v /\ g[p][Other(s)] = k[p][Other(s)]
                   /\ k[p][Other(s)] # m
    /\ \A t \in Sides : k[m][t] # NULL => g[k[m][t]].parent = v
    /\ \A y \in Nodes \ {v} : (\A t \in Sides : y # k[m][t]) => g[y].parent = k[y].parent

\* What the copy does to the fields.
LEMMA PlacedIs ==
    ASSUME NEW k, NEW T, NEW S, NEW root, NEW before, Tree(k, T, S, root, before),
           NEW m \in S, NEW v \in Nodes \ S
    PROVE  PlacedTo(Placed(k, m, v), k, m, v, k[m].parent, SideOf(k, k[m].parent, m))
<1> DEFINE l == k[m].left
           r == k[m].right
           p == k[m].parent
           k1 == [k EXCEPT ![v] = k[m]]
           k2 == SetParent(k1, l, v)
           k3 == SetParent(k2, r, v)
           s == SideOf(k, p, m)
           g == Placed(k, m, v)
<1>1. /\ k \in Heap /\ S \subseteq Nodes /\ m \in Nodes /\ v \in Nodes /\ v # m /\ NULL \notin S
      /\ l = k[m]["left"] /\ r = k[m]["right"] /\ l \in Ptr /\ r \in Ptr /\ p \in Ptr /\ v \in Ptr
    <2>1. k \in Heap /\ S \subseteq Nodes /\ m \in Nodes /\ v \in Nodes /\ v # m /\ NULL \notin S
        BY NodesAssumption DEF Tree
    <2>2. QED
        BY <2>1, HeapTyped DEF Ptr
<1>2. l \notin {v, m} /\ r \notin {v, m} /\ p \notin {v, m}
    <2>1. Branch(k, T, S, m, "left") /\ Branch(k, T, S, m, "right")
        BY Branches DEF Sides
    <2>2. v # NULL /\ l \in S \cup {NULL} /\ r \in S \cup {NULL} /\ l # m /\ r # m
        BY <1>1, <2>1, NodesAssumption DEF Branch
    <2>3. p # NULL => p \in S /\ p # m
        BY RootFacts, ParentFacts
    <2>4. p = NULL => p # m
        BY <1>1
    <2>5. QED
        BY <2>2, <2>3, <2>4
<1>3. p # NULL => /\ p \in Nodes /\ s \in Sides /\ k[p][s] = m /\ k[p][Other(s)] # m
                  /\ Other(s) \in Sides /\ Other(s) # s
    BY RootFacts, ParentFacts, SideOfTyped, OtherSide
<1>4. k1 \in Heap /\ k1[v] = k[m] /\ \A y \in Nodes \ {v} : k1[y] = k[y]
    BY <1>1 DEF Heap
<1> HIDE DEF k1
<1>5. /\ k2 \in Heap
      /\ l # NULL => k2[l].parent = v
      /\ \A y \in Nodes \ {l} : k2[y] = k1[y]
      /\ \A y \in Nodes : SameLinks(k2, k1, y) /\ SameSizes(k2, k1, y)
    <2> HIDE DEF l
    <2>1. QED
        BY <1>1, <1>4, SetParentIs
<1> HIDE DEF k2
<1>6. /\ k3 \in Heap
      /\ r # NULL => k3[r].parent = v
      /\ \A y \in Nodes \ {r} : k3[y] = k2[y]
      /\ \A y \in Nodes : SameLinks(k3, k2, y) /\ SameSizes(k3, k2, y)
    <2> HIDE DEF r
    <2>1. QED
        BY <1>1, <1>5, SetParentIs
<1>7. g = IF p = NULL THEN k3 ELSE WithLink(k3, p, SideOf(k3, p, m), v)
    BY DEF Placed, k1, k2
<1> HIDE DEF k3, g, s, l, r, p
<1>8. /\ k3[v].parent = p /\ (\A t \in Sides : k3[v][t] = k[m][t])
      /\ k3[v].depth = k[m].depth /\ k3[v].count = k[m].count
    BY <1>1, <1>2, <1>4, <1>5, <1>6 DEF p
<1>9. /\ \A y \in Nodes \ {v} : SameSizes(k3, k, y) /\ SameLinks(k3, k, y)
    BY <1>4, <1>5, <1>6 DEF SameSizes, SameLinks
<1>10. \A t \in Sides : k[m][t] # NULL => k3[k[m][t]].parent = v
    <2>1. l # NULL => k3[l].parent = v
        BY <1>1, <1>5, <1>6 DEF Ptr
    <2>2. QED
        BY <1>1, <1>6, <2>1 DEF Sides
<1>11. \A y \in Nodes \ {v} : (\A t \in Sides : y # k[m][t]) => k3[y].parent = k[y].parent
    BY <1>1, <1>4, <1>5, <1>6 DEF Sides
<1>12. p # NULL => SideOf(k3, p, m) = s
    <2>1. p # NULL => k3[p].left = k3[p]["left"] /\ k[p].left = k[p]["left"] /\ k3[p]["left"] = k[p]["left"]
        BY <1>1, <1>2, <1>3, <1>6, <1>9, HeapTyped DEF SameLinks, Sides
    <2>2. QED
        BY <2>1 DEF SideOf, s
<1>13. PlacedTo(g, k, m, v, p, s)
    <2>1. CASE p = NULL
        <3>1. g = k3
            BY <1>7, <2>1
        <3>2. QED
            BY <1>6, <1>8, <1>9, <1>10, <1>11, <2>1, <3>1 DEF PlacedTo
    <2>2. CASE p # NULL
        <3> DEFINE w == WithLink(k3, p, s, v)
        <3>1. /\ w \in Heap
              /\ w[p][s] = v /\ \A t \in Sides \ {s} : w[p][t] = k3[p][t]
              /\ \A y \in Nodes \ {p} : w[y] = k3[y]
              /\ \A y \in Nodes : w[y].parent = k3[y].parent /\ SameSizes(w, k3, y)
            BY <1>1, <1>3, <1>6, <2>2, SetLink
        <3> HIDE DEF w
        <3>2. g = w
            BY <1>7, <1>12, <2>2 DEF w
        <3>3. w[v] = k3[v]
            BY <1>1, <1>2, <3>1
        <3>4. w[p][Other(s)] = k[p][Other(s)]
            BY <1>2, <1>3, <1>9, <2>2, <3>1 DEF SameLinks
        <3>5. \A y \in Nodes \ {v} : SameSizes(w, k, y)
            BY <1>9, <3>1 DEF SameSizes
        <3>6. \A y \in Nodes \ {v, p} : SameLinks(w, k, y)
            BY <1>9, <3>1 DEF SameLinks
        <3>7. \A t \in Sides : k[m][t] # NULL => w[k[m][t]].parent = v
            <4>1. \A t \in Sides : k[m][t] # NULL => k[m][t] \in Nodes
                BY <1>1, HeapTyped DEF Ptr
            <4>2. QED
                BY <1>10, <3>1, <4>1
        <3>8. \A y \in Nodes \ {v} : (\A t \in Sides : y # k[m][t]) => w[y].parent = k[y].parent
            BY <1>11, <3>1
        <3>9. w[v].parent = p /\ (\A t \in Sides : w[v][t] = k[m][t])
              /\ w[v].depth = k[m].depth /\ w[v].count = k[m].count
            BY <1>8, <3>3
        <3>10. PlacedTo(w, k, m, v, p, s)
            BY <1>2, <1>3, <2>2, <3>1, <3>4, <3>5, <3>6, <3>7, <3>8, <3>9 DEF PlacedTo
        <3>11. QED
            BY <3>2, <3>10
    <2>3. QED
        BY <2>1, <2>2
<1>14. QED
    BY <1>13 DEF g, s, p

Renamed(T, m, v) ==
    [x \in Ptr |-> LET X == T[IF x = v THEN m ELSE x]
                   IN  IF m \in X THEN (X \ {m}) \cup {v} ELSE X]

\* A node that lies as m does to all the others can take its place.
LEMMA PlacedTree ==
    ASSUME NEW k, NEW T, NEW S, NEW root, NEW before, Tree(k, T, S, root, before),
           NEW m \in S, NEW v \in Nodes \ S,
           \A x \in S \ {m}, s \in Sides : On(before, m, x, s) => On(before, v, x, s)
    PROVE  Tree(Placed(k, m, v), Renamed(T, m, v), (S \ {m}) \cup {v},
                IF m = root THEN v ELSE root, before)
<1> DEFINE g == Placed(k, m, v)
           T2 == Renamed(T, m, v)
           R == (S \ {m}) \cup {v}
           top == IF m = root THEN v ELSE root
           p == k[m].parent
           s == SideOf(k, p, m)
           In(X) == IF m \in X THEN (X \ {m}) \cup {v} ELSE X
<1>1. /\ k \in Heap /\ S \in SUBSET Nodes /\ Order(before) /\ m \in Nodes /\ v \in Nodes /\ v # m
      /\ m # NULL /\ v # NULL /\ NULL \notin S
      /\ T \in [Ptr -> SUBSET S] /\ T[NULL] = {} /\ RootOK(k, T, S, root)
    BY NodesAssumption DEF Tree
<1>2. PlacedTo(g, k, m, v, p, s)
    BY PlacedIs
<1> HIDE DEF g, p, s
<1>3. T2 \in [Ptr -> SUBSET R] /\ T2[v] = In(T[m]) /\ \A x \in Ptr \ {v} : T2[x] = In(T[x])
    <2>1. \A x \in Ptr : T[x] \subseteq S
        BY <1>1
    <2>2. v \in Ptr /\ m \in Ptr
        BY <1>1 DEF Ptr
    <2>3. QED
        BY <2>1, <2>2 DEF Renamed
<1> HIDE DEF T2
<1>4. root \in S /\ root \in Nodes /\ root # NULL /\ T[root] = S /\ k[root].parent = NULL /\ (p = NULL <=> m = root)
    BY <1>1, RootFacts DEF p
<1>5. RootOK(g, T2, R, top)
    <2>1. CASE m = root
        BY <1>1, <1>2, <1>3, <1>4, <2>1 DEF RootOK, PlacedTo
    <2>2. CASE m # root
        <3>1. \A t \in Sides : root # k[m][t]
            <4> SUFFICES ASSUME NEW t \in Sides, root = k[m][t] PROVE FALSE
                OBVIOUS
            <4>1. k[root].parent = m
                BY <1>4 DEF Tree, NodeOK
            <4>2. QED
                BY <1>1, <1>4, <4>1
        <3>2. g[root].parent = NULL
            BY <1>2, <1>4, <3>1 DEF PlacedTo
        <3>3. T2[root] = R
            BY <1>3, <1>4 DEF Ptr
        <3>4. QED
            BY <1>4, <2>2, <3>2, <3>3 DEF RootOK
    <2>3. QED
        BY <2>1, <2>2
<1>6. \A x \in S, t \in Sides :
         LET c == k[x][t]
         IN  /\ c \in (S \cup {NULL}) \ {x} /\ c \in Ptr \ {v}
             /\ T[x] = T[c] \cup {x} \cup T[k[x][Other(t)]] /\ x \notin T[c]
             /\ c # NULL => k[c].parent = x
             /\ \A y \in T[c] : On(before, y, x, t)
    <2> SUFFICES ASSUME NEW x \in S, NEW t \in Sides
                 PROVE  LET c == k[x][t]
                        IN  /\ c \in (S \cup {NULL}) \ {x} /\ c \in Ptr \ {v}
                            /\ T[x] = T[c] \cup {x} \cup T[k[x][Other(t)]] /\ x \notin T[c]
                            /\ c # NULL => k[c].parent = x
                            /\ \A y \in T[c] : On(before, y, x, t)
        OBVIOUS
    <2>1. Branch(k, T, S, x, t) /\ NodeOK(k, T, S, root, before, x)
        BY Branches DEF Tree
    <2>2. x # NULL
        BY <1>1
    <2>3. QED
        BY <1>1, <2>1, <2>2 DEF Branch, NodeOK
<1>7. NodeOK(g, T2, R, top, before, v)
    <2>1. ASSUME NEW t \in Sides
          PROVE  /\ g[v][t] \in R \cup {NULL}
                 /\ g[v][t] # NULL => g[g[v][t]].parent = v
                 /\ \A y \in T2[g[v][t]] : On(before, y, v, t)
                 /\ T2[v] = T2[g[v][t]] \cup {v} \cup T2[g[v][Other(t)]]
        <3> DEFINE c == k[m][t]
                   d == k[m][Other(t)]
        <3>1. Other(t) \in Sides /\ Other(Other(t)) = t
            BY OtherSide
        <3>2. g[v][t] = c /\ g[v][Other(t)] = d
            BY <1>2, <3>1 DEF PlacedTo
        <3>3. /\ c \in (S \cup {NULL}) \ {m} /\ c \in Ptr \ {v} /\ d \in Ptr \ {v}
              /\ T[m] = T[c] \cup {m} \cup T[d] /\ m \notin T[c] /\ m \notin T[d]
              /\ \A y \in T[c] : On(before, y, m, t)
            BY <1>6, <3>1
        <3>4. c # NULL => g[c].parent = v
            BY <1>2 DEF PlacedTo
        <3> HIDE DEF c, d
        <3>5. T2[c] = T[c] /\ T2[d] = T[d] /\ T2[v] = (T[m] \ {m}) \cup {v}
            BY <1>3, <3>3
        <3>6. \A y \in T[c] : On(before, y, v, t)
            <4> SUFFICES ASSUME NEW y \in T[c] PROVE On(before, y, v, t)
                OBVIOUS
            <4>1. y \in S \ {m} /\ y \in Nodes
                BY <1>1, <3>3
            <4>2. On(before, m, y, Other(t))
                BY <1>1, <3>3, <4>1, OnFacts
            <4>3. On(before, v, y, Other(t))
                BY <3>1, <4>1, <4>2
            <4>4. QED
                BY <1>1, <3>1, <4>1, <4>3, OnFacts
        <3>7. T2[v] = T[c] \cup {v} \cup T[d]
            BY <3>3, <3>5
        <3>8. QED
            BY <3>2, <3>3, <3>4, <3>5, <3>6, <3>7
    <2>2. v # top => g[v].parent \in R /\ \E t \in Sides : g[g[v].parent][t] = v
        <3> SUFFICES ASSUME v # top PROVE g[v].parent \in R /\ \E t \in Sides : g[g[v].parent][t] = v
            OBVIOUS
        <3>1. p # NULL
            BY <1>4
        <3>2. p \in S
            BY <1>4, <3>1, ParentFacts DEF p
        <3>3. QED
            BY <1>2, <3>1, <3>2 DEF PlacedTo
    <2>3. QED
        BY <2>1, <2>2 DEF NodeOK
<1>8. ASSUME NEW x \in S \ {m} PROVE NodeOK(g, T2, R, top, before, x)
    <2>1. x \in Nodes /\ x \in Ptr \ {v} /\ x # v /\ x # NULL /\ x \in S
        BY <1>1 DEF Ptr
    <2>2. ASSUME NEW t \in Sides
          PROVE  /\ g[x][t] \in R \cup {NULL}
                 /\ g[x][t] # NULL => g[g[x][t]].parent = x
                 /\ \A y \in T2[g[x][t]] : On(before, y, x, t)
                 /\ T2[g[x][t]] = In(T[k[x][t]])
        <3> DEFINE c == k[x][t]
        <3>1. /\ c \in (S \cup {NULL}) \ {x} /\ c \in Ptr \ {v}
              /\ c # NULL => k[c].parent = x
              /\ \A y \in T[c] : On(before, y, x, t)
            BY <1>6
        <3>2. \A y \in In(T[c]) : On(before, y, x, t)
            BY <3>1
        <3> HIDE DEF c
        <3>3. CASE c = m
            <4>1. x = p /\ p # NULL
                BY <1>1, <2>1, <3>1, <3>3 DEF p
            <4>2. t = s
                BY <1>2, <3>3, <4>1, OtherSide DEF PlacedTo, c
            <4>3. g[x][t] = v /\ g[v].parent = x
                BY <1>2, <4>1, <4>2 DEF PlacedTo
            <4>4. QED
                BY <1>1, <1>3, <3>2, <3>3, <4>3 DEF c
        <3>4. CASE c # m
            <4>1. g[x][t] = c
                <5>1. CASE x = p
                    <6>1. t # s
                        BY <1>2, <2>1, <3>4, <5>1 DEF PlacedTo, c
                    <6>2. t = Other(s)
                        BY <1>2, <2>1, <5>1, <6>1, OtherSide DEF PlacedTo
                    <6>3. QED
                        BY <1>2, <2>1, <5>1, <6>2 DEF PlacedTo, c
                <5>2. CASE x # p
                    BY <1>2, <2>1, <5>2 DEF PlacedTo, SameLinks, c
                <5>3. QED
                    BY <5>1, <5>2
            <4>2. c # NULL => g[c].parent = x
                <5> SUFFICES ASSUME c # NULL PROVE g[c].parent = x
                    OBVIOUS
                <5>1. c \in Nodes \ {v}
                    BY <3>1, <1>1
                <5>2. \A u \in Sides : c # k[m][u]
                    <6> SUFFICES ASSUME NEW u \in Sides, c = k[m][u] PROVE FALSE
                        OBVIOUS
                    <6>1. k[c].parent = m
                        BY <1>6
                    <6>2. QED
                        BY <3>1, <6>1
                <5>3. QED
                    BY <1>2, <3>1, <5>1, <5>2 DEF PlacedTo
            <4>3. T2[c] = In(T[c])
                BY <1>3, <3>1
            <4>4. QED
                BY <3>1, <3>2, <3>4, <4>1, <4>2, <4>3 DEF c
        <3>5. QED
            BY <3>3, <3>4
    <2>3. ASSUME NEW t \in Sides PROVE T2[x] = T2[g[x][t]] \cup {x} \cup T2[g[x][Other(t)]]
        <3>1. Other(t) \in Sides
            BY OtherSide
        <3>2. T[x] = T[k[x][t]] \cup {x} \cup T[k[x][Other(t)]]
            BY <1>6
        <3>3. T2[g[x][t]] = In(T[k[x][t]]) /\ T2[g[x][Other(t)]] = In(T[k[x][Other(t)]])
            BY <2>2, <3>1
        <3>4. T2[x] = In(T[x])
            BY <1>3, <2>1
        <3>5. QED
            BY <2>1, <3>2, <3>3, <3>4
    <2>4. x # top => g[x].parent \in R /\ \E t \in Sides : g[g[x].parent][t] = x
        <3> SUFFICES ASSUME x # top PROVE g[x].parent \in R /\ \E t \in Sides : g[g[x].parent][t] = x
            OBVIOUS
        <3>1. x # root
            BY <1>8
        <3> DEFINE q == k[x].parent
                   z == SideOf(k, q, x)
        <3>2. q \in S /\ q \in Nodes /\ k[q][z] = x /\ z \in Sides
            BY <2>1, <3>1, ParentFacts, SideOfTyped
        <3> HIDE DEF z
        <3>3. CASE q = m
            <4>1. g[x].parent = v /\ g[v][z] = x
                BY <1>2, <2>1, <3>2, <3>3 DEF PlacedTo
            <4>2. QED
                BY <3>2, <4>1
        <3>4. CASE q # m
            <4>1. \A u \in Sides : x # k[m][u]
                <5> SUFFICES ASSUME NEW u \in Sides, x = k[m][u] PROVE FALSE
                    OBVIOUS
                <5>1. k[x].parent = m
                    BY <1>6, <2>1
                <5>2. QED
                    BY <3>4, <5>1
            <4>2. g[x].parent = q
                BY <1>2, <2>1, <4>1 DEF PlacedTo
            <4> HIDE DEF q
            <4>3. g[q][z] = x
                <5>1. CASE q = p
                    <6>1. p # NULL /\ z # s
                        BY <1>1, <1>2, <1>8, <3>2, <5>1 DEF PlacedTo
                    <6>2. z = Other(s)
                        BY <1>2, <3>2, <6>1, OtherSide DEF PlacedTo
                    <6>3. QED
                        BY <1>2, <3>2, <5>1, <6>1, <6>2 DEF PlacedTo
                <5>2. CASE q # p
                    BY <1>2, <3>2, <5>2 DEF PlacedTo, SameLinks
                <5>3. QED
                    BY <5>1, <5>2
            <4>4. QED
                BY <3>2, <3>4, <4>2, <4>3
        <3>5. QED
            BY <3>3, <3>4
    <2>5. QED
        BY <2>2, <2>3, <2>4 DEF NodeOK
<1>9. g \in Heap /\ T2[NULL] = {}
    BY <1>1, <1>2, <1>3 DEF PlacedTo, Ptr
<1>10. QED
    BY <1>1, <1>3, <1>5, <1>7, <1>8, <1>9 DEF Tree, g, T2

\* Depths, sizes and balance are as before the copy.
LEMMA PlacedKeeps ==
    ASSUME NEW k, NEW T, NEW S, NEW root, NEW before, Tree(k, T, S, root, before),
           \A x \in S : Kept(k, x),
           NEW m \in S, NEW v \in Nodes \ S
    PROVE  LET g == Placed(k, m, v)
           IN  /\ \A x \in (S \ {m}) \cup {v} : Kept(g, x)
               /\ \A y \in Nodes \ S : y # v => g[y] = k[y]
<1> DEFINE g == Placed(k, m, v)
           p == k[m].parent
           s == SideOf(k, p, m)
<1>1. /\ k \in Heap /\ S \subseteq Nodes /\ m \in Nodes /\ v \in Nodes /\ v # m
      /\ m # NULL /\ v # NULL /\ NULL \notin S
      /\ \A x \in S, t \in Sides : k[x][t] \in (S \cup {NULL})
    <2>1. \A x \in S, t \in Sides : k[x][t] \in (S \cup {NULL})
        BY DEF Tree, NodeOK
    <2>2. QED
        BY <2>1, NodesAssumption DEF Tree
<1>2. PlacedTo(g, k, m, v, p, s)
    BY PlacedIs
<1>3. p = NULL \/ p \in S
    BY RootFacts, ParentFacts
<1> HIDE DEF g, p, s
<1>4. \A c \in S \cup {NULL} : Depth(g, c) = Depth(k, c) /\ Count(g, c) = Count(k, c)
    <2> SUFFICES ASSUME NEW c \in S \cup {NULL} PROVE Depth(g, c) = Depth(k, c) /\ Count(g, c) = Count(k, c)
        OBVIOUS
    <2>1. c # NULL => SameSizes(g, k, c)
        BY <1>1, <1>2 DEF PlacedTo
    <2>2. c \in Ptr
        BY <1>1 DEF Ptr
    <2>3. QED
        BY <2>1, <2>2, DepthSame
<1>5. Depth(g, v) = Depth(k, m) /\ Count(g, v) = Count(k, m)
    BY <1>1, <1>2 DEF PlacedTo, Depth, Count
<1>6. "left" \in Sides /\ "right" \in Sides /\ Other("left") = "right"
    BY DEF Sides, Other
<1>7. Kept(g, v)
    <2> DEFINE c == k[m]["left"]
               d == k[m]["right"]
    <2>1. KeptOn(k, m, "left")
        BY DEF Kept
    <2>2. g[v]["left"] = c /\ g[v]["right"] = d /\ g[v].depth = k[m].depth /\ g[v].count = k[m].count
        BY <1>2, <1>6 DEF PlacedTo
    <2>3. c \in S \cup {NULL} /\ d \in S \cup {NULL}
        BY <1>1, <1>6
    <2> HIDE DEF c, d
    <2>4. QED
        BY <1>4, <1>6, <2>1, <2>2, <2>3 DEF Kept, KeptOn, c, d
<1>8. ASSUME NEW x \in S \ {m} PROVE Kept(g, x)
    <2> DEFINE c == k[x]["left"]
               d == k[x]["right"]
    <2>1. KeptOn(k, x, "left")
        BY DEF Kept
    <2>2. c \in S \cup {NULL} /\ d \in S \cup {NULL} /\ x \in Nodes \ {v}
        BY <1>1, <1>6
    <2>3. g[x].depth = k[x].depth /\ g[x].count = k[x].count
        BY <1>2, <2>2 DEF PlacedTo, SameSizes
    <2>4. \A t \in Sides : Depth(g, g[x][t]) = Depth(k, k[x][t]) /\ Count(g, g[x][t]) = Count(k, k[x][t])
        <3> SUFFICES ASSUME NEW t \in Sides
                     PROVE  Depth(g, g[x][t]) = Depth(k, k[x][t]) /\ Count(g, g[x][t]) = Count(k, k[x][t])
            OBVIOUS
        <3>1. CASE x = p /\ t = s
            <4>1. g[x][t] = v /\ k[x][t] = m
                BY <1>1, <1>2, <3>1 DEF PlacedTo
            <4>2. QED
                BY <1>5, <4>1
        <3>2. CASE ~(x = p /\ t = s)
            <4>1. g[x][t] = k[x][t]
                <5>1. CASE x = p
                    <6>1. s \in Sides /\ p # NULL
                        BY <1>1, <1>2, <5>1 DEF PlacedTo
                    <6>2. t = Other(s)
                        BY <3>2, <5>1, <6>1, OtherSide
                    <6>3. QED
                        BY <1>2, <5>1, <6>1, <6>2 DEF PlacedTo
                <5>2. CASE x # p
                    BY <1>2, <2>2, <5>2 DEF PlacedTo, SameLinks
                <5>3. QED
                    BY <5>1, <5>2
            <4>2. QED
                BY <1>1, <1>4, <4>1
        <3>3. QED
            BY <3>1, <3>2
    <2>5. /\ Depth(g, g[x]["left"]) = Depth(k, c) /\ Count(g, g[x]["left"]) = Count(k, c)
          /\ Depth(g, g[x]["right"]) = Depth(k, d) /\ Count(g, g[x]["right"]) = Count(k, d)
        BY <1>6, <2>4
    <2> HIDE DEF c, d
    <2>6. QED
        BY <1>6, <2>1, <2>3, <2>5 DEF Kept, KeptOn, c, d
<1>9. ASSUME NEW y \in Nodes \ S, y # v PROVE g[y] = k[y]
    <2>1. y # p
        BY <1>3, <1>9, NodesAssumption
    <2>2. \A t \in Sides : y # k[m][t]
        BY <1>1, <1>9, NodesAssumption
    <2>3. SameLinks(g, k, y) /\ SameSizes(g, k, y) /\ g[y].parent = k[y].parent /\ g \in Heap
        BY <1>2, <1>9, <2>1, <2>2 DEF PlacedTo
    <2>4. QED
        BY <1>1, <2>3, NodeSame
<1>10. QED
    BY <1>7, <1>8, <1>9 DEF g
------------------------------------------------------------------------------
(* delAVL().                                                               *)

Answers == [heap : Heap, top : Ptr]

\* What delAVL() does with m, f being what it does with the other nodes.
Deleted(h, f, m) ==
    LET p == h[m].parent
        v == LeftMost(h, h[m].right)
        rest == f[v]
    IN  CASE h[m].right = NULL /\ p # NULL -> FixAVL(Lifted(h, m), p)
          [] h[m].right = NULL /\ p = NULL -> [heap |-> Lifted(h, m), top |-> h[m].left]
          [] h[m].right # NULL -> [heap |-> Placed(rest.heap, m, v),
                                   top  |-> IF rest.heap[m].parent # NULL THEN rest.top ELSE v]

Deletes(f, h) == f = [m \in Nodes |->
          LET p == h[m].parent
              child == h[m].left
              lifted == SetParent(h, child, p)
              victim == LeftMost(h, h[m].right)
              rest == f[victim]
              copy == rest.heap[m]
              placed == SetParent(SetParent([rest.heap EXCEPT ![victim] = copy],
                                            copy.left, victim),
                                  copy.right, victim)
          IN  CASE h[m].right = NULL /\ p # NULL ->
                     FixAVL([lifted EXCEPT ![p][SideOf(lifted, p, m)] = child], p)
                [] h[m].right = NULL /\ p = NULL ->
                     [heap |-> lifted, top |-> child]
                [] h[m].right # NULL /\ copy.parent # NULL ->
                     [heap |-> [placed EXCEPT ![copy.parent]
                                        [SideOf(placed, copy.parent, m)] = victim],
                      top  |-> rest.top]
                [] OTHER ->
                     [heap |-> placed, top |-> victim]]

\* delAVL()'s recursion, as Deleted() has it.
LEMMA DeletesIs ==
    ASSUME NEW f, NEW h
    PROVE  Deletes(f, h) <=> f = [m \in Nodes |-> Deleted(h, f, m)]
<1> DEFINE body(m) ==
          LET p == h[m].parent
              child == h[m].left
              lifted == SetParent(h, child, p)
              victim == LeftMost(h, h[m].right)
              rest == f[victim]
              copy == rest.heap[m]
              placed == SetParent(SetParent([rest.heap EXCEPT ![victim] = copy],
                                            copy.left, victim),
                                  copy.right, victim)
          IN  CASE h[m].right = NULL /\ p # NULL ->
                     FixAVL([lifted EXCEPT ![p][SideOf(lifted, p, m)] = child], p)
                [] h[m].right = NULL /\ p = NULL ->
                     [heap |-> lifted, top |-> child]
                [] h[m].right # NULL /\ copy.parent # NULL ->
                     [heap |-> [placed EXCEPT ![copy.parent]
                                        [SideOf(placed, copy.parent, m)] = victim],
                      top  |-> rest.top]
                [] OTHER ->
                     [heap |-> placed, top |-> victim]
<1>1. ASSUME NEW m \in Nodes PROVE body(m) = Deleted(h, f, m)
    <2>1. CASE h[m].right = NULL
        BY <2>1 DEF Deleted, Lifted, WithLink
    <2>2. CASE h[m].right # NULL
        <3> DEFINE v == LeftMost(h, h[m].right)
                   rest == f[v]
        <3>1. Deleted(h, f, m) = [heap |-> Placed(rest.heap, m, v),
                                  top  |-> IF rest.heap[m].parent # NULL THEN rest.top ELSE v]
            BY <2>2 DEF Deleted
        <3> HIDE DEF v
        <3>2. CASE rest.heap[m].parent = NULL
            BY <2>2, <3>1, <3>2 DEF Placed, v
        <3>3. CASE rest.heap[m].parent # NULL
            BY <2>2, <3>1, <3>3 DEF Placed, WithLink, v
        <3>4. QED
            BY <3>2, <3>3
    <2>3. QED
        BY <2>1, <2>2
<1>2. Deletes(f, h) <=> f = [m \in Nodes |-> body(m)]
    BY DEF Deletes
<1> HIDE DEF body
<1>3. [m \in Nodes |-> body(m)] = [m \in Nodes |-> Deleted(h, f, m)]
    BY <1>1
<1>4. QED
    BY <1>2, <1>3

\* A node with right child: its successor is cut out and takes its place.
LEMMA CutCopied ==
    ASSUME NEW h, NEW S, NEW before, NEW m \in S, NEW v \in S, v # m,
           S \subseteq Nodes,
           NEW rest, Cut(h, rest, S, before, v),
           \A x \in S \ {m, v}, s \in Sides : On(before, m, x, s) => On(before, v, x, s),
           NEW r, r = [heap |-> Placed(rest.heap, m, v),
                       top  |-> IF rest.heap[m].parent # NULL THEN rest.top ELSE v]
    PROVE  Cut(h, r, S, before, m)
<1> DEFINE k == rest.heap
           R == S \ {v}
           g == Placed(k, m, v)
           top == IF m = rest.top THEN v ELSE rest.top
<1>1. PICK T : Tree(k, T, R, rest.top, before)
    BY DEF Cut
<1>2. (\A x \in R : Kept(k, x)) /\ \A y \in Nodes \ S : k[y] = h[y]
    BY DEF Cut
<1>3. m \in R /\ v \in Nodes \ R /\ (R \ {m}) \cup {v} = S \ {m} /\ \A x \in R \ {m} : x \in S \ {m, v}
    OBVIOUS
<1>4. k[m].parent = NULL <=> m = rest.top
    <2> HIDE DEF k, R
    <2>1. QED
        BY <1>1, <1>3, RootFacts
<1>5. r.heap = g /\ r.top = top
    BY <1>4
<1>6. Tree(g, Renamed(T, m, v), (R \ {m}) \cup {v}, top, before)
    <2>1. \A x \in R \ {m}, s \in Sides : On(before, m, x, s) => On(before, v, x, s)
        BY <1>3
    <2> HIDE DEF k, R
    <2>2. QED
        BY <1>1, <1>3, <2>1, PlacedTree
<1>7. /\ \A x \in (R \ {m}) \cup {v} : Kept(g, x)
      /\ \A y \in Nodes \ R : y # v => g[y] = k[y]
    <2> HIDE DEF k, R
    <2>1. QED
        BY <1>1, <1>2, <1>3, PlacedKeeps
<1> HIDE DEF g, k, top
<1>8. \A y \in Nodes \ S : g[y] = h[y]
    BY <1>2, <1>7
<1> HIDE DEF R
<1>9. QED
    BY <1>3, <1>5, <1>6, <1>7, <1>8 DEF Cut

\* The answer of delAVL() about m, whatever it is for other nodes.
LEMMA DeletedCuts ==
    ASSUME NEW h, NEW T, NEW S, NEW root, NEW before, Tree(h, T, S, root, before),
           \A x \in S : Kept(h, x), Loose(h, S),
           NEW f, NEW m \in S,
           \A x \in S : Cardinality(T[x]) < Cardinality(T[m]) => Cut(h, f[x], S, before, x)
    PROVE  Cut(h, Deleted(h, f, m), S, before, m)
<1> DEFINE r == Deleted(h, f, m)
<1>1. CASE h[m].right = NULL
    <2>1. r = IF h[m].parent # NULL THEN FixAVL(Lifted(h, m), h[m].parent)
              ELSE [heap |-> Lifted(h, m), top |-> h[m].left]
        BY <1>1 DEF Deleted
    <2> HIDE DEF r
    <2>2. Cut(h, r, S, before, m)
        BY <1>1, <2>1, CutLeaf
    <2>3. QED
        BY <2>2 DEF r
<1>2. CASE h[m].right # NULL
    <2> DEFINE v == LeftMost(h, h[m].right)
               rest == f[v]
    <2>1. r = [heap |-> Placed(rest.heap, m, v),
               top  |-> IF rest.heap[m].parent # NULL THEN rest.top ELSE v]
        BY <1>2 DEF Deleted
    <2> HIDE DEF r, v
    <2>2. /\ v \in S /\ v # m /\ Cardinality(T[v]) < Cardinality(T[m])
          /\ \A x \in S \ {m, v}, s \in Sides : On(before, m, x, s) => On(before, v, x, s)
        BY <1>2, Successor DEF v
    <2>3. Cut(h, rest, S, before, v)
        BY <2>2
    <2>4. S \subseteq Nodes
        BY DEF Tree
    <2> HIDE DEF rest
    <2>5. Cut(h, r, S, before, m)
        BY <2>1, <2>2, <2>3, <2>4, CutCopied
    <2>6. QED
        BY <2>5 DEF r
<1>3. QED
    BY <1>1, <1>2

\* The answer is a heap and a root.
LEMMA DeletedTyped ==
    ASSUME NEW h, NEW f, NEW m, NEW S, NEW before, Cut(h, Deleted(h, f, m), S, before, m)
    PROVE  Deleted(h, f, m) \in Answers
<1> DEFINE r == Deleted(h, f, m)
<1>1. r = [heap |-> r.heap, top |-> r.top]
    BY DEF Deleted, FixAVL
<1> HIDE DEF r
<1>2. r.heap \in Heap /\ r.top \in Ptr
    BY DEF Cut, Tree, RootOK, Ptr, r
<1>3. r \in Answers
    BY <1>1, <1>2 DEF Answers
<1>4. QED
    BY <1>3 DEF r

\* A function that is as Deleted() says where that has an answer.
LEMMA AllCut ==
    ASSUME NEW h, NEW T, NEW S, NEW root, NEW before, Tree(h, T, S, root, before),
           \A x \in S : Kept(h, x), Loose(h, S),
           NEW f, \A x \in S : Deleted(h, f, x) \in Answers => f[x] = Deleted(h, f, x)
    PROVE  \A m \in S : Cut(h, f[m], S, before, m) /\ Deleted(h, f, m) \in Answers
<1> DEFINE size(m) == Cardinality(T[m])
           A == {k \in Nat : \A m \in S : size(m) < k => Cut(h, f[m], S, before, m) /\ Deleted(h, f, m) \in Answers}
<1>1. \A m \in S : size(m) \in Nat
    BY Smaller
<1> HIDE DEF size
<1>2. 0 \in A
    <2>1. \A m \in S : ~(size(m) < 0)
        BY <1>1
    <2>2. QED
        BY <2>1
<1>3. ASSUME NEW k \in Nat, k \in A PROVE k + 1 \in A
    <2> SUFFICES ASSUME NEW m \in S, size(m) < k + 1
                 PROVE  Cut(h, f[m], S, before, m) /\ Deleted(h, f, m) \in Answers
        OBVIOUS
    <2>1. ASSUME NEW x \in S, size(x) < size(m) PROVE Cut(h, f[x], S, before, x)
        <3>1. size(x) < k
            BY <1>1, <2>1
        <3>2. QED
            BY <1>3, <3>1
    <2>2. Cut(h, Deleted(h, f, m), S, before, m)
        BY <2>1, DeletedCuts DEF size
    <2>3. Deleted(h, f, m) \in Answers
        BY <2>2, DeletedTyped
    <2>4. f[m] = Deleted(h, f, m)
        BY <2>3
    <2>5. QED
        BY <2>2, <2>3, <2>4
<1>4. \A k \in Nat : k \in A
    <2> HIDE DEF A
    <2>1. QED
        BY <1>2, <1>3, Induction
<1>5. ASSUME NEW m \in S PROVE Cut(h, f[m], S, before, m) /\ Deleted(h, f, m) \in Answers
    <2>1. size(m) + 1 \in A /\ size(m) < size(m) + 1
        BY <1>1, <1>4
    <2>2. QED
        BY <2>1
<1>6. QED
    BY <1>5

Orphans(h, S) == \A y \in Nodes \ S : h[y].parent = NULL

\* So it is for a node in no tree.
LEMMA DeletedOutside ==
    ASSUME NEW h \in Heap, NEW S, Loose(h, S), Orphans(h, S), NEW m \in Nodes \ S, NEW f
    PROVE  Deleted(h, f, m) \in Answers
<1>1. h[m].left = NULL /\ h[m].right = NULL /\ h[m].parent = NULL
    BY HeapTyped DEF Loose, Orphans, Sides
<1>2. Lifted(h, m) = h
    BY <1>1 DEF Lifted, SetParent
<1>3. Deleted(h, f, m) = [heap |-> h, top |-> NULL]
    BY <1>1, <1>2 DEF Deleted
<1>4. QED
    BY <1>3 DEF Answers, Ptr

\* delAVL()'s recursion is a function.
LEMMA DeletesExist ==
    ASSUME NEW h, NEW T, NEW S, NEW root, NEW before, Tree(h, T, S, root, before),
           \A x \in S : Kept(h, x), Loose(h, S), Orphans(h, S)
    PROVE  \E f : Deletes(f, h)
<1> DEFINE blank == [heap |-> h, top |-> NULL]
           next(f, m) == IF Deleted(h, f, m) \in Answers THEN Deleted(h, f, m) ELSE blank
           rank == [m \in Nodes |-> IF m \in S THEN Cardinality(T[m]) ELSE 0]
           G == [f \in [Nodes -> Answers] |-> [m \in Nodes |-> next(f, m)]]
<1>1. h \in Heap /\ blank \in Answers /\ S \subseteq Nodes
    BY DEF Tree, Answers, Ptr
<1>2. rank \in [Nodes -> Nat]
    <2>1. \A m \in S : Cardinality(T[m]) \in Nat
        BY Smaller
    <2>2. QED
        BY <2>1
<1>3. ASSUME NEW f \in [Nodes -> Answers], NEW m \in Nodes PROVE next(f, m) \in Answers
    <2> HIDE DEF blank
    <2>1. QED
        BY <1>1
<1>4. \A f \in [Nodes -> Answers], m \in Nodes : G[f][m] = next(f, m)
    OBVIOUS
<1>5. G \in [[Nodes -> Answers] -> [Nodes -> Answers]]
    BY <1>3
<1>6. ASSUME NEW m \in Nodes, NEW f, NEW g, \A y \in Nodes : rank[y] < rank[m] => f[y] = g[y]
      PROVE  Deleted(h, f, m) = Deleted(h, g, m)
    <2>1. CASE h[m].right = NULL
        BY <2>1 DEF Deleted
    <2>2. CASE h[m].right # NULL
        <3>1. m \in S
            BY <1>1, <2>2, HeapTyped DEF Loose, Sides
        <3> DEFINE v == LeftMost(h, h[m].right)
        <3>2. v \in S /\ Cardinality(T[v]) < Cardinality(T[m])
            BY <2>2, <3>1, Successor
        <3> HIDE DEF v
        <3>3. rank[v] < rank[m] /\ v \in Nodes
            BY <1>1, <3>1, <3>2
        <3>4. f[v] = g[v]
            BY <1>6, <3>3
        <3>5. QED
            BY <2>2, <3>4 DEF Deleted, v
    <2>3. QED
        BY <2>1, <2>2
<1>7. Ranked(Nodes, Answers, rank, G)
    <2> SUFFICES ASSUME NEW m \in Nodes, NEW f \in [Nodes -> Answers], NEW g \in [Nodes -> Answers],
                        \A y \in Nodes : rank[y] < rank[m] => f[y] = g[y]
                 PROVE  G[f][m] = G[g][m]
        BY DEF Ranked
    <2> HIDE DEF G, rank, blank
    <2>1. Deleted(h, f, m) = Deleted(h, g, m)
        BY <1>6
    <2>2. QED
        BY <1>4, <2>1
<1>8. Answers # {}
    BY <1>1
<1> HIDE DEF G, rank, blank
<1>9. PICK f : Defines(f, Nodes, Answers, G)
    BY <1>2, <1>5, <1>7, <1>8, RankedFunction
<1>10. f \in [Nodes -> Answers] /\ \A m \in Nodes : f[m] = next(f, m)
    BY <1>4, <1>9 DEF Defines
<1>11. \A m \in S : Deleted(h, f, m) \in Answers => f[m] = Deleted(h, f, m)
    BY <1>1, <1>10
<1>12. \A m \in S : Deleted(h, f, m) \in Answers
    BY <1>11, AllCut
<1>13. \A m \in Nodes \ S : Deleted(h, f, m) \in Answers
    BY <1>1, DeletedOutside
<1>14. \A m \in Nodes : f[m] = Deleted(h, f, m)
    BY <1>10, <1>12, <1>13
<1>15. f = [m \in Nodes |-> Deleted(h, f, m)]
    BY <1>10, <1>14
<1>16. Deletes(f, h)
    BY <1>15, DeletesIs
<1>17. QED
    BY <1>16

\* delAVL() leaves a balanced tree of the other nodes.
THEOREM DelAVLCuts ==
    ASSUME NEW h, NEW T, NEW S, NEW root, NEW before, Tree(h, T, S, root, before),
           \A x \in S : Kept(h, x), Loose(h, S), Orphans(h, S),
           NEW n \in S
    PROVE  Cut(h, DelAVL(h, n), S, before, n) /\ DelAVL(h, n) \in Answers
<1> DEFINE f == CHOOSE del : Deletes(del, h)
<1>1. DelAVL(h, n) = f[n]
    BY DEF DelAVL, Deletes
<1>2. Deletes(f, h)
    BY DeletesExist
<1> HIDE DEF f
<1>3. S \subseteq Nodes
    BY DEF Tree
<1>4. \A m \in S : f[m] = Deleted(h, f, m)
    BY <1>2, <1>3, DeletesIs
<1>5. \A m \in S : Cut(h, f[m], S, before, m) /\ Deleted(h, f, m) \in Answers
    BY <1>4, AllCut
<1>6. QED
    BY <1>1, <1>4, <1>5
------------------------------------------------------------------------------
(* Counts, and places in the order.                                        *)

\* The nodes of S on this side of m.
Beside(S, before, m, side) == {x \in S : On(before, x, m, side)}

\* The position of m among the nodes of S in their order.
Place(S, before, m) == Cardinality(Beside(S, before, m, "left")) + 1

\* The size of two disjoint sets and one element.
LEMMA SizeOfThree ==
    ASSUME NEW A, NEW B, NEW m, IsFiniteSet(A), IsFiniteSet(B),
           A \cap B = {}, m \notin A, m \notin B
    PROVE  /\ Cardinality(A) \in Nat /\ Cardinality(B) \in Nat
           /\ IsFiniteSet(A \cup {m} \cup B)
           /\ Cardinality(A \cup {m} \cup B) = Cardinality(A) + 1 + Cardinality(B)
<1>1. Cardinality(A) \in Nat /\ Cardinality(B) \in Nat
    BY FS_CardinalityType
<1>2. IsFiniteSet(A \cup {m}) /\ Cardinality(A \cup {m}) = Cardinality(A) + 1
    BY FS_AddElement
<1> DEFINE C == A \cup {m}
<1>3. C \cap B = {} /\ Cardinality({}) = 0
    BY FS_EmptySet
<1>4. IsFiniteSet(C) /\ Cardinality(C) = Cardinality(A) + 1
    BY <1>2
<1> HIDE DEF C
<1>5. IsFiniteSet(C \cup B) /\ Cardinality(C \cup B) = Cardinality(C) + Cardinality(B) - 0
    BY <1>3, <1>4, FS_Union
<1>6. QED
    BY <1>1, <1>4, <1>5 DEF C

\* The counts are the sizes of the subtrees.
LEMMA CountsAre ==
    ASSUME NEW h, NEW T, NEW S, NEW root, NEW before, Tree(h, T, S, root, before),
           \A x \in S : Kept(h, x)
    PROVE  \A m \in S \cup {NULL} : Count(h, m) = Cardinality(T[m]) /\ Count(h, m) \in Nat
<1>1. /\ T[NULL] = {} /\ Count(h, NULL) = 0 /\ Cardinality({}) = 0
      /\ S \subseteq Nodes /\ h \in Heap
    BY FS_EmptySet DEF Tree, Count
<1>2. \A m \in S : m # NULL /\ Count(h, m) = h[m].count
    BY <1>1, NodesAssumption DEF Count
<1> DEFINE P == {m \in S : Count(h, m) = Cardinality(T[m])}
<1>3. ASSUME NEW m \in S, \A s \in Sides : h[m][s] # NULL => h[m][s] \in P PROVE m \in P
    <2> DEFINE l == h[m]["left"]
               r == h[m]["right"]
    <2>1. /\ Branch(h, T, S, m, "left") /\ Branch(h, T, S, m, "right")
          /\ "left" \in Sides /\ "right" \in Sides /\ Other("left") = "right" /\ Other("right") = "left"
        BY Branches DEF Sides, Other
    <2>2. /\ T[l] \cap T[r] = {} /\ m \notin T[l] /\ m \notin T[r]
          /\ T[m] = T[l] \cup {m} \cup T[r] /\ T[m] \subseteq S
        BY <2>1 DEF Branch
    <2>3. IsFiniteSet(T[l]) /\ IsFiniteSet(T[r])
        BY <1>1, <2>2, NodesAssumption, FS_Subset
    <2>4. /\ l # NULL => Count(h, l) = Cardinality(T[l])
          /\ r # NULL => Count(h, r) = Cardinality(T[r])
        BY <1>3, <2>1
    <2>5. Count(h, l) = Cardinality(T[l]) /\ Count(h, r) = Cardinality(T[r])
        BY <1>1, <2>4
    <2>6. h[m].count = 1 + Count(h, l) + Count(h, r)
        BY <2>1 DEF Kept, KeptOn
    <2> HIDE DEF l, r
    <2>7. Cardinality(T[m]) = Cardinality(T[l]) + 1 + Cardinality(T[r])
          /\ Cardinality(T[l]) \in Nat /\ Cardinality(T[r]) \in Nat
        <3> DEFINE A == T[l]
                   B == T[r]
        <3>1. /\ A \cap B = {} /\ m \notin A /\ m \notin B /\ T[m] = A \cup {m} \cup B
              /\ IsFiniteSet(A) /\ IsFiniteSet(B)
            BY <2>2, <2>3
        <3> HIDE DEF A, B
        <3>2. /\ Cardinality(T[m]) = Cardinality(A) + 1 + Cardinality(B)
              /\ Cardinality(A) \in Nat /\ Cardinality(B) \in Nat
            BY <3>1, SizeOfThree
        <3>3. QED
            BY <3>2 DEF A, B
    <2>8. QED
        BY <1>2, <2>5, <2>6, <2>7
<1>4. S \subseteq P
    <2> HIDE DEF P
    <2>1. QED
        BY <1>3, TreeInduction
<1>5. \A m \in S : Cardinality(T[m]) \in Nat
    BY Smaller
<1>6. QED
    BY <1>1, <1>4, <1>5

\* What lies before a child, and behind it, on the side of its parent.
LEMMA BesideChild ==
    ASSUME NEW h, NEW T, NEW S, NEW root, NEW before, Tree(h, T, S, root, before),
           NEW m \in S, NEW side \in Sides, NEW c, c = h[m][Other(side)], c # NULL,
           NEW inner, inner = h[c][side]
    PROVE  /\ Beside(S, before, c, side) = Beside(S, before, m, side) \cup {m} \cup T[inner]
           /\ Beside(S, before, m, side) \cap T[inner] = {}
           /\ m \notin Beside(S, before, m, side) /\ m \notin T[inner]
           /\ c \in S /\ inner \in S \cup {NULL}
<1> DEFINE o == Other(side)
<1>1. /\ o \in Sides /\ Other(o) = side /\ S \subseteq Nodes /\ Order(before)
      /\ Branch(h, T, S, m, o) /\ NodeOK(h, T, S, root, before, m)
    BY OtherSide, Branches DEF Tree
<1>2. /\ c \in S /\ T[m] = T[c] \cup {m} \cup T[h[m][side]] /\ T[m] \subseteq S
      /\ m \notin T[c]
    BY <1>1 DEF Branch
<1>3. /\ \A x \in T[c] : On(before, x, m, o)
      /\ \A x \in T[h[m][side]] : On(before, x, m, side)
    BY <1>1 DEF NodeOK
<1>4. /\ Branch(h, T, S, c, side) /\ NodeOK(h, T, S, root, before, c)
    BY <1>2, Branches DEF Tree
<1>5. /\ T[c] = T[inner] \cup {c} \cup T[h[c][o]] /\ c \in T[c] /\ inner \in S \cup {NULL}
    BY <1>4 DEF Branch
<1>6. /\ \A x \in T[inner] : On(before, x, c, side)
      /\ \A x \in T[h[c][o]] : On(before, x, c, o)
    BY <1>1, <1>4 DEF NodeOK
<1>7. On(before, m, c, side) /\ ~On(before, m, m, side)
    BY <1>1, <1>2, <1>3, <1>5, OnFacts
<1> HIDE DEF o
<1>8. ASSUME NEW x \in S, On(before, x, c, side)
      PROVE  On(before, x, m, side) \/ x = m \/ x \in T[inner]
    <2>1. CASE x \in T[m]
        <3>1. x \notin T[h[c][o]] /\ x # c
            BY <1>1, <1>2, <1>5, <1>6, <1>8, OnFacts
        <3>2. QED
            BY <1>2, <1>3, <1>5, <2>1, <3>1
    <2>2. CASE x \notin T[m]
        <3>1. PICK s \in Sides : \A y \in T[m] : On(before, y, x, s)
            BY <2>2, Convex
        <3>2. On(before, c, x, s) /\ On(before, m, x, s)
            BY <1>2, <1>5, <3>1
        <3>3. On(before, c, x, o)
            BY <1>1, <1>2, <1>8, OnFacts DEF o
        <3>4. s = o
            BY <1>1, <1>2, <3>2, <3>3, OnFacts, OtherSide
        <3>5. On(before, x, m, side)
            BY <1>1, <3>2, <3>4, OnFacts
        <3>6. QED
            BY <3>5
    <2>3. QED
        BY <2>1, <2>2
<1>9. ASSUME NEW x \in S, On(before, x, m, side) PROVE On(before, x, c, side)
    BY <1>1, <1>2, <1>7, <1>9, OnFacts
<1>10. Beside(S, before, c, side) = Beside(S, before, m, side) \cup {m} \cup T[inner]
    BY <1>2, <1>5, <1>6, <1>7, <1>8, <1>9 DEF Beside
<1>11. ASSUME NEW x \in T[inner] PROVE ~On(before, x, m, side)
    BY <1>1, <1>2, <1>3, <1>5, <1>11, OnFacts DEF o
<1>12. QED
    BY <1>2, <1>5, <1>7, <1>10, <1>11 DEF Beside

\* The others lie on one side or the other.
LEMMA Around ==
    ASSUME NEW S \in SUBSET Nodes, NEW before, Order(before), NEW m \in S
    PROVE  /\ \A s \in Sides : /\ IsFiniteSet(Beside(S, before, m, s))
                               /\ Cardinality(Beside(S, before, m, s)) \in Nat
           /\ Cardinality(S) = Place(S, before, m) + Cardinality(Beside(S, before, m, "right"))
           /\ Cardinality(S) \in Nat /\ Place(S, before, m) \in 1 .. Cardinality(S)
<1> DEFINE A == Beside(S, before, m, "left")
           B == Beside(S, before, m, "right")
<1>1. IsFiniteSet(S) /\ Cardinality(S) \in Nat
    BY NodesAssumption, FS_Subset, FS_CardinalityType
<1>2. \A s \in Sides : /\ IsFiniteSet(Beside(S, before, m, s))
                       /\ Cardinality(Beside(S, before, m, s)) \in Nat
    <2> SUFFICES ASSUME NEW s \in Sides
                 PROVE  /\ IsFiniteSet(Beside(S, before, m, s))
                        /\ Cardinality(Beside(S, before, m, s)) \in Nat
        OBVIOUS
    <2>1. Beside(S, before, m, s) \subseteq S
        BY DEF Beside
    <2>2. QED
        BY <1>1, <2>1, FS_Subset, FS_CardinalityType
<1>3. "left" \in Sides /\ "right" \in Sides /\ Other("left") = "right"
    BY DEF Sides, Other
<1>4. A \cap B = {} /\ m \notin A /\ m \notin B /\ S = A \cup {m} \cup B
    BY <1>3, OnFacts DEF Beside
<1>5. IsFiniteSet(A) /\ IsFiniteSet(B) /\ Cardinality(A) \in Nat /\ Cardinality(B) \in Nat
    BY <1>2, <1>3
<1>6. Place(S, before, m) = Cardinality(A) + 1
    BY DEF Place
<1> HIDE DEF A, B
<1>7. Cardinality(S) = Cardinality(A) + 1 + Cardinality(B)
    BY <1>4, <1>5, SizeOfThree
<1>8. /\ Cardinality(S) = Place(S, before, m) + Cardinality(B)
      /\ Place(S, before, m) \in 1 .. Cardinality(S)
    BY <1>5, <1>6, <1>7
<1>9. QED
    BY <1>1, <1>2, <1>8 DEF B

\* The distance between a node and a child is what offsetAVL() adds to pos.
LEMMA PlaceOfChild ==
    ASSUME NEW h, NEW T, NEW S, NEW root, NEW before, Tree(h, T, S, root, before),
           \A x \in S : Kept(h, x), NEW m \in S
    PROVE  /\ h[m].right # NULL =>
                  Place(S, before, h[m].right) =
                      Place(S, before, m) + Count(h, h[h[m].right].left) + 1
           /\ h[m].left # NULL =>
                  Place(S, before, h[m].left) =
                      Place(S, before, m) - (Count(h, h[h[m].left].right) + 1)
<1>1. /\ S \in SUBSET Nodes /\ Order(before) /\ h \in Heap
      /\ "left" \in Sides /\ "right" \in Sides /\ Other("left") = "right" /\ Other("right") = "left"
    BY DEF Tree, Sides, Other
<1>2. \A x \in S : /\ h[x].left = h[x]["left"] /\ h[x].right = h[x]["right"]
    OBVIOUS
<1>3. ASSUME NEW side \in Sides, NEW c, c = h[m][Other(side)], c # NULL
      PROVE  /\ c \in S
             /\ Cardinality(Beside(S, before, c, side)) =
                    Cardinality(Beside(S, before, m, side)) + 1 + Count(h, h[c][side])
             /\ Cardinality(Beside(S, before, m, side)) \in Nat /\ Count(h, h[c][side]) \in Nat
    <2> DEFINE A == Beside(S, before, m, side)
               B == T[h[c][side]]
    <2>1. /\ Beside(S, before, c, side) = A \cup {m} \cup B
          /\ A \cap B = {} /\ m \notin A /\ m \notin B
          /\ c \in S /\ h[c][side] \in S \cup {NULL}
        BY <1>3, BesideChild
    <2>2. Count(h, h[c][side]) = Cardinality(B) /\ Count(h, h[c][side]) \in Nat
        BY <2>1, CountsAre
    <2>3. IsFiniteSet(A) /\ Cardinality(A) \in Nat
        BY <1>1, Around
    <2>4. B \subseteq Nodes
        BY <1>1, <2>1 DEF Tree, Ptr
    <2>5. IsFiniteSet(B)
        BY <2>4, NodesAssumption, FS_Subset
    <2> HIDE DEF A, B
    <2>6. Cardinality(A \cup {m} \cup B) = Cardinality(A) + 1 + Cardinality(B)
        BY <2>1, <2>3, <2>5, SizeOfThree
    <2>7. QED
        BY <2>1, <2>2, <2>3, <2>6 DEF A
<1>4. ASSUME h[m].right # NULL
      PROVE  Place(S, before, h[m].right) = Place(S, before, m) + Count(h, h[h[m].right].left) + 1
    <2> DEFINE c == h[m].right
               a == Cardinality(Beside(S, before, m, "left"))
               k == Count(h, h[c].left)
    <2>1. /\ Cardinality(Beside(S, before, c, "left")) = a + 1 + k
          /\ a \in Nat /\ k \in Nat
        BY <1>1, <1>2, <1>3, <1>4
    <2>2. Place(S, before, c) = (a + 1 + k) + 1 /\ Place(S, before, m) = a + 1
        BY <2>1 DEF Place
    <2> HIDE DEF a, k
    <2>3. Place(S, before, c) = Place(S, before, m) + k + 1
        BY <2>1, <2>2
    <2>4. QED
        BY <2>3 DEF k
<1>5. ASSUME h[m].left # NULL
      PROVE  Place(S, before, h[m].left) = Place(S, before, m) - (Count(h, h[h[m].left].right) + 1)
    <2> DEFINE c == h[m].left
               a == Cardinality(Beside(S, before, m, "right"))
               b == Cardinality(Beside(S, before, c, "right"))
               k == Count(h, h[c].right)
               N == Cardinality(S)
    <2>1. c \in S /\ b = a + 1 + k /\ a \in Nat /\ k \in Nat
        BY <1>1, <1>2, <1>3, <1>5
    <2>2. /\ N = Place(S, before, c) + b /\ N = Place(S, before, m) + a
          /\ N \in Nat /\ Place(S, before, c) \in 1 .. N /\ Place(S, before, m) \in 1 .. N
        BY <1>1, <2>1, Around
    <2> HIDE DEF a, b, k, N
    <2>3. Place(S, before, c) = Place(S, before, m) - (k + 1)
        BY <2>1, <2>2
    <2>4. QED
        BY <2>3 DEF k
<1>6. QED
    BY <1>4, <1>5

\* The root has its left subtree before it, and its right one behind.
LEMMA PlaceOfRoot ==
    ASSUME NEW h, NEW T, NEW S, NEW root, NEW before, Tree(h, T, S, root, before),
           \A x \in S : Kept(h, x), root # NULL
    PROVE  /\ Place(S, before, root) = Count(h, h[root].left) + 1
           /\ Cardinality(S) = Place(S, before, root) + Count(h, h[root].right)
<1>1. /\ S \in SUBSET Nodes /\ Order(before) /\ root \in S /\ T[root] = S
      /\ "left" \in Sides /\ "right" \in Sides /\ Other("left") = "right" /\ Other("right") = "left"
    BY DEF Tree, RootOK, Sides, Other
<1>2. h[root].left = h[root]["left"] /\ h[root].right = h[root]["right"]
    OBVIOUS
<1>3. ASSUME NEW s \in Sides
      PROVE  Cardinality(Beside(S, before, root, s)) = Count(h, h[root][s])
    <2>1. /\ Branch(h, T, S, root, s) /\ NodeOK(h, T, S, root, before, root)
          /\ Other(s) \in Sides /\ Other(Other(s)) = s
        BY <1>1, OtherSide, Branches DEF Tree
    <2>2. /\ S = T[h[root][s]] \cup {root} \cup T[h[root][Other(s)]]
          /\ h[root][s] \in S \cup {NULL}
        BY <1>1, <2>1 DEF Branch
    <2>3. /\ \A x \in T[h[root][s]] : On(before, x, root, s)
          /\ \A x \in T[h[root][Other(s)]] : On(before, x, root, Other(s))
        BY <2>1 DEF NodeOK
    <2>4. \A x \in S : On(before, x, root, Other(s)) \/ x = root => ~On(before, x, root, s)
        BY <1>1, <2>1, OnFacts
    <2>5. Beside(S, before, root, s) = T[h[root][s]]
        BY <2>2, <2>3, <2>4 DEF Beside
    <2>6. QED
        BY <2>2, <2>5, CountsAre
<1>4. Cardinality(S) = Place(S, before, root) + Cardinality(Beside(S, before, root, "right"))
    BY <1>1, Around
<1>5. QED
    BY <1>1, <1>2, <1>3, <1>4 DEF Place
------------------------------------------------------------------------------
(* offsetAVL().                                                            *)

\* One round of offsetAVL()'s loop at m, which is pos positions after the start.
WalkStep(h, offset, walk, m, pos) ==
    LET l == h[m].left  r == h[m].right  p == h[m].parent
    IN  CASE pos = offset -> m
          [] pos < offset /\ pos + Count(h, r) >= offset ->
               walk[<<r, pos + Count(h, h[r].left) + 1>>]
          [] pos > offset /\ pos - Count(h, l) <= offset ->
               walk[<<l, pos - (Count(h, h[l].right) + 1)>>]
          [] OTHER ->
               IF p = NULL THEN NULL
               ELSE walk[<<p, IF h[p].right = m THEN pos - (Count(h, l) + 1)
                                                ELSE pos + Count(h, r) + 1>>]

Walks(walk, h, offset) ==
    walk = [at \in Nodes \X Int |-> WalkStep(h, offset, walk, at[1], at[2])]

\* The target is in the subtree of m.
Within(h, offset, m, pos) ==
    pos - Count(h, h[m].left) <= offset /\ offset <= pos + Count(h, h[m].right)

\* The loop climbs to ever larger subtrees until one has the target, and
\* then goes down in ever smaller ones.
WalkRank(h, T, S, offset, m, pos) ==
    IF Within(h, offset, m, pos) THEN Cardinality(T[m])
    ELSE Cardinality(S) + Cardinality(S) + 1 - Cardinality(T[m])

\* The loop goes on at c, which is closer, at pos q.
GoesTo(h, T, S, before, offset, m, pos, c, q) ==
    /\ c \in S /\ q \in Int
    /\ \A walk : WalkStep(h, offset, walk, m, pos) = walk[<<c, q>>]
    /\ WalkRank(h, T, S, offset, c, q) < WalkRank(h, T, S, offset, m, pos)
    /\ q - pos = Place(S, before, c) - Place(S, before, m)

\* It goes right, towards the target.
LEMMA WalkRight ==
    ASSUME NEW h, NEW T, NEW S, NEW root, NEW before, Tree(h, T, S, root, before),
           \A x \in S : Kept(h, x), NEW m \in S, NEW pos \in Int, NEW offset \in Int,
           pos < offset, pos + Count(h, h[m].right) >= offset
    PROVE  \E c, q : GoesTo(h, T, S, before, offset, m, pos, c, q)
<1> DEFINE r == h[m].right
           a == Count(h, h[r].left)
           b == Count(h, h[r].right)
           q == pos + a + 1
<1>1. /\ S \in SUBSET Nodes /\ Order(before) /\ h \in Heap
      /\ "left" \in Sides /\ "right" \in Sides /\ Other("left") = "right" /\ Other("right") = "left"
    BY DEF Tree, Sides, Other
<1>2. r # NULL
    BY DEF Count
<1>3. \A x \in S : h[x].left \in S \cup {NULL} /\ h[x].right \in S \cup {NULL}
    <2> SUFFICES ASSUME NEW x \in S PROVE h[x].left \in S \cup {NULL} /\ h[x].right \in S \cup {NULL}
        OBVIOUS
    <2>1. Branch(h, T, S, x, "left") /\ Branch(h, T, S, x, "right")
        BY <1>1, Branches
    <2>2. QED
        BY <2>1 DEF Branch
<1>4. r \in S /\ Cardinality(T[r]) < Cardinality(T[m])
    BY <1>1, <1>2, Smaller
<1>5. a \in Nat /\ b \in Nat /\ Count(h, h[m].left) \in Nat
    BY <1>3, <1>4, CountsAre
<1>6. Count(h, r) = 1 + a + b
    BY <1>1, <1>2, <1>4 DEF Kept, KeptOn, Count
<1>7. Place(S, before, r) = Place(S, before, m) + a + 1
    BY <1>2, PlaceOfChild
<1>8. Place(S, before, r) \in Nat /\ Place(S, before, m) \in Nat
    BY <1>1, <1>4, Around
<1>9. \A walk : WalkStep(h, offset, walk, m, pos) = walk[<<r, q>>]
    BY DEF WalkStep
<1> HIDE DEF a, b
<1>10. Within(h, offset, m, pos)
    <2> DEFINE l == Count(h, h[m].left)
               k == Count(h, r)
    <2>1. l \in Nat /\ k \in Int
        BY <1>5, <1>6
    <2> HIDE DEF l, k, r
    <2>2. pos - l <= offset
        BY <2>1
    <2>3. QED
        BY <2>2 DEF Within, l, r
<1>11. Within(h, offset, r, q)
    <2>1. q - a <= offset
        BY <1>5
    <2>2. offset <= q + b
        BY <1>5, <1>6
    <2>3. QED
        BY <2>1, <2>2 DEF Within, a, b
<1>12. q \in Int /\ q - pos = Place(S, before, r) - Place(S, before, m)
    BY <1>5, <1>7, <1>8
<1>13. GoesTo(h, T, S, before, offset, m, pos, r, q)
    <2> HIDE DEF q, r
    <2>1. WalkRank(h, T, S, offset, r, q) < WalkRank(h, T, S, offset, m, pos)
        BY <1>4, <1>10, <1>11 DEF WalkRank
    <2>2. QED
        BY <1>4, <1>9, <1>12, <2>1 DEF GoesTo
<1>14. QED
    BY <1>13

\* It goes left.
LEMMA WalkLeft ==
    ASSUME NEW h, NEW T, NEW S, NEW root, NEW before, Tree(h, T, S, root, before),
           \A x \in S : Kept(h, x), NEW m \in S, NEW pos \in Int, NEW offset \in Int,
           pos > offset, pos - Count(h, h[m].left) <= offset
    PROVE  \E c, q : GoesTo(h, T, S, before, offset, m, pos, c, q)
<1> DEFINE l == h[m].left
           a == Count(h, h[l].left)
           b == Count(h, h[l].right)
           q == pos - (b + 1)
<1>1. /\ S \in SUBSET Nodes /\ Order(before) /\ h \in Heap
      /\ "left" \in Sides /\ "right" \in Sides /\ Other("left") = "right" /\ Other("right") = "left"
    BY DEF Tree, Sides, Other
<1>2. l # NULL
    BY DEF Count
<1>3. \A x \in S : h[x].left \in S \cup {NULL} /\ h[x].right \in S \cup {NULL}
    <2> SUFFICES ASSUME NEW x \in S PROVE h[x].left \in S \cup {NULL} /\ h[x].right \in S \cup {NULL}
        OBVIOUS
    <2>1. Branch(h, T, S, x, "left") /\ Branch(h, T, S, x, "right")
        BY <1>1, Branches
    <2>2. QED
        BY <2>1 DEF Branch
<1>4. l \in S /\ Cardinality(T[l]) < Cardinality(T[m])
    BY <1>1, <1>2, Smaller
<1>5. a \in Nat /\ b \in Nat /\ Count(h, h[m].right) \in Nat
    BY <1>3, <1>4, CountsAre
<1>6. Count(h, l) = 1 + a + b
    BY <1>1, <1>2, <1>4 DEF Kept, KeptOn, Count
<1>7. Place(S, before, l) = Place(S, before, m) - (b + 1)
    BY <1>2, PlaceOfChild
<1>8. Place(S, before, l) \in Nat /\ Place(S, before, m) \in Nat
    BY <1>1, <1>4, Around
<1>9. \A walk : WalkStep(h, offset, walk, m, pos) = walk[<<l, q>>]
    BY DEF WalkStep
<1> HIDE DEF a, b
<1>10. Within(h, offset, m, pos)
    <2> DEFINE r == Count(h, h[m].right)
               k == Count(h, l)
    <2>1. r \in Nat /\ k \in Int
        BY <1>5, <1>6
    <2> HIDE DEF r, k, l
    <2>2. offset <= pos + r
        BY <2>1
    <2>3. QED
        BY <2>2 DEF Within, l, r
<1>11. Within(h, offset, l, q)
    <2>1. q - a <= offset
        BY <1>5, <1>6
    <2>2. offset <= q + b
        BY <1>5
    <2>3. QED
        BY <2>1, <2>2 DEF Within, a, b
<1>12. q \in Int /\ q - pos = Place(S, before, l) - Place(S, before, m)
    BY <1>5, <1>7, <1>8
<1>13. GoesTo(h, T, S, before, offset, m, pos, l, q)
    <2> HIDE DEF q, l
    <2>1. WalkRank(h, T, S, offset, l, q) < WalkRank(h, T, S, offset, m, pos)
        BY <1>4, <1>10, <1>11 DEF WalkRank
    <2>2. QED
        BY <1>4, <1>9, <1>12, <2>1 DEF GoesTo
<1>14. QED
    BY <1>13

\* It goes up.
LEMMA WalkUp ==
    ASSUME NEW h, NEW T, NEW S, NEW root, NEW before, Tree(h, T, S, root, before),
           \A x \in S : Kept(h, x), NEW m \in S, m # root, NEW pos \in Int, NEW offset \in Int,
           pos # offset, ~Within(h, offset, m, pos)
    PROVE  \E c, q : GoesTo(h, T, S, before, offset, m, pos, c, q)
<1> DEFINE p == h[m].parent
           l == Count(h, h[m].left)
           r == Count(h, h[m].right)
           q == IF h[p].right = m THEN pos - (l + 1) ELSE pos + r + 1
<1>1. /\ S \in SUBSET Nodes /\ Order(before) /\ h \in Heap
      /\ "left" \in Sides /\ "right" \in Sides /\ Other("left") = "right" /\ Other("right") = "left"
    BY DEF Tree, Sides, Other
<1>2. /\ p \in S /\ p # NULL /\ h[p][SideOf(h, p, m)] = m
    BY ParentFacts
<1>3. h[m].left \in S \cup {NULL} /\ h[m].right \in S \cup {NULL}
    <2>1. Branch(h, T, S, m, "left") /\ Branch(h, T, S, m, "right")
        BY <1>1, Branches
    <2>2. QED
        BY <2>1 DEF Branch
<1>4. l \in Nat /\ r \in Nat
    BY <1>3, CountsAre
<1>5. m # NULL /\ (h[p].right = m \/ h[p].left = m)
    BY <1>1, <1>2, NodesAssumption DEF SideOf
<1>6. /\ h[p].right = m => Place(S, before, m) = Place(S, before, p) + l + 1
      /\ h[p].left = m => Place(S, before, m) = Place(S, before, p) - (r + 1)
    BY <1>2, <1>5, PlaceOfChild
<1>7. Place(S, before, m) \in Nat /\ Place(S, before, p) \in Nat
    BY <1>1, <1>2, Around
<1>8. ~(pos < offset /\ pos + r >= offset) /\ ~(pos > offset /\ pos - l <= offset)
    <2>1. ~(pos - l <= offset /\ offset <= pos + r)
        BY DEF Within
    <2> HIDE DEF l, r
    <2>2. QED
        BY <1>4, <2>1
<1>9. \A walk : WalkStep(h, offset, walk, m, pos) = walk[<<p, q>>]
    BY <1>2, <1>8 DEF WalkStep
<1>10. q \in Int /\ q - pos = Place(S, before, p) - Place(S, before, m)
    <2> HIDE DEF p, l, r
    <2>1. CASE h[p].right = m
        BY <1>4, <1>6, <1>7, <2>1
    <2>2. CASE h[p].right # m
        BY <1>4, <1>5, <1>6, <1>7, <2>2
    <2>3. QED
        BY <2>1, <2>2
<1>11. Cardinality(T[m]) < Cardinality(T[p])
    <2>1. \E s \in Sides : h[p][s] = m
        BY <1>2, SideOfTyped
    <2>2. QED
        BY <1>2, <1>5, <2>1, Smaller
<1>12. /\ Cardinality(T[m]) \in Nat /\ Cardinality(T[p]) \in Nat /\ Cardinality(S) \in Nat
       /\ Cardinality(T[p]) <= Cardinality(S)
    <2>1. IsFiniteSet(S) /\ T[p] \subseteq S
        BY <1>1, <1>2, NodesAssumption, FS_Subset DEF Tree, Ptr
    <2>2. QED
        BY <1>2, <2>1, FS_Subset, FS_CardinalityType, Smaller
<1> HIDE DEF p, q
<1>13. WalkRank(h, T, S, offset, p, q) < WalkRank(h, T, S, offset, m, pos)
    <2> DEFINE a == Cardinality(T[m])
               b == Cardinality(T[p])
               N == Cardinality(S)
    <2>1. WalkRank(h, T, S, offset, m, pos) = N + N + 1 - a
        BY DEF WalkRank
    <2>2. WalkRank(h, T, S, offset, p, q) = b \/ WalkRank(h, T, S, offset, p, q) = N + N + 1 - b
        BY DEF WalkRank
    <2> HIDE DEF a, b, N
    <2>3. a < b /\ a \in Nat /\ b \in Nat /\ N \in Nat /\ b <= N
        BY <1>11, <1>12 DEF a, b, N
    <2>4. QED
        BY <2>1, <2>2, <2>3
<1>14. GoesTo(h, T, S, before, offset, m, pos, p, q)
    BY <1>2, <1>9, <1>10, <1>13 DEF GoesTo
<1>15. QED
    BY <1>14

\* In each round the loop ends at m, ends at the root, or goes on closer to its end.
LEMMA WalkGoes ==
    ASSUME NEW h, NEW T, NEW S, NEW root, NEW before, Tree(h, T, S, root, before),
           \A x \in S : Kept(h, x), NEW m \in S, NEW pos \in Int, NEW offset \in Int
    PROVE  \/ pos = offset /\ \A walk : WalkStep(h, offset, walk, m, pos) = m
           \/ /\ m = root /\ ~Within(h, offset, m, pos)
              /\ \A walk : WalkStep(h, offset, walk, m, pos) = NULL
           \/ \E c, q : GoesTo(h, T, S, before, offset, m, pos, c, q)
<1> DEFINE l == Count(h, h[m].left)
           r == Count(h, h[m].right)
<1>1. l \in Nat /\ r \in Nat
    <2>1. "left" \in Sides /\ "right" \in Sides
        BY DEF Sides
    <2>2. Branch(h, T, S, m, "left") /\ Branch(h, T, S, m, "right")
        BY <2>1, Branches
    <2>3. h[m].left \in S \cup {NULL} /\ h[m].right \in S \cup {NULL}
        BY <2>2 DEF Branch
    <2>4. QED
        BY <2>3, CountsAre
<1>2. CASE pos = offset
    BY <1>2 DEF WalkStep
<1>3. CASE pos < offset /\ pos + r >= offset
    BY <1>3, WalkRight
<1>4. CASE pos > offset /\ pos - l <= offset
    BY <1>4, WalkLeft
<1>5. CASE pos # offset /\ ~(pos < offset /\ pos + r >= offset) /\ ~(pos > offset /\ pos - l <= offset)
    <2>1. ~Within(h, offset, m, pos)
        <3>1. ~(pos - l <= offset /\ offset <= pos + r)
            <4> HIDE DEF l, r
            <4>1. QED
                BY <1>1, <1>5
        <3>2. QED
            BY <3>1 DEF Within
    <2>2. CASE m # root
        BY <1>5, <2>1, <2>2, WalkUp
    <2>3. CASE m = root
        <3>1. h[m].parent = NULL
            BY <2>3, RootFacts
        <3>2. \A walk : WalkStep(h, offset, walk, m, pos) = NULL
            BY <1>5, <3>1 DEF WalkStep
        <3>3. QED
            BY <2>1, <2>3, <3>2
    <2>4. QED
        BY <2>2, <2>3
<1>6. QED
    BY <1>2, <1>3, <1>4, <1>5

\* For a node in no tree the loop ends at once.
LEMMA WalkOutside ==
    ASSUME NEW h \in Heap, NEW S, Loose(h, S), Orphans(h, S), NEW m \in Nodes \ S,
           NEW pos \in Int, NEW offset \in Int
    PROVE  \/ \A walk : WalkStep(h, offset, walk, m, pos) = m
           \/ \A walk : WalkStep(h, offset, walk, m, pos) = NULL
<1>1. h[m].left = NULL /\ h[m].right = NULL /\ h[m].parent = NULL
    <2>1. h[m]["left"] = NULL /\ h[m]["right"] = NULL
        BY DEF Loose, Sides
    <2>2. QED
        BY <2>1 DEF Orphans
<1>2. Count(h, NULL) = 0
    BY DEF Count
<1>3. ~(pos < offset /\ pos + 0 >= offset) /\ ~(pos > offset /\ pos - 0 <= offset)
    OBVIOUS
<1>4. CASE pos = offset
    BY <1>4 DEF WalkStep
<1>5. CASE pos # offset
    BY <1>1, <1>2, <1>3, <1>5 DEF WalkStep
<1>6. QED
    BY <1>4, <1>5

\* offsetAVL()'s loop is a function.
LEMMA WalkExists ==
    ASSUME NEW h, NEW T, NEW S, NEW root, NEW before, Tree(h, T, S, root, before),
           \A x \in S : Kept(h, x), Loose(h, S), Orphans(h, S), NEW offset \in Int
    PROVE  \E f : Walks(f, h, offset)
<1> DEFINE D == Nodes \X Int
           next(f, at) == WalkStep(h, offset, f, at[1], at[2])
           rank == [at \in D |-> IF at[1] \in S THEN WalkRank(h, T, S, offset, at[1], at[2]) ELSE 0]
           G == [f \in [D -> Ptr] |-> [at \in D |-> next(f, at)]]
<1>1. S \in SUBSET Nodes /\ h \in Heap /\ \A x \in S : T[x] \subseteq S
    BY DEF Tree, Ptr
<1>2. ASSUME NEW m \in S, NEW pos \in Int PROVE WalkRank(h, T, S, offset, m, pos) \in Nat
    <2>1. IsFiniteSet(S) /\ T[m] \subseteq S
        BY <1>1, NodesAssumption, FS_Subset
    <2>2. /\ Cardinality(S) \in Nat /\ Cardinality(T[m]) \in Nat
          /\ Cardinality(T[m]) <= Cardinality(S)
        BY <2>1, FS_Subset, FS_CardinalityType
    <2>3. QED
        BY <2>2 DEF WalkRank
<1>3. rank \in [D -> Nat]
    <2>1. \A at \in D : at[1] \in S => WalkRank(h, T, S, offset, at[1], at[2]) \in Nat
        BY <1>2
    <2>2. QED
        BY <2>1
<1>4. ASSUME NEW m \in Nodes, NEW pos \in Int
      PROVE  \/ \E x \in Ptr : \A walk : WalkStep(h, offset, walk, m, pos) = x
             \/ \E d \in D : /\ rank[d] < rank[<<m, pos>>]
                             /\ \A walk : WalkStep(h, offset, walk, m, pos) = walk[d]
    <2>1. CASE m \notin S
        <3>1. m \in Ptr /\ NULL \in Ptr
            BY DEF Ptr
        <3>2. \/ \A walk : WalkStep(h, offset, walk, m, pos) = m
              \/ \A walk : WalkStep(h, offset, walk, m, pos) = NULL
            BY <1>1, <2>1, WalkOutside
        <3> HIDE DEF rank, D
        <3>3. QED
            BY <3>1, <3>2
    <2>2. CASE m \in S
        <3>1. CASE \E c, q : GoesTo(h, T, S, before, offset, m, pos, c, q)
            <4>1. PICK c, q : GoesTo(h, T, S, before, offset, m, pos, c, q)
                BY <3>1
            <4>2. /\ c \in S /\ c \in Nodes /\ q \in Int
                  /\ \A walk : WalkStep(h, offset, walk, m, pos) = walk[<<c, q>>]
                  /\ WalkRank(h, T, S, offset, c, q) < WalkRank(h, T, S, offset, m, pos)
                BY <1>1, <4>1 DEF GoesTo
            <4>3. /\ <<c, q>> \in D /\ <<m, pos>> \in D
                  /\ rank[<<c, q>>] = WalkRank(h, T, S, offset, c, q)
                  /\ rank[<<m, pos>>] = WalkRank(h, T, S, offset, m, pos)
                BY <2>2, <4>2
            <4> HIDE DEF rank, D
            <4>4. QED
                BY <4>2, <4>3
        <3>2. CASE ~\E c, q : GoesTo(h, T, S, before, offset, m, pos, c, q)
            <4>1. m \in Ptr /\ NULL \in Ptr
                BY DEF Ptr
            <4>2. \/ \A walk : WalkStep(h, offset, walk, m, pos) = m
                  \/ \A walk : WalkStep(h, offset, walk, m, pos) = NULL
                BY <2>2, <3>2, WalkGoes
            <4> HIDE DEF rank, D
            <4>3. QED
                BY <4>1, <4>2
        <3>3. QED
            BY <3>1, <3>2
    <2>3. QED
        BY <2>1, <2>2
<1>5. ASSUME NEW at \in D
      PROVE  \/ \E x \in Ptr : \A f : next(f, at) = x
             \/ \E d \in D : rank[d] < rank[at] /\ \A f : next(f, at) = f[d]
    <2>1. at[1] \in Nodes /\ at[2] \in Int /\ at = <<at[1], at[2]>>
        OBVIOUS
    <2> HIDE DEF rank
    <2>2. QED
        BY <1>4, <2>1
<1> HIDE DEF next, D
<1>6. \A f \in [D -> Ptr], at \in D : next(f, at) \in Ptr
    BY <1>5
<1>7. G \in [[D -> Ptr] -> [D -> Ptr]]
    BY <1>6
<1>8. \A f \in [D -> Ptr], at \in D : G[f][at] = next(f, at)
    OBVIOUS
<1>9. Ranked(D, Ptr, rank, G)
    <2> SUFFICES ASSUME NEW at \in D, NEW f \in [D -> Ptr], NEW g \in [D -> Ptr],
                        \A y \in D : rank[y] < rank[at] => f[y] = g[y]
                 PROVE  next(f, at) = next(g, at)
        BY <1>8 DEF Ranked
    <2> HIDE DEF rank
    <2>1. QED
        BY <1>5
<1>10. Ptr # {}
    BY DEF Ptr
<1> HIDE DEF G, rank
<1>11. PICK f : Defines(f, D, Ptr, G)
    BY <1>3, <1>7, <1>9, <1>10, RankedFunction
<1>12. f = [at \in D |-> next(f, at)]
    BY <1>8, <1>11 DEF Defines
<1>13. Walks(f, h, offset)
    BY <1>12 DEF Walks, D, next
<1>14. QED
    BY <1>13
==============================================================================
