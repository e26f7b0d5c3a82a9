------------------------------ MODULE AVLTree ------------------------------
(***************************************************************************)
(* The intrusive AVL tree of avl/c/avl.c as operators on a heap of nodes:  *)
(* each takes the heap before a call and returns the heap after it and the *)
(* node the C function returns.  rotateLeft and rotateRight, and fixLeft   *)
(* and fixRight, are mirror images line by line, so that each pair is one  *)
(* operator with the side as a parameter.                                  *)
(***************************************************************************)
EXTENDS Integers, FiniteSets

CONSTANT Nodes   \* the addresses of nodes

NULL == 0

ASSUME NodesAssumption == Nodes \subseteq Nat \ {NULL} /\ IsFiniteSet(Nodes)

AVLNode == [left : Nodes \cup {NULL}, right : Nodes \cup {NULL},
            parent : Nodes \cup {NULL}, depth : Nat, count : Nat]

Heap == [Nodes -> AVLNode]

Other(side) == IF side = "left" THEN "right" ELSE "left"

\* The link of p that holds n.
SideOf(h, p, n) == IF h[p].left = n THEN "left" ELSE "right"
------------------------------------------------------------------------------
InitNode == [left |-> NULL, right |-> NULL, parent |-> NULL, depth |-> 1, count |-> 1]

Depth(h, n) == IF n = NULL THEN 0 ELSE h[n].depth
Count(h, n) == IF n = NULL THEN 0 ELSE h[n].count

Deeper(a, b) == IF a < b THEN b ELSE a

\* Mutant: the size of a node is not kept up.
UpdateDepthOnly(h, n) ==
    [h EXCEPT ![n].depth = 1 + Deeper(Depth(h, h[n].left), Depth(h, h[n].right))]

Update(h, n) ==
    [h EXCEPT ![n].depth = 1 + Deeper(Depth(h, h[n].left), Depth(h, h[n].right)),
              ![n].count = 1 + Count(h, h[n].left) + Count(h, h[n].right)]

SetParent(h, n, p) == IF n = NULL THEN h ELSE [h EXCEPT ![n].parent = p]

\* Mutant: the inner subtree keeps its old parent.
RotateLosingInner(h, n, side) ==
    LET new == h[n][Other(side)]
        turned == [h EXCEPT ![n][Other(side)] = h[new][side], ![n].parent = new,
                            ![new][side] = n, ![new].parent = h[n].parent]
    IN  [heap |-> Update(Update(turned, n), new), top |-> new]

\* Node n goes down on this side; its child on the other side takes its
\* place under the same parent, whose link is the caller's to change.
Rotate(h, n, side) ==
    LET new    == h[n][Other(side)]
        inner  == h[new][side]
        turned == [SetParent(h, inner, n) EXCEPT
                     ![n][Other(side)] = inner, ![n].parent = new,
                     ![new][side] = n, ![new].parent = h[n].parent]
    IN  [heap |-> Update(Update(turned, n), new), top |-> new]

\* Mutant: the double rotation is forgotten.
FixOnce(h, n, deep) == Rotate(h, n, Other(deep))

\* The subtree of n on side deep is too deep.
Fix(h, n, deep) ==
    LET child == h[n][deep]
        inner == Rotate(h, child, deep)
        bent  == Depth(h, h[child][deep]) < Depth(h, h[child][Other(deep)])
    IN  Rotate(IF bent THEN [inner.heap EXCEPT ![n][deep] = inner.top] ELSE h,
               n, Other(deep))

\* One round of fixAVL()'s loop: sizes and depths of a node are recomputed, the
\* node is rotated if it is out of balance, and the link of its parent renewed.
Round(at) ==
    LET m == at.node
        u == Update(at.heap, m)
        l == Depth(u, u[m].left)
        r == Depth(u, u[m].right)
        p == u[m].parent
        fixed == CASE l = r + 2 -> Fix(u, m, "left")
                   [] l + 2 = r -> Fix(u, m, "right")
                   [] OTHER     -> [heap |-> u, top |-> m]
    IN  IF p = NULL THEN [heap |-> fixed.heap, top |-> fixed.top, node |-> NULL]
        ELSE [heap |-> [fixed.heap EXCEPT ![p][SideOf(u, p, m)] = fixed.top],
              top  |-> fixed.top,
              node |-> fixed.heap[fixed.top].parent]

Climbed(at) == IF at.node = NULL THEN at ELSE Round(at)

\* From n up to the root, which is returned.  No path is longer than the
\* number of nodes.
FixAVL(h, n) ==
    LET climb[i \in 0 .. Cardinality(Nodes)] ==
          IF i = 0 THEN [heap |-> h, top |-> n, node |-> n] ELSE Climbed(climb[i - 1])
        last == climb[Cardinality(Nodes)]
    IN  [heap |-> last.heap, top |-> last.top]
------------------------------------------------------------------------------
LeftMost(h, n) ==
    LET down[m \in Nodes] == IF h[m].left = NULL THEN m ELSE down[h[m].left]
    IN  down[n]

\* Takes n out of its tree and returns the new root.  A node without right
\* subtree gives its place to its left child.  Otherwise its successor is
\* taken out and becomes a copy of n, in n's place.
DelAVL(h, n) ==
    LET del[m \in Nodes] ==
          LET p == h[m].parent
              child == h[m].left
              lifted == SetParent(h, child, p)
              victim == LeftMost(h, h[m].right)
              rest == del[victim]
              copy == rest.heap[m]
              placed == SetParent(SetParent([rest.heap EXCEPT ![victim] = copy],
                                            copy.left, victim),
                                  copy.right, victim)
          IN  CASE h[m].right = NULL /\ p # NULL ->
                     FixAVL([lifted EXCEPT ![p][SideOf(lifted, p, m)] = child], p)
                [] h[m].right = NULL /\ p = NULL ->
                     [heap |-> lifted, top |-> child]
                [] h[m].right # NULL /\ copy.parent # NULL ->
                     [heap |-> [placed EXCEPT ![copy.parent]
                                        [SideOf(placed, copy.parent, m)] = victim],
                      top  |-> rest.top]
                [] OTHER ->
                     [heap |-> placed, top |-> victim]
    IN  del[n]

\* Mutant: the right subtree is entered one position too late.
OffsetAVLShort(h, n, offset) ==
    LET walk[at \in Nodes \X Int] ==
          LET m == at[1]  pos == at[2]
              l == h[m].left  r == h[m].right  p == h[m].parent
          IN  CASE pos = offset -> m
                [] pos < offset /\ pos + Count(h, r) > offset ->
                     walk[<<r, pos + Count(h, h[r].left) + 1>>]
                [] pos > offset /\ pos - Count(h, l) <= offset ->
                     walk[<<l, pos - (Count(h, h[l].right) + 1)>>]
                [] OTHER ->
                     IF p = NULL THEN NULL
                     ELSE walk[<<p, IF h[p].right = m THEN pos - (Count(h, l) + 1)
                                                      ELSE pos + Count(h, r) + 1>>]
    IN  walk[<<n, 0>>]

\* The node that many positions after n in the order of the tree, or NULL.
\* pos is the position of the current node, relative to n.
OffsetAVL(h, n, offset) ==
    LET walk[at \in Nodes \X Int] ==
          LET m == at[1]  pos == at[2]
              l == h[m].left  r == h[m].right  p == h[m].parent
          IN  CASE pos = offset -> m
                [] pos < offset /\ pos + Count(h, r) >= offset ->
                     walk[<<r, pos + Count(h, h[r].left) + 1>>]
                [] pos > offset /\ pos - Count(h, l) <= offset ->
                     walk[<<l, pos - (Count(h, h[l].right) + 1)>>]
                [] OTHER ->
                     IF p = NULL THEN NULL
                     ELSE walk[<<p, IF h[p].right = m THEN pos - (Count(h, l) + 1)
                                                      ELSE pos + Count(h, r) + 1>>]
    IN  walk[<<n, 0>>]
=============================================================================
