----------------------------- MODULE Recursion -----------------------------
(***************************************************************************)
(* Induction and recursive definitions, stated about sets and functions    *)
(* instead of operators, so that the other modules of proofs can use them. *)
(***************************************************************************)
EXTENDS WellFoundedInduction, TLAPS

\* A set of numbers has a least element.
LEMMA Smallest ==
    ASSUME NEW T \in SUBSET Nat, T # {}
    PROVE  \E x \in T : \A y \in T : x <= y
<1> DEFINE R == OpToRel(<, Nat)
<1>1. IsWellFoundedOn(R, Nat)
    BY NatLessThanWellFounded
<1>2. \A x, y \in Nat : ~(<<y, x>> \in R) => x <= y
    BY DEF OpToRel
<1> HIDE DEF R
<1>3. PICK x \in T : \A y \in T : ~(<<y, x>> \in R)
    BY <1>1, WFMin
<1>4. \A y \in T : y \in Nat
    OBVIOUS
<1>5. \A y \in T : x <= y
    BY <1>2, <1>3, <1>4
<1>6. QED
    BY <1>5

\* A set that holds 0, and n + 1 where it holds n, holds every number.
LEMMA Induction ==
    ASSUME NEW T, 0 \in T, \A n \in Nat : n \in T => n + 1 \in T
    PROVE  \A n \in Nat : n \in T
<1> SUFFICES ASSUME Nat \ T # {} PROVE FALSE
    OBVIOUS
<1>1. PICK x \in Nat \ T : \A y \in Nat \ T : x <= y
    BY Smallest
<1>2. x # 0 /\ x \in Nat
    OBVIOUS
<1>3. x - 1 \in Nat /\ ~(x <= x - 1) /\ x - 1 + 1 = x
    BY <1>2
<1>4. x - 1 \in T
    BY <1>1, <1>3
<1>5. QED
    BY <1>3, <1>4

\* A set that holds 0, and every number up to N after the one before.
LEMMA InductionUpTo ==
    ASSUME NEW N \in Nat, NEW T, 0 \in T, \A n \in 1 .. N : n - 1 \in T => n \in T
    PROVE  \A n \in 0 .. N : n \in T
<1> DEFINE U == {n \in Nat : n <= N => n \in T}
<1>1. 0 \in U
    OBVIOUS
<1>2. ASSUME NEW n \in Nat, n \in U PROVE n + 1 \in U
    <2> SUFFICES ASSUME n + 1 <= N PROVE n + 1 \in T
        OBVIOUS
    <2> DEFINE k == n + 1
    <2>1. k \in 1 .. N /\ k - 1 = n /\ n \in T
        BY <1>2
    <2> HIDE DEF k
    <2>2. k \in T
        BY <2>1
    <2>3. QED
        BY <2>2 DEF k
<1>3. \A n \in Nat : n \in U
    <2> HIDE DEF U
    <2>1. QED
        BY <1>1, <1>2, Induction
<1>4. QED
    BY <1>3
------------------------------------------------------------------------------
(* A definition of f[x] by f at arguments of smaller rank.                 *)

\* What the definition, G, makes of f at x depends on smaller arguments only.
Ranked(D, V, rank, G) ==
    \A x \in D, f, g \in [D -> V] :
        (\A y \in D : rank[y] < rank[x] => f[y] = g[y]) => G[f][x] = G[g][x]

\* f is as defined below rank n.
DefinedBelow(f, n, D, V, rank, G) ==
    f \in [D -> V] /\ \A x \in D : rank[x] < n => f[x] = G[f][x]

\* f and g are the same below ranks m and n.
Agree(f, g, m, n, D, rank) ==
    \A x \in D : rank[x] < m /\ rank[x] < n => f[x] = g[x]

LEMMA AgreeBelow ==
    ASSUME NEW D, NEW V, NEW rank \in [D -> Nat], NEW G \in [[D -> V] -> [D -> V]],
           Ranked(D, V, rank, G)
    PROVE  \A m, n \in Nat : \A f, g :
               DefinedBelow(f, m, D, V, rank, G) /\ DefinedBelow(g, n, D, V, rank, G)
               => Agree(f, g, m, n, D, rank)
<1> SUFFICES ASSUME NEW m \in Nat, NEW n \in Nat, NEW f, NEW g,
                    DefinedBelow(f, m, D, V, rank, G), DefinedBelow(g, n, D, V, rank, G)
             PROVE  \A x \in D : rank[x] < m /\ rank[x] < n => f[x] = g[x]
    BY DEF Agree
<1> DEFINE T == {k \in Nat : \A x \in D : rank[x] < k /\ rank[x] < m /\ rank[x] < n
                                             => f[x] = g[x]}
<1>1. 0 \in T
    OBVIOUS
<1>2. ASSUME NEW k \in Nat, k \in T PROVE k + 1 \in T
    <2> SUFFICES ASSUME NEW x \in D, rank[x] < k + 1, rank[x] < m, rank[x] < n
                 PROVE  f[x] = g[x]
        OBVIOUS
    <2>1. \A y \in D : rank[y] \in Nat
        OBVIOUS
    <2>2. ASSUME NEW y \in D, rank[y] < rank[x] PROVE f[y] = g[y]
        <3>1. rank[y] < k /\ rank[y] < m /\ rank[y] < n
            BY <2>1, <2>2
        <3>2. QED
            BY <1>2, <3>1
    <2>3. G[f][x] = G[g][x]
        BY <2>2 DEF Ranked, DefinedBelow
    <2>4. QED
        BY <2>3 DEF DefinedBelow
<1>3. \A k \in Nat : k \in T
    <2> HIDE DEF T
    <2>1. QED
        BY <1>1, <1>2, Induction
<1>4. ASSUME NEW x \in D, rank[x] < m, rank[x] < n PROVE f[x] = g[x]
    <2>1. m \in T
        BY <1>3
    <2>2. QED
        BY <1>4, <2>1
<1>5. QED
    BY <1>4

LEMMA BelowExists ==
    ASSUME NEW D, NEW V, V # {}, NEW rank \in [D -> Nat], NEW G \in [[D -> V] -> [D -> V]],
           Ranked(D, V, rank, G)
    PROVE  \A n \in Nat : \E f : DefinedBelow(f, n, D, V, rank, G)
<1> DEFINE T == {n \in Nat : \E f : DefinedBelow(f, n, D, V, rank, G)}
<1>1. 0 \in T
    <2>1. PICK v \in V : TRUE
        OBVIOUS
    <2>2. DefinedBelow([x \in D |-> v], 0, D, V, rank, G)
        BY DEF DefinedBelow
    <2>3. QED
        BY <2>2
<1>2. ASSUME NEW n \in Nat, n \in T PROVE n + 1 \in T
    <2>1. PICK f : DefinedBelow(f, n, D, V, rank, G)
        BY <1>2
    <2> DEFINE g == [x \in D |-> IF rank[x] < n THEN f[x] ELSE G[f][x]]
    <2>2. f \in [D -> V] /\ \A x \in D : rank[x] < n => f[x] = G[f][x]
        BY <2>1 DEF DefinedBelow
    <2>3. \A x \in D : G[f][x] \in V /\ rank[x] \in Nat
        BY <2>2
    <2>4. g \in [D -> V]
        BY <2>2, <2>3
    <2>5. \A x \in D : g[x] = G[f][x]
        BY <2>2
    <2>6. ASSUME NEW x \in D, rank[x] < n + 1 PROVE G[g][x] = G[f][x]
        <3>1. ASSUME NEW y \in D, rank[y] < rank[x] PROVE g[y] = f[y]
            <4>1. rank[y] < n
                BY <2>3, <2>6, <3>1
            <4>2. QED
                BY <4>1
        <3> HIDE DEF g
        <3>2. QED
            BY <2>2, <2>4, <3>1 DEF Ranked
    <2> HIDE DEF g
    <2>7. DefinedBelow(g, n + 1, D, V, rank, G)
        BY <2>4, <2>5, <2>6 DEF DefinedBelow
    <2>8. QED
        BY <2>7
<1>3. \A n \in Nat : n \in T
    <2> HIDE DEF T
    <2>1. QED
        BY <1>1, <1>2, Induction
<1>4. QED
    BY <1>3

\* f is as defined everywhere.
Defines(f, D, V, G) == f \in [D -> V] /\ \A x \in D : f[x] = G[f][x]

\* There is such a function.
LEMMA RankedFunction ==
    ASSUME NEW D, NEW V, V # {}, NEW rank \in [D -> Nat], NEW G \in [[D -> V] -> [D -> V]],
           Ranked(D, V, rank, G)
    PROVE  \E f : Defines(f, D, V, G)
<1> DEFINE Below(n) == CHOOSE f : DefinedBelow(f, n, D, V, rank, G)
           F == [x \in D |-> Below(rank[x] + 1)[x]]
<1>1. ASSUME NEW n \in Nat PROVE DefinedBelow(Below(n), n, D, V, rank, G)
    BY BelowExists
<1>2. \A x \in D : rank[x] \in Nat /\ rank[x] + 1 \in Nat /\ rank[x] < rank[x] + 1
    OBVIOUS
<1>3. ASSUME NEW x \in D
      PROVE  Below(rank[x] + 1)[x] \in V /\ F[x] = Below(rank[x] + 1)[x]
    <2>1. Below(rank[x] + 1) \in [D -> V]
        BY <1>1, <1>2 DEF DefinedBelow
    <2>2. QED
        BY <2>1
<1>4. F \in [D -> V]
    BY <1>3
<1>5. ASSUME NEW x \in D PROVE F[x] = G[F][x]
    <2> DEFINE f == Below(rank[x] + 1)
    <2>1. DefinedBelow(f, rank[x] + 1, D, V, rank, G)
        BY <1>1, <1>2
    <2>2. ASSUME NEW y \in D, rank[y] < rank[x] PROVE F[y] = f[y]
        <3> DEFINE g == Below(rank[y] + 1)
        <3>1. DefinedBelow(g, rank[y] + 1, D, V, rank, G)
            BY <1>1, <1>2
        <3>2. /\ rank[y] < rank[y] + 1 /\ rank[y] < rank[x] + 1
              /\ rank[y] + 1 \in Nat /\ rank[x] + 1 \in Nat
            BY <1>2, <2>2
        <3>3. F[y] = g[y]
            BY <1>3
        <3> HIDE DEF f, g, Below, F
        <3> DEFINE m == rank[y] + 1
                   n == rank[x] + 1
        <3>4. m \in Nat /\ n \in Nat /\ rank[y] < m /\ rank[y] < n
            BY <3>2
        <3>5. DefinedBelow(g, m, D, V, rank, G) /\ DefinedBelow(f, n, D, V, rank, G)
            BY <2>1, <3>1
        <3> HIDE DEF m, n
        <3>6. Agree(g, f, m, n, D, rank)
            BY <3>4, <3>5, AgreeBelow
        <3>7. g[y] = f[y]
            BY <3>4, <3>6 DEF Agree
        <3>8. QED
            BY <3>3, <3>7
    <2>3. F[x] = f[x]
        BY <1>3
    <2> HIDE DEF f, Below, F
    <2>4. f \in [D -> V] /\ f[x] = G[f][x]
        BY <1>2, <2>1 DEF DefinedBelow
    <2>5. G[F][x] = G[f][x]
        BY <1>4, <2>2, <2>4 DEF Ranked
    <2>6. QED
        BY <2>3, <2>4, <2>5
<1> HIDE DEF F
<1>6. QED
    BY <1>4, <1>5 DEF Defines

\* Recursion from one number to the next.
Iterates(f, N, V, a, step) ==
    f \in [0 .. N -> V] /\ f[0] = a /\ \A i \in 1 .. N : f[i] = step[i][f[i - 1]]

LEMMA Primitive ==
    ASSUME NEW N \in Nat, NEW V, NEW a \in V, NEW step \in [1 .. N -> [V -> V]]
    PROVE  \E f : Iterates(f, N, V, a, step)
<1> DEFINE D == 0 .. N
           rank == [i \in D |-> i]
           next(f, i) == IF i = 0 THEN a ELSE step[i][f[i - 1]]
           G == [f \in [D -> V] |-> [i \in D |-> next(f, i)]]
<1>1. rank \in [D -> Nat]
    OBVIOUS
<1>2. ASSUME NEW f \in [D -> V], NEW i \in D PROVE next(f, i) \in V
    <2>1. CASE i = 0
        BY <2>1
    <2>2. CASE i # 0
        <3>1. i \in 1 .. N /\ i - 1 \in D
            BY <2>2
        <3>2. step[i] \in [V -> V] /\ f[i - 1] \in V
            BY <3>1
        <3>3. QED
            BY <2>2, <3>2
    <2>3. QED
        BY <2>1, <2>2
<1>3. \A f \in [D -> V], i \in D : G[f][i] = next(f, i)
    OBVIOUS
<1>4. G \in [[D -> V] -> [D -> V]]
    BY <1>2
<1>5. Ranked(D, V, rank, G)
    <2> SUFFICES ASSUME NEW i \in D, NEW f \in [D -> V], NEW g \in [D -> V],
                        \A j \in D : rank[j] < rank[i] => f[j] = g[j]
                 PROVE  G[f][i] = G[g][i]
        BY DEF Ranked
    <2>1. CASE i = 0
        BY <1>3, <2>1
    <2>2. CASE i # 0
        <3>1. i - 1 \in D /\ rank[i - 1] < rank[i]
            BY <2>2
        <3>2. f[i - 1] = g[i - 1]
            BY <3>1
        <3>3. QED
            BY <1>3, <2>2, <3>2
    <2>3. QED
        BY <2>1, <2>2
<1> HIDE DEF G, rank
<1>6. PICK f : Defines(f, D, V, G)
    <2> HIDE DEF D
    <2>1. V # {}
        OBVIOUS
    <2>2. QED
        BY <1>1, <1>4, <1>5, <2>1, RankedFunction
<1>7. f \in [D -> V] /\ f[0] = a /\ \A i \in 1 .. N : f[i] = step[i][f[i - 1]]
    <2>1. \A i \in D : f[i] = next(f, i)
        BY <1>3, <1>6 DEF Defines
    <2>2. f \in [D -> V]
        BY <1>6 DEF Defines
    <2>3. QED
        BY <2>1, <2>2
<1>8. QED
    BY <1>7 DEF Iterates
=============================================================================
