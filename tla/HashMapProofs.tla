--------------------------- MODULE HashMapProofs ---------------------------
(***************************************************************************)
(* The hash map is a dictionary wherever its resizing stands, for all      *)
(* keys, codes and sizes of the first table, every load factor and every   *)
(* amount of work for a call.                                              *)
(***************************************************************************)
EXTENDS HashMap, FiniteSetTheorems, SequenceTheorems, Recursion

------------------------------------------------------------------------------
(* One chain.                                                              *)

DistinctChain(c) == \A j, l \in 1 .. Len(c) : c[j] = c[l] => j = l

LEMMA PrependedFacts ==
    ASSUME NEW S, NEW c \in Seq(S), NEW k \in S
    PROVE  LET d == <<k>> \o c
           IN  /\ d \in Seq(S) /\ Len(d) = Len(c) + 1
               /\ 1 \in 1 .. Len(d) /\ d[1] = k
               /\ \A j \in 1 .. Len(c) : j + 1 \in 1 .. Len(d) /\ d[j + 1] = c[j]
               /\ \A j \in 1 .. Len(d) : j # 1 => j - 1 \in 1 .. Len(c) /\ d[j] = c[j - 1]
               /\ DistinctChain(c) /\ (\A j \in 1 .. Len(c) : c[j] # k) => DistinctChain(d)
<1> DEFINE d == <<k>> \o c
<1>1. <<k>> \in Seq(S) /\ Len(<<k>>) = 1 /\ <<k>>[1] = k
    OBVIOUS
<1>2. /\ d \in Seq(S) /\ Len(d) = 1 + Len(c)
      /\ \A j \in 1 .. 1 + Len(c) : d[j] = IF j <= 1 THEN <<k>>[j] ELSE c[j - 1]
    BY <1>1, ConcatProperties
<1> HIDE DEF d
<1>3. Len(c) \in Nat
    OBVIOUS
<1>4. Len(d) = Len(c) + 1 /\ 1 \in 1 .. Len(d) /\ d[1] = k
    BY <1>1, <1>2, <1>3
<1>5. \A j \in 1 .. Len(d) : j # 1 => j - 1 \in 1 .. Len(c) /\ d[j] = c[j - 1]
    BY <1>2, <1>3
<1>6. \A j \in 1 .. Len(c) : j + 1 \in 1 .. Len(d) /\ d[j + 1] = c[j]
    BY <1>2, <1>3
<1>7. ASSUME DistinctChain(c), \A j \in 1 .. Len(c) : c[j] # k,
             NEW j \in 1 .. Len(d), NEW l \in 1 .. Len(d), d[j] = d[l]
      PROVE  j = l
    <2>1. j = 1 <=> l = 1
        BY <1>4, <1>5, <1>7
    <2>2. CASE j # 1
        <3>1. /\ j - 1 \in 1 .. Len(c) /\ d[j] = c[j - 1]
              /\ l - 1 \in 1 .. Len(c) /\ d[l] = c[l - 1]
            BY <1>5, <2>1, <2>2
        <3>2. j - 1 = l - 1
            BY <1>7, <3>1 DEF DistinctChain
        <3>3. j \in Int /\ l \in Int
            BY <1>3, <1>4
        <3>4. QED
            BY <3>2, <3>3
    <2>3. QED
        BY <2>1, <2>2
<1>8. QED
    BY <1>2, <1>4, <1>5, <1>6, <1>7 DEF DistinctChain, d

LEMMA UnlinkedFacts ==
    ASSUME NEW S, NEW c \in Seq(S), NEW p \in 1 .. Len(c)
    PROVE  LET d == Unlinked(c, p)
           IN  /\ d \in Seq(S)
               /\ \A j \in 1 .. Len(d) : \E h \in 1 .. Len(c) : h # p /\ d[j] = c[h]
               /\ \A h \in 1 .. Len(c) : h # p => \E j \in 1 .. Len(d) : d[j] = c[h]
               /\ DistinctChain(c) => DistinctChain(d)
<1> DEFINE d == Unlinked(c, p)
           From(j) == IF j < p THEN j ELSE j + 1
<1>1. Len(c) \in Nat /\ p \in Nat /\ Len(c) - 1 \in Nat
    OBVIOUS
<1>2. d = [j \in 1 .. Len(c) - 1 |-> IF j < p THEN c[j] ELSE c[j + 1]]
    BY DEF Unlinked
<1>3. \A j \in 1 .. Len(c) - 1 :
         /\ j \in Int
         /\ j \in 1 .. Len(c) /\ j + 1 \in 1 .. Len(c) /\ c[j] \in S /\ c[j + 1] \in S
    BY <1>1, ElementOfSeq
<1>4. d \in Seq(S) /\ Len(d) = Len(c) - 1
    BY <1>1, <1>2, <1>3, SeqDef
<1>5. \A j \in 1 .. Len(d) : j \in Int /\ d[j] = c[From(j)]
    BY <1>2, <1>3, <1>4
<1> HIDE DEF d
<1>6. \A j \in 1 .. Len(d) : From(j) \in 1 .. Len(c) /\ From(j) # p
    BY <1>1, <1>4
<1>7. ASSUME NEW h \in 1 .. Len(c), h # p PROVE \E j \in 1 .. Len(d) : d[j] = c[h]
    <2> DEFINE j == IF h < p THEN h ELSE h - 1
    <2>1. j \in 1 .. Len(d) /\ From(j) = h
        BY <1>1, <1>4, <1>7
    <2>2. QED
        BY <1>5, <2>1
<1>8. ASSUME DistinctChain(c), NEW j \in 1 .. Len(d), NEW l \in 1 .. Len(d), d[j] = d[l]
      PROVE  j = l
    <2>1. From(j) = From(l)
        BY <1>5, <1>6, <1>8 DEF DistinctChain
    <2>2. j \in Int /\ l \in Int
        BY <1>5
    <2>3. QED
        BY <1>1, <2>1, <2>2
<1>9. \A j \in 1 .. Len(d) : \E h \in 1 .. Len(c) : h # p /\ d[j] = c[h]
    BY <1>5, <1>6
<1>10. QED
    BY <1>4, <1>7, <1>8, <1>9 DEF DistinctChain, d
------------------------------------------------------------------------------
(* One table.                                                              *)

Tables(n) == [slots : [0 .. n - 1 -> Seq(Keys)], size : Nat]

ChainsPlaced(t) ==
    \A i \in DOMAIN t.slots : \A j \in 1 .. Len(t.slots[i]) : SlotOf(t, t.slots[i][j]) = i

ChainsDistinct(t) == \A i \in DOMAIN t.slots : DistinctChain(t.slots[i])

SizeCounts(t) == IsFiniteSet(InTable(t)) /\ t.size = Cardinality(InTable(t))

Sound(t) ==
    /\ \E n \in Nat \ {0} : t \in Tables(n)
    /\ ChainsPlaced(t) /\ ChainsDistinct(t) /\ SizeCounts(t)

LEMMA TableFacts ==
    ASSUME NEW n \in Nat \ {0}, NEW t \in Tables(n)
    PROVE  /\ DOMAIN t.slots = 0 .. n - 1 /\ Slots(t) = n /\ Allocated(t)
           /\ \A k \in Keys : SlotOf(t, k) = Code[k] % n /\ SlotOf(t, k) \in 0 .. n - 1
           /\ \A i \in 0 .. n - 1 : t.slots[i] \in Seq(Keys) /\ Len(t.slots[i]) \in Nat
<1>1. DOMAIN t.slots = 0 .. n - 1
    BY DEF Tables
<1>2. Cardinality(0 .. n - 1) = n
    BY FS_Interval
<1>3. Slots(t) = n /\ Allocated(t)
    BY <1>1, <1>2 DEF Slots, Allocated
<1>4. ASSUME NEW k \in Keys PROVE Code[k] % n \in 0 .. n - 1
    BY MapAssumption
<1>5. \A i \in 0 .. n - 1 : t.slots[i] \in Seq(Keys) /\ Len(t.slots[i]) \in Nat
    BY DEF Tables
<1>6. QED
    BY <1>1, <1>3, <1>4, <1>5 DEF SlotOf

LEMMA EmptyTableFacts ==
    ASSUME NEW n \in Nat \ {0}
    PROVE  /\ Sound(EmptyTable(n)) /\ EmptyTable(n) \in Tables(n)
           /\ InTable(EmptyTable(n)) = {} /\ EmptyTable(n).size = 0
<1> DEFINE t == EmptyTable(n)
<1>1. <<>> \in Seq(Keys) /\ Len(<<>>) = 0
    BY EmptySeq
<1>2. t \in Tables(n) /\ t.size = 0 /\ \A i \in DOMAIN t.slots : t.slots[i] = <<>>
    BY <1>1 DEF EmptyTable, Tables
<1> HIDE DEF t
<1>3. InTable(t) = {}
    BY <1>1, <1>2 DEF InTable
<1>4. SizeCounts(t)
    BY <1>2, <1>3, FS_EmptySet DEF SizeCounts
<1>5. ChainsPlaced(t) /\ ChainsDistinct(t)
    BY <1>1, <1>2 DEF ChainsPlaced, ChainsDistinct, DistinctChain
<1>6. Sound(t)
    BY <1>2, <1>4, <1>5 DEF Sound
<1>7. QED
    BY <1>2, <1>3, <1>6 DEF t

LEMMA NullTableFacts ==
    /\ ~Allocated(NullTable) /\ InTable(NullTable) = {} /\ NullTable.size = 0
    /\ \A k : ~Finds(NullTable, k)
<1>1. NullTable.slots = <<>> /\ NullTable.size = 0
    BY DEF NullTable
<1>2. DOMAIN NullTable.slots = {}
    BY <1>1
<1>3. QED
    BY <1>1, <1>2 DEF Allocated, InTable, Finds

\* A table with one chain replaced.
Replaced(t, s, chain, z) == [slots |-> [t.slots EXCEPT ![s] = chain], size |-> z]

Differs(n, t, u, s, chain, z) ==
    /\ u \in Tables(n) /\ u.size = z
    /\ DOMAIN t.slots = 0 .. n - 1 /\ DOMAIN u.slots = 0 .. n - 1
    /\ u.slots[s] = chain
    /\ \A i \in 0 .. n - 1 : i # s => u.slots[i] = t.slots[i]
    /\ \A h \in Keys : SlotOf(u, h) = SlotOf(t, h)

LEMMA ReplacedFacts ==
    ASSUME NEW n \in Nat \ {0}, NEW t \in Tables(n), NEW s \in 0 .. n - 1,
           NEW chain \in Seq(Keys), NEW z \in Nat
    PROVE  Differs(n, t, Replaced(t, s, chain, z), s, chain, z)
<1> DEFINE u == Replaced(t, s, chain, z)
<1>1. u \in Tables(n) /\ u.size = z /\ u.slots = [t.slots EXCEPT ![s] = chain]
    BY DEF Tables, Replaced
<1> HIDE DEF u
<1>2. DOMAIN t.slots = 0 .. n - 1 /\ DOMAIN u.slots = 0 .. n - 1
    BY <1>1, TableFacts
<1>3. u.slots[s] = chain /\ \A i \in 0 .. n - 1 : i # s => u.slots[i] = t.slots[i]
    BY <1>1, <1>2
<1>4. \A h \in Keys : SlotOf(u, h) = SlotOf(t, h)
    BY <1>1, TableFacts
<1>5. Differs(n, t, u, s, chain, z)
    BY <1>1, <1>2, <1>3, <1>4 DEF Differs
<1>6. QED
    BY <1>5 DEF u

\* insert() adds its node, and nothing else changes.
LEMMA InsertedFacts ==
    ASSUME NEW n \in Nat \ {0}, NEW t \in Tables(n), Sound(t),
           NEW k \in Keys, k \notin InTable(t)
    PROVE  /\ Sound(Inserted(t, k)) /\ Inserted(t, k) \in Tables(n)
           /\ InTable(Inserted(t, k)) = InTable(t) \cup {k}
           /\ Inserted(t, k).size = t.size + 1
<1> DEFINE s == SlotOf(t, k)
           u == Inserted(t, k)
           c == t.slots[s]
           d == <<k>> \o c
           z == t.size + 1
<1>1. s \in 0 .. n - 1 /\ c \in Seq(Keys)
    BY TableFacts
<1>2. u = Replaced(t, s, d, z)
    BY DEF Inserted, Replaced
<1>3. SlotOf(t, k) = s
    OBVIOUS
<1> HIDE DEF s, u, c
<1>4. /\ d \in Seq(Keys) /\ 1 \in 1 .. Len(d) /\ d[1] = k
      /\ \A j \in 1 .. Len(c) : j + 1 \in 1 .. Len(d) /\ d[j + 1] = c[j]
      /\ \A j \in 1 .. Len(d) : j # 1 => j - 1 \in 1 .. Len(c) /\ d[j] = c[j - 1]
      /\ DistinctChain(c) /\ (\A j \in 1 .. Len(c) : c[j] # k) => DistinctChain(d)
    BY <1>1, PrependedFacts
<1> HIDE DEF d
<1>5. z \in Nat /\ d \in Seq(Keys) /\ s \in 0 .. n - 1
    BY <1>1, <1>4 DEF Tables
<1>z. z = t.size + 1
    OBVIOUS
<1> HIDE DEF z
<1>6. /\ u \in Tables(n) /\ u.size = z
      /\ DOMAIN t.slots = 0 .. n - 1 /\ DOMAIN u.slots = 0 .. n - 1
      /\ u.slots[s] = d
      /\ \A i \in 0 .. n - 1 : i # s => u.slots[i] = t.slots[i]
      /\ \A h \in Keys : SlotOf(u, h) = SlotOf(t, h)
    <2>1. Differs(n, t, u, s, d, z)
        BY <1>2, <1>5, ReplacedFacts
    <2>2. QED
        BY <2>1 DEF Differs
<1>7. t.slots[s] = c
    BY DEF c
<1>8. InTable(u) = InTable(t) \cup {k}
    <2>1. ASSUME NEW h \in InTable(u) PROVE h \in InTable(t) \cup {k}
        <3>0. h \in Keys /\ \E i \in 0 .. n - 1 : \E j \in 1 .. Len(u.slots[i]) : u.slots[i][j] = h
            BY <1>6 DEF InTable
        <3>1. PICK i \in 0 .. n - 1 : \E j \in 1 .. Len(u.slots[i]) : u.slots[i][j] = h
            BY <3>0
        <3>2. PICK j \in 1 .. Len(u.slots[i]) : u.slots[i][j] = h
            BY <3>1
        <3>3. CASE i = s
            <4>1. j = 1 \/ \E g \in 1 .. Len(c) : c[g] = h
                BY <1>4, <1>6, <3>2, <3>3
            <4>2. j = 1 => h = k
                BY <1>4, <1>6, <3>2, <3>3
            <4>3. QED
                BY <1>1, <1>6, <1>7, <3>0, <4>1, <4>2 DEF InTable
        <3>4. CASE i # s
            BY <1>6, <3>0, <3>2, <3>4 DEF InTable
        <3>5. QED
            BY <3>3, <3>4
    <2>2. ASSUME NEW h \in InTable(t) PROVE h \in InTable(u)
        <3>0. h \in Keys /\ \E i \in 0 .. n - 1 : \E j \in 1 .. Len(t.slots[i]) : t.slots[i][j] = h
            BY <1>6 DEF InTable
        <3>1. PICK i \in 0 .. n - 1 : \E j \in 1 .. Len(t.slots[i]) : t.slots[i][j] = h
            BY <3>0
        <3>2. \E j \in 1 .. Len(u.slots[i]) : u.slots[i][j] = h
            <4>1. CASE i = s
                <5>1. PICK g \in 1 .. Len(c) : c[g] = h
                    BY <1>7, <3>1, <4>1
                <5>2. g + 1 \in 1 .. Len(d) /\ d[g + 1] = h
                    BY <1>4, <5>1
                <5>3. QED
                    BY <1>6, <4>1, <5>2
            <4>2. CASE i # s
                BY <1>6, <3>1, <4>2
            <4>3. QED
                BY <4>1, <4>2
        <3>3. QED
            BY <1>6, <3>0, <3>2 DEF InTable
    <2>3. k \in InTable(u)
        BY <1>1, <1>4, <1>6 DEF InTable
    <2>4. QED
        BY <2>1, <2>2, <2>3
<1>9. SizeCounts(u)
    <2>1. IsFiniteSet(InTable(t)) /\ t.size = Cardinality(InTable(t))
        BY DEF Sound, SizeCounts
    <2>2. /\ IsFiniteSet(InTable(t) \cup {k})
          /\ Cardinality(InTable(t) \cup {k}) = Cardinality(InTable(t)) + 1
        BY <2>1, FS_AddElement
    <2>3. QED
        BY <1>6, <1>z, <1>8, <2>1, <2>2 DEF SizeCounts
<1>10. ChainsPlaced(u)
    <2>1. ASSUME NEW i \in 0 .. n - 1, NEW j \in 1 .. Len(u.slots[i])
          PROVE  SlotOf(u, u.slots[i][j]) = i
        <3>1. \A h \in 1 .. Len(t.slots[i]) :
                 t.slots[i][h] \in Keys /\ SlotOf(t, t.slots[i][h]) = i
            BY <1>6, TableFacts, ElementOfSeq DEF Sound, ChainsPlaced
        <3>2. CASE i = s
            <4>1. j = 1 \/ \E g \in 1 .. Len(c) : c[g] = d[j]
                BY <1>4, <1>6, <3>2
            <4>2. j = 1 => d[j] = k
                BY <1>4
            <4>3. QED
                BY <1>3, <1>6, <1>7, <3>1, <3>2, <4>1, <4>2
        <3>3. CASE i # s
            BY <1>6, <3>1, <3>3
        <3>4. QED
            BY <3>2, <3>3
    <2>2. QED
        BY <1>6, <2>1 DEF ChainsPlaced
<1>11. ChainsDistinct(u)
    <2>1. \A j \in 1 .. Len(c) : c[j] # k
        BY <1>1, <1>6, <1>7 DEF InTable
    <2>2. \A i \in 0 .. n - 1 : DistinctChain(t.slots[i])
        BY <1>6 DEF Sound, ChainsDistinct
    <2>3. \A i \in 0 .. n - 1 : DistinctChain(u.slots[i])
        BY <1>1, <1>4, <1>6, <1>7, <2>1, <2>2
    <2>4. QED
        BY <1>6, <2>3 DEF ChainsDistinct
<1>12. Sound(u)
    BY <1>6, <1>9, <1>10, <1>11 DEF Sound
<1>13. QED
    BY <1>6, <1>z, <1>8, <1>12 DEF u

\* Node k is the p-th of slot s, and every slot but s is the same in u as in t.
NodeAt(t, s, p, k) == s \in DOMAIN t.slots /\ p \in 1 .. Len(t.slots[s]) /\ t.slots[s][p] = k
Elsewhere(t, u, s) == \A i \in DOMAIN t.slots : i # s => u.slots[i] = t.slots[i]

\* detach() takes its node, and nothing else changes.
LEMMA DetachedFacts ==
    ASSUME NEW n \in Nat \ {0}, NEW t \in Tables(n), Sound(t),
           NEW a, NEW b, NEW k, NodeAt(t, a, b, k)
    PROVE  /\ Sound(Detached(t, a, b)) /\ Detached(t, a, b) \in Tables(n)
           /\ InTable(Detached(t, a, b)) = InTable(t) \ {k} /\ k \in InTable(t)
           /\ Detached(t, a, b).size = t.size - 1
           /\ Elsewhere(t, Detached(t, a, b), a)
<1>s. PICK s \in 0 .. n - 1 : s = a /\ NodeAt(t, s, b, k)
    BY TableFacts DEF NodeAt
<1>p. PICK p \in 1 .. Len(t.slots[s]) : p = b /\ t.slots[s][p] = k
    BY <1>s DEF NodeAt
<1> DEFINE u == Detached(t, s, p)
           c == t.slots[s]
           d == Unlinked(c, p)
           z == t.size - 1
<1>1. /\ c \in Seq(Keys) /\ DOMAIN t.slots = 0 .. n - 1 /\ t.slots[s] = c
      /\ s \in 0 .. n - 1 /\ p \in 1 .. Len(c) /\ c[p] = k
    BY <1>p, TableFacts
<1>2. u = Replaced(t, s, d, z)
    BY DEF Detached, Replaced
<1>3. k \in Keys /\ k \in InTable(t)
    <2>1. k \in Keys
        BY <1>1, ElementOfSeq
    <2>2. QED
        BY <1>1, <2>1 DEF InTable
<1> HIDE DEF u, c
<1>4. /\ d \in Seq(Keys)
      /\ \A j \in 1 .. Len(d) : \E h \in 1 .. Len(c) : h # p /\ d[j] = c[h]
      /\ \A h \in 1 .. Len(c) : h # p => \E j \in 1 .. Len(d) : d[j] = c[h]
      /\ DistinctChain(c) => DistinctChain(d)
    BY <1>1, UnlinkedFacts
<1>5. c[p] = k
    BY <1>1
<1> HIDE DEF d
<1>6. z \in Nat
    <2>1. IsFiniteSet(InTable(t)) /\ t.size = Cardinality(InTable(t))
        BY DEF Sound, SizeCounts
    <2>2. t.size # 0 /\ t.size \in Nat
        BY <1>3, <2>1, FS_EmptySet, FS_CardinalityType
    <2>3. QED
        BY <2>2
<1>z. z = t.size - 1
    OBVIOUS
<1> HIDE DEF z
<1>7. /\ u \in Tables(n) /\ u.size = z
      /\ DOMAIN u.slots = 0 .. n - 1
      /\ u.slots[s] = d
      /\ \A i \in 0 .. n - 1 : i # s => u.slots[i] = t.slots[i]
      /\ \A h \in Keys : SlotOf(u, h) = SlotOf(t, h)
    <2>1. Differs(n, t, u, s, d, z)
        BY <1>2, <1>4, <1>6, ReplacedFacts
    <2>2. QED
        BY <2>1 DEF Differs
<1>8. /\ \A i \in 0 .. n - 1 : \A j \in 1 .. Len(t.slots[i]) :
            t.slots[i][j] \in Keys /\ SlotOf(t, t.slots[i][j]) = i
      /\ \A i \in 0 .. n - 1 : DistinctChain(t.slots[i])
    BY <1>1, TableFacts, ElementOfSeq DEF Sound, ChainsPlaced, ChainsDistinct
<1>9. InTable(u) = InTable(t) \ {k}
    <2>1. ASSUME NEW h \in InTable(u) PROVE h \in InTable(t) \ {k}
        <3>0. h \in Keys /\ \E i \in 0 .. n - 1 : \E j \in 1 .. Len(u.slots[i]) : u.slots[i][j] = h
            BY <1>7 DEF InTable
        <3>1. PICK i \in 0 .. n - 1 : \E j \in 1 .. Len(u.slots[i]) : u.slots[i][j] = h
            BY <3>0
        <3>2. CASE i = s
            <4>0. PICK j \in 1 .. Len(d) : d[j] = h
                BY <1>7, <3>1, <3>2
            <4>1. PICK g \in 1 .. Len(c) : g # p /\ c[g] = h
                BY <1>4, <4>0
            <4>2. h # k
                BY <1>1, <1>5, <1>8, <4>1 DEF DistinctChain
            <4>3. QED
                BY <1>1, <3>0, <4>1, <4>2 DEF InTable
        <3>3. CASE i # s
            <4>1. PICK j \in 1 .. Len(t.slots[i]) : t.slots[i][j] = h
                BY <1>7, <3>1, <3>3
            <4>2. SlotOf(t, h) = i /\ SlotOf(t, k) = s
                BY <1>1, <1>5, <1>8, <4>1
            <4>3. QED
                BY <1>1, <3>0, <3>3, <4>1, <4>2 DEF InTable
        <3>4. QED
            BY <3>2, <3>3
    <2>2. ASSUME NEW h \in InTable(t), h # k PROVE h \in InTable(u)
        <3>0. h \in Keys /\ \E i \in 0 .. n - 1 : \E j \in 1 .. Len(t.slots[i]) : t.slots[i][j] = h
            BY <1>1 DEF InTable
        <3>1. PICK i \in 0 .. n - 1 : \E j \in 1 .. Len(t.slots[i]) : t.slots[i][j] = h
            BY <3>0
        <3>2. \E j \in 1 .. Len(u.slots[i]) : u.slots[i][j] = h
            <4>1. CASE i = s
                <5>1. PICK g \in 1 .. Len(c) : g # p /\ c[g] = h
                    BY <1>1, <1>5, <2>2, <3>1, <4>1
                <5>2. QED
                    BY <1>4, <1>7, <4>1, <5>1
            <4>2. CASE i # s
                BY <1>7, <3>1, <4>2
            <4>3. QED
                BY <4>1, <4>2
        <3>3. QED
            BY <1>7, <3>0, <3>2 DEF InTable
    <2>3. QED
        BY <2>1, <2>2
<1>10. SizeCounts(u)
    <2>1. IsFiniteSet(InTable(t)) /\ t.size = Cardinality(InTable(t))
        BY DEF Sound, SizeCounts
    <2>2. /\ IsFiniteSet(InTable(t) \ {k})
          /\ Cardinality(InTable(t) \ {k}) = Cardinality(InTable(t)) - 1
        BY <1>3, <2>1, FS_RemoveElement
    <2>3. QED
        BY <1>z, <1>7, <1>9, <2>1, <2>2 DEF SizeCounts
<1>11. ChainsPlaced(u)
    <2>1. ASSUME NEW i \in 0 .. n - 1, NEW j \in 1 .. Len(u.slots[i])
          PROVE  SlotOf(u, u.slots[i][j]) = i
        <3>1. \E g \in 1 .. Len(t.slots[i]) : t.slots[i][g] = u.slots[i][j]
            <4>1. CASE i = s
                <5>1. j \in 1 .. Len(d) /\ u.slots[i][j] = d[j]
                    BY <1>7, <4>1
                <5>2. PICK g \in 1 .. Len(c) : d[j] = c[g]
                    BY <1>4, <5>1
                <5>3. QED
                    BY <1>1, <4>1, <5>1, <5>2
            <4>2. CASE i # s
                BY <1>7, <4>2
            <4>3. QED
                BY <4>1, <4>2
        <3>2. QED
            BY <1>7, <1>8, <3>1
    <2>2. QED
        BY <1>7, <2>1 DEF ChainsPlaced
<1>12. ChainsDistinct(u)
    BY <1>1, <1>4, <1>7, <1>8 DEF ChainsDistinct
<1>13. Sound(u)
    BY <1>7, <1>10, <1>11, <1>12 DEF Sound
<1>14. QED
    BY <1>s, <1>p, <1>z, <1>1, <1>3, <1>7, <1>9, <1>13 DEF u, Elsewhere

\* lookUp() finds exactly the nodes of the table.
LEMMA FindsFacts ==
    ASSUME NEW n \in Nat \ {0}, NEW t \in Tables(n), Sound(t), NEW k \in Keys
    PROVE  /\ Finds(t, k) <=> k \in InTable(t)
           /\ Finds(t, k) => NodeAt(t, SlotOf(t, k), Place(t, k), k)
<1>1. /\ DOMAIN t.slots = 0 .. n - 1 /\ Allocated(t) /\ SlotOf(t, k) \in 0 .. n - 1
    BY TableFacts
<1>2. ASSUME k \in InTable(t) PROVE Finds(t, k)
    <2>0. PICK i \in 0 .. n - 1 : \E j \in 1 .. Len(t.slots[i]) : t.slots[i][j] = k
        BY <1>1, <1>2 DEF InTable
    <2>1. PICK j \in 1 .. Len(t.slots[i]) : t.slots[i][j] = k
        BY <2>0
    <2>2. SlotOf(t, k) = i
        BY <1>1, <2>1 DEF Sound, ChainsPlaced
    <2>3. QED
        BY <1>1, <2>1, <2>2 DEF Finds
<1>3. ASSUME Finds(t, k) PROVE k \in InTable(t)
    BY <1>1, <1>3 DEF Finds, InTable
<1>4. QED
    BY <1>1, <1>2, <1>3 DEF Finds, Place, NodeAt
------------------------------------------------------------------------------
(* The inductive invariant.                                                *)

Good(t) == t = NullTable \/ Sound(t)

\* An old table exists only beside a new one, and no node is in both.
TwoTables ==
    /\ Good(table1) /\ Good(table2)
    /\ Allocated(table2) => Allocated(table1)
    /\ InTable(table1) \cap InTable(table2) = {}

\* The slots of the old table that the move has passed are empty.
Swept == \A i \in DOMAIN table2.slots : i < resizingPosition => table2.slots[i] = <<>>

CallKnown ==
    /\ pc # "idle" => call.key \in Keys /\ call.op # "none"
    /\ pc = "find" => call.op \in {"lookup", "pop"}

Scalars ==
    /\ resizingPosition \in Nat
    /\ pc \in {"idle", "help", "find"}
    /\ work \in 0 .. ResizingWork
    /\ call \in [op : {"none", "insert", "lookup", "pop"}, key : Keys \cup {NoNode}]
    /\ result \in Keys \cup {NoNode}

HInv == Scalars /\ CallKnown /\ TwoTables /\ Swept

LEMMA GoodFacts ==
    ASSUME NEW t, Good(t)
    PROVE  /\ Allocated(t) <=> t # NullTable
           /\ Allocated(t) => Sound(t)
           /\ ~Allocated(t) => t = NullTable /\ InTable(t) = {} /\ t.size = 0
           /\ t.size \in Nat /\ IsFiniteSet(InTable(t))
           /\ t.size = Cardinality(InTable(t))
<1>1. CASE t = NullTable
    BY <1>1, NullTableFacts, FS_EmptySet
<1>2. CASE Sound(t)
    <2>1. PICK n \in Nat \ {0} : t \in Tables(n)
        BY <1>2 DEF Sound
    <2>2. Allocated(t)
        BY <2>1, TableFacts
    <2>3. t.size \in Nat
        BY <2>1 DEF Tables
    <2>4. IsFiniteSet(InTable(t)) /\ t.size = Cardinality(InTable(t))
        BY <1>2 DEF Sound, SizeCounts
    <2>5. QED
        BY <1>2, <2>2, <2>3, <2>4, NullTableFacts
<1>3. QED
    BY <1>1, <1>2 DEF Good

LEMMA GoodFinds ==
    ASSUME NEW t, Good(t), NEW k \in Keys
    PROVE  Finds(t, k) <=> k \in InTable(t)
<1>1. CASE t = NullTable
    BY <1>1, NullTableFacts
<1>2. CASE Sound(t)
    <2>1. PICK n \in Nat \ {0} : t \in Tables(n)
        BY <1>2 DEF Sound
    <2>2. QED
        BY <1>2, <2>1, FindsFacts
<1>3. QED
    BY <1>1, <1>2 DEF Good

\* What CMapPop leaves of the table it finds its node in.
LEMMA TakenFacts ==
    ASSUME NEW t, Good(t), NEW k \in Keys, Finds(t, k)
    PROVE  /\ Sound(Taken(t, k)) /\ Allocated(Taken(t, k)) /\ Allocated(t)
           /\ InTable(Taken(t, k)) = InTable(t) \ {k}
           /\ Taken(t, k).size = t.size - 1
           /\ DOMAIN Taken(t, k).slots = DOMAIN t.slots
           /\ \A i \in DOMAIN t.slots : t.slots[i] = <<>> => Taken(t, k).slots[i] = <<>>
<1>1. Sound(t)
    BY NullTableFacts DEF Good
<1>2. PICK n \in Nat \ {0} : t \in Tables(n)
    BY <1>1 DEF Sound
<1> DEFINE s == SlotOf(t, k)
           p == Place(t, k)
           u == Detached(t, s, p)
<1>3. NodeAt(t, s, p, k)
    BY <1>1, <1>2, FindsFacts
<1>4. u = Taken(t, k)
    BY DEF Taken
<1> HIDE DEF s, p
<1>5. /\ Sound(u) /\ u \in Tables(n)
      /\ InTable(u) = InTable(t) \ {k}
      /\ u.size = t.size - 1
      /\ Elsewhere(t, u, s)
    BY <1>1, <1>2, <1>3, DetachedFacts
<1> HIDE DEF u
<1>6. /\ DOMAIN t.slots = 0 .. n - 1 /\ DOMAIN u.slots = 0 .. n - 1
      /\ Allocated(t) /\ Allocated(u)
    BY <1>2, <1>5, TableFacts
<1>7. s \in DOMAIN t.slots /\ t.slots[s] # <<>>
    BY <1>3 DEF NodeAt
<1>8. \A i \in DOMAIN t.slots : t.slots[i] = <<>> => u.slots[i] = <<>>
    BY <1>5, <1>7 DEF Elsewhere
<1>9. QED
    BY <1>4, <1>5, <1>6, <1>8

\* While the old table counts a node, the move stands at a slot of it.
LEMMA InBounds ==
    ASSUME HInv, table2.size > 0
    PROVE  /\ ScanInBounds /\ Sound(table2) /\ Sound(table1)
           /\ \E n \in Nat \ {0} : table2 \in Tables(n) /\ resizingPosition \in 0 .. n - 1
<1>1. /\ Good(table1) /\ Good(table2) /\ resizingPosition \in Nat
      /\ Allocated(table2) => Allocated(table1)
    BY DEF HInv, TwoTables, Scalars
<1>2. Sound(table2) /\ Sound(table1) /\ InTable(table2) # {}
    BY <1>1, GoodFacts, FS_EmptySet
<1>3. PICK n \in Nat \ {0} : table2 \in Tables(n)
    BY <1>2 DEF Sound
<1>4. DOMAIN table2.slots = 0 .. n - 1
    BY <1>3, TableFacts
<1>5. PICK i \in 0 .. n - 1 : \E j \in 1 .. Len(table2.slots[i]) : TRUE
    BY <1>2, <1>4 DEF InTable
<1>6. table2.slots[i] # <<>>
    BY <1>5
<1>7. i >= resizingPosition
    BY <1>1, <1>4, <1>6 DEF HInv, Swept
<1>8. resizingPosition \in 0 .. n - 1
    BY <1>1, <1>7
<1>9. ScanInBounds
    BY <1>4, <1>6, <1>7 DEF ScanInBounds
<1>10. QED
    BY <1>2, <1>3, <1>8, <1>9
------------------------------------------------------------------------------
(* The steps.                                                              *)

LEMMA InitHInv == Init => HInv
<1> SUFFICES ASSUME Init PROVE HInv
    OBVIOUS
<1>1. table1 = NullTable /\ table2 = NullTable
    BY DEF Init
<1>2. TwoTables
    BY <1>1, NullTableFacts DEF TwoTables, Good
<1>3. DOMAIN table2.slots = {}
    BY <1>1, NullTableFacts DEF Allocated
<1>4. Swept
    BY <1>3 DEF Swept
<1>5. Scalars /\ CallKnown
    BY MapAssumption DEF Init, Scalars, CallKnown
<1>6. QED
    BY <1>2, <1>4, <1>5 DEF HInv

LEMMA InsertStep ==
    ASSUME HInv, NEW k \in Keys, Insert(k)
    PROVE  HInv' /\ Stored' = Stored \cup {k}
<1> DEFINE first == IF Allocated(table1) THEN table1 ELSE EmptyTable(InitialSlots)
           full == Inserted(first, k)
<1>1. /\ Good(table1) /\ Good(table2) /\ InTable(table1) \cap InTable(table2) = {}
      /\ Allocated(table2) => Allocated(table1)
      /\ k \notin InTable(table1) /\ k \notin InTable(table2)
    BY DEF HInv, TwoTables, Insert, Stored
<1>2. Sound(first) /\ InTable(first) = InTable(table1)
    BY <1>1, GoodFacts, EmptyTableFacts, MapAssumption
<1>3. PICK n \in Nat \ {0} : first \in Tables(n)
    BY <1>2 DEF Sound
<1> HIDE DEF first
<1>4. /\ Sound(full) /\ full \in Tables(n)
      /\ InTable(full) = InTable(table1) \cup {k}
    BY <1>1, <1>2, <1>3, InsertedFacts
<1>5. IF MustResize(full)
      THEN /\ table2' = full /\ table1' = EmptyTable(Slots(full) * 2)
           /\ resizingPosition' = 0
      ELSE /\ table1' = full
           /\ UNCHANGED <<table2, resizingPosition>>
    BY DEF Insert, first, FirstPosition
<1> HIDE DEF full
<1>6. Scalars' /\ CallKnown'
    BY <1>5, MapAssumption DEF HInv, Insert, Scalars, CallKnown
<1>7. Slots(full) = n /\ Allocated(full) /\ DOMAIN full.slots = 0 .. n - 1
    BY <1>4, TableFacts
<1>8. CASE MustResize(full)
    <2>1. Slots(full) * 2 \in Nat \ {0}
        BY <1>7
    <2>2. Sound(table1') /\ InTable(table1') = {}
        BY <1>5, <1>8, <2>1, EmptyTableFacts
    <2>3. PICK m \in Nat \ {0} : table1' \in Tables(m)
        BY <2>2 DEF Sound
    <2>4. Allocated(table1')
        BY <2>3, TableFacts
    <2>5. InTable(table2) = {}
        BY <1>1, <1>8, GoodFacts DEF MustResize
    <2>6. TwoTables'
        BY <1>4, <1>5, <1>8, <2>2, <2>4 DEF TwoTables, Good
    <2>7. Swept'
        BY <1>5, <1>7, <1>8 DEF Swept
    <2>8. Stored' = Stored \cup {k}
        BY <1>4, <1>5, <1>8, <2>2, <2>5 DEF Stored
    <2>9. QED
        BY <1>6, <2>6, <2>7, <2>8 DEF HInv
<1>9. CASE ~MustResize(full)
    <2>1. TwoTables'
        BY <1>1, <1>4, <1>5, <1>7, <1>9 DEF TwoTables, Good
    <2>2. Swept'
        BY <1>5, <1>9 DEF HInv, Swept
    <2>3. Stored' = Stored \cup {k}
        BY <1>4, <1>5, <1>9 DEF Stored
    <2>4. QED
        BY <1>6, <2>1, <2>2, <2>3 DEF HInv
<1>10. QED
    BY <1>8, <1>9

LEMMA BeginStep ==
    ASSUME HInv, NEW k \in Keys, NEW op \in {"lookup", "pop"}, Begin(op, k)
    PROVE  HInv' /\ Stored' = Stored
<1>1. UNCHANGED <<table1, table2, resizingPosition, result>>
    BY DEF Begin
<1>2. Scalars' /\ CallKnown'
    BY MapAssumption DEF HInv, Begin, Scalars, CallKnown
<1>3. TwoTables' /\ Swept' /\ Stored' = Stored
    BY <1>1 DEF HInv, TwoTables, Swept, Stored
<1>4. QED
    BY <1>2, <1>3 DEF HInv

LEMMA SkipStep ==
    ASSUME HInv, HelpSkip
    PROVE  HInv' /\ Stored' = Stored
<1>1. /\ UNCHANGED <<table1, table2, pc, call, result>>
      /\ resizingPosition' = resizingPosition + 1 /\ work' = work
      /\ table2.slots[resizingPosition] = <<>>
    BY DEF HelpSkip, NextPosition, WorkOfSkip
<1>2. Scalars' /\ CallKnown'
    BY <1>1 DEF HInv, Scalars, CallKnown
<1>3. TwoTables' /\ Stored' = Stored
    BY <1>1 DEF HInv, TwoTables, Stored
<1>4. Swept'
    <2>1. PICK n \in Nat \ {0} : table2 \in Tables(n)
        BY InBounds DEF HelpSkip, Helping
    <2>2. DOMAIN table2.slots = 0 .. n - 1
        BY <2>1, TableFacts
    <2>3. resizingPosition \in Nat
        BY DEF HInv, Scalars
    <2>4. ASSUME NEW i \in 0 .. n - 1, i < resizingPosition + 1
          PROVE  table2.slots[i] = <<>>
        <3>1. i < resizingPosition \/ i = resizingPosition
            BY <2>3, <2>4
        <3>2. QED
            BY <1>1, <2>2, <3>1 DEF HInv, Swept
    <2>5. QED
        BY <1>1, <2>2, <2>4 DEF Swept
<1>5. QED
    BY <1>2, <1>3, <1>4 DEF HInv

LEMMA MoveStep ==
    ASSUME HInv, HelpMove
    PROVE  HInv' /\ Stored' = Stored
<1> DEFINE r == resizingPosition
           k == Head(table2.slots[r])
<1>1. /\ table1' = Inserted(table1, k) /\ table2' = Detached(table2, r, 1)
      /\ UNCHANGED <<resizingPosition, pc, call, result>>
      /\ table2.slots[r] # <<>>
    BY DEF HelpMove
<1>2. Sound(table1) /\ Sound(table2)
    BY InBounds DEF HelpMove, Helping
<1>3. PICK n \in Nat \ {0} : table2 \in Tables(n) /\ resizingPosition \in 0 .. n - 1
    BY InBounds DEF HelpMove, Helping
<1>4. PICK m \in Nat \ {0} : table1 \in Tables(m)
    BY <1>2 DEF Sound
<1>5. DOMAIN table2.slots = 0 .. n - 1 /\ table2.slots[r] \in Seq(Keys)
    BY <1>3, TableFacts
<1>6. NodeAt(table2, r, 1, k)
    BY <1>1, <1>3, <1>5 DEF NodeAt
<1> HIDE DEF k
<1>7. /\ Sound(table2') /\ table2' \in Tables(n)
      /\ InTable(table2') = InTable(table2) \ {k} /\ k \in InTable(table2)
      /\ Elsewhere(table2, table2', r)
    BY <1>1, <1>2, <1>3, <1>6, DetachedFacts
<1>8. k \in Keys /\ k \notin InTable(table1)
    BY <1>7 DEF HInv, TwoTables, InTable
<1>9. /\ Sound(table1') /\ table1' \in Tables(m)
      /\ InTable(table1') = InTable(table1) \cup {k}
    BY <1>1, <1>2, <1>4, <1>8, InsertedFacts
<1>10. Allocated(table1')
    BY <1>9, TableFacts
<1>11. TwoTables'
    BY <1>7, <1>9, <1>10 DEF HInv, TwoTables, Good
<1>12. Swept'
    <2>1. DOMAIN table2'.slots = 0 .. n - 1
        BY <1>7, TableFacts
    <2>2. ASSUME NEW i \in 0 .. n - 1, i < r PROVE table2'.slots[i] = <<>>
        <3>1. i # r
            BY <1>3, <2>2
        <3>2. table2'.slots[i] = table2.slots[i]
            BY <1>5, <1>7, <3>1 DEF Elsewhere
        <3>3. QED
            BY <1>5, <2>2, <3>2 DEF HInv, Swept
    <2>3. QED
        BY <1>1, <2>1, <2>2 DEF Swept
<1>13. Scalars' /\ CallKnown'
    BY <1>1, MapAssumption DEF HInv, HelpMove, Helping, MoreWork, Scalars, CallKnown
<1>14. Stored' = Stored
    BY <1>7, <1>9 DEF Stored
<1>15. QED
    BY <1>11, <1>12, <1>13, <1>14 DEF HInv

LEMMA DoneStep ==
    ASSUME HInv, HelpDone
    PROVE  HInv' /\ Stored' = Stored
<1>1. /\ UNCHANGED <<table1, resizingPosition, work, call, result>>
      /\ table2' = IF table2.size = 0 THEN NullTable ELSE table2
    BY DEF HelpDone
<1>2. Scalars' /\ CallKnown'
    BY <1>1 DEF HInv, HelpDone, Scalars, CallKnown
<1>3. InTable(table2') = InTable(table2)
    BY <1>1, GoodFacts, NullTableFacts, FS_EmptySet DEF HInv, TwoTables
<1>4. TwoTables' /\ Stored' = Stored
    BY <1>1, <1>3, NullTableFacts DEF HInv, TwoTables, Stored, Good
<1>5. Swept'
    BY <1>1, NullTableFacts DEF HInv, Swept, Allocated
<1>6. QED
    BY <1>2, <1>4, <1>5 DEF HInv

LEMMA LookUpStep ==
    ASSUME HInv, LookUp
    PROVE  /\ HInv' /\ Stored' = Stored
           /\ result' = IF call.key \in Stored THEN call.key ELSE NoNode
<1>1. /\ UNCHANGED <<table1, table2, resizingPosition, work, call>>
      /\ result' = IF Finds(table1, call.key) \/ Finds(table2, call.key)
                   THEN call.key ELSE NoNode
    BY DEF LookUp
<1>2. call.key \in Keys
    BY DEF HInv, CallKnown, LookUp
<1>3. Scalars' /\ CallKnown'
    BY <1>1, <1>2 DEF HInv, LookUp, Scalars, CallKnown
<1>4. TwoTables' /\ Swept' /\ Stored' = Stored
    BY <1>1 DEF HInv, TwoTables, Swept, Stored
<1>5. (Finds(table1, call.key) \/ Finds(table2, call.key)) <=> call.key \in Stored
    BY <1>2, GoodFinds DEF HInv, TwoTables, Stored
<1>6. QED
    BY <1>1, <1>3, <1>4, <1>5 DEF HInv

LEMMA PopStep ==
    ASSUME HInv, Pop
    PROVE  /\ HInv' /\ Stored' = Stored \ {call.key}
           /\ result' = IF call.key \in Stored THEN call.key ELSE NoNode
<1> DEFINE k == call.key
<1>1. k \in Keys /\ Good(table1) /\ Good(table2)
    BY DEF HInv, CallKnown, TwoTables, Pop
<1>2. /\ Finds(table1, k) <=> k \in InTable(table1)
      /\ Finds(table2, k) <=> k \in InTable(table2)
    BY <1>1, GoodFinds
<1>3. /\ UNCHANGED <<resizingPosition, work, call>> /\ pc' = "idle"
      /\ result' = IF PopTables(k) = {} THEN NoNode ELSE k
      /\ table1' = IF 1 \in PopTables(k) THEN Taken(table1, k) ELSE table1
      /\ table2' = IF 2 \in PopTables(k) THEN Taken(table2, k) ELSE table2
    BY DEF Pop
<1>4. Scalars' /\ CallKnown'
    BY <1>1, <1>3 DEF HInv, Scalars, CallKnown
<1>5. result' = IF k \in Stored THEN k ELSE NoNode
    BY <1>2, <1>3 DEF PopTables, Stored
<1> HIDE DEF k
<1>6. CASE Finds(table1, k)
    <2>1. table1' = Taken(table1, k) /\ table2' = table2
        BY <1>3, <1>6 DEF PopTables
    <2>2. /\ Sound(table1') /\ Allocated(table1')
          /\ InTable(table1') = InTable(table1) \ {k}
        BY <1>1, <1>6, <2>1, TakenFacts
    <2>3. TwoTables' /\ Swept'
        BY <1>3, <2>1, <2>2 DEF HInv, TwoTables, Swept, Good
    <2>4. k \notin InTable(table2)
        BY <1>2, <1>6 DEF HInv, TwoTables
    <2>5. Stored' = Stored \ {k}
        BY <2>1, <2>2, <2>4 DEF Stored
    <2>6. QED
        BY <1>4, <1>5, <2>3, <2>5 DEF HInv, k
<1>7. CASE ~Finds(table1, k) /\ Finds(table2, k)
    <2>1. table1' = table1 /\ table2' = Taken(table2, k)
        BY <1>3, <1>7 DEF PopTables
    <2>2. /\ Sound(table2') /\ Allocated(table2)
          /\ InTable(table2') = InTable(table2) \ {k}
          /\ DOMAIN table2'.slots = DOMAIN table2.slots
          /\ \A i \in DOMAIN table2.slots :
                table2.slots[i] = <<>> => table2'.slots[i] = <<>>
        BY <1>1, <1>7, <2>1, TakenFacts
    <2>3. TwoTables'
        BY <1>3, <2>1, <2>2 DEF HInv, TwoTables, Good
    <2>4. Swept'
        BY <1>3, <2>2 DEF HInv, Swept
    <2>5. Stored' = Stored \ {k}
        BY <1>2, <1>7, <2>1, <2>2 DEF Stored
    <2>6. QED
        BY <1>4, <1>5, <2>3, <2>4, <2>5 DEF HInv, k
<1>8. CASE ~Finds(table1, k) /\ ~Finds(table2, k)
    <2>1. table1' = table1 /\ table2' = table2
        BY <1>3, <1>8 DEF PopTables
    <2>2. TwoTables' /\ Swept'
        BY <1>3, <2>1 DEF HInv, TwoTables, Swept
    <2>3. Stored' = Stored \ {k}
        BY <1>2, <1>8, <2>1 DEF Stored
    <2>4. QED
        BY <1>4, <1>5, <2>2, <2>3 DEF HInv, k
<1>9. QED
    BY <1>6, <1>7, <1>8

LEMMA DestroyStep ==
    ASSUME HInv, Destroy
    PROVE  HInv' /\ Stored' = {}
<1>1. /\ table1' = NullTable /\ table2' = NullTable /\ resizingPosition' = 0
      /\ UNCHANGED <<pc, work, call, result>>
    BY DEF Destroy
<1>2. Scalars' /\ CallKnown'
    BY <1>1 DEF HInv, Scalars, CallKnown
<1>3. TwoTables' /\ Stored' = {}
    BY <1>1, NullTableFacts DEF TwoTables, Good, Stored
<1>4. DOMAIN table2'.slots = {}
    BY <1>1, NullTableFacts DEF Allocated
<1>5. Swept'
    BY <1>4 DEF Swept
<1>6. QED
    BY <1>2, <1>3, <1>5 DEF HInv

LEMMA StillStep ==
    ASSUME HInv, UNCHANGED vars
    PROVE  HInv' /\ Stored' = Stored
<1>1. /\ table1' = table1 /\ table2' = table2 /\ resizingPosition' = resizingPosition
      /\ pc' = pc /\ work' = work /\ call' = call /\ result' = result
    BY DEF vars
<1>2. Scalars' /\ CallKnown'
    BY <1>1 DEF HInv, Scalars, CallKnown
<1>3. TwoTables' /\ Swept' /\ Stored' = Stored
    BY <1>1 DEF HInv, TwoTables, Swept, Stored
<1>4. QED
    BY <1>2, <1>3 DEF HInv

LEMMA NextHInv == HInv /\ [Next]_vars => HInv'
<1> SUFFICES ASSUME HInv, [Next]_vars PROVE HInv'
    OBVIOUS
<1>1. ASSUME NEW k \in Keys, Insert(k) PROVE HInv'
    BY <1>1, InsertStep
<1>2. ASSUME NEW k \in Keys, Begin("lookup", k) \/ Begin("pop", k) PROVE HInv'
    BY <1>2, BeginStep
<1>3. CASE HelpResizing
    BY <1>3, SkipStep, MoveStep, DoneStep DEF HelpResizing
<1>4. CASE LookUp
    BY <1>4, LookUpStep
<1>5. CASE Pop
    BY <1>5, PopStep
<1>6. CASE Destroy
    BY <1>6, DestroyStep
<1>7. CASE UNCHANGED vars
    BY <1>7, StillStep
<1>8. QED
    BY <1>1, <1>2, <1>3, <1>4, <1>5, <1>6, <1>7 DEF Next

\* Every call, and every step of a move under way, keeps the inductive
\* invariant.
THEOREM Invariance == Spec => []HInv
<1>1. QED
    BY InitHInv, NextHInv, PTL DEF Spec

\* Every variable keeps its type, and a call never moves more nodes than
\* RESIZING_WORK.
THEOREM TypeCorrect == Spec => []TypeOK
<1>1. ASSUME HInv PROVE TypeOK
    <2>1. ASSUME NEW t \in {table1, table2}
          PROVE  t.size \in Nat /\ \A i \in DOMAIN t.slots : t.slots[i] \in Seq(Keys)
        <3>1. Good(t)
            BY <1>1 DEF HInv, TwoTables
        <3>2. t.size \in Nat
            BY <3>1, GoodFacts
        <3>3. CASE t = NullTable
            BY <3>2, <3>3, NullTableFacts DEF Allocated
        <3>4. CASE Sound(t)
            BY <3>2, <3>4, TableFacts DEF Sound
        <3>5. QED
            BY <3>1, <3>3, <3>4 DEF Good
    <2>2. QED
        BY <1>1, <2>1 DEF HInv, Scalars, TypeOK
<1>2. QED
    BY <1>1, Invariance, PTL

\* Every node is in the chain its code selects, in whichever of the two tables
\* it is: the two chains that a lookup visits are enough.
THEOREM AlwaysPlaced == Spec => []Placed
<1>1. ASSUME HInv PROVE Placed
    <2>1. ASSUME NEW t \in {table1, table2} PROVE ChainsPlaced(t)
        <3>1. Good(t)
            BY <1>1 DEF HInv, TwoTables
        <3>2. CASE t = NullTable
            BY <3>2, NullTableFacts DEF Allocated, ChainsPlaced
        <3>3. CASE Sound(t)
            BY <3>3 DEF Sound
        <3>4. QED
            BY <3>1, <3>2, <3>3 DEF Good
    <2>2. QED
        BY <2>1 DEF Placed, ChainsPlaced
<1>2. QED
    BY <1>1, Invariance, PTL

\* helpResizing never reads behind the old table, however the lookups, inserts
\* and removals of its callers are mixed with the move.
THEOREM AlwaysInBounds == Spec => []ScanInBounds
<1>1. HInv => ScanInBounds
    <2>1. HInv => table2.size \in Nat
        BY GoodFacts DEF HInv, TwoTables
    <2>2. QED
        BY <2>1, InBounds DEF ScanInBounds
<1>2. QED
    BY <1>1, Invariance, PTL

\* The size fields, which end the move and free the old table, count the nodes.
THEOREM AlwaysCounted == Spec => []Counted
<1>1. HInv => Counted
    BY GoodFacts DEF HInv, TwoTables, Counted
<1>2. QED
    BY <1>1, Invariance, PTL
------------------------------------------------------------------------------
(* The dictionary.                                                         *)

LEMMA InitDictionary == Init => Abstract!Init
BY NullTableFacts DEF Init, Abstract!Init, Stored

LEMMA StepDictionary == HInv /\ [Next]_vars => [Abstract!Next]_(Abstract!vars)
<1> SUFFICES ASSUME HInv, [Next]_vars PROVE [Abstract!Next]_(Abstract!vars)
    OBVIOUS
<1> USE DEF Abstract!vars
<1>1. ASSUME NEW k \in Keys, Insert(k) PROVE Abstract!Next
    <2>1. k \notin Stored /\ UNCHANGED result
        BY <1>1 DEF Insert
    <2>2. QED
        BY <1>1, <2>1, InsertStep DEF Abstract!Next, Abstract!Insert
<1>2. ASSUME NEW k \in Keys, Begin("lookup", k) \/ Begin("pop", k)
      PROVE  UNCHANGED Abstract!vars
    BY <1>2, BeginStep DEF Begin
<1>3. CASE HelpResizing
    <2>1. UNCHANGED result
        BY <1>3 DEF HelpResizing, HelpSkip, HelpMove, HelpDone
    <2>2. Stored' = Stored
        BY <1>3, SkipStep, MoveStep, DoneStep DEF HelpResizing
    <2>3. QED
        BY <2>1, <2>2
<1>4. CASE LookUp
    <2>1. call.key \in Keys
        BY <1>4 DEF LookUp, HInv, CallKnown
    <2>2. Abstract!LookUp(call.key)
        BY <1>4, LookUpStep DEF Abstract!LookUp
    <2>3. QED
        BY <2>1, <2>2 DEF Abstract!Next
<1>5. CASE Pop
    <2>1. call.key \in Keys
        BY <1>5 DEF Pop, HInv, CallKnown
    <2>2. Abstract!Pop(call.key)
        BY <1>5, PopStep DEF Abstract!Pop
    <2>3. QED
        BY <2>1, <2>2 DEF Abstract!Next
<1>6. CASE Destroy
    <2>1. UNCHANGED result
        BY <1>6 DEF Destroy
    <2>2. QED
        BY <1>6, <2>1, DestroyStep DEF Abstract!Next, Abstract!Destroy
<1>7. CASE UNCHANGED vars
    BY <1>7, StillStep DEF vars
<1>8. QED
    BY <1>1, <1>2, <1>3, <1>4, <1>5, <1>6, <1>7 DEF Next

\* The hash map is a dictionary: a lookup or a removal finds its node exactly
\* when it is stored, and moving nodes between the tables changes nothing a
\* caller can see.
THEOREM MapIsDictionary == Spec => ImplementsDictionary
<1>1. QED
    BY InitDictionary, StepDictionary, Invariance, PTL
       DEF Spec, ImplementsDictionary, Abstract!Spec
------------------------------------------------------------------------------
(* The move ends in time.                                                  *)

\* With the old table allocated: m nodes in the new table and o in the old one,
\* which had N when the move began.  A call inserts one node and moves up to
\* ResizingWork, so the old table pays for the new one; d is the work the call
\* under way has paid for, e what a call that finds the old table empty has.
Paid(m, o, N, d, e) ==
    /\ ResizingWork * m + d <= (ResizingWork + 1) * (N - o)
    /\ o = 0 => ResizingWork * m + 1 + e <= (ResizingWork + 1) * N

LEMMA Products ==
    /\ \A a, b, c \in Int : a * (b + c) = a * b + a * c /\ a * (b - c) = a * b - a * c
    /\ \A a, b \in Nat : a * b \in Nat
    /\ \A a, b \in Nat \ {0} : a * b \in Nat \ {0}
    /\ \A a \in Int : a * 1 = a /\ a * 0 = 0
OBVIOUS

LEMMA PaidFacts ==
    ASSUME NEW m \in Nat, NEW o \in Nat, NEW N \in Nat \ {0}, NEW d \in Nat
    PROVE  LET W == ResizingWork
           IN  /\ Paid(0, N, N, 0, 0)
               /\ Paid(m, o, N, W, W) => Paid(m, o, N, 0, 0) /\ Paid(m + 1, o, N, 0, 0)
               /\ Paid(m, o, N, d, 0) /\ o > 0 => Paid(m + 1, o - 1, N, d + 1, 0)
               /\ Paid(m, o, N, W, 0) /\ o > 0 => Paid(m, o, N, W, W)
               /\ Paid(m, o, N, W, W) /\ m > 0 => Paid(m - 1, o, N, W, W)
               /\ Paid(m, o, N, W, W) /\ o > 0 => Paid(m, o - 1, N, W, W)
               /\ Paid(m, o, N, W, W) => m < 2 * N
               /\ Paid(m, o, N, d, 0) /\ o = 0 => m < 2 * N
<1> DEFINE W == ResizingWork
           M == W * m
           Q == (W + 1) * N
           R == (W + 1) * o
<1>0. W \in Nat \ {0} /\ W + 1 \in Nat
    BY MapAssumption
<1>1. M \in Nat /\ Q \in Nat /\ R \in Nat
    BY <1>0, Products
<1>2. (W + 1) * (N - o) = Q - R
    BY <1>0, Products
<1>3. (W + 1) * (N - (o - 1)) = Q - R + W + 1
    <2>1. N - (o - 1) = (N - o) + 1
        OBVIOUS
    <2>2. (W + 1) * ((N - o) + 1) = (W + 1) * (N - o) + (W + 1) * 1
        BY <1>0, Products
    <2>3. (W + 1) * 1 = W + 1
        BY <1>0
    <2>4. QED
        BY <1>0, <1>1, <1>2, <2>1, <2>2, <2>3
<1>4. W * (m + 1) = M + W /\ W * (m - 1) = M - W /\ W * 0 = 0
    BY <1>0, Products
<1>5. o = 1 => R = W + 1
    BY <1>0, Products
<1>6. (W + 1) * (N - N) = 0
    BY <1>0, Products
<1>7. m >= 2 * N => M + 1 > Q
    <2> SUFFICES ASSUME m >= 2 * N PROVE M + 1 > Q
        OBVIOUS
    <2>1. W * (m - 2 * N) \in Nat
        BY <1>0, Products
    <2>2. W * (m - 2 * N) = M - W * (N + N)
        BY <1>0, Products
    <2>3. W * (N + N) = W * N + W * N /\ (W + 1) * N = W * N + N
        BY <1>0
    <2>4. W * N >= N
        <3>1. (W - 1) * N \in Nat
            BY <1>0, Products
        <3>2. (W - 1) * N = W * N - N
            BY <1>0
        <3>3. W * N \in Nat
            BY <1>0, Products
        <3>4. QED
            BY <3>1, <3>2, <3>3
    <2>5. W * N \in Nat
        BY <1>0, Products
    <2>6. QED
        BY <1>1, <2>1, <2>2, <2>3, <2>4, <2>5
<1>8. W = ResizingWork /\ M = ResizingWork * m /\ Q = (ResizingWork + 1) * N
    OBVIOUS
<1> HIDE DEF M, Q, R, W
<1>9. Paid(0, N, N, 0, 0)
    BY <1>0, <1>4, <1>6, <1>8 DEF Paid
<1>10. \A g, h \in Nat :
          Paid(m, o, N, g, h) <=> /\ M + g <= Q - R
                                  /\ o = 0 => M + 1 + h <= Q
    BY <1>2, <1>8 DEF Paid
<1>11. Paid(m + 1, o, N, 0, 0) <=> /\ M + W + 0 <= Q - R
                                   /\ o = 0 => M + W + 1 + 0 <= Q
    BY <1>2, <1>4, <1>8 DEF Paid
<1>12. Paid(m - 1, o, N, W, W) <=> /\ M - W + W <= Q - R
                                   /\ o = 0 => M - W + 1 + W <= Q
    BY <1>2, <1>4, <1>8 DEF Paid
<1>13. Paid(m + 1, o - 1, N, d + 1, 0) <=> /\ M + W + (d + 1) <= Q - R + W + 1
                                           /\ o - 1 = 0 => M + W + 1 + 0 <= Q
    BY <1>3, <1>4, <1>8 DEF Paid
<1>14. Paid(m, o - 1, N, W, W) <=> /\ M + W <= Q - R + W + 1
                                   /\ o - 1 = 0 => M + 1 + W <= Q
    BY <1>3, <1>8 DEF Paid
<1>15. QED
    BY <1>0, <1>1, <1>5, <1>7, <1>8, <1>9, <1>10, <1>11, <1>12, <1>13, <1>14

Limit(t) == MaxLoadFactor * Slots(t)
Work == IF pc = "help" THEN work ELSE ResizingWork
Rest == IF pc = "help" THEN 0 ELSE ResizingWork

InTime ==
    /\ Allocated(table1) /\ ~Allocated(table2) => table1.size < Limit(table1)
    /\ Allocated(table2) =>
          /\ Slots(table1) = Slots(table2) * 2
          /\ Paid(table1.size, table2.size, Limit(table2), Work, Rest)

LEMMA SlotsFacts ==
    ASSUME NEW t, Good(t), Allocated(t)
    PROVE  Slots(t) \in Nat \ {0} /\ Limit(t) \in Nat \ {0}
<1>1. PICK n \in Nat \ {0} : t \in Tables(n)
    BY GoodFacts DEF Sound
<1>2. Slots(t) = n
    BY <1>1, TableFacts
<1>3. QED
    BY <1>2, Products, MapAssumption DEF Limit

LEMMA DivFacts ==
    ASSUME NEW a \in Nat, NEW n \in Nat \ {0}
    PROVE  a \div n >= MaxLoadFactor <=> a >= MaxLoadFactor * n
<1> DEFINE q == a \div n
           L == MaxLoadFactor
<1>1. q \in Nat /\ n * q <= a /\ a < n * q + n /\ L \in Nat
    BY MapAssumption
<1> HIDE DEF q, L
<1>2. ASSUME q >= L PROVE a >= L * n
    <2>1. n * (q - L) \in Nat
        BY <1>1, <1>2, Products
    <2>2. n * (q - L) = n * q - L * n /\ n * q \in Nat /\ L * n \in Nat
        BY <1>1, Products
    <2>3. QED
        BY <1>1, <2>1, <2>2
<1>3. ASSUME a >= L * n PROVE q >= L
    <2>1. SUFFICES ASSUME q < L PROVE FALSE
        BY <1>1
    <2>2. n * (L - (q + 1)) \in Nat
        BY <1>1, <2>1, Products
    <2>3. n * (L - (q + 1)) = L * n - (n * q + n) /\ n * q \in Nat /\ L * n \in Nat
        BY <1>1, Products
    <2>4. QED
        BY <1>1, <1>3, <2>2, <2>3
<1>4. QED
    BY <1>2, <1>3 DEF q, L

\* A node less to pay for, in the new table or in the old one.
LEMMA PaidLess ==
    ASSUME NEW m \in Nat, NEW o \in Nat, NEW N \in Nat \ {0}, NEW W, W = ResizingWork,
           Paid(m, o, N, W, W)
    PROVE  /\ m - 1 \in Nat => Paid(m - 1, o, N, W, W)
           /\ o - 1 \in Nat => Paid(m, o - 1, N, W, W)
<1>1. W \in Nat
    BY MapAssumption
<1>2. /\ Paid(m, o, N, W, W) /\ m > 0 => Paid(m - 1, o, N, W, W)
      /\ Paid(m, o, N, W, W) /\ o > 0 => Paid(m, o - 1, N, W, W)
    BY <1>1, PaidFacts
<1>3. (m - 1 \in Nat => m > 0) /\ (o - 1 \in Nat => o > 0)
    OBVIOUS
<1>4. QED
    BY <1>2, <1>3

\* What the steps of InTime know of the two tables.
LEMMA TwoTablesFacts ==
    ASSUME HInv
    PROVE  /\ table1.size \in Nat /\ table2.size \in Nat /\ work \in Nat
           /\ Allocated(table1) => Slots(table1) \in Nat \ {0} /\ Limit(table1) \in Nat \ {0}
           /\ Allocated(table2) => /\ Slots(table2) \in Nat \ {0} /\ Limit(table2) \in Nat \ {0}
                                   /\ Allocated(table1)
           /\ ~Allocated(table2) => table2.size = 0
BY GoodFacts, SlotsFacts, MapAssumption DEF HInv, TwoTables, Scalars

LEMMA InsertInTime ==
    ASSUME HInv, InTime, NEW k \in Keys, Insert(k)
    PROVE  InTime'
<1> DEFINE first == IF Allocated(table1) THEN table1 ELSE EmptyTable(InitialSlots)
           full == Inserted(first, k)
<1>1. /\ Good(table1) /\ Good(table2) /\ k \notin InTable(table1)
      /\ pc = "idle" /\ pc' = "help" /\ work' = 0
    BY DEF HInv, TwoTables, Insert, Stored
<1>2. /\ Sound(first) /\ InTable(first) = InTable(table1)
      /\ ~Allocated(table1) => first.size = 0
      /\ Allocated(table1) => first = table1
    BY <1>1, GoodFacts, EmptyTableFacts, MapAssumption
<1>3. PICK n \in Nat \ {0} : first \in Tables(n)
    BY <1>2 DEF Sound
<1>4. IF MustResize(full)
      THEN table2' = full /\ table1' = EmptyTable(Slots(full) * 2)
      ELSE table1' = full /\ table2' = table2
    BY DEF Insert
<1> HIDE DEF first
<1>5. full \in Tables(n) /\ full.size = first.size + 1
    BY <1>1, <1>2, <1>3, InsertedFacts
<1> HIDE DEF full
<1>6. Slots(full) = n /\ Allocated(full) /\ Slots(first) = n /\ first.size \in Nat
    BY <1>3, <1>5, TableFacts DEF Tables
<1>7. Limit(full) = MaxLoadFactor * n /\ Limit(first) = MaxLoadFactor * n
    BY <1>6 DEF Limit
<1>8. Limit(full) \in Nat \ {0}
    BY <1>7, Products, MapAssumption
<1>9. MustResize(full) <=> ~Allocated(table2) /\ full.size >= Limit(full)
    BY <1>5, <1>6, <1>7, DivFacts DEF MustResize
<1>10. ~Allocated(table2) => full.size <= Limit(full)
    BY <1>2, <1>5, <1>6, <1>7, <1>8 DEF InTime
<1>11. CASE MustResize(full)
    <2>1. full.size = Limit(full)
        BY <1>5, <1>6, <1>8, <1>9, <1>10, <1>11
    <2>2. table2' = full /\ table1' = EmptyTable(n * 2) /\ n * 2 \in Nat \ {0}
        BY <1>4, <1>6, <1>11
    <2>3. table1' \in Tables(n * 2) /\ table1'.size = 0
        BY <2>2, EmptyTableFacts
    <2>4. Slots(table1') = n * 2
        BY <2>2, <2>3, TableFacts
    <2>5. Paid(0, Limit(full), Limit(full), 0, 0)
        BY <1>8, PaidFacts
    <2>6. Work' = 0 /\ Rest' = 0
        BY <1>1 DEF Work, Rest
    <2>7. /\ Slots(table1') = Slots(table2') * 2
          /\ Paid(table1'.size, table2'.size, Limit(table2'), Work', Rest')
        BY <1>6, <2>1, <2>2, <2>3, <2>4, <2>5, <2>6
    <2>8. QED
        BY <1>6, <2>2, <2>7 DEF InTime
<1>12. CASE ~MustResize(full) /\ ~Allocated(table2)
    <2>1. full.size < Limit(full)
        BY <1>5, <1>6, <1>8, <1>9, <1>12
    <2>2. QED
        BY <1>4, <1>12, <2>1 DEF InTime
<1>13. CASE Allocated(table2)
    <2>1. /\ Allocated(table1) /\ table1.size \in Nat /\ table2.size \in Nat
          /\ Limit(table2) \in Nat \ {0}
        BY <1>13, TwoTablesFacts
    <2>2. table1' = full /\ table2' = table2 /\ table1'.size = table1.size + 1
        BY <1>2, <1>4, <1>5, <1>9, <1>13, <2>1
    <2>3. Slots(table1') = Slots(table1)
        BY <1>2, <1>6, <2>1, <2>2
    <2>4. Paid(table1.size, table2.size, Limit(table2), ResizingWork, ResizingWork)
        BY <1>1, <1>13 DEF InTime, Work, Rest
    <2>5. Paid(table1.size + 1, table2.size, Limit(table2), 0, 0)
        BY <2>1, <2>4, PaidFacts
    <2>6. Work' = 0 /\ Rest' = 0
        BY <1>1 DEF Work, Rest
    <2>7. /\ Slots(table1') = Slots(table2') * 2
          /\ Paid(table1'.size, table2'.size, Limit(table2'), Work', Rest')
        BY <1>13, <2>2, <2>3, <2>5, <2>6 DEF InTime
    <2>8. QED
        BY <1>13, <2>2, <2>7 DEF InTime
<1>14. QED
    BY <1>11, <1>12, <1>13

LEMMA BeginInTime ==
    ASSUME HInv, InTime, NEW k \in Keys, NEW op, Begin(op, k)
    PROVE  InTime'
<1>1. /\ table1' = table1 /\ table2' = table2
      /\ pc = "idle" /\ pc' = "help" /\ work' = 0
    BY DEF Begin
<1>2. CASE Allocated(table2)
    <2>1. Paid(table1.size, table2.size, Limit(table2), ResizingWork, ResizingWork)
        BY <1>1, <1>2 DEF InTime, Work, Rest
    <2>2. Paid(table1.size, table2.size, Limit(table2), 0, 0)
        BY <1>2, <2>1, PaidFacts, TwoTablesFacts
    <2>3. Work' = 0 /\ Rest' = 0
        BY <1>1 DEF Work, Rest
    <2>4. QED
        BY <1>1, <1>2, <2>2, <2>3 DEF InTime
<1>3. CASE ~Allocated(table2)
    BY <1>1, <1>3 DEF InTime
<1>4. QED
    BY <1>2, <1>3

LEMMA SkipInTime ==
    ASSUME InTime, HelpSkip
    PROVE  InTime'
<1>1. table1' = table1 /\ table2' = table2 /\ pc' = pc /\ work' = work
    BY DEF HelpSkip, WorkOfSkip
<1>2. Work' = Work /\ Rest' = Rest
    BY <1>1 DEF Work, Rest
<1>3. QED
    BY <1>1, <1>2 DEF InTime

LEMMA MoveInTime ==
    ASSUME HInv, InTime, HelpMove
    PROVE  InTime'
<1> DEFINE r == resizingPosition
           k == Head(table2.slots[r])
<1>1. /\ table1' = Inserted(table1, k) /\ table2' = Detached(table2, r, 1)
      /\ pc = "help" /\ pc' = "help" /\ work' = work + 1
      /\ table2.slots[r] # <<>> /\ table2.size > 0
    BY DEF HelpMove, Helping
<1>2. Sound(table1) /\ Sound(table2)
    BY <1>1, InBounds
<1>3. PICK n \in Nat \ {0} : table2 \in Tables(n) /\ resizingPosition \in 0 .. n - 1
    BY <1>1, InBounds
<1>4. PICK m \in Nat \ {0} : table1 \in Tables(m)
    BY <1>2 DEF Sound
<1>5. DOMAIN table2.slots = 0 .. n - 1 /\ table2.slots[r] \in Seq(Keys)
    BY <1>3, TableFacts
<1>6. NodeAt(table2, r, 1, k)
    BY <1>1, <1>3, <1>5 DEF NodeAt
<1> HIDE DEF k
<1>7. table2' \in Tables(n) /\ table2'.size = table2.size - 1 /\ k \in InTable(table2)
    BY <1>1, <1>2, <1>3, <1>6, DetachedFacts
<1>8. k \in Keys /\ k \notin InTable(table1)
    BY <1>7 DEF HInv, TwoTables, InTable
<1>9. table1' \in Tables(m) /\ table1'.size = table1.size + 1
    BY <1>1, <1>2, <1>4, <1>8, InsertedFacts
<1>10. /\ Slots(table1') = Slots(table1) /\ Slots(table2') = Slots(table2)
       /\ Allocated(table2) /\ Allocated(table2')
    BY <1>3, <1>4, <1>7, <1>9, TableFacts
<1>11. Limit(table2') = Limit(table2)
    BY <1>10 DEF Limit
<1>12. Paid(table1.size, table2.size, Limit(table2), work, 0)
    BY <1>1, <1>10 DEF InTime, Work, Rest
<1>13. Paid(table1.size + 1, table2.size - 1, Limit(table2), work + 1, 0)
    BY <1>1, <1>10, <1>12, PaidFacts, TwoTablesFacts
<1>14. Work' = work + 1 /\ Rest' = 0
    BY <1>1 DEF Work, Rest
<1>15. /\ Slots(table1') = Slots(table2') * 2
       /\ Paid(table1'.size, table2'.size, Limit(table2'), Work', Rest')
    BY <1>7, <1>9, <1>10, <1>11, <1>13, <1>14 DEF InTime
<1>16. QED
    BY <1>10, <1>15 DEF InTime

LEMMA DoneInTime ==
    ASSUME HInv, InTime, HelpDone
    PROVE  InTime'
<1>1. /\ table1' = table1 /\ table2' = IF table2.size = 0 THEN NullTable ELSE table2
      /\ pc = "help" /\ pc' # "help"
      /\ ~(work < ResizingWork /\ table2.size > 0)
    BY DEF HelpDone, Helping, MoreWork
<1>2. Work = work /\ Rest = 0 /\ Work' = ResizingWork /\ Rest' = ResizingWork
    BY <1>1 DEF Work, Rest
<1>3. CASE ~Allocated(table2)
    BY <1>1, <1>3, NullTableFacts, TwoTablesFacts DEF InTime
<1>4. CASE Allocated(table2) /\ table2.size = 0
    <2>1. ~Allocated(table2')
        BY <1>1, <1>4, NullTableFacts
    <2>2. table1.size < 2 * Limit(table2)
        BY <1>2, <1>4, PaidFacts, TwoTablesFacts DEF InTime
    <2>3. Limit(table1) = 2 * Limit(table2)
        BY <1>4, TwoTablesFacts, MapAssumption DEF InTime, Limit
    <2>4. QED
        BY <1>1, <2>1, <2>2, <2>3 DEF InTime
<1>5. CASE Allocated(table2) /\ table2.size # 0
    <2>1. table2.size > 0 /\ work = ResizingWork /\ table2' = table2
        BY <1>1, <1>5, TwoTablesFacts, MapAssumption DEF HInv, Scalars
    <2>2. Paid(table1.size, table2.size, Limit(table2), ResizingWork, 0)
        BY <1>2, <1>5, <2>1 DEF InTime
    <2>3. Paid(table1.size, table2.size, Limit(table2), ResizingWork, ResizingWork)
        BY <1>5, <2>1, <2>2, PaidFacts, TwoTablesFacts
    <2>4. QED
        BY <1>1, <1>2, <1>5, <2>1, <2>3 DEF InTime
<1>6. QED
    BY <1>3, <1>4, <1>5

LEMMA LookUpInTime ==
    ASSUME InTime, LookUp
    PROVE  InTime'
<1>1. table1' = table1 /\ table2' = table2 /\ pc # "help" /\ pc' # "help"
    BY DEF LookUp
<1>2. Work' = Work /\ Rest' = Rest
    BY <1>1 DEF Work, Rest
<1>3. QED
    BY <1>1, <1>2 DEF InTime

LEMMA PopInTime ==
    ASSUME HInv, InTime, Pop
    PROVE  InTime'
<1> DEFINE k == call.key
           W == ResizingWork
<1>1. /\ k \in Keys /\ Good(table1) /\ Good(table2)
      /\ pc # "help" /\ pc' # "help"
      /\ table1' = IF 1 \in PopTables(k) THEN Taken(table1, k) ELSE table1
      /\ table2' = IF 2 \in PopTables(k) THEN Taken(table2, k) ELSE table2
    BY DEF HInv, CallKnown, TwoTables, Pop
<1>2. Work = W /\ Rest = W /\ Work' = W /\ Rest' = W
    BY <1>1 DEF Work, Rest
<1>3. ASSUME NEW t \in {table1, table2}, Finds(t, k)
      PROVE  /\ Allocated(t) /\ Allocated(Taken(t, k))
             /\ Slots(Taken(t, k)) = Slots(t) /\ Limit(Taken(t, k)) = Limit(t)
             /\ Taken(t, k).size = t.size - 1 /\ Taken(t, k).size \in Nat
    <2>1. /\ Sound(Taken(t, k)) /\ Allocated(Taken(t, k)) /\ Allocated(t)
          /\ Taken(t, k).size = t.size - 1
          /\ DOMAIN Taken(t, k).slots = DOMAIN t.slots
        BY <1>1, <1>3, TakenFacts
    <2>2. Good(Taken(t, k))
        BY <2>1 DEF Good
    <2>3. QED
        BY <2>1, <2>2, GoodFacts DEF Slots, Limit
<1> HIDE DEF k, W
<1>4. CASE Finds(table1, k)
    <2>1. table1' = Taken(table1, k) /\ table2' = table2
        BY <1>1, <1>4 DEF PopTables
    <2>2. /\ Allocated(table1) /\ Allocated(table1')
          /\ Slots(table1') = Slots(table1) /\ Limit(table1') = Limit(table1)
          /\ table1'.size = table1.size - 1 /\ table1'.size \in Nat
        BY <1>3, <1>4, <2>1
    <2>3. CASE Allocated(table2)
        <3>1. Paid(table1.size, table2.size, Limit(table2), W, W)
            BY <1>2, <2>3 DEF InTime
        <3>2. Paid(table1.size - 1, table2.size, Limit(table2), W, W)
            <4>1. /\ table1.size \in Nat /\ table2.size \in Nat /\ table1.size - 1 \in Nat
                  /\ Limit(table2) \in Nat \ {0}
                BY <2>2, <2>3, TwoTablesFacts
            <4>2. W = ResizingWork
                BY DEF W
            <4>3. QED
                BY <3>1, <4>1, <4>2, PaidLess
        <3>3. QED
            BY <1>2, <2>1, <2>2, <2>3, <3>2 DEF InTime
    <2>4. CASE ~Allocated(table2)
        BY <2>1, <2>2, <2>4, TwoTablesFacts DEF InTime
    <2>5. QED
        BY <2>3, <2>4
<1>5. CASE ~Finds(table1, k) /\ Finds(table2, k)
    <2>1. table1' = table1 /\ table2' = Taken(table2, k)
        BY <1>1, <1>5 DEF PopTables
    <2>2. /\ Allocated(table2) /\ Allocated(table2')
          /\ Slots(table2') = Slots(table2) /\ Limit(table2') = Limit(table2)
          /\ table2'.size = table2.size - 1 /\ table2'.size \in Nat
        BY <1>3, <1>5, <2>1
    <2>3. Paid(table1.size, table2.size, Limit(table2), W, W)
        BY <1>2, <2>2 DEF InTime
    <2>4. Paid(table1.size, table2.size - 1, Limit(table2), W, W)
        <3>1. /\ table1.size \in Nat /\ table2.size \in Nat /\ table2.size - 1 \in Nat
              /\ Limit(table2) \in Nat \ {0}
            BY <2>2, TwoTablesFacts
        <3>2. W = ResizingWork
            BY DEF W
        <3>3. QED
            BY <2>3, <3>1, <3>2, PaidLess
    <2>5. QED
        BY <1>2, <2>1, <2>2, <2>4 DEF InTime
<1>6. CASE ~Finds(table1, k) /\ ~Finds(table2, k)
    <2>1. table1' = table1 /\ table2' = table2
        BY <1>1, <1>6 DEF PopTables
    <2>2. QED
        BY <1>2, <2>1 DEF InTime
<1>7. QED
    BY <1>4, <1>5, <1>6

LEMMA NextInTime == HInv /\ InTime /\ [Next]_vars => InTime'
<1> SUFFICES ASSUME HInv, InTime, [Next]_vars PROVE InTime'
    OBVIOUS
<1>1. ASSUME NEW k \in Keys, Insert(k) PROVE InTime'
    BY <1>1, InsertInTime
<1>2. ASSUME NEW k \in Keys, Begin("lookup", k) \/ Begin("pop", k) PROVE InTime'
    BY <1>2, BeginInTime
<1>3. CASE HelpResizing
    BY <1>3, SkipInTime, MoveInTime, DoneInTime DEF HelpResizing
<1>4. CASE LookUp
    BY <1>4, LookUpInTime
<1>5. CASE Pop
    BY <1>5, PopInTime
<1>6. CASE Destroy
    BY <1>6, NullTableFacts DEF Destroy, InTime
<1>7. CASE UNCHANGED vars
    <2>1. table1' = table1 /\ table2' = table2 /\ pc' = pc /\ work' = work
        BY <1>7 DEF vars
    <2>2. Work' = Work /\ Rest' = Rest
        BY <2>1 DEF Work, Rest
    <2>3. QED
        BY <2>1, <2>2 DEF InTime
<1>8. QED
    BY <1>1, <1>2, <1>3, <1>4, <1>5, <1>6, <1>7 DEF Next

\* The move to the new table ends before the new table reaches the limit, for
\* every RESIZING_WORK and MAX_LOAD_FACTOR: CMapInsert, which does not resize
\* while an old table is left, never passes over a resizing that is due.
THEOREM ResizesInTime == Spec => []ResizeInTime
<1>1. Init => InTime
    BY NullTableFacts DEF Init, InTime
<1>2. Spec => []InTime
    BY <1>1, NextInTime, Invariance, PTL DEF Spec
<1>3. ASSUME HInv, InTime PROVE ResizeInTime
    <2> SUFFICES ASSUME pc = "idle", Allocated(table1)
                 PROVE  table1.size < Limit(table1)
        BY DEF ResizeInTime, Limit
    <2>1. CASE ~Allocated(table2)
        BY <1>3, <2>1 DEF InTime
    <2>2. CASE Allocated(table2)
        <3>1. Paid(table1.size, table2.size, Limit(table2), ResizingWork, ResizingWork)
            BY <1>3, <2>2 DEF InTime, Work, Rest
        <3>2. table1.size < 2 * Limit(table2)
            BY <1>3, <2>2, <3>1, PaidFacts, TwoTablesFacts
        <3>3. Limit(table1) = 2 * Limit(table2)
            BY <1>3, <2>2, TwoTablesFacts, MapAssumption DEF InTime, Limit
        <3>4. QED
            BY <3>2, <3>3
    <2>3. QED
        BY <2>1, <2>2
<1>4. QED
    BY <1>2, <1>3, Invariance, PTL
------------------------------------------------------------------------------
(* What a scan of both tables lists.                                       *)

Elements(s) == {s[i] : i \in 1 .. Len(s)}

\* Two lists of different nodes, one behind the other.
LEMMA JoinedFacts ==
    ASSUME NEW s \in Seq(Keys), NEW t \in Seq(Keys), DistinctChain(s), DistinctChain(t),
           Elements(s) \cap Elements(t) = {}
    PROVE  /\ s \o t \in Seq(Keys) /\ DistinctChain(s \o t)
           /\ Elements(s \o t) = Elements(s) \cup Elements(t)
<1> DEFINE u == s \o t
<1>1. /\ u \in Seq(Keys) /\ Len(u) = Len(s) + Len(t)
      /\ \A i \in 1 .. Len(s) + Len(t) : u[i] = IF i <= Len(s) THEN s[i] ELSE t[i - Len(s)]
    BY ConcatProperties
<1>2. Len(s) \in Nat /\ Len(t) \in Nat
    OBVIOUS
<1> HIDE DEF u
<1>3. \A i \in 1 .. Len(u) :
          \/ i \in 1 .. Len(s) /\ u[i] = s[i]
          \/ i - Len(s) \in 1 .. Len(t) /\ u[i] = t[i - Len(s)] /\ ~(i <= Len(s))
    BY <1>1, <1>2
<1>4. \A i \in 1 .. Len(s) : i \in 1 .. Len(u) /\ u[i] = s[i]
    BY <1>1, <1>2
<1>5. ASSUME NEW i \in 1 .. Len(t) PROVE i + Len(s) \in 1 .. Len(u) /\ u[i + Len(s)] = t[i]
    <2>1. /\ i + Len(s) \in 1 .. Len(s) + Len(t) /\ ~(i + Len(s) <= Len(s))
          /\ i + Len(s) - Len(s) = i
        BY <1>2
    <2>2. QED
        BY <1>1, <2>1
<1>6. Elements(u) = Elements(s) \cup Elements(t)
    <2>1. Elements(u) \subseteq Elements(s) \cup Elements(t)
        BY <1>3 DEF Elements
    <2>2. Elements(s) \subseteq Elements(u) /\ Elements(t) \subseteq Elements(u)
        BY <1>4, <1>5 DEF Elements
    <2>3. QED
        BY <2>1, <2>2
<1>7. ASSUME NEW i \in 1 .. Len(u), NEW j \in 1 .. Len(u), u[i] = u[j] PROVE i = j
    <2>1. \A h \in 1 .. Len(s), l \in 1 .. Len(t) : s[h] # t[l]
        BY DEF Elements
    <2>2. CASE i \in 1 .. Len(s) /\ u[i] = s[i]
        <3>1. j \in 1 .. Len(s) /\ u[j] = s[j]
            BY <1>3, <1>7, <2>1, <2>2
        <3>2. QED
            BY <1>7, <2>2, <3>1 DEF DistinctChain
    <2>3. CASE i - Len(s) \in 1 .. Len(t) /\ u[i] = t[i - Len(s)]
        <3>1. j - Len(s) \in 1 .. Len(t) /\ u[j] = t[j - Len(s)]
            BY <1>3, <1>7, <2>1, <2>3
        <3>2. i - Len(s) = j - Len(s)
            BY <1>7, <2>3, <3>1 DEF DistinctChain
        <3>3. i \in Int /\ j \in Int
            BY <1>1, <1>2
        <3>4. QED
            BY <1>2, <3>2, <3>3
    <2>4. QED
        BY <1>3, <2>2, <2>3
<1>8. QED
    BY <1>1, <1>6, <1>7 DEF DistinctChain, u

\* A list of different nodes is as long as their number.
LEMMA DistinctCount ==
    ASSUME NEW s \in Seq(Keys), DistinctChain(s)
    PROVE  Cardinality(Elements(s)) = Len(s)
<1> DEFINE f == [i \in 1 .. Len(s) |-> s[i]]
<1>1. f \in Bijection(1 .. Len(s), Elements(s))
    BY DEF Bijection, Injection, Surjection, IsInjective, DistinctChain, Elements
<1>2. Len(s) \in Nat /\ ExistsBijection(1 .. Len(s), Elements(s))
    BY <1>1 DEF ExistsBijection
<1>3. QED
    BY <1>2, FS_CountingElements

\* The chains of the first i slots, as scan() visits them.
Gathered(t, from, i) ==
    /\ from[i] \in Seq(Keys) /\ DistinctChain(from[i])
    /\ \A k : k \in Elements(from[i]) <=>
                 \E l \in DOMAIN t.slots : l < i /\ k \in Elements(t.slots[l])

Gathers(t, n, from) ==
    from = [i \in 0 .. n |-> IF i = 0 THEN <<>> ELSE from[i - 1] \o t.slots[i - 1]]

\* There is such a list of lists.
LEMMA GathersExists ==
    ASSUME NEW n \in Nat \ {0}, NEW t \in Tables(n)
    PROVE  \E from : Gathers(t, n, from)
<1> DEFINE V == Seq(Keys)
           step == [i \in 1 .. n |-> [s \in V |-> s \o t.slots[i - 1]]]
<1>1. ASSUME NEW i \in 1 .. n, NEW s \in V PROVE s \o t.slots[i - 1] \in V
    <2>1. i - 1 \in 0 .. n - 1
        OBVIOUS
    <2>2. t.slots[i - 1] \in V
        BY <2>1, TableFacts
    <2>3. QED
        BY <2>2, ConcatProperties
<1>2. step \in [1 .. n -> [V -> V]] /\ <<>> \in V /\ n \in Nat
    BY <1>1, EmptySeq
<1>3. PICK f : Iterates(f, n, V, <<>>, step)
    <2> HIDE DEF V, step
    <2>1. QED
        BY <1>2, Primitive
<1>4. f \in [0 .. n -> V] /\ f[0] = <<>> /\ \A i \in 1 .. n : f[i] = step[i][f[i - 1]]
    BY <1>3 DEF Iterates
<1>5. ASSUME NEW i \in 1 .. n PROVE f[i] = f[i - 1] \o t.slots[i - 1]
    <2>1. i - 1 \in 0 .. n
        OBVIOUS
    <2>2. f[i - 1] \in V
        BY <1>4, <2>1
    <2>3. QED
        BY <1>4, <2>2
<1>6. \A i \in 0 .. n : f[i] = IF i = 0 THEN <<>> ELSE f[i - 1] \o t.slots[i - 1]
    <2>1. \A i \in 0 .. n : i = 0 \/ i \in 1 .. n
        OBVIOUS
    <2>2. QED
        BY <1>4, <1>5, <2>1
<1>7. Gathers(t, n, f)
    BY <1>4, <1>6 DEF Gathers
<1>8. QED
    BY <1>7

\* scan() lists every node of a table once.
LEMMA ScanFacts ==
    ASSUME NEW t, Good(t)
    PROVE  Scan(t) \in Seq(Keys) /\ DistinctChain(Scan(t)) /\ Elements(Scan(t)) = InTable(t)
<1>1. CASE t.size = 0
    <2>1. Scan(t) = <<>>
        BY <1>1 DEF Scan
    <2>2. InTable(t) = {}
        BY <1>1, GoodFacts, FS_EmptySet
    <2>3. <<>> \in Seq(Keys) /\ Len(<<>>) = 0
        BY EmptySeq
    <2>4. DistinctChain(<<>>) /\ Elements(<<>>) = {}
        BY <2>3 DEF DistinctChain, Elements
    <2>5. QED
        BY <2>1, <2>2, <2>3, <2>4
<1>2. CASE t.size # 0
    <2>1. Sound(t)
        BY <1>2, GoodFacts
    <2>2. PICK n \in Nat \ {0} : t \in Tables(n)
        BY <2>1 DEF Sound
    <2>3. /\ DOMAIN t.slots = 0 .. n - 1 /\ Slots(t) = n
          /\ \A i \in 0 .. n - 1 : t.slots[i] \in Seq(Keys) /\ DistinctChain(t.slots[i])
        BY <2>1, <2>2, TableFacts DEF Sound, ChainsDistinct
    <2> DEFINE from == CHOOSE f : Gathers(t, n, f)
    <2>4. Gathers(t, n, from)
        BY <2>2, GathersExists
    <2>5. Scan(t) = from[n]
        BY <1>2, <2>3 DEF Scan, Gathers
    <2> HIDE DEF from
    <2>6. \A i \in 0 .. n : from[i] = IF i = 0 THEN <<>> ELSE from[i - 1] \o t.slots[i - 1]
        <3> DEFINE h == [i \in 0 .. n |-> IF i = 0 THEN <<>> ELSE from[i - 1] \o t.slots[i - 1]]
        <3>1. from = h
            BY <2>4 DEF Gathers
        <3>2. \A i \in 0 .. n : h[i] = IF i = 0 THEN <<>> ELSE from[i - 1] \o t.slots[i - 1]
            OBVIOUS
        <3> HIDE DEF h
        <3>3. QED
            BY <3>1, <3>2
    <2> DEFINE T == {i \in Nat : i <= n => Gathered(t, from, i)}
    <2>7. 0 \in T
        <3>1. from[0] = <<>>
            BY <2>6
        <3>2. <<>> \in Seq(Keys) /\ Len(<<>>) = 0
            BY EmptySeq
        <3>3. DistinctChain(<<>>) /\ Elements(<<>>) = {}
            BY <3>2 DEF DistinctChain, Elements
        <3>4. \A l \in DOMAIN t.slots : ~(l < 0)
            BY <2>3
        <3>5. Gathered(t, from, 0)
            BY <3>1, <3>2, <3>3, <3>4 DEF Gathered
        <3>6. QED
            BY <3>5
    <2>8. ASSUME NEW i \in Nat, i \in T PROVE i + 1 \in T
        <3> SUFFICES ASSUME i + 1 <= n PROVE Gathered(t, from, i + 1)
            OBVIOUS
        <3>1. Gathered(t, from, i) /\ i \in 0 .. n - 1
            BY <2>8
        <3>2. from[i + 1] = from[i] \o t.slots[i]
            <4> DEFINE j == i + 1
            <4>1. j \in 0 .. n /\ j # 0 /\ j - 1 = i
                BY <3>1
            <4> HIDE DEF j
            <4>2. from[j] = from[j - 1] \o t.slots[j - 1]
                BY <2>6, <4>1
            <4>3. from[j] = from[i] \o t.slots[i]
                BY <4>1, <4>2
            <4>4. QED
                BY <4>3 DEF j
        <3>3. \A l \in DOMAIN t.slots : \A k \in Elements(t.slots[l]) : SlotOf(t, k) = l
            BY <2>1 DEF Sound, ChainsPlaced, Elements
        <3>4. Elements(from[i]) \cap Elements(t.slots[i]) = {}
            <4>1. ASSUME NEW k \in Elements(from[i]), k \in Elements(t.slots[i]) PROVE FALSE
                <5>1. PICK l \in DOMAIN t.slots : l < i /\ k \in Elements(t.slots[l])
                    BY <3>1 DEF Gathered
                <5>2. SlotOf(t, k) = l /\ SlotOf(t, k) = i
                    BY <2>3, <3>1, <3>3, <4>1, <5>1
                <5>3. QED
                    BY <3>1, <5>1, <5>2
            <4>2. QED
                BY <4>1
        <3>5. /\ from[i + 1] \in Seq(Keys) /\ DistinctChain(from[i + 1])
              /\ Elements(from[i + 1]) = Elements(from[i]) \cup Elements(t.slots[i])
            BY <2>3, <3>1, <3>2, <3>4, JoinedFacts DEF Gathered
        <3>6. ASSUME NEW k
              PROVE  k \in Elements(from[i + 1]) <=>
                       \E l \in DOMAIN t.slots : l < i + 1 /\ k \in Elements(t.slots[l])
            <4>1. \A l \in DOMAIN t.slots : l < i + 1 <=> l < i \/ l = i
                BY <2>3
            <4>2. i \in DOMAIN t.slots
                BY <2>3, <3>1
            <4>3. QED
                BY <3>1, <3>5, <4>1, <4>2 DEF Gathered
        <3>7. QED
            BY <3>5, <3>6 DEF Gathered
    <2>9. \A i \in Nat : i \in T
        <3> HIDE DEF T
        <3>1. QED
            BY <2>7, <2>8, Induction
    <2>10. Gathered(t, from, n)
        BY <2>9
    <2>11. Elements(from[n]) = InTable(t)
        <3>1. \A l \in DOMAIN t.slots : l < n
            BY <2>3
        <3>2. \A k : k \in Elements(from[n]) <=> \E l \in DOMAIN t.slots : k \in Elements(t.slots[l])
            BY <2>10, <3>1 DEF Gathered
        <3>3. \A l \in DOMAIN t.slots : Elements(t.slots[l]) \subseteq Keys
            BY <2>3, ElementOfSeq DEF Elements
        <3>4. \A k : k \in InTable(t) <=> k \in Keys /\ \E l \in DOMAIN t.slots : k \in Elements(t.slots[l])
            BY DEF InTable, Elements
        <3>5. QED
            BY <3>2, <3>3, <3>4
    <2>12. QED
        BY <2>5, <2>10, <2>11 DEF Gathered
<1>3. QED
    BY <1>1, <1>2

\* The keys command, which announces CMapSize keys and then scans both tables,
\* lists every stored node once, wherever a resizing stands.
THEOREM AllKeysListed == Spec => []KeysListed
<1>1. HInv => KeysListed
    <2> SUFFICES ASSUME HInv PROVE KeysListed
        OBVIOUS
    <2> DEFINE s == Scan(table1)
               t == Scan(table2)
    <2>1. Good(table1) /\ Good(table2) /\ InTable(table1) \cap InTable(table2) = {}
        BY DEF HInv, TwoTables
    <2>2. /\ s \in Seq(Keys) /\ DistinctChain(s) /\ Elements(s) = InTable(table1)
          /\ t \in Seq(Keys) /\ DistinctChain(t) /\ Elements(t) = InTable(table2)
        BY <2>1, ScanFacts
    <2> HIDE DEF s, t
    <2> DEFINE u == s \o t
    <2>3. u \in Seq(Keys) /\ DistinctChain(u) /\ Elements(u) = Stored
        BY <2>1, <2>2, JoinedFacts DEF Stored
    <2>4. Len(u) = Len(s) + Len(t)
        BY <2>2, ConcatProperties
    <2> HIDE DEF u
    <2>5. Len(u) = Cardinality(Stored)
        BY <2>3, DistinctCount
    <2>6. Len(s) = table1.size /\ Len(t) = table2.size
        BY <2>1, <2>2, DistinctCount, GoodFacts
    <2>7. {u[i] : i \in DOMAIN u} = Stored
        BY <2>3 DEF Elements
    <2>8. QED
        BY <2>4, <2>5, <2>6, <2>7 DEF KeysListed, MapSize, s, t, u
<1>2. QED
    BY <1>1, Invariance, PTL
=============================================================================
