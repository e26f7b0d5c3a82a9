---------------------------- MODULE ClientProofs ----------------------------
(***************************************************************************)
(* A reply the client prints is the server's reply, whole, in whatever     *)
(* pieces it was written and read, and whenever the server dies: for all   *)
(* sizes of integers, messages, replies and send buffers.                  *)
(***************************************************************************)
EXTENDS Client, Recursion, SequenceTheorems
------------------------------------------------------------------------------
(* What Request::parse makes of a message: exactly the messages that stand *)
(* for a command are taken, and for that command, whatever the sizes of    *)
(* integers, and of bytes that can count a message.                        *)

\* Appending is associative on byte strings.
LEMMA Associate == \A x, y, z \in Seq(Byte) : (x \o y) \o z = x \o (y \o z)
    BY ConcatAssociative
------------------------------------------------------------------------------
(* Integers in memory.                                                     *)

\* left[i] is what i divisions leave of n.
Divides(left, n) ==
    left = [i \in 0 .. WordSize |-> IF i = 0 THEN n ELSE left[i - 1] \div Base]

\* top[i] is the integer that the i most significant bytes of word stand for.
Tops(top, word) ==
    top = [i \in 0 .. WordSize |->
              IF i = 0 THEN 0 ELSE word[WordSize + 1 - i] + Base * top[i - 1]]

\* A digit and what is left of a number give it back.
LEMMA DivideOnce ==
    ASSUME NEW n \in Nat
    PROVE  n \div Base \in Nat /\ n % Base \in Byte /\ n = (n % Base) + Base * (n \div Base)
BY RequestsAssumption DEF Byte

\* Dividing by Base again and again: what is left after i digits is a number.
LEMMA Divided ==
    ASSUME NEW n \in Nat, NEW left, Divides(left, n)
    PROVE  /\ left[0] = n
           /\ \A i \in 1 .. WordSize : left[i] = left[i - 1] \div Base
           /\ \A i \in 0 .. WordSize : left[i] \in Nat
<1>1. WordSize \in Nat
    BY RequestsAssumption
<1>2. \A i \in 0 .. WordSize : left[i] = IF i = 0 THEN n ELSE left[i - 1] \div Base
    <2> DEFINE F == [i \in 0 .. WordSize |-> IF i = 0 THEN n ELSE left[i - 1] \div Base]
    <2>1. \A i \in 0 .. WordSize : F[i] = IF i = 0 THEN n ELSE left[i - 1] \div Base
        OBVIOUS
    <2>2. left = F
        BY DEF Divides
    <2> HIDE DEF F
    <2>3. QED
        BY <2>1, <2>2
<1>3. left[0] = n /\ \A i \in 1 .. WordSize : left[i] = left[i - 1] \div Base
    BY <1>1, <1>2
<1> DEFINE T == {i \in Nat : i <= WordSize => left[i] \in Nat}
<1>4. 0 \in T
    BY <1>3
<1>5. ASSUME NEW i \in Nat, i \in T PROVE i + 1 \in T
    <2> SUFFICES ASSUME i + 1 <= WordSize PROVE left[i + 1] \in Nat
        OBVIOUS
    <2>1. i + 1 \in 1 .. WordSize /\ i + 1 - 1 = i /\ i <= WordSize
        BY <1>1
    <2>2. left[i] \in Nat /\ left[i + 1] = left[i] \div Base
        BY <1>3, <1>5, <2>1
    <2>3. QED
        BY <2>2, DivideOnce
<1>6. \A i \in Nat : i \in T
    <2> HIDE DEF T
    <2>1. QED
        BY <1>4, <1>5, Induction
<1>7. QED
    BY <1>1, <1>3, <1>6

\* An integer in memory is made of remainders.
LEMMA WordIs ==
    ASSUME NEW n \in Nat
    PROVE  \E left : Divides(left, n) /\ Word(n) = [i \in 1 .. WordSize |-> left[i - 1] % Base]
<1>1. WordSize \in Nat
    BY RequestsAssumption
<1> DEFINE step == [i \in 1 .. WordSize |-> [m \in Nat |-> m \div Base]]
<1>2. step \in [1 .. WordSize -> [Nat -> Nat]] /\ \A i \in 1 .. WordSize, m \in Nat : step[i][m] = m \div Base
    BY DivideOnce
<1> HIDE DEF step
<1>3. PICK f : Iterates(f, WordSize, Nat, n, step)
    BY <1>1, <1>2, Primitive
<1>4. Divides(f, n)
    <2>1. f \in [0 .. WordSize -> Nat] /\ f[0] = n
          /\ \A i \in 1 .. WordSize : f[i] = step[i][f[i - 1]]
        BY <1>3 DEF Iterates
    <2>2. ASSUME NEW i \in 0 .. WordSize
          PROVE  f[i] = IF i = 0 THEN n ELSE f[i - 1] \div Base
        <3>1. CASE i = 0
            BY <2>1, <3>1
        <3>2. CASE i # 0
            <4>1. i \in 1 .. WordSize /\ i - 1 \in 0 .. WordSize
                BY <1>1, <3>2
            <4>2. f[i - 1] \in Nat
                BY <2>1, <4>1
            <4>3. QED
                BY <1>2, <2>1, <3>2, <4>1, <4>2
        <3>3. QED
            BY <3>1, <3>2
    <2>3. QED
        BY <2>1, <2>2 DEF Divides
<1> DEFINE g == CHOOSE left : Divides(left, n)
<1>5. Divides(g, n)
    BY <1>4
<1>6. Word(n) = [i \in 1 .. WordSize |-> g[i - 1] % Base]
    BY DEF Word, Divides
<1>7. QED
    BY <1>5, <1>6

\* Reading bytes from the most significant one: each prefix stands for a number.
LEMMA Topped ==
    ASSUME NEW word \in [1 .. WordSize -> Byte], NEW top, Tops(top, word)
    PROVE  /\ top[0] = 0
           /\ \A i \in 1 .. WordSize : top[i] = word[WordSize + 1 - i] + Base * top[i - 1]
           /\ \A i \in 0 .. WordSize : top[i] \in Nat
<1>1. WordSize \in Nat /\ Base \in Nat
    BY RequestsAssumption
<1>2. \A i \in 0 .. WordSize :
         top[i] = IF i = 0 THEN 0 ELSE word[WordSize + 1 - i] + Base * top[i - 1]
    <2> DEFINE F == [i \in 0 .. WordSize |->
                        IF i = 0 THEN 0 ELSE word[WordSize + 1 - i] + Base * top[i - 1]]
    <2>1. \A i \in 0 .. WordSize :
             F[i] = IF i = 0 THEN 0 ELSE word[WordSize + 1 - i] + Base * top[i - 1]
        OBVIOUS
    <2>2. top = F
        BY DEF Tops
    <2> HIDE DEF F
    <2>3. QED
        BY <2>1, <2>2
<1>3. /\ top[0] = 0
      /\ \A i \in 1 .. WordSize : top[i] = word[WordSize + 1 - i] + Base * top[i - 1]
    BY <1>1, <1>2
<1> DEFINE T == {i \in Nat : i <= WordSize => top[i] \in Nat}
<1>4. 0 \in T
    BY <1>3
<1>5. ASSUME NEW i \in Nat, i \in T PROVE i + 1 \in T
    <2> SUFFICES ASSUME i + 1 <= WordSize PROVE top[i + 1] \in Nat
        OBVIOUS
    <2> DEFINE j == WordSize + 1 - (i + 1)
    <2>1. i + 1 \in 1 .. WordSize /\ i + 1 - 1 = i /\ i <= WordSize /\ j \in 1 .. WordSize
        BY <1>1
    <2>2. top[i] \in Nat /\ top[i + 1] = word[j] + Base * top[i]
        BY <1>3, <1>5, <2>1
    <2>3. word[j] \in Nat
        BY <2>1 DEF Byte
    <2> HIDE DEF j
    <2>4. QED
        BY <1>1, <2>2, <2>3
<1>6. \A i \in Nat : i \in T
    <2> HIDE DEF T
    <2>1. QED
        BY <1>4, <1>5, Induction
<1>7. QED
    BY <1>1, <1>3, <1>6

\* The integer that bytes stand for is made of sums.
LEMMA ValueIs ==
    ASSUME NEW word \in [1 .. WordSize -> Byte]
    PROVE  \E top : Tops(top, word) /\ Value(word) = top[WordSize]
<1>1. WordSize \in Nat /\ Base \in Nat
    BY RequestsAssumption
<1> DEFINE step == [i \in 1 .. WordSize |-> [m \in Nat |-> word[WordSize + 1 - i] + Base * m]]
<1>2. ASSUME NEW i \in 1 .. WordSize, NEW m \in Nat
      PROVE  word[WordSize + 1 - i] + Base * m \in Nat
    <2>1. WordSize + 1 - i \in 1 .. WordSize
        BY <1>1
    <2>2. word[WordSize + 1 - i] \in Nat
        BY <2>1 DEF Byte
    <2>3. Base * m \in Nat
        BY <1>1
    <2>4. QED
        BY <2>2, <2>3
<1>3. /\ step \in [1 .. WordSize -> [Nat -> Nat]]
      /\ \A i \in 1 .. WordSize, m \in Nat : step[i][m] = word[WordSize + 1 - i] + Base * m
    BY <1>2
<1> HIDE DEF step
<1>4. PICK f : Iterates(f, WordSize, Nat, 0, step)
    BY <1>1, <1>3, Primitive
<1>5. Tops(f, word)
    <2>1. f \in [0 .. WordSize -> Nat] /\ f[0] = 0
          /\ \A i \in 1 .. WordSize : f[i] = step[i][f[i - 1]]
        BY <1>4 DEF Iterates
    <2>2. ASSUME NEW i \in 0 .. WordSize
          PROVE  f[i] = IF i = 0 THEN 0 ELSE word[WordSize + 1 - i] + Base * f[i - 1]
        <3>1. CASE i = 0
            BY <2>1, <3>1
        <3>2. CASE i # 0
            <4>1. i \in 1 .. WordSize /\ i - 1 \in 0 .. WordSize
                BY <1>1, <3>2
            <4>2. f[i - 1] \in Nat
                BY <2>1, <4>1
            <4>3. QED
                BY <1>3, <2>1, <3>2, <4>1, <4>2
        <3>3. QED
            BY <3>1, <3>2
    <2>3. QED
        BY <2>1, <2>2 DEF Tops
<1> DEFINE g == CHOOSE top : Tops(top, word)
<1>6. Tops(g, word)
    BY <1>5
<1>7. Value(word) = g[WordSize]
    BY DEF Value, Tops
<1>8. QED
    BY <1>6, <1>7

\* The powers of the base.
LEMMA Powers ==
    /\ Power[0] = 1
    /\ \A i \in 1 .. WordSize : Power[i] = Base * Power[i - 1]
    /\ \A i \in 0 .. WordSize : Power[i] \in Nat
<1>1. WordSize \in Nat /\ Base \in Nat
    BY RequestsAssumption
<1> DEFINE Raises(f) == f = [i \in 0 .. WordSize |-> IF i = 0 THEN 1 ELSE Base * f[i - 1]]
           step == [i \in 1 .. WordSize |-> [m \in Nat |-> Base * m]]
<1>2. /\ step \in [1 .. WordSize -> [Nat -> Nat]]
      /\ \A i \in 1 .. WordSize, m \in Nat : step[i][m] = Base * m
    BY <1>1
<1> HIDE DEF step
<1>3. PICK f : Iterates(f, WordSize, Nat, 1, step)
    BY <1>1, <1>2, Primitive
<1>4. f \in [0 .. WordSize -> Nat] /\ f[0] = 1
      /\ \A i \in 1 .. WordSize : f[i] = step[i][f[i - 1]]
    BY <1>3 DEF Iterates
<1>5. Raises(f)
    <2>1. ASSUME NEW i \in 0 .. WordSize PROVE f[i] = IF i = 0 THEN 1 ELSE Base * f[i - 1]
        <3>1. CASE i = 0
            BY <1>4, <3>1
        <3>2. CASE i # 0
            <4>1. i \in 1 .. WordSize /\ i - 1 \in 0 .. WordSize
                BY <1>1, <3>2
            <4>2. f[i - 1] \in Nat
                BY <1>4, <4>1
            <4>3. QED
                BY <1>2, <1>4, <3>2, <4>1, <4>2
        <3>3. QED
            BY <3>1, <3>2
    <2>2. QED
        BY <1>4, <2>1
<1>6. Raises(Power)
    <2> DEFINE g == CHOOSE h : Raises(h)
    <2>1. Raises(g)
        BY <1>5
    <2>2. Power = g
        BY DEF Power
    <2> HIDE DEF Raises, g
    <2>3. QED
        BY <2>1, <2>2
<1>7. \A i \in 0 .. WordSize : Power[i] = IF i = 0 THEN 1 ELSE Base * Power[i - 1]
    <2> DEFINE g == Power
    <2>1. g = [i \in 0 .. WordSize |-> IF i = 0 THEN 1 ELSE Base * g[i - 1]]
        BY <1>6
    <2> HIDE DEF g
    <2>2. \A i \in 0 .. WordSize : g[i] = IF i = 0 THEN 1 ELSE Base * g[i - 1]
        <3> DEFINE F == [i \in 0 .. WordSize |-> IF i = 0 THEN 1 ELSE Base * g[i - 1]]
        <3>1. \A i \in 0 .. WordSize : F[i] = IF i = 0 THEN 1 ELSE Base * g[i - 1]
            OBVIOUS
        <3>2. g = F
            BY <2>1
        <3> HIDE DEF F
        <3>3. QED
            BY <3>1, <3>2
    <2>3. QED
        BY <2>2 DEF g
<1> HIDE DEF Raises
<1>8. Power[0] = 1 /\ \A i \in 1 .. WordSize : Power[i] = Base * Power[i - 1]
    BY <1>1, <1>7
<1> DEFINE T == {i \in Nat : i <= WordSize => Power[i] \in Nat}
<1>9. 0 \in T
    BY <1>8
<1>10. ASSUME NEW i \in Nat, i \in T PROVE i + 1 \in T
    <2> SUFFICES ASSUME i + 1 <= WordSize PROVE Power[i + 1] \in Nat
        OBVIOUS
    <2>1. i + 1 \in 1 .. WordSize /\ i + 1 - 1 = i /\ i <= WordSize
        BY <1>1
    <2>2. Power[i] \in Nat /\ Power[i + 1] = Base * Power[i]
        BY <1>8, <1>10, <2>1
    <2>3. QED
        BY <1>1, <2>2
<1>11. \A i \in Nat : i \in T
    <2> HIDE DEF T
    <2>1. QED
        BY <1>9, <1>10, Induction
<1>12. QED
    BY <1>1, <1>8, <1>11

\* Products, for the lemma below: p * a <= n is kept by one more division.
LEMMA Divide ==
    ASSUME NEW p \in Nat, NEW a \in Nat, NEW n \in Nat, p * a <= n
    PROVE  (Base * p) * (a \div Base) <= n
<1> DEFINE q == a \div Base
           r == a % Base
<1>1. Base \in Nat /\ q \in Nat /\ r \in Nat /\ a = r + Base * q
    BY DivideOnce, RequestsAssumption DEF Byte
<1> HIDE DEF q, r
<1>2. p * a = p * r + p * (Base * q)
    BY <1>1
<1>3. p * (Base * q) = (Base * p) * q
    BY <1>1
<1>4. p * r \in Nat /\ p * (Base * q) \in Nat
    BY <1>1
<1>5. QED
    BY <1>2, <1>3, <1>4 DEF q

\* A product is no smaller than its factor.
LEMMA TimesPositive ==
    ASSUME NEW p \in Nat, NEW a \in Nat, a # 0
    PROVE  p <= p * a
<1>1. p * a = p + p * (a - 1) /\ a - 1 \in Nat
    OBVIOUS
<1>2. p * (a - 1) \in Nat
    BY <1>1
<1>3. QED
    BY <1>1, <1>2

\* An integer in memory has its bytes.
LEMMA WordTyped ==
    ASSUME NEW n \in Nat
    PROVE  Word(n) \in [1 .. WordSize -> Byte] /\ Word(n) \in Seq(Byte) /\ Len(Word(n)) = WordSize
<1>1. WordSize \in Nat
    BY RequestsAssumption
<1>2. PICK left : Divides(left, n) /\ Word(n) = [i \in 1 .. WordSize |-> left[i - 1] % Base]
    BY WordIs
<1>3. ASSUME NEW i \in 1 .. WordSize PROVE left[i - 1] % Base \in Byte
    <2>1. i - 1 \in 0 .. WordSize
        BY <1>1
    <2>2. left[i - 1] \in Nat
        BY <1>2, <2>1, Divided
    <2>3. QED
        BY <2>2, DivideOnce
<1>4. Word(n) \in [1 .. WordSize -> Byte]
    BY <1>2, <1>3
<1>5. QED
    BY <1>1, <1>4, SeqDef

\* Reading an integer that was written gives it back, where the bytes suffice.
LEMMA ValueOfWord ==
    ASSUME NEW n \in Nat, n < Power[WordSize]
    PROVE  Value(Word(n)) = n
<1>1. WordSize \in Nat /\ Base \in Nat
    BY RequestsAssumption
<1>2. PICK left : Divides(left, n) /\ Word(n) = [i \in 1 .. WordSize |-> left[i - 1] % Base]
    BY WordIs
<1>3. /\ left[0] = n
      /\ \A i \in 1 .. WordSize : left[i] = left[i - 1] \div Base
      /\ \A i \in 0 .. WordSize : left[i] \in Nat
    BY <1>2, Divided
<1>4. left[WordSize] = 0
    <2> DEFINE T == {i \in Nat : i <= WordSize => Power[i] * left[i] <= n}
    <2>1. 0 \in T
        BY <1>1, <1>3, Powers
    <2>2. ASSUME NEW i \in Nat, i \in T PROVE i + 1 \in T
        <3> SUFFICES ASSUME i + 1 <= WordSize PROVE Power[i + 1] * left[i + 1] <= n
            OBVIOUS
        <3>1. i + 1 \in 1 .. WordSize /\ i + 1 - 1 = i /\ i <= WordSize /\ i \in 0 .. WordSize
            BY <1>1
        <3>2. left[i + 1] = left[i] \div Base /\ left[i] \in Nat
            BY <1>3, <3>1
        <3>3. Power[i + 1] = Base * Power[i] /\ Power[i] \in Nat
            BY <3>1, Powers
        <3>4. Power[i] * left[i] <= n
            BY <2>2, <3>1
        <3>5. QED
            BY <3>2, <3>3, <3>4, Divide
    <2>3. \A i \in Nat : i \in T
        <3> HIDE DEF T
        <3>1. QED
            BY <2>1, <2>2, Induction
    <2>4. Power[WordSize] * left[WordSize] <= n
        BY <1>1, <2>3
    <2>5. Power[WordSize] \in Nat /\ left[WordSize] \in Nat
        BY <1>1, <1>3, Powers
    <2>6. left[WordSize] # 0 => Power[WordSize] <= Power[WordSize] * left[WordSize]
        BY <2>5, TimesPositive
    <2>7. Power[WordSize] * left[WordSize] \in Nat
        BY <2>5
    <2>8. QED
        BY <2>4, <2>5, <2>6, <2>7
<1>5. PICK top : Tops(top, Word(n)) /\ Value(Word(n)) = top[WordSize]
    BY WordTyped, ValueIs
<1>6. /\ top[0] = 0
      /\ \A i \in 1 .. WordSize : top[i] = Word(n)[WordSize + 1 - i] + Base * top[i - 1]
    BY <1>5, WordTyped, Topped
<1> DEFINE T == {j \in Nat : j <= WordSize => top[j] = left[WordSize - j]}
<1>7. 0 \in T
    BY <1>1, <1>4, <1>6
<1>8. ASSUME NEW j \in Nat, j \in T PROVE j + 1 \in T
    <2> SUFFICES ASSUME j + 1 <= WordSize PROVE top[j + 1] = left[WordSize - (j + 1)]
        OBVIOUS
    <2> DEFINE i == WordSize - j
    <2>1. /\ j + 1 \in 1 .. WordSize /\ j + 1 - 1 = j /\ j <= WordSize
          /\ i \in 1 .. WordSize /\ WordSize + 1 - (j + 1) = i /\ WordSize - (j + 1) = i - 1
          /\ i - 1 \in 0 .. WordSize
        BY <1>1
    <2>2. top[j + 1] = Word(n)[i] + Base * top[j] /\ top[j] = left[i]
        BY <1>6, <1>8, <2>1
    <2> HIDE DEF i
    <2>3. Word(n)[i] = left[i - 1] % Base /\ left[i] = left[i - 1] \div Base /\ left[i - 1] \in Nat
        BY <1>2, <1>3, <2>1
    <2>4. left[i - 1] = (left[i - 1] % Base) + Base * (left[i - 1] \div Base)
        BY <2>3, DivideOnce
    <2>5. QED
        BY <2>1, <2>2, <2>3, <2>4
<1>9. \A j \in Nat : j \in T
    <2> HIDE DEF T
    <2>1. QED
        BY <1>7, <1>8, Induction
<1>10. top[WordSize] = left[0]
    BY <1>1, <1>9
<1>11. QED
    BY <1>3, <1>5, <1>10

\* A division takes the last digit off.
LEMMA LastDigit ==
    ASSUME NEW d \in Byte, NEW m \in Nat
    PROVE  (d + Base * m) \div Base = m /\ (d + Base * m) % Base = d
<1>1. Base \in Nat \ {0} /\ d \in 0 .. Base - 1
    BY RequestsAssumption DEF Byte
<1>2. QED
    BY <1>1

\* Bytes are those of the integer they stand for.
LEMMA WordOfValue ==
    ASSUME NEW word \in [1 .. WordSize -> Byte]
    PROVE  Value(word) \in Nat /\ Word(Value(word)) = word
<1>1. WordSize \in Nat /\ Base \in Nat
    BY RequestsAssumption
<1>2. PICK top : Tops(top, word) /\ Value(word) = top[WordSize]
    BY ValueIs
<1>3. /\ top[0] = 0
      /\ \A i \in 1 .. WordSize : top[i] = word[WordSize + 1 - i] + Base * top[i - 1]
      /\ \A i \in 0 .. WordSize : top[i] \in Nat
    BY <1>2, Topped
<1> DEFINE n == Value(word)
<1>4. n \in Nat /\ n = top[WordSize]
    BY <1>1, <1>2, <1>3
<1> HIDE DEF n
<1>5. PICK left : Divides(left, n) /\ Word(n) = [i \in 1 .. WordSize |-> left[i - 1] % Base]
    BY <1>4, WordIs
<1>6. /\ left[0] = n
      /\ \A i \in 1 .. WordSize : left[i] = left[i - 1] \div Base
      /\ \A i \in 0 .. WordSize : left[i] \in Nat
    BY <1>4, <1>5, Divided
\* One digit.
<1>7. ASSUME NEW i \in 1 .. WordSize
      PROVE  /\ top[WordSize - (i - 1)] \div Base = top[WordSize - i]
             /\ top[WordSize - (i - 1)] % Base = word[i]
    <2> DEFINE j == WordSize - (i - 1)
               d == word[i]
               m == top[WordSize - i]
    <2>1. j \in 1 .. WordSize /\ WordSize + 1 - j = i /\ j - 1 = WordSize - i /\ j - 1 \in 0 .. WordSize
        BY <1>1
    <2>2. top[j] = d + Base * m /\ m \in Nat /\ d \in Byte
        BY <1>3, <2>1
    <2> HIDE DEF j, d, m
    <2>3. (d + Base * m) \div Base = m /\ (d + Base * m) % Base = d
        BY <2>2, LastDigit
    <2>4. QED
        BY <2>2, <2>3 DEF j, d, m
<1> DEFINE T == {i \in Nat : i <= WordSize => left[i] = top[WordSize - i]}
<1>8. 0 \in T
    BY <1>1, <1>4, <1>6
<1>9. ASSUME NEW i \in Nat, i \in T PROVE i + 1 \in T
    <2> SUFFICES ASSUME i + 1 <= WordSize PROVE left[i + 1] = top[WordSize - (i + 1)]
        OBVIOUS
    <2>1. i + 1 \in 1 .. WordSize /\ i + 1 - 1 = i /\ i <= WordSize
        BY <1>1
    <2>2. left[i + 1] = left[i] \div Base /\ left[i] = top[WordSize - i]
        BY <1>6, <1>9, <2>1
    <2>3. QED
        BY <1>7, <2>1, <2>2
<1>10. \A i \in Nat : i \in T
    <2> HIDE DEF T
    <2>1. QED
        BY <1>8, <1>9, Induction
<1>11. ASSUME NEW i \in 1 .. WordSize PROVE Word(n)[i] = word[i]
    <2>1. i - 1 \in Nat /\ i - 1 <= WordSize
        BY <1>1
    <2>2. left[i - 1] = top[WordSize - (i - 1)]
        BY <1>10, <2>1
    <2>3. QED
        BY <1>5, <1>7, <2>2
<1>12. Word(n) = word
    BY <1>4, <1>11, WordTyped
<1>13. QED
    BY <1>4, <1>12 DEF n
------------------------------------------------------------------------------
(* Texts one after the other.                                              *)

\* flat[i] is the first i of the sequences s in one.
Flattens(flat, s) ==
    flat = [i \in 1 .. Len(s) |-> IF i = 1 THEN s[i] ELSE flat[i - 1] \o s[i]]

Joins(f, s, S) ==
    /\ f[0] = <<>>
    /\ \A i \in 1 .. Len(s) : f[i] = f[i - 1] \o s[i]
    /\ \A i \in 0 .. Len(s) : f[i] \in Seq(S)

\* FlattenSeq joins one piece after the other: the recursion it is written with has
\* a solution, which it picks.
LEMMA Flattened ==
    ASSUME NEW S, NEW s \in Seq(Seq(S))
    PROVE  \E f : Joins(f, s, S) /\ FlattenSeq(s) = f[Len(s)]
<1> DEFINE N == Len(s)
<1>1. N \in Nat /\ <<>> \in Seq(S) /\ \A i \in 1 .. N : s[i] \in Seq(S)
    BY ElementOfSeq, EmptySeq
<1> DEFINE step == [i \in 1 .. N |-> [v \in Seq(S) |-> v \o s[i]]]
<1>2. /\ step \in [1 .. N -> [Seq(S) -> Seq(S)]]
      /\ \A i \in 1 .. N, v \in Seq(S) : step[i][v] = v \o s[i]
    BY <1>1, ConcatProperties
<1> HIDE DEF step
<1>3. PICK f : Iterates(f, N, Seq(S), <<>>, step)
    <2> HIDE DEF N
    <2>1. QED
        BY <1>1, <1>2, Primitive
<1>4. /\ f \in [0 .. N -> Seq(S)] /\ f[0] = <<>>
      /\ \A i \in 1 .. N : f[i - 1] \in Seq(S) /\ f[i] = f[i - 1] \o s[i]
    <2>1. /\ f \in [0 .. N -> Seq(S)] /\ f[0] = <<>>
          /\ \A i \in 1 .. N : f[i] = step[i][f[i - 1]]
        BY <1>3 DEF Iterates
    <2>2. \A i \in 1 .. N : i - 1 \in 0 .. N
        BY <1>1
    <2> HIDE DEF N
    <2>3. QED
        BY <1>2, <2>1, <2>2
<1>5. CASE N = 0
    <2>1. s = <<>>
        BY <1>5
    <2>2. FlattenSeq(s) = <<>>
        BY <2>1 DEF FlattenSeq
    <2>3. Joins(f, s, S)
        BY <1>4, <1>5 DEF Joins
    <2>4. QED
        BY <1>4, <1>5, <2>2, <2>3
<1>6. CASE N # 0
    <2> DEFINE h == [i \in 1 .. N |-> f[i]]
    <2>1. Flattens(h, s)
        <3>1. ASSUME NEW i \in 1 .. N PROVE h[i] = IF i = 1 THEN s[i] ELSE h[i - 1] \o s[i]
            <4>1. CASE i = 1
                <5>1. f[1] = <<>> \o s[1] /\ h[1] = f[1]
                    <6>1. 1 \in 1 .. N /\ 1 - 1 = 0
                        BY <4>1
                    <6>2. QED
                        BY <1>4, <6>1
                <5>2. QED
                    BY <1>1, <4>1, <5>1, ConcatEmptySeq
            <4>2. CASE i # 1
                <5>1. i - 1 \in 1 .. N
                    BY <1>1, <4>2
                <5>2. QED
                    BY <1>4, <4>2, <5>1
            <4>3. QED
                BY <4>1, <4>2
        <3>2. QED
            BY <3>1 DEF Flattens
    <2> DEFINE g == CHOOSE flat : Flattens(flat, s)
               e == [i \in 0 .. N |-> IF i = 0 THEN <<>> ELSE g[i]]
    <2>2. Flattens(g, s)
        BY <2>1
    <2>3. FlattenSeq(s) = g[N]
        BY <1>6 DEF FlattenSeq, Flattens
    <2> HIDE DEF g
    <2>4. \A i \in 1 .. N : g[i] = IF i = 1 THEN s[i] ELSE g[i - 1] \o s[i]
        <3> DEFINE F == [i \in 1 .. N |-> IF i = 1 THEN s[i] ELSE g[i - 1] \o s[i]]
        <3>1. \A i \in 1 .. N : F[i] = IF i = 1 THEN s[i] ELSE g[i - 1] \o s[i]
            OBVIOUS
        <3>2. g = F
            BY <2>2 DEF Flattens
        <3> HIDE DEF F
        <3>3. QED
            BY <3>1, <3>2
    <2>5. e[0] = <<>> /\ \A i \in 1 .. N : e[i] = g[i]
        BY <1>1
    <2>6. ASSUME NEW i \in 1 .. N PROVE e[i] = e[i - 1] \o s[i]
        <3>1. CASE i = 1
            BY <1>1, <2>4, <2>5, <3>1, ConcatEmptySeq
        <3>2. CASE i # 1
            <4>1. i - 1 \in 1 .. N
                BY <1>1, <3>2
            <4> HIDE DEF e, N
            <4>2. QED
                BY <2>4, <2>5, <3>2, <4>1
        <3>3. QED
            BY <3>1, <3>2
    <2> HIDE DEF e
    <2> DEFINE T == {i \in 0 .. N : e[i] \in Seq(S)}
    <2>7. 0 \in T
        <3>1. 0 \in 0 .. N /\ e[0] \in Seq(S)
            BY <1>1, <2>5
        <3> HIDE DEF N
        <3>2. QED
            BY <3>1
    <2>8. ASSUME NEW i \in 1 .. N, i - 1 \in T PROVE i \in T
        <3>1. e[i - 1] \in Seq(S) /\ s[i] \in Seq(S) /\ i \in 0 .. N
            BY <1>1, <2>8
        <3>2. e[i] = e[i - 1] \o s[i]
            BY <2>6
        <3>3. QED
            BY <3>1, <3>2, ConcatProperties
    <2>9. \A i \in 0 .. N : e[i] \in Seq(S)
        <3>1. \A i \in 0 .. N : i \in T
            <4> HIDE DEF T, N
            <4>1. QED
                BY <1>1, <2>7, <2>8, InductionUpTo
        <3>2. QED
            BY <3>1
    <2>10. Joins(e, s, S)
        BY <2>5, <2>6, <2>9 DEF Joins
    <2>11. N \in 1 .. N
        BY <1>1, <1>6
    <2>12. QED
        BY <2>3, <2>5, <2>10, <2>11
<1>7. QED
    BY <1>5, <1>6

\* Nothing joined is nothing.
LEMMA FlattenEmpty == FlattenSeq(<<>>) = <<>>
BY DEF FlattenSeq

\* Sequences over a set are joined to a sequence over it.
LEMMA FlattenTyped ==
    ASSUME NEW S, NEW s \in Seq(Seq(S))
    PROVE  FlattenSeq(s) \in Seq(S)
<1>1. PICK f : Joins(f, s, S) /\ FlattenSeq(s) = f[Len(s)]
    BY Flattened
<1>2. Len(s) \in 0 .. Len(s)
    OBVIOUS
<1>3. QED
    BY <1>1, <1>2 DEF Joins

\* The first text comes first.
LEMMA FlattenCons ==
    ASSUME NEW S, NEW x \in Seq(S), NEW s \in Seq(Seq(S))
    PROVE  FlattenSeq(<<x>> \o s) = x \o FlattenSeq(s)
<1> DEFINE t == <<x>> \o s
           N == Len(s)
<1>1. /\ N \in Nat /\ t \in Seq(Seq(S)) /\ Len(t) = N + 1 /\ t[1] = x
      /\ \A i \in 1 .. N : t[i + 1] = s[i] /\ s[i] \in Seq(S)
    <2>1. <<x>> \in Seq(Seq(S)) /\ Len(<<x>>) = 1 /\ <<x>>[1] = x
        OBVIOUS
    <2>2. /\ t \in Seq(Seq(S)) /\ Len(t) = 1 + N
          /\ \A i \in 1 .. 1 + N : t[i] = IF i <= 1 THEN <<x>>[i] ELSE s[i - 1]
        BY <2>1, ConcatProperties
    <2>3. N \in Nat /\ \A i \in 1 .. N : s[i] \in Seq(S)
        BY ElementOfSeq
    <2> HIDE DEF t, N
    <2>4. \A i \in 1 .. N : i + 1 \in 1 .. 1 + N /\ ~(i + 1 <= 1) /\ i + 1 - 1 = i
        BY <2>3
    <2>5. \A i \in 1 .. N : t[i + 1] = s[i]
        BY <2>2, <2>4
    <2>6. 1 \in 1 .. 1 + N
        BY <2>3
    <2>7. QED
        BY <2>1, <2>2, <2>3, <2>5, <2>6
<1>2. PICK f : Joins(f, s, S) /\ FlattenSeq(s) = f[N]
    BY Flattened
<1>3. PICK g : Joins(g, t, S) /\ FlattenSeq(t) = g[N + 1]
    BY <1>1, Flattened
<1>4. /\ f[0] = <<>> /\ g[0] = <<>> /\ g[1] = g[0] \o x
      /\ \A i \in 1 .. N : f[i] = f[i - 1] \o s[i]
      /\ \A i \in 0 .. N : f[i] \in Seq(S)
      /\ \A i \in 1 .. N : g[i + 1] = g[i] \o s[i]
    <2>1. f[0] = <<>> /\ \A i \in 0 .. N : f[i] \in Seq(S)
        BY <1>2 DEF Joins
    <2>2. \A i \in 1 .. N : f[i] = f[i - 1] \o s[i]
        BY <1>2 DEF Joins
    <2>3. g[0] = <<>> /\ \A i \in 1 .. N + 1 : g[i] = g[i - 1] \o t[i]
        BY <1>1, <1>3 DEF Joins
    <2>4. 1 \in 1 .. N + 1 /\ 1 - 1 = 0 /\ \A i \in 1 .. N : i + 1 \in 1 .. N + 1 /\ i + 1 - 1 = i
        BY <1>1
    <2> HIDE DEF N, t
    <2>5. g[1] = g[0] \o x
        BY <1>1, <2>3, <2>4
    <2>6. ASSUME NEW i \in 1 .. N PROVE g[i + 1] = g[i] \o s[i]
        <3> DEFINE k == i + 1
        <3>1. k \in 1 .. N + 1 /\ k - 1 = i /\ t[k] = s[i]
            BY <1>1, <2>4
        <3> HIDE DEF k
        <3>2. g[k] = g[k - 1] \o t[k]
            BY <2>3, <3>1
        <3>3. QED
            BY <3>1, <3>2 DEF k
    <2>7. QED
        BY <2>1, <2>2, <2>3, <2>5, <2>6
<1> HIDE DEF t, N
<1> DEFINE T == {i \in 0 .. N : g[i + 1] = x \o f[i]}
<1>5. 0 \in T
    <2>1. <<>> \o x = x /\ x \o <<>> = x /\ 0 + 1 = 1
        BY ConcatEmptySeq
    <2>2. g[0 + 1] = x \o f[0]
        BY <1>4, <2>1
    <2>3. QED
        BY <1>1, <2>2
<1>6. \A a, b \in Seq(S) : (x \o a) \o b = x \o (a \o b)
    BY ConcatAssociative
<1>7. ASSUME NEW i \in 1 .. N, i - 1 \in T PROVE i \in T
    <2>1. i - 1 \in 0 .. N /\ i \in 0 .. N /\ i - 1 + 1 = i
        BY <1>1
    <2>2. g[i] = x \o f[i - 1]
        BY <1>7, <2>1
    <2>3. g[i + 1] = g[i] \o s[i] /\ f[i] = f[i - 1] \o s[i]
        BY <1>4
    <2>4. f[i - 1] \in Seq(S) /\ s[i] \in Seq(S)
        BY <1>1, <1>4, <2>1
    <2>5. (x \o f[i - 1]) \o s[i] = x \o (f[i - 1] \o s[i])
        BY <1>6, <2>4
    <2>6. g[i + 1] = x \o f[i]
        BY <2>2, <2>3, <2>5
    <2>7. QED
        BY <2>1, <2>6
<1>8. \A i \in 0 .. N : i \in T
    <2> HIDE DEF T
    <2>1. QED
        BY <1>1, <1>5, <1>7, InductionUpTo
<1>9. g[N + 1] = x \o f[N]
    <2>1. N \in 0 .. N
        BY <1>1
    <2>2. N \in T
        BY <1>8, <2>1
    <2>3. QED
        BY <2>2
<1>10. QED
    BY <1>2, <1>3, <1>9 DEF t
------------------------------------------------------------------------------
(* Messages.                                                               *)

Texts == Seq(Byte)

Fields(command) == [i \in DOMAIN command |-> Field(command[i])]

Body(command) == FlattenSeq(Fields(command))

\* An argument takes a length and its bytes.
LEMMA FieldTyped ==
    ASSUME NEW text \in Texts
    PROVE  Field(text) \in Texts /\ Len(Field(text)) = WordSize + Len(text)
<1>1. /\ Len(text) \in Nat /\ Word(Len(text)) \in Seq(Byte)
      /\ Len(Word(Len(text))) = WordSize
    BY WordTyped DEF Texts
<1>2. QED
    BY <1>1, ConcatProperties DEF Field, Texts

\* The arguments of a command, one by one.
LEMMA FieldsTyped ==
    ASSUME NEW command \in Seq(Texts)
    PROVE  /\ Fields(command) \in Seq(Texts) /\ Len(Fields(command)) = Len(command)
           /\ \A i \in 1 .. Len(command) : Fields(command)[i] = Field(command[i])
<1> DEFINE N == Len(command)
           f == Fields(command)
<1>1. N \in Nat /\ DOMAIN command = 1 .. N /\ \A i \in 1 .. N : command[i] \in Texts
    BY LenProperties, ElementOfSeq
<1>2. f = [i \in 1 .. N |-> Field(command[i])]
    BY <1>1 DEF Fields
<1>3. f \in [1 .. N -> Texts]
    BY <1>1, <1>2, FieldTyped
<1> HIDE DEF f, N
<1>4. f \in Seq(Texts) /\ Len(f) = N
    BY <1>1, <1>3, SeqDef
<1>5. QED
    BY <1>2, <1>4 DEF f, N

\* What follows the count in a message is bytes.
LEMMA BodyTyped ==
    ASSUME NEW command \in Seq(Texts)
    PROVE  Body(command) \in Texts
<1>1. Fields(command) \in Seq(Seq(Byte))
    BY FieldsTyped DEF Texts
<1>2. QED
    BY <1>1, FlattenTyped DEF Body, Texts

\* A command without words has nothing behind the count.
LEMMA BodyEmpty == Body(<<>>) = <<>>
<1>1. Fields(<<>>) = <<>>
    BY DEF Fields
<1>2. QED
    BY <1>1, FlattenEmpty DEF Body

\* A command with one more text in front.
LEMMA ConsFacts ==
    ASSUME NEW S, NEW x \in S, NEW s \in Seq(S)
    PROVE  /\ <<x>> \o s \in Seq(S) /\ Len(<<x>> \o s) = Len(s) + 1 /\ (<<x>> \o s)[1] = x
           /\ \A i \in 2 .. Len(s) + 1 : (<<x>> \o s)[i] = s[i - 1]
<1> DEFINE t == <<x>> \o s
           N == Len(s)
<1>1. <<x>> \in Seq(S) /\ Len(<<x>>) = 1 /\ <<x>>[1] = x /\ N \in Nat
    OBVIOUS
<1>2. /\ t \in Seq(S) /\ Len(t) = 1 + N
      /\ \A i \in 1 .. 1 + N : t[i] = IF i <= 1 THEN <<x>>[i] ELSE s[i - 1]
    BY <1>1, ConcatProperties
<1> HIDE DEF t, N
<1>3. \A i \in 2 .. N + 1 : i \in 1 .. 1 + N /\ ~(i <= 1)
    BY <1>1
<1>4. 1 \in 1 .. 1 + N
    BY <1>1
<1>5. t[1] = x /\ \A i \in 2 .. N + 1 : t[i] = s[i - 1]
    BY <1>1, <1>2, <1>3, <1>4
<1>6. Len(t) = N + 1
    BY <1>1, <1>2
<1>7. QED
    BY <1>2, <1>5, <1>6 DEF t, N

\* A command's first word comes first in its message.
LEMMA BodyCons ==
    ASSUME NEW text \in Texts, NEW command \in Seq(Texts)
    PROVE  Body(<<text>> \o command) = Field(text) \o Body(command)
<1> DEFINE c == <<text>> \o command
           x == Field(text)
           f == Fields(command)
           N == Len(command)
<1>1. /\ c \in Seq(Texts) /\ Len(c) = N + 1 /\ c[1] = text
      /\ \A i \in 2 .. N + 1 : c[i] = command[i - 1]
    BY ConsFacts
<1>2. x \in Texts /\ f \in Seq(Texts) /\ Len(f) = N /\ N \in Nat
      /\ \A i \in 1 .. N : f[i] = Field(command[i])
    BY FieldTyped, FieldsTyped
<1>3. /\ <<x>> \o f \in Seq(Texts) /\ Len(<<x>> \o f) = N + 1 /\ (<<x>> \o f)[1] = x
      /\ \A i \in 2 .. N + 1 : (<<x>> \o f)[i] = f[i - 1]
    <2> HIDE DEF x, f, N
    <2>1. QED
        BY <1>2, ConsFacts
<1> HIDE DEF c
<1>4. /\ Fields(c) \in Seq(Texts) /\ Len(Fields(c)) = N + 1
      /\ \A i \in 1 .. N + 1 : Fields(c)[i] = Field(c[i])
    BY <1>1, FieldsTyped
<1>5. ASSUME NEW i \in 1 .. N + 1 PROVE Fields(c)[i] = (<<x>> \o f)[i]
    <2>1. CASE i = 1
        BY <1>1, <1>3, <1>4, <2>1
    <2>2. CASE i # 1
        <3>1. i \in 2 .. N + 1 /\ i - 1 \in 1 .. N
            BY <1>2, <2>2
        <3> HIDE DEF f, x, N
        <3>2. (<<x>> \o f)[i] = f[i - 1] /\ f[i - 1] = Field(command[i - 1])
            BY <1>2, <1>3, <3>1
        <3>3. c[i] = command[i - 1] /\ Fields(c)[i] = Field(c[i])
            BY <1>1, <1>4, <3>1
        <3>4. QED
            BY <3>2, <3>3
    <2>3. QED
        BY <2>1, <2>2
<1> HIDE DEF f, x, N
<1>6. Fields(c) = <<x>> \o f
    BY <1>3, <1>4, <1>5, SeqEqual
<1>7. FlattenSeq(<<x>> \o f) = x \o FlattenSeq(f)
    <2>1. x \in Seq(Byte) /\ f \in Seq(Seq(Byte))
        BY <1>2 DEF Texts
    <2>2. QED
        BY <2>1, FlattenCons
<1>8. QED
    BY <1>6, <1>7 DEF Body, c, x, f

\* A message is the number of words and then each of them.
LEMMA MessageIs ==
    ASSUME NEW command \in Seq(Texts)
    PROVE  /\ Message(command) = Word(Len(command)) \o Body(command)
           /\ Message(command) \in Texts
           /\ Len(Message(command)) = WordSize + Len(Body(command))
<1>1. Message(command) = Word(Len(command)) \o Body(command)
    BY DEF Message, Body, Fields
<1>2. /\ Len(command) \in Nat /\ Word(Len(command)) \in Seq(Byte)
      /\ Len(Word(Len(command))) = WordSize /\ Body(command) \in Seq(Byte)
    BY WordTyped, BodyTyped DEF Texts
<1>3. QED
    BY <1>1, <1>2, ConcatProperties DEF Texts

\* Arithmetic for the lemma below.
LEMMA OneMoreText ==
    ASSUME NEW w \in Nat, NEW a \in Nat, NEW k \in Nat, NEW i \in Nat \ {0}, NEW p \in Int
    PROVE  /\ (w + a) + w + k = w + (a + (w + k))
           /\ p >= w * (i - 1 + 1) => p + w + k >= w * (i + 1)
<1>1. (w + a) + w + k = w + (a + (w + k))
    OBVIOUS
<1>2. w * (i - 1 + 1) = w * i /\ w * (i + 1) = w * i + w /\ w * i \in Int
    OBVIOUS
<1>3. QED
    BY <1>1, <1>2

\* length[i] is that of a message with the first i texts.
Measures(length, command) ==
    length = [i \in 0 .. Len(command) |->
                 IF i = 0 THEN WordSize ELSE length[i - 1] + WordSize + Len(command[i])]

\* What sendRequest computes is the length of the message, and no message is
\* shorter than its count of texts.
LEMMA MessageSize ==
    ASSUME NEW command \in Seq(Texts)
    PROVE  /\ MessageLength(command) = Len(Message(command))
           /\ Len(Message(command)) >= WordSize * (Len(command) + 1)
<1> DEFINE N == Len(command)
           s == Fields(command)
<1>1. /\ N \in Nat /\ WordSize \in Nat
      /\ \A i \in 1 .. N : Len(command[i]) \in Nat /\ command[i] \in Texts
    BY ElementOfSeq, RequestsAssumption DEF Texts
<1>2. /\ s \in Seq(Seq(Byte)) /\ Len(s) = N
      /\ \A i \in 1 .. N : s[i] \in Seq(Byte) /\ Len(s[i]) = WordSize + Len(command[i])
    BY <1>1, FieldsTyped, FieldTyped DEF Texts
<1>3. PICK f : Joins(f, s, Byte) /\ Body(command) = f[N]
    <2>1. PICK f : Joins(f, s, Byte) /\ FlattenSeq(s) = f[Len(s)]
        BY <1>2, Flattened
    <2>2. QED
        BY <1>2, <2>1 DEF Body
<1>4. /\ f[0] = <<>> /\ \A i \in 0 .. N : f[i] \in Seq(Byte)
      /\ \A i \in 1 .. N : f[i] = f[i - 1] \o s[i]
    BY <1>2, <1>3 DEF Joins
<1> HIDE DEF s
<1> DEFINE len == [i \in 0 .. N |-> Len(f[i])]
           k == [i \in 1 .. N |-> Len(command[i])]
<1>5. /\ len \in [0 .. N -> Nat] /\ k \in [1 .. N -> Nat]
      /\ len[0] = 0 /\ len[N] = Len(f[N])
      /\ \A i \in 1 .. N : k[i] = Len(command[i]) /\ len[i] = len[i - 1] + (WordSize + k[i])
    <2>1. \A i \in 0 .. N : Len(f[i]) \in Nat
        BY <1>4
    <2>2. ASSUME NEW i \in 1 .. N PROVE len[i] = len[i - 1] + (WordSize + k[i])
        <3>1. i - 1 \in 0 .. N /\ i \in 0 .. N
            BY <1>1
        <3>2. f[i] = f[i - 1] \o s[i] /\ f[i - 1] \in Seq(Byte) /\ s[i] \in Seq(Byte)
            BY <1>2, <1>4, <3>1
        <3>3. Len(f[i]) = Len(f[i - 1]) + Len(s[i])
            BY <3>2, ConcatProperties
        <3>4. Len(s[i]) = WordSize + k[i] /\ len[i] = Len(f[i]) /\ len[i - 1] = Len(f[i - 1])
            BY <1>2, <3>1
        <3> HIDE DEF len, k
        <3>5. QED
            BY <3>3, <3>4
    <2>3. 0 \in 0 .. N /\ N \in 0 .. N /\ Len(f[0]) = 0
        BY <1>1, <1>4
    <2>4. QED
        BY <1>1, <2>1, <2>2, <2>3
<1> HIDE DEF len, k
<1> DEFINE size == [i \in 0 .. N |-> WordSize + len[i]]
<1>6. Measures(size, command)
    <2>1. ASSUME NEW i \in 0 .. N
          PROVE  size[i] = IF i = 0 THEN WordSize ELSE size[i - 1] + WordSize + Len(command[i])
        <3>1. CASE i = 0
            BY <1>1, <1>5, <3>1
        <3>2. CASE i # 0
            <4>1. i \in 1 .. N /\ i - 1 \in 0 .. N
                BY <1>1, <3>2
            <4>2. /\ size[i] = WordSize + len[i] /\ size[i - 1] = WordSize + len[i - 1]
                  /\ len[i - 1] \in Nat /\ k[i] \in Nat /\ k[i] = Len(command[i])
                  /\ len[i] = len[i - 1] + (WordSize + k[i])
                BY <1>5, <4>1
            <4> HIDE DEF size, N
            <4>3. size[i] = size[i - 1] + WordSize + k[i]
                BY <1>1, <4>2, OneMoreText
            <4>4. QED
                BY <3>2, <4>2, <4>3
        <3>3. QED
            BY <3>1, <3>2
    <2>2. QED
        BY <2>1 DEF Measures
<1> HIDE DEF size
<1> DEFINE g == CHOOSE length : Measures(length, command)
<1>7. Measures(g, command)
    BY <1>6
<1>8. MessageLength(command) = g[N]
    BY DEF MessageLength, Measures
<1> HIDE DEF g
<1>9. \A i \in 0 .. N : g[i] = IF i = 0 THEN WordSize ELSE g[i - 1] + WordSize + Len(command[i])
    <2> DEFINE F == [i \in 0 .. N |->
                        IF i = 0 THEN WordSize ELSE g[i - 1] + WordSize + Len(command[i])]
    <2>1. \A i \in 0 .. N :
             F[i] = IF i = 0 THEN WordSize ELSE g[i - 1] + WordSize + Len(command[i])
        OBVIOUS
    <2>2. g = F
        BY <1>7 DEF Measures
    <2> HIDE DEF F
    <2>3. QED
        BY <2>1, <2>2
<1> HIDE DEF N
<1> DEFINE T == {i \in 0 .. N : g[i] = WordSize + len[i] /\ g[i] >= WordSize * (i + 1)}
<1>10. 0 \in T
    <2>1. 0 \in 0 .. N /\ len[0] = 0 /\ g[0] = WordSize /\ WordSize * (0 + 1) = WordSize
        BY <1>1, <1>5, <1>9
    <2>2. QED
        BY <1>1, <2>1
<1>11. ASSUME NEW i \in 1 .. N, i - 1 \in T PROVE i \in T
    <2>1. i # 0 /\ i \in 0 .. N /\ i - 1 \in 0 .. N /\ i \in Nat \ {0}
        BY <1>1
    <2>2. k[i] = Len(command[i]) /\ len[i] = len[i - 1] + (WordSize + k[i])
          /\ k[i] \in Nat /\ len[i - 1] \in Nat
        BY <1>5, <2>1
    <2>3. g[i] = g[i - 1] + WordSize + k[i]
        BY <1>9, <2>1, <2>2
    <2>4. g[i - 1] = WordSize + len[i - 1] /\ g[i - 1] >= WordSize * (i - 1 + 1)
        BY <1>11
    <2>5. g[i - 1] \in Int
        BY <1>1, <2>2, <2>4
    <2>6. g[i] = WordSize + len[i]
        BY <1>1, <2>2, <2>3, <2>4
    <2>7. g[i] >= WordSize * (i + 1)
        <3> DEFINE p == g[i - 1]
                   e == k[i]
        <3>1. p \in Int /\ e \in Nat /\ p >= WordSize * (i - 1 + 1)
            BY <2>2, <2>4, <2>5
        <3> HIDE DEF p, e
        <3>2. p + WordSize + e >= WordSize * (i + 1)
            BY <1>1, <2>1, <3>1, OneMoreText
        <3>3. QED
            BY <2>3, <3>2 DEF p, e
    <2>8. QED
        BY <2>1, <2>6, <2>7
<1>12. \A i \in 0 .. N : i \in T
    <2> HIDE DEF T
    <2>1. QED
        BY <1>1, <1>10, <1>11, InductionUpTo
<1>13. g[N] = WordSize + len[N] /\ g[N] >= WordSize * (N + 1)
    <2>1. N \in 0 .. N
        BY <1>1
    <2>2. N \in T
        BY <1>12, <2>1
    <2>3. QED
        BY <2>2
<1>14. Len(Message(command)) = WordSize + Len(f[N])
    BY <1>3, MessageIs
<1>15. QED
    BY <1>5, <1>8, <1>13, <1>14 DEF N
------------------------------------------------------------------------------
(* Taking a message apart.                                                 *)

\* What is left of a message behind an offset.
Rest(memory, length, at) == SubSeq(memory, at + 1, length)

\* Texts that begin with texts of the same length and are the same.
LEMMA Cancel ==
    ASSUME NEW a \in Texts, NEW b \in Texts, NEW u \in Texts, NEW v \in Texts,
           Len(a) = Len(b), a \o u = b \o v
    PROVE  a = b /\ u = v
<1> DEFINE s == a \o u
           t == b \o v
           m == Len(a)
           n == Len(u)
<1>1. /\ a \in Seq(Byte) /\ b \in Seq(Byte) /\ u \in Seq(Byte) /\ v \in Seq(Byte)
      /\ m \in Nat /\ n \in Nat /\ Len(v) \in Nat
    BY DEF Texts
<1>2. /\ Len(s) = m + n
      /\ \A i \in 1 .. m + n : s[i] = IF i <= m THEN a[i] ELSE u[i - m]
    BY <1>1, ConcatProperties
<1>3. /\ Len(t) = m + Len(v)
      /\ \A i \in 1 .. m + Len(v) : t[i] = IF i <= m THEN b[i] ELSE v[i - m]
    BY <1>1, ConcatProperties
<1>4. s = t
    OBVIOUS
<1> HIDE DEF s, t
<1>5. Len(v) = n
    BY <1>1, <1>2, <1>3, <1>4
<1>6. \A i \in 1 .. m : a[i] = b[i]
    <2>1. \A i \in 1 .. m : i \in 1 .. m + n /\ i <= m
        BY <1>1
    <2> HIDE DEF m, n
    <2>2. QED
        BY <1>2, <1>3, <1>4, <1>5, <2>1
<1>7. ASSUME NEW i \in 1 .. n PROVE u[i] = v[i]
    <2> DEFINE j == m + i
    <2>1. j \in 1 .. m + n /\ ~(j <= m) /\ j - m = i
        BY <1>1
    <2> HIDE DEF m, n, j
    <2>2. s[j] = u[i] /\ t[j] = v[i]
        BY <1>2, <1>3, <1>5, <2>1
    <2>3. QED
        BY <1>4, <2>2
<1>8. a = b
    BY <1>1, <1>6, SeqEqual
<1>9. u = v
    BY <1>1, <1>5, <1>7, SeqEqual
<1>10. QED
    BY <1>8, <1>9

\* What is left of a message behind an offset.
LEMMA RestTyped ==
    ASSUME NEW memory \in Texts, NEW length \in 0 .. Len(memory), NEW at \in 0 .. length
    PROVE  Rest(memory, length, at) \in Texts /\ Len(Rest(memory, length, at)) = length - at
<1>1. Len(memory) \in Nat /\ at + 1 \in Int /\ length \in Int /\ at \in Int /\ at <= length
    BY DEF Texts
<1>2. \A i \in at + 1 .. length : memory[i] \in Byte
    <2>1. \A i \in at + 1 .. length : i \in 1 .. Len(memory)
        BY <1>1
    <2>2. memory \in Seq(Byte)
        BY DEF Texts
    <2>3. QED
        BY <2>1, <2>2, ElementOfSeq
<1>3. /\ SubSeq(memory, at + 1, length) \in Seq(Byte)
      /\ Len(SubSeq(memory, at + 1, length)) = IF at + 1 <= length THEN length - (at + 1) + 1 ELSE 0
    BY <1>1, <1>2, SubSeqProperties
<1>4. QED
    BY <1>1, <1>3 DEF Rest, Texts

\* An integer of a memory that its bytes are in.
LEMMA WordThere ==
    ASSUME NEW memory \in Texts, NEW at \in Nat, at + WordSize <= Len(memory)
    PROVE  /\ SubSeq(memory, at + 1, at + WordSize) \in [1 .. WordSize -> Byte]
           /\ WordAt(memory, at) = Value(SubSeq(memory, at + 1, at + WordSize))
           /\ WordAt(memory, at) \in Nat
           /\ Word(WordAt(memory, at)) = SubSeq(memory, at + 1, at + WordSize)
<1> DEFINE w == SubSeq(memory, at + 1, at + WordSize)
           e == [i \in 1 .. WordSize |-> memory[at + i]]
<1>1. /\ Len(memory) \in Nat /\ WordSize \in Nat \ {0} /\ at + 1 \in Int /\ at + WordSize \in Int
      /\ at + 1 <= at + WordSize /\ at + WordSize - (at + 1) + 1 = WordSize
    BY RequestsAssumption DEF Texts
<1>2. \A i \in at + 1 .. at + WordSize : memory[i] \in Byte
    <2>1. \A i \in at + 1 .. at + WordSize : i \in 1 .. Len(memory)
        BY <1>1
    <2>2. memory \in Seq(Byte)
        BY DEF Texts
    <2>3. QED
        BY <2>1, <2>2, ElementOfSeq
<1>3. /\ w \in Seq(Byte) /\ Len(w) = WordSize
      /\ \A i \in 1 .. WordSize : w[i] = memory[at + 1 + i - 1]
    <2>1. /\ w \in Seq(Byte)
          /\ Len(w) = IF at + 1 <= at + WordSize THEN at + WordSize - (at + 1) + 1 ELSE 0
          /\ \A i \in 1 .. at + WordSize - (at + 1) + 1 : w[i] = memory[at + 1 + i - 1]
        BY <1>1, <1>2, SubSeqProperties
    <2> HIDE DEF w
    <2>2. QED
        BY <1>1, <2>1
<1> HIDE DEF w
<1>4. w \in [1 .. WordSize -> Byte]
    BY <1>3, LenProperties
<1>5. \A i \in 1 .. WordSize : at + 1 + i - 1 = at + i
    BY <1>1
<1>6. w = e
    BY <1>3, <1>4, <1>5
<1>7. WordAt(memory, at) = Value(w)
    BY <1>6 DEF WordAt
<1>8. Value(w) \in Nat /\ Word(Value(w)) = w
    BY <1>4, WordOfValue
<1>9. QED
    BY <1>4, <1>7, <1>8 DEF w

\* The next text of a message, and what is left behind it.
LEMMA RestSplits ==
    ASSUME NEW memory \in Texts, NEW length \in 0 .. Len(memory), NEW at \in Nat,
           at + WordSize <= length,
           at + WordSize + WordAt(memory, at) <= length
    PROVE  LET from == at + WordSize
               to == from + WordAt(memory, at)
               text == SubSeq(memory, from + 1, to)
           IN  /\ from \in 0 .. length /\ to \in 0 .. length
               /\ text \in Texts /\ Len(text) = WordAt(memory, at)
               /\ Rest(memory, length, at) = Field(text) \o Rest(memory, length, to)
               /\ Rest(memory, length, from) = text \o Rest(memory, length, to)
<1> DEFINE n == WordAt(memory, at)
           from == at + WordSize
           to == from + n
           text == SubSeq(memory, from + 1, to)
           L == Len(memory)
<1>1. L \in Nat /\ WordSize \in Nat \ {0} /\ memory \in Seq(Byte) /\ length \in Nat /\ length <= L
    BY RequestsAssumption DEF Texts
<1>2. n \in Nat /\ Word(n) = SubSeq(memory, at + 1, from)
    <2>1. at + WordSize <= Len(memory)
        BY <1>1
    <2>2. QED
        BY <2>1, WordThere
<1> HIDE DEF n, L
<1>3. from \in 0 .. length /\ to \in 0 .. length /\ from <= to /\ from \in Nat /\ to \in Nat
    BY <1>1, <1>2 DEF n
<1>4. text \in Texts /\ Len(text) = n
    <2>1. to \in 0 .. Len(memory) /\ from \in 0 .. to /\ to - from = n
        BY <1>1, <1>2, <1>3 DEF L
    <2> HIDE DEF from, to
    <2>2. Rest(memory, to, from) \in Texts /\ Len(Rest(memory, to, from)) = to - from
        BY <2>1, RestTyped
    <2>3. QED
        BY <2>1, <2>2 DEF Rest
<1>5. at + 1 \in 1 .. L + 1 /\ from \in at + 1 - 1 .. L /\ length \in from .. L
      /\ from + 1 \in 1 .. L + 1 /\ to \in from + 1 - 1 .. L /\ length \in to .. L
    BY <1>1, <1>2, <1>3
<1> HIDE DEF from, to
<1>6. SubSeq(memory, at + 1, from) \o SubSeq(memory, from + 1, length) = SubSeq(memory, at + 1, length)
    BY <1>1, <1>5, ConcatAdjacentSubSeq DEF L
<1>7. SubSeq(memory, from + 1, to) \o SubSeq(memory, to + 1, length) = SubSeq(memory, from + 1, length)
    BY <1>1, <1>5, ConcatAdjacentSubSeq DEF L
<1>8. /\ Word(n) \in Seq(Byte) /\ text \in Seq(Byte)
      /\ Rest(memory, length, to) \in Seq(Byte)
    BY <1>2, <1>3, <1>4, WordTyped, RestTyped DEF Texts
<1>9. Rest(memory, length, from) = text \o Rest(memory, length, to)
    BY <1>7 DEF Rest
<1>10. Rest(memory, length, at) = Word(n) \o Rest(memory, length, from)
    BY <1>2, <1>6 DEF Rest
<1> HIDE DEF text
<1>11. (Word(n) \o text) \o Rest(memory, length, to) = Word(n) \o (text \o Rest(memory, length, to))
    BY <1>8, Associate
<1>12. Field(text) = Word(n) \o text
    BY <1>4 DEF Field
<1>13. Rest(memory, length, at) = Field(text) \o Rest(memory, length, to)
    BY <1>9, <1>10, <1>11, <1>12
<1>14. QED
    BY <1>3, <1>4, <1>9, <1>13 DEF from, to, text, n

\* How Request::parse goes on at an offset with a count of texts to take.
ArgsStep(args, memory, length, at, count) ==
    LET from == at + WordSize
        to == from + WordAt(memory, at)
    IN  IF count = 0 THEN [ok |-> Exhausted(at, length), command |-> <<>>]
        ELSE IF from > length \/ to > length THEN Bad
        ELSE [args[<<to, count - 1>>] EXCEPT
                 !.command = <<SubSeq(memory, from + 1, to)>> \o @]

Takes(args, memory, length) ==
    args = [p \in Nat \X Nat |-> ArgsStep(args, memory, length, p[1], p[2])]

\* Request::parse's loop, one round.
LEMMA TakesAt ==
    ASSUME NEW args, NEW memory, NEW length, Takes(args, memory, length)
    PROVE  \A at, count \in Nat :
               args[<<at, count>>] = ArgsStep(args, memory, length, at, count)
<1> SUFFICES ASSUME NEW at \in Nat, NEW count \in Nat
             PROVE  args[<<at, count>>] = ArgsStep(args, memory, length, at, count)
    OBVIOUS
<1> DEFINE F == [p \in Nat \X Nat |-> ArgsStep(args, memory, length, p[1], p[2])]
<1>1. <<at, count>> \in Nat \X Nat /\ <<at, count>>[1] = at /\ <<at, count>>[2] = count
    OBVIOUS
<1>2. F[<<at, count>>] = ArgsStep(args, memory, length, at, count)
    BY <1>1
<1>3. args = F
    BY DEF Takes
<1> HIDE DEF F
<1>4. QED
    BY <1>2, <1>3

Results == [ok : BOOLEAN, command : Seq(Texts)]

\* One step from a result gives a result.
LEMMA StepTyped ==
    ASSUME NEW memory \in Texts, NEW length \in 0 .. Len(memory),
           NEW args, NEW at \in Nat, NEW count \in Nat,
           count # 0 => \A to \in Nat : args[<<to, count - 1>>] \in Results
    PROVE  ArgsStep(args, memory, length, at, count) \in Results
<1> DEFINE from == at + WordSize
           to == from + WordAt(memory, at)
           text == SubSeq(memory, from + 1, to)
<1>1. CASE count = 0
    <2>1. Exhausted(at, length) \in BOOLEAN
        BY DEF Exhausted
    <2>2. <<>> \in Seq(Texts)
        BY EmptySeq
    <2>3. [ok |-> Exhausted(at, length), command |-> <<>>] \in Results
        BY <2>1, <2>2 DEF Results
    <2>4. QED
        BY <1>1, <2>3 DEF ArgsStep
<1>2. CASE count # 0 /\ (from > length \/ to > length)
    <2>1. <<>> \in Seq(Texts)
        BY EmptySeq
    <2>2. Bad \in Results
        BY <2>1 DEF Bad, Results
    <2>3. ArgsStep(args, memory, length, at, count) = Bad
        BY <1>2 DEF ArgsStep
    <2>4. QED
        BY <2>2, <2>3
<1>3. CASE count # 0 /\ ~(from > length \/ to > length)
    <2>1. /\ at + WordSize <= length /\ WordSize \in Nat /\ Len(memory) \in Nat
          /\ length \in Nat /\ length <= Len(memory)
        BY <1>3, RequestsAssumption DEF Texts
    <2>2. at + WordSize <= Len(memory)
        BY <2>1
    <2>3. WordAt(memory, at) \in Nat
        BY <2>2, WordThere
    <2>4. at + WordSize + WordAt(memory, at) <= length
        BY <1>3, <2>1, <2>3
    <2>5. text \in Texts /\ to \in Nat
        <3>1. text \in Texts
            BY <2>1, <2>4, RestSplits
        <3>2. QED
            BY <2>1, <2>3, <3>1
    <2> HIDE DEF text, to
    <2> DEFINE p == args[<<to, count - 1>>]
    <2>6. p \in Results
        BY <1>3, <2>5
    <2>7. ArgsStep(args, memory, length, at, count) = [p EXCEPT !.command = <<text>> \o @]
        BY <1>3 DEF ArgsStep, text, to
    <2> HIDE DEF p
    <2>8. p.command \in Seq(Texts)
        BY <2>6 DEF Results
    <2>9. <<text>> \o p.command \in Seq(Texts)
        BY <2>5, <2>8, ConsFacts
    <2>10. QED
        BY <2>6, <2>7, <2>9 DEF Results
<1>4. QED
    BY <1>1, <1>2, <1>3

\* There is such a function.
LEMMA TakesExists ==
    ASSUME NEW memory \in Texts, NEW length \in 0 .. Len(memory)
    PROVE  \E args : Takes(args, memory, length)
<1> DEFINE D == Nat \X Nat
           rank == [p \in D |-> p[2]]
           G == [f \in [D -> Results] |->
                    [p \in D |-> ArgsStep(f, memory, length, p[1], p[2])]]
<1>1. rank \in [D -> Nat] /\ \A p \in D : rank[p] = p[2] /\ p[1] \in Nat /\ p[2] \in Nat
    OBVIOUS
<1>2. G \in [[D -> Results] -> [D -> Results]]
    <2>1. ASSUME NEW f \in [D -> Results], NEW p \in D
          PROVE  ArgsStep(f, memory, length, p[1], p[2]) \in Results
        <3> DEFINE at == p[1]
                   count == p[2]
        <3>1. at \in Nat /\ count \in Nat
            OBVIOUS
        <3>2. count # 0 => \A to \in Nat : f[<<to, count - 1>>] \in Results
            <4>1. count # 0 => \A to \in Nat : <<to, count - 1>> \in D
                BY <3>1
            <4>2. QED
                BY <4>1
        <3> HIDE DEF at, count, D
        <3>3. ArgsStep(f, memory, length, at, count) \in Results
            BY <3>1, <3>2, StepTyped
        <3>4. QED
            BY <3>3 DEF at, count
    <2>2. QED
        BY <2>1
<1>3. \A f \in [D -> Results], p \in D : G[f][p] = ArgsStep(f, memory, length, p[1], p[2])
    OBVIOUS
<1>4. Ranked(D, Results, rank, G)
    <2> SUFFICES ASSUME NEW p \in D, NEW f \in [D -> Results], NEW g \in [D -> Results],
                        \A q \in D : rank[q] < rank[p] => f[q] = g[q]
                 PROVE  ArgsStep(f, memory, length, p[1], p[2])
                            = ArgsStep(g, memory, length, p[1], p[2])
        BY <1>3 DEF Ranked
    <2> DEFINE at == p[1]
               count == p[2]
               from == at + WordSize
               to == from + WordAt(memory, at)
    <2>1. at \in Nat /\ count \in Nat /\ rank[p] = count
        BY <1>1
    <2> HIDE DEF at, count, rank, G
    <2>2. CASE count = 0 \/ from > length \/ to > length
        BY <2>2 DEF ArgsStep, at, count
    <2>3. CASE count # 0 /\ ~(from > length \/ to > length)
        <3>1. to \in Nat /\ count - 1 \in Nat /\ count - 1 < count
            <4>1. at + WordSize <= Len(memory) /\ WordSize \in Nat
                BY <2>1, <2>3, RequestsAssumption DEF Texts
            <4>2. WordAt(memory, at) \in Nat
                BY <2>1, <4>1, WordThere
            <4>3. QED
                BY <2>1, <2>3, <4>1, <4>2
        <3> HIDE DEF to
        <3>2. <<to, count - 1>> \in D /\ rank[<<to, count - 1>>] = count - 1
            <4>1. <<to, count - 1>> \in Nat \X Nat /\ <<to, count - 1>>[2] = count - 1
                BY <3>1
            <4>2. QED
                BY <1>1, <4>1
        <3> HIDE DEF D
        <3>3. f[<<to, count - 1>>] = g[<<to, count - 1>>]
            BY <2>1, <3>1, <3>2
        <3>4. QED
            BY <2>3, <3>3 DEF ArgsStep, at, count, to
    <2>4. QED
        BY <2>2, <2>3 DEF at, count
<1> HIDE DEF G, rank
<1>5. PICK f : Defines(f, D, Results, G)
    <2> HIDE DEF D
    <2>1. Results # {}
        <3>1. [ok |-> FALSE, command |-> <<>>] \in Results
            BY EmptySeq DEF Results
        <3>2. QED
            BY <3>1
    <2>2. QED
        BY <1>1, <1>2, <1>4, <2>1, RankedFunction
<1>6. Takes(f, memory, length)
    <2>1. f \in [D -> Results] /\ \A p \in D : f[p] = G[f][p]
        BY <1>5 DEF Defines
    <2>2. \A p \in D : f[p] = ArgsStep(f, memory, length, p[1], p[2])
        BY <1>3, <2>1
    <2>3. QED
        BY <2>1, <2>2 DEF Takes
<1>7. QED
    BY <1>6

\* The loop returns a result from every offset and for every count.
LEMMA TakesTyped ==
    ASSUME NEW memory \in Texts, NEW length \in 0 .. Len(memory), NEW args,
           Takes(args, memory, length)
    PROVE  \A count, at \in Nat : args[<<at, count>>] \in Results
<1> DEFINE T == {count \in Nat : \A at \in Nat : args[<<at, count>>] \in Results}
<1>1. 0 \in T
    <2>1. ASSUME NEW at \in Nat PROVE args[<<at, 0>>] \in Results
        <3>1. ArgsStep(args, memory, length, at, 0) \in Results
            BY StepTyped
        <3>2. QED
            BY <3>1, TakesAt
    <2>2. QED
        BY <2>1
<1>2. ASSUME NEW n \in Nat, n \in T PROVE n + 1 \in T
    <2>1. ASSUME NEW at \in Nat PROVE args[<<at, n + 1>>] \in Results
        <3> DEFINE count == n + 1
        <3>1. count \in Nat /\ count - 1 = n /\ \A to \in Nat : args[<<to, n>>] \in Results
            BY <1>2
        <3> HIDE DEF count
        <3>2. ArgsStep(args, memory, length, at, count) \in Results
            BY <3>1, StepTyped
        <3>3. args[<<at, count>>] \in Results
            BY <3>1, <3>2, TakesAt
        <3>4. QED
            BY <3>3 DEF count
    <2>2. QED
        BY <2>1
<1>3. \A n \in Nat : n \in T
    <2> HIDE DEF T
    <2>1. QED
        BY <1>1, <1>2, Induction
<1>4. QED
    BY <1>3

\* What is taken as count texts stands for what is left of the message.
StandsFor(result, rest, count) ==
    result.ok => /\ result.command \in Seq(Texts) /\ Len(result.command) = count
                 /\ rest = Body(result.command)

\* What the loop accepts is, to the byte, the arguments it returns.
LEMMA TakesSound ==
    ASSUME NEW memory \in Texts, NEW length \in 0 .. Len(memory), NEW args,
           Takes(args, memory, length)
    PROVE  \A count \in Nat, at \in 0 .. length :
               StandsFor(args[<<at, count>>], Rest(memory, length, at), count)
<1> DEFINE T == {count \in Nat : \A at \in 0 .. length :
                    StandsFor(args[<<at, count>>], Rest(memory, length, at), count)}
<1>1. Len(memory) \in Nat /\ length \in Nat /\ length <= Len(memory) /\ WordSize \in Nat
    BY RequestsAssumption DEF Texts
<1>2. 0 \in T
    <2>1. ASSUME NEW at \in 0 .. length
          PROVE  StandsFor(args[<<at, 0>>], Rest(memory, length, at), 0)
        <3>1. at \in Nat /\ args[<<at, 0>>] = ArgsStep(args, memory, length, at, 0)
            BY <1>1, TakesAt
        <3>2. args[<<at, 0>>] = [ok |-> Exhausted(at, length), command |-> <<>>]
            BY <3>1 DEF ArgsStep
        <3>3. at = length => Rest(memory, length, at) = <<>>
            <4>1. Rest(memory, length, at) \in Texts /\ Len(Rest(memory, length, at)) = length - at
                BY RestTyped
            <4>2. at = length => Len(Rest(memory, length, at)) = 0
                BY <1>1, <4>1
            <4>3. QED
                BY <4>1, <4>2, EmptySeq DEF Texts
        <3>4. <<>> \in Seq(Texts) /\ Len(<<>>) = 0
            BY EmptySeq
        <3> DEFINE rest == Rest(memory, length, at)
                   result == args[<<at, 0>>]
        <3>5. result.ok = (at = length) /\ result.command = <<>>
            BY <3>2 DEF Exhausted
        <3>6. at = length => rest = Body(<<>>)
            BY <3>3, BodyEmpty
        <3> HIDE DEF rest, result
        <3>7. StandsFor(result, rest, 0)
            BY <3>4, <3>5, <3>6 DEF StandsFor
        <3>8. QED
            BY <3>7 DEF rest, result
    <2>2. QED
        BY <2>1
<1>3. ASSUME NEW n \in Nat, n \in T PROVE n + 1 \in T
    <2>1. ASSUME NEW at \in 0 .. length, args[<<at, n + 1>>].ok
          PROVE  StandsFor(args[<<at, n + 1>>], Rest(memory, length, at), n + 1)
        <3> DEFINE count == n + 1
                   from == at + WordSize
                   to == from + WordAt(memory, at)
                   text == SubSeq(memory, from + 1, to)
                   p == args[<<to, n>>]
        <3>1. at \in Nat /\ count \in Nat /\ count # 0 /\ count - 1 = n
            BY <1>1
        <3>2. args[<<at, count>>] = ArgsStep(args, memory, length, at, count)
            BY <3>1, TakesAt
        <3>3. ~(from > length \/ to > length)
            <4>1. from > length \/ to > length => args[<<at, count>>] = Bad
                BY <3>1, <3>2 DEF ArgsStep
            <4>2. ~Bad.ok
                BY DEF Bad
            <4>3. QED
                BY <2>1, <4>1, <4>2
        <3>4. at + WordSize <= length
            BY <1>1, <3>1, <3>3
        <3>5. WordAt(memory, at) \in Nat
            <4>1. at + WordSize <= Len(memory)
                BY <1>1, <3>1, <3>4
            <4>2. QED
                BY <3>1, <4>1, WordThere
        <3>6. at + WordSize + WordAt(memory, at) <= length
            BY <1>1, <3>1, <3>3, <3>5
        <3>7. /\ to \in 0 .. length /\ text \in Texts
              /\ Rest(memory, length, at) = Field(text) \o Rest(memory, length, to)
            BY <3>1, <3>4, <3>6, RestSplits
        <3> HIDE DEF count
        <3>8. args[<<at, count>>] = [p EXCEPT !.command = <<text>> \o @]
            BY <3>1, <3>2, <3>3 DEF ArgsStep
        <3> HIDE DEF text, to, from
        <3>9. StandsFor(p, Rest(memory, length, to), n)
            BY <1>3, <3>7
        <3>10. p \in Results
            <4>1. to \in Nat
                BY <1>1, <3>7
            <4>2. QED
                BY <4>1, TakesTyped DEF p
        <3> HIDE DEF p
        <3>11. /\ args[<<at, count>>].ok = p.ok
               /\ args[<<at, count>>].command = <<text>> \o p.command
            BY <3>8, <3>10 DEF Results
        <3>12. /\ p.command \in Seq(Texts) /\ Len(p.command) = n
               /\ Rest(memory, length, to) = Body(p.command)
            BY <2>1, <3>9, <3>11 DEF StandsFor, count
        <3>13. /\ <<text>> \o p.command \in Seq(Texts)
               /\ Len(<<text>> \o p.command) = n + 1
            BY <3>7, <3>12, ConsFacts
        <3>14. Rest(memory, length, at) = Body(<<text>> \o p.command)
            BY <3>7, <3>12, BodyCons
        <3>15. QED
            BY <3>11, <3>13, <3>14 DEF StandsFor, count
    <2>2. QED
        BY <2>1 DEF StandsFor
<1>4. \A n \in Nat : n \in T
    <2> HIDE DEF T
    <2>1. QED
        BY <1>2, <1>3, Induction
<1>5. QED
    BY <1>4

\* A command that is not empty has a first text.
LEMMA Uncons ==
    ASSUME NEW S, NEW c \in Seq(S), c # <<>>
    PROVE  \E x \in S, s \in Seq(S) : c = <<x>> \o s /\ Len(c) = Len(s) + 1
<1> DEFINE x == c[1]
           s == Tail(c)
           t == <<x>> \o s
<1>1. Len(c) \in Nat \ {0} /\ 1 \in 1 .. Len(c)
    BY EmptySeq
<1>2. x \in S
    BY <1>1, ElementOfSeq
<1>3. s \in Seq(S) /\ Len(s) = Len(c) - 1 /\ \A i \in 1 .. Len(s) : s[i] = c[i + 1]
    BY HeadTailProperties
<1> HIDE DEF x, s
<1>4. /\ t \in Seq(S) /\ Len(t) = Len(s) + 1 /\ t[1] = x
      /\ \A i \in 2 .. Len(s) + 1 : t[i] = s[i - 1]
    BY <1>2, <1>3, ConsFacts
<1> HIDE DEF t
<1>5. ASSUME NEW i \in 1 .. Len(c) PROVE c[i] = t[i]
    <2>1. CASE i = 1
        BY <1>4, <2>1 DEF x
    <2>2. CASE i # 1
        <3> DEFINE j == i - 1
        <3>1. i \in 2 .. Len(s) + 1 /\ j \in 1 .. Len(s) /\ j + 1 = i
            BY <1>1, <1>3, <2>2
        <3> HIDE DEF j
        <3>2. s[j] = c[i]
            BY <1>3, <3>1
        <3>3. t[i] = s[j]
            BY <1>4, <3>1 DEF j
        <3>4. QED
            BY <3>2, <3>3
    <2>3. QED
        BY <2>1, <2>2
<1>6. Len(c) = Len(t) /\ Len(c) = Len(s) + 1
    BY <1>1, <1>3, <1>4
<1>7. c = t
    BY <1>4, <1>5, <1>6, SeqEqual
<1>8. QED
    BY <1>2, <1>3, <1>6, <1>7 DEF t

\* A text begins with an integer, which something else follows.
Begins(text, n, tail) == text = Word(n) \o tail

\* An argument in front of others begins with its length.
LEMMA FieldBegins ==
    ASSUME NEW text \in Texts, NEW rest \in Texts
    PROVE  Begins(Field(text) \o rest, Len(text), text \o rest)
<1> DEFINE w == Word(Len(text))
<1>1. w \in Seq(Byte) /\ text \in Seq(Byte) /\ rest \in Seq(Byte)
    BY WordTyped DEF Texts
<1>2. Field(text) = w \o text
    BY DEF Field
<1> HIDE DEF w
<1>3. (w \o text) \o rest = w \o (text \o rest)
    BY <1>1, Associate
<1>4. QED
    BY <1>2, <1>3 DEF Begins, w

\* The integer that what is left begins with, and what is left behind it.
LEMMA FirstInteger ==
    ASSUME NEW memory \in Texts, NEW length \in 0 .. Len(memory), NEW at \in 0 .. length
    PROVE  \A n \in Nat, tail \in Texts :
               n < Power[WordSize] /\ Begins(Rest(memory, length, at), n, tail)
               => /\ at + WordSize + Len(tail) = length
                  /\ WordAt(memory, at) = n
                  /\ Rest(memory, length, at + WordSize) = tail
<1> SUFFICES ASSUME NEW n \in Nat, n < Power[WordSize], NEW tail \in Texts,
                    Rest(memory, length, at) = Word(n) \o tail
             PROVE  /\ at + WordSize + Len(tail) = length
                    /\ WordAt(memory, at) = n
                    /\ Rest(memory, length, at + WordSize) = tail
    BY DEF Begins
<1> DEFINE w == Word(n)
           from == at + WordSize
<1>1. /\ WordSize \in Nat \ {0} /\ Len(memory) \in Nat /\ at \in Nat
      /\ length \in Nat /\ length <= Len(memory) /\ Len(tail) \in Nat
      /\ memory \in Seq(Byte) /\ tail \in Seq(Byte)
    BY RequestsAssumption DEF Texts
<1>2. w \in Seq(Byte) /\ Len(w) = WordSize /\ w \in [1 .. WordSize -> Byte]
    BY WordTyped
<1>3. Len(Rest(memory, length, at)) = length - at
    BY RestTyped
<1>4. Rest(memory, length, at) = w \o tail
    OBVIOUS
<1> HIDE DEF w
<1>5. Len(w \o tail) = WordSize + Len(tail)
    BY <1>1, <1>2, ConcatProperties
<1>6. at + WordSize + Len(tail) = length
    <2> DEFINE m == Len(tail)
    <2>1. length - at = WordSize + m
        BY <1>3, <1>4, <1>5
    <2>2. m \in Nat
        BY <1>1
    <2> HIDE DEF m
    <2>3. at + WordSize + m = length
        BY <1>1, <2>1, <2>2
    <2>4. QED
        BY <2>3 DEF m
<1>7. from \in 0 .. length /\ from <= Len(memory) /\ length - from = Len(tail)
    BY <1>1, <1>6
<1>8. /\ SubSeq(memory, at + 1, from) \in [1 .. WordSize -> Byte]
      /\ WordAt(memory, at) = Value(SubSeq(memory, at + 1, from))
    BY <1>1, <1>7, WordThere
<1> DEFINE s == SubSeq(memory, at + 1, from)
<1>9. s \in Texts /\ Len(s) = WordSize
    <2>1. from \in 0 .. Len(memory) /\ at \in 0 .. from /\ from - at = WordSize
        BY <1>1, <1>7
    <2> HIDE DEF from
    <2>2. Rest(memory, from, at) \in Texts /\ Len(Rest(memory, from, at)) = from - at
        BY <2>1, RestTyped
    <2>3. QED
        BY <2>1, <2>2 DEF Rest
<1>10. s \o Rest(memory, length, from) = Rest(memory, length, at)
    <2>1. at + 1 \in 1 .. Len(memory) + 1 /\ from \in at + 1 - 1 .. Len(memory)
          /\ length \in from .. Len(memory)
        BY <1>1, <1>7
    <2> HIDE DEF from
    <2>2. QED
        BY <1>1, <2>1, ConcatAdjacentSubSeq DEF Rest
<1>11. Rest(memory, length, from) \in Texts
    BY <1>7, RestTyped
<1>12. s = w /\ Rest(memory, length, from) = tail
    <2>1. w \in Texts /\ tail \in Texts /\ Len(s) = Len(w)
        BY <1>2, <1>9 DEF Texts
    <2>2. s \o Rest(memory, length, from) = w \o tail
        BY <1>4, <1>10
    <2> HIDE DEF s, from
    <2>3. QED
        BY <1>9, <1>11, <2>1, <2>2, Cancel
<1>13. WordAt(memory, at) = Value(w)
    BY <1>8, <1>12
<1>14. Value(w) = n
    BY ValueOfWord DEF w
<1>15. QED
    BY <1>6, <1>12, <1>13, <1>14

\* Where it is the length of a text, the text is there too.
LEMMA FirstWord ==
    ASSUME NEW memory \in Texts, NEW length \in 0 .. Len(memory), NEW at \in 0 .. length,
           NEW text \in Texts, NEW rest \in Texts, length < Power[WordSize]
    PROVE  Rest(memory, length, at) = Field(text) \o rest
           => /\ at + WordSize + Len(text) <= length
              /\ WordAt(memory, at) = Len(text)
<1> DEFINE n == Len(text)
           tail == text \o rest
<1>1. /\ WordSize \in Nat \ {0} /\ n \in Nat /\ Len(memory) \in Nat /\ at \in Nat
      /\ length \in Nat /\ length <= Len(memory) /\ Len(rest) \in Nat
      /\ text \in Seq(Byte) /\ rest \in Seq(Byte) /\ Power[WordSize] \in Nat
    BY RequestsAssumption, Powers DEF Texts
<1>2. Word(n) \in Seq(Byte) /\ Len(Word(n)) = WordSize
    BY <1>1, WordTyped
<1>3. tail \in Texts /\ Len(tail) = n + Len(rest) /\ tail \in Seq(Byte)
    BY <1>1, ConcatProperties DEF Texts
<1> HIDE DEF n
<1>4. Begins(Field(text) \o rest, n, tail)
    BY FieldBegins DEF n
<1> HIDE DEF tail
<1>5. Len(Word(n) \o tail) = WordSize + Len(tail)
    BY <1>2, <1>3, ConcatProperties
<1>6. \A i \in Nat, s \in Texts :
         i < Power[WordSize] /\ Begins(Rest(memory, length, at), i, s)
         => WordAt(memory, at) = i
    BY FirstInteger
<1>7. Len(Rest(memory, length, at)) = length - at
    BY RestTyped
<1>8. ASSUME Begins(Rest(memory, length, at), n, tail)
      PROVE  at + WordSize + n <= length /\ WordAt(memory, at) = n
    <2>1. length - at = WordSize + (n + Len(rest))
        BY <1>3, <1>5, <1>7, <1>8 DEF Begins
    <2>2. at + WordSize + n <= length /\ n < Power[WordSize]
        BY <1>1, <2>1
    <2>3. QED
        BY <1>1, <1>3, <1>6, <1>8, <2>2
<1>9. QED
    BY <1>4, <1>8 DEF n

\* Every command whose texts are all that is left is taken.
LEMMA TakesAll ==
    ASSUME NEW memory \in Texts, NEW length \in 0 .. Len(memory), NEW args,
           Takes(args, memory, length), length < Power[WordSize]
    PROVE  \A count \in Nat, at \in 0 .. length, c \in Seq(Texts) :
               Len(c) = count /\ Rest(memory, length, at) = Body(c)
               => args[<<at, count>>] = [ok |-> TRUE, command |-> c]
<1> DEFINE T == {count \in Nat : \A at \in 0 .. length, c \in Seq(Texts) :
                    Len(c) = count /\ Rest(memory, length, at) = Body(c)
                    => args[<<at, count>>] = [ok |-> TRUE, command |-> c]}
<1>1. Len(memory) \in Nat /\ length \in Nat /\ length <= Len(memory) /\ WordSize \in Nat
    BY RequestsAssumption DEF Texts
<1>2. 0 \in T
    <2>1. ASSUME NEW at \in 0 .. length, NEW c \in Seq(Texts), Len(c) = 0,
                 Rest(memory, length, at) = Body(c)
          PROVE  args[<<at, 0>>] = [ok |-> TRUE, command |-> c]
        <3>1. at \in Nat /\ args[<<at, 0>>] = ArgsStep(args, memory, length, at, 0)
            BY <1>1, TakesAt
        <3>2. args[<<at, 0>>] = [ok |-> Exhausted(at, length), command |-> <<>>]
            BY <3>1 DEF ArgsStep
        <3>3. c = <<>>
            BY <2>1, EmptySeq
        <3>4. Rest(memory, length, at) = <<>> /\ Len(Rest(memory, length, at)) = length - at
            BY <2>1, <3>3, BodyEmpty, RestTyped
        <3>5. at = length
            <4>1. Len(<<>>) = 0
                OBVIOUS
            <4>2. length - at = 0
                BY <3>4, <4>1
            <4>3. QED
                BY <1>1, <3>1, <4>2
        <3>6. QED
            BY <3>2, <3>3, <3>5 DEF Exhausted
    <2>2. QED
        BY <2>1
<1>3. ASSUME NEW n \in Nat, n \in T PROVE n + 1 \in T
    <2> DEFINE count == n + 1
    <2>1. count \in Nat /\ count # 0 /\ count - 1 = n
        OBVIOUS
    <2> HIDE DEF count
    <2>2. ASSUME NEW at \in 0 .. length, NEW c \in Seq(Texts), Len(c) = count,
                 Rest(memory, length, at) = Body(c)
          PROVE  args[<<at, count>>] = [ok |-> TRUE, command |-> c]
        <3>1. c # <<>>
            BY <2>1, <2>2
        <3>2. PICK x \in Texts, s \in Seq(Texts) : c = <<x>> \o s /\ Len(c) = Len(s) + 1
            BY <3>1, Uncons
        <3>3. Len(s) = n
            <4>1. Len(s) \in Nat
                OBVIOUS
            <4>2. QED
                BY <2>1, <2>2, <3>2, <4>1
        <3> DEFINE from == at + WordSize
                   to == from + WordAt(memory, at)
                   text == SubSeq(memory, from + 1, to)
        <3>4. Rest(memory, length, at) = Field(x) \o Body(s) /\ Body(s) \in Texts
            BY <2>2, <3>2, BodyCons, BodyTyped
        <3>5. at + WordSize + Len(x) <= length /\ WordAt(memory, at) = Len(x)
            BY <3>4, FirstWord
        <3>6. at \in Nat /\ Len(x) \in Nat
            BY <1>1 DEF Texts
        <3>7. at + WordSize <= length /\ at + WordSize + WordAt(memory, at) <= length
            BY <1>1, <3>5, <3>6
        <3>8. /\ to \in 0 .. length /\ text \in Texts /\ Len(text) = Len(x)
              /\ Rest(memory, length, at) = Field(text) \o Rest(memory, length, to)
            BY <3>5, <3>6, <3>7, RestSplits
        <3>9. ~(from > length \/ to > length)
            BY <1>1, <3>5, <3>6, <3>7
        <3> HIDE DEF text
        <3>10. Rest(memory, length, to) \in Texts
            BY <3>8, RestTyped
        <3>11. Field(x) = Field(text) /\ Body(s) = Rest(memory, length, to)
            <4>1. /\ Field(x) \in Texts /\ Field(text) \in Texts
                  /\ Len(Field(x)) = Len(Field(text))
                BY <3>8, FieldTyped
            <4>2. Field(x) \o Body(s) = Field(text) \o Rest(memory, length, to)
                BY <3>4, <3>8
            <4> HIDE DEF to
            <4>3. QED
                BY <3>4, <3>10, <4>1, <4>2, Cancel
        <3>12. x = text
            <4>1. Word(Len(x)) \in Texts
                BY <3>6, WordTyped DEF Texts
            <4>2. Word(Len(x)) \o x = Word(Len(x)) \o text
                BY <3>8, <3>11 DEF Field
            <4>3. QED
                BY <3>8, <4>1, <4>2, Cancel
        <3> DEFINE p == args[<<to, n>>]
        <3>13. args[<<at, count>>] = [p EXCEPT !.command = <<text>> \o @]
            <4>1. args[<<at, count>>] = ArgsStep(args, memory, length, at, count)
                BY <2>1, <3>6, TakesAt
            <4>2. QED
                BY <2>1, <3>9, <4>1 DEF ArgsStep, text
        <3> HIDE DEF to
        <3>14. p = [ok |-> TRUE, command |-> s]
            BY <1>3, <3>3, <3>8, <3>11
        <3> HIDE DEF p
        <3>15. args[<<at, count>>] = [ok |-> TRUE, command |-> <<text>> \o s]
            BY <3>13, <3>14
        <3>16. QED
            BY <3>2, <3>12, <3>15
    <2>3. n + 1 \in T
        BY <2>2 DEF count
    <2>4. QED
        BY <2>3
<1>4. \A n \in Nat : n \in T
    <2> HIDE DEF T
    <2>1. QED
        BY <1>2, <1>3, Induction
<1>5. QED
    BY <1>4
------------------------------------------------------------------------------
(* Request::parse as a whole.                                              *)

\* Request::parse reads the count, refuses a large one and runs the loop.
LEMMA ParseIs ==
    ASSUME NEW memory \in Texts, NEW length \in 0 .. Len(memory)
    PROVE  \E args : /\ Takes(args, memory, length)
                     /\ Parse(memory, length) =
                            IF length < WordSize \/ WordAt(memory, 0) > MaxNumArgs THEN Bad
                            ELSE args[<<WordSize, WordAt(memory, 0)>>]
<1> DEFINE g == CHOOSE args : Takes(args, memory, length)
<1>1. Takes(g, memory, length)
    BY TakesExists
<1>2. Parse(memory, length) =
          IF length < WordSize \/ WordAt(memory, 0) > MaxNumArgs THEN Bad
          ELSE g[<<WordSize, WordAt(memory, 0)>>]
    BY DEF Parse, Takes, ArgsStep
<1>3. QED
    BY <1>1, <1>2

\* What it takes is the message of the command it returns.
LEMMA ParseSound ==
    ASSUME NEW memory \in Texts, NEW length \in 0 .. Len(memory), Parse(memory, length).ok
    PROVE  /\ Parse(memory, length).command \in Seq(Texts)
           /\ Message(Parse(memory, length).command) = SubSeq(memory, 1, length)
<1> DEFINE n == WordAt(memory, 0)
           result == Parse(memory, length)
<1>1. PICK args : /\ Takes(args, memory, length)
                  /\ result = IF length < WordSize \/ n > MaxNumArgs THEN Bad
                              ELSE args[<<WordSize, n>>]
    BY ParseIs
<1>2. WordSize \in Nat \ {0} /\ Len(memory) \in Nat /\ length \in Nat /\ length <= Len(memory)
    BY RequestsAssumption DEF Texts
<1>3. ~(length < WordSize) /\ result = args[<<WordSize, n>>]
    <2>1. ~Bad.ok /\ result.ok
        BY DEF Bad
    <2> HIDE DEF result
    <2>2. QED
        BY <1>1, <2>1
<1>4. WordSize \in 0 .. length /\ 0 + WordSize <= Len(memory) /\ 0 + WordSize = WordSize /\ 0 \in Nat
    BY <1>2, <1>3
<1>5. n \in Nat /\ Word(n) = SubSeq(memory, 1, WordSize)
    <2>1. WordAt(memory, 0) \in Nat /\ Word(WordAt(memory, 0)) = SubSeq(memory, 0 + 1, 0 + WordSize)
        BY <1>4, WordThere
    <2>2. QED
        BY <1>4, <2>1
<1> HIDE DEF n
<1>6. StandsFor(args[<<WordSize, n>>], Rest(memory, length, WordSize), n)
    BY <1>1, <1>4, <1>5, TakesSound
<1> DEFINE c == result.command
<1>7. result.ok
    OBVIOUS
<1> HIDE DEF result
<1>8. c \in Seq(Texts) /\ Len(c) = n /\ Rest(memory, length, WordSize) = Body(c)
    BY <1>3, <1>6, <1>7 DEF StandsFor
<1> HIDE DEF c
<1>9. SubSeq(memory, 1, WordSize) \o SubSeq(memory, WordSize + 1, length) = SubSeq(memory, 1, length)
    <2>1. /\ memory \in Seq(Byte) /\ 1 \in 1 .. Len(memory) + 1
          /\ WordSize \in 1 - 1 .. Len(memory) /\ length \in WordSize .. Len(memory)
        BY <1>2, <1>3 DEF Texts
    <2>2. QED
        BY <2>1, ConcatAdjacentSubSeq
<1>10. Message(c) = SubSeq(memory, 1, length)
    BY <1>5, <1>8, <1>9, MessageIs DEF Rest
<1>11. QED
    BY <1>8, <1>10 DEF c, result

\* It takes the message of every command, whatever follows in memory.
LEMMA ParseComplete ==
    ASSUME NEW memory \in Texts, NEW length \in 0 .. Len(memory), NEW command \in Seq(Texts),
           length <= MaxMessageSize
    PROVE  Message(command) = SubSeq(memory, 1, length)
           => Parse(memory, length) = [ok |-> TRUE, command |-> command]
<1> DEFINE n == Len(command)
           zero == 0
<1>1. zero \in 0 .. length
    BY DEF Texts
<1> HIDE DEF zero
<1>2. \A i \in Nat, s \in Texts :
         i < Power[WordSize] /\ Begins(Rest(memory, length, zero), i, s)
         => /\ zero + WordSize + Len(s) = length
            /\ WordAt(memory, zero) = i
            /\ Rest(memory, length, zero + WordSize) = s
    BY <1>1, FirstInteger
<1> SUFFICES ASSUME Message(command) = SubSeq(memory, 1, length)
             PROVE  Parse(memory, length) = [ok |-> TRUE, command |-> command]
    OBVIOUS
<1>3. PICK args : /\ Takes(args, memory, length)
                  /\ Parse(memory, length) =
                         IF length < WordSize \/ WordAt(memory, 0) > MaxNumArgs THEN Bad
                         ELSE args[<<WordSize, WordAt(memory, 0)>>]
    BY ParseIs
<1>4. /\ WordSize \in Nat \ {0} /\ Len(memory) \in Nat /\ length \in Nat /\ length <= Len(memory)
      /\ n \in Nat /\ MaxNumArgs \in Nat /\ MaxMessageSize \in Nat /\ Power[WordSize] \in Nat
      /\ length < Power[WordSize] /\ WordSize * (MaxNumArgs + 2) > MaxMessageSize
    <2>1. /\ WordSize \in Nat \ {0} /\ Len(memory) \in Nat /\ length \in Nat /\ length <= Len(memory)
          /\ n \in Nat /\ MaxNumArgs \in Nat /\ MaxMessageSize \in Nat
          /\ Power[WordSize] > MaxMessageSize + WordSize
          /\ WordSize * (MaxNumArgs + 2) > MaxMessageSize
        BY RequestsAssumption DEF Texts
    <2>2. Power[WordSize] \in Nat
        BY <2>1, Powers
    <2>3. QED
        BY <2>1, <2>2
<1>5. Rest(memory, length, 0) = Message(command)
    <2>1. 0 + 1 = 1
        OBVIOUS
    <2>2. QED
        BY <2>1 DEF Rest
<1>6. Len(Message(command)) = length
    <2>1. 0 \in 0 .. length /\ length - 0 = length
        BY <1>4
    <2>2. QED
        BY <1>5, <2>1, RestTyped
<1>7. length >= WordSize * (n + 1)
    BY <1>6, MessageSize
<1>8. n <= MaxNumArgs /\ n + 1 <= length
    <2> HIDE DEF n
    <2>1. ASSUME n > MaxNumArgs PROVE FALSE
        <3> DEFINE d == n - MaxNumArgs - 1
        <3>1. d \in Nat /\ n + 1 = (MaxNumArgs + 2) + d
            BY <1>4, <2>1
        <3> HIDE DEF d
        <3>2. WordSize * ((MaxNumArgs + 2) + d) = WordSize * (MaxNumArgs + 2) + WordSize * d
            BY <1>4, <3>1
        <3>3. WordSize * d \in Nat /\ WordSize * (MaxNumArgs + 2) \in Nat
            BY <1>4, <3>1
        <3>4. QED
            BY <1>4, <1>7, <3>1, <3>2, <3>3
    <2>2. n + 1 <= WordSize * (n + 1)
        <3> DEFINE e == WordSize - 1
        <3>1. e \in Nat /\ WordSize = e + 1 /\ n + 1 \in Nat
            BY <1>4
        <3> HIDE DEF e
        <3>2. (e + 1) * (n + 1) = e * (n + 1) + (n + 1)
            BY <1>4, <3>1
        <3>3. e * (n + 1) \in Nat
            BY <3>1
        <3>4. QED
            BY <3>1, <3>2, <3>3
    <2>3. WordSize * (n + 1) \in Nat
        BY <1>4
    <2>4. QED
        BY <1>4, <1>7, <2>1, <2>2, <2>3
<1>9. n < Power[WordSize]
    BY <1>4, <1>8
<1>10. Rest(memory, length, 0) = Word(n) \o Body(command) /\ Body(command) \in Texts
    BY <1>5, MessageIs, BodyTyped
<1>11. /\ 0 + WordSize + Len(Body(command)) = length
      /\ WordAt(memory, 0) = n
      /\ Rest(memory, length, 0 + WordSize) = Body(command)
    <2> DEFINE tail == Body(command)
    <2>1. n \in Nat /\ tail \in Texts /\ Begins(Rest(memory, length, zero), n, tail)
        BY <1>4, <1>10 DEF zero, Begins
    <2> HIDE DEF n, tail
    <2>2. /\ zero + WordSize + Len(tail) = length
          /\ WordAt(memory, zero) = n
          /\ Rest(memory, length, zero + WordSize) = tail
        BY <1>9, <1>2, <2>1
    <2>3. QED
        BY <2>2 DEF tail, zero
<1>12. 0 + WordSize = WordSize /\ WordSize \in 0 .. length
    <2>1. Len(Body(command)) \in Nat
        BY <1>10 DEF Texts
    <2>2. QED
        BY <1>4, <1>11, <2>1
<1>13. args[<<WordSize, n>>] = [ok |-> TRUE, command |-> command]
    <2>1. Rest(memory, length, WordSize) = Body(command)
        BY <1>11, <1>12
    <2>2. QED
        BY <1>3, <1>4, <1>12, <2>1, TakesAll
<1>14. ~(length < WordSize) /\ ~(WordAt(memory, 0) > MaxNumArgs)
    BY <1>4, <1>8, <1>11, <1>12
<1>15. QED
    BY <1>3, <1>11, <1>13, <1>14
------------------------------------------------------------------------------
(* The client, the server and what is between them.                        *)
------------------------------------------------------------------------------
(* Taking from the front of one sequence to the end of another.            *)

\* The first k elements of t, of which v is left, have gone to the end of s,
\* which is now u.
Moved(S, s, t, k, u, v) ==
    /\ u \in Seq(S) /\ Len(u) = Len(s) + k
    /\ \A i \in 1 .. Len(s) : u[i] = s[i]
    /\ \A i \in 1 .. k : u[Len(s) + i] = t[i]
    /\ v \in Seq(S) /\ Len(v) = Len(t) - k
    /\ \A i \in 1 .. Len(t) - k : v[i] = t[k + i]

LEMMA MovedFacts ==
    ASSUME NEW S, NEW s \in Seq(S), NEW t \in Seq(S), NEW k \in 1 .. Len(t)
    PROVE  Moved(S, s, t, k, s \o SubSeq(t, 1, k), After(t, k))
<1> DEFINE f == SubSeq(t, 1, k)
           r == SubSeq(t, k + 1, Len(t))
<1>1. Len(s) \in Nat /\ Len(t) \in Nat /\ k \in Int /\ \A i \in 1 .. Len(t) : t[i] \in S
    BY ElementOfSeq
<1>2. \A i \in 1 .. k : t[i] \in S
    BY <1>1
<1>3. f \in Seq(S) /\ Len(f) = k /\ \A i \in 1 .. k : f[i] = t[i]
    <2>1. /\ f \in Seq(S) /\ Len(f) = IF 1 <= k THEN k - 1 + 1 ELSE 0
          /\ \A i \in 1 .. k - 1 + 1 : f[i] = t[1 + i - 1]
        BY <1>1, <1>2, SubSeqProperties
    <2>2. QED
        BY <1>1, <2>1
<1>4. r \in Seq(S) /\ Len(r) = Len(t) - k /\ \A i \in 1 .. Len(t) - k : r[i] = t[k + i]
    <2>1. \A i \in k + 1 .. Len(t) : t[i] \in S
        BY <1>1
    <2>2. /\ r \in Seq(S)
          /\ Len(r) = IF k + 1 <= Len(t) THEN Len(t) - (k + 1) + 1 ELSE 0
          /\ \A i \in 1 .. Len(t) - (k + 1) + 1 : r[i] = t[k + 1 + i - 1]
        BY <1>1, <2>1, SubSeqProperties
    <2>3. QED
        BY <1>1, <2>2
<1> HIDE DEF f, r
<1>5. /\ s \o f \in Seq(S) /\ Len(s \o f) = Len(s) + k
      /\ \A i \in 1 .. Len(s) + k : (s \o f)[i] = IF i <= Len(s) THEN s[i] ELSE f[i - Len(s)]
    BY <1>3, ConcatProperties
<1>6. \A i \in 1 .. Len(s) : (s \o f)[i] = s[i]
    BY <1>1, <1>5
<1>7. \A i \in 1 .. k : (s \o f)[Len(s) + i] = t[i]
    <2>1. ASSUME NEW i \in 1 .. k PROVE (s \o f)[Len(s) + i] = t[i]
        <3>1. Len(s) + i \in 1 .. Len(s) + k /\ ~(Len(s) + i <= Len(s)) /\ Len(s) + i - Len(s) = i
            BY <1>1
        <3>2. QED
            BY <1>3, <1>5, <3>1
    <2>2. QED
        BY <2>1
<1>8. Moved(S, s, t, k, s \o f, r)
    BY <1>4, <1>5, <1>6, <1>7 DEF Moved
<1>9. QED
    BY <1>8 DEF f, r, After
------------------------------------------------------------------------------
(* Replies.                                                                *)

\* What the bytes of a reply are taken from.
Bytes == Byte \cup Nat

ReplyOf(n) == Word(n) \o [i \in 1 .. n |-> i]

\* The bytes of s are those of whole from position d + 1 on.
From(s, whole, d) ==
    /\ s \in Seq(Bytes) /\ d + Len(s) <= Len(whole)
    /\ \A i \in 1 .. Len(s) : s[i] = whole[d + i]

LEMMA ReplyFacts ==
    ASSUME NEW n \in ReplySizes
    PROVE  /\ ReplyOf(n) \in Seq(Bytes) /\ Len(ReplyOf(n)) = WordSize + n
           /\ \A i \in 1 .. WordSize : ReplyOf(n)[i] = Word(n)[i]
           /\ n \in 1 .. MaxMessageSize /\ Value(Word(n)) = n
<1> DEFINE w == Word(n)
           b == [i \in 1 .. n |-> i]
<1>1. n \in 1 .. MaxMessageSize /\ n \in Nat /\ WordSize \in Nat /\ MaxMessageSize \in Nat
    BY ClientAssumption, RequestsAssumption
<1>2. Value(Word(n)) = n
    <2>1. MaxMessageSize < Power[WordSize] /\ Power[WordSize] \in Nat
        BY <1>1, RequestsAssumption, Powers
    <2>2. QED
        BY <1>1, <2>1, ValueOfWord
<1>3. w \in [1 .. WordSize -> Byte] /\ Len(w) = WordSize
    BY <1>1, WordTyped
<1> HIDE DEF w
<1>4. w \in Seq(Bytes)
    <2>1. w \in [1 .. WordSize -> Bytes]
        BY <1>3 DEF Bytes
    <2>2. QED
        BY <1>1, <2>1, SeqDef
<1>5. b \in Seq(Bytes) /\ Len(b) = n
    <2>1. b \in [1 .. n -> Bytes]
        BY <1>1 DEF Bytes
    <2>2. QED
        BY <1>1, <2>1, SeqDef
<1> HIDE DEF b
<1>6. /\ w \o b \in Seq(Bytes) /\ Len(w \o b) = WordSize + n
      /\ \A i \in 1 .. WordSize + n : (w \o b)[i] = IF i <= WordSize THEN w[i] ELSE b[i - WordSize]
    BY <1>3, <1>4, <1>5, ConcatProperties
<1>7. \A i \in 1 .. WordSize : (w \o b)[i] = w[i]
    BY <1>1, <1>6
<1>8. QED
    BY <1>1, <1>2, <1>6, <1>7 DEF ReplyOf, w, b

\* The length that readFull's second call is given is the reply's.
LEMMA HeaderFacts ==
    ASSUME NEW n \in ReplySizes, NEW s, From(s, ReplyOf(n), 0), Len(s) >= WordSize
    PROVE  WordAt(s, 0) = n
<1>1. WordSize \in Nat /\ Len(s) \in Nat
    BY RequestsAssumption DEF From
<1>2. \A i \in 1 .. WordSize : s[0 + i] = Word(n)[i]
    <2>1. ASSUME NEW i \in 1 .. WordSize PROVE s[0 + i] = Word(n)[i]
        <3>1. i \in 1 .. Len(s) /\ 0 + i = i
            BY <1>1
        <3>2. s[i] = ReplyOf(n)[0 + i]
            BY <3>1 DEF From
        <3>3. QED
            BY <3>1, <3>2, ReplyFacts
    <2>2. QED
        BY <2>1
<1>3. [i \in 1 .. WordSize |-> s[0 + i]] = [i \in 1 .. WordSize |-> Word(n)[i]]
    BY <1>2
<1>4. [i \in 1 .. WordSize |-> Word(n)[i]] = Word(n)
    BY DEF Word
<1>5. QED
    BY <1>3, <1>4, ReplyFacts DEF WordAt

LEMMA TotalFacts ==
    ASSUME NEW n \in ReplySizes, NEW s, From(s, ReplyOf(n), 0)
    PROVE  /\ Total(s) \in Int /\ ~Overlong(s)
           /\ Len(s) = Total(s) => s = ReplyOf(n)
<1>1. /\ WordSize \in Nat \ {0} /\ Len(s) \in Nat /\ s \in Seq(Bytes)
      /\ n \in Nat \ {0} /\ n <= MaxMessageSize /\ MaxMessageSize \in Nat
    BY ReplyFacts, RequestsAssumption DEF From
<1>2. Len(s) >= WordSize => WordAt(s, 0) = n
    BY HeaderFacts
<1>3. Total(s) = IF Len(s) < WordSize THEN WordSize ELSE WordSize + n
    BY <1>1, <1>2 DEF Total
<1>4. ~Overlong(s)
    BY <1>1, <1>2 DEF Overlong
<1>5. ASSUME Len(s) = Total(s) PROVE s = ReplyOf(n)
    <2>1. Len(s) = WordSize + n
        BY <1>1, <1>3, <1>5
    <2>2. \A i \in 1 .. Len(s) : s[i] = ReplyOf(n)[i]
        <3>1. ASSUME NEW i \in 1 .. Len(s) PROVE s[i] = ReplyOf(n)[i]
            <4>1. s[i] = ReplyOf(n)[0 + i] /\ 0 + i = i
                BY <1>1 DEF From
            <4>2. QED
                BY <4>1
        <3>2. QED
            BY <3>1
    <2>3. QED
        BY <1>1, <2>1, <2>2, ReplyFacts, SeqEqual
<1>6. QED
    BY <1>1, <1>3, <1>4, <1>5
------------------------------------------------------------------------------
(* The inductive invariant.                                                *)

\* What was read, what is under way and, while the server lives, what is not
\* written yet are the bytes of the reply, in this order.
Stream ==
    /\ From(readBuffer, answer, 0)
    /\ From(toClient, answer, Len(readBuffer))
    /\ server = "up" => From(unsent, answer, Len(readBuffer) + Len(toClient))

Answered ==
    /\ parsed = {} => answer = <<>>
    /\ answer = <<>> \/ \E n \in ReplySizes : answer = ReplyOf(n)

IInv == Stream /\ Answered /\ ReplyPrinted

LEMMA EmptyFacts == \A d \in {0} : From(<<>>, <<>>, d)
BY DEF From

\* Nothing has been written or read at first.
LEMMA InitIInv == Init => IInv
<1> SUFFICES ASSUME Init PROVE IInv
    OBVIOUS
<1>1. /\ readBuffer = <<>> /\ toClient = <<>> /\ unsent = <<>> /\ answer = <<>>
      /\ pc = "connect"
    BY DEF Init
<1>2. Len(<<>>) = 0 /\ 0 + 0 = 0
    OBVIOUS
<1>3. QED
    BY <1>1, <1>2, EmptyFacts DEF IInv, Stream, Answered, ReplyPrinted

\* The answer the server gave is bytes.
LEMMA AnswerTyped ==
    ASSUME IInv
    PROVE  answer \in Seq(Bytes) /\ Len(answer) \in Nat
<1>1. answer \in Seq(Bytes)
    BY ReplyFacts, EmptySeq DEF IInv, Answered
<1>2. QED
    BY <1>1

\* Steps that leave the reply alone and print none.
LEMMA QuietStep ==
    ASSUME IInv, UNCHANGED <<readBuffer, toClient, unsent, answer, parsed>>,
           server' = "up" => server = "up",
           pc' = "done" => \/ pc = "done" /\ outcome' = outcome
                           \/ outcome' # "reply" /\ server' # "up"
    PROVE  IInv'
<1>1. Stream' /\ Answered'
    BY DEF IInv, Stream, Answered
<1>2. ReplyPrinted'
    BY DEF IInv, ReplyPrinted
<1>3. QED
    BY <1>1, <1>2 DEF IInv

\* A read takes the front of what is on its way to the client.
LEMMA ReadStep ==
    ASSUME IInv, Read
    PROVE  IInv'
<1>1. PICK k \in 1 .. Least(Total(readBuffer) - Len(readBuffer), Len(toClient)) :
         LET got == readBuffer \o SubSeq(toClient, 1, k)
             complete == Len(got) = Total(got)
         IN  /\ readBuffer' = got /\ toClient' = After(toClient, k)
             /\ pc' = IF complete \/ Overlong(got) THEN "done" ELSE "read"
             /\ outcome' = IF Overlong(got) THEN "too long"
                           ELSE IF complete THEN "reply" ELSE outcome
    BY DEF Read
<1>2. /\ pc = "read" /\ server' = server /\ unsent' = unsent /\ answer' = answer
      /\ parsed' = parsed
    BY DEF Read, connection
<1>3. /\ From(readBuffer, answer, 0) /\ From(toClient, answer, Len(readBuffer))
      /\ server = "up" => From(unsent, answer, Len(readBuffer) + Len(toClient))
    BY DEF IInv, Stream
<1>4. /\ readBuffer \in Seq(Bytes) /\ toClient \in Seq(Bytes)
      /\ Len(readBuffer) \in Nat /\ Len(toClient) \in Nat /\ Len(answer) \in Nat
      /\ Len(readBuffer) + Len(toClient) <= Len(answer)
    <2>1. answer \in Seq(Bytes)
        BY AnswerTyped
    <2>2. QED
        BY <1>3, <2>1 DEF From
<1>5. Total(readBuffer) \in Int
    <2>1. CASE answer = <<>>
        <3>1. Len(readBuffer) = 0 /\ WordSize \in Nat \ {0}
            BY <1>4, <2>1, RequestsAssumption
        <3>2. QED
            BY <3>1 DEF Total
    <2>2. CASE answer # <<>>
        BY <1>3, <2>2, TotalFacts DEF IInv, Answered
    <2>3. QED
        BY <2>1, <2>2
<1>6. k \in 1 .. Len(toClient)
    BY <1>4, <1>5 DEF Least
<1> DEFINE got == readBuffer \o SubSeq(toClient, 1, k)
<1>7. /\ got \in Seq(Bytes) /\ Len(got) = Len(readBuffer) + k
      /\ \A i \in 1 .. Len(readBuffer) : got[i] = readBuffer[i]
      /\ \A i \in 1 .. k : got[Len(readBuffer) + i] = toClient[i]
      /\ After(toClient, k) \in Seq(Bytes)
      /\ Len(After(toClient, k)) = Len(toClient) - k
      /\ \A i \in 1 .. Len(toClient) - k : After(toClient, k)[i] = toClient[k + i]
    <2>1. Moved(Bytes, readBuffer, toClient, k, got, After(toClient, k))
        BY <1>4, <1>6, MovedFacts
    <2>2. QED
        BY <2>1 DEF Moved
<1>8. /\ readBuffer' = got /\ toClient' = After(toClient, k)
      /\ pc' = IF Len(got) = Total(got) \/ Overlong(got) THEN "done" ELSE "read"
      /\ outcome' = IF Overlong(got) THEN "too long"
                    ELSE IF Len(got) = Total(got) THEN "reply" ELSE outcome
    BY <1>1
<1> HIDE DEF got
<1>9. From(got, answer, 0)
    <2>1. ASSUME NEW i \in 1 .. Len(got) PROVE got[i] = answer[0 + i]
        <3>1. CASE i <= Len(readBuffer)
            BY <1>3, <1>4, <1>7, <3>1 DEF From
        <3>2. CASE i > Len(readBuffer)
            <4> DEFINE j == i - Len(readBuffer)
            <4>1. j \in 1 .. k /\ j \in 1 .. Len(toClient) /\ Len(readBuffer) + j = 0 + i
                BY <1>4, <1>6, <1>7, <3>2
            <4>2. Len(readBuffer) + j = i
                BY <1>4
            <4> HIDE DEF j
            <4>3. got[Len(readBuffer) + j] = toClient[j] /\ toClient[j] = answer[Len(readBuffer) + j]
                BY <1>3, <1>7, <4>1 DEF From
            <4>4. QED
                BY <4>1, <4>2, <4>3
        <3>3. QED
            BY <1>4, <3>1, <3>2
    <2>2. 0 + Len(got) <= Len(answer)
        BY <1>4, <1>6, <1>7
    <2>3. QED
        BY <1>7, <2>1, <2>2 DEF From
<1>10. From(After(toClient, k), answer, Len(got))
    <2>1. ASSUME NEW i \in 1 .. Len(After(toClient, k))
          PROVE  After(toClient, k)[i] = answer[Len(got) + i]
        <3>1. k + i \in 1 .. Len(toClient) /\ i \in 1 .. Len(toClient) - k
            BY <1>4, <1>6, <1>7
        <3>2. toClient[k + i] = answer[Len(readBuffer) + (k + i)]
            BY <1>3, <3>1 DEF From
        <3>3. Len(readBuffer) + (k + i) = Len(got) + i
            BY <1>4, <1>6, <1>7
        <3>4. QED
            BY <1>7, <3>1, <3>2, <3>3
    <2>2. Len(got) + Len(After(toClient, k)) <= Len(answer)
        BY <1>4, <1>6, <1>7
    <2>3. QED
        BY <1>7, <2>1, <2>2 DEF From
<1>11. Len(got) + Len(After(toClient, k)) = Len(readBuffer) + Len(toClient)
    BY <1>4, <1>6, <1>7
<1>12. Stream'
    BY <1>2, <1>3, <1>8, <1>9, <1>10, <1>11 DEF Stream
<1>13. Answered'
    BY <1>2 DEF IInv, Answered
<1>14. PICK n \in ReplySizes : answer = ReplyOf(n)
    <2>1. Len(answer) # 0
        BY <1>4, <1>6
    <2>2. answer # <<>>
        BY <2>1
    <2>3. QED
        BY <2>2 DEF IInv, Answered
<1>15. ~Overlong(got) /\ (Len(got) = Total(got) => got = answer)
    BY <1>9, <1>14, TotalFacts
<1>16. parsed # {}
    <2>1. answer # <<>>
        BY <1>4, <1>6
    <2>2. QED
        BY <2>1 DEF IInv, Answered
<1>17. ReplyPrinted'
    BY <1>2, <1>8, <1>15, <1>16 DEF ReplyPrinted
<1>18. QED
    BY <1>12, <1>13, <1>17 DEF IInv

\* An answer is given once the request is whole.
LEMMA HandleStep ==
    ASSUME IInv, ServerHandles
    PROVE  IInv'
<1>1. /\ readBuffer' = readBuffer /\ toClient' = toClient /\ pc' = pc /\ outcome' = outcome
      /\ parsed = {} /\ parsed' # {} /\ server = "up"
      /\ \/ \E n \in ReplySizes : answer' = ReplyOf(n) /\ unsent' = answer' /\ server' = server
         \/ server' = "closed" /\ UNCHANGED <<answer, unsent>>
    BY DEF ServerHandles, ReplyOf, client
<1>2. answer = <<>> /\ pc # "done"
    BY <1>1 DEF IInv, Answered, ReplyPrinted
<1>3. From(readBuffer, <<>>, 0) /\ From(toClient, <<>>, Len(readBuffer))
    BY <1>2 DEF IInv, Stream
<1>4. /\ Len(readBuffer) = 0 /\ Len(toClient) = 0
      /\ readBuffer \in Seq(Bytes) /\ toClient \in Seq(Bytes)
    BY <1>3 DEF From
<1>5. ReplyPrinted'
    BY <1>1, <1>2 DEF IInv, ReplyPrinted
<1>6. CASE \E n \in ReplySizes : answer' = ReplyOf(n) /\ unsent' = answer' /\ server' = server
    <2>1. answer' \in Seq(Bytes) /\ unsent' = answer' /\ Len(answer') \in Nat
        BY <1>6, ReplyFacts
    <2>2. From(readBuffer', answer', 0) /\ From(toClient', answer', Len(readBuffer'))
        BY <1>1, <1>4, <2>1 DEF From
    <2>3. From(unsent', answer', Len(readBuffer') + Len(toClient'))
        BY <1>1, <1>4, <2>1 DEF From
    <2>4. Stream' /\ Answered'
        BY <1>1, <1>6, <2>2, <2>3 DEF Stream, Answered
    <2>5. QED
        BY <1>5, <2>4 DEF IInv
<1>7. CASE server' = "closed" /\ UNCHANGED <<answer, unsent>>
    <2>1. Stream'
        BY <1>1, <1>7 DEF IInv, Stream
    <2>2. Answered'
        BY <1>1, <1>2, <1>7 DEF Answered
    <2>3. QED
        BY <1>5, <2>1, <2>2 DEF IInv
<1>8. QED
    BY <1>1, <1>6, <1>7

\* The server writes the front of what is left of the answer.
LEMMA WriteStep ==
    ASSUME IInv, ServerWrites
    PROVE  IInv'
<1>1. PICK k \in 1 .. Len(unsent) : /\ toClient' = toClient \o SubSeq(unsent, 1, k)
                                    /\ unsent' = After(unsent, k)
    BY DEF ServerWrites
<1>2. /\ server = "up" /\ server' = server /\ readBuffer' = readBuffer /\ pc' = pc
      /\ outcome' = outcome /\ answer' = answer /\ parsed' = parsed
    BY DEF ServerWrites, client
<1>3. /\ From(readBuffer, answer, 0) /\ From(toClient, answer, Len(readBuffer))
      /\ From(unsent, answer, Len(readBuffer) + Len(toClient))
    BY <1>2 DEF IInv, Stream
<1> DEFINE a == Len(readBuffer)
           b == Len(toClient)
<1>4. /\ toClient \in Seq(Bytes) /\ unsent \in Seq(Bytes)
      /\ a \in Nat /\ b \in Nat /\ Len(unsent) \in Nat /\ Len(answer) \in Nat
      /\ a + b + Len(unsent) <= Len(answer)
    <2>1. answer \in Seq(Bytes)
        BY AnswerTyped
    <2>2. QED
        BY <1>3, <2>1 DEF From
<1>5. /\ toClient' \in Seq(Bytes) /\ Len(toClient') = b + k
      /\ \A i \in 1 .. b : toClient'[i] = toClient[i]
      /\ \A i \in 1 .. k : toClient'[b + i] = unsent[i]
      /\ unsent' \in Seq(Bytes) /\ Len(unsent') = Len(unsent) - k
      /\ \A i \in 1 .. Len(unsent) - k : unsent'[i] = unsent[k + i]
    <2>1. Moved(Bytes, toClient, unsent, k, toClient', unsent')
        BY <1>1, <1>4, MovedFacts
    <2>2. QED
        BY <2>1 DEF Moved
<1>6. /\ \A i \in 1 .. b : toClient[i] = answer[a + i]
      /\ \A i \in 1 .. Len(unsent) : unsent[i] = answer[a + b + i]
    BY <1>3 DEF From
<1>7. k \in Int /\ k <= Len(unsent) /\ k >= 1
    BY <1>4
<1>8. From(toClient', answer', Len(readBuffer'))
    <2>1. ASSUME NEW i \in 1 .. b + k PROVE toClient'[i] = answer[a + i]
        <3>1. CASE i <= b
            BY <1>4, <1>5, <1>6, <3>1
        <3>2. CASE i > b
            <4>1. i - b \in 1 .. k /\ i - b \in 1 .. Len(unsent)
                BY <1>4, <1>7, <3>2
            <4>2. b + (i - b) = i /\ a + b + (i - b) = a + i
                BY <1>4, <1>7
            <4>3. toClient'[b + (i - b)] = answer[a + b + (i - b)]
                BY <1>5, <1>6, <4>1
            <4>4. QED
                BY <4>2, <4>3
        <3>3. QED
            BY <1>4, <1>7, <3>1, <3>2
    <2>2. a + (b + k) <= Len(answer)
        BY <1>4, <1>7
    <2>3. QED
        BY <1>2, <1>5, <2>1, <2>2 DEF From
<1>9. From(unsent', answer', Len(readBuffer') + Len(toClient'))
    <2>1. ASSUME NEW i \in 1 .. Len(unsent) - k
          PROVE  unsent'[i] = answer[a + (b + k) + i]
        <3>1. k + i \in 1 .. Len(unsent) /\ a + b + (k + i) = a + (b + k) + i
            BY <1>4, <1>7
        <3>2. unsent[k + i] = answer[a + b + (k + i)]
            BY <1>6, <3>1
        <3>3. QED
            BY <1>5, <3>1, <3>2
    <2>2. a + (b + k) + (Len(unsent) - k) <= Len(answer)
        BY <1>4, <1>7
    <2>3. QED
        BY <1>2, <1>5, <2>1, <2>2 DEF From
<1>10. Stream'
    BY <1>2, <1>3, <1>8, <1>9 DEF Stream
<1>11. Answered' /\ ReplyPrinted'
    BY <1>2 DEF IInv, Answered, ReplyPrinted
<1>12. QED
    BY <1>10, <1>11 DEF IInv

\* A server that goes takes along what it has not written, never what the client has.
LEMMA DieStep ==
    ASSUME IInv, ServerDies
    PROVE  IInv'
<1>1. /\ server = "up" /\ server' # "up" /\ readBuffer' = readBuffer /\ pc' = pc
      /\ outcome' = outcome /\ answer' = answer /\ parsed' = parsed
      /\ \/ toClient' = toClient
         \/ \E n \in 0 .. Len(toClient) : toClient' = SubSeq(toClient, 1, n)
    BY DEF ServerDies, client, connection
<1>2. From(readBuffer, answer, 0) /\ From(toClient, answer, Len(readBuffer))
    BY DEF IInv, Stream
<1>3. From(toClient', answer, Len(readBuffer))
    <2>1. CASE toClient' = toClient
        BY <1>2, <2>1
    <2>2. CASE \E n \in 0 .. Len(toClient) : toClient' = SubSeq(toClient, 1, n)
        <3>1. PICK n \in 0 .. Len(toClient) : toClient' = SubSeq(toClient, 1, n)
            BY <2>2
        <3>2. /\ toClient \in Seq(Bytes) /\ Len(toClient) \in Nat /\ n \in Int
              /\ Len(readBuffer) \in Nat /\ Len(answer) \in Int
              /\ Len(readBuffer) + Len(toClient) <= Len(answer)
            <4>1. answer \in Seq(Bytes)
                BY AnswerTyped
            <4>2. QED
                BY <1>2, <4>1 DEF From
        <3>3. \A i \in 1 .. n : toClient[i] \in Bytes
            BY <3>2, ElementOfSeq
        <3>4. /\ SubSeq(toClient, 1, n) \in Seq(Bytes)
              /\ Len(SubSeq(toClient, 1, n)) = IF 1 <= n THEN n - 1 + 1 ELSE 0
              /\ \A i \in 1 .. n - 1 + 1 : SubSeq(toClient, 1, n)[i] = toClient[1 + i - 1]
            BY <3>2, <3>3, SubSeqProperties
        <3>5. /\ toClient' \in Seq(Bytes) /\ Len(toClient') = n
              /\ \A i \in 1 .. n : toClient'[i] = toClient[i]
            BY <3>1, <3>2, <3>4
        <3>6. \A i \in 1 .. n : toClient'[i] = answer[Len(readBuffer) + i]
            BY <1>2, <3>2, <3>5 DEF From
        <3>7. Len(readBuffer) + n <= Len(answer)
            BY <3>2
        <3>8. QED
            BY <3>5, <3>6, <3>7 DEF From
    <2>3. QED
        BY <1>1, <2>1, <2>2
<1>4. Stream'
    BY <1>1, <1>2, <1>3 DEF Stream
<1>5. Answered' /\ ReplyPrinted'
    BY <1>1 DEF IInv, Answered, ReplyPrinted
<1>6. QED
    BY <1>4, <1>5 DEF IInv

\* Every step keeps the reply's way.
LEMMA NextIInv == IInv /\ [Next]_vars => IInv'
<1> SUFFICES ASSUME IInv, [Next]_vars PROVE IInv'
    OBVIOUS
<1>1. CASE Connect \/ ConnectFails
    BY <1>1, QuietStep DEF Connect, ConnectFails, connection
<1>2. CASE WriteSome
    BY <1>2, QuietStep DEF WriteSome, Wrote, connection
<1>3. CASE WriteLost
    BY <1>3, QuietStep DEF WriteLost, Wrote, connection
<1>4. CASE WriteFails \/ WriteKilled
    BY <1>4, QuietStep DEF WriteFails, WriteKilled, connection
<1>5. CASE Read
    BY <1>5, ReadStep
<1>6. CASE ReadFails
    BY <1>6, QuietStep DEF ReadFails, StreamFailed, connection
<1>7. CASE ServerReads
    BY <1>7, QuietStep DEF ServerReads, client
<1>8. CASE ServerHandles
    BY <1>8, HandleStep
<1>9. CASE ServerWrites
    BY <1>9, WriteStep
<1>10. CASE ServerDies
    BY <1>10, DieStep
<1>11. CASE UNCHANGED vars
    BY <1>11, QuietStep DEF vars, client, connection
<1>12. QED
    BY <1>1, <1>2, <1>3, <1>4, <1>5, <1>6, <1>7, <1>8, <1>9, <1>10, <1>11
       DEF Next, Run, Serve

\* A client prints a reply only when it has all of it, and the very one the
\* server gave, in whatever pieces it came; and it prints none only when the
\* server is gone.  No header makes it take a reply for too long.
THEOREM RepliesPrintedWhole == Spec => []ReplyPrinted
<1>1. IInv => ReplyPrinted
    BY DEF IInv
<1>2. QED
    BY <1>1, InitIInv, NextIInv, PTL DEF Spec
------------------------------------------------------------------------------
(* Requests.                                                               *)

\* What is written is the message that a request stands for, after its length.
Stands(r, message) ==
    /\ message \in Texts /\ r.bytes = Word(Len(message)) \o message
    /\ r.program = "client" => r.command \in Seq(Texts) /\ message = Message(r.command)
    /\ (r.program = "client" /\ TooLong(r.command)) \/ Len(message) <= MaxMessageSize

Requests == {ByClient(c) : c \in Commands} \cup {ByOther(m) : m \in Messages}

\* Both programs' requests are framed messages; only the client builds long ones.
LEMMA RequestFacts ==
    ASSUME NEW r \in Requests
    PROVE  \E message : Stands(r, message)
<1>1. CASE \E c \in Commands : r = ByClient(c)
    <2>1. PICK c \in Commands : r = ByClient(c)
        BY <1>1
    <2>2. c \in Seq(Texts)
        BY ClientAssumption DEF Texts
    <2>3. /\ Message(c) \in Texts /\ MessageLength(c) = Len(Message(c))
          /\ Len(Message(c)) \in Nat /\ MaxMessageSize \in Nat
        BY <2>2, MessageIs, MessageSize, RequestsAssumption DEF Texts
    <2>4. r.program = "client" /\ r.command = c /\ r.bytes = Word(Len(Message(c))) \o Message(c)
        BY <2>1, <2>3 DEF ByClient, Frame
    <2>5. TooLong(c) \/ Len(Message(c)) <= MaxMessageSize
        BY <2>3 DEF TooLong
    <2>6. Stands(r, Message(c))
        BY <2>2, <2>3, <2>4, <2>5 DEF Stands
    <2>7. QED
        BY <2>6
<1>2. CASE \E m \in Messages : r = ByOther(m)
    <2>1. PICK m \in Messages : r = ByOther(m)
        BY <1>2
    <2>2. m \in Texts /\ Len(m) <= MaxMessageSize
        BY ClientAssumption DEF Texts
    <2>3. r.program = "other" /\ r.bytes = Word(Len(m)) \o m
        BY <2>1 DEF ByOther
    <2>4. Stands(r, m)
        BY <2>2, <2>3 DEF Stands
    <2>5. QED
        BY <2>4
<1>3. QED
    BY <1>1, <1>2 DEF Requests

\* The frame of a message and what is behind its length.
LEMMA StandsTyped ==
    ASSUME NEW r, NEW message, Stands(r, message)
    PROVE  /\ r.bytes \in Texts /\ Len(r.bytes) = WordSize + Len(message)
           /\ Len(message) \in Nat
           /\ SubSeq(r.bytes, 1, WordSize) = Word(Len(message))
           /\ After(r.bytes, WordSize) = message
<1> DEFINE n == Len(message)
           w == Word(n)
           b == r.bytes
<1>1. n \in Nat /\ message \in Seq(Byte) /\ WordSize \in Nat \ {0}
    BY RequestsAssumption DEF Stands, Texts
<1>2. w \in Seq(Byte) /\ Len(w) = WordSize
    BY <1>1, WordTyped
<1>3. b = w \o message
    BY DEF Stands
<1> HIDE DEF w, n, b
<1>4. b \in Seq(Byte) /\ Len(b) = WordSize + n
    BY <1>1, <1>2, <1>3, ConcatProperties DEF n
<1>5. 1 \in 1 .. Len(b) + 1 /\ WordSize \in 1 - 1 .. Len(b) /\ Len(b) \in WordSize .. Len(b)
    BY <1>1, <1>4
<1> DEFINE s == SubSeq(b, 1, WordSize)
           t == SubSeq(b, WordSize + 1, Len(b))
<1>6. s \o t = SubSeq(b, 1, Len(b))
    BY <1>4, <1>5, ConcatAdjacentSubSeq
<1>7. SubSeq(b, 1, Len(b)) = b
    BY <1>4, SubSeqFull
<1>8. s \in Texts /\ Len(s) = WordSize /\ t \in Texts
    <2>1. b \in Texts /\ WordSize \in 0 .. Len(b) /\ 0 \in 0 .. WordSize /\ Len(b) \in 0 .. Len(b)
        BY <1>1, <1>4 DEF Texts
    <2>2. Rest(b, WordSize, 0) \in Texts /\ Len(Rest(b, WordSize, 0)) = WordSize - 0
        BY <2>1, RestTyped
    <2>3. Rest(b, Len(b), WordSize) \in Texts
        BY <2>1, RestTyped
    <2>4. 0 + 1 = 1 /\ WordSize - 0 = WordSize
        BY <1>1
    <2>5. QED
        BY <2>2, <2>3, <2>4 DEF Rest
<1> HIDE DEF s, t
<1>9. s \o t = w \o message
    BY <1>3, <1>6, <1>7
<1>10. s = w /\ t = message
    <2>1. w \in Texts /\ message \in Texts /\ Len(s) = Len(w)
        BY <1>1, <1>2, <1>8 DEF Texts
    <2>2. QED
        BY <1>8, <1>9, <2>1, Cancel
<1>11. b \in Texts
    BY <1>4 DEF Texts
<1>12. QED
    BY <1>1, <1>4, <1>10, <1>11 DEF s, t, b, n, w, After

\* A read buffer that holds a whole frame holds the request, no more and no
\* less, and Request::parse is given the request's message.
LEMMA ReceivedWhole ==
    ASSUME NEW message, Stands(request, message), Len(message) <= MaxMessageSize,
           received \in Texts, toServer \in Texts, bytesWrote \in 0 .. Len(request.bytes),
           received \o toServer = SubSeq(request.bytes, 1, bytesWrote), Complete
    PROVE  WordAt(received, 0) = Len(message) /\ After(received, WordSize) = message
<1> DEFINE n == Len(message)
           b == request.bytes
           L == Len(received)
<1>1. /\ b \in Texts /\ Len(b) = WordSize + n /\ n \in Nat
      /\ SubSeq(b, 1, WordSize) = Word(n) /\ After(b, WordSize) = message
    BY StandsTyped
<1>2. /\ WordSize \in Nat \ {0} /\ L \in Nat /\ bytesWrote \in Nat /\ MaxMessageSize \in Nat
      /\ bytesWrote <= Len(b) /\ Len(toServer) \in Nat /\ L >= WordSize
    BY <1>1, RequestsAssumption DEF Texts, Complete
<1> HIDE DEF b, n
<1>3. L <= bytesWrote /\ SubSeq(b, 1, L) = received
    <2> DEFINE s == SubSeq(b, 1, bytesWrote)
               f == SubSeq(b, 1, L)
               u == SubSeq(b, L + 1, bytesWrote)
    <2>1. bytesWrote \in 0 .. Len(b) /\ 0 \in 0 .. bytesWrote /\ bytesWrote - 0 = bytesWrote /\ 0 + 1 = 1
        BY <1>2 DEF b
    <2>2. Rest(b, bytesWrote, 0) \in Texts /\ Len(Rest(b, bytesWrote, 0)) = bytesWrote - 0
        BY <1>1, <2>1, RestTyped
    <2>3. s \in Texts /\ Len(s) = bytesWrote
        BY <2>1, <2>2 DEF Rest
    <2>4. received \o toServer = s
        BY DEF b
    <2>5. Len(received \o toServer) = L + Len(toServer)
        <3>1. received \in Seq(Byte) /\ toServer \in Seq(Byte)
            BY DEF Texts
        <3>2. QED
            BY <3>1, ConcatProperties
    <2>6. L <= bytesWrote
        <3> HIDE DEF s, L
        <3>1. bytesWrote = L + Len(toServer)
            BY <2>3, <2>4, <2>5
        <3>2. QED
            BY <1>2, <3>1
    <2>7. /\ 1 \in 1 .. Len(b) + 1 /\ L \in 1 - 1 .. Len(b) /\ bytesWrote \in L .. Len(b)
          /\ L \in 0 .. Len(b) /\ 0 \in 0 .. L /\ L - 0 = L /\ bytesWrote \in 0 .. Len(b)
          /\ L \in 0 .. bytesWrote
        BY <1>1, <1>2, <2>6
    <2> HIDE DEF L
    <2>8. f \o u = s
        <3>1. b \in Seq(Byte)
            BY <1>1 DEF Texts
        <3>2. QED
            BY <2>7, <3>1, ConcatAdjacentSubSeq
    <2>9. f \in Texts /\ Len(f) = L
        <3>1. Rest(b, L, 0) \in Texts /\ Len(Rest(b, L, 0)) = L - 0
            BY <1>1, <2>7, RestTyped
        <3>2. QED
            BY <2>1, <2>7, <3>1 DEF Rest
    <2>10. u \in Texts
        <3>1. Rest(b, bytesWrote, L) \in Texts
            BY <1>1, <2>7, RestTyped
        <3>2. QED
            BY <3>1 DEF Rest
    <2> HIDE DEF f, u, s
    <2>11. f \o u = received \o toServer
        BY <2>4, <2>8
    <2>12. Len(f) = Len(received)
        BY <2>9 DEF L
    <2>13. f = received
        BY <2>9, <2>10, <2>11, <2>12, Cancel
    <2>14. QED
        BY <2>6, <2>13 DEF f, L
<1>4. WordAt(received, 0) = n
    <2>1. /\ 0 + 1 = 1 /\ 0 + WordSize = WordSize /\ 0 \in Nat /\ 0 + WordSize <= Len(received)
        BY <1>2
    <2>2. WordAt(received, 0) = Value(SubSeq(received, 1, WordSize))
        <3>1. WordAt(received, 0) = Value(SubSeq(received, 0 + 1, 0 + WordSize))
            BY <2>1, WordThere
        <3>2. QED
            BY <2>1, <3>1
    <2>3. SubSeq(received, 1, WordSize) = SubSeq(b, 1, WordSize)
        <3>1. /\ b \in Seq(Byte) /\ 1 \in 1 .. Len(b) /\ L \in 1 .. Len(b)
              /\ 1 \in 1 .. L - 1 + 1 /\ WordSize \in 1 .. L - 1 + 1
              /\ 1 + 1 - 1 = 1 /\ 1 + WordSize - 1 = WordSize
            BY <1>1, <1>2, <1>3 DEF Texts
        <3> HIDE DEF L
        <3>2. SubSeq(SubSeq(b, 1, L), 1, WordSize) = SubSeq(b, 1 + 1 - 1, 1 + WordSize - 1)
            BY <3>1, SubSeqOfSubSeq
        <3>3. QED
            BY <1>3, <3>1, <3>2
    <2>4. MaxMessageSize < Power[WordSize] /\ n < Power[WordSize]
        <3>1. Power[WordSize] \in Nat /\ Power[WordSize] > MaxMessageSize + WordSize
            BY <1>2, Powers, RequestsAssumption
        <3>2. QED
            BY <1>1, <1>2, <3>1 DEF n
    <2>5. Value(Word(n)) = n
        BY <1>1, <2>4, ValueOfWord
    <2>6. QED
        BY <1>1, <2>2, <2>3, <2>5
<1>5. L = Len(b)
    <2>1. L >= WordSize + n
        BY <1>4 DEF Complete
    <2> DEFINE e == Len(b)
    <2>2. e = WordSize + n /\ n \in Nat /\ bytesWrote <= e /\ L <= bytesWrote
        BY <1>1, <1>2, <1>3
    <2> HIDE DEF L, e
    <2>3. L = e
        BY <1>2, <2>1, <2>2
    <2>4. QED
        BY <2>3 DEF e
<1>6. received = b
    <2>1. SubSeq(b, 1, Len(b)) = b
        <3>1. b \in Seq(Byte)
            BY <1>1 DEF Texts
        <3>2. QED
            BY <3>1, SubSeqFull
    <2>2. QED
        BY <1>3, <1>5, <2>1
<1>7. QED
    BY <1>1, <1>4, <1>6 DEF n, b
------------------------------------------------------------------------------
(* The inductive invariant of the requests.                                *)

\* While the server lives, what it has read and what is under way to it are the
\* bytes written so far, in this order.
Written ==
    /\ bytesWrote \in 0 .. Len(request.bytes)
    /\ Unsendable => bytesWrote = 0 /\ pc # "write"
    /\ received \in Texts /\ toServer \in Texts
    /\ server = "up" => received \o toServer = SubSeq(request.bytes, 1, bytesWrote)

RInv == request \in Requests /\ Written /\ ParseExact /\ Understood

\* Nothing of the request is on its way at first.
LEMMA InitRInv == Init => RInv
<1> SUFFICES ASSUME Init PROVE RInv
    OBVIOUS
<1>1. /\ request \in Requests /\ bytesWrote = 0 /\ pc = "connect"
      /\ received = <<>> /\ toServer = <<>> /\ parsed = {}
    BY DEF Init, Requests
<1>2. PICK message : Stands(request, message)
    BY <1>1, RequestFacts
<1>3. request.bytes \in Texts /\ Len(request.bytes) \in Nat
    BY <1>2, StandsTyped DEF Texts
<1>4. SubSeq(request.bytes, 1, 0) = <<>>
    BY SubSeqEmpty
<1>5. <<>> \in Texts /\ <<>> \o <<>> = <<>>
    BY EmptySeq, ConcatEmptySeq DEF Texts
<1>6. Written
    BY <1>1, <1>3, <1>4, <1>5 DEF Written
<1>7. ParseExact /\ Understood
    BY <1>1 DEF ParseExact, Understood
<1>8. QED
    BY <1>1, <1>6, <1>7 DEF RInv

\* Steps that neither write nor read a request.
LEMMA IdleStep ==
    ASSUME RInv, UNCHANGED <<request, bytesWrote, received, parsed>>,
           toServer' = toServer \/ (toServer' = <<>> /\ server' # "up"),
           server' = "up" => server = "up",
           pc' = "write" => pc = "write" \/ ~Unsendable
    PROVE  RInv'
<1>1. Unsendable' <=> Unsendable
    BY DEF Unsendable
<1>2. toServer' \in Texts
    BY EmptySeq DEF RInv, Written, Texts
<1>3. server' = "up" => server = "up" /\ toServer' = toServer
    OBVIOUS
<1>4. Written'
    BY <1>1, <1>2, <1>3 DEF RInv, Written
<1>5. ParseExact' /\ Understood'
    BY DEF RInv, ParseExact, Understood
<1>6. QED
    BY <1>4, <1>5 DEF RInv

\* Steps that write a piece that is lost.
LEMMA LostStep ==
    ASSUME RInv, WriteLost
    PROVE  RInv'
<1>1. PICK k \in 1 .. Len(request.bytes) - bytesWrote : Wrote(k)
    BY DEF WriteLost
<1>2. /\ pc = "write" /\ bytesWrote' = bytesWrote + k /\ server' # "up"
      /\ UNCHANGED <<request, toServer, received, parsed>>
    BY <1>1 DEF WriteLost, Wrote, connection
<1>3. ~Unsendable /\ ~Unsendable'
    BY <1>2 DEF RInv, Written, Unsendable
<1>4. bytesWrote' \in 0 .. Len(request.bytes)
    <2>1. PICK message : Stands(request, message)
        BY RequestFacts DEF RInv
    <2>2. Len(request.bytes) \in Nat
        BY <2>1, StandsTyped DEF Texts
    <2>3. QED
        BY <1>2, <2>2 DEF RInv, Written
<1>5. Written'
    BY <1>2, <1>3, <1>4 DEF RInv, Written
<1>6. ParseExact' /\ Understood'
    BY <1>2 DEF RInv, ParseExact, Understood
<1>7. QED
    BY <1>2, <1>5, <1>6 DEF RInv

\* A piece sent goes to the end of what is on its way.
LEMMA SendStep ==
    ASSUME RInv, WriteSome
    PROVE  RInv'
<1> DEFINE b == request.bytes
<1>1. PICK message : Stands(request, message)
    BY RequestFacts DEF RInv
<1>2. b \in Seq(Byte) /\ Len(b) \in Nat
    BY <1>1, StandsTyped DEF Texts
<1>3. bytesWrote \in 0 .. Len(b) /\ received \in Seq(Byte) /\ toServer \in Seq(Byte)
    BY DEF RInv, Written, Texts
<1>4. PICK k \in 1 .. Least(Len(b) - bytesWrote, SendSpace - Len(toServer)) :
         Wrote(k) /\ toServer' = toServer \o Piece(k)
    BY DEF WriteSome
<1>5. k \in Nat /\ k <= Len(b) - bytesWrote
    <2>1. SendSpace - Len(toServer) \in Int /\ Len(b) - bytesWrote \in Int
        BY <1>2, <1>3, ClientAssumption
    <2>2. QED
        BY <2>1 DEF Least
<1>6. /\ pc = "write" /\ server = "up" /\ bytesWrote' = bytesWrote + k
      /\ UNCHANGED <<request, received, parsed, server>>
    BY <1>4 DEF WriteSome, Wrote, connection
<1>7. ~Unsendable /\ ~Unsendable'
    BY <1>6 DEF RInv, Written, Unsendable
<1> HIDE DEF b
<1> DEFINE m == bytesWrote
           n == bytesWrote + k
           f == SubSeq(b, 1, m)
           p == SubSeq(b, m + 1, n)
<1>8. m \in Nat /\ n \in 0 .. Len(b) /\ m \in 0 .. n
    BY <1>2, <1>3, <1>5
<1>9. p \in Seq(Byte)
    <2> HIDE DEF m, n
    <2>1. Rest(b, n, m) \in Texts
        BY <1>2, <1>8, RestTyped DEF Texts
    <2>2. QED
        BY <2>1 DEF Rest, Texts
<1>10. f \o p = SubSeq(b, 1, n)
    <2>1. 1 \in 1 .. Len(b) + 1 /\ m \in 1 - 1 .. Len(b) /\ n \in m .. Len(b)
        BY <1>2, <1>8
    <2> HIDE DEF m, n
    <2>2. QED
        BY <1>2, <2>1, ConcatAdjacentSubSeq
<1>11. toServer' = toServer \o p
    BY <1>4 DEF Piece, b
<1>12. received \o toServer = f
    BY <1>6 DEF RInv, Written, b
<1> HIDE DEF f, p, m, n
<1>13. received \o toServer' = SubSeq(b, 1, n)
    BY <1>3, <1>9, <1>10, <1>11, <1>12, Associate
<1>14. toServer' \in Texts
    BY <1>3, <1>9, <1>11, ConcatProperties DEF Texts
<1>15. Written'
    BY <1>3, <1>6, <1>7, <1>8, <1>13, <1>14 DEF Written, Texts, b, n
<1>16. ParseExact' /\ Understood'
    BY <1>6 DEF RInv, ParseExact, Understood
<1>17. QED
    BY <1>6, <1>15, <1>16 DEF RInv

\* What the server reads moves from one to the other.
LEMMA ReceiveStep ==
    ASSUME RInv, ServerReads
    PROVE  RInv'
<1>1. /\ server = "up" /\ received' = received \o toServer /\ toServer' = <<>>
      /\ UNCHANGED <<request, bytesWrote, pc, server, parsed>>
    BY DEF ServerReads, client
<1>2. received \in Seq(Byte) /\ toServer \in Seq(Byte)
    BY DEF RInv, Written, Texts
<1>3. received' \in Seq(Byte)
    BY <1>1, <1>2, ConcatProperties
<1>4. received' \o <<>> = received'
    BY <1>3, ConcatEmptySeq
<1>5. received' \o toServer' = SubSeq(request.bytes, 1, bytesWrote)
    BY <1>1, <1>4 DEF RInv, Written
<1>6. Unsendable' <=> Unsendable
    BY <1>1 DEF Unsendable
<1>7. toServer' \in Texts /\ received' \in Texts
    BY <1>1, <1>3, EmptySeq DEF Texts
<1>8. Written'
    BY <1>1, <1>5, <1>6, <1>7 DEF RInv, Written
<1>9. ParseExact' /\ Understood'
    BY <1>1 DEF RInv, ParseExact, Understood
<1>10. QED
    BY <1>1, <1>8, <1>9 DEF RInv

\* What the server makes of a whole frame.
LEMMA ParseStep ==
    ASSUME RInv, ServerHandles
    PROVE  RInv'
<1> DEFINE stale == [i \in 1 .. MaxMessageSize |-> 0]
           memory == After(received, WordSize) \o stale
           p == Parse(memory, WordAt(received, 0))
<1>1. /\ server = "up" /\ Complete /\ parsed' = {p} /\ (server' = "up" => server = "up")
      /\ UNCHANGED <<request, bytesWrote, pc, toServer, received>>
    BY DEF ServerHandles, client
<1>2. PICK m : Stands(request, m)
    BY RequestFacts DEF RInv
<1>3. /\ Len(m) \in Nat /\ m \in Texts /\ After(request.bytes, WordSize) = m
      /\ Len(request.bytes) = WordSize + Len(m)
    BY <1>2, StandsTyped DEF Stands
<1>4. /\ bytesWrote \in 0 .. Len(request.bytes) /\ received \in Texts /\ toServer \in Texts
      /\ received \o toServer = SubSeq(request.bytes, 1, bytesWrote)
    BY <1>1 DEF RInv, Written
<1>5. ~Unsendable
    <2>1. ASSUME Unsendable PROVE FALSE
        <3>1. bytesWrote = 0
            BY <2>1 DEF RInv, Written
        <3>2. received \o toServer = <<>>
            BY <1>4, <3>1, SubSeqEmpty
        <3>3. Len(received \o toServer) = Len(received) + Len(toServer)
            BY <1>4, ConcatProperties DEF Texts
        <3>4. Len(received) \in Nat /\ Len(toServer) \in Nat /\ WordSize \in Nat \ {0}
            BY <1>4, RequestsAssumption DEF Texts
        <3>5. Len(received) >= WordSize
            BY <1>1 DEF Complete
        <3>6. Len(<<>>) = 0
            OBVIOUS
        <3>7. Len(received) + Len(toServer) = 0
            BY <3>2, <3>3, <3>6
        <3>8. QED
            BY <3>4, <3>5, <3>7
    <2>2. QED
        BY <2>1
<1>6. Len(m) <= MaxMessageSize
    BY <1>2, <1>5 DEF Stands, Unsendable
<1>7. WordAt(received, 0) = Len(m) /\ After(received, WordSize) = m
    BY <1>1, <1>2, <1>4, <1>6, ReceivedWhole
<1> HIDE DEF stale
<1>8. memory = m \o stale /\ p = Parse(memory, Len(m))
    BY <1>7
<1>9. stale \in Seq(Byte) /\ Len(stale) \in Nat
    <2>1. 0 \in Byte /\ MaxMessageSize \in Nat
        BY RequestsAssumption DEF Byte
    <2>2. stale \in [1 .. MaxMessageSize -> Byte]
        BY <2>1 DEF stale
    <2>3. QED
        BY <2>1, <2>2, SeqDef
<1>10. m \in Seq(Byte)
    BY <1>3 DEF Texts
<1> HIDE DEF memory, p
<1>11. memory \in Seq(Byte) /\ Len(memory) = Len(m) + Len(stale)
    BY <1>8, <1>9, <1>10, ConcatProperties
<1>12. SubSeq(memory, 1, Len(m)) = m
    <2>1. CASE Len(m) = 0
        <3>1. SubSeq(memory, 1, Len(m)) = <<>> /\ m = <<>>
            BY <1>10, <2>1, EmptySeq, SubSeqEmpty
        <3>2. QED
            BY <3>1
    <2>2. CASE Len(m) # 0
        <3>1. 1 \in 1 .. Len(m) /\ Len(m) \in 1 .. Len(m)
            BY <1>3, <2>2
        <3>2. SubSeq(m \o stale, 1, Len(m)) = SubSeq(m, 1, Len(m))
            BY <1>9, <1>10, <3>1, SubSeqOfConcat1
        <3>3. SubSeq(m, 1, Len(m)) = m
            BY <1>10, SubSeqFull
        <3>4. QED
            BY <1>8, <3>2, <3>3
    <2>3. QED
        BY <2>1, <2>2
<1>13. memory \in Texts /\ Len(m) \in 0 .. Len(memory)
    BY <1>3, <1>9, <1>11 DEF Texts
<1>14. p.ok => Message(p.command) = m
    BY <1>8, <1>12, <1>13, ParseSound
<1>15. \A c \in Seq(Texts) : Message(c) = m => p = [ok |-> TRUE, command |-> c]
    BY <1>6, <1>8, <1>12, <1>13, ParseComplete
<1>16. \A c \in WellFormed : c \in Seq(Texts)
    BY ClientAssumption DEF Texts
<1>17. ParseExact'
    <2>1. ASSUME NEW q \in parsed', NEW c \in WellFormed, ~q.ok PROVE Message(c) # m
        <3>1. q = p
            BY <1>1
        <3>2. p # [ok |-> TRUE, command |-> c]
            BY <2>1, <3>1
        <3>3. QED
            BY <1>15, <1>16, <3>2
    <2>2. ASSUME NEW q \in parsed', q.ok PROVE Message(q.command) = m
        BY <1>1, <1>14, <2>2
    <2>3. After(request'.bytes, WordSize) = m
        BY <1>1, <1>3
    <2>4. QED
        BY <2>1, <2>2, <2>3 DEF ParseExact
<1>18. Understood'
    <2> SUFFICES ASSUME request'.program = "client", NEW q \in parsed'
                 PROVE  q.ok /\ q.command = request'.command
        BY DEF Understood
    <2>1. q = p /\ request' = request
        BY <1>1
    <2>2. request.command \in Seq(Texts) /\ m = Message(request.command)
        BY <1>2, <2>1 DEF Stands
    <2>3. p = [ok |-> TRUE, command |-> request.command]
        BY <1>15, <2>2
    <2>4. QED
        BY <2>1, <2>3
<1>19. Written'
    <2>1. Unsendable' <=> Unsendable
        BY <1>1 DEF Unsendable
    <2>2. QED
        BY <1>1, <2>1 DEF RInv, Written
<1>20. QED
    BY <1>1, <1>17, <1>18, <1>19 DEF RInv

\* Every step keeps the request's way.
LEMMA NextRInv == RInv /\ [Next]_vars => RInv'
<1> SUFFICES ASSUME RInv, [Next]_vars PROVE RInv'
    OBVIOUS
<1>1. CASE Connect
    BY <1>1, IdleStep DEF Connect, connection
<1>2. CASE ConnectFails
    BY <1>2, IdleStep DEF ConnectFails, connection
<1>3. CASE WriteSome
    BY <1>3, SendStep
<1>4. CASE WriteLost
    BY <1>4, LostStep
<1>5. CASE WriteFails \/ WriteKilled
    BY <1>5, IdleStep DEF WriteFails, WriteKilled, connection
<1>6. CASE Read
    <2>1. pc' # "write" /\ UNCHANGED <<request, bytesWrote, received, parsed, toServer, server>>
        BY <1>6 DEF Read, connection
    <2>2. QED
        BY <2>1, IdleStep
<1>7. CASE ReadFails
    BY <1>7, IdleStep DEF ReadFails, connection
<1>8. CASE ServerReads
    BY <1>8, ReceiveStep
<1>9. CASE ServerHandles
    BY <1>9, ParseStep
<1>10. CASE ServerWrites
    BY <1>10, IdleStep DEF ServerWrites, client
<1>11. CASE ServerDies
    <2>1. /\ UNCHANGED <<request, bytesWrote, received, parsed, pc>>
          /\ toServer' = <<>> /\ server' # "up" /\ server = "up"
        BY <1>11 DEF ServerDies, client, connection
    <2>2. QED
        BY <2>1, IdleStep
<1>12. CASE UNCHANGED vars
    BY <1>12, IdleStep DEF vars, client, connection
<1>13. QED
    BY <1>1, <1>2, <1>3, <1>4, <1>5, <1>6, <1>7, <1>8, <1>9, <1>10, <1>11, <1>12
       DEF Next, Run, Serve

\* Whatever message a client sends, in whatever pieces it comes and whatever is
\* left in the read buffer behind it, Request::parse takes it exactly when it is
\* the message of a command, and for that command.
THEOREM ParsesExactly == Spec => []ParseExact
<1>1. RInv => ParseExact
    BY DEF RInv
<1>2. QED
    BY <1>1, InitRInv, NextRInv, PTL DEF Spec

\* The server runs the command that the user gave and no other, and what the
\* client prints is the whole reply to it, unless the server is gone.
THEOREM AlwaysTruthful == Spec => []Truthful
<1>1. RInv /\ ReplyPrinted => Truthful
    BY DEF RInv, Truthful
<1>2. QED
    BY <1>1, InitRInv, NextRInv, RepliesPrintedWhole, PTL DEF Spec
==============================================================================
