---------------------------- MODULE AtomIio_proofs ----------------------------
(***************************************************************************)
(* Proofs about AtomIio for every image and every size of a byte: the walk *)
(* stays on the instructions of the programs, and what is executed for a   *)
(* method is its program.  First, what they need of powers of two, of bits *)
(* and of functions that are defined by recursion.                         *)
(***************************************************************************)
EXTENDS AtomIio, FunctionTheorems, FiniteSetTheorems, SequenceTheorems,
        WellFoundedInduction, TLAPS

(* A set of natural numbers has a least element.                           *)
LEMMA Least ==
    ASSUME NEW S \in SUBSET Nat, S # {}
    PROVE  \E x \in S : \A k \in S : x <= k
  <1> DEFINE R == {p \in Nat \X Nat : p[1] < p[2]}
  <1>1. IsWellFoundedOn(R, Nat)
    BY NatLessThanWellFounded DEF OpToRel
  <1>2. \E x \in S : \A y \in S : ~ (<<y, x>> \in R)
    <2> HIDE DEF R
    <2> QED
      BY <1>1, WFMin
  <1>3. \A x, y \in S : ~ (<<y, x>> \in R) => x <= y
    OBVIOUS
  <1> HIDE DEF R
  <1> QED
    BY <1>2, <1>3

(* What holds of 0 and of the next number holds of all: induction, with a  *)
(* set for the predicate.                                                  *)
LEMMA Induction ==
    ASSUME NEW S \in SUBSET Nat, 0 \in S, \A n \in S : n + 1 \in S
    PROVE  S = Nat
  <1> SUFFICES ASSUME Nat \ S # {} PROVE FALSE
    OBVIOUS
  <1>1. PICK x \in Nat \ S : \A k \in Nat \ S : x <= k
    BY Least
  <1>2. x # 0 /\ x \in Nat
    OBVIOUS
  <1>3. x - 1 \in Nat /\ ~ (x <= x - 1) /\ (x - 1) + 1 = x
    BY <1>2
  <1>4. x - 1 \in S
    BY <1>1, <1>3
  <1> QED
    BY <1>1, <1>3, <1>4

(* 2 ^ n counts the subsets of 1 .. n.                                     *)
LEMMA TwoExp ==
    ASSUME NEW n \in Nat
    PROVE  2 ^ (n + 1) = 2 ^ n + 2 ^ n
  <1> DEFINE S == 1 .. n
             T == 1 .. n + 1
             P == SUBSET S
             U == {A \cup {n + 1} : A \in P}
             f == [A \in P |-> A \cup {n + 1}]
  <1>1. IsFiniteSet(S) /\ Cardinality(S) = n
    BY FS_Interval
  <1>2. IsFiniteSet(T) /\ Cardinality(T) = n + 1
    BY FS_Interval
  <1>3. IsFiniteSet(P) /\ Cardinality(P) = 2 ^ n
    BY <1>1, FS_SUBSET
  <1>4. Cardinality(SUBSET T) = 2 ^ (n + 1)
    BY <1>2, FS_SUBSET
  <1>5. n + 1 \notin S /\ T = S \cup {n + 1}
    OBVIOUS
  <1> HIDE DEF S, T
  <1>6. f \in Bijection(P, U)
    <2>1. f \in [P -> U]
      OBVIOUS
    <2>2. \A A, B \in P : f[A] = f[B] => A = B
      <3>1. \A A \in P : f[A] = A \cup {n + 1} /\ n + 1 \notin A
        BY <1>5
      <3> QED
        BY <3>1
    <2>3. \A y \in U : \E A \in P : f[A] = y
      OBVIOUS
    <2> HIDE DEF f, U, P
    <2> QED
      BY <2>1, <2>2, <2>3 DEF Bijection, Injection, Surjection, IsInjective
  <1>7. IsFiniteSet(U) /\ Cardinality(U) = Cardinality(P)
    <2> HIDE DEF f, U, P
    <2>1. ExistsBijection(P, U)
      BY <1>6 DEF ExistsBijection
    <2> QED
      BY <1>3, <2>1, FS_Bijection
  <1>8. SUBSET T = P \cup U
    <2>1. \A X \in SUBSET T : n + 1 \notin X => X \in P
      BY <1>5
    <2>2. \A X \in SUBSET T : n + 1 \in X => X \in U
      <3>1. ASSUME NEW X \in SUBSET T, n + 1 \in X PROVE X \in U
        <4>1. X \ {n + 1} \in P /\ X = (X \ {n + 1}) \cup {n + 1}
          BY <1>5, <3>1
        <4> QED
          BY <4>1
      <3> QED
        BY <3>1
    <2>3. P \subseteq SUBSET T /\ U \subseteq SUBSET T
      BY <1>5
    <2> HIDE DEF P, U
    <2> QED
      BY <2>1, <2>2, <2>3
  <1>9. P \cap U = {}
    BY <1>5
  <1>10. Cardinality(P \cup U) = Cardinality(P) + Cardinality(U) - Cardinality(P \cap U)
    <2> HIDE DEF P, U
    <2> QED
      BY <1>3, <1>7, FS_Union
  <1>11. Cardinality(P) \in Nat /\ Cardinality({}) = 0
    BY <1>3, FS_CardinalityType, FS_EmptySet
  <1> HIDE DEF P, U
  <1>12. Cardinality(P \cup U) = Cardinality(P) + Cardinality(P)
    <2>1. Cardinality(P \cap U) = 0
      BY <1>9, <1>11, Zenon
    <2>2. \A a \in Nat : a + a - 0 = a + a
      OBVIOUS
    <2> QED
      BY <1>7, <1>10, <1>11, <2>1, <2>2
  <1> QED
    BY <1>3, <1>4, <1>8, <1>12

LEMMA Powers == \A n \in Nat : 2 ^ n \in Nat \ {0}
  <1> DEFINE S == {n \in Nat : 2 ^ n \in Nat \ {0}}
  <1>1. 0 \in S
    <2>1. 2 ^ 0 = 1
      OBVIOUS
    <2> QED
      BY <2>1
  <1>2. \A n \in S : n + 1 \in S
    <2>1. \A n \in Nat : 2 ^ (n + 1) = 2 ^ n + 2 ^ n
      BY TwoExp
    <2>2. \A p \in Nat \ {0} : p + p \in Nat \ {0}
      OBVIOUS
    <2> QED
      BY <2>1, <2>2
  <1>3. S = Nat
    <2> HIDE DEF S
    <2>1. S \in SUBSET Nat
      BY DEF S
    <2> QED
      BY <1>1, <1>2, <2>1, Induction
  <1> QED
    BY <1>3

LEMMA PowerSum == \A m, n \in Nat : 2 ^ (m + n) = 2 ^ m * 2 ^ n
  <1> SUFFICES ASSUME NEW m \in Nat PROVE \A n \in Nat : 2 ^ (m + n) = 2 ^ m * 2 ^ n
    OBVIOUS
  <1> DEFINE S == {n \in Nat : 2 ^ (m + n) = 2 ^ m * 2 ^ n}
  <1>1. 0 \in S
    <2>1. 2 ^ 0 = 1 /\ m + 0 = m /\ 2 ^ m \in Nat
      BY Powers
    <2>2. \A p \in Nat : p * 1 = p
      OBVIOUS
    <2> QED
      BY <2>1, <2>2
  <1>2. \A n \in S : n + 1 \in S
    <2> SUFFICES ASSUME NEW n \in Nat, 2 ^ (m + n) = 2 ^ m * 2 ^ n
                 PROVE  2 ^ (m + (n + 1)) = 2 ^ m * 2 ^ (n + 1)
      OBVIOUS
    <2>1. m + (n + 1) = (m + n) + 1 /\ m + n \in Nat
      OBVIOUS
    <2>2. 2 ^ ((m + n) + 1) = 2 ^ (m + n) + 2 ^ (m + n) /\ 2 ^ (n + 1) = 2 ^ n + 2 ^ n
      BY TwoExp, <2>1
    <2>3. \A p, q \in Nat : p * (q + q) = p * q + p * q
      OBVIOUS
    <2>4. 2 ^ m \in Nat /\ 2 ^ n \in Nat
      BY Powers
    <2> QED
      BY <2>1, <2>2, <2>3, <2>4
  <1>3. S = Nat
    <2> HIDE DEF S
    <2>1. S \in SUBSET Nat
      BY DEF S
    <2> QED
      BY <1>1, <1>2, <2>1, Induction
  <1> QED
    BY <1>3

LEMMA PowerOrder == \A m, n \in Nat : m <= n => 2 ^ m <= 2 ^ n
  <1> SUFFICES ASSUME NEW m \in Nat, NEW n \in Nat, m <= n PROVE 2 ^ m <= 2 ^ n
    OBVIOUS
  <1>1. n - m \in Nat /\ n = m + (n - m)
    OBVIOUS
  <1>2. 2 ^ n = 2 ^ m * 2 ^ (n - m)
    BY <1>1, PowerSum
  <1>3. 2 ^ m \in Nat /\ 2 ^ (n - m) \in Nat \ {0}
    BY <1>1, Powers
  <1>4. \A p \in Nat, q \in Nat \ {0} : p <= p * q
    OBVIOUS
  <1> QED
    BY <1>2, <1>3, <1>4

(* Division with a remainder, and that there is only one.                  *)
LEMMA DivMod ==
    ASSUME NEW a \in Nat, NEW b \in Nat \ {0}
    PROVE  /\ a \div b \in Nat
           /\ a % b \in 0 .. b - 1
           /\ a = b * (a \div b) + (a % b)
  <1>1. a \div b \in Int /\ a % b \in 0 .. b - 1
    OBVIOUS
  <1>2. a = b * (a \div b) + (a % b)
    BY SMTT(30)
  <1>3. a \div b >= 0
    <2>1. \A q \in Int : q < 0 => b * q <= - b
      OBVIOUS
    <2>2. SUFFICES ASSUME a \div b < 0 PROVE FALSE
      BY <1>1
    <2>3. b * (a \div b) <= - b
      BY <1>1, <2>1, <2>2
    <2>4. b * (a \div b) \in Int
      BY <1>1
    <2> QED
      BY <1>1, <1>2, <2>3, <2>4
  <1> QED
    BY <1>1, <1>2, <1>3

LEMMA DivUnique ==
    ASSUME NEW b \in Nat \ {0}, NEW q \in Nat, NEW r \in 0 .. b - 1
    PROVE  (b * q + r) \div b = q /\ (b * q + r) % b = r
  <1> DEFINE a == b * q + r
             p == a \div b
             s == a % b
  <1>1. b * q \in Nat /\ a \in Nat
    OBVIOUS
  <1>2. p \in Nat /\ s \in 0 .. b - 1 /\ a = b * p + s
    <2> HIDE DEF a
    <2> QED
      BY <1>1, DivMod
  <1>3. a = b * q + r
    OBVIOUS
  <1> HIDE DEF a, p, s
  <1>4. \A x, y \in Nat : x < y => b * x + b <= b * y
    OBVIOUS
  <1>5. b * p \in Nat /\ b * q \in Nat
    BY <1>2
  <1>6. ~ (p < q)
    BY <1>2, <1>3, <1>4, <1>5
  <1>7. ~ (q < p)
    BY <1>2, <1>3, <1>4, <1>5
  <1>8. p = q
    BY <1>2, <1>6, <1>7
  <1>9. s = r
    BY <1>2, <1>3, <1>5, <1>8
  <1> QED
    BY <1>8, <1>9 DEF a, p, s

-----------------------------------------------------------------------------
LEMMA WordType ==
    /\ WordBits \in Nat \ {0} /\ Word \in Nat \ {0}
    /\ Base \in Nat /\ Base >= 2 /\ Base <= Word
  <1>1. ByteBits \in Nat /\ ByteBits >= 1 /\ WordBits \in Nat \ {0} /\ ByteBits <= WordBits
    BY ByteAssumption DEF WordBits
  <1>2. 2 ^ 1 <= 2 ^ ByteBits /\ 2 ^ ByteBits <= 2 ^ WordBits
    BY <1>1, PowerOrder
  <1>3. 2 ^ 1 = 2
    OBVIOUS
  <1>4. 2 ^ ByteBits \in Nat /\ 2 ^ WordBits \in Nat \ {0}
    BY <1>1, Powers
  <1> QED
    BY <1>1, <1>2, <1>3, <1>4 DEF Word, Base

(* Replacing bits that a register has leaves a register's value.           *)
LEMMA ReplaceType ==
    ASSUME NEW v \in Dword, NEW low \in Nat, NEW n \in Nat, low + n <= WordBits,
           NEW new \in Nat
    PROVE  Replace(v, low, n, new) \in Dword
  <1> DEFINE A == 2 ^ low
             N == 2 ^ n
             H == 2 ^ (WordBits - (low + n))
             q == v \div A
             b == q % N
             p == q \div N
             c == new % N
             lo == v % A
  <1>1. A \in Nat \ {0} /\ N \in Nat \ {0} /\ H \in Nat \ {0}
    <2>1. WordBits - (low + n) \in Nat
      BY WordType
    <2> QED
      BY <2>1, Powers
  <1>2. Word = A * N * H
    <2>1. WordBits - (low + n) \in Nat /\ low + n \in Nat /\ WordBits = (low + n) + (WordBits - (low + n))
      BY WordType
    <2>2. 2 ^ (low + n) = A * N
      BY PowerSum
    <2>3. 2 ^ WordBits = 2 ^ (low + n) * H
      BY <2>1, PowerSum
    <2> QED
      BY <2>2, <2>3 DEF Word
  <1>3. v \in Nat /\ v < A * N * H
    BY <1>2, WordType DEF Dword
  <1>4. Replace(v, low, n, new) = v - b * A + c * A
    BY DEF Replace, BitsOf
  <1> HIDE DEF A, N, H
  <1>5. q \in Nat /\ lo \in 0 .. A - 1 /\ v = A * q + lo
    BY <1>1, <1>3, DivMod
  <1> HIDE DEF q, lo
  <1>6. p \in Nat /\ b \in 0 .. N - 1 /\ q = N * p + b
    BY <1>1, <1>5, DivMod
  <1>7. c \in 0 .. N - 1
    BY <1>1, DivMod
  <1> HIDE DEF p, b, c
  <1>8. p < H
    <2>1. SUFFICES ASSUME H <= p PROVE FALSE
      BY <1>1, <1>6
    <2>2. N * H <= N * p
      BY <1>1, <1>6, <2>1
    <2>3. N * H \in Nat /\ N * p \in Nat
      BY <1>1, <1>6
    <2>4. N * H <= q
      BY <1>6, <2>2, <2>3
    <2>5. A * (N * H) <= A * q
      BY <1>1, <1>5, <2>3, <2>4
    <2>6. A * (N * H) = A * N * H
      BY <1>1
    <2>7. A * q \in Nat /\ A * (N * H) \in Nat
      BY <1>1, <1>5, <2>3
    <2> QED
      BY <1>3, <1>5, <2>5, <2>6, <2>7
  <1>9. v - b * A + c * A = A * (N * p + c) + lo
    <2>1. v = A * (N * p + b) + lo
      BY <1>5, <1>6
    <2>2. A * (N * p + b) = A * (N * p) + A * b /\ A * (N * p + c) = A * (N * p) + A * c
      BY <1>1, <1>6, <1>7
    <2>3. A * b = b * A /\ A * c = c * A
      BY <1>1, <1>6, <1>7
    <2>4. A * (N * p) \in Nat /\ A * b \in Nat /\ A * c \in Nat
      BY <1>1, <1>6, <1>7
    <2> QED
      BY <1>5, <2>1, <2>2, <2>3, <2>4
  <1>10. A * (N * p + c) + lo \in 0 .. A * N * H - 1
    <2>1. N * p + N <= N * H
      BY <1>1, <1>6, <1>8
    <2>2. N * p \in Nat /\ N * H \in Nat
      BY <1>1, <1>6
    <2>3. N * p + c \in Nat /\ (N * p + c) + 1 <= N * H
      BY <1>1, <1>7, <2>1, <2>2
    <2>4. \A x, y \in Nat : x + 1 <= y => A * x + A <= A * y
      BY <1>1
    <2>5. A * (N * p + c) + A <= A * (N * H)
      BY <2>2, <2>3, <2>4
    <2>6. A * (N * H) = A * N * H /\ A * (N * H) \in Nat
      BY <1>1
    <2>7. A * (N * p + c) \in Nat
      BY <1>1, <2>3
    <2> QED
      BY <1>1, <1>5, <2>5, <2>6, <2>7
  <1> QED
    BY <1>2, <1>4, <1>9, <1>10 DEF Dword

(* A step for each number makes a function of the numbers.                 *)
Follows(f, a, N, g) == f[0] = a /\ \A n \in 1 .. N : f[n] = g[n][f[n - 1]]

LEMMA Recursion ==
    ASSUME NEW S, NEW a \in S, NEW N \in Nat, NEW g \in [1 .. N -> [S -> S]]
    PROVE  \E f \in [0 .. N -> S] : Follows(f, a, N, g)
  <1> DEFINE T == {k \in Nat : k <= N =>
                     \E f \in [0 .. k -> S] :
                         f = [n \in 0 .. k |-> IF n = 0 THEN a ELSE g[n][f[n - 1]]]}
  <1>1. 0 \in T
    <2>1. [n \in 0 .. 0 |-> a] \in [0 .. 0 -> S]
      OBVIOUS
    <2>2. [n \in 0 .. 0 |-> a] = [n \in 0 .. 0 |-> IF n = 0 THEN a ELSE g[n][[m \in 0 .. 0 |-> a][n - 1]]]
      OBVIOUS
    <2> QED
      BY <2>1, <2>2
  <1>2. \A k \in T : k + 1 \in T
    <2> SUFFICES ASSUME NEW k \in T, k + 1 <= N
                 PROVE  \E h \in [0 .. k + 1 -> S] :
                         h = [n \in 0 .. k + 1 |-> IF n = 0 THEN a ELSE g[n][h[n - 1]]]
      <3>1. \A k \in T : k + 1 \in Nat
        OBVIOUS
      <3> QED
        BY <3>1
    <2>0. k \in Nat /\ k <= N
      OBVIOUS
    <2> PICK f \in [0 .. k -> S] :
                f = [n \in 0 .. k |-> IF n = 0 THEN a ELSE g[n][f[n - 1]]]
      BY <2>0
    <2> HIDE DEF T
    <2> DEFINE h == [n \in 0 .. k + 1 |-> IF n <= k THEN f[n] ELSE g[n][f[k]]]
    <2>1. h \in [0 .. k + 1 -> S]
      <3>1. \A n \in 0 .. k + 1 : n <= k => f[n] \in S
        BY <2>0
      <3>2. f[k] \in S /\ g[k + 1] \in [S -> S]
        BY <2>0
      <3>3. g[k + 1][f[k]] \in S
        BY <3>2
      <3>4. \A n \in 0 .. k + 1 : ~ (n <= k) => n = k + 1
        BY <2>0
      <3> QED
        BY <3>1, <3>3, <3>4
    <2>2. \A n \in 0 .. k + 1 : h[n] = IF n = 0 THEN a ELSE g[n][h[n - 1]]
      <3> SUFFICES ASSUME NEW n \in 0 .. k + 1
                   PROVE  h[n] = IF n = 0 THEN a ELSE g[n][h[n - 1]]
        BY <2>0
      <3>1. CASE n = 0
        <4>1. f[0] = a
          BY <2>0
        <4> QED
          BY <2>0, <3>1, <4>1
      <3>2. CASE n # 0 /\ n <= k
        <4>1. f[n] = g[n][f[n - 1]]
          BY <2>0, <3>2
        <4>2. h[n] = f[n] /\ h[n - 1] = f[n - 1]
          BY <2>0, <3>2
        <4> QED
          BY <3>2, <4>1, <4>2
      <3>3. CASE n = k + 1
        <4>1. ~ (n <= k) /\ n - 1 = k /\ n # 0
          BY <2>0, <3>3
        <4>2. h[n] = g[n][f[k]] /\ h[n - 1] = f[k]
          BY <2>0, <4>1
        <4> QED
          BY <4>1, <4>2
      <3>4. n = 0 \/ (n # 0 /\ n <= k) \/ n = k + 1
        BY <2>0
      <3> QED
        BY <3>4, <3>1, <3>2, <3>3
    <2>3. h = [n \in 0 .. k + 1 |-> h[n]]
      BY <2>0
    <2> HIDE DEF h
    <2>4. h = [n \in 0 .. k + 1 |-> IF n = 0 THEN a ELSE g[n][h[n - 1]]]
      BY <2>2, <2>3, Zenon
    <2> QED
      BY <2>1, <2>4
  <1>3. T = Nat
    <2> HIDE DEF T
    <2>1. T \in SUBSET Nat
      BY DEF T
    <2> QED
      BY <1>1, <1>2, <2>1, Induction
  <1>4. PICK f \in [0 .. N -> S] :
                f = [n \in 0 .. N |-> IF n = 0 THEN a ELSE g[n][f[n - 1]]]
    <2>1. N \in T
      BY <1>3
    <2> QED
      BY <2>1
  <1> HIDE DEF T
  <1>5. Follows(f, a, N, g)
    BY <1>4 DEF Follows
  <1> QED
    BY <1>5

(* The byte, counted from 0, at which each of some sequences begins when   *)
(* they are flattened.                                                     *)
Offsets(seqs) ==
    LET off[n \in 0 .. Len(seqs)] ==
            IF n = 0 THEN 0 ELSE off[n - 1] + Len(seqs[n])
    IN  off

LEMMA OffsetsAre ==
    ASSUME NEW B, NEW seqs \in Seq(Seq(B))
    PROVE  /\ Offsets(seqs) \in [0 .. Len(seqs) -> Nat]
           /\ Offsets(seqs)[0] = 0
           /\ \A n \in 1 .. Len(seqs) : Offsets(seqs)[n] = Offsets(seqs)[n - 1] + Len(seqs[n])
  <1> DEFINE L == Len(seqs)
             g == [n \in 1 .. L |-> [x \in Nat |-> x + Len(seqs[n])]]
             off == CHOOSE f : f = [n \in 0 .. L |-> IF n = 0 THEN 0 ELSE f[n - 1] + Len(seqs[n])]
  <1>1. L \in Nat
    BY LenProperties
  <1>2. \A n \in 1 .. L : Len(seqs[n]) \in Nat
    <2>1. \A n \in 1 .. L : seqs[n] \in Seq(B)
      BY ElementOfSeq
    <2> QED
      BY <2>1, LenProperties
  <1>3. g \in [1 .. L -> [Nat -> Nat]]
    BY <1>2
  <1>4. PICK f \in [0 .. L -> Nat] : f[0] = 0 /\ \A n \in 1 .. L : f[n] = g[n][f[n - 1]]
    <2> HIDE DEF g, L
    <2>1. 0 \in Nat
      OBVIOUS
    <2>2. \E f \in [0 .. L -> Nat] : Follows(f, 0, L, g)
      BY <1>1, <1>3, <2>1, Recursion
    <2> QED
      BY <2>2 DEF Follows
  <1>5. f = [n \in 0 .. L |-> IF n = 0 THEN 0 ELSE f[n - 1] + Len(seqs[n])]
    <2>1. \A n \in 0 .. L : n # 0 => f[n - 1] \in Nat /\ n \in 1 .. L
      <3>1. f \in [0 .. L -> Nat]
        OBVIOUS
      <3> HIDE DEF g, L
      <3> QED
        BY <1>1, <3>1
    <2>2. \A n \in 0 .. L : n # 0 => g[n][f[n - 1]] = f[n - 1] + Len(seqs[n])
      BY <2>1
    <2>3. \A n \in 0 .. L : f[n] = IF n = 0 THEN 0 ELSE f[n - 1] + Len(seqs[n])
      BY <1>4, <2>1, <2>2
    <2>4. f = [n \in 0 .. L |-> f[n]]
      OBVIOUS
    <2> HIDE DEF g, L
    <2> QED
      BY <2>3, <2>4, Zenon
  <1>6. off = [n \in 0 .. L |-> IF n = 0 THEN 0 ELSE off[n - 1] + Len(seqs[n])]
    <2> HIDE DEF L
    <2> QED
      BY <1>5, Zenon
  <1>7. Offsets(seqs) = off
    BY DEF Offsets
  <1> HIDE DEF off, g, L
  <1>8. off[0] = 0 /\ \A n \in 1 .. L : off[n] = off[n - 1] + Len(seqs[n])
    BY <1>1, <1>6
  <1>9. \A n \in 0 .. L : off[n] \in Nat
    <2> DEFINE T == {n \in Nat : n <= L => off[n] \in Nat}
    <2>1. 0 \in T
      BY <1>8
    <2>2. \A n \in T : n + 1 \in T
      <3> SUFFICES ASSUME NEW n \in Nat, n + 1 <= L, off[n] \in Nat PROVE off[n + 1] \in Nat
        BY <1>1
      <3>1. n + 1 \in 1 .. L /\ (n + 1) - 1 = n
        BY <1>1
      <3> QED
        BY <1>2, <1>8, <3>1
    <2>3. T = Nat
      <3> HIDE DEF T
      <3>1. T \in SUBSET Nat
        BY DEF T
      <3> QED
        BY <2>1, <2>2, <3>1, Induction
    <2> QED
      BY <1>1, <2>3
  <1> QED
    BY <1>6, <1>7, <1>8, <1>9 DEF L

LEMMA OffsetsOrder ==
    ASSUME NEW B, NEW seqs \in Seq(Seq(B))
    PROVE  \A i, j \in 0 .. Len(seqs) : i <= j => Offsets(seqs)[i] <= Offsets(seqs)[j]
  <1> DEFINE L == Len(seqs)
             off == Offsets(seqs)
  <1>1. /\ L \in Nat
        /\ off \in [0 .. L -> Nat]
        /\ \A n \in 1 .. L : off[n] = off[n - 1] + Len(seqs[n])
    BY LenProperties, OffsetsAre
  <1>2. \A n \in 1 .. L : Len(seqs[n]) \in Nat
    <2>1. \A n \in 1 .. L : seqs[n] \in Seq(B)
      BY ElementOfSeq
    <2> QED
      BY <2>1, LenProperties
  <1> HIDE DEF L, off
  <1> SUFFICES ASSUME NEW i \in 0 .. L PROVE \A j \in 0 .. L : i <= j => off[i] <= off[j]
    BY DEF L, off
  <1> DEFINE T == {d \in Nat : i + d <= L => off[i] <= off[i + d]}
  <1>3. 0 \in T
    <2>1. i + 0 = i /\ off[i] \in Nat
      BY <1>1
    <2> QED
      BY <2>1
  <1>4. \A d \in T : d + 1 \in T
    <2> SUFFICES ASSUME NEW d \in Nat, i + d <= L => off[i] <= off[i + d], i + (d + 1) <= L
                 PROVE  off[i] <= off[i + (d + 1)]
      BY <1>1
    <2>1. i + (d + 1) \in 1 .. L /\ (i + (d + 1)) - 1 = i + d /\ i + d \in 0 .. L /\ i + d <= L
      BY <1>1
    <2>2. off[i + (d + 1)] = off[i + d] + Len(seqs[i + (d + 1)])
      BY <1>1, <2>1
    <2>3. off[i] \in Nat /\ off[i + d] \in Nat /\ Len(seqs[i + (d + 1)]) \in Nat
      BY <1>1, <1>2, <2>1
    <2> QED
      BY <2>1, <2>2, <2>3
  <1>5. T = Nat
    <2> HIDE DEF T
    <2>1. T \in SUBSET Nat
      BY DEF T
    <2> QED
      BY <1>3, <1>4, <2>1, Induction
  <1> SUFFICES ASSUME NEW j \in 0 .. L, i <= j PROVE off[i] <= off[j]
    OBVIOUS
  <1>6. j - i \in Nat /\ i + (j - i) = j /\ j <= L
    BY <1>1
  <1>7. j - i \in T
    BY <1>5, <1>6
  <1> QED
    BY <1>6, <1>7

(* F is the first n of the sequences, one after the other.                 *)
IsFlat(F, seqs, n) ==
    /\ Len(F) = Offsets(seqs)[n]
    /\ \A i \in 1 .. n : \A k \in 1 .. Len(seqs[i]) : F[Offsets(seqs)[i - 1] + k] = seqs[i][k]

LEMMA FlattenSeqIs ==
    ASSUME NEW B, NEW seqs \in Seq(Seq(B))
    PROVE  FlattenSeq(seqs) \in Seq(B) /\ IsFlat(FlattenSeq(seqs), seqs, Len(seqs))
  <1> DEFINE L == Len(seqs)
             off == Offsets(seqs)
             g == [n \in 1 .. L |-> [x \in Seq(B) |-> x \o seqs[n]]]
             flat == CHOOSE f : f = [n \in 1 .. L |->
                                       IF n = 1 THEN seqs[n] ELSE f[n - 1] \o seqs[n]]
  <1>1. /\ L \in Nat
        /\ off \in [0 .. L -> Nat]
        /\ off[0] = 0
        /\ \A n \in 1 .. L : off[n] = off[n - 1] + Len(seqs[n])
    BY LenProperties, OffsetsAre
  <1>2. \A n \in 1 .. L : seqs[n] \in Seq(B) /\ Len(seqs[n]) \in Nat
    <2>1. \A n \in 1 .. L : seqs[n] \in Seq(B)
      BY ElementOfSeq
    <2> QED
      BY <2>1, LenProperties
  <1>3. CASE L = 0
    <2>1. FlattenSeq(seqs) = seqs
      BY <1>3 DEF FlattenSeq
    <2>2. seqs = <<>> /\ <<>> \in Seq(B)
      BY <1>3, EmptySeq
    <2>3. Len(seqs) = off[Len(seqs)]
      BY <1>1, <1>3
    <2> HIDE DEF L, off
    <2>4. Len(seqs) = 0
      BY <1>3 DEF L
    <2> QED
      BY <2>1, <2>2, <2>3, <2>4 DEF IsFlat, off
  <1>4. CASE L # 0
    <2>1. FlattenSeq(seqs) = flat[L]
      BY <1>4 DEF FlattenSeq
    <2>2. g \in [1 .. L -> [Seq(B) -> Seq(B)]]
      <3>1. \A n \in 1 .. L : \A x \in Seq(B) : x \o seqs[n] \in Seq(B)
        BY <1>2, ConcatProperties
      <3> HIDE DEF L
      <3> QED
        BY <3>1
    <2>3. PICK f \in [0 .. L -> Seq(B)] : Follows(f, <<>>, L, g)
      <3> HIDE DEF L, g
      <3>1. <<>> \in Seq(B)
        BY EmptySeq
      <3> QED
        BY <1>1, <2>2, <3>1, Recursion
    <2> DEFINE h == [n \in 1 .. L |-> f[n]]
    <2>4. \A n \in 1 .. L : h[n] = IF n = 1 THEN seqs[n] ELSE h[n - 1] \o seqs[n]
      <3>1. \A n \in 1 .. L : f[n - 1] \in Seq(B)
        <4> HIDE DEF L, g
        <4> QED
          BY <1>1
      <3>2. \A n \in 1 .. L : f[n] = f[n - 1] \o seqs[n]
        BY <2>3, <3>1 DEF Follows
      <3>3. f[0] = <<>>
        BY <2>3 DEF Follows
      <3> HIDE DEF L, g
      <3>4. \A n \in 1 .. L : n = 1 => f[n] = seqs[n]
        <4>1. \A s \in Seq(B) : <<>> \o s = s
          BY ConcatEmptySeq
        <4>2. \A n \in 1 .. L : n = 1 => n - 1 = 0
          BY <1>1
        <4>3. \A n \in 1 .. L : n = 1 => f[n] = <<>> \o seqs[n]
          BY <3>2, <3>3, <4>2
        <4> QED
          BY <1>2, <4>1, <4>3
      <3>5. \A n \in 1 .. L : n # 1 => n - 1 \in 1 .. L
        BY <1>1
      <3> QED
        BY <3>2, <3>4, <3>5
    <2>5. h = [n \in 1 .. L |-> IF n = 1 THEN seqs[n] ELSE h[n - 1] \o seqs[n]]
      <3>1. h = [n \in 1 .. L |-> h[n]]
        OBVIOUS
      <3> HIDE DEF h, L
      <3> QED
        BY <2>4, <3>1, Zenon
    <2>6. flat = [n \in 1 .. L |-> IF n = 1 THEN seqs[n] ELSE flat[n - 1] \o seqs[n]]
      <3> HIDE DEF h, L
      <3> QED
        BY <2>5, Zenon
    <2> HIDE DEF flat, h, g
    <2> DEFINE T == {k \in Nat : k + 1 <= L => flat[k + 1] \in Seq(B) /\ IsFlat(flat[k + 1], seqs, k + 1)}
    <2>7. 0 \in T
      <3>1. 1 \in 1 .. L /\ flat[1] = seqs[1] /\ seqs[1] \in Seq(B)
        BY <1>1, <1>2, <1>4, <2>6
      <3>2. off[1] = Len(seqs[1]) /\ \A k \in 1 .. Len(seqs[1]) : off[0] + k = k
        BY <1>1, <1>2, <3>1
      <3>3. IsFlat(flat[1], seqs, 1)
        <4>1. \A i \in 1 .. 1 : i = 1 /\ i - 1 = 0
          OBVIOUS
        <4> QED
          BY <3>1, <3>2, <4>1 DEF IsFlat
      <3>4. 0 + 1 = 1
        OBVIOUS
      <3> QED
        BY <3>1, <3>3, <3>4
    <2>8. \A k \in T : k + 1 \in T
      <3> SUFFICES ASSUME NEW k \in Nat,
                          k + 1 <= L => flat[k + 1] \in Seq(B) /\ IsFlat(flat[k + 1], seqs, k + 1),
                          k + 1 + 1 <= L
                   PROVE  /\ flat[k + 1 + 1] \in Seq(B)
                          /\ IsFlat(flat[k + 1 + 1], seqs, k + 1 + 1)
        BY <1>1
      <3> DEFINE n == k + 1
                 F == flat[n]
                 s == seqs[n + 1]
                 G == flat[n + 1]
      <3>1. n \in 1 .. L /\ n + 1 \in 1 .. L /\ n + 1 # 1 /\ (n + 1) - 1 = n /\ n <= L
        BY <1>1
      <3>2. F \in Seq(B) /\ IsFlat(F, seqs, n) /\ s \in Seq(B) /\ G = F \o s
        BY <1>2, <2>6, <3>1
      <3>3. /\ F \o s \in Seq(B) /\ Len(F \o s) = Len(F) + Len(s)
            /\ \A m \in 1 .. Len(F) + Len(s) : (F \o s)[m] = IF m <= Len(F) THEN F[m] ELSE s[m - Len(F)]
        BY <3>2, ConcatProperties
      <3>4. Len(F) = off[n] /\ off[n] \in Nat /\ off[n + 1] = off[n] + Len(s) /\ Len(s) \in Nat
        BY <1>1, <1>2, <3>1, <3>2 DEF IsFlat
      <3>5. \A i \in 1 .. n : \A m \in 1 .. Len(seqs[i]) : F[off[i - 1] + m] = seqs[i][m]
        BY <3>2 DEF IsFlat
      <3>6. \A i \in 1 .. n : off[i] <= off[n]
        <4>1. \A i, j \in 0 .. Len(seqs) : i <= j => Offsets(seqs)[i] <= Offsets(seqs)[j]
          BY OffsetsOrder
        <4> HIDE DEF n
        <4> QED
          BY <1>1, <3>1, <4>1
      <3>7. \A i \in 1 .. n + 1 : \A m \in 1 .. Len(seqs[i]) : G[off[i - 1] + m] = seqs[i][m]
        <4> SUFFICES ASSUME NEW i \in 1 .. n + 1, NEW m \in 1 .. Len(seqs[i])
                     PROVE  G[off[i - 1] + m] = seqs[i][m]
          OBVIOUS
        <4>1. /\ i \in 1 .. L /\ off[i - 1] \in Nat /\ off[i] \in Nat
              /\ off[i] = off[i - 1] + Len(seqs[i]) /\ Len(seqs[i]) \in Nat
          <5>0. i \in 1 .. n + 1
            OBVIOUS
          <5> HIDE DEF n, off, L
          <5>1. i \in 1 .. L /\ i \in 0 .. L /\ i - 1 \in 0 .. L
            <6>1. n + 1 \in Nat /\ n + 1 <= L /\ L \in Nat
              BY <1>1, <3>1
            <6>2. i \in Nat /\ 1 <= i /\ i <= L
              BY <5>0, <6>1
            <6> QED
              BY <6>1, <6>2
          <5> QED
            BY <1>1, <1>2, <5>1
        <4> HIDE DEF n, F, s, G, off, L
        <4>2. CASE i = n + 1
          <5>1. off[i - 1] + m \in 1 .. Len(F) + Len(s) /\ ~ (off[i - 1] + m <= Len(F))
                /\ (off[i - 1] + m) - Len(F) = m
            BY <3>1, <3>4, <4>1, <4>2 DEF s
          <5> QED
            BY <3>2, <3>3, <4>2, <5>1 DEF s
        <4>3. CASE i # n + 1
          <5>1. i \in 1 .. n
            BY <3>1, <4>3
          <5>2. off[i - 1] + m \in 1 .. Len(F) + Len(s) /\ off[i - 1] + m <= Len(F)
            <6>1. off[i] <= Len(F) /\ Len(F) \in Nat /\ Len(s) \in Nat
              BY <3>4, <3>6, <5>1
            <6>2. m \in Nat /\ m >= 1 /\ m <= Len(seqs[i])
              BY <4>1
            <6>3. \A a, b, c, p, q \in Nat :
                      b = a + c /\ b <= p /\ m <= c => a + m \in 1 .. p + q /\ a + m <= p
              BY <6>2
            <6> QED
              BY <4>1, <6>1, <6>2, <6>3
          <5> QED
            BY <3>2, <3>3, <3>5, <5>1, <5>2
        <4> QED
          BY <4>2, <4>3
      <3> QED
        BY <3>2, <3>3, <3>4, <3>7 DEF IsFlat
    <2>9. T = Nat
      <3> HIDE DEF T
      <3>1. T \in SUBSET Nat
        BY DEF T
      <3> QED
        BY <2>7, <2>8, <3>1, Induction
    <2>10. L - 1 \in T /\ (L - 1) + 1 = L /\ L <= L
      <3> HIDE DEF T, L
      <3> QED
        BY <1>1, <1>4, <2>9
    <2> HIDE DEF L
    <2> QED
      BY <2>1, <2>10 DEF L
  <1> QED
    BY <1>3, <1>4

-----------------------------------------------------------------------------
USE DEF ATOM_IIO_NOP, ATOM_IIO_START, ATOM_IIO_READ, ATOM_IIO_WRITE, ATOM_IIO_CLEAR,
        ATOM_IIO_SET, ATOM_IIO_MOVE_INDEX, ATOM_IIO_MOVE_ATTR, ATOM_IIO_MOVE_DATA,
        ATOM_IIO_END, Move

(* The walk and the execution have the same idea of how long an instruction *)
(* with its operands is.                                                    *)
LEMMA InstructionLength ==
    ASSUME NEW ins \in Instructions
    PROVE  /\ ins.op \in Byte /\ ins.op \notin {ATOM_IIO_START, ATOM_IIO_END}
           /\ ins.op <= ATOM_IIO_END
           /\ ins.args \in Seq(Byte)
           /\ IioLen[ins.op] = 1 + Len(ins.args)
           /\ IioAdvance(ins.op) = 1 + Len(ins.args)
  <1> DEFINE Long(n) == ins.args \in Seq(Byte) /\ Len(ins.args) = n
  <1>1. CASE ins.op = ATOM_IIO_NOP
    <2>1. ins.args = <<>>
      BY <1>1 DEF Instructions
    <2>2. Long(0)
      BY <2>1, EmptySeq
    <2> HIDE DEF Long
    <2>3. IioLen[ins.op] = 1 /\ IioAdvance(ins.op) = 1
      BY <1>1 DEF IioLen, IioAdvance
    <2> QED
      BY <1>1, <2>2, <2>3 DEF Long, Byte
  <1>2. CASE ins.op \in {ATOM_IIO_READ, ATOM_IIO_WRITE, ATOM_IIO_CLEAR, ATOM_IIO_SET}
    <2>1. ins.args \in Byte \X Byte
      BY <1>2 DEF Instructions
    <2>2. PICK a, b \in Byte : ins.args = <<a, b>>
      BY <2>1
    <2>3. Long(2)
      BY <2>2
    <2> HIDE DEF Long
    <2>4. IioLen[ins.op] = 3 /\ IioAdvance(ins.op) = 3
      BY <1>2 DEF IioLen, IioAdvance
    <2> QED
      BY <1>2, <2>3, <2>4 DEF Long, Byte
  <1>3. CASE ins.op \in Move
    <2>1. ins.args \in Byte \X Byte \X Byte
      BY <1>3 DEF Instructions
    <2>2. PICK a, b, c \in Byte : ins.args = <<a, b, c>>
      BY <2>1
    <2>3. Long(3)
      BY <2>2
    <2> HIDE DEF Long
    <2>4. IioLen[ins.op] = 4 /\ IioAdvance(ins.op) = 4
      BY <1>3 DEF IioLen, IioAdvance
    <2> QED
      BY <1>3, <2>3, <2>4 DEF Long, Byte
  <1> QED
    BY <1>1, <1>2, <1>3 DEF Instructions

LEMMA PoisonType == Poison \in Dword
  <1> DEFINE k == (Word - 1) \div (Base - 1)
  <1>1. Base - 1 \in Nat \ {0} /\ Base - 2 \in Nat /\ Word - 1 \in Nat
    BY WordType
  <1>2. k \in Nat /\ (Base - 1) * k <= Word - 1
    <2>1. /\ (Word - 1) \div (Base - 1) \in Nat /\ (Word - 1) % (Base - 1) \in 0 .. (Base - 1) - 1
          /\ Word - 1 = (Base - 1) * ((Word - 1) \div (Base - 1)) + ((Word - 1) % (Base - 1))
      BY <1>1, DivMod
    <2> HIDE DEF k
    <2>2. (Base - 1) * ((Word - 1) \div (Base - 1)) \in Nat
      BY <1>1, <2>1
    <2> QED
      BY <1>1, <2>1, <2>2 DEF k
  <1> HIDE DEF k
  <1>3. \A b, c \in Nat : c <= b => c * k \in Nat /\ c * k <= b * k
    BY <1>2
  <1>4. (Base - 2) * k \in Nat /\ (Base - 2) * k <= (Base - 1) * k /\ (Base - 1) * k \in Nat
    BY <1>1, <1>2, <1>3, WordType
  <1>5. (Base - 2) * k \in 0 .. Word - 1
    BY <1>1, <1>2, <1>4
  <1> QED
    BY <1>5 DEF Poison, Dword, k

(* An instruction leaves a register's value in temp.                        *)
LEMMA EffectType ==
    ASSUME NEW ins \in Instructions, NEW temp \in Dword, NEW from \in [Move -> Nat]
    PROVE  IioEffect(ins.op, ins.args, temp, from) \in Dword
  <1>1. CASE ins.op \in {ATOM_IIO_NOP, ATOM_IIO_WRITE}
    <2>1. IioEffect(ins.op, ins.args, temp, from) = temp
      BY <1>1 DEF IioEffect
    <2> QED
      BY <2>1
  <1>2. CASE ins.op = ATOM_IIO_READ
    <2>1. IioEffect(ins.op, ins.args, temp, from) = 0
      BY <1>2 DEF IioEffect
    <2> QED
      BY <2>1, WordType DEF Dword
  <1>3. CASE ins.op \in {ATOM_IIO_CLEAR, ATOM_IIO_SET}
    <2>1. ins.args \in {a \in Byte \X Byte : a[1] > 0 /\ a[1] + a[2] <= WordBits}
      BY <1>3 DEF Instructions
    <2>2. PICK n, low \in Byte : ins.args = <<n, low>> /\ n + low <= WordBits
      BY <2>1
    <2>3. n \in Nat /\ low \in Nat /\ low + n <= WordBits
      BY <2>2, WordType DEF Byte
    <2>4. 2 ^ n - 1 \in Nat
      BY <2>3, Powers
    <2>5. Replace(temp, low, n, 0) \in Dword /\ Replace(temp, low, n, 2 ^ n - 1) \in Dword
      BY <2>3, <2>4, ReplaceType
    <2>6. IioEffect(ins.op, ins.args, temp, from)
              \in {Replace(temp, low, n, 0), Replace(temp, low, n, 2 ^ n - 1)}
      BY <1>3, <2>2 DEF IioEffect
    <2> QED
      BY <2>5, <2>6
  <1>4. CASE ins.op \in Move
    <2>1. ins.args \in {a \in Byte \X Byte \X Byte :
                            a[1] > 0 /\ a[2] < WordBits /\ a[1] + a[3] <= WordBits}
      BY <1>4 DEF Instructions
    <2>2. PICK n, first, low \in Byte : ins.args = <<n, first, low>> /\ n + low <= WordBits
      BY <2>1
    <2>3. n \in Nat /\ low \in Nat /\ first \in Nat /\ low + n <= WordBits
      BY <2>2, WordType DEF Byte
    <2>4. from[ins.op] \in Nat
      BY <1>4
    <2>5. from[ins.op] \div 2 ^ first \in Nat
      BY <2>3, <2>4, Powers, DivMod
    <2>6. Replace(temp, low, n, from[ins.op] \div 2 ^ first) \in Dword
      BY <2>3, <2>5, ReplaceType
    <2>7. IioEffect(ins.op, ins.args, temp, from)
              = Replace(temp, low, n, from[ins.op] \div 2 ^ first)
      BY <1>4, <2>2 DEF IioEffect
    <2> QED
      BY <2>6, <2>7
  <1> QED
    BY <1>1, <1>2, <1>3, <1>4 DEF Instructions

-----------------------------------------------------------------------------
(* Where things are in the image of a list l: the START of its program i,  *)
(* or what follows the last one, and instruction j of program i, or its    *)
(* END.                                                                    *)
Chunks(body) == [j \in DOMAIN body |-> <<body[j].op>> \o body[j].args]
Program(l, i) ==
    <<ATOM_IIO_START, l[i].id>> \o FlattenSeq(Chunks(Body(l, i)))
    \o <<ATOM_IIO_END, ATOM_IIO_END, ATOM_IIO_START>>
Programs(l) == [i \in DOMAIN l |-> Program(l, i)]

StartAt(l, i) == Offsets(Programs(l))[i - 1] + 1
InsAt(l, i, j) == StartAt(l, i) + 2 + Offsets(Chunks(Body(l, i)))[j - 1]

LEMMA Shape ==
    ASSUME NEW l \in IioList
    PROVE  /\ Len(l) \in Nat /\ DOMAIN l = 1 .. Len(l)
           /\ \A i \in 1 .. Len(l) :
                 /\ l[i].id \in Byte
                 /\ Body(l, i) \in Seq(Instructions)
                 /\ Len(Body(l, i)) \in Nat /\ DOMAIN Body(l, i) = 1 .. Len(Body(l, i))
                 /\ \A j \in 1 .. Len(Body(l, i)) : Body(l, i)[j] \in Instructions
  <1>1. l \in Seq([id : Method, body : Seq(Instructions)])
    BY IioAssumption
  <1>2. Len(l) \in Nat /\ DOMAIN l = 1 .. Len(l)
    BY <1>1, LenProperties
  <1>3. \A i \in 1 .. Len(l) : l[i] \in [id : Method, body : Seq(Instructions)]
    BY <1>1, ElementOfSeq
  <1>4. \A i \in 1 .. Len(l) : l[i].id \in Byte /\ Body(l, i) \in Seq(Instructions)
    BY <1>3 DEF Body, Method
  <1>5. \A b \in Seq(Instructions) : Len(b) \in Nat /\ DOMAIN b = 1 .. Len(b)
    BY LenProperties
  <1>6. \A b \in Seq(Instructions) : \A j \in 1 .. Len(b) : b[j] \in Instructions
    BY ElementOfSeq
  <1> QED
    BY <1>2, <1>4, <1>5, <1>6

LEMMA ChunksType ==
    ASSUME NEW body \in Seq(Instructions)
    PROVE  /\ Chunks(body) \in Seq(Seq(Byte))
           /\ Len(Chunks(body)) = Len(body)
           /\ \A j \in 1 .. Len(body) :
                 /\ Len(Chunks(body)[j]) = 1 + Len(body[j].args)
                 /\ Chunks(body)[j][1] = body[j].op
                 /\ \A k \in 1 .. Len(body[j].args) : Chunks(body)[j][1 + k] = body[j].args[k]
  <1>1. Len(body) \in Nat /\ DOMAIN body = 1 .. Len(body)
    BY LenProperties
  <1>2. \A j \in 1 .. Len(body) : body[j] \in Instructions
    BY ElementOfSeq
  <1>3. \A j \in 1 .. Len(body) :
            /\ <<body[j].op>> \in Seq(Byte) /\ body[j].args \in Seq(Byte)
            /\ Len(body[j].args) \in Nat
    <2>1. \A j \in 1 .. Len(body) : body[j].op \in Byte /\ body[j].args \in Seq(Byte)
      BY <1>2, InstructionLength
    <2>2. \A j \in 1 .. Len(body) : Len(body[j].args) \in Nat
      BY <2>1, LenProperties
    <2> QED
      BY <2>1, <2>2
  <1>4. \A s \in Seq(Byte) : \A b : <<b>> \in Seq(Byte) => <<b>> \o s \in Seq(Byte)
    BY ConcatProperties
  <1>5. \A j \in 1 .. Len(body) : Chunks(body)[j] = <<body[j].op>> \o body[j].args
    BY <1>1 DEF Chunks
  <1>6. \A j \in 1 .. Len(body) : Chunks(body)[j] \in Seq(Byte)
    BY <1>3, <1>4, <1>5
  <1>7. Chunks(body) \in Seq(Seq(Byte)) /\ Len(Chunks(body)) = Len(body)
    <2>1. Chunks(body) = [j \in 1 .. Len(body) |-> Chunks(body)[j]]
      BY <1>1 DEF Chunks
    <2> QED
      BY <1>1, <1>6, <2>1
  <1>8. ASSUME NEW j \in 1 .. Len(body)
        PROVE  /\ Len(Chunks(body)[j]) = 1 + Len(body[j].args)
               /\ Chunks(body)[j][1] = body[j].op
               /\ \A k \in 1 .. Len(body[j].args) : Chunks(body)[j][1 + k] = body[j].args[k]
    <2> DEFINE o == <<body[j].op>>
               a == body[j].args
    <2>1. o \in Seq(Byte) /\ a \in Seq(Byte) /\ Len(a) \in Nat
      BY <1>3
    <2>2. Len(o) = 1 /\ o[1] = body[j].op
      OBVIOUS
    <2>3. Chunks(body)[j] = o \o a
      BY <1>5
    <2> HIDE DEF o, a
    <2>4. /\ Len(o \o a) = Len(o) + Len(a)
          /\ \A k \in 1 .. Len(o) + Len(a) : (o \o a)[k] = IF k <= Len(o) THEN o[k] ELSE a[k - Len(o)]
      BY <2>1, ConcatProperties
    <2>5. (o \o a)[1] = o[1] /\ \A k \in 1 .. Len(a) : (o \o a)[1 + k] = a[k]
      BY <2>1, <2>2, <2>4
    <2> QED
      BY <2>2, <2>3, <2>4, <2>5 DEF a
  <1> QED
    BY <1>7, <1>8

(* r is s and then t.                                                      *)
Joins(r, s, t) ==
    /\ Len(r) = Len(s) + Len(t)
    /\ \A k \in 1 .. Len(s) : r[k] = s[k]
    /\ \A k \in 1 .. Len(t) : r[Len(s) + k] = t[k]

LEMMA ConcatAt ==
    ASSUME NEW B, NEW s \in Seq(B), NEW t \in Seq(B)
    PROVE  s \o t \in Seq(B) /\ Joins(s \o t, s, t)
  <1>1. /\ s \o t \in Seq(B)
        /\ Len(s \o t) = Len(s) + Len(t)
        /\ \A i \in 1 .. Len(s) + Len(t) : (s \o t)[i] = IF i <= Len(s) THEN s[i] ELSE t[i - Len(s)]
    BY ConcatProperties
  <1>2. Len(s) \in Nat /\ Len(t) \in Nat
    BY LenProperties
  <1>3. \A k \in 1 .. Len(s) : k \in 1 .. Len(s) + Len(t) /\ k <= Len(s)
    BY <1>2
  <1>4. \A k \in 1 .. Len(t) :
            /\ Len(s) + k \in 1 .. Len(s) + Len(t) /\ ~ (Len(s) + k <= Len(s))
            /\ (Len(s) + k) - Len(s) = k
    BY <1>2
  <1>5. \A k \in 1 .. Len(s) : (s \o t)[k] = s[k]
    BY <1>1, <1>3
  <1>6. \A k \in 1 .. Len(t) : (s \o t)[Len(s) + k] = t[k]
    BY <1>1, <1>4
  <1> QED
    BY <1>1, <1>5, <1>6 DEF Joins

(* The bytes of p from a on are those of a program b of the method id.     *)
Holds(p, a, id, b) ==
    /\ p[a] = ATOM_IIO_START /\ p[a + 1] = id
    /\ \A j \in 1 .. Len(b) :
          /\ p[a + 2 + Offsets(Chunks(b))[j - 1]] = b[j].op
          /\ \A k \in 1 .. Len(b[j].args) :
                p[a + 2 + Offsets(Chunks(b))[j - 1] + k] = b[j].args[k]
    /\ p[a + 2 + Offsets(Chunks(b))[Len(b)]] = ATOM_IIO_END

LEMMA ProgramIs ==
    ASSUME NEW l \in IioList, NEW i \in 1 .. Len(l)
    PROVE  /\ Program(l, i) \in Seq(Byte)
           /\ Offsets(Chunks(Body(l, i))) \in [0 .. Len(Body(l, i)) -> Nat]
           /\ Len(Program(l, i)) = 5 + Offsets(Chunks(Body(l, i)))[Len(Body(l, i))]
           /\ Holds(Program(l, i), 1, l[i].id, Body(l, i))
  <1> DEFINE b == Body(l, i)
             c == Chunks(b)
             off == Offsets(c)
             n == Len(b)
             h == <<ATOM_IIO_START, l[i].id>>
             f == FlattenSeq(c)
             e == <<ATOM_IIO_END, ATOM_IIO_END, ATOM_IIO_START>>
             p == Program(l, i)
  <1>1. b \in Seq(Instructions) /\ n \in Nat /\ l[i].id \in Byte
        /\ \A j \in 1 .. n : b[j] \in Instructions
    BY Shape
  <1>2. /\ c \in Seq(Seq(Byte)) /\ Len(c) = n
        /\ \A j \in 1 .. n :
              /\ Len(c[j]) = 1 + Len(b[j].args)
              /\ c[j][1] = b[j].op
              /\ \A k \in 1 .. Len(b[j].args) : c[j][1 + k] = b[j].args[k]
    <2> HIDE DEF b, c
    <2> QED
      BY <1>1, ChunksType DEF c
  <1>3. /\ off \in [0 .. n -> Nat] /\ off[0] = 0
        /\ \A j \in 1 .. n : off[j] = off[j - 1] + Len(c[j])
    <2> HIDE DEF b, c, n
    <2> QED
      BY <1>2, OffsetsAre
  <1>4. f \in Seq(Byte) /\ IsFlat(f, c, n)
    <2> HIDE DEF b, c, n
    <2> QED
      BY <1>2, FlattenSeqIs
  <1>5. Len(f) = off[n] /\ \A j \in 1 .. n : \A k \in 1 .. Len(c[j]) : f[off[j - 1] + k] = c[j][k]
    <2> HIDE DEF b, c, n, f
    <2> QED
      BY <1>4 DEF IsFlat
  <1>6. h \in Seq(Byte) /\ Len(h) = 2 /\ h[1] = ATOM_IIO_START /\ h[2] = l[i].id
    <2>1. \A x, y \in Byte : <<x, y>> \in Seq(Byte) /\ Len(<<x, y>>) = 2
      OBVIOUS
    <2>2. ATOM_IIO_START \in Byte
      BY DEF Byte
    <2>3. <<ATOM_IIO_START, l[i].id>> \in Seq(Byte) /\ Len(<<ATOM_IIO_START, l[i].id>>) = 2
      BY <1>1, <2>1, <2>2
    <2> QED
      BY <2>3
  <1>7. e \in Seq(Byte) /\ Len(e) = 3 /\ e[1] = ATOM_IIO_END
    <2>1. \A x, y, z \in Byte : <<x, y, z>> \in Seq(Byte) /\ Len(<<x, y, z>>) = 3
      OBVIOUS
    <2>2. ATOM_IIO_START \in Byte /\ ATOM_IIO_END \in Byte
      BY DEF Byte
    <2>3. e \in Seq(Byte) /\ Len(e) = 3
      BY <2>1, <2>2
    <2> QED
      BY <2>3
  <1>8. p = (h \o f) \o e
    BY DEF Program
  <1> HIDE DEF b, c, off, n, h, f, e, p
  <1>9. /\ h \o f \in Seq(Byte) /\ Len(h \o f) = 2 + off[n]
        /\ \A k \in 1 .. 2 : (h \o f)[k] = h[k]
        /\ \A k \in 1 .. off[n] : (h \o f)[2 + k] = f[k]
    <2>1. h \o f \in Seq(Byte) /\ Joins(h \o f, h, f)
      BY <1>4, <1>6, ConcatAt
    <2> QED
      BY <1>5, <1>6, <2>1 DEF Joins
  <1>10. /\ p \in Seq(Byte) /\ Len(p) = (2 + off[n]) + 3
         /\ \A k \in 1 .. 2 + off[n] : p[k] = (h \o f)[k]
         /\ \A k \in 1 .. 3 : p[(2 + off[n]) + k] = e[k]
    <2> DEFINE s == h \o f
    <2>1. s \in Seq(Byte) /\ Len(s) = 2 + off[n]
      BY <1>9
    <2> HIDE DEF s
    <2>2. s \o e \in Seq(Byte) /\ Joins(s \o e, s, e)
      BY <1>7, <2>1, ConcatAt
    <2>3. p = s \o e
      BY <1>8 DEF s
    <2> QED
      BY <1>7, <2>1, <2>2, <2>3 DEF s, Joins
  <1>11. off[n] \in Nat
    BY <1>1, <1>3
  <1>12. p[1] = ATOM_IIO_START /\ p[2] = l[i].id
    <2>1. 1 \in 1 .. 2 /\ 2 \in 1 .. 2 /\ 1 \in 1 .. 2 + off[n] /\ 2 \in 1 .. 2 + off[n]
      BY <1>11
    <2>2. (h \o f)[1] = h[1] /\ (h \o f)[2] = h[2]
      BY <1>9, <2>1
    <2> QED
      BY <1>6, <1>10, <2>1, <2>2
  <1>13. \A k \in 1 .. off[n] : p[2 + k] = f[k]
    <2>1. \A k \in 1 .. off[n] : 2 + k \in 1 .. 2 + off[n]
      BY <1>11
    <2> QED
      BY <1>9, <1>10, <2>1
  <1>14. p[3 + off[n]] = ATOM_IIO_END
    <2>1. (2 + off[n]) + 1 = 3 + off[n]
      BY <1>11
    <2> QED
      BY <1>7, <1>10, <2>1
  <1>15. ASSUME NEW j \in 1 .. n
         PROVE  /\ p[3 + off[j - 1]] = b[j].op
                /\ \A k \in 1 .. Len(b[j].args) : p[3 + off[j - 1] + k] = b[j].args[k]
    <2>1. /\ off[j - 1] \in Nat /\ off[j] \in Nat /\ off[j] = off[j - 1] + Len(c[j])
          /\ Len(c[j]) = 1 + Len(b[j].args)
      <3>1. j \in 0 .. n /\ j - 1 \in 0 .. n
        BY <1>1
      <3> QED
        BY <1>2, <1>3, <3>1
    <2>2. Len(b[j].args) \in Nat
      <3>1. b[j].args \in Seq(Byte)
        BY <1>1, InstructionLength
      <3> QED
        BY <3>1, LenProperties
    <2>3. off[j] <= off[n]
      <3>1. \A x, y \in 0 .. Len(c) : x <= y => off[x] <= off[y]
        BY <1>2, OffsetsOrder DEF off
      <3> QED
        BY <1>1, <1>2, <3>1
    <2>4. \A k \in 1 .. Len(c[j]) : off[j - 1] + k \in 1 .. off[n]
      <3>1. \A x, y, z, w \in Nat : y = x + w /\ y <= z =>
                \A k \in 1 .. w : x + k \in 1 .. z
        OBVIOUS
      <3>2. Len(c[j]) \in Nat
        BY <2>1, <2>2
      <3> QED
        BY <1>11, <2>1, <2>3, <3>1, <3>2
    <2>5. \A k \in 1 .. Len(c[j]) : p[2 + (off[j - 1] + k)] = c[j][k]
      BY <1>5, <1>13, <2>4
    <2>6. 1 \in 1 .. Len(c[j]) /\ 2 + (off[j - 1] + 1) = 3 + off[j - 1]
      BY <2>1, <2>2
    <2>7. \A k \in 1 .. Len(b[j].args) :
              1 + k \in 1 .. Len(c[j]) /\ 2 + (off[j - 1] + (1 + k)) = 3 + off[j - 1] + k
      <3>1. \A x, w \in Nat : \A k \in 1 .. w :
                1 + k \in 1 .. 1 + w /\ 2 + (x + (1 + k)) = 3 + x + k
        OBVIOUS
      <3> QED
        BY <2>1, <2>2, <3>1
    <2>8. p[3 + off[j - 1]] = b[j].op
      BY <1>2, <2>5, <2>6
    <2>9. \A k \in 1 .. Len(b[j].args) : p[3 + off[j - 1] + k] = b[j].args[k]
      BY <1>2, <2>5, <2>7
    <2> QED
      BY <2>8, <2>9
  <1>16. Len(p) = 5 + off[n]
    BY <1>10, <1>11
  <1>17. Holds(p, 1, l[i].id, b)
    <2>1. 1 + 1 = 2 /\ 1 + 2 = 3
      OBVIOUS
    <2> QED
      BY <1>12, <1>14, <1>15, <2>1 DEF Holds, off, n, c
  <1> QED
    BY <1>3, <1>10, <1>16, <1>17 DEF b, c, off, n, p

LEMMA ProgramsType ==
    ASSUME NEW l \in IioList
    PROVE  /\ Programs(l) \in Seq(Seq(Byte))
           /\ Len(Programs(l)) = Len(l)
           /\ \A i \in 1 .. Len(l) : Programs(l)[i] = Program(l, i)
  <1>1. Len(l) \in Nat /\ DOMAIN l = 1 .. Len(l)
    BY Shape
  <1>2. \A i \in 1 .. Len(l) : Program(l, i) \in Seq(Byte)
    BY ProgramIs
  <1>3. Programs(l) = [i \in 1 .. Len(l) |-> Program(l, i)]
    BY <1>1 DEF Programs
  <1> QED
    BY <1>1, <1>2, <1>3

LEMMA AssembleIs ==
    ASSUME NEW l \in IioList
    PROVE  /\ Assemble(l) \in Seq(Byte)
           /\ Len(Assemble(l)) = StartAt(l, Len(l) + 1)
           /\ Assemble(l)[StartAt(l, Len(l) + 1)] = ATOM_IIO_NOP
           /\ \A i \in 1 .. Len(l) : Holds(Assemble(l), StartAt(l, i), l[i].id, Body(l, i))
  <1> DEFINE n == Len(l)
             c == Programs(l)
             off == Offsets(c)
             f == FlattenSeq(c)
             e == <<ATOM_IIO_NOP>>
             p == Assemble(l)
  <1>1. n \in Nat /\ c \in Seq(Seq(Byte)) /\ Len(c) = n
    BY Shape, ProgramsType
  <1>2. off \in [0 .. n -> Nat] /\ \A i \in 1 .. n : off[i] = off[i - 1] + Len(c[i])
    <2> HIDE DEF c, n
    <2> QED
      BY <1>1, OffsetsAre
  <1>3. f \in Seq(Byte) /\ IsFlat(f, c, n)
    <2> HIDE DEF c, n
    <2> QED
      BY <1>1, FlattenSeqIs
  <1>4. e \in Seq(Byte) /\ Len(e) = 1 /\ e[1] = ATOM_IIO_NOP
    BY DEF Byte
  <1>5. p = f \o e
    BY DEF Assemble, Programs, Program, Chunks
  <1>6. StartAt(l, n + 1) = off[n] + 1
    <2>1. (n + 1) - 1 = n
      BY <1>1
    <2> QED
      BY <2>1 DEF StartAt
  <1> HIDE DEF n, c, off, f, e, p
  <1>7. p \in Seq(Byte) /\ Joins(p, f, e)
    BY <1>3, <1>4, <1>5, ConcatAt
  <1>8. /\ Len(f) = off[n] /\ off[n] \in Nat
        /\ \A i \in 1 .. n : \A k \in 1 .. Len(c[i]) : f[off[i - 1] + k] = c[i][k]
    BY <1>1, <1>2, <1>3 DEF IsFlat, off
  <1>9. Len(p) = off[n] + 1 /\ p[off[n] + 1] = ATOM_IIO_NOP
    BY <1>4, <1>7, <1>8 DEF Joins
  <1>10. \A k \in 1 .. off[n] : p[k] = f[k]
    BY <1>7, <1>8 DEF Joins
  <1>11. ASSUME NEW i \in 1 .. n
         PROVE  Holds(p, StartAt(l, i), l[i].id, Body(l, i))
    <2> DEFINE b == Body(l, i)
               o == Offsets(Chunks(b))
               m == Len(b)
               s == c[i]
    <2>1. /\ off[i - 1] \in Nat /\ off[i] \in Nat /\ off[i] = off[i - 1] + Len(s)
          /\ StartAt(l, i) = off[i - 1] + 1
      <3>1. i \in 0 .. n /\ i - 1 \in 0 .. n
        BY <1>1
      <3> QED
        BY <1>2, <3>1 DEF StartAt, off, c
    <2>2. off[i] <= off[n]
      <3>1. \A x, y \in 0 .. Len(c) : x <= y => off[x] <= off[y]
        BY <1>1, OffsetsOrder DEF off
      <3> QED
        BY <1>1, <3>1
    <2>3. s = Program(l, i)
      BY ProgramsType DEF c, n
    <2>4. s \in Seq(Byte) /\ o \in [0 .. m -> Nat] /\ Len(s) = 5 + o[m] /\ Holds(s, 1, l[i].id, b)
      BY <2>3, ProgramIs DEF n
    <2>5. m \in Nat /\ Chunks(b) \in Seq(Seq(Byte)) /\ Len(Chunks(b)) = m
          /\ \A j \in 1 .. m : b[j].args \in Seq(Byte) /\ Len(Chunks(b)[j]) = 1 + Len(b[j].args)
      <3>1. b \in Seq(Instructions) /\ m \in Nat /\ \A j \in 1 .. m : b[j] \in Instructions
        BY Shape DEF n
      <3>2. \A j \in 1 .. m : b[j].args \in Seq(Byte)
        BY <3>1, InstructionLength
      <3> HIDE DEF b
      <3> QED
        BY <3>1, <3>2, ChunksType
    <2> HIDE DEF s, m
    <2>6. \A k \in 1 .. Len(s) : p[off[i - 1] + k] = s[k]
      <3>1. \A k \in 1 .. Len(s) : f[off[i - 1] + k] = s[k]
        BY <1>8 DEF s
      <3>2. Len(s) \in Nat
        BY <2>4, LenProperties
      <3>3. \A k \in 1 .. Len(s) : off[i - 1] + k \in 1 .. off[n]
        <4>1. \A x, y, z, w \in Nat : y = x + w /\ y <= z =>
                  \A k \in 1 .. w : x + k \in 1 .. z
          OBVIOUS
        <4> QED
          BY <1>8, <2>1, <2>2, <3>2, <4>1
      <3> QED
        BY <1>10, <3>1, <3>3
    <2>7. o[m] \in Nat
      BY <2>4, <2>5
    <2>8. \A d \in 0 .. o[m] + 2 : p[StartAt(l, i) + d] = s[1 + d]
      <3>1. \A d \in 0 .. o[m] + 2 : 1 + d \in 1 .. Len(s) /\ off[i - 1] + (1 + d) = StartAt(l, i) + d
        <4>1. \A x, y, z, w \in Nat : w = 5 + y /\ z = x + 1 =>
                  \A d \in 0 .. y + 2 : 1 + d \in 1 .. w /\ x + (1 + d) = z + d
          OBVIOUS
        <4>2. Len(s) \in Nat /\ Len(s) = 5 + o[m]
          BY <2>4, LenProperties
        <4>3. StartAt(l, i) \in Nat
          BY <2>1
        <4> DEFINE x == off[i - 1]
                   y == o[m]
                   z == StartAt(l, i)
                   w == Len(s)
        <4>4. x \in Nat /\ y \in Nat /\ z \in Nat /\ w \in Nat /\ w = 5 + y /\ z = x + 1
          BY <2>1, <2>7, <4>2, <4>3
        <4> HIDE DEF x, y, z, w
        <4>5. \A d \in 0 .. y + 2 : 1 + d \in 1 .. w /\ x + (1 + d) = z + d
          BY <4>1, <4>4
        <4> QED
          BY <4>5 DEF x, y, z, w
      <3> QED
        BY <2>6, <3>1
    <2>9. ASSUME NEW j \in 1 .. m
          PROVE  /\ o[j - 1] \in Nat /\ Len(b[j].args) \in Nat
                 /\ o[j - 1] + 1 + Len(b[j].args) <= o[m]
      <3>1. \A x, y \in 0 .. Len(Chunks(b)) : x <= y => o[x] <= o[y]
        <4> HIDE DEF b
        <4> QED
          BY <2>5, OffsetsOrder
      <3>2. o[j] = o[j - 1] + Len(Chunks(b)[j])
        <4> HIDE DEF b
        <4> QED
          BY <2>5, OffsetsAre
      <3>3. j \in 0 .. m /\ j - 1 \in 0 .. m /\ m \in 0 .. m /\ j <= m
        BY <2>5
      <3>4. o[j] <= o[m] /\ o[j] \in Nat /\ o[j - 1] \in Nat
        BY <2>4, <2>5, <3>1, <3>3
      <3>5. Len(b[j].args) \in Nat /\ Len(Chunks(b)[j]) = 1 + Len(b[j].args)
        BY <2>5, LenProperties
      <3>6. \A x, y, z, w \in Nat : y = x + (1 + w) /\ y <= z => x + 1 + w <= z
        OBVIOUS
      <3>7. o[j] = o[j - 1] + (1 + Len(b[j].args))
        BY <3>2, <3>5
      <3> HIDE DEF o, b
      <3> QED
        BY <2>7, <3>4, <3>5, <3>6, <3>7
    <2> HIDE DEF o
    <2>10. /\ s[1] = ATOM_IIO_START /\ s[1 + 1] = l[i].id /\ s[1 + 2 + o[m]] = ATOM_IIO_END
           /\ \A j \in 1 .. m :
                 /\ s[1 + 2 + o[j - 1]] = b[j].op
                 /\ \A k \in 1 .. Len(b[j].args) : s[1 + 2 + o[j - 1] + k] = b[j].args[k]
      BY <2>4 DEF Holds, o, m
    <2>11. p[StartAt(l, i)] = s[1] /\ p[StartAt(l, i) + 1] = s[1 + 1]
           /\ p[StartAt(l, i) + 2 + o[m]] = s[1 + 2 + o[m]]
      <3>1. 0 \in 0 .. o[m] + 2 /\ 1 \in 0 .. o[m] + 2 /\ 2 + o[m] \in 0 .. o[m] + 2
        BY <2>7
      <3>2. StartAt(l, i) + 0 = StartAt(l, i) /\ StartAt(l, i) + (2 + o[m]) = StartAt(l, i) + 2 + o[m]
            /\ 1 + 0 = 1 /\ 1 + (2 + o[m]) = 1 + 2 + o[m]
        BY <2>1, <2>7
      <3>3. p[StartAt(l, i) + 0] = s[1 + 0] /\ p[StartAt(l, i) + 1] = s[1 + 1]
            /\ p[StartAt(l, i) + (2 + o[m])] = s[1 + (2 + o[m])]
        BY <2>8, <3>1
      <3> QED
        BY <3>2, <3>3
    <2>12. ASSUME NEW j \in 1 .. m
           PROVE  /\ p[StartAt(l, i) + 2 + o[j - 1]] = s[1 + 2 + o[j - 1]]
                  /\ \A k \in 1 .. Len(b[j].args) :
                        p[StartAt(l, i) + 2 + o[j - 1] + k] = s[1 + 2 + o[j - 1] + k]
      <3> DEFINE x == o[j - 1]
                 w == Len(b[j].args)
      <3>1. x \in Nat /\ w \in Nat /\ x + 1 + w <= o[m]
        BY <2>9
      <3> HIDE DEF x, w
      <3>2. 2 + x \in 0 .. o[m] + 2 /\ \A k \in 1 .. w : 2 + x + k \in 0 .. o[m] + 2
        BY <2>7, <3>1
      <3>3. /\ StartAt(l, i) + (2 + x) = StartAt(l, i) + 2 + x /\ 1 + (2 + x) = 1 + 2 + x
            /\ \A k \in 1 .. w : StartAt(l, i) + (2 + x + k) = StartAt(l, i) + 2 + x + k
                                /\ 1 + (2 + x + k) = 1 + 2 + x + k
        BY <2>1, <3>1
      <3>4. p[StartAt(l, i) + (2 + x)] = s[1 + (2 + x)]
            /\ \A k \in 1 .. w : p[StartAt(l, i) + (2 + x + k)] = s[1 + (2 + x + k)]
        BY <2>8, <3>2
      <3> QED
        BY <3>3, <3>4 DEF x, w
    <2> QED
      BY <2>10, <2>11, <2>12 DEF Holds, o, m
  <1> QED
    BY <1>6, <1>7, <1>9, <1>11 DEF n, p

LEMMA ChunkOffsets ==
    ASSUME NEW l \in IioList, NEW i \in 1 .. Len(l)
    PROVE  /\ Offsets(Chunks(Body(l, i))) \in [0 .. Len(Body(l, i)) -> Nat]
           /\ Offsets(Chunks(Body(l, i)))[0] = 0
           /\ \A j \in 1 .. Len(Body(l, i)) :
                 /\ Len(Body(l, i)[j].args) \in Nat
                 /\ Offsets(Chunks(Body(l, i)))[j]
                        = Offsets(Chunks(Body(l, i)))[j - 1] + 1 + Len(Body(l, i)[j].args)
           /\ \A j \in 0 .. Len(Body(l, i)) :
                 Offsets(Chunks(Body(l, i)))[j] <= Offsets(Chunks(Body(l, i)))[Len(Body(l, i))]
  <1> DEFINE b == Body(l, i)
             c == Chunks(b)
             off == Offsets(c)
             m == Len(b)
  <1>1. b \in Seq(Instructions) /\ m \in Nat /\ \A j \in 1 .. m : b[j] \in Instructions
    BY Shape
  <1>2. \A j \in 1 .. m : b[j].args \in Seq(Byte)
    BY <1>1, InstructionLength
  <1>3. \A j \in 1 .. m : Len(b[j].args) \in Nat
    BY <1>2, LenProperties
  <1> HIDE DEF b
  <1>4. /\ c \in Seq(Seq(Byte)) /\ Len(c) = m
        /\ \A j \in 1 .. m : Len(c[j]) = 1 + Len(b[j].args)
    BY <1>1, ChunksType
  <1> HIDE DEF c, m
  <1>5. /\ off \in [0 .. m -> Nat] /\ off[0] = 0
        /\ \A j \in 1 .. m : off[j] = off[j - 1] + Len(c[j])
    BY <1>4, OffsetsAre
  <1>6. \A x, y \in 0 .. m : x <= y => off[x] <= off[y]
    BY <1>4, OffsetsOrder
  <1> HIDE DEF off
  <1>7. \A j \in 1 .. m : off[j] = off[j - 1] + 1 + Len(b[j].args)
    <2> SUFFICES ASSUME NEW j \in 1 .. m PROVE off[j] = off[j - 1] + 1 + Len(b[j].args)
      OBVIOUS
    <2>1. j - 1 \in 0 .. m
      BY <1>1
    <2>2. off[j - 1] \in Nat
      BY <1>5, <2>1
    <2>3. \A x, w \in Nat : x + (1 + w) = x + 1 + w
      OBVIOUS
    <2>4. off[j] = off[j - 1] + (1 + Len(b[j].args))
      BY <1>4, <1>5
    <2> QED
      BY <1>3, <2>2, <2>3, <2>4
  <1>8. \A j \in 0 .. m : j <= m /\ m \in 0 .. m
    BY <1>1
  <1> QED
    BY <1>3, <1>5, <1>6, <1>7, <1>8 DEF b, c, off, m

(* How the places in an image follow one another.                          *)
LEMMA PlacesOfProgram ==
    ASSUME NEW l \in IioList, NEW i \in 1 .. Len(l)
    PROVE  /\ StartAt(l, i) \in Nat /\ StartAt(l, i) >= 1
           /\ InsAt(l, i, 1) = StartAt(l, i) + 2
           /\ \A j \in 1 .. Len(Body(l, i)) + 1 :
                 InsAt(l, i, j) \in Nat /\ InsAt(l, i, j) >= 1
                 /\ InsAt(l, i, j) + 3 <= StartAt(l, i + 1)
           /\ \A j \in 1 .. Len(Body(l, i)) :
                 InsAt(l, i, j + 1) = InsAt(l, i, j) + 1 + Len(Body(l, i)[j].args)
           /\ StartAt(l, i + 1) = InsAt(l, i, Len(Body(l, i)) + 1) + 3
  <1> DEFINE off == Offsets(Chunks(Body(l, i)))
             m == Len(Body(l, i))
             s == Offsets(Programs(l))
  <1>1. Len(l) \in Nat /\ m \in Nat
    BY Shape
  <1>2. /\ off \in [0 .. m -> Nat] /\ off[0] = 0
        /\ \A j \in 1 .. m : Len(Body(l, i)[j].args) \in Nat
                          /\ off[j] = off[j - 1] + 1 + Len(Body(l, i)[j].args)
        /\ \A j \in 0 .. m : off[j] <= off[m]
    BY ChunkOffsets
  <1>3. /\ s \in [0 .. Len(l) -> Nat]
        /\ s[i] = s[i - 1] + (5 + off[m])
    <2>1. Len(Programs(l)[i]) = 5 + off[m]
      BY ProgramIs, ProgramsType
    <2> QED
      BY <2>1, ProgramsType, OffsetsAre
  <1> HIDE DEF off, m, s
  <1>4. s[i - 1] \in Nat /\ s[i] \in Nat
    <2>1. i - 1 \in 0 .. Len(l) /\ i \in 0 .. Len(l)
      BY <1>1
    <2> QED
      BY <1>3, <2>1
  <1>5. StartAt(l, i) = s[i - 1] + 1 /\ StartAt(l, i + 1) = s[i] + 1
    <2>1. (i + 1) - 1 = i
      OBVIOUS
    <2> QED
      BY <2>1 DEF StartAt, s
  <1>6. \A j \in 1 .. m + 1 : InsAt(l, i, j) = StartAt(l, i) + 2 + off[j - 1]
    BY DEF InsAt, off
  <1>7. \A j \in 1 .. m + 1 : j - 1 \in 0 .. m
    BY <1>1
  <1>8. \A j \in 1 .. m + 1 : off[j - 1] \in Nat /\ off[j - 1] <= off[m]
    BY <1>2, <1>7
  <1>9. off[m] \in Nat
    BY <1>1, <1>2
  <1>10. InsAt(l, i, 1) = StartAt(l, i) + 2
    <2>1. 1 \in 1 .. m + 1 /\ 1 - 1 = 0
      BY <1>1
    <2>2. InsAt(l, i, 1) = StartAt(l, i) + 2 + 0
      BY <1>2, <1>6, <2>1
    <2> QED
      BY <1>4, <1>5, <2>2
  <1>11. ASSUME NEW j \in 1 .. m + 1
         PROVE  InsAt(l, i, j) \in Nat /\ InsAt(l, i, j) >= 1 /\ InsAt(l, i, j) + 3 <= StartAt(l, i + 1)
    <2>1. \A a, x, y \in Nat : x <= y => a + 1 + 2 + x \in Nat /\ a + 1 + 2 + x >= 1
                                       /\ a + 1 + 2 + x + 3 <= a + (5 + y) + 1
      OBVIOUS
    <2> QED
      <3> DEFINE a == s[i - 1]
                 x == off[j - 1]
                 y == off[m]
      <3>1. a \in Nat /\ x \in Nat /\ y \in Nat /\ x <= y
        BY <1>4, <1>8, <1>9
      <3>2. InsAt(l, i, j) = a + 1 + 2 + x
        BY <1>5, <1>6
      <3>3. StartAt(l, i + 1) = a + (5 + y) + 1
        BY <1>3, <1>5
      <3> HIDE DEF a, x, y
      <3> QED
        BY <2>1, <3>1, <3>2, <3>3
  <1>12. ASSUME NEW j \in 1 .. m
         PROVE  InsAt(l, i, j + 1) = InsAt(l, i, j) + 1 + Len(Body(l, i)[j].args)
    <2>1. j \in 1 .. m + 1 /\ j + 1 \in 1 .. m + 1 /\ (j + 1) - 1 = j
      BY <1>1
    <2>2. InsAt(l, i, j + 1) = StartAt(l, i) + 2 + off[j] /\ InsAt(l, i, j) = StartAt(l, i) + 2 + off[j - 1]
      BY <1>6, <2>1
    <2>3. \A a, x, w \in Nat : a + 2 + (x + 1 + w) = a + 2 + x + 1 + w
      OBVIOUS
    <2>4. off[j - 1] \in Nat /\ StartAt(l, i) \in Nat /\ Len(Body(l, i)[j].args) \in Nat
      <3>1. off[j - 1] \in Nat
        BY <1>8, <2>1
      <3>2. StartAt(l, i) \in Nat
        BY <1>4, <1>5
      <3>3. Len(Body(l, i)[j].args) \in Nat
        BY <1>2
      <3> QED
        BY <3>1, <3>2, <3>3
    <2>5. off[j] = off[j - 1] + 1 + Len(Body(l, i)[j].args)
      BY <1>2
    <2> QED
      BY <2>2, <2>3, <2>4, <2>5
  <1>13. StartAt(l, i + 1) = InsAt(l, i, m + 1) + 3
    <2>1. m + 1 \in 1 .. m + 1 /\ (m + 1) - 1 = m
      BY <1>1
    <2>2. InsAt(l, i, m + 1) = StartAt(l, i) + 2 + off[m]
      BY <1>6, <2>1
    <2>3. \A a, x \in Nat : a + (5 + x) + 1 = a + 1 + 2 + x + 3
      OBVIOUS
    <2>4. StartAt(l, i + 1) = s[i - 1] + (5 + off[m]) + 1
      BY <1>3, <1>5
    <2>5. InsAt(l, i, m + 1) = s[i - 1] + 1 + 2 + off[m]
      BY <1>5, <2>2
    <2> QED
      BY <1>4, <1>9, <2>3, <2>4, <2>5
  <1>14. StartAt(l, i) \in Nat /\ StartAt(l, i) >= 1
    BY <1>4, <1>5
  <1> QED
    BY <1>10, <1>11, <1>12, <1>13, <1>14 DEF m

LEMMA PlacesInImage ==
    ASSUME NEW l \in IioList
    PROVE  /\ StartAt(l, 1) = 1
           /\ \A i \in 1 .. Len(l) + 1 : StartAt(l, i) \in 1 .. Len(Assemble(l))
           /\ \A i \in 1 .. Len(l) : \A j \in 1 .. Len(Body(l, i)) + 1 :
                 InsAt(l, i, j) \in 1 .. Len(Assemble(l))
  <1> DEFINE n == Len(l)
             s == Offsets(Programs(l))
             z == Len(Assemble(l))
  <1>1. n \in Nat /\ z = StartAt(l, n + 1)
    BY Shape, AssembleIs
  <1>2. s \in [0 .. n -> Nat] /\ s[0] = 0 /\ \A x, y \in 0 .. n : x <= y => s[x] <= s[y]
    BY ProgramsType, OffsetsAre, OffsetsOrder
  <1> HIDE DEF s, z
  <1>3. \A i \in 1 .. n + 1 : StartAt(l, i) = s[i - 1] + 1 /\ i - 1 \in 0 .. n /\ i - 1 <= n
    BY <1>1 DEF StartAt, s
  <1>4. n + 1 \in 1 .. n + 1 /\ (n + 1) - 1 = n /\ n \in 0 .. n /\ 1 \in 1 .. n + 1 /\ 1 - 1 = 0
    BY <1>1
  <1>5. z = s[n] + 1 /\ s[n] \in Nat
    BY <1>1, <1>2, <1>3, <1>4
  <1>6. StartAt(l, 1) = 1
    BY <1>2, <1>3, <1>4
  <1>7. \A i \in 1 .. n + 1 : StartAt(l, i) \in 1 .. z
    <2> SUFFICES ASSUME NEW i \in 1 .. n + 1 PROVE StartAt(l, i) \in 1 .. z
      OBVIOUS
    <2>1. s[i - 1] \in Nat /\ s[i - 1] <= s[n] /\ StartAt(l, i) = s[i - 1] + 1
      BY <1>2, <1>3, <1>4
    <2> QED
      BY <1>5, <2>1
  <1>8. ASSUME NEW i \in 1 .. n, NEW j \in 1 .. Len(Body(l, i)) + 1
        PROVE  InsAt(l, i, j) \in 1 .. z
    <2>1. InsAt(l, i, j) \in Nat /\ InsAt(l, i, j) >= 1 /\ InsAt(l, i, j) + 3 <= StartAt(l, i + 1)
      BY PlacesOfProgram
    <2>2. i + 1 \in 1 .. n + 1
      BY <1>1
    <2>3. StartAt(l, i + 1) \in 1 .. z
      BY <1>7, <2>2
    <2>4. z \in Nat
      BY <1>5
    <2> QED
      BY <2>1, <2>3, <2>4
  <1> QED
    BY <1>6, <1>7, <1>8 DEF z

-----------------------------------------------------------------------------
(* The methods of the first n programs are there, each with the last of    *)
(* its programs.                                                           *)
LastOf(n, m, k) == list[k].id = m /\ \A i \in 1 .. n : list[i].id = m => i <= k

Indexed(n) ==
    /\ DOMAIN iio = {list[k].id : k \in 1 .. n}
    /\ \A m \in DOMAIN iio : \E k \in 1 .. n : LastOf(n, m, k) /\ iio[m] = InsAt(list, k, 1)

(* The walk is at the START of a program, or behind the last one, or at an  *)
(* instruction of a program or its END, and has indexed what it has passed. *)
WalkInv ==
    /\ list \in IioList
    /\ image = Assemble(list)
    /\ walk \in {"program", "body", "done"}
    /\ walk = "program" =>
          \E i \in 1 .. Len(list) + 1 : base = StartAt(list, i) /\ Indexed(i - 1)
    /\ walk = "body" =>
          \E i \in 1 .. Len(list) :
              /\ \E j \in 1 .. Len(Body(list, i)) + 1 : base = InsAt(list, i, j)
              /\ Indexed(i)
    /\ walk = "done" => base = StartAt(list, Len(list) + 1) /\ Indexed(Len(list))

LEMMA WalkInit == IioInit => WalkInv
  <1> SUFFICES ASSUME IioInit PROVE WalkInv
    OBVIOUS
  <1>1. list \in IioList /\ image = Assemble(list) /\ base = 1 /\ walk = "program" /\ iio = <<>>
    BY DEF IioInit
  <1>2. Len(list) \in Nat /\ 1 \in 1 .. Len(list) + 1 /\ 1 - 1 = 0
    BY <1>1, Shape
  <1>3. base = StartAt(list, 1)
    BY <1>1, PlacesInImage
  <1>4. Indexed(0)
    <2>1. DOMAIN iio = {}
      BY <1>1
    <2>2. 1 .. 0 = {}
      OBVIOUS
    <2> QED
      BY <2>1, <2>2 DEF Indexed
  <1> QED
    BY <1>1, <1>2, <1>3, <1>4 DEF WalkInv

(* What the walk finds at a place.                                          *)
LEMMA ImageAt ==
    ASSUME WalkInv
    PROVE  /\ Len(list) \in Nat
           /\ image[StartAt(list, Len(list) + 1)] = ATOM_IIO_NOP
           /\ \A i \in 1 .. Len(list) :
                 /\ image[StartAt(list, i)] = ATOM_IIO_START
                 /\ image[StartAt(list, i) + 1] = list[i].id
                 /\ Len(Body(list, i)) \in Nat
                 /\ image[InsAt(list, i, Len(Body(list, i)) + 1)] = ATOM_IIO_END
                 /\ \A j \in 1 .. Len(Body(list, i)) :
                       /\ Body(list, i)[j] \in Instructions
                       /\ image[InsAt(list, i, j)] = Body(list, i)[j].op
                       /\ \A k \in 1 .. Len(Body(list, i)[j].args) :
                             image[InsAt(list, i, j) + k] = Body(list, i)[j].args[k]
  <1>1. list \in IioList /\ image = Assemble(list)
    BY DEF WalkInv
  <1>2. Len(list) \in Nat /\ image[StartAt(list, Len(list) + 1)] = ATOM_IIO_NOP
    BY <1>1, Shape, AssembleIs
  <1>3. ASSUME NEW i \in 1 .. Len(list)
        PROVE  /\ image[StartAt(list, i)] = ATOM_IIO_START
               /\ image[StartAt(list, i) + 1] = list[i].id
               /\ Len(Body(list, i)) \in Nat
               /\ image[InsAt(list, i, Len(Body(list, i)) + 1)] = ATOM_IIO_END
               /\ \A j \in 1 .. Len(Body(list, i)) :
                     /\ Body(list, i)[j] \in Instructions
                     /\ image[InsAt(list, i, j)] = Body(list, i)[j].op
                     /\ \A k \in 1 .. Len(Body(list, i)[j].args) :
                           image[InsAt(list, i, j) + k] = Body(list, i)[j].args[k]
    <2>1. Holds(image, StartAt(list, i), list[i].id, Body(list, i))
      BY <1>1, AssembleIs
    <2>2. Len(Body(list, i)) \in Nat /\ \A j \in 1 .. Len(Body(list, i)) : Body(list, i)[j] \in Instructions
      BY <1>1, Shape
    <2>3. (Len(Body(list, i)) + 1) - 1 = Len(Body(list, i))
      BY <2>2
    <2> QED
      BY <2>1, <2>2, <2>3 DEF Holds, InsAt
  <1> QED
    BY <1>2, <1>3

LEMMA IndexedKept ==
    ASSUME UNCHANGED <<list, iio>>, NEW n, Indexed(n)
    PROVE  Indexed(n)'
  <1>1. list' = list /\ iio' = iio
    OBVIOUS
  <1>2. DOMAIN iio' = {list'[k].id : k \in 1 .. n}
    BY <1>1 DEF Indexed
  <1>3. \A m \in DOMAIN iio' : \E k \in 1 .. n : LastOf(n, m, k)' /\ iio'[m] = InsAt(list', k, 1)
    BY <1>1 DEF Indexed, LastOf
  <1> QED
    BY <1>2, <1>3 DEF Indexed

LEMMA WalkNext == WalkInv /\ [Index]_iioVars => WalkInv'
  <1> SUFFICES ASSUME WalkInv, [Index]_iioVars PROVE WalkInv'
    OBVIOUS
  <1> USE ImageAt
  <1>1. list \in IioList /\ image = Assemble(list)
    BY DEF WalkInv
  <1>2. CASE UNCHANGED iioVars
    <2>1. /\ UNCHANGED <<list, iio>> /\ list' = list /\ image' = image /\ base' = base
          /\ walk' = walk
      BY <1>2 DEF iioVars
    <2>2. \A n : Indexed(n) => Indexed(n)'
      BY <2>1, IndexedKept
    <2> QED
      BY <2>1, <2>2 DEF WalkInv
  <1>3. CASE IndexProgram
    <2>1. PICK i \in 1 .. Len(list) + 1 : base = StartAt(list, i) /\ Indexed(i - 1)
      BY <1>3 DEF IndexProgram, WalkInv
    <2>2. i \in 1 .. Len(list)
      BY <1>3, <2>1 DEF IndexProgram
    <2>3. image[base + 1] = list[i].id
      BY <2>1, <2>2
    <2>4. base' = InsAt(list, i, 1) /\ base + 2 = InsAt(list, i, 1)
      BY <1>1, <1>3, <2>1, <2>2, PlacesOfProgram DEF IndexProgram
    <2>5. 1 \in 1 .. Len(Body(list, i)) + 1
      BY <2>2
    <2> DEFINE id == list[i].id
    <2>6. iio' = [m \in DOMAIN iio \cup {id} |-> IF m = id THEN InsAt(list, i, 1) ELSE iio[m]]
      BY <1>3, <2>3, <2>4 DEF IndexProgram
    <2>7. DOMAIN iio' = {id} \cup DOMAIN iio /\ iio'[id] = InsAt(list, i, 1)
          /\ \A m \in DOMAIN iio : m # id => iio'[m] = iio[m]
      BY <2>6
    <2>8. UNCHANGED <<list, image>>
      BY <1>3 DEF IndexProgram
    <2>9. Indexed(i)'
      <3>1. DOMAIN iio = {list[k].id : k \in 1 .. i - 1}
        BY <2>1 DEF Indexed
      <3>2. 1 .. i = (1 .. i - 1) \cup {i}
        BY <2>2
      <3>3. DOMAIN iio' = {list[k].id : k \in 1 .. i}
        BY <2>7, <3>1, <3>2
      <3>4. ASSUME NEW m \in DOMAIN iio'
            PROVE  \E k \in 1 .. i : LastOf(i, m, k) /\ iio'[m] = InsAt(list, k, 1)
        <4>1. CASE m = id
          <5>1. i \in 1 .. i /\ \A k \in 1 .. i : k <= i
            BY <2>2
          <5>2. LastOf(i, m, i)
            BY <4>1, <5>1 DEF LastOf
          <5> QED
            BY <2>7, <4>1, <5>1, <5>2
        <4>2. CASE m # id
          <5>1. m \in DOMAIN iio /\ iio'[m] = iio[m]
            BY <2>7, <4>2
          <5>2. PICK k \in 1 .. i - 1 : LastOf(i - 1, m, k) /\ iio[m] = InsAt(list, k, 1)
            BY <2>1, <5>1 DEF Indexed
          <5>3. LastOf(i, m, k)
            BY <3>2, <4>2, <5>2 DEF LastOf
          <5> QED
            BY <3>2, <5>1, <5>2, <5>3
        <4> QED
          BY <4>1, <4>2
      <3> QED
        BY <2>8, <3>3, <3>4 DEF Indexed, LastOf
    <2>10. walk' = "body"
      BY <1>3 DEF IndexProgram
    <2> QED
      BY <1>1, <2>2, <2>4, <2>5, <2>8, <2>9, <2>10 DEF WalkInv
  <1>4. CASE IndexDone
    <2>1. PICK i \in 1 .. Len(list) + 1 : base = StartAt(list, i) /\ Indexed(i - 1)
      BY <1>4 DEF IndexDone, WalkInv
    <2>2. i = Len(list) + 1 /\ i - 1 = Len(list)
      BY <1>4, <2>1 DEF IndexDone
    <2>3. UNCHANGED <<list, image, base, iio>> /\ walk' = "done"
      BY <1>4 DEF IndexDone
    <2>4. Indexed(i - 1)'
      BY <2>1, <2>3, IndexedKept
    <2> QED
      BY <1>1, <2>1, <2>2, <2>3, <2>4 DEF WalkInv
  <1>5. CASE IndexSkip
    <2>1. PICK i \in 1 .. Len(list) :
              (\E j \in 1 .. Len(Body(list, i)) + 1 : base = InsAt(list, i, j)) /\ Indexed(i)
      BY <1>5 DEF IndexSkip, WalkInv
    <2>2. PICK j \in 1 .. Len(Body(list, i)) + 1 : base = InsAt(list, i, j)
      BY <2>1
    <2>3. Len(Body(list, i)) \in Nat
      BY <2>1
    <2>4. j \in 1 .. Len(Body(list, i))
      <3>1. j # Len(Body(list, i)) + 1
        BY <1>5, <2>1, <2>2 DEF IndexSkip
      <3> QED
        BY <2>3, <3>1
    <2>5. base' = base + (1 + Len(Body(list, i)[j].args))
      <3>1. image[base] = Body(list, i)[j].op /\ Body(list, i)[j] \in Instructions
        BY <2>2, <2>4
      <3>2. IioLen[image[base]] = 1 + Len(Body(list, i)[j].args)
        BY <3>1, InstructionLength
      <3> QED
        BY <1>5, <3>2 DEF IndexSkip
    <2>6. base' = InsAt(list, i, j + 1) /\ j + 1 \in 1 .. Len(Body(list, i)) + 1
      <3>1. InsAt(list, i, j + 1) = InsAt(list, i, j) + 1 + Len(Body(list, i)[j].args)
            /\ InsAt(list, i, j) \in Nat
        BY <1>1, <2>4, PlacesOfProgram
      <3>2. Len(Body(list, i)[j].args) \in Nat
        BY <1>1, <2>1, <2>4, ChunkOffsets
      <3>3. \A a, w \in Nat : a + (1 + w) = a + 1 + w
        OBVIOUS
      <3>4. base' = InsAt(list, i, j) + 1 + Len(Body(list, i)[j].args)
        BY <2>2, <2>5, <3>1, <3>2, <3>3
      <3>5. j + 1 \in 1 .. Len(Body(list, i)) + 1
        BY <2>3, <2>4
      <3> QED
        BY <3>1, <3>4, <3>5
    <2>7. UNCHANGED <<list, image, walk, iio>> /\ walk = "body"
      BY <1>5 DEF IndexSkip
    <2>8. Indexed(i)'
      BY <2>1, <2>7, IndexedKept
    <2> QED
      BY <1>1, <2>1, <2>6, <2>7, <2>8 DEF WalkInv
  <1>6. CASE IndexEnd
    <2>1. PICK i \in 1 .. Len(list) :
              (\E j \in 1 .. Len(Body(list, i)) + 1 : base = InsAt(list, i, j)) /\ Indexed(i)
      BY <1>6 DEF IndexEnd, WalkInv
    <2>2. PICK j \in 1 .. Len(Body(list, i)) + 1 : base = InsAt(list, i, j)
      BY <2>1
    <2>3. Len(Body(list, i)) \in Nat
      BY <2>1
    <2>4. j = Len(Body(list, i)) + 1
      <3>1. ASSUME j \in 1 .. Len(Body(list, i)) PROVE FALSE
        <4>1. image[base] = Body(list, i)[j].op /\ Body(list, i)[j] \in Instructions
          BY <2>2, <3>1
        <4>2. image[base] # ATOM_IIO_END
          BY <4>1, InstructionLength
        <4> QED
          BY <1>6, <4>2 DEF IndexEnd
      <3> QED
        BY <2>3, <3>1
    <2>5. base' = StartAt(list, i + 1) /\ i + 1 \in 1 .. Len(list) + 1 /\ (i + 1) - 1 = i
      BY <1>1, <1>6, <2>2, <2>4, PlacesOfProgram DEF IndexEnd, AfterEnd
    <2>6. UNCHANGED <<list, image, iio>> /\ walk' = "program"
      BY <1>6 DEF IndexEnd
    <2>7. Indexed(i)'
      BY <2>1, <2>6, IndexedKept
    <2> QED
      BY <1>1, <2>1, <2>5, <2>6, <2>7 DEF WalkInv
  <1> QED
    BY <1>2, <1>3, <1>4, <1>5, <1>6 DEF Index

(* Only places in the image are walked to and kept.                         *)
LEMMA WalkTypes == WalkInv => IioTypeOK
  <1> SUFFICES ASSUME WalkInv PROVE IioTypeOK
    OBVIOUS
  <1>1. list \in IioList /\ image = Assemble(list) /\ Len(list) \in Nat
        /\ walk \in {"program", "body", "done"}
    BY ImageAt DEF WalkInv
  <1>2. base \in 1 .. Len(image)
    <2>1. CASE walk = "program"
      BY <1>1, <2>1, PlacesInImage DEF WalkInv
    <2>2. CASE walk = "body"
      BY <1>1, <2>2, PlacesInImage DEF WalkInv
    <2>3. CASE walk = "done"
      <3>1. Len(list) + 1 \in 1 .. Len(list) + 1
        BY <1>1
      <3> QED
        BY <1>1, <2>3, <3>1, PlacesInImage DEF WalkInv
    <2> QED
      BY <1>1, <2>1, <2>2, <2>3
  <1>3. PICK n \in 0 .. Len(list) : Indexed(n)
    <2>1. \A i \in 1 .. Len(list) + 1 : i - 1 \in 0 .. Len(list)
      BY <1>1
    <2>2. \A i \in 1 .. Len(list) : i \in 0 .. Len(list)
      BY <1>1
    <2>3. Len(list) \in 0 .. Len(list)
      BY <1>1
    <2> QED
      BY <1>1, <2>1, <2>2, <2>3 DEF WalkInv
  <1>4. \A k \in 1 .. n : k \in 1 .. Len(list)
    BY <1>1
  <1>5. DOMAIN iio \subseteq Method
    BY <1>1, <1>3, <1>4, Shape DEF Indexed, Method
  <1>6. \A m \in DOMAIN iio : iio[m] \in 1 .. Len(image)
    <2> SUFFICES ASSUME NEW m \in DOMAIN iio PROVE iio[m] \in 1 .. Len(image)
      OBVIOUS
    <2>1. PICK k \in 1 .. n : iio[m] = InsAt(list, k, 1)
      BY <1>3 DEF Indexed
    <2>2. k \in 1 .. Len(list) /\ 1 \in 1 .. Len(Body(list, k)) + 1
      BY <1>4, ImageAt
    <2> QED
      BY <1>1, <2>1, <2>2, PlacesInImage
  <1> QED
    BY <1>1, <1>2, <1>5, <1>6 DEF IioTypeOK, Range

-----------------------------------------------------------------------------
(* g is what temp is after each number of instructions of b.               *)
Means(g, b, from) ==
    /\ g[0] = Poison
    /\ \A n \in 1 .. Len(b) : g[n] = IioEffect(b[n].op, b[n].args, g[n - 1], from)

LEMMA FromType ==
    ASSUME NEW index \in Nat, NEW attr \in Nat, NEW data \in Nat
    PROVE  From(index, attr, data) \in [Move -> Nat]
  BY DEF From

LEMMA MeaningIs ==
    ASSUME NEW b \in Seq(Instructions), NEW index \in Nat, NEW attr \in Nat, NEW data \in Nat
    PROVE  \E g \in [0 .. Len(b) -> Dword] :
               Means(g, b, From(index, attr, data)) /\ Meaning(b, index, attr, data) = g[Len(b)]
  <1> DEFINE m == Len(b)
             from == From(index, attr, data)
             h == [n \in 1 .. m |-> [x \in Dword |-> IioEffect(b[n].op, b[n].args, x, from)]]
             after == CHOOSE f : f = [n \in 0 .. m |->
                                        IF n = 0 THEN Poison
                                        ELSE IioEffect(b[n].op, b[n].args, f[n - 1], from)]
  <1>1. m \in Nat /\ from \in [Move -> Nat] /\ \A n \in 1 .. m : b[n] \in Instructions
    BY LenProperties, ElementOfSeq, FromType
  <1>2. h \in [1 .. m -> [Dword -> Dword]]
    <2>1. \A n \in 1 .. m : \A x \in Dword : IioEffect(b[n].op, b[n].args, x, from) \in Dword
      <3> HIDE DEF from, m
      <3> QED
        BY <1>1, EffectType
    <2> HIDE DEF from, m
    <2> QED
      BY <2>1
  <1> HIDE DEF from, m
  <1>3. PICK f \in [0 .. m -> Dword] : Follows(f, Poison, m, h)
    <2> HIDE DEF h
    <2> QED
      BY <1>1, <1>2, PoisonType, Recursion
  <1>4. f[0] = Poison /\ \A n \in 1 .. m : f[n] = IioEffect(b[n].op, b[n].args, f[n - 1], from)
    <2>1. \A n \in 1 .. m : f[n - 1] \in Dword
      BY <1>1
    <2>2. f[0] = Poison /\ \A n \in 1 .. m : f[n] = h[n][f[n - 1]]
      BY <1>3 DEF Follows
    <2> QED
      BY <2>1, <2>2
  <1> HIDE DEF h
  <1>5. f = [n \in 0 .. m |-> IF n = 0 THEN Poison
                              ELSE IioEffect(b[n].op, b[n].args, f[n - 1], from)]
    <2>1. \A n \in 0 .. m : f[n] = IF n = 0 THEN Poison
                                   ELSE IioEffect(b[n].op, b[n].args, f[n - 1], from)
      <3>1. \A n \in 0 .. m : n # 0 => n \in 1 .. m
        BY <1>1
      <3> QED
        BY <1>4, <3>1
    <2>2. f = [n \in 0 .. m |-> f[n]]
      OBVIOUS
    <2> QED
      BY <2>1, <2>2, Zenon
  <1>6. after = [n \in 0 .. m |-> IF n = 0 THEN Poison
                                  ELSE IioEffect(b[n].op, b[n].args, after[n - 1], from)]
    BY <1>5, Zenon
  <1>7. Meaning(b, index, attr, data) = after[m]
    BY DEF Meaning, from, m
  <1> HIDE DEF after
  <1>8. after[0] = Poison
        /\ \A n \in 1 .. m : after[n] = IioEffect(b[n].op, b[n].args, after[n - 1], from)
    <2>1. \A n \in 1 .. m : n # 0 /\ n \in 0 .. m
      BY <1>1
    <2>2. 0 \in 0 .. m
      BY <1>1
    <2> QED
      BY <1>6, <2>1, <2>2
  <1>9. \A n \in 0 .. m : after[n] \in Dword
    <2> DEFINE T == {n \in Nat : n <= m => after[n] \in Dword}
    <2>1. 0 \in T
      BY <1>8, PoisonType
    <2>2. \A n \in T : n + 1 \in T
      <3> SUFFICES ASSUME NEW n \in Nat, n + 1 <= m, after[n] \in Dword PROVE after[n + 1] \in Dword
        BY <1>1
      <3>1. n + 1 \in 1 .. m /\ (n + 1) - 1 = n
        BY <1>1
      <3>2. after[n + 1] = IioEffect(b[n + 1].op, b[n + 1].args, after[n], from)
        BY <1>8, <3>1
      <3>3. b[n + 1] \in Instructions
        BY <1>1, <3>1
      <3> QED
        BY <1>1, <3>2, <3>3, EffectType
    <2>3. T = Nat
      <3> HIDE DEF T
      <3>1. T \in SUBSET Nat
        BY DEF T
      <3> QED
        BY <2>1, <2>2, <3>1, Induction
    <2> QED
      BY <1>1, <2>3
  <1>10. after \in [0 .. m -> Dword]
    <2>1. after = [n \in 0 .. m |-> after[n]]
      BY <1>6
    <2> QED
      BY <1>9, <2>1
  <1> QED
    BY <1>7, <1>8, <1>10 DEF Means, m, from

(* One step of the execution, at an instruction and at the END.            *)
LEMMA ExecutesOne ==
    ASSUME WalkInv, NEW i \in 1 .. Len(list), NEW j \in 1 .. Len(Body(list, i)),
           NEW temp \in Dword, NEW from
    PROVE  IioStep(from)[[at |-> InsAt(list, i, j), temp |-> temp]]
               = [at |-> InsAt(list, i, j + 1),
                  temp |-> IioEffect(Body(list, i)[j].op, Body(list, i)[j].args, temp, from)]
  <1> DEFINE ins == Body(list, i)[j]
             a == InsAt(list, i, j)
             s == [at |-> a, temp |-> temp]
             next == a + IioAdvance(ins.op)
  <1>1. list \in IioList
    BY DEF WalkInv
  <1>2. /\ ins \in Instructions /\ image[a] = ins.op
        /\ \A k \in 1 .. Len(ins.args) : image[a + k] = ins.args[k]
    BY ImageAt
  <1>3. a \in Nat /\ InsAt(list, i, j + 1) = a + 1 + Len(ins.args)
    <2>1. Len(Body(list, i)) \in Nat
      BY ImageAt
    <2>2. j \in 1 .. Len(Body(list, i)) + 1
      BY <2>1
    <2> QED
      BY <1>1, <2>2, PlacesOfProgram
  <1> HIDE DEF ins, a
  <1>4. /\ ins.op \in Byte /\ ins.op \notin {ATOM_IIO_START, ATOM_IIO_END} /\ ins.op <= ATOM_IIO_END
        /\ ins.args \in Seq(Byte) /\ IioAdvance(ins.op) = 1 + Len(ins.args)
    BY <1>2, InstructionLength
  <1>5. Len(ins.args) \in Nat
    BY <1>4, LenProperties
  <1>6. next = InsAt(list, i, j + 1) /\ next - 1 = a + Len(ins.args)
    <2>1. next = a + (1 + Len(ins.args))
      BY <1>4
    <2>2. \A x, w \in Nat : x + (1 + w) = x + 1 + w /\ x + (1 + w) - 1 = x + w
      OBVIOUS
    <2> HIDE DEF next
    <2>3. /\ a + (1 + Len(ins.args)) = a + 1 + Len(ins.args)
          /\ a + (1 + Len(ins.args)) - 1 = a + Len(ins.args)
      BY <1>3, <1>5, <2>2
    <2>4. InsAt(list, i, j + 1) = a + 1 + Len(ins.args)
      BY <1>3
    <2>5. next = InsAt(list, i, j + 1)
      BY <2>1, <2>3, <2>4
    <2>6. next - 1 = a + Len(ins.args)
      BY <1>3, <1>5, <2>1
    <2> QED
      BY <2>5, <2>6
  <1>7. SubSeq(image, a + 1, next - 1) = ins.args
    <2> DEFINE lo == a + 1
               hi == a + Len(ins.args)
               sub == SubSeq(image, lo, hi)
    <2>1. \A k \in lo .. hi : k - a \in 1 .. Len(ins.args) /\ a + (k - a) = k
      BY <1>3, <1>5
    <2>2. \A k \in lo .. hi : image[k] \in Byte
      <3>1. \A k \in 1 .. Len(ins.args) : ins.args[k] \in Byte
        BY <1>4, ElementOfSeq
      <3> QED
        BY <1>2, <2>1, <3>1
    <2>3. lo \in Int /\ hi \in Int
      BY <1>3, <1>5
    <2> HIDE DEF lo, hi
    <2>4. /\ sub \in Seq(Byte) /\ Len(sub) = (IF lo <= hi THEN hi - lo + 1 ELSE 0)
          /\ \A k \in 1 .. hi - lo + 1 : sub[k] = image[lo + k - 1]
      BY <2>2, <2>3, SubSeqProperties
    <2>5. hi - lo + 1 = Len(ins.args) /\ (IF lo <= hi THEN hi - lo + 1 ELSE 0) = Len(ins.args)
      BY <1>3, <1>5 DEF lo, hi
    <2>6. \A k \in 1 .. Len(ins.args) : lo + k - 1 = a + k
      BY <1>3, <1>5 DEF lo
    <2>7. \A k \in 1 .. Len(sub) : sub[k] = ins.args[k]
      BY <1>2, <2>4, <2>5, <2>6
    <2> HIDE DEF sub
    <2>8. sub = ins.args
      BY <1>4, <2>4, <2>5, <2>7, SeqEqual
    <2> QED
      BY <1>6, <2>8 DEF sub, lo, hi
  <1>8. s \in [at : Nat, temp : Dword] /\ s.at = a /\ s.temp = temp
    BY <1>3
  <1> HIDE DEF s, next
  <1>9. IioStep(from)[s] = [at |-> next, temp |-> IioEffect(ins.op, ins.args, temp, from)]
    <2>1. ~ (ins.op > ATOM_IIO_END)
      <3>1. \A x \in Byte : x <= ATOM_IIO_END => ~ (x > ATOM_IIO_END)
        BY DEF Byte
      <3> QED
        BY <1>4, <3>1
    <2> QED
      BY <1>2, <1>4, <1>7, <1>8, <2>1 DEF IioStep, next
  <1> QED
    BY <1>6, <1>9 DEF s, ins, a

LEMMA ExecutesEnd ==
    ASSUME WalkInv, NEW i \in 1 .. Len(list), NEW temp \in Dword, NEW from,
           NEW s, s = [at |-> InsAt(list, i, Len(Body(list, i)) + 1), temp |-> temp]
    PROVE  IioStep(from)[s] = s
  <1>1. list \in IioList /\ Len(Body(list, i)) \in Nat
    BY ImageAt DEF WalkInv
  <1>2. Len(Body(list, i)) + 1 \in 1 .. Len(Body(list, i)) + 1
    BY <1>1
  <1>3. InsAt(list, i, Len(Body(list, i)) + 1) \in Nat
    BY <1>1, <1>2, PlacesOfProgram
  <1>4. s \in [at : Nat, temp : Dword] /\ image[s.at] = ATOM_IIO_END
    BY <1>3, ImageAt
  <1> QED
    BY <1>4 DEF IioStep

(* The image has at least as many bytes as a program has instructions.     *)
LEMMA ShortEnough ==
    ASSUME WalkInv, NEW i \in 1 .. Len(list)
    PROVE  Len(Body(list, i)) <= Len(image)
  <1> DEFINE m == Len(Body(list, i))
             T == {n \in Nat : n <= m => n + 1 <= InsAt(list, i, n + 1)}
  <1>1. list \in IioList /\ image = Assemble(list) /\ m \in Nat
    BY ImageAt DEF WalkInv
  <1>2. \A j \in 1 .. m + 1 : InsAt(list, i, j) \in Nat /\ InsAt(list, i, j) >= 1
    BY <1>1, PlacesOfProgram
  <1>3. \A j \in 1 .. m : /\ InsAt(list, i, j + 1) = InsAt(list, i, j) + 1 + Len(Body(list, i)[j].args)
                          /\ Len(Body(list, i)[j].args) \in Nat
    BY <1>1, PlacesOfProgram, ChunkOffsets
  <1> HIDE DEF m
  <1>4. 0 \in T
    <2>1. 1 \in 1 .. m + 1 /\ 0 + 1 = 1
      BY <1>1
    <2> QED
      BY <1>2, <2>1
  <1>5. \A n \in T : n + 1 \in T
    <2> SUFFICES ASSUME NEW n \in Nat, n + 1 <= m, n + 1 <= InsAt(list, i, n + 1)
                 PROVE  (n + 1) + 1 <= InsAt(list, i, (n + 1) + 1)
      BY <1>1
    <2> DEFINE j == n + 1
    <2>1. j \in 1 .. m /\ j \in 1 .. m + 1
      BY <1>1
    <2>2. InsAt(list, i, j + 1) = InsAt(list, i, j) + 1 + Len(Body(list, i)[j].args)
          /\ Len(Body(list, i)[j].args) \in Nat /\ InsAt(list, i, j) \in Nat
      BY <1>2, <1>3, <2>1
    <2>3. j <= InsAt(list, i, j)
      OBVIOUS
    <2> HIDE DEF j
    <2>4. j + 1 <= InsAt(list, i, j + 1)
      BY <2>1, <2>2, <2>3
    <2> QED
      BY <2>4 DEF j
  <1>6. T = Nat
    <2> HIDE DEF T
    <2>1. T \in SUBSET Nat
      BY DEF T
    <2> QED
      BY <1>4, <1>5, <2>1, Induction
  <1>7. m + 1 <= InsAt(list, i, m + 1)
    <2>1. m \in T
      BY <1>1, <1>6
    <2> QED
      BY <1>1, <2>1
  <1>8. InsAt(list, i, m + 1) \in 1 .. Len(image)
    <2>1. m + 1 \in 1 .. m + 1
      BY <1>1
    <2> QED
      BY <1>1, <2>1, PlacesInImage DEF m
  <1> QED
    BY <1>1, <1>7, <1>8 DEF m

(* The program that is indexed is executed as it is meant.                 *)
LEMMA ExecuteIs ==
    ASSUME WalkInv, NEW i \in 1 .. Len(list),
           NEW index \in Nat, NEW attr \in Nat, NEW data \in Nat
    PROVE  /\ IioExecute(InsAt(list, i, 1), index, attr, data)
                  = Meaning(Body(list, i), index, attr, data)
           /\ IioExecute(InsAt(list, i, 1), index, attr, data) \in Dword
  <1> DEFINE b == Body(list, i)
             m == Len(b)
             z == Len(image)
             from == From(index, attr, data)
             step == IioStep(from)
             first == [at |-> InsAt(list, i, 1), temp |-> Poison]
             run == CHOOSE f : f = [n \in 0 .. z |-> IF n = 0 THEN first ELSE step[f[n - 1]]]
  <1>1. b \in Seq(Instructions) /\ m \in Nat /\ z \in Nat /\ m <= z
    <2>1. list \in IioList /\ image = Assemble(list)
      BY DEF WalkInv
    <2>2. z \in Nat
      BY <2>1, AssembleIs, LenProperties
    <2> QED
      BY <2>1, <2>2, Shape, ShortEnough
  <1>2. PICK g \in [0 .. m -> Dword] : Means(g, b, from) /\ Meaning(b, index, attr, data) = g[m]
    <2> HIDE DEF b
    <2> QED
      BY <1>1, MeaningIs
  <1>3. g[0] = Poison /\ \A n \in 1 .. m : g[n] = IioEffect(b[n].op, b[n].args, g[n - 1], from)
    BY <1>2 DEF Means
  <1> DEFINE f == [n \in 0 .. z |-> IF n <= m THEN [at |-> InsAt(list, i, n + 1), temp |-> g[n]]
                                    ELSE [at |-> InsAt(list, i, m + 1), temp |-> g[m]]]
  <1>4. f[0] = first
    <2>1. 0 \in 0 .. z /\ 0 <= m /\ 0 + 1 = 1
      BY <1>1
    <2> QED
      BY <1>3, <2>1
  <1>5. ASSUME NEW n \in 1 .. z
        PROVE  f[n] = step[f[n - 1]]
    <2>1. n \in 0 .. z /\ n - 1 \in 0 .. z
      BY <1>1
    <2>2. CASE n <= m
      <3>1. n \in 1 .. m /\ n - 1 <= m /\ (n - 1) + 1 = n /\ n - 1 \in 0 .. m
        BY <1>1, <2>1, <2>2
      <3>2. f[n - 1] = [at |-> InsAt(list, i, n), temp |-> g[n - 1]]
        BY <2>1, <3>1
      <3>3. f[n] = [at |-> InsAt(list, i, n + 1), temp |-> g[n]]
        BY <2>1, <2>2
      <3>4. g[n - 1] \in Dword
        BY <3>1
      <3> HIDE DEF f
      <3>5. step[[at |-> InsAt(list, i, n), temp |-> g[n - 1]]]
                = [at |-> InsAt(list, i, n + 1), temp |-> IioEffect(b[n].op, b[n].args, g[n - 1], from)]
        <4> HIDE DEF from
        <4> QED
          BY <3>1, <3>4, ExecutesOne
      <3> HIDE DEF step, b
      <3> QED
        BY <1>3, <3>1, <3>2, <3>3, <3>5
    <2>3. CASE ~ (n <= m)
      <3> DEFINE last == [at |-> InsAt(list, i, m + 1), temp |-> g[m]]
      <3>1. f[n] = last
        BY <2>1, <2>3
      <3>2. f[n - 1] = last
        <4>1. n - 1 <= m => n - 1 = m
          BY <1>1, <2>3
        <4> QED
          BY <2>1, <4>1
      <3>3. g[m] \in Dword
        BY <1>1
      <3> HIDE DEF f
      <3>4. step[last] = last
        <4> HIDE DEF from
        <4> QED
          BY <3>3, ExecutesEnd
      <3> QED
        BY <3>1, <3>2, <3>4
    <2> QED
      BY <2>2, <2>3
  <1>6. f = [n \in 0 .. z |-> IF n = 0 THEN first ELSE step[f[n - 1]]]
    <2>1. f = [n \in 0 .. z |-> f[n]]
      OBVIOUS
    <2>2. \A n \in 0 .. z : n # 0 => n \in 1 .. z
      BY <1>1
    <2> HIDE DEF f, first, step, z
    <2>3. \A n \in 0 .. z : f[n] = IF n = 0 THEN first ELSE step[f[n - 1]]
      BY <1>4, <1>5, <2>2
    <2> QED
      BY <2>1, <2>3, Zenon
  <1> HIDE DEF step, first, m, b
  <1>7. run = [n \in 0 .. z |-> IF n = 0 THEN first ELSE step[run[n - 1]]]
    <2> HIDE DEF f, z
    <2> QED
      BY <1>6, Zenon
  <1>8. IioExecute(InsAt(list, i, 1), index, attr, data) = run[z].temp
    BY DEF IioExecute, step, first
  <1> HIDE DEF run, z
  <1>9. run[0] = first /\ \A n \in 1 .. z : run[n] = step[run[n - 1]]
    <2>1. \A n \in 1 .. z : n # 0 /\ n \in 0 .. z
      BY <1>1
    <2>2. 0 \in 0 .. z
      BY <1>1
    <2> QED
      BY <1>7, <2>1, <2>2
  <1>10. run[z] = f[z]
    <2> HIDE DEF f
    <2> DEFINE T == {n \in Nat : n <= z => run[n] = f[n]}
    <2>1. 0 \in T
      BY <1>4, <1>9
    <2>2. \A n \in T : n + 1 \in T
      <3> SUFFICES ASSUME NEW n \in Nat, n + 1 <= z, run[n] = f[n] PROVE run[n + 1] = f[n + 1]
        <4>1. \A n \in Nat : n + 1 \in Nat /\ (n + 1 <= z => n <= z)
          BY <1>1
        <4> QED
          BY <4>1
      <3>1. n + 1 \in 1 .. z /\ (n + 1) - 1 = n
        BY <1>1
      <3> QED
        BY <1>5, <1>9, <3>1
    <2>3. T = Nat
      <3> HIDE DEF T
      <3>1. T \in SUBSET Nat
        BY DEF T
      <3> QED
        BY <2>1, <2>2, <3>1, Induction
    <2> QED
      BY <1>1, <2>3
  <1>11. f[z].temp = g[m]
    <2>1. z \in 0 .. z /\ (z <= m => z = m)
      BY <1>1
    <2> QED
      BY <2>1
  <1>12. g[m] \in Dword
    BY <1>1
  <1> HIDE DEF f
  <1> QED
    BY <1>2, <1>8, <1>10, <1>11, <1>12 DEF b

(* When the walk is over every method runs as its last program means, with *)
(* whatever register number and values it is called.                       *)
LEMMA MethodIs ==
    ASSUME WalkInv, walk = "done", NEW m \in DOMAIN iio
    PROVE  \E i \in 1 .. Len(list) :
               /\ LastOf(Len(list), m, i)
               /\ \A index, attr, data \in Nat :
                     /\ IioExecute(iio[m], index, attr, data) \in Dword
                     /\ IioExecute(iio[m], index, attr, data)
                            = Meaning(Body(list, i), index, attr, data)
  <1>1. Indexed(Len(list))
    BY DEF WalkInv
  <1>2. PICK i \in 1 .. Len(list) : LastOf(Len(list), m, i) /\ iio[m] = InsAt(list, i, 1)
    BY <1>1 DEF Indexed
  <1>3. \A index, attr, data \in Nat :
            /\ IioExecute(InsAt(list, i, 1), index, attr, data) \in Dword
            /\ IioExecute(InsAt(list, i, 1), index, attr, data)
                   = Meaning(Body(list, i), index, attr, data)
    BY ExecuteIs
  <1> QED
    BY <1>2, <1>3

LEMMA DoneRuns == WalkInv /\ walk = "done" => AllRun
  <1> SUFFICES ASSUME WalkInv, walk = "done" PROVE AllRun
    OBVIOUS
  <1>1. /\ DOMAIN list = 1 .. Len(list) /\ Len(list) \in Nat
        /\ DOMAIN iio = {list[k].id : k \in 1 .. Len(list)}
    BY Shape DEF WalkInv, Indexed
  <1>2. DOMAIN iio = {list[i].id : i \in DOMAIN list}
    BY <1>1
  <1>3. ASSUME NEW m \in DOMAIN iio, NEW index \in Sample, NEW attr \in Sample, NEW data \in Sample
        PROVE  IioExecute(iio[m], index, attr, data)
                   = Meaning(Body(list, Max({k \in DOMAIN list : list[k].id = m})), index, attr, data)
    <2>1. PICK i \in 1 .. Len(list) :
              /\ LastOf(Len(list), m, i)
              /\ \A x, y, z \in Nat : IioExecute(iio[m], x, y, z) = Meaning(Body(list, i), x, y, z)
      BY MethodIs
    <2> DEFINE S == {k \in DOMAIN list : list[k].id = m}
    <2>2. i \in S /\ \A k \in S : k <= i
      BY <1>1, <2>1 DEF LastOf
    <2>3. \A k \in S : k \in Nat
      BY <1>1
    <2> HIDE DEF S
    <2>4. Max(S) = i
      <3>1. \E x \in S : \A y \in S : x >= y
        BY <2>2, <2>3
      <3>2. Max(S) \in S /\ \A y \in S : Max(S) >= y
        BY <3>1 DEF Max
      <3>3. i \in Nat /\ Max(S) \in Nat
        BY <2>2, <2>3, <3>2
      <3>4. Max(S) >= i /\ Max(S) <= i
        BY <2>2, <3>2
      <3> DEFINE x == Max(S)
      <3> HIDE DEF x
      <3>5. x \in Nat /\ x >= i /\ x <= i
        BY <3>3, <3>4 DEF x
      <3>6. x = i
        BY <3>3, <3>5
      <3> QED
        BY <3>6 DEF x
    <2>5. index \in Nat /\ attr \in Nat /\ data \in Nat
      BY IioAssumption, WordType DEF Dword
    <2> QED
      BY <2>1, <2>4, <2>5 DEF S
  <1> QED
    BY <1>2, <1>3 DEF AllRun
=============================================================================
