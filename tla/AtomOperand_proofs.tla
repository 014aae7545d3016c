-------------------------- MODULE AtomOperand_proofs --------------------------
(***************************************************************************)
(* Proofs about AtomOperand for every table and every size of a byte.  The *)
(* invariant says of the walk over the index-IO programs what AtomIio's    *)
(* says, that a table is executed only when it is over, and that every     *)
(* place of the table, the context and the card holds what it has room     *)
(* for.                                                                    *)
(***************************************************************************)
EXTENDS AtomOperand, AtomIio_proofs

(* Where the execution is: in a table, once the image has been walked.     *)
TableInv ==
    /\ pc \in {"idle", "dst", "src", "put", "end"}
    /\ pc # "idle" => walk = "done" /\ table \in Tables /\ at \in 1 .. Len(table) + 1
    /\ pc = "idle" => table = <<>> /\ at = 1
    /\ pc \in {"dst", "src", "put"} => at \in 1 .. Len(table)

(* What a member of the context has room for.                              *)
Room(m) ==
    IF m \in Wide THEN Dword
    ELSE IF m \in Narrow THEN 0 .. Half - 1 ELSE 0 .. Shifts - 1

ContextInv ==
    /\ DOMAIN ctx = Member
    /\ \A m \in Member : ctx[m] \in Room(m)
    /\ io_mode \in Nat
    /\ flags \in [equal : BOOLEAN, above : BOOLEAN]

MemoryInv ==
    /\ dst \in Dword /\ saved \in Dword /\ src \in Dword
    /\ ps \in [DOMAIN ParamSpace -> Dword]
    /\ ws \in [DOMAIN WorkSpace -> Dword]
    /\ scratch \in [Slot -> Dword]

(* MM_INDEX holds the address of the register that was named, until it is  *)
(* moved.                                                                  *)
CardInv ==
    /\ reg \in [DOMAIN Registers -> Dword]
    /\ mmIndex \in Dword /\ named \in Dword /\ moved \in BOOLEAN
    /\ ~ moved => mmIndex = (4 * named) % Word

(* The last access of the scratch area was of word idx of the window at w. *)
WindowAt(w, idx) ==
    [addr |-> w + 4 * idx, slot |-> w \div 4 + idx,
     done |-> ~ ((w + 4 * idx) % Word > ScratchSize)]

FbInv ==
    fb = NoAccess \/ \E w \in Dword, idx \in Nat : 4 * idx < Word /\ fb = WindowAt(w, idx)

OperandInv == WalkInv /\ TableInv /\ ContextInv /\ MemoryInv /\ CardInv /\ FbInv

-----------------------------------------------------------------------------
(* How large the numbers of the module are.                                *)
LEMMA Sizes ==
    /\ Half \in Nat \ {0} /\ Half <= Word
    /\ \E k \in Nat \ {0} : Word = 4 * k
  <1>1. ByteBits \in Nat /\ ByteBits >= 1 /\ WordBits = 4 * ByteBits
    BY ByteAssumption DEF WordBits
  <1>2. 2 * ByteBits \in Nat /\ WordBits \in Nat /\ 2 * ByteBits <= WordBits
    BY <1>1
  <1>3. WordBits - 2 \in Nat /\ WordBits = 2 + (WordBits - 2)
    BY <1>1
  <1>4. 2 ^ 2 = 4
    <2>1. 2 ^ 1 = 2 /\ 1 + 1 = 2
      OBVIOUS
    <2>2. 2 ^ (1 + 1) = 2 ^ 1 + 2 ^ 1
      BY TwoExp
    <2> QED
      BY <2>1, <2>2
  <1>5. 2 ^ WordBits = 2 ^ 2 * 2 ^ (WordBits - 2)
    BY <1>3, PowerSum
  <1>6. 2 ^ (WordBits - 2) \in Nat \ {0}
    BY <1>3, Powers
  <1>7. Half \in Nat \ {0} /\ Half <= Word
    BY <1>2, Powers, PowerOrder DEF Half, Word
  <1> QED
    BY <1>4, <1>5, <1>6, <1>7 DEF Word

(* The worth of bit k of a set of bits, and what all the bits below n are   *)
(* worth, which is less than that of bit n.                                *)
Worth(ones, k) == IF k \in ones THEN 2 ^ k ELSE 0

Sums(f, ones) ==
    /\ f[0] = 0
    /\ \A n \in 1 .. WordBits : f[n] = f[n - 1] + Worth(ones, n - 1)
    /\ \A n \in 0 .. WordBits : f[n] \in Nat /\ f[n] < 2 ^ n

LEMMA WorthType ==
    ASSUME NEW ones
    PROVE  \A k \in Nat : Worth(ones, k) \in Nat /\ Worth(ones, k) <= 2 ^ k
  BY Powers DEF Worth

LEMMA NumberSums ==
    ASSUME NEW ones
    PROVE  \E f : Sums(f, ones) /\ Number(ones) = f[WordBits]
  <1> DEFINE N == WordBits
             g == [n \in 1 .. N |-> [x \in Nat |-> x + Worth(ones, n - 1)]]
             below == CHOOSE f : f = [n \in 0 .. N |->
                          IF n = 0 THEN 0
                          ELSE f[n - 1] + (IF n - 1 \in ones THEN 2 ^ (n - 1) ELSE 0)]
  <1>1. N \in Nat
    BY WordType
  <1>2. \A n \in 1 .. N : n - 1 \in Nat /\ Worth(ones, n - 1) \in Nat
    <2>1. \A n \in 1 .. N : n - 1 \in Nat
      BY <1>1
    <2> QED
      BY <2>1, WorthType
  <1> HIDE DEF N
  <1>4. g \in [1 .. N -> [Nat -> Nat]]
    BY <1>2
  <1>5. PICK f \in [0 .. N -> Nat] : f[0] = 0 /\ \A n \in 1 .. N : f[n] = g[n][f[n - 1]]
    <2> HIDE DEF g
    <2>1. 0 \in Nat
      OBVIOUS
    <2>2. \E f \in [0 .. N -> Nat] : Follows(f, 0, N, g)
      BY <1>1, <1>4, <2>1, Recursion
    <2> QED
      BY <2>2 DEF Follows
  <1>6. f = [n \in 0 .. N |->
                IF n = 0 THEN 0
                ELSE f[n - 1] + (IF n - 1 \in ones THEN 2 ^ (n - 1) ELSE 0)]
    <2>1. \A n \in 0 .. N : n # 0 => f[n - 1] \in Nat /\ n \in 1 .. N
      BY <1>1
    <2>2. \A n \in 0 .. N : n # 0 => g[n][f[n - 1]] = f[n - 1] + Worth(ones, n - 1)
      BY <2>1
    <2>3. \A n \in 0 .. N : f[n] = IF n = 0 THEN 0 ELSE f[n - 1] + Worth(ones, n - 1)
      BY <1>5, <2>1, <2>2
    <2>4. \A n \in 0 .. N : f[n] = IF n = 0 THEN 0
              ELSE f[n - 1] + (IF n - 1 \in ones THEN 2 ^ (n - 1) ELSE 0)
      BY <2>3 DEF Worth
    <2>5. f = [n \in 0 .. N |-> f[n]]
      OBVIOUS
    <2> HIDE DEF g
    <2> QED
      BY <2>4, <2>5, Zenon
  <1>7. below = [n \in 0 .. N |->
                    IF n = 0 THEN 0
                    ELSE below[n - 1] + (IF n - 1 \in ones THEN 2 ^ (n - 1) ELSE 0)]
    BY <1>6, Zenon
  <1>8. Number(ones) = below[N]
    BY DEF Number, N
  <1> HIDE DEF below, g
  <1>9. below[0] = 0 /\ \A n \in 1 .. N : below[n] = below[n - 1] + Worth(ones, n - 1)
    <2>1. \A n \in 1 .. N : n \in 0 .. N /\ n # 0
      BY <1>1
    <2>2. 0 \in 0 .. N
      BY <1>1
    <2> QED
      BY <1>7, <2>1, <2>2 DEF Worth
  <1>10. \A n \in 0 .. N : below[n] \in Nat /\ below[n] < 2 ^ n
    <2> DEFINE T == {n \in Nat : n <= N => below[n] \in Nat /\ below[n] < 2 ^ n}
    <2>1. 0 \in T
      <3>1. 2 ^ 0 = 1
        OBVIOUS
      <3> QED
        BY <1>9, <3>1
    <2>2. \A n \in T : n + 1 \in T
      <3> SUFFICES ASSUME NEW n \in Nat, n + 1 <= N, below[n] \in Nat, below[n] < 2 ^ n
                   PROVE  below[n + 1] \in Nat /\ below[n + 1] < 2 ^ (n + 1)
        BY <1>1
      <3>1. n + 1 \in 1 .. N /\ (n + 1) - 1 = n
        BY <1>1
      <3>2. below[n + 1] = below[n] + Worth(ones, n)
        BY <1>9, <3>1
      <3>3. Worth(ones, n) \in Nat /\ Worth(ones, n) <= 2 ^ n
        BY WorthType
      <3>4. 2 ^ (n + 1) = 2 ^ n + 2 ^ n /\ 2 ^ n \in Nat
        BY TwoExp, Powers
      <3> QED
        BY <3>2, <3>3, <3>4
    <2>3. T = Nat
      <3> HIDE DEF T
      <3>1. T \in SUBSET Nat
        BY DEF T
      <3> QED
        BY <2>1, <2>2, <3>1, Induction
    <2> QED
      BY <1>1, <2>3
  <1>11. Sums(below, ones)
    BY <1>9, <1>10 DEF Sums, N
  <1> QED
    BY <1>8, <1>11 DEF N

(* Whatever bits a word is made of, it is a word.                          *)
LEMMA NumberType ==
    ASSUME NEW ones
    PROVE  Number(ones) \in Dword
  <1>1. PICK f : Sums(f, ones) /\ Number(ones) = f[WordBits]
    BY NumberSums
  <1>2. WordBits \in 0 .. WordBits /\ 2 ^ WordBits \in Nat
    BY WordType, Powers
  <1>3. f[WordBits] \in Nat /\ f[WordBits] < 2 ^ WordBits
    BY <1>1, <1>2 DEF Sums
  <1> QED
    BY <1>1, <1>2, <1>3 DEF Dword, Word

LEMMA BitwiseType ==
    ASSUME NEW v, NEW w
    PROVE  And(v, w) \in Dword /\ Or(v, w) \in Dword
  BY NumberType DEF And, Or

(* A quotient and a remainder of a word are words.                         *)
LEMMA QuotientType ==
    ASSUME NEW v \in Dword, NEW b \in Nat \ {0}
    PROVE  /\ v \div b \in Nat /\ v \div b <= v /\ v \div b \in Dword
           /\ v % b \in Nat /\ v % b <= v /\ v % b \in Dword
  <1>1. v \in Nat /\ v < Word /\ Word \in Nat
    BY WordType DEF Dword
  <1> DEFINE q == v \div b
             r == v % b
  <1>2. q \in Nat /\ r \in 0 .. b - 1 /\ v = b * q + r
    BY <1>1, DivMod
  <1> HIDE DEF q, r
  <1>3. r \in Nat
    BY <1>2
  <1>4. \A x \in Nat : x <= b * x /\ b * x \in Nat
    OBVIOUS
  <1>5. q <= b * q /\ b * q \in Nat
    BY <1>2, <1>4
  <1>6. q <= v /\ r <= v
    BY <1>1, <1>2, <1>3, <1>5
  <1> QED
    BY <1>1, <1>2, <1>3, <1>6 DEF q, r, Dword

(* A number modulo the numbers of a word is a word.                        *)
LEMMA ModuloType == \A n \in Nat : n % Word \in Dword
  <1>1. Word \in Nat \ {0}
    BY WordType
  <1>2. \A n \in Nat : n % Word \in 0 .. Word - 1
    BY <1>1, DivMod
  <1> QED
    BY <1>2 DEF Dword

LEMMA LaneType ==
    ASSUME NEW v, NEW a \in Align
    PROVE  Lane(v, a) \in Dword
  <1>1. ShiftOf[a] \in Nat
    <2>1. ByteBits \in Nat
      BY ByteAssumption
    <2>2. a \in {0, 1, 2, 3, 4, 5, 6, 7}
      BY DEF Align, Words, Bytes, DWORD
    <2>3. <<0, 0, 1, 2, 0, 1, 2, 3>>[a + 1] \in Nat
      BY <2>2
    <2>4. \A x \in Nat : ByteBits * x \in Nat
      BY <2>1
    <2> QED
      BY <2>3, <2>4 DEF ShiftOf
  <1>2. 2 ^ ShiftOf[a] \in Nat \ {0}
    BY <1>1, Powers
  <1>3. And(v, Mask[a]) \in Dword
    BY BitwiseType
  <1> QED
    BY <1>2, <1>3, QuotientType DEF Lane

LEMMA MergeType ==
    ASSUME NEW v, NEW old, NEW a
    PROVE  Merge(v, old, a) \in Dword
  BY BitwiseType DEF Merge

LEMMA LeftType ==
    ASSUME NEW v \in Dword, NEW s \in Nat
    PROVE  Left(v, s) \subseteq Dword
  <1>1. v \in Nat /\ WordBits \in Nat \ {0} /\ 0 \in Dword
    BY WordType DEF Dword
  <1>2. s % WordBits \in Nat
    BY <1>1, DivMod
  <1>3. 2 ^ s \in Nat /\ 2 ^ (s % WordBits) \in Nat
    BY <1>2, Powers
  <1>4. v * 2 ^ s \in Nat /\ v * 2 ^ (s % WordBits) \in Nat
    BY <1>1, <1>3
  <1>5. (v * 2 ^ s) % Word \in Dword /\ (v * 2 ^ (s % WordBits)) % Word \in Dword
    BY <1>4, ModuloType
  <1> QED
    BY <1>1, <1>5 DEF Left

(* The remainder of a dividend of two words by a word, and its quotient    *)
(* where the divisor is not 0, fill two words at most.                     *)
LEMMA HighType ==
    ASSUME NEW h \in Dword, NEW l \in Dword, NEW b \in Nat \ {0}
    PROVE  /\ (Word * h + l) \div b \in Nat
           /\ ((Word * h + l) \div b) % Word \in Dword
           /\ ((Word * h + l) \div b) \div Word \in Dword
  <1> DEFINE n == Word * h + l
             q == n \div b
             r == n % b
             p == q \div Word
             s == q % Word
  <1>1. Word \in Nat \ {0} /\ h \in Nat /\ l \in Nat /\ l < Word /\ h < Word
    BY WordType DEF Dword
  <1>2. Word * h \in Nat /\ n \in Nat
    BY <1>1
  <1>3. n < Word * Word
    <2>1. \A x, y \in Nat : x < y => Word * x + Word <= Word * y
                                     /\ Word * x \in Nat /\ Word * y \in Nat
      BY <1>1
    <2>2. Word * h + Word <= Word * Word /\ Word * Word \in Nat
      BY <1>1, <2>1
    <2> QED
      BY <1>1, <1>2, <2>2
  <1> HIDE DEF n
  <1>4. q \in Nat /\ r \in Nat /\ n = b * q + r
    BY <1>2, DivMod
  <1> HIDE DEF q, r
  <1>5. q <= n
    <2>1. \A x \in Nat : x <= b * x /\ b * x \in Nat
      OBVIOUS
    <2>2. q <= b * q /\ b * q \in Nat
      BY <1>4, <2>1
    <2> QED
      BY <1>4, <2>2
  <1>6. p \in Nat /\ s \in 0 .. Word - 1 /\ q = Word * p + s
    BY <1>1, <1>4, DivMod
  <1> HIDE DEF p, s
  <1>7. p < Word
    <2> SUFFICES ASSUME Word <= p PROVE FALSE
      BY <1>1, <1>6
    <2>1. \A x, y \in Nat : x <= y => Word * x <= Word * y /\ Word * x \in Nat /\ Word * y \in Nat
      BY <1>1
    <2>2. Word * Word <= Word * p /\ Word * p \in Nat /\ Word * Word \in Nat
      BY <1>1, <1>6, <2>1
    <2> QED
      BY <1>1, <1>2, <1>3, <1>4, <1>5, <1>6, <2>2
  <1>8. p \in Dword /\ s \in Dword
    BY <1>1, <1>6, <1>7 DEF Dword
  <1> QED
    BY <1>4, <1>8 DEF p, s, q, n

-----------------------------------------------------------------------------
(* What is in the context.                                                 *)
LEMMA Members ==
    ASSUME ContextInv
    PROVE  /\ ctx[ATOM_WS_QUOTIENT] \in Dword /\ ctx[ATOM_WS_REMAINDER] \in Dword
           /\ ctx[ATOM_WS_FB_WINDOW] \in Dword
           /\ ctx[ATOM_WS_SHIFT] \in Nat /\ ctx[ATOM_WS_REGPTR] \in Nat
           /\ ctx[ATOM_WS_ATTRIBUTES] \in Nat
           /\ \A m \in Member : ctx[m] \in Dword
  <1> USE DEF ATOM_WS_QUOTIENT, ATOM_WS_REMAINDER, ATOM_WS_DATAPTR, ATOM_WS_SHIFT,
              ATOM_WS_FB_WINDOW, ATOM_WS_ATTRIBUTES, ATOM_WS_REGPTR, Wide, Narrow, Member
  <1>1. \A m \in Member : ctx[m] \in Room(m)
    BY DEF ContextInv
  <1>2. Room(64) = Dword /\ Room(65) = Dword /\ Room(70) = Dword
    BY DEF Room
  <1>3. /\ Room(66) = 0 .. Half - 1 /\ Room(71) = 0 .. Half - 1 /\ Room(72) = 0 .. Half - 1
        /\ Room(67) = 0 .. Shifts - 1
    BY DEF Room
  <1>4. 0 .. Half - 1 \subseteq Dword /\ 0 .. Half - 1 \subseteq Nat
    BY Sizes, WordType DEF Dword
  <1>5. 0 .. Shifts - 1 \subseteq Dword /\ 0 .. Shifts - 1 \subseteq Nat
    BY TableAssumption, WordType DEF Dword
  <1>6. 64 \in Member /\ 65 \in Member /\ 66 \in Member /\ 67 \in Member /\ 70 \in Member
        /\ 71 \in Member /\ 72 \in Member
    OBVIOUS
  <1>7. ASSUME NEW m \in Member PROVE ctx[m] \in Dword
    <2>1. m = 64 \/ m = 65 \/ m = 66 \/ m = 67 \/ m = 70 \/ m = 71 \/ m = 72
      OBVIOUS
    <2>2. Room(m) \in {Dword, 0 .. Half - 1, 0 .. Shifts - 1}
      BY <1>2, <1>3, <2>1
    <2>3. Room(m) \subseteq Dword
      BY <1>4, <1>5, <2>2
    <2> QED
      BY <1>1, <2>3
  <1>8. ctx[64] \in Dword /\ ctx[65] \in Dword /\ ctx[70] \in Dword
    BY <1>6, <1>7
  <1>9. ctx[67] \in Nat /\ ctx[71] \in Nat /\ ctx[72] \in Nat
    <2>1. ctx[67] \in Room(67) /\ ctx[71] \in Room(71) /\ ctx[72] \in Room(72)
      <3> HIDE DEF Wide, Narrow, Member
      <3> QED
        BY <1>1, <1>6
    <2> QED
      BY <1>3, <1>4, <1>5, <2>1
  <1> QED
    BY <1>7, <1>8, <1>9

(* While a table runs its instruction is one of the commands.              *)
LEMMA AtCommand ==
    ASSUME TableInv, pc \in {"dst", "src", "put"}
    PROVE  /\ Instruction \in Commands
           /\ walk = "done" /\ table \in Tables /\ Len(table) \in Nat
           /\ at \in Nat /\ at + 1 \in 1 .. Len(table) + 1
           /\ at # Len(table) => at + 1 \in 1 .. Len(table)
  <1>1. walk = "done" /\ table \in Tables /\ at \in 1 .. Len(table)
    BY DEF TableInv
  <1>2. table \in Seq(Commands)
    BY <1>1, TableAssumption
  <1>3. Len(table) \in Nat
    BY <1>2, LenProperties
  <1>4. table[at] \in Commands
    BY <1>1, <1>2, ElementOfSeq
  <1> QED
    BY <1>1, <1>3, <1>4 DEF Instruction

LEMMA CommandType ==
    ASSUME NEW i \in Commands
    PROVE  /\ i.op \in Stores \cup Results \cup Settings \cup {"setfbbase"}
           /\ i.arg \in DstArgs /\ i.idx \in Nat /\ i.sel \in 0 .. 3
           /\ i.src \in SrcArgs /\ i.sidx \in Nat /\ i.align \in Align /\ i.num \in Nat
           /\ IsOperand(i.arg, i.idx) /\ IsOperand(i.src, i.sidx)
           /\ i.op \in Shift => i.num < Shifts
           /\ i.op = "setregblock" => i.num < Half
           /\ i.op = "setdatablock" => DataBlock(i.num) \in 0 .. Half - 1
  BY DEF Commands

LEMMA DstAlignType ==
    ASSUME NEW i \in Commands
    PROVE  DstAlign(i) \in Align
  <1>1. i.align \in Align /\ i.sel \in 0 .. 3
    BY CommandType
  <1>2. \A a \in Align : DefDst[a] \in 0 .. 3
    <2>1. ASSUME NEW a \in Align PROVE DefDst[a] \in 0 .. 3
      <3>1. a \in {0, 1, 2, 3, 4, 5, 6, 7}
        BY DEF Align, Words, Bytes, DWORD
      <3>2. <<0, 0, 1, 2, 0, 1, 2, 3>>[a + 1] \in 0 .. 3
        BY <3>1
      <3> QED
        BY <3>2 DEF DefDst
    <2> QED
      BY <2>1
  <1>3. \A a \in Align : \A s \in 0 .. 3 : DstToSrc[a][s] \in Align
    <2>1. ASSUME NEW a \in Align, NEW s \in 0 .. 3 PROVE DstToSrc[a][s] \in Align
      <3>1. /\ s \in {0, 1, 2, 3}
            /\ a = 0 \/ a \in 1 .. 3 \/ a \in 4 .. 7
        BY DEF Align, Words, Bytes, DWORD
      <3>2. <<1, 2, 3, 0>>[s + 1] \in Align
        BY <3>1 DEF Align, Words, Bytes, DWORD
      <3>3. s + 4 \in Align /\ 0 \in Align
        BY <3>1 DEF Align, Words, Bytes, DWORD
      <3>4. DstToSrc[a][s] = CASE a = DWORD -> DWORD
                               [] a \in Words -> <<1, 2, 3, 0>>[s + 1]
                               [] a \in Bytes -> s + 4
        BY DEF DstToSrc
      <3> QED
        BY <3>1, <3>2, <3>3, <3>4 DEF Words, Bytes, DWORD
    <2> QED
      BY <2>1
  <1> QED
    BY <1>1, <1>2, <1>3 DEF DstAlign

(* Every word that an operand may be read as is a word.                    *)
LEMMA FetchedType ==
    ASSUME WalkInv, walk = "done", ContextInv, MemoryInv, CardInv,
           NEW arg \in SrcArgs, NEW idx \in Nat, IsOperand(arg, idx),
           ~ Unreachable(arg, ReadMethod)
    PROVE  Fetched(arg, idx) \subseteq Dword
  <1>1. 0 \in Dword /\ Word \in Nat \ {0}
    BY WordType DEF Dword
  <1>2. Foreign \subseteq Dword /\ Image \in [DOMAIN Image -> Dword]
        /\ DOMAIN WorkSpace \subseteq 0 .. 63
    BY TableAssumption DEF ATOM_WS_QUOTIENT
  <1>3. CASE arg = "PS"
    <2>1. Fetched(arg, idx) = {ps[idx]}
      BY <1>3 DEF Fetched
    <2>2. idx \in DOMAIN ParamSpace /\ ps \in [DOMAIN ParamSpace -> Dword]
      BY <1>3 DEF IsOperand, MemoryInv
    <2> QED
      BY <2>1, <2>2
  <1>4. CASE arg = "WS"
    <2>1. idx \in DOMAIN WorkSpace \cup Member \cup Masks
      BY <1>4 DEF IsOperand
    <2>2. Fetched(arg, idx) = CASE idx = ATOM_WS_OR_MASK -> OrMasks
                                [] idx = ATOM_WS_AND_MASK -> {Word - 1 - w : w \in OrMasks}
                                [] idx \in Member -> {ctx[idx]}
                                [] idx \in DOMAIN ws -> {ws[idx]}
      BY <1>4 DEF Fetched
    <2>3. OrMasks \subseteq Dword
      <3>1. 1 \in Dword
        BY WordType DEF Dword
      <3> QED
        BY <3>1, Members, LeftType DEF OrMasks
    <2>4. \A w \in Dword : Word - 1 - w \in Dword
      BY <1>1 DEF Dword
    <2>5. {Word - 1 - w : w \in OrMasks} \subseteq Dword
      BY <2>3, <2>4
    <2>6. ws \in [DOMAIN WorkSpace -> Dword]
      BY DEF MemoryInv
    <2> USE DEF ATOM_WS_QUOTIENT, ATOM_WS_REMAINDER, ATOM_WS_DATAPTR, ATOM_WS_SHIFT,
                ATOM_WS_OR_MASK, ATOM_WS_AND_MASK, ATOM_WS_FB_WINDOW, ATOM_WS_ATTRIBUTES,
                ATOM_WS_REGPTR, Wide, Narrow, Member, Masks
    <2>7. CASE idx = ATOM_WS_OR_MASK
      <3>1. Fetched(arg, idx) = OrMasks
        BY <1>2, <2>2, <2>6, <2>7
      <3> QED
        BY <2>3, <3>1
    <2>8. CASE idx = ATOM_WS_AND_MASK
      <3>1. Fetched(arg, idx) = {Word - 1 - w : w \in OrMasks}
        BY <1>2, <2>2, <2>6, <2>8
      <3> QED
        BY <2>5, <3>1
    <2>9. CASE idx \in Member
      <3>1. Fetched(arg, idx) = {ctx[idx]}
        BY <1>2, <2>2, <2>6, <2>9
      <3>2. ctx[idx] \in Dword
        BY <2>9, Members
      <3> QED
        BY <3>1, <3>2
    <2>10. CASE idx \in DOMAIN WorkSpace
      <3>1. Fetched(arg, idx) = {ws[idx]}
        BY <1>2, <2>2, <2>6, <2>10
      <3> QED
        BY <2>6, <2>10, <3>1
    <2> QED
      BY <2>1, <2>7, <2>8, <2>9, <2>10
  <1>5. CASE arg = "ID"
    <2>1. Fetched(arg, idx)
              = IF InImage(idx) THEN {Image[idx + ctx[ATOM_WS_DATAPTR]]} ELSE Foreign
      BY <1>5 DEF Fetched
    <2> QED
      BY <1>2, <2>1 DEF InImage
  <1>6. CASE arg = "FB"
    <2>1. Fetched(arg, idx) = IF FbBeyond(idx) THEN {0}
                              ELSE IF FbSlot(idx) \in Slot THEN {scratch[FbSlot(idx)]}
                              ELSE Foreign
      BY <1>6 DEF Fetched
    <2>2. scratch \in [Slot -> Dword]
      BY DEF MemoryInv
    <2>3. FbSlot(idx) \in Slot => scratch[FbSlot(idx)] \in Dword
      BY <2>2
    <2> QED
      BY <1>1, <1>2, <2>1, <2>3
  <1>7. CASE arg = "IMM"
    <2>1. Fetched(arg, idx) = {idx}
      BY <1>7 DEF Fetched
    <2>2. idx < Word
      BY <1>7 DEF IsOperand
    <2> QED
      BY <1>1, <2>1, <2>2 DEF Dword
  <1>8. CASE arg \in {"PLL", "MC"}
    <2>1. Fetched(arg, idx) = {0}
      BY <1>8 DEF Fetched
    <2> QED
      BY <1>1, <2>1
  <1>9. CASE arg = "REG"
    <2>1. Fetched(arg, idx) =
              IF io_mode = ATOM_IO_MM THEN {RegValue(RegNumber(idx))}
              ELSE {IioExecute(iio[ReadMethod], RegNumber(idx), ctx[ATOM_WS_ATTRIBUTES], 0)}
      BY <1>9 DEF Fetched
    <2>2. RegValue(RegNumber(idx)) \in Dword
      <3>1. reg \in [DOMAIN Registers -> Dword] /\ mmIndex \in Dword
        BY DEF CardInv
      <3>2. \A r : r \in DOMAIN reg => reg[r] \in Dword
        BY <3>1
      <3> QED
        BY <1>1, <3>1, <3>2 DEF RegValue
    <2>3. ASSUME io_mode # ATOM_IO_MM
          PROVE  IioExecute(iio[ReadMethod], RegNumber(idx), ctx[ATOM_WS_ATTRIBUTES], 0) \in Dword
      <3>1. ReadMethod \in DOMAIN iio
        BY <1>9, <2>3 DEF Unreachable
      <3>2. RegNumber(idx) \in Nat /\ ctx[ATOM_WS_ATTRIBUTES] \in Nat /\ 0 \in Nat
        BY Members DEF RegNumber
      <3> QED
        BY <3>1, <3>2, MethodIs
    <2> QED
      BY <2>1, <2>2, <2>3
  <1> QED
    BY <1>3, <1>4, <1>5, <1>6, <1>7, <1>8, <1>9 DEF SrcArgs, DstArgs

-----------------------------------------------------------------------------
(* What the parts of the actions preserve.                                 *)
LEMMA FbAccessKeeps ==
    ASSUME ContextInv, NEW idx \in Nat, 4 * idx < Word, FbAccess(idx)
    PROVE  FbInv'
  <1>1. ctx[ATOM_WS_FB_WINDOW] \in Dword
    BY Members
  <1>2. fb' = WindowAt(ctx[ATOM_WS_FB_WINDOW], idx)
    BY DEF FbAccess, WindowAt, FbSlot, FbBeyond, FbAddr
  <1> QED
    BY <1>1, <1>2 DEF FbInv

LEMMA AccessKeeps ==
    ASSUME ContextInv, CardInv, FbInv,
           NEW arg, NEW idx \in Nat, IsOperand(arg, idx), Access(arg, idx)
    PROVE  CardInv' /\ FbInv'
  <1>1. CardInv'
    <2>1. CASE arg = "REG" /\ io_mode = ATOM_IO_MM
      <3>1. Reach(RegNumber(idx)) /\ reg' = reg /\ named' = named
        BY <2>1 DEF Access
      <3>2. RegNumber(idx) \in Nat
        BY Members DEF RegNumber
      <3>3. 4 * RegNumber(idx) \in Nat
        BY <3>2
      <3>4. (4 * RegNumber(idx)) % Word \in Dword
        BY <3>3, ModuloType
      <3>5. CASE mmIndex' = mmIndex /\ moved' = moved
        BY <3>1, <3>5 DEF CardInv
      <3>6. CASE mmIndex' = (4 * RegNumber(idx)) % Word /\ moved' = TRUE
        BY <3>1, <3>4, <3>6 DEF CardInv
      <3> QED
        BY <3>1, <3>5, <3>6 DEF Reach
    <2>2. CASE UNCHANGED card
      BY <2>2 DEF card, CardInv
    <2> QED
      BY <2>1, <2>2 DEF Access
  <1>2. FbInv'
    <2>1. CASE arg = "FB"
      <3>1. FbAccess(idx) /\ 4 * idx < Word
        BY <2>1 DEF Access, IsOperand
      <3> QED
        BY <3>1, FbAccessKeeps
    <2>2. CASE arg # "FB"
      BY <2>2 DEF Access, FbInv
    <2> QED
      BY <2>1, <2>2
  <1> QED
    BY <1>1, <1>2

LEMMA WriteRegKeeps ==
    ASSUME CardInv, NEW r \in Nat, NEW v \in Dword, WriteReg(r, v)
    PROVE  CardInv'
  <1>1. CASE r = 0
    <2>1. mmIndex' = (4 * v) % Word /\ named' = v /\ moved' = FALSE /\ reg' = reg
      BY <1>1 DEF WriteReg, IndexOf
    <2>2. 4 * v \in Nat
      BY WordType DEF Dword
    <2>3. (4 * v) % Word \in Dword
      BY <2>2, ModuloType
    <2> QED
      BY <2>1, <2>3 DEF CardInv
  <1>2. CASE r # 0
    <2>1. Reach(r) /\ named' = named
          /\ reg' = IF Target(r) \in DOMAIN reg THEN [reg EXCEPT ![Target(r)] = v] ELSE reg
      BY <1>2 DEF WriteReg
    <2>2. reg' \in [DOMAIN Registers -> Dword]
      BY <2>1 DEF CardInv
    <2>3. 4 * r \in Nat
      OBVIOUS
    <2>4. (4 * r) % Word \in Dword
      BY <2>3, ModuloType
    <2>5. CASE mmIndex' = mmIndex /\ moved' = moved
      BY <2>1, <2>2, <2>5 DEF CardInv
    <2>6. CASE mmIndex' = (4 * r) % Word /\ moved' = TRUE
      BY <2>1, <2>2, <2>4, <2>6 DEF CardInv
    <2> QED
      BY <2>1, <2>5, <2>6 DEF Reach
  <1> QED
    BY <1>1, <1>2

LEMMA ContinueKeeps ==
    ASSUME TableInv, pc \in {"dst", "src", "put"}, Continue, walk' = walk
    PROVE  TableInv'
  <1>1. /\ walk = "done" /\ table \in Tables /\ Len(table) \in Nat
        /\ at + 1 \in 1 .. Len(table) + 1
        /\ at # Len(table) => at + 1 \in 1 .. Len(table)
    BY AtCommand
  <1>2. /\ at' = at + 1 /\ table' = table
        /\ pc' = IF at = Len(table) THEN "end" ELSE "dst"
    BY DEF Continue
  <1> QED
    BY <1>1, <1>2 DEF TableInv

LEMMA GoKeeps ==
    ASSUME TableInv, pc \in {"dst", "src", "put"}, walk' = walk,
           NEW next \in {"src", "put"}, Go(next)
    PROVE  TableInv'
  <1>1. /\ walk = "done" /\ table \in Tables /\ at \in 1 .. Len(table)
        /\ at \in 1 .. Len(table) + 1
    BY DEF TableInv
  <1>2. pc' = next /\ at' = at /\ table' = table
    BY DEF Go
  <1> QED
    BY <1>1, <1>2 DEF TableInv

(* A member of the context that gets a value it has room for.              *)
LEMMA MemberKeeps ==
    ASSUME ContextInv, NEW m, NEW v, m \in Member => v \in Room(m),
           ctx' = [ctx EXCEPT ![m] = v], io_mode' \in Nat, flags' = flags
    PROVE  ContextInv'
  <1>1. DOMAIN ctx = Member /\ \A x \in Member : ctx[x] \in Room(x)
    BY DEF ContextInv
  <1>2. DOMAIN ctx' = Member
    BY <1>1
  <1>3. \A x \in Member : ctx'[x] = IF x = m THEN v ELSE ctx[x]
    BY <1>1
  <1>4. \A x \in Member : ctx'[x] \in Room(x)
    BY <1>1, <1>3
  <1>5. flags' \in [equal : BOOLEAN, above : BOOLEAN]
    BY DEF ContextInv
  <1>6. \A x : Room(x)' = Room(x)
    BY DEF Room
  <1> QED
    BY <1>2, <1>4, <1>5, <1>6 DEF ContextInv

LEMMA FitsType ==
    ASSUME NEW m \in Member, NEW v \in Dword
    PROVE  Fits(m, v) \in Room(m)
  <1>1. v \in Nat /\ Half \in Nat \ {0} /\ Shifts \in Nat \ {0}
    BY WordType, Sizes, TableAssumption DEF Dword
  <1>2. v % Half \in 0 .. Half - 1 /\ v % Shifts \in 0 .. Shifts - 1
    BY <1>1, DivMod
  <1> USE DEF ATOM_WS_QUOTIENT, ATOM_WS_REMAINDER, ATOM_WS_DATAPTR, ATOM_WS_SHIFT,
              ATOM_WS_FB_WINDOW, ATOM_WS_ATTRIBUTES, ATOM_WS_REGPTR, Wide, Narrow, Member
  <1>3. CASE m \in Wide
    <2>1. Fits(m, v) = v /\ Room(m) = Dword
      BY <1>3 DEF Fits, Room
    <2> QED
      BY <2>1
  <1>4. CASE m \in Narrow
    <2>1. Fits(m, v) = v % Half /\ Room(m) = 0 .. Half - 1
      BY <1>4 DEF Fits, Room
    <2> QED
      BY <1>2, <2>1
  <1>5. CASE m = ATOM_WS_SHIFT
    <2>1. Fits(m, v) = v % Shifts /\ Room(m) = 0 .. Shifts - 1
      BY <1>5 DEF Fits, Room
    <2> QED
      BY <1>2, <2>1
  <1> QED
    BY <1>3, <1>4, <1>5

LEMMA QuotientsType ==
    ASSUME ContextInv, MemoryInv, NEW i, i.op \in Results
    PROVE  Quotients(i)[1] \in Dword /\ Quotients(i)[2] \in Dword
  <1> USE DEF Results
  <1> DEFINE R == ctx[ATOM_WS_REMAINDER]
             Q == ctx[ATOM_WS_QUOTIENT]
  <1>1. R \in Dword /\ Q \in Dword /\ dst \in Dword /\ src \in Dword /\ 0 \in Dword
    BY Members, WordType DEF MemoryInv, Dword
  <1>2. dst \in Nat /\ src \in Nat /\ Word \in Nat \ {0} /\ dst * src \in Nat
    BY <1>1, WordType DEF Dword
  <1>3. (dst * src) % Word \in Dword
    BY <1>2, ModuloType
  <1>4. CASE i.op = "mul"
    <2>1. Quotients(i) = <<(dst * src) % Word, R>>
      BY <1>4 DEF Quotients
    <2> HIDE DEF R, Q
    <2> QED
      BY <1>1, <1>3, <2>1
  <1>5. CASE i.op = "mul32"
    <2>1. Quotients(i) = <<(dst * src) % Word, (dst * src) \div Word>>
      BY <1>5 DEF Quotients
    <2>3. (dst * src) \div Word \in Dword
      <3> DEFINE q == (dst * src) \div Word
                 r == (dst * src) % Word
      <3>1. q \in Nat /\ r \in 0 .. Word - 1 /\ dst * src = Word * q + r
        BY <1>2, DivMod
      <3> HIDE DEF q, r
      <3>2. dst < Word /\ src < Word
        BY <1>1, <1>2 DEF Dword
      <3>3. dst * src <= dst * Word /\ dst * Word \in Nat
        <4>1. \A x \in Nat : x <= Word => dst * x <= dst * Word
          BY <1>2
        <4> QED
          BY <1>2, <3>2, <4>1
      <3>4. Word * dst = dst * Word
        BY <1>2
      <3>5. q <= dst
        <4> SUFFICES ASSUME q >= dst + 1 PROVE FALSE
          BY <1>2, <3>1
        <4>1. \A x, y \in Nat : x >= y + 1 => Word * x >= Word * y + Word /\ Word * x \in Nat /\ Word * y \in Nat
          BY <1>2
        <4>2. Word * q >= Word * dst + Word /\ Word * q \in Nat /\ Word * dst \in Nat
          BY <1>2, <3>1, <4>1
        <4> QED
          BY <1>2, <3>1, <3>3, <3>4, <4>2
      <3>6. q \in Dword
        BY <1>2, <3>1, <3>2, <3>5 DEF Dword
      <3> QED
        BY <3>6 DEF q
    <2> QED
      BY <1>3, <2>1, <2>3
  <1>6. CASE i.op = "div"
    <2>1. Quotients(i) = IF src = 0 THEN <<0, 0>> ELSE <<dst \div src, dst % src>>
      BY <1>6 DEF Quotients
    <2>2. ASSUME src # 0 PROVE dst \div src \in Dword /\ dst % src \in Dword
      BY <1>1, <1>2, <2>2, QuotientType
    <2> QED
      BY <1>1, <2>1, <2>2
  <1>7. CASE i.op = "div32"
    <2>1. Quotients(i) = IF src = 0 THEN <<0, 0>>
                         ELSE <<((Word * R + dst) \div src) % Word,
                                ((Word * R + dst) \div src) \div Word>>
      BY <1>7 DEF Quotients
    <2>2. ASSUME src # 0
          PROVE  /\ ((Word * R + dst) \div src) % Word \in Dword
                 /\ ((Word * R + dst) \div src) \div Word \in Dword
      <3> HIDE DEF R
      <3> QED
        BY <1>1, <1>2, <2>2, HighType
    <2> HIDE DEF R
    <2> QED
      BY <1>1, <2>1, <2>2
  <1>8. CASE i.op \in {"compare", "test"}
    <2>1. Quotients(i) = <<Q, R>>
      BY <1>8 DEF Quotients
    <2> HIDE DEF R, Q
    <2> QED
      BY <1>1, <2>1
  <1> QED
    BY <1>4, <1>5, <1>6, <1>7, <1>8

LEMMA FlagsType ==
    ASSUME ContextInv, MemoryInv, NEW i
    PROVE  FlagsAfter(i) \in [equal : BOOLEAN, above : BOOLEAN]
  <1>1. flags \in [equal : BOOLEAN, above : BOOLEAN]
    BY DEF ContextInv
  <1>2. CASE i.op = "compare"
    <2>1. FlagsAfter(i) = [equal |-> dst = src, above |-> dst > src]
      BY <1>2 DEF FlagsAfter
    <2>2. dst \in Nat /\ src \in Nat
      BY WordType DEF MemoryInv, Dword
    <2>3. (dst = src) \in BOOLEAN /\ (dst > src) \in BOOLEAN
      BY <2>2
    <2>4. \A a, b \in BOOLEAN :
              [equal |-> a, above |-> b] \in [equal : BOOLEAN, above : BOOLEAN]
      OBVIOUS
    <2>5. [equal |-> dst = src, above |-> dst > src] \in [equal : BOOLEAN, above : BOOLEAN]
      BY <2>3, <2>4, Zenon
    <2> QED
      BY <2>1, <2>5, Zenon
  <1>3. CASE i.op = "test"
    <2>1. FlagsAfter(i) = [flags EXCEPT !.equal = And(dst, src) = 0]
      BY <1>3 DEF FlagsAfter
    <2>2. (And(dst, src) = 0) \in BOOLEAN
      OBVIOUS
    <2> QED
      BY <1>1, <2>1, <2>2
  <1>4. CASE i.op \notin {"compare", "test"}
    <2>1. FlagsAfter(i) = flags
      BY <1>4 DEF FlagsAfter
    <2> QED
      BY <1>1, <2>1
  <1> QED
    BY <1>2, <1>3, <1>4

-----------------------------------------------------------------------------
(* The walk stands still while a table runs.                               *)
LEMMA WalkKept == WalkInv /\ UNCHANGED iioVars => WalkInv' /\ walk' = walk
  <1> SUFFICES ASSUME WalkInv, UNCHANGED iioVars PROVE WalkInv' /\ walk' = walk
    OBVIOUS
  <1>1. [Index]_iioVars
    OBVIOUS
  <1>2. walk' = walk
    BY DEF iioVars
  <1> QED
    BY <1>1, <1>2, WalkNext

LEMMA InitInv == Init => OperandInv
  <1> SUFFICES ASSUME Init PROVE OperandInv
    OBVIOUS
  <1> USE DEF Init
  <1>1. WalkInv
    BY WalkInit
  <1>2. TableInv
    BY DEF TableInv
  <1>3. ContextInv
    <2>1. Half \in Nat \ {0} /\ Shifts \in Nat \ {0} /\ Word \in Nat \ {0}
      BY Sizes, TableAssumption, WordType
    <2>2. \A m \in Member : 0 \in Room(m)
      BY <2>1 DEF Room, Dword
    <2>3. DOMAIN ctx = Member /\ \A m \in Member : ctx[m] = 0
      BY DEF Reset
    <2>4. io_mode \in Nat /\ flags \in [equal : BOOLEAN, above : BOOLEAN]
      BY DEF ATOM_IO_MM
    <2> QED
      BY <2>2, <2>3, <2>4 DEF ContextInv
  <1>4. MemoryInv
    <2>1. 0 \in Dword
      BY WordType DEF Dword
    <2>2. scratch \in [Slot -> Dword]
      BY <2>1
    <2> QED
      BY <2>1, <2>2, TableAssumption DEF MemoryInv
  <1>5. CardInv
    <2>1. Word \in Nat \ {0} /\ 0 \in Dword
      BY WordType DEF Dword
    <2>2. 0 % Word = 0
      <3>1. Word * 0 + 0 = 0 /\ 0 \in 0 .. Word - 1 /\ 0 \in Nat
        BY <2>1
      <3>2. (Word * 0 + 0) % Word = 0
        BY <2>1, <3>1, DivUnique
      <3> QED
        BY <3>1, <3>2
    <2>3. 4 * named = 0
      OBVIOUS
    <2> QED
      BY <2>1, <2>2, <2>3, RegisterAssumption DEF CardInv
  <1>6. FbInv
    BY DEF FbInv
  <1> QED
    BY <1>1, <1>2, <1>3, <1>4, <1>5, <1>6 DEF OperandInv

LEMMA IndexKeeps ==
    ASSUME OperandInv, Index, UNCHANGED operandVars
    PROVE  OperandInv'
  <1>1. WalkInv'
    BY WalkNext DEF OperandInv
  <1>2. walk # "done"
    BY DEF Index, IndexProgram, IndexDone, IndexSkip, IndexEnd
  <1>3. TableInv'
    BY <1>2 DEF OperandInv, TableInv, operandVars
  <1>4. ContextInv' /\ MemoryInv'
    BY DEF OperandInv, ContextInv, MemoryInv, operandVars, memory, context, Room
  <1>5. CardInv' /\ FbInv'
    BY DEF OperandInv, CardInv, FbInv, operandVars, card
  <1> QED
    BY <1>1, <1>3, <1>4, <1>5 DEF OperandInv

LEMMA BeginKeeps ==
    ASSUME OperandInv, Begin
    PROVE  OperandInv'
  <1> USE DEF Begin, OperandInv
  <1>1. WalkInv' /\ walk' = walk
    BY WalkKept
  <1>2. TableInv'
    <2>1. at = 1 /\ at' = at /\ table' \in Tables /\ pc' = "dst" /\ walk = "done"
      BY DEF TableInv
    <2>2. table' \in Seq(Commands) /\ table' # <<>>
      BY <2>1, TableAssumption
    <2>3. Len(table') \in Nat /\ Len(table') # 0
      BY <2>2, EmptySeq, LenProperties
    <2> QED
      BY <1>1, <2>1, <2>3 DEF TableInv
  <1>3. ContextInv'
    <2>1. Half \in Nat \ {0} /\ Shifts \in Nat \ {0} /\ Word \in Nat \ {0}
      BY Sizes, TableAssumption, WordType
    <2>2. \A m \in Member : 0 \in Room(m)
      BY <2>1 DEF Room, Dword
    <2>3. DOMAIN ctx' = Member /\ \A m \in Member : ctx'[m] = 0
      BY DEF Reset
    <2>4. io_mode' \in Nat /\ flags' = flags
      BY DEF ATOM_IO_MM
    <2> QED
      BY <2>2, <2>3, <2>4 DEF ContextInv, Room
  <1>4. MemoryInv' /\ CardInv' /\ FbInv'
    BY DEF MemoryInv, CardInv, FbInv, memory, card
  <1> QED
    BY <1>1, <1>2, <1>3, <1>4

LEMMA GetDstKeeps ==
    ASSUME OperandInv, GetDst
    PROVE  OperandInv'
  <1> DEFINE i == Instruction
  <1>1. WalkInv /\ TableInv /\ ContextInv /\ MemoryInv /\ CardInv /\ FbInv
    BY DEF OperandInv
  <1>2. WalkInv' /\ walk' = walk
    BY <1>1, WalkKept DEF GetDst
  <1>3. pc = "dst" /\ walk = "done" /\ i \in Commands
    BY <1>1, AtCommand DEF GetDst
  <1>4. i.arg \in DstArgs /\ i.idx \in Nat /\ IsOperand(i.arg, i.idx) /\ DstAlign(i) \in Align
    BY <1>3, CommandType, DstAlignType
  <1>5. TableInv'
    <2>1. Go("put") \/ Go("src")
      BY DEF GetDst
    <2> QED
      BY <1>1, <1>2, <1>3, <2>1, GoKeeps
  <1>6. ContextInv'
    BY <1>1 DEF GetDst, context, ContextInv, Room
  <1>7. src' = src /\ ps' = ps /\ ws' = ws /\ scratch' = scratch
    BY DEF GetDst, memory
  <1>8. CASE SkipsDst(i)
    <2>1. saved' = Poison /\ dst' = dst /\ UNCHANGED <<card, fb>>
      BY <1>8 DEF GetDst
    <2>2. MemoryInv' /\ CardInv' /\ FbInv'
      BY <1>1, <1>7, <2>1, PoisonType DEF MemoryInv, CardInv, FbInv, card
    <2> QED
      BY <1>2, <1>5, <1>6, <2>2 DEF OperandInv
  <1>9. CASE ~ SkipsDst(i) /\ Unreachable(i.arg, ReadMethod)
    <2>1. dst' = 0 /\ saved' \in Foreign /\ UNCHANGED <<card, fb>>
      BY <1>9 DEF GetDst
    <2>2. 0 \in Dword /\ saved' \in Dword
      BY <2>1, WordType, TableAssumption DEF Dword
    <2>3. MemoryInv' /\ CardInv' /\ FbInv'
      BY <1>1, <1>7, <2>1, <2>2 DEF MemoryInv, CardInv, FbInv, card
    <2> QED
      BY <1>2, <1>5, <1>6, <2>3 DEF OperandInv
  <1>10. CASE ~ SkipsDst(i) /\ ~ Unreachable(i.arg, ReadMethod)
    <2>1. /\ saved' \in Fetched(i.arg, i.idx)
          /\ dst' = Lane(saved', DstAlign(i))
          /\ Access(i.arg, i.idx)
      BY <1>10 DEF GetDst
    <2>2. i.arg \in SrcArgs
      BY <1>4 DEF SrcArgs
    <2>3. Fetched(i.arg, i.idx) \subseteq Dword
      BY <1>1, <1>3, <1>4, <1>10, <2>2, FetchedType
    <2>4. dst' \in Dword
      BY <1>4, <2>1, LaneType
    <2>5. CardInv' /\ FbInv'
      BY <1>1, <1>4, <2>1, AccessKeeps
    <2>6. MemoryInv'
      BY <1>1, <1>7, <2>1, <2>3, <2>4 DEF MemoryInv
    <2> QED
      BY <1>2, <1>5, <1>6, <2>5, <2>6 DEF OperandInv
  <1> QED
    BY <1>8, <1>9, <1>10

LEMMA GetSrcKeeps ==
    ASSUME OperandInv, GetSrc
    PROVE  OperandInv'
  <1> DEFINE i == Instruction
  <1>1. WalkInv /\ TableInv /\ ContextInv /\ MemoryInv /\ CardInv /\ FbInv
    BY DEF OperandInv
  <1>2. WalkInv' /\ walk' = walk
    BY <1>1, WalkKept DEF GetSrc
  <1>3. pc = "src" /\ walk = "done" /\ i \in Commands
    BY <1>1, AtCommand DEF GetSrc
  <1>4. /\ i.src \in SrcArgs /\ i.sidx \in Nat /\ IsOperand(i.src, i.sidx)
        /\ i.align \in Align /\ i.num \in Nat
        /\ i.op \in Shift => i.num < Shifts
    BY <1>3, CommandType
  <1>5. TableInv'
    BY <1>1, <1>2, <1>3, GoKeeps DEF GetSrc
  <1>6. ContextInv'
    BY <1>1 DEF GetSrc, context, ContextInv, Room
  <1>7. dst' = dst /\ saved' = saved /\ ps' = ps /\ ws' = ws /\ scratch' = scratch
    BY DEF GetSrc, memory
  <1>8. src' \in Dword => MemoryInv'
    BY <1>1, <1>7 DEF MemoryInv
  <1>9. CASE i.op \in Shift \/ i.src = "IMM"
    <2>1. src' = (IF i.op \in Shift THEN i.num ELSE i.sidx) /\ UNCHANGED <<card, fb>>
      BY <1>9 DEF GetSrc
    <2>2. src' \in Dword
      BY <1>4, <1>9, <2>1, WordType, TableAssumption DEF IsOperand, Dword
    <2>3. CardInv' /\ FbInv'
      BY <1>1, <2>1 DEF CardInv, FbInv, card
    <2> QED
      BY <1>2, <1>5, <1>6, <1>8, <2>2, <2>3 DEF OperandInv
  <1>10. CASE ~ (i.op \in Shift \/ i.src = "IMM") /\ Unreachable(i.src, ReadMethod)
    <2>1. src' = 0 /\ UNCHANGED <<card, fb>>
      BY <1>10 DEF GetSrc
    <2>2. src' \in Dword
      BY <2>1, WordType DEF Dword
    <2>3. CardInv' /\ FbInv'
      BY <1>1, <2>1 DEF CardInv, FbInv, card
    <2> QED
      BY <1>2, <1>5, <1>6, <1>8, <2>2, <2>3 DEF OperandInv
  <1>11. CASE ~ (i.op \in Shift \/ i.src = "IMM") /\ ~ Unreachable(i.src, ReadMethod)
    <2>1. /\ src' \in {Lane(w, i.align) : w \in Fetched(i.src, i.sidx)}
          /\ Access(i.src, i.sidx)
      BY <1>11 DEF GetSrc
    <2>2. src' \in Dword
      BY <1>4, <2>1, LaneType
    <2>3. CardInv' /\ FbInv'
      BY <1>1, <1>4, <2>1, AccessKeeps
    <2> QED
      BY <1>2, <1>5, <1>6, <1>8, <2>2, <2>3 DEF OperandInv
  <1> QED
    BY <1>9, <1>10, <1>11

LEMMA PutDstKeeps ==
    ASSUME OperandInv, PutDst
    PROVE  OperandInv'
  <1> DEFINE i == Instruction
             a == i.arg
             x == i.idx
  <1>1. WalkInv /\ TableInv /\ ContextInv /\ MemoryInv /\ CardInv /\ FbInv
    BY DEF OperandInv
  <1>2. WalkInv' /\ walk' = walk
    BY <1>1, WalkKept DEF PutDst
  <1>3. pc = "put" /\ i \in Commands
    BY <1>1, AtCommand DEF PutDst
  <1>4. a \in DstArgs /\ x \in Nat /\ IsOperand(a, x)
    BY <1>3, CommandType
  <1>5. PICK v \in {Merge(o, saved, DstAlign(i)) : o \in Outcomes(i)} :
              /\ ps' = IF a = "PS" THEN [ps EXCEPT ![x] = v] ELSE ps
              /\ ws' = IF a = "WS" /\ x \in DOMAIN ws THEN [ws EXCEPT ![x] = v] ELSE ws
              /\ ctx' = IF a = "WS" /\ x \in Member
                        THEN [ctx EXCEPT ![x] = Fits(x, v)] ELSE ctx
              /\ scratch' = IF a = "FB" /\ ~ FbBeyond(x) /\ FbSlot(x) \in Slot
                            THEN [scratch EXCEPT ![FbSlot(x)] = v] ELSE scratch
              /\ IF a = "FB" THEN FbAccess(x) ELSE UNCHANGED fb
              /\ IF a = "REG" /\ io_mode = ATOM_IO_MM
                 THEN WriteReg(RegNumber(x), v) ELSE UNCHANGED card
    BY DEF PutDst
  <1>6. v \in Dword
    BY MergeType
  <1>7. TableInv'
    BY <1>1, <1>2, <1>3, ContinueKeeps DEF PutDst
  <1>8. ContextInv'
    <2>1. io_mode' = io_mode /\ flags' = flags /\ io_mode \in Nat
      BY <1>1 DEF PutDst, ContextInv
    <2>2. CASE a = "WS" /\ x \in Member
      <3>1. ctx' = [ctx EXCEPT ![x] = Fits(x, v)]
        BY <1>5, <2>2
      <3>2. Fits(x, v) \in Room(x)
        BY <1>6, <2>2, FitsType
      <3> QED
        BY <1>1, <2>1, <3>1, <3>2, MemberKeeps
    <2>3. CASE ~ (a = "WS" /\ x \in Member)
      BY <1>1, <1>5, <2>1, <2>3 DEF ContextInv, Room
    <2> QED
      BY <2>2, <2>3
  <1>9. MemoryInv'
    <2>1. dst' = dst /\ saved' = saved /\ src' = src
      BY DEF PutDst
    <2>2. ps' \in [DOMAIN ParamSpace -> Dword]
      BY <1>1, <1>5, <1>6 DEF MemoryInv
    <2>3. ws' \in [DOMAIN WorkSpace -> Dword]
      BY <1>1, <1>5, <1>6 DEF MemoryInv
    <2>4. scratch' \in [Slot -> Dword]
      BY <1>1, <1>5, <1>6 DEF MemoryInv
    <2> QED
      BY <1>1, <2>1, <2>2, <2>3, <2>4 DEF MemoryInv
  <1>10. CardInv'
    <2>1. CASE a = "REG" /\ io_mode = ATOM_IO_MM
      <3>1. WriteReg(RegNumber(x), v)
        BY <1>5, <2>1
      <3>2. RegNumber(x) \in Nat
        BY <1>1, <1>4, Members DEF RegNumber
      <3> QED
        BY <1>1, <1>6, <3>1, <3>2, WriteRegKeeps
    <2>2. CASE ~ (a = "REG" /\ io_mode = ATOM_IO_MM)
      BY <1>1, <1>5, <2>2 DEF CardInv, card
    <2> QED
      BY <2>1, <2>2
  <1>11. FbInv'
    <2>1. CASE a = "FB"
      <3>1. FbAccess(x) /\ 4 * x < Word
        BY <1>4, <1>5, <2>1 DEF IsOperand
      <3> QED
        BY <1>1, <1>4, <3>1, FbAccessKeeps
    <2>2. CASE a # "FB"
      BY <1>1, <1>5, <2>2 DEF FbInv
    <2> QED
      BY <2>1, <2>2
  <1> QED
    BY <1>2, <1>7, <1>8, <1>9, <1>10, <1>11 DEF OperandInv

LEMMA PutResultKeeps ==
    ASSUME OperandInv, PutResult
    PROVE  OperandInv'
  <1> DEFINE i == Instruction
             q == Quotients(i)[1]
             r == Quotients(i)[2]
  <1>1. WalkInv /\ TableInv /\ ContextInv /\ MemoryInv /\ CardInv /\ FbInv
    BY DEF OperandInv
  <1>2. WalkInv' /\ walk' = walk
    BY <1>1, WalkKept DEF PutResult
  <1>3. TableInv'
    BY <1>1, <1>2, ContinueKeeps DEF PutResult
  <1>4. ContextInv'
    <2>1. q \in Dword /\ r \in Dword
      BY <1>1, QuotientsType DEF PutResult
    <2>2. DOMAIN ctx = Member /\ \A m \in Member : ctx[m] \in Room(m)
      BY <1>1 DEF ContextInv
    <2>3. ctx' = [ctx EXCEPT ![ATOM_WS_QUOTIENT] = q, ![ATOM_WS_REMAINDER] = r]
      BY DEF PutResult
    <2>4. Room(ATOM_WS_QUOTIENT) = Dword /\ Room(ATOM_WS_REMAINDER) = Dword
      BY DEF Room, Wide
    <2> HIDE DEF q, r
    <2>5. DOMAIN ctx' = Member
      BY <2>2, <2>3
    <2>6. \A m \in Member : ctx'[m] \in {q, r, ctx[m]}
                            /\ (ctx'[m] # ctx[m] => m = ATOM_WS_QUOTIENT \/ m = ATOM_WS_REMAINDER)
      BY <2>2, <2>3
    <2>7. \A m \in Member : ctx'[m] \in Room(m)
      BY <2>1, <2>2, <2>4, <2>6
    <2>8. flags' \in [equal : BOOLEAN, above : BOOLEAN]
      BY <1>1, FlagsType DEF PutResult
    <2>9. io_mode' \in Nat
      BY <1>1 DEF PutResult, ContextInv
    <2> QED
      BY <2>5, <2>7, <2>8, <2>9 DEF ContextInv, Room
  <1>5. MemoryInv' /\ CardInv' /\ FbInv'
    BY <1>1 DEF PutResult, MemoryInv, CardInv, FbInv, memory, card
  <1> QED
    BY <1>2, <1>3, <1>4, <1>5 DEF OperandInv

LEMMA SetKeeps ==
    ASSUME OperandInv, Set
    PROVE  OperandInv'
  <1> DEFINE i == Instruction
  <1>1. WalkInv /\ TableInv /\ ContextInv /\ MemoryInv /\ CardInv /\ FbInv
    BY DEF OperandInv
  <1>2. WalkInv' /\ walk' = walk
    BY <1>1, WalkKept DEF Set
  <1>3. TableInv'
    BY <1>1, <1>2, ContinueKeeps DEF Set
  <1>4. i \in Commands /\ i.op \in Settings
    BY <1>1, AtCommand DEF Set
  <1>5. /\ i.num \in Nat
        /\ i.op = "setregblock" => i.num < Half
        /\ i.op = "setdatablock" => DataBlock(i.num) \in 0 .. Half - 1
    BY <1>4, CommandType
  <1>6. /\ io_mode' = CASE i.op = "setport_ati" -> PortMode(i.num)
                        [] i.op = "setport_pci" -> ATOM_IO_PCI
                        [] i.op = "setport_sysio" -> ATOM_IO_SYSIO
                        [] OTHER -> io_mode
        /\ ctx' = CASE i.op = "setregblock" -> [ctx EXCEPT ![ATOM_WS_REGPTR] = i.num]
                    [] i.op = "setdatablock" -> [ctx EXCEPT ![ATOM_WS_DATAPTR] = DataBlock(i.num)]
                    [] OTHER -> ctx
        /\ flags' = flags
    BY DEF Set
  <1>7. io_mode' \in Nat
    <2>1. PortMode(i.num) \in Nat /\ ATOM_IO_PCI \in Nat /\ ATOM_IO_SYSIO \in Nat
      BY <1>5 DEF PortMode, ATOM_IO_MM, ATOM_IO_PCI, ATOM_IO_SYSIO
    <2>2. io_mode \in Nat
      BY <1>1 DEF ContextInv
    <2>3. io_mode' \in {PortMode(i.num), ATOM_IO_PCI, ATOM_IO_SYSIO, io_mode}
      BY <1>4, <1>6 DEF Settings
    <2> QED
      BY <2>1, <2>2, <2>3
  <1>8. ContextInv'
    <2>1. /\ Room(ATOM_WS_REGPTR) = 0 .. Half - 1
          /\ Room(ATOM_WS_DATAPTR) = 0 .. Half - 1
      BY DEF Room, Wide, Narrow, ATOM_WS_REGPTR, ATOM_WS_DATAPTR, ATOM_WS_QUOTIENT,
             ATOM_WS_REMAINDER, ATOM_WS_FB_WINDOW
    <2>2. CASE i.op = "setregblock"
      <3>1. ctx' = [ctx EXCEPT ![ATOM_WS_REGPTR] = i.num]
        BY <1>6, <2>2
      <3>2. i.num \in Room(ATOM_WS_REGPTR)
        BY <1>5, <2>1, <2>2, Sizes
      <3> QED
        BY <1>1, <1>6, <1>7, <3>1, <3>2, MemberKeeps
    <2>3. CASE i.op = "setdatablock"
      <3>1. ctx' = [ctx EXCEPT ![ATOM_WS_DATAPTR] = DataBlock(i.num)]
        BY <1>6, <2>3
      <3>2. DataBlock(i.num) \in Room(ATOM_WS_DATAPTR)
        BY <1>5, <2>1, <2>3
      <3> QED
        BY <1>1, <1>6, <1>7, <3>1, <3>2, MemberKeeps
    <2>4. CASE i.op \notin {"setregblock", "setdatablock"}
      <3>1. ctx' = ctx
        BY <1>6, <2>4
      <3> QED
        BY <1>1, <1>6, <1>7, <3>1 DEF ContextInv, Room
    <2> QED
      BY <2>2, <2>3, <2>4
  <1>9. MemoryInv' /\ CardInv' /\ FbInv'
    BY <1>1 DEF Set, MemoryInv, CardInv, FbInv, memory, card
  <1> QED
    BY <1>2, <1>3, <1>8, <1>9 DEF OperandInv

LEMMA FbBaseKeeps ==
    ASSUME OperandInv, SetFbBase \/ FbBaseIsSet
    PROVE  OperandInv'
  <1>1. WalkInv /\ TableInv /\ ContextInv /\ MemoryInv /\ CardInv /\ FbInv
    BY DEF OperandInv
  <1>2. WalkInv' /\ walk' = walk
    BY <1>1, WalkKept DEF SetFbBase, FbBaseIsSet
  <1>3. MemoryInv' /\ CardInv' /\ FbInv'
    BY <1>1 DEF SetFbBase, FbBaseIsSet, MemoryInv, CardInv, FbInv, memory, card
  <1>4. CASE SetFbBase
    <2>1. TableInv'
      BY <1>1, <1>2, <1>4, GoKeeps DEF SetFbBase
    <2>2. ContextInv'
      BY <1>1, <1>4 DEF SetFbBase, context, ContextInv, Room
    <2> QED
      BY <1>2, <1>3, <2>1, <2>2 DEF OperandInv
  <1>5. CASE FbBaseIsSet
    <2>1. TableInv'
      BY <1>1, <1>2, <1>5, ContinueKeeps DEF FbBaseIsSet
    <2>2. src \in Dword /\ io_mode \in Nat
      BY <1>1 DEF MemoryInv, ContextInv
    <2>3. Room(ATOM_WS_FB_WINDOW) = Dword
      BY DEF Room, Wide
    <2>4. /\ ctx' = [ctx EXCEPT ![ATOM_WS_FB_WINDOW] = src]
          /\ io_mode' = io_mode /\ flags' = flags
      BY <1>5 DEF FbBaseIsSet
    <2>5. ContextInv'
      BY <1>1, <2>2, <2>3, <2>4, MemberKeeps
    <2> QED
      BY <1>2, <1>3, <2>1, <2>5 DEF OperandInv
  <1> QED
    BY <1>4, <1>5

LEMMA ElsewhereKeeps ==
    ASSUME OperandInv, Elsewhere
    PROVE  OperandInv'
  <1>1. WalkInv /\ TableInv /\ ContextInv /\ MemoryInv /\ CardInv /\ FbInv
    BY DEF OperandInv
  <1>2. WalkInv' /\ walk' = walk
    BY <1>1, WalkKept DEF Elsewhere
  <1>3. TableInv' /\ ContextInv' /\ MemoryInv' /\ FbInv'
    BY <1>1, <1>2 DEF Elsewhere, TableInv, ContextInv, Room, MemoryInv, FbInv, memory, context
  <1>4. CardInv'
    <2>1. PICK r \in DOMAIN reg : mmIndex' = 4 * r
      BY DEF Elsewhere
    <2>2. r \in DOMAIN Registers
      BY <1>1 DEF CardInv
    <2>3. mmIndex' \in Dword
      BY <2>1, <2>2, RegisterAssumption, WordType DEF Dword
    <2>4. moved' = TRUE /\ reg' = reg /\ named' = named
      BY DEF Elsewhere
    <2> QED
      BY <1>1, <2>3, <2>4 DEF CardInv
  <1> QED
    BY <1>2, <1>3, <1>4 DEF OperandInv

LEMMA StutterKeeps ==
    ASSUME OperandInv, UNCHANGED vars
    PROVE  OperandInv'
  <1>1. WalkInv' /\ walk' = walk
    BY WalkKept DEF OperandInv, vars
  <1> QED
    BY <1>1 DEF OperandInv, TableInv, ContextInv, Room, MemoryInv, CardInv, FbInv, vars,
                operandVars, memory, context, card

(* Every step of Next keeps the invariant.                                 *)
THEOREM OperandInductive == Spec => []OperandInv
  <1>1. OperandInv /\ [Next]_vars => OperandInv'
    <2> SUFFICES ASSUME OperandInv, [Next]_vars PROVE OperandInv'
      OBVIOUS
    <2>1. CASE Index /\ UNCHANGED operandVars
      BY <2>1, IndexKeeps
    <2>2. CASE Begin
      BY <2>2, BeginKeeps
    <2>3. CASE GetDst
      BY <2>3, GetDstKeeps
    <2>4. CASE GetSrc
      BY <2>4, GetSrcKeeps
    <2>5. CASE PutDst
      BY <2>5, PutDstKeeps
    <2>6. CASE PutResult
      BY <2>6, PutResultKeeps
    <2>7. CASE Set
      BY <2>7, SetKeeps
    <2>8. CASE SetFbBase \/ FbBaseIsSet
      BY <2>8, FbBaseKeeps
    <2>9. CASE Elsewhere
      BY <2>9, ElsewhereKeeps
    <2>10. CASE Terminated \/ UNCHANGED vars
      BY <2>10, StutterKeeps DEF Terminated
    <2> QED
      BY <2>1, <2>2, <2>3, <2>4, <2>5, <2>6, <2>7, <2>8, <2>9, <2>10 DEF Next
  <1> QED
    BY <1>1, InitInv, PTL DEF Spec

-----------------------------------------------------------------------------
(* The address of a register, as a word, is that of the register's number  *)
(* modulo a quarter of the words.                                          *)
LEMMA Named ==
    ASSUME NEW n \in Nat
    PROVE  ((4 * n) % Word) \div 4 = n % (Word \div 4)
  <1>1. PICK k \in Nat \ {0} : Word = 4 * k
    BY Sizes
  <1>2. Word \div 4 = k
    <2>1. 4 * k + 0 = 4 * k /\ 4 \in Nat \ {0} /\ 0 \in 0 .. 4 - 1 /\ k \in Nat
      OBVIOUS
    <2>2. (4 * k + 0) \div 4 = k
      BY <2>1, DivUnique
    <2> QED
      BY <1>1, <2>1, <2>2
  <1> DEFINE q == n \div k
             r == n % k
  <1>3. q \in Nat /\ r \in 0 .. k - 1 /\ n = k * q + r
    BY DivMod
  <1> HIDE DEF q, r
  <1>4. 4 * r \in 0 .. Word - 1 /\ r \in Nat
    BY <1>1, <1>3
  <1>5. 4 * n = Word * q + 4 * r
    <2>1. 4 * (k * q + r) = 4 * (k * q) + 4 * r
      BY <1>3
    <2>2. 4 * (k * q) = (4 * k) * q
      BY <1>3
    <2> QED
      BY <1>1, <1>3, <2>1, <2>2
  <1>6. (4 * n) % Word = 4 * r
    <2>1. Word \in Nat \ {0}
      BY WordType
    <2>2. (Word * q + 4 * r) % Word = 4 * r
      BY <1>3, <1>4, <2>1, DivUnique
    <2> QED
      BY <1>5, <2>2
  <1>7. (4 * r) \div 4 = r
    <2>1. 4 * r + 0 = 4 * r /\ 4 \in Nat \ {0} /\ 0 \in 0 .. 4 - 1
      BY <1>4
    <2>2. (4 * r + 0) \div 4 = r
      BY <1>4, <2>1, DivUnique
    <2> QED
      BY <2>1, <2>2
  <1> QED
    BY <1>2, <1>6, <1>7 DEF r

(* REG[1] is the register that the table named, unless MM_INDEX was moved  *)
(* since: only a write of REG[0] and an access beyond the aperture change  *)
(* it, and the first notes the number (atom_put_dst, reg_write).           *)
THEOREM DataTheorem == Spec => []DataIsNamedUnlessMoved
  <1>1. OperandInv => DataIsNamedUnlessMoved
    <2> SUFFICES ASSUME OperandInv, ~ moved PROVE Target(1) = named % (Word \div 4)
      BY DEF DataIsNamedUnlessMoved
    <2>1. named \in Nat /\ mmIndex = (4 * named) % Word
      BY WordType DEF OperandInv, CardInv, Dword
    <2>2. ((4 * named) % Word) \div 4 = named % (Word \div 4)
      BY <2>1, Named
    <2>3. Target(1) = mmIndex \div 4
      BY DEF Target
    <2> QED
      BY <2>1, <2>2, <2>3
  <1> QED
    BY <1>1, OperandInductive, PTL

(* What the check of an access lets pass, and whether the word is in the   *)
(* area, differ at its end only, and where the address wraps around.       *)
LEMMA WindowEdge ==
    ASSUME NEW w \in Dword, NEW idx \in Nat
    PROVE  LET access == WindowAt(w, idx)
           IN  access.done # (access.slot \in Slot) =>
                   access.addr = ScratchSize \/ access.addr >= Word
  <1> DEFINE q == w \div 4
             r == w % 4
             s == ScratchSize \div 4
             a == w + 4 * idx
             slot == q + idx
  <1>1. w \in Nat /\ ScratchSize \in Nat /\ Word \in Nat \ {0} /\ 4 \in Nat \ {0} /\ 3 = 4 - 1
    BY WordType, ScratchAssumption DEF Dword
  <1>2. q \in Nat /\ r \in 0 .. 3 /\ w = 4 * q + r
    BY <1>1, DivMod
  <1>3. s \in Nat /\ ScratchSize = 4 * s
    <2>1. s \in Nat /\ ScratchSize = 4 * s + (ScratchSize % 4)
      BY <1>1, DivMod
    <2> HIDE DEF s
    <2> QED
      BY <2>1, <1>1, ScratchAssumption
  <1>4. /\ WindowAt(w, idx).addr = a /\ WindowAt(w, idx).slot = slot
        /\ WindowAt(w, idx).done = ~ (a % Word > ScratchSize)
    BY DEF WindowAt
  <1>5. a \in Nat /\ (a < Word => a % Word = a)
    <2>1. a \in Nat
      BY <1>1
    <2> HIDE DEF a
    <2>2. a < Word => (Word * 0 + a) % Word = a
      BY <1>1, <2>1, DivUnique
    <2>3. Word * 0 + a = a
      BY <1>1, <2>1
    <2> QED
      BY <2>1, <2>2, <2>3
  <1>6. slot \in Slot <=> slot < s
    BY <1>2, <1>3 DEF Slot
  <1> HIDE DEF q, r, s
  <1>7. slot < s => a < ScratchSize
    BY <1>2, <1>3
  <1>8. ~ (slot < s) => a >= ScratchSize
    BY <1>2, <1>3
  <1> HIDE DEF a, slot
  <1>9. ASSUME a < Word, a # ScratchSize PROVE ~ (a % Word > ScratchSize) <=> slot \in Slot
    BY <1>1, <1>5, <1>6, <1>7, <1>8, <1>9
  <1>10. ~ (a < Word) => a >= Word
    BY <1>1, <1>5
  <1> QED
    BY <1>4, <1>9, <1>10

(* Accesses of the scratch area are done where they are inside and refused *)
(* where they are not, but for the dword after the area and addresses that *)
(* wrap around (the comparison with scratch_size_bytes).                   *)
THEOREM ScratchTheorem == Spec => []ScratchUnlessEdge
  <1>1. OperandInv => ScratchUnlessEdge
    <2> SUFFICES ASSUME OperandInv PROVE ScratchUnlessEdge
      OBVIOUS
    <2>1. CASE fb = NoAccess
      <3>1. Word \notin Slot
        <4>1. ScratchSize \in Nat /\ ScratchSize < Word /\ Word \in Nat
          BY ScratchAssumption, WordType DEF Dword
        <4>2. ScratchSize \div 4 <= ScratchSize /\ ScratchSize \div 4 \in Nat
          BY ScratchAssumption, QuotientType
        <4> QED
          BY <4>1, <4>2 DEF Slot
      <3>2. fb.done = FALSE /\ fb.slot = Word
        BY <2>1 DEF NoAccess
      <3>3. (fb.slot \in Slot) = FALSE
        BY <3>1, <3>2
      <3>4. fb.done = (fb.slot \in Slot)
        BY <3>2, <3>3, Zenon
      <3> QED
        BY <3>4, Zenon DEF ScratchUnlessEdge
    <2>2. CASE fb # NoAccess
      <3>1. PICK w \in Dword, idx \in Nat : fb = WindowAt(w, idx)
        BY <2>2 DEF OperandInv, FbInv
      <3> QED
        BY <3>1, WindowEdge DEF ScratchUnlessEdge
    <2> QED
      BY <2>1, <2>2
  <1> QED
    BY <1>1, OperandInductive, PTL

(* When the walk over the image ends, whatever the list of programs and    *)
(* the width of a register, every method runs as its last program means    *)
(* (atom_index_iio, atom_iio_execute).                                     *)
THEOREM IioTheorem == Spec => IioRuns
  <1> DEFINE P == walk = "done" => AllRun
  <1>1. OperandInv => P
    BY DoneRuns DEF OperandInv
  <1>2. P' => [walk # "done" /\ walk' = "done" => AllRun']_iioVars
    OBVIOUS
  <1> QED
    BY <1>1, <1>2, OperandInductive, PTL DEF IioRuns

(* Every place of the table, the context, the card and the walk keeps a    *)
(* value that it has room for.                                             *)
THEOREM TypeTheorem == Spec => []TypeOK
  <1>1. OperandInv => TypeOK
    <2> SUFFICES ASSUME OperandInv PROVE TypeOK
      OBVIOUS
    <2>1. WalkInv /\ TableInv /\ ContextInv /\ MemoryInv /\ CardInv /\ FbInv
      BY DEF OperandInv
    <2>2. IioTypeOK
      BY <2>1, WalkTypes
    <2>3. /\ \A k \in DOMAIN table : table[k].align \in Align /\ table[k].sel \in 0 .. 3
          /\ at \in 1 .. Len(table) + 1
          /\ pc \in {"idle", "dst", "src", "put", "end"}
      <3>1. CASE pc = "idle"
        <4>1. table = <<>> /\ at = 1
          BY <2>1, <3>1 DEF TableInv
        <4>2. Len(table) = 0 /\ DOMAIN table = {}
          BY <4>1
        <4> QED
          BY <2>1, <4>1, <4>2 DEF TableInv
      <3>2. CASE pc # "idle"
        <4>1. table \in Seq(Commands) /\ at \in 1 .. Len(table) + 1
          BY <2>1, <3>2, TableAssumption DEF TableInv
        <4>2. \A k \in DOMAIN table : table[k] \in Commands
          BY <4>1, ElementOfSeq, LenProperties
        <4> QED
          BY <2>1, <4>1, <4>2, CommandType DEF TableInv
      <3> QED
        BY <3>1, <3>2
    <2>4. /\ {dst, saved, src} \subseteq Dword
          /\ ps \in [DOMAIN ParamSpace -> Dword]
          /\ ws \in [DOMAIN WorkSpace -> Dword]
          /\ scratch \in [Slot -> Dword]
      BY <2>1 DEF MemoryInv
    <2>5. /\ DOMAIN ctx = Member
          /\ \A m \in Wide : ctx[m] \in Dword
          /\ \A m \in Narrow : ctx[m] \in 0 .. Half - 1
          /\ ctx[ATOM_WS_SHIFT] \in 0 .. Shifts - 1
          /\ io_mode \in Nat
          /\ flags \in [equal : BOOLEAN, above : BOOLEAN]
      <3>1. \A m \in Member : ctx[m] \in Room(m)
        BY <2>1 DEF ContextInv
      <3>2. ATOM_WS_SHIFT \notin Wide /\ ATOM_WS_SHIFT \notin Narrow /\ Wide \cap Narrow = {}
        BY DEF Wide, Narrow, ATOM_WS_QUOTIENT, ATOM_WS_REMAINDER, ATOM_WS_DATAPTR,
               ATOM_WS_SHIFT, ATOM_WS_FB_WINDOW, ATOM_WS_ATTRIBUTES, ATOM_WS_REGPTR
      <3>3. /\ \A m \in Wide : m \in Member /\ Room(m) = Dword
            /\ \A m \in Narrow : m \in Member /\ Room(m) = 0 .. Half - 1
            /\ ATOM_WS_SHIFT \in Member /\ Room(ATOM_WS_SHIFT) = 0 .. Shifts - 1
        BY <3>2 DEF Room, Member
      <3>4. \A m \in Wide : ctx[m] \in Dword
        BY <3>1, <3>3
      <3>5. \A m \in Narrow : ctx[m] \in 0 .. Half - 1
        <4> SUFFICES ASSUME NEW m \in Narrow PROVE ctx[m] \in 0 .. Half - 1
          OBVIOUS
        <4>1. ctx[m] \in Room(m) /\ Room(m) = 0 .. Half - 1
          BY <3>1, <3>3
        <4> QED
          BY <4>1, Zenon
      <3>6. ctx[ATOM_WS_SHIFT] \in 0 .. Shifts - 1
        <4>1. ctx[ATOM_WS_SHIFT] \in Room(ATOM_WS_SHIFT)
          BY <3>1, <3>3
        <4> QED
          BY <3>3, <4>1, Zenon
      <3> QED
        BY <2>1, <3>4, <3>5, <3>6 DEF ContextInv
    <2>6. /\ reg \in [DOMAIN Registers -> Dword]
          /\ {mmIndex, named} \subseteq Dword
          /\ moved \in BOOLEAN
      BY <2>1 DEF CardInv
    <2>7. fb.addr \in 0 .. 2 * Word /\ fb.slot \in 0 .. Word /\ fb.done \in BOOLEAN
      <3>1. Word \in Nat
        BY WordType
      <3>2. CASE fb = NoAccess
        BY <3>1, <3>2 DEF NoAccess
      <3>3. CASE fb # NoAccess
        <4>1. PICK w \in Dword, idx \in Nat : 4 * idx < Word /\ fb = WindowAt(w, idx)
          BY <2>1, <3>3 DEF FbInv
        <4>2. PICK k \in Nat \ {0} : Word = 4 * k
          BY Sizes
        <4> DEFINE q == w \div 4
        <4>3. q \in Nat /\ 4 * q <= w
          <5>1. w \in Nat /\ 4 \in Nat \ {0}
            BY DEF Dword
          <5>2. q \in Nat /\ w % 4 \in 0 .. 4 - 1 /\ w = 4 * q + (w % 4)
            BY <5>1, DivMod
          <5> HIDE DEF q
          <5> QED
            BY <5>1, <5>2
        <4>4. fb.addr = w + 4 * idx /\ fb.slot = q + idx
              /\ fb.done = ~ ((w + 4 * idx) % Word > ScratchSize)
          BY <4>1 DEF WindowAt
        <4> HIDE DEF q
        <4>5. w + 4 * idx \in 0 .. 2 * Word
          BY <3>1, <4>1 DEF Dword
        <4>6. q + idx \in 0 .. Word
          BY <3>1, <4>1, <4>2, <4>3 DEF Dword
        <4>7. fb.done \in BOOLEAN
          BY <4>4
        <4> QED
          BY <4>4, <4>5, <4>6, <4>7
      <3> QED
        BY <3>2, <3>3
    <2> QED
      BY <2>2, <2>3, <2>4, <2>5, <2>6, <2>7 DEF TypeOK
  <1> QED
    BY <1>1, OperandInductive, PTL

-----------------------------------------------------------------------------
(* The digits of a number: a division by a product is two divisions.       *)
LEMMA DivProduct ==
    ASSUME NEW v \in Nat, NEW a \in Nat \ {0}, NEW b \in Nat \ {0}
    PROVE  /\ v % (a * b) = a * ((v \div a) % b) + (v % a)
           /\ v \div (a * b) = (v \div a) \div b
  <1> DEFINE q == v \div a
             r == v % a
             p == q \div b
             s == q % b
             t == a * s + r
  <1>1. q \in Nat /\ r \in 0 .. a - 1 /\ v = a * q + r
    BY DivMod
  <1> HIDE DEF q, r
  <1>2. p \in Nat /\ s \in 0 .. b - 1 /\ q = b * p + s
    BY <1>1, DivMod
  <1> HIDE DEF p, s
  <1>3. a * b \in Nat \ {0}
    OBVIOUS
  <1>4. s \in Nat /\ r \in Nat /\ s + 1 <= b /\ r < a
    BY <1>1, <1>2
  <1>5. t \in 0 .. (a * b) - 1
    <2>1. a * (s + 1) <= a * b
      BY <1>4
    <2>2. a * (s + 1) = a * s + a /\ a * s \in Nat
      BY <1>4
    <2> QED
      BY <1>3, <1>4, <2>1, <2>2
  <1>6. v = (a * b) * p + t
    <2>1. a * (b * p + s) = a * (b * p) + a * s
      BY <1>2, <1>4
    <2>2. a * (b * p) = (a * b) * p
      BY <1>2
    <2>3. (a * b) * p \in Nat /\ a * s \in Nat
      BY <1>2, <1>3, <1>4
    <2> QED
      BY <1>1, <1>2, <1>4, <2>1, <2>2, <2>3
  <1> HIDE DEF t
  <1>7. v \div (a * b) = p /\ v % (a * b) = t
    BY <1>2, <1>3, <1>5, <1>6, DivUnique
  <1> QED
    BY <1>7 DEF p, q, r, s, t

(* The bits of a number from lo on, and those below.                       *)
LEMMA BitsBelow ==
    ASSUME NEW v \in Nat, NEW lo \in Nat, NEW n \in Nat
    PROVE  /\ BitsOf(v, lo, n) \in 0 .. 2 ^ n - 1
           /\ v % 2 ^ (lo + n) = BitsOf(v, lo, n) * 2 ^ lo + (v % 2 ^ lo)
           /\ v % 2 ^ lo \in 0 .. 2 ^ lo - 1
  <1>1. 2 ^ lo \in Nat \ {0} /\ 2 ^ n \in Nat \ {0} /\ 2 ^ (lo + n) = 2 ^ lo * 2 ^ n
    BY Powers, PowerSum
  <1> DEFINE A == 2 ^ lo
             B == 2 ^ n
             b == (v \div A) % B
  <1>2. A \in Nat \ {0} /\ B \in Nat \ {0} /\ 2 ^ (lo + n) = A * B
    BY <1>1
  <1> HIDE DEF A, B
  <1>3. v \div A \in Nat
    BY <1>2, DivMod
  <1>4. b \in 0 .. B - 1 /\ v % A \in 0 .. A - 1
    BY <1>2, <1>3, DivMod
  <1>5. v % (A * B) = A * b + (v % A)
    BY <1>2, DivProduct
  <1>6. A * b = b * A
    BY <1>2, <1>4
  <1> QED
    BY <1>2, <1>4, <1>5, <1>6 DEF A, B, BitsOf

(* A number shifted up has its bits there, as far as the word goes.        *)
LEMMA BitsShifted ==
    ASSUME NEW v \in Nat, NEW lo \in Nat, NEW n \in Nat, lo + n <= WordBits
    PROVE  BitsOf((v * 2 ^ lo) % Word, lo, n) = v % 2 ^ n
  <1> DEFINE A == 2 ^ lo
             B == 2 ^ n
             C == 2 ^ (WordBits - lo - n)
             r == v % (B * C)
  <1>1. WordBits - lo - n \in Nat /\ (lo + n) + (WordBits - lo - n) = WordBits /\ lo + n \in Nat
    BY WordType
  <1>2. A \in Nat \ {0} /\ B \in Nat \ {0} /\ C \in Nat \ {0}
    BY <1>1, Powers
  <1>3. Word = (A * B) * C
    <2>1. 2 ^ (lo + n) = A * B
      BY PowerSum
    <2>2. 2 ^ WordBits = 2 ^ (lo + n) * C
      BY <1>1, PowerSum
    <2> QED
      BY <2>1, <2>2 DEF Word
  <1>4. BitsOf((v * 2 ^ lo) % Word, lo, n) = (((v * A) % Word) \div A) % B
    BY DEF BitsOf
  <1>5. 2 ^ n = B
    OBVIOUS
  <1> HIDE DEF A, B, C
  <1>6. Word = A * (B * C) /\ B * C \in Nat \ {0}
    BY <1>2, <1>3
  <1>7. v * A \in Nat /\ v * A = A * v + 0 /\ 0 \in 0 .. A - 1
    BY <1>2
  <1>8. (v * A) \div A = v /\ (v * A) % A = 0
    BY <1>2, <1>7, DivUnique
  <1>9. r \in Nat
    <2>1. r \in 0 .. (B * C) - 1
      BY <1>6, DivMod
    <2> QED
      BY <2>1
  <1>10. (v * A) % (A * (B * C)) = A * r + 0
    <2> DEFINE x == v * A
               y == B * C
    <2>1. x \in Nat /\ y \in Nat \ {0} /\ x \div A = v /\ x % A = 0
      BY <1>6, <1>7, <1>8
    <2> HIDE DEF x, y
    <2>2. x % (A * y) = A * ((x \div A) % y) + (x % A)
      BY <1>2, <2>1, DivProduct
    <2>3. x % (A * y) = A * (v % y) + 0
      BY <2>1, <2>2
    <2> QED
      BY <2>3 DEF x, y
  <1>11. (A * r + 0) \div A = r
    BY <1>2, <1>7, <1>9, DivUnique
  <1>12. r = B * ((v \div B) % C) + (v % B)
    BY <1>2, DivProduct
  <1>13. v \div B \in Nat /\ v % B \in 0 .. B - 1
    BY <1>2, DivMod
  <1>14. (v \div B) % C \in 0 .. C - 1
    BY <1>2, <1>13, DivMod
  <1>15. (v \div B) % C \in Nat
    BY <1>14
  <1>16. (B * ((v \div B) % C) + (v % B)) % B = v % B
    BY <1>2, <1>13, <1>15, DivUnique
  <1> QED
    BY <1>4, <1>5, <1>6, <1>10, <1>11, <1>12, <1>16

LEMMA IntegerMod ==
    ASSUME NEW a \in Int, NEW b \in Nat \ {0}
    PROVE  a \div b \in Int /\ a % b \in 0 .. b - 1 /\ a = b * (a \div b) + (a % b)
  <1>1. a \div b \in Int /\ a % b \in 0 .. b - 1
    OBVIOUS
  <1>2. a = b * (a \div b) + (a % b)
    BY SMTT(30)
  <1> QED
    BY <1>1, <1>2

LEMMA ModuloIs ==
    ASSUME NEW a \in Int, NEW b \in Nat \ {0}, NEW q \in Int, NEW r \in 0 .. b - 1,
           a = b * q + r
    PROVE  a % b = r
  <1> DEFINE p == a \div b
             s == a % b
  <1>1. p \in Int /\ s \in 0 .. b - 1 /\ a = b * p + s
    BY IntegerMod
  <1> HIDE DEF p, s
  <1>2. \A x, y \in Int : x < y => b * x + b <= b * y
    <2> SUFFICES ASSUME NEW x \in Int, NEW y \in Int, x < y PROVE b * x + b <= b * y
      OBVIOUS
    <2>1. y - x \in Nat \ {0} /\ y = x + (y - x)
      OBVIOUS
    <2>2. \A k \in Nat \ {0} : b <= b * k
      OBVIOUS
    <2>3. \A k \in Nat \ {0} : b * (x + k) = b * x + b * k
      OBVIOUS
    <2>4. b * x \in Int
      OBVIOUS
    <2>5. b <= b * (y - x) /\ b * y = b * x + b * (y - x)
      BY <2>1, <2>2, <2>3
    <2>6. b * (y - x) \in Int
      BY <2>1
    <2> QED
      BY <2>4, <2>5, <2>6
  <1>3. b * p \in Int /\ b * q \in Int
    BY <1>1
  <1>4. ~ (p < q)
    BY <1>1, <1>2, <1>3
  <1>5. ~ (q < p)
    BY <1>1, <1>2, <1>3
  <1>6. p = q
    BY <1>1, <1>4, <1>5
  <1>7. s = r
    BY <1>1, <1>3, <1>6
  <1> QED
    BY <1>7 DEF s

(* What does not fit into a word is no matter to its lanes.                *)
LEMMA LaneOfWord ==
    ASSUME NEW x \in Int, NEW n \in Nat, n <= WordBits
    PROVE  (x % Word) % 2 ^ n = x % 2 ^ n
  <1> DEFINE A == 2 ^ n
             C == 2 ^ (WordBits - n)
             q == x \div Word
             r == x % Word
             t == r \div A
             u == r % A
  <1>1. WordBits - n \in Nat /\ n + (WordBits - n) = WordBits
    BY WordType
  <1>2. A \in Nat \ {0} /\ C \in Nat \ {0} /\ Word = A * C
    BY <1>1, Powers, PowerSum DEF Word
  <1>3. q \in Int /\ r \in 0 .. Word - 1 /\ x = Word * q + r
    BY WordType, IntegerMod
  <1> HIDE DEF A, C, q, r
  <1>4. r \in Nat
    BY <1>3
  <1>5. t \in Nat /\ u \in 0 .. A - 1 /\ r = A * t + u
    BY <1>2, <1>4, DivMod
  <1> HIDE DEF t, u
  <1>6. x = A * (C * q + t) + u
    <2>1. (A * C) * q = A * (C * q) /\ C * q \in Int
      BY <1>2, <1>3
    <2>2. A * (C * q + t) = A * (C * q) + A * t
      BY <1>2, <1>5, <2>1
    <2>3. A * (C * q) \in Int /\ A * t \in Int
      BY <1>2, <1>5, <2>1
    <2> QED
      BY <1>2, <1>3, <1>5, <2>1, <2>2, <2>3
  <1>7. C * q + t \in Int
    BY <1>2, <1>3, <1>5
  <1>8. x % A = u
    BY <1>2, <1>5, <1>6, <1>7, ModuloIs
  <1> QED
    BY <1>8 DEF A, r, u

-----------------------------------------------------------------------------
(* A number is the one sum of its bits.                                    *)
LEMMA NumberIs ==
    ASSUME NEW ones, NEW g, g[0] = 0,
           \A n \in 1 .. WordBits : g[n] = g[n - 1] + Worth(ones, n - 1)
    PROVE  Number(ones) = g[WordBits]
  <1>1. PICK f : Sums(f, ones) /\ Number(ones) = f[WordBits]
    BY NumberSums
  <1> DEFINE T == {n \in Nat : n <= WordBits => f[n] = g[n]}
  <1>2. 0 \in T
    BY <1>1 DEF Sums
  <1>3. \A n \in T : n + 1 \in T
    <2> SUFFICES ASSUME NEW n \in Nat, n + 1 <= WordBits, f[n] = g[n]
                 PROVE  f[n + 1] = g[n + 1]
      BY WordType
    <2>1. n + 1 \in 1 .. WordBits /\ (n + 1) - 1 = n
      BY WordType
    <2>2. f[n + 1] = f[n] + Worth(ones, n)
      BY <1>1, <2>1 DEF Sums
    <2>3. g[n + 1] = g[n] + Worth(ones, n)
      BY <2>1
    <2> QED
      BY <2>2, <2>3
  <1>4. T = Nat
    <2> HIDE DEF T
    <2>1. T \in SUBSET Nat
      BY DEF T
    <2> QED
      BY <1>2, <1>3, <2>1, Induction
  <1> QED
    BY <1>1, <1>4, WordType

(* Different bits make different numbers.                                  *)
LEMMA NumberOnce ==
    ASSUME NEW A \in SUBSET (0 .. WordBits - 1), NEW B \in SUBSET (0 .. WordBits - 1),
           Number(A) = Number(B)
    PROVE  A = B
  <1>1. PICK f : Sums(f, A) /\ Number(A) = f[WordBits]
    BY NumberSums
  <1>2. PICK g : Sums(g, B) /\ Number(B) = g[WordBits]
    BY NumberSums
  <1> DEFINE N == WordBits
             T == {k \in Nat : k <= N => f[N - k] = g[N - k]}
  <1>3. N \in Nat
    BY WordType
  <1>4. 0 \in T
    <2>1. N - 0 = N
      BY <1>3
    <2>2. f[N - 0] = g[N - 0]
      BY <1>1, <1>2, <2>1
    <2> QED
      BY <2>2
  <1>5. \A n \in 1 .. N : f[n] = g[n] => f[n - 1] = g[n - 1] /\ (n - 1 \in A <=> n - 1 \in B)
    <2> SUFFICES ASSUME NEW n \in 1 .. N, f[n] = g[n]
                 PROVE  f[n - 1] = g[n - 1] /\ (n - 1 \in A <=> n - 1 \in B)
      OBVIOUS
    <2>1. n - 1 \in 0 .. N /\ n - 1 \in Nat
      BY <1>3
    <2>2. f[n] = f[n - 1] + Worth(A, n - 1) /\ f[n - 1] \in Nat /\ f[n - 1] < 2 ^ (n - 1)
      BY <1>1, <2>1 DEF Sums
    <2>3. g[n] = g[n - 1] + Worth(B, n - 1) /\ g[n - 1] \in Nat /\ g[n - 1] < 2 ^ (n - 1)
      BY <1>2, <2>1 DEF Sums
    <2>4. 2 ^ (n - 1) \in Nat
      BY <2>1, Powers
    <2>5. \/ n - 1 \in A /\ Worth(A, n - 1) = 2 ^ (n - 1)
          \/ n - 1 \notin A /\ Worth(A, n - 1) = 0
      BY DEF Worth
    <2>6. \/ n - 1 \in B /\ Worth(B, n - 1) = 2 ^ (n - 1)
          \/ n - 1 \notin B /\ Worth(B, n - 1) = 0
      BY DEF Worth
    <2> DEFINE p == 2 ^ (n - 1)
               x == f[n - 1]
               y == g[n - 1]
               a == Worth(A, n - 1)
               b == Worth(B, n - 1)
    <2>7. p \in Nat /\ x \in Nat /\ y \in Nat /\ x < p /\ y < p /\ x + a = y + b
      BY <2>2, <2>3, <2>4
    <2>8. a \in {0, p} /\ b \in {0, p}
      BY <2>5, <2>6
    <2>9. x = y
      <3> HIDE DEF p, x, y, a, b
      <3> QED
        BY <2>7, <2>8
    <2>10. a = b /\ p # 0
      <3> HIDE DEF p, x, y, a, b
      <3> QED
        BY <2>7, <2>8
    <2> QED
      BY <2>5, <2>6, <2>9, <2>10
  <1> HIDE DEF N
  <1>6. \A k \in T : k + 1 \in T
    <2> SUFFICES ASSUME NEW k \in T, k + 1 <= N
                 PROVE  f[N - (k + 1)] = g[N - (k + 1)]
      OBVIOUS
    <2>0. k \in Nat /\ (k <= N => f[N - k] = g[N - k]) /\ k <= N
      BY <1>3
    <2>1. N - k \in 1 .. N /\ (N - k) - 1 = N - (k + 1)
      BY <1>3, <2>0
    <2> QED
      BY <1>5, <2>0, <2>1
  <1>7. T = Nat
    <2> HIDE DEF T
    <2>1. T \in SUBSET Nat
      BY DEF T
    <2> QED
      BY <1>4, <1>6, <2>1, Induction
  <1>8. \A n \in 1 .. N : f[n] = g[n]
    <2> SUFFICES ASSUME NEW n \in 1 .. N PROVE f[n] = g[n]
      OBVIOUS
    <2>1. N - n \in Nat /\ N - n <= N /\ N - (N - n) = n
      BY <1>3
    <2>2. N - n \in T
      BY <1>7, <2>1
    <2> QED
      BY <2>1, <2>2
  <1>9. \A k \in 0 .. N - 1 : k \in A <=> k \in B
    <2> SUFFICES ASSUME NEW k \in 0 .. N - 1 PROVE k \in A <=> k \in B
      OBVIOUS
    <2>1. k + 1 \in 1 .. N /\ (k + 1) - 1 = k
      BY <1>3
    <2> QED
      BY <1>5, <1>8, <2>1
  <1> QED
    BY <1>9 DEF N

(* Bits that are not the same ones add up.                                 *)
LEMMA NumberSum ==
    ASSUME NEW A, NEW B, A \cap B = {}
    PROVE  Number(A \cup B) = Number(A) + Number(B)
  <1>1. PICK f : Sums(f, A) /\ Number(A) = f[WordBits]
    BY NumberSums
  <1>2. PICK g : Sums(g, B) /\ Number(B) = g[WordBits]
    BY NumberSums
  <1> DEFINE h == [n \in 0 .. WordBits |-> f[n] + g[n]]
  <1>3. h[0] = 0
    BY <1>1, <1>2, WordType DEF Sums
  <1>4. \A n \in 1 .. WordBits : h[n] = h[n - 1] + Worth(A \cup B, n - 1)
    <2> SUFFICES ASSUME NEW n \in 1 .. WordBits
                 PROVE  h[n] = h[n - 1] + Worth(A \cup B, n - 1)
      OBVIOUS
    <2>1. n \in 0 .. WordBits /\ n - 1 \in 0 .. WordBits /\ n - 1 \in Nat
      BY WordType
    <2>2. f[n] = f[n - 1] + Worth(A, n - 1) /\ f[n - 1] \in Nat
      BY <1>1, <2>1 DEF Sums
    <2>3. g[n] = g[n - 1] + Worth(B, n - 1) /\ g[n - 1] \in Nat
      BY <1>2, <2>1 DEF Sums
    <2>4. Worth(A, n - 1) \in Nat /\ Worth(B, n - 1) \in Nat
      BY <2>1, WorthType
    <2>5. Worth(A \cup B, n - 1) = Worth(A, n - 1) + Worth(B, n - 1)
      <3>1. 2 ^ (n - 1) \in Nat
        BY <2>1, Powers
      <3> QED
        BY <3>1 DEF Worth
    <2>6. h[n] = f[n] + g[n] /\ h[n - 1] = f[n - 1] + g[n - 1]
      BY <2>1
    <2> HIDE DEF h
    <2> QED
      BY <2>2, <2>3, <2>4, <2>5, <2>6
  <1>5. Number(A \cup B) = h[WordBits]
    <2> HIDE DEF h
    <2> QED
      BY <1>3, <1>4, NumberIs
  <1>6. h[WordBits] = f[WordBits] + g[WordBits]
    BY WordType
  <1> QED
    BY <1>1, <1>2, <1>5, <1>6

(* What the bits below n are worth, for every n.                           *)
Grows(below, all) ==
    /\ \A n \in Nat : below[n] \in Nat
    /\ \A n \in 0 .. WordBits - 1 : below[n + 1] = below[n] + Worth(all, n)

(* The bits from lo to hi are what is below hi without what is below lo.   *)
LEMMA NumberPart ==
    ASSUME NEW all, NEW lo \in Nat, NEW hi \in Nat, lo <= hi, hi <= WordBits,
           NEW below, Grows(below, all)
    PROVE  Number(all \cap (lo .. hi - 1)) = below[hi] - below[lo]
  <1> DEFINE S == all \cap (lo .. hi - 1)
             g == [n \in 0 .. WordBits |->
                      IF n <= lo THEN 0
                      ELSE IF n <= hi THEN below[n] - below[lo] ELSE below[hi] - below[lo]]
  <1>1. \A n \in Nat : below[n] \in Nat
    BY DEF Grows
  <1>2. \A n \in 0 .. WordBits - 1 : below[n + 1] = below[n] + Worth(all, n)
    BY DEF Grows
  <1>3. g[0] = 0
    BY WordType
  <1>4. \A n \in 1 .. WordBits : g[n] = g[n - 1] + Worth(S, n - 1)
    <2> SUFFICES ASSUME NEW n \in 1 .. WordBits PROVE g[n] = g[n - 1] + Worth(S, n - 1)
      OBVIOUS
    <2>1. n \in 0 .. WordBits /\ n - 1 \in 0 .. WordBits - 1 /\ n - 1 \in 0 .. WordBits
          /\ (n - 1) + 1 = n
      BY WordType
    <2>2. below[n] = below[n - 1] + Worth(all, n - 1)
      BY <1>2, <2>1
    <2>3. below[n - 1] \in Nat /\ Worth(all, n - 1) \in Nat /\ below[lo] \in Nat
          /\ below[hi] \in Nat
      BY <1>1, <2>1, WorthType
    <2>4. Worth(S, n - 1) = IF n - 1 \in lo .. hi - 1 THEN Worth(all, n - 1) ELSE 0
      BY DEF Worth
    <2>5. n - 1 \in lo .. hi - 1 <=> lo < n /\ n <= hi
      BY <2>1
    <2>6. g[n] = IF n <= lo THEN 0
                 ELSE IF n <= hi THEN below[n] - below[lo] ELSE below[hi] - below[lo]
      BY <2>1
    <2>7. g[n - 1] = IF n - 1 <= lo THEN 0
                     ELSE IF n - 1 <= hi THEN below[n - 1] - below[lo]
                     ELSE below[hi] - below[lo]
      BY <2>1
    <2> HIDE DEF g, S
    <2>8. CASE n <= lo
      BY <2>4, <2>5, <2>6, <2>7, <2>8
    <2>9. CASE lo < n /\ n <= hi
      <3>1. n - 1 <= lo => n - 1 = lo
        BY <2>9
      <3>2. g[n] = below[n] - below[lo] /\ Worth(S, n - 1) = Worth(all, n - 1)
        BY <2>4, <2>5, <2>6, <2>9
      <3>3. g[n - 1] = below[n - 1] - below[lo]
        BY <2>3, <2>7, <2>9, <3>1
      <3> QED
        BY <2>2, <2>3, <3>2, <3>3
    <2>10. CASE hi < n
      <3>1. n - 1 <= hi => n - 1 = hi
        BY <2>10
      <3>2. g[n] = below[hi] - below[lo] /\ Worth(S, n - 1) = 0
        BY <2>4, <2>5, <2>6, <2>10
      <3>3. g[n - 1] = below[hi] - below[lo]
        <4>1. CASE n - 1 <= lo
          <5>1. n - 1 = lo /\ lo = hi
            BY <2>10, <4>1
          <5> QED
            BY <2>3, <2>7, <4>1, <5>1
        <4>2. CASE ~ (n - 1 <= lo)
          BY <2>7, <3>1, <4>2
        <4> QED
          BY <4>1, <4>2
      <3> QED
        BY <2>3, <3>2, <3>3
    <2> QED
      BY <2>8, <2>9, <2>10
  <1>5. Number(S) = g[WordBits]
    <2> HIDE DEF g, S
    <2> QED
      BY <1>3, <1>4, NumberIs
  <1>6. g[WordBits] = below[hi] - below[lo]
    <2>1. WordBits \in 0 .. WordBits
      BY WordType
    <2>2. g[WordBits] = IF WordBits <= lo THEN 0
                        ELSE IF WordBits <= hi THEN below[WordBits] - below[lo]
                        ELSE below[hi] - below[lo]
      BY <2>1
    <2>3. WordBits <= hi => WordBits = hi
      BY WordType
    <2>4. WordBits <= lo => lo = hi
      BY WordType
    <2>5. below[hi] \in Nat
      BY <1>1
    <2> HIDE DEF g
    <2> QED
      BY <2>2, <2>3, <2>4, <2>5
  <1> QED
    BY <1>5, <1>6

(* The bits of v from lo to hi are v without what is above and below.      *)
LEMMA NumberBetween ==
    ASSUME NEW v \in Nat, NEW lo \in Nat, NEW hi \in Nat, lo <= hi, hi <= WordBits
    PROVE  Number(Ones(v) \cap (lo .. hi - 1)) = (v % 2 ^ hi) - (v % 2 ^ lo)
  <1> DEFINE below(n) == v % 2 ^ n
             f == [n \in Nat |-> below(n)]
  <1>1. \A n \in Nat : below(n) \in Nat
    <2>1. \A n \in Nat : v % 2 ^ n \in 0 .. 2 ^ n - 1
      BY BitsBelow
    <2> QED
      BY <2>1
  <1>2. \A n \in 0 .. WordBits - 1 : below(n + 1) = below(n) + Worth(Ones(v), n)
    <2> SUFFICES ASSUME NEW n \in 0 .. WordBits - 1
                 PROVE  below(n + 1) = below(n) + Worth(Ones(v), n)
      OBVIOUS
    <2>1. n \in Nat /\ 1 \in Nat /\ 2 ^ 1 = 2
      OBVIOUS
    <2>2. /\ BitsOf(v, n, 1) \in 0 .. 2 ^ 1 - 1
          /\ v % 2 ^ (n + 1) = BitsOf(v, n, 1) * 2 ^ n + (v % 2 ^ n)
      BY <2>1, BitsBelow
    <2>3. BitsOf(v, n, 1) \in {0, 1}
      BY <2>1, <2>2
    <2>4. n \in Ones(v) <=> BitsOf(v, n, 1) = 1
      BY DEF Ones
    <2>5. 2 ^ n \in Nat
      BY <2>1, Powers
    <2>6. BitsOf(v, n, 1) * 2 ^ n = Worth(Ones(v), n)
      BY <2>3, <2>4, <2>5 DEF Worth
    <2>7. Worth(Ones(v), n) \in Nat
      BY <2>1, WorthType
    <2>8. below(n + 1) = Worth(Ones(v), n) + below(n) /\ below(n) \in Nat
      BY <1>1, <2>1, <2>2, <2>6
    <2> HIDE DEF below
    <2> QED
      BY <2>7, <2>8
  <1>3. \A n \in Nat : f[n] \in Nat
    BY <1>1
  <1>4. \A n \in 0 .. WordBits - 1 : f[n + 1] = f[n] + Worth(Ones(v), n)
    <2>1. \A n \in 0 .. WordBits - 1 : n \in Nat /\ n + 1 \in Nat
      OBVIOUS
    <2> HIDE DEF below
    <2> QED
      BY <1>2, <2>1
  <1>5. f[hi] = v % 2 ^ hi /\ f[lo] = v % 2 ^ lo
    OBVIOUS
  <1> DEFINE all == Ones(v)
  <1>6. \A n \in 0 .. WordBits - 1 : f[n + 1] = f[n] + Worth(all, n)
    BY <1>4
  <1> HIDE DEF f, all
  <1>7. Number(all \cap (lo .. hi - 1)) = f[hi] - f[lo]
    <2>1. Grows(f, all)
      BY <1>3, <1>6 DEF Grows
    <2> QED
      BY <2>1, NumberPart
  <1> QED
    BY <1>5, <1>7 DEF all

LEMMA NumberRange ==
    ASSUME NEW lo \in Nat, NEW hi \in Nat, lo <= hi, hi <= WordBits
    PROVE  Number(lo .. hi - 1) = 2 ^ hi - 2 ^ lo
  <1> DEFINE all == 0 .. WordBits - 1
             f == [n \in Nat |-> 2 ^ n]
  <1>1. \A n \in Nat : f[n] \in Nat
    BY Powers
  <1>2. \A n \in 0 .. WordBits - 1 : f[n + 1] = f[n] + Worth(all, n)
    <2>1. \A n \in 0 .. WordBits - 1 : n \in Nat /\ n + 1 \in Nat
      OBVIOUS
    <2>2. \A n \in Nat : 2 ^ (n + 1) = 2 ^ n + 2 ^ n
      BY TwoExp
    <2>3. \A n \in 0 .. WordBits - 1 : Worth(all, n) = 2 ^ n
      BY DEF Worth
    <2> QED
      BY <2>1, <2>2, <2>3
  <1>3. f[hi] = 2 ^ hi /\ f[lo] = 2 ^ lo
    OBVIOUS
  <1>4. all \cap (lo .. hi - 1) = lo .. hi - 1
    BY WordType
  <1> HIDE DEF f, all
  <1>5. Number(all \cap (lo .. hi - 1)) = f[hi] - f[lo]
    <2>1. Grows(f, all)
      BY <1>1, <1>2 DEF Grows
    <2> QED
      BY <2>1, NumberPart
  <1> QED
    BY <1>3, <1>4, <1>5

(* A word is the number of its bits, and a number has the bits that it is  *)
(* made of.                                                                *)
LEMMA NumberOfOnes ==
    ASSUME NEW v \in Dword
    PROVE  Number(Ones(v)) = v
  <1>1. v \in Nat /\ v < 2 ^ WordBits /\ 0 \in Nat /\ WordBits \in Nat /\ 0 <= WordBits
    BY WordType DEF Dword, Word
  <1>2. Number(Ones(v) \cap (0 .. WordBits - 1)) = (v % 2 ^ WordBits) - (v % 2 ^ 0)
    <2> DEFINE lo == 0
               hi == WordBits
    <2>1. lo \in Nat /\ hi \in Nat /\ lo <= hi /\ hi <= WordBits
      BY <1>1
    <2> HIDE DEF lo, hi
    <2>2. Number(Ones(v) \cap (lo .. hi - 1)) = (v % 2 ^ hi) - (v % 2 ^ lo)
      BY <1>1, <2>1, NumberBetween
    <2> QED
      BY <2>2 DEF lo, hi
  <1>3. Ones(v) \cap (0 .. WordBits - 1) = Ones(v)
    BY DEF Ones
  <1>4. v % 2 ^ 0 = 0
    <2>1. 2 ^ 0 = 1
      OBVIOUS
    <2> QED
      BY <1>1, <2>1
  <1>5. v % 2 ^ WordBits = v
    <2>1. 2 ^ WordBits \in Nat \ {0}
      BY <1>1, Powers
    <2>2. v = 2 ^ WordBits * 0 + v /\ v \in 0 .. 2 ^ WordBits - 1
      BY <1>1, <2>1
    <2> QED
      BY <2>1, <2>2, ModuloIs
  <1>6. Number(Ones(v)) = v - 0
    BY <1>2, <1>3, <1>4, <1>5
  <1> QED
    BY <1>1, <1>6

LEMMA OnesOfNumber ==
    ASSUME NEW S \in SUBSET (0 .. WordBits - 1)
    PROVE  Ones(Number(S)) = S
  <1>1. Ones(Number(S)) \in SUBSET (0 .. WordBits - 1)
    BY DEF Ones
  <1>2. Number(Ones(Number(S))) = Number(S)
    BY NumberType, NumberOfOnes
  <1> QED
    BY <1>1, <1>2, NumberOnce

-----------------------------------------------------------------------------
(* & and | of words, by their bits.                                        *)
LEMMA OnesOfAnd ==
    ASSUME NEW v, NEW w
    PROVE  Ones(And(v, w)) = Ones(v) \cap Ones(w)
  <1>1. Ones(v) \cap Ones(w) \in SUBSET (0 .. WordBits - 1)
    BY DEF Ones
  <1> QED
    BY <1>1, OnesOfNumber DEF And

(* The bits of a lane are in the word, and its mask has these.             *)
LEMMA LaneBits ==
    ASSUME NEW a \in Align
    PROVE  /\ Low(a) \in Nat /\ Width(a) \in Nat /\ Low(a) + Width(a) <= WordBits
           /\ Width(a) <= WordBits
           /\ ShiftOf[a] = Low(a)
           /\ Mask[a] = 2 ^ (Low(a) + Width(a)) - 2 ^ Low(a)
  <1> DEFINE B == ByteBits
  <1>1. B \in Nat /\ WordBits = B * 4
    BY ByteAssumption DEF WordBits
  <1>2. a \in {0, 1, 2, 3, 4, 5, 6, 7}
    BY DEF Align, Words, Bytes, DWORD
  <1>3. Low(a) = B * <<0, 0, 1, 2, 0, 1, 2, 3>>[a + 1]
    BY <1>2 DEF Low, Words, Bytes, DWORD
  <1>4. Width(a) = B * <<4, 2, 2, 2, 1, 1, 1, 1>>[a + 1]
    BY <1>2 DEF Width, Words, Bytes, DWORD
  <1>5. ShiftOf[a] = B * <<0, 0, 1, 2, 0, 1, 2, 3>>[a + 1]
    BY DEF ShiftOf
  <1>6. Mask[a] = ByteMask(<<0, 0, 1, 2, 0, 1, 2, 3>>[a + 1], <<3, 1, 2, 3, 0, 1, 2, 3>>[a + 1])
    BY <1>2 DEF Mask, Words, Bytes, DWORD
  <1> DEFINE l == <<0, 0, 1, 2, 0, 1, 2, 3>>[a + 1]
             w == <<4, 2, 2, 2, 1, 1, 1, 1>>[a + 1]
             h == <<3, 1, 2, 3, 0, 1, 2, 3>>[a + 1]
  <1>7. l \in Nat /\ w \in Nat /\ h \in Nat /\ h + 1 = l + w /\ l + w <= 4 /\ w <= 4
    BY <1>2
  <1>8. /\ Low(a) = B * l /\ Width(a) = B * w /\ ShiftOf[a] = B * l
        /\ Mask[a] = 2 ^ (B * (h + 1)) - 2 ^ (B * l)
    BY <1>3, <1>4, <1>5, <1>6 DEF ByteMask
  <1> HIDE DEF B, l, w, h
  <1>9. \A n \in Nat : B * n \in Nat
    BY <1>1
  <1>10. \A m, n \in Nat : m <= n => B * m <= B * n
    BY <1>1
  <1>11. B * (l + w) = B * l + B * w
    BY <1>1, <1>7
  <1>12. B * l \in Nat /\ B * w \in Nat
    BY <1>7, <1>9
  <1>13. B * (l + w) <= B * 4 /\ B * w <= B * 4
    BY <1>7, <1>10
  <1>14. Mask[a] = 2 ^ (B * l + B * w) - 2 ^ (B * l)
    BY <1>7, <1>8, <1>11
  <1> QED
    BY <1>1, <1>8, <1>11, <1>12, <1>13, <1>14

(* The bits of a lane, and that its mask is made of them.                  *)
LaneSet(a) == Low(a) .. (Low(a) + Width(a)) - 1

LEMMA MaskBits ==
    ASSUME NEW a \in Align
    PROVE  /\ LaneSet(a) \in SUBSET (0 .. WordBits - 1)
           /\ Mask[a] = Number(LaneSet(a))
           /\ Ones(Mask[a]) = LaneSet(a)
           /\ Ones(Word - 1 - Mask[a]) = (0 .. WordBits - 1) \ LaneSet(a)
  <1> DEFINE lo == Low(a)
             hi == Low(a) + Width(a)
             all == 0 .. WordBits - 1
             S == LaneSet(a)
  <1>1. lo \in Nat /\ hi \in Nat /\ lo <= hi /\ hi <= WordBits /\ Mask[a] = 2 ^ hi - 2 ^ lo
    BY LaneBits
  <1>2. S = lo .. hi - 1
    BY <1>1, Zenon DEF LaneSet
  <1> HIDE DEF lo, hi, S
  <1>3. S \in SUBSET all
    BY <1>1, <1>2, WordType
  <1>4. Mask[a] = Number(S)
    BY <1>1, <1>2, NumberRange
  <1>5. Ones(Mask[a]) = S
    BY <1>3, <1>4, OnesOfNumber
  <1>6. Number(all) = Word - 1
    <2> DEFINE l == 0
               h == WordBits
    <2>1. l \in Nat /\ h \in Nat /\ l <= h /\ h <= WordBits
      BY WordType
    <2> HIDE DEF l, h
    <2>2. Number(l .. h - 1) = 2 ^ h - 2 ^ l
      BY <2>1, NumberRange
    <2>3. 2 ^ l = 1
      BY DEF l
    <2> QED
      BY <2>2, <2>3 DEF l, h, Word
  <1> HIDE DEF all
  <1>7. Number(all) = Number(S) + Number(all \ S)
    <2>1. S \cap (all \ S) = {} /\ S \cup (all \ S) = all
      BY <1>3
    <2>2. Number(S \cup (all \ S)) = Number(S) + Number(all \ S)
      BY <2>1, NumberSum
    <2> QED
      BY <2>1, <2>2
  <1>8. Number(S) \in Nat /\ Number(all \ S) \in Nat
    BY NumberType, WordType DEF Dword
  <1>9. Word - 1 - Mask[a] = Number(all \ S)
    BY <1>4, <1>6, <1>7, <1>8
  <1>10. Ones(Word - 1 - Mask[a]) = all \ S
    BY <1>9, OnesOfNumber DEF all
  <1> QED
    BY <1>3, <1>4, <1>5, <1>10 DEF S, all

(* What a lane of a word is worth in it, and the rest of the word.         *)
LEMMA MaskedIs ==
    ASSUME NEW v \in Dword, NEW a \in Align
    PROVE  /\ And(v, Mask[a]) = Listed(v, a) * 2 ^ Low(a)
           /\ And(v, Word - 1 - Mask[a]) = v - Listed(v, a) * 2 ^ Low(a)
           /\ Listed(v, a) \in 0 .. 2 ^ Width(a) - 1
           /\ Listed(v, a) * 2 ^ Low(a) \in Nat
  <1> DEFINE lo == Low(a)
             wd == Width(a)
             S == LaneSet(a)
             all == 0 .. WordBits - 1
             b == BitsOf(v, lo, wd)
             x == Number(Ones(v) \cap S)
             y == Number(Ones(v) \ S)
  <1>1. lo \in Nat /\ wd \in Nat /\ lo + wd <= WordBits /\ v \in Nat
    BY LaneBits, WordType DEF Dword
  <1>2. S = lo .. (lo + wd) - 1 /\ Listed(v, a) = b
    BY <1>1, Zenon DEF LaneSet, Listed
  <1>3. And(v, Mask[a]) = x
    BY MaskBits DEF And
  <1>4. And(v, Word - 1 - Mask[a]) = y
    <2>1. Ones(v) \cap (all \ S) = Ones(v) \ S
      BY DEF Ones
    <2>2. Ones(Word - 1 - Mask[a]) = all \ S
      BY MaskBits
    <2> HIDE DEF S, all
    <2> QED
      BY <2>1, <2>2 DEF And
  <1>5. v = x + y
    <2>1. Number(Ones(v)) = v
      BY NumberOfOnes
    <2> HIDE DEF S
    <2>2. (Ones(v) \cap S) \cap (Ones(v) \ S) = {}
          /\ (Ones(v) \cap S) \cup (Ones(v) \ S) = Ones(v)
      OBVIOUS
    <2>3. Number((Ones(v) \cap S) \cup (Ones(v) \ S)) = x + y
      BY <2>2, NumberSum
    <2> QED
      BY <2>1, <2>2, <2>3
  <1>6. x \in Nat /\ y \in Nat
    BY NumberType, WordType DEF Dword
  <1> HIDE DEF lo, wd, S, b, y
  <1>7. x = b * 2 ^ lo
    <2>1. /\ b \in 0 .. 2 ^ wd - 1
          /\ v % 2 ^ (lo + wd) = b * 2 ^ lo + (v % 2 ^ lo)
          /\ v % 2 ^ lo \in 0 .. 2 ^ lo - 1
      BY <1>1, BitsBelow DEF b
    <2> DEFINE hi == lo + wd
    <2>2. hi \in Nat /\ lo <= hi /\ hi <= WordBits
      BY <1>1
    <2>3. S = lo .. hi - 1 /\ v % 2 ^ hi = b * 2 ^ lo + (v % 2 ^ lo)
      BY <1>2, <2>1
    <2> HIDE DEF hi
    <2>4. x = (v % 2 ^ hi) - (v % 2 ^ lo)
      BY <1>1, <2>2, <2>3, NumberBetween
    <2>5. 2 ^ lo \in Nat /\ 2 ^ wd \in Nat
      BY <1>1, Powers
    <2>6. b \in Nat
      BY <2>1, <2>5
    <2>7. b * 2 ^ lo \in Nat
      BY <2>5, <2>6
    <2>8. v % 2 ^ lo \in Nat
      BY <2>1
    <2> HIDE DEF x
    <2> QED
      BY <2>3, <2>4, <2>7, <2>8
  <1>8. b \in 0 .. 2 ^ wd - 1
    BY <1>1, BitsBelow DEF b
  <1> HIDE DEF x
  <1> QED
    BY <1>2, <1>3, <1>4, <1>5, <1>6, <1>7, <1>8 DEF lo, wd

(* The lane that the code cuts out of a word is the one that the listing   *)
(* names.                                                                  *)
LEMMA LaneIs ==
    ASSUME NEW v \in Dword, NEW a \in Align
    PROVE  Lane(v, a) = Listed(v, a)
  <1> DEFINE x == Listed(v, a)
             A == 2 ^ Low(a)
  <1>1. A \in Nat \ {0} /\ 2 ^ Width(a) \in Nat
    BY LaneBits, Powers
  <1>2. x \in Nat
    BY <1>1, MaskedIs
  <1>3. Lane(v, a) = (x * A) \div A
    BY MaskedIs, LaneBits DEF Lane
  <1> HIDE DEF x, A
  <1>4. x * A = A * x + 0 /\ 0 \in 0 .. A - 1
    BY <1>1, <1>2
  <1>5. (A * x + 0) \div A = x
    BY <1>1, <1>2, <1>4, DivUnique
  <1> QED
    BY <1>3, <1>4, <1>5 DEF x

(* Merging a value into a word is replacing the bits of the lane.          *)
LEMMA MergeIs ==
    ASSUME NEW v \in Nat, NEW old \in Dword, NEW a \in Align
    PROVE  Merge(v, old, a) = Replace(old, Low(a), Width(a), v)
  <1> DEFINE lo == Low(a)
             wd == Width(a)
             w == (v * 2 ^ lo) % Word
             x == And(w, Mask[a])
             y == And(old, Word - 1 - Mask[a])
  <1>1. lo \in Nat /\ wd \in Nat /\ lo + wd <= WordBits /\ 2 ^ lo \in Nat
    BY LaneBits, Powers
  <1>2. w \in Dword
    <2>1. v * 2 ^ lo \in Nat
      BY <1>1
    <2> QED
      BY <2>1, ModuloType
  <1>3. Merge(v, old, a) = Or(x, y)
    BY LaneBits DEF Merge
  <1>4. Listed(w, a) = v % 2 ^ wd
    BY <1>1, BitsShifted DEF Listed
  <1>5. Replace(old, lo, wd, v) = old - Listed(old, a) * 2 ^ lo + (v % 2 ^ wd) * 2 ^ lo
    BY DEF Replace, Listed
  <1> HIDE DEF w
  <1>6. x = Listed(w, a) * 2 ^ lo /\ x \in Nat
    BY <1>2, MaskedIs
  <1>7. y = old - Listed(old, a) * 2 ^ lo
    BY MaskedIs
  <1>8. Ones(x) = Ones(w) \cap LaneSet(a)
    BY OnesOfAnd, MaskBits
  <1>9. Ones(y) = Ones(old) \cap ((0 .. WordBits - 1) \ LaneSet(a))
    BY OnesOfAnd, MaskBits
  <1>10. x \in Dword /\ y \in Dword
    BY BitwiseType
  <1> HIDE DEF x, y
  <1>11. Ones(x) \cap Ones(y) = {}
    BY <1>8, <1>9
  <1>12. Or(x, y) = x + y
    BY <1>10, <1>11, NumberSum, NumberOfOnes DEF Or
  <1>13. x \in Int /\ y \in Int /\ old \in Int /\ Listed(old, a) * 2 ^ lo \in Nat
    BY <1>10, WordType, MaskedIs DEF Dword
  <1>14. x = (v % 2 ^ wd) * 2 ^ lo
    BY <1>4, <1>6
  <1> DEFINE p == Listed(old, a) * 2 ^ lo
             q == (v % 2 ^ wd) * 2 ^ lo
  <1>15. y = old - p /\ x = q /\ Replace(old, lo, wd, v) = old - p + q /\ p \in Nat
    BY <1>5, <1>7, <1>13, <1>14
  <1> HIDE DEF p, q
  <1>16. Replace(old, lo, wd, v) = x + y
    BY <1>13, <1>15
  <1> QED
    BY <1>3, <1>12, <1>16

-----------------------------------------------------------------------------
(* The bitwise operations are what their names say of every bit.           *)
LEMMA BitIs ==
    ASSUME NEW v \in Nat, NEW b \in Nat
    PROVE  BitsOf(v, b, 1) \in {0, 1}
  <1>1. 1 \in Nat /\ 2 ^ 1 = 2
    OBVIOUS
  <1>2. BitsOf(v, b, 1) \in 0 .. 2 ^ 1 - 1
    BY <1>1, BitsBelow
  <1> QED
    BY <1>1, <1>2

LEMMA Bitwise ==
    ASSUME NEW v \in Nat, NEW w \in Nat
    PROVE  /\ And(v, w) = BitByBit(v, w, Both)
           /\ Or(v, w) = BitByBit(v, w, Either)
           /\ Xor(v, w) = BitByBit(v, w, Differ)
  <1> DEFINE all == 0 .. WordBits - 1
             x(b) == BitsOf(v, b, 1)
             y(b) == BitsOf(w, b, 1)
  <1>1. \A b \in all : b \in Nat /\ x(b) \in {0, 1} /\ y(b) \in {0, 1}
    BY BitIs
  <1>2. \A b \in all : /\ b \in Ones(v) <=> x(b) = 1
                       /\ b \in Ones(w) <=> y(b) = 1
    BY DEF Ones
  <1>3. Ones(v) \subseteq all /\ Ones(w) \subseteq all
    BY DEF Ones
  <1>4. \A p, q \in {0, 1} : /\ Both(p, q) = 1 <=> p = 1 /\ q = 1
                             /\ Either(p, q) = 1 <=> p = 1 \/ q = 1
                             /\ Differ(p, q) = 1 <=> p # q
    BY DEF Both, Either, Differ
  <1> HIDE DEF all, x, y
  <1>5. Ones(v) \cap Ones(w) = {b \in all : Both(x(b), y(b)) = 1}
    BY <1>1, <1>2, <1>3, <1>4
  <1>6. Ones(v) \cup Ones(w) = {b \in all : Either(x(b), y(b)) = 1}
    BY <1>1, <1>2, <1>3, <1>4
  <1>7. SymDiff(Ones(v), Ones(w)) = {b \in all : Differ(x(b), y(b)) = 1}
    BY <1>1, <1>2, <1>3, <1>4 DEF SymDiff
  <1>8. And(v, w) = Number({b \in all : Both(x(b), y(b)) = 1})
    BY <1>5 DEF And
  <1>9. Or(v, w) = Number({b \in all : Either(x(b), y(b)) = 1})
    BY <1>6 DEF Or
  <1>10. Xor(v, w) = Number({b \in all : Differ(x(b), y(b)) = 1})
    BY <1>7 DEF Xor
  <1> QED
    BY <1>8, <1>9, <1>10, Zenon DEF BitByBit, all, x, y

(* The tables of the code name the lane that the listing does.             *)
LEMMA DestinationIs ==
    ASSUME NEW i \in Commands
    PROVE  Destination(i) = DstAlign(i)
  <1> DEFINE a == i.align
             d == IF i.op \in {"clear"} \cup Shift THEN DefDst[a] ELSE i.sel
  <1>1. a \in Align /\ a \in {0, 1, 2, 3, 4, 5, 6, 7} /\ i.sel \in {0, 1, 2, 3}
    BY CommandType DEF Align, Words, Bytes, DWORD
  <1>2. d \in 0 .. 3
    BY <1>1 DEF DefDst
  <1>3. DstAlign(i) = DstToSrc[a][d]
    BY DEF DstAlign
  <1>4. DstToSrc[a][d] = IF a = 0 THEN 0 ELSE IF a < 4 THEN <<1, 2, 3, 0>>[d + 1] ELSE d + 4
    <2> HIDE DEF d
    <2> QED
      BY <1>1, <1>2 DEF DstToSrc, Words, Bytes, DWORD
  <1>5. CASE i.op \in {"clear"} \cup Shift
    <2>1. d = <<0, 0, 1, 2, 0, 1, 2, 3>>[a + 1]
      BY <1>1, <1>5 DEF DefDst
    <2>2. Destination(i) = a
      BY <1>1, <1>5 DEF Destination, DWORD
    <2> HIDE DEF d
    <2> QED
      BY <1>1, <1>3, <1>4, <2>1, <2>2
  <1>6. CASE i.op \notin {"clear"} \cup Shift
    <2>1. d = i.sel
      BY <1>6
    <2>2. Destination(i) = IF a = 0 THEN 0 ELSE IF a < 4 THEN (IF i.sel = 3 THEN 0 ELSE i.sel + 1)
                           ELSE i.sel + 4
      BY <1>1, <1>6 DEF Destination, DWORD, Words, Bytes
    <2> HIDE DEF d
    <2> QED
      BY <1>1, <1>3, <1>4, <2>1, <2>2
  <1> QED
    BY <1>5, <1>6

(* What an instruction gives its destination, modulo the width of the      *)
(* lane, is the operation on the lane.                                     *)
LEMMA OutcomeIs ==
    ASSUME NEW i \in Commands, i.op \in Stores, NEW w \in Dword, NEW s \in Dword,
           SkipsDst(i) \/ (saved = w /\ dst = Lane(w, DstAlign(i))),
           i.op # "clear" => src = s,
           i.op \in Shift => s < Shifts,
           i.op \in {"shl", "shr"} \cup Shift => s % Shifts < WordBits,
           NEW o \in Outcomes(i)
    PROVE  LET n == 2 ^ Width(Destination(i))
           IN  o \in Nat /\ o % n = Computed(i, w, s) % n
  <1> DEFINE a == Destination(i)
             n == 2 ^ Width(a)
             d == Listed(w, a)
             C == Computed(i, w, s)
  <1> SUFFICES o \in Nat /\ o % n = C % n
    OBVIOUS
  <1>1. a \in Align /\ DstAlign(i) = a
    BY DestinationIs, DstAlignType
  <1>2. Width(a) \in Nat /\ Width(a) <= WordBits /\ n \in Nat \ {0} /\ WordBits \in Nat
    BY <1>1, LaneBits, Powers, WordType
  <1>3. s \in Nat /\ Word \in Nat \ {0} /\ Dword \subseteq Nat
    BY WordType DEF Dword
  <1>4. d \in 0 .. n - 1
    BY <1>1, MaskedIs
  <1>5. d \in Nat
    BY <1>2, <1>4
  <1>6. SkipsDst(i) \/ (saved = w /\ dst = d)
    BY <1>1, LaneIs
  <1>7. i.num \in Nat
    BY CommandType
  <1>8. \A x \in Int : (x % Word) % n = x % n /\ (x % n) % n = x % n /\ x % Word \in Nat
    <2> SUFFICES ASSUME NEW x \in Int
                 PROVE  (x % Word) % n = x % n /\ (x % n) % n = x % n /\ x % Word \in Nat
      OBVIOUS
    <2>1. (x % Word) % n = x % n
      BY <1>2, LaneOfWord
    <2>2. x % n \in 0 .. n - 1
      BY <1>2, IntegerMod
    <2>3. x % n \in Int /\ x % n = n * 0 + (x % n) /\ 0 \in Int
      BY <1>2, <2>2
    <2>4. (x % n) % n = x % n
      <3> DEFINE r == x % n
      <3>1. r \in Int /\ r \in 0 .. n - 1 /\ r = n * 0 + r
        BY <2>2, <2>3
      <3> HIDE DEF r
      <3>2. r % n = r
        BY <1>2, <3>1, ModuloIs
      <3> QED
        BY <3>2 DEF r
    <2>5. x % Word \in 0 .. Word - 1
      BY <1>3, IntegerMod
    <2>6. x % Word \in Nat
      BY <1>3, <2>5
    <2> QED
      BY <2>1, <2>4, <2>6
  <1>9. \A x, y \in Nat : And(x, y) \in Nat /\ Or(x, y) \in Nat /\ Xor(x, y) \in Nat
    BY NumberType, <1>3 DEF And, Or, Xor
  <1>10. i.op \in Shift => s % Shifts = s
    <2>1. Shifts \in Nat \ {0}
      BY WordType, TableAssumption
    <2>2. s < Shifts => s = Shifts * 0 + s /\ s \in 0 .. Shifts - 1
      BY <1>3, <2>1
    <2> QED
      BY <1>3, <2>1, <2>2, ModuloIs
  <1>11. CASE i.op = "move"
    <2>1. o = s
      BY <1>11 DEF Outcomes
    <2>2. Computed(i, w, s) = s % n
      BY <1>11 DEF Computed
    <2>3. s \in Int /\ s \in Nat
      BY <1>3
    <2> HIDE DEF n
    <2> QED
      BY <1>8, <2>1, <2>2, <2>3
  <1>12. CASE i.op = "clear"
    <2>1. o = 0
      BY <1>12 DEF Outcomes
    <2>2. Computed(i, w, s) = 0
      BY <1>12 DEF Computed
    <2> QED
      BY <2>1, <2>2
  <1>13. CASE i.op = "and"
    <2>1. o = And(d, s)
      BY <1>6, <1>13 DEF Outcomes, SkipsDst
    <2>2. Computed(i, w, s) = And(d, s)
      <3>1. Computed(i, w, s) = BitByBit(d, s, Both)
        BY <1>13 DEF Computed
      <3>2. And(d, s) = BitByBit(d, s, Both)
        BY <1>3, <1>5, Bitwise
      <3> QED
        BY <3>1, <3>2
    <2>3. o \in Nat /\ o \in Int
      BY <1>3, <1>5, <1>9, <2>1
    <2> HIDE DEF n
    <2> QED
      BY <1>8, <2>1, <2>2, <2>3
  <1>14. CASE i.op = "or"
    <2>1. o = Or(d, s)
      BY <1>6, <1>14 DEF Outcomes, SkipsDst
    <2>2. Computed(i, w, s) = Or(d, s) % n
      <3>1. Computed(i, w, s) = BitByBit(d, s, Either) % n
        BY <1>14 DEF Computed
      <3>2. Or(d, s) = BitByBit(d, s, Either)
        BY <1>3, <1>5, Bitwise
      <3> QED
        BY <3>1, <3>2
    <2>3. o \in Nat /\ o \in Int
      BY <1>3, <1>5, <1>9, <2>1
    <2> HIDE DEF n
    <2> QED
      BY <1>8, <2>1, <2>2, <2>3
  <1>15. CASE i.op = "xor"
    <2>1. o = Xor(d, s)
      BY <1>6, <1>15 DEF Outcomes, SkipsDst
    <2>2. Computed(i, w, s) = Xor(d, s) % n
      <3>1. Computed(i, w, s) = BitByBit(d, s, Differ) % n
        BY <1>15 DEF Computed
      <3>2. Xor(d, s) = BitByBit(d, s, Differ)
        BY <1>3, <1>5, Bitwise
      <3> QED
        BY <3>1, <3>2
    <2>3. o \in Nat /\ o \in Int
      BY <1>3, <1>5, <1>9, <2>1
    <2> HIDE DEF n
    <2> QED
      BY <1>8, <2>1, <2>2, <2>3
  <1>16. CASE i.op = "mask"
    <2>1. o = Or(And(d, i.num), s)
      BY <1>6, <1>16 DEF Outcomes, SkipsDst
    <2>2. Computed(i, w, s) = Or(And(d, i.num), s) % n
      <3>1. Computed(i, w, s) = BitByBit(BitByBit(d, i.num, Both), s, Either) % n
        BY <1>16 DEF Computed
      <3>2. And(d, i.num) = BitByBit(d, i.num, Both) /\ And(d, i.num) \in Nat
        BY <1>5, <1>7, <1>9, Bitwise
      <3>3. Or(And(d, i.num), s) = BitByBit(And(d, i.num), s, Either)
        BY <1>3, <3>2, Bitwise
      <3> QED
        BY <3>1, <3>2, <3>3
    <2>3. o \in Nat /\ o \in Int
      <3>1. And(d, i.num) \in Nat
        BY <1>5, <1>7, <1>9
      <3>2. Or(And(d, i.num), s) \in Nat
        BY <1>3, <1>9, <3>1
      <3> QED
        BY <2>1, <3>2
    <2> HIDE DEF n
    <2> QED
      BY <1>8, <2>1, <2>2, <2>3
  <1>17. CASE i.op = "add"
    <2>1. o = (d + s) % Word
      BY <1>6, <1>17 DEF Outcomes, SkipsDst
    <2>2. Computed(i, w, s) = (d + s) % n
      BY <1>17 DEF Computed
    <2>3. d + s \in Int
      BY <1>3, <1>5
    <2> HIDE DEF n, d
    <2> QED
      BY <1>8, <2>1, <2>2, <2>3
  <1>18. CASE i.op = "sub"
    <2>1. o = (d - s) % Word
      BY <1>6, <1>18 DEF Outcomes, SkipsDst
    <2>2. Computed(i, w, s) = (d - s) % n
      BY <1>18 DEF Computed
    <2>3. d - s \in Int
      BY <1>3, <1>5
    <2> HIDE DEF n, d
    <2> QED
      BY <1>8, <2>1, <2>2, <2>3
  <1>19. CASE i.op = "shift_left"
    <2>1. s < WordBits /\ src = s /\ dst = d
      BY <1>6, <1>10, <1>19 DEF Shift, SkipsDst
    <2>2. o \in Left(d, s)
      BY <1>19, <2>1 DEF Outcomes
    <2>3. o = (d * 2 ^ s) % Word
      BY <2>1, <2>2 DEF Left
    <2>4. Computed(i, w, s) = (d * 2 ^ s) % n
      BY <1>19, <2>3 DEF Computed
    <2>5. 2 ^ s \in Nat \ {0}
      BY <1>3, Powers
    <2>6. d * 2 ^ s \in Nat
      BY <1>5, <2>3, <2>5
    <2> HIDE DEF n, d
    <2> QED
      BY <1>8, <2>3, <2>4, <2>6
  <1>20. CASE i.op = "shift_right"
    <2>1. s < WordBits /\ src = s /\ dst = d
      BY <1>6, <1>10, <1>20 DEF Shift, SkipsDst
    <2>2. o \in Right(d, s)
      BY <1>20, <2>1 DEF Outcomes
    <2>3. o = d \div 2 ^ s
      BY <2>1, <2>2 DEF Right
    <2>4. Computed(i, w, s) = o
      BY <1>20, <2>3 DEF Computed
    <2>5. 2 ^ s \in Nat \ {0}
      BY <1>3, Powers
    <2>6. o \in Nat
      BY <1>5, <2>3, <2>5, DivMod
    <2> HIDE DEF n, d
    <2> QED
      BY <1>8, <2>3, <2>4, <2>6
  <1>21. CASE i.op = "shl"
    <2>1. s % Shifts < WordBits /\ src = s /\ saved = w
      BY <1>6, <1>21 DEF SkipsDst
    <2>2. PICK x \in Left(w, s % Shifts) : o = Lane(x, a)
      BY <1>1, <1>21, <2>1 DEF Outcomes
    <2>3. x = (w * 2 ^ (s % Shifts)) % Word
      BY <2>1, <2>2 DEF Left
    <2>4. s % Shifts \in Nat
      <3>1. Shifts \in Nat \ {0}
        BY WordType, TableAssumption
      <3>2. s % Shifts \in 0 .. Shifts - 1
        BY <1>3, <3>1, IntegerMod
      <3> QED
        BY <3>1, <3>2
    <2>5. x \in Dword
      BY <2>2, <2>4, LeftType
    <2>6. o = Listed(x, a) /\ o \in Dword
      BY <1>1, <2>2, <2>5, LaneIs, LaneType
    <2>7. Computed(i, w, s) = o
      BY <1>21, <2>3, <2>6 DEF Computed
    <2> QED
      BY <1>3, <2>6, <2>7
  <1>22. CASE i.op = "shr"
    <2>1. s % Shifts < WordBits /\ src = s /\ saved = w
      BY <1>6, <1>22 DEF SkipsDst
    <2>2. PICK x \in Right(w, s % Shifts) : o = Lane(x, a)
      BY <1>1, <1>22, <2>1 DEF Outcomes
    <2>3. x = w \div 2 ^ (s % Shifts)
      BY <2>1, <2>2 DEF Right
    <2>4. s % Shifts \in Nat
      <3>1. Shifts \in Nat \ {0}
        BY WordType, TableAssumption
      <3>2. s % Shifts \in 0 .. Shifts - 1
        BY <1>3, <3>1, IntegerMod
      <3> QED
        BY <3>1, <3>2
    <2>5. x \in Dword
      BY <2>3, <2>4, Powers, QuotientType
    <2>6. o = Listed(x, a) /\ o \in Dword
      BY <1>1, <2>2, <2>5, LaneIs, LaneType
    <2>7. Computed(i, w, s) = o
      BY <1>22, <2>3, <2>6 DEF Computed
    <2> QED
      BY <1>3, <2>6, <2>7
  <1> QED
    BY <1>11, <1>12, <1>13, <1>14, <1>15, <1>16, <1>17, <1>18, <1>19, <1>20, <1>21, <1>22
       DEF Stores, Shift

(* Replacing all the bits of a word leaves nothing of it.                  *)
LEMMA ReplaceWhole ==
    ASSUME NEW v \in Dword, NEW w \in Dword, NEW new
    PROVE  Replace(v, Low(DWORD), Width(DWORD), new) = Replace(w, Low(DWORD), Width(DWORD), new)
  <1> DEFINE lo == Low(DWORD)
             wd == Width(DWORD)
  <1>1. lo = 0 /\ wd = WordBits
    <2>1. Low(DWORD) = ByteBits * 0 /\ Width(DWORD) = ByteBits * 4
      BY DEF Low, Width, Words, Bytes, DWORD
    <2>2. ByteBits * 0 = 0 /\ ByteBits * 4 = WordBits
      BY ByteAssumption DEF WordBits
    <2> QED
      BY <2>1, <2>2
  <1> HIDE DEF lo, wd
  <1>2. 2 ^ lo = 1 /\ 2 ^ wd = Word
    BY <1>1 DEF Word
  <1>3. \A x \in Dword : BitsOf(x, lo, wd) = x
    <2> SUFFICES ASSUME NEW x \in Dword PROVE BitsOf(x, lo, wd) = x
      OBVIOUS
    <2>1. x \in Nat /\ x \in 0 .. Word - 1 /\ Word \in Nat \ {0}
      BY WordType DEF Dword
    <2>2. BitsOf(x, lo, wd) = (x \div 1) % Word
      BY <1>2 DEF BitsOf
    <2>3. x \div 1 = x
      BY <2>1
    <2>4. x = Word * 0 + x
      BY <2>1
    <2>5. x % Word = x
      BY <2>1, <2>4, ModuloIs
    <2> QED
      BY <2>2, <2>3, <2>5
  <1>4. \A x \in Dword : x - x * 1 = 0
    BY WordType DEF Dword
  <1>5. \A x \in Dword : Replace(x, lo, wd, new) = 0 + (new % Word) * 1
    BY <1>2, <1>3, <1>4 DEF Replace
  <1> QED
    <2> DEFINE to(x) == Replace(x, lo, wd, new)
    <2>1. to(v) = to(w)
      BY <1>5
    <2> QED
      BY <2>1 DEF lo, wd

(* What is stored is the word with the lane replaced by what was computed. *)
LEMMA PutIs ==
    ASSUME NEW i \in Commands, i.op \in Stores, NEW w \in Dword, NEW s \in Dword,
           saved \in Dword,
           SkipsDst(i) \/ (saved = w /\ dst = Lane(w, DstAlign(i))),
           i.op # "clear" => src = s,
           i.op \in Shift => s < Shifts,
           i.op \in {"shl", "shr"} \cup Shift => s % Shifts < WordBits,
           NEW o \in Outcomes(i)
    PROVE  Merge(o, saved, DstAlign(i)) =
               Replace(w, Low(Destination(i)), Width(Destination(i)), Computed(i, w, s))
  <1> DEFINE a == Destination(i)
             n == 2 ^ Width(a)
             C == Computed(i, w, s)
  <1>1. a \in Align /\ DstAlign(i) = a
    BY DestinationIs, DstAlignType
  <1>2. o \in Nat /\ o % n = C % n
    BY OutcomeIs
  <1>3. Merge(o, saved, a) = Replace(saved, Low(a), Width(a), o)
    BY <1>1, <1>2, MergeIs
  <1>4. Replace(saved, Low(a), Width(a), o) = Replace(saved, Low(a), Width(a), C)
    BY <1>2 DEF Replace
  <1>5. Replace(saved, Low(a), Width(a), C) = Replace(w, Low(a), Width(a), C)
    <2>1. CASE SkipsDst(i)
      <3>0. i.align = DWORD
        BY <2>1 DEF SkipsDst
      <3>1. a = DWORD
        BY <3>0 DEF Destination, Words, Bytes, DWORD
      <3> HIDE DEF C
      <3> QED
        BY <3>1, ReplaceWhole
    <2>2. CASE saved = w
      BY <2>2
    <2> QED
      BY <2>1, <2>2
  <1> QED
    BY <1>1, <1>3, <1>4, <1>5

(* What an instruction leaves in divmul and the flags answers to the lane  *)
(* it read.                                                                *)
LEMMA AnsweredIs ==
    ASSUME ContextInv, NEW i, i.op \in Results, dst \in Dword, src \in Dword
    PROVE  Answered(i, dst, src, Quotients(i)[1], Quotients(i)[2], FlagsAfter(i))
  <1> DEFINE W == Word
             R == ctx[ATOM_WS_REMAINDER]
             q == Quotients(i)[1]
             r == Quotients(i)[2]
             f == FlagsAfter(i)
  <1> SUFFICES Answered(i, dst, src, q, r, f)
    OBVIOUS
  <1>1. W \in Nat \ {0} /\ R \in Nat /\ dst \in Nat /\ src \in Nat
    BY WordType, Members DEF Dword
  <1>2. \A n \in Nat : W * (n \div W) + (n % W) = n /\ n \div W \in Nat /\ n % W \in Nat
    <2>1. \A n \in Nat : n \div W \in Nat /\ n % W \in 0 .. W - 1 /\ n = W * (n \div W) + (n % W)
      BY <1>1, DivMod
    <2> HIDE DEF W
    <2> QED
      BY <1>1, <2>1
  <1>3. dst * src \in Nat
    BY <1>1
  <1>4. CASE i.op = "mul"
    <2>1. q = (dst * src) % Word
      BY <1>4 DEF Quotients
    <2> HIDE DEF q, r, f
    <2> QED
      BY <1>4, <2>1 DEF Answered
  <1>5. CASE i.op = "mul32"
    <2> DEFINE p == dst * src
    <2>1. q = p % W /\ r = p \div W
      BY <1>5 DEF Quotients
    <2> HIDE DEF q, r, f, p, W
    <2>2. W * r + q = p /\ r \in Nat
      BY <1>2, <1>3, <2>1 DEF p
    <2>3. r * W + q = p
      BY <1>1, <2>2
    <2> QED
      BY <1>5, <2>3 DEF Answered, p, W
  <1>6. CASE i.op = "div"
    <2>1. <<q, r>> = IF src = 0 THEN <<0, 0>> ELSE <<dst \div src, dst % src>>
      BY <1>6 DEF Quotients
    <2>2. IF src = 0 THEN q = 0 /\ r = 0 ELSE q = dst \div src /\ r = dst % src
      BY <1>6 DEF Quotients
    <2> HIDE DEF q, r, f
    <2>3. CASE src = 0
      BY <1>6, <2>2, <2>3 DEF Answered
    <2>4. CASE src # 0
      <3>1. src \in Nat \ {0}
        BY <1>1, <2>4
      <3>2. q \in Nat /\ r \in 0 .. src - 1 /\ dst = src * q + r
        BY <1>1, <2>2, <2>4, <3>1, DivMod
      <3>3. q * src + r = dst /\ r < src
        BY <3>1, <3>2
      <3> QED
        BY <1>6, <2>4, <3>3 DEF Answered
    <2> QED
      BY <2>3, <2>4
  <1>7. CASE i.op = "div32"
    <2> DEFINE over == R * W + dst
               k == over \div src
    <2>1. Word * R + dst = over /\ over \in Nat
      BY <1>1
    <2>2. IF src = 0 THEN q = 0 /\ r = 0 ELSE q = k % W /\ r = k \div W
      BY <1>7, <2>1 DEF Quotients
    <2> HIDE DEF q, r, f, over, k, W
    <2>3. CASE src = 0
      <3>1. r * W + q = 0
        BY <1>1, <2>2, <2>3
      <3> QED
        BY <1>7, <2>3, <3>1 DEF Answered, W
    <2>4. CASE src # 0
      <3>1. src \in Nat \ {0}
        BY <1>1, <2>4
      <3> DEFINE m == over % src
      <3>2. k \in Nat /\ m \in 0 .. src - 1 /\ over = src * k + m
        BY <2>1, <3>1, DivMod DEF k
      <3> HIDE DEF m
      <3>3. W * r + q = k /\ r \in Nat
        BY <1>2, <2>2, <2>4, <3>2
      <3>4. r * W + q = k
        BY <1>1, <3>3
      <3>5. k * src <= over /\ over < (k + 1) * src
        <4>1. k * src = src * k /\ (k + 1) * src = src * k + src /\ src * k \in Nat
          BY <3>1, <3>2
        <4> QED
          BY <3>1, <3>2, <4>1
      <3> QED
        BY <1>7, <2>4, <3>4, <3>5 DEF Answered, over, R, W
    <2> QED
      BY <2>3, <2>4
  <1>8. CASE i.op = "compare"
    <2>1. f = [equal |-> dst = src, above |-> dst > src]
      BY <1>8 DEF FlagsAfter
    <2> HIDE DEF f, q, r
    <2> QED
      BY <1>8, <2>1 DEF Answered
  <1>9. CASE i.op = "test"
    <2>1. f = [flags EXCEPT !.equal = And(dst, src) = 0]
      BY <1>9 DEF FlagsAfter
    <2>2. And(dst, src) = BitByBit(dst, src, Both)
      BY <1>1, Bitwise
    <2>3. f = [flags EXCEPT !.equal = BitByBit(dst, src, Both) = 0]
      BY <2>1, <2>2
    <2> HIDE DEF f, q, r
    <2> QED
      BY <1>9, <2>3 DEF Answered
  <1> QED
    BY <1>4, <1>5, <1>6, <1>7, <1>8, <1>9 DEF Results

-----------------------------------------------------------------------------
(* What a method gives does not change while the image does not.           *)
RunFrom(step, last, b) ==
    LET run[n \in 0 .. last] ==
            IF n = 0 THEN [at |-> b, temp |-> Poison] ELSE step[run[n - 1]]
    IN  run[last].temp

LEMMA ExecuteKept ==
    ASSUME image' = image, NEW b, NEW r, NEW t, NEW d
    PROVE  IioExecute(b, r, t, d)' = IioExecute(b, r, t, d)
  <1> DEFINE step == IioStep(From(r, t, d))
             last == Len(image)
  <1>1. step' = step /\ last' = last
    <2>1. \A f : IioStep(f)' = IioStep(f)
      BY DEF IioStep
    <2> QED
      BY <2>1
  <1>2. IioExecute(b, r, t, d) = RunFrom(step, last, b)
    BY DEF IioExecute, RunFrom
  <1>3. IioExecute(b, r, t, d)' = RunFrom(step', last', b)
    BY DEF IioExecute, RunFrom
  <1> HIDE DEF step, last
  <1> QED
    BY <1>1, <1>2, <1>3

(* What an operand is read as does not change while the place it names is  *)
(* left alone.                                                             *)
LEMMA FetchedKept ==
    ASSUME UNCHANGED <<ps, ws, scratch, ctx, io_mode, reg, iioVars>>,
           NEW arg, NEW idx,
           mmIndex' = mmIndex \/ ~ (arg = "REG" /\ RegNumber(idx) \in {0, 1})
    PROVE  Fetched(arg, idx)' = Fetched(arg, idx)
  <1>1. /\ ps' = ps /\ ws' = ws /\ scratch' = scratch /\ ctx' = ctx /\ io_mode' = io_mode
        /\ reg' = reg /\ image' = image /\ iio' = iio
    BY DEF iioVars
  <1>2. RegNumber(idx)' = RegNumber(idx) /\ ReadMethod' = ReadMethod
    BY <1>1 DEF RegNumber, ReadMethod
  <1>3. OrMasks' = OrMasks /\ InImage(idx)' = InImage(idx) /\ FbSlot(idx)' = FbSlot(idx)
        /\ FbBeyond(idx)' = FbBeyond(idx)
    BY <1>1 DEF OrMasks, InImage, FbSlot, FbBeyond, FbAddr
  <1>4. \A b, r, t, d : IioExecute(b, r, t, d)' = IioExecute(b, r, t, d)
    BY <1>1, ExecuteKept
  <1>5. CASE arg # "REG"
    BY <1>1, <1>3, <1>5 DEF Fetched
  <1>6. CASE arg = "REG"
    <2>1. RegValue(RegNumber(idx))' = RegValue(RegNumber(idx))
      BY <1>1, <1>2, <1>6 DEF RegValue, Target
    <2>2. Fetched(arg, idx) =
              IF io_mode = ATOM_IO_MM THEN {RegValue(RegNumber(idx))}
              ELSE {IioExecute(iio[ReadMethod], RegNumber(idx), ctx[ATOM_WS_ATTRIBUTES], 0)}
      BY <1>6 DEF Fetched
    <2>3. Fetched(arg, idx)' =
              IF io_mode' = ATOM_IO_MM THEN {RegValue(RegNumber(idx))'}
              ELSE {IioExecute(iio[ReadMethod], RegNumber(idx), ctx[ATOM_WS_ATTRIBUTES], 0)'}
      BY <1>6 DEF Fetched
    <2> QED
      BY <1>1, <1>2, <1>4, <2>1, <2>2, <2>3
  <1> QED
    BY <1>5, <1>6

(* A step that moves MM_INDEX, or not, and nothing else: the operands that *)
(* still have a value had it before, and have the same.                    *)
Settled == \/ mmIndex' = mmIndex /\ moved' = moved
           \/ moved' = TRUE

LEMMA ValueKept ==
    ASSUME UNCHANGED <<ps, ws, scratch, ctx, io_mode, reg, iioVars>>, Settled,
           CardInv, NEW arg, NEW idx, HasValue(arg, idx)'
    PROVE  HasValue(arg, idx) /\ Fetched(arg, idx)' = Fetched(arg, idx)
  <1>1. /\ ctx' = ctx /\ io_mode' = io_mode /\ iio' = iio
    BY DEF iioVars
  <1>2. RegNumber(idx)' = RegNumber(idx) /\ ReadMethod' = ReadMethod
        /\ Unreachable(arg, ReadMethod)' = Unreachable(arg, ReadMethod)
    BY <1>1 DEF RegNumber, ReadMethod, Unreachable
  <1>3. InImage(idx)' = InImage(idx) /\ FbSlot(idx)' = FbSlot(idx)
        /\ FbBeyond(idx)' = FbBeyond(idx)
    BY <1>1 DEF InImage, FbSlot, FbBeyond, FbAddr
  <1>4. moved => moved'
    BY DEF Settled
  <1>5. HasValue(arg, idx)
    BY <1>1, <1>2, <1>3, <1>4 DEF HasValue
  <1>6. mmIndex' = mmIndex \/ ~ (arg = "REG" /\ RegNumber(idx) \in {0, 1})
    BY <1>2 DEF HasValue, Settled
  <1>7. Fetched(arg, idx)' = Fetched(arg, idx)
    BY <1>6, FetchedKept
  <1> QED
    BY <1>5, <1>7

(* An operand that has a value has one, a word.                            *)
LEMMA FetchedOne ==
    ASSUME WalkInv, walk = "done", ContextInv, MemoryInv, CardInv,
           NEW arg \in SrcArgs, NEW idx \in Nat, IsOperand(arg, idx), HasValue(arg, idx)
    PROVE  \E w \in Dword : Fetched(arg, idx) = {w}
  <1>1. Fetched(arg, idx) \subseteq Dword
    BY FetchedType DEF HasValue
  <1>2. SUFFICES \E w : Fetched(arg, idx) = {w}
    BY <1>1
  <1>3. CASE arg \in {"PS", "IMM", "PLL", "MC"}
    BY <1>3 DEF Fetched
  <1>4. CASE arg = "ID"
    BY <1>4 DEF Fetched, HasValue
  <1>5. CASE arg = "FB"
    BY <1>5 DEF Fetched, HasValue
  <1>6. CASE arg = "REG"
    BY <1>6 DEF Fetched
  <1>7. CASE arg = "WS"
    <2>1. idx \in DOMAIN WorkSpace \cup Member \cup Masks
      BY <1>7 DEF IsOperand
    <2>2. Fetched(arg, idx) = CASE idx = ATOM_WS_OR_MASK -> OrMasks
                                [] idx = ATOM_WS_AND_MASK -> {Word - 1 - w : w \in OrMasks}
                                [] idx \in Member -> {ctx[idx]}
                                [] idx \in DOMAIN ws -> {ws[idx]}
      BY <1>7 DEF Fetched
    <2>3. ASSUME idx \in Masks PROVE OrMasks = {2 ^ ctx[ATOM_WS_SHIFT] % Word}
      <3>1. ctx[ATOM_WS_SHIFT] < WordBits /\ ctx[ATOM_WS_SHIFT] \in Nat
        BY <1>7, <2>3, Members DEF HasValue
      <3>2. OrMasks = {(1 * 2 ^ ctx[ATOM_WS_SHIFT]) % Word}
        BY <3>1 DEF OrMasks, Left
      <3>3. 2 ^ ctx[ATOM_WS_SHIFT] \in Nat
        BY <3>1, Powers
      <3> QED
        BY <3>2, <3>3
    <2>4. DOMAIN WorkSpace \subseteq 0 .. 63 /\ DOMAIN ws = DOMAIN WorkSpace
      BY TableAssumption DEF ATOM_WS_QUOTIENT, MemoryInv
    <2> USE DEF ATOM_WS_QUOTIENT, ATOM_WS_REMAINDER, ATOM_WS_DATAPTR, ATOM_WS_SHIFT,
                ATOM_WS_OR_MASK, ATOM_WS_AND_MASK, ATOM_WS_FB_WINDOW, ATOM_WS_ATTRIBUTES,
                ATOM_WS_REGPTR, Wide, Narrow, Member, Masks
    <2>5. CASE idx = ATOM_WS_OR_MASK
      <3>1. Fetched(arg, idx) = OrMasks
        BY <2>2, <2>4, <2>5
      <3> QED
        BY <2>3, <2>5, <3>1
    <2>6. CASE idx = ATOM_WS_AND_MASK
      <3>1. Fetched(arg, idx) = {Word - 1 - w : w \in OrMasks}
        BY <2>2, <2>4, <2>6
      <3>2. PICK m : OrMasks = {m}
        BY <2>3, <2>6
      <3> HIDE DEF Word
      <3>3. {Word - 1 - w : w \in OrMasks} = {Word - 1 - m}
        BY <3>2
      <3> QED
        BY <3>1, <3>3
    <2>7. CASE idx \in Member
      <3>1. Fetched(arg, idx) = {ctx[idx]}
        BY <2>2, <2>4, <2>7
      <3> QED
        BY <3>1
    <2>8. CASE idx \in DOMAIN WorkSpace
      BY <2>2, <2>4, <2>8
    <2> QED
      BY <2>1, <2>5, <2>6, <2>7, <2>8
  <1> QED
    BY <1>3, <1>4, <1>5, <1>6, <1>7 DEF SrcArgs, DstArgs

-----------------------------------------------------------------------------
(* Until its instruction has stored the result, saved is the word that the *)
(* destination holds and src the value of the source, if they have one:    *)
(* what other users of the card do to MM_INDEX takes the value away.       *)
DstLatched(i) ==
    HasValue(i.arg, i.idx) =>
        Fetched(i.arg, i.idx) = {saved} /\ dst = Lane(saved, DstAlign(i))

SrcLatched(i) ==
    i.op \in Shift \/ HasValue(i.src, i.sidx) => Source(i) = {src}

Latched ==
    /\ pc \in {"src", "put"} /\ Instruction.op \in Stores \cup Results
           /\ ~ SkipsDst(Instruction) => DstLatched(Instruction)
    /\ pc = "put" /\ Instruction.op \in (Stores \cup Results) \ {"clear"}
           => SrcLatched(Instruction)

LEMMA DstKept ==
    ASSUME UNCHANGED <<ps, ws, scratch, ctx, io_mode, reg, iioVars>>, Settled,
           CardInv, NEW i, DstLatched(i), dst' = dst, saved' = saved
    PROVE  DstLatched(i)'
  <1> SUFFICES ASSUME HasValue(i.arg, i.idx)'
               PROVE  Fetched(i.arg, i.idx)' = {saved'} /\ dst' = Lane(saved', DstAlign(i))
    BY DEF DstLatched
  <1>1. HasValue(i.arg, i.idx) /\ Fetched(i.arg, i.idx)' = Fetched(i.arg, i.idx)
    BY ValueKept
  <1> QED
    BY <1>1 DEF DstLatched

LEMMA SourceKept ==
    ASSUME UNCHANGED <<ps, ws, scratch, ctx, io_mode, reg, iioVars>>, Settled,
           CardInv, NEW i, i.op \in Shift \/ HasValue(i.src, i.sidx)'
    PROVE  Source(i)' = Source(i) /\ (i.op \in Shift \/ HasValue(i.src, i.sidx))
  <1>1. CASE i.op \in Shift
    <2>1. i.op # "clear"
      BY <1>1 DEF Shift
    <2>2. Source(i) = {i.num} /\ Source(i)' = {i.num}
      BY <1>1, <2>1 DEF Source
    <2> QED
      BY <1>1, <2>2
  <1>2. CASE HasValue(i.src, i.sidx)'
    <2>1. HasValue(i.src, i.sidx) /\ Fetched(i.src, i.sidx)' = Fetched(i.src, i.sidx)
      BY <1>2, ValueKept
    <2> QED
      BY <2>1 DEF Source
  <1> QED
    BY <1>1, <1>2

LEMMA LatchedKept ==
    ASSUME UNCHANGED <<ps, ws, scratch, ctx, io_mode, reg, iioVars>>, Settled,
           CardInv, Latched, UNCHANGED <<table, at, pc, dst, saved, src>>
    PROVE  Latched'
  <1>1. PICK i : i = Instruction
    OBVIOUS
  <1>2. Instruction' = i /\ pc' = pc /\ dst' = dst /\ saved' = saved /\ src' = src
    BY <1>1 DEF Instruction
  <1>3. DstLatched(i) => DstLatched(i)'
    BY <1>2, DstKept
  <1>4. SrcLatched(i) => SrcLatched(i)'
    BY <1>2, SourceKept DEF SrcLatched
  <1> QED
    BY <1>1, <1>2, <1>3, <1>4 DEF Latched

(* A fetch moves MM_INDEX at most.                                         *)
LEMMA AccessSettles ==
    ASSUME CardInv, NEW arg, NEW idx, Access(arg, idx)
    PROVE  Settled /\ reg' = reg
  BY DEF Access, Reach, Settled, card

LEMMA GetDstLatches ==
    ASSUME OperandInv, GetDst
    PROVE  Latched'
  <1>1. PICK i : i = Instruction
    OBVIOUS
  <1>2. WalkInv /\ TableInv /\ ContextInv /\ MemoryInv /\ CardInv
    BY DEF OperandInv
  <1>3. i \in Commands /\ walk = "done" /\ pc = "dst"
    BY <1>1, <1>2, AtCommand DEF GetDst
  <1>4. i.arg \in SrcArgs /\ i.idx \in Nat /\ IsOperand(i.arg, i.idx)
    BY <1>3, CommandType DEF SrcArgs
  <1>5. Instruction' = i /\ UNCHANGED <<ps, ws, scratch, ctx, io_mode, iioVars>>
    BY <1>1 DEF GetDst, Go, Instruction, memory, context
  <1>6. pc' = "put" => i.op = "clear"
    BY <1>1 DEF GetDst, Go
  <1>7. ASSUME ~ SkipsDst(i) PROVE DstLatched(i)'
    <2>1. CASE Unreachable(i.arg, ReadMethod)
      <3>1. Unreachable(i.arg, ReadMethod)'
        BY <1>5, <2>1 DEF Unreachable, ReadMethod, iioVars
      <3> QED
        BY <3>1 DEF DstLatched, HasValue
    <2>2. CASE ~ Unreachable(i.arg, ReadMethod)
      <3>1. /\ saved' \in Fetched(i.arg, i.idx)
            /\ dst' = Lane(saved', DstAlign(i))
            /\ Access(i.arg, i.idx)
        BY <1>1, <1>7, <2>2 DEF GetDst
      <3>2. Settled /\ reg' = reg
        BY <1>2, <3>1, AccessSettles
      <3>3. ASSUME HasValue(i.arg, i.idx)' PROVE Fetched(i.arg, i.idx)' = {saved'}
        <4>1. HasValue(i.arg, i.idx) /\ Fetched(i.arg, i.idx)' = Fetched(i.arg, i.idx)
          BY <1>2, <1>5, <3>2, <3>3, ValueKept
        <4>2. \E w \in Dword : Fetched(i.arg, i.idx) = {w}
          BY <1>2, <1>3, <1>4, <4>1, FetchedOne
        <4> QED
          BY <3>1, <4>1, <4>2
      <3> QED
        BY <3>1, <3>3 DEF DstLatched
    <2> QED
      BY <2>1, <2>2
  <1> QED
    BY <1>5, <1>6, <1>7 DEF Latched

LEMMA GetSrcLatches ==
    ASSUME OperandInv, Latched, GetSrc
    PROVE  Latched'
  <1>1. PICK i : i = Instruction
    OBVIOUS
  <1>2. WalkInv /\ TableInv /\ ContextInv /\ MemoryInv /\ CardInv
    BY DEF OperandInv
  <1>3. i \in Commands /\ walk = "done" /\ pc = "src"
    BY <1>1, <1>2, AtCommand DEF GetSrc
  <1>4. i.src \in SrcArgs /\ i.sidx \in Nat /\ IsOperand(i.src, i.sidx) /\ i.align \in Align
    BY <1>3, CommandType
  <1>5. /\ Instruction' = i /\ dst' = dst /\ saved' = saved
        /\ UNCHANGED <<ps, ws, scratch, ctx, io_mode, iioVars>>
    BY <1>1 DEF GetSrc, Go, Instruction, memory, context
  <1> DEFINE direct == i.op \in Shift \/ i.src = "IMM"
  <1>6. /\ direct => src' = (IF i.op \in Shift THEN i.num ELSE i.sidx) /\ UNCHANGED <<card, fb>>
        /\ ~ direct /\ Unreachable(i.src, ReadMethod) => src' = 0 /\ UNCHANGED <<card, fb>>
        /\ ~ direct /\ ~ Unreachable(i.src, ReadMethod) =>
              /\ src' \in {Lane(w, i.align) : w \in Fetched(i.src, i.sidx)}
              /\ Access(i.src, i.sidx)
    BY <1>1 DEF GetSrc
  <1>7. Settled /\ reg' = reg
    <2>1. UNCHANGED card => Settled /\ reg' = reg
      BY DEF Settled, card
    <2> QED
      BY <1>2, <1>6, <2>1, AccessSettles
  <1>8. DstLatched(i) => DstLatched(i)'
    BY <1>2, <1>5, <1>7, DstKept
  <1>9. ASSUME i.op # "clear" PROVE SrcLatched(i)'
    <2>1. SUFFICES ASSUME i.op \in Shift \/ HasValue(i.src, i.sidx)' PROVE Source(i)' = {src'}
      BY DEF SrcLatched
    <2>2. Source(i)' = Source(i) /\ (i.op \in Shift \/ HasValue(i.src, i.sidx))
      BY <1>2, <1>5, <1>7, <2>1, SourceKept
    <2>3. CASE direct
      BY <1>6, <1>9, <2>2, <2>3 DEF Source
    <2>4. CASE ~ direct
      <3>1. HasValue(i.src, i.sidx) /\ ~ Unreachable(i.src, ReadMethod)
        BY <2>2, <2>4 DEF HasValue
      <3>2. PICK w \in Dword : Fetched(i.src, i.sidx) = {w}
        BY <1>2, <1>3, <1>4, <3>1, FetchedOne
      <3>3. src' = Lane(w, i.align)
        BY <1>6, <2>4, <3>1, <3>2
      <3>4. Source(i) = {Listed(w, i.align)}
        BY <1>9, <2>4, <3>2 DEF Source
      <3> QED
        BY <1>4, <2>2, <3>3, <3>4, LaneIs
    <2> QED
      BY <2>3, <2>4
  <1> QED
    BY <1>1, <1>3, <1>5, <1>8, <1>9 DEF Latched

LEMMA LatchedNext ==
    ASSUME OperandInv, Latched, [Next]_vars
    PROVE  Latched'
  <1>1. CardInv /\ TableInv
    BY DEF OperandInv
  <1>2. CASE Index /\ UNCHANGED operandVars
    <2>1. walk # "done"
      BY <1>2 DEF Index, IndexProgram, IndexDone, IndexSkip, IndexEnd
    <2>2. pc' = "idle"
      BY <1>1, <1>2, <2>1 DEF TableInv, operandVars
    <2> QED
      BY <2>2 DEF Latched
  <1>3. CASE Begin
    BY <1>3 DEF Begin, Latched
  <1>4. CASE GetDst
    BY <1>4, GetDstLatches
  <1>5. CASE GetSrc
    BY <1>5, GetSrcLatches
  <1>6. CASE PutDst \/ PutResult \/ Set \/ FbBaseIsSet
    <2>1. pc' \in {"end", "dst"}
      BY <1>6 DEF PutDst, PutResult, Set, FbBaseIsSet, Continue
    <2> QED
      BY <2>1 DEF Latched
  <1>7. CASE SetFbBase
    <2>1. pc' = "src" /\ Instruction' = Instruction /\ Instruction.op = "setfbbase"
      BY <1>7 DEF SetFbBase, Go, Instruction
    <2> QED
      BY <2>1 DEF Latched, Stores, Results, Shift
  <1>8. CASE Elsewhere
    <2>1. /\ UNCHANGED <<ps, ws, scratch, ctx, io_mode, reg, iioVars>>
          /\ Settled
          /\ UNCHANGED <<table, at, pc, dst, saved, src>>
      BY <1>8 DEF Elsewhere, memory, context, Settled
    <2> QED
      BY <1>1, <2>1, LatchedKept
  <1>9. CASE UNCHANGED vars
    <2>1. /\ UNCHANGED <<ps, ws, scratch, ctx, io_mode, reg, iioVars>>
          /\ Settled
          /\ UNCHANGED <<table, at, pc, dst, saved, src>>
      BY <1>9 DEF vars, operandVars, memory, context, card, Settled
    <2> QED
      BY <1>1, <2>1, LatchedKept
  <1> QED
    BY <1>2, <1>3, <1>4, <1>5, <1>6, <1>7, <1>8, <1>9 DEF Next, Terminated

-----------------------------------------------------------------------------
(* A place that a word is stored in holds what it keeps of the word.       *)
LEMMA RegKeeps ==
    ASSUME CardInv, NEW r \in Nat, NEW v \in Dword, WriteReg(r, v)
    PROVE  RegValue(r)' = IF r = 0 THEN (4 * v) % Word
                          ELSE IF Target(r) \in DOMAIN reg THEN v ELSE 0
  <1>1. CASE r = 0
    <2>1. mmIndex' = IndexOf(v)
      BY <1>1 DEF WriteReg
    <2>2. RegValue(r)' = mmIndex'
      BY <1>1 DEF RegValue
    <2> QED
      BY <1>1, <2>1, <2>2 DEF IndexOf
  <1>2. CASE r # 0
    <2>1. /\ reg' = IF Target(r) \in DOMAIN reg THEN [reg EXCEPT ![Target(r)] = v] ELSE reg
          /\ Reach(r)
      BY <1>2 DEF WriteReg
    <2>2. r = 1 => mmIndex' = mmIndex
      <3>1. (4 * 1) % Word <= 4
        <4>1. Word \in Nat \ {0} /\ 4 \in Nat
          BY WordType
        <4>2. \A n \in Nat, b \in Nat \ {0} : n % b <= n
          <5> SUFFICES ASSUME NEW n \in Nat, NEW b \in Nat \ {0} PROVE n % b <= n
            OBVIOUS
          <5>1. n \div b \in Nat /\ n % b \in 0 .. b - 1 /\ n = b * (n \div b) + (n % b)
            BY DivMod
          <5>2. b * (n \div b) \in Nat
            BY <5>1
          <5> QED
            BY <5>1, <5>2
        <4> QED
          BY <4>1, <4>2
      <3>2. (4 * 1) % Word \in Nat
        BY ModuloType, WordType DEF Dword
      <3>3. InAperture(1)
        BY <3>1, <3>2, RegisterAssumption DEF InAperture
      <3> QED
        BY <2>1, <3>3 DEF Reach
    <2>3. Target(r)' = Target(r)
      BY <2>2 DEF Target
    <2>4. DOMAIN reg' = DOMAIN reg
      BY <2>1
    <2>5. RegValue(r)' = IF Target(r) \in DOMAIN reg THEN reg'[Target(r)] ELSE 0
      BY <1>2, <2>3, <2>4 DEF RegValue
    <2> QED
      BY <1>2, <2>1, <2>5
  <1> QED
    BY <1>1, <1>2

LEMMA PlaceKeeps ==
    ASSUME OperandInv, NEW i \in Commands, HasValue(i.arg, i.idx),
           NEW w \in Dword, Fetched(i.arg, i.idx) = {w}, NEW v \in Dword,
           io_mode' = io_mode, UNCHANGED iioVars,
           ps' = IF i.arg = "PS" THEN [ps EXCEPT ![i.idx] = v] ELSE ps,
           ws' = IF i.arg = "WS" /\ i.idx \in DOMAIN ws THEN [ws EXCEPT ![i.idx] = v] ELSE ws,
           ctx' = IF i.arg = "WS" /\ i.idx \in Member
                  THEN [ctx EXCEPT ![i.idx] = Fits(i.idx, v)] ELSE ctx,
           scratch' = IF i.arg = "FB" /\ ~ FbBeyond(i.idx) /\ FbSlot(i.idx) \in Slot
                      THEN [scratch EXCEPT ![FbSlot(i.idx)] = v] ELSE scratch,
           IF i.arg = "REG" /\ io_mode = ATOM_IO_MM
           THEN WriteReg(RegNumber(i.idx), v) ELSE UNCHANGED card
    PROVE  Fetched(i.arg, i.idx)' = {Keeps(i, w, v)}
  <1> DEFINE x == i.idx
  <1>1. WalkInv /\ ContextInv /\ MemoryInv /\ CardInv
    BY DEF OperandInv
  <1>2. i.arg \in DstArgs /\ x \in Nat /\ IsOperand(i.arg, x)
    BY CommandType
  <1>3. DOMAIN WorkSpace \subseteq 0 .. 63 /\ ws \in [DOMAIN WorkSpace -> Dword]
        /\ ps \in [DOMAIN ParamSpace -> Dword] /\ scratch \in [Slot -> Dword]
    BY <1>1, TableAssumption DEF ATOM_WS_QUOTIENT, MemoryInv
  <1>4. CASE i.arg \in {"PLL", "MC"}
    BY <1>4 DEF Fetched, Keeps
  <1>5. CASE i.arg = "PS"
    <2>1. ps'[x] = v
      BY <1>2, <1>3, <1>5 DEF IsOperand
    <2>2. Fetched(i.arg, x)' = {ps'[x]}
      BY <1>5 DEF Fetched
    <2>3. Keeps(i, w, v) = v
      BY <1>5 DEF Keeps
    <2> QED
      BY <2>1, <2>2, <2>3
  <1>6. CASE i.arg = "FB"
    <2>1. ctx' = ctx
      BY <1>6
    <2>2. FbBeyond(x)' = FbBeyond(x) /\ FbSlot(x)' = FbSlot(x)
      BY <2>1 DEF FbBeyond, FbAddr, FbSlot
    <2>3. Fetched(i.arg, x)' = IF FbBeyond(x) THEN {0}
                               ELSE IF FbSlot(x) \in Slot THEN {scratch'[FbSlot(x)]} ELSE Foreign
      BY <1>6, <2>2 DEF Fetched
    <2>4. FbBeyond(x) \/ FbSlot(x) \in Slot
      BY <1>6 DEF HasValue
    <2>5. Keeps(i, w, v) = IF FbBeyond(x) THEN 0 ELSE v
      BY <1>6 DEF Keeps
    <2>6. ~ FbBeyond(x) => scratch'[FbSlot(x)] = v
      BY <1>3, <1>6, <2>4
    <2> QED
      BY <2>3, <2>4, <2>5, <2>6
  <1>7. CASE i.arg = "WS"
    <2>1. x \in DOMAIN WorkSpace \cup Member \cup Masks /\ DOMAIN ws = DOMAIN WorkSpace
      BY <1>2, <1>3, <1>7 DEF IsOperand
    <2>2. DOMAIN ctx = Member
      BY <1>1 DEF ContextInv
    <2>3. DOMAIN ws' = DOMAIN ws
      OBVIOUS
    <2>4. /\ Member \cap Masks = {} /\ DOMAIN ws \cap Masks = {} /\ DOMAIN ws \cap Member = {}
          /\ Masks = {ATOM_WS_OR_MASK, ATOM_WS_AND_MASK}
      BY <1>3, <2>1 DEF ATOM_WS_QUOTIENT, ATOM_WS_REMAINDER, ATOM_WS_DATAPTR, ATOM_WS_SHIFT,
                ATOM_WS_OR_MASK, ATOM_WS_AND_MASK, ATOM_WS_FB_WINDOW, ATOM_WS_ATTRIBUTES,
                ATOM_WS_REGPTR, Wide, Narrow, Member, Masks
    <2>5. Fetched(i.arg, x)' = CASE x = ATOM_WS_OR_MASK -> OrMasks'
                                 [] x = ATOM_WS_AND_MASK -> {Word - 1 - m : m \in OrMasks'}
                                 [] x \in Member -> {ctx'[x]}
                                 [] x \in DOMAIN ws' -> {ws'[x]}
      BY <1>7 DEF Fetched
    <2>6. CASE x \in Masks
      <3>1. UNCHANGED <<ps, ws, scratch, ctx, io_mode, reg, iioVars>> /\ mmIndex' = mmIndex
        BY <1>7, <2>1, <2>4, <2>6 DEF card
      <3>2. Fetched(i.arg, x)' = {w}
        BY <3>1, FetchedKept
      <3>3. Keeps(i, w, v) = w
        BY <1>7, <2>4, <2>6 DEF Keeps
      <3> QED
        BY <3>2, <3>3
    <2>7. CASE x \in Member
      <3>1. ctx'[x] = Fits(x, v)
        BY <1>7, <2>2, <2>7
      <3>2. Fetched(i.arg, x)' = {ctx'[x]}
        BY <2>4, <2>5, <2>7, <2>3
      <3>3. Keeps(i, w, v) = Fits(x, v)
        BY <1>7, <2>4, <2>7 DEF Keeps
      <3> QED
        BY <3>1, <3>2, <3>3
    <2>8. CASE x \in DOMAIN ws
      <3>1. ws'[x] = v
        BY <1>7, <2>8
      <3>2. Fetched(i.arg, x)' = {ws'[x]}
        BY <2>3, <2>4, <2>5, <2>8
      <3>3. Keeps(i, w, v) = v
        BY <1>7, <2>4, <2>8 DEF Keeps
      <3> QED
        BY <3>1, <3>2, <3>3
    <2> QED
      BY <2>1, <2>6, <2>7, <2>8
  <1>8. CASE i.arg = "REG" /\ io_mode # ATOM_IO_MM
    <2>1. UNCHANGED <<ps, ws, scratch, ctx, io_mode, reg, iioVars>> /\ mmIndex' = mmIndex
      BY <1>8 DEF card
    <2>2. Fetched(i.arg, x)' = {w}
      BY <2>1, FetchedKept
    <2>3. Keeps(i, w, v) = w
      BY <1>8 DEF Keeps
    <2> QED
      BY <2>2, <2>3
  <1>9. CASE i.arg = "REG" /\ io_mode = ATOM_IO_MM
    <2> DEFINE r == RegNumber(x)
    <2>1. r \in Nat /\ WriteReg(r, v)
      BY <1>1, <1>2, <1>9, Members DEF RegNumber
    <2>2. ctx' = ctx /\ r' = r
      BY <1>9 DEF RegNumber
    <2>3. Fetched(i.arg, x) = {RegValue(r)} /\ Fetched(i.arg, x)' = {RegValue(r)'}
      BY <1>9 DEF Fetched
    <2>4. RegValue(r)' = IF r = 0 THEN (4 * v) % Word
                         ELSE IF Target(r) \in DOMAIN reg THEN v ELSE 0
      <3> DEFINE m == r
      <3>1. PICK n \in Nat : n = r
        BY <2>1
      <3>2. RegValue(n)' = IF n = 0 THEN (4 * v) % Word
                           ELSE IF Target(n) \in DOMAIN reg THEN v ELSE 0
        BY <1>1, <2>1, <3>1, RegKeeps
      <3>3. RegValue(r)' = RegValue(n)'
        BY <2>2, <3>1 DEF RegValue, Target
      <3> QED
        BY <3>1, <3>2, <3>3
    <2>5. w = RegValue(r)
      BY <2>3
    <2>6. Keeps(i, w, v) = IF r = 0 THEN (4 * v) % Word
                           ELSE IF Target(r) \in DOMAIN reg THEN v ELSE w
      BY <1>9 DEF Keeps
    <2>7. r # 0 /\ Target(r) \notin DOMAIN reg => w = 0
      BY <2>5 DEF RegValue
    <2> HIDE DEF r
    <2> QED
      BY <2>3, <2>4, <2>6, <2>7
  <1> QED
    BY <1>2, <1>4, <1>5, <1>6, <1>7, <1>8, <1>9 DEF DstArgs

(* What is stored is what the operation makes of the lane.                 *)
LEMMA PutDstComputes ==
    ASSUME OperandInv, Latched, PutDst, NEW i, i = Instruction, IsDefined(i),
           NEW w \in Fetched(i.arg, i.idx), NEW s \in Source(i)
    PROVE  Fetched(i.arg, i.idx)' =
               {Keeps(i, w, Replace(w, Low(Destination(i)), Width(Destination(i)),
                                    Computed(i, w, s)))}
  <1> DEFINE u == Replace(w, Low(Destination(i)), Width(Destination(i)), Computed(i, w, s))
  <1>1. WalkInv /\ TableInv /\ ContextInv /\ MemoryInv /\ CardInv
    BY DEF OperandInv
  <1>2. i \in Commands /\ walk = "done" /\ pc = "put" /\ i.op \in Stores
    BY <1>1, AtCommand DEF PutDst
  <1>3. i.arg \in SrcArgs /\ i.idx \in Nat /\ IsOperand(i.arg, i.idx)
        /\ (i.op \in Shift => i.num < Shifts)
    BY <1>2, CommandType DEF SrcArgs
  <1>4. HasValue(i.arg, i.idx)
    BY DEF IsDefined
  <1>5. w \in Dword /\ Fetched(i.arg, i.idx) = {w}
    BY <1>1, <1>2, <1>3, <1>4, FetchedOne
  <1>6. SkipsDst(i) \/ (saved = w /\ dst = Lane(w, DstAlign(i)))
    BY <1>2, <1>4, <1>5 DEF Latched, DstLatched
  <1>7. i.op # "clear" => src = s
    BY <1>2 DEF Latched, SrcLatched, IsDefined
  <1>8. s \in Dword /\ saved \in Dword
    <2>1. src \in Dword /\ saved \in Dword /\ 0 \in Dword
      BY <1>1, WordType DEF MemoryInv, Dword
    <2>2. i.op = "clear" => s = 0
      BY DEF Source, Shift
    <2> QED
      BY <1>7, <2>1, <2>2
  <1>9. /\ i.op \in Shift => s < Shifts
        /\ i.op \in {"shl", "shr"} \cup Shift => s % Shifts < WordBits
    <2>1. i.op \in Shift => s = i.num
      BY DEF Source, Shift
    <2> QED
      BY <1>3, <2>1 DEF IsDefined
  <1>10. \A o \in Outcomes(i) : Merge(o, saved, DstAlign(i)) = u
    BY <1>2, <1>5, <1>6, <1>7, <1>8, <1>9, PutIs
  <1> HIDE DEF u
  <1>11. PICK v \in {Merge(o, saved, DstAlign(i)) : o \in Outcomes(i)} :
              /\ ps' = IF i.arg = "PS" THEN [ps EXCEPT ![i.idx] = v] ELSE ps
              /\ ws' = IF i.arg = "WS" /\ i.idx \in DOMAIN ws
                       THEN [ws EXCEPT ![i.idx] = v] ELSE ws
              /\ ctx' = IF i.arg = "WS" /\ i.idx \in Member
                        THEN [ctx EXCEPT ![i.idx] = Fits(i.idx, v)] ELSE ctx
              /\ scratch' = IF i.arg = "FB" /\ ~ FbBeyond(i.idx) /\ FbSlot(i.idx) \in Slot
                            THEN [scratch EXCEPT ![FbSlot(i.idx)] = v] ELSE scratch
              /\ IF i.arg = "REG" /\ io_mode = ATOM_IO_MM
                 THEN WriteReg(RegNumber(i.idx), v) ELSE UNCHANGED card
    BY DEF PutDst
  <1>12. v = u /\ v \in Dword
    BY <1>10, MergeType
  <1>13. io_mode' = io_mode /\ UNCHANGED iioVars
    BY DEF PutDst
  <1>14. Fetched(i.arg, i.idx)' = {Keeps(i, w, v)}
    BY <1>2, <1>4, <1>5, <1>11, <1>12, <1>13, PlaceKeeps
  <1> QED
    BY <1>12, <1>14 DEF u

LEMMA PutResultComputes ==
    ASSUME OperandInv, Latched, PutResult, NEW i, i = Instruction, IsDefined(i),
           NEW w \in Fetched(i.arg, i.idx), NEW s \in Source(i)
    PROVE  Answered(i, Listed(w, Destination(i)), s, ctx'[ATOM_WS_QUOTIENT],
                    ctx'[ATOM_WS_REMAINDER], flags')
  <1>1. WalkInv /\ TableInv /\ ContextInv /\ MemoryInv /\ CardInv
    BY DEF OperandInv
  <1>2. i \in Commands /\ walk = "done" /\ pc = "put" /\ i.op \in Results
    BY <1>1, AtCommand DEF PutResult
  <1>3. i.arg \in SrcArgs /\ i.idx \in Nat /\ IsOperand(i.arg, i.idx) /\ DstAlign(i) \in Align
    BY <1>2, CommandType, DstAlignType DEF SrcArgs
  <1>4. HasValue(i.arg, i.idx) /\ i.op \notin {"clear", "move"} \cup Shift
    BY <1>2 DEF IsDefined, Results, Shift
  <1>5. w \in Dword /\ Fetched(i.arg, i.idx) = {w}
    BY <1>1, <1>2, <1>3, <1>4, FetchedOne
  <1>6. saved = w /\ dst = Lane(w, DstAlign(i))
    BY <1>2, <1>4, <1>5 DEF Latched, DstLatched, SkipsDst
  <1>7. src = s
    BY <1>2, <1>4 DEF Latched, SrcLatched, IsDefined
  <1>8. dst = Listed(w, Destination(i))
    BY <1>2, <1>3, <1>5, <1>6, LaneIs, DestinationIs
  <1>9. dst \in Dword /\ src \in Dword
    BY <1>1 DEF MemoryInv
  <1>10. Answered(i, dst, src, Quotients(i)[1], Quotients(i)[2], FlagsAfter(i))
    BY <1>1, <1>2, <1>9, AnsweredIs
  <1>11. /\ ctx'[ATOM_WS_QUOTIENT] = Quotients(i)[1]
         /\ ctx'[ATOM_WS_REMAINDER] = Quotients(i)[2]
         /\ flags' = FlagsAfter(i)
    <2>1. ATOM_WS_QUOTIENT \in DOMAIN ctx /\ ATOM_WS_REMAINDER \in DOMAIN ctx
      BY <1>1 DEF ContextInv, Wide, Member
    <2>2. ATOM_WS_QUOTIENT # ATOM_WS_REMAINDER
      BY DEF ATOM_WS_QUOTIENT, ATOM_WS_REMAINDER
    <2>3. /\ ctx' = [ctx EXCEPT ![ATOM_WS_QUOTIENT] = Quotients(i)[1],
                                ![ATOM_WS_REMAINDER] = Quotients(i)[2]]
          /\ flags' = FlagsAfter(i)
      BY DEF PutResult
    <2> QED
      BY <2>1, <2>2, <2>3
  <1> QED
    BY <1>7, <1>8, <1>10, <1>11

(* For every table, every size of a byte and every value: an operation     *)
(* changes the lane that it names to what it is on numbers of that width,  *)
(* and no other bit of the word.                                           *)
THEOREM ComputesTheorem == Spec => Computes
  <1> DEFINE Step(i) ==
        /\ i.op \in Stores /\ IsDefined(i) =>
              \A w \in Fetched(i.arg, i.idx) : \A s \in Source(i) :
                  Fetched(i.arg, i.idx)' =
                      {Keeps(i, w, Replace(w, Low(Destination(i)), Width(Destination(i)),
                                           Computed(i, w, s)))}
        /\ i.op \in Results /\ IsDefined(i) =>
              \A w \in Fetched(i.arg, i.idx) : \A s \in Source(i) :
                  Answered(i, Listed(w, Destination(i)), s, ctx'[ATOM_WS_QUOTIENT],
                           ctx'[ATOM_WS_REMAINDER], flags')
             Computing == pc = "put" /\ pc' # "put" => \A i \in {Instruction} : Step(i)
  <1>1. OperandInv /\ Latched /\ [Next]_vars => Computing
    <2> SUFFICES ASSUME OperandInv, Latched, [Next]_vars, pc = "put", pc' # "put",
                        NEW i, i = Instruction
                 PROVE  Step(i)
      OBVIOUS
    <2>1. Stores \cap Results = {} /\ "setfbbase" \notin Stores \cup Results
      BY DEF Stores, Results, Shift
    <2>2. PutDst \/ PutResult \/ FbBaseIsSet
      BY DEF Next, Begin, GetDst, GetSrc, Set, SetFbBase, Elsewhere, Terminated, vars,
             operandVars
    <2>3. CASE PutDst
      <3>1. i.op \in Stores
        BY <2>3 DEF PutDst
      <3> QED
        BY <2>1, <2>3, <3>1, PutDstComputes
    <2>4. CASE PutResult
      <3>1. i.op \in Results
        BY <2>4 DEF PutResult
      <3> QED
        BY <2>1, <2>4, <3>1, PutResultComputes
    <2>5. CASE FbBaseIsSet
      <3>1. i.op = "setfbbase"
        BY <2>5 DEF FbBaseIsSet
      <3> QED
        BY <2>1, <3>1
    <2> QED
      BY <2>2, <2>3, <2>4, <2>5
  <1>2. Init => Latched
    BY DEF Init, Latched
  <1>3. OperandInv /\ Latched /\ [Next]_vars => Latched'
    BY LatchedNext
  <1>4. Computes <=> [][Computing]_vars
    BY DEF Computes
  <1> HIDE DEF Computing
  <1> QED
    BY <1>1, <1>2, <1>3, <1>4, OperandInductive, PTL DEF Spec
=============================================================================
