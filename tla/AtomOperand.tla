------------------------------ MODULE AtomOperand ------------------------------
(***************************************************************************)
(* The operands of the command tables and what the operations make of them *)
(* (atom/atom.c): atom_get_src_int fetches a word and cuts the lane that   *)
(* an instruction asks for out of it, the operation computes, and          *)
(* atom_put_dst merges the result into the word and stores it, in a        *)
(* register, a parameter, the work space, one of the interpreter's own     *)
(* registers or the scratch area.                                          *)
(*                                                                         *)
(* One table runs, a straight line of instructions; the jumps and calls    *)
(* between such lines are in AtomExec.  Words have four bytes of ByteBits  *)
(* bits (AtomIio).  An instruction is a record: op; its destination, arg   *)
(* and idx, where sel is which lane of it; its source, src and sidx, which *)
(* for IMM is the value; align, how wide they are; num, the mask, shift or *)
(* number that follows the opcode of some.                                 *)
(***************************************************************************)
EXTENDS AtomIio

CONSTANTS
    Tables,         \* the code that may be executed
    ParamSpace,     \* ps: what the caller passes
    WorkSpace,      \* ws: cleared by kcalloc
    Registers,      \* what the registers hold at first
    Aperture,       \* ctx->size of the register service, in bytes
    ScratchSize,    \* scratch_size_bytes
    Image,          \* the words of the image, by offset
    DataTable,      \* the data tables in it
    Start,          \* where the code of the table is in it
    Shifts,         \* the number of values of a uint8_t, for shifts
    Foreign         \* what memory that is not the table's may hold

Half == 2 ^ (2 * ByteBits)

ATOM_WS_QUOTIENT == 64
ATOM_WS_REMAINDER == 65
ATOM_WS_DATAPTR == 66
ATOM_WS_SHIFT == 67
ATOM_WS_OR_MASK == 68
ATOM_WS_AND_MASK == 69
ATOM_WS_FB_WINDOW == 70
ATOM_WS_ATTRIBUTES == 71
ATOM_WS_REGPTR == 72

(* The members of struct atom_context that those operands are.             *)
Wide == {ATOM_WS_QUOTIENT, ATOM_WS_REMAINDER, ATOM_WS_FB_WINDOW}
Narrow == {ATOM_WS_DATAPTR, ATOM_WS_ATTRIBUTES, ATOM_WS_REGPTR}
Member == Wide \cup Narrow \cup {ATOM_WS_SHIFT}
Masks == {ATOM_WS_OR_MASK, ATOM_WS_AND_MASK}

(* The ATOM_SRC_*: ATOM_SRC_DWORD, the WORDs and the BYTEs.                *)
DWORD == 0
Words == 1 .. 3
Bytes == 4 .. 7
Align == {DWORD} \cup Words \cup Bytes

(* What they compute goes to the destination, or to divmul and the flags.  *)
Shift == {"shift_left", "shift_right"}
Stores == {"move", "and", "or", "xor", "add", "sub", "mask", "shl", "shr",
           "clear"} \cup Shift
Results == {"mul", "div", "mul32", "div32", "compare", "test"}
Settings == {"setport_ati", "setport_pci", "setport_sysio", "setregblock",
             "setdatablock"}

(* U16(data_table + 4 + 2 * idx), the start of the table, or nothing.      *)
DataBlock(idx) == IF idx = 0 THEN 0 ELSE IF idx = 255 THEN Start ELSE DataTable[idx]

(* A table uses the parameters and the work space that it has, and what is *)
(* written in it fits into the bytes for it.                               *)
IsOperand(arg, idx) ==
    /\ arg = "PS" => idx \in DOMAIN ParamSpace
    /\ arg = "WS" => idx \in DOMAIN WorkSpace \cup Member \cup Masks
    /\ arg = "FB" => 4 * idx < Word
    /\ arg = "IMM" => idx < Word

(* The operands that opcode_table has for a destination, and those that a  *)
(* source may be.                                                          *)
DstArgs == {"REG", "PS", "WS", "FB", "PLL", "MC"}
SrcArgs == DstArgs \cup {"ID", "IMM"}

Commands ==
    {i \in [op : Stores \cup Results \cup Settings \cup {"setfbbase"},
            arg : DstArgs, idx : Nat, sel : 0 .. 3, src : SrcArgs, sidx : Nat,
            align : Align, num : Nat] :
        /\ IsOperand(i.arg, i.idx) /\ IsOperand(i.src, i.sidx)
        /\ i.op \in Shift => i.num < Shifts
        /\ i.op = "setregblock" => i.num < Half
        /\ i.op = "setdatablock" => DataBlock(i.num) \in 0 .. Half - 1}

ASSUME TableAssumption ==
    /\ Tables \subseteq Seq(Commands) \ {<<>>}
    /\ ParamSpace \in [DOMAIN ParamSpace -> Dword]
    /\ WorkSpace \in [DOMAIN WorkSpace -> Dword]
    /\ DOMAIN WorkSpace \subseteq 0 .. ATOM_WS_QUOTIENT - 1
    /\ Image \in [DOMAIN Image -> Dword]
    /\ Foreign \subseteq Dword
    /\ Shifts \in 1 .. Word

(* The scratch area is an array of words, and this the size of it.         *)
ASSUME ScratchAssumption == ScratchSize \in Dword /\ ScratchSize % 4 = 0

(* MM_INDEX and MM_DATA are mapped, and every register has an address.     *)
ASSUME RegisterAssumption ==
    /\ Aperture \in Nat /\ Aperture > 4
    /\ Registers \in [DOMAIN Registers -> Dword]
    /\ \A r \in DOMAIN Registers : r \in Nat /\ 4 * r < Word

VARIABLES
    table, at,      \* the code that is executed, and where
    pc,             \* what part of the instruction comes next
    dst, saved, src,    \* the locals of the operations
    ps, ws, scratch,    \* the memory of the table
    ctx, io_mode,   \* its registers in the context
    flags,          \* cs_equal and cs_above
    reg,            \* the registers of the card
    mmIndex,        \* what MM_INDEX holds, a byte address
    named,          \* history: the register that REG[0] was last given
    moved,          \* history: MM_INDEX was written otherwise since then
    fb              \* history: the last access of the scratch area

memory == <<ps, ws, scratch>>
context == <<ctx, io_mode>>
card == <<reg, mmIndex, named, moved>>
operandVars == <<table, at, pc, dst, saved, src, memory, context, flags, card, fb>>
vars == <<operandVars, iioVars>>

NoAccess == [addr |-> 0, slot |-> Word, done |-> FALSE]
Slot == 0 .. ScratchSize \div 4 - 1

ATOM_IO_MM == 0
ATOM_IO_PCI == 1
ATOM_IO_SYSIO == 2

(* The context of a first execution: kzalloc clears it, and the execution  *)
(* resets what it resets to the same.                                      *)
Reset == [m \in Member |-> 0]

TypeOK ==
    /\ IioTypeOK
    /\ \A k \in DOMAIN table : table[k].align \in Align /\ table[k].sel \in 0 .. 3
    /\ at \in 1 .. Len(table) + 1
    /\ pc \in {"idle", "dst", "src", "put", "end"}
    /\ {dst, saved, src} \subseteq Dword
    /\ ps \in [DOMAIN ParamSpace -> Dword]
    /\ ws \in [DOMAIN WorkSpace -> Dword]
    /\ scratch \in [Slot -> Dword]
    /\ DOMAIN ctx = Member
    /\ \A m \in Wide : ctx[m] \in Dword
    /\ \A m \in Narrow : ctx[m] \in 0 .. Half - 1
    /\ ctx[ATOM_WS_SHIFT] \in 0 .. Shifts - 1
    /\ io_mode \in Nat
    /\ flags \in [equal : BOOLEAN, above : BOOLEAN]
    /\ reg \in [DOMAIN Registers -> Dword]
    /\ {mmIndex, named} \subseteq Dword
    /\ moved \in BOOLEAN
    /\ fb.addr \in 0 .. 2 * Word /\ fb.slot \in 0 .. Word /\ fb.done \in BOOLEAN

Init ==
    /\ IioInit
    /\ table = <<>> /\ at = 1 /\ pc = "idle"
    /\ dst = 0 /\ saved = 0 /\ src = 0
    /\ ps = ParamSpace
    /\ ws = WorkSpace
    /\ scratch = [s \in Slot |-> 0]
    /\ ctx = Reset /\ io_mode = ATOM_IO_MM
    /\ flags = [equal |-> FALSE, above |-> FALSE]
    /\ reg = Registers
    /\ mmIndex = 0 /\ named = 0 /\ moved = FALSE
    /\ fb = NoAccess

-----------------------------------------------------------------------------
(* The bits of v that are 1, and the number that has those bits: &, | and  *)
(* ^ are on the one, the arithmetic on the other.                          *)
Ones(v) == {i \in 0 .. WordBits - 1 : BitsOf(v, i, 1) = 1}
Number(ones) ==
    LET below[n \in 0 .. WordBits] ==
            IF n = 0 THEN 0
            ELSE below[n - 1] + (IF n - 1 \in ones THEN 2 ^ (n - 1) ELSE 0)
    IN  below[WordBits]

And(v, w) == Number(Ones(v) \cap Ones(w))
Or(v, w) == Number(Ones(v) \cup Ones(w))
Xor(v, w) == Number(SymDiff(Ones(v), Ones(w)))

(* From byte lo to byte hi, all ones.                                      *)
ByteMask(lo, hi) == 2 ^ (ByteBits * (hi + 1)) - 2 ^ (ByteBits * lo)

(* atom_arg_mask, atom_arg_shift                                           *)
Mask == [a \in Align |->
    CASE a = DWORD -> ByteMask(0, 3)
      [] a \in Words -> ByteMask(a - 1, a)
      [] a \in Bytes -> ByteMask(a - 4, a - 4)]
ShiftOf == [a \in Align |-> ByteBits * <<0, 0, 1, 2, 0, 1, 2, 3>>[a + 1]]

(* atom_dst_to_src, for the field sel of the attributes                    *)
DstToSrc == [a \in Align |-> [sel \in 0 .. 3 |->
    CASE a = DWORD -> DWORD
      [] a \in Words -> <<1, 2, 3, 0>>[sel + 1]
      [] a \in Bytes -> sel + 4]]

(* atom_def_dst                                                            *)
DefDst == [a \in Align |-> <<0, 0, 1, 2, 0, 1, 2, 3>>[a + 1]]

(* attr |= atom_def_dst[attr >> 3] << 6 for clear and the shifts.          *)
DstAlign(i) ==
    DstToSrc[i.align][IF i.op \in {"clear"} \cup Shift THEN DefDst[i.align] ELSE i.sel]

(* val &= atom_arg_mask[align]; val >>= atom_arg_shift[align];             *)
Lane(v, a) == And(v, Mask[a]) \div 2 ^ ShiftOf[a]

MergeUnshifted(v, old, a) == Or(And(v, Mask[a]), And(old, Word - 1 - Mask[a]))

(* val <<= shift; val &= mask; saved &= ~mask; val |= saved;               *)
Merge(v, old, a) ==
    Or(And((v * 2 ^ ShiftOf[a]) % Word, Mask[a]), And(old, Word - 1 - Mask[a]))

(* What v << s and v >> s may give.  A shift by more than the word has     *)
(* bits is undefined in C: the processor takes it modulo them, or gives 0. *)
Left(v, s) ==
    IF s < WordBits THEN {(v * 2 ^ s) % Word}
    ELSE {0, (v * 2 ^ (s % WordBits)) % Word}
Right(v, s) ==
    IF s < WordBits THEN {v \div 2 ^ s} ELSE {0, v \div 2 ^ (s % WordBits)}

-----------------------------------------------------------------------------
(* if ((reg * 4) < ctx->size), in reg_read and reg_write                   *)
InAperture(r) == (4 * r) % Word < Aperture

(* The register behind r; MM_DATA is the one that MM_INDEX names.          *)
Target(r) == IF r = 1 THEN mmIndex \div 4 ELSE r

RegValue(r) ==
    IF r = 0 THEN mmIndex
    ELSE IF Target(r) \in DOMAIN reg THEN reg[Target(r)] ELSE 0

(* A register beyond the aperture is reached through MM_INDEX.             *)
Reach(r) ==
    IF InAperture(r) THEN UNCHANGED <<mmIndex, moved>>
    ELSE mmIndex' = (4 * r) % Word /\ moved' = TRUE

(* idx += gctx->reg_block                                                  *)
RegNumber(idx) == idx + ctx[ATOM_WS_REGPTR]

ReadMethod == io_mode % 128

(* gctx->fb_base + idx * 4 as C computes it, and where scratch[] is then   *)
(* indexed.                                                                *)
FbAddr(idx) == (ctx[ATOM_WS_FB_WINDOW] + 4 * idx) % Word
FbSlot(idx) == ctx[ATOM_WS_FB_WINDOW] \div 4 + idx

FbBeyondOutOfWindow(idx) == 4 * idx > ScratchSize

(* if ((gctx->fb_base + (idx * 4)) > gctx->scratch_size_bytes)             *)
FbBeyond(idx) == FbAddr(idx) > ScratchSize

FbAccess(idx) ==
    fb' = [addr |-> ctx[ATOM_WS_FB_WINDOW] + 4 * idx, slot |-> FbSlot(idx), done |-> ~ FbBeyond(idx)]

(* 1 << gctx->shift and its complement                                     *)
OrMasks == Left(1, ctx[ATOM_WS_SHIFT])

(* CU32(idx + gctx->data_block), which nothing keeps in the image          *)
InImage(idx) == idx + ctx[ATOM_WS_DATAPTR] \in DOMAIN Image

(* The words that the operand may be read as.  The mc, pll and io ports    *)
(* are __invalid_read, which gives 0 (aura-gpu-hw.c:109-116).              *)
Fetched(arg, idx) ==
    CASE arg = "PS"  -> {ps[idx]}
      [] arg = "WS"  -> (CASE idx = ATOM_WS_OR_MASK -> OrMasks
                           [] idx = ATOM_WS_AND_MASK -> {Word - 1 - w : w \in OrMasks}
                           [] idx \in Member -> {ctx[idx]}
                           [] idx \in DOMAIN ws -> {ws[idx]})
      [] arg = "ID"  -> IF InImage(idx) THEN {Image[idx + ctx[ATOM_WS_DATAPTR]]} ELSE Foreign
      [] arg = "FB"  -> IF FbBeyond(idx) THEN {0}
                        ELSE IF FbSlot(idx) \in Slot THEN {scratch[FbSlot(idx)]}
                        ELSE Foreign
      [] arg = "IMM" -> {idx}
      [] arg \in {"PLL", "MC"} -> {0}
      [] arg = "REG" ->
            IF io_mode = ATOM_IO_MM THEN {RegValue(RegNumber(idx))}
            ELSE {IioExecute(iio[ReadMethod], RegNumber(idx), ctx[ATOM_WS_ATTRIBUTES], 0)}

(* return 0: PCI, SYSIO and a method that the image does not have.         *)
Unreachable(arg, method) ==
    /\ arg = "REG"
    /\ io_mode # ATOM_IO_MM
    /\ io_mode \in {ATOM_IO_PCI, ATOM_IO_SYSIO} \/ method \notin DOMAIN iio

(* What a fetch does besides: MM_INDEX moves, the scratch area is used.    *)
Access(arg, idx) ==
    /\ IF arg = "REG" /\ io_mode = ATOM_IO_MM
       THEN Reach(RegNumber(idx)) /\ UNCHANGED <<reg, named>>
       ELSE UNCHANGED card
    /\ IF arg = "FB" THEN FbAccess(idx) ELSE UNCHANGED fb

-----------------------------------------------------------------------------
Instruction == table[at]

Go(next) == pc' = next /\ UNCHANGED <<table, at>>

(* The next instruction, or the end of the table.                          *)
Continue ==
    /\ at' = at + 1
    /\ pc' = IF at = Len(table) THEN "end" ELSE "dst"
    /\ UNCHANGED table

(* atom_execute_table, once the image is parsed                            *)
Begin ==
    /\ walk = "done"
    /\ pc = "idle"
    /\ table' \in Tables
    /\ pc' = "dst"
    /\ ctx' = Reset /\ io_mode' = ATOM_IO_MM
    /\ UNCHANGED <<at, dst, saved, src, memory, flags, card, fb, iioVars>>

(* A move of a dword has no use for what is there.                         *)
SkipsDst(i) == i.op = "move" /\ i.align = DWORD

(* atom_get_dst; when the word cannot be reached, saved is not written.    *)
GetDst ==
    /\ pc = "dst"
    /\ Instruction.op \in Stores \cup Results
    /\ LET i == Instruction
       IN  IF SkipsDst(i)
           THEN saved' = Poison /\ UNCHANGED <<dst, card, fb>>
           ELSE IF Unreachable(i.arg, ReadMethod)
           THEN dst' = 0 /\ saved' \in Foreign /\ UNCHANGED <<card, fb>>
           ELSE /\ saved' \in Fetched(i.arg, i.idx)
                /\ dst' = Lane(saved', DstAlign(i))
                /\ Access(i.arg, i.idx)
    /\ Go(IF Instruction.op = "clear" THEN "put" ELSE "src")
    /\ UNCHANGED <<src, memory, context, flags, iioVars>>

(* atom_get_src, and atom_get_src_direct for the shifts                    *)
GetSrc ==
    /\ pc = "src"
    /\ LET i == Instruction
       IN  IF i.op \in Shift \/ i.src = "IMM"
           THEN src' = (IF i.op \in Shift THEN i.num ELSE i.sidx) /\ UNCHANGED <<card, fb>>
           ELSE IF Unreachable(i.src, ReadMethod)
           THEN src' = 0 /\ UNCHANGED <<card, fb>>
           ELSE /\ src' \in {Lane(w, i.align) : w \in Fetched(i.src, i.sidx)}
                /\ Access(i.src, i.sidx)
    /\ Go("put")
    /\ UNCHANGED <<dst, saved, memory, context, flags, iioVars>>

(* What the operation gives atom_put_dst.  shl and shr shift the whole     *)
(* word, and cut the lane out of it afterwards.                            *)
Outcomes(i) ==
    CASE i.op = "move"  -> {src}
      [] i.op = "clear" -> {0}
      [] i.op = "and"   -> {And(dst, src)}
      [] i.op = "or"    -> {Or(dst, src)}
      [] i.op = "xor"   -> {Xor(dst, src)}
      [] i.op = "mask"  -> {Or(And(dst, i.num), src)}
      [] i.op = "add"   -> {(dst + src) % Word}
      [] i.op = "sub"   -> {(dst - src) % Word}
      [] i.op = "shift_left"  -> Left(dst, src)
      [] i.op = "shift_right" -> Right(dst, src)
      [] i.op = "shl" -> {Lane(w, DstAlign(i)) : w \in Left(saved, src % Shifts)}
      [] i.op = "shr" -> {Lane(w, DstAlign(i)) : w \in Right(saved, src % Shifts)}

IndexAsIs(v) == v

(* if (idx == 0) reg_write(idx, val << 2)                                  *)
IndexOf(v) == (4 * v) % Word

(* reg_write of v to register r                                            *)
WriteReg(r, v) ==
    IF r = 0
    THEN mmIndex' = IndexOf(v) /\ named' = v /\ moved' = FALSE /\ UNCHANGED reg
    ELSE /\ reg' = IF Target(r) \in DOMAIN reg THEN [reg EXCEPT ![Target(r)] = v] ELSE reg
         /\ Reach(r)
         /\ UNCHANGED named

FitsAll(m, v) == v

(* A member of the context keeps what fits into it.                        *)
Fits(m, v) ==
    CASE m \in Wide -> v
      [] m \in Narrow -> v % Half
      [] m = ATOM_WS_SHIFT -> v % Shifts

(* atom_put_dst                                                            *)
PutDst ==
    /\ pc = "put"
    /\ Instruction.op \in Stores
    /\ LET i == Instruction
           a == i.arg
           x == i.idx
       IN  \E v \in {Merge(o, saved, DstAlign(i)) : o \in Outcomes(i)} :
              /\ ps' = IF a = "PS" THEN [ps EXCEPT ![x] = v] ELSE ps
              /\ ws' = IF a = "WS" /\ x \in DOMAIN ws THEN [ws EXCEPT ![x] = v] ELSE ws
              /\ ctx' = IF a = "WS" /\ x \in Member
                        THEN [ctx EXCEPT ![x] = Fits(x, v)] ELSE ctx
              /\ scratch' = IF a = "FB" /\ ~ FbBeyond(x) /\ FbSlot(x) \in Slot
                            THEN [scratch EXCEPT ![FbSlot(x)] = v] ELSE scratch
              /\ IF a = "FB" THEN FbAccess(x) ELSE UNCHANGED fb
              /\ IF a = "REG" /\ io_mode = ATOM_IO_MM
                 THEN WriteReg(RegNumber(x), v) ELSE UNCHANGED card
    /\ Continue
    /\ UNCHANGED <<dst, saved, src, io_mode, flags, iioVars>>

(* mul, div, mul32, div32 leave their results in divmul, compare and test  *)
(* in the flags.                                                           *)
Quotients(i) ==
    CASE i.op = "mul"   -> <<(dst * src) % Word, ctx[ATOM_WS_REMAINDER]>>
      [] i.op = "mul32" -> <<(dst * src) % Word, (dst * src) \div Word>>
      [] i.op = "div"   -> IF src = 0 THEN <<0, 0>> ELSE <<dst \div src, dst % src>>
      [] i.op = "div32" -> IF src = 0 THEN <<0, 0>>
                           ELSE LET q == (Word * ctx[ATOM_WS_REMAINDER] + dst) \div src
                                IN  <<q % Word, q \div Word>>
      [] i.op \in {"compare", "test"} -> <<ctx[ATOM_WS_QUOTIENT], ctx[ATOM_WS_REMAINDER]>>

FlagsAfter(i) ==
    CASE i.op = "compare" -> [equal |-> dst = src, above |-> dst > src]
      [] i.op = "test" -> [flags EXCEPT !.equal = And(dst, src) = 0]
      [] i.op \notin {"compare", "test"} -> flags

PutResult ==
    /\ pc = "put"
    /\ Instruction.op \in Results
    /\ ctx' = [ctx EXCEPT ![ATOM_WS_QUOTIENT] = Quotients(Instruction)[1],
                          ![ATOM_WS_REMAINDER] = Quotients(Instruction)[2]]
    /\ flags' = FlagsAfter(Instruction)
    /\ Continue
    /\ UNCHANGED <<dst, saved, src, memory, io_mode, card, fb, iioVars>>

(* ATOM_IO_IIO | port                                                      *)
PortMode(port) ==
    IF port = 0 THEN ATOM_IO_MM
    ELSE IF (port \div 128) % 2 = 1 THEN port ELSE port + 128

(* atom_op_setport, atom_op_setregblock, atom_op_setdatablock              *)
Set ==
    /\ pc = "dst"
    /\ Instruction.op \in Settings
    /\ LET i == Instruction
       IN  /\ io_mode' = CASE i.op = "setport_ati" -> PortMode(i.num)
                           [] i.op = "setport_pci" -> ATOM_IO_PCI
                           [] i.op = "setport_sysio" -> ATOM_IO_SYSIO
                           [] OTHER -> io_mode
           /\ ctx' = CASE i.op = "setregblock" -> [ctx EXCEPT ![ATOM_WS_REGPTR] = i.num]
                       [] i.op = "setdatablock" ->
                              [ctx EXCEPT ![ATOM_WS_DATAPTR] = DataBlock(i.num)]
                       [] OTHER -> ctx
    /\ Continue
    /\ UNCHANGED <<dst, saved, src, memory, flags, card, fb, iioVars>>

(* atom_op_setfbbase: it has a source, and no destination.                 *)
SetFbBase ==
    /\ pc = "dst"
    /\ Instruction.op = "setfbbase"
    /\ Go("src")
    /\ UNCHANGED <<dst, saved, src, memory, context, flags, card, fb, iioVars>>

FbBaseIsSet ==
    /\ pc = "put"
    /\ Instruction.op = "setfbbase"
    /\ ctx' = [ctx EXCEPT ![ATOM_WS_FB_WINDOW] = src]
    /\ Continue
    /\ UNCHANGED <<dst, saved, src, memory, io_mode, flags, card, fb, iioVars>>

(* Another user of the card reaches a register beyond the aperture: the    *)
(* spinlock of reg.c is free between two accesses of a table.              *)
Elsewhere ==
    /\ pc \in {"dst", "src", "put"}
    /\ ~ moved
    /\ mmIndex' \in {4 * r : r \in {n \in DOMAIN reg : ~ InAperture(n)}}
    /\ moved' = TRUE
    /\ UNCHANGED <<table, at, pc, dst, saved, src, memory, context, flags, reg,
                   named, fb, iioVars>>

Terminated == pc = "end" /\ UNCHANGED vars

Next ==
    \/ Index /\ UNCHANGED operandVars
    \/ Begin \/ GetDst \/ GetSrc \/ PutDst \/ PutResult \/ Set
    \/ SetFbBase \/ FbBaseIsSet
    \/ Elsewhere \/ Terminated

Spec == Init /\ [][Next]_vars

-----------------------------------------------------------------------------
(* The bits of a word that the listing of a table names: .[31:0], .[15:0], *)
(* .[23:8], .[31:16], and .[7:0] to .[31:24] (atom/atom.c:302-327).        *)
Low(a) == ByteBits * (CASE a = DWORD -> 0 [] a \in Words -> a - 1 [] a \in Bytes -> a - 4)
Width(a) == ByteBits * (CASE a = DWORD -> 4 [] a \in Words -> 2 [] a \in Bytes -> 1)
Listed(v, a) == BitsOf(v, Low(a), Width(a))

(* The lane of the destination that i names; the last selector of a word   *)
(* stands for the whole dword.                                             *)
Destination(i) ==
    CASE i.align = DWORD -> DWORD
      [] i.align # DWORD /\ i.op \in {"clear"} \cup Shift -> i.align
      [] i.align \in Words /\ i.op \notin {"clear"} \cup Shift ->
             IF i.sel = 3 THEN DWORD ELSE i.sel + 1
      [] i.align \in Bytes /\ i.op \notin {"clear"} \cup Shift -> i.sel + 4

BitByBit(v, w, Op(_, _)) ==
    Number({b \in 0 .. WordBits - 1 : Op(BitsOf(v, b, 1), BitsOf(w, b, 1)) = 1})
Both(x, y) == x * y
Either(x, y) == x + y - x * y
Differ(x, y) == (x + y) % 2

(* What the lane holds after i, of a word that was w and with s for the    *)
(* source: the operation on the lane alone, modulo its width.              *)
Computed(i, w, s) ==
    LET a == Destination(i)
        d == Listed(w, a)
        n == 2 ^ Width(a)
    IN  CASE i.op = "move"  -> s % n
          [] i.op = "clear" -> 0
          [] i.op = "and"   -> BitByBit(d, s, Both)
          [] i.op = "or"    -> BitByBit(d, s, Either) % n
          [] i.op = "xor"   -> BitByBit(d, s, Differ) % n
          [] i.op = "mask"  -> BitByBit(BitByBit(d, i.num, Both), s, Either) % n
          [] i.op = "add"   -> (d + s) % n
          [] i.op = "sub"   -> (d - s) % n
          [] i.op = "shift_left"  -> (d * 2 ^ s) % n
          [] i.op = "shift_right" -> d \div 2 ^ s
          [] i.op = "shl" -> Listed((w * 2 ^ (s % Shifts)) % Word, a)
          [] i.op = "shr" -> Listed(w \div 2 ^ (s % Shifts), a)

(* What q, r and the flags are after i on a lane d and a source s.         *)
Answered(i, d, s, q, r, f) ==
    CASE i.op = "mul"   -> q = (d * s) % Word
      [] i.op = "mul32" -> r * Word + q = d * s
      [] i.op = "div"   -> IF s = 0 THEN q = 0 /\ r = 0 ELSE q * s + r = d /\ r < s
      [] i.op = "div32" ->
            LET over == ctx[ATOM_WS_REMAINDER] * Word + d
                all == r * Word + q
            IN  IF s = 0 THEN all = 0 ELSE all * s <= over /\ over < (all + 1) * s
      [] i.op = "compare" -> f = [equal |-> d = s, above |-> d > s]
      [] i.op = "test"  -> f = [flags EXCEPT !.equal = BitByBit(d, s, Both) = 0]

(* What the place keeps of the word v; w is what it has.                   *)
Keeps(i, w, v) ==
    CASE i.arg \in {"PLL", "MC"} -> 0
      [] i.arg = "FB" /\ FbBeyond(i.idx) -> 0
      [] i.arg = "WS" /\ i.idx \in Masks -> w
      [] i.arg = "WS" /\ i.idx \in Member -> Fits(i.idx, v)
      [] i.arg = "REG" /\ io_mode # ATOM_IO_MM -> w
      [] i.arg = "REG" /\ io_mode = ATOM_IO_MM ->
            IF RegNumber(i.idx) = 0 THEN (4 * v) % Word
            ELSE IF Target(RegNumber(i.idx)) \in DOMAIN reg THEN v ELSE w
      [] OTHER -> v

(* An operand has a value: its register can be reached, MM_INDEX has not   *)
(* moved under it, it is in the image, in the scratch area or refused, and *)
(* no shift is by more than a word has bits.                               *)
HasValue(arg, idx) ==
    /\ ~ Unreachable(arg, ReadMethod)
    /\ ~ (arg = "REG" /\ moved /\ RegNumber(idx) \in {0, 1})
    /\ arg = "ID" => InImage(idx)
    /\ arg = "FB" => FbBeyond(idx) \/ FbSlot(idx) \in Slot
    /\ arg = "WS" /\ idx \in Masks => ctx[ATOM_WS_SHIFT] < WordBits

Source(i) ==
    CASE i.op = "clear" -> {0}
      [] i.op \in Shift -> {i.num}
      [] i.op \notin {"clear"} \cup Shift ->
            IF i.src = "IMM" THEN {i.sidx}
            ELSE {Listed(w, i.align) : w \in Fetched(i.src, i.sidx)}

IsDefined(i) ==
    /\ HasValue(i.arg, i.idx)
    /\ i.op \notin {"clear"} \cup Shift => HasValue(i.src, i.sidx)
    /\ i.op \in {"shl", "shr"} \cup Shift =>
          \A s \in Source(i) : s % Shifts < WordBits

(* Every operation changes the lane that its listing names and no other    *)
(* bit of the word it stores, to what the operation is on numbers of that  *)
(* width; the products, quotients and flags of the others are those of the *)
(* lanes they read (atom_get_src_int, atom_put_dst).                       *)
Computes == [][
    pc = "put" /\ pc' # "put" => \A i \in {Instruction} :
        /\ i.op \in Stores /\ IsDefined(i) =>
              \A w \in Fetched(i.arg, i.idx) : \A s \in Source(i) :
                  Fetched(i.arg, i.idx)' =
                      {Keeps(i, w, Replace(w, Low(Destination(i)), Width(Destination(i)),
                                           Computed(i, w, s)))}
        /\ i.op \in Results /\ IsDefined(i) =>
              \A w \in Fetched(i.arg, i.idx) : \A s \in Source(i) :
                  Answered(i, Listed(w, Destination(i)), s, ctx'[ATOM_WS_QUOTIENT],
                           ctx'[ATOM_WS_REMAINDER], flags')]_vars

(* REG[1] is the register whose number the table last wrote to REG[0],     *)
(* unless a register beyond the aperture was reached since then, by this   *)
(* table or by another user of the card (atom_put_dst, reg_write).         *)
DataIsNamedUnlessMoved == ~ moved => Target(1) = named % (Word \div 4)

(* An access inside the scratch area is done, and one that is done is      *)
(* inside, unless it is of the dword just after the area, which the        *)
(* comparison lets pass, or its address wraps around 32 bits.              *)
ScratchUnlessEdge ==
    fb.done # (fb.slot \in Slot) =>
        fb.addr = ScratchSize \/ fb.addr >= Word
=============================================================================
