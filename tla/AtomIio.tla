------------------------------- MODULE AtomIio --------------------------------
(***************************************************************************)
(* Index-IO: the little programs by which a command table reaches          *)
(* registers that are not mapped (atom/atom.c).  atom_index_iio walks the  *)
(* list of programs in the image once and notes where each one starts;     *)
(* atom_iio_execute runs one of them for a register access.                *)
(*                                                                         *)
(* The walk and the execution each have their own idea of how long an      *)
(* instruction is, and the bytes of an operand may look like opcodes, so   *)
(* the image is modelled byte by byte.  A register of the card has four    *)
(* bytes of ByteBits bits each.                                            *)
(***************************************************************************)
EXTENDS Integers, Sequences, SequencesExt

CONSTANTS
    ByteBits,   \* the bits of a byte of a register, 8 in the code
    IioList,    \* the lists of programs that an image may have
    Sample      \* the register numbers and values that they are tried with

ASSUME ByteAssumption == ByteBits \in Nat \ {0}

WordBits == 4 * ByteBits
Base == 2 ^ ByteBits
Word == 2 ^ WordBits
Dword == 0 .. Word - 1

ATOM_IIO_NOP == 0
ATOM_IIO_START == 1
ATOM_IIO_READ == 2
ATOM_IIO_WRITE == 3
ATOM_IIO_CLEAR == 4
ATOM_IIO_SET == 5
ATOM_IIO_MOVE_INDEX == 6
ATOM_IIO_MOVE_ATTR == 7
ATOM_IIO_MOVE_DATA == 8
ATOM_IIO_END == 9

Move == {ATOM_IIO_MOVE_INDEX, ATOM_IIO_MOVE_ATTR, ATOM_IIO_MOVE_DATA}

(* The program of method id; args are the bytes after the opcode.          *)
Body(list, i) == list[i].body

(* Two bytes follow the END of a program, and none of them has a meaning.  *)
Assemble(list) ==
    FlattenSeq([i \in DOMAIN list |->
        <<ATOM_IIO_START, list[i].id>>
        \o FlattenSeq([j \in DOMAIN Body(list, i) |->
                         <<Body(list, i)[j].op>> \o Body(list, i)[j].args])
        \o <<ATOM_IIO_END, ATOM_IIO_END, ATOM_IIO_START>>])
    \o <<ATOM_IIO_NOP>>

Byte == 0 .. 255
Method == Byte

(* The operands are of no use, or how many bits of temp the instruction    *)
(* changes and, last, which is the lowest; a move has in between the       *)
(* lowest of those that it takes.  The bits are those of a register, and   *)
(* there are some: a shift by all the bits of a word is undefined in C.    *)
Instructions ==
    [op : {ATOM_IIO_NOP}, args : {<<>>}]
    \cup [op : {ATOM_IIO_READ, ATOM_IIO_WRITE}, args : Byte \X Byte]
    \cup [op : {ATOM_IIO_CLEAR, ATOM_IIO_SET},
          args : {a \in Byte \X Byte : a[1] > 0 /\ a[1] + a[2] <= WordBits}]
    \cup [op : Move,
          args : {a \in Byte \X Byte \X Byte :
                     a[1] > 0 /\ a[2] < WordBits /\ a[1] + a[3] <= WordBits}]

ASSUME IioAssumption ==
    /\ IioList \subseteq Seq([id : Method, body : Seq(Instructions)])
    /\ Sample \subseteq Dword

VARIABLES
    list,       \* the programs of the image
    image,      \* its bytes
    base,       \* where the walk is
    walk,       \* "program", "body" or "done"
    iio         \* ctx->iio: where the program of a method is; its
                \* domain is the methods whose entry is not 0

iioVars == <<list, image, base, walk, iio>>

(* The entries are cleared by kzalloc.                                     *)
IioInit ==
    /\ list \in IioList
    /\ image = Assemble(list)
    /\ base = 1
    /\ walk = "program"
    /\ iio = <<>>

IioTypeOK ==
    /\ list \in IioList
    /\ base \in 1 .. Len(image)
    /\ walk \in {"program", "body", "done"}
    /\ DOMAIN iio \subseteq Method /\ Range(iio) \subseteq 1 .. Len(image)

-----------------------------------------------------------------------------
(* while (CU8(base) == ATOM_IIO_START)                                     *)
IndexProgram ==
    /\ walk = "program"
    /\ image[base] = ATOM_IIO_START
    /\ iio' = [m \in DOMAIN iio \cup {image[base + 1]} |->
                  IF m = image[base + 1] THEN base + 2 ELSE iio[m]]
    /\ base' = base + 2
    /\ walk' = "body"
    /\ UNCHANGED <<list, image>>

IndexDone ==
    /\ walk = "program"
    /\ image[base] # ATOM_IIO_START
    /\ walk' = "done"
    /\ UNCHANGED <<list, image, base, iio>>

(* atom_iio_len                                                            *)
IioLen == [op \in ATOM_IIO_NOP .. ATOM_IIO_END |->
              <<1, 2, 3, 3, 3, 3, 4, 4, 4, 3>>[op + 1]]

(* while (CU8(base) != ATOM_IIO_END)                                       *)
IndexSkip ==
    /\ walk = "body"
    /\ image[base] # ATOM_IIO_END
    /\ base' = base + IioLen[image[base]]
    /\ UNCHANGED <<list, image, walk, iio>>

AfterEndAlone(b) == b + 1

(* base += 3                                                               *)
AfterEnd(b) == b + 3

IndexEnd ==
    /\ walk = "body"
    /\ image[base] = ATOM_IIO_END
    /\ base' = AfterEnd(base)
    /\ walk' = "program"
    /\ UNCHANGED <<list, image, iio>>

Index == IndexProgram \/ IndexDone \/ IndexSkip \/ IndexEnd

-----------------------------------------------------------------------------
(* n bits of v from bit at on.                                             *)
BitsOf(v, at, n) == (v \div 2 ^ at) % 2 ^ n

(* v with those n bits replaced by the low bits of new.                    *)
Replace(v, at, n, new) ==
    v - BitsOf(v, at, n) * 2 ^ at + (new % 2 ^ n) * 2 ^ at

(* What the instruction with operands a makes of temp; from is what the    *)
(* moves take their bits from.  The ports are __invalid_read, which reads  *)
(* 0, and __invalid_write, which does nothing (aura-gpu-hw.c:109-124).     *)
IioEffect(op, a, temp, from) ==
    CASE op = ATOM_IIO_READ  -> 0
      [] op = ATOM_IIO_CLEAR -> Replace(temp, a[2], a[1], 0)
      [] op = ATOM_IIO_SET   -> Replace(temp, a[2], a[1], 2 ^ a[1] - 1)
      [] op \in Move         -> Replace(temp, a[3], a[1], from[op] \div 2 ^ a[2])
      [] OTHER               -> temp

(* How far atom_iio_execute moves on.                                      *)
IioAdvance(op) ==
    CASE op = ATOM_IIO_NOP -> 1
      [] op \in {ATOM_IIO_READ, ATOM_IIO_WRITE, ATOM_IIO_CLEAR, ATOM_IIO_SET} -> 3
      [] op \in Move -> 4

(* 0xCDCDCDCD, what temp starts as: every byte of it the same.             *)
Poison == (Base - 2) * ((Word - 1) \div (Base - 1))

From(index, attr, data) ==
    [op \in Move |-> CASE op = ATOM_IIO_MOVE_INDEX -> index
                       [] op = ATOM_IIO_MOVE_ATTR -> attr
                       [] op = ATOM_IIO_MOVE_DATA -> data]

(* One instruction, at byte s.at, with s.temp so far: END, START and what   *)
(* is no opcode go no further.                                             *)
IioStep(from) == [s \in [at : Nat, temp : Dword] |->
    LET op == image[s.at]
        next == s.at + IioAdvance(op)
    IN  CASE op = ATOM_IIO_END -> s
          [] op = ATOM_IIO_START \/ op > ATOM_IIO_END -> [s EXCEPT !.temp = 0]
          [] OTHER -> [at |-> next,
                       temp |-> IioEffect(op, SubSeq(image, s.at + 1, next - 1), s.temp, from)]]

(* atom_iio_execute from byte b of the image on: no program has more       *)
(* instructions than the image has bytes.                                  *)
IioExecute(b, index, attr, data) ==
    LET run[n \in 0 .. Len(image)] ==
            IF n = 0 THEN [at |-> b, temp |-> Poison]
            ELSE IioStep(From(index, attr, data))[run[n - 1]]
    IN  run[Len(image)].temp

-----------------------------------------------------------------------------
(* What the program means: its instructions one after the other.           *)
Meaning(body, index, attr, data) ==
    LET after[n \in 0 .. Len(body)] ==
            IF n = 0 THEN Poison
            ELSE IioEffect(body[n].op, body[n].args, after[n - 1], From(index, attr, data))
    IN  after[Len(body)]

(* Each method is there, and runs as its last program in the list means.   *)
AllRun ==
    /\ DOMAIN iio = {list[i].id : i \in DOMAIN list}
    /\ \A m \in DOMAIN iio :
          LET i == Max({k \in DOMAIN list : list[k].id = m})
          IN  \A index, attr, data \in Sample :
                  IioExecute(iio[m], index, attr, data)
                      = Meaning(Body(list, i), index, attr, data)

(* When the walk over the image ends, the method of every port is the last *)
(* program that the image has for it, it runs through all of that program  *)
(* and no further, whatever bytes its operands have, and ports without a   *)
(* program have no method (atom_index_iio and atom_iio_execute agree).     *)
IioRuns == [][walk # "done" /\ walk' = "done" => AllRun']_iioVars
=============================================================================
