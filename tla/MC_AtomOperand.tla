---------------------------- MODULE MC_AtomOperand ----------------------------
(* Bytes of two bits, so words of eight.  Every single operation in every  *)
(* alignment and with every selector, on a few operands; and every three   *)
(* instructions out of a small set that moves the windows, the ports and   *)
(* MM_INDEX.  The aperture has four registers, and the card six.           *)
EXTENDS AtomOperand

Do(op, arg, idx, sel, from, sidx, align, num) ==
    [op |-> op, arg |-> arg, idx |-> idx, sel |-> sel,
     src |-> from, sidx |-> sidx, align |-> align, num |-> num]

SetTo(op, num) == Do(op, "PS", 0, 0, "IMM", 0, 0, num)
MoveTo(arg, idx, v) == Do("move", arg, idx, 0, "IMM", v, 0, 0)
MoveFrom(from, sidx) == Do("move", "PS", 0, 0, from, sidx, 0, 0)

(* The immediate operands that an alignment has room for.                  *)
MCValues(a) == {0, 1, 3} \cup IF a = 0 THEN {100} ELSE IF a \in 1 .. 3 THEN {14} ELSE {}

Single ==
    {<<Do(op, "PS", 0, sel, "PS", 1, a, 3)>> :
        op \in Stores \cup Results, sel \in 0 .. 3, a \in Align} \cup
    UNION {{<<Do(op, dest[1], dest[2], 1, "IMM", v, a, 2)>> :
        op \in Stores \cup Results, v \in MCValues(a),
        dest \in {<<"WS", 0>>, <<"REG", 2>>}} : a \in Align} \cup
    {<<Do(op, "PS", 1, sel, "PS", 2, a, 1)>> :
        op \in {"shl", "shr", "add", "mask"}, sel \in {0, 3}, a \in Align}

Steps == {
    MoveTo("REG", 0, 3), MoveTo("REG", 0, 2), MoveFrom("REG", 5),
    MoveTo("REG", 1, 77), MoveFrom("REG", 1),
    Do("add", "REG", 1, 0, "REG", 4, 0, 0), Do("or", "REG", 0, 1, "IMM", 1, 5, 0),
    SetTo("setregblock", 2), SetTo("setport_ati", 1), SetTo("setport_pci", 0),
    MoveTo("WS", ATOM_WS_SHIFT, 9), MoveTo("WS", ATOM_WS_DATAPTR, 18),
    MoveTo("WS", ATOM_WS_FB_WINDOW, 250), Do("setfbbase", "PS", 0, 0, "PS", 2, 0, 0),
    Do("add", "FB", 1, 2, "WS", ATOM_WS_OR_MASK, 4, 0), Do("xor", "FB", 2, 0, "ID", 1, 0, 0),
    Do("mul32", "PS", 0, 0, "PS", 1, 0, 0),
    Do("div32", "PS", 1, 0, "WS", ATOM_WS_ATTRIBUTES, 0, 0),
    Do("shr", "PS", 1, 2, "PS", 2, 5, 0)}

Rare == {
    SetTo("setport_ati", 0), SetTo("setport_ati", 3), SetTo("setdatablock", 1),
    SetTo("setdatablock", 255), SetTo("setport_sysio", 0),
    MoveTo("PLL", 0, 5), Do("add", "MC", 1, 1, "PLL", 0, 6, 0),
    MoveTo("WS", ATOM_WS_ATTRIBUTES, 11), MoveTo("WS", ATOM_WS_OR_MASK, 1),
    Do("and", "WS", ATOM_WS_AND_MASK, 0, "WS", ATOM_WS_REMAINDER, 0, 0)}

MCTables ==
    Single \cup {<<a, b, c>> : a \in Steps, b \in Steps, c \in Steps}
    \cup {<<r, s>> : r \in Rare, s \in Steps} \cup {<<s, r>> : r \in Rare, s \in Steps}

MCParamSpace == [i \in 0 .. 2 |-> <<201, 118, 10>>[i + 1]]
MCWorkSpace == [i \in {0} |-> 0]
MCRegisters == [r \in 2 .. 5 |-> 40 * r + 1]
MCDataTable == <<12, 7>>
MCImage == [o \in 0 .. 40 |-> (37 * o + 11) % 256]

Ins(op, args) == [op |-> op, args |-> args]

(* Operands that look like END and START, a method that is defined twice,  *)
(* an empty one, and ports that lack one of their two methods.             *)
MCIioList == {
    <<[id |-> 1, body |-> <<Ins(ATOM_IIO_SET, <<2, 1>>), Ins(ATOM_IIO_NOP, <<>>)>>],
      [id |-> 129, body |-> <<Ins(ATOM_IIO_MOVE_INDEX, <<3, 5, 1>>)>>],
      [id |-> 1, body |-> <<Ins(ATOM_IIO_CLEAR, <<8, 0>>),
                            Ins(ATOM_IIO_MOVE_INDEX, <<1, 1, 1>>),
                            Ins(ATOM_IIO_WRITE, <<9, 9>>),
                            Ins(ATOM_IIO_MOVE_ATTR, <<2, 0, 4>>)>>],
      [id |-> 131, body |-> <<Ins(ATOM_IIO_READ, <<9, 1>>),
                              Ins(ATOM_IIO_MOVE_DATA, <<4, 1, 3>>)>>],
      [id |-> 2, body |-> <<>>]>>}
=============================================================================
