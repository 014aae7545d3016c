--------------------------- MODULE MC_RegService ---------------------------
(* Two threads, a register at the last word of the aperture and the first  *)
(* one beyond it, which is updated field by field under the caller's       *)
(* mutex; and one more beyond, read and written without it.                *)
EXTENDS RegService

Const(b) == [f \in Field |-> b]

MCReg == {7, 8, 9}
MCGuarded == {8}
MCOp ==
    {[kind |-> "write", reg |-> 7, value |-> Const(1)],
     [kind |-> "read",  reg |-> 8],
     [kind |-> "read",  reg |-> 9],
     [kind |-> "write", reg |-> 9, value |-> Const(0)]} \cup
    {[kind |-> "update", reg |-> 8, fields |-> [g \in {f} |-> 1]] : f \in Field}
=============================================================================
