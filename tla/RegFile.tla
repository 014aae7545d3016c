------------------------------ MODULE RegFile ------------------------------
(***************************************************************************)
(* What aura-gpu-reg.c promises its callers: a file of registers on which  *)
(* every reg_read, reg_write and reg_update_ex takes effect at one instant *)
(* between its call and its return.                                        *)
(*                                                                         *)
(* A register value is a function from Field to Bit: the callers only name *)
(* bits through the masks of reg_fields (aura-gpu-reg.h), so a set of      *)
(* disjoint fields is all of a 32-bit value that they can tell apart.      *)
(* The assumptions on the constants are in RegService, which implements    *)
(* this file of registers.                                                 *)
(***************************************************************************)
CONSTANTS
    Thread,     \* the kernel threads that use the service
    Reg,        \* register numbers
    Field,      \* the fields of a register
    Bit,        \* the values a field can hold
    Op,         \* the operations that the threads call
    NoOp,       \* no call in progress
    NoValue     \* no result yet

VARIABLES
    file,       \* file[r]: the value of register r
    call,       \* call[t]: the operation t has called, or NoOp
    res         \* res[t]: its result once it took effect, else NoValue

Value == [Field -> Bit]

(* Some fields with their new values: the array of reg_fields of a call.   *)
Fields == UNION {[s -> Bit] : s \in SUBSET Field}

OpType ==
    [kind : {"read"}, reg : Reg] \cup
    [kind : {"write"}, reg : Reg, value : Value] \cup
    [kind : {"update"}, reg : Reg, fields : Fields]

MergeWithoutMask(old, fields) == fields

(* (ret & ~mask) | value, the read-modify-write of reg_update_ex.          *)
Merge(old, fields) ==
    [f \in Field |-> IF f \in DOMAIN fields THEN fields[f] ELSE old[f]]

(* The value a register has after op, when it had old before.              *)
Result(op, old) ==
    CASE op.kind = "read"   -> old
      [] op.kind = "write"  -> op.value
      [] op.kind = "update" -> Merge(old, op.fields)

TypeOK ==
    /\ file \in [Reg -> Value]
    /\ call \in [Thread -> Op \cup {NoOp}]
    /\ res \in [Thread -> Value \cup {NoValue}]

Init ==
    /\ file \in [Reg -> Value]
    /\ call = [t \in Thread |-> NoOp]
    /\ res = [t \in Thread |-> NoValue]

Invoke(t, op) ==
    /\ call[t] = NoOp
    /\ call' = [call EXCEPT ![t] = op]
    /\ UNCHANGED <<file, res>>

Apply(t) ==
    /\ call[t] # NoOp
    /\ res[t] = NoValue
    /\ LET new == Result(call[t], file[call[t].reg])
       IN  /\ file' = [file EXCEPT ![call[t].reg] = new]
           /\ res' = [res EXCEPT ![t] = new]
    /\ UNCHANGED call

Return(t) ==
    /\ call[t] # NoOp
    /\ res[t] # NoValue
    /\ call' = [call EXCEPT ![t] = NoOp]
    /\ res' = [res EXCEPT ![t] = NoValue]
    /\ UNCHANGED file

Next == \E t \in Thread :
            \/ \E op \in Op : Invoke(t, op)
            \/ Apply(t)
            \/ Return(t)

vars == <<file, call, res>>

Spec == Init /\ [][Next]_vars
=============================================================================
