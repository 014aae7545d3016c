------------------------------- MODULE AtomExec -------------------------------
(***************************************************************************)
(* The interpreter of the card's command tables, atom/atom.c: how          *)
(* atom_execute_table runs a table and the tables that it calls, on the    *)
(* registers of one context that all its users share, and gives up on a    *)
(* table that has taken the same jump, and no other, for five seconds.     *)
(*                                                                         *)
(* The tables are data of the video BIOS, so what their operands are worth *)
(* is left open: a comparison may go either way, a switch may find any of  *)
(* its cases.  Kept are the control of a table (calls, jumps, switches,    *)
(* its end), its use of the context's registers, which all executions      *)
(* share, and of the parameter words, which the tables of one execution    *)
(* share.  AtomOperand has what single instructions compute.               *)
(***************************************************************************)
EXTENDS Integers, Sequences, SequencesExt

CONSTANTS
    Thread,     \* the users of the context
    NoThread,   \* the owner of a free mutex
    Table,      \* the indices that may be executed or called
    Program,    \* the code of those that the BIOS has
    HasWs,      \* the tables that need a work space
    PsBytes,    \* the size of each table's parameters, in bytes
    Word,       \* the parameter words that are told apart
    Value       \* what tables put in registers and parameters

(* The registers of struct atom_context: those that atom_execute_table     *)
(* resets, the comparison flags, and two more that it leaves alone.        *)
ResetRegister == {"data_block", "reg_block", "fb_base", "io_mode", "divmul"}
Flag == {"cs_equal", "cs_above"}
Register == ResetRegister \cup Flag \cup {"shift", "io_attr"}

NoValue == "reset"
Inherited == "inherited"
Yes(b) == IF b THEN "yes" ELSE "no"
Content == Value \cup {NoValue, "yes", "no"}

Condition == {"ABOVE", "ABOVEOREQUAL", "ALWAYS", "BELOW", "BELOWOREQUAL",
              "EQUAL", "NOTEQUAL"}

(* Set stands for setport, setregblock, setfbbase, setdatablock, div, mul  *)
(* and the moves to WS that name a register; Use for each operand that is  *)
(* reached through one; SetPs for an instruction whose destination is a    *)
(* parameter; Invalid for an opcode that is 0 or not known.                *)
IsInstruction(ins, code) ==
    \/ ins \in [op : {"Set"}, reg : Register \ Flag, val : Value]
    \/ ins \in [op : {"SetPs"}, idx : Nat, val : Value]
    \/ ins \in [op : {"Use"}, reg : Register]
    \/ ins \in [op : {"Compare", "Test", "Eot", "Invalid"}]
    \/ ins \in [op : {"Jump"}, cond : Condition, target : DOMAIN code]
    \/ ins \in [op : {"Switch"}, cases : SUBSET DOMAIN code]
    \/ ins \in [op : {"Call"}, table : Table]

ASSUME ThreadAssumption == NoThread \notin Thread
ASSUME TableAssumption ==
    /\ Table # {} /\ HasWs \subseteq Table
    /\ PsBytes \in [Table -> Nat]
    /\ Word \subseteq Nat
    /\ {NoValue, Inherited} \cap Value = {}

(* The interpreter does not look at the length of a table: what comes      *)
(* after an instruction is an instruction, up to one that goes elsewhere.  *)
ASSUME ProgramAssumption ==
    /\ DOMAIN Program \subseteq Table
    /\ \A t \in DOMAIN Program : LET n == Len(Program[t]) IN
          /\ n \in Nat \ {0}
          /\ DOMAIN Program[t] = 1 .. n
          /\ \A i \in 1 .. n : IsInstruction(Program[t][i], Program[t])
          /\ \/ Program[t][n].op \in {"Eot", "Invalid"}
             \/ Program[t][n].op = "Jump" /\ Program[t][n].cond = "ALWAYS"

VARIABLES
    mutex,      \* owner of ctx->mutex
    pc,         \* where each thread is
    index,      \* the table that it executes
    stack,      \* its atom_exec_contexts, innermost last
    ret,        \* what atom_execute_table returns
    ctx,        \* the registers of the context
    ps,         \* the parameter words of its execution
    heap,       \* the frames of each whose work space is allocated
    own,        \* history: the registers as this execution alone set them
    failed      \* history: some table of this execution was aborted

vars == <<mutex, pc, index, stack, ret, ctx, ps, heap, own, failed>>

(* struct atom_exec_context: base is where its ps points to, and mine has  *)
(* the history of its own words, as they were at first and as it set them. *)
Frame == [table : DOMAIN Program, ptr : Nat, base : Nat, abort : BOOLEAN,
          last : Nat, expired : BOOLEAN,
          mine : [Word -> Value \cup {NoValue}]]

ZeroedContext == [r \in Register |-> IF r \in Flag THEN Yes(FALSE) ELSE NoValue]
NoParameters == [w \in Word |-> NoValue]

TypeOK ==
    /\ mutex \in Thread \cup {NoThread}
    /\ pc \in [Thread -> {"idle", "lock", "run", "unlock"}]
    /\ index \in [Thread -> Table]
    /\ stack \in [Thread -> Seq(Frame)]
    /\ \A t \in Thread : \A i \in DOMAIN stack[t] :
          stack[t][i].ptr \in DOMAIN Program[stack[t][i].table]
    /\ ret \in [Thread -> {"none", "0", "EINVAL"}]
    /\ ctx \in [Register -> Content]
    /\ ps \in [Thread -> [Word -> Value \cup {NoValue}]]
    /\ heap \in [Thread -> SUBSET Nat]
    /\ own \in [Thread -> [Register -> Content \cup {Inherited}]]
    /\ failed \in [Thread -> BOOLEAN]

Init ==
    /\ mutex = NoThread
    /\ pc = [t \in Thread |-> "idle"]
    /\ index = [t \in Thread |-> CHOOSE i \in Table : TRUE]
    /\ stack = [t \in Thread |-> <<>>]
    /\ ret = [t \in Thread |-> "none"]
    /\ ctx = ZeroedContext
    /\ ps = [t \in Thread |-> NoParameters]
    /\ heap = [t \in Thread |-> {}]
    /\ own = [t \in Thread |-> ZeroedContext]
    /\ failed = [t \in Thread |-> FALSE]

-----------------------------------------------------------------------------
(* A caller of atom_execute_table (aura-gpu-hw.c:214) with its parameters. *)
Execute(t, i) ==
    /\ pc[t] = "idle"
    /\ pc' = [pc EXCEPT ![t] = "lock"]
    /\ index' = [index EXCEPT ![t] = i]
    /\ UNCHANGED <<mutex, stack, ret, ctx, ps, heap, own, failed>>

NewFrameAtHeader(i, base, params) ==
    [table |-> i, ptr |-> 0, base |-> base, abort |-> FALSE,
     last |-> 0, expired |-> FALSE, mine |-> params]

(* The start of atom_execute_table_locked for a table that exists.         *)
NewFrame(i, base, params) ==
    [table |-> i, ptr |-> 1, base |-> base, abort |-> FALSE,
     last |-> 0, expired |-> FALSE, mine |-> params]

(* ectx.ps_shift = ps / 4                                                  *)
PsShift(i) == PsBytes[i] \div 4

(* ectx.ws = kcalloc(4, ws), in frame d, for a table that has a work space *)
Allocate(t, i, d) ==
    heap' = IF i \in HasWs THEN [heap EXCEPT ![t] = @ \cup {d}] ELSE heap

(* reset data block, reg block, fb window, io mode, divmul                 *)
ResetRegisters ==
    [r \in Register |-> IF r \in ResetRegister THEN NoValue ELSE ctx[r]]

(* What an execution knows of the registers when it begins.                *)
KnownAtFirst ==
    [r \in Register |-> IF r \in ResetRegister THEN NoValue ELSE Inherited]

(* mutex_lock, the resets, and the test for a missing table.               *)
Begin(t) ==
    /\ pc[t] = "lock"
    /\ mutex = NoThread
    /\ mutex' = t
    /\ ctx' = ResetRegisters
    /\ own' = [own EXCEPT ![t] = KnownAtFirst]
    /\ IF index[t] \in DOMAIN Program
       THEN /\ stack' = [stack EXCEPT ![t] = <<NewFrame(index[t], 0, ps[t])>>]
            /\ Allocate(t, index[t], 1)
            /\ pc' = [pc EXCEPT ![t] = "run"]
            /\ UNCHANGED ret
       ELSE /\ pc' = [pc EXCEPT ![t] = "unlock"]
            /\ ret' = [ret EXCEPT ![t] = "EINVAL"]
            /\ UNCHANGED <<stack, heap>>
    /\ UNCHANGED <<index, ps, failed>>

(* mutex_unlock and the return; the parameters are the caller's again.      *)
End(t) ==
    /\ pc[t] = "unlock"
    /\ mutex' = NoThread
    /\ pc' = [pc EXCEPT ![t] = "idle"]
    /\ ret' = [ret EXCEPT ![t] = "none"]
    /\ failed' = [failed EXCEPT ![t] = FALSE]
    /\ ps' = [ps EXCEPT ![t] = NoParameters]
    /\ own' = [own EXCEPT ![t] = ZeroedContext]
    /\ UNCHANGED <<index, stack, ctx, heap>>

-----------------------------------------------------------------------------
Top(t) == Last(stack[t])
Below(t) == Front(stack[t])

RunsOn(t) == TRUE

(* The abort flag is looked at before every instruction.                   *)
Runs(t) == ~ Top(t).abort

(* The instruction that t is at and may run.                               *)
At(t, op) ==
    /\ pc[t] = "run"
    /\ Runs(t)
    /\ Program[Top(t).table][Top(t).ptr].op = op

Instr(t) == Program[Top(t).table][Top(t).ptr]

ReplaceTop(t, frame) == stack' = [stack EXCEPT ![t] = Append(Below(t), frame)]

Continue(t) == ReplaceTop(t, [Top(t) EXCEPT !.ptr = @ + 1])

FreeIfEnded(t, r) == IF r = "0" THEN heap[t] \ {Len(stack[t])} ELSE heap[t]

(* The label free: the work space goes, however the table ended.           *)
FreeWs(t, r) == heap[t] \ {Len(stack[t])}

ResumeIgnoring(frame, r) == frame

(* The end of atom_op_calltable, in the caller's frame.                    *)
Resume(frame, r) == IF r = "0" THEN frame ELSE [frame EXCEPT !.abort = TRUE]

(* atom_execute_table_locked returns r.                                    *)
Return(t, r) ==
    /\ heap' = [heap EXCEPT ![t] = FreeWs(t, r)]
    /\ IF Len(stack[t]) = 1
       THEN /\ stack' = [stack EXCEPT ![t] = <<>>]
            /\ pc' = [pc EXCEPT ![t] = "unlock"]
            /\ ret' = [ret EXCEPT ![t] = r]
       ELSE /\ stack' = [stack EXCEPT ![t] =
                            Append(Front(Below(t)), Resume(Last(Below(t)), r))]
            /\ UNCHANGED <<pc, ret>>
    /\ UNCHANGED <<mutex, index, ctx, ps, own, failed>>

(* if (ectx.abort) { ret = -EINVAL; goto free; }                           *)
Abort(t) ==
    /\ pc[t] = "run"
    /\ Top(t).abort
    /\ Return(t, "EINVAL")

(* The end of the table, and an opcode that is not known, both end it.     *)
EndOfTable(t) ==
    /\ At(t, "Eot") \/ At(t, "Invalid")
    /\ Return(t, "0")

Set(t) ==
    /\ At(t, "Set")
    /\ ctx' = [ctx EXCEPT ![Instr(t).reg] = Instr(t).val]
    /\ own' = [own EXCEPT ![t][Instr(t).reg] = Instr(t).val]
    /\ Continue(t)
    /\ UNCHANGED <<mutex, pc, index, ret, ps, heap, failed>>

Use(t) ==
    /\ At(t, "Use")
    /\ Continue(t)
    /\ UNCHANGED <<mutex, pc, index, ret, ctx, ps, heap, own, failed>>

(* A parameter word is reached from where the frame's ps points to.        *)
SetPs(t) ==
    /\ At(t, "SetPs")
    /\ LET f == Top(t)
           w == f.base + Instr(t).idx
           g == [f EXCEPT !.ptr = @ + 1]
       IN  IF w \in Word
           THEN /\ ps' = [ps EXCEPT ![t][w] = Instr(t).val]
                /\ ReplaceTop(t, [g EXCEPT !.mine[w] = Instr(t).val])
           ELSE ReplaceTop(t, g) /\ UNCHANGED ps
    /\ UNCHANGED <<mutex, pc, index, ret, ctx, heap, own, failed>>

(* cs_equal = (dst == src), cs_above = (dst > src)                         *)
Compare(t) ==
    /\ At(t, "Compare")
    /\ \E e \in BOOLEAN, a \in BOOLEAN :
          /\ ~ (e /\ a)
          /\ ctx' = [ctx EXCEPT !["cs_equal"] = Yes(e), !["cs_above"] = Yes(a)]
          /\ own' = [own EXCEPT ![t]["cs_equal"] = Yes(e),
                                ![t]["cs_above"] = Yes(a)]
    /\ Continue(t)
    /\ UNCHANGED <<mutex, pc, index, ret, ps, heap, failed>>

(* cs_equal = ((dst & src) == 0); cs_above stays.                          *)
Test(t) ==
    /\ At(t, "Test")
    /\ \E e \in BOOLEAN :
          /\ ctx' = [ctx EXCEPT !["cs_equal"] = Yes(e)]
          /\ own' = [own EXCEPT ![t]["cs_equal"] = Yes(e)]
    /\ Continue(t)
    /\ UNCHANGED <<mutex, pc, index, ret, ps, heap, failed>>

(* The conditions of atom_op_jump.                                         *)
Taken(cond) ==
    LET above == ctx["cs_above"] = Yes(TRUE)
        equal == ctx["cs_equal"] = Yes(TRUE)
    IN  CASE cond = "ABOVE"        -> above
          [] cond = "ABOVEOREQUAL" -> above \/ equal
          [] cond = "ALWAYS"       -> TRUE
          [] cond = "BELOW"        -> ~ (above \/ equal)
          [] cond = "BELOWOREQUAL" -> ~ above
          [] cond = "EQUAL"        -> equal
          [] cond = "NOTEQUAL"     -> ~ equal

TimedOutNever(frame, target) == FALSE

(* The same target as the last jump, more than five seconds after the      *)
(* first of them.                                                          *)
TimedOut(frame, target) == frame.last = target /\ frame.expired

(* A jump notes its target and the time, unless they are noted already.    *)
(* An abort takes effect at the next instruction.                          *)
JumpTo(t, target) ==
    LET f == Top(t)
        timedOut == TimedOut(f, target)
    IN  /\ ReplaceTop(t, [f EXCEPT !.ptr = target,
                                   !.last = target,
                                   !.expired = @ /\ f.last = target,
                                   !.abort = timedOut])
        /\ failed' = [failed EXCEPT ![t] = @ \/ timedOut]

Jump(t) ==
    /\ At(t, "Jump")
    /\ Taken(Instr(t).cond)
    /\ JumpTo(t, Instr(t).target)
    /\ UNCHANGED <<mutex, pc, index, ret, ctx, ps, heap, own>>

JumpNotTaken(t) ==
    /\ At(t, "Jump")
    /\ ~ Taken(Instr(t).cond)
    /\ Continue(t)
    /\ UNCHANGED <<mutex, pc, index, ret, ctx, ps, heap, own, failed>>

(* A switch goes to one of its cases, which no timer watches, or on.       *)
Switch(t) ==
    /\ At(t, "Switch")
    /\ \/ Continue(t)
       \/ \E target \in Instr(t).cases :
            ReplaceTop(t, [Top(t) EXCEPT !.ptr = target])
    /\ UNCHANGED <<mutex, pc, index, ret, ctx, ps, heap, own, failed>>

CalleeBaseUnshifted(f) == f.base

(* ctx->ps + ctx->ps_shift: the callee's parameters follow the caller's.   *)
CalleeBase(f) == f.base + PsShift(f.table)

(* A call of a table that is not there does nothing.                       *)
CallTable(t) ==
    /\ At(t, "Call")
    /\ LET i == Instr(t).table
           here == Append(Below(t), [Top(t) EXCEPT !.ptr = @ + 1])
       IN  IF i \in DOMAIN Program
           THEN /\ stack' = [stack EXCEPT ![t] = 
                            Append(here, NewFrame(i, CalleeBase(Top(t)), ps[t]))]
                /\ Allocate(t, i, Len(stack[t]) + 1)
           ELSE /\ stack' = [stack EXCEPT ![t] = here]
                /\ UNCHANGED heap
    /\ UNCHANGED <<mutex, pc, index, ret, ctx, ps, own, failed>>

(* Five seconds go by since a frame noted its last jump.                   *)
Expire(t) ==
    /\ \E i \in DOMAIN stack[t] :
          /\ stack[t][i].last # 0
          /\ ~ stack[t][i].expired
          /\ stack' = [stack EXCEPT ![t][i].expired = TRUE]
    /\ UNCHANGED <<mutex, pc, index, ret, ctx, ps, heap, own, failed>>

Run(t) ==
    \/ Abort(t) \/ EndOfTable(t)
    \/ Set(t) \/ Use(t) \/ SetPs(t) \/ Compare(t) \/ Test(t)
    \/ Jump(t) \/ JumpNotTaken(t) \/ Switch(t) \/ CallTable(t)

Step(t) == Begin(t) \/ Run(t) \/ End(t)

Next == \E t \in Thread :
    Step(t) \/ Expire(t) \/ \E i \in Table : Execute(t, i)

Spec == Init /\ [][Next]_vars

(* Threads run, time passes, and the mutex serves its waiters in turn.     *)
Fairness == \A t \in Thread :
    /\ WF_vars(Run(t)) /\ WF_vars(End(t)) /\ SF_vars(Begin(t))
    /\ WF_vars(Expire(t))

FairSpec == Spec /\ Fairness

-----------------------------------------------------------------------------
(* The words of its parameters that are a frame's alone.                   *)
OwnWords(f) == {w \in Word : w >= f.base /\ 4 * (w - f.base) + 4 <= PsBytes[f.table]}

(* An execution sees the registers as if it were alone on the context: as  *)
(* reset, then as it and the tables it calls set them, and never what an   *)
(* earlier or a concurrent execution left there; except in io_attr, shift  *)
(* and the comparison flags, until it sets them itself (atom/atom.c:1229). *)
(* And each table of it finds its own parameter words as they were when it *)
(* was called and as it set them, whatever the tables it calls do, except  *)
(* a last one that is not a whole word (atom/atom.c:1180).                 *)
Isolated == \A t \in Thread : pc[t] = "run" =>
    /\ mutex = t
    /\ \A r \in Register : own[t][r] # Inherited => ctx[r] = own[t][r]
    /\ \A i \in DOMAIN stack[t] :
          \A w \in OwnWords(stack[t][i]) : ps[t][w] = stack[t][i].mine[w]

(* Whatever way tables end, nested or not, the work spaces allocated are   *)
(* those of the frames that need one: none is left over from a frame that  *)
(* has gone, and none is missing from a frame that is there.               *)
WorkSpacesOfFrames == \A t \in Thread :
    heap[t] = {i \in DOMAIN stack[t] : stack[t][i].table \in HasWs}

(* The caller learns of every failure: atom_execute_table returns -EINVAL  *)
(* exactly when its table is missing or some table that it ran, however    *)
(* deeply nested, was given up.                                            *)
FailureReported == \A t \in Thread : pc[t] = "unlock" =>
    (ret[t] = "EINVAL" <=> failed[t] \/ index[t] \notin DOMAIN Program)

(* Once a table has been given up, no table of that execution does         *)
(* anything more: their frames only go, one by one.                        *)
NothingAfterAbort ==
    [][\A t \in Thread : failed[t] /\ pc[t] = "run" =>
          /\ UNCHANGED <<ctx, ps>>
          /\ Len(stack'[t]) <= Len(stack[t])
          /\ \A i \in DOMAIN stack'[t] : stack'[t][i].ptr = stack[t][i].ptr]_vars

(* Every execution returns and gives the context back, where the cycles of *)
(* a table come back by a jump that is the only one in its cycle: such a   *)
(* table is given up when it is stuck, and so are those that called it.    *)
ExecutionReturns == \A t \in Thread : pc[t] # "idle" ~> pc[t] = "idle"

(* "atombios stuck in loop for more than 5secs aborting", or else "we will *)
(* just wait a little longer" (atom/atom.c:710, 714): nobody runs a table  *)
(* for ever.                                                               *)
StuckLoopAborted == \A t \in Thread : []<>(pc[t] # "run")
=============================================================================
