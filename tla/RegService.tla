----------------------------- MODULE RegService -----------------------------
(***************************************************************************)
(* The register service, aura-gpu-reg.c: threads that read, write and      *)
(* update the registers of one graphics card through one service.          *)
(*                                                                         *)
(* A register inside the mapped aperture is accessed directly; a register  *)
(* beyond it goes through the pair MM_INDEX / MM_DATA, under the spin lock *)
(* of the service.  Each readl and writel is a step of its own.            *)
(*                                                                         *)
(* reg_update_ex reads and writes in two separate accesses, so it relies   *)
(* on its callers: the i2c engine calls it with the engine's mutex held    *)
(* (aura-gpu-i2c.c), the interpreter with the mutex of its context         *)
(* (atom/atom.c).  Guarded is the set of registers accessed so, and mutex  *)
(* stands for the caller's lock.                                           *)
(***************************************************************************)
EXTENDS Naturals

CONSTANTS
    Thread, Reg, Field, Bit, Op, NoOp, NoValue,     \* see RegFile
    Size,       \* the bytes of the aperture (pci_resource_len, BAR 5)
    Guarded,    \* registers that are only accessed under the caller's mutex
    NoThread    \* the owner of a free lock

mmMM_INDEX == 0
mmMM_DATA == 1

VARIABLES
    file,       \* the registers of the card
    mmIndex,    \* the register MM_DATA stands for
    lock,       \* owner of ctx->lock
    mutex,      \* owner of the caller's mutex
    pc,         \* where each thread is
    phase,      \* "load" (reg_read) or "store" (reg_write)
    op,         \* the operation each thread is in
    val         \* ret of reg_read, then the value reg_write stores

vars == <<file, mmIndex, lock, mutex, pc, phase, op, val>>

(* t is done once its last access is: only an unlock may remain.           *)
Final(t) == phase[t] = "store" \/ op[t].kind = "read"

Done(t) == pc[t] = "return" \/ (pc[t] = "unlock" /\ Final(t))

(* The atomic register file that the service implements.                   *)
RF == INSTANCE RegFile WITH
        call <- op,
        res <- [t \in Thread |-> IF Done(t) THEN val[t] ELSE NoValue]

Value == RF!Value

ASSUME OpAssumption == Op \subseteq RF!OpType /\ NoOp \notin Op
ASSUME NoValueAssumption == NoValue \notin Value
ASSUME ThreadAssumption == NoThread \notin Thread

(* MM_INDEX and MM_DATA themselves are not among the registers that are    *)
(* named here: of the callers only a command table may name them, by an    *)
(* access that takes no lock of the service (AtomOperand).                 *)
ASSUME RegAssumption ==
    /\ Reg \subseteq Nat \ {mmMM_INDEX, mmMM_DATA}
    /\ Size \in Nat
    /\ Guarded \subseteq Reg

(* What the callers promise: reg_update_ex only on guarded registers.      *)
ASSUME GuardAssumption == \A o \in Op : o.kind = "update" => o.reg \in Guarded

Pc == {"idle", "mutex", "access", "index", "data", "unlock", "return"}

TypeOK ==
    /\ file \in [Reg -> Value]
    /\ mmIndex \in Reg \cup {mmMM_INDEX}
    /\ lock \in Thread \cup {NoThread}
    /\ mutex \in Thread \cup {NoThread}
    /\ pc \in [Thread -> Pc]
    /\ phase \in [Thread -> {"load", "store"}]
    /\ op \in [Thread -> Op \cup {NoOp}]
    /\ val \in [Thread -> Value \cup {NoValue}]

Init ==
    /\ file \in [Reg -> Value]
    /\ mmIndex = mmMM_INDEX
    /\ lock = NoThread
    /\ mutex = NoThread
    /\ pc = [t \in Thread |-> "idle"]
    /\ phase = [t \in Thread |-> "load"]
    /\ op = [t \in Thread |-> NoOp]
    /\ val = [t \in Thread |-> NoValue]

-----------------------------------------------------------------------------
(* (reg * 4) < ctx->size *)
InAperture(r) == r * 4 < Size

(* A caller enters reg_read, reg_write, reg_set_ex or reg_update_ex.       *)
Invoke(t, o) ==
    /\ pc[t] = "idle"
    /\ pc' = [pc EXCEPT ![t] = IF o.reg \in Guarded THEN "mutex" ELSE "access"]
    /\ phase' = [phase EXCEPT ![t] = IF o.kind = "write" THEN "store" ELSE "load"]
    /\ op' = [op EXCEPT ![t] = o]
    /\ UNCHANGED <<file, mmIndex, lock, mutex, val>>

(* mutex_lock in the caller                                                *)
TakeMutexUnchecked(t) == mutex' = t

TakeMutex(t) == mutex = NoThread /\ mutex' = t

Acquire(t) ==
    /\ pc[t] = "mutex"
    /\ TakeMutex(t)
    /\ pc' = [pc EXCEPT ![t] = "access"]
    /\ UNCHANGED <<file, mmIndex, lock, phase, op, val>>

(* The value that reg_write is called with.                                *)
Stored(t) == RF!Result(op[t], val[t])

(* One readl or writel on the cell of register r.                          *)
Access(t, r) ==
    IF phase[t] = "load"
    THEN /\ val' = [val EXCEPT ![t] = file[r]]
         /\ UNCHANGED file
    ELSE /\ file' = [file EXCEPT ![r] = Stored(t)]
         /\ val' = [val EXCEPT ![t] = Stored(t)]

(* The end of reg_read or of reg_write: reg_update_ex goes on to write.    *)
Proceed(t) ==
    IF Final(t)
    THEN pc' = [pc EXCEPT ![t] = "return"] /\ UNCHANGED phase
    ELSE /\ pc' = [pc EXCEPT ![t] = "access"]
         /\ phase' = [phase EXCEPT ![t] = "store"]

AccessDirect(t) ==
    /\ pc[t] = "access"
    /\ InAperture(op[t].reg)
    /\ Access(t, op[t].reg)
    /\ Proceed(t)
    /\ UNCHANGED <<mmIndex, lock, mutex, op>>

(* spin_lock_irqsave *)
TakeLockUnchecked(t) == lock' = t

TakeLock(t) == lock = NoThread /\ lock' = t

Lock(t) ==
    /\ pc[t] = "access"
    /\ ~ InAperture(op[t].reg)
    /\ TakeLock(t)
    /\ pc' = [pc EXCEPT ![t] = "index"]
    /\ UNCHANGED <<file, mmIndex, mutex, phase, op, val>>

(* writel(reg * 4, MM_INDEX) *)
WriteIndex(t) ==
    /\ pc[t] = "index"
    /\ mmIndex' = op[t].reg
    /\ pc' = [pc EXCEPT ![t] = "data"]
    /\ UNCHANGED <<file, lock, mutex, phase, op, val>>

(* readl or writel of MM_DATA: the card accesses what MM_INDEX names.      *)
AccessData(t) ==
    /\ pc[t] = "data"
    /\ Access(t, mmIndex)
    /\ pc' = [pc EXCEPT ![t] = "unlock"]
    /\ UNCHANGED <<mmIndex, lock, mutex, phase, op>>

(* spin_unlock_irqrestore *)
DropLockForgotten == UNCHANGED lock

DropLock == lock' = NoThread

Unlock(t) ==
    /\ pc[t] = "unlock"
    /\ DropLock
    /\ Proceed(t)
    /\ UNCHANGED <<file, mmIndex, mutex, op, val>>

(* The call returns; the caller drops its mutex.                           *)
Return(t) ==
    /\ pc[t] = "return"
    /\ mutex' = IF mutex = t THEN NoThread ELSE mutex
    /\ pc' = [pc EXCEPT ![t] = "idle"]
    /\ phase' = [phase EXCEPT ![t] = "load"]
    /\ op' = [op EXCEPT ![t] = NoOp]
    /\ val' = [val EXCEPT ![t] = NoValue]
    /\ UNCHANGED <<file, mmIndex, lock>>

Step(t) == \/ Acquire(t)
           \/ AccessDirect(t)
           \/ Lock(t)
           \/ WriteIndex(t)
           \/ AccessData(t)
           \/ Unlock(t)
           \/ Return(t)

Next == \E t \in Thread : Step(t) \/ \E o \in Op : Invoke(t, o)

Spec == Init /\ [][Next]_vars

(* A thread inside the service keeps running; the spin lock and the mutex  *)
(* of the kernel serve their waiters in turn.                              *)
Fairness == \A t \in Thread : /\ WF_vars(Step(t))
                              /\ SF_vars(Acquire(t))
                              /\ SF_vars(Lock(t))

FairSpec == Spec /\ Fairness

-----------------------------------------------------------------------------
(* Between MM_INDEX and MM_DATA the pair belongs to one thread, and names  *)
(* that thread's register (reg_read and reg_write, the lock around both).  *)
WindowOwned == \A t \in Thread :
    /\ pc[t] \in {"index", "data", "unlock"} <=> lock = t
    /\ pc[t] = "data" => mmIndex = op[t].reg

(* No update is lost: what reg_update_ex read is still the register's      *)
(* value when it writes it back.                                           *)
FreshUpdate == \A t \in Thread :
    (phase[t] = "store" /\ pc[t] \in {"access", "index", "data"}
                        /\ op[t].kind = "update") => val[t] = file[op[t].reg]

(* A step changes a field of a register only when a thread is in a call    *)
(* on that register that writes that field: no stale or misdirected store. *)
FieldsKept ==
    [][\A r \in Reg, f \in Field :
         file'[r][f] # file[r][f] =>
            \E t \in Thread :
               /\ op[t] # NoOp
               /\ op[t].reg = r
               /\ \/ op[t].kind = "write"
                  \/ op[t].kind = "update" /\ f \in DOMAIN op[t].fields]_vars

(* Every operation takes effect at one instant: the service implements the *)
(* atomic register file.                                                   *)
Atomic == RF!Spec

(* Every call returns, whoever else uses the service.                      *)
CallReturns == \A t \in Thread : op[t] # NoOp ~> op[t] = NoOp
=============================================================================
