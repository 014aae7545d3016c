-------------------------- MODULE RegService_proofs --------------------------
(***************************************************************************)
(* Proofs about RegService for every set of threads, registers, fields and *)
(* operations: the index/data pair has one owner, no update is lost, and   *)
(* the service implements the atomic register file RegFile.                *)
(***************************************************************************)
EXTENDS RegService, TLAPS

(* The mutex of a guarded register is held from Acquire to Return.         *)
MutexHeld == \A t \in Thread :
    /\ mutex = t <=> pc[t] \notin {"idle", "mutex"} /\ op[t].reg \in Guarded
    /\ pc[t] = "mutex" => op[t].reg \in Guarded

(* Which phases an operation goes through.                                 *)
Phases == \A t \in Thread :
    /\ pc[t] = "idle" <=> op[t] = NoOp
    /\ pc[t] # "idle" /\ op[t].kind = "write" => phase[t] = "store"
    /\ pc[t] # "idle" /\ op[t].kind = "read" => phase[t] = "load"
    /\ pc[t] = "mutex" /\ op[t].kind = "update" => phase[t] = "load"
    /\ pc[t] = "return" => Final(t)

(* reg_update_ex between its load and its store                            *)
Between(t) ==
    /\ pc[t] # "idle"
    /\ op[t].kind = "update"
    /\ \/ phase[t] = "store" /\ pc[t] \in {"access", "index", "data"}
       \/ phase[t] = "load" /\ pc[t] = "unlock"

Fresh == \A t \in Thread : Between(t) => val[t] = file[op[t].reg]

HasResult == \A t \in Thread : Done(t) => val[t] \in Value

IInv == TypeOK /\ WindowOwned /\ MutexHeld /\ Phases /\ Fresh /\ HasResult

(* Res is the refinement mapping's value for RegFile's res.                *)
Res(t) == IF Done(t) THEN val[t] ELSE NoValue

USE DEF mmMM_INDEX, mmMM_DATA, TakeMutex, TakeLock, DropLock

-----------------------------------------------------------------------------
(* An operation, by its kind.                                              *)
LEMMA OpFacts ==
    ASSUME NEW o \in Op
    PROVE  /\ o # NoOp
           /\ o.reg \in Reg
           /\ o.kind \in {"read", "write", "update"}
           /\ o.kind = "write" => o.value \in Value
           /\ o.kind = "update" => o.reg \in Guarded
  BY OpAssumption, GuardAssumption DEF RF!OpType, Value

(* The merge of reg_update_ex is a register value.                         *)
LEMMA ResultType ==
    ASSUME NEW o \in Op, NEW old \in Value
    PROVE  RF!Result(o, old) \in Value
  <1>1. CASE o.kind = "read"
    BY <1>1 DEF RF!Result
  <1>2. CASE o.kind = "write"
    BY <1>2, OpFacts DEF RF!Result
  <1>3. CASE o.kind = "update"
    <2>1. o.fields \in RF!Fields
      BY <1>3, OpAssumption DEF RF!OpType
    <2>2. \A f \in DOMAIN o.fields : o.fields[f] \in Bit
      BY <2>1 DEF RF!Fields
    <2>3. RF!Merge(old, o.fields) \in Value
      BY <2>2 DEF RF!Merge, Value, RF!Value
    <2> QED
      BY <1>3, <2>3 DEF RF!Result
  <1> QED
    BY <1>1, <1>2, <1>3, OpFacts

(* What reg_write is called with is a register value, and for an update it *)
(* is what the atomic update of the present value would give.              *)
LEMMA StoredFacts ==
    ASSUME IInv, NEW t \in Thread, phase[t] = "store",
           pc[t] \in {"access", "index", "data"}
    PROVE  /\ Stored(t) \in Value
           /\ Stored(t) = RF!Result(op[t], file[op[t].reg])
  <1>1. op[t] \in Op
    BY DEF IInv, TypeOK, Phases
  <1>2. op[t].kind \in {"write", "update"}
    BY <1>1, OpFacts DEF IInv, Phases
  <1>3. Stored(t) = RF!Result(op[t], file[op[t].reg])
    <2>1. CASE op[t].kind = "write"
      BY <2>1 DEF Stored, RF!Result
    <2>2. CASE op[t].kind = "update"
      BY <2>2 DEF Stored, IInv, Fresh, Between
    <2> QED
      BY <1>2, <2>1, <2>2
  <1>4. file[op[t].reg] \in Value
    BY <1>1, OpFacts DEF IInv, TypeOK
  <1> QED
    BY <1>1, <1>3, <1>4, ResultType

(* MM_INDEX names the thread's own register when it accesses MM_DATA.      *)
LEMMA Indexed ==
    ASSUME IInv, NEW t \in Thread, pc[t] = "data"
    PROVE  mmIndex = op[t].reg
  BY DEF IInv, WindowOwned

-----------------------------------------------------------------------------
LEMMA InitIInv == Init => IInv
  <1> SUFFICES ASSUME Init PROVE IInv
    OBVIOUS
  <1> USE DEF Init
  <1>1. TypeOK
    BY DEF TypeOK, Pc, Value
  <1>2. WindowOwned
    BY ThreadAssumption DEF WindowOwned
  <1>3. MutexHeld
    BY ThreadAssumption DEF MutexHeld
  <1>4. Phases
    BY DEF Phases, Final
  <1>5. Fresh /\ HasResult
    BY DEF Fresh, Between, HasResult, Done
  <1> QED
    BY <1>1, <1>2, <1>3, <1>4, <1>5 DEF IInv

(* A readl or writel on the register of t's operation keeps IInv, whether  *)
(* it is the register itself or MM_DATA that is accessed.                  *)
LEMMA AccessKeeps ==
    ASSUME IInv, NEW t \in Thread, pc[t] \in {"access", "data"},
           Access(t, op[t].reg)
    PROVE  /\ file' \in [Reg -> Value]
           /\ val' \in [Thread -> Value \cup {NoValue}]
           /\ val'[t] = file'[op[t].reg]
           /\ val'[t] \in Value
           /\ \A s \in Thread \ {t} : /\ val'[s] = val[s]
                                      /\ Between(s) => val'[s] = file'[op[s].reg]
  <1>1. op[t] \in Op /\ op[t].reg \in Reg
    BY OpFacts DEF IInv, TypeOK, Phases
  <1>2. file \in [Reg -> Value] /\ val \in [Thread -> Value \cup {NoValue}]
    BY DEF IInv, TypeOK
  <1>3. CASE phase[t] = "load"
    BY <1>1, <1>2, <1>3 DEF Access, IInv, Fresh
  <1>4. CASE phase[t] = "store"
    <2>1. Stored(t) \in Value
      BY <1>4, StoredFacts
    <2>2. /\ file' = [file EXCEPT ![op[t].reg] = Stored(t)]
          /\ val' = [val EXCEPT ![t] = Stored(t)]
      BY <1>4 DEF Access
    <2>3. ASSUME NEW s \in Thread \ {t}, Between(s)
          PROVE  val'[s] = file'[op[s].reg]
      <3>1. op[s].reg \in Guarded /\ op[s].reg \in Reg
        BY <2>3, OpFacts DEF Between, IInv, TypeOK, Phases
      <3>2. mutex = s
        BY <2>3, <3>1 DEF Between, IInv, MutexHeld
      <3>3. op[t].reg \notin Guarded
        BY <3>2 DEF IInv, MutexHeld
      <3> QED
        BY <1>2, <2>2, <2>3, <3>1, <3>3 DEF IInv, Fresh
    <2> QED
      BY <1>1, <1>2, <2>1, <2>2, <2>3
  <1> QED
    BY <1>3, <1>4 DEF IInv, TypeOK

LEMMA InvokeKeeps ==
    ASSUME IInv, NEW t \in Thread, NEW o \in Op, Invoke(t, o)
    PROVE  IInv'
  <1> USE DEF Invoke
  <1>0. TypeOK /\ o \in Op /\ o # NoOp /\ o.kind \in {"read", "write", "update"}
    BY OpFacts DEF IInv
  <1>1. TypeOK'
    BY <1>0 DEF TypeOK, Pc
  <1>2. WindowOwned'
    BY <1>0 DEF TypeOK, IInv, WindowOwned
  <1>3. MutexHeld'
    BY <1>0 DEF TypeOK, IInv, MutexHeld
  <1>4. Phases'
    BY <1>0 DEF TypeOK, IInv, Phases, Final
  <1>5. Fresh'
    BY <1>0 DEF TypeOK, IInv, Fresh, Between
  <1>6. HasResult'
    BY <1>0 DEF TypeOK, IInv, HasResult, Done, Final
  <1> QED
    BY <1>1, <1>2, <1>3, <1>4, <1>5, <1>6 DEF IInv

LEMMA AcquireKeeps ==
    ASSUME IInv, NEW t \in Thread, Acquire(t)
    PROVE  IInv'
  <1> USE DEF Acquire
  <1>0. TypeOK
    BY DEF IInv
  <1>1. TypeOK'
    BY DEF IInv, TypeOK, Pc
  <1>2. WindowOwned'
    BY <1>0 DEF TypeOK, IInv, WindowOwned
  <1>3. MutexHeld'
    BY <1>0, ThreadAssumption DEF TypeOK, IInv, MutexHeld
  <1>4. Phases'
    BY <1>0 DEF TypeOK, IInv, Phases, Final
  <1>5. Fresh'
    BY <1>0 DEF TypeOK, IInv, Fresh, Between, Phases
  <1>6. HasResult'
    BY <1>0 DEF TypeOK, IInv, HasResult, Done, Final
  <1> QED
    BY <1>1, <1>2, <1>3, <1>4, <1>5, <1>6 DEF IInv

LEMMA AccessDirectKeeps ==
    ASSUME IInv, NEW t \in Thread, AccessDirect(t)
    PROVE  IInv'
  <1> USE DEF AccessDirect
  <1>0. TypeOK /\ op[t] \in Op /\ op[t].reg \in Reg
    BY OpFacts DEF IInv, TypeOK, Phases
  <1>a. Access(t, op[t].reg)
    BY Indexed
  <1>b. /\ file' \in [Reg -> Value]
        /\ val' \in [Thread -> Value \cup {NoValue}]
        /\ val'[t] = file'[op[t].reg]
        /\ val'[t] \in Value
        /\ \A s \in Thread \ {t} : /\ val'[s] = val[s]
                                   /\ Between(s) => val'[s] = file'[op[s].reg]
    BY <1>a, AccessKeeps
  <1>1. TypeOK'
    BY <1>0, <1>b DEF TypeOK, Pc, Proceed, Final
  <1>2. WindowOwned'
    BY <1>0 DEF TypeOK, IInv, WindowOwned, Proceed, Final
  <1>3. MutexHeld'
    BY <1>0 DEF TypeOK, IInv, MutexHeld, Proceed, Final
  <1>4. Phases'
    BY <1>0, OpFacts DEF TypeOK, IInv, Phases, Final, Proceed
  <1>5. Fresh'
    BY <1>0, <1>b, OpFacts DEF TypeOK, IInv, Fresh, Between, Phases, Proceed
  <1>6. HasResult'
    BY <1>0, <1>b, OpFacts DEF TypeOK, IInv, HasResult, Done, Final, Phases, Proceed
  <1> QED
    BY <1>1, <1>2, <1>3, <1>4, <1>5, <1>6 DEF IInv

LEMMA LockKeeps ==
    ASSUME IInv, NEW t \in Thread, Lock(t)
    PROVE  IInv'
  <1> USE DEF Lock
  <1>0. TypeOK /\ op[t] \in Op /\ op[t].reg \in Reg
    BY OpFacts DEF IInv, TypeOK, Phases
  <1>1. TypeOK'
    BY <1>0 DEF TypeOK, Pc
  <1>2. WindowOwned'
    BY <1>0, ThreadAssumption DEF TypeOK, IInv, WindowOwned
  <1>3. MutexHeld'
    BY <1>0 DEF TypeOK, IInv, MutexHeld
  <1>4. Phases'
    BY <1>0 DEF TypeOK, IInv, Phases, Final
  <1>5. Fresh'
    BY <1>0 DEF TypeOK, IInv, Fresh, Between, Phases
  <1>6. HasResult'
    BY <1>0 DEF TypeOK, IInv, HasResult, Done, Final, Phases
  <1> QED
    BY <1>1, <1>2, <1>3, <1>4, <1>5, <1>6 DEF IInv

LEMMA WriteIndexKeeps ==
    ASSUME IInv, NEW t \in Thread, WriteIndex(t)
    PROVE  IInv'
  <1> USE DEF WriteIndex
  <1>0. TypeOK /\ op[t] \in Op /\ op[t].reg \in Reg
    BY OpFacts DEF IInv, TypeOK, Phases
  <1>1. TypeOK'
    BY <1>0 DEF TypeOK, Pc
  <1>2. WindowOwned'
    BY <1>0 DEF TypeOK, IInv, WindowOwned
  <1>3. MutexHeld'
    BY <1>0 DEF TypeOK, IInv, MutexHeld
  <1>4. Phases'
    BY <1>0 DEF TypeOK, IInv, Phases, Final
  <1>5. Fresh'
    BY <1>0 DEF TypeOK, IInv, Fresh, Between, Phases
  <1>6. HasResult'
    BY <1>0 DEF TypeOK, IInv, HasResult, Done, Final, Phases
  <1> QED
    BY <1>1, <1>2, <1>3, <1>4, <1>5, <1>6 DEF IInv

LEMMA AccessDataKeeps ==
    ASSUME IInv, NEW t \in Thread, AccessData(t)
    PROVE  IInv'
  <1> USE DEF AccessData
  <1>0. TypeOK /\ op[t] \in Op /\ op[t].reg \in Reg
    BY OpFacts DEF IInv, TypeOK, Phases
  <1>a. Access(t, op[t].reg)
    BY Indexed
  <1>b. /\ file' \in [Reg -> Value]
        /\ val' \in [Thread -> Value \cup {NoValue}]
        /\ val'[t] = file'[op[t].reg]
        /\ val'[t] \in Value
        /\ \A s \in Thread \ {t} : /\ val'[s] = val[s]
                                   /\ Between(s) => val'[s] = file'[op[s].reg]
    BY <1>a, AccessKeeps
  <1>1. TypeOK'
    BY <1>0, <1>b DEF TypeOK, Pc
  <1>2. WindowOwned'
    BY <1>0 DEF TypeOK, IInv, WindowOwned
  <1>3. MutexHeld'
    BY <1>0 DEF TypeOK, IInv, MutexHeld
  <1>4. Phases'
    BY <1>0 DEF TypeOK, IInv, Phases, Final
  <1>5. Fresh'
    BY <1>0, <1>b, OpFacts DEF TypeOK, IInv, Fresh, Between, Phases
  <1>6. HasResult'
    BY <1>0, <1>b DEF TypeOK, IInv, HasResult, Done, Final, Phases
  <1> QED
    BY <1>1, <1>2, <1>3, <1>4, <1>5, <1>6 DEF IInv

LEMMA UnlockKeeps ==
    ASSUME IInv, NEW t \in Thread, Unlock(t)
    PROVE  IInv'
  <1> USE DEF Unlock
  <1>0. TypeOK /\ op[t] \in Op /\ op[t].reg \in Reg
    BY OpFacts DEF IInv, TypeOK, Phases
  <1>1. TypeOK'
    BY <1>0 DEF TypeOK, Pc, Proceed, Final
  <1>2. WindowOwned'
    <2>1. pc' = [pc EXCEPT ![t] = IF Final(t) THEN "return" ELSE "access"]
      BY DEF Proceed
    <2>2. lock = t
      BY DEF IInv, WindowOwned
    <2>3. \A s \in Thread \ {t} : pc[s] \notin {"index", "data", "unlock"}
      BY <2>2 DEF IInv, WindowOwned
    <2>4. ASSUME NEW s \in Thread
          PROVE  (/\ pc[s] \in {"index", "data", "unlock"} <=> lock = s
                  /\ pc[s] = "data" => mmIndex = op[s].reg)'
      <3>1. CASE s = t
        BY <1>0, <2>1, <3>1, ThreadAssumption DEF TypeOK
      <3>2. CASE s # t
        BY <1>0, <2>1, <2>3, <3>2, ThreadAssumption DEF TypeOK
      <3> QED
        BY <3>1, <3>2
    <2> QED
      BY <2>4 DEF WindowOwned
  <1>3. MutexHeld'
    BY <1>0 DEF TypeOK, IInv, MutexHeld, Proceed, Final
  <1>4. Phases'
    BY <1>0, OpFacts DEF TypeOK, IInv, Phases, Final, Proceed
  <1>5. Fresh'
    <2>1. UNCHANGED <<file, val, op>>
      OBVIOUS
    <2>2. ASSUME NEW s \in Thread, Between(s)'
          PROVE  Between(s)
      <3>1. CASE s # t
        BY <1>0, <2>2, <3>1 DEF Between, Proceed, TypeOK
      <3>2. CASE s = t
        BY <1>0, <2>2, <3>2, OpFacts DEF Between, Proceed, TypeOK, Final
      <3> QED
        BY <3>1, <3>2
    <2> QED
      BY <2>1, <2>2 DEF Fresh, IInv
  <1>6. HasResult'
    BY <1>0, OpFacts DEF TypeOK, IInv, HasResult, Done, Final, Phases, Proceed
  <1> QED
    BY <1>1, <1>2, <1>3, <1>4, <1>5, <1>6 DEF IInv

LEMMA ReturnKeeps ==
    ASSUME IInv, NEW t \in Thread, Return(t)
    PROVE  IInv'
  <1> USE DEF Return
  <1>0. TypeOK /\ op[t] \in Op /\ op[t].reg \in Reg
    BY OpFacts DEF IInv, TypeOK, Phases
  <1>1. TypeOK'
    BY <1>0 DEF TypeOK, Pc
  <1>2. WindowOwned'
    BY <1>0 DEF TypeOK, IInv, WindowOwned
  <1>3. MutexHeld'
    BY <1>0, ThreadAssumption DEF TypeOK, IInv, MutexHeld
  <1>4. Phases'
    BY <1>0 DEF TypeOK, IInv, Phases, Final
  <1>5. Fresh'
    BY <1>0 DEF TypeOK, IInv, Fresh, Between, Phases
  <1>6. HasResult'
    BY <1>0 DEF TypeOK, IInv, HasResult, Done, Final, Phases
  <1> QED
    BY <1>1, <1>2, <1>3, <1>4, <1>5, <1>6 DEF IInv

(* No action of the service breaks IInv.                                   *)
THEOREM Inductive == Spec => []IInv
  <1>1. IInv /\ [Next]_vars => IInv'
    <2> SUFFICES ASSUME IInv, [Next]_vars PROVE IInv'
      OBVIOUS
    <2>1. CASE UNCHANGED vars
      BY <2>1 DEF vars, IInv, TypeOK, WindowOwned, MutexHeld, Phases, Fresh,
                  Between, HasResult, Done, Final
    <2>2. ASSUME NEW t \in Thread, Step(t) PROVE IInv'
      BY <2>2, AcquireKeeps, AccessDirectKeeps, LockKeeps, WriteIndexKeeps,
         AccessDataKeeps, UnlockKeeps, ReturnKeeps DEF Step
    <2>3. ASSUME NEW t \in Thread, NEW o \in Op, Invoke(t, o) PROVE IInv'
      BY <2>3, InvokeKeeps
    <2> QED
      BY <2>1, <2>2, <2>3 DEF Next
  <1> QED
    BY InitIInv, <1>1, PTL DEF Spec

(* Every variable of the register service keeps its type.                  *)
THEOREM TypeTheorem == Spec => []TypeOK
  BY Inductive, PTL DEF IInv

(* The index/data pair belongs to the holder of the spin lock and names    *)
(* that thread's register (reg_read, reg_write).                           *)
THEOREM WindowTheorem == Spec => []WindowOwned
  BY Inductive, PTL DEF IInv

(* reg_update_ex never writes back a value that has changed since it read. *)
THEOREM FreshUpdateTheorem == Spec => []FreshUpdate
  <1>1. IInv => FreshUpdate
    BY DEF IInv, Fresh, Between, FreshUpdate
  <1> QED
    BY Inductive, <1>1, PTL

-----------------------------------------------------------------------------
(* What one access does, seen through the refinement mapping: the last     *)
(* access of an operation applies it to the register file at once.         *)
LEMMA LastAccess ==
    ASSUME IInv, NEW t \in Thread, pc[t] \in {"access", "data"},
           Access(t, op[t].reg), Final(t)
    PROVE  LET new == RF!Result(op[t], file[op[t].reg])
           IN  /\ file' = [file EXCEPT ![op[t].reg] = new]
               /\ val' = [val EXCEPT ![t] = new]
  <1>0. TypeOK /\ op[t] \in Op /\ op[t].reg \in Reg
    BY OpFacts DEF IInv, TypeOK, Phases
  <1>1. CASE phase[t] = "load"
    <2>1. RF!Result(op[t], file[op[t].reg]) = file[op[t].reg]
      BY <1>1 DEF Final, RF!Result
    <2> QED
      BY <1>0, <1>1, <2>1 DEF Access, TypeOK
  <1>2. CASE phase[t] = "store"
    BY <1>2, StoredFacts DEF Access
  <1> QED
    BY <1>0, <1>1, <1>2 DEF TypeOK

(* An access that is not the last one leaves the register file alone.      *)
LEMMA EarlierAccess ==
    ASSUME IInv, NEW t \in Thread, pc[t] \in {"access", "data"},
           Access(t, op[t].reg), ~ Final(t)
    PROVE  UNCHANGED file /\ \A s \in Thread \ {t} : val'[s] = val[s]
  BY DEF Access, Final, IInv, TypeOK

(* The service is an atomic register file: each step of a thread is the    *)
(* call, the taking effect or the return of its operation, or invisible.   *)
THEOREM StepRefines == IInv /\ [Next]_vars => [RF!Next]_(RF!vars)
  <1> SUFFICES ASSUME IInv, [Next]_vars PROVE [RF!Next]_(RF!vars)
    OBVIOUS
  <1> DEFINE res == [t \in Thread |-> Res(t)]
  <1> USE DEF Res
  <1>0. TypeOK
    BY DEF IInv
  <1>1. CASE UNCHANGED vars
    BY <1>1 DEF vars, RF!vars, Done, Final
  <1>2. ASSUME NEW t \in Thread, NEW o \in Op, Invoke(t, o)
        PROVE  RF!Next
    <2>1. op[t] = NoOp /\ op' = [op EXCEPT ![t] = o] /\ UNCHANGED file
      BY <1>2 DEF Invoke, IInv, Phases
    <2>2. res' = res
      BY <1>2, <1>0 DEF Invoke, Done, Final, TypeOK
    <2>3. RF!Invoke(t, o)
      BY <2>1, <2>2 DEF RF!Invoke
    <2> QED
      BY <2>3 DEF RF!Next
  <1>3. ASSUME NEW t \in Thread, pc[t] \in {"access", "data"},
               Access(t, op[t].reg), Final(t), Done(t)', UNCHANGED op,
               \A s \in Thread \ {t} : pc'[s] = pc[s] /\ phase'[s] = phase[s]
        PROVE  RF!Next
    <2> DEFINE new == RF!Result(op[t], file[op[t].reg])
    <2>1. file' = [file EXCEPT ![op[t].reg] = new] /\ val' = [val EXCEPT ![t] = new]
      BY <1>3, LastAccess
    <2>2. op[t] # NoOp /\ res[t] = NoValue
      BY <1>3 DEF IInv, Phases, Done
    <2>3. res' = [res EXCEPT ![t] = new]
      <3>1. Res(t)' = new
        BY <1>0, <1>3, <2>1 DEF TypeOK
      <3>2. ASSUME NEW s \in Thread \ {t} PROVE Res(s)' = Res(s)
        BY <1>0, <1>3, <2>1 DEF TypeOK, Done, Final
      <3> QED
        BY <3>1, <3>2
    <2>4. RF!Apply(t)
      BY <1>3, <2>1, <2>2, <2>3 DEF RF!Apply
    <2> QED
      BY <2>4 DEF RF!Next
  <1>4. ASSUME NEW t \in Thread, pc[t] \in {"access", "data"},
               Access(t, op[t].reg), ~ Final(t), ~ Done(t)', UNCHANGED op,
               \A s \in Thread \ {t} : pc'[s] = pc[s] /\ phase'[s] = phase[s]
        PROVE  UNCHANGED RF!vars
    <2>1. UNCHANGED file /\ \A s \in Thread \ {t} : val'[s] = val[s]
      BY <1>4, EarlierAccess
    <2>2. ~ Done(t)
      BY <1>4 DEF Done
    <2>3. \A s \in Thread : Res(s)' = Res(s)
      BY <1>4, <2>1, <2>2 DEF Done, Final
    <2>4. UNCHANGED res
      BY <2>3
    <2> QED
      BY <1>4, <2>1, <2>4 DEF RF!vars
  <1>5. ASSUME NEW t \in Thread, AccessDirect(t)
        PROVE  [RF!Next]_(RF!vars)
    <2>1. /\ pc[t] = "access" /\ Access(t, op[t].reg) /\ UNCHANGED op
          /\ \A s \in Thread \ {t} : pc'[s] = pc[s] /\ phase'[s] = phase[s]
      BY <1>0, <1>5 DEF AccessDirect, Proceed, TypeOK
    <2>2. CASE Final(t)
      <3>1. Done(t)'
        BY <1>0, <1>5, <2>2 DEF AccessDirect, Proceed, Done, TypeOK
      <3> QED
        BY <1>3, <2>1, <2>2, <3>1
    <2>3. CASE ~ Final(t)
      <3>1. ~ Done(t)'
        BY <1>0, <1>5, <2>3 DEF AccessDirect, Proceed, Done, TypeOK
      <3> QED
        BY <1>4, <2>1, <2>3, <3>1
    <2> QED
      BY <2>2, <2>3
  <1>6. ASSUME NEW t \in Thread, AccessData(t)
        PROVE  [RF!Next]_(RF!vars)
    <2>1. /\ pc[t] = "data" /\ Access(t, op[t].reg) /\ UNCHANGED op
          /\ \A s \in Thread \ {t} : pc'[s] = pc[s] /\ phase'[s] = phase[s]
      BY <1>0, <1>6, Indexed DEF AccessData, TypeOK
    <2>2. Done(t)' <=> Final(t)
      BY <1>0, <1>6 DEF AccessData, Done, Final, TypeOK
    <2> QED
      BY <1>3, <1>4, <2>1, <2>2
  <1>7. ASSUME NEW t \in Thread, Acquire(t) \/ Lock(t) \/ WriteIndex(t)
        PROVE  UNCHANGED RF!vars
    <2>1. \A s \in Thread : Res(s)' = Res(s)
      BY <1>0, <1>7 DEF Acquire, Lock, WriteIndex, Done, Final, TypeOK
    <2>2. UNCHANGED <<file, op, res>>
      BY <1>7, <2>1 DEF Acquire, Lock, WriteIndex
    <2> QED
      BY <2>2 DEF RF!vars
  <1>8. ASSUME NEW t \in Thread, Unlock(t)
        PROVE  UNCHANGED RF!vars
    <2>1. /\ pc[t] = "unlock" /\ UNCHANGED <<file, op, val>>
          /\ \A s \in Thread \ {t} : pc'[s] = pc[s] /\ phase'[s] = phase[s]
          /\ Done(t)' <=> Done(t)
      BY <1>0, <1>8 DEF Unlock, Proceed, TypeOK, Done
    <2>2. \A s \in Thread : Res(s)' = Res(s)
      BY <2>1 DEF Done, Final
    <2>3. UNCHANGED res
      BY <2>2
    <2> QED
      BY <2>1, <2>3 DEF RF!vars
  <1>9. ASSUME NEW t \in Thread, Return(t)
        PROVE  RF!Next
    <2>1. op[t] # NoOp /\ res[t] # NoValue
      BY <1>9, NoValueAssumption DEF Return, IInv, Phases, HasResult, Done
    <2>2. res' = [res EXCEPT ![t] = NoValue]
      BY <1>0, <1>9 DEF Return, Done, Final, TypeOK
    <2>3. op' = [op EXCEPT ![t] = NoOp] /\ UNCHANGED file
      BY <1>9 DEF Return
    <2>4. RF!Return(t)
      BY <2>1, <2>2, <2>3 DEF RF!Return
    <2> QED
      BY <2>4 DEF RF!Next
  <1> QED
    BY <1>1, <1>2, <1>5, <1>6, <1>7, <1>8, <1>9 DEF Next, Step

(* The register service implements the atomic register file.               *)
THEOREM AtomicTheorem == Spec => Atomic
  <1>1. Init => RF!Init
    BY DEF Init, RF!Init, Done, Value
  <1> QED
    BY <1>1, Inductive, StepRefines, PTL DEF Spec, Atomic, RF!Spec

(* No store is stale or misdirected: a field changes only by an operation  *)
(* on its register that writes that field.                                 *)
THEOREM FieldsKeptTheorem == Spec => FieldsKept
  <1> DEFINE Kept(r, f) ==
        file'[r][f] # file[r][f] =>
            \E t \in Thread :
               /\ op[t] # NoOp
               /\ op[t].reg = r
               /\ \/ op[t].kind = "write"
                  \/ op[t].kind = "update" /\ f \in DOMAIN op[t].fields
  <1>1. IInv /\ [Next]_vars => [\A r \in Reg, f \in Field : Kept(r, f)]_vars
    <2> SUFFICES ASSUME IInv, [Next]_vars, NEW r \in Reg, NEW f \in Field,
                        file'[r][f] # file[r][f]
                 PROVE  Kept(r, f)
      OBVIOUS
    <2>1. PICK t \in Thread : RF!Apply(t)
      BY StepRefines DEF RF!Next, RF!vars, RF!Invoke, RF!Return
    <2>2. op[t] \in Op
      BY <2>1 DEF RF!Apply, IInv, TypeOK
    <2>3. /\ op[t] # NoOp
          /\ op[t].reg = r
          /\ file'[r] = RF!Result(op[t], file[r])
      BY <2>1, <2>2, OpFacts DEF RF!Apply, IInv, TypeOK
    <2>4. op[t].kind # "read"
      BY <2>3 DEF RF!Result
    <2>5. ASSUME op[t].kind = "update" PROVE f \in DOMAIN op[t].fields
      BY <2>3, <2>5 DEF RF!Result, RF!Merge
    <2> QED
      BY <2>2, <2>3, <2>4, <2>5, OpFacts
  <1> QED
    BY <1>1, Inductive, PTL DEF Spec, FieldsKept
=============================================================================
