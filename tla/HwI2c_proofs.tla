----------------------------- MODULE HwI2c_proofs -----------------------------
(***************************************************************************)
(* Proofs about HwI2c for every set of clients, slaves and requests and    *)
(* every byte size: one table at a time, what a reported success means,    *)
(* that a transfer and its slave agree byte for byte, and that it          *)
(* implements I2cAdapter.                                                  *)
(***************************************************************************)
EXTENDS HwI2c, SequenceTheorems, TLAPS

Active == {"byte", "table", "finish", "check"}

(* The loop of xfer: what its counters say of each other.                  *)
Counters(c) ==
    /\ Len(log[c]) = pos[c]
    /\ pos[c] <= Len(buf[c])
    /\ offset[c] = (job[c].first + pos[c]) % ByteSize
    /\ pc[c] \in Active => pos[c] < Len(buf[c])
    /\ pc[c] \in {"idle", "bus", "dispatch"} => pos[c] = 0 /\ Len(buf[c]) = 0
    /\ ret[c] = "num" => pos[c] = Len(buf[c])
    /\ ret[c] # "none" => pc[c] = "done"

(* What xfer made of the messages while it still works on them.            *)
Dispatched(c) == pc[c] \in Active =>
    /\ IsSupported(msgs[c])
    /\ job[c] = JobOf(msgs[c])
    /\ ~ job[c].rd => buf[c] = JobBuf(msgs[c])

(* What the transaction parameters hold while and after the table runs.    *)
Parameters(c) ==
    /\ pc[c] = "table" => args[c].acted = FALSE /\ args[c].aborted = FALSE
    /\ pc[c] \in {"table", "finish"} => args[c].status = offset[c]
    /\ pc[c] \in {"table", "finish"} /\ ~ job[c].rd
         => args[c].data = buf[c][pos[c] + 1]
    /\ pc[c] = "check" =>
         \/ args[c].acted
         \/ args[c].status # HW_ASSISTED_I2C_STATUS_SUCCESS
         \/ args[c].aborted /\ args[c].status = offset[c]

(* Every byte accepted was done, or aborted at the aliased offset.         *)
Logged(c) == \A i \in 1 .. pos[c] :
    \/ log[c][i].acted
    \/ /\ log[c][i].aborted
       /\ OffsetOf(c, i) = HW_ASSISTED_I2C_STATUS_SUCCESS

AllActed(c) == \A i \in 1 .. pos[c] : log[c][i].acted

(* The bytes the slave has acted on, and the i-th of them.                 *)
Landed(c) == IF pc[c] \in {"finish", "check"} /\ args[c].acted
             THEN pos[c] + 1 ELSE pos[c]

ByteAt(c, i) == IF i = pos[c] + 1 /\ job[c].rd THEN args[c].data ELSE buf[c][i]

(* The slave agrees with the bytes that have landed so far.                *)
Agrees(c) == (ret[c] # "EIO" /\ AllActed(c)) =>
    \A i \in 1 .. Landed(c) :
        (\A j \in 1 .. Landed(c) : j > i => OffsetOf(c, j) # OffsetOf(c, i))
            => mem[job[c].addr][OffsetOf(c, i)] = ByteAt(c, i)

Inv(c) == Counters(c) /\ Dispatched(c) /\ Parameters(c) /\ Logged(c) /\ Agrees(c)

IInv == TypeOK /\ OneTable /\ \A c \in Client : Inv(c)

USE DEF HW_ASSISTED_I2C_STATUS_SUCCESS, HW_ASSISTED_I2C_STATUS_FAILURE

-----------------------------------------------------------------------------
(* Arithmetic of the wrapping offset.                                      *)
LEMMA RemainderUnique ==
    ASSUME NEW n \in Nat, n > 0, NEW p \in Int, NEW q \in Int,
           NEW r \in 0 .. (n - 1), NEW s \in 0 .. (n - 1), n * p + r = n * q + s
    PROVE  r = s
  <1>1. CASE p = q
    BY <1>1
  <1>2. CASE p > q
    <2>1. p - q >= 1 /\ n * (p - q) = s - r
      BY <1>2
    <2>2. n * (p - q) >= n
      BY <2>1
    <2> QED
      BY <2>1, <2>2
  <1>3. CASE p < q
    <2>1. q - p >= 1 /\ n * (q - p) = r - s
      BY <1>3
    <2>2. n * (q - p) >= n
      BY <2>1
    <2> QED
      BY <2>1, <2>2
  <1> QED
    BY <1>1, <1>2, <1>3

LEMMA Division ==
    ASSUME NEW n \in Nat, n > 0, NEW x \in Nat
    PROVE  /\ x % n \in 0 .. (n - 1)
           /\ x \div n \in Int
           /\ x = n * (x \div n) + (x % n)
  OBVIOUS

LEMMA RemainderOfSuccessor ==
    ASSUME NEW n \in Nat, n > 0, NEW x \in Nat
    PROVE  ((x % n) + 1) % n = (x + 1) % n
  <1> DEFINE r == x % n
             q == x \div n
  <1>1. x = n * q + r /\ r \in 0 .. (n - 1) /\ q \in Int
    BY Division
  <1>2. /\ x + 1 = n * ((x + 1) \div n) + ((x + 1) % n)
        /\ (x + 1) % n \in 0 .. (n - 1)
        /\ (x + 1) \div n \in Int
    BY Division
  <1>3. /\ r + 1 = n * ((r + 1) \div n) + ((r + 1) % n)
        /\ (r + 1) % n \in 0 .. (n - 1)
        /\ (r + 1) \div n \in Int
    BY Division, <1>1
  <1> HIDE DEF r, q
  <1>4. n * ((x + 1) \div n) + ((x + 1) % n)
          = n * (q + ((r + 1) \div n)) + ((r + 1) % n)
    BY <1>1, <1>2, <1>3
  <1>5. (x + 1) % n = (r + 1) % n
    BY <1>1, <1>2, <1>3, <1>4, RemainderUnique
  <1> QED
    BY <1>5 DEF r

-----------------------------------------------------------------------------
(* A supported request gives a job and its bytes.                          *)
LEMMA JobTypes ==
    ASSUME NEW m \in Request, IsSupported(m)
    PROVE  JobOf(m) \in Job /\ JobBuf(m) \in Seq(Byte)
  <1>1. /\ m \in Seq(Msg) /\ Len(m) \in Nat /\ Len(m) > 0
        /\ \A i \in 1 .. Len(m) : m[i] \in Msg
    BY RequestAssumption
  <1>2. m[1] \in Msg
    BY <1>1
  <1>3. CASE IsProbe(m)
    <2>1. ~ IsWrite(m) /\ ~ IsCombined(m)
      BY <1>3 DEF IsProbe, IsWrite, IsCombined
    <2>2. JobBuf(m) = <<0>>
      BY <1>3, <2>1 DEF JobBuf
    <2>3. JobOf(m) = [addr |-> m[1].addr, rd |-> FALSE, first |-> 0]
      BY <1>3, <2>1 DEF JobOf
    <2>4. 0 \in Byte
      BY ByteAssumption DEF Byte
    <2> QED
      BY <1>2, <2>2, <2>3, <2>4 DEF Job, Msg
  <1>4. CASE ~ IsProbe(m) /\ IsWrite(m)
    <2>1. m[1].buf \in Seq(Byte) /\ Len(m[1].buf) > 1 /\ ~ IsCombined(m)
      BY <1>1, <1>2, <1>4 DEF IsWrite, IsCombined, Msg
    <2>2. JobBuf(m) = Tail(m[1].buf) /\ ~ IsProbe(m)
      BY <1>4, <2>1 DEF JobBuf, IsProbe, IsWrite
    <2>3. m[1].buf[1] \in Byte /\ Tail(m[1].buf) \in Seq(Byte)
      BY <2>1
    <2> QED
      BY <1>2, <2>1, <2>2, <2>3 DEF JobOf, Job, Msg
  <1>5. CASE ~ IsProbe(m) /\ ~ IsWrite(m) /\ IsCombined(m)
    <2>1. m[2] \in Msg /\ m[1].buf \in Seq(Byte) /\ Len(m[1].buf) = 1
      BY <1>1, <1>2, <1>5 DEF IsCombined, Msg
    <2>2. JobBuf(m) = m[2].buf
      BY <1>5 DEF JobBuf
    <2>3. m[1].buf[1] \in Byte
      BY <2>1
    <2> QED
      BY <1>2, <1>5, <2>1, <2>2, <2>3 DEF JobOf, Job, Msg
  <1> QED
    BY <1>3, <1>4, <1>5 DEF IsSupported

-----------------------------------------------------------------------------
(* A step of another client.                                               *)
Same(d) ==
    /\ pc'[d] = pc[d] /\ msgs'[d] = msgs[d] /\ job'[d] = job[d]
    /\ buf'[d] = buf[d] /\ pos'[d] = pos[d] /\ offset'[d] = offset[d]
    /\ args'[d] = args[d] /\ ret'[d] = ret[d] /\ log'[d] = log[d]

LEMMA OthersKeep ==
    ASSUME IInv, NEW d \in Client, Same(d),
           mem' = mem \/ pc[d] \in {"idle", "bus"}
    PROVE  Inv(d)'
  <1> USE DEF Same
  <1>0. Inv(d)
    BY DEF IInv
  <1>1. Counters(d)'
    BY <1>0 DEF Inv, Counters
  <1>2. Dispatched(d)'
    BY <1>0 DEF Inv, Dispatched
  <1>3. Parameters(d)'
    BY <1>0 DEF Inv, Parameters
  <1>4. Logged(d)'
    BY <1>0 DEF Inv, Logged, OffsetOf
  <1>5. Agrees(d)'
    <2>1. CASE mem' = mem
      BY <1>0, <2>1 DEF Inv, Agrees, AllActed, Landed, ByteAt, OffsetOf
    <2>2. CASE pc[d] \in {"idle", "bus"}
      <3>1. Landed(d)' = 0
        BY <1>0, <2>2 DEF Inv, Counters, Landed
      <3> QED
        BY <3>1 DEF Agrees
    <2> QED
      BY <2>1, <2>2
  <1> QED
    BY <1>1, <1>2, <1>3, <1>4, <1>5 DEF Inv

(* A client that has not begun a transfer.                                 *)
LEMMA FreshInv ==
    ASSUME NEW c \in Client, pc[c] \in {"idle", "bus", "dispatch"}, job[c].first = 0,
           pos[c] = 0, buf[c] = <<>>, log[c] = <<>>, ret[c] = "none", offset[c] = 0
    PROVE  Inv(c)
  <1>1. Counters(c)
    <2>1. 0 % ByteSize = 0
      BY ByteAssumption
    <2> QED
      BY <2>1 DEF Counters, Active
  <1>2. Dispatched(c) /\ Parameters(c) /\ Logged(c)
    BY DEF Dispatched, Parameters, Logged, Active
  <1>3. Landed(c) = 0
    BY DEF Landed
  <1>4. Agrees(c)
    BY <1>3 DEF Agrees
  <1> QED
    BY <1>1, <1>2, <1>4 DEF Inv

LEMMA InitTypes ==
    NoJob \in Job /\ NoArgs \in Args /\ NoJob.first = 0 /\ 0 \in Byte
    /\ <<>> \in Seq(Byte) /\ <<>> \in Seq(Entry)
  BY AddrAssumption, ByteAssumption DEF NoJob, NoArgs, Job, Args, Byte

LEMMA InitIInv == Init => IInv
  <1> SUFFICES ASSUME Init PROVE IInv
    OBVIOUS
  <1> USE DEF Init
  <1>1. TypeOK
    BY InitTypes DEF TypeOK, Pc
  <1>2. OneTable
    BY ClientAssumption DEF OneTable
  <1>3. ASSUME NEW c \in Client PROVE Inv(c)
    BY FreshInv, InitTypes
  <1> QED
    BY <1>1, <1>2, <1>3 DEF IInv

LEMMA CallKeeps ==
    ASSUME IInv, NEW c \in Client, NEW m \in Request, Call(c, m)
    PROVE  IInv'
  <1> USE DEF Call
  <1>0. TypeOK /\ Inv(c)
    BY DEF IInv
  <1>1. TypeOK'
    BY <1>0 DEF TypeOK, Pc
  <1>2. OneTable'
    BY <1>0 DEF TypeOK, IInv, OneTable
  <1>3. ASSUME NEW d \in Client \ {c} PROVE Inv(d)'
    <2>1. Same(d)
      BY <1>0 DEF Same, TypeOK
    <2> QED
      BY <2>1, OthersKeep
  <1>4. Inv(c)'
    BY <1>0 DEF Inv, Counters, Dispatched, Parameters, Logged, Agrees, AllActed,
                Landed, ByteAt, OffsetOf, Active, TypeOK
  <1> QED
    BY <1>1, <1>2, <1>3, <1>4 DEF IInv

LEMMA BusLockKeeps ==
    ASSUME IInv, NEW c \in Client, BusLock(c)
    PROVE  IInv'
  <1> USE DEF BusLock
  <1>0. TypeOK /\ Inv(c)
    BY DEF IInv
  <1>1. TypeOK'
    BY <1>0 DEF TypeOK, Pc
  <1>2. OneTable'
    BY <1>0, ClientAssumption DEF TypeOK, IInv, OneTable
  <1>3. ASSUME NEW d \in Client \ {c} PROVE Inv(d)'
    <2>1. Same(d)
      BY <1>0 DEF Same, TypeOK
    <2> QED
      BY <2>1, OthersKeep
  <1>4. Inv(c)'
    BY <1>0 DEF Inv, Counters, Dispatched, Parameters, Logged, Agrees, AllActed,
                Landed, ByteAt, OffsetOf, Active, TypeOK
  <1> QED
    BY <1>1, <1>2, <1>3, <1>4 DEF IInv

LEMMA BusUnlockKeeps ==
    ASSUME IInv, NEW c \in Client, BusUnlock(c)
    PROVE  IInv'
  <1> USE DEF BusUnlock
  <1>0. TypeOK /\ Inv(c)
    BY DEF IInv
  <1>1. TypeOK'
    BY <1>0, InitTypes DEF TypeOK, Pc
  <1>2. OneTable'
    BY <1>0, ClientAssumption DEF TypeOK, IInv, OneTable
  <1>3. ASSUME NEW d \in Client \ {c} PROVE Inv(d)'
    <2>1. Same(d)
      BY <1>0 DEF Same, TypeOK
    <2> QED
      BY <2>1, OthersKeep
  <1>4. Inv(c)'
    <2>1. (/\ pc[c] \in {"idle", "bus", "dispatch"} /\ job[c].first = 0
           /\ pos[c] = 0 /\ buf[c] = <<>> /\ log[c] = <<>>
           /\ ret[c] = "none" /\ offset[c] = 0)'
      BY <1>0, InitTypes DEF TypeOK
    <2>2. 0 % ByteSize = 0
      BY ByteAssumption
    <2>3. Counters(c)'
      BY <2>1, <2>2 DEF Counters, Active
    <2>4. Dispatched(c)' /\ Parameters(c)' /\ Logged(c)'
      BY <2>1 DEF Dispatched, Parameters, Logged, Active
    <2>5. Landed(c)' = 0
      BY <2>1 DEF Landed
    <2> QED
      BY <2>3, <2>4, <2>5 DEF Inv, Agrees
  <1> QED
    BY <1>1, <1>2, <1>3, <1>4 DEF IInv

LEMMA RefuseKeeps ==
    ASSUME IInv, NEW c \in Client, Refuse(c)
    PROVE  IInv'
  <1> USE DEF Refuse
  <1>0. TypeOK /\ Inv(c)
    BY DEF IInv
  <1>1. TypeOK'
    BY <1>0 DEF TypeOK, Pc, Fail
  <1>2. OneTable'
    BY <1>0 DEF TypeOK, IInv, OneTable, Fail
  <1>3. ASSUME NEW d \in Client \ {c} PROVE Inv(d)'
    <2>1. Same(d)
      BY <1>0 DEF Same, TypeOK, Fail
    <2> QED
      BY <2>1, OthersKeep
  <1>4. Inv(c)'
    BY <1>0 DEF Inv, Counters, Dispatched, Parameters, Logged, Agrees, AllActed,
                Landed, ByteAt, OffsetOf, Active, TypeOK, Fail
  <1> QED
    BY <1>1, <1>2, <1>3, <1>4 DEF IInv

LEMMA DispatchKeeps ==
    ASSUME IInv, NEW c \in Client, Dispatch(c)
    PROVE  IInv'
  <1> USE DEF Dispatch
  <1>0. TypeOK /\ Inv(c)
    BY DEF IInv
  <1>a. msgs[c] \in Request /\ IsSupported(msgs[c]) /\ Len(msgs[c]) # 0
    BY <1>0 DEF TypeOK, NoMsgs, IsSupported, IsProbe, IsWrite, IsCombined
  <1>b. /\ JobOf(msgs[c]) \in Job
        /\ JobBuf(msgs[c]) \in Seq(Byte)
        /\ JobOf(msgs[c]).first \in Byte
    BY <1>a, JobTypes DEF Job
  <1>1. TypeOK'
    BY <1>0, <1>b DEF TypeOK, Pc, Continue
  <1>2. OneTable'
    BY <1>0 DEF TypeOK, IInv, OneTable, Continue
  <1>3. ASSUME NEW d \in Client \ {c} PROVE Inv(d)'
    <2>1. Same(d)
      BY <1>0 DEF Same, TypeOK, Continue
    <2> QED
      BY <2>1, OthersKeep
  <1>4. Inv(c)'
    <2>1. /\ pos'[c] = 0 /\ Len(log'[c]) = 0 /\ buf'[c] = JobBuf(msgs[c])
          /\ job'[c] = JobOf(msgs[c]) /\ offset'[c] = JobOf(msgs[c]).first
          /\ msgs'[c] = msgs[c]
      BY <1>0 DEF TypeOK, Inv, Counters
    <2>2. \/ pc'[c] = "byte" /\ Len(JobBuf(msgs[c])) > 0 /\ ret'[c] = ret[c]
          \/ pc'[c] = "done" /\ ret'[c] = "num" /\ Len(JobBuf(msgs[c])) = 0
      BY <1>0, <1>b DEF TypeOK, Continue
    <2>3. ret[c] = "none"
      BY <1>0 DEF TypeOK, Inv, Counters
    <2>4. (JobOf(msgs[c]).first + 0) % ByteSize = JobOf(msgs[c]).first
      BY <1>b, ByteAssumption DEF Byte
    <2>5. Counters(c)'
      BY <1>b, <2>1, <2>2, <2>3, <2>4 DEF Counters, Active
    <2>6. Dispatched(c)' /\ Parameters(c)' /\ Logged(c)'
      BY <1>a, <2>1, <2>2 DEF Dispatched, Parameters, Logged, Active
    <2>7. Landed(c)' = 0
      BY <2>1, <2>2 DEF Landed
    <2> QED
      BY <2>5, <2>6, <2>7 DEF Inv, Agrees
  <1> QED
    BY <1>1, <1>2, <1>3, <1>4 DEF IInv

LEMMA TableBeginKeeps ==
    ASSUME IInv, NEW c \in Client, TableBegin(c)
    PROVE  IInv'
  <1> USE DEF TableBegin
  <1>0. TypeOK /\ Inv(c)
    BY DEF IInv
  <1>a. buf[c][pos[c] + 1] \in Byte
    BY <1>0 DEF TypeOK, Inv, Counters, Active
  <1>b. args'[c] = [status |-> offset[c], acted |-> FALSE, aborted |-> FALSE,
                    data |-> IF job[c].rd THEN 0 ELSE buf[c][pos[c] + 1]]
    BY <1>0 DEF TypeOK, NoArgs
  <1>c. args'[c] \in Args
    BY <1>0, <1>a, <1>b, InitTypes DEF TypeOK, Args
  <1>1. TypeOK'
    BY <1>0, <1>c DEF TypeOK, Pc
  <1>2. OneTable'
    BY <1>0, ClientAssumption DEF TypeOK, IInv, OneTable
  <1>3. ASSUME NEW d \in Client \ {c} PROVE Inv(d)'
    <2>1. Same(d)
      BY <1>0 DEF Same, TypeOK
    <2> QED
      BY <2>1, OthersKeep
  <1>4. Inv(c)'
    <2>1. Counters(c)' /\ Dispatched(c)' /\ Logged(c)'
      BY <1>0 DEF TypeOK, Inv, Counters, Dispatched, Logged, OffsetOf, Active
    <2>2. Parameters(c)'
      BY <1>0, <1>b DEF TypeOK, Parameters
    <2>3. Landed(c)' = pos[c] /\ Landed(c) = pos[c]
      BY <1>0 DEF TypeOK, Landed
    <2>4. \A i \in 1 .. pos[c] : ByteAt(c, i)' = buf[c][i] /\ ByteAt(c, i) = buf[c][i]
      BY <1>0 DEF TypeOK, ByteAt
    <2>5. AllActed(c)' <=> AllActed(c)
      BY <1>0 DEF TypeOK, AllActed
    <2>6. \A i : OffsetOf(c, i)' = OffsetOf(c, i)
      BY DEF OffsetOf
    <2>7. mem[job[c].addr]' = mem[job[c].addr] /\ ret'[c] = ret[c]
      OBVIOUS
    <2>8. Agrees(c)'
      <3> SUFFICES ASSUME ret[c] # "EIO", AllActed(c), NEW i \in 1 .. pos[c],
                          \A j \in 1 .. pos[c] : j > i => OffsetOf(c, j) # OffsetOf(c, i)
                   PROVE  mem[job[c].addr][OffsetOf(c, i)] = buf[c][i]
        BY <2>3, <2>4, <2>5, <2>6, <2>7 DEF Agrees
      <3> QED
        BY <1>0, <2>3, <2>4 DEF Inv, Agrees
    <2> QED
      BY <2>1, <2>2, <2>8 DEF Inv
  <1> QED
    BY <1>1, <1>2, <1>3, <1>4 DEF IInv

LEMMA NoSlaveActsKeeps ==
    ASSUME IInv, NEW c \in Client, NoSlaveActs(c)
    PROVE  IInv'
  <1> USE DEF NoSlaveActs
  <1>0. TypeOK /\ Inv(c)
    BY DEF IInv
  <1>1. TypeOK'
    BY <1>0 DEF TypeOK, Pc
  <1>2. OneTable'
    BY <1>0 DEF TypeOK, IInv, OneTable
  <1>3. ASSUME NEW d \in Client \ {c} PROVE Inv(d)'
    <2>1. Same(d)
      BY <1>0 DEF Same, TypeOK
    <2> QED
      BY <2>1, OthersKeep
  <1>4. Inv(c)'
    <2>1. Counters(c)' /\ Dispatched(c)' /\ Logged(c)' /\ Parameters(c)'
      BY <1>0 DEF TypeOK, Inv, Counters, Dispatched, Logged, Parameters, OffsetOf, Active
    <2>2. Landed(c)' = pos[c] /\ Landed(c) = pos[c]
      BY <1>0 DEF TypeOK, Inv, Parameters, Landed
    <2>3. Agrees(c)'
      BY <1>0, <2>2 DEF TypeOK, Inv, Agrees, AllActed, ByteAt, OffsetOf
    <2> QED
      BY <2>1, <2>3 DEF Inv
  <1> QED
    BY <1>1, <1>2, <1>3, <1>4 DEF IInv

LEMMA TableEndsKeeps ==
    ASSUME IInv, NEW c \in Client, TableEnds(c)
    PROVE  IInv'
  <1> USE DEF TableEnds
  <1>0. TypeOK /\ Inv(c)
    BY DEF IInv
  <1>a. PICK status \in {1, 2} :
          /\ status = 1 => args[c].acted
          /\ args' = [args EXCEPT ![c].status = status]
    OBVIOUS
  <1>d. args'[c] = [args[c] EXCEPT !.status = status]
    BY <1>0, <1>a DEF TypeOK
  <1>b. args'[c] = [args[c] EXCEPT !.status = status] /\ status \in Byte
    BY <1>d, ByteAssumption DEF Byte
  <1>c. /\ args'[c].status = status
        /\ args'[c].acted = args[c].acted
        /\ args'[c].data = args[c].data
        /\ args'[c].aborted = args[c].aborted
    BY <1>0, <1>b DEF TypeOK, Args
  <1>e. args' \in [Client -> Args]
    <2>1. args[c] \in Args
      BY <1>0 DEF TypeOK
    <2> HIDE DEF TableEnds
    <2>2. args'[c] \in Args
      BY <2>1, <1>b DEF Args
    <2> QED
      BY <1>0, <1>a, <2>2 DEF TypeOK
  <1>1. TypeOK'
    BY <1>0, <1>e DEF TypeOK, Pc, DropMutex
  <1>2. OneTable'
    BY <1>0, ClientAssumption DEF TypeOK, IInv, OneTable, DropMutex
  <1>3. ASSUME NEW d \in Client \ {c} PROVE Inv(d)'
    <2>1. Same(d)
      BY <1>0 DEF Same, TypeOK
    <2> QED
      BY <2>1, OthersKeep
  <1>4. Inv(c)'
    <2>1. Counters(c)' /\ Dispatched(c)' /\ Logged(c)'
      BY <1>0 DEF TypeOK, Inv, Counters, Dispatched, Logged, OffsetOf, Active
    <2>2. Parameters(c)'
      BY <1>0, <1>a, <1>c DEF TypeOK, Inv, Parameters
    <2>3. Landed(c)' = Landed(c)
      BY <1>0, <1>c DEF TypeOK, Landed
    <2>4. Agrees(c)'
      BY <1>0, <1>c, <2>3 DEF TypeOK, Inv, Agrees, AllActed, ByteAt, OffsetOf
    <2> QED
      BY <2>1, <2>2, <2>4 DEF Inv
  <1> QED
    BY <1>1, <1>2, <1>3, <1>4 DEF IInv

LEMMA TableAbortsKeeps ==
    ASSUME IInv, NEW c \in Client, TableAborts(c)
    PROVE  IInv'
  <1> USE DEF TableAborts
  <1>0. TypeOK /\ Inv(c)
    BY DEF IInv
  <1>a. args'[c] = [args[c] EXCEPT !.aborted = TRUE]
    BY <1>0 DEF TypeOK
  <1>b. /\ args'[c].status = args[c].status
        /\ args'[c].acted = args[c].acted
        /\ args'[c].data = args[c].data
        /\ args'[c].aborted = TRUE
    BY <1>0, <1>a DEF TypeOK, Args
  <1>1. TypeOK'
    BY <1>0, <1>a DEF TypeOK, Pc, Args, DropMutex
  <1>2. OneTable'
    BY <1>0, ClientAssumption DEF TypeOK, IInv, OneTable, DropMutex
  <1>3. ASSUME NEW d \in Client \ {c} PROVE Inv(d)'
    <2>1. Same(d)
      BY <1>0 DEF Same, TypeOK
    <2> QED
      BY <2>1, OthersKeep
  <1>4. Inv(c)'
    <2>1. Counters(c)' /\ Dispatched(c)' /\ Logged(c)'
      BY <1>0 DEF TypeOK, Inv, Counters, Dispatched, Logged, OffsetOf, Active
    <2>2. Parameters(c)'
      BY <1>0, <1>b DEF TypeOK, Inv, Parameters
    <2>3. Landed(c)' = Landed(c)
      BY <1>0, <1>b DEF TypeOK, Landed
    <2>4. Agrees(c)'
      BY <1>0, <1>b, <2>3 DEF TypeOK, Inv, Agrees, AllActed, ByteAt, OffsetOf
    <2> QED
      BY <2>1, <2>2, <2>4 DEF Inv
  <1> QED
    BY <1>1, <1>2, <1>3, <1>4 DEF IInv

(* What a transaction on the bus does when the slave acts on it.           *)
LEMMA Acts ==
    ASSUME IInv, NEW c \in Client, SlaveActs(c)
    PROVE  /\ pc[c] = "table" /\ pc' = [pc EXCEPT ![c] = "finish"]
           /\ UNCHANGED <<bus, mutex, msgs, job, buf, pos, offset, ret, log>>
           /\ \A d \in Client \ {c} : args'[d] = args[d]
           /\ args'[c] \in Args
           /\ args'[c].acted = TRUE
           /\ args'[c].status = args[c].status
           /\ args'[c].data = IF job[c].rd THEN mem[job[c].addr][offset[c]]
                              ELSE args[c].data
           /\ args'[c].aborted = args[c].aborted
           /\ args' = [args EXCEPT ![c] = args'[c]]
           /\ mem' \in [Addr -> [Byte -> Byte]]
           /\ \A i \in Byte : mem'[job[c].addr][i] =
                IF i = offset[c] /\ ~ job[c].rd THEN args[c].data
                ELSE mem[job[c].addr][i]
  <1> DEFINE a == job[c].addr
             o == offset[c]
  <1>0. TypeOK /\ Inv(c)
    BY DEF IInv
  <1>1. /\ pc[c] = "table" /\ pc' = [pc EXCEPT ![c] = "finish"]
        /\ UNCHANGED <<bus, mutex, msgs, job, buf, pos, offset, ret, log>>
        /\ \A d \in Client \ {c} : args'[d] = args[d]
    BY <1>0 DEF SlaveActs, TypeOK
  <1>2. /\ args'[c] \in Args
        /\ args'[c].acted = TRUE
        /\ args'[c].status = args[c].status
        /\ args'[c].data = IF job[c].rd THEN mem[a][o] ELSE args[c].data
        /\ args'[c].aborted = args[c].aborted
        /\ args' = [args EXCEPT ![c] = args'[c]]
    <2>1. args[c] \in Args /\ a \in Addr /\ o \in Byte /\ mem[a][o] \in Byte
      BY <1>0 DEF TypeOK, Job
    <2>2. CASE job[c].rd
      <3>1. args' = [args EXCEPT ![c].data = mem[a][o], ![c].acted = TRUE]
        BY <2>2 DEF SlaveActs
      <3>2. args'[c] = [args[c] EXCEPT !.data = mem[a][o], !.acted = TRUE]
        BY <1>0, <3>1 DEF TypeOK
      <3>3. args' = [args EXCEPT ![c] = args'[c]]
        BY <1>0, <3>1 DEF TypeOK
      <3> QED
        BY <2>1, <2>2, <3>2, <3>3 DEF Args
    <2>3. CASE ~ job[c].rd
      <3>1. args' = [args EXCEPT ![c].acted = TRUE]
        BY <2>3 DEF SlaveActs
      <3>2. args'[c] = [args[c] EXCEPT !.acted = TRUE]
        BY <1>0, <3>1 DEF TypeOK
      <3>3. args' = [args EXCEPT ![c] = args'[c]]
        BY <1>0, <3>1 DEF TypeOK
      <3> QED
        BY <2>1, <2>3, <3>2, <3>3 DEF Args
    <2> QED
      BY <2>2, <2>3
  <1>3. /\ mem' \in [Addr -> [Byte -> Byte]]
        /\ \A i \in Byte : mem'[a][i] = IF i = o /\ ~ job[c].rd THEN args[c].data
                                        ELSE mem[a][i]
    <2>1. /\ a \in Addr /\ o \in Byte /\ args[c].data \in Byte
          /\ mem \in [Addr -> [Byte -> Byte]]
      BY <1>0 DEF TypeOK, Job, Args
    <2>2. CASE job[c].rd
      BY <2>1, <2>2 DEF SlaveActs
    <2>3. CASE ~ job[c].rd
      <3>1. mem' = [mem EXCEPT ![a][o] = args[c].data]
        BY <2>3 DEF SlaveActs
      <3> HIDE DEF a, o
      <3>2. mem'[a] = [mem[a] EXCEPT ![o] = args[c].data]
        BY <2>1, <3>1
      <3> QED
        BY <2>1, <2>3, <3>1, <3>2
    <2> QED
      BY <2>2, <2>3
  <1> QED
    BY <1>1, <1>2, <1>3

(* The slave acts on the byte at the offset that the loop has reached.     *)
LEMMA SlaveActsKeeps ==
    ASSUME IInv, NEW c \in Client, SlaveActs(c)
    PROVE  IInv'
  <1> DEFINE a == job[c].addr
             o == offset[c]
  <1>0. TypeOK /\ Inv(c)
    BY DEF IInv
  <1>1. /\ pc[c] = "table" /\ pc' = [pc EXCEPT ![c] = "finish"]
        /\ UNCHANGED <<bus, mutex, msgs, job, buf, pos, offset, ret, log>>
        /\ \A d \in Client \ {c} : args'[d] = args[d]
    BY Acts
  <1>2. /\ args'[c] \in Args
        /\ args'[c].acted = TRUE
        /\ args'[c].status = args[c].status
        /\ args'[c].data = IF job[c].rd THEN mem[a][o] ELSE args[c].data
        /\ args'[c].aborted = args[c].aborted
        /\ args' = [args EXCEPT ![c] = args'[c]]
    BY Acts
  <1>3. /\ mem' \in [Addr -> [Byte -> Byte]]
        /\ \A i \in Byte : mem'[a][i] = IF i = o /\ ~ job[c].rd THEN args[c].data
                                        ELSE mem[a][i]
    BY Acts
  <1>4. TypeOK'
    <2>1. args' \in [Client -> Args]
      BY <1>0, <1>2 DEF TypeOK
    <2> QED
      BY <1>0, <1>1, <1>3, <2>1 DEF TypeOK, Pc
  <1>5. OneTable'
    BY <1>0, <1>1 DEF TypeOK, IInv, OneTable
  <1>6. ASSUME NEW d \in Client \ {c} PROVE Inv(d)'
    <2>1. Same(d)
      BY <1>0, <1>1 DEF Same, TypeOK
    <2>2. pc[d] \in {"idle", "bus"}
      BY <1>1 DEF IInv, OneTable
    <2> QED
      BY <2>1, <2>2, OthersKeep
  <1>7. Inv(c)'
    <2>1. Counters(c)' /\ Dispatched(c)' /\ Logged(c)'
      BY <1>0, <1>1 DEF TypeOK, Inv, Counters, Dispatched, Logged, OffsetOf, Active
    <2>2. Parameters(c)'
      BY <1>0, <1>1, <1>2 DEF TypeOK, Inv, Parameters
    <2>3. /\ Landed(c) = pos[c] /\ Landed(c)' = pos[c] + 1
          /\ pos[c] \in Nat
          /\ AllActed(c)' <=> AllActed(c)
          /\ \A i : OffsetOf(c, i)' = OffsetOf(c, i)
      BY <1>0, <1>1, <1>2 DEF TypeOK, Landed, AllActed, OffsetOf
    <2>4. OffsetOf(c, pos[c] + 1) = o
      <3>1. job[c].first \in Nat /\ pos[c] \in Nat
        BY <1>0, ByteAssumption DEF TypeOK, Job, Byte
      <3>2. job[c].first + (pos[c] + 1) - 1 = job[c].first + pos[c]
        BY <3>1
      <3> QED
        BY <1>0, <3>2 DEF Inv, Counters, OffsetOf
    <2>5. \A i \in 1 .. pos[c] + 1 : OffsetOf(c, i) \in Byte
      <3> SUFFICES ASSUME NEW i \in 1 .. pos[c] + 1
                   PROVE  OffsetOf(c, i) \in Byte
        OBVIOUS
      <3>1. job[c].first \in Nat
        BY <1>0, ByteAssumption DEF TypeOK, Job, Byte
      <3>2. job[c].first + i - 1 \in Nat
        BY <2>3, <3>1
      <3> QED
        BY <3>2, ByteAssumption, Division DEF OffsetOf, Byte
    <2>6. /\ \A i \in 1 .. pos[c] : ByteAt(c, i) = buf[c][i]
          /\ \A i \in 1 .. pos[c] + 1 : ByteAt(c, i)' =
               IF i = pos[c] + 1 /\ job[c].rd THEN mem[a][o] ELSE buf[c][i]
      BY <1>0, <1>1, <1>2 DEF TypeOK, ByteAt
    <2>7. ~ job[c].rd => args[c].data = buf[c][pos[c] + 1]
      BY <1>0, <1>1 DEF Inv, Parameters
    <2>8. Agrees(c)'
      <3> SUFFICES ASSUME ret[c] # "EIO", AllActed(c), NEW i \in 1 .. pos[c] + 1,
                          \A j \in 1 .. pos[c] + 1 :
                             j > i => OffsetOf(c, j) # OffsetOf(c, i)
                   PROVE  mem'[a][OffsetOf(c, i)] = ByteAt(c, i)'
        BY <1>1, <2>3 DEF Agrees
      <3>1. CASE i = pos[c] + 1
        <4>1. o \in Byte
          BY <1>0 DEF TypeOK
        <4>2. mem'[a][o] = IF job[c].rd THEN mem[a][o] ELSE buf[c][pos[c] + 1]
          BY <1>3, <2>7, <4>1
        <4> QED
          BY <2>4, <2>6, <3>1, <4>2
      <3>2. CASE i # pos[c] + 1
        <4>1. i \in 1 .. pos[c] /\ pos[c] + 1 > i
          BY <2>3, <3>2
        <4>2. OffsetOf(c, i) # o /\ OffsetOf(c, i) \in Byte
          BY <2>3, <2>4, <2>5, <4>1
        <4>3. mem[a][OffsetOf(c, i)] = buf[c][i]
          BY <1>0, <2>3, <2>6, <4>1 DEF Inv, Agrees
        <4> QED
          BY <1>3, <2>6, <4>1, <4>2, <4>3
      <3> QED
        BY <3>1, <3>2
    <2> QED
      BY <2>1, <2>2, <2>8 DEF Inv
  <1> QED
    BY <1>4, <1>5, <1>6, <1>7 DEF IInv

(* What the end of the loop's body does with a byte whose status is good.  *)
LEMMA Accepts ==
    ASSUME IInv, NEW c \in Client, CheckStatus(c), StatusOk(c)
    PROVE  /\ pc[c] = "check" /\ args[c] \in Args /\ job[c] \in Job
           /\ pos[c] \in Nat /\ pos[c] + 1 \in 1 .. Len(buf[c]) /\ buf[c] \in Seq(Byte)
           /\ log[c] \in Seq(Entry) /\ Len(log[c]) = pos[c] /\ ret[c] = "none"
           /\ UNCHANGED <<mem, bus, mutex, msgs, job, args>>
           /\ pos' = [pos EXCEPT ![c] = pos[c] + 1]
           /\ offset' = [offset EXCEPT ![c] = (offset[c] + 1) % ByteSize]
           /\ log' = [log EXCEPT ![c] = Append(log[c], [acted |-> args[c].acted, aborted |-> args[c].aborted])]
           /\ Continue(c, Len(buf[c]) - pos[c] - 1)
           /\ buf'[c] \in Seq(Byte) /\ Len(buf'[c]) = Len(buf[c])
           /\ \A i \in 1 .. Len(buf[c]) : buf'[c][i] =
                IF i = pos[c] + 1 /\ job[c].rd THEN args[c].data ELSE buf[c][i]
           /\ ~ job[c].rd => buf'[c] = buf[c]
           /\ buf' \in [Client -> Seq(Byte)]
           /\ \A d \in Client \ {c} : buf'[d] = buf[d]
           /\ log'[c] \in Seq(Entry) /\ Len(log'[c]) = pos[c] + 1
           /\ \A i \in 1 .. pos[c] : log'[c][i] = log[c][i]
           /\ log'[c][pos[c] + 1] = [acted |-> args[c].acted, aborted |-> args[c].aborted]
           /\ \/ pc'[c] = "byte" /\ ret'[c] = "none" /\ pos[c] + 1 < Len(buf[c])
              \/ pc'[c] = "done" /\ ret'[c] = "num" /\ pos[c] + 1 = Len(buf[c])
  <1> DEFINE n == pos[c]
             entry == [acted |-> args[c].acted, aborted |-> args[c].aborted]
  <1>0. TypeOK /\ Inv(c)
    BY DEF IInv
  <1>1. /\ pc[c] = "check" /\ args[c] \in Args /\ job[c] \in Job
        /\ n \in Nat /\ n + 1 \in 1 .. Len(buf[c]) /\ buf[c] \in Seq(Byte)
        /\ log[c] \in Seq(Entry) /\ Len(log[c]) = n /\ ret[c] = "none"
    BY <1>0 DEF CheckStatus, TypeOK, Inv, Counters, Active
  <1>2. /\ UNCHANGED <<mem, bus, mutex, msgs, job, args>>
        /\ pos' = [pos EXCEPT ![c] = n + 1]
        /\ offset' = [offset EXCEPT ![c] = (offset[c] + 1) % ByteSize]
        /\ log' = [log EXCEPT ![c] = Append(log[c], entry)]
        /\ Continue(c, Len(buf[c]) - n - 1)
    BY <1>0 DEF CheckStatus, TypeOK, NextOffset
  <1>3. /\ buf'[c] \in Seq(Byte) /\ Len(buf'[c]) = Len(buf[c])
        /\ \A i \in 1 .. Len(buf[c]) : buf'[c][i] =
             IF i = n + 1 /\ job[c].rd THEN args[c].data ELSE buf[c][i]
        /\ ~ job[c].rd => buf'[c] = buf[c]
        /\ buf' \in [Client -> Seq(Byte)]
        /\ \A d \in Client \ {c} : buf'[d] = buf[d]
    <2>1. CASE ~ job[c].rd
      BY <1>0, <1>1, <2>1 DEF CheckStatus, TypeOK
    <2>2. CASE job[c].rd
      <3>1. buf' = [buf EXCEPT ![c][n + 1] = args[c].data]
        BY <2>2 DEF CheckStatus
      <3>2. buf'[c] = [buf[c] EXCEPT ![n + 1] = args[c].data]
        BY <1>0, <3>1 DEF TypeOK
      <3>3. args[c].data \in Byte
        BY <1>1 DEF Args
      <3>4. buf'[c] \in Seq(Byte) /\ Len(buf'[c]) = Len(buf[c])
        BY <1>1, <3>2, <3>3
      <3> QED
        BY <1>0, <1>1, <2>2, <3>1, <3>2, <3>4 DEF TypeOK
    <2> QED
      BY <2>1, <2>2
  <1>4. /\ log'[c] \in Seq(Entry) /\ Len(log'[c]) = n + 1
        /\ \A i \in 1 .. n : log'[c][i] = log[c][i]
        /\ log'[c][n + 1] = entry
    <2>1. entry \in Entry /\ log'[c] = Append(log[c], entry)
      BY <1>0, <1>1, <1>2 DEF Args, Entry, TypeOK
    <2> QED
      BY <1>1, <2>1
  <1>5. \/ pc'[c] = "byte" /\ ret'[c] = "none" /\ n + 1 < Len(buf[c])
        \/ pc'[c] = "done" /\ ret'[c] = "num" /\ n + 1 = Len(buf[c])
    BY <1>0, <1>1, <1>2 DEF Continue, TypeOK
  <1> QED
    BY <1>1, <1>2, <1>3, <1>4, <1>5

(* The status is good: the byte is accepted and the loop goes on.          *)
LEMMA AcceptKeeps ==
    ASSUME IInv, NEW c \in Client, CheckStatus(c), StatusOk(c)
    PROVE  IInv'
  <1> DEFINE n == pos[c]
             entry == [acted |-> args[c].acted, aborted |-> args[c].aborted]
  <1>0. TypeOK /\ Inv(c)
    BY DEF IInv
  <1>1. /\ pc[c] = "check" /\ args[c] \in Args /\ job[c] \in Job
        /\ n \in Nat /\ n + 1 \in 1 .. Len(buf[c]) /\ buf[c] \in Seq(Byte)
        /\ log[c] \in Seq(Entry) /\ Len(log[c]) = n /\ ret[c] = "none"
    BY Accepts
  <1>2. /\ UNCHANGED <<mem, bus, mutex, msgs, job, args>>
        /\ pos' = [pos EXCEPT ![c] = n + 1]
        /\ offset' = [offset EXCEPT ![c] = (offset[c] + 1) % ByteSize]
        /\ log' = [log EXCEPT ![c] = Append(log[c], entry)]
        /\ Continue(c, Len(buf[c]) - n - 1)
    BY Accepts
  <1>3. /\ buf'[c] \in Seq(Byte) /\ Len(buf'[c]) = Len(buf[c])
        /\ \A i \in 1 .. Len(buf[c]) : buf'[c][i] =
             IF i = n + 1 /\ job[c].rd THEN args[c].data ELSE buf[c][i]
        /\ ~ job[c].rd => buf'[c] = buf[c]
        /\ buf' \in [Client -> Seq(Byte)]
        /\ \A d \in Client \ {c} : buf'[d] = buf[d]
    BY Accepts
  <1>4. /\ log'[c] \in Seq(Entry) /\ Len(log'[c]) = n + 1
        /\ \A i \in 1 .. n : log'[c][i] = log[c][i]
        /\ log'[c][n + 1] = entry
    BY Accepts
  <1>5. offset'[c] \in Byte /\ offset'[c] = (job[c].first + (n + 1)) % ByteSize
    <2>1. job[c].first \in Nat
      BY <1>1, ByteAssumption DEF Job, Byte
    <2>2. offset[c] = (job[c].first + n) % ByteSize
      BY <1>0 DEF Inv, Counters
    <2>3. (((job[c].first + n) % ByteSize) + 1) % ByteSize
             = (job[c].first + n + 1) % ByteSize
      <3>1. job[c].first + n \in Nat /\ ByteSize \in Nat /\ ByteSize > 0
        BY <1>1, <2>1, ByteAssumption
      <3> QED
        BY <3>1, RemainderOfSuccessor
    <2>4. offset'[c] = (job[c].first + n + 1) % ByteSize
      BY <1>0, <1>2, <2>2, <2>3 DEF TypeOK
    <2>5. job[c].first + n + 1 = job[c].first + (n + 1) /\ job[c].first + n + 1 \in Nat
      <3>1. n \in Nat
        BY <1>1
      <3> HIDE DEF n
      <3> QED
        BY <2>1, <3>1
    <2>6. (job[c].first + n + 1) % ByteSize \in 0 .. ByteSize - 1
      BY <2>5, ByteAssumption, Division
    <2> QED
      BY <2>4, <2>5, <2>6 DEF Byte
  <1>6. \/ pc'[c] = "byte" /\ ret'[c] = "none" /\ n + 1 < Len(buf[c])
        \/ pc'[c] = "done" /\ ret'[c] = "num" /\ n + 1 = Len(buf[c])
    BY Accepts
  <1>7. TypeOK'
    <2>1. log' \in [Client -> Seq(Entry)] /\ offset' \in [Client -> Byte]
      BY <1>0, <1>2, <1>4, <1>5 DEF TypeOK
    <2>2. pc' \in [Client -> Pc] /\ ret' \in [Client -> {"none", "num", "EIO"}]
      BY <1>0, <1>2 DEF TypeOK, Continue, Pc
    <2>3. pos' \in [Client -> Nat]
      BY <1>0, <1>1, <1>2 DEF TypeOK
    <2>4. /\ mem' = mem /\ bus' = bus /\ mutex' = mutex
          /\ msgs' = msgs /\ job' = job /\ args' = args
      BY <1>2
    <2> HIDE DEF n, entry
    <2> QED
      BY <1>0, <1>3, <2>1, <2>2, <2>3, <2>4 DEF TypeOK
  <1>8. OneTable'
    BY <1>0, <1>1, <1>2 DEF TypeOK, IInv, OneTable, Continue
  <1>9. ASSUME NEW d \in Client \ {c} PROVE Inv(d)'
    <2>1. Same(d)
      BY <1>0, <1>2, <1>3 DEF Same, TypeOK, Continue
    <2> QED
      BY <1>2, <2>1, OthersKeep
  <1>10. Inv(c)'
    <2>1. pos'[c] = n + 1
      BY <1>0, <1>2 DEF TypeOK
    <2>2. Counters(c)'
      BY <1>1, <1>2, <1>3, <1>4, <1>5, <1>6, <2>1 DEF Counters, Active
    <2>3. Dispatched(c)'
      BY <1>0, <1>1, <1>2, <1>3 DEF Inv, Dispatched, Active
    <2>4. Parameters(c)'
      BY <1>6 DEF Parameters
    <2>5. OffsetOf(c, n + 1) = offset[c]
      <3>1. job[c].first \in Nat
        BY <1>1, ByteAssumption DEF Job, Byte
      <3>2. job[c].first + (n + 1) - 1 = job[c].first + n
        BY <1>1, <3>1
      <3> QED
        BY <1>0, <3>2 DEF Inv, Counters, OffsetOf
    <2>6. \A i : OffsetOf(c, i)' = OffsetOf(c, i)
      BY <1>2 DEF OffsetOf
    <2>7. args[c].acted \/ (args[c].aborted /\ offset[c] = 1)
      BY <1>0, <1>1 DEF Inv, Parameters, StatusOk
    <2>8. Logged(c)'
      <3> SUFFICES ASSUME NEW i \in 1 .. n + 1
                   PROVE  \/ log'[c][i].acted
                          \/ log'[c][i].aborted /\ OffsetOf(c, i) = 1
        BY <2>1, <2>6 DEF Logged
      <3>1. CASE i = n + 1
        BY <1>4, <2>5, <2>7, <3>1
      <3>2. CASE i \in 1 .. n
        BY <1>0, <1>4, <3>2 DEF Inv, Logged
      <3> QED
        BY <1>1, <3>1, <3>2
    <2>9. Agrees(c)'
      <3> SUFFICES ASSUME AllActed(c)', NEW i \in 1 .. n + 1,
                          \A j \in 1 .. n + 1 :
                             j > i => OffsetOf(c, j) # OffsetOf(c, i)
                   PROVE  mem[job[c].addr][OffsetOf(c, i)] = buf'[c][i]
        <4>1. Landed(c)' = n + 1
          BY <1>6, <2>1 DEF Landed
        <4>2. \A i \in 1 .. n + 1 : ByteAt(c, i)' = buf'[c][i]
          BY <1>1, <2>1 DEF ByteAt
        <4> QED
          BY <1>2, <2>6, <4>1, <4>2 DEF Agrees
      <3>0. \A k \in 1 .. n + 1 : log'[c][k].acted
        BY <2>1 DEF AllActed
      <3>1. AllActed(c) /\ args[c].acted
        <4>1. \A k \in 1 .. n : log[c][k].acted
          BY <1>1, <1>4, <3>0
        <4>2. log'[c][n + 1].acted
          BY <1>1, <3>0
        <4> QED
          BY <1>4, <4>1, <4>2 DEF AllActed
      <3>2. Landed(c) = n + 1
        BY <1>1, <3>1 DEF Landed
      <3>3. mem[job[c].addr][OffsetOf(c, i)] = ByteAt(c, i)
        BY <1>0, <1>1, <3>1, <3>2 DEF Inv, Agrees
      <3>4. ByteAt(c, i) = buf'[c][i]
        BY <1>1, <1>3 DEF ByteAt
      <3> QED
        BY <3>3, <3>4
    <2> QED
      BY <2>2, <2>3, <2>4, <2>8, <2>9 DEF Inv
  <1> QED
    BY <1>7, <1>8, <1>9, <1>10 DEF IInv

(* The status is bad: the transfer ends with an error.                     *)
LEMMA RejectKeeps ==
    ASSUME IInv, NEW c \in Client, CheckStatus(c), ~ StatusOk(c)
    PROVE  IInv'
  <1>0. TypeOK /\ Inv(c)
    BY DEF IInv
  <1>1. /\ pc[c] = "check"
        /\ pc' = [pc EXCEPT ![c] = "done"]
        /\ ret' = [ret EXCEPT ![c] = "EIO"]
        /\ UNCHANGED <<mem, bus, mutex, msgs, job, args, buf, pos, offset, log>>
    BY DEF CheckStatus, Fail
  <1>2. TypeOK'
    BY <1>0, <1>1 DEF TypeOK, Pc
  <1>3. OneTable'
    BY <1>0, <1>1 DEF TypeOK, IInv, OneTable
  <1>4. ASSUME NEW d \in Client \ {c} PROVE Inv(d)'
    <2>1. Same(d)
      BY <1>0, <1>1 DEF Same, TypeOK
    <2> QED
      BY <1>1, <2>1, OthersKeep
  <1>5. Inv(c)'
    BY <1>0, <1>1 DEF TypeOK, Inv, Counters, Dispatched, Parameters, Logged, Agrees,
                      OffsetOf, Active
  <1> QED
    BY <1>2, <1>3, <1>4, <1>5 DEF IInv

(* IInv holds throughout every execution.                                  *)
THEOREM Inductive == Spec => []IInv
  <1>1. IInv /\ [Next]_vars => IInv'
    <2> SUFFICES ASSUME IInv, [Next]_vars PROVE IInv'
      OBVIOUS
    <2>1. CASE UNCHANGED vars
      <3>1. TypeOK' /\ OneTable'
        BY <2>1 DEF vars, IInv, TypeOK, OneTable
      <3>2. ASSUME NEW c \in Client PROVE Inv(c)'
        <4>1. Same(c) /\ mem' = mem
          BY <2>1 DEF vars, Same
        <4> QED
          BY <4>1, OthersKeep
      <3> QED
        BY <3>1, <3>2 DEF IInv
    <2>2. ASSUME NEW c \in Client, Step(c) PROVE IInv'
      BY <2>2, BusLockKeeps, BusUnlockKeeps, DispatchKeeps, RefuseKeeps,
         TableBeginKeeps, SlaveActsKeeps, NoSlaveActsKeeps, TableEndsKeeps,
         TableAbortsKeeps, AcceptKeeps, RejectKeeps DEF Step
    <2>3. ASSUME NEW c \in Client, NEW m \in Request, Call(c, m) PROVE IInv'
      BY <2>3, CallKeeps
    <2> QED
      BY <2>1, <2>2, <2>3 DEF Next
  <1> QED
    BY InitIInv, <1>1, PTL DEF Spec

(* Every variable of the adapter keeps its type, the offset a byte.        *)
THEOREM TypeTheorem == Spec => []TypeOK
  BY Inductive, PTL DEF IInv

-----------------------------------------------------------------------------
(* One command table at a time, for the client that owns the bus.          *)
THEOREM OneTableTheorem == Spec => []OneTable
  BY Inductive, PTL DEF IInv

(* Success is only ever wrong where the offset of an aborted byte is the   *)
(* success status (aura-gpu-hw.c:214-227).                                 *)
THEOREM SuccessTheorem == Spec => []SuccessUnlessAliased
  <1>1. IInv => SuccessUnlessAliased
    <2> SUFFICES ASSUME IInv, NEW c \in Client, Succeeded(c)
                 PROVE  /\ Len(log[c]) = Len(buf[c])
                        /\ \A i \in DOMAIN log[c] :
                             \/ log[c][i].acted
                             \/ /\ log[c][i].aborted
                                /\ OffsetOf(c, i) = HW_ASSISTED_I2C_STATUS_SUCCESS
      BY DEF SuccessUnlessAliased
    <2>1. Counters(c) /\ Logged(c) /\ log[c] \in Seq(Entry)
      BY DEF IInv, Inv, TypeOK
    <2> QED
      BY <2>1 DEF Succeeded, Counters, Logged
  <1> QED
    BY Inductive, <1>1, PTL

(* A successful transfer and the slave agree byte for byte.                *)
THEOREM CoherentTheorem == Spec => []Coherent
  <1>1. IInv => Coherent
    <2> SUFFICES ASSUME IInv, NEW c \in Client, Succeeded(c),
                        \A i \in DOMAIN log[c] : log[c][i].acted,
                        NEW i \in DOMAIN buf[c],
                        \A j \in DOMAIN buf[c] :
                            j > i => OffsetOf(c, j) # OffsetOf(c, i)
                 PROVE  mem[job[c].addr][OffsetOf(c, i)] = buf[c][i]
      BY DEF Coherent
    <2>1. /\ Counters(c) /\ Agrees(c) /\ TypeOK
          /\ log[c] \in Seq(Entry) /\ buf[c] \in Seq(Byte) /\ pos[c] \in Nat
      BY DEF IInv, Inv, TypeOK
    <2>2. pc[c] = "done" /\ ret[c] = "num" /\ pos[c] = Len(buf[c]) /\ Len(log[c]) = pos[c]
      BY <2>1 DEF Succeeded, Counters
    <2>3. AllActed(c) /\ Landed(c) = pos[c] /\ DOMAIN buf[c] = 1 .. pos[c]
      BY <2>1, <2>2 DEF AllActed, Landed
    <2>4. mem[job[c].addr][OffsetOf(c, i)] = ByteAt(c, i)
      BY <2>1, <2>2, <2>3 DEF Agrees
    <2> QED
      BY <2>1, <2>3, <2>4 DEF ByteAt
  <1> QED
    BY Inductive, <1>1, PTL

(* A byte that a job writes is one that the messages ask for, but for a    *)
(* probe's zero and for the address of the second message.                 *)
LEMMA JobAsks ==
    ASSUME NEW m \in Request, IsSupported(m), ~ JobOf(m).rd,
           NEW k \in 1 .. Len(JobBuf(m)), NEW o,
           o = (JobOf(m).first + k - 1) % ByteSize
    PROVE  \/ Asks(m, k, m[1].addr, o, JobBuf(m)[k])
           \/ IsProbe(m) /\ k = 1 /\ o = 0 /\ JobBuf(m)[k] = 0
           \/ Len(m) = 2 /\ Asks(m, k, m[2].addr, o, JobBuf(m)[k])
  <1>0. /\ m \in Seq(Msg) /\ Len(m) \in Nat /\ Len(m) > 0
        /\ \A i \in 1 .. Len(m) : m[i] \in Msg
    BY RequestAssumption
  <1>1. m[1] \in Msg /\ m[1].buf \in Seq(Byte) /\ Len(m[1].buf) \in Nat
    BY <1>0 DEF Msg
  <1>2. CASE IsProbe(m)
    <2>1. JobBuf(m) = <<0>> /\ JobOf(m).first = 0
      BY <1>2 DEF JobBuf, JobOf, IsProbe, IsWrite, IsCombined
    <2>2. k = 1
      BY <2>1
    <2>3. 0 % ByteSize = 0
      BY ByteAssumption
    <2> QED
      BY <1>2, <2>1, <2>2, <2>3
  <1>3. CASE ~ IsProbe(m) /\ IsWrite(m)
    <2>1. /\ Len(m) = 1 /\ ~ m[1].rd /\ Len(m[1].buf) > 1
          /\ JobBuf(m) = Tail(m[1].buf) /\ JobOf(m).first = m[1].buf[1]
      BY <1>3 DEF JobBuf, JobOf, IsWrite, IsCombined
    <2>2. Len(JobBuf(m)) = Len(m[1].buf) - 1 /\ JobBuf(m)[k] = m[1].buf[k + 1]
      BY <1>1, <2>1
    <2>3. k + 1 \in DOMAIN m[1].buf /\ m[1].buf # <<>>
      BY <1>1, <2>1, <2>2
    <2> QED
      BY <2>1, <2>2, <2>3 DEF Asks
  <1>4. CASE ~ IsProbe(m) /\ ~ IsWrite(m)
    <2>1. /\ Len(m) = 2 /\ ~ m[1].rd /\ Len(m[1].buf) = 1 /\ ~ m[2].rd
          /\ JobBuf(m) = m[2].buf /\ JobOf(m).first = m[1].buf[1]
      BY <1>4 DEF JobBuf, JobOf, IsSupported, IsCombined
    <2>2. m[2] \in Msg
      BY <1>0, <2>1
    <2>3. m[2].buf \in Seq(Byte)
      BY <2>2 DEF Msg
    <2>4. k \in DOMAIN m[2].buf /\ m[1].buf # <<>>
      BY <2>1, <2>3
    <2> QED
      BY <2>1, <2>4 DEF Asks
  <1> QED
    BY <1>2, <1>3, <1>4

(* A slave's register changes only as the bus owner's messages themselves  *)
(* ask, except by a probe and for the address of the second message.       *)
THEOREM OnlyAskedWritesTheorem == Spec => OnlyAskedWritesUnless
  <1> DEFINE Excused(m, k, a, o, b) ==
         \/ Asks(m, k, a, o, b)
         \/ IsProbe(m) /\ a = m[1].addr /\ k = 1 /\ o = 0 /\ b = 0
         \/ Len(m) = 2 /\ a = m[1].addr /\ Asks(m, k, m[2].addr, o, b)
  <1> DEFINE Changed(a, o) ==
         mem'[a][o] # mem[a][o] =>
            /\ bus # NoClient
            /\ Excused(msgs[bus], pos[bus] + 1, a, o, mem'[a][o])
  <1>1. IInv /\ [Next]_vars => [\A a \in Addr, o \in Byte : Changed(a, o)]_vars
    <2> SUFFICES ASSUME IInv, [Next]_vars, NEW a \in Addr, NEW o \in Byte,
                        mem'[a][o] # mem[a][o]
                 PROVE  Changed(a, o)
      OBVIOUS
    <2>1. PICK c \in Client : SlaveActs(c)
      BY DEF Next, vars, Step, Call, BusLock, BusUnlock, Dispatch, Refuse, TableBegin,
             NoSlaveActs, TableEnds, TableAborts, CheckStatus
    <2>2. TypeOK /\ Inv(c) /\ bus = c /\ bus # NoClient /\ pc[c] = "table"
      BY <2>1, ClientAssumption DEF SlaveActs, IInv, OneTable
    <2>3. /\ ~ job[c].rd /\ a = job[c].addr /\ o = offset[c]
          /\ mem'[a][o] = args[c].data
      BY <2>1, <2>2 DEF SlaveActs, TypeOK, Job
    <2>4. IsSupported(msgs[c]) /\ job[c] = JobOf(msgs[c]) /\ buf[c] = JobBuf(msgs[c])
      BY <2>2, <2>3 DEF Inv, Dispatched, Active
    <2>5. /\ args[c].data = buf[c][pos[c] + 1] /\ pos[c] < Len(buf[c])
          /\ o = (job[c].first + pos[c]) % ByteSize
      BY <2>2, <2>3 DEF Inv, Parameters, Counters, Active
    <2>6. JobOf(msgs[c]).addr = msgs[c][1].addr
      BY DEF JobOf
    <2>7. msgs[c] \in Request
      BY <2>2, <2>4 DEF TypeOK, IsSupported, IsProbe, IsWrite, IsCombined, NoMsgs
    <2>8. pos[c] + 1 \in 1 .. Len(JobBuf(msgs[c]))
      BY <2>2, <2>4, <2>5 DEF TypeOK
    <2>9. o = (JobOf(msgs[c]).first + (pos[c] + 1) - 1) % ByteSize
      <3>1. JobOf(msgs[c]).first \in Int
        BY <2>4, <2>7, JobTypes DEF Job, Byte
      <3>2. JobOf(msgs[c]).first + (pos[c] + 1) - 1 = JobOf(msgs[c]).first + pos[c]
        BY <2>2, <3>1 DEF TypeOK
      <3> QED
        BY <2>4, <2>5, <3>2
    <2>10. Excused(msgs[c], pos[c] + 1, a, o, JobBuf(msgs[c])[pos[c] + 1])
      <3> DEFINE k == pos[c] + 1
      <3>1. k \in 1 .. Len(JobBuf(msgs[c]))
        BY <2>8
      <3>2. ~ JobOf(msgs[c]).rd /\ a = msgs[c][1].addr
        BY <2>3, <2>4, <2>6
      <3>3. o = (JobOf(msgs[c]).first + k - 1) % ByteSize
        BY <2>9
      <3> HIDE DEF k
      <3>4. Excused(msgs[c], k, a, o, JobBuf(msgs[c])[k])
        BY <2>4, <2>7, <3>1, <3>2, <3>3, JobAsks
      <3> QED
        BY <3>4 DEF k
    <2> QED
      BY <2>2, <2>3, <2>4, <2>5, <2>10
  <1>2. OnlyAskedWritesUnless <=> [][\A a \in Addr, o \in Byte : Changed(a, o)]_vars
    BY DEF OnlyAskedWritesUnless
  <1> HIDE DEF Changed
  <1> QED
    BY <1>1, <1>2, Inductive, PTL DEF Spec

-----------------------------------------------------------------------------
(* The refinement of I2cAdapter.                                         *)

(* What IInv says nothing of: which clients transfer, and how much.        *)
Extra(c) ==
    /\ pc[c] = "idle" <=> msgs[c] = NoMsgs
    /\ pc[c] = "done" => ret[c] # "none"
    /\ pc[c] \in Active => Len(buf[c]) = Len(JobBuf(msgs[c]))
    /\ pc[c] = "check" /\ ~ job[c].rd => args[c].data = buf[c][pos[c] + 1]
    /\ pc[c] \in {"idle", "bus", "dispatch"} => ~ args[c].acted

(* What is known of a byte, and in the end of the transfer, at an address  *)
(* where the bus does not fail.                                            *)
Steady(c) == msgs[c][1].addr \in Reliable =>
    /\ pc[c] = "finish" => (args[c].acted <=> msgs[c][1].addr \in Present)
    /\ pc[c] = "check" => (StatusOk(c) <=> msgs[c][1].addr \in Present)
    /\ pc[c] = "done" => (ret[c] = "num" <=>
          /\ IsSupported(msgs[c])
          /\ msgs[c][1].addr \in Present \/ JobBuf(msgs[c]) = <<>>)

RInv == IInv /\ \A c \in Client : Extra(c) /\ Steady(c)

-----------------------------------------------------------------------------
(* A step of another client.                                               *)
LEMMA OthersExtra ==
    ASSUME NEW d \in Client, Same(d), Extra(d), Steady(d)
    PROVE  Extra(d)' /\ Steady(d)'
  BY DEF Same, Extra, Steady, StatusOk

(* A step of c leaves the others alone.                                    *)
LEMMA OnlyOwn ==
    ASSUME IInv, NEW c \in Client, Step(c) \/ \E m \in Request : Call(c, m),
           NEW d \in Client, d # c
    PROVE  Same(d)
  <1>0. TypeOK
    BY DEF IInv
  <1>1. CASE \E m \in Request : Call(c, m)
    BY <1>0, <1>1 DEF Call, Same, TypeOK
  <1>2. CASE BusLock(c) \/ BusUnlock(c)
    BY <1>0, <1>2 DEF BusLock, BusUnlock, Same, TypeOK
  <1>3. CASE Dispatch(c) \/ Refuse(c)
    BY <1>0, <1>3 DEF Dispatch, Refuse, Continue, Fail, Same, TypeOK
  <1>4. CASE TableBegin(c) \/ NoSlaveActs(c) \/ TableEnds(c) \/ TableAborts(c)
    BY <1>0, <1>4 DEF TableBegin, NoSlaveActs, TableEnds, TableAborts, Same, TypeOK
  <1>5. CASE SlaveActs(c)
    <2>1. /\ pc' = [pc EXCEPT ![c] = "finish"]
          /\ UNCHANGED <<bus, mutex, msgs, job, buf, pos, offset, ret, log>>
          /\ \A e \in Client \ {c} : args'[e] = args[e]
      BY <1>5, Acts
    <2> QED
      BY <1>0, <2>1 DEF Same, TypeOK
  <1>6. CASE CheckStatus(c)
    <2>1. CASE StatusOk(c)
      <3>1. /\ UNCHANGED <<msgs, job, args>>
            /\ pos' = [pos EXCEPT ![c] = pos[c] + 1]
            /\ offset' = [offset EXCEPT ![c] = (offset[c] + 1) % ByteSize]
            /\ log' = [log EXCEPT ![c] = Append(log[c],
                           [acted |-> args[c].acted, aborted |-> args[c].aborted])]
            /\ Continue(c, Len(buf[c]) - pos[c] - 1)
            /\ \A e \in Client \ {c} : buf'[e] = buf[e]
        BY <1>6, <2>1, Accepts
      <3> QED
        BY <1>0, <3>1 DEF Continue, Same, TypeOK
    <2>2. CASE ~ StatusOk(c)
      BY <1>0, <1>6, <2>2 DEF CheckStatus, Fail, Same, TypeOK
    <2> QED
      BY <2>1, <2>2
  <1> QED
    BY <1>1, <1>2, <1>3, <1>4, <1>5, <1>6 DEF Step

(* What a table's end or its abort does to the parameters.                 *)
LEMMA Ends ==
    ASSUME TypeOK, NEW c \in Client, TableEnds(c)
    PROVE  /\ args'[c].acted = args[c].acted
           /\ args'[c].aborted = args[c].aborted
           /\ args'[c].data = args[c].data
           /\ args'[c].status \in {1, 2}
           /\ args'[c].status = 1 => args[c].acted
           /\ job[c].addr \in Reliable /\ args[c].acted => args'[c].status = 1
           /\ pc[c] = "finish" /\ pc'[c] = "check"
           /\ UNCHANGED <<mem, bus, msgs, job, buf, pos, offset, ret, log>>
  <1>1. PICK status \in {1, 2} :
          /\ status = 1 => args[c].acted
          /\ job[c].addr \in Reliable /\ args[c].acted => status = 1
          /\ args' = [args EXCEPT ![c].status = status]
    BY DEF TableEnds
  <1>2. args \in [Client -> Args] /\ args[c] \in Args
    BY DEF TypeOK
  <1>3. args'[c] = [args[c] EXCEPT !.status = status]
    BY <1>1, <1>2
  <1>4. /\ args'[c].status = status
        /\ args'[c].acted = args[c].acted
        /\ args'[c].data = args[c].data
        /\ args'[c].aborted = args[c].aborted
    BY <1>2, <1>3 DEF Args
  <1> QED
    BY <1>1, <1>4 DEF TableEnds, TypeOK

(* What an aborted table leaves behind: nothing but that it was aborted.   *)
LEMMA Aborts ==
    ASSUME TypeOK, NEW c \in Client, TableAborts(c)
    PROVE  /\ args'[c].acted = args[c].acted
           /\ args'[c].aborted = TRUE
           /\ args'[c].data = args[c].data
           /\ args'[c].status = args[c].status
           /\ job[c].addr \notin Reliable
           /\ pc[c] = "finish" /\ pc'[c] = "check"
           /\ UNCHANGED <<mem, bus, msgs, job, buf, pos, offset, ret, log>>
  <1>1. args \in [Client -> Args] /\ args[c] \in Args
    BY DEF TypeOK
  <1>2. args'[c] = [args[c] EXCEPT !.aborted = TRUE]
    BY <1>1 DEF TableAborts
  <1>3. /\ args'[c].status = args[c].status
        /\ args'[c].acted = args[c].acted
        /\ args'[c].data = args[c].data
        /\ args'[c].aborted = TRUE
    BY <1>1, <1>2 DEF Args
  <1> QED
    BY <1>3 DEF TableAborts, TypeOK

(* Requests have messages, and a supported one its bytes.                  *)
LEMMA Asked ==
    ASSUME TypeOK, NEW c \in Client, msgs[c] # NoMsgs
    PROVE  /\ msgs[c] \in Request /\ Len(msgs[c]) > 0
           /\ IsSupported(msgs[c]) => JobBuf(msgs[c]) \in Seq(Byte)
           /\ JobOf(msgs[c]).addr = msgs[c][1].addr
  BY JobTypes, RequestAssumption DEF TypeOK, JobOf

-----------------------------------------------------------------------------
(* The steps that end a byte keep what is known of the client.             *)
LEMMA TableExtra ==
    ASSUME RInv, NEW c \in Client,
           SlaveActs(c) \/ NoSlaveActs(c) \/ TableEnds(c) \/ TableAborts(c)
    PROVE  Extra(c)' /\ Steady(c)'
  <1>0. TypeOK /\ Inv(c) /\ Extra(c) /\ Steady(c) /\ IInv
    BY DEF RInv, IInv
  <1> USE DEF Extra, Steady, StatusOk
  <1>1. /\ pc[c] \in {"table", "finish"} /\ pc[c] \in Active
        /\ IsSupported(msgs[c]) /\ job[c] = JobOf(msgs[c])
        /\ job[c].addr = msgs[c][1].addr
        /\ ~ job[c].rd => args[c].data = buf[c][pos[c] + 1]
        /\ pc[c] = "table" => ~ args[c].acted
    BY <1>0, Asked DEF SlaveActs, NoSlaveActs, TableEnds, TableAborts, Active, Inv,
                       Dispatched, Parameters
  <1>2. CASE SlaveActs(c)
    <2>1. /\ pc'[c] = "finish" /\ args'[c].acted
          /\ UNCHANGED <<msgs, job, buf, pos, ret>>
      BY <1>0, <1>2, Acts DEF TypeOK
    <2>2. job[c].addr \in Present
      BY <1>2 DEF SlaveActs
    <2> QED
      BY <1>0, <1>1, <2>1, <2>2 DEF Active
  <1>3. CASE NoSlaveActs(c)
    <2>1. /\ pc'[c] = "finish" /\ ~ args'[c].acted
          /\ UNCHANGED <<msgs, job, buf, pos, ret>>
      BY <1>0, <1>1, <1>3 DEF NoSlaveActs, TypeOK
    <2>2. job[c].addr \notin Reliable \cap Present
      BY <1>3 DEF NoSlaveActs
    <2> QED
      BY <1>0, <1>1, <2>1, <2>2 DEF Active
  <1>4. CASE TableEnds(c)
    <2>1. /\ args'[c].data = args[c].data
          /\ args'[c].status = 1 => args[c].acted
          /\ job[c].addr \in Reliable /\ args[c].acted => args'[c].status = 1
          /\ pc[c] = "finish" /\ pc'[c] = "check"
          /\ UNCHANGED <<msgs, job, buf, pos, ret>>
      BY <1>0, <1>4, Ends
    <2> QED
      BY <1>0, <1>1, <2>1 DEF Active
  <1>5. CASE TableAborts(c)
    <2>1. /\ args'[c].data = args[c].data
          /\ job[c].addr \notin Reliable
          /\ pc[c] = "finish" /\ pc'[c] = "check"
          /\ UNCHANGED <<msgs, job, buf, pos, ret>>
      BY <1>0, <1>5, Aborts
    <2> QED
      BY <1>0, <1>1, <2>1 DEF Active
  <1> QED
    BY <1>2, <1>3, <1>4, <1>5

(* So does the check, which goes on or ends the transfer.                  *)
LEMMA CheckExtra ==
    ASSUME RInv, NEW c \in Client, CheckStatus(c)
    PROVE  Extra(c)' /\ Steady(c)'
  <1>0. TypeOK /\ Inv(c) /\ Extra(c) /\ Steady(c) /\ IInv
    BY DEF RInv, IInv
  <1>1. /\ pc[c] = "check" /\ pc[c] \in Active
        /\ IsSupported(msgs[c])
        /\ Len(buf[c]) = Len(JobBuf(msgs[c])) /\ Len(buf[c]) > 0
        /\ msgs[c] # NoMsgs
        /\ msgs[c][1].addr \in Reliable => (StatusOk(c) <=> msgs[c][1].addr \in Present)
    BY <1>0 DEF CheckStatus, Active, Inv, Dispatched, Counters, Extra, Steady, TypeOK
  <1>2. JobBuf(msgs[c]) # <<>>
    BY <1>0, <1>1, Asked
  <1>3. CASE StatusOk(c)
    <2>1. /\ UNCHANGED <<msgs, job, args>>
          /\ Len(buf'[c]) = Len(buf[c])
          /\ \/ pc'[c] = "byte" /\ ret'[c] = "none"
             \/ pc'[c] = "done" /\ ret'[c] = "num"
      BY <1>0, <1>3, Accepts
    <2> QED
      BY <1>1, <1>2, <1>3, <2>1 DEF Extra, Steady
  <1>4. CASE ~ StatusOk(c)
    <2>1. pc'[c] = "done" /\ ret'[c] = "EIO" /\ msgs' = msgs
      BY <1>0, <1>4 DEF CheckStatus, Fail, TypeOK
    <2> QED
      BY <1>1, <1>2, <1>4, <2>1 DEF Extra, Steady, Active
  <1> QED
    BY <1>3, <1>4

(* And the steps around the loop.                                          *)
LEMMA OuterExtra ==
    ASSUME RInv, NEW c \in Client,
           \/ \E m \in Request : Call(c, m)
           \/ BusLock(c) \/ BusUnlock(c)
           \/ Dispatch(c) \/ Refuse(c) \/ TableBegin(c)
    PROVE  Extra(c)' /\ Steady(c)'
  <1>0. TypeOK /\ Inv(c) /\ Extra(c) /\ Steady(c)
    BY DEF RInv, IInv
  <1>1. CASE \E m \in Request : Call(c, m)
    <2>1. PICK m \in Request : Call(c, m)
      BY <1>1
    <2>2. m # NoMsgs
      BY RequestAssumption DEF NoMsgs
    <2>3. pc[c] = "idle" /\ pc'[c] = "bus" /\ msgs'[c] = m /\ args' = args
      BY <1>0, <2>1 DEF Call, TypeOK
    <2> QED
      BY <1>0, <2>2, <2>3 DEF Extra, Steady, Active
  <1>2. CASE BusLock(c)
    <2>1. pc[c] = "bus" /\ pc'[c] = "dispatch" /\ UNCHANGED <<msgs, args>>
      BY <1>0, <1>2 DEF BusLock, TypeOK
    <2> QED
      BY <1>0, <2>1 DEF Extra, Steady, Active
  <1>3. CASE BusUnlock(c)
    <2>1. pc'[c] = "idle" /\ msgs'[c] = NoMsgs /\ ~ args'[c].acted
      BY <1>0, <1>3 DEF BusUnlock, TypeOK, NoArgs
    <2> QED
      BY <2>1 DEF Extra, Steady, Active
  <1>4. CASE Dispatch(c)
    <2>1. /\ pc[c] = "dispatch" /\ msgs' = msgs /\ IsSupported(msgs[c])
          /\ buf'[c] = JobBuf(msgs[c]) /\ msgs[c] # NoMsgs
      BY <1>0, <1>4 DEF Dispatch, TypeOK, Extra
    <2>2. JobBuf(msgs[c]) \in Seq(Byte)
      BY <1>0, <2>1, Asked
    <2>3. \/ pc'[c] = "byte" /\ Len(JobBuf(msgs[c])) > 0
          \/ pc'[c] = "done" /\ ret'[c] = "num" /\ Len(JobBuf(msgs[c])) = 0
      BY <1>0, <1>4, <2>2 DEF Dispatch, Continue, TypeOK
    <2>4. Len(JobBuf(msgs[c])) = 0 => JobBuf(msgs[c]) = <<>>
      BY <2>2, EmptySeq
    <2> QED
      BY <2>1, <2>3, <2>4 DEF Extra, Steady, Active
  <1>5. CASE Refuse(c)
    <2>1. /\ pc[c] = "dispatch" /\ msgs' = msgs /\ ~ IsSupported(msgs[c])
          /\ pc'[c] = "done" /\ ret'[c] = "EIO"
      BY <1>0, <1>5 DEF Refuse, Fail, TypeOK
    <2> QED
      BY <1>0, <2>1 DEF Extra, Steady, Active
  <1>6. CASE TableBegin(c)
    <2>1. /\ pc[c] = "byte" /\ pc'[c] = "table"
          /\ UNCHANGED <<msgs, buf>>
      BY <1>0, <1>6 DEF TableBegin, TypeOK
    <2> QED
      BY <1>0, <2>1 DEF Extra, Steady, Active
  <1> QED
    BY <1>1, <1>2, <1>3, <1>4, <1>5, <1>6

(* RInv holds throughout every execution.                                  *)
THEOREM RInductive == Spec => []RInv
  <1>1. Init /\ IInv => RInv
    <2> SUFFICES ASSUME Init, IInv, NEW c \in Client PROVE Extra(c) /\ Steady(c)
      BY DEF RInv
    <2> QED
      BY DEF Init, Extra, Steady, Active, NoArgs
  <1>2. RInv /\ IInv' /\ [Next]_vars => RInv'
    <2> SUFFICES ASSUME RInv, [Next]_vars, NEW d \in Client
                 PROVE  Extra(d)' /\ Steady(d)'
      BY DEF RInv
    <2>0. IInv /\ Extra(d) /\ Steady(d)
      BY DEF RInv
    <2>1. CASE UNCHANGED vars
      BY <2>0, <2>1, OthersExtra DEF vars, Same
    <2>2. ASSUME NEW c \in Client, Step(c) \/ \E m \in Request : Call(c, m)
          PROVE  Extra(d)' /\ Steady(d)'
      <3>1. CASE c = d
        BY <2>2, <3>1, TableExtra, CheckExtra, OuterExtra DEF Step
      <3>2. CASE c # d
        <4>1. Same(d)
          BY <2>0, <2>2, <3>2, OnlyOwn
        <4> QED
          BY <2>0, <4>1, OthersExtra
      <3> QED
        BY <3>1, <3>2
    <2> QED
      BY <2>1, <2>2 DEF Next
  <1> QED
    BY <1>1, <1>2, Inductive, PTL DEF Spec

(* An SMBus request, but for the exceptions, is of a supported shape, and  *)
(* moves a byte.                                                           *)
LEMMA EmulatedSupported ==
    ASSUME NEW m \in Request, IsEmulated(m), ~ IsSingleByte(m), ~ IsProcessCall(m)
    PROVE  IsSupported(m) /\ JobBuf(m) # <<>>
  <1>0. /\ m \in Seq(Msg) /\ Len(m) \in Nat /\ Len(m) > 0
        /\ \A i \in 1 .. Len(m) : m[i] \in Msg
    BY RequestAssumption
  <1>1. m[1] \in Msg /\ m[1].buf \in Seq(Byte) /\ Len(m[1].buf) \in Nat
    BY <1>0 DEF Msg
  <1>2. CASE Len(m) = 1 /\ Len(m[1].buf) = 0
    BY <1>2 DEF IsSupported, IsProbe, IsWrite, IsCombined, JobBuf
  <1>3. CASE Len(m) = 1 /\ Len(m[1].buf) # 0
    <2>0. Len(m[1].buf) # 1 /\ (m[1].rd => Len(m[1].buf) <= 1)
      BY <1>3 DEF IsEmulated, IsSingleByte
    <2>1. Len(m[1].buf) > 1 /\ ~ m[1].rd
      <3> DEFINE n == Len(m[1].buf)
      <3>1. n \in Nat /\ n # 0 /\ n # 1 /\ (m[1].rd => n <= 1)
        BY <1>1, <1>3, <2>0
      <3> HIDE DEF n
      <3>2. n > 1 /\ ~ m[1].rd
        BY <3>1
      <3> QED
        BY <3>2 DEF n
    <2>2. IsWrite(m) /\ JobBuf(m) = Tail(m[1].buf)
      BY <1>3, <2>1 DEF IsWrite, IsProbe, IsCombined, JobBuf
    <2>3. Len(Tail(m[1].buf)) > 0
      BY <1>1, <2>1
    <2> QED
      BY <2>2, <2>3 DEF IsSupported
  <1>4. CASE Len(m) = 2
    <2>0. ~ m[1].rd /\ m[1].buf # <<>> /\ m[2].buf # <<>> /\ ~ (Len(m[1].buf) > 1)
      BY <1>4 DEF IsEmulated, IsProcessCall
    <2>1. Len(m[1].buf) = 1
      <3> DEFINE n == Len(m[1].buf)
      <3>1. n \in Nat /\ n # 0 /\ ~ (n > 1)
        BY <1>1, <2>0
      <3> HIDE DEF n
      <3>2. n = 1
        BY <3>1
      <3> QED
        BY <3>2 DEF n
    <2>2. IsCombined(m) /\ JobBuf(m) = m[2].buf
      BY <1>4, <2>0, <2>1 DEF IsWrite, IsProbe, IsCombined, JobBuf
    <2> QED
      BY <2>0, <2>2 DEF IsSupported
  <1> QED
    BY <1>2, <1>3, <1>4 DEF IsEmulated

(* Where the bus never fails, an SMBus request succeeds exactly when its   *)
(* slave is there, except a single byte and a process call.                *)
THEOREM EmulatedTheorem == Spec => []EmulatedOutcomeUnlessRefused
  <1>1. RInv => EmulatedOutcomeUnlessRefused
    <2> SUFFICES ASSUME RInv, NEW c \in Client, Finished(c), IsEmulated(msgs[c]),
                        ~ IsSingleByte(msgs[c]), ~ IsProcessCall(msgs[c])
                 PROVE  ret[c] = "num" <=> msgs[c][1].addr \in Present
      BY DEF EmulatedOutcomeUnlessRefused
    <2>1. TypeOK /\ Extra(c) /\ Steady(c)
      BY DEF RInv, IInv
    <2>2. msgs[c] # NoMsgs
      BY <2>1 DEF Finished, Extra
    <2>3. msgs[c] \in Request
      BY <2>1, <2>2 DEF TypeOK
    <2>4. IsSupported(msgs[c]) /\ JobBuf(msgs[c]) # <<>>
      BY <2>3, EmulatedSupported
    <2> QED
      BY <2>1, <2>4 DEF Steady, Finished
  <1> QED
    BY <1>1, RInductive, PTL

-----------------------------------------------------------------------------
(* What the slaves have done for c: the bytes accepted, and the current    *)
(* one.                                                                    *)
Past(c) == [i \in DOMAIN log[c] |-> Outcome(c, OffsetOf(c, i), buf[c][i], log[c][i])]

Out == [addr : Addr, rd : BOOLEAN, offset : Byte, data : Byte,
        how : {"acted", "aborted", "lost"}]

(* An offset is a byte, whatever the position it is taken at.              *)
LEMMA OffsetType ==
    ASSUME TypeOK, NEW c \in Client, NEW i \in Nat \ {0}
    PROVE  OffsetOf(c, i) \in Byte
  <1>1. job[c].first \in Nat
    BY ByteAssumption DEF TypeOK, Job, Byte
  <1>2. job[c].first + i - 1 \in Nat
    BY <1>1
  <1> QED
    BY <1>2, ByteAssumption, Division DEF OffsetOf, Byte

(* What becomes of a byte is an outcome.                                   *)
LEMMA OutcomeType ==
    ASSUME TypeOK, NEW c \in Client, NEW o \in Byte, NEW b \in Byte, NEW e
    PROVE  Outcome(c, o, b, e) \in Out
  <1>1. job[c] \in Job
    BY DEF TypeOK
  <1> QED
    BY <1>1 DEF Outcome, Out, Job

(* The bytes accepted, as a sequence, and one more.                        *)
LEMMA PastType ==
    ASSUME IInv, NEW c \in Client
    PROVE  /\ Past(c) \in Seq(Out) /\ Len(Past(c)) = pos[c] /\ pos[c] \in Nat
           /\ DOMAIN Past(c) = 1 .. pos[c]
           /\ \A i \in 1 .. pos[c] :
                Past(c)[i] = Outcome(c, OffsetOf(c, i), buf[c][i], log[c][i])
           /\ DoneFor(c) = Past(c) \o Current(c)
           /\ Current(c) = <<>> => DoneFor(c) = Past(c)
           /\ \A e \in Out : Current(c) = <<e>> => DoneFor(c) = Append(Past(c), e)
  <1>1. /\ TypeOK /\ pos[c] \in Nat /\ log[c] \in Seq(Entry) /\ Len(log[c]) = pos[c]
        /\ buf[c] \in Seq(Byte) /\ pos[c] <= Len(buf[c])
    BY DEF IInv, TypeOK, Inv, Counters
  <1>2. DOMAIN log[c] = 1 .. pos[c]
    BY <1>1, LenProperties
  <1>3. \A i \in 1 .. pos[c] :
           Outcome(c, OffsetOf(c, i), buf[c][i], log[c][i]) \in Out
    <2> SUFFICES ASSUME NEW i \in 1 .. pos[c]
                 PROVE  Outcome(c, OffsetOf(c, i), buf[c][i], log[c][i]) \in Out
      OBVIOUS
    <2>1. buf[c][i] \in Byte
      BY <1>1
    <2>2. OffsetOf(c, i) \in Byte
      BY <1>1, OffsetType
    <2> QED
      BY <1>1, <2>1, <2>2, OutcomeType
  <1>4. Past(c) \in [1 .. pos[c] -> Out]
    BY <1>2, <1>3 DEF Past
  <1>5. Past(c) \in Seq(Out) /\ Len(Past(c)) = pos[c] /\ DOMAIN Past(c) = 1 .. pos[c]
    BY <1>1, <1>4
  <1>6. \A i \in 1 .. pos[c] :
           Past(c)[i] = Outcome(c, OffsetOf(c, i), buf[c][i], log[c][i])
    BY <1>2 DEF Past
  <1>7. DoneFor(c) = Past(c) \o Current(c)
    BY DEF DoneFor, Past
  <1>8. Past(c) \o <<>> = Past(c)
    BY <1>5, ConcatEmptySeq
  <1>9. ASSUME NEW e \in Out PROVE Past(c) \o <<e>> = Append(Past(c), e)
    BY <1>5, AppendIsConcat
  <1> QED
    BY <1>1, <1>5, <1>6, <1>7, <1>8, <1>9

(* The plan of a request that is under way, and its next transaction.      *)
LEMMA PlanFacts ==
    ASSUME RInv, NEW c \in Client, pc[c] \in Active
    PROVE  /\ Len(PlanOf(msgs[c])) = Len(buf[c])
           /\ Len(buf[c]) \in Nat /\ pos[c] \in Nat /\ pos[c] < Len(buf[c])
           /\ PlanOf(msgs[c])[pos[c] + 1].addr = job[c].addr
           /\ PlanOf(msgs[c])[pos[c] + 1].rd = job[c].rd
           /\ PlanOf(msgs[c])[pos[c] + 1].offset = offset[c]
           /\ ~ job[c].rd => PlanOf(msgs[c])[pos[c] + 1].data = buf[c][pos[c] + 1]
           /\ msgs[c] \in Request /\ IsSupported(msgs[c])
  <1>1. /\ TypeOK /\ pos[c] \in Nat /\ pos[c] < Len(buf[c]) /\ buf[c] \in Seq(Byte)
        /\ IsSupported(msgs[c]) /\ job[c] = JobOf(msgs[c]) /\ job[c] \in Job
        /\ ~ job[c].rd => buf[c] = JobBuf(msgs[c])
        /\ offset[c] = (job[c].first + pos[c]) % ByteSize
        /\ Len(buf[c]) = Len(JobBuf(msgs[c])) /\ msgs[c] # NoMsgs
    BY DEF RInv, IInv, TypeOK, Inv, Counters, Dispatched, Extra, Active
  <1>2. JobBuf(msgs[c]) \in Seq(Byte) /\ JobOf(msgs[c]).addr = msgs[c][1].addr
    BY <1>1, Asked
  <1> DEFINE m == msgs[c]
             n == Len(buf[c])
  <1>3. PlanOf(m) = [i \in 1 .. n |->
            [addr |-> m[1].addr, rd |-> JobOf(m).rd, data |-> JobBuf(m)[i],
             offset |-> (JobOf(m).first + i - 1) % ByteSize]]
    BY <1>1 DEF PlanOf
  <1>4. n \in Nat /\ pos[c] + 1 \in 1 .. n
    BY <1>1
  <1>5. JobOf(m).first + (pos[c] + 1) - 1 = job[c].first + pos[c]
    <2>1. job[c].first \in Nat
      BY <1>1, ByteAssumption DEF Job, Byte
    <2> QED
      BY <1>1, <2>1
  <1>6. Len(PlanOf(m)) = n
    BY <1>3, <1>4
  <1>7. PlanOf(m)[pos[c] + 1] =
            [addr |-> m[1].addr, rd |-> JobOf(m).rd, data |-> JobBuf(m)[pos[c] + 1],
             offset |-> (job[c].first + pos[c]) % ByteSize]
    BY <1>3, <1>4, <1>5
  <1>8. m \in Request
    BY <1>1, Asked
  <1> HIDE DEF m, n
  <1> QED
    BY <1>1, <1>2, <1>4, <1>6, <1>7, <1>8 DEF m, n

-----------------------------------------------------------------------------
(* What the abstract adapter's variables are for the owner of the bus.     *)
Seen ==
    /\ bus = NoClient => Transactions = <<>>
    /\ \A c \in Client : bus = c => Transactions = DoneFor(c)

(* Transactions and Replies in a form whose primed version a step can      *)
(* cite.                                                                   *)
LEMMA SeenNow == Seen
  BY ClientAssumption DEF Seen, Transactions

LEMMA SeenNext == Seen'
  BY SeenNow, PTL

LEMMA RepliesNow ==
    ASSUME IInv
    PROVE  Replies = [c \in Client |-> IF ret[c] = "num" THEN buf[c] ELSE <<>>]
  BY DEF IInv, Inv, Counters, Replies, Succeeded

LEMMA RepliesNext ==
    ASSUME IInv'
    PROVE  Replies' = [c \in Client |-> IF ret'[c] = "num" THEN buf'[c] ELSE <<>>]
  BY DEF IInv, Inv, Counters, Replies, Succeeded

(* No client has started: every adapter's variable has its first value.    *)
LEMMA NobodyStarted == Init => Adapter!Init
  <1> SUFFICES ASSUME Init PROVE Adapter!Init
    OBVIOUS
  <1>1. Transactions = <<>>
    BY SeenNow DEF Seen, Init
  <1>2. Replies = [c \in Client |-> <<>>]
    BY DEF Init, Replies, Succeeded
  <1> QED
    BY <1>1, <1>2 DEF Init, Adapter!Init, NoMsgs

(* A step that the clients do not see.                                     *)
LEMMA Unseen ==
    ASSUME RInv, IInv', NEW c \in Client, bus = c,
           UNCHANGED <<bus, msgs, ret>>,
           \A d \in Client : ret[d] = "num" => buf'[d] = buf[d],
           DoneFor(c)' = DoneFor(c)
    PROVE  UNCHANGED Adapter!vars
  <1>1. IInv
    BY DEF RInv
  <1>2. Transactions' = Transactions
    BY SeenNow, SeenNext DEF Seen
  <1>3. Replies' = Replies
    BY <1>1, RepliesNow, RepliesNext
  <1> QED
    BY <1>2, <1>3 DEF Adapter!vars

(* A byte that the slave has done, or that passes for done.                *)
LEMMA Performs ==
    ASSUME RInv, IInv', NEW c \in Client, bus = c, pc[c] \in Active,
           UNCHANGED <<bus, msgs, ret, buf>>,
           Past(c)' = Past(c), Current(c) = <<>>,
           NEW e \in Out, Current(c)' = <<e>>,
           IsDone(e, PlanOf(msgs[c])[pos[c] + 1])
    PROVE  Adapter!Perform(c)
  <1>1. IInv /\ ret[c] = "none"
    BY DEF RInv, IInv, Inv, Counters, Active
  <1>2. Transactions = Past(c) /\ Transactions' = DoneFor(c)'
    BY <1>1, PastType, SeenNow, SeenNext DEF Seen
  <1>3. /\ Past(c) \in Seq(Out) /\ Len(Past(c)) = pos[c] /\ pos[c] \in Nat
        /\ DoneFor(c)' = Append(Past(c), e)
    <2>1. DoneFor(c)' = Past(c)' \o Current(c)'
      BY DEF DoneFor, Past
    <2>2. Past(c) \in Seq(Out) /\ Len(Past(c)) = pos[c] /\ pos[c] \in Nat
      BY <1>1, PastType
    <2> QED
      BY <2>1, <2>2, AppendIsConcat
  <1> DEFINE s == Past(c)
             t == Append(s, e)
  <1> HIDE DEF s
  <1>4. s \in Seq(Out)
    BY <1>3 DEF s
  <1>5. /\ Len(t) = Len(s) + 1 /\ t[Len(t)] = e /\ Len(s) \in Nat
        /\ SubSeq(t, 1, Len(s)) = s
    <2>1. /\ t \in Seq(Out) /\ Len(t) = Len(s) + 1 /\ t[Len(s) + 1] = e
          /\ Len(s) \in Nat
          /\ \A i \in 1 .. Len(s) : t[i] = s[i]
      BY <1>4, AppendProperties, LenProperties
    <2>2. /\ SubSeq(t, 1, Len(s)) \in Seq(Out)
          /\ Len(SubSeq(t, 1, Len(s))) = Len(s)
          /\ \A i \in 1 .. Len(s) : SubSeq(t, 1, Len(s))[i] = t[i]
      <3> HIDE DEF t
      <3>1. 1 \in Int /\ Len(s) \in Int /\ \A i \in 1 .. Len(s) : t[i] \in Out
        BY <2>1
      <3> QED
        BY <2>1, <3>1, SubSeqProperties
    <2> HIDE DEF t
    <2>3. SubSeq(t, 1, Len(s)) = s
      BY <1>4, <2>1, <2>2, SeqEqual
    <2> QED
      BY <2>1, <2>3
  <1>6. Len(s) = pos[c] /\ Transactions = s /\ Transactions' = t
    BY <1>2, <1>3 DEF s
  <1>7. pos[c] < Len(PlanOf(msgs[c]))
    BY PlanFacts
  <1>8. Replies' = Replies
    BY <1>1, RepliesNow, RepliesNext
  <1>9. Adapter!Underway(c)
    BY <1>1 DEF Adapter!Underway
  <1> HIDE DEF t
  <1> QED
    BY <1>5, <1>6, <1>7, <1>8, <1>9 DEF Adapter!Perform

-----------------------------------------------------------------------------
(* The same facts about the state after a step.                            *)
PastIs == \A c \in Client :
    /\ Past(c) \in Seq(Out) /\ Len(Past(c)) = pos[c]
    /\ \A i \in 1 .. pos[c] :
         Past(c)[i] = Outcome(c, OffsetOf(c, i), buf[c][i], log[c][i])
    /\ Current(c) = <<>> => DoneFor(c) = Past(c)
    /\ Current(c) = <<>> /\ pos[c] = 0 => DoneFor(c) = <<>>

(* The accepted bytes, and that they are all that is done while none is    *)
(* current.                                                                *)
LEMMA PastNow == IInv => PastIs
  <1> SUFFICES ASSUME IInv, NEW c \in Client
               PROVE  /\ Past(c) \in Seq(Out) /\ Len(Past(c)) = pos[c]
                      /\ \A i \in 1 .. pos[c] : Past(c)[i] =
                            Outcome(c, OffsetOf(c, i), buf[c][i], log[c][i])
                      /\ Current(c) = <<>> => DoneFor(c) = Past(c)
                      /\ Current(c) = <<>> /\ pos[c] = 0 => DoneFor(c) = <<>>
    BY DEF PastIs
  <1>1. pos[c] = 0 => Past(c) = <<>>
    BY PastType, EmptySeq
  <1> QED
    BY <1>1, PastType

LEMMA PastNext == IInv' => PastIs'
  BY PastNow, PTL

(* Nothing that is recorded of c's bytes changes.                          *)
LEMMA PastKept ==
    ASSUME NEW c \in Client,
           job'[c] = job[c], buf'[c] = buf[c], log'[c] = log[c]
    PROVE  /\ Past(c)' = Past(c)
           /\ Current(c)' = Current(c) => DoneFor(c)' = DoneFor(c)
  BY DEF Past, Outcome, OffsetOf, DoneFor

(* Where nothing is current.                                               *)
LEMMA NoneCurrent ==
    ASSUME NEW c \in Client, pc[c] \in {"idle", "bus", "dispatch", "byte", "table"}
    PROVE  Current(c) = <<>>
  BY DEF Current

(* Only c is answered.                                                     *)
LEMMA OneReply ==
    ASSUME IInv, IInv', NEW c \in Client,
           \A d \in Client : d # c => ret'[d] = ret[d] /\ buf'[d] = buf[d]
    PROVE  /\ Replies' = [Replies EXCEPT ![c] = Replies'[c]]
           /\ Replies'[c] = IF ret'[c] = "num" THEN buf'[c] ELSE <<>>
           /\ ret[c] # "num" /\ ret'[c] # "num" => Replies' = Replies
  BY RepliesNow, RepliesNext

-----------------------------------------------------------------------------
(* The owner of the bus is past it.                                        *)
LEMMA OwnsBus ==
    ASSUME RInv, NEW c \in Client, pc[c] \notin {"idle", "bus"}
    PROVE  /\ bus = c /\ bus # NoClient /\ IInv /\ TypeOK /\ Inv(c) /\ Extra(c)
           /\ Counters(c) /\ Parameters(c) /\ Dispatched(c)
           /\ pc[c] # "done" => ret[c] = "none"
           /\ PastIs
  <1>1. IInv /\ TypeOK /\ Inv(c) /\ Extra(c) /\ OneTable
    BY DEF RInv, IInv
  <1>2. Counters(c) /\ Parameters(c) /\ Dispatched(c)
    BY <1>1 DEF Inv
  <1>3. bus = c /\ bus # NoClient
    BY <1>1, ClientAssumption DEF OneTable
  <1>4. pc[c] # "done" => ret[c] = "none"
    BY <1>2 DEF Counters
  <1> QED
    BY <1>1, <1>2, <1>3, <1>4, PastNow

(* The call, and the bus lock of the i2c core.                             *)
LEMMA CallRefines ==
    ASSUME RInv, IInv', NEW c \in Client, NEW m \in Request, Call(c, m)
    PROVE  Adapter!Call(c)
  <1>1. IInv /\ TypeOK /\ OneTable /\ Extra(c)
    BY DEF RInv, IInv
  <1>2. /\ pc[c] = "idle" /\ msgs[c] = NoMsgs
        /\ msgs' = [msgs EXCEPT ![c] = m]
        /\ UNCHANGED <<bus, ret, buf>>
    BY <1>1 DEF Call, Extra
  <1>3. Transactions' = Transactions
    <2>1. CASE bus = NoClient
      BY <1>2, <2>1, SeenNow, SeenNext DEF Seen
    <2>2. ASSUME NEW d \in Client, bus = d
          PROVE  Transactions' = Transactions
      <3>1. d # c
        BY <1>1, <1>2, <2>2 DEF OneTable
      <3>2. Same(d)
        BY <1>1, <3>1, OnlyOwn
      <3>3. DoneFor(d)' = DoneFor(d)
        <4>1. Current(d)' = Current(d)
          BY <3>2 DEF Same, Current, Outcome, StatusOk
        <4> QED
          BY <3>2, <4>1, PastKept DEF Same
      <3> QED
        BY <1>2, <2>2, <3>3, SeenNow, SeenNext DEF Seen
    <2> QED
      BY <1>1, <2>1, <2>2 DEF TypeOK
  <1>4. Replies' = Replies
    BY <1>1, <1>2, RepliesNow, RepliesNext
  <1> QED
    BY <1>2, <1>3, <1>4 DEF Adapter!Call, NoMsgs

(* Taking the bus begins the transfer; giving it back hands the result     *)
(* over.                                                                   *)
LEMMA BusLockRefines ==
    ASSUME RInv, IInv', NEW c \in Client, BusLock(c)
    PROVE  Adapter!Begin(c)
  <1>1. IInv /\ TypeOK /\ Inv(c) /\ Extra(c)
    BY DEF RInv, IInv
  <1>2. /\ pc[c] = "bus" /\ pc'[c] = "dispatch" /\ bus = NoClient /\ bus' = c
        /\ UNCHANGED <<msgs, ret, buf, pos>>
        /\ pos[c] = 0 /\ msgs[c] # <<>>
    BY <1>1 DEF BusLock, TypeOK, Inv, Counters, Extra, NoMsgs
  <1>3. Transactions = <<>> /\ Transactions' = DoneFor(c)'
    BY <1>2, SeenNow, SeenNext DEF Seen
  <1>4. DoneFor(c)' = <<>>
    <2>1. Current(c)' = <<>>
      BY <1>2 DEF Current
    <2> QED
      BY <1>2, <2>1, PastNext DEF PastIs
  <1>5. Replies' = Replies
    BY <1>1, <1>2, RepliesNow, RepliesNext
  <1> QED
    BY <1>2, <1>3, <1>4, <1>5 DEF Adapter!Begin

LEMMA BusUnlockRefines ==
    ASSUME RInv, IInv', NEW c \in Client, BusUnlock(c)
    PROVE  Adapter!Return(c)
  <1>1. pc[c] = "done"
    BY DEF BusUnlock
  <1>2. bus = c /\ ret[c] # "none" /\ IInv /\ TypeOK
    BY <1>1, OwnsBus DEF Extra
  <1>3. /\ bus' = NoClient
        /\ msgs' = [msgs EXCEPT ![c] = <<>>]
        /\ ret' = [ret EXCEPT ![c] = "none"]
        /\ buf' = [buf EXCEPT ![c] = <<>>]
    BY DEF BusUnlock, NoMsgs
  <1>4. Transactions' = <<>>
    BY <1>3, SeenNext DEF Seen
  <1>5. Replies' = [Replies EXCEPT ![c] = <<>>]
    <2>1. ret' \in [Client -> {"none", "num", "EIO"}] /\ ret'[c] = "none"
          /\ \A d \in Client : d # c => ret'[d] = ret[d] /\ buf'[d] = buf[d]
      BY <1>2, <1>3 DEF TypeOK
    <2> QED
      BY <1>2, <2>1, OneReply
  <1> QED
    BY <1>2, <1>3, <1>4, <1>5 DEF Adapter!Return

(* A request that moves no byte is done at once, another begins.           *)
LEMMA DispatchRefines ==
    ASSUME RInv, IInv', NEW c \in Client, Dispatch(c)
    PROVE  Adapter!Next \/ UNCHANGED Adapter!vars
  <1>1. /\ pc[c] = "dispatch" /\ IsSupported(msgs[c])
        /\ UNCHANGED <<bus, msgs, pos, args>>
        /\ buf' = [buf EXCEPT ![c] = JobBuf(msgs[c])]
        /\ Continue(c, Len(JobBuf(msgs[c])))
    BY DEF Dispatch
  <1>2. /\ bus = c /\ ret[c] = "none" /\ IInv /\ TypeOK /\ PastIs
        /\ pos[c] = 0 /\ msgs[c] # NoMsgs
    BY <1>1, OwnsBus DEF Extra, Counters
  <1>3. JobBuf(msgs[c]) \in Seq(Byte) /\ msgs[c] \in Request
    BY <1>1, <1>2, Asked
  <1>4. DoneFor(c) = <<>>
    BY <1>1, <1>2, NoneCurrent DEF PastIs
  <1>5. DoneFor(c)' = <<>>
    <2>1. \/ pc'[c] = "byte"
          \/ pc'[c] = "done" /\ ret'[c] = "num"
      BY <1>1, <1>2 DEF Continue, TypeOK
    <2>2. Current(c)' = <<>>
      BY <2>1 DEF Current
    <2> QED
      BY <1>1, <1>2, <2>2, PastNext DEF PastIs
  <1>6. CASE Len(JobBuf(msgs[c])) > 0
    <2>1. ret' = ret /\ \A d \in Client : ret[d] = "num" => buf'[d] = buf[d]
      BY <1>1, <1>2, <1>6 DEF Continue, TypeOK
    <2> QED
      BY <1>1, <1>2, <1>4, <1>5, <2>1, Unseen
  <1>7. CASE ~ (Len(JobBuf(msgs[c])) > 0)
    <2>1. Len(JobBuf(msgs[c])) = 0
      BY <1>3, <1>7
    <2>2. ret' = [ret EXCEPT ![c] = "num"]
      BY <1>1, <1>7 DEF Continue
    <2>3. Len(PlanOf(msgs[c])) = 0
      BY <1>1, <2>1 DEF PlanOf
    <2>4. Transactions = <<>> /\ Transactions' = <<>>
      BY <1>1, <1>2, <1>4, <1>5, SeenNow, SeenNext DEF Seen
    <2>5. Replies' = [Replies EXCEPT ![c] = Replies'[c]]
      <3>1. \A d \in Client : d # c => ret'[d] = ret[d] /\ buf'[d] = buf[d]
        BY <1>1, <1>2, <2>2 DEF TypeOK
      <3> QED
        BY <1>2, <3>1, OneReply
    <2>6. IsReply(Replies'[c], Transactions, msgs[c])
      BY <2>4 DEF IsReply
    <2>7. Len(Transactions) = 0
      BY <2>4
    <2>8. msgs[c] \notin {m \in Request : ~ IsSupported(m)}
      BY <1>1
    <2>9. Adapter!Succeed(c)
      BY <1>1, <1>2, <2>2, <2>3, <2>4, <2>5, <2>6, <2>7, <2>8
         DEF Adapter!Succeed, Adapter!Underway
    <2> QED
      BY <2>9 DEF Adapter!Next
  <1> QED
    BY <1>6, <1>7

(* A transfer that fails leaves what was done.                             *)
LEMMA Fails ==
    ASSUME RInv, IInv', NEW c \in Client, pc[c] \notin {"idle", "bus", "done"},
           ret' = [ret EXCEPT ![c] = "EIO"], UNCHANGED <<bus, msgs, buf>>,
           DoneFor(c)' = DoneFor(c)
    PROVE  Adapter!FailTransfer(c)
  <1>1. bus = c /\ ret[c] = "none" /\ IInv /\ TypeOK
    BY OwnsBus
  <1>2. Transactions' = Transactions
    BY <1>1, SeenNow, SeenNext DEF Seen
  <1>3. Replies' = Replies
    <2>1. /\ ret'[c] = "EIO"
          /\ \A d \in Client : d # c => ret'[d] = ret[d] /\ buf'[d] = buf[d]
      BY <1>1 DEF TypeOK
    <2> QED
      BY <1>1, <2>1, OneReply
  <1> QED
    BY <1>1, <1>2, <1>3 DEF Adapter!FailTransfer, Adapter!Underway

(* A transfer that is refused fails before any of its bytes.               *)
LEMMA RefuseRefines ==
    ASSUME RInv, IInv', NEW c \in Client, Refuse(c)
    PROVE  Adapter!FailTransfer(c)
  <1>1. /\ pc[c] = "dispatch"
        /\ pc' = [pc EXCEPT ![c] = "done"]
        /\ ret' = [ret EXCEPT ![c] = "EIO"]
        /\ UNCHANGED <<bus, msgs, job, buf, args, log>>
    BY DEF Refuse, Fail
  <1>2. ~ args[c].acted /\ TypeOK
    BY <1>1, OwnsBus DEF Extra
  <1>3. Current(c) = <<>> /\ Current(c)' = <<>>
    <2>1. pc'[c] = "done"
      BY <1>1, <1>2 DEF TypeOK
    <2> QED
      BY <1>1, <1>2, <2>1 DEF Current
  <1>4. DoneFor(c)' = DoneFor(c)
    BY <1>1, <1>3, PastKept
  <1> QED
    BY <1>1, <1>4, Fails

(* The table is on its way to the bus.                                     *)
LEMMA WaitRefines ==
    ASSUME RInv, IInv', NEW c \in Client, TableBegin(c) \/ NoSlaveActs(c)
    PROVE  UNCHANGED Adapter!vars
  <1>1. /\ pc[c] \in {"byte", "table"}
        /\ UNCHANGED <<bus, msgs, job, buf, ret, log>>
    BY DEF TableBegin, NoSlaveActs
  <1>2. bus = c /\ TypeOK
    BY <1>1, OwnsBus
  <1>3. Current(c)' = <<>>
    <2>1. CASE TableBegin(c)
      <3>1. pc'[c] = "table"
        BY <1>2, <2>1 DEF TableBegin, TypeOK
      <3> QED
        BY <3>1 DEF Current
    <2>2. CASE NoSlaveActs(c)
      <3>1. pc[c] = "table" /\ pc'[c] = "finish" /\ args' = args
        BY <1>2, <2>2 DEF NoSlaveActs, TypeOK
      <3>2. ~ args[c].acted
        BY <3>1, OwnsBus DEF Parameters
      <3> QED
        BY <3>1, <3>2 DEF Current
    <2> QED
      BY <2>1, <2>2
  <1>4. DoneFor(c)' = DoneFor(c)
    BY <1>1, <1>3, NoneCurrent, PastKept
  <1> QED
    BY <1>1, <1>2, <1>4, Unseen

(* The slave does the byte.                                                *)
LEMMA ActsRefines ==
    ASSUME RInv, IInv', NEW c \in Client, SlaveActs(c)
    PROVE  Adapter!Perform(c)
  <1> DEFINE e == Outcome(c, offset[c], args'[c].data, args'[c])
  <1>1. IInv
    BY DEF RInv
  <1>2. /\ pc[c] = "table" /\ pc' = [pc EXCEPT ![c] = "finish"]
        /\ UNCHANGED <<bus, mutex, msgs, job, buf, pos, offset, ret, log>>
        /\ args'[c] \in Args
        /\ args'[c].acted = TRUE
        /\ ~ job[c].rd => args'[c].data = args[c].data
    BY <1>1, Acts
  <1>3. /\ bus = c /\ TypeOK /\ pc'[c] = "finish"
        /\ ~ job[c].rd => args[c].data = buf[c][pos[c] + 1]
    BY <1>2, OwnsBus DEF Parameters, TypeOK
  <1>4. e \in Out
    <2>1. offset[c] \in Byte /\ args'[c].data \in Byte
      BY <1>2, <1>3 DEF TypeOK, Args
    <2> QED
      BY <1>3, <2>1, OutcomeType
  <1>5. Current(c)' = <<e>>
    BY <1>2, <1>3 DEF Current, Outcome
  <1>6. IsDone(e, PlanOf(msgs[c])[pos[c] + 1])
    BY <1>2, <1>3, PlanFacts DEF IsDone, Outcome, Active
  <1>7. Past(c)' = Past(c) /\ Current(c) = <<>>
    BY <1>2, PastKept, NoneCurrent
  <1> HIDE DEF e
  <1> QED
    BY <1>2, <1>3, <1>4, <1>5, <1>6, <1>7, Performs DEF Active

(* A report on the byte changes nothing of what the slave did.             *)
LEMMA EndsRefines ==
    ASSUME RInv, IInv', NEW c \in Client, TableEnds(c)
    PROVE  UNCHANGED Adapter!vars
  <1>0. TypeOK
    BY DEF RInv, IInv
  <1>1. /\ args'[c].acted = args[c].acted
        /\ args'[c].aborted = args[c].aborted
        /\ args'[c].data = args[c].data
        /\ args'[c].status = 1 => args[c].acted
        /\ pc[c] = "finish" /\ pc'[c] = "check"
        /\ UNCHANGED <<mem, bus, msgs, job, buf, pos, offset, ret, log>>
    BY <1>0, Ends
  <1>2. Current(c)' = Current(c)
    BY <1>1 DEF Current, Outcome, StatusOk
  <1>3. DoneFor(c)' = DoneFor(c) /\ bus = c
    BY <1>1, <1>2, PastKept, OwnsBus
  <1> QED
    BY <1>1, <1>3, Unseen

(* An abort that passes for success is the byte that the promise excepts.  *)
LEMMA AbortsRefines ==
    ASSUME RInv, IInv', NEW c \in Client, TableAborts(c)
    PROVE  Adapter!Next \/ UNCHANGED Adapter!vars
  <1>0. TypeOK
    BY DEF RInv, IInv
  <1>1. /\ args'[c].acted = args[c].acted
        /\ args'[c].aborted = TRUE
        /\ args'[c].data = args[c].data
        /\ args'[c].status = args[c].status
        /\ pc[c] = "finish" /\ pc'[c] = "check"
        /\ UNCHANGED <<mem, bus, msgs, job, buf, pos, offset, ret, log>>
    BY <1>0, Aborts
  <1>2. bus = c /\ args[c].status = offset[c]
    BY <1>1, OwnsBus DEF Parameters
  <1>3. CASE args[c].acted \/ args[c].status # 1
    <2>1. Current(c)' = Current(c)
      BY <1>1, <1>3 DEF Current, Outcome, StatusOk
    <2>2. DoneFor(c)' = DoneFor(c)
      BY <1>1, <2>1, PastKept
    <2> QED
      BY <1>1, <1>2, <2>2, Unseen
  <1>4. CASE ~ args[c].acted /\ args[c].status = 1
    <2> DEFINE e == Outcome(c, offset[c], args[c].data, args'[c])
    <2>1. e \in Out
      <3>1. offset[c] \in Byte /\ args[c] \in Args
        BY <1>0 DEF TypeOK
      <3>2. args[c].data \in Byte
        BY <3>1 DEF Args
      <3> QED
        BY <1>0, <3>1, <3>2, OutcomeType
    <2>2. Current(c) = <<>> /\ Current(c)' = <<e>>
      BY <1>1, <1>4 DEF Current, Outcome, StatusOk
    <2>3. IsDone(e, PlanOf(msgs[c])[pos[c] + 1])
      <3>1. PlanOf(msgs[c])[pos[c] + 1].offset = 1
        BY <1>1, <1>2, <1>4, PlanFacts DEF Active
      <3>2. e.how = "aborted"
        BY <1>1, <1>4 DEF Outcome
      <3> QED
        BY <3>1, <3>2 DEF IsDone
    <2>4. Past(c)' = Past(c)
      BY <1>1, PastKept
    <2> HIDE DEF e
    <2>5. Adapter!Perform(c)
      BY <1>1, <1>2, <2>1, <2>2, <2>3, <2>4, Performs DEF Active
    <2> QED
      BY <2>5 DEF Adapter!Next
  <1> QED
    BY <1>3, <1>4

(* The check ends the current byte, which is accepted and part of the past,*)
(* and the transfer with the last one.                                     *)
LEMMA AcceptRefines ==
    ASSUME RInv, IInv', NEW c \in Client, CheckStatus(c), StatusOk(c)
    PROVE  Adapter!Next \/ UNCHANGED Adapter!vars
  <1> DEFINE n == pos[c]
             e == Outcome(c, offset[c], args[c].data, args[c])
             entry == [acted |-> args[c].acted, aborted |-> args[c].aborted]
  <1>1. pc[c] = "check"
    BY DEF CheckStatus
  <1>2. /\ bus = c /\ IInv /\ TypeOK /\ PastIs /\ ret[c] = "none"
        /\ Parameters(c) /\ Counters(c)
        /\ ~ job[c].rd => args[c].data = buf[c][n + 1]
    BY <1>1, OwnsBus DEF Extra
  <1>3. /\ n \in Nat /\ n + 1 \in 1 .. Len(buf[c]) /\ buf[c] \in Seq(Byte)
        /\ UNCHANGED <<mem, bus, mutex, msgs, job, args>>
        /\ pos' = [pos EXCEPT ![c] = n + 1]
        /\ Continue(c, Len(buf[c]) - n - 1)
        /\ Len(buf'[c]) = Len(buf[c])
        /\ \A i \in 1 .. Len(buf[c]) : buf'[c][i] =
             IF i = n + 1 /\ job[c].rd THEN args[c].data ELSE buf[c][i]
        /\ \A d \in Client \ {c} : buf'[d] = buf[d]
        /\ \A i \in 1 .. n : log'[c][i] = log[c][i]
        /\ log'[c][n + 1] = entry
        /\ \/ pc'[c] = "byte" /\ ret'[c] = "none" /\ n + 1 < Len(buf[c])
           \/ pc'[c] = "done" /\ ret'[c] = "num" /\ n + 1 = Len(buf[c])
    BY <1>2, Accepts
  <1>4. e \in Out
    <2>1. offset[c] \in Byte /\ args[c] \in Args
      BY <1>2 DEF TypeOK
    <2>2. args[c].data \in Byte
      BY <2>1 DEF Args
    <2> QED
      BY <1>2, <2>1, <2>2, OutcomeType
  <1>5. DoneFor(c) = Append(Past(c), e)
    <2>1. args[c].acted \/ args[c].aborted
      BY <1>1, <1>2 DEF Parameters, StatusOk
    <2>2. Current(c) = <<e>>
      BY <1>1, <2>1 DEF Current
    <2> HIDE DEF e
    <2> QED
      BY <1>2, <1>4, <2>2, PastType
  <1>6. /\ DoneFor(c)' = Past(c)' /\ Past(c)' \in Seq(Out) /\ Len(Past(c)') = n + 1
        /\ \A i \in 1 .. n + 1 : Past(c)'[i] =
             Outcome(c, OffsetOf(c, i), buf'[c][i], log'[c][i])
    <2>1. Current(c)' = <<>>
      BY <1>3 DEF Current
    <2>2. pos'[c] = n + 1
      BY <1>2, <1>3 DEF TypeOK
    <2>3. \A i \in 1 .. n + 1 : Past(c)'[i] =
             [addr |-> job[c].addr, rd |-> job[c].rd, offset |-> OffsetOf(c, i),
              data |-> buf'[c][i],
              how |-> IF log'[c][i].acted THEN "acted"
                      ELSE IF log'[c][i].aborted THEN "aborted" ELSE "lost"]
      BY <1>3, <2>2, PastNext DEF PastIs, Outcome, OffsetOf
    <2> QED
      BY <2>1, <2>2, <2>3, PastNext DEF PastIs, Outcome
  <1>7. DoneFor(c)' = DoneFor(c)
    <2>1. /\ Past(c) \in Seq(Out) /\ Len(Past(c)) = n
          /\ \A i \in 1 .. n : Past(c)[i] =
               Outcome(c, OffsetOf(c, i), buf[c][i], log[c][i])
      BY <1>2 DEF PastIs
    <2> DEFINE s == Append(Past(c), e)
    <2> HIDE DEF e, n
    <2>2. /\ s \in Seq(Out) /\ Len(s) = n + 1 /\ s[n + 1] = e
          /\ \A i \in 1 .. n : s[i] = Past(c)[i]
      BY <1>4, <2>1, AppendProperties
    <2>3. \A i \in 1 .. n : Past(c)'[i] = s[i]
      <3>1. \A i \in 1 .. n : i \in 1 .. n + 1 /\ i # n + 1 /\ i \in 1 .. Len(buf[c])
        BY <1>3
      <3>2. \A i \in 1 .. n : buf'[c][i] = buf[c][i] /\ log'[c][i] = log[c][i]
        BY <1>3, <3>1
      <3> QED
        BY <1>6, <2>1, <2>2, <3>1, <3>2
    <2>4. Past(c)'[n + 1] = s[n + 1]
      <3>1. OffsetOf(c, n + 1) = offset[c]
        <4>1. job[c].first \in Nat
          BY <1>2, ByteAssumption DEF TypeOK, Job, Byte
        <4>2. job[c].first + (n + 1) - 1 = job[c].first + n
          BY <1>3, <4>1
        <4> QED
          BY <1>2, <4>2 DEF Counters, OffsetOf, n
      <3>2. buf'[c][n + 1] = args[c].data
        BY <1>2, <1>3
      <3>3. n + 1 \in 1 .. n + 1
        BY <1>3
      <3>4. Past(c)'[n + 1] = Outcome(c, offset[c], args[c].data, log'[c][n + 1])
        BY <1>6, <3>1, <3>2, <3>3
      <3> QED
        BY <1>3, <2>2, <3>4 DEF Outcome, e
    <2>5. \A i \in 1 .. n + 1 : Past(c)'[i] = s[i]
      <3>1. \A i \in 1 .. n + 1 : i \in 1 .. n \/ i = n + 1
        BY <1>3
      <3> QED
        BY <2>3, <2>4, <3>1
    <2> HIDE DEF s
    <2>6. Past(c)' = s
      BY <1>6, <2>2, <2>5, SeqEqual
    <2> QED
      BY <1>5, <1>6, <2>6 DEF s
  <1> HIDE DEF e
  <1>8. Transactions = DoneFor(c) /\ Transactions' = Transactions
    BY <1>2, <1>3, <1>7, SeenNow, SeenNext DEF Seen
  <1>9. CASE n + 1 < Len(buf[c])
    <2>1. ret' = ret /\ \A d \in Client : ret[d] = "num" => buf'[d] = buf[d]
      BY <1>2, <1>3, <1>9 DEF Continue
    <2> QED
      BY <1>2, <1>3, <1>7, <2>1, Unseen
  <1>10. CASE ~ (n + 1 < Len(buf[c]))
    <2>1. /\ n + 1 = Len(buf[c]) /\ ret'[c] = "num"
          /\ ret' = [ret EXCEPT ![c] = "num"]
      BY <1>3, <1>10 DEF Continue
    <2>2. /\ Len(PlanOf(msgs[c])) = n + 1 /\ msgs[c] \in Request
          /\ IsSupported(msgs[c])
      BY <1>1, <2>1, PlanFacts DEF Active
    <2>3. Len(Transactions) = n + 1
      BY <1>6, <1>7, <1>8
    <2>4. Replies' = [Replies EXCEPT ![c] = Replies'[c]] /\ Replies'[c] = buf'[c]
      <3>1. \A d \in Client : d # c => ret'[d] = ret[d] /\ buf'[d] = buf[d]
        BY <1>2, <1>3, <2>1 DEF TypeOK
      <3> QED
        BY <1>2, <2>1, <3>1, OneReply
    <2>5. IsReply(Replies'[c], Transactions, msgs[c])
      <3>1. Transactions = Past(c)' /\ DOMAIN Transactions = 1 .. n + 1
        <4>1. Transactions = Past(c)'
          BY <1>6, <1>7, <1>8
        <4> QED
          BY <1>6, <4>1, LenProperties
      <3>2. \A i \in 1 .. n + 1 : Past(c)'[i].data = buf'[c][i]
        <4>1. \A o, b, x : Outcome(c, o, b, x).data = b
          BY DEF Outcome
        <4> HIDE DEF n
        <4> QED
          BY <1>6, <4>1
      <3> QED
        BY <2>4, <3>1, <3>2 DEF IsReply
    <2>6. msgs[c] \notin {m \in Request : ~ IsSupported(m)}
      BY <2>2
    <2>7. Adapter!Succeed(c)
      BY <1>2, <1>3, <1>8, <2>1, <2>2, <2>3, <2>4, <2>5, <2>6
         DEF Adapter!Succeed, Adapter!Underway
    <2> QED
      BY <2>7 DEF Adapter!Next
  <1> QED
    BY <1>9, <1>10

(* A byte that is refused may have been done.                              *)
LEMMA RejectRefines ==
    ASSUME RInv, IInv', NEW c \in Client, CheckStatus(c), ~ StatusOk(c)
    PROVE  Adapter!FailTransfer(c)
  <1>1. /\ pc[c] = "check"
        /\ pc' = [pc EXCEPT ![c] = "done"]
        /\ ret' = [ret EXCEPT ![c] = "EIO"]
        /\ UNCHANGED <<bus, msgs, job, args, buf, offset, log>>
    BY DEF CheckStatus, Fail
  <1>2. TypeOK
    BY DEF RInv, IInv
  <1>3. pc'[c] = "done" /\ ret'[c] = "EIO"
    BY <1>1, <1>2 DEF TypeOK
  <1>4. Current(c)' = Current(c)
    BY <1>1, <1>3 DEF Current, Outcome, StatusOk
  <1>5. DoneFor(c)' = DoneFor(c)
    BY <1>1, <1>4, PastKept
  <1> QED
    BY <1>1, <1>5, Fails

(* Every step of the adapter is one that the promise allows, or none.      *)
THEOREM StepRefines == RInv /\ IInv' /\ [Next]_vars => [Adapter!Next]_(Adapter!vars)
  <1> SUFFICES ASSUME RInv, IInv', [Next]_vars
               PROVE  Adapter!Next \/ UNCHANGED Adapter!vars
    OBVIOUS
  <1>1. CASE UNCHANGED vars
    BY <1>1 DEF vars, Adapter!vars, Transactions, Replies, DoneFor, Current, Outcome,
                OffsetOf, StatusOk, Succeeded
  <1>2. ASSUME NEW c \in Client, NEW m \in Request, Call(c, m)
        PROVE  Adapter!Next
    BY <1>2, CallRefines DEF Adapter!Next
  <1>3. ASSUME NEW c \in Client, Step(c)
        PROVE  Adapter!Next \/ UNCHANGED Adapter!vars
    <2>1. CASE BusLock(c) \/ BusUnlock(c) \/ Refuse(c) \/ SlaveActs(c)
      BY <2>1, BusLockRefines, BusUnlockRefines, RefuseRefines, ActsRefines
         DEF Adapter!Next
    <2>2. CASE CheckStatus(c) /\ ~ StatusOk(c)
      BY <2>2, RejectRefines DEF Adapter!Next
    <2>3. CASE TableBegin(c) \/ NoSlaveActs(c) \/ TableEnds(c)
      BY <2>3, WaitRefines, EndsRefines
    <2>4. CASE Dispatch(c) \/ TableAborts(c) \/ (CheckStatus(c) /\ StatusOk(c))
      BY <2>4, DispatchRefines, AbortsRefines, AcceptRefines
    <2> QED
      BY <1>3, <2>1, <2>2, <2>3, <2>4 DEF Step
  <1> QED
    BY <1>1, <1>2, <1>3 DEF Next

(* For any clients, slaves and requests the adapter implements I2cAdapter: *)
(* the slaves do a first part of the bytes of each transfer, in order, and *)
(* all of them when it reports success.                                    *)
THEOREM ImplementsTheorem == Spec => Implements
  BY NobodyStarted, StepRefines, RInductive, Inductive, PTL
     DEF Spec, Implements, Adapter!Spec
=============================================================================
