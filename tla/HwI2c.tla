-------------------------------- MODULE HwI2c --------------------------------
(***************************************************************************)
(* The i2c adapter that the module registers, aura-gpu-hw.c: clients call  *)
(* aura_gpu_i2c_xfer, which turns their messages into a series of one-byte *)
(* transactions, each an execution of the card's own command table         *)
(* ProcessI2cChannelTransaction by atom_execute_table.                     *)
(*                                                                         *)
(* Three things are outside src/ and modelled from how hw.c uses them: the *)
(* i2c core, which holds the bus lock around master_xfer; the table, which *)
(* may be missing, fail, or be aborted at any point (atom/atom.c); and the *)
(* slaves, each a file of byte registers.                                  *)
(*                                                                         *)
(* Bytes run over 0..ByteSize-1, 256 of them in the code, because offsets  *)
(* wrap there.                                                             *)
(***************************************************************************)
EXTENDS Integers, Sequences

CONSTANTS
    Client,     \* the threads that transfer
    NoClient,   \* the owner of a free lock
    Addr,       \* slave addresses
    Present,    \* the addresses at which a slave answers
    ByteSize,   \* the number of values of a byte
    Request,    \* the message arrays that clients transfer
    Reliable    \* those where no transaction is aborted, or fails with a slave

Byte == 0 .. ByteSize - 1

(* struct i2c_msg: rd is the flag I2C_M_RD, buf the bytes to send or the   *)
(* buffer to fill, and its length is len.                                  *)
Msg == [addr : Addr, rd : BOOLEAN, buf : Seq(Byte)]

HW_ASSISTED_I2C_STATUS_SUCCESS == 1
HW_ASSISTED_I2C_STATUS_FAILURE == 2

ASSUME ByteAssumption == ByteSize \in Nat /\ ByteSize > 2
ASSUME AddrAssumption == Addr # {} /\ Present \subseteq Addr
ASSUME ClientAssumption == NoClient \notin Client
ASSUME RequestAssumption == Request \subseteq {m \in Seq(Msg) : Len(m) > 0}
ASSUME ReliableAssumption == Reliable \subseteq Addr

VARIABLES
    mem,        \* mem[a][o]: register o of the slave at a
    bus,        \* owner of the i2c core's bus lock
    mutex,      \* owner of atom_context->mutex
    pc,         \* where each client is
    msgs,       \* the messages it transfers
    job,        \* address, direction and first offset that xfer made of them
    buf,        \* the bytes of the job
    pos,        \* buffer_offset: bytes dealt with
    offset,     \* offset: the slave register of the next byte
    args,       \* transaction_parameters: ucStatus (also ucRegIndex), data
    ret,        \* what xfer returns: "num" or "EIO"
    log         \* history: for each byte accepted, whether the slave acted
                \* and whether the table was aborted

vars == <<mem, bus, mutex, pc, msgs, job, buf, pos, offset, args, ret, log>>

NoMsgs == <<>>
NoJob == [addr |-> CHOOSE a \in Addr : TRUE, rd |-> FALSE, first |-> 0]
NoArgs == [status |-> 0, data |-> 0, acted |-> FALSE, aborted |-> FALSE]

Job == [addr : Addr, rd : BOOLEAN, first : Byte]
Args == [status : Byte, data : Byte, acted : BOOLEAN, aborted : BOOLEAN]
Entry == [acted : BOOLEAN, aborted : BOOLEAN]

Pc == {"idle", "bus", "dispatch", "byte", "table", "finish", "check", "done"}

TypeOK ==
    /\ mem \in [Addr -> [Byte -> Byte]]
    /\ bus \in Client \cup {NoClient}
    /\ mutex \in Client \cup {NoClient}
    /\ pc \in [Client -> Pc]
    /\ msgs \in [Client -> Request \cup {NoMsgs}]
    /\ job \in [Client -> Job]
    /\ buf \in [Client -> Seq(Byte)]
    /\ pos \in [Client -> Nat]
    /\ offset \in [Client -> Byte]
    /\ args \in [Client -> Args]
    /\ ret \in [Client -> {"none", "num", "EIO"}]
    /\ log \in [Client -> Seq(Entry)]

Init ==
    /\ mem = [a \in Addr |-> [o \in Byte |-> 0]]
    /\ bus = NoClient
    /\ mutex = NoClient
    /\ pc = [c \in Client |-> "idle"]
    /\ msgs = [c \in Client |-> NoMsgs]
    /\ job = [c \in Client |-> NoJob]
    /\ buf = [c \in Client |-> <<>>]
    /\ pos = [c \in Client |-> 0]
    /\ offset = [c \in Client |-> 0]
    /\ args = [c \in Client |-> NoArgs]
    /\ ret = [c \in Client |-> "none"]
    /\ log = [c \in Client |-> <<>>]

-----------------------------------------------------------------------------
(* The i2c core: i2c_transfer takes the bus lock and calls master_xfer.    *)
Call(c, m) ==
    /\ pc[c] = "idle"
    /\ pc' = [pc EXCEPT ![c] = "bus"]
    /\ msgs' = [msgs EXCEPT ![c] = m]
    /\ UNCHANGED <<mem, bus, mutex, job, buf, pos, offset, args, ret, log>>

BusLock(c) ==
    /\ pc[c] = "bus"
    /\ bus = NoClient
    /\ bus' = c
    /\ pc' = [pc EXCEPT ![c] = "dispatch"]
    /\ UNCHANGED <<mem, mutex, msgs, job, buf, pos, offset, args, ret, log>>

BusUnlock(c) ==
    /\ pc[c] = "done"
    /\ bus' = NoClient
    /\ pc' = [pc EXCEPT ![c] = "idle"]
    /\ msgs' = [msgs EXCEPT ![c] = NoMsgs]
    /\ job' = [job EXCEPT ![c] = NoJob]
    /\ buf' = [buf EXCEPT ![c] = <<>>]
    /\ pos' = [pos EXCEPT ![c] = 0]
    /\ offset' = [offset EXCEPT ![c] = 0]
    /\ args' = [args EXCEPT ![c] = NoArgs]
    /\ ret' = [ret EXCEPT ![c] = "none"]
    /\ log' = [log EXCEPT ![c] = <<>>]
    /\ UNCHANGED <<mem, mutex>>

-----------------------------------------------------------------------------
(* The shapes of transfer that aura_gpu_i2c_xfer tells apart.              *)
IsProbe(m) == Len(m) = 1 /\ Len(m[1].buf) = 0

IsWriteOfMore(m) == Len(m) = 1 /\ Len(m[1].buf) > 2 /\ ~ m[1].rd

IsWrite(m) == Len(m) = 1 /\ Len(m[1].buf) > 1 /\ ~ m[1].rd

IsCombined(m) == Len(m) = 2 /\ ~ m[1].rd /\ Len(m[1].buf) = 1

IsSupported(m) == IsProbe(m) \/ IsWrite(m) \/ IsCombined(m)

(* The bytes that each shape moves: a probe writes one zero (a null buf),  *)
(* a write sends what follows its offset, and the second of two messages   *)
(* is read or written at the offset that the first one gives.              *)
JobBuf(m) ==
    CASE IsProbe(m)    -> <<0>>
      [] IsWrite(m)    -> Tail(m[1].buf)
      [] IsCombined(m) -> m[2].buf

(* Only the address of the first message is used.                          *)
JobOf(m) == [addr  |-> m[1].addr,
             rd    |-> IsCombined(m) /\ m[2].rd,
             first |-> IF IsProbe(m) THEN 0 ELSE m[1].buf[1]]

(* while (remaining): xfer returns num once every byte is dealt with.      *)
Continue(c, remaining) ==
    IF remaining > 0
    THEN pc' = [pc EXCEPT ![c] = "byte"] /\ UNCHANGED ret
    ELSE /\ pc' = [pc EXCEPT ![c] = "done"]
         /\ ret' = [ret EXCEPT ![c] = "num"]

(* if (err) return err                                                     *)
Fail(c) ==
    /\ pc' = [pc EXCEPT ![c] = "done"]
    /\ ret' = [ret EXCEPT ![c] = "EIO"]

Dispatch(c) ==
    /\ pc[c] = "dispatch"
    /\ LET m == msgs[c]
       IN  /\ IsSupported(m)
           /\ job' = [job EXCEPT ![c] = JobOf(m)]
           /\ buf' = [buf EXCEPT ![c] = JobBuf(m)]
           /\ offset' = [offset EXCEPT ![c] = JobOf(m).first]
           /\ Continue(c, Len(JobBuf(m)))
    /\ UNCHANGED <<mem, bus, mutex, msgs, pos, args, log>>

(* Everything else is refused, among it any single read.                   *)
Refuse(c) ==
    /\ pc[c] = "dispatch"
    /\ ~ IsSupported(msgs[c])
    /\ Fail(c)
    /\ UNCHANGED <<mem, bus, mutex, msgs, job, buf, pos, offset, args, log>>

(* aura_gpu_i2c_process_i2c_ch fills args, where ucStatus and ucRegIndex   *)
(* are one byte, and atom_execute_table takes the mutex.                   *)
TableBegin(c) ==
    /\ pc[c] = "byte"
    /\ mutex = NoClient
    /\ mutex' = c
    /\ args' = [args EXCEPT ![c] =
                  [NoArgs EXCEPT !.status = offset[c],
                                 !.data = IF job[c].rd THEN 0
                                          ELSE buf[c][pos[c] + 1]]]
    /\ pc' = [pc EXCEPT ![c] = "table"]
    /\ UNCHANGED <<mem, bus, msgs, job, buf, pos, offset, ret, log>>

(* The table's transaction on the bus: a present slave acts on it.         *)
SlaveActs(c) ==
    /\ pc[c] = "table"
    /\ job[c].addr \in Present
    /\ LET a == job[c].addr
       IN  IF job[c].rd
           THEN /\ args' = [args EXCEPT ![c].data = mem[a][offset[c]],
                                        ![c].acted = TRUE]
                /\ UNCHANGED mem
           ELSE /\ args' = [args EXCEPT ![c].acted = TRUE]
                /\ mem' = [mem EXCEPT ![a][offset[c]] = args[c].data]
    /\ pc' = [pc EXCEPT ![c] = "finish"]
    /\ UNCHANGED <<bus, mutex, msgs, job, buf, pos, offset, ret, log>>

(* No slave answers, or the bus fails first, or the table is missing.      *)
NoSlaveActs(c) ==
    /\ pc[c] = "table"
    /\ job[c].addr \notin Reliable \cap Present
    /\ pc' = [pc EXCEPT ![c] = "finish"]
    /\ UNCHANGED <<mem, bus, mutex, msgs, job, buf, pos, offset, args, ret, log>>

(* mutex_unlock at the end of atom_execute_table, on either path           *)
DropMutexForgotten == UNCHANGED mutex

DropMutex == mutex' = NoClient

(* The table runs to its end and reports a status.                         *)
TableEnds(c) ==
    /\ pc[c] = "finish"
    /\ \E status \in {HW_ASSISTED_I2C_STATUS_SUCCESS,
                      HW_ASSISTED_I2C_STATUS_FAILURE} :
          /\ status = HW_ASSISTED_I2C_STATUS_SUCCESS => args[c].acted
          /\ job[c].addr \in Reliable /\ args[c].acted
                => status = HW_ASSISTED_I2C_STATUS_SUCCESS
          /\ args' = [args EXCEPT ![c].status = status]
    /\ DropMutex
    /\ pc' = [pc EXCEPT ![c] = "check"]
    /\ UNCHANGED <<mem, bus, msgs, job, buf, pos, offset, ret, log>>

(* atom_execute_table returns -EINVAL: the table is missing or aborted     *)
(* before it reported, and ucStatus is what process_i2c_ch put there.      *)
TableAborts(c) ==
    /\ pc[c] = "finish"
    /\ job[c].addr \notin Reliable
    /\ args' = [args EXCEPT ![c].aborted = TRUE]
    /\ DropMutex
    /\ pc' = [pc EXCEPT ![c] = "check"]
    /\ UNCHANGED <<mem, bus, msgs, job, buf, pos, offset, ret, log>>

(* args.ucStatus is checked, not what atom_execute_table returned.         *)
StatusOkUnlessFailure(c) == args[c].status # HW_ASSISTED_I2C_STATUS_FAILURE

StatusOk(c) == args[c].status = HW_ASSISTED_I2C_STATUS_SUCCESS

(* offset++ of a uint8_t                                                   *)
NextOffsetUnwrapped(o) == o + 1

NextOffsetStuck(o) == o

NextOffsetSaturating(o) == IF o = ByteSize - 1 THEN o ELSE o + 1

NextOffset(o) == (o + 1) % ByteSize

(* The end of process_i2c_ch, and of the body of the loop around it.       *)
CheckStatus(c) ==
    /\ pc[c] = "check"
    /\ IF ~ StatusOk(c)
       THEN Fail(c) /\ UNCHANGED <<buf, pos, offset, log>>
       ELSE /\ buf' = IF job[c].rd
                      THEN [buf EXCEPT ![c][pos[c] + 1] = args[c].data]
                      ELSE buf
            /\ pos' = [pos EXCEPT ![c] = @ + 1]
            /\ offset' = [offset EXCEPT ![c] = NextOffset(@)]
            /\ log' = [log EXCEPT ![c] =
                         Append(@, [acted |-> args[c].acted,
                                    aborted |-> args[c].aborted])]
            /\ Continue(c, Len(buf[c]) - pos[c] - 1)
    /\ UNCHANGED <<mem, bus, mutex, msgs, job, args>>

Step(c) ==
    \/ BusLock(c) \/ BusUnlock(c)
    \/ Dispatch(c) \/ Refuse(c)
    \/ TableBegin(c) \/ SlaveActs(c) \/ NoSlaveActs(c)
    \/ TableEnds(c) \/ TableAborts(c)
    \/ CheckStatus(c)

Next == \E c \in Client : Step(c) \/ \E m \in Request : Call(c, m)

Spec == Init /\ [][Next]_vars

(* The steps of the i2c core and of aura-gpu-hw.c, without those of the    *)
(* table that they wait for.                                               *)
OwnStep(c) == pc[c] \notin {"table", "finish"} /\ Step(c)

(* Clients run, and the kernel serves the waiters of its locks in turn.    *)
(* Nothing is assumed of the table: the interpreter does not give up on    *)
(* every one that is stuck (atom.c:705-719).                               *)
Fairness == \A c \in Client : WF_vars(OwnStep(c)) /\ SF_vars(BusLock(c))

FairSpec == Spec /\ Fairness

-----------------------------------------------------------------------------
(* The slave register that the i-th byte of c's job is for.                *)
OffsetOf(c, i) == (job[c].first + i - 1) % ByteSize

Succeeded(c) == pc[c] = "done" /\ ret[c] = "num"

(* A transfer that reports success did every byte, except where the table  *)
(* was aborted at the one offset that equals the success status: ucStatus  *)
(* shares its byte with ucRegIndex (aura-gpu-hw.c:164-175, 222).           *)
SuccessUnlessAliased == \A c \in Client : Succeeded(c) =>
    /\ Len(log[c]) = Len(buf[c])
    /\ \A i \in DOMAIN log[c] :
         \/ log[c][i].acted
         \/ /\ log[c][i].aborted
            /\ OffsetOf(c, i) = HW_ASSISTED_I2C_STATUS_SUCCESS

(* When xfer returns success the registers of the slave that the first     *)
(* message names and the client's buffer agree byte for byte, whatever     *)
(* other clients transfer meanwhile: the offsets are consecutive and wrap, *)
(* and a later byte of the same transfer may overwrite an earlier one.     *)
Coherent == \A c \in Client :
    (Succeeded(c) /\ \A i \in DOMAIN log[c] : log[c][i].acted) =>
        \A i \in DOMAIN buf[c] :
            (\A j \in DOMAIN buf[c] : j > i => OffsetOf(c, j) # OffsetOf(c, i))
                => mem[job[c].addr][OffsetOf(c, i)] = buf[c][i]

(* What the messages m themselves ask for: that their k-th byte of data,   *)
(* b, be written to register o of the slave at a.  The data of one message *)
(* follow its offset, those of two are in the second.                      *)
Asks(m, k, a, o, b) ==
    /\ ~ m[1].rd /\ m[1].buf # <<>>
    /\ o = (m[1].buf[1] + k - 1) % ByteSize
    /\ \/ /\ Len(m) = 1 /\ a = m[1].addr
          /\ k + 1 \in DOMAIN m[1].buf /\ b = m[1].buf[k + 1]
       \/ /\ Len(m) = 2 /\ Len(m[1].buf) = 1
          /\ a = m[2].addr /\ ~ m[2].rd
          /\ k \in DOMAIN m[2].buf /\ b = m[2].buf[k]

(* A register of a slave changes only by a write that the messages of the  *)
(* bus owner ask for, the next of them, so that a failed transfer leaves a *)
(* prefix of its bytes written and nothing else; with two exceptions.  A   *)
(* probe, which asks for nothing, writes zero to register 0                *)
(* (aura-gpu-hw.c:266-272); and what the second of two messages asks of    *)
(* its slave is done to the slave of the first (line 303).                 *)
OnlyAskedWritesUnless ==
    [][\A a \in Addr, o \in Byte :
         mem'[a][o] # mem[a][o] =>
            /\ bus # NoClient
            /\ LET m == msgs[bus]
                   k == pos[bus] + 1
                   b == mem'[a][o]
               IN  \/ Asks(m, k, a, o, b)
                   \/ IsProbe(m) /\ a = m[1].addr /\ k = 1 /\ o = 0 /\ b = 0
                   \/ Len(m) = 2 /\ a = m[1].addr /\ Asks(m, k, m[2].addr, o, b)]_vars

(* At most one command table runs, always for the client that owns the bus *)
(* (atom_execute_table's mutex inside the i2c core's bus lock).            *)
OneTable == \A c \in Client :
    /\ pc[c] \in {"table", "finish"} <=> mutex = c
    /\ pc[c] \notin {"idle", "bus"} <=> bus = c

(* The transfers that the i2c core makes of SMBus requests: a quick        *)
(* command, a byte received or sent, data written, and a command written   *)
(* before data is read.                                                    *)
IsEmulated(m) ==
    \/ /\ Len(m) = 1
       /\ m[1].rd => Len(m[1].buf) <= 1
    \/ /\ Len(m) = 2 /\ m[1].addr = m[2].addr
       /\ ~ m[1].rd /\ m[1].buf # <<>>
       /\ m[2].rd /\ m[2].buf # <<>>

IsSingleByte(m) == Len(m) = 1 /\ Len(m[1].buf) = 1

IsProcessCall(m) == Len(m) = 2 /\ Len(m[1].buf) > 1

Finished(c) == pc[c] = "done" /\ msgs[c][1].addr \in Reliable

(* Where the bus never fails, an SMBus request succeeds exactly when its   *)
(* slave is there, except a byte received or sent and a process call,      *)
(* which EmulatedSucceeds speaks of.                                       *)
EmulatedOutcomeUnlessRefused == \A c \in Client :
    (/\ Finished(c)
     /\ IsEmulated(msgs[c])
     /\ ~ IsSingleByte(msgs[c]) /\ ~ IsProcessCall(msgs[c]))
        => (ret[c] = "num" <=> msgs[c][1].addr \in Present)

(* What the adapter advertises by I2C_FUNC_SMBUS_EMUL (aura-gpu-hw.c:343): *)
(* where the bus never fails, an SMBus request to a slave that is there    *)
(* succeeds.  README.md:60-72 shows the slave at 0x30 found by a scan,     *)
(* which looks for it by receiving a byte.                                 *)
EmulatedSucceeds == \A c \in Client :
    (Finished(c) /\ IsEmulated(msgs[c]) /\ msgs[c][1].addr \in Present)
        => ret[c] = "num"

(* A table that has begun ends: a hypothesis on the BIOS, whose loops the  *)
(* interpreter does not always stop.                                       *)
TablesEnd == \A c \in Client : pc[c] \in {"table", "finish"} ~> pc[c] = "check"

(* If tables end, every transfer returns: no lock of the i2c core or of    *)
(* the interpreter is left held, whatever fails or is aborted, and none is *)
(* waited for for ever.                                                    *)
TransferReturnsIfTablesEnd ==
    TablesEnd => \A c \in Client : pc[c] # "idle" ~> pc[c] = "idle"

(* What the comment at aura-gpu-hw.c:222 takes the status for: a           *)
(* transaction that failed is an error, so success means every byte done.  *)
SuccessMeansDone == \A c \in Client :
    Succeeded(c) => \A i \in DOMAIN log[c] : log[c][i].acted

-----------------------------------------------------------------------------
(* The adapter: its transactions are single bytes, each at an offset.      *)
PlanOf(m) ==
    [i \in 1 .. (IF IsSupported(m) THEN Len(JobBuf(m)) ELSE 0) |->
        [addr |-> m[1].addr, rd |-> JobOf(m).rd, data |-> JobBuf(m)[i],
         offset |-> (JobOf(m).first + i - 1) % ByteSize]]

(* A byte that c takes for done, at offset o and with value b.             *)
Outcome(c, o, b, entry) ==
    [addr |-> job[c].addr, rd |-> job[c].rd, offset |-> o, data |-> b,
     how |-> IF entry.acted THEN "acted" ELSE IF entry.aborted THEN "aborted" ELSE "lost"]

(* The byte of the table in progress counts once the slave has acted, or   *)
(* if the table was aborted and its status passes all the same.            *)
Current(c) ==
    IF \/ args[c].acted /\ pc[c] \in {"finish", "check"}
       \/ args[c].acted /\ pc[c] = "done" /\ ret[c] = "EIO"
       \/ args[c].aborted /\ pc[c] = "check" /\ StatusOk(c)
    THEN <<Outcome(c, offset[c], args[c].data, args[c])>>
    ELSE <<>>

DoneFor(c) ==
    [i \in DOMAIN log[c] |-> Outcome(c, OffsetOf(c, i), buf[c][i], log[c][i])]
        \o Current(c)

IsDone(e, a) ==
    \/ /\ e.how = "acted"
       /\ e.addr = a.addr /\ e.rd = a.rd /\ e.offset = a.offset
       /\ e.rd \/ e.data = a.data
    \/ e.how = "aborted" /\ a.offset = HW_ASSISTED_I2C_STATUS_SUCCESS

IsReply(g, d, m) == \A i \in DOMAIN d : d[i].how = "acted" => g[i] = d[i].data

Transactions == IF bus = NoClient THEN <<>> ELSE DoneFor(bus)

Replies == [c \in Client |-> IF Succeeded(c) THEN buf[c] ELSE <<>>]

Adapter == INSTANCE I2cAdapter WITH
    Refused <- {m \in Request : ~ IsSupported(m)},
    Plan <- PlanOf,
    call <- msgs,
    owner <- bus,
    done <- Transactions,
    answer <- ret,
    reply <- Replies

(* Clients see an i2c adapter (aura_gpu_i2c_xfer): whatever they transfer  *)
(* at the same time, the slaves do a first part of the bytes of each       *)
(* transfer, in order, at its offsets and with its values, and all of them *)
(* when it reports success; then a read has what the slaves sent.  The     *)
(* byte that is excepted from SuccessUnlessAliased is excepted here.       *)
Implements == Adapter!Spec
=============================================================================
