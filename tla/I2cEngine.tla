------------------------------ MODULE I2cEngine ------------------------------
(***************************************************************************)
(* The i2c adapter of aura-gpu-i2c.c, which drives the card's generic i2c  *)
(* engine through its registers: a transfer opens the engine, makes one    *)
(* hardware transaction of every message, polls for its end, and resets    *)
(* the engine when it closes it.                                           *)
(*                                                                         *)
(* The engine itself is outside src/: a process of its own that starts     *)
(* when GO is written, moves the bytes of its circular buffer and raises   *)
(* flags in its status register, at any time it likes or never.  Raising   *)
(* an error flag, it raises DONE as well; DONE_ACK clears its flags, and   *)
(* SOFT_RESET puts it at rest ("Reset the controller").                    *)
(*                                                                         *)
(* The i2c core's bus lock is left out: the context's mutex is enough for  *)
(* all that is checked here.                                               *)
(***************************************************************************)
EXTENDS Integers, Sequences, FiniteSets, SequencesExt

CONSTANTS
    Client,             \* the threads that transfer
    NoClient,           \* the owner of a free mutex
    Present,            \* the addresses at which a slave answers
    ByteSize,           \* the number of values of a byte, 256 in the code
    BufferSize,         \* entries of the engine's buffer, 16: the width of
                        \* the fields GENERIC_I2C_COUNT and GENERIC_I2C_INDEX
    TimeoutInterval,    \* context->timeout_interval, 10 in the code
    Request             \* the message arrays that clients transfer

Byte == 0 .. ByteSize - 1
Index == 0 .. BufferSize - 1

(* struct i2c_msg: the flag I2C_M_RD, and the bytes to send or to fill.    *)
Msg == [addr : Nat, rd : BOOLEAN, buf : Seq(Byte)]

ASSUME SizeAssumption ==
    ByteSize \in Nat \ {0} /\ BufferSize \in Nat \ {0} /\ TimeoutInterval \in Nat
ASSUME ClientAssumption == NoClient \notin Client
(* Addresses have seven bits, one less than the byte that they go into.    *)
ASSUME AddressAssumption ==
    \A m \in Request : \A i \in DOMAIN m : 2 * m[i].addr + 1 < ByteSize
ASSUME RequestAssumption == Request \subseteq {m \in Seq(Msg) : Len(m) > 0}

VARIABLES
    mutex,      \* owner of context->mutex
    pc,         \* where each client is
    msgs,       \* the messages it transfers
    cur,        \* i: the message it is at
    pos,        \* bytes put into, or taken from, the buffer
    timeout,    \* timeout, -1 for the unsigned value below zero
    result,     \* what get_channel_status returned last
    got,        \* msgs[i].buf of the messages read so far
    ret,        \* what xfer returns: "num" or "EIO"
    control,    \* GENERIC_I2C_CONTROL: enable, reset, go
    pins,       \* are the pins selected
    trans,      \* GENERIC_I2C_TRANSACTION: rd, count
    data,       \* the engine's buffer
    index,      \* the index of its next access
    status,     \* GENERIC_I2C_STATUS: the flags that are set
    wire        \* history: the messages that slaves have taken or filled
                \* for the transfer that owns the engine

software == <<mutex, pc, msgs, cur, pos, timeout, result, got, ret>>
hardware == <<control, pins, trans, data, index, status, wire>>
vars == <<software, hardware>>

Flag == {"BUSY", "STOPPED_ON_NACK", "TIMEOUT", "ABORTED", "DONE", "NACK"}
Result == {"SUCCEEDED", "ENGINE_BUSY", "NO_RESPONSE", "TIMEOUT", "FAILED"}
Pc == {"idle", "lock", "enable", "pins", "message", "address", "put", "go",
       "poll", "ack", "reply", "take", "replyack", "next",
       "unpin", "reset", "clear", "unlock"}

TypeOK ==
    /\ mutex \in Client \cup {NoClient}
    /\ pc \in [Client -> Pc]
    /\ msgs \in [Client -> Request \cup {<<>>}]
    /\ cur \in [Client -> Nat]
    /\ pos \in [Client -> Nat]
    /\ timeout \in [Client -> -1 .. TimeoutInterval]
    /\ result \in [Client -> Result]
    /\ got \in [Client -> Seq(Seq(Byte))]
    /\ ret \in [Client -> {"none", "num", "EIO"}]
    /\ control \in [enable : BOOLEAN, reset : BOOLEAN, go : BOOLEAN]
    /\ pins \in BOOLEAN
    /\ trans \in [rd : BOOLEAN, count : Index]
    /\ data \in [Index -> Byte]
    /\ index \in Index
    /\ status \subseteq Flag
    /\ wire \in Seq(Msg)

Init ==
    /\ mutex = NoClient
    /\ pc = [c \in Client |-> "idle"]
    /\ msgs = [c \in Client |-> <<>>]
    /\ cur = [c \in Client |-> 1]
    /\ pos = [c \in Client |-> 0]
    /\ timeout = [c \in Client |-> 0]
    /\ result = [c \in Client |-> "SUCCEEDED"]
    /\ got = [c \in Client |-> <<>>]
    /\ ret = [c \in Client |-> "none"]
    /\ control = [enable |-> FALSE, reset |-> FALSE, go |-> FALSE]
    /\ pins = FALSE
    /\ trans = [rd |-> FALSE, count |-> 0]
    /\ data = [i \in Index |-> 0]
    /\ index = 0
    /\ status = {}
    /\ wire = <<>>

-----------------------------------------------------------------------------
Goto(c, to) == pc' = [pc EXCEPT ![c] = to]

CurMsg(c) == msgs[c][cur[c]]

(* The i2c core calls master_xfer.                                         *)
Call(c, m) ==
    /\ pc[c] = "idle"
    /\ Goto(c, "lock")
    /\ msgs' = [msgs EXCEPT ![c] = m]
    /\ UNCHANGED <<mutex, cur, pos, timeout, result, got, ret, hardware>>

Lock(c) ==
    /\ pc[c] = "lock"
    /\ mutex = NoClient
    /\ mutex' = c
    /\ Goto(c, "enable")
    /\ UNCHANGED <<msgs, cur, pos, timeout, result, got, ret, hardware>>

Enable(c) ==
    /\ pc[c] = "enable"
    /\ control' = [control EXCEPT !.enable = TRUE]
    /\ Goto(c, "pins")
    /\ UNCHANGED <<mutex, msgs, cur, pos, timeout, result, got, ret,
                   pins, trans, data, index, status, wire>>

SelectPins(c) ==
    /\ pc[c] = "pins"
    /\ pins' = TRUE
    /\ Goto(c, "message")
    /\ UNCHANGED <<mutex, msgs, cur, pos, timeout, result, got, ret,
                   control, trans, data, index, status, wire>>

-----------------------------------------------------------------------------
(* process_transaction: the register of the transaction, where the length  *)
(* keeps the bits that GENERIC_I2C_COUNT has room for.                     *)
CountUnmasked(length) == length

Count(length) == length % BufferSize

SetTransaction(c) ==
    /\ pc[c] = "message"
    /\ trans' = [rd |-> CurMsg(c).rd, count |-> Count(Len(CurMsg(c).buf))]
    /\ Goto(c, "address")
    /\ UNCHANGED <<mutex, msgs, cur, pos, timeout, result, got, ret,
                   control, pins, data, index, status, wire>>

(* (uint8_t) ((address << 1) | !write)                                     *)
AddressByte(m) == (2 * m.addr + (IF m.rd THEN 1 ELSE 0)) % ByteSize

(* A write of GENERIC_I2C_DATA goes to the entry at i and moves on.        *)
PutData(i, b) ==
    /\ data' = [data EXCEPT ![i] = b]
    /\ index' = (i + 1) % BufferSize

(* INDEX_WRITE puts the address at the start of the buffer.                *)
PutAddress(c) ==
    /\ pc[c] = "address"
    /\ PutData(0, AddressByte(CurMsg(c)))
    /\ pos' = [pos EXCEPT ![c] = 0]
    /\ Goto(c, IF CurMsg(c).rd \/ CurMsg(c).buf = <<>> THEN "go" ELSE "put")
    /\ UNCHANGED <<mutex, msgs, cur, timeout, result, got, ret,
                   control, pins, trans, status, wire>>

(* The bytes of a write follow; INDEX counts by itself.                    *)
PutByte(c) ==
    /\ pc[c] = "put"
    /\ PutData(index, CurMsg(c).buf[pos[c] + 1])
    /\ pos' = [pos EXCEPT ![c] = @ + 1]
    /\ Goto(c, IF pos[c] + 1 = Len(CurMsg(c).buf) THEN "go" ELSE "put")
    /\ UNCHANGED <<mutex, msgs, cur, timeout, result, got, ret,
                   control, pins, trans, status, wire>>

(* execute_transaction, and the start of poll_engine.                      *)
Go(c) ==
    /\ pc[c] = "go"
    /\ control' = [control EXCEPT !.go = TRUE]
    /\ timeout' = [timeout EXCEPT ![c] = TimeoutInterval]
    /\ Goto(c, "poll")
    /\ UNCHANGED <<mutex, msgs, cur, pos, result, got, ret,
                   pins, trans, data, index, status, wire>>

-----------------------------------------------------------------------------
GetChannelStatusIdleIsDone(flags) ==
    IF "BUSY" \in flags THEN "ENGINE_BUSY"
    ELSE IF flags = {} \/ flags = {"DONE"} THEN "SUCCEEDED"
    ELSE "FAILED"

(* get_channel_status: an engine with no flag at all has not started yet.  *)
GetChannelStatus(flags) ==
    IF "BUSY" \in flags \/ flags = {} THEN "ENGINE_BUSY"
    ELSE IF "STOPPED_ON_NACK" \in flags THEN "NO_RESPONSE"
    ELSE IF "TIMEOUT" \in flags THEN "TIMEOUT"
    ELSE IF "ABORTED" \in flags THEN "FAILED"
    ELSE IF "DONE" \in flags THEN "SUCCEEDED"
    ELSE IF "NACK" \in flags THEN "NO_RESPONSE"
    ELSE "SUCCEEDED"

CountDownStuck(t) == t

(* while (timeout--)                                                       *)
CountDown(t) == t - 1

(* The body of poll_engine's loop; udelay lets the engine go on.           *)
Poll(c) ==
    /\ pc[c] = "poll"
    /\ LET r == GetChannelStatus(status)
       IN  /\ result' = [result EXCEPT ![c] = r]
           /\ IF r # "ENGINE_BUSY"
              THEN Goto(c, "ack") /\ UNCHANGED timeout
              ELSE /\ timeout' = [timeout EXCEPT ![c] = CountDown(@)]
                   /\ Goto(c, IF timeout[c] = 0 THEN "ack" ELSE "poll")
    /\ UNCHANGED <<mutex, msgs, cur, pos, got, ret, hardware>>

(* What poll_engine makes of it: timeout != 0 ? result : TIMEOUT           *)
OperationResult(c) == IF timeout[c] # 0 THEN result[c] ELSE "TIMEOUT"

ClearAckForgotten == UNCHANGED status

(* clear_ack: the engine drops its flags, but stays busy if it is.         *)
ClearAck == status' = status \cap {"BUSY"}

AfterFailureContinue == "next"

(* The loop over the messages breaks.                                      *)
AfterFailure == "unpin"

(* The end of poll_engine, and what submit_payload does with its result.   *)
Ack(c) ==
    /\ pc[c] = "ack"
    /\ ClearAck
    /\ LET ok == OperationResult(c) = "SUCCEEDED"
       IN  /\ Goto(c, CASE ok /\ CurMsg(c).rd -> "reply"
                        [] ok /\ ~ CurMsg(c).rd -> "next"
                        [] ~ ok -> AfterFailure)
           /\ ret' = [ret EXCEPT ![c] = IF ok THEN @ ELSE "EIO"]
    /\ UNCHANGED <<mutex, msgs, cur, pos, timeout, result, got,
                   control, pins, trans, data, index, wire>>

(* process_reply sets the index past the address ...                       *)
Reply(c) ==
    /\ pc[c] = "reply"
    /\ index' = 1 % BufferSize
    /\ pos' = [pos EXCEPT ![c] = 0]
    /\ got' = [got EXCEPT ![c] = Append(@, <<>>)]
    /\ Goto(c, IF CurMsg(c).buf = <<>> THEN "replyack" ELSE "take")
    /\ UNCHANGED <<mutex, msgs, cur, timeout, result, ret,
                   control, pins, trans, data, status, wire>>

(* ... and reads the bytes, which moves the index on ...                   *)
TakeByte(c) ==
    /\ pc[c] = "take"
    /\ got' = [got EXCEPT ![c] = Front(@) \o <<Append(Last(@), data[index])>>]
    /\ index' = (index + 1) % BufferSize
    /\ pos' = [pos EXCEPT ![c] = @ + 1]
    /\ Goto(c, IF pos[c] + 1 = Len(CurMsg(c).buf) THEN "replyack" ELSE "take")
    /\ UNCHANGED <<mutex, msgs, cur, timeout, result, ret,
                   control, pins, trans, data, status, wire>>

(* ... and acknowledges once more.                                         *)
ReplyAck(c) ==
    /\ pc[c] = "replyack"
    /\ ClearAck
    /\ Goto(c, "next")
    /\ UNCHANGED <<mutex, msgs, cur, pos, timeout, result, got, ret,
                   control, pins, trans, data, index, wire>>

(* for (i = 0; i < num; i++)                                               *)
NextMessage(c) ==
    /\ pc[c] = "next"
    /\ IF cur[c] < Len(msgs[c])
       THEN /\ cur' = [cur EXCEPT ![c] = @ + 1]
            /\ Goto(c, "message")
            /\ UNCHANGED ret
       ELSE /\ Goto(c, "unpin")
            /\ ret' = [ret EXCEPT ![c] = IF @ = "EIO" THEN @ ELSE "num"]
            /\ UNCHANGED cur
    /\ UNCHANGED <<mutex, msgs, pos, timeout, result, got, hardware>>

-----------------------------------------------------------------------------
(* close_engine                                                            *)
DeselectPins(c) ==
    /\ pc[c] = "unpin"
    /\ pins' = FALSE
    /\ Goto(c, "reset")
    /\ UNCHANGED <<mutex, msgs, cur, pos, timeout, result, got, ret,
                   control, trans, data, index, status, wire>>

ResetOff == UNCHANGED status /\ control' = [control EXCEPT !.enable = FALSE]

(* ENABLE = 0 and SOFT_RESET = 1: the engine forgets what it was doing.    *)
ResetOn ==
    /\ control' = [enable |-> FALSE, reset |-> TRUE, go |-> FALSE]
    /\ status' = {}

Reset(c) ==
    /\ pc[c] = "reset"
    /\ ResetOn
    /\ Goto(c, "clear")
    /\ UNCHANGED <<mutex, msgs, cur, pos, timeout, result, got, ret,
                   pins, trans, data, index, wire>>

ClearReset(c) ==
    /\ pc[c] = "clear"
    /\ control' = [control EXCEPT !.reset = FALSE]
    /\ Goto(c, "unlock")
    /\ UNCHANGED <<mutex, msgs, cur, pos, timeout, result, got, ret,
                   pins, trans, data, index, status, wire>>

(* mutex_unlock, and the return of xfer; its locals are gone.              *)
Unlock(c) ==
    /\ pc[c] = "unlock"
    /\ mutex' = NoClient
    /\ Goto(c, "idle")
    /\ msgs' = [msgs EXCEPT ![c] = <<>>]
    /\ cur' = [cur EXCEPT ![c] = 1]
    /\ pos' = [pos EXCEPT ![c] = 0]
    /\ timeout' = [timeout EXCEPT ![c] = 0]
    /\ result' = [result EXCEPT ![c] = "SUCCEEDED"]
    /\ got' = [got EXCEPT ![c] = <<>>]
    /\ ret' = [ret EXCEPT ![c] = "none"]
    /\ wire' = <<>>
    /\ UNCHANGED <<control, pins, trans, data, index, status>>

-----------------------------------------------------------------------------
(* The engine.  It starts some time after GO is written.                   *)
EngineStarts ==
    /\ control.go
    /\ control.enable
    /\ control' = [control EXCEPT !.go = FALSE]
    /\ status' = {"BUSY"}
    /\ UNCHANGED <<software, pins, trans, data, index, wire>>

(* The transaction that its registers describe: the first entry of the     *)
(* buffer is the address byte, COUNT bytes follow.                         *)
WireAddr == data[0] \div 2
WireBuf == [i \in 1 .. trans.count |-> data[i]]

(* The slave takes the bytes, or fills the buffer with its own.            *)
EngineSucceeds ==
    /\ status = {"BUSY"}
    /\ pins
    /\ WireAddr \in Present
    /\ status' = {"DONE"}
    /\ \E filled \in [1 .. trans.count -> Byte] :
         IF data[0] % 2 = 1
         THEN /\ data' = [i \in Index |-> IF i \in DOMAIN filled THEN filled[i]
                                          ELSE data[i]]
              /\ wire' = Append(wire, [addr |-> WireAddr, rd |-> TRUE, buf |-> filled])
         ELSE /\ filled = WireBuf
              /\ wire' = Append(wire, [addr |-> WireAddr, rd |-> FALSE, buf |-> filled])
              /\ UNCHANGED data
    /\ UNCHANGED <<software, control, pins, trans, index>>

(* Nobody answers, or the bus fails.                                       *)
EngineFails ==
    /\ status = {"BUSY"}
    /\ status' \in {{f, "DONE"} : f \in {"STOPPED_ON_NACK", "TIMEOUT", "ABORTED"}}
    /\ UNCHANGED <<software, control, pins, trans, data, index, wire>>

Engine == EngineStarts \/ EngineSucceeds \/ EngineFails

Step(c) ==
    \/ Lock(c) \/ Enable(c) \/ SelectPins(c)
    \/ SetTransaction(c) \/ PutAddress(c) \/ PutByte(c) \/ Go(c)
    \/ Poll(c) \/ Ack(c)
    \/ Reply(c) \/ TakeByte(c) \/ ReplyAck(c)
    \/ NextMessage(c)
    \/ DeselectPins(c) \/ Reset(c) \/ ClearReset(c) \/ Unlock(c)

Next ==
    \/ Engine
    \/ \E c \in Client : Step(c) \/ \E m \in Request : Call(c, m)

Spec == Init /\ [][Next]_vars

(* A client's own steps happen, and the mutex is given to its waiters in   *)
(* turn.  Of the engine nothing is assumed: it may hang for ever.          *)
Fairness == \A c \in Client : WF_vars(Step(c)) /\ SF_vars(Lock(c))

FairSpec == Spec /\ Fairness

-----------------------------------------------------------------------------
(* While nobody holds the mutex the engine is at rest, whatever became of  *)
(* the last transfer: disabled, out of reset, off its pins, nothing        *)
(* started and no flag left (close_engine is on every path of xfer).       *)
RestWhenFree ==
    mutex = NoClient =>
        /\ control = [enable |-> FALSE, reset |-> FALSE, go |-> FALSE]
        /\ ~ pins
        /\ status = {}

(* A client writes GO only to an engine that has nothing going on and no   *)
(* flag of an earlier transaction left that a poll could take for its own. *)
CleanStart ==
    [][control'.go /\ ~ control.go =>
          /\ status = {}
          /\ control.enable /\ ~ control.reset /\ pins]_vars

Fits(m) == \A i \in DOMAIN m : Len(m[i].buf) < BufferSize

SameMsg(w, m) ==
    /\ w.addr = m.addr /\ w.rd = m.rd
    /\ Len(w.buf) = Len(m.buf)
    /\ m.rd \/ w.buf = m.buf

Performed(c, n) ==
    /\ Len(wire) = n
    /\ \A i \in 1 .. n : SameMsg(wire[i], msgs[c][i])

Returning(c) == pc[c] \in {"unpin", "reset", "clear", "unlock"}

(* The adapter: its transactions are the messages.  Of those that do not   *)
(* fit nothing is promised but that they are told from the others.  From   *)
(* the reset of the engine on nothing more is done for a transfer.         *)
PlanOf(m) == [i \in DOMAIN m |-> [msg |-> m[i], fits |-> Fits(m)]]

IsDone(w, a) == a.fits => SameMsg(w, a.msg)

(* The reads among the first n; the bytes of each are one reply.           *)
Reads(w, n) == Cardinality({k \in 1 .. n : w[k].rd})

Has(g, w, n) ==
    /\ Len(g) = Reads(w, n)
    /\ \A i \in 1 .. n : w[i].rd => g[Reads(w, i)] = w[i].buf

IsReply(g, w, m) == Fits(m) => Has(g, w, Len(w))

Answered(c) == pc[c] \in {"clear", "unlock"}

Answers == [c \in Client |-> IF Answered(c) THEN ret[c] ELSE "none"]

Replies == [c \in Client |-> IF Answered(c) /\ ret[c] = "num" THEN got[c] ELSE <<>>]

Adapter == INSTANCE I2cAdapter WITH
    Refused <- {},
    Plan <- PlanOf,
    call <- msgs,
    owner <- mutex,
    done <- wire,
    answer <- Answers,
    reply <- Replies

(* Clients see an i2c adapter (aura_gpu_i2c_xfer).  A transfer that        *)
(* returns num, of messages that the buffer has room for, had each of them *)
(* done once, in order, to the address, in the direction and with the      *)
(* bytes that it names, and its reads have what the slaves sent for them,  *)
(* not bytes left over in the engine; one that fails at a message had      *)
(* those before it done, perhaps that one, and no later one.               *)
Implements == Adapter!Spec

(* Every transfer returns, even one whose engine hangs.                    *)
XferReturns == \A c \in Client : pc[c] # "idle" ~> pc[c] = "idle"

(* "wait until transaction proceed ... update transaction status"          *)
(* (aura-gpu-i2c.c:494, 497): a transaction that get_channel_status has    *)
(* seen succeed is reported as one.                                        *)
SeenIsReported == \A c \in Client :
    pc[c] = "ack" /\ result[c] = "SUCCEEDED" => OperationResult(c) = "SUCCEEDED"

(* "Byte count for the transaction" (aura-gpu-i2c.c:250): what is          *)
(* transferred is the length of the message, whatever the length.          *)
CountIsLength == \A c \in Client :
    (Returning(c) /\ ret[c] = "num") => Performed(c, Len(msgs[c]))
=============================================================================
