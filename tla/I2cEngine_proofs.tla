--------------------------- MODULE I2cEngine_proofs ---------------------------
(***************************************************************************)
(* Proofs about I2cEngine for any number of clients, any messages and any  *)
(* size of the engine's buffer: the state of the engine is known from how  *)
(* far the owner of the context's mutex is, whatever the engine does and   *)
(* whenever it does it; and it implements I2cAdapter.  What a transfer has *)
(* done so far, what the engine's buffer holds for its next message and    *)
(* which bytes the client has been given are known from the place of the   *)
(* mutex's owner.                                                          *)
(***************************************************************************)
EXTENDS I2cEngine, SequenceTheorems, FiniteSetTheorems, TLAPS

(* A client that is past mutex_lock owns the mutex, until it unlocks.      *)
Owner == \A c \in Client : mutex = c <=> pc[c] \notin {"idle", "lock"}

(* Where each client is in its messages and their bytes.                   *)
Place(c) ==
    /\ pc[c] = "idle" => cur[c] = 1
    /\ pc[c] # "idle" => msgs[c] \in Request /\ cur[c] \in 1 .. Len(msgs[c])
    /\ pc[c] = "put" => pos[c] < Len(CurMsg(c).buf)
    /\ pc[c] = "take" => Len(got[c]) > 0
    /\ pc[c] = "poll" => timeout[c] >= 0

(* The engine at rest, ready, and with a transaction asked for, under way  *)
(* or ended.                                                               *)
Rest ==
    /\ control = [enable |-> FALSE, reset |-> FALSE, go |-> FALSE]
    /\ ~ pins
    /\ status = {}

Ready == control.enable /\ ~ control.reset /\ ~ control.go /\ status = {}

Reached == {{}, {"BUSY"}, {"DONE"}, {"STOPPED_ON_NACK", "DONE"},
            {"TIMEOUT", "DONE"}, {"ABORTED", "DONE"}}

Started ==
    /\ control.enable /\ ~ control.reset
    /\ status \in Reached
    /\ control.go => status = {}

(* What the engine's state is while c owns it.                             *)
State(c) ==
    /\ pc[c] \in {"enable", "unlock"} => Rest
    /\ pc[c] = "pins" => Ready /\ ~ pins
    /\ pc[c] \in {"message", "address", "put", "go", "reply", "take",
                  "replyack", "next"} => Ready /\ pins
    /\ pc[c] \in {"poll", "ack", "unpin"} => Started /\ pins
    /\ pc[c] = "ack" /\ result[c] = "SUCCEEDED" => status = {"DONE"}
    /\ pc[c] = "reset" => Started /\ ~ pins
    /\ pc[c] = "clear" =>
          /\ control = [enable |-> FALSE, reset |-> TRUE, go |-> FALSE]
          /\ ~ pins
          /\ status = {}

IInv ==
    /\ TypeOK /\ Owner /\ RestWhenFree
    /\ \A c \in Client : Place(c) /\ State(c)

Busy(c) == pc[c] \notin {"idle", "lock"}

-----------------------------------------------------------------------------
(* Nobody else is past the mutex.                                          *)
LEMMA Others ==
    ASSUME TypeOK, Owner, NEW c \in Client, Busy(c)
    PROVE  /\ mutex = c
           /\ \A u \in Client : u # c => pc[u] \in {"idle", "lock"}
  BY DEF Owner, Busy, TypeOK

(* The message that a client is at.                                        *)
LEMMA CurMsgType ==
    ASSUME TypeOK, NEW c \in Client, Place(c), pc[c] # "idle"
    PROVE  /\ CurMsg(c) \in Msg
           /\ CurMsg(c).addr \in Nat
           /\ CurMsg(c).buf \in Seq(Byte)
           /\ Len(CurMsg(c).buf) \in Nat
           /\ \A i \in 1 .. Len(CurMsg(c).buf) : CurMsg(c).buf[i] \in Byte
  <1>1. msgs[c] \in Seq(Msg) /\ cur[c] \in 1 .. Len(msgs[c])
    BY RequestAssumption DEF Place
  <1>2. msgs[c][cur[c]] \in Msg
    BY <1>1, ElementOfSeq
  <1>3. CurMsg(c) \in Msg /\ CurMsg(c).addr \in Nat /\ CurMsg(c).buf \in Seq(Byte)
    BY <1>2 DEF CurMsg, Msg
  <1> QED
    BY <1>3, LenProperties, ElementOfSeq

(* Sizes and remainders.                                                   *)
LEMMA Sizes ==
    /\ 0 \in Index /\ 1 % BufferSize \in Index
    /\ 0 \in Byte
    /\ \A i \in Index : i \in Nat /\ (i + 1) % BufferSize \in Index
    /\ \A k \in Nat : k % BufferSize \in Index /\ k % ByteSize \in Byte
  BY SizeAssumption DEF Index, Byte

(* A list of bytes of which the last is still being filled.                *)
LEMMA Filled ==
    ASSUME NEW S, NEW s \in Seq(Seq(S)), Len(s) > 0, NEW e \in S
    PROVE  /\ Front(s) \o <<Append(Last(s), e)>> \in Seq(Seq(S))
           /\ Len(Front(s) \o <<Append(Last(s), e)>>) > 0
  <1>1. Len(s) \in Nat /\ DOMAIN s = 1 .. Len(s)
    BY LenProperties
  <1>2. \A i \in 1 .. Len(s) : s[i] \in Seq(S)
    BY ElementOfSeq
  <1>3. Last(s) \in Seq(S)
    BY <1>1, <1>2 DEF Last
  <1>4. Front(s) \in Seq(Seq(S)) /\ Len(Front(s)) = Len(s) - 1
    <2>1. \A i \in 1 .. Len(s) - 1 : s[i] \in Seq(S)
      BY <1>1, <1>2
    <2> QED
      BY <1>1, <2>1, SubSeqProperties DEF Front
  <1>5. Append(Last(s), e) \in Seq(S)
    BY <1>3, AppendProperties
  <1> DEFINE a == Append(Last(s), e)
  <1> HIDE DEF a
  <1>6. <<a>> \in Seq(Seq(S)) /\ Len(<<a>>) = 1
    BY <1>5 DEF a
  <1>7. /\ Front(s) \o <<a>> \in Seq(Seq(S))
        /\ Len(Front(s) \o <<a>>) = Len(Front(s)) + Len(<<a>>)
    BY <1>4, <1>6, ConcatProperties
  <1> QED
    BY <1>1, <1>4, <1>6, <1>7 DEF a

-----------------------------------------------------------------------------
(* At first the engine is at rest and nobody transfers.                    *)
LEMMA InitIInv == Init => IInv
  <1> SUFFICES ASSUME Init PROVE IInv
    OBVIOUS
  <1>1. TypeOK
    <2>1. <<>> \in Seq(Seq(Byte)) /\ <<>> \in Seq(Msg)
      BY EmptySeq
    <2>2. got \in [Client -> Seq(Seq(Byte))] /\ wire \in Seq(Msg)
      BY <2>1 DEF Init
    <2>3. timeout \in [Client -> -1 .. TimeoutInterval]
      BY SizeAssumption DEF Init
    <2>4. data \in [Index -> Byte] /\ index \in Index
      BY Sizes DEF Init
    <2>5. trans \in [rd : BOOLEAN, count : Index]
      BY Sizes DEF Init
    <2> QED
      BY <2>2, <2>3, <2>4, <2>5 DEF Init, TypeOK, Pc, Result
  <1>2. Owner
    BY ClientAssumption DEF Init, Owner
  <1>3. RestWhenFree
    BY DEF Init, RestWhenFree
  <1>4. \A c \in Client : Place(c) /\ State(c)
    BY DEF Init, Place, State
  <1> QED
    BY <1>1, <1>2, <1>3, <1>4 DEF IInv

(* The engine's steps keep all types, and touch nothing of the software.   *)
LEMMA EngineType ==
    ASSUME TypeOK, Engine
    PROVE  TypeOK'
  <1>1. CASE EngineStarts
    BY <1>1 DEF TypeOK, EngineStarts, software, Flag
  <1>2. CASE EngineFails
    BY <1>2 DEF TypeOK, EngineFails, software, Flag
  <1>3. CASE EngineSucceeds
    <2>1. PICK filled \in [1 .. trans.count -> Byte] :
            IF data[0] % 2 = 1
            THEN /\ data' = [i \in Index |-> IF i \in DOMAIN filled THEN filled[i]
                                             ELSE data[i]]
                 /\ wire' = Append(wire, [addr |-> WireAddr, rd |-> TRUE, buf |-> filled])
            ELSE /\ filled = WireBuf
                 /\ wire' = Append(wire, [addr |-> WireAddr, rd |-> FALSE, buf |-> filled])
                 /\ UNCHANGED data
      BY <1>3 DEF EngineSucceeds
    <2>2. trans.count \in Nat
      BY Sizes DEF TypeOK
    <2>3. filled \in Seq(Byte)
      BY <2>2
    <2>4. WireAddr \in Nat
      <3>1. data[0] \in Nat
        BY Sizes DEF TypeOK, Byte
      <3> QED
        BY <3>1 DEF WireAddr
    <2>5. \A b \in BOOLEAN : [addr |-> WireAddr, rd |-> b, buf |-> filled] \in Msg
      BY <2>3, <2>4 DEF Msg
    <2>6. wire' \in Seq(Msg)
      <3>1. \A m \in Msg : Append(wire, m) \in Seq(Msg)
        BY AppendProperties DEF TypeOK
      <3> QED
        BY <2>1, <2>5, <3>1
    <2>7. data' \in [Index -> Byte]
      BY <2>1 DEF TypeOK
    <2>8. status' \subseteq Flag
      BY <1>3 DEF EngineSucceeds, Flag
    <2> QED
      BY <1>3, <2>6, <2>7, <2>8 DEF TypeOK, EngineSucceeds, software
  <1> QED
    BY <1>1, <1>2, <1>3 DEF Engine

(* Only a started engine takes a step, and it stays one.                   *)
LEMMA EngineKeeps ==
    ASSUME IInv, Engine
    PROVE  IInv'
  <1>1. TypeOK /\ Owner /\ RestWhenFree /\ \A c \in Client : Place(c) /\ State(c)
    BY DEF IInv
  <1>2. TypeOK' /\ UNCHANGED software /\ UNCHANGED pins
    BY <1>1, EngineType DEF Engine, EngineStarts, EngineSucceeds, EngineFails
  <1>3. UNCHANGED <<mutex, pc, msgs, cur, pos, timeout, result, got, ret>>
    BY <1>2 DEF software
  <1>4. control.go \/ status = {"BUSY"}
    BY DEF Engine, EngineStarts, EngineSucceeds, EngineFails
  <1>5. mutex # NoClient
    BY <1>1, <1>4 DEF RestWhenFree
  <1>6. Started => Started'
    <2>1. CASE EngineStarts
      <3>1. /\ ~ control'.go /\ control'.enable = control.enable
            /\ control'.reset = control.reset /\ status' = {"BUSY"}
        BY <1>1, <2>1 DEF EngineStarts, TypeOK
      <3> QED
        BY <3>1 DEF Started, Reached
    <2>2. CASE EngineSucceeds \/ EngineFails
      <3>1. UNCHANGED control /\ status = {"BUSY"} /\ status' \in Reached
        BY <2>2 DEF EngineSucceeds, EngineFails, Reached
      <3> QED
        BY <3>1 DEF Started
    <2> QED
      BY <2>1, <2>2 DEF Engine
  <1>7. ASSUME NEW c \in Client
        PROVE  State(c)'
    <2>1. State(c)
      BY <1>1
    <2>2. pc[c] \notin {"enable", "unlock", "pins", "message", "address", "put",
                        "go", "reply", "take", "replyack", "next", "clear"}
      BY <1>4, <2>1 DEF State, Rest, Ready
    <2>3. ~ (pc[c] = "ack" /\ result[c] = "SUCCEEDED")
      BY <1>4, <2>1 DEF State, Started
    <2> QED
      BY <1>2, <1>3, <1>6, <2>1, <2>2, <2>3 DEF State
  <1>8. \A c \in Client : Place(c)'
    BY <1>1, <1>3 DEF Place, CurMsg
  <1>9. Owner' /\ RestWhenFree'
    BY <1>1, <1>3, <1>5 DEF Owner, RestWhenFree
  <1> QED
    BY <1>2, <1>7, <1>8, <1>9 DEF IInv

-----------------------------------------------------------------------------
(* The steps of a client keep all types.                                   *)
LEMMA StepType ==
    ASSUME TypeOK, NEW c \in Client, Place(c), Step(c)
    PROVE  TypeOK'
  <1> USE DEF Goto, Pc, hardware
  <1>1. CASE Lock(c)
    BY <1>1 DEF TypeOK, Lock
  <1>2. CASE Enable(c)
    BY <1>2 DEF TypeOK, Enable
  <1>3. CASE SelectPins(c)
    BY <1>3 DEF TypeOK, SelectPins
  <1>4. CASE SetTransaction(c)
    <2>1. CurMsg(c) \in Msg /\ Len(CurMsg(c).buf) \in Nat
      BY <1>4, CurMsgType DEF SetTransaction
    <2>2. Count(Len(CurMsg(c).buf)) \in Index /\ CurMsg(c).rd \in BOOLEAN
      BY <2>1, Sizes DEF Count, Msg
    <2> QED
      BY <1>4, <2>2 DEF TypeOK, SetTransaction
  <1>5. CASE PutAddress(c)
    <2>1. CurMsg(c) \in Msg
      BY <1>5, CurMsgType DEF PutAddress
    <2>2. 2 * CurMsg(c).addr + (IF CurMsg(c).rd THEN 1 ELSE 0) \in Nat
      BY <2>1 DEF Msg
    <2>3. AddressByte(CurMsg(c)) \in Byte
      BY <2>2, Sizes DEF AddressByte
    <2>4. data' \in [Index -> Byte] /\ index' \in Index
      BY <1>5, <2>3, Sizes DEF TypeOK, PutAddress, PutData
    <2> QED
      BY <1>5, <2>4 DEF TypeOK, PutAddress
  <1>6. CASE PutByte(c)
    <2>1. pos[c] + 1 \in 1 .. Len(CurMsg(c).buf)
      BY <1>6, CurMsgType DEF PutByte, Place, TypeOK
    <2>2. CurMsg(c).buf[pos[c] + 1] \in Byte
      BY <1>6, <2>1, CurMsgType DEF PutByte
    <2>3. data' \in [Index -> Byte] /\ index' \in Index
      BY <1>6, <2>2, Sizes DEF TypeOK, PutByte, PutData
    <2> QED
      BY <1>6, <2>3 DEF TypeOK, PutByte
  <1>7. CASE Go(c)
    <2>1. TimeoutInterval \in -1 .. TimeoutInterval
      BY SizeAssumption
    <2> QED
      BY <1>7, <2>1 DEF TypeOK, Go
  <1>8. CASE Poll(c)
    <2>1. GetChannelStatus(status) \in Result
      BY DEF GetChannelStatus, Result
    <2>2. timeout[c] - 1 \in -1 .. TimeoutInterval
      BY <1>8, SizeAssumption DEF Poll, Place, TypeOK
    <2>3. pc' \in [Client -> Pc]
      BY <1>8 DEF TypeOK, Poll
    <2>4. timeout' \in [Client -> -1 .. TimeoutInterval]
      BY <1>8, <2>2 DEF TypeOK, Poll, CountDown
    <2>5. result' \in [Client -> Result]
      BY <1>8, <2>1 DEF TypeOK, Poll
    <2> QED
      BY <1>8, <2>3, <2>4, <2>5 DEF TypeOK, Poll
  <1>9. CASE Ack(c)
    BY <1>9 DEF TypeOK, Ack, ClearAck, AfterFailure
  <1>10. CASE Reply(c)
    <2>1. Append(got[c], <<>>) \in Seq(Seq(Byte))
      <3>1. <<>> \in Seq(Byte)
        BY EmptySeq
      <3> QED
        BY <3>1, AppendProperties DEF TypeOK
    <2> QED
      BY <1>10, <2>1, Sizes DEF TypeOK, Reply
  <1>11. CASE TakeByte(c)
    <2>1. Front(got[c]) \o <<Append(Last(got[c]), data[index])>> \in Seq(Seq(Byte))
      BY <1>11, Filled DEF TypeOK, Place, TakeByte
    <2>2. got' \in [Client -> Seq(Seq(Byte))]
      BY <1>11, <2>1 DEF TypeOK, TakeByte
    <2>3. pc' \in [Client -> Pc] /\ pos' \in [Client -> Nat]
      BY <1>11 DEF TypeOK, TakeByte
    <2>4. index' \in Index
      BY <1>11, Sizes DEF TypeOK, TakeByte
    <2> QED
      BY <1>11, <2>2, <2>3, <2>4 DEF TypeOK, TakeByte
  <1>12. CASE ReplyAck(c)
    BY <1>12 DEF TypeOK, ReplyAck, ClearAck
  <1>13. CASE NextMessage(c)
    <2>1. pc' \in [Client -> Pc]
      <3>1. pc \in [Client -> Pc] /\ "message" \in Pc /\ "unpin" \in Pc
        BY DEF TypeOK
      <3>2. \/ pc' = [pc EXCEPT ![c] = "message"]
            \/ pc' = [pc EXCEPT ![c] = "unpin"]
        BY <1>13 DEF NextMessage
      <3> QED
        BY <3>1, <3>2
    <2>2. cur' \in [Client -> Nat]
      <3>1. cur[c] + 1 \in Nat /\ cur \in [Client -> Nat]
        BY DEF TypeOK
      <3>2. cur' = cur \/ cur' = [cur EXCEPT ![c] = cur[c] + 1]
        BY <1>13 DEF NextMessage
      <3> QED
        BY <3>1, <3>2
    <2>3. ret' \in [Client -> {"none", "num", "EIO"}]
      BY <1>13 DEF TypeOK, NextMessage
    <2> QED
      BY <1>13, <2>1, <2>2, <2>3 DEF TypeOK, NextMessage
  <1>14. CASE DeselectPins(c)
    BY <1>14 DEF TypeOK, DeselectPins
  <1>15. CASE Reset(c)
    BY <1>15 DEF TypeOK, Reset, ResetOn
  <1>16. CASE ClearReset(c)
    BY <1>16 DEF TypeOK, ClearReset
  <1>17. CASE Unlock(c)
    <2>1. <<>> \in Seq(Seq(Byte)) /\ <<>> \in Seq(Msg)
      BY EmptySeq
    <2> QED
      BY <1>17, <2>1, SizeAssumption DEF TypeOK, Unlock, Result
  <1> QED
    BY <1>1, <1>2, <1>3, <1>4, <1>5, <1>6, <1>7, <1>8, <1>9, <1>10, <1>11, <1>12,
       <1>13, <1>14, <1>15, <1>16, <1>17 DEF Step

(* The places of c, and that the others are where they were.               *)
LEMMA StepPlace ==
    ASSUME TypeOK, NEW c \in Client, Place(c), Step(c)
    PROVE  Place(c)'
  <1> USE DEF Goto, Place, CurMsg, hardware
  <1>1. pc'[c] = "idle" => Unlock(c)
    BY DEF Step, Lock, Enable, SelectPins, SetTransaction, PutAddress, PutByte, Go,
           Poll, Ack, Reply, TakeByte, ReplyAck, NextMessage, DeselectPins, Reset,
           ClearReset, TypeOK, AfterFailure
  <1>2. CASE Unlock(c)
    BY <1>2 DEF Unlock, TypeOK
  <1>3. CASE PutAddress(c)
    <2>1. CurMsg(c).buf # <<>> => Len(CurMsg(c).buf) > 0
      BY <1>3, CurMsgType, EmptySeq DEF PutAddress
    <2> QED
      BY <1>3, <2>1 DEF PutAddress, TypeOK
  <1>4. CASE PutByte(c)
    BY <1>4, CurMsgType DEF PutByte, TypeOK
  <1>5. CASE Go(c)
    BY <1>5, SizeAssumption DEF Go, TypeOK
  <1>6. CASE Poll(c)
    BY <1>6, SizeAssumption DEF Poll, TypeOK, CountDown
  <1>7. CASE Reply(c)
    <2>1. Len(Append(got[c], <<>>)) > 0
      <3>1. got[c] \in Seq(Seq(Byte)) /\ <<>> \in Seq(Byte)
        BY EmptySeq DEF TypeOK
      <3>2. Len(Append(got[c], <<>>)) = Len(got[c]) + 1 /\ Len(got[c]) \in Nat
        BY <3>1, AppendProperties, LenProperties
      <3> QED
        BY <3>2
    <2> QED
      BY <1>7, <2>1 DEF Reply, TypeOK
  <1>8. CASE TakeByte(c)
    <2>1. Len(Front(got[c]) \o <<Append(Last(got[c]), data[index])>>) > 0
      BY <1>8, Filled DEF TypeOK, TakeByte
    <2> QED
      BY <1>8, <2>1 DEF TakeByte, TypeOK
  <1>9. CASE NextMessage(c)
    BY <1>9 DEF NextMessage, TypeOK
  <1>10. CASE Lock(c) \/ Enable(c) \/ SelectPins(c) \/ SetTransaction(c) \/ Ack(c)
              \/ ReplyAck(c) \/ DeselectPins(c) \/ Reset(c) \/ ClearReset(c)
    BY <1>10 DEF Lock, Enable, SelectPins, SetTransaction, Ack, ReplyAck,
                 DeselectPins, Reset, ClearReset, TypeOK, AfterFailure
  <1> QED
    BY <1>2, <1>3, <1>4, <1>5, <1>6, <1>7, <1>8, <1>9, <1>10 DEF Step

(* The engine's state moves on with its owner.                             *)
LEMMA StepState ==
    ASSUME TypeOK, RestWhenFree, NEW c \in Client, Place(c), State(c), Step(c)
    PROVE  State(c)'
  <1> USE DEF Goto, State, hardware
  <1>1. CASE Lock(c)
    BY <1>1 DEF TypeOK, Lock, RestWhenFree, Rest
  <1>2. CASE Enable(c)
    BY <1>2 DEF TypeOK, Enable, Rest, Ready
  <1>3. CASE SelectPins(c)
    BY <1>3 DEF TypeOK, SelectPins, Ready
  <1>4. CASE SetTransaction(c) \/ PutAddress(c) \/ PutByte(c)
    BY <1>4 DEF TypeOK, SetTransaction, PutAddress, PutByte, Ready
  <1>5. CASE Go(c)
    BY <1>5 DEF TypeOK, Go, Ready, Started, Reached
  <1>6. CASE Poll(c)
    <2>1. Started => (GetChannelStatus(status) = "SUCCEEDED" => status = {"DONE"})
      BY DEF Started, Reached, GetChannelStatus
    <2>2. Started' <=> Started
      BY <1>6 DEF Poll, Started
    <2> QED
      BY <1>6, <2>1, <2>2 DEF TypeOK, Poll
  <1>7. CASE Ack(c)
    <2>1. Started /\ pins
      BY <1>7 DEF Ack
    <2>2. status' \in {{}, {"BUSY"}} /\ (status = {} => status' = {})
      BY <1>7, <2>1 DEF Ack, ClearAck, Started, Reached
    <2>3. Started' /\ pins'
      BY <1>7, <2>1, <2>2 DEF Ack, Started, Reached
    <2>4. CASE OperationResult(c) = "SUCCEEDED"
      <3>1. result[c] = "SUCCEEDED"
        BY <2>4 DEF OperationResult
      <3>2. status = {"DONE"} /\ ~ control.go
        BY <1>7, <2>1, <3>1 DEF Ack, Started
      <3>3. Ready' /\ pins'
        BY <1>7, <2>1, <3>2 DEF Ack, ClearAck, Started, Ready
      <3> QED
        BY <1>7, <2>4, <3>3 DEF TypeOK, Ack
    <2>5. CASE OperationResult(c) # "SUCCEEDED"
      BY <1>7, <2>3, <2>5 DEF TypeOK, Ack, AfterFailure
    <2> QED
      BY <2>4, <2>5
  <1>8. CASE Reply(c) \/ TakeByte(c)
    BY <1>8 DEF TypeOK, Reply, TakeByte, Ready
  <1>9. CASE ReplyAck(c)
    BY <1>9 DEF TypeOK, ReplyAck, ClearAck, Ready
  <1>10. CASE NextMessage(c)
    BY <1>10 DEF TypeOK, NextMessage, Ready, Started, Reached
  <1>11. CASE DeselectPins(c)
    BY <1>11 DEF TypeOK, DeselectPins, Started
  <1>12. CASE Reset(c)
    BY <1>12 DEF TypeOK, Reset, ResetOn
  <1>13. CASE ClearReset(c)
    <2>1. /\ control = [enable |-> FALSE, reset |-> TRUE, go |-> FALSE]
          /\ ~ pins /\ status = {}
      BY <1>13 DEF ClearReset
    <2>2. control' = [enable |-> FALSE, reset |-> FALSE, go |-> FALSE]
      BY <1>13, <2>1 DEF ClearReset
    <2>3. Rest'
      BY <1>13, <2>1, <2>2 DEF ClearReset, Rest
    <2> QED
      BY <1>13, <2>3 DEF TypeOK, ClearReset
  <1>14. CASE Unlock(c)
    BY <1>14 DEF TypeOK, Unlock
  <1> QED
    BY <1>1, <1>2, <1>3, <1>4, <1>5, <1>6, <1>7, <1>8, <1>9, <1>10, <1>11,
       <1>12, <1>13, <1>14 DEF Step

(* A client's step leaves the other clients where they are.                *)
LEMMA StepLocal ==
    ASSUME TypeOK, NEW c \in Client, Step(c), NEW u \in Client, u # c
    PROVE  /\ pc'[u] = pc[u] /\ msgs'[u] = msgs[u] /\ cur'[u] = cur[u]
           /\ pos'[u] = pos[u] /\ got'[u] = got[u] /\ timeout'[u] = timeout[u]
  BY DEF TypeOK, Goto, Step, Lock, Enable, SelectPins, SetTransaction, PutAddress,
         PutByte, Go, Poll, Ack, Reply, TakeByte, ReplyAck, NextMessage,
         DeselectPins, Reset, ClearReset, Unlock

(* The mutex changes hands when it is taken and when it is given back.     *)
LEMMA StepOwner ==
    ASSUME TypeOK, NEW c \in Client, Step(c)
    PROVE  \/ /\ pc[c] = "lock" /\ pc'[c] = "enable"
              /\ mutex = NoClient /\ mutex' = c
           \/ /\ pc[c] = "unlock" /\ pc'[c] = "idle"
              /\ mutex' = NoClient /\ UNCHANGED <<control, pins, status>>
           \/ Busy(c) /\ Busy(c)' /\ mutex' = mutex
  <1> USE DEF Goto, Busy, hardware
  <1>1. CASE Lock(c)
    BY <1>1 DEF TypeOK, Lock
  <1>2. CASE Unlock(c)
    BY <1>2 DEF TypeOK, Unlock
  <1>3. CASE Enable(c) \/ SelectPins(c) \/ SetTransaction(c) \/ PutAddress(c)
             \/ PutByte(c) \/ Go(c) \/ Poll(c)
    BY <1>3 DEF TypeOK, Enable, SelectPins, SetTransaction, PutAddress, PutByte, Go,
                Poll
  <1>4. CASE Ack(c) \/ Reply(c) \/ TakeByte(c) \/ ReplyAck(c) \/ NextMessage(c)
             \/ DeselectPins(c) \/ Reset(c) \/ ClearReset(c)
    BY <1>4 DEF TypeOK, Ack, Reply, TakeByte, ReplyAck, NextMessage, DeselectPins,
                Reset, ClearReset, AfterFailure
  <1> QED
    BY <1>1, <1>2, <1>3, <1>4 DEF Step

(* The steps of a transfer, and of the others while it goes on.            *)
LEMMA StepKeeps ==
    ASSUME IInv, NEW c \in Client, Step(c)
    PROVE  IInv'
  <1>1. TypeOK /\ Owner /\ RestWhenFree /\ \A u \in Client : Place(u) /\ State(u)
    BY DEF IInv
  <1>2. TypeOK'
    BY <1>1, StepType
  <1>3. Place(c)' /\ State(c)'
    BY <1>1, StepPlace, StepState
  <1>4. \A u \in Client : u # c => pc[u] \in {"idle", "lock"}
    <2>1. (pc[c] = "lock" /\ mutex = NoClient) \/ Busy(c)
      BY <1>1, StepOwner DEF Busy
    <2> QED
      BY <1>1, <2>1, Others, ClientAssumption DEF Owner, TypeOK
  <1>5. ASSUME NEW u \in Client, u # c
        PROVE  Place(u)' /\ State(u)'
    <2>1. /\ pc'[u] = pc[u] /\ msgs'[u] = msgs[u] /\ cur'[u] = cur[u]
          /\ pos'[u] = pos[u] /\ got'[u] = got[u] /\ timeout'[u] = timeout[u]
      BY <1>1, <1>5, StepLocal
    <2>2. pc[u] \in {"idle", "lock"}
      BY <1>4, <1>5
    <2> QED
      BY <1>1, <2>1, <2>2 DEF Place, State
  <1>6. Owner'
    <2>1. \A u \in Client : u # c => pc'[u] \in {"idle", "lock"}
      BY <1>1, <1>4, StepLocal
    <2> QED
      BY <1>1, <2>1, StepOwner, ClientAssumption DEF Owner, Busy
  <1>7. RestWhenFree'
    <2>1. CASE mutex' = c
      BY <2>1, ClientAssumption DEF RestWhenFree
    <2>2. CASE pc[c] = "unlock" /\ UNCHANGED <<control, pins, status>>
      BY <1>1, <2>2 DEF RestWhenFree, State, Rest
    <2>3. CASE Busy(c) /\ mutex' = mutex
      BY <1>1, <2>3, Others, ClientAssumption DEF RestWhenFree
    <2>4. \/ mutex' = c
          \/ pc[c] = "unlock" /\ UNCHANGED <<control, pins, status>>
          \/ Busy(c) /\ mutex' = mutex
      BY <1>1, StepOwner
    <2> QED
      BY <2>1, <2>2, <2>3, <2>4
  <1> QED
    BY <1>2, <1>3, <1>5, <1>6, <1>7 DEF IInv

(* A transfer that waits does nothing to the engine.                       *)
LEMMA CallKeeps ==
    ASSUME IInv, NEW c \in Client, NEW m \in Request, Call(c, m)
    PROVE  IInv'
  <1>1. TypeOK /\ Owner /\ RestWhenFree /\ \A u \in Client : Place(u) /\ State(u)
    BY DEF IInv
  <1>2. /\ pc[c] = "idle"
        /\ pc' = [pc EXCEPT ![c] = "lock"]
        /\ msgs' = [msgs EXCEPT ![c] = m]
        /\ UNCHANGED <<mutex, cur, pos, timeout, result, got, ret>>
        /\ UNCHANGED <<control, pins, trans, data, index, status, wire>>
    BY DEF Call, Goto, hardware
  <1>3. TypeOK'
    BY <1>1, <1>2 DEF TypeOK, Pc
  <1>4. Owner' /\ RestWhenFree'
    BY <1>1, <1>2 DEF TypeOK, Owner, RestWhenFree
  <1>5. Place(c)' /\ State(c)'
    <2>1. Len(m) \in Nat /\ Len(m) > 0
      BY RequestAssumption, LenProperties
    <2>2. 1 \in 1 .. Len(m)
      BY <2>1
    <2> QED
      BY <1>1, <1>2, <2>2 DEF TypeOK, Place, State
  <1>6. ASSUME NEW u \in Client, u # c
        PROVE  Place(u)' /\ State(u)'
    <2>1. pc'[u] = pc[u] /\ msgs'[u] = msgs[u]
      BY <1>1, <1>2, <1>6 DEF TypeOK
    <2> QED
      BY <1>1, <1>2, <2>1 DEF Place, State, CurMsg, Rest, Ready, Started
  <1> QED
    BY <1>3, <1>4, <1>5, <1>6 DEF IInv

(* Nothing changes when nothing happens.                                   *)
LEMMA StutterKeeps ==
    ASSUME IInv, UNCHANGED vars
    PROVE  IInv'
  BY DEF vars, software, hardware, IInv, TypeOK, Owner, RestWhenFree, Place,
         CurMsg, State, Rest, Ready, Started

(* The state of the engine is what the place of its owner says, in every   *)
(* interleaving of clients and engine.                                     *)
THEOREM Inductive == Spec => []IInv
  <1>1. ASSUME IInv, [Next]_vars
        PROVE  IInv'
    BY <1>1, EngineKeeps, StepKeeps, CallKeeps, StutterKeeps DEF Next
  <1> QED
    BY <1>1, InitIInv, PTL DEF Spec

(* In every reachable state each variable has its type: no access is       *)
(* beyond a message or the engine's buffer.                                *)
THEOREM TypeTheorem == Spec => []TypeOK
  <1>1. IInv => TypeOK
    BY DEF IInv
  <1> QED
    BY <1>1, Inductive, PTL

(* For any clients and messages, and whatever the engine did or still had  *)
(* to do when a transfer failed, it is at rest once the mutex is free.     *)
THEOREM RestWhenFreeTheorem == Spec => []RestWhenFree
  <1>1. IInv => RestWhenFree
    BY DEF IInv
  <1> QED
    BY <1>1, Inductive, PTL

(* No transaction is started on an engine that has something going on, or  *)
(* that has flags left which a poll could take for the new one's.          *)
THEOREM CleanStartTheorem == Spec => CleanStart
  <1>1. ASSUME IInv, [Next]_vars
        PROVE  [control'.go /\ ~ control.go =>
                  /\ status = {}
                  /\ control.enable /\ ~ control.reset /\ pins]_vars
    <2> SUFFICES ASSUME control'.go, ~ control.go
                 PROVE  /\ status = {}
                        /\ control.enable /\ ~ control.reset /\ pins
      OBVIOUS
    <2>1. control \in [enable : BOOLEAN, reset : BOOLEAN, go : BOOLEAN]
      BY <1>1 DEF IInv, TypeOK
    <2>2. ~ UNCHANGED control
      OBVIOUS
    <2>3. ASSUME Engine PROVE FALSE
      BY <2>1, <2>2, <2>3 DEF Engine, EngineStarts, EngineSucceeds, EngineFails
    <2>4. ASSUME NEW c \in Client, NEW m \in Request, Call(c, m) PROVE FALSE
      BY <2>2, <2>4 DEF Call, hardware
    <2>5. ASSUME NEW c \in Client, Step(c) PROVE Go(c)
      <3>1. CASE Enable(c) \/ Reset(c) \/ ClearReset(c)
        BY <2>1, <3>1 DEF Enable, Reset, ResetOn, ClearReset
      <3> QED
        BY <2>2, <2>5, <3>1 DEF Step, hardware, Lock, SelectPins, SetTransaction,
            PutAddress, PutByte, Poll, Ack, Reply, TakeByte, ReplyAck, NextMessage,
            DeselectPins, Unlock
    <2>6. Next
      BY <1>1, <2>2 DEF vars, hardware
    <2>7. PICK c \in Client : Go(c)
      BY <2>3, <2>4, <2>5, <2>6 DEF Next
    <2> QED
      BY <1>1, <2>7 DEF IInv, State, Go, Ready
  <1> QED
    BY <1>1, Inductive, PTL DEF Spec, CleanStart

-----------------------------------------------------------------------------
(* The refinement of I2cAdapter.                                         *)

(* The engine has a transaction that it may still carry out.               *)
Able == control.go \/ status = {"BUSY"}

(* How many of the messages have been done.                                *)
Tally(c) ==
    /\ pc[c] \in {"enable", "pins"} => wire = <<>> /\ cur[c] = 1 /\ got[c] = <<>>
    /\ pc[c] \in {"message", "address", "put", "go"} => Len(wire) = cur[c] - 1
    /\ pc[c] \in {"poll", "ack"} =>
          Len(wire) = IF status = {"DONE"} THEN cur[c] ELSE cur[c] - 1
    /\ pc[c] \in {"reply", "take", "replyack", "next"} => Len(wire) = cur[c]
    /\ pc[c] \in {"unpin", "reset"} =>
          /\ Len(wire) \in {cur[c] - 1, cur[c]}
          /\ Able => Len(wire) = cur[c] - 1
          /\ ret[c] = "num" => Len(wire) = cur[c] /\ cur[c] = Len(msgs[c])
    /\ ret[c] = "none" <=> pc[c] \notin {"unpin", "reset", "clear", "unlock"}

(* What the registers and the buffer hold of the message to be done.       *)
Loading(c) == pc[c] \in {"address", "put"}

Loaded(c) == pc[c] = "go" \/ (pc[c] \in {"poll", "ack", "unpin", "reset"} /\ Able)

Puts(c, n) == data[0] = AddressByte(CurMsg(c)) /\
    (~ CurMsg(c).rd => \A k \in 1 .. n : data[k] = CurMsg(c).buf[k])

Load(c) ==
    /\ Loading(c) \/ Loaded(c) => trans.count = Len(CurMsg(c).buf)
    /\ pc[c] = "put" => ~ CurMsg(c).rd /\ index = pos[c] + 1 /\ Puts(c, pos[c])
    /\ Loaded(c) => Puts(c, Len(CurMsg(c).buf))

(* What has become of the message that was done last.                      *)
Reported(c) == pc[c] \in {"poll", "ack"} /\ status = {"DONE"}

Moved(c) ==
    /\ Reported(c) \/ pc[c] \in {"reply", "take", "replyack", "next"} =>
          SameMsg(wire[cur[c]], CurMsg(c))
    /\ (Reported(c) \/ pc[c] \in {"reply", "take"}) /\ CurMsg(c).rd =>
          \A k \in 1 .. Len(CurMsg(c).buf) : data[k] = wire[cur[c]].buf[k]
    /\ pc[c] \in {"reply", "take", "replyack"} => CurMsg(c).rd
    /\ pc[c] = "take" =>
          /\ index = pos[c] + 1
          /\ pos[c] < Len(CurMsg(c).buf)
          /\ Len(Last(got[c])) = pos[c]
          /\ \A k \in 1 .. pos[c] : Last(got[c])[k] = wire[cur[c]].buf[k]

(* The replies that the client has so far.                                 *)
Replied(c) ==
    /\ pc[c] \in {"message", "address", "put", "go", "poll", "ack", "reply"} =>
          Has(got[c], wire, cur[c] - 1)
    /\ pc[c] = "take" => Has(Front(got[c]), wire, cur[c] - 1)
    /\ pc[c] \in {"replyack", "next"} => Has(got[c], wire, cur[c])
    /\ pc[c] \in {"unpin", "reset"} /\ ret[c] = "num" => Has(got[c], wire, cur[c])

Owned(c) ==
    /\ Tally(c)
    /\ Fits(msgs[c]) => Load(c) /\ Moved(c) /\ Replied(c)

(* A client that has not got the mutex.                                    *)
Outside(c) ==
    /\ cur[c] = 1 /\ got[c] = <<>> /\ ret[c] = "none"
    /\ pc[c] = "idle" <=> msgs[c] = <<>>

RInv ==
    /\ IInv
    /\ mutex = NoClient => wire = <<>>
    /\ \A c \in Client : IF mutex = c THEN Owned(c) ELSE Outside(c)

-----------------------------------------------------------------------------
(* A value that fits a field is what the field holds, and an address is    *)
(* read back from the byte that it was put into.                           *)
LEMMA Remains ==
    /\ \A k \in Nat : k < BufferSize => k % BufferSize = k
    /\ \A k \in Nat : k < ByteSize => k % ByteSize = k
  <1>1. \A n \in Nat \ {0} : \A k \in Nat : k < n => k % n = k
    OBVIOUS
  <1> QED
    BY <1>1, SizeAssumption

LEMMA Halves ==
    \A a \in Nat : /\ (2 * a) \div 2 = a /\ (2 * a + 1) \div 2 = a
                   /\ (2 * a) % 2 = 0 /\ (2 * a + 1) % 2 = 1
  OBVIOUS

-----------------------------------------------------------------------------
(* The number of reads among the first messages.                           *)
LEMMA ReadsType ==
    ASSUME NEW w \in Seq(Msg), NEW n \in 0 .. Len(w)
    PROVE  /\ IsFiniteSet({k \in 1 .. n : w[k].rd})
           /\ Reads(w, n) \in Nat
           /\ Reads(w, 0) = 0
  <1>1. n \in Nat
    BY LenProperties
  <1>2. IsFiniteSet(1 .. n)
    BY <1>1, FS_Interval
  <1>3. IsFiniteSet({k \in 1 .. n : w[k].rd})
    BY <1>2, FS_Subset
  <1>4. {k \in 1 .. 0 : w[k].rd} = {}
    OBVIOUS
  <1> QED
    BY <1>3, <1>4, FS_CardinalityType, FS_EmptySet DEF Reads

LEMMA ReadsNext ==
    ASSUME NEW w \in Seq(Msg), NEW n \in 1 .. Len(w)
    PROVE  Reads(w, n) = IF w[n].rd THEN Reads(w, n - 1) + 1 ELSE Reads(w, n - 1)
  <1> DEFINE S(m) == {k \in 1 .. m : w[k].rd}
  <1>1. n \in Nat /\ n - 1 \in 0 .. Len(w)
    BY LenProperties
  <1>2. IsFiniteSet(S(n - 1)) /\ n \notin S(n - 1)
    BY <1>1, ReadsType
  <1>3. S(n) = IF w[n].rd THEN S(n - 1) \cup {n} ELSE S(n - 1)
    BY <1>1
  <1> HIDE DEF S
  <1>4. Cardinality(S(n - 1) \cup {n}) = Cardinality(S(n - 1)) + 1
    BY <1>2, FS_AddElement
  <1>5. Reads(w, n) = Cardinality(S(n)) /\ Reads(w, n - 1) = Cardinality(S(n - 1))
    BY DEF Reads, S
  <1> QED
    BY <1>3, <1>4, <1>5

LEMMA ReadsWithin ==
    ASSUME NEW w \in Seq(Msg), NEW n \in 0 .. Len(w), NEW i \in 1 .. n, w[i].rd
    PROVE  Reads(w, i) \in 1 .. Reads(w, n)
  <1> DEFINE S == {k \in 1 .. i : w[k].rd}
             T == {k \in 1 .. n : w[k].rd}
  <1>1. n \in Nat /\ i \in Nat /\ i \in 0 .. Len(w)
    BY LenProperties
  <1>2. IsFiniteSet(S) /\ IsFiniteSet(T)
    BY <1>1, ReadsType
  <1>3. S \subseteq T /\ i \in S
    BY <1>1
  <1>4. Reads(w, i) = Cardinality(S) /\ Reads(w, n) = Cardinality(T)
    BY DEF Reads
  <1> HIDE DEF S, T
  <1>5. Cardinality(S) <= Cardinality(T) /\ Cardinality(S) # 0
    BY <1>2, <1>3, FS_Subset, FS_EmptySet
  <1>6. Cardinality(S) \in Nat /\ Cardinality(T) \in Nat
    BY <1>2, FS_CardinalityType
  <1> QED
    BY <1>4, <1>5, <1>6

(* A sequence to which one was appended, without its last.                 *)
LEMMA FrontOfAppend ==
    ASSUME NEW S, NEW s \in Seq(S), NEW e \in S
    PROVE  Front(Append(s, e)) = s
  <1> DEFINE t == Append(s, e)
             n == Len(s)
  <1>1. /\ t \in Seq(S) /\ Len(t) = n + 1 /\ n \in Nat
        /\ \A k \in 1 .. n : t[k] = s[k]
    BY AppendProperties, LenProperties
  <1> HIDE DEF t, n
  <1>2. n + 1 - 1 = n /\ n - 1 + 1 = n /\ \A k \in 1 .. n : 1 + k - 1 = k
    BY <1>1
  <1>3. \A k \in 1 .. n : t[k] \in S
    BY <1>1, ElementOfSeq
  <1>4. /\ SubSeq(t, 1, n) \in Seq(S) /\ Len(SubSeq(t, 1, n)) = n
        /\ \A k \in 1 .. n : SubSeq(t, 1, n)[k] = t[1 + k - 1]
    BY <1>1, <1>2, <1>3, SubSeqProperties
  <1>5. Front(t) = SubSeq(t, 1, n)
    BY <1>1, <1>2 DEF Front
  <1>6. SubSeq(t, 1, n) = s
    BY <1>1, <1>2, <1>4, SeqEqual DEF n
  <1> QED
    BY <1>5, <1>6 DEF t

(* What a client has of the first messages stays so when one is added.     *)
LEMMA HasAppend ==
    ASSUME NEW w \in Seq(Msg), NEW e \in Msg, NEW n \in 0 .. Len(w), NEW g
    PROVE  Has(g, Append(w, e), n) <=> Has(g, w, n)
  <1> DEFINE v == Append(w, e)
  <1>1. n \in Nat /\ Len(w) \in Nat
    BY LenProperties
  <1>2. \A k \in 1 .. n : v[k] = w[k]
    BY <1>1, AppendProperties
  <1> HIDE DEF v
  <1>3. \A i \in 0 .. n : {k \in 1 .. i : v[k].rd} = {k \in 1 .. i : w[k].rd}
    BY <1>1, <1>2
  <1>4. \A i \in 0 .. n : Reads(v, i) = Reads(w, i)
    BY <1>3 DEF Reads
  <1>5. Reads(v, n) = Reads(w, n)
    BY <1>1, <1>4
  <1>6. \A i \in 1 .. n : Reads(v, i) = Reads(w, i)
    BY <1>1, <1>4
  <1>7. Has(g, v, n) <=> Has(g, w, n)
    BY <1>2, <1>5, <1>6 DEF Has
  <1> QED
    BY <1>7 DEF v

LEMMA HasNothing ==
    ASSUME NEW w \in Seq(Msg)
    PROVE  Has(<<>>, w, 0)
  <1>1. 0 \in 0 .. Len(w)
    BY LenProperties
  <1>2. Reads(w, 0) = 0
    BY <1>1, ReadsType
  <1> QED
    BY <1>2 DEF Has

(* A write adds nothing to the replies ...                                 *)
LEMMA HasSkip ==
    ASSUME NEW w \in Seq(Msg), NEW n \in 1 .. Len(w), ~ w[n].rd, NEW g, Has(g, w, n - 1)
    PROVE  Has(g, w, n)
  <1>1. Reads(w, n) = Reads(w, n - 1)
    BY ReadsNext
  <1>2. \A i \in 1 .. n : w[i].rd => i \in 1 .. n - 1
    BY LenProperties
  <1> QED
    BY <1>1, <1>2 DEF Has

(* ... and a read the one that is last.                                    *)
LEMMA HasNext ==
    ASSUME NEW w \in Seq(Msg), NEW n \in 1 .. Len(w), w[n].rd,
           NEW g \in Seq(Seq(Byte)), Len(g) > 0,
           Has(Front(g), w, n - 1), Last(g) = w[n].buf
    PROVE  Has(g, w, n)
  <1>1. n \in Nat /\ n - 1 \in 0 .. Len(w) /\ Len(g) \in Nat
    BY LenProperties
  <1>2. /\ Len(Front(g)) = Len(g) - 1
        /\ \A k \in 1 .. Len(g) - 1 : Front(g)[k] = g[k]
    <2>1. \A k \in 1 .. Len(g) - 1 : g[k] \in Seq(Byte)
      BY <1>1, ElementOfSeq
    <2> DEFINE m == Len(g) - 1
    <2>2. m \in Nat /\ m - 1 + 1 = m
      BY <1>1
    <2> HIDE DEF m
    <2>3. /\ Len(SubSeq(g, 1, m)) = m
          /\ \A k \in 1 .. m : SubSeq(g, 1, m)[k] = g[1 + k - 1]
      BY <2>1, <2>2, SubSeqProperties DEF m
    <2>4. \A k \in 1 .. m : 1 + k - 1 = k
      BY <2>2
    <2> QED
      BY <2>3, <2>4 DEF Front, m
  <1>3. Len(g) = Reads(w, n - 1) + 1
    BY <1>1, <1>2 DEF Has
  <1>4. Reads(w, n) = Len(g)
    BY <1>3, ReadsNext
  <1>5. ASSUME NEW i \in 1 .. n, w[i].rd
        PROVE  g[Reads(w, i)] = w[i].buf
    <2>1. CASE i = n
      BY <1>4, <2>1 DEF Last
    <2>2. CASE i # n
      <3>1. i \in 1 .. n - 1
        BY <1>1, <2>2
      <3>2. Reads(w, i) \in 1 .. Reads(w, n - 1)
        BY <1>1, <1>5, <3>1, ReadsWithin
      <3>3. Reads(w, i) \in 1 .. Len(g) - 1
        <4>1. Reads(w, n - 1) \in Nat
          BY <1>1, ReadsType
        <4> QED
          BY <1>1, <1>3, <3>2, <4>1
      <3>4. Front(g)[Reads(w, i)] = w[i].buf
        BY <1>5, <3>1 DEF Has
      <3> QED
        BY <1>2, <3>3, <3>4
    <2> QED
      BY <2>1, <2>2
  <1> QED
    BY <1>4, <1>5 DEF Has

-----------------------------------------------------------------------------
(* What is known of the owner.                                             *)
LEMMA OfOwner ==
    ASSUME RInv, NEW c \in Client, mutex = c
    PROVE  /\ TypeOK /\ Place(c) /\ State(c) /\ Owned(c) /\ Tally(c)
           /\ pc[c] \notin {"idle", "lock"}
           /\ msgs[c] \in Request /\ cur[c] \in 1 .. Len(msgs[c]) /\ cur[c] \in Nat
           /\ Len(wire) \in Nat
           /\ Fits(msgs[c]) => Load(c) /\ Moved(c) /\ Replied(c)
  <1>1. TypeOK /\ Owner /\ Place(c) /\ State(c) /\ Owned(c)
    BY DEF RInv, IInv
  <1>2. pc[c] \notin {"idle", "lock"}
    BY <1>1 DEF Owner
  <1>3. Len(wire) \in Nat
    BY <1>1, LenProperties DEF TypeOK
  <1> QED
    BY <1>1, <1>2, <1>3 DEF Owned, Place, TypeOK

(* The message that it is at fits, if all of its messages do.              *)
LEMMA Fitting ==
    ASSUME RInv, NEW c \in Client, mutex = c
    PROVE  /\ CurMsg(c) \in Msg /\ CurMsg(c).rd \in BOOLEAN
           /\ CurMsg(c).addr \in Nat /\ 2 * CurMsg(c).addr + 1 < ByteSize
           /\ CurMsg(c).buf \in Seq(Byte) /\ Len(CurMsg(c).buf) \in Nat
           /\ Fits(msgs[c]) => Len(CurMsg(c).buf) < BufferSize
  <1>1. /\ TypeOK /\ Place(c) /\ pc[c] # "idle"
        /\ msgs[c] \in Request /\ cur[c] \in 1 .. Len(msgs[c])
    BY OfOwner
  <1>2. msgs[c] \in Seq(Msg) /\ DOMAIN msgs[c] = 1 .. Len(msgs[c])
    BY <1>1, RequestAssumption, LenProperties
  <1>3. /\ CurMsg(c) \in Msg /\ CurMsg(c).addr \in Nat
        /\ CurMsg(c).buf \in Seq(Byte) /\ Len(CurMsg(c).buf) \in Nat
    BY <1>1, CurMsgType
  <1>4. CurMsg(c).rd \in BOOLEAN
    BY <1>3 DEF Msg
  <1>5. 2 * CurMsg(c).addr + 1 < ByteSize
    BY <1>1, <1>2, AddressAssumption DEF CurMsg
  <1>6. Fits(msgs[c]) => Len(CurMsg(c).buf) < BufferSize
    BY <1>1, <1>2 DEF Fits, CurMsg
  <1> QED
    BY <1>3, <1>4, <1>5, <1>6

(* The address byte is the address and the direction.                      *)
LEMMA AddressKept ==
    ASSUME RInv, NEW c \in Client, mutex = c
    PROVE  AddressByte(CurMsg(c)) = 2 * CurMsg(c).addr + (IF CurMsg(c).rd THEN 1 ELSE 0)
  <1>1. /\ CurMsg(c).rd \in BOOLEAN /\ CurMsg(c).addr \in Nat
        /\ 2 * CurMsg(c).addr + 1 < ByteSize
    BY Fitting
  <1>2. ByteSize \in Nat
    BY SizeAssumption
  <1> DEFINE a == 2 * CurMsg(c).addr + (IF CurMsg(c).rd THEN 1 ELSE 0)
  <1>3. a \in Nat /\ a < ByteSize
    BY <1>1, <1>2
  <1> HIDE DEF a
  <1>4. a % ByteSize = a
    BY <1>3, Remains
  <1> QED
    BY <1>4 DEF AddressByte, a

-----------------------------------------------------------------------------
(* Opening the engine, and the message's first registers.                  *)
LEMMA EnableOwned ==
    ASSUME RInv, NEW c \in Client, mutex = c, Enable(c)
    PROVE  Owned(c)'
  <1>1. /\ pc[c] = "enable" /\ pc'[c] = "pins"
        /\ UNCHANGED <<cur, got, ret, msgs, wire>>
    BY OfOwner DEF Enable, Goto, TypeOK
  <1>2. Tally(c)'
    BY <1>1, OfOwner DEF Tally
  <1> QED
    BY <1>1, <1>2 DEF Owned, Load, Loading, Loaded, Moved, Reported, Replied

LEMMA PinsOwned ==
    ASSUME RInv, NEW c \in Client, mutex = c, SelectPins(c)
    PROVE  Owned(c)'
  <1>1. /\ pc[c] = "pins" /\ pc'[c] = "message"
        /\ UNCHANGED <<cur, got, ret, msgs, wire>>
    BY OfOwner DEF SelectPins, Goto, TypeOK
  <1>2. wire = <<>> /\ cur[c] = 1 /\ got[c] = <<>> /\ wire \in Seq(Msg)
    BY <1>1, OfOwner DEF Tally, TypeOK
  <1>3. Tally(c)'
    BY <1>1, <1>2, OfOwner DEF Tally
  <1>4. Has(got[c], wire, cur[c] - 1)
    <2>1. Has(<<>>, <<>>, 0)
      BY EmptySeq, HasNothing
    <2>2. cur[c] - 1 = 0
      BY <1>2
    <2> QED
      BY <1>2, <2>1, <2>2
  <1>5. Replied(c)'
    BY <1>1, <1>4 DEF Replied
  <1> QED
    BY <1>1, <1>3, <1>5 DEF Owned, Load, Loading, Loaded, Moved, Reported

LEMMA TransactionOwned ==
    ASSUME RInv, NEW c \in Client, mutex = c, SetTransaction(c)
    PROVE  Owned(c)'
  <1>1. /\ pc[c] = "message" /\ pc'[c] = "address"
        /\ trans'.count = Count(Len(CurMsg(c).buf))
        /\ UNCHANGED <<cur, got, ret, msgs, wire>>
    BY OfOwner DEF SetTransaction, Goto, TypeOK
  <1>2. Tally(c)'
    BY <1>1, OfOwner DEF Tally
  <1>3. Replied(c) => Replied(c)'
    BY <1>1 DEF Replied
  <1>4. Fits(msgs[c]) => Load(c)'
    <2>1. Fits(msgs[c]) => trans'.count = Len(CurMsg(c).buf)
      BY <1>1, Fitting, Remains DEF Count
    <2> QED
      BY <1>1, <2>1 DEF Load, Loading, Loaded, CurMsg
  <1> QED
    BY <1>1, <1>2, <1>3, <1>4, OfOwner DEF Owned, Moved, Reported

LEMMA AddressOwned ==
    ASSUME RInv, NEW c \in Client, mutex = c, PutAddress(c)
    PROVE  Owned(c)'
  <1>0. TypeOK
    BY OfOwner
  <1>1. /\ pc[c] = "address" /\ pos'[c] = 0
        /\ pc'[c] = IF CurMsg(c).rd \/ CurMsg(c).buf = <<>> THEN "go" ELSE "put"
        /\ data'[0] = AddressByte(CurMsg(c)) /\ index' = 1 % BufferSize
        /\ UNCHANGED <<cur, got, ret, msgs, wire, trans>>
    BY <1>0, Sizes DEF PutAddress, PutData, Goto, TypeOK
  <1>2. Tally(c)'
    BY <1>1, OfOwner DEF Tally
  <1>3. Replied(c) => Replied(c)'
    BY <1>1 DEF Replied
  <1>4. ASSUME Fits(msgs[c]) PROVE Load(c)'
    <2>1. trans.count = Len(CurMsg(c).buf)
      BY <1>1, <1>4, OfOwner DEF Load, Loading
    <2>2. CurMsg(c)' = CurMsg(c)
      BY <1>1 DEF CurMsg
    <2>3. CurMsg(c).rd \/ CurMsg(c).buf = <<>> => Puts(c, Len(CurMsg(c).buf))'
      BY <1>1, <2>2 DEF Puts
    <2>4. CurMsg(c).buf # <<>> => index' = 1
      <3>1. CurMsg(c).buf # <<>> => Len(CurMsg(c).buf) > 0
        BY Fitting, EmptySeq
      <3>2. CurMsg(c).buf # <<>> => 1 < BufferSize
        BY <1>4, <3>1, Fitting, SizeAssumption
      <3> QED
        BY <1>1, <3>2, Remains
    <2>5. Puts(c, pos[c])'
      BY <1>1, <2>2 DEF Puts
    <2> QED
      BY <1>1, <2>1, <2>2, <2>3, <2>4, <2>5 DEF Load, Loading, Loaded
  <1> QED
    BY <1>1, <1>2, <1>3, <1>4, OfOwner DEF Owned, Moved, Reported

LEMMA ByteOwned ==
    ASSUME RInv, NEW c \in Client, mutex = c, PutByte(c)
    PROVE  Owned(c)'
  <1>0. TypeOK
    BY OfOwner
  <1>1. /\ pc[c] = "put" /\ pos'[c] = pos[c] + 1 /\ pos[c] \in Nat
        /\ pc'[c] = IF pos[c] + 1 = Len(CurMsg(c).buf) THEN "go" ELSE "put"
        /\ data' = [data EXCEPT ![index] = CurMsg(c).buf[pos[c] + 1]]
        /\ index' = (index + 1) % BufferSize
        /\ UNCHANGED <<cur, got, ret, msgs, wire, trans>>
    BY <1>0 DEF PutByte, PutData, Goto, TypeOK
  <1>2. Tally(c)'
    BY <1>1, OfOwner DEF Tally
  <1>3. Replied(c) => Replied(c)'
    BY <1>1 DEF Replied
  <1>4. ASSUME Fits(msgs[c]) PROVE Load(c)'
    <2>1. /\ trans.count = Len(CurMsg(c).buf) /\ ~ CurMsg(c).rd
          /\ index = pos[c] + 1 /\ Puts(c, pos[c])
      BY <1>1, <1>4, OfOwner DEF Load, Loading
    <2>2. CurMsg(c)' = CurMsg(c)
      BY <1>1 DEF CurMsg
    <2>3. pos[c] + 1 <= Len(CurMsg(c).buf) /\ Len(CurMsg(c).buf) < BufferSize
      BY <1>1, <1>4, OfOwner, Fitting DEF Place
    <2>4. DOMAIN data = 0 .. BufferSize - 1
      BY <1>0 DEF TypeOK, Index
    <2>5. \A k \in 0 .. pos[c] + 1 :
            data'[k] = IF k = pos[c] + 1 THEN CurMsg(c).buf[k] ELSE data[k]
      <3>1. Len(CurMsg(c).buf) \in Nat /\ BufferSize \in Nat /\ pos[c] \in Nat
        BY <1>1, Fitting, SizeAssumption
      <3>2. \A k \in 0 .. pos[c] + 1 : k \in DOMAIN data
        BY <2>3, <2>4, <3>1
      <3>3. data' = [data EXCEPT ![pos[c] + 1] = CurMsg(c).buf[pos[c] + 1]]
        BY <1>1, <2>1
      <3> QED
        BY <3>2, <3>3
    <2>6. Puts(c, pos[c])'
      <3>1. data'[0] = data[0]
        BY <1>1, <2>5
      <3>2. \A k \in 1 .. pos[c] + 1 : data'[k] = CurMsg(c).buf[k]
        BY <1>1, <2>1, <2>5 DEF Puts
      <3> QED
        BY <1>1, <2>1, <2>2, <3>1, <3>2 DEF Puts
    <2>7. pos[c] + 1 # Len(CurMsg(c).buf) => index' = pos[c] + 2
      <3>1. pos[c] + 1 # Len(CurMsg(c).buf) => pos[c] + 2 < BufferSize
        BY <1>1, <2>3, Fitting, SizeAssumption
      <3>2. index + 1 = pos[c] + 2 /\ pos[c] + 2 \in Nat
        BY <1>1, <2>1
      <3> QED
        BY <1>1, <3>1, <3>2, Remains
    <2> QED
      <3>1. pos'[c] = Len(CurMsg(c).buf) => Puts(c, Len(CurMsg(c).buf))'
        BY <2>2, <2>6 DEF Puts
      <3>2. pc'[c] = "put" => index' = pos'[c] + 1
        BY <1>1, <2>7
      <3> QED
        BY <1>1, <2>1, <2>2, <2>6, <3>1, <3>2 DEF Load, Loading, Loaded
  <1> QED
    BY <1>1, <1>2, <1>3, <1>4, OfOwner DEF Owned, Moved, Reported

-----------------------------------------------------------------------------
(* Starting the engine, waiting for it, and what is made of its answer.    *)
LEMMA GoOwned ==
    ASSUME RInv, NEW c \in Client, mutex = c, Go(c)
    PROVE  Owned(c)'
  <1>0. TypeOK /\ status = {}
    BY OfOwner DEF State, Go, Ready
  <1>1. /\ pc[c] = "go" /\ pc'[c] = "poll"
        /\ UNCHANGED <<cur, got, ret, msgs, wire, trans, data, status>>
    BY <1>0 DEF Go, Goto, TypeOK
  <1>2. Tally(c)'
    BY <1>0, <1>1, OfOwner DEF Tally
  <1>3. Replied(c) => Replied(c)'
    BY <1>1 DEF Replied
  <1>4. Load(c) => Load(c)'
    BY <1>1 DEF Load, Loading, Loaded, Puts, CurMsg
  <1>5. Moved(c)'
    BY <1>0, <1>1 DEF Moved, Reported
  <1> QED
    BY <1>1, <1>2, <1>3, <1>4, <1>5, OfOwner DEF Owned

LEMMA PollOwned ==
    ASSUME RInv, NEW c \in Client, mutex = c, Poll(c)
    PROVE  Owned(c)'
  <1>1. /\ pc[c] = "poll" /\ pc'[c] \in {"poll", "ack"}
        /\ UNCHANGED <<cur, got, ret, msgs, wire, trans, data, status, control>>
    BY OfOwner DEF Poll, Goto, TypeOK, hardware
  <1>2. Tally(c)'
    BY <1>1, OfOwner DEF Tally
  <1>3. Replied(c) => Replied(c)'
    BY <1>1 DEF Replied
  <1>4. Load(c) => Load(c)'
    BY <1>1 DEF Load, Loading, Loaded, Able, Puts, CurMsg
  <1>5. Moved(c) => Moved(c)'
    BY <1>1 DEF Moved, Reported, CurMsg
  <1> QED
    BY <1>1, <1>2, <1>3, <1>4, <1>5, OfOwner DEF Owned

LEMMA AckOwned ==
    ASSUME RInv, NEW c \in Client, mutex = c, Ack(c)
    PROVE  Owned(c)'
  <1>0. TypeOK /\ Started
    BY OfOwner DEF State, Ack
  <1>1. /\ pc[c] = "ack" /\ status' = status \cap {"BUSY"}
        /\ UNCHANGED <<cur, got, msgs, wire, trans, data, control, index, pos>>
    BY <1>0 DEF Ack, ClearAck
  <1>2. CurMsg(c)' = CurMsg(c)
    BY <1>1 DEF CurMsg
  <1>3. CASE OperationResult(c) = "SUCCEEDED"
    <2>1. /\ pc'[c] = IF CurMsg(c).rd THEN "reply" ELSE "next"
          /\ ret'[c] = ret[c]
      BY <1>0, <1>3, Fitting DEF Ack, Goto, TypeOK
    <2>2. status = {"DONE"}
      BY <1>1, <1>3, OfOwner DEF OperationResult, State
    <2>3. Tally(c)'
      BY <1>1, <2>1, <2>2, OfOwner DEF Tally
    <2>4. ASSUME Fits(msgs[c]) PROVE Load(c)' /\ Moved(c)' /\ Replied(c)'
      <3>1. /\ SameMsg(wire[cur[c]], CurMsg(c)) /\ Has(got[c], wire, cur[c] - 1)
            /\ CurMsg(c).rd => \A k \in 1 .. Len(CurMsg(c).buf) :
                                 data[k] = wire[cur[c]].buf[k]
        BY <1>1, <2>2, <2>4, OfOwner DEF Moved, Reported, Replied
      <3>2. Load(c)'
        BY <2>1 DEF Load, Loading, Loaded
      <3>3. Moved(c)'
        BY <1>1, <1>2, <2>1, <3>1 DEF Moved, Reported
      <3>4. ~ CurMsg(c).rd => Has(got[c], wire, cur[c])
        <4>1. cur[c] \in 1 .. Len(wire) /\ wire \in Seq(Msg)
          BY <1>0, <1>1, <2>2, OfOwner DEF Tally, TypeOK
        <4>2. ~ CurMsg(c).rd => ~ wire[cur[c]].rd
          BY <3>1 DEF SameMsg
        <4> QED
          BY <3>1, <4>1, <4>2, HasSkip
      <3>5. Replied(c)'
        BY <1>1, <2>1, <3>1, <3>4 DEF Replied
      <3> QED
        BY <3>2, <3>3, <3>5
    <2> QED
      BY <1>1, <2>3, <2>4 DEF Owned
  <1>4. CASE OperationResult(c) # "SUCCEEDED"
    <2>1. pc'[c] = "unpin" /\ ret'[c] = "EIO"
      BY <1>0, <1>4 DEF Ack, Goto, TypeOK, AfterFailure
    <2>2. Able' => Able /\ status # {"DONE"}
      BY <1>0, <1>1 DEF Able, Started, Reached
    <2>3. Tally(c)'
      BY <1>1, <2>1, <2>2, OfOwner DEF Tally
    <2>4. Load(c) => Load(c)'
      BY <1>1, <1>2, <2>1, <2>2 DEF Load, Loading, Loaded, Puts
    <2>5. Moved(c)' /\ Replied(c)'
      BY <2>1 DEF Moved, Reported, Replied
    <2> QED
      BY <1>1, <2>3, <2>4, <2>5, OfOwner DEF Owned
  <1> QED
    BY <1>3, <1>4

-----------------------------------------------------------------------------
(* Taking the reply.                                                       *)
LEMMA ReplyOwned ==
    ASSUME RInv, NEW c \in Client, mutex = c, Reply(c)
    PROVE  Owned(c)'
  <1>0. TypeOK
    BY OfOwner
  <1>1. /\ pc[c] = "reply" /\ pos'[c] = 0 /\ index' = 1 % BufferSize
        /\ pc'[c] = IF CurMsg(c).buf = <<>> THEN "replyack" ELSE "take"
        /\ got'[c] = Append(got[c], <<>>)
        /\ UNCHANGED <<cur, ret, msgs, wire, trans, data, control, status>>
    BY <1>0 DEF Reply, Goto, TypeOK
  <1>2. CurMsg(c)' = CurMsg(c)
    BY <1>1 DEF CurMsg
  <1>3. Tally(c)'
    BY <1>1, OfOwner DEF Tally
  <1>4. /\ got'[c] \in Seq(Seq(Byte)) /\ Len(got'[c]) > 0
        /\ Front(got'[c]) = got[c] /\ Last(got'[c]) = <<>>
    <2>1. got[c] \in Seq(Seq(Byte)) /\ <<>> \in Seq(Byte)
      BY <1>0, EmptySeq DEF TypeOK
    <2> DEFINE g == Append(got[c], <<>>)
    <2>2. /\ g \in Seq(Seq(Byte)) /\ Len(g) = Len(got[c]) + 1
          /\ g[Len(got[c]) + 1] = <<>> /\ Len(got[c]) \in Nat
      BY <2>1, AppendProperties, LenProperties
    <2>3. Front(g) = got[c]
      BY <2>1, FrontOfAppend
    <2> QED
      BY <1>1, <2>2, <2>3 DEF Last
  <1>5. ASSUME Fits(msgs[c]) PROVE Load(c)' /\ Moved(c)' /\ Replied(c)'
    <2>1. /\ SameMsg(wire[cur[c]], CurMsg(c)) /\ CurMsg(c).rd
          /\ \A k \in 1 .. Len(CurMsg(c).buf) : data[k] = wire[cur[c]].buf[k]
          /\ Has(got[c], wire, cur[c] - 1)
      BY <1>1, <1>5, OfOwner DEF Moved, Replied
    <2>2. Load(c)'
      BY <1>1 DEF Load, Loading, Loaded
    <2>3. CurMsg(c).buf # <<>> => index' = 1 /\ 0 < Len(CurMsg(c).buf)
      <3>1. CurMsg(c).buf # <<>> => Len(CurMsg(c).buf) > 0
        BY Fitting, EmptySeq
      <3>2. CurMsg(c).buf # <<>> => 1 < BufferSize
        BY <1>5, <3>1, Fitting, SizeAssumption
      <3> QED
        BY <1>1, <3>1, <3>2, Remains
    <2>4. Moved(c)'
      BY <1>1, <1>2, <1>4, <2>1, <2>3 DEF Moved, Reported
    <2>5. CurMsg(c).buf = <<>> => Has(got'[c], wire, cur[c])
      <3>1. cur[c] \in 1 .. Len(wire) /\ wire \in Seq(Msg)
        BY <1>0, <1>1, OfOwner DEF Tally, TypeOK
      <3>0. wire[cur[c]] \in Msg
        BY <3>1, ElementOfSeq
      <3>2. wire[cur[c]].buf \in Seq(Byte)
        BY <3>0 DEF Msg
      <3>3. CurMsg(c).buf = <<>> => wire[cur[c]].buf = <<>>
        BY <2>1, <3>2, EmptySeq DEF SameMsg
      <3>4. wire[cur[c]].rd
        BY <2>1 DEF SameMsg
      <3> QED
        BY <1>4, <2>1, <3>1, <3>3, <3>4, HasNext
    <2>6. Replied(c)'
      BY <1>1, <1>4, <2>1, <2>5 DEF Replied
    <2> QED
      BY <2>2, <2>4, <2>6
  <1> QED
    BY <1>1, <1>3, <1>5 DEF Owned

(* One more byte of the last reply.                                        *)
LEMMA Taken ==
    ASSUME NEW s \in Seq(Seq(Byte)), Len(s) > 0, NEW b \in Byte
    PROVE  /\ Last(s) \in Seq(Byte)
           /\ Front(s) \o <<Append(Last(s), b)>> \in Seq(Seq(Byte))
           /\ Len(Front(s) \o <<Append(Last(s), b)>>) > 0
           /\ Front(Front(s) \o <<Append(Last(s), b)>>) = Front(s)
           /\ Last(Front(s) \o <<Append(Last(s), b)>>) = Append(Last(s), b)
  <1>1. Len(s) \in Nat /\ \A i \in 1 .. Len(s) : s[i] \in Seq(Byte)
    BY LenProperties, ElementOfSeq
  <1>2. Last(s) \in Seq(Byte)
    BY <1>1 DEF Last
  <1>3. Front(s) \in Seq(Seq(Byte))
    <2>1. \A i \in 1 .. Len(s) - 1 : s[i] \in Seq(Byte)
      BY <1>1
    <2> QED
      BY <1>1, <2>1, SubSeqProperties DEF Front
  <1> DEFINE f == Front(s)
             a == Append(Last(s), b)
  <1>4. f \in Seq(Seq(Byte)) /\ a \in Seq(Byte)
    BY <1>2, <1>3, AppendProperties
  <1> HIDE DEF f, a
  <1> DEFINE t == f \o <<a>>
  <1>5. t = Append(f, a)
    BY <1>4, AppendIsConcat
  <1> HIDE DEF t
  <1>6. Front(Append(f, a)) = f
    BY <1>4, FrontOfAppend
  <1>7. /\ Append(f, a) \in Seq(Seq(Byte)) /\ Len(Append(f, a)) = Len(f) + 1
        /\ Append(f, a)[Len(f) + 1] = a /\ Len(f) \in Nat
    BY <1>4, AppendProperties, LenProperties
  <1>8. Last(Append(f, a)) = a
    BY <1>7 DEF Last
  <1>9. t \in Seq(Seq(Byte)) /\ Len(t) > 0 /\ Front(t) = f /\ Last(t) = a
    <2>1. Len(f) + 1 > 0
      BY <1>7
    <2> QED
      BY <1>5, <1>6, <1>7, <1>8, <2>1
  <1> QED
    BY <1>2, <1>9, Zenon DEF f, a, t

LEMMA TakeByteOwned ==
    ASSUME RInv, NEW c \in Client, mutex = c, TakeByte(c)
    PROVE  Owned(c)'
  <1> DEFINE n == pos[c]
             b == data[index]
  <1>0. TypeOK /\ b \in Byte
    BY OfOwner DEF TypeOK
  <1>1. /\ pc[c] = "take" /\ pos'[c] = n + 1 /\ n \in Nat
        /\ index' = (index + 1) % BufferSize
        /\ pc'[c] = IF n + 1 = Len(CurMsg(c).buf) THEN "replyack" ELSE "take"
        /\ UNCHANGED <<cur, ret, msgs, wire, trans, data, control, status>>
    BY <1>0 DEF TakeByte, Goto, TypeOK
  <1>2. CurMsg(c)' = CurMsg(c)
    BY <1>1 DEF CurMsg
  <1>3. Tally(c)'
    BY <1>1, OfOwner DEF Tally
  <1>4. /\ Last(got[c]) \in Seq(Byte)
        /\ got'[c] \in Seq(Seq(Byte)) /\ Len(got'[c]) > 0
        /\ Front(got'[c]) = Front(got[c])
        /\ Last(got'[c]) = Append(Last(got[c]), b)
    <2>1. got[c] \in Seq(Seq(Byte)) /\ Len(got[c]) > 0
      BY <1>0, <1>1, OfOwner DEF TypeOK, Place
    <2>2. got'[c] = Front(got[c]) \o <<Append(Last(got[c]), b)>>
      BY <1>0 DEF TakeByte, TypeOK
    <2> HIDE DEF b
    <2> QED
      BY <1>0, <2>1, <2>2, Taken
  <1>5. ASSUME Fits(msgs[c]) PROVE Load(c)' /\ Moved(c)' /\ Replied(c)'
    <2>1. /\ SameMsg(wire[cur[c]], CurMsg(c)) /\ CurMsg(c).rd
          /\ \A k \in 1 .. Len(CurMsg(c).buf) : data[k] = wire[cur[c]].buf[k]
          /\ index = n + 1 /\ n < Len(CurMsg(c).buf) /\ Len(Last(got[c])) = n
          /\ \A k \in 1 .. n : Last(got[c])[k] = wire[cur[c]].buf[k]
          /\ Has(Front(got[c]), wire, cur[c] - 1)
      BY <1>1, <1>5, OfOwner DEF Moved, Replied
    <2>2. Load(c)'
      BY <1>1 DEF Load, Loading, Loaded
    <2>3. Len(CurMsg(c).buf) \in Nat /\ Len(CurMsg(c).buf) < BufferSize
      BY <1>5, Fitting
    <2>4. b = wire[cur[c]].buf[n + 1]
      <3>1. index = n + 1 /\ n + 1 \in 1 .. Len(CurMsg(c).buf)
        BY <1>1, <2>1, <2>3
      <3> HIDE DEF n
      <3> QED
        BY <2>1, <3>1
    <2> HIDE DEF b
    <2>5. /\ Len(Last(got'[c])) = n + 1
          /\ \A k \in 1 .. n + 1 : Last(got'[c])[k] = wire[cur[c]].buf[k]
      <3>1. /\ Len(Append(Last(got[c]), b)) = n + 1
            /\ Append(Last(got[c]), b)[n + 1] = b
            /\ \A k \in 1 .. n : Append(Last(got[c]), b)[k] = Last(got[c])[k]
        BY <1>0, <1>1, <1>4, <2>1, AppendProperties
      <3>2. \A k \in 1 .. n + 1 : k = n + 1 \/ k \in 1 .. n
        BY <1>1
      <3> QED
        BY <1>4, <2>1, <2>4, <3>1, <3>2
    <2>6. n + 1 # Len(CurMsg(c).buf) =>
            index' = n + 2 /\ n + 1 < Len(CurMsg(c).buf)
      <3>1. n + 1 # Len(CurMsg(c).buf) => n + 2 < BufferSize /\ n + 1 < Len(CurMsg(c).buf)
        <4>1. \A k, l, m \in Nat : k < l /\ l < m /\ k + 1 # l => k + 2 < m /\ k + 1 < l
          OBVIOUS
        <4>2. n \in Nat /\ n < Len(CurMsg(c).buf) /\ BufferSize \in Nat
          BY <1>1, <2>1, SizeAssumption
        <4> HIDE DEF n
        <4> QED
          BY <2>3, <4>1, <4>2
      <3>2. index + 1 = n + 2 /\ n + 2 \in Nat
        BY <1>1, <2>1
      <3> QED
        BY <1>1, <3>1, <3>2, Remains
    <2>7. Moved(c)'
      <3>0. pc'[c] = "take" => index' = n + 2 /\ n + 1 < Len(CurMsg(c).buf)
        BY <1>1, <2>6
      <3>3. pos'[c] = n + 1 /\ n \in Nat
        BY <1>1
      <3> HIDE DEF n
      <3>1. pc'[c] = "take" =>
              /\ index' = pos'[c] + 1
              /\ pos'[c] < Len(CurMsg(c).buf)
              /\ Len(Last(got'[c])) = pos'[c]
              /\ \A k \in 1 .. pos'[c] : Last(got'[c])[k] = wire[cur[c]].buf[k]
        BY <2>5, <3>0, <3>3
      <3>2. pc'[c] \in {"take", "replyack"}
        BY <1>1
      <3> QED
        BY <1>1, <1>2, <2>1, <3>1, <3>2 DEF Moved, Reported
    <2>8. n + 1 = Len(CurMsg(c).buf) => Has(got'[c], wire, cur[c])
      <3> SUFFICES ASSUME n + 1 = Len(CurMsg(c).buf) PROVE Has(got'[c], wire, cur[c])
        OBVIOUS
      <3>1. cur[c] \in 1 .. Len(wire) /\ wire \in Seq(Msg)
        BY <1>0, <1>1, OfOwner DEF Tally, TypeOK
      <3>2. wire[cur[c]] \in Msg
        BY <3>1, ElementOfSeq
      <3>3. wire[cur[c]].buf \in Seq(Byte) /\ wire[cur[c]].rd
            /\ Len(wire[cur[c]].buf) = n + 1
        BY <2>1, <3>2 DEF Msg, SameMsg
      <3>4. Last(got'[c]) \in Seq(Byte)
        BY <1>0, <1>4, AppendProperties
      <3>5. Last(got'[c]) = wire[cur[c]].buf
        BY <2>5, <3>3, <3>4, SeqEqual
      <3> QED
        BY <1>4, <2>1, <3>1, <3>3, <3>5, HasNext
    <2>9. Replied(c)'
      BY <1>1, <1>4, <2>1, <2>8 DEF Replied
    <2> QED
      BY <2>2, <2>7, <2>9
  <1> QED
    BY <1>1, <1>3, <1>5 DEF Owned

LEMMA ReplyAckOwned ==
    ASSUME RInv, NEW c \in Client, mutex = c, ReplyAck(c)
    PROVE  Owned(c)'
  <1>1. /\ pc[c] = "replyack" /\ pc'[c] = "next"
        /\ UNCHANGED <<cur, got, ret, msgs, wire>>
    BY OfOwner DEF ReplyAck, Goto, TypeOK
  <1>2. Tally(c)'
    BY <1>1, OfOwner DEF Tally
  <1>3. Load(c)'
    BY <1>1 DEF Load, Loading, Loaded
  <1>4. Moved(c) => Moved(c)'
    BY <1>1 DEF Moved, Reported, CurMsg
  <1>5. Replied(c) => Replied(c)'
    BY <1>1 DEF Replied
  <1> QED
    BY <1>1, <1>2, <1>3, <1>4, <1>5, OfOwner DEF Owned

-----------------------------------------------------------------------------
(* The next message, and the end of the transfer.                          *)
LEMMA NextOwned ==
    ASSUME RInv, NEW c \in Client, mutex = c, NextMessage(c)
    PROVE  Owned(c)'
  <1>0. TypeOK /\ Ready
    BY OfOwner DEF State, NextMessage
  <1>1. /\ pc[c] = "next" /\ Len(wire) = cur[c] /\ ret[c] = "none"
        /\ UNCHANGED <<got, msgs, wire, trans, data, control, index, pos, status>>
    BY OfOwner DEF NextMessage, hardware, Tally
  <1>2. Replied(c) => Has(got[c], wire, cur[c])
    BY <1>1 DEF Replied
  <1>3. CASE cur[c] < Len(msgs[c])
    <2>1. pc'[c] = "message" /\ cur'[c] = cur[c] + 1 /\ ret'[c] = "none"
      BY <1>0, <1>1, <1>3 DEF NextMessage, Goto, TypeOK
    <2>2. cur'[c] - 1 = cur[c] /\ cur[c] \in Nat
      BY <2>1, OfOwner
    <2>3. Tally(c)'
      BY <1>1, <2>1, <2>2 DEF Tally
    <2>4. Load(c)' /\ Moved(c)'
      BY <2>1 DEF Load, Loading, Loaded, Moved, Reported
    <2>5. Replied(c) => Replied(c)'
      BY <1>1, <1>2, <2>1, <2>2 DEF Replied
    <2> QED
      BY <1>1, <2>3, <2>4, <2>5, OfOwner DEF Owned
  <1>4. CASE ~ (cur[c] < Len(msgs[c]))
    <2>1. /\ pc'[c] = "unpin" /\ ret'[c] = "num" /\ cur' = cur
      BY <1>0, <1>1, <1>4 DEF NextMessage, Goto, TypeOK
    <2>2. cur[c] = Len(msgs[c])
      <3>1. msgs[c] \in Request /\ cur[c] \in 1 .. Len(msgs[c])
        BY OfOwner
      <3>2. Len(msgs[c]) \in Nat
        BY <3>1, RequestAssumption, LenProperties
      <3> QED
        BY <1>4, <3>1, <3>2
    <2>3. ~ Able'
      BY <1>0, <1>1 DEF Able, Ready
    <2>4. Tally(c)'
      BY <1>1, <2>1, <2>2, <2>3 DEF Tally
    <2>5. Load(c)' /\ Moved(c)'
      BY <2>1, <2>3 DEF Load, Loading, Loaded, Moved, Reported
    <2>6. Replied(c) => Replied(c)'
      BY <1>1, <1>2, <2>1 DEF Replied
    <2> QED
      BY <1>1, <2>4, <2>5, <2>6, OfOwner DEF Owned
  <1> QED
    BY <1>3, <1>4

LEMMA DeselectOwned ==
    ASSUME RInv, NEW c \in Client, mutex = c, DeselectPins(c)
    PROVE  Owned(c)'
  <1>1. /\ pc[c] = "unpin" /\ pc'[c] = "reset"
        /\ UNCHANGED <<cur, got, ret, msgs, wire, trans, data, control, status>>
    BY OfOwner DEF DeselectPins, Goto, TypeOK
  <1>2. Tally(c)'
    BY <1>1, OfOwner DEF Tally, Able
  <1>3. Load(c) => Load(c)'
    BY <1>1 DEF Load, Loading, Loaded, Able, Puts, CurMsg
  <1>4. Moved(c)'
    BY <1>1 DEF Moved, Reported
  <1>5. Replied(c) => Replied(c)'
    BY <1>1 DEF Replied
  <1> QED
    BY <1>1, <1>2, <1>3, <1>4, <1>5, OfOwner DEF Owned

LEMMA CloseOwned ==
    ASSUME RInv, NEW c \in Client, mutex = c, Reset(c) \/ ClearReset(c)
    PROVE  Owned(c)'
  <1>1. /\ pc[c] \in {"reset", "clear"} /\ pc'[c] \in {"clear", "unlock"}
        /\ UNCHANGED <<cur, got, ret, msgs, wire>>
    BY OfOwner DEF Reset, ClearReset, Goto, TypeOK
  <1>2. Tally(c)'
    BY <1>1, OfOwner DEF Tally
  <1> QED
    BY <1>1, <1>2 DEF Owned, Load, Loading, Loaded, Moved, Reported, Replied

(* Taking the mutex, and giving it back.                                   *)
LEMMA LockOwned ==
    ASSUME RInv, NEW c \in Client, Lock(c)
    PROVE  Owned(c)'
  <1>1. TypeOK /\ mutex = NoClient /\ mutex # c
    BY ClientAssumption DEF RInv, IInv, Lock
  <1>2. Outside(c) /\ wire = <<>>
    BY <1>1 DEF RInv
  <1>3. /\ pc'[c] = "enable"
        /\ UNCHANGED <<cur, got, ret, msgs, wire>>
    BY <1>1 DEF Lock, Goto, TypeOK, hardware
  <1>4. Tally(c)'
    BY <1>2, <1>3 DEF Tally, Outside
  <1> QED
    BY <1>3, <1>4 DEF Owned, Load, Loading, Loaded, Moved, Reported, Replied

LEMMA UnlockOutside ==
    ASSUME RInv, NEW c \in Client, Unlock(c)
    PROVE  Outside(c)' /\ wire' = <<>> /\ mutex' = NoClient
  BY DEF RInv, IInv, TypeOK, Unlock, Goto, Outside

(* A step of the owner.                                                    *)
LEMMA OwnStep ==
    ASSUME RInv, NEW c \in Client, mutex = c, Step(c)
    PROVE  Unlock(c) \/ (Owned(c)' /\ mutex' = c)
  <1>1. TypeOK /\ Busy(c)
    BY OfOwner DEF Busy
  <1>2. ~ Lock(c)
    BY <1>1 DEF Lock, Busy
  <1>3. Unlock(c) \/ mutex' = c
    BY <1>2, ClientAssumption DEF Step, Enable, SelectPins, SetTransaction, PutAddress,
       PutByte, Go, Poll, Ack, Reply, TakeByte, ReplyAck, NextMessage, DeselectPins,
       Reset, ClearReset
  <1> QED
    BY <1>2, <1>3, EnableOwned, PinsOwned, TransactionOwned, AddressOwned, ByteOwned,
       GoOwned, PollOwned, AckOwned, ReplyOwned, TakeByteOwned, ReplyAckOwned,
       NextOwned, DeselectOwned, CloseOwned DEF Step

-----------------------------------------------------------------------------
(* The engine works for the owner of the mutex, who has a transaction to   *)
(* be done.                                                                *)
LEMMA EngineFor ==
    ASSUME RInv, NEW c \in Client, mutex = c, Engine
    PROVE  /\ UNCHANGED <<mutex, pc, msgs, cur, pos, got, ret, trans>>
           /\ pc[c] \in {"poll", "ack", "unpin", "reset"} /\ Started
           /\ Able /\ status # {"DONE"} /\ Len(wire) = cur[c] - 1
           /\ ret[c] # "num"
  <1>1. UNCHANGED <<mutex, pc, msgs, cur, pos, got, ret, trans>>
    BY DEF Engine, EngineStarts, EngineSucceeds, EngineFails, software
  <1>2. Able /\ (control.go \/ status = {"BUSY"})
    BY DEF Engine, EngineStarts, EngineSucceeds, EngineFails, Able
  <1>3. TypeOK /\ State(c) /\ pc[c] \notin {"idle", "lock"} /\ Tally(c)
    BY OfOwner
  <1>4. pc[c] \notin {"enable", "unlock", "pins", "message", "address", "put",
                      "go", "reply", "take", "replyack", "next", "clear"}
    BY <1>2, <1>3 DEF State, Rest, Ready
  <1>5. pc[c] \in {"poll", "ack", "unpin", "reset"} /\ Started
    <2>1. pc[c] \in Pc
      BY <1>3 DEF TypeOK
    <2>2. pc[c] \in {"poll", "ack", "unpin", "reset"}
      BY <1>3, <1>4, <2>1 DEF Pc
    <2> QED
      BY <1>3, <2>2 DEF State
  <1>6. status # {"DONE"}
    BY <1>2, <1>5 DEF Started
  <1>7. Len(wire) = cur[c] - 1 /\ ret[c] # "num"
    <2>1. cur[c] \in Nat
      BY OfOwner
    <2> QED
      BY <1>2, <1>3, <1>5, <1>6, <2>1 DEF Tally
  <1> QED
    BY <1>1, <1>2, <1>5, <1>6, <1>7

LEMMA StartsOwned ==
    ASSUME RInv, NEW c \in Client, mutex = c, EngineStarts
    PROVE  Owned(c)'
  <1>0. Engine
    BY DEF Engine
  <1>1. /\ UNCHANGED <<pc, msgs, cur, pos, got, ret, trans, data, index, wire>>
        /\ pc[c] \in {"poll", "ack", "unpin", "reset"}
        /\ Able /\ Len(wire) = cur[c] - 1 /\ ret[c] # "num"
        /\ status' = {"BUSY"}
    BY <1>0, EngineFor DEF EngineStarts
  <1>2. Tally(c)'
    BY <1>1, OfOwner DEF Tally
  <1>3. Load(c) => Load(c)'
    BY <1>1 DEF Load, Loading, Loaded, Puts, CurMsg
  <1>4. Moved(c)'
    BY <1>1 DEF Moved, Reported
  <1>5. Replied(c) => Replied(c)'
    BY <1>1 DEF Replied
  <1> QED
    BY <1>1, <1>2, <1>3, <1>4, <1>5, OfOwner DEF Owned

LEMMA FailsOwned ==
    ASSUME RInv, NEW c \in Client, mutex = c, EngineFails
    PROVE  Owned(c)'
  <1>0. Engine
    BY DEF Engine
  <1>1. /\ UNCHANGED <<pc, msgs, cur, pos, got, ret, trans, data, index, wire>>
        /\ pc[c] \in {"poll", "ack", "unpin", "reset"}
        /\ Len(wire) = cur[c] - 1 /\ ret[c] # "num"
        /\ status' # {"DONE"} /\ ~ Able'
    BY <1>0, EngineFor DEF EngineFails, Started, Able
  <1>2. Tally(c)'
    BY <1>1, OfOwner DEF Tally
  <1>3. Load(c)' /\ Moved(c)'
    BY <1>1 DEF Load, Loading, Loaded, Moved, Reported
  <1>4. Replied(c) => Replied(c)'
    BY <1>1 DEF Replied
  <1> QED
    BY <1>1, <1>2, <1>3, <1>4, OfOwner DEF Owned

(* What the engine does is the message that it was given: its address byte *)
(* and its count come back as they were put.                               *)
LEMMA Carried ==
    ASSUME RInv, NEW c \in Client, mutex = c, EngineSucceeds
    PROVE  \E e \in Msg :
             /\ wire' = Append(wire, e)
             /\ Fits(msgs[c]) =>
                  /\ SameMsg(e, CurMsg(c))
                  /\ CurMsg(c).rd =>
                       \A k \in 1 .. Len(CurMsg(c).buf) : data'[k] = e.buf[k]
  <1>0. TypeOK /\ Engine
    BY OfOwner DEF Engine
  <1>1. PICK filled \in [1 .. trans.count -> Byte] :
          IF data[0] % 2 = 1
          THEN /\ data' = [i \in Index |-> IF i \in DOMAIN filled THEN filled[i]
                                           ELSE data[i]]
               /\ wire' = Append(wire, [addr |-> WireAddr, rd |-> TRUE, buf |-> filled])
          ELSE /\ filled = WireBuf
               /\ wire' = Append(wire, [addr |-> WireAddr, rd |-> FALSE, buf |-> filled])
               /\ UNCHANGED data
    BY DEF EngineSucceeds
  <1> DEFINE e == [addr |-> WireAddr, rd |-> data[0] % 2 = 1, buf |-> filled]
  <1>2. /\ trans.count \in Nat /\ filled \in Seq(Byte) /\ Len(filled) = trans.count
        /\ data[0] \in Nat /\ WireAddr \in Nat
    <2>1. trans.count \in Nat /\ data[0] \in Nat
      <3>1. trans.count \in Index /\ data[0] \in Byte
        BY <1>0, Sizes DEF TypeOK
      <3>2. \A x \in Byte : x \in Nat
        BY DEF Byte
      <3> QED
        BY <3>1, <3>2, Sizes
    <2>2. WireAddr \in Nat
      BY <2>1 DEF WireAddr
    <2>3. filled \in Seq(Byte) /\ Len(filled) = trans.count
      BY <1>1, <2>1
    <2> QED
      BY <2>1, <2>2, <2>3
  <1>3. e \in Msg
    <2>1. (data[0] % 2 = 1) \in BOOLEAN
      OBVIOUS
    <2> QED
      BY <1>2, <2>1 DEF Msg
  <1>4. wire' = Append(wire, e)
    <2>1. CASE data[0] % 2 = 1
      <3>1. e = [addr |-> WireAddr, rd |-> TRUE, buf |-> filled]
        BY <2>1
      <3> QED
        BY <1>1, <2>1, <3>1, Zenon
    <2>2. CASE ~ (data[0] % 2 = 1)
      <3>1. e = [addr |-> WireAddr, rd |-> FALSE, buf |-> filled]
        BY <2>2
      <3> QED
        BY <1>1, <2>2, <3>1, Zenon
    <2> QED
      BY <2>1, <2>2
  <1>5. ASSUME Fits(msgs[c])
        PROVE  /\ SameMsg(e, CurMsg(c))
               /\ CurMsg(c).rd =>
                    \A k \in 1 .. Len(CurMsg(c).buf) : data'[k] = e.buf[k]
    <2> DEFINE n == Len(CurMsg(c).buf)
    <2>1. /\ trans.count = n /\ data[0] = AddressByte(CurMsg(c))
          /\ ~ CurMsg(c).rd => \A k \in 1 .. n : data[k] = CurMsg(c).buf[k]
      <3>1. Loaded(c) /\ Load(c)
        BY <1>0, <1>5, EngineFor, OfOwner DEF Loaded
      <3> QED
        BY <3>1 DEF Load, Puts
    <2>2. /\ CurMsg(c).addr \in Nat /\ CurMsg(c).rd \in BOOLEAN
          /\ CurMsg(c).buf \in Seq(Byte) /\ n \in Nat /\ n < BufferSize
      BY <1>5, Fitting
    <2>3. WireAddr = CurMsg(c).addr /\ (data[0] % 2 = 1 <=> CurMsg(c).rd)
      <3>1. data[0] = 2 * CurMsg(c).addr + (IF CurMsg(c).rd THEN 1 ELSE 0)
        BY <2>1, AddressKept
      <3>2. CASE CurMsg(c).rd
        <4>1. data[0] = 2 * CurMsg(c).addr + 1
          BY <3>1, <3>2
        <4> QED
          BY <2>2, <3>2, <4>1, Halves DEF WireAddr
      <3>3. CASE ~ CurMsg(c).rd
        <4>1. data[0] = 2 * CurMsg(c).addr
          BY <2>2, <3>1, <3>3
        <4> QED
          BY <2>2, <3>3, <4>1, Halves DEF WireAddr
      <3> QED
        BY <3>2, <3>3
    <2>4. ~ CurMsg(c).rd => filled = CurMsg(c).buf
      <3> SUFFICES ASSUME ~ CurMsg(c).rd PROVE filled = CurMsg(c).buf
        OBVIOUS
      <3>1. filled = [i \in 1 .. n |-> data[i]]
        BY <1>1, <2>1, <2>3 DEF WireBuf
      <3>2. \A k \in 1 .. n : filled[k] = CurMsg(c).buf[k]
        BY <2>1, <3>1
      <3> QED
        BY <1>2, <2>1, <2>2, <3>2, SeqEqual
    <2>5. SameMsg(e, CurMsg(c))
      BY <1>2, <2>1, <2>2, <2>3, <2>4 DEF SameMsg
    <2>6. CurMsg(c).rd => \A k \in 1 .. n : data'[k] = e.buf[k]
      <3> SUFFICES ASSUME CurMsg(c).rd, NEW k \in 1 .. n PROVE data'[k] = filled[k]
        OBVIOUS
      <3>1. data' = [i \in Index |-> IF i \in DOMAIN filled THEN filled[i] ELSE data[i]]
        BY <1>1, <2>3
      <3>2. k \in Index /\ k \in DOMAIN filled
        BY <1>1, <2>1, <2>2, SizeAssumption DEF Index
      <3> QED
        BY <3>1, <3>2
    <2> QED
      BY <2>5, <2>6
  <1> HIDE DEF e
  <1> QED
    BY <1>3, <1>4, <1>5

LEMMA SucceedsOwned ==
    ASSUME RInv, NEW c \in Client, mutex = c, EngineSucceeds
    PROVE  Owned(c)'
  <1>0. Engine
    BY DEF Engine
  <1>1. /\ UNCHANGED <<pc, msgs, cur, pos, got, ret, trans, index>>
        /\ pc[c] \in {"poll", "ack", "unpin", "reset"}
        /\ Len(wire) = cur[c] - 1 /\ ret[c] # "num"
        /\ status' = {"DONE"} /\ ~ Able'
    BY <1>0, EngineFor DEF EngineSucceeds, Started, Able
  <1>2. PICK e \in Msg :
          /\ wire' = Append(wire, e)
          /\ Fits(msgs[c]) =>
               /\ SameMsg(e, CurMsg(c))
               /\ CurMsg(c).rd =>
                    \A k \in 1 .. Len(CurMsg(c).buf) : data'[k] = e.buf[k]
    BY Carried
  <1>3. /\ wire \in Seq(Msg) /\ cur[c] \in Nat \ {0} /\ Len(wire) \in Nat
        /\ cur[c] - 1 \in 0 .. Len(wire)
    BY <1>1, OfOwner DEF TypeOK
  <1>4. Len(wire') = cur[c] /\ wire'[cur[c]] = e
    BY <1>1, <1>2, <1>3, AppendProperties
  <1>5. Tally(c)'
    BY <1>1, <1>4, OfOwner DEF Tally
  <1>6. CurMsg(c)' = CurMsg(c)
    BY <1>1 DEF CurMsg
  <1>7. ASSUME Fits(msgs[c]) PROVE Load(c)' /\ Moved(c)' /\ Replied(c)'
    <2>1. Load(c)'
      BY <1>1 DEF Load, Loading, Loaded
    <2>2. Moved(c)'
      BY <1>1, <1>2, <1>4, <1>6, <1>7 DEF Moved, Reported
    <2>3. Has(got[c], wire', cur[c] - 1) <=> Has(got[c], wire, cur[c] - 1)
      BY <1>2, <1>3, HasAppend
    <2>4. Replied(c)
      BY <1>7, OfOwner
    <2>5. Replied(c)'
      BY <1>1, <2>3, <2>4 DEF Replied
    <2> QED
      BY <2>1, <2>2, <2>5
  <1> QED
    BY <1>1, <1>5, <1>7 DEF Owned

-----------------------------------------------------------------------------
(* The registers and the client's own variables stay, and with them what   *)
(* is known of the client.                                                 *)
Same(d) ==
    /\ UNCHANGED <<control, trans, data, index, status, wire>>
    /\ pc'[d] = pc[d] /\ msgs'[d] = msgs[d] /\ cur'[d] = cur[d]
    /\ pos'[d] = pos[d] /\ got'[d] = got[d] /\ ret'[d] = ret[d]

LEMMA SameOwned ==
    ASSUME NEW d \in Client, Same(d), Owned(d)
    PROVE  Owned(d)'
  <1>1. CurMsg(d)' = CurMsg(d)
    BY DEF Same, CurMsg
  <1>2. Tally(d)'
    BY DEF Owned, Tally, Same, Able
  <1>3. Load(d) => Load(d)'
    BY <1>1 DEF Same, Load, Loading, Loaded, Able, Puts
  <1>4. Moved(d) => Moved(d)'
    BY <1>1 DEF Same, Moved, Reported
  <1>5. Replied(d) => Replied(d)'
    BY DEF Same, Replied
  <1>6. msgs'[d] = msgs[d]
    BY DEF Same
  <1> QED
    BY <1>2, <1>3, <1>4, <1>5, <1>6 DEF Owned

(* Those that wait stay outside.                                           *)
LEMMA Waiting ==
    ASSUME NEW d \in Client, Outside(d),
           pc'[d] = pc[d], msgs'[d] = msgs[d], cur'[d] = cur[d],
           got'[d] = got[d], ret'[d] = ret[d]
    PROVE  Outside(d)'
  BY DEF Outside

LEMMA CallExtra ==
    ASSUME RInv, IInv', NEW c \in Client, NEW m \in Request, Call(c, m)
    PROVE  RInv'
  <1>1. TypeOK /\ Owner
    BY DEF RInv, IInv
  <1>2. /\ pc[c] = "idle" /\ pc' = [pc EXCEPT ![c] = "lock"]
        /\ msgs' = [msgs EXCEPT ![c] = m]
        /\ UNCHANGED <<mutex, cur, pos, got, ret>>
        /\ UNCHANGED <<control, trans, data, index, status, wire>>
    BY DEF Call, Goto, hardware
  <1>3. mutex # c /\ m # <<>>
    <2>1. mutex # c
      BY <1>1, <1>2 DEF Owner
    <2>2. Len(m) > 0 /\ m \in Seq(Msg)
      BY RequestAssumption
    <2> QED
      BY <2>1, <2>2, EmptySeq
  <1>4. Outside(c)'
    BY <1>1, <1>2, <1>3 DEF RInv, Outside, TypeOK
  <1>5. ASSUME NEW d \in Client, d # c
        PROVE  IF mutex' = d THEN Owned(d)' ELSE Outside(d)'
    <2>1. Same(d)
      BY <1>1, <1>2, <1>5 DEF Same, TypeOK
    <2> QED
      BY <1>2, <2>1, SameOwned, Waiting DEF RInv, Same
  <1> QED
    BY <1>2, <1>3, <1>4, <1>5 DEF RInv

LEMMA StepExtra ==
    ASSUME RInv, IInv', NEW c \in Client, Step(c)
    PROVE  RInv'
  <1>1. TypeOK /\ Owner
    BY DEF RInv, IInv
  <1>2. (mutex = NoClient /\ Lock(c)) \/ mutex = c
    BY <1>1, StepOwner DEF Busy, Owner, Step, Lock, Enable, SelectPins, SetTransaction,
       PutAddress, PutByte, Go, Poll, Ack, Reply, TakeByte, ReplyAck, NextMessage,
       DeselectPins, Reset, ClearReset, Unlock
  <1>3. ASSUME NEW d \in Client, d # c
        PROVE  mutex # d /\ mutex' # d /\ Outside(d)'
    <2>1. mutex # d
      BY <1>2, <1>3, ClientAssumption
    <2>2. mutex' \in {c, NoClient}
      BY <1>1, <1>2, StepOwner
    <2>3. Outside(d)
      BY <2>1 DEF RInv
    <2>4. ret'[d] = ret[d]
      BY <1>1, <1>3 DEF TypeOK, Step, Lock, Enable, SelectPins, SetTransaction,
         PutAddress, PutByte, Go, Poll, Ack, Reply, TakeByte, ReplyAck, NextMessage,
         DeselectPins, Reset, ClearReset, Unlock
    <2>5. Outside(d)'
      BY <1>1, <1>3, <2>3, <2>4, StepLocal, Waiting
    <2> QED
      BY <1>3, <2>1, <2>2, <2>5, ClientAssumption
  <1>4. CASE Lock(c)
    <2>1. Owned(c)' /\ mutex' = c
      BY <1>4, LockOwned DEF Lock
    <2> QED
      BY <1>3, <2>1, ClientAssumption DEF RInv
  <1>5. CASE mutex = c /\ Unlock(c)
    <2>1. Outside(c)' /\ wire' = <<>> /\ mutex' = NoClient
      BY <1>5, UnlockOutside
    <2> QED
      BY <1>3, <2>1, ClientAssumption DEF RInv
  <1>6. CASE mutex = c /\ ~ Unlock(c)
    <2>1. Owned(c)' /\ mutex' = c
      BY <1>6, OwnStep
    <2> QED
      BY <1>3, <2>1, ClientAssumption DEF RInv
  <1> QED
    BY <1>2, <1>4, <1>5, <1>6

LEMMA EngineExtra ==
    ASSUME RInv, IInv', Engine
    PROVE  RInv'
  <1>1. UNCHANGED <<mutex, pc, msgs, cur, got, ret>>
    BY DEF Engine, EngineStarts, EngineSucceeds, EngineFails, software
  <1>2. mutex # NoClient
    <2>1. control.go \/ status = {"BUSY"}
      BY DEF Engine, EngineStarts, EngineSucceeds, EngineFails
    <2> QED
      BY <2>1 DEF RInv, IInv, RestWhenFree
  <1>3. ASSUME NEW d \in Client
        PROVE  IF mutex' = d THEN Owned(d)' ELSE Outside(d)'
    <2>1. CASE mutex = d
      BY <1>1, <2>1, StartsOwned, FailsOwned, SucceedsOwned DEF Engine
    <2>2. CASE mutex # d
      BY <1>1, <2>2, Waiting DEF RInv
    <2> QED
      BY <2>1, <2>2
  <1> QED
    BY <1>1, <1>2, <1>3 DEF RInv

(* In every reachable state what slaves have done, what the buffer holds   *)
(* and what the client has been given are what the owner's place says.     *)
THEOREM RInductive == Spec => []RInv
  <1>1. Init /\ IInv => RInv
    <2> SUFFICES ASSUME Init, IInv PROVE RInv
      OBVIOUS
    <2>1. \A c \in Client : mutex # c /\ Outside(c)
      BY ClientAssumption DEF Init, Outside
    <2> QED
      BY <2>1 DEF Init, RInv
  <1>2. RInv /\ IInv' /\ [Next]_vars => RInv'
    <2> SUFFICES ASSUME RInv, IInv', [Next]_vars PROVE RInv'
      OBVIOUS
    <2>1. CASE UNCHANGED vars
      <3>1. /\ UNCHANGED <<mutex, wire, pc, msgs, cur, got, ret>>
            /\ \A d \in Client : Same(d)
        BY <2>1 DEF vars, software, hardware, Same
      <3>2. \A d \in Client : IF mutex' = d THEN Owned(d)' ELSE Outside(d)'
        BY <3>1, SameOwned, Waiting DEF RInv
      <3> QED
        BY <3>1, <3>2 DEF RInv
    <2> QED
      BY <2>1, CallExtra, StepExtra, EngineExtra DEF Next
  <1> QED
    BY <1>1, <1>2, Inductive, PTL DEF Spec

-----------------------------------------------------------------------------
(* What the clients see of it.  Nobody has started at first.               *)
LEMMA NobodyStarted == Init => Adapter!Init
  <1> SUFFICES ASSUME Init PROVE Adapter!Init
    OBVIOUS
  <1>1. \A c \in Client : ~ Answered(c)
    BY DEF Init, Answered
  <1>2. Answers = [c \in Client |-> "none"] /\ Replies = [c \in Client |-> <<>>]
    BY <1>1 DEF Answers, Replies
  <1> QED
    BY <1>2 DEF Init, Adapter!Init

(* The answers and replies of those that do nothing stay.                  *)
LEMMA SameSeen ==
    ASSUME \A d \in Client :
             /\ Answered(d)' <=> Answered(d)
             /\ Answered(d) => ret'[d] = ret[d] /\ got'[d] = got[d]
    PROVE  Answers' = Answers /\ Replies' = Replies
  <1>1. \A d \in Client : (IF Answered(d)' THEN ret'[d] ELSE "none")
                         = (IF Answered(d) THEN ret[d] ELSE "none")
    OBVIOUS
  <1>2. \A d \in Client : (IF Answered(d)' /\ ret'[d] = "num" THEN got'[d] ELSE <<>>)
                         = (IF Answered(d) /\ ret[d] = "num" THEN got[d] ELSE <<>>)
    OBVIOUS
  <1> QED
    BY <1>1, <1>2 DEF Answers, Replies

LEMMA OneSeen ==
    ASSUME NEW c \in Client,
           \A d \in Client \ {c} : pc'[d] = pc[d] /\ ret'[d] = ret[d] /\ got'[d] = got[d]
    PROVE  /\ Answers' = [Answers EXCEPT ![c] = Answers'[c]]
           /\ Replies' = [Replies EXCEPT ![c] = Replies'[c]]
           /\ Answers[c] = IF Answered(c) THEN ret[c] ELSE "none"
           /\ Answers'[c] = IF Answered(c)' THEN ret'[c] ELSE "none"
           /\ Replies'[c] = IF Answered(c)' /\ ret'[c] = "num" THEN got'[c] ELSE <<>>
           /\ ~ (Answered(c) /\ ret[c] = "num") => Replies[c] = <<>>
  <1>1. \A d \in Client \ {c} : (Answered(d)' <=> Answered(d))
    BY DEF Answered
  <1> QED
    BY <1>1 DEF Answers, Replies

LEMMA CallRefines ==
    ASSUME RInv, NEW c \in Client, NEW m \in Request, Call(c, m)
    PROVE  Adapter!Call(c)
  <1>1. TypeOK /\ Owner
    BY DEF RInv, IInv
  <1>2. /\ pc[c] = "idle" /\ pc' = [pc EXCEPT ![c] = "lock"]
        /\ msgs' = [msgs EXCEPT ![c] = m]
        /\ UNCHANGED <<mutex, wire, got, ret>>
    BY DEF Call, Goto, hardware
  <1>3. msgs[c] = <<>>
    BY <1>1, <1>2 DEF RInv, Owner, Outside
  <1>4. Answers' = Answers /\ Replies' = Replies
    <2>1. \A d \in Client : (Answered(d)' <=> Answered(d))
      BY <1>1, <1>2 DEF Answered, TypeOK
    <2> QED
      BY <1>2, <2>1, SameSeen
  <1> QED
    BY <1>2, <1>3, <1>4 DEF Adapter!Call

LEMMA LockRefines ==
    ASSUME RInv, NEW c \in Client, Lock(c)
    PROVE  Adapter!Begin(c)
  <1>1. TypeOK /\ Owner
    BY DEF RInv, IInv
  <1>2. /\ pc[c] = "lock" /\ pc' = [pc EXCEPT ![c] = "enable"]
        /\ mutex = NoClient /\ mutex' = c
        /\ UNCHANGED <<msgs, wire, got, ret>>
    BY DEF Lock, Goto, hardware
  <1>3. msgs[c] # <<>>
    BY <1>1, <1>2, ClientAssumption DEF RInv, Outside
  <1>4. Answers' = Answers /\ Replies' = Replies
    <2>1. \A d \in Client : (Answered(d)' <=> Answered(d))
      BY <1>1, <1>2 DEF Answered, TypeOK
    <2> QED
      BY <1>2, <2>1, SameSeen
  <1> QED
    BY <1>2, <1>3, <1>4 DEF Adapter!Begin

(* A step of the owner that nobody sees.                                   *)
LEMMA HiddenRefines ==
    ASSUME RInv, NEW c \in Client, mutex = c, Step(c), ~ Reset(c), ~ Unlock(c)
    PROVE  UNCHANGED Adapter!vars
  <1>1. TypeOK /\ ~ Lock(c)
    BY OfOwner DEF Lock
  <1>2. UNCHANGED <<mutex, msgs, wire>>
    BY <1>1 DEF Step, Enable, SelectPins, SetTransaction, PutAddress, PutByte, Go, Poll,
       Ack, Reply, TakeByte, ReplyAck, NextMessage, DeselectPins, ClearReset, hardware
  <1>3. \/ ~ Answered(c) /\ ~ Answered(c)'
        \/ Answered(c) /\ Answered(c)' /\ ret' = ret /\ got' = got
    <2>1. CASE ClearReset(c)
      BY <1>1, <2>1 DEF ClearReset, Goto, TypeOK, Answered
    <2>2. CASE Enable(c) \/ SelectPins(c) \/ SetTransaction(c) \/ PutAddress(c)
               \/ PutByte(c) \/ Go(c) \/ Poll(c)
      BY <1>1, <2>2 DEF Enable, SelectPins, SetTransaction, PutAddress, PutByte, Go,
         Poll, Goto, TypeOK, Answered
    <2>3. CASE Ack(c) \/ Reply(c) \/ TakeByte(c) \/ ReplyAck(c) \/ NextMessage(c)
               \/ DeselectPins(c)
      BY <1>1, <2>3 DEF Ack, Reply, TakeByte, ReplyAck, NextMessage, DeselectPins,
         Goto, TypeOK, Answered, AfterFailure
    <2> QED
      BY <1>1, <2>1, <2>2, <2>3 DEF Step
  <1>4. ASSUME NEW d \in Client, d # c
        PROVE  pc'[d] = pc[d] /\ ret'[d] = ret[d] /\ got'[d] = got[d]
    <2>1. ret'[d] = ret[d]
      BY <1>1, <1>4 DEF TypeOK, Step, Enable, SelectPins, SetTransaction,
         PutAddress, PutByte, Go, Poll, Ack, Reply, TakeByte, ReplyAck, NextMessage,
         DeselectPins, ClearReset
    <2> QED
      BY <1>1, <1>4, <2>1, StepLocal
  <1>5. Answers' = Answers /\ Replies' = Replies
    BY <1>3, <1>4, SameSeen DEF Answered
  <1> QED
    BY <1>2, <1>5 DEF Adapter!vars

(* The reset of the engine ends the transfer: with success, all of its     *)
(* messages have been done.                                                *)
LEMMA ResetRefines ==
    ASSUME RInv, NEW c \in Client, mutex = c, Reset(c)
    PROVE  Adapter!Succeed(c) \/ Adapter!FailTransfer(c)
  <1>1. TypeOK /\ Tally(c) /\ (Fits(msgs[c]) => Replied(c)) /\ cur[c] \in Nat
    BY OfOwner
  <1>2. /\ pc[c] = "reset" /\ pc' = [pc EXCEPT ![c] = "clear"]
        /\ UNCHANGED <<mutex, msgs, wire, got, ret>>
    BY DEF Reset, Goto
  <1>3. ~ Answered(c) /\ Answered(c)'
    BY <1>1, <1>2 DEF Answered, TypeOK
  <1>4. ret[c] \in {"num", "EIO"}
    BY <1>1, <1>2 DEF Tally, TypeOK
  <1>5. /\ Answers' = [Answers EXCEPT ![c] = ret[c]]
        /\ Replies' = [Replies EXCEPT ![c] = Replies'[c]]
        /\ Answers[c] = "none"
        /\ Replies'[c] = IF ret[c] = "num" THEN got[c] ELSE <<>>
        /\ Replies[c] = <<>>
    <2>1. \A d \in Client \ {c} : pc'[d] = pc[d] /\ ret'[d] = ret[d] /\ got'[d] = got[d]
      BY <1>1, <1>2 DEF TypeOK
    <2> QED
      BY <1>2, <1>3, <2>1, OneSeen
  <1>6. CASE ret[c] = "num"
    <2>1. Len(wire) = cur[c] /\ cur[c] = Len(msgs[c])
      BY <1>1, <1>2, <1>6 DEF Tally
    <2>2. Len(PlanOf(msgs[c])) = Len(msgs[c])
      <3>1. msgs[c] \in Seq(Msg)
        BY OfOwner, RequestAssumption
      <3>2. DOMAIN msgs[c] = 1 .. Len(msgs[c]) /\ Len(msgs[c]) \in Nat
        BY <3>1, LenProperties
      <3> QED
        BY <3>2 DEF PlanOf
    <2>3. IsReply(Replies'[c], wire, msgs[c])
      BY <1>1, <1>2, <1>5, <1>6, <2>1 DEF Replied, IsReply
    <2>4. Adapter!Succeed(c)
      BY <1>2, <1>5, <1>6, <2>1, <2>2, <2>3 DEF Adapter!Succeed, Adapter!Underway
    <2> QED
      BY <2>4
  <1>7. CASE ret[c] = "EIO"
    <2>1. Replies' = Replies
      <3>1. Replies'[c] = Replies[c]
        BY <1>5, <1>7
      <3>2. Replies' = [Replies EXCEPT ![c] = Replies[c]]
        BY <1>5, <3>1
      <3>3. Replies = [d \in Client |-> Replies[d]]
        BY DEF Replies
      <3> QED
        BY <3>2, <3>3
    <2>2. Adapter!FailTransfer(c)
      BY <1>2, <1>5, <1>7, <2>1 DEF Adapter!FailTransfer, Adapter!Underway
    <2> QED
      BY <2>2
  <1> QED
    BY <1>4, <1>6, <1>7

LEMMA UnlockRefines ==
    ASSUME RInv, NEW c \in Client, mutex = c, Unlock(c)
    PROVE  Adapter!Return(c)
  <1>1. TypeOK /\ Tally(c)
    BY OfOwner
  <1>2. /\ pc[c] = "unlock" /\ pc' = [pc EXCEPT ![c] = "idle"]
        /\ mutex' = NoClient /\ wire' = <<>>
        /\ msgs' = [msgs EXCEPT ![c] = <<>>]
        /\ got' = [got EXCEPT ![c] = <<>>] /\ ret' = [ret EXCEPT ![c] = "none"]
    BY DEF Unlock, Goto
  <1>3. Answered(c) /\ ~ Answered(c)' /\ ret[c] # "none"
    BY <1>1, <1>2 DEF Answered, TypeOK, Tally
  <1>4. \A d \in Client \ {c} : pc'[d] = pc[d] /\ ret'[d] = ret[d] /\ got'[d] = got[d]
    BY <1>1, <1>2 DEF TypeOK
  <1>5. /\ Answers' = [Answers EXCEPT ![c] = "none"] /\ Answers[c] # "none"
        /\ Replies' = [Replies EXCEPT ![c] = <<>>]
    BY <1>3, <1>4, OneSeen
  <1> QED
    BY <1>2, <1>5 DEF Adapter!Return

(* The engine's transaction is the next one of the plan.                   *)
LEMMA EngineRefines ==
    ASSUME RInv, Engine
    PROVE  (\E c \in Client : Adapter!Perform(c)) \/ UNCHANGED Adapter!vars
  <1>1. UNCHANGED <<mutex, pc, msgs, got, ret>>
    BY DEF Engine, EngineStarts, EngineSucceeds, EngineFails, software
  <1>2. Answers' = Answers /\ Replies' = Replies
    BY <1>1, SameSeen DEF Answered
  <1>3. CASE EngineStarts \/ EngineFails
    BY <1>1, <1>2, <1>3 DEF Adapter!vars, EngineStarts, EngineFails
  <1>4. CASE EngineSucceeds
    <2>1. mutex \in Client
      <3>1. status = {"BUSY"}
        BY <1>4 DEF EngineSucceeds
      <3> QED
        BY <3>1 DEF RInv, IInv, RestWhenFree, TypeOK
    <2> DEFINE c == mutex
    <2>2. c \in Client /\ mutex = c
      BY <2>1
    <2> HIDE DEF c
    <2>3. PICK e \in Msg :
            /\ wire' = Append(wire, e)
            /\ Fits(msgs[c]) => SameMsg(e, CurMsg(c))
      BY <1>4, <2>2, Carried
    <2>4. /\ pc[c] \in {"poll", "ack", "unpin", "reset"} /\ Len(wire) = cur[c] - 1
          /\ cur[c] \in 1 .. Len(msgs[c]) /\ cur[c] \in Nat /\ wire \in Seq(Msg)
          /\ msgs[c] \in Request
      BY <2>2, EngineFor, OfOwner DEF TypeOK
    <2>5. /\ Len(wire') = Len(wire) + 1 /\ Len(wire) \in Nat /\ Len(wire') = cur[c]
          /\ wire'[Len(wire')] = e /\ SubSeq(wire', 1, Len(wire)) = wire
      <3>1. /\ Len(wire') = Len(wire) + 1 /\ Len(wire) \in Nat
            /\ wire'[Len(wire) + 1] = e
        BY <2>3, <2>4, AppendProperties, LenProperties
      <3>2. Front(wire') = wire
        BY <2>3, <2>4, FrontOfAppend
      <3>3. Len(wire') - 1 = Len(wire)
        BY <3>1
      <3> QED
        BY <2>4, <3>1, <3>2, <3>3 DEF Front
    <2>6. /\ Len(PlanOf(msgs[c])) = Len(msgs[c]) /\ Len(msgs[c]) \in Nat
          /\ PlanOf(msgs[c])[cur[c]] = [msg |-> CurMsg(c), fits |-> Fits(msgs[c])]
      <3>1. DOMAIN msgs[c] = 1 .. Len(msgs[c]) /\ Len(msgs[c]) \in Nat
        BY <2>4, RequestAssumption, LenProperties
      <3> QED
        BY <2>4, <3>1 DEF PlanOf, CurMsg
    <2>7. IsDone(wire'[Len(wire')], PlanOf(msgs[c])[Len(wire')])
      BY <2>3, <2>5, <2>6 DEF IsDone
    <2>8. Answers[c] = "none"
      BY <2>2, <2>4 DEF Answers, Answered
    <2>9. Len(wire) < Len(PlanOf(msgs[c]))
      BY <2>4, <2>6
    <2>10. Adapter!Perform(c)
      BY <1>1, <1>2, <2>2, <2>5, <2>7, <2>8, <2>9 DEF Adapter!Perform, Adapter!Underway
    <2> QED
      BY <2>2, <2>10
  <1> QED
    BY <1>3, <1>4 DEF Engine

(* Every step of clients and engine is one that the promise allows, or     *)
(* none.                                                                   *)
THEOREM StepRefines == RInv /\ [Next]_vars => [Adapter!Next]_(Adapter!vars)
  <1> SUFFICES ASSUME RInv, [Next]_vars
               PROVE  Adapter!Next \/ UNCHANGED Adapter!vars
    OBVIOUS
  <1>1. CASE UNCHANGED vars
    <2>1. UNCHANGED <<mutex, pc, msgs, got, ret, wire>>
      BY <1>1 DEF vars, software, hardware
    <2>2. Answers' = Answers /\ Replies' = Replies
      BY <2>1, SameSeen DEF Answered
    <2> QED
      BY <2>1, <2>2 DEF Adapter!vars
  <1>2. ASSUME NEW c \in Client, NEW m \in Request, Call(c, m)
        PROVE  Adapter!Next
    BY <1>2, CallRefines DEF Adapter!Next
  <1>3. ASSUME NEW c \in Client, Step(c)
        PROVE  Adapter!Next \/ UNCHANGED Adapter!vars
    <2>1. TypeOK /\ Owner
      BY DEF RInv, IInv
    <2>2. Lock(c) \/ mutex = c
      BY <1>3, <2>1 DEF Owner, Step, Enable, SelectPins, SetTransaction, PutAddress,
         PutByte, Go, Poll, Ack, Reply, TakeByte, ReplyAck, NextMessage, DeselectPins,
         Reset, ClearReset, Unlock
    <2>3. CASE Lock(c)
      BY <2>3, LockRefines DEF Adapter!Next
    <2>4. CASE mutex = c /\ (Reset(c) \/ Unlock(c))
      BY <2>4, ResetRefines, UnlockRefines DEF Adapter!Next
    <2>5. CASE mutex = c /\ ~ Reset(c) /\ ~ Unlock(c)
      BY <1>3, <2>5, HiddenRefines
    <2> QED
      BY <2>2, <2>3, <2>4, <2>5
  <1>4. CASE Engine
    BY <1>4, EngineRefines DEF Adapter!Next
  <1> QED
    BY <1>1, <1>2, <1>3, <1>4 DEF Next

(* For any clients and any messages the adapter implements I2cAdapter:     *)
(* messages that its buffer has room for are done once, in order and as    *)
(* they were given, all of them when a transfer succeeds, and its reads    *)
(* have the bytes that the slaves sent.                                    *)
THEOREM ImplementsTheorem == Spec => Implements
  BY NobodyStarted, StepRefines, RInductive, PTL
     DEF Spec, Implements, Adapter!Spec
=============================================================================
