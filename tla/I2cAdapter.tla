------------------------------ MODULE I2cAdapter ------------------------------
(***************************************************************************)
(* What an i2c adapter promises the i2c core, whichever of the two in the  *)
(* module it is (aura-gpu-hw.c, aura-gpu-i2c.c): transfers follow each     *)
(* other; each is a plan of transactions on the bus, of which the slaves   *)
(* do a first part, in order and one at a time; and the adapter answers    *)
(* that all is done only when it is, with what the slaves sent.            *)
(*                                                                         *)
(* What a transaction is, a byte or a message, is the adapter's own: it    *)
(* says so by Plan, and by IsDone(e, a), that e is a way to do a.          *)
(***************************************************************************)
EXTENDS Integers, Sequences

CONSTANTS
    Client,         \* the threads that transfer
    NoClient,       \* nobody
    Request,        \* what they may ask for
    Refused,        \* the requests that the adapter has no transaction for
    Plan(_),        \* the transactions of a request
    IsDone(_, _),   \* what was done is what was asked for
    IsReply(_, _, _)    \* the bytes for the client are those of the slaves

VARIABLES
    call,       \* what each client asks for, or <<>>
    owner,      \* whose transfer it is
    done,       \* what slaves did for it
    answer,     \* what each client is told: "none", "num" or "EIO"
    reply       \* the bytes that each client is given

vars == <<call, owner, done, answer, reply>>

Init ==
    /\ call = [c \in Client |-> <<>>]
    /\ owner = NoClient
    /\ done = <<>>
    /\ answer = [c \in Client |-> "none"]
    /\ reply = [c \in Client |-> <<>>]

Call(c) ==
    /\ call[c] = <<>>
    /\ \E m \in Request : call' = [call EXCEPT ![c] = m]
    /\ UNCHANGED <<owner, done, answer, reply>>

Begin(c) ==
    /\ owner = NoClient
    /\ call[c] # <<>>
    /\ owner' = c
    /\ UNCHANGED <<call, done, answer, reply>>

Underway(c) == owner = c /\ answer[c] = "none"

(* The next transaction of the plan is done.                               *)
Perform(c) ==
    /\ Underway(c)
    /\ Len(done) < Len(Plan(call[c]))
    /\ Len(done') = Len(done) + 1
    /\ SubSeq(done', 1, Len(done)) = done
    /\ IsDone(done'[Len(done')], Plan(call[c])[Len(done')])
    /\ UNCHANGED <<call, owner, answer, reply>>

Succeed(c) ==
    /\ Underway(c)
    /\ call[c] \notin Refused
    /\ Len(done) = Len(Plan(call[c]))
    /\ answer' = [answer EXCEPT ![c] = "num"]
    /\ reply' = [reply EXCEPT ![c] = reply'[c]]
    /\ IsReply(reply'[c], done, call[c])
    /\ UNCHANGED <<call, owner, done>>

FailTransfer(c) ==
    /\ Underway(c)
    /\ answer' = [answer EXCEPT ![c] = "EIO"]
    /\ UNCHANGED <<call, owner, done, reply>>

Return(c) ==
    /\ owner = c
    /\ answer[c] # "none"
    /\ owner' = NoClient
    /\ done' = <<>>
    /\ call' = [call EXCEPT ![c] = <<>>]
    /\ answer' = [answer EXCEPT ![c] = "none"]
    /\ reply' = [reply EXCEPT ![c] = <<>>]

Next == \E c \in Client :
    \/ Call(c) \/ Begin(c) \/ Perform(c)
    \/ Succeed(c) \/ FailTransfer(c) \/ Return(c)

Spec == Init /\ [][Next]_vars
=============================================================================
