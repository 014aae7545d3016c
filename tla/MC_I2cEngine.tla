---------------------------- MODULE MC_I2cEngine ----------------------------
(* Two clients, a slave at address 1 and none at 2, bytes of six values    *)
(* (so that both addresses fit one), a buffer of four entries and three    *)
(* polls.  Between them the requests have a probe, a write that fills the  *)
(* buffer, a write and a read, a message that nobody answers, and a write  *)
(* and a read that the buffer has no room for.                             *)
EXTENDS I2cEngine

W(a, b) == [addr |-> a, rd |-> FALSE, buf |-> b]
R(a, n) == [addr |-> a, rd |-> TRUE, buf |-> [i \in 1 .. n |-> 0]]

MCRequest == {
    <<W(1, <<>>)>>,
    <<W(1, <<3>>), R(1, 1)>>,
    <<W(1, <<1, 2, 3>>), W(1, <<4>>)>>,
    <<W(2, <<1>>), W(1, <<2>>)>>,
    <<W(1, <<1, 0, 1, 0, 2>>)>>,
    <<R(1, 5)>> }
=============================================================================
