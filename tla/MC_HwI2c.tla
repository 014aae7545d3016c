------------------------------ MODULE MC_HwI2c ------------------------------
(* Two clients, slaves at x, where transactions may fail, and at z, where  *)
(* they do not, nothing at y, and bytes of four values, so that a block    *)
(* written from offset 3 wraps over the offset that equals the success     *)
(* status.  The requests are the shapes that the i2c core's SMBus          *)
(* emulation makes, one of each kind, and others that a client may make.   *)
EXTENDS HwI2c

CONSTANTS x, y, z

W(a, b) == [addr |-> a, rd |-> FALSE, buf |-> b]
R(a, b) == [addr |-> a, rd |-> TRUE, buf |-> b]

MCRequest == {
    <<W(x, <<>>)>>,                     \* quick
    <<W(y, <<>>)>>,                     \* quick, nobody there
    <<R(z, <<>>)>>,                     \* quick, with the flag of a read
    <<R(x, <<0>>)>>,                    \* receive byte
    <<R(z, <<0>>)>>,
    <<W(x, <<1>>)>>,                    \* send byte
    <<W(z, <<2, 3>>)>>,                 \* write byte data
    <<W(x, <<3, 1, 2, 3>>)>>,           \* block write that wraps
    <<W(x, <<3>>), R(x, <<0, 0, 0>>)>>, \* block read that wraps
    <<W(z, <<2>>), R(z, <<0, 0>>)>>,
    <<W(x, <<2>>), R(y, <<0>>)>>,       \* second address is not looked at
    <<W(x, <<1>>), W(y, <<3>>)>>,       \* the same, with a write
    <<W(x, <<1>>), W(x, <<2>>)>>,       \* offset, then a write
    <<W(x, <<1, 2>>), R(x, <<0>>)>>,    \* process call
    <<W(x, <<1>>), W(x, <<2>>), R(x, <<0>>)>> }
=============================================================================
