---------------------------- MODULE MC_AtomExec ----------------------------
(* Two threads and small tables: one that sets and uses registers around a *)
(* call, one that waits for a comparison, one that may be stuck in a       *)
(* single jump, one that calls it, and one with every kind of condition    *)
(* and a switch.  Table 1 has two words of parameters and half of a third, *)
(* which the first word of table 2 overlaps.  Table 5 jumps before it      *)
(* compares, and finds flags that another execution left.  Table 9 is      *)
(* called, and executed, but not in the BIOS.  LoopWithIf is the table     *)
(* that the timer does not watch: a loop whose body jumps over an          *)
(* instruction.                                                            *)
EXTENDS AtomExec

SetReg(r, v) == [op |-> "Set", reg |-> r, val |-> v]
UseReg(r) == [op |-> "Use", reg |-> r]
PutPs(i, v) == [op |-> "SetPs", idx |-> i, val |-> v]
JumpIf(c, i) == [op |-> "Jump", cond |-> c, target |-> i]
CallOf(i) == [op |-> "Call", table |-> i]
Cmp == [op |-> "Compare"]
Tst == [op |-> "Test"]
Eot == [op |-> "Eot"]
Bad == [op |-> "Invalid"]

MCProgram == [i \in 1 .. 5 |->
    CASE i = 1 -> <<UseReg("io_mode"), SetReg("io_mode", "v1"), PutPs(1, "v1"),
                    CallOf(2), UseReg("io_mode"), SetReg("shift", "v1"), Eot>>
      [] i = 2 -> <<UseReg("shift"), SetReg("io_mode", "v2"), PutPs(0, "v2"),
                    CallOf(9), Cmp, JumpIf("BELOW", 5), Bad>>
      [] i = 3 -> <<Tst, JumpIf("NOTEQUAL", 1), PutPs(0, "v1"),
                    JumpIf("ALWAYS", 4)>>
      [] i = 4 -> <<SetReg("reg_block", "v1"), CallOf(5), CallOf(3),
                    UseReg("reg_block"), Eot>>
      [] i = 5 -> <<[op |-> "Switch", cases |-> {3, 5}],
                    JumpIf("ABOVE", 6), JumpIf("ABOVEOREQUAL", 6),
                    JumpIf("BELOWOREQUAL", 6), JumpIf("EQUAL", 6), Eot>>]

MCTable == DOMAIN MCProgram \cup {9}

MCPsBytes == [i \in MCTable |-> CASE i = 1 -> 10 [] i = 4 -> 4 [] OTHER -> 8]

LoopWithIf == [i \in {1} |->
    <<Tst, JumpIf("EQUAL", 4), UseReg("io_mode"), Tst, JumpIf("ALWAYS", 1), Eot>>]
=============================================================================
