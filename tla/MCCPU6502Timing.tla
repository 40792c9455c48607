-------------------------- MODULE MCCPU6502Timing --------------------------
(* Every instruction, over six byte values of which the program uses 0, 2  *)
(* and 5: as offsets they are +0, +2 and -1; as index or operand the sums  *)
(* cross a page, the zero page and the address space, or stay inside.      *)
EXTENDS CPU6502Timing

MCBytes  == {0, 2, 5}
MCModes  == Instructions
MCStarts == {<<0, 3>>, <<5, 4>>}

=============================================================================
