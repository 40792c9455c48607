--------------------------- MODULE MCCPU6502Calls ---------------------------
(* Eight byte values: a stack that holds a call, an IRQ and an NMI and     *)
(* wraps below its first slot.  Operands are 2 or 5: jump targets in two   *)
(* pages other than the stack's, and both values of a pulled I flag.       *)
EXTENDS CPU6502Calls

MCBytes   == Byte
MCProgram == {2, 5}
MCStarts  == {<<2, 6>>}
MCOpcodes == {"CLI", "JSR", "RTS", "RTI", "PHA", "PLA", "PHP", "PLP", "BRK"}
MCReturnOpcodes == {"JSR", "RTS", "RTI"}

=============================================================================
