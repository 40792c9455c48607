---------------------------- MODULE MCCPU6502Run ----------------------------
(* Two programs: returns, BRK and an illegal opcode under interrupts; and   *)
(* jumps, implied instructions and returns, started one page away from the  *)
(* stop address.                                                            *)
EXTENDS CPU6502Run

MCBytes   == {0, 5}
MCStarts  == {<<0, 5>>}
MCOpcodes == {"RTI", "RTS", "BRK", "Illegal"}

MCStopBytes   == {0, 2}
MCStopStarts  == {<<2, 0>>}
MCStopOpcodes == {"implied", "JMPabs", "RTS"}
MCStopPC      == <<0, 3>>
=============================================================================
