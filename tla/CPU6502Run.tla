----------------------------- MODULE CPU6502Run -----------------------------
(***************************************************************************)
(* The core under the run loop (cmd/emuai/main.go runMachine), which ticks *)
(* it again and again and, with the -stop-pc option, looks at it before    *)
(* each tick and returns when it is between instructions with PC at the    *)
(* stop address.                                                           *)
(***************************************************************************)
EXTENDS CPU6502

CONSTANT StopPC   \* the word given with -stop-pc, or no word without it

AtStopPC == current = "none" /\ PC = StopPC

(* The loop's check, then one step of the motherboard. *)
RunTick == ~AtStopPC /\ Tick

RunSpec == Init /\ [][RunTick]_vars

(* runMachine calls Step again and again, and Step ticks every component:  *)
(* weak fairness.  Requests may come at any time, or never.                *)
FairSpec ==
  Init /\ [][RunTick \/ RequestIRQ \/ RequestNMI]_vars /\ WF_vars(RunTick)

-----------------------------------------------------------------------------
(* main.go:168 says of -stop-pc "stop execution before the instruction at  *)
(* this program counter executes": no such instruction is ever begun.      *)
StopsBeforeStopPC ==
  [][current = "none" /\ current' \in Instructions => NextInstruction # StopPC]_vars

Stopped == halted \/ failed

(* cpu6502.go:272-275: an NMI is taken at the end of the instruction in    *)
(* progress, in whatever order it and other requests arrive, and is not    *)
(* lost in the prefetch of RTS.                                            *)
NMITaken == pendingNMI ~> (current = "NMI" \/ Stopped)

(* cpu6502.go:276-279: an enabled IRQ is taken before the next instruction *)
(* unless the one in progress, or an NMI, masks it again.                  *)
IRQTaken == (pendingIRQ /\ ~flagI) ~> (current = "IRQ" \/ flagI \/ Stopped)

(* cpu6502.go:153-156: an opcode outside the table stops the run at the    *)
(* fetch, or at the tick that decodes a prefetched one, unless interrupts  *)
(* are served instead.                                                     *)
IllegalStops ==
  (prefetched = "Illegal") ~> (failed \/ current \in Interrupts)
=============================================================================
