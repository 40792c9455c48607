-------------------------- MODULE RunControlHistory ---------------------------
(***************************************************************************)
(* RunControl with the count of the steps begun behind the user's back,    *)
(* and the fairness under which its progress is stated.                    *)
(***************************************************************************)
EXTENDS RunControl

VARIABLE late   \* steps begun since the loop was paused, 0 while it is not

hvars == <<loop, control, paused, cancelled, cycle, machine, table, stopCh, tty, late>>

LateAfter ==
  IF ~paused' THEN 0
  ELSE IF loop = "ready" /\ loop' = "stepping" THEN late + 1
  ELSE late

HInit == Init /\ late = 0

HNext == Next /\ late' = LateAfter

(* The scheduler runs both goroutines, a step returns, and a read of the   *)
(* terminal does not take forever.  Nobody has to press a key, end a line  *)
(* or cancel.                                                              *)
Scheduling ==
  /\ WF_hvars((Loop \/ Shutdown) /\ late' = LateAfter)
  /\ WF_hvars((Keys \/ Menu) /\ late' = LateAfter)

HSpec == HInit /\ [][HNext]_hvars /\ Scheduling

Running == loop \in {"checking", "waiting", "ready", "stepping"}

-----------------------------------------------------------------------------
(* main.go:616-628,852-861: after the pause was set at most one more step  *)
(* begins, the one whose look at the flag came before it, so the machine   *)
(* the menu then shows stands still but for that step.                     *)
AtMostOneLateStep == late <= 1

(* main.go:594-597,852-861: once Ctrl-C, the timeout or the quit key has   *)
(* cancelled the context, the loop ends, also when it is paused and its    *)
(* control goroutine is gone.                                              *)
CancelEndsLoop == cancelled ~> ~Running

(* main.go:937-942: when the loop has ended, the shutdown gets past the    *)
(* wait for the control goroutine, wherever in its menu that one is.  The  *)
(* exception is a read that began between the restore and the close.       *)
ShutdownEnds == (loop = "ended") ~> (loop = "exited" \/ control = "stuckReading")

(* README.md:92 promises that space opens the pause menu while the         *)
(* emulator is running: the control goroutine listens until the run ends.  *)
ControlsListen == Running /\ ~cancelled => control # "gone"

(* README.md:93: r resumes the execution and m dumps memory: a step after  *)
(* the pause executes the machine's CPU, whatever the menu did meanwhile.  *)
DumpKeepsMachine ==
  [][StartStep /\ ~paused => table = "machine"]_hvars

=============================================================================
