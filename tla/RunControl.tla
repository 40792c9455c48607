----------------------------- MODULE RunControl ------------------------------
(***************************************************************************)
(* The run loop of the emulator and the terminal controls beside it        *)
(* (cmd/emuai/main.go): the main goroutine runs runMachine and the         *)
(* shutdown behind it, the control goroutine of startPauseControls reads   *)
(* keys and runs the pause menu.  They share runControl.paused, the        *)
(* context and the opcode table; Ctrl-C and the timeout cancel the context *)
(* from outside.  The machine behind Step is abstracted to what the loop   *)
(* asks of it.                                                             *)
(***************************************************************************)
EXTENDS Naturals

CONSTANTS
  MaxCycles,    \* the -max-cycles option, 0 for no limit
  Realtime      \* the -realtime option

ASSUME MaxCyclesAssumption == MaxCycles \in Nat
ASSUME RealtimeAssumption  == Realtime \in BOOLEAN

VARIABLES
  loop,         \* where the main goroutine is
  control,      \* where the control goroutine is
  paused,       \* runControl.paused
  cancelled,    \* the context is done
  cycle,        \* Motherboard.cycle
  machine,      \* what the next round of the loop will find: "running",
                \*   "atStopPC" or "halted"
  table,        \* the CPU that the opcode table drives
  stopCh,       \* stopCh is closed
  tty           \* the terminal: "raw", "restored" or "closed"

vars == <<loop, control, paused, cancelled, cycle, machine, table, stopCh, tty>>

LoopStates ==
  { "checking", "waiting", "ready", "stepping",           \* runMachine
    "ended", "stopping", "restored", "closed", "exited",  \* main's defers
    "fatal" }                                             \* log.Fatalf

ControlStates ==
  { "listening", "reading", "stuckReading",               \* the key loop
    "menu", "choosing", "prompting", "dumping",           \* runPauseMenu
    "gone" }

Init ==
  /\ loop = "checking"
  /\ control = "listening"
  /\ paused = FALSE
  /\ cancelled = FALSE
  /\ cycle = 0
  /\ machine \in {"running", "atStopPC"}
  /\ table = "machine"
  /\ stopCh = FALSE
  /\ tty = "raw"

-----------------------------------------------------------------------------
(* The main goroutine: runMachine. *)

mainOnly == <<control, paused, cancelled, table>>

(* A slip: the limit is noticed one cycle late. *)
LimitPassed == MaxCycles > 0 /\ cycle > MaxCycles

LimitReached == MaxCycles > 0 /\ cycle >= MaxCycles

Check ==
  /\ loop = "checking"
  /\ loop' = IF cancelled \/ machine # "running" \/ LimitReached
               THEN "ended" ELSE "waiting"
  /\ UNCHANGED <<mainOnly, cycle, machine, stopCh, tty>>

(* A slip: a paused loop that does not look at the context. *)
WaitDeaf ==
  /\ loop = "waiting"
  /\ loop' = IF ~paused THEN "ready" ELSE "waiting"
  /\ UNCHANGED <<mainOnly, cycle, machine, stopCh, tty>>

(* waitWhilePaused: one look at the pause flag, and, while it is set, one  *)
(* at the context.  The 25 ms of sleep between two looks is a stutter.     *)
Wait ==
  /\ loop = "waiting"
  /\ loop' = IF ~paused THEN "ready" ELSE IF cancelled THEN "ended" ELSE "waiting"
  /\ UNCHANGED <<mainOnly, cycle, machine, stopCh, tty>>

(* A real-time loop waits for its ticker, or leaves when the context ends. *)
AbandonTick ==
  /\ loop = "ready" /\ Realtime /\ cancelled
  /\ loop' = "ended"
  /\ UNCHANGED <<mainOnly, cycle, machine, stopCh, tty>>

StartStep ==
  /\ loop = "ready"
  /\ loop' = "stepping"
  /\ UNCHANGED <<mainOnly, cycle, machine, stopCh, tty>>

(* A slip: a loop that looks at the pause flag before its first step only. *)
FinishStepAndGo(outcome) ==
  /\ loop = "stepping"
  /\ cycle' = cycle + 1
  /\ IF outcome = "error"
       THEN loop' = "fatal" /\ UNCHANGED machine
       ELSE machine' = outcome /\ loop' = IF outcome = "running" /\ ~LimitReached
                                          THEN "ready" ELSE "checking"
  /\ UNCHANGED <<mainOnly, stopCh, tty>>

(* Step counts the cycle also when a component failed. *)
FinishStep(outcome) ==
  /\ loop = "stepping"
  /\ cycle' = cycle + 1
  /\ IF outcome = "error"
       THEN loop' = "fatal" /\ UNCHANGED machine
       ELSE loop' = "checking" /\ machine' = outcome
  /\ UNCHANGED <<mainOnly, stopCh, tty>>

(* The main goroutine: the function that startPauseControls returned. *)
CloseStopCh ==
  /\ loop = "ended"
  /\ loop' = "stopping" /\ stopCh' = TRUE
  /\ UNCHANGED <<mainOnly, cycle, machine, tty>>

RestoreTerminal ==
  /\ loop = "stopping"
  /\ loop' = "restored" /\ tty' = "restored"
  /\ UNCHANGED <<mainOnly, cycle, machine, stopCh>>

CloseTerminal ==
  /\ loop = "restored"
  /\ loop' = "closed" /\ tty' = "closed"
  /\ UNCHANGED <<mainOnly, cycle, machine, stopCh>>

(* A slip: main does not wait for the control goroutine. *)
ExitAlone ==
  /\ loop = "closed"
  /\ loop' = "exited"
  /\ UNCHANGED <<mainOnly, cycle, machine, stopCh, tty>>

(* <-doneCh, then the other deferred calls. *)
Exit ==
  /\ loop = "closed" /\ control = "gone"
  /\ loop' = "exited"
  /\ UNCHANGED <<mainOnly, cycle, machine, stopCh, tty>>

-----------------------------------------------------------------------------
(* The control goroutine. *)

controlOnly == <<loop, cycle, machine, stopCh, tty>>

(* The process is there until main has returned or called log.Fatalf. *)
Alive == loop \notin {"exited", "fatal"}

(* A slip: the key loop does not look at stopCh. *)
ListenOn ==
  /\ Alive /\ control = "listening"
  /\ control' = "reading"
  /\ UNCHANGED <<controlOnly, paused, cancelled, table>>

Listen ==
  /\ Alive /\ control = "listening"
  /\ control' = IF stopCh THEN "gone" ELSE "reading"
  /\ UNCHANGED <<controlOnly, paused, cancelled, table>>

(* Where the goroutine reads the terminal, and where it goes on an error:  *)
(* a failed read ends the key loop, and the menu with the pause left set.  *)
AfterError == [reading |-> "gone", choosing |-> "listening", prompting |-> "menu"]

(* A read of the raw terminal returns after a tenth of a second (VMIN 0,   *)
(* VTIME 1) with no byte, which os.File.Read reports as io.EOF; a read of  *)
(* a closed one fails.                                                     *)
ReadFails ==
  /\ Alive /\ control \in DOMAIN AfterError
  /\ control' = AfterError[control]
  /\ UNCHANGED <<controlOnly, paused, cancelled, table>>

(* A read that begins when the terminal is restored but not yet closed     *)
(* waits for a line, and closing the file does not wake it up.             *)
ReadBlocks ==
  /\ Alive /\ control \in DOMAIN AfterError /\ tty = "restored"
  /\ control' = "stuckReading"
  /\ UNCHANGED <<controlOnly, paused, cancelled, table>>

(* The user ends the line; the key loop, or the menu's next write, stops.  *)
LineArrives ==
  /\ Alive /\ control = "stuckReading"
  /\ control' = "listening"
  /\ UNCHANGED <<controlOnly, paused, cancelled, table>>

KeyArrives == Alive /\ control = "reading"

(* TogglePaused loads and stores the flag; only this goroutine stores it. *)
PressSpace ==
  /\ KeyArrives
  /\ paused' = ~paused
  /\ control' = IF paused' THEN "menu" ELSE "listening"
  /\ UNCHANGED <<controlOnly, cancelled, table>>

PressQuit ==
  /\ KeyArrives
  /\ cancelled' = TRUE
  /\ control' = "gone"
  /\ UNCHANGED <<controlOnly, paused, table>>

PressOther ==
  /\ KeyArrives
  /\ control' = "listening"
  /\ UNCHANGED <<controlOnly, paused, cancelled, table>>

(* The menu is printed while the loop is paused and the terminal open. *)
PrintMenu ==
  /\ Alive /\ control = "menu"
  /\ control' = IF paused /\ tty # "closed" THEN "choosing" ELSE "listening"
  /\ UNCHANGED <<controlOnly, paused, cancelled, table>>

ChooseResume ==
  /\ Alive /\ control = "choosing"
  /\ paused' = FALSE
  /\ control' = "listening"
  /\ UNCHANGED <<controlOnly, cancelled, table>>

ChooseQuit ==
  /\ Alive /\ control = "choosing"
  /\ cancelled' = TRUE
  /\ control' = "listening"
  /\ UNCHANGED <<controlOnly, paused, table>>

ChooseDump ==
  /\ Alive /\ control = "choosing"
  /\ control' = "prompting"
  /\ UNCHANGED <<controlOnly, paused, cancelled, table>>

(* An unknown choice, or an address that is not one. *)
BackToMenu ==
  /\ Alive
  /\ control \in {"choosing", "prompting"}
  /\ control' = "menu"
  /\ UNCHANGED <<controlOnly, paused, cancelled, table>>

(* DisassembleBlock makes a CPU of its own to decode with, and             *)
(* NewCPU6502 points the opcode table at it.                               *)
StartDump ==
  /\ Alive /\ control = "prompting"
  /\ control' = "dumping"
  /\ table' = "disassembler"
  /\ UNCHANGED <<controlOnly, paused, cancelled>>

FinishDump ==
  /\ Alive /\ control = "dumping"
  /\ control' = "menu"
  /\ UNCHANGED <<controlOnly, paused, cancelled, table>>

-----------------------------------------------------------------------------
(* Ctrl-C or the -timeout option, at any time. *)
Cancel ==
  /\ Alive /\ ~cancelled
  /\ cancelled' = TRUE
  /\ UNCHANGED <<controlOnly, control, paused, table>>

Loop ==
  \/ Check \/ Wait \/ AbandonTick \/ StartStep
  \/ \E outcome \in {"running", "atStopPC", "halted", "error"} : FinishStep(outcome)

Shutdown == CloseStopCh \/ RestoreTerminal \/ CloseTerminal \/ Exit

Keys ==
  \/ Listen \/ ReadFails \/ ReadBlocks
  \/ PressSpace \/ PressQuit \/ PressOther

Menu ==
  \/ PrintMenu \/ ChooseResume \/ ChooseQuit \/ ChooseDump
  \/ BackToMenu \/ StartDump \/ FinishDump

Next == Loop \/ Shutdown \/ Keys \/ Menu \/ LineArrives \/ Cancel

Spec == Init /\ [][Next]_vars

-----------------------------------------------------------------------------
(* Every variable keeps its type; the terminal and stopCh follow the       *)
(* shutdown step by step.                                                  *)
TypeOK ==
  /\ loop \in LoopStates
  /\ control \in ControlStates
  /\ paused \in BOOLEAN /\ cancelled \in BOOLEAN /\ stopCh \in BOOLEAN
  /\ cycle \in Nat
  /\ machine \in {"running", "atStopPC", "halted"}
  /\ table \in {"machine", "disassembler"}
  /\ tty \in {"raw", "restored", "closed"}

(* main.go:612-614: a run never executes more cycles than -max-cycles      *)
(* allows, wherever pauses and failing steps fall.                         *)
CycleLimit == MaxCycles > 0 => cycle <= MaxCycles

(* main.go:937-942: the program leaves the terminal as it found it, unless *)
(* a failed step ended it through log.Fatalf, and never restores it while  *)
(* the loop still runs.                                                    *)
TerminalRestored ==
  /\ loop \in {"checking", "waiting", "ready", "stepping", "ended"} => tty = "raw"
  /\ loop = "exited" => tty = "closed" /\ stopCh /\ control = "gone"

=============================================================================
