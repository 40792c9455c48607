---------------------------- MODULE TracedMachine ----------------------------
(***************************************************************************)
(* The machine with the instruction trace: in its tick the CPU writes the  *)
(* trace of an instruction or an interrupt, and in the same Step the       *)
(* renderer may read it for its frame.  The registers, and the line, of    *)
(* the n-th instruction traced are the number n; the header is 0.  The     *)
(* history says what the trace should hold, whatever the overlay does.     *)
(***************************************************************************)
EXTENDS Machine, TraceOverlay

VARIABLES
  traceOn,     \* the -trace option, with an overlay to write to
  headerOut,   \* traceHeaderOut
  traced,      \* the instructions traced before this Step
  tracing,     \* the parts of a trace written in this Step
  present,     \* how far Present is, and what it has read
  script,      \* history: the lines of the trace up to the last Step
  headed       \* history: the last of them are behind the CPU's last reset

history   == <<script, headed>>
traceVars == <<overlay, traceOn, headerOut, traced, tracing, present, history>>
tvars     == <<mvars, traceVars>>

NotCalled == [step |-> "idle", text |-> <<>>, cycle |-> 0, registers |-> 0]

TInit ==
  /\ MInit
  /\ overlay = Empty
  /\ traceOn \in BOOLEAN
  /\ headerOut = FALSE
  /\ traced = 0 /\ tracing = 0
  /\ present = NotCalled
  /\ script = <<>> /\ headed = FALSE

-----------------------------------------------------------------------------
(* A slip: the registers are handed over behind the line. *)
StateLast == <<"header", "line", "state">>

(* traceInstruction and traceInterrupt, one call of the overlay at a time. *)
Parts == <<"state", "header", "line">>

WriteLine(n) == Write(<<<<n>>, <<>>>>)

WritePart(part) ==
  \/ part = "state"  /\ SetCPUState(traced + 1) /\ UNCHANGED headerOut
  \/ part = "header" /\ (IF headerOut THEN UNCHANGED overlay ELSE WriteLine(0)) /\ headerOut' = TRUE
  \/ part = "line"   /\ WriteLine(traced + 1) /\ UNCHANGED headerOut

Trace ==
  /\ traceOn
  /\ ticking[processor] = "called"
  /\ tracing < Len(Parts)
  /\ WritePart(Parts[tracing + 1])
  /\ tracing' = tracing + 1
  /\ UNCHANGED <<mvars, traceOn, traced, present, history>>

-----------------------------------------------------------------------------
(* The CRTC's tick sets the clock, and Present reads lines and status.     *)
CallPresent ==
  /\ traceOn
  /\ drawing.pass = "done" /\ present.step = "idle"
  /\ SetClock(cycle)
  /\ present' = [present EXCEPT !.step = "called"]
  /\ UNCHANGED <<mvars, traceOn, headerOut, traced, tracing, history>>

ReadText ==
  /\ present.step = "called"
  /\ present' = [present EXCEPT !.step = "text", !.text = Text]
  /\ UNCHANGED <<mvars, overlay, traceOn, headerOut, traced, tracing, history>>

ReadStatus ==
  /\ present.step = "text"
  /\ present' = [present EXCEPT !.step = "status", !.cycle = Status.cycle,
                                !.registers = Status.registers]
  /\ UNCHANGED <<mvars, overlay, traceOn, headerOut, traced, tracing, history>>

Presenting == CallPresent \/ ReadText \/ ReadStatus

(* The ticks return behind their trace and behind Present. *)
TReturns(c) ==
  /\ TickReturns(c)
  /\ c = processor => tracing \in {0, Len(Parts)}
  /\ c = crtc /\ traceOn /\ drawing.pass = "done" => present.step = "status"
  /\ present' = IF c = crtc THEN NotCalled ELSE present
  /\ UNCHANGED <<overlay, traceOn, headerOut, traced, tracing, history>>

(* The lines with the header this Step would need, and with its instruction: *)
(* a header at first and behind every reset, each instruction once.        *)
WithHeader == IF headed THEN script ELSE Append(script, <<0>>)
WithLine   == Append(WithHeader, <<traced + 1>>)

EndTrace == EndStep /\ tracing > 0

(* A slip: a reset processor takes its header for written. *)
HeaderAfterAny == headerOut

(* CPU6502.Reset returns no error, and asks for a new header. *)
ProcessorReset == HReset /\ components[position] = processor
HeaderAfter    == headerOut /\ ~ProcessorReset

TControl ==
  /\ Control
  /\ ResetFails => components[position] # processor
  /\ headerOut' = HeaderAfter
  /\ IF EndTrace
       THEN traced' = traced + 1 /\ tracing' = 0 /\ script' = WithLine
       ELSE UNCHANGED <<traced, tracing, script>>
  /\ headed' = ((headed \/ EndTrace) /\ ~ProcessorReset)
  /\ UNCHANGED <<overlay, traceOn, present>>

TNext ==
  \/ TControl
  \/ Drawing /\ UNCHANGED traceVars
  \/ Trace \/ Presenting
  \/ \E c \in Component : TReturns(c)

(* The goroutines go on with what they have begun. *)
TScheduling ==
  /\ Scheduling
  /\ WF_tvars(tracing > 0 /\ Trace) /\ WF_tvars(Presenting)

TSpec == TInit /\ [][TNext]_tvars /\ TScheduling

-----------------------------------------------------------------------------
(* Of the lines written, as many as overlay and view keep. *)
Shown(lines) == Latest(lines, IF Visible < MaxLines THEN Visible ELSE MaxLines)

(* cpu6502.go:484-524, apple2e_crtc.go:297-300, vulkan_placeholder.go:     *)
(* 218-221: without a common lock around lines and status, a frame shows   *)
(* the last lines without a gap, a header at first and behind each reset   *)
(* of the CPU, up to the instruction before this cycle or the one of it;   *)
(* and its registers are never those of an older instruction than its last *)
(* line, and of the next at most.                                          *)
TraceOfOneMoment ==
  present.step = "status" =>
    \E n \in {traced, traced + 1} :
      /\ present.text \in (IF n = traced THEN {Shown(script), Shown(WithHeader)}
                                        ELSE {Shown(WithLine)})
      /\ present.registers \in {n, n + 1} /\ present.registers <= traced + 1
      /\ present.cycle = drawing.cycle
=============================================================================
