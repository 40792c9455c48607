------------------------------- MODULE Machine -------------------------------
(***************************************************************************)
(* The motherboard with what two of its components share: in its tick the  *)
(* CPU may set a display switch, and the CRTC, in the same Step on another *)
(* goroutine, may draw a frame.                                            *)
(***************************************************************************)
EXTENDS MotherboardHistory, FrameDrawing

CONSTANTS
  processor, crtc,   \* the two components
  Switches           \* the switches the program of the instance writes

ASSUME DrawingAssumption ==
  {processor, crtc} \subseteq Component /\ Switches \subseteq Flags

VARIABLE written   \* one more than the cycle of the last write of a switch, or 0

mvars == <<hvars, drawVars, written>>

MInit == HInit /\ mode \in [Flags -> BOOLEAN] /\ DrawInit /\ written = 0

(* One bus access, and so at most one write, in a tick of the CPU. *)
WriteSwitch ==
  /\ ticking[processor] = "called"
  /\ written # cycle + 1
  /\ \E flag \in Switches, on \in BOOLEAN : SetFlag(flag, on)
  /\ written' = cycle + 1
  /\ UNCHANGED hvars

FinishSwitch ==
  /\ Refresh
  /\ UNCHANGED <<hvars, written>>

StartDrawing ==
  /\ ticking[crtc] = "called"
  /\ StartFrame(cycle)
  /\ UNCHANGED <<hvars, written>>

Draw ==
  /\ DrawStep
  /\ UNCHANGED <<hvars, written>>

(* The tick of the CPU returns after its setter, the CRTC's after the frame. *)
TickReturns(c) ==
  /\ HTick(c)
  /\ c = processor => ~setting
  /\ c = crtc => drawing.pass \in {"idle", "done"}
  /\ IF c = crtc THEN EndFrame ELSE UNCHANGED drawing
  /\ UNCHANGED <<mode, video, setting, written>>

Control ==
  /\ HControl
  /\ written' = IF cycle' < cycle THEN 0 ELSE written
  /\ UNCHANGED drawVars

Drawing == WriteSwitch \/ FinishSwitch \/ StartDrawing \/ Draw

MNext == Control \/ Drawing \/ \E c \in Component : TickReturns(c)

(* The Go scheduler runs every goroutine that can go on, a component's     *)
(* Tick returns, and so does its Reset or Close.                           *)
Scheduling ==
  /\ WF_mvars(Control /\ EndStep)
  /\ WF_mvars(FinishSwitch) /\ WF_mvars(Draw)
  /\ \A c \in Component :
       WF_mvars(TickReturns(c)) /\ WF_mvars(Control /\ SendError(c))

MSpec == MInit /\ [][MNext]_mvars /\ Scheduling

-----------------------------------------------------------------------------
(* motherboard.go:107-127, apple2e_crtc.go:621-758: a frame drawn in a     *)
(* cycle in which the program writes no switch is the frame of one mode,    *)
(* although the CRTC reads the mode bit by bit and without a lock: the join *)
(* keeps the writes of the other cycles away from it.                      *)
WholeFrame ==
  drawing.pass = "done" /\ written # drawing.cycle + 1 => drawing.frame = FrameOf(mode)
=============================================================================
