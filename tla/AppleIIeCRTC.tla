---------------------------- MODULE AppleIIeCRTC ----------------------------
(***************************************************************************)
(* The CRTC as the motherboard ticks it: the beam of CRTCBeam, the frame   *)
(* schedule, and the renderer, whose Present may fail.                     *)
(***************************************************************************)
EXTENDS CRTCBeam

CONSTANTS
  CyclesPerFrame,   \* cyclesPerFrame: ClockHz / RefreshHz, at least 1
  BlinkFrames,      \* the frames between two changes of blinkOn, 12 in the code
  MaxCycle          \* the bound of an instance on the cycle counter

ASSUME CyclesPerFrameAssumption == CyclesPerFrame \in Nat \ {0}
ASSUME BlinkFramesAssumption == BlinkFrames \in Nat \ {0}
ASSUME MaxCycleAssumption == MaxCycle \in Nat

VARIABLES
  cycle,    \* the cycle of the next tick
  frame,    \* frameSequence, nextPresentTick, blinkFrames and blinkOn
  screen    \* the last frame presented: its number and its blink phase

crtcVars == <<beamVars, cycle, frame, screen>>

-----------------------------------------------------------------------------
FirstFrame == [sequence |-> 0, due |-> CyclesPerFrame, blinks |-> 0, blinkOn |-> FALSE]
Blank == [number |-> 0, blinkOn |-> FALSE]

(* A slip: the phase changes when the counter passes the period. *)
BlinkTurnsAfter(blinks) == blinks % (BlinkFrames + 1) = 0

BlinkTurns(blinks) == blinks % BlinkFrames = 0

(* frameSequence and the blink count, as they are before Present is called. *)
Counted ==
  [frame EXCEPT !.sequence = @ + 1,
                !.blinks = @ + 1,
                !.blinkOn = IF BlinkTurns(frame.blinks + 1) THEN ~@ ELSE @]

(* A slip: the next frame is a period from now and not from when this one  *)
(* was due.                                                                *)
RescheduledFromNow == [Counted EXCEPT !.due = cycle + CyclesPerFrame]
(* A slip: a frame is due when its cycle has passed. *)
DuePassed == cycle > frame.due

Rescheduled == [Counted EXCEPT !.due = @ + CyclesPerFrame]
Due == cycle >= frame.due

NotDue ==
  /\ ~Due
  /\ UNCHANGED <<frame, screen>>

(* The frame is drawn before the blink phase may change. *)
Show ==
  /\ Due
  /\ frame' = Rescheduled
  /\ screen' = [number |-> frame'.sequence, blinkOn |-> frame.blinkOn]

(* Present returns an error: Tick returns it, before the schedule moves on. *)
Fail ==
  /\ Due
  /\ frame' = Counted
  /\ UNCHANGED screen

Ticking ==
  /\ BeamTicks
  /\ cycle < MaxCycle
  /\ cycle' = cycle + 1

Tick ==
  /\ Ticking
  /\ NotDue \/ Show

TickFails ==
  /\ Ticking
  /\ Fail

Switch ==
  /\ \E flag \in Switches, on \in BOOLEAN : Write(flag, on)
  /\ UNCHANGED <<cycle, frame, screen>>

ResetDevice ==
  /\ ResetBeam
  /\ frame' = FirstFrame
  /\ UNCHANGED screen

(* Motherboard.Reset, which sets the cycle counter back once every         *)
(* component is reset ...                                                  *)
Reset ==
  /\ ResetDevice
  /\ cycle' = 0

(* ... and does not when a component after the CRTC fails. *)
ResetHalfway ==
  /\ ResetDevice
  /\ UNCHANGED cycle

Init ==
  /\ BeamInit
  /\ cycle = 0
  /\ frame = FirstFrame
  /\ screen = Blank

Next == Tick \/ TickFails \/ Switch \/ Reset \/ ResetHalfway

Spec == Init /\ [][Next]_crtcVars

-----------------------------------------------------------------------------
(* Two counters and a phase, kept by different lines (292-296) and cleared *)
(* together: the phase changes every BlinkFrames frames, failed ones too.  *)
BlinkPeriod ==
  /\ frame.blinks = frame.sequence
  /\ frame.blinkOn <=> (frame.blinks \div BlinkFrames) % 2 = 1
=============================================================================
