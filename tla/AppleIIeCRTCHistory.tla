------------------------ MODULE AppleIIeCRTCHistory ------------------------
(* The CRTC with the length of the current line, a count of the frames     *)
(* shown, and of what may delay them.                                      *)
EXTENDS AppleIIeCRTC

VARIABLES
  ticks,    \* the ticks of the current line so far
  steady,   \* the width has not changed since the line began
  raced     \* it has changed during a tick of the line

line     == <<ticks, steady, raced>>
lineVars == <<beamVars, line>>

LineInit ==
  /\ BeamInit
  /\ ticks = 0
  /\ steady = TRUE
  /\ raced = FALSE

LineEnds == beam'.cclk = 0

LineStarts ==
  /\ ticks' = 0
  /\ steady' = TRUE
  /\ raced' = FALSE

LineGoesOn ==
  /\ ticks' = ticks + 1
  /\ steady' = (steady /\ width' = width)
  /\ raced' = (raced \/ width' # width)

CountTick == IF LineEnds THEN LineStarts ELSE LineGoesOn

LineTick == BeamTicks /\ CountTick

CountSwitch ==
  /\ steady' = (ticks = 0 \/ (steady /\ width' = width))
  /\ UNCHANGED <<ticks, raced>>

LineSwitch ==
  /\ \E flag \in Switches, on \in BOOLEAN : Write(flag, on)
  /\ CountSwitch

LineReset == ResetBeam /\ LineStarts

LineNext == LineTick \/ LineSwitch \/ LineReset

LineSpec == LineInit /\ [][LineNext]_lineVars

-----------------------------------------------------------------------------
VARIABLES
  shown,   \* frames presented since the last reset
  failed,  \* calls of Present that failed since the last reset
  behind   \* the cycles the counter was ahead of the last reset

frames  == <<shown, failed, behind>>
allVars == <<crtcVars, line, frames>>

HInit ==
  /\ Init
  /\ LineInit
  /\ shown = 0
  /\ failed = 0
  /\ behind = 0

HTick ==
  /\ Tick
  /\ CountTick
  /\ shown' = IF Due THEN shown + 1 ELSE shown
  /\ UNCHANGED <<failed, behind>>

HTickFails ==
  /\ TickFails
  /\ CountTick
  /\ failed' = failed + 1
  /\ UNCHANGED <<shown, behind>>

HSwitch ==
  /\ Switch
  /\ CountSwitch
  /\ UNCHANGED frames

HResets ==
  /\ (Reset /\ behind' = 0) \/ (ResetHalfway /\ behind' = cycle)
  /\ LineStarts
  /\ shown' = 0
  /\ failed' = 0

HNext == HTick \/ HTickFails \/ HSwitch \/ HResets

HSpec == HInit /\ [][HNext]_allVars

-----------------------------------------------------------------------------
(* A line takes 63 ticks at either width (lines 592-601, 546-558).  When   *)
(* the program switches between 40 and 80 columns inside a line, the line  *)
(* takes at least half and at most one and a half times as long, 32 to 94  *)
(* ticks; when switches fall into ticks of the CRTC, at most twice as long. *)
LineLength ==
  [][BeamTicks /\ LineEnds =>
       /\ steady /\ UNCHANGED width => ticks + 1 = HorizontalTotal
       /\ 2 * (ticks + 1) >= HorizontalTotal
       /\ ~raced => 2 * (ticks + 1) <= 3 * HorizontalTotal
       /\ ticks + 1 <= 2 * HorizontalTotal]_lineVars

(* Frame k is due at k times the period and at no other cycle: failures    *)
(* and late frames do not move the schedule (lines 267, 303), and no frame *)
(* is shown before it is due.                                              *)
FrameSchedule ==
  /\ frame.due = (shown + 1) * CyclesPerFrame
  /\ frame.sequence = shown + failed
  /\ shown > 0 => shown * CyclesPerFrame < cycle

(* A frame waits for one tick of each failed Present and for the cycles    *)
(* the counter was ahead of a reset that did not clear it, and no longer:  *)
(* without these every frame is shown at the tick it is due.               *)
FramesOnTime == cycle <= frame.due + failed + behind
=============================================================================
