----------------------------- MODULE CRTCProofs -----------------------------
(***************************************************************************)
(* Proofs about the beam and the frames, for every geometry and every      *)
(* schedule.                                                               *)
(***************************************************************************)
EXTENDS AppleIIeCRTCHistory, Integers, TLAPS

USE HorizontalTotalAssumption, MaxRasterAssumption, RowsAssumption,
    SwitchesAssumption

-----------------------------------------------------------------------------
(* The beam.  Its inductive invariant: the types and the one place that    *)
(* the three counters name.                                                *)
BeamInv == BeamTypeOK /\ BeamPosition /\ RendererFollowsMode

LEMMA HeightOK == Height \in Nat \ {0}
  BY DEF Height

(* A row that is not the last, or a line of it that is not the last, is    *)
(* followed by a line inside the height.                                   *)
LEMMA LinesFit ==
  ASSUME NEW row \in 0 .. Rows - 1, NEW count \in 0 .. MaxRaster - 1,
         MaxRaster * row + count + 1 < Height, count + 1 = MaxRaster
  PROVE  row + 1 \in 0 .. Rows - 1 /\ MaxRaster * (row + 1) = MaxRaster * row + MaxRaster
<1>1. MaxRaster * (row + 1) = MaxRaster * row + MaxRaster
  OBVIOUS
<1>2. MaxRaster * (row + 1) < MaxRaster * Rows
  BY <1>1 DEF Height
<1>3. row + 1 < Rows
  <2> SUFFICES ASSUME row + 1 >= Rows PROVE FALSE
    OBVIOUS
  <2>1. row + 1 = Rows
    OBVIOUS
  <2> QED BY <1>2, <2>1
<1> QED BY <1>1, <1>3

BeamRecord ==
  [ cclk : 0 .. 2 * HorizontalTotal - 1, x : Nat, y : 0 .. Height - 1,
    line : 0 .. Rows - 1, count : 0 .. MaxRaster - 1, vbl : {"low", "high"} ]

(* A move by either step, compared with either total, ends in one place.   *)
LEMMA BeamMoves ==
  ASSUME NEW step \in {1, 2}, NEW w \in {1, 2}, BeamInv, beam' = Moved(step, w)
  PROVE  /\ beam' \in BeamRecord
         /\ BeamPosition'
         /\ beam'.cclk = 0 <=> beam.cclk + step >= w * HorizontalTotal
         /\ beam'.cclk # 0 => beam'.cclk = beam.cclk + step
<1> USE DEF BeamInv, BeamTypeOK, BeamPosition, BeamRecord
<1>0. /\ beam \in BeamRecord
      /\ Height \in Nat \ {0}
      /\ beam.y = MaxRaster * beam.line + beam.count
  BY HeightOK
<1>3. 7 * beam.cclk \in Nat
  BY <1>0
<1>4. CASE ~LineDone(beam.cclk + step, w)
  <2>1. beam' = [SameLine(step) EXCEPT !.x = 7 * beam.cclk]
    BY <1>4 DEF Moved
  <2>2. beam.cclk + step \in 1 .. 2 * HorizontalTotal - 1 /\ beam.cclk + step < w * HorizontalTotal
    BY <1>0, <1>4 DEF LineDone, LineTotal
  <2>3. /\ beam'.vbl = "high" /\ beam'.y = beam.y /\ beam'.line = beam.line
        /\ beam'.count = beam.count /\ beam'.cclk = beam.cclk + step
    BY <1>0, <2>1 DEF SameLine
  <2>5. beam' = [cclk |-> beam.cclk + step, x |-> 7 * beam.cclk, y |-> beam.y,
                 line |-> beam.line, count |-> beam.count, vbl |-> "high"]
    BY <1>0, <2>1 DEF SameLine
  <2>4. beam' \in BeamRecord
    BY <1>0, <1>3, <2>2, <2>5
  <2> QED BY <1>0, <2>2, <2>3, <2>4
<1>5. CASE LineDone(beam.cclk + step, w) /\ beam.y + 1 >= Height
  <2>1. beam' = [TopLeft EXCEPT !.x = 7 * beam.cclk]
    BY <1>5 DEF Moved, NextLine, NewFrame
  <2>2. beam' = [cclk |-> 0, x |-> 7 * beam.cclk, y |-> 0, line |-> 0, count |-> 0,
                 vbl |-> "low"]
    BY <2>1 DEF TopLeft
  <2>3. MaxRaster * 0 + 0 = 0
    OBVIOUS
  <2>4. beam.cclk + step >= w * HorizontalTotal
    BY <1>5 DEF LineDone, LineTotal
  <2> QED BY <1>0, <1>3, <2>2, <2>3, <2>4
<1>6. CASE LineDone(beam.cclk + step, w) /\ beam.y + 1 < Height
  <2>1. beam' = [NextLine EXCEPT !.x = 7 * beam.cclk]
    BY <1>6 DEF Moved
  <2>0. beam.cclk + step >= w * HorizontalTotal
    BY <1>6 DEF LineDone, LineTotal
  <2>2. CASE beam.count + 1 = MaxRaster
    <3>1. beam' = [cclk |-> 0, x |-> 7 * beam.cclk, y |-> beam.y + 1,
                   line |-> beam.line + 1, count |-> 0, vbl |-> "high"]
      <4>1. RowDone(beam.count + 1) /\ ~(beam.y + 1 >= Height)
        BY <1>0, <1>6, <2>2 DEF RowDone
      <4>2. NextLine = [beam EXCEPT !.cclk = 0, !.y = beam.y + 1,
                          !.line = beam.line + 1, !.count = 0, !.vbl = "high"]
        BY <4>1 DEF NextLine
      <4> QED BY <1>0, <2>1, <4>2
    <3>2. /\ beam.line + 1 \in 0 .. Rows - 1
          /\ MaxRaster * (beam.line + 1) = MaxRaster * beam.line + MaxRaster
      BY <1>0, <1>6, <2>2, LinesFit
    <3> QED BY <1>0, <1>3, <1>6, <2>0, <2>2, <3>1, <3>2
  <2>3. CASE beam.count + 1 # MaxRaster
    <3>1. beam' = [cclk |-> 0, x |-> 7 * beam.cclk, y |-> beam.y + 1,
                   line |-> beam.line, count |-> beam.count + 1, vbl |-> "high"]
      <4>1. ~RowDone(beam.count + 1) /\ ~(beam.y + 1 >= Height)
        BY <1>0, <1>6, <2>3 DEF RowDone
      <4>2. NextLine = [beam EXCEPT !.cclk = 0, !.y = beam.y + 1, !.line = beam.line,
                          !.count = beam.count + 1, !.vbl = "high"]
        BY <4>1 DEF NextLine
      <4> QED BY <1>0, <2>1, <4>2
    <3> QED BY <1>0, <1>3, <1>6, <2>0, <2>3, <3>1
  <2> QED BY <2>2, <2>3
<1> QED BY <1>0, <1>4, <1>5, <1>6

(* Every setter leaves the renderer to the mode. *)
ModeOK ==
  /\ mode \in [Flags -> BOOLEAN]
  /\ video \in [render : Renderers, page : {0, 1}]
  /\ width \in {1, 2}
  /\ RendererFollowsMode

LEMMA ModeIsSet ==
  ASSUME NEW flag \in Flags, NEW on \in BOOLEAN, ModeOK, Setter(flag, on)
  PROVE  ModeOK'
<1>1. mode' \in [Flags -> BOOLEAN] /\ width' \in {1, 2}
  BY DEF Setter, ModeOK
<1>2. CASE flag \in Refreshing
  <2>1. video' = UpdateDisplayMode(mode')
    BY <1>2 DEF Setter
  <2>2. RenderOf(mode') \in Renderers /\ DisplayPage(mode') \in {0, 1}
    BY DEF RenderOf, DisplayPage, Renderers
  <2>3. video'.render = RenderOf(mode') /\ video' \in [render : Renderers, page : {0, 1}]
    BY <2>1, <2>2 DEF UpdateDisplayMode
  <2> QED BY <1>1, <2>3 DEF ModeOK, RendererFollowsMode
<1>3. CASE flag \notin Refreshing
  <2>1. video' = video
    BY <1>3 DEF Setter
  <2>2. \A f \in Refreshing : mode'[f] = mode[f]
    BY <1>3 DEF Setter, ModeOK, Refreshing
  <2>3. RenderOf(mode') = RenderOf(mode)
    BY <2>2 DEF RenderOf, Refreshing, Flags
  <2> QED BY <1>1, <2>1, <2>3 DEF ModeOK, RendererFollowsMode
<1> QED BY <1>2, <1>3

LEMMA BeamInvParts == BeamInv <=> ModeOK /\ beam \in BeamRecord /\ BeamPosition
  BY DEF BeamInv, BeamTypeOK, ModeOK, BeamRecord

LEMMA BeamPartsNext == BeamInv' <=> ModeOK' /\ beam' \in BeamRecord /\ BeamPosition'
  BY DEF BeamInv, BeamTypeOK, ModeOK, BeamRecord, Height

LEMMA BeamAdvances == BeamInv /\ AdvanceBeam => BeamInv'
<1> SUFFICES ASSUME BeamInv, AdvanceBeam PROVE BeamInv'
  OBVIOUS
<1>1. width \in {1, 2} /\ beam' = Moved(width, width) /\ ModeOK
  BY BeamInvParts DEF AdvanceBeam, ModeOK
<1>2. ModeOK'
  BY <1>1 DEF AdvanceBeam, ModeOK, RendererFollowsMode, RenderOf
<1> QED BY <1>1, <1>2, BeamMoves, BeamPartsNext

LEMMA BeamAdvancesDuring ==
  ASSUME NEW flag \in Switches, NEW on \in BOOLEAN, BeamInv, AdvanceDuring(flag, on)
  PROVE  BeamInv'
<1>1. ModeOK /\ ModeOK'
  BY BeamInvParts, ModeIsSet DEF AdvanceDuring
<1>2. PICK step \in {width, width'}, w \in {width, width'} : beam' = Moved(step, w)
  BY DEF AdvanceDuring
<1>3. step \in {1, 2} /\ w \in {1, 2}
  BY <1>1, <1>2 DEF ModeOK
<1> QED BY <1>1, <1>2, <1>3, BeamMoves, BeamPartsNext

LEMMA BeamSwitches ==
  ASSUME NEW flag \in Switches, NEW on \in BOOLEAN, BeamInv, Write(flag, on)
  PROVE  BeamInv'
<1>1. ModeOK'
  BY BeamInvParts, ModeIsSet DEF Write
<1>2. beam' = beam
  BY DEF Write
<1> QED BY <1>1, <1>2, BeamInvParts, BeamPartsNext DEF BeamPosition

LEMMA BeamResets == BeamInv /\ ResetBeam => BeamInv'
<1> SUFFICES ASSUME BeamInv, ResetBeam PROVE BeamInv'
  OBVIOUS
<1>1. TopLeft \in BeamRecord
  BY HeightOK DEF TopLeft, BeamRecord
<1>2. MaxRaster * 0 + 0 = 0
  OBVIOUS
<1>3. beam' = TopLeft /\ beam'.y = MaxRaster * beam'.line + beam'.count /\ beam'.cclk = 0
        /\ beam'.y = 0
  BY <1>2 DEF ResetBeam, TopLeft
<1>4. ModeOK'
  BY BeamInvParts DEF ResetBeam, ModeOK, RendererFollowsMode
<1> QED BY <1>1, <1>3, <1>4, BeamPartsNext DEF BeamPosition

LEMMA BeamStarts == BeamInit => BeamInv
<1> SUFFICES ASSUME BeamInit PROVE BeamInv
  OBVIOUS
<1>1. PowerOnMode \in [Flags -> BOOLEAN]
  BY DEF PowerOnMode
<1>2. RenderOf(PowerOnMode) \in Renderers /\ DisplayPage(PowerOnMode) \in {0, 1}
  BY DEF RenderOf, DisplayPage, Renderers
<1>3. TopLeft \in BeamRecord
  BY HeightOK DEF TopLeft, BeamRecord
<1>4. MaxRaster * 0 + 0 = 0
  OBVIOUS
<1> QED BY <1>1, <1>2, <1>3, <1>4
        DEF BeamInit, BeamInv, BeamTypeOK, BeamRecord, BeamPosition, RendererFollowsMode,
            UpdateDisplayMode, TopLeft

LEMMA BeamKeeps == BeamInv /\ [BeamNext]_beamVars => BeamInv'
<1> SUFFICES ASSUME BeamInv, [BeamNext]_beamVars PROVE BeamInv'
  OBVIOUS
<1>1. CASE UNCHANGED beamVars
  BY <1>1 DEF beamVars, BeamInv, BeamTypeOK, BeamPosition, RendererFollowsMode, Height
<1> QED BY <1>1, BeamAdvances, BeamAdvancesDuring, BeamSwitches, BeamResets
        DEF BeamNext, BeamTicks

(* A step of the CRTC with its history is a step of its beam. *)
LEMMA LineStepsMoveBeam == [LineNext]_lineVars => [BeamNext]_beamVars
  BY DEF LineNext, LineTick, LineSwitch, LineReset, lineVars, beamVars, BeamNext

LEMMA StepsMoveLine == [HNext]_allVars => [LineNext]_lineVars
  BY DEF HNext, HTick, HTickFails, HSwitch, HResets, Tick, TickFails, Ticking, Switch,
         Reset, ResetHalfway, ResetDevice, LineNext, LineTick, LineSwitch, LineReset,
         allVars, crtcVars, lineVars, beamVars, line

(* apple2e_crtc.go:592-619: column counter, raster row and raster line stay *)
(* in their ranges and name one place, and the renderer is the mode's, for  *)
(* every geometry and every sequence of switches and resets.                *)
THEOREM BeamCorrect == HSpec => [](BeamTypeOK /\ BeamPosition /\ RendererFollowsMode)
<1>1. HInit => BeamInv
  BY BeamStarts DEF HInit, Init
<1>2. BeamInv /\ [HNext]_allVars => BeamInv'
  BY StepsMoveLine, LineStepsMoveBeam, BeamKeeps
<1>3. BeamInv => BeamTypeOK /\ BeamPosition /\ RendererFollowsMode
  BY DEF BeamInv
<1> QED BY <1>1, <1>2, <1>3, PTL DEF HSpec

-----------------------------------------------------------------------------
(* The length of a line.  A tick moves the beam by one column or by two.   *)
(* Unless a switch falls into a tick, a tick of width 1 is possible up to  *)
(* the column before the total of 40 columns only, so a line of mixed      *)
(* widths is longest when width 1 lasts as long as it can.                 *)
LineInv ==
  /\ BeamInv
  /\ ticks \in Nat
  /\ steady \in BOOLEAN /\ raced \in BOOLEAN
  /\ ticks <= beam.cclk
  /\ beam.cclk <= 2 * ticks
  /\ ~raced => 2 * ticks < HorizontalTotal + beam.cclk
  /\ steady => beam.cclk = width * ticks /\ ticks < HorizontalTotal

LEMMA TimesZero == \A w \in {1, 2} : w * 0 = 0
  OBVIOUS

LEMMA LineBegins ==
  ASSUME BeamInv', LineStarts, beam'.cclk = 0
  PROVE  LineInv'
<1>1. ticks' = 0 /\ steady' = TRUE /\ raced' = FALSE /\ width' \in {1, 2}
  BY BeamPartsNext DEF LineStarts, ModeOK
<1>2. beam'.cclk = width' * ticks'
  BY <1>1, TimesZero
<1>3. ticks' \in Nat /\ steady' \in BOOLEAN /\ raced' \in BOOLEAN
  BY <1>1
<1>4. /\ ticks' <= beam'.cclk /\ beam'.cclk <= 2 * ticks'
      /\ 2 * ticks' < HorizontalTotal + beam'.cclk /\ ticks' < HorizontalTotal
  BY <1>1
<1> QED BY <1>2, <1>3, <1>4 DEF LineInv

LEMMA LineInitOK == LineInit => LineInv
<1> SUFFICES ASSUME LineInit PROVE LineInv
  OBVIOUS
<1>1. BeamInv /\ beam.cclk = 0 /\ width = 1 /\ ticks = 0 /\ steady = TRUE /\ raced = FALSE
  BY BeamStarts DEF LineInit, BeamInit, TopLeft
<1>2. beam.cclk = width * ticks
  BY <1>1, TimesZero
<1>3. ticks \in Nat /\ steady \in BOOLEAN /\ raced \in BOOLEAN
  BY <1>1
<1>4. /\ ticks <= beam.cclk /\ beam.cclk <= 2 * ticks
      /\ 2 * ticks < HorizontalTotal + beam.cclk /\ ticks < HorizontalTotal
  BY <1>1
<1> QED BY <1>1, <1>2, <1>3, <1>4 DEF LineInv

LEMMA LineSwitches ==
  ASSUME NEW flag \in Switches, NEW on \in BOOLEAN, LineInv, Write(flag, on), CountSwitch
  PROVE  LineInv'
<1>1. BeamInv'
  BY BeamSwitches DEF LineInv
<1>2. beam' = beam /\ width' \in {1, 2} /\ ticks' = ticks /\ raced' = raced
  BY <1>1 DEF Write, BeamInv, BeamTypeOK, CountSwitch
<1>3. steady' => beam'.cclk = width' * ticks' /\ ticks' < HorizontalTotal
  <2>1. CASE ticks = 0
    <3>1. beam.cclk = 0
      BY <2>1 DEF LineInv, BeamInv, BeamTypeOK
    <3>2. \A w \in Nat : w * 0 = 0
      OBVIOUS
    <3>3. width' * ticks' = 0 /\ ticks' = 0
      <4>1. width' \in Nat
        BY <1>2
      <4> QED BY <1>2, <2>1, <3>2, <4>1
    <3>4. beam'.cclk = 0 /\ 0 < HorizontalTotal
      BY <1>2, <3>1
    <3> QED BY <3>3, <3>4, Zenon
  <2>2. CASE ticks # 0 /\ width' = width /\ steady
    BY <1>2, <2>2 DEF LineInv
  <2> QED BY <2>1, <2>2 DEF CountSwitch
<1>4. steady' \in BOOLEAN /\ raced' \in BOOLEAN
  BY DEF LineInv, CountSwitch
<1> QED BY <1>1, <1>2, <1>3, <1>4 DEF LineInv

(* What a tick of either kind does to the column counter. *)
LEMMA TickMoves ==
  ASSUME BeamInv, BeamTicks
  PROVE  \E step, w \in {1, 2} :
           /\ beam'.cclk = 0 <=> beam.cclk + step >= w * HorizontalTotal
           /\ beam'.cclk # 0 => beam'.cclk = beam.cclk + step
           /\ width' = width => step = width /\ w = width
<1>1. CASE AdvanceBeam
  <2>1. width \in {1, 2} /\ beam' = Moved(width, width)
    BY <1>1, BeamInvParts DEF AdvanceBeam, ModeOK
  <2> QED BY <2>1, BeamMoves
<1>2. ASSUME NEW flag \in Switches, NEW on \in BOOLEAN, AdvanceDuring(flag, on)
      PROVE  \E step, w \in {1, 2} :
               /\ beam'.cclk = 0 <=> beam.cclk + step >= w * HorizontalTotal
               /\ beam'.cclk # 0 => beam'.cclk = beam.cclk + step
               /\ width' = width => step = width /\ w = width
  <2>1. width \in {1, 2} /\ width' \in {1, 2} /\ width' # width
    BY <1>2, BeamAdvancesDuring, BeamInvParts, BeamPartsNext DEF AdvanceDuring, ModeOK
  <2>2. PICK step \in {width, width'}, w \in {width, width'} : beam' = Moved(step, w)
    BY <1>2 DEF AdvanceDuring
  <2>3. step \in {1, 2} /\ w \in {1, 2}
    BY <2>1, <2>2
  <2> QED BY <2>1, <2>2, <2>3, BeamMoves
<1> QED BY <1>1, <1>2 DEF BeamTicks

LEMMA LineTicksOn == LineInv /\ LineTick => LineInv'
<1> SUFFICES ASSUME LineInv, LineTick PROVE LineInv'
  OBVIOUS
<1>1. BeamInv'
  BY BeamAdvances, BeamAdvancesDuring DEF LineInv, LineTick, BeamTicks
<1>2. CASE LineEnds
  BY <1>1, <1>2, LineBegins DEF LineTick, CountTick, LineEnds
<1>3. CASE ~LineEnds
  <2>1. PICK step \in {1, 2}, w \in {1, 2} :
          /\ beam'.cclk = 0 <=> beam.cclk + step >= w * HorizontalTotal
          /\ beam'.cclk # 0 => beam'.cclk = beam.cclk + step
          /\ width' = width => step = width /\ w = width
    BY TickMoves DEF LineInv, LineTick
  <2>2. /\ ticks' = ticks + 1 /\ steady' = (steady /\ width' = width)
        /\ raced' = (raced \/ width' # width)
    BY <1>3 DEF LineTick, CountTick, LineGoesOn
  <2>3. beam'.cclk = beam.cclk + step /\ beam.cclk + step < w * HorizontalTotal
    <3>1. beam.cclk \in Nat
      BY DEF LineInv, BeamInv, BeamTypeOK
    <3> QED BY <1>3, <2>1, <3>1 DEF LineEnds
  <2>4. beam.cclk \in Nat /\ ticks \in Nat /\ width \in {1, 2}
    BY DEF LineInv, BeamInv, BeamTypeOK
  <2>5. ticks' \in Nat /\ ticks' <= beam'.cclk /\ beam'.cclk <= 2 * ticks'
    BY <2>2, <2>3, <2>4 DEF LineInv
  <2>6. ASSUME ~raced' PROVE 2 * ticks' < HorizontalTotal + beam'.cclk
    <3>1. step = width /\ w = width /\ 2 * ticks < HorizontalTotal + beam.cclk
            /\ ticks <= beam.cclk
      BY <2>1, <2>2, <2>6 DEF LineInv
    <3>2. CASE width = 1
      BY <2>2, <2>3, <2>4, <3>1, <3>2
    <3>3. CASE width = 2
      BY <2>2, <2>3, <2>4, <3>1, <3>3
    <3> QED BY <2>4, <3>2, <3>3
  <2>7. ASSUME steady' PROVE beam'.cclk = width' * ticks' /\ ticks' < HorizontalTotal
    <3>1. width' = width /\ step = width /\ w = width /\ beam.cclk = width * ticks
      BY <2>1, <2>2, <2>7 DEF LineInv
    <3>2. CASE width = 1
      BY <2>2, <2>3, <2>4, <3>1, <3>2
    <3>3. CASE width = 2
      BY <2>2, <2>3, <2>4, <3>1, <3>3
    <3> QED BY <2>4, <3>2, <3>3
  <2>8. steady' \in BOOLEAN /\ raced' \in BOOLEAN
    BY <2>2 DEF LineInv
  <2> QED BY <1>1, <2>5, <2>6, <2>7, <2>8 DEF LineInv
<1> QED BY <1>2, <1>3

LEMMA LineResets == LineInv /\ LineReset => LineInv'
<1> SUFFICES ASSUME LineInv, LineReset PROVE LineInv'
  OBVIOUS
<1>1. BeamInv'
  BY BeamResets DEF LineInv, LineReset
<1>2. beam'.cclk = 0 /\ LineStarts
  BY DEF LineReset, ResetBeam, TopLeft
<1> QED BY <1>1, <1>2, LineBegins

LEMMA LineKeeps == LineInv /\ [LineNext]_lineVars => LineInv'
<1> SUFFICES ASSUME LineInv, [LineNext]_lineVars PROVE LineInv'
  OBVIOUS
<1>1. CASE UNCHANGED lineVars
  <2>1. BeamInv'
    BY <1>1, LineStepsMoveBeam, BeamKeeps DEF LineInv
  <2>2. UNCHANGED <<beam, width, ticks, steady, raced>>
    BY <1>1 DEF lineVars, beamVars, line
  <2> QED BY <2>1, <2>2 DEF LineInv
<1>2. CASE LineSwitch
  BY <1>2, LineSwitches DEF LineSwitch
<1> QED BY <1>1, <1>2, LineTicksOn, LineResets DEF LineNext

LEMMA LinesEnd ==
  ASSUME LineInv, BeamTicks, LineEnds
  PROVE  /\ steady /\ UNCHANGED width => ticks + 1 = HorizontalTotal
         /\ 2 * (ticks + 1) >= HorizontalTotal
         /\ ~raced => 2 * (ticks + 1) <= 3 * HorizontalTotal
         /\ ticks + 1 <= 2 * HorizontalTotal
<1>1. PICK step \in {1, 2}, w \in {1, 2} :
        /\ beam'.cclk = 0 <=> beam.cclk + step >= w * HorizontalTotal
        /\ beam'.cclk # 0 => beam'.cclk = beam.cclk + step
        /\ width' = width => step = width /\ w = width
  BY TickMoves DEF LineInv
<1>2. beam.cclk + step >= w * HorizontalTotal
  BY <1>1 DEF LineEnds
<1>3. beam.cclk \in 0 .. 2 * HorizontalTotal - 1 /\ width \in {1, 2} /\ ticks \in Nat
  BY DEF LineInv, BeamInv, BeamTypeOK
<1>4. steady /\ UNCHANGED width => ticks + 1 = HorizontalTotal
  BY <1>1, <1>2, <1>3 DEF LineInv
<1>5. 2 * (ticks + 1) >= HorizontalTotal
  <2>1. HorizontalTotal <= w * HorizontalTotal
    OBVIOUS
  <2> QED BY <1>2, <1>3, <2>1 DEF LineInv
<1>6. ~raced => 2 * (ticks + 1) <= 3 * HorizontalTotal
  BY <1>3 DEF LineInv
<1>7. ticks + 1 <= 2 * HorizontalTotal
  BY <1>3 DEF LineInv
<1> QED BY <1>4, <1>5, <1>6, <1>7

(* apple2e_crtc.go:592-601,546-558: however the program switches between   *)
(* 40 and 80 columns, a line takes between half and one and a half times   *)
(* HorizontalTotal ticks, at most twice as many when switches fall into    *)
(* ticks, and exactly that many without a switch.                          *)
THEOREM LinesLast == HSpec => LineLength
<1>1. HInit => LineInv
  BY LineInitOK DEF HInit
<1>2. LineInv /\ [HNext]_allVars => LineInv'
  BY StepsMoveLine, LineKeeps
<1>3. LineInv /\ [HNext]_allVars =>
        [BeamTicks /\ LineEnds =>
           /\ steady /\ UNCHANGED width => ticks + 1 = HorizontalTotal
           /\ 2 * (ticks + 1) >= HorizontalTotal
           /\ ~raced => 2 * (ticks + 1) <= 3 * HorizontalTotal
           /\ ticks + 1 <= 2 * HorizontalTotal]_lineVars
  BY LinesEnd
<1> QED BY <1>1, <1>2, <1>3, PTL DEF HSpec, LineLength

-----------------------------------------------------------------------------
(* The frames. *)
FrameInv ==
  /\ cycle \in Nat /\ shown \in Nat /\ failed \in Nat /\ behind \in Nat
  /\ frame \in [sequence : Nat, due : Nat, blinks : Nat, blinkOn : BOOLEAN]
  /\ FrameSchedule
  /\ FramesOnTime

LEMMA NextPeriod ==
  ASSUME NEW k \in Nat
  PROVE  (k + 1) * CyclesPerFrame + CyclesPerFrame = (k + 1 + 1) * CyclesPerFrame
BY CyclesPerFrameAssumption

LEMMA CountedTyped ==
  ASSUME FrameInv
  PROVE  /\ Counted \in [sequence : Nat, due : Nat, blinks : Nat, blinkOn : BOOLEAN]
         /\ Counted.sequence = frame.sequence + 1
         /\ Counted.due = frame.due
<1>1. \E on \in BOOLEAN :
        Counted = [frame EXCEPT !.sequence = @ + 1, !.blinks = @ + 1, !.blinkOn = on]
  <2>1. (IF BlinkTurns(frame.blinks + 1) THEN ~frame.blinkOn ELSE frame.blinkOn) \in BOOLEAN
    BY Zenon DEF FrameInv
  <2> QED BY <2>1, Zenon DEF Counted
<1>2. PICK on \in BOOLEAN :
        Counted = [frame EXCEPT !.sequence = @ + 1, !.blinks = @ + 1, !.blinkOn = on]
  BY <1>1
<1>3. frame \in [sequence : Nat, due : Nat, blinks : Nat, blinkOn : BOOLEAN]
  BY DEF FrameInv
<1>4. frame.sequence \in Nat /\ frame.due \in Nat /\ frame.blinks \in Nat
  BY <1>3
<1>5. Counted = [sequence |-> frame.sequence + 1, due |-> frame.due,
                 blinks |-> frame.blinks + 1, blinkOn |-> on]
  BY <1>2, <1>3
<1> QED BY <1>4, <1>5

LEMMA FrameTicks == FrameInv /\ HTick => FrameInv'
<1> SUFFICES ASSUME FrameInv, HTick PROVE FrameInv'
  OBVIOUS
<1> USE CyclesPerFrameAssumption DEF Due, FrameInv, FrameSchedule, FramesOnTime
<1>1. cycle' = cycle + 1 /\ UNCHANGED <<failed, behind>>
  BY DEF HTick, Tick, Ticking
<1>2. CASE ~Due
  <2>1. frame' = frame /\ shown' = shown
    BY <1>2 DEF HTick, Tick, NotDue, Show
  <2> QED BY <1>1, <1>2, <2>1
<1>3. CASE Due
  <2>1. frame' = [Counted EXCEPT !.due = @ + CyclesPerFrame] /\ shown' = shown + 1
    BY <1>3 DEF HTick, Tick, NotDue, Show, Rescheduled
  <2>2. /\ frame' \in [sequence : Nat, due : Nat, blinks : Nat, blinkOn : BOOLEAN]
        /\ frame'.sequence = frame.sequence + 1
        /\ frame'.due = frame.due + CyclesPerFrame
    BY <2>1, CountedTyped
  <2>3. frame'.due = (shown' + 1) * CyclesPerFrame
    BY <2>1, <2>2, NextPeriod
  <2> QED BY <1>1, <1>3, <2>1, <2>2, <2>3
<1> QED BY <1>2, <1>3

LEMMA FrameFails == FrameInv /\ HTickFails => FrameInv'
<1> SUFFICES ASSUME FrameInv, HTickFails PROVE FrameInv'
  OBVIOUS
<1>1. cycle' = cycle + 1 /\ frame' = Counted /\ failed' = failed + 1
        /\ UNCHANGED <<shown, behind>>
  BY DEF HTickFails, TickFails, Ticking, Fail
<1>2. /\ frame' \in [sequence : Nat, due : Nat, blinks : Nat, blinkOn : BOOLEAN]
      /\ frame'.sequence = frame.sequence + 1
      /\ frame'.due = frame.due
  BY <1>1, CountedTyped
<1>3. FrameSchedule'
  BY <1>1, <1>2, CyclesPerFrameAssumption DEF FrameInv, FrameSchedule
<1> QED BY <1>1, <1>2, <1>3 DEF FrameInv, FramesOnTime

LEMMA FrameResets == FrameInv /\ HResets => FrameInv'
<1> SUFFICES ASSUME FrameInv, HResets PROVE FrameInv'
  OBVIOUS
<1>1. /\ frame' = FirstFrame /\ shown' = 0 /\ failed' = 0 /\ cycle' \in Nat
      /\ behind' = cycle'
  BY DEF FrameInv, HResets, Reset, ResetHalfway, ResetDevice
<1>2. /\ frame' \in [sequence : Nat, due : Nat, blinks : Nat, blinkOn : BOOLEAN]
      /\ frame'.sequence = 0 /\ frame'.due = CyclesPerFrame
  BY <1>1, CyclesPerFrameAssumption DEF FirstFrame
<1>3. FrameSchedule'
  BY <1>1, <1>2, CyclesPerFrameAssumption DEF FrameSchedule
<1>4. FramesOnTime'
  <2>1. \A c \in Nat : c <= CyclesPerFrame + 0 + c
    BY CyclesPerFrameAssumption
  <2> QED BY <1>1, <1>2, <2>1 DEF FramesOnTime
<1> QED BY <1>1, <1>2, <1>3, <1>4 DEF FrameInv

(* apple2e_crtc.go:287-304: frame k is due at k periods whatever failed    *)
(* before it, and nothing but failed Presents and a reset without the      *)
(* cycle counter delays one, for every period.                             *)
THEOREM FramesKeepTime == HSpec => [](FrameSchedule /\ FramesOnTime)
<1>1. HInit => FrameInv
  BY CyclesPerFrameAssumption
     DEF HInit, Init, FrameInv, FrameSchedule, FramesOnTime, FirstFrame
<1>2. FrameInv /\ [HNext]_allVars => FrameInv'
  <2> SUFFICES ASSUME FrameInv, [HNext]_allVars PROVE FrameInv'
    OBVIOUS
  <2>1. CASE UNCHANGED allVars \/ HSwitch
    BY <2>1 DEF allVars, crtcVars, frames, HSwitch, Switch, FrameInv, FrameSchedule, FramesOnTime
  <2> QED BY <2>1, FrameTicks, FrameFails, FrameResets DEF HNext
<1>3. FrameInv => FrameSchedule /\ FramesOnTime
  BY DEF FrameInv
<1> QED BY <1>1, <1>2, <1>3, PTL DEF HSpec

(* apple2e_crtc.go:287-304: a frame waits for one tick of each failed      *)
(* Present and for the cycles a reset left on the counter, and no longer,  *)
(* for every period and every order of failures, resets and switches.      *)
THEOREM FramesShownOnTime == HSpec => []FramesOnTime
  BY FramesKeepTime, PTL

-----------------------------------------------------------------------------
(* Division, as the blink counter uses it: a count that is no multiple of  *)
(* the period keeps its quotient.                                         *)
LEMMA Quotient ==
  ASSUME NEW N \in Nat \ {0}, NEW b \in Nat
  PROVE  /\ b \div N \in Nat /\ b % N \in 0 .. N - 1 /\ b = N * (b \div N) + (b % N)
  OBVIOUS

LEMMA NoMultiple ==
  ASSUME NEW N \in Nat \ {0}, NEW d \in Int
  PROVE  /\ N * d \in 1 .. N => d = 1
         /\ -N < N * d /\ N * d < N => d = 0
<1>1. CASE d > 1
  <2>1. N * d >= N * 2
    BY <1>1
  <2> QED BY <1>1, <2>1
<1>2. CASE d < 0
  <2>1. N * d <= -N
    BY <1>2
  <2> QED BY <1>2, <2>1
<1>3. CASE d = 0 \/ d = 1
  BY <1>3
<1> QED BY <1>1, <1>2, <1>3

LEMMA NextQuotient ==
  ASSUME NEW N \in Nat \ {0}, NEW b \in Nat
  PROVE  (b + 1) \div N = IF (b + 1) % N = 0 THEN (b \div N) + 1 ELSE b \div N
<1> DEFINE q == b \div N  r == b % N  p == (b + 1) \div N  s == (b + 1) % N
<1>1. q \in Nat /\ r \in 0 .. N - 1 /\ b = N * q + r
  BY Quotient
<1>2. p \in Nat /\ s \in 0 .. N - 1 /\ b + 1 = N * p + s
  <2>1. b + 1 \in Nat
    OBVIOUS
  <2> HIDE DEF p, s
  <2>2. (b + 1) \div N = p /\ (b + 1) % N = s
    BY DEF p, s
  <2> QED BY <2>1, <2>2, Quotient
<1> HIDE DEF q, r, p, s
<1>3. p - q \in Int /\ N * (p - q) = N * p - N * q
  BY <1>1, <1>2
<1>4. N * p \in Int /\ N * q \in Int
  BY <1>1, <1>2
<1>5. N * (p - q) = r + 1 - s
  BY <1>1, <1>2, <1>3, <1>4
<1>6. s = 0 => p - q = 1
  <2>1. s = 0 => N * (p - q) \in 1 .. N
    BY <1>1, <1>5
  <2> QED BY <2>1, <1>3, NoMultiple
<1>7. s # 0 => p - q = 0
  <2>1. s # 0 => -N < N * (p - q) /\ N * (p - q) < N
    BY <1>1, <1>2, <1>5
  <2> QED BY <2>1, <1>3, NoMultiple
<1>8. p = IF s = 0 THEN q + 1 ELSE q
  BY <1>1, <1>2, <1>6, <1>7
<1> QED BY <1>8 DEF p, q, s

LEMMA ParityTurns == \A q \in Nat : (q % 2 = 1) <=> ~((q + 1) % 2 = 1)
  OBVIOUS

BlinkInv ==
  /\ frame \in [sequence : Nat, due : Nat, blinks : Nat, blinkOn : BOOLEAN]
  /\ BlinkPeriod

(* One more frame, shown or failed, keeps counters and phase together. *)
LEMMA CountBlinks ==
  ASSUME BlinkInv, frame' = Counted \/ frame' = Rescheduled
  PROVE  BlinkInv'
<1> DEFINE n  == frame.blinks
           on == IF BlinkTurns(n + 1) THEN ~frame.blinkOn ELSE frame.blinkOn
<1>1. /\ frame \in [sequence : Nat, due : Nat, blinks : Nat, blinkOn : BOOLEAN]
      /\ n = frame.sequence /\ n \in Nat
      /\ frame.blinkOn <=> (n \div BlinkFrames) % 2 = 1
  BY DEF BlinkInv, BlinkPeriod
<1>2. on \in BOOLEAN
  BY <1>1, Zenon
<1>3. (n + 1) \div BlinkFrames =
        IF BlinkTurns(n + 1) THEN (n \div BlinkFrames) + 1 ELSE n \div BlinkFrames
  BY <1>1, NextQuotient, BlinkFramesAssumption DEF BlinkTurns
<1>4. (n \div BlinkFrames) \in Nat
  BY <1>1, Quotient, BlinkFramesAssumption
<1>5. on <=> ((n + 1) \div BlinkFrames) % 2 = 1
  <2>1. CASE BlinkTurns(n + 1)
    <3>1. on <=> ~((n \div BlinkFrames) % 2 = 1)
      BY <1>1, <2>1, Zenon
    <3>2. (n + 1) \div BlinkFrames = (n \div BlinkFrames) + 1
      BY <1>3, <2>1
    <3> HIDE DEF n, on
    <3> QED BY <1>4, <3>1, <3>2, ParityTurns
  <2>2. CASE ~BlinkTurns(n + 1)
    <3>1. on <=> (n \div BlinkFrames) % 2 = 1
      BY <1>1, <2>2, Zenon
    <3>2. (n + 1) \div BlinkFrames = n \div BlinkFrames
      BY <1>3, <2>2
    <3> QED BY <3>1, <3>2, Zenon
  <2> QED BY <2>1, <2>2
<1>6. Counted = [frame EXCEPT !.sequence = @ + 1, !.blinks = @ + 1, !.blinkOn = on]
  BY Zenon DEF Counted
<1> HIDE DEF on
<1>7. \E due \in Nat : frame' = [sequence |-> n + 1, due |-> due, blinks |-> n + 1, blinkOn |-> on]
  <2>1. Counted = [sequence |-> n + 1, due |-> frame.due, blinks |-> n + 1, blinkOn |-> on]
    BY <1>1, <1>6
  <2>2. Rescheduled = [sequence |-> n + 1, due |-> frame.due + CyclesPerFrame,
                       blinks |-> n + 1, blinkOn |-> on]
    BY <2>1 DEF Rescheduled
  <2>3. frame.due \in Nat /\ frame.due + CyclesPerFrame \in Nat
    BY <1>1, CyclesPerFrameAssumption
  <2> QED BY <2>1, <2>2, <2>3
<1>8. PICK due \in Nat :
        frame' = [sequence |-> n + 1, due |-> due, blinks |-> n + 1, blinkOn |-> on]
  BY <1>7
<1>9. /\ frame' \in [sequence : Nat, due : Nat, blinks : Nat, blinkOn : BOOLEAN]
      /\ frame'.blinks = n + 1 /\ frame'.sequence = n + 1 /\ frame'.blinkOn = on
  BY <1>1, <1>2, <1>8
<1> QED BY <1>5, <1>9 DEF BlinkInv, BlinkPeriod

(* apple2e_crtc.go:292-296: the phase changes every BlinkFrames frames,     *)
(* failed ones too, from the reset on, for every period.                   *)
THEOREM BlinkKeepsPeriod == HSpec => []BlinkPeriod
<1>1. FirstFrame \in [sequence : Nat, due : Nat, blinks : Nat, blinkOn : BOOLEAN]
  BY CyclesPerFrameAssumption DEF FirstFrame
<1>2. frame = FirstFrame => BlinkInv
  <2>1. 0 \div BlinkFrames = 0
    BY BlinkFramesAssumption
  <2>2. ~((0 \div BlinkFrames) % 2 = 1)
    BY <2>1
  <2> QED BY <1>1, <2>2 DEF BlinkInv, BlinkPeriod, FirstFrame
<1>3. frame' = FirstFrame => BlinkInv'
  <2>1. 0 \div BlinkFrames = 0
    BY BlinkFramesAssumption
  <2>2. ~((0 \div BlinkFrames) % 2 = 1)
    BY <2>1
  <2> QED BY <1>1, <2>2 DEF BlinkInv, BlinkPeriod, FirstFrame
<1>4. HInit => BlinkInv
  BY <1>2 DEF HInit, Init
<1>5. BlinkInv /\ [HNext]_allVars => BlinkInv'
  <2> SUFFICES ASSUME BlinkInv, [HNext]_allVars PROVE BlinkInv'
    OBVIOUS
  <2>1. \/ frame' = Counted \/ frame' = Rescheduled
        \/ frame' = FirstFrame \/ frame' = frame
    BY DEF HNext, HTick, Tick, NotDue, Show, HTickFails, TickFails, Fail, HSwitch, Switch,
           HResets, Reset, ResetHalfway, ResetDevice, allVars, crtcVars
  <2>2. CASE frame' = frame
    BY <2>2 DEF BlinkInv, BlinkPeriod
  <2> QED BY <1>3, <2>1, <2>2, CountBlinks
<1>6. BlinkInv => BlinkPeriod
  BY DEF BlinkInv
<1> QED BY <1>4, <1>5, <1>6, PTL DEF HSpec
=============================================================================
