------------------------------ MODULE CRTCBeam ------------------------------
(***************************************************************************)
(* The display mode and the beam of the Apple IIe CRTC                     *)
(* (video/apple2e_crtc.go).  One action is one switch, one advance of the  *)
(* beam, or a reset of the beam.  AppleIIeCRTC adds the frames.            *)
(***************************************************************************)
EXTENDS DisplayMode

CONSTANTS
  HorizontalTotal,   \* Reg[HorizontalTotal] at 40 columns, 63 in the code
  MaxRaster,         \* Reg[MaxRasterAddress], 8: the lines of a text row
  Rows,              \* Reg[VerticalDisplayed], 24
  Switches           \* the switches the program of the instance writes

ASSUME HorizontalTotalAssumption == HorizontalTotal \in Nat \ {0}
ASSUME MaxRasterAssumption == MaxRaster \in Nat \ {0, 1}
ASSUME RowsAssumption == Rows \in Nat \ {0}

ASSUME SwitchesAssumption == Switches \subseteq Flags

(* The flags whose setters call enable- or disableDoubleWidth. *)
Widening == {"Columns80", "DoubleWidth"}

VARIABLES
  mode,    \* AppleIIeDisplayMode
  video,   \* renderMode, and the page of videoMainMem and videoAuxMem
  width,   \* pixelSize, and with it Reg[HorizontalTotal] and the columns shown
  beam     \* CCLK, BeamX, BeamY, RasterLine, RasterCount and VBL

beamVars == <<mode, video, width, beam>>

-----------------------------------------------------------------------------
(* SetTextMode, SetGraphicsMode, Set40Cols, Set80Cols, Set80Store, ... *)
Setter(flag, on) ==
  /\ mode' = [mode EXCEPT ![flag] = on]
  /\ width' = IF flag \notin Widening THEN width ELSE IF on THEN 2 ELSE 1
  /\ video' = IF flag \in Refreshing THEN UpdateDisplayMode(mode') ELSE video

-----------------------------------------------------------------------------
Height    == Rows * MaxRaster
TopLeft == [cclk |-> 0, x |-> 0, y |-> 0, line |-> 0, count |-> 0, vbl |-> "low"]

(* Slips: an 80-column line ends at the total of 40 columns; a new frame   *)
(* keeps the raster row.                                                   *)
LineTotalNarrow(w) == HorizontalTotal
NewFrameSameRow == [beam EXCEPT !.cclk = 0, !.y = 0, !.vbl = "low"]

LineTotal(w) == w * HorizontalTotal
LineDone(cclk, w) == cclk >= LineTotal(w)
RowDone(count) == count = MaxRaster
NewFrame == TopLeft

NextLine ==
  IF beam.y + 1 >= Height
    THEN NewFrame
    ELSE [beam EXCEPT !.cclk = 0,
                      !.y = @ + 1,
                      !.line = IF RowDone(beam.count + 1) THEN @ + 1 ELSE @,
                      !.count = IF RowDone(beam.count + 1) THEN 0 ELSE @ + 1,
                      !.vbl = "high"]

SameLine(step) == [beam EXCEPT !.cclk = @ + step, !.vbl = "high"]

(* The beam moves by pixelSize and the end of the line is compared with the *)
(* total of a width.  BeamX is set before the end is noticed.              *)
Moved(step, w) ==
  [IF LineDone(beam.cclk + step, w) THEN NextLine ELSE SameLine(step)
     EXCEPT !.x = 7 * beam.cclk]

AdvanceBeam ==
  /\ beam' = Moved(width, width)
  /\ UNCHANGED <<mode, video, width>>

(* The CPU's goroutine changes the width while the CRTC's, in the same     *)
(* Step, reads pixelSize and the total: it may see the old or the new value *)
(* of each.                                                                *)
AdvanceDuring(flag, on) ==
  /\ flag \in Widening
  /\ Setter(flag, on)
  /\ width' # width
  /\ \E step, w \in {width, width'} : beam' = Moved(step, w)

BeamTicks ==
  \/ AdvanceBeam
  \/ \E flag \in Switches, on \in BOOLEAN : AdvanceDuring(flag, on)

(* Reset leaves the mode and the width alone. *)
ResetBeam ==
  /\ beam' = TopLeft
  /\ UNCHANGED <<mode, video, width>>

Write(flag, on) ==
  /\ Setter(flag, on)
  /\ UNCHANGED beam

BeamInit ==
  /\ mode = PowerOnMode
  /\ video = UpdateDisplayMode(PowerOnMode)
  /\ width = 1
  /\ beam = TopLeft

BeamNext ==
  \/ \E flag \in Switches, on \in BOOLEAN : Write(flag, on)
  \/ BeamTicks
  \/ ResetBeam

BeamSpec == BeamInit /\ [][BeamNext]_beamVars

-----------------------------------------------------------------------------
(* The display state has its types.  The column counter stays below twice  *)
(* the total: the byte CCLK never overflows (126 < 256).                   *)
BeamTypeOK ==
  /\ mode \in [Flags -> BOOLEAN]
  /\ video \in [render : Renderers, page : {0, 1}]
  /\ width \in {1, 2}
  /\ beam \in [ cclk : 0 .. 2 * HorizontalTotal - 1, x : Nat, y : 0 .. Height - 1,
                line : 0 .. Rows - 1, count : 0 .. MaxRaster - 1, vbl : {"low", "high"} ]

(* Three counters, one place: BeamY is the raster line of the text row     *)
(* (lines 602-618), and the blank is low at the top left corner only.      *)
BeamPosition ==
  /\ beam.y = MaxRaster * beam.line + beam.count
  /\ beam.vbl = "low" => beam.cclk = 0 /\ beam.y = 0

(* The renderer chosen by the last updateDisplayMode (lines 560-590) is    *)
(* the one the mode asks for, although three setters do not call it.       *)
RendererFollowsMode == video.render = RenderOf(mode)

=============================================================================
