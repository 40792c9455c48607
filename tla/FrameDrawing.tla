---------------------------- MODULE FrameDrawing ----------------------------
(***************************************************************************)
(* redrawFrame (video/apple2e_crtc.go) on the CRTC's goroutine and the     *)
(* setters on the CPU's, with no lock between them.  The drawing takes the *)
(* renderer once, and reads Mixed, Text, the page and the renderer again   *)
(* for what it draws; a setter stores its flag before it refreshes the     *)
(* renderer.  A frame is two bands: the text rows 0-19 and 20-23.          *)
(***************************************************************************)
EXTENDS DisplayMode

VARIABLES
  mode, video,   \* as in CRTCBeam
  setting,       \* a setter has stored its flag and not yet refreshed
  drawing        \* how far redrawFrame is, and what it has drawn

drawVars == <<mode, video, setting, drawing>>

-----------------------------------------------------------------------------
Black == [style |-> "black", area |-> "none", page |-> 0]

(* A band drawn in a style from the bytes that mode m and renderer r select: *)
(* activeVideoAddress takes the area from the renderer also for the text    *)
(* under high-resolution graphics.                                          *)
Band(style, m, r) ==
  [style |-> style, area |-> IF r = "hires" THEN "hires" ELSE "text", page |-> DisplayPage(m)]

TextStyles == {"text40", "text80"}

(* The characters under graphics of renderer r. *)
TextUnder(r, m) ==
  IF r = "lores80" \/ (r = "hires" /\ m.Columns80) THEN "text80" ELSE "text40"

NoFrame ==
  [ pass |-> "idle", band |-> "upper", by |-> "text40", text |-> "text40", cycle |-> 0,
    frame |-> [upper |-> Black, lower |-> Black] ]

DrawInit ==
  /\ video = UpdateDisplayMode(mode)
  /\ setting = FALSE
  /\ drawing = NoFrame

(* A setter, in two steps. *)
SetFlag(flag, on) ==
  /\ ~setting
  /\ mode' = [mode EXCEPT ![flag] = on]
  /\ setting' = (flag \in Refreshing)
  /\ UNCHANGED <<video, drawing>>

Refresh ==
  /\ setting
  /\ video' = UpdateDisplayMode(mode)
  /\ setting' = FALSE
  /\ UNCHANGED <<mode, drawing>>

(* redrawFrame's dispatch, in the tick of a cycle. *)
StartFrame(cycle) ==
  /\ drawing.pass = "idle"
  /\ drawing' = [NoFrame EXCEPT !.pass = IF video.render \in TextStyles THEN "text" ELSE "graphics",
                                !.by = video.render, !.text = video.render, !.cycle = cycle]
  /\ UNCHANGED <<mode, video, setting>>

(* What a pass leaves out: graphics the lower band, text the upper one,    *)
(* when the mode is mixed as it reads it.                                  *)
Skips(pass, band) ==
  IF pass = "graphics" THEN mode.Mixed /\ band = "lower"
                       ELSE ~mode.Text /\ mode.Mixed /\ band = "upper"

AfterPass(pass) == IF pass = "graphics" THEN "mixed" ELSE "done"

DrawBand ==
  /\ drawing.pass \in {"graphics", "text"}
  /\ LET drawn == Band(IF drawing.pass = "text" THEN drawing.text ELSE drawing.by, mode, video.render)
         last  == drawing.band = "lower"
     IN  drawing' = [drawing EXCEPT
                       !.frame[drawing.band] = IF Skips(drawing.pass, drawing.band) THEN @ ELSE drawn,
                       !.band = IF last THEN "upper" ELSE "lower",
                       !.pass = IF last THEN AfterPass(@) ELSE @]
  /\ UNCHANGED <<mode, video, setting>>

(* The text under the graphics, when the mode is mixed after they are drawn. *)
DrawTextUnder ==
  /\ drawing.pass = "mixed"
  /\ drawing' = [drawing EXCEPT !.pass = IF mode.Mixed THEN "text" ELSE "done",
                                !.text = TextUnder(drawing.by, mode)]
  /\ UNCHANGED <<mode, video, setting>>

(* The frame is handed to Present. *)
EndFrame == drawing' = NoFrame

DrawStep == DrawBand \/ DrawTextUnder

-----------------------------------------------------------------------------
(* The frame of a mode that nobody changes. *)
FrameOf(m) ==
  LET r == RenderOf(m) IN
  [ upper |-> Band(r, m, r),
    lower |-> Band(IF r \notin TextStyles /\ m.Mixed THEN TextUnder(r, m) ELSE r, m, r) ]
=============================================================================
