----------------------------- MODULE DisplayMode -----------------------------
(* The flags of the CRTC's display mode and what they select               *)
(* (video/apple2e_crtc.go).                                                *)
EXTENDS Naturals

Flags ==
  { "Text", "HiRes", "Mixed", "Page2", "Store80", "AltCharset", "Columns80",
    "DoubleWidth" }

(* The flags whose setters call updateDisplayMode. *)
Refreshing == Flags \ {"Mixed", "Store80", "AltCharset"}

DisplayPage(m) == IF m.Page2 /\ ~m.Store80 THEN 1 ELSE 0

RenderOf(m) ==
  CASE m.Text /\ m.Columns80                              -> "text80"
    [] m.Text /\ ~m.Columns80                             -> "text40"
    [] ~m.Text /\ m.HiRes                                 -> "hires"
    [] ~m.Text /\ ~m.HiRes /\ m.Columns80 /\ m.DoubleWidth -> "lores80"
    [] OTHER                                              -> "lores"

Renderers == {"text40", "text80", "lores", "lores80", "hires"}

UpdateDisplayMode(m) == [render |-> RenderOf(m), page |-> DisplayPage(m)]

(* initRegisters, SetTextMode. *)
PowerOnMode == [f \in Flags |-> f = "Text"]
=============================================================================
