---------------------------- MODULE TraceOverlay ----------------------------
(***************************************************************************)
(* The trace overlay (video/trace_overlay.go): the last lines of the       *)
(* trace, the line under way, and a status line, each method under the     *)
(* lock of its own.  A text is a sequence of tokens; what is written is    *)
(* given as its fragments between line ends, without colours.              *)
(***************************************************************************)
EXTENDS Naturals, Sequences

CONSTANTS
  MaxLines,   \* maxLines, 256 in the program
  Visible     \* vulkanTraceVisibleLines, 24

ASSUME LinesAssumption == {MaxLines, Visible} \subseteq Nat \ {0}

VARIABLE overlay

Empty == [lines |-> <<>>, partial |-> <<>>, cycle |-> 0, registers |-> 0]

-----------------------------------------------------------------------------
Latest(lines, n) == SubSeq(lines, IF Len(lines) > n THEN Len(lines) - n + 1 ELSE 1, Len(lines))

AppendLine(lines, line) ==
  IF line = <<>> THEN lines ELSE Latest(Append(lines, line), MaxLines)

(* All fragments but the last end a line; the last, empty behind a line    *)
(* end, is the line under way.                                             *)
Write(fragments) ==
  LET all  == <<overlay.partial \o Head(fragments)>> \o Tail(fragments)
      last == Len(all)
      after[k \in 0 .. last - 1] ==
        IF k = 0 THEN overlay.lines ELSE AppendLine(after[k - 1], all[k])
  IN  overlay' = [overlay EXCEPT !.lines = after[last - 1], !.partial = all[last]]

SetClock(cycle) == overlay' = [overlay EXCEPT !.cycle = cycle]

SetCPUState(registers) == overlay' = [overlay EXCEPT !.registers = registers]

UnderWay == IF overlay.partial = <<>> THEN <<>> ELSE <<overlay.partial>>

Text   == Latest(overlay.lines \o UnderWay, Visible)
Status == [cycle |-> overlay.cycle, registers |-> overlay.registers]
=============================================================================
