---------------------------- MODULE ScreenLayout ----------------------------
(***************************************************************************)
(* Where the CRTC finds the bytes of a cell and puts its pixels            *)
(* (video/apple2e_crtc.go): the interleaved text and high-resolution       *)
(* pages, the 80-column cursor, and the scaling of a span to the window.   *)
(***************************************************************************)
EXTENDS Integers

TextRows == 0 .. 23
Columns  == 0 .. 39
Scans    == 0 .. 191

TextPageSize  == 1024
HiResPageSize == 8192

(* The offset of a cell, and of the seven pixels of a column, in its page. *)
TextOffset(row, col)  == 128 * (row % 8) + 40 * (row \div 8) + col
HiResOffset(scan, col) ==
  1024 * (scan % 8) + 128 * ((scan \div 8) % 8) + 40 * (scan \div 64) + col

(* The cells at an offset; the scan of appleIIeTextRowCol finds the first. *)
CellsAt(offset) == {cell \in TextRows \X Columns : TextOffset(cell[1], cell[2]) = offset}

NoCursor == [found |-> FALSE, row |-> 0, col |-> 0]

(* The 80-column cursor, from the firmware's pointer to the start of its   *)
(* row and its column byte.                                                *)
CursorAt(base, pointer, column) ==
  LET cells == CellsAt(pointer - base) IN
  IF column < 80 /\ pointer - base \in 0 .. TextPageSize - 1 /\ cells # {}
    THEN [found |-> TRUE, row |-> (CHOOSE cell \in cells : TRUE)[1], col |-> column]
    ELSE NoCursor

-----------------------------------------------------------------------------
NoSpan == [from |-> 0, to |-> 0]

(* scaleSpan: the pixels from start to end, of source, among target. *)
ScaleSpan(start, end, source, target) ==
  LET from == (start * target) \div source
      to   == (end * target) \div source
      wide == IF to <= from THEN from + 1 ELSE to
  IN  IF source <= 0 \/ target <= 0 \/ end <= start THEN NoSpan
      ELSE [from |-> IF from < 0 THEN 0 ELSE from, to |-> IF wide > target THEN target ELSE wide]

(* A pair of 80-column characters takes 14 of 560 pixels; the first one is *)
(* the auxiliary byte's.                                                   *)
CharacterSpan(column, width) ==
  LET left == 14 * (column \div 2) + 7 * (column % 2) IN ScaleSpan(left, left + 7, 560, width)

CursorSpan(column, width) ==
  IF column \in 0 .. 79 THEN CharacterSpan(column, width) ELSE NoSpan
=============================================================================
