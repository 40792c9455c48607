-------------------------- MODULE AlgorithmProofs ---------------------------
(***************************************************************************)
(* What the pure parts of the program compute, for every input: the        *)
(* arithmetic of the core, the layout of the screen, the routing of the    *)
(* bus.                                                                    *)
(***************************************************************************)
EXTENDS ALU6502, ScreenLayout, Bus, WellFoundedInduction, TLAPS

-----------------------------------------------------------------------------
(* cpu6502.go:315-373: the byte and the carry of a binary ADC are the sum  *)
(* of the operands, so that additions chain over any number of bytes; SBC  *)
(* borrows from the next byte what its own does not hold.                  *)
THEOREM BinaryArithmetic ==
  ASSUME NEW a \in Byte, NEW v \in Byte, NEW c \in Carry
  PROVE  /\ AdcBinary(a, v, c).value + 256 * AdcBinary(a, v, c).C = a + v + c
         /\ SbcBinary(a, v, c).value - 256 * (1 - SbcBinary(a, v, c).C) = a - v - (1 - c)
  BY DEF AdcBinary, SbcBinary, Result, Bit, ToByte, Sum, Difference, Byte, Carry

(* cpu6502.go:338,370: V, computed from three sign bits, is set exactly     *)
(* when the signed result does not fit a byte.                             *)
THEOREM OverflowFlag ==
  ASSUME NEW a \in Byte, NEW v \in Byte, NEW c \in Carry
  PROVE  /\ AdcV(a, v, c) <=> Signed(a) + Signed(v) + c \notin -128 .. 127
         /\ SbcV(a, v, c) <=> Signed(a) - Signed(v) - (1 - c) \notin -128 .. 127
<1>1. AdcV(a, v, c) <=> Signed(a) + Signed(v) + c \notin -128 .. 127
  BY DEF AdcV, Signed, Negative, ToByte, Sum, Byte, Carry
<1>2. SbcV(a, v, c) <=> Signed(a) - Signed(v) - (1 - c) \notin -128 .. 127
  <2> DEFINE d == a - v - (1 - c)
  <2>1. ToByte(Difference(a, v, c)) = IF d < 0 THEN d + 256 ELSE d
    BY DEF ToByte, Difference, Byte, Carry
  <2>2. a \in 0 .. 255 /\ v \in 0 .. 255 /\ c \in 0 .. 1
    BY DEF Byte, Carry
  <2>3. d \in Int /\ (SbcV(a, v, c) <=> /\ ~(a >= 128 <=> v >= 128)
                                      /\ ~(a >= 128 <=> (IF d < 0 THEN d + 256 ELSE d) >= 128))
    BY <2>1, <2>2 DEF SbcV, Negative
  <2>4. CASE a >= 128 /\ v >= 128
    BY <2>2, <2>3, <2>4 DEF Signed, Negative
  <2>5. CASE a >= 128 /\ v < 128
    BY <2>2, <2>3, <2>5 DEF Signed, Negative
  <2>6. CASE a < 128 /\ v >= 128
    BY <2>2, <2>3, <2>6 DEF Signed, Negative
  <2>7. CASE a < 128 /\ v < 128
    BY <2>2, <2>3, <2>7 DEF Signed, Negative
  <2> QED BY <2>2, <2>4, <2>5, <2>6, <2>7
<1> QED BY <1>1, <1>2

(* The two digits of a byte. *)
LEMMA Digits ==
  ASSUME NEW b \in BCD
  PROVE  Low(b) \in 0 .. 9 /\ High(b) \in 0 .. 9 /\ b = 16 * High(b) + Low(b)
  BY DEF BCD, IsBCD, Byte, Low, High

(* A byte is made of its digits. *)
LEMMA OfDigits ==
  ASSUME NEW h \in 0 .. 9, NEW l \in 0 .. 9
  PROVE  /\ IsBCD(16 * h + l)
         /\ Decimal(16 * h + l) = 10 * h + l
  BY DEF IsBCD, Decimal, Low, High

(* cpu6502.go:321-334: in decimal mode the digits of ADC are the sum of the *)
(* operands' digits, with a carry into the next two.                       *)
THEOREM DecimalSum ==
  ASSUME NEW a \in BCD, NEW v \in BCD, NEW c \in Carry
  PROVE  /\ IsBCD(AdcDecimal(a, v, c).value)
         /\ Decimal(AdcDecimal(a, v, c).value) + 100 * AdcDecimal(a, v, c).C
              = Decimal(a) + Decimal(v) + c
<1> DEFINE low   == Low(a) + Low(v) + c
           carry == IF low > 9 THEN 1 ELSE 0
           high  == High(a) + High(v) + carry
           out   == IF high > 9 THEN 1 ELSE 0
           l     == low - 10 * carry
           h     == high - 10 * out
<1>1. Low(a) \in 0 .. 9 /\ High(a) \in 0 .. 9 /\ Low(v) \in 0 .. 9 /\ High(v) \in 0 .. 9
  BY Digits
<1>2. l \in 0 .. 9 /\ h \in 0 .. 9 /\ carry \in {0, 1} /\ out \in {0, 1}
  BY <1>1 DEF Carry
<1>3. Sum(a, v, c) = 16 * (High(a) + High(v)) + low
  <2>1. a = 16 * High(a) + Low(a) /\ v = 16 * High(v) + Low(v)
    BY Digits
  <2> HIDE DEF carry, high, out, l, h
  <2> QED BY <1>1, <2>1 DEF Sum, Carry
<1>4. Adjusted(a, v, c) = 16 * h + l + 256 * out
  BY <1>1, <1>3 DEF Adjusted, Carry
<1> HIDE DEF l, h, out
<1>5. AdcDecimal(a, v, c).value = 16 * h + l /\ AdcDecimal(a, v, c).C = out
  BY <1>2, <1>4 DEF AdcDecimal, Result, Bit, ToByte
<1>6. IsBCD(16 * h + l) /\ Decimal(16 * h + l) = 10 * h + l
  BY <1>2, OfDigits
<1>7. 10 * h + l + 100 * out = Decimal(a) + Decimal(v) + c
  BY <1>1 DEF Decimal, Carry, h, l, out
<1> QED BY <1>5, <1>6, <1>7

(* cpu6502.go:350-366: in decimal mode the digits of SBC are the difference *)
(* of the operands', with a borrow from the next two.                      *)
THEOREM DecimalDifference ==
  ASSUME NEW a \in BCD, NEW v \in BCD, NEW c \in Carry
  PROVE  /\ IsBCD(SbcDecimal(a, v, c).value)
         /\ Decimal(SbcDecimal(a, v, c).value) - 100 * (1 - SbcDecimal(a, v, c).C)
              = Decimal(a) - Decimal(v) - (1 - c)
  BY DEF SbcDecimal, DigitLow, DigitHigh, Result, Bit, Difference, Byte, Carry, BCD, IsBCD,
         Low, High, Decimal

(* cpu6502.go:428-442: ROL and ROR undo each other through the carry. *)
THEOREM RotationsInvert ==
  ASSUME NEW v \in Byte, NEW c \in Carry
  PROVE  /\ Ror(Rol(v, c).value, Rol(v, c).C) = Result(v, c)
         /\ Rol(Ror(v, c).value, Ror(v, c).C) = Result(v, c)
  BY DEF Rol, Ror, Result, ToByte, Byte, Carry

-----------------------------------------------------------------------------
(* A row is its third of the screen and its place in the third. *)
LEMMA TextDigits ==
  ASSUME NEW row \in TextRows
  PROVE  /\ row % 8 \in 0 .. 7 /\ row \div 8 \in 0 .. 2
         /\ row = 8 * (row \div 8) + (row % 8)
  BY DEF TextRows

(* The 40 bytes of a row never reach into the next third's. *)
LEMMA ThirdsApart ==
  ASSUME NEW p \in Int, NEW q \in Int, NEW a \in Columns, NEW b \in Columns,
         40 * p + a = 40 * q + b
  PROVE  p = q /\ a = b
  BY DEF Columns

(* apple2e_crtc.go:1058-1060: the interleaved offsets of the 960 cells lie  *)
(* in the text page, and no two cells share a byte.                        *)
THEOREM CellsDistinct ==
  ASSUME NEW row \in TextRows, NEW col \in Columns, NEW other \in TextRows, NEW column \in Columns
  PROVE  /\ TextOffset(row, col) \in 0 .. TextPageSize - 1
         /\ TextOffset(row, col) = TextOffset(other, column) => row = other /\ col = column
<1> DEFINE p == row % 8
           q == other % 8
           t == 40 * (row \div 8) + col
           u == 40 * (other \div 8) + column
<1>1. p \in 0 .. 7 /\ q \in 0 .. 7 /\ t \in 0 .. 119 /\ u \in 0 .. 119
  BY DEF TextRows, Columns
<1>2. TextOffset(row, col) = 128 * p + t /\ TextOffset(other, column) = 128 * q + u
  BY DEF TextOffset, TextRows, Columns
<1>3. TextOffset(row, col) \in 0 .. TextPageSize - 1
  <2> HIDE DEF p, q, t, u
  <2> QED BY <1>1, <1>2 DEF TextPageSize
<1>4. ASSUME TextOffset(row, col) = TextOffset(other, column) PROVE row = other /\ col = column
  <2>1. p = q /\ t = u
    <3> HIDE DEF p, q, t, u
    <3> QED BY <1>1, <1>2, <1>4
  <2>2. row \div 8 = other \div 8 /\ col = column
    <3>1. row \div 8 \in Int /\ other \div 8 \in Int
      BY TextDigits
    <3>2. 40 * (row \div 8) + col = 40 * (other \div 8) + column
      BY <2>1
    <3> QED BY <3>1, <3>2, ThirdsApart
  <2> QED BY <2>1, <2>2, TextDigits
<1> QED BY <1>3, <1>4

(* apple2e_crtc.go:1011-1044,1062-1071: from the pointer that the firmware  *)
(* keeps to the start of the cursor's row, the search among the offsets    *)
(* finds this row and no other.                                            *)
THEOREM CursorFound ==
  ASSUME NEW base \in Int, NEW row \in TextRows, NEW column \in 0 .. 79
  PROVE  CursorAt(base, base + TextOffset(row, 0), column)
           = [found |-> TRUE, row |-> row, col |-> column]
<1> DEFINE offset == TextOffset(row, 0)
<1>1. 0 \in Columns
  BY DEF Columns
<1>2. offset \in 0 .. TextPageSize - 1
  BY <1>1, CellsDistinct
<1>3. CellsAt(offset) = {<<row, 0>>}
  <2>1. ASSUME NEW cell \in CellsAt(offset) PROVE cell = <<row, 0>>
    <3>1. PICK r \in TextRows, c \in Columns : cell = <<r, c>>
      BY DEF CellsAt
    <3>2. TextOffset(r, c) = TextOffset(row, 0)
      BY <3>1 DEF CellsAt
    <3> QED BY <1>1, <3>1, <3>2, CellsDistinct
  <2>2. <<row, 0>> \in CellsAt(offset)
    BY <1>1 DEF CellsAt
  <2> QED BY <2>1, <2>2
<1>4. (base + offset) - base = offset
  BY <1>2 DEF TextPageSize
<1>5. column < 80
  OBVIOUS
<1> HIDE DEF offset
<1>6. CursorAt(base, base + offset, column) =
        IF column < 80 /\ offset \in 0 .. TextPageSize - 1 /\ CellsAt(offset) # {}
          THEN [found |-> TRUE, row |-> (CHOOSE cell \in CellsAt(offset) : TRUE)[1], col |-> column]
          ELSE NoCursor
  BY <1>4, Zenon DEF CursorAt
<1>7. CellsAt(offset) # {} /\ (CHOOSE cell \in CellsAt(offset) : TRUE) = <<row, 0>>
  BY <1>3, Zenon
<1>8. <<row, 0>>[1] = row
  OBVIOUS
<1> QED BY <1>2, <1>5, <1>6, <1>7, <1>8, Zenon DEF offset

(* A scan line is its third, its row of cells there and its line of them. *)
LEMMA ScanDigits ==
  ASSUME NEW scan \in Scans
  PROVE  /\ scan % 8 \in 0 .. 7 /\ (scan \div 8) % 8 \in 0 .. 7 /\ scan \div 64 \in 0 .. 2
         /\ scan = 64 * (scan \div 64) + 8 * ((scan \div 8) % 8) + (scan % 8)
  BY DEF Scans

(* apple2e_crtc.go:1073-1075: the offsets of the 7680 bytes of a picture    *)
(* lie in the high-resolution page, and no two places share a byte.        *)
THEOREM HiResDistinct ==
  ASSUME NEW scan \in Scans, NEW col \in Columns, NEW other \in Scans, NEW column \in Columns
  PROVE  /\ HiResOffset(scan, col) \in 0 .. HiResPageSize - 1
         /\ HiResOffset(scan, col) = HiResOffset(other, column) => scan = other /\ col = column
<1> DEFINE p == 8 * (scan % 8) + ((scan \div 8) % 8)
           q == 8 * (other % 8) + ((other \div 8) % 8)
           t == 40 * (scan \div 64) + col
           u == 40 * (other \div 64) + column
<1>1. p \in 0 .. 63 /\ q \in 0 .. 63 /\ t \in 0 .. 119 /\ u \in 0 .. 119
  BY DEF Scans, Columns
<1>2. HiResOffset(scan, col) = 128 * p + t /\ HiResOffset(other, column) = 128 * q + u
  BY DEF HiResOffset, Scans, Columns
<1>3. HiResOffset(scan, col) \in 0 .. HiResPageSize - 1
  <2> HIDE DEF p, q, t, u
  <2> QED BY <1>1, <1>2 DEF HiResPageSize
<1>4. ASSUME HiResOffset(scan, col) = HiResOffset(other, column)
      PROVE  scan = other /\ col = column
  <2>1. p = q /\ t = u
    <3> HIDE DEF p, q, t, u
    <3> QED BY <1>1, <1>2, <1>4
  <2>2. scan % 8 = other % 8 /\ (scan \div 8) % 8 = (other \div 8) % 8
    BY <2>1, ScanDigits
  <2>3. scan \div 64 = other \div 64 /\ col = column
    <3>1. scan \div 64 \in Int /\ other \div 64 \in Int
      BY ScanDigits
    <3>2. 40 * (scan \div 64) + col = 40 * (other \div 64) + column
      BY <2>1
    <3> QED BY <3>1, <3>2, ThirdsApart
  <2> QED BY <2>2, <2>3, ScanDigits
<1> QED BY <1>3, <1>4

(* The pairs of characters make 80 columns of 7 of the 560 pixels. *)
LEMMA CharacterLeft ==
  ASSUME NEW column \in 0 .. 79
  PROVE  14 * (column \div 2) + 7 * (column % 2) = 7 * column
  OBVIOUS

(* apple2e_crtc.go:658-691,1046-1056,1077-1094: in a window at least 80     *)
(* pixels wide the 80 characters of a row are never empty, lie side by     *)
(* side and fill it: each ends where the next one begins, and so does the  *)
(* cursor, which is drawn over one of them.                                *)
THEOREM CharactersTile ==
  ASSUME NEW width \in Nat, width >= 80, NEW column \in 0 .. 79
  PROVE  /\ CharacterSpan(column, width) =
              [from |-> (column * width) \div 80, to |-> ((column + 1) * width) \div 80]
         /\ (column * width) \div 80 < ((column + 1) * width) \div 80
         /\ ((column + 1) * width) \div 80 <= width
<1> DEFINE n == column * width
           m == (column + 1) * width
<1>1. n \in Nat /\ m = n + width /\ m <= 80 * width
  OBVIOUS
<1>2. (7 * column) * width = 7 * n /\ (7 * column + 7) * width = 7 * n + 7 * width
  OBVIOUS
<1> HIDE DEF n, m
<1>3. (7 * n) \div 560 = n \div 80 /\ (7 * n + 7 * width) \div 560 = m \div 80
  BY <1>1
<1>4. n \div 80 < m \div 80 /\ m \div 80 <= width /\ n \div 80 >= 0
  BY <1>1
<1>5. CharacterSpan(column, width) = ScaleSpan(7 * column, 7 * column + 7, 560, width)
  BY CharacterLeft DEF CharacterSpan
<1>6. ScaleSpan(7 * column, 7 * column + 7, 560, width) = [from |-> n \div 80, to |-> m \div 80]
  <2>1. ~(560 <= 0 \/ width <= 0 \/ 7 * column + 7 <= 7 * column)
    OBVIOUS
  <2> QED BY <1>1, <1>2, <1>3, <1>4, <2>1 DEF ScaleSpan
<1> QED BY <1>4, <1>5, <1>6 DEF n, m

-----------------------------------------------------------------------------
(* Mappings as MapDevice keeps them. *)
MappingType == [start : Addresses, end : Addresses, device : Devices]

(* Addresses are 16-bit numbers. *)
LEMMA AddressBounds ==
  ASSUME NEW addr \in Addresses
  PROVE  addr \in Int /\ 0 <= addr /\ addr <= 65535
<1>1. addr \in 0 .. Last
  BY DEF Addresses
<1>2. Last \in Int
  BY DEF Last
<1>3. addr \in Int /\ 0 <= addr /\ addr <= Last
  BY <1>1, <1>2
<1>4. Last <= 65535
  BY DEF Last
<1> HIDE <1>1
<1> QED BY <1>2, <1>3, <1>4

(* An integer in their range is one. *)
LEMMA InAddresses ==
  ASSUME NEW n \in Int, 0 <= n, n <= Last
  PROVE  n \in Addresses
<1>1. Last \in Int
  BY DEF Last
<1> QED BY <1>1 DEF Addresses

(* So the bounds of a mapping, and its span, are integers. *)
LEMMA MappingBounds ==
  ASSUME NEW m \in MappingType
  PROVE  m.start \in Int /\ m.end \in Int /\ Span(m) \in Int
<1>1. m.start \in Addresses /\ m.end \in Addresses
  BY DEF MappingType
<1>2. m.start \in Int /\ m.end \in Int
  BY <1>1, AddressBounds
<1> QED BY <1>2 DEF Span

(* A mapping made of two addresses and a device. *)
LEMMA MappingOf ==
  ASSUME NEW s \in Addresses, NEW e \in Addresses, NEW d \in Devices
  PROVE  Mapping(s, e, d) \in MappingType
  BY DEF Mapping, MappingType

(* A set of natural numbers has a least one. *)
LEMMA LeastOf ==
  ASSUME NEW K \in SUBSET Nat, K # {}
  PROVE  \E k \in K : \A l \in K : k <= l
<1>1. PICK k \in K : \A l \in K : ~(<<l, k>> \in OpToRel(<, Nat))
  BY NatLessThanWellFounded, WFMin
<1>2. \A l \in K : ~(l < k)
  BY <1>1 DEF OpToRel
<1> QED BY <1>2

(* Among the mappings that hold an address one is preferred to all. *)
LEMMA PreferredExists ==
  ASSUME NEW mappings \in Seq(MappingType), NEW addr \in Addresses,
         Candidates(mappings, addr) # {}
  PROVE  \E i \in Candidates(mappings, addr) :
           \A j \in Candidates(mappings, addr) : Preferred(mappings, i, j)
<1> DEFINE C == Candidates(mappings, addr)
           spans == {Span(mappings[i]) : i \in C}
<1>1. ASSUME NEW i \in C
      PROVE  i \in 1 .. Len(mappings) /\ Len(mappings) \in Nat /\ Span(mappings[i]) \in Nat
  <2>1. i \in 1 .. Len(mappings) /\ Covers(mappings[i], addr)
    BY DEF Candidates
  <2>2. mappings[i] \in MappingType
    BY <2>1
  <2>3. mappings[i].start \in Int /\ mappings[i].end \in Int
    BY <2>2, MappingBounds
  <2>4. addr \in Int
    BY AddressBounds
  <2> QED BY <2>1, <2>3, <2>4 DEF Covers, Span
<1> HIDE DEF C
<1>2. PICK s \in spans : \A t \in spans : s <= t
  <2>1. spans \in SUBSET Nat /\ spans # {}
    BY <1>1 DEF C
  <2> HIDE DEF spans
  <2> QED BY <2>1, LeastOf
<1> DEFINE narrow == {i \in C : Span(mappings[i]) = s}
           behind == {Len(mappings) - i : i \in narrow}
<1>3. PICK d \in behind : \A e \in behind : d <= e
  <2>1. behind \in SUBSET Nat /\ behind # {}
    <3>1. PICK i \in C : Span(mappings[i]) = s
      BY <1>2
    <3>2. \A k \in narrow : Len(mappings) - k \in Nat
      BY <1>1
    <3> QED BY <3>1, <3>2
  <2> HIDE DEF behind
  <2> QED BY <2>1, LeastOf
<1>4. PICK i \in narrow : d = Len(mappings) - i
  BY <1>3
<1>5. ASSUME NEW j \in C PROVE Preferred(mappings, i, j)
  <2>1. i \in C /\ Span(mappings[i]) = s
    BY <1>4
  <2>2. s <= Span(mappings[j])
    BY <1>2
  <2>3. i \in Int /\ j \in Int /\ s \in Int /\ Span(mappings[j]) \in Int /\ Len(mappings) \in Int
    BY <1>1, <2>1
  <2>4. CASE Span(mappings[j]) = s
    <3>1. Len(mappings) - j \in behind
      BY <2>4
    <3>2. Len(mappings) - i <= Len(mappings) - j
      BY <1>3, <1>4, <3>1
    <3>3. i >= j
      BY <2>3, <3>2
    <3> QED BY <2>1, <2>4, <3>3 DEF Preferred
  <2>5. CASE Span(mappings[j]) # s
    BY <2>1, <2>2, <2>3, <2>5 DEF Preferred
  <2> QED BY <2>4, <2>5
<1> QED BY <1>4, <1>5 DEF C

(* And only one, so it is the one that findMapping returns. *)
LEMMA FindPreferred ==
  ASSUME NEW mappings \in Seq(MappingType), NEW addr, NEW i \in Candidates(mappings, addr),
         \A j \in Candidates(mappings, addr) : Preferred(mappings, i, j)
  PROVE  FindMapping(mappings, addr) = i
<1>1. ASSUME NEW k \in Candidates(mappings, addr)
      PROVE  k \in Int /\ Span(mappings[k]) \in Int
  <2>1. k \in 1 .. Len(mappings)
    BY DEF Candidates
  <2>2. mappings[k] \in MappingType
    BY <2>1
  <2> QED BY <2>1, <2>2, MappingBounds
<1>2. ASSUME NEW k \in Candidates(mappings, addr),
             \A j \in Candidates(mappings, addr) : Preferred(mappings, k, j)
      PROVE  k = i
  <2>1. Preferred(mappings, k, i) /\ Preferred(mappings, i, k)
    BY <1>2
  <2>2. k \in Int /\ i \in Int /\ Span(mappings[k]) \in Int /\ Span(mappings[i]) \in Int
    BY <1>1
  <2> QED BY <2>1, <2>2 DEF Preferred
<1>3. FindMapping(mappings, addr) \in Candidates(mappings, addr)
      /\ \A j \in Candidates(mappings, addr) : Preferred(mappings, FindMapping(mappings, addr), j)
  BY Zenon DEF FindMapping
<1> QED BY <1>2, <1>3

(* The device of an address is the preferred mapping's. *)
LEMMA DevicePreferred ==
  ASSUME NEW mappings \in Seq(MappingType), NEW addr, NEW i \in Candidates(mappings, addr),
         \A j \in Candidates(mappings, addr) : Preferred(mappings, i, j)
  PROVE  DeviceAt(mappings, addr) = mappings[i].device
<1>1. FindMapping(mappings, addr) = i
  BY FindPreferred
<1>2. Candidates(mappings, addr) # {}
  OBVIOUS
<1> QED BY <1>1, <1>2, Zenon DEF DeviceAt

(* bus.go:30-49,87-108: a device mapped to a range no wider than those     *)
(* already there is reached at every address of its range, whatever was    *)
(* mapped before: this is what lets the soft switches lie in the MMU's.    *)
THEOREM MapReaches ==
  ASSUME NEW mappings \in Seq(MappingType), NEW m \in MappingType, NEW addr \in Addresses,
         Covers(m, addr),
         \A i \in Candidates(mappings, addr) : Span(m) <= Span(mappings[i])
  PROVE  DeviceAt(MapDevice(mappings, m), addr) = m.device
<1> DEFINE new == Append(mappings, m)
           n   == Len(mappings) + 1
<1>1. MapDevice(mappings, m) = new
  <2>1. m.start \in Int /\ m.end \in Int /\ addr \in Int
    BY MappingBounds, AddressBounds
  <2> QED BY <2>1 DEF MapDevice, Covers
<1>2. new \in Seq(MappingType) /\ new[n] = m /\ DOMAIN new = 1 .. n /\ n \in Nat
      /\ DOMAIN mappings = 1 .. Len(mappings) /\ Len(mappings) \in Nat
      /\ \A i \in 1 .. Len(mappings) : new[i] = mappings[i] /\ mappings[i] \in MappingType
  OBVIOUS
<1>3. n = Len(mappings) + 1
  OBVIOUS
<1> HIDE DEF new, n
<1>4. n \in Candidates(new, addr)
  <2>1. n \in 1 .. n
    BY <1>2, <1>3
  <2> QED BY <1>2, <2>1 DEF Candidates
<1>5. ASSUME NEW j \in Candidates(new, addr) PROVE Preferred(new, n, j)
  <2>1. CASE j = n
    BY <1>2, <2>1 DEF Preferred
  <2>2. CASE j # n
    <3>1. j \in 1 .. n
      BY <1>2 DEF Candidates
    <3>2. j \in 1 .. Len(mappings) /\ n > j
      BY <1>2, <1>3, <2>2, <3>1
    <3>3. new[j] = mappings[j] /\ mappings[j] \in MappingType
      BY <1>2, <3>2
    <3>4. j \in Candidates(mappings, addr)
      BY <1>2, <3>2, <3>3 DEF Candidates
    <3>5. Span(new[n]) <= Span(new[j])
      BY <1>2, <3>3, <3>4
    <3>6. Span(new[n]) \in Int /\ Span(new[j]) \in Int
      BY <1>2, <3>3, MappingBounds
    <3>7. n \in Int /\ j \in Int
      BY <1>2, <3>1
    <3> QED BY <3>2, <3>5, <3>6, <3>7 DEF Preferred
  <2> QED BY <2>1, <2>2
<1>6. DeviceAt(new, addr) = new[n].device
  BY <1>2, <1>4, <1>5, DevicePreferred
<1> QED BY <1>1, <1>2, <1>6

(* bus.go:30-49,87-108: mapping a device changes the device of no address   *)
(* outside its range.                                                      *)
THEOREM MapIsLocal ==
  ASSUME NEW mappings \in Seq(MappingType), NEW m \in MappingType, NEW addr \in Addresses,
         ~Covers(m, addr)
  PROVE  DeviceAt(MapDevice(mappings, m), addr) = DeviceAt(mappings, addr)
<1> DEFINE new == Append(mappings, m)
<1>1. CASE m.end < m.start
  BY <1>1 DEF MapDevice
<1>2. CASE ~(m.end < m.start)
  <2>1. MapDevice(mappings, m) = new
    BY <1>2 DEF MapDevice
  <2>2. /\ DOMAIN new = 1 .. Len(mappings) + 1 /\ DOMAIN mappings = 1 .. Len(mappings)
        /\ new[Len(mappings) + 1] = m /\ Len(mappings) \in Nat
        /\ \A i \in 1 .. Len(mappings) : new[i] = mappings[i]
    OBVIOUS
  <2> HIDE DEF new
  <2>3. Candidates(new, addr) = Candidates(mappings, addr)
    <3>1. \A i : i \in 1 .. Len(mappings) + 1 <=> i \in 1 .. Len(mappings) \/ i = Len(mappings) + 1
      BY <2>2
    <3>2. ASSUME NEW i
          PROVE  i \in DOMAIN new /\ Covers(new[i], addr)
                   <=> i \in DOMAIN mappings /\ Covers(mappings[i], addr)
      BY <2>2, <3>1, Zenon
    <3> QED BY <3>2, Zenon DEF Candidates
  <2>4. \A i \in Candidates(mappings, addr) : new[i] = mappings[i]
    BY <2>2 DEF Candidates
  <2>5. ASSUME NEW i \in Candidates(mappings, addr)
        PROVE  (\A j \in Candidates(mappings, addr) : Preferred(new, i, j))
                 <=> (\A j \in Candidates(mappings, addr) : Preferred(mappings, i, j))
    BY <2>4, Zenon DEF Preferred
  <2>6. FindMapping(new, addr) = FindMapping(mappings, addr)
    <3> DEFINE best == {i \in Candidates(mappings, addr) :
                          \A j \in Candidates(mappings, addr) : Preferred(mappings, i, j)}
               newBest == {i \in Candidates(new, addr) :
                             \A j \in Candidates(new, addr) : Preferred(new, i, j)}
    <3>1. newBest = best
      BY <2>3, <2>5, Zenon
    <3> QED BY <2>3, <2>5, Zenon DEF FindMapping
  <2>7. CASE Candidates(mappings, addr) = {}
    BY <2>1, <2>3, <2>7 DEF DeviceAt
  <2>8. CASE Candidates(mappings, addr) # {}
    <3>1. FindMapping(mappings, addr) \in Candidates(mappings, addr)
      BY <2>8, PreferredExists, Zenon DEF FindMapping
    <3> QED BY <2>1, <2>3, <2>4, <2>6, <2>8, <3>1, Zenon DEF DeviceAt
  <2> QED BY <2>7, <2>8
<1> QED BY <1>1, <1>2

(* main.go:195-197,375-411: on the program's bus every address has a        *)
(* device: the soft switches and the 80-column card have exactly their     *)
(* pages' ranges, the MMU all the rest, $C020-$C02F and $C040-$C04F, which *)
(* hold switches of the real machine, among them.                          *)
THEOREM Routing ==
  ASSUME NEW addr \in Addresses
  PROVE  DeviceAt(AppleIIeMap, addr) =
           IF addr \in (49152 .. 49183) \union (49200 .. 49215) \union (49232 .. 49247)
             THEN "switches"
           ELSE IF addr \in 49328 .. 49343 THEN "card" ELSE "mmu"
<1> DEFINE map == AppleIIeMap
<1>1. map \in Seq(MappingType) /\ DOMAIN map = 1 .. 5
  <2>2. /\ Memory \in MappingType /\ Keys \in MappingType /\ Speaker \in MappingType
        /\ Video \in MappingType /\ Columns80Card \in MappingType
    <3>1. /\ 0 \in Addresses /\ Last \in Addresses /\ 49152 \in Addresses /\ 49183 \in Addresses
          /\ 49200 \in Addresses /\ 49215 \in Addresses /\ 49232 \in Addresses
          /\ 49247 \in Addresses /\ 49328 \in Addresses /\ 49343 \in Addresses
      <4>1. Last = 65535
        BY DEF Last
      <4>2. ASSUME NEW n \in Int, 0 <= n, n <= 65535 PROVE n \in Addresses
        <5>1. n <= Last
          BY <4>1, <4>2
        <5> QED BY <5>1, <4>2, InAddresses
      <4> QED BY <4>1, <4>2
    <3>2. "mmu" \in Devices /\ "switches" \in Devices /\ "card" \in Devices
      BY DEF Devices
    <3> QED BY <3>1, <3>2, MappingOf DEF Memory, Keys, Speaker, Video, Columns80Card
  <2> QED BY <2>2 DEF AppleIIeMap
<1>2. map[1] = Memory /\ map[2] = Keys /\ map[3] = Speaker /\ map[4] = Video /\ map[5] = Columns80Card
  BY DEF AppleIIeMap
<1>3. \A i \in 1 .. 5 : i = 1 \/ i = 2 \/ i = 3 \/ i = 4 \/ i = 5
  OBVIOUS
<1> HIDE DEF map
<1>4. ASSUME NEW i \in Candidates(map, addr) PROVE i \in {1,2,3,4,5} /\ Covers(map[i], addr)
  BY <1>1, <1>3 DEF Candidates
<1> /\ addr \in Int /\ 0 <= addr /\ addr <= 65535
    /\ Last = 65535
  BY AddressBounds DEF Last
<1>5. Span(map[1]) = 65535 /\ Span(map[2]) = 31 /\ Span(map[3]) = 15 /\ Span(map[4]) = 15 /\ Span(map[5]) = 15
  BY <1>2 DEF Span, Memory, Keys, Speaker, Video, Columns80Card, Mapping
<1>6. /\ Covers(map[1], addr)
      /\ Covers(map[2], addr) <=> addr \in 49152 .. 49183
      /\ Covers(map[3], addr) <=> addr \in 49200 .. 49215
      /\ Covers(map[4], addr) <=> addr \in 49232 .. 49247
      /\ Covers(map[5], addr) <=> addr \in 49328 .. 49343
  BY <1>2 DEF Covers, Memory, Keys, Speaker, Video, Columns80Card, Mapping
<1>7. /\ map[1].device = "mmu" /\ map[2].device = "switches" /\ map[3].device = "switches"
      /\ map[4].device = "switches" /\ map[5].device = "card"
  BY <1>2 DEF Memory, Keys, Speaker, Video, Columns80Card, Mapping
<1>8. ASSUME NEW i \in 2 .. 5, Covers(map[i], addr) PROVE DeviceAt(map, addr) = map[i].device
  <2>1. \A j \in Candidates(map, addr) : j = 1 \/ j = i
    BY <1>4, <1>6, <1>8
  <2>2. \A j \in Candidates(map, addr) : Preferred(map, i, j)
    BY <1>5, <2>1 DEF Preferred
  <2>3. i \in Candidates(map, addr)
    BY <1>1, <1>8 DEF Candidates
  <2> QED BY <1>1, <2>2, <2>3, DevicePreferred
<1>9. ASSUME \A i \in 2 .. 5 : ~Covers(map[i], addr) PROVE DeviceAt(map, addr) = "mmu"
  <2>1. 1 \in Candidates(map, addr)
    BY <1>1, <1>6 DEF Candidates
  <2>2. \A j \in Candidates(map, addr) : j = 1
    BY <1>4, <1>9
  <2>3. \A j \in Candidates(map, addr) : Preferred(map, 1, j)
    BY <2>2 DEF Preferred
  <2> QED BY <1>1, <1>7, <2>1, <2>3, DevicePreferred
<1>10. CASE addr \in 49152 .. 49183
  BY <1>6, <1>7, <1>8, <1>10 DEF map
<1>11. CASE addr \in 49200 .. 49215
  BY <1>6, <1>7, <1>8, <1>11 DEF map
<1>12. CASE addr \in 49232 .. 49247
  BY <1>6, <1>7, <1>8, <1>12 DEF map
<1>13. CASE addr \in 49328 .. 49343
  BY <1>6, <1>7, <1>8, <1>13 DEF map
<1>14. CASE addr \notin (49152 .. 49183) \union (49200 .. 49215) \union (49232 .. 49247)
                        \union (49328 .. 49343)
  <2>1. \A i \in 2 .. 5 : ~Covers(map[i], addr)
    BY <1>3, <1>6, <1>14
  <2> QED BY <1>9, <1>14, <2>1 DEF map
<1> QED BY <1>10, <1>11, <1>12, <1>13, <1>14
=============================================================================
