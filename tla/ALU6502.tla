------------------------------ MODULE ALU6502 -------------------------------
(***************************************************************************)
(* The arithmetic of the core (cpu/cpu6502.go): adc, sbc, compare and the  *)
(* shifts, on bytes and a carry.  An operation returns the byte and the    *)
(* flags it sets; CPU6502, whose control does not depend on the byte,      *)
(* leaves them to chance.                                                  *)
(***************************************************************************)
EXTENDS Integers

Byte  == 0 .. 255
Carry == {0, 1}

(* byte(n), for the sums and differences below, and the bits of a byte. *)
ToByte(n) == n % 256
Negative(b) == b >= 128
Low(b)  == b % 16
High(b) == b \div 16

Bit(condition) == IF condition THEN 1 ELSE 0

(* updateZN. *)
Result(b, c) == [value |-> b, C |-> c, Z |-> b = 0, N |-> Negative(b)]

-----------------------------------------------------------------------------
Sum(a, v, c) == a + v + c

(* V: both operands have one sign and the binary result has the other. *)
AdcV(a, v, c) ==
  (Negative(a) <=> Negative(v)) /\ ~(Negative(a) <=> Negative(ToByte(Sum(a, v, c))))

AdcBinary(a, v, c) == Result(ToByte(Sum(a, v, c)), Bit(Sum(a, v, c) > 255))

(* The corrections of decimal mode, of the low digit and then of the high. *)
Adjusted(a, v, c) ==
  LET low == Sum(a, v, c) + (IF Low(a) + Low(v) + c > 9 THEN 6 ELSE 0)
  IN  low + (IF low > 153 THEN 96 ELSE 0)

AdcDecimal(a, v, c) == Result(ToByte(Adjusted(a, v, c)), Bit(Adjusted(a, v, c) > 255))

-----------------------------------------------------------------------------
Difference(a, v, c) == a - v - (1 - c)

SbcV(a, v, c) ==
  ~(Negative(a) <=> Negative(v)) /\ ~(Negative(a) <=> Negative(ToByte(Difference(a, v, c))))

SbcBinary(a, v, c) == Result(ToByte(Difference(a, v, c)), Bit(Difference(a, v, c) >= 0))

(* The digits of a decimal difference, each corrected when it borrows. *)
DigitLow(a, v, c) ==
  LET low == Low(a) - Low(v) - (1 - c) IN low - (IF low < 0 THEN 6 ELSE 0)

DigitHigh(a, v, c) ==
  LET high == High(a) - High(v) - (IF Low(a) - Low(v) - (1 - c) < 0 THEN 1 ELSE 0)
  IN  high - (IF high < 0 THEN 6 ELSE 0)

SbcDecimal(a, v, c) ==
  Result(16 * (DigitHigh(a, v, c) % 16) + (DigitLow(a, v, c) % 16),
         Bit(Difference(a, v, c) >= 0))

-----------------------------------------------------------------------------
Compare(reg, v) == Result(ToByte(reg - v), Bit(reg >= v))

Asl(v)    == Result(ToByte(2 * v), v \div 128)
Lsr(v)    == Result(v \div 2, v % 2)
Rol(v, c) == Result(ToByte(2 * v) + c, v \div 128)
Ror(v, c) == Result(v \div 2 + 128 * c, v % 2)

-----------------------------------------------------------------------------
(* What the bytes stand for. *)
Signed(b) == IF Negative(b) THEN b - 256 ELSE b
IsBCD(b)  == Low(b) <= 9 /\ High(b) <= 9
BCD       == {b \in Byte : IsBCD(b)}
Decimal(b) == 10 * High(b) + Low(b)
=============================================================================
