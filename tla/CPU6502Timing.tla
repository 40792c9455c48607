--------------------------- MODULE CPU6502Timing ---------------------------
(***************************************************************************)
(* The core with a record of the instruction in progress, and what its     *)
(* addressing modes promise: the cycles and bytes the opcode table         *)
(* declares, and the effective addresses of the 6502.  The references are  *)
(* stated over the operand bytes read and flat addresses 0 .. B*B - 1, not *)
(* over the temporaries the micro-operations use.                          *)
(***************************************************************************)
EXTENDS CPU6502

CONSTANTS
  MaxStarted,     \* bound on the sequences begun since a reset
  MaxRequested    \* bound on the interrupt requests since a reset

VARIABLES
  ticks,        \* ticks of the current sequence, opcode fetch included
  start,        \* the address of its opcode
  reads,        \* the first three bytes read after its opcode: operand, pointer
  started,      \* sequences begun
  requested     \* interrupts requested

record == <<ticks, start, reads>>
tvars  == <<vars, record, started, requested>>

TInit ==
  /\ Init
  /\ ticks = 0 /\ start = PC /\ reads = << >> /\ started = 0 /\ requested = 0

TickBegin ==
  /\ current = "none" /\ started < MaxStarted
  /\ Tick
  /\ ticks' = 1
  /\ start' = NextInstruction
  /\ reads' = << >>
  /\ started' = started + 1
  /\ UNCHANGED requested

TickOp ==
  /\ current # "none"
  /\ Tick
  /\ ticks' = ticks + 1
  /\ reads' = IF bus'.op = "read" /\ Len(reads) < 3 THEN Append(reads, bus'.val)
                                                   ELSE reads
  /\ UNCHANGED <<start, started, requested>>

TRequest ==
  /\ requested < MaxRequested
  /\ RequestIRQ \/ RequestNMI
  /\ requested' = requested + 1
  /\ UNCHANGED <<record, started>>

TReset ==
  /\ Reset
  /\ ticks' = 0 /\ start' = PC' /\ reads' = << >> /\ started' = 0 /\ requested' = 0

TNext == TickBegin \/ TickOp \/ TRequest \/ TReset

TSpec == TInit /\ [][TNext]_tvars

-----------------------------------------------------------------------------
Flat(w) == w[1] * B + w[2]

(* The step that ends an instruction of the opcode table. *)
Finishes == TickOp /\ current \in Instructions /\ current' = "none"

(* The address after the current instruction. *)
FallThrough == (Flat(start) + Bytes[current]) % (B * B)

Indexed  == {"absIdxRead", "indYRead", "absIdxWrite", "indYWrite", "absXModify"}
BitTests == {"BBR", "BBS"}
Branches == BitTests \cup {"branch"}

Taken ==
  IF current = "branch" THEN cond ELSE Bit(reads[2]) = (current = "BBS")

(* The low byte of the base address to which an indexed mode adds. *)
BaseLow == IF current \in {"indYRead", "indYWrite"} THEN reads[2] ELSE reads[1]

(* Cycles beyond the declared ones: a page crossed by an indexed read, a   *)
(* branch taken, and a branch taken into another page than the next        *)
(* instruction's.  BBR and BBS are declared with the cycles of a branch    *)
(* taken in its page.                                                      *)
ExtraCycles ==
  CASE current \in {"absIdxRead", "indYRead"} -> IF BaseLow + index >= B THEN 1 ELSE 0
    [] current \in Branches ->
         (IF current \in BitTests THEN -1 ELSE 0) +
         (IF ~Taken THEN 0
          ELSE IF PC'[1] = FallThrough \div B THEN 1 ELSE 2)
    [] OTHER -> 0

(* lang.go:826-1169 against cpu6502.go:124-180: an instruction takes the   *)
(* ticks its table entry declares plus the page-crossing and branch        *)
(* penalties, whichever micro-operations its sequence skips.               *)
InstructionTiming ==
  [][Finishes => ticks' = Cycles[current] + ExtraCycles]_tvars

(* lang.go:826-1169: an instruction that transfers no control leaves PC    *)
(* behind the bytes its table entry declares, also across the end of a     *)
(* page and of the address space; the disassembler relies on it.           *)
Transfers == {"JMPabs", "JMPind", "JSR", "RTI", "RTS", "BRK"}

InstructionLength ==
  [][Finishes /\ current \notin Transfers /\ ~(current \in Branches /\ Taken)
       => Flat(PC') = FallThrough]_tvars

-----------------------------------------------------------------------------
(* The address that each kind of operand denotes, from the bytes read.     *)
Little(lo, hi) == lo + B * hi

EffectiveAddress ==
  CASE current \in {"zpRead", "zpWrite", "zpModify", "BBR", "BBS"} -> reads[1]
    [] current \in {"zpIdxRead", "zpIdxWrite", "zpXModify"}  -> (reads[1] + index) % B
    [] current \in {"absRead", "absWrite", "absModify"}      -> Little(reads[1], reads[2])
    [] current \in {"absIdxRead", "absIdxWrite", "absXModify"}
                               -> (Little(reads[1], reads[2]) + index) % (B * B)
    [] current \in {"indXRead", "indXWrite"}                 -> Little(reads[2], reads[3])
    [] current \in {"indYRead", "indYWrite"}
                               -> (Little(reads[2], reads[3]) + index) % (B * B)

(* The addresses of a pointer's two bytes: a zero-page pointer wraps in    *)
(* page 0 and the pointer of JMP (ind) wraps in its own page.              *)
PointerAddress(k) ==
  CASE current \in {"indXRead", "indXWrite"} -> (reads[1] + index + k) % B
    [] current \in {"indYRead", "indYWrite"} -> (reads[1] + k) % B
    [] current = "JMPind"                    -> Little((reads[1] + k) % B, reads[2])

Modifies == {"zpModify", "zpXModify", "absModify", "absXModify"}
DataModes ==
  Modifies \cup {"zpRead", "zpIdxRead", "absRead", "absIdxRead", "indXRead", "indYRead",
                 "zpWrite", "zpIdxWrite", "absWrite", "absIdxWrite", "indXWrite", "indYWrite"}

(* lang.go:35-679: the last access of a read, write or modify instruction, *)
(* and each write of a modify instruction, is at the effective address of  *)
(* its mode, with the wrap of page 0 and of the address space.             *)
EffectiveAddressOK ==
  [][TickOp /\ current \in DataModes /\ (current' = "none" \/ bus'.op = "write")
       => Flat(bus'.addr) = EffectiveAddress]_tvars

(* lang.go:236-327,469-541,954-988: the two bytes of a pointer are read at *)
(* the pointer's address and at the next one of the same page.             *)
IndirectModes == {"indXRead", "indXWrite", "indYRead", "indYWrite", "JMPind"}
OperandBytes  == IF current = "JMPind" THEN 2 ELSE 1

PointerWrapsInPage ==
  [][TickOp /\ current \in IndirectModes /\ bus'.op = "read"
            /\ Len(reads) - OperandBytes \in {0, 1}
       => Flat(bus'.addr) = PointerAddress(Len(reads) - OperandBytes)]_tvars

=============================================================================
