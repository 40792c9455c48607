---------------------------- MODULE CPU6502Proofs ---------------------------
(***************************************************************************)
(* Theorems of the core for every byte width, every program and every      *)
(* answer of the bus: its types, and the cycles, bytes and addresses of    *)
(* every instruction (CPU6502Timing), whatever it crosses or wraps.        *)
(***************************************************************************)
EXTENDS CPU6502Timing, SequenceTheorems, TLAPS

(* Every sequence of the table has one to six micro-operations. *)
LEMMA StepsLength == \A m \in Sequences6502 : Len(Steps[m]) \in 1 .. 6
  BY DEF Steps, Sequences6502

LEMMA NoneIsNoSequence == "none" \notin Sequences6502 /\ Interrupts \subseteq Sequences6502
  BY DEF Steps, Sequences6502, Interrupts

(* cpu6502.go: byte arithmetic wraps within the byte. *)
LEMMA WrapClosed ==
  /\ \A b \in Byte : Wrap(b + 1) \in Byte /\ Wrap(b - 1) \in Byte
  /\ \A b, i \in Byte : Wrap(b + i) \in Byte
  BY HalfAssumption DEF Wrap, Byte, B

LEMMA SmallBytes == 0 \in Byte /\ 1 \in Byte /\ B - 3 \in Byte
  BY HalfAssumption DEF Byte, B

LEMMA WordOfBytes ==
  /\ \A p, o \in Byte : <<p, o>> \in Word
  /\ \A w \in Word : w[1] \in Byte /\ w[2] \in Byte
  BY DEF Word

(* Word arithmetic wraps within the word. *)
LEMMA AddIndexClosed == \A w \in Word, i \in Byte : AddIndex(w, i) \in Word
  BY HalfAssumption DEF Word, AddIndex, Wrap, Byte, B

LEMMA IncClosed == \A w \in Word : Inc(w) \in Word
  BY AddIndexClosed, SmallBytes DEF Inc

LEMMA BranchClosed == \A w \in Word, o \in Byte : BranchTarget(w, o) \in Word
<1> SUFFICES ASSUME NEW w \in Word, NEW o \in Byte
             PROVE  BranchTarget(w, o) \in Word
  OBVIOUS
<1>1. w[1] \in Byte /\ w[2] \in Byte
  BY WordOfBytes
<1>2. CASE o < Half
  <2>1. ~(o >= Half)
    BY <1>2, HalfAssumption DEF Byte, B
  <2>2. BranchTarget(w, o) = AddIndex(w, o)
    BY <1>2, <2>1 DEF BranchTarget
  <2>3. QED
    BY <2>2, AddIndexClosed
<1>3. CASE o >= Half /\ w[2] + o >= B
  <2>1. BranchTarget(w, o) = <<w[1], w[2] + o - B>>
    BY <1>1, <1>3, HalfAssumption DEF BranchTarget, Byte, B
  <2>2. w[2] + o - B \in Byte
    BY <1>1, <1>3, HalfAssumption DEF Byte, B
  <2>3. QED
    BY <1>1, <2>1, <2>2, WordOfBytes
<1>5. CASE o >= Half /\ ~(w[2] + o >= B)
  <2>1. BranchTarget(w, o) = <<Wrap(w[1] - 1), w[2] + o>>
    BY <1>1, <1>5, HalfAssumption DEF BranchTarget, Byte, B
  <2>2. w[2] + o \in Byte
    BY <1>1, <1>5, HalfAssumption DEF Byte, B
  <2>3. QED
    BY <1>1, <2>1, <2>2, WordOfBytes, WrapClosed
<1>4. QED
  BY <1>2, <1>3, <1>5, HalfAssumption DEF Byte, B

LEMMA VectorsAreWords ==
  /\ VectorNMI \in Word /\ VectorIRQ \in Word
  BY HalfAssumption DEF VectorNMI, VectorIRQ, Word, Byte, B

LEMMA OpcodesNotNone == "none" \notin Opcodes
  BY OpcodesAssumption, NoneIsNoSequence DEF Instructions

-----------------------------------------------------------------------------
(* The control part of TypeOK. *)
ControlOK ==
  /\ current \in Sequences6502 \cup {"none"}
  /\ step \in 1 .. 6
  /\ current # "none" => step <= Len(Steps[current])

(* What a micro-operation finds. *)
InSequence ==
  /\ current \in Sequences6502 /\ step \in 1 .. 6 /\ step <= Len(Steps[current])

LEMMA AdvanceOK ==
  ASSUME InSequence, NEW n \in 0 .. 2, Advance(n)
  PROVE  ControlOK'
<1>1. Len(Steps[current]) \in 1 .. 6
  BY StepsLength DEF InSequence
<1>2. CASE step + n < Len(Steps[current])
  <2>1. step' = step + n + 1 /\ current' = current
    BY <1>2 DEF Advance
  <2>2. \A k \in 1 .. 6, s \in 1 .. 6 : s + n < k => s + n + 1 \in 1 .. 6 /\ s + n + 1 <= k
    OBVIOUS
  <2>4. step' \in 1 .. 6 /\ step' <= Len(Steps[current])
    BY <1>1, <1>2, <2>1, <2>2 DEF InSequence
  <2>3. QED
    BY <2>1, <2>4 DEF InSequence, ControlOK
<1>3. CASE ~(step + n < Len(Steps[current]))
  BY <1>3 DEF Advance, ControlOK
<1>4. QED
  BY <1>2, <1>3

LEMMA BeginOK ==
  ASSUME NEW m \in Sequences6502, Begin(m)
  PROVE  ControlOK'
<1>1. current' = m /\ step' = 1
  BY DEF Begin
<1>2. Len(Steps[m]) \in 1 .. 6
  BY StepsLength
<1>3. 1 \in 1 .. 6 /\ 1 <= Len(Steps[m])
  BY <1>2
<1>4. QED
  BY <1>1, <1>3 DEF ControlOK

-----------------------------------------------------------------------------
(* The part of TypeOK about data: everything but the step counter. *)
DataOK ==
  /\ PC \in Word /\ SP \in Byte /\ flagI \in BOOLEAN
  /\ index \in Byte /\ cond \in BOOLEAN
  /\ tmp8 \in Byte /\ tmpAddr \in Word /\ tmpBase \in Word
  /\ prefetched \in Opcodes \cup {"none"}
  /\ pendingIRQ \in BOOLEAN /\ pendingNMI \in BOOLEAN
  /\ haltOnBRK \in BOOLEAN /\ halted \in BOOLEAN /\ failed \in BOOLEAN
  /\ bus \in BusType

LEMMA TypeSplit == TypeOK <=> ControlOK /\ DataOK
  BY DEF TypeOK, ControlOK, DataOK

LEMMA TypeSplitNext == TypeOK' <=> ControlOK' /\ DataOK'
  BY DEF TypeOK, ControlOK, DataOK

LEMMA AccessOK ==
  ASSUME NEW a \in Word, NEW v \in Byte
  PROVE  /\ Read(a, v) => bus' \in BusType
         /\ Write(a, v) => bus' \in BusType
         /\ Fetch(a) => bus' \in BusType
         /\ NoAccess => bus' \in BusType
  BY SmallBytes, WordOfBytes DEF Read, Write, Fetch, NoAccess, Idle, BusType

LEMMA InternalOpOK ==
  ASSUME DataOK, InSequence, InternalOp
  PROVE  DataOK' /\ ControlOK'
<1> USE DEF DataOK, Frame, temps, choices, pending, modes
<1>1. NoAccess => bus' \in BusType
  BY AccessOK, SmallBytes, WordOfBytes
<1>2. /\ Wrap(tmp8 + index) \in Byte /\ ZeroPage(Wrap(tmp8 + index)) \in Word
      /\ Wrap(SP - 1) \in Byte /\ Stack(SP) \in Word
      /\ PC[1] \in Byte /\ PC[2] \in Byte
      /\ BranchTarget(PC, tmp8) \in Word
  BY WrapClosed, WordOfBytes, SmallBytes, BranchClosed DEF ZeroPage, Stack
<1>3. \A v \in Byte : Push(v) => bus' \in BusType /\ SP' \in Byte
  BY <1>2, AccessOK DEF Push
<1>4. \A n \in 0 .. 2 : Advance(n) => ControlOK'
  BY AdvanceOK
<1>5. CASE Noop
  BY <1>1, <1>4, <1>5 DEF Noop
<1>6. CASE ClearI
  <2>1. flagI' \in BOOLEAN
    BY <1>6 DEF ClearI
  <2>2. QED
    BY <1>1, <1>4, <1>6, <2>1 DEF ClearI
<1>14. CASE SetI
  BY <1>1, <1>4, <1>14 DEF SetI
<1>7. CASE SetSP
  BY <1>1, <1>4, <1>7 DEF SetSP
<1>8. CASE IndexZp
  BY <1>1, <1>2, <1>4, <1>8 DEF IndexZp
<1>9. CASE WriteTmp
  <2>1. bus' \in BusType
    BY <1>9, AccessOK DEF WriteTmp
  <2>2. QED
    BY <1>4, <1>9, <2>1 DEF WriteTmp
<1>10. CASE Branch
  <2>1. ControlOK'
    BY <1>4, <1>10 DEF Branch
  <2>2. QED
    BY <1>1, <1>2, <1>10, <2>1 DEF Branch
<1>11. CASE PushPCH
  BY <1>2, <1>3, <1>4, <1>11 DEF PushPCH
<1>12. CASE PushPCL
  BY <1>2, <1>3, <1>4, <1>12 DEF PushPCL
<1>13. QED
  BY <1>5, <1>6, <1>7, <1>8, <1>9, <1>10, <1>11, <1>12, <1>14
     DEF InternalOp

(* The addresses of the accesses and what they leave are words and bytes.  *)
LEMMA AddressesOK ==
  ASSUME DataOK
  PROVE  /\ Inc(PC) \in Word /\ Inc(tmpAddr) \in Word /\ Inc(Inc(tmpAddr)) \in Word
         /\ PC[1] \in Byte /\ PC[2] \in Byte
         /\ Stack(SP) \in Word /\ Stack(Wrap(SP + 1)) \in Word
         /\ Wrap(SP + 1) \in Byte /\ Wrap(SP - 1) \in Byte
         /\ PointerHi \in Word
         /\ <<tmpAddr[1], Wrap(tmpAddr[2] + 1)>> \in Word
         /\ Unfixed(tmpBase, tmpAddr) \in Word
         /\ Vector \in Word /\ Inc(Vector) \in Word
<1>1. Vector \in Word
  BY VectorsAreWords DEF Vector
<1>2. /\ tmpAddr[1] \in Byte /\ tmpAddr[2] \in Byte
      /\ tmpBase[1] \in Byte /\ PC[1] \in Byte /\ PC[2] \in Byte
  BY WordOfBytes DEF DataOK
<1>3. Wrap(SP + 1) \in Byte /\ Wrap(SP - 1) \in Byte /\ Wrap(tmpAddr[2] + 1) \in Byte
  BY <1>2, WrapClosed DEF DataOK
<1>4. Inc(PC) \in Word /\ Inc(tmpAddr) \in Word /\ Inc(Vector) \in Word
  BY <1>1, IncClosed DEF DataOK
<1>5. QED
  BY <1>1, <1>2, <1>3, <1>4, IncClosed, WordOfBytes, SmallBytes
     DEF DataOK, Stack, PointerHi, ZeroPage, Unfixed

LEMMA ByteOpOK ==
  ASSUME DataOK, InSequence, NEW v \in Byte, ByteOp(v)
  PROVE  DataOK' /\ ControlOK'
<1> USE DEF DataOK, Frame, temps, choices, pending, modes
<1>1. \A n \in 0 .. 2 : Advance(n) => ControlOK'
  BY AdvanceOK
<1>2. /\ \A a \in Word : Read(a, v) => bus' \in BusType
      /\ \A a \in Word : Write(a, v) => bus' \in BusType
  BY AccessOK
<1>3. /\ Push(v) => SP' \in Byte /\ bus' \in BusType
      /\ Pull(v) => SP' \in Byte /\ bus' \in BusType
  BY <1>2, AddressesOK DEF Push, Pull
<1>4. /\ ZeroPage(v) \in Word
      /\ \A b \in Byte : <<v, b>> \in Word
      /\ AddIndex(<<v, tmp8>>, index) \in Word
  BY WordOfBytes, SmallBytes, AddIndexClosed DEF ZeroPage
<1>5. Bit(v) \in BOOLEAN
  BY DEF Bit
<1>6. CASE FetchPad(v)
  BY <1>1, <1>2, <1>3, <1>4, <1>6, AddressesOK DEF FetchPad
<1>7. CASE FetchTmp(v)
  BY <1>1, <1>2, <1>3, <1>4, <1>7, AddressesOK DEF FetchTmp
<1>8. CASE FetchZp(v)
  BY <1>1, <1>2, <1>3, <1>4, <1>8, AddressesOK DEF FetchZp
<1>9. CASE FetchHi(v)
  BY <1>1, <1>2, <1>3, <1>4, <1>9, AddressesOK DEF FetchHi
<1>10. CASE FetchHiIndexed(v)
  BY <1>1, <1>2, <1>3, <1>4, <1>10, AddressesOK DEF FetchHiIndexed
<1>11. CASE ReadTmp(v)
  BY <1>1, <1>2, <1>3, <1>4, <1>11, AddressesOK DEF ReadTmp
<1>12. CASE ReadPtrHi(v)
  BY <1>1, <1>2, <1>3, <1>4, <1>12, AddressesOK DEF ReadPtrHi
<1>13. CASE ReadPtrHiIndexed(v)
  BY <1>1, <1>2, <1>3, <1>4, <1>13, AddressesOK DEF ReadPtrHiIndexed
<1>14. CASE ReadDo(v)
  BY <1>1, <1>2, <1>3, <1>4, <1>14, AddressesOK DEF ReadDo
<1>15. CASE ReadUnfixed(v)
  BY <1>1, <1>2, <1>3, <1>4, <1>15, AddressesOK DEF ReadUnfixed
<1>16. CASE WriteDo(v)
  BY <1>1, <1>2, <1>3, <1>4, <1>16, AddressesOK DEF WriteDo
<1>17. CASE WriteModified(v)
  BY <1>1, <1>2, <1>3, <1>4, <1>17, AddressesOK DEF WriteModified
<1>18. CASE ReadBits(v)
  BY <1>1, <1>2, <1>3, <1>4, <1>18, AddressesOK DEF ReadBits
<1>19. CASE FetchPCH(v)
  BY <1>1, <1>2, <1>3, <1>4, <1>19, AddressesOK DEF FetchPCH
<1>20. CASE ReadPCH(v)
  BY <1>1, <1>2, <1>3, <1>4, <1>20, AddressesOK DEF ReadPCH
<1>21. CASE ReadPC(v)
  BY <1>1, <1>2, <1>3, <1>4, <1>21, AddressesOK DEF ReadPC
<1>22. CASE ReadStack(v)
  BY <1>1, <1>2, <1>3, <1>4, <1>22, AddressesOK DEF ReadStack
<1>23. CASE PushA(v)
  BY <1>1, <1>2, <1>3, <1>4, <1>23, AddressesOK DEF PushA
<1>24. CASE PushP(v)
  BY <1>1, <1>2, <1>3, <1>4, <1>24, AddressesOK DEF PushP
<1>25. CASE PullA(v)
  BY <1>1, <1>2, <1>3, <1>4, <1>25, AddressesOK DEF PullA
<1>26. CASE PullTmp(v)
  BY <1>1, <1>2, <1>3, <1>4, <1>26, AddressesOK DEF PullTmp
<1>27. CASE PullPCH(v)
  BY <1>1, <1>2, <1>3, <1>4, <1>27, AddressesOK DEF PullPCH
<1>28. CASE PullAddr(v)
  BY <1>1, <1>2, <1>3, <1>4, <1>28, AddressesOK DEF PullAddr
<1>29. CASE VectorLo(v)
  BY <1>1, <1>2, <1>3, <1>4, <1>29, AddressesOK DEF VectorLo
<1>30. CASE ReadOrFix(v)
  <2>1. ControlOK'
    BY <1>1, <1>30 DEF ReadOrFix
  <2>2. bus' \in BusType
    BY <1>2, <1>30, AddressesOK DEF ReadOrFix
  <2>3. QED
    BY <1>30, <2>1, <2>2, AddressesOK DEF ReadOrFix
<1>31. CASE FetchOffset(v)
  <2>1. ControlOK'
    BY <1>1, <1>31 DEF FetchOffset
  <2>2. bus' \in BusType
    BY <1>2, <1>31, AddressesOK DEF FetchOffset
  <2>3. QED
    BY <1>31, <2>1, <2>2, AddressesOK DEF FetchOffset
<1>32. CASE FetchBitOffset(v)
  <2>1. ControlOK'
    BY <1>1, <1>32 DEF FetchBitOffset
  <2>2. bus' \in BusType
    BY <1>2, <1>32, AddressesOK DEF FetchBitOffset
  <2>3. QED
    BY <1>32, <2>1, <2>2, AddressesOK DEF FetchBitOffset
<1>33. CASE PushPSetI(v)
  <2>1. flagI' \in BOOLEAN
    BY <1>5, <1>33 DEF PushPSetI
  <2>2. QED
    BY <1>1, <1>3, <1>33, <2>1 DEF PushPSetI
<1>34. CASE PullP(v)
  <2>1. flagI' \in BOOLEAN
    BY <1>5, <1>34 DEF PullP
  <2>2. QED
    BY <1>1, <1>3, <1>34, <2>1 DEF PullP
<1>35. CASE VectorHi(v)
  <2>1. halted' \in BOOLEAN
    BY <1>35 DEF VectorHi
  <2>2. QED
    BY <1>1, <1>2, <1>4, <1>35, <2>1, AddressesOK DEF VectorHi
<1>36. QED
  BY <1>6, <1>7, <1>8, <1>9, <1>10, <1>11, <1>12, <1>13, <1>14, <1>15,
     <1>16, <1>17, <1>18, <1>19, <1>20, <1>21, <1>22, <1>23, <1>24, <1>25,
     <1>26, <1>27, <1>28, <1>29, <1>30, <1>31, <1>32, <1>33, <1>34, <1>35
     DEF ByteOp

LEMMA PrefetchOK ==
  ASSUME DataOK, InSequence, NEW o \in Opcodes, Prefetch(o)
  PROVE  DataOK' /\ ControlOK'
<1>1. bus' \in BusType
  BY AddressesOK, AccessOK, SmallBytes DEF Prefetch
<1>2. ControlOK'
  BY AdvanceOK DEF Prefetch
<1>3. QED
  BY <1>1, <1>2, AddressesOK DEF DataOK, Prefetch, temps, choices, pending, modes

LEMMA BeginInstructionOK ==
  ASSUME TypeOK, current = "none",
         NEW o \in Opcodes, NEW i \in Byte, NEW c \in BOOLEAN, BeginInstruction(o, i, c)
  PROVE  DataOK' /\ ControlOK'
<1> USE TypeSplit
<1>1. DataOK /\ ControlOK
  OBVIOUS
<1>2. bus' \in BusType /\ PC' \in Word
  BY <1>1, AddressesOK, AccessOK, SmallBytes DEF BeginInstruction, DataOK
<1>3. CASE o = "Illegal"
  <2>1. failed' \in BOOLEAN
    BY <1>3 DEF BeginInstruction
  <2>2. ControlOK'
    BY <1>1, <1>3 DEF BeginInstruction, control, ControlOK
  <2>3. QED
    BY <1>1, <1>2, <1>3, <2>1, <2>2
       DEF BeginInstruction, DataOK, temps, choices, pending
<1>4. CASE o # "Illegal"
  <2>1. o \in Sequences6502
    BY <1>4, OpcodesAssumption DEF Instructions
  <2>2. ControlOK'
    BY <1>4, <2>1, BeginOK DEF BeginInstruction
  <2>3. index' \in Byte
    BY <1>1, <1>4 DEF BeginInstruction, DataOK
  <2>4. cond' \in BOOLEAN
    BY <1>1, <1>4 DEF BeginInstruction, DataOK
  <2>5. QED
    BY <1>1, <1>2, <1>4, <2>2, <2>3, <2>4
       DEF BeginInstruction, DataOK, temps, pending
<1>5. QED
  BY <1>3, <1>4

LEMMA BeginInterruptOK ==
  ASSUME TypeOK, current = "none", NEW v \in Byte, BeginInterrupt(v)
  PROVE  DataOK' /\ ControlOK'
<1>1. DataOK
  BY TypeSplit
<1>2. bus' \in BusType
  BY <1>1, AccessOK, SmallBytes, WordOfBytes DEF BeginInterrupt, DataOK
<1>3. Begin("NMI") \/ Begin("IRQ")
  BY Zenon DEF BeginInterrupt, Serviced
<1>4. ControlOK'
  BY <1>3, BeginOK, NoneIsNoSequence DEF Interrupts
<1>5. pendingIRQ' \in BOOLEAN /\ pendingNMI' \in BOOLEAN
  BY <1>1 DEF BeginInterrupt, DataOK
<1>6. QED
  BY <1>1, <1>2, <1>4, <1>5 DEF BeginInterrupt, DataOK, temps, choices, modes

LEMMA TickOK ==
  ASSUME TypeOK, Tick
  PROVE  TypeOK'
<1>1. DataOK /\ ControlOK
  BY TypeSplit
<1>2. BusBytes \subseteq Byte
  BY BusBytesAssumption
<1>3. CASE current = "none"
  <2>1. DataOK' /\ ControlOK'
    BY <1>2, <1>3, BeginInstructionOK, BeginInterruptOK DEF Tick
  <2>2. QED
    BY <2>1, TypeSplitNext
<1>4. CASE current # "none"
  <2>1. InSequence
    BY <1>1, <1>4 DEF ControlOK, InSequence
  <2>2. DataOK' /\ ControlOK'
    BY <1>1, <1>2, <1>4, <2>1, InternalOpOK, ByteOpOK, PrefetchOK DEF Tick
  <2>3. QED
    BY <2>2, TypeSplitNext
<1>5. QED
  BY <1>3, <1>4

LEMMA InitOK == ASSUME Init PROVE TypeOK
<1>1. bus \in BusType
  BY SmallBytes, WordOfBytes DEF Init, Idle, BusType
<1>2. PC \in Word
  BY StartPCsAssumption DEF Init
<1>3. /\ flagI \in BOOLEAN /\ cond \in BOOLEAN
      /\ pendingIRQ \in BOOLEAN /\ pendingNMI \in BOOLEAN
      /\ haltOnBRK \in BOOLEAN /\ halted \in BOOLEAN /\ failed \in BOOLEAN
  BY DEF Init
<1>4. ControlOK
  BY DEF Init, ControlOK
<1>5. /\ SP \in Byte /\ index \in Byte /\ tmp8 \in Byte
      /\ tmpAddr \in Word /\ tmpBase \in Word
      /\ prefetched \in Opcodes \cup {"none"}
  BY SmallBytes, WordOfBytes DEF Init
<1>6. QED
  BY <1>1, <1>2, <1>3, <1>4, <1>5, TypeSplit DEF DataOK

LEMMA StepOK == ASSUME TypeOK, [Next]_vars PROVE TypeOK'
<1>1. CASE Tick
  BY <1>1, TickOK
<1>2. CASE RequestIRQ
  BY <1>2 DEF RequestIRQ, TypeOK, choices, control, temps, modes
<1>3. CASE RequestNMI
  BY <1>3 DEF RequestNMI, TypeOK, choices, control, temps, modes
<1>4. CASE Reset
  <2>1. bus' \in BusType
    BY <1>4, SmallBytes, WordOfBytes DEF Reset, Idle, BusType
  <2>2. PC' \in Word
    BY <1>4, StartPCsAssumption DEF Reset
  <2>3. /\ flagI' \in BOOLEAN /\ pendingIRQ' \in BOOLEAN /\ pendingNMI' \in BOOLEAN
        /\ halted' \in BOOLEAN /\ failed' \in BOOLEAN
    BY <1>4 DEF Reset
  <2>4. ControlOK'
    BY <1>4 DEF Reset, ControlOK
  <2>5. /\ index' \in Byte /\ cond' \in BOOLEAN /\ haltOnBRK' \in BOOLEAN
        /\ SP' \in Byte /\ tmp8' \in Byte /\ tmpAddr' \in Word /\ tmpBase' \in Word
        /\ prefetched' \in Opcodes \cup {"none"}
    BY <1>4, SmallBytes, WordOfBytes DEF Reset, TypeOK, choices
  <2>6. QED
    BY <2>1, <2>2, <2>3, <2>4, <2>5, TypeSplitNext DEF DataOK
<1>5. CASE UNCHANGED vars
  BY <1>5 DEF vars, TypeOK, choices, control, temps, pending, modes
<1>6. QED
  BY <1>1, <1>2, <1>3, <1>4, <1>5 DEF Next

(* The core's state keeps its types at every tick, request and reset: no   *)
(* register leaves its width, whatever wraps, and the step counter never   *)
(* runs past the sequence it indexes, whatever is skipped (cpu6502.go:161).*)
THEOREM TypeCorrect == Spec => []TypeOK
<1>1. Init => TypeOK
  BY InitOK
<1>2. TypeOK /\ [Next]_vars => TypeOK'
  BY StepOK
<1>3. QED
  BY <1>1, <1>2, PTL DEF Spec

-----------------------------------------------------------------------------
(* An address is the one after the one before it.                          *)
LEMMA IncBefore == \A w \in Word : Inc(Before(w)) = w /\ Before(w) \in Word
<1>1. B \in Nat /\ B >= 6
  BY HalfAssumption DEF B
<1> HIDE DEF B
<1> QED BY <1>1 DEF Inc, Before, AddIndex, Wrap, Word, Byte

(* Adding two or three to an address is stepping twice or three times.     *)
LEMMA AddTwoThree ==
  ASSUME NEW w \in Word
  PROVE  AddIndex(w, 2) = Inc(Inc(w)) /\ AddIndex(w, 3) = Inc(Inc(Inc(w)))
<1>1. B \in Nat /\ B >= 6
  BY HalfAssumption DEF B
<1> HIDE DEF B
<1> SUFFICES ASSUME NEW p \in Byte, NEW o \in Byte
             PROVE  /\ AddIndex(<<p, o>>, 2) = Inc(Inc(<<p, o>>))
                    /\ AddIndex(<<p, o>>, 3) = Inc(Inc(Inc(<<p, o>>)))
  BY DEF Word
<1>2. o \in 0 .. B - 1
  BY DEF Byte
<1>3. ASSUME NEW x, NEW y \in Byte
      PROVE  Inc(<<x, y>>) = IF y + 1 < B THEN <<x, y + 1>> ELSE <<Wrap(x + 1), 0>>
  BY <1>1 DEF Inc, AddIndex, Byte
<1>4. 0 \in Byte /\ 1 \in Byte /\ 2 \in Byte
  BY <1>1 DEF Byte
<1> HIDE DEF Wrap, AddIndex, Inc
<1>5. CASE o + 3 <= B
  <2>1. o + 1 \in Byte /\ o + 2 \in Byte /\ o + 1 < B /\ o + 2 < B
        /\ (o + 1) + 1 = o + 2 /\ (o + 2) + 1 = o + 3
    BY <1>1, <1>2, <1>5 DEF Byte
  <2>2. Inc(<<p, o>>) = <<p, o + 1>>
    BY <1>3, <2>1
  <2>3. Inc(<<p, o + 1>>) = <<p, o + 2>>
    BY <1>3, <2>1
  <2>4. Inc(<<p, o + 2>>) = IF o + 3 < B THEN <<p, o + 3>> ELSE <<Wrap(p + 1), 0>>
    BY <1>3, <2>1
  <2>5. AddIndex(<<p, o>>, 2) = <<p, o + 2>>
    BY <2>1 DEF AddIndex
  <2>6. AddIndex(<<p, o>>, 3) = IF o + 3 < B THEN <<p, o + 3>> ELSE <<Wrap(p + 1), 0>>
    BY <1>1, <1>2, <1>5 DEF AddIndex
  <2> QED BY <2>2, <2>3, <2>4, <2>5, <2>6
<1>6. CASE o + 2 = B
  <2>1. o + 1 \in Byte /\ o + 1 < B /\ (o + 1) + 1 = B /\ (o + 2) - B = 0
           /\ (o + 3) - B = 1
        /\ ~(o + 2 < B) /\ ~(o + 3 < B) /\ ~(B < B) /\ 0 + 1 = 1 /\ 1 < B
    BY <1>1, <1>2, <1>6 DEF Byte
  <2>2. Inc(<<p, o>>) = <<p, o + 1>>
    BY <1>3, <2>1
  <2>3. Inc(<<p, o + 1>>) = <<Wrap(p + 1), 0>>
    BY <1>3, <2>1
  <2>4. Inc(<<Wrap(p + 1), 0>>) = <<Wrap(p + 1), 1>>
    BY <1>3, <1>4, <2>1
  <2>5. AddIndex(<<p, o>>, 2) = <<Wrap(p + 1), 0>>
    BY <1>1, <1>2, <1>6, <2>1 DEF AddIndex
  <2>6. AddIndex(<<p, o>>, 3) = <<Wrap(p + 1), 1>>
    BY <1>1, <1>2, <1>6, <2>1 DEF AddIndex
  <2> QED BY <2>2, <2>3, <2>4, <2>5, <2>6
<1>7. CASE o + 1 = B
  <2>1. (o + 2) - B = 1 /\ (o + 3) - B = 2 /\ ~(o + 1 < B)
        /\ ~(o + 2 < B) /\ ~(o + 3 < B) /\ 0 + 1 = 1 /\ 1 < B /\ 1 + 1 = 2 /\ 2 < B
    BY <1>1, <1>2, <1>7
  <2>2. Inc(<<p, o>>) = <<Wrap(p + 1), 0>>
    BY <1>3, <2>1
  <2>3. Inc(<<Wrap(p + 1), 0>>) = <<Wrap(p + 1), 1>>
    BY <1>3, <1>4, <2>1
  <2>4. Inc(<<Wrap(p + 1), 1>>) = <<Wrap(p + 1), 2>>
    BY <1>3, <1>4, <2>1
  <2>5. AddIndex(<<p, o>>, 2) = <<Wrap(p + 1), 1>>
    BY <1>1, <1>2, <1>7, <2>1 DEF AddIndex
  <2>6. AddIndex(<<p, o>>, 3) = <<Wrap(p + 1), 2>>
    BY <1>1, <1>2, <1>7, <2>1 DEF AddIndex
  <2> QED BY <2>2, <2>3, <2>4, <2>5, <2>6
<1> QED BY <1>1, <1>2, <1>5, <1>6, <1>7

(* The sequence ends when the step counter runs past its last operation.   *)
LEMMA AdvanceTo ==
  ASSUME TypeOK, current # "none", NEW n \in 0 .. 2, Advance(n)
  PROVE  /\ \/ current' = "none" /\ step' = 1 /\ Len(Steps[current]) <= step + n
            \/ current' = current /\ step' = step + n + 1
                  /\ step + n < Len(Steps[current])
         /\ current \in Sequences6502 /\ step \in 1 .. Len(Steps[current])
         /\ Len(Steps[current]) \in 1 .. 6
<1>1. current \in Sequences6502 /\ step \in 1 .. 6 /\ step <= Len(Steps[current])
  BY DEF TypeOK
<1>2. Len(Steps[current]) \in 1 .. 6
  BY <1>1, StepsLength
<1>3. step \in 1 .. Len(Steps[current])
  BY <1>1, <1>2
<1>4. CASE step + n < Len(Steps[current])
  BY <1>1, <1>2, <1>3, <1>4 DEF Advance
<1>5. CASE ~(step + n < Len(Steps[current]))
  <2>1. Len(Steps[current]) <= step + n
    BY <1>1, <1>2, <1>5
  <2> QED BY <1>1, <1>2, <1>3, <1>5, <2>1 DEF Advance
<1> QED BY <1>4, <1>5

-----------------------------------------------------------------------------
(* The inductive invariant behind the promises of CPU6502Timing.  It       *)
(* relates the micro-operations' temporaries to the record of the          *)
(* instruction in progress: PC to the operand bytes fetched, tmpAddr and   *)
(* tmpBase to the bytes read, mode by mode, and the operation reached to   *)
(* the outcome of the branch or of the page crossing that decided it.      *)

(* The operand bytes that mode m has fetched before its operation s.  BBR  *)
(* and BBS read the byte they test between their two.                      *)
Fetched(m, s) ==
  LET n == IF m \in BitTests /\ s > 2 THEN s - 2 ELSE s - 1 IN
  IF n < Bytes[m] THEN n ELSE Bytes[m] - 1

Straight == Instructions \ Transfers

(* A branch taken has one operation left when it leaves its page. *)
Branched == current \in Branches /\ step = IF current = "branch" THEN 3 ELSE 5

RecInv ==
  current # "none" =>
    /\ ticks = step /\ start \in Word
    /\ reads \in Seq(Byte) /\ Len(reads) <= 3
    /\ step = 1 => Len(reads) = 0

PCInv ==
  current \in Straight =>
    /\ ~Branched => PC = AddIndex(start, 1 + Fetched(current, step))
    /\ Branched => PC[1] # AddIndex(start, Bytes[current])[1]

TakenInv ==
  /\ current = "branch" /\ step >= 2 => cond = TRUE
  /\ current \in BitTests =>
       /\ step = 2 => Len(reads) = 1
       /\ step = 3 => Len(reads) = 2 /\ tmpBase[2] = reads[2]
       /\ step >= 4 => Len(reads) >= 2 /\ (Bit(reads[2]) <=> current = "BBS")

ZpModes     == {"zpRead", "zpWrite", "zpModify"}
ZpIdxModes  == {"zpIdxRead", "zpIdxWrite", "zpXModify"}
AbsModes    == {"absRead", "absWrite", "absModify", "JMPind"}
AbsIdxModes == {"absIdxRead", "absIdxWrite", "absXModify"}
IndXModes   == {"indXRead", "indXWrite"}
IndYModes   == {"indYRead", "indYWrite"}

ZpInv ==
  current \in ZpModes => (step >= 2 => Len(reads) >= 1 /\ tmpAddr = <<0, reads[1]>>)

ZpIdxInv ==
  current \in ZpIdxModes =>
    /\ step = 2 => Len(reads) = 1 /\ tmp8 = reads[1]
    /\ step >= 3 => Len(reads) >= 1 /\ tmpAddr = <<0, Wrap(reads[1] + index)>>

AbsInv ==
  current \in AbsModes =>
    /\ step = 2 => Len(reads) = 1 /\ tmp8 = reads[1]
    /\ step = 3 => Len(reads) = 2
    /\ step >= 3 => Len(reads) >= 2 /\ tmpAddr = <<reads[2], reads[1]>>
    /\ step = 4 /\ current = "JMPind" => Len(reads) = 3

AbsIdxInv ==
  current \in AbsIdxModes =>
    /\ step = 2 => Len(reads) = 1 /\ tmp8 = reads[1]
    /\ step >= 3 => /\ Len(reads) >= 2
                    /\ tmpBase = <<reads[2], reads[1]>>
                    /\ tmpAddr = AddIndex(<<reads[2], reads[1]>>, index)
    /\ step = 4 /\ current = "absIdxRead" => PageCrossed(tmpBase, tmpAddr)

IndXInv ==
  current \in IndXModes =>
    /\ step = 2 => Len(reads) = 1 /\ tmp8 = reads[1]
    /\ step = 3 => Len(reads) = 1 /\ tmpAddr = <<0, Wrap(reads[1] + index)>>
    /\ step = 4 => Len(reads) = 2 /\ tmp8 = reads[2]
                 /\ tmpAddr = <<0, Wrap(reads[1] + index)>>
    /\ step = 5 => Len(reads) = 3 /\ tmpAddr = <<reads[3], reads[2]>>

IndYInv ==
  current \in IndYModes =>
    /\ step = 2 => Len(reads) = 1 /\ tmpAddr = <<0, reads[1]>>
    /\ step = 3 => Len(reads) = 2 /\ tmpAddr = <<0, reads[1]>> /\ tmp8 = reads[2]
    /\ step >= 4 => /\ Len(reads) = 3
                    /\ tmpBase = <<reads[3], reads[2]>>
                    /\ tmpAddr = AddIndex(<<reads[3], reads[2]>>, index)
    /\ step = 5 /\ current = "indYRead" => PageCrossed(tmpBase, tmpAddr)

ModeInv == ZpInv /\ ZpIdxInv /\ AbsInv /\ AbsIdxInv /\ IndXInv /\ IndYInv

TimingInv == TypeOK /\ RecInv /\ PCInv /\ TakenInv /\ ModeInv

-----------------------------------------------------------------------------
(* Micro-operations that move PC behind the byte they read, that set PC,   *)
(* and that change each of the temporaries.                                *)
PCMoves ==
  {"FetchPad", "FetchTmp", "FetchZp", "FetchHi", "FetchHiIndexed", "FetchOffset",
   "FetchBitOffset"}
PCSets == {"Branch", "FetchPCH", "ReadPCH", "PullPCH", "Prefetch", "VectorHi"}
Tmp8Sets ==
  {"FetchTmp", "ReadTmp", "WriteModified", "FetchOffset", "FetchBitOffset", "PullTmp",
   "VectorLo"}
AddrSets ==
  {"FetchZp", "FetchHi", "FetchHiIndexed", "IndexZp", "ReadPtrHi", "ReadPtrHiIndexed",
   "PullAddr"}
BaseSets == {"FetchHiIndexed", "ReadPtrHiIndexed", "ReadBits"}

(* How many operations the current one skips. *)
Skipped ==
  CASE Op = "ReadOrFix"      -> IF PageCrossed(tmpBase, tmpAddr) THEN 0 ELSE 1
    [] Op = "FetchOffset"    -> IF cond THEN 0 ELSE 2
    [] Op = "FetchBitOffset" -> IF Bit(tmpBase[2]) = (current = "BBS") THEN 0 ELSE 2
    [] Op = "Branch"         -> IF PageCrossed(PC, BranchTarget(PC, tmp8)) THEN 0 ELSE 1
    [] OTHER                 -> 0

(* What a tick inside a sequence changes, and what it leaves alone. *)
Touches ==
  /\ UNCHANGED choices
  /\ Advance(Skipped)
  /\ Op \in PCMoves => PC' = Inc(PC)
  /\ Op \notin PCMoves \cup PCSets => PC' = PC
  /\ Op \notin Tmp8Sets => tmp8' = tmp8
  /\ Op \notin AddrSets => tmpAddr' = tmpAddr
  /\ Op \notin BaseSets => tmpBase' = tmpBase

LEMMA InternalTouches == ASSUME InternalOp PROVE Touches
<1> USE DEF Touches, Frame, temps, PCMoves, PCSets, Tmp8Sets, AddrSets, BaseSets, Skipped
<1>1. CASE Op = "Noop" /\ Noop
  BY <1>1 DEF Noop
<1>2. CASE Op = "ClearI" /\ ClearI
  BY <1>2 DEF ClearI
<1>3. CASE Op = "SetI" /\ SetI
  BY <1>3 DEF SetI
<1>4. CASE Op = "SetSP" /\ SetSP
  BY <1>4 DEF SetSP
<1>5. CASE Op = "IndexZp" /\ IndexZp
  BY <1>5 DEF IndexZp
<1>6. CASE Op = "WriteTmp" /\ WriteTmp
  BY <1>6 DEF WriteTmp
<1>7. CASE Op = "Branch" /\ Branch
  BY <1>7 DEF Branch
<1>8. CASE Op = "PushPCH" /\ PushPCH
  BY <1>8 DEF PushPCH
<1>9. CASE Op = "PushPCL" /\ PushPCL
  BY <1>9 DEF PushPCL
<1> QED BY <1>1, <1>2, <1>3, <1>4, <1>5, <1>6, <1>7, <1>8, <1>9 DEF InternalOp

LEMMA ByteTouches == ASSUME NEW v, ByteOp(v) PROVE Touches
<1> USE DEF Touches, Frame, temps, PCMoves, PCSets, Tmp8Sets, AddrSets, BaseSets, Skipped
<1>1. CASE Op = "FetchPad" /\ FetchPad(v)
  BY <1>1 DEF FetchPad
<1>2. CASE Op = "FetchTmp" /\ FetchTmp(v)
  BY <1>2 DEF FetchTmp
<1>3. CASE Op = "FetchZp" /\ FetchZp(v)
  BY <1>3 DEF FetchZp
<1>4. CASE Op = "FetchHi" /\ FetchHi(v)
  BY <1>4 DEF FetchHi
<1>5. CASE Op = "FetchHiIndexed" /\ FetchHiIndexed(v)
  BY <1>5 DEF FetchHiIndexed
<1>6. CASE Op = "ReadTmp" /\ ReadTmp(v)
  BY <1>6 DEF ReadTmp
<1>7. CASE Op = "ReadPtrHi" /\ ReadPtrHi(v)
  BY <1>7 DEF ReadPtrHi
<1>8. CASE Op = "ReadPtrHiIndexed" /\ ReadPtrHiIndexed(v)
  BY <1>8 DEF ReadPtrHiIndexed
<1>9. CASE Op = "ReadDo" /\ ReadDo(v)
  BY <1>9 DEF ReadDo
<1>10. CASE Op = "ReadOrFix" /\ ReadOrFix(v)
  BY <1>10 DEF ReadOrFix
<1>11. CASE Op = "ReadUnfixed" /\ ReadUnfixed(v)
  BY <1>11 DEF ReadUnfixed
<1>12. CASE Op = "WriteDo" /\ WriteDo(v)
  BY <1>12 DEF WriteDo
<1>13. CASE Op = "WriteModified" /\ WriteModified(v)
  BY <1>13 DEF WriteModified
<1>14. CASE Op = "FetchOffset" /\ FetchOffset(v)
  BY <1>14 DEF FetchOffset
<1>15. CASE Op = "ReadBits" /\ ReadBits(v)
  BY <1>15 DEF ReadBits
<1>16. CASE Op = "FetchBitOffset" /\ FetchBitOffset(v)
  BY <1>16 DEF FetchBitOffset
<1>17. CASE Op = "FetchPCH" /\ FetchPCH(v)
  BY <1>17 DEF FetchPCH
<1>18. CASE Op = "ReadPCH" /\ ReadPCH(v)
  BY <1>18 DEF ReadPCH
<1>19. CASE Op = "ReadPC" /\ ReadPC(v)
  BY <1>19 DEF ReadPC
<1>20. CASE Op = "ReadStack" /\ ReadStack(v)
  BY <1>20 DEF ReadStack
<1>21. CASE Op = "PushA" /\ PushA(v)
  BY <1>21 DEF PushA
<1>22. CASE Op = "PushP" /\ PushP(v)
  BY <1>22 DEF PushP
<1>23. CASE Op = "PushPSetI" /\ PushPSetI(v)
  BY <1>23 DEF PushPSetI
<1>24. CASE Op = "PullA" /\ PullA(v)
  BY <1>24 DEF PullA
<1>25. CASE Op = "PullP" /\ PullP(v)
  BY <1>25 DEF PullP
<1>26. CASE Op = "PullTmp" /\ PullTmp(v)
  BY <1>26 DEF PullTmp
<1>27. CASE Op = "PullPCH" /\ PullPCH(v)
  BY <1>27 DEF PullPCH
<1>28. CASE Op = "PullAddr" /\ PullAddr(v)
  BY <1>28 DEF PullAddr
<1>29. CASE Op = "VectorLo" /\ VectorLo(v)
  BY <1>29 DEF VectorLo
<1>30. CASE Op = "VectorHi" /\ VectorHi(v)
  BY <1>30 DEF VectorHi
<1> QED
  BY <1>1, <1>2, <1>3, <1>4, <1>5, <1>6, <1>7, <1>8, <1>9, <1>10, <1>11,
       <1>12, <1>13, <1>14, <1>15, <1>16, <1>17, <1>18, <1>19, <1>20,
       <1>21, <1>22, <1>23, <1>24, <1>25, <1>26, <1>27, <1>28, <1>29,
       <1>30
     DEF ByteOp

LEMMA TickTouches == ASSUME current # "none", Tick PROVE Touches
<1>1. ASSUME NEW o \in Opcodes, Op = "Prefetch", Prefetch(o) PROVE Touches
  BY <1>1 DEF Prefetch, Touches, temps, PCMoves, PCSets, Tmp8Sets, AddrSets, BaseSets,
       Skipped
<1> QED BY <1>1, InternalTouches, ByteTouches DEF Tick

(* Only the operations before the last skip any, and to the end.           *)
SkipsToEnd(m) ==
  \A s \in 1 .. Len(Steps[m]) :
    /\ Steps[m][s] \in {"ReadOrFix", "Branch"} => s + 1 = Len(Steps[m])
    /\ Steps[m][s] \in {"FetchOffset", "FetchBitOffset"} => s + 2 = Len(Steps[m])

LEMMA SkipTable == \A m \in Sequences6502 : SkipsToEnd(m)
<1>1. SkipsToEnd("implied") /\ SkipsToEnd("CLI") /\ SkipsToEnd("SEI") /\ SkipsToEnd("TXS")
  BY DEF SkipsToEnd, Steps
<1>2. SkipsToEnd("immRead") /\ SkipsToEnd("zpRead") /\ SkipsToEnd("zpIdxRead")
      /\ SkipsToEnd("absRead")
  BY DEF SkipsToEnd, Steps
<1>3. SkipsToEnd("absIdxRead") /\ SkipsToEnd("indXRead") /\ SkipsToEnd("indYRead")
      /\ SkipsToEnd("zpWrite")
  BY DEF SkipsToEnd, Steps
<1>4. SkipsToEnd("zpIdxWrite") /\ SkipsToEnd("absWrite") /\ SkipsToEnd("absIdxWrite")
      /\ SkipsToEnd("indXWrite")
  BY DEF SkipsToEnd, Steps
<1>5. SkipsToEnd("indYWrite") /\ SkipsToEnd("zpModify") /\ SkipsToEnd("zpXModify")
      /\ SkipsToEnd("absModify")
  BY DEF SkipsToEnd, Steps
<1>6. SkipsToEnd("absXModify") /\ SkipsToEnd("branch") /\ SkipsToEnd("BBR")
      /\ SkipsToEnd("BBS")
  BY DEF SkipsToEnd, Steps
<1>7. SkipsToEnd("JMPabs") /\ SkipsToEnd("JMPind") /\ SkipsToEnd("JSR")
      /\ SkipsToEnd("PHA")
  BY DEF SkipsToEnd, Steps
<1>8. SkipsToEnd("PHP") /\ SkipsToEnd("PLA") /\ SkipsToEnd("PLP") /\ SkipsToEnd("RTI")
  BY DEF SkipsToEnd, Steps
<1>9. SkipsToEnd("RTS") /\ SkipsToEnd("BRK") /\ SkipsToEnd("IRQ") /\ SkipsToEnd("NMI")
  BY DEF SkipsToEnd, Steps
<1> HIDE DEF SkipsToEnd
<1>10. Sequences6502 =
        {"implied", "CLI", "SEI", "TXS", "immRead", "zpRead", "zpIdxRead",
         "absRead", "absIdxRead", "indXRead", "indYRead", "zpWrite",
         "zpIdxWrite", "absWrite", "absIdxWrite", "indXWrite",
         "indYWrite", "zpModify", "zpXModify", "absModify", "absXModify",
         "branch", "BBR", "BBS", "JMPabs", "JMPind", "JSR", "PHA", "PHP",
         "PLA", "PLP", "RTI", "RTS", "BRK", "IRQ", "NMI"}
  BY DEF Sequences6502, Steps
<1> QED BY <1>1, <1>2, <1>3, <1>4, <1>5, <1>6, <1>7, <1>8, <1>9, <1>10

(* Within a sequence the next operation follows, or the sequence ends: at  *)
(* its last operation, or at one that skips what is left.                  *)
LEMMA NextOp ==
  ASSUME TypeOK, current # "none", Tick
  PROVE  /\ current \in Sequences6502 /\ step \in 1 .. Len(Steps[current])
         /\ Len(Steps[current]) \in 1 .. 6
         /\ \/ /\ current' = current /\ step' = step + 1 /\ step < Len(Steps[current])
               /\ Skipped = 0
            \/ /\ current' = "none" /\ step' = 1
               /\ step + Skipped = Len(Steps[current])
         /\ Skipped \in 0 .. 2
<1>1. Skipped \in 0 .. 2
  BY DEF Skipped
<1>2. Advance(Skipped)
  BY TickTouches DEF Touches
<1> DEFINE k == Len(Steps[current])
<1>3. /\ \/ current' = "none" /\ step' = 1 /\ k <= step + Skipped
         \/ current' = current /\ step' = step + Skipped + 1 /\ step + Skipped < k
      /\ current \in Sequences6502 /\ step \in 1 .. k /\ k \in 1 .. 6
  BY <1>1, <1>2, AdvanceTo
<1>4. /\ Skipped = 1 => step + 1 = k
      /\ Skipped = 2 => step + 2 = k
  BY <1>3, SkipTable DEF Skipped, SkipsToEnd, Op
<1> HIDE DEF Skipped, k
<1>5. CASE Skipped = 0
  BY <1>3, <1>5 DEF k
<1>6. CASE Skipped = 1
  BY <1>3, <1>4, <1>6 DEF k
<1>7. CASE Skipped = 2
  BY <1>3, <1>4, <1>7 DEF k
<1> QED BY <1>1, <1>5, <1>6, <1>7

LEMMA BytesOf ==
  /\ Bytes["implied"] = 1 /\ Bytes["CLI"] = 1 /\ Bytes["SEI"] = 1
  /\ Bytes["TXS"] = 1 /\ Bytes["immRead"] = 2 /\ Bytes["zpRead"] = 2
  /\ Bytes["zpIdxRead"] = 2 /\ Bytes["absRead"] = 3 /\ Bytes["absIdxRead"] = 3
  /\ Bytes["indXRead"] = 2 /\ Bytes["indYRead"] = 2 /\ Bytes["zpWrite"] = 2
  /\ Bytes["zpIdxWrite"] = 2 /\ Bytes["absWrite"] = 3 /\ Bytes["absIdxWrite"] = 3
  /\ Bytes["indXWrite"] = 2 /\ Bytes["indYWrite"] = 2 /\ Bytes["zpModify"] = 2
  /\ Bytes["zpXModify"] = 2 /\ Bytes["absModify"] = 3 /\ Bytes["absXModify"] = 3
  /\ Bytes["branch"] = 2 /\ Bytes["BBR"] = 3 /\ Bytes["BBS"] = 3
  /\ Bytes["PHA"] = 1 /\ Bytes["PHP"] = 1 /\ Bytes["PLA"] = 1
  /\ Bytes["PLP"] = 1
  BY DEF Bytes, Instructions, Sequences6502, Interrupts, Steps

(* The operand bytes an instruction fetches are those its table entry      *)
(* declares, and it fetches them before any operation that may end it.     *)
Counts(m) ==
  /\ Fetched(m, 1) = 0 /\ Bytes[m] \in 1 .. 3
  /\ Fetched(m, Len(Steps[m]) + 1) = Bytes[m] - 1
  /\ \A s \in 1 .. Len(Steps[m]) :
       /\ Steps[m][s] \in PCMoves => Fetched(m, s + 1) = Fetched(m, s) + 1
       /\ Steps[m][s] \notin PCMoves => Fetched(m, s + 1) = Fetched(m, s)
       /\ Fetched(m, s) \in 0 .. 2
       /\ Steps[m][s] \in PCSets => Steps[m][s] = "Branch"
       /\ Steps[m][s] \in {"ReadOrFix", "FetchOffset", "FetchBitOffset", "Branch"}
            => Fetched(m, s + 1) = Bytes[m] - 1
       /\ Steps[m][s] = "Branch" <=>
            m \in Branches /\ s = IF m = "branch" THEN 2 ELSE 4

LEMMA CountTable == \A m \in Straight : Counts(m)
<1>1. Counts("implied") /\ Counts("CLI")
  BY BytesOf DEF Counts, Steps, Fetched, PCMoves, PCSets, Branches, BitTests
<1>2. Counts("SEI") /\ Counts("TXS")
  BY BytesOf DEF Counts, Steps, Fetched, PCMoves, PCSets, Branches, BitTests
<1>3. Counts("immRead") /\ Counts("zpRead")
  BY BytesOf DEF Counts, Steps, Fetched, PCMoves, PCSets, Branches, BitTests
<1>4. Counts("zpIdxRead") /\ Counts("absRead")
  BY BytesOf DEF Counts, Steps, Fetched, PCMoves, PCSets, Branches, BitTests
<1>5. Counts("absIdxRead") /\ Counts("indXRead")
  BY BytesOf DEF Counts, Steps, Fetched, PCMoves, PCSets, Branches, BitTests
<1>6. Counts("indYRead") /\ Counts("zpWrite")
  BY BytesOf DEF Counts, Steps, Fetched, PCMoves, PCSets, Branches, BitTests
<1>7. Counts("zpIdxWrite") /\ Counts("absWrite")
  BY BytesOf DEF Counts, Steps, Fetched, PCMoves, PCSets, Branches, BitTests
<1>8. Counts("absIdxWrite") /\ Counts("indXWrite")
  BY BytesOf DEF Counts, Steps, Fetched, PCMoves, PCSets, Branches, BitTests
<1>9. Counts("indYWrite") /\ Counts("zpModify")
  BY BytesOf DEF Counts, Steps, Fetched, PCMoves, PCSets, Branches, BitTests
<1>10. Counts("zpXModify") /\ Counts("absModify")
  BY BytesOf DEF Counts, Steps, Fetched, PCMoves, PCSets, Branches, BitTests
<1>11. Counts("absXModify") /\ Counts("branch")
  BY BytesOf DEF Counts, Steps, Fetched, PCMoves, PCSets, Branches, BitTests
<1>12. Counts("BBR") /\ Counts("BBS")
  BY BytesOf DEF Counts, Steps, Fetched, PCMoves, PCSets, Branches, BitTests
<1>13. Counts("PHA") /\ Counts("PHP")
  BY BytesOf DEF Counts, Steps, Fetched, PCMoves, PCSets, Branches, BitTests
<1>14. Counts("PLA") /\ Counts("PLP")
  BY BytesOf DEF Counts, Steps, Fetched, PCMoves, PCSets, Branches, BitTests
<1> HIDE DEF Counts
<1>15. Straight =
        {"implied", "CLI", "SEI", "TXS", "immRead", "zpRead", "zpIdxRead",
         "absRead", "absIdxRead", "indXRead", "indYRead", "zpWrite",
         "zpIdxWrite", "absWrite", "absIdxWrite", "indXWrite",
         "indYWrite", "zpModify", "zpXModify", "absModify", "absXModify",
         "branch", "BBR", "BBS", "PHA", "PHP", "PLA", "PLP"}
  BY DEF Straight, Transfers, Instructions, Sequences6502, Interrupts, Steps
<1> QED BY <1>1, <1>2, <1>3, <1>4, <1>5, <1>6, <1>7, <1>8, <1>9, <1>10, <1>11, <1>12,
           <1>13, <1>14, <1>15

-----------------------------------------------------------------------------
(* Two digits to the base n make a number below n * n. *)
LEMMA TwoDigits ==
  ASSUME NEW n \in Nat, n >= 1, NEW p \in 0 .. n - 1, NEW o \in 0 .. n - 1
  PROVE  /\ p * n + o \in 0 .. n * n - 1
         /\ (p * n + o) \div n = p
<1>1. p * n <= (n - 1) * n
  OBVIOUS
<1>2. (n - 1) * n = n * n - n
  OBVIOUS
<1>3. p * n \in Nat /\ n * n \in Nat
  OBVIOUS
<1> DEFINE x == p * n
           y == n * n
<1>4. x \in Nat /\ y \in Nat /\ x <= y - n
  BY <1>1, <1>2, <1>3
<1> HIDE DEF x, y
<1>5. x + o \in 0 .. y - 1
  BY <1>4
<1>6. (p * n + o) \div n = p
  OBVIOUS
<1> QED BY <1>5, <1>6 DEF x, y

(* A word as a number: its page is the quotient by B. *)
LEMMA FlatFacts ==
  ASSUME NEW w \in Word
  PROVE  Flat(w) \in 0 .. B * B - 1 /\ Flat(w) \div B = w[1]
<1>1. B \in Nat /\ B >= 6
  BY HalfAssumption DEF B
<1> HIDE DEF B
<1>2. w[1] \in 0 .. B - 1 /\ w[2] \in 0 .. B - 1
  BY DEF Word, Byte
<1> QED BY <1>1, <1>2, TwoDigits DEF Flat

(* Adding an index to a word is addition modulo B * B.  *)
LEMMA FlatAdd ==
  ASSUME NEW w \in Word, NEW k \in Byte
  PROVE  Flat(AddIndex(w, k)) = (Flat(w) + k) % (B * B)
<1>1. B \in Nat /\ B >= 6
  BY HalfAssumption DEF B
<1>2. Flat(AddIndex(w, k)) \in 0 .. B * B - 1
  BY AddIndexClosed, FlatFacts
<1> HIDE DEF B
<1> DEFINE p == w[1]
           o == w[2]
           y == B * B
           x == p * B
<1>3. p \in 0 .. B - 1 /\ o \in 0 .. B - 1 /\ k \in 0 .. B - 1
  BY DEF Word, Byte
<1>4. y \in Nat /\ x \in Nat
  BY <1>1, <1>3
<1>5. (p + 1) * B = x + B /\ 0 * B = 0
  BY <1>1, <1>3
<1>6. CASE o + k < B
  <2>1. Flat(AddIndex(w, k)) = x + (o + k)
    BY <1>6 DEF Flat, AddIndex
  <2> HIDE DEF p, o, x, y
  <2>2. Flat(AddIndex(w, k)) = Flat(w) + k
    BY <2>1, <1>1, <1>3, <1>4 DEF Flat, p, o, x
  <2> QED BY <2>2, <1>2, <1>4 DEF y
<1>7. CASE ~(o + k < B) /\ p + 1 < B
  <2>1. Wrap(p + 1) = p + 1
    BY <1>7, <1>1, <1>3 DEF Wrap
  <2>2. Flat(AddIndex(w, k)) = (p + 1) * B + (o + k - B)
    BY <1>7, <2>1 DEF Flat, AddIndex
  <2> HIDE DEF p, o, x, y
  <2>3. Flat(AddIndex(w, k)) = (x + o) + k
    BY <2>2, <1>1, <1>3, <1>4, <1>5
  <2> QED BY <2>3, <1>2, <1>4 DEF y, Flat, p, o, x
<1>8. CASE ~(o + k < B) /\ ~(p + 1 < B)
  <2>1. Wrap(p + 1) = 0
    BY <1>8, <1>1, <1>3 DEF Wrap
  <2>2. Flat(AddIndex(w, k)) = 0 * B + (o + k - B)
    BY <1>8, <2>1 DEF Flat, AddIndex
  <2>3. x = y - B
    BY <1>8, <1>1, <1>3
  <2> HIDE DEF p, o, x, y
  <2>4. Flat(AddIndex(w, k)) + y = (x + o) + k
    BY <2>2, <2>3, <1>1, <1>3, <1>4, <1>5
  <2>5. Flat(AddIndex(w, k)) \in 0 .. y - 1
    BY <1>2 DEF y
  <2>6. \A f \in 0 .. y - 1 : (f + y) % y = f
    BY <1>4
  <2> QED BY <2>4, <2>5, <2>6 DEF y, Flat, p, o, x
<1> QED BY <1>6, <1>7, <1>8

(* The page changes exactly when the index carries. *)
LEMMA Carries ==
  ASSUME NEW w \in Word, NEW k \in Byte
  PROVE  PageCrossed(w, AddIndex(w, k)) <=> w[2] + k >= B
<1>1. B \in Nat /\ B >= 6
  BY HalfAssumption DEF B
<1> HIDE DEF B
<1>2. w[1] \in 0 .. B - 1 /\ w[2] \in 0 .. B - 1 /\ k \in 0 .. B - 1
  BY DEF Word, Byte
<1>3. Wrap(w[1] + 1) # w[1]
  BY <1>1, <1>2 DEF Wrap
<1>4. w[2] + k < B <=> ~(w[2] + k >= B)
  BY <1>1, <1>2
<1> HIDE DEF Wrap
<1> QED BY <1>3, <1>4 DEF PageCrossed, AddIndex

(* A zero-page address wraps in its page, and a byte sum modulo B. *)
LEMMA WrapIsMod ==
  ASSUME NEW b \in Byte, NEW i \in Byte
  PROVE  /\ Wrap(b + i) = (b + i) % B
         /\ Wrap(Wrap(b + i) + 1) = (b + i + 1) % B
         /\ Wrap(b + 1) = (b + 1) % B /\ (b + 0) % B = b
         /\ (b + i + 0) % B = (b + i) % B
<1>1. B \in Nat /\ B >= 6
  BY HalfAssumption DEF B
<1> HIDE DEF B
<1>2. b \in 0 .. B - 1 /\ i \in 0 .. B - 1
  BY DEF Byte
<1>3. ASSUME NEW n \in 0 .. B + B - 1 PROVE Wrap(n) = n % B
  BY <1>1 DEF Wrap
<1>4. Wrap(b + i) = (b + i) % B /\ Wrap(b + 1) = (b + 1) % B
  <2>1. b + i \in 0 .. B + B - 1 /\ b + 1 \in 0 .. B + B - 1
    BY <1>1, <1>2
  <2> QED BY <2>1, <1>3
<1>5. Wrap(Wrap(b + i) + 1) = (b + i + 1) % B
  BY <1>1, <1>2 DEF Wrap
<1> QED BY <1>1, <1>2, <1>4, <1>5

LEMMA FlatPairs ==
  /\ \A b \in Byte : Flat(ZeroPage(b)) = b
  /\ \A h, l \in Byte : Flat(<<h, l>>) = Little(l, h)
<1>1. B \in Nat /\ B >= 6
  BY HalfAssumption DEF B
<1> HIDE DEF B
<1> QED BY <1>1 DEF Flat, ZeroPage, Little, Byte

-----------------------------------------------------------------------------
ReadsAt(a) == bus'.op = "read" /\ bus'.addr = a

(* What a tick accesses, and where it leaves the byte. *)
Accesses ==
  /\ Op = "FetchTmp" => bus'.op = "read" /\ tmp8' = bus'.val
  /\ Op = "FetchZp" => bus'.op = "read" /\ tmpAddr' = ZeroPage(bus'.val)
  /\ Op = "FetchHi" => bus'.op = "read" /\ tmpAddr' = <<bus'.val, tmp8>>
  /\ Op = "FetchHiIndexed" =>
       /\ bus'.op = "read" /\ tmpBase' = <<bus'.val, tmp8>>
       /\ tmpAddr' = AddIndex(<<bus'.val, tmp8>>, index)
  /\ Op = "IndexZp" => bus'.op = "idle" /\ tmpAddr' = ZeroPage(Wrap(tmp8 + index))
  /\ Op = "ReadTmp" => ReadsAt(tmpAddr) /\ tmp8' = bus'.val
  /\ Op = "ReadPtrHi" => ReadsAt(PointerHi) /\ tmpAddr' = <<bus'.val, tmp8>>
  /\ Op = "ReadPtrHiIndexed" =>
       /\ ReadsAt(PointerHi) /\ tmpBase' = <<bus'.val, tmp8>>
       /\ tmpAddr' = AddIndex(<<bus'.val, tmp8>>, index)
  /\ Op = "ReadPCH" => ReadsAt(<<tmpAddr[1], Wrap(tmpAddr[2] + 1)>>)
  /\ Op = "ReadBits" => ReadsAt(tmpAddr) /\ tmpBase' = ZeroPage(bus'.val)
  /\ Op = "ReadDo" => ReadsAt(tmpAddr)
  /\ Op = "ReadOrFix" => ReadsAt(IF PageCrossed(tmpBase, tmpAddr)
                                   THEN Unfixed(tmpBase, tmpAddr) ELSE tmpAddr)
  /\ Op = "ReadUnfixed" => bus'.op = "read"
  /\ Op \in {"FetchOffset", "FetchBitOffset"} => bus'.op = "read"
  /\ Op = "Branch" => bus'.op = "idle" /\ PC' = BranchTarget(PC, tmp8)
  /\ Op \in {"WriteDo", "WriteTmp", "WriteModified"} =>
       bus'.op = "write" /\ bus'.addr = tmpAddr

LEMMA TickAccesses == ASSUME current # "none", Tick PROVE Accesses
<1> USE DEF ReadsAt, Read, Write, NoAccess, Idle
<1>1. Op = "FetchTmp" => bus'.op = "read" /\ tmp8' = bus'.val
  BY DEF Tick, InternalOp, ByteOp, FetchTmp
<1>2. Op = "FetchZp" => bus'.op = "read" /\ tmpAddr' = ZeroPage(bus'.val)
  BY DEF Tick, InternalOp, ByteOp, FetchZp
<1>3. Op = "FetchHi" => bus'.op = "read" /\ tmpAddr' = <<bus'.val, tmp8>>
  BY DEF Tick, InternalOp, ByteOp, FetchHi
<1>4. Op = "FetchHiIndexed" =>
        /\ bus'.op = "read" /\ tmpBase' = <<bus'.val, tmp8>>
        /\ tmpAddr' = AddIndex(<<bus'.val, tmp8>>, index)
  <2>1. Op = "FetchHiIndexed" => \E v \in BusBytes : FetchHiIndexed(v)
    BY DEF Tick, InternalOp, ByteOp
  <2>2. ASSUME NEW v, FetchHiIndexed(v)
        PROVE  bus'.op = "read" /\ bus'.val = v /\ tmpBase' = <<v, tmp8>>
               /\ tmpAddr' = AddIndex(<<v, tmp8>>, index)
    BY <2>2 DEF FetchHiIndexed
  <2> QED BY <2>1, <2>2, Zenon
<1>5. Op = "IndexZp" => bus'.op = "idle" /\ tmpAddr' = ZeroPage(Wrap(tmp8 + index))
  BY DEF Tick, InternalOp, ByteOp, IndexZp
<1>6. Op = "ReadTmp" => ReadsAt(tmpAddr) /\ tmp8' = bus'.val
  BY DEF Tick, InternalOp, ByteOp, ReadTmp
<1>7. Op = "ReadPtrHi" => ReadsAt(PointerHi) /\ tmpAddr' = <<bus'.val, tmp8>>
  BY DEF Tick, InternalOp, ByteOp, ReadPtrHi
<1>8. Op = "ReadPtrHiIndexed" =>
        /\ ReadsAt(PointerHi) /\ tmpBase' = <<bus'.val, tmp8>>
        /\ tmpAddr' = AddIndex(<<bus'.val, tmp8>>, index)
  <2>1. Op = "ReadPtrHiIndexed" => \E v \in BusBytes : ReadPtrHiIndexed(v)
    BY DEF Tick, InternalOp, ByteOp
  <2>2. ASSUME NEW v, ReadPtrHiIndexed(v)
        PROVE  ReadsAt(PointerHi) /\ bus'.val = v /\ tmpBase' = <<v, tmp8>>
               /\ tmpAddr' = AddIndex(<<v, tmp8>>, index)
    BY <2>2 DEF ReadPtrHiIndexed
  <2> QED BY <2>1, <2>2, Zenon
<1>9. Op = "ReadPCH" => ReadsAt(<<tmpAddr[1], Wrap(tmpAddr[2] + 1)>>)
  BY DEF Tick, InternalOp, ByteOp, ReadPCH
<1>10. Op = "ReadBits" => ReadsAt(tmpAddr) /\ tmpBase' = ZeroPage(bus'.val)
  BY DEF Tick, InternalOp, ByteOp, ReadBits
<1>11. Op = "ReadDo" => ReadsAt(tmpAddr)
  BY DEF Tick, InternalOp, ByteOp, ReadDo
<1>12. Op = "ReadOrFix" => ReadsAt(IF PageCrossed(tmpBase, tmpAddr)
                                     THEN Unfixed(tmpBase, tmpAddr) ELSE tmpAddr)
  BY DEF Tick, InternalOp, ByteOp, ReadOrFix
<1>13. Op = "ReadUnfixed" => bus'.op = "read"
  BY DEF Tick, InternalOp, ByteOp, ReadUnfixed
<1>14. Op \in {"FetchOffset", "FetchBitOffset"} => bus'.op = "read"
  BY DEF Tick, InternalOp, ByteOp, FetchOffset, FetchBitOffset
<1>15. Op = "Branch" => bus'.op = "idle" /\ PC' = BranchTarget(PC, tmp8)
  BY DEF Tick, InternalOp, ByteOp, Branch
<1>16. Op \in {"WriteDo", "WriteTmp", "WriteModified"} =>
         bus'.op = "write" /\ bus'.addr = tmpAddr
  BY DEF Tick, InternalOp, ByteOp, WriteDo, WriteTmp, WriteModified
<1> QED BY <1>1, <1>2, <1>3, <1>4, <1>5, <1>6, <1>7, <1>8, <1>9, <1>10, <1>11, <1>12,
           <1>13, <1>14, <1>15, <1>16 DEF Accesses

(* The record of the bytes read only grows, to three. *)
LEMMA ReadsGrow ==
  ASSUME TypeOK', RecInv, TickOp
  PROVE  /\ reads \in Seq(Byte) /\ Len(reads) \in 0 .. 3
         /\ reads' \in Seq(Byte) /\ Len(reads') \in Len(reads) .. 3
         /\ \A i \in 1 .. Len(reads) : reads'[i] = reads[i] /\ reads[i] \in Byte
         /\ bus'.op = "read" /\ Len(reads) < 3 =>
              /\ Len(reads') = Len(reads) + 1
              /\ reads'[Len(reads) + 1] = bus'.val
         /\ bus'.op # "read" \/ Len(reads) = 3 => reads' = reads
         /\ bus'.val \in Byte
<1>1. reads \in Seq(Byte) /\ Len(reads) \in 0 .. 3
  <2>1. reads \in Seq(Byte) /\ Len(reads) <= 3
    BY DEF RecInv, TickOp
  <2>2. Len(reads) \in 0 .. 3
    <3>1. Len(reads) \in Nat
      BY <2>1, LenProperties
    <3>2. \A n \in Nat : n <= 3 => n \in 0 .. 3
      OBVIOUS
    <3> QED BY <2>1, <3>1, <3>2, Zenon
  <2> QED BY <2>1, <2>2
<1>2. bus'.val \in Byte
  BY DEF TypeOK, BusType
<1> DEFINE v == bus'.val
<1>3. reads' = IF bus'.op = "read" /\ Len(reads) < 3 THEN Append(reads, v) ELSE reads
  BY DEF TickOp
<1>4. CASE bus'.op = "read" /\ Len(reads) < 3
  <2>1. reads' = Append(reads, v)
    BY <1>3, <1>4
  <2> HIDE DEF v
  <2>2. v \in Byte
    BY <1>2 DEF v
  <2>3. /\ reads' \in Seq(Byte) /\ Len(reads') = Len(reads) + 1
        /\ reads'[Len(reads) + 1] = v
        /\ \A i \in 1 .. Len(reads) : reads'[i] = reads[i] /\ reads[i] \in Byte
    BY <2>1, <2>2, <1>1
  <2> QED BY <2>2, <2>3, <1>1, <1>4 DEF v
<1>5. CASE ~(bus'.op = "read" /\ Len(reads) < 3)
  <2>1. reads' = reads
    BY <1>3, <1>5
  <2>2. \A i \in 1 .. Len(reads) : reads[i] \in Byte
    BY <1>1
  <2> QED BY <2>1, <2>2, <1>1, <1>2, <1>5
<1> QED BY <1>4, <1>5

-----------------------------------------------------------------------------
(* Data accesses at the effective address: they leave it as it is. *)
Keepers ==
  {"ReadDo", "WriteDo", "ReadTmp", "WriteTmp", "WriteModified", "ReadOrFix", "ReadUnfixed"}

(* From operation k on, mode m only accesses its data. *)
Keeping(m, k) == \A s \in k .. Len(Steps[m]) : Steps[m][s] \in Keepers

(* How each addressing mode forms its effective address. *)
LEMMA ModeTable ==
  /\ \A m \in ZpModes : Steps[m][1] = "FetchZp" /\ Keeping(m, 2)
  /\ \A m \in ZpIdxModes :
       Steps[m][1] = "FetchTmp" /\ Steps[m][2] = "IndexZp" /\ Keeping(m, 3)
  /\ \A m \in AbsModes \ {"JMPind"} :
       Steps[m][1] = "FetchTmp" /\ Steps[m][2] = "FetchHi" /\ Keeping(m, 3)
  /\ Steps["JMPind"] = <<"FetchTmp", "FetchHi", "ReadTmp", "ReadPCH">>
  /\ \A m \in AbsIdxModes :
       Steps[m][1] = "FetchTmp" /\ Steps[m][2] = "FetchHiIndexed" /\ Keeping(m, 3)
  /\ \A m \in IndXModes :
       /\ Steps[m][1] = "FetchTmp" /\ Steps[m][2] = "IndexZp" /\ Steps[m][3] = "ReadTmp"
       /\ Steps[m][4] = "ReadPtrHi" /\ Keeping(m, 5) /\ Len(Steps[m]) = 5
  /\ \A m \in IndYModes :
       /\ Steps[m][1] = "FetchZp" /\ Steps[m][2] = "ReadTmp"
       /\ Steps[m][3] = "ReadPtrHiIndexed" /\ Keeping(m, 4)
  /\ Steps["absIdxRead"][3] = "ReadOrFix" /\ Steps["indYRead"][4] = "ReadOrFix"
<1> USE DEF Keeping, Keepers, Steps
<1>1. \A m \in ZpModes : Steps[m][1] = "FetchZp" /\ Keeping(m, 2)
  BY DEF ZpModes
<1>2. \A m \in ZpIdxModes :
        Steps[m][1] = "FetchTmp" /\ Steps[m][2] = "IndexZp" /\ Keeping(m, 3)
  BY DEF ZpIdxModes
<1>3. \A m \in AbsModes \ {"JMPind"} :
        Steps[m][1] = "FetchTmp" /\ Steps[m][2] = "FetchHi" /\ Keeping(m, 3)
  <2>1. AbsModes \ {"JMPind"} = {"absRead", "absWrite", "absModify"}
    BY DEF AbsModes
  <2> QED BY <2>1
<1>4. Steps["JMPind"] = <<"FetchTmp", "FetchHi", "ReadTmp", "ReadPCH">>
  OBVIOUS
<1>5. \A m \in AbsIdxModes :
        Steps[m][1] = "FetchTmp" /\ Steps[m][2] = "FetchHiIndexed" /\ Keeping(m, 3)
  BY DEF AbsIdxModes
<1>6. \A m \in IndXModes :
        /\ Steps[m][1] = "FetchTmp" /\ Steps[m][2] = "IndexZp" /\ Steps[m][3] = "ReadTmp"
        /\ Steps[m][4] = "ReadPtrHi" /\ Keeping(m, 5) /\ Len(Steps[m]) = 5
  BY DEF IndXModes
<1>7. \A m \in IndYModes :
        /\ Steps[m][1] = "FetchZp" /\ Steps[m][2] = "ReadTmp"
        /\ Steps[m][3] = "ReadPtrHiIndexed" /\ Keeping(m, 4)
  BY DEF IndYModes
<1>8. Steps["absIdxRead"][3] = "ReadOrFix" /\ Steps["indYRead"][4] = "ReadOrFix"
  OBVIOUS
<1> QED BY <1>1, <1>2, <1>3, <1>4, <1>5, <1>6, <1>7, <1>8

(* The tick that goes on to the next operation of its sequence. *)
Onward ==
  /\ current' = current /\ step' = step + 1
  /\ step \in 1 .. 6 /\ step + 1 <= Len(Steps[current]) /\ Len(Steps[current]) \in 1 .. 6
  /\ Skipped = 0

LEMMA KeepersKeep ==
  ASSUME TickOp, Op \in Keepers
  PROVE  tmpAddr' = tmpAddr /\ tmpBase' = tmpBase
<1>1. Touches
  BY TickTouches DEF TickOp
<1> QED BY <1>1 DEF Touches, Keepers, AddrSets, BaseSets

LEMMA ZpStep ==
  ASSUME TimingInv, TickOp, TypeOK', Onward
  PROVE  ZpInv'
<1> SUFFICES ASSUME current \in ZpModes
             PROVE  Len(reads') >= 1 /\ tmpAddr' = <<0, reads'[1]>>
  BY DEF ZpInv, Onward
<1>1. /\ step \in 1 .. 6 /\ step <= Len(Steps[current]) /\ Accesses /\ current # "none"
      /\ RecInv /\ ZpInv
  BY TickAccesses DEF Onward, TickOp, TimingInv, ModeInv
<1>2. CASE step = 1
  <2>1. Op = "FetchZp" /\ Len(reads) = 0
    BY <1>1, <1>2, ModeTable DEF Op, RecInv
  <2>2. bus'.op = "read" /\ tmpAddr' = ZeroPage(bus'.val)
    BY <1>1, <2>1 DEF Accesses
  <2>3. Len(reads') = 1 /\ reads'[1] = bus'.val
    BY <1>1, <2>1, <2>2, ReadsGrow
  <2> QED BY <2>2, <2>3 DEF ZeroPage
<1>3. CASE step # 1
  <2>1. Len(reads) >= 1 /\ tmpAddr = <<0, reads[1]>>
    BY <1>1, <1>3 DEF ZpInv
  <2>2. Op \in Keepers
    BY <1>1, <1>3, ModeTable DEF Op, Keeping
  <2>3. Len(reads') >= 1 /\ reads'[1] = reads[1]
    BY <1>1, <2>1, ReadsGrow
  <2> QED BY <2>1, <2>2, <2>3, KeepersKeep
<1> QED BY <1>2, <1>3

LEMMA ZpIdxStep ==
  ASSUME TimingInv, TickOp, TypeOK', Onward
  PROVE  ZpIdxInv'
<1> SUFFICES ASSUME current \in ZpIdxModes
             PROVE  /\ step = 1 => Len(reads') = 1 /\ tmp8' = reads'[1]
                    /\ step >= 2 =>
                         Len(reads') >= 1 /\ tmpAddr' = <<0, Wrap(reads'[1] + index')>>
  BY DEF ZpIdxInv, Onward
<1>1. /\ step \in 1 .. 6 /\ step <= Len(Steps[current]) /\ Accesses /\ current # "none"
      /\ RecInv /\ ZpIdxInv /\ Touches
  BY TickAccesses, TickTouches DEF Onward, TickOp, TimingInv, ModeInv
<1>2. index' = index
  BY <1>1 DEF Touches, choices
<1>3. CASE step = 1
  <2>1. Op = "FetchTmp" /\ Len(reads) = 0
    BY <1>1, <1>3, ModeTable DEF Op, RecInv
  <2>2. bus'.op = "read" /\ tmp8' = bus'.val
    BY <1>1, <2>1 DEF Accesses
  <2>3. Len(reads') = 1 /\ reads'[1] = bus'.val
    BY <1>1, <2>1, <2>2, ReadsGrow
  <2> QED BY <1>3, <2>2, <2>3
<1>4. CASE step = 2
  <2>1. Op = "IndexZp" /\ Len(reads) = 1 /\ tmp8 = reads[1]
    BY <1>1, <1>4, ModeTable DEF Op, ZpIdxInv
  <2>2. bus'.op = "idle" /\ tmpAddr' = ZeroPage(Wrap(tmp8 + index))
    BY <1>1, <2>1 DEF Accesses
  <2>3. reads' = reads
    BY <1>1, <2>2, ReadsGrow
  <2> QED BY <1>2, <1>4, <2>1, <2>2, <2>3 DEF ZeroPage
<1>5. CASE step >= 3
  <2>1. Len(reads) >= 1 /\ tmpAddr = <<0, Wrap(reads[1] + index)>>
    BY <1>1, <1>5 DEF ZpIdxInv
  <2>2. Op \in Keepers
    BY <1>1, <1>5, ModeTable DEF Op, Keeping
  <2>3. Len(reads') >= 1 /\ reads'[1] = reads[1]
    BY <1>1, <2>1, ReadsGrow
  <2> QED BY <1>2, <1>5, <2>1, <2>2, <2>3, KeepersKeep
<1> QED BY <1>1, <1>3, <1>4, <1>5

LEMMA AbsStep ==
  ASSUME TimingInv, TickOp, TypeOK', Onward
  PROVE  AbsInv'
<1> SUFFICES ASSUME current \in AbsModes
             PROVE  /\ step = 1 => Len(reads') = 1 /\ tmp8' = reads'[1]
                    /\ step = 2 => Len(reads') = 2
                    /\ step >= 2 => /\ Len(reads') >= 2
                                    /\ tmpAddr' = <<reads'[2], reads'[1]>>
                    /\ step = 3 /\ current = "JMPind" => Len(reads') = 3
  BY DEF AbsInv, Onward
<1>1. /\ step \in 1 .. 6 /\ step <= Len(Steps[current]) /\ Accesses /\ current # "none"
      /\ RecInv /\ AbsInv /\ Touches
  BY TickAccesses, TickTouches DEF Onward, TickOp, TimingInv, ModeInv
<1>2. index' = index
  BY <1>1 DEF Touches, choices
<1>3. CASE step = 1
  <2>1. Op = "FetchTmp" /\ Len(reads) = 0
    BY <1>1, <1>3, ModeTable DEF Op, RecInv
  <2>2. bus'.op = "read" /\ tmp8' = bus'.val
    BY <1>1, <2>1 DEF Accesses
  <2>3. Len(reads') = 1 /\ reads'[1] = bus'.val
    BY <1>1, <2>1, <2>2, ReadsGrow
  <2> QED BY <1>3, <2>2, <2>3
<1>4. CASE step = 2
  <2>1. Op = "FetchHi" /\ Len(reads) = 1 /\ tmp8 = reads[1]
    BY <1>1, <1>4, ModeTable DEF Op, AbsInv
  <2>2. bus'.op = "read" /\ tmpAddr' = <<bus'.val, tmp8>>
    BY <1>1, <2>1 DEF Accesses
  <2>3. Len(reads') = 2 /\ reads'[2] = bus'.val /\ reads'[1] = reads[1]
    BY <1>1, <2>1, <2>2, ReadsGrow
  <2> QED BY <1>4, <2>1, <2>2, <2>3
<1>5. CASE step >= 3
  <2>1. Len(reads) >= 2 /\ tmpAddr = <<reads[2], reads[1]>>
    BY <1>1, <1>5 DEF AbsInv
  <2>2. current = "JMPind" => Op = "ReadTmp" /\ step = 3 /\ Len(reads) = 2
    <3> SUFFICES ASSUME current = "JMPind" PROVE Op = "ReadTmp" /\ step = 3
        /\ Len(reads) = 2
      OBVIOUS
    <3>1. Steps[current] = <<"FetchTmp", "FetchHi", "ReadTmp", "ReadPCH">>
      BY ModeTable
    <3>2. step = 3
      BY <1>1, <1>5, <3>1 DEF Onward
    <3> QED BY <1>1, <3>1, <3>2 DEF Op, AbsInv
  <2>3. Op \in Keepers
    <3>1. CASE current = "JMPind"
      BY <2>2, <3>1 DEF Keepers
    <3>2. CASE current # "JMPind"
      BY <1>1, <1>5, <3>2, ModeTable DEF Op, Keeping
    <3> QED BY <3>1, <3>2
  <2>4. Len(reads') >= 2 /\ reads'[1] = reads[1] /\ reads'[2] = reads[2]
    BY <1>1, <2>1, ReadsGrow
  <2>5. current = "JMPind" => Len(reads') = 3
    <3> SUFFICES ASSUME current = "JMPind" PROVE Len(reads') = 3
      OBVIOUS
    <3>1. bus'.op = "read" /\ Len(reads) = 2
      BY <1>1, <2>2 DEF Accesses, ReadsAt
    <3>2. Len(reads') = Len(reads) + 1
      BY <1>1, <3>1, ReadsGrow
    <3> QED BY <3>1, <3>2
  <2> QED BY <1>5, <2>1, <2>3, <2>4, <2>5, KeepersKeep
<1> QED BY <1>1, <1>3, <1>4, <1>5

LEMMA AbsIdxStep ==
  ASSUME TimingInv, TickOp, TypeOK', Onward
  PROVE  AbsIdxInv'
<1> SUFFICES ASSUME current \in AbsIdxModes
             PROVE  /\ step = 1 => Len(reads') = 1 /\ tmp8' = reads'[1]
                    /\ step >= 2 =>
                         /\ Len(reads') >= 2
                         /\ tmpBase' = <<reads'[2], reads'[1]>>
                         /\ tmpAddr' = AddIndex(<<reads'[2], reads'[1]>>, index')
                    /\ step = 3 /\ current = "absIdxRead" =>
                         PageCrossed(tmpBase', tmpAddr')
  BY DEF AbsIdxInv, Onward
<1>1. /\ step \in 1 .. 6 /\ step <= Len(Steps[current]) /\ Accesses /\ current # "none"
      /\ RecInv /\ AbsIdxInv /\ Touches
  BY TickAccesses, TickTouches DEF Onward, TickOp, TimingInv, ModeInv
<1>2. index' = index
  BY <1>1 DEF Touches, choices
<1>3. CASE step = 1
  <2>1. Op = "FetchTmp" /\ Len(reads) = 0
    BY <1>1, <1>3, ModeTable DEF Op, RecInv
  <2>2. bus'.op = "read" /\ tmp8' = bus'.val
    BY <1>1, <2>1 DEF Accesses
  <2>3. Len(reads') = 1 /\ reads'[1] = bus'.val
    BY <1>1, <2>1, <2>2, ReadsGrow
  <2> QED BY <1>3, <2>2, <2>3
<1>4. CASE step = 2
  <2>1. Op = "FetchHiIndexed" /\ Len(reads) = 1 /\ tmp8 = reads[1]
    BY <1>1, <1>4, ModeTable DEF Op, AbsIdxInv
  <2>2. /\ bus'.op = "read" /\ tmpBase' = <<bus'.val, tmp8>>
        /\ tmpAddr' = AddIndex(<<bus'.val, tmp8>>, index)
    BY <1>1, <2>1 DEF Accesses
  <2>3. Len(reads') = 2 /\ reads'[2] = bus'.val /\ reads'[1] = reads[1]
    BY <1>1, <2>1, <2>2, ReadsGrow
  <2> QED BY <1>2, <1>4, <2>1, <2>2, <2>3
<1>5. CASE step >= 3
  <2>1. /\ Len(reads) >= 2 /\ tmpBase = <<reads[2], reads[1]>>
        /\ tmpAddr = AddIndex(<<reads[2], reads[1]>>, index)
    BY <1>1, <1>5 DEF AbsIdxInv
  <2>2. Op \in Keepers
    BY <1>1, <1>5, ModeTable DEF Op, Keeping
  <2>3. Len(reads') >= 2 /\ reads'[1] = reads[1] /\ reads'[2] = reads[2]
    BY <1>1, <2>1, ReadsGrow
  <2>4. step = 3 /\ current = "absIdxRead" => PageCrossed(tmpBase, tmpAddr)
    <3>1. step = 3 /\ current = "absIdxRead" => Op = "ReadOrFix"
      BY ModeTable DEF Op
    <3> QED BY <3>1 DEF Onward, Skipped
  <2>5. tmpAddr' = tmpAddr /\ tmpBase' = tmpBase
    BY <2>2, KeepersKeep
  <2> QED BY <1>2, <1>5, <2>1, <2>3, <2>4, <2>5
<1> QED BY <1>1, <1>3, <1>4, <1>5

LEMMA IndXStep ==
  ASSUME TimingInv, TickOp, TypeOK', Onward
  PROVE  IndXInv'
<1> SUFFICES ASSUME current \in IndXModes
             PROVE  /\ step = 1 => Len(reads') = 1 /\ tmp8' = reads'[1]
                    /\ step = 2 =>
                         Len(reads') = 1 /\ tmpAddr' = <<0, Wrap(reads'[1] + index')>>
                    /\ step = 3 =>
                         /\ Len(reads') = 2 /\ tmpAddr' = <<0, Wrap(reads'[1] + index')>>
                         /\ tmp8' = reads'[2]
                    /\ step = 4 => Len(reads') = 3 /\ tmpAddr' = <<reads'[3], reads'[2]>>
  BY DEF IndXInv, Onward
<1>1. /\ step \in 1 .. 6 /\ step <= Len(Steps[current]) /\ Accesses /\ current # "none"
      /\ RecInv /\ IndXInv /\ Touches
  BY TickAccesses, TickTouches DEF Onward, TickOp, TimingInv, ModeInv
<1>2. index' = index
  BY <1>1 DEF Touches, choices
<1>3. CASE step = 1
  <2>1. Op = "FetchTmp" /\ Len(reads) = 0
    BY <1>1, <1>3, ModeTable DEF Op, RecInv
  <2>2. bus'.op = "read" /\ tmp8' = bus'.val
    BY <1>1, <2>1 DEF Accesses
  <2>3. Len(reads') = 1 /\ reads'[1] = bus'.val
    BY <1>1, <2>1, <2>2, ReadsGrow
  <2> QED BY <1>3, <2>2, <2>3
<1>4. CASE step = 2
  <2>1. Op = "IndexZp" /\ Len(reads) = 1 /\ tmp8 = reads[1]
    BY <1>1, <1>4, ModeTable DEF Op, IndXInv
  <2>2. bus'.op = "idle" /\ tmpAddr' = ZeroPage(Wrap(tmp8 + index))
    BY <1>1, <2>1 DEF Accesses
  <2>3. reads' = reads
    BY <1>1, <2>2, ReadsGrow
  <2> QED BY <1>2, <1>4, <2>1, <2>2, <2>3 DEF ZeroPage
<1>5. CASE step = 3
  <2>1. Op = "ReadTmp" /\ Len(reads) = 1 /\ tmpAddr = <<0, Wrap(reads[1] + index)>>
    BY <1>1, <1>5, ModeTable DEF Op, IndXInv
  <2>2. bus'.op = "read" /\ tmp8' = bus'.val
    BY <1>1, <2>1 DEF Accesses, ReadsAt
  <2>3. Len(reads') = 2 /\ reads'[2] = bus'.val /\ reads'[1] = reads[1]
    BY <1>1, <2>1, <2>2, ReadsGrow
  <2>4. tmpAddr' = tmpAddr
    BY <2>1, KeepersKeep DEF Keepers
  <2> QED BY <1>2, <1>5, <2>1, <2>2, <2>3, <2>4
<1>6. CASE step = 4
  <2>1. Op = "ReadPtrHi" /\ Len(reads) = 2 /\ tmp8 = reads[2]
    BY <1>1, <1>6, ModeTable DEF Op, IndXInv
  <2>2. bus'.op = "read" /\ tmpAddr' = <<bus'.val, tmp8>>
    BY <1>1, <2>1 DEF Accesses, ReadsAt
  <2>3. Len(reads') = 3 /\ reads'[3] = bus'.val /\ reads'[2] = reads[2]
    BY <1>1, <2>1, <2>2, ReadsGrow
  <2> QED BY <1>6, <2>1, <2>2, <2>3
<1> QED BY <1>1, <1>3, <1>4, <1>5, <1>6

LEMMA IndYStep ==
  ASSUME TimingInv, TickOp, TypeOK', Onward
  PROVE  IndYInv'
<1> SUFFICES ASSUME current \in IndYModes
             PROVE  /\ step = 1 => Len(reads') = 1 /\ tmpAddr' = <<0, reads'[1]>>
                    /\ step = 2 => /\ Len(reads') = 2 /\ tmpAddr' = <<0, reads'[1]>>
                                   /\ tmp8' = reads'[2]
                    /\ step >= 3 =>
                         /\ Len(reads') = 3
                         /\ tmpBase' = <<reads'[3], reads'[2]>>
                         /\ tmpAddr' = AddIndex(<<reads'[3], reads'[2]>>, index')
                    /\ step = 4 /\ current = "indYRead" => PageCrossed(tmpBase', tmpAddr')
  BY DEF IndYInv, Onward
<1>1. /\ step \in 1 .. 6 /\ step <= Len(Steps[current]) /\ Accesses /\ current # "none"
      /\ RecInv /\ IndYInv /\ Touches
  BY TickAccesses, TickTouches DEF Onward, TickOp, TimingInv, ModeInv
<1>2. index' = index
  BY <1>1 DEF Touches, choices
<1>3. CASE step = 1
  <2>1. Op = "FetchZp" /\ Len(reads) = 0
    BY <1>1, <1>3, ModeTable DEF Op, RecInv
  <2>2. bus'.op = "read" /\ tmpAddr' = ZeroPage(bus'.val)
    BY <1>1, <2>1 DEF Accesses
  <2>3. Len(reads') = 1 /\ reads'[1] = bus'.val
    BY <1>1, <2>1, <2>2, ReadsGrow
  <2> QED BY <1>3, <2>2, <2>3 DEF ZeroPage
<1>4. CASE step = 2
  <2>1. Op = "ReadTmp" /\ Len(reads) = 1 /\ tmpAddr = <<0, reads[1]>>
    BY <1>1, <1>4, ModeTable DEF Op, IndYInv
  <2>2. bus'.op = "read" /\ tmp8' = bus'.val
    BY <1>1, <2>1 DEF Accesses, ReadsAt
  <2>3. Len(reads') = 2 /\ reads'[2] = bus'.val /\ reads'[1] = reads[1]
    BY <1>1, <2>1, <2>2, ReadsGrow
  <2>4. tmpAddr' = tmpAddr
    BY <2>1, KeepersKeep DEF Keepers
  <2> QED BY <1>4, <2>1, <2>2, <2>3, <2>4
<1>5. CASE step = 3
  <2>1. Op = "ReadPtrHiIndexed" /\ Len(reads) = 2 /\ tmp8 = reads[2]
    BY <1>1, <1>5, ModeTable DEF Op, IndYInv
  <2>2. /\ bus'.op = "read" /\ tmpBase' = <<bus'.val, tmp8>>
        /\ tmpAddr' = AddIndex(<<bus'.val, tmp8>>, index)
    BY <1>1, <2>1 DEF Accesses, ReadsAt
  <2>3. Len(reads') = 3 /\ reads'[3] = bus'.val /\ reads'[2] = reads[2]
    BY <1>1, <2>1, <2>2, ReadsGrow
  <2> QED BY <1>2, <1>5, <2>1, <2>2, <2>3
<1>6. CASE step >= 4
  <2>1. /\ Len(reads) = 3 /\ tmpBase = <<reads[3], reads[2]>>
        /\ tmpAddr = AddIndex(<<reads[3], reads[2]>>, index)
    BY <1>1, <1>6 DEF IndYInv
  <2>2. Op \in Keepers
    BY <1>1, <1>6, ModeTable DEF Op, Keeping
  <2>3. reads' = reads
    BY <1>1, <2>1, ReadsGrow
  <2>4. step = 4 /\ current = "indYRead" => PageCrossed(tmpBase, tmpAddr)
    <3>1. step = 4 /\ current = "indYRead" => Op = "ReadOrFix"
      BY ModeTable DEF Op
    <3> QED BY <3>1 DEF Onward, Skipped
  <2>5. tmpAddr' = tmpAddr /\ tmpBase' = tmpBase
    BY <2>2, KeepersKeep
  <2> QED BY <1>2, <1>6, <2>1, <2>3, <2>4, <2>5
<1> QED BY <1>1, <1>3, <1>4, <1>5, <1>6

LEMMA TakenStep ==
  ASSUME TimingInv, TickOp, TypeOK', Onward
  PROVE  TakenInv'
<1>1. /\ step \in 1 .. 6 /\ step <= Len(Steps[current]) /\ Accesses /\ current # "none"
      /\ RecInv /\ TakenInv /\ Touches
  BY TickAccesses, TickTouches DEF Onward, TickOp, TimingInv
<1>2. cond' = cond /\ (Op # "ReadBits" => tmpBase' = tmpBase \/ Op \in BaseSets)
  BY <1>1 DEF Touches, choices
<1>3. ASSUME current = "branch" PROVE cond' = TRUE
  <2>1. step = 1 => Op = "FetchOffset"
    BY <1>3 DEF Op, Steps
  <2>2. step = 1 => cond
    BY <2>1 DEF Onward, Skipped
  <2>3. cond \in BOOLEAN
    BY DEF TimingInv, TypeOK
  <2>4. step # 1 => cond = TRUE
    BY <1>1, <1>3 DEF TakenInv
  <2> QED BY <1>2, <2>2, <2>3, <2>4
<1>4. ASSUME current \in BitTests
      PROVE  /\ step = 1 => Len(reads') = 1
             /\ step = 2 => Len(reads') = 2 /\ tmpBase'[2] = reads'[2]
             /\ step >= 3 => Len(reads') >= 2 /\ (Bit(reads'[2]) <=> current = "BBS")
  <2>1. Steps[current] = <<"FetchZp", "ReadBits", "FetchBitOffset", "Branch", "Noop">>
    BY <1>4 DEF BitTests, Steps
  <2>2. CASE step = 1
    <3>1. Op = "FetchZp" /\ Len(reads) = 0
      BY <1>1, <2>1, <2>2 DEF Op, RecInv
    <3>2. bus'.op = "read"
      BY <1>1, <3>1 DEF Accesses
    <3>3. Len(reads') = 1
      BY <1>1, <3>1, <3>2, ReadsGrow
    <3> QED BY <2>2, <3>3
  <2>3. CASE step = 2
    <3>1. Op = "ReadBits" /\ Len(reads) = 1
      BY <1>1, <1>4, <2>1, <2>3 DEF Op, TakenInv
    <3>2. bus'.op = "read" /\ tmpBase' = ZeroPage(bus'.val)
      BY <1>1, <3>1 DEF Accesses, ReadsAt
    <3>3. Len(reads') = 2 /\ reads'[2] = bus'.val
      BY <1>1, <3>1, <3>2, ReadsGrow
    <3> QED BY <2>3, <3>2, <3>3 DEF ZeroPage
  <2>4. CASE step = 3
    <3>1. Op = "FetchBitOffset" /\ Len(reads) = 2 /\ tmpBase[2] = reads[2]
      BY <1>1, <1>4, <2>1, <2>4 DEF Op, TakenInv
    <3>2. Bit(tmpBase[2]) = (current = "BBS")
      BY <3>1 DEF Onward, Skipped
    <3>3. Len(reads') >= 2 /\ reads'[2] = reads[2]
      BY <1>1, <3>1, ReadsGrow
    <3>4. Bit(reads'[2]) <=> current = "BBS"
      BY <3>1, <3>2, <3>3 DEF Bit
    <3> QED BY <2>4, <3>3, <3>4
  <2>5. CASE step >= 4
    <3>1. Len(reads) >= 2 /\ (Bit(reads[2]) <=> current = "BBS")
      BY <1>1, <1>4, <2>5 DEF TakenInv
    <3>2. Len(reads') >= 2 /\ reads'[2] = reads[2]
      BY <1>1, <3>1, ReadsGrow
    <3> QED BY <2>5, <3>1, <3>2
  <2> QED BY <1>1, <2>2, <2>3, <2>4, <2>5
<1>5. current = "branch" => cond' = TRUE
  BY <1>3
<1>6. current' = current /\ step' = step + 1
  BY DEF Onward
<1>7. current' \in BitTests =>
        /\ step' = 2 => Len(reads') = 1
        /\ step' = 3 => Len(reads') = 2 /\ tmpBase'[2] = reads'[2]
        /\ step' >= 4 => Len(reads') >= 2 /\ (Bit(reads'[2]) <=> current' = "BBS")
  BY <1>1, <1>4, <1>6
<1> QED BY <1>5, <1>6, <1>7 DEF TakenInv

(* PC moves behind each operand byte as it is fetched. *)
LEMMA PCAdvances ==
  ASSUME TimingInv, TickOp, current \in Straight, Op # "Branch", ~Branched
  PROVE  PC' = AddIndex(start, 1 + Fetched(current, step + 1))
<1>1. /\ step \in 1 .. Len(Steps[current]) /\ Len(Steps[current]) \in 1 .. 6
      /\ PCInv /\ Touches /\ start \in Word
  BY TickTouches, NextOp DEF TickOp, TimingInv, RecInv
<1>2. Counts(current)
  BY CountTable
<1>3. Op \notin PCSets
  BY <1>1, <1>2 DEF Counts, Op
<1> DEFINE f == Fetched(current, step)
           g == Fetched(current, step + 1)
<1>4. PC = AddIndex(start, 1 + f)
  BY <1>1 DEF PCInv
<1>5. /\ f \in 0 .. 2
      /\ Op \in PCMoves => g = f + 1 /\ PC' = Inc(PC)
      /\ Op \notin PCMoves => g = f /\ PC' = PC
  BY <1>1, <1>2, <1>3 DEF Counts, Op, Touches
<1>6. g \in 0 .. 2
  <2>1. CASE step = Len(Steps[current])
    BY <1>2, <2>1 DEF Counts
  <2>2. CASE step # Len(Steps[current])
    <3>1. step + 1 \in 1 .. Len(Steps[current])
      BY <1>1, <2>2
    <3> QED BY <1>2, <3>1 DEF Counts
  <2> QED BY <2>1, <2>2
<1>7. /\ AddIndex(start, 1 + 0) = Inc(start) /\ AddIndex(start, 1 + 1) = Inc(Inc(start))
      /\ AddIndex(start, 1 + 2) = Inc(Inc(Inc(start)))
  BY <1>1, AddTwoThree DEF Inc
<1> HIDE DEF f, g
<1>8. CASE Op \notin PCMoves
  BY <1>4, <1>5, <1>8 DEF g
<1>9. CASE Op \in PCMoves
  <2>1. (f = 0 /\ g = 1) \/ (f = 1 /\ g = 2)
    <3>1. \A x, y \in 0 .. 2 : y = x + 1 => (x = 0 /\ y = 1) \/ (x = 1 /\ y = 2)
      OBVIOUS
    <3> QED BY <1>5, <1>6, <1>9, <3>1, Zenon
  <2> QED BY <1>4, <1>5, <1>7, <1>9, <2>1 DEF g
<1> QED BY <1>8, <1>9

(* PC has moved behind the operand bytes fetched so far, until a branch    *)
(* leaves the page.                                                        *)
LEMMA PCStep ==
  ASSUME TimingInv, TickOp, TypeOK', Onward
  PROVE  PCInv'
<1> SUFFICES ASSUME current \in Straight PROVE PCInv'
  BY DEF PCInv, Onward
<1>1. /\ step \in 1 .. Len(Steps[current]) /\ Accesses /\ current # "none"
      /\ RecInv /\ PCInv /\ Touches /\ start \in Word /\ PC \in Word /\ start' = start
  BY TickAccesses, TickTouches DEF Onward, TickOp, TimingInv, TypeOK, RecInv
<1>2. Counts(current)
  BY CountTable
<1>3. step' = step + 1 /\ current' = current
  BY DEF Onward
<1>4. CASE Op = "Branch"
  <2>1. /\ current \in Branches /\ step = IF current = "branch" THEN 2 ELSE 4
        /\ Fetched(current, step) = Bytes[current] - 1 /\ Bytes[current] \in 1 .. 3
    <3>1. current \in Branches /\ step = IF current = "branch" THEN 2 ELSE 4
      BY <1>1, <1>2, <1>4 DEF Counts, Op
    <3>2. Op \notin PCMoves
      BY <1>4 DEF PCMoves
    <3> QED BY <1>1, <1>2, <1>4, <3>1, <3>2 DEF Counts, Op
  <2>2. Branched' /\ ~Branched
    BY <1>3, <2>1 DEF Branched
  <2>3. PC = AddIndex(start, Bytes[current])
    <3>1. PC = AddIndex(start, 1 + Fetched(current, step))
      BY <1>1, <2>2 DEF PCInv
    <3>2. 1 + Fetched(current, step) = Bytes[current]
      BY <2>1
    <3> QED BY <3>1, <3>2
  <2>4. PageCrossed(PC, BranchTarget(PC, tmp8))
    BY <1>4 DEF Onward, Skipped
  <2>5. PC' = BranchTarget(PC, tmp8)
    BY <1>1, <1>4 DEF Accesses
  <2> QED BY <1>1, <1>3, <2>2, <2>3, <2>4, <2>5 DEF PCInv, PageCrossed
<1>5. CASE Op # "Branch"
  <2>1. ~Branched /\ ~Branched'
    <3>1. current = "branch" => Steps[current] = <<"FetchOffset", "Branch", "Noop">>
      BY DEF Steps
    <3>2. current \in BitTests =>
            Steps[current] = <<"FetchZp", "ReadBits", "FetchBitOffset", "Branch", "Noop">>
      BY DEF BitTests, Steps
    <3>3. current = "branch" => step # 2 /\ step # 3
      <4> SUFFICES ASSUME current = "branch" PROVE step # 2 /\ step # 3
        OBVIOUS
      <4>1. Steps[current][2] = "Branch" /\ Len(Steps[current]) = 3
        BY <3>1
      <4> QED BY <1>5, <4>1 DEF Op, Onward
    <3>4. current \in BitTests => step # 4 /\ step # 5
      <4> SUFFICES ASSUME current \in BitTests PROVE step # 4 /\ step # 5
        OBVIOUS
      <4>1. Steps[current][4] = "Branch" /\ Len(Steps[current]) = 5
        BY <3>2
      <4> QED BY <1>5, <4>1 DEF Op, Onward
    <3> QED BY <1>1, <1>3, <3>3, <3>4 DEF Branched, Branches, BitTests
  <2>2. PC' = AddIndex(start, 1 + Fetched(current, step + 1))
    BY <1>5, <2>1, PCAdvances
  <2> QED BY <1>1, <1>3, <2>1, <2>2 DEF PCInv
<1> QED BY <1>4, <1>5

(* A tick inside a sequence keeps the invariant. *)
LEMMA TimedOp == ASSUME TimingInv, TickOp PROVE TimingInv'
<1>1. TypeOK'
  BY TickOK DEF TimingInv, TickOp
<1>2. /\ current # "none" /\ Tick /\ TypeOK /\ RecInv
  BY DEF TimingInv, TickOp
<1>3. CASE current' = "none"
  <2>1. /\ current' \notin Straight /\ ~Branched' /\ current' \notin BitTests
        /\ current' # "branch" /\ current' \notin ZpModes /\ current' \notin ZpIdxModes
        /\ current' \notin AbsModes /\ current' \notin AbsIdxModes
        /\ current' \notin IndXModes /\ current' \notin IndYModes
    BY <1>3, NoneIsNoSequence DEF Straight, Instructions, Branched, Branches, BitTests,
       ZpModes,
         ZpIdxModes, AbsModes, AbsIdxModes, IndXModes, IndYModes
  <2> QED BY <1>1, <1>3, <2>1 DEF TimingInv, RecInv, PCInv, TakenInv, ModeInv, ZpInv,
            ZpIdxInv, AbsInv, AbsIdxInv, IndXInv, IndYInv
<1>4. CASE current' # "none"
  <2>1. Onward
    <3>1. /\ current' = current /\ step' = step + 1 /\ step < Len(Steps[current])
          /\ Skipped = 0 /\ step \in 1 .. Len(Steps[current])
          /\ Len(Steps[current]) \in 1 .. 6
      BY <1>2, <1>4, NextOp
    <3>2. \A k \in 1 .. 6 : \A s \in 1 .. k : s < k => s \in 1 .. 6 /\ s + 1 <= k
      OBVIOUS
    <3> QED BY <3>1, <3>2 DEF Onward
  <2>2. RecInv'
    <3>1. ticks' = ticks + 1 /\ start' = start /\ step' = step + 1 /\ step \in 1 .. 6
      BY <2>1 DEF TickOp, Onward
    <3>2. ticks = step /\ start \in Word
      BY <1>2 DEF RecInv
    <3>3. reads' \in Seq(Byte) /\ Len(reads') <= 3
      BY <1>1, <1>2, ReadsGrow
    <3> QED BY <3>1, <3>2, <3>3 DEF RecInv
  <2> QED BY <1>1, <2>1, <2>2, ZpStep, ZpIdxStep, AbsStep, AbsIdxStep, IndXStep, IndYStep,
            TakenStep, PCStep DEF TimingInv, ModeInv
<1> QED BY <1>3, <1>4

(* The opcode fetch and the recognition of an interrupt begin a record. *)
LEMMA TimedBegin == ASSUME TimingInv, TickBegin PROVE TimingInv'
<1>1. TypeOK'
  BY TickOK DEF TimingInv, TickBegin
<1>2. ticks' = 1 /\ reads' = << >> /\ start' = NextInstruction
      /\ TypeOK /\ current = "none"
  BY DEF TimingInv, TickBegin
<1>3. NextInstruction \in Word
  BY <1>2, IncBefore DEF NextInstruction, TypeOK
<1>4. current' # "none" => step' = 1
  BY <1>2 DEF TickBegin, Tick, BeginInstruction, BeginInterrupt, Begin, control
<1>5. current' \in Straight => PC' = Inc(NextInstruction)
  <2>1. ASSUME NEW o \in Opcodes, NEW i, NEW c, BeginInstruction(o, i, c),
               current' \in Straight
        PROVE  PC' = Inc(NextInstruction)
    <3>1. CASE prefetched = "none"
      BY <2>1, <3>1 DEF BeginInstruction, NextInstruction
    <3>2. CASE prefetched # "none"
      BY <1>2, <2>1, <3>2, IncBefore DEF BeginInstruction, NextInstruction, TypeOK
    <3> QED BY <3>1, <3>2
  <2>2. ASSUME NEW v, BeginInterrupt(v) PROVE current' \notin Straight
    BY <2>2 DEF BeginInterrupt, Begin, Serviced, Straight, Instructions, Interrupts
  <2> QED BY <1>2, <2>1, <2>2 DEF TickBegin, Tick
<1>6. RecInv'
  <2>1. << >> \in Seq(Byte) /\ Len(<< >>) = 0
    OBVIOUS
  <2> QED BY <1>2, <1>3, <1>4, <2>1 DEF RecInv
<1>7. PCInv'
  <2> SUFFICES ASSUME current' \in Straight PROVE PCInv'
    BY DEF PCInv
  <2>1. step' = 1 /\ Counts(current')
    BY <1>4, CountTable, NoneIsNoSequence DEF Straight, Instructions
  <2>2. ~Branched' /\ Fetched(current', step') = 0
    BY <2>1 DEF Branched, Counts
  <2> QED BY <1>2, <1>5, <2>2 DEF PCInv, Inc
<1>8. TakenInv' /\ ModeInv'
  BY <1>4 DEF TakenInv, ModeInv, ZpInv, ZpIdxInv, AbsInv, AbsIdxInv, IndXInv, IndYInv,
       ZpModes, ZpIdxModes, AbsModes, AbsIdxModes, IndXModes, IndYModes, BitTests
<1> QED BY <1>1, <1>6, <1>7, <1>8 DEF TimingInv

LEMMA TimedSequences == TSpec => []TimingInv
<1>1. TInit => TimingInv
  <2> SUFFICES ASSUME TInit PROVE TimingInv
    OBVIOUS
  <2>1. TypeOK /\ current = "none"
    BY InitOK DEF TInit, Init
  <2> QED BY <2>1, NoneIsNoSequence DEF TimingInv, RecInv, PCInv, TakenInv, ModeInv,
             ZpInv,
            ZpIdxInv, AbsInv, AbsIdxInv, IndXInv, IndYInv, Straight, Instructions, Branched,
            Branches, BitTests, ZpModes, ZpIdxModes, AbsModes, AbsIdxModes, IndXModes,
            IndYModes
<1>2. TimingInv /\ [TNext]_tvars => TimingInv'
  <2> SUFFICES ASSUME TimingInv, [TNext]_tvars PROVE TimingInv'
    OBVIOUS
  <2>1. CASE TickBegin
    BY <2>1, TimedBegin
  <2>2. CASE TickOp
    BY <2>2, TimedOp
  <2>3. CASE TRequest
    <3>1. /\ UNCHANGED <<PC, SP, flagI, choices, control, temps, prefetched, modes, bus>>
          /\ UNCHANGED record /\ pendingIRQ' \in BOOLEAN /\ pendingNMI' \in BOOLEAN
      BY <2>3 DEF TRequest, RequestIRQ, RequestNMI, TimingInv, TypeOK
    <3>2. TypeOK'
      BY <3>1 DEF TimingInv, TypeOK, choices, control, temps, modes
    <3> QED BY <3>1, <3>2 DEF TimingInv, RecInv, PCInv, TakenInv, ModeInv, ZpInv,
               ZpIdxInv,
              AbsInv, AbsIdxInv, IndXInv, IndYInv, Branched, choices, control, temps, modes,
              record
  <2>4. CASE TReset
    <3>1. TypeOK' /\ current' = "none"
      BY <2>4, StepOK DEF TReset, Reset, TimingInv, Next
    <3> QED BY <3>1, NoneIsNoSequence DEF TimingInv, RecInv, PCInv, TakenInv, ModeInv,
               ZpInv,
              ZpIdxInv, AbsInv, AbsIdxInv, IndXInv, IndYInv, Straight, Instructions, Branched,
              Branches, BitTests, ZpModes, ZpIdxModes, AbsModes, AbsIdxModes, IndXModes,
              IndYModes
  <2>5. CASE UNCHANGED tvars
    BY <2>5 DEF tvars, vars, record, TimingInv, TypeOK, RecInv, PCInv, TakenInv,
       ModeInv, ZpInv,
         ZpIdxInv, AbsInv, AbsIdxInv, IndXInv, IndYInv, Branched, choices, control, temps,
         pending, modes
  <2> QED BY <2>1, <2>2, <2>3, <2>4, <2>5 DEF TNext
<1> QED BY <1>1, <1>2, PTL DEF TSpec

-----------------------------------------------------------------------------
LEMMA CyclesOf ==
  /\ Cycles["implied"] = 2 /\ Cycles["CLI"] = 2 /\ Cycles["SEI"] = 2
  /\ Cycles["TXS"] = 2 /\ Cycles["immRead"] = 2 /\ Cycles["zpRead"] = 3
  /\ Cycles["zpIdxRead"] = 4 /\ Cycles["absRead"] = 4 /\ Cycles["absIdxRead"] = 4
  /\ Cycles["indXRead"] = 6 /\ Cycles["indYRead"] = 5 /\ Cycles["zpWrite"] = 3
  /\ Cycles["zpIdxWrite"] = 4 /\ Cycles["absWrite"] = 4 /\ Cycles["absIdxWrite"] = 5
  /\ Cycles["indXWrite"] = 6 /\ Cycles["indYWrite"] = 6 /\ Cycles["zpModify"] = 5
  /\ Cycles["zpXModify"] = 6 /\ Cycles["absModify"] = 6 /\ Cycles["absXModify"] = 7
  /\ Cycles["branch"] = 2 /\ Cycles["BBR"] = 5 /\ Cycles["BBS"] = 5
  /\ Cycles["JMPabs"] = 3 /\ Cycles["JMPind"] = 5 /\ Cycles["JSR"] = 6
  /\ Cycles["PHA"] = 3 /\ Cycles["PHP"] = 3 /\ Cycles["PLA"] = 4
  /\ Cycles["PLP"] = 4 /\ Cycles["RTI"] = 6 /\ Cycles["RTS"] = 6
  /\ Cycles["BRK"] = 7
  BY DEF Cycles, Instructions, Sequences6502, Interrupts, Steps

FixedReads == {"absIdxRead", "indYRead"}

(* The cycles declared are the opcode fetch and the operations, without    *)
(* the one an indexed read may need; only such reads and branches skip.    *)
Lasts(m) ==
  /\ m = "branch" => Len(Steps[m]) = 3 /\ Cycles[m] = 2
  /\ m \in BitTests => Len(Steps[m]) = 5 /\ Cycles[m] = 5
  /\ m \notin Branches =>
       Cycles[m] = (Len(Steps[m]) + 1) - (IF m \in FixedReads THEN 1 ELSE 0)
  /\ \A s \in 1 .. Len(Steps[m]) :
       /\ Steps[m][s] = "ReadOrFix" => m \in FixedReads
       /\ Steps[m][s] \in {"FetchOffset", "FetchBitOffset", "Branch"} => m \in Branches

LEMMA LastsTable == \A m \in Instructions : Lasts(m)
<1>1. Lasts("implied") /\ Lasts("CLI")
  BY CyclesOf DEF Lasts, Steps, FixedReads, Branches, BitTests
<1>2. Lasts("SEI") /\ Lasts("TXS")
  BY CyclesOf DEF Lasts, Steps, FixedReads, Branches, BitTests
<1>3. Lasts("immRead") /\ Lasts("zpRead")
  BY CyclesOf DEF Lasts, Steps, FixedReads, Branches, BitTests
<1>4. Lasts("zpIdxRead") /\ Lasts("absRead")
  BY CyclesOf DEF Lasts, Steps, FixedReads, Branches, BitTests
<1>5. Lasts("absIdxRead") /\ Lasts("indXRead")
  BY CyclesOf DEF Lasts, Steps, FixedReads, Branches, BitTests
<1>6. Lasts("indYRead") /\ Lasts("zpWrite")
  BY CyclesOf DEF Lasts, Steps, FixedReads, Branches, BitTests
<1>7. Lasts("zpIdxWrite") /\ Lasts("absWrite")
  BY CyclesOf DEF Lasts, Steps, FixedReads, Branches, BitTests
<1>8. Lasts("absIdxWrite") /\ Lasts("indXWrite")
  BY CyclesOf DEF Lasts, Steps, FixedReads, Branches, BitTests
<1>9. Lasts("indYWrite") /\ Lasts("zpModify")
  BY CyclesOf DEF Lasts, Steps, FixedReads, Branches, BitTests
<1>10. Lasts("zpXModify") /\ Lasts("absModify")
  BY CyclesOf DEF Lasts, Steps, FixedReads, Branches, BitTests
<1>11. Lasts("absXModify") /\ Lasts("branch")
  BY CyclesOf DEF Lasts, Steps, FixedReads, Branches, BitTests
<1>12. Lasts("BBR") /\ Lasts("BBS")
  BY CyclesOf DEF Lasts, Steps, FixedReads, Branches, BitTests
<1>13. Lasts("JMPabs") /\ Lasts("JMPind")
  BY CyclesOf DEF Lasts, Steps, FixedReads, Branches, BitTests
<1>14. Lasts("JSR") /\ Lasts("PHA")
  BY CyclesOf DEF Lasts, Steps, FixedReads, Branches, BitTests
<1>15. Lasts("PHP") /\ Lasts("PLA")
  BY CyclesOf DEF Lasts, Steps, FixedReads, Branches, BitTests
<1>16. Lasts("PLP") /\ Lasts("RTI")
  BY CyclesOf DEF Lasts, Steps, FixedReads, Branches, BitTests
<1>17. Lasts("RTS") /\ Lasts("BRK")
  BY CyclesOf DEF Lasts, Steps, FixedReads, Branches, BitTests
<1> HIDE DEF Lasts
<1>18. Instructions =
        {"implied", "CLI", "SEI", "TXS", "immRead", "zpRead", "zpIdxRead",
         "absRead", "absIdxRead", "indXRead", "indYRead", "zpWrite",
         "zpIdxWrite", "absWrite", "absIdxWrite", "indXWrite",
         "indYWrite", "zpModify", "zpXModify", "absModify", "absXModify",
         "branch", "BBR", "BBS", "JMPabs", "JMPind", "JSR", "PHA", "PHP",
         "PLA", "PLP", "RTI", "RTS", "BRK"}
  BY DEF Instructions, Sequences6502, Interrupts, Steps
<1> QED BY <1>1, <1>2, <1>3, <1>4, <1>5, <1>6, <1>7, <1>8, <1>9, <1>10, <1>11, <1>12,
           <1>13, <1>14, <1>15, <1>16, <1>17, <1>18

(* How a branch ends: not taken; taken in the page of the next             *)
(* instruction; or taken out of it, with one more operation.               *)
LEMMA BranchEnds ==
  ASSUME TimingInv, TickOp, TypeOK', current \in Branches, current' = "none"
  PROVE  LET next == AddIndex(start, Bytes[current]) IN
         \/ ~Taken /\ Skipped = 2 /\ PC' = next
         \/ Taken /\ Skipped = 1 /\ PC'[1] = next[1]
         \/ Taken /\ Skipped = 0 /\ PC'[1] # next[1]
<1> DEFINE next == AddIndex(start, Bytes[current])
<1>1. /\ step \in 1 .. Len(Steps[current]) /\ Len(Steps[current]) \in 1 .. 6
      /\ step + Skipped = Len(Steps[current]) /\ Skipped \in 0 .. 2
      /\ Touches /\ Accesses /\ PCInv /\ TakenInv /\ RecInv /\ cond \in BOOLEAN
  BY NextOp, TickTouches, TickAccesses, NoneIsNoSequence
     DEF TickOp, TimingInv, TypeOK
<1>2. current \in Straight /\ Counts(current)
  BY CountTable DEF Branches, BitTests, Straight, Instructions, Sequences6502, Interrupts,
       Transfers, Steps
<1>3. /\ current = "branch" => Steps[current] = <<"FetchOffset", "Branch", "Noop">>
      /\ current \in BitTests =>
           Steps[current] = <<"FetchZp", "ReadBits", "FetchBitOffset", "Branch", "Noop">>
  BY DEF BitTests, Steps
<1> DEFINE k == IF current = "branch" THEN 1 ELSE 3
<1>4. /\ Len(Steps[current]) = k + 2 /\ k \in {1, 3}
      /\ Steps[current][k] = IF k = 1 THEN "FetchOffset" ELSE "FetchBitOffset"
      /\ Steps[current][k + 1] = "Branch" /\ Steps[current][k + 2] = "Noop"
  <2>1. CASE current = "branch"
    BY <1>3, <2>1
  <2>2. CASE current \in BitTests
    <3>1. k = 3
      BY <2>2 DEF BitTests
    <3>2. /\ Len(Steps[current]) = 5 /\ Steps[current][3] = "FetchBitOffset"
          /\ Steps[current][4] = "Branch" /\ Steps[current][5] = "Noop"
      BY <1>3, <2>2
    <3> HIDE DEF k
    <3> QED BY <3>1, <3>2
  <2> QED BY <2>1, <2>2 DEF Branches
<1>5. step = k \/ step = k + 1 \/ step = k + 2
  BY <1>1, <1>4
<1>6. current = "branch" \/ current \in BitTests
  BY DEF Branches
<1>7. CASE step = k
  <2>1. Skipped = 2 /\ Op = IF k = 1 THEN "FetchOffset" ELSE "FetchBitOffset"
    BY <1>1, <1>4, <1>7 DEF Op
  <2>2. ~Branched
    BY <1>7 DEF Branched
  <2>3. PC' = AddIndex(start, 1 + Fetched(current, step + 1))
    BY <1>2, <2>1, <2>2, PCAdvances
  <2>4. Fetched(current, step + 1) = Bytes[current] - 1 /\ Bytes[current] \in 1 .. 3
    BY <1>1, <1>2, <2>1 DEF Counts, Op
  <2>5. PC' = next
    BY <2>3, <2>4
  <2>6. ~Taken
    <3>1. CASE current = "branch"
      BY <2>1, <3>1 DEF Skipped, Taken
    <3>2. CASE current \in BitTests
      <4>1. k = 3 /\ step = 3 /\ current # "branch"
        BY <1>7, <3>2 DEF BitTests
      <4>2. tmpBase[2] = reads[2]
        BY <1>1, <3>2, <4>1 DEF TakenInv
      <4> QED BY <2>1, <4>1, <4>2 DEF Skipped, Taken
    <3> QED BY <1>6, <3>1, <3>2
  <2> QED BY <2>1, <2>5, <2>6
<1>8. ASSUME step # k PROVE Taken
  <2>1. CASE current = "branch"
    BY <1>1, <1>5, <1>8, <2>1 DEF TakenInv, Taken
  <2>2. CASE current \in BitTests
    <3>1. step >= 4 /\ current # "branch"
      BY <1>5, <1>8, <2>2 DEF BitTests
    <3>2. Bit(reads[2]) <=> current = "BBS"
      BY <1>1, <2>2, <3>1 DEF TakenInv
    <3> QED BY <3>1, <3>2 DEF Taken, Bit
  <2> QED BY <1>6, <2>1, <2>2
<1>9. CASE step = k + 1
  <2>1. Skipped = 1 /\ Op = "Branch"
    BY <1>1, <1>4, <1>9 DEF Op
  <2>2. ~PageCrossed(PC, BranchTarget(PC, tmp8))
    BY <2>1 DEF Skipped
  <2>3. PC' = BranchTarget(PC, tmp8)
    BY <1>1, <2>1 DEF Accesses
  <2>4. PC = next
    <3>1. ~Branched
      BY <1>9 DEF Branched
    <3>2. PC = AddIndex(start, 1 + Fetched(current, step))
      BY <1>1, <1>2, <3>1 DEF PCInv
    <3>3. Fetched(current, step) = Bytes[current] - 1 /\ Bytes[current] \in 1 .. 3
      <4>1. Op \notin PCMoves
        BY <2>1 DEF PCMoves
      <4> QED BY <1>1, <1>2, <2>1, <4>1 DEF Counts, Op
    <3> QED BY <3>2, <3>3
  <2> QED BY <1>4, <1>8, <1>9, <2>1, <2>2, <2>3, <2>4 DEF PageCrossed
<1>10. CASE step = k + 2
  <2>1. Skipped = 0 /\ Op = "Noop"
    BY <1>1, <1>4, <1>10 DEF Op
  <2>2. Branched
    BY <1>10 DEF Branched
  <2>3. PC' = PC
    BY <1>1, <2>1 DEF Touches, PCMoves, PCSets
  <2> QED BY <1>1, <1>2, <1>4, <1>8, <1>10, <2>1, <2>2, <2>3 DEF PCInv
<1> QED BY <1>5, <1>7, <1>9, <1>10

(* lang.go:826-1169 against cpu6502.go:124-180: every instruction takes    *)
(* the cycles its table entry declares, and a cycle more where its indexed *)
(* read crosses a page, where its branch is taken and where the branch     *)
(* leaves the page, whatever its registers and operands are.               *)
THEOREM InstructionsKeepTime == TSpec => InstructionTiming
<1>1. ASSUME TimingInv, TypeOK', Finishes
      PROVE  ticks' = Cycles[current] + ExtraCycles
  <2>1. /\ step \in 1 .. Len(Steps[current]) /\ Len(Steps[current]) \in 1 .. 6
        /\ step + Skipped = Len(Steps[current]) /\ Skipped \in 0 .. 2
        /\ current \in Instructions /\ current' = "none" /\ TickOp
        /\ ticks' = step + 1
    BY <1>1, NextOp DEF Finishes, TickOp, TimingInv, RecInv
  <2>2. Lasts(current)
    BY <2>1, LastsTable
  <2> DEFINE k == Len(Steps[current])
  <2>3. CASE current \in Branches
    <3> DEFINE next == AddIndex(start, Bytes[current])
    <3>1. FallThrough \div B = next[1]
      <4>1. current \in Straight /\ Counts(current)
        BY <2>3, CountTable DEF Branches, BitTests, Straight, Instructions, Sequences6502,
             Interrupts, Transfers, Steps
      <4>2. start \in Word /\ Bytes[current] \in Byte /\ next \in Word
        <5>1. Bytes[current] \in 1 .. 3 /\ start \in Word
          BY <1>1, <2>1, <4>1, NoneIsNoSequence
             DEF Counts, TimingInv, RecInv, Instructions
        <5>2. Bytes[current] \in Byte
          BY <5>1, HalfAssumption DEF Byte, B
        <5> QED BY <5>1, <5>2, AddIndexClosed
      <4>3. FallThrough = Flat(next)
        BY <4>2, FlatAdd DEF FallThrough
      <4> QED BY <4>2, <4>3, FlatFacts
    <3>2. ExtraCycles =
            (IF current \in BitTests THEN -1 ELSE 0) +
            (IF ~Taken THEN 0 ELSE IF PC'[1] = next[1] THEN 1 ELSE 2)
      BY <2>3, <3>1 DEF ExtraCycles, Branches, BitTests
    <3>3. \/ ~Taken /\ Skipped = 2
          \/ Taken /\ Skipped = 1 /\ PC'[1] = next[1]
          \/ Taken /\ Skipped = 0 /\ PC'[1] # next[1]
      BY <1>1, <2>1, <2>3, BranchEnds
    <3> DEFINE extra == IF ~Taken THEN 0 ELSE IF PC'[1] = next[1] THEN 1 ELSE 2
    <3>4. extra = 2 - Skipped
      BY <3>3
    <3>5. /\ current = "branch" => current \notin BitTests /\ k = 3 /\ Cycles[current] = 2
          /\ current \in BitTests => k = 5 /\ Cycles[current] = 5
          /\ current = "branch" \/ current \in BitTests
      BY <2>2, <2>3 DEF Lasts, Branches, BitTests
    <3>6. ExtraCycles = (IF current \in BitTests THEN -1 ELSE 0) + extra
      BY <3>2
    <3> HIDE DEF next, extra, k
    <3>7. step + Skipped = k
      BY <2>1 DEF k
    <3> QED BY <2>1, <3>4, <3>5, <3>6, <3>7
  <2>4. CASE current \in FixedReads
    <3>1. Skipped = IF Op = "ReadOrFix" /\ ~PageCrossed(tmpBase, tmpAddr) THEN 1 ELSE 0
      BY <2>1, <2>2, <2>4 DEF Lasts, Op, Skipped, FixedReads, Branches, BitTests
    <3>2. Cycles[current] = k /\ k \in 1 .. 6
      BY <2>1, <2>2, <2>4 DEF Lasts, FixedReads, Branches, BitTests
    <3>3. ExtraCycles = IF BaseLow + index >= B THEN 1 ELSE 0
      BY <2>4 DEF ExtraCycles, FixedReads, Branches, BitTests
    <3>4. /\ k = IF current = "absIdxRead" THEN 4 ELSE 5
          /\ Op = "ReadOrFix" <=> step = k - 1
      <4>1. CASE current = "absIdxRead"
        <5>1. Steps[current] = <<"FetchTmp", "FetchHiIndexed", "ReadOrFix", "ReadDo">>
          BY <4>1 DEF Steps
        <5> QED BY <2>1, <4>1, <5>1 DEF Op
      <4>2. CASE current = "indYRead"
        <5>1. Steps[current] =
                <<"FetchZp", "ReadTmp", "ReadPtrHiIndexed", "ReadOrFix", "ReadDo">>
          BY <4>2 DEF Steps
        <5> QED BY <2>1, <4>2, <5>1 DEF Op
      <4> QED BY <2>4, <4>1, <4>2 DEF FixedReads
    <3>5. step = k - 1 \/ step = k
      BY <2>1, <3>1
    <3>6. /\ tmpAddr = AddIndex(tmpBase, index) /\ tmpBase[2] = BaseLow
          /\ step = k => PageCrossed(tmpBase, tmpAddr)
      BY <1>1, <2>4, <3>4, <3>5
         DEF TimingInv, ModeInv, AbsIdxInv, IndYInv, FixedReads, AbsIdxModes, IndYModes,
             BaseLow
    <3>7. PageCrossed(tmpBase, tmpAddr) <=> BaseLow + index >= B
      BY <1>1, <3>6, Carries DEF TimingInv, TypeOK
    <3>8. CASE PageCrossed(tmpBase, tmpAddr)
      BY <2>1, <3>1, <3>2, <3>3, <3>7, <3>8
    <3>9. CASE ~PageCrossed(tmpBase, tmpAddr)
      BY <2>1, <3>1, <3>2, <3>3, <3>4, <3>5, <3>6, <3>7, <3>9
    <3> QED BY <3>8, <3>9
  <2>5. CASE current \notin Branches /\ current \notin FixedReads
    <3>1. Skipped = 0
      BY <2>1, <2>2, <2>5 DEF Lasts, Op, Skipped
    <3>2. ExtraCycles = 0
      BY <2>5 DEF ExtraCycles, FixedReads
    <3>3. Cycles[current] = k + 1
      BY <2>1, <2>2, <2>5 DEF Lasts
    <3> QED BY <2>1, <3>1, <3>2, <3>3
  <2> QED BY <2>3, <2>4, <2>5
<1>2. TimingInv /\ TimingInv' /\ [TNext]_tvars =>
        [Finishes => ticks' = Cycles[current] + ExtraCycles]_tvars
  BY <1>1 DEF TimingInv
<1> QED BY <1>2, TimedSequences, PTL DEF TSpec, InstructionTiming

(* lang.go:826-1169: an instruction that transfers no control leaves PC    *)
(* behind the bytes its table entry declares, from every address.          *)
THEOREM InstructionsKeepLength == TSpec => InstructionLength
<1>1. ASSUME TimingInv, TypeOK', Finishes, current \notin Transfers,
             ~(current \in Branches /\ Taken)
      PROVE  Flat(PC') = FallThrough
  <2>1. /\ step \in 1 .. Len(Steps[current])
        /\ step + Skipped = Len(Steps[current]) /\ Skipped \in 0 .. 2
        /\ current \in Straight /\ current' = "none" /\ TickOp /\ start \in Word
    BY <1>1, NextOp DEF Finishes, TickOp, TimingInv, RecInv, Straight
  <2>2. Counts(current) /\ Lasts(current)
    BY <2>1, CountTable, LastsTable DEF Straight
  <2>3. Bytes[current] \in 1 .. 3 /\ Bytes[current] \in Byte
    <3>1. Bytes[current] \in 1 .. 3
      BY <2>2 DEF Counts
    <3> QED BY <3>1, HalfAssumption DEF Byte, B
  <2>4. PC' = AddIndex(start, Bytes[current])
    <3>1. CASE current \in Branches
      BY <1>1, <2>1, <3>1, BranchEnds
    <3>2. CASE current \notin Branches
      <4>1. Op # "Branch" /\ ~Branched
        BY <2>1, <2>2, <3>2 DEF Counts, Op, Branched
      <4>2. PC' = AddIndex(start, 1 + Fetched(current, step + 1))
        BY <1>1, <2>1, <4>1, PCAdvances
      <4>3. Fetched(current, step + 1) = Bytes[current] - 1
        <5>1. CASE Skipped = 0
          BY <2>1, <2>2, <5>1 DEF Counts
        <5>2. CASE Skipped # 0
          <6>1. Op \in {"ReadOrFix", "FetchOffset", "FetchBitOffset", "Branch"}
            BY <5>2 DEF Skipped
          <6> QED BY <2>1, <2>2, <6>1 DEF Counts, Op
        <5> QED BY <5>1, <5>2
      <4> QED BY <2>3, <4>2, <4>3
    <3> QED BY <3>1, <3>2
  <2> QED BY <2>1, <2>3, <2>4, FlatAdd DEF FallThrough
<1>2. TimingInv /\ TimingInv' /\ [TNext]_tvars =>
        [Finishes /\ current \notin Transfers /\ ~(current \in Branches /\ Taken)
           => Flat(PC') = FallThrough]_tvars
  BY <1>1 DEF TimingInv
<1> QED BY <1>2, TimedSequences, PTL DEF TSpec, InstructionLength

-----------------------------------------------------------------------------
(* Operations that form an effective address. *)
Formers ==
  {"FetchTmp", "FetchZp", "FetchHi", "FetchHiIndexed", "IndexZp", "ReadPtrHi",
   "ReadPtrHiIndexed"}

(* The first operation of mode m that finds its effective address formed. *)
Formed(m) ==
  CASE m \in ZpModes   -> 2
    [] m \in IndXModes -> 5
    [] m \in IndYModes -> 4
    [] OTHER           -> 3

(* Writes, the last access and the read that may be the last come behind   *)
(* the operations that form the address.                                   *)
Targets(m) ==
  \A s \in 1 .. Len(Steps[m]) :
    /\ Steps[m][s] \in Formers \cup Keepers
    /\ s = Len(Steps[m]) => Steps[m][s] \in {"ReadDo", "WriteDo", "WriteModified"}
    /\ s = Len(Steps[m])
       \/ Steps[m][s] \in {"WriteDo", "WriteTmp", "WriteModified", "ReadOrFix"}
         => s >= Formed(m)

LEMMA TargetTable == \A m \in DataModes : Targets(m)
<1>1. Targets("zpRead") /\ Targets("zpWrite")
  BY DEF Targets, Formed, Formers, Keepers, Steps, ZpModes, IndXModes,
       IndYModes
<1>2. Targets("zpModify") /\ Targets("zpIdxRead")
  BY DEF Targets, Formed, Formers, Keepers, Steps, ZpModes, IndXModes,
       IndYModes
<1>3. Targets("zpIdxWrite") /\ Targets("zpXModify")
  BY DEF Targets, Formed, Formers, Keepers, Steps, ZpModes, IndXModes,
       IndYModes
<1>4. Targets("absRead") /\ Targets("absWrite")
  BY DEF Targets, Formed, Formers, Keepers, Steps, ZpModes, IndXModes,
       IndYModes
<1>5. Targets("absModify") /\ Targets("absIdxRead")
  BY DEF Targets, Formed, Formers, Keepers, Steps, ZpModes, IndXModes,
       IndYModes
<1>6. Targets("absIdxWrite") /\ Targets("absXModify")
  BY DEF Targets, Formed, Formers, Keepers, Steps, ZpModes, IndXModes,
       IndYModes
<1>7. Targets("indXRead") /\ Targets("indXWrite")
  BY DEF Targets, Formed, Formers, Keepers, Steps, ZpModes, IndXModes,
       IndYModes
<1>8. Targets("indYRead") /\ Targets("indYWrite")
  BY DEF Targets, Formed, Formers, Keepers, Steps, ZpModes, IndXModes,
       IndYModes
<1> HIDE DEF Targets
<1>9. DataModes =
        {"zpRead", "zpWrite", "zpModify", "zpIdxRead", "zpIdxWrite",
         "zpXModify", "absRead", "absWrite", "absModify", "absIdxRead",
         "absIdxWrite", "absXModify", "indXRead", "indXWrite", "indYRead",
         "indYWrite"}
  BY DEF DataModes, Modifies
<1> QED BY <1>1, <1>2, <1>3, <1>4, <1>5, <1>6, <1>7, <1>8, <1>9

(* Once it is formed, tmpAddr is the effective address. *)
LEMMA TmpAddrIsEffective ==
  ASSUME TimingInv, current \in DataModes, step >= Formed(current)
  PROVE  Flat(tmpAddr) = EffectiveAddress
<1>1. /\ step \in 1 .. 6 /\ ModeInv /\ index \in Byte /\ reads \in Seq(Byte)
      /\ current # "none"
  BY NoneIsNoSequence DEF TimingInv, TypeOK, RecInv, DataModes, Modifies
<1>2. \A i \in 1 .. Len(reads) : reads[i] \in Byte
  BY <1>1
<1>3. Len(reads) \in Nat
  BY <1>1, LenProperties
<1>4. ASSUME NEW h \in Byte, NEW l \in Byte
      PROVE  /\ Flat(<<h, l>>) = Little(l, h)
             /\ Flat(AddIndex(<<h, l>>, index)) = (Little(l, h) + index) % (B * B)
  BY <1>1, FlatPairs, FlatAdd, WordOfBytes
<1>5. ASSUME NEW b \in Byte
      PROVE  /\ Flat(<<0, b>>) = b
             /\ Flat(<<0, Wrap(b + index)>>) = (b + index) % B
  BY <1>1, FlatPairs, WrapIsMod, WrapClosed DEF ZeroPage
<1> USE DEF EffectiveAddress
<1>6. CASE current \in ZpModes
  <2>1. step >= 2
    BY <1>6 DEF Formed, ZpModes, IndXModes, IndYModes
  <2>2. Len(reads) >= 1 /\ tmpAddr = <<0, reads[1]>>
    BY <1>1, <1>6, <2>1 DEF ModeInv, ZpInv
  <2>3. reads[1] \in Byte
    BY <1>2, <1>3, <2>2
  <2>4. EffectiveAddress = reads[1]
    BY <1>6 DEF ZpModes
  <2> QED BY <1>5, <2>2, <2>3, <2>4
<1>7. CASE current \in ZpIdxModes
  <2>1. step >= 3
    BY <1>7 DEF Formed, ZpIdxModes, ZpModes, IndXModes, IndYModes
  <2>2. Len(reads) >= 1 /\ tmpAddr = <<0, Wrap(reads[1] + index)>>
    BY <1>1, <1>7, <2>1 DEF ModeInv, ZpIdxInv
  <2>3. reads[1] \in Byte
    BY <1>2, <1>3, <2>2
  <2>4. EffectiveAddress = (reads[1] + index) % B
    BY <1>7 DEF ZpIdxModes
  <2> HIDE DEF EffectiveAddress
  <2> QED BY <1>5, <2>2, <2>3, <2>4
<1>8. CASE current \in AbsModes
  <2>1. step >= 3
    BY <1>8 DEF Formed, AbsModes, ZpModes, IndXModes, IndYModes
  <2>2. Len(reads) >= 2 /\ tmpAddr = <<reads[2], reads[1]>>
    BY <1>1, <1>8, <2>1 DEF ModeInv, AbsInv
  <2>3. reads[1] \in Byte /\ reads[2] \in Byte
    BY <1>2, <1>3, <2>2
  <2>4. EffectiveAddress = Little(reads[1], reads[2])
    BY <1>8 DEF AbsModes, DataModes, Modifies
  <2> HIDE DEF EffectiveAddress
  <2> QED BY <1>4, <2>2, <2>3, <2>4
<1>9. CASE current \in AbsIdxModes
  <2>1. step >= 3
    BY <1>9 DEF Formed, AbsIdxModes, ZpModes, IndXModes, IndYModes
  <2>2. Len(reads) >= 2 /\ tmpAddr = AddIndex(<<reads[2], reads[1]>>, index)
    BY <1>1, <1>9, <2>1 DEF ModeInv, AbsIdxInv
  <2>3. reads[1] \in Byte /\ reads[2] \in Byte
    BY <1>2, <1>3, <2>2
  <2>4. EffectiveAddress = (Little(reads[1], reads[2]) + index) % (B * B)
    BY <1>9 DEF AbsIdxModes
  <2> HIDE DEF EffectiveAddress
  <2> QED BY <1>4, <2>2, <2>3, <2>4
<1>10. CASE current \in IndXModes
  <2>1. step = 5
    <3>1. step >= 5 /\ step <= Len(Steps[current]) /\ Len(Steps[current]) = 5
      BY <1>1, <1>10, ModeTable DEF Formed, IndXModes, ZpModes, TimingInv, TypeOK
    <3> QED BY <1>1, <3>1
  <2>2. Len(reads) = 3 /\ tmpAddr = <<reads[3], reads[2]>>
    BY <1>1, <1>10, <2>1 DEF ModeInv, IndXInv
  <2>3. reads[2] \in Byte /\ reads[3] \in Byte
    BY <1>2, <2>2
  <2>4. EffectiveAddress = Little(reads[2], reads[3])
    BY <1>10 DEF IndXModes
  <2> HIDE DEF EffectiveAddress
  <2> QED BY <1>4, <2>2, <2>3, <2>4
<1>11. CASE current \in IndYModes
  <2>1. step >= 4
    BY <1>11 DEF Formed, IndYModes, ZpModes, IndXModes
  <2>2. Len(reads) = 3 /\ tmpAddr = AddIndex(<<reads[3], reads[2]>>, index)
    BY <1>1, <1>11, <2>1 DEF ModeInv, IndYInv
  <2>3. reads[2] \in Byte /\ reads[3] \in Byte
    BY <1>2, <2>2
  <2>4. EffectiveAddress = (Little(reads[2], reads[3]) + index) % (B * B)
    BY <1>11 DEF IndYModes
  <2> HIDE DEF EffectiveAddress
  <2> QED BY <1>4, <2>2, <2>3, <2>4
<1> QED BY <1>6, <1>7, <1>8, <1>9, <1>10, <1>11
        DEF DataModes, Modifies, ZpModes, ZpIdxModes, AbsModes, AbsIdxModes, IndXModes,
            IndYModes

(* lang.go:35-679: the access that ends a read, write or modify            *)
(* instruction, and each write of a modify, is at the effective address    *)
(* that its mode denotes, wrapped in page 0 or in the address space.       *)
THEOREM AccessesAreEffective == TSpec => EffectiveAddressOK
<1>1. ASSUME TimingInv, TypeOK', TickOp, current \in DataModes,
             current' = "none" \/ bus'.op = "write"
      PROVE  Flat(bus'.addr) = EffectiveAddress
  <2>1. /\ step \in 1 .. Len(Steps[current]) /\ Len(Steps[current]) \in 1 .. 6
        /\ current' = "none" => step + Skipped = Len(Steps[current])
        /\ Skipped \in 0 .. 2 /\ Accesses /\ current \in Instructions /\ Targets(current)
    <3>1. current # "none" /\ Tick /\ TypeOK
      BY <1>1 DEF TickOp, TimingInv
    <3>2. current \in Instructions
      BY <1>1 DEF DataModes, Modifies, Instructions, Sequences6502, Interrupts, Steps
    <3> QED BY <1>1, <3>1, <3>2, NextOp, TickAccesses, TargetTable
  <2>2. Op \in Formers \cup Keepers
    BY <2>1 DEF Targets, Op
  <2>3. CASE current' = "none"
    <3>1. CASE Op = "ReadOrFix"
      <4>1. CASE Skipped = 0
        BY <2>1, <2>3, <3>1, <4>1 DEF Targets, Op
      <4>2. CASE Skipped # 0
        <5>1. ~PageCrossed(tmpBase, tmpAddr)
          BY <3>1, <4>2 DEF Skipped
        <5>2. bus'.addr = tmpAddr
          BY <2>1, <3>1, <5>1 DEF Accesses, ReadsAt
        <5>3. step >= Formed(current)
          BY <2>1, <3>1 DEF Targets, Op
        <5> QED BY <1>1, <5>2, <5>3, TmpAddrIsEffective
      <4> QED BY <4>1, <4>2
    <3>2. CASE Op # "ReadOrFix"
      <4>1. Skipped = 0
        BY <2>2, <3>2 DEF Skipped, Formers, Keepers
      <4>2. step = Len(Steps[current])
        BY <2>1, <2>3, <4>1
      <4>3. Op \in {"ReadDo", "WriteDo", "WriteModified"} /\ step >= Formed(current)
        BY <2>1, <4>2 DEF Targets, Op
      <4>4. bus'.addr = tmpAddr
        BY <2>1, <4>3 DEF Accesses, ReadsAt
      <4> QED BY <1>1, <4>3, <4>4, TmpAddrIsEffective
    <3> QED BY <3>1, <3>2
  <2>4. CASE bus'.op = "write"
    <3>1. Op \in {"WriteDo", "WriteTmp", "WriteModified"}
      BY <2>1, <2>2, <2>4 DEF Accesses, ReadsAt, Formers, Keepers
    <3>2. step >= Formed(current) /\ bus'.addr = tmpAddr
      BY <2>1, <3>1 DEF Targets, Op, Accesses
    <3> QED BY <1>1, <3>2, TmpAddrIsEffective
  <2> QED BY <1>1, <2>3, <2>4
<1>2. TimingInv /\ TimingInv' /\ [TNext]_tvars =>
        [TickOp /\ current \in DataModes /\ (current' = "none" \/ bus'.op = "write")
           => Flat(bus'.addr) = EffectiveAddress]_tvars
  BY <1>1 DEF TimingInv
<1> QED BY <1>2, TimedSequences, PTL DEF TSpec, EffectiveAddressOK

(* lang.go:236-327,469-541,954-988: a pointer's second byte is read behind *)
(* its first in the same page, also at the end of the page.                *)
THEOREM PointersWrap == TSpec => PointerWrapsInPage
<1>1. ASSUME TimingInv, TypeOK', TickOp, current \in IndirectModes, bus'.op = "read",
             Len(reads) - OperandBytes \in {0, 1}
      PROVE  Flat(bus'.addr) = PointerAddress(Len(reads) - OperandBytes)
  <2>1. /\ step \in 1 .. 6 /\ step <= Len(Steps[current]) /\ Accesses
        /\ ModeInv /\ RecInv /\ index \in Byte /\ current # "none"
        /\ \A i \in 1 .. Len(reads) : reads[i] \in Byte
    BY <1>1, TickAccesses, ReadsGrow DEF TickOp, TimingInv, TypeOK
  <2>2. CASE current \in IndXModes
    <3>1. OperandBytes = 1 /\ Len(Steps[current]) = 5
          /\ \A k \in {0, 1} : PointerAddress(k) = (reads[1] + index + k) % B
      BY <2>2, ModeTable DEF OperandBytes, IndXModes, PointerAddress
    <3>2. CASE step = 1
      BY <1>1, <2>1, <3>1, <3>2 DEF RecInv
    <3>3. CASE step = 2
      <4>1. Op = "IndexZp"
        BY <2>2, <3>3, ModeTable DEF Op
      <4> QED BY <1>1, <2>1, <4>1 DEF Accesses
    <3>4. CASE step = 3
      <4>1. Op = "ReadTmp" /\ Len(reads) = 1 /\ tmpAddr = <<0, Wrap(reads[1] + index)>>
        BY <2>1, <2>2, <3>4, ModeTable DEF Op, ModeInv, IndXInv
      <4>2. bus'.addr = tmpAddr /\ reads[1] \in Byte
        BY <2>1, <4>1 DEF Accesses, ReadsAt
      <4>3. Flat(tmpAddr) = Wrap(reads[1] + index)
        BY <2>1, <4>1, <4>2, WrapClosed, FlatPairs DEF ZeroPage
      <4> QED BY <2>1, <3>1, <4>1, <4>2, <4>3, WrapIsMod
    <3>5. CASE step = 4
      <4>1. /\ Op = "ReadPtrHi" /\ Len(reads) = 2
            /\ tmpAddr = <<0, Wrap(reads[1] + index)>>
        BY <2>1, <2>2, <3>5, ModeTable DEF Op, ModeInv, IndXInv
      <4>2. bus'.addr = ZeroPage(Wrap(Wrap(reads[1] + index) + 1)) /\ reads[1] \in Byte
        BY <2>1, <4>1 DEF Accesses, ReadsAt, PointerHi
      <4>3. Flat(bus'.addr) = Wrap(Wrap(reads[1] + index) + 1)
        BY <2>1, <4>2, WrapClosed, FlatPairs
      <4> QED BY <2>1, <3>1, <4>1, <4>2, <4>3, WrapIsMod
    <3>6. CASE step = 5
      <4>1. Len(reads) = 3
        BY <2>1, <2>2, <3>6 DEF ModeInv, IndXInv
      <4> QED BY <1>1, <3>1, <4>1
    <3> QED BY <2>1, <3>1, <3>2, <3>3, <3>4, <3>5, <3>6
  <2>3. CASE current \in IndYModes
    <3>1. OperandBytes = 1 /\ \A k \in {0, 1} : PointerAddress(k) = (reads[1] + k) % B
      BY <2>3 DEF OperandBytes, IndYModes, PointerAddress
    <3>2. CASE step = 1
      BY <1>1, <2>1, <3>1, <3>2 DEF RecInv
    <3>3. CASE step = 2
      <4>1. Op = "ReadTmp" /\ Len(reads) = 1 /\ tmpAddr = <<0, reads[1]>>
        BY <2>1, <2>3, <3>3, ModeTable DEF Op, ModeInv, IndYInv
      <4>2. bus'.addr = tmpAddr /\ reads[1] \in Byte
        BY <2>1, <4>1 DEF Accesses, ReadsAt
      <4>3. Flat(tmpAddr) = reads[1]
        BY <2>1, <4>1, <4>2, FlatPairs DEF ZeroPage
      <4> QED BY <2>1, <3>1, <4>1, <4>2, <4>3, WrapIsMod
    <3>4. CASE step = 3
      <4>1. Op = "ReadPtrHiIndexed" /\ Len(reads) = 2 /\ tmpAddr = <<0, reads[1]>>
        BY <2>1, <2>3, <3>4, ModeTable DEF Op, ModeInv, IndYInv
      <4>2. bus'.addr = ZeroPage(Wrap(reads[1] + 1)) /\ reads[1] \in Byte
        BY <2>1, <4>1 DEF Accesses, ReadsAt, PointerHi
      <4>3. Flat(bus'.addr) = Wrap(reads[1] + 1)
        BY <2>1, <4>2, WrapClosed, FlatPairs
      <4> QED BY <2>1, <3>1, <4>1, <4>2, <4>3, WrapIsMod
    <3>5. CASE step >= 4
      <4>1. Len(reads) = 3
        BY <2>1, <2>3, <3>5 DEF ModeInv, IndYInv
      <4> QED BY <1>1, <3>1, <4>1
    <3> QED BY <2>1, <3>2, <3>3, <3>4, <3>5
  <2>4. CASE current = "JMPind"
    <3>1. OperandBytes = 2
          /\ \A k \in {0, 1} : PointerAddress(k) = Little((reads[1] + k) % B, reads[2])
      BY <2>4 DEF OperandBytes, PointerAddress
    <3>2. Steps[current] = <<"FetchTmp", "FetchHi", "ReadTmp", "ReadPCH">>
      BY <2>4, ModeTable
    <3>3. step # 1 /\ step # 2
      BY <1>1, <2>1, <2>4, <3>1 DEF RecInv, ModeInv, AbsInv, AbsModes
    <3>4. CASE step = 3
      <4>1. Op = "ReadTmp" /\ Len(reads) = 2 /\ tmpAddr = <<reads[2], reads[1]>>
        BY <2>1, <2>4, <3>2, <3>4 DEF Op, ModeInv, AbsInv, AbsModes
      <4>2. bus'.addr = tmpAddr /\ reads[1] \in Byte /\ reads[2] \in Byte
        BY <2>1, <4>1 DEF Accesses, ReadsAt
      <4>3. Flat(tmpAddr) = Little(reads[1], reads[2]) /\ (reads[1] + 0) % B = reads[1]
        BY <2>1, <4>1, <4>2, FlatPairs, WrapIsMod
      <4> QED BY <3>1, <4>1, <4>2, <4>3
    <3>5. CASE step = 4
      <4>1. Op = "ReadPCH" /\ Len(reads) = 3 /\ tmpAddr = <<reads[2], reads[1]>>
        BY <2>1, <2>4, <3>2, <3>5 DEF Op, ModeInv, AbsInv, AbsModes
      <4>2. bus'.addr = <<reads[2], Wrap(reads[1] + 1)>> /\ reads[1] \in Byte
               /\ reads[2] \in Byte
        BY <2>1, <4>1 DEF Accesses, ReadsAt
      <4>3. Flat(bus'.addr) = Little(Wrap(reads[1] + 1), reads[2])
        BY <4>2, FlatPairs, WrapClosed
      <4> QED BY <2>1, <3>1, <4>1, <4>2, <4>3, WrapIsMod
    <3> QED BY <2>1, <3>2, <3>3, <3>4, <3>5
  <2> QED BY <1>1, <2>2, <2>3, <2>4 DEF IndirectModes, IndXModes, IndYModes
<1>2. TimingInv /\ TimingInv' /\ [TNext]_tvars =>
        [TickOp /\ current \in IndirectModes /\ bus'.op = "read"
            /\ Len(reads) - OperandBytes \in {0, 1}
           => Flat(bus'.addr) = PointerAddress(Len(reads) - OperandBytes)]_tvars
  BY <1>1 DEF TimingInv
<1> QED BY <1>2, TimedSequences, PTL DEF TSpec, PointerWrapsInPage

=============================================================================
