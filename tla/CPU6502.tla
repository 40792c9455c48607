------------------------------ MODULE CPU6502 -------------------------------
(***************************************************************************)
(* The cycle-sliced 6502 core (cpu/cpu6502.go, cpu/lang.go): each Tick is  *)
(* one bus cycle, the opcode fetch first and then one micro-operation of   *)
(* the current instruction.  RequestIRQ and RequestNMI are calls of other  *)
(* components between two ticks.                                           *)
(*                                                                         *)
(* Data are abstracted to what the control needs.  A byte is one of        *)
(* B = 2 * Half values (256 in the source) and a word a pair               *)
(* <<page, offset>>, so that the page arithmetic of the source is kept.    *)
(* Of the registers the model keeps PC, SP and the I flag; the index       *)
(* register an instruction uses and the flag a branch tests are chosen     *)
(* when its opcode is fetched, because no instruction changes them before  *)
(* it uses them.  The bus answers a read with any byte of BusBytes, and an *)
(* opcode fetch with any member of Opcodes; modules that compose the core  *)
(* with memory constrain the answers through the variable bus.             *)
(***************************************************************************)
EXTENDS Integers, Sequences

CONSTANTS
  Half,         \* half the number of byte values (128 in the source)
  BusBytes,     \* the bytes the bus can answer with
  StartPCs,     \* the addresses the reset vector, or SetPC after it, can give
  Opcodes       \* the instructions the program can contain, and "Illegal"

B    == 2 * Half
Byte == 0 .. B - 1
Word == Byte \X Byte

(* The micro-operations of each addressing mode and instruction, in order. *)
Steps ==
  [ implied    |-> <<"Noop">>,
    CLI        |-> <<"ClearI">>,
    SEI        |-> <<"SetI">>,
    TXS        |-> <<"SetSP">>,
    immRead    |-> <<"FetchPad">>,
    zpRead     |-> <<"FetchZp", "ReadDo">>,
    zpIdxRead  |-> <<"FetchTmp", "IndexZp", "ReadDo">>,
    absRead    |-> <<"FetchTmp", "FetchHi", "ReadDo">>,
    absIdxRead |-> <<"FetchTmp", "FetchHiIndexed", "ReadOrFix", "ReadDo">>,
    indXRead   |-> <<"FetchTmp", "IndexZp", "ReadTmp", "ReadPtrHi", "ReadDo">>,
    indYRead   |-> <<"FetchZp", "ReadTmp", "ReadPtrHiIndexed", "ReadOrFix", "ReadDo">>,
    zpWrite    |-> <<"FetchZp", "WriteDo">>,
    zpIdxWrite |-> <<"FetchTmp", "IndexZp", "WriteDo">>,
    absWrite   |-> <<"FetchTmp", "FetchHi", "WriteDo">>,
    absIdxWrite|-> <<"FetchTmp", "FetchHiIndexed", "ReadUnfixed", "WriteDo">>,
    indXWrite  |-> <<"FetchTmp", "IndexZp", "ReadTmp", "ReadPtrHi", "WriteDo">>,
    indYWrite  |-> <<"FetchZp", "ReadTmp", "ReadPtrHiIndexed", "ReadUnfixed", "WriteDo">>,
    zpModify   |-> <<"FetchZp", "ReadTmp", "WriteTmp", "WriteModified">>,
    zpXModify  |-> <<"FetchTmp", "IndexZp", "ReadTmp", "WriteTmp", "WriteModified">>,
    absModify  |-> <<"FetchTmp", "FetchHi", "ReadTmp", "WriteTmp", "WriteModified">>,
    absXModify |-> <<"FetchTmp", "FetchHiIndexed", "ReadUnfixed", "ReadTmp",
                     "WriteTmp", "WriteModified">>,
    branch     |-> <<"FetchOffset", "Branch", "Noop">>,
    BBR        |-> <<"FetchZp", "ReadBits", "FetchBitOffset", "Branch", "Noop">>,
    BBS        |-> <<"FetchZp", "ReadBits", "FetchBitOffset", "Branch", "Noop">>,
    JMPabs     |-> <<"FetchTmp", "FetchPCH">>,
    JMPind     |-> <<"FetchTmp", "FetchHi", "ReadTmp", "ReadPCH">>,
    JSR        |-> <<"FetchTmp", "ReadStack", "PushPCH", "PushPCL", "FetchPCH">>,
    PHA        |-> <<"ReadPC", "PushA">>,
    PHP        |-> <<"ReadPC", "PushP">>,
    PLA        |-> <<"ReadPC", "ReadStack", "PullA">>,
    PLP        |-> <<"ReadPC", "ReadStack", "PullP">>,
    RTI        |-> <<"ReadPC", "ReadStack", "PullP", "PullTmp", "PullPCH">>,
    RTS        |-> <<"ReadPC", "ReadStack", "PullTmp", "PullAddr", "Prefetch">>,
    BRK        |-> <<"FetchPad", "PushPCH", "PushPCL", "PushPSetI", "VectorLo", "VectorHi">>,
    IRQ        |-> <<"PushPCH", "PushPCL", "PushPSetI", "VectorLo", "VectorHi">>,
    NMI        |-> <<"PushPCH", "PushPCL", "PushPSetI", "VectorLo", "VectorHi">> ]

Sequences6502 == DOMAIN Steps
Interrupts    == {"IRQ", "NMI"}
Instructions  == Sequences6502 \ Interrupts

UsesIndex ==
  {"TXS", "zpIdxRead", "absIdxRead", "indXRead", "indYRead", "zpIdxWrite", "absIdxWrite",
   "indXWrite", "indYWrite", "zpXModify", "absXModify"}

(* The bytes and cycles that initLanguage registers for each of them. *)
Bytes ==
  [m \in Instructions |->
     CASE m \in {"absRead", "absIdxRead", "absWrite", "absIdxWrite", "absModify",
                 "absXModify", "BBR", "BBS", "JMPabs", "JMPind", "JSR"}        -> 3
       [] m \in {"implied", "CLI", "SEI", "TXS", "PHA", "PHP", "PLA", "PLP",
                 "RTI", "RTS", "BRK"}                                          -> 1
       [] OTHER                                                                -> 2]

Cycles ==
  [m \in Instructions |->
     CASE m \in {"implied", "CLI", "SEI", "TXS", "immRead", "branch"}          -> 2
       [] m \in {"zpRead", "zpWrite", "JMPabs", "PHA", "PHP"}                  -> 3
       [] m \in {"zpIdxRead", "zpIdxWrite", "absRead", "absWrite", "absIdxRead",
                 "PLA", "PLP"}                                                 -> 4
       [] m \in {"indYRead", "absIdxWrite", "zpModify", "BBR", "BBS", "JMPind"} -> 5
       [] m \in {"indXRead", "indXWrite", "indYWrite", "zpXModify", "absModify",
                 "JSR", "RTI", "RTS"}                                          -> 6
       [] m \in {"absXModify", "BRK"}                                          -> 7]

ASSUME HalfAssumption     == Half \in Nat /\ Half >= 3
ASSUME BusBytesAssumption == BusBytes \subseteq Byte
ASSUME StartPCsAssumption == StartPCs \subseteq Word
ASSUME OpcodesAssumption  == Opcodes \subseteq Instructions \cup {"Illegal"}

-----------------------------------------------------------------------------
(* Byte and word arithmetic, wrapping as byte and uint16 do. *)

Wrap(n) == CASE n < 0 -> n + B [] n >= B -> n - B [] OTHER -> n

(* A slip: the carry of an index stays out of the page. *)
AddIndexInPage(w, i) == <<w[1], Wrap(w[2] + i)>>

AddIndex(w, i) ==
  IF w[2] + i < B THEN <<w[1], w[2] + i>> ELSE <<Wrap(w[1] + 1), w[2] + i - B>>

Inc(w) == AddIndex(w, 1)

Before(w) == IF w[2] = 0 THEN <<Wrap(w[1] - 1), B - 1>> ELSE <<w[1], w[2] - 1>>

(* branch: the offset is signed. *)
BranchTarget(w, offset) ==
  CASE offset < Half                        -> AddIndex(w, offset)
    [] offset >= Half /\ w[2] + offset >= B -> <<w[1], w[2] + offset - B>>
    [] OTHER                                -> <<Wrap(w[1] - 1), w[2] + offset>>

PageCrossed(base, target) == base[1] # target[1]

(* The address before the carry reaches the page: the dummy read. *)
Unfixed(base, target) == <<base[1], target[2]>>

ZeroPage(b) == <<0, b>>
Stack(s)    == <<1, s>>

VectorNMI == <<B - 1, B - 6>>
VectorIRQ == <<B - 1, B - 2>>

(* The bit of a byte that setStatus takes as I, and BBR and BBS test. *)
Bit(v) == v % 2 = 1

-----------------------------------------------------------------------------
VARIABLES
  PC, SP,       \* registers
  flagI,        \* the interrupt-disable flag of P
  index,        \* X or Y, whichever the current instruction adds
  cond,         \* the condition the current branch tests
  current,      \* the sequence in progress, or "none"
  step,         \* its next micro-operation
  tmp8, tmpAddr, tmpBase,
  prefetched,   \* the opcode RTS has read ahead, or "none"
  pendingIRQ, pendingNMI,
  haltOnBRK, halted,
  failed,       \* a Tick returned an error, which ends the run loop
  bus           \* the access of the last tick: [op, addr, val]

temps   == <<tmp8, tmpAddr, tmpBase>>
choices == <<index, cond>>
control == <<current, step>>
pending == <<pendingIRQ, pendingNMI>>
modes   == <<haltOnBRK, halted, failed>>
vars    == <<PC, SP, flagI, choices, control, temps, prefetched, pending, modes, bus>>

Idle == [op |-> "idle", addr |-> <<0, 0>>, val |-> 0]

Read(addr, v)  == bus' = [op |-> "read",  addr |-> addr, val |-> v]
Write(addr, v) == bus' = [op |-> "write", addr |-> addr, val |-> v]
Fetch(addr)    == bus' = [op |-> "fetch", addr |-> addr, val |-> 0]
NoAccess       == bus' = Idle

(* A slip: current is not reset behind the last operation. *)
AdvanceInCircle(n) ==
  IF step + n < Len(Steps[current])
    THEN step' = step + n + 1 /\ UNCHANGED current
    ELSE step' = 1 /\ UNCHANGED current

(* The step counter after a micro-operation that skips n others; the       *)
(* instruction ends when it runs past the last one.                        *)
Advance(n) ==
  IF step + n < Len(Steps[current])
    THEN step' = step + n + 1 /\ UNCHANGED current
    ELSE step' = 1 /\ current' = "none"

Begin(sequence) == current' = sequence /\ step' = 1

-----------------------------------------------------------------------------
(* Opcode fetch and interrupt recognition: current is nil. *)

(* The address of the next instruction to execute: RTS leaves PC one past  *)
(* the opcode it has read ahead.                                           *)
NextInstruction == IF prefetched = "none" THEN PC ELSE Before(PC)

(* A slip: an opcode read ahead goes before any interrupt. *)
RecognisedAfterFetch == prefetched = "none" /\ (pendingNMI \/ (pendingIRQ /\ ~flagI))

(* pendingInterruptInstruction: NMI before IRQ, and IRQ unless I is set. *)
Recognised == pendingNMI \/ (pendingIRQ /\ ~flagI)
Serviced   == IF pendingNMI THEN "NMI" ELSE "IRQ"

(* No interrupt was recognised: decode the prefetched or fetched opcode.   *)
BeginInstruction(opcode, i, c) ==
  /\ ~Recognised
  /\ IF prefetched # "none"
       THEN opcode = prefetched /\ NoAccess /\ UNCHANGED PC
       ELSE opcode \in Opcodes /\ Fetch(PC) /\ PC' = Inc(PC)
  /\ prefetched' = "none"
  /\ IF opcode = "Illegal"
       THEN failed' = TRUE /\ UNCHANGED <<control, choices>>
       ELSE /\ Begin(opcode)
            /\ index' = IF opcode \in UsesIndex THEN i ELSE index
            /\ cond' = IF opcode = "branch" THEN c ELSE cond
            /\ UNCHANGED failed
  /\ UNCHANGED <<SP, flagI, temps, pending, haltOnBRK, halted>>

(* A prefetched opcode is dropped; otherwise the one at PC is read and     *)
(* discarded.                                                              *)
BeginInterrupt(v) ==
  /\ Recognised
  /\ Begin(Serviced)
  /\ pendingNMI' = (pendingNMI /\ Serviced = "IRQ")
  /\ pendingIRQ' = (pendingIRQ /\ Serviced = "NMI")
  /\ IF prefetched # "none" THEN NoAccess ELSE Read(PC, v)
  /\ prefetched' = "none"
  /\ UNCHANGED <<PC, SP, flagI, choices, temps, modes>>

-----------------------------------------------------------------------------
(* Micro-operations, each with the byte v the bus answers.  Frame is what  *)
(* no micro-operation but Prefetch and VectorHi changes.                   *)
Frame == UNCHANGED <<choices, prefetched, pending, haltOnBRK, failed>>

Noop ==
  NoAccess /\ Advance(0) /\ Frame /\ UNCHANGED <<PC, SP, flagI, temps, halted>>

ClearI ==
  /\ flagI' = FALSE
  /\ NoAccess /\ Advance(0) /\ Frame /\ UNCHANGED <<PC, SP, temps, halted>>

SetI ==
  /\ flagI' = TRUE
  /\ NoAccess /\ Advance(0) /\ Frame /\ UNCHANGED <<PC, SP, temps, halted>>

SetSP ==
  /\ SP' = index
  /\ NoAccess /\ Advance(0) /\ Frame /\ UNCHANGED <<PC, flagI, temps, halted>>

(* An operand byte with no address in it, and the byte after BRK. *)
FetchPad(v) ==
  /\ Read(PC, v) /\ PC' = Inc(PC)
  /\ Advance(0) /\ Frame /\ UNCHANGED <<SP, flagI, temps, halted>>

FetchTmp(v) ==
  /\ Read(PC, v) /\ PC' = Inc(PC)
  /\ tmp8' = v
  /\ Advance(0) /\ Frame /\ UNCHANGED <<SP, flagI, tmpAddr, tmpBase, halted>>

FetchZp(v) ==
  /\ Read(PC, v) /\ PC' = Inc(PC)
  /\ tmpAddr' = ZeroPage(v)
  /\ Advance(0) /\ Frame /\ UNCHANGED <<SP, flagI, tmp8, tmpBase, halted>>

FetchHi(v) ==
  /\ Read(PC, v) /\ PC' = Inc(PC)
  /\ tmpAddr' = <<v, tmp8>>
  /\ Advance(0) /\ Frame /\ UNCHANGED <<SP, flagI, tmp8, tmpBase, halted>>

FetchHiIndexed(v) ==
  /\ Read(PC, v) /\ PC' = Inc(PC)
  /\ tmpBase' = <<v, tmp8>>
  /\ tmpAddr' = AddIndex(<<v, tmp8>>, index)
  /\ Advance(0) /\ Frame /\ UNCHANGED <<SP, flagI, tmp8, halted>>

IndexZp ==
  /\ tmpAddr' = ZeroPage(Wrap(tmp8 + index))
  /\ NoAccess /\ Advance(0) /\ Frame
  /\ UNCHANGED <<PC, SP, flagI, tmp8, tmpBase, halted>>

ReadTmp(v) ==
  /\ Read(tmpAddr, v)
  /\ tmp8' = v
  /\ Advance(0) /\ Frame /\ UNCHANGED <<PC, SP, flagI, tmpAddr, tmpBase, halted>>

(* A slip: the second byte of a pointer at $FF is taken from page 1. *)
PointerHiInNextPage == Inc(tmpAddr)

PointerHi == ZeroPage(Wrap(tmpAddr[2] + 1))

ReadPtrHi(v) ==
  /\ Read(PointerHi, v)
  /\ tmpAddr' = <<v, tmp8>>
  /\ Advance(0) /\ Frame /\ UNCHANGED <<PC, SP, flagI, tmp8, tmpBase, halted>>

ReadPtrHiIndexed(v) ==
  /\ Read(PointerHi, v)
  /\ tmpBase' = <<v, tmp8>>
  /\ tmpAddr' = AddIndex(<<v, tmp8>>, index)
  /\ Advance(0) /\ Frame /\ UNCHANGED <<PC, SP, flagI, tmp8, halted>>

ReadDo(v) ==
  /\ Read(tmpAddr, v)
  /\ Advance(0) /\ Frame /\ UNCHANGED <<PC, SP, flagI, temps, halted>>

(* A slip: every indexed read is repeated. *)
ReadAndFix(v) ==
  /\ Read(Unfixed(tmpBase, tmpAddr), v) /\ Advance(0)
  /\ Frame /\ UNCHANGED <<PC, SP, flagI, temps, halted>>

(* The data read of an indexed mode: done when the page was right,         *)
(* repeated at the corrected address when it was not.                      *)
ReadOrFix(v) ==
  /\ IF PageCrossed(tmpBase, tmpAddr)
       THEN Read(Unfixed(tmpBase, tmpAddr), v) /\ Advance(0)
       ELSE Read(tmpAddr, v) /\ Advance(1)
  /\ Frame /\ UNCHANGED <<PC, SP, flagI, temps, halted>>

ReadUnfixed(v) ==
  /\ Read(Unfixed(tmpBase, tmpAddr), v)
  /\ Advance(0) /\ Frame /\ UNCHANGED <<PC, SP, flagI, temps, halted>>

(* A register is written: any byte. *)
WriteDo(v) ==
  /\ Write(tmpAddr, v)
  /\ Advance(0) /\ Frame /\ UNCHANGED <<PC, SP, flagI, temps, halted>>

WriteTmp ==
  /\ Write(tmpAddr, tmp8)
  /\ Advance(0) /\ Frame /\ UNCHANGED <<PC, SP, flagI, temps, halted>>

WriteModified(v) ==
  /\ tmp8' = v
  /\ Write(tmpAddr, v)
  /\ Advance(0) /\ Frame /\ UNCHANGED <<PC, SP, flagI, tmpAddr, tmpBase, halted>>

(* A slip: a branch that does not look at its condition. *)
FetchOffsetTaken(v) ==
  /\ Read(PC, v) /\ PC' = Inc(PC)
  /\ tmp8' = v
  /\ Advance(0)
  /\ Frame /\ UNCHANGED <<SP, flagI, tmpAddr, tmpBase, halted>>

FetchOffset(v) ==
  /\ Read(PC, v) /\ PC' = Inc(PC)
  /\ tmp8' = v
  /\ Advance(IF cond THEN 0 ELSE 2)
  /\ Frame /\ UNCHANGED <<SP, flagI, tmpAddr, tmpBase, halted>>

Branch ==
  /\ PC' = BranchTarget(PC, tmp8)
  /\ Advance(IF PageCrossed(PC, BranchTarget(PC, tmp8)) THEN 0 ELSE 1)
  /\ NoAccess /\ Frame /\ UNCHANGED <<SP, flagI, temps, halted>>

ReadBits(v) ==
  /\ Read(tmpAddr, v)
  /\ tmpBase' = ZeroPage(v)
  /\ Advance(0) /\ Frame /\ UNCHANGED <<PC, SP, flagI, tmp8, tmpAddr, halted>>

FetchBitOffset(v) ==
  /\ Read(PC, v) /\ PC' = Inc(PC)
  /\ tmp8' = v
  /\ Advance(IF Bit(tmpBase[2]) = (current = "BBS") THEN 0 ELSE 2)
  /\ Frame /\ UNCHANGED <<SP, flagI, tmpAddr, tmpBase, halted>>

FetchPCH(v) ==
  /\ Read(PC, v)
  /\ PC' = <<v, tmp8>>
  /\ Advance(0) /\ Frame /\ UNCHANGED <<SP, flagI, temps, halted>>

(* JMP (ind): the pointer's high byte comes from the same page. *)
ReadPCH(v) ==
  /\ Read(<<tmpAddr[1], Wrap(tmpAddr[2] + 1)>>, v)
  /\ PC' = <<v, tmp8>>
  /\ Advance(0) /\ Frame /\ UNCHANGED <<SP, flagI, temps, halted>>

ReadPC(v) ==
  /\ Read(PC, v)
  /\ Advance(0) /\ Frame /\ UNCHANGED <<PC, SP, flagI, temps, halted>>

ReadStack(v) ==
  /\ Read(Stack(SP), v)
  /\ Advance(0) /\ Frame /\ UNCHANGED <<PC, SP, flagI, temps, halted>>

(* A slip of pullByte: the byte is read before SP moves. *)
PullPostIncrement(v) == SP' = Wrap(SP + 1) /\ Read(Stack(SP), v)

(* pushByte and pullByte. *)
Push(v) == Write(Stack(SP), v) /\ SP' = Wrap(SP - 1)
Pull(v) == SP' = Wrap(SP + 1) /\ Read(Stack(Wrap(SP + 1)), v)

PushPCH ==
  Push(PC[1]) /\ Advance(0) /\ Frame /\ UNCHANGED <<PC, flagI, temps, halted>>

PushPCL ==
  Push(PC[2]) /\ Advance(0) /\ Frame /\ UNCHANGED <<PC, flagI, temps, halted>>

PushA(v) ==
  Push(v) /\ Advance(0) /\ Frame /\ UNCHANGED <<PC, flagI, temps, halted>>

(* The status byte carries I in one bit; its other bits are any. *)
PushP(v) ==
  /\ Bit(v) = flagI
  /\ Push(v) /\ Advance(0) /\ Frame /\ UNCHANGED <<PC, flagI, temps, halted>>

(* A slip: an interrupt that leaves maskable requests enabled. *)
PushPKeepI(v) ==
  /\ Bit(v) = flagI
  /\ Push(v) /\ Advance(0) /\ Frame /\ UNCHANGED <<PC, flagI, temps, halted>>

PushPSetI(v) ==
  /\ Bit(v) = flagI
  /\ flagI' = TRUE
  /\ Push(v) /\ Advance(0) /\ Frame /\ UNCHANGED <<PC, temps, halted>>

PullA(v) ==
  Pull(v) /\ Advance(0) /\ Frame /\ UNCHANGED <<PC, flagI, temps, halted>>

PullP(v) ==
  /\ flagI' = Bit(v)
  /\ Pull(v) /\ Advance(0) /\ Frame /\ UNCHANGED <<PC, temps, halted>>

PullTmp(v) ==
  /\ tmp8' = v
  /\ Pull(v) /\ Advance(0) /\ Frame
  /\ UNCHANGED <<PC, flagI, tmpAddr, tmpBase, halted>>

(* A slip: RTI resumes behind the address pulled, as RTS does. *)
PullPCHNext(v) ==
  /\ PC' = Inc(<<v, tmp8>>)
  /\ Pull(v) /\ Advance(0) /\ Frame /\ UNCHANGED <<flagI, temps, halted>>

PullPCH(v) ==
  /\ PC' = <<v, tmp8>>
  /\ Pull(v) /\ Advance(0) /\ Frame /\ UNCHANGED <<flagI, temps, halted>>

PullAddr(v) ==
  /\ tmpAddr' = <<v, tmp8>>
  /\ Pull(v) /\ Advance(0) /\ Frame /\ UNCHANGED <<PC, flagI, tmp8, tmpBase, halted>>

(* RTS reads the next opcode itself, and leaves PC behind that opcode. *)
Prefetch(opcode) ==
  /\ Fetch(Inc(tmpAddr))
  /\ prefetched' = opcode
  /\ PC' = Inc(Inc(tmpAddr))
  /\ Advance(0)
  /\ UNCHANGED <<choices, pending, modes, SP, flagI, temps>>

Vector == IF current = "NMI" THEN VectorNMI ELSE VectorIRQ

VectorLo(v) ==
  /\ Read(Vector, v)
  /\ tmp8' = v
  /\ Advance(0) /\ Frame /\ UNCHANGED <<PC, SP, flagI, tmpAddr, tmpBase, halted>>

VectorHi(v) ==
  /\ Read(Inc(Vector), v)
  /\ PC' = <<v, tmp8>>
  /\ halted' = (current = "BRK" /\ haltOnBRK)
  /\ Advance(0) /\ Frame /\ UNCHANGED <<SP, flagI, temps>>

Op == Steps[current][step]

(* A micro-operation that needs no byte from outside the core. *)
InternalOp ==
  \/ Op = "Noop"     /\ Noop
  \/ Op = "ClearI"   /\ ClearI
  \/ Op = "SetI"     /\ SetI
  \/ Op = "SetSP"    /\ SetSP
  \/ Op = "IndexZp"  /\ IndexZp
  \/ Op = "WriteTmp" /\ WriteTmp
  \/ Op = "Branch"   /\ Branch
  \/ Op = "PushPCH"  /\ PushPCH
  \/ Op = "PushPCL"  /\ PushPCL

(* A micro-operation on the byte v: read from the bus, or from a register. *)
ByteOp(v) ==
  \/ Op = "FetchPad"         /\ FetchPad(v)
  \/ Op = "FetchTmp"         /\ FetchTmp(v)
  \/ Op = "FetchZp"          /\ FetchZp(v)
  \/ Op = "FetchHi"          /\ FetchHi(v)
  \/ Op = "FetchHiIndexed"   /\ FetchHiIndexed(v)
  \/ Op = "ReadTmp"          /\ ReadTmp(v)
  \/ Op = "ReadPtrHi"        /\ ReadPtrHi(v)
  \/ Op = "ReadPtrHiIndexed" /\ ReadPtrHiIndexed(v)
  \/ Op = "ReadDo"           /\ ReadDo(v)
  \/ Op = "ReadOrFix"        /\ ReadOrFix(v)
  \/ Op = "ReadUnfixed"      /\ ReadUnfixed(v)
  \/ Op = "WriteDo"          /\ WriteDo(v)
  \/ Op = "WriteModified"    /\ WriteModified(v)
  \/ Op = "FetchOffset"      /\ FetchOffset(v)
  \/ Op = "ReadBits"         /\ ReadBits(v)
  \/ Op = "FetchBitOffset"   /\ FetchBitOffset(v)
  \/ Op = "FetchPCH"         /\ FetchPCH(v)
  \/ Op = "ReadPCH"          /\ ReadPCH(v)
  \/ Op = "ReadPC"           /\ ReadPC(v)
  \/ Op = "ReadStack"        /\ ReadStack(v)
  \/ Op = "PushA"            /\ PushA(v)
  \/ Op = "PushP"            /\ PushP(v)
  \/ Op = "PushPSetI"        /\ PushPSetI(v)
  \/ Op = "PullA"            /\ PullA(v)
  \/ Op = "PullP"            /\ PullP(v)
  \/ Op = "PullTmp"          /\ PullTmp(v)
  \/ Op = "PullPCH"          /\ PullPCH(v)
  \/ Op = "PullAddr"         /\ PullAddr(v)
  \/ Op = "VectorLo"         /\ VectorLo(v)
  \/ Op = "VectorHi"         /\ VectorHi(v)

(* One motherboard tick of a core that is not halted. *)
Tick ==
  /\ ~halted /\ ~failed
  /\ \/ /\ current = "none"
        /\ \/ \E o \in Opcodes, i \in BusBytes, c \in BOOLEAN : BeginInstruction(o, i, c)
           \/ \E v \in BusBytes : BeginInterrupt(v)
     \/ /\ current # "none"
        /\ \/ InternalOp
           \/ \E v \in BusBytes : ByteOp(v)
           \/ \E o \in Opcodes : Op = "Prefetch" /\ Prefetch(o)

-----------------------------------------------------------------------------
(* A machine just reset, PC holding the reset vector's word or the address *)
(* SetPC stored after it.                                                  *)
Init ==
  /\ PC \in StartPCs
  /\ SP = B - 3
  /\ flagI = TRUE
  /\ index = 0 /\ cond = FALSE
  /\ current = "none" /\ step = 1
  /\ tmp8 = 0 /\ tmpAddr = <<0, 0>> /\ tmpBase = <<0, 0>>
  /\ prefetched = "none"
  /\ pendingIRQ = FALSE /\ pendingNMI = FALSE
  /\ haltOnBRK \in BOOLEAN /\ halted = FALSE /\ failed = FALSE
  /\ bus = Idle

RequestIRQ ==
  /\ pendingIRQ' = TRUE
  /\ UNCHANGED <<PC, SP, flagI, choices, control, temps, prefetched, pendingNMI, modes, bus>>

RequestNMI ==
  /\ pendingNMI' = TRUE
  /\ UNCHANGED <<PC, SP, flagI, choices, control, temps, prefetched, pendingIRQ, modes, bus>>

(* Reset abandons the instruction in progress and forgets the requests.   *)
Reset ==
  /\ PC' \in StartPCs
  /\ SP' = B - 3
  /\ flagI' = TRUE
  /\ current' = "none" /\ step' = 1
  /\ tmp8' = 0 /\ tmpAddr' = <<0, 0>> /\ tmpBase' = <<0, 0>>
  /\ prefetched' = "none"
  /\ pendingIRQ' = FALSE /\ pendingNMI' = FALSE
  /\ halted' = FALSE /\ failed' = FALSE
  /\ bus' = Idle
  /\ UNCHANGED <<choices, haltOnBRK>>

Next == Tick \/ RequestIRQ \/ RequestNMI \/ Reset

Spec == Init /\ [][Next]_vars

-----------------------------------------------------------------------------
BusType ==
  [op : {"idle", "read", "write", "fetch"}, addr : Word, val : Byte]

(* The registers stay in their widths, and the step counter names a        *)
(* micro-operation of the current sequence.                                *)
TypeOK ==
  /\ PC \in Word /\ SP \in Byte /\ flagI \in BOOLEAN
  /\ index \in Byte /\ cond \in BOOLEAN
  /\ current \in Sequences6502 \cup {"none"}
  /\ step \in 1 .. 6
  /\ current # "none" => step <= Len(Steps[current])
  /\ tmp8 \in Byte /\ tmpAddr \in Word /\ tmpBase \in Word
  /\ prefetched \in Opcodes \cup {"none"}
  /\ pendingIRQ \in BOOLEAN /\ pendingNMI \in BOOLEAN
  /\ haltOnBRK \in BOOLEAN /\ halted \in BOOLEAN /\ failed \in BOOLEAN
  /\ bus \in BusType

=============================================================================
