---------------------------- MODULE CPU6502Calls ----------------------------
(***************************************************************************)
(* The core over real stack memory, running structured programs: every     *)
(* return, interrupt return and pull finds on top of the stack what the    *)
(* matching call, interrupt or push left there.  frames is the stack the   *)
(* program believes in; the properties compare the machine with it while   *)
(* interrupts arrive between any two ticks.                                *)
(***************************************************************************)
EXTENDS CPU6502

CONSTANTS
  ProgramBytes,   \* the operand, data and status bytes, a subset of BusBytes
  MaxNested,      \* interrupts pending or not yet returned from, at most
  MaxSequences,   \* bound on the sequences begun
  MaxRequests     \* bound on the interrupt requests

ASSUME ProgramBytesAssumption == ProgramBytes \subseteq BusBytes
ASSUME MaxNestedAssumption    == MaxNested \in Nat /\ 3 * MaxNested <= B

VARIABLES
  ram,          \* the stack page
  frames,       \* what is on the stack, the newest first
  origin,       \* where the current sequence began: [at, clean, sp, flag, open]
  open,         \* interrupts begun and not yet returned from
  begun, requests

cvars == <<vars, ram, frames, origin, open, begun, requests>>

Size == [call |-> 2, A |-> 1, P |-> 1, IRQ |-> 3, NMI |-> 3, BRK |-> 3]
InterruptKinds == {"IRQ", "NMI", "BRK"}
InHandler(f) == \E i \in 1 .. Len(f) : f[i].kind \in InterruptKinds

Used(f) == IF f = << >> THEN 0 ELSE Head(f).used

CInit ==
  /\ Init /\ ~haltOnBRK         \* a core that BRK halts returns from nothing
  /\ ram = [s \in Byte |-> 0]
  /\ frames = << >>
  /\ origin = [at |-> PC, clean |-> TRUE, sp |-> SP, flag |-> flagI,
               open |-> 0]
  /\ open = 0 /\ begun = 0 /\ requests = 0

(* What a structured program executes when its stack holds f and n         *)
(* interrupts are open: it returns to its caller only, enables interrupts  *)
(* outside handlers only, moves SP by pushes and pulls only, and leaves    *)
(* room for the interrupts that may still nest.                            *)
Structured(opcode, f, n) ==
  LET top == IF f = << >> THEN "none" ELSE Head(f).kind
      room(kind) == Used(f) + Size[kind] + 3 * (MaxNested - n) <= B
  IN  /\ opcode = "RTS" => top = "call"
      /\ opcode = "RTI" => top \in InterruptKinds
      /\ opcode = "PLA" => top = "A"
      /\ opcode = "PLP" => top = "P"
      /\ opcode = "CLI" => ~InHandler(f)
      /\ opcode = "JSR" => room("call")
      /\ opcode = "PHA" => room("A")
      /\ opcode = "PHP" => room("P")
      /\ opcode = "BRK" => room("BRK")
      /\ opcode # "TXS"

Pushes == {"PushPCH", "PushPCL", "PushA", "PushP", "PushPSetI"}

(* The stack page answers its own reads; other reads, and the bytes the    *)
(* program pushes, come from the program, which writes it by pushes only.  *)
StackMemory ==
  /\ bus'.op = "write" /\ bus'.addr[1] = 1 => Op \in Pushes
  /\ bus'.op = "read" /\ bus'.addr[1] = 1 => bus'.val = ram[bus'.addr[2]]
  /\ bus'.op = "read" /\ bus'.addr[1] # 1 => bus'.val \in ProgramBytes
  /\ bus'.op = "write" /\ Op \notin {"PushPCH", "PushPCL"} => bus'.val \in ProgramBytes
  /\ ram' = IF bus'.op = "write" /\ bus'.addr[1] = 1
              THEN [ram EXCEPT ![bus'.addr[2]] = bus'.val] ELSE ram

CallBegin ==
  /\ current = "none" /\ begun < MaxSequences
  /\ Tick
  /\ StackMemory
  /\ current' \in Instructions /\ prefetched = "none" => Structured(current', frames, open)
  /\ origin' = [at |-> NextInstruction, clean |-> prefetched = "none",
                sp |-> SP, flag |-> flagI, open |-> open]
  /\ open' = IF current' \in Interrupts THEN open + 1 ELSE open
  /\ begun' = begun + 1
  /\ UNCHANGED <<frames, requests>>

(* The frame that the current sequence leaves, v being the byte it pushed  *)
(* last.  resume is where the program must go on: behind JSR and its       *)
(* operand, behind BRK and its padding byte, or at the instruction that    *)
(* the interrupt kept from starting.                                       *)
Frames(kind, resume, v) ==
  << [kind |-> kind, resume |-> resume, val |-> v, flag |-> origin.flag,
      clean |-> origin.clean, sp |-> origin.sp, open |-> origin.open,
      used |-> Used(frames) + Size[kind]] >>
  \o frames

FramesAfter(v) ==
  CASE current = "JSR"                            -> Frames("call", AddIndex(origin.at, 3), 0)
    [] current = "PHA"                            -> Frames("A", <<0, 0>>, v)
    [] current = "PHP"                            -> Frames("P", <<0, 0>>, 0)
    [] current = "BRK"                            -> Frames("BRK", AddIndex(origin.at, 2), 0)
    [] current \in Interrupts                     -> Frames(current, origin.at, 0)
    [] current \in {"RTS", "RTI", "PLA", "PLP"}   -> Tail(frames)
    [] OTHER                                      -> frames

CallOp ==
  /\ current # "none"
  /\ Tick
  /\ StackMemory
  /\ frames' = IF current' = "none" THEN FramesAfter(bus'.val) ELSE frames
  /\ open' = IF current = "RTI" /\ current' = "none" THEN Head(frames).open ELSE open
  /\ prefetched' \in Instructions => Structured(prefetched', frames', open')
  /\ UNCHANGED <<origin, begun, requests>>

(* The environment's part: interrupts nest no deeper than the stack holds. *)
NestsOn(otherPending) == open + (IF otherPending THEN 2 ELSE 1) <= MaxNested

CallRequest ==
  /\ requests < MaxRequests
  /\ \/ RequestIRQ /\ NestsOn(pendingNMI)
     \/ RequestNMI /\ NestsOn(pendingIRQ)
  /\ requests' = requests + 1
  /\ UNCHANGED <<ram, frames, origin, open, begun>>

CNext == CallBegin \/ CallOp \/ CallRequest

CSpec == CInit /\ [][CNext]_cvars

-----------------------------------------------------------------------------
Completes(sequence) == CallOp /\ current = sequence /\ current' = "none"

(* lang.go:989-1014,1052-1132: whatever interrupts are taken and nested in *)
(* between, a return resumes behind its own call, a pull yields the byte   *)
(* or the I flag its own push saved, and SP is back where the call, push   *)
(* or interrupt found it.                                                  *)
ReturnsMatchCalls ==
  [][ /\ Completes("RTS") => bus'.addr = Head(frames).resume /\ SP' = Head(frames).sp
      /\ Completes("PLA") => bus'.val = Head(frames).val /\ SP' = Head(frames).sp
      /\ Completes("PLP") => flagI' = Head(frames).flag /\ SP' = Head(frames).sp ]_cvars

(* lang.go:759-824,1084-1111: RTI restores I and SP, and resumes the       *)
(* instruction the interrupt kept from starting, or the one behind BRK.    *)
(* Interrupts recognised while RTS has read ahead (cpu6502.go:133-134) are *)
(* left to NoInstructionSkipped.                                           *)
InterruptsReturn ==
  [][Completes("RTI") =>
       /\ flagI' = Head(frames).flag
       /\ SP' = Head(frames).sp
       /\ Head(frames).clean => PC' = Head(frames).resume]_cvars

(* cpu6502_test.go:1059-1082 expects an interrupt to push the address of   *)
(* the instruction it kept from starting, so that RTI executes it.         *)
NoInstructionSkipped ==
  [][Completes("RTI") => PC' = Head(frames).resume]_cvars

(* cpu6502.go:276: while a handler runs, maskable requests stay pending;   *)
(* the I flag that blocks them survives nested interrupts, returns, pushes *)
(* and pulls of P.  Here: no IRQ frame lies on top of a handler's frame.   *)
HandlersMaskIRQ ==
  \A i, j \in 1 .. Len(frames) :
    i < j /\ frames[i].kind = "IRQ" => frames[j].kind \notin InterruptKinds

=============================================================================
