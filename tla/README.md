# A verification of emuai

emuai is an Apple IIe emulator in Go: a 6502 core that is ticked one bus cycle
at a time, a memory management unit with soft switches and an 80-column card, a
CRTC, a keyboard, a Vulkan window with a trace overlay, and a command that runs
all of it under terminal controls. This directory holds TLA+ modules of the parts
with the hardest control, the TLC configurations that check them on small
instances, and TLAPS proofs for every instance.

Paths and line numbers refer to the repository; `PROJECT.json` maps every
definition to the lines it stands for.

## 1. Inventory

| Component | State | Operations | How it interacts |
|---|---|---|---|
| Keyboard (`peripheral/keyboard.go`) | latch, strobe, queue, under one mutex | key event, read $C000, read/write $C010, reset | events from the window's thread, accesses from the CPU's tick |
| 6502 core (`cpu/cpu6502.go`, `cpu/lang.go`) | registers, current micro-operation list and step, temporaries, prefetched opcode, pending IRQ/NMI, halt flags | tick, request IRQ/NMI, reset, set PC | reads and writes the bus; decodes from the package variable `Opcode_6502`; writes the trace |
| Disassembler (`cpu/disassembly.go`) | none of its own, but makes a CPU | disassemble a block | rebinds `Opcode_6502`; reads the bus |
| MMU (`memory/apple2e_mmu.go`) | eight switches, selected slot, aux override, two banks, ROMs | read, write, arm/clear override, load, reset | behind the bus, the soft switches and the card; read by the CRTC |
| 80-column card (`peripheral/apple2e_80col_card.go`) | handshake bit | begin, poll, finish | arms the MMU's override |
| Soft switches (`peripheral/apple2e_softswitches.go`) | none | read, write | routes to keyboard, MMU, CRTC, sound; MMU first, CRTC second |
| CRTC (`video/apple2e_crtc.go`) | beam, display mode, frame schedule | tick, read, write, reset | draws from MMU memory, presents to a renderer |
| Vulkan renderer (`video/vulkan_placeholder.go`) | window, work channel, mutex | init, present, close, key callbacks | runs GLFW on one locked thread; feeds the keyboard; reads the trace |
| Trace overlay (`video/trace_overlay.go`) | bounded lines and status, under a mutex | write, read, set clock and CPU state | written by the CPU's tick, read on the renderer's thread |
| Motherboard (`emulator/motherboard.go`) | components, cycle | step, run, reset, close | ticks every component on a goroutine of its own and joins them |
| Bus (`emulator/bus.go`) | mappings | map, read, write | the smallest mapping that holds the address wins, the last one among equals |
| Run loop and controls (`cmd/emuai/main.go`) | pause flag, context, terminal, channels, 80-column diagnostics | check, wait, step, look at the screen; key loop, menu, dump; shutdown | main goroutine and control goroutine, Ctrl-C and timeout from outside |
| ROM configuration, plain RAM, null devices | little | load, parse | at start only |

What is hard in this code:

* **Concurrency.** Key events against the polling program; the control goroutine
  against the run loop; one goroutine per component in each Step, with the CRTC
  reading the mode that the CPU's tick changes and the renderer reading the trace
  that the CPU's tick writes; the window's thread, to which callers hand work
  while they hold the renderer's lock.
* **Order inside one instruction.** The core slices an instruction in cycles and
  skips some of them; RTS reads the next opcode ahead; interrupts arrive between
  any two cycles.
* **State kept twice, or used long after it was set.** 80STORE, PAGE2 and HIRES
  in MMU and CRTC; the card's override, the selected slot, the prefetched opcode,
  the global opcode table, the pause flag, the last dump of the diagnostics.
* **Edges of numbers.** Wrapping stack pointer, page 0, page crossings, slot ROMs
  of odd lengths, the cycle limit, a beam that moves by one column or two, decimal
  mode, spans of characters in a window of any width.
* **Failures half way.** A component that fails in a Step or a Reset, a Present
  that fails, a failed step of the run loop.
* **Endings.** A pause that outlives its control goroutine, a shutdown that waits
  for a terminal read, a window closed by the user while a frame is presented.

`PROJECT.json` lists each of these as a hazard at its line, with the property
that covers it or the reason none does.

## 2. Modules

| Module | Models | Extends |
|---|---|---|
| `Keyboard` | the keyboard: one action per handler | |
| `KeyLog` | what it promises: a log of keys with a cursor | |
| `KeyboardHistory` | the typed keys and acknowledgements, and the refinement of `KeyLog` | `Keyboard` |
| `VulkanRenderer` | Present and Close of several callers, the window's thread, the work channel | |
| `Console` | keyboard, window and program composed: keys arrive while a Present polls events | `KeyboardHistory`, `VulkanRenderer` |
| `CPU6502` | the core: fetch, decode, every micro-operation, interrupts, reset | |
| `CPU6502Timing` | with a record of the current instruction: cycles, bytes, addresses | `CPU6502` |
| `CPU6502Calls` | over real stack memory and structured programs | `CPU6502` |
| `CPU6502Run` | under the run loop: a fair clock, and the `-stop-pc` test | `CPU6502` |
| `ALU6502` | adc, sbc, compare and the shifts, on bytes and a carry | |
| `AppleIIeMMU` | the MMU with the 80-column card that arms it | |
| `AuxWindow` | what the two promise: a window on auxiliary memory for one access | |
| `AppleIIeMMUHistory` | history variables, the refinement of `AuxWindow`, ROM and text properties | `AppleIIeMMU` |
| `SoftSwitches` | the program's accesses to MMU, card and CRTC, and the machine's reset | `AppleIIeMMUHistory`, `CRTCBeam` (instance) |
| `Bus` | the choice among mappings, and the map the program makes | |
| `DisplayMode` | the mode flags, the renderer and the page they select | |
| `CRTCBeam` | setters, width, beam | `DisplayMode` |
| `AppleIIeCRTC` | the CRTC's tick: beam, frame schedule, blinking, failing presents, resets | `CRTCBeam` |
| `AppleIIeCRTCHistory` | the length of the current line, counts of frames | `AppleIIeCRTC` |
| `ScreenLayout` | where the bytes of a cell lie and where its pixels go | |
| `FrameDrawing` | `redrawFrame`, band by band, against the setters | `DisplayMode` |
| `Motherboard` | Step with one goroutine per component, Run, Reset, Close, and their errors | |
| `Lockstep` | what Step promises: all components advance together | |
| `MotherboardHistory` | the age of every component, and the refinement of `Lockstep` | `Motherboard` |
| `Machine` | motherboard, CPU writing switches and CRTC drawing, composed | `MotherboardHistory`, `FrameDrawing` |
| `TraceOverlay` | the overlay's lines and status | |
| `TracedMachine` | the machine whose CPU writes the trace and whose renderer reads it | `Machine`, `TraceOverlay` |
| `RunControl` | `runMachine`, pause controls, menu, shutdown | |
| `RunControlHistory` | the count of steps begun while paused; fairness | `RunControl` |
| `Diagnostics` | `maybeDump80ColumnState` | |
| `DiagnosedRun` | the run loop with the diagnostics, and a record of what they logged | `RunControlHistory`, `Diagnostics` |
| `KeyboardProofs` | theorems about keyboard, window and console | `Console` |
| `CPU6502Proofs` | theorems about the core and its instructions | `CPU6502Timing` |
| `CPU6502CallsProofs` | theorems about stack, calls and interrupts | `CPU6502Calls`, `CPU6502Proofs` |
| `AppleIIeMMUProofs` | theorems about MMU, card and soft switches | `SoftSwitches` |
| `CRTCProofs` | theorems about beam, frames and blinking | `AppleIIeCRTCHistory` |
| `MotherboardProofs` | theorems about Steps, frames and traces | `TracedMachine` |
| `RunControlProofs` | theorems about the run loop and its diagnostics | `DiagnosedRun` |
| `AlgorithmProofs` | theorems about arithmetic, screen layout and bus | `ALU6502`, `ScreenLayout`, `Bus` |
| `MC*` | values of the constants for TLC, and the scenes an instance is split into | |

### State and actions against the code

**Keyboard.** `kbd` holds the fields of the Go struct. Each handler holds
`Keyboard.mu` for all it does to them, so each is one step; a read returns
through `data`. Keys are the Apple II byte the translation gives, so upper
casing and the control-key table are in the model; the modifiers of an event are
read by nothing.

**VulkanRenderer, Console.** A caller of Present or Close goes through `lock`,
the early return without a window, the send on `mainCh`, the wait, and the return
that unlocks. The window's thread receives work, draws, polls events and destroys
the window. While it polls, `Console` lets keys reach the keyboard and the user
close the window. The program on the other side leaves the keyboard alone, uses
it in any order, or polls it as the ROM does.

**CPU6502.** `Steps` names the list of micro-operations of each addressing mode
and special instruction; `current` and `step` walk through it as
`decodedInstruction.step` does, and `Advance(n)` is the counter after
`skipMicroOps(n)`. Each micro-operation is an operator with the bus access it
makes in `bus`. A word is a pair of page and offset; a byte has `2 * Half`
values. What no control depends on is chosen: the index register and the branch
condition when the opcode is fetched (no instruction changes them before using
them), the value a store writes, the other bits of P. The arithmetic so left out
is `ALU6502`, whose functions are proved to add, subtract and rotate. An access
never fails: the MMU is mapped at $0000-$FFFF (theorem `Routing`). A reset keeps
the choices of the instruction it interrupts and `haltOnBRK`, and chooses the
address in the vector.

**CPU6502Calls.** The stack page is memory: what a push writes, a pull reads. The
program is any that is `Structured`: RTS, RTI, PLA and PLP find on top of the stack
what the matching call, interrupt or push left, CLI is outside handlers, SP moves
by pushes and pulls only, and the stack page is written by them only. A program
that does not may do anything on a real 6502 too. What bounds the depth of the stack
is stated as a promise of program and environment, not as a bound of the model: of
the interrupts that are pending or not yet returned from there are at most
`MaxNested`, and the program pushes only while that many, with three bytes each,
still fit. Any nesting that fits the page satisfies it for some `MaxNested`, and
without such a promise the page would overflow, as it does in the machine. `frames`
is the stack the program believes in, `open` counts its interrupts.

**AppleIIeMMU, SoftSwitches.** One action is one bus access of the CPU, because
only the CPU's tick accesses the MMU through the bus while the machine runs. Bytes
are replaced by where they come from: `bus.from` is `main`, `aux`, `card` or
`internal`. Addresses are grouped into the areas the decoding tells apart, but
slot pages and the expansion window keep their offsets, because ROM lengths
matter. Loading happens before the run: `SlotROM` and `RomLoaded` are its result.
The three card registers do to `pending` what `ArmAuxSlotAccess` and
`ClearAuxSlotAccess` do. In `SoftSwitches` a flip of a switch reaches the MMU and
then the CRTC; three switches are kept by both. A reset clears the MMU's and
leaves the CRTC's.

**CRTC.** `CRTCBeam` has one action per setter and one for `advanceBeam`; a
setter that widens or narrows the display while a tick is under way on the other
goroutine is `AdvanceDuring`. `AppleIIeCRTC` adds the rest of `Tick`: a frame is
due, is drawn, and its Present succeeds or fails. In `FrameDrawing` the
drawing reads the mode band by band, while a setter stores its flag first and
refreshes the renderer second, as the code does without a lock.

**Motherboard, Machine.** `ticking[c]` is where the goroutine of component `c` is
in the Step: called, sending its error, done. `call` and `position` are where the
owner's call is, `errCh` the buffered channel. `Machine` puts into the CPU's tick a
write of a display switch and into the CRTC's tick the drawing of a frame;
`TracedMachine` puts the calls of the overlay into both: registers, header and
line of the trace, and the clock, lines and status of a Present. The reset of the
CPU asks for a new header (`HeaderAfter`). The history `script` and `headed` says
what the trace should hold, from the resets and the instructions alone: a header
at first and behind every reset of the CPU, and each instruction once.

**RunControl, DiagnosedRun.** `loop` is the program counter of the main goroutine
between the operations that touch shared state: the checks, a look at the pause
flag, the wait for the ticker, the step, then the four statements of the function
that `startPauseControls` returns. `control` is that of the control goroutine: the
select on `stopCh`, the terminal read, the menu's print, read, prompt and dump.
The model assumes that the controls could be started, that is, that there is a
terminal. A write to the terminal never fails before it is closed. A step has
one of four results for the loop; which instruction the machine executes is
`CPU6502`'s business. After a step that succeeded the screen is anything, and
`MaybeDump` looks at it as `maybeDump80ColumnState` does.

The operators introduced by "A slip" or "Slips" in the modules are wrong versions
of the definition that follows them. None is used by a specification; each shows
that some property fails when the code has that bug.

## 3. Runs

| Run | Checks | Distinct states |
|---|---|---|
| `keyboard` | `HistoryInv`, `TakesInOrder`, `HandedOver`, `ImplementsLog`, `EveryKeyTaken`, `CallsReturn` | 46 118 |
| `cpu_timing` | `InstructionTiming`, `InstructionLength`, `EffectiveAddressOK`, `PointerWrapsInPage` | 371 052 |
| `cpu_calls` | `HandlersMaskIRQ`, `ReturnsMatchCalls`, `InterruptsReturn` | 709 060 |
| `cpu_liveness` | `NMITaken`, `IRQTaken`, `IllegalStops` | 69 224 |
| `memory` | `TypeOK`, `ExpansionFollowsSelection`, `SwitchesAgree`, `ImplementsWindow`, `TextReadBack`, `StoredIsShown` | 67 518 |
| `crtc` | `BeamPosition`, `BlinkPeriod`, `FrameSchedule`, `FramesOnTime`, `LineLength` | 294 236 |
| `machine` | `AgesMatchCycle`, `WholeFrame`, `TraceOfOneMoment`, `ImplementsLockstep`, `StepsReturn`, `CloseReachesAll` | 376 180 |
| `run_control` | `CycleLimit`, `TerminalRestored`, `AtMostOneLateStep`, `DumpsPaced`, `ChangesDumped`, `CancelEndsLoop`, `ShutdownEnds` | 503 769 |

The refinements are `ImplementsLog` (`KeyLog`: nothing lost, repeated or
overtaken), `ImplementsWindow` (`AuxWindow`: the armed access is the next one to
$0200-$BFFF and only that one) and `ImplementsLockstep` (`Lockstep`: a Step is one
tick of every component, whichever fail).

An instance made of independent programs, callers or scenes chooses one of them in
its initial state and keeps it: the state spaces then add up instead of
multiplying. This is done in `MCConsole`, `MCMemory`, `MCMachine` and
`MCDiagnosedRun`, whose comments say what each is for.

Bounds, and why they are enough:

* **keyboard.** Three accepted keys (one lower case, one control key), three
  rejected events; at most three keys queued and five typed; two callers and three
  frames. Every relation of the latch, the head and the tail of the queue to the
  log occurs with two queued keys; two callers suffice for one that waits for the
  lock while the other holds it, and for a Close between two Presents.
* **cpu_timing.** Six byte values, of which the program uses 0, 2 and 5: as
  signed offsets +0, +2 and -1, so branches go both ways and stay in their page
  or leave it; as index and operand the sums stay inside, cross a page, wrap page
  0 and wrap the address space; start addresses 3 from the end of a page and 2
  from the end of memory. One sequence per run and one interrupt request: the
  properties are about single instructions.
* **cpu_calls.** Eight byte values, so the stack page has eight slots and SP,
  which starts at 5, wraps below 0; six sequences, three requests of which two nest:
  a call, an interrupt in it, a second interrupt in the handler, the returns, and an
  interrupt after them. BRK with `haltOnBRK` is left to the other runs. The theorems
  about this module have neither bound.
* **cpu_liveness.** Programs of RTI, RTS, BRK and an illegal opcode over two byte
  values: every way to mask, unmask and prefetch. No bound on time or requests.
* **memory.** Two-byte pages; slots with a page and a full expansion, a page
  alone, slot 3 with one byte that ends inside its page and is mirrored, a ROM that
  ends inside the window, an empty slot;
  internal ROM everywhere but at one byte. One program banks RAM, one banks ROMs, one
  draws; all use the card and may reset the machine. No bound on time: the state space
  is finite.
* **crtc.** Lines of three ticks in 40 columns, two lines to a row, two rows; a
  period of three cycles, a blink of two frames; fourteen cycles. The total of 40
  columns is odd, as the code's 63 is, so that lines of mixed widths end behind the
  total; the cycles are enough for a whole screen and four periods with failures.
* **machine.** Three components: the CPU, the CRTC, and one that may fail. Three
  traced instructions and four cycles between resets with the trace, and any number
  of resets: with an overlay of three lines of which two are shown lines are dropped
  and hidden, and headers stand at first and between the instructions. Two cycles
  without the trace.
* **run_control.** Eleven cycles, real-time mode (which adds the wait for the
  ticker), a settling time of three cycles, an interval of two, a limit of two
  visible dumps, two screens: 80-column text can settle, be dumped up to the limit,
  be left, come back, and settle and be dumped again. Pauses, cancelling and failures
  happen in the scene without diagnostics; they leave the diagnostics alone but for
  steps that come later.

Deadlock is checked except where the system may stop: `cpu_calls` at its bounds,
and the run loop after exit.

### Fairness

* `Console`: the program's accesses are weakly fair, since the clock keeps ticking
  the CPU; the steps of the window's thread and of callers that hold the lock are
  weakly fair, as the Go scheduler runs them; taking the lock is strongly fair,
  because `sync.Mutex` hands the lock to a waiter that has starved. Nobody has to
  type, call or close the window.
* `CPU6502Run`: `RunTick` is weakly fair: `runMachine` calls `Step` until it
  stops, and `Step` ticks every component. Requests are free.
* `Machine`, `TracedMachine`: every goroutine goes on with what it has begun:
  ticks return, setters and frames are finished, a send and the join happen. A
  Step, a Reset or a Close need not be called.
* `RunControlHistory`: the main goroutine and the control goroutine are weakly
  fair, as the Go scheduler runs both; a terminal read returns after at most a
  tenth of a second (VTIME 1). The exception is a read that starts after the
  terminal was restored to line mode and before it was closed (`stuckReading`): it
  waits for a line, and only the user ends it. Cancelling, pressing keys and ending
  a line are not fair.

### Disagreements with what the repository says

Each has a run in which TLC shows a behaviour of the code that breaks the
statement.

| Run | Statement | What the code does |
|---|---|---|
| `cpu_skipped_instruction` | `cpu6502_test.go:1059`: an IRQ pushes the address of the instruction it kept from starting | after RTS, which reads ahead, it pushes that address plus one, and RTI resumes there |
| `cpu_stop_pc` | `main.go:168`: stop before the instruction at the address executes | an instruction reached by RTS executes, because PC is already one past it |
| `run_dump_table` | `README.md:93`: resume the execution, dump memory | a dump rebinds the opcode table to the disassembler's CPU; the resumed machine no longer changes its own registers |
| `run_controls_gone` | `README.md:92`: press space while the emulator is running | the first tenth of a second without a key ends the control goroutine, since an empty read is an error (`io.EOF`) |

Noted while modelling, without a run, because nothing in the repository says
otherwise:

* the table declares five cycles for BBR and BBS, which a branch not taken ends in
  four (`ExtraCycles` states it); BRK is declared with one byte and reads two;
* `log.Fatalf` after a failed step leaves the terminal as it is;
* `AppleIIeCRTC.Reset` keeps the display mode, so that after a reset MMU and CRTC
  differ on the switches that were set (`stale` in `SoftSwitches`);
* the vertical blank reads low for a single tick of a frame, and frames follow the
  cycle counter and not the beam;
* under mixed high-resolution graphics the text rows are read from the
  high-resolution page (`Band`); double low and high resolution cannot be reached
  by the switches the machine routes;
* $C020-$C02F and $C040-$C04F reach the MMU and not the soft switches (`Routing`);
* a Close after a failed Init would wait for a thread that is gone; the program
  does not use such a renderer;
* a frame with the trace may show the registers of the instruction after its last
  line (or the header a reset has asked for again, without its instruction), and a
  frame drawn in the cycle of a switch parts of two modes: the
  properties `TraceOfOneMoment` and `WholeFrame` say how far this goes.

## 4. Proofs

All theorems hold for every value of the constants, under the named assumptions
of their modules.

| Theorem | Statement |
|---|---|
| `NeverStranded` | `Spec => [](TypeOK /\ NoKeyStranded)` of the keyboard |
| `HistoryFollowed` | `HSpec => []HistoryInv` |
| `KeyboardImplementsLog` | `HSpec => ImplementsLog` |
| `PollingTakesInOrder` | `CSpec => []TakesInOrder`: window, keyboard and polling program together |
| `KeyboardInConsole` | `CSpec => ImplementsLog /\ []HistoryInv`: the same promise in the console |
| `WorkIsHandedOver` | `CSpec => []HandedOver`, for any number of callers |
| `TypeCorrect` | `Spec => []TypeOK` of the core |
| `InstructionsKeepTime` | `TSpec => InstructionTiming` |
| `InstructionsKeepLength` | `TSpec => InstructionLength` |
| `AccessesAreEffective` | `TSpec => EffectiveAddressOK` |
| `PointersWrap` | `TSpec => PointerWrapsInPage` |
| `IRQStaysMasked` | `CSpec => []HandlersMaskIRQ` |
| `ReturnsFindTheirCalls` | `CSpec => ReturnsMatchCalls` |
| `InterruptsResume` | `CSpec => InterruptsReturn` |
| `MMUTypeCorrect` | `Spec => []TypeOK` of the MMU |
| `MMUImplementsWindow` | `HSpec => ImplementsWindow` |
| `ExpansionOwned` | `HSpec => []ExpansionFollowsSelection` |
| `TextReadsBack` | `HSpec => TextReadBack` |
| `MMUInMachine` | the four of the MMU, of `SSpec`: behind the soft switches and the machine's reset |
| `CopiesAgree` | `SSpec => []SwitchesAgree` |
| `StoresAreShown` | `SSpec => StoredIsShown` |
| `BeamCorrect` | `HSpec => [](BeamTypeOK /\ BeamPosition /\ RendererFollowsMode)` |
| `LinesLast` | `HSpec => LineLength` |
| `FramesKeepTime`, `FramesShownOnTime` | `HSpec => [](FrameSchedule /\ FramesOnTime)` |
| `BlinkKeepsPeriod` | `HSpec => []BlinkPeriod`, for every period |
| `MotherboardInLockstep` | `HSpec => ImplementsLockstep`, for any number of components |
| `AgesCorrect` | `HSpec => []AgesMatchCycle` |
| `CloseIsComplete` | `HSpec => CloseReachesAll` |
| `FramesAreWhole` | `MSpec => []WholeFrame` |
| `TraceShowsOneMoment` | `TSpec => []TraceOfOneMoment` |
| `MotherboardInMachine` | `TSpec =>` the four properties above from `ImplementsLockstep` to `WholeFrame`: in the machine with its trace |
| `RunControlTyped` | `Spec => []TypeOK` of the run loop |
| `CycleLimited` | `Spec => []CycleLimit` |
| `PauseHolds` | `HSpec => []AtMostOneLateStep` |
| `TerminalIsRestored` | `Spec => []TerminalRestored` |
| `DumpsArePaced` | `DSpec => []DumpsPaced` |
| `ChangesAreDumped` | `DSpec => []ChangesDumped` |
| `DiagnosticsKeepControl` | `DSpec => [](CycleLimit /\ TerminalRestored /\ AtMostOneLateStep)` |
| `BinaryArithmetic`, `OverflowFlag` | ADC and SBC add and subtract with carry, and V tells when the signed result does not fit |
| `DecimalSum`, `DecimalDifference` | decimal ADC and SBC add and subtract two-digit numbers |
| `RotationsInvert` | ROL and ROR undo each other |
| `CellsDistinct`, `HiResDistinct`, `CursorFound` | the interleaved pages hold every byte once, and the cursor's row is found |
| `CharactersTile` | 80 characters fill a row of any window at least 80 pixels wide without gap or overlap |
| `MapReaches`, `MapIsLocal`, `Routing` | the bus finds a mapped device exactly in its range; the device of each of the 65536 addresses |

* **Keyboard.** The invariant is `HistoryInv`: when the strobe is up, the latch is
  the first unacknowledged key of the log and the queue is the rest behind it;
  when it is down, everything is acknowledged and the latch is the last key.
  `NoKeyStranded` is needed for the second half: with a key left behind a free
  latch the log would have a pending key that no read shows. Each step of the
  keyboard then is a step of `KeyLog` or a stutter. `PollingTakesInOrder` adds that
  the program has taken the acknowledged keys and, between its poll and its clear,
  the pending one; the clear then acknowledges exactly what the poll took.
* **Window.** `HandOverInv`: whoever is between Lock and Unlock is the mutex's holder;
  the work in the channel, or with the window's goroutine, is that caller's, who
  waits; and the window lives until a Close is done, whose caller then closes the
  channel, still inside the lock. The last part says why no later Present can send
  on the closed channel.
* **Core.** `TypeOK` is inductive: the conjunct that the step counter lies inside
  the current list is what makes `Steps[current][step]` defined; the proof goes
  through each micro-operation, with arithmetic lemmas for the wrap of bytes and
  words and for `Advance`.
* **Instructions.** `TimingInv` relates the temporaries of the micro-operations to
  the record of the instruction: PC is behind the operand bytes fetched (unless a
  branch out of the page is half done, when only its page is known to differ);
  `tmpAddr`, `tmpBase` and `tmp8` hold what the bytes read so far make of them, one
  conjunct per family of modes; and having reached an operation that others skip
  tells how the branch or the page crossing came out. Lemmas over the table of
  micro-operations say, for each mode, which operation does what. `Flat` turns
  page and offset into numbers: `AddIndex` adds modulo `B*B`, `Wrap` modulo `B`, and
  a page is crossed exactly when the low bytes carry. The cycles and bytes of the
  opcode table and the penalties then follow at the last tick, mode by mode. That
  nothing is assumed of the operands means that the theorems hold for 256 byte
  values, of which TLC sees six.
* **Calls and interrupts.** None of the three properties is inductive, and the
  invariant they need is that of the whole stack (`StackInv`): each frame lies on the
  one below, its bytes on the stack page are what it says (`Holds`), slot by slot,
  and SP is where the bytes pushed so far put it. To this it adds how many bytes a
  sequence in progress has pushed or pulled before each of its operations, what those
  bytes are (`PushInv`, `PullInv`), what the sequence began with (`OriginInv`), the room
  left for interrupts that may still nest (`RoomInv`, `CountInv`), so that no two bytes
  in use share a slot although slots wrap, and that I is set in a handler, or saved
  as set by whatever lies on top of one (`FlagInv`, `Above`). The prefetch needs a
  conjunct of its own (`PrefInv`): the opcode that RTS has read ahead must be one the
  program may execute with the frames that are left. An interrupt taken while an
  opcode is prefetched saves the address behind that opcode, so its frame is not
  `clean`, and `InterruptsResume` says nothing of where it resumes:
  that is the disagreement `cpu_skipped_instruction` shows.
* **MMU.** `ImplementsWindow` needs no more than the types: every action of the
  MMU and the card is one of `AuxWindow`. `ExpansionOwned` rests on the invariant
  that `activeSlot` is the card whose page was last read (or 0). For a ROM shorter
  than its page, which `LoadSlotROM` accepts, a read past its end selects the card
  although main or the internal ROM answers; a watcher of the bus has to count such
  a read too (`SilentCard`), and then no assumption on the ROMs is needed. That the
  byte is one of the card's ROM follows from `OffsetType`. `TextReadsBack` rests on the invariant
  that, while the text bank is known, 80STORE is on and PAGE2 names that bank.
* **Soft switches.** Every step of `SoftSwitches` is a step of the MMU or leaves it
  alone, which carries the MMU's theorems over. `SwitchInv` adds to `SwitchesAgree`
  that a stale switch is clear in the MMU and set in the CRTC, which is what
  `StoresAreShown` needs after a reset.
* **CRTC.** `BeamInv` ties raster line, row and count together. `LineInv` bounds
  the column counter by the ticks of the line from both sides: a tick adds one
  column or two, and while no switch falls into a tick a column of width 1 is only
  added before the total of 40 columns is reached. `FrameInv` is the schedule
  itself with its types, and also gives when frames are shown; `BlinkKeepsPeriod` needs
  that counting one frame moves the quotient by `BlinkFrames` exactly when the
  remainder becomes 0.
* **Motherboard.** `LockInv` says whose tick has returned and, in a Reset, which
  components have been reset; the refinement maps a component's age to its age at
  the last join, so that the join is the step of `Lockstep`. `AgeInv` adds that no
  age grows in a Reset and that without a failed one all equal the counter.
  `CloseIsComplete` counts the components before `position`, which are pairwise
  different because there are as many of them as positions.
* **Frames and traces.** `DrawInv`: a frame is drawn within one Step, so that in a cycle
  without a write the mode stands still from its first band to its last, and what is
  drawn so far is the beginning of the frame of that mode. What holds between two
  Steps is only that the way of rendering is the mode's: one would expect that the
  page is too, but the setter of 80STORE changes which page is shown and refreshes
  nothing. The page is computed anew for every band, so no frame shows the old one.
  `WrittenInv` says which lines the overlay holds: the last of the history `script`,
  with the header and the line of this Step as far as they are written; it ties
  `headerOut` to the resets, and `PresentInv` says
  what Present has read by then; a line is complete before its Step is, so that text
  and registers are at most one instruction apart. The lemmas about `Latest` say that
  keeping the last lines of those kept before is keeping the last of all.
* **Run loop.** `CycleLimited`: the loop gets to `stepping` only with
  `cycle < MaxCycles`, because nothing but the step itself moves the cycle after the
  check. `PauseHolds`: a late step can only be begun from `ready`, and the loop
  gets there again only through a look at the flag. `TerminalIsRestored` follows
  the shutdown: its place in `main` determines `tty` and `stopCh`, and the control
  goroutine acts only while the process is there, so that it does not come back
  after `Exit` has seen it gone.
* **Diagnostics.** `DiagInv` ties the runtime's record (`watch`) to the clock: while
  80-column text is on it knows since when, it has last looked less than an interval
  ago, it holds the last screen of the log and counts the log. Only a failed step
  lets the cycle counter and that clock disagree, and it ends the run.
  `DumpsArePaced` needs the last look to be at or after the last dump;
  `ChangesAreDumped` that a screen which has stood since the last look is the one seen.
* **Compositions.** `MMUInMachine`, `KeyboardInConsole`, `MotherboardInMachine` and
  `DiagnosticsKeepControl` carry the theorems of a component to the modules that compose
  it: every step of the composition is one of the component or leaves it alone.
* **Algorithms.** `MapReaches` and `Routing` need that the choice in `findMapping`
  exists: the least span among the mappings that hold the address, and the last
  index among those, by well-foundedness of the natural numbers. The interleaved
  offsets are taken apart by division, digit by digit.

Every safety property, action property and refinement that a passing run checks is
stated by one of these theorems. The runs check them all the same: they show that
the formulas mean something on instances, and that each fails when the code has a
bug of the kind it is about.

Only model-checked: all liveness (`EveryKeyTaken`, `CallsReturn`, the three of
`cpu_liveness`, `StepsReturn`, `CancelEndsLoop`, `ShutdownEnds`), because fairness
and ENABLED are out of the prover's reach. The properties of the four violation runs
are false.

## 5. Not modelled, and why

* **Pixels, glyphs, image composition, the C calls of Vulkan, key tables of GLFW
  beyond the translation:** data without control. The places of bytes and the spans
  of characters, which are arithmetic, are in `ScreenLayout`.
* **Wording and colours of the trace, layout of dumps and disassembly:** text that
  no property is about. The disassembler's one effect on the machine, the rebinding
  of the opcode table, is in `RunControl`.
* **Options, ROM paths, the ROM configuration file and the loaders:** sequential
  code on text, run once before the machine starts; their result is the constants
  of the models.
* **Null devices and plain RAM:** they keep no state that anything depends on; the
  Apple IIe machine does not use the plain RAM.
* **Core and MMU in one state space:** the dummy read of an indexed store
  (`lang.go:533`) can use the card's override before the store does. `AuxWindow`
  covers every order of accesses, but not which access belongs to which
  instruction.
* **Run loop and bus in one state space:** the accesses of a memory dump that
  overlap the late step (`main.go:969`).

What is left to do, in this order: the composition of core and MMU for the first of
the last two, that of run loop, keyboard and card for the second; safety halves of
the liveness properties (what must hold whenever a goroutine waits), which could be
proved where the liveness cannot.
