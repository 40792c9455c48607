------------------------------ MODULE Keyboard ------------------------------
(***************************************************************************)
(* The Apple II keyboard soft switch (peripheral/keyboard.go).  Host key   *)
(* events arrive from the window callbacks on the main thread, soft-switch *)
(* reads and writes from the CPU's tick goroutine; Keyboard.mu makes each  *)
(* handler one atomic step, and the steps of the two threads interleave    *)
(* freely.                                                                 *)
(***************************************************************************)
EXTENDS Integers, Sequences

CONSTANTS
  HostEvents,   \* the host key events of the instance: [rune, code, action]
  MaxQueue      \* bound on the queue, which the code lets grow without limit

Byte7   == 0 .. 127
NoKey   == -1
Actions == {"press", "repeat", "release"}

(* The control keys the host can send with no rune, and their Apple II code. *)
CodeByte ==
  [ Enter     |-> 13, Escape |-> 27, Backspace |-> 8,  Delete |-> 8,
    Left      |-> 8,  Right  |-> 21, Up        |-> 11, Down   |-> 10,
    Tab       |-> 9,  Space  |-> 32 ]

Codes == DOMAIN CodeByte \cup {"Unknown", "Home", "End"}

ASSUME HostEventsAssumption ==
  HostEvents \subseteq [rune : Nat, code : Codes, action : Actions]
ASSUME MaxQueueAssumption == MaxQueue \in Nat

VARIABLES
  kbd,          \* the fields of type Keyboard: latch, strobe, queue
  data          \* the byte the last soft-switch read returned

vars == <<kbd, data>>

-----------------------------------------------------------------------------
(* Host side: translateHostKey and translatePrintableRune. *)

PrintableByte(rune) ==
  LET upper == IF rune \in 97 .. 122 THEN rune - 32 ELSE rune
  IN  IF upper \in 32 .. 126 THEN upper ELSE NoKey

TranslateHostKey(event) ==
  IF event.rune # 0 THEN PrintableByte(event.rune)
  ELSE IF event.code \in DOMAIN CodeByte THEN CodeByte[event.code] ELSE NoKey

(* Slips of promoteNextLocked: the newest key first, or a latch overwritten *)
(* before it was acknowledged.                                              *)
PromoteNewest(k) ==
  IF k.strobe \/ k.queue = << >>
    THEN k
    ELSE [latch |-> k.queue[Len(k.queue)] % 128, strobe |-> TRUE,
          queue |-> SubSeq(k.queue, 1, Len(k.queue) - 1)]

PromoteOverPending(k) ==
  IF k.queue = << >>
    THEN k
    ELSE [latch |-> Head(k.queue) % 128, strobe |-> TRUE, queue |-> Tail(k.queue)]

(* promoteNextLocked: move the oldest queued key to a free latch. *)
PromoteNext(k) ==
  IF k.strobe \/ k.queue = << >>
    THEN k
    ELSE [latch |-> Head(k.queue) % 128, strobe |-> TRUE, queue |-> Tail(k.queue)]

(* A slip of clearStrobeLocked: the queue is left alone. *)
ClearOnly(k) == [k EXCEPT !.strobe = FALSE]

(* clearStrobeLocked: the strobe falls and the next key, if any, is latched. *)
ClearStrobe(k) == PromoteNext([k EXCEPT !.strobe = FALSE])

(* readLatchedKeyLocked: bit 7 of the byte is the strobe. *)
LatchedKey(k) == (k.latch % 128) + (IF k.strobe THEN 128 ELSE 0)

-----------------------------------------------------------------------------
Blank == [latch |-> 0, strobe |-> FALSE, queue |-> << >>]

Init ==
  /\ kbd = Blank
  /\ data = 0

Reset ==
  /\ kbd' = Blank
  /\ UNCHANGED data

(* A slip of HandleKeyEvent: the key behind a pending one is dropped. *)
KeyDownWhenFree(byte) ==
  /\ Len(kbd.queue) < MaxQueue
  /\ kbd' = IF kbd.strobe THEN kbd ELSE PromoteNext([kbd EXCEPT !.queue = Append(@, byte)])
  /\ UNCHANGED data

(* A press or a repeat of a key that has an Apple II code is queued. *)
KeyDown(byte) ==
  /\ Len(kbd.queue) < MaxQueue
  /\ kbd' = PromoteNext([kbd EXCEPT !.queue = Append(@, byte)])
  /\ UNCHANGED data

HandleKeyEvent(event) ==
  /\ event.action \in {"press", "repeat"}
  /\ TranslateHostKey(event) # NoKey
  /\ KeyDown(TranslateHostKey(event))

(* A read of $C000: the latched key, no side effect. *)
ReadData ==
  /\ data' = LatchedKey(kbd)
  /\ UNCHANGED kbd

(* A read of $C010: the latched key, and the strobe is cleared after it. *)
ReadStrobe ==
  /\ data' = LatchedKey(kbd)
  /\ kbd' = ClearStrobe(kbd)

(* A write of $C010 clears the strobe; a write of $C000 does nothing. *)
WriteStrobe ==
  /\ kbd' = ClearStrobe(kbd)
  /\ UNCHANGED data

Next ==
  \/ Reset
  \/ \E event \in HostEvents : HandleKeyEvent(event)
  \/ ReadData
  \/ ReadStrobe
  \/ WriteStrobe

Spec == Init /\ [][Next]_vars

-----------------------------------------------------------------------------
KeyboardType ==
  [latch : Byte7, strobe : BOOLEAN, queue : Seq(Byte7)]

(* The fields of the keyboard keep their types, and a read returns a byte. *)
TypeOK ==
  /\ kbd \in KeyboardType
  /\ data \in 0 .. 255

(* keyboard.go:95-108: no key waits behind a free latch.  A key typed just *)
(* after an acknowledgement, or queued while one was pending, is never     *)
(* left in the queue with the strobe down, where the program would only    *)
(* see it after the next keystroke.                                        *)
NoKeyStranded == ~kbd.strobe => kbd.queue = << >>

=============================================================================
