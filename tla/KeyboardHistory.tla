-------------------------- MODULE KeyboardHistory ---------------------------
(***************************************************************************)
(* Keyboard with the history its promise is stated about: the keys that    *)
(* entered it and the number of them whose strobe was cleared.  Neither    *)
(* variable is read by the keyboard's own actions.                         *)
(***************************************************************************)
EXTENDS Keyboard

CONSTANT MaxTyped   \* bound on the keys typed between two resets

VARIABLES
  typed,        \* keys that HandleKeyEvent accepted since the last Reset
  acks          \* strobes that were up when they were cleared since then

hvars == <<kbd, data, typed, acks>>

CountAck == acks' = IF kbd.strobe THEN acks + 1 ELSE acks

HInit == Init /\ typed = << >> /\ acks = 0

HReset == Reset /\ typed' = << >> /\ acks' = 0

HKeyEvent(event) ==
  /\ Len(typed) < MaxTyped
  /\ HandleKeyEvent(event)
  /\ typed' = Append(typed, TranslateHostKey(event))
  /\ UNCHANGED acks

HReadData == ReadData /\ UNCHANGED <<typed, acks>>

HReadStrobe == ReadStrobe /\ CountAck /\ UNCHANGED typed

HWriteStrobe == WriteStrobe /\ CountAck /\ UNCHANGED typed

HNext ==
  \/ HReset
  \/ \E event \in HostEvents : HKeyEvent(event)
  \/ HReadData
  \/ HReadStrobe
  \/ HWriteStrobe

HSpec == HInit /\ [][HNext]_hvars

-----------------------------------------------------------------------------
Log == INSTANCE KeyLog WITH seen <- data

(* keyboard.go:42-83: whatever the order of keystrokes, polls and strobe   *)
(* clears, the keyboard behaves as the log with a cursor: every key is     *)
(* shown in the order typed, until it is acknowledged once, never again,   *)
(* and none is skipped.                                                    *)
ImplementsLog == Log!Spec

(* The link between the fields and the history, from which ImplementsLog   *)
(* follows: the latch holds the first unacknowledged key and the queue the *)
(* ones behind it (keyboard.go:95-108).                                    *)
LatchFollowsLog ==
  IF kbd.strobe
    THEN /\ acks < Len(typed)
         /\ kbd.latch = typed[acks + 1]
         /\ Len(kbd.queue) = Len(typed) - acks - 1
         /\ \A i \in 1 .. Len(kbd.queue) : kbd.queue[i] = typed[acks + 1 + i]
    ELSE /\ acks = Len(typed)
         /\ kbd.latch = IF typed = << >> THEN 0 ELSE typed[Len(typed)]

HistoryInv ==
  /\ TypeOK
  /\ NoKeyStranded
  /\ typed \in Seq(Byte7)
  /\ acks \in Nat
  /\ LatchFollowsLog

=============================================================================
