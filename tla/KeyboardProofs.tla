--------------------------- MODULE KeyboardProofs ---------------------------
(***************************************************************************)
(* The keyboard implements the key log, for every set of host events and   *)
(* every bound on the queue and the history.  HistoryInv is the inductive  *)
(* invariant: it ties the latch and the queue to the unacknowledged keys.  *)
(* The renderer hands its lock over with the work, by HandOverInv.         *)
(***************************************************************************)
EXTENDS Console, TLAPS

(* A key with an Apple II code is a 7-bit byte (keyboard.go:110-151). *)
LEMMA TranslationIsByte ==
  ASSUME NEW event \in HostEvents, TranslateHostKey(event) # NoKey
  PROVE  TranslateHostKey(event) \in Byte7
<1>1. event.rune \in Nat
  BY HostEventsAssumption
<1>2. CASE event.rune # 0
  BY <1>1, <1>2 DEF TranslateHostKey, PrintableByte, NoKey, Byte7
<1>3. CASE event.rune = 0
  BY <1>3 DEF TranslateHostKey, CodeByte, NoKey, Byte7
<1>4. QED
  BY <1>2, <1>3

(* Masking a key with 0x7F, or adding no strobe to it, leaves it as it is. *)
LEMMA MaskIsIdentity == \A n \in Byte7 : n % 128 = n /\ n + 0 = n
  BY DEF Byte7

(* Promotion keeps the fields' types, keeps latch and queue in order and   *)
(* leaves no key behind a free latch (keyboard.go:95-108).                 *)
LEMMA PromoteNextEffect ==
  ASSUME NEW k \in KeyboardType
  PROVE  /\ PromoteNext(k) \in KeyboardType
         /\ ~PromoteNext(k).strobe => PromoteNext(k).queue = << >>
         /\ k.strobe => PromoteNext(k) = k
         /\ k.queue = << >> => PromoteNext(k) = k
         /\ ~k.strobe /\ k.queue # << >> =>
              PromoteNext(k) = [latch  |-> Head(k.queue),
                                strobe |-> TRUE,
                                queue  |-> Tail(k.queue)]
<1>1. CASE k.strobe \/ k.queue = << >>
  BY <1>1 DEF PromoteNext, KeyboardType
<1>2. CASE ~k.strobe /\ k.queue # << >>
  <2>1. Head(k.queue) \in Byte7 /\ Tail(k.queue) \in Seq(Byte7)
    BY <1>2 DEF KeyboardType
  <2>2. Head(k.queue) % 128 = Head(k.queue)
    BY <2>1, MaskIsIdentity
  <2>3. QED
    BY <1>2, <2>1, <2>2 DEF PromoteNext, KeyboardType
<1>3. QED
  BY <1>1, <1>2

LEMMA LatchedKeyIsByte ==
  ASSUME NEW k \in KeyboardType
  PROVE  /\ LatchedKey(k) \in 0 .. 255
         /\ LatchedKey(k) = k.latch + (IF k.strobe THEN 128 ELSE 0)
<1>1. k.latch \in Byte7
  BY DEF KeyboardType
<1>2. k.latch % 128 = k.latch
  BY <1>1, MaskIsIdentity
<1>3. QED
  BY <1>1, <1>2 DEF LatchedKey, Byte7

-----------------------------------------------------------------------------
(* What the keyboard's own actions preserve, with no reference to history. *)
KeyboardInv == TypeOK /\ NoKeyStranded

LEMMA KeyboardInvInductive == KeyboardInv /\ [Next]_vars => KeyboardInv'
<1> SUFFICES ASSUME KeyboardInv, [Next]_vars PROVE KeyboardInv'
  OBVIOUS
<1> USE DEF KeyboardInv, TypeOK, NoKeyStranded
<1>1. CASE Reset
  BY <1>1 DEF Reset, Blank, KeyboardType, Byte7
<1>2. ASSUME NEW event \in HostEvents, HandleKeyEvent(event)
      PROVE  KeyboardInv'
  <2> DEFINE byte == TranslateHostKey(event)
             k    == [kbd EXCEPT !.queue = Append(@, byte)]
  <2>1. byte \in Byte7
    BY <1>2, TranslationIsByte DEF HandleKeyEvent
  <2>2. k \in KeyboardType
    BY <2>1 DEF KeyboardType
  <2>3. kbd' = PromoteNext(k) /\ data' = data
    BY <1>2 DEF HandleKeyEvent, KeyDown
  <2>4. QED
    BY <2>2, <2>3, PromoteNextEffect
<1>3. CASE ReadData
  BY <1>3, LatchedKeyIsByte DEF ReadData
<1>4. ASSUME kbd' = ClearStrobe(kbd), data' \in 0 .. 255
      PROVE  KeyboardInv'
  <2>1. [kbd EXCEPT !.strobe = FALSE] \in KeyboardType
    BY DEF KeyboardType
  <2>2. QED
    BY <1>4, <2>1, PromoteNextEffect DEF ClearStrobe
<1>5. CASE ReadStrobe
  BY <1>4, <1>5, LatchedKeyIsByte DEF ReadStrobe
<1>6. CASE WriteStrobe
  BY <1>4, <1>6 DEF WriteStrobe
<1>7. CASE UNCHANGED vars
  BY <1>7 DEF vars
<1>8. QED
  BY <1>1, <1>2, <1>3, <1>5, <1>6, <1>7 DEF Next

(* keyboard.go:95-108: whatever keystrokes and accesses interleave, no key *)
(* is left queued behind a free latch.                                     *)
THEOREM NeverStranded == Spec => [](TypeOK /\ NoKeyStranded)
<1>1. Init => KeyboardInv
  BY DEF Init, Blank, KeyboardInv, TypeOK, NoKeyStranded, KeyboardType, Byte7
<1>2. QED
  BY <1>1, KeyboardInvInductive, PTL DEF Spec, KeyboardInv

-----------------------------------------------------------------------------
(* A step with history is a step of the keyboard. *)
LEMMA HistoryStepIsStep == [HNext]_hvars => [Next]_vars
  BY DEF HNext, hvars, Next, vars, HReset, HKeyEvent, HReadData, HReadStrobe,
         HWriteStrobe

(* Clearing the strobe moves the cursor of the log by the key it held. *)
LEMMA ClearFollowsLog ==
  ASSUME HistoryInv, kbd' = ClearStrobe(kbd), CountAck, UNCHANGED typed
  PROVE  LatchFollowsLog' /\ acks' \in Nat
<1> DEFINE k == [kbd EXCEPT !.strobe = FALSE]
<1> USE DEF HistoryInv, TypeOK, NoKeyStranded
<1>1. /\ k \in KeyboardType
      /\ ~k.strobe /\ k.queue = kbd.queue /\ k.latch = kbd.latch
      /\ kbd' = PromoteNext(k)
  BY DEF KeyboardType, ClearStrobe
<1>2. acks' \in Nat
  BY DEF CountAck
<1>3. CASE ~kbd.strobe
  <2>1. kbd' = k
    BY <1>1, <1>3, PromoteNextEffect
  <2>2. QED
    BY <1>1, <1>2, <1>3, <2>1 DEF LatchFollowsLog, CountAck
<1>4. CASE kbd.strobe /\ kbd.queue = << >>
  <2>1. kbd' = k
    BY <1>1, <1>4, PromoteNextEffect
  <2>2. acks' = Len(typed) /\ kbd.latch = typed[Len(typed)] /\ typed # << >>
    BY <1>4 DEF LatchFollowsLog, CountAck
  <2>3. QED
    BY <1>1, <1>2, <2>1, <2>2 DEF LatchFollowsLog
<1>5. CASE kbd.strobe /\ kbd.queue # << >>
  <2>1. kbd' = [latch |-> Head(kbd.queue), strobe |-> TRUE, queue |-> Tail(kbd.queue)]
    BY <1>1, <1>5, PromoteNextEffect
  <2>2. kbd.queue \in Seq(Byte7) /\ Len(kbd.queue) > 0
    BY <1>5 DEF KeyboardType
  <2>3. /\ Head(kbd.queue) = kbd.queue[1]
        /\ Len(Tail(kbd.queue)) = Len(kbd.queue) - 1
        /\ \A i \in 1 .. Len(Tail(kbd.queue)) : Tail(kbd.queue)[i] = kbd.queue[i + 1]
    BY <2>2
  <2>4. acks' = acks + 1
    BY <1>5 DEF CountAck
  <2>5. acks \in Nat /\ Len(kbd.queue) \in Nat
    BY <2>2
  <2>6. kbd'.strobe /\ kbd'.latch = kbd.queue[1] /\ kbd'.queue = Tail(kbd.queue)
    BY <2>1, <2>3
  <2>7. /\ Len(kbd.queue) = Len(typed) - acks - 1
        /\ \A i \in 1 .. Len(kbd.queue) : kbd.queue[i] = typed[acks + 1 + i]
    BY <1>5 DEF LatchFollowsLog
  <2>8. kbd.queue[1] = typed[acks + 2]
    BY <2>2, <2>5, <2>7
  <2>9. \A i \in 1 .. Len(Tail(kbd.queue)) : Tail(kbd.queue)[i] = typed[acks + 2 + i]
    <3> SUFFICES ASSUME NEW i \in 1 .. Len(Tail(kbd.queue))
                 PROVE  Tail(kbd.queue)[i] = typed[acks + 2 + i]
      OBVIOUS
    <3>1. i + 1 \in 1 .. Len(kbd.queue) /\ acks + 1 + (i + 1) = acks + 2 + i
      BY <2>3, <2>5
    <3>2. QED
      BY <2>3, <2>7, <3>1
  <2>10. QED
    BY <1>2, <2>2, <2>3, <2>4, <2>5, <2>6, <2>7, <2>8, <2>9 DEF LatchFollowsLog
<1>6. QED
  BY <1>3, <1>4, <1>5

LEMMA SingletonSequence ==
  ASSUME NEW b
  PROVE  LET one == Append(<< >>, b)
         IN  one # << >> /\ Head(one) = b /\ Tail(one) = << >>
<1>1. Append(<< >>, b) = <<b>>
  OBVIOUS
<1>2. Tail(<<b>>) = << >> /\ Head(<<b>>) = b /\ <<b>> # << >>
  OBVIOUS
<1>3. QED
  BY <1>1, <1>2

(* Typing a key appends it to the log and to the latch or the queue. *)
LEMMA TypeFollowsLog ==
  ASSUME HistoryInv, NEW event \in HostEvents, HKeyEvent(event)
  PROVE  LatchFollowsLog' /\ typed' \in Seq(Byte7) /\ acks' \in Nat
<1> DEFINE byte == TranslateHostKey(event)
           k    == [kbd EXCEPT !.queue = Append(@, byte)]
<1> USE DEF HistoryInv, TypeOK, NoKeyStranded
<1>1. byte \in Byte7
  BY TranslationIsByte DEF HKeyEvent, HandleKeyEvent
<1>2. /\ typed' = Append(typed, byte)
      /\ acks' = acks
      /\ kbd' = PromoteNext(k)
  BY DEF HKeyEvent, HandleKeyEvent, KeyDown
<1>3. /\ k \in KeyboardType
      /\ k.strobe = kbd.strobe /\ k.latch = kbd.latch
      /\ k.queue = Append(kbd.queue, byte)
  <2>1. kbd \in KeyboardType /\ kbd.queue \in Seq(Byte7)
    BY DEF KeyboardType
  <2>2. Append(kbd.queue, byte) \in Seq(Byte7)
    BY <1>1, <2>1
  <2>3. QED
    BY <2>1, <2>2 DEF KeyboardType
<1>4. typed' \in Seq(Byte7) /\ Len(typed') = Len(typed) + 1
      /\ typed'[Len(typed) + 1] = byte
      /\ \A i \in 1 .. Len(typed) : typed'[i] = typed[i]
  BY <1>1, <1>2
<1>5. CASE kbd.strobe
  <2>1. kbd' = k
    BY <1>2, <1>3, <1>5, PromoteNextEffect
  <2>2. kbd.queue \in Seq(Byte7)
    BY DEF KeyboardType
  <2>3. /\ Len(k.queue) = Len(kbd.queue) + 1
        /\ k.queue[Len(kbd.queue) + 1] = byte
        /\ \A i \in 1 .. Len(kbd.queue) : k.queue[i] = kbd.queue[i]
    BY <1>1, <1>3, <2>2
  <2>4. /\ acks < Len(typed) /\ kbd.latch = typed[acks + 1]
        /\ Len(kbd.queue) = Len(typed) - acks - 1
        /\ \A i \in 1 .. Len(kbd.queue) : kbd.queue[i] = typed[acks + 1 + i]
    BY <1>5 DEF LatchFollowsLog
  <2>5. acks \in Nat /\ Len(typed) \in Nat /\ Len(kbd.queue) \in Nat
    BY <2>2
  <2>6. \A i \in 1 .. Len(k.queue) : k.queue[i] = typed'[acks + 1 + i]
    <3> SUFFICES ASSUME NEW i \in 1 .. Len(k.queue)
                 PROVE  k.queue[i] = typed'[acks + 1 + i]
      OBVIOUS
    <3>1. CASE i \in 1 .. Len(kbd.queue)
      <4>1. acks + 1 + i \in 1 .. Len(typed)
        BY <2>4, <2>5, <3>1
      <4>2. QED
        BY <1>4, <2>3, <2>4, <3>1, <4>1
    <3>2. CASE i = Len(kbd.queue) + 1
      <4>1. acks + 1 + i = Len(typed) + 1
        BY <2>4, <2>5, <3>2
      <4>2. QED
        BY <1>4, <2>3, <3>2, <4>1
    <3>3. QED
      BY <2>3, <2>5, <3>1, <3>2
  <2>7. typed'[acks + 1] = typed[acks + 1]
    BY <1>4, <2>4, <2>5
  <2>8. kbd'.strobe /\ kbd'.latch = kbd.latch /\ kbd'.queue = k.queue
    BY <1>3, <1>5, <2>1
  <2>9. acks' < Len(typed') /\ Len(kbd'.queue) = Len(typed') - acks' - 1
    BY <1>2, <1>4, <2>3, <2>4, <2>5, <2>8
  <2>10. kbd'.latch = typed'[acks' + 1]
    BY <1>2, <2>4, <2>7, <2>8
  <2>11. \A i \in 1 .. Len(kbd'.queue) : kbd'.queue[i] = typed'[acks' + 1 + i]
    BY <1>2, <2>6, <2>8
  <2>12. LatchFollowsLog'
    BY <2>8, <2>9, <2>10, <2>11 DEF LatchFollowsLog
  <2>13. QED
    BY <1>2, <1>4, <2>12
<1>6. CASE ~kbd.strobe
  <2>1. k.queue = Append(<< >>, byte)
    BY <1>3, <1>6
  <2>2. Head(k.queue) = byte /\ Tail(k.queue) = << >> /\ k.queue # << >>
    <3> HIDE DEF byte, k
    <3> QED
      BY <2>1, SingletonSequence
  <2>3. kbd'.strobe /\ kbd'.latch = byte /\ kbd'.queue = << >>
    <3> HIDE DEF byte, k
    <3>1. kbd' = [latch |-> Head(k.queue), strobe |-> TRUE, queue |-> Tail(k.queue)]
      BY <1>2, <1>3, <1>6, <2>2, PromoteNextEffect
    <3>2. QED
      BY <2>2, <3>1
  <2>4. acks' = Len(typed)
    BY <1>2, <1>6 DEF LatchFollowsLog
  <2>5. /\ acks' < Len(typed') /\ acks' + 1 = Len(typed) + 1
        /\ Len(kbd'.queue) = 0 /\ Len(typed') - acks' - 1 = 0
    BY <1>4, <2>3, <2>4
  <2>6. kbd'.latch = typed'[acks' + 1]
    BY <1>4, <2>3, <2>5
  <2>7. LatchFollowsLog'
    BY <2>3, <2>5, <2>6 DEF LatchFollowsLog
  <2>8. QED
    BY <1>2, <1>4, <2>7
<1>7. QED
  BY <1>5, <1>6

LEMMA HistoryInvInductive == HistoryInv /\ [HNext]_hvars => HistoryInv'
<1> SUFFICES ASSUME HistoryInv, [HNext]_hvars PROVE HistoryInv'
  OBVIOUS
<1>1. TypeOK' /\ NoKeyStranded'
  BY KeyboardInvInductive, HistoryStepIsStep DEF HistoryInv, KeyboardInv
<1>2. LatchFollowsLog' /\ typed' \in Seq(Byte7) /\ acks' \in Nat
  <2>1. CASE HReset
    BY <2>1 DEF HReset, Reset, Blank, LatchFollowsLog
  <2>2. ASSUME NEW event \in HostEvents, HKeyEvent(event)
        PROVE  LatchFollowsLog' /\ typed' \in Seq(Byte7) /\ acks' \in Nat
    BY <2>2, TypeFollowsLog
  <2>3. CASE HReadData
    BY <2>3 DEF HReadData, ReadData, HistoryInv, LatchFollowsLog
  <2>4. CASE HReadStrobe
    BY <2>4, ClearFollowsLog DEF HReadStrobe, ReadStrobe, HistoryInv
  <2>5. CASE HWriteStrobe
    BY <2>5, ClearFollowsLog DEF HWriteStrobe, WriteStrobe, HistoryInv
  <2>6. CASE UNCHANGED hvars
    BY <2>6 DEF hvars, HistoryInv, LatchFollowsLog
  <2>7. QED
    BY <2>1, <2>2, <2>3, <2>4, <2>5, <2>6 DEF HNext
<1>3. QED
  BY <1>1, <1>2 DEF HistoryInv

(* The latch and the queue always hold the unacknowledged keys in order. *)
THEOREM HistoryFollowed == HSpec => []HistoryInv
<1>1. HInit => HistoryInv
  BY DEF HInit, Init, Blank, HistoryInv, TypeOK, NoKeyStranded, KeyboardType,
         Byte7, LatchFollowsLog
<1>2. QED
  BY <1>1, HistoryInvInductive, PTL DEF HSpec

-----------------------------------------------------------------------------
(* What a read returns is what the log shows. *)
LEMMA ReadShowsLog ==
  ASSUME HistoryInv
  PROVE  LatchedKey(kbd) = Log!Shown /\ (kbd.strobe <=> Log!Pending)
<1> USE DEF HistoryInv, TypeOK
<1>1. kbd \in KeyboardType /\ kbd.latch \in Byte7
  BY DEF KeyboardType
<1>3. LatchedKey(kbd) = kbd.latch + (IF kbd.strobe THEN 128 ELSE 0)
  BY <1>1, LatchedKeyIsByte
<1>2. kbd.strobe <=> Log!Pending
  BY DEF LatchFollowsLog, Log!Pending
<1>4. CASE kbd.strobe
  BY <1>1, <1>2, <1>3, <1>4 DEF LatchFollowsLog, Log!Shown, Byte7
<1>5. CASE ~kbd.strobe
  <2>1. LatchedKey(kbd) = kbd.latch
    <3>1. (IF kbd.strobe THEN 128 ELSE 0) = 0
      BY <1>5
    <3>2. kbd.latch + 0 = kbd.latch
      BY <1>1, MaskIsIdentity
    <3>3. QED
      BY <1>3, <3>1, <3>2
  <2>2. kbd.latch = IF typed = << >> THEN 0 ELSE typed[Len(typed)]
    BY <1>5 DEF LatchFollowsLog
  <2>3. QED
    BY <1>2, <1>5, <2>1, <2>2 DEF Log!Shown
<1>6. QED
  BY <1>2, <1>4, <1>5

(* keyboard.go:42-108: the keyboard implements the log with a cursor. *)
THEOREM KeyboardImplementsLog == HSpec => ImplementsLog
<1>1. HInit => Log!Init
  BY DEF HInit, Init, Log!Init
<1>2. HistoryInv /\ [HNext]_hvars => [Log!Next]_(Log!vars)
  <2> SUFFICES ASSUME HistoryInv, [HNext]_hvars PROVE [Log!Next]_(Log!vars)
    OBVIOUS
  <2>1. CASE HReset
    BY <2>1 DEF HReset, Reset, Log!Next, Log!Restart
  <2>2. ASSUME NEW event \in HostEvents, HKeyEvent(event)
        PROVE  Log!Next
    BY <2>2, TranslationIsByte
       DEF HKeyEvent, HandleKeyEvent, KeyDown, Byte7, Log!Next, Log!Type
  <2>3. CASE HReadData
    BY <2>3, ReadShowsLog DEF HReadData, ReadData, Log!Next, Log!Look
  <2>4. CASE HReadStrobe
    BY <2>4, ReadShowsLog
       DEF HReadStrobe, ReadStrobe, CountAck, Log!Next, Log!LookAndAcknowledge,
           Log!Acknowledged
  <2>5. CASE HWriteStrobe
    BY <2>5, ReadShowsLog
       DEF HWriteStrobe, WriteStrobe, CountAck, Log!Next, Log!Acknowledge,
           Log!Acknowledged
  <2>6. CASE UNCHANGED hvars
    BY <2>6 DEF hvars, Log!vars
  <2>7. QED
    BY <2>1, <2>2, <2>3, <2>4, <2>5, <2>6 DEF HNext
<1>3. QED
  BY <1>1, <1>2, HistoryFollowed, PTL DEF HSpec, ImplementsLog, Log!Spec

-----------------------------------------------------------------------------
(* The polling program.  What it has taken is the beginning of the log: the *)
(* acknowledged keys, and between its poll and its clear the one pending.  *)
Kept(keys) ==
  /\ keys \in Seq(Byte7)
  /\ Len(keys) <= Len(typed)
  /\ \A i \in 1 .. Len(keys) : keys[i] = typed[i]

PollInv ==
  /\ pc \in {"poll", "ack"}
  /\ Kept(taken)
  /\ client = "polls" => Len(taken) = acks + (IF pc = "ack" THEN 1 ELSE 0)
  /\ client # "polls" => taken = << >>

(* Typing moves nothing that was taken. *)
LEMMA TypingKeepsTaken ==
  ASSUME HistoryInv, PollInv, NEW event \in HostEvents, HKeyEvent(event), UNCHANGED program
  PROVE  PollInv'
<1> DEFINE byte == TranslateHostKey(event)
<1>1. byte \in Byte7
  BY TranslationIsByte DEF HKeyEvent, HandleKeyEvent
<1>2. typed' = Append(typed, byte) /\ acks' = acks /\ typed \in Seq(Byte7)
  BY DEF HKeyEvent, HistoryInv
<1>3. Len(typed') = Len(typed) + 1 /\ \A i \in 1 .. Len(typed) : typed'[i] = typed[i]
  BY <1>1, <1>2
<1>4. UNCHANGED <<client, taken, pc>>
  BY DEF program
<1>5. Kept(taken)'
  BY <1>2, <1>3, <1>4 DEF Kept, PollInv
<1> QED BY <1>2, <1>4, <1>5 DEF PollInv

LEMMA StrobeBit == \A n \in 0 .. 127 : (n + 128) - 128 = n /\ ~(n + 0 >= 128)
  OBVIOUS

(* A poll that sees bit 7 takes the first unacknowledged key. *)
LEMMA PollTakesNext ==
  ASSUME HistoryInv, PollInv, Poll
  PROVE  PollInv'
<1>1. /\ client = "polls" /\ pc = "poll" /\ Len(taken) = acks /\ Kept(taken)
      /\ data' = LatchedKey(kbd)
      /\ UNCHANGED <<client, typed, acks>>
  <2>1. client = "polls" /\ pc = "poll"
    BY DEF Poll
  <2>2. Len(taken) = acks + 0 /\ acks \in Nat /\ Kept(taken)
    BY <2>1 DEF PollInv, HistoryInv
  <2>3. data' = LatchedKey(kbd) /\ UNCHANGED <<client, typed, acks>>
    BY DEF Poll, HReadData, ReadData
  <2> QED BY <2>1, <2>2, <2>3
<1>2. kbd.latch \in 0 .. 127 /\ acks \in Nat /\ typed \in Seq(Byte7)
  BY DEF HistoryInv, TypeOK, KeyboardType, Byte7
<1>3. /\ kbd.strobe => LatchedKey(kbd) = kbd.latch + 128
      /\ ~kbd.strobe => LatchedKey(kbd) = kbd.latch + 0
  <2>1. LatchedKey(kbd) = kbd.latch + (IF kbd.strobe THEN 128 ELSE 0)
    BY LatchedKeyIsByte DEF HistoryInv, TypeOK
  <2> QED BY <2>1, Zenon
<1>4. CASE data' >= 128
  <2>1. taken' = Append(taken, data' - 128) /\ pc' = "ack"
    BY <1>4 DEF Poll
  <2>2. kbd.strobe
    <3>1. SUFFICES ASSUME ~kbd.strobe PROVE FALSE
      OBVIOUS
    <3>2. data' = kbd.latch + 0
      BY <1>1, <1>3, <3>1
    <3> QED BY <1>2, <1>4, <3>2, StrobeBit, Zenon
  <2>3. data' - 128 = kbd.latch
    <3>1. data' = kbd.latch + 128
      BY <1>1, <1>3, <2>2
    <3> QED BY <1>2, <3>1, StrobeBit, Zenon
  <2>4. acks < Len(typed) /\ kbd.latch = typed[acks + 1]
    BY <2>2 DEF HistoryInv, LatchFollowsLog
  <2>5. taken \in Seq(Byte7) /\ kbd.latch \in Byte7
    BY <1>1, <1>2 DEF Kept, Byte7
  <2>6. /\ taken' \in Seq(Byte7) /\ Len(taken') = acks + 1
        /\ taken'[acks + 1] = typed[acks + 1]
        /\ \A i \in 1 .. acks : taken'[i] = taken[i]
    BY <1>1, <2>1, <2>3, <2>4, <2>5
  <2>7. Kept(taken)'
    BY <1>1, <1>2, <2>4, <2>6 DEF Kept
  <2> QED BY <1>1, <1>2, <2>1, <2>6, <2>7 DEF PollInv
<1>5. CASE ~(data' >= 128)
  <2>1. UNCHANGED <<taken, pc>>
    BY <1>5 DEF Poll
  <2> QED BY <1>1, <2>1 DEF PollInv, Kept
<1> QED BY <1>4, <1>5

(* The clear acknowledges the key the poll has taken: it is still pending. *)
LEMMA AckMovesOn ==
  ASSUME HistoryInv, PollInv, Ack
  PROVE  PollInv'
<1>1. /\ client = "polls" /\ pc = "ack" /\ pc' = "poll" /\ Kept(taken)
      /\ Len(taken) = acks + 1 /\ CountAck
      /\ UNCHANGED <<client, taken, typed>>
  BY DEF Ack, HReadStrobe, HWriteStrobe, PollInv
<1>2. acks \in Nat /\ typed \in Seq(Byte7)
  BY DEF HistoryInv
<1>3. acks # Len(typed)
  BY <1>1, <1>2 DEF Kept
<1>4. kbd.strobe
  BY <1>3 DEF HistoryInv, LatchFollowsLog
<1>5. acks' = acks + 1
  BY <1>1, <1>4 DEF CountAck
<1> QED BY <1>1, <1>2, <1>5 DEF PollInv, Kept

LEMMA PollInductive ==
  HistoryInv /\ PollInv /\ [CNext]_cvars => HistoryInv' /\ PollInv'
<1> SUFFICES ASSUME HistoryInv, PollInv, [CNext]_cvars
             PROVE  HistoryInv' /\ PollInv'
  OBVIOUS
<1>1. [HNext]_hvars
  BY DEF CNext, PollKey, Keystroke, Access, Poll, Ack, AnyAccess, HNext, cvars, pvars
<1>2. HistoryInv'
  BY <1>1, HistoryInvInductive
<1>3. PollInv'
  <2>1. ASSUME NEW event \in HostEvents, PollKey(event) PROVE PollInv'
    BY <2>1, TypingKeepsTaken DEF PollKey, Keystroke
  <2>2. CASE Poll
    BY <2>2, PollTakesNext
  <2>3. CASE Ack
    BY <2>3, AckMovesOn
  <2>4. CASE AnyAccess
    <3>1. client # "polls" /\ taken = << >> /\ UNCHANGED <<client, taken, pc>>
      BY <2>4 DEF AnyAccess, program, PollInv
    <3>2. typed' \in Seq(Byte7)
      BY <1>2 DEF HistoryInv
    <3> QED BY <3>1, <3>2 DEF PollInv, Kept
  <2>5. CASE UNCHANGED pvars
    BY <2>5 DEF pvars, hvars, program, PollInv, Kept
  <2> QED BY <2>1, <2>2, <2>3, <2>4, <2>5 DEF CNext, Access, cvars
<1> QED BY <1>2, <1>3

(* keyboard.go:42-56,95-108: whatever is typed, and whenever the window's   *)
(* goroutine hands it over, a polling program takes the keys in order,     *)
(* none twice and none skipped.                                            *)
THEOREM PollingTakesInOrder == CSpec => []TakesInOrder
<1>1. CInit => HistoryInv /\ PollInv
  <2> SUFFICES ASSUME CInit PROVE HistoryInv /\ PollInv
    OBVIOUS
  <2>1. HInit /\ taken = << >> /\ pc = "poll" /\ typed = << >> /\ acks = 0
    BY DEF CInit, PInit, HInit
  <2>2. HistoryInv
    BY <2>1 DEF HInit, Init, Blank, HistoryInv, TypeOK, NoKeyStranded, KeyboardType,
               Byte7, LatchFollowsLog
  <2> QED BY <2>1, <2>2 DEF PollInv, Kept
<1>2. PollInv /\ HistoryInv => TakesInOrder
  <2> SUFFICES ASSUME Kept(taken), typed \in Seq(Byte7) PROVE IsPrefix(taken, typed)
    BY DEF PollInv, HistoryInv, TakesInOrder
  <2>1. SubSeq(taken, 1, Len(taken)) = SubSeq(typed, 1, Len(taken))
    BY DEF Kept
  <2> QED BY <2>1 DEF Kept, IsPrefix
<1> QED BY <1>1, <1>2, PollInductive, PTL DEF CSpec

-----------------------------------------------------------------------------
(* The renderer. *)

(* The places of a call, and those at which it is inside mu.               *)
Places == {"idle", "lock", "locked", "wait", "done"}
Inside == {"locked", "wait", "done"}
Working == thread.does \in {"draw", "poll", "destroy"}

(* A call, and the types of the renderer's state.                          *)
Calls == [op : {"none", "present", "close"}, at : Places, frame : Nat, failed : BOOLEAN]

RendererTypeOK ==
  /\ mu \in Callers \cup {"none"}
  /\ mainCh \in [open : BOOLEAN, work : Seq(Callers)]
  /\ window \in BOOLEAN
  /\ thread \in [does : {"wait", "draw", "poll", "destroy", "ended"},
                 caller : Callers \cup {"none"}]
  /\ calls \in [Callers -> Calls]
  /\ frames \in Nat
  /\ closing \in BOOLEAN

(* Whoever is between Lock and Unlock is mu's holder.                      *)
LockHeld == \A c \in Callers : c = mu <=> calls[c].at \in Inside

(* The work in the channel or with the goroutine is that of mu's holder.   *)
WorkHandedOver ==
  /\ Working =>
       /\ mu \in Callers /\ thread.caller = mu
       /\ mainCh.work = << >>
       /\ calls[mu].at = "wait"
       /\ thread.does = "destroy" <=> calls[mu].op = "close"
       /\ thread.does = "poll" => screen = calls[mu].frame
  /\ mainCh.work # << >> =>
       mu \in Callers /\ mainCh.work = <<mu>> /\ calls[mu].at = "wait"

(* The window lives until a Close has been done; the channel is closed by  *)
(* the same caller afterwards, still inside mu.                            *)
WindowFollowsClose ==
  /\ thread.does = "ended" => ~mainCh.open
  /\ window => mainCh.open
  /\ mainCh.open /\ ~window => mu \in Callers /\ At(mu, "close", "done")
  /\ \A c \in Callers :
       /\ calls[c].at = "wait" => window
       /\ At(c, "present", "done") => screen = calls[c].frame /\ window
       /\ At(c, "close", "done") => ~window

HandOverInv == RendererTypeOK /\ LockHeld /\ WorkHandedOver /\ WindowFollowsClose

(* A call that moves on stays a call. *)
LEMMA CallMoved ==
  ASSUME NEW d \in Calls, NEW at \in Places, NEW failed \in BOOLEAN
  PROVE  [d EXCEPT !.at = at] \in Calls /\ [d EXCEPT !.at = at, !.failed = failed] \in Calls
  BY Zenon DEF Calls

(* At first nobody holds mu, no work is sent and the window exists. *)
LEMMA HandOverInit == RendererInit => HandOverInv
<1> SUFFICES ASSUME RendererInit PROVE HandOverInv
  OBVIOUS
<1>1. RendererTypeOK
  <2>1. << >> \in Seq(Callers) /\ Idle \in Calls
    BY DEF Idle, Calls, Places
  <2>2. mainCh \in [open : BOOLEAN, work : Seq(Callers)]
    BY <2>1 DEF RendererInit
  <2>3. calls \in [Callers -> Calls]
    BY <2>1 DEF RendererInit
  <2> QED BY <2>2, <2>3 DEF RendererInit, RendererTypeOK, Calls, Waits
<1>2. LockHeld
  BY CallersAssumption DEF RendererInit, LockHeld, Idle, Inside
<1>3. WorkHandedOver /\ WindowFollowsClose
  BY DEF RendererInit, WorkHandedOver, WindowFollowsClose, Working, Waits, Idle, At
<1> QED BY <1>1, <1>2, <1>3 DEF HandOverInv

(* What a caller does outside mu disturbs nobody; inside it alone sends,   *)
(* and returns only when its work is neither in the channel nor in hand.   *)
LEMMA CallerKeepsHandOver ==
  ASSUME HandOverInv, NEW c \in Callers, CallerStep(c)
  PROVE  HandOverInv'
<1> USE CallersAssumption DEF HandOverInv
<1>1. CASE CallPresent(c)
  <2>1. RendererTypeOK'
    BY <1>1 DEF CallPresent, RendererTypeOK, Calls, Places
  <2>2. LockHeld'
    BY <1>1 DEF CallPresent, RendererTypeOK, Calls, LockHeld, Inside
  <2>3. WorkHandedOver'
    BY <1>1 DEF CallPresent, RendererTypeOK, Calls, LockHeld, Inside, WorkHandedOver, Working
  <2>4. WindowFollowsClose'
    BY <1>1 DEF CallPresent, RendererTypeOK, Calls, LockHeld, Inside, WindowFollowsClose, At
  <2> QED BY <2>1, <2>2, <2>3, <2>4
<1>2. CASE CallClose(c)
  <2>1. RendererTypeOK'
    BY <1>2 DEF CallClose, RendererTypeOK, Calls, Idle, Places
  <2>2. LockHeld'
    BY <1>2 DEF CallClose, RendererTypeOK, Calls, LockHeld, Idle, Inside
  <2>3. WorkHandedOver'
    BY <1>2 DEF CallClose, RendererTypeOK, Calls, LockHeld, Idle, Inside, WorkHandedOver, Working
  <2>4. WindowFollowsClose'
    BY <1>2 DEF CallClose, RendererTypeOK, Calls, LockHeld, Idle, Inside, WindowFollowsClose, At
  <2> QED BY <2>1, <2>2, <2>3, <2>4
<1>3. CASE Lock(c)
  <2>1. RendererTypeOK'
    BY <1>3 DEF Lock, Move, RendererTypeOK, Calls, Places
  <2>2. LockHeld'
    BY <1>3 DEF Lock, Move, RendererTypeOK, Calls, LockHeld, Inside
  <2>3. WorkHandedOver'
    BY <1>3 DEF Lock, Move, RendererTypeOK, Calls, WorkHandedOver, Working
  <2>4. WindowFollowsClose'
    BY <1>3 DEF Lock, Move, RendererTypeOK, Calls, WindowFollowsClose, At
  <2> QED BY <2>1, <2>2, <2>3, <2>4
<1>4. CASE ReturnEarly(c)
  <2>0. calls[c].at = "locked" /\ c = mu
    BY <1>4 DEF ReturnEarly, At, LockHeld, Inside
  <2>1. RendererTypeOK'
    <3>1. [calls[c] EXCEPT !.at = "idle", !.failed = (calls[c].op = "present")] \in Calls
      BY CallMoved DEF RendererTypeOK, Places
    <3> QED BY <1>4, <3>1 DEF ReturnEarly, Unlocked, RendererTypeOK
  <2>2. LockHeld'
    BY <1>4, <2>0 DEF ReturnEarly, Unlocked, RendererTypeOK, Calls, LockHeld, Inside
  <2>3. WorkHandedOver'
    BY <1>4, <2>0 DEF ReturnEarly, Unlocked, RendererTypeOK, Calls, WorkHandedOver, Working
  <2>4. WindowFollowsClose'
    BY <1>4, <2>0 DEF ReturnEarly, Unlocked, RendererTypeOK, Calls, WindowFollowsClose, At
  <2> QED BY <2>1, <2>2, <2>3, <2>4
<1>5. CASE Send(c)
  <2>0. calls[c].at = "locked" /\ c = mu /\ mainCh.work = << >> /\ ~Working
    BY <1>5 DEF Send, At, LockHeld, Inside, WorkHandedOver, RendererTypeOK, Calls
  <2>1. window
    BY <1>5, <2>0 DEF Send, At, WindowFollowsClose
  <2>2. Append(<< >>, c) = <<c>> /\ <<c>> \in Seq(Callers)
    OBVIOUS
  <2>3. mainCh' = [mainCh EXCEPT !.work = <<c>>]
    BY <1>5, <2>0, <2>2 DEF Send
  <2>4. RendererTypeOK'
    <3>1. [calls[c] EXCEPT !.at = "wait"] \in Calls
      BY CallMoved DEF RendererTypeOK, Places
    <3>2. mainCh' \in [open : BOOLEAN, work : Seq(Callers)]
      BY <2>2, <2>3 DEF RendererTypeOK, Calls
    <3> QED BY <1>5, <3>1, <3>2 DEF Send, Move, RendererTypeOK
  <2>5. LockHeld'
    BY <1>5, <2>0 DEF Send, Move, RendererTypeOK, Calls, LockHeld, Inside
  <2>6. WorkHandedOver'
    BY <1>5, <2>0, <2>3 DEF Send, Move, RendererTypeOK, Calls, WorkHandedOver, Working
  <2>7. WindowFollowsClose'
    BY <1>5, <2>0, <2>1, <2>3 DEF Send, Move, RendererTypeOK, Calls, WindowFollowsClose, At
  <2> QED BY <2>4, <2>5, <2>6, <2>7
<1>6. CASE Return(c)
  <2>0. calls[c].at = "done" /\ c = mu /\ mainCh.work = << >> /\ ~Working
    BY <1>6 DEF Return, LockHeld, Inside, WorkHandedOver, RendererTypeOK, Calls
  <2>1. RendererTypeOK'
    BY <1>6 DEF Return, Unlocked, RendererTypeOK, Calls, Places
  <2>2. LockHeld'
    BY <1>6, <2>0 DEF Return, Unlocked, RendererTypeOK, Calls, LockHeld, Inside
  <2>3. mainCh'.work = << >> /\ thread' = thread
    BY <1>6, <2>0 DEF Return, RendererTypeOK, Calls
  <2>4. WorkHandedOver'
    BY <2>0, <2>3 DEF WorkHandedOver, Working
  <2>5. WindowFollowsClose'
    BY <1>6, <2>0 DEF Return, Unlocked, RendererTypeOK, Calls, LockHeld, Inside, WindowFollowsClose, At
  <2> QED BY <2>1, <2>2, <2>4, <2>5
<1> QED BY <1>1, <1>2, <1>3, <1>4, <1>5, <1>6 DEF CallerStep

(* The window's goroutine works for mu's holder alone, which waits. *)
LEMMA ThreadKeepsHandOver ==
  ASSUME HandOverInv, ThreadStep \/ AskToClose
  PROVE  HandOverInv'
<1> USE CallersAssumption DEF HandOverInv
<1>1. CASE Receive
  <2>1. /\ mu \in Callers /\ calls[mu].at = "wait"
        /\ mainCh.work = <<mu>>
    BY <1>1 DEF Receive, WorkHandedOver
  <2>2. Head(<<mu>>) = mu /\ Tail(<<mu>>) = << >> /\ << >> \in Seq(Callers)
    OBVIOUS
  <2>3. /\ thread' = [does |-> IF calls[mu].op = "close" THEN "destroy" ELSE "draw", caller |-> mu]
        /\ mainCh' = [mainCh EXCEPT !.work = << >>]
        /\ UNCHANGED <<mu, window, calls, frames, screen, closing>>
    BY <1>1, <2>1, <2>2 DEF Receive
  <2>4. RendererTypeOK'
    BY <2>1, <2>2, <2>3 DEF RendererTypeOK, Calls
  <2>5. LockHeld'
    BY <2>3 DEF LockHeld
  <2>6. WorkHandedOver'
    BY <2>1, <2>3 DEF WorkHandedOver, Working, RendererTypeOK, Calls
  <2>7. WindowFollowsClose'
    BY <2>1, <2>3 DEF WindowFollowsClose, At, RendererTypeOK, Calls
  <2> QED BY <2>4, <2>5, <2>6, <2>7
<1>2. CASE Draw
  <2>1. mu \in Callers /\ thread.caller = mu /\ calls[mu].at = "wait"
    BY <1>2 DEF Draw, WorkHandedOver, Working
  <2>2. RendererTypeOK'
    BY <1>2 DEF Draw, RendererTypeOK, Calls
  <2>3. LockHeld'
    BY <1>2 DEF Draw, LockHeld
  <2>4. WorkHandedOver'
    BY <1>2, <2>1 DEF Draw, WorkHandedOver, Working, RendererTypeOK, Calls
  <2>5. WindowFollowsClose'
    BY <1>2, <2>1 DEF Draw, WindowFollowsClose, At, LockHeld, Inside, RendererTypeOK, Calls
  <2> QED BY <2>2, <2>3, <2>4, <2>5
<1>3. CASE Polled
  <2>1. mu \in Callers /\ thread.caller = mu /\ calls[mu].at = "wait" /\ mainCh.work = << >>
        /\ calls[mu].op # "close" /\ screen = calls[mu].frame
    BY <1>3 DEF Polled, WorkHandedOver, Working
  <2>2. RendererTypeOK'
    <3>1. [calls[mu] EXCEPT !.at = "done", !.failed = closing] \in Calls
      BY <2>1, CallMoved DEF RendererTypeOK, Places
    <3> QED BY <1>3, <2>1, <3>1 DEF Polled, RendererTypeOK, Waits
  <2>3. LockHeld'
    BY <1>3, <2>1 DEF Polled, LockHeld, Inside, RendererTypeOK, Calls
  <2>4. WorkHandedOver'
    BY <1>3, <2>1 DEF Polled, WorkHandedOver, Working, Waits
  <2>5. WindowFollowsClose'
    BY <1>3, <2>1 DEF Polled, WindowFollowsClose, At, Waits, LockHeld, Inside, RendererTypeOK, Calls
  <2> QED BY <2>2, <2>3, <2>4, <2>5
<1>4. CASE Destroy
  <2>1. mu \in Callers /\ thread.caller = mu /\ calls[mu].at = "wait" /\ mainCh.work = << >>
        /\ calls[mu].op = "close"
    BY <1>4 DEF Destroy, WorkHandedOver, Working
  <2>2. RendererTypeOK'
    BY <1>4, <2>1 DEF Destroy, Move, RendererTypeOK, Calls, Waits, Places
  <2>3. LockHeld'
    BY <1>4, <2>1 DEF Destroy, Move, LockHeld, Inside, RendererTypeOK, Calls
  <2>4. WorkHandedOver'
    BY <1>4, <2>1 DEF Destroy, Move, WorkHandedOver, Working, Waits
  <2>5. WindowFollowsClose'
    BY <1>4, <2>1 DEF Destroy, Move, WindowFollowsClose, At, Waits, LockHeld, Inside, RendererTypeOK, Calls
  <2> QED BY <2>2, <2>3, <2>4, <2>5
<1>5. CASE EndLoop
  BY <1>5 DEF EndLoop, RendererTypeOK, Calls, LockHeld, WorkHandedOver, WindowFollowsClose, At,
              Working, Waits
<1>6. CASE AskToClose
  BY <1>6 DEF AskToClose, RendererTypeOK, Calls, LockHeld, WorkHandedOver, WindowFollowsClose, At,
              Working
<1> QED BY <1>1, <1>2, <1>3, <1>4, <1>5, <1>6 DEF ThreadStep

(* vulkan_placeholder.go:103-107,205-253: for any number of callers, the    *)
(* window's goroutine touches the window only while the caller that sent   *)
(* the work holds mu and waits for it; a call that is done has its frame   *)
(* in the window, or the window is gone.                                   *)
THEOREM WorkIsHandedOver == CSpec => []HandedOver
<1>1. CInit => HandOverInv
  BY HandOverInit DEF CInit
<1>2. HandOverInv /\ [CNext]_cvars => HandOverInv'
  <2> SUFFICES ASSUME HandOverInv, [CNext]_cvars PROVE HandOverInv'
    OBVIOUS
  <2>1. CASE RendererNext
    BY <2>1, CallerKeepsHandOver, ThreadKeepsHandOver DEF RendererNext
  <2>2. CASE UNCHANGED rvars
    BY <2>2 DEF rvars, HandOverInv, RendererTypeOK, Calls, LockHeld, WorkHandedOver,
                WindowFollowsClose, At, Working
  <2> QED BY <2>1, <2>2 DEF CNext, PollKey, cvars
<1>3. HandOverInv => HandedOver
  BY DEF HandOverInv, HandedOver, WorkHandedOver, WindowFollowsClose, Working
<1> QED BY <1>1, <1>2, <1>3, PTL DEF CSpec

(* keyboard.go:42-108, vulkan_placeholder.go:213-228: the keyboard promises *)
(* in the console what it promises alone, whichever program reads it and   *)
(* whenever the window's goroutine polls events.                           *)
THEOREM KeyboardInConsole == CSpec => ImplementsLog /\ []HistoryInv
<1>1. CInit => HInit
  BY DEF CInit, PInit
<1>2. [CNext]_cvars => [HNext]_hvars
  BY DEF CNext, PollKey, Keystroke, Access, Poll, Ack, AnyAccess, HNext, cvars, pvars
<1>3. CSpec => HSpec
  BY <1>1, <1>2, PTL DEF CSpec, HSpec
<1> QED BY <1>3, KeyboardImplementsLog, HistoryFollowed

=============================================================================
