------------------------ MODULE CPU6502CallsProofs -------------------------
(***************************************************************************)
(* Proofs about CPU6502Calls: whatever interrupts arrive between whichever *)
(* ticks, the bytes on the stack page are those the open calls, interrupts *)
(* and pushes left there, so that every return and pull finds its own.     *)
(* The invariant maps each frame to the bytes that hold it, and follows a  *)
(* sequence that pushes or pulls micro-operation by micro-operation.       *)
(***************************************************************************)
EXTENDS CPU6502Calls, CPU6502Proofs, SequenceTheorems

FrameKinds == {"call", "A", "P"} \cup InterruptKinds

FrameSet ==
  [kind : FrameKinds, resume : Word, val : Byte, flag : BOOLEAN, clean : BOOLEAN,
   sp : Byte, open : 0 .. MaxNested, used : Nat]

(* The offset of the byte pushed on top of d others: SP starts at $FD, and *)
(* wraps within the page.                                                  *)
Slot(d) == Wrap(B - 3 - d)

(* How many bytes lie under a frame. *)
Below(f) == f.used - Size[f.kind]

(* The bytes of page r that hold the frame f say what f says. *)
Holds(f, r) ==
  LET b == Below(f) IN
  /\ f.kind = "call" => Inc(<<r[Slot(b)], r[Slot(b + 1)]>>) = f.resume
  /\ f.kind = "A" => r[Slot(b)] = f.val
  /\ f.kind = "P" => Bit(r[Slot(b)]) = f.flag
  /\ f.kind \in InterruptKinds =>
       /\ Bit(r[Slot(b + 2)]) = f.flag
       /\ f.clean => <<r[Slot(b)], r[Slot(b + 1)]>> = f.resume

FrameOK(f, r) ==
  /\ f \in FrameSet
  /\ Below(f) \in Nat /\ f.used <= B
  /\ f.sp = Slot(Below(f))
  /\ Holds(f, r)
  /\ f.kind \in InterruptKinds => Below(f) + 3 * (MaxNested - f.open) <= B

(* No frame of fr counts more than n interrupts open under it. *)
OpenWithin(fr, n) == \A i \in 1 .. Len(fr) : fr[i].open <= n

(* What lies on top of a handler's frame was pushed with interrupts off. *)
Above(f, g) ==
  /\ g.used <= Below(f) /\ g.open <= f.open
  /\ g.kind \in InterruptKinds => f.flag = TRUE /\ f.kind # "IRQ"

(* The frames lie one on another, from the bottom of the stack. *)
FramesOK(fr, r) ==
  /\ fr \in Seq(FrameSet)
  /\ \A i \in 1 .. Len(fr) : FrameOK(fr[i], r)
  /\ \A i, j \in 1 .. Len(fr) : i < j => Above(fr[i], fr[j])
  /\ \A i \in 1 .. Len(fr) : Below(fr[i]) = IF i = Len(fr) THEN 0 ELSE fr[i + 1].used

(* The bytes that sequence c has pushed, or pulled, before its operation s. *)
PushesAt(c, s) ==
  CASE c = "JSR" -> IF s <= 3 THEN 0 ELSE s - 3
    [] c = "BRK" -> IF s <= 2 THEN 0 ELSE IF s <= 5 THEN s - 2 ELSE 3
    [] c \in Interrupts -> IF s <= 4 THEN s - 1 ELSE 3
    [] OTHER -> 0

PullsAt(c, s) == IF c \in {"RTS", "RTI"} /\ s > 3 THEN s - 3 ELSE 0

(* The bytes that a sequence leaves on the stack in the end. *)
Grow(c) ==
  CASE c = "JSR" -> 2
    [] c \in {"PHA", "PHP"} -> 1
    [] c \in {"BRK", "IRQ", "NMI"} -> 3
    [] OTHER -> 0

(* The kinds of frame that a sequence takes off the stack. *)
Pops(c) ==
  CASE c = "RTS" -> {"call"}
    [] c = "RTI" -> InterruptKinds
    [] c = "PLA" -> {"A"}
    [] c = "PLP" -> {"P"}
    [] OTHER -> {}

Poppers == {"RTS", "RTI", "PLA", "PLP"}

(* The interrupts that are open and pending nest no deeper than allowed. *)
CountInv ==
  /\ open \in 0 .. MaxNested
  /\ pendingIRQ \/ pendingNMI => open + 1 <= MaxNested
  /\ pendingIRQ /\ pendingNMI => open + 2 <= MaxNested
  /\ OpenWithin(frames, open)

SPInv == SP = Slot((Used(frames) + PushesAt(current, step)) - PullsAt(current, step))

(* There is room for the sequence in progress and for the interrupts that  *)
(* may still nest.                                                         *)
RoomInv == Used(frames) + Grow(current) + 3 * (MaxNested - open) <= B

(* Inside a handler I is set; RTI restores it before it ends. *)
FlagInv ==
  InHandler(IF current = "RTI" /\ step > 3 THEN Tail(frames) ELSE frames)
     => flagI = TRUE

PrefInv == prefetched \in Instructions => Structured(prefetched, frames, open)

OriginInv ==
  current # "none" =>
    /\ origin.sp = Slot(Used(frames)) /\ origin.at \in Word
    /\ origin.flag \in BOOLEAN /\ origin.clean \in BOOLEAN
    /\ origin.open \in 0 .. open /\ OpenWithin(frames, origin.open)
    /\ current \in InterruptKinds => Used(frames) + 3 * (MaxNested - origin.open) <= B
    /\ InHandler(frames) => origin.flag = TRUE
    /\ current # "TXS"
    /\ current \in {"CLI", "IRQ"} => ~InHandler(frames)
    /\ current \in Poppers => frames # << >> /\ Head(frames).kind \in Pops(current)

(* What a sequence that pushes has put on the stack so far. *)
PushInv ==
  current \in {"JSR", "PHA", "PHP", "BRK", "IRQ", "NMI"} =>
    LET p == PushesAt(current, step) IN
    /\ current \in {"JSR", "BRK"} =>
         PC = IF step = 1 THEN Inc(origin.at) ELSE Inc(Inc(origin.at))
    /\ current \in Interrupts /\ origin.clean => PC = origin.at
    /\ p >= 1 => ram[Slot(Used(frames))] = PC[1]
    /\ p >= 2 => ram[Slot(Used(frames) + 1)] = PC[2]
    /\ p >= 3 => Bit(ram[Slot(Used(frames) + 2)]) = origin.flag
    /\ p < 3 => flagI = origin.flag
    /\ p >= 3 => flagI = TRUE

(* What RTI and RTS have pulled so far. *)
PullInv ==
  /\ current = "RTI" =>
       /\ step > 3 => flagI = Head(frames).flag
       /\ step > 4 => tmp8 = ram[Slot(Used(frames) - 2)]
  /\ current = "RTS" =>
       /\ step = 4 => tmp8 = ram[Slot(Used(frames) - 1)]
       /\ step > 4 => tmpAddr = <<ram[Slot(Used(frames) - 2)],
             ram[Slot(Used(frames) - 1)]>>

StackInv ==
  /\ FramesOK(frames, ram)
  /\ CountInv /\ SPInv /\ RoomInv /\ FlagInv /\ PrefInv
  /\ OriginInv /\ PushInv /\ PullInv

CallInv == TypeOK /\ ram \in [Byte -> Byte] /\ StackInv

-----------------------------------------------------------------------------

(* The slots of the stack page: a push moves to the next, a pull to the    *)
(* one before, and no two of the first B are the same byte.                *)
LEMMA SlotFacts ==
  /\ B \in Nat /\ B >= 6
  /\ B - 3 = Slot(0)
  /\ \A d \in 0 .. B : Slot(d) \in Byte
  /\ \A d \in 0 .. B - 1 : Wrap(Slot(d) - 1) = Slot(d + 1)
  /\ \A d \in 1 .. B : Wrap(Slot(d) + 1) = Slot(d - 1)
  /\ \A d, e \in 0 .. B - 1 : Slot(d) = Slot(e) => d = e
<1>1. B \in Nat /\ B >= 6
  BY HalfAssumption DEF B
<1> HIDE DEF B
<1>2. B - 3 = Slot(0)
  BY <1>1 DEF Slot, Wrap
<1>3. \A d \in 0 .. B : Slot(d) = IF d <= B - 3 THEN (B - 3) - d ELSE (B + B) - (3 + d)
  BY <1>1 DEF Slot, Wrap
<1> HIDE DEF Slot
<1>4. \A d \in 0 .. B : Slot(d) \in Byte
  BY <1>1, <1>3 DEF Byte
<1>5. ASSUME NEW d \in 0 .. B - 1 PROVE Wrap(Slot(d) - 1) = Slot(d + 1)
  BY <1>1, <1>3 DEF Wrap
<1>6. ASSUME NEW d \in 1 .. B PROVE Wrap(Slot(d) + 1) = Slot(d - 1)
  BY <1>1, <1>3 DEF Wrap
<1>7. ASSUME NEW d \in 0 .. B - 1, NEW e \in 0 .. B - 1, Slot(d) = Slot(e) PROVE d = e
  BY <1>1, <1>3, <1>7
<1> QED BY <1>1, <1>2, <1>4, <1>5, <1>6, <1>7

(* A frame's size follows from its kind.                                   *)
LEMMA FrameFacts ==
  ASSUME NEW f \in FrameSet
  PROVE  /\ Size[f.kind] \in 1 .. 3 /\ f.used \in Nat /\ f.kind \in FrameKinds
         /\ Below(f) \in Int /\ Below(f) < f.used /\ Below(f) + Size[f.kind] = f.used
         /\ f.kind = "call" => Size[f.kind] = 2
         /\ f.kind \in {"A", "P"} => Size[f.kind] = 1
         /\ f.kind \in InterruptKinds => Size[f.kind] = 3
<1>1. f.used \in Nat /\ f.kind \in FrameKinds
  BY DEF FrameSet
<1>2. /\ Size[f.kind] \in 1 .. 3
      /\ f.kind = "call" => Size[f.kind] = 2
      /\ f.kind \in {"A", "P"} => Size[f.kind] = 1
      /\ f.kind \in InterruptKinds => Size[f.kind] = 3
  BY <1>1 DEF FrameKinds, InterruptKinds, Size
<1>3. QED
  BY <1>1, <1>2 DEF Below

(* A frame depends on its own bytes only.                                  *)
LEMMA HoldsSame ==
  ASSUME NEW f \in FrameSet, Below(f) \in Nat, NEW r, NEW s, Holds(f, r),
         \A d \in Below(f) .. f.used - 1 : s[Slot(d)] = r[Slot(d)]
  PROVE  Holds(f, s)
<1> DEFINE b == Below(f)
<1>1. b \in Nat /\ b \in b .. f.used - 1
  BY FrameFacts
<1>2. f.kind = "call" => b + 1 \in b .. f.used - 1
  BY <1>1, FrameFacts
<1>3. f.kind \in InterruptKinds => b + 1 \in b .. f.used - 1
         /\ b + 2 \in b .. f.used - 1
  BY <1>1, FrameFacts
<1> QED BY <1>1, <1>2, <1>3 DEF Holds

(* The newest frame is the highest.                                        *)
LEMMA UsedFacts ==
  ASSUME NEW fr, NEW r, FramesOK(fr, r)
  PROVE  /\ Used(fr) \in 0 .. B
         /\ fr = << >> => Used(fr) = 0
         /\ fr # << >> => Used(fr) = fr[1].used /\ Head(fr) = fr[1]
               /\ 1 \in 1 .. Len(fr)
         /\ \A i \in 1 .. Len(fr) : fr[i].used <= Used(fr)
<1>1. B \in Nat
  BY SlotFacts
<1> HIDE DEF B
<1>2. fr \in Seq(FrameSet) /\ Len(fr) \in Nat
  BY DEF FramesOK
<1>3. CASE fr = << >>
  BY <1>1, <1>3 DEF Used
<1>4. CASE fr # << >>
  <2>1. 1 \in 1 .. Len(fr) /\ Head(fr) = fr[1]
    BY <1>2, <1>4, EmptySeq
  <2>2. fr[1] \in FrameSet /\ fr[1].used <= B /\ fr[1].used \in Nat
    BY <2>1, FrameFacts DEF FramesOK, FrameOK
  <2>3. ASSUME NEW i \in 1 .. Len(fr) PROVE fr[i].used <= fr[1].used
    <3>1. CASE i = 1
      BY <3>1, <2>2
    <3>2. CASE i # 1
      <4>1. fr[i].used <= Below(fr[1])
        BY <3>2, <2>1, <1>2 DEF FramesOK, Above
      <4>2. fr[i].used \in Nat
        BY FrameFacts DEF FramesOK, FrameOK
      <4> QED BY <4>1, <4>2, <2>2, FrameFacts
    <3> QED BY <3>1, <3>2
  <2> QED BY <1>4, <1>1, <2>1, <2>2, <2>3 DEF Used
<1> QED BY <1>3, <1>4

(* A byte written above the newest frame disturbs no frame.                *)
LEMMA WriteKeeps ==
  ASSUME NEW fr, NEW r, FramesOK(fr, r), r \in [Byte -> Byte],
         NEW u \in Used(fr) .. B - 1, NEW v \in Byte
  PROVE  FramesOK(fr, [r EXCEPT ![Slot(u)] = v])
<1> DEFINE s == [r EXCEPT ![Slot(u)] = v]
<1>1. B \in Nat
  BY SlotFacts
<1>2. Used(fr) \in 0 .. B /\ u \in 0 .. B - 1
  BY UsedFacts, <1>1
<1> HIDE DEF B
<1>3. ASSUME NEW i \in 1 .. Len(fr) PROVE FrameOK(fr[i], s)
  <2>1. FrameOK(fr[i], r)
    BY DEF FramesOK
  <2>2. fr[i] \in FrameSet /\ Below(fr[i]) \in Nat /\ fr[i].used \in Nat
           /\ fr[i].used <= u
    BY <2>1, <1>2, <1>1, UsedFacts, FrameFacts DEF FrameOK
  <2>3. ASSUME NEW d \in Below(fr[i]) .. fr[i].used - 1 PROVE s[Slot(d)] = r[Slot(d)]
    <3>1. d \in 0 .. B - 1 /\ d # u
      BY <2>2, <1>1, <1>2
    <3>2. \A x, y \in 0 .. B - 1 : Slot(x) = Slot(y) => x = y
      BY SlotFacts
    <3>3. Slot(d) # Slot(u)
      BY <3>1, <3>2, <1>2, Zenon
    <3>4. Slot(d) \in Byte
      <4>1. \A x \in 0 .. B : Slot(x) \in Byte
        BY SlotFacts
      <4>2. d \in 0 .. B
        BY <3>1, <1>1
      <4> QED BY <4>1, <4>2, Zenon
    <3> QED BY <3>3, <3>4
  <2> HIDE DEF s
  <2>4. Holds(fr[i], s)
    BY <2>1, <2>2, <2>3, HoldsSame DEF FrameOK
  <2> QED BY <2>1, <2>4 DEF FrameOK
<1> HIDE DEF s
<1>4. FramesOK(fr, s)
  BY <1>3 DEF FramesOK
<1> QED BY <1>4 DEF s

(* Taking the newest frame off leaves the others as they are.              *)
LEMMA PopKeeps ==
  ASSUME NEW fr, NEW r, FramesOK(fr, r), fr # << >>
  PROVE  /\ FramesOK(Tail(fr), r) /\ Used(Tail(fr)) = Below(fr[1])
         /\ Len(Tail(fr)) = Len(fr) - 1
         /\ \A i \in 1 .. Len(Tail(fr)) :
              i + 1 \in 1 .. Len(fr) /\ Tail(fr)[i] = fr[i + 1]
         /\ OpenWithin(Tail(fr), fr[1].open)
<1> DEFINE t == Tail(fr)
<1>1. fr \in Seq(FrameSet) /\ Len(fr) \in Nat /\ Len(fr) > 0
  BY EmptySeq DEF FramesOK
<1>2. t \in Seq(FrameSet) /\ Len(t) = Len(fr) - 1
         /\ \A i \in 1 .. Len(t) : t[i] = fr[i + 1]
  BY <1>1
<1> HIDE DEF t
<1>3. \A i \in 1 .. Len(t) : i + 1 \in 1 .. Len(fr) /\ (i = Len(t) <=> i + 1 = Len(fr))
  BY <1>1, <1>2
<1>4. \A i \in 1 .. Len(t) : FrameOK(t[i], r)
  BY <1>2, <1>3 DEF FramesOK
<1>5. \A i, j \in 1 .. Len(t) : i < j => Above(t[i], t[j])
  <2> SUFFICES ASSUME NEW i \in 1 .. Len(t), NEW j \in 1 .. Len(t), i < j
         PROVE Above(t[i], t[j])
    OBVIOUS
  <2>1. i + 1 < j + 1
    BY <1>2
  <2> QED BY <2>1, <1>2, <1>3 DEF FramesOK
<1>6. \A i \in 1 .. Len(t) : Below(t[i]) = IF i = Len(t) THEN 0 ELSE t[i + 1].used
  <2> SUFFICES ASSUME NEW i \in 1 .. Len(t)
               PROVE Below(t[i]) = IF i = Len(t) THEN 0 ELSE t[i + 1].used
    OBVIOUS
  <2>1. Below(fr[i + 1]) = IF i + 1 = Len(fr) THEN 0 ELSE fr[(i + 1) + 1].used
    BY <1>3 DEF FramesOK
  <2>2. i # Len(t) => t[i + 1] = fr[(i + 1) + 1]
    BY <1>1, <1>2
  <2> QED BY <2>1, <2>2, <1>2, <1>3
<1>7. FramesOK(t, r)
  BY <1>2, <1>4, <1>5, <1>6 DEF FramesOK
<1>8. Used(t) = Below(fr[1])
  <2>1. Below(fr[1]) = IF 1 = Len(fr) THEN 0 ELSE fr[1 + 1].used
    BY <1>1 DEF FramesOK
  <2>2. CASE Len(fr) = 1
    <3>1. t = << >>
      BY <2>2, <1>2, EmptySeq
    <3> QED BY <3>1, <2>2, <2>1 DEF Used
  <2>3. CASE Len(fr) # 1
    <3>1. 1 \in 1 .. Len(t) /\ t # << >>
      BY <2>3, <1>1, <1>2
    <3>2. Head(t) = t[1] /\ t[1] = fr[1 + 1]
      BY <3>1, <1>2
    <3> QED BY <3>1, <3>2, <2>3, <2>1 DEF Used
  <2> QED BY <2>2, <2>3
<1>9. OpenWithin(t, fr[1].open)
  <2> SUFFICES ASSUME NEW i \in 1 .. Len(t) PROVE t[i].open <= fr[1].open
    BY DEF OpenWithin
  <2>1. 1 \in 1 .. Len(fr) /\ 1 < i + 1
    BY <1>1
  <2> QED BY <2>1, <1>2, <1>3 DEF FramesOK, Above
<1> QED BY <1>2, <1>3, <1>7, <1>8, <1>9 DEF t

(* A frame put on the newest one makes a stack of frames again.            *)
LEMMA PushKeeps ==
  ASSUME NEW fr, NEW r, FramesOK(fr, r), NEW f, FrameOK(f, r), Below(f) = Used(fr),
         InHandler(fr) => f.flag = TRUE /\ f.kind # "IRQ",
         OpenWithin(fr, f.open)
  PROVE  /\ FramesOK(<<f>> \o fr, r) /\ Used(<<f>> \o fr) = f.used
         /\ OpenWithin(<<f>> \o fr, f.open)
<1> DEFINE o == <<f>>
           t == o \o fr
<1>1. fr \in Seq(FrameSet) /\ Len(fr) \in Nat /\ f \in FrameSet
  BY DEF FramesOK, FrameOK
<1>2. o \in Seq(FrameSet) /\ Len(o) = 1 /\ o[1] = f
  BY <1>1
<1> HIDE DEF o
<1>3. t \in Seq(FrameSet) /\ Len(t) = Len(fr) + 1 /\ t[1] = f
      /\ \A i \in 1 .. Len(fr) : t[i + 1] = fr[i]
  <2>1. t \in Seq(FrameSet) /\ Len(t) = Len(o) + Len(fr)
    <3>1. o \in Seq(FrameSet) /\ fr \in Seq(FrameSet)
      BY <1>1, <1>2
    <3> QED BY <3>1, ConcatProperties
  <2>2. \A i \in 1 .. Len(o) + Len(fr) :
          t[i] = IF i <= Len(o) THEN o[i] ELSE fr[i - Len(o)]
    BY <1>1, <1>2, ConcatProperties
  <2> HIDE DEF t
  <2>3. t[1] = f
    BY <2>2, <1>1, <1>2
  <2>4. ASSUME NEW i \in 1 .. Len(fr) PROVE t[i + 1] = fr[i]
    <3>1. i + 1 \in 1 .. Len(o) + Len(fr) /\ ~(i + 1 <= Len(o)) /\ (i + 1) - Len(o) = i
      BY <1>1, <1>2
    <3> QED BY <3>1, <2>2
  <2> QED BY <2>1, <2>3, <2>4, <1>1, <1>2
<1> HIDE DEF t
<1>4. ASSUME NEW i \in 1 .. Len(t), i # 1
      PROVE i - 1 \in 1 .. Len(fr) /\ t[i] = fr[i - 1]
               /\ (i = Len(t) <=> i - 1 = Len(fr))
  BY <1>4, <1>1, <1>3
<1>5. ASSUME NEW i \in 1 .. Len(t) PROVE FrameOK(t[i], r)
  BY <1>3, <1>4 DEF FramesOK
<1>6. ASSUME NEW i \in 1 .. Len(t), NEW j \in 1 .. Len(t), i < j PROVE Above(t[i], t[j])
  <2>1. j # 1 /\ j - 1 \in 1 .. Len(fr) /\ t[j] = fr[j - 1]
    BY <1>6, <1>4, <1>3, <1>1
  <2>2. CASE i = 1
    <3>1. t[j].used <= Below(f)
      BY <2>1, UsedFacts
    <3>2. t[j].kind \in InterruptKinds => f.flag = TRUE /\ f.kind # "IRQ"
      BY <2>1 DEF InHandler
    <3>3. t[j].open <= f.open
      BY <2>1 DEF OpenWithin
    <3> QED BY <3>1, <3>2, <3>3, <2>2, <1>3 DEF Above
  <2>3. CASE i # 1
    <3>1. i - 1 \in 1 .. Len(fr) /\ t[i] = fr[i - 1] /\ i - 1 < j - 1
      BY <2>3, <1>6, <1>4, <1>3, <1>1
    <3> QED BY <3>1, <2>1 DEF FramesOK
  <2> QED BY <2>2, <2>3
<1>7. ASSUME NEW i \in 1 .. Len(t)
      PROVE Below(t[i]) = IF i = Len(t) THEN 0 ELSE t[i + 1].used
  <2>1. CASE i = 1
    <3>1. CASE fr = << >>
      <4>1. Len(t) = 1 /\ Below(f) = 0
        BY <3>1, <1>3 DEF Used
      <4> QED BY <4>1, <2>1, <1>3
    <3>2. CASE fr # << >>
      <4>1. 1 \in 1 .. Len(fr) /\ Used(fr) = fr[1].used
        BY <3>2, UsedFacts
      <4>2. Len(t) # 1 /\ t[1 + 1] = fr[1]
        BY <4>1, <1>1, <1>3
      <4> QED BY <4>1, <4>2, <2>1, <1>3
    <3> QED BY <3>1, <3>2
  <2>2. CASE i # 1
    <3>1. i - 1 \in 1 .. Len(fr) /\ t[i] = fr[i - 1] /\ (i = Len(t) <=> i - 1 = Len(fr))
      BY <2>2, <1>4
    <3>2. Below(fr[i - 1]) = IF i - 1 = Len(fr) THEN 0 ELSE fr[(i - 1) + 1].used
      BY <3>1 DEF FramesOK
    <3>3. i # Len(t) => i \in 1 .. Len(fr) /\ t[i + 1] = fr[i]
      BY <2>2, <1>1, <1>3
    <3>4. (i - 1) + 1 = i
      OBVIOUS
    <3> QED BY <3>1, <3>2, <3>3, <3>4
  <2> QED BY <2>1, <2>2
<1>8. FramesOK(t, r)
  BY <1>3, <1>5, <1>6, <1>7 DEF FramesOK
<1>9. Used(t) = f.used
  <2>1. t # << >> /\ Head(t) = f
    BY <1>3, <1>1
  <2> QED BY <2>1 DEF Used
<1>10. OpenWithin(t, f.open)
  <2>1. f.open \in Nat
    BY <1>1, MaxNestedAssumption DEF FrameSet
  <2>2. ASSUME NEW i \in 1 .. Len(t) PROVE t[i].open <= f.open
    <3>1. CASE i = 1
      BY <3>1, <2>1, <1>3
    <3>2. CASE i # 1
      <4>1. i - 1 \in 1 .. Len(fr) /\ t[i] = fr[i - 1]
        BY <3>2, <1>4
      <4> QED BY <4>1 DEF OpenWithin
    <3> QED BY <3>1, <3>2
  <2> QED BY <2>2 DEF OpenWithin
<1> QED BY <1>8, <1>9, <1>10 DEF t, o

(* The sequences that push or pull. *)
Special == {"JSR", "PHA", "PHP", "PLA", "PLP", "RTI", "RTS", "BRK", "IRQ", "NMI"}
(* pullByte's callers. *)
Pulls == {"PullA", "PullP", "PullTmp", "PullPCH", "PullAddr"}

(* The sequences that use the stack, as Steps lists them.                  *)
LEMMA Table ==
  /\ Steps["JSR"] = <<"FetchTmp", "ReadStack", "PushPCH", "PushPCL", "FetchPCH">>
  /\ Steps["PHA"] = <<"ReadPC", "PushA">>
  /\ Steps["PHP"] = <<"ReadPC", "PushP">>
  /\ Steps["PLA"] = <<"ReadPC", "ReadStack", "PullA">>
  /\ Steps["PLP"] = <<"ReadPC", "ReadStack", "PullP">>
  /\ Steps["RTI"] = <<"ReadPC", "ReadStack", "PullP", "PullTmp", "PullPCH">>
  /\ Steps["RTS"] = <<"ReadPC", "ReadStack", "PullTmp", "PullAddr", "Prefetch">>
  /\ Steps["BRK"] = <<"FetchPad", "PushPCH", "PushPCL", "PushPSetI", "VectorLo",
        "VectorHi">>
  /\ Steps["IRQ"] = <<"PushPCH", "PushPCL", "PushPSetI", "VectorLo", "VectorHi">>
  /\ Steps["NMI"] = <<"PushPCH", "PushPCL", "PushPSetI", "VectorLo", "VectorHi">>
  BY DEF Steps

StackOps == Pushes \cup Pulls \cup {"Prefetch"}
(* A sequence that leaves the stack alone. *)
Plain(m) ==
  \A s \in 1 .. Len(Steps[m]) :
    /\ Steps[m][s] \notin StackOps
    /\ Steps[m][s] = "ClearI" => m = "CLI"
    /\ Steps[m][s] = "SetSP" => m = "TXS"
(* No other sequence pushes, pulls or reads ahead, and only CLI and TXS    *)
(* clear I and set SP.                                                     *)
LEMMA PlainOps == \A m \in Sequences6502 \ Special : Plain(m)
<1>1. Plain("implied") /\ Plain("CLI") /\ Plain("SEI") /\ Plain("TXS")
         /\ Plain("immRead")
  BY DEF Plain, Steps, StackOps, Pushes, Pulls
<1>2. Plain("zpRead") /\ Plain("zpIdxRead") /\ Plain("absRead") /\ Plain("absIdxRead")
  BY DEF Plain, Steps, StackOps, Pushes, Pulls
<1>3. Plain("indXRead") /\ Plain("indYRead") /\ Plain("zpWrite") /\ Plain("zpIdxWrite")
  BY DEF Plain, Steps, StackOps, Pushes, Pulls
<1>4. Plain("absWrite") /\ Plain("absIdxWrite") /\ Plain("indXWrite")
         /\ Plain("indYWrite")
  BY DEF Plain, Steps, StackOps, Pushes, Pulls
<1>5. Plain("zpModify") /\ Plain("zpXModify") /\ Plain("absModify")
         /\ Plain("absXModify")
  BY DEF Plain, Steps, StackOps, Pushes, Pulls
<1>6. Plain("branch") /\ Plain("BBR") /\ Plain("BBS") /\ Plain("JMPabs")
         /\ Plain("JMPind")
  BY DEF Plain, Steps, StackOps, Pushes, Pulls
<1> HIDE DEF Plain
<1>7. Sequences6502 \ Special =
        {"implied", "CLI", "SEI", "TXS", "immRead", "zpRead", "zpIdxRead", "absRead",
         "absIdxRead", "indXRead", "indYRead", "zpWrite", "zpIdxWrite", "absWrite",
         "absIdxWrite", "indXWrite", "indYWrite", "zpModify", "zpXModify", "absModify",
         "absXModify", "branch", "BBR", "BBS", "JMPabs", "JMPind"}
  BY DEF Sequences6502, Steps, Special
<1> QED BY <1>1, <1>2, <1>3, <1>4, <1>5, <1>6, <1>7

(* A tick inside a sequence performs the operation that Steps names.       *)
LEMMA OpActs ==
  ASSUME current # "none", Tick
  PROVE  /\ Op = "PushPCH" => PushPCH
         /\ Op = "PushPCL" => PushPCL
         /\ Op = "PushA" => \E v \in BusBytes : PushA(v)
         /\ Op = "PushP" => \E v \in BusBytes : PushP(v)
         /\ Op = "PushPSetI" => \E v \in BusBytes : PushPSetI(v)
         /\ Op = "PullA" => \E v \in BusBytes : PullA(v)
         /\ Op = "PullP" => \E v \in BusBytes : PullP(v)
         /\ Op = "PullTmp" => \E v \in BusBytes : PullTmp(v)
         /\ Op = "PullPCH" => \E v \in BusBytes : PullPCH(v)
         /\ Op = "PullAddr" => \E v \in BusBytes : PullAddr(v)
         /\ Op = "FetchTmp" => \E v \in BusBytes : FetchTmp(v)
         /\ Op = "FetchPad" => \E v \in BusBytes : FetchPad(v)
         /\ Op = "FetchPCH" => \E v \in BusBytes : FetchPCH(v)
         /\ Op = "ReadPC" => \E v \in BusBytes : ReadPC(v)
         /\ Op = "ReadStack" => \E v \in BusBytes : ReadStack(v)
         /\ Op = "VectorLo" => \E v \in BusBytes : VectorLo(v)
         /\ Op = "VectorHi" => \E v \in BusBytes : VectorHi(v)
         /\ Op = "Prefetch" => \E o \in Opcodes : Prefetch(o)
  BY DEF Tick, InternalOp, ByteOp

(* What a tick inside a sequence leaves alone. *)
Effect ==
  /\ UNCHANGED pending
  /\ \E n \in 0 .. 2 : Advance(n)
  /\ Op # "Prefetch" => UNCHANGED prefetched
  /\ Op \notin Pushes \cup Pulls \cup {"SetSP"} => UNCHANGED SP
  /\ Op \notin {"ClearI", "SetI", "PushPSetI", "PullP"} => UNCHANGED flagI
  /\ Op = "SetI" => flagI' = TRUE

LEMMA InternalEffect == ASSUME InternalOp PROVE Effect
<1> USE DEF Effect, Frame, Pushes, Pulls
<1>1. CASE Op = "Noop" /\ Noop
  BY <1>1 DEF Noop
<1>2. CASE Op = "ClearI" /\ ClearI
  BY <1>2 DEF ClearI
<1>3. CASE Op = "SetI" /\ SetI
  BY <1>3 DEF SetI
<1>4. CASE Op = "SetSP" /\ SetSP
  BY <1>4 DEF SetSP
<1>5. CASE Op = "IndexZp" /\ IndexZp
  BY <1>5 DEF IndexZp
<1>6. CASE Op = "WriteTmp" /\ WriteTmp
  BY <1>6 DEF WriteTmp
<1>7. CASE Op = "Branch" /\ Branch
  BY <1>7 DEF Branch
<1>8. CASE Op = "PushPCH" /\ PushPCH
  BY <1>8 DEF PushPCH
<1>9. CASE Op = "PushPCL" /\ PushPCL
  BY <1>9 DEF PushPCL
<1> QED BY <1>1, <1>2, <1>3, <1>4, <1>5, <1>6, <1>7, <1>8, <1>9 DEF InternalOp

LEMMA ByteEffect == ASSUME NEW v, ByteOp(v) PROVE Effect
<1> USE DEF Effect, Frame, Pushes, Pulls
<1>1. CASE \/ Op = "FetchPad" /\ FetchPad(v)
           \/ Op = "FetchTmp" /\ FetchTmp(v)
           \/ Op = "FetchZp" /\ FetchZp(v)
           \/ Op = "FetchHi" /\ FetchHi(v)
           \/ Op = "FetchHiIndexed" /\ FetchHiIndexed(v)
           \/ Op = "ReadTmp" /\ ReadTmp(v)
  BY <1>1 DEF FetchPad, FetchTmp, FetchZp, FetchHi, FetchHiIndexed, ReadTmp
<1>2. CASE \/ Op = "ReadPtrHi" /\ ReadPtrHi(v)
           \/ Op = "ReadPtrHiIndexed" /\ ReadPtrHiIndexed(v)
           \/ Op = "ReadDo" /\ ReadDo(v)
           \/ Op = "ReadUnfixed" /\ ReadUnfixed(v)
           \/ Op = "WriteDo" /\ WriteDo(v)
           \/ Op = "WriteModified" /\ WriteModified(v)
           \/ Op = "ReadBits" /\ ReadBits(v)
  BY <1>2 DEF ReadPtrHi, ReadPtrHiIndexed, ReadDo, ReadUnfixed, WriteDo, WriteModified,
     ReadBits
<1>3. CASE \/ Op = "ReadOrFix" /\ ReadOrFix(v)
           \/ Op = "FetchOffset" /\ FetchOffset(v)
           \/ Op = "FetchBitOffset" /\ FetchBitOffset(v)
  BY <1>3 DEF ReadOrFix, FetchOffset, FetchBitOffset
<1>4. CASE \/ Op = "FetchPCH" /\ FetchPCH(v)
           \/ Op = "ReadPCH" /\ ReadPCH(v)
           \/ Op = "ReadPC" /\ ReadPC(v)
           \/ Op = "ReadStack" /\ ReadStack(v)
           \/ Op = "VectorLo" /\ VectorLo(v)
           \/ Op = "VectorHi" /\ VectorHi(v)
  BY <1>4 DEF FetchPCH, ReadPCH, ReadPC, ReadStack, VectorLo, VectorHi
<1>5. CASE \/ Op = "PushA" /\ PushA(v)
           \/ Op = "PushP" /\ PushP(v)
           \/ Op = "PushPSetI" /\ PushPSetI(v)
  BY <1>5 DEF PushA, PushP, PushPSetI
<1>6. CASE \/ Op = "PullA" /\ PullA(v)
           \/ Op = "PullP" /\ PullP(v)
           \/ Op = "PullTmp" /\ PullTmp(v)
           \/ Op = "PullPCH" /\ PullPCH(v)
           \/ Op = "PullAddr" /\ PullAddr(v)
  BY <1>6 DEF PullA, PullP, PullTmp, PullPCH, PullAddr
<1> QED BY <1>1, <1>2, <1>3, <1>4, <1>5, <1>6 DEF ByteOp

(* What a tick inside a sequence leaves alone, by the operation it         *)
(* performs.                                                               *)
LEMMA OpEffect == ASSUME current # "none", Tick PROVE Effect
<1>1. ASSUME NEW o \in Opcodes, Op = "Prefetch", Prefetch(o) PROVE Effect
  BY <1>1 DEF Prefetch, Effect, Pushes, Pulls
<1> QED BY <1>1, InternalEffect, ByteEffect DEF Tick

(* A request between two ticks.                                            *)
LEMMA RequestStep == ASSUME CallInv, CallRequest PROVE CallInv'
<1>1. /\ UNCHANGED <<ram, frames, origin, open, begun, PC, SP, flagI, choices, control,
            temps,
                     prefetched, modes, bus>>
      /\ \/ pendingIRQ' = TRUE /\ pendingNMI' = pendingNMI /\ NestsOn(pendingNMI)
         \/ pendingNMI' = TRUE /\ pendingIRQ' = pendingIRQ /\ NestsOn(pendingIRQ)
  BY DEF CallRequest, RequestIRQ, RequestNMI
<1>2. TypeOK'
  BY <1>1 DEF CallInv, TypeOK, choices, control, temps, modes
<1>3. CountInv'
  <2>1. open \in Nat /\ MaxNested \in Nat /\ open \in 0 .. MaxNested
           /\ OpenWithin(frames, open)
    BY MaxNestedAssumption DEF CallInv, StackInv, CountInv
  <2>2. ASSUME NEW other, NestsOn(other)
        PROVE  open + 1 <= MaxNested /\ (other => open + 2 <= MaxNested)
    <3>1. CASE other
      BY <3>1, <2>1, <2>2 DEF NestsOn
    <3>2. CASE ~other
      BY <3>2, <2>2 DEF NestsOn
    <3> QED BY <3>1, <3>2
  <2>3. open + 1 <= MaxNested
    BY <1>1, <2>2
  <2>4. pendingIRQ' /\ pendingNMI' => open + 2 <= MaxNested
    <3> HIDE DEF B
    <3> QED BY <1>1, <2>2, Zenon
  <2> QED BY <2>1, <2>3, <2>4, <1>1 DEF CountInv
<1>4. ram' \in [Byte -> Byte] /\ FramesOK(frames, ram)'
  BY <1>1 DEF CallInv, StackInv
<1>5. SPInv' /\ RoomInv' /\ FlagInv' /\ PrefInv'
  BY <1>1 DEF CallInv, StackInv, SPInv, RoomInv, FlagInv, PrefInv, Structured, control
<1>6. OriginInv' /\ PushInv' /\ PullInv'
  BY <1>1 DEF CallInv, StackInv, OriginInv, PushInv, PullInv, control, temps
<1> QED BY <1>2, <1>3, <1>4, <1>5, <1>6 DEF CallInv, StackInv

(* The stack page changes by a write to it only.                           *)
LEMMA RamStep ==
  ASSUME ram \in [Byte -> Byte], TypeOK', StackMemory
  PROVE  /\ bus'.val \in Byte /\ bus'.addr \in Word
         /\ ram' \in [Byte -> Byte]
         /\ bus'.op # "write" \/ bus'.addr[1] # 1 => ram' = ram
         /\ bus'.op = "write" /\ bus'.addr[1] = 1
               => ram' = [ram EXCEPT ![bus'.addr[2]] = bus'.val]
<1>1. bus'.val \in Byte /\ bus'.addr \in Word
  BY DEF TypeOK, BusType
<1> QED BY <1>1 DEF StackMemory

(* An instruction begins, fetched or read ahead.                           *)
LEMMA BeginInstructionStep ==
  ASSUME CallInv, CallBegin, TypeOK', NEW o \in Opcodes, NEW i, NEW c,
     BeginInstruction(o, i, c)
  PROVE  CallInv'
<1>1. current = "none" /\ frames' = frames
  BY DEF CallBegin
<1>2. SP' = SP /\ flagI' = flagI /\ pending' = pending /\ prefetched' = "none"
  BY DEF BeginInstruction
<1>3. current' \in Instructions \cup {"none"}
         /\ (current' # "none" => step' = 1 /\ current' = o)
  BY <1>1, OpcodesAssumption DEF BeginInstruction, Begin, control
<1>4. current' \notin Interrupts /\ open' = open
  BY <1>3, NoneIsNoSequence DEF CallBegin, Instructions
<1>5. ram' = ram
  <2>1. bus'.op # "write"
    BY DEF BeginInstruction, NoAccess, Fetch, Idle
  <2> QED BY <2>1 DEF CallBegin, StackMemory
<1>6. current' # "none" => Structured(current', frames, open)
  <2>1. CASE prefetched = "none"
    BY <2>1, <1>3 DEF CallBegin
  <2>2. CASE prefetched # "none"
    <3>1. o = prefetched
      BY <2>2 DEF BeginInstruction
    <3> QED BY <3>1, <1>3 DEF CallInv, StackInv, PrefInv
  <2> QED BY <2>1, <2>2
<1>7. FramesOK(frames', ram') /\ CountInv' /\ PrefInv'
  <2>1. FramesOK(frames, ram) /\ CountInv
    BY DEF CallInv, StackInv
  <2>2. pendingIRQ' = pendingIRQ /\ pendingNMI' = pendingNMI
    BY <1>2 DEF pending
  <2>4. "none" \notin Instructions
    BY NoneIsNoSequence DEF Instructions
  <2> QED BY <2>1, <2>2, <2>4, <1>1, <1>2, <1>4, <1>5 DEF CountInv, PrefInv
<1>8. SPInv'
  <2>1. SP = Slot((Used(frames) + 0) - 0)
    BY <1>1 DEF CallInv, StackInv, SPInv, PushesAt, PullsAt, Interrupts
  <2>2. PushesAt(current', step') = 0 /\ PullsAt(current', step') = 0
    BY <1>3, <1>4 DEF PushesAt, PullsAt
  <2> QED BY <2>1, <2>2, <1>1, <1>2 DEF SPInv
<1>9. RoomInv' /\ Used(frames) + 3 * (MaxNested - open) <= B
  <2>1. Used(frames) + 3 * (MaxNested - open) <= B /\ Used(frames) \in Nat
           /\ open \in 0 .. MaxNested
        /\ MaxNested \in Nat /\ B \in Nat
    <3>1. Used(frames) \in Nat /\ B \in Nat
      BY UsedFacts, SlotFacts DEF CallInv, StackInv
    <3>2. Grow(current) = 0
      BY <1>1 DEF Grow
    <3> QED BY <3>1, <3>2, <1>1, MaxNestedAssumption DEF CallInv, StackInv, RoomInv,
           CountInv
  <2>2. CASE current' = "none"
    <3>1. Grow(current') = 0
      BY <2>2 DEF Grow
    <3> HIDE DEF B
    <3> QED BY <3>1, <2>1, <1>1, <1>4 DEF RoomInv
  <2>3. CASE current' # "none"
    <3>1. /\ current' = "JSR" => Used(frames) + 2 + 3 * (MaxNested - open) <= B
          /\ current' = "PHA" => Used(frames) + 1 + 3 * (MaxNested - open) <= B
          /\ current' = "PHP" => Used(frames) + 1 + 3 * (MaxNested - open) <= B
          /\ current' = "BRK" => Used(frames) + 3 + 3 * (MaxNested - open) <= B
      BY <2>3, <1>6 DEF Structured, Size
    <3>2. /\ current' = "JSR" => Grow(current') = 2
          /\ current' \in {"PHA", "PHP"} => Grow(current') = 1
          /\ current' = "BRK" => Grow(current') = 3
          /\ current' \notin {"JSR", "PHA", "PHP", "BRK"} => Grow(current') = 0
      BY <1>4 DEF Grow, Interrupts
    <3> HIDE DEF B
    <3> QED BY <3>1, <3>2, <2>1, <1>1, <1>4 DEF RoomInv
  <2> QED BY <2>2, <2>3
<1>10. (InHandler(frames) => flagI = TRUE) /\ FlagInv'
  <2>1. InHandler(frames) => flagI = TRUE
    BY <1>1 DEF CallInv, StackInv, FlagInv
  <2>2. ~(current' = "RTI" /\ step' > 3)
    BY <1>3
  <2> QED BY <2>1, <2>2, <1>1, <1>2 DEF FlagInv
<1>11. origin'.at = NextInstruction /\ origin'.sp = SP /\ origin'.flag = flagI
      /\ origin'.clean \in BOOLEAN /\ origin'.open = open
  BY DEF CallBegin
<1>12. NextInstruction \in Word /\ flagI \in BOOLEAN /\ PC \in Word
  BY IncBefore DEF CallInv, TypeOK, NextInstruction
<1>13. OriginInv'
  <2> SUFFICES ASSUME current' # "none" PROVE OriginInv'
    BY DEF OriginInv
  <2>1. origin'.sp = Slot(Used(frames'))
    <3>1. SP = Slot((Used(frames) + 0) - 0) /\ Used(frames) \in Nat
      BY <1>1, UsedFacts DEF CallInv, StackInv, SPInv, PushesAt, PullsAt, Interrupts
    <3> QED BY <3>1, <1>1, <1>11
  <2>2. InHandler(frames') => origin'.flag = TRUE
    BY <1>10, <1>11, <1>1
  <2>3. current' # "TXS" /\ (current' \in {"CLI", "IRQ"} => ~InHandler(frames'))
    BY <1>6, <1>1, <1>4 DEF Structured, Interrupts
  <2>4. current' \in Poppers => frames # <<>> /\ Head(frames).kind \in Pops(current')
    BY <1>6 DEF Structured, Poppers, Pops, InterruptKinds
  <2>5. origin'.open \in 0 .. open' /\ OpenWithin(frames', origin'.open)
    BY <1>1, <1>4, <1>11 DEF CallInv, StackInv, CountInv
  <2>6. current' \in InterruptKinds
           => Used(frames') + 3 * (MaxNested - origin'.open) <= B
    BY <1>1, <1>4, <1>9, <1>11 DEF InterruptKinds, Interrupts
  <2> QED BY <2>1, <2>2, <2>3, <2>4, <2>5, <2>6, <1>1, <1>11, <1>12 DEF OriginInv
<1>14. PushInv'
  <2>1. PushesAt(current', step') = 0
    BY <1>3, <1>4 DEF PushesAt
  <2>2. current' \in {"JSR", "BRK"} => PC' = Inc(origin'.at) /\ step' = 1
    <3> SUFFICES ASSUME current' \in {"JSR", "BRK"} PROVE PC' = Inc(origin'.at)
      BY <1>3
    <3>1. CASE prefetched = "none"
      BY <3>1, <1>11 DEF BeginInstruction, NextInstruction
    <3>2. CASE prefetched # "none"
      BY <3>2, <1>11, <1>12, IncBefore DEF BeginInstruction, NextInstruction
    <3> QED BY <3>1, <3>2
  <2>3. flagI' = origin'.flag
    BY <1>2, <1>11
  <2> QED BY <2>1, <2>2, <2>3, <1>4 DEF PushInv
<1>15. PullInv'
  BY <1>3 DEF PullInv
<1>16. ram' \in [Byte -> Byte]
  BY <1>5 DEF CallInv
<1> QED BY <1>7, <1>8, <1>9, <1>10, <1>13, <1>14, <1>15, <1>16 DEF CallInv, StackInv

(* An interrupt begins: one more is open and one fewer pending, and IRQ    *)
(* finds I clear.                                                          *)
LEMMA BeginInterruptStep ==
  ASSUME CallInv, CallBegin, TypeOK', NEW v, BeginInterrupt(v)
  PROVE  CallInv'
<1>1. current = "none" /\ frames' = frames
  BY DEF CallBegin
<1>2. SP' = SP /\ flagI' = flagI /\ PC' = PC /\ prefetched' = "none" /\ step' = 1
      /\ current' = Serviced
  BY DEF BeginInterrupt, Begin
<1>3. current' \in {"IRQ", "NMI"} /\ open' = open + 1
  BY <1>2 DEF Serviced, CallBegin, Interrupts
<1>5. ram' = ram
  <2>1. bus'.op # "write"
    BY DEF BeginInterrupt, NoAccess, Read, Idle
  <2> QED BY <2>1 DEF CallBegin, StackMemory
<1>6. open \in 0 .. MaxNested /\ MaxNested \in Nat /\ OpenWithin(frames, open)
  BY MaxNestedAssumption DEF CallInv, StackInv, CountInv
<1>7. FramesOK(frames', ram') /\ PrefInv'
  <2>4. "none" \notin Instructions
    BY NoneIsNoSequence DEF Instructions
  <2> QED BY <2>4, <1>1, <1>2, <1>5 DEF CallInv, StackInv, PrefInv
<1>8. CountInv'
  <2>1. /\ pendingIRQ \/ pendingNMI => open + 1 <= MaxNested
        /\ pendingIRQ /\ pendingNMI => open + 2 <= MaxNested
    BY DEF CallInv, StackInv, CountInv
  <2>2. /\ pendingIRQ \/ pendingNMI
        /\ ~(pendingIRQ' /\ pendingNMI')
        /\ pendingIRQ' \/ pendingNMI' => pendingIRQ /\ pendingNMI
    BY Zenon DEF BeginInterrupt, Serviced, Recognised
  <2>3. OpenWithin(frames, open + 1)
    <3> SUFFICES ASSUME NEW i \in 1 .. Len(frames) PROVE frames[i].open <= open + 1
      BY DEF OpenWithin
    <3>1. frames[i].open \in 0 .. MaxNested
      BY DEF CallInv, StackInv, FramesOK, FrameOK, FrameSet
    <3> QED BY <3>1, <1>6 DEF OpenWithin
  <2>4. open + 1 <= MaxNested
    BY <2>1, <2>2
  <2>5. pendingIRQ' \/ pendingNMI' => (open + 1) + 1 <= MaxNested
    <3>1. pendingIRQ' \/ pendingNMI' => open + 2 <= MaxNested
      BY <2>1, <2>2, Zenon
    <3>2. (open + 1) + 1 = open + 2
      BY <1>6
    <3> QED BY <3>1, <3>2
  <2>6. open + 1 \in 0 .. MaxNested
    BY <2>4, <1>6
  <2>7. ~(pendingIRQ' /\ pendingNMI')
    BY <2>2, Zenon
  <2> QED BY <2>3, <2>5, <2>6, <2>7, <1>3, <1>1 DEF CountInv
<1>9. SP = Slot(Used(frames)) /\ Used(frames) \in Nat
  <2>1. SP = Slot((Used(frames) + 0) - 0) /\ Used(frames) \in Nat
    BY <1>1, UsedFacts DEF CallInv, StackInv, SPInv, PushesAt, PullsAt, Interrupts
  <2> QED BY <2>1
<1>10. PushesAt(current', step') = 0 /\ PullsAt(current', step') = 0
  BY <1>2, <1>3 DEF PushesAt, PullsAt, Interrupts
<1>11. SPInv'
  BY <1>1, <1>2, <1>9, <1>10 DEF SPInv
<1>12. RoomInv' /\ Used(frames) + 3 * (MaxNested - open) <= B
  <2>1. Used(frames) + 0 + 3 * (MaxNested - open) <= B /\ B \in Nat
    <3>1. Grow(current) = 0
      BY <1>1 DEF Grow
    <3> QED BY <3>1, <1>1, SlotFacts DEF CallInv, StackInv, RoomInv
  <2>2. Grow(current') = 3
    BY <1>3 DEF Grow
  <2> HIDE DEF B
  <2>3. Used(frames) + 3 + 3 * (MaxNested - (open + 1)) <= B
    BY <2>1, <1>9, <1>6
  <2> QED BY <2>1, <2>2, <2>3, <1>1, <1>3, <1>6, <1>9 DEF RoomInv
<1>13. (InHandler(frames) => flagI = TRUE) /\ FlagInv'
  <2>1. InHandler(frames) => flagI = TRUE
    BY <1>1 DEF CallInv, StackInv, FlagInv
  <2> QED BY <2>1, <1>1, <1>2, <1>3 DEF FlagInv
<1>14. origin'.at = NextInstruction /\ origin'.sp = SP /\ origin'.flag = flagI
      /\ origin'.clean \in BOOLEAN /\ origin'.open = open
  BY DEF CallBegin
<1>15. NextInstruction \in Word /\ flagI \in BOOLEAN
  BY IncBefore DEF CallInv, TypeOK, NextInstruction
<1>16. OriginInv'
  <2>1. current' = "IRQ" => ~InHandler(frames')
    <3>1. current' = "IRQ" => ~flagI
      BY <1>2 DEF BeginInterrupt, Serviced, Recognised
    <3> QED BY <3>1, <1>13, <1>1
  <2>2. origin'.open \in 0 .. open' /\ OpenWithin(frames', origin'.open)
    BY <1>1, <1>3, <1>6, <1>14
  <2>3. Used(frames') + 3 * (MaxNested - origin'.open) <= B
    BY <1>1, <1>12, <1>14
  <2> QED BY <2>1, <2>2, <2>3, <1>1, <1>3, <1>9, <1>13, <1>14, <1>15 DEF OriginInv,
         Poppers
<1>17. PushInv'
  <2>1. origin'.clean => PC' = origin'.at
    <3>1. origin'.clean = (prefetched = "none")
      BY DEF CallBegin
    <3> QED BY <3>1, <1>2, <1>14, Zenon DEF NextInstruction
  <2> QED BY <2>1, <1>2, <1>3, <1>10, <1>14 DEF PushInv
<1>18. PullInv'
  BY <1>3 DEF PullInv
<1>19. ram' \in [Byte -> Byte]
  BY <1>5 DEF CallInv
<1> QED BY <1>7, <1>8, <1>11, <1>12, <1>13, <1>16, <1>17, <1>18, <1>19 DEF CallInv,
       StackInv

(* Their numbers of operations. *)
Lens == [JSR |-> 5, PHA |-> 2, PHP |-> 2, PLA |-> 3, PLP |-> 3, RTI |-> 5, RTS |-> 5,
   BRK |-> 6, IRQ |-> 5, NMI |-> 5]
LEMMA SpecialLengths == \A m \in Special : Len(Steps[m]) = Lens[m]
   /\ m \in Sequences6502
<1>1. Special \subseteq Sequences6502
  BY DEF Special, Steps, Sequences6502
<1>2. /\ Len(Steps["JSR"]) = 5 /\ Len(Steps["PHA"]) = 2 /\ Len(Steps["PHP"]) = 2
      /\ Len(Steps["PLA"]) = 3 /\ Len(Steps["PLP"]) = 3 /\ Len(Steps["RTI"]) = 5
      /\ Len(Steps["RTS"]) = 5 /\ Len(Steps["BRK"]) = 6 /\ Len(Steps["IRQ"]) = 5
      /\ Len(Steps["NMI"]) = 5
  BY Table
<1>3. /\ Lens["JSR"] = 5 /\ Lens["PHA"] = 2 /\ Lens["PHP"] = 2 /\ Lens["PLA"] = 3
      /\ Lens["PLP"] = 3 /\ Lens["RTI"] = 5 /\ Lens["RTS"] = 5 /\ Lens["BRK"] = 6
      /\ Lens["IRQ"] = 5 /\ Lens["NMI"] = 5
  BY DEF Lens
<1> QED BY <1>1, <1>2, <1>3 DEF Special

(* The operations of a sequence that uses the stack follow one by one.     *)
LEMMA Forward ==
  ASSUME TypeOK, current \in Special, Advance(0)
  PROVE  /\ step \in 1 .. Lens[current]
         /\ step < Lens[current] => current' = current /\ step' = step + 1
         /\ step = Lens[current] => current' = "none" /\ step' = 1
<1>1. current # "none" /\ Len(Steps[current]) = Lens[current]
         /\ Lens[current] \in 1 .. 6
  BY SpecialLengths, StepsLength, NoneIsNoSequence
<1>2. \/ current' = "none" /\ step' = 1 /\ Len(Steps[current]) <= step + 0
      \/ current' = current /\ step' = step + 0 + 1 /\ step + 0 < Len(Steps[current])
  BY <1>1, AdvanceTo
<1>3. step \in 1 .. Lens[current]
  BY <1>1, AdvanceTo
<1> QED BY <1>1, <1>2, <1>3

(* The sizes are numbers, and what the sequence will push fits.            *)
LEMMA Numbers ==
  ASSUME CallInv
  PROVE  /\ B \in Nat /\ MaxNested \in Nat /\ open \in 0 .. MaxNested
         /\ Used(frames) \in 0 .. B
         /\ Grow(current) \in Nat /\ Used(frames) + Grow(current) <= B
<1>1. B \in Nat /\ MaxNested \in Nat /\ open \in 0 .. MaxNested
  BY SlotFacts, MaxNestedAssumption DEF CallInv, StackInv, CountInv
<1>2. Used(frames) \in 0 .. B
  BY UsedFacts DEF CallInv, StackInv
<1>3. Grow(current) \in Nat
  BY DEF Grow
<1>4. Used(frames) + Grow(current) + 3 * (MaxNested - open) <= B
  BY DEF CallInv, StackInv, RoomInv
<1> HIDE DEF B
<1> QED BY <1>1, <1>2, <1>3, <1>4

(* What every micro-operation keeps. *)
LEMMA OpKeeps ==
  ASSUME CallInv, CallOp, TypeOK'
  PROVE  /\ PrefInv' /\ ram' \in [Byte -> Byte]
         /\ origin' = origin
         /\ current # "RTI" \/ current' # "none" => open' = open
         /\ pendingIRQ' = pendingIRQ /\ pendingNMI' = pendingNMI
         /\ current # "none" /\ current \in Sequences6502 /\ step \in 1 .. 6
         /\ bus'.val \in Byte /\ flagI \in BOOLEAN /\ flagI' \in BOOLEAN
         /\ Op \notin Pushes => ram' = ram
<1>1. current # "none" /\ Tick /\ StackMemory /\ origin' = origin
      /\ (prefetched' \in Instructions => Structured(prefetched', frames', open'))
      /\ (current # "RTI" \/ current' # "none" => open' = open)
  BY DEF CallOp
<1>2. pendingIRQ' = pendingIRQ /\ pendingNMI' = pendingNMI
  BY <1>1, OpEffect DEF Effect, pending
<1>4. PrefInv'
  BY <1>1 DEF PrefInv
<1>5. ram' \in [Byte -> Byte] /\ bus'.val \in Byte
  BY <1>1, RamStep DEF CallInv
<1>6. Op \notin Pushes => ram' = ram
  BY <1>1 DEF StackMemory
<1> QED BY <1>1, <1>2, <1>4, <1>5, <1>6 DEF CallInv, TypeOK

(* Room for n open interrupts is room for fewer.                           *)
LEMMA RoomGrows ==
  ASSUME NEW m \in Nat, NEW n \in 0 .. m, NEW k \in 0 .. n
  PROVE  k \in 0 .. m /\ (n + 1 <= m => k + 1 <= m) /\ (n + 2 <= m => k + 2 <= m)
OBVIOUS

(* Interrupts that are returned from leave room for those pending.         *)
LEMMA CountKeeps ==
  ASSUME CallInv, CallOp, TypeOK', open' \in 0 .. open, OpenWithin(frames', open')
  PROVE  CountInv'
<1>1. MaxNested \in Nat /\ open \in 0 .. MaxNested
  BY Numbers
<1>2. /\ pendingIRQ \/ pendingNMI => open + 1 <= MaxNested
      /\ pendingIRQ /\ pendingNMI => open + 2 <= MaxNested
  BY DEF CallInv, StackInv, CountInv
<1>3. pendingIRQ' = pendingIRQ /\ pendingNMI' = pendingNMI
  BY OpKeeps
<1>4. /\ open' \in 0 .. MaxNested
      /\ open + 1 <= MaxNested => open' + 1 <= MaxNested
      /\ open + 2 <= MaxNested => open' + 2 <= MaxNested
  BY <1>1, RoomGrows
<1>5. /\ pendingIRQ' \/ pendingNMI' => open' + 1 <= MaxNested
      /\ pendingIRQ' /\ pendingNMI' => open' + 2 <= MaxNested
  BY <1>2, <1>3, <1>4, Zenon
<1> QED BY <1>4, <1>5 DEF CountInv

(* A sequence that ends with the stack in order leaves the invariant.      *)
LEMMA Ends ==
  ASSUME CallInv, CallOp, TypeOK', current' = "none", FramesOK(frames', ram'),
         SP' = Slot(Used(frames')), open' \in 0 .. open, OpenWithin(frames', open'),
         Used(frames') + 3 * (MaxNested - open') <= B,
         InHandler(frames') => flagI' = TRUE
  PROVE  CallInv'
<1>1. CountInv' /\ PrefInv' /\ ram' \in [Byte -> Byte]
  BY OpKeeps, CountKeeps
<1>2. Used(frames') \in 0 .. B
  BY UsedFacts
<1>3. PushesAt(current', step') = 0 /\ PullsAt(current', step') = 0
         /\ Grow(current') = 0
  BY DEF PushesAt, PullsAt, Grow, Interrupts
<1>4. SPInv'
  BY <1>2, <1>3 DEF SPInv
<1>5. RoomInv'
  <2> HIDE DEF B
  <2> QED BY <1>2, <1>3, Numbers DEF RoomInv
<1>6. FlagInv' /\ OriginInv' /\ PushInv' /\ PullInv'
  BY DEF FlagInv, OriginInv, PushInv, PullInv
<1> QED BY <1>1, <1>4, <1>5, <1>6 DEF CallInv, StackInv

(* A sequence other than RTI ends: it leaves at most what it was to push.  *)
LEMMA EndOK ==
  ASSUME CallInv, CallOp, TypeOK', current' = "none", current # "RTI",
     FramesOK(frames', ram'),
         SP' = Slot(Used(frames')), Used(frames') <= Used(frames) + Grow(current),
         OpenWithin(frames', open), InHandler(frames') => flagI' = TRUE
  PROVE  CallInv'
<1>1. open' = open
  BY OpKeeps
<1>2. Used(frames') \in 0 .. B
  BY UsedFacts
<1>3. Used(frames') + 3 * (MaxNested - open') <= B
  <2>1. Used(frames) + Grow(current) + 3 * (MaxNested - open) <= B
    BY DEF CallInv, StackInv, RoomInv
  <2> HIDE DEF B
  <2> QED BY <1>1, <1>2, <2>1, Numbers
<1>4. open' \in 0 .. open
  BY <1>1, Numbers
<1> QED BY <1>1, <1>3, <1>4, Ends

(* A sequence that goes on leaves the frames alone.                        *)
LEMMA GoesOn ==
  ASSUME CallInv, CallOp, TypeOK', current' = current, FramesOK(frames, ram'),
         SPInv', FlagInv', PushInv', PullInv'
  PROVE  CallInv'
<1>1. /\ PrefInv' /\ ram' \in [Byte -> Byte] /\ open' = open /\ origin' = origin
      /\ current # "none"
  BY OpKeeps
<1>2. frames' = frames
  BY <1>1 DEF CallOp
<1>3. RoomInv' /\ OriginInv'
  BY <1>1, <1>2 DEF CallInv, StackInv, RoomInv, OriginInv
<1>4. CountInv'
  <2>1. open' \in 0 .. open /\ OpenWithin(frames', open')
    BY <1>1, <1>2, Numbers DEF CallInv, StackInv, CountInv
  <2> QED BY <2>1, CountKeeps
<1> QED BY <1>1, <1>2, <1>3, <1>4 DEF CallInv, StackInv

(* A tick of a sequence that does not use the stack.                       *)
LEMMA PlainStep ==
  ASSUME CallInv, CallOp, TypeOK', current \notin Special
  PROVE  CallInv'
<1>1. /\ current # "none" /\ current \in Sequences6502 /\ step \in 1 .. 6
      /\ ram' = ram \/ Op \in Pushes
  BY OpKeeps
<1>2. step \in 1 .. Len(Steps[current]) /\ Plain(current)
  <2>1. step <= Len(Steps[current]) /\ Len(Steps[current]) \in 1 .. 6
    BY <1>1, StepsLength DEF CallInv, TypeOK
  <2> QED BY <1>1, <2>1, PlainOps
<1>3. Op \notin StackOps /\ (Op = "ClearI" => current = "CLI")
         /\ (Op = "SetSP" => current = "TXS")
  BY <1>2 DEF Plain, Op
<1>4. Effect
  BY <1>1, OpEffect DEF CallOp
<1>5. current # "TXS" /\ (current = "CLI" => ~InHandler(frames))
  BY <1>1 DEF CallInv, StackInv, OriginInv
<1>6. ram' = ram /\ SP' = SP /\ (flagI' = flagI \/ flagI' = TRUE \/ ~InHandler(frames))
  BY <1>1, <1>3, <1>4, <1>5 DEF Effect, StackOps, Pushes, Pulls
<1>7. frames' = frames
  <2>1. FramesAfter(bus'.val) = frames
    BY <1>1 DEF FramesAfter, Special, Interrupts
  <2> QED BY <2>1 DEF CallOp
<1>8. PushesAt(current, step) = 0 /\ PullsAt(current, step) = 0
      /\ PushesAt(current, step') = 0 /\ PullsAt(current, step') = 0
  BY DEF PushesAt, PullsAt, Special, Interrupts
<1>9. Used(frames) \in Nat /\ Grow(current) \in Nat
  BY Numbers
<1>10. SP = Slot(Used(frames))
  <2>1. SP = Slot((Used(frames) + 0) - 0)
    BY <1>8 DEF CallInv, StackInv, SPInv
  <2> QED BY <2>1, <1>9
<1>11. InHandler(frames') => flagI' = TRUE
  BY <1>6, <1>7 DEF CallInv, StackInv, FlagInv, Special
<1>12. FramesOK(frames', ram')
  BY <1>6, <1>7 DEF CallInv, StackInv
<1>13. CASE current' = "none"
  <2>1. Used(frames') <= Used(frames) + Grow(current) /\ SP' = Slot(Used(frames'))
    BY <1>6, <1>7, <1>9, <1>10
  <2>2. current # "RTI" /\ OpenWithin(frames', open)
    BY <1>7 DEF CallInv, StackInv, CountInv, Special
  <2> QED BY <2>1, <2>2, <1>13, <1>11, <1>12, EndOK
<1>14. CASE current' # "none"
  <2>1. current' = current
    <3>1. PICK n \in 0 .. 2 : Advance(n)
      BY <1>4 DEF Effect
    <3> QED BY <1>1, <1>14, <3>1, AdvanceTo DEF CallInv
  <2>2. SPInv'
    BY <2>1, <1>6, <1>7, <1>8, <1>9, <1>10 DEF SPInv
  <2>3. FlagInv' /\ PushInv' /\ PullInv'
    BY <2>1, <1>11 DEF FlagInv, PushInv, PullInv, Special, Interrupts
  <2> QED BY <2>1, <2>2, <2>3, <1>7, <1>12, GoesOn
<1> QED BY <1>13, <1>14

(* pushByte. *)
LEMMA PushStep ==
  ASSUME CallInv, CallOp, TypeOK', current \in Special, Op \in Pushes,
         NEW p \in Nat, PushesAt(current, step) = p, PullsAt(current, step) = 0,
            p < Grow(current)
  PROVE  /\ SP = Slot(Used(frames) + p) /\ SP' = Slot(Used(frames) + (p + 1))
         /\ ram'[Slot(Used(frames) + p)] = bus'.val
         /\ \A d \in Used(frames) .. (Used(frames) + p) - 1 : ram'[Slot(d)] = ram[Slot(d)]
         /\ FramesOK(frames, ram')
         /\ Advance(0) /\ PC' = PC
         /\ Op = "PushPCH" => bus'.val = PC[1]
         /\ Op = "PushPCL" => bus'.val = PC[2]
         /\ Op \in {"PushP", "PushPSetI"} => (Bit(bus'.val) = flagI)
         /\ Op # "PushPSetI" => flagI' = flagI
         /\ Op = "PushPSetI" => flagI' = TRUE
<1> DEFINE u == Used(frames) + p
<1>1. /\ B \in Nat /\ u \in Used(frames) .. B - 1 /\ u \in 0 .. B - 1
            /\ Used(frames) \in Nat
      /\ Used(frames) + (p + 1) = u + 1 /\ Used(frames) + (p - 0) = u
  <2> HIDE DEF B
  <2> QED BY Numbers
<1>2. SP = Slot(u)
  <2>1. SP = Slot((Used(frames) + p) - 0)
    BY DEF CallInv, StackInv, SPInv
  <2> QED BY <2>1, <1>1
<1>3. /\ bus'.op = "write" /\ bus'.addr = Stack(SP) /\ SP' = Wrap(SP - 1)
      /\ Advance(0) /\ PC' = PC
      /\ Op = "PushPCH" => bus'.val = PC[1]
      /\ Op = "PushPCL" => bus'.val = PC[2]
      /\ Op # "PushPSetI" => flagI' = flagI
      /\ Op = "PushPSetI" => flagI' = TRUE
  <2>1. current # "none" /\ Tick
    BY OpKeeps DEF CallOp
  <2>2. CASE Op = "PushPCH"
    BY <2>1, <2>2, OpActs DEF PushPCH, Push, Write
  <2>3. CASE Op = "PushPCL"
    BY <2>1, <2>3, OpActs DEF PushPCL, Push, Write
  <2>4. CASE Op = "PushA"
    BY <2>1, <2>4, OpActs DEF PushA, Push, Write
  <2>5. CASE Op = "PushP"
    BY <2>1, <2>5, OpActs DEF PushP, Push, Write
  <2>6. CASE Op = "PushPSetI"
    <3>1. PICK v \in BusBytes : PushPSetI(v)
      BY <2>1, <2>6, OpActs
    <3>2. /\ Push(v) /\ Advance(0) /\ flagI' = TRUE /\ PC' = PC
      BY <3>1, Zenon DEF PushPSetI
    <3> QED BY <2>6, <3>2 DEF Push, Write
  <2> QED BY <2>2, <2>3, <2>4, <2>5, <2>6 DEF Pushes
<1>4. Op \in {"PushP", "PushPSetI"} => (Bit(bus'.val) = flagI)
  <2>1. current # "none" /\ Tick
    BY OpKeeps DEF CallOp
  <2>2. CASE Op = "PushP"
    BY <2>1, <2>2, OpActs DEF PushP, Push, Write
  <2>3. CASE Op = "PushPSetI"
    <3>1. PICK v \in BusBytes : PushPSetI(v)
      BY <2>1, <2>3, OpActs
    <3>2. Push(v) /\ (Bit(v) = flagI)
      BY <3>1, Zenon DEF PushPSetI
    <3>3. bus'.val = v
      BY <3>2 DEF Push, Write
    <3> QED BY <3>2, <3>3, Zenon
  <2> QED BY <2>2, <2>3
<1>5. bus'.val \in Byte /\ ram' = [ram EXCEPT ![SP] = bus'.val]
  <2>1. bus'.addr[1] = 1 /\ bus'.addr[2] = SP
    BY <1>3 DEF Stack
  <2> QED BY <2>1, <1>3, RamStep DEF CallInv, CallOp
<1>6. SP' = Slot(u + 1)
  BY <1>1, <1>2, <1>3, SlotFacts
<1>7. FramesOK(frames, ram')
  BY <1>1, <1>2, <1>5, WriteKeeps DEF CallInv, StackInv
<1>8. Slot(u) \in Byte
  BY <1>2 DEF CallInv, TypeOK
<1>9. ram'[Slot(u)] = bus'.val
  BY <1>2, <1>5, <1>8 DEF CallInv
<1>10. ASSUME NEW d \in Used(frames) .. u - 1 PROVE ram'[Slot(d)] = ram[Slot(d)]
  <2>1. d \in 0 .. B - 1 /\ d # u /\ d \in 0 .. B
    <3> HIDE DEF B
    <3> QED BY <1>1
  <2>2. \A x, y \in 0 .. B - 1 : Slot(x) = Slot(y) => x = y
    BY SlotFacts
  <2>3. Slot(d) # Slot(u)
    BY <2>1, <2>2, <1>1, Zenon
  <2>4. Slot(d) \in Byte
    <3>1. \A x \in 0 .. B : Slot(x) \in Byte
      BY SlotFacts
    <3> QED BY <2>1, <3>1, Zenon
  <2> QED BY <2>3, <2>4, <1>2, <1>5 DEF CallInv
<1> QED BY <1>1, <1>2, <1>3, <1>4, <1>6, <1>7, <1>9, <1>10

(* pullByte. *)
LEMMA PullStep ==
  ASSUME CallInv, CallOp, TypeOK', current \in Special, Op \in Pulls,
         NEW q \in Nat, PullsAt(current, step) = q, PushesAt(current, step) = 0,
         q < Used(frames)
  PROVE  /\ SP' = Slot(Used(frames) - (q + 1))
         /\ bus'.val = ram[Slot(Used(frames) - (q + 1))]
         /\ Advance(0)
         /\ Op # "PullPCH" => PC' = PC
         /\ Op = "PullP" => flagI' = Bit(bus'.val)
         /\ Op # "PullP" => flagI' = flagI
         /\ Op = "PullTmp" => tmp8' = bus'.val
         /\ Op = "PullAddr" => tmpAddr' = <<bus'.val, tmp8>>
         /\ Op = "PullPCH" => PC' = <<bus'.val, tmp8>>
<1> DEFINE u == Used(frames) - q
<1>1. /\ B \in Nat /\ u \in 1 .. B /\ (Used(frames) + 0) - q = u
            /\ u - 1 = Used(frames) - (q + 1)
  <2> HIDE DEF B
  <2> QED BY Numbers
<1>2. SP = Slot(u)
  BY <1>1 DEF CallInv, StackInv, SPInv
<1>3. /\ bus'.op = "read" /\ bus'.addr = Stack(Wrap(SP + 1)) /\ SP' = Wrap(SP + 1)
      /\ Advance(0)
      /\ Op # "PullPCH" => PC' = PC
      /\ Op # "PullP" => flagI' = flagI
      /\ Op = "PullTmp" => tmp8' = bus'.val
      /\ Op = "PullAddr" => tmpAddr' = <<bus'.val, tmp8>>
      /\ Op = "PullPCH" => PC' = <<bus'.val, tmp8>>
  BY OpActs, OpKeeps
     DEF CallOp, Pulls, PullA, PullP, PullTmp, PullPCH, PullAddr, Pull, Read, temps
<1>4. Op = "PullP" => flagI' = Bit(bus'.val)
  BY OpActs, OpKeeps DEF CallOp, PullP, Pull, Read
<1>5. bus'.val = ram[Wrap(SP + 1)]
  <2>1. bus'.addr[1] = 1 /\ bus'.addr[2] = Wrap(SP + 1)
    BY <1>3 DEF Stack
  <2> QED BY <2>1, <1>3 DEF CallOp, StackMemory
<1>6. Wrap(SP + 1) = Slot(u - 1)
  BY <1>1, <1>2, SlotFacts
<1> QED BY <1>1, <1>3, <1>4, <1>5, <1>6

(* A sequence that ends leaves a frame behind.                             *)
LEMMA FrameLeft ==
  ASSUME CallInv, CallOp, TypeOK', current' = "none",
         NEW kind \in FrameKinds, NEW resume \in Word, NEW v \in Byte,
         current # "RTI", kind \in InterruptKinds => current \in InterruptKinds,
         frames' = Frames(kind, resume, v), Size[kind] = Grow(current),
            FramesOK(frames, ram'),
         SP' = Slot(Used(frames) + Size[kind]),
         kind = "call"
            => Inc(<<ram'[Slot(Used(frames))], ram'[Slot(Used(frames) + 1)]>>) = resume,
         kind = "A" => ram'[Slot(Used(frames))] = v,
         kind = "P" => (Bit(ram'[Slot(Used(frames))]) = origin.flag),
         kind \in InterruptKinds => (Bit(ram'[Slot(Used(frames) + 2)]) = origin.flag),
         kind \in InterruptKinds /\ origin.clean =>
           <<ram'[Slot(Used(frames))], ram'[Slot(Used(frames) + 1)]>> = resume,
         InHandler(frames) => kind # "IRQ",
         kind \in InterruptKinds \/ InHandler(frames) => flagI' = TRUE
  PROVE  CallInv'
<1> DEFINE f == [kind |-> kind, resume |-> resume, val |-> v, flag |-> origin.flag,
                 clean |-> origin.clean, sp |-> origin.sp, open |-> origin.open,
                 used |-> Used(frames) + Size[kind]]
<1>1. /\ current # "none" /\ origin.sp = Slot(Used(frames)) /\ origin.flag \in BOOLEAN
      /\ origin.clean \in BOOLEAN /\ (InHandler(frames) => origin.flag = TRUE)
      /\ origin.open \in 0 .. open /\ OpenWithin(frames, origin.open)
      /\ current \in InterruptKinds => Used(frames) + 3 * (MaxNested - origin.open) <= B
  BY OpKeeps DEF CallInv, StackInv, OriginInv
<1>2. /\ Used(frames) \in 0 .. B /\ B \in Nat /\ Size[kind] \in Nat
      /\ Used(frames) + Size[kind] <= B
  BY Numbers
<1>3. Slot(Used(frames)) \in Byte
  BY <1>2, SlotFacts
<1>4. Used(frames) + Size[kind] \in Nat
         /\ (Used(frames) + Size[kind]) - Size[kind] = Used(frames)
  <2> HIDE DEF B
  <2> QED BY <1>2
<1>5. /\ f.kind = kind /\ f.resume = resume /\ f.val = v /\ f.sp = origin.sp
      /\ f.used = Used(frames) + Size[kind] /\ f.open = origin.open
  OBVIOUS
<1>6. (f.flag = origin.flag) /\ (f.clean = origin.clean)
  BY Zenon
<1>7. f \in FrameSet
  <2>1. origin.open \in 0 .. MaxNested
    BY <1>1, Numbers
  <2> QED BY <2>1, <1>1, <1>3, <1>4 DEF FrameSet
<1>8. frames' = <<f>> \o frames
  BY DEF Frames
<1> HIDE DEF f
<1>9. Below(f) = Used(frames)
  BY <1>4, <1>5 DEF Below
<1>10. Holds(f, ram')
  <2>1. f.kind = "call"
           => Inc(<<ram'[Slot(Below(f))], ram'[Slot(Below(f) + 1)]>>) = f.resume
    BY <1>5, <1>9
  <2>2. f.kind = "A" => ram'[Slot(Below(f))] = f.val
    BY <1>5, <1>9
  <2>3. f.kind = "P" => (Bit(ram'[Slot(Below(f))]) = f.flag)
    BY <1>5, <1>6, <1>9, Zenon
  <2>4. f.kind \in InterruptKinds => (Bit(ram'[Slot(Below(f) + 2)]) = f.flag)
    BY <1>5, <1>6, <1>9, Zenon
  <2>5. f.kind \in InterruptKinds /\ f.clean
          => <<ram'[Slot(Below(f))], ram'[Slot(Below(f) + 1)]>> = f.resume
    BY <1>5, <1>6, <1>9, Zenon
  <2> QED BY <2>1, <2>2, <2>3, <2>4, <2>5 DEF Holds
<1>11. FrameOK(f, ram')
  <2> HIDE DEF B
  <2>1. f.kind \in InterruptKinds => Below(f) + 3 * (MaxNested - f.open) <= B
    BY <1>1, <1>5, <1>9
  <2> QED BY <2>1, <1>1, <1>2, <1>5, <1>7, <1>9, <1>10 DEF FrameOK
<1>12. InHandler(frames) => f.flag = TRUE /\ f.kind # "IRQ"
  BY <1>1, <1>5, <1>6, Zenon
<1>13. FramesOK(frames', ram') /\ Used(frames') = Used(frames) + Size[kind]
       /\ OpenWithin(frames', origin.open)
  BY <1>1, <1>5, <1>8, <1>9, <1>11, <1>12, PushKeeps
<1>14. InHandler(frames') => kind \in InterruptKinds \/ InHandler(frames)
  <2> SUFFICES ASSUME InHandler(frames')
         PROVE kind \in InterruptKinds \/ InHandler(frames)
    OBVIOUS
  <2>1. PICK i \in 1 .. Len(frames') : frames'[i].kind \in InterruptKinds
    BY DEF InHandler
  <2>2. frames \in Seq(FrameSet) /\ <<f>> \in Seq(FrameSet) /\ Len(<<f>>) = 1
           /\ <<f>>[1] = f
        /\ Len(frames) \in Nat
    BY <1>7 DEF FramesOK
  <2>3. Len(frames') = 1 + Len(frames)
           /\ frames'[i] = IF i <= 1 THEN f ELSE frames[i - 1]
    <3> DEFINE o == <<f>>
    <3>1. o \in Seq(FrameSet) /\ frames \in Seq(FrameSet) /\ Len(o) = 1 /\ o[1] = f
          /\ frames' = o \o frames
      BY <2>2, <1>8
    <3> HIDE DEF o
    <3>2. /\ Len(o \o frames) = Len(o) + Len(frames)
          /\ \A k \in 1 .. Len(o) + Len(frames) :
               (o \o frames)[k] = IF k <= Len(o) THEN o[k] ELSE frames[k - Len(o)]
      BY <3>1, ConcatProperties
    <3>3. Len(frames') = 1 + Len(frames) /\ i \in 1 .. 1 + Len(frames)
      BY <3>1, <3>2
    <3>4. frames'[i] = IF i <= 1 THEN o[i] ELSE frames[i - 1]
      BY <3>1, <3>2, <3>3
    <3>5. i <= 1 => i = 1
      BY <3>3, <2>2
    <3> QED BY <3>1, <3>3, <3>4, <3>5
  <2>4. CASE i <= 1
    BY <2>1, <2>3, <2>4, <1>5
  <2>5. CASE ~(i <= 1)
    <3>1. i - 1 \in 1 .. Len(frames)
      BY <2>5, <2>2, <2>3
    <3> QED BY <3>1, <2>1, <2>3, <2>5 DEF InHandler
  <2> QED BY <2>4, <2>5
<1>15. Used(frames') <= Used(frames) + Grow(current)
  BY <1>13, <1>4
<1>16. OpenWithin(frames', open)
  <2> SUFFICES ASSUME NEW i \in 1 .. Len(frames') PROVE frames'[i].open <= open
    BY DEF OpenWithin
  <2>1. frames'[i].open <= origin.open /\ frames'[i].open \in 0 .. MaxNested
    BY <1>13 DEF OpenWithin, FramesOK, FrameOK, FrameSet
  <2> QED BY <2>1, <1>1, Numbers
<1> QED BY <1>13, <1>14, <1>15, <1>16, EndOK

(* The sequences that push. *)
Pushers == {"JSR", "PHA", "PHP", "BRK", "IRQ", "NMI"}

(* An operation of a pushing sequence that pushes nothing.                 *)
LEMMA PushWaits ==
  ASSUME CallInv, CallOp, TypeOK', current \in Pushers, current' = current,
     step' = step + 1,
         PushesAt(current, step + 1) = PushesAt(current, step),
         Op \notin Pushes, SP' = SP, flagI' = flagI,
         IF current \in {"JSR", "BRK"} /\ step = 1 THEN PC' = Inc(PC) ELSE PC' = PC
  PROVE  CallInv'
<1>1. ram' = ram /\ origin' = origin /\ frames' = frames /\ step \in 1 .. 6
         /\ current # "none"
  BY OpKeeps DEF CallOp
<1>2. PullsAt(current, step) = 0 /\ PullsAt(current, step') = 0
  BY DEF PullsAt, Pushers
<1>3. SPInv'
  BY <1>1, <1>2 DEF CallInv, StackInv, SPInv
<1>4. FlagInv' /\ PullInv'
  BY <1>1 DEF CallInv, StackInv, FlagInv, PullInv, Pushers
<1>5. PushInv'
  <2>1. current \in {"JSR", "BRK"}
           => PC' = IF step' = 1 THEN Inc(origin'.at) ELSE Inc(Inc(origin'.at))
    <3>1. step' # 1
      BY <1>1
    <3>2. current \in {"JSR", "BRK"}
             => PC = IF step = 1 THEN Inc(origin.at) ELSE Inc(Inc(origin.at))
      BY DEF CallInv, StackInv, PushInv
    <3> QED BY <3>1, <3>2, <1>1
  <2>2. current \in Interrupts => PC' = PC
    BY DEF Interrupts
  <2>3. PushesAt(current, step) >= 1 => PC' = PC
    <3>1. PushesAt(current, step) >= 1 => ~(current \in {"JSR", "BRK"} /\ step = 1)
      BY DEF PushesAt
    <3> QED BY <3>1
  <2>4. PushesAt(current, step) \in Nat
    BY <1>1 DEF PushesAt
  <2>5. /\ PushesAt(current, step) >= 2 => PushesAt(current, step) >= 1
    BY <2>4
  <2> QED BY <2>1, <2>2, <2>3, <2>5, <1>1 DEF CallInv, StackInv, PushInv, Pushers
<1>6. FramesOK(frames, ram')
  BY <1>1 DEF CallInv, StackInv
<1> QED BY <1>3, <1>4, <1>5, <1>6, GoesOn

(* An operation that pushes a byte of the return address or of P.          *)
LEMMA PushesOn ==
  ASSUME CallInv, CallOp, TypeOK', current \in Pushers, Op \in Pushes,
         step < Lens[current], NEW p \in 0 .. 2, PushesAt(current, step) = p,
         PushesAt(current, step + 1) = p + 1, p < Grow(current),
         current \in {"JSR", "BRK"} => step > 1,
         p = 0 => Op = "PushPCH", p = 1 => Op = "PushPCL", p = 2 => Op = "PushPSetI"
  PROVE  CallInv'
<1>1. origin' = origin /\ frames' = frames /\ step \in 1 .. 6 /\ current # "none"
      /\ current \in Special /\ PullsAt(current, step) = 0
            /\ PullsAt(current, step + 1) = 0
      /\ p \in Nat
  <2>1. current' # "none"
    <3>1. current \in Special /\ PullsAt(current, step) = 0 /\ p \in Nat
      BY DEF Special, Pushers, PullsAt
    <3>2. Advance(0)
      BY <3>1, PushStep
    <3>3. current' = current
      BY <3>1, <3>2, Forward DEF CallInv
    <3> QED BY <3>3 DEF Pushers
  <2> QED BY <2>1, OpKeeps DEF CallOp, Special, Pushers, PullsAt
<1>2. /\ SP' = Slot(Used(frames) + (p + 1))
      /\ ram'[Slot(Used(frames) + p)] = bus'.val
      /\ \A d \in Used(frames) .. (Used(frames) + p) - 1 : ram'[Slot(d)] = ram[Slot(d)]
      /\ FramesOK(frames, ram')
      /\ Advance(0) /\ PC' = PC
      /\ Op = "PushPCH" => bus'.val = PC[1]
      /\ Op = "PushPCL" => bus'.val = PC[2]
      /\ Op # "PushPSetI" => flagI' = flagI
      /\ Op = "PushPSetI" => flagI' = TRUE
  BY <1>1, PushStep
<1>3. Op = "PushPSetI" => (Bit(bus'.val) = flagI)
  BY <1>1, PushStep
<1>4. current' = current /\ step' = step + 1
  BY <1>1, <1>2, Forward DEF CallInv
<1>5. Used(frames) \in Nat
  BY Numbers
<1>6. SPInv'
  <2>1. (Used(frames) + (p + 1)) - 0 = Used(frames) + (p + 1)
    BY <1>5
  <2> QED BY <2>1, <1>1, <1>2, <1>4 DEF SPInv
<1>7. FlagInv' /\ PullInv'
  BY <1>1, <1>2, <1>4 DEF CallInv, StackInv, FlagInv, PullInv, Pushers
<1>8. /\ p >= 1 => ram[Slot(Used(frames))] = PC[1]
      /\ p >= 2 => ram[Slot(Used(frames) + 1)] = PC[2]
      /\ current \in {"JSR", "BRK"} => PC = Inc(Inc(origin.at))
      /\ current \in Interrupts /\ origin.clean => PC = origin.at
  BY DEF CallInv, StackInv, PushInv, Pushers
<1>9. p < 3 => (flagI = origin.flag)
  BY DEF CallInv, StackInv, PushInv, Pushers
<1>10. /\ p + 1 >= 1 => ram'[Slot(Used(frames))] = PC[1]
       /\ p + 1 >= 2 => ram'[Slot(Used(frames) + 1)] = PC[2]
  <2>1. CASE p = 0
    <3>1. Used(frames) + 0 = Used(frames)
      BY <1>5
    <3> QED BY <2>1, <3>1, <1>2
  <2>2. CASE p = 1
    <3>1. Used(frames) \in Used(frames) .. (Used(frames) + p) - 1
      BY <2>2, <1>5
    <3>2. ram'[Slot(Used(frames))] = ram[Slot(Used(frames))]
      BY <3>1, <1>2
    <3> QED BY <2>2, <3>2, <1>2, <1>8
  <2>3. CASE p = 2
    <3>1. /\ Used(frames) \in Used(frames) .. (Used(frames) + p) - 1
          /\ Used(frames) + 1 \in Used(frames) .. (Used(frames) + p) - 1
      BY <2>3, <1>5
    <3>2. ram'[Slot(Used(frames))] = ram[Slot(Used(frames))]
          /\ ram'[Slot(Used(frames) + 1)] = ram[Slot(Used(frames) + 1)]
      BY <3>1, <1>2
    <3> QED BY <2>3, <3>2, <1>8
  <2> QED BY <2>1, <2>2, <2>3
<1>11. p + 1 >= 3 => (Bit(ram'[Slot(Used(frames) + 2)]) = origin.flag)
  <2> SUFFICES ASSUME p + 1 >= 3 PROVE Bit(ram'[Slot(Used(frames) + 2)]) = origin.flag
    OBVIOUS
  <2>1. p = 2 /\ p < 3
    OBVIOUS
  <2>2. ram'[Slot(Used(frames) + 2)] = bus'.val
    BY <2>1, <1>2
  <2> QED BY <2>1, <2>2, <1>3, <1>9, Zenon
<1>12. p + 1 < 3 => (flagI' = origin.flag)
  <2>1. p + 1 < 3 => p < 3 /\ p # 2
    OBVIOUS
  <2>2. p # 2 => Op # "PushPSetI"
    BY DEF Pushes
  <2> QED BY <2>1, <2>2, <1>2, <1>9
<1>13. PushInv'
  <2>1. step' # 1 /\ PushesAt(current', step') = p + 1
    BY <1>1, <1>4
  <2>2. /\ current' \in {"JSR", "BRK"}
              => PC' = IF step' = 1 THEN Inc(origin'.at) ELSE Inc(Inc(origin'.at))
        /\ current' \in Interrupts /\ origin'.clean => PC' = origin'.at
    BY <2>1, <1>1, <1>2, <1>4, <1>8
  <2>3. /\ p + 1 >= 1 => ram'[Slot(Used(frames'))] = PC'[1]
        /\ p + 1 >= 2 => ram'[Slot(Used(frames') + 1)] = PC'[2]
    BY <1>1, <1>2, <1>10
  <2>4. /\ p + 1 >= 3 => (Bit(ram'[Slot(Used(frames') + 2)]) = origin'.flag)
        /\ p + 1 < 3 => (flagI' = origin'.flag)
        /\ p + 1 >= 3 => flagI' = TRUE
    BY <1>1, <1>2, <1>11, <1>12
  <2> QED BY <2>1, <2>2, <2>3, <2>4, Zenon DEF PushInv
<1> QED BY <1>2, <1>4, <1>6, <1>7, <1>13, GoesOn

(* The step counter names an operation of the sequence.                    *)
LEMMA StepIn ==
  ASSUME CallInv, current \in Special
  PROVE  step \in 1 .. Lens[current] /\ Lens[current] \in 1 .. 6 /\ current # "none"
<1>1. current # "none" /\ Len(Steps[current]) = Lens[current]
         /\ Lens[current] \in 1 .. 6
  BY SpecialLengths, StepsLength, NoneIsNoSequence
<1> QED BY <1>1 DEF CallInv, TypeOK

(* The operations that read only.                                          *)
LEMMA Reads ==
  ASSUME CallInv, CallOp, TypeOK',
     Op \in {"FetchTmp", "FetchPad", "ReadStack", "ReadPC", "VectorLo"}
  PROVE  /\ Advance(0) /\ SP' = SP /\ flagI' = flagI /\ ram' = ram
         /\ Op \in {"FetchTmp", "FetchPad"} => PC' = Inc(PC)
         /\ Op \in {"ReadStack", "ReadPC", "VectorLo"} => PC' = PC
<1>1. current # "none" /\ Tick /\ ram' = ram
  BY OpKeeps DEF CallOp, Pushes
<1>2. CASE Op = "FetchTmp"
  BY <1>1, <1>2, OpActs DEF FetchTmp
<1>3. CASE Op = "FetchPad"
  BY <1>1, <1>3, OpActs DEF FetchPad
<1>4. CASE Op = "ReadStack"
  BY <1>1, <1>4, OpActs DEF ReadStack
<1>5. CASE Op = "ReadPC"
  BY <1>1, <1>5, OpActs DEF ReadPC
<1>6. CASE Op = "VectorLo"
  BY <1>1, <1>6, OpActs DEF VectorLo
<1> QED BY <1>1, <1>2, <1>3, <1>4, <1>5, <1>6

(* The operations that load PC.                                            *)
LEMMA Jumps ==
  ASSUME CallInv, CallOp, TypeOK', Op \in {"FetchPCH", "VectorHi"}
  PROVE  Advance(0) /\ SP' = SP /\ flagI' = flagI /\ ram' = ram
<1>1. current # "none" /\ Tick /\ ram' = ram
  BY OpKeeps DEF CallOp, Pushes
<1>2. CASE Op = "FetchPCH"
  BY <1>1, <1>2, OpActs DEF FetchPCH
<1>3. CASE Op = "VectorHi"
  BY <1>1, <1>3, OpActs DEF VectorHi
<1> QED BY <1>1, <1>2, <1>3

(* What the frames are made of.                                            *)
LEMMA FrameParts ==
  ASSUME CallInv, current \in Pushers
  PROVE  /\ origin.at \in Word /\ AddIndex(origin.at, 2) \in Word
               /\ AddIndex(origin.at, 3) \in Word
         /\ <<0, 0>> \in Word /\ 0 \in Byte
         /\ AddIndex(origin.at, 2) = Inc(Inc(origin.at))
         /\ AddIndex(origin.at, 3) = Inc(Inc(Inc(origin.at)))
         /\ <<PC[1], PC[2]>> = PC
         /\ InHandler(frames) => flagI = TRUE
         /\ FrameKinds = {"call", "A", "P", "IRQ", "NMI", "BRK"}
<1>1. origin.at \in Word
  BY DEF CallInv, StackInv, OriginInv, Pushers
<1>2. AddIndex(origin.at, 2) = Inc(Inc(origin.at))
         /\ AddIndex(origin.at, 3) = Inc(Inc(Inc(origin.at)))
  BY <1>1, AddTwoThree
<1>3. AddIndex(origin.at, 2) \in Word /\ AddIndex(origin.at, 3) \in Word
  BY <1>1, <1>2, IncClosed
<1>4. <<PC[1], PC[2]>> = PC
  BY DEF CallInv, TypeOK, Word
<1>5. InHandler(frames) => flagI = TRUE
  BY DEF CallInv, StackInv, FlagInv, Pushers
<1>6. <<0, 0>> \in Word /\ 0 \in Byte
  BY SmallBytes, WordOfBytes
<1> QED BY <1>1, <1>2, <1>3, <1>4, <1>5, <1>6 DEF FrameKinds, InterruptKinds

(* JSR pushes the address of its own last byte.                            *)
LEMMA JSRStep == ASSUME CallInv, CallOp, TypeOK', current = "JSR" PROVE CallInv'
<1>1. /\ Lens[current] = 5 /\ step \in 1 .. 5 /\ current \in Special
            /\ current \in Pushers
      /\ Grow(current) = 2 /\ TypeOK /\ PullsAt(current, step) = 0
  BY StepIn DEF Lens, Special, Pushers, Grow, PullsAt, CallInv
<1>2. CASE step \in {1, 2}
  <2>1. (step = 1 => Op = "FetchTmp") /\ (step = 2 => Op = "ReadStack")
    BY Table DEF Op
  <2>2. PushesAt(current, step) = 0 /\ PushesAt(current, step + 1) = 0
    BY <1>2 DEF PushesAt, Interrupts
  <2>3. Advance(0) /\ Op \notin Pushes
    BY <1>2, <2>1, Reads DEF Pushes
  <2>4. current' = current /\ step' = step + 1
    BY <1>1, <1>2, <2>3, Forward
  <2>5. SP' = SP /\ flagI' = flagI /\ (step = 1 => PC' = Inc(PC))
           /\ (step # 1 => PC' = PC)
    BY <1>2, <2>1, Reads
  <2> QED BY <1>1, <2>2, <2>3, <2>4, <2>5, PushWaits
<1>3. CASE step \in {3, 4}
  <2>1. (step = 3 => Op = "PushPCH") /\ (step = 4 => Op = "PushPCL")
    BY Table DEF Op
  <2>2. PushesAt(current, step) = step - 3
           /\ PushesAt(current, step + 1) = (step - 3) + 1
    BY <1>3 DEF PushesAt, Interrupts
  <2>3. step - 3 \in 0 .. 2 /\ Op \in Pushes /\ step - 3 < Grow(current)
           /\ step < Lens[current]
        /\ (step - 3 = 0 => Op = "PushPCH") /\ (step - 3 = 1 => Op = "PushPCL")
              /\ step - 3 # 2
        /\ step > 1
    BY <1>1, <1>3, <2>1 DEF Pushes
  <2> QED BY <1>1, <2>2, <2>3, PushesOn
<1>4. CASE step = 5
  <2>1. Op = "FetchPCH"
    BY <1>4, Table DEF Op
  <2>2. Advance(0) /\ SP' = SP /\ flagI' = flagI /\ ram' = ram
    BY <2>1, Jumps
  <2>3. current' = "none"
    BY <1>1, <1>4, <2>2, Forward
  <2>4. PushesAt(current, step) = 2
    BY <1>4 DEF PushesAt, Interrupts
  <2>5. ram[Slot(Used(frames))] = PC[1] /\ ram[Slot(Used(frames) + 1)] = PC[2]
        /\ PC = Inc(Inc(origin.at))
    BY <1>4, <2>4 DEF CallInv, StackInv, PushInv
  <2>6. SP = Slot(Used(frames) + 2)
    <3>1. SP = Slot((Used(frames) + 2) - 0) /\ Used(frames) \in Nat
      BY <2>4, <1>1, Numbers DEF CallInv, StackInv, SPInv
    <3> QED BY <3>1
  <2>7. frames' = Frames("call", AddIndex(origin.at, 3), 0)
    BY <2>3 DEF CallOp, FramesAfter, Interrupts
  <2>8. Size["call"] = 2 /\ "call" \notin InterruptKinds /\ "call" \in FrameKinds
    BY DEF Size, InterruptKinds, FrameKinds
  <2>9. FramesOK(frames, ram')
    BY <2>2 DEF CallInv, StackInv
  <2>10. Inc(<<ram'[Slot(Used(frames))],
            ram'[Slot(Used(frames) + 1)]>>) = AddIndex(origin.at, 3)
    BY <2>2, <2>5, <1>1, FrameParts
  <2> QED BY <1>1, <2>2, <2>3, <2>6, <2>7, <2>8, <2>9, <2>10, FrameParts, FrameLeft
<1> QED BY <1>1, <1>2, <1>3, <1>4

(* PHA and PHP push one byte.                                              *)
LEMMA PHAStep == ASSUME CallInv, CallOp, TypeOK', current \in {"PHA", "PHP"}
                           PROVE CallInv'
<1>1. /\ Lens[current] = 2 /\ step \in 1 .. 2 /\ current \in Special
            /\ current \in Pushers
      /\ Grow(current) = 1 /\ TypeOK /\ PullsAt(current, step) = 0
      /\ PushesAt(current, step) = 0 /\ PushesAt(current, step + 1) = 0
  BY StepIn DEF Lens, Special, Pushers, Grow, PullsAt, PushesAt, Interrupts, CallInv
<1>2. CASE step = 1
  <2>1. Op = "ReadPC"
    BY <1>2, Table DEF Op
  <2>2. Advance(0) /\ Op \notin Pushes /\ SP' = SP /\ flagI' = flagI /\ PC' = PC
    BY <2>1, Reads DEF Pushes
  <2>3. current' = current /\ step' = step + 1
    BY <1>1, <1>2, <2>2, Forward
  <2>4. current \notin {"JSR", "BRK"}
    OBVIOUS
  <2> QED BY <1>1, <2>2, <2>3, <2>4, PushWaits
<1>3. CASE step = 2
  <2>1. Op = IF current = "PHA" THEN "PushA" ELSE "PushP"
    BY <1>3, Table DEF Op
  <2>2. Op \in Pushes /\ Op # "PushPSetI" /\ (current = "PHP" => Op = "PushP")
           /\ 0 < Grow(current)
    BY <2>1, <1>1 DEF Pushes
  <2>3. SP' = Slot(Used(frames) + (0 + 1)) /\ ram'[Slot(Used(frames) + 0)] = bus'.val
        /\ FramesOK(frames, ram') /\ Advance(0) /\ flagI' = flagI
    BY <1>1, <2>2, PushStep
  <2>4. current = "PHP" => (Bit(bus'.val) = flagI)
    BY <1>1, <2>2, PushStep
  <2>5. current' = "none" /\ bus'.val \in Byte
    BY <1>1, <1>3, <2>3, Forward, OpKeeps
  <2>6. flagI = origin.flag
    BY <1>1 DEF CallInv, StackInv, PushInv, Pushers
  <2>7. Used(frames) + 0 = Used(frames)
    BY Numbers
  <2>8. ram'[Slot(Used(frames))] = bus'.val
    BY <2>3, <2>7
  <2>12. 0 + 1 = 1 /\ SP' = Slot(Used(frames) + 1)
    BY <2>3
  <2>13. FramesOK(frames, ram') /\ (InHandler(frames) => flagI' = TRUE)
    BY <1>1, <2>3, FrameParts
  <2>9. current = "PHP" => (Bit(ram'[Slot(Used(frames))]) = origin.flag)
    BY <2>4, <2>6, <2>8, Zenon
  <2>10. CASE current = "PHA"
    <3>1. frames' = Frames("A", <<0, 0>>, bus'.val)
      BY <2>5, <2>10 DEF CallOp, FramesAfter, Interrupts
    <3>2. Size["A"] = 1 /\ "A" \notin InterruptKinds /\ "A" \in FrameKinds
      BY DEF Size, InterruptKinds, FrameKinds
    <3> QED BY <1>1, <2>10, <2>5, <2>8, <2>12, <2>13, <3>1, <3>2, FrameParts, FrameLeft
  <2>11. CASE current = "PHP"
    <3>1. frames' = Frames("P", <<0, 0>>, 0)
      BY <2>5, <2>11 DEF CallOp, FramesAfter, Interrupts
    <3>2. Size["P"] = 1 /\ "P" \notin InterruptKinds /\ "P" \in FrameKinds
      BY DEF Size, InterruptKinds, FrameKinds
    <3> QED BY <1>1, <2>5, <2>9, <2>11, <2>12, <2>13, <3>1, <3>2, FrameParts, FrameLeft
  <2> QED BY <2>10, <2>11
<1> QED BY <1>1, <1>2, <1>3

(* BRK, IRQ and NMI push PC and P, and set I.                              *)
LEMMA InterruptStep == ASSUME CallInv, CallOp, TypeOK', current \in InterruptKinds
                                 PROVE CallInv'
<1> DEFINE first == IF current = "BRK" THEN 2 ELSE 1
<1>1. /\ Lens[current] = first + 4 /\ step \in 1 .. first + 4
      /\ current \in Special /\ current \in Pushers
      /\ Grow(current) = 3 /\ TypeOK /\ PullsAt(current, step) = 0
      /\ current # "JSR"
  BY StepIn DEF InterruptKinds, Lens, Special, Pushers, Grow, PullsAt, CallInv
<1>2. /\ first \in {1, 2}
      /\ step < first => Op = "FetchPad" /\ current = "BRK" /\ step = 1
      /\ step = first => Op = "PushPCH"
      /\ step = first + 1 => Op = "PushPCL"
      /\ step = first + 2 => Op = "PushPSetI"
      /\ step = first + 3 => Op = "VectorLo"
      /\ step = first + 4 => Op = "VectorHi"
      /\ current = "BRK" => first = 2
  BY <1>1, Table DEF Op, InterruptKinds
<1>3. /\ step < first => PushesAt(current, step) = 0 /\ PushesAt(current, step + 1) = 0
      /\ step \in first .. first + 2 =>
           PushesAt(current, step) = step - first
              /\ PushesAt(current, step + 1) = (step - first) + 1
      /\ step \in {first + 3, first + 4} => PushesAt(current, step) = 3
      /\ step = first + 3 => PushesAt(current, step + 1) = 3
  BY <1>1 DEF PushesAt, InterruptKinds, Interrupts
<1> HIDE DEF first
<1>4. CASE step < first \/ step = first + 3
  <2>1. Op \in {"FetchPad", "VectorLo"} /\ Op \notin Pushes /\ step < Lens[current]
    BY <1>1, <1>2, <1>4 DEF Pushes
  <2>2. Advance(0) /\ SP' = SP /\ flagI' = flagI
    BY <2>1, Reads
  <2>3. current' = current /\ step' = step + 1
    BY <1>1, <2>1, <2>2, Forward
  <2>4. PushesAt(current, step + 1) = PushesAt(current, step)
    BY <1>2, <1>3, <1>4
  <2>5. IF current \in {"JSR", "BRK"} /\ step = 1 THEN PC' = Inc(PC) ELSE PC' = PC
    BY <1>1, <1>2, <1>4, Reads
  <2> QED BY <1>1, <2>1, <2>2, <2>3, <2>4, <2>5, PushWaits
<1>5. CASE step \in first .. first + 2
  <2>1. step - first \in 0 .. 2 /\ Op \in Pushes /\ step - first < Grow(current)
           /\ step < Lens[current]
        /\ (step - first = 0 => Op = "PushPCH") /\ (step - first = 1 => Op = "PushPCL")
        /\ (step - first = 2 => Op = "PushPSetI")
        /\ (current \in {"JSR", "BRK"} => step > 1)
    BY <1>1, <1>2, <1>5 DEF Pushes
  <2> QED BY <1>1, <1>3, <1>5, <2>1, PushesOn
<1>6. CASE step = first + 4
  <2>1. Op = "VectorHi"
    BY <1>2, <1>6
  <2>2. Advance(0) /\ SP' = SP /\ flagI' = flagI /\ ram' = ram
    BY <2>1, Jumps
  <2>3. current' = "none"
    BY <1>1, <1>6, <2>2, Forward
  <2>4. PushesAt(current, step) = 3 /\ step # 1
    BY <1>2, <1>3, <1>6
  <2>5. /\ ram[Slot(Used(frames))] = PC[1] /\ ram[Slot(Used(frames) + 1)] = PC[2]
        /\ current = "BRK" => PC = Inc(Inc(origin.at))
        /\ current \in Interrupts /\ origin.clean => PC = origin.at
        /\ flagI = TRUE
    BY <1>1, <2>4 DEF CallInv, StackInv, PushInv, Pushers
  <2>6. Bit(ram[Slot(Used(frames) + 2)]) = origin.flag
    BY <1>1, <2>4 DEF CallInv, StackInv, PushInv, Pushers
  <2>7. SP = Slot(Used(frames) + 3)
    <3>1. SP = Slot((Used(frames) + 3) - 0) /\ Used(frames) \in Nat
      BY <2>4, <1>1, Numbers DEF CallInv, StackInv, SPInv
    <3> QED BY <3>1
  <2>8. Size[current] = 3 /\ current \in FrameKinds /\ current # "call"
           /\ current # "A" /\ current # "P"
    BY DEF Size, InterruptKinds, FrameKinds
  <2>9. FramesOK(frames, ram')
    BY <2>2 DEF CallInv, StackInv
  <2>10. InHandler(frames) => current # "IRQ"
    BY <1>1, StepIn DEF CallInv, StackInv, OriginInv
  <2>11. <<PC[1], PC[2]>> = PC /\ AddIndex(origin.at, 2) = Inc(Inc(origin.at))
            /\ origin.at \in Word
         /\ AddIndex(origin.at, 2) \in Word /\ 0 \in Byte
    BY <1>1, FrameParts
  <2>12. Bit(ram'[Slot(Used(frames) + 2)]) = origin.flag
    BY <2>2, <2>6
  <2>13. CASE current = "BRK"
    <3>1. frames' = Frames("BRK", AddIndex(origin.at, 2), 0)
      BY <2>3, <2>13 DEF CallOp, FramesAfter, Interrupts
    <3>2. <<ram'[Slot(Used(frames))],
             ram'[Slot(Used(frames) + 1)]>> = AddIndex(origin.at, 2)
      BY <2>2, <2>5, <2>11, <2>13
    <3> QED BY <1>1, <2>2, <2>3, <2>5, <2>7, <2>8, <2>9, <2>10, <2>11, <2>12, <2>13,
           <3>1, <3>2, FrameLeft
  <2>14. CASE current # "BRK"
    <3>1. current \in Interrupts
      BY <2>14 DEF InterruptKinds, Interrupts
    <3>2. frames' = Frames(current, origin.at, 0)
      BY <2>3, <2>14, <3>1 DEF CallOp, FramesAfter, Interrupts
    <3>3. origin.clean
             => <<ram'[Slot(Used(frames))], ram'[Slot(Used(frames) + 1)]>> = origin.at
      BY <2>2, <2>5, <2>11, <3>1
    <3>4. current # "RTI"
      BY DEF InterruptKinds
    <3> QED BY <1>1, <2>2, <2>3, <2>5, <2>7, <2>8, <2>9, <2>10, <2>11, <2>12, <3>2,
           <3>3, <3>4, FrameLeft
  <2> QED BY <2>13, <2>14
<1>7. step < first \/ step \in first .. first + 2 \/ step = first + 3 \/ step = first + 4
  BY <1>1, <1>2
<1> QED BY <1>4, <1>5, <1>6, <1>7

(* The frame that a returning sequence takes off.                          *)
LEMMA TopFrame ==
  ASSUME CallInv, current \in Poppers
  PROVE  /\ frames # << >> /\ FrameOK(Head(frames), ram)
               /\ Head(frames).kind \in Pops(current)
         /\ Used(frames) = Head(frames).used
         /\ InHandler(Tail(frames)) => Head(frames).flag = TRUE
         /\ FramesOK(Tail(frames), ram) /\ Used(Tail(frames)) = Below(Head(frames))
         /\ OpenWithin(Tail(frames), Head(frames).open)
               /\ OpenWithin(Tail(frames), open)
         /\ Head(frames).open \in 0 .. open
<1>1. frames # << >> /\ Head(frames).kind \in Pops(current)
  BY NoneIsNoSequence DEF CallInv, StackInv, OriginInv, Poppers
<1>2. FramesOK(frames, ram)
  BY DEF CallInv, StackInv
<1>3. /\ Head(frames) = frames[1] /\ 1 \in 1 .. Len(frames)
            /\ Used(frames) = Head(frames).used
  BY <1>1, <1>2, UsedFacts
<1>4. FrameOK(Head(frames), ram)
  BY <1>2, <1>3 DEF FramesOK
<1>5. FramesOK(Tail(frames), ram) /\ Used(Tail(frames)) = Below(Head(frames))
  BY <1>1, <1>2, <1>3, PopKeeps
<1>6. InHandler(Tail(frames)) => Head(frames).flag = TRUE
  <2> SUFFICES ASSUME InHandler(Tail(frames)) PROVE Head(frames).flag = TRUE
    OBVIOUS
  <2> DEFINE t == Tail(frames)
  <2>1. frames \in Seq(FrameSet) /\ Len(frames) \in Nat
    BY <1>2 DEF FramesOK
  <2>2. Len(t) = Len(frames) - 1 /\ \A i \in 1 .. Len(t) : t[i] = frames[i + 1]
    BY <2>1, <1>1
  <2>3. PICK i \in 1 .. Len(t) : t[i].kind \in InterruptKinds
    BY DEF InHandler
  <2> HIDE DEF t
  <2>4. i + 1 \in 1 .. Len(frames) /\ 1 < i + 1
    BY <2>1, <2>2
  <2>5. Above(frames[1], frames[i + 1])
    BY <1>2, <1>3, <2>4 DEF FramesOK
  <2> QED BY <2>2, <2>3, <2>5, <1>3 DEF Above
<1>7. OpenWithin(Tail(frames), Head(frames).open)
  BY <1>1, <1>2, <1>3, PopKeeps
<1>8. Head(frames).open \in 0 .. open
  <2>1. frames[1].open \in 0 .. MaxNested
    BY <1>3, <1>4 DEF FrameOK, FrameSet
  <2>2. frames[1].open <= open
    BY <1>3 DEF CallInv, StackInv, CountInv, OpenWithin
  <2> QED BY <1>3, <2>1, <2>2, Numbers
<1>9. OpenWithin(Tail(frames), open)
  <2> SUFFICES ASSUME NEW i \in 1 .. Len(Tail(frames))
         PROVE Tail(frames)[i].open <= open
    BY DEF OpenWithin
  <2>1. Tail(frames)[i].open <= Head(frames).open
           /\ Tail(frames)[i].open \in 0 .. MaxNested
    BY <1>5, <1>7 DEF OpenWithin, FramesOK, FrameOK, FrameSet
  <2> QED BY <2>1, <1>8, Numbers
<1> QED BY <1>1, <1>3, <1>4, <1>5, <1>6, <1>7, <1>8, <1>9

LEMMA TailHandler ==
  ASSUME CallInv, current \in Poppers, InHandler(Tail(frames))
  PROVE  InHandler(frames)
<1> DEFINE t == Tail(frames)
<1>1. frames \in Seq(FrameSet) /\ Len(frames) \in Nat /\ frames # << >>
  <2>1. FramesOK(frames, ram)
    BY DEF CallInv, StackInv
  <2>2. frames \in Seq(FrameSet)
    BY <2>1 DEF FramesOK
  <2> QED BY <2>2, TopFrame
<1>2. Len(t) = Len(frames) - 1 /\ \A i \in 1 .. Len(t) : t[i] = frames[i + 1]
  BY <1>1
<1>3. PICK i \in 1 .. Len(t) : t[i].kind \in InterruptKinds
  BY DEF InHandler
<1> HIDE DEF t
<1>4. i + 1 \in 1 .. Len(frames)
  BY <1>1, <1>2
<1> QED BY <1>2, <1>3, <1>4 DEF InHandler

(* A sequence that ends takes the newest frame off.                        *)
LEMMA FrameReturned ==
  ASSUME CallInv, CallOp, TypeOK', current \in Poppers, current' = "none", ram' = ram,
         SP' = Slot(Below(Head(frames))), InHandler(Tail(frames)) => flagI' = TRUE
  PROVE  CallInv' /\ SP' = Head(frames).sp
<1>1. frames' = Tail(frames)
  BY DEF CallOp, FramesAfter, Poppers, Interrupts
<1>2. FramesOK(frames', ram') /\ Used(frames') = Below(Head(frames))
  BY <1>1, TopFrame
<1>3. Used(frames') <= Used(frames) + Grow(current)
  <2>1. Grow(current) = 0
    BY DEF Grow, Poppers
  <2>2. Head(frames) \in FrameSet /\ Used(frames) = Head(frames).used
    BY TopFrame DEF FrameOK
  <2> QED BY <1>2, <2>1, <2>2, FrameFacts
<1>4. SP' = Head(frames).sp
  BY TopFrame DEF FrameOK
<1>5. CASE current = "RTI"
  <2>1. open' = Head(frames).open
    BY <1>5 DEF CallOp
  <2>2. Head(frames).kind \in InterruptKinds
    BY <1>5, TopFrame DEF Pops
  <2>3. Used(frames') + 3 * (MaxNested - open') <= B
    BY <1>2, <2>1, <2>2, TopFrame DEF FrameOK
  <2> QED BY <1>1, <1>2, <1>4, <2>1, <2>3, TopFrame, Ends
<1>6. CASE current # "RTI"
  BY <1>1, <1>2, <1>3, <1>4, <1>6, TopFrame, EndOK
<1> QED BY <1>4, <1>5, <1>6

(* The two dummy reads with which every pull begins.                       *)
LEMMA PopWaits ==
  ASSUME CallInv, CallOp, TypeOK', current \in Poppers, step \in {1, 2}
  PROVE  CallInv'
<1>1. /\ Lens[current] >= 3 /\ Lens[current] \in Nat /\ current \in Special /\ TypeOK
      /\ PushesAt(current, step) = 0 /\ PushesAt(current, step + 1) = 0
      /\ PullsAt(current, step) = 0 /\ PullsAt(current, step + 1) = 0
  BY DEF Lens, Special, Poppers, PullsAt, PushesAt, Interrupts, CallInv
<1>2. Op \in {"ReadPC", "ReadStack"}
  BY Table DEF Op, Poppers
<1>3. Advance(0) /\ SP' = SP /\ flagI' = flagI /\ ram' = ram
  BY <1>2, Reads
<1>4. current' = current /\ step' = step + 1 /\ frames' = frames
  <2>1. current' = current /\ step' = step + 1
    BY <1>1, <1>3, Forward
  <2> QED BY <2>1, <1>1, StepIn DEF CallOp
<1>5. SPInv'
  BY <1>1, <1>3, <1>4 DEF CallInv, StackInv, SPInv
<1>6. FlagInv' /\ PushInv' /\ PullInv'
  BY <1>3, <1>4 DEF CallInv, StackInv, FlagInv, PushInv, PullInv, Poppers
<1>7. FramesOK(frames, ram')
  BY <1>3 DEF CallInv, StackInv
<1> QED BY <1>4, <1>5, <1>6, <1>7, GoesOn

(* PLA and PLP pull the byte their own push left.                          *)
LEMMA PullOneStep ==
  ASSUME CallInv, CallOp, TypeOK', current \in {"PLA", "PLP"}
  PROVE  /\ CallInv'
         /\ current' = "none" =>
              /\ SP' = Head(frames).sp
              /\ current = "PLA" => bus'.val = Head(frames).val
              /\ current = "PLP" => flagI' = Head(frames).flag
<1>1. /\ Lens[current] = 3 /\ step \in 1 .. 3 /\ current \in Special
            /\ current \in Poppers /\ TypeOK
      /\ PushesAt(current, step) = 0 /\ PullsAt(current, step) = 0
  BY StepIn DEF Lens, Special, Poppers, PullsAt, PushesAt, Interrupts, CallInv
<1>2. CASE step \in {1, 2}
  <2>1. Op \in {"ReadPC", "ReadStack"}
    BY <1>2, Table DEF Op
  <2>2. Advance(0)
    BY <2>1, Reads
  <2>3. current' # "none"
    BY <1>1, <1>2, <2>2, Forward DEF Special
  <2> QED BY <1>1, <1>2, <2>3, PopWaits
<1>3. CASE step = 3
  <2>1. Op = IF current = "PLA" THEN "PullA" ELSE "PullP"
    BY <1>3, Table DEF Op
  <2>2. /\ FrameOK(Head(frames), ram) /\ Head(frames).kind \in Pops(current)
        /\ Used(frames) = Head(frames).used
        /\ InHandler(Tail(frames)) => Head(frames).flag = TRUE
    BY <1>1, TopFrame
  <2>3. Head(frames).kind = IF current = "PLA" THEN "A" ELSE "P"
    BY <2>2 DEF Pops
  <2>4. /\ Below(Head(frames)) = Used(frames) - (0 + 1) /\ 0 < Used(frames)
    <3>1. Size[Head(frames).kind] = 1 /\ Below(Head(frames)) \in Nat
             /\ Head(frames).used \in Nat
      BY <2>2, <2>3, FrameFacts DEF FrameOK
    <3> QED BY <2>2, <3>1 DEF Below
  <2>5. /\ SP' = Slot(Used(frames) - (0 + 1))
              /\ bus'.val = ram[Slot(Used(frames) - (0 + 1))]
        /\ Advance(0) /\ (Op # "PullP" => flagI' = flagI) /\ Op \in Pulls
    <3>1. Op \in Pulls
      BY <2>1 DEF Pulls
    <3> QED BY <1>1, <2>4, <3>1, PullStep
  <2>6. Op = "PullP" => (flagI' = Bit(bus'.val))
    BY <1>1, <2>4, <2>5, PullStep
  <2>7. current' = "none" /\ ram' = ram
    <3>1. Op \notin Pushes
      BY <2>1 DEF Pushes
    <3> QED BY <1>1, <1>3, <2>5, <3>1, Forward, OpKeeps
  <2>8. SP' = Slot(Below(Head(frames))) /\ bus'.val = ram[Slot(Below(Head(frames)))]
    BY <2>4, <2>5
  <2>9. current = "PLA" => bus'.val = Head(frames).val
    BY <2>2, <2>3, <2>8 DEF FrameOK, Holds
  <2>10. current = "PLP" => (flagI' = Head(frames).flag)
    <3>1. current = "PLP" => (Bit(ram[Slot(Below(Head(frames)))]) = Head(frames).flag)
      BY <2>2, <2>3 DEF FrameOK, Holds
    <3> QED BY <3>1, <2>1, <2>6, <2>8
  <2>11. InHandler(Tail(frames)) => flagI' = TRUE
    <3>1. CASE current = "PLP"
      BY <3>1, <2>2, <2>10
    <3>2. CASE current = "PLA"
      <4>1. InHandler(Tail(frames)) => InHandler(frames)
        BY <1>1, TailHandler
      <4> QED BY <3>2, <4>1, <2>1, <2>5 DEF CallInv, StackInv, FlagInv
    <3> QED BY <3>1, <3>2
  <2> QED BY <1>1, <2>7, <2>8, <2>9, <2>10, <2>11, FrameReturned
<1> QED BY <1>1, <1>2, <1>3

(* RTS reads the opcode behind its own JSR.                                *)
LEMMA RTSStep ==
  ASSUME CallInv, CallOp, TypeOK', current = "RTS"
  PROVE  /\ CallInv'
         /\ current' = "none" => SP' = Head(frames).sp
               /\ bus'.addr = Head(frames).resume
<1>1. /\ Lens[current] = 5 /\ step \in 1 .. 5 /\ current \in Special
            /\ current \in Poppers /\ TypeOK
      /\ current # "none"
      /\ PushesAt(current, step) = 0 /\ PushesAt(current, step + 1) = 0
      /\ step \in {3, 4, 5} => PullsAt(current, step) = step - 3
      /\ step \in {3, 4} => PullsAt(current, step + 1) = (step - 3) + 1
  BY StepIn DEF Lens, Special, Poppers, PullsAt, PushesAt, Interrupts, CallInv
<1>2. /\ Head(frames).kind = "call" /\ Head(frames) \in FrameSet
            /\ FrameOK(Head(frames), ram)
      /\ InHandler(frames) => flagI = TRUE
  BY <1>1, TopFrame DEF Pops, FrameOK, CallInv, StackInv, FlagInv
<1>3. /\ Used(frames) \in Nat /\ Used(frames) >= 2
            /\ Below(Head(frames)) = Used(frames) - 2
      /\ Below(Head(frames)) + 1 = Used(frames) - 1
  <2>1. Size[Head(frames).kind] = 2 /\ Below(Head(frames)) \in Nat
           /\ Used(frames) = Head(frames).used
        /\ Head(frames).used \in Nat
    BY <1>1, <1>2, TopFrame, FrameFacts DEF FrameOK
  <2> QED BY <2>1 DEF Below
<1>4. Inc(<<ram[Slot(Used(frames) - 2)],
         ram[Slot(Used(frames) - 1)]>>) = Head(frames).resume
  BY <1>2, <1>3 DEF FrameOK, Holds
<1>5. CASE step \in {1, 2}
  <2>1. Op \in {"ReadPC", "ReadStack"}
    BY <1>5, Table DEF Op
  <2>2. Advance(0)
    BY <2>1, Reads
  <2>3. current' # "none"
    BY <1>1, <1>5, <2>2, Forward
  <2> QED BY <1>1, <1>5, <2>3, PopWaits
<1>6. CASE step \in {3, 4}
  <2>1. /\ step = 3 => Op = "PullTmp"
        /\ step = 4 => Op = "PullAddr"
    BY <1>6, Table DEF Op
  <2>2. Op \in Pulls /\ Op \notin Pushes /\ Op # "PullP"
    BY <1>6, <2>1 DEF Pulls, Pushes
  <2>3. step - 3 \in Nat /\ step - 3 < Used(frames) /\ PullsAt(current, step) = step - 3
    BY <1>1, <1>3, <1>6
  <2>4. /\ SP' = Slot(Used(frames) - ((step - 3) + 1))
        /\ bus'.val = ram[Slot(Used(frames) - ((step - 3) + 1))]
        /\ Advance(0) /\ flagI' = flagI
        /\ Op = "PullTmp" => tmp8' = bus'.val
        /\ Op = "PullAddr" => tmpAddr' = <<bus'.val, tmp8>>
    BY <1>1, <2>2, <2>3, PullStep
  <2>5. current' = current /\ step' = step + 1
    BY <1>1, <1>6, <2>4, Forward
  <2>6. ram' = ram /\ frames' = frames
    BY <1>1, <2>2, <2>5, OpKeeps DEF CallOp
  <2>7. SPInv'
    <3>1. (Used(frames) + 0) - ((step - 3) + 1) = Used(frames) - ((step - 3) + 1)
      BY <1>3, <2>3
    <3> QED BY <3>1, <1>1, <1>6, <2>4, <2>5, <2>6 DEF SPInv
  <2>8. FlagInv' /\ PushInv'
    BY <1>2, <2>4, <2>5, <2>6 DEF FlagInv, PushInv
  <2>9. PullInv'
    <3>1. CASE step = 3
      <4>1. step' = 4 /\ (step - 3) + 1 = 1 /\ tmp8' = bus'.val
        BY <3>1, <2>1, <2>4, <2>5
      <4> QED BY <4>1, <2>4, <2>5, <2>6 DEF PullInv
    <3>2. CASE step = 4
      <4>1. step' = 5 /\ (step - 3) + 1 = 2 /\ tmpAddr' = <<bus'.val, tmp8>>
        BY <3>2, <2>1, <2>4, <2>5
      <4>2. tmp8 = ram[Slot(Used(frames) - 1)]
        BY <3>2 DEF CallInv, StackInv, PullInv
      <4> QED BY <4>1, <4>2, <2>4, <2>5, <2>6 DEF PullInv
    <3> QED BY <3>1, <3>2, <1>6
  <2>10. FramesOK(frames, ram')
    BY <2>6 DEF CallInv, StackInv
  <2> QED BY <1>1, <2>5, <2>7, <2>8, <2>9, <2>10, GoesOn
<1>7. CASE step = 5
  <2>1. Op = "Prefetch" /\ Op \notin Pushes
    BY <1>7, Table DEF Op, Pushes
  <2>2. Advance(0) /\ SP' = SP /\ flagI' = flagI /\ bus'.addr = Inc(tmpAddr)
    BY <1>1, <2>1, OpActs DEF CallOp, Prefetch, Fetch
  <2>3. current' = "none" /\ ram' = ram
    BY <1>1, <1>7, <2>1, <2>2, Forward, OpKeeps
  <2>4. tmpAddr = <<ram[Slot(Used(frames) - 2)], ram[Slot(Used(frames) - 1)]>>
    BY <1>7 DEF CallInv, StackInv, PullInv
  <2>5. SP = Slot(Below(Head(frames)))
    <3>1. PullsAt(current, step) = 2 /\ (Used(frames) + 0) - 2 = Used(frames) - 2
      BY <1>1, <1>3, <1>7
    <3> QED BY <3>1, <1>1, <1>3 DEF CallInv, StackInv, SPInv
  <2>6. InHandler(Tail(frames)) => flagI' = TRUE
    <3> SUFFICES ASSUME InHandler(Tail(frames)) PROVE flagI = TRUE
      BY <2>2
    <3> QED BY <1>2, <1>1, TailHandler
  <2> QED BY <1>1, <1>4, <2>2, <2>3, <2>4, <2>5, <2>6, FrameReturned
<1> QED BY <1>1, <1>5, <1>6, <1>7

(* RTI restores I, and PC unless RTS had read ahead.                       *)
LEMMA RTIStep ==
  ASSUME CallInv, CallOp, TypeOK', current = "RTI"
  PROVE  /\ CallInv'
         /\ current' = "none" =>
              /\ SP' = Head(frames).sp /\ flagI' = Head(frames).flag
              /\ Head(frames).clean => PC' = Head(frames).resume
<1>1. /\ Lens[current] = 5 /\ step \in 1 .. 5 /\ current \in Special
            /\ current \in Poppers /\ TypeOK
      /\ current # "none"
      /\ PushesAt(current, step) = 0 /\ PushesAt(current, step + 1) = 0
      /\ step \in {3, 4, 5} => PullsAt(current, step) = step - 3
      /\ step \in {3, 4} => PullsAt(current, step + 1) = (step - 3) + 1
  BY StepIn DEF Lens, Special, Poppers, PullsAt, PushesAt, Interrupts, CallInv
<1>2. /\ Head(frames).kind \in InterruptKinds /\ Head(frames) \in FrameSet
      /\ FrameOK(Head(frames), ram)
      /\ InHandler(Tail(frames)) => Head(frames).flag = TRUE
  BY <1>1, TopFrame DEF Pops, FrameOK
<1>3. /\ Used(frames) \in Nat /\ Used(frames) >= 3
            /\ Below(Head(frames)) = Used(frames) - 3
      /\ Below(Head(frames)) + 1 = Used(frames) - 2
            /\ Below(Head(frames)) + 2 = Used(frames) - 1
  <2>1. Size[Head(frames).kind] = 3 /\ Below(Head(frames)) \in Nat
           /\ Used(frames) = Head(frames).used
        /\ Head(frames).used \in Nat
    BY <1>1, <1>2, TopFrame, FrameFacts DEF FrameOK
  <2> QED BY <2>1 DEF Below
<1>4. Bit(ram[Slot(Used(frames) - 1)]) = Head(frames).flag
  BY <1>2, <1>3 DEF FrameOK, Holds
<1>5. Head(frames).clean =>
        <<ram[Slot(Used(frames) - 3)],
           ram[Slot(Used(frames) - 2)]>> = Head(frames).resume
  BY <1>2, <1>3 DEF FrameOK, Holds
<1>6. CASE step \in {1, 2}
  <2>1. Op \in {"ReadPC", "ReadStack"}
    BY <1>6, Table DEF Op
  <2>2. Advance(0)
    BY <2>1, Reads
  <2>3. current' # "none"
    BY <1>1, <1>6, <2>2, Forward
  <2> QED BY <1>1, <1>6, <2>3, PopWaits
<1>7. CASE step \in {3, 4, 5}
  <2>1. /\ step = 3 => Op = "PullP"
        /\ step = 4 => Op = "PullTmp"
        /\ step = 5 => Op = "PullPCH"
    BY <1>7, Table DEF Op
  <2>2. Op \in Pulls /\ Op \notin Pushes
    BY <1>7, <2>1 DEF Pulls, Pushes
  <2>3. step - 3 \in Nat /\ step - 3 < Used(frames) /\ PullsAt(current, step) = step - 3
    BY <1>1, <1>3, <1>7
  <2>4. /\ SP' = Slot(Used(frames) - ((step - 3) + 1))
        /\ bus'.val = ram[Slot(Used(frames) - ((step - 3) + 1))]
        /\ Advance(0)
        /\ Op # "PullP" => flagI' = flagI
        /\ Op = "PullTmp" => tmp8' = bus'.val
        /\ Op = "PullPCH" => PC' = <<bus'.val, tmp8>>
    BY <1>1, <2>2, <2>3, PullStep
  <2>5. Op = "PullP" => (flagI' = Bit(bus'.val))
    BY <1>1, <2>2, <2>3, PullStep
  <2>6. ram' = ram
    BY <2>2, OpKeeps
  <2>7. flagI' = Head(frames).flag
    <3>1. CASE step = 3
      <4>1. bus'.val = ram[Slot(Used(frames) - 1)]
        <5>1. (step - 3) + 1 = 1
          BY <3>1
        <5> QED BY <5>1, <2>4
      <4> QED BY <4>1, <3>1, <2>1, <2>5, <1>4
    <3>2. CASE step \in {4, 5}
      <4>1. flagI = Head(frames).flag
        BY <3>2 DEF CallInv, StackInv, PullInv
      <4>2. flagI' = flagI
        BY <3>2, <2>1, <2>4
      <4> QED BY <4>1, <4>2
    <3> QED BY <3>1, <3>2, <1>7
  <2>8. CASE step \in {3, 4}
    <3>1. current' = current /\ step' = step + 1
      BY <1>1, <2>8, <2>4, Forward
    <3>2. frames' = frames
      BY <1>1, <3>1 DEF CallOp
    <3>3. SPInv'
      <4>1. (Used(frames) + 0) - ((step - 3) + 1) = Used(frames) - ((step - 3) + 1)
        BY <1>3, <2>3
      <4> QED BY <4>1, <1>1, <2>8, <2>4, <3>1, <3>2 DEF SPInv
    <3>4. PushInv'
      BY <3>1 DEF PushInv
    <3>5. FlagInv'
      <4>1. step' > 3
        BY <2>8, <3>1
      <4> QED BY <4>1, <3>1, <3>2, <2>7, <1>2 DEF FlagInv
    <3>6. PullInv'
      <4>1. CASE step = 3
        <5>1. step' = 4
          BY <4>1, <3>1
        <5> QED BY <5>1, <2>7, <3>1, <3>2 DEF PullInv
      <4>2. CASE step = 4
        <5>1. step' = 5 /\ (step - 3) + 1 = 2 /\ tmp8' = bus'.val
          BY <4>2, <2>1, <2>4, <3>1
        <5>2. tmp8' = ram[Slot(Used(frames) - 2)]
          BY <5>1, <2>4
        <5> QED BY <5>1, <5>2, <2>6, <2>7, <3>1, <3>2 DEF PullInv
      <4> QED BY <4>1, <4>2, <2>8
    <3>7. FramesOK(frames, ram')
      BY <2>6 DEF CallInv, StackInv
    <3> QED BY <1>1, <3>1, <3>3, <3>4, <3>5, <3>6, <3>7, GoesOn
  <2>9. CASE step = 5
    <3>1. current' = "none"
      BY <1>1, <2>9, <2>4, Forward
    <3>2. (step - 3) + 1 = 3
      BY <2>9
    <3>3. SP' = Slot(Below(Head(frames))) /\ PC' = <<ram[Slot(Used(frames) - 3)], tmp8>>
      BY <2>9, <2>1, <2>4, <3>2, <1>3
    <3>4. tmp8 = ram[Slot(Used(frames) - 2)]
      BY <2>9 DEF CallInv, StackInv, PullInv
    <3>5. Head(frames).clean => PC' = Head(frames).resume
      BY <3>3, <3>4, <1>5
    <3> QED BY <1>1, <1>2, <2>6, <2>7, <3>1, <3>3, <3>5, FrameReturned
  <2> QED BY <2>8, <2>9, <1>7
<1> QED BY <1>1, <1>6, <1>7

(* An operation keeps the invariant.                                       *)
LEMMA CallStep == ASSUME CallInv, CallOp PROVE CallInv'
<1>1. TypeOK'
  BY TickOK DEF CallOp, CallInv
<1>2. CASE current \notin Special
  BY <1>1, <1>2, PlainStep
<1>3. CASE current \in Special
  BY <1>1, <1>3, JSRStep, PHAStep, InterruptStep, PullOneStep, RTSStep, RTIStep
     DEF Special, InterruptKinds
<1> QED BY <1>2, <1>3

(* An opcode fetch keeps the invariant.                                    *)
LEMMA BeginStep == ASSUME CallInv, CallBegin PROVE CallInv'
<1>1. TypeOK'
  BY TickOK DEF CallBegin, CallInv
<1>2. \/ \E o \in Opcodes, i \in BusBytes, c \in BOOLEAN : BeginInstruction(o, i, c)
      \/ \E v \in BusBytes : BeginInterrupt(v)
  BY DEF CallBegin, Tick
<1> QED BY <1>1, <1>2, BeginInstructionStep, BeginInterruptStep

(* The invariant holds at every request, opcode fetch and operation.       *)
LEMMA CallsInvariant == CSpec => []CallInv
<1>1. CInit => CallInv
  <2> SUFFICES ASSUME CInit PROVE CallInv
    OBVIOUS
  <2>1. TypeOK
    BY InitOK DEF CInit
  <2>2. ram \in [Byte -> Byte]
    BY SmallBytes DEF CInit
  <2>3. frames = << >> /\ Len(frames) = 0 /\ Used(frames) = 0 /\ current = "none"
        /\ prefetched = "none" /\ open = 0 /\ SP = B - 3
        /\ pendingIRQ = FALSE /\ pendingNMI = FALSE
    BY DEF CInit, Init, Used
  <2>4. FramesOK(frames, ram)
    <3>1. << >> \in Seq(FrameSet)
      OBVIOUS
    <3> QED BY <2>3, <3>1 DEF FramesOK
  <2>5. CountInv
    BY <2>3, MaxNestedAssumption DEF CountInv, OpenWithin
  <2>6. PushesAt(current, step) = 0 /\ PullsAt(current, step) = 0 /\ Grow(current) = 0
    BY <2>3 DEF PushesAt, PullsAt, Grow, Interrupts
  <2>7. SPInv
    BY <2>3, <2>6, SlotFacts DEF SPInv
  <2>8. RoomInv
    <3> HIDE DEF B
    <3> QED BY <2>3, <2>6, SlotFacts, MaxNestedAssumption DEF RoomInv
  <2>9. FlagInv
    BY <2>3 DEF FlagInv, InHandler
  <2>10. PrefInv
    BY <2>3, NoneIsNoSequence DEF PrefInv, Instructions
  <2>11. OriginInv /\ PushInv /\ PullInv
    BY <2>3 DEF OriginInv, PushInv, PullInv
  <2> QED BY <2>1, <2>2, <2>4, <2>5, <2>7, <2>8, <2>9, <2>10, <2>11 DEF CallInv,
         StackInv
<1>2. CallInv /\ [CNext]_cvars => CallInv'
  <2> SUFFICES ASSUME CallInv, [CNext]_cvars PROVE CallInv'
    OBVIOUS
  <2>1. CASE CallBegin
    BY <2>1, BeginStep
  <2>2. CASE CallOp
    BY <2>2, CallStep
  <2>3. CASE CallRequest
    BY <2>3, RequestStep
  <2>4. CASE UNCHANGED cvars
    <3>1. UNCHANGED <<ram, frames, origin, open, PC, SP, flagI, index, cond, current,
             step,
                      tmp8, tmpAddr, tmpBase, prefetched, pendingIRQ, pendingNMI,
                      haltOnBRK, halted, failed, bus>>
      BY <2>4 DEF cvars, vars, choices, control, temps, pending, modes
    <3>2. TypeOK' /\ ram' \in [Byte -> Byte] /\ FramesOK(frames, ram)'
      BY <3>1 DEF CallInv, StackInv, TypeOK
    <3>3. CountInv' /\ SPInv' /\ RoomInv' /\ FlagInv'
      BY <3>1 DEF CallInv, StackInv, CountInv, SPInv, RoomInv, FlagInv
    <3>4. PrefInv'
      BY <3>1 DEF CallInv, StackInv, PrefInv, Structured
    <3>5. OriginInv' /\ PushInv' /\ PullInv'
      BY <3>1 DEF CallInv, StackInv, OriginInv, PushInv, PullInv
    <3> QED BY <3>2, <3>3, <3>4, <3>5 DEF CallInv, StackInv
  <2> QED BY <2>1, <2>2, <2>3, <2>4 DEF CNext
<1> QED BY <1>1, <1>2, PTL DEF CSpec

(* No maskable interrupt is taken while a handler runs, however deep the   *)
(* calls, pushes and non-maskable interrupts nest (cpu6502.go:276).        *)
THEOREM IRQStaysMasked == CSpec => []HandlersMaskIRQ
<1>1. CallInv => HandlersMaskIRQ
  <2> SUFFICES ASSUME CallInv, NEW i \in 1 .. Len(frames), NEW j \in 1 .. Len(frames),
                      i < j, frames[i].kind = "IRQ"
               PROVE  frames[j].kind \notin InterruptKinds
    BY DEF HandlersMaskIRQ
  <2>1. FramesOK(frames, ram)
    BY DEF CallInv, StackInv
  <2>2. Above(frames[i], frames[j])
    BY <2>1 DEF FramesOK
  <2> QED BY <2>2 DEF Above
<1> QED BY <1>1, CallsInvariant, PTL

(* A return resumes behind its own call, and a pull yields what its own    *)
(* push saved, with SP where that call or push found it, whatever          *)
(* interrupts were taken and returned from in between                      *)
(* (lang.go:989-1014,1052-1132).                                           *)
THEOREM ReturnsFindTheirCalls == CSpec => ReturnsMatchCalls
<1>1. ASSUME CallInv, CallOp, current' = "none"
      PROVE  /\ current = "RTS" => bus'.addr = Head(frames).resume
                   /\ SP' = Head(frames).sp
             /\ current = "PLA" => bus'.val = Head(frames).val /\ SP' = Head(frames).sp
             /\ current = "PLP" => flagI' = Head(frames).flag /\ SP' = Head(frames).sp
  <2>1. TypeOK'
    BY <1>1, TickOK DEF CallOp, CallInv
  <2> QED BY <1>1, <2>1, PullOneStep, RTSStep
<1>2. CallInv /\ [CNext]_cvars =>
        [ /\ Completes("RTS") => bus'.addr = Head(frames).resume
           /\ SP' = Head(frames).sp
          /\ Completes("PLA") => bus'.val = Head(frames).val /\ SP' = Head(frames).sp
          /\ Completes("PLP") => flagI' = Head(frames).flag
                /\ SP' = Head(frames).sp ]_cvars
  BY <1>1 DEF Completes
<1> QED BY <1>2, CallsInvariant, PTL DEF CSpec, ReturnsMatchCalls

(* RTI restores the I flag and SP that the interrupt or BRK found, and     *)
(* resumes where it stopped the program, unless RTS had read ahead         *)
(* (lang.go:759-824,1084-1111).                                            *)
THEOREM InterruptsResume == CSpec => InterruptsReturn
<1>1. ASSUME CallInv, CallOp, current' = "none", current = "RTI"
      PROVE  /\ flagI' = Head(frames).flag /\ SP' = Head(frames).sp
             /\ Head(frames).clean => PC' = Head(frames).resume
  <2>1. TypeOK'
    BY <1>1, TickOK DEF CallOp, CallInv
  <2> QED BY <1>1, <2>1, RTIStep
<1>2. CallInv /\ [CNext]_cvars =>
        [Completes("RTI") =>
           /\ flagI' = Head(frames).flag
           /\ SP' = Head(frames).sp
           /\ Head(frames).clean => PC' = Head(frames).resume]_cvars
  BY <1>1 DEF Completes
<1> QED BY <1>2, CallsInvariant, PTL DEF CSpec, InterruptsReturn

=============================================================================
