-------------------------- MODULE AppleIIeMMUProofs -------------------------
(***************************************************************************)
(* Proofs about AppleIIeMMU and AppleIIeMMUHistory, for every set of slot  *)
(* ROMs and ROM images and every program, and about SoftSwitches, the MMU  *)
(* behind the soft-switch decoding.                                        *)
(***************************************************************************)
EXTENDS SoftSwitches, TLAPS

USE DEF Slots, Flags, StatusFlags, RAMAreas, Banked

-----------------------------------------------------------------------------
(* Type correctness. *)

(* A program's address has one of the areas of the decoding. *)
LEMMA AddressArea ==
  ASSUME NEW a \in Addresses
  PROVE  /\ a \in Address
         /\ a.area \in RAMAreas \cup {"slot", "expansion", "last", "rom"}
         /\ a.slot \in 0 .. 7
         /\ a.area = "slot" => a.slot \in Slots
  BY ProgramAssumption DEF Address

(* The offset of an access that no card answers. *)
LEMMA NoOffset == 0 \in 0 .. 9 * Page - 1
  BY PageAssumption

LEMMA AccessType ==
  ASSUME NEW op \in {"none", "switch", "status", "read", "write", "card"},
         NEW area \in RAMAreas \cup {"slot", "expansion", "last", "rom", "none"}
                        \cup Flags \cup CardRegisters,
         NEW from \in {"none", "mode", "aux", "main", "card", "internal"},
         NEW slot \in 0 .. 7
  PROVE  Access(op, area, from, slot) \in Accesses
  BY NoOffset DEF Access, Accesses

(* An address's place in a ROM is a number, and inside when a card supplies it. *)
LEMMA OffsetType ==
  ASSUME NEW a \in Addresses, a.area \notin RAMAreas, NEW s \in Slots
  PROVE  /\ ROMOffset(s, a) \in Nat
         /\ SlotROM[s] \in Nat /\ SlotROM[s] <= 9 * Page
<1>1. Page \in Nat /\ Page > 0 /\ SlotROM[s] \in Nat /\ SlotROM[s] <= 9 * Page
  BY PageAssumption, SlotROMAssumption
<1>2. a.area \in {"slot", "expansion"} => a.off \in Nat
  <2>1. CASE a.area = "slot"
    <3>1. a.off \in 0 .. Page - 1
      BY <2>1, ProgramAssumption DEF Address
    <3> QED BY <1>1, <3>1
  <2>2. CASE a.area = "expansion"
    <3>1. a.off \in 0 .. 8 * Page - 2
      BY <2>2, ProgramAssumption DEF Address
    <3> QED BY <1>1, <3>1
  <2> QED BY <2>1, <2>2
<1>3. a.area = "expansion" => a.off % Page \in Nat
  BY <1>1, <1>2
<1>4. a.area = "expansion" => Page + a.off \in Nat
  BY <1>1, <1>2
<1>5. CASE SlotShown(a)
  BY <1>1, <1>2, <1>5 DEF ROMOffset, SlotShown
<1>6. CASE ~SlotShown(a)
  BY <1>1, <1>3, <1>4, <1>6 DEF ROMOffset
<1> QED BY <1>1, <1>5, <1>6

(* A read selects a slot that has a ROM, or none. *)
LEMMA ActiveType ==
  ASSUME TypeOK, NEW a \in Addresses
  PROVE  ActiveAfter(a) \in {0} \cup {s \in Slots : SlotROM[s] > 0}
<1>1. CASE SlotShown(a)
  <2>1. a.slot \in Slots /\ SlotROM[a.slot] > 0
    BY <1>1, AddressArea DEF SlotShown
  <2> QED BY <1>1, <2>1 DEF ActiveAfter
<1>2. CASE ~SlotShown(a)
  <2>1. ActiveAfter(a) \in {0, activeSlot}
    BY <1>2 DEF ActiveAfter
  <2> QED BY <2>1 DEF TypeOK
<1> QED BY <1>1, <1>2

(* The state a reset leaves the flags and the bus in. *)
LEMMA ResetTyped ==
  Quiet \in Accesses /\ [f \in Flags |-> FALSE] \in [Flags -> BOOLEAN]
<1>1. Quiet \in Accesses
  BY NoOffset DEF Quiet, Accesses
<1>2. [f \in Flags |-> FALSE] \in [Flags -> BOOLEAN]
  OBVIOUS
<1> QED BY <1>1, <1>2

LEMMA InitTyped == Init => TypeOK
<1> SUFFICES ASSUME Init PROVE TypeOK
  OBVIOUS
<1>1. mode \in [Flags -> BOOLEAN] /\ bus \in Accesses
  BY ResetTyped DEF Init
<1> QED BY <1>1 DEF Init, TypeOK

LEMMA NextTyped == TypeOK /\ [Next]_vars => TypeOK'
<1> SUFFICES ASSUME TypeOK, [Next]_vars PROVE TypeOK'
  OBVIOUS
<1>1. CASE Reset
  <2>1. mode' \in [Flags -> BOOLEAN] /\ bus' \in Accesses
    BY <1>1, ResetTyped DEF Reset
  <2> QED BY <1>1, <2>1 DEF Reset, TypeOK
<1>2. ASSUME NEW flag \in Switches, NEW on \in BOOLEAN, WriteSwitch(flag, on)
      PROVE  TypeOK'
  <2>1. flag \in Flags
    BY ProgramAssumption
  <2>2. bus' \in Accesses
    BY <1>2, <2>1, AccessType DEF WriteSwitch
  <2>3. mode' \in [Flags -> BOOLEAN]
    BY <1>2, <2>1 DEF WriteSwitch, TypeOK
  <2> QED BY <1>2, <2>2, <2>3 DEF WriteSwitch, TypeOK
<1>3. ASSUME NEW flag \in Switches, ReadStatus(flag)
      PROVE  TypeOK'
  <2>1. mode[flag] \in BOOLEAN
    BY <1>3 DEF ReadStatus, TypeOK
  <2>2. bus' \in Accesses
    BY <1>3, <2>1, NoOffset DEF ReadStatus, Access, Accesses
  <2> QED BY <1>3, <2>2 DEF ReadStatus, TypeOK
<1>4. ASSUME NEW a \in Addresses, a.area \in RAMAreas, ReadRAM(a.area)
      PROVE  TypeOK'
  <2>1. bus' \in Accesses
    BY <1>4, AccessType DEF ReadRAM
  <2>2. pending' \in BOOLEAN
    BY <1>4 DEF ReadRAM
  <2> QED BY <1>4, <2>1, <2>2 DEF ReadRAM, TypeOK
<1>5. ASSUME NEW a \in Addresses, a.area \in RAMAreas, WriteRAM(a.area)
      PROVE  TypeOK'
  <2>1. bus' \in Accesses
    BY <1>5, AccessType DEF WriteRAM
  <2>2. pending' \in BOOLEAN
    BY <1>5 DEF WriteRAM
  <2> QED BY <1>5, <2>1, <2>2 DEF WriteRAM, TypeOK
<1>6. ASSUME NEW a \in Addresses, a.area \notin RAMAreas, ReadROM(a)
      PROVE  TypeOK'
  <2>1. activeSlot' \in {0} \cup {s \in Slots : SlotROM[s] > 0}
    BY <1>6, ActiveType DEF ReadROM
  <2>2. activeSlot' \in 0 .. 7
    BY <2>1
  <2>3. bus' \in Accesses
    <3>1. CASE ~CardSupplies(a)
      BY <1>6, <3>1, AddressArea, AccessType DEF ReadROM
    <3>2. CASE CardSupplies(a)
      <4> DEFINE o == ROMOffset(activeSlot', a)
      <4>1. bus' = [Access("read", a.area, "card", activeSlot') EXCEPT !.off = o]
        BY <1>6, <3>2 DEF ReadROM
      <4>2. activeSlot' \in Slots /\ o < SlotROM[activeSlot']
        BY <1>6, <2>1, <3>2 DEF ReadROM, CardSupplies
      <4>3. o \in 0 .. 9 * Page - 1
        BY <1>6, <4>2, OffsetType, PageAssumption
      <4> HIDE DEF o
      <4> QED BY <2>2, <4>1, <4>3, AddressArea DEF Access, Accesses
    <3> QED BY <3>1, <3>2
  <2> QED BY <1>6, <2>1, <2>3 DEF ReadROM, TypeOK
<1>7. ASSUME NEW a \in Addresses, WriteROM(a)
      PROVE  TypeOK'
  <2>1. bus' \in Accesses
    BY <1>7, AddressArea, AccessType DEF WriteROM
  <2> QED BY <1>7, <2>1 DEF WriteROM, TypeOK
<1>8. CASE Begin
  <2>1. bus' \in Accesses
    BY <1>8, AccessType DEF Begin, CardRegisters
  <2> QED BY <1>8, <2>1 DEF Begin, TypeOK
<1>9. CASE Poll
  <2>1. bus' \in Accesses
    BY <1>9, NoOffset DEF Poll, CardRegisters, Access, Accesses, TypeOK
  <2>2. handshakeHi' \in BOOLEAN /\ pending' \in BOOLEAN
    BY <1>9 DEF Poll
  <2> QED BY <1>9, <2>1, <2>2 DEF Poll, TypeOK
<1>10. CASE Finish
  <2>1. bus' \in Accesses
    BY <1>10, AccessType DEF Finish, CardRegisters
  <2> QED BY <1>10, <2>1 DEF Finish, TypeOK
<1>11. CASE UNCHANGED vars
  BY <1>11 DEF vars, TypeOK
<1> QED
  BY <1>1, <1>2, <1>3, <1>4, <1>5, <1>6, <1>7, <1>8, <1>9, <1>10, <1>11
  DEF Next, AccessAddress

(* The flags, the selected slot and the answers keep their types, and only *)
(* a slot that has a ROM is ever selected (apple2e_mmu.go:354-398).        *)
THEOREM MMUTypeCorrect == Spec => []TypeOK
<1> QED BY InitTyped, NextTyped, PTL DEF Spec

-----------------------------------------------------------------------------
(* The auxiliary window. *)

(* A RAM access uses the window up when it may, and leaves it alone when not. *)
LEMMA RAMStep ==
  ASSUME TypeOK, NEW a \in Addresses, a.area \in RAMAreas,
         ReadRAM(a.area) \/ WriteRAM(a.area)
  PROVE  Window!UseWindow \/ Window!OtherAccess
<1>1. /\ bus'.op \in {"read", "write"}
      /\ bus'.area = a.area
      /\ Redirected(a.area) => bus'.from = "aux"
      /\ pending' = (pending /\ ~Redirected(a.area))
      /\ handshakeHi' = handshakeHi
  BY DEF ReadRAM, WriteRAM, Access
<1>2. CASE Redirected(a.area)
  <2>1. pending /\ a.area \in Banked /\ ~pending'
    BY <1>1, <1>2 DEF Redirected
  <2> QED BY <1>1, <1>2, <2>1 DEF Window!UseWindow, Window!Transfer, Window!Banked
<1>3. CASE ~Redirected(a.area)
  <2>1. pending' = pending
    BY <1>1, <1>3 DEF TypeOK
  <2>2. pending => a.area \notin Banked
    BY <1>3 DEF Redirected
  <2> QED BY <1>1, <2>1, <2>2
          DEF Window!OtherAccess, Window!Transfer, Window!Banked
<1> QED BY <1>2, <1>3

LEMMA ROMStep ==
  ASSUME NEW a \in Addresses, a.area \notin RAMAreas, ReadROM(a) \/ WriteROM(a)
  PROVE  Window!OtherAccess
<1>1. /\ bus'.op \in {"read", "write"}
      /\ bus'.area = a.area
      /\ UNCHANGED <<pending, handshakeHi>>
  BY DEF ReadROM, WriteROM, Access
<1> QED BY <1>1 DEF Window!OtherAccess, Window!Transfer, Window!Banked

LEMMA SwitchStep ==
  ASSUME NEW flag, NEW on, WriteSwitch(flag, on) \/ ReadStatus(flag)
  PROVE  Window!OtherAccess
<1>1. bus'.op \in {"switch", "status"} /\ UNCHANGED <<pending, handshakeHi>>
  BY DEF WriteSwitch, ReadStatus, Access
<1> QED BY <1>1 DEF Window!OtherAccess, Window!Transfer

LEMMA PollStep ==
  ASSUME TypeOK, Poll
  PROVE  Window!PollLow \/ Window!PollHigh
<1>1. bus'.op = "card" /\ bus'.area = "poll" /\ bus'.high = handshakeHi
  BY DEF Poll, Access
<1>2. CASE handshakeHi
  <2>1. ~handshakeHi' /\ pending'
    BY <1>2 DEF Poll
  <2> QED BY <1>1, <1>2, <2>1 DEF Window!PollHigh, Window!Register
<1>3. CASE ~handshakeHi
  <2>1. handshakeHi' /\ pending' = pending
    BY <1>3 DEF Poll, TypeOK
  <2> QED BY <1>1, <1>3, <2>1 DEF Window!PollLow, Window!Register
<1> QED BY <1>2, <1>3

(* Every access of the unit and the card is a step of the window or none. *)
LEMMA WindowStep == TypeOK /\ [Next]_vars => [Window!Next]_(Window!vars)
<1> SUFFICES ASSUME TypeOK, [Next]_vars PROVE [Window!Next]_(Window!vars)
  OBVIOUS
<1>1. CASE Reset
  BY <1>1 DEF Reset, Quiet, Window!Next, Window!Restart
<1>2. ASSUME NEW flag \in Switches, NEW on \in BOOLEAN, WriteSwitch(flag, on)
      PROVE  Window!OtherAccess
  BY <1>2, SwitchStep
<1>3. ASSUME NEW flag \in Switches, ReadStatus(flag)
      PROVE  Window!OtherAccess
  BY <1>3, SwitchStep
<1>4. ASSUME NEW a \in Addresses, AccessAddress(a)
      PROVE  Window!UseWindow \/ Window!OtherAccess
  BY <1>4, RAMStep, ROMStep DEF AccessAddress
<1>5. CASE Begin
  BY <1>5 DEF Begin, Window!Next, Window!BeginTransfer, Window!Register, Access
<1>6. CASE Poll
  BY <1>6, PollStep DEF Window!Next
<1>7. CASE Finish
  BY <1>7 DEF Finish, Window!Next, Window!FinishTransfer, Window!Register, Access
<1>8. CASE UNCHANGED vars
  BY <1>8 DEF vars, Window!vars
<1> QED
  BY <1>1, <1>2, <1>3, <1>4, <1>5, <1>6, <1>7, <1>8 DEF Next, Window!Next

(* apple2e_80col_card.go:34-62 and apple2e_mmu.go:436-445: whatever the    *)
(* ROMs and the program, the card and the unit keep the window's promise:  *)
(* one access per handshake, the first one to $0200-$BFFF.                 *)
THEOREM MMUImplementsWindow == HSpec => ImplementsWindow
<1>1. HInit => TypeOK /\ Window!Init
  BY InitTyped DEF HInit, Init, Quiet, Window!Init
<1>2. [HNext]_hvars => [Next]_vars
  BY DEF HNext, hvars, vars
<1>3. TypeOK /\ [HNext]_hvars => TypeOK' /\ [Window!Next]_(Window!vars)
  BY <1>2, NextTyped, WindowStep
<1> QED BY <1>1, <1>3, PTL DEF HSpec, ImplementsWindow, Window!Spec

-----------------------------------------------------------------------------
(* The expansion window. *)

(* What a watcher of the bus takes for the selected card is the selected card. *)
SelectionInv == TypeOK /\ selected = activeSlot

(* A read of a ROM address tells the watcher which card it selected. *)
LEMMA SelectionSeen ==
  ASSUME TypeOK, selected = activeSlot,
         NEW a \in Addresses, a.area \notin RAMAreas, ReadROM(a)
  PROVE  Selection = activeSlot'
<1>0. /\ a \in Address /\ a.area \in {"slot", "expansion", "last", "rom"}
      /\ a.area = "slot" => a.slot \in Slots /\ a.off \in 0 .. Page - 1
  BY ProgramAssumption DEF Address
<1>1. activeSlot' = ActiveAfter(a) /\ mode' = mode
  BY DEF ReadROM
<1>2. bus'.op = "read" /\ bus'.area = a.area
  BY DEF ReadROM, Access
<1>3. CASE SlotShown(a)
  <2>1. a.area = "slot" /\ a.slot \in Slots /\ ActiveAfter(a) = a.slot
    BY <1>0, <1>3 DEF ActiveAfter, SlotShown, InternalC3
  <2>2. bus'.slot = a.slot
    BY <1>1, <2>1 DEF ReadROM, Access
  <2>3. CASE CardSupplies(a)
    <3>1. bus'.from = "card"
      BY <2>3 DEF ReadROM, Access
    <3> QED BY <1>1, <1>2, <2>1, <2>2, <3>1 DEF Selection
  <2>4. CASE ~CardSupplies(a)
    <3>1. ROMOffset(a.slot, a) = a.off
      BY <1>3, <2>1 DEF ROMOffset
    <3>2. ~(a.off < SlotROM[a.slot])
      BY <1>3, <2>1, <2>4, <3>1 DEF CardSupplies, SlotShown
    <3>3. SlotROM[a.slot] \in 1 .. Page - 1
      <4>1. SlotROM[a.slot] \in Nat /\ SlotROM[a.slot] > 0
        BY <1>3, <2>1, SlotROMAssumption, PageAssumption DEF SlotShown
      <4> QED BY <1>0, <2>1, <3>2, <4>1, PageAssumption
    <3>4. SilentCard
      BY <1>3, <2>2, <3>3 DEF SilentCard, SlotShown
    <3> QED BY <1>1, <1>2, <2>1, <2>2, <3>4 DEF Selection, SilentCard
  <2> QED BY <2>3, <2>4
<1>4. CASE ~SlotShown(a) /\ a.area = "slot"
  <2>1. ~CardSupplies(a)
    <3>1. SUFFICES ASSUME ActiveAfter(a) # 0
                   PROVE  ~(ROMOffset(ActiveAfter(a), a) < SlotROM[ActiveAfter(a)])
      BY DEF CardSupplies
    <3>2. ROMOffset(ActiveAfter(a), a) = SlotROM[ActiveAfter(a)]
      BY <1>4 DEF ROMOffset
    <3>3. ActiveAfter(a) \in Slots
      BY <3>1, ActiveType
    <3> QED BY <3>2, <3>3, OffsetType
  <2>5. ~SilentCard
    <3>1. bus'.slot = a.slot /\ a.slot \in Slots
      BY <1>0, <1>4, <2>1 DEF ReadROM, Access
    <3>2. SlotROM[a.slot] \in Nat
      BY <3>1, OffsetType
    <3> QED BY <1>4, <3>1, <3>2 DEF SilentCard, SlotShown
  <2>2. /\ bus'.from = IF a \in RomLoaded THEN "internal" ELSE "main"
        /\ bus'.slot = a.slot
    BY <2>1 DEF ReadROM, Access
  <2>3. CASE InternalC3(a)
    <3>1. activeSlot' = 0
      BY <1>1, <1>4, <2>3 DEF ActiveAfter
    <3> QED BY <1>2, <1>4, <2>2, <2>3, <2>5, <3>1 DEF Selection, InternalC3
  <2>4. CASE ~InternalC3(a)
    <3>1. activeSlot' = activeSlot
      BY <1>1, <1>4, <2>4 DEF ActiveAfter
    <3> QED BY <1>2, <1>4, <2>2, <2>4, <2>5, <3>1 DEF Selection, InternalC3
  <2> QED BY <2>3, <2>4
<1>5. CASE a.area = "last"
  <2>1. activeSlot' = 0
    BY <1>1, <1>5 DEF ActiveAfter, SlotShown
  <2> QED BY <1>2, <1>5, <2>1 DEF Selection
<1>6. CASE a.area \in {"expansion", "rom"}
  <2>1. activeSlot' = activeSlot
    BY <1>1, <1>6 DEF ActiveAfter, SlotShown, InternalC3
  <2> QED BY <1>2, <1>6, <2>1 DEF Selection
<1> QED BY <1>0, <1>3, <1>4, <1>5, <1>6

(* No other access selects a card, nor seems to. *)
LEMMA SelectionKept ==
  ASSUME selected = activeSlot, activeSlot' = activeSlot,
         \/ bus'.op \in {"switch", "status", "write", "card"}
         \/ bus'.op = "read" /\ bus'.area \in RAMAreas
  PROVE  Selection = activeSlot'
  BY DEF Selection

LEMMA SelectionInductive == SelectionInv /\ [HNext]_hvars => SelectionInv'
<1> SUFFICES ASSUME SelectionInv, [HNext]_hvars PROVE SelectionInv'
  OBVIOUS
<1> USE DEF SelectionInv
<1>1. TypeOK'
  <2>1. [Next]_vars
    BY DEF HNext, hvars, vars
  <2> QED BY <2>1, NextTyped
<1>2. ASSUME HNext
      PROVE  selected' = activeSlot'
  <2>0. Next /\ selected' = Selection /\ selected = activeSlot
    BY <1>2 DEF HNext
  <2>1. CASE Reset
    BY <2>0, <2>1 DEF Reset, Quiet, Selection
  <2>2. ASSUME NEW flag \in Switches, NEW on \in BOOLEAN, WriteSwitch(flag, on)
        PROVE  Selection = activeSlot'
    <3>1. activeSlot' = activeSlot /\ bus'.op = "switch"
      BY <2>2 DEF WriteSwitch, Access
    <3> QED BY <2>0, <3>1, SelectionKept
  <2>3. ASSUME NEW flag \in Switches, ReadStatus(flag)
        PROVE  Selection = activeSlot'
    <3>1. activeSlot' = activeSlot /\ bus'.op = "status"
      BY <2>3 DEF ReadStatus, Access
    <3> QED BY <2>0, <3>1, SelectionKept
  <2>4. ASSUME NEW a \in Addresses, a.area \in RAMAreas,
               ReadRAM(a.area) \/ WriteRAM(a.area)
        PROVE  Selection = activeSlot'
    <3>1. /\ activeSlot' = activeSlot
          /\ bus'.op \in {"read", "write"} /\ bus'.area = a.area
      BY <2>4 DEF ReadRAM, WriteRAM, Access
    <3> QED BY <2>0, <2>4, <3>1, SelectionKept
  <2>5. ASSUME NEW a \in Addresses, a.area \notin RAMAreas, ReadROM(a)
        PROVE  Selection = activeSlot'
    BY <2>0, <2>5, SelectionSeen
  <2>6. ASSUME NEW a \in Addresses, WriteROM(a)
        PROVE  Selection = activeSlot'
    <3>1. activeSlot' = activeSlot /\ bus'.op = "write"
      BY <2>6 DEF WriteROM, Access
    <3> QED BY <2>0, <3>1, SelectionKept
  <2>7. CASE Begin \/ Poll \/ Finish
    <3>1. activeSlot' = activeSlot /\ bus'.op = "card"
      BY <2>7 DEF Begin, Poll, Finish, Access
    <3> QED BY <2>0, <3>1, SelectionKept
  <2> QED
    BY <2>0, <2>1, <2>2, <2>3, <2>4, <2>5, <2>6, <2>7 DEF Next, AccessAddress
<1>3. CASE UNCHANGED hvars
  BY <1>1, <1>3 DEF hvars
<1> QED BY <1>1, <1>2, <1>3

(* A card answers in the expansion window only when it is the selected one, *)
(* and with a byte of its ROM.                                             *)
LEMMA CardIsActive ==
  SelectionInv /\ ExpansionFollowsSelection /\ [HNext]_hvars
    => ExpansionFollowsSelection'
<1> SUFFICES ASSUME SelectionInv, ExpansionFollowsSelection, [HNext]_hvars,
                    bus'.op = "read", bus'.area = "expansion", bus'.from = "card"
             PROVE  /\ bus'.slot = selected' /\ bus'.off < SlotROM[selected']
                    /\ bus'.off >= Page \/ (selected' = 3 /\ SlotROM[selected'] <= Page)
  BY DEF ExpansionFollowsSelection
<1>1. selected' = activeSlot'
  BY SelectionInductive DEF SelectionInv
<1>2. CASE UNCHANGED hvars
  BY <1>2 DEF hvars, ExpansionFollowsSelection
<1>3. CASE Next
  <2>1. PICK a \in Addresses : a.area \notin RAMAreas /\ ReadROM(a)
    <3>1. ~Reset /\ ~Begin /\ ~Poll /\ ~Finish
      BY DEF Reset, Quiet, Begin, Poll, Finish, Access
    <3>2. \A flag \in Switches, on \in BOOLEAN : ~WriteSwitch(flag, on)
      BY DEF WriteSwitch, Access
    <3>3. \A flag \in Switches : ~ReadStatus(flag)
      BY DEF ReadStatus, Access
    <3>4. \A a \in Addresses : ~WriteROM(a)
      BY DEF WriteROM, Access
    <3>5. \A a \in Addresses :
            a.area \in RAMAreas => ~ReadRAM(a.area) /\ ~WriteRAM(a.area)
      BY DEF ReadRAM, WriteRAM, Access
    <3> QED BY <1>3, <3>1, <3>2, <3>3, <3>4, <3>5 DEF Next, AccessAddress
  <2>2. /\ CardSupplies(a) /\ a.area = "expansion" /\ bus'.slot = activeSlot'
        /\ bus'.off = ROMOffset(activeSlot', a) /\ activeSlot' = ActiveAfter(a)
    BY <2>1 DEF ReadROM, Access
  <2>3. activeSlot' \in Slots /\ ROMOffset(activeSlot', a) < SlotROM[activeSlot']
    BY <2>2, ActiveType DEF CardSupplies, SelectionInv
  <2>4. ~SlotShown(a) /\ SlotROM[activeSlot'] \in Nat
    BY <2>1, <2>2, <2>3, OffsetType DEF SlotShown
  <2>5. \/ SlotROM[activeSlot'] > Page /\ ROMOffset(activeSlot', a) = Page + a.off
        \/ SlotROM[activeSlot'] <= Page /\ activeSlot' = 3
    BY <2>2, <2>3, <2>4, PageAssumption DEF ROMOffset
  <2>6. a.off \in Nat
    BY <2>2, ProgramAssumption, PageAssumption DEF Address
  <2>7. ROMOffset(activeSlot', a) >= Page \/ (activeSlot' = 3 /\ SlotROM[activeSlot'] <= Page)
    BY <2>5, <2>6, PageAssumption
  <2> QED BY <1>1, <2>2, <2>3, <2>7
<1> QED BY <1>2, <1>3 DEF HNext

(* apple2e_mmu.go:315-398: for slot ROMs of any length and any program, no *)
(* two cards ever answer in $C800-$CFFE in turn without one of them having *)
(* been selected in between, and each answers with bytes of its own ROM.   *)
THEOREM ExpansionOwned == HSpec => []ExpansionFollowsSelection
<1>1. HInit => SelectionInv /\ ExpansionFollowsSelection
  BY InitTyped DEF HInit, Init, Quiet, SelectionInv, ExpansionFollowsSelection
<1>2. SelectionInv /\ ExpansionFollowsSelection /\ [HNext]_hvars
        => (SelectionInv /\ ExpansionFollowsSelection)'
  BY SelectionInductive, CardIsActive
<1> QED BY <1>1, <1>2, PTL DEF HSpec

-----------------------------------------------------------------------------
(* The text page under 80STORE. *)

TextPageBank == IF mode.Page2 THEN "aux" ELSE "main"

(* The bank of the last text write is the one PAGE2 still selects. *)
TextInv ==
  TypeOK /\ (textBank # "none" => mode.Store80 /\ textBank = TextPageBank)

LEMMA TextBanks ==
  ASSUME TypeOK, mode.Store80
  PROVE  AuxRead("text") = mode.Page2 /\ AuxWrite("text") = mode.Page2
  BY DEF TypeOK, AuxRead, AuxWrite, UsesAux

LEMMA TextInductive == TextInv /\ [HNext]_hvars => TextInv'
<1> SUFFICES ASSUME TextInv, [HNext]_hvars PROVE TextInv'
  OBVIOUS
<1> USE DEF TextInv
<1>1. TypeOK'
  <2>1. [Next]_vars
    BY DEF HNext, hvars, vars
  <2> QED BY <2>1, NextTyped
<1> DEFINE Bound == textBank # "none" => mode.Store80 /\ textBank = TextPageBank
<1>2. ASSUME HNext
      PROVE  Bound'
  <2>0. Next /\ textBank' = WrittenBank
    BY <1>2 DEF HNext
  <2>1. CASE Reset
    BY <2>0, <2>1 DEF Reset, Quiet, WrittenBank
  <2>2. ASSUME NEW flag \in Switches, NEW on \in BOOLEAN, WriteSwitch(flag, on)
        PROVE  Bound'
    <3>1. bus'.op = "switch" /\ bus'.area = flag
      BY <2>2 DEF WriteSwitch, Access
    <3>2. CASE flag \in {"Page2", "Store80"}
      BY <2>0, <3>1, <3>2 DEF WrittenBank
    <3>3. CASE flag \notin {"Page2", "Store80"}
      <4>1. mode'["Store80"] = mode["Store80"] /\ mode'["Page2"] = mode["Page2"]
        BY <2>2, <3>3 DEF WriteSwitch, TypeOK
      <4>2. textBank' = textBank
        BY <2>0, <3>1, <3>3 DEF WrittenBank
      <4> QED BY <4>1, <4>2 DEF TextPageBank
    <3> QED BY <3>2, <3>3
  <2>3. ASSUME NEW a \in Addresses, a.area \in RAMAreas, WriteRAM(a.area)
        PROVE  Bound'
    <3>1. mode' = mode /\ bus'.op = "write" /\ bus'.area = a.area
      BY <2>3 DEF WriteRAM, Access
    <3>2. CASE a.area = "text" /\ mode.Store80 /\ ~pending
      <4>1. bus'.from = IF AuxWrite("text") THEN "aux" ELSE "main"
        BY <2>3, <3>2 DEF WriteRAM, Access, Redirected
      <4>2. bus'.from = TextPageBank
        BY <3>2, <4>1, TextBanks DEF TextPageBank
      <4>3. textBank' = TextPageBank
        BY <2>0, <3>1, <3>2, <4>2 DEF WrittenBank
      <4> QED BY <3>1, <3>2, <4>3 DEF TextPageBank
    <3>3. CASE ~(a.area = "text" /\ mode.Store80 /\ ~pending)
      <4>1. textBank' = textBank
        BY <2>0, <3>1, <3>3 DEF WrittenBank
      <4> QED BY <3>1, <4>1 DEF TextPageBank
    <3> QED BY <3>2, <3>3
  <2>4. ASSUME mode' = mode,
               \/ bus'.op \in {"status", "read", "card"}
               \/ bus'.op = "write" /\ bus'.area \notin RAMAreas
        PROVE  Bound'
    <3>1. textBank' = textBank
      BY <2>0, <2>4 DEF WrittenBank
    <3> QED BY <2>4, <3>1 DEF TextPageBank
  <2>5. ASSUME NEW flag \in Switches, ReadStatus(flag)
        PROVE  Bound'
    BY <2>4, <2>5 DEF ReadStatus, Access
  <2>6. ASSUME NEW a \in Addresses,
               \/ ReadRAM(a.area) \/ ReadROM(a)
               \/ a.area \notin RAMAreas /\ WriteROM(a)
        PROVE  Bound'
    BY <2>4, <2>6 DEF ReadRAM, ReadROM, WriteROM, Access
  <2>7. CASE Begin \/ Poll \/ Finish
    BY <2>4, <2>7 DEF Begin, Poll, Finish, Access
  <2> HIDE DEF Bound
  <2> QED
    BY <2>0, <2>1, <2>2, <2>3, <2>5, <2>6, <2>7 DEF Next, AccessAddress
<1>3. CASE UNCHANGED hvars
  BY <1>1, <1>3 DEF hvars, TextPageBank
<1> QED BY <1>1, <1>2, <1>3

(* A text byte is read from the bank PAGE2 selects. *)
LEMMA TextRead ==
  ASSUME TextInv, HNext, textBank # "none", ~pending,
         bus'.op = "read", bus'.area = "text"
  PROVE  bus'.from = textBank
<1>1. Next
  BY DEF HNext
<1>2. PICK a \in Addresses : a.area = "text" /\ ReadRAM(a.area)
  <2>1. ~Reset /\ ~Begin /\ ~Poll /\ ~Finish
    BY DEF Reset, Quiet, Begin, Poll, Finish, Access
  <2>2. \A flag \in Switches, on \in BOOLEAN : ~WriteSwitch(flag, on)
    BY DEF WriteSwitch, Access
  <2>3. \A flag \in Switches : ~ReadStatus(flag)
    BY DEF ReadStatus, Access
  <2>4. \A a \in Addresses : a.area \notin RAMAreas => ~ReadROM(a) /\ ~WriteROM(a)
    <3> SUFFICES ASSUME NEW a \in Addresses, a.area \notin RAMAreas
                 PROVE  ~ReadROM(a) /\ ~WriteROM(a)
      OBVIOUS
    <3> QED BY DEF ReadROM, WriteROM, Access
  <2>5. \A a \in Addresses : ~WriteRAM(a.area)
    BY DEF WriteRAM, Access
  <2>6. \A a \in Addresses : ReadRAM(a.area) => a.area = "text"
    BY DEF ReadRAM, Access
  <2> QED BY <1>1, <2>1, <2>2, <2>3, <2>4, <2>5, <2>6 DEF Next, AccessAddress
<1>3. bus'.from = IF AuxRead("text") THEN "aux" ELSE "main"
  BY <1>2 DEF ReadRAM, Access, Redirected
<1> QED BY <1>3, TextBanks DEF TextInv, TextPageBank

(* apple2e_mmu.go:400-434: under 80STORE the RAMRD and RAMWRT switches     *)
(* never split the text page: what was written is read back from the same  *)
(* bank, for any interleaving of switches, ROM reads and card accesses.    *)
THEOREM TextReadsBack == HSpec => TextReadBack
<1>1. HInit => TextInv
  BY InitTyped DEF HInit, TextInv
<1>2. TextInv /\ [HNext]_hvars => TextInv'
  BY TextInductive
<1>3. TextInv /\ [HNext]_hvars =>
        [ /\ textBank # "none"
          /\ bus'.op = "read" /\ bus'.area = "text"
          /\ ~pending
          => bus'.from = textBank ]_hvars
  BY TextRead
<1> QED BY <1>1, <1>2, <1>3, PTL DEF HSpec, TextReadBack

-----------------------------------------------------------------------------
(* The soft switches in front of the MMU, for every set of switches the    *)
(* program uses and every geometry and memory layout.                      *)
Twice == {"Store80", "Page2", "HiRes"}

-----------------------------------------------------------------------------
(* What the switches do to the MMU is what its module allows.              *)
LEMMA StepsOfMMU == [SNext]_svars => [HNext]_hvars
<1> SUFFICES ASSUME [SNext]_svars PROVE [HNext]_hvars
  OBVIOUS
<1>1. CASE UNCHANGED svars
  BY <1>1 DEF svars
<1>2. ASSUME NEW flag \in Switches \cup DisplaySwitches, NEW on \in BOOLEAN, Flip(flag, on)
      PROVE  [HNext]_hvars
  <2>1. CASE flag \in ToMemory
    <3>1. flag \in Switches
      BY <2>1, DisplaySwitchesAssumption DEF ToMemory
    <3>2. WriteSwitch(flag, on) /\ Seen
      BY <1>2, <2>1 DEF Flip
    <3> QED BY <3>1, <3>2 DEF HNext, Next, Seen
  <2>2. CASE flag \notin ToMemory
    BY <1>2, <2>2 DEF Flip
  <2> QED BY <2>1, <2>2
<1>3. ASSUME NEW flag \in Switches \cup DisplaySwitches, ReadSwitch(flag)
      PROVE  HNext
  <2>1. ReadStatus(flag) /\ Seen /\ flag \in Flags
    BY <1>3 DEF ReadSwitch, ReadStatus, StatusFlags
  <2>2. flag \in Switches
    BY <2>1, DisplaySwitchesAssumption
  <2> QED BY <2>1, <2>2 DEF HNext, Next, Seen
<1>4. ASSUME NEW a \in Addresses, AccessMemory(a) PROVE HNext
  BY <1>4 DEF AccessMemory, Seen, HNext, Next
<1>5. AccessCard \/ ResetMachine => HNext
  BY DEF AccessCard, ResetMachine, Seen, HNext, Next
<1> QED BY <1>1, <1>2, <1>3, <1>4, <1>5 DEF SNext, Steps

(* The MMU and its card keep their promises inside the machine: apple2e_    *)
(* softswitches.go:113-169 and the machine's reset do nothing to them that *)
(* their own module does not allow.                                        *)
THEOREM MMUInMachine ==
  SSpec => [](TypeOK /\ ExpansionFollowsSelection) /\ ImplementsWindow /\ TextReadBack
<1>1. SInit => HInit
  BY DEF SInit
<1>2. SSpec => HSpec
  BY <1>1, StepsOfMMU, PTL DEF SSpec, HSpec
<1>3. HSpec => Spec
  <2>1. HInit => Init
    BY DEF HInit
  <2>2. [HNext]_hvars => [Next]_vars
    BY DEF HNext, hvars, vars
  <2> QED BY <2>1, <2>2, PTL DEF HSpec, Spec
<1> QED BY <1>2, <1>3, MMUTypeCorrect, ExpansionOwned, MMUImplementsWindow, TextReadsBack, PTL

-----------------------------------------------------------------------------
(* The two copies, their domains, and the switches a reset left different. *)
SwitchInv ==
  /\ mode \in [Flags -> BOOLEAN]
  /\ display \in [crtc!Flags -> BOOLEAN]
  /\ SwitchesAgree
  /\ \A flag \in Twice : flag \in stale => ~mode[flag] /\ display[flag]

LEMMA TwiceRouted == Twice \subseteq ToMemory /\ Twice \subseteq ToDisplay
  BY DEF Twice, ToMemory, ToDisplay, Shared, Flags

LEMMA Routed == ToMemory = Flags /\ ToDisplay \subseteq crtc!Flags
  BY DEF ToMemory, ToDisplay, Shared, crtc!Flags

LEMMA FlipKeeps ==
  ASSUME NEW flag, NEW on \in BOOLEAN, SwitchInv, Flip(flag, on)
  PROVE  SwitchInv'
<1>1. mode' = IF flag \in ToMemory THEN [mode EXCEPT ![flag] = on] ELSE mode
  BY DEF Flip, WriteSwitch, hvars
<1>2. display' = IF flag \in ToDisplay THEN [display EXCEPT ![flag] = on] ELSE display
  BY DEF Flip, crtc!Write, crtc!Setter, displayVars
<1>3. stale' = stale \ {flag}
  BY DEF Flip
<1>4. mode' \in [Flags -> BOOLEAN] /\ display' \in [crtc!Flags -> BOOLEAN]
  BY <1>1, <1>2, Routed DEF SwitchInv
<1>5. ASSUME NEW f \in Twice
      PROVE  /\ f \notin stale' => mode'[f] = display'[f]
             /\ f \in stale' => ~mode'[f] /\ display'[f]
  <2>1. f \in Flags /\ f \in crtc!Flags
    BY TwiceRouted, Routed
  <2>2. CASE flag = f
    <3>1. mode'[f] = on
      BY <1>1, <2>1, <2>2, TwiceRouted DEF SwitchInv
    <3>2. display'[f] = on
      BY <1>2, <2>1, <2>2, TwiceRouted DEF SwitchInv
    <3> QED BY <1>3, <2>2, <3>1, <3>2
  <2>3. CASE flag # f
    <3>1. mode'[f] = mode[f]
      BY <1>1, <2>1, <2>3 DEF SwitchInv
    <3>2. display'[f] = display[f]
      BY <1>2, <2>1, <2>3 DEF SwitchInv
    <3>3. f \in stale' <=> f \in stale
      BY <1>3, <2>3
    <3> QED BY <3>1, <3>2, <3>3 DEF SwitchInv, SwitchesAgree, Twice
  <2> QED BY <2>2, <2>3
<1> QED BY <1>4, <1>5 DEF SwitchInv, SwitchesAgree, Twice

LEMMA RestKeeps ==
  ASSUME SwitchInv,
         \/ UNCHANGED svars
         \/ \E flag \in Switches \cup DisplaySwitches : ReadSwitch(flag)
         \/ \E a \in Addresses : AccessMemory(a)
         \/ AccessCard
  PROVE  SwitchInv'
<1>1. mode' = mode /\ display' = display /\ stale' = stale
  BY DEF svars, hvars, displayVars, ReadSwitch, AccessMemory, AccessCard, AccessAddress,
         ReadStatus, WriteRAM, ReadRAM, ReadROM, WriteROM, Begin, Poll, Finish
<1> QED BY <1>1 DEF SwitchInv, SwitchesAgree

LEMMA ResetKeeps ==
  ASSUME SwitchInv, ResetMachine
  PROVE  SwitchInv'
<1>1. /\ mode' = [f \in Flags |-> FALSE]
      /\ display' = display
      /\ stale' = {flag \in Twice : display[flag]}
  BY DEF ResetMachine, Reset, crtc!ResetBeam, Twice
<1>2. Twice \subseteq Flags /\ Twice \subseteq crtc!Flags
  BY DEF Twice, Flags, crtc!Flags
<1>3. \A flag \in Twice : mode'[flag] = FALSE /\ display[flag] \in BOOLEAN
  BY <1>1, <1>2 DEF SwitchInv
<1>4. \A flag \in Twice : flag \in stale' => ~mode'[flag] /\ display'[flag]
  BY <1>1, <1>3
<1>5. \A flag \in Twice : flag \notin stale' => mode'[flag] = display'[flag]
  BY <1>1, <1>3, Zenon
<1>6. mode' \in [Flags -> BOOLEAN] /\ display' \in [crtc!Flags -> BOOLEAN]
  BY <1>1 DEF SwitchInv
<1>7. SwitchesAgree'
  BY <1>5 DEF SwitchesAgree, Twice
<1> QED BY <1>4, <1>6, <1>7 DEF SwitchInv

LEMMA SwitchInvHolds ==
  /\ SInit => SwitchInv
  /\ SwitchInv /\ [SNext]_svars => SwitchInv'
<1>1. SInit => SwitchInv
  BY DEF SInit, HInit, Init, crtc!BeamInit, crtc!PowerOnMode, SwitchInv, SwitchesAgree,
         Flags, crtc!Flags, Twice
<1>2. SwitchInv /\ [SNext]_svars => SwitchInv'
  BY FlipKeeps, RestKeeps, ResetKeeps DEF SNext, Steps
<1> QED BY <1>1, <1>2

(* apple2e_softswitches.go:119-151, apple2e_crtc.go:264-279: MMU and CRTC   *)
(* agree on 80STORE, PAGE2 and HIRES after every sequence of accesses, but  *)
(* for the switches set at the last reset and not written since.            *)
THEOREM CopiesAgree == SSpec => []SwitchesAgree
<1>1. SwitchInv => SwitchesAgree
  BY DEF SwitchInv
<1> QED BY <1>1, SwitchInvHolds, PTL DEF SSpec

-----------------------------------------------------------------------------
(* Under 80STORE the bank is PAGE2's and the page shown is the first.      *)
LEMMA StoreWrites ==
  ASSUME SwitchInv, NEW area \in StoreAreas, WriteRAM(area), mode.Store80, ~pending,
         area = "hires" => mode.HiRes,
         area = "text" <=> video.render # "hires"
  PROVE  video.render = "text80" \/ ~mode.Page2 <=> Shown(area, bus'.from)
<1>1. display.Store80 /\ mode.Page2 \in BOOLEAN
  BY DEF SwitchInv, SwitchesAgree, Flags, Twice
<1>2. crtc!DisplayPage(display) = 0
  BY <1>1 DEF crtc!DisplayPage
<1>3. AuxWrite(area) = mode.Page2
  BY <1>1 DEF AuxWrite, UsesAux, StoreAreas
<1>4. bus'.from = IF mode.Page2 THEN "aux" ELSE "main"
  BY <1>3 DEF WriteRAM, Access, Redirected
<1> QED BY <1>1, <1>2, <1>4 DEF Shown, StoreAreas

(* apple2e_softswitches.go:119-151, apple2e_mmu.go:400-434, apple2e_crtc.go *)
(* :855-863: what a program stores under 80STORE is on the screen, always   *)
(* in 80-column text and with PAGE2 off otherwise, also after a reset.      *)
THEOREM StoresAreShown == SSpec => StoredIsShown
<1>1. SwitchInv /\ [SNext]_svars =>
        [\A area \in StoreAreas :
           /\ WriteRAM(area)
           /\ mode.Store80 /\ ~pending
           /\ area = "hires" => mode.HiRes
           /\ area = "text" <=> video.render # "hires"
           => (video.render = "text80" \/ ~mode.Page2 <=> Shown(area, bus'.from))]_svars
  BY StoreWrites
<1> QED BY <1>1, SwitchInvHolds, PTL DEF SSpec, StoredIsShown

=============================================================================
