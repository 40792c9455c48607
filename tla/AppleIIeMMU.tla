----------------------------- MODULE AppleIIeMMU -----------------------------
(***************************************************************************)
(* The Apple IIe memory management unit (memory/apple2e_mmu.go) with the   *)
(* 80-column card that arms it (peripheral/apple2e_80col_card.go).  One    *)
(* action is one bus access of the CPU.  The bytes are abstracted to where *)
(* they live: main RAM, auxiliary RAM, the internal ROM or a slot's ROM;   *)
(* addresses to the areas the decoding tells apart.                        *)
(***************************************************************************)
EXTENDS Naturals

CONSTANTS
  Page,         \* bytes in a slot's page, 256 in the code
  SlotROM,      \* the length of each slot's ROM, 0 when it has none
  RomLoaded,    \* the addresses above $C000 that the loaded ROM images cover
  Switches,     \* the memory switches the program of the instance writes
  Addresses     \* the addresses it reads and writes

Slots == 1 .. 7

Flags ==
  { "RAMReadAux", "RAMWriteAux", "AltZeroPage", "InternalCxROM",
    "SlotC3ROM", "Store80", "Page2", "HiRes" }

(* The flags with a status address in $C013-$C018. *)
StatusFlags == Flags \ {"Page2", "HiRes"}

(* $0000-$01FF, $0400-$07FF, $2000-$3FFF, and the rest below $C000. *)
RAMAreas == {"zero", "text", "hires", "plain"}
Banked   == RAMAreas \ {"zero"}

(* $Cs00-$CsFF, $C800-$CFFE, $CFFF, and the rest from $C000 up. *)
Address ==
  [area : RAMAreas \cup {"last", "rom"}, slot : {0}, off : {0}]
    \cup [area : {"slot"}, slot : Slots, off : 0 .. Page - 1]
    \cup [area : {"expansion"}, slot : {0}, off : 0 .. 8 * Page - 2]

ROMAddress == {a \in Address : a.area \notin RAMAreas}

CardRegisters == {"begin", "poll", "finish"}   \* $C0B4, $C0B2, $C0B6

ASSUME PageAssumption == Page \in Nat \ {0}
ASSUME SlotROMAssumption == SlotROM \in [Slots -> 0 .. 9 * Page]
ASSUME RomLoadedAssumption == RomLoaded \subseteq ROMAddress
ASSUME ProgramAssumption == Switches \subseteq Flags /\ Addresses \subseteq Address

VARIABLES
  mode,         \* AppleIIeMemoryMode
  activeSlot,   \* the slot whose ROM the expansion window shows, 0 for none
  pending,      \* appleIIeAuxAccessOverride.pending
  handshakeHi,  \* the card: the next poll answers $80
  bus           \* the last bus access and what answered it

vars == <<mode, activeSlot, pending, handshakeHi, bus>>

-----------------------------------------------------------------------------
(* A slip: RAMRD and RAMWRT reach the text page under 80STORE too. *)
UsesAuxTextBanked(area, plainBank) ==
  CASE area = "zero"                                    -> mode.AltZeroPage
    [] area = "hires" /\ mode.Store80 /\ mode.HiRes     -> mode.Page2
    [] OTHER                                            -> plainBank

(* Which bank a RAM access without the card's override uses; PlainBank is  *)
(* RAMReadAux for a read, RAMWriteAux for a write.                         *)
UsesAux(area, plainBank) ==
  CASE area = "zero"                                    -> mode.AltZeroPage
    [] area = "text" /\ mode.Store80                    -> mode.Page2
    [] area = "hires" /\ mode.Store80 /\ mode.HiRes     -> mode.Page2
    [] OTHER                                            -> plainBank

AuxRead(area)  == UsesAux(area, mode.RAMReadAux)
AuxWrite(area) == UsesAux(area, mode.RAMWriteAux)

(* A slip: the override also takes the zero page and the stack. *)
RedirectedAnywhere(area) == pending

(* consumeAuxAccessOverride: only accesses to $0200-$BFFF are redirected. *)
Redirected(area) == pending /\ area \in Banked

-----------------------------------------------------------------------------
(* A slip: an empty slot is selected. *)
SlotShownEmpty(a) ==
  /\ a.area = "slot"
  /\ ~mode.InternalCxROM
  /\ a.slot = 3 => mode.SlotC3ROM

(* readSlotROM: slot s's page is decoded by the card, and selects it. *)
SlotShown(a) ==
  /\ a.area = "slot"
  /\ ~mode.InternalCxROM
  /\ a.slot = 3 => mode.SlotC3ROM
  /\ SlotROM[a.slot] > 0

(* readInternalROM: a read of the internal $C3xx firmware. *)
InternalC3(a) ==
  /\ a.area = "slot"
  /\ a.slot = 3
  /\ a \in RomLoaded
  /\ mode.InternalCxROM \/ ~mode.SlotC3ROM

(* A slip: the internal firmware leaves the last card selected. *)
ActiveAfterFirmware(a) ==
  CASE SlotShown(a)    -> a.slot
    [] a.area = "last" -> 0
    [] OTHER           -> activeSlot

ActiveAfter(a) ==
  CASE SlotShown(a)                    -> a.slot
    [] a.area = "last" \/ InternalC3(a) -> 0
    [] OTHER                           -> activeSlot

(* A slip: the expansion window begins with the page's last byte. *)
ROMOffsetEarly(s, a) ==
  CASE SlotShown(a)                                           -> a.off
    [] a.area = "expansion" /\ SlotROM[s] > Page              -> Page + a.off - 1
    [] a.area = "expansion" /\ SlotROM[s] <= Page /\ s = 3    -> a.off % Page
    [] OTHER                                                  -> SlotROM[s]

(* The address a's place in slot s's ROM: its page from the start, the      *)
(* expansion window behind it, or, for slot 3 alone, its page mirrored;    *)
(* elsewhere none, which is behind the ROM's end.                          *)
ROMOffset(s, a) ==
  CASE SlotShown(a)                                           -> a.off
    [] a.area = "expansion" /\ SlotROM[s] > Page              -> Page + a.off
    [] a.area = "expansion" /\ SlotROM[s] <= Page /\ s = 3    -> a.off % Page
    [] OTHER                                                  -> SlotROM[s]

CardSupplies(a) ==
  /\ ~mode.InternalCxROM
  /\ ActiveAfter(a) # 0
  /\ ROMOffset(ActiveAfter(a), a) < SlotROM[ActiveAfter(a)]

-----------------------------------------------------------------------------
Quiet ==
  [op |-> "none", area |-> "none", slot |-> 0, from |-> "none", off |-> 0, high |-> FALSE]

(* The access op at area, answered by from (slot's card when it is "card"; *)
(* a ROM's byte is the one at off).                                        *)
Access(op, area, from, slot) ==
  [op |-> op, area |-> area, slot |-> slot, from |-> from, off |-> 0, high |-> FALSE]

Init ==
  /\ mode = [f \in Flags |-> FALSE]
  /\ activeSlot = 0
  /\ pending = FALSE
  /\ handshakeHi = FALSE
  /\ bus = Quiet

(* Reset of the MMU.  The card is no clocked component and keeps its state. *)
Reset ==
  /\ mode' = [f \in Flags |-> FALSE]
  /\ activeSlot' = 0
  /\ pending' = FALSE
  /\ bus' = Quiet
  /\ UNCHANGED handshakeHi

(* A write of $C000-$C00B, or a read or write of $C054-$C057. *)
WriteSwitch(flag, on) ==
  /\ mode' = [mode EXCEPT ![flag] = on]
  /\ bus' = Access("switch", flag, "mode", 0)
  /\ UNCHANGED <<activeSlot, pending, handshakeHi>>

(* A read of $C013-$C018. *)
ReadStatus(flag) ==
  /\ flag \in StatusFlags
  /\ bus' = [Access("status", flag, "mode", 0) EXCEPT !.high = mode[flag]]
  /\ UNCHANGED <<mode, activeSlot, pending, handshakeHi>>

ReadRAM(area) ==
  /\ pending' = (pending /\ ~Redirected(area))
  /\ bus' = Access("read", area,
                   IF Redirected(area) \/ AuxRead(area) THEN "aux" ELSE "main", 0)
  /\ UNCHANGED <<mode, activeSlot, handshakeHi>>

WriteRAM(area) ==
  /\ pending' = (pending /\ ~Redirected(area))
  /\ bus' = Access("write", area,
                   IF Redirected(area) \/ AuxWrite(area) THEN "aux" ELSE "main", 0)
  /\ UNCHANGED <<mode, activeSlot, handshakeHi>>

(* A read from $C000 up.  Without a card or a ROM image the byte is main's. *)
ReadROM(a) ==
  /\ activeSlot' = ActiveAfter(a)
  /\ bus' = IF CardSupplies(a)
              THEN [Access("read", a.area, "card", activeSlot') EXCEPT !.off = ROMOffset(activeSlot', a)]
              ELSE Access("read", a.area, IF a \in RomLoaded THEN "internal" ELSE "main", a.slot)
  /\ UNCHANGED <<mode, pending, handshakeHi>>

(* A write from $C000 up that is no switch lands in main, under the ROM. *)
WriteROM(a) ==
  /\ bus' = Access("write", a.area, "main", a.slot)
  /\ UNCHANGED <<mode, activeSlot, pending, handshakeHi>>

(* The card's registers; a write of one does what a read does. *)
Begin ==
  /\ handshakeHi' = FALSE
  /\ pending' = FALSE
  /\ bus' = Access("card", "begin", "card", 3)
  /\ UNCHANGED <<mode, activeSlot>>

Poll ==
  /\ handshakeHi' = ~handshakeHi
  /\ pending' = (pending \/ handshakeHi)
  /\ bus' = [Access("card", "poll", "card", 3) EXCEPT !.high = handshakeHi]
  /\ UNCHANGED <<mode, activeSlot>>

Finish ==
  /\ pending' = FALSE
  /\ bus' = Access("card", "finish", "card", 3)
  /\ UNCHANGED <<mode, activeSlot, handshakeHi>>

AccessAddress(a) ==
  IF a.area \in RAMAreas
    THEN ReadRAM(a.area) \/ WriteRAM(a.area)
    ELSE ReadROM(a) \/ WriteROM(a)

Next ==
  \/ Reset
  \/ \E flag \in Switches, on \in BOOLEAN : WriteSwitch(flag, on)
  \/ \E flag \in Switches : ReadStatus(flag)
  \/ \E a \in Addresses : AccessAddress(a)
  \/ Begin
  \/ Poll
  \/ Finish

Spec == Init /\ [][Next]_vars

-----------------------------------------------------------------------------
Accesses ==
  [ op   : {"none", "switch", "status", "read", "write", "card"},
    area : RAMAreas \cup {"slot", "expansion", "last", "rom", "none"}
             \cup Flags \cup CardRegisters,
    slot : 0 .. 7,
    from : {"none", "mode", "aux", "main", "card", "internal"},
    off  : 0 .. 9 * Page - 1,
    high : BOOLEAN ]

(* Every flag, the selected slot and the last access stay in their types; *)
(* only a slot with a ROM is ever selected.                               *)
TypeOK ==
  /\ mode \in [Flags -> BOOLEAN]
  /\ activeSlot \in {0} \cup {s \in Slots : SlotROM[s] > 0}
  /\ pending \in BOOLEAN
  /\ handshakeHi \in BOOLEAN
  /\ bus \in Accesses

=============================================================================
