------------------------------ MODULE MCMemory ------------------------------
(* Pages of two bytes.  Slot 1 has a page and an expansion ROM, slot 2 a    *)
(* page alone, slot 3 one byte that is mirrored and ends inside the page,   *)
(* slot 5 a ROM that ends inside the expansion window; slot 4 is empty.     *)
(* The internal ROM covers everything but one expansion byte.  One of three *)
(* programs runs: one banks the RAM, one the ROMs, one draws.  All use the  *)
(* card.                                                                    *)
EXTENDS SoftSwitches

VARIABLE program

MCPage    == 2
MCSlotROM == [s \in Slots |-> CASE s = 1 -> 9 * MCPage [] s = 2 -> MCPage
                                [] s = 3 -> 1 [] s = 5 -> MCPage + 3 [] OTHER -> 0]

SlotAddress(s, o)   == [area |-> "slot", slot |-> s, off |-> o]
WindowAddress(o)    == [area |-> "expansion", slot |-> 0, off |-> o]
PlainAddress(area)  == [area |-> area, slot |-> 0, off |-> 0]

MCRomLoaded == {a \in ROMAddress : a # WindowAddress(5)}

SwitchesOf ==
  [ ram    |-> Flags \ {"InternalCxROM", "SlotC3ROM"},
    rom    |-> {"InternalCxROM", "SlotC3ROM"},
    screen |-> {"Store80", "Page2", "HiRes", "RAMWriteAux", "Text", "Columns80", "Mixed"} ]

AddressesOf ==
  [ ram    |-> {PlainAddress(area) : area \in RAMAreas \cup {"rom"}},
    rom    |-> {SlotAddress(s, o) : s \in 1 .. 5, o \in 0 .. 1}
                 \cup {WindowAddress(o) : o \in {0, 2, 5}}
                 \cup {PlainAddress(area) : area \in {"zero", "plain", "last", "rom"}},
    screen |-> {PlainAddress(area) : area \in StoreAreas} ]

MCSwitches        == Flags
MCDisplaySwitches == {"Text", "Columns80", "Mixed"}
MCAddresses       == UNION {AddressesOf[p] : p \in DOMAIN AddressesOf}

MCInit == SInit /\ program \in DOMAIN SwitchesOf

MCNext ==
  /\ Steps(SwitchesOf[program], AddressesOf[program])
  /\ UNCHANGED program

MCSpec == MCInit /\ [][MCNext]_<<svars, program>>
=============================================================================
