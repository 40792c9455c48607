-------------------------- MODULE AppleIIeMMUHistory --------------------------
(***************************************************************************)
(* AppleIIeMMU with the history its promises are stated about.  Neither    *)
(* history variable is read by the unit's own actions.                     *)
(***************************************************************************)
EXTENDS AppleIIeMMU

VARIABLES
  selected,     \* the card whose page was read last, 0 after $CFFF or a read
                \*   of the internal $C3xx firmware
  textBank      \* the bank the last text-page write went to, "none" when
                \*   80STORE is off or PAGE2 may have changed since

hvars == <<mode, activeSlot, pending, handshakeHi, bus, selected, textBank>>

HInit == Init /\ selected = 0 /\ textBank = "none"

(* The card of a page that is read behind the end of its ROM: it is enabled, *)
(* and selected, though main or the internal ROM answers.                  *)
SilentCard ==
  /\ ~mode.InternalCxROM
  /\ bus'.slot = 3 => mode.SlotC3ROM
  /\ SlotROM[bus'.slot] \in 1 .. Page - 1

(* What a program that watches the bus concludes from the last access. *)
Selection ==
  CASE bus'.op = "none"                                   -> 0
    [] bus'.op = "read" /\ bus'.area = "last"             -> 0
    [] bus'.op = "read" /\ bus'.area = "slot"
         /\ (bus'.from = "card" \/ SilentCard)            -> bus'.slot
    [] bus'.op = "read" /\ bus'.area = "slot"
         /\ bus'.slot = 3 /\ bus'.from = "internal"
         /\ (mode.InternalCxROM \/ ~mode.SlotC3ROM)       -> 0
    [] OTHER                                              -> selected

WrittenBank ==
  CASE bus'.op = "none"                                   -> "none"
    [] bus'.op = "switch" /\ bus'.area \in {"Page2", "Store80"} -> "none"
    [] bus'.op = "write" /\ bus'.area = "text"
         /\ mode.Store80 /\ ~pending                      -> bus'.from
    [] OTHER                                              -> textBank

HNext == Next /\ selected' = Selection /\ textBank' = WrittenBank

HSpec == HInit /\ [][HNext]_hvars

-----------------------------------------------------------------------------
Window == INSTANCE AuxWindow WITH ready <- handshakeHi, open <- pending

(* apple2e_80col_card.go:34-62 and apple2e_mmu.go:436-445: the card and    *)
(* the unit together keep the promise of the auxiliary window; no switch,  *)
(* ROM read, pointer fetch or stack access in between uses it up, opens    *)
(* it, or lets it serve two accesses.                                      *)
ImplementsWindow == Window!Spec

(* apple2e_mmu.go:315-398: whatever the lengths of the ROMs, a byte of     *)
(* $C800-$CFFE comes from a card only if that card's page was the last to  *)
(* be read since $CFFF was read or the internal $C3xx firmware ran, so two *)
(* cards never fight for the window; and it is a byte of that card's ROM,  *)
(* behind its page, or of slot 3's page when its ROM is no longer.         *)
ExpansionFollowsSelection ==
  bus.op = "read" /\ bus.area = "expansion" /\ bus.from = "card" =>
    /\ bus.slot = selected
    /\ bus.off < SlotROM[selected]
    /\ bus.off >= Page \/ (selected = 3 /\ SlotROM[selected] <= Page)

(* apple2e_mmu.go:400-434: under 80STORE a text byte is read back from the *)
(* bank it was written to until 80STORE or PAGE2 is written, whatever the  *)
(* RAMRD and RAMWRT switches did in between.                               *)
TextReadBack ==
  [][ /\ textBank # "none"
      /\ bus'.op = "read" /\ bus'.area = "text"
      /\ ~pending
      => bus'.from = textBank ]_hvars

=============================================================================
