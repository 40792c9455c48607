---------------------------- MODULE SoftSwitches ----------------------------
(***************************************************************************)
(* The soft switches (peripheral/apple2e_softswitches.go) over the MMU of  *)
(* AppleIIeMMU and the display of CRTCBeam: every access of the program to *)
(* either, and the machine's reset.  Three switches are kept by both.  No  *)
(* component returns an error for an address that is routed to it.         *)
(***************************************************************************)
EXTENDS AppleIIeMMUHistory

CONSTANTS
  HorizontalTotal, MaxRaster, Rows,   \* of the CRTC
  DisplaySwitches                     \* the switches of the CRTC alone the program uses

VARIABLES
  display, video, width, beam,   \* the CRTC
  stale      \* the switches both keep that were set in the CRTC at a reset
             \*   and have not been written since

displayVars == <<display, video, width, beam>>
svars       == <<hvars, displayVars, stale>>

crtc == INSTANCE CRTCBeam WITH mode <- display, Switches <- DisplaySwitches

ASSUME DisplaySwitchesAssumption ==
  DisplaySwitches \subseteq crtc!Flags \ (Flags \cup {"DoubleWidth"})

-----------------------------------------------------------------------------
(* A slip: 80STORE is not passed on to the CRTC. *)
WithoutStore == {"Page2", "HiRes"}

(* The inner switch of Write: what is written to the CRTC after the MMU. *)
Shared == {"Store80", "Page2", "HiRes"}

ToMemory  == Flags
ToDisplay == (crtc!Flags \ (Flags \cup {"DoubleWidth"})) \cup Shared

(* The history of AppleIIeMMUHistory follows an access that reaches the MMU. *)
Seen == selected' = Selection /\ textBank' = WrittenBank

(* A write of a switch; a read of $C00C, $C00D or $C050-$C057 does the same *)
(* before it is answered.                                                  *)
Flip(flag, on) ==
  /\ IF flag \in ToMemory THEN WriteSwitch(flag, on) /\ Seen ELSE UNCHANGED hvars
  /\ IF flag \in ToDisplay THEN crtc!Write(flag, on) ELSE UNCHANGED displayVars
  /\ stale' = stale \ {flag}

(* $C013-$C018 are answered by the MMU; $C019-$C01F by the CRTC, which      *)
(* changes nothing.                                                        *)
ReadSwitch(flag) ==
  /\ ReadStatus(flag)
  /\ Seen
  /\ UNCHANGED <<displayVars, stale>>

AccessMemory(a) ==
  /\ AccessAddress(a)
  /\ Seen
  /\ UNCHANGED <<displayVars, stale>>

AccessCard ==
  /\ Begin \/ Poll \/ Finish
  /\ Seen
  /\ UNCHANGED <<displayVars, stale>>

(* Motherboard.Reset: the MMU forgets its switches, the CRTC keeps its own. *)
ResetMachine ==
  /\ Reset
  /\ Seen
  /\ crtc!ResetBeam
  /\ stale' = {flag \in {"Store80", "Page2", "HiRes"} : display[flag]}

SInit ==
  /\ HInit
  /\ crtc!BeamInit
  /\ stale = {}

Steps(switches, addresses) ==
  \/ \E flag \in switches, on \in BOOLEAN : Flip(flag, on)
  \/ \E flag \in switches : ReadSwitch(flag)
  \/ \E a \in addresses : AccessMemory(a)
  \/ AccessCard
  \/ ResetMachine

SNext == Steps(Switches \cup DisplaySwitches, Addresses)

SSpec == SInit /\ [][SNext]_svars

-----------------------------------------------------------------------------
(* The text and high-resolution pages that 80STORE banks. *)
StoreAreas == {"text", "hires"}

(* What the CRTC draws from the page at $0400 or $2000. *)
Shown(area, bank) ==
  /\ crtc!DisplayPage(display) = 0
  /\ \/ area = "text" /\ video.render # "hires"
     \/ area = "hires" /\ video.render = "hires"
  /\ bank = "main" \/ video.render = "text80"

(* The MMU and the CRTC each keep 80STORE, PAGE2 and HIRES, the MMU to     *)
(* bank the CPU's accesses, the CRTC to choose what it draws: lines 119-151 *)
(* keep the two copies equal.  A reset sets the MMU's back and leaves the   *)
(* CRTC's (apple2e_crtc.go:264-279): they differ until the program writes   *)
(* the switch, and only for switches that were set at the reset.           *)
SwitchesAgree ==
  \A flag \in {"Store80", "Page2", "HiRes"} \ stale : mode[flag] = display[flag]

(* A program that draws under 80STORE sees what it writes: the 80-column   *)
(* text page always, the other displays while PAGE2 is off.  Two components *)
(* decide this, also after a reset that left their copies different: the   *)
(* MMU where the byte goes, the CRTC what is drawn.                        *)
StoredIsShown ==
  [][\A area \in StoreAreas :
       /\ WriteRAM(area)
       /\ mode.Store80 /\ ~pending
       /\ area = "hires" => mode.HiRes
       /\ area = "text" <=> video.render # "hires"
       => (video.render = "text80" \/ ~mode.Page2 <=> Shown(area, bus'.from))]_svars
=============================================================================
