-------------------------------- MODULE Bus ---------------------------------
(***************************************************************************)
(* The bus (emulator/bus.go): devices mapped to ranges of addresses, the   *)
(* narrowest range that holds an address, and among equals the last one    *)
(* mapped; and the map that the program makes of it (cmd/emuai/main.go).   *)
(***************************************************************************)
EXTENDS Integers, Sequences

Last      == 65535
Addresses == 0 .. Last

(* The devices of the program. *)
Devices == {"mmu", "switches", "card"}

Mapping(start, end, device) == [start |-> start, end |-> end, device |-> device]

Covers(m, addr) == m.start <= addr /\ addr <= m.end
Span(m)         == m.end - m.start

MapDevice(mappings, m) == IF m.end < m.start THEN mappings ELSE Append(mappings, m)

-----------------------------------------------------------------------------
(* The mappings that hold an address, by their index. *)
Candidates(mappings, addr) == {i \in DOMAIN mappings : Covers(mappings[i], addr)}

(* findMapping, which goes from the last mapping to the first and keeps    *)
(* what it has unless the next one is narrower.                            *)
Preferred(mappings, i, j) ==
  \/ Span(mappings[i]) < Span(mappings[j])
  \/ Span(mappings[i]) = Span(mappings[j]) /\ i >= j

FindMapping(mappings, addr) ==
  CHOOSE i \in Candidates(mappings, addr) :
    \A j \in Candidates(mappings, addr) : Preferred(mappings, i, j)

(* The device of an address; without one Read and Write fail. *)
DeviceAt(mappings, addr) ==
  IF Candidates(mappings, addr) = {} THEN "none"
  ELSE mappings[FindMapping(mappings, addr)].device

(* ReadWord reads an address and the one behind it, modulo uint16. *)
WordAddresses(addr) == <<addr, (addr + 1) % 65536>>

-----------------------------------------------------------------------------
(* $0000-$FFFF; $C000-$C01F, $C030-$C03F and $C050-$C05F; $C0B0-$C0BF. *)
Memory        == Mapping(0, Last, "mmu")
Keys          == Mapping(49152, 49183, "switches")
Speaker       == Mapping(49200, 49215, "switches")
Video         == Mapping(49232, 49247, "switches")
Columns80Card == Mapping(49328, 49343, "card")

AppleIIeMap == <<Memory, Keys, Speaker, Video, Columns80Card>>
=============================================================================
