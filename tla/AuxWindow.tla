------------------------------ MODULE AuxWindow ------------------------------
(***************************************************************************)
(* What the 80-column card promises a program, in terms of what the        *)
(* program itself sees on the bus.  A transfer begins closed; polls answer *)
(* 0 and $80 in turn; the $80 opens a window on auxiliary memory that      *)
(* lasts for exactly one access to a byte of $0200-$BFFF, however many     *)
(* zero page, stack, switch and ROM accesses come first, or until the      *)
(* transfer is begun again or finished.                                    *)
(***************************************************************************)
VARIABLES
  ready,        \* the next poll answers $80
  open,         \* the next access to $0200-$BFFF goes to auxiliary memory
  bus           \* the last access and its answer

vars == <<ready, open, bus>>

Banked == {"plain", "text", "hires"}

Register(name) == bus'.op = "card" /\ bus'.area = name

Transfer(area) == bus'.op \in {"read", "write"} /\ bus'.area = area

Init == ~ready /\ ~open /\ bus.op = "none"

Restart == bus'.op = "none" /\ ~open' /\ UNCHANGED ready

BeginTransfer == Register("begin") /\ ~ready' /\ ~open'

PollLow == Register("poll") /\ ~ready /\ ~bus'.high /\ ready' /\ UNCHANGED open

PollHigh == Register("poll") /\ ready /\ bus'.high /\ ~ready' /\ open'

FinishTransfer == Register("finish") /\ ~open' /\ UNCHANGED ready

UseWindow ==
  /\ open
  /\ \E area \in Banked : Transfer(area)
  /\ bus'.from = "aux"
  /\ ~open'
  /\ UNCHANGED ready

(* A closed window stays closed, an open one survives what it is not for. *)
OtherAccess ==
  /\ bus'.op \notin {"none", "card"}
  /\ open => \A area \in Banked : ~Transfer(area)
  /\ UNCHANGED <<ready, open>>

Next ==
  \/ Restart \/ BeginTransfer \/ PollLow \/ PollHigh
  \/ FinishTransfer \/ UseWindow \/ OtherAccess

Spec == Init /\ [][Next]_vars

=============================================================================
