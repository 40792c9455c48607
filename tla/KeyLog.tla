------------------------------- MODULE KeyLog -------------------------------
(***************************************************************************)
(* What the keyboard promises a program: the keys typed since the reset    *)
(* form a log, a cursor counts the acknowledged ones, and a read shows the *)
(* first key behind the cursor with bit 7 set, or, when there is none, the *)
(* last key of the log with bit 7 clear.                                   *)
(***************************************************************************)
EXTENDS Integers, Sequences

VARIABLES
  typed,        \* every key accepted since the reset, in order
  acks,         \* how many of them were acknowledged
  seen          \* the byte the last read returned

vars == <<typed, acks, seen>>

Pending == acks < Len(typed)

Shown ==
  CASE Pending                     -> typed[acks + 1] + 128
    [] ~Pending /\ typed # << >>   -> typed[Len(typed)]
    [] ~Pending /\ typed = << >>   -> 0

Init == typed = << >> /\ acks = 0 /\ seen = 0

Restart == typed' = << >> /\ acks' = 0 /\ UNCHANGED seen

Type(key) == typed' = Append(typed, key) /\ UNCHANGED <<acks, seen>>

Look == seen' = Shown /\ UNCHANGED <<typed, acks>>

Acknowledged == acks' = IF Pending THEN acks + 1 ELSE acks

Acknowledge == Acknowledged /\ UNCHANGED <<typed, seen>>

LookAndAcknowledge == seen' = Shown /\ Acknowledged /\ UNCHANGED typed

Next ==
  \/ Restart
  \/ \E key \in 0 .. 127 : Type(key)
  \/ Look
  \/ Acknowledge
  \/ LookAndAcknowledge

Spec == Init /\ [][Next]_vars

=============================================================================
