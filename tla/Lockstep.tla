------------------------------ MODULE Lockstep ------------------------------
(***************************************************************************)
(* What the motherboard promises: on every cycle all components advance    *)
(* together, and some of them may fail.  A component is reset on its own;  *)
(* the cycle counter is cleared only when all of them have been.           *)
(***************************************************************************)
EXTENDS Naturals

CONSTANT Component

VARIABLES
  cycle,   \* the cycle counter
  age,     \* of each component: its ticks since it was reset
  fresh    \* the components reset since the last tick

vars == <<cycle, age, fresh>>

Init ==
  /\ cycle = 0
  /\ age = [c \in Component |-> 0]
  /\ fresh = {}

Tick ==
  /\ cycle' = cycle + 1
  /\ age' = [c \in Component |-> age[c] + 1]
  /\ fresh' = {}

ResetOne(c) ==
  /\ age' = [age EXCEPT ![c] = 0]
  /\ fresh' = fresh \cup {c}
  /\ UNCHANGED cycle

Restart ==
  /\ fresh = Component
  /\ cycle' = 0
  /\ UNCHANGED <<age, fresh>>

Next == Tick \/ Restart \/ \E c \in Component : ResetOne(c)

Spec == Init /\ [][Next]_vars
=============================================================================
