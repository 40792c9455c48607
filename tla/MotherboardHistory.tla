------------------------- MODULE MotherboardHistory -------------------------
(* The motherboard with the age and the end of every component, and the    *)
(* proof obligation that it moves them in lockstep.                        *)
EXTENDS Motherboard

VARIABLES
  age,      \* of each component: its ticks since it was reset
  fresh,    \* the components reset since the last Step ended
  partial,  \* a Reset has failed since the last that did not
  closed    \* of each component: how often the Close under way closed it

hvars == <<vars, age, fresh, partial, closed>>

HInit ==
  /\ Init
  /\ age = [c \in Component |-> 0]
  /\ fresh = {}
  /\ partial = FALSE
  /\ closed = [c \in Component |-> 0]

(* A Tick has had its effect when it returns. *)
HTick(c) ==
  /\ TickSucceeds(c) \/ TickFails(c)
  /\ age' = [age EXCEPT ![c] = @ + 1]
  /\ UNCHANGED <<fresh, partial, closed>>

HReset ==
  /\ ResetNext
  /\ age' = [age EXCEPT ![components[position]] = 0]
  /\ fresh' = fresh \cup {components[position]}
  /\ UNCHANGED <<partial, closed>>

HResetEnds ==
  /\ ResetFails \/ ResetEnds
  /\ partial' = (call = "reset" /\ position <= Len(components))
  /\ UNCHANGED <<age, fresh, closed>>

HEndStep ==
  /\ EndStep
  /\ fresh' = {}
  /\ UNCHANGED <<age, partial, closed>>

HClose ==
  /\ Close
  /\ closed' = [c \in Component |-> 0]
  /\ UNCHANGED <<age, fresh, partial>>

HCloseNext ==
  /\ CloseNext
  /\ closed' = [closed EXCEPT ![components[position]] = @ + 1]
  /\ UNCHANGED <<age, fresh, partial>>

HSend(c) ==
  /\ SendError(c)
  /\ UNCHANGED <<age, fresh, partial, closed>>

HOther ==
  /\ Step \/ Run \/ RunTicks \/ RunCancelled \/ Cancel \/ Reset \/ CloseEnds
  /\ UNCHANGED <<age, fresh, partial, closed>>

HControl ==
  \/ \E c \in Component : HSend(c)
  \/ HReset \/ HResetEnds \/ HEndStep \/ HClose \/ HCloseNext \/ HOther

HNext == HControl \/ \E c \in Component : HTick(c)

HSpec == HInit /\ [][HNext]_hvars

-----------------------------------------------------------------------------
(* A component's age at the last join: a Tick that has returned counts     *)
(* when all have.                                                          *)
Ticked(c) == call = "step" /\ ticking[c] # "called"

JoinedAge == [c \in Component |-> IF Ticked(c) THEN age[c] - 1 ELSE age[c]]

Lock == INSTANCE Lockstep WITH age <- JoinedAge

(* Step (lines 107-143): the goroutines of a Step, in whatever order they  *)
(* run and whichever fail, advance all components by one tick and the      *)
(* counter by one cycle, and no Tick of one cycle overlaps the next cycle. *)
ImplementsLockstep == Lock!Spec

(* Reset (lines 52-69) stops at the first error: until a Reset succeeds,   *)
(* components may be younger than the counter says, never older; without   *)
(* a failed Reset every age is the counter.                                *)
AgesMatchCycle ==
  call # "reset" =>
    \A c \in Component :
      /\ JoinedAge[c] <= cycle
      /\ ~partial => JoinedAge[c] = cycle

(* Close (lines 71-82) closes every component once, also after an error,   *)
(* and returns the errors it has collected on the way.                     *)
CloseReachesAll ==
  [][CloseEnds => /\ \A c \in Component : closed[c] = 1
                  /\ result' = errs]_hvars

(* A Step returns although all components fail at once: the channel has    *)
(* room for the error of each (line 112).                                  *)
StepsReturn == call = "step" ~> call # "step"
=============================================================================
