----------------------------- MODULE Motherboard -----------------------------
(***************************************************************************)
(* The motherboard (emulator/motherboard.go): Step ticks every component   *)
(* on a goroutine of its own and joins them; Reset and Close walk over the *)
(* components one after the other; Run steps until it is cancelled or a    *)
(* step fails.  One action is one thing another goroutine can tell apart.  *)
(* Components are attached before the machine runs.                        *)
(***************************************************************************)
EXTENDS Naturals, Sequences, FiniteSets

CONSTANTS
  components,  \* the components attached, in order
  MaxCycle     \* the bound of an instance on the cycle counter

Component == {components[i] : i \in DOMAIN components}

ASSUME ComponentsAssumption ==
  /\ components \in Seq(Component)
  /\ Cardinality(Component) = Len(components)
ASSUME MaxCycleAssumption == MaxCycle \in Nat

VARIABLES
  cycle,      \* m.cycle
  call,       \* the call under way
  ticking,    \* of each component: its goroutine's place in a Step
  errCh,      \* the errors the goroutines of a Step have sent
  position,   \* the component that Reset or Close has come to
  errs,       \* the components whose Close failed
  result,     \* the errors that the last call returned
  running,    \* Run is calling Step
  cancelled   \* ctx.Done() is closed

vars == <<cycle, call, ticking, errCh, position, errs, result, running, cancelled>>

stepVars == <<ticking, errCh>>
walkVars == <<position, errs>>
runVars  == <<running, cancelled>>

-----------------------------------------------------------------------------
(* Step: one goroutine for each component. *)
BeginStep ==
  /\ cycle < MaxCycle
  /\ call' = "step"
  /\ ticking' = [c \in Component |-> "called"]
  /\ errCh' = {}

Step ==
  /\ call = "idle"
  /\ BeginStep
  /\ UNCHANGED <<cycle, walkVars, result, runVars>>

TickSucceeds(c) ==
  /\ ticking[c] = "called"
  /\ ticking' = [ticking EXCEPT ![c] = "done"]
  /\ UNCHANGED <<cycle, call, errCh, walkVars, result, runVars>>

TickFails(c) ==
  /\ ticking[c] = "called"
  /\ ticking' = [ticking EXCEPT ![c] = "sending"]
  /\ UNCHANGED <<cycle, call, errCh, walkVars, result, runVars>>

(* Slips: room for one error; the join stops waiting at the first error. *)
CapacityOne == 1
JoinedOrFailed == errCh # {} \/ \A c \in Component : ticking[c] = "done"

Capacity == Len(components)

(* wg.Wait. *)
Joined == \A c \in Component : ticking[c] = "done"

(* A goroutine sends its error to the buffered channel, which nobody reads *)
(* before the join, and is done.                                           *)
SendError(c) ==
  /\ ticking[c] = "sending"
  /\ Cardinality(errCh) < Capacity
  /\ errCh' = errCh \cup {c}
  /\ ticking' = [ticking EXCEPT ![c] = "done"]
  /\ UNCHANGED <<cycle, call, walkVars, result, runVars>>

(* The cycle is counted also when a component failed; Run ends then. *)
EndStep ==
  /\ call = "step"
  /\ Joined
  /\ cycle' = cycle + 1
  /\ result' = errCh
  /\ running' = (running /\ errCh = {})
  /\ call' = IF running' THEN "select" ELSE "idle"
  /\ UNCHANGED <<stepVars, walkVars, cancelled>>

-----------------------------------------------------------------------------
(* Run: a select between ctx.Done and the ticker. *)
Run ==
  /\ call = "idle"
  /\ call' = "select"
  /\ running' = TRUE
  /\ UNCHANGED <<cycle, stepVars, walkVars, result, cancelled>>

RunTicks ==
  /\ call = "select"
  /\ BeginStep
  /\ UNCHANGED <<cycle, walkVars, result, runVars>>

RunCancelled ==
  /\ call = "select"
  /\ cancelled
  /\ call' = "idle"
  /\ running' = FALSE
  /\ UNCHANGED <<cycle, stepVars, walkVars, result, cancelled>>

Cancel ==
  /\ ~cancelled
  /\ cancelled' = TRUE
  /\ UNCHANGED <<cycle, call, stepVars, walkVars, result, running>>

-----------------------------------------------------------------------------
(* Reset and Close start at the first component. *)
Walk(name) ==
  /\ call = "idle"
  /\ call' = name
  /\ position' = 1
  /\ errs' = {}
  /\ UNCHANGED <<cycle, stepVars, result, runVars>>

Reset == Walk("reset")
Close == Walk("close")

ResetNext ==
  /\ call = "reset"
  /\ position <= Len(components)
  /\ position' = position + 1
  /\ UNCHANGED <<cycle, call, stepVars, errs, result, runVars>>

(* A slip: a failed Reset clears the cycle counter too. *)
ResetFailsAtZero ==
  /\ call = "reset"
  /\ position <= Len(components)
  /\ call' = "idle"
  /\ cycle' = 0
  /\ result' = {components[position]}
  /\ UNCHANGED <<stepVars, walkVars, runVars>>

(* The first failure ends Reset, before the cycle counter is cleared. *)
ResetFails ==
  /\ call = "reset"
  /\ position <= Len(components)
  /\ call' = "idle"
  /\ result' = {components[position]}
  /\ UNCHANGED <<cycle, stepVars, walkVars, runVars>>

ResetEnds ==
  /\ call = "reset"
  /\ position > Len(components)
  /\ call' = "idle"
  /\ cycle' = 0
  /\ result' = {}
  /\ UNCHANGED <<stepVars, walkVars, runVars>>

(* A slip: Close stops at the first error. *)
CloseNextOrStop ==
  /\ call = "close"
  /\ position <= Len(components)
  /\ \/ position' = position + 1 /\ errs' = errs
     \/ position' = Len(components) + 1 /\ errs' = {components[position]}
  /\ UNCHANGED <<cycle, call, stepVars, result, runVars>>

CloseNext ==
  /\ call = "close"
  /\ position <= Len(components)
  /\ position' = position + 1
  /\ \E failed \in {{}, {components[position]}} : errs' = errs \cup failed
  /\ UNCHANGED <<cycle, call, stepVars, result, runVars>>

CloseEnds ==
  /\ call = "close"
  /\ position > Len(components)
  /\ call' = "idle"
  /\ result' = errs
  /\ UNCHANGED <<cycle, stepVars, walkVars, runVars>>

-----------------------------------------------------------------------------
Init ==
  /\ cycle = 0
  /\ call = "idle"
  /\ ticking = [c \in Component |-> "done"]
  /\ errCh = {}
  /\ position = 1
  /\ errs = {}
  /\ result = {}
  /\ running = FALSE
  /\ cancelled = FALSE

Goroutine(c) == TickSucceeds(c) \/ TickFails(c) \/ SendError(c)
Stepping == Step \/ EndStep \/ Run \/ RunTicks \/ RunCancelled
Walking  == Reset \/ ResetNext \/ ResetFails \/ ResetEnds \/ Close \/ CloseNext \/ CloseEnds

Next == Stepping \/ Walking \/ Cancel \/ \E c \in Component : Goroutine(c)

Spec == Init /\ [][Next]_vars

=============================================================================
