------------------------------ MODULE MCMachine ------------------------------
(* Three components, in one of three scenes: the machine is controlled and  *)
(* nothing is drawn; or it steps, the program writes switches, the CRTC      *)
(* draws, from several modes that the program may have set before, and the  *)
(* third component may fail; or it steps on for longer with the trace, in   *)
(* one mode, and is reset.  Close is called too, so that no state is the    *)
(* last.                                                                    *)
EXTENDS TracedMachine, TLC

CONSTANTS cpu, video0, sound

CONSTANTS
  UntracedCycles,   \* the bound on the cycle counter without the trace
  MaxTraced         \* the bound on the instructions traced

VARIABLE scene

Three == <<cpu, video0, sound>>
Drawn == {"Text", "HiRes", "Mixed", "Page2"}

MCInit ==
  /\ TInit
  /\ \A flag \in Flags \ {"Text", "HiRes", "Mixed"} : ~mode[flag]
  /\ scene \in {"control", "draw", "trace"}
  /\ scene # "draw" => mode = PowerOnMode
  /\ traceOn <=> scene = "trace"

Stepping3(calls) ==
  /\ call' \in calls /\ ~cancelled'
  /\ \A c \in {cpu, video0} : ticking'[c] # "sending"
  /\ errs' = {}

InScene ==
  /\ scene # "trace" => (call' = "step" => cycle < UntracedCycles)
  /\ CASE scene = "control" -> drawVars' = drawVars
       [] scene = "draw"    -> Stepping3({"idle", "step", "close"})
       [] scene = "trace"   ->
            /\ Stepping3({"idle", "step", "close", "reset"})
            /\ call' = "step" => traced < MaxTraced
            /\ mode' = mode /\ ticking'[sound] # "sending" /\ ~partial'

MCNext == TNext /\ InScene /\ UNCHANGED scene

MCSpec == MCInit /\ [][MCNext]_<<tvars, scene>> /\ TScheduling
=============================================================================
