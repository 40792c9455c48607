-------------------------- MODULE RunControlProofs ---------------------------
(***************************************************************************)
(* Proofs about the run loop and its controls, for every cycle limit, and  *)
(* about its diagnostics, for every settling time, interval and limit.     *)
(***************************************************************************)
EXTENDS DiagnosedRun, TLAPS

USE DEF LoopStates, ControlStates, mainOnly, controlOnly

-----------------------------------------------------------------------------
(* Type correctness. *)

LEMMA LoopTyped == TypeOK /\ (Loop \/ Shutdown) => TypeOK'
<1> SUFFICES ASSUME TypeOK, Loop \/ Shutdown PROVE TypeOK'
  OBVIOUS
<1> USE DEF TypeOK
<1>1. CASE Check \/ Wait \/ AbandonTick \/ StartStep
  BY <1>1 DEF Check, Wait, AbandonTick, StartStep
<1>2. ASSUME NEW outcome \in {"running", "atStopPC", "halted", "error"},
             FinishStep(outcome)
      PROVE  TypeOK'
  BY <1>2 DEF FinishStep
<1>3. CASE Shutdown
  BY <1>3 DEF Shutdown, CloseStopCh, RestoreTerminal, CloseTerminal, Exit
<1> QED BY <1>1, <1>2, <1>3 DEF Loop

LEMMA ControlTyped == TypeOK /\ (Keys \/ Menu \/ LineArrives) => TypeOK'
<1> SUFFICES ASSUME TypeOK, Keys \/ Menu \/ LineArrives PROVE TypeOK'
  OBVIOUS
<1> USE DEF TypeOK
<1>1. CASE Listen \/ ReadFails \/ ReadBlocks \/ LineArrives
  BY <1>1 DEF Listen, ReadFails, ReadBlocks, LineArrives, AfterError
<1>2. CASE PressSpace \/ PressQuit \/ PressOther
  <2>1. (~paused) \in BOOLEAN
    OBVIOUS
  <2> QED BY <1>2, <2>1 DEF PressSpace, PressQuit, PressOther
<1>3. CASE Menu
  BY <1>3 DEF Menu, PrintMenu, ChooseResume, ChooseQuit, ChooseDump, BackToMenu,
              StartDump, FinishDump
<1> QED BY <1>1, <1>2, <1>3 DEF Keys

LEMMA NextTyped == TypeOK /\ [Next]_vars => TypeOK'
<1> SUFFICES ASSUME TypeOK, [Next]_vars PROVE TypeOK'
  OBVIOUS
<1>1. CASE Cancel
  BY <1>1 DEF Cancel, TypeOK
<1>2. CASE UNCHANGED vars
  BY <1>2 DEF vars, TypeOK
<1> QED BY <1>1, <1>2, LoopTyped, ControlTyped DEF Next

LEMMA InitTyped == Init => TypeOK
<1> SUFFICES ASSUME Init PROVE TypeOK
  OBVIOUS
<1>1. paused \in BOOLEAN /\ cancelled \in BOOLEAN /\ stopCh \in BOOLEAN
  BY Zenon DEF Init
<1>2. /\ loop \in LoopStates /\ control \in ControlStates /\ cycle \in Nat
      /\ machine \in {"running", "atStopPC", "halted"}
      /\ table \in {"machine", "disassembler"}
      /\ tty \in {"raw", "restored", "closed"}
  BY DEF Init
<1> QED BY <1>1, <1>2 DEF TypeOK

(* The states of the two goroutines and what they share keep their types   *)
(* (main.go:57-59,591-634,852-986).                                        *)
THEOREM RunControlTyped == Spec => []TypeOK
<1> QED BY InitTyped, NextTyped, PTL DEF Spec

-----------------------------------------------------------------------------
(* The cycle limit. *)

(* The loop is past the check of the limit only below it. *)
CycleInv ==
  /\ TypeOK
  /\ MaxCycles > 0 =>
       /\ cycle <= MaxCycles
       /\ loop \in {"waiting", "ready", "stepping"} => cycle < MaxCycles

LEMMA CycleInductive == CycleInv /\ [Next]_vars => CycleInv'
<1> SUFFICES ASSUME CycleInv, [Next]_vars PROVE CycleInv'
  OBVIOUS
<1> USE MaxCyclesAssumption DEF CycleInv
<1>1. TypeOK'
  BY NextTyped
<1>2. CASE Check
  BY <1>1, <1>2 DEF Check, LimitReached, TypeOK
<1>3. CASE Wait \/ AbandonTick \/ StartStep
  BY <1>1, <1>3 DEF Wait, AbandonTick, StartStep
<1>4. ASSUME NEW outcome \in {"running", "atStopPC", "halted", "error"},
             FinishStep(outcome)
      PROVE  CycleInv'
  <2>1. cycle' = cycle + 1 /\ loop' \in {"fatal", "checking"} /\ loop = "stepping"
    BY <1>4 DEF FinishStep
  <2> QED BY <1>1, <2>1 DEF TypeOK
<1>5. CASE Shutdown
  BY <1>1, <1>5 DEF Shutdown, CloseStopCh, RestoreTerminal, CloseTerminal, Exit
<1>6. ASSUME cycle' = cycle, loop' = loop
      PROVE  CycleInv'
  BY <1>1, <1>6
<1>7. Keys \/ Menu \/ LineArrives \/ Cancel \/ UNCHANGED vars
        => cycle' = cycle /\ loop' = loop
  BY DEF Keys, Listen, ReadFails, ReadBlocks, LineArrives, PressSpace, PressQuit,
         PressOther, Menu, PrintMenu, ChooseResume, ChooseQuit, ChooseDump,
         BackToMenu, StartDump, FinishDump, Cancel, vars
<1> QED BY <1>2, <1>3, <1>4, <1>5, <1>6, <1>7 DEF Next, Loop

(* main.go:612-614: no run executes more cycles than its limit, whichever  *)
(* limit, and whatever pauses, failing steps and cancellations it meets.   *)
THEOREM CycleLimited == Spec => []CycleLimit
<1>1. Init => CycleInv
  BY InitTyped, MaxCyclesAssumption DEF Init, CycleInv
<1>2. CycleInv => CycleLimit
  BY DEF CycleInv, CycleLimit
<1> QED BY <1>1, <1>2, CycleInductive, PTL DEF Spec

-----------------------------------------------------------------------------
(* The terminal.  While the loop runs the terminal is raw, and from then on *)
(* tty and stopCh say how far the shutdown is; Exit has waited for the      *)
(* control goroutine, which never comes back once the process is over.      *)

LoopRuns == loop \in {"checking", "waiting", "ready", "stepping", "ended"}

TerminalInv ==
  /\ LoopRuns \/ loop = "stopping" => tty = "raw"
  /\ loop = "restored" => tty = "restored"
  /\ loop \in {"closed", "exited"} => tty = "closed"
  /\ loop \in {"stopping", "restored", "closed", "exited"} => stopCh
  /\ loop = "exited" => control = "gone"

(* What the control goroutine does it does before the process is over, and  *)
(* it touches neither the loop nor the terminal's mode nor stopCh.          *)
LEMMA ControlKeepsTerminal ==
  Keys \/ Menu \/ LineArrives \/ Cancel => Alive /\ UNCHANGED <<loop, cycle, machine, stopCh, tty>>
<1> SUFFICES ASSUME Keys \/ Menu \/ LineArrives \/ Cancel
             PROVE  Alive /\ UNCHANGED <<loop, cycle, machine, stopCh, tty>>
  OBVIOUS
<1>1. CASE Keys
  BY <1>1 DEF Keys, Listen, ReadFails, ReadBlocks, PressSpace, PressQuit, PressOther,
              KeyArrives
<1>2. CASE Menu
  BY <1>2 DEF Menu, PrintMenu, ChooseResume, ChooseQuit, ChooseDump, BackToMenu,
              StartDump, FinishDump
<1>3. CASE LineArrives \/ Cancel
  BY <1>3 DEF LineArrives, Cancel
<1> QED BY <1>1, <1>2, <1>3

LEMMA TerminalInductive == TypeOK /\ TerminalInv /\ [Next]_vars => TerminalInv'
<1> SUFFICES ASSUME TypeOK, TerminalInv, [Next]_vars PROVE TerminalInv'
  OBVIOUS
<1> USE DEF TerminalInv, LoopRuns
<1>1. CASE Check \/ Wait \/ AbandonTick \/ StartStep
  BY <1>1 DEF Check, Wait, AbandonTick, StartStep
<1>2. ASSUME NEW outcome \in {"running", "atStopPC", "halted", "error"},
             FinishStep(outcome)
      PROVE  TerminalInv'
  BY <1>2 DEF FinishStep
<1>3. CASE CloseStopCh
  BY <1>3 DEF CloseStopCh
<1>4. CASE RestoreTerminal
  BY <1>4 DEF RestoreTerminal
<1>5. CASE CloseTerminal
  BY <1>5 DEF CloseTerminal
<1>6. CASE Exit
  BY <1>6 DEF Exit
<1>7. CASE Keys \/ Menu \/ LineArrives \/ Cancel
  BY <1>7, ControlKeepsTerminal DEF Alive
<1>8. CASE UNCHANGED vars
  BY <1>8 DEF vars
<1> QED BY <1>1, <1>2, <1>3, <1>4, <1>5, <1>6, <1>7, <1>8 DEF Next, Loop, Shutdown

(* main.go:937-942: the terminal is raw for as long as the loop runs, and a *)
(* program that returns from main has restored and closed it and has seen   *)
(* the control goroutine end.                                               *)
THEOREM TerminalIsRestored == Spec => []TerminalRestored
<1>1. Init => TerminalInv
  BY DEF Init, TerminalInv, LoopRuns
<1>2. TypeOK /\ TerminalInv /\ [Next]_vars => TerminalInv'
  BY TerminalInductive
<1>3. TerminalInv => TerminalRestored
  BY DEF TerminalInv, TerminalRestored, LoopRuns
<1> QED BY <1>1, <1>2, <1>3, RunControlTyped, PTL DEF Spec

-----------------------------------------------------------------------------
(* The pause. *)

(* The late step is spent when it begins: the loop can be ready to step    *)
(* while it is paused only if it has begun none since the pause.           *)
LateInv ==
  /\ late \in {0, 1}
  /\ ~paused => late = 0
  /\ paused /\ loop = "ready" => late = 0

LEMMA LateInductive == TypeOK /\ LateInv /\ [HNext]_hvars => LateInv'
<1> SUFFICES ASSUME TypeOK, LateInv, [HNext]_hvars PROVE LateInv'
  OBVIOUS
<1> USE DEF LateInv
<1>1. CASE UNCHANGED hvars
  BY <1>1 DEF hvars
<1>2. ASSUME HNext PROVE LateInv'
  <2>1. late' = LateAfter /\ Next
    BY <1>2 DEF HNext
  <2>2. CASE StartStep
    <3>1. paused' = paused /\ loop = "ready" /\ loop' = "stepping"
      BY <2>2 DEF StartStep
    <3> QED BY <2>1, <3>1 DEF LateAfter
  <2>3. CASE Wait
    <3>1. paused' = paused /\ loop = "waiting" /\ (loop' = "ready" => ~paused)
      BY <2>3 DEF Wait
    <3> QED BY <2>1, <3>1 DEF LateAfter
  <2>4. CASE PressSpace \/ ChooseResume
    <3>1. loop' = loop /\ (paused' => ~paused)
      BY <2>4 DEF PressSpace, ChooseResume
    <3> QED BY <2>1, <3>1 DEF LateAfter
  <2>5. ASSUME paused' = paused, loop' # "stepping" \/ loop' = loop,
               loop' = "ready" => loop = "ready"
        PROVE  LateInv'
    BY <2>1, <2>5 DEF LateAfter
  <2>6. CASE Check \/ AbandonTick \/ Shutdown
    BY <2>5, <2>6 DEF Check, AbandonTick, Shutdown, CloseStopCh, RestoreTerminal,
                      CloseTerminal, Exit
  <2>7. ASSUME NEW outcome \in {"running", "atStopPC", "halted", "error"},
               FinishStep(outcome)
        PROVE  LateInv'
    BY <2>5, <2>7 DEF FinishStep
  <2>8. CASE \/ Listen \/ ReadFails \/ ReadBlocks \/ LineArrives \/ PressQuit
             \/ PressOther \/ PrintMenu \/ ChooseQuit \/ ChooseDump \/ BackToMenu
             \/ StartDump \/ FinishDump \/ Cancel
    BY <2>5, <2>8 DEF Listen, ReadFails, ReadBlocks, LineArrives, PressQuit,
                      PressOther, PrintMenu, ChooseQuit, ChooseDump, BackToMenu,
                      StartDump, FinishDump, Cancel
  <2> QED
    BY <2>1, <2>2, <2>3, <2>4, <2>6, <2>7, <2>8 DEF Next, Loop, Keys, Menu
<1> QED BY <1>1, <1>2

(* main.go:616-628,852-861: after a pause the loop begins at most one more *)
(* step, in every interleaving of the loop, the menu and the signals.      *)
THEOREM PauseHolds == HSpec => []AtMostOneLateStep
<1>1. HInit => TypeOK /\ LateInv
  BY InitTyped DEF HInit, Init, LateInv
<1>2. TypeOK /\ LateInv /\ [HNext]_hvars => (TypeOK /\ LateInv)'
  <2>1. [HNext]_hvars => [Next]_vars
    BY DEF HNext, hvars, vars
  <2> QED BY <2>1, NextTyped, LateInductive
<1>3. LateInv => AtMostOneLateStep
  BY DEF LateInv, AtMostOneLateStep
<1> QED BY <1>1, <1>2, <1>3, PTL DEF HSpec

-----------------------------------------------------------------------------
(* The diagnostics. *)

(* Either option is on; a visible dump in the log; the runtimeDiagnostics.  *)
Diagnosing == options.dump \/ options.watch
Dumps == [at : Nat, screen : Screens]
Watches == [armed : BOOLEAN, since : Nat, looked : Nat, count : Nat,
            last : Screens \cup {None}]

DiagTypeOK ==
  /\ options \in [dump : BOOLEAN, watch : BOOLEAN]
  /\ screen \in Screens \cup {None}
  /\ dumped \in BOOLEAN /\ settled \in BOOLEAN
  /\ watch \in Watches
  /\ active \in Nat /\ steady \in 0 .. Interval /\ cycle \in Nat
  /\ log \in Seq(Dumps)

(* The watch is armed while 80-column text is on and knows since when.  Its *)
(* clock is the cycle counter, but for a failed step, which ends the run.  *)
WatchFollows ==
  /\ ~Diagnosing \/ screen = None => watch = Disarmed /\ log = <<>>
  /\ screen = None => active = 0
  /\ Diagnosing /\ screen # None =>
       /\ watch.armed
       /\ watch.since <= watch.looked /\ watch.looked <= watch.since + active
       /\ loop # "fatal" => cycle = watch.since + active
       /\ active < Settle => watch.looked = watch.since

(* The full dump has come if and only if the text has once settled.        *)
FullFollows ==
  /\ active >= Settle => settled
  /\ dumped = (options.dump /\ settled)
  /\ fulls = IF options.dump /\ settled THEN 1 ELSE 0

(* The watch counts the dumps in the log and holds the last one; it has    *)
(* looked since.                                                           *)
LogFollows ==
  /\ ~options.watch => log = <<>>
  /\ watch.count = Len(log) /\ Len(log) <= Limit
  /\ log = <<>> => watch.last = None
  /\ log # <<>> => /\ watch.last = log[Len(log)].screen
                   /\ watch.since + log[Len(log)].at <= watch.looked

(* The pace itself, which is inductive only with LogFollows.               *)
LogPaced ==
  \A i \in 1 .. Len(log) :
    /\ log[i].at >= Settle
    /\ i > 1 => /\ log[i].at - log[i - 1].at >= Interval
                /\ log[i].screen # log[i - 1].screen

(* Once the text has settled the last look is less than an interval ago,   *)
(* and a screen that has stood since then is the one it saw.               *)
Recent ==
  options.watch /\ active >= Settle /\ Len(log) < Limit =>
    /\ watch.since + active < watch.looked + Interval
    /\ watch.since + active <= watch.looked + steady => watch.last = screen

DiagInv == DiagTypeOK /\ WatchFollows /\ FullFollows /\ LogFollows /\ LogPaced /\ Recent

(* A disarmed watch is one. *)
LEMMA DisarmedWatch == Disarmed \in Watches
<1>1. 0 \in Nat /\ FALSE \in BOOLEAN /\ None \in Screens \cup {None}
  OBVIOUS
<1> QED BY <1>1, Zenon DEF Disarmed, Watches

(* At first nothing is shown and nothing armed. *)
LEMMA DiagInvInit == DInit => DiagInv
<1> SUFFICES ASSUME DInit PROVE DiagInv
  OBVIOUS
<1> USE DelaysAssumption, ScreensAssumption
<1>1. /\ log = <<>> /\ screen = None /\ watch = Disarmed /\ dumped = FALSE /\ settled = FALSE
      /\ active = 0 /\ steady = 0 /\ fulls = 0 /\ cycle = 0
      /\ options \in [dump : BOOLEAN, watch : BOOLEAN]
  BY DEF DInit, DiagInit, HInit, Init
<1>2. <<>> \in Seq(Dumps) /\ Len(<<>>) = 0
  OBVIOUS
<1>3. DiagTypeOK
  <2>1. dumped \in BOOLEAN /\ settled \in BOOLEAN
    BY <1>1, Zenon
  <2>2. log \in Seq(Dumps) /\ watch \in Watches
    BY <1>1, <1>2, DisarmedWatch, Zenon
  <2>3. active \in Nat /\ steady \in 0 .. Interval /\ cycle \in Nat
    BY <1>1
  <2> QED BY <1>1, <2>1, <2>2, <2>3 DEF DiagTypeOK
<1>4. WatchFollows /\ LogFollows /\ LogPaced /\ Recent
  BY <1>1, <1>2 DEF WatchFollows, LogFollows, LogPaced, Recent, Disarmed
<1>5. FullFollows
  <2>1. dumped = (options.dump /\ settled)
    BY <1>1, Zenon
  <2> QED BY <1>1, <2>1 DEF FullFollows
<1> QED BY <1>3, <1>4, <1>5 DEF DiagInv

(* The step returns with no 80-column text on the display. *)
LEMMA TextGoes ==
  ASSUME DiagInv, MaybeDump(cycle'), Record, cycle' = cycle + 1, screen' = None
  PROVE  DiagInv'
<1> USE DelaysAssumption, ScreensAssumption DEF DiagInv
<1>1. /\ log' = <<>> /\ active' = 0 /\ options' = options /\ dumped' = dumped
      /\ printed' = Silence
      /\ watch' = Disarmed
  BY DEF MaybeDump, Stay, Disarm, Record, WatchFollows, Diagnosing
<1>2. fulls' = fulls /\ settled' = settled
  BY <1>1 DEF Record, Silence, FullFollows, DiagTypeOK
<1>3. steady' \in 0 .. Interval
  BY DEF Record, DiagTypeOK
<1>4. <<>> \in Seq(Dumps) /\ Len(<<>>) = 0
  OBVIOUS
<1>5. DiagTypeOK'
  BY <1>1, <1>2, <1>3, <1>4 DEF DiagTypeOK, Watches, Disarmed
<1>6. WatchFollows' /\ LogFollows' /\ LogPaced' /\ Recent'
  BY <1>1, <1>4 DEF WatchFollows, LogFollows, LogPaced, Recent, Disarmed
<1>7. FullFollows'
  BY <1>1, <1>2 DEF FullFollows
<1> QED BY <1>5, <1>6, <1>7

(* The step returns with 80-column text, and the diagnostics are off. *)
LEMMA NotDiagnosed ==
  ASSUME DiagInv, MaybeDump(cycle'), Record, cycle' = cycle + 1,
         screen' \in Screens, ~Diagnosing
  PROVE  DiagInv'
<1> USE DelaysAssumption, ScreensAssumption DEF DiagInv
<1>1. /\ options' = options /\ dumped' = dumped /\ watch' = watch
      /\ printed' = Silence
  BY DEF MaybeDump, Stay, Diagnosing
<1>2. ~options.dump /\ ~options.watch /\ log = <<>> /\ watch = Disarmed
  BY DEF WatchFollows, Diagnosing
<1>3. log' = <<>> /\ fulls' = fulls
  <2>1. Logged = <<>> /\ log' = log \o Logged
    BY <1>1 DEF Record, Logged, Silence
  <2>2. <<>> \o <<>> = <<>>
    OBVIOUS
  <2>3. fulls \in Nat /\ fulls' = fulls + 0
    BY <1>1 DEF Record, Silence, FullFollows
  <2> QED BY <1>2, <2>1, <2>2, <2>3
<1>4. steady' \in 0 .. Interval /\ active' \in Nat /\ settled' \in BOOLEAN
  BY DEF Record, DiagTypeOK
<1>5. DiagTypeOK'
  BY <1>1, <1>2, <1>3, <1>4 DEF DiagTypeOK
<1>6. WatchFollows' /\ LogFollows' /\ LogPaced' /\ Recent'
  BY <1>1, <1>2, <1>3, <1>4 DEF WatchFollows, LogFollows, LogPaced, Recent, Diagnosing
<1>7. FullFollows'
  BY <1>1, <1>2, <1>3 DEF FullFollows, Record
<1> QED BY <1>5, <1>6, <1>7

(* 80-column text comes on, and arms the diagnostics. *)
LEMMA TextComes ==
  ASSUME DiagInv, MaybeDump(cycle'), Record, cycle' = cycle + 1,
         screen' \in Screens, Diagnosing, screen = None
  PROVE  DiagInv'
<1> USE DelaysAssumption, ScreensAssumption DEF DiagInv
<1>1. log = <<>> /\ watch = Disarmed
  BY DEF WatchFollows
<1>2. /\ options' = options /\ dumped' = dumped
      /\ watch' = [Disarmed EXCEPT !.armed = TRUE, !.since = cycle', !.looked = cycle']
      /\ printed' = Silence
  BY <1>1 DEF MaybeDump, Arm, Diagnosing, Disarmed
<1>3. watch' = [armed |-> TRUE, since |-> cycle', looked |-> cycle', count |-> 0, last |-> None]
  BY <1>2 DEF Disarmed
<1>4. log' = <<>> /\ fulls' = fulls
  <2>1. Logged = <<>> /\ log' = log \o Logged
    BY <1>2 DEF Record, Logged, Silence
  <2>2. <<>> \o <<>> = <<>>
    OBVIOUS
  <2>3. fulls \in Nat /\ fulls' = fulls + 0
    BY <1>2 DEF Record, Silence, FullFollows
  <2> QED BY <1>1, <2>1, <2>2, <2>3
<1>5. steady' \in 0 .. Interval /\ active' = 0 /\ settled' = settled
  BY DEF Record, DiagTypeOK
<1>6. cycle' \in Nat /\ <<>> \in Seq(Dumps) /\ Len(<<>>) = 0
  BY DEF DiagTypeOK
<1>7. watch' \in Watches
  <2>1. cycle' \in Nat /\ 0 \in Nat /\ TRUE \in BOOLEAN /\ None \in Screens \cup {None}
    BY <1>6
  <2> QED BY <1>3, <2>1, Zenon DEF Watches
<1>8. DiagTypeOK'
  BY <1>2, <1>4, <1>5, <1>6, <1>7 DEF DiagTypeOK
<1>9. WatchFollows' /\ LogFollows' /\ LogPaced' /\ Recent'
  BY <1>2, <1>3, <1>4, <1>5, <1>6 DEF WatchFollows, LogFollows, LogPaced, Recent, Diagnosing
<1>10. FullFollows'
  BY <1>2, <1>4, <1>5 DEF FullFollows
<1> QED BY <1>8, <1>9, <1>10

(* 80-column text stays on, and has not settled. *)
LEMMA TextUnsettled ==
  ASSUME DiagInv, MaybeDump(cycle'), Record, cycle' = cycle + 1,
         screen' \in Screens, Diagnosing, screen \in Screens, loop # "fatal",
         ~Settled(cycle')
  PROVE  DiagInv'
<1> USE DelaysAssumption, ScreensAssumption DEF DiagInv
<1>1. /\ watch.armed /\ cycle = watch.since + active
      /\ watch.since \in Nat /\ active \in Nat /\ cycle \in Nat
  BY DEF WatchFollows, DiagTypeOK, Watches
<1>2. /\ options' = options /\ dumped' = dumped /\ watch' = watch
      /\ printed' = Silence
  BY <1>1 DEF MaybeDump, Stay, Diagnosing
<1>3. /\ active' = active + 1 /\ cycle' = watch.since + active'
      /\ active' < Settle
  <2>1. active' = active + 1
    BY DEF Record
  <2>2. cycle' - watch.since = active' /\ cycle' = watch.since + active'
    BY <1>1, <2>1
  <2> QED BY <1>1, <2>1, <2>2 DEF Settled
<1>4. /\ steady' \in 0 .. Interval /\ settled' = settled /\ Logged = <<>>
  BY <1>2, <1>3 DEF Record, DiagTypeOK, Logged, Silence
<1>5. log' = log /\ fulls' = fulls
  <2>1. log' = log \o <<>> /\ fulls' = fulls + 0 /\ fulls \in Nat /\ log \in Seq(Dumps)
    BY <1>2, <1>4 DEF Record, Silence, FullFollows, DiagTypeOK
  <2> QED BY <2>1
<1>6. DiagTypeOK'
  BY <1>1, <1>2, <1>3, <1>4, <1>5 DEF DiagTypeOK
<1>7. WatchFollows'
  BY <1>1, <1>2, <1>3, <1>5 DEF WatchFollows, Diagnosing, DiagTypeOK, Watches
<1>8. LogFollows' /\ LogPaced' /\ Recent'
  BY <1>2, <1>3, <1>5 DEF LogFollows, LogPaced, Recent
<1>9. FullFollows'
  BY <1>2, <1>3, <1>4, <1>5 DEF FullFollows
<1> QED BY <1>6, <1>7, <1>8, <1>9

(* The full dump comes with the first look after the text has settled. *)
LEMMA FullDumpOnce ==
  ASSUME FullFollows, DiagTypeOK, options' = options, active' \in Nat, active' >= Settle,
         dumped' = (dumped \/ options.dump),
         settled' = (settled \/ active' >= Settle),
         fulls' = fulls + (IF options.dump /\ ~dumped THEN 1 ELSE 0)
  PROVE  FullFollows' /\ dumped' \in BOOLEAN /\ settled' \in BOOLEAN
<1>1. settled' = TRUE
  BY DEF DiagTypeOK
<1>2. dumped' = options'.dump
  BY DEF FullFollows, DiagTypeOK
<1>3. fulls' = IF options'.dump THEN 1 ELSE 0
  <2>1. CASE options.dump /\ ~dumped
    <3>1. ~settled /\ fulls = 0
      BY <2>1, Zenon DEF FullFollows
    <3> QED BY <2>1, <3>1
  <2>2. CASE ~options.dump
    <3>1. fulls = 0
      BY <2>2 DEF FullFollows
    <3> QED BY <2>2, <3>1
  <2>3. CASE options.dump /\ dumped
    <3>1. fulls = 1
      BY <2>3 DEF FullFollows
    <3> QED BY <2>3, <3>1
  <2> QED BY <2>1, <2>2, <2>3
<1> QED BY <1>1, <1>2, <1>3 DEF FullFollows, DiagTypeOK

(* Every entry of the log is a dump. *)
LEMMA LogEntry ==
  ASSUME NEW l \in Seq(Dumps)
  PROVE  /\ Len(l) \in Nat
         /\ l # <<>> => Len(l) >= 1
         /\ \A i \in 1 .. Len(l) : l[i].at \in Nat /\ l[i].screen \in Screens
<1>1. \A i \in 1 .. Len(l) : l[i] \in Dumps
  OBVIOUS
<1>2. \A d \in Dumps : d.at \in Nat /\ d.screen \in Screens
  BY DEF Dumps
<1> QED BY <1>1, <1>2

(* The dump before is at least as old as the last look. *)
LEMMA GapKept ==
  \A s, a, l, d, gap \in Nat : s + d <= l /\ (s + a) - l >= gap => a - d >= gap
  OBVIOUS

(* The age of the last look stays below the steadiness of the screen. *)
LEMMA SteadyKept ==
  \A s, a, l, d, gap \in Nat :
    /\ (s + (a + 1)) - l < gap => s + a <= l + gap
    /\ s + (a + 1) <= l + (d + 1) => s + a <= l + d
  OBVIOUS

(* What a look that finds something new does to the log. *)
LEMMA LogGrows ==
  ASSUME NEW l \in Seq(Dumps), NEW e \in Dumps
  PROVE  LET m == l \o <<e>> IN
           /\ m \in Seq(Dumps) /\ Len(m) = Len(l) + 1 /\ m[Len(l) + 1] = e
           /\ m # <<>> /\ \A i \in 1 .. Len(l) : m[i] = l[i]
  OBVIOUS

(* 80-column text has been on for the settling time. *)
LEMMA TextSettled ==
  ASSUME DiagInv, MaybeDump(cycle'), Record, cycle' = cycle + 1,
         screen' \in Screens, Diagnosing, screen \in Screens, loop # "fatal",
         Settled(cycle')
  PROVE  DiagInv'
<1> USE DelaysAssumption, ScreensAssumption DEF DiagInv
<1>1. /\ watch.armed /\ cycle = watch.since + active
      /\ watch.since \in Nat /\ watch.looked \in Nat /\ watch.count \in Nat
      /\ watch.since <= watch.looked /\ watch.looked <= watch.since + active
      /\ active < Settle => watch.looked = watch.since
      /\ active \in Nat /\ cycle \in Nat
  BY DEF WatchFollows, DiagTypeOK, Watches
<1>2. Inspect(cycle') /\ options' = options
  BY <1>1 DEF MaybeDump, Diagnosing
<1>3. /\ active' = active + 1 /\ cycle' = watch.since + active'
      /\ active' >= Settle
  <2>1. active' = active + 1
    BY DEF Record
  <2>2. cycle' - watch.since = active' /\ cycle' = watch.since + active'
    BY <1>1, <2>1
  <2> QED BY <1>1, <2>1, <2>2 DEF Settled
<1>4. FullFollows' /\ dumped' \in BOOLEAN /\ settled' \in BOOLEAN
  <2>1. printed'.full = (options.dump /\ ~dumped)
    BY <1>2 DEF Inspect
  <2>2. fulls' = fulls + (IF options.dump /\ ~dumped THEN 1 ELSE 0)
    BY <2>1 DEF Record
  <2>3. dumped' = (dumped \/ options.dump) /\ settled' = (settled \/ active' >= Settle)
    BY <1>2 DEF Inspect, Record
  <2>4. active' \in Nat
    BY <1>1, <1>3
  <2> QED BY <1>2, <1>3, <2>2, <2>3, <2>4, FullDumpOnce
<1>5. steady' \in 0 .. Interval /\ cycle' \in Nat /\ active' \in Nat
  BY <1>1, <1>3 DEF Record, DiagTypeOK
<1>6. /\ log \in Seq(Dumps) /\ watch \in Watches /\ Len(log) \in Nat
      /\ watch.count = Len(log)
  BY DEF DiagTypeOK, LogFollows
<1>7. CASE Changed(cycle')
  <2> DEFINE e == [at |-> active', screen |-> screen']
  <2>1. /\ options.watch /\ Len(log) < Limit /\ screen' # watch.last
        /\ cycle' - watch.looked >= Interval
    BY <1>6, <1>7 DEF Changed, Looks
  <2>2. /\ watch' = [watch EXCEPT !.looked = cycle', !.count = watch.count + 1,
                                 !.last = screen']
        /\ printed'.visible = screen'
    BY <1>2, <1>7 DEF Inspect, LookedAt, Changed
  <2>3. log' = log \o <<e>> /\ e \in Dumps
    <3>1. screen' # None
      OBVIOUS
    <3>2. Logged = <<e>>
      BY <2>2, <3>1 DEF Logged
    <3> QED BY <1>5, <3>1, <3>2 DEF Record, Dumps
  <2>4. /\ log' \in Seq(Dumps) /\ Len(log') = Len(log) + 1 /\ log'[Len(log) + 1] = e
        /\ log' # <<>> /\ \A i \in 1 .. Len(log) : log'[i] = log[i]
    BY <1>6, <2>3, LogGrows
  <2> HIDE DEF e
  <2>5. e.at = active' /\ e.screen = screen'
    BY DEF e
  <2>6. /\ watch' \in Watches /\ watch'.since = watch.since /\ watch'.looked = cycle'
        /\ watch'.count = Len(log) + 1 /\ watch'.last = screen' /\ watch'.armed = watch.armed
    <3>1. watch.count + 1 \in Nat /\ screen' \in Screens \cup {None}
      BY <1>6
    <3> QED BY <1>5, <1>6, <2>2, <3>1 DEF Watches
  <2>7. DiagTypeOK'
    BY <1>2, <1>4, <1>5, <2>4, <2>6 DEF DiagTypeOK
  <2>8. WatchFollows'
    BY <1>1, <1>2, <1>3, <1>5, <2>6 DEF WatchFollows, Diagnosing
  <2>9. LogFollows'
    <3>1. watch'.since + log'[Len(log')].at = watch'.looked
      BY <1>3, <1>6, <2>4, <2>5, <2>6
    <3>2. watch'.count = Len(log') /\ Len(log') <= Limit /\ options'.watch
      BY <1>2, <1>6, <2>1, <2>4, <2>6
    <3>3. watch'.last = log'[Len(log')].screen
      BY <1>6, <2>4, <2>5, <2>6
    <3>4. cycle' <= cycle'
      BY <1>5
    <3> QED BY <2>4, <2>6, <3>1, <3>2, <3>3, <3>4 DEF LogFollows
  <2>10. LogPaced'
    <3>1. \A i \in 1 .. Len(log) :
            /\ log'[i].at >= Settle
            /\ i > 1 => /\ log'[i].at - log'[i - 1].at >= Interval
                        /\ log'[i].screen # log'[i - 1].screen
      <4> SUFFICES ASSUME NEW i \in 1 .. Len(log)
                   PROVE  /\ log'[i].at >= Settle
                          /\ i > 1 => /\ log'[i].at - log'[i - 1].at >= Interval
                                      /\ log'[i].screen # log'[i - 1].screen
        OBVIOUS
      <4>1. log'[i] = log[i] /\ (i > 1 => log'[i - 1] = log[i - 1])
        BY <1>6, <2>4
      <4> QED BY <4>1 DEF LogPaced
    <3>2. Len(log) > 0 => /\ e.at - log'[Len(log)].at >= Interval
                          /\ e.screen # log'[Len(log)].screen
      <4> HAVE Len(log) > 0
      <4>1. /\ watch.last = log[Len(log)].screen
            /\ watch.since + log[Len(log)].at <= watch.looked
            /\ log'[Len(log)] = log[Len(log)]
        BY <1>6, <2>4 DEF LogFollows
      <4>2. log[Len(log)].at \in Nat
        BY <1>6, LogEntry
      <4>3. active' - log[Len(log)].at >= Interval
        <5> DEFINE d == log[Len(log)].at
        <5>1. Interval \in Nat /\ d \in Nat
          BY <4>2
        <5>2. (watch.since + active') - watch.looked >= Interval
          BY <1>3, <2>1
        <5>3. watch.since + d <= watch.looked
          BY <4>1
        <5> HIDE DEF DiagInv, d
        <5>4. active' - d >= Interval
          <6>1. watch.since \in Nat /\ active' \in Nat /\ watch.looked \in Nat
            BY <1>1, <1>5
          <6> QED BY <5>1, <5>2, <5>3, <6>1, GapKept, Zenon
        <5> QED BY <5>4 DEF d
      <4> QED BY <2>1, <2>5, <4>1, <4>3
    <3> QED BY <1>3, <1>6, <2>4, <2>5, <3>1, <3>2 DEF LogPaced
  <2>11. Recent'
    BY <1>1, <1>3, <1>5, <2>6 DEF Recent
  <2> QED BY <1>4, <2>7, <2>8, <2>9, <2>10, <2>11
<1>8. CASE ~Changed(cycle')
  <2>1. log' = log
    <3>1. printed'.visible = None
      BY <1>2, <1>8 DEF Inspect
    <3>2. Logged = <<>> /\ screen' # None
      BY <3>1 DEF Logged
    <3> QED BY <1>6, <3>2 DEF Record
  <2>2. watch' = [watch EXCEPT !.looked = IF Looks(cycle') THEN cycle' ELSE @]
    BY <1>2, <1>6, <1>8 DEF Inspect, LookedAt, Watches
  <2>3. /\ watch' \in Watches /\ watch'.since = watch.since
        /\ watch'.looked = IF Looks(cycle') THEN cycle' ELSE watch.looked
        /\ watch'.count = watch.count /\ watch'.last = watch.last /\ watch'.armed = watch.armed
    BY <1>1, <1>5, <1>6, <2>2 DEF Watches
  <2>4. DiagTypeOK'
    BY <1>2, <1>4, <1>5, <1>6, <2>1, <2>3 DEF DiagTypeOK
  <2>5. watch.looked <= watch'.looked /\ watch'.looked <= cycle'
    BY <1>1, <1>3, <2>3
  <2>6. WatchFollows'
    BY <1>1, <1>2, <1>3, <1>5, <2>3, <2>5 DEF WatchFollows, Diagnosing
  <2>7. LogFollows'
    <3>1. log # <<>> => log[Len(log)].at \in Nat
      BY <1>6, LogEntry
    <3>2. watch'.looked \in Nat
      BY <2>3 DEF Watches
    <3>3. log # <<>> => watch.since + log[Len(log)].at <= watch'.looked
      <4> HAVE log # <<>>
      <4>1. watch.since + log[Len(log)].at <= watch.looked
        BY DEF LogFollows
      <4>2. log[Len(log)].at \in Nat
        BY <3>1
      <4> HIDE DEF DiagInv
      <4> QED BY <1>1, <2>5, <3>2, <4>1, <4>2
    <3> QED BY <1>2, <2>1, <2>3, <3>3 DEF LogFollows
  <2>8. LogPaced'
    BY <2>1 DEF LogPaced
  <2>9. Recent'
    <3> SUFFICES ASSUME options'.watch, Len(log') < Limit
                 PROVE  /\ watch'.since + active' < watch'.looked + Interval
                        /\ watch'.since + active' <= watch'.looked + steady' =>
                             watch'.last = screen'
      BY DEF Recent
    <3>1. options.watch /\ Len(log) < Limit
      BY <1>2, <2>1
    <3>2. CASE Looks(cycle')
      <4>1. watch'.looked = cycle' /\ screen' = watch.last
        BY <1>8, <2>3, <3>2 DEF Changed
      <4> QED BY <1>1, <1>3, <1>5, <2>3, <4>1
    <3>3. CASE ~Looks(cycle')
      <4>1. cycle' - watch.looked < Interval /\ watch'.looked = watch.looked
        <5>1. ~(cycle' - watch.looked >= Interval)
          BY <1>6, <3>1, <3>3 DEF Looks
        <5>2. cycle' - watch.looked < Interval
          BY <1>1, <1>5, <5>1
        <5> QED BY <2>3, <3>3, <5>2
      <4>2. active >= Settle
        BY <1>1, <1>3, <4>1
      <4>3. watch.since + active <= watch.looked + steady => watch.last = screen
        BY <3>1, <4>2 DEF Recent
      <4>4. ASSUME watch'.since + active' <= watch'.looked + steady'
            PROVE  watch'.last = screen'
        <5>1. steady' >= 1
          BY <1>1, <1>3, <1>5, <2>3, <4>1, <4>4, <4>2
        <5>2. screen' = screen
          BY <5>1 DEF Record
        <5>3. steady \in Nat /\ steady <= Interval
              /\ steady' = IF steady < Interval THEN steady + 1 ELSE steady
          BY <5>2 DEF Record, DiagTypeOK
        <5>4. watch.since + active <= watch.looked + steady
          <6>1. watch.since + (active + 1) <= watch.looked + steady'
            BY <1>3, <2>3, <4>1, <4>4
          <6>2. (watch.since + (active + 1)) - watch.looked < Interval
            BY <1>3, <4>1
          <6>3. CASE steady < Interval
            BY <1>1, <5>3, <6>1, <6>3, SteadyKept
          <6>4. CASE ~(steady < Interval)
            <7>1. steady = Interval
              BY <5>3, <6>4
            <7> QED BY <1>1, <6>2, <7>1, SteadyKept
          <6> QED BY <6>3, <6>4
        <5> QED BY <2>3, <4>3, <5>2, <5>4
      <4> QED BY <1>1, <1>3, <1>5, <2>3, <4>1, <4>4
    <3> QED BY <3>2, <3>3
  <2> QED BY <1>4, <2>4, <2>6, <2>7, <2>8, <2>9
<1> QED BY <1>7, <1>8

(* Only a step that returns without an error moves the cycle counter, or   *)
(* the process is over.                                                    *)
LEMMA CycleMoves ==
  ASSUME Next
  PROVE  /\ StepReturns => cycle' = cycle + 1
         /\ ~StepReturns /\ loop' # "fatal" => loop # "fatal" /\ cycle' = cycle
         /\ loop = "fatal" => loop' = "fatal"
<1>1. CASE Check \/ Wait \/ AbandonTick \/ StartStep
  BY <1>1 DEF Check, Wait, AbandonTick, StartStep, StepReturns
<1>2. ASSUME NEW outcome \in {"running", "atStopPC", "halted", "error"}, FinishStep(outcome)
      PROVE  cycle' = cycle + 1 /\ loop = "stepping" /\ loop' \in {"fatal", "checking"}
  BY <1>2 DEF FinishStep
<1>3. CASE Shutdown
  BY <1>3 DEF Shutdown, CloseStopCh, RestoreTerminal, CloseTerminal, Exit, StepReturns
<1>4. CASE UNCHANGED <<loop, cycle>>
  BY <1>4 DEF StepReturns
<1> QED BY <1>1, <1>2, <1>3, <1>4, ControlKeepsTerminal DEF Next, Loop, StepReturns

(* Steps that return are seen by the diagnostics; the others leave them     *)
(* and the cycle alone, or end the process.                                 *)
LEMMA DiagInductive == DiagInv /\ TypeOK /\ [DNext]_dvars => DiagInv'
<1> SUFFICES ASSUME DiagInv, TypeOK, [DNext]_dvars PROVE DiagInv'
  OBVIOUS
<1>1. CASE DNext /\ StepReturns
  <2>1. cycle' = cycle + 1 /\ loop # "fatal"
    BY <1>1, CycleMoves DEF DNext, HNext, StepReturns
  <2>2. MaybeDump(cycle') /\ Record /\ screen' \in Screens \cup {None}
    BY <1>1 DEF DNext
  <2>3. screen \in Screens \cup {None}
    BY DEF DiagInv, DiagTypeOK
  <2> QED BY <2>1, <2>2, <2>3, TextGoes, NotDiagnosed, TextComes, TextUnsettled, TextSettled
<1>2. ASSUME UNCHANGED <<diagVars, recordVars>>, cycle' \in Nat,
             loop' # "fatal" => loop # "fatal" /\ cycle' = cycle
      PROVE  DiagInv'
  <2>1. UNCHANGED <<options, screen, dumped, watch, active, steady, settled, fulls, log>>
    BY <1>2 DEF diagVars, recordVars
  <2> QED BY <1>2, <2>1 DEF DiagInv, DiagTypeOK, WatchFollows, FullFollows, LogFollows, LogPaced,
                            Recent, Diagnosing
<1>3. CASE DNext /\ ~StepReturns
  <2>1. TypeOK'
    BY <1>3, NextTyped DEF DNext, HNext
  <2> QED BY <1>2, <1>3, <2>1, CycleMoves DEF DNext, HNext, TypeOK
<1>4. CASE UNCHANGED dvars
  BY <1>2, <1>4 DEF dvars, hvars, TypeOK
<1> QED BY <1>1, <1>3, <1>4

(* The diagnostics and the record of what they logged. *)
LEMMA DiagInvHolds == DSpec => []DiagInv
<1>1. DInit => TypeOK /\ DiagInv
  BY InitTyped, DiagInvInit DEF DInit, HInit
<1>2. TypeOK /\ DiagInv /\ [DNext]_dvars => TypeOK' /\ DiagInv'
  <2>1. [DNext]_dvars => [Next]_vars
    BY DEF DNext, HNext, dvars, hvars, vars
  <2> QED BY <2>1, NextTyped, DiagInductive
<1> QED BY <1>1, <1>2, PTL DEF DSpec

(* main.go:644-686: for every settling time, interval and limit, whatever   *)
(* the screen shows and whatever pauses and cancels the run, nothing is    *)
(* dumped before the text has settled, the full dump comes once, and the   *)
(* visible ones an interval apart, limited, and each with a change.        *)
THEOREM DumpsArePaced == DSpec => []DumpsPaced
<1>1. DiagInv => DumpsPaced
  <2> SUFFICES ASSUME DiagInv PROVE DumpsPaced
    OBVIOUS
  <2>1. DOMAIN log = 1 .. Len(log)
    BY DEF DiagInv, DiagTypeOK
  <2> QED BY <2>1 DEF DiagInv, DumpsPaced, FullFollows, LogFollows, LogPaced
<1> QED BY <1>1, DiagInvHolds, PTL

(* main.go:670-685: until the limit is reached the last visible dump is of  *)
(* the screen that has stood for an interval, for every interval.          *)
THEOREM ChangesAreDumped == DSpec => []ChangesDumped
<1>1. DiagInv => ChangesDumped
  <2> SUFFICES ASSUME DiagInv, options.watch, active >= Settle, steady + 1 >= Interval,
                      Len(log) < Limit
               PROVE  log # <<>> /\ log[Len(log)].screen = screen
    BY DEF ChangesDumped
  <2> USE DelaysAssumption, ScreensAssumption DEF DiagInv
  <2>1. screen # None
    BY DEF WatchFollows, DiagTypeOK
  <2>2. /\ watch.since + active < watch.looked + Interval
        /\ watch.since + active <= watch.looked + steady => watch.last = screen
    BY DEF Recent
  <2>3. watch.since \in Nat /\ watch.looked \in Nat /\ active \in Nat /\ steady \in Nat
    BY DEF DiagTypeOK, Watches
  <2>4. watch.last = screen
    BY <2>2, <2>3
  <2> QED BY <2>1, <2>4 DEF LogFollows
<1> QED BY <1>1, DiagInvHolds, PTL

(* main.go:588-708: the diagnostics take nothing away from what holds of    *)
(* the run loop and its controls.                                          *)
THEOREM DiagnosticsKeepControl ==
  DSpec => [](CycleLimit /\ TerminalRestored /\ AtMostOneLateStep)
<1>1. DInit => HInit /\ Init
  BY DEF DInit, HInit
<1>2. [DNext]_dvars => [HNext]_hvars
  BY DEF DNext, dvars
<1>3. [HNext]_hvars => [Next]_vars
  BY DEF HNext, hvars, vars
<1>4. DSpec => Spec /\ HSpec
  BY <1>1, <1>2, <1>3, PTL DEF DSpec, HSpec, Spec
<1> QED BY <1>4, CycleLimited, TerminalIsRestored, PauseHolds, PTL

=============================================================================
