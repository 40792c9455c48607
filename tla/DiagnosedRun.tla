---------------------------- MODULE DiagnosedRun ----------------------------
(***************************************************************************)
(* The run loop with its 80-column diagnostics, and a record of what they  *)
(* have logged.                                                            *)
(***************************************************************************)
EXTENDS RunControlHistory, Diagnostics, Sequences

VARIABLES
  active,   \* cycles since 80-column text came on, 0 while it is not
  steady,   \* cycles for which the screen has been the same, up to Interval
  settled,  \* 80-column text has once been on for the settling time
  fulls,    \* full dumps
  log       \* visible dumps since 80-column text came on, and when

recordVars == <<active, steady, settled, fulls, log>>
dvars == <<hvars, diagVars, recordVars>>

DInit ==
  /\ HInit /\ DiagInit
  /\ active = 0 /\ steady = 0 /\ settled = FALSE /\ fulls = 0 /\ log = <<>>

Logged == IF printed'.visible = None THEN <<>> ELSE <<[at |-> active', screen |-> printed'.visible]>>

Record ==
  /\ active' = IF None \in {screen, screen'} THEN 0 ELSE active + 1
  /\ steady' = IF screen' # screen THEN 0 ELSE IF steady < Interval THEN steady + 1 ELSE steady
  /\ settled' = (settled \/ active' >= Settle)
  /\ fulls' = fulls + (IF printed'.full THEN 1 ELSE 0)
  /\ log' = IF screen' = None THEN <<>> ELSE log \o Logged

(* The program has run: it may show anything. *)
StepReturns == loop = "stepping" /\ loop' = "checking"

DNext ==
  /\ HNext
  /\ IF StepReturns
       THEN /\ screen' \in Screens \cup {None}
            /\ MaybeDump(cycle')
            /\ Record
       ELSE UNCHANGED <<diagVars, recordVars>>

DSpec == DInit /\ [][DNext]_dvars /\ Scheduling

-----------------------------------------------------------------------------
(* main.go:644-686: nothing is dumped before 80-column text has been on for *)
(* the settling time without a break.  The full dump comes once in a run,   *)
(* as soon as the text has settled; visible dumps come at most Limit times *)
(* for each time it is on, an interval apart, and each differs from the     *)
(* one before.                                                             *)
DumpsPaced ==
  /\ fulls = IF options.dump /\ settled THEN 1 ELSE 0
  /\ Len(log) <= Limit
  /\ \A i \in DOMAIN log :
       /\ log[i].at >= Settle
       /\ i > 1 => /\ log[i].at - log[i - 1].at >= Interval
                   /\ log[i].screen # log[i - 1].screen

(* main.go:670-685: until the limit is reached, a screen that stands for an *)
(* interval after the settling time has been dumped, and is the last one   *)
(* that was.                                                               *)
ChangesDumped ==
  options.watch /\ active >= Settle /\ steady + 1 >= Interval /\ Len(log) < Limit =>
    log # <<>> /\ log[Len(log)].screen = screen
=============================================================================
