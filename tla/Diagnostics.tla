---------------------------- MODULE Diagnostics -----------------------------
(***************************************************************************)
(* The 80-column diagnostics of the run loop (cmd/emuai/main.go): after     *)
(* every step maybeDump80ColumnState looks at the display.  It logs a full *)
(* dump when 80-column text has settled, and then what is visible each      *)
(* time it has changed.  A dump is abstracted to the screen it is made of. *)
(***************************************************************************)
EXTENDS Naturals

CONSTANTS
  Settle,    \* dump80ColSettleCycles, 100 000 in the code
  Interval,  \* dump80ColWatchInterval, 10 000
  Limit,     \* dump80ColWatchLimit, 8
  Screens,   \* screens of 80-column text whose visible dumps differ
  None       \* no 80-column text on the display, and no dump of it

ASSUME DelaysAssumption ==
  /\ Settle \in Nat /\ Interval \in 1 .. Settle
  /\ Limit \in Nat \ {0}
ASSUME ScreensAssumption == None \notin Screens

VARIABLES
  options,  \* dump80Col and watch80Col
  screen,   \* what the display shows after the last step
  dumped,   \* dumped80Col
  watch,    \* the other fields of runtimeDiagnostics
  printed   \* what the last look logged

diagVars == <<options, screen, dumped, watch, printed>>

-----------------------------------------------------------------------------
Disarmed == [armed |-> FALSE, since |-> 0, looked |-> 0, count |-> 0, last |-> None]
Silence  == [full |-> FALSE, visible |-> None]

DiagInit ==
  /\ options \in [dump : BOOLEAN, watch : BOOLEAN]
  /\ screen = None
  /\ dumped = FALSE
  /\ watch = Disarmed
  /\ printed = Silence

(* Slips: leaving the mode keeps the diagnostics armed, or the last dump.  *)
StayArmed ==
  /\ watch' = [watch EXCEPT !.count = 0, !.last = None]
  /\ printed' = Silence
  /\ UNCHANGED dumped

DisarmKeepingDump ==
  /\ watch' = [Disarmed EXCEPT !.last = watch.last]
  /\ printed' = Silence
  /\ UNCHANGED dumped

Disarm ==
  /\ watch' = Disarmed
  /\ printed' = Silence
  /\ UNCHANGED dumped

Arm(now) ==
  /\ watch' = [watch EXCEPT !.armed = TRUE, !.since = now, !.looked = now]
  /\ printed' = Silence
  /\ UNCHANGED dumped

Stay ==
  /\ printed' = Silence
  /\ UNCHANGED <<dumped, watch>>

(* The watch, which counts its interval from the last time it looked.      *)
Looks(now) ==
  options.watch /\ watch.count < Limit /\ now - watch.looked >= Interval

Changed(now) == Looks(now) /\ screen' # watch.last

LookedAt(now) ==
  [watch EXCEPT !.looked = IF Looks(now) THEN now ELSE @,
                !.count  = IF Changed(now) THEN @ + 1 ELSE @,
                !.last   = IF Changed(now) THEN screen' ELSE @]

Inspect(now) ==
  /\ dumped' = (dumped \/ options.dump)
  /\ watch' = LookedAt(now)
  /\ printed' = [full |-> options.dump /\ ~dumped,
                 visible |-> IF Changed(now) THEN screen' ELSE None]

Settled(now) == watch.armed /\ now - watch.since >= Settle

(* maybeDump80ColumnState, at the cycle that the step has reached. *)
MaybeDump(now) ==
  /\ IF ~options.dump /\ ~options.watch THEN Stay
     ELSE IF screen' = None             THEN Disarm
     ELSE IF ~watch.armed               THEN Arm(now)
     ELSE IF Settled(now)               THEN Inspect(now)
     ELSE Stay
  /\ UNCHANGED options
=============================================================================
