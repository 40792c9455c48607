--------------------------- MODULE MCDiagnosedRun ---------------------------
(* Either the diagnostics are off and the controls do everything, or they  *)
(* are on and the run goes on until its limit: what the controls do shows   *)
(* itself to the diagnostics as steps that come late.                      *)
EXTENDS DiagnosedRun

Diagnosed == options.dump \/ options.watch

MCNext == DNext /\ (Diagnosed => /\ UNCHANGED <<control, cancelled>>
                                 /\ machine' = machine /\ loop' # "fatal")

MCSpec == DInit /\ [][MCNext]_dvars /\ Scheduling
=============================================================================
