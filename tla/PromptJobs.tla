----------------------------- MODULE PromptJobs -----------------------------
(***************************************************************************)
(* Scheduled prompt jobs on one host: the administrator's commands, and    *)
(* the services that systemd runs of the units they left it with.          *)
(***************************************************************************)
EXTENDS PromptJobUnits, PromptJobRuns

CONSTANTS
  MaxActivities,   (* commands and runs together *)
  MaxTroubles      (* faults of commands and disturbances of runs together *)

vars == <<unitVars, runVars>>

Init == UnitsInit /\ RunsInit

Spare == commands + runs < MaxActivities

(* A timer that elapses, or run-once: what systemd has loaded counts, not  *)
(* what the directory holds.                                               *)
Start(j) == Spare /\ loaded[j] # NoUnit /\ StartService(j)

Step ==
  \/ ((Spare /\ Administer) \/ UnitsStep) /\ UNCHANGED runVars
  \/ (\E j \in Job : Start(j) \/ RunsStep(j)) /\ UNCHANGED unitVars

Next == Step /\ faults' + disturbances' <= MaxTroubles

Spec == Init /\ [][Next]_vars
=============================================================================
