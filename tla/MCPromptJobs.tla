---------------------------- MODULE MCPromptJobs ----------------------------
EXTENDS PromptJobs, TLC

JobSymmetry == Permutations(Job)

MCGroupOf == [j \in Job |-> CHOOSE g \in Group : TRUE]

VARIABLES
  before,     (* the world when the last command began *)
  contents,   (* what the registered jobs were installed with *)
  torn        (* a registry was replaced by an installation that was undone *)

mcVars == <<vars, before, contents, torn>>

World ==
  [registry |-> registry, files |-> files, loaded |-> loaded,
   enabled |-> enabled, active |-> active]

(* Files, timers and registry agree, and systemd has read them.            *)
InOrder(w) ==
  /\ \A j \in Job : (w.files[j] # NoUnit) = (j \in w.registry.names)
  /\ w.loaded = w.files /\ w.active = w.enabled
  /\ w.enabled = IF w.registry.on THEN w.registry.names ELSE {}

MCInit == Init /\ before = World /\ contents = files /\ torn = FALSE

Remember ==
  /\ before' = IF commands' = commands THEN before ELSE World
  /\ contents' = IF pc = "timers" /\ pc' = "close" THEN files ELSE contents
  /\ torn' = (torn \/ (pc' = "unpublish" /\ registry' # registry))

MCNext == Next /\ Remember

MCSpec == MCInit /\ [][MCNext]_mcVars

-----------------------------------------------------------------------------
(* Everything the last command was asked for is so, on the jobs it names   *)
(* and on those it replaces, and nothing else has changed.                 *)
Carried ==
  LET concerned == command.names \cup command.previous.names IN
  /\ registry = IF command.kind = "install" \/ command.previous.exists
                THEN NewRegistry ELSE command.previous
  /\ \A j \in Job :
       \/ /\ j \in concerned
          /\ files[j] = IF j \in command.names THEN commands ELSE NoUnit
          /\ loaded[j] = files[j]
          /\ (j \in enabled) = (j \in command.names /\ command.on)
          /\ (j \in active) = (j \in enabled)
       \/ /\ j \notin concerned
          /\ files[j] = before.files[j]
          /\ (j \in enabled) = (j \in before.enabled)
          /\ (j \in active) = (j \in before.active)

(* An install or uninstall that succeeds has put the units, the timers and *)
(* the registry exactly into the state asked for, whatever an earlier      *)
(* command that failed or was killed left behind.                          *)
SuccessIsExact == command.outcome = "done" => Carried

(* One that fails, without naming a directory to recover from, leaves the  *)
(* units, what systemd has loaded, the timers and the registry as they     *)
(* were, or, when its last cleanup failed, as asked; never between.        *)
FailureRestores ==
  command.outcome = "failed" /\ InOrder(before) /\ ~torn => World = before \/ Carried

(* At every moment, after a killed command too, the content each job was   *)
(* registered with is in place or in a directory that nothing removes.     *)
NothingIsLost ==
  ~torn =>
    \A j \in registry.names :
      contents[j] \in {files[j], backup[j]} \cup {o[j] : o \in orphaned}
=============================================================================
