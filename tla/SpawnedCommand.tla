--------------------------- MODULE SpawnedCommand ---------------------------
(***************************************************************************)
(* The spawn host (packages/process/src/spawn.ts, process-group.ts): a     *)
(* command runs in a process group of its own, is terminated on            *)
(* cancellation and timeout, and takes its descendants along when its      *)
(* leader exits.  Every command here has the lifetime "managed"; no code   *)
(* of the repository spawns a detached one.                                *)
(*                                                                         *)
(* A command's descendants are one that stays in the group and one that    *)
(* escapes it (setsid) with the output pipes open.  Whether a process      *)
(* obeys SIGTERM is its own affair: it may exit at any time, or never; a   *)
(* SIGKILL to the group takes everyone in it.                              *)
(***************************************************************************)
EXTENDS Naturals

CONSTANT Slots     (* the commands that may run at the same time *)

VARIABLE command   (* what each slot runs, as the spawn host sees it *)

Members == {"leader", "child"}
Results == {"none", "pending", "ok", "failed", "canceled", "timeout", "error"}

(* A slot without a command.                                               *)
(*   stream       output goes through pipes, not to the terminal           *)
(*   timed        the timer runs                                           *)
(*   abortable    the command listens to the runner's cancellation         *)
(*   bounded      the output is collected up to a limit                    *)
(*   group        the living members of the process group                  *)
(*   escaped      a descendant outside of the group holds the pipes        *)
(*   status       what the leader exited with                              *)
(*   exited, settled   the events "exit", and "close" or "error", came     *)
(*   requested    why termination was asked for                            *)
(*   termination  terminateProcessGroup: not called, between SIGTERM and   *)
(*                its end, over                                            *)
(*   result       what the completion promise came to                      *)
NoCommand ==
  [stream |-> TRUE, timed |-> FALSE, abortable |-> FALSE, bounded |-> FALSE,
   group |-> {}, escaped |-> FALSE, status |-> "failed", exited |-> FALSE, settled |-> FALSE,
   requested |-> "none", termination |-> "none", result |-> "none"]

Commands ==
  [stream : BOOLEAN, timed : BOOLEAN, abortable : BOOLEAN, bounded : BOOLEAN,
   group : SUBSET Members, escaped : BOOLEAN, status : {"ok", "failed"},
   exited : BOOLEAN, settled : BOOLEAN, requested : {"none", "canceled", "timeout"},
   termination : {"none", "grace", "done"}, result : Results]

Pending(s) == command[s].result = "pending"
Done(s) == command[s].result \notin {"none", "pending"}
Succeeded(s) == command[s].result = "ok"

Become(s, c) == command' = [command EXCEPT ![s] = c]

-----------------------------------------------------------------------------
(* What the client does *)

(* spawn: a command that is canceled already is not started; one that      *)
(* cannot be started is an "error" event.                                  *)
Spawn(s, options, canceled) ==
  \/ /\ canceled /\ options.abortable
     /\ Become(s, [NoCommand EXCEPT !.result = "canceled"])
  \/ /\ ~(canceled /\ options.abortable)
     /\ \/ Become(s, [NoCommand EXCEPT !.result = "error"])
        \/ Become(s, [NoCommand EXCEPT !.stream = options.stream, !.timed = options.timed,
                                       !.abortable = options.abortable,
                                       !.bounded = options.bounded,
                                       !.group = {"leader"}, !.result = "pending"])

(* terminateProcessGroup: an empty group is not signaled.                  *)
Terminate(c) == [c EXCEPT !.termination = IF c.group = {} THEN "done" ELSE "grace"]

(* beginTermination: the first request counts, until the leader exited.    *)
BeginTermination(c, reason) ==
  IF c.result # "pending" \/ c.exited \/ c.settled \/ c.requested # "none" THEN c
  ELSE [Terminate(c) EXCEPT !.requested = reason, !.timed = FALSE]

Cancel(s) == Become(s, BeginTermination(command[s], "canceled"))

(* The runner's cancellation reaches every command that listens to it.     *)
Abort ==
  command' = [s \in Slots |->
    IF command[s].abortable THEN BeginTermination(command[s], "canceled") ELSE command[s]]

-----------------------------------------------------------------------------
(* The processes *)

Fork(s) ==
  /\ command[s].group # {}
  /\ Become(s, [command[s] EXCEPT !.group = @ \cup {"child"}])

Escape(s) ==
  /\ command[s].group # {} /\ command[s].stream
  /\ Become(s, [command[s] EXCEPT !.escaped = TRUE])

(* A member exits, by itself or for a SIGTERM.                             *)
MemberExits(s, m) ==
  /\ m \in command[s].group
  /\ \E status \in {"ok", "failed"} :
       /\ m = "leader" \/ status = command[s].status
       /\ Become(s, [command[s] EXCEPT !.group = @ \ {m}, !.status = status])

EscapedExits(s) ==
  /\ command[s].escaped
  /\ Become(s, [command[s] EXCEPT !.escaped = FALSE])

-----------------------------------------------------------------------------
(* The events the host handles *)

Timeout(s) ==
  /\ command[s].timed
  /\ Become(s, BeginTermination(command[s], "timeout"))

(* RuntimeCommandHost.exec: output past the limit cancels the command, and *)
(* fails the call in any case.                                             *)
Overflow(s) ==
  /\ Pending(s) /\ command[s].bounded
  /\ Become(s, [BeginTermination(command[s], "canceled")
                  EXCEPT !.bounded = FALSE, !.requested = "canceled"])

(* Mutant: who ignores SIGTERM is let go.                                  *)
EndGraceGently(s) ==
  /\ command[s].termination = "grace"
  /\ Become(s, [command[s] EXCEPT !.termination = "done"])

(* terminateProcessGroup: the grace period is over, or everybody is gone.  *)
EndGrace(s) ==
  /\ command[s].termination = "grace"
  /\ Become(s, [command[s] EXCEPT !.termination = "done", !.group = {}])

Cleanup(c) == [c EXCEPT !.timed = FALSE, !.abortable = FALSE]

(* Mutant: only a requested termination takes descendants along.           *)
NoManagedCleanup(c) == c

(* beginManagedCleanup: what is left of the group is terminated.           *)
ManagedCleanup(c) == IF c.termination = "none" /\ c.group # {} THEN Terminate(c) ELSE c

LeaderIsGone(s) == Pending(s) /\ "leader" \notin command[s].group

OnExit(s) ==
  /\ LeaderIsGone(s) /\ ~command[s].exited
  /\ Become(s, ManagedCleanup(Cleanup([command[s] EXCEPT !.exited = TRUE])))

(* The pipes of the leader are closed once nobody holds them any more.     *)
OnClose(s) ==
  /\ LeaderIsGone(s) /\ command[s].exited /\ ~command[s].settled
  /\ ~command[s].escaped
  /\ Become(s, ManagedCleanup(Cleanup([command[s] EXCEPT !.settled = TRUE])))

(* The completion: after the termination, if there was one.                *)
Complete(s) ==
  /\ Pending(s) /\ command[s].settled /\ command[s].termination # "grace"
  /\ LET c == command[s]
     IN  Become(s, [NoCommand EXCEPT !.group = c.group, !.escaped = c.escaped,
                     !.result = IF c.requested # "none" THEN c.requested ELSE c.status])

(* systemd kills everything that is left in the service's control group.   *)
KillControlGroup == command' = [s \in Slots |-> NoCommand]

Processes ==
  \E s \in Slots : Fork(s) \/ Escape(s) \/ EscapedExits(s) \/ \E m \in Members : MemberExits(s, m)

Host(s) == Timeout(s) \/ EndGrace(s) \/ OnExit(s) \/ OnClose(s) \/ Complete(s)

Options == [stream : BOOLEAN, timed : BOOLEAN, abortable : BOOLEAN, bounded : BOOLEAN]

-----------------------------------------------------------------------------
(* The host by itself, with any client. *)

CommandInit == command = [s \in Slots |-> NoCommand]

CommandNext ==
  \/ \E s \in Slots, options \in Options, canceled \in BOOLEAN :
       ~Pending(s) /\ Spawn(s, options, canceled)
  \/ \E s \in Slots : Cancel(s) \/ Overflow(s) \/ Host(s)
  \/ Abort \/ Processes \/ KillControlGroup

CommandSpec == CommandInit /\ [][CommandNext]_command

CommandTypeOK == command \in [Slots -> Commands]

(* A command that has completed, however it ended, has left nobody of its  *)
(* process group running (process/README.md, the lifetime "managed").      *)
NothingSurvives == \A s \in Slots : Done(s) => command[s].group = {}

(* A descendant outside the group keeps a command open whose leader has    *)
(* exited; its timer is stopped, and cancellation does nothing.            *)
HeldOpen == \E s \in Slots : Pending(s) /\ command[s].exited /\ command[s].escaped
=============================================================================
