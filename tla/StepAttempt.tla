---------------------------- MODULE StepAttempt ----------------------------
(***************************************************************************)
(* One attempt of a step that runs commands or renders a prompt            *)
(* (packages/runner/src/steps/automatic, steps/manual, providers and       *)
(* prompts), between the engine's call of execute and its result.          *)
(***************************************************************************)
EXTENDS SpawnedCommand

ASSUME SlotsAssumption == {"main", "probe"} \subseteq Slots

VARIABLES
  attempt,    (* the attempt: its kind and where it is                      *)
  canceled,   (* the runner's cancellation                                  *)
  prompts     (* the agent's files below /run/agent-boot/prompts            *)

attemptVars == <<command, attempt, canceled, prompts>>

Kinds == {"automatic", "prompt", "manual", "provider"}

(* An attempt.                                                             *)
(*   device     a provider logs in by a manual gate, not by credentials    *)
(*   login      the manual gate is that of a provider                      *)
(*   reverify   the provider's version is checked after an installation    *)
(*   over       the foreground command had ended before the last check     *)
(*   verdict    what the attempt comes to                                  *)
NoAttempt(kind) ==
  [kind |-> kind, device |-> FALSE, login |-> FALSE, reverify |-> FALSE, over |-> FALSE,
   pc |-> "idle", verdict |-> "none"]

At(pc) == attempt.pc = pc
Goto(pc) == attempt' = [attempt EXCEPT !.pc = pc]

(* A manual gate returns to the provider it belongs to.                    *)
Return(verdict) ==
  attempt' = IF attempt.login /\ verdict = "succeeded"
             THEN [NoAttempt(attempt.kind) EXCEPT !.pc = "hydrate"]
             ELSE [NoAttempt(attempt.kind) EXCEPT !.pc = "returned", !.verdict = verdict]

ReturnIf(condition) == Return(IF condition THEN "succeeded" ELSE "failed")

Begin ==
  /\ At("idle")
  /\ \E device \in {FALSE, attempt.kind = "provider"} :
       attempt' = [NoAttempt(attempt.kind) EXCEPT
         !.device = device,
         !.pc = CASE attempt.kind = "automatic" -> "run"
                  [] attempt.kind = "prompt" -> "hydrate"
                  [] attempt.kind = "manual" -> "first check"
                  [] attempt.kind = "provider" -> "prepare"]
  /\ UNCHANGED <<command, canceled, prompts>>

(* The commands of the executors, and how they are spawned.                *)
Attended == [stream |-> TRUE, timed |-> TRUE, abortable |-> TRUE, bounded |-> FALSE]
Foreground == [Attended EXCEPT !.stream = FALSE, !.timed = FALSE]
Exec == [Attended EXCEPT !.abortable = FALSE, !.bounded = TRUE]

(* The result of a command has been looked at.                             *)
Taken(s) ==
  /\ command' = [command EXCEPT ![s] = [NoCommand EXCEPT !.group = command[s].group]]
  /\ UNCHANGED <<canceled, prompts>>

Launch(s, options, next) ==
  /\ Spawn(s, options, canceled)
  /\ Goto(next)
  /\ UNCHANGED <<canceled, prompts>>

-----------------------------------------------------------------------------
(* AutomaticStepExecutor, and the command of ProviderStepExecutor          *)

Run ==
  /\ At("run")
  /\ Launch("main", Attended, "running")

Running ==
  /\ At("running") /\ Done("main")
  /\ ReturnIf(Succeeded("main"))
  /\ Taken("main")

-----------------------------------------------------------------------------
(* ManualStepExecutor *)

Check ==
  \/ At("first check") /\ ~canceled /\ Launch("probe", Attended, "first checked")
  \/ At("check") /\ Launch("probe", Attended, "checked")

FirstCheckCanceled ==
  /\ At("first check") /\ canceled
  /\ Return("failed")
  /\ UNCHANGED <<command, canceled, prompts>>

FirstChecked ==
  /\ At("first checked") /\ Done("probe")
  /\ \/ canceled /\ Return("failed")
     \/ ~canceled /\ Succeeded("probe") /\ Return("succeeded")
     \/ ~canceled /\ command["probe"].result = "error" /\ Return("failed")
     \/ ~canceled /\ command["probe"].result \notin {"ok", "error"} /\ Goto("open")
  /\ Taken("probe")

(* The command in the foreground of the terminal, which must be one.       *)
Open ==
  /\ At("open")
  /\ \/ Launch("main", Foreground, "wait")
     \/ Return("failed") /\ UNCHANGED <<command, canceled, prompts>>

StopAs(verdict) == attempt' = [attempt EXCEPT !.pc = "stop", !.verdict = verdict]

(* The foreground command ended, the delay elapsed, or the runner is       *)
(* canceled: whichever wins the race.                                      *)
Wait ==
  /\ At("wait")
  /\ \/ canceled /\ StopAs("failed")
     \/ Done("main") /\ attempt' = [attempt EXCEPT !.pc = "check", !.over = TRUE]
     \/ Goto("check")
  /\ UNCHANGED <<command, canceled, prompts>>

(* Mutant: the foreground command is left to itself.                       *)
CheckedUnstopped ==
  /\ At("checked") /\ Done("probe")
  /\ \/ canceled /\ StopAs("failed")
     \/ ~canceled /\ Succeeded("probe") /\ Return("succeeded")
     \/ ~canceled /\ command["probe"].result = "error" /\ StopAs("failed")
     \/ /\ ~canceled /\ command["probe"].result \notin {"ok", "error"}
        /\ IF attempt.over THEN Return("failed") ELSE Goto("wait")
  /\ Taken("probe")

Checked ==
  /\ At("checked") /\ Done("probe")
  /\ \/ canceled /\ StopAs("failed")
     \/ ~canceled /\ Succeeded("probe") /\ StopAs("succeeded")
     \/ ~canceled /\ command["probe"].result = "error" /\ StopAs("failed")
     \/ /\ ~canceled /\ command["probe"].result \notin {"ok", "error"}
        /\ IF attempt.over THEN Return("failed") ELSE Goto("wait")
  /\ Taken("probe")

StopForeground ==
  /\ At("stop")
  /\ Cancel("main")
  /\ Goto("stopping")
  /\ UNCHANGED <<canceled, prompts>>

ForegroundStopped ==
  /\ At("stopping") /\ Done("main")
  /\ Return(attempt.verdict)
  /\ Taken("main")

-----------------------------------------------------------------------------
(* CodexBootstrapGate: the pinned version, the profile, the login *)

Prepare ==
  /\ At("prepare")
  /\ Goto("version") \/ Return("failed")
  /\ UNCHANGED <<command, canceled, prompts>>

Version ==
  /\ At("version")
  /\ Launch("probe", Exec, "versioned")

Versioned ==
  /\ At("versioned") /\ Done("probe")
  /\ \/ Succeeded("probe") /\ Goto("profile")
     \/ attempt.reverify /\ Return("failed")
     \/ ~attempt.reverify /\ Goto("install")
  /\ Taken("probe")

Install ==
  /\ At("install")
  /\ Launch("main", Attended, "installing")

Installed ==
  /\ At("installing") /\ Done("main")
  /\ IF Succeeded("main")
     THEN attempt' = [attempt EXCEPT !.pc = "version", !.reverify = TRUE]
     ELSE Return("failed")
  /\ Taken("main")

(* NodeCodexProfileStore: the profile is written unless it is right, and   *)
(* verified again.                                                         *)
EnsureProfile ==
  /\ At("profile")
  /\ Goto("verify profile") \/ Return("failed")
  /\ UNCHANGED <<command, canceled, prompts>>

VerifyProfile ==
  /\ At("verify profile")
  /\ \/ /\ attempt.device
        /\ attempt' = [NoAttempt("provider") EXCEPT !.login = TRUE, !.pc = "first check"]
     \/ ~attempt.device /\ attempt' = [NoAttempt("provider") EXCEPT !.pc = "login"]
     \/ Return("failed")
  /\ UNCHANGED <<command, canceled, prompts>>

Login ==
  /\ At("login")
  /\ Launch("probe", Exec, "logged in")

LoggedIn ==
  /\ At("logged in") /\ Done("probe")
  /\ IF Succeeded("probe") THEN Goto("hydrate") ELSE Return("failed")
  /\ Taken("probe")

-----------------------------------------------------------------------------
(* PromptHydrator and EphemeralPromptStore *)

(* AssemblyResourceResolver: the template, if it is the one of the         *)
(* manifest; its variables, from the environment or from the secrets below *)
(* /run/agent-boot; and its rendering, where each may be missing.          *)
Resolve ==
  /\ At("hydrate")
  /\ Goto("substitute") \/ Return("failed")
  /\ UNCHANGED <<command, canceled, prompts>>

Substitute ==
  /\ At("substitute")
  /\ Goto("render") \/ Return("failed")
  /\ UNCHANGED <<command, canceled, prompts>>

Render ==
  /\ At("render")
  /\ Goto("write") \/ Return("failed")
  /\ UNCHANGED <<command, canceled, prompts>>

(* A temporary file, then a rename and a chmod; the temporary file of a    *)
(* write that failed is removed, if that does not fail too.                *)
WritePrompt ==
  /\ At("write")
  /\ \/ prompts' = prompts \cup {"rendered"} /\ Goto("unhydrate")
     \/ /\ prompts' \in {prompts, prompts \cup {"temporary"}, prompts \cup {"rendered"}}
        /\ Return("failed")
  /\ UNCHANGED <<command, canceled>>

(* Mutant: a prompt that cannot be removed does not stop the attempt.      *)
UnhydrateQuietly ==
  /\ At("unhydrate")
  /\ prompts' \in {prompts \ {"rendered"}, prompts}
  /\ IF attempt.kind = "provider" THEN Goto("run") ELSE Return("succeeded")
  /\ UNCHANGED <<command, canceled>>

(* The rendered prompt is removed before it is used: the provider reads it *)
(* from its standard input.                                                *)
Unhydrate ==
  /\ At("unhydrate")
  /\ \/ /\ prompts' = prompts \ {"rendered"}
        /\ IF attempt.kind = "provider" THEN Goto("run") ELSE Return("succeeded")
     \/ UNCHANGED prompts /\ Return("failed")
  /\ UNCHANGED <<command, canceled>>

-----------------------------------------------------------------------------
Execute ==
  \/ Run \/ Running
  \/ Check \/ FirstCheckCanceled \/ FirstChecked \/ Open \/ Wait \/ Checked
  \/ StopForeground \/ ForegroundStopped
  \/ Prepare \/ Version \/ Versioned \/ Install \/ Installed \/ EnsureProfile \/ VerifyProfile
  \/ Login \/ LoggedIn
  \/ Resolve \/ Substitute \/ Render \/ WritePrompt \/ Unhydrate

(* What the host and the processes do under an attempt.                    *)
Under == UNCHANGED <<attempt, canceled, prompts>>

CommandEvent ==
  /\ \E s \in Slots : Host(s) \/ Overflow(s)
  /\ Under

ProcessEvent == Processes /\ Under

InProgress == attempt.pc \notin {"idle", "returned"}

Labels ==
  {"idle", "run", "running", "first check", "first checked", "open", "wait", "check", "checked",
   "stop", "stopping", "prepare", "version", "versioned", "install", "installing", "profile",
   "verify profile", "login", "logged in", "hydrate", "substitute", "render", "write", "unhydrate", "returned"}

AttemptTypeOK ==
  /\ CommandTypeOK
  /\ attempt \in [kind : Kinds, device : BOOLEAN, login : BOOLEAN, reverify : BOOLEAN,
                  over : BOOLEAN, pc : Labels, verdict : {"none", "succeeded", "failed"}]
  /\ canceled \in BOOLEAN
  /\ prompts \subseteq {"temporary", "rendered"}

(* When an attempt has returned, no process group it started is left.      *)
ReturnsAlone == ~InProgress => \A s \in Slots : command[s].group = {}

(* No rendered prompt, with the secrets in it, is on disk while a command  *)
(* of the attempt runs after its rendering, or when it has succeeded.      *)
PromptIsGone ==
  \/ At("run") \/ At("running")
  \/ At("returned") /\ attempt.verdict = "succeeded"
  => "rendered" \notin prompts
=============================================================================
