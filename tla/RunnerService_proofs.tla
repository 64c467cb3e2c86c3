------------------------ MODULE RunnerService_proofs ------------------------
(***************************************************************************)
(* Proofs about the spawn host by itself, with any client and any number   *)
(* of commands at a time: whoever completes has left nobody of its group   *)
(* running.  Then about one step under the runner service, for any step    *)
(* kinds, attempts and faults: an attempt returns with no process group    *)
(* left, and no rendered prompt is on disk when its provider runs.         *)
(***************************************************************************)
EXTENDS RunnerService, TLAPS

(* What the host knows of a group: it is empty where no command runs, once *)
(* its termination is over, and when the leader's exit found it empty.     *)
Sound(c) ==
  /\ c.result # "pending" => c.group = {}
  /\ c.termination = "done" => c.group = {}
  /\ c.exited /\ c.termination = "none" => c.group = {}
  /\ c.settled => c.exited

HostInvariant == CommandTypeOK /\ \A s \in Slots : Sound(command[s])

-----------------------------------------------------------------------------
(* The operators on one command                                            *)

(* A slot without a command is one the host may leave behind.              *)
LEMMA NoCommandIsSound == NoCommand \in Commands /\ Sound(NoCommand)
BY DEF NoCommand, Commands, Members, Results, Sound

(* Replacing one command by a sound one changes no other slot.             *)
LEMMA BecomeIsSound ==
  ASSUME HostInvariant, NEW s \in Slots, NEW c \in Commands, Sound(c), Become(s, c)
  PROVE  /\ HostInvariant' /\ command'[s] = c
         /\ \A r \in Slots : r # s => command'[r] = command[r]
BY DEF HostInvariant, CommandTypeOK, Become

(* Asking a command to end keeps its result open.                          *)
LEMMA BeginTerminationIsSound ==
  ASSUME NEW c \in Commands, Sound(c), NEW reason \in {"canceled", "timeout"}
  PROVE  /\ BeginTermination(c, reason) \in Commands /\ Sound(BeginTermination(c, reason))
         /\ BeginTermination(c, reason).result = c.result
         /\ BeginTermination(c, reason).group = c.group
<1>1. CASE c.result # "pending" \/ c.exited \/ c.settled \/ c.requested # "none"
  BY <1>1 DEF BeginTermination
<1>2. CASE ~(c.result # "pending" \/ c.exited \/ c.settled \/ c.requested # "none")
  <2>1. BeginTermination(c, reason) =
          [[c EXCEPT !.termination = IF c.group = {} THEN "done" ELSE "grace"]
             EXCEPT !.requested = reason, !.timed = FALSE]
    BY <1>2 DEF BeginTermination, Terminate
  <2> QED BY <1>2, <2>1 DEF Commands, Sound
<1> QED BY <1>1, <1>2

(* Cleaning up after the leader's exit leaves nothing unterminated.        *)
LEMMA ManagedCleanupIsSound ==
  ASSUME NEW c \in Commands, c.result = "pending", c.exited,
         c.termination = "done" => c.group = {}
  PROVE  /\ ManagedCleanup(Cleanup(c)) \in Commands /\ Sound(ManagedCleanup(Cleanup(c)))
         /\ ManagedCleanup(Cleanup(c)).result = "pending"
<1> DEFINE d == [c EXCEPT !.timed = FALSE, !.abortable = FALSE]
<1>1. /\ d \in Commands /\ d.group = c.group /\ d.termination = c.termination
      /\ d.result = "pending" /\ d.exited
  BY DEF Commands
<1>2. Cleanup(c) = d
  BY DEF Cleanup
<1>3. CASE d.termination = "none" /\ d.group # {}
  <2>1. ManagedCleanup(d) = [d EXCEPT !.termination = "grace"]
    BY <1>3 DEF ManagedCleanup, Terminate
  <2> HIDE DEF d
  <2> QED BY <1>1, <1>2, <2>1 DEF Commands, Sound
<1>4. CASE ~(d.termination = "none" /\ d.group # {})
  <2>1. ManagedCleanup(d) = d
    BY <1>4 DEF ManagedCleanup
  <2> HIDE DEF d
  <2> QED BY <1>1, <1>2, <1>4, <2>1 DEF Commands, Sound
<1> QED BY <1>3, <1>4

-----------------------------------------------------------------------------
(* The operations.  Each keeps the invariant, and leaves the slots it does *)
(* not mention as they are; only a spawn makes a command pending.          *)

Others(s) == \A r \in Slots : r # s => command'[r] = command[r]

LEMMA SpawnIsSound ==
  ASSUME HostInvariant, NEW s \in Slots, NEW options \in Options, NEW aborted \in BOOLEAN,
         Spawn(s, options, aborted)
  PROVE  HostInvariant' /\ Others(s)
<1>1. \A r \in Results :
        r # "pending" => /\ [NoCommand EXCEPT !.result = r] \in Commands
                         /\ Sound([NoCommand EXCEPT !.result = r])
  BY DEF NoCommand, Commands, Members, Results, Sound
<1> DEFINE c == [NoCommand EXCEPT !.stream = options.stream, !.timed = options.timed,
                                  !.abortable = options.abortable,
                                  !.bounded = options.bounded,
                                  !.group = {"leader"}, !.result = "pending"]
<1>2. c \in Commands /\ Sound(c)
  BY DEF NoCommand, Commands, Members, Results, Sound, Options
<1> HIDE DEF c
<1>3. \/ Become(s, [NoCommand EXCEPT !.result = "canceled"])
      \/ Become(s, [NoCommand EXCEPT !.result = "error"])
      \/ Become(s, c)
  BY DEF Spawn, c
<1> QED BY <1>1, <1>2, <1>3, BecomeIsSound DEF Others, Results

(* A request to end a command, for whatever reason.                        *)
LEMMA RequestIsSound ==
  ASSUME HostInvariant, NEW s \in Slots, Cancel(s) \/ Timeout(s)
  PROVE  HostInvariant' /\ Others(s) /\ (Pending(s)' => Pending(s))
<1>1. command[s] \in Commands /\ Sound(command[s])
  BY DEF HostInvariant, CommandTypeOK
<1>2. PICK reason \in {"canceled", "timeout"} : Become(s, BeginTermination(command[s], reason))
  BY DEF Cancel, Timeout
<1>3. /\ BeginTermination(command[s], reason) \in Commands
      /\ Sound(BeginTermination(command[s], reason))
      /\ BeginTermination(command[s], reason).result = command[s].result
  BY <1>1, BeginTerminationIsSound
<1> QED BY <1>2, <1>3, BecomeIsSound DEF Others, Pending

LEMMA OverflowIsSound ==
  ASSUME HostInvariant, NEW s \in Slots, Overflow(s)
  PROVE  HostInvariant' /\ Others(s) /\ (Pending(s)' => Pending(s))
<1> DEFINE b == BeginTermination(command[s], "canceled")
           c == [b EXCEPT !.bounded = FALSE, !.requested = "canceled"]
<1>1. command[s] \in Commands /\ Sound(command[s]) /\ Pending(s)
  BY DEF HostInvariant, CommandTypeOK, Overflow
<1>2. b \in Commands /\ Sound(b) /\ b.result = command[s].result
  BY <1>1, BeginTerminationIsSound
<1> HIDE DEF b
<1>3. c \in Commands /\ Sound(c)
  BY <1>2 DEF Commands, Sound
<1>4. Become(s, c)
  BY DEF Overflow, b
<1> QED BY <1>1, <1>3, <1>4, BecomeIsSound DEF Others

LEMMA AbortIsSound ==
  ASSUME HostInvariant, Abort
  PROVE  /\ HostInvariant'
         /\ \A s \in Slots : /\ Pending(s)' => Pending(s)
                             /\ command'[s].group = command[s].group
<1> SUFFICES ASSUME NEW s \in Slots
             PROVE  /\ command'[s] \in Commands /\ Sound(command'[s])
                    /\ command'[s].result = command[s].result
                    /\ command'[s].group = command[s].group
  BY DEF HostInvariant, CommandTypeOK, Abort, Pending
<1>1. command[s] \in Commands /\ Sound(command[s])
  BY DEF HostInvariant, CommandTypeOK
<1>2. command'[s] = command[s] \/ command'[s] = BeginTermination(command[s], "canceled")
  BY DEF Abort
<1> QED BY <1>1, <1>2, BeginTerminationIsSound

(* What the processes do, with an empty group nothing.                     *)
LEMMA ProcessesAreSound ==
  ASSUME HostInvariant, Processes
  PROVE  HostInvariant' /\ \A s \in Slots : Pending(s)' => Pending(s)
<1>1. PICK s \in Slots :
        Fork(s) \/ Escape(s) \/ EscapedExits(s) \/ \E m \in Members : MemberExits(s, m)
  BY DEF Processes
<1>2. command[s] \in Commands /\ Sound(command[s])
  BY DEF HostInvariant, CommandTypeOK
<1>3. PICK c \in Commands : Sound(c) /\ Become(s, c) /\ c.result = command[s].result
  <2>1. CASE Fork(s)
    <3> DEFINE c == [command[s] EXCEPT !.group = @ \cup {"child"}]
    <3>1. Become(s, c) /\ command[s].group # {}
      BY <2>1 DEF Fork
    <3>2. c \in Commands /\ Sound(c) /\ c.result = command[s].result
      BY <1>2, <3>1 DEF Commands, Members, Sound
    <3> QED BY <3>1, <3>2
  <2>2. CASE Escape(s) \/ EscapedExits(s)
    <3>1. PICK e \in BOOLEAN : Become(s, [command[s] EXCEPT !.escaped = e])
      BY <2>2 DEF Escape, EscapedExits
    <3>2. /\ [command[s] EXCEPT !.escaped = e] \in Commands
          /\ Sound([command[s] EXCEPT !.escaped = e])
          /\ [command[s] EXCEPT !.escaped = e].result = command[s].result
      BY <1>2 DEF Commands, Sound
    <3> QED BY <3>1, <3>2
  <2>3. ASSUME NEW m \in Members, MemberExits(s, m)
        PROVE  \E c \in Commands : Sound(c) /\ Become(s, c) /\ c.result = command[s].result
    <3>1. PICK ended \in {"ok", "failed"} :
            Become(s, [command[s] EXCEPT !.group = @ \ {m}, !.status = ended])
      BY <2>3 DEF MemberExits
    <3> DEFINE c == [command[s] EXCEPT !.group = @ \ {m}, !.status = ended]
    <3>2. c \in Commands /\ Sound(c) /\ c.result = command[s].result
      BY <1>2 DEF Commands, Sound
    <3> QED BY <3>1, <3>2
  <2> QED BY <1>1, <2>1, <2>2, <2>3
<1> QED BY <1>3, BecomeIsSound DEF Pending

(* The host's own steps.                                                   *)
LEMMA HostIsSound ==
  ASSUME HostInvariant, NEW s \in Slots, Host(s)
  PROVE  HostInvariant' /\ Others(s) /\ (Pending(s)' => Pending(s))
<1>1. command[s] \in Commands /\ Sound(command[s])
  BY DEF HostInvariant, CommandTypeOK
<1>2. CASE Timeout(s)
  BY <1>2, RequestIsSound
<1>3. CASE EndGrace(s)
  <2> DEFINE c == [command[s] EXCEPT !.termination = "done", !.group = {}]
  <2>1. c \in Commands /\ Sound(c) /\ c.result = command[s].result
    BY <1>1 DEF Commands, Sound
  <2>2. Become(s, c)
    BY <1>3 DEF EndGrace
  <2> QED BY <2>1, <2>2, BecomeIsSound DEF Others, Pending
<1>4. CASE OnExit(s)
  <2> DEFINE c == [command[s] EXCEPT !.exited = TRUE]
  <2>1. /\ c \in Commands /\ c.result = "pending" /\ c.exited
        /\ c.termination = "done" => c.group = {}
    BY <1>1, <1>4 DEF OnExit, LeaderIsGone, Pending, Commands, Sound
  <2>2. Become(s, ManagedCleanup(Cleanup(c))) /\ Pending(s)
    BY <1>4 DEF OnExit, LeaderIsGone
  <2> HIDE DEF c
  <2>3. ManagedCleanup(Cleanup(c)) \in Commands /\ Sound(ManagedCleanup(Cleanup(c)))
    BY <2>1, ManagedCleanupIsSound
  <2> QED BY <2>2, <2>3, BecomeIsSound DEF Others
<1>5. CASE OnClose(s)
  <2> DEFINE c == [command[s] EXCEPT !.settled = TRUE]
  <2>1. /\ c \in Commands /\ c.result = "pending" /\ c.exited
        /\ c.termination = "done" => c.group = {}
    BY <1>1, <1>5 DEF OnClose, LeaderIsGone, Pending, Commands, Sound
  <2>2. Become(s, ManagedCleanup(Cleanup(c))) /\ Pending(s)
    BY <1>5 DEF OnClose, LeaderIsGone
  <2> HIDE DEF c
  <2>3. ManagedCleanup(Cleanup(c)) \in Commands /\ Sound(ManagedCleanup(Cleanup(c)))
    BY <2>1, ManagedCleanupIsSound
  <2> QED BY <2>2, <2>3, BecomeIsSound DEF Others
<1>6. CASE Complete(s)
  <2>1. command[s].group = {}
    BY <1>1, <1>6 DEF Complete, Commands, Sound
  <2>2. PICK r \in Results, e \in BOOLEAN :
          Become(s, [NoCommand EXCEPT !.group = {}, !.escaped = e, !.result = r])
    BY <1>1, <1>6, <2>1 DEF Complete, Commands, Results
  <2> DEFINE c == [NoCommand EXCEPT !.group = {}, !.escaped = e, !.result = r]
  <2>3. c \in Commands /\ Sound(c)
    BY DEF Commands, NoCommand, Members, Results, Sound
  <2>4. Pending(s) /\ Become(s, c)
    BY <1>6, <2>2 DEF Complete
  <2> QED BY <2>3, <2>4, BecomeIsSound DEF Others
<1> QED BY <1>2, <1>3, <1>4, <1>5, <1>6 DEF Host

LEMMA KillControlGroupIsSound ==
  ASSUME KillControlGroup
  PROVE  HostInvariant' /\ \A s \in Slots : ~Pending(s)' /\ command'[s].group = {}
BY NoCommandIsSound DEF KillControlGroup, HostInvariant, CommandTypeOK, Pending, NoCommand

-----------------------------------------------------------------------------
(* The host with any client                                                *)

LEMMA HostInit == CommandInit => HostInvariant
BY NoCommandIsSound DEF CommandInit, HostInvariant, CommandTypeOK

LEMMA HostStep ==
  ASSUME HostInvariant, [CommandNext]_command
  PROVE  HostInvariant'
<1>1. CASE UNCHANGED command
  BY <1>1 DEF HostInvariant, CommandTypeOK
<1>2. ASSUME NEW s \in Slots, NEW options \in Options, NEW aborted \in BOOLEAN,
             Spawn(s, options, aborted)
      PROVE  HostInvariant'
  BY <1>2, SpawnIsSound
<1>3. ASSUME NEW s \in Slots, Cancel(s) \/ Overflow(s) \/ Host(s)
      PROVE  HostInvariant'
  BY <1>3, RequestIsSound, OverflowIsSound, HostIsSound
<1>4. CASE Abort \/ Processes \/ KillControlGroup
  BY <1>4, AbortIsSound, ProcessesAreSound, KillControlGroupIsSound
<1> QED BY <1>1, <1>2, <1>3, <1>4 DEF CommandNext

(* What the host knows of its process groups is true whatever a client     *)
(* asks of it and however its processes exit (spawn.ts).                   *)
THEOREM HostInvariance == CommandSpec => []HostInvariant
<1>1. CommandInit => HostInvariant
  BY HostInit
<1>2. HostInvariant /\ [CommandNext]_command => HostInvariant'
  BY HostStep
<1> QED BY <1>1, <1>2, PTL DEF CommandSpec

(* Whatever a client asks for and in whichever order exits, timeouts and   *)
(* the end of the pipes come, a command that has completed has left nobody *)
(* of its process group running (spawn.ts: spawnManagedCommand).           *)
THEOREM Containment == CommandSpec => []NothingSurvives
<1>1. HostInvariant => NothingSurvives
  BY DEF HostInvariant, Sound, NothingSurvives, Done
<1> QED BY <1>1, HostInvariance, PTL

-----------------------------------------------------------------------------
(* One step under the runner service                                       *)

(* Where an attempt has a command in the slot "main", or in "probe".       *)
MainPlaces == {"running", "installing", "wait", "check", "checked", "stop", "stopping"}
ProbePlaces == {"first checked", "checked", "versioned", "logged in"}

(* No command runs but those the place of the attempt speaks of: no step   *)
(* spawns over a command that runs.                                        *)
SlotsAreFree ==
  \A s \in Slots : Pending(s) => \/ s = "main" /\ attempt.pc \in MainPlaces
                                 \/ s = "probe" /\ attempt.pc \in ProbePlaces

(* The foreground command that is known to have ended still has, and the   *)
(* verdict is known by the time the command is stopped.                    *)
OverIsOver ==
  /\ attempt.over => /\ attempt.pc \in {"check", "checked", "stop", "stopping"}
                     /\ attempt.pc \in {"check", "checked"} => ~Pending("main")
  /\ attempt.pc \in {"stop", "stopping"} => attempt.verdict \in {"succeeded", "failed"}

(* Which kinds of step pass through which places.                          *)
ManualPlaces ==
  {"first check", "first checked", "open", "wait", "check", "checked", "stop", "stopping"}
GatePlaces ==
  {"prepare", "version", "versioned", "install", "installing", "profile", "verify profile",
   "login", "logged in"}
PromptPlaces == {"hydrate", "substitute", "render", "write", "unhydrate"}

KindHasPlace ==
  /\ attempt.pc \in ManualPlaces => attempt.kind = (IF attempt.login THEN "provider" ELSE "manual")
  /\ attempt.pc \in GatePlaces => attempt.kind = "provider"
  /\ attempt.pc \in PromptPlaces => attempt.kind \in {"prompt", "provider"}
  /\ attempt.login => attempt.pc \in ManualPlaces

(* Only what renders a prompt ever leaves one.                             *)
PromptsAreRendered == attempt.kind \in {"automatic", "manual"} => prompts = {}

AttemptInvariant ==
  /\ HostInvariant
  /\ attempt \in [kind : Kinds, device : BOOLEAN, login : BOOLEAN, reverify : BOOLEAN,
                  over : BOOLEAN, pc : Labels, verdict : {"none", "succeeded", "failed"}]
  /\ canceled \in BOOLEAN
  /\ prompts \subseteq {"temporary", "rendered"}
  /\ SlotsAreFree /\ OverIsOver
  /\ KindHasPlace /\ PromptsAreRendered /\ PromptIsGone

(* Who has returned runs nothing.                                          *)
LEMMA NobodyIsLeft == AttemptInvariant => ReturnsAlone
BY DEF AttemptInvariant, HostInvariant, SlotsAreFree, Sound, ReturnsAlone, InProgress, Pending,
       MainPlaces, ProbePlaces

-----------------------------------------------------------------------------
(* What steps have in common                                               *)

Attempts ==
  [kind : Kinds, device : BOOLEAN, login : BOOLEAN, reverify : BOOLEAN,
   over : BOOLEAN, pc : Labels, verdict : {"none", "succeeded", "failed"}]

Fresh(kind, pc, verdict) ==
  [kind |-> kind, device |-> FALSE, login |-> FALSE, reverify |-> FALSE, over |-> FALSE,
   pc |-> pc, verdict |-> verdict]

(* A result that was looked at leaves its slot free.                       *)
LEMMA TakenIsSound ==
  ASSUME HostInvariant, NEW s \in Slots, Done(s), Taken(s)
  PROVE  /\ HostInvariant' /\ Others(s) /\ ~Pending(s)'
         /\ UNCHANGED <<canceled, prompts>>
<1> DEFINE c == [NoCommand EXCEPT !.group = {}]
<1>1. command[s].group = {}
  BY DEF HostInvariant, Sound, Done
<1>2. Become(s, c) /\ UNCHANGED <<canceled, prompts>>
  BY <1>1 DEF Taken, Become
<1>3. c \in Commands /\ Sound(c) /\ c.result = "none"
  BY DEF Commands, NoCommand, Members, Results, Sound
<1> QED BY <1>2, <1>3, BecomeIsSound DEF Others, Pending

LEMMA LaunchIsSound ==
  ASSUME HostInvariant, canceled \in BOOLEAN, NEW s \in Slots, NEW options \in Options,
         NEW next, Launch(s, options, next)
  PROVE  /\ HostInvariant' /\ Others(s) /\ Goto(next)
         /\ UNCHANGED <<canceled, prompts>>
BY SpawnIsSound DEF Launch

LEMMA OptionsAreTyped == Attended \in Options /\ Foreground \in Options /\ Exec \in Options
BY DEF Attended, Foreground, Exec, Options

(* Who returns takes no command along.                                     *)
LEMMA ReturnPreserves ==
  ASSUME AttemptInvariant, NEW verdict \in {"succeeded", "failed"}, Return(verdict),
         HostInvariant', \A s \in Slots : ~Pending(s)', UNCHANGED canceled,
         prompts' \subseteq {"temporary", "rendered"},
         PromptsAreRendered', verdict = "succeeded" /\ ~attempt.login => "rendered" \notin prompts'
  PROVE  AttemptInvariant'
<1>1. \/ attempt.login /\ attempt' = Fresh(attempt.kind, "hydrate", "none")
      \/ (~attempt.login \/ verdict = "failed") /\ attempt' = Fresh(attempt.kind, "returned", verdict)
  BY DEF Return, NoAttempt, Fresh
<1>2. attempt \in Attempts
  BY DEF AttemptInvariant, Attempts
<1>3. attempt.login => attempt.kind = "provider"
  BY DEF AttemptInvariant, KindHasPlace
<1>4. attempt' \in Attempts
  <2>1. \A kind \in Kinds, pc \in Labels, v \in {"none", "succeeded", "failed"} :
          Fresh(kind, pc, v) \in Attempts
    BY DEF Attempts, Fresh
  <2>2. attempt.kind \in Kinds
    BY <1>2 DEF Attempts
  <2>3. "hydrate" \in Labels /\ "returned" \in Labels
    BY DEF Labels
  <2> QED BY <1>1, <2>1, <2>2, <2>3
<1>5. SlotsAreFree' /\ OverIsOver'
  BY <1>1, SlotsAssumption DEF SlotsAreFree, OverIsOver, Fresh
<1>6. KindHasPlace'
  <2>1. attempt'.login = FALSE /\ attempt'.kind = attempt.kind
    BY <1>1 DEF Fresh
  <2>2. \/ attempt'.pc = "hydrate" /\ attempt.kind = "provider"
        \/ attempt'.pc = "returned"
    BY <1>1, <1>3 DEF Fresh
  <2> QED BY <2>1, <2>2 DEF KindHasPlace, ManualPlaces, GatePlaces, PromptPlaces
<1>7. PromptIsGone'
  <2>1. CASE attempt'.pc = "hydrate"
    BY <2>1 DEF PromptIsGone, At
  <2>2. CASE /\ attempt'.pc = "returned" /\ attempt'.verdict = verdict
             /\ ~attempt.login \/ verdict = "failed"
    BY <2>2 DEF PromptIsGone, At
  <2> QED BY <1>1, <2>1, <2>2 DEF Fresh
<1> QED BY <1>7, <1>4, <1>5, <1>6 DEF AttemptInvariant, Attempts

(* A step to the next place.                                               *)
LEMMA GotoPreserves ==
  ASSUME AttemptInvariant, NEW pc \in Labels, Goto(pc), HostInvariant',
         UNCHANGED <<canceled, prompts>>,
         SlotsAreFree', OverIsOver',
         pc \in ManualPlaces => attempt.pc \in ManualPlaces,
         pc \in GatePlaces => attempt.pc \in GatePlaces,
         pc \in PromptPlaces => attempt.pc \in PromptPlaces \cup GatePlaces,
         pc \notin ManualPlaces => attempt.pc \notin ManualPlaces,
         pc \in {"run", "running"} => "rendered" \notin prompts,
         pc # "returned"
  PROVE  AttemptInvariant'
<1>1. attempt \in Attempts /\ attempt' = [attempt EXCEPT !.pc = pc]
  BY DEF AttemptInvariant, Attempts, Goto
<1>2. /\ attempt' \in Attempts /\ attempt'.pc = pc
      /\ attempt'.kind = attempt.kind /\ attempt'.login = attempt.login
  BY <1>1 DEF Attempts
<1>3. KindHasPlace'
  BY <1>2 DEF AttemptInvariant, KindHasPlace
<1>4. PromptsAreRendered' /\ PromptIsGone'
  BY <1>2 DEF AttemptInvariant, PromptsAreRendered, PromptIsGone, At
<1> QED BY <1>2, <1>3, <1>4 DEF AttemptInvariant, Attempts

(* The same within the places of a manual gate, of a provider's gate and   *)
(* of a prompt, and from the second of these into the third.               *)
LEMMA PlacesAreApart ==
  /\ ManualPlaces \subseteq Labels /\ GatePlaces \subseteq Labels /\ PromptPlaces \subseteq Labels
  /\ ManualPlaces \cap GatePlaces = {} /\ ManualPlaces \cap PromptPlaces = {}
  /\ GatePlaces \cap PromptPlaces = {}
  /\ \A pc \in ManualPlaces \cup GatePlaces \cup PromptPlaces :
       pc \notin {"run", "running", "returned"}
BY DEF ManualPlaces, GatePlaces, PromptPlaces, Labels

LEMMA StaysPreserves ==
  ASSUME AttemptInvariant, NEW pc, Goto(pc), HostInvariant',
         UNCHANGED <<canceled, prompts>>, SlotsAreFree', OverIsOver',
         \/ pc \in ManualPlaces /\ attempt.pc \in ManualPlaces
         \/ pc \in GatePlaces /\ attempt.pc \in GatePlaces
         \/ pc \in PromptPlaces /\ attempt.pc \in PromptPlaces \cup GatePlaces
  PROVE  AttemptInvariant'
BY PlacesAreApart, GotoPreserves

-----------------------------------------------------------------------------
(* Automatic steps, and the command of a provider                          *)

LEMMA RunPreserves ==
  ASSUME AttemptInvariant, Run \/ Running
  PROVE  AttemptInvariant'
<1>1. "main" \in Slots /\ HostInvariant /\ canceled \in BOOLEAN
  BY SlotsAssumption DEF AttemptInvariant
<1>2. CASE Run
  <2>1. HostInvariant' /\ Others("main") /\ Goto("running") /\ UNCHANGED <<canceled, prompts>>
    BY <1>1, <1>2, LaunchIsSound, OptionsAreTyped DEF Run
  <2>2. attempt'.pc = "running" /\ ~attempt'.over /\ "rendered" \notin prompts
    BY <1>2, <2>1 DEF Run, At, AttemptInvariant, OverIsOver, PromptIsGone, Goto
  <2>3. SlotsAreFree' /\ OverIsOver'
    BY <1>2, <2>1, <2>2 DEF AttemptInvariant, SlotsAreFree, OverIsOver, Run, At, Others, Pending,
       MainPlaces, ProbePlaces
  <2>4. attempt.pc = "run"
    BY <1>2 DEF Run, At
  <2> QED BY <2>1, <2>2, <2>3, <2>4, GotoPreserves DEF Labels, ManualPlaces, GatePlaces, PromptPlaces
<1>3. CASE Running
  <2>1. HostInvariant' /\ Others("main") /\ ~Pending("main")' /\ UNCHANGED <<canceled, prompts>>
    BY <1>1, <1>3, TakenIsSound DEF Running
  <2>2. \A s \in Slots : ~Pending(s)'
    BY <1>3, <2>1 DEF AttemptInvariant, SlotsAreFree, Running, At, Others, Pending, MainPlaces, ProbePlaces
  <2>3. PICK verdict \in {"succeeded", "failed"} : Return(verdict)
    BY <1>3 DEF Running, ReturnIf
  <2>4. attempt.kind' = attempt.kind
    BY <2>3 DEF Return, NoAttempt
  <2>5. PromptsAreRendered' /\ "rendered" \notin prompts'
    BY <1>3, <2>1, <2>4 DEF AttemptInvariant, PromptsAreRendered, PromptIsGone, Running, At
  <2> QED BY <2>1, <2>2, <2>3, <2>5, ReturnPreserves DEF AttemptInvariant
<1> QED BY <1>2, <1>3

-----------------------------------------------------------------------------
(* Manual steps                                                            *)

(* Where nothing runs, a launch makes a place busy with its slot.          *)
LEMMA LaunchMoves ==
  ASSUME AttemptInvariant, NEW s \in {"main", "probe"}, NEW options \in Options,
         NEW pc \in Labels, Launch(s, options, pc),
         s = "main" => pc \in MainPlaces,
         s = "probe" => pc \in ProbePlaces,
         attempt.pc \in MainPlaces => s = "probe" /\ pc \in MainPlaces,
         attempt.pc \notin ProbePlaces,
         pc \notin {"check", "stop", "stopping"},
         pc = "checked" => attempt.pc = "check",
         attempt.pc = "check" => pc = "checked",
         attempt.pc \notin {"stop", "stopping"}
  PROVE  /\ HostInvariant' /\ SlotsAreFree' /\ OverIsOver'
         /\ Goto(pc) /\ UNCHANGED <<canceled, prompts>>
<1>1. s \in Slots /\ HostInvariant /\ canceled \in BOOLEAN
  BY SlotsAssumption DEF AttemptInvariant
<1>2. HostInvariant' /\ Others(s) /\ Goto(pc) /\ UNCHANGED <<canceled, prompts>>
  BY <1>1, LaunchIsSound
<1>3. attempt'.pc = pc /\ attempt'.over = attempt.over /\ pc \notin {"stop", "stopping"}
  BY <1>2 DEF AttemptInvariant, Goto
<1>4. SlotsAreFree'
  BY <1>2, <1>3 DEF AttemptInvariant, SlotsAreFree, Others, Pending
<1>5. OverIsOver'
  <2>1. attempt.over => attempt.pc = "check" /\ ~Pending("main")
    BY DEF AttemptInvariant, OverIsOver, ProbePlaces
  <2>2. attempt.pc = "check" => s = "probe" /\ pc = "checked"
    BY DEF MainPlaces
  <2>3. attempt.over => attempt'.pc = "checked" /\ ~Pending("main")'
    BY <1>2, <1>3, <2>1, <2>2, SlotsAssumption DEF Others, Pending
  <2> QED BY <1>3, <2>3 DEF OverIsOver
<1> QED BY <1>2, <1>4, <1>5

(* An attempt that fails, or a gate that is done, where no command runs.   *)
LEMMA FailsPreserves ==
  ASSUME AttemptInvariant, NEW verdict \in {"succeeded", "failed"}, Return(verdict),
         UNCHANGED <<canceled, prompts>>,
         HostInvariant', \A s \in Slots : ~Pending(s)',
         verdict = "succeeded" => attempt.pc \in ManualPlaces
  PROVE  AttemptInvariant'
<1>1. PromptsAreRendered'
  BY DEF AttemptInvariant, PromptsAreRendered, Return, NoAttempt
<1>2. verdict = "succeeded" /\ ~attempt.login => "rendered" \notin prompts'
  BY DEF AttemptInvariant, KindHasPlace, PromptsAreRendered
<1> QED BY <1>1, <1>2, ReturnPreserves DEF AttemptInvariant

LEMMA CheckPreserves ==
  ASSUME AttemptInvariant, Check \/ Open
  PROVE  AttemptInvariant'
<1>1. CASE At("first check") /\ Launch("probe", Attended, "first checked")
  <2>1. HostInvariant' /\ SlotsAreFree' /\ OverIsOver' /\ Goto("first checked") /\ UNCHANGED <<canceled, prompts>>
    BY <1>1, LaunchMoves, OptionsAreTyped DEF At, Labels, MainPlaces, ProbePlaces
  <2>2. attempt.pc \in ManualPlaces /\ "first checked" \in ManualPlaces
    BY <1>1 DEF At, ManualPlaces
  <2> QED BY <2>1, <2>2, StaysPreserves
<1>2. CASE At("check") /\ Launch("probe", Attended, "checked")
  <2>1. HostInvariant' /\ SlotsAreFree' /\ OverIsOver' /\ Goto("checked") /\ UNCHANGED <<canceled, prompts>>
    BY <1>2, LaunchMoves, OptionsAreTyped DEF At, Labels, MainPlaces, ProbePlaces
  <2>2. attempt.pc \in ManualPlaces /\ "checked" \in ManualPlaces
    BY <1>2 DEF At, ManualPlaces
  <2> QED BY <2>1, <2>2, StaysPreserves
<1>3. CASE At("open") /\ Launch("main", Foreground, "wait")
  <2>1. HostInvariant' /\ SlotsAreFree' /\ OverIsOver' /\ Goto("wait") /\ UNCHANGED <<canceled, prompts>>
    BY <1>3, LaunchMoves, OptionsAreTyped DEF At, Labels, MainPlaces, ProbePlaces
  <2>2. attempt.pc \in ManualPlaces /\ "wait" \in ManualPlaces
    BY <1>3 DEF At, ManualPlaces
  <2> QED BY <2>1, <2>2, StaysPreserves
<1>4. CASE At("open") /\ Return("failed") /\ UNCHANGED <<command, canceled, prompts>>
  <2>1. HostInvariant' /\ \A s \in Slots : ~Pending(s)'
    BY <1>4 DEF AttemptInvariant, HostInvariant, CommandTypeOK, SlotsAreFree, At, Pending,
       MainPlaces, ProbePlaces
  <2> QED BY <1>4, <2>1, FailsPreserves
<1> QED BY <1>1, <1>2, <1>3, <1>4 DEF Check, Open

LEMMA FirstCheckPreserves ==
  ASSUME AttemptInvariant, FirstCheckCanceled \/ FirstChecked
  PROVE  AttemptInvariant'
<1>1. CASE FirstCheckCanceled
  <2>1. HostInvariant' /\ \A s \in Slots : ~Pending(s)'
    BY <1>1 DEF AttemptInvariant, HostInvariant, CommandTypeOK, SlotsAreFree, FirstCheckCanceled, At,
       Pending, MainPlaces, ProbePlaces
  <2> QED BY <1>1, <2>1, FailsPreserves DEF FirstCheckCanceled
<1>2. CASE FirstChecked
  <2>1. HostInvariant' /\ Others("probe") /\ ~Pending("probe")' /\ UNCHANGED <<canceled, prompts>>
    BY <1>2, SlotsAssumption, TakenIsSound DEF AttemptInvariant, FirstChecked
  <2>2. \A s \in Slots : ~Pending(s)'
    BY <1>2, <2>1 DEF AttemptInvariant, SlotsAreFree, FirstChecked, At, Others, Pending,
       MainPlaces, ProbePlaces
  <2>3. CASE Goto("open")
    <3>0. attempt'.pc = "open" /\ ~attempt'.over
      BY <1>2, <2>3 DEF AttemptInvariant, Goto, OverIsOver, FirstChecked, At
    <3>1. SlotsAreFree' /\ OverIsOver'
      BY <2>2, <3>0 DEF SlotsAreFree, OverIsOver
    <3>2. attempt.pc \in ManualPlaces /\ "open" \in ManualPlaces
      BY <1>2 DEF FirstChecked, At, ManualPlaces
    <3> QED BY <2>1, <2>3, <3>1, <3>2, StaysPreserves
  <2>4. ASSUME NEW verdict \in {"succeeded", "failed"}, Return(verdict)
        PROVE  AttemptInvariant'
    BY <1>2, <2>1, <2>2, <2>4, FailsPreserves DEF FirstChecked, At, ManualPlaces
  <2> QED BY <1>2, <2>3, <2>4 DEF FirstChecked
<1> QED BY <1>1, <1>2

(* A step within the loop or out of it, with the foreground command.       *)
LEMMA LoopPreserves ==
  ASSUME AttemptInvariant, HostInvariant', UNCHANGED <<canceled, prompts>>,
         attempt.pc \in {"wait", "checked"},
         NEW pc \in {"wait", "check", "stop"}, NEW over \in BOOLEAN,
         NEW verdict \in {"none", "succeeded", "failed"},
         attempt' = [attempt EXCEPT !.pc = pc, !.over = over, !.verdict = verdict],
         \A s \in Slots : Pending(s)' => s = "main",
         over => pc # "wait" /\ (pc = "check" => ~Pending("main")'),
         pc = "stop" => verdict # "none"
  PROVE  AttemptInvariant'
<1>1. /\ attempt' \in Attempts /\ attempt'.pc = pc /\ attempt'.over = over
      /\ attempt'.verdict = verdict /\ attempt'.kind = attempt.kind /\ attempt'.login = attempt.login
  BY DEF AttemptInvariant, Attempts, Labels
<1>2. SlotsAreFree' /\ OverIsOver'
  BY <1>1 DEF SlotsAreFree, OverIsOver, MainPlaces
<1>3. KindHasPlace'
  BY <1>1 DEF AttemptInvariant, KindHasPlace, ManualPlaces, GatePlaces, PromptPlaces
<1>4. PromptsAreRendered' /\ PromptIsGone'
  BY <1>1 DEF AttemptInvariant, PromptsAreRendered, PromptIsGone, At
<1> QED BY <1>1, <1>2, <1>3, <1>4 DEF AttemptInvariant, Attempts

LEMMA LoopStepPreserves ==
  ASSUME AttemptInvariant, Wait \/ Checked
  PROVE  AttemptInvariant'
<1>1. CASE Wait
  <2>1. HostInvariant' /\ UNCHANGED <<canceled, prompts>> /\ attempt.pc = "wait"
    BY <1>1 DEF AttemptInvariant, HostInvariant, CommandTypeOK, Wait, At
  <2>2. /\ \A s \in Slots : Pending(s)' => s = "main"
        /\ Done("main") => ~Pending("main")'
        /\ ~attempt.over
    BY <1>1 DEF AttemptInvariant, SlotsAreFree, OverIsOver, Wait, At, Pending, Done, ProbePlaces
  <2>3. attempt \in Attempts
    BY DEF AttemptInvariant, Attempts
  <2>4. CASE StopAs("failed")
    <3>1. attempt' = [attempt EXCEPT !.pc = "stop", !.over = FALSE, !.verdict = "failed"]
      BY <2>2, <2>3, <2>4 DEF StopAs, Attempts
    <3> QED BY <2>1, <2>2, <3>1, LoopPreserves
  <2>5. CASE Done("main") /\ attempt' = [attempt EXCEPT !.pc = "check", !.over = TRUE]
    <3>1. /\ attempt' = [attempt EXCEPT !.pc = "check", !.over = TRUE, !.verdict = attempt.verdict]
          /\ attempt.verdict \in {"none", "succeeded", "failed"}
      BY <2>3, <2>5 DEF Attempts
    <3> QED BY <2>1, <2>2, <2>5, <3>1, LoopPreserves
  <2>6. CASE Goto("check")
    <3>1. /\ attempt' = [attempt EXCEPT !.pc = "check", !.over = FALSE, !.verdict = attempt.verdict]
          /\ attempt.verdict \in {"none", "succeeded", "failed"}
      BY <2>2, <2>3, <2>6 DEF Goto, Attempts
    <3> QED BY <2>1, <2>2, <3>1, LoopPreserves
  <2> QED BY <1>1, <2>4, <2>5, <2>6 DEF Wait
<1>2. CASE Checked
  <2>1. HostInvariant' /\ Others("probe") /\ ~Pending("probe")' /\ UNCHANGED <<canceled, prompts>>
    BY <1>2, SlotsAssumption, TakenIsSound DEF AttemptInvariant, Checked
  <2>2. attempt.pc = "checked" /\ "main" \in Slots
    BY <1>2, SlotsAssumption DEF Checked, At
  <2>3. /\ \A s \in Slots : Pending(s)' => s = "main"
        /\ attempt.over => ~Pending("main")'
    BY <2>1, <2>2 DEF AttemptInvariant, SlotsAreFree, OverIsOver, Others, Pending
  <2>4. attempt \in Attempts /\ attempt.over \in BOOLEAN
    BY DEF AttemptInvariant, Attempts
  <2>5. ASSUME NEW verdict \in {"succeeded", "failed"}, StopAs(verdict)
        PROVE  AttemptInvariant'
    <3>1. attempt' = [attempt EXCEPT !.pc = "stop", !.over = attempt.over, !.verdict = verdict]
      BY <2>4, <2>5 DEF StopAs, Attempts
    <3> QED BY <2>1, <2>2, <2>3, <2>4, <3>1, LoopPreserves
  <2>6. CASE attempt.over /\ Return("failed")
    <3>1. \A s \in Slots : ~Pending(s)'
      BY <2>3, <2>6
    <3> QED BY <2>1, <2>6, <3>1, FailsPreserves
  <2>7. CASE ~attempt.over /\ Goto("wait")
    <3>1. /\ attempt' = [attempt EXCEPT !.pc = "wait", !.over = FALSE, !.verdict = attempt.verdict]
          /\ attempt.verdict \in {"none", "succeeded", "failed"}
      BY <2>4, <2>7 DEF Goto, Attempts
    <3> QED BY <2>1, <2>2, <2>3, <3>1, LoopPreserves
  <2> QED BY <1>2, <2>5, <2>6, <2>7 DEF Checked
<1> QED BY <1>1, <1>2

LEMMA StopPreserves ==
  ASSUME AttemptInvariant, StopForeground \/ ForegroundStopped
  PROVE  AttemptInvariant'
<1>1. "main" \in Slots /\ HostInvariant
  BY SlotsAssumption DEF AttemptInvariant
<1>2. CASE StopForeground
  <2>1. HostInvariant' /\ Others("main") /\ Goto("stopping") /\ UNCHANGED <<canceled, prompts>>
    BY <1>1, <1>2, RequestIsSound DEF StopForeground
  <2>2. /\ attempt.pc = "stop" /\ attempt'.pc = "stopping"
        /\ attempt'.over = attempt.over /\ attempt'.verdict = attempt.verdict
    BY <1>2 DEF AttemptInvariant, StopForeground, At, Goto
  <2>3. SlotsAreFree' /\ OverIsOver'
    BY <2>1, <2>2 DEF AttemptInvariant, SlotsAreFree, OverIsOver, Others, Pending, MainPlaces, ProbePlaces
  <2>4. attempt.pc \in ManualPlaces /\ "stopping" \in ManualPlaces
    BY <2>2 DEF ManualPlaces
  <2> QED BY <2>1, <2>3, <2>4, StaysPreserves
<1>3. CASE ForegroundStopped
  <2>1. HostInvariant' /\ Others("main") /\ ~Pending("main")' /\ UNCHANGED <<canceled, prompts>>
    BY <1>1, <1>3, TakenIsSound DEF ForegroundStopped
  <2>2. attempt.pc = "stopping"
    BY <1>3 DEF ForegroundStopped, At
  <2>3. \A s \in Slots : ~Pending(s)'
    BY <2>1, <2>2 DEF AttemptInvariant, SlotsAreFree, Others, Pending, ProbePlaces
  <2>4. attempt.pc \in ManualPlaces /\ attempt.verdict \in {"succeeded", "failed"}
    BY <2>2 DEF AttemptInvariant, OverIsOver, ManualPlaces
  <2> QED BY <1>3, <2>1, <2>3, <2>4, FailsPreserves DEF ForegroundStopped
<1> QED BY <1>2, <1>3

-----------------------------------------------------------------------------
(* Gates, prompts, and the beginning of an attempt                         *)

(* A move to a place where no command runs.                                *)
LEMMA MovePreserves ==
  ASSUME AttemptInvariant, HostInvariant', \A s \in Slots : ~Pending(s)',
         UNCHANGED canceled, prompts' \subseteq {"temporary", "rendered"},
         attempt' \in Attempts, attempt'.kind = attempt.kind, ~attempt'.over,
         attempt'.pc \notin {"stop", "stopping", "returned"},
         KindHasPlace',
         attempt.kind \in {"automatic", "manual"} => prompts' = {},
         attempt'.pc \in {"run", "running"} => "rendered" \notin prompts'
  PROVE  AttemptInvariant'
<1>1. SlotsAreFree' /\ OverIsOver'
  BY DEF SlotsAreFree, OverIsOver
<1>2. PromptsAreRendered' /\ PromptIsGone'
  BY DEF PromptsAreRendered, PromptIsGone, At
<1> QED BY <1>1, <1>2 DEF AttemptInvariant, Attempts

LEMMA NothingRuns ==
  ASSUME AttemptInvariant, attempt.pc \notin MainPlaces \cup ProbePlaces
  PROVE  /\ HostInvariant /\ \A s \in Slots : ~Pending(s)
         /\ ~attempt.over
         /\ UNCHANGED command => HostInvariant' /\ \A s \in Slots : ~Pending(s)'
BY DEF AttemptInvariant, SlotsAreFree, OverIsOver, HostInvariant, CommandTypeOK, Pending,
   MainPlaces, ProbePlaces

(* Within a gate or a prompt, from the one into the other, or out to the   *)
(* provider's command.                                                     *)
LEMMA PlaceByPlace ==
  ASSUME AttemptInvariant, HostInvariant', \A s \in Slots : ~Pending(s)',
         UNCHANGED canceled, prompts' \subseteq {"temporary", "rendered"},
         ~attempt.over, NEW pc, Goto(pc),
         attempt.pc \in GatePlaces \cup PromptPlaces,
         \/ pc \in GatePlaces /\ attempt.pc \in GatePlaces
         \/ pc \in PromptPlaces
         \/ pc = "run" /\ "rendered" \notin prompts'
  PROVE  AttemptInvariant'
<1>1. /\ attempt \in Attempts /\ attempt' = [attempt EXCEPT !.pc = pc]
      /\ pc \in Labels /\ pc \notin ManualPlaces \cup {"returned"} /\ attempt.pc \notin ManualPlaces
      /\ pc = "run" => pc \notin GatePlaces \cup PromptPlaces
  BY PlacesAreApart DEF AttemptInvariant, Attempts, Goto, GatePlaces, PromptPlaces, ManualPlaces, Labels
<1>2. /\ attempt' \in Attempts /\ attempt'.pc = pc /\ attempt'.kind = attempt.kind
      /\ attempt'.login = attempt.login /\ attempt'.over = attempt.over
  BY <1>1 DEF Attempts
<1>3. attempt.kind \in {"prompt", "provider"}
  BY DEF AttemptInvariant, KindHasPlace
<1>4. KindHasPlace'
  BY <1>1, <1>2, <1>3, PlacesAreApart DEF AttemptInvariant, KindHasPlace
<1>5. pc \notin {"stop", "stopping"}
  BY <1>1 DEF ManualPlaces
<1>6. pc \in {"run", "running"} => "rendered" \notin prompts'
  BY PlacesAreApart
<1> QED BY <1>1, <1>2, <1>3, <1>4, <1>5, <1>6, MovePreserves

(* Who fails here says so, and a prompt step may succeed.                  *)
LEMMA PromptReturns ==
  ASSUME AttemptInvariant, HostInvariant', \A s \in Slots : ~Pending(s)',
         UNCHANGED canceled, prompts' \subseteq {"temporary", "rendered"},
         NEW verdict \in {"succeeded", "failed"}, Return(verdict),
         attempt.pc \in GatePlaces \cup PromptPlaces,
         verdict = "succeeded" => "rendered" \notin prompts'
  PROVE  AttemptInvariant'
<1>1. attempt.kind \in {"prompt", "provider"}
  BY DEF AttemptInvariant, KindHasPlace
<1>2. PromptsAreRendered'
  BY <1>1 DEF PromptsAreRendered, Return, NoAttempt
<1> QED BY <1>2, ReturnPreserves

LEMMA PromptPreserves ==
  ASSUME AttemptInvariant, Resolve \/ Substitute \/ Render \/ WritePrompt \/ Unhydrate
  PROVE  AttemptInvariant'
<1>1. /\ attempt.pc \in PromptPlaces /\ attempt.pc \notin MainPlaces \cup ProbePlaces
      /\ UNCHANGED <<command, canceled>> /\ prompts' \subseteq {"temporary", "rendered"}
  BY DEF AttemptInvariant, Resolve, Substitute, Render, WritePrompt, Unhydrate, At, PromptPlaces,
     MainPlaces, ProbePlaces
<1>2. HostInvariant' /\ (\A s \in Slots : ~Pending(s)') /\ ~attempt.over
  BY <1>1, NothingRuns
<1>3. \/ \E pc \in PromptPlaces : Goto(pc)
      \/ Goto("run") /\ "rendered" \notin prompts'
      \/ Return("succeeded") /\ "rendered" \notin prompts'
      \/ Return("failed")
  BY DEF Resolve, Substitute, Render, WritePrompt, Unhydrate, PromptPlaces
<1> QED BY <1>1, <1>2, <1>3, PlaceByPlace, PromptReturns

LEMMA GateLaunchPreserves ==
  ASSUME AttemptInvariant, Version \/ Install \/ Login
  PROVE  AttemptInvariant'
<1>1. ASSUME NEW s \in {"main", "probe"}, NEW pc \in GatePlaces, NEW options \in Options,
             Launch(s, options, pc), attempt.pc \in {"version", "install", "login"},
             s = "main" => pc \in MainPlaces, s = "probe" => pc \in ProbePlaces
      PROVE  AttemptInvariant'
  <2>1. /\ pc \in Labels /\ pc \notin {"check", "checked", "stop", "stopping"}
        /\ attempt.pc \in GatePlaces
        /\ attempt.pc \notin MainPlaces \cup ProbePlaces \cup {"check", "stop", "stopping"}
    BY <1>1, PlacesAreApart DEF GatePlaces, MainPlaces, ProbePlaces
  <2>2. /\ HostInvariant' /\ SlotsAreFree' /\ OverIsOver'
        /\ Goto(pc) /\ UNCHANGED <<canceled, prompts>>
    BY <1>1, <2>1, LaunchMoves
  <2> QED BY <2>1, <2>2, StaysPreserves
<1>2. CASE Version
  BY <1>1, <1>2, OptionsAreTyped DEF Version, At, GatePlaces, ProbePlaces
<1>3. CASE Install
  BY <1>1, <1>3, OptionsAreTyped DEF Install, At, GatePlaces, MainPlaces
<1>4. CASE Login
  BY <1>1, <1>4, OptionsAreTyped DEF Login, At, GatePlaces, ProbePlaces
<1> QED BY <1>2, <1>3, <1>4

LEMMA GateResultPreserves ==
  ASSUME AttemptInvariant, Versioned \/ Installed \/ LoggedIn
  PROVE  AttemptInvariant'
<1>1. PICK s \in {"main", "probe"} :
        /\ Done(s) /\ Taken(s)
        /\ (attempt.pc = "installing" /\ s = "main")
           \/ (attempt.pc \in {"versioned", "logged in"} /\ s = "probe")
  <2>1. CASE Installed
    BY <2>1 DEF Installed, At
  <2>2. CASE Versioned \/ LoggedIn
    BY <2>2 DEF Versioned, LoggedIn, At
  <2> QED BY <2>1, <2>2
<1>2. /\ HostInvariant' /\ Others(s) /\ ~Pending(s)' /\ UNCHANGED <<canceled, prompts>>
      /\ prompts' \subseteq {"temporary", "rendered"}
  BY <1>1, SlotsAssumption, TakenIsSound DEF AttemptInvariant
<1>3. /\ \A r \in Slots : ~Pending(r)'
      /\ attempt.pc \in GatePlaces /\ ~attempt.over
  BY <1>1, <1>2 DEF AttemptInvariant, SlotsAreFree, OverIsOver, Others, Pending, MainPlaces,
     ProbePlaces, GatePlaces
<1>4. CASE Return("failed")
  BY <1>2, <1>3, <1>4, PromptReturns
<1>5. ASSUME NEW pc \in {"profile", "install", "hydrate"}, Goto(pc)
      PROVE  AttemptInvariant'
  <2>1. pc \in GatePlaces \cup PromptPlaces
    BY DEF GatePlaces, PromptPlaces
  <2> QED BY <1>2, <1>3, <1>5, <2>1, PlaceByPlace
<1>6. CASE attempt' = [attempt EXCEPT !.pc = "version", !.reverify = TRUE]
  <2>1. /\ attempt' \in Attempts /\ attempt'.pc = "version" /\ attempt'.kind = attempt.kind
        /\ attempt'.login = attempt.login /\ attempt'.over = attempt.over
    BY <1>6 DEF AttemptInvariant, Attempts, Labels
  <2>2. attempt.kind = "provider" /\ ~attempt.login
    BY <1>3, PlacesAreApart DEF AttemptInvariant, KindHasPlace
  <2>3. KindHasPlace'
    BY <2>1, <2>2 DEF KindHasPlace, ManualPlaces
  <2> QED BY <1>2, <1>3, <2>1, <2>2, <2>3, MovePreserves
<1> QED BY <1>4, <1>5, <1>6 DEF Versioned, Installed, LoggedIn

LEMMA GateMovePreserves ==
  ASSUME AttemptInvariant, Prepare \/ EnsureProfile \/ VerifyProfile
  PROVE  AttemptInvariant'
<1>1. /\ attempt.pc \in {"prepare", "profile", "verify profile"}
      /\ UNCHANGED <<command, canceled, prompts>> /\ prompts' \subseteq {"temporary", "rendered"}
  BY DEF AttemptInvariant, Prepare, EnsureProfile, VerifyProfile, At
<1>2. attempt.pc \in GatePlaces /\ attempt.pc \notin MainPlaces \cup ProbePlaces
  BY <1>1 DEF GatePlaces, MainPlaces, ProbePlaces
<1>3. HostInvariant' /\ (\A s \in Slots : ~Pending(s)') /\ ~attempt.over
  BY <1>1, <1>2, NothingRuns
<1>4. CASE Return("failed")
  BY <1>1, <1>2, <1>3, <1>4, PromptReturns
<1>5. ASSUME NEW pc \in {"version", "verify profile"}, Goto(pc)
      PROVE  AttemptInvariant'
  <2>1. pc \in GatePlaces
    BY DEF GatePlaces
  <2> QED BY <1>1, <1>2, <1>3, <1>5, <2>1, PlaceByPlace
<1>6. ASSUME NEW login \in BOOLEAN, NEW pc \in {"first check", "login"},
             login <=> pc = "first check",
             attempt' = [NoAttempt("provider") EXCEPT !.login = login, !.pc = pc]
      PROVE  AttemptInvariant'
  <2>1. /\ attempt' \in Attempts /\ attempt'.pc = pc /\ attempt'.kind = "provider"
        /\ attempt'.login = login /\ ~attempt'.over
    BY <1>6 DEF NoAttempt, Attempts, Kinds, Labels
  <2>2. attempt.kind = "provider"
    BY <1>2 DEF AttemptInvariant, KindHasPlace
  <2>3. KindHasPlace'
    BY <1>6, <2>1 DEF KindHasPlace, ManualPlaces, GatePlaces, PromptPlaces
  <2> QED BY <1>1, <1>3, <2>1, <2>2, <2>3, MovePreserves
<1>7. ASSUME attempt' = [NoAttempt("provider") EXCEPT !.pc = "login"]
      PROVE  attempt' = [NoAttempt("provider") EXCEPT !.login = FALSE, !.pc = "login"]
  <2>1. NoAttempt("provider") \in Attempts /\ NoAttempt("provider").login = FALSE
    BY DEF NoAttempt, Attempts, Kinds, Labels
  <2> QED BY <1>7, <2>1 DEF Attempts
<1> QED BY <1>4, <1>5, <1>6, <1>7 DEF Prepare, EnsureProfile, VerifyProfile

LEMMA BeginPreserves ==
  ASSUME AttemptInvariant, Begin
  PROVE  AttemptInvariant'
<1>1. attempt.pc = "idle" /\ UNCHANGED <<command, canceled, prompts>>
  BY DEF Begin, At
<1>2. HostInvariant' /\ \A s \in Slots : ~Pending(s)'
  BY <1>1, NothingRuns DEF MainPlaces, ProbePlaces
<1>3. PICK device \in BOOLEAN, pc \in {"run", "hydrate", "first check", "prepare"} :
        /\ attempt' = [NoAttempt(attempt.kind) EXCEPT !.device = device, !.pc = pc]
        /\ pc = "run" => attempt.kind = "automatic"
        /\ pc = "hydrate" => attempt.kind = "prompt"
        /\ pc = "first check" => attempt.kind = "manual"
        /\ pc = "prepare" => attempt.kind = "provider"
  <2>1. attempt.kind \in {"automatic", "prompt", "manual", "provider"}
    BY DEF AttemptInvariant, Kinds
  <2> QED BY <2>1 DEF Begin
<1>4. /\ attempt' \in Attempts /\ attempt'.pc = pc /\ attempt'.kind = attempt.kind
      /\ attempt'.login = FALSE /\ ~attempt'.over
  BY <1>3 DEF AttemptInvariant, NoAttempt, Attempts, Labels
<1>5. KindHasPlace'
  BY <1>3, <1>4 DEF KindHasPlace, ManualPlaces, GatePlaces, PromptPlaces
<1>6. /\ attempt.kind \in {"automatic", "manual"} => prompts' = {}
      /\ prompts' \subseteq {"temporary", "rendered"}
  BY <1>1 DEF AttemptInvariant, PromptsAreRendered
<1> QED BY <1>1, <1>2, <1>3, <1>4, <1>5, <1>6, MovePreserves

LEMMA RunningPreserves ==
  ASSUME AttemptInvariant, Execute \/ CommandEvent \/ ProcessEvent
  PROVE  AttemptInvariant'
<1>1. CASE Execute
  <2>1. CASE Run \/ Running
    BY <2>1, RunPreserves
  <2>2. CASE Check \/ Open
    BY <2>2, CheckPreserves
  <2>3. CASE FirstCheckCanceled \/ FirstChecked
    BY <2>3, FirstCheckPreserves
  <2>4. CASE Wait \/ Checked
    BY <2>4, LoopStepPreserves
  <2>5. CASE StopForeground \/ ForegroundStopped
    BY <2>5, StopPreserves
  <2>6. CASE Version \/ Install \/ Login
    BY <2>6, GateLaunchPreserves
  <2>7. CASE Versioned \/ Installed \/ LoggedIn
    BY <2>7, GateResultPreserves
  <2>8. CASE Prepare \/ EnsureProfile \/ VerifyProfile
    BY <2>8, GateMovePreserves
  <2>9. CASE Resolve \/ Substitute \/ Render \/ WritePrompt \/ Unhydrate
    BY <2>9, PromptPreserves
  <2> QED BY <1>1, <2>1, <2>2, <2>3, <2>4, <2>5, <2>6, <2>7, <2>8, <2>9 DEF Execute
<1>2. CASE CommandEvent \/ ProcessEvent
  <2>1. HostInvariant' /\ \A s \in Slots : Pending(s)' => Pending(s)
    <3>1. HostInvariant
      BY DEF AttemptInvariant
    <3>2. CASE CommandEvent
      <4>1. PICK s \in Slots : Host(s) \/ Overflow(s)
        BY <3>2 DEF CommandEvent
      <4>2. HostInvariant' /\ Others(s) /\ (Pending(s)' => Pending(s))
        BY <3>1, <4>1, HostIsSound, OverflowIsSound
      <4> QED BY <4>2 DEF Others, Pending
    <3>3. CASE ProcessEvent
      BY <3>1, <3>3, ProcessesAreSound DEF ProcessEvent
    <3> QED BY <1>2, <3>2, <3>3
  <2>2. UNCHANGED <<attempt, canceled, prompts>>
    BY <1>2 DEF CommandEvent, ProcessEvent, Under
  <2>3. SlotsAreFree' /\ OverIsOver'
    BY <2>1, <2>2, SlotsAssumption DEF AttemptInvariant, SlotsAreFree, OverIsOver
  <2> QED BY <2>1, <2>2, <2>3
        DEF AttemptInvariant, KindHasPlace, PromptsAreRendered, PromptIsGone, At
<1> QED BY <1>1, <1>2

-----------------------------------------------------------------------------
(* The service                                                             *)

(* An attempt is in progress only while the engine runs.                   *)
RunnerInvariant == AttemptInvariant /\ (InProgress => Engine)

(* Nothing of the attempt changes.                                         *)
LEMMA QuietPreserves ==
  ASSUME AttemptInvariant, Quiet
  PROVE  AttemptInvariant' /\ (InProgress' <=> InProgress)
BY DEF AttemptInvariant, Quiet, attemptVars, HostInvariant, CommandTypeOK, SlotsAreFree, OverIsOver,
   KindHasPlace, PromptsAreRendered, PromptIsGone, At, Pending, InProgress

(* The attempt is taken off the table, or given up, between commands.      *)
LEMMA ResetPreserves ==
  ASSUME AttemptInvariant, ~InProgress, UNCHANGED command, canceled' \in BOOLEAN,
         UNCHANGED prompts,
         \/ attempt' = NoAttempt(attempt.kind)
         \/ attempt' = [attempt EXCEPT !.pc = "returned", !.verdict = "failed"]
  PROVE  AttemptInvariant' /\ ~InProgress'
<1>1. attempt.pc \in {"idle", "returned"} /\ attempt \in Attempts
  BY DEF AttemptInvariant, InProgress, Attempts
<1>2. HostInvariant' /\ (\A s \in Slots : ~Pending(s)') /\ ~attempt.over
  BY <1>1, NothingRuns DEF MainPlaces, ProbePlaces
<1>3. ~attempt.login
  BY <1>1 DEF AttemptInvariant, KindHasPlace, ManualPlaces
<1>4. /\ attempt' \in Attempts /\ attempt'.kind = attempt.kind /\ ~attempt'.over /\ ~attempt'.login
      /\ attempt'.pc = "idle" \/ (attempt'.pc = "returned" /\ attempt'.verdict = "failed")
  <2>1. CASE attempt' = NoAttempt(attempt.kind)
    BY <1>1, <2>1 DEF NoAttempt, Attempts, Labels
  <2>2. CASE attempt' = [attempt EXCEPT !.pc = "returned", !.verdict = "failed"]
    BY <1>1, <1>2, <1>3, <2>2 DEF Attempts, Labels
  <2> QED BY <2>1, <2>2
<1>5. SlotsAreFree' /\ OverIsOver' /\ KindHasPlace'
  BY <1>2, <1>4 DEF SlotsAreFree, OverIsOver, KindHasPlace, ManualPlaces, GatePlaces, PromptPlaces
<1>6. PromptsAreRendered' /\ PromptIsGone'
  BY <1>4 DEF AttemptInvariant, PromptsAreRendered, PromptIsGone, At
<1> QED BY <1>2, <1>4, <1>5, <1>6 DEF AttemptInvariant, Attempts, InProgress

(* The process ends, and systemd kills what is left.                       *)
LEMMA EndPreserves ==
  ASSUME AttemptInvariant, NEW next, End(next)
  PROVE  AttemptInvariant' /\ ~InProgress'
<1>1. HostInvariant' /\ \A s \in Slots : ~Pending(s)'
  BY KillControlGroupIsSound DEF End
<1>2. /\ attempt' \in Attempts /\ ~attempt'.over /\ ~attempt'.login /\ attempt'.pc = "idle"
      /\ prompts' = {} /\ canceled' = FALSE
  BY DEF End, AttemptInvariant, NoAttempt, Attempts, Labels
<1>3. SlotsAreFree' /\ OverIsOver' /\ KindHasPlace'
  BY <1>1, <1>2 DEF SlotsAreFree, OverIsOver, KindHasPlace, ManualPlaces, GatePlaces, PromptPlaces
<1>4. PromptsAreRendered' /\ PromptIsGone'
  BY <1>2 DEF PromptsAreRendered, PromptIsGone, At
<1> QED BY <1>1, <1>2, <1>3, <1>4 DEF AttemptInvariant, Attempts, InProgress

(* The listeners cancel what listens.                                      *)
LEMMA SignalPreserves ==
  ASSUME RunnerInvariant, NEW u, Signal(u)
  PROVE  RunnerInvariant'
<1>1. CASE Listening /\ canceled' = TRUE /\ Abort /\ UNCHANGED <<attempt, prompts, service>>
  <2>1. HostInvariant' /\ \A s \in Slots : Pending(s)' => Pending(s)
    BY <1>1, AbortIsSound DEF RunnerInvariant, AttemptInvariant
  <2>2. SlotsAreFree' /\ OverIsOver'
    BY <1>1, <2>1, SlotsAssumption DEF RunnerInvariant, AttemptInvariant, SlotsAreFree, OverIsOver
  <2> QED BY <1>1, <2>1, <2>2
        DEF RunnerInvariant, AttemptInvariant, KindHasPlace, PromptsAreRendered, PromptIsGone, At,
            InProgress, Engine
<1>2. CASE End("off")
  BY <1>2, EndPreserves DEF RunnerInvariant
<1> QED BY <1>1, <1>2 DEF Signal

LEMMA RunnerInit == Init => RunnerInvariant
<1> SUFFICES ASSUME Init PROVE RunnerInvariant
  OBVIOUS
<1>1. HostInvariant /\ \A s \in Slots : ~Pending(s)
  BY HostInit DEF Init, CommandInit, NoCommand, Pending
<1>2. /\ attempt \in Attempts /\ ~attempt.over /\ ~attempt.login /\ attempt.pc = "idle"
      /\ prompts = {} /\ canceled = FALSE
  BY ServiceAssumption DEF Init, NoAttempt, Attempts, Labels
<1>3. SlotsAreFree /\ OverIsOver /\ KindHasPlace
  BY <1>1, <1>2 DEF SlotsAreFree, OverIsOver, KindHasPlace, ManualPlaces, GatePlaces, PromptPlaces
<1>4. PromptsAreRendered /\ PromptIsGone
  BY <1>2 DEF PromptsAreRendered, PromptIsGone, At
<1> QED BY <1>1, <1>2, <1>3, <1>4 DEF RunnerInvariant, AttemptInvariant, Attempts, InProgress

(* The steps of the service that leave the attempt alone.                  *)
LEMMA ServiceQuietly ==
  ASSUME RunnerInvariant,
         \/ WriteStarting \/ Load \/ Interrupted \/ ReturnTerminal \/ MarkTerminal \/ StartAgain
  PROVE  RunnerInvariant'
<1>1. Quiet
  BY DEF WriteStarting, Load, Interrupted, ReturnTerminal, MarkTerminal, StartAgain
<1>2. ~InProgress
  BY DEF RunnerInvariant, WriteStarting, Load, Interrupted, ReturnTerminal, MarkTerminal, StartAgain,
     Settled, Looping, Engine
<1> QED BY <1>1, <1>2, QuietPreserves DEF RunnerInvariant

LEMMA ServiceEnds ==
  ASSUME RunnerInvariant, Report \/ Excuse \/ Kill \/ StopTimeout
  PROVE  RunnerInvariant'
<1>1. (\E next : End(next)) \/ (Report /\ Quiet)
  BY DEF Report, Excuse, Kill, StopTimeout
<1>2. CASE \E next : End(next)
  BY <1>2, EndPreserves DEF RunnerInvariant
<1>3. CASE Report /\ Quiet
  BY <1>3, QuietPreserves DEF RunnerInvariant, Report, Engine
<1> QED BY <1>1, <1>2, <1>3

LEMMA ServiceSignaled ==
  ASSUME RunnerInvariant, Hangup \/ Stop
  PROVE  RunnerInvariant'
<1>1. CASE \E u \in {unit, "stopping"} : Signal(u)
  BY <1>1, SignalPreserves
<1>2. CASE Quiet /\ UNCHANGED service
  BY <1>2, QuietPreserves DEF RunnerInvariant, Engine
<1> QED BY <1>1, <1>2 DEF Hangup, Stop

LEMMA ServiceAttempts ==
  ASSUME RunnerInvariant, Start \/ CheckpointStart \/ ResumeInterrupted \/ Record \/ RemoveAll
  PROVE  RunnerInvariant'
<1>1. CASE Start
  <2>1. ~InProgress
    BY <1>1 DEF RunnerInvariant, Start, Engine
  <2> QED BY <1>1, <2>1, ResetPreserves DEF RunnerInvariant, Start
<1>2. CASE CheckpointStart
  <2>1. Engine /\ ~InProgress
    BY <1>2 DEF CheckpointStart, Looping, Settled
  <2>2. CASE Begin /\ UNCHANGED service
    BY <2>1, <2>2, BeginPreserves DEF RunnerInvariant, Engine
  <2>3. CASE Quiet
    BY <2>1, <2>3, QuietPreserves DEF RunnerInvariant
  <2> QED BY <1>2, <2>2, <2>3 DEF CheckpointStart
<1>3. CASE ResumeInterrupted
  <2>1. Engine /\ ~InProgress
    BY <1>3 DEF ResumeInterrupted, Looping, Settled
  <2>2. CASE Begin /\ UNCHANGED service
    BY <2>1, <2>2, BeginPreserves DEF RunnerInvariant, Engine
  <2>3. CASE /\ UNCHANGED <<command, canceled, prompts>>
             /\ attempt' = [attempt EXCEPT !.pc = "returned", !.verdict = "failed"]
    BY <2>1, <2>3, ResetPreserves DEF RunnerInvariant, AttemptInvariant
  <2>4. CASE UNCHANGED <<command, canceled, prompts, attempt>>
    BY <2>1, <2>4, QuietPreserves DEF RunnerInvariant, Quiet, attemptVars
  <2> QED BY <1>3, <2>2, <2>3, <2>4 DEF ResumeInterrupted
<1>4. CASE Record
  <2>1. ~InProgress /\ UNCHANGED <<command, canceled, prompts>>
    BY <1>4 DEF Record, Settled
  <2>2. CASE UNCHANGED attempt
    BY <2>1, <2>2, QuietPreserves DEF RunnerInvariant, Quiet, attemptVars
  <2>3. CASE attempt' = NoAttempt(attempt.kind)
    BY <2>1, <2>3, ResetPreserves DEF RunnerInvariant, AttemptInvariant
  <2> QED BY <1>4, <2>2, <2>3 DEF Record
<1>5. CASE RemoveAll
  <2>1. ~InProgress /\ UNCHANGED <<command, attempt, canceled>> /\ (prompts' = {} \/ prompts' = prompts)
    BY <1>5 DEF RunnerInvariant, RemoveAll, Engine
  <2> QED BY <2>1 DEF RunnerInvariant, AttemptInvariant, HostInvariant, CommandTypeOK, SlotsAreFree,
           OverIsOver, KindHasPlace, PromptsAreRendered, PromptIsGone, At, Pending, InProgress
<1> QED BY <1>1, <1>2, <1>3, <1>4, <1>5

LEMMA RunnerStep ==
  ASSUME RunnerInvariant, [Next]_vars
  PROVE  RunnerInvariant'
<1>1. CASE UNCHANGED vars
  <2>1. Quiet /\ UNCHANGED service
    BY <1>1 DEF vars, Quiet, attemptVars
  <2> QED BY <2>1, QuietPreserves DEF RunnerInvariant, Engine
<1>2. CASE Engine /\ (Execute \/ CommandEvent \/ ProcessEvent) /\ UNCHANGED serviceVars
  BY <1>2, RunningPreserves DEF RunnerInvariant, Engine, serviceVars
<1>3. CASE \/ WriteStarting \/ Load \/ Interrupted \/ ReturnTerminal \/ MarkTerminal \/ StartAgain
  BY <1>3, ServiceQuietly
<1>4. CASE Start \/ CheckpointStart \/ ResumeInterrupted \/ Record \/ RemoveAll
  BY <1>4, ServiceAttempts
<1>5. CASE Report \/ Excuse \/ Kill \/ StopTimeout
  BY <1>5, ServiceEnds
<1>6. CASE Hangup \/ Stop
  BY <1>6, ServiceSignaled
<1> QED BY <1>1, <1>2, <1>3, <1>4, <1>5, <1>6 DEF Next, Progress, RunCommands

-----------------------------------------------------------------------------

THEOREM RunnerInvariance == Spec => []RunnerInvariant
<1>1. Init => RunnerInvariant
  BY RunnerInit
<1>2. RunnerInvariant /\ [Next]_vars => RunnerInvariant'
  BY RunnerStep
<1> QED BY <1>1, <1>2, PTL DEF Spec

(* However commands, timers, cancellations and the deaths of the runner    *)
(* fall, an attempt that has returned has left no process group running    *)
(* (manual.ts, provider.ts, automatic.ts over spawn.ts).                   *)
THEOREM Solitude == Spec => []ReturnsAlone
<1>1. RunnerInvariant => ReturnsAlone
  BY NobodyIsLeft DEF RunnerInvariant
<1> QED BY <1>1, RunnerInvariance, PTL

(* A provider never runs, and a prompt step never succeeds, with the       *)
(* rendered prompt on disk, whatever earlier attempts left there           *)
(* (hydrator.ts, ephemeral-store.ts).                                      *)
THEOREM PromptSecrecy == Spec => []PromptIsGone
<1>1. RunnerInvariant => PromptIsGone
  BY DEF RunnerInvariant, AttemptInvariant
<1> QED BY <1>1, RunnerInvariance, PTL
=============================================================================
