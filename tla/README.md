# Agent Boot Image CLI: formal models

TLA+ models of the program in `src/`, the TLC configurations that check them on
small instances, and TLAPS proofs of the theorems that hold for every instance.
Paths below are relative to `src/packages/`.

The program has two halves. `create-agent image` (packages `cli`, `definition`,
`synth`, `os-adapters`, `os-linux`, `process`, `runner-bundle`, `assembly`,
`protocol`) runs on an operator's workstation: it synthesizes an assembly from a
definition of the agent, downloads an operating-system image, writes it to a
disk and customizes it with the assembly. The *runner* (packages `runner`,
`runner-bundle`, `scheduled-prompt-jobs`) runs on the machine that boots from
that disk: it executes the plan that was put on it, step by step, across crashes
and reboots.

## 1. Inventory

| Component | State | Operations | What is hard | What makes it correct |
|---|---|---|---|---|
| Checkpoint document (`runner/src/state/{schema,transitions}.ts`) | step, processes, secret transaction, terminal status, revision | record a step, register / accept / finish a process, advance a secret, mark terminal | events that arrive twice, late, or about an earlier generation | documents only move forward |
| Checkpoint store (`runner/src/state/{store,atomic-file}.ts`) | the file, temporary files, the queue of calls | inspect, update, mark terminal | crash and power loss between rename and directory sync; a write that fails after its rename | what was returned to a caller is never taken back |
| Engine (`runner/src/engine`) | the `state` of one run, the attempt in progress | start, reconcile, loop, attempt, stopAll | cancellation, crash, reboot between any two awaits | no step is skipped or run twice, a terminal checkpoint is final, every run can be resumed |
| Fire-and-forget supervisor (`runner/src/steps/fire-and-forget`) | tracked processes, their completion callbacks | launch, resume, checkHealth, shutdown | a process exits while it is being accepted, adopted or stopped; pid reuse | a live process is always recorded; nothing is left running |
| User-secret installer (`runner/src/steps/install-user-secret`) | source, destination, temporary files, secret phase | prepare, install, remove the source, commit | every crash and power loss between two file operations; a source replaced in between | the secret is never lost, its source never comes back |
| File locks (`cli/src/images/{file-lock,lock-owner}.ts`) | lock files that name their owner | acquire, recover, release | recovery of a dead owner's lock by several processes, which may die themselves | mutual exclusion; waiting ends |
| Artifact cache (`cli/src/images/{artifact-cache,download}.ts`) | the artifact, the partial download | acquire: check, quarantine, resume, verify, promote | interrupted downloads, servers that answer a range wrongly | only the whole artifact is published |
| Image writing (`cli/src/imaging`) | device lock, mounts, open target | lock, recheck, unmount, write, verify | the disk or its mounts change between a check and its use | what is reported of the target is true |
| Customization (`cli/src/customize`) | mount root, tracked mounts, checks | discover, mount, adapt, provision, unmount, check | operations that fail after taking effect; cleanup that fails too | no mounted filesystem is erased or checked |
| Image command (`cli/src/image`) | phase, recovery state, secrets, workspace | the fourteen phases, error wrapping, exit codes | signals at any await of three nested transactions | exit code and recovery state are honest |
| Drives (`cli/src/drives`) | none (a view of the system) | preflight, confirmation, recheck | stale when used | only the confirmed disk is written |
| Process spawning (`process/src`) | child, group, output, timers, the reason of a termination | spawn, exit and close events, time out, cancel, terminate the group | exit, timeout and cancellation race; descendants that ignore SIGTERM or leave the group | who completed has left nobody behind |
| Foreground executors (`runner/src/steps`, `providers`, `prompts`) | where an attempt is, rendered prompts | commands, a gate with polls and a terminal, the Codex gate, rendering | a cancellation at any await; a prompt that cannot be removed | no process and no secret outlives an attempt |
| Runner service (`runner-bundle/src/runtime`) | the process, `service-status.json`, systemd's unit | start, run the engine, report, signals | signals before the listeners; failing writes; restarts | the outcome is reached and reported |
| Scheduled prompt jobs, installed (`scheduled-prompt-jobs/src/{lifecycle,unit-store}.ts`) | unit files, what systemd has loaded, timers, registry, an operation's backup | install, uninstall, roll back | every rename and systemctl call may fail, and its undoing too; deaths | success is exact, failure restores, nothing is lost |
| Scheduled prompt jobs, run (`scheduled-prompt-jobs/src/{run,executor,result-store}.ts`) | two locks, two supervisors, Codex, `last-run.json` | run, run-locked, time out, record | two timeouts and systemd's signals race with the end of Codex | one job of a group at a time; the exit status is the recorded one |
| Definitions and documents (`definition`, `protocol`) | none that outlives a call | builders, schemas | the same rules written three times | the schemas agree |
| Synthesis (`synth`, `cli/src/synth-command.ts`) | the sources as they were read | load, collect, synthesize, write | files that are edited between two readings | what is accepted can be installed and boots |
| Assembly writer (`assembly`) | output, staging, backup | stage, set aside, publish, restore, drop | deaths and power losses between two renames; two writers | an assembly is never lost |
| OS adapters (`os-adapters`) | the plan of the root filesystem | plan files, refuse conflicts | files that get in each other's way | what is planned is what the runner needs |
| Runner bundle builder, network selection | a directory, a file | build; prompt and write | | deterministic; atomic |

How they interact. The command line takes a **file lock** around the **artifact
cache** and another around the target device; the **image command** calls the
cache, then the **writing transaction**, which on success hands over to the
**customization transaction** under the same device lock. On the booted machine
systemd starts the **engine** (`Restart=on-failure`,
`os-linux/src/systemd.ts:51`), which keeps everything it must remember in the
**checkpoint store**; the **supervisor** and the **secret installer** write to
the same store; completion callbacks of processes only set flags that the
engine reads at its next health check. The engine runs every command through the
**spawn host**; the **runner service** is the process around the engine, whose
restarts systemd decides. **Synthesis** compiles a definition into an assembly
that the **assembly writer** publishes, the **OS adapter** puts into the image and
the runner reads at boot. **Scheduled prompt jobs** are installed by a command
into systemd's units and run by systemd from then on, whether or not the command
succeeded.

The hazards of this code, each at its line, are the `hazards` of
`PROJECT.json`; every property below is there because of one of them.

## 2. Modules

| Module | Models | Extends / uses |
|---|---|---|
| `Checkpoint` | the document; each transition as a pair `XAllowed`, `XResult`, and `Schema` | |
| `CheckpointHistory` | *abstract*: what the store promises, a sequence of documents that only moves forward | `Checkpoint` |
| `CheckpointStore` | serialized calls over a file with visible and durable contents | `Checkpoint`, implements `CheckpointHistory` |
| `RunnerEngine` | engine and supervisor, as one process with awaits | `Checkpoint` |
| `SecretInstall` | the installer's file operations and phases | |
| `FileLock` | acquisition and recovery of lock files at every level | |
| `ArtifactCache` | acquisition of one artifact by several processes | the lock of `FileLock` as a set of holders |
| `ImageFailure` | errors, their wrapping, recovery state and exit code | |
| `ImageCommand` | the command with both transactions and the operating system | `ImageFailure` |
| `SpawnedCommand` | the spawn host, with any client | |
| `StepAttempt` | one attempt of a step that runs commands or renders a prompt | `SpawnedCommand` |
| `RunnerService` | the service around it, with signals, the status file and systemd | `StepAttempt` |
| `PromptJobManifest` | what a manifest of jobs is and when it loads | |
| `PromptJobUnits` | installing and uninstalling | `PromptJobManifest` |
| `PromptJobRuns` | a run of a job: two supervisors, Codex and systemd | `PromptJobManifest` |
| `PromptJobs` | both on one host: what systemd has loaded is what it starts | `PromptJobUnits`, `PromptJobRuns` |
| `DocumentScalars` | objects, arrays and scalars of the documents | |
| `Definition` | the definition's schema and what it returns | `DocumentScalars` |
| `DefinitionBuilders` | the functions a definition file is written with | `Definition` |
| `AssemblyDocuments` | the protocol's schemas | `DocumentScalars` |
| `Synthesis` | loader, collection, synthesis | `Definition`, `AssemblyDocuments` |
| `RootPlan` | the files planned for an image | `Synthesis` |
| `FirstBoot` | which steps find what they need | `RootPlan`, `DefinitionBuilders` |
| `AssemblyWriter` | the atomic replacement of a directory by several writers | |
| `SynthCommand` | the command from definition to boot | `FirstBoot`, `AssemblyWriter` |
| `MC*` | values of constants, symmetry sets | |
| `*_proofs` | theorems | the module they are named after; `ArtifactCache_proofs`: also `FileLock`; `DurableFiles_proofs`: `CheckpointStore`, `SynthCommand`; `FirstBoot_proofs`: `DurableFiles_proofs` |

An operator called a *mutant* in a comment is a plausible bug: a variant of the
definition below it with a guard dropped or a step left out. It is used by no
specification; putting it in the place of the definition makes TLC find one of the properties
violated, which shows that the property depends on the code.

### CheckpointStore

`visible` is what `readFile` returns, `durable` what a power loss leaves.
`Inspect` is the head of the queue entering `#inspect` (which removes temporary
files and syncs the directory), `Persist` the temporary file, rename and sync
of `atomic-file.ts`: it may fail before the rename (`Refuse`), succeed, or fail
after the rename, with the caller told of an error although the document
changed. `CheckpointStep`, `CheckpointProcess`, `CheckpointSecret` and
`MarkTerminal` are the calls. `Kill` forgets calls in progress, `PowerLoss` may
also undo a rename that was not synced. `returned` is a history variable.
Contents carry the revision number that each write increments.

### RunnerEngine

`disk` is the checkpoint; `run` the runner process: `run.pc` names the await it
is at, and the other fields are its local variables; `children` the processes of
the operating system, alive or not known to the checkpoint yet; `ran` the
attempts whose command was started (history). Every store call either takes
effect, fails before the rename, or fails after it (`Store`), which is what
`CheckpointStore` promises to its only caller. The actions follow the code:
`Start`, `Initialize`, `ReconcileCompleted` (recovery of the processes of
completed steps), `Resume`, `Spawn`, `Register`, `AcceptanceWindow` (the
supervisor), `Loop` (cancellation, health, next step), `Execute`,
`ReturnForeground`, `ReturnManual`, `SecretInstaller`, `SucceedStep`,
`RecordFailure`, `AdoptUntracked`, `Shutdown`, `MarkTerminal`, `Rethrow`
(`stopAll` and the catch block of `#run`). The environment is `Exit` (a process
ends), `Completion` (its callback runs, later), `Cancel`, `Crash`, `Reboot`,
`HostFailure`.

`Crash` lets any subset of the children survive. The unit has
`KillMode=mixed`, so systemd usually kills the whole control group; the code
does not rely on that, and neither does the model. Pids are reused as soon as
nothing refers to one, and the boot id distinguishes a recorded identity from a
process of another boot.

### SecretInstall

A directory entry is a pair of what is seen and what a power loss is sure to
keep. Syncing a directory makes both equal; syncing a new directory does not
make its own name durable in its parent, which the code itself says
(`runner/src/state/atomic-file.ts:154`). `parent`, `dest`, `temps` and `source`
are the entries the installer changes; `phase` is the secret phase of the
checkpoint. One action per file operation, in the order of `installer.ts`,
`destination-store.ts` and `source-store.ts`. Inode numbers distinguish a
replaced source from the one that was read. `Kill`, `PowerLoss`, `Fault` and
`Replace` are the disturbances.

### FileLock

Level 0 is a lock, level k + 1 the recovery lock of level k (a file of the same
kind, acquired by the same function). `TryAcquire` is link(2), `Observe` reads
the owner, `Assess` asks `/proc` whether it lives and, if not, goes up one level
to acquire the recovery lock; its holder re-reads the file (`Recheck`), asks
again (`Confirm`), unlinks (`Remove`) and releases (`Release`, `Unlink`). A
caller's random token makes its identity unique. `/proc` is taken to be
readable; when it is not, the code treats an owner as alive.

### ArtifactCache

`holders` is the set of callers between acquisition and release of the lock.
Files are a kind, a length in chunks, and whether their contents are genuine.
`Request` allows any answer a server may give to a range request: the range, the
whole file, another range, another file, too much; `Receive` may end short.
Syncs are left out and a power loss leaves *any* contents: the cache's promise
is that it verifies before each use, and does not rest on durability.

### ImageCommand and ImageFailure

`run` is the command; `target` is the disk the target path leads to; `disk` what
each disk holds; `foreign` and `private` the mounts of others and of the
command; `held` what must be given back (secrets, workspace, lock, mount root);
`lookalike` whether the other disk happens to have partitions like those of the
image. An error is abstracted to what `failure.ts`
reads from it. Operations may fail having had their effect (`umount`, `mount`,
the write). A disk that takes the confirmed disk's path *after the last
recheck* may be mounted and modified, since mounting goes by path; the command then never
reports success. Swapping away and back between two
rechecks is something no recheck can see. The model swaps as often as `MaxSwaps` says, and
the properties about what the disk holds are stated for runs in which the disk was not
swapped away and back (`NeverSwappedBack`); the others hold however often it is swapped. A cancellation that arrives just before
the first byte is written is reported as `target-incomplete`: the report is conservative,
which `ReportIsHonest` allows. The command's own crash is not modelled: nothing
of it is resumed, and the lock file it leaves is `FileLock`'s subject.

### SpawnedCommand, StepAttempt and RunnerService

`command[s]` is a slot of the spawn host: the living members of the process
group, whether a descendant outside of it holds the output, which events have
come, and how far a termination is. `OnExit`, `OnClose`, `Timeout`, `EndGrace` and
`Complete` are the handlers of `spawn.ts`; members of the group exit when they
like, and obey a SIGTERM or not; a SIGKILL takes the group. `attempt.pc` names the
await an executor is at, in `automatic.ts`, `manual.ts`, `provider.ts`,
`codex/gate.ts`, `hydrator.ts` and `ephemeral-store.ts`. `RunnerService` is a plan of
one step: its engine is `RunnerEngine` reduced to the phase, the attempt and the
plan's state in the checkpoint, and what it adds is the process around it, from
`runRunnerService` to `service-status.json`, the signals (which abort the run while
the listeners are installed and end the process otherwise) and
systemd's unit (`Restart=on-failure`, no start limit, `KillMode=mixed`).
`SpawnedCommand` has a specification of its own, `CommandSpec`, with a client that
calls it in any order; that is what `Containment` is proved about.

### PromptJobUnits, PromptJobRuns and PromptJobs

`files` are the units in the directory, `loaded` those systemd has read, `enabled`
and `active` its timers, `registry` what the command remembers; `backup` is the
operation's directory and `orphaned` the directories left behind. A unit is a
version (the number of the command that wrote it). `pc` and `todo` are the loop an
operation is in and the jobs it has left, in any order. A systemctl call that
fails has done any part of its work. In `PromptJobRuns`, `outer` is the "run"
command, `inner` "run-locked", `lock` the flock of the overlap group; the job's own
lock is always free because systemd runs a service once. `StopService`, `KillService`
and `Stopped` are systemd's stop of a control group. The three time limits are
abstract: the inner may pass whenever Codex runs and the outer whenever run-locked
does, since run-locked reads the manifest again before its time counts.
`PromptJobs` composes the two: a service is started when systemd has its unit
loaded, whatever the registry says.

### From Definition to SynthCommand

Documents are functions on field names, scalars members of their set or
`Malformed`, paths sequences of segments, contents of a file the variables it uses
and whether it is a template at all. `Definition` follows the parser function by
function (`Parses...` is what it accepts, `Parsed...` what it returns),
`AssemblyDocuments` the protocol's schemas, `Synthesis` the loader, the metadata, the
contents and the documents made from them, each refusal with its exit code.
`RootPlan` folds the additions of `createPiPlan` into a map from paths to entries and
refuses when two are in each other's way; `FirstBoot` says which steps of the plan
would find the executable, template, variables, secret and provider that they look
for. `AssemblyWriter` has `possible`, the contents of the parent directory that a power loss
may bring back: those since its last sync. This takes a filesystem that
commits the changes of one directory in order, as journaling filesystems do;
without order, a failed sync at `assembly/src/writer.ts:186`, whose `finally` still drops the
backup, could lose the assembly. `SynthCommand` runs one or two commands through
load, collect, synthesize and write, with edits of the files in between.

## 3. Runs

| Run | Properties | States | Time |
|---|---|---|---|
| `checkpoint_store` | `ReturnedIsDurable`, `ReturnedIsHistory` | 272,830 | < 1 min |
| `runner_two_services` | `ServicesAreSupervised`, `LiveChildIsRecorded`, `RunLeavesNoChild`, `CheckpointIsRecoverable`, `TerminalIsFinal` | 452,421 | < 1 min |
| `runner_every_kind` | `SuccessSkipsNothing`, `ExecutesOnce`, `ReachesTerminal` | 329,198 | < 1 min |
| `runner_cancellation` | `CancellationStopsChildren` (violated) | | |
| `secret_disturbed` | `DoneMeansInstalled`, `SecretSurvives`, `RemovalIsDurable`, `RemovesOnlyInstalled`, `EndsInstalled` | 37,908 | seconds |
| `secret_resurrected` | `CommittedRemovalIsDurable` (violated) | | |
| `file_lock` | `MutualExclusion`, `LiveLockIsKept`, `Progress` | 429,846 | 2 to 3 min |
| `image_command` | `ReportIsHonest`, `SuccessIsComplete`, `LeftoversAreReported`, `MountsAreSpared`, `OnlyVerifiedIsCustomized`, `Ends` | 688,884 | < 1 min |
| `artifact_cache` | `AcquiredIsWhole`, `PublishesOnlyWhole`, `EventuallyAcquired` | 21,675 | < 1 min |
| `runner_service` | `ReturnsAlone`, `PromptIsGone`, `OutcomeIsReported`, `PlanEnds`, `CancellationEnds` | 212,487 | 2 min |
| `prompt_jobs` | `SuccessIsExact`, `FailureRestores`, `NothingIsLost`, `GroupRunsAlone`, `ExitIsRecorded` | 2,488,342 | 2 min |
| `synth_command` | `SchemasAgree`, `AcceptedRuns`, `AssemblyIsKept` | 224,292 | 2 min |

Each module states the types of its variables. Those of `CheckpointStore`,
`RunnerEngine`, `FileLock`, `SecretInstall`, `ArtifactCache`, `ImageCommand`,
`RunnerService`, `PromptJobRuns` and `PromptJobUnits` are parts of proved invariants.

What the runs ask, and why the bounds are enough:

- **checkpoint_store.** Does anything take back a document the store returned,
  and is the sequence of returned documents a history? Two callers are one in
  progress and one that waits; two attempts, two process generations and two
  identities are the fewest for an event about an earlier attempt, generation or
  identity. One step only: a plan with several steps multiplies the states
  without a new way to write the file; that a document moves from one step to
  the next is exercised by the engine's runs, and proved for any number of steps.
- **runner_two_services.** Two supporting processes that are launched, adopted,
  relaunched and stopped together, under any two of: cancellation, crash,
  reboot, failing write, failing host operation. Two processes are the fewest
  for one to end while the other is handled. Two disturbances are the fewest for
  a run to be interrupted and its successor to be interrupted while it recovers.
  Seven pids: enough for two generations of both processes in each of the
  runs, and few enough for a pid to be reused.
- **runner_every_kind.** A plan with one step of each kind the engine
  distinguishes (automatic steps take the same path as provider steps), two
  attempts each, any two disturbances, under fairness.
- **secret_disturbed.** Any six of kill, power loss, failing operation and
  replaced source. The history variables of `MCSecretInstall` say whether an
  attempt was cut short otherwise than by a power loss: power losses alone leave
  the durability promises intact, and one kill breaks them (section 6).
- **file_lock.** Three processes: a dead owner and two that recover, or an owner
  and two levels of recovery; two failing file operations; deadlines. With three
  processes of which one must be alive to act, two levels of recovery locks
  suffice: a caller that needed a third would wait for ever, which `Progress` refuses.
- **image_command.** One automounted mountpoint, three swaps of the disk (away, back and
  away again), one cancellation, any operation may fail. Mountpoints only differ in name, and the
  loop that unmounts them already meets one that reappears.
- **artifact_cache.** Three callers: one that quarantines, one that promotes and
  one that checks; two chunks, so that a partial download exists; two faults.
- **runner_service.** One step of each kind of executor in turn, two attempts (a
  retry and an exhausted step), two slots (a gate's terminal command and its
  check), a descendant inside and one outside of each group, two faults: one
  that interrupts and one that meets what the first left.
- **prompt_jobs.** Two jobs of one group, any installation of them in place at the
  beginning, two activities (two commands, a command and a run, or two runs), two
  faults: one that makes a command fail and one that makes its rollback fail. In
  two commands the second meets what the first left. `MCPromptJobs` adds history
  variables: the world when a command began, what the registered jobs were
  installed with, and `torn` (section 6).
- **synth_command.** Three families of initial states. *Any file*: a sample definition
  with every scalar spoilt, every field dropped or added, one of 11 steps
  in every order up to three with and without the gates of a provider, assets at every
  kind of place, accounts, networks; about 2,300 definitions, one user, no trouble.
  *Any tree*: the sample with every lock, unreadable inputs, `--plan`,
  and one edit of a file, to each kind of file, between any two steps. *Any trouble*:
  two users on one output that is absent, somebody else's or an earlier assembly, with
  or without `--replace`, and two failures, deaths or power losses. One edit is
  enough for a command to read sources that existed together at no time,
  because each file is read once for its metadata and once for its contents.

Deadlock is checked in the runs of `CheckpointStore` and `RunnerEngine`.
Elsewhere the system may really stop: `ImageCommand` and `SynthCommand` end, all
processes of `FileLock` may die, callers of `ArtifactCache` have what they wanted,
an installation is done, the runner's unit is off, the administrator wants nothing more.

### The properties

*Store.* `ReturnedIsDurable`: what a power loss leaves is at least as new as the
contents a caller was told of, and what a reader sees is at least as new as that. `ReturnedIsHistory`: the documents returned
implement `CheckpointHistory` (refinement, checked and proved).

*Engine.* `LiveChildIsRecorded`: a registered child that is alive is the one its
step's unfinished record names, so no step has two, and none runs behind a
terminal checkpoint. `ServicesAreSupervised`: while a step executes, each completed
fire-and-forget step's process was adopted or launched by this run.
`RunLeavesNoChild`: a run that succeeded, failed, or reported its interruption
left none of its processes running. `CheckpointIsRecoverable`: no crash leaves a checkpoint that the
next run refuses. `ExecutesOnce`: an attempt starts its command once, and none starts
beyond the attempts of its step.
`SuccessSkipsNothing`: success means each step was executed. `TerminalIsFinal`.
`ReachesTerminal`: with systemd's restarts, a terminal state is reached.

*Secrets.* `SecretSurvives` and `RemovalIsDurable` (power losses alone),
`RemovesOnlyInstalled` (a source that was replaced after installation is left
alone), `DoneMeansInstalled` (and no temporary file with secret contents is left
by any attempt), `EndsInstalled`.

*Locks.* `MutualExclusion` at each level, `LiveLockIsKept` (nobody else removes
the file of a live holder), `Progress` (once no deadline passes any more, waiting
ends in somebody entering, unless a release failed while its process lives:
nobody recovers that lock).

*Image command.* `ReportIsHonest` (a failure never reports the target in a better
state than it is), `SuccessIsComplete`, `LeftoversAreReported` (exit code 13),
`MountsAreSpared` (no mounted partition is checked or resized, nor erased by the
recursive removal of the mount root), `OnlyVerifiedIsCustomized`, `Ends`. That
secrets are always wiped is about the map of secrets that was loaded, not about
copies the runtime may have made.

*Cache.* `AcquiredIsWhole`, `PublishesOnlyWhole`, `EventuallyAcquired`.

*Runner service.* `ReturnsAlone`: an attempt that has returned, however its
commands ended, left no process of a group it started. `PromptIsGone`: a rendered
prompt, with secrets in it, is not on disk while the provider runs or after a
success. It is about the renamed file: when neither the rename nor the removal of the
temporary file succeeds (`ephemeral-store.ts:44` ignores the latter's error), the temporary file holds
the same bytes until the prompts are removed as a whole, and a provider may run meanwhile.
`OutcomeIsReported`: once the plan is terminal the status file comes to say so, unless
somebody ends the unit first, by a signal or a stop (`unit = "off"`); that the runner
ends by itself after a success (`unit = "done"`) is no excuse. `PlanEnds`: a step that waits for no
operator comes to an end. `CancellationEnds`: a runner that is asked to end does. Both
except `HeldOpen`, a descendant outside the process group that holds the output: the
code then really waits for it (`process/src/spawn.ts:235` clears the timer and the
cancellation when the leader exits).

*Prompt jobs.* `SuccessIsExact`: a command that succeeds has put units, timers and
registry into the state asked for, whatever an earlier one left. `FailureRestores`:
one that fails without naming a directory to recover from changed nothing, or did
everything and failed in its last cleanup. `NothingIsLost`: the contents of
every registered job are in place, in the operation's backup, or in a directory that
nothing removes. `GroupRunsAlone`: Codex of two jobs of a group runs at once only if
a supervisor was killed and systemd is ending its service. `ExitIsRecorded`: a
service that exits by itself recorded that very result of that very run.

*Synthesis.* `SchemasAgree`: what the definition accepts, the documents' schemas and
the writer's checks accept. `AcceptedRuns`: what synth accepts can be planned
(`PlansOrApart`) and boots (`BootsOrExcused`), but for what `Apart`, `Gated` and `Excused`
name (section 6). `AssemblyIsKept`: an assembly is only given up for another whole one, no part of one is ever at the output, another's
directory is not touched, and neither a power loss nor the other user undoes a reported
success.

## 4. Fairness

- `RunnerEngine!Fairness`: the runner takes its next step (executors return:
  they have timeouts or, for a manual gate, an operator); the completion
  callback of a child that exited runs; and systemd starts a runner that failed
  or died (`Restart=on-failure`), though not one that it stopped. The budget of
  disturbances makes them finite; nothing more is assumed of them.
- `MCSecretInstall!MCSpec`: the step is attempted until it succeeds, which the
  engine's retries and restarts provide up to the attempts allowed.
- `FileLock!FairLocks`: every caller takes its next step (polling, and the
  critical section ends). Deadlines pass or do not; `Progress` asks what
  happens once none passes (`Patience`), since a caller that gives up is an
  answer that would make it true for the wrong reason.
- `ImageCommand!FairSpec`: each operation ends (external programs have
  timeouts), and the operator answers.
- `ArtifactCache!FairSpec`: each operation ends and whoever failed tries again.
  It is weak fairness per caller: a caller that waits for the lock is served
  since the others, once they have the artifact, do not return.
- `RunnerService!FairSpec`: the service goes on, systemd starts what failed,
  timers fire, and Node delivers the events of a command whose processes are gone.
  Nothing is assumed of processes (they may run for ever, ignore
  SIGTERM, hold the output), of the operator, or of signals; systemd's own
  time limit for a stop owes nothing either, since it would hide what a cancellation leaves.
- `PromptJobs` and `SynthCommand` are checked for safety only: a command ends by its
  program text, and a run's end is a matter of its time limits.

## 5. Theorems

Proved by TLAPS for every value of the constants, under the assumptions on them
that the modules name (`StepCountAssumption`, `DiagnosticsAssumption`,
`BoundsAssumption`; `PlanAssumption`; `ProcessAssumption`, `OwnerAssumption`, `DepthAssumption`;
`BoundAssumption`, `ContentsAssumption`; `LengthAssumption`,
`FaultsAssumption`; `SlotsAssumption`, `ServiceAssumption`; `GroupAssumption`,
`LockAssumption`; `SwapAssumption`; `WriterAssumption`): they only say that bounds are numbers and that the values
that stand for "nothing" are not values.

- **DurableFiles_proofs**, the checkpoint store: `StoreInvariance`, `TypeCorrectness`,
  `Durability`, `Refinement`. `StoreInvariant` is `TypeOK`; `Serialized`, which says that at most one call
  has inspected the file, and that what it inspected is what is visible and durable;
  `ReturnedIsDurable`; and `Chain`, the order (`Precedes`) between what
  was returned, what is durable and what is visible. `Chain` is needed because
  a write that failed after its rename puts documents on disk that were never
  returned: the next one returned follows them, and it follows the last one
  returned only by transitivity. Hence the lemmas that `Precedes` is reflexive
  and transitive on documents and that each transition advances
  (`StepAdvances`, `RegisterAdvances`, ... `WriteAdvances`).
- **DurableFiles_proofs**, the assembly writer: `WriterInvariance`, `SynthIsWriters`,
  `WholeAssembly`, `AssemblySafety`. The writers are proved about by themselves, each step with any
  paths, and the synth command, with any definition and any edits, is shown to take only
  their steps (`SynthIsWriters`). That an assembly is kept is not inductive: a backup may
  be all that holds it. `WriterInvariant` adds to the types what a writer owns at each of its steps
  (`OwnsItsCopies`), that a whole assembly is always at the output or in a backup
  that its writer is not about to drop, and that once somebody published there is such a copy
  of a new one (`KeepsOne`, `KeepsNew`); and the same of everything a power loss may bring back
  (`Kept`). Most steps change neither output nor backups (`Quiet`); six move an assembly or give
  one up. `WholeAssembly` holds for any number of users. That a reported replacement is not
  undone, the last part of `AssemblyIsKept`, rests on `StaysNew` and is false of three users
  (section 6): `AssemblySafety` assumes that there are at most two.
- **DurableFiles_proofs**, the documents: `DefinitionAgain`, `DocumentsAccepted`,
  `PathsAsserted`, `SchemaAgreement`: `SchemasAgree` for definitions of any length, any lock
  and files, any number of commands and edits. Three facts about the schemas carry it.
  What `parseDefinition` returns it accepts again and returns unchanged
  (`DefinitionAgain`): part by part the parsers are idempotent, the uses of a parsed
  definition are its own scripts and secrets followed by uses that name them
  (`Canonical`), and a registry made of such uses is the one that was there
  (`CanonicalRegistry`). The manifest and the plan made of a parsed definition
  with different asset ids are accepted by the protocol's schemas and refer to each
  other rightly (`DocumentsAccepted`). The paths of its files are plain and different
  (`PathsAsserted`). The invariant of the command, `Checked`, says which of these
  premises it has established at each phase: since every file is read at one time and
  used at others, it is about the values that were checked. Lists of any length
  need no induction: the registry holds what a *first* declaration puts there, and the
  least index with a property exists because `<` is well founded (`Least`).
  The theorems assume of the constants what holds of the code's identifiers and paths:
  no identifier is empty or a dot (`NoDots`), those of the runner's own assets are
  identifiers (`RunnerNames`), so is the id a script's asset gets, which is a digest
  when the prefix would make it too long (`Prefixed`, `synth/src/resources.ts:31`), no
  relative path is empty (`SomePath`), and a malformed scalar is no array (`NoArray`).
- **FirstBoot_proofs**: `AcceptedDefinitionsRun`, which is `AcceptedRuns` for any definition,
  files, number of commands and edits; and `FirstBootKeepsPromises`, its second half by
  itself, which needs to assume less.
  First the plan: everything that is added to the root of an accepted definition is compatible, but
  for what `Apart` names. What a plan holds is described without the order it was made in
  (`Held`): the prefixes of all paths that were added, with a leaf where a leaf was added
  and elsewhere the directory that the rules give that path. An addition keeps this if
  its directories are those of the rules (`Ruled`), what is missing above it is made alike
  (`Grounded`), and no leaf is in the way of another addition (`Clear`); a list whose additions are
  all so is planned (`Fits`, `PlannedHeld`). The rest is to show that the list of an accepted
  definition fits: the bundle, the assets and prompts under their own paths, the
  secrets, the host's files and the links of units are leaves of different groups, each with
  its own words in its paths (`CoreBlock`, `CoreSet`), and what the definition places elsewhere
  settles among them and apart from its like exactly when `Apart` says so (`Settles`,
  `Apartly`, `ApartPlans`).
  Then the first boot. An entry that was added to a
  plan of the root filesystem stays as it was added, if the planning ends well (`Extends`,
  `PlannedFiles`): so every prompt, script and required secret is in the root under the path
  where the runner looks (`RunFiles`). It does not matter that `Planned` is recursive: its value at
  each step is some extension of the one before, and the function itself is shown to exist
  by `DirectoryExtends` and `PlannedFiles` from the definition of `CHOOSE`. From
  the schema's side come that every script a step names is declared
  (`StepUsesDeclared`), that a prompt step binds what its template declares, and, from the
  synthesis, that this is what the template uses (`PromptRenders`). `GatedStarts` says
  that a plan with the gates of a Codex slice passes the runner's check before its first
  step. The invariant of the command adds to `Checked` that the files read are
  those that were checked, although they may be edited later (`SourcesRead`), that only a
  command that writes has begun (`WritersWrite`), and what the image was made of
  (`ImageMade`), and what of the documents was accepted (`DocumentsChecked`). Assumed of the constants: `NoArray`, `SomePath`, that a path is a
  sequence of segments (`PathsInOrder`), and, for the plan, that the value of no plan is not
  itself a plan (`NoneIsNoPlan`).
- **RunnerEngine_proofs**: `EngineInvariance`, `TypeCorrectness`, `ServicesSupervision`,
  `LiveChildrenRecorded`, `NoChildLeft`, `CheckpointRecovery`, `NothingSkipped`,
  `SingleExecution` (with `AttemptsBounded`, that no attempt is recorded beyond those of its
  step), `TerminalFinality`: all safety properties of the engine's runs, for any
  plan, any limits of attempts, any pids and any disturbances. None of them is inductive.
  `EngineInvariant` has two parts besides the types. `CheckpointInvariant` speaks of the document and
  holds whatever the runner is doing, so that a crash keeps it: the three
  properties of the document, that a terminal one has settled every process and an accepted
  process is marked so (`ProcessesAreSettled`), and that what was started is at or behind the
  recorded step, and what is behind it was started (`RanIsRecorded`). `RunInvariant` speaks of
  the runner process and is empty when there is none: who may have called launch and resume,
  and that a terminal checkpoint admits only an exception's way out (`Control`); which step and
  phase each await belongs to (`Place`); that `stopAll` for success comes after the last step
  (`SuccessIsEarned`); one tracked process for each step (`TracksOnce`), of completed steps but for the one
  being launched (`TracksCompleted`); that a process whose end was noticed, or that was
  stopped, is gone (`NoticedAreGone`, `StoppedIsGone`), since the record that says
  so is written an await later; that the child being registered is of its step
  (`LaunchIsKnown`); that the services reconciled so far are tracked, recorded and accepted
  (`ServicesAreThere`); and that every live registered child is tracked or, if not, is
  in what the catch block of `#run` holds, so that `stopAll` will adopt it
  (`ChildrenAreWithinReach`). This last part is what `NoChildLeft` rests on: `run.held` lags behind
  the disk, and the invariant says that it never lags about a live child nobody tracks.
  TLC checked `EngineInvariant` on the two engine runs before it was proved.
- **ArtifactCache_proofs**, the lock files: `LockInvariance`, `LockTypes`, `Exclusion`,
  `LiveLocks`, for any number of processes, callers and levels. Mutual exclusion
  is not inductive: a stale recovery could remove a new owner's file. The
  invariant adds that a caller at a recovery lock climbed over dead owners only
  (`OwnerIsAssessed`, `ClimbedOverDead`), that stale files are only looked at
  under a recovery lock (`RecoveryLevel`), that the file of a held lock names
  its holder (`HolderIsNamed`), and that a file about to be removed still names
  the dead owner that was found (`StaleFileIsStable`): the holder of the
  recovery lock is the only one who may remove it.
- **SecretInstall_proofs**: `InstallInvariance`, `TypeCorrectness`,
  `RemovalIsSafe`, `SuccessIsInstalled`, `HistoryInvariance`, `SecretSurvival`,
  `RemovalDurability`. The invariant `InstallInvariant` adds to the types of the
  entries that an attempt about to unlink the source holds what is in the
  destination (`UnlinksInstalled`), that what is renamed is a secret that was
  read (`HeldIsSecret`), that a source durably gone is seen as gone
  (`GoneIsSeenGone`), and that temporary files left behind number at most the
  disturbances so far (`TempsAreLeftOver`), which bounds them for `TypeOK`.
  That a success is complete rests on what came before it: `SuccessInvariant` says
  which phase is recorded at each step (`PhaseIsRecorded`), that the directory was
  cleaned, durably, before the attempt writes to it (`CleansUp`), and that once an
  installation is recorded no power loss brings the old destination back
  (`InstallsSecret`). The last two theorems are about attempts that were not cut
  short, which `interrupted` of `MCSecretInstall` remembers, so the module extends that one:
  `PowerLossIsHarmless` says that nothing is unsynced but what the next step syncs,
  and that the source is there until its copy is durable.
- **ArtifactCache_proofs**, the cache: `CacheInvariance`, `TypeCorrectness`, `Acquisition`,
  `Publication`. The invariant `IInv` is `TypeOK`, `Exclusive` (callers inside
  the lock are its one holder) and, for each caller, what it `Knows` of the two
  files at its program point.

- **RunnerService_proofs**: `HostInvariance`, `Containment`, for the spawn host by itself
  with any client. That a completed command's group is empty is not inductive:
  the invariant adds that the group is empty once a termination is over, and once
  the leader's exit was handled without starting one (`ManagedCleanup` found
  nobody), and that a command with a result has exited. Then `RunnerInvariance`,
  `Solitude`, `PromptSecrecy` of an attempt. The invariant is the types, the host's invariant, that a slot runs a command only
  at the awaits that use it (`SlotsAreFree`), that a foreground command known to have
  ended has ended, and is stopped after its verdict (`OverIsOver`), which places each
  kind of step reaches (`KindHasPlace`), and where prompts exist (`PromptsAreRendered`,
  `PromptIsGone`).
- **PromptJobs_proofs**: `RunsInvariance`, `Exclusion`, `Recording`, for any jobs,
  groups, commands, runs and disturbances. `RunsInvariant` says of each job that
  run-locked runs under a waiting "run" with its group's lock (`Supervised`), that Codex
  runs only when run-locked came to run it (`Ordered`), and that what each
  of the two is about to record is true and what its exit status
  says (`InnerTells`, `OuterTells`, `Recorded`). A step of one job keeps the others
  (`Keeps`), and takes no lock that another holds; an administrator's step keeps all.
  Then `CommandsInvariance`, `TypeCorrectness`, `ExactSuccess`, `FailureIsUndone`,
  `Preservation` of the administrator's commands, whatever the runs do; the history
  variables these are about are in `MCPromptJobs`, so the module extends it. What a
  command that failed leaves depends on everything it did before the failure, so
  `CommandsInvariant` says of each job, at each place of a command, where its unit is
  compared with the beginning: untouched, aside, published, back, or left over by a failed
  rollback (`UnitIs`), and how its timer is set (`TimerIs`); besides, what systemd has loaded
  (`LoadedIs`), which jobs a loop goes through (`InBounds`), and what the registry says
  (`RegistryIs`). That nothing is lost then needs two facts: the contents of a registered
  job are where they were when the command began or in a directory left behind (`ContentsAre`), and what was
  in place at the beginning is in place or in the backup (`UnitIsSomewhere`). TLC checked each part of the
  invariant on the run `prompt_jobs` before it was proved.
- **ImageCommand_proofs**: `CommandInvariance`, `TypeCorrectness`, `Honesty`,
  `Completeness`, `Leftovers`, `Spared`, `CustomizedAfterVerified`, for any mountpoints and
  any number of swaps. That a report is honest is not inductive: it depends on what the
  phases before left behind. `CommandInvariant` adds that at each phase the command
  holds the resources it must give back and no others (`HoldsItsResources`), that the list of
  private mounts is the mounts that exist (`TracksMounts`), that a dry run touches nothing
  (`DryTouchesNothing`), that a disk that was written shows in the phase of the failure or in
  the recovery state (`WritesAreRemembered`), that the recovery state and the completed phases that
  errors carry follow what was verified and checked (`ProgressIsReal`), that disks opened by the
  customization have the partitions of the image (`OpenedHavePartitions`), that the
  path leads to the confirmed disk until the first swap (`FirstSwapLeaves`), and what the disks hold
  then and after it (`ConfirmedIsWritten`).

Only model-checked: all liveness (`ReachesTerminal`, `EndsInstalled`, `Progress`,
`Ends`, `EventuallyAcquired`, `OutcomeIsReported`, `PlanEnds`, `CancellationEnds`),
which is out of the prover's reach. Every safety property that a passing run checks is stated
by a theorem.

## 6. Where code and documentation differ

1. `runner_cancellation`: a cancellation during the acceptance window of a
   relaunched process that has already exited makes `shutdown` record
   `exited-after-acceptance` for a process that was never accepted. The schema
   refuses the record, the error leaves the catch block of `#run`, and the other
   supervised processes keep running. `runner/README.md:72` says that every
   tracked or adopted child is stopped before a cancellation returns.
2. `secret_resurrected`: a kill between the unlink of the source and the sync of
   its directory. The next attempt finds the source absent, syncs nothing and
   commits; a power loss may then bring the source back.

The second concerns what POSIX guarantees of directory entries, and what the
code elsewhere takes care of. A journaling filesystem such as ext4 commits its
metadata in order, so that a later sync of any directory usually commits the
earlier change as well. In the same way a kill between mkdir of the
destination's directory and the sync of its parent
(`runner/src/steps/install-user-secret/destination-store.ts:161`) makes the next
attempt skip that sync; `SecretSurvives` leaves interrupted attempts out.

What the models met besides, where the properties name an exception instead of
hiding it:

- **Accepted by synth, stopped at the first boot** (`Excused` and `Gated` of
  `SynthCommand`). A prompt variable bound to a secret: the adapter puts secrets below
  `/etc/agent-boot/bootstrap-secrets` (`os-adapters/src/raspberry-pi-os-trixie/plan.ts:241`)
  and the runner resolves them below `/run/agent-boot/secrets`
  (`runner-bundle/src/runtime/secret-resolver.ts:13`), which nothing fills, although
  `docs/architecture/0009` describes it as the place of ephemeral secret inputs; a
  definition with such a prompt never gets past it. Likewise a variable bound to
  a key that no earlier step sets, a secret that two steps install (the first
  removes its source), a provider other than Codex or without its gates
  (`runner-bundle/src/runtime/codex.ts`), and a provider without a working directory.
- **Accepted by synth, refused by the customization** (`Apart`). Assets placed in each
  other's way or in the way of a file of the bundle, script ids such as `bin` that
  collide with a directory, user names with an underscore (`plan.ts:333`), and a
  lock of another image than the curated one.
- **Assemblies.** A death between the two renames leaves the output absent and the old
  assembly in `.backup-...`, which nothing restores (`assembly/src/writer.ts:169`). The
  path in an `AssemblyRecoveryError` is never shown by the command. A writer that looks while
  another one swaps sees no output and publishes without `--replace`. With three writers a
  reported replacement may be undone: the first sets the old assembly aside, the second publishes
  and reports success, which makes the first fail, the third sets the second's assembly
  aside, and the first finds no output and puts the old assembly back. The third, which cannot
  publish then, leaves the second's assembly in its backup. Hence two in the run.
- **Prompt jobs.** When the removal of the temporary directory fails after the
  registry was renamed (`unit-store.ts:165`), the rollback restores the units and not the registry
  (`torn` in `MCPromptJobs`). A failing last cleanup fails a command that did everything
  (`unit-store.ts:248`). A death between the publication and the registry leaves units
  nobody owns: later installations refuse them, and uninstalling finds nothing to do.
- **Runner service.** A hangup or SIGTERM before the listeners are installed ends the
  process by the signal, which systemd counts as a clean end: the unit stays off.

## 7. Not modelled

- Scalars' syntax, command-line arguments, parsing of `lsblk`, `sfdisk`, `/proc`, HTTP
  headers: abstracted to the decisions taken from them. Of the lock of an operating
  system only the image's id, the architecture and the boards.
- The greatest length of an array, 10,000 items in both schemas unless one says less. They bound
  different arrays: the manifest's assets are the definition's, its scripts and the
  runner's two, so that a definition at that limit is accepted and its manifest refused
  (`protocol/src/manifest.ts:206`), an exception to `SchemasAgree` the model does not reach.
- The size of the checkpoint (64 KiB), owners and modes of files in the runner:
  refusals without a cause.
- Contents of configuration files, and the application of a planned root to a
  filesystem with its verification (`os-adapters/.../filesystem.ts`): one process writes
  what was planned, in one pass, and any failure fails the customization, which
  `ImageCommand` has. `/run`, planned in the image, is hidden by a tmpfs at boot.
- Runner bundle builder: deterministic copying and digesting; only its layout
  (`RootPlan`). Network selection: interactive prompts and one atomic write.
- Administrators' commands on prompt jobs that run side by side, and a manifest edited between
  the two times one run reads it (its overlap group and time limit would then differ
  between run and run-locked): the code has nothing that would keep them apart.
- Drive topology and `lsblk` parsing.
- A signal that does not reach a process group although it has members
  (`process/src/process-group.ts:16-19`, `:57` ignores the error), `SIGKILL` included.
- A secret's source that is replaced while an attempt runs: its lstat and its unlink
  (`source-store.ts:102-111`) are one step, and others replace it between attempts.
- The creation of the first checkpoint (`store.ts:126-157`) is a write like the others. The
  removal of all prompts at the end of a run (`runner.ts:153-155`) is in
  `RunnerService`, where the prompts are, and not in `RunnerEngine`.
- An empty directory that a failed creation of the mount root leaves in the temporary
  directory (`mount-root.ts:17-27`); the swap of an output directory's backup
  (mkdtemp, rm and rename of `assembly/src/writer.ts`) is one step of a writer.
- Of the definition's agent only whether it is there: with an unknown field in it *and* an unsupported
  version the code reports the former (`definition.ts:231`), the model the latter; both are refused.
- The files of a definition are read in one step, which `SynthCommand` separates from their
  later uses but not from each other. That the definition module has one default export
  (`trusted-definition-loader.ts:145`) and that the runner's artifacts are not empty
  (`synthesize.ts:92`) are refusals without a further effect, and so are those of a secret's contents
  (`os-adapters/.../customize.ts:29`) and of files that are in the image already
  (`os-adapters/.../filesystem.ts:139-166`).

## 8. Plan

Done, in this order: `Checkpoint`, `CheckpointStore` (the runner's memory),
`RunnerEngine` (its core), `SecretInstall`, `FileLock`, `ImageFailure` and
`ImageCommand`, `ArtifactCache`; then `SpawnedCommand`, `StepAttempt` and
`RunnerService`, `PromptJobUnits` and `PromptJobRuns`, and the path from `Definition` to
`SynthCommand`; with proofs of every safety property.

Next: `DriveTopology`: the descendants, mounts and system-disk
decision as functions, checked against a reference definition over small device graphs.
