----------------------------- MODULE FirstBoot ------------------------------
(***************************************************************************)
(* What the runner finds on the first boot of a customized image: which of *)
(* the plan's steps can do their work with the files that were planned.    *)
(* What a command does once it runs is its own affair.                     *)
(***************************************************************************)
EXTENDS RootPlan, DefinitionBuilders

Earlier(steps, i) == {steps[j] : j \in 1..(i - 1)}

(* The environment of step i: what the steps before it have set.           *)
IsSet(steps, i, key) ==
  \E j \in 1..(i - 1) :
    /\ steps[j].kind = "environment" /\ steps[j].key = key /\ steps[j].operation = "set"
    /\ \A k \in (j + 1)..(i - 1) :
         steps[k].kind = "environment" /\ steps[k].key = key => steps[k].operation = "set"

HasFile(entries, path) == path \in DOMAIN entries /\ entries[path].kind = "file"

Executable(entries, stepCommand) ==
  Has(stepCommand.executable, "path") =>
    /\ HasFile(entries, stepCommand.executable.path)
    /\ entries[stepCommand.executable.path].mode = "0755"

(* A variable's value: from the environment of the prompt's own step, or   *)
(* from the directory of the runner's secrets.                             *)
Resolves(entries, steps, i, source) ==
  IF source.kind = "environment" THEN IsSet(steps, i, source.key)
  ELSE HasFile(entries, RunSecrets \o <<source.secretId>>)

(* renderTemplate substitutes every variable used and wants none left over.*)
Renders(contents, names) == contents.text = "template" /\ contents.uses = names

Hydrates(entries, assembly, i) ==
  LET steps == assembly.plan.steps
      bindings == steps[i].variables
      names == Range(BoundNames(bindings))
  IN \E template \in Range(assembly.manifest.prompts) :
       /\ template.id = steps[i].templateId
       /\ HasFile(entries, Optdir \o template.path)
       /\ names = Range(template.variables)
       /\ \A b \in DOMAIN bindings : Resolves(entries, steps, i, bindings[b].source)
       /\ Renders(assembly.files[template.path], names)

(* The runner takes providers only as the Codex slice of a definition      *)
(* declares them, its version and its login checked before the first use.  *)
IsCommand(stepCommand, name, arguments) ==
  stepCommand.executable = Program(name) /\ stepCommand.arguments = arguments

(* Any version will do, the arguments before it will not.                  *)
PinsVersion(stepCommand) ==
  /\ stepCommand.executable = Program("agent-boot-codex")
  /\ Len(stepCommand.arguments) >= Len(VerifyVersion)
  /\ IsPrefix(Front(VerifyVersion), stepCommand.arguments)

FirstProvider(steps) ==
  CHOOSE i \in DOMAIN steps :
    steps[i].kind = "provider" /\ \A step \in Earlier(steps, i) : step.kind # "provider"

StartsUp(plan) ==
  \/ \A i \in DOMAIN plan.steps : plan.steps[i].kind # "provider"
  \/ LET before == Earlier(plan.steps, FirstProvider(plan.steps)) IN
     /\ \A i \in DOMAIN plan.providers :
          plan.providers[i].command.executable = Program("codex")
     /\ \/ \E step \in before :
             /\ step.kind = "manual" /\ IsCommand(step.command, "codex", DeviceAuth)
             /\ IsCommand(step.completionCheck, "codex", LoginStatus)
        \/ \E step \in before :
             step.kind = "automatic" /\ IsCommand(step.command, "codex", LoginStatus)
     /\ \E step \in before : step.kind = "automatic" /\ PinsVersion(step.command)

(* The provider's prompt is hydrated again, where its own step stands.     *)
Provides(entries, assembly, i) ==
  LET steps == assembly.plan.steps IN
  \E p \in DOMAIN assembly.plan.providers, j \in DOMAIN steps :
    /\ assembly.plan.providers[p].id = steps[i].providerId
    /\ Has(assembly.plan.providers[p].command, "workingDirectory")
    /\ assembly.plan.providers[p].command.arguments = ProviderArguments
    /\ steps[j].kind = "prompt" /\ steps[j].renderedPromptId = steps[i].renderedPromptId
    /\ Hydrates(entries, assembly, j)

(* An installed secret is gone from the bootstrap directory.               *)
Installs(entries, steps, i) ==
  /\ HasFile(entries, BootstrapSecrets \o <<steps[i].secretId>>)
  /\ \A step \in Earlier(steps, i) :
       step.kind = "install-user-secret" => step.secretId # steps[i].secretId

StepWorks(entries, assembly, i) ==
  LET steps == assembly.plan.steps IN
  CASE steps[i].kind = "environment" -> TRUE
    [] steps[i].kind \in {"automatic", "fire-and-forget"} ->
         Executable(entries, steps[i].command)
    [] steps[i].kind = "manual" ->
         /\ Executable(entries, steps[i].command)
         /\ Executable(entries, steps[i].completionCheck)
    [] steps[i].kind = "prompt" -> Hydrates(entries, assembly, i)
    [] steps[i].kind = "provider" -> Provides(entries, assembly, i)
    [] OTHER -> Installs(entries, steps, i)

Finished == 0
NotStarted == -1

(* Where the first boot stops: at no step, at its start, or at a step.     *)
StopsAt(entries, assembly) ==
  LET failing == {i \in DOMAIN assembly.plan.steps : ~StepWorks(entries, assembly, i)} IN
  CASE ~StartsUp(assembly.plan) -> NotStarted
    [] StartsUp(assembly.plan) /\ failing = {} -> Finished
    [] OTHER -> CHOOSE i \in failing : \A j \in failing : i <= j
=============================================================================
