------------------------- MODULE AssemblyDocuments --------------------------
(***************************************************************************)
(* What the protocol's schemas accept: the manifest, the runner's plan and *)
(* the lock of the operating system, as the synthesis writes them and the  *)
(* image customization and the runner read them.                           *)
(***************************************************************************)
EXTENDS DocumentScalars

AcceptsIdentifier(value) == value \in Identifier

AcceptsString(value) == value # Malformed

AcceptsKey(value) == value \in EnvironmentKey

AcceptsSegments(path) == path # <<>>

AcceptsPrefixed(path, prefix) == Len(path) > 1 /\ Head(path) = prefix

AcceptsTarget(value) ==
  /\ Fields(value, {"scope", "path"}, {})
  /\ value.scope \in {"system", "user-home"} /\ AcceptsSegments(value.path)

AcceptsSecret(value) == Fields(value, {"secretId"}, {}) /\ AcceptsIdentifier(value.secretId)

(* The executable is a name, or the absolute path of a script.             *)
AcceptsExecutable(value) ==
  \/ Fields(value, {"program"}, {}) /\ AcceptsString(value.program)
  \/ Fields(value, {"path"}, {}) /\ AcceptsSegments(value.path)

AcceptsCommand(value) ==
  /\ Fields(value, {"executable", "arguments"}, {"workingDirectory"})
  /\ AcceptsExecutable(value.executable)
  /\ \A i \in DOMAIN value.arguments : AcceptsString(value.arguments[i])
  /\ Has(value, "workingDirectory") => AcceptsTarget(value.workingDirectory)

-----------------------------------------------------------------------------
(* The runner's steps.                                                     *)

AcceptsEnvironmentStep(value) ==
  /\ value.kind = "environment"
  /\ Fields(value, {"id", "kind", "operation", "key"}, {"value"})
  /\ AcceptsKey(value.key)
  /\ \/ value.operation = "set" /\ Has(value, "value") /\ AcceptsString(value.value)
     \/ value.operation = "unset" /\ ~Has(value, "value")

AcceptsAutomaticStep(value) ==
  /\ value.kind = "automatic"
  /\ Fields(value, {"id", "kind", "command"}, {}) /\ AcceptsCommand(value.command)

AcceptedInterval == 1..86400

AcceptsManualStep(value) ==
  /\ value.kind = "manual"
  /\ Fields(value, {"id", "kind", "command", "completionCheck", "pollIntervalSeconds"}, {})
  /\ AcceptsCommand(value.command) /\ AcceptsCommand(value.completionCheck)
  /\ value.pollIntervalSeconds \in AcceptedInterval

AcceptsFireAndForgetStep(value) ==
  /\ value.kind = "fire-and-forget"
  /\ Fields(value, {"id", "kind", "command", "lifetime"}, {})
  /\ AcceptsCommand(value.command) /\ value.lifetime = "runner"

AcceptsVariableSource(value) ==
  \/ /\ Fields(value, {"kind", "key"}, {})
     /\ value.kind = "environment" /\ AcceptsKey(value.key)
  \/ /\ Fields(value, {"kind", "secretId"}, {})
     /\ value.kind = "secret" /\ AcceptsIdentifier(value.secretId)

BoundNames(bindings) == [i \in DOMAIN bindings |-> bindings[i].name]

AcceptsPromptStep(value) ==
  /\ value.kind = "prompt"
  /\ Fields(value, {"id", "kind", "templateId", "renderedPromptId", "retention",
                    "variables"}, {})
  /\ \A i \in DOMAIN value.variables :
       LET binding == value.variables[i] IN
       /\ Fields(binding, {"name", "source"}, {})
       /\ AcceptsIdentifier(binding.name) /\ AcceptsVariableSource(binding.source)
  /\ IsInjective(BoundNames(value.variables))
  /\ AcceptsIdentifier(value.templateId) /\ AcceptsIdentifier(value.renderedPromptId)
  /\ value.retention = "ephemeral"

AcceptsProviderStep(value) ==
  /\ value.kind = "provider"
  /\ Fields(value, {"id", "kind", "providerId", "renderedPromptId"}, {})
  /\ AcceptsIdentifier(value.providerId) /\ AcceptsIdentifier(value.renderedPromptId)

AcceptsSecretStep(value) ==
  /\ value.kind = "install-user-secret"
  /\ Fields(value, {"id", "kind", "secretId", "destination"}, {})
  /\ AcceptsIdentifier(value.secretId) /\ AcceptsSegments(value.destination)

AcceptsStep(value) ==
  /\ {"id", "kind"} \subseteq DOMAIN value /\ AcceptsIdentifier(value.id)
  /\ \/ AcceptsEnvironmentStep(value)   \/ AcceptsAutomaticStep(value)
     \/ AcceptsManualStep(value)        \/ AcceptsFireAndForgetStep(value)
     \/ AcceptsPromptStep(value)        \/ AcceptsProviderStep(value)
     \/ AcceptsSecretStep(value)

-----------------------------------------------------------------------------
AcceptsProvider(value) ==
  /\ Fields(value, {"id", "command", "promptTransport"}, {})
  /\ AcceptsIdentifier(value.id) /\ AcceptsCommand(value.command)
  /\ value.promptTransport = "stdin"

StepReferencesHold(providers, steps) ==
  \A i \in DOMAIN steps :
    LET rendered == {steps[j].renderedPromptId :
                       j \in {k \in 1..(i - 1) : steps[k].kind = "prompt"}}
    IN /\ steps[i].kind = "prompt" => steps[i].renderedPromptId \notin rendered
       /\ steps[i].kind = "provider" =>
            /\ steps[i].providerId \in Range(Ids(providers))
            /\ steps[i].renderedPromptId \in rendered

AcceptsPlan(value) ==
  /\ Fields(value, {"schemaVersion", "agentId", "providers", "steps"}, {})
  /\ \A i \in DOMAIN value.providers : AcceptsProvider(value.providers[i])
  /\ \A i \in DOMAIN value.steps : AcceptsStep(value.steps[i])
  /\ IsInjective(Ids(value.providers)) /\ IsInjective(Ids(value.steps))
  /\ StepReferencesHold(value.providers, value.steps)
  /\ value.schemaVersion = 1 /\ AcceptsIdentifier(value.agentId)

(* Digest and length stand for the contents and are left to them.          *)
AcceptsAsset(value) ==
  /\ Fields(value, {"id", "path"}, {"placement"})
  /\ AcceptsIdentifier(value.id) /\ AcceptsPrefixed(value.path, "assets")
  /\ Has(value, "placement") => AcceptsTarget(value.placement)

AcceptsPrompt(value) ==
  /\ Fields(value, {"id", "path", "variables"}, {})
  /\ AcceptsIdentifier(value.id) /\ AcceptsPrefixed(value.path, "prompts")
  /\ \A i \in DOMAIN value.variables : AcceptsIdentifier(value.variables[i])
  /\ IsInjective(value.variables)

AcceptsAccount(value) ==
  /\ Fields(value, {"username"}, {"initialPassword", "unattendedSudo"})
  /\ value.username \in Username
  /\ Has(value, "initialPassword") => AcceptsSecret(value.initialPassword)
  /\ Has(value, "unattendedSudo") => value.unattendedSudo \in BOOLEAN

AcceptsNetwork(value) ==
  /\ Fields(value, {"hostname"}, {"wifi"}) /\ AcceptsString(value.hostname)
  /\ Has(value, "wifi") =>
       /\ Fields(value.wifi, {"ssid", "passphrase"}, {})
       /\ AcceptsString(value.wifi.ssid) /\ AcceptsSecret(value.wifi.passphrase)

AcceptsBootstrap(value) ==
  /\ Fields(value, {"account", "runnerInstallation"}, {"network"})
  /\ AcceptsAccount(value.account)
  /\ Has(value, "network") => AcceptsNetwork(value.network)
  /\ Fields(value.runnerInstallation, {"runtimeAssetId", "entrypointAssetId"}, {})

AcceptsManifest(value) ==
  /\ Fields(value, {"schemaVersion", "agent", "bootstrap", "assets", "prompts"}, {})
  /\ Fields(value.agent, {"id", "displayName"}, {})
  /\ AcceptsIdentifier(value.agent.id) /\ AcceptsString(value.agent.displayName)
  /\ \A i \in DOMAIN value.assets : AcceptsAsset(value.assets[i])
  /\ \A i \in DOMAIN value.prompts : AcceptsPrompt(value.prompts[i])
  /\ IsInjective(Ids(value.assets)) /\ IsInjective(Ids(value.prompts))
  /\ AcceptsBootstrap(value.bootstrap)
  /\ Range(value.bootstrap.runnerInstallation) \subseteq Range(Ids(value.assets))
  /\ value.schemaVersion = 1

AcceptsLock(value) ==
  /\ Fields(value, {"catalogId", "architecture", "boards"}, {})
  /\ AcceptsIdentifier(value.catalogId) /\ AcceptsIdentifier(value.architecture)
  /\ value.boards # <<>> /\ IsInjective(value.boards)
  /\ \A i \in DOMAIN value.boards : AcceptsIdentifier(value.boards[i])

(* Every prompt step binds what its template in the manifest declares.     *)
PromptReferencesHold(manifest, plan) ==
  \A i \in DOMAIN plan.steps :
    plan.steps[i].kind = "prompt" =>
      \E template \in Range(manifest.prompts) :
        /\ template.id = plan.steps[i].templateId
        /\ Range(template.variables) = Range(BoundNames(plan.steps[i].variables))

AcceptsDocuments(manifest, plan, lock) ==
  /\ AcceptsManifest(manifest) /\ AcceptsPlan(plan) /\ AcceptsLock(lock)
  /\ manifest.agent.id = plan.agentId
  /\ PromptReferencesHold(manifest, plan)
=============================================================================
