----------------------------- MODULE Definition -----------------------------
(***************************************************************************)
(* What agentDefinitionSchema accepts, and what it makes of it: local      *)
(* references to scripts and secrets are gathered in one registry and      *)
(* replaced by their ids, whether a use declares one or names one that an  *)
(* earlier use declared.                                                   *)
(***************************************************************************)
EXTENDS DocumentScalars

ParsesIdentifier(value) == value \in Identifier

ParsesString(value) == value # Malformed

ParsesTarget(value) ==
  /\ Object(value, {"scope", "path"}, {})
  /\ value.scope \in {"system", "user-home"}
  /\ value.path \in RelativePath

(* A source is a path relative to the definition, or a URL already resolved.*)
ParsesSource(value) ==
  \/ Object(value, {"relative"}, {}) /\ value.relative \in Location
  \/ /\ Object(value, {"kind", "url"}, {})
     /\ value.kind = "local" /\ value.url \in Location

Url(source) == IF Has(source, "relative") THEN source.relative ELSE source.url

ParsesReference(value, kind) ==
  /\ Object(value, {"kind", "id", "source"}, {})
  /\ value.kind = kind /\ ParsesIdentifier(value.id) /\ ParsesSource(value.source)

ParsesAsset(value) ==
  /\ Object(value, {"kind", "id", "source"}, {"placement"})
  /\ value.kind = "asset" /\ ParsesIdentifier(value.id) /\ ParsesSource(value.source)
  /\ Has(value, "placement") => ParsesTarget(value.placement)

ParsesPrompt(value) ==
  /\ Object(value, {"kind", "id", "source", "variables"}, {})
  /\ value.kind = "prompt" /\ ParsesIdentifier(value.id) /\ ParsesSource(value.source)
  /\ Array(value.variables)
  /\ \A i \in DOMAIN value.variables : ParsesIdentifier(value.variables[i])
  /\ IsInjective(value.variables)

(* A use of a script or a secret: a declaration, or the id of an earlier   *)
(* one under the name `idField`.                                           *)
ParsesUse(value, kind, idField) ==
  \/ Object(value, {idField}, {}) /\ ParsesIdentifier(value[idField])
  \/ ParsesReference(value, kind)

ParsesOperatingSystem(value) ==
  /\ Object(value, {"catalogId", "compatibility"}, {})
  /\ Object(value.compatibility, {"architecture", "boards"}, {})
  /\ ParsesIdentifier(value.catalogId)
  /\ ParsesIdentifier(value.compatibility.architecture)
  /\ LET boards == value.compatibility.boards IN
     /\ Array(boards) /\ boards # <<>> /\ IsInjective(boards)
     /\ \A i \in DOMAIN boards : ParsesIdentifier(boards[i])

ParsesCommand(value) ==
  /\ Object(value, {"executable", "arguments"}, {"workingDirectory"})
  /\ \/ /\ Object(value.executable, {"program"}, {})
        /\ ParsesString(value.executable.program)
     \/ ParsesUse(value.executable, "script", "scriptId")
  /\ Array(value.arguments) /\ \A i \in DOMAIN value.arguments : ParsesString(value.arguments[i])
  /\ Has(value, "workingDirectory") => ParsesTarget(value.workingDirectory)

ParsesProvider(value) ==
  /\ Object(value, {"id", "command", "promptTransport"}, {})
  /\ ParsesIdentifier(value.id) /\ ParsesCommand(value.command)
  /\ value.promptTransport = "stdin"

-----------------------------------------------------------------------------
(* The kinds of step.                                                      *)

ParsesEnvironment(value) ==
  /\ value.kind = "environment"
  /\ \/ /\ Object(value, {"id", "kind", "operation", "key", "value"}, {})
        /\ value.operation = "set" /\ ParsesString(value.value)
     \/ /\ Object(value, {"id", "kind", "operation", "key"}, {})
        /\ value.operation = "unset"
  /\ value.key \in EnvironmentKey

ParsesAutomatic(value) ==
  /\ value.kind = "automatic"
  /\ Object(value, {"id", "kind", "command"}, {})
  /\ ParsesCommand(value.command)

PollInterval == 1..86400

ParsesManual(value) ==
  /\ value.kind = "manual"
  /\ Object(value, {"id", "kind", "command", "completionCheck", "pollIntervalSeconds"}, {})
  /\ ParsesCommand(value.command) /\ ParsesCommand(value.completionCheck)
  /\ value.pollIntervalSeconds \in PollInterval

ParsesFireAndForget(value) ==
  /\ value.kind = "fire-and-forget"
  /\ Object(value, {"id", "kind", "command", "lifetime"}, {})
  /\ value.lifetime = "runner" /\ ParsesCommand(value.command)

(* Exactly one of a declaration and an id.                                 *)
ParsesSecretIn(value, fields) ==
  \/ /\ Object(value, fields \cup {"secret"}, {})
     /\ ParsesReference(value.secret, "secret")
  \/ /\ Object(value, fields \cup {"secretId"}, {})
     /\ ParsesIdentifier(value.secretId)

ParsesVariable(value) ==
  /\ Has(value, "kind")
  /\ \/ /\ value.kind = "environment"
        /\ Object(value, {"kind", "key"}, {}) /\ value.key \in EnvironmentKey
     \/ value.kind = "secret" /\ ParsesSecretIn(value, {"kind"})

Names(bindings) == [i \in DOMAIN bindings |-> bindings[i].name]

ParsesPromptStep(value) ==
  /\ value.kind = "prompt"
  /\ Object(value, {"id", "kind", "templateId", "renderedPromptId", "retention",
                    "variables"}, {})
  /\ value.retention = "ephemeral"
  /\ ParsesIdentifier(value.templateId) /\ ParsesIdentifier(value.renderedPromptId)
  /\ Array(value.variables)
  /\ \A i \in DOMAIN value.variables :
       LET binding == value.variables[i] IN
       /\ Object(binding, {"name", "source"}, {})
       /\ ParsesIdentifier(binding.name) /\ ParsesVariable(binding.source)
  /\ IsInjective(Names(value.variables))

ParsesProviderStep(value) ==
  /\ value.kind = "provider"
  /\ Object(value, {"id", "kind", "providerId", "renderedPromptId"}, {})
  /\ ParsesIdentifier(value.providerId) /\ ParsesIdentifier(value.renderedPromptId)

ParsesInstallUserSecret(value) ==
  /\ value.kind = "install-user-secret"
  /\ ParsesSecretIn(value, {"id", "kind", "destination"})
  /\ value.destination \in RelativePath

ParsesStep(value) ==
  /\ {"id", "kind"} \subseteq DOMAIN value /\ ParsesIdentifier(value.id)
  /\ \/ ParsesEnvironment(value)   \/ ParsesAutomatic(value)    \/ ParsesManual(value)
     \/ ParsesFireAndForget(value) \/ ParsesPromptStep(value)
     \/ ParsesProviderStep(value)  \/ ParsesInstallUserSecret(value)

-----------------------------------------------------------------------------
(* The registry of scripts and secrets.                                    *)

(* A use as the registry sees it: with a url when it declares.             *)
Use(kind, idField, value) ==
  IF Has(value, idField) THEN [kind |-> kind, id |-> value[idField]]
  ELSE [kind |-> kind, id |-> value.id, url |-> Url(value.source)]

CommandUses(command) ==
  IF Has(command.executable, "program") THEN <<>>
  ELSE <<Use("script", "scriptId", command.executable)>>

SecretUse(value) ==
  IF Has(value, "secret") THEN Use("secret", "secretId", value.secret)
  ELSE Use("secret", "secretId", value)

StepUses(step) ==
  CASE step.kind \in {"automatic", "fire-and-forget"} -> CommandUses(step.command)
    [] step.kind = "manual" -> CommandUses(step.command) \o CommandUses(step.completionCheck)
    [] step.kind = "prompt" ->
         FlattenSeq([i \in DOMAIN step.variables |->
           IF step.variables[i].source.kind = "environment" THEN <<>>
           ELSE <<SecretUse(step.variables[i].source)>>])
    [] step.kind = "install-user-secret" -> <<SecretUse(step)>>
    [] OTHER -> <<>>

Listed(input, field) == IF Has(input, field) THEN input[field] ELSE <<>>

(* What the lists declare, and the uses in the rest of what is parsed      *)
(* before the version.                                                     *)
ListedUses(input) ==
  LET Each(field, kind, idField) ==
        [i \in DOMAIN Listed(input, field) |-> Use(kind, idField, Listed(input, field)[i])]
  IN Each("scripts", "script", "scriptId") \o Each("secrets", "secret", "secretId")

BodyUses(input) ==
  (IF Has(input.account, "initialPassword")
   THEN <<Use("secret", "secretId", input.account.initialPassword)>> ELSE <<>>)
  \o FlattenSeq([i \in DOMAIN Listed(input, "providers") |->
                   CommandUses(input.providers[i].command)])
  \o FlattenSeq([i \in DOMAIN input.steps |-> StepUses(input.steps[i])])

EarlyUses(input) == ListedUses(input) \o BodyUses(input)

(* The network is parsed after the version.                                *)
NetworkUses(input) ==
  IF Has(input, "network") /\ Has(input.network, "wifi")
  THEN <<Use("secret", "secretId", input.network.wifi.passphrase)>> ELSE <<>>

(* All the uses, in the order in which the schema meets them.              *)
Uses(input) == EarlyUses(input) \o NetworkUses(input)

(* An id is declared before it is named, and always with the same source.  *)
Registers(uses) ==
  \A i \in DOMAIN uses :
    LET declared == {uses[j].url : j \in {k \in 1..(i - 1) :
                       /\ uses[k].kind = uses[i].kind /\ uses[k].id = uses[i].id
                       /\ Has(uses[k], "url")}}
    IN IF Has(uses[i], "url") THEN declared \subseteq {uses[i].url} ELSE declared # {}

Local(kind, id, url) ==
  [kind |-> kind, id |-> id, source |-> [kind |-> "local", url |-> url]]

(* Every declared id once, in the order of the first declarations.         *)
Declares(use, kind) == use.kind = kind /\ Has(use, "url")

IsFirst(uses, kind, n) ==
  /\ Declares(uses[n], kind)
  /\ \A m \in 1..(n - 1) : Declares(uses[m], kind) => uses[m].id # uses[n].id

Registry(kind, uses) ==
  FlattenSeq([n \in DOMAIN uses |->
                IF IsFirst(uses, kind, n) THEN <<Local(kind, uses[n].id, uses[n].url)>>
                ELSE <<>>])

-----------------------------------------------------------------------------
(* The definition.                                                         *)

ParsesAccount(value) ==
  /\ Object(value, {"username"}, {"initialPassword", "unattendedSudo"})
  /\ value.username \in Username
  /\ Has(value, "initialPassword") => ParsesUse(value.initialPassword, "secret", "secretId")
  /\ Has(value, "unattendedSudo") => value.unattendedSudo \in BOOLEAN

ParsesNetwork(value) ==
  /\ Object(value, {"hostname"}, {"wifi"}) /\ ParsesString(value.hostname)
  /\ Has(value, "wifi") =>
       /\ Object(value.wifi, {"ssid", "passphrase"}, {}) /\ ParsesString(value.wifi.ssid)
       /\ ParsesUse(value.wifi.passphrase, "secret", "secretId")

(* What is parsed before the version is looked at.                         *)
ParsesParts(input) ==
  /\ Object(input, {"definitionUrl", "agent", "account", "steps"},
            {"schemaVersion", "operatingSystem", "network", "assets", "prompts",
             "scripts", "secrets", "providers"})
  /\ ParsesString(input.definitionUrl)
  /\ \A field \in {"scripts", "secrets", "assets", "prompts", "providers", "steps"} :
       Array(Listed(input, field))
  /\ \A i \in DOMAIN Listed(input, "scripts") : ParsesReference(input.scripts[i], "script")
  /\ \A i \in DOMAIN Listed(input, "secrets") : ParsesReference(input.secrets[i], "secret")
  /\ \A i \in DOMAIN Listed(input, "assets") : ParsesAsset(input.assets[i])
  /\ \A i \in DOMAIN Listed(input, "prompts") : ParsesPrompt(input.prompts[i])
  /\ \A i \in DOMAIN Listed(input, "providers") : ParsesProvider(input.providers[i])
  /\ ParsesAccount(input.account)
  /\ input.steps # <<>> /\ \A i \in DOMAIN input.steps : ParsesStep(input.steps[i])
  /\ \A field \in {"assets", "prompts", "providers", "steps"} :
       IsInjective(Ids(Listed(input, field)))
  /\ Registers(EarlyUses(input))

ParsesVersion(input) == Has(input, "schemaVersion") => input.schemaVersion = 1

(* A prompt step binds exactly the variables its template declares and     *)
(* renders under a name of its own; a provider step runs a declared        *)
(* provider on a prompt rendered before it.                                *)
ValidReferences(input) ==
  \A i \in DOMAIN input.steps :
    LET step == input.steps[i]
        rendered == {input.steps[j].renderedPromptId :
                       j \in {k \in 1..(i - 1) : input.steps[k].kind = "prompt"}}
    IN /\ step.kind = "prompt" =>
            /\ step.renderedPromptId \notin rendered
            /\ \E prompt \in Range(Listed(input, "prompts")) :
                 /\ prompt.id = step.templateId
                 /\ Range(prompt.variables) = Range(Names(step.variables))
       /\ step.kind = "provider" =>
            /\ step.providerId \in Range(Ids(Listed(input, "providers")))
            /\ step.renderedPromptId \in rendered

Parses(input) ==
  /\ ParsesParts(input) /\ ParsesVersion(input)
  /\ Object(input.agent, {"id", "displayName"}, {})
  /\ ParsesIdentifier(input.agent.id) /\ ParsesString(input.agent.displayName)
  /\ Has(input, "operatingSystem") /\ ParsesOperatingSystem(input.operatingSystem)
  /\ Has(input, "network") => ParsesNetwork(input.network)
  /\ Registers(Uses(input)) /\ ValidReferences(input)

-----------------------------------------------------------------------------
(* What the schema returns for an input it accepts.                        *)

Named(kind, idField, value) == [field \in {idField} |-> Use(kind, idField, value).id]

ParsedResource(value) == [value EXCEPT !.source = [kind |-> "local", url |-> Url(@)]]

ParsedCommand(command) ==
  [command EXCEPT !.executable =
     IF Has(@, "program") THEN @ ELSE Named("script", "scriptId", @)]

ParsedVariable(binding) ==
  [binding EXCEPT !.source =
     IF @.kind = "environment" THEN @
     ELSE [kind |-> "secret", secretId |-> SecretUse(@).id]]

ParsedStep(step) ==
  CASE step.kind \in {"automatic", "fire-and-forget"} ->
         [step EXCEPT !.command = ParsedCommand(@)]
    [] step.kind = "manual" ->
         [step EXCEPT !.command = ParsedCommand(@), !.completionCheck = ParsedCommand(@)]
    [] step.kind = "prompt" ->
         [step EXCEPT !.variables = [i \in DOMAIN step.variables |->
                                       ParsedVariable(step.variables[i])]]
    [] step.kind = "install-user-secret" ->
         [id |-> step.id, kind |-> step.kind, secretId |-> SecretUse(step).id,
          destination |-> step.destination]
    [] OTHER -> step

ParsedAccount(account) ==
  [field \in DOMAIN account |->
     IF field = "initialPassword" THEN Named("secret", "secretId", account[field])
     ELSE account[field]]

ParsedNetwork(network) ==
  IF ~Has(network, "wifi") THEN network
  ELSE [network EXCEPT !.wifi.passphrase = Named("secret", "secretId", @)]

Parsed(input) ==
  LET uses == Uses(input)
      providers == Listed(input, "providers")
  IN Joined(
       [schemaVersion |-> 1, definitionUrl |-> input.definitionUrl, agent |-> input.agent,
        operatingSystem |-> input.operatingSystem,
        account |-> ParsedAccount(input.account),
        assets |-> [i \in DOMAIN Listed(input, "assets") |-> ParsedResource(input.assets[i])],
        prompts |-> [i \in DOMAIN Listed(input, "prompts") |-> ParsedResource(input.prompts[i])],
        scripts |-> Registry("script", uses), secrets |-> Registry("secret", uses),
        providers |-> [i \in DOMAIN providers |->
                         [providers[i] EXCEPT !.command = ParsedCommand(@)]],
        steps |-> [i \in DOMAIN input.steps |-> ParsedStep(input.steps[i])]],
       IF Has(input, "network") THEN [network |-> ParsedNetwork(input.network)] ELSE <<>>)
=============================================================================
