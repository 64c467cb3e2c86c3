------------------------- MODULE DefinitionBuilders -------------------------
(***************************************************************************)
(* The functions with which a definition file builds its parts.  `at` is   *)
(* the location of a local file.                                           *)
(***************************************************************************)
EXTENDS Definition

localReference(kind, id, at) ==
  [kind |-> kind, id |-> id, source |-> [relative |-> at]]

asset(id, at) == localReference("asset", id, at)

placedAsset(id, at, scope, path) ==
  Joined(asset(id, at), [placement |-> [scope |-> scope, path |-> path]])

prompt(id, at, variables) ==
  Joined(localReference("prompt", id, at), [variables |-> variables])

script(id, at) == localReference("script", id, at)

secret(id, at) == localReference("secret", id, at)

fromEnvironment(key) == [kind |-> "environment", key |-> key]

fromSecret(value) == [kind |-> "secret", secret |-> value]

promptVariable(name, source) == [name |-> name, source |-> source]

command(executable, arguments) == [executable |-> executable, arguments |-> arguments]

commandIn(executable, arguments, workingDirectory) ==
  Joined(command(executable, arguments), [workingDirectory |-> workingDirectory])

setEnvironment(id, key, value) ==
  [id |-> id, kind |-> "environment", operation |-> "set", key |-> key, value |-> value]

unsetEnvironment(id, key) ==
  [id |-> id, kind |-> "environment", operation |-> "unset", key |-> key]

automatic(id, stepCommand) == [id |-> id, kind |-> "automatic", command |-> stepCommand]

manual(id, stepCommand, completionCheck, pollIntervalSeconds) ==
  [id |-> id, kind |-> "manual", command |-> stepCommand,
   completionCheck |-> completionCheck, pollIntervalSeconds |-> pollIntervalSeconds]

fireAndForget(id, stepCommand) ==
  [id |-> id, kind |-> "fire-and-forget", command |-> stepCommand, lifetime |-> "runner"]

renderPrompt(id, template, renderedPromptId, variables) ==
  [id |-> id, kind |-> "prompt", templateId |-> template.id,
   renderedPromptId |-> renderedPromptId, retention |-> "ephemeral",
   variables |-> variables]

runProvider(id, providerDefinition, renderedPromptId) ==
  [id |-> id, kind |-> "provider", providerId |-> providerDefinition.id,
   renderedPromptId |-> renderedPromptId]

installUserSecret(id, secretInput, destination) ==
  [id |-> id, kind |-> "install-user-secret", secret |-> secretInput,
   destination |-> destination]

provider(id, providerCommand) ==
  [id |-> id, command |-> providerCommand, promptTransport |-> "stdin"]

-----------------------------------------------------------------------------
Program(name) == [program |-> name]

LoginStatus == <<"login", "status">>
DeviceAuth == <<"login", "--device-auth">>
VerifyVersion == <<"verify-version", "--expected", "1.0.0">>

(* The arguments with which the provider's own bundle runs Codex.          *)
ProviderArguments ==
  <<"--profile", "agent-boot", "--strict-config", "exec", "--skip-git-repo-check", "-">>

(* A Codex provider and the steps that must come before it: a pinned       *)
(* version, a profile, and a login, from a credential (a secret) or, when  *)
(* there is none, at the device.                                           *)
codexProvider(id, credentials, root) ==
  LET step(suffix) == id \o suffix
      run(suffix, name, arguments) ==
        automatic(step(suffix), commandIn(Program(name), arguments, root))
      codex(arguments) == commandIn(Program("codex"), arguments, root)
  IN [provider |-> provider(id, codex(ProviderArguments)),
      bootstrapSteps |->
        <<run("-install", "npm", <<"install", "--global">>),
          run("-verify-version", "agent-boot-codex", VerifyVersion),
          run("-configure-profile", "agent-boot-codex", <<"configure-profile">>),
          run("-verify-profile", "agent-boot-codex", <<"verify-profile">>)>>
        \o IF credentials = <<>>
           THEN <<manual(step("-authenticate-device"), codex(DeviceAuth),
                         codex(LoginStatus), 2)>>
           ELSE <<installUserSecret(step("-install-credentials"), credentials[1],
                                    <<".codex", "auth.json">>),
                  automatic(step("-verify-authentication"), codex(LoginStatus))>>]

(* The manifest and prompt files of scheduled jobs, and the step that      *)
(* installs them.                                                          *)
scheduledPromptJobs(id, manifestAt, promptId, promptAt, promptPath, username) ==
  [assets |->
     <<placedAsset(id \o "-manifest", manifestAt, "user-home",
                   <<"scheduled-prompts", "jobs.json">>),
       placedAsset(promptId, promptAt, "user-home", <<"scheduled-prompts", promptPath>>)>>,
   installSteps |->
     <<automatic(id \o "-install",
         commandIn(Program("sudo"),
                   <<"-n", "/usr/local/sbin/agent-boot-prompt-jobs", "install",
                     "--account", username, "--manifest",
                     "scheduled-prompts/jobs.json", "--enabled">>,
                   [scope |-> "user-home", path |-> <<"workspace">>]))>>]
=============================================================================
