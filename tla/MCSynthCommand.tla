--------------------------- MODULE MCSynthCommand ---------------------------
(***************************************************************************)
(* The definition files, trees and users of the runs.  One user runs the   *)
(* command on any file of a family, without trouble; or on the sample,     *)
(* whose sources, lock and other inputs vary and are edited; or two users  *)
(* run it on one output, with trouble.                                     *)
(***************************************************************************)
EXTENDS SynthCommand, TLC

CONSTANTS w1, w2

MCWriter == {w1, w2}
MCLongIdentifier == {"long-script"}
MCIdentifier ==
  {"scout", "codex", "codex-install", "codex-verify-version", "codex-configure-profile",
   "codex-verify-profile", "codex-authenticate-device", "codex-install-credentials",
   "codex-verify-authentication", "other", "notes", "script-deploy", "runner-runtime",
   "runner-entrypoint",
   "deploy", "bin", "script-bin", "long-script", "script-digest-long-script", "token",
   "brief", "rendered", "lang", "extra", "set", "unset", "run-deploy", "serve", "render",
   "again", "ask", "keep", "wait", "rpi-os", "arm64", "rpi-4", "rpi-5",
   "jobs-manifest", "jobs-install", "daily"}
MCUsername == {"scout", "scout_1"}
MCPortableUsername == {"scout"}
MCEnvironmentKey == {"AGENT_NAME"}
MCRelativePath ==
  {<<"workspace">>, <<".codex", "auth.json">>, <<".token">>, <<"srv", "notes">>, <<"srv">>,
   <<"etc", "fstab">>, <<"etc", "fstab", "notes">>, <<"home", "scout", "shared", "notes">>,
   <<"shared", "other">>, <<"opt", "agent-boot", "prompts", "brief">>,
   <<"notes">>, <<"workspace", "notes">>, <<".npm", "notes">>, <<".bashrc">>,
   <<"scheduled-prompts", "jobs.json">>, <<"scheduled-prompts", "daily.md">>}
MCCuratedLock ==
  [catalogId |-> "rpi-os", architecture |-> "arm64", boards |-> <<"rpi-5", "rpi-4">>]
MCDefinitionUrl == "def/agent.ts"
MCRoot == {"def/notes", "def/deploy.sh", "def/token", "def/brief.md", "def/other"}
MCLocation == MCRoot \cup {"elsewhere/notes"}

-----------------------------------------------------------------------------
(* The sample.                                                             *)

Workspace == [scope |-> "user-home", path |-> <<"workspace">>]
Codex(credentials) == codexProvider("codex", credentials, Workspace)
Deploy == script("deploy", "def/deploy.sh")
Token == secret("token", "def/token")
Brief == prompt("brief", "def/brief.md", <<"lang">>)
Known(id) == [scriptId |-> id]
Render == renderPrompt("render", Brief, "rendered",
                       <<promptVariable("lang", fromEnvironment("AGENT_NAME"))>>)
Ask == runProvider("ask", Codex(<<>>).provider, "rendered")
SetName == setEnvironment("set", "AGENT_NAME", "C")

SampleSteps ==
  Codex(<<>>).bootstrapSteps
  \o <<SetName, automatic("run-deploy", command(Deploy, <<>>)),
       fireAndForget("serve", command(Known("deploy"), <<>>)), Render, Ask,
       installUserSecret("keep", Token, <<".token">>),
       unsetEnvironment("unset", "AGENT_NAME")>>

Sample ==
  [definitionUrl |-> MCDefinitionUrl, schemaVersion |-> 1,
   agent |-> [id |-> "scout", displayName |-> "Scout"],
   operatingSystem |-> [catalogId |-> "rpi-os",
     compatibility |-> [architecture |-> "arm64", boards |-> <<"rpi-4", "rpi-5">>]],
   account |-> [username |-> "scout"],
   assets |-> <<asset("notes", "def/notes")>>,
   prompts |-> <<Brief>>, providers |-> <<Codex(<<>>).provider>>, steps |-> SampleSteps]

-----------------------------------------------------------------------------
(* Its variations.                                                         *)

With(field, value) == (field :> value) @@ Sample
Without(record, field) == [f \in DOMAIN record \ {field} |-> record[f]]
Spoilt(record, field) == [record EXCEPT ![field] = Malformed]

(* One scalar or array spoilt, one field dropped or one too many.         *)
ScalarFields ==
  {"definitionUrl", "schemaVersion", "id", "displayName", "catalogId", "architecture",
   "username", "initialPassword", "unattendedSudo", "hostname", "ssid", "key", "value",
   "operation", "lifetime", "retention", "templateId", "renderedPromptId", "providerId",
   "secretId", "scriptId", "destination", "promptTransport", "pollIntervalSeconds", "name",
   "program", "relative", "url", "kind", "boards", "arguments", "variables", "assets",
   "prompts", "providers", "steps"}
Defects(record) ==
  {Without(record, field) : field \in DOMAIN record}
  \cup {Spoilt(record, field) : field \in DOMAIN record \cap (ScalarFields \ {"initialPassword"})}
  \cup {record @@ [surplus |-> "field"]}

DeepDefects(record, field) ==
  {[record EXCEPT ![field] = defect] : defect \in Defects(record[field])}

Each(record, field, bad(_)) ==
  UNION {{[record EXCEPT ![field][i] = b] : b \in bad(record[field][i])} :
           i \in DOMAIN record[field]}

CommandDefects(c) == Defects(c) \cup DeepDefects(c, "executable")

StepDefects(s) ==
  Defects(s)
  \cup (IF Has(s, "command")
        THEN {[s EXCEPT !.command = c] : c \in CommandDefects(s.command)} ELSE {})
  \cup (IF Has(s, "completionCheck")
        THEN {[s EXCEPT !.completionCheck = c] : c \in CommandDefects(s.completionCheck)}
        ELSE {})
  \cup (IF Has(s, "secret") THEN DeepDefects(s, "secret") ELSE {})
  \cup (IF s.kind = "prompt"
        THEN Each(s, "variables", LAMBDA v : Defects(v) \cup DeepDefects(v, "source")) ELSE {})

ProviderDefects(p) ==
  Defects(p) \cup {[p EXCEPT !.command = c] : c \in CommandDefects(p.command)}

SourceDefects(r) == Defects(r) \cup DeepDefects(r, "source")

Broken ==
  Defects(Sample) \cup DeepDefects(Sample, "agent") \cup DeepDefects(Sample, "account")
  \cup DeepDefects(Sample, "operatingSystem")
  \cup {[Sample EXCEPT !.operatingSystem = s] :
          s \in DeepDefects(Sample.operatingSystem, "compatibility")}
  \cup Each(Sample, "assets", SourceDefects) \cup Each(Sample, "prompts", SourceDefects)
  \cup Each(Sample, "providers", ProviderDefects)
  \cup Each(Sample, "steps", StepDefects)

(* Steps in every order, with and without the gates of the provider.       *)
Pool ==
  {SetName, Render, Ask, unsetEnvironment("unset", "AGENT_NAME"),
   renderPrompt("again", Brief, "rendered", <<promptVariable("lang", fromSecret(Token))>>),
   automatic("run-deploy", command(Deploy, <<>>)),
   automatic("serve", command(Known("deploy"), <<>>)),
   manual("wait", command(script("long-script", "def/deploy.sh"), <<>>),
          command(script("deploy", "def/other"), <<>>), 2),
   fireAndForget("other", command(script("bin", "def/deploy.sh"), <<>>)),
   installUserSecret("keep", Token, <<".token">>),
   [id |-> "extra", kind |-> "install-user-secret", secretId |-> "token",
    destination |-> <<".codex", "auth.json">>]}

Ordered ==
  LET short == {steps \in SeqOf(Pool, 3) : IsInjective(Ids(steps))}
      gated == {steps \in short : Ask \in Range(steps)}
  IN short \cup {Codex(credentials).bootstrapSteps \o steps :
                   credentials \in {<<>>, <<Token>>}, steps \in gated}

(* Where assets lie, alone, with another, and with a script of their name. *)
Placements ==
  {placedAsset("notes", "def/notes", scope, path) :
     scope \in {"system", "user-home"}, path \in MCRelativePath}
Laid ==
  {<<one>> : one \in Placements} \cup {<<asset("script-deploy", "def/notes")>>}
  \cup {<<asset("runner-runtime", "def/notes")>>, <<asset("notes", "elsewhere/notes")>>}
  \cup {<<one, two>> : one \in Placements,
         two \in {placedAsset("other", "def/other", "system", <<"srv", "notes">>),
                  placedAsset("other", "def/other", "user-home", <<"shared", "other">>)}}

Jobs == scheduledPromptJobs("jobs", "def/other", "daily", "def/notes", "daily.md", "scout")

Account(more) == With("account", Sample.account @@ more)
Network(passphrase) ==
  With("network", [hostname |-> "scout",
                   wifi |-> [ssid |-> "home", passphrase |-> passphrase]])

Composed ==
  {With("steps", steps) : steps \in Ordered} \cup {With("assets", assets) : assets \in Laid}
  \cup {With("prompts", <<prompt("brief", "def/brief.md", variables)>>) :
          variables \in {<<>>, <<"lang", "extra">>, <<"lang", "lang">>}}
  \cup {With("schemaVersion", 2), With("definitionUrl", "def/other"), Sample,
        With("account", [username |-> "scout_1"]),
        Account([unattendedSudo |-> TRUE]), Account([initialPassword |-> Token]),
        Account([initialPassword |-> [secretId |-> "token"]]),
        With("network", [hostname |-> "scout"]),
        Network(Token), Network([secretId |-> "token"]), Network([secretId |-> "other"]),
        [Sample EXCEPT !.assets = @ \o Jobs.assets, !.steps = @ \o Jobs.installSteps],
        Sample @@ [scripts |-> <<script("bin", "def/deploy.sh")>>,
                  secrets |-> <<secret("other", "def/other")>>],
        [Sample EXCEPT !.providers[1].command = command(Program("other"), <<>>)],
        [Sample EXCEPT !.providers[1].command = command(Deploy, <<>>)]}

Family ==
  {[defined |-> defined, input |-> input] : defined \in BOOLEAN, input \in Broken}
  \cup {[defined |-> TRUE, input |-> input] : input \in Composed}

-----------------------------------------------------------------------------
(* The trees and the rest of the inputs.                                   *)

Ordinary(url) ==
  [type |-> "file", text |-> IF url = "def/brief.md" THEN "template" ELSE "text",
   uses |-> IF url = "def/brief.md" THEN {"lang"} ELSE {}]
SampleTree == [url \in MCLocation |-> Ordinary(url)]

Edited(url) ==
  {[Ordinary(url) EXCEPT !.type = type] : type \in FileTypes}
  \cup {[Ordinary(url) EXCEPT !.text = "binary"]}
  \cup {[Ordinary(url) EXCEPT !.uses = uses] : uses \in SUBSET {"lang", "extra"}}

SampleLock == MCCuratedLock
Locks ==
  {SampleLock, [SampleLock EXCEPT !.architecture = "other"],
   [SampleLock EXCEPT !.boards = <<"rpi-5">>],
   [SampleLock EXCEPT !.boards = <<"rpi-5", "rpi-4", "other">>], [SampleLock EXCEPT !.boards = <<>>]}
SampleInputs == [lock |-> SampleLock, readable |-> TRUE]

AnyFile ==
  /\ users = {w1} /\ troubles = MaxTroubles /\ edits = MaxEdits
  /\ before = Absent /\ replace = [w \in Writer |-> FALSE]
  /\ planOnly = [w \in Writer |-> FALSE]
  /\ file \in Family /\ tree = SampleTree /\ inputs = SampleInputs

AnyTree ==
  /\ users = {w1} /\ troubles = MaxTroubles /\ edits = 0
  /\ before = Absent /\ replace = [w \in Writer |-> FALSE]
  /\ planOnly \in [Writer -> BOOLEAN]
  /\ file = [defined |-> TRUE, input |-> Sample] /\ tree = SampleTree
  /\ inputs \in [lock : Locks, readable : BOOLEAN]

AnyTrouble ==
  /\ users = MCWriter /\ troubles = 0 /\ edits = MaxEdits
  /\ planOnly = [w \in Writer |-> FALSE]
  /\ file = [defined |-> TRUE, input |-> Sample]
  /\ tree = SampleTree /\ inputs = SampleInputs

MCInit == WriterInit /\ CommandInit /\ (AnyFile \/ AnyTree \/ AnyTrouble)

MCNext ==
  \/ CommandNext
  \/ \E url \in MCLocation : \E contents \in Edited(url) : Edit(url, contents)

MCSpec == MCInit /\ [][MCNext]_synthVars
=============================================================================
