----------------------------- MODULE Synthesis ------------------------------
(***************************************************************************)
(* From a definition file and the files it names to an assembly: the       *)
(* trusted loader, the collection of the sources and the synthesis.  A     *)
(* refusal is the exit code the command gives it, 0 when there is none.    *)
(*                                                                         *)
(* A tree gives every location its file: its type, and of its contents the *)
(* variables it uses as a template and whether it is one at all.           *)
(***************************************************************************)
EXTENDS Definition, AssemblyDocuments

CONSTANTS
  Root,            (* the locations beneath the definition's directory *)
  DefinitionUrl    (* the definition file's own *)

FileTypes == {"file", "behind link", "unreadable", "link", "hidden", "missing"}

FirstOf(refusals) ==
  LET real == {i \in DOMAIN refusals : refusals[i] # 0} IN
  IF real = {} THEN 0 ELSE refusals[Min(real)]

References(definition) ==
  definition.assets \o definition.prompts \o definition.scripts \o definition.secrets

-----------------------------------------------------------------------------
(* The loader.  A definition file exports its input as it is or passes it  *)
(* through defineAgent when it is imported.                                *)

ImportRefusal(file) ==
  CASE ~file.defined -> 0
    [] file.defined /\ ~ParsesParts(file.input) -> 2
    [] file.defined /\ ParsesParts(file.input) /\ ~ParsesVersion(file.input) -> 3
    [] OTHER -> IF Parses(file.input) THEN 0 ELSE 2

Exported(file) == IF file.defined THEN Parsed(file.input) ELSE file.input

(* The loader knows the url and wants no other.                            *)
ExportRefusal(exported) ==
  CASE ~ParsesVersion(exported) -> 3
    [] Has(exported, "definitionUrl") /\ exported.definitionUrl # DefinitionUrl -> 2
    [] OTHER -> IF Parses(Joined([definitionUrl |-> DefinitionUrl], exported)) THEN 0 ELSE 2

Loaded(file) == Parsed(Joined([definitionUrl |-> DefinitionUrl], Exported(file)))

(* lstat of the last component only: what a link leads through is not seen.*)
MetadataRefusal(reference, tree) ==
  CASE tree[reference.source.url].type \in {"missing", "link"} -> 2
    [] tree[reference.source.url].type = "hidden" -> 4
    [] OTHER -> 0

LoaderRefusal(file, tree) ==
  IF ImportRefusal(file) # 0 THEN ImportRefusal(file)
  ELSE IF ExportRefusal(Exported(file)) # 0 THEN ExportRefusal(Exported(file))
  ELSE LET references == References(Loaded(file)) IN
       FirstOf([i \in DOMAIN references |-> MetadataRefusal(references[i], tree)])

-----------------------------------------------------------------------------
(* The synthesis.                                                          *)

LockRefusal(definition, lock) ==
  LET compatibility == definition.operatingSystem.compatibility IN
  IF /\ AcceptsLock(lock) /\ lock.architecture = compatibility.architecture
     /\ Range(compatibility.boards) \subseteq Range(lock.boards)
  THEN 0 ELSE 5

(* Secrets are looked at and never read.                                   *)
SourceRefusal(reference, tree) ==
  LET url == reference.source.url IN
  CASE url \notin Root \/ tree[url].type \notin {"file", "unreadable"} -> 5
    [] reference.kind # "secret" /\ tree[url].type = "unreadable" -> 7
    [] OTHER -> 0

CollectionRefusal(definition, tree) ==
  LET references == References(definition) IN
  FirstOf([i \in DOMAIN references |-> SourceRefusal(references[i], tree)])

(* Mutant: an id too long for the prefix is not digested.                  *)
ScriptAssetIdPrefixed(id) == "script-" \o id

ScriptAssetId(id) ==
  IF id \in LongIdentifier THEN "script-digest-" \o id ELSE "script-" \o id

RunnerAssetIds == <<"runner-runtime", "runner-entrypoint">>

AssetIds(definition) ==
  RunnerAssetIds \o Ids(definition.assets)
  \o [i \in DOMAIN definition.scripts |-> ScriptAssetId(definition.scripts[i].id)]

(* Mutant: a declared variable need not be used.                           *)
TemplateRefusalLax(template, contents) ==
  IF contents.text = "template" /\ contents.uses \subseteq Range(template.variables)
  THEN 0 ELSE 5

(* A template is text, well formed, and uses what it declares, no more and *)
(* no less.                                                                *)
TemplateRefusal(template, contents) ==
  IF contents.text = "template" /\ contents.uses = Range(template.variables)
  THEN 0 ELSE 5

ResourceRefusal(definition, tree) ==
  IF ~IsInjective(AssetIds(definition)) THEN 5
  ELSE FirstOf([i \in DOMAIN definition.prompts |->
         TemplateRefusal(definition.prompts[i], tree[definition.prompts[i].source.url])])

RuntimePath == <<"assets", "runner", "runtime">>
EntrypointPath == <<"assets", "runner", "entrypoint.mjs">>
AssetPath(id) == <<"assets", "resources", id>>
ScriptPath(id) == <<"assets", "scripts", id>>
PromptPath(id) == <<"prompts", id>>
ScriptTarget(id) == <<"opt", "agent-boot", "scripts", id>>

Placed(target) == [scope |-> "system", path |-> target]

RunnerAssets ==
  <<[id |-> "runner-runtime", path |-> RuntimePath,
     placement |-> Placed(<<"opt", "agent-boot", "runtime", "node">>)],
    [id |-> "runner-entrypoint", path |-> EntrypointPath,
     placement |-> Placed(<<"opt", "agent-boot", "runner.mjs">>)]>>

AssetDescriptor(asset) ==
  Joined([id |-> asset.id, path |-> AssetPath(asset.id)],
         IF Has(asset, "placement") THEN [placement |-> asset.placement] ELSE <<>>)

ScriptDescriptor(script) ==
  [id |-> ScriptAssetId(script.id), path |-> ScriptPath(script.id),
   placement |-> Placed(ScriptTarget(script.id))]

PromptDescriptor(prompt) ==
  [id |-> prompt.id, path |-> PromptPath(prompt.id), variables |-> prompt.variables]

Assets(definition) ==
  RunnerAssets
  \o [i \in DOMAIN definition.assets |-> AssetDescriptor(definition.assets[i])]
  \o [i \in DOMAIN definition.scripts |-> ScriptDescriptor(definition.scripts[i])]

CommandDescriptor(command) ==
  [command EXCEPT !.executable =
     IF Has(@, "program") THEN @ ELSE [path |-> ScriptTarget(@.scriptId)]]

RunnerStep(step) ==
  CASE step.kind \in {"automatic", "fire-and-forget"} ->
         [step EXCEPT !.command = CommandDescriptor(@)]
    [] step.kind = "manual" ->
         [step EXCEPT !.command = CommandDescriptor(@),
                      !.completionCheck = CommandDescriptor(@)]
    [] OTHER -> step

RunnerPlan(definition) ==
  [schemaVersion |-> 1, agentId |-> definition.agent.id,
   providers |-> [i \in DOMAIN definition.providers |->
                    [definition.providers[i] EXCEPT !.command = CommandDescriptor(@)]],
   steps |-> [i \in DOMAIN definition.steps |-> RunnerStep(definition.steps[i])]]

Manifest(definition) ==
  [schemaVersion |-> 1, agent |-> definition.agent,
   bootstrap |->
     Joined([account |-> definition.account,
             runnerInstallation |-> [runtimeAssetId |-> "runner-runtime",
                                     entrypointAssetId |-> "runner-entrypoint"]],
            IF Has(definition, "network") THEN [network |-> definition.network] ELSE <<>>),
   assets |-> Assets(definition),
   prompts |-> [i \in DOMAIN definition.prompts |-> PromptDescriptor(definition.prompts[i])]]

(* The files of the assembly besides its three documents: what a path      *)
(* holds is the file of the tree it was read from.                         *)
ContentFiles(definition, tree) ==
  LET Read(resources, path(_)) ==
        [i \in DOMAIN resources |->
           [path |-> path(resources[i].id), contents |-> tree[resources[i].source.url]]]
  IN Read(definition.assets, AssetPath) \o Read(definition.scripts, ScriptPath)
     \o Read(definition.prompts, PromptPath)

FilePaths(definition, tree) ==
  LET files == ContentFiles(definition, tree) IN
  <<<<"manifest.json">>, <<"runner-plan.json">>, <<"os-lock.json">>,
    RuntimePath, EntrypointPath>> \o [i \in DOMAIN files |-> files[i].path]

ContentsAt(definition, tree, path) ==
  LET files == ContentFiles(definition, tree) IN
  files[CHOOSE i \in DOMAIN files : files[i].path = path].contents

Assembly(definition, lock, tree) ==
  [manifest |-> Manifest(definition), plan |-> RunnerPlan(definition), lock |-> lock,
   files |-> [path \in Range(FilePaths(definition, tree)) |->
                IF \E file \in Range(ContentFiles(definition, tree)) : file.path = path
                THEN ContentsAt(definition, tree, path)
                ELSE [type |-> "file", text |-> "document", uses |-> {}]]]

(* The synthesis checks its own documents with the protocol's schemas.     *)
DocumentRefusal(definition, lock) ==
  IF AcceptsDocuments(Manifest(definition), RunnerPlan(definition), lock) THEN 0 ELSE 7
=============================================================================
