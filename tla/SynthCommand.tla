---------------------------- MODULE SynthCommand ----------------------------
(***************************************************************************)
(* The synth command from the definition file to the published assembly,   *)
(* run by one or two users on one output, and what becomes of the assembly *)
(* then: the image is customized with it and booted.                       *)
(*                                                                         *)
(* The command reads the definition, the metadata of the files it names    *)
(* and, after that, their contents; the files may be edited meanwhile.     *)
(***************************************************************************)
EXTENDS FirstBoot, AssemblyWriter

CONSTANT MaxEdits      (* bound: edits of the files while commands run *)

VARIABLES
  file,       (* the definition file                                    *)
  tree,       (* the files at the locations a definition names          *)
  inputs,     (* of the other inputs: the lock, whether all can be read *)
  users,      (* those who run the command                              *)
  planOnly,   (* the option --plan                                      *)
  phase,      (* how far a command came, before it writes               *)
  sources,    (* the files as the command read them                     *)
  exit,       (* its exit code                                          *)
  image,      (* what the customization made of the output              *)
  boot,       (* where its first boot stopped                           *)
  edits

commandVars == <<file, inputs, users, planOnly, phase, sources, exit>>
afterVars == <<image, boot>>
synthVars == <<writerVars, commandVars, afterVars, tree, edits>>

None == "none"
NoCode == -1
NotBooted == -2

definition == Loaded(file)

(* What a command that has read its sources makes of them.                 *)
AssemblyOf(w) == Assembly(definition, inputs.lock, sources[w])

CommandInit ==
  /\ phase = [w \in Writer |-> "start"] /\ sources = [w \in Writer |-> None]
  /\ exit = [w \in Writer |-> NoCode]
  /\ image = None /\ boot = NotBooted /\ edits \in 0..MaxEdits

-----------------------------------------------------------------------------
(* A phase of a command ends with a refusal or with the next phase.        *)
Moves(w, here, refusals, next) ==
  /\ w \in users /\ phase[w] = here
  /\ \/ \E code \in refusals \ {0} :
          exit' = Set(exit, w, code) /\ phase' = Set(phase, w, "refused")
     \/ refusals \subseteq {0} /\ phase' = Set(phase, w, next) /\ UNCHANGED exit
  /\ UNCHANGED <<writerVars, afterVars, file, tree, inputs, users, planOnly, edits>>

(* The definition and the other inputs are read side by side: the first    *)
(* that fails gives the code.                                              *)
Load(w) ==
  /\ Moves(w, "start", {LoaderRefusal(file, tree), IF inputs.readable THEN 0 ELSE 7}, "loaded")
  /\ UNCHANGED sources

Collect(w) ==
  /\ Moves(w, "loaded",
           {FirstOf(<<LockRefusal(definition, inputs.lock),
                      CollectionRefusal(definition, tree),
                      ResourceRefusal(definition, tree)>>)}, "collected")
  /\ sources' = Set(sources, w, tree)

(* The documents are checked, and with --plan that is all.                 *)
Synthesize(w) ==
  LET refusal == DocumentRefusal(definition, inputs.lock) IN
  /\ Moves(w, "collected", {refusal}, IF planOnly[w] THEN "planned" ELSE "writing")
  /\ UNCHANGED sources

Plan(w) ==
  /\ phase[w] = "planned" /\ exit[w] = NoCode /\ exit' = Set(exit, w, 0)
  /\ UNCHANGED <<writerVars, afterVars, file, tree, inputs, users, planOnly, phase, sources, edits>>

Paths(w) == FilePaths(definition, sources[w])

WriteAssembly(w) ==
  /\ phase[w] = "writing" /\ (Begin(w) \/ Write(w, Paths(w)))
  /\ exit' = CASE at'[w] = "written" -> Set(exit, w, 0)
               [] at'[w] = "exists" -> Set(exit, w, 6)
               [] at'[w] = "failed" -> Set(exit, w, 7)
               [] OTHER -> exit
  /\ UNCHANGED <<afterVars, file, tree, inputs, users, planOnly, phase, sources, edits>>

LosePower ==
  PowerFails /\ UNCHANGED <<commandVars, afterVars, tree, edits>>

Edit(url, contents) ==
  /\ edits < MaxEdits /\ edits' = edits + 1
  /\ contents # tree[url] /\ tree' = [tree EXCEPT ![url] = contents]
  /\ UNCHANGED <<writerVars, commandVars, afterVars>>

-----------------------------------------------------------------------------
(* The assembly at the output, when a single command was run.              *)
Published(w) == users = {w} /\ at[w] = "written" /\ disk.out = Copy(w, "synced")

Customize(w) ==
  /\ Published(w) /\ image = None
  /\ image' = IF RootPlan(AssemblyOf(w)) = NoPlan THEN "refused" ELSE "planned"
  /\ UNCHANGED <<writerVars, commandVars, tree, edits, boot>>

Boot(w) ==
  /\ Published(w) /\ image = "planned" /\ boot = NotBooted
  /\ boot' = StopsAt(RootPlan(AssemblyOf(w)), AssemblyOf(w))
  /\ UNCHANGED <<writerVars, commandVars, tree, edits, image>>

CommandNext ==
  \/ \E w \in users :
       Load(w) \/ Collect(w) \/ Synthesize(w) \/ Plan(w) \/ WriteAssembly(w)
       \/ Customize(w) \/ Boot(w)
  \/ LosePower

-----------------------------------------------------------------------------
(* What the command takes and the customization does not: the lock of      *)
(* another image, an account's name it finds unportable, and an asset      *)
(* placed, or a script called, so that another planned file is in its way. *)
Apart(assembly) ==
  LET home == Home(assembly.manifest)
      placed(resource) == Has(resource, "placement")
                       /\ resource.id \notin Range(assembly.manifest.bootstrap.runnerInstallation)
      targets == {Target(resource, home) : resource \in
                    {a \in Range(assembly.manifest.assets) : placed(a)}}
      bare == [assembly EXCEPT !.manifest.assets =
                 [i \in DOMAIN @ |-> IF placed(@[i]) THEN [id |-> @[i].id, path |-> @[i].path]
                                     ELSE @[i]]]
      others == Planned(Additions(bare))
  IN /\ assembly.lock = CuratedLock
     /\ assembly.manifest.bootstrap.account.username \in PortableUsername
     /\ \A i, j \in DOMAIN assembly.manifest.assets :
          LET one == assembly.manifest.assets[i]
              other == assembly.manifest.assets[j]
          IN placed(one) /\ placed(other) /\ i # j =>
               ~IsPrefix(Target(one, home), Target(other, home))
     /\ \A resource \in Range(assembly.manifest.assets) :
          placed(resource) =>
            IF resource.placement.scope = "system" THEN ~IsPrefix(home, resource.placement.path)
            ELSE ~IsPrefix(<<".npm">>, resource.placement.path)
     /\ \A target \in targets, path \in DOMAIN others :
          /\ ~IsPrefix(target, path)
          /\ Above(path, target) => others[path].kind = "directory"

(* What the definition takes and the first boot stops at: a prompt with a  *)
(* secret, or with a key that nothing has set, the provider that runs it,  *)
(* a provider other than Codex or without its gates, and a secret that is  *)
(* installed twice.                                                        *)
Unset(steps, i) ==
  \E binding \in Range(steps[i].variables) :
    \/ binding.source.kind = "secret"
    \/ binding.source.kind = "environment" /\ ~IsSet(steps, i, binding.source.key)

Slice(credentials) ==
  codexProvider("codex", credentials, [scope |-> "user-home", path |-> <<"workspace">>])

(* A step with a command, but for its id and the pace of its polling.      *)
Gate(step) == [field \in DOMAIN step \ {"id", "pollIntervalSeconds"} |-> step[field]]
Gates(steps) == {Gate(step) : step \in {s \in steps : Has(s, "command")}}

Gated(plan) ==
  /\ \A i \in DOMAIN plan.providers : plan.providers[i].command = Slice(<<>>).provider.command
  /\ \E gates \in {Slice(<<>>), Slice(<<secret("any", "anywhere")>>)} :
       Gates(Range(gates.bootstrapSteps))
         \subseteq Gates(Earlier(plan.steps, FirstProvider(plan.steps)))

Excused(plan, i) ==
  LET this == plan.steps[i] IN
  CASE this.kind = "prompt" -> Unset(plan.steps, i)
    [] this.kind = "provider" ->
         \/ ~Gated(plan)
         \/ \E j \in 1..(i - 1) :
              /\ plan.steps[j].kind = "prompt" /\ Unset(plan.steps, j)
              /\ plan.steps[j].renderedPromptId = this.renderedPromptId
    [] this.kind = "install-user-secret" ->
         \E earlier \in Earlier(plan.steps, i) :
           earlier.kind = "install-user-secret" /\ earlier.secretId = this.secretId
    [] OTHER -> FALSE

(* A definition that synth accepts makes an image that works: its files    *)
(* can be planned but for what Apart names, and no step of the first boot  *)
(* lacks what the definition promised it, a script, a rendered prompt or a *)
(* secret, but for what Excused names; also when files are edited while    *)
(* the command runs (synthesize.ts, plan.ts: createPiPlan, hydrator.ts).   *)
PlansOrApart(w) == image = "refused" => ~Apart(AssemblyOf(w))

BootsOrExcused(w) ==
  /\ boot = NotStarted => ~Gated(AssemblyOf(w).plan)
  /\ boot > 0 => Excused(AssemblyOf(w).plan, boot)

AcceptedRuns == \A w \in Writer : Published(w) => PlansOrApart(w) /\ BootsOrExcused(w)

(* The definition's validation and the schemas of the documents made from  *)
(* it are written apart, and agree: a definition that was loaded parses    *)
(* again to itself, and what is synthesized from it is never stopped by    *)
(* the documents' schemas or by the writer's check of paths                *)
(* (definition.ts, assembly.ts: assemblyDocumentsSchema, writer.ts).       *)
SchemasAgree ==
  \A w \in Writer :
    /\ phase[w] = "loaded" => Parses(definition) /\ Parsed(definition) = definition
    /\ phase[w] = "collected" => DocumentRefusal(definition, inputs.lock) = 0
    /\ phase[w] = "writing" /\ at[w] = "write" => AssertsPaths(Paths(w))
=============================================================================
