------------------------------ MODULE RootPlan ------------------------------
(***************************************************************************)
(* The files that the customization of an image plans for its root         *)
(* filesystem: the runner bundle, the account's home, the assembly, its    *)
(* placed assets and the system's own settings, added one after another,   *)
(* and refused when two of them want one place.                            *)
(***************************************************************************)
EXTENDS Synthesis

CONSTANTS
  PortableUsername,   (* the names the adapter takes for the first user *)
  CuratedLock,        (* the lock of the image the adapter customizes   *)
  NoPlan

ASSUME RootPlanAssumption == PortableUsername \subseteq Username

Above(path, other) == Len(path) < Len(other) /\ IsPrefix(path, other)

Directory(mode, owner) == [kind |-> "directory", mode |-> mode, owner |-> owner]
Plain(mode, owner) == [kind |-> "file", mode |-> mode, owner |-> owner]
Symlink == [kind |-> "symlink", mode |-> "0777", owner |-> "root"]

(* Only directories lie above another entry, and only a directory, with    *)
(* the same mode and owner, is planned twice.                              *)
Compatible(entries, path, entry) ==
  /\ \A other \in DOMAIN entries :
       /\ Above(other, path) => entries[other].kind = "directory"
       /\ Above(path, other) => entry.kind = "directory"
  /\ path \in DOMAIN entries => entry.kind = "directory" /\ entries[path] = entry

Add(plan, path, entry) ==
  IF plan # NoPlan /\ Compatible(plan, path, entry)
  THEN [other \in DOMAIN plan \cup {path} |-> IF other = path THEN entry ELSE plan[other]]
  ELSE NoPlan

(* A directory under `path`, with the missing ones above it.               *)
AddLevel(plan, path, i, leaf, ancestor) ==
  LET here == SubSeq(path, 1, i) IN
  CASE i = Len(path) -> Add(plan, path, leaf)
    [] i < Len(path) /\ (plan = NoPlan \/ here \in DOMAIN plan) -> plan
    [] OTHER -> Add(plan, here, ancestor)

AddDirectory(plan, path, leaf, ancestor) ==
  LET built[i \in 0..Len(path)] ==
        IF i = 0 THEN plan ELSE AddLevel(built[i - 1], path, i, leaf, ancestor)
  IN built[Len(path)]

Parents(plan, path) ==
  IF Len(path) = 1 THEN plan
  ELSE LET parent == Front(path) IN
       IF plan = NoPlan \/ parent \in DOMAIN plan THEN plan
       ELSE AddDirectory(plan, parent, Directory("0755", "root"), Directory("0755", "root"))

AddFile(plan, path, entry) == Add(Parents(plan, path), path, entry)

(* An addition is a path, an entry, and for a directory what is made above *)
(* it when that is missing.                                                *)
Addition(path, entry) == [path |-> path, entry |-> entry, above |-> Directory("0755", "root")]

Apply(plan, addition) ==
  CASE plan = NoPlan -> NoPlan
    [] plan # NoPlan /\ addition.entry.kind = "directory" ->
         AddDirectory(plan, addition.path, addition.entry, addition.above)
    [] OTHER -> AddFile(plan, addition.path, addition.entry)

Planned(additions) ==
  LET plan[n \in 0..Len(additions)] ==
        IF n = 0 THEN <<>> ELSE Apply(plan[n - 1], additions[n])
  IN plan[Len(additions)]

-----------------------------------------------------------------------------
(* The runner bundle, as its builder lays it out.                          *)

Optdir == <<"opt", "agent-boot">>
Etcdir == <<"etc", "agent-boot">>
Rundir == <<"run", "agent-boot">>
BundleScripts == Optdir \o <<"scripts">>
BootstrapSecrets == Etcdir \o <<"bootstrap-secrets">>
RunSecrets == Rundir \o <<"secrets">>
ServicePath == <<"etc", "systemd", "system", "agent-boot-runner.service">>

(* What belongs to the account, root, or root and the account's group.     *)
BundleOwner(path) ==
  CASE path = Etcdir -> "group"
    [] path = BootstrapSecrets \/ IsPrefix(Rundir, path)
         \/ IsPrefix(<<"var", "lib", "agent-boot">>, path) -> "account"
    [] OTHER -> "root"

BundlePublic ==
  <<Optdir, Optdir \o <<"runtime">>, BundleScripts, BundleScripts \o <<"bin">>,
    BundleScripts \o <<"node_modules">>, BundleScripts \o <<"node_modules", "@agent-boot">>,
    Optdir \o <<"assets">>, Optdir \o <<"prompts">>,
    <<"etc", "systemd", "system">>, <<"usr", "local", "sbin">>>>

BundlePrivate ==
  <<BootstrapSecrets, <<"var", "lib", "agent-boot">>, Rundir, Rundir \o <<"prompts">>,
    RunSecrets>>

BundleFiles ==
  LET program(name) == BundleScripts \o <<"bin", name>> IN
  <<Optdir \o <<"runtime", "bin", "node">>, program("agent-boot-runner"),
    program("agent-boot-codex"), program("agent-boot-network"),
    program("agent-boot-prompt-jobs")>>

BundleLinks ==
  <<<<"usr", "local", "sbin", "agent-boot-network">>,
    <<"usr", "local", "sbin", "agent-boot-prompt-jobs">>>>

Bundle ==
  LET Each(paths, Entry(_)) ==
        [i \in DOMAIN paths |-> Addition(paths[i], Entry(paths[i]))]
  IN Each(BundlePublic, LAMBDA path : Directory("0755", BundleOwner(path)))
     \o <<Addition(Etcdir, Directory("0750", BundleOwner(Etcdir)))>>
     \o Each(BundlePrivate, LAMBDA path : Directory("0700", BundleOwner(path)))
     \o Each(BundleFiles, LAMBDA path : Plain("0755", BundleOwner(path)))
     \o Each(BundleLinks, LAMBDA path : Symlink)
     \o <<Addition(ServicePath, Plain("0644", "root"))>>

-----------------------------------------------------------------------------
(* The plan of an assembly.                                                *)

Home(manifest) == <<"home", manifest.bootstrap.account.username>>

AccountDirectory(path, mode) == Addition(path, Directory(mode, "account"))

HomeAdditions(home) ==
  <<AccountDirectory(home, "0750"), AccountDirectory(home \o <<"workspace">>, "0750"),
    AccountDirectory(home \o <<".local">>, "0750"),
    AccountDirectory(home \o <<".local", "bin">>, "0750"),
    AccountDirectory(home \o <<".local", "lib">>, "0750"),
    AccountDirectory(home \o <<".npm">>, "0700"),
    Addition(home \o <<".profile">>, Plain("0644", "account")),
    Addition(home \o <<".bashrc">>, Plain("0644", "account")),
    Addition(home \o <<".npmrc">>, Plain("0600", "account")),
    Addition(Etcdir \o <<"manifest.json">>, Plain("0644", "root")),
    Addition(Etcdir \o <<"plan.json">>, Plain("0644", "root"))>>

AssetMode(path) == IF IsPrefix(<<"assets", "scripts">>, path) THEN "0755" ELSE "0644"

Target(asset, home) ==
  IF asset.placement.scope = "system" THEN asset.placement.path
  ELSE home \o asset.placement.path

(* An asset lies with the assembly's files and, when it is placed, a       *)
(* second time at its target; under the home, with the account's own       *)
(* directories above it.                                                   *)
AssetAdditions(asset, installation, home) ==
  <<Addition(Optdir \o asset.path, Plain(AssetMode(asset.path), "root"))>>
  \o CASE ~Has(asset, "placement") \/ asset.id \in Range(installation) -> <<>>
       [] Has(asset, "placement") /\ asset.id \notin Range(installation)
            /\ asset.placement.scope = "system" ->
            <<Addition(Target(asset, home), Plain(AssetMode(asset.path), "root"))>>
       [] OTHER ->
            <<[path |-> Front(Target(asset, home)), entry |-> Directory("0750", "account"),
               above |-> Directory("0750", "account")],
              Addition(Target(asset, home), Plain("0600", "account"))>>

RequiredSecrets(plan) ==
  UNION {CASE step.kind = "install-user-secret" -> {step.secretId}
           [] step.kind = "prompt" ->
                {binding.source.secretId : binding \in
                   {b \in Range(step.variables) : b.source.kind = "secret"}}
           [] OTHER -> {} : step \in Range(plan.steps)}

SystemAdditions(manifest) ==
  LET RootFile(path) == Addition(path, Plain("0644", "root")) IN
  <<RootFile(<<"etc", "ssh", "sshd_config.d", "20-agent-boot.conf">>),
    Addition(<<"etc", "sudoers.d", "90-agent-boot-unattended">>, Plain("0440", "root")),
    RootFile(<<"etc", "fstab">>),
    RootFile(<<"var", "lib", "NetworkManager", "NetworkManager.state">>)>>
  \o (IF Has(manifest.bootstrap, "network") /\ Has(manifest.bootstrap.network, "wifi")
      THEN <<Addition(<<"etc", "NetworkManager", "system-connections",
                        "agent-boot-wifi.nmconnection">>, Plain("0600", "root"))>>
      ELSE <<>>)
  \o <<RootFile(<<"etc", "systemd", "journald.conf.d", "20-agent-boot.conf">>),
       Addition(<<"etc", "systemd", "system", "getty@tty1.service">>, Symlink),
       Addition(<<"etc", "systemd", "system", "getty.target.wants", "getty@tty2.service">>,
                Symlink),
       Addition(<<"etc", "systemd", "system", "multi-user.target.wants",
                  "agent-boot-runner.service">>, Symlink)>>
  \o (IF Has(manifest.bootstrap, "network")
      THEN <<RootFile(<<"etc", "hostname">>), RootFile(<<"etc", "hosts">>)>> ELSE <<>>)

Additions(assembly) ==
  LET manifest == assembly.manifest
      home == Home(manifest)
      secrets == SetToSeq(RequiredSecrets(assembly.plan))
  IN Bundle \o HomeAdditions(home)
     \o [i \in DOMAIN manifest.prompts |->
           Addition(Optdir \o manifest.prompts[i].path, Plain("0644", "root"))]
     \o FlattenSeq([i \in DOMAIN manifest.assets |->
           AssetAdditions(manifest.assets[i], manifest.bootstrap.runnerInstallation, home)])
     \o <<AccountDirectory(BootstrapSecrets, "0700")>>
     \o [i \in DOMAIN secrets |->
           Addition(BootstrapSecrets \o <<secrets[i]>>, Plain("0600", "account"))]
     \o SystemAdditions(manifest)

(* The adapter reads the assembly anew, compares its lock, takes the       *)
(* account's name and plans every file before it touches the image.        *)
RootPlan(assembly) ==
  IF /\ AcceptsDocuments(assembly.manifest, assembly.plan, assembly.lock)
     /\ assembly.lock = CuratedLock
     /\ assembly.manifest.bootstrap.account.username \in PortableUsername
     /\ \A i \in DOMAIN assembly.manifest.assets :
          assembly.manifest.assets[i].path \in DOMAIN assembly.files
     /\ \A i \in DOMAIN assembly.manifest.prompts :
          assembly.manifest.prompts[i].path \in DOMAIN assembly.files
  THEN Planned(Additions(assembly))
  ELSE NoPlan
=============================================================================
