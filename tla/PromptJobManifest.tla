------------------------- MODULE PromptJobManifest --------------------------
(***************************************************************************)
(* The manifest of scheduled prompt jobs (schema.ts, manifest.ts of        *)
(* packages/scheduled-prompt-jobs): what loading it accepts.  An entry is  *)
(* a job and what is wrong with it; the file is read anew by every command *)
(* and twice by every run, and may have been edited in between.            *)
(***************************************************************************)
EXTENDS Naturals, FiniteSets

CONSTANTS
  Job, Group,
  GroupOf,   (* a job's overlap group *)
  MaxJobs    (* entries a manifest may have *)

ASSUME GroupAssumption == GroupOf \in [Job -> Group]

(* A field of the wrong form; an expression systemd rejects; a prompt that *)
(* is linked, outside the manifest's directory, of another owner, writable *)
(* by others, empty or too long; no working directory in the home.         *)
Defects == {"field", "calendar", "prompt", "directory"}
Entries == [job : Job, defect : Defects \cup {"none"}]

(* The entries by their position.                                          *)
Manifests(size) == UNION {[1 .. n -> Entries] : n \in 0 .. size}

(* parseScheduledPromptManifest                                            *)
Parses(m) ==
  /\ Cardinality(DOMAIN m) \in 1 .. MaxJobs
  /\ \A i \in DOMAIN m : m[i].defect # "field"
  /\ \A i, k \in DOMAIN m : m[i].job = m[k].job => i = k

(* loadScheduledPromptManifest, the manifest file itself being acceptable. *)
Loads(m) ==
  Parses(m) /\ \A i \in DOMAIN m : m[i].defect = "none"

Jobs(m) == {m[i].job : i \in DOMAIN m}
=============================================================================
