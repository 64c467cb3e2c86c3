-------------------------- MODULE DocumentScalars --------------------------
(***************************************************************************)
(* The scalars of the documents that pass from a definition to the image   *)
(* and to the runner.  An object is a function on the names of its fields  *)
(* and an array a sequence.  A path is the sequence of its segments.       *)
(***************************************************************************)
EXTENDS Integers, SequencesExt

CONSTANTS
  Malformed,        (* a scalar of the wrong type, length or form            *)
  Identifier,       (* the lowercase identifiers of at most 64 characters    *)
  LongIdentifier,   (* those too long to take the prefix "script-"           *)
  Username,         (* the names the schemas take for a Unix account         *)
  EnvironmentKey,   (* PUBLIC_ENVIRONMENT_KEYS                               *)
  RelativePath,     (* the normalized relative paths                         *)
  Location          (* the files a source may name, as absolute URLs         *)

ASSUME ScalarsAssumption ==
  /\ LongIdentifier \subseteq Identifier
  /\ Malformed \notin Identifier /\ Malformed \notin Username
  /\ Malformed \notin EnvironmentKey /\ Malformed \notin RelativePath
  /\ Malformed \notin Location

Has(object, field) == field \in DOMAIN object

(* A value of the other kind is no array, and neither is a scalar.         *)
Array(value) == value # Malformed /\ value \in Seq(Range(value))

(* The object with the fields of both; of a field of both, the first's.    *)
Joined(first, second) ==
  [field \in DOMAIN first \cup DOMAIN second |->
     IF Has(first, field) THEN first[field] ELSE second[field]]

Ids(objects) == [i \in DOMAIN objects |-> objects[i].id]

(* The same rule twice: the definition's validation and the protocol's     *)
(* runtime schemas each have their parseObject and required.               *)
Object(value, needed, optional) ==
  needed \subseteq DOMAIN value /\ DOMAIN value \subseteq needed \cup optional

Fields(value, needed, optional) ==
  needed \subseteq DOMAIN value /\ DOMAIN value \subseteq needed \cup optional
=============================================================================
