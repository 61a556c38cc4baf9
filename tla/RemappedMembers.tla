-------------------------- MODULE RemappedMembers --------------------------
(***************************************************************************)
(* remapSignatureMembers: what a signature that was read by the names of a  *)
(* jar lists of a member by those of another mapping. A member is a record  *)
(* with its name, its kind and its descriptor.                              *)
(***************************************************************************)
EXTENDS Sequences

(* Under its name; under the one of the jar when there is no other, or when the lookup
   failed, with a warning; under a guess when the candidates are ambiguous, or with a
   descriptor in which a class has kept its name of the jar, of which no warning speaks. *)
Remaps == {"kept", "unremapped", "guessed", "undescribed"}
Silently == {"guessed", "undescribed"}

SourceName(m) == "source of " \o m.name

Listed(m, remap) ==
    [name |-> CASE remap \in {"kept", "undescribed"} -> m.name
                [] remap = "unremapped" -> SourceName(m)
                [] remap = "guessed" -> "guess",
     kind |-> m.kind,
     descriptor |-> IF remap \in {"kept", "guessed"} THEN m.descriptor ELSE "unmapped"]

=============================================================================
