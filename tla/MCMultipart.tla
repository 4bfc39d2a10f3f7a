----------------------------- MODULE MCMultipart -----------------------------
(***************************************************************************)
(* Instances of Multipart for TLC.                                         *)
(***************************************************************************)
EXTENDS Multipart, TLC

(* Small bodies are told from the others, but not from each other. *)
Symmetry == Permutations(Uploads) \cup Permutations(Requests)
            \cup Permutations(Versions)
            \cup Permutations(Contents \ Small) \cup Permutations(Small)
=============================================================================
