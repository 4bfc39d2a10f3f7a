----------------------------- MODULE MCRustStore -----------------------------
(***************************************************************************)
(* Instances of RustStore for TLC.                                         *)
(***************************************************************************)
EXTENDS RustStore, TLC

Symmetry == Permutations(Uploads) \cup Permutations(Requests)
            \cup Permutations(Versions) \cup Permutations(Bodies)
=============================================================================
