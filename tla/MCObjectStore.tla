---------------------------- MODULE MCObjectStore ----------------------------
(***************************************************************************)
(* Instances of ObjectStore for TLC: the operations and the symmetries the *)
(* configurations name.                                                    *)
(***************************************************************************)
EXTENDS ObjectStore, TLC

Symmetry == Permutations(Requests) \cup Permutations(Versions)
            \cup Permutations(BucketIds)
=============================================================================
