--------------------------- MODULE MCBucketRegistry ---------------------------
(***************************************************************************)
(* Instances of BucketRegistry for TLC.                                    *)
(***************************************************************************)
EXTENDS BucketRegistry, TLC

Symmetry == Permutations(Requests) \cup Permutations(BucketIds)
            \cup Permutations(Users)
=============================================================================
