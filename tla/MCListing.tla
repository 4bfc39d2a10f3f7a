------------------------------ MODULE MCListing ------------------------------
(***************************************************************************)
(* Instances of Listing for TLC: NumKeys keys in order, those at 2, 3 and  *)
(* 5 in two folders.                                                       *)
(***************************************************************************)
EXTENDS Listing

MCFolder ==
    [k \in Keys |-> CASE k \in 2..3 -> "docs"
                        [] k = 5 -> "images"
                        [] OTHER -> None]
=============================================================================
