---------------------------- MODULE VersionIndex ----------------------------
(***************************************************************************)
(* What the objects table promises about the versions of an object,        *)
(* whatever requests and cleaner runs do to it at once: an object (a key   *)
(* of a bucket) has a set of versions, at most one of them current; only a *)
(* new version becomes current, so one that was overwritten never comes    *)
(* back; and versions of an object disappear by themselves or with their   *)
(* bucket.                                                                 *)
(***************************************************************************)
CONSTANTS BucketIds, Keys, Versions, None

VARIABLES
    held,        \* object -> its versions
    current      \* object -> the one that GET, HEAD and list see, or None

Objects == BucketIds \X Keys

Init ==
    /\ held = [x \in Objects |-> {}]
    /\ current = [x \in Objects |-> None]

(* A put hides the current version ...                                     *)
Hide(x) ==
    /\ current[x] # None
    /\ current' = [current EXCEPT ![x] = None]
    /\ UNCHANGED held

(* ... and publishes its own.  A put that dies in between leaves the       *)
(* object hidden.                                                          *)
Publish(x, v) ==
    /\ current[x] = None
    /\ \A y \in Objects : v \notin held[y]
    /\ current' = [current EXCEPT ![x] = v]
    /\ held' = [held EXCEPT ![x] = @ \cup {v}]

(* A request or the cleaner removes versions of one object. *)
Remove(x, gone) ==
    /\ held' = [held EXCEPT ![x] = @ \ gone]
    /\ current' = [current EXCEPT ![x] = IF @ \in gone THEN None ELSE @]

(* A bucket is deleted with everything in it. *)
DropBucket(b) ==
    /\ held' = [x \in Objects |-> IF x[1] = b THEN {} ELSE held[x]]
    /\ current' = [x \in Objects |-> IF x[1] = b THEN None ELSE current[x]]

Next ==
    \/ \E x \in Objects :
        \/ \E gone \in SUBSET held[x] : Remove(x, gone)
        \/ Hide(x)
        \/ \E v \in Versions : Publish(x, v)
    \/ \E b \in BucketIds : DropBucket(b)

Spec == Init /\ [][Next]_<<held, current>>
=============================================================================
