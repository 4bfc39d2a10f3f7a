------------------------------- MODULE Dashboard -------------------------------
(***************************************************************************)
(* The page of the web UI that lists the user's buckets, creates and       *)
(* deletes them (DashboardPage.tsx, api/buckets.ts).  The list is loaded   *)
(* once, when the page is mounted; after that the page edits it itself.    *)
(* A request is served at one moment and its answer arrives later; both    *)
(* may fail.                                                               *)
(***************************************************************************)
EXTENDS Integers, FiniteSets

CONSTANTS
    BucketIds,   \* ids of buckets
    Owned,       \* buckets that are there when the page opens
    Removals,    \* calls of handleDelete
    Unset        \* no value

ASSUME DashboardAssumption ==
    /\ IsFiniteSet(BucketIds)
    /\ Owned \subseteq BucketIds
    /\ Unset \notin BucketIds

VARIABLES
    owned,       \* the user's buckets, on the server
    drawn,       \* ids given out so far
    buckets,     \* the list shown: how often each bucket is in it
    fetching,    \* listBuckets, with its answer
    creating,    \* handleCreate
    removal,     \* handleDelete
    deletingId,  \* the bucket whose button is disabled
    stale        \* history: the list was loaded around a creation or not at
                 \* all, or an answer got lost

dashboardVars == <<owned, drawn, buckets, fetching, creating, removal,
                   deletingId, stale>>

DashboardTypeOK ==
    /\ owned \subseteq drawn /\ drawn \subseteq BucketIds
    /\ buckets \in [BucketIds -> 0..2]
    /\ fetching \in
        [pc : {"sent", "ok", "error", "over"}, got : SUBSET BucketIds]
    /\ creating \in [pc : {"idle", "sent", "created", "refused", "lost"},
                     id : BucketIds \cup {Unset}]
    /\ removal \in [Removals ->
            [pc : {"new", "sent", "deleted", "refused", "lost", "over"},
             id : BucketIds \cup {Unset}]]
    /\ deletingId \in BucketIds \cup {Unset}
    /\ stale \in BOOLEAN

(* setLoading(false) comes with the answer. *)
Fetching == fetching.pc # "over"

ServeFetch ==
    /\ fetching.pc = "sent"
    /\ \/ fetching' = [pc |-> "ok", got |-> owned]
       \/ fetching' = [pc |-> "error", got |-> {}]
    /\ UNCHANGED <<owned, drawn, buckets, creating, removal, deletingId, stale>>

(* The answer replaces the list, whatever has been added to it. *)
FetchArrives ==
    /\ fetching.pc \in {"ok", "error"}
    /\ IF fetching.pc = "error" THEN UNCHANGED buckets
       ELSE buckets' = [b \in BucketIds |-> IF b \in fetching.got THEN 1 ELSE 0]
    /\ stale' = (stale \/ fetching.pc = "error")
    /\ fetching' = [pc |-> "over", got |-> {}]
    /\ UNCHANGED <<owned, drawn, creating, removal, deletingId>>

(* The form's button is disabled while a creation is under way, but not    *)
(* while the list is loading.                                              *)
HandleCreate ==
    /\ creating.pc = "idle"
    /\ drawn # BucketIds
    /\ creating' = [creating EXCEPT !.pc = "sent"]
    /\ stale' = (stale \/ Fetching)
    /\ UNCHANGED <<owned, drawn, buckets, fetching, removal, deletingId>>

ServeCreate ==
    /\ creating.pc = "sent"
    /\ \/ /\ creating' = [creating EXCEPT !.pc = "refused"]
          /\ UNCHANGED <<owned, drawn>>
       \/ \E id \in BucketIds \ drawn, pc \in {"created", "lost"} :
            /\ creating' = [pc |-> pc, id |-> id]
            /\ owned' = owned \cup {id}
            /\ drawn' = drawn \cup {id}
    /\ UNCHANGED <<buckets, fetching, removal, deletingId, stale>>

CreateArrives ==
    /\ creating.pc \in {"created", "refused", "lost"}
    /\ buckets' = IF creating.pc = "created"
                  THEN [buckets EXCEPT ![creating.id] = @ + 1] ELSE buckets
    /\ stale' = (stale \/ creating.pc = "lost")
    /\ creating' = [pc |-> "idle", id |-> Unset]
    /\ UNCHANGED <<owned, drawn, fetching, removal, deletingId>>

(* The button of one bucket is disabled; the list hides while it loads.    *)
HandleRemove(r, id) ==
    /\ removal[r].pc = "new"
    /\ buckets[id] > 0 /\ ~Fetching /\ id # deletingId
    /\ removal' = [removal EXCEPT ![r] = [pc |-> "sent", id |-> id]]
    /\ deletingId' = id
    /\ UNCHANGED <<owned, drawn, buckets, fetching, creating, stale>>

(* Deletion with force; a bucket that has gone is not found. *)
ServeRemove(r) ==
    LET id == removal[r].id IN
    /\ removal[r].pc = "sent"
    /\ \/ /\ removal' = [removal EXCEPT ![r].pc = "refused"]
          /\ UNCHANGED owned
       \/ \E pc \in {"deleted", "lost"} :
            /\ id \in owned
            /\ removal' = [removal EXCEPT ![r].pc = pc]
            /\ owned' = owned \ {id}
    /\ UNCHANGED <<drawn, buckets, fetching, creating, deletingId, stale>>

(* Mutant: the list is filtered whatever the answer. *)
FilteredAlways(r) == [buckets EXCEPT ![removal[r].id] = 0]

(* setBuckets((prev) => prev.filter((b) => b.id !== bucket.id)) *)
Filtered(r) == IF removal[r].pc = "deleted"
               THEN [buckets EXCEPT ![removal[r].id] = 0] ELSE buckets

(* finally: setDeletingId(null), though another bucket may be the one      *)
(* being deleted by now.                                                   *)
RemoveArrives(r) ==
    /\ removal[r].pc \in {"deleted", "refused", "lost"}
    /\ buckets' = Filtered(r)
    /\ stale' = (stale \/ removal[r].pc = "lost")
    /\ removal' = [removal EXCEPT ![r].pc = "over"]
    /\ deletingId' = Unset
    /\ UNCHANGED <<owned, drawn, fetching, creating>>

DashboardInit ==
    /\ owned = Owned /\ drawn = Owned
    /\ buckets = [b \in BucketIds |-> 0]
    /\ fetching = [pc |-> "sent", got |-> {}]
    /\ creating = [pc |-> "idle", id |-> Unset]
    /\ removal = [r \in Removals |-> [pc |-> "new", id |-> Unset]]
    /\ deletingId = Unset
    /\ stale = FALSE

FetchStep == ServeFetch \/ FetchArrives
CreateStep == ServeCreate \/ CreateArrives
RemovalStep(r) == ServeRemove(r) \/ RemoveArrives(r)

ListGoesOn == FetchStep \/ \E r \in Removals : RemovalStep(r)

DashboardNext ==
    \/ HandleCreate
    \/ \E r \in Removals, id \in BucketIds : HandleRemove(r, id)
    \/ CreateStep \/ ListGoesOn

-----------------------------------------------------------------------------
(* Properties *)

(* Once nothing is in flight the list is the user's buckets, each once,    *)
(* however creations and deletions, double ones and failing ones included, *)
(* overlapped; unless a creation overlapped the first load, that load      *)
(* failed or an answer got lost (load, handleCreate, handleDelete).        *)
ListIsOwned ==
    (/\ ~Fetching /\ creating.pc = "idle"
     /\ \A r \in Removals : removal[r].pc \in {"new", "over"}
     /\ ~stale)
        => buckets = [b \in BucketIds |-> IF b \in owned THEN 1 ELSE 0]
=============================================================================
