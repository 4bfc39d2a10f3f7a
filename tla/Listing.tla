------------------------------- MODULE Listing -------------------------------
(***************************************************************************)
(* Listing a bucket page by page (ObjectRepository.list) while other       *)
(* requests put and delete objects.                                        *)
(*                                                                         *)
(*   - A key is its position in the order of ORDER BY key among the keys   *)
(*     that match the query's prefix.                                      *)
(*   - Folder gives the common prefix a key is grouped under, None for a   *)
(*     key without the delimiter after the prefix.                         *)
(*   - The handlers that change objects are those of ObjectStore, reduced  *)
(*     to what a listing sees of them: which keys have versions and which  *)
(*     have a row with is_latest.  An overwriting put is one step on       *)
(*     SQLite and two on Postgres; both kinds are taken here.  Two current *)
(*     versions of one key, which LatestIsNewest of ObjectStore is about,  *)
(*     count as one here.                                                  *)
(***************************************************************************)
EXTENDS Integers, FiniteSets, Sequences

CONSTANTS
    NumKeys,     \* how many keys match the prefix
    Folder,      \* key -> common prefix, or None
    MaxKeys,     \* maxKeys of the query, after the cap at 1000
    None         \* no common prefix

Keys == 1..NumKeys

ASSUME ConstantsAssumption ==
    /\ NumKeys \in Nat
    /\ MaxKeys \in Nat \ {0}
    /\ DOMAIN Folder = Keys

VARIABLES
    stored,      \* keys that have a version
    latest,      \* keys that have a row with is_latest
    writing,     \* keys whose create() is between its two statements
    phase,       \* of the listing: "idle", "listing" or "done"
    token,       \* the continuation token; 0 for none
    pages,       \* the pages returned so far
    steady       \* history: keys current ever since the listing began

vars == <<stored, latest, writing, phase, token, pages, steady>>
objects == <<stored, latest, writing>>
listing == <<phase, token, pages>>

Folders == {Folder[k] : k \in Keys} \ {None}

Page == [objects : SUBSET Keys, commonPrefixes : SUBSET Folders]

TypeOK ==
    /\ latest \subseteq stored
    /\ stored \subseteq Keys
    /\ writing \subseteq Keys
    /\ phase \in {"idle", "listing", "done"}
    /\ token \in Keys \cup {0}
    /\ pages \in Seq(Page)
    /\ steady \subseteq latest

-----------------------------------------------------------------------------
(* Other requests *)

(* create() of SQLite: both statements without leaving the event loop. *)
Put(k) ==
    /\ stored' = stored \cup {k}
    /\ latest' = latest \cup {k}
    /\ UNCHANGED <<writing, listing, steady>>

(* create() of Postgres: the UPDATE that demotes the current version ...   *)
PutDemote(k) ==
    /\ k \notin writing
    /\ latest' = latest \ {k}
    /\ writing' = writing \cup {k}
    /\ steady' = steady \ {k}
    /\ UNCHANGED <<stored, listing>>

(* ... and the INSERT of the new one. *)
PutInsert(k) ==
    /\ k \in writing
    /\ stored' = stored \cup {k}
    /\ latest' = latest \cup {k}
    /\ writing' = writing \ {k}
    /\ UNCHANGED <<listing, steady>>

(* Mutant: the current version is spared. *)
DeleteOldVersions(k) ==
    /\ k \in stored
    /\ stored' = stored \ {k}
    /\ steady' = steady \ {k}
    /\ UNCHANGED <<latest, writing, listing>>

(* hardDelete of every version of a key. *)
Delete(k) ==
    /\ k \in stored
    /\ stored' = stored \ {k}
    /\ latest' = latest \ {k}
    /\ steady' = steady \ {k}
    /\ UNCHANGED <<writing, listing>>

-----------------------------------------------------------------------------
(* list() *)

(* Mutant: the page starts with the token. *)
RowsFrom(t) == {k \in latest : k >= t}

(* WHERE key > token AND is_latest = 1 *)
RowsAfter(t) == {k \in latest : k > t}

(* ORDER BY key ASC LIMIT n *)
First(rows, n) == {k \in rows : Cardinality({j \in rows : j < k}) < n}

(* Grouping of the page's rows by the delimiter. *)
Grouped(rows) ==
    [objects |-> {k \in rows : Folder[k] = None},
     commonPrefixes |-> {Folder[k] : k \in rows} \ {None}]

Last(rows) == CHOOSE k \in rows : \A j \in rows : j <= k

Begin ==
    /\ phase = "idle"
    /\ phase' = "listing"
    /\ token' = 0
    /\ pages' = <<>>
    /\ steady' = latest
    /\ UNCHANGED objects

(* Mutant: the token is the row read beyond the page. *)
ListPageSkipping ==
    LET rows == First(RowsAfter(token), MaxKeys + 1)
        page == First(rows, MaxKeys) IN
    /\ phase = "listing"
    /\ pages' = Append(pages, Grouped(page))
    /\ IF Cardinality(rows) > MaxKeys
       THEN token' = Last(rows) /\ UNCHANGED phase
       ELSE phase' = "done" /\ UNCHANGED token
    /\ UNCHANGED <<objects, steady>>

(* Mutant: the token is read before the page is known to have a last row.  *)
ListPageEmptyFails ==
    LET rows == First(RowsAfter(token), MaxKeys + 1)
        page == First(rows, MaxKeys) IN
    /\ phase = "listing"
    /\ page # {}
    /\ pages' = Append(pages, Grouped(page))
    /\ IF Cardinality(rows) > MaxKeys
       THEN token' = Last(page) /\ UNCHANGED phase
       ELSE phase' = "done" /\ UNCHANGED token
    /\ UNCHANGED <<objects, steady>>

(* One request: read one row more than the page holds, to know whether to  *)
(* hand out a token; the client sends the next request with that token.    *)
ListPage ==
    LET rows == First(RowsAfter(token), MaxKeys + 1)
        page == First(rows, MaxKeys) IN
    /\ phase = "listing"
    /\ pages' = Append(pages, Grouped(page))
    /\ IF Cardinality(rows) > MaxKeys                   \* isTruncated
       THEN token' = Last(page) /\ UNCHANGED phase
       ELSE phase' = "done" /\ UNCHANGED token
    /\ UNCHANGED <<objects, steady>>

-----------------------------------------------------------------------------
Init ==
    /\ stored = {}
    /\ latest = {}
    /\ writing = {}
    /\ phase = "idle"
    /\ token = 0
    /\ pages = <<>>
    /\ steady = {}

Next ==
    \/ \E k \in Keys : Put(k) \/ PutDemote(k) \/ PutInsert(k) \/ Delete(k)
    \/ Begin
    \/ ListPage

Spec == Init /\ [][Next]_vars

(* The client goes on with its listing, whatever the others do. *)
FairSpec == Spec /\ WF_vars(ListPage)

-----------------------------------------------------------------------------
(* Properties *)

(* No object is returned by two pages of one listing, whatever is put and  *)
(* deleted between the pages (ObjectRepository.list).                      *)
ListedOnce ==
    \A i, j \in DOMAIN pages :
        i # j => pages[i].objects \cap pages[j].objects = {}

Shown(k) ==
    \E i \in DOMAIN pages : \/ k \in pages[i].objects
                            \/ Folder[k] \in pages[i].commonPrefixes

(* A key that has a current version from the first page to the last one is *)
(* returned, itself or as a member of a common prefix, whatever happens to *)
(* other keys; on SQLite it may even be overwritten meanwhile              *)
(* (ObjectRepository.list, create).                                        *)
SteadyKeysListed == phase = "done" => \A k \in steady : Shown(k)

(* A listing ends, although keys are put while it goes on                  *)
(* (ObjectRepository.list).                                                *)
ListingEnds == phase = "listing" ~> phase = "done"
=============================================================================
