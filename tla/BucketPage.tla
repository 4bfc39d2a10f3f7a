------------------------------ MODULE BucketPage ------------------------------
(***************************************************************************)
(* The page of one bucket in the web UI (BucketPage.tsx) and the calls it  *)
(* makes (api/objects.ts, api/client.ts): listing, loading more, uploads   *)
(* in batches and in parts, deletion.                                      *)
(*                                                                         *)
(*   - A request is served at one moment and its answer arrives at a later *)
(*     one, in any order; an answer may be an error, or get lost after the *)
(*     server did what was asked.                                          *)
(*   - A key is a folder and a name, and Rank orders the keys as a listing *)
(*     does; folders are one level deep, those of the root.  Sizes are     *)
(*     megabytes and a body is the set of its megabytes.                   *)
(*   - A function of the page runs with the prefix of the render in which  *)
(*     it was clicked.                                                     *)
(***************************************************************************)
EXTENDS Integers, FiniteSets, Sequences

CONSTANTS
    Prefixes, Root,  \* virtual folders and the one the page starts in
    Names,           \* the names of files
    SizeOf,          \* their sizes
    Rank,            \* ORDER BY key: each key's place
    Existing,        \* keys that are there when the page opens
    PageSize,        \* max_keys: rows in one answer
    PartSize,        \* PART_SIZE
    Threshold,       \* MULTIPART_THRESHOLD
    Batches,         \* calls of uploadFiles
    Deletions,       \* calls of handleDelete
    MaxLists,        \* bound: list requests in flight
    MaxClicks,       \* bound: what the user does
    MaxFiles,        \* bound: files the user uploads
    Namings,         \* how servers spell the fields of a listing
    None             \* no value

Keys == Prefixes \X Names
Lists == 1..MaxLists

ASSUME PageAssumption ==
    /\ Root \in Prefixes /\ IsFiniteSet(Prefixes)
    /\ Names \subseteq Nat \ {0} /\ IsFiniteSet(Names)
    /\ SizeOf \in [Names -> Nat \ {0}]
    /\ Rank \in [Keys -> Nat \ {0}]
    /\ \A j, k \in Keys : Rank[j] = Rank[k] => j = k
    /\ Existing \subseteq Keys
    /\ {PageSize, PartSize, Threshold} \subseteq Nat \ {0}
    /\ MaxLists \in Nat \ {0} /\ {MaxClicks, MaxFiles} \subseteq Nat
    /\ Namings \subseteq {"snake", "camel"}
    /\ Batches \cap Deletions = {}
    /\ None \notin Keys \cup Batches \cup Deletions

VARIABLES
    naming,     \* the server the page talks to
    store,      \* what it has under each key: the body, or None
    prefix, result, loading, tasks, deletingKey,  \* the page's state
    lists,      \* list requests in flight
    older,      \* history: those after which a load was sent
    batch,      \* calls of uploadFiles
    deletion,   \* calls of handleDelete
    clicks,     \* what the user has done so far
    stored,     \* history: keys this page has stored
    raced,      \* history: something that ShownIsStored excuses happened
    mixed       \* history: two batches were uploading at once

pageVars == <<naming, store, prefix, result, loading, tasks, deletingKey, lists,
              older, batch, deletion, clicks, stored, raced, mixed>>

Body(n) == 0..(SizeOf[n] - 1)

(* A continuation token is the key it follows; 0 stands for none.          *)
Tokens == {0} \cup {Rank[k] : k \in Keys}

(* An answer and, for the properties, the token that it was asked with.    *)
Answer == [p : Prefixes, from : Tokens, objects : SUBSET Keys,
           folders : SUBSET Prefixes, more : BOOLEAN, token : Tokens]

List == [p : Prefixes, kind : {"load", "more"}, token : Tokens,
         owner : Batches \cup Deletions \cup {None},
         pc : {"sent", "ok", "error"}, answer : Answer \cup {None}]

ASSUME PageSentinelAssumption == None \notin Answer \cup List

(* A file of a batch: served tells what became of its last request. *)
FileStates == {"put", "parts", "complete", "stored", "refused", "lost", "over"}

PageTypeOK ==
    /\ naming \in Namings
    /\ DOMAIN store = Keys
    /\ prefix \in Prefixes
    /\ result \in Answer \cup {None}
    /\ loading \in BOOLEAN
    /\ \A i \in DOMAIN tasks :
        tasks[i] \in [key : Keys, state : {"busy", "done", "error"}]
    /\ deletingKey \in Keys \cup {None}
    /\ lists \in [Lists -> List \cup {None}]
    /\ older \subseteq Lists
    /\ \A b \in Batches :
        /\ batch[b].pc \in {"new", "up", "load", "over"}
        /\ \A i \in DOMAIN batch[b].files :
            batch[b].files[i] \in [name : Names, pc : FileStates, acked : Nat]
    /\ deletion \in [Deletions ->
            [pc : {"new", "sent", "deleted", "refused", "lost", "load", "over"},
             p : Prefixes, key : Keys \cup {None}]]
    /\ clicks \in 0..MaxClicks
    /\ stored \subseteq Keys
    /\ {raced, mixed} \subseteq BOOLEAN

-----------------------------------------------------------------------------
(* Listing.  The page reads common_prefixes, is_truncated and              *)
(* next_continuation_token, as api/objects.ts declares them; a server that *)
(* spells them in camel case, which both servers do, shows no folders and  *)
(* never offers more.                                                      *)

Held == {k \in Keys : store[k] # None}

(* The keys that begin with p; all begin with the root's empty prefix.     *)
Under(p) == {k \in Held : p = Root \/ k[1] = p}

(* What GET /{bucket}/list answers, with the delimiter "/": the limit is   *)
(* on the rows, and the folders are those of the rows that it leaves.      *)
Listing(p, token) ==
    LET rest == {k \in Under(p) : Rank[k] > token}
        page == {k \in rest :
                    Cardinality({j \in rest : Rank[j] <= Rank[k]}) <= PageSize}
        last == {k \in page : \A j \in page : Rank[j] <= Rank[k]} IN
    [p |-> p, from |-> token,
     objects |-> {k \in page : k[1] = p},
     folders |-> {k[1] : k \in page} \ {p},
     more |-> page # rest,
     token |-> IF last = {} THEN 0 ELSE Rank[CHOOSE k \in last : TRUE]]

Shown == IF result = None THEN {} ELSE result.objects
ShownFolders ==
    IF result # None /\ naming = "snake" THEN result.folders ELSE {}
OffersMore == result # None /\ naming = "snake" /\ result.more

InFlight == {s \in Lists : lists[s] # None}

(* fetch: one more list request, in the first slot that is free. *)
Send(l) ==
    LET free == Lists \ InFlight IN
    /\ free # {}
    /\ lists' = [lists EXCEPT ![CHOOSE s \in free : \A t \in free : s <= t] = l]

(* load(p), for a batch, a deletion or nobody. *)
Load(p, owner) ==
    /\ Send([p |-> p, kind |-> "load", token |-> 0, owner |-> owner,
             pc |-> "sent", answer |-> None])
    /\ older' = InFlight
    /\ loading' = TRUE
    /\ raced' = (p # prefix')

Click == clicks < MaxClicks /\ clicks' = clicks + 1

Refresh ==
    /\ Click
    /\ UNCHANGED prefix
    /\ Load(prefix, None)
    /\ UNCHANGED <<naming, store, result, tasks, deletingKey, batch, deletion,
                   stored, mixed>>

(* A folder's row or the breadcrumb; the effect on [prefix] loads. *)
Navigate(p) ==
    /\ p # prefix
    /\ p = Root \/ (p \in ShownFolders /\ ~loading)
    /\ Click
    /\ prefix' = p
    /\ Load(p, None)
    /\ UNCHANGED <<naming, store, result, tasks, deletingKey, batch, deletion,
                   stored, mixed>>

LoadMore ==
    /\ OffersMore /\ ~loading
    /\ Click
    /\ Send([p |-> prefix, kind |-> "more", token |-> result.token,
             owner |-> None, pc |-> "sent", answer |-> None])
    /\ raced' = (raced \/ InFlight # {})
    /\ UNCHANGED <<naming, store, prefix, result, loading, tasks, deletingKey,
                   older, batch, deletion, stored, mixed>>

ServeList(s) ==
    /\ lists[s] # None
    /\ lists[s].pc = "sent"
    /\ \/ lists' = [lists EXCEPT ![s].pc = "error"]
       \/ lists' = [lists EXCEPT ![s].pc = "ok",
                        ![s].answer = Listing(lists[s].p, lists[s].token)]
    /\ UNCHANGED <<naming, store, prefix, result, loading, tasks, deletingKey,
                   older, batch, deletion, clicks, stored, raced, mixed>>

(* Mutant: loading is only reset by an answer. *)
SpinsAfter(l) == l.pc = "error"

(* finally: setLoading(false) *)
Spins(l) == FALSE

(* An answer that comes after that of a load sent later.                   *)
Late(s) == lists[s].pc = "ok" /\ InFlight \subseteq older

(* The answer of a load replaces the result, and whoever awaited it goes   *)
(* on; an error leaves the result.                                         *)
LoadArrives(s) ==
    LET l == lists[s] IN
    /\ l # None /\ l.kind = "load" /\ l.pc # "sent"
    /\ lists' = [lists EXCEPT ![s] = None]
    /\ older' = older \ {s}
    /\ result' = IF l.pc = "error" THEN result ELSE l.answer
    /\ raced' = (raced \/ Late(s) \/ (l.pc = "error" /\ s \notin older))
    /\ loading' = (loading /\ Spins(l))
    /\ batch' = IF l.owner \in Batches
                THEN [batch EXCEPT ![l.owner].pc = "over"] ELSE batch
    /\ deletion' = IF l.owner \in Deletions
                   THEN [deletion EXCEPT ![l.owner].pc = "over"] ELSE deletion
    /\ deletingKey' = IF l.owner \in Deletions THEN None ELSE deletingKey
    /\ UNCHANGED <<naming, store, prefix, tasks, clicks, stored, mixed>>

(* Mutant: the objects shown before are dropped too. *)
JoinedNew(answer) == answer

(* setResult of Load more: the objects join those shown, while the folders *)
(* of the pages before are dropped.                                        *)
Joined(answer) == [answer EXCEPT !.objects = @ \cup Shown]

(* The answer of Load more. *)
MoreArrives(s) ==
    LET l == lists[s] IN
    /\ l # None /\ l.kind = "more" /\ l.pc # "sent"
    /\ lists' = [lists EXCEPT ![s] = None]
    /\ older' = older \ {s}
    /\ result' = IF l.pc = "error" THEN result ELSE Joined(l.answer)
    /\ raced' = (raced \/ Late(s))
    /\ UNCHANGED <<naming, store, prefix, loading, tasks, deletingKey, batch,
                   deletion, clicks, stored, mixed>>

-----------------------------------------------------------------------------
(* Uploads *)

(* Mutant: the rest of the file is left out. *)
TotalPartsFloor(n) == SizeOf[n] \div PartSize

TotalParts(n) == (SizeOf[n] + PartSize - 1) \div PartSize

(* file.slice(start, end) of part i, counted from 0. *)
Slice(n, i) == {m \in Body(n) : i * PartSize <= m /\ m < (i + 1) * PartSize}

NewFile(n) == [name |-> n, acked |-> 0,
               pc |-> IF SizeOf[n] < Threshold THEN "put" ELSE "parts"]

Uploading == {b \in Batches : batch[b].pc = "up"}

Key(b, i) == <<batch[b].p, batch[b].files[i].name>>

FilesSoFar ==
    {x \in Batches \X (1..MaxFiles) : x[2] \in DOMAIN batch[x[1]].files}

(* uploadFiles, from the file input or a drop. *)
UploadFiles(b, files) ==
    /\ batch[b].pc = "new"
    /\ files # <<>>
    /\ Cardinality(FilesSoFar) + Len(files) <= MaxFiles
    /\ Click
    /\ batch' = [batch EXCEPT ![b] =
                    [pc |-> "up", p |-> prefix, timer |-> FALSE,
                     files |-> [i \in DOMAIN files |-> NewFile(files[i])]]]
    /\ tasks' = [i \in DOMAIN files |->
                    [key |-> <<prefix, files[i]>>, state |-> "busy"]]
    /\ mixed' = (Uploading # {})
    /\ UNCHANGED <<naming, store, prefix, result, loading, deletingKey, lists,
                   older, deletion, stored, raced>>

FileTo(b, i, pc) == batch' = [batch EXCEPT ![b].files[i].pc = pc]

(* uploadMultipart: the upload is initiated and its parts sent one after   *)
(* the other; when all are acknowledged it is completed with 1..n.         *)
PartAcked(b, i) ==
    LET f == batch[b].files[i] IN
    /\ f.pc = "parts"
    /\ batch' = [batch EXCEPT ![b].files[i] =
                    [f EXCEPT !.acked = @ + 1,
                              !.pc = IF f.acked + 1 < TotalParts(f.name)
                                     THEN "parts" ELSE "complete"]]
    /\ UNCHANGED <<naming, store, prefix, result, loading, tasks, deletingKey,
                   lists, older, deletion, clicks, stored, raced, mixed>>

(* Initiation or a part fails: the upload is left as it is. *)
PartFails(b, i) ==
    /\ batch[b].files[i].pc = "parts"
    /\ FileTo(b, i, "refused")
    /\ UNCHANGED <<naming, store, prefix, result, loading, tasks, deletingKey,
                   lists, older, deletion, clicks, stored, raced, mixed>>

Sent(f) == IF f.pc = "put" THEN Body(f.name)
           ELSE UNION {Slice(f.name, i) : i \in 0..(f.acked - 1)}

(* The server answers the PUT or the completion. *)
ServeFile(b, i) ==
    LET f == batch[b].files[i] IN
    /\ f.pc \in {"put", "complete"}
    /\ \E pc \in {"stored", "refused", "lost"} :
        /\ FileTo(b, i, pc)
        /\ IF pc = "refused" THEN UNCHANGED <<store, stored>>
           ELSE /\ store' = [store EXCEPT ![Key(b, i)] = Sent(f)]
                /\ stored' = stored \cup {Key(b, i)}
    /\ UNCHANGED <<naming, prefix, result, loading, tasks, deletingKey, lists,
                   older, deletion, clicks, raced, mixed>>

(* Mutant: any status resolves the promise. *)
ResolvesAny(pc) == pc \in {"stored", "refused"}

(* xhr.onload with a status of 2xx; all else rejects. *)
Resolves(pc) == pc = "stored"

(* setUploadTasks(prev.map(...)) by the index in the batch, whatever tasks *)
(* are shown by now.                                                       *)
Marked(i, state) ==
    [j \in DOMAIN tasks |->
        IF j = i THEN [tasks[j] EXCEPT !.state = state] ELSE tasks[j]]

FileArrives(b, i) ==
    LET pc == batch[b].files[i].pc IN
    /\ pc \in {"stored", "refused", "lost"}
    /\ FileTo(b, i, "over")
    /\ tasks' = Marked(i, IF Resolves(pc) THEN "done" ELSE "error")
    /\ UNCHANGED <<naming, store, prefix, result, loading, deletingKey, lists,
                   older, deletion, clicks, stored, raced, mixed>>

(* Mutant: Promise.race *)
SettledAny(files) == \E i \in DOMAIN files : files[i].pc = "over"

(* Promise.all over promises that catch their errors *)
Settled(files) == \A i \in DOMAIN files : files[i].pc = "over"

UploadsSettled(b) ==
    /\ batch[b].pc = "up"
    /\ Settled(batch[b].files)
    /\ batch' = [batch EXCEPT ![b].pc = "load", ![b].timer = TRUE]
    /\ UNCHANGED prefix
    /\ Load(batch[b].p, b)
    /\ UNCHANGED <<naming, store, result, tasks, deletingKey, deletion,
                   clicks, stored, mixed>>

(* setTimeout(() => setUploadTasks([]), 2000) *)
Timer(b) ==
    /\ batch[b].timer
    /\ batch' = [batch EXCEPT ![b].timer = FALSE]
    /\ tasks' = <<>>
    /\ UNCHANGED <<naming, store, prefix, result, loading, deletingKey, lists,
                   older, deletion, clicks, stored, raced, mixed>>

-----------------------------------------------------------------------------
(* Deletion *)

HandleDelete(d, key) ==
    /\ deletion[d].pc = "new"
    /\ key \in Shown /\ ~loading /\ key # deletingKey
    /\ Click
    /\ deletion' = [deletion EXCEPT ![d] =
                        [pc |-> "sent", p |-> prefix, key |-> key]]
    /\ deletingKey' = key
    /\ UNCHANGED <<naming, store, prefix, result, loading, tasks, lists,
                   older, batch, stored, raced, mixed>>

ServeDelete(d) ==
    /\ deletion[d].pc = "sent"
    /\ \E pc \in {"deleted", "refused", "lost"} :
        /\ deletion' = [deletion EXCEPT ![d].pc = pc]
        /\ store' = IF pc = "refused" THEN store
                    ELSE [store EXCEPT ![deletion[d].key] = None]
    /\ UNCHANGED <<naming, prefix, result, loading, tasks, deletingKey, lists,
                   older, batch, clicks, stored, raced, mixed>>

DeleteArrives(d) ==
    /\ deletion[d].pc = "deleted"
    /\ deletion' = [deletion EXCEPT ![d].pc = "load"]
    /\ UNCHANGED prefix
    /\ Load(deletion[d].p, d)
    /\ UNCHANGED <<naming, store, result, tasks, deletingKey, batch, clicks,
                   stored, mixed>>

DeleteFails(d) ==
    /\ deletion[d].pc \in {"refused", "lost"}
    /\ deletion' = [deletion EXCEPT ![d].pc = "over"]
    /\ deletingKey' = None
    /\ raced' = (raced \/ deletion[d].pc = "lost")
    /\ UNCHANGED <<naming, store, prefix, result, loading, tasks, lists,
                   older, batch, clicks, stored, mixed>>

-----------------------------------------------------------------------------
(* The page is mounted and its effect loads the root. *)
PageInit ==
    /\ naming \in Namings
    /\ store = [k \in Keys |-> IF k \in Existing THEN Body(k[2]) ELSE None]
    /\ prefix = Root /\ result = None /\ loading = TRUE
    /\ tasks = <<>> /\ deletingKey = None
    /\ lists = [s \in Lists |->
                    IF s # 1 THEN None
                    ELSE [p |-> Root, kind |-> "load", token |-> 0,
                          owner |-> None, pc |-> "sent", answer |-> None]]
    /\ older = {}
    /\ batch = [b \in Batches |->
                    [pc |-> "new", p |-> Root, timer |-> FALSE, files |-> <<>>]]
    /\ deletion = [d \in Deletions |-> [pc |-> "new", p |-> Root, key |-> None]]
    /\ clicks = 0 /\ stored = {} /\ raced = FALSE /\ mixed = FALSE

(* Files are taken in the order of their names. *)
Selections == {f \in UNION {[1..n -> Names] : n \in 1..Cardinality(Names)} :
                    \A i, j \in DOMAIN f : i < j => f[i] < f[j]}

FileStep(b) ==
    \E i \in DOMAIN batch[b].files :
        \/ PartAcked(b, i) \/ PartFails(b, i) \/ ServeFile(b, i)
        \/ FileArrives(b, i)

ListStep(s) == ServeList(s) \/ LoadArrives(s) \/ MoreArrives(s)

BatchStep(b) == FileStep(b) \/ UploadsSettled(b) \/ Timer(b)

DeletionStep(d) == ServeDelete(d) \/ DeleteArrives(d) \/ DeleteFails(d)

User ==
    \/ Refresh \/ LoadMore \/ \E p \in Prefixes : Navigate(p)
    \/ \E b \in Batches, files \in Selections : UploadFiles(b, files)
    \/ \E d \in Deletions, key \in Keys : HandleDelete(d, key)

PageGoesOn ==
    \/ \E s \in Lists : ListStep(s)
    \/ \E b \in Batches : BatchStep(b)
    \/ \E d \in Deletions : DeletionStep(d)

PageNext == User \/ PageGoesOn

-----------------------------------------------------------------------------
(* Properties *)

Quiet ==
    /\ InFlight = {}
    /\ \A b \in Batches : batch[b].pc \in {"new", "over"}
    /\ \A d \in Deletions : deletion[d].pc \in {"new", "over"}

(* The rows of the folder up to the last page that was loaded.             *)
UpTo(a) == {k \in Under(a.p) : a.more => Rank[k] <= a.token}

(* Once nothing is in flight the page shows the files of its folder as the *)
(* server has them, up to the last page loaded, and of the folders those   *)
(* of that page, after any uploads, deletions and pages (load, uploadFiles, *)
(* handleDelete, Load more).  Excused, until the next load, are a load     *)
(* that failed or was for a folder left meanwhile, an answer that came     *)
(* after that of a load sent later, a Load more that overlapped another    *)
(* request, and a deletion whose answer got lost.                          *)
ShownIsStored ==
    (Quiet /\ ~raced) =>
        /\ result.p = prefix
        /\ Shown = {k \in UpTo(result) : k[1] = prefix}
        /\ naming = "snake" =>
            ShownFolders = {k[1] : k \in {j \in UpTo(result) :
                                            Rank[j] > result.from}} \ {prefix}

(* Whatever its size, and with part failures and retries by the user, what *)
(* the page stores is the whole file (uploadObject, uploadMultipart).      *)
StoredIsWholeFile == \A k \in Held : store[k] = Body(k[2])

(* A file that is ticked off in the panel has been stored, unless two      *)
(* batches were uploading at once (uploadFiles).                           *)
TicksAreStored ==
    ~mixed => \A i \in DOMAIN tasks :
                tasks[i].state = "done" => tasks[i].key \in stored
=============================================================================
