----------------------------- MODULE ObjectStore -----------------------------
(***************************************************************************)
(* The object store of loony-s3-js: the handlers of ObjectService,         *)
(* BucketService and CleanupService that move data between the metadata    *)
(* database and the blob storage, run concurrently, one await or one SQL   *)
(* statement per step, with crashes and failed file removals.              *)
(*                                                                         *)
(*   - A version stands for everything putObject names with one uuid: the  *)
(*     row's id, its version id and its storage key.                       *)
(*   - A bucket id is one incarnation of a bucket name.                    *)
(*   - Access checks, validation of names and sizes, content types and     *)
(*     metrics change no state and are left out: a refused request is one  *)
(*     that never starts.                                                  *)
(***************************************************************************)
EXTENDS Integers, FiniteSets

CONSTANTS
    Names,       \* bucket names
    BucketIds,   \* uuids of bucket rows (bounds how many buckets are created)
    Keys,        \* object keys
    Versions,    \* uuids of object versions (bounds how many puts are started)
    Requests,    \* concurrent HTTP requests
    Cleaners,    \* overlapping runs of the expired-object timer
    Ops,         \* the operations clients issue
    Expiries,    \* "never" and/or "pending": whether puts carry a TTL
    BatchSize,   \* config.cleanup.batchSize
    Backend,     \* "sqlite" or "postgres": DB_DRIVER
    Faults,      \* subset of {"crash", "io"}
    None,        \* no value
    Free         \* nobody holds the event loop

AllOps == {"put", "get", "getVersion", "delete", "deleteVersion",
           "createBucket", "deleteBucket", "forceDeleteBucket"}

(* A row of the objects table.  latest is is_latest, created is created_at *)
(* on a clock that ticks once per stamp, expiry tells a row without        *)
(* expires_at from one whose expires_at lies ahead or behind.              *)
Row == [bucket : BucketIds, key : Keys, latest : BOOLEAN, created : Nat,
        expiry : {"never", "pending", "past"}]

Procs == Requests \cup Cleaners

ASSUME ConstantsAssumption ==
    /\ Ops \subseteq AllOps
    /\ Expiries \subseteq {"never", "pending"}
    /\ BatchSize \in Nat \ {0}
    /\ Backend \in {"sqlite", "postgres"}
    /\ Faults \subseteq {"crash", "io"}
    /\ Requests \cap Cleaners = {}

ASSUME SentinelAssumption ==
    /\ None \notin Row \cup AllOps
    /\ None \notin BucketIds \cup Versions \cup Names \cup Keys
    /\ Free \notin Procs

VARIABLES
    bucket,      \* buckets table: name -> id of its row, or None
    row,         \* objects table: version -> its row, or None
    blobs,       \* blob storage: versions whose file exists
    proc,        \* the local state of every request and cleaner run
    loop,        \* who is between two statements of a synchronous method
    usedVersions, usedBuckets,  \* uuids already drawn
    clock,       \* number of created_at stamps taken so far
    newest       \* history: newest created_at inserted per bucket and key

vars == <<bucket, row, blobs, proc, loop, usedVersions, usedBuckets, clock,
          newest>>

PC == {"idle", "findBucket", "write", "demote", "insert", "findRow", "exists",
       "open", "select", "deleteRows", "unlink", "existsByName",
       "insertBucket", "count", "dropBucket", "batch"}

Proc == [pc : PC, op : AllOps \cup {None}, name : Names \cup {None},
         key : Keys \cup {None}, bucket : BucketIds \cup {None},
         ver : Versions \cup {None}, stamp : Nat, floor : Nat,
         sel : SUBSET Versions, todo : SUBSET (Versions \X BucketIds \X Keys)]

Idle == [pc |-> "idle", op |-> None, name |-> None, key |-> None,
         bucket |-> None, ver |-> None, stamp |-> 0, floor |-> 0,
         sel |-> {}, todo |-> {}]

TypeOK ==
    /\ bucket \in [Names -> BucketIds \cup {None}]
    /\ row \in [Versions -> Row \cup {None}]
    /\ blobs \subseteq Versions
    /\ proc \in [Procs -> Proc]
    /\ loop \in Procs \cup {Free}
    /\ usedVersions \subseteq Versions
    /\ usedBuckets \subseteq BucketIds
    /\ clock \in Nat
    /\ newest \in [BucketIds \X Keys -> Nat]

-----------------------------------------------------------------------------
(* Views of the tables *)

Stored == {v \in Versions : row[v] # None}

RowsOf(b, k) == {v \in Stored : row[v].bucket = b /\ row[v].key = k}

LatestOf(b, k) == {v \in RowsOf(b, k) : row[v].latest}

(* Mutant: the query only looks at current versions. *)
ExpiredLatestOnly ==
    {v \in Stored : row[v].expiry = "past" /\ row[v].latest}

Expired == {v \in Stored : row[v].expiry = "past"}

LiveBuckets == {b \in BucketIds : \E n \in Names : bucket[n] = b}

(* Mutant: the order is ascending and is_latest is not asked for. *)
FindOldest(b, k) ==
    {v \in RowsOf(b, k) :
        \A w \in RowsOf(b, k) : row[v].created <= row[w].created}

(* SELECT ... WHERE is_latest = 1 ORDER BY created_at DESC LIMIT 1 *)
FindLatest(b, k) ==
    {v \in LatestOf(b, k) :
        \A w \in LatestOf(b, k) : row[w].created <= row[v].created}

(* Mutant: version_id is missing from the WHERE clause. *)
MatchingAnyVersion(b, k, v) == RowsOf(b, k)

(* The WHERE clause of hardDelete: a version of the key, or all of them. *)
Matching(b, k, v) ==
    IF v = None THEN RowsOf(b, k) ELSE RowsOf(b, k) \cap {v}

-----------------------------------------------------------------------------
(* Control.  node:sqlite statements are synchronous, so a repository       *)
(* method keeps the event loop from its first statement to its last; with  *)
(* Postgres every query is awaited and anyone may run in between.  A crash *)
(* can fall between two statements of either.                              *)

MayRun(p) == loop \in {Free, p}

(* Mutant: the two statements are awaited one by one. *)
KeepLoopNever(p) == loop' = Free

KeepLoop(p) == loop' = IF Backend = "sqlite" THEN p ELSE Free

YieldLoop == loop' = Free

Goto(p, local) == proc' = [proc EXCEPT ![p] = local]

(* A request has been answered; a cleaner goes on with its batch. *)
Finish(p) ==
    Goto(p, IF p \in Requests THEN Idle
            ELSE [Idle EXCEPT !.pc = "batch", !.todo = proc[p].todo])

At(p, pc) == proc[p].pc = pc /\ MayRun(p)

-----------------------------------------------------------------------------
(* Requests arrive.  Uuids are drawn here, so that the bounds on them      *)
(* limit which requests arrive and never stop one that has.                *)

Start(op, n, k, v, b) ==
    [Idle EXCEPT !.pc = IF op = "createBucket" THEN "existsByName"
                                               ELSE "findBucket",
                 !.op = op, !.name = n, !.key = k, !.ver = v, !.bucket = b]

ArriveForKey(r) ==
    /\ At(r, "idle")
    /\ \E op \in Ops \cap {"get", "delete"}, n \in Names, k \in Keys :
        Goto(r, Start(op, n, k, None, None))
    /\ UNCHANGED <<bucket, row, blobs, loop, usedVersions, usedBuckets, clock,
                   newest>>

ArriveForVersion(r) ==
    /\ At(r, "idle")
    /\ \E op \in Ops \cap {"getVersion", "deleteVersion"},
          n \in Names, k \in Keys, v \in usedVersions :
        Goto(r, Start(op, n, k, v, None))
    /\ UNCHANGED <<bucket, row, blobs, loop, usedVersions, usedBuckets, clock,
                   newest>>

ArrivePut(r) ==
    /\ At(r, "idle")
    /\ \E op \in Ops \cap {"put"}, n \in Names, k \in Keys,
          v \in Versions \ usedVersions :
        /\ Goto(r, Start(op, n, k, v, None))
        /\ usedVersions' = usedVersions \cup {v}
    /\ UNCHANGED <<bucket, row, blobs, loop, usedBuckets, clock, newest>>

ArriveDeleteBucket(r) ==
    /\ At(r, "idle")
    /\ \E op \in Ops \cap {"deleteBucket", "forceDeleteBucket"}, n \in Names :
        Goto(r, Start(op, n, None, None, None))
    /\ UNCHANGED <<bucket, row, blobs, loop, usedVersions, usedBuckets, clock,
                   newest>>

ArriveCreateBucket(r) ==
    /\ At(r, "idle")
    /\ \E op \in Ops \cap {"createBucket"}, n \in Names,
          b \in BucketIds \ usedBuckets :
        /\ Goto(r, Start(op, n, None, None, b))
        /\ usedBuckets' = usedBuckets \cup {b}
    /\ UNCHANGED <<bucket, row, blobs, loop, usedVersions, clock, newest>>

(* Where each operation goes once it knows the bucket. *)
AfterFindBucket(op) ==
    CASE op = "put" -> "write"
      [] op \in {"get", "getVersion"} -> "findRow"
      [] op \in {"delete", "deleteVersion"} -> "select"
      [] OTHER -> "count"               \* deleteBucket, forced or not

(* bucketRepo.findByName, the first await of every operation but create.   *)
(* floor remembers the newest version inserted before a read began.        *)
FindBucket(r) ==
    /\ At(r, "findBucket")
    /\ LET b == bucket[proc[r].name]
           k == proc[r].key IN
        IF b = None
        THEN Finish(r)                                  \* BUCKET_NOT_FOUND
        ELSE Goto(r, [proc[r] EXCEPT
                        !.pc = AfterFindBucket(proc[r].op),
                        !.bucket = b,
                        !.floor = IF proc[r].op = "get"
                                  THEN newest[<<b, k>>] ELSE 0])
    /\ UNCHANGED <<bucket, row, blobs, loop, usedVersions, usedBuckets, clock,
                   newest>>

-----------------------------------------------------------------------------
(* putObject: write the blob, then create the row. *)

PutWrite(r) ==
    /\ At(r, "write")
    /\ blobs' = blobs \cup {proc[r].ver}
    /\ Goto(r, [proc[r] EXCEPT !.pc = "demote"])
    /\ UNCHANGED <<bucket, row, loop, usedVersions, usedBuckets, clock, newest>>

(* Mutant: the failed write is reported as a success. *)
PutWriteFailsUnnoticed(r) ==
    /\ "io" \in Faults
    /\ At(r, "write")
    /\ Goto(r, [proc[r] EXCEPT !.pc = "demote"])
    /\ UNCHANGED <<bucket, row, blobs, loop, usedVersions, usedBuckets, clock,
                   newest>>

(* The stream broke or had the wrong length: the temporary file is removed *)
(* and the destination never existed.                                      *)
PutWriteFails(r) ==
    /\ "io" \in Faults
    /\ At(r, "write")
    /\ Finish(r)
    /\ UNCHANGED <<bucket, row, blobs, loop, usedVersions, usedBuckets, clock,
                   newest>>

(* Mutant: the UPDATE is left out. *)
DemotedNothing(b, k) == row

(* UPDATE objects SET is_latest = 0 WHERE bucket_id = b AND key = k *)
Demoted(b, k) ==
    [v \in Versions |->
        IF v \in LatestOf(b, k) THEN [row[v] EXCEPT !.latest = FALSE]
                                ELSE row[v]]

(* create(), first statement.  created_at is stamped just before it. *)
PutDemote(r) ==
    /\ At(r, "demote")
    /\ row' = Demoted(proc[r].bucket, proc[r].key)
    /\ clock' = clock + 1
    /\ Goto(r, [proc[r] EXCEPT !.pc = "insert", !.stamp = clock + 1])
    /\ KeepLoop(r)
    /\ UNCHANGED <<bucket, blobs, usedVersions, usedBuckets, newest>>

(* Mutant: created_at is left out of the INSERT. *)
NewRowUnstamped(p, e) ==
    [bucket |-> p.bucket, key |-> p.key, latest |-> TRUE, created |-> None,
     expiry |-> e]

NewRow(p, e) ==
    [bucket |-> p.bucket, key |-> p.key, latest |-> TRUE, created |-> p.stamp,
     expiry |-> e]

(* create(), second statement: the foreign key on bucket_id rejects a row  *)
(* whose bucket has been deleted since findByName (the request answers     *)
(* 500), else the put is acknowledged.                                     *)
PutInsert(r) ==
    LET p == proc[r] IN
    /\ At(r, "insert")
    /\ IF p.bucket \in LiveBuckets
       THEN /\ \E e \in Expiries : row' = [row EXCEPT ![p.ver] = NewRow(p, e)]
            /\ newest' = [newest EXCEPT ![<<p.bucket, p.key>>] =
                            IF p.stamp > @ THEN p.stamp ELSE @]
       ELSE UNCHANGED <<row, newest>>
    /\ Finish(r)
    /\ YieldLoop
    /\ UNCHANGED <<bucket, blobs, usedVersions, usedBuckets, clock>>

-----------------------------------------------------------------------------
(* getObject and headObject: find the row, check its expiry, open its file *)

(* findLatest, or the requested version among findVersions. *)
Candidates(p) ==
    IF p.op = "get" THEN FindLatest(p.bucket, p.key)
                    ELSE RowsOf(p.bucket, p.key) \cap {p.ver}

GetFindRow(r) ==
    LET found == Candidates(proc[r]) IN
    /\ At(r, "findRow")
    /\ \/ /\ found \subseteq Expired          \* OBJECT_NOT_FOUND or _EXPIRED
          /\ Finish(r)
       \/ \E v \in found \ Expired :
            Goto(r, [proc[r] EXCEPT !.pc = "exists", !.ver = v,
                                    !.stamp = row[v].created])
    /\ UNCHANGED <<bucket, row, blobs, loop, usedVersions, usedBuckets, clock,
                   newest>>

(* read(): existsSync, then a stream whose open happens later. *)
GetExists(r) ==
    /\ At(r, "exists")
    /\ IF proc[r].ver \in blobs THEN Goto(r, [proc[r] EXCEPT !.pc = "open"])
                                ELSE Finish(r)
    /\ UNCHANGED <<bucket, row, blobs, loop, usedVersions, usedBuckets, clock,
                   newest>>

(* The file is opened, or the stream fails because it has gone. *)
GetOpen(r) ==
    /\ At(r, "open")
    /\ Finish(r)
    /\ UNCHANGED <<bucket, row, blobs, loop, usedVersions, usedBuckets, clock,
                   newest>>

-----------------------------------------------------------------------------
(* hardDelete and the removal of the blobs it names, for deleteObject and  *)
(* for the cleaner.                                                        *)

(* SELECT the storage keys ... *)
SelectRows(p) ==
    /\ At(p, "select")
    /\ Goto(p, [proc[p] EXCEPT
                  !.pc = "deleteRows",
                  !.sel = Matching(proc[p].bucket, proc[p].key, proc[p].ver)])
    /\ KeepLoop(p)
    /\ UNCHANGED <<bucket, row, blobs, usedVersions, usedBuckets, clock, newest>>

(* ... then DELETE the rows, whatever they are by now. *)
DeleteRows(p) ==
    /\ At(p, "deleteRows")
    /\ LET gone == Matching(proc[p].bucket, proc[p].key, proc[p].ver) IN
        row' = [v \in Versions |-> IF v \in gone THEN None ELSE row[v]]
    /\ IF proc[p].sel = {}
       THEN Finish(p)                                    \* OBJECT_NOT_FOUND
       ELSE Goto(p, [proc[p] EXCEPT !.pc = "unlink"])
    /\ YieldLoop
    /\ UNCHANGED <<bucket, blobs, usedVersions, usedBuckets, clock, newest>>

(* Mutant: only the first storage key is removed. *)
UnlinkFirst(p) ==
    /\ At(p, "unlink")
    /\ \E v \in proc[p].sel : blobs' = blobs \ {v}
    /\ Finish(p)
    /\ UNCHANGED <<bucket, row, loop, usedVersions, usedBuckets, clock, newest>>

(* storage.delete of every key; a removal that fails is only logged. *)
Unlink(p) ==
    /\ At(p, "unlink")
    /\ \E failed \in SUBSET proc[p].sel :
        /\ "io" \in Faults \/ failed = {}
        /\ blobs' = blobs \ (proc[p].sel \ failed)
    /\ Finish(p)
    /\ UNCHANGED <<bucket, row, loop, usedVersions, usedBuckets, clock, newest>>

-----------------------------------------------------------------------------
(* cleanExpiredObjects, started by a timer. *)

(* findExpired(now, batchSize).  expires_at orders the rows independently  *)
(* of everything else, so any batch of the right size can come first.      *)
CleanFind(c) ==
    /\ At(c, "idle")
    /\ \E batch \in SUBSET Expired :
        /\ batch # {}
        /\ \/ Cardinality(batch) = BatchSize
           \/ batch = Expired /\ Cardinality(batch) < BatchSize
        /\ Goto(c, [Idle EXCEPT
                      !.pc = "batch",
                      !.todo = {<<v, row[v].bucket, row[v].key>> : v \in batch}])
    /\ UNCHANGED <<bucket, row, blobs, loop, usedVersions, usedBuckets, clock,
                   newest>>

(* The next object of the batch: hardDelete(bucketId, key, versionId). *)
CleanNext(c) ==
    /\ At(c, "batch")
    /\ IF proc[c].todo = {}
       THEN Goto(c, Idle)
       ELSE \E t \in proc[c].todo :
              Goto(c, [proc[c] EXCEPT !.pc = "select", !.todo = @ \ {t},
                         !.ver = t[1], !.bucket = t[2], !.key = t[3]])
    /\ UNCHANGED <<bucket, row, blobs, loop, usedVersions, usedBuckets, clock,
                   newest>>

-----------------------------------------------------------------------------
(* createBucket: existsByName, then INSERT under UNIQUE(name). *)

CreateExists(r) ==
    /\ At(r, "existsByName")
    /\ IF bucket[proc[r].name] # None
       THEN Finish(r)                               \* BUCKET_ALREADY_EXISTS
       ELSE Goto(r, [proc[r] EXCEPT !.pc = "insertBucket"])
    /\ UNCHANGED <<bucket, row, blobs, loop, usedVersions, usedBuckets, clock,
                   newest>>

CreateInsert(r) ==
    /\ At(r, "insertBucket")
    /\ bucket' = IF bucket[proc[r].name] # None
                 THEN bucket                        \* UNIQUE violation: 500
                 ELSE [bucket EXCEPT ![proc[r].name] = proc[r].bucket]
    /\ Finish(r)
    /\ UNCHANGED <<row, blobs, loop, usedVersions, usedBuckets, clock, newest>>

-----------------------------------------------------------------------------
(* deleteBucket: count the objects, then DELETE the bucket row, which      *)
(* cascades to the rows of its objects.  No blob is touched.               *)

DropCount(r) ==
    LET p == proc[r] IN
    /\ At(r, "count")
    /\ IF p.op = "deleteBucket" /\ \E v \in Stored : row[v].bucket = p.bucket
       THEN Finish(r)                                    \* BUCKET_NOT_EMPTY
       ELSE Goto(r, [p EXCEPT !.pc = "dropBucket"])
    /\ UNCHANGED <<bucket, row, blobs, loop, usedVersions, usedBuckets, clock,
                   newest>>

(* Mutant: the foreign key does not cascade. *)
WithoutCascade(b) == row

(* ON DELETE CASCADE *)
WithoutBucket(b) ==
    [v \in Versions |->
        IF v \in Stored /\ row[v].bucket = b THEN None ELSE row[v]]

DropBucket(r) ==
    LET b == proc[r].bucket IN
    /\ At(r, "dropBucket")
    /\ bucket' = [n \in Names |-> IF bucket[n] = b THEN None ELSE bucket[n]]
    /\ row' = WithoutBucket(b)
    /\ Finish(r)
    /\ UNCHANGED <<blobs, loop, usedVersions, usedBuckets, clock, newest>>

-----------------------------------------------------------------------------
(* The environment *)

(* The expires_at of a row passes. *)
Expire(v) ==
    /\ v \in Stored
    /\ row[v].expiry = "pending"
    /\ row' = [row EXCEPT ![v].expiry = "past"]
    /\ UNCHANGED <<bucket, blobs, proc, loop, usedVersions, usedBuckets, clock,
                   newest>>

(* A server process dies (or its shutdown timer kills it) and is started    *)
(* again: database and files stay, its requests and cleaner runs are gone. *)
(* Only with Postgres can several processes share the database.            *)
Crash ==
    /\ "crash" \in Faults
    /\ \E dead \in IF Backend = "sqlite" THEN {Procs} ELSE SUBSET Procs :
        /\ \E p \in dead : proc[p].pc # "idle"
        /\ proc' = [p \in Procs |-> IF p \in dead THEN Idle ELSE proc[p]]
    /\ loop' = Free
    /\ UNCHANGED <<bucket, row, blobs, usedVersions, usedBuckets, clock, newest>>

-----------------------------------------------------------------------------
Init ==
    /\ bucket = [n \in Names |-> None]
    /\ row = [v \in Versions |-> None]
    /\ blobs = {}
    /\ proc = [p \in Procs |-> Idle]
    /\ loop = Free
    /\ usedVersions = {}
    /\ usedBuckets = {}
    /\ clock = 0
    /\ newest = [bk \in BucketIds \X Keys |-> 0]

Arrive(r) ==
    \/ ArriveForKey(r) \/ ArriveForVersion(r) \/ ArrivePut(r)
    \/ ArriveDeleteBucket(r) \/ ArriveCreateBucket(r)

(* The steps a request takes once it has arrived. *)
RequestStep(r) ==
    \/ FindBucket(r)
    \/ PutWrite(r) \/ PutWriteFails(r) \/ PutDemote(r) \/ PutInsert(r)
    \/ GetFindRow(r) \/ GetExists(r) \/ GetOpen(r)
    \/ SelectRows(r) \/ DeleteRows(r) \/ Unlink(r)
    \/ CreateExists(r) \/ CreateInsert(r)
    \/ DropCount(r) \/ DropBucket(r)

CleanerStep(c) ==
    \/ CleanFind(c) \/ CleanNext(c)
    \/ SelectRows(c) \/ DeleteRows(c) \/ Unlink(c)

Next ==
    \/ \E r \in Requests : Arrive(r) \/ RequestStep(r)
    \/ \E c \in Cleaners : CleanerStep(c)
    \/ \E v \in Versions : Expire(v)
    \/ Crash

Spec == Init /\ [][Next]_vars

(* Node's queues are first in, first out and the timers fire for ever, so  *)
(* no pending continuation is passed over for ever, although the loop may  *)
(* be busy at any given moment.                                            *)
Fairness ==
    /\ \A r \in Requests : SF_vars(RequestStep(r))
    /\ \A c \in Cleaners : SF_vars(CleanerStep(c))

FairSpec == Spec /\ Fairness

-----------------------------------------------------------------------------
(* Properties *)

(* The blob of every row in the objects table exists: rows are inserted    *)
(* after the write of the blob has been renamed into place and deleted     *)
(* before it is unlinked, whatever crashes, fails or overtakes             *)
(* (ObjectService.putObject, deleteObject, cleanExpiredObjects).           *)
RowHasBlob == Stored \subseteq blobs

(* No object row survives its bucket: a put or a delete that looked the    *)
(* bucket up before it was deleted, or deleted and created again, leaves   *)
(* no row behind (foreign key and ON DELETE CASCADE, db/database.ts).      *)
RowsInLiveBuckets == \A v \in Stored : row[v].bucket \in LiveBuckets

(* With SQLite a row flagged is_latest is the newest row ever inserted for *)
(* its bucket and key: concurrent puts never leave two current versions,   *)
(* and no delete makes an older version current again                      *)
(* (ObjectRepository.create).                                              *)
LatestIsNewest ==
    \A v \in Stored :
        row[v].latest => row[v].created = newest[<<row[v].bucket, row[v].key>>]

(* A GET or HEAD never answers with a version older than the newest one    *)
(* inserted for that key before the request looked its bucket up, even     *)
(* when versions are deleted or expire meanwhile (ObjectService.getObject).*)
NoStaleRead ==
    \A r \in Requests :
        (proc[r].op = "get" /\ proc[r].pc \in {"exists", "open"})
            => proc[r].stamp >= proc[r].floor

(* A cleaner run deletes no row that has not expired: neither a version    *)
(* put under the same key after findExpired, nor an older one              *)
(* (CleanupService.cleanExpiredObjects).                                   *)
CleanerSparesLive ==
    [][\A c \in Cleaners :
        (proc[c].pc = "deleteRows" /\ row' # row /\ proc'[c] # proc[c])
            => \A v \in Stored : row'[v] = None => v \in Expired]_vars

(* Every row that hardDelete's DELETE removes had its storage key returned *)
(* by the SELECT before it, so its blob will be unlinked                   *)
(* (IObjectRepository.hardDelete).                                         *)
DeletedRowsReported ==
    [][\A p \in Procs :
        (proc[p].pc = "deleteRows" /\ row' # row /\ proc'[p] # proc[p])
            => \A v \in Stored : row'[v] = None => v \in proc[p].sel]_vars

(* When no request is in flight every blob belongs to a row: no completed  *)
(* operation leaks storage (ObjectService, BucketService.deleteBucket).    *)
NoOrphanBlob ==
    (\A p \in Procs : proc[p].pc = "idle") => blobs \subseteq Stored

HeldVersions == [x \in BucketIds \X Keys |-> RowsOf(x[1], x[2])]

CurrentVersion ==
    [x \in BucketIds \X Keys |->
        IF LatestOf(x[1], x[2]) = {} THEN None
        ELSE CHOOSE v \in LatestOf(x[1], x[2]) : TRUE]

Index == INSTANCE VersionIndex WITH held <- HeldVersions,
                                    current <- CurrentVersion

(* With SQLite the objects table is a version index: an overwritten        *)
(* version never becomes current again, a put publishes into an object it  *)
(* has hidden and not over somebody else's version, and a deletion touches *)
(* one object or a whole bucket (ObjectRepository.create, hardDelete).     *)
ImplementsVersionIndex == Index!Spec

(* Every expired object is eventually removed, although each run takes     *)
(* only batchSize of them (CleanupService.cleanExpiredObjects).            *)
ExpiredEventuallyRemoved ==
    \A v \in Versions :
        (row[v] # None /\ row[v].expiry = "past") ~> row[v] = None
=============================================================================
