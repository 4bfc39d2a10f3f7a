# Verification of loony-s3

TLA+ models of the loony-s3 object store, the TLC configurations that check
them and TLAPS proofs about them. Paths below are relative to the repository;
`JS` is `loony-s3-js/src`, `RS` is `loony-s3-rs/src`, `UI` is `loony-s3-ui/src`.

Run a configuration with `tlc -config os_sqlite.cfg MCObjectStore.tla`, check
the proofs with `tlapm ObjectStoreProofs.tla` (also `ObjectStoreLatestProofs`,
`MultipartProofs`, `ListingProofs`, `BucketRegistryProofs`, `ServerProofs`,
`RustStoreProofs`, `WebUIProofs`).

## 1. The system

loony-s3 stores objects in buckets behind an HTTP API. Metadata (buckets,
objects, multipart uploads) is in SQLite (`node:sqlite`, synchronous) or
Postgres (`pg`, asynchronous); the bytes are files on a local disk or on NFS.
The JS server is the reference, the Rust server a port of it, the UI a client.

| Component | State | Operations | Interacts with | Hard behaviour | What makes it correct |
|---|---|---|---|---|---|
| Object service and repository (`JS/services/ObjectService.ts`, `JS/repositories/*/ObjectRepository.ts`) | rows of `objects` (version, `is_latest`, `created_at`, `expires_at`), one file per version | put, get, head, delete of a key or a version | storage (write before insert, unlink after delete), bucket rows by foreign key | awaits between lookup, file and row; two statements per method; crash in between | rows have files; one current version, the newest; no stale reads; no leaked files |
| Bucket service and repository (`JS/services/BucketService.ts`) | rows of `buckets`: unique names, owners, settings | create, update, delete (plain, forced), get, list | cascades into `objects` and `multipart_uploads` | check-then-act on existence, owner and emptiness; read-modify-write of the settings; name reused while requests hold the old id | rows only in live buckets; only owners change a bucket; no lost setting; plain deletion loses no object; answers that fit |
| Cleanup service (`JS/services/CleanupService.ts`) | none; two timers | remove expired objects in batches, remove stale uploads | the same tables and files as requests | works from a list read earlier; runs overlap; removals fail | spares what is live; everything expired goes eventually |
| Multipart service (`JS/services/MultipartUploadService.ts`) | rows of `multipart_uploads` with a JSON parts column, part files | initiate, upload part, complete, abort | object repository, `assembleMultipart`, `deleteParts` | parts sent again during complete; two completes; abort or cleaner under a writer | objects are whole; acknowledged parts are recorded; recorded parts have files |
| Listing (`JS/repositories/*/ObjectRepository.ts` `list`) | none; the client holds the token | list a page | `objects` rows changed by others | changes between pages | no key twice, no steady key missed, it ends |
| Storage backends (`JS/storage`) | directories, files, temporary files, open streams | write, read, delete, assemble, delete parts | all services; the streams of requests and responses | rename into place, temporary names by millisecond, pruning under a writer, streams that break off before and after their file is open, a full disk | what was stored stays whole; downloads are of one body; temporary files go |
| Schema and drivers (`JS/db`) | the tables, the pool | init, migrate, close | repositories, shutdown | SQLite's statements commit one by one: their order on an old database, a start that fails or is killed between two | no server with a schema its queries do not fit |
| Server lifecycle (`JS/server.ts`) | connections, timers | bootstrap, shutdown | handlers, drivers, the process | drain and force-exit timers against requests and second signals | a graceful exit leaves nobody waiting; a server told to stop ends; a killed one leaves a consistent store |
| Presigned URLs (`JS/services/PresignedUrlService.ts`) | a secret | generate, validate | object controller | expiry boundary | valid exactly until it expires |
| Rate limiter, auth, error handler, routes (`JS/api`) | the limiter's counters (library) | per request | controllers | counters are per process | - |
| Metrics, logger, config (`JS/utils`, `JS/config`) | counters | - | - | - | - |
| Rust services and repositories (`RS/services`, `RS/repositories`) | as the JS ones | as the JS ones | as the JS ones | threads instead of one loop; the cleaner removes the file before the row | as the JS ones |
| Rust storage and handlers (`RS/storage`, `RS/api`) | files | range reads, assembly | Rust services | unsigned range arithmetic; parts read twice | the range served is the range asked for |
| Web UI (`UI/pages`, `UI/api`) | page state, requests in flight, session | list, navigate, load more, upload, delete; list, create and delete buckets | the API of either server | answers out of order, errors, lost answers, overlapping batches and deletions, files in parts | a quiet page shows what is stored; whole files; honest ticks; spinners that stop |

## 2. Plan

In order of importance; all of it is written.

1. `ObjectStore` - objects, buckets and the expiry cleaner over both databases;
   `ObjectStoreProofs` - type correctness, rows have files, rows in live buckets;
   `ObjectStoreLatestProofs` - one current version, fresh reads and no leaked files
   on SQLite, the cleaner spares what has not expired on either database.
2. `Multipart` - uploads, parts, assembly and the stale upload cleaner;
   `MultipartProofs` - all its safety properties.
3. `Listing` - pages against concurrent changes; `ListingProofs` - its safety.
4. `VersionIndex` - the abstract promise of the objects table (only a new
   version becomes current, an overwritten one never again), implemented by
   `ObjectStore` on SQLite; proved in `ObjectStoreLatestProofs`.
5. `BucketRegistry` - owners, settings and answers: the creation race, `update()`
   as a read-modify-write, the count of `deleteBucket` against puts;
   `BucketRegistryProofs` - all its properties.
6. `LocalStorage` - temporary names, open files, rename, pruning of directories,
   streams that break off, the NFS variant.
7. `Lifecycle` - migrations, connections, shutdown with its timers; `Server`
   composes it with `LocalStorage`: every connection has a handler;
   `ServerProofs` - all its safety properties.
8. `RustStore` - the Rust order of steps in put, clean, complete and delete, and
   `RustStoreProofs` - all its safety properties.
9. `BucketPage`, `Dashboard` - the pages of the web UI with their requests;
   `WebUI` composes them; `WebUIProofs` - all their safety properties.

## 3. How the code is modelled

**Steps.** A step is what runs between two points at which something else can
run. With Postgres these are the awaited queries and file operations: every SQL
statement is a step of its own. SQLite statements are synchronous, so a
repository method of two statements cannot be overtaken; it is still two steps,
because each statement commits by itself and the process can die in between.
`loop` names the process that is between two statements of such a method, and
nobody else moves until it is `Free` (`KeepLoop`, `YieldLoop`, `At`). An await
between two *different* repository calls is an interleaving point on both
databases. On SQLite those promises are already resolved and are drained in one
turn of the loop when no file operation lies between; the model allows more
interleavings there than the program has, which is sound for the safety
properties checked.

**Processes.** `Requests` are concurrent HTTP requests and `Cleaners`
overlapping runs of a timer's job (`setInterval` does not wait for the last run).
`proc[p]` is the continuation of `p`: `pc` is where it waits, the other fields
are the locals the handler still needs.

**Crash** resets the continuations and keeps tables and files. With SQLite there
is one process and it takes everybody with it; Postgres and a shared volume
allow several instances (`loony-s3-js/docs/deployment.md`), so any subset of
the requests and cleaner runs may die. It also stands for the force-exit timer
of `shutdown`.

**Data.** A version stands for what the code names with one uuid (row, version
id, storage key), so "the file of this row" is membership in `blobs`. A bucket id is
one incarnation of a name. Ids are drawn when a request arrives: a bound on them
limits how many requests arrive and never stops one. `created_at` is a clock that
ticks per stamp: the wall clock is assumed not to step back. Bodies of parts are
model values which carry their size class (`Small`) and their etag.

**Left out** because they change no state: validation, content types, logging,
metrics, and access checks except in `BucketRegistry`. A refused request is one
that never starts.

| Module | Variables | Code |
|---|---|---|
| `ObjectStore` | `bucket`, `row`, `blobs` | tables `buckets`, `objects`; files of the storage backend |
| | `proc`, `loop` | running handlers, the event loop |
| | `clock`, `newest` | time; history of the newest insert per key |
| | `usedVersions`, `usedBuckets` | uuids handed out |
| `VersionIndex` | `held`, `current` | versions and `is_latest` of each key, seen by `HeldVersions`, `CurrentVersion` |
| `Multipart` | `upload`, `object`, `bucketAlive` | tables `multipart_uploads`, `objects`; the bucket's row |
| | `partFile`, `file` | `__tmp/{uploadId}/{n}`; assembled files |
| | `sentAs`, `acked`, `interrupted` | history: what a body was sent as, what a client knows, removals a dying process left undone |
| `Listing` | `stored`, `latest`, `writing` | keys with a version, with an `is_latest` row, inside `create()` |
| | `phase`, `token`, `pages`, `steady` | the client's listing; keys stored throughout |
| `BucketRegistry` | `row`, `object` | tables `buckets` (name, owner, settings) and `objects` (bucket, author) |
| | `proc`, `loop` | running handlers and their last answers, the event loop |
| | `asked`, `opened` | history: the settings last asked for, buckets once open to writing |
| `LocalStorage` | `dirs`, `entry`, `content` | directories, names (temporary ones too) and the bytes of inodes |
| | `stream` | what every handler is doing with the storage |
| | `acked`, `shared`, `left` | history: what write() returned, parts that shared a temporary name, temporary files nobody will remove |
| `Lifecycle` | `phase`, `conn`, `drained`, `exitCode` | the process (while it starts, its next statement), the connections, the drain timer, `process.exit` |
| | `driver`, `schema` | `DB_BACKEND`, and what there is of the tables, the added column and its index |
| `BucketPage` | `prefix`, `result`, `loading`, `tasks`, `deletingKey` | the component's state |
| | `lists`, `batch`, `deletion` | requests in flight and the calls of `uploadFiles`, `handleDelete` |
| | `naming`, `store` | the server: its field names and its objects |
| | `stored`, `older`, `raced`, `mixed` | history: see the properties |
| `Dashboard` | `buckets`, `fetching`, `creating`, `removal`, `deletingId` | the component's state and requests |
| | `owned` | the user's buckets on the server |
| `RustStore` | `bucketAlive`, `row`, `upload` | the bucket's row, tables `objects`, `multipart_uploads` |
| | `file`, `partFile` | files of objects, `__parts/{upload}/{n}` |
| | `proc`, `sentAs` | running handlers and cleanup runs; history: what a body was sent as |

Operations and actions of `ObjectStore`: putObject is `ArrivePut`, `FindBucket`,
`PutWrite` or `PutWriteFails`, `PutDemote`, `PutInsert`; getObject and
headObject are `FindBucket`, `GetFindRow`, `GetExists`, `GetOpen`; deleteObject is
`FindBucket`, `SelectRows`, `DeleteRows`, `Unlink`, and the cleaner is `CleanFind`,
`CleanNext` and the same last three; createBucket is `CreateExists`,
`CreateInsert`; deleteBucket is `FindBucket`, `DropCount`, `DropBucket`. Of
`Multipart`: initiateUpload is `InitiateFindBucket`, `InitiateInsert`; uploadPart is
`FindUpload`, `WritePart` or `WritePartFails`, `ReadParts`, `UpdateParts`;
completeUpload is `FindUpload`, `CheckParts`, `AssemblePart` per part,
`AssembleDone`, `InsertObject`, `DeleteUpload`; abortUpload and the cleaner are
`RemoveParts`, `DeleteUpload`. `Listing` keeps of `ObjectStore`'s handlers what a
listing can see: `create()` is one step on SQLite (`Put`) and two with Postgres
(`PutDemote`, `PutInsert`); both kinds occur in one behaviour, so that what
holds does so on either database. `steady` are the keys that have had a current
row ever since the listing began: an overwriting put keeps its key there on
SQLite and drops it with Postgres, where a page read between the UPDATE and the INSERT
does not contain the key. The prefix has already selected the keys, and the LIKE pattern is not modelled.

**`RustStore`** differs in what a step is: handlers and cleanup tasks run on the
threads of tokio, and every statement of both databases is awaited, so SQLite
interleaves like Postgres. The request's first lookup and its arrival are one step
(a request that is turned away leaves no trace). put_object is `BeginPut`, `PutWrite`,
`Insert`; delete_object is `BeginDelete`, `SelectRows`, `DeleteRows`, `Unlink`;
delete_bucket is `BeginDropBucket`, `DropBucket` (no count: it deletes non-empty buckets);
initiate is `BeginInitiate`, `InsertUpload`; upload_part is `BeginPart`, `WritePart`,
`ReadParts`, `UpdateParts`; complete is `BeginComplete`, then `CopyPart` and
`RehashPart` per part, `Assembled`, `RemovePart` per part, `Insert`,
`DeleteUpload`; abort is `BeginAbort`, `RemovePart`, `DeleteUpload`. The cleanup tasks
are `FindExpired`, `NextExpired` (file first), `DeleteRows`, and `FindStale`, `NextStale`,
`RemovePart`, `DeleteUpload`. `Stop` covers an error passed on with `?`, a client that
goes away (axum drops the handler's future at its await) and a crash; `StatementFails`
is an error the cleanup drops with `.ok()`. `create()`'s UPDATE of `is_latest` and all reads are left
out; foreign keys are enforced, as sqlx does by default on SQLite.

**`BucketRegistry`** is `ObjectStore`'s counterpart for owners, settings and answers.
createBucket is `ArriveCreate`, `CreateExists`, `CreateInsert`; updateBucket is
`ArriveUpdate`, `FindByName`, `UpdateRead`, `UpdateWrite`, `UpdateReadBack`; deleteBucket is
`ArriveDelete`, `FindByName`, `DeleteCount`, `DeleteRow`; of putObject it keeps `ArrivePut`,
`FindByName` and, after the transfer, `PutInsert`. On SQLite the handler of a bucket
request runs to its end in one turn, since every promise it awaits is resolved
(`AwaitQuery`); requests are assumed not to be pipelined on one connection.

**`LocalStorage`** goes below the services: `write()` is `BeginWrite` (mkdir and the call of
`createWriteStream`), `OpenWrite` or `OpenFails`, `CopyChunk`, on NFS `Fsync`, and `Rename`; it
may end in `SizeMismatch`, `SourceBreaks`, `SourceBreaksEarly` followed by `OpenLate`, or
`WriteBreaks`, all of which remove the temporary file unless `rmSync` fails as well (`RemoveTemp`). An
fsync or a rename that fails on a file that is there, on NFS or on the local disk, is
`CommitFails`: both are outside the `try`, and the file stays. An assembly creates its destination and may end in `PartFails` or
`AssemblyBreaks`; the copies of its parts are its chunks. `read()` and streamObject are
`BeginRead`, `ReadExists`, `OpenRead`, `SendChunk`, `ReadFails`, `DownloadAbandoned`. An open file
is an inode: renaming or removing its name leaves it. **`Lifecycle`** has `Start`
and the migrations. Every statement SQLite executes commits by itself: `CreateObjects`, `CreateIndex` (the index
on `expires_at`), `CreateUploads`, `AddColumn`, whose errors are swallowed, all of them. PostgreSQL gets its script as
one query and thus one transaction, `RunQuery`. Then `Listen`; between any two `StartFails` or
`StartKilled` may end the process, and the next one goes on with the `schema` it left. Connections carry one request
at a time, and `shutdown` is
`Signal`, `SignalAgain`, `SignalWhileClosing`, `DrainTimeout`, `ServerClosed`, `ServerClosedPool`,
`PoolEnded`, `ForceExit`. **`Server`** puts the two together: `Arrive` begins a handler on a
connection, `Handle` is its next step and its answer, `Notice` what it does when its client has
gone, `Stop` everything that ends the process. Node's part (`server.close`, the pool, an
error event nobody listens to) is modelled from how `server.ts` and the backends use it.

**`BucketPage`** has one action for each click (`Refresh`, `Navigate`, `LoadMore`, `UploadFiles`,
`HandleDelete`), one for each moment a request is served (`ServeList`, `ServeFile`, `ServeDelete`, `PartAcked`,
`PartFails`) and one for each answer that arrives (`LoadArrives`, `MoreArrives`, `FileArrives`, `DeleteArrives`,
`DeleteFails`), with `UploadsSettled` for `Promise.all` and `Timer` for the panel. The server
is a store that answers as `list()` does (`Listing`): in the order of the keys (`Rank`), a page is limited over all
rows under the prefix beyond the token, those in folders included, and its folders are those of its
own rows, so that a folder can be split across pages. Load more joins the objects to those shown and takes the
folders of the new page alone (`Joined`). `naming` says whether the fields
are spelled as the page reads them. **`Dashboard`** is built alike. **`WebUI`** shows one of the
pages; the other is another behaviour.

## 4. What the runs check

| Run | Instance | Shows |
|---|---|---|
| `os_sqlite` | 1 name, 2 bucket ids, 1 key, 3 versions, 2 requests, 1 cleaner, crashes | `LatestIsNewest`, `NoStaleRead`, `DeletedRowsReported`, `ImplementsVersionIndex`, types |
| `os_postgres` | the same, statement by statement, partial crashes, failing I/O, forced deletion | `RowHasBlob`, `RowsInLiveBuckets`, `CleanerSparesLive` |
| `os_live` | 1 bucket, 2 versions, 2 requests, 2 cleaner runs, batch of 1, no failures | `ExpiredEventuallyRemoved`, `NoOrphanBlob` |
| `mp_sqlite` | 1 upload, 2 part numbers, 3 bodies (1 small), 2 requests, 1 cleaner, crashes | `ObjectsAreWhole`, `AckedPartRecorded`, `RecordedPartHasFile` |
| `mp_live` | Postgres, 1 part, failing I/O, bucket dropped | `UploadsEventuallyRemoved` |
| `rs_store` | 1 version, 1 upload, 2 part numbers, 2 bodies, 2 requests, 1 cleanup run, stops and failures | `ServableHasFile`, `NothingWithoutBucket`, `ObjectsAreWhole`, `EtagOfPartsSentOnce` |
| `listing` | 5 keys, some in a folder, pages of 2, puts of both kinds | `ListedOnce`, `SteadyKeysListed`, `ListingEnds`, types |
| `buckets` | 1 name, 2 bucket ids, 1 object, 2 users, 2 requests, both databases | `OnlyOwnersChange`, `StrangersNeedOpenBucket`; on SQLite `SettingsAsAsked`, `PlainDeletionSparesObjects`, `AnswersFit` |
| `server` | 2 clients, 2 objects in one directory, 1 part, bodies of 2 chunks, both backends and drivers, an empty or an older database, failing disk, 2 signals | `AckedIsIntact`, `ReadsAreWhole`, `NoTempLeft`, `WholeBodyIsStored`, `MigratedBeforeServing`, `GracefulExitAnswers`, `DrainingEnds` |
| `web_ui` | 2 folders, files of 9 and 11 MB, pages of 2, 2 clicks, 2 batches, 2 deletions; 2 buckets, 2 removals | `ShownIsStored`, `StoredIsWholeFile`, `TicksAreStored`, `ListIsOwned`, `SpinningStops` |
| `os_pg_latest` | Postgres, 2 puts | violates `LatestIsNewest` |
| `os_force_leak` | 1 request | violates `NoOrphanBlob` |

The type invariants of the modules without one in this table (`TypeOK` of `Multipart`,
`RustStore`, `BucketRegistry`, `Server` and `WebUI`) hold on the same instances; they are
not among the properties of a run.

Why these bounds: three versions are the fewest with which a key is demoted, hidden
and overwritten again; two bucket ids let a name be deleted and created again
while a put holds the old id; two requests and a cleaner give every pair of
handlers the chance to overlap (each handler touches one key, and handlers of
different keys meet only in the bucket's row); a batch of one makes the cleaner come back. Two part
numbers and a list of two let one part be replaced while another is being
copied. In `rs_store` one version is enough
for the multipart handlers because what a second complete does to the first is to remove part
files, which abort and the cleanup do too; two bodies let a part be sent twice.
Five keys give three pages, a folder that crosses a page and keys on both
sides of it. In `buckets` two ids of one name and two users let a name change hands
under a request of either. In `server` two clients let one handler delete the last file of
the directory another is about to write to, send one part twice in the same
millisecond, or download what the other removes; two chunks are the fewest with something
between the first and the last; two signals give a second one during the drain or a
restart. No process is started when the signals are used up, so that every process that
runs can be told to stop (`Start`); Postgres is paired with NFS and SQLite with the
local disk, because the two choices do not interact. In `web_ui` a file below and
one above the threshold, the larger with a short last part; the folder lies between the two files of
the root, so that with pages of two its first key is on the first page and its second, once uploaded, on the
next; two clicks give every pair of overlapping operations. `MaxBodies`, `Chunks`, `MaxMillis`, `MaxSignals`, `MaxClicks`, `MaxFiles`,
`MaxLists`, `MaxList`, `NumKeys` and the sizes of `Versions`, `BucketIds`,
`Uploads`, `Contents`, `Objects` are the only bounds; the clock is bounded by the versions.

### What the violations show

- `os_pg_latest`: Postgres `create()` runs UPDATE and INSERT as two queries
  (`JS/repositories/postgres/ObjectRepository.ts:166`). Two puts of one key both
  update, then both insert: two rows have `is_latest`, and after the newer one is
  deleted by its id the older of the two is served, although architecture.md
  describes the flag as "1 for the current version, 0 for older ones".
- `os_force_leak`: `deleteBucket` with force deletes the bucket's row only
  (`JS/services/BucketService.ts:69`); the files stay, although the API reference says
  that force "also deletes all objects and their storage".

Behaviour of the code the models show besides, at which no run's property
stops:

- `hardDelete` of the current version promotes no other one, so `findLatest`, which
  "Returns the latest non-deleted version." (`JS/repositories/interfaces.ts:31`), finds none while
  older versions exist and can be read by id. On SQLite a crash between UPDATE
  and INSERT of `create()` does the same.
- With Postgres a put between the SELECT and the DELETE of `hardDelete` loses its row
  unreported (`DeletedRowsReported`), two concurrent part uploads lose one
  another's entry (`AckedPartRecorded`), an update of a bucket loses another's setting
  (`SettingsAsAsked`), a plain deletion takes objects put after its count with it
  (`PlainDeletionSparesObjects`), the loser of two creations is answered 500
  and an update of a deleted bucket 200 without a bucket (`AnswersFit`). The runs
  check these on SQLite, where they hold.
- `completeUpload` takes part numbers and compares no etags, although
  `loony-s3-js/docs/api-reference.md:389` says "Each `etag` must match exactly what was
  returned during upload.": a part that is sent again before the assembly ends
  up in the object.
- Two uploads of one part that begin in the same millisecond share a
  temporary file: the first to finish may store a mixture, the other fails (`shared`).
- A request that breaks off before its temporary file is open leaves that file: rmSync
  comes first, the pending open then creates it (`OpenLate`, `left`). So does an fsync
  or a rename that fails (`JS/storage/NfsStorageBackend.ts:71-73`, `CommitFails`), and an `rmSync` that does. The directories
  `__tmp/{uploadId}` are never removed.
- The Content-Length of a form counts its boundaries and headers too, and is what
  `JS/api/controllers/ObjectController.ts:47-62` expects its file to be long: the form uploads that
  `loony-s3-js/docs/api-reference.md:196` offers are refused whenever they bear that header, and
  `WholeBodyIsStored` says so (`Mismatched`). A form whose client goes away leaves its handler
  waiting until the drain timer fires.
- On SQLite a database without `expires_at` is never migrated: the index on the
  column fails before `addMissingColumns` runs (`JS/db/database.ts:89`), and no start succeeds (`CreateIndex`), while
  `loony-s3-js/docs/deployment.md:282` says "The database schema is migrated automatically on
  startup. No manual migration steps are needed."
- The drain timer says it destroys idle connections and destroys all of them
  (`DrainTimeout`), requests in progress included; a second signal on Postgres
  while the pool closes ends the process without waiting for it.
- HEAD opens a read stream and never closes it (`JS/services/ObjectService.ts:121`).
- The page reads `common_prefixes`, `is_truncated` and `next_continuation_token`, as `ListResult` of
  `UI/api/objects.ts` declares them; both servers spell them in camel case (the Rust one in
  `RS/api/handlers/object.rs:407`): no folders are shown and Load more is never offered
  (`naming`). With a server that spelled them so, Load more would drop the folders of the pages
  before (`UI/pages/BucketPage.tsx:396-398`): `ShownIsStored` promises those of the last page only.
- Its other conditions are the cases in which a quiet page may be wrong until the next load: a load that failed or was for
  a folder left meanwhile, an answer that came after that of a load sent later, a Load more that overlapped another
  request, a deletion whose answer got lost (`raced`). An upload in which every file failed still ends with "uploaded"
  (`UI/pages/BucketPage.tsx:159`); two batches at once mark each other's files (`mixed`).

Seen with `RustStore`, beyond what `rs_store` checks: `EtagOfFile` without the condition
that no part was sent twice fails, because `assemble_multipart` reads each part once to copy
it and once more to hash it (`RS/storage/local.rs:150-155`), and a part replaced in
between gives an object whose etag is not the MD5 of its file
(loony-s3-rs/docs/data-model.md:60 and :229 say it is). And `post_object` reads a list of parts that
are not numbers as the empty list (`RS/api/handlers/object.rs:320-322`): the request body
of loony-s3-rs/docs/api-reference.md:380, with objects of `partNumber` and `etag`, completes
the upload as an empty object.

### Fairness

`FairSpec` of `ObjectStore` and `Multipart` assumes strong fairness of the steps of
each request that has arrived and of each cleaner run: Node's queues are first in,
first out, file operations and queries end, and `setInterval` fires for ever. It is
strong rather than weak because a continuation is not enabled while somebody else
is between two statements of a synchronous method. Arrivals are not fair: no client has
to send anything. `Multipart` adds that an upload which stays eventually becomes stale. `Listing`
assumes only that the client asks for its next page. `Server` assumes that the drain
timer fires and that Node calls `server.close()` back and ends the pool once it can; nothing
of clients, of handlers or of the force-exit timer, so that a server stops whatever hangs. `WebUI` assumes
that of the requests and timers under way on the page something goes on: a request is
answered or fails, its answer arrives. The user need not do anything.

## 5. What is proved

`ObjectStoreProofs` proves, for every value of the constants that satisfies
`ConstantsAssumption` and `SentinelAssumption`, both databases and all faults:

- `TypeCorrect`: `Spec => []TypeOK`. `TypeOK` alone is not inductive: a step uses
  locals (`proc[p].key`, `.ver`, `.name`) that are `None` in other places.
  `TypeInv` adds `WellFormed`, which says at which `pc` they are set.
- `RowsHaveBlobs`: `Spec => []RowHasBlob`. The inductive invariant `DataInv` adds:
  rows and files belong to versions already drawn (`StoredInv`); the version of a
  put in flight is nobody else's, has no row yet, is selected by no deletion, and
  from `demote` on has its file (`PutInv`); and once a deletion has reached `unlink` the
  versions it selected have no rows (`SelInv`), so what is unlinked can neither have nor regain a
  row. The Postgres case is the interesting one: DELETE may remove more than
  SELECT saw, never less of it.
- `RowsStayInLiveBuckets`: `Spec => []RowsInLiveBuckets`, from `TypeInv`: INSERT checks
  the bucket's id (not its name), and a deleted bucket takes its rows in the same
  step.

`ObjectStoreLatestProofs` proves for SQLite, with any number of concurrent
requests and cleaners, crashes and failing file operations:

- `CurrentIsNewest`: `Spec => []LatestIsNewest`. Three facts carry it. `LoopInv`
  says who holds the event loop: exactly the process between the two
  statements of `create()` or `hardDelete()`, so at most one is there.
  `StampInv` bounds every `created_at` by the clock, so an insert is newer than
  everything stored. And while a put is between UPDATE and INSERT its key has
  no current row: the UPDATE cleared it and nobody else could run. A crash in
  between only loses the INSERT. With Postgres `LoopInv` is what fails.
- `ReadsAreNotStale`: `Spec => []NoStaleRead`, from `CurrentIsNewest`: the row a
  read finds carries the key's newest stamp, which only grows, so it is at
  least the one the read started from (`ReadInv`).
- `DeletionsReport`: `Spec => DeletedRowsReported`. Whoever is between the SELECT
  and the DELETE of `hardDelete` holds the loop, so what the SELECT found is still
  all that the DELETE will match (`ReportInv`; rows may expire meanwhile, none
  appears).
- `NoBlobIsOrphaned`: `Spec => []NoOrphanBlob` if in addition nothing fails or crashes and no
  bucket is deleted (`Reliable`), which are the ways storage does leak (`os_force_leak`). A blob
  without a row is covered by somebody (`BlobInv`): by the put that wrote it and is about to
  insert its row, which cannot fail as its bucket stays (`BucketsKept`), or by the deletion that
  has removed its row and is about to unlink it, which knows of it by `ReportInv`.

and for both databases, all faults and any number of overlapping cleaner runs:

- `CleanersSpareLive`: `Spec => CleanerSparesLive` (`os_postgres`). A version is `Doomed` when it has
  been drawn, no put in flight will insert it, and its row, if any, has expired.
  That is stable: versions are drawn once, only the put that drew one inserts it,
  and nothing postpones an expiry. Everything on a run's list, and what it works on, is
  doomed (`CleanInv`), because what `findExpired` returns is; and `hardDelete` names
  the version.

It also proves for SQLite that the objects table is a version index:

- `OneCurrentVersion`: no key has two rows with `is_latest`. An INSERT finds its key
  without one (`StampInv`: the UPDATE cleared it and the loop was held since), and
  nothing else sets the flag.
- `ObjectsRefineIndex`: `Spec => ImplementsVersionIndex`. The mapping takes `held` of an
  object to its rows' versions and `current` to its flagged row, unique by
  `OneCurrentVersion`. UPDATE is `Hide` or, for a key without a current row, a stutter;
  INSERT is `Publish`, which needs that the version is new (`PutInv`) and the key
  hidden (`StampInv`), or a stutter when the foreign key fails; DELETE is `Remove`,
  the cascade `DropBucket`; a crash and everything else stutter.

`ListingProofs` proves for any number of keys, any folders, any positive
`maxKeys` and puts of both databases:

- `ListingTypeCorrect`: `Spec => []TypeOK`.
- `ListsOnce`: `Spec => []ListedOnce`. Every object shown so far is at most the token
  (`TokenBound`), a page only holds keys beyond it, and its last key becomes
  the next token (`PageOfRows`: a truncated page is not empty and its last row
  is its largest).
- `ListsSteadyKeys`: `Spec => []SteadyKeysListed`. Every steady key up to the token has
  been shown (`SteadyInv`): a page takes the smallest rows beyond the token
  without a gap, and a page that is not truncated takes all of them.

`MultipartProofs` proves for any sets of uploads, bodies, versions, requests and cleaner
runs, whatever fails or crashes:

- `MultipartTypeCorrect`: `Spec => [](TypeOK /\ OpenInv)`: with `WellFormed` for the locals,
  and the file a completing request writes exists (`OpenInv`).
- `CompletedObjectsWhole`: `Spec => []ObjectsAreWhole`. A body is only ever stored under the
  upload and number it was sent for (`SentInv`); a completing request has its version, and
  its file, for itself, and what it has copied so far are bodies sent for the parts its list
  begins with (`AssemblyInv`, `VersionFacts`).
- `NoPartLost`: `Spec => []AckedPartRecorded`, for SQLite: between the SELECT and the UPDATE of
  `upsertPart` its request holds the event loop, so that the column it writes back is
  the current one (`AckInv`). That an initiated upload begins without acknowledged parts needs
  `BirthInv`: an id that is still to be inserted is known to nobody who sends a part.
- `UnfinishedUploadKeepsParts`: `Spec => []RecordedPartHasFile`, if removing files works
  (`"io" \notin Faults`). `CoverInv` carries the part that is about to be recorded, too: its
  file is there, or somebody is about to delete the row, which the late record cannot
  undo.

`BucketRegistryProofs` proves for any sets of names, bucket ids, objects, users and requests:

- `RegistryTypeCorrect`, and for both databases `StrangersKeptOut`: `Spec =>
  []StrangersNeedOpenBucket` and `OwnersOnly`: `Spec => OnlyOwnersChange`. Ownership is checked of a
  name, one or more awaits before the statement uses the id. `AccessInv` says that what the check found
  of the id still holds while the bucket exists: owners never change, `opened` only grows,
  and an id is never given to a second bucket, because the one that a creation has drawn is known to
  nobody else (`IdInv`).
- For SQLite `NoUpdateLost`: `Spec => []SettingsAsAsked`, `PlainDeletionSpares`: `Spec =>
  PlainDeletionSparesObjects` and `AnswersAlwaysFit`: `Spec => AnswersFit`. A bucket handler
  keeps the loop from its first statement to its last (`TurnInv`), so that what it has read -
  the settings, the name that was free, the count of objects - is still so when it writes;
  no creation fails on a taken name and no update finds its bucket gone.

`ServerProofs` proves for any sets of paths, clients and bodies, any number of chunks and
clock values, both backends and drivers, failing disks, signals and restarts:

- `ServerTypeCorrect`: `Spec => []TypeOK`.
- `AcknowledgedStays`: `Spec => []AckedIsIntact` and `DownloadsAreWhole`: `Spec =>
  []ReadsAreWhole`. A body gets an inode of its own (`BodyInv`), an inode has one name
  and is opened for one path (`OwnInv`); an object's path is written by one request, once,
  and read after that (`PathInv`); and what a writer has copied so far is in the file it named
  (`CopyInv`). Parts that shared a temporary name (`shared`) are excepted, as in the properties.
- `TemporariesGo`: `Spec => []NoTempLeft`, which with the types is inductive as it stands (`TempInv`): a temporary
  name has a writer that will rename or remove it, or is one of `left`, which only grows where the process
  dies, an open comes late, or the fsync, the rename or the rmSync fails on the file.
- `WholeUploadsAreStored`: `Spec => WholeBodyIsStored`: the last step of a writer with a
  whole body renames it into place, or fails and leaves the whole body (`CopyInv`) under its temporary name;
  that name is there, because a directory another handler prunes is not empty while a file is in
  it. A form that has come whole is always found to have the wrong size (`FormInv`), so that nothing is ever
  acknowledged for its path.
- `ServesMigrated`: `Spec => []MigratedBeforeServing`, from `SchemaInv`: which parts of the schema
  each statement finds, whatever earlier starts left. A start that comes to SQLite's `AddColumn` has the
  column already, since the index before it would have failed without, so that its error may be swallowed.
- `GracefulExits`: `Spec => GracefulExitAnswers`, from `LifeInv`: a server which closed before
  the drain timer fired has no connection with a request.

`RustStoreProofs` proves for any number of requests, versions, uploads and cleanup runs, whichever
of them stop half-way or fail:

- `RustTypeCorrect`: `Spec => []TypeOK`, with `WellFormed` for the locals.
- `NothingOutlivesBucket`: `Spec => []NothingWithoutBucket`. The invariant is inductive
  once the tables are known to be functions of their keys (`BucketInv`): INSERTs
  find the bucket or fail, UPDATE of the parts column matches no row that has gone,
  everything else only deletes.
- `LiveObjectsAreServed`: `Spec => []ServableHasFile`. The cleanup removes the file before the row,
  from a list read earlier, so two facts are needed: files are removed of rows that have gone or
  have expired (`DoomedInv`), and a drawn version belongs to one request until its row is
  inserted, is on nobody's list (`VersionInv`) and has its file by then (`FileInv`).
- `AssembledIsWhole`: `Spec => []ObjectsAreWhole` and `EtagIsOfTheFile`: `Spec =>
  []EtagOfPartsSentOnce`. Whatever is in a part file, in the parts column or in a
  request's hands was sent for that part of that upload (`SentInv`, `Sound`); so the file, the
  hash and the size of an object are each made of one body per part (`RowInv`), and
  are the same when only one was sent (`MadeOnce`). That a set of part numbers has an `i`-th
  (`NthType`) is proved by well-founded induction on the numbers below it.

  Instead of every action against every part of this invariant, each action is shown to be a
  `Step` - what others can tell of it, and what it establishes of its own process -
  and `StepKeeps` shows once that such a step preserves all parts.

`WebUIProofs` proves for any files of any size, any folders, page sizes, buckets, clicks,
overlapping batches and deletions, calls that fail and answers that get lost or come late:

- `WebUITypeCorrect`: `Spec => []TypeOK`.
- `ShowsWhatIsStored`: `Spec => []ShownIsStored`. As long as `raced` does not excuse the page,
  at most one request in flight is one after which no load was sent (`Newest`), what it was sent for is what the
  page will show (`AloneInv`), and an answer of the others that comes after its own is excused (`older`,
  `ShownInv`); its answer is the folder as the server has it unless something has changed there since and whoever changed it
  has still to load it again (`Unloaded`); a load finds its batch or deletion waiting for it (`OwnerInv`).
  Load more continues exactly behind the token (`Fresh`): a page holds the first rows beyond its token, without a gap
  (`ListingIsInitial`), so that its objects and those shown are all up to its last row, and its folders those
  of the rows in between.
- `StoresWholeFiles`: `Spec => []StoredIsWholeFile`. A multipart upload is completed only when
  every part has been acknowledged (`WholeInv`), and the parts the page cuts a file into add up
  to the file whatever its size (`PartsAreWhole`).
- `TicksWhatIsStored`: `Spec => []TicksAreStored`. With one batch at a time the panel's
  `i`-th line is that batch's `i`-th file (`TickInv`).
- `ListsOwnBuckets`: `Spec => []ListIsOwned`. The list is what the server has up to the answers
  under way (`ListInv`): a bucket just created is missing until its answer arrives, one just
  deleted is listed until then; an id is drawn once (`DrawnInv`).

The constants' assumptions are the ones the code justifies: a positive batch size,
one of two drivers, sentinels that are no ids, rows, paths, answers or operations, at least one
chunk per body, a positive `maxKeys`, a list request for the page's first load. In `WebUI` the
ids of batches and of deletions differ, since either can be the owner of a request. Those proofs that hold for one driver say so in their
hypotheses (`Backend = "sqlite"`) or, where the driver is state, in the property (`driver = "sqlite"`).

Every safety invariant and action property of a passing run is proved. Only model-checked:
liveness (`ExpiredEventuallyRemoved`, `UploadsEventuallyRemoved`, `ListingEnds`,
 `DrainingEnds`, `SpinningStops`), because TLAPS does not reason about fairness and
ENABLED. A theorem that assumes a driver says nothing of the other one; with Postgres several of these
properties fail, see section 4.

## 6. Not modelled, and why

- Listing's LIKE pattern (a listing is of the keys it matches) and `maxKeys` of zero or less
  (the request ends in an error and changes nothing).
- The Rust server's listing, byte ranges, `is_latest`, bucket settings, startup and
  shutdown: reads and arithmetic that change no state, or the same as in the JS server.
- In `Multipart` and `ObjectStore` two writers never share a temporary file, and a part file is
  read as it was when it was opened; `LocalStorage` is where names and open files are.
  It has one directory level: pruning goes up through parents that are made again
  in the same way.
- The loss of power: a crash is the death of a process, and what has been written is in its file. What an
  fsync adds to that, the page cache, is not modelled; that it, the rename or the removal of a
  temporary file fails and leaves the file is (`CommitFails`, `RemoveTemp`). A failing removal in `delete()` and
  `deleteParts()` is in `ObjectStore` and `Multipart`.
- Forms without Content-Length (chunked), whose length nobody checks: they are stored like a `PUT`.
- Statements of SQLite's `runMigrations` that cannot fail on an older database by its schema, tables of buckets and the
  other indexes, are part of the statement beside them; migrations of a database newer than the code.
- `PUT` of `application/json`, whose body `express.json` has consumed before the
  handler reads it.
- Rate limiter, authentication, routing, metrics, logging, configuration: no state of
  their own that the properties could relate.
- Presigned URLs: pure functions of the request, the clock and a secret.
- The UI's login and stored token, downloads and copied links: one request each, with
  nothing to race but themselves.
