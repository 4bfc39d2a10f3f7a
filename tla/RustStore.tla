------------------------------ MODULE RustStore ------------------------------
(***************************************************************************)
(* The object store of loony-s3-rs: ObjectService, MultipartService,       *)
(* CleanupService and delete_bucket, over the objects and                  *)
(* multipart_uploads tables and the file system.                           *)
(*                                                                         *)
(*   - Every SQL statement and every file operation is awaited on a pool   *)
(*     of threads, with either database: each is a step of its own.        *)
(*   - All requests go to one key of one bucket, which may be deleted      *)
(*     meanwhile: handlers of different keys share nothing but the bucket. *)
(*   - A version stands for what one uuid names: the object's row and its  *)
(*     file.  A body stands for the bytes of one part request, and so for  *)
(*     their number and their MD5.  The bytes of a plain put, which are    *)
(*     read once, are not told apart: they are the empty sequence.         *)
(*   - Which version is the latest is the subject of ObjectStore (create() *)
(*     is as there with Postgres) and left out here.                       *)
(***************************************************************************)
EXTENDS Integers, FiniteSets, Sequences

CONSTANTS
    Versions,    \* uuids of objects (bounds how many are started)
    Uploads,     \* upload ids (bounds how many uploads are initiated)
    MaxPart,     \* bound: part numbers are 1..MaxPart
    Bodies,      \* bodies of part requests (bounds how many are sent)
    Requests,    \* concurrent HTTP requests
    Cleaners,    \* runs of the two cleanup tasks, of all instances
    Ops,         \* the operations clients issue
    Expiries,    \* "never" and/or "pending": whether objects carry a TTL
    BatchSize,   \* config.cleanup.batch_size
    Faults,      \* subset of {"stop", "fail"}
    None         \* no value

AllOps == {"put", "delete", "dropBucket", "initiate", "part", "complete",
           "abort"}

PartNumbers == 1..MaxPart
Procs == Requests \cup Cleaners

ASSUME ConstantsAssumption ==
    /\ MaxPart \in Nat \ {0}
    /\ Ops \subseteq AllOps
    /\ Expiries \subseteq {"never", "pending"}
    /\ BatchSize \in Nat \ {0}
    /\ Faults \subseteq {"stop", "fail"}
    /\ Requests \cap Cleaners = {}

(* The parts column: what was recorded for each part number. *)
Parts == [PartNumbers -> Bodies \cup {None}]
NoParts == [n \in PartNumbers |-> None]
Recorded(parts) == {n \in PartNumbers : parts[n] # None}

(* A row of objects.  hash is what etag was computed from and sized what   *)
(* size was added up from; up and chosen say what was assembled (up is     *)
(* None for a plain put).                                                  *)
ObjectRow == [expiry : {"never", "pending", "past"}, up : Uploads \cup {None},
              chosen : SUBSET PartNumbers, hash : Seq(Bodies),
              sized : Seq(Bodies)]

UploadRow == [parts : Parts, stale : BOOLEAN]

ASSUME SentinelAssumption ==
    /\ None \notin Versions \cup Uploads \cup Bodies \cup AllOps
    /\ None \notin ObjectRow \cup UploadRow \cup (Uploads \X PartNumbers)
    /\ None \notin Seq(Bodies)

VARIABLES
    bucketAlive,  \* the bucket's row exists
    row,          \* objects: version -> its row, or None
    upload,       \* multipart_uploads: upload -> its row, or None
    file,         \* files of objects: version -> the bodies in it, or None
    partFile,     \* files __parts/{upload}/{number}: their body, or None
    proc,         \* the local state of every request and cleanup run
    usedVersions, usedUploads,   \* ids already drawn
    sentAs        \* history: the upload and part number a body was sent as

tables == <<bucketAlive, row, upload>>
files == <<file, partFile>>
drawn == <<usedVersions, usedUploads, sentAs>>
vars == <<tables, files, proc, drawn>>

(* The i-th of a set of part numbers in ascending order. *)
Nth(ns, i) == CHOOSE n \in ns : Cardinality({m \in ns : m <= n}) = i

PC == {"idle", "write", "insert", "select", "deleteRows", "unlink",
       "dropBucket", "insertUpload", "writePart", "readParts", "updateParts",
       "copy", "rehash", "removeParts", "deleteUpload", "nextExpired",
       "nextStale"}

Idle == [pc |-> "idle", op |-> None, ver |-> None, up |-> None, part |-> 0,
         body |-> None, chosen |-> {}, parts |-> NoParts, copied |-> <<>>,
         hashed |-> <<>>, rest |-> {}, sel |-> {}, expired |-> {},
         stale |-> {}]

Local == [pc : PC, op : AllOps \cup {None}, ver : Versions \cup {None},
          up : Uploads \cup {None}, part : PartNumbers \cup {0},
          body : Bodies \cup {None}, chosen : SUBSET PartNumbers, parts : Parts,
          copied : Seq(Bodies), hashed : Seq(Bodies), rest : SUBSET PartNumbers,
          sel : SUBSET Versions, expired : SUBSET Versions,
          stale : SUBSET (Uploads \X SUBSET PartNumbers)]

Stored == {v \in Versions : row[v] # None}
Rows == {u \in Uploads : upload[u] # None}

TypeOK ==
    /\ bucketAlive \in BOOLEAN
    /\ row \in [Versions -> ObjectRow \cup {None}]
    /\ upload \in [Uploads -> UploadRow \cup {None}]
    /\ file \in [Versions -> Seq(Bodies) \cup {None}]
    /\ partFile \in [Uploads \X PartNumbers -> Bodies \cup {None}]
    /\ proc \in [Procs -> Local]
    /\ usedVersions \subseteq Versions
    /\ usedUploads \subseteq Uploads
    /\ sentAs \in [Bodies -> (Uploads \X PartNumbers) \cup {None}]

(* Mutant: the comparison with the current time is missing. *)
AnyExpiry == Stored

(* The WHERE clause of find_expired. *)
Expired == {v \in Stored : row[v].expiry = "past"}


-----------------------------------------------------------------------------
(* Control *)

At(p, pc) == proc[p].pc = pc

Goto(p, local) == proc' = [proc EXCEPT ![p] = local]

(* A request has been answered; a cleanup run takes the next of its list.  *)
Finish(p) ==
    Goto(p, CASE proc[p].expired # {} ->
                    [Idle EXCEPT !.pc = "nextExpired", !.expired = proc[p].expired]
              [] proc[p].stale # {} ->
                    [Idle EXCEPT !.pc = "nextStale", !.stale = proc[p].stale]
              [] OTHER -> Idle)

(* The rest of the parts of u whose files are to be removed, and what      *)
(* follows.                                                                *)
RemovingParts(local, u, rest) ==
    [local EXCEPT !.up = u, !.rest = rest,
                  !.pc = CASE rest # {} -> "removeParts"
                           [] rest = {} /\ local.op = "complete" -> "insert"
                           [] OTHER -> "deleteUpload"]


-----------------------------------------------------------------------------
(* Requests arrive.  Every handler first looks up its bucket or its upload; *)
(* a request that is turned away here changes nothing and is no step.       *)

Start(r, op, local) ==
    /\ op \in Ops
    /\ At(r, "idle")
    /\ Goto(r, [local EXCEPT !.op = op])

BeginPut(r) ==
    /\ bucketAlive
    /\ \E v \in Versions \ usedVersions :
        /\ Start(r, "put", [Idle EXCEPT !.pc = "write", !.ver = v])
        /\ usedVersions' = usedVersions \cup {v}
    /\ UNCHANGED <<tables, files, usedUploads, sentAs>>

(* DELETE of a version or, without version_id, of the whole key. *)
BeginDelete(r) ==
    /\ bucketAlive
    /\ \E v \in usedVersions \cup {None} :
        Start(r, "delete", [Idle EXCEPT !.pc = "select", !.ver = v])
    /\ UNCHANGED <<tables, files, drawn>>

BeginDropBucket(r) ==
    /\ bucketAlive
    /\ Start(r, "dropBucket", [Idle EXCEPT !.pc = "dropBucket"])
    /\ UNCHANGED <<tables, files, drawn>>

BeginInitiate(r) ==
    /\ bucketAlive
    /\ \E u \in Uploads \ usedUploads :
        /\ Start(r, "initiate", [Idle EXCEPT !.pc = "insertUpload", !.up = u])
        /\ usedUploads' = usedUploads \cup {u}
    /\ UNCHANGED <<tables, files, usedVersions, sentAs>>

BeginPart(r) ==
    /\ \E u \in Rows, n \in PartNumbers, b \in Bodies :
        /\ sentAs[b] = None
        /\ sentAs' = [sentAs EXCEPT ![b] = <<u, n>>]
        /\ Start(r, "part", [Idle EXCEPT !.pc = "writePart", !.up = u,
                                         !.part = n, !.body = b])
    /\ UNCHANGED <<tables, files, usedVersions, usedUploads>>

(* complete takes over the recorded parts, all that it wants must be among *)
(* them; a number listed twice makes the request fail.                     *)
BeginComplete(r) ==
    /\ \E u \in Rows, v \in Versions \ usedVersions :
        \E ns \in SUBSET Recorded(upload[u].parts) :
            /\ Start(r, "complete", [Idle EXCEPT !.pc = "copy", !.up = u,
                         !.chosen = ns, !.ver = v, !.parts = upload[u].parts])
            /\ usedVersions' = usedVersions \cup {v}
    /\ UNCHANGED <<tables, files, usedUploads, sentAs>>

BeginAbort(r) ==
    /\ \E u \in Rows :
        Start(r, "abort", RemovingParts(Idle, u, Recorded(upload[u].parts)))
    /\ UNCHANGED <<tables, files, drawn>>

-----------------------------------------------------------------------------
(* put_object, and the create() it shares with complete *)

(* write_stream: all bytes go to a file with a uuid of its own, which is    *)
(* then renamed into place.                                                *)
PutWrite(r) ==
    /\ At(r, "write")
    /\ file' = [file EXCEPT ![proc[r].ver] = <<>>]
    /\ Goto(r, [proc[r] EXCEPT !.pc = "insert"])
    /\ UNCHANGED <<tables, partFile, drawn>>

(* size is added up from the parts as they were recorded, etag is computed *)
(* from the files.                                                         *)
NewRow(p, e) ==
    [expiry |-> e, up |-> p.up, chosen |-> p.chosen, hash |-> p.hashed,
     sized |-> [i \in 1..Cardinality(p.chosen) |-> p.parts[Nth(p.chosen, i)]]]

(* Mutant: foreign keys are not enforced. *)
InsertUnchecked(r) ==
    LET p == proc[r] IN
    /\ At(r, "insert")
    /\ \E e \in Expiries : row' = [row EXCEPT ![p.ver] = NewRow(p, e)]
    /\ IF p.op = "put" THEN Finish(r)
                       ELSE Goto(r, [p EXCEPT !.pc = "deleteUpload"])
    /\ UNCHANGED <<bucketAlive, upload, files, drawn>>

(* The INSERT of create(), rejected when the bucket has gone. *)
Insert(r) ==
    LET p == proc[r] IN
    /\ At(r, "insert")
    /\ IF ~bucketAlive
       THEN Finish(r) /\ UNCHANGED row
       ELSE /\ \E e \in Expiries : row' = [row EXCEPT ![p.ver] = NewRow(p, e)]
            /\ IF p.op = "put" THEN Finish(r)
                               ELSE Goto(r, [p EXCEPT !.pc = "deleteUpload"])
    /\ UNCHANGED <<bucketAlive, upload, files, drawn>>

-----------------------------------------------------------------------------
(* delete_object, hard_delete and delete_bucket *)

(* The WHERE clause of hard_delete, within the key. *)
Matching(v) == IF v = None THEN Stored ELSE Stored \cap {v}

SelectRows(r) ==
    /\ At(r, "select")
    /\ Goto(r, [proc[r] EXCEPT !.pc = "deleteRows", !.sel = Matching(proc[r].ver)])
    /\ UNCHANGED <<tables, files, drawn>>

(* A request goes on with the files of the rows it selected, a cleanup run *)
(* has removed the file before (the result of its SELECT is dropped).      *)
DeleteRows(p) ==
    /\ At(p, "deleteRows")
    /\ row' = [v \in Versions |-> IF v \in Matching(proc[p].ver) THEN None
                                                               ELSE row[v]]
    /\ IF proc[p].sel # {} THEN Goto(p, [proc[p] EXCEPT !.pc = "unlink"])
                           ELSE Finish(p)
    /\ UNCHANGED <<bucketAlive, upload, files, drawn>>

(* storage.delete ignores that a removal failed. *)
FileRemoved(v) ==
    file' \in {[file EXCEPT ![v] = None]}
                \cup (IF "fail" \in Faults THEN {file} ELSE {})

Unlink(r) ==
    /\ At(r, "unlink")
    /\ \E v \in proc[r].sel :
        /\ FileRemoved(v)
        /\ IF proc[r].sel = {v} THEN Finish(r)
                                ELSE Goto(r, [proc[r] EXCEPT !.sel = @ \ {v}])
    /\ UNCHANGED <<tables, partFile, drawn>>

(* Mutant: the foreign key of multipart_uploads does not cascade. *)
DropBucketOnly(r) ==
    /\ At(r, "dropBucket")
    /\ bucketAlive' = FALSE
    /\ row' = [v \in Versions |-> None]
    /\ Finish(r)
    /\ UNCHANGED <<upload, files, drawn>>

(* The bucket's row goes with everything that refers to it, empty or not. *)
DropBucket(r) ==
    /\ At(r, "dropBucket")
    /\ bucketAlive' = FALSE
    /\ row' = [v \in Versions |-> None]
    /\ upload' = [u \in Uploads |-> None]
    /\ Finish(r)
    /\ UNCHANGED <<files, drawn>>

-----------------------------------------------------------------------------
(* initiate and upload_part *)

InsertUpload(r) ==
    /\ At(r, "insertUpload")
    /\ upload' = IF bucketAlive
                 THEN [upload EXCEPT ![proc[r].up] =
                         [parts |-> NoParts, stale |-> FALSE]]
                 ELSE upload
    /\ Finish(r)
    /\ UNCHANGED <<bucketAlive, row, files, drawn>>

WritePart(r) ==
    /\ At(r, "writePart")
    /\ partFile' = [partFile EXCEPT ![<<proc[r].up, proc[r].part>>] = proc[r].body]
    /\ Goto(r, [proc[r] EXCEPT !.pc = "readParts"])
    /\ UNCHANGED <<tables, file, drawn>>

(* upsert_part: read the parts column ... *)
ReadParts(r) ==
    LET u == proc[r].up IN
    /\ At(r, "readParts")
    /\ IF upload[u] = None
       THEN Finish(r)                                          \* NotFound
       ELSE Goto(r, [proc[r] EXCEPT !.pc = "updateParts",
                                    !.parts = upload[u].parts])
    /\ UNCHANGED <<tables, files, drawn>>

(* ... and write it back, with this part recorded. *)
UpdateParts(r) ==
    LET p == proc[r] IN
    /\ At(r, "updateParts")
    /\ upload' = IF upload[p.up] = None THEN upload
                 ELSE [upload EXCEPT ![p.up].parts =
                         [p.parts EXCEPT ![p.part] = p.body]]
    /\ Finish(r)
    /\ UNCHANGED <<bucketAlive, row, files, drawn>>

-----------------------------------------------------------------------------
(* complete: assemble_multipart, create, delete_multipart_upload *)

(* Mutant: the parts are taken by position, not by number. *)
NextPartByPosition(p) == <<p.up, Len(p.hashed) + 1>>

NextPart(p) == <<p.up, Nth(p.chosen, Len(p.hashed) + 1)>>

(* The next part's file is opened and copied to the temporary file ... *)
CopyPart(r) ==
    LET p == proc[r] IN
    /\ At(r, "copy")
    /\ Len(p.hashed) < Cardinality(p.chosen)
    /\ IF partFile[NextPart(p)] = None
       THEN Finish(r)
       ELSE Goto(r, [p EXCEPT !.pc = "rehash",
                              !.copied = Append(@, partFile[NextPart(p)])])
    /\ UNCHANGED <<tables, files, drawn>>

(* Mutant: the first part is read again each time. *)
RehashFirst(r) ==
    LET p == proc[r]
        f == partFile[<<p.up, Nth(p.chosen, 1)>>] IN
    /\ At(r, "rehash")
    /\ IF f = None THEN Finish(r)
                   ELSE Goto(r, [p EXCEPT !.pc = "copy", !.hashed = Append(@, f)])
    /\ UNCHANGED <<tables, files, drawn>>

(* ... and read again for the hash, whatever it holds by now. *)
RehashPart(r) ==
    LET p == proc[r] IN
    /\ At(r, "rehash")
    /\ IF partFile[NextPart(p)] = None
       THEN Finish(r)
       ELSE Goto(r, [p EXCEPT !.pc = "copy",
                              !.hashed = Append(@, partFile[NextPart(p)])])
    /\ UNCHANGED <<tables, files, drawn>>

(* All parts copied: the temporary file is renamed into place. *)
Assembled(r) ==
    LET p == proc[r] IN
    /\ At(r, "copy")
    /\ Len(p.hashed) = Cardinality(p.chosen)
    /\ file' = [file EXCEPT ![p.ver] = p.copied]
    /\ Goto(r, RemovingParts(p, p.up, p.chosen))
    /\ UNCHANGED <<tables, partFile, drawn>>

(* delete_parts, one await per file; it ignores that a removal failed. *)
RemovePart(p) ==
    LET n == Nth(proc[p].rest, 1) IN
    /\ At(p, "removeParts")
    /\ partFile' \in {[partFile EXCEPT ![<<proc[p].up, n>>] = None]}
                       \cup (IF "fail" \in Faults THEN {partFile} ELSE {})
    /\ Goto(p, RemovingParts(proc[p], proc[p].up, proc[p].rest \ {n}))
    /\ UNCHANGED <<tables, file, drawn>>

DeleteUpload(p) ==
    /\ At(p, "deleteUpload")
    /\ upload' = [upload EXCEPT ![proc[p].up] = None]
    /\ Finish(p)
    /\ UNCHANGED <<bucketAlive, row, files, drawn>>

-----------------------------------------------------------------------------
(* clean_expired_objects and clean_stale_uploads *)

FindExpired(c) ==
    /\ At(c, "idle")
    /\ \E batch \in SUBSET Expired :
        /\ batch # {}
        /\ \/ Cardinality(batch) = BatchSize
           \/ batch = Expired /\ Cardinality(batch) < BatchSize
        /\ Goto(c, [Idle EXCEPT !.pc = "nextExpired", !.expired = batch])
    /\ UNCHANGED <<tables, files, drawn>>

(* The next object: its file is removed first, its row in the next steps.  *)
NextExpired(c) ==
    /\ At(c, "nextExpired")
    /\ \E v \in proc[c].expired :
        /\ FileRemoved(v)
        /\ Goto(c, [proc[c] EXCEPT !.pc = "deleteRows", !.ver = v,
                                   !.expired = @ \ {v}])
    /\ UNCHANGED <<tables, partFile, drawn>>

FindStale(c) ==
    LET stale == {u \in Rows : upload[u].stale} IN
    /\ At(c, "idle")
    /\ stale # {}
    /\ Goto(c, [Idle EXCEPT !.pc = "nextStale",
                  !.stale = {<<u, Recorded(upload[u].parts)>> : u \in stale}])
    /\ UNCHANGED <<tables, files, drawn>>

NextStale(c) ==
    /\ At(c, "nextStale")
    /\ \E t \in proc[c].stale :
        Goto(c, RemovingParts([proc[c] EXCEPT !.stale = @ \ {t}], t[1], t[2]))
    /\ UNCHANGED <<tables, files, drawn>>

-----------------------------------------------------------------------------
(* The environment *)

(* An awaited call of a request fails and is passed on with ?, its client  *)
(* has gone and the handler's future is dropped at the await, or the       *)
(* process ends: for what holds in every state, a crash stops the requests *)
(* and cleanup runs of an instance one after the other.                    *)
Stop(p) ==
    /\ "stop" \in Faults
    /\ ~At(p, "idle")
    /\ Goto(p, Idle)
    /\ UNCHANGED <<tables, files, drawn>>

(* A statement of a cleanup run fails: .ok() goes on with the next. *)
StatementFails(c) ==
    /\ "fail" \in Faults
    /\ At(c, "deleteRows") \/ At(c, "deleteUpload")
    /\ Finish(c)
    /\ UNCHANGED <<tables, files, drawn>>

Expire(v) ==
    /\ v \in Stored
    /\ row[v].expiry = "pending"
    /\ row' = [row EXCEPT ![v].expiry = "past"]
    /\ UNCHANGED <<bucketAlive, upload, files, proc, drawn>>

(* An upload becomes older than stale_upload_max_age_secs. *)
Age(u) ==
    /\ u \in Rows
    /\ ~upload[u].stale
    /\ upload' = [upload EXCEPT ![u].stale = TRUE]
    /\ UNCHANGED <<bucketAlive, row, files, proc, drawn>>

-----------------------------------------------------------------------------
Init ==
    /\ bucketAlive = TRUE
    /\ row = [v \in Versions |-> None]
    /\ upload = [u \in Uploads |-> None]
    /\ file = [v \in Versions |-> None]
    /\ partFile = [f \in Uploads \X PartNumbers |-> None]
    /\ proc = [p \in Procs |-> Idle]
    /\ usedVersions = {}
    /\ usedUploads = {}
    /\ sentAs = [b \in Bodies |-> None]

RequestStep(r) ==
    \/ BeginPut(r) \/ BeginDelete(r) \/ BeginDropBucket(r) \/ BeginInitiate(r)
    \/ BeginPart(r) \/ BeginComplete(r) \/ BeginAbort(r)
    \/ PutWrite(r) \/ Insert(r) \/ SelectRows(r) \/ Unlink(r) \/ DropBucket(r)
    \/ InsertUpload(r) \/ WritePart(r) \/ ReadParts(r) \/ UpdateParts(r)
    \/ CopyPart(r) \/ RehashPart(r) \/ Assembled(r)

CleanerStep(c) ==
    \/ FindExpired(c) \/ NextExpired(c) \/ FindStale(c) \/ NextStale(c)
    \/ StatementFails(c)

(* The steps requests and cleanup runs share. *)
SharedStep(p) ==
    DeleteRows(p) \/ RemovePart(p) \/ DeleteUpload(p) \/ Stop(p)

Next ==
    \/ \E r \in Requests : RequestStep(r)
    \/ \E c \in Cleaners : CleanerStep(c)
    \/ \E p \in Procs : SharedStep(p)
    \/ \E v \in Versions : Expire(v)
    \/ \E u \in Uploads : Age(u)

Spec == Init /\ [][Next]_vars

-----------------------------------------------------------------------------
(* Properties *)

Live == {v \in Stored : row[v].expiry # "past"}

(* An object that has not expired can be read: its file exists, although   *)
(* cleanup runs remove files before rows and work from an old list, and    *)
(* whatever request is abandoned half-way (ObjectService, CleanupService). *)
ServableHasFile == \A v \in Live : file[v] # None

(* Nothing of a deleted bucket comes back: no late put, complete or        *)
(* initiate that looked the bucket or the upload up before leaves a row    *)
(* (foreign keys of run_migrations).                                       *)
NothingWithoutBucket == ~bucketAlive => Stored = {} /\ Rows = {}

(* An assembled object consists of one body for each part it was to have,  *)
(* in order, each sent as that part of that upload, whatever is sent again,*)
(* completed twice, aborted or cleaned up meanwhile                        *)
(* (FsStorageBackend::assemble_multipart).                                 *)
ObjectsAreWhole ==
    \A v \in Stored : (row[v].up # None /\ file[v] # None) =>
        /\ Len(file[v]) = Cardinality(row[v].chosen)
        /\ \A i \in DOMAIN file[v] :
             sentAs[file[v][i]] = <<row[v].up, Nth(row[v].chosen, i)>>

SentOnce(u, n) ==
    \E b \in Bodies : {c \in Bodies : sentAs[c] = <<u, n>>} = {b}

(* When no part of it was sent twice, an object's etag is the MD5 of its   *)
(* file and its size the file's size, although the etag is computed in a   *)
(* second reading and the size from the upload's record                    *)
(* (MultipartService::complete).                                           *)
EtagOfPartsSentOnce ==
    \A v \in Stored :
        (/\ file[v] # None
         /\ \A n \in row[v].chosen : SentOnce(row[v].up, n))
            => row[v].hash = file[v] /\ row[v].sized = file[v]

(* An object's etag is the MD5 of its file. *)
EtagOfFile ==
    \A v \in Stored : file[v] # None => row[v].hash = file[v]
=============================================================================
