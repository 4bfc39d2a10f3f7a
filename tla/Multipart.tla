------------------------------ MODULE Multipart ------------------------------
(***************************************************************************)
(* Multipart uploads of loony-s3-js: MultipartUploadService and the stale  *)
(* upload cleaner, over the multipart_uploads table, the part files under  *)
(* __tmp/{uploadId} and the assembled object files.                        *)
(*                                                                         *)
(*   - All uploads go to one bucket, which may be deleted meanwhile.       *)
(*   - A content stands for the body of one part request: its bytes, its   *)
(*     size and its etag.  Small contents are below minPartSizeBytes.      *)
(*   - A version stands for what completeUpload names with one uuid: the   *)
(*     object's row and its file.  Which version is the latest is the      *)
(*     subject of ObjectStore and left out here.                           *)
(*   - Ownership checks, the range check on part numbers and metadata      *)
(*     change no state and are left out.                                   *)
(***************************************************************************)
EXTENDS Integers, FiniteSets, Sequences

CONSTANTS
    Uploads,     \* upload ids (bounds how many uploads are initiated)
    MaxParts,    \* config.upload.maxParts
    MaxList,     \* bound: part numbers in the body of one complete request
    Contents,    \* bodies of part requests (bounds how many are sent)
    Small,       \* the contents below the minimum part size
    Versions,    \* uuids of objects (bounds how many completes are sent)
    Requests,    \* concurrent HTTP requests
    Cleaners,    \* overlapping runs of the stale upload timer
    Backend,     \* "sqlite" or "postgres"
    Faults,      \* subset of {"crash", "io", "drop"}
    None,        \* no value
    Free         \* nobody holds the event loop

PartNumbers == 1..MaxParts
Procs == Requests \cup Cleaners

ASSUME ConstantsAssumption ==
    /\ MaxParts \in Nat \ {0}
    /\ MaxList \in Nat \ {0}
    /\ Small \subseteq Contents
    /\ Backend \in {"sqlite", "postgres"}
    /\ Faults \subseteq {"crash", "io", "drop"}
    /\ Requests \cap Cleaners = {}

(* The parts column: what was recorded for each part number. *)
Parts == [PartNumbers -> Contents \cup {None}]
NoParts == [n \in PartNumbers |-> None]

(* The part numbers of a complete request, which the code sorts: every     *)
(* non-empty list up to the bound, with repetitions.                       *)
Lists ==
    {l \in UNION {[1..len -> PartNumbers] : len \in 1..MaxList} :
        \A i, j \in DOMAIN l : i < j => l[i] <= l[j]}

Ops == {"initiate", "uploadPart", "complete", "abort"}

UploadRow == [parts : Parts, stale : BOOLEAN]
ObjectRow == [upload : Uploads, list : Lists]

ASSUME SentinelAssumption ==
    /\ None \notin Contents \cup Uploads \cup Versions \cup Ops
    /\ None \notin UploadRow \cup ObjectRow \cup (Uploads \X PartNumbers)
    /\ None \notin Seq(Contents)
    /\ Free \notin Procs

VARIABLES
    bucketAlive,  \* the bucket's row exists
    upload,       \* multipart_uploads: upload -> its row, or None
    object,       \* objects: version -> its row, or None
    partFile,     \* files __tmp/{upload}/{number}: their content, or None
    file,         \* object files: the contents written to them, or None
    proc,         \* the local state of every request and cleaner run
    loop,         \* who is between two statements of a synchronous method
    usedUploads, usedVersions,   \* ids already drawn
    sentAs,       \* history: the upload and part number a content was sent as
    acked,        \* history: the part upload last acknowledged
    interrupted   \* history: uploads whose removal a dying process left undone

tables == <<bucketAlive, upload, object>>
files == <<partFile, file>>
drawn == <<usedUploads, usedVersions, sentAs>>
history == <<acked, interrupted>>
vars == <<tables, files, proc, loop, drawn, history>>

Listed(l) == {l[i] : i \in DOMAIN l}
Recorded(parts) == {n \in PartNumbers : parts[n] # None}

PC == {"idle", "findBucket", "insertUpload", "findUpload", "write",
       "readParts", "updateParts", "checkParts", "assemble", "insertObject",
       "removeParts", "deleteUpload", "batch"}

Proc == [pc : PC, op : Ops \cup {None}, up : Uploads \cup {None},
         part : PartNumbers \cup {0}, body : Contents \cup {None},
         list : Lists \cup {<<>>}, parts : Parts,
         ver : Versions \cup {None}, todo : SUBSET (Uploads \X Parts)]

Idle == [pc |-> "idle", op |-> None, up |-> None, part |-> 0, body |-> None,
         list |-> <<>>, parts |-> NoParts, ver |-> None,
         todo |-> {}]

TypeOK ==
    /\ bucketAlive \in BOOLEAN
    /\ upload \in [Uploads -> UploadRow \cup {None}]
    /\ object \in [Versions -> ObjectRow \cup {None}]
    /\ partFile \in [Uploads \X PartNumbers -> Contents \cup {None}]
    /\ \A v \in Versions : file[v] # None => file[v] \in Seq(Contents)
    /\ proc \in [Procs -> Proc]
    /\ loop \in Procs \cup {Free}
    /\ usedUploads \subseteq Uploads
    /\ usedVersions \subseteq Versions
    /\ sentAs \in [Contents -> (Uploads \X PartNumbers) \cup {None}]
    /\ acked \in [Uploads -> Parts]
    /\ interrupted \subseteq Uploads

Rows == {u \in Uploads : upload[u] # None}
Objects == {v \in Versions : object[v] # None}

-----------------------------------------------------------------------------
(* Control, as in ObjectStore: a SQLite repository method keeps the event  *)
(* loop, with Postgres every query is awaited.                             *)

At(p, pc) == proc[p].pc = pc /\ loop \in {Free, p}

(* Mutant: the two statements of upsertPart are awaited one by one. *)
KeepLoopNever(p) == loop' = Free

KeepLoop(p) == loop' = IF Backend = "sqlite" THEN p ELSE Free

YieldLoop == loop' = Free

Goto(p, local) == proc' = [proc EXCEPT ![p] = local]

(* A request has been answered; a cleaner goes on with its list. *)
Finish(p) ==
    Goto(p, IF p \in Requests THEN Idle
            ELSE [Idle EXCEPT !.pc = "batch", !.todo = proc[p].todo])

-----------------------------------------------------------------------------
(* Requests arrive.  Ids are drawn here, as in ObjectStore. *)

ArriveInitiate(r) ==
    /\ At(r, "idle")
    /\ \E u \in Uploads \ usedUploads :
        /\ Goto(r, [Idle EXCEPT !.pc = "findBucket", !.op = "initiate",
                                !.up = u])
        /\ usedUploads' = usedUploads \cup {u}
    /\ UNCHANGED <<tables, files, loop, usedVersions, sentAs, history>>

ArrivePart(r) ==
    /\ At(r, "idle")
    /\ \E u \in usedUploads, n \in PartNumbers,
          c \in {c \in Contents : sentAs[c] = None} :
        /\ Goto(r, [Idle EXCEPT !.pc = "findUpload", !.op = "uploadPart",
                                !.up = u, !.part = n, !.body = c])
        /\ sentAs' = [sentAs EXCEPT ![c] = <<u, n>>]
    /\ UNCHANGED <<tables, files, loop, usedUploads, usedVersions, history>>

ArriveComplete(r) ==
    /\ At(r, "idle")
    /\ \E u \in usedUploads, l \in Lists, v \in Versions \ usedVersions :
        /\ Goto(r, [Idle EXCEPT !.pc = "findUpload", !.op = "complete",
                                !.up = u, !.list = l, !.ver = v])
        /\ usedVersions' = usedVersions \cup {v}
    /\ UNCHANGED <<tables, files, loop, usedUploads, sentAs, history>>

ArriveAbort(r) ==
    /\ At(r, "idle")
    /\ \E u \in usedUploads :
        Goto(r, [Idle EXCEPT !.pc = "findUpload", !.op = "abort", !.up = u])
    /\ UNCHANGED <<tables, files, loop, drawn, history>>

-----------------------------------------------------------------------------
(* initiateUpload *)

InitiateFindBucket(r) ==
    /\ At(r, "findBucket")
    /\ IF bucketAlive THEN Goto(r, [proc[r] EXCEPT !.pc = "insertUpload"])
                      ELSE Finish(r)                    \* BUCKET_NOT_FOUND
    /\ UNCHANGED <<tables, files, loop, drawn, history>>

NewUpload == [parts |-> NoParts, stale |-> FALSE]

(* createMultipartUpload; the foreign key rejects a deleted bucket. *)
InitiateInsert(r) ==
    /\ At(r, "insertUpload")
    /\ upload' = IF bucketAlive
                 THEN [upload EXCEPT ![proc[r].up] = NewUpload]
                 ELSE upload
    /\ Finish(r)
    /\ UNCHANGED <<bucketAlive, object, files, loop, drawn, history>>

-----------------------------------------------------------------------------
(* findMultipartUpload, where the other three operations begin: the parts  *)
(* they read here are the parts they work on.                              *)

AfterFindUpload ==
    [uploadPart |-> "write", complete |-> "checkParts", abort |-> "removeParts"]

FindUpload(r) ==
    LET u == proc[r].up IN
    /\ At(r, "findUpload")
    /\ IF upload[u] = None
       THEN Finish(r)                                   \* UPLOAD_NOT_FOUND
       ELSE Goto(r, [proc[r] EXCEPT !.pc = AfterFindUpload[proc[r].op],
                                    !.parts = upload[u].parts])
    /\ UNCHANGED <<tables, files, loop, drawn, history>>

-----------------------------------------------------------------------------
(* uploadPart: write the part's file, then record it (upsertPart). *)

WritePart(r) ==
    /\ At(r, "write")
    /\ partFile' = [partFile EXCEPT ![<<proc[r].up, proc[r].part>>] =
                      proc[r].body]
    /\ Goto(r, [proc[r] EXCEPT !.pc = "readParts"])
    /\ UNCHANGED <<tables, file, loop, drawn, history>>

(* The stream broke or had the wrong length: nothing is renamed. *)
WritePartFails(r) ==
    /\ "io" \in Faults
    /\ At(r, "write")
    /\ Finish(r)
    /\ UNCHANGED <<tables, files, loop, drawn, history>>

(* upsertPart, first statement: read the parts column again. *)
ReadParts(r) ==
    LET u == proc[r].up IN
    /\ At(r, "readParts")
    /\ IF upload[u] = None
       THEN Finish(r) /\ YieldLoop                      \* UPLOAD_NOT_FOUND
       ELSE /\ Goto(r, [proc[r] EXCEPT !.pc = "updateParts",
                                       !.parts = upload[u].parts])
            /\ KeepLoop(r)
    /\ UNCHANGED <<tables, files, drawn, history>>

(* upsertPart, second statement: write the whole column back.  The update  *)
(* of a row that has gone changes nothing and is acknowledged all the same.*)
UpdateParts(r) ==
    LET p == proc[r] IN
    /\ At(r, "updateParts")
    /\ upload' = IF upload[p.up] = None THEN upload
                 ELSE [upload EXCEPT ![p.up].parts =
                         [p.parts EXCEPT ![p.part] = p.body]]
    /\ acked' = [acked EXCEPT ![p.up][p.part] = p.body]
    /\ Finish(r)
    /\ YieldLoop
    /\ UNCHANGED <<bucketAlive, object, files, drawn, interrupted>>

-----------------------------------------------------------------------------
(* completeUpload *)

Undersized(l, parts) ==
    \E i \in DOMAIN l : i < Len(l) /\ parts[l[i]] \in Small

(* bucketRepo.findById, the checks on the listed parts against the parts   *)
(* read before, and the creation of the destination file.                  *)
CheckParts(r) ==
    LET p == proc[r] IN
    /\ At(r, "checkParts")
    /\ IF \/ ~bucketAlive                               \* BUCKET_NOT_FOUND
          \/ ~(Listed(p.list) \subseteq Recorded(p.parts))
          \/ Undersized(p.list, p.parts)
       THEN Finish(r) /\ UNCHANGED file
       ELSE /\ Goto(r, [p EXCEPT !.pc = "assemble"])
            /\ file' = [file EXCEPT ![p.ver] = <<>>]
    /\ UNCHANGED <<tables, partFile, loop, drawn, history>>

NextPart(r) == <<proc[r].up, proc[r].list[Len(file[proc[r].ver]) + 1]>>

(* Mutant: a part file that cannot be opened is skipped. *)
AssemblePartLenient(r) ==
    LET v == proc[r].ver IN
    /\ At(r, "assemble")
    /\ Len(file[v]) < Len(proc[r].list)
    /\ IF partFile[NextPart(r)] = None
       THEN Goto(r, [proc[r] EXCEPT !.pc = "insertObject"]) /\ UNCHANGED file
       ELSE /\ file' = [file EXCEPT ![v] = Append(@, partFile[NextPart(r)])]
            /\ UNCHANGED proc
    /\ UNCHANGED <<tables, partFile, loop, drawn, history>>

(* assembleMultipart opens the next part's file, whatever it holds by now, *)
(* and copies it to the destination.  A part that has gone fails the       *)
(* request and leaves what was written so far.                             *)
AssemblePart(r) ==
    LET v == proc[r].ver IN
    /\ At(r, "assemble")
    /\ Len(file[v]) < Len(proc[r].list)
    /\ IF partFile[NextPart(r)] = None
       THEN Finish(r) /\ UNCHANGED file
       ELSE /\ file' = [file EXCEPT ![v] = Append(@, partFile[NextPart(r)])]
            /\ UNCHANGED proc
    /\ UNCHANGED <<tables, partFile, loop, drawn, history>>

(* What is left of an upload's part files when removing ns stops at left. *)
Removed(u, ns, left) ==
    [f \in Uploads \X PartNumbers |->
        IF f[1] = u /\ f[2] \in ns \ left THEN None ELSE partFile[f]]

(* All parts copied: assembleMultipart removes the listed part files; a    *)
(* removal that fails fails the request.                                   *)
AssembleDone(r) ==
    LET p == proc[r] IN
    /\ At(r, "assemble")
    /\ Len(file[p.ver]) = Len(p.list)
    /\ \E left \in SUBSET Listed(p.list) :
        /\ left # {} => "io" \in Faults
        /\ partFile' = Removed(p.up, Listed(p.list), left)
        /\ IF left = {} THEN Goto(r, [p EXCEPT !.pc = "insertObject"])
                        ELSE Finish(r)
    /\ UNCHANGED <<tables, file, loop, drawn, history>>

(* objectRepo.create; the foreign key rejects a deleted bucket. *)
InsertObject(r) ==
    LET p == proc[r] IN
    /\ At(r, "insertObject")
    /\ IF bucketAlive
       THEN /\ object' = [object EXCEPT ![p.ver] =
                            [upload |-> p.up, list |-> p.list]]
            /\ Goto(r, [p EXCEPT !.pc = "deleteUpload"])
       ELSE Finish(r) /\ UNCHANGED object
    /\ UNCHANGED <<bucketAlive, upload, files, loop, drawn, history>>

-----------------------------------------------------------------------------
(* abortUpload and the stale upload cleaner: remove the part files that    *)
(* were recorded when the upload was read, then its row.                   *)

(* Mutant: the cleaner gives up on an upload whose part files stay. *)
RemovePartsStrict(p) ==
    LET ns == Recorded(proc[p].parts) IN
    /\ At(p, "removeParts")
    /\ \E left \in SUBSET ns :
        /\ left # {} => "io" \in Faults
        /\ partFile' = Removed(proc[p].up, ns, left)
        /\ IF left # {}
           THEN Finish(p)
           ELSE Goto(p, [proc[p] EXCEPT !.pc = "deleteUpload"])
    /\ UNCHANGED <<tables, file, loop, drawn, history>>

(* A failed removal ends an abort with an error; the cleaner logs it. *)
RemoveParts(p) ==
    LET ns == Recorded(proc[p].parts) IN
    /\ At(p, "removeParts")
    /\ \E left \in SUBSET ns :
        /\ left # {} => "io" \in Faults
        /\ partFile' = Removed(proc[p].up, ns, left)
        /\ IF left # {} /\ p \in Requests
           THEN Finish(p)
           ELSE Goto(p, [proc[p] EXCEPT !.pc = "deleteUpload"])
    /\ UNCHANGED <<tables, file, loop, drawn, history>>

(* Mutant: the row is left for the cleaner. *)
DeleteUploadLater(p) ==
    /\ At(p, "deleteUpload")
    /\ Finish(p)
    /\ UNCHANGED <<tables, files, loop, drawn, history>>

(* deleteMultipartUpload, the last step of complete, abort and cleaner. *)
DeleteUpload(p) ==
    /\ At(p, "deleteUpload")
    /\ upload' = [upload EXCEPT ![proc[p].up] = None]
    /\ Finish(p)
    /\ UNCHANGED <<bucketAlive, object, files, loop, drawn, history>>

(* findStaleMultipartUploads: all of them, with the parts they have now. *)
CleanFind(c) ==
    LET stale == {u \in Rows : upload[u].stale} IN
    /\ At(c, "idle")
    /\ stale # {}
    /\ Goto(c, [Idle EXCEPT !.pc = "batch",
                  !.todo = {<<u, upload[u].parts>> : u \in stale}])
    /\ UNCHANGED <<tables, files, loop, drawn, history>>

CleanNext(c) ==
    /\ At(c, "batch")
    /\ IF proc[c].todo = {}
       THEN Goto(c, Idle)
       ELSE \E t \in proc[c].todo :
              Goto(c, [proc[c] EXCEPT !.pc = "removeParts", !.todo = @ \ {t},
                                      !.up = t[1], !.parts = t[2]])
    /\ UNCHANGED <<tables, files, loop, drawn, history>>

-----------------------------------------------------------------------------
(* The environment *)

(* An upload becomes older than staleUploadMaxAgeMs. *)
Age(u) ==
    /\ u \in Rows
    /\ ~upload[u].stale
    /\ upload' = [upload EXCEPT ![u].stale = TRUE]
    /\ UNCHANGED <<bucketAlive, object, files, proc, loop, drawn, history>>

(* The bucket is deleted by force: the deletion cascades. *)
DropBucket ==
    /\ "drop" \in Faults
    /\ bucketAlive
    /\ loop = Free
    /\ bucketAlive' = FALSE
    /\ upload' = [u \in Uploads |-> None]
    /\ object' = [v \in Versions |-> None]
    /\ UNCHANGED <<files, proc, loop, drawn, history>>

(* Between the removal of an upload's part files and of its row. *)
Removing == {"insertObject", "deleteUpload"}

(* A server process dies and is started again, as in ObjectStore. *)
Crash ==
    /\ "crash" \in Faults
    /\ \E dead \in IF Backend = "sqlite" THEN {Procs} ELSE SUBSET Procs :
        /\ \E p \in dead : proc[p].pc # "idle"
        /\ proc' = [p \in Procs |-> IF p \in dead THEN Idle ELSE proc[p]]
        /\ interrupted' = interrupted \cup
             {proc[p].up : p \in {q \in dead : proc[q].pc \in Removing}}
    /\ loop' = Free
    /\ UNCHANGED <<tables, files, drawn, acked>>

-----------------------------------------------------------------------------
Init ==
    /\ bucketAlive = TRUE
    /\ upload = [u \in Uploads |-> None]
    /\ object = [v \in Versions |-> None]
    /\ partFile = [f \in Uploads \X PartNumbers |-> None]
    /\ file = [v \in Versions |-> None]
    /\ proc = [p \in Procs |-> Idle]
    /\ loop = Free
    /\ usedUploads = {}
    /\ usedVersions = {}
    /\ sentAs = [c \in Contents |-> None]
    /\ acked = [u \in Uploads |-> NoParts]
    /\ interrupted = {}

Arrive(r) ==
    \/ ArriveInitiate(r) \/ ArrivePart(r) \/ ArriveComplete(r) \/ ArriveAbort(r)

RequestStep(r) ==
    \/ InitiateFindBucket(r) \/ InitiateInsert(r)
    \/ FindUpload(r)
    \/ WritePart(r) \/ WritePartFails(r) \/ ReadParts(r) \/ UpdateParts(r)
    \/ CheckParts(r) \/ AssemblePart(r) \/ AssembleDone(r) \/ InsertObject(r)
    \/ RemoveParts(r) \/ DeleteUpload(r)

CleanerStep(c) ==
    CleanFind(c) \/ CleanNext(c) \/ RemoveParts(c) \/ DeleteUpload(c)

Next ==
    \/ \E r \in Requests : Arrive(r) \/ RequestStep(r)
    \/ \E c \in Cleaners : CleanerStep(c)
    \/ \E u \in Uploads : Age(u)
    \/ DropBucket
    \/ Crash

Spec == Init /\ [][Next]_vars

(* As in ObjectStore no continuation is passed over for ever, and time     *)
(* passes.                                                                 *)
Fairness ==
    /\ \A r \in Requests : SF_vars(RequestStep(r))
    /\ \A c \in Cleaners : SF_vars(CleanerStep(c))
    /\ \A u \in Uploads : WF_vars(Age(u))

FairSpec == Spec /\ Fairness

-----------------------------------------------------------------------------
(* Properties *)

(* The file of a completed object holds, for every listed part number and  *)
(* in ascending order, one whole body sent for that part of that upload,   *)
(* whatever parts were sent again, aborted or cleaned up meanwhile         *)
(* (completeUpload, assembleMultipart).                                    *)
ObjectsAreWhole ==
    \A v \in Objects :
        /\ file[v] # None
        /\ Len(file[v]) = Len(object[v].list)
        /\ \A i \in DOMAIN file[v] :
             sentAs[file[v][i]] = <<object[v].upload, object[v].list[i]>>

(* A part upload that was acknowledged is recorded as the current body of  *)
(* its part for as long as the upload exists, however many clients upload  *)
(* parts at the same time (upsertPart).                                    *)
AckedPartRecorded ==
    loop = Free => \A u \in Rows : upload[u].parts = acked[u]

(* Every part an upload records has its file, unless somebody is about to  *)
(* delete the upload or died when about to: an upload that nobody has      *)
(* finished can be completed, whatever else crashed (uploadPart,           *)
(* completeUpload, abortUpload, cleanStaleMultipartUploads).               *)
RecordedPartHasFile ==
    \A u \in Rows \ interrupted :
        \/ \A n \in Recorded(upload[u].parts) : partFile[<<u, n>>] # None
        \/ \E p \in Procs : proc[p].up = u /\ proc[p].pc \in Removing

(* Every upload is eventually completed, aborted or removed by the         *)
(* cleaner, even if its part files cannot be removed                       *)
(* (cleanStaleMultipartUploads).                                           *)
UploadsEventuallyRemoved ==
    \A u \in Uploads : upload[u] # None ~> upload[u] = None
=============================================================================
