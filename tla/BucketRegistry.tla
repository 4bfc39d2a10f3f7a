---------------------------- MODULE BucketRegistry ----------------------------
(***************************************************************************)
(* The buckets of loony-s3-js as their clients see them: BucketService and *)
(* the two bucket repositories, with the puts that race them, and what     *)
(* each request is answered.  ObjectStore models what happens to rows and  *)
(* files; this module adds owners, settings and answers.                   *)
(*                                                                         *)
(*   - With Postgres every query is awaited and anyone may run in between. *)
(*     With SQLite the promises a bucket handler awaits are resolved, so   *)
(*     that the handler runs to its end in one turn of the event loop      *)
(*     (requests that arrive in turns of their own: no pipelining).  A put *)
(*     awaits the transfer of its body on both.                            *)
(*   - Of the settings, versioning stands for metadata too: both are       *)
(*     written back alike.  public-read differs from private only in reads.*)
(***************************************************************************)
EXTENDS Integers, FiniteSets

CONSTANTS
    Names,       \* bucket names
    BucketIds,   \* uuids of bucket rows (bounds how many creations start)
    Objects,     \* uuids of object rows (bounds how many puts start)
    Users,       \* authenticated clients
    Requests,    \* concurrent HTTP requests
    Drivers,     \* the values of DB_DRIVER to consider
    None,        \* no value
    Free         \* nobody holds the event loop

ASSUME DriversAssumption == Drivers \subseteq {"sqlite", "postgres"}

Acls == {"private", "public-read-write"}
Settings == [acl : Acls, versioning : BOOLEAN]

(* The body of PATCH /buckets/:name: fields that are absent are None. *)
Updates == [acl : Acls \cup {None}, versioning : BOOLEAN \cup {None}]
NoUpdates == [acl |-> None, versioning |-> None]

Bucket == [name : Names, owner : Users, settings : Settings]
Object == [bucket : BucketIds, author : Users]

Ops == {"create", "update", "delete", "forceDelete", "put"}

(* done: 2xx.  refused: an AppError, 4xx.  internalError: any other error, *)
(* 500.  emptyBody: 200 without the bucket it should carry.                *)
Answers == {"done", "refused", "internalError", "emptyBody"}

ASSUME SentinelAssumption ==
    /\ None \notin BucketIds \cup Objects \cup Users \cup Names \cup BOOLEAN
    /\ None \notin Bucket \cup Object \cup Acls \cup Ops \cup Answers
    /\ Free \notin Requests

VARIABLES
    driver,      \* config.database.driver, fixed while the server runs
    row,         \* buckets table: id -> its row, or None
    object,      \* objects table: id -> its row, or None
    proc,        \* the handler of every request, or its last answer
    loop,        \* whose turn of the event loop it is
    drawn,       \* uuids already given to a bucket or an object
    asked,       \* history: the last value asked for each setting
    opened       \* history: buckets that were public-read-write at some time

vars == <<driver, row, object, proc, loop, drawn, asked, opened>>

PC == {"idle", "findByName", "readExisting", "update", "readBack", "count",
       "delete", "existsByName", "insert", "write"}

Proc == [pc : PC, op : Ops \cup {None}, user : Users \cup {None},
         name : Names \cup {None}, id : BucketIds \cup {None},
         object : Objects \cup {None}, updates : Updates,
         existing : Settings \cup {None}, answer : Answers \cup {None}]

Idle == [pc |-> "idle", op |-> None, user |-> None, name |-> None,
         id |-> None, object |-> None, updates |-> NoUpdates,
         existing |-> None, answer |-> None]

TypeOK ==
    /\ driver \in Drivers
    /\ row \in [BucketIds -> Bucket \cup {None}]
    /\ object \in [Objects -> Object \cup {None}]
    /\ proc \in [Requests -> Proc]
    /\ loop \in Requests \cup {Free}
    /\ drawn \subseteq BucketIds \cup Objects
    /\ asked \in [BucketIds -> Settings \cup {None}]
    /\ opened \subseteq BucketIds

Live == {b \in BucketIds : row[b] # None}

Named(n) == {b \in Live : row[b].name = n}

ObjectsOf(b) == {o \in Objects : object[o] # None /\ object[o].bucket = b}

IsOpen(settings) == settings.acl = "public-read-write"

-----------------------------------------------------------------------------
(* Control *)

At(r, pc) == proc[r].pc = pc /\ loop \in {Free, r}

Goto(r, local) == proc' = [proc EXCEPT ![r] = local]

(* Mutant: the handlers await something that is not resolved. *)
AwaitQueryTurning(r) == loop' = Free

(* await of a repository method. *)
AwaitQuery(r) == loop' = IF driver = "sqlite" THEN r ELSE Free

(* await of file operations. *)
AwaitFiles == loop' = Free

Answer(r, a) ==
    /\ Goto(r, [Idle EXCEPT !.answer = a])
    /\ loop' = Free

-----------------------------------------------------------------------------
(* Requests arrive, authenticated and valid. *)

Start(op, u, n) ==
    [Idle EXCEPT !.pc = IF op = "create" THEN "existsByName" ELSE "findByName",
                 !.op = op, !.user = u, !.name = n]

ArriveCreate(r) ==
    /\ At(r, "idle")
    /\ \E u \in Users, n \in Names, b \in BucketIds \ drawn, s \in Settings :
        /\ Goto(r, [Start("create", u, n) EXCEPT !.id = b, !.existing = s])
        /\ drawn' = drawn \cup {b}
    /\ UNCHANGED <<driver, row, object, loop, asked, opened>>

ArriveUpdate(r) ==
    /\ At(r, "idle")
    /\ \E u \in Users, n \in Names, x \in Updates :
        Goto(r, [Start("update", u, n) EXCEPT !.updates = x])
    /\ UNCHANGED <<driver, row, object, loop, drawn, asked, opened>>

ArriveDelete(r) ==
    /\ At(r, "idle")
    /\ \E op \in {"delete", "forceDelete"}, u \in Users, n \in Names :
        Goto(r, Start(op, u, n))
    /\ UNCHANGED <<driver, row, object, loop, drawn, asked, opened>>

ArrivePut(r) ==
    /\ At(r, "idle")
    /\ \E u \in Users, n \in Names, o \in Objects \ drawn :
        /\ Goto(r, [Start("put", u, n) EXCEPT !.object = o])
        /\ drawn' = drawn \cup {o}
    /\ UNCHANGED <<driver, row, object, loop, asked, opened>>

(* assertOwner, or assertWriteAccess for a put. *)
Allowed(p, b) ==
    \/ row[b].owner = p.user
    \/ p.op = "put" /\ IsOpen(row[b].settings)

(* bucketRepo.findByName and the access check on what it returned. *)
FindByName(r) ==
    LET p == proc[r] IN
    /\ At(r, "findByName")
    /\ \/ Named(p.name) = {} /\ Answer(r, "refused")      \* BUCKET_NOT_FOUND
       \/ \E b \in Named(p.name) :
            \/ ~Allowed(p, b) /\ Answer(r, "refused")      \* ACCESS_DENIED
            \/ /\ Allowed(p, b)
               /\ Goto(r, [p EXCEPT !.id = b,
                            !.pc = CASE p.op = "update" -> "readExisting"
                                     [] p.op = "put" -> "write"
                                     [] OTHER -> "count"])
               /\ IF p.op = "put" THEN AwaitFiles ELSE AwaitQuery(r)
    /\ UNCHANGED <<driver, row, object, drawn, asked, opened>>

-----------------------------------------------------------------------------
(* createBucket *)

(* Mutant: only the names of one's own buckets are taken. *)
CreateExistsForOwner(r) ==
    /\ At(r, "existsByName")
    /\ IF \E b \in Named(proc[r].name) : row[b].owner = proc[r].user
       THEN Answer(r, "refused")
       ELSE Goto(r, [proc[r] EXCEPT !.pc = "insert"]) /\ AwaitQuery(r)
    /\ UNCHANGED <<driver, row, object, drawn, asked, opened>>

CreateExists(r) ==
    /\ At(r, "existsByName")
    /\ IF Named(proc[r].name) # {}
       THEN Answer(r, "refused")                 \* BUCKET_ALREADY_EXISTS
       ELSE Goto(r, [proc[r] EXCEPT !.pc = "insert"]) /\ AwaitQuery(r)
    /\ UNCHANGED <<driver, row, object, drawn, asked, opened>>

Opened(b, settings) == IF IsOpen(settings) THEN opened \cup {b} ELSE opened

(* What UNIQUE(name) rejects. *)
Taken(name) == Named(name) # {}

(* A name taken meanwhile violates UNIQUE(name); the error handler knows   *)
(* nothing of the driver's error and answers 500.                          *)
CreateInsert(r) ==
    LET p == proc[r] IN
    /\ At(r, "insert")
    /\ IF Taken(p.name)
       THEN Answer(r, "internalError") /\ UNCHANGED <<row, asked, opened>>
       ELSE /\ row' = [row EXCEPT ![p.id] = [name |-> p.name, owner |-> p.user,
                                             settings |-> p.existing]]
            /\ asked' = [asked EXCEPT ![p.id] = p.existing]
            /\ opened' = Opened(p.id, p.existing)
            /\ Answer(r, "done")
    /\ UNCHANGED <<driver, object, drawn>>

-----------------------------------------------------------------------------
(* updateBucket: repo.update reads the row, writes all settings back and   *)
(* reads the row again.                                                    *)

UpdateRead(r) ==
    LET p == proc[r] IN
    /\ At(r, "readExisting")
    /\ IF p.id \in Live
       THEN /\ Goto(r, [p EXCEPT !.pc = "update",
                                 !.existing = row[p.id].settings])
            /\ AwaitQuery(r)
       ELSE Answer(r, "refused")                  \* BUCKET_NOT_FOUND
    /\ UNCHANGED <<driver, row, object, drawn, asked, opened>>

(* updates.x ?? existing.x *)
Merged(settings, updates) ==
    [f \in {"acl", "versioning"} |->
        IF updates[f] = None THEN settings[f] ELSE updates[f]]

UpdateWrite(r) ==
    LET p == proc[r]
        new == Merged(p.existing, p.updates) IN
    /\ At(r, "update")
    /\ IF p.id \in Live
       THEN /\ row' = [row EXCEPT ![p.id].settings = new]
            /\ asked' = [asked EXCEPT ![p.id] = Merged(@, p.updates)]
            /\ opened' = Opened(p.id, new)
       ELSE UNCHANGED <<row, asked, opened>>      \* no row matches the WHERE
    /\ Goto(r, [p EXCEPT !.pc = "readBack", !.updates = NoUpdates,
                         !.existing = None])
    /\ AwaitQuery(r)
    /\ UNCHANGED <<driver, object, drawn>>

(* (await this.findById(id))! *)
UpdateReadBack(r) ==
    /\ At(r, "readBack")
    /\ Answer(r, IF proc[r].id \in Live THEN "done" ELSE "emptyBody")
    /\ UNCHANGED <<driver, row, object, drawn, asked, opened>>

-----------------------------------------------------------------------------
(* deleteBucket *)

DeleteCount(r) ==
    LET p == proc[r] IN
    /\ At(r, "count")
    /\ IF p.op = "delete" /\ ObjectsOf(p.id) # {}
       THEN Answer(r, "refused")                  \* BUCKET_NOT_EMPTY
       ELSE Goto(r, [p EXCEPT !.pc = "delete"]) /\ AwaitQuery(r)
    /\ UNCHANGED <<driver, row, object, drawn, asked, opened>>

(* Mutant: the bucket is deleted by its name. *)
DoomedByName(p) == Named(p.name)

(* WHERE id = ? *)
Doomed(p) == {p.id} \cap Live

DeleteRow(r) ==
    LET gone == Doomed(proc[r]) IN
    /\ At(r, "delete")
    /\ row' = [b \in BucketIds |-> IF b \in gone THEN None ELSE row[b]]
    /\ object' = [o \in Objects |->                       \* ON DELETE CASCADE
                    IF \E b \in gone : o \in ObjectsOf(b) THEN None
                    ELSE object[o]]
    /\ Answer(r, "done")
    /\ UNCHANGED <<driver, drawn, asked, opened>>

-----------------------------------------------------------------------------
(* putObject, once the body has arrived. *)

(* Mutant: the bucket is looked up by name again. *)
PutTargetByName(p) == Named(p.name)

(* The bucket_id of the INSERT: the foreign key fails for a deleted one. *)
PutTarget(p) == {p.id} \cap Live

PutInsert(r) ==
    LET p == proc[r] IN
    /\ At(r, "write")
    /\ \/ PutTarget(p) = {} /\ Answer(r, "internalError") /\ UNCHANGED object
       \/ \E b \in PutTarget(p) :
            /\ object' = [object EXCEPT ![p.object] = [bucket |-> b,
                                                       author |-> p.user]]
            /\ Answer(r, "done")
    /\ UNCHANGED <<driver, row, drawn, asked, opened>>

-----------------------------------------------------------------------------
Init ==
    /\ driver \in Drivers
    /\ row = [b \in BucketIds |-> None]
    /\ object = [o \in Objects |-> None]
    /\ proc = [r \in Requests |-> Idle]
    /\ loop = Free
    /\ drawn = {}
    /\ asked = [b \in BucketIds |-> None]
    /\ opened = {}

Next ==
    \E r \in Requests :
        \/ ArriveCreate(r) \/ ArriveUpdate(r) \/ ArriveDelete(r) \/ ArrivePut(r)
        \/ FindByName(r)
        \/ CreateExists(r) \/ CreateInsert(r)
        \/ UpdateRead(r) \/ UpdateWrite(r) \/ UpdateReadBack(r)
        \/ DeleteCount(r) \/ DeleteRow(r)
        \/ PutInsert(r)

Spec == Init /\ [][Next]_vars

-----------------------------------------------------------------------------
(* Properties *)

(* A bucket is changed or deleted only by a request of its owner, also     *)
(* when the name changed hands between the access check and the statement  *)
(* (BucketService.updateBucket, deleteBucket).                             *)
OnlyOwnersChange ==
    [][\A b \in Live : \A r \in Requests :
        (row'[b] # row[b] /\ proc'[r] # proc[r])
            => proc[r].user = row[b].owner]_vars

(* An object of somebody who does not own its bucket is in a bucket that   *)
(* was open to writing at some time: not in a private one that took its    *)
(* name over during the transfer (ObjectService.putObject,                 *)
(* assertWriteAccess).                                                     *)
StrangersNeedOpenBucket ==
    \A o \in Objects : object[o] # None =>
        /\ object[o].bucket \in Live
        /\ \/ object[o].author = row[object[o].bucket].owner
           \/ object[o].bucket \in opened

(* With SQLite a deletion without force removes no object: none is put     *)
(* between the count and the DELETE (BucketService.deleteBucket).          *)
PlainDeletionSparesObjects ==
    [][\A r \in Requests :
        (driver = "sqlite" /\ proc[r].op = "delete" /\ proc'[r] # proc[r])
            => \A o \in Objects : object[o] # None => object'[o] # None]_vars

(* With SQLite every setting of a bucket has the value last asked for it:  *)
(* an update writes back no value that another update has replaced         *)
(* (BucketRepository.update).                                              *)
SettingsAsAsked ==
    driver = "sqlite" => \A b \in Live : row[b].settings = asked[b]

(* With SQLite a creation that loses a race is told of the conflict, and   *)
(* an update that is answered carries the bucket (createBucket, update).   *)
AnswersFit ==
    [][\A r \in Requests :
        (driver = "sqlite" /\ proc'[r] # proc[r])
            => /\ proc'[r].answer # "emptyBody"
               /\ proc[r].op = "create" => proc'[r].answer # "internalError"]_vars
=============================================================================
