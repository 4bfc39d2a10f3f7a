----------------------------- MODULE LocalStorage -----------------------------
(***************************************************************************)
(* The blob storage of loony-s3-js below the services: LocalStorageBackend *)
(* and NfsStorageBackend, with directories, temporary names, open files    *)
(* and chunks, and the streams of the handlers that use them.  The process *)
(* they live in is the subject of Lifecycle; Server composes the two.      *)
(*                                                                         *)
(*   - A directory entry <<p, 0>> is the file at path p, <<p, t>> is       *)
(*     p.tmp.t, t being the millisecond Date.now() returned.  Paths of     *)
(*     objects end in a uuid and are written once; part paths are written  *)
(*     whenever a part is sent again.                                      *)
(*   - Every upload has a body of its own, in Chunks pieces; the inode     *)
(*     that its open creates bears the body's name.                        *)
(*   - mkdirSync, rmSync, renameSync and pruneEmptyDirs run to their end   *)
(*     on the event loop; opens, writes and reads are awaited.             *)
(***************************************************************************)
EXTENDS Integers, FiniteSets

CONSTANTS
    Paths,       \* storage keys of objects and of parts
    PartPaths,   \* those of parts, __tmp/{uploadId}/{partNumber}
    DirOf,       \* the directory of each path
    MaxBodies,   \* bound: request bodies, one for each write that starts
    Chunks,      \* pieces in which a body arrives
    MaxMillis,   \* bound: values of Date.now()
    Streams,     \* handlers that use the storage
    Ops,         \* what they do
    Backends,    \* the values of STORAGE_BACKEND to consider
    IoErrors,    \* whether calls of the file system may fail
    None         \* no value

WriteOps == {"put", "form", "part", "assemble"}

ASSUME StorageAssumption ==
    /\ PartPaths \subseteq Paths
    /\ MaxBodies \in Nat
    /\ Chunks \in Nat \ {0}
    /\ MaxMillis \in Nat \ {0}
    /\ Ops \subseteq WriteOps \cup {"get", "delete", "deleteParts"}
    /\ Backends \subseteq {"local", "nfs"}
    /\ IoErrors \in BOOLEAN
    /\ None \notin Nat \cup Paths \cup WriteOps \cup {"get"}

Bodies == 1..MaxBodies
Entries == Paths \X (0..MaxMillis)
Positions == 1..Chunks
Bytes == [Positions -> Bodies \cup {None}]

VARIABLES
    backend,     \* config.storage.backend
    dirs,        \* directories that exist
    entry,       \* directory entries: the inode, or None
    content,     \* inode -> the bytes written to it
    stream,      \* the local state of every handler
    sent,        \* bodies sent so far
    used,        \* object paths drawn so far
    acked,       \* history: the body write() last returned for a path
    shared,      \* history: paths two writers chose one temporary name for
    left         \* history: temporary files that nobody will remove

storageVars == <<backend, dirs, entry, content, stream, sent, used, acked,
                 shared, left>>

(* late: the writer has failed, its open is still to take effect.          *)
(* broken: the headers of a download are sent, and no more will be.        *)
PC == {"idle", "open", "late", "copy", "fsync", "rename", "exists", "openRead",
       "send", "broken"}

Stream == [pc : PC, op : WriteOps \cup {"get", None}, path : Paths \cup {None},
           body : Bodies \cup {None}, ms : 0..MaxMillis,
           inode : Bodies \cup {None}, pos : 0..Chunks,
           got : SUBSET (Bodies \cup {None})]

Idle == [pc |-> "idle", op |-> None, path |-> None, body |-> None, ms |-> 0,
         inode |-> None, pos |-> 0, got |-> {}]

Empty == [i \in Positions |-> None]
Whole(c) == [i \in Positions |-> c]

StorageTypeOK ==
    /\ backend \in Backends
    /\ dirs \subseteq {DirOf[p] : p \in Paths}
    /\ entry \in [Entries -> Bodies \cup {None}]
    /\ content \in [Bodies -> Bytes]
    /\ stream \in [Streams -> Stream]
    /\ sent \in 0..MaxBodies
    /\ used \subseteq Paths \ PartPaths
    /\ acked \in [Paths -> Bodies \cup {None}]
    /\ shared \subseteq PartPaths
    /\ left \subseteq Entries

StorageInit ==
    /\ backend \in Backends
    /\ dirs = {}
    /\ entry = [e \in Entries |-> None]
    /\ content = [c \in Bodies |-> Empty]
    /\ stream = [s \in Streams |-> Idle]
    /\ sent = 0
    /\ used = {}
    /\ acked = [p \in Paths |-> None]
    /\ shared = {}
    /\ left = {}

Goto(s, local) == stream' = [stream EXCEPT ![s] = local]

(* The handler answers; the caller of a failed write() gets the error. *)
Done(s) == Goto(s, Idle)

At(s, pc) == stream[s].pc = pc

-----------------------------------------------------------------------------
(* write(): mkdirSync, a stream into dest.tmp.<now>, rename.  An assembly  *)
(* creates dest itself.                                                    *)

(* Mutant: the destination is written in place. *)
TargetInPlace(st) == <<st.path, 0>>

(* The name the stream writes to. *)
Target(st) == <<st.path, st.ms>>

(* The storage key of an object is a new uuid, that of a part is not. *)
Fresh(p) == p \notin used

BeginWrite(s) ==
    /\ At(s, "idle")
    /\ sent < MaxBodies
    /\ sent' = sent + 1
    /\ \E op \in WriteOps \cap Ops, p \in Paths, ms \in 0..MaxMillis :
        /\ op = "part" <=> p \in PartPaths
        /\ op = "assemble" <=> ms = 0
        /\ Fresh(p)
        /\ Goto(s, [Idle EXCEPT !.pc = "open", !.op = op, !.path = p,
                               !.body = sent', !.ms = ms])
        /\ used' = used \cup ({p} \ PartPaths)
        /\ dirs' = dirs \cup {DirOf[p]}
        /\ shared' = IF \E t \in Streams : /\ stream[t].path = p
                                           /\ stream[t].ms = ms /\ ms # 0
                     THEN shared \cup {p} ELSE shared
    /\ UNCHANGED <<backend, entry, content, acked, left>>

(* open(target, "w"), on another thread: a file of that name is truncated, *)
(* and the directory may have been pruned since mkdirSync.                 *)
OpenWrite(s) ==
    LET st == stream[s]
        e == Target(st)
        inode == IF entry[e] = None THEN st.body ELSE entry[e] IN
    /\ At(s, "open")
    /\ DirOf[st.path] \in dirs
    /\ Goto(s, [st EXCEPT !.pc = "copy", !.inode = inode])
    /\ entry' = [entry EXCEPT ![e] = inode]
    /\ content' = [content EXCEPT ![inode] = Empty]
    /\ UNCHANGED <<backend, dirs, sent, used, acked, shared, left>>

AfterCopy == IF backend = "nfs" THEN "fsync" ELSE "rename"

(* The next chunk, at the writer's own offset.  An assembly is done with   *)
(* its last one.                                                           *)
CopyChunk(s) ==
    LET st == stream[s]
        at == st.pos + 1 IN
    /\ At(s, "copy")
    /\ at \in Positions
    /\ content' = [content EXCEPT ![st.inode][at] = st.body]
    /\ IF at < Chunks
       THEN Goto(s, [st EXCEPT !.pos = at]) /\ UNCHANGED acked
       ELSE IF st.op = "assemble"
       THEN Done(s) /\ acked' = [acked EXCEPT ![st.path] = st.body]
       ELSE /\ Goto(s, [st EXCEPT !.pos = at,
                               !.pc = AfterCopy])
            /\ UNCHANGED acked
    /\ UNCHANGED <<backend, dirs, entry, sent, used, shared, left>>

(* What has been written is shorter than the Content-Length, which for a   *)
(* form counts more than its file.                                         *)
Mismatched(st) == st.op = "form" /\ st.pos = Chunks /\ st.pc = AfterCopy

(* Mutant: a write of the wrong size leaves its temporary file. *)
RemovedKept(st) == entry

Removed(st) == [entry EXCEPT ![Target(st)] = None]

(* rmSync(tmpPath, { force: true }), which may fail, on a file that is     *)
(* there: it then throws in place of the error that led to it.             *)
RemoveTemp(st) ==
    \/ /\ entry' = Removed(st)
       /\ left' = left \ {Target(st)}
    \/ /\ IoErrors /\ entry[Target(st)] # None
       /\ left' = left \cup {Target(st)}
       /\ UNCHANGED entry

WriteFails(s) ==
    /\ stream[s].op # "assemble"
    /\ RemoveTemp(stream[s])
    /\ Done(s)
    /\ UNCHANGED <<backend, dirs, content, sent, used, acked, shared>>

(* The stream's open fails: the directory has been pruned, or the disk.    *)
OpenFails(s) ==
    /\ At(s, "open")
    /\ DirOf[stream[s].path] \notin dirs \/ IoErrors
    /\ WriteFails(s)

SizeMismatch(s) == Mismatched(stream[s]) /\ WriteFails(s)

(* The request's stream breaks off.  That of a form does not: busboy hears *)
(* nothing of it and the handler waits for ever.                           *)
SourceBreaks(s) ==
    /\ At(s, "copy")
    /\ stream[s].op \in {"put", "part"}
    /\ WriteFails(s)

(* It breaks off before the file is open: rmSync comes before the open.    *)
SourceBreaksEarly(s) ==
    /\ At(s, "open")
    /\ stream[s].op \in {"put", "part"}
    /\ RemoveTemp(stream[s])
    /\ Goto(s, [stream[s] EXCEPT !.pc = "late"])
    /\ UNCHANGED <<backend, dirs, content, sent, used, acked, shared>>

(* The open of a stream that has been destroyed. *)
OpenLate(s) ==
    LET st == stream[s]
        e == Target(st) IN
    /\ At(s, "late")
    /\ \/ /\ DirOf[st.path] \in dirs /\ entry[e] = None
          /\ entry' = [entry EXCEPT ![e] = st.body]
          /\ left' = left \cup {e}
          /\ UNCHANGED content
       \/ /\ DirOf[st.path] \in dirs /\ entry[e] # None
          /\ content' = [content EXCEPT ![entry[e]] = Empty]
          /\ UNCHANGED <<entry, left>>
       \/ /\ DirOf[st.path] \notin dirs \/ IoErrors
          /\ UNCHANGED <<entry, content, left>>
    /\ Done(s)
    /\ UNCHANGED <<backend, dirs, sent, used, acked, shared>>

(* The disk is full. *)
WriteBreaks(s) ==
    /\ IoErrors
    /\ At(s, "copy")
    /\ WriteFails(s)

(* NFS: the temporary file is opened again, by name, and synced.           *)
Fsync(s) ==
    LET st == stream[s] IN
    /\ At(s, "fsync")
    /\ ~Mismatched(st)
    /\ IF entry[Target(st)] = None
       THEN Done(s)                                              \* ENOENT
       ELSE Goto(s, [st EXCEPT !.pc = "rename"])
    /\ UNCHANGED <<backend, dirs, entry, content, sent, used, acked, shared,
                   left>>

(* renameSync(tmpPath, dest)                                               *)
Rename(s) ==
    LET st == stream[s]
        e == Target(st) IN
    /\ At(s, "rename")
    /\ ~Mismatched(st)
    /\ IF entry[e] = None
       THEN UNCHANGED <<entry, acked, left>>                     \* ENOENT
       ELSE /\ entry' = [entry EXCEPT ![<<st.path, 0>>] = entry[e],
                                      ![e] = None]
            /\ acked' = [acked EXCEPT ![st.path] = st.body]
            /\ left' = left \ {e}
    /\ Done(s)
    /\ UNCHANGED <<backend, dirs, content, sent, used, shared>>

(* open(), sync() or renameSync() fails on a file that is there.  They are *)
(* outside the try: the error goes to the caller, the file stays.          *)
CommitFails(s) ==
    LET st == stream[s] IN
    /\ IoErrors
    /\ At(s, "fsync") \/ At(s, "rename")
    /\ ~Mismatched(st)
    /\ entry[Target(st)] # None
    /\ left' = left \cup {Target(st)}
    /\ Done(s)
    /\ UNCHANGED <<backend, dirs, entry, content, sent, used, acked, shared>>

(* A part cannot be read: the assembly fails and leaves what it wrote. *)
PartFails(s) ==
    /\ IoErrors
    /\ At(s, "copy")
    /\ stream[s].op = "assemble"
    /\ Done(s)
    /\ UNCHANGED <<backend, dirs, entry, content, sent, used, acked, shared,
                   left>>

(* The write stream of an assembly fails: its directory has been pruned,   *)
(* or the disk is full.  Nobody listens for its error.                     *)
AssemblyBreaks(s) ==
    /\ stream[s].op = "assemble"
    /\ \/ At(s, "open") /\ DirOf[stream[s].path] \notin dirs
       \/ At(s, "open") /\ IoErrors
       \/ At(s, "copy") /\ IoErrors

-----------------------------------------------------------------------------
(* delete() and deleteParts(): one turn of the event loop.  That their     *)
(* rmSync may fail is a matter of ObjectStore and Multipart.               *)

(* pruneEmptyDirs: the directory is removed if no entry is left in it. *)
Pruned(p, entries) ==
    IF \E e \in Entries : DirOf[e[1]] = DirOf[p] /\ entries[e] # None
    THEN dirs ELSE dirs \ {DirOf[p]}

Delete(p) ==
    /\ "delete" \in Ops
    /\ p \notin PartPaths
    /\ acked[p] # None
    /\ entry' = [entry EXCEPT ![<<p, 0>>] = None]
    /\ dirs' = Pruned(p, entry')
    /\ acked' = [acked EXCEPT ![p] = None]
    /\ UNCHANGED <<backend, content, stream, sent, used, shared, left>>

(* Mutant: the upload's directory is removed. *)
DeletePartsDirectory ==
    /\ "deleteParts" \in Ops
    /\ \E p \in PartPaths : entry[<<p, 0>>] # None
    /\ entry' = [e \in Entries |->
                    IF e[1] \in PartPaths THEN None ELSE entry[e]]
    /\ acked' = [p \in Paths |-> IF p \in PartPaths THEN None ELSE acked[p]]
    /\ UNCHANGED <<backend, dirs, content, stream, sent, used, shared, left>>

DeleteParts ==
    /\ "deleteParts" \in Ops
    /\ \E p \in PartPaths : entry[<<p, 0>>] # None
    /\ entry' = [e \in Entries |->
                    IF e[1] \in PartPaths /\ e[2] = 0 THEN None ELSE entry[e]]
    /\ acked' = [p \in Paths |-> IF p \in PartPaths THEN None ELSE acked[p]]
    /\ UNCHANGED <<backend, dirs, content, stream, sent, used, shared, left>>

-----------------------------------------------------------------------------
(* read() and streamObject *)

(* Mutant: the object is there before its file is complete. *)
ReadableAtOnce(p) == p \in used

(* The row with the storage key is inserted when the write has returned.   *)
Readable(p) == acked[p] # None

BeginRead(s) ==
    /\ "get" \in Ops
    /\ At(s, "idle")
    /\ \E p \in Paths \ PartPaths :
        /\ Readable(p)
        /\ Goto(s, [Idle EXCEPT !.pc = "exists", !.op = "get", !.path = p])
    /\ UNCHANGED <<backend, dirs, entry, content, sent, used, acked, shared,
                   left>>

(* existsSync *)
ReadExists(s) ==
    /\ At(s, "exists")
    /\ IF entry[<<stream[s].path, 0>>] = None THEN Done(s)
       ELSE Goto(s, [stream[s] EXCEPT !.pc = "openRead"])
    /\ UNCHANGED <<backend, dirs, entry, content, sent, used, acked, shared,
                   left>>

(* The open that createReadStream has begun; if it fails, the file having  *)
(* gone for one, the answer is 500, the headers not having been sent.      *)
OpenRead(s) ==
    LET inode == entry[<<stream[s].path, 0>>] IN
    /\ At(s, "openRead")
    /\ \/ (inode = None \/ IoErrors) /\ Done(s)
       \/ /\ inode # None
          /\ Goto(s, [stream[s] EXCEPT !.pc = "send", !.inode = inode])
    /\ UNCHANGED <<backend, dirs, entry, content, sent, used, acked, shared,
                   left>>

SendChunk(s) ==
    LET st == stream[s]
        at == st.pos + 1 IN
    /\ At(s, "send")
    /\ IF st.pos = Chunks
       THEN Done(s)                                              \* end
       ELSE Goto(s, [st EXCEPT !.pos = at,
                               !.got = @ \cup {content[st.inode][at]}])
    /\ UNCHANGED <<backend, dirs, entry, content, sent, used, acked, shared,
                   left>>

(* A read fails: 500, unless the headers have been sent.  Then nothing     *)
(* ends the response, and its client waits.                                *)
ReadFails(s) ==
    /\ IoErrors
    /\ At(s, "send")
    /\ IF stream[s].pos = 0 THEN Done(s)
       ELSE Goto(s, [Idle EXCEPT !.pc = "broken", !.op = "get"])
    /\ UNCHANGED <<backend, dirs, entry, content, sent, used, acked, shared,
                   left>>

(* The client of a download has gone: nothing more is asked of the stream. *)
DownloadAbandoned(s) ==
    /\ stream[s].pc \in {"send", "broken"}
    /\ Done(s)
    /\ UNCHANGED <<backend, dirs, entry, content, sent, used, acked, shared,
                   left>>

-----------------------------------------------------------------------------
StorageStep(s) ==
    \/ OpenWrite(s) \/ OpenFails(s) \/ OpenLate(s)
    \/ CopyChunk(s) \/ SizeMismatch(s) \/ WriteBreaks(s) \/ PartFails(s)
    \/ Fsync(s) \/ Rename(s) \/ CommitFails(s)
    \/ ReadExists(s) \/ OpenRead(s) \/ SendChunk(s) \/ ReadFails(s)

(* Handlers that have a temporary file open. *)
Writing == {s \in Streams : /\ stream[s].pc \in {"copy", "fsync", "rename"}
                            /\ stream[s].op # "assemble"}

(* The process is gone, the files are not. *)
Killed ==
    /\ stream' = [s \in Streams |-> Idle]
    /\ left' = left \cup {e \in Entries : /\ entry[e] # None
                                         /\ \E s \in Writing : e = Target(stream[s])}
    /\ UNCHANGED <<backend, dirs, entry, content, sent, used, acked, shared>>
-----------------------------------------------------------------------------
(* Properties *)

(* What write() or an assembly has returned for a path is in its file,     *)
(* complete, until it is deleted or written again, whatever breaks off,    *)
(* dies or is pruned meanwhile; two uploads of one part whose temporary    *)
(* files got the same name excepted (write, assembleMultipart).            *)
AckedIsIntact ==
    \A p \in Paths \ shared :
        acked[p] # None =>
            /\ entry[<<p, 0>>] # None
            /\ content[entry[<<p, 0>>]] = Whole(acked[p])

(* A download is made of the bytes of one body, also when its object is    *)
(* deleted while it is being read (read, streamObject).                    *)
ReadsAreWhole ==
    \A s \in Streams :
        stream[s].got = {} \/ \E c \in Bodies : stream[s].got = {c}

(* A temporary file has an upload that will rename or remove it: uploads   *)
(* that break off, have the wrong size, fail or lose their directory clean *)
(* up after themselves, also when they share a name or find a file left    *)
(* earlier.  It is left behind only if the process died under the upload,  *)
(* the request broke off before the file was open, or the fsync, the       *)
(* rename or the rmSync itself failed (write, fsyncFile).                  *)
NoTempLeft ==
    \A e \in Entries :
        (e[2] > 0 /\ entry[e] # None) =>
            e \in left \/ \E s \in Writing : e = Target(stream[s])
=============================================================================
