----------------------------- MODULE ServerProofs -----------------------------
(***************************************************************************)
(* Proofs about Server: what the storage below the services keeps, and how *)
(* its process starts and ends, for any sets of paths, clients and bodies, *)
(* any number of chunks and clock values and with failing I/O or without.  *)
(***************************************************************************)
EXTENDS Server, TLAPS

-----------------------------------------------------------------------------
(* The inductive invariant of the storage *)

HasInode == {"copy", "fsync", "rename"}
WritePCs == {"open", "late"} \cup HasInode
ReadPCs == {"exists", "openRead", "send"}

(* What StorageTypeOK lacks to be inductive. *)
WellFormed(st) ==
    /\ st.pc \in WritePCs <=> st.op \in WriteOps
    /\ st.pc \in WritePCs => /\ st.path \in Paths /\ st.body \in Bodies
                             /\ (st.op = "part") <=> st.path \in PartPaths
                             /\ (st.op = "assemble") <=> st.ms = 0
    /\ st.pc = "late" => st.op \in {"put", "part"}
    /\ st.pc \in {"open", "late"} => st.pos = 0 /\ st.inode = None
    /\ st.pc = "copy" => st.pos < Chunks
    /\ st.pc \in {"fsync", "rename"} => st.op # "assemble" /\ st.pos = Chunks
    /\ st.pc \in HasInode \cup {"send"} => st.inode \in Bodies
    /\ st.pc \in ReadPCs => st.op = "get" /\ st.path \in Paths \ PartPaths
    /\ st.pc \in {"idle", "broken"} => st.path = None
    /\ st.pc = "idle" => st.op = None
    /\ st.got # {} => st.pc = "send"

TypeInv ==
    /\ StorageTypeOK
    /\ \A s \in Streams : WellFormed(stream[s])

Writer(s) == stream[s].pc \in WritePCs
Holder(s) == stream[s].pc \in HasInode \cup {"send"}

(* A temporary file has a writer that will rename or remove it, or is      *)
(* known to be left.                                                       *)
TempInv == NoTempLeft

(* A body that is still to be opened has no inode. *)
Unborn(b) ==
    /\ \A e \in Entries : entry[e] # b
    /\ \A s \in Streams : Holder(s) => stream[s].inode # b

BodyInv ==
    /\ \A b \in Bodies : b > sent => Unborn(b)
    /\ \A s \in Streams : Writer(s) => stream[s].body <= sent
    /\ \A s \in Streams : stream[s].pc \in {"open", "late"} =>
         Unborn(stream[s].body)
    /\ \A s, t \in Streams : (Writer(s) /\ Writer(t) /\ s # t) =>
         stream[s].body # stream[t].body

(* An inode has one name, and is opened for one path. *)
OwnInv ==
    /\ \A e, f \in Entries :
         (entry[e] # None /\ entry[e] = entry[f]) => e = f
    /\ \A e \in Entries : \A s \in Streams :
         (Holder(s) /\ entry[e] = stream[s].inode) => e[1] = stream[s].path
    /\ \A s, t \in Streams :
         (Holder(s) /\ Holder(t) /\ stream[s].inode = stream[t].inode)
           => stream[s].path = stream[t].path

(* The path of an object is written by one request, once, and read only    *)
(* when that has answered.  Writers of one part have temporary files of    *)
(* their own unless their path is known to be shared.                      *)
PathInv ==
    /\ \A p \in Paths \ PartPaths : p \notin used =>
         /\ acked[p] = None
         /\ \A s \in Streams : stream[s].path # p
    /\ \A s \in Streams : (Writer(s) /\ stream[s].path \notin PartPaths) =>
         /\ acked[stream[s].path] = None
         /\ \A t \in Streams \ {s} : stream[t].path # stream[s].path
    /\ \A s \in Streams :
         (/\ stream[s].pc \in {"exists", "openRead"}
          /\ entry[<<stream[s].path, 0>>] # None)
             => acked[stream[s].path] # None
    /\ \A s, t \in Streams :
         (/\ Writer(s) /\ Writer(t) /\ s # t
          /\ stream[s].path = stream[t].path /\ stream[s].path \notin shared)
             => stream[s].ms # stream[t].ms

(* What a writer has written so far is in the file it has named. *)
CopyInv ==
    \A s \in Streams :
        (stream[s].pc \in HasInode /\ stream[s].path \notin shared) =>
            /\ entry[Target(stream[s])] = stream[s].inode
            /\ \A i \in 1..stream[s].pos :
                 content[stream[s].inode][i] = stream[s].body

(* A reader has opened a complete file, which nobody writes any more. *)
ReadInv ==
    \A s \in Streams : stream[s].pc = "send" =>
        \E c \in Bodies : /\ content[stream[s].inode] = Whole(c)
                          /\ stream[s].got \subseteq {c}

-----------------------------------------------------------------------------
(* Steps of the storage *)

(* A write is given up and its temporary file removed. *)
Abandon(s) ==
    /\ stream[s].pc \in {"open"} \cup HasInode
    /\ stream[s].pc \in {"fsync", "rename"} => stream[s].op = "form"
    /\ WriteFails(s)

(* The write ends and its file stays. *)
GivesUp(s) == PartFails(s) \/ CommitFails(s)

Read(s) ==
    \/ BeginRead(s) \/ ReadExists(s) \/ OpenRead(s) \/ SendChunk(s)
    \/ ReadFails(s) \/ DownloadAbandoned(s)

Move(s) ==
    \/ BeginWrite(s) \/ OpenWrite(s) \/ CopyChunk(s)
    \/ Abandon(s) \/ SourceBreaksEarly(s) \/ OpenLate(s) \/ GivesUp(s)
    \/ Fsync(s) \/ Rename(s)
    \/ Read(s)

Removal == DeleteParts \/ \E p \in Paths : Delete(p)

LEMMA NextMoves ==
    ASSUME [Next]_vars
    PROVE  \/ UNCHANGED storageVars
           \/ \E s \in Streams : Move(s)
           \/ Removal
           \/ Killed /\ phase' = "down"
<1>1. ASSUME NEW s \in Streams, StorageStep(s)
      PROVE  Move(s)
  BY <1>1
  DEF StorageStep, Move, Abandon, Read, OpenFails, SizeMismatch, WriteBreaks,
      Mismatched, AfterCopy, At, HasInode, GivesUp, PartFails, CommitFails
<1>2. ASSUME NEW s \in Streams,
             SourceBreaks(s) \/ SourceBreaksEarly(s) \/ DownloadAbandoned(s)
      PROVE  Move(s)
  BY <1>2 DEF Move, Abandon, Read, SourceBreaks, At, HasInode
<1>3. ASSUME NEW c \in Clients, Arrive(c) \/ Handle(c) \/ Notice(c)
      PROVE  Move(c)
  BY <1>1, <1>2, <1>3, OneHandlerPerClient
  DEF Arrive, Handle, Notice, Move, Read
<1>4. CASE Next
  BY <1>3, <1>4, OneHandlerPerClient
  DEF Next, Removal, StorageOnly, Stop, ServerClosed, PoolEnded,
      SignalWhileClosing, ForceExit, Die, Exit
<1>5. CASE UNCHANGED vars
  BY <1>5 DEF vars
<1> QED
  BY <1>4, <1>5

-----------------------------------------------------------------------------
(* Types *)

LEMMA EmptyType ==
    /\ Empty \in Bytes
    /\ \A c \in Bodies : Whole(c) \in Bytes
    /\ None \notin Bodies
  BY StorageAssumption DEF Empty, Whole, Bytes, Bodies

LEMMA IdleTypes ==
    /\ Idle \in Stream /\ WellFormed(Idle)
    /\ Idle.pc = "idle" /\ Idle.path = None /\ Idle.got = {}
    /\ Idle.op = None /\ Idle.pos = 0 /\ Idle.inode = None
<1>1. Idle \in Stream
  BY StorageAssumption DEF Idle, Stream, PC
<1>2. WellFormed(Idle)
  BY StorageAssumption
  DEF Idle, WellFormed, WritePCs, HasInode, ReadPCs, WriteOps
<1> QED
  BY <1>1, <1>2 DEF Idle

LEMMA GotoTypes ==
    ASSUME TypeInv, NEW s \in Streams, NEW local \in Stream,
           WellFormed(local), Goto(s, local)
    PROVE  /\ stream' \in [Streams -> Stream]
           /\ \A t \in Streams : WellFormed(stream'[t])
           /\ stream'[s] = local
           /\ \A t \in Streams \ {s} : stream'[t] = stream[t]
  BY DEF TypeInv, StorageTypeOK, Goto

LEMMA TargetType ==
    ASSUME TypeInv, NEW s \in Streams, Writer(s)
    PROVE  /\ Target(stream[s]) \in Entries
           /\ Target(stream[s])[1] = stream[s].path
           /\ Target(stream[s])[2] = stream[s].ms
           /\ stream[s].path \in Paths
           /\ stream[s].body \in Bodies
  BY DEF TypeInv, StorageTypeOK, Writer, WellFormed, Target, Entries, Stream

(* The local state of a write that begins. *)
LEMMA BeginWriteLocal ==
    ASSUME TypeInv, NEW s \in Streams, BeginWrite(s)
    PROVE  LET x == stream'[s] IN
           /\ x \in Stream /\ WellFormed(x) /\ Goto(s, x)
           /\ x.pc = "open" /\ x.op \in WriteOps \cap Ops
           /\ x.path \in Paths /\ x.ms \in 0..MaxMillis
           /\ (x.op = "part") <=> x.path \in PartPaths
           /\ (x.op = "assemble") <=> x.ms = 0
           /\ Fresh(x.path)
           /\ sent' = sent + 1 /\ x.body = sent' /\ sent' \in 1..MaxBodies
           /\ used' = used \cup ({x.path} \ PartPaths)
           /\ dirs' = dirs \cup {DirOf[x.path]}
           /\ shared' = IF \E t \in Streams : /\ stream[t].path = x.path
                                              /\ stream[t].ms = x.ms
                                              /\ x.ms # 0
                        THEN shared \cup {x.path} ELSE shared
<1>1. PICK op \in WriteOps \cap Ops, p \in Paths, ms \in 0..MaxMillis :
        /\ op = "part" <=> p \in PartPaths
        /\ op = "assemble" <=> ms = 0
        /\ Fresh(p)
        /\ Goto(s, [Idle EXCEPT !.pc = "open", !.op = op, !.path = p,
                               !.body = sent', !.ms = ms])
        /\ used' = used \cup ({p} \ PartPaths)
        /\ dirs' = dirs \cup {DirOf[p]}
        /\ shared' = IF \E t \in Streams : /\ stream[t].path = p
                                           /\ stream[t].ms = ms /\ ms # 0
                     THEN shared \cup {p} ELSE shared
  BY DEF BeginWrite
<1> DEFINE x == [Idle EXCEPT !.pc = "open", !.op = op, !.path = p,
                             !.body = sent', !.ms = ms]
<1>2. sent' = sent + 1 /\ sent' \in 1..MaxBodies
  BY StorageAssumption DEF BeginWrite, TypeInv, StorageTypeOK
<1>3. /\ x \in Stream
      /\ x.pc = "open" /\ x.op = op /\ x.path = p /\ x.body = sent'
      /\ x.ms = ms /\ x.pos = 0 /\ x.inode = None /\ x.got = {}
  BY <1>2, IdleTypes DEF Stream, PC, Bodies
<1>4. WellFormed(x)
  BY <1>1, <1>2, <1>3, StorageAssumption
  DEF WellFormed, WritePCs, HasInode, ReadPCs, Bodies
<1>5. Goto(s, x)
  BY <1>1
<1> HIDE DEF x
<1>6. stream'[s] = x
  BY <1>3, <1>4, <1>5, GotoTypes
<1> QED
  BY <1>1, <1>2, <1>3, <1>4, <1>5, <1>6
(* What a step keeps of the write it belongs to. *)
Kept(s) ==
    /\ stream'[s].op = stream[s].op /\ stream'[s].path = stream[s].path
    /\ stream'[s].body = stream[s].body /\ stream'[s].ms = stream[s].ms

(* The inode that open(target, "w") yields. *)
Opened(s) ==
    IF entry[Target(stream[s])] = None THEN stream[s].body
                                       ELSE entry[Target(stream[s])]

LEMMA OpenedType ==
    ASSUME TypeInv, NEW s \in Streams, Writer(s)
    PROVE  Opened(s) \in Bodies
  BY TargetType DEF Opened, TypeInv, StorageTypeOK

LEMMA OpenWriteLocal ==
    ASSUME TypeInv, NEW s \in Streams, OpenWrite(s)
    PROVE  /\ stream' \in [Streams -> Stream]
           /\ \A t \in Streams : WellFormed(stream'[t])
           /\ \A t \in Streams \ {s} : stream'[t] = stream[t]
           /\ stream[s].pc = "open" /\ Kept(s)
           /\ stream'[s].pc = "copy" /\ stream'[s].pos = 0
           /\ stream'[s].inode = Opened(s)
           /\ entry' = [entry EXCEPT ![Target(stream[s])] = Opened(s)]
           /\ content' = [content EXCEPT ![Opened(s)] = Empty]
<1> DEFINE x == [stream[s] EXCEPT !.pc = "copy", !.inode = Opened(s)]
<1>1. /\ stream[s].pc = "open" /\ Goto(s, x)
      /\ entry' = [entry EXCEPT ![Target(stream[s])] = Opened(s)]
      /\ content' = [content EXCEPT ![Opened(s)] = Empty]
  BY DEF OpenWrite, At, Opened
<1>2. stream[s] \in Stream /\ WellFormed(stream[s]) /\ Opened(s) \in Bodies
  BY <1>1, OpenedType DEF TypeInv, StorageTypeOK, Writer, WritePCs
<1>3. /\ x \in Stream /\ x.pc = "copy" /\ x.inode = Opened(s)
      /\ x.op = stream[s].op /\ x.path = stream[s].path
      /\ x.body = stream[s].body /\ x.ms = stream[s].ms
      /\ x.pos = stream[s].pos /\ x.got = stream[s].got
  BY <1>2 DEF Stream, PC
<1>4. WellFormed(x) /\ x.pos = 0
  BY <1>1, <1>2, <1>3, StorageAssumption
  DEF WellFormed, WritePCs, HasInode, ReadPCs
<1> HIDE DEF x
<1> QED
  BY <1>1, <1>3, <1>4, GotoTypes DEF Kept

LEMMA CopyChunkLocal ==
    ASSUME TypeInv, NEW s \in Streams, CopyChunk(s)
    PROVE  LET st == stream[s] IN
           /\ stream' \in [Streams -> Stream]
           /\ \A t \in Streams : WellFormed(stream'[t])
           /\ \A t \in Streams \ {s} : stream'[t] = stream[t]
           /\ st.pc = "copy" /\ st.inode \in Bodies /\ st.pos + 1 \in Positions
           /\ content' = [content EXCEPT ![st.inode][st.pos + 1] = st.body]
           /\ \/ /\ stream'[s].pc \in HasInode /\ Kept(s)
                 /\ stream'[s].pos = st.pos + 1
                 /\ stream'[s].inode = st.inode
                 /\ UNCHANGED acked
              \/ /\ st.op = "assemble" /\ stream'[s] = Idle
                 /\ st.pos + 1 = Chunks
                 /\ acked' = [acked EXCEPT ![st.path] = st.body]
<1> DEFINE st == stream[s]
           at == st.pos + 1
<1>1. /\ st.pc = "copy" /\ at \in Positions
      /\ content' = [content EXCEPT ![st.inode][at] = st.body]
  BY DEF CopyChunk, At
<1>2. /\ st \in Stream /\ WellFormed(st) /\ st.inode \in Bodies
      /\ st.op \in WriteOps /\ st.pos \in 0..Chunks /\ st.pos < Chunks
      /\ st.path \in Paths /\ st.body \in Bodies
  BY <1>1
  DEF TypeInv, StorageTypeOK, WellFormed, WritePCs, HasInode, Stream
<1>3. ASSUME NEW pc \in {"copy", "fsync", "rename"},
             (pc = "copy") <=> at < Chunks,
             pc # "copy" => st.op # "assemble",
             NEW x, x = [st EXCEPT !.pos = at, !.pc = pc], Goto(s, x)
      PROVE  /\ stream' \in [Streams -> Stream]
             /\ \A t \in Streams : WellFormed(stream'[t])
             /\ \A t \in Streams \ {s} : stream'[t] = stream[t]
             /\ stream'[s].pc \in HasInode /\ Kept(s)
             /\ stream'[s].pos = at /\ stream'[s].inode = st.inode
  <2>1. at \in 0..Chunks
    BY <1>1, StorageAssumption DEF Positions
  <2>2. /\ x \in Stream /\ x.pc = pc /\ x.inode = st.inode
        /\ x.op = st.op /\ x.path = st.path
        /\ x.body = st.body /\ x.ms = st.ms
        /\ x.pos = at /\ x.got = st.got
    BY <1>2, <1>3, <2>1 DEF Stream, PC
  <2>3. WellFormed(x)
    BY <1>1, <1>2, <1>3, <2>2, StorageAssumption
    DEF WellFormed, WritePCs, HasInode, ReadPCs, Positions
  <2> QED
    BY <1>3, <2>2, <2>3, GotoTypes DEF Kept, HasInode
<1>4. CASE at < Chunks
  <2>1. Goto(s, [st EXCEPT !.pos = at]) /\ UNCHANGED acked
    BY <1>4 DEF CopyChunk
  <2>2. [st EXCEPT !.pos = at] = [st EXCEPT !.pos = at, !.pc = "copy"]
    BY <1>1, <1>2 DEF Stream
  <2> QED
    BY <1>1, <1>2, <1>3, <1>4, <2>1, <2>2
<1>5. CASE ~(at < Chunks) /\ st.op = "assemble"
  <2>1. Goto(s, Idle) /\ acked' = [acked EXCEPT ![st.path] = st.body]
    BY <1>5 DEF CopyChunk, Done
  <2>2. at = Chunks
    BY <1>1, <1>5, StorageAssumption DEF Positions
  <2> QED
    BY <1>1, <1>2, <1>5, <2>1, <2>2, IdleTypes, GotoTypes
<1>6. CASE ~(at < Chunks) /\ st.op # "assemble"
  <2>1. Goto(s, [st EXCEPT !.pos = at, !.pc = AfterCopy]) /\ UNCHANGED acked
    BY <1>6 DEF CopyChunk
  <2>2. AfterCopy \in {"fsync", "rename"}
    BY DEF AfterCopy
  <2>3. /\ stream' \in [Streams -> Stream]
        /\ \A t \in Streams : WellFormed(stream'[t])
        /\ \A t \in Streams \ {s} : stream'[t] = stream[t]
        /\ stream'[s].pc \in HasInode /\ Kept(s)
        /\ stream'[s].pos = at /\ stream'[s].inode = st.inode
    <3> DEFINE x == [st EXCEPT !.pos = at, !.pc = AfterCopy]
    <3>1. AfterCopy # "copy" /\ Goto(s, x)
      BY <2>1, <2>2
    <3> HIDE DEF at
    <3> QED
      BY <1>3, <1>6, <2>2, <3>1
  <2> QED
    BY <1>1, <1>2, <2>1, <2>3
<1> QED
  BY <1>4, <1>5, <1>6

(* The write ends here, or waits for its open. *)
LEMMA WriteEndsLocal ==
    ASSUME TypeInv, NEW s \in Streams,
           \/ Abandon(s) \/ OpenLate(s) \/ GivesUp(s) \/ Rename(s)
           \/ SourceBreaksEarly(s) \/ Fsync(s)
    PROVE  /\ stream' \in [Streams -> Stream]
           /\ \A t \in Streams : WellFormed(stream'[t])
           /\ \A t \in Streams \ {s} : stream'[t] = stream[t]
           /\ Writer(s)
           /\ \/ stream'[s] = Idle /\ ~SourceBreaksEarly(s)
              \/ /\ SourceBreaksEarly(s) /\ Kept(s)
                 /\ stream[s].pc = "open" /\ stream'[s].pc = "late"
              \/ /\ Fsync(s) /\ Kept(s) /\ entry[Target(stream[s])] # None
                 /\ stream[s].pc = "fsync" /\ stream'[s].pc = "rename"
                 /\ stream'[s].pos = stream[s].pos
                 /\ stream'[s].inode = stream[s].inode
<1> DEFINE st == stream[s]
<1>1. /\ st \in Stream /\ WellFormed(st)
  BY DEF TypeInv, StorageTypeOK
<1>2. Writer(s)
  BY DEF Abandon, OpenLate, GivesUp, PartFails, CommitFails, Rename,
         SourceBreaksEarly, Fsync, At, Writer, WritePCs, HasInode
<1>3. CASE Goto(s, Idle)
  <2>1. /\ stream' \in [Streams -> Stream]
        /\ \A t \in Streams : WellFormed(stream'[t])
        /\ \A t \in Streams \ {s} : stream'[t] = stream[t]
        /\ stream'[s] = Idle
    BY <1>3, IdleTypes, GotoTypes
  <2>2. ~SourceBreaksEarly(s)
    <3>1. SUFFICES ASSUME Goto(s, [st EXCEPT !.pc = "late"]) PROVE FALSE
      BY DEF SourceBreaksEarly
    <3>2. stream'[s].pc = "late"
      BY <1>1, <3>1 DEF Goto, TypeInv, StorageTypeOK, Stream
    <3> QED
      BY <2>1, <3>2, IdleTypes
  <2> QED
    BY <1>2, <2>1, <2>2
<1>4. CASE SourceBreaksEarly(s)
  <2> DEFINE x == [st EXCEPT !.pc = "late"]
  <2>1. st.pc = "open" /\ st.op \in {"put", "part"} /\ Goto(s, x)
    BY <1>4 DEF SourceBreaksEarly, At
  <2>2. /\ x \in Stream /\ x.pc = "late" /\ x.inode = st.inode
        /\ x.op = st.op /\ x.path = st.path
        /\ x.body = st.body /\ x.ms = st.ms
        /\ x.pos = st.pos /\ x.got = st.got
    BY <1>1 DEF Stream, PC
  <2>3. WellFormed(x)
    BY <1>1, <2>1, <2>2 DEF WellFormed, WritePCs, HasInode, ReadPCs
  <2> HIDE DEF x
  <2> QED
    BY <1>2, <1>4, <2>1, <2>2, <2>3, GotoTypes DEF Kept
<1>5. CASE Fsync(s) /\ ~Goto(s, Idle)
  <2> DEFINE x == [st EXCEPT !.pc = "rename"]
  <2>1. st.pc = "fsync" /\ entry[Target(st)] # None /\ Goto(s, x)
    BY <1>5 DEF Fsync, At, Done
  <2>2. /\ x \in Stream /\ x.pc = "rename" /\ x.inode = st.inode
        /\ x.op = st.op /\ x.path = st.path
        /\ x.body = st.body /\ x.ms = st.ms
        /\ x.pos = st.pos /\ x.got = st.got
    BY <1>1 DEF Stream, PC
  <2>3. WellFormed(x)
    BY <1>1, <2>1, <2>2 DEF WellFormed, WritePCs, HasInode, ReadPCs
  <2> HIDE DEF x
  <2> QED
    BY <1>2, <1>5, <2>1, <2>2, <2>3, GotoTypes DEF Kept
<1>6. (Abandon(s) \/ OpenLate(s) \/ GivesUp(s) \/ Rename(s)) => Goto(s, Idle)
  BY DEF Abandon, WriteFails, OpenLate, GivesUp, PartFails, CommitFails, Rename,
         Done
<1> QED
  BY <1>3, <1>4, <1>5, <1>6

(* The files are only read. *)
FilesKept == UNCHANGED <<backend, dirs, entry, content, sent, used, acked,
                         shared, left>>

LEMMA ReadLocal ==
    ASSUME TypeInv, NEW s \in Streams, Read(s)
    PROVE  LET st == stream[s]
               x == stream'[s] IN
           /\ FilesKept
           /\ stream' \in [Streams -> Stream]
           /\ \A t \in Streams : WellFormed(stream'[t])
           /\ \A t \in Streams \ {s} : stream'[t] = stream[t]
           /\ ~Writer(s) /\ x.pc \notin WritePCs
           /\ \/ x.pc \in {"idle", "broken"} /\ x.path = None /\ x.got = {}
              \/ /\ x.pc = "exists" /\ x.path \in Paths \ PartPaths
                 /\ x.got = {} /\ acked[x.path] # None
              \/ /\ Kept(s) /\ st.pc = "exists" /\ x.pc = "openRead"
                 /\ x.got = {}
              \/ /\ Kept(s) /\ st.pc = "openRead" /\ x.pc = "send"
                 /\ entry[<<st.path, 0>>] # None
                 /\ x.inode = entry[<<st.path, 0>>] /\ x.got = {}
              \/ /\ Kept(s) /\ st.pc = "send" /\ x.pc = "send"
                 /\ x.inode = st.inode /\ st.pos + 1 \in Positions
                 /\ x.got = st.got \cup {content[st.inode][st.pos + 1]}
<1> DEFINE st == stream[s]
<1>1. st \in Stream /\ WellFormed(st)
  BY DEF TypeInv, StorageTypeOK
<1>2. FilesKept
  BY DEF Read, FilesKept, BeginRead, ReadExists, OpenRead, SendChunk, ReadFails,
         DownloadAbandoned
<1>3. ~Writer(s)
  BY DEF Read, FilesKept, BeginRead, ReadExists, OpenRead, SendChunk, ReadFails,
         DownloadAbandoned, At, Writer, WritePCs, HasInode
<1>4. CASE Goto(s, Idle)
  <2>1. stream'[s] = Idle
    BY <1>4, IdleTypes, GotoTypes
  <2> QED
    BY <1>2, <1>3, <1>4, <2>1, IdleTypes, GotoTypes DEF WritePCs, HasInode
<1>5. CASE BeginRead(s)
  <2>1. PICK p \in Paths \ PartPaths :
          /\ acked[p] # None
          /\ Goto(s, [Idle EXCEPT !.pc = "exists", !.op = "get", !.path = p])
    BY <1>5 DEF BeginRead, Readable
  <2> DEFINE x == [Idle EXCEPT !.pc = "exists", !.op = "get", !.path = p]
  <2>2. /\ x \in Stream /\ x.pc = "exists" /\ x.op = "get" /\ x.path = p
        /\ x.got = {}
    BY IdleTypes DEF Stream, PC
  <2>3. WellFormed(x)
    BY <2>2, StorageAssumption
    DEF WellFormed, WritePCs, HasInode, ReadPCs, WriteOps
  <2>4. Goto(s, x)
    BY <2>1
  <2> HIDE DEF x
  <2> QED
    BY <1>2, <1>3, <2>1, <2>2, <2>3, <2>4, GotoTypes DEF WritePCs, HasInode
<1>6. CASE ReadExists(s) /\ ~Goto(s, Idle)
  <2> DEFINE x == [st EXCEPT !.pc = "openRead"]
  <2>1. st.pc = "exists" /\ Goto(s, x)
    BY <1>6 DEF ReadExists, At, Done
  <2>2. /\ x \in Stream /\ x.pc = "openRead" /\ x.inode = st.inode
        /\ x.op = st.op /\ x.path = st.path
        /\ x.body = st.body /\ x.ms = st.ms
        /\ x.pos = st.pos /\ x.got = st.got
    BY <1>1 DEF Stream, PC
  <2>3. WellFormed(x) /\ x.got = {}
    BY <1>1, <2>1, <2>2 DEF WellFormed, WritePCs, HasInode, ReadPCs
  <2> HIDE DEF x
  <2> QED
    BY <1>2, <1>3, <2>1, <2>2, <2>3, GotoTypes DEF Kept, WritePCs, HasInode
<1>7. CASE OpenRead(s) /\ ~Goto(s, Idle)
  <2> DEFINE inode == entry[<<st.path, 0>>]
             x == [st EXCEPT !.pc = "send", !.inode = inode]
  <2>1. st.pc = "openRead" /\ Goto(s, x) /\ inode # None
    BY <1>7 DEF OpenRead, At, Done
  <2>2. inode \in Bodies
    BY <1>1, <2>1, StorageAssumption
    DEF TypeInv, StorageTypeOK, WellFormed, ReadPCs, Entries
  <2>3. /\ x \in Stream /\ x.pc = "send" /\ x.inode = inode
        /\ x.op = st.op /\ x.path = st.path
        /\ x.body = st.body /\ x.ms = st.ms
        /\ x.pos = st.pos /\ x.got = st.got
    BY <1>1, <2>2 DEF Stream, PC
  <2>4. WellFormed(x) /\ x.got = {}
    BY <1>1, <2>1, <2>2, <2>3 DEF WellFormed, WritePCs, HasInode, ReadPCs
  <2> HIDE DEF x
  <2> QED
    BY <1>2, <1>3, <2>1, <2>3, <2>4, GotoTypes DEF Kept, WritePCs, HasInode
<1>8. CASE SendChunk(s) /\ ~Goto(s, Idle)
  <2> DEFINE at == st.pos + 1
             x == [st EXCEPT !.pos = at,
                             !.got = @ \cup {content[st.inode][at]}]
  <2>1. st.pc = "send" /\ Goto(s, x) /\ st.pos # Chunks
    BY <1>8 DEF SendChunk, At, Done
  <2>2. at \in 0..Chunks /\ at \in Positions
    BY <1>1, <2>1, StorageAssumption DEF Stream, Positions
  <2>3. content[st.inode][at] \in Bodies \cup {None}
    BY <1>1, <2>1, <2>2
    DEF TypeInv, StorageTypeOK, WellFormed, Bytes, HasInode
  <2>4. /\ x \in Stream /\ x.pc = "send" /\ x.inode = st.inode
        /\ x.op = st.op /\ x.path = st.path
        /\ x.body = st.body /\ x.ms = st.ms
        /\ x.got = st.got \cup {content[st.inode][at]}
    BY <1>1, <2>1, <2>2, <2>3 DEF Stream, PC
  <2>5. WellFormed(x)
    BY <1>1, <2>1, <2>4 DEF WellFormed, WritePCs, HasInode, ReadPCs
  <2>6. /\ stream' \in [Streams -> Stream]
        /\ \A t \in Streams : WellFormed(stream'[t])
        /\ \A t \in Streams \ {s} : stream'[t] = stream[t]
        /\ stream'[s] = x
    <3> HIDE DEF x
    <3> QED
      BY <2>1, <2>4, <2>5, GotoTypes
  <2> QED
    BY <1>2, <1>3, <2>1, <2>2, <2>4, <2>6 DEF Kept, WritePCs, HasInode
<1>9. CASE ReadFails(s) /\ ~Goto(s, Idle)
  <2> DEFINE x == [Idle EXCEPT !.pc = "broken", !.op = "get"]
  <2>1. Goto(s, x)
    BY <1>9 DEF ReadFails, Done
  <2>2. /\ x \in Stream /\ x.pc = "broken" /\ x.op = "get" /\ x.path = None
        /\ x.got = {}
    BY IdleTypes DEF Stream, PC
  <2>3. WellFormed(x)
    BY <2>2, StorageAssumption
    DEF WellFormed, WritePCs, HasInode, ReadPCs, WriteOps
  <2> HIDE DEF x
  <2> QED
    BY <1>2, <1>3, <2>1, <2>2, <2>3, GotoTypes DEF WritePCs, HasInode
<1>10. DownloadAbandoned(s) => Goto(s, Idle)
  BY DEF DownloadAbandoned, Done
<1> QED
  BY <1>4, <1>5, <1>6, <1>7, <1>8, <1>9, <1>10 DEF Read

LEMMA MoveType ==
    ASSUME TypeInv, PathInv, NEW s \in Streams, Move(s)
    PROVE  TypeInv'
<1> DEFINE st == stream[s]
<1>1. StorageTypeOK /\ st \in Stream /\ WellFormed(st)
  BY DEF TypeInv, StorageTypeOK
<1>2. CASE BeginWrite(s)
  <2> DEFINE x == stream'[s]
  <2>1. /\ x \in Stream /\ WellFormed(x) /\ Goto(s, x)
        /\ x.path \in Paths /\ Fresh(x.path)
        /\ sent' \in 1..MaxBodies
        /\ used' = used \cup ({x.path} \ PartPaths)
        /\ dirs' = dirs \cup {DirOf[x.path]}
        /\ shared' = IF \E t \in Streams : /\ stream[t].path = x.path
                                           /\ stream[t].ms = x.ms
                                           /\ x.ms # 0
                     THEN shared \cup {x.path} ELSE shared
    BY <1>2, BeginWriteLocal
  <2>2. /\ stream' \in [Streams -> Stream]
        /\ \A t \in Streams : WellFormed(stream'[t])
    BY <2>1, GotoTypes
  <2>3. shared' \subseteq PartPaths
    BY <1>1, <2>1 DEF StorageTypeOK, PathInv, Fresh
  <2>4. sent' \in 0..MaxBodies /\ used' \subseteq Paths \ PartPaths
    BY <1>1, <2>1, StorageAssumption DEF StorageTypeOK
  <2>5. dirs' \subseteq {DirOf[p] : p \in Paths}
    BY <1>1, <2>1 DEF StorageTypeOK
  <2>6. UNCHANGED <<backend, entry, content, acked, left>>
    BY <1>2 DEF BeginWrite
  <2> QED
    BY <1>1, <2>2, <2>3, <2>4, <2>5, <2>6 DEF TypeInv, StorageTypeOK
<1>3. CASE OpenWrite(s)
  <2>1. /\ stream' \in [Streams -> Stream]
        /\ \A t \in Streams : WellFormed(stream'[t])
        /\ Writer(s)
        /\ entry' = [entry EXCEPT ![Target(st)] = Opened(s)]
        /\ content' = [content EXCEPT ![Opened(s)] = Empty]
    BY <1>3, OpenWriteLocal DEF Writer, WritePCs
  <2>2. Opened(s) \in Bodies
    BY <2>1, OpenedType
  <2>3. /\ entry' \in [Entries -> Bodies \cup {None}]
        /\ content' \in [Bodies -> Bytes]
    BY <1>1, <2>1, <2>2, EmptyType DEF StorageTypeOK
  <2>4. UNCHANGED <<backend, dirs, sent, used, acked, shared, left>>
    BY <1>3 DEF OpenWrite
  <2> QED
    BY <1>1, <2>1, <2>3, <2>4 DEF TypeInv, StorageTypeOK
<1>4. CASE CopyChunk(s)
  <2>1. /\ stream' \in [Streams -> Stream]
        /\ \A t \in Streams : WellFormed(stream'[t])
        /\ st.pc = "copy" /\ st.inode \in Bodies /\ st.pos + 1 \in Positions
        /\ content' = [content EXCEPT ![st.inode][st.pos + 1] = st.body]
        /\ acked' = acked \/ acked' = [acked EXCEPT ![st.path] = st.body]
    BY <1>4, CopyChunkLocal
  <2>2. st.body \in Bodies
    BY <1>1, <2>1 DEF WellFormed, WritePCs, HasInode
  <2>3. /\ acked' \in [Paths -> Bodies \cup {None}]
        /\ content' \in [Bodies -> Bytes]
    BY <1>1, <2>1, <2>2 DEF StorageTypeOK, Bytes
  <2>4. UNCHANGED <<backend, dirs, entry, sent, used, shared, left>>
    BY <1>4 DEF CopyChunk
  <2> QED
    BY <1>1, <2>1, <2>3, <2>4 DEF TypeInv, StorageTypeOK
<1>5. CASE \/ Abandon(s) \/ OpenLate(s) \/ GivesUp(s) \/ Rename(s)
           \/ SourceBreaksEarly(s) \/ Fsync(s)
  <2>1. /\ stream' \in [Streams -> Stream]
        /\ \A t \in Streams : WellFormed(stream'[t])
        /\ Writer(s)
    BY <1>5, WriteEndsLocal
  <2>2. /\ Target(st) \in Entries /\ st.path \in Paths
        /\ st.body \in Bodies
    BY <2>1, TargetType
  <2>3. entry' \in [Entries -> Bodies \cup {None}]
    BY <1>1, <1>5, <2>2
    DEF StorageTypeOK, Abandon, WriteFails, OpenLate, GivesUp, PartFails,
        CommitFails, Rename, SourceBreaksEarly, Fsync, RemoveTemp, Removed
  <2>4. content' \in [Bodies -> Bytes]
    BY <1>1, <1>5, <2>2, EmptyType
    DEF StorageTypeOK, Abandon, WriteFails, OpenLate, GivesUp, PartFails,
        CommitFails, Rename, SourceBreaksEarly, Fsync
  <2>5. acked' \in [Paths -> Bodies \cup {None}] /\ left' \subseteq Entries
    BY <1>1, <1>5, <2>2
    DEF StorageTypeOK, Abandon, WriteFails, OpenLate, GivesUp, PartFails,
        CommitFails, Rename, SourceBreaksEarly, Fsync, RemoveTemp
  <2>6. UNCHANGED <<backend, dirs, sent, used, shared>>
    BY <1>5 DEF Abandon, WriteFails, OpenLate, GivesUp, PartFails, CommitFails,
                Rename, SourceBreaksEarly, Fsync
  <2> QED
    BY <1>1, <2>1, <2>3, <2>4, <2>5, <2>6 DEF TypeInv, StorageTypeOK
<1>6. CASE Read(s)
  BY <1>1, <1>6, ReadLocal DEF TypeInv, StorageTypeOK, FilesKept
<1> QED
  BY <1>2, <1>3, <1>4, <1>5, <1>6 DEF Move

(* What the removals leave alone. *)
LEMMA RemovalLocal ==
    ASSUME TypeInv, Removal
    PROVE  /\ UNCHANGED <<backend, content, stream, sent, used, shared, left>>
           /\ entry' \in [Entries -> Bodies \cup {None}]
           /\ acked' \in [Paths -> Bodies \cup {None}]
           /\ dirs' \subseteq dirs
           /\ \A e \in Entries :
                \/ entry'[e] = entry[e]
                \/ /\ entry'[e] = None /\ e[2] = 0 /\ acked'[e[1]] = None
                   /\ e[1] \in PartPaths \/ acked[e[1]] # None
           /\ \A p \in Paths : \/ acked'[p] = acked[p]
                               \/ acked'[p] = None /\ p \in PartPaths
                               \/ acked'[p] = None /\ acked[p] # None
<1>1. CASE DeleteParts
  BY <1>1, StorageAssumption DEF DeleteParts, TypeInv, StorageTypeOK, Entries
<1>2. ASSUME NEW p \in Paths, Delete(p)
      PROVE  /\ UNCHANGED <<backend, content, stream, sent, used, shared, left>>
             /\ entry' = [entry EXCEPT ![<<p, 0>>] = None]
             /\ acked' = [acked EXCEPT ![p] = None]
             /\ acked[p] # None /\ dirs' \subseteq dirs
             /\ <<p, 0>> \in Entries
  BY <1>2, StorageAssumption DEF Delete, Pruned, Entries
<1>3. ASSUME NEW p \in Paths, Delete(p), NEW e \in Entries
      PROVE  \/ entry'[e] = entry[e]
             \/ /\ entry'[e] = None /\ e[2] = 0 /\ acked'[e[1]] = None
                /\ acked[e[1]] # None
  <2>1. CASE e = <<p, 0>>
    <3>1. e[1] = p /\ e[2] = 0
      BY <2>1
    <3> QED
      BY <1>2, <1>3, <2>1, <3>1 DEF TypeInv, StorageTypeOK
  <2>2. CASE e # <<p, 0>>
    BY <1>2, <1>3, <2>2 DEF TypeInv, StorageTypeOK
  <2> QED
    BY <2>1, <2>2
<1>4. ASSUME NEW p \in Paths, Delete(p)
      PROVE  /\ entry' \in [Entries -> Bodies \cup {None}]
             /\ acked' \in [Paths -> Bodies \cup {None}]
             /\ \A q \in Paths : \/ acked'[q] = acked[q]
                                 \/ acked'[q] = None /\ acked[q] # None
  BY <1>2, <1>4 DEF TypeInv, StorageTypeOK
<1>5. CASE \E p \in Paths : Delete(p)
  BY <1>2, <1>3, <1>4, <1>5
<1> QED
  BY <1>1, <1>5 DEF Removal

LEMMA RestType ==
    ASSUME TypeInv, UNCHANGED storageVars \/ Removal \/ Killed
    PROVE  TypeInv'
<1>1. CASE UNCHANGED storageVars
  BY <1>1 DEF TypeInv, StorageTypeOK, storageVars
<1>2. CASE Removal
  BY <1>2, RemovalLocal DEF TypeInv, StorageTypeOK
<1>3. CASE Killed
  BY <1>3, IdleTypes DEF TypeInv, StorageTypeOK, Killed
<1> QED
  BY <1>1, <1>2, <1>3

-----------------------------------------------------------------------------
(* What a step does to the streams *)

LEMMA OthersMove ==
    ASSUME TypeInv, NEW s \in Streams, Move(s)
    PROVE  \A t \in Streams \ {s} : stream'[t] = stream[t]
<1>1. CASE BeginWrite(s)
  BY <1>1, BeginWriteLocal, GotoTypes
<1>2. CASE OpenWrite(s)
  BY <1>2, OpenWriteLocal
<1>3. CASE CopyChunk(s)
  BY <1>3, CopyChunkLocal
<1>4. CASE Read(s)
  BY <1>4, ReadLocal
<1> QED
  BY <1>1, <1>2, <1>3, <1>4, WriteEndsLocal DEF Move

LEMMA WriterMove ==
    ASSUME TypeInv, NEW s \in Streams, Move(s), NEW t \in Streams, Writer(t)'
    PROVE  \/ t # s /\ stream'[t] = stream[t] /\ Writer(t)
           \/ t = s /\ BeginWrite(s)
           \/ /\ t = s /\ Kept(s) /\ Writer(s)
              /\ stream'[s].pc \in {"open", "late"} => stream[s].pc = "open"
<1>1. CASE t # s
  BY <1>1, OthersMove DEF Writer
<1>2. CASE t = s /\ OpenWrite(s)
  BY <1>2, OpenWriteLocal DEF Writer, WritePCs
<1>3. CASE t = s /\ CopyChunk(s)
  <2>1. stream'[s] # Idle
    BY <1>3, IdleTypes DEF Writer, WritePCs, HasInode
  <2> QED
    BY <1>3, <2>1, CopyChunkLocal DEF Writer, WritePCs, HasInode
<1>4. CASE t = s /\ Read(s)
  BY <1>4, ReadLocal DEF Writer
<1>5. CASE t = s /\ ~BeginWrite(s) /\ ~OpenWrite(s) /\ ~CopyChunk(s) /\ ~Read(s)
  <2>1. stream'[s] # Idle
    BY <1>5, IdleTypes DEF Writer, WritePCs, HasInode
  <2> QED
    BY <1>5, <2>1, WriteEndsLocal DEF Move
<1> QED
  BY <1>1, <1>2, <1>3, <1>4, <1>5

LEMMA HolderMove ==
    ASSUME TypeInv, NEW s \in Streams, Move(s), NEW t \in Streams, Holder(t)'
    PROVE  \/ t # s /\ stream'[t] = stream[t] /\ Holder(t)
           \/ /\ t = s /\ Holder(s) /\ Kept(s)
              /\ stream'[s].inode = stream[s].inode
              /\ stream'[s].pc = "send" <=> stream[s].pc = "send"
           \/ /\ t = s /\ OpenWrite(s) /\ Kept(s)
              /\ stream'[s].inode = Opened(s)
           \/ /\ t = s /\ Kept(s) /\ Read(s)
              /\ stream[s].pc = "openRead" /\ stream'[s].pc = "send"
              /\ stream'[s].inode = entry[<<stream[s].path, 0>>]
              /\ entry[<<stream[s].path, 0>>] # None
<1>1. CASE t # s
  BY <1>1, OthersMove DEF Holder
<1> DEFINE x == stream'[s]
<1>2. CASE t = s
  <2>1. x.pc \in HasInode \cup {"send"}
    BY <1>2 DEF Holder
  <2>2. x # Idle /\ x.pc \notin {"idle", "open", "late", "exists", "openRead", "broken"}
    BY <2>1, IdleTypes DEF HasInode
  <2>3. ~BeginWrite(s)
    BY <2>2, BeginWriteLocal
  <2>4. CASE OpenWrite(s)
    BY <1>2, <2>4, OpenWriteLocal
  <2>5. CASE CopyChunk(s)
    <3>1. /\ stream[s].pc = "copy" /\ x.pc \in HasInode /\ Kept(s)
          /\ x.inode = stream[s].inode
      BY <2>2, <2>5, CopyChunkLocal
    <3> QED
      BY <1>2, <3>1 DEF Holder, HasInode
  <2>6. CASE Read(s)
    BY <1>2, <2>2, <2>6, ReadLocal DEF Holder
  <2>7. CASE \/ Abandon(s) \/ OpenLate(s) \/ GivesUp(s) \/ Rename(s)
             \/ SourceBreaksEarly(s) \/ Fsync(s)
    BY <1>2, <2>2, <2>7, WriteEndsLocal DEF Holder, HasInode
  <2> QED
    BY <2>3, <2>4, <2>5, <2>6, <2>7 DEF Move
<1> QED
  BY <1>1, <1>2

-----------------------------------------------------------------------------
(* What a step does to the directory entries *)

LEMMA RenameEntries ==
    ASSUME TypeInv, NEW s \in Streams, Rename(s),
           entry[Target(stream[s])] # None
    PROVE  LET st == stream[s]
               dest == <<st.path, 0>> IN
           /\ dest \in Entries /\ dest # Target(st) /\ dest[2] = 0
           /\ st.ms # 0 /\ st.pc = "rename" /\ st.pos = Chunks
           /\ entry'[dest] = entry[Target(st)]
           /\ entry'[Target(st)] = None
           /\ \A e \in Entries \ {dest, Target(st)} : entry'[e] = entry[e]
           /\ acked' = [acked EXCEPT ![st.path] = st.body]
<1> DEFINE st == stream[s]
           dest == <<st.path, 0>>
           e == Target(st)
<1>1. /\ st.pc = "rename"
      /\ entry' = [entry EXCEPT ![dest] = entry[e], ![e] = None]
      /\ acked' = [acked EXCEPT ![st.path] = st.body]
  BY DEF Rename, At
<1>2. WellFormed(st) /\ Writer(s) /\ st.op # "assemble" /\ st.pos = Chunks
      /\ st.ms # 0
  BY <1>1 DEF TypeInv, WellFormed, Writer, WritePCs, HasInode
<1>3. e \in Entries /\ e[1] = st.path /\ e[2] = st.ms /\ st.path \in Paths
  BY <1>2, TargetType
<1>4. dest \in Entries /\ dest[2] = 0 /\ dest # e
  BY <1>2, <1>3, StorageAssumption DEF Entries
<1>5. entry \in [Entries -> Bodies \cup {None}]
  BY DEF TypeInv, StorageTypeOK
<1>6. /\ entry'[dest] = entry[e]
      /\ entry'[e] = None
      /\ \A f \in Entries \ {dest, e} : entry'[f] = entry[f]
  <2> HIDE DEF dest, e
  <2> QED
    BY <1>1, <1>3, <1>4, <1>5
<1> QED
  BY <1>1, <1>2, <1>4, <1>6

LEMMA EntryMove ==
    ASSUME TypeInv, NEW s \in Streams, Move(s), NEW e \in Entries,
           entry'[e] # entry[e]
    PROVE  /\ Writer(s)
           /\ \/ e = Target(stream[s]) /\ entry'[e] = None
              \/ /\ e = Target(stream[s]) /\ entry[e] = None
                 /\ entry'[e] = stream[s].body
                 /\ \/ OpenWrite(s)
                    \/ OpenLate(s) /\ e \in left'
              \/ /\ e = <<stream[s].path, 0>> /\ Rename(s)
                 /\ entry'[e] = entry[Target(stream[s])]
                 /\ entry[Target(stream[s])] # None
<1> DEFINE st == stream[s]
<1>1. entry \in [Entries -> Bodies \cup {None}]
  BY DEF TypeInv, StorageTypeOK
<1>2. BeginWrite(s) => entry' = entry
  BY DEF BeginWrite
<1>3. CopyChunk(s) => entry' = entry
  BY DEF CopyChunk
<1>4. Read(s) => entry' = entry
  BY ReadLocal DEF FilesKept
<1>5. GivesUp(s) => entry' = entry
  BY DEF GivesUp, PartFails, CommitFails
<1>6. Fsync(s) => entry' = entry
  BY DEF Fsync
<1>7. CASE OpenWrite(s)
  <2>1. Writer(s) /\ entry' = [entry EXCEPT ![Target(st)] = Opened(s)]
    BY <1>7, OpenWriteLocal DEF Writer, WritePCs
  <2> QED
    BY <1>1, <1>7, <2>1 DEF Opened
<1>8. CASE Abandon(s) \/ SourceBreaksEarly(s)
  <2>1. Writer(s)
    BY <1>8, WriteEndsLocal
  <2>2. entry' = [entry EXCEPT ![Target(st)] = None]
    <3>1. entry' # entry
      OBVIOUS
    <3> QED
      BY <1>8, <3>1
      DEF Abandon, WriteFails, SourceBreaksEarly, RemoveTemp, Removed
  <2> QED
    BY <1>1, <2>1, <2>2
<1>9. CASE OpenLate(s)
  <2>1. Writer(s)
    BY <1>9, WriteEndsLocal
  <2>2. /\ entry[Target(st)] = None /\ Target(st) \in left'
        /\ entry' = [entry EXCEPT ![Target(st)] = st.body]
    BY <1>9 DEF OpenLate
  <2> QED
    BY <1>1, <1>9, <2>1, <2>2
<1>10. CASE Rename(s)
  <2>1. Writer(s)
    BY <1>10, WriteEndsLocal
  <2>2. entry[Target(st)] # None
    BY <1>10 DEF Rename
  <2> QED
    BY <1>10, <2>1, <2>2, RenameEntries
<1> QED
  BY <1>2, <1>3, <1>4, <1>5, <1>6, <1>7, <1>8, <1>9, <1>10 DEF Move

(* A write that ends has removed its temporary file, or leaves it. *)
LEMMA GoneMove ==
    ASSUME TypeInv, NEW s \in Streams, Move(s), s \in Writing,
           entry[Target(stream[s])] # None
    PROVE  \/ stream'[s].pc \in HasInode /\ Kept(s)
           \/ entry'[Target(stream[s])] = None
           \/ Target(stream[s]) \in left'
<1> DEFINE st == stream[s]
<1>1. /\ WellFormed(st) /\ Writer(s) /\ st.op # "assemble"
      /\ st.pc \in HasInode
      /\ entry \in [Entries -> Bodies \cup {None}]
  BY DEF TypeInv, StorageTypeOK, WellFormed, Writer, WritePCs, Writing, HasInode
<1>2. Target(st) \in Entries
  BY <1>1, TargetType
<1>3. ~BeginWrite(s) /\ ~OpenWrite(s) /\ ~SourceBreaksEarly(s) /\ ~OpenLate(s)
  BY <1>1 DEF BeginWrite, OpenWrite, SourceBreaksEarly, OpenLate, At, HasInode
<1>4. ~Read(s)
  BY <1>1, ReadLocal
<1>5. CASE CopyChunk(s)
  BY <1>1, <1>5, CopyChunkLocal
<1>6. CASE Abandon(s)
  BY <1>1, <1>2, <1>6 DEF Abandon, WriteFails, RemoveTemp, Removed
<1>7. CASE Rename(s)
  BY <1>7, RenameEntries
<1>8. CASE Fsync(s)
  <2>1. Goto(s, [st EXCEPT !.pc = "rename"])
    BY <1>8 DEF Fsync
  <2>2. stream'[s].pc = "rename"
    BY <2>1 DEF Goto, TypeInv, StorageTypeOK, Stream
  <2>3. stream'[s] # Idle
    BY <2>2, IdleTypes
  <2> QED
    BY <1>8, <2>3, WriteEndsLocal DEF HasInode, SourceBreaksEarly, Fsync, At
<1>9. CASE GivesUp(s)
  BY <1>1, <1>9 DEF GivesUp, PartFails, CommitFails
<1> QED
  BY <1>3, <1>4, <1>5, <1>6, <1>7, <1>8, <1>9 DEF Move

(* A file that is left stays so until it is gone. *)
LEMMA LeftMove ==
    ASSUME TypeInv, NEW s \in Streams, Move(s), NEW e \in Entries, e \in left
    PROVE  e \in left' \/ entry'[e] = None
<1> DEFINE st == stream[s]
<1>1. (BeginWrite(s) \/ OpenWrite(s) \/ CopyChunk(s) \/ Fsync(s)) => left' = left
  BY DEF BeginWrite, OpenWrite, CopyChunk, Fsync
<1>2. Read(s) => left' = left
  BY ReadLocal DEF FilesKept
<1>3. CASE Abandon(s) \/ SourceBreaksEarly(s)
  BY <1>3
  DEF Abandon, WriteFails, SourceBreaksEarly, RemoveTemp, Removed, TypeInv,
      StorageTypeOK
<1>4. CASE OpenLate(s) \/ GivesUp(s)
  BY <1>4 DEF OpenLate, GivesUp, PartFails, CommitFails
<1>5. CASE Rename(s)
  <2>1. CASE entry[Target(st)] = None
    BY <1>5, <2>1 DEF Rename
  <2>2. CASE entry[Target(st)] # None
    <3>1. entry'[Target(st)] = None
      BY <1>5, <2>2, RenameEntries
    <3>2. left' = left \ {Target(st)}
      BY <1>5, <2>2 DEF Rename
    <3> QED
      BY <3>1, <3>2
  <2> QED
    BY <2>1, <2>2
<1> QED
  BY <1>1, <1>2, <1>3, <1>4, <1>5 DEF Move

LEMMA MoveTemp ==
    ASSUME TypeInv, TempInv, NEW s \in Streams, Move(s), TypeInv'
    PROVE  TempInv'
<1> DEFINE st == stream[s]
<1> SUFFICES ASSUME NEW e \in Entries, e[2] > 0, entry'[e] # None, e \notin left'
             PROVE  \E t \in Streams : t \in Writing' /\ Target(stream'[t]) = e
  BY DEF TempInv, NoTempLeft, Writing
<1>1. \A t \in Streams \ {s} : stream'[t] = stream[t]
  BY OthersMove
<1>2. e \notin left
  BY LeftMove
<1>3. CASE entry[e] # None
  <2>1. PICK t \in Streams : t \in Writing /\ Target(stream[t]) = e
    BY <1>2, <1>3 DEF TempInv, NoTempLeft, Writing
  <2>2. CASE t # s
    BY <1>1, <2>1, <2>2 DEF Writing
  <2>3. CASE t = s
    <3>1. stream'[s].pc \in HasInode /\ Kept(s)
      BY <1>3, <2>1, <2>3, GoneMove
    <3> QED
      BY <2>1, <2>3, <3>1 DEF Kept, Target, Writing, HasInode
  <2> QED
    BY <2>2, <2>3
<1>4. CASE entry[e] = None
  <2>1. Writer(s) /\ e = Target(st) /\ OpenWrite(s)
    <3>1. e # <<st.path, 0>>
      OBVIOUS
    <3> QED
      BY <1>4, <3>1, EntryMove
  <2>2. stream'[s].pc = "copy" /\ Kept(s)
    BY <2>1, OpenWriteLocal
  <2>3. st.op # "assemble"
    BY <2>1 DEF Target, TypeInv, WellFormed, Writer
  <2> QED
    BY <2>1, <2>2, <2>3 DEF Kept, Target, Writing
<1> QED
  BY <1>3, <1>4

LEMMA RestTemp ==
    ASSUME TypeInv, TempInv, UNCHANGED storageVars \/ Removal \/ Killed
    PROVE  TempInv'
<1> USE DEF TempInv, NoTempLeft
<1>1. CASE UNCHANGED storageVars
  BY <1>1 DEF storageVars, Target, Writing
<1>2. CASE Removal
  BY <1>2, RemovalLocal DEF Target, Writing
<1>3. CASE Killed
  <2>1. entry' = entry
    BY <1>3 DEF Killed
  <2>2. ASSUME NEW e \in Entries, e[2] > 0, entry'[e] # None
        PROVE  e \in left'
    BY <1>3, <2>1, <2>2 DEF Killed
  <2> QED
    BY <2>2
<1> QED
  BY <1>1, <1>2, <1>3

-----------------------------------------------------------------------------
(* Bodies that are still to be opened *)

LEMMA UnbornMove ==
    ASSUME TypeInv, TypeInv', NEW s \in Streams, Move(s), NEW b \in Bodies,
           Unborn(b),
           stream[s].pc \in {"open", "late"} => stream[s].body # b
    PROVE  Unborn(b)'
<1>1. ASSUME NEW e \in Entries, entry'[e] = b
      PROVE  FALSE
  <2>1. entry'[e] # entry[e] /\ b # None
    BY <1>1, EmptyType DEF Unborn
  <2>2. Writer(s)
    BY <2>1, EntryMove
  <2>3. Target(stream[s]) \in Entries
    BY <2>2, TargetType
  <2>4. OpenWrite(s) => stream[s].pc = "open"
    BY DEF OpenWrite, At
  <2>5. OpenLate(s) => stream[s].pc = "late"
    BY DEF OpenLate, At
  <2> QED
    BY <1>1, <2>1, <2>3, <2>4, <2>5, EntryMove DEF Unborn
<1>2. ASSUME NEW t \in Streams, Holder(t)', stream'[t].inode = b
      PROVE  FALSE
  <2>1. CASE OpenWrite(s) /\ t = s /\ stream'[s].inode = Opened(s)
    <3>1. stream[s].pc = "open" /\ Writer(s)
      BY <2>1 DEF OpenWrite, At, Writer, WritePCs
    <3>2. Target(stream[s]) \in Entries
      BY <3>1, TargetType
    <3> QED
      BY <1>2, <2>1, <3>1, <3>2 DEF Opened, Unborn
  <2>2. CASE /\ t = s /\ stream[s].pc = "openRead"
             /\ stream'[s].inode = entry[<<stream[s].path, 0>>]
    <3>1. <<stream[s].path, 0>> \in Entries
      BY <2>2, StorageAssumption
      DEF TypeInv, WellFormed, ReadPCs, Entries
    <3> QED
      BY <1>2, <2>2, <3>1 DEF Unborn
  <2> QED
    BY <1>2, <2>1, <2>2, HolderMove DEF Unborn
<1> QED
  BY <1>1, <1>2 DEF Unborn

LEMMA MoveBody ==
    ASSUME TypeInv, TypeInv', BodyInv, NEW s \in Streams, Move(s)
    PROVE  BodyInv'
<1> DEFINE st == stream[s]
           x == stream'[s]
<1>1. /\ sent \in Nat /\ sent' \in Nat /\ sent' >= sent
      /\ ~BeginWrite(s) => sent' = sent
      /\ BeginWrite(s) => sent' = sent + 1
  <2>1. sent \in Nat /\ sent' \in Nat
    BY StorageAssumption DEF TypeInv, StorageTypeOK
  <2>2. ~BeginWrite(s) => sent' = sent
    BY ReadLocal
    DEF Move, OpenWrite, CopyChunk, Abandon, WriteFails, SourceBreaksEarly,
        OpenLate, GivesUp, PartFails, CommitFails, Fsync, Rename, FilesKept
  <2>3. BeginWrite(s) => sent' = sent + 1
    BY DEF BeginWrite
  <2> QED
    BY <2>1, <2>2, <2>3
<1>2. st.pc \in {"open", "late"} => Writer(s)
  BY DEF Writer, WritePCs
<1>3. \A t \in Streams : Writer(t) => stream[t].body \in Bodies
  BY TargetType
<1>4. \A t \in Streams : Writer(t)' => stream'[t].body \in Bodies
  BY DEF TypeInv, WellFormed, Writer
<1>5. BeginWrite(s) => x.pc = "open" /\ x.body = sent' /\ sent' \in Bodies
  BY BeginWriteLocal DEF Bodies
<1>6. BeginWrite(s) => st.pc = "idle"
  BY DEF BeginWrite, At
<1>7. ASSUME NEW b \in Bodies, b > sent'
      PROVE  Unborn(b)'
  <2>1. b > sent /\ Unborn(b)
    BY <1>1, <1>7 DEF BodyInv, Bodies
  <2>2. st.pc \in {"open", "late"} => st.body # b
    BY <1>2, <1>3, <2>1, <1>1 DEF BodyInv, Bodies
  <2> QED
    BY <2>1, <2>2, UnbornMove
<1>8. ASSUME NEW t \in Streams, Writer(t)'
      PROVE  stream'[t].body <= sent'
  <2>1. CASE t = s /\ BeginWrite(s)
    BY <1>1, <1>5, <2>1
  <2>2. Writer(t) => stream[t].body <= sent /\ stream[t].body \in Int
    BY <1>3 DEF BodyInv, Bodies
  <2> QED
    BY <1>1, <1>8, <2>1, <2>2, WriterMove DEF Kept
<1>9. ASSUME NEW t \in Streams, stream'[t].pc \in {"open", "late"}
      PROVE  Unborn(stream[t].body)'
  <2>1. Writer(t)'
    BY <1>9 DEF Writer, WritePCs
  <2>2. CASE t = s /\ BeginWrite(s)
    <3>1. Unborn(sent')
      BY <1>1, <1>5, <2>2 DEF BodyInv, Bodies
    <3> DEFINE b == sent + 1
    <3>2. b = sent' /\ b = x.body
      BY <1>1, <1>5, <2>2
    <3>3. b \in Bodies /\ Unborn(b)
      BY <1>5, <2>2, <3>1, <3>2
    <3>4. PICK c \in Bodies : c = b
      BY <3>3
    <3>5. Unborn(c)'
      BY <1>6, <2>2, <3>3, <3>4, UnbornMove
    <3> QED
      BY <2>2, <3>2, <3>4, <3>5
  <2>3. ASSUME t # s, stream'[t] = stream[t], Writer(t)
        PROVE  Unborn(stream[t].body)'
    <3>1. PICK c \in Bodies : c = stream[t].body
      BY <1>3, <2>3
    <3>2. Unborn(c)
      BY <1>9, <2>3, <3>1 DEF BodyInv
    <3>3. st.pc \in {"open", "late"} => st.body # c
      BY <1>2, <2>3, <3>1 DEF BodyInv
    <3>4. Unborn(c)'
      BY <3>2, <3>3, UnbornMove
    <3> QED
      BY <2>3, <3>1, <3>4
  <2>4. ASSUME t = s, Kept(s), Writer(s), st.pc = "open"
        PROVE  Unborn(stream[t].body)'
    <3>1. PICK c \in Bodies : c = st.body
      BY <1>3, <2>4
    <3>2. Unborn(c) /\ c # None
      BY <2>4, <3>1, EmptyType DEF BodyInv
    <3>3. ~OpenWrite(s) /\ ~OpenLate(s)
      <4>1. OpenWrite(s) => x.pc = "copy"
        BY OpenWriteLocal
      <4>2. OpenLate(s) => st.pc = "late"
        BY DEF OpenLate, At
      <4> QED
        BY <1>9, <2>4, <4>1, <4>2
    <3>4. ASSUME NEW e \in Entries, entry'[e] = c
          PROVE  FALSE
      <4>1. Target(st) \in Entries
        BY <2>4, TargetType
      <4> QED
        BY <3>2, <3>3, <3>4, <4>1, EntryMove DEF Unborn
    <3>5. ASSUME NEW u \in Streams, Holder(u)', stream'[u].inode = c
          PROVE  FALSE
      BY <1>9, <2>4, <3>2, <3>5, HolderMove DEF Unborn, Holder, HasInode
    <3>6. Unborn(c)'
      BY <3>4, <3>5 DEF Unborn
    <3> QED
      BY <2>4, <3>1, <3>6 DEF Kept
  <2> QED
    BY <1>9, <2>1, <2>2, <2>3, <2>4, WriterMove
<1>10. ASSUME NEW t \in Streams, NEW u \in Streams, Writer(t)', Writer(u)', t # u
       PROVE  stream'[t].body # stream'[u].body
  <2>1. \A v \in Streams : Writer(v) => stream[v].body < sent + 1
    BY <1>1, <1>3 DEF BodyInv, Bodies
  <2>2. \A v \in Streams : Writer(v) => stream[v].body # sent + 1
    BY <1>1, <1>3, <2>1 DEF Bodies
  <2> QED
    BY <1>1, <1>5, <1>10, <2>2, WriterMove DEF BodyInv, Kept
<1> QED
  BY <1>7, <1>8, <1>9, <1>10 DEF BodyInv

LEMMA RestBody ==
    ASSUME TypeInv, BodyInv, UNCHANGED storageVars \/ Removal \/ Killed
    PROVE  BodyInv'
<1>1. CASE UNCHANGED storageVars
  BY <1>1 DEF BodyInv, Unborn, storageVars, Writer, Holder
<1>2. CASE Removal
  <2>1. /\ UNCHANGED <<stream, sent>>
        /\ \A e \in Entries : entry'[e] = entry[e] \/ entry'[e] = None
    BY <1>2, RemovalLocal
  <2>2. ASSUME NEW b \in Bodies, Unborn(b)
        PROVE  Unborn(b)'
    BY <2>1, <2>2, EmptyType DEF Unborn, Holder
  <2>3. ASSUME NEW t \in Streams, stream'[t].pc \in {"open", "late"}
        PROVE  Unborn(stream[t].body)'
    <3>1. PICK c \in Bodies : c = stream[t].body
      BY <2>1, <2>3 DEF TypeInv, WellFormed, WritePCs
    <3>2. Unborn(c)'
      BY <2>1, <2>2, <2>3, <3>1 DEF BodyInv
    <3> QED
      BY <2>1, <3>1, <3>2
  <2> QED
    BY <2>1, <2>2, <2>3 DEF BodyInv, Writer
<1>3. CASE Killed
  <2>1. /\ entry' = entry /\ sent' = sent
        /\ \A t \in Streams : ~Writer(t)' /\ ~Holder(t)'
                              /\ stream'[t].pc \notin {"open", "late"}
    BY <1>3, IdleTypes DEF Killed, Writer, WritePCs, Holder, HasInode
  <2> QED
    BY <2>1 DEF BodyInv, Unborn
<1> QED
  BY <1>1, <1>2, <1>3

-----------------------------------------------------------------------------
(* Inodes and their names *)

LEMMA HolderInode ==
    ASSUME TypeInv, NEW t \in Streams, Holder(t)
    PROVE  stream[t].inode \in Bodies /\ stream[t].inode # None
  BY EmptyType DEF TypeInv, WellFormed, Holder

(* An entry that is not as it was. *)
LEMMA NewEntry ==
    ASSUME TypeInv, BodyInv, NEW s \in Streams, Move(s), NEW e \in Entries,
           entry'[e] # entry[e], entry'[e] # None
    PROVE  LET st == stream[s] IN
           /\ Target(st) \in Entries /\ Target(st)[1] = st.path
           /\ e[1] = st.path
           /\ \/ /\ e = Target(st) /\ entry'[e] = st.body /\ Unborn(st.body)
                 /\ OpenWrite(s) \/ OpenLate(s)
              \/ /\ e = <<st.path, 0>> /\ Rename(s)
                 /\ entry'[e] = entry[Target(st)]
                 /\ entry'[Target(st)] = None /\ entry[Target(st)] # None
<1> DEFINE st == stream[s]
<1>1. /\ Writer(s)
      /\ \/ /\ e = Target(stream[s]) /\ entry[e] = None
            /\ entry'[e] = stream[s].body
            /\ OpenWrite(s) \/ OpenLate(s)
         \/ /\ e = <<stream[s].path, 0>> /\ Rename(s)
            /\ entry'[e] = entry[Target(stream[s])]
            /\ entry[Target(stream[s])] # None
  BY EntryMove
<1>2. /\ Target(st) \in Entries /\ Target(st)[1] = st.path
  BY <1>1, TargetType
<1>3. (OpenWrite(s) \/ OpenLate(s)) => Unborn(st.body)
  BY DEF OpenWrite, OpenLate, At, BodyInv
<1>4. (Rename(s) /\ entry[Target(st)] # None) => entry'[Target(st)] = None
  BY RenameEntries
<1>5. e = <<st.path, 0>> => e[1] = st.path
  OBVIOUS
<1> QED
  BY <1>1, <1>2, <1>3, <1>4, <1>5

(* The inode a stream holds: it had it, or has just got it. *)
LEMMA NewHolder ==
    ASSUME TypeInv, BodyInv, NEW s \in Streams, Move(s), NEW t \in Streams,
           Holder(t)'
    PROVE  /\ stream'[t].path = stream[t].path
           /\ \/ Holder(t) /\ stream'[t].inode = stream[t].inode
              \/ /\ t = s /\ OpenWrite(s) /\ entry'[Target(stream[s])] = Opened(s)
                 /\ Target(stream[s]) \in Entries
                 /\ Target(stream[s])[1] = stream[s].path
                 /\ stream'[s].inode = Opened(s)
                 /\ Opened(s) # entry[Target(stream[s])] =>
                       Opened(s) = stream[s].body /\ Unborn(stream[s].body)
              \/ /\ t = s /\ Read(s)
                 /\ <<stream[s].path, 0>> \in Entries
                 /\ stream'[s].inode = entry[<<stream[s].path, 0>>]
                 /\ entry' = entry
                 /\ stream'[s].inode # None
<1> DEFINE st == stream[s]
<1>1. CASE OpenWrite(s) /\ t = s
  <2>1. /\ Kept(s) /\ Writer(s) /\ stream'[s].inode = Opened(s)
        /\ entry' = [entry EXCEPT ![Target(st)] = Opened(s)]
        /\ Unborn(st.body)
    BY <1>1, OpenWriteLocal DEF Writer, WritePCs, BodyInv
  <2>2. /\ Target(st) \in Entries /\ Target(st)[1] = st.path
    BY <2>1, TargetType
  <2>3. entry'[Target(st)] = Opened(s)
    BY <2>1, <2>2 DEF TypeInv, StorageTypeOK
  <2> QED
    BY <1>1, <2>1, <2>2, <2>3 DEF Kept, Opened
<1>2. CASE /\ t = s /\ Kept(s) /\ Read(s)
           /\ st.pc = "openRead"
           /\ stream'[s].inode = entry[<<st.path, 0>>]
           /\ entry[<<st.path, 0>>] # None
  <2>1. <<st.path, 0>> \in Entries
    BY <1>2, StorageAssumption
    DEF TypeInv, WellFormed, ReadPCs, Entries
  <2> QED
    BY <1>2, <2>1, ReadLocal DEF Kept, FilesKept
<1> QED
  BY <1>1, <1>2, HolderMove DEF Kept

LEMMA MoveOwn ==
    ASSUME TypeInv, TypeInv', BodyInv, OwnInv, NEW s \in Streams, Move(s)
    PROVE  OwnInv'
<1> DEFINE st == stream[s]
<1>0. ~(OpenWrite(s) /\ Rename(s)) /\ ~(OpenLate(s) /\ Rename(s))
  BY DEF OpenWrite, OpenLate, Rename, At
<1>1. ASSUME NEW e \in Entries, NEW f \in Entries,
             entry'[e] # None, entry'[e] = entry'[f]
      PROVE  e = f
  <2>1. CASE entry'[e] = entry[e] /\ entry'[f] = entry[f]
    BY <1>1, <2>1 DEF OwnInv
  <2>2. ASSUME NEW g \in Entries, NEW h \in Entries, entry'[g] # None,
               entry'[g] = entry'[h], entry'[g] # entry[g]
        PROVE  g = h
    <3>1. CASE entry'[h] # entry[h]
      BY <1>0, <2>2, <3>1, NewEntry
    <3>2. CASE entry'[h] = entry[h] /\ Rename(s)
      BY <1>0, <2>2, <3>2, NewEntry DEF OwnInv
    <3>3. CASE entry'[h] = entry[h] /\ ~Rename(s)
      BY <2>2, <3>3, NewEntry DEF Unborn
    <3> QED
      BY <3>1, <3>2, <3>3
  <2> QED
    BY <1>1, <2>1, <2>2
<1>2. ASSUME NEW e \in Entries, NEW t \in Streams, Holder(t)',
             entry'[e] = stream'[t].inode
      PROVE  e[1] = stream'[t].path
  <2>1. stream'[t].inode # None
    BY <1>2, EmptyType DEF TypeInv, WellFormed, Holder
  <2>2. CASE Holder(t) /\ stream'[t].inode = stream[t].inode
    <3>1. CASE entry'[e] = entry[e]
      <4>1. e[1] = stream[t].path
        BY <1>2, <2>2, <3>1 DEF OwnInv
      <4>2. stream'[t].path = stream[t].path
        BY <1>2, NewHolder
      <4> QED
        BY <4>1, <4>2
    <3>2. CASE entry'[e] # entry[e]
      <4>1. CASE Unborn(entry'[e])
        BY <1>2, <2>2, <4>1 DEF Unborn
      <4>2. CASE entry'[e] = entry[Target(st)] /\ Target(st) \in Entries
        BY <1>2, <2>1, <2>2, <3>2, <4>2, NewEntry, NewHolder DEF OwnInv
      <4> QED
        BY <1>2, <2>1, <3>2, <4>1, <4>2, NewEntry
    <3> QED
      BY <3>1, <3>2
  <2>3. CASE /\ t = s /\ OpenWrite(s) /\ entry'[Target(st)] = Opened(s)
             /\ Target(st) \in Entries /\ Target(st)[1] = st.path
             /\ stream'[s].inode = Opened(s)
    <3>1. e = Target(st)
      BY <1>1, <1>2, <2>1, <2>3
    <3>2. stream'[t].path = stream[t].path
      BY <1>2, NewHolder
    <3> QED
      BY <2>3, <3>1, <3>2
  <2>4. CASE /\ t = s /\ <<st.path, 0>> \in Entries
             /\ stream'[s].inode = entry[<<st.path, 0>>]
             /\ entry' = entry
    <3>1. <<st.path, 0>>[1] = st.path
      OBVIOUS
    <3> QED
      BY <1>1, <1>2, <2>1, <2>4, <3>1, NewHolder
  <2> QED
    BY <1>2, <2>2, <2>3, <2>4, NewHolder
<1>3. ASSUME NEW t \in Streams, NEW u \in Streams, Holder(t)', Holder(u)',
             stream'[t].inode = stream'[u].inode, t # u
      PROVE  stream'[t].path = stream'[u].path
  <2>1. ASSUME NEW v \in Streams, NEW w \in Streams, Holder(v)', Holder(w)',
               stream'[v].inode = stream'[w].inode, v # s
        PROVE  stream'[v].path = stream'[w].path
    <3>1. Holder(v) /\ stream'[v].inode = stream[v].inode
      BY <2>1, NewHolder
    <3>2. /\ stream'[v].path = stream[v].path
          /\ stream'[w].path = stream[w].path
      BY <2>1, NewHolder
    <3>3. CASE Holder(w) /\ stream'[w].inode = stream[w].inode
      <4>1. stream[v].path = stream[w].path
        BY <2>1, <3>1, <3>3 DEF OwnInv
      <4> QED
        BY <3>2, <4>1
    <3>4. CASE /\ w = s /\ Target(st) \in Entries /\ Target(st)[1] = st.path
               /\ stream'[s].inode = Opened(s)
               /\ Opened(s) # entry[Target(st)] =>
                     Opened(s) = st.body /\ Unborn(st.body)
      <4>1. Opened(s) = entry[Target(st)]
        BY <2>1, <3>1, <3>4 DEF Unborn
      <4>2. Target(st)[1] = stream[v].path
        BY <2>1, <3>1, <3>4, <4>1 DEF OwnInv
      <4> QED
        BY <3>2, <3>4, <4>2
    <3>5. CASE /\ w = s /\ <<st.path, 0>> \in Entries
               /\ stream'[s].inode = entry[<<st.path, 0>>]
      <4>1. <<st.path, 0>>[1] = st.path
        OBVIOUS
      <4>2. st.path = stream[v].path
        BY <2>1, <3>1, <3>5, <4>1 DEF OwnInv
      <4> QED
        BY <3>2, <3>5, <4>2
    <3> QED
      BY <2>1, <3>3, <3>4, <3>5, NewHolder
  <2> QED
    BY <1>3, <2>1
<1> QED
  BY <1>1, <1>2, <1>3 DEF OwnInv

LEMMA RestOwn ==
    ASSUME TypeInv, OwnInv, UNCHANGED storageVars \/ Removal \/ Killed
    PROVE  OwnInv'
<1>1. CASE UNCHANGED storageVars
  BY <1>1 DEF OwnInv, storageVars, Holder
<1>2. CASE Removal
  <2>1. /\ stream' = stream
        /\ \A e \in Entries : entry'[e] = entry[e] \/ entry'[e] = None
    BY <1>2, RemovalLocal
  <2>2. \A t \in Streams : Holder(t) => stream[t].inode # None
    BY HolderInode
  <2> QED
    BY <2>1, <2>2 DEF OwnInv, Holder
<1>3. CASE Killed
  <2>1. /\ entry' = entry /\ \A t \in Streams : ~Holder(t)'
    BY <1>3, IdleTypes DEF Killed, Holder, HasInode
  <2> QED
    BY <2>1 DEF OwnInv
<1> QED
  BY <1>1, <1>2, <1>3

-----------------------------------------------------------------------------
(* Who uses a path *)

(* A stream that is on a path was on it, or has just begun. *)
LEMMA PathMove ==
    ASSUME TypeInv, NEW s \in Streams, Move(s), NEW t \in Streams
    PROVE  \/ stream'[t].path = stream[t].path /\ (t # s => stream'[t] = stream[t])
           \/ t = s /\ stream'[t].path = None
           \/ t = s /\ BeginWrite(s) /\ stream'[s].pc = "open"
           \/ /\ t = s /\ Read(s) /\ stream'[s].pc = "exists"
              /\ stream'[s].path \in Paths \ PartPaths
              /\ acked[stream'[s].path] # None /\ acked' = acked
<1>1. CASE t # s
  BY <1>1, OthersMove
<1>2. CASE t = s /\ BeginWrite(s)
  BY <1>2, BeginWriteLocal
<1>3. CASE t = s /\ OpenWrite(s)
  BY <1>3, OpenWriteLocal DEF Kept
<1>4. CASE t = s /\ CopyChunk(s)
  BY <1>4, CopyChunkLocal, IdleTypes DEF Kept
<1>5. CASE t = s /\ Read(s)
  BY <1>5, ReadLocal DEF Kept, FilesKept
<1>6. CASE t = s /\ ~BeginWrite(s) /\ ~OpenWrite(s) /\ ~CopyChunk(s) /\ ~Read(s)
  BY <1>6, WriteEndsLocal, IdleTypes DEF Kept, Move
<1> QED
  BY <1>1, <1>2, <1>3, <1>4, <1>5, <1>6

(* The last step of a write that succeeds. *)
Acks(s) ==
    \/ /\ CopyChunk(s) /\ stream[s].op = "assemble"
       /\ stream[s].pos + 1 = Chunks
    \/ Rename(s) /\ entry[Target(stream[s])] # None

(* What is acknowledged is acknowledged by its writer's last step. *)
LEMMA AckedMove ==
    ASSUME TypeInv, NEW s \in Streams, Move(s)
    PROVE  /\ ~Acks(s) => acked' = acked
           /\ Acks(s) =>
                /\ Writer(s) /\ stream'[s] = Idle
                /\ acked' = [acked EXCEPT ![stream[s].path] = stream[s].body]
<1>1. (BeginWrite(s) \/ OpenWrite(s) \/ Abandon(s) \/ SourceBreaksEarly(s)
       \/ OpenLate(s) \/ GivesUp(s) \/ Fsync(s)) => acked' = acked
  BY DEF BeginWrite, OpenWrite, Abandon, WriteFails, SourceBreaksEarly,
         OpenLate, GivesUp, PartFails, CommitFails, Fsync
<1>2. Read(s) => acked' = acked
  BY ReadLocal DEF FilesKept
<1>3. ASSUME CopyChunk(s)
      PROVE  /\ ~Acks(s) => acked' = acked
             /\ Acks(s) =>
                  /\ Writer(s) /\ stream'[s] = Idle
                  /\ acked' = [acked EXCEPT ![stream[s].path] = stream[s].body]
  <2>1. ~Rename(s) /\ Writer(s)
    BY <1>3 DEF CopyChunk, Rename, At, Writer, WritePCs, HasInode
  <2>2. ASSUME stream[s].op = "assemble" /\ stream[s].pos + 1 = Chunks
        PROVE  stream'[s] = Idle
    <3>1. Goto(s, Idle)
      BY <1>3, <2>2, StorageAssumption DEF CopyChunk, Done
    <3> QED
      BY <3>1, IdleTypes, GotoTypes
  <2>3. stream'[s] = Idle => stream'[s].pc \notin HasInode
    BY IdleTypes DEF HasInode
  <2> QED
    BY <1>3, <2>1, <2>2, <2>3, CopyChunkLocal DEF Acks
<1>4. ASSUME Rename(s)
      PROVE  /\ ~Acks(s) => acked' = acked
             /\ Acks(s) =>
                  /\ Writer(s) /\ stream'[s] = Idle
                  /\ acked' = [acked EXCEPT ![stream[s].path] = stream[s].body]
  <2>1. Writer(s) /\ stream'[s] = Idle
    <3>1. stream[s].pc = "rename"
      BY <1>4 DEF Rename, At
    <3>2. ~SourceBreaksEarly(s) /\ ~Fsync(s)
      BY <3>1 DEF SourceBreaksEarly, Fsync, At
    <3> QED
      BY <1>4, <3>2, WriteEndsLocal
  <2>2. ~CopyChunk(s)
    BY <1>4 DEF CopyChunk, Rename, At
  <2>3. entry[Target(stream[s])] = None => acked' = acked
    BY <1>4 DEF Rename
  <2>4. entry[Target(stream[s])] # None
          => acked' = [acked EXCEPT ![stream[s].path] = stream[s].body]
    BY <1>4, RenameEntries
  <2> QED
    BY <1>4, <2>1, <2>2, <2>3, <2>4 DEF Acks
<1>5. Acks(s) => CopyChunk(s) \/ Rename(s)
  BY DEF Acks
<1> QED
  BY <1>1, <1>2, <1>3, <1>4, <1>5 DEF Move

LEMMA UsedMove ==
    ASSUME TypeInv, NEW s \in Streams, Move(s)
    PROVE  /\ ~BeginWrite(s) => UNCHANGED <<used, shared>>
           /\ used \subseteq used' /\ shared \subseteq shared'
<1>1. ~BeginWrite(s) => UNCHANGED <<used, shared>>
  BY ReadLocal
  DEF Move, OpenWrite, CopyChunk, Abandon, WriteFails, SourceBreaksEarly,
      OpenLate, GivesUp, PartFails, CommitFails, Fsync, Rename, FilesKept
<1>2. BeginWrite(s) => used \subseteq used' /\ shared \subseteq shared'
  BY BeginWriteLocal
<1> QED
  BY <1>1, <1>2

LEMMA WriterPath ==
    ASSUME TypeInv, NEW s \in Streams
    PROVE  /\ Writer(s) => stream[s].path \in Paths
           /\ stream[s].pc \in ReadPCs => stream[s].path \in Paths \ PartPaths
           /\ stream[s].pc \in {"idle", "broken"} => stream[s].path = None
           /\ None \notin Paths
  BY StorageAssumption DEF TypeInv, WellFormed, Writer

LEMMA MovePath ==
    ASSUME TypeInv, TypeInv', PathInv, NEW s \in Streams, Move(s)
    PROVE  PathInv'
<1> DEFINE st == stream[s]
           x == stream'[s]
<1>1. acked \in [Paths -> Bodies \cup {None}] /\ None \notin Paths
  BY StorageAssumption DEF TypeInv, StorageTypeOK
<1>2. ASSUME NEW p \in Paths \ PartPaths, p \notin used'
      PROVE  /\ acked'[p] = None
             /\ \A t \in Streams : stream'[t].path # p
  <2>1. /\ p \notin used /\ acked[p] = None
        /\ \A t \in Streams : stream[t].path # p
    BY <1>2, UsedMove DEF PathInv
  <2>2. acked'[p] = None
    BY <1>1, <2>1, AckedMove
  <2>3. BeginWrite(s) => x.path # p
    BY <1>2, BeginWriteLocal
  <2> QED
    BY <1>1, <2>1, <2>2, <2>3, PathMove
<1>3. ASSUME NEW t \in Streams, Writer(t)', stream'[t].path \notin PartPaths
      PROVE  /\ acked'[stream'[t].path] = None
             /\ \A u \in Streams \ {t} : stream'[u].path # stream'[t].path
  <2>1. CASE t = s /\ BeginWrite(s)
    <3>1. x.path \in Paths \ PartPaths /\ x.path \notin used
      BY <1>3, <2>1, BeginWriteLocal DEF Fresh
    <3>2. acked' = acked
      BY <2>1 DEF BeginWrite
    <3> QED
      BY <2>1, <3>1, <3>2, OthersMove DEF PathInv
  <2>2. CASE Writer(t) /\ stream'[t].path = stream[t].path /\ ~(t = s /\ BeginWrite(s))
    <3> DEFINE p == stream[t].path
    <3>1. /\ p \in Paths \ PartPaths /\ acked[p] = None /\ p # None
          /\ \A u \in Streams \ {t} : stream[u].path # p
      BY <1>1, <1>3, <2>2, WriterPath DEF PathInv
    <3>2. acked'[p] = None
      <4>1. stream'[t] # Idle
        BY <1>3, IdleTypes DEF Writer, WritePCs, HasInode
      <4>2. CASE t = s
        BY <3>1, <4>1, <4>2, AckedMove
      <4>3. CASE t # s
        <5>1. st.path # p
          BY <3>1, <4>3
        <5> QED
          BY <1>1, <3>1, <5>1, AckedMove
      <4> QED
        BY <4>2, <4>3
    <3>3. p \in used
      BY <2>2, <3>1 DEF PathInv
    <3>4. BeginWrite(s) => x.path # p
      BY <3>1, <3>3, BeginWriteLocal DEF Fresh
    <3>5. ASSUME NEW u \in Streams \ {t}
          PROVE  stream'[u].path # p
      BY <3>1, <3>4, PathMove
    <3> QED
      BY <2>2, <3>2, <3>5
  <2> QED
    BY <1>3, <2>1, <2>2, WriterMove DEF Kept
<1>4. ASSUME NEW t \in Streams, stream'[t].pc \in {"exists", "openRead"},
             entry'[<<stream'[t].path, 0>>] # None
      PROVE  acked'[stream'[t].path] # None
  <2> DEFINE p == stream'[t].path
             e == <<p, 0>>
  <2>1. p \in Paths \ PartPaths /\ e \in Entries
    BY <1>4, StorageAssumption DEF TypeInv, WellFormed, ReadPCs, Entries
  <2>2. CASE Read(s)
    <3>1. UNCHANGED <<entry, acked>>
      BY <2>2, ReadLocal DEF FilesKept
    <3>2. CASE /\ stream[t].pc \in {"exists", "openRead"} /\ stream[t].path = p
      BY <1>4, <3>1, <3>2 DEF PathInv
    <3>3. CASE acked[p] # None
      BY <3>1, <3>3
    <3>4. t # s => stream'[t] = stream[t]
      BY OthersMove
    <3>5. CASE t = s
      BY <1>4, <2>2, <3>2, <3>3, <3>5, ReadLocal DEF Kept
    <3> QED
      BY <1>4, <3>2, <3>4, <3>5
  <2>3. CASE ~Read(s)
    <3>1. t # s /\ stream'[t] = stream[t]
      <4>1. BeginWrite(s) => x.pc = "open"
        BY BeginWriteLocal
      <4>2. OpenWrite(s) => x.pc = "copy"
        BY OpenWriteLocal
      <4>3. CopyChunk(s) => x.pc \in HasInode \cup {"idle"}
        BY CopyChunkLocal, IdleTypes
      <4>4. x.pc \notin {"exists", "openRead"}
        BY <2>3, <4>1, <4>2, <4>3, WriteEndsLocal, IdleTypes DEF Move, HasInode
      <4> QED
        BY <1>4, <4>4, OthersMove
    <3>2. st.path # p \/ ~Writer(s)
      BY <2>1, <3>1 DEF PathInv
    <3>3. entry'[e] = entry[e]
      <4>1. Writer(s) => Target(st)[1] = st.path
        BY TargetType
      <4>2. e[1] = p /\ <<st.path, 0>>[1] = st.path
        OBVIOUS
      <4> QED
        BY <2>1, <3>2, <4>1, <4>2, EntryMove
    <3>4. acked'[p] = acked[p]
      BY <1>1, <2>1, <3>2, AckedMove
    <3> QED
      BY <1>4, <3>1, <3>3, <3>4 DEF PathInv
  <2> QED
    BY <2>2, <2>3
<1>5. ASSUME NEW t \in Streams, NEW u \in Streams, Writer(t)', Writer(u)', t # u,
             stream'[t].path = stream'[u].path, stream'[t].path \notin shared'
      PROVE  stream'[t].ms # stream'[u].ms
  <2>1. ASSUME NEW v \in Streams, Writer(v), v # s, BeginWrite(s),
               stream[v].path = x.path, x.path \notin shared'
        PROVE  stream[v].ms # x.ms
    <3>1. CASE x.path \in PartPaths
      <4>1. x.ms # 0
        <5>1. x.op = "part"
          BY <2>1, <3>1, BeginWriteLocal
        <5> QED
          BY <2>1, <5>1, BeginWriteLocal
      <4> QED
        BY <2>1, <4>1, BeginWriteLocal
    <3>2. CASE x.path \notin PartPaths
      BY <2>1, <3>2, BeginWriteLocal DEF PathInv, Fresh
    <3> QED
      BY <3>1, <3>2
  <2>2. CASE ~BeginWrite(s)
    <3>1. shared' = shared
      BY <2>2, UsedMove
    <3>2. /\ Writer(t) /\ Writer(u)
          /\ stream'[t].path = stream[t].path /\ stream'[t].ms = stream[t].ms
          /\ stream'[u].path = stream[u].path /\ stream'[u].ms = stream[u].ms
      BY <1>5, <2>2, WriterMove DEF Kept
    <3> QED
      BY <1>5, <3>1, <3>2 DEF PathInv
  <2>3. CASE BeginWrite(s) /\ t = s
    <3>1. Writer(u) /\ stream'[u] = stream[u] /\ u # s
      BY <1>5, <2>3, WriterMove
    <3> QED
      BY <1>5, <2>1, <2>3, <3>1
  <2>4. CASE BeginWrite(s) /\ u = s
    <3>1. Writer(t) /\ stream'[t] = stream[t] /\ t # s
      BY <1>5, <2>4, WriterMove
    <3> QED
      BY <1>5, <2>1, <2>4, <3>1
  <2>5. CASE BeginWrite(s) /\ t # s /\ u # s
    <3>1. /\ Writer(t) /\ stream'[t] = stream[t]
          /\ Writer(u) /\ stream'[u] = stream[u]
      BY <1>5, <2>5, WriterMove
    <3>2. stream[t].path \notin shared
      BY <1>5, <3>1, UsedMove
    <3> QED
      BY <1>5, <3>1, <3>2 DEF PathInv
  <2> QED
    BY <2>2, <2>3, <2>4, <2>5
<1> QED
  BY <1>2, <1>3, <1>4, <1>5 DEF PathInv

LEMMA RestPath ==
    ASSUME TypeInv, PathInv, UNCHANGED storageVars \/ Removal \/ Killed
    PROVE  PathInv'
<1>1. CASE UNCHANGED storageVars
  BY <1>1 DEF PathInv, storageVars, Writer
<1>2. CASE Removal
  <2>1. /\ UNCHANGED <<stream, used, shared>>
        /\ \A p \in Paths : acked[p] = None => acked'[p] = None
    BY <1>2, RemovalLocal
  <2>2. ASSUME NEW s \in Streams, stream[s].pc \in {"exists", "openRead"},
               entry'[<<stream[s].path, 0>>] # None
        PROVE  acked'[stream[s].path] # None
    <3> DEFINE p == stream[s].path
               e == <<p, 0>>
    <3>1. p \in Paths \ PartPaths /\ e \in Entries /\ e[1] = p
      BY <2>2, StorageAssumption DEF TypeInv, WellFormed, ReadPCs, Entries
    <3>2. entry[e] # None /\ entry'[e] = entry[e]
      BY <1>2, <2>2, <3>1, RemovalLocal
    <3>3. acked[p] # None
      BY <2>2, <3>2 DEF PathInv
    <3>4. CASE DeleteParts
      BY <3>1, <3>3, <3>4 DEF DeleteParts
    <3>5. ASSUME NEW q \in Paths, Delete(q)
          PROVE  acked'[p] # None
      <4>1. /\ entry' = [entry EXCEPT ![<<q, 0>>] = None]
            /\ acked' = [acked EXCEPT ![q] = None]
        BY <3>5 DEF Delete
      <4>2. q # p
        BY <2>2, <3>1, <4>1 DEF TypeInv, StorageTypeOK
      <4> QED
        BY <3>1, <3>3, <4>1, <4>2 DEF TypeInv, StorageTypeOK
    <3> QED
      BY <1>2, <3>4, <3>5 DEF Removal
  <2>3. \A s \in Streams : Writer(s) => stream[s].path \in Paths
    BY WriterPath
  <2> QED
    BY <2>1, <2>2, <2>3 DEF PathInv, Writer
<1>3. CASE Killed
  <2>1. /\ UNCHANGED <<acked, used>>
        /\ \A t \in Streams : /\ ~Writer(t)'
                              /\ stream'[t].pc \notin {"exists", "openRead"}
                              /\ stream'[t].path = None
    BY <1>3, IdleTypes DEF Killed, Writer, WritePCs, HasInode
  <2>2. None \notin Paths
    BY StorageAssumption
  <2> QED
    BY <2>1, <2>2 DEF PathInv
<1> QED
  BY <1>1, <1>2, <1>3

-----------------------------------------------------------------------------
(* What is written is what is stored *)

LEMMA ContentMove ==
    ASSUME TypeInv, NEW s \in Streams, Move(s), NEW i \in Bodies,
           content'[i] # content[i]
    PROVE  LET st == stream[s] IN
           /\ Writer(s) /\ Target(st) \in Entries /\ Target(st)[1] = st.path
           /\ \/ OpenWrite(s) /\ i = Opened(s) /\ st.pc = "open"
              \/ OpenLate(s) /\ i = entry[Target(st)]
              \/ /\ CopyChunk(s) /\ st.pc = "copy" /\ i = st.inode
                 /\ content' = [content EXCEPT ![i][st.pos + 1] = st.body]
<1> DEFINE st == stream[s]
<1>1. content \in [Bodies -> Bytes]
  BY DEF TypeInv, StorageTypeOK
<1>2. (BeginWrite(s) \/ Abandon(s) \/ SourceBreaksEarly(s)
       \/ GivesUp(s) \/ Fsync(s) \/ Rename(s)) => content' = content
  BY DEF BeginWrite, Abandon, WriteFails, SourceBreaksEarly, GivesUp, PartFails,
         CommitFails, Fsync, Rename
<1>3. Read(s) => content' = content
  BY ReadLocal DEF FilesKept
<1>4. (OpenWrite(s) \/ OpenLate(s) \/ CopyChunk(s)) => Writer(s)
  BY DEF OpenWrite, OpenLate, CopyChunk, At, Writer, WritePCs, HasInode
<1>5. CASE OpenWrite(s)
  <2>1. st.pc = "open" /\ content' = [content EXCEPT ![Opened(s)] = Empty]
    BY <1>5, OpenWriteLocal
  <2>2. i = Opened(s)
    BY <1>1, <2>1
  <2> QED
    BY <1>4, <1>5, <2>1, <2>2, TargetType
<1>6. CASE OpenLate(s)
  <2>1. content' = [content EXCEPT ![entry[Target(st)]] = Empty]
    <3>1. content' # content
      OBVIOUS
    <3> QED
      BY <1>6, <3>1 DEF OpenLate
  <2>2. i = entry[Target(st)]
    BY <1>1, <2>1
  <2> QED
    BY <1>4, <1>6, <2>1, <2>2, TargetType
<1>7. CASE CopyChunk(s)
  <2>1. /\ st.pc = "copy" /\ st.inode \in Bodies
        /\ content' = [content EXCEPT ![st.inode][st.pos + 1] = st.body]
    BY <1>7, CopyChunkLocal
  <2>2. i = st.inode
    BY <1>1, <2>1
  <2> QED
    BY <1>4, <1>7, <2>1, <2>2, TargetType
<1> QED
  BY <1>2, <1>3, <1>5, <1>6, <1>7 DEF Move

(* Two streams write to one inode only through a shared temporary name. *)
LEMMA ContentOwner ==
    ASSUME TypeInv, BodyInv, OwnInv, PathInv, CopyInv,
           NEW s \in Streams, Move(s), NEW e \in Entries,
           entry[e] # None, content'[entry[e]] # content[entry[e]]
    PROVE  LET st == stream[s] IN
           /\ Writer(s) /\ st.path = e[1]
           /\ st.path \notin shared => Target(st) = e
<1> DEFINE st == stream[s]
           i == entry[e]
<1>1. i \in Bodies
  BY DEF TypeInv, StorageTypeOK
<1>2. /\ Writer(s) /\ Target(st) \in Entries /\ Target(st)[1] = st.path
      /\ \/ OpenWrite(s) /\ i = Opened(s) /\ st.pc = "open"
         \/ OpenLate(s) /\ i = entry[Target(st)]
         \/ st.pc = "copy" /\ i = st.inode
  BY <1>1, ContentMove
<1>3. CASE OpenWrite(s) /\ i = Opened(s) /\ st.pc = "open"
  <2>1. Unborn(st.body)
    BY <1>3 DEF BodyInv
  <2>2. i = entry[Target(st)]
    BY <1>3, <2>1 DEF Opened, Unborn
  <2> QED
    BY <1>2, <2>2 DEF OwnInv
<1>4. CASE OpenLate(s) /\ i = entry[Target(st)]
  BY <1>2, <1>4 DEF OwnInv
<1>5. CASE st.pc = "copy" /\ i = st.inode
  <2>1. st.path = e[1]
    BY <1>5 DEF OwnInv, Holder, HasInode
  <2>2. st.path \notin shared => entry[Target(st)] = i
    BY <1>5 DEF CopyInv, HasInode
  <2> QED
    BY <1>2, <2>1, <2>2 DEF OwnInv
<1> QED
  BY <1>2, <1>3, <1>4, <1>5

(* Two writers that share no temporary name have targets of their own. *)
LEMMA OwnTarget ==
    ASSUME TypeInv, PathInv, NEW s \in Streams, NEW t \in Streams, s # t,
           Writer(s), Writer(t), stream[t].path \notin shared
    PROVE  Target(stream[s]) # Target(stream[t])
  BY DEF PathInv, Target

LEMMA MoveCopy ==
    ASSUME TypeInv, TypeInv', BodyInv, OwnInv, PathInv, CopyInv,
           NEW s \in Streams, Move(s)
    PROVE  CopyInv'
<1> DEFINE st == stream[s]
           x == stream'[s]
<1> SUFFICES ASSUME NEW t \in Streams, stream'[t].pc \in HasInode,
                    stream'[t].path \notin shared'
             PROVE  /\ entry'[Target(stream'[t])] = stream'[t].inode
                    /\ \A k \in 1..stream'[t].pos :
                         content'[stream'[t].inode][k] = stream'[t].body
  BY DEF CopyInv
<1>1. Writer(t)' /\ stream'[t] # Idle
      /\ stream'[t].pc \notin {"idle", "open", "late"}
  BY IdleTypes DEF Writer, WritePCs, HasInode
<1>2. /\ entry \in [Entries -> Bodies \cup {None}]
      /\ content \in [Bodies -> Bytes]
  BY DEF TypeInv, StorageTypeOK
<1>3. CASE t # s
  <2> DEFINE e == Target(stream[t])
             i == stream[t].inode
  <2>1. /\ stream'[t] = stream[t] /\ Writer(t) /\ stream[t].pc \in HasInode
        /\ stream[t].path \notin shared
    BY <1>1, <1>3, WriterMove, UsedMove
  <2>2. /\ entry[e] = i /\ i \in Bodies /\ i # None
        /\ \A k \in 1..stream[t].pos : content[i][k] = stream[t].body
    BY <2>1, HolderInode DEF CopyInv, Holder
  <2>3. e \in Entries /\ e[1] = stream[t].path /\ e[2] = stream[t].ms
    BY <2>1, TargetType
  <2>4. entry'[e] = entry[e]
    <3>1. SUFFICES ASSUME entry'[e] # entry[e] PROVE FALSE
      OBVIOUS
    <3>2. Writer(s)
      BY <2>3, <3>1, EntryMove
    <3>3. e # Target(st)
      BY <1>3, <2>1, <3>2, OwnTarget
    <3>4. e = <<st.path, 0>>
      BY <2>3, <3>1, <3>3, EntryMove
    <3>5. stream[t].path = st.path /\ stream[t].ms = 0
      BY <2>3, <3>4
    <3>6. stream[t].path \notin PartPaths
      BY <2>1, <3>5 DEF TypeInv, WellFormed, Writer
    <3> QED
      BY <1>3, <2>1, <3>5, <3>6 DEF PathInv
  <2>5. content'[i] = content[i]
    <3>1. SUFFICES ASSUME content'[i] # content[i] PROVE FALSE
      OBVIOUS
    <3>2. Writer(s) /\ st.path = e[1] /\ (st.path \notin shared => Target(st) = e)
      BY <2>2, <2>3, <3>1, ContentOwner
    <3> QED
      BY <1>3, <2>1, <2>3, <3>2, OwnTarget
  <2> QED
    BY <2>1, <2>2, <2>4, <2>5
<1>4. CASE t = s /\ OpenWrite(s)
  <2>1. /\ Kept(s) /\ x.pos = 0 /\ x.inode = Opened(s) /\ Writer(s)
        /\ entry' = [entry EXCEPT ![Target(st)] = Opened(s)]
    BY <1>4, OpenWriteLocal DEF Writer, WritePCs
  <2>2. Target(st) \in Entries /\ Target(x) = Target(st)
    BY <2>1, TargetType DEF Kept, Target
  <2> QED
    BY <1>2, <1>4, <2>1, <2>2
<1>5. CASE t = s /\ CopyChunk(s)
  <2>1. /\ Kept(s) /\ x.pos = st.pos + 1 /\ x.inode = st.inode
        /\ st.inode \in Bodies /\ st.pos + 1 \in Positions
        /\ st.pc = "copy"
        /\ content' = [content EXCEPT ![st.inode][st.pos + 1] = st.body]
    BY <1>1, <1>5, CopyChunkLocal
  <2>2. st.path \notin shared /\ entry' = entry
    BY <1>5, <2>1 DEF CopyChunk, Kept
  <2>3. /\ entry[Target(st)] = st.inode
        /\ \A k \in 1..st.pos : content[st.inode][k] = st.body
    BY <2>1, <2>2 DEF CopyInv, HasInode
  <2>4. Target(x) = Target(st)
    BY <2>1 DEF Kept, Target
  <2>5. ASSUME NEW k \in 1..(st.pos + 1)
        PROVE  content'[st.inode][k] = st.body
    <3>1. st.pos \in Nat /\ content[st.inode] \in [Positions -> Bodies \cup {None}]
      BY <1>2, <2>1, StorageAssumption DEF Bytes, TypeInv, StorageTypeOK, Stream
    <3>2. CASE k = st.pos + 1
      BY <1>2, <2>1, <3>1, <3>2
    <3>3. CASE k # st.pos + 1
      <4>1. k \in 1..st.pos
        BY <3>1, <3>3
      <4> QED
        BY <1>2, <2>1, <2>3, <3>1, <3>3, <4>1
    <3> QED
      BY <3>2, <3>3
  <2> QED
    BY <1>5, <2>1, <2>2, <2>3, <2>4, <2>5 DEF Kept
<1>6. CASE t = s /\ ~OpenWrite(s) /\ ~CopyChunk(s)
  <2>1. ~BeginWrite(s) /\ ~Read(s)
    BY <1>1, <1>6, BeginWriteLocal, ReadLocal DEF Writer
  <2>2. /\ Fsync(s) /\ Kept(s) /\ st.pc = "fsync"
        /\ x.pos = st.pos /\ x.inode = st.inode
    BY <1>1, <1>6, <2>1, WriteEndsLocal DEF Move
  <2>3. entry' = entry /\ content' = content /\ shared' = shared
    BY <2>2 DEF Fsync
  <2>4. Target(x) = Target(st) /\ x.body = st.body /\ x.path = st.path
    BY <2>2 DEF Kept, Target
  <2> QED
    BY <1>6, <2>2, <2>3, <2>4 DEF CopyInv, HasInode
<1> QED
  BY <1>3, <1>4, <1>5, <1>6

LEMMA RestCopy ==
    ASSUME TypeInv, PathInv, CopyInv, UNCHANGED storageVars \/ Removal \/ Killed
    PROVE  CopyInv'
<1>1. CASE UNCHANGED storageVars
  BY <1>1 DEF CopyInv, storageVars, Target
<1>2. CASE Removal
  <2>1. UNCHANGED <<stream, content, shared>>
    BY <1>2, RemovalLocal
  <2>2. ASSUME NEW t \in Streams, stream[t].pc \in HasInode
        PROVE  entry'[Target(stream[t])] = entry[Target(stream[t])]
    <3> DEFINE e == Target(stream[t])
    <3>1. SUFFICES ASSUME entry'[e] # entry[e] PROVE FALSE
      OBVIOUS
    <3>2. Writer(t)
      BY <2>2 DEF Writer, WritePCs
    <3>3. e \in Entries /\ e[1] = stream[t].path /\ e[2] = stream[t].ms
      BY <3>2, TargetType
    <3>4. e[2] = 0 /\ (e[1] \in PartPaths \/ acked[e[1]] # None)
      BY <1>2, <3>1, <3>3, RemovalLocal
    <3>5. e[1] \notin PartPaths
      BY <3>2, <3>3, <3>4 DEF TypeInv, WellFormed, Writer
    <3> QED
      BY <3>2, <3>3, <3>4, <3>5 DEF PathInv
  <2> QED
    BY <2>1, <2>2 DEF CopyInv
<1>3. CASE Killed
  BY <1>3, IdleTypes DEF Killed, CopyInv, HasInode
<1> QED
  BY <1>1, <1>2, <1>3

-----------------------------------------------------------------------------
(* What is acknowledged is stored, and what is read was acknowledged *)

(* The last step of a write leaves its whole body at its path. *)
LEMMA Acknowledges ==
    ASSUME TypeInv, TypeInv', CopyInv, NEW s \in Streams, Move(s),
           Acks(s), stream[s].path \notin shared
    PROVE  LET st == stream[s]
               dest == <<st.path, 0>> IN
           /\ st.path \in Paths
           /\ acked' = [acked EXCEPT ![st.path] = st.body]
           /\ entry'[dest] = st.inode /\ st.inode \in Bodies
           /\ content'[st.inode] = Whole(st.body)
<1> DEFINE st == stream[s]
           dest == <<st.path, 0>>
<1>1. content \in [Bodies -> Bytes] /\ content' \in [Bodies -> Bytes]
  BY DEF TypeInv, StorageTypeOK
<1>0. Writer(s) /\ acked' = [acked EXCEPT ![st.path] = st.body]
  BY AckedMove
<1>2. CASE /\ CopyChunk(s) /\ st.op = "assemble"
           /\ st.pos + 1 = Chunks
  <2>1. /\ st.inode \in Bodies /\ st.pc = "copy"
        /\ content' = [content EXCEPT ![st.inode][st.pos + 1] = st.body]
    BY <1>2, CopyChunkLocal
  <2>2. st.ms = 0 /\ Target(st) = dest
    BY <1>0, <1>2 DEF TypeInv, WellFormed, Writer, Target
  <2>3. /\ entry[dest] = st.inode /\ entry' = entry
        /\ \A k \in 1..st.pos : content[st.inode][k] = st.body
    BY <1>2, <2>1, <2>2 DEF CopyInv, HasInode, CopyChunk
  <2>4. /\ content'[st.inode] \in [Positions -> Bodies \cup {None}]
        /\ content[st.inode] \in [Positions -> Bodies \cup {None}]
    BY <1>1, <2>1 DEF Bytes
  <2>5. ASSUME NEW k \in Positions
        PROVE  content'[st.inode][k] = st.body
    <3>0. st.pos \in 0..Chunks /\ Chunks \in Nat
      BY StorageAssumption DEF TypeInv, StorageTypeOK, Stream
    <3>1. k = st.pos + 1 \/ k \in 1..st.pos
      BY <1>2, <3>0 DEF Positions
    <3>2. CASE k = st.pos + 1
      BY <1>1, <2>1, <2>4, <3>2
    <3>3. CASE k # st.pos + 1
      BY <1>1, <2>1, <2>3, <2>4, <3>1, <3>3
    <3> QED
      BY <3>2, <3>3
  <2>6. content'[st.inode] = Whole(st.body)
    BY <2>4, <2>5 DEF Whole
  <2> QED
    BY <1>0, <2>1, <2>3, <2>6, WriterPath
<1>3. CASE Rename(s) /\ entry[Target(st)] # None
  <2>1. /\ entry'[dest] = entry[Target(st)] /\ st.pc = "rename"
        /\ st.pos = Chunks /\ content' = content
    BY <1>3, RenameEntries DEF Rename
  <2>2. /\ entry[Target(st)] = st.inode
        /\ \A k \in 1..Chunks : content[st.inode][k] = st.body
    BY <2>1 DEF CopyInv, HasInode
  <2>3. st.inode \in Bodies
    BY <2>1, HolderInode DEF Holder, HasInode
  <2>4. content[st.inode] = Whole(st.body)
    BY <1>1, <2>2, <2>3 DEF Whole, Bytes, Positions
  <2> QED
    BY <1>0, <2>1, <2>2, <2>3, <2>4, WriterPath
<1> QED
  BY <1>2, <1>3 DEF Acks

LEMMA MoveIntact ==
    ASSUME TypeInv, TypeInv', BodyInv, OwnInv, PathInv, CopyInv, AckedIsIntact,
           NEW s \in Streams, Move(s)
    PROVE  AckedIsIntact'
<1> DEFINE st == stream[s]
<1> SUFFICES ASSUME NEW p \in Paths \ shared', acked'[p] # None
             PROVE  /\ entry'[<<p, 0>>] # None
                    /\ content'[entry'[<<p, 0>>]] = Whole(acked'[p])
  BY DEF AckedIsIntact
<1> DEFINE e == <<p, 0>>
<1>1. /\ p \notin shared /\ e \in Entries /\ e[1] = p
      /\ acked \in [Paths -> Bodies \cup {None}]
  BY UsedMove, StorageAssumption DEF Entries, TypeInv, StorageTypeOK
<1>2. CASE Acks(s) /\ st.path = p
  BY <1>1, <1>2, Acknowledges, EmptyType
<1>3. CASE ~(Acks(s) /\ st.path = p)
  <2>1. acked'[p] = acked[p]
    BY <1>1, <1>3, AckedMove
  <2>2. entry[e] # None /\ content[entry[e]] = Whole(acked[p])
    BY <1>1, <2>1 DEF AckedIsIntact
  <2>3. ASSUME Writer(s), Target(st) = e
        PROVE  FALSE
    <3>1. st.path = p /\ st.ms = 0
      BY <2>3 DEF Target
    <3>2. p \notin PartPaths
      BY <2>3, <3>1 DEF TypeInv, WellFormed, Writer
    <3> QED
      BY <2>1, <2>3, <3>1, <3>2 DEF PathInv
  <2>4. entry'[e] = entry[e]
    <3>1. SUFFICES ASSUME entry'[e] # entry[e] PROVE FALSE
      OBVIOUS
    <3>2. e = <<st.path, 0>> /\ Rename(s) /\ entry[Target(st)] # None
      BY <1>1, <2>3, <3>1, EntryMove
    <3>3. st.path = p
      BY <3>2
    <3> QED
      BY <1>3, <3>2, <3>3 DEF Acks
  <2>5. content'[entry[e]] = content[entry[e]]
    BY <1>1, <2>2, <2>3, ContentOwner
  <2> QED
    BY <2>1, <2>2, <2>4, <2>5
<1> QED
  BY <1>2, <1>3

LEMMA RestIntact ==
    ASSUME TypeInv, AckedIsIntact, UNCHANGED storageVars \/ Removal \/ Killed
    PROVE  AckedIsIntact'
<1>1. CASE UNCHANGED storageVars
  BY <1>1 DEF AckedIsIntact, storageVars
<1>2. CASE Removal
  <2>1. UNCHANGED <<content, shared>>
    BY <1>2, RemovalLocal
  <2>2. ASSUME NEW p \in Paths, acked'[p] # None
        PROVE  acked'[p] = acked[p] /\ entry'[<<p, 0>>] = entry[<<p, 0>>]
    <3> DEFINE e == <<p, 0>>
    <3>1. e \in Entries /\ e[1] = p
      BY StorageAssumption DEF Entries
    <3> QED
      BY <1>2, <2>2, <3>1, RemovalLocal
  <2> QED
    BY <2>1, <2>2 DEF AckedIsIntact
<1>3. CASE Killed
  BY <1>3 DEF Killed, AckedIsIntact
<1> QED
  BY <1>1, <1>2, <1>3

(* A reader's inode is written by nobody. *)
LEMMA ReaderKeeps ==
    ASSUME TypeInv, BodyInv, OwnInv, PathInv, NEW s \in Streams, Move(s),
           NEW t \in Streams, stream[t].pc = "send"
    PROVE  content'[stream[t].inode] = content[stream[t].inode]
<1> DEFINE st == stream[s]
           i == stream[t].inode
<1>1. /\ Holder(t) /\ i \in Bodies
      /\ stream[t].path \in Paths \ PartPaths /\ ~Writer(t)
  BY HolderInode, WriterPath DEF Holder, ReadPCs, Writer, WritePCs, HasInode
<1> SUFFICES ASSUME content'[i] # content[i] PROVE FALSE
  OBVIOUS
<1>2. /\ Writer(s) /\ Target(st) \in Entries /\ Target(st)[1] = st.path
      /\ \/ OpenWrite(s) /\ i = Opened(s) /\ st.pc = "open"
         \/ OpenLate(s) /\ i = entry[Target(st)]
         \/ st.pc = "copy" /\ i = st.inode
  BY <1>1, ContentMove
<1>3. st.path # stream[t].path
  BY <1>1, <1>2 DEF PathInv
<1>4. CASE OpenWrite(s) /\ i = Opened(s) /\ st.pc = "open"
  <2>1. Unborn(st.body)
    BY <1>4 DEF BodyInv
  <2>2. i = entry[Target(st)]
    BY <1>1, <1>4, <2>1 DEF Opened, Unborn
  <2> QED
    BY <1>1, <1>2, <1>3, <2>2 DEF OwnInv
<1>5. CASE OpenLate(s) /\ i = entry[Target(st)]
  BY <1>1, <1>2, <1>3, <1>5 DEF OwnInv
<1>6. CASE st.pc = "copy" /\ i = st.inode
  BY <1>1, <1>3, <1>6 DEF OwnInv, Holder, HasInode
<1> QED
  BY <1>2, <1>4, <1>5, <1>6

LEMMA MoveRead ==
    ASSUME TypeInv, TypeInv', BodyInv, OwnInv, PathInv, AckedIsIntact, ReadInv,
           NEW s \in Streams, Move(s)
    PROVE  ReadInv'
<1> DEFINE st == stream[s]
           x == stream'[s]
<1> SUFFICES ASSUME NEW t \in Streams, stream'[t].pc = "send"
             PROVE  \E c \in Bodies :
                        /\ content'[stream'[t].inode] = Whole(c)
                        /\ stream'[t].got \subseteq {c}
  BY DEF ReadInv
<1>1. CASE t # s
  <2>1. stream'[t] = stream[t]
    BY <1>1, OthersMove
  <2> QED
    BY <2>1, ReaderKeeps DEF ReadInv
<1>2. CASE t = s
  <2>1. Read(s)
    <3>1. BeginWrite(s) => x.pc = "open"
      BY BeginWriteLocal
    <3>2. OpenWrite(s) => x.pc = "copy"
      BY OpenWriteLocal
    <3>3. CopyChunk(s) => x.pc \in HasInode \cup {"idle"}
      BY CopyChunkLocal, IdleTypes
    <3> QED
      BY <1>2, <3>1, <3>2, <3>3, WriteEndsLocal, IdleTypes DEF Move, HasInode
  <2>2. content' = content
    BY <2>1, ReadLocal DEF FilesKept
  <2>3. CASE /\ st.pc = "openRead" /\ x.inode = entry[<<st.path, 0>>]
             /\ entry[<<st.path, 0>>] # None /\ x.got = {}
    <3> DEFINE p == st.path
    <3>1. p \in Paths \ PartPaths /\ acked[p] # None
      BY <2>3, WriterPath DEF PathInv, ReadPCs
    <3>2. p \notin shared /\ acked[p] \in Bodies
      BY <3>1 DEF TypeInv, StorageTypeOK
    <3>3. content[entry[<<p, 0>>]] = Whole(acked[p])
      BY <3>1, <3>2 DEF AckedIsIntact
    <3> QED
      BY <1>2, <2>2, <2>3, <3>2, <3>3
  <2>4. CASE /\ st.pc = "send" /\ x.inode = st.inode
             /\ st.pos + 1 \in Positions
             /\ x.got = st.got \cup {content[st.inode][st.pos + 1]}
    <3>1. PICK c \in Bodies : /\ content[st.inode] = Whole(c)
                              /\ st.got \subseteq {c}
      BY <2>4 DEF ReadInv
    <3>2. content[st.inode][st.pos + 1] = c
      BY <2>4, <3>1 DEF Whole
    <3> QED
      BY <1>2, <2>2, <2>4, <3>1, <3>2
  <2> QED
    BY <1>2, <2>1, <2>3, <2>4, ReadLocal
<1> QED
  BY <1>1, <1>2

LEMMA RestRead ==
    ASSUME TypeInv, ReadInv, UNCHANGED storageVars \/ Removal \/ Killed
    PROVE  ReadInv'
<1>1. CASE UNCHANGED storageVars
  BY <1>1 DEF ReadInv, storageVars
<1>2. CASE Removal
  BY <1>2, RemovalLocal DEF ReadInv
<1>3. CASE Killed
  BY <1>3, IdleTypes DEF Killed, ReadInv
<1> QED
  BY <1>1, <1>2, <1>3

-----------------------------------------------------------------------------
(* Forms *)

(* The body of a form that has come is found to have the wrong size. *)
FormInv ==
    \A s \in Streams :
        (stream[s].op = "form" /\ stream[s].pc \in {"fsync", "rename"})
            => stream[s].pc = AfterCopy

LEMMA FormIsRefused ==
    ASSUME TypeInv, FormInv, NEW s \in Streams, stream[s].op = "form",
           stream[s].pc \in {"fsync", "rename"}
    PROVE  Mismatched(stream[s])
  BY DEF TypeInv, WellFormed, FormInv, Mismatched

LEMMA MoveForm ==
    ASSUME TypeInv, FormInv, NEW s \in Streams, Move(s)
    PROVE  FormInv'
<1> DEFINE st == stream[s]
           x == stream'[s]
<1>1. backend' = backend
  BY ReadLocal
  DEF Move, BeginWrite, OpenWrite, CopyChunk, Abandon, WriteFails,
      SourceBreaksEarly, OpenLate, GivesUp, PartFails, CommitFails, Fsync, Rename,
      FilesKept
<1>2. ASSUME x.op = "form", x.pc \in {"fsync", "rename"}
      PROVE  x.pc = AfterCopy
  <2>1. x # Idle /\ x.pc \in HasInode
    BY <1>2, IdleTypes DEF HasInode
  <2>2. ~BeginWrite(s) /\ ~OpenWrite(s) /\ ~Read(s)
    BY <1>2, BeginWriteLocal, OpenWriteLocal, ReadLocal DEF WritePCs, HasInode
  <2>3. CASE CopyChunk(s)
    <3>1. st.pc = "copy" /\ stream \in [Streams -> Stream]
      BY <2>3, CopyChunkLocal DEF TypeInv, StorageTypeOK
    <3>2. \/ Goto(s, [st EXCEPT !.pos = st.pos + 1])
          \/ Goto(s, Idle)
          \/ Goto(s, [st EXCEPT !.pos = st.pos + 1, !.pc = AfterCopy])
      BY <2>3 DEF CopyChunk, Done
    <3>3. CASE Goto(s, [st EXCEPT !.pos = st.pos + 1])
      BY <1>2, <3>1, <3>3 DEF Goto, Stream
    <3>4. CASE Goto(s, Idle)
      BY <2>1, <3>1, <3>4 DEF Goto
    <3>5. CASE Goto(s, [st EXCEPT !.pos = st.pos + 1, !.pc = AfterCopy])
      BY <3>1, <3>5 DEF Goto, Stream
    <3> QED
      BY <3>2, <3>3, <3>4, <3>5
  <2>4. CASE ~CopyChunk(s)
    <3>1. Fsync(s) /\ st.pc = "fsync" /\ st.op = "form"
      BY <1>2, <2>1, <2>2, <2>4, WriteEndsLocal DEF Move, Kept
    <3>2. Mismatched(st)
      BY <3>1, FormIsRefused
    <3> QED
      BY <3>1, <3>2 DEF Fsync
  <2> QED
    BY <2>3, <2>4
<1>3. \A t \in Streams \ {s} : stream'[t] = stream[t]
  BY OthersMove
<1> QED
  BY <1>1, <1>2, <1>3 DEF FormInv, AfterCopy

LEMMA RestForm ==
    ASSUME TypeInv, FormInv, UNCHANGED storageVars \/ Removal \/ Killed
    PROVE  FormInv'
<1>1. CASE UNCHANGED storageVars
  BY <1>1 DEF FormInv, AfterCopy, storageVars
<1>2. CASE Removal
  BY <1>2, RemovalLocal DEF FormInv, AfterCopy
<1>3. CASE Killed
  BY <1>3, IdleTypes DEF FormInv, Killed
<1> QED
  BY <1>1, <1>2, <1>3

-----------------------------------------------------------------------------
(* The storage's inductive invariant *)

StorageInv ==
    /\ TypeInv
    /\ TempInv
    /\ BodyInv
    /\ OwnInv
    /\ PathInv
    /\ CopyInv
    /\ AckedIsIntact
    /\ ReadInv
    /\ FormInv

LEMMA StorageStart == Init => StorageInv
<1> SUFFICES ASSUME StorageInit PROVE StorageInv
  BY DEF Init
<1>1. \A s \in Streams : stream[s] = Idle
  BY DEF StorageInit
<1>2. TypeInv
  <2>1. stream \in [Streams -> Stream] /\ content \in [Bodies -> Bytes]
    BY IdleTypes, EmptyType DEF StorageInit
  <2>2. sent \in 0..MaxBodies
    BY StorageAssumption DEF StorageInit
  <2>3. \A s \in Streams : WellFormed(stream[s])
    BY <1>1, IdleTypes
  <2> QED
    BY <2>1, <2>2, <2>3 DEF StorageInit, TypeInv, StorageTypeOK
<1>3. TempInv
  BY DEF StorageInit, TempInv, NoTempLeft
<1>4. \A s \in Streams : /\ ~Writer(s) /\ ~Holder(s) /\ stream[s].path = None
                         /\ stream[s].pc = "idle"
  BY <1>1, IdleTypes DEF Writer, WritePCs, Holder, HasInode
<1>5. \A e \in Entries : entry[e] = None
  BY DEF StorageInit
<1>6. BodyInv
  BY <1>4, <1>5, EmptyType DEF BodyInv, Unborn
<1>7. OwnInv
  BY <1>4, <1>5 DEF OwnInv
<1>8. PathInv
  BY <1>4, StorageAssumption DEF StorageInit, PathInv
<1>9. CopyInv /\ ReadInv /\ FormInv
  BY <1>4 DEF CopyInv, ReadInv, FormInv, HasInode
<1>10. AckedIsIntact
  BY DEF StorageInit, AckedIsIntact
<1> QED
  BY <1>2, <1>3, <1>6, <1>7, <1>8, <1>9, <1>10 DEF StorageInv

LEMMA StorageKept == StorageInv /\ [Next]_vars => StorageInv'
<1> SUFFICES ASSUME StorageInv, [Next]_vars PROVE StorageInv'
  OBVIOUS
<1> USE DEF StorageInv
<1>1. ASSUME NEW s \in Streams, Move(s)
      PROVE  StorageInv'
  <2>1. TypeInv'
    BY <1>1, MoveType
  <2> QED
    BY <1>1, <2>1, MoveTemp, MoveBody, MoveOwn, MovePath, MoveCopy, MoveIntact,
       MoveRead, MoveForm
<1>2. CASE UNCHANGED storageVars \/ Removal \/ Killed
  BY <1>2, RestType, RestTemp, RestBody, RestOwn, RestPath, RestCopy, RestIntact,
     RestRead, RestForm
<1> QED
  BY <1>1, <1>2, NextMoves

LEMMA StorageAlways == Spec => []StorageInv
  BY StorageStart, StorageKept, PTL DEF Spec

(* What write() or an assembly has returned for a path is in its file,     *)
(* complete, until it is deleted or written again, for any number of       *)
(* uploads, downloads, failures and restarts.                              *)
THEOREM AcknowledgedStays == Spec => []AckedIsIntact
<1>1. StorageInv => AckedIsIntact
  BY DEF StorageInv
<1> QED
  BY <1>1, StorageAlways, PTL

(* No download mixes the bytes of two bodies. *)
THEOREM DownloadsAreWhole == Spec => []ReadsAreWhole
<1>1. StorageInv => ReadsAreWhole
  <2> SUFFICES ASSUME StorageInv, NEW s \in Streams, stream[s].got # {}
               PROVE  \E c \in Bodies : stream[s].got = {c}
    BY DEF ReadsAreWhole
  <2>1. stream[s].pc = "send"
    BY DEF StorageInv, TypeInv, WellFormed
  <2> QED
    BY <2>1 DEF StorageInv, ReadInv
<1> QED
  BY <1>1, StorageAlways, PTL

(* A temporary file has a writer that will rename or remove it, or the     *)
(* process died under its upload, its request broke off before it was      *)
(* open, or the call that was to commit or to remove it failed.            *)
THEOREM TemporariesGo == Spec => []NoTempLeft
<1>1. StorageInv => NoTempLeft
  BY DEF StorageInv, TempInv
<1> QED
  BY <1>1, StorageAlways, PTL

(* A body that has come whole is stored when its handler ends, or it is    *)
(* whole in the temporary file that a failing fsync or rename left; that   *)
(* of a form is refused.                                                   *)
THEOREM WholeUploadsAreStored == Spec => WholeBodyIsStored
<1> DEFINE Stored(c) ==
        LET st == stream[c]
            temp == entry'[Target(st)] IN
        (/\ st.op \in {"put", "part", "form"}
         /\ st.pos = Chunks
         /\ st.path \notin shared
         /\ stream'[c].pc = "idle"
         /\ phase' # "down")
            => IF st.op = "form" THEN acked'[st.path] = None
               ELSE \/ acked'[st.path] = st.body
                    \/ /\ Target(st) \in left' /\ temp # None
                       /\ content'[temp] = Whole(st.body)
<1>1. ASSUME StorageInv, [Next]_vars, NEW c \in Clients
      PROVE  Stored(c)
  <2> DEFINE st == stream[c]
             x == stream'[c]
             temp == entry'[Target(st)]
  <2> SUFFICES ASSUME st.op \in {"put", "part", "form"}, st.pos = Chunks,
                      st.path \notin shared, x.pc = "idle", phase' # "down"
               PROVE  IF st.op = "form" THEN acked'[st.path] = None
                      ELSE \/ acked'[st.path] = st.body
                           \/ /\ Target(st) \in left' /\ temp # None
                              /\ content'[temp] = Whole(st.body)
    OBVIOUS
  <2>1. /\ c \in Streams /\ TypeInv /\ WellFormed(st) /\ CopyInv /\ PathInv
        /\ FormInv /\ Chunks \in Nat \ {0}
        /\ acked \in [Paths -> Bodies \cup {None}]
        /\ content \in [Bodies -> Bytes]
    BY <1>1, OneHandlerPerClient, StorageAssumption
    DEF StorageInv, TypeInv, StorageTypeOK
  <2>2. Writer(c) /\ st.path \in Paths
    BY <2>1, WriterPath DEF WellFormed, WriteOps, Writer
  <2>3. st.pc \in {"fsync", "rename"}
    BY <2>1, <2>2 DEF WellFormed, Writer, WritePCs, HasInode
  <2>4. x # st
    BY <2>3
  <2>5. PICK s \in Streams : Move(s)
    BY <1>1, <2>1, <2>4, NextMoves, RemovalLocal DEF storageVars
  <2>6. s = c
    BY <2>1, <2>4, <2>5, OthersMove
  <2>7. CASE st.op = "form"
    <3>1. Mismatched(st)
      BY <2>1, <2>3, <2>7, FormIsRefused
    <3>2. ~Acks(c)
      BY <2>7, <3>1 DEF Acks, Rename
    <3>3. acked'[st.path] = acked[st.path]
      BY <2>1, <2>5, <2>6, <3>2, AckedMove
    <3>4. st.path \notin PartPaths
      BY <2>1, <2>2, <2>7 DEF WellFormed, Writer
    <3> QED
      BY <2>1, <2>2, <2>7, <3>3, <3>4 DEF PathInv
  <2>8. CASE st.op \in {"put", "part"}
    <3>1. /\ entry[Target(st)] = st.inode /\ st.inode \in Bodies
          /\ st.inode # None
          /\ \A k \in 1..Chunks : content[st.inode][k] = st.body
      BY <2>1, <2>3, HolderInode DEF CopyInv, Holder, HasInode
    <3>2. ~Read(c) /\ ~BeginWrite(c) /\ ~OpenWrite(c) /\ ~CopyChunk(c)
      BY <2>1, <2>2, <2>3, ReadLocal DEF BeginWrite, OpenWrite, CopyChunk, At
    <3>3. /\ ~SourceBreaksEarly(c) /\ ~OpenLate(c) /\ ~PartFails(c)
          /\ ~Abandon(c)
      BY <2>3, <2>8 DEF SourceBreaksEarly, OpenLate, PartFails, At, Abandon
    <3>4. ~Fsync(c)
      <4>1. SUFFICES ASSUME Goto(c, [st EXCEPT !.pc = "rename"]) PROVE FALSE
        BY <3>1 DEF Fsync
      <4> QED
        BY <2>1, <4>1 DEF Goto, TypeInv, StorageTypeOK, Stream
    <3>5. CASE Rename(c)
      BY <2>1, <2>2, <2>8, <3>1, <3>5, RenameEntries
    <3>6. CASE CommitFails(c)
      <4>1. Target(st) \in left' /\ entry' = entry /\ content' = content
        BY <3>6 DEF CommitFails
      <4>2. content[st.inode] = Whole(st.body)
        BY <2>1, <3>1 DEF Whole, Bytes, Positions
      <4> QED
        BY <2>8, <3>1, <4>1, <4>2
    <3> QED
      BY <2>5, <2>6, <3>2, <3>3, <3>4, <3>5, <3>6 DEF Move, GivesUp
  <2> QED
    BY <2>7, <2>8
<1>2. StorageInv /\ [Next]_vars => [\A c \in Clients : Stored(c)]_vars
  BY <1>1
<1> QED
  BY <1>2, StorageAlways, PTL DEF Spec, WholeBodyIsStored

-----------------------------------------------------------------------------
(* The process *)

(* What a start has done of the schema when it comes to a statement. *)
SchemaInv ==
    /\ phase \in SqliteSteps => driver = "sqlite"
    /\ phase = "query" => driver = "postgres"
    /\ phase = "createIndex" => "objects" \in schema
    /\ phase = "createUploads" => SchemaParts \ {"uploads"} \subseteq schema
    /\ phase = "addColumn" => SchemaParts \subseteq schema
    /\ phase \in {"listen"} \cup ServingPhases => Needed \subseteq schema

LifeInv ==
    /\ LifecycleTypeOK
    /\ SchemaInv
    /\ phase = "closing" => NoConnections

(* What ends the process. *)
Ending ==
    \/ ServerClosed \/ PoolEnded \/ SignalWhileClosing \/ ForceExit \/ Die
    \/ StartFails \/ StartKilled

(* A start that goes on. *)
Starting ==
    \/ Start \/ CreateObjects \/ CreateIndex \/ CreateUploads \/ AddColumn
    \/ RunQuery \/ Listen

LEMMA LifeMoves ==
    ASSUME [Next]_vars
    PROVE  \/ UNCHANGED lifecycleVars
           \/ \E c \in Clients : \/ Request(c) \/ Respond(c)
                                 \/ Connect(c) \/ Disconnect(c)
           \/ Starting \/ Signal \/ SignalAgain \/ DrainTimeout
           \/ ServerClosedPool
           \/ Ending
<1>1. ASSUME NEW c \in Clients, Arrive(c) \/ Handle(c) \/ Notice(c)
      PROVE  Request(c) \/ Respond(c) \/ UNCHANGED lifecycleVars
  BY <1>1 DEF Arrive, Handle, Notice
<1> QED
  BY <1>1
  DEF Next, LifecycleStep, StorageOnly, Stop, Ending, Bootstrap, Starting, vars

(* Every statement finds what the one before it has left. *)
LEMMA StartingKeeps == LifeInv /\ Starting => LifeInv'
<1> SUFFICES ASSUME LifeInv, Starting PROVE LifeInv'
  OBVIOUS
<1> USE DEF LifeInv, LifecycleTypeOK, SchemaInv, Phases, StartSteps, SqliteSteps,
            ServingPhases, SchemaParts, Needed, NoConnections
<1>1. CASE Start
  <2>1. /\ phase' = IF driver = "sqlite" THEN "createObjects" ELSE "query"
        /\ exitCode' = -1 /\ UNCHANGED <<driver, schema, conn, drained, signals>>
        /\ driver \in {"sqlite", "postgres"}
    BY <1>1, LifecycleAssumption DEF Start
  <2> QED
    BY <2>1
<1>2. CASE CreateObjects
  <2>1. /\ phase' = "createIndex" /\ driver = "sqlite"
        /\ schema' \subseteq SchemaParts /\ "objects" \in schema'
        /\ UNCHANGED <<driver, conn, drained, signals, exitCode>>
    BY <1>2 DEF CreateObjects, Statement
  <2> QED
    BY <2>1
<1>3. CASE CreateIndex
  BY <1>3 DEF CreateIndex, Statement
<1>4. CASE CreateUploads
  BY <1>4 DEF CreateUploads, Statement
<1>5. CASE AddColumn
  <2>1. /\ phase' = "listen" /\ schema' = schema
        /\ UNCHANGED <<driver, conn, drained, signals, exitCode>>
        /\ SchemaParts \subseteq schema
    BY <1>5 DEF AddColumn, Statement
  <2> QED
    BY <2>1
<1>6. CASE RunQuery
  BY <1>6 DEF RunQuery, Statement
<1>7. CASE Listen
  BY <1>7 DEF Listen, Statement
<1> QED
  BY <1>1, <1>2, <1>3, <1>4, <1>5, <1>6, <1>7 DEF Starting

LEMMA LifeKept == LifeInv /\ [Next]_vars => LifeInv'
<1> SUFFICES ASSUME LifeInv, [Next]_vars PROVE LifeInv'
  OBVIOUS
<1> USE DEF LifeInv, LifecycleTypeOK, SchemaInv, Phases, StartSteps, SqliteSteps,
            ServingPhases, Needed, NoConnections
<1>1. CASE UNCHANGED lifecycleVars
  BY <1>1 DEF lifecycleVars
<1>2. ASSUME NEW c \in Clients, Request(c) \/ Respond(c)
      PROVE  LifeInv'
  BY <1>2 DEF Request, Respond
<1>3. ASSUME NEW c \in Clients, Connect(c) \/ Disconnect(c)
      PROVE  LifeInv'
  BY <1>3 DEF Connect, Disconnect
<1>4. CASE Starting
  BY <1>4, StartingKeeps
<1>5. CASE Signal \/ SignalAgain
  BY <1>5, LifecycleAssumption DEF Signal, SignalAgain
<1>6. CASE DrainTimeout \/ ServerClosedPool
  <2>1. CASE DrainTimeout
    BY <2>1 DEF DrainTimeout
  <2>2. CASE ServerClosedPool
    BY <2>2 DEF ServerClosedPool
  <2> QED
    BY <1>6, <2>1, <2>2
<1>7. CASE Ending
  <2>1. PICK code \in {0, 1, 143} : Exit(code)
    BY <1>7
    DEF Ending, ServerClosed, PoolEnded, SignalWhileClosing, ForceExit, Die,
        StartFails, StartKilled
  <2>2. signals' \in 0..MaxSignals
    <3>1. signals' = signals \/ (signals < MaxSignals /\ signals' = signals + 1)
      BY <1>7
      DEF Ending, ServerClosed, PoolEnded, SignalWhileClosing, ForceExit, Die,
          StartFails, StartKilled
    <3> QED
      BY <3>1, LifecycleAssumption
  <2>3. /\ phase' = "down" /\ conn' = [c \in Clients |-> "closed"]
        /\ drained' = FALSE /\ exitCode' = code
        /\ UNCHANGED <<driver, schema>>
    BY <2>1 DEF Exit
  <2> QED
    BY <2>2, <2>3
<1> QED
  BY <1>1, <1>2, <1>3, <1>4, <1>5, <1>6, <1>7, LifeMoves

LEMMA LifeAlways == Spec => []LifeInv
<1>1. Init => LifeInv
  <2> SUFFICES ASSUME LifecycleInit PROVE LifeInv
    BY DEF Init
  <2>1. schema \subseteq SchemaParts /\ signals \in 0..MaxSignals
    BY LifecycleAssumption DEF LifecycleInit, SchemaParts
  <2> QED
    BY <2>1
    DEF LifecycleInit, LifeInv, LifecycleTypeOK, SchemaInv, Phases, StartSteps,
        SqliteSteps, ServingPhases
<1> QED
  BY <1>1, LifeKept, PTL DEF Spec

(* Every variable keeps its type. *)
THEOREM ServerTypeCorrect == Spec => []TypeOK
<1>1. StorageInv /\ LifeInv => TypeOK
  BY DEF StorageInv, TypeInv, LifeInv, TypeOK
<1> QED
  BY <1>1, StorageAlways, LifeAlways, PTL

(* A server that answers requests has its whole schema, whatever database  *)
(* it found and wherever starts before it were killed or failed.           *)
THEOREM ServesMigrated == Spec => []MigratedBeforeServing
<1>1. LifeInv => MigratedBeforeServing
  BY DEF LifeInv, SchemaInv, MigratedBeforeServing, Serving
<1> QED
  BY <1>1, LifeAlways, PTL

(* The process exits with 0 before its drain timer has fired only when no  *)
(* client waits for an answer.                                             *)
THEOREM GracefulExits == Spec => GracefulExitAnswers
<1> DEFINE Answered ==
        (phase # "down" /\ phase' = "down" /\ exitCode' = 0 /\ ~drained)
            => \A c \in Clients : ~Connected(c)
<1>1. ASSUME LifeInv, [Next]_vars
      PROVE  Answered
  <2> SUFFICES ASSUME phase # "down", phase' = "down", exitCode' = 0
               PROVE  NoConnections
    BY DEF NoConnections, Connected
  <2>1. ASSUME NEW c \in Clients
        PROVE  ~Request(c) /\ ~Respond(c) /\ ~Connect(c) /\ ~Disconnect(c)
    BY DEF Request, Respond, Connect, Disconnect
  <2>2. ~UNCHANGED lifecycleVars
    BY DEF lifecycleVars
  <2>3. ~Starting /\ ~Signal /\ ~SignalAgain /\ ~DrainTimeout /\ ~ServerClosedPool
    BY DEF Starting, Start, CreateObjects, CreateIndex, CreateUploads, AddColumn,
           RunQuery, Listen, Statement, Signal, SignalAgain, DrainTimeout,
           ServerClosedPool
  <2>4. Ending
    BY <1>1, <2>1, <2>2, <2>3, LifeMoves
  <2>5. ~ForceExit /\ ~Die /\ ~StartFails /\ ~StartKilled
    BY DEF ForceExit, Die, StartFails, StartKilled, Exit
  <2> QED
    BY <1>1, <2>4, <2>5
    DEF Ending, ServerClosed, PoolEnded, SignalWhileClosing, LifeInv
<1>2. LifeInv /\ [Next]_vars => [Answered]_vars
  BY <1>1
<1> QED
  BY <1>2, LifeAlways, PTL DEF Spec, GracefulExitAnswers
=============================================================================
