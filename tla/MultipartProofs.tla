--------------------------- MODULE MultipartProofs ---------------------------
(***************************************************************************)
(* Proofs about Multipart, for any sets of uploads, bodies, versions,      *)
(* requests and cleaner runs.                                              *)
(***************************************************************************)
EXTENDS Multipart, TLAPS

-----------------------------------------------------------------------------
(* The inductive invariant, in seven parts.  AckInv holds with SQLite and  *)
(* CoverInv as long as removing files works, the others always.            *)

PartSteps == {"write", "readParts", "updateParts"}
CompleteSteps == {"checkParts", "assemble", "insertObject"}

(* What TypeOK lacks to be inductive: the locals that a step uses are set. *)
WellFormed(p) ==
    /\ p.pc \in {"idle", "batch"} <=> p.up = None
    /\ p.up = None => p.op = None
    /\ p.pc \in {"findBucket", "insertUpload"} <=> p.op = "initiate"
    /\ p.pc = "findUpload" => p.op \in {"uploadPart", "complete", "abort"}
    /\ p.pc \in PartSteps => p.op = "uploadPart"
    /\ p.op = "uploadPart" => p.part \in PartNumbers /\ p.body \in Contents
    /\ p.pc \in CompleteSteps => p.op = "complete"
    /\ p.op = "complete" => p.list \in Lists /\ p.ver \in Versions

TypeInv ==
    /\ TypeOK
    /\ file \in [Versions -> Seq(Contents) \cup {None}]
    /\ \A p \in Procs : WellFormed(proc[p])

(* The file that a completing request writes exists.                       *)
OpenInv ==
    \A p \in Procs : proc[p].pc \in {"assemble", "insertObject"} =>
        file[proc[p].ver] # None

(* A body is stored under the upload and number it was sent for, only.     *)
SentInv ==
    /\ \A p \in Procs : proc[p].op = "uploadPart" =>
         sentAs[proc[p].body] = <<proc[p].up, proc[p].part>>
    /\ \A f \in Uploads \X PartNumbers :
         partFile[f] # None => sentAs[partFile[f]] = f

(* Contents cs are whole bodies sent for the parts of u that l begins with.*)
Copied(cs, u, l) ==
    /\ Len(cs) <= Len(l)
    /\ \A i \in DOMAIN cs : sentAs[cs[i]] = <<u, l[i]>>

(* A completing request has its version, and the file of it, for itself.   *)
VersionFacts(p) ==
    /\ proc[p].ver \in usedVersions
    /\ proc[p].pc # "deleteUpload" => proc[p].ver \notin Objects
    /\ \A q \in Procs \ {p} : proc[q].op = "complete" =>
         proc[q].ver # proc[p].ver
    /\ proc[p].pc \in {"assemble", "insertObject"} =>
         Copied(file[proc[p].ver], proc[p].up, proc[p].list)
    /\ proc[p].pc = "insertObject" =>
         Len(file[proc[p].ver]) = Len(proc[p].list)

AssemblyInv ==
    /\ Objects \subseteq usedVersions
    /\ \A p \in Procs : proc[p].op = "complete" => VersionFacts(p)
    /\ ObjectsAreWhole

(* An upload that is still to be initiated has no row, no acknowledged     *)
(* part and nobody who sends one; requests that know its id get an error.  *)
Unborn(p) ==
    /\ upload[proc[p].up] = None
    /\ acked[proc[p].up] = NoParts
    /\ \A q \in Procs \ {p} : proc[q].op = "initiate" =>
         proc[q].up # proc[p].up
    /\ \A q \in Procs : proc[q].pc \in PartSteps => proc[q].up # proc[p].up

BirthInv ==
    /\ Rows \subseteq usedUploads
    /\ \A u \in Uploads : acked[u] # NoParts => u \in usedUploads
    /\ \A p \in Procs : proc[p].op # None => proc[p].up \in usedUploads
    /\ \A p \in Procs : proc[p].op = "initiate" => Unborn(p)

(* With SQLite upsertPart is not interrupted between its two statements.   *)
AckInv ==
    /\ \A p \in Procs : proc[p].pc = "updateParts" =>
         /\ loop = p
         /\ upload[proc[p].up] # None =>
              proc[p].parts = upload[proc[p].up].parts
    /\ \A u \in Rows : upload[u].parts = acked[u]

(* Parts ns of upload u are in the files, or the upload is as good as gone.*)
Covered(u, ns) ==
    u \in Rows \ interrupted =>
        \/ \A n \in ns : partFile[<<u, n>>] # None
        \/ \E p \in Procs : proc[p].up = u /\ proc[p].pc \in Removing

(* Also what upsertPart is about to record is in the files.                *)
CoverInv ==
    /\ ~bucketAlive => Rows = {}
    /\ \A u \in Uploads :
         upload[u] # None => Covered(u, Recorded(upload[u].parts))
    /\ \A p \in Procs : proc[p].pc \in {"readParts", "updateParts"} =>
         Covered(proc[p].up, {proc[p].part})
    /\ \A p \in Procs : proc[p].pc = "updateParts" =>
         Covered(proc[p].up, Recorded(proc[p].parts))

-----------------------------------------------------------------------------
(* Steps of processes *)

Step(p) ==
    \/ Arrive(p)
    \/ RequestStep(p)
    \/ CleanFind(p) \/ CleanNext(p)

LEMMA NextSteps ==
    [Next]_vars => \/ UNCHANGED vars
                   \/ \E p \in Procs : Step(p)
                   \/ \E u \in Uploads : Age(u)
                   \/ DropBucket
                   \/ Crash
  BY DEF Next, Step, CleanerStep, RequestStep, Procs

-----------------------------------------------------------------------------
(* Types *)

LEMMA NoPartsType == NoParts \in Parts
  BY DEF NoParts, Parts

LEMMA IdleTypes ==
    /\ Idle \in Proc /\ WellFormed(Idle)
    /\ Idle.pc = "idle" /\ Idle.op = None /\ Idle.up = None /\ Idle.ver = None
<1>1. Idle \in Proc
  BY NoPartsType DEF Idle, Proc, PC
<1>2. WellFormed(Idle)
  BY SentinelAssumption
  DEF Idle, WellFormed, Ops, PartSteps, CompleteSteps
<1> QED
  BY <1>1, <1>2 DEF Idle

LEMMA GotoTypes ==
    ASSUME TypeInv, NEW p \in Procs, NEW local \in Proc, WellFormed(local),
           Goto(p, local)
    PROVE  /\ proc' \in [Procs -> Proc]
           /\ \A q \in Procs : WellFormed(proc'[q])
  BY DEF TypeInv, TypeOK, Goto

(* What a process that has finished looks like. *)
Ended(local) ==
    /\ local.pc \in {"idle", "batch"}
    /\ local.op = None /\ local.up = None /\ local.ver = None

LEMMA FinishTypes ==
    ASSUME TypeInv, NEW p \in Procs, Finish(p)
    PROVE  /\ proc' \in [Procs -> Proc]
           /\ \A q \in Procs : WellFormed(proc'[q])
           /\ \A q \in Procs \ {p} : proc'[q] = proc[q]
           /\ Ended(proc'[p])
<1>1. CASE p \in Requests
  BY <1>1, IdleTypes, GotoTypes DEF Finish, Goto, Ended, TypeInv, TypeOK
<1>2. CASE p \notin Requests
  <2> DEFINE local == [Idle EXCEPT !.pc = "batch", !.todo = proc[p].todo]
  <2>1. proc[p].todo \in SUBSET (Uploads \X Parts)
    BY DEF TypeInv, TypeOK, Proc
  <2>2. /\ local \in Proc
        /\ local.pc = "batch" /\ local.op = None /\ local.up = None
        /\ local.ver = None
    BY <2>1, IdleTypes DEF Proc, PC
  <2>3. WellFormed(local)
    BY <2>2, SentinelAssumption DEF WellFormed, Ops, PartSteps, CompleteSteps
  <2>4. Goto(p, local)
    BY <1>2 DEF Finish
  <2> HIDE DEF local
  <2>5. proc'[p] = local /\ \A q \in Procs \ {p} : proc'[q] = proc[q]
    BY <2>4 DEF Goto, TypeInv, TypeOK
  <2> QED
    BY <2>2, <2>3, <2>4, <2>5, GotoTypes DEF Ended
<1> QED
  BY <1>1, <1>2

(* The four ways a request arrives. *)
LEMMA ArriveLocal ==
    ASSUME TypeInv, NEW p \in Procs, Arrive(p)
    PROVE  LET x == proc'[p] IN
           /\ x \in Proc /\ WellFormed(x)
           /\ Goto(p, x)
           /\ \/ /\ ArriveInitiate(p)
                 /\ x.pc = "findBucket" /\ x.op = "initiate"
                 /\ x.up \in Uploads \ usedUploads
                 /\ usedUploads' = usedUploads \cup {x.up}
              \/ /\ ArrivePart(p)
                 /\ x.pc = "findUpload" /\ x.op = "uploadPart"
                 /\ x.up \in usedUploads /\ x.part \in PartNumbers
                 /\ x.body \in Contents /\ sentAs[x.body] = None
                 /\ sentAs' = [sentAs EXCEPT ![x.body] = <<x.up, x.part>>]
              \/ /\ ArriveComplete(p)
                 /\ x.pc = "findUpload" /\ x.op = "complete"
                 /\ x.up \in usedUploads /\ x.list \in Lists
                 /\ x.ver \in Versions \ usedVersions
                 /\ usedVersions' = usedVersions \cup {x.ver}
              \/ /\ ArriveAbort(p)
                 /\ x.pc = "findUpload" /\ x.op = "abort"
                 /\ x.up \in usedUploads
<1> USE SentinelAssumption
<1>0. usedUploads \subseteq Uploads /\ proc \in [Procs -> Proc]
  BY DEF TypeInv, TypeOK
<1>1. CASE ArriveInitiate(p)
  <2>1. PICK u \in Uploads \ usedUploads :
          /\ Goto(p, [Idle EXCEPT !.pc = "findBucket", !.op = "initiate",
                                  !.up = u])
          /\ usedUploads' = usedUploads \cup {u}
    BY <1>1 DEF ArriveInitiate
  <2> DEFINE x == [Idle EXCEPT !.pc = "findBucket", !.op = "initiate",
                               !.up = u]
  <2>2. x \in Proc /\ x.pc = "findBucket" /\ x.op = "initiate" /\ x.up = u
    BY IdleTypes DEF Proc, PC, Ops
  <2>3. WellFormed(x)
    BY <2>2 DEF WellFormed, PartSteps, CompleteSteps
  <2>4. Goto(p, x)
    BY <2>1
  <2> HIDE DEF x
  <2>5. proc'[p] = x
    BY <1>0, <2>4 DEF Goto
  <2> QED
    BY <1>1, <2>1, <2>2, <2>3, <2>4, <2>5
<1>2. CASE ArrivePart(p)
  <2>1. PICK u \in usedUploads, n \in PartNumbers,
             c \in {c \in Contents : sentAs[c] = None} :
          /\ Goto(p, [Idle EXCEPT !.pc = "findUpload", !.op = "uploadPart",
                                  !.up = u, !.part = n, !.body = c])
          /\ sentAs' = [sentAs EXCEPT ![c] = <<u, n>>]
    BY <1>2 DEF ArrivePart
  <2> DEFINE x == [Idle EXCEPT !.pc = "findUpload", !.op = "uploadPart",
                               !.up = u, !.part = n, !.body = c]
  <2>2. /\ x \in Proc /\ x.pc = "findUpload" /\ x.op = "uploadPart"
        /\ x.up = u /\ x.part = n /\ x.body = c
    BY <1>0, IdleTypes DEF Proc, PC, Ops
  <2>3. WellFormed(x)
    BY <1>0, <2>2 DEF WellFormed, PartSteps, CompleteSteps
  <2>4. Goto(p, x)
    BY <2>1
  <2> HIDE DEF x
  <2>5. proc'[p] = x
    BY <1>0, <2>4 DEF Goto
  <2> QED
    BY <1>2, <2>1, <2>2, <2>3, <2>4, <2>5
<1>3. CASE ArriveComplete(p)
  <2>1. PICK u \in usedUploads, l \in Lists, v \in Versions \ usedVersions :
          /\ Goto(p, [Idle EXCEPT !.pc = "findUpload", !.op = "complete",
                                  !.up = u, !.list = l, !.ver = v])
          /\ usedVersions' = usedVersions \cup {v}
    BY <1>3 DEF ArriveComplete
  <2> DEFINE x == [Idle EXCEPT !.pc = "findUpload", !.op = "complete",
                               !.up = u, !.list = l, !.ver = v]
  <2>2. /\ x \in Proc /\ x.pc = "findUpload" /\ x.op = "complete"
        /\ x.up = u /\ x.list = l /\ x.ver = v
    BY <1>0, IdleTypes DEF Proc, PC, Ops
  <2>3. WellFormed(x)
    BY <1>0, <2>2 DEF WellFormed, PartSteps, CompleteSteps
  <2>4. Goto(p, x)
    BY <2>1
  <2> HIDE DEF x
  <2>5. proc'[p] = x
    BY <1>0, <2>4 DEF Goto
  <2> QED
    BY <1>3, <2>1, <2>2, <2>3, <2>4, <2>5
<1>4. CASE ArriveAbort(p)
  <2>1. PICK u \in usedUploads :
          Goto(p, [Idle EXCEPT !.pc = "findUpload", !.op = "abort", !.up = u])
    BY <1>4 DEF ArriveAbort
  <2> DEFINE x == [Idle EXCEPT !.pc = "findUpload", !.op = "abort", !.up = u]
  <2>2. x \in Proc /\ x.pc = "findUpload" /\ x.op = "abort" /\ x.up = u
    BY <1>0, IdleTypes DEF Proc, PC, Ops
  <2>3. WellFormed(x)
    BY <1>0, <2>2 DEF WellFormed, PartSteps, CompleteSteps
  <2>4. Goto(p, x)
    BY <2>1
  <2> HIDE DEF x
  <2>5. proc'[p] = x
    BY <1>0, <2>4 DEF Goto
  <2> QED
    BY <1>4, <2>1, <2>2, <2>3, <2>4, <2>5
<1> QED
  BY <1>1, <1>2, <1>3, <1>4 DEF Arrive
(* What a step that goes on keeps of the request. *)
Kept(p) ==
    /\ proc'[p].op = proc[p].op /\ proc'[p].up = proc[p].up
    /\ proc'[p].part = proc[p].part /\ proc'[p].body = proc[p].body
    /\ proc'[p].list = proc[p].list /\ proc'[p].ver = proc[p].ver

(* A process goes on at statement pc, with other parts in its hands.       *)
GoesOn(p, pc, parts) ==
    /\ proc'[p].pc = pc /\ proc'[p].parts = parts
    /\ Kept(p)

LEMMA GoOnTypes ==
    ASSUME TypeInv, NEW p \in Procs, NEW pc \in PC, NEW parts \in Parts,
           NEW local,
           \/ local = [proc[p] EXCEPT !.pc = pc, !.parts = parts]
           \/ local = [proc[p] EXCEPT !.pc = pc] /\ parts = proc[p].parts,
           proc[p].up # None, pc \notin {"idle", "batch", "findUpload"},
           pc \in {"findBucket", "insertUpload"} <=> proc[p].op = "initiate",
           pc \in PartSteps => proc[p].op = "uploadPart",
           pc \in CompleteSteps => proc[p].op = "complete",
           Goto(p, local)
    PROVE  /\ proc' \in [Procs -> Proc]
           /\ \A q \in Procs : WellFormed(proc'[q])
           /\ \A q \in Procs \ {p} : proc'[q] = proc[q]
           /\ GoesOn(p, pc, parts)
<1>1. proc[p] \in Proc /\ WellFormed(proc[p])
  BY DEF TypeInv, TypeOK
<1>2. /\ local \in Proc /\ local.pc = pc /\ local.parts = parts
      /\ local.op = proc[p].op /\ local.up = proc[p].up
      /\ local.part = proc[p].part /\ local.body = proc[p].body
      /\ local.list = proc[p].list /\ local.ver = proc[p].ver
  BY <1>1 DEF Proc
<1>3. WellFormed(local)
  BY <1>1, <1>2 DEF WellFormed
<1>4. proc'[p] = local /\ \A q \in Procs \ {p} : proc'[q] = proc[q]
  BY DEF Goto, TypeInv, TypeOK
<1> QED
  BY <1>2, <1>3, <1>4, GotoTypes DEF GoesOn, Kept

(* An initiating request never looks its upload up.                        *)
LEMMA FindUploadGoes ==
    ASSUME TypeInv, NEW p \in Procs, proc[p].pc = "findUpload"
    PROVE  LET pc == AfterFindUpload[proc[p].op] IN
           /\ pc \in {"write", "checkParts", "removeParts"}
           /\ pc = "write" => proc[p].op = "uploadPart"
           /\ pc = "checkParts" => proc[p].op = "complete"
           /\ proc[p].op # "initiate"
  BY DEF TypeInv, WellFormed, AfterFindUpload

(* What each step does to the local state of its process. *)
LEMMA RequestLocal ==
    ASSUME TypeInv, NEW p \in Procs, RequestStep(p)
    PROVE  /\ proc' \in [Procs -> Proc]
           /\ \A q \in Procs : WellFormed(proc'[q])
           /\ \A q \in Procs \ {p} : proc'[q] = proc[q]
           /\ \/ Ended(proc'[p])
              \/ /\ InitiateFindBucket(p)
                 /\ GoesOn(p, "insertUpload", proc[p].parts)
              \/ /\ FindUpload(p) /\ upload[proc[p].up] # None
                 /\ GoesOn(p, AfterFindUpload[proc[p].op],
                           upload[proc[p].up].parts)
              \/ WritePart(p) /\ GoesOn(p, "readParts", proc[p].parts)
              \/ /\ ReadParts(p) /\ upload[proc[p].up] # None
                 /\ GoesOn(p, "updateParts", upload[proc[p].up].parts)
              \/ CheckParts(p) /\ GoesOn(p, "assemble", proc[p].parts)
              \/ AssemblePart(p) /\ proc' = proc
              \/ AssembleDone(p) /\ GoesOn(p, "insertObject", proc[p].parts)
              \/ InsertObject(p) /\ GoesOn(p, "deleteUpload", proc[p].parts)
              \/ RemoveParts(p) /\ GoesOn(p, "deleteUpload", proc[p].parts)
<1>0. /\ proc[p] \in Proc /\ WellFormed(proc[p]) /\ proc \in [Procs -> Proc]
      /\ \A q \in Procs : WellFormed(proc[q])
  BY DEF TypeInv, TypeOK
<1>1. proc[p].parts \in Parts
  BY <1>0 DEF Proc
<1>2. \A u \in Uploads : upload[u] # None => upload[u].parts \in Parts
  BY DEF TypeInv, TypeOK, UploadRow
<1>3. CASE Finish(p)
  BY <1>3, FinishTypes
<1>4. CASE InitiateFindBucket(p) /\ ~Finish(p)
  <2>1. /\ Goto(p, [proc[p] EXCEPT !.pc = "insertUpload"])
        /\ proc[p].pc = "findBucket"
    BY <1>4 DEF InitiateFindBucket, At
  <2>2. proc[p].op = "initiate" /\ proc[p].up # None
    BY <1>0, <2>1 DEF WellFormed
  <2> HIDE DEF Goto
  <2> QED
    BY <1>1, <1>4, <2>1, <2>2, GoOnTypes DEF PC, PartSteps, CompleteSteps
<1>5. CASE FindUpload(p) /\ ~Finish(p)
  <2> DEFINE u == proc[p].up
             pc == AfterFindUpload[proc[p].op]
  <2>1. /\ Goto(p, [proc[p] EXCEPT !.pc = pc, !.parts = upload[u].parts])
        /\ proc[p].pc = "findUpload" /\ upload[u] # None
    BY <1>5 DEF FindUpload, At
  <2>2. u # None /\ u \in Uploads
    BY <1>0, <2>1 DEF WellFormed, Proc
  <2>3. /\ proc[p].op # "initiate"
        /\ pc \in {"write", "checkParts", "removeParts"}
        /\ pc = "write" => proc[p].op = "uploadPart"
        /\ pc = "checkParts" => proc[p].op = "complete"
    BY <2>1, FindUploadGoes
  <2>4. upload[u].parts \in Parts
    BY <1>2, <2>1, <2>2
  <2> HIDE DEF pc
  <2>5. /\ pc \in PC
        /\ pc \notin {"idle", "batch", "findUpload"}
        /\ pc \in {"findBucket", "insertUpload"} <=> proc[p].op = "initiate"
        /\ pc \in PartSteps => proc[p].op = "uploadPart"
        /\ pc \in CompleteSteps => proc[p].op = "complete"
    BY <2>3 DEF PC, PartSteps, CompleteSteps
  <2>6. /\ proc' \in [Procs -> Proc]
        /\ \A q \in Procs : WellFormed(proc'[q])
        /\ \A q \in Procs \ {p} : proc'[q] = proc[q]
        /\ GoesOn(p, pc, upload[u].parts)
    BY <2>1, <2>2, <2>4, <2>5, GoOnTypes
  <2> QED
    BY <1>5, <2>1, <2>6 DEF pc
<1>6. CASE WritePart(p)
  <2>1. /\ Goto(p, [proc[p] EXCEPT !.pc = "readParts"])
        /\ proc[p].pc = "write"
    BY <1>6 DEF WritePart, At
  <2>2. proc[p].op = "uploadPart" /\ proc[p].up # None
    BY <1>0, <2>1 DEF WellFormed, PartSteps
  <2> QED
    BY <1>1, <1>6, <2>1, <2>2, GoOnTypes DEF PC, PartSteps, CompleteSteps
<1>7. CASE ReadParts(p) /\ ~Finish(p)
  <2> DEFINE u == proc[p].up
  <2>1. /\ Goto(p, [proc[p] EXCEPT !.pc = "updateParts",
                                   !.parts = upload[u].parts])
        /\ proc[p].pc = "readParts" /\ upload[u] # None
    BY <1>7 DEF ReadParts, At
  <2>2. /\ proc[p].op = "uploadPart"
        /\ u # None /\ u \in Uploads
    BY <1>0, <2>1 DEF WellFormed, PartSteps, Proc
  <2>3. upload[u].parts \in Parts
    BY <1>2, <2>1, <2>2
  <2> QED
    BY <1>7, <2>1, <2>2, <2>3, GoOnTypes DEF PC, PartSteps, CompleteSteps
<1>8. CASE CheckParts(p) /\ ~Finish(p)
  <2>1. /\ Goto(p, [proc[p] EXCEPT !.pc = "assemble"])
        /\ proc[p].pc = "checkParts"
    BY <1>8 DEF CheckParts, At
  <2>2. proc[p].op = "complete" /\ proc[p].up # None
    BY <1>0, <2>1 DEF WellFormed, CompleteSteps
  <2> QED
    BY <1>1, <1>8, <2>1, <2>2, GoOnTypes DEF PC, PartSteps, CompleteSteps
<1>9. CASE AssemblePart(p) /\ ~Finish(p)
  BY <1>0, <1>9 DEF AssemblePart
<1>10. CASE AssembleDone(p) /\ ~Finish(p)
  <2>1. /\ Goto(p, [proc[p] EXCEPT !.pc = "insertObject"])
        /\ proc[p].pc = "assemble"
    BY <1>10 DEF AssembleDone, At
  <2>2. proc[p].op = "complete" /\ proc[p].up # None
    BY <1>0, <2>1 DEF WellFormed, CompleteSteps
  <2> QED
    BY <1>1, <1>10, <2>1, <2>2, GoOnTypes DEF PC, PartSteps, CompleteSteps
<1>11. CASE InsertObject(p) /\ ~Finish(p)
  <2>1. /\ Goto(p, [proc[p] EXCEPT !.pc = "deleteUpload"])
        /\ proc[p].pc = "insertObject"
    BY <1>11 DEF InsertObject, At
  <2>2. proc[p].op = "complete" /\ proc[p].up # None
    BY <1>0, <2>1 DEF WellFormed, CompleteSteps
  <2> QED
    BY <1>1, <1>11, <2>1, <2>2, GoOnTypes DEF PC, PartSteps, CompleteSteps
<1>12. CASE RemoveParts(p) /\ ~Finish(p)
  <2>1. /\ Goto(p, [proc[p] EXCEPT !.pc = "deleteUpload"])
        /\ proc[p].pc = "removeParts"
    BY <1>12 DEF RemoveParts, At
  <2>2. proc[p].op # "initiate" /\ proc[p].up # None
    BY <1>0, <2>1 DEF WellFormed
  <2> QED
    BY <1>1, <1>12, <2>1, <2>2, GoOnTypes DEF PC, PartSteps, CompleteSteps
<1>13. InitiateInsert(p) \/ WritePartFails(p) \/ UpdateParts(p) \/ DeleteUpload(p)
        => Finish(p)
  BY DEF InitiateInsert, WritePartFails, UpdateParts, DeleteUpload
<1> QED
  BY <1>3, <1>4, <1>5, <1>6, <1>7, <1>8, <1>9, <1>10, <1>11, <1>12, <1>13
  DEF RequestStep

(* The cleaner's own steps: it is on no request's behalf. *)
LEMMA CleanLocal ==
    ASSUME TypeInv, NEW p \in Procs, CleanFind(p) \/ CleanNext(p)
    PROVE  /\ proc' \in [Procs -> Proc]
           /\ \A q \in Procs : WellFormed(proc'[q])
           /\ \A q \in Procs \ {p} : proc'[q] = proc[q]
           /\ proc'[p].pc \in {"idle", "batch", "removeParts"}
           /\ proc'[p].op = None
<1>0. proc[p] \in Proc /\ proc \in [Procs -> Proc] /\ WellFormed(proc[p])
  BY DEF TypeInv, TypeOK
<1>1. SUFFICES \E local \in Proc :
        /\ WellFormed(local) /\ Goto(p, local)
        /\ local.pc \in {"idle", "batch", "removeParts"}
        /\ local.op = None
  BY <1>0, GotoTypes DEF Goto
<1>2. CASE CleanFind(p)
  <2> DEFINE stale == {u \in Rows : upload[u].stale}
             todo == {<<u, upload[u].parts>> : u \in stale}
             local == [Idle EXCEPT !.pc = "batch", !.todo = todo]
  <2>1. todo \subseteq Uploads \X Parts
    BY DEF Rows, TypeInv, TypeOK, UploadRow
  <2> HIDE DEF todo
  <2>2. /\ local \in Proc /\ local.pc = "batch" /\ local.op = None
        /\ local.up = None
    BY <2>1, IdleTypes DEF Proc, PC
  <2>3. WellFormed(local)
    BY <2>2, SentinelAssumption DEF WellFormed, Ops, PartSteps, CompleteSteps
  <2>4. Goto(p, local)
    BY <1>2 DEF CleanFind, todo
  <2> QED
    BY <2>2, <2>3, <2>4
<1>3. CASE CleanNext(p)
  <2>1. CASE proc[p].todo = {}
    BY <1>3, <2>1, IdleTypes DEF CleanNext
  <2>2. CASE proc[p].todo # {}
    <3>1. PICK t \in proc[p].todo :
            Goto(p, [proc[p] EXCEPT !.pc = "removeParts", !.todo = @ \ {t},
                                    !.up = t[1], !.parts = t[2]])
      BY <1>3, <2>2 DEF CleanNext
    <3> DEFINE local == [proc[p] EXCEPT !.pc = "removeParts",
                            !.todo = @ \ {t}, !.up = t[1], !.parts = t[2]]
    <3>2. t[1] \in Uploads /\ t[2] \in Parts
      BY <1>0 DEF Proc
    <3>3. proc[p].pc = "batch" /\ proc[p].op = None
      BY <1>0, <1>3, SentinelAssumption
      DEF CleanNext, At, WellFormed, Proc
    <3>4. /\ local \in Proc /\ local.pc = "removeParts" /\ local.op = None
          /\ local.up = t[1]
      BY <1>0, <3>2, <3>3 DEF Proc, PC
    <3>5. WellFormed(local)
      BY <3>2, <3>4, SentinelAssumption
      DEF WellFormed, Ops, PartSteps, CompleteSteps
    <3> QED
      BY <3>1, <3>4, <3>5
  <2> QED
    BY <2>1, <2>2
<1> QED
  BY <1>2, <1>3
LEMMA StepFrame ==
    ASSUME TypeInv, NEW p \in Procs, Step(p)
    PROVE  /\ proc' \in [Procs -> Proc]
           /\ \A q \in Procs : WellFormed(proc'[q])
           /\ \A q \in Procs \ {p} : proc'[q] = proc[q]
<1>1. CASE Arrive(p)
  <2>1. proc'[p] \in Proc /\ WellFormed(proc'[p]) /\ Goto(p, proc'[p])
    BY <1>1, ArriveLocal
  <2>2. \A q \in Procs \ {p} : proc'[q] = proc[q]
    BY <2>1 DEF Goto, TypeInv, TypeOK
  <2> QED
    BY <2>1, <2>2, GotoTypes
<1> QED
  BY <1>1, RequestLocal, CleanLocal DEF Step

LEMMA EmptyFile == <<>> \in Seq(Contents) /\ <<>> # None
<1>1. <<>> \in Seq(Contents)
  OBVIOUS
<1> QED
  BY <1>1, SentinelAssumption

LEMMA ListType == \A l \in Lists : l \in Seq(PartNumbers)
  BY DEF Lists

(* The part that is copied next is one of the upload's part numbers.       *)
LEMMA NextPartType ==
    ASSUME TypeInv, OpenInv, NEW p \in Procs, proc[p].pc = "assemble",
           Len(file[proc[p].ver]) < Len(proc[p].list)
    PROVE  NextPart(p) \in Uploads \X PartNumbers
<1>1. /\ proc[p].op = "complete" /\ proc[p].up \in Uploads
  BY DEF TypeInv, TypeOK, WellFormed, CompleteSteps, Proc
<1>2. proc[p].list \in Seq(PartNumbers) /\ proc[p].ver \in Versions
  BY <1>1, ListType DEF TypeInv, WellFormed
<1>3. file[proc[p].ver] \in Seq(Contents)
  BY <1>2 DEF TypeInv, OpenInv
<1>4. Len(file[proc[p].ver]) + 1 \in 1..Len(proc[p].list)
  BY <1>2, <1>3
<1> QED
  BY <1>1, <1>2, <1>4 DEF NextPart

(* What a step of a process does to the tables and the files.              *)
LEMMA StepType ==
    ASSUME TypeInv, OpenInv, NEW p \in Procs, Step(p)
    PROVE  TypeInv'
<1>0. /\ proc[p] \in Proc /\ WellFormed(proc[p])
      /\ p \in Procs \cup {Free} /\ Free \in Procs \cup {Free}
  BY DEF TypeInv, TypeOK
<1>1. /\ proc' \in [Procs -> Proc]
      /\ \A q \in Procs : WellFormed(proc'[q])
  BY StepFrame
<1>2. CASE Arrive(p)
  <2>1. /\ UNCHANGED <<tables, files, loop, history>>
        /\ usedUploads' \subseteq Uploads /\ usedVersions' \subseteq Versions
        /\ sentAs' \in [Contents -> (Uploads \X PartNumbers) \cup {None}]
    <3>1. CASE ArriveInitiate(p)
      BY <3>1 DEF ArriveInitiate, TypeInv, TypeOK
    <3>2. CASE ArrivePart(p)
      BY <3>2 DEF ArrivePart, TypeInv, TypeOK
    <3>3. CASE ArriveComplete(p)
      BY <3>3 DEF ArriveComplete, TypeInv, TypeOK
    <3>4. CASE ArriveAbort(p)
      BY <3>4 DEF ArriveAbort, drawn, TypeInv, TypeOK
    <3> QED
      BY <1>2, <3>1, <3>2, <3>3, <3>4 DEF Arrive
  <2> QED
    BY <1>1, <2>1 DEF TypeInv, TypeOK, tables, files, history
<1>3. CASE \/ InitiateFindBucket(p) \/ FindUpload(p) \/ WritePartFails(p)
           \/ CleanFind(p) \/ CleanNext(p)
  <2>1. UNCHANGED <<tables, files, loop, drawn, history>>
    BY <1>3
    DEF InitiateFindBucket, FindUpload, WritePartFails, CleanFind, CleanNext
  <2> QED
    BY <1>1, <2>1 DEF TypeInv, TypeOK, tables, files, drawn, history
<1>4. CASE InitiateInsert(p)
  <2>1. NewUpload \in UploadRow
    BY NoPartsType DEF NewUpload, UploadRow
  <2>2. upload' \in [Uploads -> UploadRow \cup {None}]
    BY <1>4, <2>1 DEF InitiateInsert, TypeInv, TypeOK
  <2> QED
    BY <1>1, <1>4, <2>2
    DEF InitiateInsert, TypeInv, TypeOK, files, drawn, history
<1>5. CASE WritePart(p)
  <2>1. proc[p].up \in Uploads /\ proc[p].part \in PartNumbers
        /\ proc[p].body \in Contents
    BY <1>0, <1>5 DEF WritePart, At, WellFormed, PartSteps, Proc
  <2>2. partFile' \in [Uploads \X PartNumbers -> Contents \cup {None}]
    BY <1>5, <2>1 DEF WritePart, TypeInv, TypeOK
  <2> QED
    BY <1>1, <1>5, <2>2 DEF WritePart, TypeInv, TypeOK, tables, drawn, history
<1>6. CASE ReadParts(p)
  <2>1. loop' \in Procs \cup {Free}
    BY <1>0, <1>6 DEF ReadParts, YieldLoop, KeepLoop
  <2> QED
    BY <1>1, <1>6, <2>1 DEF ReadParts, TypeInv, TypeOK, tables, files, drawn, history
<1>7. CASE UpdateParts(p)
  <2> DEFINE x == proc[p]
             parts == [x.parts EXCEPT ![x.part] = x.body]
  <2>1. x.up \in Uploads /\ x.part \in PartNumbers /\ x.body \in Contents
    BY <1>0, <1>7 DEF UpdateParts, At, WellFormed, PartSteps, Proc
  <2>2. parts \in Parts
    BY <1>0, <2>1 DEF Proc, Parts
  <2>3. upload' \in [Uploads -> UploadRow \cup {None}]
    <3>1. CASE upload[x.up] = None
      BY <1>7, <3>1 DEF UpdateParts, TypeInv, TypeOK
    <3>2. CASE upload[x.up] # None
      <4> HIDE DEF parts
      <4>1. upload' = [upload EXCEPT ![x.up].parts = parts]
        BY <1>7, <3>2 DEF UpdateParts, parts
      <4>2. upload[x.up] \in UploadRow
        BY <2>1, <3>2 DEF TypeInv, TypeOK
      <4>3. [upload[x.up] EXCEPT !.parts = parts] \in UploadRow
        BY <2>2, <4>2 DEF UploadRow
      <4> QED
        BY <2>1, <4>1, <4>3 DEF TypeInv, TypeOK
    <3> QED
      BY <3>1, <3>2
  <2>4. acked' \in [Uploads -> Parts]
    <3>1. [acked[x.up] EXCEPT ![x.part] = x.body] \in Parts
      BY <2>1 DEF TypeInv, TypeOK, Parts
    <3> QED
      BY <1>7, <2>1, <3>1 DEF UpdateParts, TypeInv, TypeOK
  <2> QED
    BY <1>1, <1>7, <2>3, <2>4
    DEF UpdateParts, YieldLoop, TypeInv, TypeOK, files, drawn
<1>8. CASE CheckParts(p)
  <2>1. proc[p].ver \in Versions
    BY <1>0, <1>8 DEF CheckParts, At, WellFormed, CompleteSteps
  <2>2. file' = file \/ file' = [file EXCEPT ![proc[p].ver] = <<>>]
    BY <1>8 DEF CheckParts
  <2>3. file' \in [Versions -> Seq(Contents) \cup {None}]
    BY <2>1, <2>2, EmptyFile DEF TypeInv
  <2> QED
    BY <1>1, <1>8, <2>3
    DEF CheckParts, TypeInv, TypeOK, tables, drawn, history
<1>9. CASE AssemblePart(p)
  <2>1. CASE file' = file
    BY <1>1, <1>9, <2>1
    DEF AssemblePart, TypeInv, TypeOK, tables, drawn, history
  <2>2. CASE file' # file
    <3> DEFINE v == proc[p].ver
               c == partFile[NextPart(p)]
    <3>1. /\ file' = [file EXCEPT ![v] = Append(@, c)]
          /\ c # None
      BY <1>9, <2>2 DEF AssemblePart
    <3>2. v \in Versions /\ file[v] \in Seq(Contents)
      BY <1>0, <1>9
      DEF AssemblePart, At, WellFormed, CompleteSteps, TypeInv, OpenInv
    <3>3. c \in Contents
      BY <1>9, <3>1, NextPartType DEF AssemblePart, At, TypeInv, TypeOK
    <3>4. Append(file[v], c) \in Seq(Contents)
      BY <3>2, <3>3
    <3>5. file' \in [Versions -> Seq(Contents) \cup {None}]
      BY <3>1, <3>2, <3>4 DEF TypeInv
    <3> QED
      BY <1>1, <1>9, <3>5
      DEF AssemblePart, TypeInv, TypeOK, tables, drawn, history
  <2> QED
    BY <2>1, <2>2
<1>10. CASE AssembleDone(p) \/ RemoveParts(p)
  <2>1. \A u, ns, left : Removed(u, ns, left) \in
          [Uploads \X PartNumbers -> Contents \cup {None}]
    BY DEF Removed, TypeInv, TypeOK
  <2>2. \E u, ns, left : partFile' = Removed(u, ns, left)
    BY <1>10 DEF AssembleDone, RemoveParts
  <2>3. partFile' \in [Uploads \X PartNumbers -> Contents \cup {None}]
    BY <2>1, <2>2
  <2> QED
    BY <1>1, <1>10, <2>3
    DEF AssembleDone, RemoveParts, TypeInv, TypeOK, tables, drawn, history
<1>11. CASE InsertObject(p)
  <2>1. /\ proc[p].ver \in Versions /\ proc[p].list \in Lists
        /\ proc[p].up \in Uploads
    BY <1>0, <1>11 DEF InsertObject, At, WellFormed, CompleteSteps, Proc
  <2>2. [upload |-> proc[p].up, list |-> proc[p].list] \in ObjectRow
    BY <2>1 DEF ObjectRow
  <2>3. object' \in [Versions -> ObjectRow \cup {None}]
    BY <1>11, <2>1, <2>2 DEF InsertObject, TypeInv, TypeOK
  <2> QED
    BY <1>1, <1>11, <2>3
    DEF InsertObject, TypeInv, TypeOK, files, drawn, history
<1>12. CASE DeleteUpload(p)
  <2>1. upload' \in [Uploads -> UploadRow \cup {None}]
    BY <1>12 DEF DeleteUpload, TypeInv, TypeOK
  <2> QED
    BY <1>1, <1>12, <2>1
    DEF DeleteUpload, TypeInv, TypeOK, files, drawn, history
<1> QED
  BY <1>2, <1>3, <1>4, <1>5, <1>6, <1>7, <1>8, <1>9, <1>10, <1>11, <1>12
  DEF Step, RequestStep
(* A file that has been created stays.                                     *)
LEMMA FilesStay ==
    ASSUME TypeInv, OpenInv, NEW p \in Procs, Step(p)
    PROVE  \A v \in Versions : file[v] # None => file'[v] # None
<1>0. TypeInv'
  BY StepType
<1>1. CASE CheckParts(p)
  <2>1. file' = file \/ file' = [file EXCEPT ![proc[p].ver] = <<>>]
    BY <1>1 DEF CheckParts
  <2> QED
    BY <2>1, EmptyFile DEF TypeInv
<1>2. CASE AssemblePart(p)
  <2> DEFINE v == proc[p].ver
             cs == Append(file[v], partFile[NextPart(p)])
  <2>1. CASE file' = file
    BY <2>1
  <2>2. CASE file' # file
    <3>1. file' = [file EXCEPT ![v] = cs]
      BY <1>2, <2>2 DEF AssemblePart
    <3>2. /\ v \in Versions /\ file[v] \in Seq(Contents)
          /\ partFile[NextPart(p)] \in Contents
      BY <1>2, <2>2, NextPartType
      DEF AssemblePart, At, WellFormed, CompleteSteps, TypeInv, TypeOK, OpenInv
    <3>3. cs \in Seq(Contents)
      BY <3>2
    <3>4. cs # None
      BY <3>3, SentinelAssumption
    <3> HIDE DEF cs
    <3> QED
      BY <3>1, <3>4 DEF TypeInv
  <2> QED
    BY <2>1, <2>2
<1>3. CASE ~CheckParts(p) /\ ~AssemblePart(p)
  <2>1. Arrive(p) => UNCHANGED file
    BY DEF Arrive, ArriveInitiate, ArrivePart, ArriveComplete,
                ArriveAbort, files
  <2>2. RequestStep(p) => UNCHANGED file
    BY <1>3 DEF RequestStep, InitiateFindBucket, InitiateInsert,
      FindUpload, WritePart, WritePartFails, ReadParts, UpdateParts,
      AssembleDone, InsertObject, RemoveParts, DeleteUpload, files
  <2>3. CleanFind(p) \/ CleanNext(p) => UNCHANGED file
    BY DEF CleanFind, CleanNext, files
  <2>4. UNCHANGED file
    BY <2>1, <2>2, <2>3 DEF Step
  <2> QED
    BY <2>4
<1> QED
  BY <1>1, <1>2, <1>3

LEMMA StepOpen ==
    ASSUME TypeInv, OpenInv, NEW p \in Procs, Step(p)
    PROVE  OpenInv'
<1>0. TypeInv' /\ \A v \in Versions : file[v] # None => file'[v] # None
  BY StepType, FilesStay
<1>1. \A q \in Procs \ {p} : proc'[q] = proc[q]
  BY StepFrame
<1>2. \A q \in Procs : proc[q].pc \in CompleteSteps => proc[q].ver \in Versions
  BY DEF TypeInv, WellFormed
<1>3. SUFFICES ASSUME proc'[p].pc \in {"assemble", "insertObject"}
               PROVE  file'[proc'[p].ver] # None
  BY <1>0, <1>1, <1>2 DEF OpenInv, CompleteSteps
<1>4. CASE RequestStep(p)
  <2>1. CASE CheckParts(p) /\ GoesOn(p, "assemble", proc[p].parts)
    <3>1. proc[p].pc = "checkParts" /\ proc'[p] # proc[p]
      BY <2>1 DEF CheckParts, At, GoesOn
    <3>2. file' = [file EXCEPT ![proc[p].ver] = <<>>]
      BY <2>1, FinishTypes DEF CheckParts, GoesOn, Ended
    <3>3. proc[p].ver \in Versions /\ proc'[p].ver = proc[p].ver
      BY <1>2, <2>1, <3>1 DEF GoesOn, Kept, CompleteSteps
    <3> QED
      BY <3>2, <3>3, EmptyFile DEF TypeInv
  <2>2. CASE AssemblePart(p) /\ proc' = proc
    BY <1>0, <1>2, <1>3, <2>2 DEF OpenInv, CompleteSteps
  <2>3. CASE AssembleDone(p) /\ GoesOn(p, "insertObject", proc[p].parts)
    BY <1>0, <1>2, <2>3 DEF OpenInv, CompleteSteps, AssembleDone, At, GoesOn, Kept
  <2> QED
    BY <1>3, <1>4, <2>1, <2>2, <2>3, RequestLocal, FindUploadGoes
    DEF GoesOn, Ended, FindUpload, At
<1>5. CASE Arrive(p)
  BY <1>3, <1>5, ArriveLocal
<1>6. CASE CleanFind(p) \/ CleanNext(p)
  BY <1>3, <1>6, CleanLocal
<1> QED
  BY <1>4, <1>5, <1>6 DEF Step

(* Which steps change what. *)
LEMMA StepChanges ==
    ASSUME NEW p \in Procs, Step(p)
    PROVE  /\ UNCHANGED <<bucketAlive, interrupted>>
           /\ upload' = upload
                \/ InitiateInsert(p) \/ UpdateParts(p) \/ DeleteUpload(p)
           /\ object' = object \/ InsertObject(p)
           /\ partFile' = partFile
                \/ WritePart(p) \/ AssembleDone(p) \/ RemoveParts(p)
           /\ file' = file \/ CheckParts(p) \/ AssemblePart(p)
           /\ usedUploads' = usedUploads \/ ArriveInitiate(p)
           /\ usedVersions' = usedVersions \/ ArriveComplete(p)
           /\ sentAs' = sentAs \/ ArrivePart(p)
           /\ acked' = acked \/ UpdateParts(p)
           /\ loop' = loop \/ ReadParts(p) \/ UpdateParts(p)
<1>1. CASE Arrive(p)
  BY <1>1 DEF Arrive, ArriveInitiate, ArrivePart, ArriveComplete, ArriveAbort,
              tables, files, drawn, history
<1>2. CASE InitiateFindBucket(p) \/ InitiateInsert(p) \/ FindUpload(p)
  BY <1>2 DEF InitiateFindBucket, InitiateInsert, FindUpload,
              tables, files, drawn, history
<1>3. CASE WritePart(p) \/ WritePartFails(p) \/ ReadParts(p) \/ UpdateParts(p)
  BY <1>3 DEF WritePart, WritePartFails, ReadParts, UpdateParts,
              tables, files, drawn, history
<1>4. CASE CheckParts(p) \/ AssemblePart(p) \/ AssembleDone(p)
           \/ InsertObject(p)
  BY <1>4 DEF CheckParts, AssemblePart, AssembleDone, InsertObject,
              tables, files, drawn, history
<1>5. CASE RemoveParts(p) \/ DeleteUpload(p) \/ CleanFind(p) \/ CleanNext(p)
  BY <1>5 DEF RemoveParts, DeleteUpload, CleanFind, CleanNext,
              tables, files, drawn, history
<1> QED
  BY <1>1, <1>2, <1>3, <1>4, <1>5 DEF Step, RequestStep

-----------------------------------------------------------------------------
(* The environment *)

Environment == (\E u \in Uploads : Age(u)) \/ DropBucket \/ Crash

(* The environment touches no file and draws no id; a process is left      *)
(* alone or starts again.                                                  *)
LEMMA EnvironmentFrame ==
    ASSUME TypeInv, Environment \/ UNCHANGED vars
    PROVE  /\ UNCHANGED <<files, drawn, acked>>
           /\ proc' \in [Procs -> Proc]
           /\ \A p \in Procs : proc'[p] = proc[p] \/ proc'[p] = Idle
           /\ object' = object \/ object' = [v \in Versions |-> None]
<1>1. CASE \E u \in Uploads : Age(u)
  BY <1>1 DEF Age, history, TypeInv, TypeOK
<1>2. CASE DropBucket
  BY <1>2 DEF DropBucket, history, TypeInv, TypeOK
<1>3. CASE Crash
  BY <1>3, IdleTypes DEF Crash, tables, TypeInv, TypeOK
<1>4. CASE UNCHANGED vars
  BY <1>4 DEF vars, tables, files, drawn, history, TypeInv, TypeOK
<1> QED
  BY <1>1, <1>2, <1>3, <1>4 DEF Environment

LEMMA EnvironmentType ==
    ASSUME TypeInv, OpenInv, Environment \/ UNCHANGED vars
    PROVE  TypeInv' /\ OpenInv'
<1>1. OpenInv'
  BY EnvironmentFrame, IdleTypes DEF OpenInv, files
<1>2. \A p \in Procs : WellFormed(proc'[p])
  BY EnvironmentFrame, IdleTypes DEF TypeInv
<1>3. CASE \E u \in Uploads : Age(u)
  <2>1. PICK u \in Uploads : Age(u)
    BY <1>3
  <2>2. upload[u] \in UploadRow
    BY <2>1 DEF Age, Rows, TypeInv, TypeOK
  <2>3. [upload[u] EXCEPT !.stale = TRUE] \in UploadRow
    BY <2>2 DEF UploadRow
  <2>4. upload' \in [Uploads -> UploadRow \cup {None}]
    BY <2>1, <2>3 DEF Age, TypeInv, TypeOK
  <2> QED
    BY <1>1, <1>2, <2>1, <2>4 DEF Age, TypeInv, TypeOK, files, drawn, history
<1>4. CASE DropBucket
  BY <1>1, <1>2, <1>4 DEF DropBucket, TypeInv, TypeOK, files, drawn, history
<1>5. CASE Crash
  <2>1. proc' \in [Procs -> Proc]
    BY EnvironmentFrame
  <2>2. PICK dead \in SUBSET Procs :
          interrupted' = interrupted \cup
             {proc[p].up : p \in {q \in dead : proc[q].pc \in Removing}}
    BY <1>5 DEF Crash
  <2>3. \A p \in Procs : proc[p].pc \in Removing => proc[p].up \in Uploads
    BY DEF TypeInv, TypeOK, WellFormed, Removing, Proc
  <2>4. interrupted' \subseteq Uploads
    BY <2>2, <2>3 DEF TypeInv, TypeOK
  <2> QED
    BY <1>1, <1>2, <1>5, <2>1, <2>4
    DEF Crash, TypeInv, TypeOK, tables, files, drawn
<1>6. CASE UNCHANGED vars
  BY <1>1, <1>2, <1>6
  DEF vars, TypeInv, TypeOK, tables, files, drawn, history
<1> QED
  BY <1>1, <1>3, <1>4, <1>5, <1>6 DEF Environment

LEMMA InitType == Init => TypeInv /\ OpenInv
<1> SUFFICES ASSUME Init PROVE TypeInv /\ OpenInv
  OBVIOUS
<1>1. /\ proc \in [Procs -> Proc]
      /\ \A p \in Procs : proc[p].pc = "idle" /\ WellFormed(proc[p])
  BY IdleTypes DEF Init
<1> QED
  BY <1>1, NoPartsType DEF Init, TypeInv, TypeOK, OpenInv

LEMMA NextType == TypeInv /\ OpenInv /\ [Next]_vars => TypeInv' /\ OpenInv'
  BY NextSteps, StepType, StepOpen, EnvironmentType DEF Environment

(* Every variable keeps its type, and a file that is being assembled       *)
(* exists (the whole of MultipartUploadService).                           *)
THEOREM MultipartTypeCorrect == Spec => [](TypeOK /\ OpenInv)
<1>1. Init => TypeInv /\ OpenInv
  BY InitType
<1>2. TypeInv /\ OpenInv /\ [Next]_vars => (TypeInv /\ OpenInv)'
  BY NextType
<1>3. TypeInv /\ OpenInv => TypeOK /\ OpenInv
  BY DEF TypeInv
<1> QED
  BY <1>1, <1>2, <1>3, PTL DEF Spec
-----------------------------------------------------------------------------
(* Bodies are stored under the part they were sent for *)

(* What a body was sent as is never forgotten. *)
LEMMA SentStays ==
    ASSUME TypeInv, NEW p \in Procs, Step(p)
    PROVE  \A c \in Contents : sentAs[c] # None => sentAs'[c] = sentAs[c]
<1>1. CASE ArrivePart(p)
  <2>1. PICK c \in Contents, f \in Uploads \X PartNumbers :
          sentAs[c] = None /\ sentAs' = [sentAs EXCEPT ![c] = f]
    BY <1>1 DEF ArrivePart, TypeInv, TypeOK
  <2> QED
    BY <2>1 DEF TypeInv, TypeOK
<1> QED
  BY <1>1, StepChanges

LEMMA StepSent ==
    ASSUME TypeInv, OpenInv, SentInv, NEW p \in Procs, Step(p)
    PROVE  SentInv'
<1>0. TypeInv' /\ \A q \in Procs \ {p} : proc'[q] = proc[q]
  BY StepType, StepFrame
<1>1. \A c \in Contents, f \in Uploads \X PartNumbers :
        sentAs[c] = f => sentAs'[c] = f
  BY SentStays, SentinelAssumption
<1>2. \A q \in Procs : proc[q].op = "uploadPart" =>
        /\ proc[q].body \in Contents
        /\ <<proc[q].up, proc[q].part>> \in Uploads \X PartNumbers
  BY SentinelAssumption DEF TypeInv, TypeOK, WellFormed, Proc, Ops
<1> DEFINE Sent(x) == x.op = "uploadPart" =>
                        sentAs'[x.body] = <<x.up, x.part>>
<1>a. \A q \in Procs : Sent(proc[q])
  <2>1. SUFFICES ASSUME NEW q \in Procs, proc[q].op = "uploadPart"
                 PROVE  sentAs'[proc[q].body] = <<proc[q].up, proc[q].part>>
    OBVIOUS
  <2>2. sentAs[proc[q].body] = <<proc[q].up, proc[q].part>>
    BY <2>1 DEF SentInv
  <2> QED
    BY <1>1, <1>2, <2>1, <2>2
<1>3. proc'[p].op = "uploadPart" =>
        sentAs'[proc'[p].body] = <<proc'[p].up, proc'[p].part>>
  <2>1. CASE Arrive(p)
    BY <2>1, ArriveLocal DEF TypeInv, TypeOK
  <2>2. CASE RequestStep(p)
    <3>1. Kept(p) \/ proc'[p].op = None \/ proc'[p] = proc[p]
      BY <2>2, RequestLocal DEF GoesOn, Ended
    <3> QED
      BY <1>a, <3>1, SentinelAssumption DEF Kept, Ops
  <2>3. CASE CleanFind(p) \/ CleanNext(p)
    BY <2>3, CleanLocal, SentinelAssumption DEF Ops
  <2> QED
    BY <2>1, <2>2, <2>3 DEF Step
<1>4. \A q \in Procs : proc'[q].op = "uploadPart" =>
        sentAs'[proc'[q].body] = <<proc'[q].up, proc'[q].part>>
  BY <1>0, <1>a, <1>3
<1>5. \A f \in Uploads \X PartNumbers :
        partFile'[f] # None => sentAs'[partFile'[f]] = f
  <2>1. ASSUME NEW f \in Uploads \X PartNumbers, partFile'[f] = partFile[f],
               partFile'[f] # None
        PROVE  sentAs'[partFile'[f]] = f
    BY <1>1, <2>1 DEF SentInv, TypeInv, TypeOK
  <2>2. CASE partFile' = partFile
    BY <2>1, <2>2
  <2>3. CASE WritePart(p)
    <3>1. /\ proc[p].op = "uploadPart"
          /\ partFile' = [partFile EXCEPT ![<<proc[p].up, proc[p].part>>] =
                            proc[p].body]
      BY <2>3 DEF WritePart, At, TypeInv, WellFormed, PartSteps
    <3>2. sentAs'[proc[p].body] = <<proc[p].up, proc[p].part>>
      BY <1>1, <1>2, <3>1 DEF SentInv
    <3> QED
      BY <1>2, <2>1, <3>1, <3>2 DEF TypeInv, TypeOK
  <2>4. CASE AssembleDone(p) \/ RemoveParts(p)
    <3>1. PICK u, ns, left : partFile' = Removed(u, ns, left)
      BY <2>4 DEF AssembleDone, RemoveParts
    <3> QED
      BY <2>1, <3>1 DEF Removed
  <2> QED
    BY <2>2, <2>3, <2>4, StepChanges
<1> QED
  BY <1>4, <1>5 DEF SentInv

LEMMA NextSent == TypeInv /\ OpenInv /\ SentInv /\ [Next]_vars => SentInv'
<1> SUFFICES ASSUME TypeInv, OpenInv, SentInv, [Next]_vars PROVE SentInv'
  OBVIOUS
<1>1. CASE Environment \/ UNCHANGED vars
  BY <1>1, EnvironmentFrame, IdleTypes, SentinelAssumption
  DEF SentInv, files, drawn, Ops
<1> QED
  BY <1>1, StepSent, NextSteps DEF Environment

-----------------------------------------------------------------------------
(* Completed objects are whole *)

(* What has been copied for an upload was sent for it, for ever. *)
LEMMA CopiedStays ==
    ASSUME TypeInv, NEW p \in Procs, Step(p),
           NEW cs \in Seq(Contents), NEW u \in Uploads, NEW l \in Lists,
           Copied(cs, u, l)
    PROVE  Copied(cs, u, l)'
<1>1. ASSUME NEW i \in DOMAIN cs
      PROVE  sentAs'[cs[i]] = <<u, l[i]>>
  <2>1. l \in Seq(PartNumbers)
    BY ListType
  <2>2. cs[i] \in Contents /\ <<u, l[i]>> \in Uploads \X PartNumbers
    BY <2>1 DEF Copied
  <2>3. sentAs[cs[i]] = <<u, l[i]>>
    BY DEF Copied
  <2> QED
    BY <2>2, <2>3, SentStays, SentinelAssumption
<1> QED
  BY <1>1 DEF Copied

(* One more part copied: the next of the list. *)
LEMMA CopiedAppends ==
    ASSUME NEW cs \in Seq(Contents), NEW u \in Uploads, NEW l \in Lists,
           NEW c \in Contents, Copied(cs, u, l), Len(cs) < Len(l),
           sentAs[c] = <<u, l[Len(cs) + 1]>>
    PROVE  Copied(Append(cs, c), u, l)
<1>1. l \in Seq(PartNumbers)
  BY ListType
<1>2. Len(Append(cs, c)) = Len(cs) + 1
  OBVIOUS
<1>3. ASSUME NEW i \in DOMAIN Append(cs, c)
      PROVE  sentAs[Append(cs, c)[i]] = <<u, l[i]>>
  <2>1. i \in 1..(Len(cs) + 1)
    BY <1>2
  <2>2. CASE i = Len(cs) + 1
    BY <2>2
  <2>3. CASE i \in 1..Len(cs)
    <3>1. Append(cs, c)[i] = cs[i]
      BY <2>3
    <3> QED
      BY <2>3, <3>1 DEF Copied
  <2> QED
    BY <2>1, <2>2, <2>3
<1> QED
  BY <1>1, <1>2, <1>3 DEF Copied

(* The row and the file of version v belong together. *)
Whole(v) ==
    /\ file[v] # None
    /\ Len(file[v]) = Len(object[v].list)
    /\ Copied(file[v], object[v].upload, object[v].list)

LEMMA WholeObjects ==
    ASSUME TypeInv
    PROVE  ObjectsAreWhole <=> \A v \in Objects : Whole(v)
<1>1. ASSUME NEW v \in Objects, ObjectsAreWhole
      PROVE  Whole(v)
  <2>1. file[v] # None /\ Len(file[v]) = Len(object[v].list)
    BY <1>1 DEF ObjectsAreWhole
  <2>2. file[v] \in Seq(Contents)
    BY <2>1 DEF TypeInv, Objects
  <2>3. Len(file[v]) <= Len(object[v].list)
    BY <2>1, <2>2
  <2> QED
    BY <1>1, <2>1, <2>3 DEF ObjectsAreWhole, Whole, Copied
<1>2. (\A v \in Objects : Whole(v)) => ObjectsAreWhole
  BY DEF ObjectsAreWhole, Whole, Copied
<1> QED
  BY <1>1, <1>2

(* What a step of p can do to versions, objects and their files.           *)
LEMMA StepVersions ==
    ASSUME TypeInv, OpenInv, NEW p \in Procs, Step(p)
    PROVE  /\ usedVersions \subseteq usedVersions'
           /\ proc'[p].op = "complete" =>
                \/ /\ proc'[p].pc = "findUpload"
                   /\ proc'[p].ver \in usedVersions' \ usedVersions
                \/ /\ proc[p].op = "complete"
                   /\ proc[p].pc # "deleteUpload"
                   /\ proc'[p].ver = proc[p].ver
                   /\ proc'[p].up = proc[p].up /\ proc'[p].list = proc[p].list
           /\ \A v \in Versions : file'[v] # file[v] =>
                /\ proc[p].op = "complete" /\ v = proc[p].ver
                /\ proc[p].pc \in {"checkParts", "assemble"}
           /\ \A v \in Versions : object'[v] # object[v] =>
                /\ InsertObject(p) /\ proc[p].op = "complete"
                /\ v = proc[p].ver
                /\ proc[p].pc = "insertObject"
                /\ proc'[p].pc = "deleteUpload" /\ Kept(p)
                /\ object'[v] = [upload |-> proc[p].up, list |-> proc[p].list]
<1>1. usedVersions \subseteq usedVersions'
  BY StepChanges DEF ArriveComplete
<1>2. proc'[p].op = "complete" =>
        \/ /\ proc'[p].pc = "findUpload"
           /\ proc'[p].ver \in usedVersions' \ usedVersions
        \/ /\ proc[p].op = "complete"
           /\ proc[p].pc # "deleteUpload"
           /\ proc'[p].ver = proc[p].ver
           /\ proc'[p].up = proc[p].up /\ proc'[p].list = proc[p].list
  <2>1. CASE Arrive(p)
    BY <2>1, ArriveLocal
  <2>2. CASE RequestStep(p)
    <3>1. \/ proc'[p].op = None
          \/ /\ Kept(p) \/ proc'[p] = proc[p]
             /\ proc[p].pc # "deleteUpload"
      BY <2>2, RequestLocal
      DEF GoesOn, Ended, InitiateFindBucket, FindUpload, WritePart, ReadParts,
          CheckParts, AssemblePart, AssembleDone, InsertObject, RemoveParts, At
    <3> QED
      BY <3>1, SentinelAssumption DEF Kept, Ops
  <2>3. CASE CleanFind(p) \/ CleanNext(p)
    BY <2>3, CleanLocal, SentinelAssumption DEF Ops
  <2> QED
    BY <2>1, <2>2, <2>3 DEF Step
<1>3. \A q \in Procs : proc[q].pc \in CompleteSteps => proc[q].op = "complete"
  BY DEF TypeInv, WellFormed
<1>4. ASSUME NEW v \in Versions, file'[v] # file[v]
      PROVE  /\ proc[p].op = "complete" /\ v = proc[p].ver
             /\ proc[p].pc \in {"checkParts", "assemble"}
  <2>1. CASE CheckParts(p)
    <3>1. file' = file \/ file' = [file EXCEPT ![proc[p].ver] = <<>>]
      BY <2>1 DEF CheckParts
    <3> QED
      BY <1>3, <1>4, <2>1, <3>1 DEF CheckParts, At, CompleteSteps, TypeInv
  <2>2. CASE AssemblePart(p)
    <3> DEFINE cs == Append(file[proc[p].ver], partFile[NextPart(p)])
    <3>1. file' = file \/ file' = [file EXCEPT ![proc[p].ver] = cs]
      BY <2>2 DEF AssemblePart
    <3> HIDE DEF cs
    <3> QED
      BY <1>3, <1>4, <2>2, <3>1 DEF AssemblePart, At, CompleteSteps, TypeInv
  <2> QED
    BY <1>4, <2>1, <2>2, StepChanges
<1>5. ASSUME NEW v \in Versions, object'[v] # object[v]
      PROVE  /\ InsertObject(p) /\ proc[p].op = "complete"
             /\ v = proc[p].ver
             /\ proc[p].pc = "insertObject"
             /\ proc'[p].pc = "deleteUpload" /\ Kept(p)
             /\ object'[v] = [upload |-> proc[p].up, list |-> proc[p].list]
  <2>1. InsertObject(p) /\ proc[p].pc = "insertObject"
    BY <1>5, StepChanges DEF InsertObject, At
  <2>2. proc[p].op = "complete" /\ proc[p].ver \in Versions
    BY <1>3, <2>1 DEF CompleteSteps, TypeInv, WellFormed
  <2> DEFINE row == [upload |-> proc[p].up, list |-> proc[p].list]
  <2>3. /\ object' = [object EXCEPT ![proc[p].ver] = row]
        /\ Goto(p, [proc[p] EXCEPT !.pc = "deleteUpload"])
    BY <1>5, <2>1 DEF InsertObject
  <2>4. v = proc[p].ver /\ object'[v] = row
    <3> HIDE DEF row
    <3> QED
      BY <1>5, <2>2, <2>3 DEF TypeInv, TypeOK
  <2>5. proc'[p].pc = "deleteUpload" /\ Kept(p)
    BY <2>3 DEF Goto, Kept, TypeInv, TypeOK, Proc
  <2> QED
    BY <2>1, <2>2, <2>4, <2>5
<1> QED
  BY <1>1, <1>2, <1>4, <1>5

LEMMA StepAssembly ==
    ASSUME TypeInv, OpenInv, SentInv, AssemblyInv, NEW p \in Procs, Step(p)
    PROVE  AssemblyInv'
<1> DEFINE x == proc[p]
<1>0. /\ TypeInv' /\ OpenInv' /\ SentInv'
      /\ \A q \in Procs \ {p} : proc'[q] = proc[q]
  BY StepType, StepOpen, StepSent, StepFrame
<1>1. \A q \in Procs : proc[q].op = "complete" =>
        /\ proc[q].list \in Lists /\ proc[q].ver \in Versions
        /\ proc[q].up \in Uploads
  BY SentinelAssumption DEF TypeInv, TypeOK, WellFormed, Proc, Ops
<1>2. ASSUME NEW v \in Objects
      PROVE  /\ v \in Versions /\ v \in usedVersions
             /\ object[v] \in ObjectRow /\ Whole(v)
  <2>1. ObjectsAreWhole /\ Objects \subseteq usedVersions
    BY DEF AssemblyInv
  <2> QED
    BY <2>1, WholeObjects DEF Objects, TypeInv, TypeOK
<1>3. ASSUME NEW v \in Objects' \ Objects
      PROVE  /\ InsertObject(p) /\ x.op = "complete" /\ v = x.ver
             /\ x.pc = "insertObject" /\ proc'[p].pc = "deleteUpload" /\ Kept(p)
             /\ object'[v] = [upload |-> x.up, list |-> x.list]
             /\ UNCHANGED file
  <2>1. /\ InsertObject(p) /\ x.op = "complete" /\ v = x.ver
        /\ x.pc = "insertObject" /\ proc'[p].pc = "deleteUpload" /\ Kept(p)
        /\ object'[v] = [upload |-> x.up, list |-> x.list]
    BY StepVersions DEF Objects
  <2> QED
    BY <2>1 DEF InsertObject, files
<1>4. Objects' \subseteq usedVersions'
  <2>1. \A v \in Objects' \ Objects : v \in usedVersions
    BY <1>3 DEF AssemblyInv, VersionFacts
  <2> QED
    BY <1>2, <2>1, StepVersions
<1>5. ASSUME NEW v \in Objects'
      PROVE  Whole(v)'
  <2>1. CASE v \in Objects
    <3>1. object'[v] = object[v]
      BY <1>2, <2>1, StepVersions DEF AssemblyInv, VersionFacts
    <3>2. file'[v] = file[v]
      BY <1>2, <2>1, StepVersions DEF AssemblyInv, VersionFacts
    <3>3. Copied(file[v], object[v].upload, object[v].list)'
      <4>1. /\ file[v] \in Seq(Contents)
            /\ object[v].upload \in Uploads /\ object[v].list \in Lists
        BY <1>2, <2>1 DEF Whole, TypeInv, ObjectRow
      <4> DEFINE cs == file[v]
                 u == object[v].upload
                 l == object[v].list
      <4>2. Copied(cs, u, l)
        BY <1>2, <2>1 DEF Whole
      <4>3. \A i \in DOMAIN cs : sentAs'[cs[i]] = <<u, l[i]>>
        BY <4>1, <4>2, CopiedStays DEF Copied
      <4> QED
        BY <3>1, <3>2, <4>2, <4>3 DEF Copied
    <3> QED
      BY <1>2, <2>1, <3>1, <3>2, <3>3 DEF Whole
  <2>2. CASE v \notin Objects
    <3>1. /\ x.op = "complete" /\ v = x.ver /\ x.pc = "insertObject"
          /\ object'[v].upload = x.up /\ object'[v].list = x.list
          /\ UNCHANGED <<file, sentAs>>
      <4>1. InsertObject(p)
        BY <1>3, <2>2
      <4> QED
        BY <1>3, <2>2, <4>1 DEF InsertObject, drawn
    <3>2. VersionFacts(p) /\ file[v] # None
      BY <3>1 DEF AssemblyInv, OpenInv
    <3> QED
      BY <3>1, <3>2 DEF VersionFacts, Whole, Copied
  <2> QED
    BY <2>1, <2>2
<1>6. ASSUME NEW q \in Procs \ {p}, proc[q].op = "complete"
      PROVE  VersionFacts(q)'
  <2>1. VersionFacts(q) /\ proc'[q] = proc[q] /\ proc[q].ver \in Versions
    BY <1>0, <1>1, <1>6 DEF AssemblyInv
  <2>2. x.op = "complete" => x.ver # proc[q].ver
    BY <2>1 DEF VersionFacts
  <2>3. /\ file'[proc[q].ver] = file[proc[q].ver]
        /\ object'[proc[q].ver] = object[proc[q].ver]
    BY <2>1, <2>2, StepVersions
  <2>4. proc'[p].op = "complete" => proc'[p].ver # proc[q].ver
    BY <2>1, <2>2, StepVersions DEF VersionFacts
  <2>5. \A r \in Procs \ {q} : proc'[r].op = "complete" =>
          proc'[r].ver # proc'[q].ver
    BY <1>0, <2>1, <2>4 DEF VersionFacts
  <2>6. proc[q].pc \in {"assemble", "insertObject"} =>
          Copied(file[proc[q].ver], proc[q].up, proc[q].list)'
    <3> DEFINE cs == file[proc[q].ver]
               u == proc[q].up
               l == proc[q].list
    <3>1. SUFFICES ASSUME proc[q].pc \in {"assemble", "insertObject"}
                   PROVE  Copied(cs, u, l)'
      OBVIOUS
    <3>2. cs \in Seq(Contents) /\ u \in Uploads /\ l \in Lists
      BY <1>1, <1>6, <3>1 DEF TypeInv, OpenInv
    <3>3. Copied(cs, u, l)
      BY <2>1, <3>1 DEF VersionFacts
    <3>4. \A i \in DOMAIN cs : sentAs'[cs[i]] = <<u, l[i]>>
      BY <3>2, <3>3, CopiedStays DEF Copied
    <3> QED
      BY <2>1, <2>3, <3>3, <3>4 DEF Copied
  <2>7. proc[q].ver \in usedVersions'
    BY <2>1, StepVersions DEF VersionFacts
  <2>8. proc[q].pc # "deleteUpload" => proc[q].ver \notin Objects'
    BY <2>1, <2>3 DEF VersionFacts, Objects
  <2> QED
    BY <2>1, <2>3, <2>5, <2>6, <2>7, <2>8 DEF VersionFacts
<1>7. ASSUME proc'[p].op = "complete"
      PROVE  VersionFacts(p)'
  <2>1. proc'[p].ver \in usedVersions'
    BY <1>7, StepVersions DEF AssemblyInv, VersionFacts
  <2>2. \A q \in Procs \ {p} : proc'[q].op = "complete" =>
          proc'[q].ver # proc'[p].ver
    <3>1. SUFFICES ASSUME NEW q \in Procs \ {p}, proc[q].op = "complete"
                   PROVE  proc[q].ver # proc'[p].ver
      BY <1>0
    <3>2. VersionFacts(q)
      BY <3>1 DEF AssemblyInv
    <3>3. CASE proc'[p].ver \in usedVersions' \ usedVersions
      BY <3>2, <3>3 DEF VersionFacts
    <3>4. CASE x.op = "complete" /\ proc'[p].ver = x.ver
      BY <3>1, <3>2, <3>4 DEF VersionFacts
    <3> QED
      BY <1>7, <3>3, <3>4, StepVersions
  <2>3. ASSUME proc'[p].pc # "deleteUpload"
        PROVE  proc'[p].ver \notin Objects'
    <3>1. \A v \in Objects' \ Objects : FALSE
      BY <1>3, <2>3
    <3>2. proc'[p].ver \notin Objects
      BY <1>7, <1>4, <1>2, StepVersions DEF AssemblyInv, VersionFacts
    <3> QED
      BY <3>1, <3>2
  <2>4. ASSUME proc'[p].pc \in {"assemble", "insertObject"}
        PROVE  /\ Copied(file[x.ver], x.up, x.list)'
               /\ proc'[p].pc = "insertObject" =>
                    Len(file'[proc'[p].ver]) = Len(proc'[p].list)
    <3> DEFINE u == proc[p].up
               l == proc[p].list
               v == proc[p].ver
    <3>1. RequestStep(p) /\ ~Ended(proc'[p])
      <4>1. ~Arrive(p)
        BY <2>4, ArriveLocal
      <4>2. ~(CleanFind(p) \/ CleanNext(p))
        BY <2>4, CleanLocal
      <4> QED
        BY <2>4, <4>1, <4>2 DEF Step, Ended
    <3>2. \/ CheckParts(p) /\ GoesOn(p, "assemble", x.parts)
          \/ AssemblePart(p) /\ proc' = proc
          \/ AssembleDone(p) /\ GoesOn(p, "insertObject", x.parts)
      BY <2>4, <3>1, RequestLocal, FindUploadGoes DEF GoesOn, FindUpload, At
    <3>3. /\ proc'[p].up = u /\ proc'[p].list = l /\ proc'[p].ver = v
          /\ proc[p].op = "complete" /\ sentAs' = sentAs
      BY <1>7, <3>2
      DEF GoesOn, Kept, CheckParts, AssemblePart, AssembleDone, drawn
    <3>4. u \in Uploads /\ l \in Lists /\ v \in Versions /\ l \in Seq(PartNumbers)
      BY <1>1, <3>3, ListType
    <3> SUFFICES /\ Len(file'[v]) <= Len(l)
                 /\ \A i \in DOMAIN file'[v] :
                      sentAs[file'[v][i]] = <<u, l[i]>>
                 /\ proc'[p].pc = "insertObject" => Len(file'[v]) = Len(l)
      BY <3>3 DEF Copied
    <3>5. CASE CheckParts(p) /\ GoesOn(p, "assemble", x.parts)
      <4>1. file' = [file EXCEPT ![v] = <<>>]
        BY <3>5, FinishTypes DEF CheckParts, GoesOn, Ended
      <4>2. file'[v] = <<>>
        BY <3>4, <4>1 DEF TypeInv
      <4> QED
        BY <3>4, <3>5, <4>2 DEF GoesOn
    <3>6. CASE AssemblePart(p) /\ proc' = proc
      <4>1. x.pc = "assemble" /\ Len(file[v]) < Len(l)
        BY <3>6 DEF AssemblePart, At
      <4>2. Copied(file[v], u, l) /\ file[v] \in Seq(Contents)
        BY <3>3, <3>4, <4>1 DEF AssemblyInv, VersionFacts, OpenInv, TypeInv
      <4>3. CASE file' = file
        BY <3>6, <4>1, <4>2, <4>3 DEF Copied
      <4>4. CASE file' # file
        <5> DEFINE c == partFile[NextPart(p)]
        <5>1. c # None /\ file' = [file EXCEPT ![v] = Append(@, c)]
          BY <3>6, <4>4 DEF AssemblePart
        <5>2. NextPart(p) \in Uploads \X PartNumbers
          BY <4>1, NextPartType
        <5>3. c \in Contents /\ sentAs[c] = <<u, l[Len(file[v]) + 1]>>
          BY <5>1, <5>2 DEF NextPart, SentInv, TypeInv, TypeOK
        <5> HIDE DEF c
        <5>4. file'[v] = Append(file[v], c)
          BY <3>4, <5>1 DEF TypeInv
        <5>5. Copied(Append(file[v], c), u, l)
          BY <3>4, <4>1, <4>2, <5>3, CopiedAppends
        <5> QED
          BY <3>6, <4>1, <5>4, <5>5 DEF Copied
      <4> QED
        BY <4>3, <4>4
    <3>7. CASE AssembleDone(p) /\ GoesOn(p, "insertObject", x.parts)
      <4>1. x.pc = "assemble" /\ Len(file[v]) = Len(l) /\ UNCHANGED file
        BY <3>7 DEF AssembleDone, At
      <4>2. Copied(file[v], u, l)
        BY <3>3, <4>1 DEF AssemblyInv, VersionFacts
      <4> QED
        BY <4>1, <4>2 DEF Copied
    <3> QED
      BY <3>2, <3>5, <3>6, <3>7
  <2> QED
    BY <2>1, <2>2, <2>3, <2>4 DEF VersionFacts
<1>8. \A q \in Procs : proc'[q].op = "complete" => VersionFacts(q)'
  BY <1>0, <1>6, <1>7
<1>9. ObjectsAreWhole'
  <2>1. (TypeInv => (ObjectsAreWhole <=> \A v \in Objects : Whole(v)))'
    BY WholeObjects, PTL
  <2> QED
    BY <1>0, <1>5, <2>1
<1> QED
  BY <1>4, <1>8, <1>9 DEF AssemblyInv

LEMMA NextAssembly ==
    TypeInv /\ OpenInv /\ SentInv /\ AssemblyInv /\ [Next]_vars => AssemblyInv'
<1> SUFFICES ASSUME TypeInv, OpenInv, SentInv, AssemblyInv, [Next]_vars
             PROVE  AssemblyInv'
  OBVIOUS
<1>1. CASE Environment \/ UNCHANGED vars
  <2>1. /\ UNCHANGED <<file, usedVersions, sentAs>>
        /\ \A p \in Procs : proc'[p] = proc[p] \/ proc'[p].op = None
        /\ \A v \in Objects' : v \in Objects /\ object'[v] = object[v]
    BY <1>1, EnvironmentFrame, IdleTypes DEF files, drawn, Objects
  <2>2. ObjectsAreWhole'
    BY <2>1 DEF AssemblyInv, ObjectsAreWhole
  <2>3. ASSUME NEW p \in Procs, proc'[p].op = "complete"
        PROVE  VersionFacts(p)'
    <3>1. proc'[p] = proc[p] /\ VersionFacts(p)
      BY <2>1, <2>3, SentinelAssumption DEF AssemblyInv, Ops
    <3>2. \A q \in Procs \ {p} : proc'[q].op = "complete" =>
            proc'[q].ver # proc'[p].ver
      BY <2>1, <3>1, SentinelAssumption DEF VersionFacts, Ops
    <3> QED
      BY <2>1, <3>1, <3>2 DEF VersionFacts, Copied
  <2> QED
    BY <2>1, <2>2, <2>3 DEF AssemblyInv
<1> QED
  BY <1>1, StepAssembly, NextSteps DEF Environment

LEMMA InitAssembly == Init => SentInv /\ AssemblyInv
<1> SUFFICES ASSUME Init PROVE SentInv /\ AssemblyInv
  OBVIOUS
<1>1. \A p \in Procs : proc[p].op = None
  BY IdleTypes DEF Init
<1> QED
  BY <1>1, SentinelAssumption
  DEF Init, SentInv, AssemblyInv, Objects, ObjectsAreWhole, Ops

(* A completed object is made of whole bodies that were sent for the parts *)
(* the client listed, in the order of the list, whatever parts were sent   *)
(* again, aborted, cleaned up or lost in a crash meanwhile, with both      *)
(* databases (completeUpload, assembleMultipart).                          *)
THEOREM CompletedObjectsWhole == Spec => []ObjectsAreWhole
<1> DEFINE Inv == TypeInv /\ OpenInv /\ SentInv /\ AssemblyInv
<1>1. Init => Inv
  BY InitType, InitAssembly
<1>2. Inv /\ [Next]_vars => Inv'
  BY NextType, NextSent, NextAssembly
<1>3. Inv => ObjectsAreWhole
  BY DEF AssemblyInv
<1> QED
  BY <1>1, <1>2, <1>3, PTL DEF Spec

-----------------------------------------------------------------------------
(* An upload that is still to be initiated is in nobody's way *)

(* What a step of p can do to the rows of uploads and their history.       *)
LEMMA StepUploads ==
    ASSUME TypeInv, OpenInv, NEW p \in Procs, Step(p)
    PROVE  /\ usedUploads \subseteq usedUploads'
           /\ \A u \in Uploads : upload'[u] # upload[u] =>
                /\ u = proc[p].up
                /\ \/ InitiateInsert(p) /\ proc[p].op = "initiate"
                   \/ UpdateParts(p) /\ upload[u] # None
                   \/ DeleteUpload(p) /\ upload'[u] = None
           /\ \A u \in Uploads : acked'[u] # acked[u] =>
                u = proc[p].up /\ UpdateParts(p) /\ proc[p].pc = "updateParts"
           /\ proc'[p].op = "initiate" =>
                \/ /\ ArriveInitiate(p)
                   /\ proc'[p].up \in usedUploads' \ usedUploads
                \/ proc[p].op = "initiate" /\ proc'[p].up = proc[p].up
           /\ proc'[p].pc \in PartSteps =>
                /\ proc'[p].up = proc[p].up
                /\ proc[p].pc \in PartSteps \/ upload[proc[p].up] # None
           /\ proc'[p].op # None =>
                \/ proc'[p].up \in usedUploads'
                \/ proc'[p].up = proc[p].up /\ proc[p].op # None
<1> DEFINE x == proc[p]
<1>0. x \in Proc /\ WellFormed(x) /\ upload \in [Uploads -> UploadRow \cup {None}]
  BY DEF TypeInv, TypeOK
<1>1. usedUploads \subseteq usedUploads'
  BY StepChanges DEF ArriveInitiate
<1>2. ASSUME NEW u \in Uploads, upload'[u] # upload[u]
      PROVE  /\ u = x.up
             /\ \/ InitiateInsert(p) /\ x.op = "initiate"
                \/ UpdateParts(p) /\ upload[u] # None
                \/ DeleteUpload(p) /\ upload'[u] = None
  <2>1. CASE InitiateInsert(p)
    <3>1. x.op = "initiate"
      BY <1>0, <2>1 DEF InitiateInsert, At, WellFormed
    <3>2. upload' = [upload EXCEPT ![x.up] = NewUpload]
      BY <1>2, <2>1 DEF InitiateInsert
    <3> QED
      BY <1>0, <1>2, <2>1, <3>1, <3>2
  <2>2. CASE UpdateParts(p)
    <3> DEFINE parts == [x.parts EXCEPT ![x.part] = x.body]
    <3>1. /\ upload[x.up] # None
          /\ upload' = [upload EXCEPT ![x.up].parts = parts]
      BY <1>2, <2>2 DEF UpdateParts
    <3> HIDE DEF parts
    <3> QED
      BY <1>0, <1>2, <2>2, <3>1
  <2>3. CASE DeleteUpload(p)
    BY <1>0, <1>2, <2>3 DEF DeleteUpload
  <2> QED
    BY <1>2, <2>1, <2>2, <2>3, StepChanges
<1>3. ASSUME NEW u \in Uploads, acked'[u] # acked[u]
      PROVE  u = x.up /\ UpdateParts(p) /\ x.pc = "updateParts"
  <2>1. UpdateParts(p)
    BY <1>3, StepChanges
  <2>2. /\ acked' = [acked EXCEPT ![x.up][x.part] = x.body]
        /\ x.pc = "updateParts"
    BY <2>1 DEF UpdateParts, At
  <2> QED
    BY <1>3, <2>1, <2>2 DEF TypeInv, TypeOK
<1>4. CASE Arrive(p)
  BY <1>1, <1>2, <1>3, <1>4, ArriveLocal DEF PartSteps
<1>5. CASE RequestStep(p)
  <2>1. \/ proc'[p].op = None /\ proc'[p].pc \in {"idle", "batch"}
        \/ Kept(p) /\ proc'[p].pc \notin PartSteps
        \/ Kept(p) /\ upload[x.up] # None
        \/ Kept(p) /\ x.pc \in PartSteps
        \/ proc'[p] = x
    BY <1>5, RequestLocal
    DEF GoesOn, Ended, WritePart, At, PartSteps
  <2> QED
    BY <1>1, <1>2, <1>3, <2>1, SentinelAssumption DEF Kept, Ops, PartSteps
<1>6. CASE CleanFind(p) \/ CleanNext(p)
  BY <1>1, <1>2, <1>3, <1>6, CleanLocal, SentinelAssumption DEF PartSteps, Ops
<1> QED
  BY <1>4, <1>5, <1>6 DEF Step

LEMMA StepBirth ==
    ASSUME TypeInv, OpenInv, BirthInv, NEW p \in Procs, Step(p)
    PROVE  BirthInv'
<1> DEFINE x == proc[p]
<1>0. /\ TypeInv'
      /\ \A q \in Procs \ {p} : proc'[q] = proc[q]
  BY StepType, StepFrame
<1>1. Rows' \subseteq usedUploads'
  <2>1. SUFFICES ASSUME NEW u \in Uploads, upload'[u] # None
                 PROVE  u \in usedUploads'
    BY DEF Rows
  <2>2. CASE upload[u] # None
    BY <2>2, StepUploads DEF BirthInv, Rows
  <2>3. CASE upload[u] = None
    BY <2>1, <2>3, StepUploads, SentinelAssumption DEF BirthInv, Ops
  <2> QED
    BY <2>2, <2>3
<1>2. ASSUME NEW u \in Uploads, acked'[u] # NoParts
      PROVE  u \in usedUploads'
  <2>1. CASE acked'[u] = acked[u]
    BY <1>2, <2>1, StepUploads DEF BirthInv
  <2>2. CASE acked'[u] # acked[u]
    <3>1. u = x.up /\ x.pc = "updateParts"
      BY <2>2, StepUploads
    <3>2. x.op # None
      BY <3>1, SentinelAssumption DEF TypeInv, WellFormed, PartSteps, Ops
    <3> QED
      BY <3>1, <3>2, StepUploads DEF BirthInv
  <2> QED
    BY <2>1, <2>2
<1>3. ASSUME NEW q \in Procs, proc'[q].op # None
      PROVE  proc'[q].up \in usedUploads'
  BY <1>0, <1>3, StepUploads DEF BirthInv
<1>4. \A q \in Procs : proc[q].pc \in PartSteps => proc[q].op # None
  BY SentinelAssumption DEF TypeInv, WellFormed, PartSteps, Ops
<1>5. \A q \in Procs : proc[q].op # None =>
        proc[q].up \in usedUploads /\ proc[q].up \in Uploads
  BY DEF BirthInv, TypeInv, TypeOK
<1>6. ASSUME NEW q \in Procs, proc[q].op = "initiate", proc'[q].op = "initiate",
             proc'[q].up = proc[q].up, q = p \/ proc'[q] = proc[q]
      PROVE  Unborn(q)'
  <2> DEFINE u == proc[q].up
  <2>1. Unborn(q) /\ u \in usedUploads /\ u \in Uploads
    BY <1>5, <1>6, SentinelAssumption DEF BirthInv, Ops
  <2>2. acked'[u] = NoParts
    <3>1. x.pc = "updateParts" => x.up # u
      BY <2>1 DEF Unborn, PartSteps
    <3> QED
      BY <2>1, <3>1, StepUploads DEF Unborn
  <2>3. upload'[u] = None
    <3>1. CASE q # p
      <4>1. x.op = "initiate" => x.up # u
        BY <2>1, <3>1 DEF Unborn
      <4> QED
        BY <2>1, <4>1, StepUploads DEF Unborn
    <3>2. CASE q = p
      <4>1. ~InitiateInsert(p)
        BY <1>0, <1>6, <3>2, FinishTypes, SentinelAssumption
        DEF InitiateInsert, Ended, Ops
      <4> QED
        BY <2>1, <4>1, StepUploads DEF Unborn
    <3> QED
      BY <3>1, <3>2
  <2>4. ASSUME NEW r \in Procs \ {q}, proc'[r].op = "initiate"
        PROVE  proc'[r].up # u
    BY <1>0, <2>1, <2>4, StepUploads DEF Unborn
  <2>5. ASSUME NEW r \in Procs, proc'[r].pc \in PartSteps
        PROVE  proc'[r].up # u
    BY <1>0, <2>1, <2>5, StepUploads DEF Unborn
  <2> QED
    BY <1>6, <2>2, <2>3, <2>4, <2>5 DEF Unborn
<1>7. ASSUME ArriveInitiate(p), proc'[p].up \in usedUploads' \ usedUploads,
             proc'[p].op = "initiate"
      PROVE  Unborn(p)'
  <2> DEFINE u == proc'[p].up
  <2>1. u \in Uploads /\ u \notin usedUploads
    BY <1>0, <1>7 DEF TypeInv, TypeOK
  <2>2. UNCHANGED <<upload, acked>>
    BY <1>7 DEF ArriveInitiate, tables, history
  <2>3. upload'[u] = None /\ acked'[u] = NoParts
    BY <2>1, <2>2 DEF BirthInv, Rows
  <2>4. ASSUME NEW r \in Procs \ {p}, proc'[r].op # None
        PROVE  proc'[r].up # u
    BY <1>0, <1>5, <2>1, <2>4
  <2>5. ASSUME NEW r \in Procs, proc'[r].pc \in PartSteps
        PROVE  r # p /\ proc'[r].op # None
    BY <1>0, <1>7, <2>5, SentinelAssumption DEF TypeInv, WellFormed, PartSteps, Ops
  <2> QED
    BY <2>3, <2>4, <2>5, SentinelAssumption DEF Unborn, Ops
<1>8. ASSUME NEW q \in Procs, proc'[q].op = "initiate"
      PROVE  Unborn(q)'
  <2>1. CASE q # p
    BY <1>0, <1>6, <1>8, <2>1
  <2>2. CASE q = p
    BY <1>6, <1>7, <1>8, <2>2, StepUploads
  <2> QED
    BY <2>1, <2>2
<1> QED
  BY <1>1, <1>2, <1>3, <1>8 DEF BirthInv

LEMMA NextBirth == TypeInv /\ OpenInv /\ BirthInv /\ [Next]_vars => BirthInv'
<1> SUFFICES ASSUME TypeInv, OpenInv, BirthInv, [Next]_vars PROVE BirthInv'
  OBVIOUS
<1>1. CASE Environment \/ UNCHANGED vars
  <2>1. /\ UNCHANGED <<acked, usedUploads>>
        /\ \A p \in Procs : \/ proc'[p] = proc[p]
                            \/ proc'[p].op = None /\ proc'[p].pc = "idle"
    BY <1>1, EnvironmentFrame, IdleTypes DEF drawn
  <2>2. \A u \in Uploads : upload[u] = None => upload'[u] = None
    <3>1. CASE \E u \in Uploads : Age(u)
      BY <3>1 DEF Age, Rows, TypeInv, TypeOK
    <3>2. CASE DropBucket
      BY <3>2 DEF DropBucket
    <3>3. CASE Crash \/ UNCHANGED vars
      BY <3>3 DEF Crash, vars, tables
    <3> QED
      BY <1>1, <3>1, <3>2, <3>3 DEF Environment
  <2>3. ASSUME NEW p \in Procs, proc'[p].op = "initiate"
        PROVE  Unborn(p)'
    <3>1. proc'[p] = proc[p] /\ Unborn(p) /\ proc[p].up \in Uploads
      BY <2>1, <2>3, SentinelAssumption
      DEF BirthInv, TypeInv, TypeOK, Ops
    <3>2. upload'[proc'[p].up] = None /\ acked'[proc'[p].up] = NoParts
      BY <2>1, <2>2, <3>1 DEF Unborn
    <3>3. \A q \in Procs \ {p} : proc'[q].op = "initiate" =>
            proc'[q].up # proc'[p].up
      BY <2>1, <3>1, SentinelAssumption DEF Unborn, Ops
    <3>4. \A q \in Procs : proc'[q].pc \in PartSteps =>
            proc'[q].up # proc'[p].up
      BY <2>1, <3>1 DEF Unborn, PartSteps
    <3> QED
      BY <3>2, <3>3, <3>4 DEF Unborn
  <2> QED
    BY <2>1, <2>2, <2>3 DEF BirthInv, Rows
<1> QED
  BY <1>1, StepBirth, NextSteps DEF Environment

LEMMA InitBirth == Init => BirthInv
<1> SUFFICES ASSUME Init PROVE BirthInv
  OBVIOUS
<1>1. \A p \in Procs : proc[p].op = None
  BY IdleTypes DEF Init
<1> QED
  BY <1>1, SentinelAssumption DEF Init, BirthInv, Rows, Ops
-----------------------------------------------------------------------------
(* With SQLite no acknowledged part is lost *)

(* Nobody steps while somebody else keeps the event loop. *)
LEMMA StepAt ==
    ASSUME NEW p \in Procs, Step(p)
    PROVE  loop \in {Free, p}
<1>1. Arrive(p) => loop \in {Free, p}
  BY DEF Arrive, ArriveInitiate, ArrivePart, ArriveComplete, ArriveAbort, At
<1>2. RequestStep(p) => loop \in {Free, p}
  BY DEF RequestStep, InitiateFindBucket, InitiateInsert, FindUpload,
         WritePart, WritePartFails, ReadParts, UpdateParts, CheckParts,
         AssemblePart, AssembleDone, InsertObject, RemoveParts, DeleteUpload, At
<1>3. CleanFind(p) \/ CleanNext(p) => loop \in {Free, p}
  BY DEF CleanFind, CleanNext, At
<1> QED
  BY <1>1, <1>2, <1>3 DEF Step

LEMMA StepAck ==
    ASSUME Backend = "sqlite", TypeInv, OpenInv, BirthInv, AckInv,
           NEW p \in Procs, Step(p)
    PROVE  AckInv'
<1> DEFINE x == proc[p]
<1>0. /\ TypeInv'
      /\ \A q \in Procs \ {p} : proc'[q] = proc[q]
      /\ upload \in [Uploads -> UploadRow \cup {None}]
      /\ acked \in [Uploads -> Parts]
  BY StepType, StepFrame DEF TypeInv, TypeOK
<1>1. \A q \in Procs \ {p} : proc[q].pc # "updateParts"
  BY StepAt, SentinelAssumption DEF AckInv
<1>2. ASSUME proc'[p].pc = "updateParts"
      PROVE  /\ loop' = p
             /\ upload'[proc'[p].up] # None =>
                  proc'[p].parts = upload'[proc'[p].up].parts
  <2>1. RequestStep(p)
    BY <1>2, ArriveLocal, CleanLocal DEF Step
  <2>2. ReadParts(p) /\ GoesOn(p, "updateParts", upload[x.up].parts)
    BY <1>2, <2>1, RequestLocal, FindUploadGoes
    DEF GoesOn, Ended, FindUpload, AssemblePart, At
  <2>3. ~Finish(p)
    BY <1>2, FinishTypes DEF Ended
  <2>4. KeepLoop(p) /\ UNCHANGED upload
    BY <2>2, <2>3 DEF ReadParts, tables
  <2> QED
    BY <2>2, <2>4 DEF KeepLoop, GoesOn, Kept
<1>3. ASSUME NEW u \in Uploads, upload'[u] # None
      PROVE  upload'[u].parts = acked'[u]
  <2>1. upload[u] # None => upload[u].parts = acked[u]
    BY DEF AckInv, Rows
  <2>2. CASE UpdateParts(p)
    <3>1. /\ x.pc = "updateParts" /\ x.up \in Uploads
          /\ acked' = [acked EXCEPT ![x.up][x.part] = x.body]
      BY <2>2 DEF UpdateParts, At, TypeInv, TypeOK, WellFormed, Proc
    <3>2. CASE u # x.up
      BY <1>3, <2>1, <3>2, StepUploads
    <3>3. CASE u = x.up
      <4> DEFINE parts == [x.parts EXCEPT ![x.part] = x.body]
      <4>1. upload[u] # None
        BY <1>3, <2>2, <3>3 DEF UpdateParts
      <4>2. /\ upload' = [upload EXCEPT ![u].parts = parts]
            /\ x.parts = acked[u]
        BY <2>1, <2>2, <3>1, <3>3, <4>1 DEF UpdateParts, AckInv
      <4>3. acked'[u] = parts
        BY <1>0, <3>1, <3>3, <4>2
      <4>4. upload[u] \in UploadRow
        BY <1>0, <4>1
      <4> HIDE DEF parts
      <4>5. upload'[u] = [upload[u] EXCEPT !.parts = parts]
        BY <1>0, <4>2
      <4>6. upload'[u].parts = parts
        BY <4>4, <4>5 DEF UploadRow
      <4> QED
        BY <4>3, <4>6
    <3> QED
      BY <3>2, <3>3
  <2>3. CASE InitiateInsert(p) /\ upload'[u] # upload[u]
    <3>1. u = x.up /\ x.op = "initiate" /\ acked'[u] = acked[u]
      <4>1. x.pc = "insertUpload"
        BY <2>3 DEF InitiateInsert, At
      <4> QED
        BY <2>3, <4>1, StepUploads DEF TypeInv, WellFormed
    <3>2. acked[u] = NoParts
      BY <3>1 DEF BirthInv, Unborn
    <3>3. upload' = [upload EXCEPT ![u] = NewUpload]
      BY <2>3, <3>1 DEF InitiateInsert
    <3>4. upload'[u].parts = NoParts
      BY <1>0, <3>3 DEF NewUpload
    <3> QED
      BY <3>1, <3>2, <3>4
  <2>4. CASE ~UpdateParts(p) /\ upload'[u] = upload[u]
    BY <1>3, <2>1, <2>4, StepUploads
  <2> QED
    BY <1>3, <2>2, <2>3, <2>4, StepUploads
<1>4. \A q \in Procs : proc'[q].pc = "updateParts" => q = p
  BY <1>0, <1>1
<1> QED
  BY <1>2, <1>3, <1>4 DEF AckInv, Rows

LEMMA NextAck ==
    ASSUME Backend = "sqlite"
    PROVE  /\ TypeInv /\ OpenInv /\ BirthInv /\ AckInv
           /\ [Next]_vars
           => AckInv'
<1> SUFFICES ASSUME TypeInv, OpenInv, BirthInv, AckInv, [Next]_vars
             PROVE  AckInv'
  OBVIOUS
<1>1. CASE \E u \in Uploads : Age(u)
  <2>1. PICK u \in Uploads :
          /\ u \in Rows /\ upload' = [upload EXCEPT ![u].stale = TRUE]
          /\ UNCHANGED <<proc, loop, acked>>
    BY <1>1 DEF Age, history
  <2>2. upload[u] \in UploadRow
    BY <2>1 DEF Rows, TypeInv, TypeOK
  <2>3. /\ upload'[u].parts = upload[u].parts /\ upload[u] # None
        /\ \A v \in Uploads \ {u} : upload'[v] = upload[v]
    BY <2>1, <2>2 DEF UploadRow, Rows, TypeInv, TypeOK
  <2>4. \A q \in Procs : proc[q].pc = "updateParts" => proc[q].up \in Uploads
    BY DEF TypeInv, TypeOK, WellFormed, Proc
  <2>5. \A v \in Uploads : upload'[v] # None =>
          upload[v] # None /\ upload'[v].parts = upload[v].parts
    BY <2>3
  <2> QED
    BY <2>1, <2>4, <2>5 DEF AckInv, Rows
<1>2. CASE DropBucket
  <2>1. \A q \in Procs : proc[q].pc # "updateParts"
    BY <1>2, SentinelAssumption DEF DropBucket, AckInv
  <2> QED
    BY <1>2, <2>1 DEF DropBucket, AckInv, Rows
<1>3. CASE Crash
  <2>1. \A q \in Procs : proc'[q] = Idle
    BY <1>3 DEF Crash
  <2> QED
    BY <1>3, <2>1, IdleTypes DEF Crash, AckInv, Rows, tables
<1>4. CASE UNCHANGED vars
  BY <1>4 DEF vars, tables, history, AckInv, Rows
<1> QED
  BY <1>1, <1>2, <1>3, <1>4, StepAck, NextSteps

(* With SQLite a part upload that was acknowledged is what the upload      *)
(* records for its part, whatever other clients upload at the same time:   *)
(* upsertPart, which reads the parts column and writes all of it back,     *)
(* keeps the event loop.                                                   *)
THEOREM NoPartLost ==
    ASSUME Backend = "sqlite"
    PROVE  Spec => []AckedPartRecorded
<1> DEFINE Inv == TypeInv /\ OpenInv /\ BirthInv /\ AckInv
<1>1. Init => Inv
  <2>1. Init => AckInv
    BY IdleTypes DEF Init, AckInv, Rows
  <2> QED
    BY <2>1, InitType, InitBirth
<1>2. Inv /\ [Next]_vars => Inv'
  BY NextType, NextBirth, NextAck
<1>3. Inv => AckedPartRecorded
  BY DEF AckInv, AckedPartRecorded
<1> QED
  BY <1>1, <1>2, <1>3, PTL DEF Spec
-----------------------------------------------------------------------------
(* Without I/O errors every recorded part keeps its file *)

(* A part file goes only when its upload is about to go. *)
LEMMA PartFilesStay ==
    ASSUME "io" \notin Faults, TypeInv, OpenInv, NEW p \in Procs, Step(p),
           NEW u \in Uploads, NEW n \in PartNumbers,
           partFile[<<u, n>>] # None, partFile'[<<u, n>>] = None
    PROVE  proc'[p].up = u /\ proc'[p].pc \in Removing
<1>0. proc \in [Procs -> Proc]
  BY DEF TypeInv, TypeOK
<1>1. CASE WritePart(p)
  <2>1. /\ partFile' = [partFile EXCEPT ![<<proc[p].up, proc[p].part>>] =
                          proc[p].body]
        /\ proc[p].pc = "write"
    BY <1>1 DEF WritePart, At
  <2>2. proc[p].body \in Contents
    BY <2>1 DEF TypeInv, WellFormed, PartSteps
  <2>3. proc[p].body # None
    BY <2>2, SentinelAssumption
  <2> QED
    BY <2>1, <2>3 DEF TypeInv, TypeOK
<1>2. CASE AssembleDone(p)
  <2>1. /\ partFile' = Removed(proc[p].up, Listed(proc[p].list), {})
        /\ Goto(p, [proc[p] EXCEPT !.pc = "insertObject"])
    BY <1>2 DEF AssembleDone
  <2>2. proc'[p].up = proc[p].up /\ proc'[p].pc \in Removing
    BY <1>0, <2>1 DEF Goto, Removing, Proc
  <2> QED
    BY <2>1, <2>2 DEF Removed
<1>3. CASE RemoveParts(p)
  <2>1. /\ partFile' = Removed(proc[p].up, Recorded(proc[p].parts), {})
        /\ Goto(p, [proc[p] EXCEPT !.pc = "deleteUpload"])
    BY <1>3 DEF RemoveParts
  <2>2. proc'[p].up = proc[p].up /\ proc'[p].pc \in Removing
    BY <1>0, <2>1 DEF Goto, Removing, Proc
  <2> QED
    BY <2>1, <2>2 DEF Removed
<1> QED
  BY <1>1, <1>2, <1>3, StepChanges

(* Who is about to delete an upload's row goes on until it has gone. *)
LEMMA RemovalStays ==
    ASSUME TypeInv, OpenInv, CoverInv, NEW p \in Procs, Step(p),
           NEW q \in Procs, proc[q].pc \in Removing,
           proc[q].up \in Rows'
    PROVE  proc'[q].up = proc[q].up /\ proc'[q].pc \in Removing
<1>0. proc \in [Procs -> Proc]
  BY DEF TypeInv, TypeOK
<1>1. CASE q # p
  BY <1>1, StepFrame
<1>2. CASE q = p
  <2>1. InsertObject(p) \/ DeleteUpload(p)
    BY <1>2
    DEF Step, Arrive, ArriveInitiate, ArrivePart, ArriveComplete, ArriveAbort,
        RequestStep, InitiateFindBucket, InitiateInsert, FindUpload,
        WritePart, WritePartFails, ReadParts, UpdateParts, CheckParts,
        AssemblePart, AssembleDone, RemoveParts, CleanFind, CleanNext,
        At, Removing
  <2>2. ~DeleteUpload(p)
    BY <1>2 DEF DeleteUpload, Rows, TypeInv, TypeOK
  <2>3. bucketAlive /\ InsertObject(p)
    <3>1. UNCHANGED <<upload, bucketAlive>>
      BY <2>1, <2>2 DEF InsertObject
    <3> QED
      BY <2>1, <2>2, <3>1 DEF CoverInv, Rows
  <2>4. Goto(p, [proc[p] EXCEPT !.pc = "deleteUpload"])
    BY <2>3 DEF InsertObject
  <2> QED
    BY <1>0, <1>2, <2>4 DEF Goto, Removing, Proc
<1> QED
  BY <1>1, <1>2

LEMMA CoverStays ==
    ASSUME "io" \notin Faults, TypeInv, OpenInv, CoverInv,
           NEW p \in Procs, Step(p),
           NEW u \in Uploads, NEW ns \in SUBSET PartNumbers,
           Covered(u, ns), upload'[u] # None => upload[u] # None
    PROVE  Covered(u, ns)'
<1>1. SUFFICES ASSUME u \in Rows' \ interrupted'
               PROVE  \/ \A n \in ns : partFile'[<<u, n>>] # None
                      \/ \E q \in Procs :
                           proc'[q].up = u /\ proc'[q].pc \in Removing
  BY DEF Covered
<1>2. u \in Rows \ interrupted
  BY <1>1, StepChanges DEF Rows
<1>3. CASE \A n \in ns : partFile[<<u, n>>] # None
  BY <1>3, PartFilesStay
<1>4. CASE \E q \in Procs : proc[q].up = u /\ proc[q].pc \in Removing
  BY <1>1, <1>4, RemovalStays
<1> QED
  BY <1>2, <1>3, <1>4 DEF Covered

LEMMA StepCover ==
    ASSUME "io" \notin Faults, TypeInv, OpenInv, BirthInv, CoverInv,
           NEW p \in Procs, Step(p)
    PROVE  CoverInv'
<1> DEFINE x == proc[p]
<1>0. /\ TypeInv'
      /\ \A q \in Procs \ {p} : proc'[q] = proc[q]
      /\ upload \in [Uploads -> UploadRow \cup {None}]
      /\ proc \in [Procs -> Proc]
  BY StepType, StepFrame DEF TypeInv, TypeOK
<1>1. \A parts : Recorded(parts) \in SUBSET PartNumbers
  BY DEF Recorded
<1>2. \A q \in Procs : proc[q].pc \in PartSteps =>
        proc[q].up \in Uploads /\ proc[q].part \in PartNumbers
  BY DEF TypeInv, TypeOK, WellFormed, PartSteps, Proc
(* An upload that appears is one that was to be initiated. *)
<1>3. ASSUME NEW u \in Uploads, upload'[u] # None, upload[u] = None
      PROVE  /\ InitiateInsert(p) /\ bucketAlive /\ upload'[u] = NewUpload
             /\ \A q \in Procs : proc[q].pc \in PartSteps => proc[q].up # u
  <2>1. InitiateInsert(p) /\ x.op = "initiate" /\ u = x.up
    BY <1>3, StepUploads
  <2>2. bucketAlive /\ upload' = [upload EXCEPT ![u] = NewUpload]
    BY <1>3, <2>1 DEF InitiateInsert
  <2>3. upload'[u] = NewUpload
    BY <1>0, <2>2
  <2> QED
    BY <2>1, <2>2, <2>3 DEF BirthInv, Unborn
<1>4. ~bucketAlive' => Rows' = {}
  <2>1. bucketAlive' = bucketAlive
    BY StepChanges
  <2>2. ~bucketAlive => \A u \in Uploads : upload'[u] = None
    BY <1>3 DEF CoverInv, Rows
  <2> QED
    BY <2>1, <2>2 DEF Rows
<1>5. ASSUME NEW u \in Uploads, upload'[u] # None
      PROVE  Covered(u, Recorded(upload[u].parts))'
  <2>1. CASE upload[u] = None
    <3>1. upload'[u].parts = NoParts
      BY <1>3, <1>5, <2>1 DEF NewUpload
    <3>2. \A n \in Recorded(upload'[u].parts) : FALSE
      BY <3>1 DEF Recorded, NoParts
    <3> QED
      BY <3>2 DEF Covered
  <2>2. CASE upload[u] # None /\ upload'[u] = upload[u]
    <3> DEFINE ns == Recorded(upload[u].parts)
    <3>1. Covered(u, ns) /\ ns \in SUBSET PartNumbers
      BY <1>1, <2>2 DEF CoverInv
    <3>2. ns' = ns
      BY <2>2 DEF Recorded
    <3> HIDE DEF ns
    <3>3. u \in Rows' \ interrupted' =>
            \/ \A n \in ns : partFile'[<<u, n>>] # None
            \/ \E q \in Procs : proc'[q].up = u /\ proc'[q].pc \in Removing
      BY <2>2, <3>1, CoverStays DEF Covered
    <3>4. Covered(u, ns)'
      BY <3>2, <3>3 DEF Covered
    <3> QED
      BY <3>4 DEF ns
  <2>3. CASE upload[u] # None /\ upload'[u] # upload[u]
    <3>1. UpdateParts(p) /\ u = x.up
      BY <1>5, <2>3, StepUploads, SentinelAssumption
      DEF BirthInv, Unborn
    <3>2. x.pc = "updateParts" /\ x.part \in PartNumbers /\ x.parts \in Parts
      BY <1>0, <1>2, <3>1 DEF UpdateParts, At, PartSteps, Proc
    <3> DEFINE parts == [x.parts EXCEPT ![x.part] = x.body]
               A == Recorded(x.parts)
               B == {x.part}
    <3>3. upload' = [upload EXCEPT ![u].parts = parts]
      BY <2>3, <3>1 DEF UpdateParts
    <3>4. upload'[u].parts = parts
      <4> HIDE DEF parts
      <4>1. upload[u] \in UploadRow
        BY <1>0, <2>3
      <4>2. upload'[u] = [upload[u] EXCEPT !.parts = parts]
        BY <1>0, <3>3
      <4> QED
        BY <4>1, <4>2 DEF UploadRow
    <3>5. Recorded(parts) \subseteq A \cup B
      BY <3>2 DEF Recorded, Parts
    <3> DEFINE Gone == \E q \in Procs :
                         proc'[q].up = u /\ proc'[q].pc \in Removing
    <3>6. Covered(u, A) /\ Covered(u, B)
      BY <3>1, <3>2 DEF CoverInv
    <3>7. A \in SUBSET PartNumbers /\ B \in SUBSET PartNumbers
      BY <1>1, <3>2
    <3> HIDE DEF A, B, parts
    <3>8. Gone \/ \A n \in A : partFile'[<<u, n>>] # None
          \/ u \notin Rows' \ interrupted'
      BY <2>3, <3>6, <3>7, CoverStays DEF Covered
    <3>9. Gone \/ \A n \in B : partFile'[<<u, n>>] # None
          \/ u \notin Rows' \ interrupted'
      BY <2>3, <3>6, <3>7, CoverStays DEF Covered
    <3>10. Recorded(upload[u].parts)' = Recorded(parts)
      BY <3>4 DEF Recorded
    <3> QED
      BY <3>5, <3>8, <3>9, <3>10 DEF Covered
  <2> QED
    BY <2>1, <2>2, <2>3
(* What a part upload relies on stays, as nobody initiates its upload. *)
<1>6. ASSUME NEW q \in Procs, proc[q].pc \in PartSteps,
             NEW ns \in SUBSET PartNumbers, Covered(proc[q].up, ns)
      PROVE  LET u == proc[q].up IN
             u \in Rows' \ interrupted' =>
               \/ \A n \in ns : partFile'[<<u, n>>] # None
               \/ \E r \in Procs : proc'[r].up = u /\ proc'[r].pc \in Removing
  <2> DEFINE u == proc[q].up
  <2>1. u \in Uploads /\ (upload'[u] # None => upload[u] # None)
    BY <1>2, <1>3, <1>6
  <2> HIDE DEF u
  <2>2. Covered(u, ns)
    BY <1>6 DEF u
  <2> SUFFICES u \in Rows' \ interrupted' =>
               \/ \A n \in ns : partFile'[<<u, n>>] # None
               \/ \E r \in Procs : proc'[r].up = u /\ proc'[r].pc \in Removing
    BY DEF u
  <2> QED
    BY <2>1, <2>2, CoverStays DEF Covered
<1>7. ASSUME NEW q \in Procs, proc'[q].pc \in {"readParts", "updateParts"}
      PROVE  Covered(proc[q].up, {proc[q].part})'
  <2>1. CASE \/ q # p
             \/ ReadParts(p) /\ GoesOn(p, "updateParts", upload[x.up].parts)
    <3>1. /\ proc'[q].up = proc[q].up /\ proc'[q].part = proc[q].part
          /\ proc[q].pc \in {"readParts", "updateParts"}
      BY <1>0, <1>7, <2>1 DEF ReadParts, At, GoesOn, Kept
    <3>2. Covered(proc[q].up, {proc[q].part}) /\ proc[q].pc \in PartSteps
          /\ {proc[q].part} \in SUBSET PartNumbers
      BY <1>2, <3>1 DEF CoverInv, PartSteps
    <3> DEFINE u == proc[q].up
               ns == {proc[q].part}
    <3>3. u \in Rows' \ interrupted' =>
            \/ \A n \in ns : partFile'[<<u, n>>] # None
            \/ \E r \in Procs : proc'[r].up = u /\ proc'[r].pc \in Removing
      <4> HIDE DEF ns
      <4>1. Covered(u, ns) /\ ns \in SUBSET PartNumbers
        BY <3>2 DEF ns
      <4> QED
        BY <1>6, <3>2, <4>1
    <3> QED
      BY <3>1, <3>3 DEF Covered
  <2>2. CASE q = p /\ WritePart(p) /\ GoesOn(p, "readParts", x.parts)
    <3>1. /\ x.pc = "write"
          /\ partFile' = [partFile EXCEPT ![<<x.up, x.part>>] = x.body]
          /\ proc'[p].up = x.up /\ proc'[p].part = x.part
      BY <2>2 DEF WritePart, At, GoesOn, Kept
    <3>2. x.body \in Contents /\ x.up \in Uploads /\ x.part \in PartNumbers
      BY <1>2, <3>1 DEF TypeInv, WellFormed, PartSteps
    <3>3. partFile'[<<x.up, x.part>>] # None
      BY <3>1, <3>2, SentinelAssumption DEF TypeInv, TypeOK
    <3> QED
      BY <2>2, <3>1, <3>3 DEF Covered
  <2>3. q = p => \/ ReadParts(p) /\ GoesOn(p, "updateParts", upload[x.up].parts)
                 \/ WritePart(p) /\ GoesOn(p, "readParts", x.parts)
    <3>1. q = p => RequestStep(p)
      BY <1>7, ArriveLocal, CleanLocal DEF Step
    <3> QED
      BY <1>7, <3>1, RequestLocal, FindUploadGoes
      DEF GoesOn, Ended, FindUpload, AssemblePart, At
  <2> QED
    BY <2>1, <2>2, <2>3
<1>8. ASSUME NEW q \in Procs, proc'[q].pc = "updateParts"
      PROVE  Covered(proc[q].up, Recorded(proc[q].parts))'
  <2>1. CASE q # p
    <3>1. proc'[q] = proc[q] /\ proc[q].pc = "updateParts"
      BY <1>0, <1>8, <2>1
    <3> DEFINE ns == Recorded(proc[q].parts)
    <3>2. Covered(proc[q].up, ns) /\ ns \in SUBSET PartNumbers
      BY <1>1, <3>1 DEF CoverInv
    <3>3. ns' = ns
      BY <3>1 DEF Recorded
    <3> HIDE DEF ns
    <3>4. Covered(proc[q].up, ns)'
      BY <1>6, <3>1, <3>2, <3>3 DEF Covered, PartSteps
    <3> QED
      BY <3>4 DEF ns
  <2>2. CASE q = p
    <3>1. RequestStep(p)
      BY <1>8, <2>2, ArriveLocal, CleanLocal DEF Step
    <3>2. ReadParts(p) /\ GoesOn(p, "updateParts", upload[x.up].parts)
          /\ upload[x.up] # None
      BY <1>8, <2>2, <3>1, RequestLocal, FindUploadGoes
      DEF GoesOn, Ended, FindUpload, AssemblePart, At
    <3> DEFINE ns == Recorded(upload[x.up].parts)
    <3>3. /\ x.pc = "readParts" /\ proc'[p].up = x.up
          /\ proc'[p].parts = upload[x.up].parts
      BY <3>2 DEF ReadParts, At, GoesOn, Kept
    <3>4. Covered(x.up, ns) /\ ns \in SUBSET PartNumbers /\ x.pc \in PartSteps
      BY <1>1, <1>2, <3>2, <3>3 DEF CoverInv, PartSteps
    <3>5. Recorded(proc[p].parts)' = ns
      BY <3>3 DEF Recorded
    <3> HIDE DEF ns
    <3> QED
      BY <1>6, <2>2, <3>3, <3>4, <3>5 DEF Covered
  <2> QED
    BY <2>1, <2>2
<1> QED
  BY <1>4, <1>5, <1>7, <1>8 DEF CoverInv
LEMMA EnvironmentCover ==
    ASSUME TypeInv, OpenInv, CoverInv, Environment \/ UNCHANGED vars
    PROVE  CoverInv'
<1>1. CASE \E u \in Uploads : Age(u)
  <2>1. PICK u \in Uploads :
          /\ u \in Rows /\ upload' = [upload EXCEPT ![u].stale = TRUE]
          /\ UNCHANGED <<bucketAlive, files, proc, interrupted>>
    BY <1>1 DEF Age, history
  <2>2. upload[u] \in UploadRow
    BY <2>1 DEF Rows, TypeInv, TypeOK
  <2>3. upload'[u].parts = upload[u].parts /\ upload[u] # None
    BY <2>1, <2>2 DEF UploadRow, Rows, TypeInv, TypeOK
  <2>4. \A v \in Uploads : upload'[v] # None =>
          upload[v] # None /\ upload'[v].parts = upload[v].parts
    BY <2>1, <2>3 DEF TypeInv, TypeOK
  <2>5. \A v, ns : Covered(v, ns) => Covered(v, ns)'
    BY <2>1, <2>4 DEF Covered, Rows, files
  <2> QED
    BY <2>1, <2>4, <2>5 DEF CoverInv, Rows, Recorded
<1>2. CASE DropBucket
  <2>1. Rows' = {}
    BY <1>2 DEF DropBucket, Rows
  <2> QED
    BY <2>1 DEF CoverInv, Covered, Rows
<1>3. CASE Crash
  <2>1. PICK dead \in SUBSET Procs :
          /\ proc' = [p \in Procs |-> IF p \in dead THEN Idle ELSE proc[p]]
          /\ interrupted' = interrupted \cup
               {proc[p].up : p \in {q \in dead : proc[q].pc \in Removing}}
          /\ UNCHANGED <<bucketAlive, upload, partFile>>
    BY <1>3 DEF Crash, tables, files
  <2>2. \A u, ns : Covered(u, ns) =>
          (u \in Rows \ interrupted' =>
             \/ \A n \in ns : partFile[<<u, n>>] # None
             \/ \E p \in Procs : proc'[p].up = u /\ proc'[p].pc \in Removing)
    BY <2>1 DEF Covered
  <2>3. \A p \in Procs : \/ proc'[p] = proc[p]
                          \/ proc'[p].pc = "idle"
    BY <2>1, IdleTypes
  <2>4. \A p \in Procs : proc'[p].pc \in {"readParts", "updateParts"} =>
          proc'[p] = proc[p]
    BY <2>3
  <2> QED
    BY <2>1, <2>2, <2>4 DEF CoverInv, Covered, Rows, Recorded
<1>4. CASE UNCHANGED vars
  BY <1>4 DEF vars, tables, files, history, CoverInv, Covered, Rows, Recorded
<1> QED
  BY <1>1, <1>2, <1>3, <1>4 DEF Environment

LEMMA NextCover ==
    ASSUME "io" \notin Faults
    PROVE  /\ TypeInv /\ OpenInv /\ BirthInv /\ CoverInv
           /\ [Next]_vars
           => CoverInv'
  BY StepCover, EnvironmentCover, NextSteps DEF Environment

(* As long as removing files works, an upload that nobody is about to      *)
(* delete, or died when about to, has the file of every part it records,   *)
(* with both databases and through crashes: uploadPart records a part      *)
(* after its file is written, and complete, abort and the cleaner delete   *)
(* the row after the files.                                                *)
THEOREM UnfinishedUploadKeepsParts ==
    ASSUME "io" \notin Faults
    PROVE  Spec => []RecordedPartHasFile
<1> DEFINE Inv == TypeInv /\ OpenInv /\ BirthInv /\ CoverInv
<1>1. Init => Inv
  <2>1. Init => CoverInv
    BY IdleTypes DEF Init, CoverInv, Rows
  <2> QED
    BY <2>1, InitType, InitBirth
<1>2. Inv /\ [Next]_vars => Inv'
  BY NextType, NextBirth, NextCover
<1>3. Inv => RecordedPartHasFile
  BY DEF CoverInv, Covered, Rows, RecordedPartHasFile
<1> QED
  BY <1>1, <1>2, <1>3, PTL DEF Spec

=============================================================================
