--------------------------- MODULE RustStoreProofs ---------------------------
(***************************************************************************)
(* What is proved of RustStore for all values of its constants.            *)
(***************************************************************************)
EXTENDS RustStore, TLAPS, FiniteSetTheorems, WellFoundedInduction

(* NothingWithoutBucket is inductive once the two tables are known to be   *)
(* functions of their keys.                                                *)
BucketInv ==
    /\ DOMAIN row = Versions /\ row = [v \in Versions |-> row[v]]
    /\ DOMAIN upload = Uploads /\ upload = [u \in Uploads |-> upload[u]]
    /\ NothingWithoutBucket

(* Steps that write no table preserve it. *)
LEMMA QuietStep ==
    ASSUME BucketInv, UNCHANGED tables
    PROVE  BucketInv'
  BY DEF BucketInv, NothingWithoutBucket, Stored, Rows, tables

(* A bucket that is there may gain rows. *)
LEMMA AliveStep ==
    ASSUME BucketInv, bucketAlive, bucketAlive' = bucketAlive,
           row' = row \/ \E v, x : row' = [row EXCEPT ![v] = x],
           upload' = upload \/ \E u, x : upload' = [upload EXCEPT ![u] = x]
    PROVE  BucketInv'
  BY DEF BucketInv, NothingWithoutBucket

(* Rows that are deleted leave no more than there were. *)
LEMMA DeletingStep ==
    ASSUME BucketInv, bucketAlive' = bucketAlive,
           DOMAIN row' = Versions, row' = [v \in Versions |-> row'[v]],
           \A v \in Versions : row'[v] # None => row[v] # None,
           DOMAIN upload' = Uploads, upload' = [u \in Uploads |-> upload'[u]],
           \A u \in Uploads : upload'[u] # None => upload[u] # None
    PROVE  BucketInv'
  BY DEF BucketInv, NothingWithoutBucket, Stored, Rows

LEMMA BucketInvInit == Init => BucketInv
  BY DEF Init, BucketInv, NothingWithoutBucket

LEMMA BucketInvNext == BucketInv /\ [Next]_vars => BucketInv'
<1> SUFFICES ASSUME BucketInv, [Next]_vars PROVE BucketInv'
  OBVIOUS
<1>1. CASE UNCHANGED vars
  BY <1>1, QuietStep DEF vars
<1>2. ASSUME NEW r \in Requests, RequestStep(r)
      PROVE  BucketInv'
  <2>1. CASE BeginPut(r)
    BY <2>1, QuietStep DEF BeginPut
  <2>2. CASE BeginDelete(r)
    BY <2>2, QuietStep DEF BeginDelete
  <2>3. CASE BeginDropBucket(r)
    BY <2>3, QuietStep DEF BeginDropBucket
  <2>4. CASE BeginInitiate(r)
    BY <2>4, QuietStep DEF BeginInitiate
  <2>5. CASE BeginPart(r)
    BY <2>5, QuietStep DEF BeginPart
  <2>6. CASE BeginComplete(r)
    BY <2>6, QuietStep DEF BeginComplete
  <2>7. CASE BeginAbort(r)
    BY <2>7, QuietStep DEF BeginAbort
  <2>8. CASE PutWrite(r)
    BY <2>8, QuietStep DEF PutWrite
  <2>9. CASE Insert(r)
    <3>1. CASE ~bucketAlive
      BY <2>9, <3>1, QuietStep DEF Insert, tables
    <3>2. CASE bucketAlive
      <4>1. \E e \in Expiries :
                row' = [row EXCEPT ![proc[r].ver] = NewRow(proc[r], e)]
        BY <2>9, <3>2 DEF Insert
      <4>2. \E v, x : row' = [row EXCEPT ![v] = x]
        BY <4>1
      <4>3. upload' = upload /\ bucketAlive' = bucketAlive
        BY <2>9 DEF Insert
      <4> QED  BY <3>2, <4>2, <4>3, AliveStep
    <3> QED  BY <3>1, <3>2
  <2>10. CASE SelectRows(r)
    BY <2>10, QuietStep DEF SelectRows
  <2>11. CASE Unlink(r)
    BY <2>11, QuietStep DEF Unlink
  <2>12. CASE DropBucket(r)
    BY <2>12 DEF DropBucket, BucketInv, NothingWithoutBucket, Stored, Rows
  <2>13. CASE InsertUpload(r)
    <3>1. CASE ~bucketAlive
      BY <2>13, <3>1, QuietStep DEF InsertUpload, tables
    <3>2. CASE bucketAlive
      <4>1. \E u, x : upload' = [upload EXCEPT ![u] = x]
        BY <2>13, <3>2 DEF InsertUpload
      <4>2. row' = row /\ bucketAlive' = bucketAlive
        BY <2>13 DEF InsertUpload
      <4> QED  BY <3>2, <4>1, <4>2, AliveStep
    <3> QED  BY <3>1, <3>2
  <2>14. CASE WritePart(r)
    BY <2>14, QuietStep DEF WritePart
  <2>15. CASE ReadParts(r)
    BY <2>15, QuietStep DEF ReadParts
  <2>16. CASE UpdateParts(r)
    <3>1. row' = row /\ bucketAlive' = bucketAlive
      BY <2>16 DEF UpdateParts
    <3>2. CASE upload[proc[r].up] = None
      BY <2>16, <3>1, <3>2, QuietStep DEF UpdateParts, tables
    <3>3. CASE upload[proc[r].up] # None
      <4>1. PICK x : upload' = [upload EXCEPT ![proc[r].up] = x]
        BY <2>16, <3>3 DEF UpdateParts
      <4>2. /\ DOMAIN upload' = Uploads
            /\ upload' = [u \in Uploads |-> upload'[u]]
            /\ \A u \in Uploads : upload'[u] # None => upload[u] # None
        BY <4>1, <3>3 DEF BucketInv
      <4>3. /\ DOMAIN row' = Versions
            /\ row' = [v \in Versions |-> row'[v]]
            /\ \A v \in Versions : row'[v] # None => row[v] # None
        BY <3>1 DEF BucketInv
      <4> QED  BY <3>1, <4>2, <4>3, DeletingStep
    <3> QED  BY <3>2, <3>3
  <2>17. CASE CopyPart(r)
    BY <2>17, QuietStep DEF CopyPart
  <2>18. CASE RehashPart(r)
    BY <2>18, QuietStep DEF RehashPart
  <2>19. CASE Assembled(r)
    BY <2>19, QuietStep DEF Assembled
  <2> QED
    BY <1>2, <2>1, <2>2, <2>3, <2>4, <2>5, <2>6, <2>7, <2>8, <2>9, <2>10,
       <2>11, <2>12, <2>13, <2>14, <2>15, <2>16, <2>17, <2>18, <2>19
       DEF RequestStep
<1>3. ASSUME NEW c \in Cleaners, CleanerStep(c)
      PROVE  BucketInv'
  <2>1. UNCHANGED tables
    BY <1>3 DEF CleanerStep, FindExpired, NextExpired, FindStale, NextStale,
                StatementFails
  <2> QED  BY <2>1, QuietStep
<1>4. ASSUME NEW p \in Procs, SharedStep(p)
      PROVE  BucketInv'
  <2>1. CASE DeleteRows(p)
    <3>1. /\ bucketAlive' = bucketAlive /\ upload' = upload
          /\ row' = [v \in Versions |-> IF v \in Matching(proc[p].ver)
                                        THEN None ELSE row[v]]
      BY <2>1 DEF DeleteRows
    <3> QED  BY <3>1 DEF BucketInv, NothingWithoutBucket, Stored, Rows
  <2>2. CASE RemovePart(p)
    BY <2>2, QuietStep DEF RemovePart
  <2>3. CASE DeleteUpload(p)
    <3>1. /\ bucketAlive' = bucketAlive /\ row' = row
          /\ upload' = [upload EXCEPT ![proc[p].up] = None]
      BY <2>3 DEF DeleteUpload
    <3> QED  BY <3>1 DEF BucketInv, NothingWithoutBucket, Stored, Rows
  <2>4. CASE Stop(p)
    BY <2>4, QuietStep DEF Stop
  <2> QED  BY <1>4, <2>1, <2>2, <2>3, <2>4 DEF SharedStep
<1>5. ASSUME NEW v \in Versions, Expire(v)
      PROVE  BucketInv'
  <2>1. PICK x : row' = [row EXCEPT ![v] = x]
    BY <1>5 DEF Expire
  <2>2. row[v] # None /\ bucketAlive' = bucketAlive /\ upload' = upload
    BY <1>5 DEF Expire, Stored
  <2> QED  BY <2>1, <2>2 DEF BucketInv, NothingWithoutBucket, Stored, Rows
<1>6. ASSUME NEW u \in Uploads, Age(u)
      PROVE  BucketInv'
  <2>1. PICK x : upload' = [upload EXCEPT ![u] = x]
    BY <1>6 DEF Age
  <2>2. upload[u] # None /\ bucketAlive' = bucketAlive /\ row' = row
    BY <1>6 DEF Age, Rows
  <2> QED  BY <2>1, <2>2 DEF BucketInv, NothingWithoutBucket, Stored, Rows
<1> QED
  BY <1>1, <1>2, <1>3, <1>4, <1>5, <1>6 DEF Next

(* Once its bucket has been deleted no object and no upload exists: no     *)
(* put, initiate, upload_part or complete that was under way brings one    *)
(* back, for any number of requests, keys' versions and cleanup runs.      *)
THEOREM NothingOutlivesBucket == Spec => []NothingWithoutBucket
<1>1. BucketInv => NothingWithoutBucket
  BY DEF BucketInv
<1> QED
  BY <1>1, BucketInvInit, BucketInvNext, PTL DEF Spec

-----------------------------------------------------------------------------
(* The inductive invariant of objects and uploads, in five parts *)

Resting == {"idle", "nextExpired", "nextStale"}
PartSteps == {"writePart", "readParts", "updateParts"}

(* What TypeOK lacks to be inductive: the locals that a step uses are set. *)
WellFormed(x) ==
    /\ x.pc \in Resting => x.op = None /\ x.sel = {}
    /\ x.pc \in {"select", "deleteRows", "unlink", "dropBucket", "insertUpload"}
         => x.op \notin {"put", "complete", "part"}
    /\ x.pc = "write" => x.op = "put"
    /\ x.pc = "insert" => x.op \in {"put", "complete"}
    /\ x.pc \in {"copy", "rehash"} => x.op = "complete"
    /\ x.pc \in PartSteps <=> x.op = "part"
    /\ x.op = "part" => x.part \in PartNumbers /\ x.body \in Bodies
    /\ x.op \in {"put", "complete"} => x.ver \in Versions
    /\ x.op = "put" => /\ x.pc \in {"write", "insert"}
                       /\ x.up = None /\ x.chosen = {}
                       /\ x.copied = <<>> /\ x.hashed = <<>>
    /\ (\/ x.op \in {"complete", "part"}
        \/ x.pc \in {"removeParts", "deleteUpload", "insertUpload"})
         => x.up \in Uploads
    /\ x.op = "complete" => x.chosen \subseteq Recorded(x.parts)

TypeInv ==
    /\ TypeOK
    /\ \A p \in Procs : WellFormed(proc[p])

(* Parts ps hold bodies that were sent as these parts of u. *)
Genuine(ps, u) ==
    \A n \in PartNumbers : ps[n] # None => sentAs[ps[n]] = <<u, n>>

(* Bodies cs were sent for the first of the parts ns of u. *)
Begun(cs, u, ns) ==
    /\ Len(cs) <= Cardinality(ns)
    /\ \A i \in DOMAIN cs : sentAs[cs[i]] = <<u, Nth(ns, i)>>

Made(cs, u, ns) == Len(cs) = Cardinality(ns) /\ Begun(cs, u, ns)

(* A request that has drawn a version, and not yet inserted its row. *)
Draws(x) == x.op \in {"put", "complete"} /\ x.pc # "deleteUpload"
Drawing(p) == Draws(proc[p])

(* One that has also written its file. *)
Holding(p) == Drawing(p) /\ proc[p].pc \in {"insert", "removeParts"}

(* What a request has at hand was sent for what it takes it for. *)
Sound(p) ==
    LET x == proc[p] IN
    /\ x.op = "part" => sentAs[x.body] = <<x.up, x.part>>
    /\ (x.op = "complete" \/ x.pc = "updateParts") => Genuine(x.parts, x.up)
    /\ Drawing(p) =>
         /\ Begun(x.copied, x.up, x.chosen) /\ Begun(x.hashed, x.up, x.chosen)
         /\ x.pc = "copy" => Len(x.copied) = Len(x.hashed)
         /\ x.pc = "rehash" => Len(x.copied) = Len(x.hashed) + 1
         /\ Holding(p) => /\ Len(x.copied) = Cardinality(x.chosen)
                          /\ Len(x.hashed) = Cardinality(x.chosen)

SentInv ==
    /\ \A f \in Uploads \X PartNumbers :
         partFile[f] # None => sentAs[partFile[f]] = f
    /\ \A u \in Rows : Genuine(upload[u].parts, u)
    /\ \A p \in Procs : Sound(p)

(* A drawn version belongs to one request until its row is inserted, and   *)
(* nobody is about to delete it.                                           *)
Private(p) ==
    /\ proc[p].ver \in usedVersions /\ row[proc[p].ver] = None
    /\ \A q \in Procs : proc[p].ver \notin proc[q].sel \cup proc[q].expired
    /\ \A q \in Procs \ {p} : Drawing(q) => proc[q].ver # proc[p].ver

VersionInv ==
    /\ Stored \subseteq usedVersions
    /\ \A p \in Procs : proc[p].sel \cup proc[p].expired \subseteq usedVersions
    /\ \A p \in Procs : Drawing(p) => Private(p)

(* Files are removed of rows that are gone or have expired. *)
Doomed(p) ==
    /\ \A v \in proc[p].expired : row[v] # None => row[v].expiry = "past"
    /\ proc[p].pc = "unlink" => \A v \in proc[p].sel : row[v] = None
    /\ (proc[p].pc = "deleteRows" /\ proc[p].ver # None)
         => proc[p].sel \subseteq {proc[p].ver}

DoomedInv == \A p \in Procs : Doomed(p)

(* The file of a version that is to be inserted is what was copied to it.  *)
Filed(p) == Holding(p) => file[proc[p].ver] = proc[p].copied

FileInv == \A p \in Procs : Filed(p)

(* An object's file, hash and size are made of what was sent for it. *)
RowInv ==
    \A v \in Stored :
        /\ row[v].chosen # {} => row[v].up # None
        /\ Made(row[v].hash, row[v].up, row[v].chosen)
        /\ Made(row[v].sized, row[v].up, row[v].chosen)
        /\ file[v] # None => Made(file[v], row[v].up, row[v].chosen)

ObjectInv ==
    /\ TypeInv
    /\ SentInv
    /\ VersionInv
    /\ DoomedInv
    /\ FileInv
    /\ RowInv
    /\ ServableHasFile

-----------------------------------------------------------------------------
(* Sets of part numbers *)

LEMMA PartsFinite ==
    ASSUME NEW ns \in SUBSET PartNumbers
    PROVE  IsFiniteSet(ns) /\ Cardinality(ns) \in Nat /\ ns \in SUBSET Nat
<1>1. MaxPart \in Int /\ 1 \in Int
  BY ConstantsAssumption
<1>2. IsFiniteSet(PartNumbers)
  BY <1>1, FS_Interval DEF PartNumbers
<1>3. IsFiniteSet(ns)
  BY <1>2, FS_Subset
<1>4. ns \in SUBSET Nat
  BY <1>1 DEF PartNumbers
<1> QED
  BY <1>3, <1>4, FS_CardinalityType

LEMMA LeastNat ==
    ASSUME NEW S \in SUBSET Nat, S # {}
    PROVE  \E n \in S : \A m \in S : n <= m
<1>1. PICK n \in S : \A m \in S : ~(<<m, n>> \in OpToRel(<, Nat))
  BY WFMin, NatLessThanWellFounded
<1>2. ASSUME NEW m \in S
      PROVE  n <= m
  <2>1. ~(<<m, n>> \in {ss \in Nat \X Nat : ss[1] < ss[2]})
    BY <1>1 DEF OpToRel
  <2>2. m \in Nat /\ n \in Nat
    OBVIOUS
  <2>3. ~(m < n)
    BY <2>1, <2>2
  <2> QED
    BY <2>2, <2>3
<1> QED
  BY <1>2

UpTo(ns, n) == {m \in ns : m <= n}

(* Every set of part numbers has an i-th. *)
LEMMA NthType ==
    ASSUME NEW ns \in SUBSET PartNumbers, NEW i \in 1..Cardinality(ns)
    PROVE  Nth(ns, i) \in ns
<1> DEFINE S == {n \in Nat : i <= Cardinality(UpTo(ns, n))}
<1>1. \A n \in Nat : /\ UpTo(ns, n) \in SUBSET PartNumbers
                     /\ IsFiniteSet(UpTo(ns, n)) /\ Cardinality(UpTo(ns, n)) \in Nat
  BY PartsFinite DEF UpTo
<1>2. /\ Cardinality(ns) \in Nat /\ i \in Nat /\ i > 0
      /\ \A m \in ns : m \in Nat /\ m > 0 /\ m <= MaxPart
      /\ MaxPart \in Nat
  BY PartsFinite, ConstantsAssumption DEF PartNumbers
<1>3. MaxPart \in S
  <2>1. UpTo(ns, MaxPart) = ns
    BY <1>2 DEF UpTo
  <2> QED
    BY <1>2, <2>1
<1>4. PICK n \in S : \A m \in S : n <= m
  <2> HIDE DEF S
  <2>1. S \in SUBSET Nat
    BY DEF S
  <2> QED
    BY <1>3, <2>1, LeastNat
<1>5. n # 0
  <2>1. UpTo(ns, 0) = {}
    BY <1>2 DEF UpTo
  <2>2. Cardinality(UpTo(ns, 0)) = 0
    BY <2>1, FS_EmptySet
  <2> QED
    BY <1>2, <1>4, <2>2
<1> DEFINE k == n - 1
<1>6. k \in Nat /\ Cardinality(UpTo(ns, k)) < i
  <2>1. k \in Nat /\ k < n
    BY <1>4, <1>5
  <2>2. n \in Nat
    OBVIOUS
  <2>3. k \notin S
    <3> HIDE DEF S
    <3> QED
      BY <1>4, <2>1, <2>2
  <2>4. ~(i <= Cardinality(UpTo(ns, k)))
    BY <2>1, <2>3
  <2> QED
    BY <1>1, <1>2, <2>1, <2>4
<1>7. n \in ns
  <2>1. SUFFICES ASSUME n \notin ns PROVE FALSE
    OBVIOUS
  <2>2. \A m \in ns : m <= n <=> m <= k
    BY <1>2, <1>6, <2>1
  <2>3. UpTo(ns, n) = UpTo(ns, k)
    BY <2>2 DEF UpTo
  <2>4. n \in Nat /\ i <= Cardinality(UpTo(ns, n))
    OBVIOUS
  <2> QED
    BY <1>1, <1>2, <1>6, <2>3, <2>4
<1>8. Cardinality(UpTo(ns, n)) = Cardinality(UpTo(ns, k)) + 1
  <2>1. \A m \in ns : m <= n <=> (m <= k \/ m = n)
    BY <1>2, <1>6, <1>7
  <2>2. UpTo(ns, n) = UpTo(ns, k) \cup {n}
    BY <1>2, <1>7, <2>1 DEF UpTo
  <2>3. n \notin UpTo(ns, k)
    BY <1>2, <1>7 DEF UpTo
  <2> QED
    BY <1>1, <1>6, <2>2, <2>3, FS_AddElement
<1>9. Cardinality(UpTo(ns, n)) = i
  <2>1. n \in Nat /\ i <= Cardinality(UpTo(ns, n))
    OBVIOUS
  <2> QED
    BY <1>1, <1>2, <1>6, <1>8, <2>1
<1> QED
  BY <1>7, <1>9 DEF Nth, UpTo

-----------------------------------------------------------------------------
(* What a step of p may do, as far as the other processes can tell, and    *)
(* what it has to establish of p itself.                                   *)

RowStep(p) ==
    \A v \in Versions :
        \/ row'[v] \in {row[v], None}
        \/ /\ Drawing(p) /\ proc[p].pc = "insert" /\ v = proc[p].ver
           /\ ~Drawing(p)'
           /\ \E e \in Expiries : row'[v] = NewRow(proc[p], e)

FileStep(p) ==
    \A v \in Versions :
        \/ file'[v] = file[v]
        \/ Drawing(p) /\ ~Holding(p) /\ v = proc[p].ver
        \/ /\ file'[v] = None
           /\ v \in proc[p].expired \/ (proc[p].pc = "unlink" /\ v \in proc[p].sel)

PartFileStep ==
    \A f \in Uploads \X PartNumbers :
        partFile'[f] \in {partFile[f], None} \/ sentAs'[partFile'[f]] = f

UploadStep ==
    \A u \in Uploads :
        \/ upload'[u] \in {upload[u], None}
        \/ Genuine(upload[u].parts, u)'

SentStep == \A b \in Bodies : sentAs[b] # None => sentAs'[b] = sentAs[b]

VersionStep(p) ==
    /\ usedVersions \subseteq usedVersions'
    /\ proc'[p].sel \cup proc'[p].expired
         \subseteq proc[p].sel \cup proc[p].expired \cup Stored
    /\ Drawing(p)' => \/ Drawing(p) /\ proc'[p].ver = proc[p].ver
                      \/ proc'[p].ver \in usedVersions' \ usedVersions

Own(p) == Sound(p) /\ Doomed(p) /\ Filed(p)

Step(p) ==
    /\ proc' = [proc EXCEPT ![p] = proc'[p]]
    /\ SentStep /\ PartFileStep /\ UploadStep
    /\ RowStep(p) /\ FileStep(p) /\ VersionStep(p)
    /\ Own(p)'

-----------------------------------------------------------------------------
(* Such a step preserves the invariant. *)

(* What was sent as something remains so. *)
LEMMA GenuineKept ==
    ASSUME TypeInv, SentStep, NEW ps \in Parts, NEW u \in Uploads, Genuine(ps, u)
    PROVE  \A n \in PartNumbers : ps[n] # None => sentAs'[ps[n]] = <<u, n>>
<1> TAKE n \in PartNumbers
<1> HAVE ps[n] # None
<1>1. ps[n] \in Bodies
  BY DEF Parts
<1>2. sentAs[ps[n]] = <<u, n>>
  BY DEF Genuine
<1>3. <<u, n>> # None
  BY SentinelAssumption
<1> QED
  BY <1>1, <1>2, <1>3 DEF SentStep

LEMMA BegunKept ==
    ASSUME TypeInv, SentStep, NEW cs \in Seq(Bodies), NEW u \in Uploads \cup {None},
           NEW ns \in SUBSET PartNumbers, Begun(cs, u, ns), ns # {} => u \in Uploads
    PROVE  \A i \in DOMAIN cs : sentAs'[cs[i]] = <<u, Nth(ns, i)>>
<1> TAKE i \in DOMAIN cs
<1>1. cs[i] \in Bodies /\ i \in 1..Len(cs) /\ Len(cs) \in Nat
  OBVIOUS
<1>2. sentAs[cs[i]] = <<u, Nth(ns, i)>> /\ Len(cs) <= Cardinality(ns)
  BY DEF Begun
<1>3. i \in 1..Cardinality(ns) /\ Cardinality(ns) \in Nat
  BY <1>1, <1>2, PartsFinite
<1>4. ns # {}
  <2>1. Cardinality(ns) # 0 /\ IsFiniteSet(ns)
    BY <1>3, PartsFinite
  <2> QED
    BY <2>1, FS_EmptySet
<1>5. Nth(ns, i) \in PartNumbers
  BY <1>3, NthType
<1>6. <<u, Nth(ns, i)>> # None
  BY <1>4, <1>5, SentinelAssumption
<1> QED
  BY <1>1, <1>2, <1>6 DEF SentStep

LEMMA OthersKept ==
    ASSUME TypeInv, NEW p \in Procs, proc' = [proc EXCEPT ![p] = proc'[p]],
           NEW q \in Procs \ {p}
    PROVE  /\ proc'[q] = proc[q]
           /\ Drawing(q)' = Drawing(q) /\ Holding(q)' = Holding(q)
<1>1. proc'[q] = proc[q]
  BY DEF TypeInv, TypeOK
<1> QED
  BY <1>1 DEF Drawing, Holding

(* A request that has drawn a version to assemble parts has an upload.     *)
LEMMA DrawnUpload ==
    ASSUME TypeInv, NEW p \in Procs, Drawing(p)
    PROVE  /\ proc[p].ver \in Versions /\ proc[p].chosen \in SUBSET PartNumbers
           /\ proc[p].chosen # {} => proc[p].up \in Uploads
           /\ proc[p].copied \in Seq(Bodies) /\ proc[p].hashed \in Seq(Bodies)
           /\ proc[p].up \in Uploads \cup {None}
<1>1. proc[p] \in Local /\ WellFormed(proc[p])
  BY DEF TypeInv, TypeOK
<1>2. proc[p].op \in {"put", "complete"}
  BY DEF Drawing, Draws
<1>3. proc[p].ver \in Versions /\ (proc[p].chosen # {} => proc[p].up \in Uploads)
  BY <1>1, <1>2 DEF WellFormed
<1>4. /\ proc[p].chosen \in SUBSET PartNumbers
      /\ proc[p].copied \in Seq(Bodies) /\ proc[p].hashed \in Seq(Bodies)
      /\ proc[p].up \in Uploads \cup {None}
  BY <1>1 DEF Local
<1> QED
  BY <1>3, <1>4

LEMMA SoundKept ==
    ASSUME TypeInv, NEW p \in Procs, NEW q \in Procs \ {p}, Step(p), Sound(q)
    PROVE  Sound(q)'
<1> DEFINE x == proc[q]
<1>1. /\ proc'[q] = x /\ Drawing(q)' = Drawing(q) /\ Holding(q)' = Holding(q)
      /\ SentStep
  BY OthersKept DEF Step
<1>2. x \in Local /\ WellFormed(x)
  BY DEF TypeInv, TypeOK
<1>3. ASSUME x.op = "part"
      PROVE  sentAs'[x.body] = <<x.up, x.part>>
  <2>1. x.body \in Bodies /\ x.up \in Uploads /\ x.part \in PartNumbers
    BY <1>2, <1>3 DEF WellFormed
  <2>2. sentAs[x.body] = <<x.up, x.part>>
    BY <1>3 DEF Sound
  <2>3. <<x.up, x.part>> # None
    BY <2>1, SentinelAssumption
  <2> QED
    BY <1>1, <2>1, <2>2, <2>3 DEF SentStep
<1>4. ASSUME x.op = "complete" \/ x.pc = "updateParts"
      PROVE  Genuine(x.parts, x.up)'
  <2>1. x.up \in Uploads /\ x.parts \in Parts
    BY <1>2, <1>4 DEF WellFormed, Local, PartSteps
  <2>2. Genuine(x.parts, x.up)
    BY <1>4 DEF Sound
  <2>3. \A n \in PartNumbers : x.parts[n] # None => sentAs'[x.parts[n]] = <<x.up, n>>
    BY <1>1, <2>1, <2>2, GenuineKept
  <2> QED
    BY <1>1, <2>3 DEF Genuine
<1>5. ASSUME Drawing(q)
      PROVE  /\ Begun(x.copied, x.up, x.chosen)'
             /\ Begun(x.hashed, x.up, x.chosen)'
  <2>1. Begun(x.copied, x.up, x.chosen) /\ Begun(x.hashed, x.up, x.chosen)
    BY <1>5 DEF Sound
  <2>2. /\ \A i \in DOMAIN x.copied :
             sentAs'[x.copied[i]] = <<x.up, Nth(x.chosen, i)>>
        /\ \A i \in DOMAIN x.hashed :
             sentAs'[x.hashed[i]] = <<x.up, Nth(x.chosen, i)>>
    BY <1>1, <1>5, <2>1, BegunKept, DrawnUpload
  <2> QED
    BY <1>1, <2>1, <2>2 DEF Begun
<1> QED
  BY <1>1, <1>3, <1>4, <1>5 DEF Sound

LEMMA SentKept ==
    ASSUME TypeInv, TypeInv', SentInv, NEW p \in Procs, Step(p)
    PROVE  SentInv'
<1>1. /\ SentStep /\ PartFileStep /\ UploadStep /\ Sound(p)'
  BY DEF Step, Own
<1>2. ASSUME NEW f \in Uploads \X PartNumbers, partFile'[f] # None
      PROVE  sentAs'[partFile'[f]] = f
  <2>1. CASE partFile'[f] = partFile[f]
    <3>1. partFile[f] \in Bodies
      BY <1>2, <2>1 DEF TypeInv, TypeOK
    <3>2. sentAs[partFile[f]] = f
      BY <1>2, <2>1 DEF SentInv
    <3>3. f # None
      BY SentinelAssumption
    <3> QED
      BY <1>1, <2>1, <3>1, <3>2, <3>3 DEF SentStep
  <2>2. CASE sentAs'[partFile'[f]] = f
    BY <2>2
  <2> QED
    BY <1>1, <1>2, <2>1, <2>2 DEF PartFileStep
<1>3. ASSUME NEW u \in Uploads, upload'[u] # None
      PROVE  Genuine(upload[u].parts, u)'
  <2>1. CASE upload'[u] = upload[u]
    <3>1. u \in Rows /\ upload[u] \in UploadRow
      BY <1>3, <2>1 DEF Rows, TypeInv, TypeOK
    <3>2. upload[u].parts \in Parts /\ Genuine(upload[u].parts, u)
      BY <3>1 DEF SentInv, UploadRow
    <3>3. \A n \in PartNumbers : upload[u].parts[n] # None =>
              sentAs'[upload[u].parts[n]] = <<u, n>>
      BY <1>1, <3>2, GenuineKept
    <3> QED
      BY <2>1, <3>3 DEF Genuine
  <2>2. CASE Genuine(upload[u].parts, u)'
    BY <2>2
  <2> QED
    BY <1>1, <1>3, <2>1, <2>2 DEF UploadStep
<1>4. ASSUME NEW q \in Procs
      PROVE  Sound(q)'
  <2>1. CASE q = p
    BY <1>1, <2>1
  <2>2. CASE q # p
    BY <2>2, SoundKept DEF SentInv
  <2> QED
    BY <2>1, <2>2
<1> QED
  BY <1>2, <1>3, <1>4 DEF SentInv, Rows

(* A version that p does not draw keeps its row, or loses it. *)
LEMMA RowOfOthers ==
    ASSUME TypeInv, VersionInv, NEW p \in Procs, Step(p),
           NEW v \in Versions, row[v] # None \/ ~Drawing(p) \/ v # proc[p].ver
    PROVE  row'[v] \in {row[v], None}
<1>1. Drawing(p) => row[proc[p].ver] = None
  BY DEF VersionInv, Private
<1> QED
  BY <1>1 DEF Step, RowStep

LEMMA DrawnIsNew ==
    ASSUME TypeInv, TypeInv', VersionInv, NEW p \in Procs, Step(p), Drawing(p)'
    PROVE  /\ row'[proc'[p].ver] = None
           /\ proc'[p].ver \in usedVersions'
           /\ \A q \in Procs : proc'[p].ver \notin proc[q].sel \cup proc[q].expired
           /\ \A q \in Procs \ {p} : Drawing(q) => proc[q].ver # proc'[p].ver
<1> DEFINE v == proc'[p].ver
<1>1. v \in Versions
  BY DrawnUpload DEF Drawing, Draws, TypeInv, TypeOK, WellFormed
<1>2. row'[v] \in {row[v], None}
  BY <1>1 DEF Step, RowStep
<1>3. CASE Drawing(p) /\ v = proc[p].ver
  <2>1. Private(p)
    BY <1>3 DEF VersionInv
  <2> QED
    BY <1>2, <1>3, <2>1 DEF Private, Step, VersionStep
<1>4. CASE v \in usedVersions' \ usedVersions
  <2>1. row[v] = None
    BY <1>1, <1>4 DEF VersionInv, Stored
  <2>2. \A q \in Procs : v \notin proc[q].sel \cup proc[q].expired
    BY <1>4 DEF VersionInv
  <2>3. \A q \in Procs \ {p} : Drawing(q) => proc[q].ver # v
    BY <1>4 DEF VersionInv, Private
  <2> QED
    BY <1>2, <1>4, <2>1, <2>2, <2>3
<1> QED
  BY <1>3, <1>4 DEF Step, VersionStep

LEMMA VersionKept ==
    ASSUME TypeInv, TypeInv', VersionInv, NEW p \in Procs, Step(p)
    PROVE  VersionInv'
<1>1. /\ usedVersions \subseteq usedVersions'
      /\ proc'[p].sel \cup proc'[p].expired
            \subseteq proc[p].sel \cup proc[p].expired \cup Stored
  BY DEF Step, VersionStep
<1>2. \A q \in Procs \ {p} : proc'[q] = proc[q] /\ Drawing(q)' = Drawing(q)
  BY OthersKept DEF Step
<1>3. ASSUME NEW v \in Stored'
      PROVE  v \in usedVersions'
  <2>1. v \in Versions /\ row'[v] # None
    BY DEF Stored
  <2>2. CASE row'[v] = row[v]
    BY <1>1, <2>1, <2>2 DEF VersionInv, Stored
  <2>3. CASE Drawing(p) /\ v = proc[p].ver
    BY <1>1, <2>3 DEF VersionInv, Private
  <2> QED
    BY <2>1, <2>2, <2>3 DEF Step, RowStep
<1>4. ASSUME NEW q \in Procs
      PROVE  proc'[q].sel \cup proc'[q].expired \subseteq usedVersions'
  BY <1>1, <1>2 DEF VersionInv
<1>5. ASSUME NEW q \in Procs, Drawing(q)'
      PROVE  Private(q)'
  <2>1. CASE q = p
    <3>1. /\ row'[proc'[p].ver] = None
          /\ proc'[p].ver \in usedVersions'
          /\ \A t \in Procs : proc'[p].ver \notin proc[t].sel \cup proc[t].expired
          /\ \A t \in Procs \ {p} : Drawing(t) => proc[t].ver # proc'[p].ver
      BY <1>5, <2>1, DrawnIsNew
    <3>2. proc'[p].ver \in Versions
      BY <1>5, <2>1 DEF Drawing, Draws, TypeInv, TypeOK, WellFormed
    <3>3. proc'[p].ver \notin proc'[p].sel \cup proc'[p].expired
      <4>1. CASE Drawing(p) /\ proc'[p].ver = proc[p].ver
        <5>1. proc'[p].ver \notin Stored
          BY <4>1 DEF VersionInv, Private, Stored
        <5> QED
          BY <1>1, <3>1, <5>1
      <4>2. CASE proc'[p].ver \in usedVersions' \ usedVersions
        BY <1>1, <4>2 DEF VersionInv
      <4> QED
        BY <1>5, <2>1, <4>1, <4>2 DEF Step, VersionStep
    <3>4. \A t \in Procs : proc'[p].ver \notin proc'[t].sel \cup proc'[t].expired
      BY <1>2, <3>1, <3>3
    <3>5. \A t \in Procs \ {p} : Drawing(t)' => proc'[t].ver # proc'[p].ver
      BY <1>2, <3>1
    <3> QED
      BY <2>1, <3>1, <3>4, <3>5 DEF Private
  <2>2. CASE q # p
    <3> DEFINE v == proc[q].ver
    <3>1. Drawing(q) /\ proc'[q] = proc[q] /\ Private(q)
      BY <1>2, <1>5, <2>2 DEF VersionInv
    <3>2. v \in Versions
      BY <3>1, DrawnUpload
    <3>3. row'[v] = None /\ v \in usedVersions'
      <4>1. ~Drawing(p) \/ v # proc[p].ver
        BY <2>2, <3>1 DEF Private
      <4>2. row'[v] \in {row[v], None}
        BY <3>2, <4>1, RowOfOthers
      <4> QED
        BY <1>1, <3>1, <4>2 DEF Private
    <3>4. \A t \in Procs : v \notin proc'[t].sel \cup proc'[t].expired
      <4>1. v \notin Stored
        BY <3>1 DEF Private, Stored
      <4> QED
        BY <1>1, <1>2, <3>1, <4>1 DEF Private
    <3>5. ASSUME NEW t \in Procs \ {q}, Drawing(t)'
          PROVE  proc'[t].ver # v
      <4>1. CASE t = p
        BY <2>2, <3>1, <3>5, <4>1, DrawnIsNew
      <4>2. CASE t # p
        BY <1>2, <3>1, <3>5, <4>2 DEF Private
      <4> QED
        BY <4>1, <4>2
    <3> QED
      BY <3>1, <3>3, <3>4, <3>5 DEF Private
  <2> QED
    BY <2>1, <2>2
<1> QED
  BY <1>3, <1>4, <1>5 DEF VersionInv

LEMMA DoomedKept ==
    ASSUME TypeInv, VersionInv, DoomedInv, NEW p \in Procs, Step(p)
    PROVE  DoomedInv'
<1>1. Doomed(p)'
  BY DEF Step, Own
<1>2. ASSUME NEW q \in Procs \ {p}
      PROVE  Doomed(q)'
  <2>1. proc'[q] = proc[q]
    BY OthersKept DEF Step
  <2>2. Doomed(q)
    BY DEF DoomedInv
  <2>3. \A v \in proc[q].sel \cup proc[q].expired :
            v \in Versions /\ row'[v] \in {row[v], None}
    <3>1. \A v \in proc[q].sel \cup proc[q].expired :
              v \in Versions /\ (~Drawing(p) \/ v # proc[p].ver)
      BY DEF VersionInv, Private, TypeInv, TypeOK, Local
    <3> QED
      BY <3>1, RowOfOthers
  <2> QED
    BY <2>1, <2>2, <2>3 DEF Doomed
<1> QED
  BY <1>1, <1>2 DEF DoomedInv

LEMMA FileKept ==
    ASSUME TypeInv, VersionInv, FileInv, NEW p \in Procs, Step(p)
    PROVE  FileInv'
<1>1. Filed(p)'
  BY DEF Step, Own
<1>2. ASSUME NEW q \in Procs \ {p}, Holding(q)'
      PROVE  file'[proc'[q].ver] = proc'[q].copied
  <2>1. proc'[q] = proc[q] /\ Holding(q)
    BY <1>2, OthersKept DEF Step
  <2>2. Drawing(q) /\ Private(q) /\ proc[q].ver \in Versions
    BY <2>1, DrawnUpload DEF Holding, VersionInv
  <2>3. file[proc[q].ver] = proc[q].copied
    BY <2>1 DEF FileInv, Filed
  <2>4. file'[proc[q].ver] = file[proc[q].ver]
    BY <2>2 DEF Private, Step, FileStep
  <2> QED
    BY <2>1, <2>3, <2>4
<1> QED
  BY <1>1, <1>2 DEF FileInv, Filed

LEMMA MadeKept ==
    ASSUME TypeInv, SentStep, NEW cs \in Seq(Bodies), NEW u \in Uploads \cup {None},
           NEW ns \in SUBSET PartNumbers, ns # {} => u # None, Made(cs, u, ns)
    PROVE  /\ Len(cs) = Cardinality(ns)
           /\ \A i \in DOMAIN cs : sentAs'[cs[i]] = <<u, Nth(ns, i)>>
<1>1. Begun(cs, u, ns) /\ Len(cs) = Cardinality(ns)
  BY DEF Made
<1>2. ns # {} => u \in Uploads
  OBVIOUS
<1> QED
  BY <1>1, <1>2, BegunKept

(* What complete adds the size up from are the parts it chose. *)
LEMMA SizedMade ==
    ASSUME NEW ps \in Parts, NEW u, NEW ns \in SUBSET PartNumbers,
           ns \subseteq Recorded(ps), ns # {} => Genuine(ps, u)
    PROVE  LET cs == [i \in 1..Cardinality(ns) |-> ps[Nth(ns, i)]] IN
           /\ cs \in Seq(Bodies)
           /\ Made(cs, u, ns)
<1> DEFINE cs == [i \in 1..Cardinality(ns) |-> ps[Nth(ns, i)]]
<1>1. Cardinality(ns) \in Nat
  BY PartsFinite
<1>2. ASSUME NEW i \in 1..Cardinality(ns)
      PROVE  ps[Nth(ns, i)] \in Bodies /\ sentAs[ps[Nth(ns, i)]] = <<u, Nth(ns, i)>>
  <2>1. Nth(ns, i) \in ns
    BY NthType
  <2>2. Nth(ns, i) \in PartNumbers /\ ps[Nth(ns, i)] # None
    BY <2>1 DEF Recorded
  <2>3. ps[Nth(ns, i)] \in Bodies
    BY <2>2 DEF Parts
  <2> QED
    BY <2>1, <2>2, <2>3 DEF Genuine
<1>3. cs \in Seq(Bodies) /\ Len(cs) = Cardinality(ns)
  BY <1>1, <1>2
<1>4. \A i \in DOMAIN cs : sentAs[cs[i]] = <<u, Nth(ns, i)>>
  BY <1>2
<1> HIDE DEF cs
<1>5. Made(cs, u, ns)
  BY <1>1, <1>3, <1>4 DEF Made, Begun
<1> QED
  BY <1>3, <1>5 DEF cs

(* The request that inserts its row has its file, and all of it is sound.  *)
LEMMA NewRowMade ==
    ASSUME TypeInv, SentInv, FileInv, NEW p \in Procs,
           Drawing(p), proc[p].pc = "insert", NEW e \in Expiries
    PROVE  LET o == NewRow(proc[p], e) IN
           /\ o \in ObjectRow
           /\ o.chosen # {} => o.up # None
           /\ Made(o.hash, o.up, o.chosen)
           /\ Made(o.sized, o.up, o.chosen)
           /\ file[proc[p].ver] = proc[p].copied
           /\ Made(proc[p].copied, o.up, o.chosen)
<1> DEFINE x == proc[p]
           o == NewRow(x, e)
           sized == [i \in 1..Cardinality(x.chosen) |-> x.parts[Nth(x.chosen, i)]]
<1>1. x \in Local /\ WellFormed(x)
  BY DEF TypeInv, TypeOK
<1>2. Holding(p)
  BY DEF Holding
<1>3. /\ Made(x.copied, x.up, x.chosen)
      /\ Made(x.hashed, x.up, x.chosen)
  BY <1>2 DEF SentInv, Sound, Made
<1>4. file[x.ver] = x.copied
  BY <1>2 DEF FileInv, Filed
<1>5. x.op \in {"put", "complete"}
  BY DEF Drawing, Draws
<1>6. /\ x.parts \in Parts /\ x.chosen \in SUBSET PartNumbers
      /\ x.hashed \in Seq(Bodies) /\ x.up \in Uploads \cup {None}
      /\ e \in {"never", "pending", "past"}
  BY <1>1, ConstantsAssumption DEF Local
<1>7. /\ x.chosen \subseteq Recorded(x.parts)
      /\ x.chosen # {} => Genuine(x.parts, x.up) /\ x.up # None
  <2>1. CASE x.op = "put"
    BY <1>1, <2>1 DEF WellFormed
  <2>2. CASE x.op = "complete"
    BY <1>1, <2>2, SentinelAssumption DEF WellFormed, SentInv, Sound
  <2> QED
    BY <1>5, <2>1, <2>2
<1>8. sized \in Seq(Bodies) /\ Made(sized, x.up, x.chosen)
  BY <1>6, <1>7, SizedMade
<1> HIDE DEF sized
<1>9. o = [expiry |-> e, up |-> x.up, chosen |-> x.chosen, hash |-> x.hashed,
           sized |-> sized]
  BY DEF NewRow, sized
<1>10. o \in ObjectRow
  BY <1>6, <1>8, <1>9 DEF ObjectRow
<1> QED
  BY <1>3, <1>4, <1>7, <1>8, <1>9, <1>10

LEMMA RowKept ==
    ASSUME TypeInv, TypeInv', SentInv, VersionInv, FileInv, RowInv,
           NEW p \in Procs, Step(p)
    PROVE  RowInv'
<1> SUFFICES ASSUME NEW v \in Versions, row'[v] # None
             PROVE  /\ row'[v].chosen # {} => row'[v].up # None
                    /\ Made(row[v].hash, row[v].up, row[v].chosen)'
                    /\ Made(row[v].sized, row[v].up, row[v].chosen)'
                    /\ file'[v] # None =>
                         Made(file[v], row[v].up, row[v].chosen)'
  BY DEF RowInv, Stored
<1> DEFINE o == row'[v]
<1>1. SentStep
  BY DEF Step
<1>2. /\ o \in ObjectRow
      /\ file'[v] # None => file'[v] \in Seq(Bodies)
  BY DEF TypeInv, TypeOK
<1>3. /\ o.hash \in Seq(Bodies) /\ o.sized \in Seq(Bodies)
      /\ o.up \in Uploads \cup {None} /\ o.chosen \in SUBSET PartNumbers
  BY <1>2 DEF ObjectRow
<1>4. /\ o.chosen # {} => o.up # None
      /\ Made(o.hash, o.up, o.chosen) /\ Made(o.sized, o.up, o.chosen)
      /\ file'[v] # None => Made(file'[v], o.up, o.chosen)
  <2>1. CASE row'[v] = row[v]
    <3>1. v \in Stored
      BY <2>1 DEF Stored
    <3>2. ~Drawing(p) \/ v # proc[p].ver
      BY <3>1 DEF VersionInv, Private, Stored
    <3>3. file'[v] \in {file[v], None}
      BY <3>2 DEF Step, FileStep
    <3> QED
      BY <2>1, <3>1, <3>3 DEF RowInv
  <2>2. CASE /\ Drawing(p) /\ proc[p].pc = "insert" /\ v = proc[p].ver
             /\ \E e \in Expiries : row'[v] = NewRow(proc[p], e)
    <3>0. PICK e \in Expiries : row'[v] = NewRow(proc[p], e)
      BY <2>2
    <3>1. /\ o.chosen # {} => o.up # None
          /\ Made(o.hash, o.up, o.chosen) /\ Made(o.sized, o.up, o.chosen)
          /\ file[v] = proc[p].copied
          /\ Made(proc[p].copied, o.up, o.chosen)
      BY <2>2, <3>0, NewRowMade
    <3>2. Holding(p)
      BY <2>2 DEF Holding
    <3>3. file'[v] \in {file[v], None}
      BY <3>2 DEF Step, FileStep
    <3> QED
      BY <3>1, <3>3
  <2>3. row'[v] = row[v] \/ (/\ Drawing(p) /\ proc[p].pc = "insert" /\ v = proc[p].ver
                             /\ \E e \in Expiries : row'[v] = NewRow(proc[p], e))
    BY DEF Step, RowStep
  <2> QED
    BY <2>1, <2>2, <2>3
<1> HIDE DEF o
<1>5. ASSUME NEW cs \in Seq(Bodies), Made(cs, o.up, o.chosen)
      PROVE  /\ Len(cs) = Cardinality(o.chosen)
             /\ \A i \in DOMAIN cs : sentAs'[cs[i]] = <<o.up, Nth(o.chosen, i)>>
  BY <1>1, <1>3, <1>4, <1>5, MadeKept
<1>6. ASSUME NEW cs \in Seq(Bodies), Made(cs, o.up, o.chosen)
      PROVE  /\ Len(cs) = Cardinality(o.chosen)
             /\ Len(cs) <= Cardinality(o.chosen)
             /\ \A i \in DOMAIN cs : sentAs'[cs[i]] = <<o.up, Nth(o.chosen, i)>>
  <2>1. Len(cs) \in Nat
    OBVIOUS
  <2> QED
    BY <1>5, <1>6, <2>1
<1>7. /\ Made(row[v].hash, row[v].up, row[v].chosen)'
      /\ Made(row[v].sized, row[v].up, row[v].chosen)'
  BY <1>3, <1>4, <1>6 DEF Made, Begun, o
<1>8. file'[v] # None => Made(file[v], row[v].up, row[v].chosen)'
  BY <1>2, <1>4, <1>6 DEF Made, Begun, o
<1> QED
  BY <1>4, <1>7, <1>8 DEF o

LEMMA ServableKept ==
    ASSUME TypeInv, TypeInv', VersionInv, DoomedInv, FileInv, ServableHasFile,
           NEW p \in Procs, Step(p)
    PROVE  ServableHasFile'
<1> SUFFICES ASSUME NEW v \in Versions, row'[v] # None, row'[v].expiry # "past"
             PROVE  file'[v] # None
  BY DEF ServableHasFile, Live, Stored
<1>1. CASE row'[v] = row[v]
  <2>1. v \in Live /\ v \in Stored
    BY <1>1 DEF Live, Stored
  <2>2. file[v] # None
    BY <2>1 DEF ServableHasFile
  <2>3. ~Drawing(p) \/ v # proc[p].ver
    BY <2>1 DEF VersionInv, Private, Stored
  <2>4. v \notin proc[p].expired /\ ~(proc[p].pc = "unlink" /\ v \in proc[p].sel)
    BY <1>1 DEF DoomedInv, Doomed
  <2> QED
    BY <2>2, <2>3, <2>4 DEF Step, FileStep
<1>2. CASE Drawing(p) /\ proc[p].pc = "insert" /\ v = proc[p].ver
  <2>1. Holding(p) /\ Private(p)
    BY <1>2 DEF Holding, VersionInv
  <2>2. file[v] = proc[p].copied
    BY <1>2, <2>1 DEF FileInv, Filed
  <2>3. file[v] # None
    BY <1>2, <2>2, DrawnUpload, SentinelAssumption
  <2>4. v \notin proc[p].sel \cup proc[p].expired
    BY <1>2, <2>1 DEF Private
  <2>5. file'[v] = file[v]
    BY <2>1, <2>4 DEF Step, FileStep
  <2> QED
    BY <2>3, <2>5
<1> QED
  BY <1>1, <1>2 DEF Step, RowStep

LEMMA StepKeeps ==
    ASSUME ObjectInv, TypeInv', NEW p \in Procs, Step(p)
    PROVE  ObjectInv'
<1>1. /\ TypeInv /\ SentInv /\ VersionInv /\ DoomedInv /\ FileInv /\ RowInv
      /\ ServableHasFile
  BY DEF ObjectInv
<1>2. SentInv' /\ VersionInv'
  BY <1>1, SentKept, VersionKept
<1>3. DoomedInv' /\ FileInv'
  BY <1>1, DoomedKept, FileKept
<1>4. RowInv' /\ ServableHasFile'
  BY <1>1, RowKept, ServableKept
<1> QED
  BY <1>2, <1>3, <1>4 DEF ObjectInv

-----------------------------------------------------------------------------
(* Every action of a process is such a step: first what actions share.     *)

LocalStep(p) ==
    /\ proc' = [proc EXCEPT ![p] = proc'[p]]
    /\ proc'[p] \in Local /\ WellFormed(proc'[p])

(* TypeOK without the processes. *)
StoresTyped ==
    /\ bucketAlive \in BOOLEAN
    /\ row \in [Versions -> ObjectRow \cup {None}]
    /\ upload \in [Uploads -> UploadRow \cup {None}]
    /\ file \in [Versions -> Seq(Bodies) \cup {None}]
    /\ partFile \in [Uploads \X PartNumbers -> Bodies \cup {None}]
    /\ usedVersions \subseteq Versions
    /\ usedUploads \subseteq Uploads
    /\ sentAs \in [Bodies -> (Uploads \X PartNumbers) \cup {None}]

LEMMA TypedStep ==
    ASSUME TypeInv, NEW p \in Procs, LocalStep(p), StoresTyped'
    PROVE  TypeInv'
<1>1. proc' \in [Procs -> Local]
  BY DEF TypeInv, TypeOK, LocalStep
<1>2. \A q \in Procs : WellFormed(proc'[q])
  BY DEF TypeInv, TypeOK, LocalStep
<1>3. TypeOK'
  BY <1>1 DEF TypeOK, StoresTyped
<1> QED
  BY <1>2, <1>3 DEF TypeInv

LEMMA ProcTyped ==
    ASSUME ObjectInv, NEW p \in Procs
    PROVE  /\ proc[p] \in Local /\ WellFormed(proc[p]) /\ StoresTyped
           /\ Sound(p) /\ Doomed(p) /\ Filed(p) /\ (Drawing(p) => Private(p))
  BY DEF ObjectInv, TypeInv, TypeOK, StoresTyped, SentInv, DoomedInv, FileInv,
         VersionInv

LEMMA GotoLocal ==
    ASSUME TypeInv, NEW p \in Procs, NEW y, Goto(p, y)
    PROVE  proc'[p] = y /\ proc' = [proc EXCEPT ![p] = proc'[p]]
  BY DEF Goto, TypeInv, TypeOK

LEMMA QuietStores ==
    ASSUME StoresTyped, NEW p \in Procs, UNCHANGED <<tables, files, drawn>>
    PROVE  /\ StoresTyped'
           /\ SentStep /\ PartFileStep /\ UploadStep /\ RowStep(p) /\ FileStep(p)
           /\ usedVersions' = usedVersions
<1>1. /\ bucketAlive' = bucketAlive /\ row' = row /\ upload' = upload
      /\ file' = file /\ partFile' = partFile /\ usedVersions' = usedVersions
      /\ usedUploads' = usedUploads /\ sentAs' = sentAs
  BY DEF tables, files, drawn
<1>2. StoresTyped'
  BY <1>1 DEF StoresTyped
<1> QED
  BY <1>1, <1>2 DEF SentStep, PartFileStep, UploadStep, RowStep, FileStep

LEMMA QuietStepIs ==
    ASSUME ObjectInv, NEW p \in Procs, UNCHANGED <<tables, files, drawn>>,
           LocalStep(p), VersionStep(p), Own(p)'
    PROVE  TypeInv' /\ Step(p)
<1>1. StoresTyped /\ TypeInv
  BY ProcTyped DEF ObjectInv
<1> QED
  BY <1>1, QuietStores, TypedStep DEF Step, LocalStep

(* A process that is neither building an object nor sending a part only    *)
(* has to mind what it is about to delete.                                 *)
LEMMA PlainOwn ==
    ASSUME NEW p \in Procs, proc'[p].op \notin {"put", "complete", "part"},
           proc'[p].pc # "updateParts", Doomed(p)'
    PROVE  Own(p)' /\ ~Drawing(p)'
  BY DEF Own, Sound, Filed, Holding, Drawing, Draws

LEMMA IdleType ==
    Idle \in Local /\ WellFormed(Idle)
<1>1. NoParts \in Parts
  BY DEF NoParts, Parts
<1>2. Idle \in Local
  BY <1>1 DEF Idle, Local, PC
<1>3. WellFormed(Idle)
  BY SentinelAssumption DEF Idle, WellFormed, Resting, PartSteps, AllOps
<1> QED
  BY <1>2, <1>3

LEMMA FinishLocal ==
    ASSUME TypeInv, NEW p \in Procs, Finish(p)
    PROVE  /\ LocalStep(p)
           /\ proc'[p].op = None /\ proc'[p].pc \in Resting
           /\ proc'[p].sel = {} /\ proc'[p].expired \in {{}, proc[p].expired}
<1> DEFINE x == proc[p]
           y == CASE x.expired # {} ->
                       [Idle EXCEPT !.pc = "nextExpired", !.expired = x.expired]
                  [] x.stale # {} ->
                       [Idle EXCEPT !.pc = "nextStale", !.stale = x.stale]
                  [] OTHER -> Idle
<1>1. proc'[p] = y /\ proc' = [proc EXCEPT ![p] = proc'[p]]
  BY GotoLocal DEF Finish
<1>2. x \in Local
  BY DEF TypeInv, TypeOK
<1>3. /\ x.expired \in SUBSET Versions
      /\ x.stale \in SUBSET (Uploads \X SUBSET PartNumbers)
  BY <1>2 DEF Local
<1>4. \/ y = [Idle EXCEPT !.pc = "nextExpired", !.expired = x.expired]
      \/ y = [Idle EXCEPT !.pc = "nextStale", !.stale = x.stale]
      \/ y = Idle
  OBVIOUS
<1> HIDE DEF y
<1>5. /\ y \in Local
      /\ y.op = None /\ y.pc \in Resting
      /\ y.sel = {} /\ y.expired \in {{}, x.expired}
  <2>1. CASE y = [Idle EXCEPT !.pc = "nextExpired", !.expired = x.expired]
    <3>1. /\ y.op = None /\ y.pc = "nextExpired" /\ y.sel = {}
          /\ y.expired = x.expired
      BY <2>1 DEF Idle
    <3>2. y \in Local
      BY <1>3, <2>1, IdleType DEF Local, PC
    <3> QED
      BY <3>1, <3>2 DEF Resting
  <2>2. CASE y = [Idle EXCEPT !.pc = "nextStale", !.stale = x.stale]
    <3>1. y.op = None /\ y.pc = "nextStale" /\ y.sel = {} /\ y.expired = {}
      BY <2>2 DEF Idle
    <3>2. y \in Local
      BY <1>3, <2>2, IdleType DEF Local, PC
    <3> QED
      BY <3>1, <3>2 DEF Resting
  <2>3. CASE y = Idle
    BY <2>3, IdleType DEF Idle, Resting
  <2> QED
    BY <1>4, <2>1, <2>2, <2>3
<1>6. WellFormed(y)
  BY <1>5, SentinelAssumption DEF WellFormed, Resting, PartSteps, AllOps
<1> QED
  BY <1>1, <1>5, <1>6 DEF LocalStep

(* A request that has been answered does nothing more. *)
LEMMA FinishOwn ==
    ASSUME ObjectInv, NEW p \in Procs, Finish(p), RowStep(p),
           usedVersions' = usedVersions
    PROVE  LocalStep(p) /\ VersionStep(p) /\ Own(p)'
<1> DEFINE y == proc'[p]
<1>1. /\ LocalStep(p)
      /\ y.op = None /\ y.pc \in Resting
      /\ y.sel = {} /\ y.expired \in {{}, proc[p].expired}
  BY FinishLocal DEF ObjectInv
<1>2. \A v \in proc[p].expired : v \in Versions /\ row'[v] \in {row[v], None}
  BY ProcTyped DEF Local, RowStep, Private
<1>3. Doomed(p)'
  BY <1>1, <1>2, ProcTyped DEF Doomed, Resting
<1>4. Own(p)' /\ ~Drawing(p)'
  BY <1>1, <1>3, PlainOwn, SentinelAssumption DEF Resting, AllOps
<1> QED
  BY <1>1, <1>4 DEF VersionStep

LEMMA QuietFinish ==
    ASSUME ObjectInv, NEW p \in Procs, Finish(p), UNCHANGED <<tables, files, drawn>>
    PROVE  TypeInv' /\ Step(p)
  BY FinishOwn, QuietStepIs, QuietStores, ProcTyped

LEMMA RemovingLocal ==
    ASSUME NEW x \in Local, NEW u \in Uploads, NEW rest \in SUBSET PartNumbers
    PROVE  LET y == RemovingParts(x, u, rest) IN
           /\ y \in Local /\ y.up = u
           /\ y.pc \in {"removeParts", "deleteUpload", "insert"}
           /\ y.pc = "insert" => x.op = "complete"
           /\ x.op = "complete" => y.pc \in {"removeParts", "insert"}
           /\ y.op = x.op /\ y.ver = x.ver /\ y.part = x.part /\ y.body = x.body
           /\ y.chosen = x.chosen /\ y.parts = x.parts /\ y.copied = x.copied
           /\ y.hashed = x.hashed /\ y.sel = x.sel /\ y.expired = x.expired
<1> DEFINE c == CASE rest # {} -> "removeParts"
                  [] rest = {} /\ x.op = "complete" -> "insert"
                  [] OTHER -> "deleteUpload"
           y == [x EXCEPT !.up = u, !.rest = rest, !.pc = c]
<1>1. /\ c \in {"removeParts", "deleteUpload", "insert"}
      /\ c = "insert" => x.op = "complete"
      /\ x.op = "complete" => c \in {"removeParts", "insert"}
  OBVIOUS
<1>2. RemovingParts(x, u, rest) = y
  BY DEF RemovingParts
<1> HIDE DEF c
<1>3. y.pc = c
  BY DEF Local
<1>4. /\ y.up = u
      /\ y.op = x.op /\ y.ver = x.ver /\ y.part = x.part /\ y.body = x.body
      /\ y.chosen = x.chosen /\ y.parts = x.parts /\ y.copied = x.copied
      /\ y.hashed = x.hashed /\ y.sel = x.sel /\ y.expired = x.expired
  BY DEF Local
<1>5. y \in Local
  BY <1>1 DEF Local, PC
<1> QED
  BY <1>1, <1>2, <1>3, <1>4, <1>5

-----------------------------------------------------------------------------
(* Requests arrive *)

LEMMA StartLocal ==
    ASSUME ObjectInv, NEW r \in Procs, NEW op, NEW z \in Local, Start(r, op, z)
    PROVE  /\ proc'[r] = [z EXCEPT !.op = op]
           /\ proc' = [proc EXCEPT ![r] = proc'[r]]
           /\ proc'[r].op = op /\ proc'[r].pc = z.pc
           /\ op \in AllOps /\ ~Drawing(r)
<1>1. TypeInv /\ WellFormed(proc[r])
  BY ProcTyped DEF ObjectInv
<1>2. op \in AllOps
  BY ConstantsAssumption DEF Start
<1>3. Goto(r, [z EXCEPT !.op = op]) /\ proc[r].pc = "idle"
  BY DEF Start, At
<1>4. proc'[r] = [z EXCEPT !.op = op] /\ proc' = [proc EXCEPT ![r] = proc'[r]]
  BY <1>1, <1>3, GotoLocal
<1>5. proc'[r].op = op /\ proc'[r].pc = z.pc
  BY <1>4 DEF Local
<1>6. ~Drawing(r)
  BY <1>1, <1>3, SentinelAssumption DEF WellFormed, Resting, Drawing, Draws, AllOps
<1> QED
  BY <1>2, <1>4, <1>5, <1>6

(* A request that begins by deleting, or by initiating an upload. *)
LEMMA PlainStart ==
    ASSUME ObjectInv, NEW r \in Procs, NEW op \in {"delete", "dropBucket",
           "initiate", "abort"}, NEW z \in Local, Start(r, op, z), z.sel = {},
           z.expired = {},
           z.pc \in {"select", "dropBucket", "insertUpload", "removeParts",
                     "deleteUpload"},
           z.pc \in {"insertUpload", "removeParts", "deleteUpload"} => z.up \in Uploads,
           usedVersions' = usedVersions
    PROVE  LocalStep(r) /\ VersionStep(r) /\ Own(r)'
<1> DEFINE y == proc'[r]
<1>1. /\ y = [z EXCEPT !.op = op] /\ op \in AllOps
      /\ proc' = [proc EXCEPT ![r] = y]
      /\ y.op = op /\ y.pc = z.pc
  BY StartLocal
<1>2. y.sel = {} /\ y.expired = {} /\ y.up = z.up
  BY <1>1 DEF Local
<1>3. y \in Local
  BY <1>1 DEF Local
<1>4. WellFormed(y)
  BY <1>1, <1>2 DEF WellFormed, Resting, PartSteps
<1>5. Doomed(r)'
  BY <1>2 DEF Doomed
<1>6. Own(r)' /\ ~Drawing(r)'
  BY <1>1, <1>5, PlainOwn
<1> QED
  BY <1>1, <1>2, <1>3, <1>4, <1>6 DEF LocalStep, VersionStep

LEMMA BeginDeleteStep ==
    ASSUME ObjectInv, NEW r \in Procs, BeginDelete(r)
    PROVE  TypeInv' /\ Step(r)
<1>1. PICK v \in usedVersions \cup {None} :
          Start(r, "delete", [Idle EXCEPT !.pc = "select", !.ver = v])
  BY DEF BeginDelete
<1> DEFINE z == [Idle EXCEPT !.pc = "select", !.ver = v]
<1>2. UNCHANGED <<tables, files, drawn>>
  BY DEF BeginDelete
<1>3. usedVersions \subseteq Versions
  BY ProcTyped DEF StoresTyped
<1>4. z \in Local /\ z.pc = "select" /\ z.sel = {} /\ z.expired = {}
  BY <1>3, IdleType DEF Idle, Local, PC
<1> HIDE DEF z
<1>5. LocalStep(r) /\ VersionStep(r) /\ Own(r)'
  BY <1>1, <1>2, <1>4, PlainStart DEF drawn, z
<1> QED
  BY <1>2, <1>5, QuietStepIs

LEMMA BeginDropBucketStep ==
    ASSUME ObjectInv, NEW r \in Procs, BeginDropBucket(r)
    PROVE  TypeInv' /\ Step(r)
<1> DEFINE z == [Idle EXCEPT !.pc = "dropBucket"]
<1>1. Start(r, "dropBucket", z) /\ UNCHANGED <<tables, files, drawn>>
  BY DEF BeginDropBucket
<1>2. z \in Local /\ z.pc = "dropBucket" /\ z.sel = {} /\ z.expired = {}
  BY IdleType DEF Idle, Local, PC
<1> HIDE DEF z
<1>3. LocalStep(r) /\ VersionStep(r) /\ Own(r)'
  BY <1>1, <1>2, PlainStart DEF drawn
<1> QED
  BY <1>1, <1>3, QuietStepIs

LEMMA BeginInitiateStep ==
    ASSUME ObjectInv, NEW r \in Procs, BeginInitiate(r)
    PROVE  TypeInv' /\ Step(r)
<1>1. PICK u \in Uploads \ usedUploads :
        /\ Start(r, "initiate", [Idle EXCEPT !.pc = "insertUpload", !.up = u])
        /\ usedUploads' = usedUploads \cup {u}
  BY DEF BeginInitiate
<1> DEFINE z == [Idle EXCEPT !.pc = "insertUpload", !.up = u]
<1>2. /\ bucketAlive' = bucketAlive /\ row' = row /\ upload' = upload
      /\ file' = file /\ partFile' = partFile /\ usedVersions' = usedVersions
      /\ sentAs' = sentAs
  BY DEF BeginInitiate, tables, files
<1>3. /\ z \in Local /\ z.pc = "insertUpload" /\ z.up \in Uploads
      /\ z.sel = {} /\ z.expired = {}
  BY IdleType DEF Idle, Local, PC
<1> HIDE DEF z
<1>4. LocalStep(r) /\ VersionStep(r) /\ Own(r)'
  BY <1>1, <1>2, <1>3, PlainStart DEF z
<1>5. StoresTyped'
  BY <1>1, <1>2, ProcTyped DEF StoresTyped
<1>6. SentStep /\ PartFileStep /\ UploadStep /\ RowStep(r) /\ FileStep(r)
  BY <1>2 DEF SentStep, PartFileStep, UploadStep, RowStep, FileStep
<1>7. TypeInv'
  BY <1>4, <1>5, TypedStep DEF ObjectInv
<1> QED
  BY <1>4, <1>6, <1>7 DEF Step, LocalStep

LEMMA BeginAbortStep ==
    ASSUME ObjectInv, NEW r \in Procs, BeginAbort(r)
    PROVE  TypeInv' /\ Step(r)
<1>1. PICK u \in Rows :
          Start(r, "abort", RemovingParts(Idle, u, Recorded(upload[u].parts)))
  BY DEF BeginAbort
<1> DEFINE z == RemovingParts(Idle, u, Recorded(upload[u].parts))
<1>2. UNCHANGED <<tables, files, drawn>>
  BY DEF BeginAbort
<1>3. u \in Uploads /\ Recorded(upload[u].parts) \in SUBSET PartNumbers
  BY DEF Rows, Recorded
<1>4. /\ z \in Local /\ z.up \in Uploads
      /\ z.pc \in {"removeParts", "deleteUpload", "insert"}
      /\ z.pc = "insert" => Idle.op = "complete"
      /\ z.sel = Idle.sel /\ z.expired = Idle.expired
  BY <1>3, IdleType, RemovingLocal
<1>5. z.pc \in {"removeParts", "deleteUpload"} /\ z.sel = {} /\ z.expired = {}
  BY <1>4, SentinelAssumption DEF Idle, AllOps
<1> HIDE DEF z
<1>6. LocalStep(r) /\ VersionStep(r) /\ Own(r)'
  BY <1>1, <1>2, <1>4, <1>5, PlainStart DEF drawn, z
<1> QED
  BY <1>2, <1>6, QuietStepIs

LEMMA BeginPutStep ==
    ASSUME ObjectInv, NEW r \in Procs, BeginPut(r)
    PROVE  TypeInv' /\ Step(r)
<1>1. PICK v \in Versions \ usedVersions :
        /\ Start(r, "put", [Idle EXCEPT !.pc = "write", !.ver = v])
        /\ usedVersions' = usedVersions \cup {v}
  BY DEF BeginPut
<1> DEFINE z == [Idle EXCEPT !.pc = "write", !.ver = v]
           y == proc'[r]
<1>2. /\ bucketAlive' = bucketAlive /\ row' = row /\ upload' = upload
      /\ file' = file /\ partFile' = partFile /\ usedUploads' = usedUploads
      /\ sentAs' = sentAs
  BY DEF BeginPut, tables, files
<1>3. z \in Local
  BY IdleType DEF Idle, Local, PC
<1>4. y = [z EXCEPT !.op = "put"] /\ proc' = [proc EXCEPT ![r] = y] /\ ~Drawing(r)
  <2>1. Start(r, "put", z)
    BY <1>1
  <2> HIDE DEF z
  <2> QED
    BY <1>3, <2>1, StartLocal
<1>5. /\ y.op = "put" /\ y.pc = "write" /\ y.ver = v /\ y.up = None
      /\ y.chosen = {} /\ y.copied = <<>> /\ y.hashed = <<>>
      /\ y.sel = {} /\ y.expired = {}
  BY <1>4 DEF Idle
<1>6. y \in Local
  BY <1>3, <1>4 DEF Local, AllOps
<1>7. WellFormed(y)
  BY <1>5 DEF WellFormed, Resting, PartSteps
<1>8. Own(r)'
  <2>1. Cardinality({}) = 0
    BY FS_EmptySet
  <2>2. /\ Begun(proc[r].copied, proc[r].up, proc[r].chosen)'
        /\ Begun(proc[r].hashed, proc[r].up, proc[r].chosen)'
    BY <1>5, <2>1 DEF Begun
  <2>3. Sound(r)'
    BY <1>5, <2>2 DEF Sound, Holding
  <2>4. Doomed(r)' /\ Filed(r)'
    BY <1>5 DEF Doomed, Filed, Holding
  <2> QED
    BY <2>3, <2>4 DEF Own
<1>9. VersionStep(r)
  BY <1>1, <1>5 DEF VersionStep
<1>10. StoresTyped'
  BY <1>1, <1>2, ProcTyped DEF StoresTyped
<1>11. SentStep /\ PartFileStep /\ UploadStep /\ RowStep(r) /\ FileStep(r)
  BY <1>2 DEF SentStep, PartFileStep, UploadStep, RowStep, FileStep
<1>12. TypeInv'
  BY <1>4, <1>6, <1>7, <1>10, TypedStep DEF ObjectInv, LocalStep
<1> QED
  BY <1>4, <1>8, <1>9, <1>11, <1>12 DEF Step

LEMMA BeginPartStep ==
    ASSUME ObjectInv, NEW r \in Procs, BeginPart(r)
    PROVE  TypeInv' /\ Step(r)
<1>1. PICK u \in Rows, n \in PartNumbers, b \in Bodies :
        /\ sentAs[b] = None
        /\ sentAs' = [sentAs EXCEPT ![b] = <<u, n>>]
        /\ Start(r, "part", [Idle EXCEPT !.pc = "writePart", !.up = u,
                                         !.part = n, !.body = b])
  BY DEF BeginPart
<1> DEFINE z == [Idle EXCEPT !.pc = "writePart", !.up = u, !.part = n, !.body = b]
           y == proc'[r]
<1>2. /\ bucketAlive' = bucketAlive /\ row' = row /\ upload' = upload
      /\ file' = file /\ partFile' = partFile /\ usedUploads' = usedUploads
      /\ usedVersions' = usedVersions
  BY DEF BeginPart, tables, files
<1>3. u \in Uploads
  BY DEF Rows
<1>4. z \in Local
  BY <1>3, IdleType DEF Idle, Local, PC
<1>5. y = [z EXCEPT !.op = "part"] /\ proc' = [proc EXCEPT ![r] = y] /\ ~Drawing(r)
  <2>1. Start(r, "part", z)
    BY <1>1
  <2> HIDE DEF z
  <2> QED
    BY <1>4, <2>1, StartLocal
<1>6. /\ y.op = "part" /\ y.pc = "writePart" /\ y.up = u /\ y.part = n /\ y.body = b
      /\ y.sel = {} /\ y.expired = {}
  BY <1>5 DEF Idle
<1>7. y \in Local
  BY <1>4, <1>5 DEF Local, AllOps
<1>8. WellFormed(y)
  BY <1>3, <1>6 DEF WellFormed, Resting, PartSteps
<1>9. StoresTyped'
  BY <1>1, <1>2, <1>3, ProcTyped DEF StoresTyped
<1>10. Own(r)' /\ ~Drawing(r)'
  <2>1. sentAs'[b] = <<u, n>>
    BY <1>1, ProcTyped DEF StoresTyped
  <2>2. ~Drawing(r)'
    BY <1>6 DEF Drawing, Draws
  <2>3. Sound(r)'
    BY <1>6, <2>1, <2>2 DEF Sound
  <2>4. Doomed(r)' /\ Filed(r)'
    BY <1>6, <2>2 DEF Doomed, Filed, Holding
  <2> QED
    BY <2>2, <2>3, <2>4 DEF Own
<1>11. VersionStep(r)
  BY <1>2, <1>6, <1>10 DEF VersionStep
<1>12. PartFileStep /\ UploadStep /\ RowStep(r) /\ FileStep(r)
  BY <1>2 DEF PartFileStep, UploadStep, RowStep, FileStep
<1>13. SentStep
  BY <1>1, ProcTyped DEF SentStep, StoresTyped
<1>14. TypeInv'
  BY <1>5, <1>7, <1>8, <1>9, TypedStep DEF ObjectInv, LocalStep
<1> QED
  BY <1>5, <1>10, <1>11, <1>12, <1>13, <1>14 DEF Step

LEMMA BeginCompleteStep ==
    ASSUME ObjectInv, NEW r \in Procs, BeginComplete(r)
    PROVE  TypeInv' /\ Step(r)
<1>1. PICK u \in Rows, v \in Versions \ usedVersions :
        \E ns \in SUBSET Recorded(upload[u].parts) :
            /\ Start(r, "complete", [Idle EXCEPT !.pc = "copy", !.up = u,
                         !.chosen = ns, !.ver = v, !.parts = upload[u].parts])
            /\ usedVersions' = usedVersions \cup {v}
  BY DEF BeginComplete
<1>2. PICK ns \in SUBSET Recorded(upload[u].parts) :
            /\ Start(r, "complete", [Idle EXCEPT !.pc = "copy", !.up = u,
                         !.chosen = ns, !.ver = v, !.parts = upload[u].parts])
            /\ usedVersions' = usedVersions \cup {v}
  BY <1>1
<1> DEFINE z == [Idle EXCEPT !.pc = "copy", !.up = u, !.chosen = ns, !.ver = v,
                             !.parts = upload[u].parts]
           y == proc'[r]
<1>3. /\ bucketAlive' = bucketAlive /\ row' = row /\ upload' = upload
      /\ file' = file /\ partFile' = partFile /\ usedUploads' = usedUploads
      /\ sentAs' = sentAs
  BY DEF BeginComplete, tables, files
<1>4. /\ u \in Uploads /\ ns \in SUBSET PartNumbers
      /\ upload[u].parts \in Parts /\ Genuine(upload[u].parts, u)
  <2>1. u \in Uploads /\ upload[u] \in UploadRow
    BY ProcTyped DEF Rows, StoresTyped
  <2> QED
    BY <2>1 DEF Recorded, UploadRow, ObjectInv, SentInv
<1>5. z \in Local
  BY <1>4, IdleType DEF Idle, Local, PC
<1>6. y = [z EXCEPT !.op = "complete"] /\ proc' = [proc EXCEPT ![r] = y]
  <2>1. Start(r, "complete", z)
    BY <1>2
  <2> HIDE DEF z
  <2> QED
    BY <1>5, <2>1, StartLocal
<1>7. /\ y.op = "complete" /\ y.pc = "copy" /\ y.ver = v /\ y.up = u
      /\ y.chosen = ns /\ y.parts = upload[u].parts
      /\ y.copied = <<>> /\ y.hashed = <<>> /\ y.sel = {} /\ y.expired = {}
  BY <1>6 DEF Idle
<1>8. y \in Local
  <2> HIDE DEF z
  <2> QED
    BY <1>5, <1>6 DEF Local, AllOps
<1>9. WellFormed(y)
  BY <1>4, <1>7 DEF WellFormed, Resting, PartSteps
<1>10. Own(r)'
  <2>1. Cardinality(ns) \in Nat
    BY <1>4, PartsFinite
  <2>2. /\ Begun(proc[r].copied, proc[r].up, proc[r].chosen)'
        /\ Begun(proc[r].hashed, proc[r].up, proc[r].chosen)'
    BY <1>7, <2>1 DEF Begun
  <2>3. Genuine(proc[r].parts, proc[r].up)'
    BY <1>3, <1>4, <1>7 DEF Genuine
  <2>4. Sound(r)'
    BY <1>7, <2>2, <2>3 DEF Sound, Holding
  <2>5. Doomed(r)' /\ Filed(r)'
    BY <1>7 DEF Doomed, Filed, Holding
  <2> QED
    BY <2>4, <2>5 DEF Own
<1>11. VersionStep(r)
  BY <1>2, <1>7 DEF VersionStep
<1>12. StoresTyped'
  BY <1>2, <1>3, ProcTyped DEF StoresTyped
<1>13. SentStep /\ PartFileStep /\ UploadStep /\ RowStep(r) /\ FileStep(r)
  BY <1>3 DEF SentStep, PartFileStep, UploadStep, RowStep, FileStep
<1>14. TypeInv'
  BY <1>6, <1>8, <1>9, <1>12, TypedStep DEF ObjectInv, LocalStep
<1> QED
  BY <1>6, <1>10, <1>11, <1>13, <1>14 DEF Step

-----------------------------------------------------------------------------
(* put_object, create(), hard_delete and delete_bucket *)

LEMMA FinishStepIs ==
    ASSUME ObjectInv, NEW p \in Procs, Finish(p), StoresTyped', SentStep,
           PartFileStep, UploadStep, RowStep(p), FileStep(p),
           usedVersions' = usedVersions
    PROVE  TypeInv' /\ Step(p)
<1>1. LocalStep(p) /\ VersionStep(p) /\ Own(p)'
  BY FinishOwn
<1>2. TypeInv'
  BY <1>1, TypedStep DEF ObjectInv
<1> QED
  BY <1>1, <1>2 DEF Step, LocalStep

(* The other fields of a process that only moves on. *)
LEMMA MovedOn ==
    ASSUME TypeInv, NEW p \in Procs, NEW pc \in PC,
           Goto(p, [proc[p] EXCEPT !.pc = pc])
    PROVE  LET x == proc[p]
               y == proc'[p] IN
           /\ proc' = [proc EXCEPT ![p] = y] /\ y \in Local
           /\ y.pc = pc /\ y.op = x.op /\ y.ver = x.ver /\ y.up = x.up
           /\ y.part = x.part /\ y.body = x.body /\ y.chosen = x.chosen
           /\ y.parts = x.parts /\ y.copied = x.copied /\ y.hashed = x.hashed
           /\ y.sel = x.sel /\ y.expired = x.expired
<1>1. proc[p] \in Local
  BY DEF TypeInv, TypeOK
<1>2. /\ proc'[p] = [proc[p] EXCEPT !.pc = pc]
      /\ proc' = [proc EXCEPT ![p] = proc'[p]]
  BY GotoLocal
<1>3. proc'[p] \in Local
  BY <1>1, <1>2 DEF Local
<1> QED
  BY <1>1, <1>2, <1>3 DEF Local

LEMMA PutWriteStep ==
    ASSUME ObjectInv, NEW r \in Procs, PutWrite(r)
    PROVE  TypeInv' /\ Step(r)
<1> DEFINE x == proc[r]
           y == proc'[r]
<1>1. /\ x.pc = "write" /\ file' = [file EXCEPT ![x.ver] = <<>>]
      /\ Goto(r, [x EXCEPT !.pc = "insert"])
  BY DEF PutWrite, At
<1>2. /\ bucketAlive' = bucketAlive /\ row' = row /\ upload' = upload
      /\ partFile' = partFile /\ usedVersions' = usedVersions
      /\ usedUploads' = usedUploads /\ sentAs' = sentAs
  BY DEF PutWrite, tables, drawn
<1>3. /\ x.op = "put" /\ x.ver \in Versions /\ x.up = None /\ x.chosen = {}
      /\ x.copied = <<>> /\ x.hashed = <<>>
  BY <1>1, ProcTyped DEF WellFormed
<1>4. /\ proc' = [proc EXCEPT ![r] = y] /\ y \in Local
      /\ y.pc = "insert" /\ y.op = "put" /\ y.ver = x.ver /\ y.up = None
      /\ y.chosen = {} /\ y.copied = <<>> /\ y.hashed = <<>>
      /\ y.sel = x.sel /\ y.expired = x.expired
  BY <1>1, <1>3, MovedOn DEF PC, ObjectInv
<1>5. WellFormed(y)
  BY <1>3, <1>4 DEF WellFormed, Resting, PartSteps
<1>6. Drawing(r) /\ ~Holding(r) /\ Drawing(r)'
  BY <1>1, <1>3, <1>4 DEF Drawing, Draws, Holding
<1>7. Own(r)'
  <2>1. Cardinality({}) = 0
    BY FS_EmptySet
  <2>2. /\ Begun(proc[r].copied, proc[r].up, proc[r].chosen)'
        /\ Begun(proc[r].hashed, proc[r].up, proc[r].chosen)'
    BY <1>4, <2>1 DEF Begun
  <2>3. Sound(r)'
    BY <1>4, <2>1, <2>2 DEF Sound
  <2>4. Doomed(r)'
    BY <1>2, <1>4, ProcTyped DEF Doomed
  <2>5. Filed(r)'
    BY <1>1, <1>3, <1>4, ProcTyped DEF Filed, StoresTyped
  <2> QED
    BY <2>3, <2>4, <2>5 DEF Own
<1>8. VersionStep(r)
  BY <1>2, <1>4, <1>6 DEF VersionStep
<1>9. StoresTyped'
  <2>1. <<>> \in Seq(Bodies)
    OBVIOUS
  <2>2. file' \in [Versions -> Seq(Bodies) \cup {None}]
    BY <1>1, <2>1, ProcTyped DEF StoresTyped
  <2> QED
    BY <1>2, <2>2, ProcTyped DEF StoresTyped
<1>10. SentStep /\ PartFileStep /\ UploadStep /\ RowStep(r)
  BY <1>2 DEF SentStep, PartFileStep, UploadStep, RowStep
<1>11. FileStep(r)
  BY <1>1, <1>6, ProcTyped DEF FileStep, StoresTyped
<1>12. TypeInv'
  BY <1>4, <1>5, <1>9, TypedStep DEF ObjectInv, LocalStep
<1> QED
  BY <1>4, <1>7, <1>8, <1>10, <1>11, <1>12 DEF Step

LEMMA InsertStep ==
    ASSUME ObjectInv, NEW r \in Procs, Insert(r)
    PROVE  TypeInv' /\ Step(r)
<1> DEFINE x == proc[r]
           y == proc'[r]
<1>1. /\ bucketAlive' = bucketAlive /\ upload' = upload /\ file' = file
      /\ partFile' = partFile /\ usedVersions' = usedVersions
      /\ usedUploads' = usedUploads /\ sentAs' = sentAs /\ x.pc = "insert"
  BY DEF Insert, files, drawn, At
<1>2. x.op \in {"put", "complete"} /\ x.ver \in Versions
  BY <1>1, ProcTyped DEF WellFormed
<1>3. Drawing(r) /\ Private(r)
  BY <1>1, <1>2, ProcTyped DEF Drawing, Draws
<1>4. SentStep /\ PartFileStep /\ UploadStep /\ FileStep(r)
  BY <1>1 DEF SentStep, PartFileStep, UploadStep, FileStep
<1>5. CASE ~bucketAlive
  <2>1. Finish(r) /\ row' = row
    BY <1>5 DEF Insert
  <2>2. RowStep(r)
    BY <2>1 DEF RowStep
  <2>3. StoresTyped'
    BY <1>1, <2>1, ProcTyped DEF StoresTyped
  <2> QED
    BY <1>1, <1>4, <2>1, <2>2, <2>3, FinishStepIs
<1>6. CASE bucketAlive
  <2>1. PICK e \in Expiries : row' = [row EXCEPT ![x.ver] = NewRow(x, e)]
    BY <1>6 DEF Insert
  <2>2. NewRow(x, e) \in ObjectRow
    BY <1>1, <1>3, NewRowMade DEF ObjectInv
  <2>3. StoresTyped'
    BY <1>1, <1>2, <2>1, <2>2, ProcTyped DEF StoresTyped
  <2>4. /\ row'[x.ver] = NewRow(x, e)
        /\ \A v \in Versions : v # x.ver => row'[v] = row[v]
    BY <1>2, <2>1, ProcTyped DEF StoresTyped
  <2>5. ASSUME ~Drawing(r)'
        PROVE  RowStep(r)
    BY <1>1, <1>3, <2>4, <2>5 DEF RowStep
  <2>6. CASE x.op = "put"
    <3>1. Finish(r)
      BY <1>6, <2>6 DEF Insert
    <3>2. y.op = None
      BY <3>1, FinishLocal DEF ObjectInv
    <3>3. ~Drawing(r)'
      BY <3>2, SentinelAssumption DEF Drawing, Draws, AllOps
    <3> QED
      BY <1>1, <1>4, <2>3, <2>5, <3>1, <3>3, FinishStepIs
  <2>7. CASE x.op = "complete"
    <3>1. Goto(r, [x EXCEPT !.pc = "deleteUpload"])
      BY <1>6, <2>7 DEF Insert
    <3>2. /\ proc' = [proc EXCEPT ![r] = y] /\ y \in Local
          /\ y.pc = "deleteUpload" /\ y.op = "complete" /\ y.ver = x.ver
          /\ y.up = x.up /\ y.chosen = x.chosen /\ y.parts = x.parts
          /\ y.sel = x.sel /\ y.expired = x.expired
      BY <2>7, <3>1, MovedOn DEF PC, ObjectInv
    <3>3. WellFormed(y)
      BY <2>7, <3>2, ProcTyped DEF WellFormed, Resting, PartSteps
    <3>4. ~Drawing(r)'
      BY <3>2 DEF Drawing, Draws
    <3>5. Own(r)'
      <4>1. Genuine(proc[r].parts, proc[r].up)'
        BY <1>1, <2>7, <3>2, ProcTyped DEF Sound, Genuine
      <4>2. Sound(r)' /\ Filed(r)'
        BY <3>2, <3>4, <4>1 DEF Sound, Filed, Holding
      <4>3. \A v \in x.expired : v \in Versions /\ v # x.ver
        BY <1>3, ProcTyped DEF Local, Private
      <4>4. Doomed(r)'
        BY <2>4, <3>2, <4>3, ProcTyped DEF Doomed
      <4> QED
        BY <4>2, <4>4 DEF Own
    <3>6. VersionStep(r)
      BY <1>1, <3>2, <3>4 DEF VersionStep
    <3>7. TypeInv'
      BY <2>3, <3>2, <3>3, TypedStep DEF ObjectInv, LocalStep
    <3> QED
      BY <1>4, <2>5, <3>2, <3>4, <3>5, <3>6, <3>7 DEF Step
  <2> QED
    BY <1>2, <2>6, <2>7
<1> QED
  BY <1>5, <1>6

LEMMA SelectRowsStep ==
    ASSUME ObjectInv, NEW r \in Procs, SelectRows(r)
    PROVE  TypeInv' /\ Step(r)
<1> DEFINE x == proc[r]
           y == proc'[r]
           sel == Matching(x.ver)
<1>1. /\ x.pc = "select" /\ UNCHANGED <<tables, files, drawn>>
      /\ Goto(r, [x EXCEPT !.pc = "deleteRows", !.sel = sel])
  BY DEF SelectRows, At
<1>2. x \in Local /\ WellFormed(x)
  BY ProcTyped
<1>3. sel \subseteq Stored /\ sel \subseteq Versions
  BY DEF Matching, Stored
<1>4. x.ver # None => sel \subseteq {x.ver}
  BY DEF Matching
<1> HIDE DEF sel
<1>5. y = [x EXCEPT !.pc = "deleteRows", !.sel = sel] /\ proc' = [proc EXCEPT ![r] = y]
  BY <1>1, GotoLocal DEF ObjectInv
<1>6. /\ y.pc = "deleteRows" /\ y.op = x.op /\ y.ver = x.ver /\ y.sel = sel
      /\ y.expired = x.expired
  BY <1>2, <1>5 DEF Local
<1>7. y \in Local
  BY <1>2, <1>3, <1>5 DEF Local, PC
<1>8. x.op \notin {"put", "complete", "part"}
  BY <1>1, <1>2 DEF WellFormed
<1>9. WellFormed(y)
  BY <1>6, <1>8 DEF WellFormed, Resting, PartSteps
<1>10. row' = row /\ usedVersions' = usedVersions
  BY <1>1 DEF tables, drawn
<1>11. Doomed(r)'
  BY <1>4, <1>6, <1>10, ProcTyped DEF Doomed
<1>12. Own(r)' /\ ~Drawing(r)'
  BY <1>6, <1>8, <1>11, PlainOwn
<1>13. VersionStep(r)
  BY <1>3, <1>6, <1>10, <1>12 DEF VersionStep
<1> QED
  BY <1>1, <1>5, <1>7, <1>9, <1>12, <1>13, QuietStepIs DEF LocalStep

LEMMA DeleteRowsStep ==
    ASSUME ObjectInv, NEW p \in Procs, DeleteRows(p)
    PROVE  TypeInv' /\ Step(p)
<1> DEFINE x == proc[p]
           y == proc'[p]
<1>1. /\ x.pc = "deleteRows"
      /\ row' = [v \in Versions |-> IF v \in Matching(x.ver) THEN None ELSE row[v]]
  BY DEF DeleteRows, At
<1>2. /\ bucketAlive' = bucketAlive /\ upload' = upload /\ file' = file
      /\ partFile' = partFile /\ usedVersions' = usedVersions
      /\ usedUploads' = usedUploads /\ sentAs' = sentAs
  BY DEF DeleteRows, files, drawn
<1>3. x \in Local /\ x.op \notin {"put", "complete", "part"}
  BY <1>1, ProcTyped DEF WellFormed
<1>4. \A v \in Versions : row'[v] \in {row[v], None}
  BY <1>1
<1>5. RowStep(p)
  BY <1>4 DEF RowStep
<1>6. SentStep /\ PartFileStep /\ UploadStep /\ FileStep(p)
  BY <1>2 DEF SentStep, PartFileStep, UploadStep, FileStep
<1>7. StoresTyped'
  BY <1>1, <1>2, ProcTyped DEF StoresTyped
<1>8. CASE x.sel = {}
  <2>1. Finish(p)
    BY <1>8 DEF DeleteRows
  <2> QED
    BY <1>2, <1>5, <1>6, <1>7, <2>1, FinishStepIs
<1>9. CASE x.sel # {}
  <2>1. Goto(p, [x EXCEPT !.pc = "unlink"])
    BY <1>9 DEF DeleteRows
  <2>2. /\ proc' = [proc EXCEPT ![p] = y] /\ y \in Local
        /\ y.pc = "unlink" /\ y.op = x.op /\ y.sel = x.sel /\ y.expired = x.expired
    BY <2>1, MovedOn DEF PC, ObjectInv
  <2>3. WellFormed(y)
    BY <1>3, <2>2 DEF WellFormed, Resting, PartSteps
  <2>4. \A v \in x.sel : row'[v] = None
    <3> TAKE v \in x.sel
    <3>1. v \in Versions
      BY <1>3 DEF Local
    <3>2. x.ver # None => v = x.ver
      BY <1>1, ProcTyped DEF Doomed
    <3>3. row[v] # None => v \in Matching(x.ver)
      BY <3>1, <3>2 DEF Matching, Stored
    <3> QED
      BY <1>1, <3>1, <3>3
  <2>5. \A v \in x.expired : row'[v] \in {row[v], None}
    BY <1>3, <1>4 DEF Local
  <2>6. Doomed(p)'
    BY <2>2, <2>4, <2>5, ProcTyped DEF Doomed
  <2>7. Own(p)' /\ ~Drawing(p)'
    BY <1>3, <2>2, <2>6, PlainOwn
  <2>8. VersionStep(p)
    BY <1>2, <2>2, <2>7 DEF VersionStep
  <2>9. TypeInv'
    BY <1>7, <2>2, <2>3, TypedStep DEF ObjectInv, LocalStep
  <2> QED
    BY <1>5, <1>6, <2>2, <2>7, <2>8, <2>9 DEF Step
<1> QED
  BY <1>8, <1>9

(* A removal of a file that the process has doomed. *)
LEMMA RemovalStep ==
    ASSUME ObjectInv, NEW p \in Procs, NEW v \in Versions, FileRemoved(v),
           UNCHANGED <<tables, partFile, drawn>>,
           v \in proc[p].expired \/ (proc[p].pc = "unlink" /\ v \in proc[p].sel)
    PROVE  /\ StoresTyped'
           /\ SentStep /\ PartFileStep /\ UploadStep /\ RowStep(p) /\ FileStep(p)
           /\ usedVersions' = usedVersions /\ row' = row
<1>1. /\ bucketAlive' = bucketAlive /\ row' = row /\ upload' = upload
      /\ partFile' = partFile /\ usedVersions' = usedVersions
      /\ usedUploads' = usedUploads /\ sentAs' = sentAs
  BY DEF tables, drawn
<1>2. file' = [file EXCEPT ![v] = None] \/ file' = file
  BY DEF FileRemoved
<1>3. StoresTyped'
  BY <1>1, <1>2, ProcTyped DEF StoresTyped
<1>4. FileStep(p)
  BY <1>2, ProcTyped DEF FileStep, StoresTyped
<1> QED
  BY <1>1, <1>3, <1>4 DEF SentStep, PartFileStep, UploadStep, RowStep

LEMMA UnlinkStep ==
    ASSUME ObjectInv, NEW r \in Procs, Unlink(r)
    PROVE  TypeInv' /\ Step(r)
<1> DEFINE x == proc[r]
           y == proc'[r]
<1>1. PICK v \in x.sel :
        /\ FileRemoved(v)
        /\ IF x.sel = {v} THEN Finish(r) ELSE Goto(r, [x EXCEPT !.sel = @ \ {v}])
  BY DEF Unlink
<1>2. x.pc = "unlink" /\ UNCHANGED <<tables, partFile, drawn>>
  BY DEF Unlink, At
<1>3. x \in Local /\ x.op \notin {"put", "complete", "part"}
  BY <1>2, ProcTyped DEF WellFormed
<1>4. v \in Versions
  BY <1>3 DEF Local
<1>5. /\ StoresTyped'
      /\ SentStep /\ PartFileStep /\ UploadStep /\ RowStep(r) /\ FileStep(r)
      /\ usedVersions' = usedVersions /\ row' = row
  BY <1>1, <1>2, <1>4, RemovalStep
<1>6. CASE x.sel = {v}
  BY <1>1, <1>5, <1>6, FinishStepIs
<1>7. CASE x.sel # {v}
  <2>1. y = [x EXCEPT !.sel = @ \ {v}] /\ proc' = [proc EXCEPT ![r] = y]
    BY <1>1, <1>7, GotoLocal DEF ObjectInv
  <2>2. /\ y.pc = "unlink" /\ y.op = x.op /\ y.sel = x.sel \ {v}
        /\ y.expired = x.expired
    BY <1>2, <1>3, <2>1 DEF Local
  <2>3. y \in Local
    BY <1>3, <2>1 DEF Local
  <2>4. WellFormed(y)
    BY <1>3, <2>2 DEF WellFormed, Resting, PartSteps
  <2>5. Doomed(r)'
    BY <1>2, <1>5, <2>2, ProcTyped DEF Doomed
  <2>6. Own(r)' /\ ~Drawing(r)'
    BY <1>3, <2>2, <2>5, PlainOwn
  <2>7. VersionStep(r)
    BY <1>5, <2>2, <2>6 DEF VersionStep
  <2>8. TypeInv'
    BY <1>5, <2>1, <2>3, <2>4, TypedStep DEF ObjectInv, LocalStep
  <2> QED
    BY <1>5, <2>1, <2>6, <2>7, <2>8 DEF Step
<1> QED
  BY <1>6, <1>7

LEMMA DropBucketStep ==
    ASSUME ObjectInv, NEW r \in Procs, DropBucket(r)
    PROVE  TypeInv' /\ Step(r)
<1>1. /\ bucketAlive' = FALSE /\ row' = [v \in Versions |-> None]
      /\ upload' = [u \in Uploads |-> None] /\ Finish(r)
      /\ file' = file /\ partFile' = partFile /\ usedVersions' = usedVersions
      /\ usedUploads' = usedUploads /\ sentAs' = sentAs
  BY DEF DropBucket, files, drawn
<1>2. StoresTyped'
  BY <1>1, ProcTyped DEF StoresTyped
<1>3. SentStep /\ PartFileStep /\ UploadStep /\ RowStep(r) /\ FileStep(r)
  BY <1>1 DEF SentStep, PartFileStep, UploadStep, RowStep, FileStep
<1> QED
  BY <1>1, <1>2, <1>3, FinishStepIs

-----------------------------------------------------------------------------
(* initiate, upload_part and complete *)

LEMMA InsertUploadStep ==
    ASSUME ObjectInv, NEW r \in Procs, InsertUpload(r)
    PROVE  TypeInv' /\ Step(r)
<1> DEFINE u == proc[r].up
           new == [parts |-> NoParts, stale |-> FALSE]
<1>1. /\ bucketAlive' = bucketAlive /\ row' = row /\ Finish(r)
      /\ file' = file /\ partFile' = partFile /\ usedVersions' = usedVersions
      /\ usedUploads' = usedUploads /\ sentAs' = sentAs
      /\ upload' = upload \/ upload' = [upload EXCEPT ![u] = new]
  BY DEF InsertUpload, files, drawn
<1>2. NoParts \in Parts
  BY DEF NoParts, Parts
<1>3. new \in UploadRow
  BY <1>2 DEF UploadRow
<1>4. ASSUME NEW w \in Uploads, upload'[w] = new
      PROVE  Genuine(upload[w].parts, w)'
  <2>1. \A n \in PartNumbers : upload'[w].parts[n] = None
    BY <1>4 DEF NoParts
  <2> QED
    BY <2>1 DEF Genuine
<1> HIDE DEF new
<1>5. StoresTyped'
  BY <1>1, <1>3, ProcTyped DEF StoresTyped
<1>6. UploadStep
  BY <1>1, <1>4, ProcTyped DEF UploadStep, StoresTyped
<1>7. SentStep /\ PartFileStep /\ RowStep(r) /\ FileStep(r)
  BY <1>1 DEF SentStep, PartFileStep, RowStep, FileStep
<1> QED
  BY <1>1, <1>5, <1>6, <1>7, FinishStepIs

(* What a process that is sending a part has to keep, on the way. *)
LEMMA PartOwn ==
    ASSUME ObjectInv, NEW p \in Procs, proc[p].op = "part", LocalStep(p),
           proc'[p].op = "part", proc'[p].up = proc[p].up,
           proc'[p].part = proc[p].part, proc'[p].body = proc[p].body,
           proc'[p].sel = proc[p].sel, proc'[p].expired = proc[p].expired,
           row' = row, sentAs' = sentAs, usedVersions' = usedVersions,
           proc'[p].pc = "updateParts" => Genuine(proc[p].parts, proc[p].up)'
    PROVE  Own(p)' /\ VersionStep(p)
<1>1. ~Drawing(p)'
  BY DEF Drawing, Draws
<1>2. Sound(p)'
  BY <1>1, ProcTyped DEF Sound
<1>3. proc'[p].pc \in PartSteps
  BY DEF LocalStep, WellFormed
<1>4. Doomed(p)'
  BY <1>3, ProcTyped DEF Doomed, PartSteps
<1>5. Filed(p)'
  BY <1>1 DEF Filed, Holding
<1> QED
  BY <1>1, <1>2, <1>4, <1>5 DEF Own, VersionStep

LEMMA SendingPart ==
    ASSUME ObjectInv, NEW p \in Procs, proc[p].pc \in PartSteps
    PROVE  /\ proc[p].op = "part" /\ proc[p].up \in Uploads
           /\ proc[p].part \in PartNumbers /\ proc[p].body \in Bodies
           /\ sentAs[proc[p].body] = <<proc[p].up, proc[p].part>>
  BY ProcTyped DEF WellFormed, Sound

LEMMA WritePartStep ==
    ASSUME ObjectInv, NEW r \in Procs, WritePart(r)
    PROVE  TypeInv' /\ Step(r)
<1> DEFINE x == proc[r]
           y == proc'[r]
<1>1. /\ x.pc = "writePart" /\ Goto(r, [x EXCEPT !.pc = "readParts"])
      /\ partFile' = [partFile EXCEPT ![<<x.up, x.part>>] = x.body]
      /\ bucketAlive' = bucketAlive /\ row' = row /\ upload' = upload
      /\ file' = file /\ usedVersions' = usedVersions
      /\ usedUploads' = usedUploads /\ sentAs' = sentAs
  BY DEF WritePart, At, tables, drawn
<1>2. /\ x.op = "part" /\ x.up \in Uploads /\ x.part \in PartNumbers
      /\ x.body \in Bodies /\ sentAs[x.body] = <<x.up, x.part>>
  BY <1>1, SendingPart DEF PartSteps
<1>3. /\ proc' = [proc EXCEPT ![r] = y] /\ y \in Local
      /\ y.pc = "readParts" /\ y.op = x.op /\ y.up = x.up /\ y.part = x.part
      /\ y.body = x.body /\ y.sel = x.sel /\ y.expired = x.expired
  BY <1>1, MovedOn DEF PC, ObjectInv
<1>4. WellFormed(y)
  BY <1>2, <1>3 DEF WellFormed, Resting, PartSteps
<1>5. LocalStep(r)
  BY <1>3, <1>4 DEF LocalStep
<1>6. Own(r)' /\ VersionStep(r)
  BY <1>1, <1>2, <1>3, <1>5, PartOwn
<1>7. StoresTyped'
  BY <1>1, <1>2, ProcTyped DEF StoresTyped
<1>8. PartFileStep
  BY <1>1, <1>2, ProcTyped DEF PartFileStep, StoresTyped
<1>9. SentStep /\ UploadStep /\ RowStep(r) /\ FileStep(r)
  BY <1>1 DEF SentStep, UploadStep, RowStep, FileStep
<1>10. TypeInv'
  BY <1>5, <1>7, TypedStep DEF ObjectInv
<1> QED
  BY <1>3, <1>6, <1>8, <1>9, <1>10 DEF Step

LEMMA ReadPartsStep ==
    ASSUME ObjectInv, NEW r \in Procs, ReadParts(r)
    PROVE  TypeInv' /\ Step(r)
<1> DEFINE x == proc[r]
           y == proc'[r]
           ps == upload[x.up].parts
<1>1. x.pc = "readParts" /\ UNCHANGED <<tables, files, drawn>>
  BY DEF ReadParts, At
<1>2. x.op = "part" /\ x.up \in Uploads /\ x.part \in PartNumbers /\ x.body \in Bodies
  BY <1>1, SendingPart DEF PartSteps
<1>3. row' = row /\ sentAs' = sentAs /\ usedVersions' = usedVersions
  BY <1>1 DEF tables, drawn
<1>4. CASE upload[x.up] = None
  <2>1. Finish(r)
    BY <1>4 DEF ReadParts
  <2> QED
    BY <1>1, <2>1, QuietFinish
<1>5. CASE upload[x.up] # None
  <2>1. Goto(r, [x EXCEPT !.pc = "updateParts", !.parts = ps])
    BY <1>5 DEF ReadParts
  <2>2. ps \in Parts /\ Genuine(ps, x.up)
    <3>1. x.up \in Rows /\ upload[x.up] \in UploadRow
      BY <1>2, <1>5, ProcTyped DEF Rows, StoresTyped
    <3> QED
      BY <3>1 DEF UploadRow, ObjectInv, SentInv
  <2> HIDE DEF ps
  <2>3. /\ y = [x EXCEPT !.pc = "updateParts", !.parts = ps]
        /\ proc' = [proc EXCEPT ![r] = y]
    BY <2>1, GotoLocal DEF ObjectInv
  <2>4. x \in Local
    BY ProcTyped
  <2>5. /\ y.pc = "updateParts" /\ y.parts = ps /\ y.op = x.op /\ y.up = x.up
        /\ y.part = x.part /\ y.body = x.body /\ y.sel = x.sel
        /\ y.expired = x.expired
    BY <2>3, <2>4 DEF Local
  <2>6. y \in Local
    BY <2>2, <2>3, <2>4 DEF Local, PC
  <2>7. WellFormed(y)
    BY <1>2, <2>5 DEF WellFormed, Resting, PartSteps
  <2>8. LocalStep(r)
    BY <2>3, <2>6, <2>7 DEF LocalStep
  <2>9. Genuine(proc[r].parts, proc[r].up)'
    BY <1>3, <2>2, <2>5 DEF Genuine
  <2>10. Own(r)' /\ VersionStep(r)
    BY <1>2, <1>3, <2>5, <2>8, <2>9, PartOwn
  <2> QED
    BY <1>1, <2>8, <2>10, QuietStepIs
<1> QED
  BY <1>4, <1>5

LEMMA UpdatePartsStep ==
    ASSUME ObjectInv, NEW r \in Procs, UpdateParts(r)
    PROVE  TypeInv' /\ Step(r)
<1> DEFINE x == proc[r]
           u == x.up
           ps == [x.parts EXCEPT ![x.part] = x.body]
<1>1. /\ x.pc = "updateParts" /\ Finish(r)
      /\ upload' = IF upload[u] = None THEN upload ELSE [upload EXCEPT ![u].parts = ps]
      /\ bucketAlive' = bucketAlive /\ row' = row /\ file' = file
      /\ partFile' = partFile /\ usedVersions' = usedVersions
      /\ usedUploads' = usedUploads /\ sentAs' = sentAs
  BY DEF UpdateParts, At, files, drawn
<1>2. /\ x.op = "part" /\ u \in Uploads /\ x.part \in PartNumbers
      /\ x.body \in Bodies /\ sentAs[x.body] = <<u, x.part>>
  BY <1>1, SendingPart DEF PartSteps
<1>3. Genuine(x.parts, u) /\ x.parts \in Parts
  BY <1>1, ProcTyped DEF Sound, Local
<1>4. ps \in Parts /\ Genuine(ps, u)
  BY <1>2, <1>3 DEF Parts, Genuine
<1> HIDE DEF ps
<1>5. StoresTyped /\ upload \in [Uploads -> UploadRow \cup {None}]
  BY ProcTyped DEF StoresTyped
<1>6. upload' \in [Uploads -> UploadRow \cup {None}]
  BY <1>1, <1>2, <1>4, <1>5 DEF UploadRow
<1>7. UploadStep
  <2> SUFFICES ASSUME NEW w \in Uploads, upload'[w] # upload[w]
               PROVE  Genuine(upload[w].parts, w)'
    BY DEF UploadStep
  <2>1. w = u /\ upload[u] # None /\ upload[u] \in UploadRow
    BY <1>1, <1>2, <1>5
  <2>2. upload'[u].parts = ps
    BY <1>1, <1>2, <1>5, <2>1 DEF UploadRow
  <2> QED
    BY <1>1, <1>4, <2>1, <2>2 DEF Genuine
<1>8. StoresTyped'
  BY <1>1, <1>5, <1>6 DEF StoresTyped
<1>9. SentStep /\ PartFileStep /\ RowStep(r) /\ FileStep(r)
  BY <1>1 DEF SentStep, PartFileStep, RowStep, FileStep
<1> QED
  BY <1>1, <1>7, <1>8, <1>9, FinishStepIs

(* One more of the parts has been read. *)
LEMMA BegunAppend ==
    ASSUME NEW cs \in Seq(Bodies), NEW u, NEW ns \in SUBSET PartNumbers,
           Begun(cs, u, ns), Len(cs) < Cardinality(ns), NEW b \in Bodies,
           sentAs[b] = <<u, Nth(ns, Len(cs) + 1)>>
    PROVE  /\ Append(cs, b) \in Seq(Bodies) /\ Len(Append(cs, b)) = Len(cs) + 1
           /\ Begun(Append(cs, b), u, ns)
<1> DEFINE ds == Append(cs, b)
<1>1. /\ Len(cs) \in Nat /\ Cardinality(ns) \in Nat
      /\ ds \in Seq(Bodies) /\ Len(ds) = Len(cs) + 1
  BY PartsFinite
<1>2. \A i \in 1..Len(cs) : ds[i] = cs[i]
  OBVIOUS
<1>3. ds[Len(cs) + 1] = b
  OBVIOUS
<1>4. \A i \in DOMAIN cs : sentAs[cs[i]] = <<u, Nth(ns, i)>>
  BY DEF Begun
<1>5. DOMAIN cs = 1..Len(cs) /\ DOMAIN ds = 1..Len(ds)
  OBVIOUS
<1> HIDE DEF ds
<1>6. ASSUME NEW i \in 1..Len(ds)
      PROVE  sentAs[ds[i]] = <<u, Nth(ns, i)>>
  <2>1. i \in 1..Len(cs) \/ i = Len(cs) + 1
    BY <1>1
  <2> QED
    BY <1>2, <1>3, <1>4, <1>5, <2>1
<1>7. Begun(ds, u, ns)
  BY <1>1, <1>5, <1>6 DEF Begun
<1> QED
  BY <1>1, <1>7 DEF ds

(* The file of the next part holds what was sent as that part. *)
LEMMA NextPartSound ==
    ASSUME ObjectInv, NEW p \in Procs, proc[p].chosen \in SUBSET PartNumbers,
           proc[p].up \in Uploads, proc[p].hashed \in Seq(Bodies),
           Len(proc[p].hashed) < Cardinality(proc[p].chosen),
           partFile[NextPart(proc[p])] # None
    PROVE  /\ partFile[NextPart(proc[p])] \in Bodies
           /\ sentAs[partFile[NextPart(proc[p])]] =
                <<proc[p].up, Nth(proc[p].chosen, Len(proc[p].hashed) + 1)>>
<1> DEFINE x == proc[p]
           i == Len(x.hashed) + 1
<1>1. i \in 1..Cardinality(x.chosen)
  BY PartsFinite
<1>2. Nth(x.chosen, i) \in PartNumbers
  BY <1>1, NthType
<1>3. NextPart(x) = <<x.up, Nth(x.chosen, i)>> /\ NextPart(x) \in Uploads \X PartNumbers
  BY <1>2 DEF NextPart
<1> QED
  BY <1>3, ProcTyped DEF StoresTyped, ObjectInv, SentInv

(* What a process that assembles an object knows. *)
LEMMA Assembling ==
    ASSUME ObjectInv, NEW p \in Procs, proc[p].pc \in {"copy", "rehash"}
    PROVE  /\ proc[p].op = "complete" /\ proc[p].ver \in Versions
           /\ proc[p].up \in Uploads /\ proc[p].chosen \in SUBSET PartNumbers
           /\ proc[p].chosen \subseteq Recorded(proc[p].parts)
           /\ proc[p].copied \in Seq(Bodies) /\ proc[p].hashed \in Seq(Bodies)
           /\ Begun(proc[p].copied, proc[p].up, proc[p].chosen)
           /\ Begun(proc[p].hashed, proc[p].up, proc[p].chosen)
           /\ Genuine(proc[p].parts, proc[p].up)
           /\ Drawing(p) /\ ~Holding(p)
<1>1. proc[p] \in Local /\ WellFormed(proc[p]) /\ Sound(p)
  BY ProcTyped
<1>2. proc[p].op = "complete"
  BY <1>1 DEF WellFormed
<1>3. Drawing(p) /\ ~Holding(p)
  BY <1>2 DEF Drawing, Draws, Holding
<1>4. /\ proc[p].ver \in Versions /\ proc[p].up \in Uploads
      /\ proc[p].chosen \subseteq Recorded(proc[p].parts)
  BY <1>1, <1>2 DEF WellFormed
<1>5. /\ proc[p].chosen \in SUBSET PartNumbers
      /\ proc[p].copied \in Seq(Bodies) /\ proc[p].hashed \in Seq(Bodies)
  BY <1>1 DEF Local
<1>6. /\ Begun(proc[p].copied, proc[p].up, proc[p].chosen)
      /\ Begun(proc[p].hashed, proc[p].up, proc[p].chosen)
      /\ Genuine(proc[p].parts, proc[p].up)
  BY <1>1, <1>2, <1>3 DEF Sound
<1> QED
  BY <1>2, <1>3, <1>4, <1>5, <1>6

(* The copying of parts goes on. *)
LEMMA AssemblingStep ==
    ASSUME ObjectInv, NEW p \in Procs, proc[p].pc \in {"copy", "rehash"},
           UNCHANGED <<tables, files, drawn>>,
           NEW pc \in {"copy", "rehash"}, NEW cs \in Seq(Bodies), NEW hs \in Seq(Bodies),
           Begun(cs, proc[p].up, proc[p].chosen), Begun(hs, proc[p].up, proc[p].chosen),
           pc = "copy" => Len(cs) = Len(hs), pc = "rehash" => Len(cs) = Len(hs) + 1,
           Goto(p, [proc[p] EXCEPT !.pc = pc, !.copied = cs, !.hashed = hs])
    PROVE  TypeInv' /\ Step(p)
<1> DEFINE x == proc[p]
           y == proc'[p]
<1>1. x \in Local
  BY ProcTyped
<1>2. /\ y = [x EXCEPT !.pc = pc, !.copied = cs, !.hashed = hs]
      /\ proc' = [proc EXCEPT ![p] = y]
  BY GotoLocal DEF ObjectInv
<1>3. /\ y.pc = pc /\ y.copied = cs /\ y.hashed = hs /\ y.op = x.op
      /\ y.ver = x.ver /\ y.up = x.up /\ y.chosen = x.chosen
      /\ y.parts = x.parts /\ y.sel = x.sel /\ y.expired = x.expired
  BY <1>1, <1>2 DEF Local
<1>4. y \in Local
  BY <1>1, <1>2 DEF Local, PC
<1>5. WellFormed(y)
  BY <1>3, Assembling DEF WellFormed, Resting, PartSteps
<1>6. row' = row /\ sentAs' = sentAs /\ usedVersions' = usedVersions
  BY DEF tables, drawn
<1>7. Drawing(p)' /\ ~Holding(p)'
  BY <1>3, Assembling DEF Drawing, Draws, Holding
<1>8. /\ Begun(proc[p].copied, proc[p].up, proc[p].chosen)'
      /\ Begun(proc[p].hashed, proc[p].up, proc[p].chosen)'
  BY <1>3, <1>6 DEF Begun
<1>9. Genuine(proc[p].parts, proc[p].up)'
  BY <1>3, <1>6, Assembling DEF Genuine
<1>10. Sound(p)'
  BY <1>3, <1>7, <1>8, <1>9, Assembling DEF Sound
<1>11. Doomed(p)' /\ Filed(p)'
  BY <1>3, <1>6, <1>7, ProcTyped DEF Doomed, Filed
<1>12. VersionStep(p)
  BY <1>3, <1>6, Assembling DEF VersionStep
<1> QED
  BY <1>2, <1>4, <1>5, <1>10, <1>11, <1>12, QuietStepIs DEF LocalStep, Own

LEMMA CopyPartStep ==
    ASSUME ObjectInv, NEW r \in Procs, CopyPart(r)
    PROVE  TypeInv' /\ Step(r)
<1> DEFINE x == proc[r]
           f == partFile[NextPart(x)]
<1>1. /\ x.pc = "copy" /\ Len(x.hashed) < Cardinality(x.chosen)
      /\ UNCHANGED <<tables, files, drawn>>
  BY DEF CopyPart, At
<1>2. CASE f = None
  <2>1. Finish(r)
    BY <1>2 DEF CopyPart
  <2> QED
    BY <1>1, <2>1, QuietFinish
<1>3. CASE f # None
  <2>1. Goto(r, [x EXCEPT !.pc = "rehash", !.copied = Append(@, f)])
    BY <1>3 DEF CopyPart
  <2>2. /\ x.copied \in Seq(Bodies) /\ x.hashed \in Seq(Bodies)
        /\ Begun(x.copied, x.up, x.chosen) /\ Begun(x.hashed, x.up, x.chosen)
        /\ x.chosen \in SUBSET PartNumbers /\ x.up \in Uploads /\ Drawing(r)
    BY <1>1, Assembling
  <2>3. Len(x.copied) = Len(x.hashed)
    BY <1>1, <2>2, ProcTyped DEF Sound
  <2>4. f \in Bodies /\ sentAs[f] = <<x.up, Nth(x.chosen, Len(x.hashed) + 1)>>
    BY <1>1, <1>3, <2>2, NextPartSound
  <2> HIDE DEF f
  <2>5. /\ Append(x.copied, f) \in Seq(Bodies)
        /\ Len(Append(x.copied, f)) = Len(x.hashed) + 1
        /\ Begun(Append(x.copied, f), x.up, x.chosen)
    BY <1>1, <2>2, <2>3, <2>4, BegunAppend
  <2>6. Goto(r, [x EXCEPT !.pc = "rehash", !.copied = Append(x.copied, f),
                          !.hashed = x.hashed])
    <3>1. x \in Local
      BY ProcTyped
    <3>2. [x EXCEPT !.pc = "rehash", !.copied = Append(@, f)] =
          [x EXCEPT !.pc = "rehash", !.copied = Append(x.copied, f), !.hashed = x.hashed]
      BY <3>1 DEF Local
    <3> QED
      BY <2>1, <3>2
  <2> QED
    BY <1>1, <2>2, <2>5, <2>6, AssemblingStep
<1> QED
  BY <1>2, <1>3

LEMMA RehashPartStep ==
    ASSUME ObjectInv, NEW r \in Procs, RehashPart(r)
    PROVE  TypeInv' /\ Step(r)
<1> DEFINE x == proc[r]
           f == partFile[NextPart(x)]
<1>1. x.pc = "rehash" /\ UNCHANGED <<tables, files, drawn>>
  BY DEF RehashPart, At
<1>2. CASE f = None
  <2>1. Finish(r)
    BY <1>2 DEF RehashPart
  <2> QED
    BY <1>1, <2>1, QuietFinish
<1>3. CASE f # None
  <2>1. Goto(r, [x EXCEPT !.pc = "copy", !.hashed = Append(@, f)])
    BY <1>3 DEF RehashPart
  <2>2. /\ x.copied \in Seq(Bodies) /\ x.hashed \in Seq(Bodies)
        /\ Begun(x.copied, x.up, x.chosen) /\ Begun(x.hashed, x.up, x.chosen)
        /\ x.chosen \in SUBSET PartNumbers /\ x.up \in Uploads /\ Drawing(r)
    BY <1>1, Assembling
  <2>3. Len(x.copied) = Len(x.hashed) + 1
    BY <1>1, <2>2, ProcTyped DEF Sound
  <2>4. Len(x.hashed) < Cardinality(x.chosen)
    <3>1. Len(x.copied) <= Cardinality(x.chosen)
      BY <2>2 DEF Begun
    <3>2. Cardinality(x.chosen) \in Nat /\ Len(x.hashed) \in Nat
      BY <2>2, PartsFinite
    <3> QED
      BY <2>3, <3>1, <3>2
  <2>5. f \in Bodies /\ sentAs[f] = <<x.up, Nth(x.chosen, Len(x.hashed) + 1)>>
    BY <1>3, <2>2, <2>4, NextPartSound
  <2> HIDE DEF f
  <2>6. /\ Append(x.hashed, f) \in Seq(Bodies)
        /\ Len(Append(x.hashed, f)) = Len(x.copied)
        /\ Begun(Append(x.hashed, f), x.up, x.chosen)
    BY <2>2, <2>3, <2>4, <2>5, BegunAppend
  <2>7. Goto(r, [x EXCEPT !.pc = "copy", !.copied = x.copied,
                          !.hashed = Append(x.hashed, f)])
    <3>1. x \in Local
      BY ProcTyped
    <3>2. [x EXCEPT !.pc = "copy", !.hashed = Append(@, f)] =
          [x EXCEPT !.pc = "copy", !.copied = x.copied, !.hashed = Append(x.hashed, f)]
      BY <3>1 DEF Local
    <3> QED
      BY <2>1, <3>2
  <2> QED
    BY <1>1, <2>2, <2>6, <2>7, AssemblingStep
<1> QED
  BY <1>2, <1>3

(* The removal of parts by a request that has assembled its object. *)
LEMMA HoldingOwn ==
    ASSUME ObjectInv, NEW p \in Procs, proc[p].op = "complete", Drawing(p),
           Len(proc[p].copied) = Cardinality(proc[p].chosen),
           Len(proc[p].hashed) = Cardinality(proc[p].chosen),
           NEW rest \in SUBSET PartNumbers,
           Goto(p, RemovingParts(proc[p], proc[p].up, rest)),
           row' = row, sentAs' = sentAs, usedVersions' = usedVersions,
           file'[proc[p].ver] = proc[p].copied
    PROVE  LocalStep(p) /\ VersionStep(p) /\ Own(p)'
<1> DEFINE x == proc[p]
           y == proc'[p]
<1>1. x \in Local /\ WellFormed(x) /\ Sound(p) /\ Doomed(p)
  BY ProcTyped
<1>2. /\ x.ver \in Versions /\ x.up \in Uploads
      /\ x.chosen \subseteq Recorded(x.parts) /\ Genuine(x.parts, x.up)
      /\ Begun(x.copied, x.up, x.chosen) /\ Begun(x.hashed, x.up, x.chosen)
  BY <1>1 DEF WellFormed, Sound
<1>3. y = RemovingParts(x, x.up, rest) /\ proc' = [proc EXCEPT ![p] = y]
  BY GotoLocal DEF ObjectInv
<1>4. /\ y \in Local /\ y.up = x.up /\ y.pc \in {"removeParts", "insert"}
      /\ y.op = "complete" /\ y.ver = x.ver
      /\ y.chosen = x.chosen /\ y.parts = x.parts /\ y.copied = x.copied
      /\ y.hashed = x.hashed /\ y.sel = x.sel /\ y.expired = x.expired
  BY <1>1, <1>2, <1>3, RemovingLocal
<1>5. WellFormed(y)
  BY <1>2, <1>4 DEF WellFormed, Resting, PartSteps
<1>6. Drawing(p)'
  BY <1>4 DEF Drawing, Draws
<1>7. /\ Begun(proc[p].copied, proc[p].up, proc[p].chosen)'
      /\ Begun(proc[p].hashed, proc[p].up, proc[p].chosen)'
      /\ Genuine(proc[p].parts, proc[p].up)'
  BY <1>2, <1>4 DEF Begun, Genuine
<1>8. Sound(p)'
  BY <1>4, <1>7 DEF Sound
<1>9. Doomed(p)' /\ Filed(p)'
  BY <1>1, <1>4 DEF Doomed, Filed
<1>10. VersionStep(p)
  BY <1>4 DEF VersionStep
<1> QED
  BY <1>3, <1>4, <1>5, <1>8, <1>9, <1>10 DEF LocalStep, Own

LEMMA AssembledStep ==
    ASSUME ObjectInv, NEW r \in Procs, Assembled(r)
    PROVE  TypeInv' /\ Step(r)
<1> DEFINE x == proc[r]
<1>1. /\ x.pc = "copy" /\ Len(x.hashed) = Cardinality(x.chosen)
      /\ file' = [file EXCEPT ![x.ver] = x.copied]
      /\ Goto(r, RemovingParts(x, x.up, x.chosen))
      /\ bucketAlive' = bucketAlive /\ row' = row /\ upload' = upload
      /\ partFile' = partFile /\ usedVersions' = usedVersions
      /\ usedUploads' = usedUploads /\ sentAs' = sentAs
  BY DEF Assembled, At, tables, drawn
<1>2. /\ x.op = "complete" /\ x.ver \in Versions /\ x.copied \in Seq(Bodies)
      /\ x.chosen \in SUBSET PartNumbers /\ Drawing(r) /\ ~Holding(r)
  BY <1>1, Assembling
<1>3. Len(x.copied) = Cardinality(x.chosen)
  BY <1>1, <1>2, ProcTyped DEF Sound
<1>4. file'[x.ver] = x.copied
  BY <1>1, <1>2, ProcTyped DEF StoresTyped
<1>5. LocalStep(r) /\ VersionStep(r) /\ Own(r)'
  BY <1>1, <1>2, <1>3, <1>4, HoldingOwn
<1>6. file' \in [Versions -> Seq(Bodies) \cup {None}]
  BY <1>1, <1>2, ProcTyped DEF StoresTyped
<1>7. StoresTyped'
  BY <1>1, <1>6, ProcTyped DEF StoresTyped
<1>8. FileStep(r)
  BY <1>1, <1>2, ProcTyped DEF FileStep, StoresTyped
<1>9. SentStep /\ PartFileStep /\ UploadStep /\ RowStep(r)
  BY <1>1 DEF SentStep, PartFileStep, UploadStep, RowStep
<1>10. TypeInv'
  BY <1>5, <1>7, TypedStep DEF ObjectInv
<1> QED
  BY <1>5, <1>8, <1>9, <1>10 DEF Step, LocalStep

(* The removal of parts by anybody else. *)
LEMMA RemovingOwn ==
    ASSUME ObjectInv, NEW p \in Procs, NEW x \in Local,
           x.op \notin {"put", "complete", "part"}, x.sel = proc[p].sel,
           x.expired = proc[p].expired, NEW u \in Uploads, NEW rest \in SUBSET PartNumbers,
           Goto(p, RemovingParts(x, u, rest)),
           row' = row, usedVersions' = usedVersions
    PROVE  LocalStep(p) /\ VersionStep(p) /\ Own(p)'
<1> DEFINE y == proc'[p]
<1>1. y = RemovingParts(x, u, rest) /\ proc' = [proc EXCEPT ![p] = y]
  BY GotoLocal DEF ObjectInv
<1>2. /\ y \in Local /\ y.up = u /\ y.pc \in {"removeParts", "deleteUpload"}
      /\ y.op = x.op /\ y.sel = x.sel /\ y.expired = x.expired
  BY <1>1, RemovingLocal
<1>3. WellFormed(y)
  BY <1>2 DEF WellFormed, Resting, PartSteps
<1>4. Doomed(p)'
  BY <1>2, ProcTyped DEF Doomed
<1>5. Own(p)' /\ ~Drawing(p)'
  BY <1>2, <1>4, PlainOwn
<1>6. VersionStep(p)
  BY <1>2, <1>5 DEF VersionStep
<1> QED
  BY <1>1, <1>2, <1>3, <1>5, <1>6 DEF LocalStep

LEMMA RemovePartStep ==
    ASSUME ObjectInv, NEW p \in Procs, RemovePart(p)
    PROVE  TypeInv' /\ Step(p)
<1> DEFINE x == proc[p]
           n == Nth(x.rest, 1)
           rest == x.rest \ {n}
<1>1. /\ x.pc = "removeParts"
      /\ partFile' = [partFile EXCEPT ![<<x.up, n>>] = None] \/ partFile' = partFile
      /\ Goto(p, RemovingParts(x, x.up, rest))
      /\ bucketAlive' = bucketAlive /\ row' = row /\ upload' = upload
      /\ file' = file /\ usedVersions' = usedVersions
      /\ usedUploads' = usedUploads /\ sentAs' = sentAs
  BY DEF RemovePart, At, tables, drawn
<1>2. x \in Local /\ WellFormed(x)
  BY ProcTyped
<1>3. x.up \in Uploads /\ rest \in SUBSET PartNumbers
  BY <1>1, <1>2 DEF WellFormed, Local
<1> HIDE DEF n, rest
<1>4. LocalStep(p) /\ VersionStep(p) /\ Own(p)'
  <2>1. CASE x.op = "complete"
    <3>1. Drawing(p) /\ Holding(p)
      BY <1>1, <2>1 DEF Drawing, Draws, Holding
    <3>2. /\ Len(x.copied) = Cardinality(x.chosen)
          /\ Len(x.hashed) = Cardinality(x.chosen)
          /\ file[x.ver] = x.copied
      BY <3>1, ProcTyped DEF Sound, Filed
    <3> QED
      BY <1>1, <1>3, <2>1, <3>1, <3>2, HoldingOwn
  <2>2. CASE x.op # "complete"
    <3>1. x.op \notin {"put", "complete", "part"}
      BY <1>1, <1>2, <2>2 DEF WellFormed, PartSteps
    <3> QED
      BY <1>1, <1>2, <1>3, <3>1, RemovingOwn
  <2> QED
    BY <2>1, <2>2
<1>5. StoresTyped'
  BY <1>1, ProcTyped DEF StoresTyped
<1>6. PartFileStep
  BY <1>1, ProcTyped DEF PartFileStep, StoresTyped
<1>7. SentStep /\ UploadStep /\ RowStep(p) /\ FileStep(p)
  BY <1>1 DEF SentStep, UploadStep, RowStep, FileStep
<1>8. TypeInv'
  BY <1>4, <1>5, TypedStep DEF ObjectInv
<1> QED
  BY <1>4, <1>6, <1>7, <1>8 DEF Step, LocalStep

LEMMA DeleteUploadStep ==
    ASSUME ObjectInv, NEW p \in Procs, DeleteUpload(p)
    PROVE  TypeInv' /\ Step(p)
<1>1. /\ bucketAlive' = bucketAlive /\ row' = row /\ Finish(p)
      /\ upload' = [upload EXCEPT ![proc[p].up] = None]
      /\ file' = file /\ partFile' = partFile /\ usedVersions' = usedVersions
      /\ usedUploads' = usedUploads /\ sentAs' = sentAs
  BY DEF DeleteUpload, files, drawn
<1>2. StoresTyped'
  BY <1>1, ProcTyped DEF StoresTyped
<1>3. UploadStep
  BY <1>1, ProcTyped DEF UploadStep, StoresTyped
<1>4. SentStep /\ PartFileStep /\ RowStep(p) /\ FileStep(p)
  BY <1>1 DEF SentStep, PartFileStep, RowStep, FileStep
<1> QED
  BY <1>1, <1>2, <1>3, <1>4, FinishStepIs

-----------------------------------------------------------------------------
(* The cleanup tasks and the environment *)

LEMMA FindExpiredStep ==
    ASSUME ObjectInv, NEW c \in Procs, FindExpired(c)
    PROVE  TypeInv' /\ Step(c)
<1> DEFINE y == proc'[c]
<1>1. PICK batch \in SUBSET Expired :
          Goto(c, [Idle EXCEPT !.pc = "nextExpired", !.expired = batch])
  BY DEF FindExpired
<1>2. UNCHANGED <<tables, files, drawn>>
  BY DEF FindExpired
<1>3. batch \subseteq Stored /\ batch \subseteq Versions
  BY DEF Expired, Stored
<1>4. /\ y = [Idle EXCEPT !.pc = "nextExpired", !.expired = batch]
      /\ proc' = [proc EXCEPT ![c] = y]
  BY <1>1, GotoLocal DEF ObjectInv
<1>5. y.pc = "nextExpired" /\ y.op = None /\ y.sel = {} /\ y.expired = batch
  BY <1>4 DEF Idle
<1>6. y \in Local
  BY <1>3, <1>4, IdleType DEF Local, PC
<1>7. WellFormed(y)
  BY <1>5, SentinelAssumption DEF WellFormed, Resting, PartSteps, AllOps
<1>8. row' = row /\ usedVersions' = usedVersions
  BY <1>2 DEF tables, drawn
<1>9. \A v \in batch : row[v].expiry = "past"
  BY DEF Expired
<1>10. Doomed(c)'
  BY <1>5, <1>8, <1>9 DEF Doomed
<1>11. Own(c)' /\ ~Drawing(c)'
  BY <1>5, <1>10, PlainOwn, SentinelAssumption DEF AllOps
<1>12. VersionStep(c)
  BY <1>3, <1>5, <1>8, <1>11 DEF VersionStep
<1> QED
  BY <1>2, <1>4, <1>6, <1>7, <1>11, <1>12, QuietStepIs DEF LocalStep

LEMMA NextExpiredStep ==
    ASSUME ObjectInv, NEW c \in Procs, NextExpired(c)
    PROVE  TypeInv' /\ Step(c)
<1> DEFINE x == proc[c]
           y == proc'[c]
<1>1. PICK v \in x.expired :
        /\ FileRemoved(v)
        /\ Goto(c, [x EXCEPT !.pc = "deleteRows", !.ver = v, !.expired = @ \ {v}])
  BY DEF NextExpired
<1>2. x.pc = "nextExpired" /\ UNCHANGED <<tables, partFile, drawn>>
  BY DEF NextExpired, At
<1>3. x \in Local /\ x.op = None /\ x.sel = {}
  BY <1>2, ProcTyped DEF WellFormed, Resting
<1>4. v \in Versions
  BY <1>3 DEF Local
<1>5. /\ StoresTyped'
      /\ SentStep /\ PartFileStep /\ UploadStep /\ RowStep(c) /\ FileStep(c)
      /\ usedVersions' = usedVersions /\ row' = row
  BY <1>1, <1>2, <1>4, RemovalStep
<1>6. /\ y = [x EXCEPT !.pc = "deleteRows", !.ver = v, !.expired = @ \ {v}]
      /\ proc' = [proc EXCEPT ![c] = y]
  BY <1>1, GotoLocal DEF ObjectInv
<1>7. /\ y.pc = "deleteRows" /\ y.op = None /\ y.sel = {} /\ y.ver = v
      /\ y.expired = x.expired \ {v}
  BY <1>3, <1>6 DEF Local
<1>8. y \in Local
  <2>1. /\ x.expired \ {v} \in SUBSET Versions
        /\ v \in Versions \cup {None} /\ "deleteRows" \in PC
    BY <1>3, <1>4 DEF Local, PC
  <2>2. y = [x EXCEPT !.pc = "deleteRows", !.ver = v, !.expired = x.expired \ {v}]
    BY <1>3, <1>6 DEF Local
  <2> QED
    BY <1>3, <2>1, <2>2 DEF Local
<1>9. WellFormed(y)
  BY <1>7, SentinelAssumption DEF WellFormed, Resting, PartSteps, AllOps
<1>10. Doomed(c)'
  BY <1>5, <1>7, ProcTyped DEF Doomed
<1>11. Own(c)' /\ ~Drawing(c)'
  BY <1>7, <1>10, PlainOwn, SentinelAssumption DEF AllOps
<1>12. VersionStep(c)
  BY <1>5, <1>7, <1>11 DEF VersionStep
<1>13. TypeInv'
  BY <1>5, <1>6, <1>8, <1>9, TypedStep DEF ObjectInv, LocalStep
<1> QED
  BY <1>5, <1>6, <1>11, <1>12, <1>13 DEF Step

LEMMA FindStaleStep ==
    ASSUME ObjectInv, NEW c \in Procs, FindStale(c)
    PROVE  TypeInv' /\ Step(c)
<1> DEFINE y == proc'[c]
           old == {u \in Rows : upload[u].stale}
           list == {<<u, Recorded(upload[u].parts)>> : u \in old}
<1>1. /\ Goto(c, [Idle EXCEPT !.pc = "nextStale", !.stale = list])
      /\ UNCHANGED <<tables, files, drawn>>
  BY DEF FindStale
<1>2. list \in SUBSET (Uploads \X SUBSET PartNumbers)
  BY DEF Rows, Recorded
<1> HIDE DEF list
<1>3. /\ y = [Idle EXCEPT !.pc = "nextStale", !.stale = list]
      /\ proc' = [proc EXCEPT ![c] = y]
  BY <1>1, GotoLocal DEF ObjectInv
<1>4. y.pc = "nextStale" /\ y.op = None /\ y.sel = {} /\ y.expired = {}
  BY <1>3 DEF Idle
<1>5. y \in Local
  <2>1. Idle \in Local /\ "nextStale" \in PC
    BY IdleType DEF PC
  <2> QED
    BY <1>2, <1>3, <2>1 DEF Local
<1>6. WellFormed(y)
  BY <1>4, SentinelAssumption DEF WellFormed, Resting, PartSteps, AllOps
<1>7. Doomed(c)'
  BY <1>4 DEF Doomed
<1>8. Own(c)' /\ ~Drawing(c)'
  BY <1>4, <1>7, PlainOwn, SentinelAssumption DEF AllOps
<1>9. VersionStep(c)
  BY <1>1, <1>4, <1>8 DEF VersionStep, drawn
<1> QED
  BY <1>1, <1>3, <1>5, <1>6, <1>8, <1>9, QuietStepIs DEF LocalStep

LEMMA NextStaleStep ==
    ASSUME ObjectInv, NEW c \in Procs, NextStale(c)
    PROVE  TypeInv' /\ Step(c)
<1> DEFINE x == proc[c]
<1>1. PICK t \in x.stale :
          Goto(c, RemovingParts([x EXCEPT !.stale = @ \ {t}], t[1], t[2]))
  BY DEF NextStale
<1>2. x.pc = "nextStale" /\ UNCHANGED <<tables, files, drawn>>
  BY DEF NextStale, At
<1>3. x \in Local /\ x.op = None
  BY <1>2, ProcTyped DEF WellFormed, Resting
<1>4. t[1] \in Uploads /\ t[2] \in SUBSET PartNumbers
  BY <1>3 DEF Local
<1> DEFINE z == [x EXCEPT !.stale = @ \ {t}]
<1>5. z \in Local /\ z.op = None /\ z.sel = x.sel /\ z.expired = x.expired
  BY <1>3 DEF Local
<1>6. Goto(c, RemovingParts(z, t[1], t[2]))
  BY <1>1
<1> HIDE DEF z
<1>7. z.op \notin {"put", "complete", "part"}
  BY <1>5, SentinelAssumption DEF AllOps
<1>8. row' = row /\ usedVersions' = usedVersions
  BY <1>2 DEF tables, drawn
<1>9. LocalStep(c) /\ VersionStep(c) /\ Own(c)'
  BY <1>4, <1>5, <1>6, <1>7, <1>8, RemovingOwn
<1> QED
  BY <1>2, <1>9, QuietStepIs

LEMMA StopStep ==
    ASSUME ObjectInv, NEW p \in Procs, Stop(p)
    PROVE  TypeInv' /\ Step(p)
<1>1. Goto(p, Idle) /\ UNCHANGED <<tables, files, drawn>>
  BY DEF Stop
<1>2. proc'[p] = Idle /\ proc' = [proc EXCEPT ![p] = proc'[p]]
  BY <1>1, GotoLocal DEF ObjectInv
<1>3. LocalStep(p)
  BY <1>2, IdleType DEF LocalStep
<1>4. Doomed(p)'
  BY <1>2 DEF Doomed, Idle
<1>5. Own(p)' /\ ~Drawing(p)'
  BY <1>2, <1>4, PlainOwn, SentinelAssumption DEF Idle, AllOps
<1>6. VersionStep(p)
  BY <1>1, <1>2, <1>5 DEF VersionStep, Idle, drawn
<1> QED
  BY <1>1, <1>3, <1>5, <1>6, QuietStepIs

LEMMA ExpireKeeps ==
    ASSUME ObjectInv, NEW w \in Versions, Expire(w)
    PROVE  ObjectInv'
<1>1. /\ row[w] # None /\ row' = [row EXCEPT ![w].expiry = "past"]
      /\ bucketAlive' = bucketAlive /\ upload' = upload /\ file' = file
      /\ partFile' = partFile /\ proc' = proc /\ usedVersions' = usedVersions
      /\ usedUploads' = usedUploads /\ sentAs' = sentAs
  BY DEF Expire, Stored, files, drawn
<1>2. /\ TypeInv /\ SentInv /\ VersionInv /\ DoomedInv /\ FileInv /\ RowInv
      /\ ServableHasFile
  BY DEF ObjectInv
<1>3. row \in [Versions -> ObjectRow \cup {None}] /\ row[w] \in ObjectRow
  BY <1>1, <1>2 DEF TypeInv, TypeOK
<1>4. row'[w] = [row[w] EXCEPT !.expiry = "past"]
  BY <1>1, <1>3
<1>5. /\ row'[w] \in ObjectRow /\ row'[w].expiry = "past" /\ row'[w].up = row[w].up
      /\ row'[w].chosen = row[w].chosen /\ row'[w].hash = row[w].hash
      /\ row'[w].sized = row[w].sized
  BY <1>3, <1>4 DEF ObjectRow
<1>6. row'[w] # None /\ \A v \in Versions : v # w => row'[v] = row[v]
  BY <1>1, <1>3, <1>5, SentinelAssumption
<1>7. Stored' = Stored /\ \A v \in Versions : row'[v] = None <=> row[v] = None
  BY <1>1, <1>6 DEF Stored
<1>8. TypeInv'
  <2>1. row' \in [Versions -> ObjectRow \cup {None}]
    BY <1>1, <1>3, <1>4, <1>5
  <2> QED
    BY <1>1, <1>2, <2>1 DEF TypeInv, TypeOK
<1>9. SentInv'
  BY <1>1, <1>2 DEF SentInv, Sound, Genuine, Begun, Drawing, Holding, Rows
<1>10. VersionInv'
  <2>1. ASSUME NEW p \in Procs, Drawing(p)'
        PROVE  Private(p)'
    <3>1. Drawing(p) /\ proc[p].ver \in Versions
      BY <1>1, <1>2, <2>1, DrawnUpload DEF Drawing
    <3>2. Private(p)
      BY <1>2, <3>1 DEF VersionInv
    <3> QED
      BY <1>1, <1>7, <3>1, <3>2 DEF Private, Drawing
  <2> QED
    BY <1>1, <1>2, <1>7, <2>1 DEF VersionInv
<1>11. DoomedInv'
  <2>1. ASSUME NEW p \in Procs
        PROVE  Doomed(p)'
    <3>1. proc[p].sel \subseteq Versions /\ proc[p].expired \subseteq Versions
      BY <1>2 DEF TypeInv, TypeOK, Local
    <3>2. Doomed(p)
      BY <1>2 DEF DoomedInv
    <3>3. \A v \in proc[p].expired : row'[v] # None => row'[v].expiry = "past"
      BY <1>5, <1>6, <3>1, <3>2 DEF Doomed
    <3> QED
      BY <1>1, <1>7, <3>1, <3>2, <3>3 DEF Doomed
  <2> QED
    BY <2>1 DEF DoomedInv
<1>12. FileInv'
  BY <1>1, <1>2 DEF FileInv, Filed, Holding, Drawing
<1>13. RowInv'
  <2>1. ASSUME NEW v \in Versions
        PROVE  row'[v].up = row[v].up /\ row'[v].chosen = row[v].chosen
               /\ row'[v].hash = row[v].hash /\ row'[v].sized = row[v].sized
    BY <1>5, <1>6
  <2>2. ASSUME NEW v \in Stored'
        PROVE  /\ row'[v].chosen # {} => row'[v].up # None
               /\ Made(row[v].hash, row[v].up, row[v].chosen)'
               /\ Made(row[v].sized, row[v].up, row[v].chosen)'
               /\ file'[v] # None => Made(file[v], row[v].up, row[v].chosen)'
    <3>1. v \in Stored /\ v \in Versions
      BY <1>7 DEF Stored
    <3>2. /\ row'[v].up = row[v].up /\ row'[v].chosen = row[v].chosen
          /\ row'[v].hash = row[v].hash /\ row'[v].sized = row[v].sized
      BY <2>1, <3>1
    <3>3. /\ row[v].chosen # {} => row[v].up # None
          /\ Made(row[v].hash, row[v].up, row[v].chosen)
          /\ Made(row[v].sized, row[v].up, row[v].chosen)
          /\ file[v] # None => Made(file[v], row[v].up, row[v].chosen)
      BY <1>2, <3>1 DEF RowInv
    <3> QED
      BY <1>1, <3>2, <3>3 DEF Made, Begun
  <2> QED
    BY <2>2 DEF RowInv
<1>14. ServableHasFile'
  BY <1>1, <1>2, <1>5, <1>6 DEF ServableHasFile, Live, Stored
<1> QED
  BY <1>8, <1>9, <1>10, <1>11, <1>12, <1>13, <1>14 DEF ObjectInv

LEMMA AgeKeeps ==
    ASSUME ObjectInv, NEW w \in Uploads, Age(w)
    PROVE  ObjectInv'
<1>1. /\ upload[w] # None /\ upload' = [upload EXCEPT ![w].stale = TRUE]
      /\ bucketAlive' = bucketAlive /\ row' = row /\ file' = file
      /\ partFile' = partFile /\ proc' = proc /\ usedVersions' = usedVersions
      /\ usedUploads' = usedUploads /\ sentAs' = sentAs
  BY DEF Age, Rows, files, drawn
<1>2. /\ TypeInv /\ SentInv /\ VersionInv /\ DoomedInv /\ FileInv /\ RowInv
      /\ ServableHasFile
  BY DEF ObjectInv
<1>3. upload \in [Uploads -> UploadRow \cup {None}] /\ upload[w] \in UploadRow
  BY <1>1, <1>2 DEF TypeInv, TypeOK
<1>4. upload'[w] = [upload[w] EXCEPT !.stale = TRUE]
  BY <1>1, <1>3
<1>5. upload'[w] \in UploadRow /\ upload'[w].parts = upload[w].parts
  BY <1>3, <1>4 DEF UploadRow
<1>6. \A u \in Uploads : u # w => upload'[u] = upload[u]
  BY <1>1, <1>3
<1>7. TypeInv'
  <2>1. upload' \in [Uploads -> UploadRow \cup {None}]
    BY <1>1, <1>3, <1>4, <1>5
  <2> QED
    BY <1>1, <1>2, <2>1 DEF TypeInv, TypeOK
<1>8. SentInv'
  <2>1. \A u \in Rows' : u \in Rows /\ upload'[u].parts = upload[u].parts
    BY <1>1, <1>5, <1>6 DEF Rows
  <2>2. \A u \in Rows' : Genuine(upload[u].parts, u)'
    BY <1>1, <1>2, <2>1 DEF SentInv, Genuine
  <2>3. \A p \in Procs : Sound(p)'
    BY <1>1, <1>2 DEF SentInv, Sound, Genuine, Begun, Drawing, Holding
  <2> QED
    BY <1>1, <1>2, <2>2, <2>3 DEF SentInv
<1>9. VersionInv' /\ DoomedInv' /\ FileInv' /\ RowInv' /\ ServableHasFile'
  BY <1>1, <1>2 DEF VersionInv, Private, DoomedInv, Doomed, FileInv, Filed, Holding,
     Drawing, RowInv, Made, Begun, ServableHasFile, Live, Stored
<1> QED
  BY <1>7, <1>8, <1>9 DEF ObjectInv

-----------------------------------------------------------------------------
LEMMA ObjectInvInit == Init => ObjectInv
<1> SUFFICES ASSUME Init PROVE ObjectInv
  OBVIOUS
<1>1. /\ row = [v \in Versions |-> None] /\ upload = [u \in Uploads |-> None]
      /\ file = [v \in Versions |-> None]
      /\ partFile = [f \in Uploads \X PartNumbers |-> None]
      /\ proc = [p \in Procs |-> Idle] /\ bucketAlive = TRUE
      /\ usedVersions = {} /\ usedUploads = {}
      /\ sentAs = [b \in Bodies |-> None]
  BY DEF Init
<1>2. \A p \in Procs : proc[p] = Idle /\ ~Drawing(p)
  BY <1>1, SentinelAssumption DEF Idle, Drawing, Draws, AllOps
<1>3. TypeInv
  BY <1>1, IdleType DEF TypeInv, TypeOK
<1>4. Stored = {} /\ Rows = {}
  BY <1>1 DEF Stored, Rows
<1>5. SentInv
  <2>1. \A p \in Procs : Sound(p)
    BY <1>2, SentinelAssumption DEF Sound, Idle, AllOps
  <2> QED
    BY <1>1, <1>4, <2>1 DEF SentInv
<1>6. VersionInv /\ DoomedInv
  BY <1>2, <1>4 DEF VersionInv, DoomedInv, Doomed, Idle
<1>7. FileInv /\ RowInv /\ ServableHasFile
  BY <1>2, <1>4 DEF FileInv, Filed, Holding, RowInv, ServableHasFile, Live
<1> QED
  BY <1>3, <1>5, <1>6, <1>7 DEF ObjectInv

LEMMA ObjectInvNext == ObjectInv /\ [Next]_vars => ObjectInv'
<1> SUFFICES ASSUME ObjectInv, [Next]_vars PROVE ObjectInv'
  OBVIOUS
<1>1. CASE UNCHANGED vars
  <2>1. /\ bucketAlive' = bucketAlive /\ row' = row /\ upload' = upload
        /\ file' = file /\ partFile' = partFile /\ proc' = proc
        /\ usedVersions' = usedVersions /\ usedUploads' = usedUploads
        /\ sentAs' = sentAs
    BY <1>1 DEF vars, tables, files, drawn
  <2>2. TypeInv'
    BY <2>1 DEF ObjectInv, TypeInv, TypeOK
  <2>3. SentInv'
    BY <2>1 DEF ObjectInv, SentInv, Sound, Genuine, Begun, Drawing, Holding, Rows
  <2>4. VersionInv' /\ DoomedInv'
    BY <2>1 DEF ObjectInv, VersionInv, Private, DoomedInv, Doomed, Drawing, Stored
  <2>5. FileInv' /\ RowInv' /\ ServableHasFile'
    BY <2>1 DEF ObjectInv, FileInv, Filed, Holding, Drawing, RowInv, Made, Begun,
       ServableHasFile, Live, Stored
  <2> QED
    BY <2>2, <2>3, <2>4, <2>5 DEF ObjectInv
<1>2. ASSUME NEW r \in Requests, RequestStep(r)
      PROVE  ObjectInv'
  <2>1. r \in Procs
    BY DEF Procs
  <2>2. CASE \/ BeginPut(r) \/ BeginDelete(r) \/ BeginDropBucket(r)
             \/ BeginInitiate(r) \/ BeginPart(r) \/ BeginComplete(r) \/ BeginAbort(r)
    BY <2>1, <2>2, StepKeeps, BeginPutStep, BeginDeleteStep, BeginDropBucketStep,
       BeginInitiateStep, BeginPartStep, BeginCompleteStep, BeginAbortStep
  <2>3. CASE \/ PutWrite(r) \/ Insert(r) \/ SelectRows(r) \/ Unlink(r)
             \/ DropBucket(r)
    BY <2>1, <2>3, StepKeeps, PutWriteStep, InsertStep, SelectRowsStep,
       UnlinkStep, DropBucketStep
  <2>4. CASE \/ InsertUpload(r) \/ WritePart(r) \/ ReadParts(r) \/ UpdateParts(r)
             \/ CopyPart(r) \/ RehashPart(r) \/ Assembled(r)
    BY <2>1, <2>4, StepKeeps, InsertUploadStep, WritePartStep, ReadPartsStep,
       UpdatePartsStep, CopyPartStep, RehashPartStep, AssembledStep
  <2> QED
    BY <1>2, <2>2, <2>3, <2>4 DEF RequestStep
<1>3. ASSUME NEW c \in Cleaners, CleanerStep(c)
      PROVE  ObjectInv'
  <2>1. c \in Procs
    BY DEF Procs
  <2>2. CASE FindExpired(c) \/ NextExpired(c) \/ FindStale(c) \/ NextStale(c)
    BY <2>1, <2>2, StepKeeps, FindExpiredStep, NextExpiredStep, FindStaleStep,
       NextStaleStep
  <2>3. CASE StatementFails(c)
    <3>1. Finish(c) /\ UNCHANGED <<tables, files, drawn>>
      BY <2>3 DEF StatementFails
    <3> QED
      BY <2>1, <3>1, StepKeeps, QuietFinish
  <2> QED
    BY <1>3, <2>2, <2>3 DEF CleanerStep
<1>4. ASSUME NEW p \in Procs, SharedStep(p)
      PROVE  ObjectInv'
  BY <1>4, StepKeeps, DeleteRowsStep, RemovePartStep, DeleteUploadStep, StopStep
  DEF SharedStep
<1>5. ASSUME NEW v \in Versions, Expire(v)
      PROVE  ObjectInv'
  BY <1>5, ExpireKeeps
<1>6. ASSUME NEW u \in Uploads, Age(u)
      PROVE  ObjectInv'
  BY <1>6, AgeKeeps
<1> QED
  BY <1>1, <1>2, <1>3, <1>4, <1>5, <1>6 DEF Next

LEMMA ObjectInvHolds == Spec => []ObjectInv
  BY ObjectInvInit, ObjectInvNext, PTL DEF Spec

(* Rows, files and requests are of their types, and a request has set what *)
(* its next step uses, for any number of each.                             *)
THEOREM RustTypeCorrect == Spec => []TypeOK
<1>1. ObjectInv => TypeOK
  BY DEF ObjectInv, TypeInv
<1> QED
  BY <1>1, ObjectInvHolds, PTL

(* An object that has not expired can be read: no cleanup run, delete,     *)
(* delete_bucket or abandoned request removes its file before its row has  *)
(* gone or has expired.                                                    *)
THEOREM LiveObjectsAreServed == Spec => []ServableHasFile
<1>1. ObjectInv => ServableHasFile
  BY DEF ObjectInv
<1> QED
  BY <1>1, ObjectInvHolds, PTL

(* The file of an assembled object is made of one body for each of its     *)
(* parts, in order, each sent as that part of that upload.                 *)
THEOREM AssembledIsWhole == Spec => []ObjectsAreWhole
<1>1. ObjectInv => ObjectsAreWhole
  BY DEF ObjectInv, RowInv, ObjectsAreWhole, Made, Begun
<1> QED
  BY <1>1, ObjectInvHolds, PTL

(* Two sequences made of the same parts, none of which was sent twice.     *)
LEMMA MadeOnce ==
    ASSUME NEW cs \in Seq(Bodies), NEW ds \in Seq(Bodies), NEW u,
           NEW ns \in SUBSET PartNumbers, Made(cs, u, ns), Made(ds, u, ns),
           \A n \in ns : SentOnce(u, n)
    PROVE  cs = ds
<1>1. /\ Len(cs) = Cardinality(ns) /\ Len(ds) = Cardinality(ns)
      /\ \A i \in DOMAIN cs : sentAs[cs[i]] = <<u, Nth(ns, i)>>
      /\ \A i \in DOMAIN ds : sentAs[ds[i]] = <<u, Nth(ns, i)>>
  BY DEF Made, Begun
<1>2. DOMAIN cs = 1..Cardinality(ns) /\ DOMAIN ds = 1..Cardinality(ns)
  BY <1>1
<1>3. ASSUME NEW i \in 1..Cardinality(ns)
      PROVE  cs[i] = ds[i]
  <2>1. Nth(ns, i) \in ns
    BY NthType
  <2>2. PICK b \in Bodies : {c \in Bodies : sentAs[c] = <<u, Nth(ns, i)>>} = {b}
    BY <2>1 DEF SentOnce
  <2>3. i \in DOMAIN cs /\ i \in DOMAIN ds
    BY <1>2
  <2>4. cs[i] \in Bodies /\ ds[i] \in Bodies
    BY <2>3
  <2> QED
    BY <1>1, <2>2, <2>3, <2>4
<1> QED
  BY <1>1, <1>2, <1>3

(* When no part was sent twice, the hash and the size of an assembled      *)
(* object are those of its file, although they are taken from a second     *)
(* reading and from the upload's record.                                   *)
THEOREM EtagIsOfTheFile == Spec => []EtagOfPartsSentOnce
<1>1. ASSUME ObjectInv
      PROVE  EtagOfPartsSentOnce
  <2> SUFFICES ASSUME NEW v \in Stored, file[v] # None,
                      \A n \in row[v].chosen : SentOnce(row[v].up, n)
               PROVE  row[v].hash = file[v] /\ row[v].sized = file[v]
    BY DEF EtagOfPartsSentOnce
  <2>1. /\ Made(row[v].hash, row[v].up, row[v].chosen)
        /\ Made(row[v].sized, row[v].up, row[v].chosen)
        /\ Made(file[v], row[v].up, row[v].chosen)
    BY <1>1 DEF ObjectInv, RowInv
  <2>2. v \in Versions /\ row[v] \in ObjectRow /\ file[v] \in Seq(Bodies)
    BY <1>1 DEF ObjectInv, TypeInv, TypeOK, Stored
  <2>3. /\ row[v].hash \in Seq(Bodies) /\ row[v].sized \in Seq(Bodies)
        /\ row[v].chosen \in SUBSET PartNumbers
    BY <2>2 DEF ObjectRow
  <2> QED
    BY <2>1, <2>2, <2>3, MadeOnce
<1> QED
  BY <1>1, ObjectInvHolds, PTL
=============================================================================
