-------------------------- MODULE ObjectStoreProofs --------------------------
(***************************************************************************)
(* Proofs about ObjectStore, for any sets of names, keys, versions,        *)
(* requests and cleaner runs, any batch size and any faults.               *)
(***************************************************************************)
EXTENDS ObjectStore, TLAPS

-----------------------------------------------------------------------------
(* What TypeOK lacks to be inductive: the locals a step uses are set. *)

WellFormed(p) ==
    /\ p.op \in {"put", "get", "getVersion", "delete", "deleteVersion"}
        => p.key \in Keys
    /\ p.op = "put" => p.ver \in Versions
    /\ p.pc \in {"findBucket", "existsByName", "insertBucket"} => p.name \in Names
    /\ p.pc \in {"existsByName", "insertBucket"} => p.bucket \in BucketIds
    /\ p.pc \in {"write", "demote", "insert"} => p.op = "put"

TypeInv == TypeOK /\ \A p \in Procs : WellFormed(proc[p])

(* Goto is the only way a step changes proc, so a step preserves the type  *)
(* of proc when the local state it installs is well typed.                 *)
LEMMA GotoTypes ==
    ASSUME TypeInv, NEW p \in Procs, NEW local \in Proc, WellFormed(local),
           Goto(p, local)
    PROVE  /\ proc' \in [Procs -> Proc]
           /\ \A q \in Procs : WellFormed(proc'[q])
  BY DEF TypeInv, TypeOK, Goto

LEMMA IdleTypes == Idle \in Proc /\ WellFormed(Idle)
<1>1. Idle \in Proc
  BY DEF Idle, Proc, PC
<1>2. WellFormed(Idle)
  BY SentinelAssumption DEF Idle, WellFormed, AllOps
<1>. QED
  BY <1>1, <1>2

LEMMA FinishTypes ==
    ASSUME TypeInv, NEW p \in Procs, Finish(p)
    PROVE  /\ proc' \in [Procs -> Proc]
           /\ \A q \in Procs : WellFormed(proc'[q])
<1> DEFINE next == IF p \in Requests THEN Idle
                   ELSE [Idle EXCEPT !.pc = "batch", !.todo = proc[p].todo]
<1>1. proc[p] \in Proc
  BY DEF TypeInv, TypeOK
<1>2. next \in Proc
  BY <1>1, IdleTypes DEF Proc, PC, Idle
<1>3. WellFormed(next)
  BY SentinelAssumption, ConstantsAssumption, IdleTypes DEF WellFormed, Idle, AllOps
<1>4. Goto(p, next)
  BY DEF Finish
<1>. QED
  BY <1>2, <1>3, <1>4, GotoTypes

LEMMA InitType == Init => TypeInv
<1>. SUFFICES ASSUME Init PROVE TypeInv
  OBVIOUS
<1>1. proc \in [Procs -> Proc] /\ \A p \in Procs : WellFormed(proc[p])
  BY IdleTypes DEF Init
<1>2. TypeOK
  BY <1>1 DEF Init, TypeOK
<1>. QED
  BY <1>1, <1>2 DEF TypeInv

(* A request arrives. *)
LEMMA ArriveType ==
    ASSUME TypeInv, NEW r \in Requests, Arrive(r) PROVE TypeInv'
<1>1. r \in Procs
  BY DEF Procs
<1>2. ASSUME NEW op \in AllOps, NEW n \in Names, NEW k \in Keys \cup {None},
             NEW v \in Versions \cup {None}, NEW b \in BucketIds \cup {None},
             op \in {"put", "get", "getVersion", "delete", "deleteVersion"}
                => k \in Keys,
             op = "put" => v \in Versions,
             op = "createBucket" => b \in BucketIds
      PROVE  Start(op, n, k, v, b) \in Proc /\ WellFormed(Start(op, n, k, v, b))
  <2>1. Start(op, n, k, v, b) \in Proc
    BY <1>2 DEF Start, Idle, Proc, PC
  <2>2. WellFormed(Start(op, n, k, v, b))
    BY <1>2 DEF Start, Idle, WellFormed
  <2>. QED
    BY <2>1, <2>2
<1>3. CASE ArriveForKey(r)
  <2>1. PICK op \in Ops \cap {"get", "delete"}, n \in Names, k \in Keys :
            Goto(r, Start(op, n, k, None, None))
    BY <1>3 DEF ArriveForKey
  <2>2. Start(op, n, k, None, None) \in Proc
        /\ WellFormed(Start(op, n, k, None, None))
    BY <1>2 DEF AllOps
  <2>. QED
    BY <1>1, <1>3, <2>1, <2>2, GotoTypes DEF ArriveForKey, TypeInv, TypeOK
<1>4. CASE ArriveForVersion(r)
  <2>1. PICK op \in Ops \cap {"getVersion", "deleteVersion"},
             n \in Names, k \in Keys, v \in usedVersions :
            Goto(r, Start(op, n, k, v, None))
    BY <1>4 DEF ArriveForVersion
  <2>2. v \in Versions
    BY DEF TypeInv, TypeOK
  <2>3. Start(op, n, k, v, None) \in Proc /\ WellFormed(Start(op, n, k, v, None))
    BY <1>2, <2>2 DEF AllOps
  <2>. QED
    BY <1>1, <1>4, <2>1, <2>3, GotoTypes DEF ArriveForVersion, TypeInv, TypeOK
<1>5. CASE ArrivePut(r)
  <2>1. PICK op \in Ops \cap {"put"}, n \in Names, k \in Keys,
             v \in Versions \ usedVersions :
            /\ Goto(r, Start(op, n, k, v, None))
            /\ usedVersions' = usedVersions \cup {v}
    BY <1>5 DEF ArrivePut
  <2>2. Start(op, n, k, v, None) \in Proc /\ WellFormed(Start(op, n, k, v, None))
    BY <1>2 DEF AllOps
  <2>. QED
    BY <1>1, <1>5, <2>1, <2>2, GotoTypes DEF ArrivePut, TypeInv, TypeOK
<1>6. CASE ArriveDeleteBucket(r)
  <2>1. PICK op \in Ops \cap {"deleteBucket", "forceDeleteBucket"}, n \in Names :
            Goto(r, Start(op, n, None, None, None))
    BY <1>6 DEF ArriveDeleteBucket
  <2>2. Start(op, n, None, None, None) \in Proc
        /\ WellFormed(Start(op, n, None, None, None))
    BY <1>2 DEF AllOps
  <2>. QED
    BY <1>1, <1>6, <2>1, <2>2, GotoTypes DEF ArriveDeleteBucket, TypeInv, TypeOK
<1>7. CASE ArriveCreateBucket(r)
  <2>1. PICK op \in Ops \cap {"createBucket"}, n \in Names,
             b \in BucketIds \ usedBuckets :
            /\ Goto(r, Start(op, n, None, None, b))
            /\ usedBuckets' = usedBuckets \cup {b}
    BY <1>7 DEF ArriveCreateBucket
  <2>2. Start(op, n, None, None, b) \in Proc
        /\ WellFormed(Start(op, n, None, None, b))
    BY <1>2 DEF AllOps
  <2>. QED
    BY <1>1, <1>7, <2>1, <2>2, GotoTypes DEF ArriveCreateBucket, TypeInv, TypeOK
<1>. QED
  BY <1>3, <1>4, <1>5, <1>6, <1>7 DEF Arrive

(* The steps of a process that change only its local state. *)
LEMMA LocalStepType ==
    ASSUME TypeInv, NEW p \in Procs,
           \/ FindBucket(p) \/ PutWriteFails(p) \/ GetFindRow(p) \/ GetExists(p)
           \/ GetOpen(p) \/ CreateExists(p) \/ DropCount(p) \/ CleanFind(p)
           \/ CleanNext(p)
    PROVE  TypeInv'
<1> DEFINE x == proc[p]
<1>1. x \in Proc /\ WellFormed(x)
  BY DEF TypeInv, TypeOK
<1>2. ASSUME NEW local \in Proc, WellFormed(local), Goto(p, local),
             UNCHANGED <<bucket, row, blobs, loop, usedVersions, usedBuckets,
                         clock, newest>>
      PROVE  TypeInv'
  BY <1>2, GotoTypes DEF TypeInv, TypeOK
<1>3. ASSUME Finish(p), UNCHANGED <<bucket, row, blobs, loop, usedVersions,
                                    usedBuckets, clock, newest>>
      PROVE  TypeInv'
  BY <1>3, FinishTypes DEF TypeInv, TypeOK
<1>4. CASE FindBucket(p)
  <2> DEFINE b == bucket[x.name]
             after == [x EXCEPT !.pc = AfterFindBucket(x.op), !.bucket = b,
                                !.floor = IF x.op = "get"
                                          THEN newest[<<b, x.key>>] ELSE 0]
  <2>1. CASE b = None
    BY <1>3, <1>4, <2>1 DEF FindBucket
  <2>2. CASE b # None
    <3>1. x.name \in Names
      BY <1>1, <1>4 DEF FindBucket, At, WellFormed
    <3>2. b \in BucketIds
      BY <2>2, <3>1 DEF TypeInv, TypeOK
    <3>3. x.op = "get" => newest[<<b, x.key>>] \in Nat
      BY <1>1, <3>2 DEF TypeInv, TypeOK, WellFormed
    <3>4. AfterFindBucket(x.op) \in PC \ {"demote", "insert", "findBucket",
                                          "existsByName", "insertBucket"}
          /\ (AfterFindBucket(x.op) = "write" => x.op = "put")
      BY DEF AfterFindBucket, PC
    <3>5. after \in Proc
      BY <1>1, <3>2, <3>3, <3>4 DEF Proc
    <3>6. WellFormed(after)
      BY <1>1, <3>4 DEF WellFormed, Proc
    <3>. QED
      BY <1>2, <1>4, <2>2, <3>5, <3>6 DEF FindBucket
  <2>. QED
    BY <2>1, <2>2
<1>5. CASE PutWriteFails(p)
  BY <1>3, <1>5 DEF PutWriteFails
<1>6. CASE GetFindRow(p)
  <2>1. ASSUME NEW v \in Candidates(x) \ Expired,
               Goto(p, [x EXCEPT !.pc = "exists", !.ver = v,
                                 !.stamp = row[v].created])
        PROVE  TypeInv'
    <3>1. v \in Versions /\ row[v] \in Row
      BY DEF Candidates, FindLatest, LatestOf, RowsOf, Stored, TypeInv, TypeOK
    <3>2. row[v].created \in Nat
      BY <3>1 DEF Row
    <3> DEFINE local == [x EXCEPT !.pc = "exists", !.ver = v,
                                  !.stamp = row[v].created]
    <3>3. local \in Proc
      BY <1>1, <3>1, <3>2 DEF Proc, PC
    <3>4. WellFormed(local)
      BY <1>1, <3>1 DEF WellFormed, Proc
    <3>. QED
      BY <1>2, <1>6, <2>1, <3>3, <3>4 DEF GetFindRow
  <2>2. CASE Finish(p)
    BY <1>3, <1>6, <2>2 DEF GetFindRow
  <2>. QED
    BY <1>6, <2>1, <2>2 DEF GetFindRow
<1>7. CASE GetExists(p)
  <2> DEFINE local == [x EXCEPT !.pc = "open"]
  <2>1. local \in Proc
    BY <1>1 DEF Proc, PC
  <2>2. WellFormed(local)
    BY <1>1 DEF WellFormed, Proc
  <2>. QED
    BY <1>2, <1>3, <1>7, <2>1, <2>2 DEF GetExists
<1>8. CASE GetOpen(p)
  BY <1>3, <1>8 DEF GetOpen
<1>9. CASE CreateExists(p)
  <2> DEFINE local == [x EXCEPT !.pc = "insertBucket"]
  <2>1. local \in Proc
    BY <1>1 DEF Proc, PC
  <2>2. WellFormed(local)
    BY <1>1, <1>9 DEF WellFormed, Proc, CreateExists, At
  <2>. QED
    BY <1>2, <1>3, <1>9, <2>1, <2>2 DEF CreateExists
<1>10. CASE DropCount(p)
  <2> DEFINE local == [x EXCEPT !.pc = "dropBucket"]
  <2>1. local \in Proc
    BY <1>1 DEF Proc, PC
  <2>2. WellFormed(local)
    BY <1>1 DEF WellFormed, Proc
  <2>. QED
    BY <1>2, <1>3, <1>10, <2>1, <2>2 DEF DropCount
<1>11. CASE CleanFind(p)
  <2>1. PICK batch \in SUBSET Expired :
            Goto(p, [Idle EXCEPT
                       !.pc = "batch",
                       !.todo = {<<v, row[v].bucket, row[v].key>> : v \in batch}])
    BY <1>11 DEF CleanFind
  <2> DEFINE todo == {<<v, row[v].bucket, row[v].key>> : v \in batch}
             local == [Idle EXCEPT !.pc = "batch", !.todo = todo]
  <2>2. \A v \in batch : v \in Versions /\ row[v].bucket \in BucketIds
                                        /\ row[v].key \in Keys
    BY DEF Expired, Stored, TypeInv, TypeOK, Row
  <2>3. todo \in SUBSET (Versions \X BucketIds \X Keys)
    BY <2>2
  <2>4. local \in Proc
    BY <2>3, IdleTypes DEF Proc, PC
  <2>5. WellFormed(local)
    BY SentinelAssumption DEF WellFormed, Idle, AllOps
  <2>. QED
    BY <1>2, <1>11, <2>1, <2>4, <2>5 DEF CleanFind
<1>12. CASE CleanNext(p)
  <2>1. CASE Goto(p, Idle)
    BY <1>2, <1>12, <2>1, IdleTypes DEF CleanNext
  <2>2. ASSUME NEW t \in x.todo,
               Goto(p, [x EXCEPT !.pc = "select", !.todo = @ \ {t},
                                 !.ver = t[1], !.bucket = t[2], !.key = t[3]])
        PROVE  TypeInv'
    <3> DEFINE local == [x EXCEPT !.pc = "select", !.todo = @ \ {t},
                                  !.ver = t[1], !.bucket = t[2], !.key = t[3]]
    <3>1. t[1] \in Versions /\ t[2] \in BucketIds /\ t[3] \in Keys
          /\ x.todo \ {t} \in SUBSET (Versions \X BucketIds \X Keys)
      BY <1>1 DEF Proc
    <3>2. local \in Proc
      BY <1>1, <3>1 DEF Proc, PC
    <3>3. WellFormed(local)
      BY <1>1, <3>1 DEF WellFormed, Proc
    <3>. QED
      BY <1>2, <1>12, <2>2, <3>2, <3>3 DEF CleanNext
  <2>. QED
    BY <1>12, <2>1, <2>2 DEF CleanNext
<1>. QED
  BY <1>4, <1>5, <1>6, <1>7, <1>8, <1>9, <1>10, <1>11, <1>12

(* The steps of a process that change a table or the blobs. *)
LEMMA TableStepType ==
    ASSUME TypeInv, NEW p \in Procs,
           \/ PutWrite(p) \/ PutDemote(p) \/ PutInsert(p) \/ SelectRows(p)
           \/ DeleteRows(p) \/ Unlink(p) \/ CreateInsert(p) \/ DropBucket(p)
    PROVE  TypeInv'
<1> DEFINE x == proc[p]
<1>1. x \in Proc /\ WellFormed(x)
  BY DEF TypeInv, TypeOK
<1>2. CASE PutWrite(p)
  <2> DEFINE local == [x EXCEPT !.pc = "demote"]
  <2>1. local \in Proc
    BY <1>1 DEF Proc, PC
  <2>2. x.op = "put"
    BY <1>1, <1>2 DEF PutWrite, At, WellFormed
  <2>3. WellFormed(local)
    BY <1>1, <2>2 DEF WellFormed, Proc
  <2>4. blobs' \subseteq Versions
    BY <1>1, <1>2, <2>2 DEF PutWrite, WellFormed, TypeInv, TypeOK
  <2>. QED
    BY <1>2, <2>1, <2>3, <2>4, GotoTypes DEF PutWrite, TypeInv, TypeOK
<1>3. CASE PutDemote(p)
  <2> DEFINE local == [x EXCEPT !.pc = "insert", !.stamp = clock + 1]
  <2>1. clock + 1 \in Nat
    BY DEF TypeInv, TypeOK
  <2>2. local \in Proc
    BY <1>1, <2>1 DEF Proc, PC
  <2>3. WellFormed(local)
    BY <1>1, <1>3 DEF WellFormed, Proc, PutDemote, At
  <2>4. ASSUME NEW v \in Versions
        PROVE  Demoted(x.bucket, x.key)[v] \in Row \cup {None}
    BY DEF Demoted, LatestOf, RowsOf, Stored, TypeInv, TypeOK, Row
  <2>5. row' \in [Versions -> Row \cup {None}]
    BY <1>3, <2>4 DEF PutDemote, Demoted
  <2>6. loop' \in Procs \cup {Free}
    BY <1>3 DEF PutDemote, KeepLoop
  <2>. QED
    BY <1>3, <2>1, <2>2, <2>3, <2>5, <2>6, GotoTypes DEF PutDemote, TypeInv, TypeOK
<1>4. CASE PutInsert(p)
  <2>1. x.op = "put"
    BY <1>1, <1>4 DEF PutInsert, At, WellFormed
  <2>2. x.ver \in Versions /\ x.key \in Keys /\ x.stamp \in Nat
    BY <1>1, <2>1 DEF WellFormed, Proc
  <2>3. row' \in [Versions -> Row \cup {None}]
        /\ newest' \in [BucketIds \X Keys -> Nat]
    <3>1. CASE x.bucket \in LiveBuckets
      <4>1. x.bucket \in BucketIds
        BY <3>1 DEF LiveBuckets
      <4>2. \A e \in Expiries : NewRow(x, e) \in Row
        BY <2>2, <4>1, ConstantsAssumption DEF NewRow, Row
      <4>3. row' \in [Versions -> Row \cup {None}]
        BY <1>4, <2>2, <3>1, <4>2 DEF PutInsert, TypeInv, TypeOK
      <4>4. newest' \in [BucketIds \X Keys -> Nat]
        BY <1>4, <2>2, <3>1 DEF PutInsert, TypeInv, TypeOK
      <4>. QED
        BY <4>3, <4>4
    <3>2. CASE x.bucket \notin LiveBuckets
      BY <1>4, <3>2 DEF PutInsert, TypeInv, TypeOK
    <3>. QED
      BY <3>1, <3>2
  <2>4. Finish(p) /\ loop' = Free
    BY <1>4 DEF PutInsert, YieldLoop
  <2>. QED
    BY <1>4, <2>3, <2>4, FinishTypes DEF PutInsert, TypeInv, TypeOK
<1>5. CASE SelectRows(p)
  <2> DEFINE sel == Matching(x.bucket, x.key, x.ver)
             local == [x EXCEPT !.pc = "deleteRows", !.sel = sel]
  <2>1. sel \in SUBSET Versions
    BY DEF Matching, RowsOf, Stored
  <2>2. local \in Proc
    BY <1>1, <2>1 DEF Proc, PC
  <2>3. WellFormed(local)
    BY <1>1 DEF WellFormed, Proc
  <2>4. Goto(p, local) /\ loop' \in Procs \cup {Free}
    BY <1>5 DEF SelectRows, KeepLoop
  <2>. QED
    BY <1>5, <2>2, <2>3, <2>4, GotoTypes DEF SelectRows, TypeInv, TypeOK
<1>6. CASE DeleteRows(p)
  <2> DEFINE local == [x EXCEPT !.pc = "unlink"]
  <2>1. local \in Proc
    BY <1>1 DEF Proc, PC
  <2>2. WellFormed(local)
    BY <1>1 DEF WellFormed, Proc
  <2>3. row' \in [Versions -> Row \cup {None}]
    BY <1>6 DEF DeleteRows, TypeInv, TypeOK
  <2>4. loop' = Free /\ (Goto(p, local) \/ Finish(p))
    BY <1>6 DEF DeleteRows, YieldLoop
  <2>. QED
    BY <1>6, <2>1, <2>2, <2>3, <2>4, GotoTypes, FinishTypes
    DEF DeleteRows, TypeInv, TypeOK
<1>7. CASE Unlink(p)
  BY <1>7, FinishTypes DEF Unlink, TypeInv, TypeOK
<1>8. CASE CreateInsert(p)
  <2>1. x.name \in Names /\ x.bucket \in BucketIds
    BY <1>1, <1>8 DEF CreateInsert, At, WellFormed
  <2>2. bucket' \in [Names -> BucketIds \cup {None}]
    BY <1>8, <2>1 DEF CreateInsert, TypeInv, TypeOK
  <2>. QED
    BY <1>8, <2>2, FinishTypes DEF CreateInsert, TypeInv, TypeOK
<1>9. CASE DropBucket(p)
  <2>1. bucket' \in [Names -> BucketIds \cup {None}]
    BY <1>9 DEF DropBucket, TypeInv, TypeOK
  <2>2. row' \in [Versions -> Row \cup {None}]
    BY <1>9 DEF DropBucket, WithoutBucket, TypeInv, TypeOK
  <2>. QED
    BY <1>9, <2>1, <2>2, FinishTypes DEF DropBucket, TypeInv, TypeOK
<1>. QED
  BY <1>2, <1>3, <1>4, <1>5, <1>6, <1>7, <1>8, <1>9

LEMMA EnvironmentType ==
    ASSUME TypeInv, (\E v \in Versions : Expire(v)) \/ Crash
    PROVE  TypeInv'
<1>1. ASSUME NEW v \in Versions, Expire(v) PROVE TypeInv'
  <2>1. row[v] \in Row
    BY <1>1 DEF Expire, Stored, TypeInv, TypeOK
  <2>2. [row[v] EXCEPT !.expiry = "past"] \in Row
    BY <2>1 DEF Row
  <2>. QED
    BY <1>1, <2>2 DEF Expire, TypeInv, TypeOK
<1>2. CASE Crash
  BY <1>2, IdleTypes DEF Crash, TypeInv, TypeOK
<1>. QED
  BY <1>1, <1>2

LEMMA NextType == TypeInv /\ [Next]_vars => TypeInv'
<1>. SUFFICES ASSUME TypeInv, [Next]_vars PROVE TypeInv'
  OBVIOUS
<1>1. Requests \subseteq Procs /\ Cleaners \subseteq Procs
  BY DEF Procs
<1>2. ASSUME NEW r \in Requests, RequestStep(r) PROVE TypeInv'
  BY <1>1, <1>2, LocalStepType, TableStepType DEF RequestStep
<1>3. ASSUME NEW c \in Cleaners, CleanerStep(c) PROVE TypeInv'
  BY <1>1, <1>3, LocalStepType, TableStepType DEF CleanerStep
<1>4. CASE UNCHANGED vars
  BY <1>4 DEF vars, TypeInv, TypeOK
<1>. QED
  BY <1>2, <1>3, <1>4, ArriveType, EnvironmentType DEF Next

(* Every variable keeps its type, whatever the backend and the faults. *)
THEOREM TypeCorrect == Spec => []TypeOK
<1>1. TypeInv => TypeOK
  BY DEF TypeInv
<1>. QED
  BY <1>1, InitType, NextType, PTL DEF Spec

-----------------------------------------------------------------------------
(* Why every row has its blob.  The strengthening says where each version  *)
(* is in its life: drawn by one put, which alone may insert it; stored,    *)
(* with its blob; or selected for deletion, after which it can only be     *)
(* stored until that deletion's DELETE, and never again.                   *)

StoredInv == Stored \subseteq blobs \cap usedVersions

PutInv ==
    /\ \A p \in Procs : proc[p].op = "put" =>
         /\ proc[p].pc \in {"findBucket", "write", "demote", "insert"}
         /\ proc[p].ver \in usedVersions \ Stored
         /\ proc[p].pc \in {"demote", "insert"} => proc[p].ver \in blobs
    /\ \A p, q \in Procs :
         (proc[p].op = "put" /\ proc[q].op = "put" /\ proc[p].ver = proc[q].ver)
            => p = q

SelInv ==
    \A p \in Procs : \A v \in proc[p].sel :
        /\ v \in usedVersions
        /\ \A q \in Procs : proc[q].op = "put" => proc[q].ver # v
        /\ v \in Stored =>
             /\ proc[p].pc = "deleteRows"
             /\ v \in Matching(proc[p].bucket, proc[p].key, proc[p].ver)

DataInv == TypeInv /\ StoredInv /\ PutInv /\ SelInv

(* A step that inserts no row and moves none to another bucket or key. *)
NoNewRow ==
    \A v \in Versions : row'[v] # None =>
        /\ row[v] # None
        /\ row'[v].bucket = row[v].bucket
        /\ row'[v].key = row[v].key

LEMMA NoNewRowStored ==
    ASSUME NoNewRow
    PROVE  /\ Stored' \subseteq Stored
           /\ \A b, k, v : Stored' \cap Matching(b, k, v) \subseteq Matching(b, k, v)'
  BY DEF NoNewRow, Stored, Matching, RowsOf

(* A step of p that inserts no row, removes no blob, draws no uuid and     *)
(* neither selects rows nor deletes them.                                  *)
LEMMA QuietStep ==
    ASSUME DataInv, TypeInv', NEW p \in Procs, NEW local, Goto(p, local),
           NoNewRow, blobs \subseteq blobs', usedVersions' = usedVersions,
           local.op = "put" =>
             /\ proc[p].op = "put" /\ local.ver = proc[p].ver
             /\ local.pc \in {"findBucket", "write", "demote", "insert"}
             /\ local.pc \in {"demote", "insert"} => local.ver \in blobs',
           \/ local.sel = {}
           \/ local.sel = proc[p].sel /\ proc[p].pc # "deleteRows"
    PROVE  DataInv'
<1>1. Stored' \subseteq Stored
      /\ \A b, k, v : Stored' \cap Matching(b, k, v) \subseteq Matching(b, k, v)'
  BY NoNewRowStored
<1>2. /\ proc'[p] = local
      /\ \A q \in Procs : q # p => proc'[q] = proc[q]
  BY DEF Goto, DataInv, TypeInv, TypeOK
<1>3. StoredInv'
  BY <1>1 DEF DataInv, StoredInv
<1>4. \A q \in Procs : proc'[q].op = "put" =>
        proc[q].op = "put" /\ proc'[q].ver = proc[q].ver
  BY <1>2
<1>5. PutInv'
  BY <1>1, <1>2, <1>4 DEF DataInv, PutInv
<1>6. SelInv'
  <2>1. SUFFICES ASSUME NEW q \in Procs, NEW v \in proc'[q].sel
        PROVE  /\ v \in usedVersions'
               /\ \A t \in Procs : proc'[t].op = "put" => proc'[t].ver # v
               /\ v \in Stored' =>
                   /\ proc'[q].pc = "deleteRows"
                   /\ v \in Matching(proc[q].bucket, proc[q].key, proc[q].ver)'
    BY Zenon DEF SelInv
  <2>2. v \in proc[q].sel
    BY <1>2, <2>1
  <2>3. v \in usedVersions'
        /\ \A t \in Procs : proc'[t].op = "put" => proc'[t].ver # v
    BY <1>4, <2>2 DEF DataInv, SelInv
  <2>4. CASE q # p
    BY <1>1, <1>2, <2>2, <2>3, <2>4 DEF DataInv, SelInv
  <2>5. CASE q = p
    BY <1>1, <1>2, <2>1, <2>2, <2>3, <2>5 DEF DataInv, SelInv
  <2>. QED
    BY <2>4, <2>5
<1>. QED
  BY <1>3, <1>5, <1>6 DEF DataInv

LEMMA FinishQuiet ==
    ASSUME DataInv, TypeInv', NEW p \in Procs, Finish(p),
           NoNewRow, blobs \subseteq blobs', usedVersions' = usedVersions
    PROVE  DataInv'
<1> DEFINE next == IF p \in Requests THEN Idle
                   ELSE [Idle EXCEPT !.pc = "batch", !.todo = proc[p].todo]
<1>1. next.sel = {} /\ next.op # "put"
  BY SentinelAssumption DEF Idle, AllOps
<1>2. Goto(p, next)
  BY DEF Finish
<1>. QED
  BY <1>1, <1>2, QuietStep

LEMMA LocalStepData ==
    ASSUME DataInv, TypeInv', NEW p \in Procs,
           \/ FindBucket(p) \/ PutWriteFails(p) \/ GetFindRow(p) \/ GetExists(p)
           \/ GetOpen(p) \/ CreateExists(p) \/ DropCount(p) \/ CleanFind(p)
           \/ CleanNext(p)
    PROVE  DataInv'
<1> DEFINE x == proc[p]
<1>1. x \in Proc
  BY DEF DataInv, TypeInv, TypeOK
<1>2. NoNewRow /\ blobs \subseteq blobs' /\ usedVersions' = usedVersions
  BY DEF NoNewRow, FindBucket, PutWriteFails, GetFindRow, GetExists, GetOpen,
         CreateExists, DropCount, CleanFind, CleanNext
<1>3. x.op = "put" => x.pc \in {"findBucket", "write", "demote", "insert"}
  BY DEF DataInv, PutInv
<1>4. CASE Finish(p)
  BY <1>2, <1>4, FinishQuiet
<1>5. CASE FindBucket(p) /\ ~Finish(p)
  <2> DEFINE b == bucket[x.name]
             after == [x EXCEPT !.pc = AfterFindBucket(x.op), !.bucket = b,
                                !.floor = IF x.op = "get"
                                          THEN newest[<<b, x.key>>] ELSE 0]
  <2>1. Goto(p, after) /\ x.pc = "findBucket"
    BY <1>5 DEF FindBucket, At
  <2>2. /\ after.op = x.op /\ after.ver = x.ver /\ after.sel = x.sel
        /\ x.op = "put" => after.pc = "write"
    BY <1>1 DEF Proc, AfterFindBucket
  <2>. QED
    BY <1>2, <2>1, <2>2, QuietStep
<1>6. CASE GetFindRow(p) /\ ~Finish(p)
  <2>1. PICK v \in Candidates(x) \ Expired :
            Goto(p, [x EXCEPT !.pc = "exists", !.ver = v,
                              !.stamp = row[v].created])
    BY <1>6 DEF GetFindRow
  <2>2. x.pc = "findRow"
    BY <1>6 DEF GetFindRow, At
  <2> DEFINE local == [x EXCEPT !.pc = "exists", !.ver = v,
                                !.stamp = row[v].created]
  <2>3. local.op = x.op /\ local.sel = x.sel
    BY <1>1 DEF Proc
  <2>. QED
    BY <1>2, <1>3, <2>1, <2>2, <2>3, QuietStep
<1>7. CASE GetExists(p) /\ ~Finish(p)
  <2> DEFINE local == [x EXCEPT !.pc = "open"]
  <2>1. Goto(p, local) /\ x.pc = "exists"
    BY <1>7 DEF GetExists, At
  <2>2. local.op = x.op /\ local.sel = x.sel
    BY <1>1 DEF Proc
  <2>. QED
    BY <1>2, <1>3, <2>1, <2>2, QuietStep
<1>8. CASE CreateExists(p) /\ ~Finish(p)
  <2> DEFINE local == [x EXCEPT !.pc = "insertBucket"]
  <2>1. Goto(p, local) /\ x.pc = "existsByName"
    BY <1>8 DEF CreateExists, At
  <2>2. local.op = x.op /\ local.sel = x.sel
    BY <1>1 DEF Proc
  <2>. QED
    BY <1>2, <1>3, <2>1, <2>2, QuietStep
<1>9. CASE DropCount(p) /\ ~Finish(p)
  <2> DEFINE local == [x EXCEPT !.pc = "dropBucket"]
  <2>1. Goto(p, local) /\ x.pc = "count"
    BY <1>9 DEF DropCount, At
  <2>2. local.op = x.op /\ local.sel = x.sel
    BY <1>1 DEF Proc
  <2>. QED
    BY <1>2, <1>3, <2>1, <2>2, QuietStep
<1>10. CASE CleanFind(p)
  <2>1. PICK todo : Goto(p, [Idle EXCEPT !.pc = "batch", !.todo = todo])
    BY <1>10 DEF CleanFind
  <2> DEFINE local == [Idle EXCEPT !.pc = "batch", !.todo = todo]
  <2>2. local.sel = {} /\ local.op # "put"
    BY SentinelAssumption DEF Idle, AllOps
  <2>. QED
    BY <1>2, <2>1, <2>2, QuietStep
<1>11. CASE CleanNext(p)
  <2>1. CASE Goto(p, Idle)
    <3>1. Idle.sel = {} /\ Idle.op # "put"
      BY SentinelAssumption DEF Idle, AllOps
    <3>. QED
      BY <1>2, <2>1, <3>1, QuietStep
  <2>2. ASSUME NEW t \in x.todo,
               Goto(p, [x EXCEPT !.pc = "select", !.todo = @ \ {t},
                                 !.ver = t[1], !.bucket = t[2], !.key = t[3]])
        PROVE  DataInv'
    <3> DEFINE local == [x EXCEPT !.pc = "select", !.todo = @ \ {t},
                                  !.ver = t[1], !.bucket = t[2], !.key = t[3]]
    <3>1. local.op = x.op /\ local.sel = x.sel /\ x.pc = "batch"
      BY <1>1, <1>11 DEF Proc, CleanNext, At
    <3>. QED
      BY <1>2, <1>3, <2>2, <3>1, QuietStep
  <2>. QED
    BY <1>11, <2>1, <2>2 DEF CleanNext
<1>12. CASE PutWriteFails(p) \/ GetOpen(p)
  BY <1>4, <1>12 DEF PutWriteFails, GetOpen
<1>. QED
  BY <1>4, <1>5, <1>6, <1>7, <1>8, <1>9, <1>10, <1>11, <1>12

LEMMA ArriveData ==
    ASSUME DataInv, TypeInv', NEW r \in Requests, Arrive(r) PROVE DataInv'
<1>1. r \in Procs
  BY DEF Procs
<1>2. NoNewRow /\ blobs \subseteq blobs'
  BY DEF NoNewRow, Arrive, ArriveForKey, ArriveForVersion, ArrivePut,
         ArriveDeleteBucket, ArriveCreateBucket
<1>3. ASSUME NEW op \in AllOps \ {"put"}, NEW n, NEW k, NEW v, NEW b,
             Goto(r, Start(op, n, k, v, b)), usedVersions' = usedVersions
      PROVE  DataInv'
  <2>1. Start(op, n, k, v, b).sel = {} /\ Start(op, n, k, v, b).op # "put"
    BY DEF Start, Idle
  <2>. QED
    BY <1>1, <1>2, <1>3, <2>1, QuietStep
<1>4. CASE ArriveForKey(r)
  BY <1>3, <1>4 DEF ArriveForKey, AllOps
<1>5. CASE ArriveForVersion(r)
  BY <1>3, <1>5 DEF ArriveForVersion, AllOps
<1>6. CASE ArriveDeleteBucket(r)
  BY <1>3, <1>6 DEF ArriveDeleteBucket, AllOps
<1>7. CASE ArriveCreateBucket(r)
  BY <1>3, <1>7 DEF ArriveCreateBucket, AllOps
<1>8. CASE ArrivePut(r)
  <2>1. PICK n \in Names, k \in Keys, v \in Versions \ usedVersions :
            /\ Goto(r, Start("put", n, k, v, None))
            /\ usedVersions' = usedVersions \cup {v}
    BY <1>8 DEF ArrivePut
  <2> DEFINE local == Start("put", n, k, v, None)
  <2>2. local.op = "put" /\ local.pc = "findBucket" /\ local.ver = v
        /\ local.sel = {}
    BY DEF Start, Idle
  <2>3. /\ proc'[r] = local
        /\ \A q \in Procs : q # r => proc'[q] = proc[q]
    BY <1>1, <2>1 DEF Goto, DataInv, TypeInv, TypeOK
  <2>4. UNCHANGED <<row, blobs>> /\ Stored' = Stored
    BY <1>8 DEF ArrivePut, Stored
  <2>5. \A b, kk, w : Matching(b, kk, w)' = Matching(b, kk, w)
    BY <2>4 DEF Matching, RowsOf
  <2>6. StoredInv'
    BY <2>1, <2>4 DEF DataInv, StoredInv
  <2>7. PutInv'
    BY <2>1, <2>2, <2>3, <2>4 DEF DataInv, PutInv, StoredInv
  <2>8. SelInv'
    BY <2>1, <2>2, <2>3, <2>4, <2>5 DEF DataInv, SelInv
  <2>. QED
    BY <2>6, <2>7, <2>8 DEF DataInv
<1>. QED
  BY <1>4, <1>5, <1>6, <1>7, <1>8 DEF Arrive

(* The writes of a put before its INSERT, and the bucket operations. *)
LEMMA WriteStepData ==
    ASSUME DataInv, TypeInv', NEW p \in Procs,
           PutWrite(p) \/ PutDemote(p) \/ CreateInsert(p) \/ DropBucket(p)
    PROVE  DataInv'
<1> DEFINE x == proc[p]
<1>1. x \in Proc /\ WellFormed(x)
  BY DEF DataInv, TypeInv, TypeOK
<1>2. CASE PutWrite(p)
  <2> DEFINE local == [x EXCEPT !.pc = "demote"]
  <2>1. local.op = x.op /\ local.ver = x.ver /\ local.sel = x.sel
        /\ local.pc = "demote" /\ x.pc = "write" /\ Goto(p, local)
    BY <1>1, <1>2 DEF Proc, PutWrite, At
  <2>2. NoNewRow /\ blobs' = blobs \cup {x.ver} /\ usedVersions' = usedVersions
    BY <1>2 DEF NoNewRow, PutWrite
  <2> HIDE DEF local
  <2>. QED
    BY <2>1, <2>2, QuietStep
<1>3. CASE PutDemote(p)
  <2> DEFINE local == [x EXCEPT !.pc = "insert", !.stamp = clock + 1]
  <2>1. local.op = x.op /\ local.ver = x.ver /\ local.sel = x.sel
        /\ local.pc = "insert" /\ x.pc = "demote" /\ Goto(p, local)
    BY <1>1, <1>3 DEF Proc, PutDemote, At
  <2>2. NoNewRow
    <3>1. SUFFICES ASSUME NEW v \in Versions, row'[v] # None
          PROVE  row[v] # None /\ row'[v].bucket = row[v].bucket
                 /\ row'[v].key = row[v].key
      BY DEF NoNewRow
    <3>2. row'[v] = IF v \in LatestOf(x.bucket, x.key)
                    THEN [row[v] EXCEPT !.latest = FALSE] ELSE row[v]
      BY <1>3 DEF PutDemote, Demoted
    <3>3. row[v] # None
      BY <3>1, <3>2 DEF LatestOf, RowsOf, Stored
    <3>4. row[v] \in Row
      BY <3>3 DEF DataInv, TypeInv, TypeOK
    <3>. QED
      BY <3>2, <3>3, <3>4 DEF Row
  <2>3. blobs' = blobs /\ usedVersions' = usedVersions
        /\ (x.op = "put" => x.ver \in blobs)
    BY <1>3, <2>1 DEF PutDemote, DataInv, PutInv
  <2> HIDE DEF local
  <2>. QED
    BY <2>1, <2>2, <2>3, QuietStep
<1>4. CASE CreateInsert(p)
  <2>1. NoNewRow /\ blobs \subseteq blobs' /\ usedVersions' = usedVersions
    BY <1>4 DEF NoNewRow, CreateInsert
  <2>. QED
    BY <1>4, <2>1, FinishQuiet DEF CreateInsert
<1>5. CASE DropBucket(p)
  <2>1. NoNewRow
    BY <1>5 DEF NoNewRow, DropBucket, WithoutBucket
  <2>2. blobs \subseteq blobs' /\ usedVersions' = usedVersions
    BY <1>5 DEF DropBucket
  <2>. QED
    BY <1>5, <2>1, <2>2, FinishQuiet DEF DropBucket
<1>. QED
  BY <1>2, <1>3, <1>4, <1>5

(* The local state a process is left with when it finishes. *)
LEMMA FinishLocal ==
    ASSUME TypeInv, NEW p \in Procs, Finish(p)
    PROVE  /\ proc'[p].sel = {} /\ proc'[p].op = None
           /\ proc'[p].pc \in {"idle", "batch"}
           /\ \A q \in Procs : q # p => proc'[q] = proc[q]
  BY DEF Finish, Goto, Idle, TypeInv, TypeOK

(* The INSERT of a put: only this put holds the version, no deletion has   *)
(* selected it, and its blob is there.                                     *)
LEMMA InsertData ==
    ASSUME DataInv, TypeInv', NEW p \in Procs, PutInsert(p) PROVE DataInv'
<1> DEFINE x == proc[p]
<1>1. x.op = "put" /\ x.pc = "insert" /\ Finish(p) /\ blobs' = blobs
      /\ usedVersions' = usedVersions
  BY DEF PutInsert, At, DataInv, TypeInv, WellFormed
<1>2. x.ver \in Versions /\ x.ver \in usedVersions \ Stored /\ x.ver \in blobs
  BY <1>1 DEF DataInv, PutInv, TypeInv, WellFormed
<1>3. CASE x.bucket \notin LiveBuckets
  <2>1. NoNewRow
    BY <1>3 DEF PutInsert, NoNewRow
  <2>. QED
    BY <1>1, <2>1, FinishQuiet
<1>4. CASE x.bucket \in LiveBuckets
  <2>1. PICK e \in Expiries : row' = [row EXCEPT ![x.ver] = NewRow(x, e)]
    BY <1>4 DEF PutInsert
  <2>2. \A v \in Versions \ {x.ver} : row'[v] = row[v]
    BY <2>1 DEF DataInv, TypeInv, TypeOK
  <2>3. Stored' \subseteq Stored \cup {x.ver}
    BY <2>2 DEF Stored
  <2>4. \A q \in Procs : q # p => proc'[q] = proc[q]
    BY <1>1, FinishLocal DEF DataInv
  <2>5. proc'[p].sel = {} /\ proc'[p].op # "put"
    BY <1>1, FinishLocal, SentinelAssumption DEF DataInv, AllOps
  <2>6. StoredInv'
    BY <1>1, <1>2, <2>3 DEF DataInv, StoredInv
  <2>7. PutInv'
    BY <1>1, <2>3, <2>4, <2>5 DEF DataInv, PutInv
  <2>8. \A b, k, w : Stored \cap Matching(b, k, w) \subseteq Matching(b, k, w)'
    BY <1>2, <2>2 DEF Matching, RowsOf, Stored
  <2>9. SelInv'
    <3>1. SUFFICES ASSUME NEW q \in Procs, NEW v \in proc'[q].sel
          PROVE  /\ v \in usedVersions'
                 /\ \A t \in Procs : proc'[t].op = "put" => proc'[t].ver # v
                 /\ v \in Stored' =>
                     /\ proc'[q].pc = "deleteRows"
                     /\ v \in Matching(proc[q].bucket, proc[q].key, proc[q].ver)'
      BY Zenon DEF SelInv
    <3>2. q # p /\ proc'[q] = proc[q]
      BY <2>4, <2>5, <3>1
    <3>3. v # x.ver
      BY <1>1, <3>1, <3>2 DEF DataInv, SelInv
    <3>4. v \in Stored' => v \in Stored
      BY <2>3, <3>3
    <3>. QED
      BY <1>1, <2>4, <2>5, <2>8, <3>1, <3>2, <3>4 DEF DataInv, SelInv
  <2>. QED
    BY <2>6, <2>7, <2>9 DEF DataInv
<1>. QED
  BY <1>3, <1>4

(* The three steps of a deletion. *)
LEMMA DeleteStepData ==
    ASSUME DataInv, TypeInv', NEW p \in Procs,
           SelectRows(p) \/ DeleteRows(p) \/ Unlink(p)
    PROVE  DataInv'
<1> DEFINE x == proc[p]
           match == Matching(x.bucket, x.key, x.ver)
<1>1. x \in Proc
  BY DEF DataInv, TypeInv, TypeOK
<1>2. x.op # "put" /\ usedVersions' = usedVersions
  BY DEF SelectRows, DeleteRows, Unlink, At, DataInv, PutInv
<1>3. CASE SelectRows(p)
  <2> DEFINE local == [x EXCEPT !.pc = "deleteRows", !.sel = match]
  <2>1. /\ local.op = x.op /\ local.pc = "deleteRows" /\ local.sel = match
        /\ local.bucket = x.bucket /\ local.key = x.key /\ local.ver = x.ver
    BY <1>1 DEF Proc
  <2>2. /\ proc'[p] = local
        /\ \A q \in Procs : q # p => proc'[q] = proc[q]
    BY <1>3 DEF SelectRows, Goto, DataInv, TypeInv, TypeOK
  <2> HIDE DEF local
  <2>3. UNCHANGED <<row, blobs>> /\ Stored' = Stored
    BY <1>3 DEF SelectRows, Stored
  <2>4. \A b, k, w : Matching(b, k, w)' = Matching(b, k, w)
    BY <2>3 DEF Matching, RowsOf
  <2>5. match \subseteq Stored
    BY DEF Matching, RowsOf
  <2>6. StoredInv'
    BY <1>2, <2>3 DEF DataInv, StoredInv
  <2>7. PutInv'
    BY <1>2, <2>1, <2>2, <2>3 DEF DataInv, PutInv
  <2>8. \A v \in match : v \in usedVersions
                        /\ \A q \in Procs : proc[q].op = "put" => proc[q].ver # v
    BY <2>5 DEF DataInv, StoredInv, PutInv
  <2>9. SelInv'
    BY <1>2, <2>1, <2>2, <2>3, <2>4, <2>8 DEF DataInv, SelInv
  <2>. QED
    BY <2>6, <2>7, <2>9 DEF DataInv
<1>4. CASE DeleteRows(p)
  <2>1. row' = [v \in Versions |-> IF v \in match THEN None ELSE row[v]]
        /\ blobs' = blobs
    BY <1>4 DEF DeleteRows
  <2>2. NoNewRow
    BY <2>1 DEF NoNewRow
  <2>3. CASE Finish(p)
    BY <1>2, <2>1, <2>2, <2>3, FinishQuiet
  <2>4. CASE Goto(p, [x EXCEPT !.pc = "unlink"])
    <3> DEFINE local == [x EXCEPT !.pc = "unlink"]
    <3>1. local.op = x.op /\ local.sel = x.sel
      BY <1>1 DEF Proc
    <3>2. /\ proc'[p] = local
          /\ \A q \in Procs : q # p => proc'[q] = proc[q]
      BY <2>4 DEF Goto, DataInv, TypeInv, TypeOK
    <3> HIDE DEF local
    <3>3. /\ Stored' \subseteq Stored \ match
          /\ \A b, k, w : Stored' \cap Matching(b, k, w) \subseteq Matching(b, k, w)'
      BY <2>1, <2>2, NoNewRowStored DEF Stored
    <3>4. StoredInv'
      BY <1>2, <2>1, <3>3 DEF DataInv, StoredInv
    <3>5. PutInv'
      BY <1>2, <2>1, <3>1, <3>2, <3>3 DEF DataInv, PutInv
    <3>6. \A v \in x.sel : v \notin Stored'
      BY <3>3 DEF DataInv, SelInv
    <3>7. SelInv'
      BY <1>2, <3>1, <3>2, <3>3, <3>6 DEF DataInv, SelInv
    <3>. QED
      BY <3>4, <3>5, <3>7 DEF DataInv
  <2>. QED
    BY <1>4, <2>3, <2>4 DEF DeleteRows
<1>5. CASE Unlink(p)
  <2>1. /\ x.pc = "unlink" /\ row' = row /\ Finish(p) /\ Stored' = Stored
        /\ blobs \ x.sel \subseteq blobs'
    BY <1>5 DEF Unlink, At, Stored
  <2>2. \A b, k, w : Matching(b, k, w)' = Matching(b, k, w)
    BY <2>1 DEF Matching, RowsOf
  <2>3. x.sel \cap Stored = {}
    BY <2>1 DEF DataInv, SelInv
  <2>4. /\ \A q \in Procs : q # p => proc'[q] = proc[q]
        /\ proc'[p].sel = {} /\ proc'[p].op # "put"
    BY <2>1, FinishLocal, SentinelAssumption DEF DataInv, AllOps
  <2>5. StoredInv'
    BY <1>2, <2>1, <2>3 DEF DataInv, StoredInv
  <2>6. PutInv'
    BY <1>2, <2>1, <2>4 DEF DataInv, PutInv, SelInv
  <2>7. SelInv'
    BY <1>2, <2>1, <2>2, <2>4 DEF DataInv, SelInv
  <2>. QED
    BY <2>5, <2>6, <2>7 DEF DataInv
<1>. QED
  BY <1>3, <1>4, <1>5

LEMMA EnvironmentData ==
    ASSUME DataInv, TypeInv', (\E v \in Versions : Expire(v)) \/ Crash
    PROVE  DataInv'
<1>1. ASSUME NEW e \in Versions, Expire(e) PROVE DataInv'
  <2>1. /\ row[e] \in Row /\ row[e] # None
        /\ row' = [row EXCEPT ![e] = [row[e] EXCEPT !.expiry = "past"]]
        /\ UNCHANGED <<blobs, proc, usedVersions>>
    BY <1>1 DEF Expire, Stored, DataInv, TypeInv, TypeOK
  <2>2. NoNewRow
    BY <2>1 DEF NoNewRow, Row, DataInv, TypeInv, TypeOK
  <2>3. /\ Stored' \subseteq Stored
        /\ \A b, k, w : Stored' \cap Matching(b, k, w) \subseteq Matching(b, k, w)'
    BY <2>2, NoNewRowStored
  <2>4. StoredInv'
    BY <2>1, <2>3 DEF DataInv, StoredInv
  <2>5. PutInv'
    BY <2>1, <2>3 DEF DataInv, PutInv
  <2>6. SelInv'
    BY <2>1, <2>3 DEF DataInv, SelInv
  <2>. QED
    BY <2>4, <2>5, <2>6 DEF DataInv
<1>2. CASE Crash
  <2>1. /\ UNCHANGED <<row, blobs, usedVersions>>
        /\ Idle.sel = {} /\ Idle.op # "put"
        /\ \A p \in Procs : proc'[p] = proc[p] \/ proc'[p] = Idle
    BY <1>2, SentinelAssumption DEF Crash, Idle, AllOps
  <2>2. \A b, k, w : Matching(b, k, w)' = Matching(b, k, w)
    BY <2>1 DEF Matching, RowsOf, Stored
  <2>3. StoredInv'
    BY <2>1 DEF DataInv, StoredInv, Stored
  <2>4. PutInv'
    BY <2>1 DEF DataInv, PutInv, Stored
  <2>5. SelInv'
    BY <2>1, <2>2 DEF DataInv, SelInv, Stored
  <2>. QED
    BY <2>3, <2>4, <2>5 DEF DataInv
<1>. QED
  BY <1>1, <1>2

LEMMA InitData == Init => DataInv
<1>. SUFFICES ASSUME Init PROVE DataInv
  OBVIOUS
<1>1. Stored = {}
  BY DEF Init, Stored
<1>2. \A p \in Procs : proc[p].sel = {} /\ proc[p].op # "put"
  BY SentinelAssumption DEF Init, Idle, AllOps
<1>. QED
  BY <1>1, <1>2, InitType DEF DataInv, StoredInv, PutInv, SelInv

LEMMA NextData == DataInv /\ [Next]_vars => DataInv'
<1>. SUFFICES ASSUME DataInv, [Next]_vars PROVE DataInv'
  OBVIOUS
<1>1. TypeInv'
  BY NextType DEF DataInv
<1>2. Requests \subseteq Procs /\ Cleaners \subseteq Procs
  BY DEF Procs
<1>3. ASSUME NEW r \in Requests, RequestStep(r) PROVE DataInv'
  BY <1>1, <1>2, <1>3, LocalStepData, WriteStepData, InsertData, DeleteStepData
  DEF RequestStep
<1>4. ASSUME NEW c \in Cleaners, CleanerStep(c) PROVE DataInv'
  BY <1>1, <1>2, <1>4, LocalStepData, DeleteStepData DEF CleanerStep
<1>5. CASE UNCHANGED vars
  BY <1>1, <1>5
  DEF vars, DataInv, StoredInv, PutInv, SelInv, Stored, Matching, RowsOf
<1>. QED
  BY <1>1, <1>3, <1>4, <1>5, ArriveData, EnvironmentData DEF Next

(* Every row of the objects table has its blob, with either database, with *)
(* any number of requests and cleaner runs, across crashes and failed      *)
(* writes and removals: putObject inserts the row after the blob is in     *)
(* place and hardDelete removes it before the blob is unlinked.            *)
THEOREM RowsHaveBlobs == Spec => []RowHasBlob
<1>1. DataInv => RowHasBlob
  BY DEF DataInv, StoredInv, RowHasBlob
<1>. QED
  BY <1>1, InitData, NextData, PTL DEF Spec

-----------------------------------------------------------------------------
(* Why no row outlives its bucket. *)

LEMMA NextLive == TypeInv /\ RowsInLiveBuckets /\ [Next]_vars => RowsInLiveBuckets'
<1>. SUFFICES ASSUME TypeInv, RowsInLiveBuckets, [Next]_vars
             PROVE  RowsInLiveBuckets'
  OBVIOUS
<1>1. ASSUME NoNewRow, UNCHANGED bucket PROVE RowsInLiveBuckets'
  BY <1>1 DEF NoNewRow, RowsInLiveBuckets, Stored, LiveBuckets
<1>2. ASSUME NEW p \in Procs, PutInsert(p) PROVE RowsInLiveBuckets'
  <2>1. UNCHANGED bucket /\ LiveBuckets' = LiveBuckets
    BY <1>2 DEF PutInsert, LiveBuckets
  <2>2. CASE proc[p].bucket \in LiveBuckets
    <3>1. PICK e \in Expiries :
            row' = [row EXCEPT ![proc[p].ver] = NewRow(proc[p], e)]
      BY <1>2, <2>2 DEF PutInsert
    <3>2. \A v \in Versions : row'[v] = row[v] \/ row'[v] = NewRow(proc[p], e)
      BY <3>1 DEF TypeInv, TypeOK
    <3>3. NewRow(proc[p], e).bucket = proc[p].bucket
      BY DEF NewRow
    <3>. QED
      BY <2>1, <2>2, <3>2, <3>3 DEF RowsInLiveBuckets, Stored
  <2>3. CASE proc[p].bucket \notin LiveBuckets
    BY <1>1, <1>2, <2>1, <2>3 DEF PutInsert, NoNewRow
  <2>. QED
    BY <2>2, <2>3
<1>3. ASSUME NEW p \in Procs, PutDemote(p) PROVE RowsInLiveBuckets'
  <2>1. \A v \in Versions : row'[v] = row[v]
            \/ (row[v] \in Row /\ row'[v] = [row[v] EXCEPT !.latest = FALSE])
    BY <1>3 DEF PutDemote, Demoted, LatestOf, RowsOf, Stored, TypeInv, TypeOK
  <2>2. \A v \in Versions : row'[v] = row[v]
            \/ (row[v] \in Row /\ row'[v].bucket = row[v].bucket
                              /\ row'[v].key = row[v].key)
    BY <2>1 DEF Row
  <2>3. NoNewRow
    BY <2>2, SentinelAssumption DEF NoNewRow
  <2>. QED
    BY <1>1, <1>3, <2>3 DEF PutDemote
<1>4. ASSUME NEW p \in Procs, CreateInsert(p) PROVE RowsInLiveBuckets'
  <2>1. proc[p].name \in Names /\ row' = row
    BY <1>4 DEF CreateInsert, At, TypeInv, WellFormed
  <2>2. \A n \in Names : bucket[n] # None => bucket'[n] = bucket[n]
    BY <1>4, <2>1 DEF CreateInsert, TypeInv, TypeOK
  <2>3. LiveBuckets \subseteq LiveBuckets'
    BY <2>2, SentinelAssumption DEF LiveBuckets
  <2>. QED
    BY <2>1, <2>3 DEF RowsInLiveBuckets, Stored
<1>5. ASSUME NEW p \in Procs, DropBucket(p) PROVE RowsInLiveBuckets'
  <2> DEFINE b == proc[p].bucket
  <2>1. \A v \in Stored' : v \in Stored /\ row'[v] = row[v] /\ row[v].bucket # b
    BY <1>5 DEF DropBucket, WithoutBucket, Stored
  <2>2. \A n \in Names : bucket[n] # b => bucket'[n] = bucket[n]
    BY <1>5 DEF DropBucket
  <2>3. LiveBuckets \ {b} \subseteq LiveBuckets'
    BY <2>2 DEF LiveBuckets
  <2>. QED
    BY <2>1, <2>3 DEF RowsInLiveBuckets
<1>6. ASSUME NEW p \in Procs, DeleteRows(p) PROVE RowsInLiveBuckets'
  <2>1. NoNewRow
    BY <1>6 DEF DeleteRows, NoNewRow
  <2>. QED
    BY <1>1, <1>6, <2>1 DEF DeleteRows
<1>7. ASSUME NEW v \in Versions, Expire(v) PROVE RowsInLiveBuckets'
  <2>1. row[v] \in Row /\ row' = [row EXCEPT ![v] = [row[v] EXCEPT !.expiry = "past"]]
    BY <1>7 DEF Expire, Stored, TypeInv, TypeOK
  <2>2. NoNewRow
    BY <2>1, SentinelAssumption DEF NoNewRow, Row, TypeInv, TypeOK
  <2>. QED
    BY <1>1, <1>7, <2>2 DEF Expire
<1>8. CASE UNCHANGED <<row, bucket>>
  BY <1>1, <1>8 DEF NoNewRow
<1>9. ASSUME NEW r \in Requests, Arrive(r) PROVE UNCHANGED <<row, bucket>>
  BY <1>9 DEF Arrive, ArriveForKey, ArriveForVersion, ArrivePut,
              ArriveDeleteBucket, ArriveCreateBucket
<1>10. ASSUME NEW p \in Procs,
              \/ FindBucket(p) \/ PutWrite(p) \/ PutWriteFails(p) \/ GetFindRow(p)
              \/ GetExists(p) \/ GetOpen(p) \/ SelectRows(p) \/ Unlink(p)
              \/ CreateExists(p) \/ DropCount(p) \/ CleanFind(p) \/ CleanNext(p)
       PROVE  UNCHANGED <<row, bucket>>
  BY <1>10 DEF FindBucket, PutWrite, PutWriteFails, GetFindRow, GetExists, GetOpen,
               SelectRows, Unlink, CreateExists, DropCount, CleanFind, CleanNext
<1>11. Requests \subseteq Procs /\ Cleaners \subseteq Procs
  BY DEF Procs
<1>12. ASSUME NEW r \in Requests, RequestStep(r) PROVE RowsInLiveBuckets'
  BY <1>2, <1>3, <1>4, <1>5, <1>6, <1>8, <1>10, <1>11, <1>12 DEF RequestStep
<1>13. ASSUME NEW c \in Cleaners, CleanerStep(c) PROVE RowsInLiveBuckets'
  BY <1>6, <1>8, <1>10, <1>11, <1>13 DEF CleanerStep
<1>. QED
  BY <1>7, <1>8, <1>9, <1>12, <1>13 DEF Next, Crash, vars

(* No object row outlives the row of its bucket, whichever requests are    *)
(* under way when the bucket is deleted.                                   *)
THEOREM RowsStayInLiveBuckets == Spec => []RowsInLiveBuckets
<1>1. Init => RowsInLiveBuckets
  BY DEF Init, RowsInLiveBuckets, Stored
<1>. QED
  BY <1>1, InitType, NextType, NextLive, PTL DEF Spec
=============================================================================
