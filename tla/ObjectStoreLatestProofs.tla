----------------------- MODULE ObjectStoreLatestProofs -----------------------
(***************************************************************************)
(* Proofs about ObjectStore on SQLite, where a repository method of two    *)
(* statements holds the event loop: what a key's current version is, what  *)
(* readers see of it, what a deletion reports, what leaks no storage, and  *)
(* the version index it all implements; and, with either database, what    *)
(* the cleaner spares.                                                     *)
(***************************************************************************)
EXTENDS ObjectStoreProofs

-----------------------------------------------------------------------------
(* Who holds the event loop *)

(* Where a process is between the two statements of create or hardDelete.  *)
Held == {"insert", "deleteRows"}

LoopInv == \A p \in Procs : proc[p].pc \in Held <=> loop = p

Step(p) ==
    \/ p \in Requests /\ (Arrive(p) \/ RequestStep(p))
    \/ p \in Cleaners /\ CleanerStep(p)

LEMMA NextSteps ==
    ASSUME [Next]_vars
    PROVE  \/ \E p \in Procs : Step(p)
           \/ \E v \in Versions : Expire(v)
           \/ Crash
           \/ UNCHANGED vars
  BY DEF Next, Step, Procs

LEMMA GotoLocal ==
    ASSUME TypeInv, NEW p \in Procs, NEW local, Goto(p, local)
    PROVE  proc'[p] = local /\ \A q \in Procs : q # p => proc'[q] = proc[q]
  BY DEF TypeInv, TypeOK, Goto

(* A step of p that leaves the loop alone, and is not inside a method. *)
LEMMA OutsideMethod ==
    ASSUME LoopInv, NEW p \in Procs, MayRun(p), UNCHANGED loop,
           proc[p].pc \notin Held, proc'[p].pc \notin Held
    PROVE  /\ loop = Free /\ loop' = Free
           /\ proc'[p].pc \in Held <=> loop' = p
  BY SentinelAssumption DEF LoopInv, MayRun

(* The steps that neither enter nor leave a method of two statements. *)
LEMMA FreeStepControl ==
    ASSUME TypeInv, LoopInv, NEW p \in Procs,
           \/ p \in Requests /\ Arrive(p)
           \/ FindBucket(p) \/ PutWrite(p) \/ PutWriteFails(p)
           \/ GetFindRow(p) \/ GetExists(p) \/ GetOpen(p)
           \/ Unlink(p) \/ CleanFind(p) \/ CleanNext(p)
           \/ CreateExists(p) \/ CreateInsert(p) \/ DropCount(p) \/ DropBucket(p)
    PROVE  /\ loop = Free /\ loop' = Free
           /\ proc'[p].pc \notin Held
           /\ \A q \in Procs : q # p => proc'[q] = proc[q]
<1> DEFINE x == proc[p]
<1>1. x \in Proc
  BY DEF TypeInv, TypeOK
<1>2. ASSUME x.pc \notin Held, MayRun(p), UNCHANGED loop,
             NEW local, local.pc \notin Held, Goto(p, local)
      PROVE  /\ loop = Free /\ loop' = Free
             /\ proc'[p].pc \notin Held
             /\ \A q \in Procs : q # p => proc'[q] = proc[q]
  <2>1. proc'[p] = local /\ \A q \in Procs : q # p => proc'[q] = proc[q]
    BY <1>2, GotoLocal
  <2>. QED
    BY <1>2, <2>1, OutsideMethod
<1>3. ASSUME x.pc \notin Held, MayRun(p), UNCHANGED loop, Finish(p)
      PROVE  /\ loop = Free /\ loop' = Free
             /\ proc'[p].pc \notin Held
             /\ \A q \in Procs : q # p => proc'[q] = proc[q]
  BY <1>3, FinishLocal, OutsideMethod DEF Held
<1>4. CASE p \in Requests /\ Arrive(p)
  <2>1. x.pc \notin Held /\ MayRun(p) /\ UNCHANGED loop
    BY <1>4 DEF Arrive, ArriveForKey, ArriveForVersion, ArrivePut,
                ArriveDeleteBucket, ArriveCreateBucket, At, Held
  <2>2. \E op, n, k, v, b : Goto(p, Start(op, n, k, v, b))
    BY <1>4 DEF Arrive, ArriveForKey, ArriveForVersion, ArrivePut,
                ArriveDeleteBucket, ArriveCreateBucket
  <2>3. \A op, n, k, v, b : Start(op, n, k, v, b).pc \notin Held
    BY DEF Start, Idle, Held
  <2>. QED
    BY <1>2, <2>1, <2>2, <2>3
<1>5. CASE FindBucket(p)
  <2>1. x.pc \notin Held /\ MayRun(p) /\ UNCHANGED loop
    BY <1>5 DEF FindBucket, At, Held
  <2>2. CASE Finish(p)
    BY <1>3, <2>1, <2>2
  <2>3. CASE ~Finish(p)
    <3> DEFINE b == bucket[x.name]
               after == [x EXCEPT !.pc = AfterFindBucket(x.op), !.bucket = b,
                                  !.floor = IF x.op = "get"
                                            THEN newest[<<b, x.key>>] ELSE 0]
    <3>1. Goto(p, after)
      BY <1>5, <2>3 DEF FindBucket
    <3>2. after.pc \notin Held
      BY <1>1 DEF Proc, AfterFindBucket, Held
    <3>. QED
      BY <1>2, <2>1, <3>1, <3>2
  <2>. QED
    BY <2>2, <2>3
<1>6. CASE \/ PutWriteFails(p) \/ GetOpen(p) \/ Unlink(p) \/ CreateInsert(p)
           \/ DropBucket(p)
  BY <1>3, <1>6
  DEF PutWriteFails, GetOpen, Unlink, CreateInsert, DropBucket, At, Held
<1>7. CASE PutWrite(p)
  <2> DEFINE local == [x EXCEPT !.pc = "demote"]
  <2>1. local.pc \notin Held
    BY <1>1 DEF Proc, Held
  <2>. QED
    BY <1>2, <1>7, <2>1 DEF PutWrite, At, Held
<1>8. CASE GetFindRow(p)
  <2>1. x.pc \notin Held /\ MayRun(p) /\ UNCHANGED loop
    BY <1>8 DEF GetFindRow, At, Held
  <2>2. ASSUME NEW v, Goto(p, [x EXCEPT !.pc = "exists", !.ver = v,
                                        !.stamp = row[v].created])
        PROVE  \E local : local.pc \notin Held /\ Goto(p, local)
    BY <1>1, <2>2 DEF Proc, Held
  <2>. QED
    BY <1>2, <1>3, <1>8, <2>1, <2>2 DEF GetFindRow
<1>9. CASE GetExists(p)
  <2> DEFINE local == [x EXCEPT !.pc = "open"]
  <2>1. local.pc \notin Held
    BY <1>1 DEF Proc, Held
  <2>. QED
    BY <1>2, <1>3, <1>9, <2>1 DEF GetExists, At, Held
<1>10. CASE CleanFind(p)
  <2>1. PICK todo : Goto(p, [Idle EXCEPT !.pc = "batch", !.todo = todo])
    BY <1>10 DEF CleanFind
  <2> DEFINE local == [Idle EXCEPT !.pc = "batch", !.todo = todo]
  <2>2. local.pc \notin Held
    BY DEF Idle, Held
  <2>. QED
    BY <1>2, <1>10, <2>1, <2>2 DEF CleanFind, At, Held
<1>11. CASE CleanNext(p)
  <2>1. x.pc \notin Held /\ MayRun(p) /\ UNCHANGED loop
    BY <1>11 DEF CleanNext, At, Held
  <2>2. Idle.pc \notin Held
    BY DEF Idle, Held
  <2>3. ASSUME NEW t, Goto(p, [x EXCEPT !.pc = "select", !.todo = @ \ {t},
                                 !.ver = t[1], !.bucket = t[2], !.key = t[3]])
        PROVE  \E local : local.pc \notin Held /\ Goto(p, local)
    BY <1>1, <2>3 DEF Proc, Held
  <2>. QED
    BY <1>2, <1>11, <2>1, <2>2, <2>3 DEF CleanNext
<1>12. CASE CreateExists(p)
  <2> DEFINE local == [x EXCEPT !.pc = "insertBucket"]
  <2>1. local.pc \notin Held
    BY <1>1 DEF Proc, Held
  <2>. QED
    BY <1>2, <1>3, <1>12, <2>1 DEF CreateExists, At, Held
<1>13. CASE DropCount(p)
  <2> DEFINE local == [x EXCEPT !.pc = "dropBucket"]
  <2>1. local.pc \notin Held
    BY <1>1 DEF Proc, Held
  <2>. QED
    BY <1>2, <1>3, <1>13, <2>1 DEF DropCount, At, Held
<1>. QED
  BY <1>4, <1>5, <1>6, <1>7, <1>8, <1>9, <1>10, <1>11, <1>12, <1>13

(* The steps that enter such a method ... *)
LEMMA EnterControl ==
    ASSUME Backend = "sqlite", TypeInv, LoopInv, NEW p \in Procs,
           PutDemote(p) \/ SelectRows(p)
    PROVE  /\ loop = Free /\ loop' = p
           /\ proc'[p].pc \in Held
           /\ \A q \in Procs : q # p => proc'[q] = proc[q]
<1> DEFINE x == proc[p]
<1>1. x \in Proc
  BY DEF TypeInv, TypeOK
<1>2. loop = Free /\ loop' = p
  BY DEF PutDemote, SelectRows, At, MayRun, KeepLoop, LoopInv, Held
<1>3. CASE PutDemote(p)
  <2> DEFINE local == [x EXCEPT !.pc = "insert", !.stamp = clock + 1]
  <2>1. Goto(p, local) /\ local.pc = "insert"
    BY <1>1, <1>3 DEF Proc, PutDemote
  <2> HIDE DEF local
  <2>. QED
    BY <1>2, <2>1, GotoLocal DEF Held
<1>4. CASE SelectRows(p)
  <2> DEFINE local == [x EXCEPT !.pc = "deleteRows",
                         !.sel = Matching(x.bucket, x.key, x.ver)]
  <2>1. Goto(p, local) /\ local.pc = "deleteRows"
    BY <1>1, <1>4 DEF Proc, SelectRows
  <2> HIDE DEF local
  <2>. QED
    BY <1>2, <2>1, GotoLocal DEF Held
<1>. QED
  BY <1>3, <1>4

(* ... and leave it. *)
LEMMA LeaveControl ==
    ASSUME TypeInv, LoopInv, NEW p \in Procs, PutInsert(p) \/ DeleteRows(p)
    PROVE  /\ loop = p /\ loop' = Free
           /\ proc'[p].pc \notin Held
           /\ \A q \in Procs : q # p => proc'[q] = proc[q]
<1> DEFINE x == proc[p]
           local == [x EXCEPT !.pc = "unlink"]
<1>1. local.pc \notin Held
  BY DEF Proc, TypeInv, TypeOK, Held
<1>2. loop = p /\ loop' = Free
  BY DEF PutInsert, DeleteRows, At, YieldLoop, LoopInv, Held
<1>3. Finish(p) \/ Goto(p, local)
  BY DEF PutInsert, DeleteRows
<1> HIDE DEF local
<1>. QED
  BY <1>1, <1>2, <1>3, GotoLocal, FinishLocal DEF Held

(* All steps of a process. *)
LEMMA StepCases ==
    ASSUME NEW p \in Procs, Step(p)
    PROVE  \/ p \in Requests /\ Arrive(p)
           \/ FindBucket(p) \/ PutWrite(p) \/ PutWriteFails(p)
           \/ GetFindRow(p) \/ GetExists(p) \/ GetOpen(p)
           \/ Unlink(p) \/ CleanFind(p) \/ CleanNext(p)
           \/ CreateExists(p) \/ CreateInsert(p) \/ DropCount(p) \/ DropBucket(p)
           \/ PutDemote(p) \/ SelectRows(p) \/ PutInsert(p) \/ DeleteRows(p)
  BY DEF Step, RequestStep, CleanerStep

LEMMA NextLoop ==
    Backend = "sqlite" /\ TypeInv /\ LoopInv /\ [Next]_vars => LoopInv'
<1>. SUFFICES ASSUME Backend = "sqlite", TypeInv, LoopInv, [Next]_vars
              PROVE  LoopInv'
  OBVIOUS
<1>1. ASSUME NEW p \in Procs, Step(p) PROVE LoopInv'
  <2>1. /\ loop \in {Free, p} /\ loop' \in {Free, p}
        /\ proc'[p].pc \in Held <=> loop' = p
        /\ \A q \in Procs : q # p => proc'[q] = proc[q]
    BY <1>1, StepCases, FreeStepControl, EnterControl, LeaveControl,
       SentinelAssumption
  <2>. QED
    BY <2>1, SentinelAssumption DEF LoopInv
<1>2. ASSUME NEW v \in Versions, Expire(v) PROVE LoopInv'
  BY <1>2 DEF Expire, LoopInv
<1>3. CASE Crash
  <2>1. \A p \in Procs : proc'[p] = Idle
    BY <1>3 DEF Crash
  <2>. QED
    BY <1>3, <2>1, SentinelAssumption DEF Crash, LoopInv, Idle, Held
<1>4. CASE UNCHANGED vars
  BY <1>4 DEF vars, LoopInv
<1>. QED
  BY <1>1, <1>2, <1>3, <1>4, NextSteps

-----------------------------------------------------------------------------
(* The current version *)

(* newest is bounded by the clock, and a put between its UPDATE and its    *)
(* INSERT carries the latest stamp and has left no current version.        *)
StampInv ==
    /\ \A bk \in BucketIds \X Keys : newest[bk] <= clock
    /\ \A p \in Procs : proc[p].pc = "insert" =>
         /\ proc[p].stamp = clock
         /\ LatestOf(proc[p].bucket, proc[p].key) = {}
         /\ \A bk \in BucketIds \X Keys : newest[bk] < clock

LatestInv == TypeInv /\ LoopInv /\ LatestIsNewest /\ StampInv

(* A step that inserts no row, and makes none current. *)
NoNewLatest ==
    \A v \in Versions : row'[v] # None =>
        /\ row[v] # None
        /\ row'[v].bucket = row[v].bucket /\ row'[v].key = row[v].key
        /\ row'[v].created = row[v].created
        /\ row'[v].latest => row[v].latest

LEMMA NoNewLatestKeeps ==
    ASSUME LatestIsNewest, NoNewLatest, newest' = newest
    PROVE  /\ LatestIsNewest'
           /\ \A b, k : LatestOf(b, k)' \subseteq LatestOf(b, k)
  BY DEF LatestIsNewest, NoNewLatest, LatestOf, RowsOf, Stored

(* When a step begins and ends outside the methods nobody is at INSERT. *)
LEMMA NobodyInserts ==
    ASSUME LoopInv, loop = Free
    PROVE  \A p \in Procs : proc[p].pc # "insert"
  BY SentinelAssumption DEF LoopInv, Held

LEMMA DemoteLatest ==
    ASSUME Backend = "sqlite", LatestInv, TypeInv', LoopInv', NEW p \in Procs,
           PutDemote(p)
    PROVE  LatestInv'
<1> DEFINE x == proc[p]
           local == [x EXCEPT !.pc = "insert", !.stamp = clock + 1]
<1>1. /\ row' = Demoted(x.bucket, x.key) /\ clock' = clock + 1
      /\ newest' = newest /\ Goto(p, local)
  BY DEF PutDemote
<1>2. /\ local.stamp = clock + 1
      /\ local.bucket = x.bucket /\ local.key = x.key
  BY DEF LatestInv, TypeInv, TypeOK, Proc
<1> HIDE DEF local
<1>3. /\ proc'[p] = local
      /\ \A q \in Procs : proc'[q].pc = "insert" => q = p
  BY <1>1, EnterControl, GotoLocal, NobodyInserts DEF LatestInv
<1>4. \A v \in Versions :
         row'[v] = IF v \in LatestOf(x.bucket, x.key)
                   THEN [row[v] EXCEPT !.latest = FALSE] ELSE row[v]
  BY <1>1 DEF Demoted
<1>5. \A v \in Stored : row[v] \in Row
  BY DEF Stored, LatestInv, TypeInv, TypeOK
<1>6. \A v \in LatestOf(x.bucket, x.key) :
         /\ v \in Stored
         /\ row'[v].bucket = row[v].bucket /\ row'[v].key = row[v].key
         /\ row'[v].created = row[v].created /\ row'[v].latest = FALSE
  <2>1. LatestOf(x.bucket, x.key) \subseteq Stored /\ Stored \subseteq Versions
    BY DEF LatestOf, RowsOf, Stored
  <2>. QED
    BY <1>4, <1>5, <2>1 DEF Row
<1>7. NoNewLatest
  <2>. SUFFICES ASSUME NEW v \in Versions, row'[v] # None
                PROVE  /\ row[v] # None
                       /\ row'[v].bucket = row[v].bucket
                       /\ row'[v].key = row[v].key
                       /\ row'[v].created = row[v].created
                       /\ row'[v].latest => row[v].latest
    BY DEF NoNewLatest
  <2>1. CASE v \in LatestOf(x.bucket, x.key)
    BY <2>1, <1>6 DEF Stored
  <2>2. CASE v \notin LatestOf(x.bucket, x.key)
    BY <2>2, <1>4
  <2>. QED
    BY <2>1, <2>2
<1>8. /\ LatestIsNewest'
      /\ \A b, k : LatestOf(b, k)' \subseteq LatestOf(b, k)
  BY <1>1, <1>7, NoNewLatestKeeps DEF LatestInv
<1>9. \A b, k : b = x.bucket /\ k = x.key => LatestOf(b, k)' = {}
  <2>1. \A b, k : \A v \in LatestOf(b, k)' : row'[v].latest
    BY DEF LatestOf
  <2>. QED
    BY <1>6, <1>8, <2>1
<1>10. clock \in Nat /\ \A bk \in BucketIds \X Keys :
                          newest[bk] \in Nat /\ newest[bk] <= clock
  BY DEF LatestInv, TypeInv, TypeOK, StampInv
<1>11. StampInv'
  BY <1>1, <1>2, <1>3, <1>9, <1>10 DEF StampInv
<1>. QED
  BY <1>8, <1>11 DEF LatestInv

LEMMA InsertLatest ==
    ASSUME LatestInv, TypeInv', LoopInv', NEW p \in Procs, PutInsert(p)
    PROVE  LatestInv'
<1> DEFINE x == proc[p]
<1>1. x.pc = "insert" /\ clock' = clock
  BY DEF PutInsert, At
<1>2. \A q \in Procs : proc'[q].pc # "insert"
  BY LeaveControl, NobodyInserts, SentinelAssumption DEF LatestInv, LoopInv, Held
<1>3. /\ x.stamp = clock /\ LatestOf(x.bucket, x.key) = {}
      /\ \A bk \in BucketIds \X Keys : newest[bk] < clock
  BY <1>1 DEF LatestInv, StampInv
<1>4. x.ver \in Versions /\ x.key \in Keys
  BY <1>1 DEF LatestInv, TypeInv, WellFormed
<1>5. clock \in Nat /\ \A bk \in BucketIds \X Keys : newest[bk] \in Nat
  BY DEF LatestInv, TypeInv, TypeOK
<1>6. CASE x.bucket \notin LiveBuckets
  <2>1. row' = row /\ newest' = newest
    BY <1>6 DEF PutInsert
  <2>2. NoNewLatest
    BY <2>1 DEF NoNewLatest
  <2>3. LatestIsNewest'
    BY <2>1, <2>2, NoNewLatestKeeps DEF LatestInv
  <2>. QED
    BY <1>1, <1>2, <2>1, <2>3 DEF LatestInv, StampInv
<1>7. CASE x.bucket \in LiveBuckets
  <2> DEFINE bk == <<x.bucket, x.key>>
  <2>1. bk \in BucketIds \X Keys
    BY <1>4, <1>7 DEF LiveBuckets
  <2>2. PICK e \in Expiries : row' = [row EXCEPT ![x.ver] = NewRow(x, e)]
    BY <1>7 DEF PutInsert
  <2>3. /\ row'[x.ver] = NewRow(x, e)
        /\ \A v \in Versions : v # x.ver => row'[v] = row[v]
    BY <1>4, <2>2 DEF LatestInv, TypeInv, TypeOK
  <2>4. newest' = [newest EXCEPT ![bk] = IF x.stamp > @ THEN x.stamp ELSE @]
    BY <1>7 DEF PutInsert
  <2>5. /\ newest'[bk] = clock
        /\ \A c \in BucketIds \X Keys : c # bk => newest'[c] = newest[c]
    BY <1>3, <1>5, <2>1, <2>4 DEF LatestInv, TypeInv, TypeOK
  <2>6. LatestIsNewest'
    <3>. SUFFICES ASSUME NEW v \in Versions, row'[v] # None, row'[v].latest
                  PROVE  row'[v].created
                           = newest'[<<row'[v].bucket, row'[v].key>>]
      BY DEF LatestIsNewest, Stored
    <3>1. CASE v = x.ver
      BY <1>3, <2>3, <2>5, <3>1 DEF NewRow
    <3>2. CASE v # x.ver
      <4>1. row'[v] = row[v] /\ v \in Stored /\ row[v] \in Row
        BY <2>3, <3>2 DEF Stored, LatestInv, TypeInv, TypeOK
      <4>2. v \notin LatestOf(x.bucket, x.key)
        BY <1>3
      <4>3. <<row[v].bucket, row[v].key>> # bk
        BY <4>1, <4>2 DEF LatestOf, RowsOf
      <4>4. <<row[v].bucket, row[v].key>> \in BucketIds \X Keys
        BY <4>1 DEF Row
      <4>. QED
        BY <2>5, <4>1, <4>3, <4>4 DEF LatestInv, LatestIsNewest
    <3>. QED
      BY <3>1, <3>2
  <2>7. StampInv'
    BY <1>1, <1>2, <1>3, <1>5, <2>5 DEF StampInv
  <2>. QED
    BY <2>6, <2>7 DEF LatestInv
<1>. QED
  BY <1>6, <1>7

(* Every other step of a process. *)
LEMMA OtherLatest ==
    ASSUME Backend = "sqlite", LatestInv, TypeInv', LoopInv', NEW p \in Procs,
           Step(p), ~PutDemote(p), ~PutInsert(p)
    PROVE  LatestInv'
<1>1. NoNewLatest /\ newest' = newest /\ clock' = clock
  BY StepCases
  DEF NoNewLatest, Arrive, ArriveForKey, ArriveForVersion, ArrivePut,
      ArriveDeleteBucket, ArriveCreateBucket, FindBucket, PutWrite,
      PutWriteFails, GetFindRow, GetExists, GetOpen, Unlink, CleanFind,
      CleanNext, CreateExists, CreateInsert, DropCount, DropBucket,
      SelectRows, DeleteRows, WithoutBucket
<1>2. LatestIsNewest'
  BY <1>1, NoNewLatestKeeps DEF LatestInv
<1>3. \A q \in Procs : proc'[q].pc # "insert"
  <2>1. CASE DeleteRows(p)
    <3>. LoopInv /\ loop' = Free
      BY <2>1, LeaveControl DEF LatestInv
    <3>. QED
      BY NobodyInserts, SentinelAssumption DEF LoopInv, Held
  <2>2. CASE SelectRows(p)
    <3>1. loop = Free /\ \A q \in Procs : q # p => proc'[q] = proc[q]
      BY <2>2, EnterControl DEF LatestInv
    <3> DEFINE local == [proc[p] EXCEPT !.pc = "deleteRows",
                 !.sel = Matching(proc[p].bucket, proc[p].key, proc[p].ver)]
    <3>2. local.pc = "deleteRows" /\ Goto(p, local)
      BY <2>2 DEF SelectRows, LatestInv, TypeInv, TypeOK, Proc
    <3> HIDE DEF local
    <3>3. proc'[p].pc = "deleteRows"
      BY <3>2, GotoLocal DEF LatestInv
    <3>. QED
      BY <3>1, <3>3, NobodyInserts DEF LatestInv
  <2>3. CASE ~DeleteRows(p) /\ ~SelectRows(p)
    <3>. loop' = Free
      BY <2>3, StepCases, FreeStepControl DEF LatestInv
    <3>. QED
      BY SentinelAssumption DEF LoopInv, Held
  <2>. QED
    BY <2>1, <2>2, <2>3
<1>4. StampInv'
  BY <1>1, <1>3 DEF StampInv, LatestInv
<1>. QED
  BY <1>2, <1>4 DEF LatestInv

LEMMA EnvironmentLatest ==
    ASSUME LatestInv, TypeInv', LoopInv', (\E v \in Versions : Expire(v)) \/ Crash
    PROVE  LatestInv'
<1>1. ASSUME NEW e \in Versions, Expire(e) PROVE LatestInv'
  <2>1. /\ row[e] \in Row /\ row[e] # None
        /\ row' = [row EXCEPT ![e] = [row[e] EXCEPT !.expiry = "past"]]
        /\ UNCHANGED <<proc, clock, newest>>
    BY <1>1 DEF Expire, Stored, LatestInv, TypeInv, TypeOK
  <2>2. NoNewLatest
    BY <2>1 DEF NoNewLatest, Row, LatestInv, TypeInv, TypeOK
  <2>3. /\ LatestIsNewest'
        /\ \A b, k : LatestOf(b, k)' \subseteq LatestOf(b, k)
    BY <2>1, <2>2, NoNewLatestKeeps DEF LatestInv
  <2>4. StampInv'
    BY <2>1, <2>3 DEF LatestInv, StampInv
  <2>. QED
    BY <2>3, <2>4 DEF LatestInv
<1>2. CASE Crash
  <2>1. /\ UNCHANGED <<row, clock, newest>>
        /\ \A p \in Procs : proc'[p] = proc[p] \/ proc'[p] = Idle
    BY <1>2 DEF Crash
  <2>2. NoNewLatest
    BY <2>1 DEF NoNewLatest
  <2>3. /\ LatestIsNewest'
        /\ \A b, k : LatestOf(b, k)' \subseteq LatestOf(b, k)
    BY <2>1, <2>2, NoNewLatestKeeps DEF LatestInv
  <2>4. StampInv'
    BY <2>1, <2>3 DEF LatestInv, StampInv, Idle
  <2>. QED
    BY <2>3, <2>4 DEF LatestInv
<1>. QED
  BY <1>1, <1>2

LEMMA NextLatest ==
    Backend = "sqlite" /\ LatestInv /\ [Next]_vars => LatestInv'
<1>. SUFFICES ASSUME Backend = "sqlite", LatestInv, [Next]_vars
              PROVE  LatestInv'
  OBVIOUS
<1>1. TypeInv' /\ LoopInv'
  BY NextType, NextLoop DEF LatestInv
<1>2. CASE UNCHANGED vars
  BY <1>1, <1>2
  DEF vars, LatestInv, LatestIsNewest, StampInv, LatestOf, RowsOf, Stored
<1>. QED
  BY <1>1, <1>2, NextSteps, DemoteLatest, InsertLatest, OtherLatest,
     EnvironmentLatest

LEMMA InitLatest == Init => LatestInv
<1>. SUFFICES ASSUME Init PROVE LatestInv
  OBVIOUS
<1>1. \A p \in Procs : proc[p].pc = "idle"
  BY DEF Init, Idle
<1>2. LoopInv
  BY <1>1, SentinelAssumption DEF Init, LoopInv, Held
<1>3. LatestIsNewest /\ StampInv
  BY <1>1 DEF Init, LatestIsNewest, StampInv, Stored
<1>. QED
  BY <1>2, <1>3, InitType DEF LatestInv

(* On SQLite a current version is the newest ever inserted for its bucket  *)
(* and key, however many puts, deletes and crashes there are               *)
(* (ObjectRepository.create).                                              *)
THEOREM CurrentIsNewest ==
    ASSUME Backend = "sqlite" PROVE Spec => []LatestIsNewest
<1>1. LatestInv /\ [Next]_vars => LatestInv'
  BY NextLatest
<1>2. LatestInv => LatestIsNewest
  BY DEF LatestInv
<1>. QED
  BY <1>1, <1>2, InitLatest, PTL DEF Spec

-----------------------------------------------------------------------------
(* What a reader sees *)

(* A read that has its bucket has seen no more than the newest version, and *)
(* a read that has its row holds no older one than it had seen.            *)
ReadInv ==
    \A p \in Procs : proc[p].op = "get" =>
        /\ proc[p].pc = "findRow" =>
             /\ <<proc[p].bucket, proc[p].key>> \in BucketIds \X Keys
             /\ proc[p].floor <= newest[<<proc[p].bucket, proc[p].key>>]
        /\ proc[p].pc \in {"exists", "open"} => proc[p].stamp >= proc[p].floor

LEMMA NewestGrows ==
    ASSUME LatestInv, NEW p \in Procs, Step(p)
    PROVE  \A bk \in BucketIds \X Keys : newest[bk] <= newest'[bk]
<1>1. \A bk \in BucketIds \X Keys : newest[bk] \in Nat
  BY DEF LatestInv, TypeInv, TypeOK
<1>2. CASE newest' = newest
  BY <1>1, <1>2
<1>3. CASE PutInsert(p) /\ newest' # newest
  <2> DEFINE x == proc[p]
             bk == <<x.bucket, x.key>>
  <2>1. newest' = [newest EXCEPT ![bk] = IF x.stamp > @ THEN x.stamp ELSE @]
    BY <1>3 DEF PutInsert
  <2>2. x.stamp \in Nat
    BY DEF LatestInv, TypeInv, TypeOK, Proc
  <2>. QED
    BY <1>1, <2>1, <2>2 DEF LatestInv, TypeInv, TypeOK
<1>4. ~PutInsert(p) => newest' = newest
  BY StepCases
  DEF Arrive, ArriveForKey, ArriveForVersion, ArrivePut, ArriveDeleteBucket,
      ArriveCreateBucket, FindBucket, PutWrite, PutWriteFails, GetFindRow,
      GetExists, GetOpen, Unlink, CleanFind, CleanNext, CreateExists,
      CreateInsert, DropCount, DropBucket, SelectRows, DeleteRows, PutDemote
<1>. QED
  BY <1>2, <1>3, <1>4

LEMMA StepReads ==
    ASSUME Backend = "sqlite", LatestInv, ReadInv, NEW p \in Procs, Step(p)
    PROVE  ReadInv'
<1> DEFINE x == proc[p]
           y == proc'[p]
<1>1. x \in Proc /\ WellFormed(x)
  BY DEF LatestInv, TypeInv, TypeOK
<1>2. \A q \in Procs : q # p => proc'[q] = proc[q]
  BY StepCases, FreeStepControl, EnterControl, LeaveControl DEF LatestInv
<1>3. \A bk \in BucketIds \X Keys :
         newest[bk] \in Nat /\ newest'[bk] \in Int /\ newest[bk] <= newest'[bk]
  <2>1. TypeInv'
    BY NextType DEF LatestInv, Next, Step
  <2>. QED
    BY <2>1, NewestGrows DEF LatestInv, TypeInv, TypeOK
<1>4. ASSUME NEW q \in Procs, q # p, proc[q].op = "get"
      PROVE  /\ proc[q].pc = "findRow" =>
                  /\ <<proc[q].bucket, proc[q].key>> \in BucketIds \X Keys
                  /\ proc[q].floor <= newest'[<<proc[q].bucket, proc[q].key>>]
             /\ proc[q].pc \in {"exists", "open"} => proc[q].stamp >= proc[q].floor
  <2>1. proc[q].floor \in Nat
    BY DEF LatestInv, TypeInv, TypeOK, Proc
  <2>. QED
    BY <1>3, <1>4, <2>1 DEF ReadInv
<1>5. SUFFICES ASSUME y.op = "get"
      PROVE  /\ y.pc = "findRow" =>
                  /\ <<y.bucket, y.key>> \in BucketIds \X Keys
                  /\ y.floor <= newest'[<<y.bucket, y.key>>]
             /\ y.pc \in {"exists", "open"} => y.stamp >= y.floor
  BY <1>2, <1>4 DEF ReadInv
<1>6. CASE FindBucket(p)
  <2>1. CASE Finish(p)
    BY <2>1, FinishLocal DEF LatestInv
  <2>2. CASE ~Finish(p)
    <3> DEFINE b == bucket[x.name]
               after == [x EXCEPT !.pc = AfterFindBucket(x.op), !.bucket = b,
                                  !.floor = IF x.op = "get"
                                            THEN newest[<<b, x.key>>] ELSE 0]
    <3>1. b # None /\ Goto(p, after) /\ newest' = newest /\ x.pc = "findBucket"
      BY <1>6, <2>2 DEF FindBucket, At
    <3>2. b \in BucketIds
      BY <1>1, <3>1 DEF WellFormed, LatestInv, TypeInv, TypeOK
    <3>3. /\ after.op = x.op /\ after.pc = AfterFindBucket(x.op)
          /\ after.bucket = b /\ after.key = x.key
          /\ x.op = "get" => after.floor = newest[<<b, x.key>>]
      BY <1>1 DEF Proc
    <3> HIDE DEF after
    <3>4. y = after
      BY <3>1, GotoLocal DEF LatestInv
    <3>5. x.op = "get" /\ x.key \in Keys /\ y.pc = "findRow"
      BY <1>1, <1>5, <3>3, <3>4 DEF WellFormed, AfterFindBucket
    <3>. QED
      BY <1>3, <3>1, <3>2, <3>3, <3>4, <3>5
  <2>. QED
    BY <2>1, <2>2
<1>7. CASE GetFindRow(p)
  <2>1. CASE Finish(p)
    BY <2>1, FinishLocal DEF LatestInv
  <2>2. CASE ~Finish(p)
    <3>1. PICK v \in Candidates(x) \ Expired :
              Goto(p, [x EXCEPT !.pc = "exists", !.ver = v,
                                !.stamp = row[v].created])
      BY <1>7, <2>2 DEF GetFindRow
    <3> DEFINE local == [x EXCEPT !.pc = "exists", !.ver = v,
                                  !.stamp = row[v].created]
    <3>2. /\ local.op = x.op /\ local.pc = "exists" /\ local.floor = x.floor
          /\ local.stamp = row[v].created
      BY <1>1 DEF Proc
    <3> HIDE DEF local
    <3>3. y = local
      BY <3>1, GotoLocal DEF LatestInv, local
    <3>4. x.op = "get" /\ x.pc = "findRow"
      BY <1>5, <1>7, <3>2, <3>3 DEF GetFindRow, At
    <3>5. v \in LatestOf(x.bucket, x.key)
      BY <3>1, <3>4 DEF Candidates, FindLatest
    <3>6. row[v].created = newest[<<x.bucket, x.key>>]
      BY <3>5 DEF LatestInv, LatestIsNewest, LatestOf, RowsOf
    <3>7. /\ x.floor <= newest[<<x.bucket, x.key>>]
          /\ newest[<<x.bucket, x.key>>] \in Nat /\ x.floor \in Nat
      BY <1>1, <1>3, <3>4 DEF ReadInv, Proc
    <3>. QED
      BY <3>2, <3>3, <3>6, <3>7
  <2>. QED
    BY <2>1, <2>2
<1>8. CASE GetExists(p)
  <2>1. CASE Finish(p)
    BY <2>1, FinishLocal DEF LatestInv
  <2>2. CASE ~Finish(p)
    <3> DEFINE local == [x EXCEPT !.pc = "open"]
    <3>1. Goto(p, local) /\ x.pc = "exists"
      BY <1>8, <2>2 DEF GetExists, At
    <3>2. /\ local.op = x.op /\ local.pc = "open"
          /\ local.floor = x.floor /\ local.stamp = x.stamp
      BY <1>1 DEF Proc
    <3> HIDE DEF local
    <3>3. y = local
      BY <3>1, GotoLocal DEF LatestInv
    <3>. QED
      BY <1>5, <3>1, <3>2, <3>3 DEF ReadInv
  <2>. QED
    BY <2>1, <2>2
<1>9. CASE p \in Requests /\ Arrive(p)
  <2>1. PICK op, n, k, v, b : Goto(p, Start(op, n, k, v, b))
    BY <1>9 DEF Arrive, ArriveForKey, ArriveForVersion, ArrivePut,
                ArriveDeleteBucket, ArriveCreateBucket
  <2>2. Start(op, n, k, v, b).pc \in {"findBucket", "existsByName"}
    BY DEF Start, Idle
  <2>. QED
    BY <2>1, <2>2, GotoLocal DEF LatestInv
<1>10. CASE \/ PutWriteFails(p) \/ GetOpen(p) \/ Unlink(p) \/ CreateInsert(p)
            \/ DropBucket(p)
  BY <1>10, FinishLocal
  DEF LatestInv, PutWriteFails, GetOpen, Unlink, CreateInsert, DropBucket
<1>11. CASE PutDemote(p) \/ SelectRows(p)
  BY <1>11, EnterControl DEF LatestInv, Held
<1>12. CASE PutInsert(p)
  BY <1>12, FinishLocal DEF LatestInv, PutInsert
<1>13. ASSUME NEW local, Goto(p, local), local.pc \notin {"findRow", "exists", "open"}
       PROVE  y.pc \notin {"findRow", "exists", "open"}
  BY <1>13, GotoLocal DEF LatestInv
<1>14. ASSUME NEW c, c \in {"demote", "unlink", "insertBucket", "dropBucket"}
       PROVE  [x EXCEPT !.pc = c].pc = c
  BY <1>1 DEF Proc
<1>15. CASE PutWrite(p)
  BY <1>13, <1>14, <1>15 DEF PutWrite
<1>16. CASE DeleteRows(p) /\ ~Finish(p)
  BY <1>13, <1>14, <1>16 DEF DeleteRows
<1>17. CASE CreateExists(p) /\ ~Finish(p)
  BY <1>13, <1>14, <1>17 DEF CreateExists
<1>18. CASE DropCount(p) /\ ~Finish(p)
  BY <1>13, <1>14, <1>18 DEF DropCount
<1>19. CASE Finish(p)
  BY <1>19, FinishLocal DEF LatestInv
<1>20. CASE CleanFind(p)
  <2>1. PICK todo : Goto(p, [Idle EXCEPT !.pc = "batch", !.todo = todo])
    BY <1>20 DEF CleanFind
  <2>2. [Idle EXCEPT !.pc = "batch", !.todo = todo].pc = "batch"
    BY DEF Idle
  <2>. QED
    BY <1>13, <2>1, <2>2
<1>21. CASE CleanNext(p)
  <2>1. CASE Goto(p, Idle)
    BY <1>13, <2>1 DEF Idle
  <2>2. ASSUME NEW t, Goto(p, [x EXCEPT !.pc = "select", !.todo = @ \ {t},
                                 !.ver = t[1], !.bucket = t[2], !.key = t[3]])
        PROVE  y.pc = "select"
    <3> DEFINE local == [x EXCEPT !.pc = "select", !.todo = @ \ {t},
                           !.ver = t[1], !.bucket = t[2], !.key = t[3]]
    <3>1. local.pc = "select"
      BY <1>1 DEF Proc
    <3> HIDE DEF local
    <3>. QED
      BY <2>2, <3>1, GotoLocal DEF LatestInv, local
  <2>. QED
    BY <1>21, <2>1, <2>2 DEF CleanNext
<1>. QED
  BY StepCases, <1>6, <1>7, <1>8, <1>9, <1>10, <1>11, <1>12, <1>15, <1>16,
     <1>17, <1>18, <1>19, <1>20, <1>21

LEMMA NextReads ==
    Backend = "sqlite" /\ LatestInv /\ ReadInv /\ [Next]_vars => ReadInv'
<1>. SUFFICES ASSUME Backend = "sqlite", LatestInv, ReadInv, [Next]_vars
              PROVE  ReadInv'
  OBVIOUS
<1>1. ASSUME NEW v \in Versions, Expire(v) PROVE ReadInv'
  BY <1>1 DEF Expire, ReadInv
<1>2. CASE Crash
  <2>1. newest' = newest /\ \A p \in Procs : proc'[p] = Idle \/ proc'[p] = proc[p]
    BY <1>2 DEF Crash
  <2>. QED
    BY <2>1 DEF ReadInv, Idle
<1>3. CASE UNCHANGED vars
  BY <1>3 DEF vars, ReadInv
<1>. QED
  BY <1>1, <1>2, <1>3, NextSteps, StepReads

(* On SQLite a read never returns a version older than the newest one      *)
(* inserted before it looked its bucket up (ObjectService.getObject).      *)
THEOREM ReadsAreNotStale ==
    ASSUME Backend = "sqlite" PROVE Spec => []NoStaleRead
<1>1. Init => LatestInv /\ ReadInv
  <2>1. Init => ReadInv
    BY DEF Init, ReadInv, Idle
  <2>. QED
    BY <2>1, InitLatest
<1>2. LatestInv /\ ReadInv /\ [Next]_vars => (LatestInv /\ ReadInv)'
  BY NextLatest, NextReads
<1>3. LatestInv /\ ReadInv => NoStaleRead
  BY DEF ReadInv, NoStaleRead, Procs
<1>. QED
  BY <1>1, <1>2, <1>3, PTL DEF Spec

-----------------------------------------------------------------------------
(* What a deletion reports *)

(* Between the two statements of hardDelete the SELECT stays up to date. *)
ReportInv ==
    \A p \in Procs : proc[p].pc = "deleteRows" =>
        Matching(proc[p].bucket, proc[p].key, proc[p].ver) \subseteq proc[p].sel

(* Only the process that holds the loop is there, and it has just come. *)
LEMMA StepReports ==
    ASSUME Backend = "sqlite", TypeInv, LoopInv, LoopInv',
           NEW p \in Procs, Step(p)
    PROVE  ReportInv'
<1>. SUFFICES ASSUME NEW q \in Procs, proc'[q].pc = "deleteRows"
              PROVE  Matching(proc[q].bucket, proc[q].key, proc[q].ver)'
                        \subseteq proc'[q].sel
  BY DEF ReportInv
<1>1. loop' = q
  BY DEF LoopInv, Held
<1>2. q = p /\ (PutDemote(p) \/ SelectRows(p))
  BY <1>1, StepCases, FreeStepControl, EnterControl, LeaveControl,
     SentinelAssumption
<1> DEFINE x == proc[p]
<1>3. CASE PutDemote(p)
  <2> DEFINE local == [x EXCEPT !.pc = "insert", !.stamp = clock + 1]
  <2>1. Goto(p, local) /\ local.pc = "insert"
    BY <1>3 DEF PutDemote, TypeInv, TypeOK, Proc
  <2> HIDE DEF local
  <2>. QED
    BY <1>2, <2>1, GotoLocal
<1>4. CASE SelectRows(p)
  <2> DEFINE local == [x EXCEPT !.pc = "deleteRows",
                         !.sel = Matching(x.bucket, x.key, x.ver)]
  <2>1. /\ Goto(p, local) /\ row' = row
        /\ local.sel = Matching(x.bucket, x.key, x.ver)
        /\ local.bucket = x.bucket /\ local.key = x.key /\ local.ver = x.ver
    BY <1>4 DEF SelectRows, TypeInv, TypeOK, Proc
  <2> HIDE DEF local
  <2>2. /\ proc'[p].sel = Matching(x.bucket, x.key, x.ver)
        /\ proc'[p].bucket = x.bucket /\ proc'[p].key = x.key
        /\ proc'[p].ver = x.ver
    BY <2>1, GotoLocal
  <2>. QED
    BY <1>2, <2>1, <2>2 DEF Matching, RowsOf, Stored
<1>. QED
  BY <1>2, <1>3, <1>4

LEMMA NextReports ==
    Backend = "sqlite" /\ TypeInv /\ LoopInv /\ LoopInv' /\ ReportInv /\ [Next]_vars
        => ReportInv'
<1>. SUFFICES ASSUME Backend = "sqlite", TypeInv, LoopInv, LoopInv', ReportInv,
                     [Next]_vars
              PROVE  ReportInv'
  OBVIOUS
<1>1. ASSUME NEW e \in Versions, Expire(e) PROVE ReportInv'
  <2>1. /\ row[e] \in Row /\ proc' = proc
        /\ row' = [row EXCEPT ![e] = [row[e] EXCEPT !.expiry = "past"]]
    BY <1>1 DEF Expire, Stored, TypeInv, TypeOK
  <2>2. NoNewRow
    BY <2>1, SentinelAssumption DEF NoNewRow, Row, TypeInv, TypeOK
  <2>3. \A b, k, v : Matching(b, k, v)' \subseteq Matching(b, k, v)
    BY <2>2 DEF NoNewRow, Matching, RowsOf, Stored
  <2>. QED
    BY <2>1, <2>3 DEF ReportInv
<1>2. CASE Crash
  <2>1. row' = row /\ \A p \in Procs : proc'[p] = Idle \/ proc'[p] = proc[p]
    BY <1>2 DEF Crash
  <2>. QED
    BY <2>1 DEF ReportInv, Idle, Matching, RowsOf, Stored
<1>3. CASE UNCHANGED vars
  BY <1>3 DEF vars, ReportInv, Matching, RowsOf, Stored
<1>. QED
  BY <1>1, <1>2, <1>3, NextSteps, StepReports

(* On SQLite no row disappears in a deletion without its storage key       *)
(* having been returned to the caller that unlinks it, whoever else puts   *)
(* or deletes the key (ObjectRepository.hardDelete).                       *)
THEOREM DeletionsReport ==
    ASSUME Backend = "sqlite" PROVE Spec => DeletedRowsReported
<1> DEFINE Reported ==
      \A p \in Procs :
        (proc[p].pc = "deleteRows" /\ row' # row /\ proc'[p] # proc[p])
            => \A v \in Stored : row'[v] = None => v \in proc[p].sel
<1>1. Init => LatestInv /\ ReportInv
  BY InitLatest DEF Init, ReportInv, Idle
<1>2. LatestInv /\ ReportInv /\ [Next]_vars => (LatestInv /\ ReportInv)'
  BY NextLatest, NextReports DEF LatestInv
<1>3. LatestInv /\ ReportInv /\ [Next]_vars => [Reported]_vars
  <2>. SUFFICES ASSUME LatestInv, ReportInv, [Next]_vars,
                       NEW p \in Procs, proc[p].pc = "deleteRows",
                       row' # row, proc'[p] # proc[p],
                       NEW v \in Stored, row'[v] = None
                PROVE  v \in proc[p].sel
    OBVIOUS
  <2>1. PICK q \in Procs : Step(q)
    BY NextSteps DEF Crash, Expire, vars
  <2>2. loop = p
    BY DEF LatestInv, LoopInv, Held
  <2>3. q = p /\ (PutInsert(p) \/ DeleteRows(p))
    BY <2>1, <2>2, StepCases, FreeStepControl, EnterControl, LeaveControl,
       SentinelAssumption DEF LatestInv
  <2>4. DeleteRows(p)
    BY <2>3 DEF PutInsert, At
  <2>5. v \in Matching(proc[p].bucket, proc[p].key, proc[p].ver)
    BY <2>4 DEF DeleteRows, Stored
  <2>. QED
    BY <2>5 DEF ReportInv
<1>. QED
  BY <1>1, <1>2, <1>3, PTL DEF Spec, DeletedRowsReported

-----------------------------------------------------------------------------
(* The expired-object cleaner, with either database, any number of         *)
(* overlapping runs and any faults.                                        *)

(* A version that no put will insert any more and that, if it is stored,   *)
(* has expired.                                                            *)
Doomed(v) ==
    /\ v \in Versions \cap usedVersions
    /\ \A p \in Procs : proc[p].op = "put" => proc[p].ver # v
    /\ v \in Stored => v \in Expired

(* Everything a cleaner run works on is doomed, however old its list is.   *)
CleanInv ==
    \A c \in Cleaners :
        /\ proc[c].pc \in {"select", "deleteRows"} => Doomed(proc[c].ver)
        /\ \A t \in proc[c].todo : Doomed(t[1])

LEMMA StepFrame ==
    ASSUME TypeInv, NEW p \in Procs, Step(p)
    PROVE  \A q \in Procs : q # p => proc'[q] = proc[q]
<1>1. \E local : Goto(p, local)
  BY StepCases
  DEF Finish, Arrive, ArriveForKey, ArriveForVersion, ArrivePut,
      ArriveDeleteBucket, ArriveCreateBucket, FindBucket, PutWrite,
      PutWriteFails, GetFindRow, GetExists, GetOpen, Unlink, CleanFind,
      CleanNext, CreateExists, CreateInsert, DropCount, DropBucket,
      PutDemote, SelectRows, PutInsert, DeleteRows
<1>. QED
  BY <1>1, GotoLocal

(* Only an arriving put takes up a version, and a new one. *)
LEMMA PutOrigin ==
    ASSUME DataInv, NEW p \in Procs, Step(p), proc'[p].op = "put"
    PROVE  \/ proc'[p].ver \notin usedVersions
           \/ proc[p].op = "put" /\ proc'[p].ver = proc[p].ver
<1> DEFINE x == proc[p]
<1>. TypeInv /\ x \in Proc
  BY DEF DataInv, TypeInv, TypeOK
<1>1. ASSUME NEW local, Goto(p, local) PROVE proc'[p] = local
  BY <1>1, GotoLocal
<1>2. ~Finish(p)
  BY FinishLocal, SentinelAssumption DEF AllOps
<1>3. CASE p \in Requests /\ Arrive(p)
  <2>1. CASE ArrivePut(p)
    <3>1. PICK op, n, k, v : Goto(p, Start(op, n, k, v, None)) /\ v \notin usedVersions
      BY <2>1 DEF ArrivePut
    <3>2. Start(op, n, k, v, None).ver = v
      BY DEF Start, Idle
    <3>. QED
      BY <1>1, <3>1, <3>2
  <2>2. CASE ~ArrivePut(p)
    <3>1. \E op, n, k, v, b : op # "put" /\ Goto(p, Start(op, n, k, v, b))
      BY <1>3, <2>2 DEF Arrive, ArriveForKey, ArriveForVersion,
                        ArriveDeleteBucket, ArriveCreateBucket
    <3>2. \A op, n, k, v, b : Start(op, n, k, v, b).op = op
      BY DEF Start, Idle
    <3>. QED
      BY <1>1, <3>1, <3>2
  <2>. QED
    BY <2>1, <2>2
<1>4. ASSUME NEW local, local.op = x.op, local.ver = x.ver, Goto(p, local)
      PROVE  x.op = "put" /\ proc'[p].ver = x.ver
  BY <1>1, <1>4
<1>5. ASSUME x.pc \notin {"findBucket", "write", "demote", "insert"}
      PROVE  x.op # "put"
  BY <1>5 DEF DataInv, PutInv
<1>6. CASE FindBucket(p) \/ PutWrite(p) \/ PutDemote(p)
  <2>1. CASE FindBucket(p)
    <3> DEFINE b == bucket[x.name]
               local == [x EXCEPT !.pc = AfterFindBucket(x.op), !.bucket = b,
                                  !.floor = IF x.op = "get"
                                            THEN newest[<<b, x.key>>] ELSE 0]
    <3>1. Goto(p, local)
      BY <1>2, <2>1 DEF FindBucket
    <3>2. local.op = x.op /\ local.ver = x.ver
      BY DEF Proc
    <3>. QED
      BY <1>4, <3>1, <3>2
  <2>2. CASE PutWrite(p)
    <3> DEFINE local == [x EXCEPT !.pc = "demote"]
    <3>1. Goto(p, local) /\ local.op = x.op /\ local.ver = x.ver
      BY <2>2 DEF PutWrite, Proc
    <3>. QED
      BY <1>4, <3>1
  <2>3. CASE PutDemote(p)
    <3> DEFINE local == [x EXCEPT !.pc = "insert", !.stamp = clock + 1]
    <3>1. Goto(p, local) /\ local.op = x.op /\ local.ver = x.ver
      BY <2>3 DEF PutDemote, Proc
    <3>. QED
      BY <1>4, <3>1
  <2>. QED
    BY <1>6, <2>1, <2>2, <2>3
<1>7. CASE \/ PutWriteFails(p) \/ PutInsert(p) \/ GetOpen(p) \/ Unlink(p)
           \/ CreateInsert(p) \/ DropBucket(p)
  BY <1>2, <1>7 DEF PutWriteFails, PutInsert, GetOpen, Unlink, CreateInsert,
                    DropBucket
<1>8. CASE \/ GetFindRow(p) \/ GetExists(p) \/ SelectRows(p) \/ DeleteRows(p)
           \/ CreateExists(p) \/ DropCount(p) \/ CleanNext(p)
  <2>1. x.op # "put"
    BY <1>5, <1>8 DEF GetFindRow, GetExists, SelectRows, DeleteRows,
                      CreateExists, DropCount, CleanNext, At
  <2>2. ASSUME NEW local, local.op = x.op PROVE ~Goto(p, local)
    BY <1>1, <2>1, <2>2
  <2>3. ~Goto(p, Idle)
    BY <1>1, SentinelAssumption DEF Idle, AllOps
  <2>4. \A pc : [x EXCEPT !.pc = pc].op = x.op
    BY DEF Proc
  <2>5. \A pc, v, s : [x EXCEPT !.pc = pc, !.ver = v, !.stamp = s].op = x.op
    BY DEF Proc
  <2>6. \A pc, sel : [x EXCEPT !.pc = pc, !.sel = sel].op = x.op
    BY DEF Proc
  <2>7. CASE GetFindRow(p)
    <3>1. PICK v : Goto(p, [x EXCEPT !.pc = "exists", !.ver = v,
                                     !.stamp = row[v].created])
      BY <1>2, <2>7 DEF GetFindRow
    <3> DEFINE local == [x EXCEPT !.pc = "exists", !.ver = v,
                                  !.stamp = row[v].created]
    <3>2. local.op = x.op
      BY DEF Proc
    <3>. HIDE DEF local
    <3>. QED
      BY <2>2, <3>1, <3>2 DEF local
  <2>8. CASE SelectRows(p)
    BY <2>2, <2>6, <2>8 DEF SelectRows
  <2>9. CASE CleanNext(p)
    <3>1. \A t : [x EXCEPT !.pc = "select", !.todo = @ \ {t}, !.ver = t[1],
                           !.bucket = t[2], !.key = t[3]].op = x.op
      BY DEF Proc
    <3>. QED
      BY <2>2, <2>3, <2>9, <3>1 DEF CleanNext
  <2>10. CASE GetExists(p) \/ DeleteRows(p) \/ CreateExists(p) \/ DropCount(p)
    BY <1>2, <2>2, <2>4, <2>10 DEF GetExists, DeleteRows, CreateExists, DropCount
  <2>. QED
    BY <1>8, <2>7, <2>8, <2>9, <2>10
<1>9. CASE CleanFind(p)
  <2>1. \A todo : [Idle EXCEPT !.pc = "batch", !.todo = todo].op # "put"
    BY SentinelAssumption DEF Idle, AllOps
  <2>. QED
    BY <1>1, <1>9, <2>1 DEF CleanFind
<1>. QED
  BY <1>3, <1>6, <1>7, <1>8, <1>9, StepCases

(* Only a put gives a version a row, and no step but the passing of time   *)
(* changes the expiry of one.                                              *)
LEMMA StepExpiry ==
    ASSUME TypeInv, NEW p \in Procs, Step(p)
    PROVE  \A v \in Versions : row'[v] # None =>
             \/ row[v] # None /\ row'[v].expiry = row[v].expiry
             \/ proc[p].op = "put" /\ proc[p].ver = v
<1>1. CASE UNCHANGED row
  BY <1>1
<1>2. CASE PutDemote(p)
  BY <1>2 DEF PutDemote, Demoted, LatestOf, RowsOf, Stored, Row, TypeInv, TypeOK
<1>3. CASE PutInsert(p)
  <2>1. proc[p].op = "put"
    BY <1>3 DEF PutInsert, At, TypeInv, WellFormed
  <2>2. row' = row \/ \E e : row' = [row EXCEPT ![proc[p].ver] = NewRow(proc[p], e)]
    BY <1>3 DEF PutInsert
  <2>. QED
    BY <2>1, <2>2 DEF TypeInv, TypeOK
<1>4. CASE DeleteRows(p) \/ DropBucket(p)
  BY <1>4 DEF DeleteRows, DropBucket, WithoutBucket
<1>. QED
  BY <1>1, <1>2, <1>3, <1>4, StepCases
  DEF Arrive, ArriveForKey, ArriveForVersion, ArrivePut,
      ArriveDeleteBucket, ArriveCreateBucket, FindBucket, PutWrite,
      PutWriteFails, GetFindRow, GetExists, GetOpen, Unlink, CleanFind,
      CleanNext, CreateExists, CreateInsert, DropCount, SelectRows

LEMMA UsedVersionsGrow ==
    ASSUME [Next]_vars PROVE usedVersions \subseteq usedVersions'
<1>1. ASSUME NEW p \in Procs, Step(p) PROVE usedVersions \subseteq usedVersions'
  BY <1>1, StepCases
  DEF Arrive, ArriveForKey, ArriveForVersion, ArrivePut,
      ArriveDeleteBucket, ArriveCreateBucket, FindBucket, PutWrite,
      PutWriteFails, GetFindRow, GetExists, GetOpen, Unlink, CleanFind,
      CleanNext, CreateExists, CreateInsert, DropCount, SelectRows,
      PutDemote, PutInsert, DeleteRows, DropBucket
<1>. QED
  BY <1>1, NextSteps DEF Expire, Crash, vars

(* A doomed version stays so: nobody can store it again, with a new expiry.*)
LEMMA DoomedStays ==
    ASSUME DataInv, [Next]_vars, NEW v, Doomed(v) PROVE Doomed(v)'
<1>. TypeInv /\ v \in Versions
  BY DEF DataInv, Doomed
<1>1. v \in usedVersions'
  BY UsedVersionsGrow DEF Doomed
<1>2. ASSUME NEW p \in Procs, Step(p) PROVE Doomed(v)'
  <2>1. ASSUME NEW q \in Procs, proc'[q].op = "put" PROVE proc'[q].ver # v
    <3>1. CASE q = p
      BY <1>2, <2>1, <3>1, PutOrigin DEF Doomed
    <3>2. CASE q # p
      BY <1>2, <2>1, <3>2, StepFrame DEF Doomed
    <3>. QED
      BY <3>1, <3>2
  <2>2. v \in Stored' => v \in Expired'
    BY <1>2, StepExpiry DEF Doomed, Stored, Expired
  <2>. QED
    BY <1>1, <2>1, <2>2 DEF Doomed
<1>3. ASSUME NEW e \in Versions, Expire(e) PROVE Doomed(v)'
  <2>1. /\ row[e] \in Row /\ proc' = proc
        /\ row' = [row EXCEPT ![e] = [row[e] EXCEPT !.expiry = "past"]]
    BY <1>3 DEF Expire, Stored, TypeInv, TypeOK
  <2>2. v \in Stored' => v \in Expired'
    <3>1. v = e => row'[v].expiry = "past"
      BY <2>1 DEF Row, TypeInv, TypeOK
    <3>2. v # e => row'[v] = row[v]
      BY <2>1 DEF TypeInv, TypeOK
    <3>3. e \in Stored
      BY <1>3 DEF Expire
    <3>. QED
      BY <3>1, <3>2, <3>3 DEF Doomed, Stored, Expired
  <2>. QED
    BY <1>1, <2>1, <2>2 DEF Doomed
<1>4. CASE Crash
  <2>1. /\ row' = row /\ Idle.op # "put"
        /\ \A p \in Procs : proc'[p] = Idle \/ proc'[p] = proc[p]
    BY <1>4, SentinelAssumption DEF Crash, Idle, AllOps
  <2>. QED
    BY <1>1, <2>1 DEF Doomed, Stored, Expired
<1>5. CASE UNCHANGED vars
  BY <1>5 DEF vars, Doomed, Stored, Expired
<1>. QED
  BY <1>2, <1>3, <1>4, <1>5, NextSteps

-----------------------------------------------------------------------------
(* The list of a cleaner run *)

(* What findExpired returns is doomed at once. *)
LEMMA ExpiredDoomed ==
    ASSUME DataInv, NEW v \in Expired PROVE Doomed(v)
  BY DEF DataInv, StoredInv, PutInv, Expired, Stored, Doomed

(* A step of a cleaner takes what it works on from its list, and its list  *)
(* from the expired rows.                                                  *)
LEMMA CleanerOrigin ==
    ASSUME TypeInv, NEW c \in Cleaners, Step(c)
    PROVE  /\ \A t \in proc'[c].todo : t \in proc[c].todo \/ t[1] \in Expired
           /\ proc'[c].pc \in {"select", "deleteRows"} =>
                \/ \E t \in proc[c].todo : proc'[c].ver = t[1]
                \/ proc[c].pc = "select" /\ proc'[c].ver = proc[c].ver
<1> DEFINE x == proc[c]
<1>. c \in Procs /\ c \notin Requests /\ x \in Proc
  BY ConstantsAssumption DEF Procs, TypeInv, TypeOK
<1> DEFINE batch == [Idle EXCEPT !.pc = "batch", !.todo = x.todo]
<1>1. batch.pc = "batch" /\ batch.todo = x.todo
  BY DEF Idle
<1>2. Idle.pc = "idle" /\ Idle.todo = {}
  BY DEF Idle
<1>3. ASSUME NEW local, Goto(c, local) PROVE proc'[c] = local
  BY <1>3, GotoLocal
<1>4. CASE Finish(c)
  <2>1. proc'[c] = batch
    BY <1>3, <1>4 DEF Finish
  <2>. QED
    BY <1>1, <2>1
<1>5. CASE CleanFind(c)
  <2>1. PICK found \in SUBSET Expired :
            Goto(c, [Idle EXCEPT
                      !.pc = "batch",
                      !.todo = {<<v, row[v].bucket, row[v].key>> : v \in found}])
    BY <1>5 DEF CleanFind
  <2> DEFINE list == {<<v, row[v].bucket, row[v].key>> : v \in found}
             local == [Idle EXCEPT !.pc = "batch", !.todo = list]
  <2>2. local.pc = "batch" /\ local.todo = list
    BY DEF Idle
  <2>3. \A t \in list : t[1] \in Expired
    OBVIOUS
  <2>. HIDE DEF list
  <2>4. proc'[c] = local
    BY <1>3, <2>1 DEF list
  <2>. QED
    BY <2>2, <2>3, <2>4
<1>6. CASE CleanNext(c)
  <2>1. CASE Goto(c, Idle)
    BY <1>2, <1>3, <2>1
  <2>2. ASSUME NEW t \in x.todo,
               Goto(c, [x EXCEPT !.pc = "select", !.todo = @ \ {t},
                          !.ver = t[1], !.bucket = t[2], !.key = t[3]])
        PROVE  proc'[c].todo \subseteq x.todo /\ proc'[c].ver = t[1]
    <3> DEFINE local == [x EXCEPT !.pc = "select", !.todo = @ \ {t},
                           !.ver = t[1], !.bucket = t[2], !.key = t[3]]
    <3>1. local.todo = x.todo \ {t} /\ local.ver = t[1]
      BY DEF Proc
    <3>2. proc'[c] = local
      BY <1>3, <2>2
    <3>. QED
      BY <3>1, <3>2
  <2>. QED
    BY <1>6, <2>1, <2>2 DEF CleanNext
<1>7. CASE SelectRows(c)
  <2> DEFINE local == [x EXCEPT !.pc = "deleteRows",
                         !.sel = Matching(x.bucket, x.key, x.ver)]
  <2>1. local.todo = x.todo /\ local.ver = x.ver
    BY DEF Proc
  <2>2. proc'[c] = local /\ x.pc = "select"
    BY <1>3, <1>7 DEF SelectRows, At
  <2>. QED
    BY <2>1, <2>2
<1>8. CASE DeleteRows(c) /\ ~Finish(c)
  <2> DEFINE local == [x EXCEPT !.pc = "unlink"]
  <2>1. local.todo = x.todo /\ local.pc = "unlink"
    BY DEF Proc
  <2>2. proc'[c] = local
    BY <1>3, <1>8 DEF DeleteRows
  <2>. QED
    BY <2>1, <2>2
<1>9. CASE Unlink(c)
  BY <1>4, <1>9 DEF Unlink
<1>. QED
  BY <1>4, <1>5, <1>6, <1>7, <1>8, <1>9 DEF Step, CleanerStep

LEMMA NextClean == DataInv /\ CleanInv /\ [Next]_vars => CleanInv'
<1>. SUFFICES ASSUME DataInv, CleanInv, [Next]_vars, NEW c \in Cleaners
              PROVE  (/\ proc[c].pc \in {"select", "deleteRows"}
                           => Doomed(proc[c].ver)
                      /\ \A t \in proc[c].todo : Doomed(t[1]))'
  BY DEF CleanInv
<1>. TypeInv /\ c \in Procs
  BY DEF DataInv, Procs
<1> DEFINE Kept == /\ proc'[c].todo \subseteq proc[c].todo
                   /\ proc'[c].pc \in {"select", "deleteRows"} =>
                        /\ proc[c].pc = proc'[c].pc
                        /\ proc[c].ver = proc'[c].ver
<1>1. CASE Kept
  BY <1>1, DoomedStays DEF CleanInv
<1>2. ASSUME NEW p \in Procs, Step(p), p # c PROVE Kept
  BY <1>2, StepFrame
<1>3. CASE Step(c)
  <2>1. \A t \in proc'[c].todo : Doomed(t[1])'
    BY <1>3, CleanerOrigin, ExpiredDoomed, DoomedStays DEF CleanInv
  <2>2. proc'[c].pc \in {"select", "deleteRows"} => Doomed(proc'[c].ver)
    BY <1>3, CleanerOrigin DEF CleanInv
  <2>3. Doomed(proc'[c].ver) => Doomed(proc[c].ver)'
    BY DoomedStays DEF Doomed
  <2>. QED
    BY <2>1, <2>2, <2>3
<1>4. CASE (\E v \in Versions : Expire(v)) \/ Crash \/ UNCHANGED vars
  <2>1. proc'[c] = proc[c] \/ proc'[c] = Idle
    BY <1>4 DEF Expire, Crash, vars
  <2>2. Idle.todo = {} /\ Idle.pc = "idle"
    BY DEF Idle
  <2>. QED
    BY <1>1, <2>1, <2>2
<1>. QED
  BY <1>1, <1>2, <1>3, <1>4, NextSteps

(* No run of the cleaner deletes a row that has not expired, however old   *)
(* the list it works from, whatever requests, other runs, crashes and      *)
(* failures come between findExpired and hardDelete, with either database: *)
(* hardDelete names the version, a version is inserted at most once, and   *)
(* nothing postpones an expiry (CleanupService.cleanExpiredObjects).       *)
THEOREM CleanersSpareLive == Spec => CleanerSparesLive
<1> DEFINE Spares ==
      \A c \in Cleaners :
        (proc[c].pc = "deleteRows" /\ row' # row /\ proc'[c] # proc[c])
            => \A v \in Stored : row'[v] = None => v \in Expired
<1>1. Init => DataInv /\ CleanInv
  BY InitData DEF Init, CleanInv, Procs, Idle
<1>2. DataInv /\ CleanInv /\ [Next]_vars => (DataInv /\ CleanInv)'
  BY NextData, NextClean
<1>3. DataInv /\ CleanInv /\ [Next]_vars => [Spares]_vars
  <2>. SUFFICES ASSUME DataInv, CleanInv, [Next]_vars,
                       NEW c \in Cleaners, proc[c].pc = "deleteRows",
                       row' # row, proc'[c] # proc[c],
                       NEW v \in Stored, row'[v] = None
                PROVE  v \in Expired
    OBVIOUS
  <2>1. c \in Procs /\ TypeInv
    BY DEF DataInv, Procs
  <2>2. PICK p \in Procs : Step(p)
    BY NextSteps DEF Crash, Expire, vars
  <2>3. p = c
    BY <2>1, <2>2, StepFrame
  <2>4. DeleteRows(c)
    BY <2>1, <2>2, <2>3, ConstantsAssumption
    DEF Step, CleanerStep, CleanFind, CleanNext, SelectRows, Unlink, At
  <2>5. v \in Matching(proc[c].bucket, proc[c].key, proc[c].ver)
    BY <2>4 DEF DeleteRows, Stored
  <2>6. Doomed(proc[c].ver)
    BY DEF CleanInv
  <2>7. v = proc[c].ver
    BY <2>5, <2>6, SentinelAssumption DEF Matching, Doomed
  <2>. QED
    BY <2>6, <2>7 DEF Doomed
<1>. QED
  BY <1>1, <1>2, <1>3, PTL DEF Spec, CleanerSparesLive

-----------------------------------------------------------------------------
(* What no operation leaks on SQLite, as long as nothing fails and no      *)
(* bucket is deleted: those two are how storage does leak.                 *)

Reliable ==
    /\ Backend = "sqlite" /\ Faults = {}
    /\ Ops \cap {"deleteBucket", "forceDeleteBucket"} = {}

(* A request that deletes no bucket, and whose bucket, once it puts into   *)
(* it, is there to stay.                                                   *)
KeepsBuckets(x) ==
    /\ x.pc = "findBucket"
        => x.op \in {"put", "get", "getVersion", "delete", "deleteVersion"}
    /\ x.pc \notin {"count", "dropBucket"}
    /\ x.pc \in {"write", "demote", "insert"} => x.bucket \in LiveBuckets

BucketsKept == \A p \in Procs : KeepsBuckets(proc[p])

(* v has no row yet, or none any more, and x is about to change that.      *)
Covers(x, v) ==
    \/ x.pc \in {"demote", "insert"} /\ x.ver = v
    \/ x.pc = "unlink" /\ v \in x.sel

BlobInv == \A v \in blobs : v \in Stored \/ \E p \in Procs : Covers(proc[p], v)

(* The control of one step, as far as KeepsBuckets and Covers go.          *)
LEMMA StepKeeps ==
    ASSUME Reliable, TypeInv, BucketsKept, NEW p \in Procs, Step(p)
    PROVE  BucketsKept' /\ ~DropCount(p) /\ ~DropBucket(p)
<1> DEFINE x == proc[p]
           y == proc'[p]
<1>1. x \in Proc /\ WellFormed(x) /\ KeepsBuckets(x)
  BY DEF TypeInv, TypeOK, BucketsKept
<1>2. ~DropCount(p) /\ ~DropBucket(p)
  BY <1>1 DEF DropCount, DropBucket, At, KeepsBuckets
<1>. SUFFICES BucketsKept'
  BY <1>2
<1>3. LiveBuckets \subseteq LiveBuckets'
  <2>1. CASE CreateInsert(p)
    <3>1. x.name \in Names
      BY <1>1, <2>1 DEF CreateInsert, At, WellFormed
    <3>2. \A n \in Names : bucket[n] # None => bucket'[n] = bucket[n]
      BY <2>1, <3>1 DEF CreateInsert, TypeInv, TypeOK
    <3>. QED
      BY <3>2, SentinelAssumption DEF LiveBuckets
  <2>2. CASE ~CreateInsert(p)
    <3>1. bucket' = bucket
      BY <1>2, <2>2, StepCases
      DEF Arrive, ArriveForKey, ArriveForVersion, ArrivePut, ArriveDeleteBucket,
          ArriveCreateBucket, FindBucket, PutWrite, PutWriteFails, GetFindRow,
          GetExists, GetOpen, Unlink, CleanFind, CleanNext, CreateExists,
          PutDemote, SelectRows, PutInsert, DeleteRows
    <3>. QED
      BY <3>1 DEF LiveBuckets
  <2>. QED
    BY <2>1, <2>2
<1>4. ASSUME KeepsBuckets(x)' PROVE BucketsKept'
  <2>1. \A q \in Procs : q # p => proc'[q] = proc[q]
    BY StepFrame
  <2>. QED
    BY <1>3, <1>4, <2>1 DEF BucketsKept, KeepsBuckets
<1>5. ASSUME NEW local, Goto(p, local),
             local.pc \in PC \ {"findBucket", "count", "dropBucket", "write",
                                "demote", "insert"}
      PROVE  BucketsKept'
  <2>1. y = local
    BY <1>5, GotoLocal
  <2>. QED
    BY <1>4, <1>5, <2>1 DEF KeepsBuckets
<1>6. CASE Finish(p)
  <2>1. y.pc \in {"idle", "batch"}
    BY <1>6, FinishLocal
  <2>. QED
    BY <1>4, <2>1 DEF KeepsBuckets
<1>7. ASSUME NEW c \in PC
      PROVE  [x EXCEPT !.pc = c].pc = c /\ [x EXCEPT !.pc = c].bucket = x.bucket
  BY <1>1 DEF Proc
<1>8. CASE p \in Requests /\ Arrive(p)
  <2>1. PICK op \in AllOps \ {"deleteBucket", "forceDeleteBucket"}, n \in Names,
             k \in Keys \cup {None}, v \in Versions \cup {None},
             b \in BucketIds \cup {None} :
            Goto(p, Start(op, n, k, v, b))
    BY <1>8, ConstantsAssumption
    DEF Reliable, TypeInv, TypeOK, Arrive, ArriveForKey, ArriveForVersion, ArrivePut,
        ArriveDeleteBucket, ArriveCreateBucket
  <2> DEFINE local == Start(op, n, k, v, b)
  <2>2. /\ local.op = op
        /\ local.pc = IF op = "createBucket" THEN "existsByName" ELSE "findBucket"
    BY DEF Start, Idle
  <2>3. y = local
    BY <2>1, GotoLocal
  <2> HIDE DEF local
  <2>4. KeepsBuckets(x)'
    BY <2>1, <2>2, <2>3 DEF KeepsBuckets, AllOps
  <2>. QED
    BY <1>4, <2>4
<1>9. CASE FindBucket(p) /\ ~Finish(p)
  <2> DEFINE b == bucket[x.name]
             after == [x EXCEPT !.pc = AfterFindBucket(x.op), !.bucket = b,
                                !.floor = IF x.op = "get"
                                          THEN newest[<<b, x.key>>] ELSE 0]
  <2>1. b # None /\ Goto(p, after) /\ bucket' = bucket /\ x.pc = "findBucket"
    BY <1>9 DEF FindBucket, At
  <2>2. x.name \in Names
    BY <1>1, <2>1 DEF WellFormed
  <2>3. b \in LiveBuckets
    BY <2>1, <2>2 DEF LiveBuckets, TypeInv, TypeOK
  <2>4. AfterFindBucket(x.op) \in {"write", "findRow", "select"}
    BY <1>1, <2>1 DEF KeepsBuckets, AfterFindBucket
  <2>5. after.pc \in {"write", "findRow", "select"} /\ after.bucket = b
    BY <1>1, <2>4 DEF Proc
  <2>6. y = after
    BY <2>1, GotoLocal
  <2> HIDE DEF after
  <2>7. LiveBuckets' = LiveBuckets
    BY <2>1 DEF LiveBuckets
  <2>. QED
    BY <1>4, <2>3, <2>5, <2>6, <2>7 DEF KeepsBuckets
<1>10. ASSUME NEW local, Goto(p, local), x.pc \in {"write", "demote"},
              local.pc \in {"demote", "insert"}, local.bucket = x.bucket
       PROVE  BucketsKept'
  <2>1. y = local /\ x.bucket \in LiveBuckets'
    BY <1>1, <1>3, <1>10, GotoLocal DEF KeepsBuckets
  <2>. QED
    BY <1>4, <1>10, <2>1 DEF KeepsBuckets
<1>11. CASE PutWrite(p)
  BY <1>7, <1>10, <1>11 DEF PutWrite, At, PC
<1>12. CASE PutDemote(p)
  <2> DEFINE local == [x EXCEPT !.pc = "insert", !.stamp = clock + 1]
  <2>1. Goto(p, local) /\ local.pc = "insert" /\ local.bucket = x.bucket
    BY <1>1, <1>12 DEF PutDemote, Proc
  <2>2. x.pc = "demote"
    BY <1>12 DEF PutDemote, At
  <2> HIDE DEF local
  <2>. QED
    BY <1>10, <2>1, <2>2
<1>13. CASE GetFindRow(p) /\ ~Finish(p)
  <2>1. PICK v : Goto(p, [x EXCEPT !.pc = "exists", !.ver = v,
                                   !.stamp = row[v].created])
    BY <1>13 DEF GetFindRow
  <2> DEFINE local == [x EXCEPT !.pc = "exists", !.ver = v,
                                !.stamp = row[v].created]
  <2>2. local.pc = "exists" /\ Goto(p, local)
    BY <1>1, <2>1 DEF Proc
  <2> HIDE DEF local
  <2>. QED
    BY <1>5, <2>2 DEF PC
<1>14. CASE GetExists(p) /\ ~Finish(p)
  BY <1>5, <1>7, <1>14 DEF GetExists, PC
<1>15. CASE CreateExists(p) /\ ~Finish(p)
  BY <1>5, <1>7, <1>15 DEF CreateExists, PC
<1>16. CASE DeleteRows(p) /\ ~Finish(p)
  BY <1>5, <1>7, <1>16 DEF DeleteRows, PC
<1>17. CASE SelectRows(p)
  <2> DEFINE local == [x EXCEPT !.pc = "deleteRows",
                         !.sel = Matching(x.bucket, x.key, x.ver)]
  <2>1. Goto(p, local) /\ local.pc = "deleteRows"
    BY <1>1, <1>17 DEF SelectRows, Proc
  <2> HIDE DEF local
  <2>. QED
    BY <1>5, <2>1 DEF PC
<1>18. CASE CleanFind(p)
  <2>1. PICK todo : Goto(p, [Idle EXCEPT !.pc = "batch", !.todo = todo])
    BY <1>18 DEF CleanFind
  <2>2. [Idle EXCEPT !.pc = "batch", !.todo = todo].pc = "batch"
    BY DEF Idle
  <2>. QED
    BY <1>5, <2>1, <2>2 DEF PC
<1>19. CASE CleanNext(p)
  <2>1. CASE Goto(p, Idle)
    BY <1>5, <2>1 DEF Idle, PC
  <2>2. ASSUME NEW t, Goto(p, [x EXCEPT !.pc = "select", !.todo = @ \ {t},
                                 !.ver = t[1], !.bucket = t[2], !.key = t[3]])
        PROVE  BucketsKept'
    <3> DEFINE local == [x EXCEPT !.pc = "select", !.todo = @ \ {t},
                           !.ver = t[1], !.bucket = t[2], !.key = t[3]]
    <3>1. Goto(p, local) /\ local.pc = "select"
      BY <1>1, <2>2 DEF Proc
    <3> HIDE DEF local
    <3>. QED
      BY <1>5, <3>1 DEF PC
  <2>. QED
    BY <1>19, <2>1, <2>2 DEF CleanNext
<1>20. CASE \/ PutWriteFails(p) \/ GetOpen(p) \/ Unlink(p) \/ CreateInsert(p)
            \/ PutInsert(p)
  BY <1>6, <1>20 DEF PutWriteFails, GetOpen, Unlink, CreateInsert, PutInsert
<1>. QED
  BY StepCases, <1>2, <1>6, <1>8, <1>9, <1>11, <1>12, <1>13, <1>14, <1>15,
     <1>16, <1>17, <1>18, <1>19, <1>20

(* Every blob stays accounted for: what p leaves behind has a row or is    *)
(* p's to change, and the rest is none of p's business.                    *)
LEMMA BlobsCovered ==
    ASSUME TypeInv, BlobInv, NEW p \in Procs, Step(p),
           \A v \in blobs' : \/ v \in Stored' \/ Covers(proc'[p], v)
                             \/ /\ v \in blobs /\ v \notin Stored
                                /\ ~Covers(proc[p], v)
    PROVE  BlobInv'
<1>1. \A q \in Procs : q # p => proc'[q] = proc[q]
  BY StepFrame
<1>2. SUFFICES ASSUME NEW v \in blobs', v \notin Stored', ~Covers(proc'[p], v)
               PROVE  \E q \in Procs : Covers(proc'[q], v)
  BY DEF BlobInv
<1>3. v \in blobs /\ v \notin Stored /\ ~Covers(proc[p], v)
  BY <1>2
<1>4. PICK q \in Procs : Covers(proc[q], v)
  BY <1>3 DEF BlobInv
<1>. QED
  BY <1>1, <1>3, <1>4

LEMMA StepCovers ==
    ASSUME Reliable, TypeInv, BucketsKept, ReportInv, BlobInv,
           NEW p \in Procs, Step(p)
    PROVE  BlobInv'
<1> DEFINE x == proc[p]
           y == proc'[p]
<1>1. x \in Proc /\ WellFormed(x) /\ KeepsBuckets(x)
  BY DEF TypeInv, TypeOK, BucketsKept
<1>2. ASSUME blobs' = blobs, row' = row, x.pc \notin {"demote", "insert", "unlink"}
      PROVE  BlobInv'
  BY <1>2, BlobsCovered DEF Covers, Stored
<1>3. CASE PutWrite(p)
  <2> DEFINE local == [x EXCEPT !.pc = "demote"]
  <2>1. /\ Goto(p, local) /\ local.pc = "demote" /\ local.ver = x.ver
        /\ blobs' = blobs \cup {x.ver} /\ row' = row /\ x.pc = "write"
    BY <1>1, <1>3 DEF PutWrite, At, Proc
  <2> HIDE DEF local
  <2>2. y.pc = "demote" /\ y.ver = x.ver
    BY <2>1, GotoLocal
  <2>. QED
    BY <2>1, <2>2, BlobsCovered DEF Covers, Stored
<1>4. CASE PutDemote(p)
  <2> DEFINE local == [x EXCEPT !.pc = "insert", !.stamp = clock + 1]
  <2>1. /\ Goto(p, local) /\ local.pc = "insert" /\ local.ver = x.ver
        /\ blobs' = blobs /\ x.pc = "demote"
    BY <1>1, <1>4 DEF PutDemote, At, Proc
  <2> HIDE DEF local
  <2>2. y.pc = "insert" /\ y.ver = x.ver
    BY <2>1, GotoLocal
  <2>3. \A v \in Stored : row'[v] # None
    <3>1. \A v \in Stored : row[v] \in Row
      BY DEF Stored, TypeInv, TypeOK
    <3>2. \A v \in Stored : row'[v] = row[v] \/ row'[v] = [row[v] EXCEPT !.latest = FALSE]
      BY <1>4 DEF PutDemote, Demoted, Stored
    <3>3. \A v \in Stored : [row[v] EXCEPT !.latest = FALSE] \in Row
      BY <3>1 DEF Row
    <3>. QED
      BY <3>1, <3>2, <3>3, SentinelAssumption
  <2>4. Stored \subseteq Stored'
    BY <2>3 DEF Stored
  <2>. QED
    BY <2>1, <2>2, <2>4, BlobsCovered DEF Covers
<1>5. CASE PutInsert(p)
  <2>1. x.pc = "insert" /\ blobs' = blobs
    BY <1>5 DEF PutInsert, At
  <2>2. x.bucket \in LiveBuckets /\ x.ver \in Versions /\ x.key \in Keys
    BY <1>1, <2>1 DEF KeepsBuckets, WellFormed
  <2>3. PICK e \in Expiries : row' = [row EXCEPT ![x.ver] = NewRow(x, e)]
    BY <1>5, <2>2 DEF PutInsert
  <2>4. NewRow(x, e) \in Row
    BY <1>1, <2>2, ConstantsAssumption DEF NewRow, Row, Proc, LiveBuckets
  <2>5. row'[x.ver] # None /\ \A v \in Versions : v # x.ver => row'[v] = row[v]
    BY <2>2, <2>3, <2>4, SentinelAssumption DEF TypeInv, TypeOK
  <2>6. Stored' = Stored \cup {x.ver}
    BY <2>2, <2>5 DEF Stored
  <2>. QED
    BY <2>1, <2>6, BlobsCovered DEF Covers
<1>6. CASE DeleteRows(p)
  <2> DEFINE gone == Matching(x.bucket, x.key, x.ver)
             local == [x EXCEPT !.pc = "unlink"]
  <2>1. x.pc = "deleteRows" /\ blobs' = blobs
    BY <1>6 DEF DeleteRows, At
  <2>2. gone \subseteq x.sel
    BY <2>1 DEF ReportInv
  <2>3. Stored' = Stored \ gone
    BY <1>6 DEF DeleteRows, Stored
  <2> HIDE DEF gone
  <2>4. CASE x.sel = {}
    BY <2>1, <2>2, <2>3, <2>4, BlobsCovered DEF Covers
  <2>5. CASE x.sel # {}
    <3>1. Goto(p, local) /\ local.pc = "unlink" /\ local.sel = x.sel
      BY <1>1, <1>6, <2>5 DEF DeleteRows, Proc
    <3> HIDE DEF local
    <3>2. y.pc = "unlink" /\ y.sel = x.sel
      BY <3>1, GotoLocal
    <3>. QED
      BY <2>1, <2>2, <2>3, <3>2, BlobsCovered DEF Covers
  <2>. QED
    BY <2>4, <2>5
<1>7. CASE Unlink(p)
  <2>1. x.pc = "unlink" /\ blobs' = blobs \ x.sel /\ row' = row
    BY <1>7 DEF Unlink, At, Reliable
  <2>. QED
    BY <2>1, BlobsCovered DEF Covers, Stored
<1>8. CASE p \in Requests /\ Arrive(p)
  <2>1. x.pc = "idle" /\ blobs' = blobs /\ row' = row
    BY <1>8 DEF Arrive, ArriveForKey, ArriveForVersion, ArrivePut,
                ArriveDeleteBucket, ArriveCreateBucket, At
  <2>. QED
    BY <1>2, <2>1
<1>9. CASE \/ FindBucket(p) \/ GetFindRow(p) \/ GetExists(p) \/ GetOpen(p)
           \/ CleanFind(p) \/ CleanNext(p) \/ CreateExists(p)
           \/ CreateInsert(p) \/ SelectRows(p)
  <2>1. /\ blobs' = blobs /\ row' = row
        /\ x.pc \notin {"demote", "insert", "unlink"}
    BY <1>9 DEF FindBucket, GetFindRow, GetExists, GetOpen, CleanFind, CleanNext,
                CreateExists, CreateInsert, SelectRows, At
  <2>. QED
    BY <1>2, <2>1
<1>10. ~PutWriteFails(p)
  BY DEF Reliable, PutWriteFails
<1>. QED
  BY StepCases, StepKeeps, <1>3, <1>4, <1>5, <1>6, <1>7, <1>8, <1>9, <1>10

LEMMA NextCovers ==
    Reliable /\ TypeInv /\ BucketsKept /\ ReportInv /\ BlobInv /\ [Next]_vars
        => (BucketsKept /\ BlobInv)'
<1>. SUFFICES ASSUME Reliable, TypeInv, BucketsKept, ReportInv, BlobInv,
                     [Next]_vars
              PROVE  (BucketsKept /\ BlobInv)'
  OBVIOUS
<1>1. ASSUME NEW e \in Versions, Expire(e) PROVE (BucketsKept /\ BlobInv)'
  <2>1. /\ row[e] \in Row /\ proc' = proc /\ bucket' = bucket /\ blobs' = blobs
        /\ row' = [row EXCEPT ![e] = [row[e] EXCEPT !.expiry = "past"]]
    BY <1>1 DEF Expire, Stored, TypeInv, TypeOK
  <2>2. [row[e] EXCEPT !.expiry = "past"] \in Row
    BY <2>1 DEF Row
  <2>3. Stored' = Stored
    BY <2>1, <2>2, SentinelAssumption DEF Stored, TypeInv, TypeOK
  <2>. QED
    BY <2>1, <2>3 DEF BucketsKept, KeepsBuckets, BlobInv, Covers, LiveBuckets
<1>2. ~Crash
  BY DEF Crash, Reliable
<1>3. CASE UNCHANGED vars
  BY <1>3 DEF vars, BucketsKept, KeepsBuckets, BlobInv, Covers, LiveBuckets, Stored
<1>. QED
  BY <1>1, <1>2, <1>3, NextSteps, StepKeeps, StepCovers

(* On SQLite, when nothing fails and no bucket is deleted, every blob has  *)
(* its row again once no request and no cleaner run is under way: neither  *)
(* putObject nor deleteObject nor cleanExpiredObjects leaks storage,       *)
(* however many of them overlap.                                           *)
THEOREM NoBlobIsOrphaned ==
    ASSUME Reliable PROVE Spec => []NoOrphanBlob
<1>1. Backend = "sqlite"
  BY DEF Reliable
<1>2. Init => LatestInv /\ ReportInv /\ BucketsKept /\ BlobInv
  BY InitLatest DEF Init, ReportInv, BucketsKept, KeepsBuckets, BlobInv, Idle
<1>3. LatestInv /\ ReportInv /\ BucketsKept /\ BlobInv /\ [Next]_vars
        => (LatestInv /\ ReportInv /\ BucketsKept /\ BlobInv)'
  BY <1>1, NextLatest, NextReports, NextCovers DEF LatestInv
<1>4. BlobInv => NoOrphanBlob
  BY DEF BlobInv, NoOrphanBlob, Covers
<1>. QED
  BY <1>2, <1>3, <1>4, PTL DEF Spec

-----------------------------------------------------------------------------
(* On SQLite the store implements VersionIndex: every step of a request,   *)
(* of a cleaner run or of the environment is one operation of the index on *)
(* one object or one bucket, or leaves the index alone.                    *)

Objects == BucketIds \X Keys

(* An object never has two current versions. *)
SingleLatest ==
    \A b \in BucketIds, k \in Keys : \A v, w \in LatestOf(b, k) : v = w

IndexInv == DataInv /\ LatestInv /\ SingleLatest

(* What CurrentVersion stands for when no object has two. *)
CurrentShown ==
    \A x \in Objects :
        /\ LatestOf(x[1], x[2]) = {} => CurrentVersion[x] = None
        /\ \A v \in LatestOf(x[1], x[2]) : CurrentVersion[x] = v

LEMMA CurrentIs == SingleLatest => CurrentShown
<1>. SUFFICES ASSUME SingleLatest, NEW x \in Objects
              PROVE  /\ LatestOf(x[1], x[2]) = {} => CurrentVersion[x] = None
                     /\ \A v \in LatestOf(x[1], x[2]) : CurrentVersion[x] = v
  BY DEF CurrentShown
<1>1. CurrentVersion[x] = IF LatestOf(x[1], x[2]) = {} THEN None
                          ELSE CHOOSE v \in LatestOf(x[1], x[2]) : TRUE
  BY DEF CurrentVersion, Objects
<1>2. \A v, w \in LatestOf(x[1], x[2]) : v = w
  BY DEF SingleLatest, Objects
<1>. QED
  BY <1>1, <1>2

LEMMA LatestAreVersions ==
    \A b, k : LatestOf(b, k) \subseteq RowsOf(b, k) /\ RowsOf(b, k) \subseteq Versions
  BY DEF LatestOf, RowsOf, Stored

-----------------------------------------------------------------------------
(* What a step does to the rows *)

(* The rows of gone are deleted, and the others keep what the index shows. *)
Removes(gone) ==
    \A v \in Versions :
        IF v \in gone THEN row'[v] = None
        ELSE /\ row'[v] = None <=> row[v] = None
             /\ row[v] # None => /\ row'[v].bucket = row[v].bucket
                                 /\ row'[v].key = row[v].key
                                 /\ row'[v].latest = row[v].latest

LEMMA RemovesViews ==
    ASSUME NEW gone, Removes(gone)
    PROVE  \A b, k : /\ RowsOf(b, k)' = RowsOf(b, k) \ gone
                     /\ LatestOf(b, k)' = LatestOf(b, k) \ gone
<1>. TAKE b, k
<1>1. \A v \in Versions : v \in RowsOf(b, k)' <=> v \in RowsOf(b, k) /\ v \notin gone
  BY DEF Removes, RowsOf, Stored
<1>2. \A v \in Versions :
        v \in LatestOf(b, k)' <=> v \in LatestOf(b, k) /\ v \notin gone
  BY <1>1 DEF Removes, LatestOf, RowsOf, Stored
<1>3. /\ RowsOf(b, k) \subseteq Versions /\ RowsOf(b, k)' \subseteq Versions
      /\ LatestOf(b, k) \subseteq Versions /\ LatestOf(b, k)' \subseteq Versions
  BY DEF RowsOf, LatestOf, Stored
<1>. QED
  BY <1>1, <1>2, <1>3

(* The index after a step, object by object. *)
LEMMA SameIndex ==
    ASSUME SingleLatest, SingleLatest', NEW x \in Objects,
           RowsOf(x[1], x[2])' = RowsOf(x[1], x[2]),
           LatestOf(x[1], x[2])' = LatestOf(x[1], x[2])
    PROVE  /\ HeldVersions'[x] = HeldVersions[x]
           /\ CurrentVersion'[x] = CurrentVersion[x]
<1>1. /\ HeldVersions[x] = RowsOf(x[1], x[2])
      /\ HeldVersions'[x] = RowsOf(x[1], x[2])'
  BY DEF HeldVersions, Objects
<1> DEFINE old == LatestOf(x[1], x[2])
           new == LatestOf(x[1], x[2])'
<1>2. /\ old = {} => CurrentVersion[x] = None
      /\ \A v \in old : CurrentVersion[x] = v
  BY CurrentIs DEF CurrentShown
<1>3. /\ new = {} => CurrentVersion'[x] = None
      /\ \A v \in new : CurrentVersion'[x] = v
  <2>. CurrentShown'
    BY CurrentIs, PTL
  <2>. QED
    BY DEF CurrentShown
<1>4. new = old
  OBVIOUS
<1> HIDE DEF old, new
<1>. QED
  BY <1>1, <1>2, <1>3, <1>4

(* HeldVersions and CurrentVersion are functions of the objects. *)
IndexFunctions ==
    /\ HeldVersions = [x \in Objects |-> HeldVersions[x]]
    /\ CurrentVersion = [x \in Objects |-> CurrentVersion[x]]

LEMMA AreFunctions == IndexFunctions
  BY DEF IndexFunctions, HeldVersions, CurrentVersion, Objects

LEMMA QuietIndex ==
    ASSUME SingleLatest, SingleLatest', Removes({})
    PROVE  UNCHANGED <<HeldVersions, CurrentVersion>>
<1>1. \A b, k : RowsOf(b, k)' = RowsOf(b, k) /\ LatestOf(b, k)' = LatestOf(b, k)
  BY RemovesViews
<1>2. \A x \in Objects : /\ HeldVersions'[x] = HeldVersions[x]
                         /\ CurrentVersion'[x] = CurrentVersion[x]
  BY <1>1, SameIndex
<1>3. IndexFunctions /\ IndexFunctions'
  BY AreFunctions, PTL
<1>. QED
  BY <1>2, <1>3 DEF IndexFunctions

(* Deleting rows of one object is Remove ... *)
LEMMA RemoveIndex ==
    ASSUME IndexInv, SingleLatest', NEW x \in Objects,
           NEW gone \in SUBSET RowsOf(x[1], x[2]), Removes(gone)
    PROVE  Index!Remove(x, gone) /\ gone \in SUBSET HeldVersions[x]
<1>1. \A b, k : /\ RowsOf(b, k)' = RowsOf(b, k) \ gone
                /\ LatestOf(b, k)' = LatestOf(b, k) \ gone
  BY RemovesViews
<1>2. \A y \in Objects : y # x => RowsOf(y[1], y[2]) \cap gone = {}
  <2>. SUFFICES ASSUME NEW y \in Objects, NEW v \in gone, v \in RowsOf(y[1], y[2])
                PROVE  y = x
    OBVIOUS
  <2>1. x[1] = y[1] /\ x[2] = y[2]
    BY DEF RowsOf
  <2>. QED
    BY <2>1 DEF Objects
<1>3. \A y \in Objects : y # x => /\ HeldVersions'[y] = HeldVersions[y]
                                  /\ CurrentVersion'[y] = CurrentVersion[y]
  <2>. SUFFICES ASSUME NEW y \in Objects, y # x
                PROVE  /\ HeldVersions'[y] = HeldVersions[y]
                       /\ CurrentVersion'[y] = CurrentVersion[y]
    OBVIOUS
  <2>1. /\ RowsOf(y[1], y[2])' = RowsOf(y[1], y[2])
        /\ LatestOf(y[1], y[2])' = LatestOf(y[1], y[2])
    BY <1>1, <1>2, LatestAreVersions
  <2>. QED
    BY <2>1, SameIndex DEF IndexInv
<1>4. HeldVersions'[x] = HeldVersions[x] \ gone /\ gone \in SUBSET HeldVersions[x]
  BY <1>1 DEF HeldVersions, Objects
<1>5. CurrentVersion'[x] =
        IF CurrentVersion[x] \in gone THEN None ELSE CurrentVersion[x]
  <2> DEFINE old == LatestOf(x[1], x[2])
             new == LatestOf(x[1], x[2])'
  <2>1. new = old \ gone
    BY <1>1
  <2>2. /\ old = {} => CurrentVersion[x] = None
        /\ \A v \in old : CurrentVersion[x] = v
    BY CurrentIs DEF IndexInv, CurrentShown
  <2>3. /\ new = {} => CurrentVersion'[x] = None
        /\ \A v \in new : CurrentVersion'[x] = v
    <3>. CurrentShown'
      BY CurrentIs, PTL
    <3>. QED
      BY DEF CurrentShown
  <2>4. None \notin gone
    BY SentinelAssumption, LatestAreVersions
  <2> HIDE DEF old, new
  <2>5. CASE old = {}
    BY <2>1, <2>2, <2>3, <2>4, <2>5
  <2>6. ASSUME NEW v \in old PROVE CurrentVersion'[x] =
                  IF CurrentVersion[x] \in gone THEN None ELSE CurrentVersion[x]
    <3>1. CurrentVersion[x] = v
      BY <2>2, <2>6
    <3>2. CASE v \in gone
      <4>1. \A w \in old : w = v
        BY <2>2, <2>6
      <4>. QED
        BY <2>1, <2>3, <3>1, <3>2, <4>1
    <3>3. CASE v \notin gone
      BY <2>1, <2>3, <2>6, <3>1, <3>3
    <3>. QED
      BY <3>2, <3>3
  <2>. QED
    BY <2>5, <2>6
<1>6. HeldVersions' = [HeldVersions EXCEPT ![x] = @ \ gone]
  BY <1>3, <1>4 DEF HeldVersions, Objects
<1>7. CurrentVersion' = [CurrentVersion EXCEPT ![x] =
                            IF @ \in gone THEN None ELSE @]
  BY <1>3, <1>5 DEF CurrentVersion, Objects
<1>. QED
  BY <1>4, <1>6, <1>7 DEF Index!Remove

(* ... deleting all rows of a bucket is DropBucket ... *)
LEMMA DropIndex ==
    ASSUME IndexInv, SingleLatest', NEW b \in BucketIds, NEW gone,
           gone = {v \in Stored : row[v].bucket = b}, Removes(gone)
    PROVE  Index!DropBucket(b)
<1>1. \A c, k : /\ RowsOf(c, k)' = RowsOf(c, k) \ gone
                /\ LatestOf(c, k)' = LatestOf(c, k) \ gone
  BY RemovesViews
<1>2. \A k : RowsOf(b, k) \subseteq gone
  BY DEF RowsOf
<1>3. \A c, k : c # b => RowsOf(c, k) \cap gone = {}
  BY DEF RowsOf
<1>4. CurrentShown'
  BY CurrentIs, PTL
<1>5. ASSUME NEW x \in Objects, x[1] = b
      PROVE  HeldVersions'[x] = {} /\ CurrentVersion'[x] = None
  <2>1. RowsOf(x[1], x[2])' = {} /\ LatestOf(x[1], x[2])' = {}
    BY <1>1, <1>2, <1>5, LatestAreVersions
  <2>2. HeldVersions'[x] = RowsOf(x[1], x[2])'
    BY DEF HeldVersions, Objects
  <2>. QED
    BY <1>4, <2>1, <2>2 DEF CurrentShown
<1>6. ASSUME NEW x \in Objects, x[1] # b
      PROVE  /\ HeldVersions'[x] = HeldVersions[x]
             /\ CurrentVersion'[x] = CurrentVersion[x]
  <2>1. /\ RowsOf(x[1], x[2])' = RowsOf(x[1], x[2])
        /\ LatestOf(x[1], x[2])' = LatestOf(x[1], x[2])
    BY <1>1, <1>3, <1>6, LatestAreVersions
  <2>. QED
    BY <2>1, SameIndex DEF IndexInv
<1>7. IndexFunctions'
  BY AreFunctions, PTL
<1>. QED
  BY <1>5, <1>6, <1>7 DEF Index!DropBucket, Index!Objects, IndexFunctions, Objects

(* ... the UPDATE of create() is Hide ... *)
LEMMA HideIndex ==
    ASSUME IndexInv, SingleLatest', NEW p \in Procs, PutDemote(p)
    PROVE  \/ UNCHANGED <<HeldVersions, CurrentVersion>>
           \/ \E x \in Objects : Index!Hide(x)
<1>. PICK b, k : b = proc[p].bucket /\ k = proc[p].key
  OBVIOUS
<1>1. \A v \in Versions :
         row'[v] = IF v \in LatestOf(b, k)
                   THEN [row[v] EXCEPT !.latest = FALSE] ELSE row[v]
  BY DEF PutDemote, Demoted
<1>2. \A v \in Stored : row[v] \in Row
  BY DEF Stored, IndexInv, DataInv, TypeInv, TypeOK
<1>3. CASE LatestOf(b, k) = {}
  <2>1. Removes({})
    BY <1>1, <1>3 DEF Removes
  <2>. QED
    BY <2>1, QuietIndex DEF IndexInv
<1>4. ASSUME NEW old \in LatestOf(b, k) PROVE \E x \in Objects : Index!Hide(x)
  <2> DEFINE x == <<b, k>>
  <2>1. row[old] \in Row /\ row[old].bucket = b /\ row[old].key = k
    BY <1>2, <1>4 DEF LatestOf, RowsOf
  <2>2. x \in Objects /\ x[1] = b /\ x[2] = k
    BY <2>1 DEF Row, Objects
  <2>3. \A v \in LatestOf(b, k) : v \in Stored /\ row[v] \in Row /\ row[v].latest
    BY <1>2 DEF LatestOf, RowsOf
  <2>4. \A v \in LatestOf(b, k) :
          /\ row'[v] \in Row
          /\ row'[v].bucket = row[v].bucket /\ row'[v].key = row[v].key
          /\ row'[v].latest = FALSE
    <3>1. \A v \in LatestOf(b, k) : v \in Versions
      BY LatestAreVersions
    <3> DEFINE demoted(q) == [q EXCEPT !.latest = FALSE]
    <3>2. \A v \in LatestOf(b, k) : row[v] \in Row /\ row'[v] = demoted(row[v])
      BY <1>1, <2>3, <3>1
    <3>3. \A q \in Row :
            /\ demoted(q) \in Row /\ demoted(q).latest = FALSE
            /\ demoted(q).bucket = q.bucket /\ demoted(q).key = q.key
      BY DEF Row
    <3> HIDE DEF demoted
    <3>. QED
      BY <3>2, <3>3
  <2>5. \A v \in Versions : row'[v] = None <=> row[v] = None
    <3>1. None \notin Row
      BY SentinelAssumption
    <3>2. \A v \in LatestOf(b, k) : row'[v] # None /\ row[v] # None
      BY <2>3, <2>4, <3>1
    <3>. QED
      BY <1>1, <3>2
  <2>6. \A v \in Versions : row[v] # None => /\ row'[v].bucket = row[v].bucket
                                             /\ row'[v].key = row[v].key
    BY <1>1, <2>4
  <2>7. \A c, j : RowsOf(c, j)' = RowsOf(c, j)
    <3>. TAKE c, j
    <3>1. \A v \in Versions : v \in RowsOf(c, j)' <=> v \in RowsOf(c, j)
      BY <2>5, <2>6 DEF RowsOf, Stored
    <3>. QED
      BY <3>1 DEF RowsOf, Stored
  <2>8. LatestOf(b, k)' = {}
    <3>1. \A v \in LatestOf(b, k)' : v \in Versions /\ row'[v].latest
      BY DEF LatestOf, RowsOf, Stored
    <3>2. \A v \in LatestOf(b, k)' : v \in RowsOf(b, k)
      <4>1. LatestOf(b, k)' \subseteq RowsOf(b, k)'
        BY DEF LatestOf
      <4>. QED
        BY <2>7, <4>1
    <3>3. \A v \in LatestOf(b, k)' : v \notin LatestOf(b, k)
      BY <2>4, <3>1
    <3>. QED
      BY <1>1, <3>1, <3>2, <3>3 DEF LatestOf
  <2>9. \A y \in Objects : y # x => LatestOf(y[1], y[2])' = LatestOf(y[1], y[2])
    <3>. TAKE y \in Objects
    <3>. HAVE y # x
    <3>1. y[1] # b \/ y[2] # k
      BY DEF Objects
    <3>2. \A v \in RowsOf(y[1], y[2]) : v \in Versions /\ row'[v] = row[v]
      <4>1. \A v \in RowsOf(y[1], y[2]) : v \in Versions /\ v \notin LatestOf(b, k)
        BY <3>1 DEF LatestOf, RowsOf, Stored
      <4>. QED
        BY <1>1, <4>1
    <3>. QED
      BY <2>7, <3>2 DEF LatestOf
  <2>10. CurrentShown /\ CurrentShown' /\ IndexFunctions /\ IndexFunctions'
    BY CurrentIs, AreFunctions, PTL DEF IndexInv
  <2>11. CurrentVersion'[x] = None /\ CurrentVersion[x] # None
    <3>1. CurrentVersion[x] = old
      BY <1>4, <2>2, <2>10 DEF CurrentShown
    <3>2. old # None
      BY <1>4, LatestAreVersions, SentinelAssumption
    <3>3. LatestOf(x[1], x[2])' = {}
      BY <2>2, <2>8
    <3>4. CurrentVersion'[x] = None
      BY <2>2, <2>10, <3>3 DEF CurrentShown
    <3>. QED
      BY <3>1, <3>2, <3>4
  <2>12. \A y \in Objects : y # x => CurrentVersion'[y] = CurrentVersion[y]
    BY <2>7, <2>9, SameIndex DEF IndexInv
  <2>13. HeldVersions' = HeldVersions
    BY <2>7 DEF HeldVersions
  <2>14. CurrentVersion' = [CurrentVersion EXCEPT ![x] = None]
    BY <2>10, <2>11, <2>12 DEF IndexFunctions
  <2> HIDE DEF x
  <2>. QED
    BY <2>2, <2>11, <2>13, <2>14 DEF Index!Hide
<1>. QED
  BY <1>3, <1>4

(* ... and the INSERT of create() is Publish. *)
LEMMA PublishIndex ==
    ASSUME IndexInv, SingleLatest', NEW p \in Procs, PutInsert(p)
    PROVE  \/ UNCHANGED <<HeldVersions, CurrentVersion>>
           \/ \E x \in Objects : \E v \in Versions : Index!Publish(x, v)
<1>. PICK b, k, v : b = proc[p].bucket /\ k = proc[p].key /\ v = proc[p].ver
  OBVIOUS
<1>1. proc[p].pc = "insert" /\ proc[p].op = "put"
  BY DEF PutInsert, At, IndexInv, DataInv, TypeInv, WellFormed
<1>2. k \in Keys /\ v \in Versions /\ v \notin Stored /\ LatestOf(b, k) = {}
  BY <1>1 DEF IndexInv, DataInv, TypeInv, WellFormed, PutInv, LatestInv, StampInv
<1>3. CASE b \notin LiveBuckets
  <2>1. row' = row
    BY <1>3 DEF PutInsert
  <2>2. Removes({})
    BY <2>1 DEF Removes
  <2>. QED
    BY <2>2, QuietIndex DEF IndexInv
<1>4. CASE b \in LiveBuckets
  <2>1. PICK e \in Expiries : row' = [row EXCEPT ![v] = NewRow(proc[p], e)]
    BY <1>4 DEF PutInsert
  <2>2. /\ row'[v].bucket = b /\ row'[v].key = k /\ row'[v].latest
        /\ \A w \in Versions : w # v => row'[w] = row[w]
    BY <1>2, <2>1 DEF NewRow, IndexInv, DataInv, TypeInv, TypeOK
  <2>3. row'[v] # None
    <3>1. proc[p].stamp \in Nat /\ e \in {"never", "pending"} /\ b \in BucketIds
      BY <1>4, ConstantsAssumption
      DEF IndexInv, DataInv, TypeInv, TypeOK, Proc, LiveBuckets
    <3>2. NewRow(proc[p], e) \in Row
      BY <1>2, <3>1 DEF NewRow, Row
    <3>. QED
      BY <1>2, <2>1, <3>2, SentinelAssumption DEF IndexInv, DataInv, TypeInv, TypeOK
  <2> DEFINE x == <<b, k>>
  <2>4. x \in Objects /\ x[1] = b /\ x[2] = k
    BY <1>2, <1>4 DEF Objects, LiveBuckets
  <2>5. \A c, j : RowsOf(c, j)' = IF c = b /\ j = k THEN RowsOf(c, j) \cup {v}
                                  ELSE RowsOf(c, j)
    <3>. TAKE c, j
    <3>1. \A w \in Versions : w # v => (w \in RowsOf(c, j)' <=> w \in RowsOf(c, j))
      BY <2>2 DEF RowsOf, Stored
    <3>2. v \notin RowsOf(c, j) /\ (v \in RowsOf(c, j)' <=> c = b /\ j = k)
      BY <1>2, <2>2, <2>3 DEF RowsOf, Stored
    <3>3. RowsOf(c, j) \subseteq Versions /\ RowsOf(c, j)' \subseteq Versions
      BY DEF RowsOf, Stored
    <3>. QED
      BY <1>2, <3>1, <3>2, <3>3
  <2>6. v \in LatestOf(b, k)'
    BY <2>2, <2>5 DEF LatestOf
  <2>7. \A y \in Objects : y # x => /\ HeldVersions'[y] = HeldVersions[y]
                                    /\ CurrentVersion'[y] = CurrentVersion[y]
    <3>. SUFFICES ASSUME NEW y \in Objects, y # x
                  PROVE  /\ HeldVersions'[y] = HeldVersions[y]
                         /\ CurrentVersion'[y] = CurrentVersion[y]
      OBVIOUS
    <3>1. y[1] # b \/ y[2] # k
      BY DEF Objects
    <3>2. RowsOf(y[1], y[2])' = RowsOf(y[1], y[2])
      BY <2>5, <3>1
    <3>3. \A w \in RowsOf(y[1], y[2]) : row'[w] = row[w]
      BY <1>2, <2>2 DEF RowsOf, Stored
    <3>4. LatestOf(y[1], y[2])' = LatestOf(y[1], y[2])
      BY <3>2, <3>3 DEF LatestOf
    <3>. QED
      BY <3>2, <3>4, SameIndex DEF IndexInv
  <2>8. CurrentShown /\ CurrentShown' /\ IndexFunctions /\ IndexFunctions'
    BY CurrentIs, AreFunctions, PTL DEF IndexInv
  <2>9. CurrentVersion[x] = None /\ CurrentVersion'[x] = v
    BY <1>2, <2>4, <2>6, <2>8 DEF CurrentShown
  <2>10. \A y \in Objects : HeldVersions[y] = RowsOf(y[1], y[2])
    BY DEF HeldVersions, Objects
  <2>11. HeldVersions'[x] = HeldVersions[x] \cup {v}
    <3>1. HeldVersions'[x] = RowsOf(x[1], x[2])'
      BY <2>4 DEF HeldVersions, Objects
    <3>. QED
      BY <2>4, <2>5, <2>10, <3>1
  <2>12. \A y \in Objects : v \notin HeldVersions[y]
    BY <1>2, <2>10 DEF RowsOf
  <2>13. /\ HeldVersions' = [HeldVersions EXCEPT ![x] = @ \cup {v}]
         /\ CurrentVersion' = [CurrentVersion EXCEPT ![x] = v]
    BY <2>4, <2>7, <2>8, <2>9, <2>11 DEF IndexFunctions
  <2> HIDE DEF x
  <2>. QED
    BY <1>2, <2>4, <2>9, <2>12, <2>13 DEF Index!Publish, Index!Objects, Objects
<1>. QED
  BY <1>3, <1>4

-----------------------------------------------------------------------------
(* Every other step removes rows or shows nothing to the index. *)

LEMMA OtherRemoves ==
    ASSUME TypeInv, NEW p \in Procs, Step(p), ~PutDemote(p), ~PutInsert(p)
    PROVE  \/ Removes({})
           \/ \E x \in Objects : \E gone \in SUBSET RowsOf(x[1], x[2]) :
                Removes(gone)
           \/ \E b \in BucketIds : Removes({v \in Stored : row[v].bucket = b})
<1>. PICK b, k, u : b = proc[p].bucket /\ k = proc[p].key /\ u = proc[p].ver
  OBVIOUS
<1>1. \A v \in Stored : row[v] \in Row /\ v \in Versions
  BY DEF Stored, TypeInv, TypeOK
<1>2. CASE DeleteRows(p)
  <2> DEFINE gone == Matching(b, k, u)
  <2>1. row' = [v \in Versions |-> IF v \in gone THEN None ELSE row[v]]
    BY <1>2 DEF DeleteRows
  <2>2. gone \subseteq RowsOf(b, k) /\ RowsOf(b, k) \subseteq Stored
    BY DEF Matching, RowsOf
  <2>3. Removes(gone)
    BY <2>1 DEF Removes
  <2>4. CASE gone = {}
    BY <2>3, <2>4
  <2>5. ASSUME NEW v \in gone
        PROVE  \E x \in Objects : \E g \in SUBSET RowsOf(x[1], x[2]) : Removes(g)
    <3>1. b \in BucketIds /\ k \in Keys
      BY <1>1, <2>2 DEF RowsOf, Row
    <3>2. <<b, k>> \in Objects /\ gone \in SUBSET RowsOf(<<b, k>>[1], <<b, k>>[2])
      BY <2>2, <3>1 DEF Objects
    <3> HIDE DEF gone
    <3>. QED
      BY <2>3, <3>2
  <2> HIDE DEF gone
  <2>. QED
    BY <2>4, <2>5
<1>3. CASE DropBucket(p)
  <2> DEFINE gone == {v \in Stored : row[v].bucket = b}
  <2>1. \A v \in Versions : row'[v] = IF v \in gone THEN None ELSE row[v]
    BY <1>3 DEF DropBucket, WithoutBucket
  <2>2. Removes(gone)
    BY <2>1 DEF Removes
  <2>3. b \notin BucketIds => gone = {}
    BY <1>1 DEF Row
  <2>. QED
    BY <2>2, <2>3
<1>4. CASE ~DeleteRows(p) /\ ~DropBucket(p)
  <2>1. row' = row
    BY <1>4, StepCases
    DEF Arrive, ArriveForKey, ArriveForVersion, ArrivePut, ArriveDeleteBucket,
        ArriveCreateBucket, FindBucket, PutWrite, PutWriteFails, GetFindRow,
        GetExists, GetOpen, Unlink, CleanFind, CleanNext, CreateExists,
        CreateInsert, DropCount, SelectRows
  <2>. QED
    BY <2>1 DEF Removes
<1>. QED
  BY <1>2, <1>3, <1>4

LEMMA EnvironmentRemoves ==
    ASSUME TypeInv,
           (\E v \in Versions : Expire(v)) \/ Crash \/ UNCHANGED vars
    PROVE  Removes({})
<1>1. ASSUME NEW e \in Versions, Expire(e) PROVE Removes({})
  <2>1. row[e] \in Row /\ row' = [row EXCEPT ![e] = [row[e] EXCEPT !.expiry = "past"]]
    BY <1>1 DEF Expire, Stored, TypeInv, TypeOK
  <2>. QED
    BY <2>1, SentinelAssumption DEF Removes, Row, TypeInv, TypeOK
<1>2. CASE Crash \/ UNCHANGED vars
  BY <1>2 DEF Crash, vars, Removes
<1>. QED
  BY <1>1, <1>2

-----------------------------------------------------------------------------
(* The invariant *)

LEMMA RemovesSingle ==
    ASSUME SingleLatest, NEW gone, Removes(gone) PROVE SingleLatest'
  BY RemovesViews DEF SingleLatest

LEMMA DemoteSingle ==
    ASSUME TypeInv, SingleLatest, NEW p \in Procs, PutDemote(p)
    PROVE  SingleLatest'
<1>. PICK c, j : c = proc[p].bucket /\ j = proc[p].key
  OBVIOUS
<1>1. \A v \in Versions :
         row'[v] = IF v \in LatestOf(c, j)
                   THEN [row[v] EXCEPT !.latest = FALSE] ELSE row[v]
  BY DEF PutDemote, Demoted
<1>2. \A v \in LatestOf(c, j) : v \in Versions /\ row[v] \in Row
  BY DEF LatestOf, RowsOf, Stored, TypeInv, TypeOK
<1>3. \A v \in LatestOf(c, j) : row'[v].latest = FALSE
  BY <1>1, <1>2 DEF Row
<1>4. \A b, k : LatestOf(b, k)' \subseteq LatestOf(b, k)
  <2>. TAKE b, k
  <2>1. \A v \in LatestOf(b, k)' : v \in Versions /\ row'[v].latest
    BY DEF LatestOf, RowsOf, Stored
  <2>2. \A v \in LatestOf(b, k)' : row'[v] = row[v]
    BY <1>1, <1>3, <2>1
  <2>. QED
    BY <2>1, <2>2 DEF LatestOf, RowsOf, Stored
<1>. QED
  BY <1>4 DEF SingleLatest

LEMMA InsertSingle ==
    ASSUME IndexInv, NEW p \in Procs, PutInsert(p) PROVE SingleLatest'
<1>. PICK c, j, v : c = proc[p].bucket /\ j = proc[p].key /\ v = proc[p].ver
  OBVIOUS
<1>1. proc[p].pc = "insert" /\ proc[p].op = "put"
  BY DEF PutInsert, At, IndexInv, DataInv, TypeInv, WellFormed
<1>2. v \in Versions /\ LatestOf(c, j) = {}
  BY <1>1 DEF IndexInv, DataInv, TypeInv, WellFormed, LatestInv, StampInv
<1>3. CASE row' = row
  <2>1. Removes({})
    BY <1>3 DEF Removes
  <2>. QED
    BY <2>1, RemovesSingle DEF IndexInv
<1>4. CASE row' # row
  <2>1. PICK e \in Expiries : row' = [row EXCEPT ![v] = NewRow(proc[p], e)]
    BY <1>4 DEF PutInsert
  <2>2. /\ row'[v].bucket = c /\ row'[v].key = j
        /\ \A w \in Versions : w # v => row'[w] = row[w]
    BY <1>2, <2>1 DEF NewRow, IndexInv, DataInv, TypeInv, TypeOK
  <2>3. \A b, k : \A w \in LatestOf(b, k)' :
           IF w = v THEN b = c /\ k = j ELSE w \in LatestOf(b, k)
    BY <2>2 DEF LatestOf, RowsOf, Stored
  <2>. QED
    BY <1>2, <2>3 DEF SingleLatest, IndexInv
<1>. QED
  BY <1>3, <1>4

LEMMA NextIndex ==
    Backend = "sqlite" /\ IndexInv /\ [Next]_vars => IndexInv'
<1>. SUFFICES ASSUME Backend = "sqlite", IndexInv, [Next]_vars PROVE IndexInv'
  OBVIOUS
<1>1. DataInv' /\ LatestInv'
  BY NextData, NextLatest DEF IndexInv
<1>2. ASSUME NEW p \in Procs, Step(p) PROVE SingleLatest'
  <2>. TypeInv /\ SingleLatest
    BY DEF IndexInv, DataInv
  <2>1. CASE PutDemote(p)
    BY <2>1, DemoteSingle
  <2>2. CASE PutInsert(p)
    BY <2>2, InsertSingle
  <2>3. CASE ~PutDemote(p) /\ ~PutInsert(p)
    <3>1. \E gone : Removes(gone)
      BY <1>2, <2>3, OtherRemoves
    <3>. QED
      BY <3>1, RemovesSingle
  <2>. QED
    BY <2>1, <2>2, <2>3
<1>3. ASSUME (\E v \in Versions : Expire(v)) \/ Crash \/ UNCHANGED vars
      PROVE  SingleLatest'
  <2>1. Removes({})
    BY <1>3, EnvironmentRemoves DEF IndexInv, DataInv
  <2>. QED
    BY <2>1, RemovesSingle DEF IndexInv
<1>. QED
  BY <1>1, <1>2, <1>3, NextSteps DEF IndexInv

LEMMA NextRefines ==
    Backend = "sqlite" /\ IndexInv /\ IndexInv' /\ [Next]_vars
        => [Index!Next]_<<HeldVersions, CurrentVersion>>
<1>. SUFFICES ASSUME Backend = "sqlite", IndexInv, IndexInv', [Next]_vars
              PROVE  Index!Next \/ UNCHANGED <<HeldVersions, CurrentVersion>>
  OBVIOUS
<1>. Index!Objects = Objects
  BY DEF Index!Objects, Objects
<1>1. CASE Removes({})
  BY <1>1, QuietIndex DEF IndexInv
<1>2. ASSUME NEW x \in Objects, NEW gone \in SUBSET RowsOf(x[1], x[2]),
             Removes(gone)
      PROVE  Index!Next
  BY <1>2, RemoveIndex DEF Index!Next, IndexInv
<1>3. ASSUME NEW b \in BucketIds, Removes({v \in Stored : row[v].bucket = b})
      PROVE  Index!Next
  BY <1>3, DropIndex DEF Index!Next, IndexInv
<1>4. ASSUME NEW p \in Procs, PutDemote(p)
      PROVE  Index!Next \/ UNCHANGED <<HeldVersions, CurrentVersion>>
  BY <1>4, HideIndex DEF Index!Next, IndexInv
<1>5. ASSUME NEW p \in Procs, PutInsert(p)
      PROVE  Index!Next \/ UNCHANGED <<HeldVersions, CurrentVersion>>
  BY <1>5, PublishIndex DEF Index!Next, IndexInv
<1>6. ASSUME NEW p \in Procs, Step(p)
      PROVE  Index!Next \/ UNCHANGED <<HeldVersions, CurrentVersion>>
  BY <1>1, <1>2, <1>3, <1>4, <1>5, <1>6, OtherRemoves DEF IndexInv, DataInv
<1>. QED
  BY <1>1, <1>6, NextSteps, EnvironmentRemoves DEF IndexInv, DataInv

LEMMA InitIndex == Init => IndexInv /\ Index!Init
<1>. SUFFICES ASSUME Init PROVE IndexInv /\ Index!Init
  OBVIOUS
<1>1. \A b, k : RowsOf(b, k) = {} /\ LatestOf(b, k) = {}
  BY DEF Init, LatestOf, RowsOf, Stored
<1>2. SingleLatest
  BY <1>1 DEF SingleLatest
<1>3. IndexInv
  BY <1>2, InitData, InitLatest DEF IndexInv
<1>4. Index!Init
  BY <1>1 DEF Index!Init, Index!Objects, HeldVersions, CurrentVersion
<1>. QED
  BY <1>3, <1>4

(* On SQLite the objects table is a version index: whatever requests,      *)
(* cleaner runs and crashes do, each step hides the current version of an  *)
(* object, publishes a new one into a hidden object, removes versions of   *)
(* one object, or drops a bucket (ObjectRepository.create, hardDelete).    *)
THEOREM ObjectsRefineIndex ==
    ASSUME Backend = "sqlite" PROVE Spec => ImplementsVersionIndex
<1>1. IndexInv /\ [Next]_vars => IndexInv'
  BY NextIndex
<1>2. IndexInv /\ IndexInv' /\ [Next]_vars
        => [Index!Next]_<<HeldVersions, CurrentVersion>>
  BY NextRefines
<1>. QED
  BY <1>1, <1>2, InitIndex, PTL DEF Spec, ImplementsVersionIndex, Index!Spec

(* On SQLite an object never has two current versions                      *)
(* (ObjectRepository.create).                                              *)
THEOREM OneCurrentVersion ==
    ASSUME Backend = "sqlite" PROVE Spec => []SingleLatest
<1>1. IndexInv /\ [Next]_vars => IndexInv'
  BY NextIndex
<1>2. IndexInv => SingleLatest
  BY DEF IndexInv
<1>. QED
  BY <1>1, <1>2, InitIndex, PTL DEF Spec
=============================================================================
