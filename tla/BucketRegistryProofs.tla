------------------------ MODULE BucketRegistryProofs ------------------------
(***************************************************************************)
(* Proofs about BucketRegistry, for any sets of names, buckets, objects,   *)
(* users and requests, with both databases.                                *)
(***************************************************************************)
EXTENDS BucketRegistry, TLAPS

-----------------------------------------------------------------------------
(* The inductive invariant, in four parts *)

(* What TypeOK lacks to be inductive: the locals that a step uses are set, *)
(* and a request that is under way has not been answered.                  *)
WellFormed(p) ==
    /\ p.pc = "idle" <=> p.op = None
    /\ p.pc # "idle" => /\ p.user \in Users
                        /\ p.name \in Names
                        /\ p.answer = None
    /\ p.pc \in {"existsByName", "insert"} <=> p.op = "create"
    /\ p.op = "create" => p.id \in BucketIds /\ p.existing \in Settings
    /\ p.pc \in {"readExisting", "update", "readBack"}
        => p.op = "update" /\ p.id \in BucketIds
    /\ p.pc = "update" => p.existing \in Settings
    /\ p.pc \in {"count", "delete"}
        => p.op \in {"delete", "forceDelete"} /\ p.id \in BucketIds
    /\ p.pc = "write" => p.op = "put" /\ p.id \in BucketIds
    /\ p.op = "put" => p.object \in Objects

TypeInv ==
    /\ TypeOK
    /\ \A r \in Requests : WellFormed(proc[r])
    /\ \A b \in Live : asked[b] \in Settings

(* A bucket that is still to be created is known to nobody else. *)
IdInv ==
    /\ Live \subseteq drawn
    /\ \A r \in Requests : proc[r].id # None => proc[r].id \in drawn
    /\ \A r \in Requests : proc[r].op = "create" =>
        /\ proc[r].id \notin Live
        /\ \A q \in Requests \ {r} : proc[q].id # proc[r].id

(* What the access check established still holds when the statement runs,  *)
(* of the bucket with the id that was found, if there still is one.        *)
AccessInv ==
    /\ \A b \in Live : IsOpen(row[b].settings) => b \in opened
    /\ \A r \in Requests :
        (proc[r].op # "create" /\ proc[r].id \in Live) =>
            \/ row[proc[r].id].owner = proc[r].user
            \/ proc[r].op = "put" /\ proc[r].id \in opened
    /\ StrangersNeedOpenBucket

(* The steps of a bucket handler that follow another one in its turn. *)
InTurn == {"insert", "readExisting", "update", "readBack", "count", "delete"}

(* What a handler has read on SQLite is true until its turn ends. *)
TurnFacts(r) ==
    LET p == proc[r] IN
    /\ p.pc \in InTurn => loop = r
    /\ p.pc \in {"readExisting", "update", "readBack"} => p.id \in Live
    /\ p.pc = "update" => p.existing = row[p.id].settings
    /\ p.pc = "insert" => ~Taken(p.name)
    /\ (p.pc = "delete" /\ p.op = "delete") => ObjectsOf(p.id) = {}

TurnInv ==
    /\ driver = "sqlite" => \A r \in Requests : TurnFacts(r)
    /\ SettingsAsAsked

RegistryInv == TypeInv /\ IdInv /\ AccessInv /\ TurnInv

Step(r) ==
    \/ ArriveCreate(r) \/ ArriveUpdate(r) \/ ArriveDelete(r) \/ ArrivePut(r)
    \/ FindByName(r)
    \/ CreateExists(r) \/ CreateInsert(r)
    \/ UpdateRead(r) \/ UpdateWrite(r) \/ UpdateReadBack(r)
    \/ DeleteCount(r) \/ DeleteRow(r)
    \/ PutInsert(r)

LEMMA NextSteps == [Next]_vars => UNCHANGED vars \/ \E r \in Requests : Step(r)
  BY DEF Next, Step

-----------------------------------------------------------------------------
(* Types *)

LEMMA IdleTypes == Idle \in Proc /\ WellFormed(Idle)
<1>1. NoUpdates \in Updates
  BY DEF NoUpdates, Updates
<1>2. Idle \in Proc
  BY <1>1 DEF Idle, Proc, PC
<1> QED
  BY <1>2, SentinelAssumption DEF Idle, WellFormed, Ops

(* updates.x ?? existing.x of settings gives settings. *)
LEMMA MergedType ==
    ASSUME NEW s \in Settings, NEW x \in Updates
    PROVE  Merged(s, x) \in Settings
  BY DEF Merged, Settings, Updates

LEMMA GotoTypes ==
    ASSUME TypeInv, NEW r \in Requests, NEW local \in Proc, WellFormed(local),
           Goto(r, local)
    PROVE  /\ proc' \in [Requests -> Proc]
           /\ \A q \in Requests : WellFormed(proc'[q])
  BY DEF TypeInv, TypeOK, Goto

LEMMA AnswerTypes ==
    ASSUME TypeInv, NEW r \in Requests, NEW a \in Answers, Answer(r, a)
    PROVE  /\ proc' \in [Requests -> Proc]
           /\ \A q \in Requests : WellFormed(proc'[q])
           /\ loop' \in Requests \cup {Free}
<1>1. [Idle EXCEPT !.answer = a] \in Proc
  BY IdleTypes DEF Proc
<1>2. WellFormed([Idle EXCEPT !.answer = a])
  BY IdleTypes DEF Idle, WellFormed
<1> QED
  BY <1>1, <1>2, GotoTypes DEF Answer

(* The local state of a request that has just arrived. *)
LEMMA StartTypes ==
    ASSUME NEW op \in Ops, NEW u \in Users, NEW n \in Names
    PROVE  LET p == Start(op, u, n) IN
           /\ p \in Proc
           /\ p.op = op
           /\ p.pc = IF op = "create" THEN "existsByName" ELSE "findByName"
           /\ p.user = u /\ p.name = n /\ p.id = None /\ p.answer = None
<1>1. Idle \in Proc
  BY IdleTypes
<1> QED
  BY <1>1 DEF Start, Proc, PC, Idle

LEMMA ArriveType ==
    ASSUME TypeInv, NEW r \in Requests,
           \/ ArriveCreate(r) \/ ArriveUpdate(r)
           \/ ArriveDelete(r) \/ ArrivePut(r)
    PROVE  TypeInv'
<1>1. CASE ArriveCreate(r)
  <2>1. PICK u \in Users, n \in Names, b \in BucketIds \ drawn, x \in Settings :
            /\ Goto(r, [Start("create", u, n) EXCEPT !.id = b, !.existing = x])
            /\ drawn' = drawn \cup {b}
    BY <1>1 DEF ArriveCreate
  <2> DEFINE local == [Start("create", u, n) EXCEPT !.id = b, !.existing = x]
  <2>2. local \in Proc
    <3>1. Start("create", u, n) \in Proc
      BY StartTypes DEF Ops
    <3> QED
      BY <3>1 DEF Proc
  <2>3. WellFormed(local)
    BY StartTypes, SentinelAssumption DEF WellFormed, Proc, Ops
  <2> QED
    BY <1>1, <2>1, <2>2, <2>3, GotoTypes DEF ArriveCreate, TypeInv, TypeOK, Live
<1>2. CASE ArriveUpdate(r)
  <2>1. PICK u \in Users, n \in Names, x \in Updates :
            Goto(r, [Start("update", u, n) EXCEPT !.updates = x])
    BY <1>2 DEF ArriveUpdate
  <2> DEFINE local == [Start("update", u, n) EXCEPT !.updates = x]
  <2>2. local \in Proc
    BY StartTypes DEF Proc, Ops
  <2>3. WellFormed(local)
    BY StartTypes, SentinelAssumption DEF WellFormed, Proc, Ops
  <2> QED
    BY <1>2, <2>1, <2>2, <2>3, GotoTypes DEF ArriveUpdate, TypeInv, TypeOK, Live
<1>3. CASE ArriveDelete(r)
  <2>1. PICK op \in {"delete", "forceDelete"}, u \in Users, n \in Names :
            Goto(r, Start(op, u, n))
    BY <1>3 DEF ArriveDelete
  <2>2. Start(op, u, n) \in Proc
    BY StartTypes DEF Ops
  <2>3. WellFormed(Start(op, u, n))
    BY StartTypes, SentinelAssumption DEF WellFormed, Ops
  <2> QED
    BY <1>3, <2>1, <2>2, <2>3, GotoTypes DEF ArriveDelete, TypeInv, TypeOK, Live
<1>4. CASE ArrivePut(r)
  <2>1. PICK u \in Users, n \in Names, o \in Objects \ drawn :
            /\ Goto(r, [Start("put", u, n) EXCEPT !.object = o])
            /\ drawn' = drawn \cup {o}
    BY <1>4 DEF ArrivePut
  <2> DEFINE local == [Start("put", u, n) EXCEPT !.object = o]
  <2>2. local \in Proc
    BY StartTypes DEF Proc, Ops
  <2>3. WellFormed(local)
    BY StartTypes, SentinelAssumption DEF WellFormed, Proc, Ops
  <2> QED
    BY <1>4, <2>1, <2>2, <2>3, GotoTypes DEF ArrivePut, TypeInv, TypeOK, Live
<1> QED
  BY <1>1, <1>2, <1>3, <1>4

LEMMA StepType ==
    ASSUME TypeInv, NEW r \in Requests, Step(r)
    PROVE  TypeInv'
<1> DEFINE p == proc[r]
<1>1. p \in Proc /\ WellFormed(p)
  BY DEF TypeInv, TypeOK
<1>2. \A a \in Answers :
        Answer(r, a) => /\ proc' \in [Requests -> Proc]
                        /\ \A q \in Requests : WellFormed(proc'[q])
                        /\ loop' \in Requests \cup {Free}
  BY AnswerTypes
<1>3. AwaitQuery(r) \/ AwaitFiles => loop' \in Requests \cup {Free}
  BY DEF AwaitQuery, AwaitFiles
<1>4. CASE FindByName(r)
  <2>1. ASSUME NEW b \in BucketIds, NEW pc \in PC, p.pc = "findByName",
               pc = CASE p.op = "update" -> "readExisting"
                      [] p.op = "put" -> "write"
                      [] OTHER -> "count"
        PROVE  LET local == [p EXCEPT !.id = b, !.pc = pc]
               IN  local \in Proc /\ WellFormed(local)
    <3> DEFINE local == [p EXCEPT !.id = b, !.pc = pc]
    <3>1. local \in Proc
      BY <1>1 DEF Proc
    <3>2. WellFormed(local)
      BY <1>1, <2>1, SentinelAssumption DEF Proc, WellFormed, Ops
    <3> QED
      BY <3>1, <3>2
  <2>2. CASE \E a \in Answers : Answer(r, a)
    BY <1>2, <1>4, <2>2 DEF FindByName, TypeInv, TypeOK, Live
  <2>3. CASE ~\E a \in Answers : Answer(r, a)
    <3> DEFINE pc == CASE p.op = "update" -> "readExisting"
                       [] p.op = "put" -> "write"
                       [] OTHER -> "count"
    <3>1. PICK b \in Named(p.name) :
              /\ Goto(r, [p EXCEPT !.id = b, !.pc = pc])
              /\ AwaitFiles \/ AwaitQuery(r)
      BY <1>4, <2>3 DEF FindByName, Answers
    <3>2. b \in BucketIds /\ pc \in PC /\ p.pc = "findByName"
      BY <1>4 DEF Named, Live, PC, FindByName, At
    <3>3. /\ [p EXCEPT !.id = b, !.pc = pc] \in Proc
          /\ WellFormed([p EXCEPT !.id = b, !.pc = pc])
      BY <2>1, <3>2
    <3> QED
      BY <1>3, <1>4, <3>1, <3>3, GotoTypes
      DEF FindByName, TypeInv, TypeOK, Live
  <2> QED
    BY <2>2, <2>3
<1>5. CASE CreateExists(r)
  <2>1. /\ [p EXCEPT !.pc = "insert"] \in Proc
        /\ WellFormed([p EXCEPT !.pc = "insert"])
    BY <1>1, <1>5, SentinelAssumption
    DEF CreateExists, At, Proc, PC, WellFormed, Ops
  <2> QED
    BY <1>2, <1>3, <1>5, <2>1, GotoTypes
    DEF CreateExists, TypeInv, TypeOK, Live, Answers
<1>6. CASE CreateInsert(r)
  <2>1. /\ proc' \in [Requests -> Proc]
        /\ \A q \in Requests : WellFormed(proc'[q])
        /\ loop' \in Requests \cup {Free}
    BY <1>2, <1>6 DEF CreateInsert, Answers
  <2>2. CASE Taken(p.name)
    BY <1>6, <2>1, <2>2 DEF CreateInsert, TypeInv, TypeOK, Live
  <2>3. CASE ~Taken(p.name)
    <3>1. /\ p.id \in BucketIds /\ p.existing \in Settings
          /\ p.name \in Names /\ p.user \in Users
      BY <1>1, <1>6 DEF CreateInsert, At, WellFormed
    <3>2. [name |-> p.name, owner |-> p.user, settings |-> p.existing] \in Bucket
      BY <3>1 DEF Bucket
    <3>3. row' \in [BucketIds -> Bucket \cup {None}]
      BY <1>6, <2>3, <3>2 DEF CreateInsert, TypeInv, TypeOK
    <3>4. asked' = [asked EXCEPT ![p.id] = p.existing]
      BY <1>6, <2>3 DEF CreateInsert
    <3>5. \A b \in BucketIds : b # p.id => row'[b] = row[b]
      BY <1>6, <2>3, <3>1 DEF CreateInsert, TypeInv, TypeOK
    <3>6. \A b \in Live' : asked'[b] \in Settings
      BY <3>1, <3>4, <3>5 DEF TypeInv, TypeOK, Live
    <3>7. asked' \in [BucketIds -> Settings \cup {None}] /\ opened' \subseteq BucketIds
      BY <1>6, <2>3, <3>1, <3>4 DEF CreateInsert, Opened, TypeInv, TypeOK
    <3> QED
      BY <1>6, <2>1, <3>3, <3>6, <3>7 DEF CreateInsert, TypeInv, TypeOK
  <2> QED
    BY <2>2, <2>3
<1>7. CASE UpdateRead(r)
  <2>1. p.pc = "readExisting" /\ p.op = "update"
    BY <1>1, <1>7 DEF UpdateRead, At, WellFormed
  <2>2. ASSUME p.id \in Live
        PROVE  LET local == [p EXCEPT !.pc = "update",
                                      !.existing = row[p.id].settings]
               IN  local \in Proc /\ WellFormed(local)
    <3>1. row[p.id].settings \in Settings
      BY <2>2 DEF TypeInv, TypeOK, Live, Bucket
    <3> DEFINE local == [p EXCEPT !.pc = "update",
                                  !.existing = row[p.id].settings]
    <3>2. local \in Proc
      BY <1>1, <3>1 DEF Proc, PC
    <3>3. WellFormed(local)
      BY <1>1, <2>1, <3>1, SentinelAssumption DEF Proc, WellFormed, Ops
    <3> QED
      BY <3>2, <3>3
  <2> QED
    BY <1>2, <1>3, <1>7, <2>2, GotoTypes
    DEF UpdateRead, TypeInv, TypeOK, Live, Answers
<1>8. CASE UpdateWrite(r)
  <2> DEFINE local == [p EXCEPT !.pc = "readBack", !.updates = NoUpdates,
                                !.existing = None]
             new == Merged(p.existing, p.updates)
  <2>1. p.pc = "update" /\ p.op = "update" /\ p.id \in BucketIds
        /\ p.existing \in Settings /\ p.updates \in Updates
    BY <1>1, <1>8 DEF UpdateWrite, At, WellFormed, Proc
  <2>2. local \in Proc
    BY <1>1 DEF Proc, PC, NoUpdates, Updates
  <2>3. WellFormed(local)
    BY <1>1, <2>1, SentinelAssumption DEF Proc, WellFormed, Ops
  <2>4. /\ proc' \in [Requests -> Proc]
        /\ \A q \in Requests : WellFormed(proc'[q])
        /\ loop' \in Requests \cup {Free}
    BY <1>3, <1>8, <2>2, <2>3, GotoTypes DEF UpdateWrite
  <2>5. CASE p.id \notin Live
    BY <1>8, <2>4, <2>5 DEF UpdateWrite, TypeInv, TypeOK, Live
  <2>6. CASE p.id \in Live
    <3>1. new \in Settings
      BY <2>1, MergedType
    <3>2. row[p.id] \in Bucket
      BY <2>6 DEF Live, TypeInv, TypeOK
    <3>3. row' = [row EXCEPT ![p.id].settings = new]
      BY <1>8, <2>6 DEF UpdateWrite
    <3>4. row' \in [BucketIds -> Bucket \cup {None}]
      BY <3>1, <3>2, <3>3 DEF Bucket, TypeInv, TypeOK
    <3>5. \A b \in BucketIds : b # p.id => row'[b] = row[b]
      BY <2>1, <3>3 DEF TypeInv, TypeOK
    <3>6. Merged(asked[p.id], p.updates) \in Settings
      BY <2>1, <2>6, MergedType DEF TypeInv
    <3>7. asked' = [asked EXCEPT ![p.id] = Merged(asked[p.id], p.updates)]
      BY <1>8, <2>6 DEF UpdateWrite
    <3>8. /\ asked' \in [BucketIds -> Settings \cup {None}]
          /\ \A b \in Live' : asked'[b] \in Settings
      BY <2>1, <3>5, <3>6, <3>7 DEF TypeInv, TypeOK, Live
    <3>9. opened' \subseteq BucketIds
      BY <1>8, <2>1, <2>6 DEF UpdateWrite, Opened, TypeInv, TypeOK
    <3> QED
      BY <1>8, <2>4, <3>4, <3>8, <3>9 DEF UpdateWrite, TypeInv, TypeOK
  <2> QED
    BY <2>5, <2>6
<1>9. CASE UpdateReadBack(r)
  BY <1>2, <1>9 DEF UpdateReadBack, TypeInv, TypeOK, Live, Answers
<1>10. CASE DeleteCount(r)
  <2>1. /\ [p EXCEPT !.pc = "delete"] \in Proc
        /\ WellFormed([p EXCEPT !.pc = "delete"])
    BY <1>1, <1>10, SentinelAssumption
    DEF DeleteCount, At, Proc, PC, WellFormed, Ops
  <2> QED
    BY <1>2, <1>3, <1>10, <2>1, GotoTypes
    DEF DeleteCount, TypeInv, TypeOK, Live, Answers
<1>11. CASE DeleteRow(r)
  <2>1. /\ row' \in [BucketIds -> Bucket \cup {None}]
        /\ \A b \in BucketIds : row'[b] # None => row[b] # None
    BY <1>11 DEF DeleteRow, TypeInv, TypeOK
  <2>2. object' \in [Objects -> Object \cup {None}]
    BY <1>11 DEF DeleteRow, TypeInv, TypeOK
  <2> QED
    BY <1>2, <1>11, <2>1, <2>2 DEF DeleteRow, TypeInv, TypeOK, Live, Answers
<1>12. CASE PutInsert(r)
  <2>1. /\ proc' \in [Requests -> Proc]
        /\ \A q \in Requests : WellFormed(proc'[q])
        /\ loop' \in Requests \cup {Free}
    BY <1>2, <1>12 DEF PutInsert, Answers
  <2>2. p.object \in Objects /\ p.user \in Users
    BY <1>1, <1>12 DEF PutInsert, At, WellFormed
  <2>3. object' \in [Objects -> Object \cup {None}]
    <3>1. CASE object' = object
      BY <3>1 DEF TypeInv, TypeOK
    <3>2. CASE object' # object
      <4>1. PICK b \in PutTarget(p) :
                object' = [object EXCEPT ![p.object] = [bucket |-> b,
                                                        author |-> p.user]]
        BY <1>12, <3>2 DEF PutInsert
      <4>2. [bucket |-> b, author |-> p.user] \in Object
        BY <2>2 DEF PutTarget, Live, Object
      <4> QED
        BY <4>1, <4>2 DEF TypeInv, TypeOK
    <3> QED
      BY <3>1, <3>2
  <2> QED
    BY <1>12, <2>1, <2>3 DEF PutInsert, TypeInv, TypeOK, Live
<1> QED
  BY <1>4, <1>5, <1>6, <1>7, <1>8, <1>9, <1>10, <1>11, <1>12, ArriveType
  DEF Step

LEMMA InitType == Init => TypeInv
  BY IdleTypes DEF Init, TypeInv, TypeOK, Live

-----------------------------------------------------------------------------
(* What a step leaves alone *)

(* Only the request that takes the step has another local state after it,  *)
(* and it had its turn.                                                    *)
LEMMA StepFrame ==
    ASSUME TypeInv, NEW r \in Requests, Step(r)
    PROVE  /\ loop \in {Free, r}
           /\ \A q \in Requests \ {r} : proc'[q] = proc[q]
           /\ driver' = driver
  BY DEF TypeInv, TypeOK, Step, ArriveCreate, ArriveUpdate, ArriveDelete,
         ArrivePut, FindByName, CreateExists, CreateInsert, UpdateRead,
         UpdateWrite, UpdateReadBack, DeleteCount, DeleteRow, PutInsert,
         At, Goto, Answer

LEMMA ArriveLocal ==
    ASSUME TypeInv, NEW r \in Requests,
           \/ ArriveCreate(r) \/ ArriveUpdate(r)
           \/ ArriveDelete(r) \/ ArrivePut(r)
    PROVE  proc'[r].pc \in {"existsByName", "findByName"}
<1>1. CASE ArriveCreate(r)
  <2>1. PICK u, n, b, x :
            Goto(r, [Start("create", u, n) EXCEPT !.id = b, !.existing = x])
    BY <1>1 DEF ArriveCreate
  <2> QED
    BY <2>1 DEF Goto, Start, Idle, TypeInv, TypeOK
<1>2. CASE ArriveUpdate(r)
  BY <1>2 DEF ArriveUpdate, Goto, Start, Idle, TypeInv, TypeOK
<1>3. CASE ArriveDelete(r)
  <2>1. PICK op \in {"delete", "forceDelete"}, u \in Users, n \in Names :
          Goto(r, Start(op, u, n))
    BY <1>3 DEF ArriveDelete
  <2> QED
    BY <2>1 DEF Goto, Start, Idle, TypeInv, TypeOK
<1>4. CASE ArrivePut(r)
  <2>1. PICK u, n, o : Goto(r, [Start("put", u, n) EXCEPT !.object = o])
    BY <1>4 DEF ArrivePut
  <2> QED
    BY <2>1 DEF Goto, Start, Idle, TypeInv, TypeOK
<1> QED
  BY <1>1, <1>2, <1>3, <1>4

LEMMA AnswerLocal ==
    ASSUME TypeInv, NEW r \in Requests, NEW a \in Answers, Answer(r, a)
    PROVE  /\ proc'[r].pc = "idle" /\ proc'[r].op = None
           /\ proc'[r].id = None /\ proc'[r].answer = a
  BY DEF Answer, Goto, Idle, TypeInv, TypeOK

-----------------------------------------------------------------------------
(* Identities *)

(* A step that creates no bucket and draws no id for one. *)
LEMMA SteadyIds ==
    ASSUME TypeInv, IdInv, NEW r \in Requests, Step(r),
           Live' \subseteq Live, drawn \subseteq drawn',
           proc'[r].id \in {None, proc[r].id} \cup Live,
           proc'[r].op = "create" =>
                proc[r].op = "create" /\ proc'[r].id = proc[r].id
    PROVE  IdInv'
<1>1. \A q \in Requests \ {r} : proc'[q] = proc[q]
  BY StepFrame
<1>2. \A q \in Requests : proc[q].op = "create" => proc[q].id \in BucketIds
  BY DEF TypeInv, WellFormed
<1>3. None \notin BucketIds
  BY SentinelAssumption
<1> QED
  BY <1>1, <1>2, <1>3 DEF IdInv

LEMMA ArriveCreateIds ==
    ASSUME TypeInv, IdInv, NEW r \in Requests, ArriveCreate(r)
    PROVE  IdInv'
<1>1. PICK b \in BucketIds \ drawn :
          proc'[r].id = b /\ drawn' = drawn \cup {b}
  BY DEF ArriveCreate, Goto, Start, Idle, TypeInv, TypeOK
<1>2. Live' = Live /\ \A q \in Requests \ {r} : proc'[q] = proc[q]
  BY DEF ArriveCreate, Goto, Live, TypeInv, TypeOK
<1>3. b # None /\ b \notin Live
  BY SentinelAssumption DEF IdInv
<1>4. \A q \in Requests \ {r} : proc[q].id # b
  BY <1>3 DEF IdInv
<1> QED
  BY <1>1, <1>2, <1>3, <1>4 DEF IdInv

LEMMA CreateInsertIds ==
    ASSUME TypeInv, IdInv, NEW r \in Requests, CreateInsert(r)
    PROVE  IdInv'
<1>1. proc'[r].id = None /\ proc'[r].op = None
      /\ \A q \in Requests \ {r} : proc'[q] = proc[q]
  BY DEF CreateInsert, Answer, Goto, Idle, TypeInv, TypeOK
<1>2. proc[r].op = "create" /\ proc[r].id \in BucketIds
  BY DEF CreateInsert, At, TypeInv, WellFormed
<1>3. Live' \subseteq Live \cup {proc[r].id} /\ drawn' = drawn
  BY DEF CreateInsert, Live, TypeInv, TypeOK
<1>4. proc[r].id # None /\ None # "create"
  BY <1>2, SentinelAssumption DEF Ops
<1>5. proc[r].id \in drawn
  BY <1>2, <1>4 DEF IdInv
<1>6. \A q \in Requests \ {r} : proc[q].id # proc[r].id
  BY <1>2 DEF IdInv
<1>7. ASSUME NEW q \in Requests, proc'[q].op = "create"
      PROVE  /\ proc'[q].id \notin Live'
             /\ \A t \in Requests \ {q} : proc'[t].id # proc'[q].id
  <2>1. q # r /\ proc'[q] = proc[q]
    BY <1>1, <1>4, <1>7
  <2>2. proc[q].id \in BucketIds /\ proc[q].id # None
    BY <1>7, <2>1, SentinelAssumption DEF TypeInv, WellFormed
  <2> QED
    BY <1>1, <1>3, <1>6, <1>7, <2>1, <2>2 DEF IdInv
<1>8. Live' \subseteq drawn'
  BY <1>3, <1>5 DEF IdInv
<1>9. \A q \in Requests : proc'[q].id # None => proc'[q].id \in drawn'
  BY <1>1, <1>3 DEF IdInv
<1> QED
  BY <1>7, <1>8, <1>9 DEF IdInv

LEMMA StepIds ==
    ASSUME TypeInv, IdInv, NEW r \in Requests, Step(r)
    PROVE  IdInv'
<1>1. None # "create" /\ proc[r] \in Proc /\ WellFormed(proc[r])
  BY SentinelAssumption DEF Ops, TypeInv, TypeOK
<1>2. CASE ArriveUpdate(r)
  <2>1. proc'[r].id = None /\ proc'[r].op = "update"
    BY <1>2 DEF ArriveUpdate, Goto, Start, Idle, TypeInv, TypeOK
  <2> QED
    BY <1>2, <2>1, SteadyIds DEF ArriveUpdate, Live
<1>3. CASE ArriveDelete(r)
  BY <1>1, <1>3, SteadyIds
  DEF ArriveDelete, Goto, Start, Idle, Live, TypeInv, TypeOK
<1>4. CASE ArrivePut(r)
  BY <1>1, <1>4, SteadyIds
  DEF ArrivePut, Goto, Start, Idle, Live, TypeInv, TypeOK
<1>5. CASE FindByName(r)
  <2>1. proc[r].op # "create"
    BY <1>1, <1>5 DEF FindByName, At, WellFormed
  <2>2. Live' = Live /\ drawn' = drawn
    BY <1>5 DEF FindByName, Live
  <2>3. /\ proc'[r].op # "create"
        /\ proc'[r].id \in {None, proc[r].id} \cup Live
    <3>1. CASE \E a \in Answers : Answer(r, a)
      BY <1>1, <3>1, AnswerLocal
    <3>2. CASE ~\E a \in Answers : Answer(r, a)
      <4>1. PICK b \in Named(proc[r].name), pc \in PC :
                Goto(r, [proc[r] EXCEPT !.id = b, !.pc = pc])
        BY <1>5, <3>2 DEF FindByName, Answers, PC
      <4> QED
        BY <1>1, <2>1, <4>1 DEF Goto, Named, Proc, TypeInv, TypeOK
    <3> QED
      BY <3>1, <3>2
  <2> QED
    BY <2>2, <2>3, SteadyIds
<1>6. CASE CreateExists(r)
  <2>1. CASE \E a \in Answers : Answer(r, a)
    BY <1>1, <1>6, <2>1, AnswerLocal, SteadyIds DEF CreateExists, Live
  <2>2. CASE Goto(r, [proc[r] EXCEPT !.pc = "insert"])
    BY <1>1, <1>6, <2>2, SteadyIds
    DEF CreateExists, Goto, Live, Proc, TypeInv, TypeOK
  <2> QED
    BY <1>6, <2>1, <2>2 DEF CreateExists, Answers
<1>7. CASE UpdateRead(r)
  <2>1. CASE proc[r].id \in Live
    <3>1. proc'[r].id = proc[r].id /\ proc'[r].op = proc[r].op
      BY <1>1, <1>7, <2>1 DEF UpdateRead, Goto, Proc, TypeInv, TypeOK
    <3> QED
      BY <1>7, <3>1, SteadyIds DEF UpdateRead, Live
  <2>2. CASE proc[r].id \notin Live
    BY <1>1, <1>7, <2>2, AnswerLocal, SteadyIds DEF UpdateRead, Live, Answers
  <2> QED
    BY <2>1, <2>2
<1>8. CASE UpdateWrite(r)
  <2>1. Live' \subseteq Live
    BY <1>8 DEF UpdateWrite, Live, TypeInv, TypeOK
  <2>2. drawn' = drawn /\ proc'[r].id = proc[r].id /\ proc'[r].op = proc[r].op
    BY <1>1, <1>8 DEF UpdateWrite, Goto, Proc, TypeInv, TypeOK
  <2> QED
    BY <2>1, <2>2, SteadyIds
<1>9. CASE UpdateReadBack(r)
  BY <1>1, <1>9, SteadyIds
  DEF UpdateReadBack, Answer, Goto, Idle, Live, Proc, TypeInv, TypeOK
<1>10. CASE DeleteCount(r)
  BY <1>1, <1>10, SteadyIds
  DEF DeleteCount, Answer, Goto, Idle, Live, Proc, TypeInv, TypeOK
<1>11. CASE DeleteRow(r)
  <2>1. Live' \subseteq Live
    BY <1>11 DEF DeleteRow, Live, TypeInv, TypeOK
  <2> QED
    BY <1>1, <1>11, <2>1, SteadyIds
    DEF DeleteRow, Answer, Goto, Idle, TypeInv, TypeOK
<1>12. CASE PutInsert(r)
  BY <1>1, <1>12, SteadyIds
  DEF PutInsert, Answer, Goto, Idle, Live, Proc, TypeInv, TypeOK
<1> QED
  BY <1>2, <1>3, <1>4, <1>5, <1>6, <1>7, <1>8, <1>9, <1>10, <1>11, <1>12,
     ArriveCreateIds, CreateInsertIds DEF Step

-----------------------------------------------------------------------------
(* Access *)

(* A step that gives no bucket a new owner: what was established of the    *)
(* other requests stays so, what the step says of its own is assumed.      *)
LEMMA SteadyAccess ==
    ASSUME TypeInv, AccessInv, NEW r \in Requests, Step(r),
           opened \subseteq opened',
           \A b \in Live' : /\ b \in Live
                            /\ row'[b].owner = row[b].owner
                            /\ IsOpen(row'[b].settings) => b \in opened',
           \A o \in Objects : object'[o] # None =>
                object'[o] = object[o] /\ object[o].bucket \in Live',
           (proc'[r].op # "create" /\ proc'[r].id \in Live') =>
                \/ row'[proc'[r].id].owner = proc'[r].user
                \/ proc'[r].op = "put" /\ proc'[r].id \in opened'
    PROVE  AccessInv'
<1>1. \A q \in Requests \ {r} : proc'[q] = proc[q]
  BY StepFrame
<1>2. \A q \in Requests : (proc'[q].op # "create" /\ proc'[q].id \in Live') =>
            \/ row'[proc'[q].id].owner = proc'[q].user
            \/ proc'[q].op = "put" /\ proc'[q].id \in opened'
  BY <1>1 DEF AccessInv
<1>3. StrangersNeedOpenBucket'
  BY DEF AccessInv, StrangersNeedOpenBucket
<1> QED
  BY <1>2, <1>3 DEF AccessInv

(* A step that writes no table and answers or goes on with what it has.    *)
LEMMA QuietAccess ==
    ASSUME TypeInv, AccessInv, NEW r \in Requests, Step(r),
           UNCHANGED <<row, object, opened>>,
           \/ proc'[r].id = None
           \/ proc'[r].op = "create"
           \/ /\ proc'[r].id = proc[r].id /\ proc'[r].op = proc[r].op
              /\ proc'[r].user = proc[r].user
    PROVE  AccessInv'
<1>1. None \notin Live' /\ Live' = Live
  BY SentinelAssumption DEF Live
<1>2. (proc'[r].op # "create" /\ proc'[r].id \in Live') =>
            \/ row'[proc'[r].id].owner = proc'[r].user
            \/ proc'[r].op = "put" /\ proc'[r].id \in opened'
  BY <1>1 DEF AccessInv
<1>3. \A o \in Objects : object'[o] # None =>
            object'[o] = object[o] /\ object[o].bucket \in Live'
  BY <1>1 DEF AccessInv, StrangersNeedOpenBucket
<1> QED
  BY <1>1, <1>2, <1>3, SteadyAccess DEF AccessInv

LEMMA FindByNameAccess ==
    ASSUME TypeInv, AccessInv, NEW r \in Requests, FindByName(r)
    PROVE  AccessInv'
<1>1. Step(r) /\ UNCHANGED <<row, object, opened>> /\ proc[r] \in Proc
  BY DEF FindByName, Step, TypeInv, TypeOK
<1>2. CASE \E a \in Answers : Answer(r, a)
  BY <1>1, <1>2, AnswerLocal, QuietAccess
<1>3. CASE ~\E a \in Answers : Answer(r, a)
  <2>1. PICK b \in Named(proc[r].name), pc \in PC :
            /\ Goto(r, [proc[r] EXCEPT !.id = b, !.pc = pc])
            /\ Allowed(proc[r], b)
    BY <1>3 DEF FindByName, Answers, PC
  <2>2. /\ proc'[r].id = b /\ proc'[r].op = proc[r].op
        /\ proc'[r].user = proc[r].user
    BY <1>1, <2>1 DEF Goto, Proc, TypeInv, TypeOK
  <2>3. b \in Live /\ Live' = Live
    BY <1>1, <2>1 DEF Named, Live
  <2>4. \/ row[b].owner = proc[r].user
        \/ proc[r].op = "put" /\ b \in opened
    BY <2>1, <2>3 DEF Allowed, AccessInv
  <2>5. \A o \in Objects : object'[o] # None =>
            object'[o] = object[o] /\ object[o].bucket \in Live'
    BY <1>1, <2>3 DEF AccessInv, StrangersNeedOpenBucket
  <2> QED
    BY <1>1, <2>2, <2>3, <2>4, <2>5, SteadyAccess DEF AccessInv
<1> QED
  BY <1>2, <1>3

(* Nobody has found the bucket yet that a creation inserts. *)
LEMMA CreateInsertAccess ==
    ASSUME TypeInv, IdInv, AccessInv, NEW r \in Requests, CreateInsert(r)
    PROVE  AccessInv'
<1> DEFINE p == proc[r]
<1>1. Step(r) /\ object' = object
  BY DEF CreateInsert, Step
<1>2. proc'[r].id = None
  BY AnswerLocal DEF CreateInsert, Answers
<1>3. CASE Taken(p.name)
  BY <1>1, <1>2, <1>3, QuietAccess DEF CreateInsert
<1>4. CASE ~Taken(p.name)
  <2>1. p.op = "create" /\ p.id \in BucketIds /\ p.id \notin Live
    BY DEF CreateInsert, At, TypeInv, WellFormed, IdInv
  <2>2. /\ row'[p.id] = [name |-> p.name, owner |-> p.user,
                         settings |-> p.existing]
        /\ \A b \in BucketIds \ {p.id} : row'[b] = row[b]
        /\ opened' = Opened(p.id, p.existing)
    BY <1>4, <2>1 DEF CreateInsert, TypeInv, TypeOK
  <2>3. row'[p.id] # None
    <3>1. row'[p.id] \in Bucket
      BY <2>1, <2>2 DEF CreateInsert, At, Bucket, TypeInv, WellFormed
    <3> QED
      BY <3>1, SentinelAssumption
  <2>4. Live' = Live \cup {p.id}
    BY <2>1, <2>2, <2>3 DEF Live
  <2>5. /\ opened \subseteq opened'
        /\ IsOpen(p.existing) => p.id \in opened'
    BY <2>2 DEF Opened
  <2>6. \A b \in Live' : IsOpen(row'[b].settings) => b \in opened'
    BY <2>2, <2>4, <2>5 DEF AccessInv, Live
  <2>7. ASSUME NEW q \in Requests, proc'[q].op # "create", proc'[q].id \in Live'
        PROVE  \/ row'[proc'[q].id].owner = proc'[q].user
               \/ proc'[q].op = "put" /\ proc'[q].id \in opened'
    <3>1. q # r
      BY <1>2, <2>7, SentinelAssumption DEF Live
    <3>2. proc'[q] = proc[q] /\ proc[q].id # p.id
      BY <1>1, <2>1, <3>1, StepFrame DEF IdInv
    <3> QED
      BY <2>2, <2>4, <2>5, <2>7, <3>2 DEF AccessInv, Live
  <2>8. StrangersNeedOpenBucket'
    BY <1>1, <2>1, <2>2, <2>4, <2>5 DEF AccessInv, StrangersNeedOpenBucket, Live
  <2> QED
    BY <2>6, <2>7, <2>8 DEF AccessInv
<1> QED
  BY <1>3, <1>4

LEMMA UpdateWriteAccess ==
    ASSUME TypeInv, AccessInv, NEW r \in Requests, UpdateWrite(r)
    PROVE  AccessInv'
<1> DEFINE p == proc[r]
           new == Merged(p.existing, p.updates)
<1>1. /\ Step(r) /\ object' = object /\ p \in Proc
      /\ p.id \in BucketIds
  BY DEF UpdateWrite, Step, At, TypeInv, TypeOK, WellFormed
<1>2. /\ proc'[r].id = p.id /\ proc'[r].op = p.op
      /\ proc'[r].user = p.user
  BY <1>1 DEF UpdateWrite, Goto, Proc, TypeInv, TypeOK
<1>3. CASE p.id \notin Live
  BY <1>1, <1>2, <1>3, QuietAccess DEF UpdateWrite
<1>4. CASE p.id \in Live
  <2>1. row' = [row EXCEPT ![p.id].settings = new] /\ opened' = Opened(p.id, new)
    BY <1>4 DEF UpdateWrite
  <2>2. row[p.id] \in Bucket
    BY <1>4 DEF Live, TypeInv, TypeOK
  <2>3. /\ row'[p.id].settings = new /\ row'[p.id].owner = row[p.id].owner
        /\ \A b \in BucketIds \ {p.id} : row'[b] = row[b]
    BY <1>1, <2>1, <2>2 DEF Bucket, TypeInv, TypeOK
  <2>4. Live' \subseteq Live
    BY <1>4, <2>3 DEF Live
  <2>5. Live' = Live
    <3>1. row'[p.id] \in Bucket
      BY <1>1, <2>1, <2>2, MergedType
      DEF Bucket, UpdateWrite, At, Proc, TypeInv, TypeOK, WellFormed
    <3> QED
      BY <2>3, <2>4, <3>1, SentinelAssumption DEF Live
  <2>6. opened \subseteq opened' /\ (IsOpen(new) => p.id \in opened')
    BY <2>1 DEF Opened
  <2>7. \A b \in Live' : /\ b \in Live /\ row'[b].owner = row[b].owner
                         /\ IsOpen(row'[b].settings) => b \in opened'
    BY <2>3, <2>5, <2>6 DEF AccessInv, Live
  <2>8. \A o \in Objects : object'[o] # None =>
            object'[o] = object[o] /\ object[o].bucket \in Live'
    BY <1>1, <2>5 DEF AccessInv, StrangersNeedOpenBucket
  <2>9. (proc'[r].op # "create" /\ proc'[r].id \in Live') =>
            \/ row'[proc'[r].id].owner = proc'[r].user
            \/ proc'[r].op = "put" /\ proc'[r].id \in opened'
    BY <1>2, <2>6, <2>7 DEF AccessInv
  <2> QED
    BY <1>1, <2>6, <2>7, <2>8, <2>9, SteadyAccess
<1> QED
  BY <1>3, <1>4

LEMMA DeleteRowAccess ==
    ASSUME TypeInv, AccessInv, NEW r \in Requests, DeleteRow(r)
    PROVE  AccessInv'
<1> DEFINE gone == Doomed(proc[r])
<1>1. Step(r) /\ opened' = opened
  BY DEF DeleteRow, Step
<1>2. proc'[r].id = None
  BY AnswerLocal DEF DeleteRow, Answers
<1>3. Live' = Live \ gone /\ \A b \in Live' : row'[b] = row[b]
  BY DEF DeleteRow, Live
<1>4. \A o \in Objects : object'[o] # None =>
          object'[o] = object[o] /\ object[o].bucket \in Live'
  BY <1>3 DEF DeleteRow, ObjectsOf, AccessInv, StrangersNeedOpenBucket
<1>5. proc'[r].id \notin Live'
  BY <1>2, SentinelAssumption DEF Live
<1> QED
  BY <1>1, <1>3, <1>4, <1>5, SteadyAccess DEF AccessInv

LEMMA PutInsertAccess ==
    ASSUME TypeInv, AccessInv, NEW r \in Requests, PutInsert(r)
    PROVE  AccessInv'
<1> DEFINE p == proc[r]
<1>1. Step(r) /\ row' = row /\ opened' = opened
  BY DEF PutInsert, Step
<1>2. proc'[r].id = None
  BY AnswerLocal DEF PutInsert, Answers
<1>3. CASE object' = object
  BY <1>1, <1>2, <1>3, QuietAccess
<1>4. CASE object' # object
  <2>1. object' = [object EXCEPT ![p.object] = [bucket |-> p.id,
                                                author |-> p.user]]
        /\ p.id \in Live
    BY <1>4 DEF PutInsert, PutTarget
  <2>2. p.op = "put" /\ p.op # "create" /\ p.object \in Objects
    BY DEF PutInsert, At, TypeInv, WellFormed
  <2>3. row[p.id].owner = p.user \/ p.id \in opened
    BY <2>1, <2>2 DEF AccessInv
  <2>4. StrangersNeedOpenBucket'
    BY <1>1, <2>1, <2>2, <2>3
    DEF AccessInv, StrangersNeedOpenBucket, Live, TypeInv, TypeOK
  <2>5. \A q \in Requests : q # r => proc'[q] = proc[q]
    BY <1>1, StepFrame
  <2>6. Live' = Live /\ None \notin Live
    BY <1>1, SentinelAssumption DEF Live
  <2> QED
    BY <1>1, <1>2, <2>4, <2>5, <2>6 DEF AccessInv
<1> QED
  BY <1>3, <1>4

LEMMA StepAccess ==
    ASSUME TypeInv, IdInv, AccessInv, NEW r \in Requests, Step(r)
    PROVE  AccessInv'
<1>1. proc[r] \in Proc /\ WellFormed(proc[r])
  BY DEF TypeInv, TypeOK
<1>2. CASE ArriveCreate(r)
  <2>1. proc'[r].op = "create"
    BY <1>2 DEF ArriveCreate, Goto, Start, Idle, TypeInv, TypeOK
  <2> QED
    BY <1>2, <2>1, QuietAccess DEF ArriveCreate
<1>3. CASE ArriveUpdate(r) \/ ArriveDelete(r) \/ ArrivePut(r)
  <2>1. proc'[r].id = None
    BY <1>3 DEF ArriveUpdate, ArriveDelete, ArrivePut, Goto, Start, Idle,
                TypeInv, TypeOK
  <2> QED
    BY <1>3, <2>1, QuietAccess DEF ArriveUpdate, ArriveDelete, ArrivePut
<1>4. CASE CreateExists(r) \/ UpdateRead(r) \/ UpdateReadBack(r) \/ DeleteCount(r)
  <2>1. UNCHANGED <<row, object, opened>>
    BY <1>4 DEF CreateExists, UpdateRead, UpdateReadBack, DeleteCount
  <2>2. CASE \E a \in Answers : Answer(r, a)
    BY <2>1, <2>2, AnswerLocal, QuietAccess
  <2>3. CASE ~\E a \in Answers : Answer(r, a)
    <3>1. \E pc, x : Goto(r, [proc[r] EXCEPT !.pc = pc, !.existing = x])
      <4>1. CASE CreateExists(r)
        <5>1. Goto(r, [proc[r] EXCEPT !.pc = "insert"])
          BY <2>3, <4>1 DEF CreateExists, Answers
        <5>2. [proc[r] EXCEPT !.pc = "insert"]
                = [proc[r] EXCEPT !.pc = "insert", !.existing = proc[r].existing]
          BY <1>1 DEF Proc
        <5> QED
          BY <5>1, <5>2
      <4>2. CASE UpdateRead(r)
        BY <2>3, <4>2 DEF UpdateRead, Answers
      <4>3. CASE UpdateReadBack(r)
        BY <2>3, <4>3 DEF UpdateReadBack, Answers
      <4>4. CASE DeleteCount(r)
        <5>1. Goto(r, [proc[r] EXCEPT !.pc = "delete"])
          BY <2>3, <4>4 DEF DeleteCount, Answers
        <5>2. [proc[r] EXCEPT !.pc = "delete"]
                = [proc[r] EXCEPT !.pc = "delete", !.existing = proc[r].existing]
          BY <1>1 DEF Proc
        <5> QED
          BY <5>1, <5>2
      <4> QED
        BY <1>4, <4>1, <4>2, <4>3, <4>4
    <3>2. /\ proc'[r].id = proc[r].id /\ proc'[r].op = proc[r].op
          /\ proc'[r].user = proc[r].user
      BY <1>1, <3>1 DEF Goto, Proc, TypeInv, TypeOK
    <3> QED
      BY <2>1, <3>2, QuietAccess
  <2> QED
    BY <2>2, <2>3
<1> QED
  BY <1>2, <1>3, <1>4, FindByNameAccess, CreateInsertAccess, UpdateWriteAccess,
     DeleteRowAccess, PutInsertAccess DEF Step

-----------------------------------------------------------------------------
(* Turns of the event loop *)

(* Nobody but the request that takes the step is in the middle of a turn.  *)
LEMMA OthersWait ==
    ASSUME TypeInv, TurnInv, NEW r \in Requests, Step(r), TurnFacts(r)',
           SettingsAsAsked'
    PROVE  TurnInv'
<1>1. SUFFICES ASSUME driver = "sqlite", NEW q \in Requests \ {r}
               PROVE  TurnFacts(q)'
  BY StepFrame DEF TurnInv
<1>2. proc'[q] = proc[q] /\ loop \in {Free, r}
  BY StepFrame
<1>3. proc[q].pc \notin InTurn
  BY <1>1, <1>2, SentinelAssumption DEF TurnInv, TurnFacts
<1> QED
  BY <1>2, <1>3 DEF TurnFacts, InTurn

(* A step that is answered or whose request does not go on in this turn.   *)
LEMMA TurnEnds ==
    ASSUME TypeInv, TurnInv, NEW r \in Requests, Step(r),
           proc'[r].pc \notin InTurn, SettingsAsAsked'
    PROVE  TurnInv'
<1>1. TurnFacts(r)'
  BY DEF TurnFacts, InTurn
<1> QED
  BY <1>1, OthersWait

LEMMA SettingsStay ==
    ASSUME TurnInv, UNCHANGED <<driver, row, asked>>
    PROVE  SettingsAsAsked'
  BY DEF TurnInv, SettingsAsAsked, Live

LEMMA FindByNameTurn ==
    ASSUME TypeInv, TurnInv, NEW r \in Requests, FindByName(r)
    PROVE  TurnInv'
<1>1. Step(r) /\ SettingsAsAsked' /\ proc[r] \in Proc /\ row' = row
      /\ driver' = driver
  BY SettingsStay DEF FindByName, Step, TypeInv, TypeOK
<1>2. CASE \E a \in Answers : Answer(r, a)
  <2>1. proc'[r].pc \notin InTurn
    BY <1>2, AnswerLocal DEF InTurn
  <2> QED
    BY <1>1, <2>1, TurnEnds
<1>3. CASE ~\E a \in Answers : Answer(r, a)
  <2> DEFINE pc == CASE proc[r].op = "update" -> "readExisting"
                     [] proc[r].op = "put" -> "write"
                     [] OTHER -> "count"
  <2>1. PICK b \in Named(proc[r].name) :
            /\ Goto(r, [proc[r] EXCEPT !.id = b, !.pc = pc])
            /\ IF proc[r].op = "put" THEN AwaitFiles ELSE AwaitQuery(r)
    BY <1>3 DEF FindByName, Answers
  <2>2. proc'[r].id = b /\ proc'[r].pc = pc
    BY <1>1, <2>1 DEF Goto, Proc, TypeInv, TypeOK
  <2>3. CASE proc[r].op = "put"
    BY <1>1, <2>2, <2>3, TurnEnds DEF InTurn
  <2>4. CASE proc[r].op # "put" /\ driver = "sqlite"
    <3>1. loop' = r /\ b \in Live /\ Live' = Live
      BY <1>1, <2>1, <2>4 DEF AwaitQuery, Named, Live
    <3>2. pc \in {"readExisting", "count"}
      BY <2>4
    <3>3. TurnFacts(r)'
      BY <2>2, <3>1, <3>2 DEF TurnFacts
    <3> QED
      BY <1>1, <3>3, OthersWait
  <2>5. CASE driver # "sqlite"
    BY <1>1, <2>5 DEF TurnInv
  <2> QED
    BY <2>3, <2>4, <2>5
<1> QED
  BY <1>2, <1>3

LEMMA CreateExistsTurn ==
    ASSUME TypeInv, TurnInv, NEW r \in Requests, CreateExists(r)
    PROVE  TurnInv'
<1>1. Step(r) /\ SettingsAsAsked' /\ proc[r] \in Proc /\ row' = row
      /\ driver' = driver
  BY SettingsStay DEF CreateExists, Step, TypeInv, TypeOK
<1>2. CASE Named(proc[r].name) # {}
  <2>1. proc'[r].pc \notin InTurn
    BY <1>2, AnswerLocal DEF CreateExists, InTurn, Answers
  <2> QED
    BY <1>1, <2>1, TurnEnds
<1>3. CASE Named(proc[r].name) = {} /\ driver = "sqlite"
  <2>1. /\ proc'[r].pc = "insert" /\ proc'[r].name = proc[r].name
        /\ loop' = r
    BY <1>1, <1>3 DEF CreateExists, Goto, AwaitQuery, Proc, TypeInv, TypeOK
  <2>3. \A n : Named(n)' = Named(n)
    BY <1>1 DEF Named, Live
  <2>4. TurnFacts(r)'
    BY <1>3, <2>1, <2>3 DEF TurnFacts, Taken, InTurn
  <2> QED
    BY <1>1, <2>4, OthersWait
<1>4. CASE driver # "sqlite"
  BY <1>1, <1>4 DEF TurnInv
<1> QED
  BY <1>2, <1>3, <1>4

LEMMA CreateInsertTurn ==
    ASSUME TypeInv, IdInv, TurnInv, NEW r \in Requests, CreateInsert(r)
    PROVE  TurnInv'
<1> DEFINE p == proc[r]
<1>1. Step(r)
  BY DEF Step
<1>2. proc'[r].pc \notin InTurn
  BY AnswerLocal DEF CreateInsert, Answers, InTurn
<1>3. SettingsAsAsked'
  <2>1. CASE Taken(p.name)
    BY <2>1, SettingsStay DEF CreateInsert
  <2>2. CASE ~Taken(p.name)
    <3>1. p.id \in BucketIds
      BY DEF CreateInsert, At, TypeInv, WellFormed
    <3>2. /\ row'[p.id].settings = asked'[p.id]
          /\ \A b \in BucketIds \ {p.id} :
                row'[b] = row[b] /\ asked'[b] = asked[b]
      BY <2>2, <3>1 DEF CreateInsert, TypeInv, TypeOK
    <3>3. driver' = driver
      BY DEF CreateInsert
    <3> QED
      BY <3>2, <3>3 DEF TurnInv, SettingsAsAsked, Live
  <2> QED
    BY <2>1, <2>2
<1> QED
  BY <1>1, <1>2, <1>3, TurnEnds

LEMMA UpdateReadTurn ==
    ASSUME TypeInv, TurnInv, NEW r \in Requests, UpdateRead(r)
    PROVE  TurnInv'
<1>1. Step(r) /\ SettingsAsAsked' /\ proc[r] \in Proc /\ row' = row
      /\ driver' = driver
  BY SettingsStay DEF UpdateRead, Step, TypeInv, TypeOK
<1>2. CASE driver = "sqlite"
  <2>1. proc[r].id \in Live
    BY <1>2 DEF UpdateRead, At, TurnInv, TurnFacts
  <2>2. /\ proc'[r].pc = "update" /\ proc'[r].id = proc[r].id
        /\ proc'[r].existing = row[proc[r].id].settings
        /\ loop' = r
    BY <1>1, <1>2, <2>1 DEF UpdateRead, Goto, AwaitQuery, Proc, TypeInv, TypeOK
  <2>3. TurnFacts(r)'
    BY <1>1, <2>1, <2>2 DEF TurnFacts, InTurn, Live
  <2> QED
    BY <1>1, <2>3, OthersWait
<1>3. CASE driver # "sqlite"
  BY <1>1, <1>3 DEF TurnInv
<1> QED
  BY <1>2, <1>3

(* What is written back is what the update read, with its own changes.     *)
LEMMA UpdateWriteTurn ==
    ASSUME TypeInv, TurnInv, NEW r \in Requests, UpdateWrite(r)
    PROVE  TurnInv'
<1> DEFINE p == proc[r]
           new == Merged(p.existing, p.updates)
<1>1. Step(r) /\ driver' = driver /\ p \in Proc
  BY DEF UpdateWrite, Step, TypeInv, TypeOK
<1>2. CASE driver = "sqlite"
  <2>1. p.id \in Live /\ p.existing = row[p.id].settings
        /\ asked[p.id] = row[p.id].settings
    BY <1>2 DEF UpdateWrite, At, TurnInv, TurnFacts, SettingsAsAsked
  <2>2. row[p.id] \in Bucket /\ p.id \in BucketIds
    BY <2>1 DEF Live, TypeInv, TypeOK
  <2>3. /\ row' = [row EXCEPT ![p.id].settings = new]
        /\ asked' = [asked EXCEPT ![p.id] = Merged(asked[p.id], p.updates)]
    BY <2>1 DEF UpdateWrite
  <2>4. /\ row'[p.id].settings = asked'[p.id]
        /\ \A b \in BucketIds \ {p.id} :
                row'[b] = row[b] /\ asked'[b] = asked[b]
    BY <2>1, <2>2, <2>3 DEF Bucket, TypeInv, TypeOK
  <2>5. SettingsAsAsked'
    BY <1>1, <2>4 DEF TurnInv, SettingsAsAsked, Live
  <2>6. p.id \in Live'
    <3>1. row'[p.id] \in Bucket
      BY <2>2, <2>3, MergedType
      DEF Bucket, UpdateWrite, At, Proc, TypeInv, TypeOK, WellFormed
    <3> QED
      BY <2>2, <3>1, SentinelAssumption DEF Live
  <2>7. proc'[r].pc = "readBack" /\ proc'[r].id = p.id /\ loop' = r
    BY <1>1, <1>2 DEF UpdateWrite, Goto, AwaitQuery, Proc, TypeInv, TypeOK
  <2>8. TurnFacts(r)'
    BY <2>6, <2>7 DEF TurnFacts, InTurn
  <2> QED
    BY <1>1, <2>5, <2>8, OthersWait
<1>3. CASE driver # "sqlite"
  BY <1>1, <1>3 DEF TurnInv, SettingsAsAsked
<1> QED
  BY <1>2, <1>3

LEMMA DeleteCountTurn ==
    ASSUME TypeInv, TurnInv, NEW r \in Requests, DeleteCount(r)
    PROVE  TurnInv'
<1> DEFINE p == proc[r]
<1>1. Step(r) /\ SettingsAsAsked' /\ p \in Proc /\ object' = object
      /\ driver' = driver
  BY SettingsStay DEF DeleteCount, Step, TypeInv, TypeOK
<1>2. CASE p.op = "delete" /\ ObjectsOf(p.id) # {}
  <2>1. proc'[r].pc \notin InTurn
    BY <1>2, AnswerLocal DEF DeleteCount, InTurn, Answers
  <2> QED
    BY <1>1, <2>1, TurnEnds
<1>3. CASE ~(p.op = "delete" /\ ObjectsOf(p.id) # {}) /\ driver = "sqlite"
  <2>1. /\ proc'[r].pc = "delete" /\ proc'[r].id = p.id /\ proc'[r].op = p.op
        /\ loop' = r
    BY <1>1, <1>3 DEF DeleteCount, Goto, AwaitQuery, Proc, TypeInv, TypeOK
  <2>2. \A b : ObjectsOf(b)' = ObjectsOf(b)
    BY <1>1 DEF ObjectsOf
  <2>3. TurnFacts(r)'
    BY <1>3, <2>1, <2>2 DEF TurnFacts, InTurn
  <2> QED
    BY <1>1, <2>3, OthersWait
<1>4. CASE driver # "sqlite"
  BY <1>1, <1>4 DEF TurnInv
<1> QED
  BY <1>2, <1>3, <1>4

LEMMA StepTurn ==
    ASSUME TypeInv, IdInv, TurnInv, NEW r \in Requests, Step(r)
    PROVE  TurnInv'
<1>1. CASE \/ ArriveCreate(r) \/ ArriveUpdate(r)
           \/ ArriveDelete(r) \/ ArrivePut(r)
  <2>1. proc'[r].pc \notin InTurn
    BY <1>1, ArriveLocal DEF InTurn
  <2>2. SettingsAsAsked'
    BY <1>1, SettingsStay
    DEF ArriveCreate, ArriveUpdate, ArriveDelete, ArrivePut
  <2> QED
    BY <2>1, <2>2, TurnEnds
<1>2. CASE UpdateReadBack(r) \/ DeleteRow(r) \/ PutInsert(r)
  <2>1. proc'[r].pc \notin InTurn
    BY <1>2, AnswerLocal
    DEF UpdateReadBack, DeleteRow, PutInsert, InTurn, Answers
  <2>2. SettingsAsAsked'
    <3>1. CASE DeleteRow(r)
      BY <3>1 DEF DeleteRow, TurnInv, SettingsAsAsked, Live
    <3>2. CASE UpdateReadBack(r) \/ PutInsert(r)
      BY <3>2, SettingsStay DEF UpdateReadBack, PutInsert
    <3> QED
      BY <1>2, <3>1, <3>2
  <2> QED
    BY <2>1, <2>2, TurnEnds
<1> QED
  BY <1>1, <1>2, FindByNameTurn, CreateExistsTurn, CreateInsertTurn,
     UpdateReadTurn, UpdateWriteTurn, DeleteCountTurn DEF Step

-----------------------------------------------------------------------------
(* The invariant *)

LEMMA InitRegistry == Init => RegistryInv
<1> SUFFICES ASSUME Init PROVE RegistryInv
  OBVIOUS
<1>1. TypeInv
  BY InitType
<1>2. /\ Live = {} /\ \A o \in Objects : object[o] = None
      /\ \A r \in Requests : proc[r] = Idle
  BY DEF Init, Live
<1>3. Idle.op = None /\ Idle.id = None /\ Idle.pc = "idle" /\ None # "create"
  BY SentinelAssumption DEF Idle, Ops
<1>4. IdInv
  BY <1>2, <1>3 DEF IdInv
<1>5. AccessInv
  BY <1>2 DEF AccessInv, StrangersNeedOpenBucket
<1>6. TurnInv
  BY <1>2, <1>3 DEF TurnInv, TurnFacts, InTurn, SettingsAsAsked
<1> QED
  BY <1>1, <1>4, <1>5, <1>6 DEF RegistryInv

LEMMA StutterRegistry == RegistryInv /\ UNCHANGED vars => RegistryInv'
<1> SUFFICES ASSUME RegistryInv, UNCHANGED vars PROVE RegistryInv'
  OBVIOUS
<1> USE DEF RegistryInv, vars
<1>1. TypeInv'
  BY DEF TypeInv, TypeOK, Live
<1>2. IdInv'
  BY DEF IdInv, Live
<1>3. AccessInv'
  BY DEF AccessInv, StrangersNeedOpenBucket, Live
<1>4. TurnInv'
  BY DEF TurnInv, TurnFacts, SettingsAsAsked, Live, Taken, Named, ObjectsOf
<1> QED
  BY <1>1, <1>2, <1>3, <1>4

LEMMA NextRegistry == RegistryInv /\ [Next]_vars => RegistryInv'
<1> SUFFICES ASSUME RegistryInv, NEW r \in Requests, Step(r)
             PROVE  RegistryInv'
  BY NextSteps, StutterRegistry
<1> QED
  BY StepType, StepIds, StepAccess, StepTurn DEF RegistryInv

LEMMA RegistrySafe == Spec => []RegistryInv
  BY InitRegistry, NextRegistry, PTL DEF Spec

-----------------------------------------------------------------------------
(* What clients may rely on *)

(* Every variable keeps its type, for any number of requests.              *)
THEOREM RegistryTypeCorrect == Spec => []TypeOK
<1>1. RegistryInv => TypeOK
  BY DEF RegistryInv, TypeInv
<1> QED
  BY <1>1, RegistrySafe, PTL

(* With both databases no object is left in a bucket that neither belongs  *)
(* to its author nor was ever open to writing, although the access check   *)
(* is made before the transfer of the body and the bucket may be closed,   *)
(* deleted or created anew by somebody else until the INSERT               *)
(* (ObjectService.putObject).                                              *)
THEOREM StrangersKeptOut == Spec => []StrangersNeedOpenBucket
<1>1. RegistryInv => StrangersNeedOpenBucket
  BY DEF RegistryInv, AccessInv
<1> QED
  BY <1>1, RegistrySafe, PTL

(* On SQLite no update of a bucket is lost, though each writes all the     *)
(* settings back: an update reads and writes in one turn of the event loop *)
(* (BucketRepository.update).                                              *)
THEOREM NoUpdateLost == Spec => []SettingsAsAsked
<1>1. RegistryInv => SettingsAsAsked
  BY DEF RegistryInv, TurnInv
<1> QED
  BY <1>1, RegistrySafe, PTL

(* With both databases a bucket is changed or deleted only on behalf of    *)
(* its owner: the statement names the id that the access check found, and  *)
(* an id never gets another owner (BucketService).                         *)
THEOREM OwnersOnly == Spec => OnlyOwnersChange
<1> DEFINE Owned == \A b \in Live : \A r \in Requests :
                        (row'[b] # row[b] /\ proc'[r] # proc[r])
                            => proc[r].user = row[b].owner
<1>1. RegistryInv /\ [Next]_vars => [Owned]_vars
  <2> SUFFICES ASSUME RegistryInv, NEW q \in Requests, Step(q),
                      NEW b \in Live, NEW r \in Requests,
                      row'[b] # row[b], proc'[r] # proc[r]
               PROVE  proc[r].user = row[b].owner
    BY NextSteps
  <2> USE DEF RegistryInv
  <2>1. r = q
    BY StepFrame
  <2>2. b \in BucketIds /\ proc[r] \in Proc /\ WellFormed(proc[r])
    BY DEF Live, TypeInv, TypeOK
  <2>3. CASE CreateInsert(r)
    <3>1. b = proc[r].id
      BY <2>2, <2>3 DEF CreateInsert, TypeInv, TypeOK
    <3> QED
      BY <2>2, <2>3, <3>1 DEF CreateInsert, At, WellFormed, IdInv
  <2>4. CASE UpdateWrite(r)
    <3>1. b = proc[r].id
      BY <2>2, <2>4 DEF UpdateWrite, TypeInv, TypeOK
    <3>2. proc[r].op = "update"
      BY <2>2, <2>4 DEF UpdateWrite, At, WellFormed
    <3> QED
      BY <3>1, <3>2 DEF AccessInv
  <2>5. CASE DeleteRow(r)
    <3>1. b = proc[r].id
      BY <2>2, <2>5 DEF DeleteRow, Doomed
    <3>2. proc[r].op \in {"delete", "forceDelete"}
      BY <2>2, <2>5 DEF DeleteRow, At, WellFormed
    <3> QED
      BY <3>1, <3>2 DEF AccessInv
  <2>6. CreateInsert(r) \/ UpdateWrite(r) \/ DeleteRow(r)
    BY <2>1 DEF Step, ArriveCreate, ArriveUpdate, ArriveDelete, ArrivePut,
                FindByName, CreateExists, UpdateRead, UpdateReadBack,
                DeleteCount, PutInsert
  <2> QED
    BY <2>3, <2>4, <2>5, <2>6
<1> QED
  BY <1>1, RegistrySafe, PTL DEF Spec, OnlyOwnersChange

(* On SQLite a deletion without force removes no object: the count and the *)
(* DELETE are in one turn, and the other steps of a deletion write nothing *)
(* (BucketService.deleteBucket).                                           *)
THEOREM PlainDeletionSpares == Spec => PlainDeletionSparesObjects
<1> DEFINE Spared == \A r \in Requests :
        (driver = "sqlite" /\ proc[r].op = "delete" /\ proc'[r] # proc[r])
            => \A o \in Objects : object[o] # None => object'[o] # None
<1>1. RegistryInv /\ [Next]_vars => [Spared]_vars
  <2> SUFFICES ASSUME RegistryInv, NEW q \in Requests, Step(q),
                      NEW r \in Requests, driver = "sqlite",
                      proc[r].op = "delete", proc'[r] # proc[r],
                      NEW o \in Objects, object[o] # None
               PROVE  object'[o] # None
    BY NextSteps
  <2> USE DEF RegistryInv
  <2>1. r = q
    BY StepFrame
  <2>2. CASE DeleteRow(r)
    <3>1. ObjectsOf(proc[r].id) = {}
      BY <2>2 DEF DeleteRow, At, TurnInv, TurnFacts
    <3> QED
      BY <2>2, <3>1 DEF DeleteRow, Doomed
  <2>3. CASE ~DeleteRow(r)
    <3>1. ~PutInsert(r)
      BY DEF PutInsert, At, TypeInv, WellFormed
    <3> QED
      BY <2>1, <2>3, <3>1
      DEF Step, ArriveCreate, ArriveUpdate, ArriveDelete, ArrivePut, FindByName,
          CreateExists, CreateInsert, UpdateRead, UpdateWrite, UpdateReadBack,
          DeleteCount
  <2> QED
    BY <2>2, <2>3
<1> QED
  BY <1>1, RegistrySafe, PTL DEF Spec, PlainDeletionSparesObjects

(* On SQLite a creation that comes too late is told of the conflict and no *)
(* update is answered without its bucket: existsByName and the INSERT, the *)
(* UPDATE and the SELECT after it are in one turn (createBucket, update).  *)
THEOREM AnswersAlwaysFit == Spec => AnswersFit
<1> DEFINE Fit == \A r \in Requests :
        (driver = "sqlite" /\ proc'[r] # proc[r])
            => /\ proc'[r].answer # "emptyBody"
               /\ proc[r].op = "create" => proc'[r].answer # "internalError"
<1>1. RegistryInv /\ [Next]_vars => [Fit]_vars
  <2> SUFFICES ASSUME RegistryInv, NEW q \in Requests, Step(q),
                      NEW r \in Requests, driver = "sqlite",
                      proc'[r] # proc[r]
               PROVE  /\ proc'[r].answer # "emptyBody"
                      /\ proc[r].op = "create"
                            => proc'[r].answer # "internalError"
    BY NextSteps
  <2> USE DEF RegistryInv
  <2>1. r = q /\ TypeInv' /\ proc'[r] \in Proc
    BY StepFrame, StepType DEF TypeInv, TypeOK
  <2>2. CASE proc'[r].pc # "idle"
    <3>1. proc'[r].answer = None
      BY <2>1, <2>2 DEF TypeInv, WellFormed
    <3> QED
      BY <3>1, SentinelAssumption DEF Answers
  <2>3. CASE proc'[r].pc = "idle"
    <3>1. WellFormed(proc[r]) /\ TurnFacts(r)
      BY DEF TypeInv, TurnInv
    <3>2. CASE FindByName(r)
      <4>1. CASE Answer(r, "refused")
        BY <4>1, AnswerLocal DEF Answers
      <4>2. CASE ~Answer(r, "refused")
        <5>1. proc'[r].pc \in {"readExisting", "write", "count"}
          BY <3>2, <4>2 DEF FindByName, Goto, Proc, TypeInv, TypeOK
        <5> QED
          BY <2>3, <5>1
      <4> QED
        BY <4>1, <4>2
    <3>3. CASE CreateExists(r) \/ UpdateRead(r) \/ DeleteCount(r)
      <4>1. CASE Answer(r, "refused")
        BY <4>1, AnswerLocal DEF Answers
      <4>2. CASE ~Answer(r, "refused")
        <5>1. proc'[r].pc \in {"insert", "update", "delete"}
          BY <3>3, <4>2
          DEF CreateExists, UpdateRead, DeleteCount, Goto, Proc, TypeInv, TypeOK
        <5> QED
          BY <2>3, <5>1
      <4> QED
        BY <4>1, <4>2
    <3>4. CASE CreateInsert(r)
      <4>1. Answer(r, "done")
        BY <3>1, <3>4 DEF CreateInsert, At, TurnFacts
      <4> QED
        BY <4>1, AnswerLocal DEF Answers
    <3>5. CASE UpdateReadBack(r)
      <4>1. Answer(r, "done")
        BY <3>1, <3>5 DEF UpdateReadBack, At, TurnFacts
      <4> QED
        BY <4>1, AnswerLocal DEF Answers
    <3>6. CASE DeleteRow(r)
      BY <3>6, AnswerLocal DEF DeleteRow, Answers
    <3>7. CASE PutInsert(r)
      <4>1. proc[r].op = "put"
        BY <3>1, <3>7 DEF PutInsert, At, WellFormed
      <4>2. Answer(r, "internalError") \/ Answer(r, "done")
        BY <3>7 DEF PutInsert
      <4> QED
        BY <4>1, <4>2, AnswerLocal DEF Answers
    <3>8. CASE UpdateWrite(r)
      <4>1. proc'[r].pc = "readBack"
        BY <3>8 DEF UpdateWrite, Goto, TypeInv, TypeOK, Proc
      <4> QED
        BY <2>3, <4>1
    <3>9. CASE \/ ArriveCreate(r) \/ ArriveUpdate(r)
               \/ ArriveDelete(r) \/ ArrivePut(r)
      BY <2>3, <3>9, ArriveLocal
    <3> QED
      BY <2>1, <3>2, <3>3, <3>4, <3>5, <3>6, <3>7, <3>8, <3>9 DEF Step
  <2> QED
    BY <2>2, <2>3
<1> QED
  BY <1>1, RegistrySafe, PTL DEF Spec, AnswersFit
=============================================================================
