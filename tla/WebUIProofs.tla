----------------------------- MODULE WebUIProofs -----------------------------
(***************************************************************************)
(* Proofs about WebUI, for any files, sizes, folders and buckets, any      *)
(* number of batches, deletions and clicks, answers in any order, failing  *)
(* and lost ones.                                                          *)
(***************************************************************************)
EXTENDS WebUI, FiniteSetTheorems, TLAPS

-----------------------------------------------------------------------------
(* The dashboard *)

(* A creation the server has carried out and whose answer is on its way.   *)
Pending == creating.pc \in {"created", "lost"}

Removed(b) == \E r \in Removals :
                /\ removal[r].pc \in {"deleted", "lost"}
                /\ removal[r].id = b

(* Ids are drawn once, and only those drawn are on a list or deleted.      *)
DrawnInv ==
    /\ fetching.got \subseteq drawn
    /\ Pending => creating.id \in drawn /\ buckets[creating.id] <= 1
    /\ \A b \in BucketIds : buckets[b] > 0 => b \in drawn
    /\ \A r \in Removals : removal[r].pc # "new" => removal[r].id \in drawn
    /\ \A b \in BucketIds : Removed(b) => b \notin owned

(* Before the list is there, nothing is deleted, and nothing has been      *)
(* created unless the history says so.                                     *)
FetchInv ==
    Fetching => /\ \A r \in Removals : removal[r].pc = "new"
                /\ ~stale => /\ creating.pc = "idle"
                             /\ fetching.pc = "ok" => fetching.got = owned
                             /\ \A b \in BucketIds : buckets[b] = 0

(* After that the list is what the server has, up to the answers that are  *)
(* under way.                                                              *)
ListInv ==
    (~Fetching /\ ~stale) =>
        /\ \A b \in BucketIds : buckets[b] \in {0, 1}
        /\ \A b \in owned : (Pending /\ creating.id = b) \/ buckets[b] = 1
        /\ \A b \in BucketIds \ owned : buckets[b] = 0 \/ Removed(b)
        /\ Pending => /\ creating.id \in owned
                      /\ buckets[creating.id] = 0
                      /\ \A r \in Removals : removal[r].pc # "new"
                                                => removal[r].id # creating.id

DashboardInv == DashboardTypeOK /\ DrawnInv /\ FetchInv /\ ListInv

LEMMA InitDashboard == DashboardInit => DashboardInv
<1> SUFFICES ASSUME DashboardInit PROVE DashboardInv
  OBVIOUS
<1> USE DashboardAssumption DEF DashboardInit
<1>1. DashboardTypeOK
  <2>1. removal \in [Removals -> [pc : {"new", "sent", "deleted", "refused", "lost", "over"},
                                 id : BucketIds \cup {Unset}]]
    OBVIOUS
  <2>2. buckets \in [BucketIds -> 0..2]
    OBVIOUS
  <2> QED
    BY <2>1, <2>2 DEF DashboardTypeOK
<1>2. DrawnInv
  BY DEF DrawnInv, Pending, Removed
<1>3. FetchInv /\ ListInv
  BY DEF FetchInv, ListInv, Fetching
<1> QED
  BY <1>1, <1>2, <1>3 DEF DashboardInv

LEMMA ServeFetchKeeps ==
    ASSUME DashboardInv, ServeFetch
    PROVE  DashboardInv'
  BY DEF ServeFetch, DashboardInv, DashboardTypeOK, DrawnInv, FetchInv, ListInv,
         Pending, Removed, Fetching

LEMMA FetchArrivesKeeps ==
    ASSUME DashboardInv, FetchArrives
    PROVE  DashboardInv'
<1> USE DEF FetchArrives, DashboardInv, DashboardTypeOK, Pending, Removed, Fetching
<1>1. DashboardTypeOK'
  BY DEF DrawnInv
<1>2. DrawnInv'
  BY DEF DrawnInv
<1>3. FetchInv'
  BY DEF FetchInv
<1>4. ListInv'
  <2> SUFFICES ASSUME ~stale' PROVE ListInv'
    BY DEF ListInv
  <2>1. /\ fetching.pc = "ok" /\ ~stale /\ creating.pc = "idle"
        /\ fetching.got = owned
        /\ \A r \in Removals : removal[r].pc = "new"
    BY DEF FetchInv
  <2>2. \A b \in BucketIds : buckets'[b] = IF b \in owned THEN 1 ELSE 0
    BY <2>1
  <2>3. UNCHANGED <<owned, creating, removal>>
    OBVIOUS
  <2>4. owned \subseteq BucketIds
    OBVIOUS
  <2> QED
    BY <2>1, <2>2, <2>3, <2>4 DEF ListInv
<1> QED
  BY <1>1, <1>2, <1>3, <1>4

LEMMA HandleCreateKeeps ==
    ASSUME DashboardInv, HandleCreate
    PROVE  DashboardInv'
<1> USE DEF HandleCreate, DashboardInv, DashboardTypeOK, Pending, Removed, Fetching
<1>1. DashboardTypeOK'
  BY DEF DrawnInv
<1>2. DrawnInv'
  BY DEF DrawnInv
<1>3. FetchInv'
  BY DEF FetchInv
<1>4. ListInv'
  BY DEF ListInv, FetchInv, DrawnInv
<1> QED
  BY <1>1, <1>2, <1>3, <1>4

LEMMA ServeCreateKeeps ==
    ASSUME DashboardInv, ServeCreate
    PROVE  DashboardInv'
  BY DEF ServeCreate, DashboardInv, DashboardTypeOK, DrawnInv, FetchInv, ListInv,
         Pending, Removed, Fetching

LEMMA CreateArrivesKeeps ==
    ASSUME DashboardInv, CreateArrives
    PROVE  DashboardInv'
<1> USE DEF CreateArrives, DashboardInv, DashboardTypeOK, Pending, Removed, Fetching
<1>1. DashboardTypeOK'
  BY DEF DrawnInv
<1>2. DrawnInv'
  BY DEF DrawnInv
<1>3. FetchInv'
  BY DEF FetchInv
<1>4. ListInv'
  <2> SUFFICES ASSUME ~Fetching, ~stale' PROVE ListInv'
    BY DEF ListInv
  <2>1. ~stale /\ creating.pc \in {"created", "refused"} /\ creating'.pc = "idle"
    OBVIOUS
  <2>2. UNCHANGED <<owned, removal, fetching>>
    OBVIOUS
  <2>3. CASE creating.pc = "refused"
    <3>1. buckets' = buckets
      BY <2>3
    <3> QED
      BY <2>1, <2>2, <2>3, <3>1 DEF ListInv
  <2>4. CASE creating.pc = "created"
    <3>1. creating.id \in owned /\ buckets[creating.id] = 0
      BY <2>1, <2>4 DEF ListInv
    <3>2. \A b \in BucketIds :
            buckets'[b] = IF b = creating.id THEN 1 ELSE buckets[b]
      BY <3>1, <2>4
    <3> QED
      BY <2>1, <2>2, <3>1, <3>2 DEF ListInv
  <2> QED
    BY <2>1, <2>3, <2>4
<1> QED
  BY <1>1, <1>2, <1>3, <1>4

LEMMA HandleRemoveKeeps ==
    ASSUME DashboardInv, NEW r \in Removals, NEW id \in BucketIds, HandleRemove(r, id)
    PROVE  DashboardInv'
  BY DEF HandleRemove, DashboardInv, DashboardTypeOK, DrawnInv, FetchInv, ListInv,
         Pending, Removed, Fetching

LEMMA ServeRemoveKeeps ==
    ASSUME DashboardInv, NEW r \in Removals, ServeRemove(r)
    PROVE  DashboardInv'
  BY DEF ServeRemove, DashboardInv, DashboardTypeOK, DrawnInv, FetchInv, ListInv,
         Pending, Removed, Fetching

LEMMA RemoveArrivesKeeps ==
    ASSUME DashboardInv, NEW r \in Removals, RemoveArrives(r)
    PROVE  DashboardInv'
<1> USE DEF RemoveArrives, Filtered, DashboardInv, DashboardTypeOK, Pending, Removed, Fetching
<1>1. DashboardTypeOK'
  BY DEF DrawnInv
<1>2. DrawnInv'
  BY DEF DrawnInv
<1>3. FetchInv'
  BY DEF FetchInv
<1>4. ListInv'
  <2> SUFFICES ASSUME ~Fetching, ~stale' PROVE ListInv'
    BY DEF ListInv
  <2> DEFINE id == removal[r].id
  <2>1. ~stale /\ removal[r].pc \in {"deleted", "refused"}
    OBVIOUS
  <2>2. UNCHANGED <<owned, creating, fetching>>
    OBVIOUS
  <2>3. /\ removal'[r].pc = "over" /\ removal'[r].id = id
        /\ \A q \in Removals : q # r => removal'[q] = removal[q]
    OBVIOUS
  <2>4. \A q \in Removals : /\ removal'[q].id = removal[q].id
                           /\ removal'[q].pc # "new" => removal[q].pc # "new"
    BY <2>1, <2>3
  <2>5. CASE removal[r].pc = "refused"
    <3>1. buckets' = buckets
      BY <2>5
    <3>2. \A b \in BucketIds : Removed(b) => Removed(b)'
      BY <2>3, <2>5
    <3> QED
      BY <2>1, <2>2, <2>4, <3>1, <3>2 DEF ListInv
  <2>6. CASE removal[r].pc = "deleted"
    <3>1. id \notin owned
      BY <2>6 DEF DrawnInv
    <3>2. \A b \in BucketIds : buckets'[b] = IF b = id THEN 0 ELSE buckets[b]
      BY <2>6
    <3>3. \A b \in BucketIds : b # id /\ Removed(b) => Removed(b)'
      BY <2>3
    <3> QED
      BY <2>1, <2>2, <2>4, <3>1, <3>2, <3>3 DEF ListInv
  <2> QED
    BY <2>1, <2>5, <2>6
<1> QED
  BY <1>1, <1>2, <1>3, <1>4

LEMMA DashboardStays ==
    ASSUME DashboardInv, UNCHANGED dashboardVars
    PROVE  DashboardInv'
  BY DEF dashboardVars, DashboardInv, DashboardTypeOK, DrawnInv, FetchInv, ListInv,
         Pending, Removed, Fetching

LEMMA DashboardKeeps ==
    ASSUME DashboardInv, DashboardNext
    PROVE  DashboardInv'
  BY ServeFetchKeeps, FetchArrivesKeeps, HandleCreateKeeps, ServeCreateKeeps,
     CreateArrivesKeeps, HandleRemoveKeeps, ServeRemoveKeeps, RemoveArrivesKeeps
  DEF DashboardNext, CreateStep, ListGoesOn, FetchStep, RemovalStep

(* Once nothing is in flight the dashboard shows the user's buckets, each  *)
(* once, unless the history excuses it (load, handleCreate, handleDelete). *)
THEOREM ListsOwnBuckets == Spec => []ListIsOwned
<1>1. Init => DashboardInv
  BY InitDashboard DEF Init
<1>2. DashboardInv /\ [Next]_vars => DashboardInv'
  BY DashboardKeeps, DashboardStays DEF Next, OnBucket, OnDashboard, vars
<1>3. DashboardInv => ListIsOwned
  <2> SUFFICES ASSUME DashboardInv, ~Fetching, creating.pc = "idle", ~stale,
                      \A r \in Removals : removal[r].pc \in {"new", "over"}
               PROVE  buckets = [b \in BucketIds |-> IF b \in owned THEN 1 ELSE 0]
    BY DEF ListIsOwned
  <2>1. \A b \in BucketIds : ~Removed(b)
    BY DEF Removed
  <2>2. \A b \in BucketIds : buckets[b] = IF b \in owned THEN 1 ELSE 0
    BY <2>1 DEF DashboardInv, ListInv, Pending
  <2>3. buckets = [b \in BucketIds |-> buckets[b]]
    BY DEF DashboardInv, DashboardTypeOK
  <2> QED
    BY <2>2, <2>3
<1> QED
  BY <1>1, <1>2, <1>3, PTL DEF Spec

-----------------------------------------------------------------------------
(* Pages of a folder *)

LEMMA LeastNat ==
    ASSUME NEW S \in SUBSET Nat, S # {}
    PROVE  \E n \in S : \A m \in S : n <= m
<1>1. PICK n \in S : \A m \in S : ~(<<m, n>> \in OpToRel(<, Nat))
  BY WFMin, NatLessThanWellFounded
<1>2. ASSUME NEW m \in S
      PROVE  n <= m
  <2>1. ~(<<m, n>> \in {ss \in Nat \X Nat : ss[1] < ss[2]})
    BY <1>1 DEF OpToRel
  <2>2. m \in Nat /\ n \in Nat
    OBVIOUS
  <2>3. ~(m < n)
    BY <2>1, <2>2
  <2> QED
    BY <2>2, <2>3
<1> QED
  BY <1>2

(* A finite set of integers has a greatest element.                        *)
LEMMA HasMax ==
    ASSUME NEW T \in SUBSET Int, IsFiniteSet(T), T # {}
    PROVE  \E x \in T : \A y \in T : y <= x
<1> DEFINE tail(k) == {x \in T : k <= x}
           tails == {tail(k) : k \in T}
           R == StrictSubsetOrdering(T)
<1>1. IsWellFoundedOn(R, FiniteSubsetsOf(T))
  BY FS_StrictSubsetOrderingWellFounded
<1>2. tails \subseteq FiniteSubsetsOf(T) /\ tails # {}
  <2>1. ASSUME NEW k \in T PROVE tail(k) \in SUBSET T /\ IsFiniteSet(tail(k))
    BY FS_Subset
  <2>. QED
    BY <2>1 DEF FiniteSubsetsOf
<1>3. PICK m \in tails : \A u \in tails : <<u, m>> \notin R
  <2> HIDE DEF R, tails
  <2>. QED
    BY <1>1, <1>2, WFMin
<1>4. PICK k \in T : m = tail(k)
  BY <1>3
<1>5. ASSUME NEW y \in T, y > k PROVE FALSE
  <2>1. tail(y) \subseteq tail(k) /\ tail(y) # tail(k)
    <3>1. k \in tail(k) /\ k \notin tail(y)
      BY <1>5
    <3>2. ASSUME NEW x \in tail(y) PROVE x \in tail(k)
      <4>. x \in Int /\ y \in Int /\ k \in Int
        OBVIOUS
      <4>. QED
        BY <1>5
    <3>. QED
      BY <3>1, <3>2
  <2>2. <<tail(y), tail(k)>> \in R
    BY <2>1 DEF StrictSubsetOrdering
  <2>. QED
    BY <2>2, <1>3, <1>4
<1>. QED
  BY <1>5

(* The rows a page is cut from.                                            *)
Rest(p, token) == {k \in Under(p) : Rank[k] > token}

LEMMA RestFacts ==
    ASSUME NEW p \in Prefixes, NEW token \in Tokens
    PROVE  /\ Rest(p, token) \subseteq Keys
           /\ \A S \in SUBSET Rest(p, token) :
                 IsFiniteSet(S) /\ Cardinality(S) \in Nat
<1>1. Rest(p, token) \subseteq Keys
  BY DEF Rest, Under, Held
<1>2. IsFiniteSet(Keys)
  BY PageAssumption, FS_Product DEF Keys
<1>3. ASSUME NEW S \in SUBSET Rest(p, token)
      PROVE  IsFiniteSet(S) /\ Cardinality(S) \in Nat
  BY <1>1, <1>2, <1>3, FS_Subset, FS_CardinalityType
<1> QED
  BY <1>1, <1>3

LEMMA TokensAreNumbers ==
    /\ Tokens \subseteq Nat
    /\ \A k \in Keys : Rank[k] \in Nat /\ Rank[k] > 0 /\ Rank[k] \in Tokens
<1>1. \A k \in Keys : Rank[k] \in Nat /\ Rank[k] > 0
  BY PageAssumption
<1> QED
  BY <1>1 DEF Tokens

(* An answer to list is cut from all rows behind the token, or from all up *)
(* to its own.                                                             *)
IsListed(a, p, token) ==
    LET rows == {k \in Rest(p, token) : a.more => Rank[k] <= a.token} IN
    /\ a.p = p /\ a.from = token
    /\ a.objects = {k \in rows : k[1] = p}
    /\ a.folders = {k[1] : k \in rows} \ {p}
    /\ a.more => a.token >= token

LEMMA ListingIsInitial ==
    ASSUME NEW p \in Prefixes, NEW token \in Tokens
    PROVE  Listing(p, token) \in Answer /\ IsListed(Listing(p, token), p, token)
<1> DEFINE rest == Rest(p, token)
           upTo(k) == {j \in rest : Rank[j] <= Rank[k]}
           cut == {k \in rest : Cardinality(upTo(k)) <= PageSize}
           last == {k \in cut : \A j \in cut : Rank[j] <= Rank[k]}
           next == IF last = {} THEN 0 ELSE Rank[CHOOSE k \in last : TRUE]
           objects == {k \in cut : k[1] = p}
           folders == {k[1] : k \in cut} \ {p}
<1>1. Listing(p, token) = [p |-> p, from |-> token, objects |-> objects,
                           folders |-> folders, more |-> cut # rest,
                           token |-> next]
  BY DEF Listing, Rest
<1>2. /\ rest \subseteq Keys
      /\ \A S \in SUBSET rest : IsFiniteSet(S) /\ Cardinality(S) \in Nat
  BY RestFacts
<1>3. PageSize \in Nat \ {0} /\ token \in Nat
  BY PageAssumption, TokensAreNumbers
<1>4. \A k \in rest : Rank[k] \in Nat /\ Rank[k] > 0 /\ Rank[k] \in Tokens
  BY <1>2, TokensAreNumbers
<1>5. next \in Tokens
  BY <1>4 DEF Tokens
<1>6. objects \subseteq Keys /\ folders \subseteq Prefixes
  BY <1>2 DEF Keys
<1>7. Listing(p, token) \in Answer
  <2> HIDE DEF next, folders, objects, cut, rest
  <2> QED
    BY <1>1, <1>5, <1>6 DEF Answer
<1>8. ASSUME cut # rest
      PROVE  /\ cut = {k \in rest : Rank[k] <= next}
             /\ next >= token
  <2>1. PICK least \in rest : \A k \in rest : Rank[least] <= Rank[k]
    <3> DEFINE S == {Rank[k] : k \in rest}
    <3>1. S \in SUBSET Nat /\ S # {}
      BY <1>4, <1>8
    <3>2. PICK n \in S : \A m \in S : n <= m
      <4> HIDE DEF S
      <4> QED
        BY <3>1, LeastNat
    <3> QED
      BY <3>2
  <2>2. least \in cut
    <3>1. upTo(least) = {least}
      <4>1. ASSUME NEW j \in upTo(least) PROVE j = least
        <5>1. /\ j \in rest /\ Rank[j] \in Nat /\ Rank[least] \in Nat
              /\ Rank[j] <= Rank[least] /\ Rank[least] <= Rank[j]
          BY <1>4, <2>1
        <5>2. Rank[j] = Rank[least]
          BY <5>1
        <5>3. j \in Keys /\ least \in Keys
          BY <5>1, <1>2
        <5> QED
          BY <5>2, <5>3, PageAssumption
      <4>2. Rank[least] \in Nat
        BY <1>4
      <4>3. least \in upTo(least)
        BY <4>2
      <4> QED
        BY <4>1, <4>3
    <3>2. Cardinality(upTo(least)) = 1
      BY <3>1, FS_Singleton
    <3> QED
      BY <3>2, <1>3
  <2>3. PICK top \in cut : \A k \in cut : Rank[k] <= Rank[top]
    <3> DEFINE S == {Rank[k] : k \in cut}
    <3>1. S \in SUBSET Int
      <4>1. \A k \in cut : Rank[k] \in Int
        BY <1>4
      <4> HIDE DEF cut
      <4> QED
        BY <4>1
    <3>2. IsFiniteSet(S)
      <4>1. cut \in SUBSET rest
        OBVIOUS
      <4>2. IsFiniteSet(cut)
        BY <4>1, <1>2
      <4> DEFINE f == [k \in cut |-> Rank[k]]
      <4> HIDE DEF cut
      <4>3. f \in Surjection(cut, S)
        BY DEF Surjection
      <4> HIDE DEF S, f
      <4> QED
        BY <4>2, <4>3, FS_Surjection
    <3>3. S # {}
      BY <2>2
    <3>4. PICK n \in S : \A m \in S : m <= n
      <4> HIDE DEF S
      <4> QED
        BY <3>1, <3>2, <3>3, HasMax
    <3> QED
      BY <3>4
  <2>4. next = Rank[top]
    <3>1. \A k \in last : Rank[k] = Rank[top]
      <4> SUFFICES ASSUME NEW k \in last PROVE Rank[k] = Rank[top]
        OBVIOUS
      <4>1. /\ Rank[k] \in Nat /\ Rank[top] \in Nat
            /\ Rank[k] <= Rank[top] /\ Rank[top] <= Rank[k]
        BY <1>4, <2>3
      <4> QED
        BY <4>1
    <3>2. top \in last
      BY <2>3
    <3> HIDE DEF last
    <3> QED
      BY <3>1, <3>2
  <2>5. ASSUME NEW k \in rest, Rank[k] <= next PROVE k \in cut
    <3>1. upTo(k) \subseteq upTo(top)
      <4> SUFFICES ASSUME NEW j \in upTo(k) PROVE Rank[j] <= Rank[top]
        OBVIOUS
      <4>1. Rank[j] \in Nat /\ Rank[k] \in Nat /\ Rank[top] \in Nat
        BY <1>4
      <4> QED
        BY <4>1, <2>4, <2>5
    <3>2. upTo(top) \in SUBSET rest /\ upTo(k) \in SUBSET rest
      OBVIOUS
    <3>3. Cardinality(upTo(k)) <= Cardinality(upTo(top))
      BY <3>1, <3>2, <1>2, FS_Subset
    <3>4. /\ Cardinality(upTo(k)) \in Nat /\ Cardinality(upTo(top)) \in Nat
          /\ Cardinality(upTo(top)) <= PageSize
      BY <3>2, <1>2
    <3> QED
      BY <3>3, <3>4, <1>3
  <2>6. Rank[top] > token /\ Rank[top] \in Nat
    BY <1>4 DEF Rest
  <2>7. \A k \in cut : k \in rest /\ Rank[k] <= next
    BY <2>3, <2>4
  <2>8. next >= token
    <3> HIDE DEF next
    <3> QED
      BY <2>4, <2>6, <1>3
  <2> HIDE DEF cut, rest, next
  <2> QED
    BY <2>5, <2>7, <2>8
<1>9. cut \subseteq rest
  OBVIOUS
<1> DEFINE a == Listing(p, token)
<1>10. /\ a.p = p /\ a.from = token /\ a.objects = objects
       /\ a.folders = folders /\ a.more = (cut # rest) /\ a.token = next
  BY <1>1
<1>11. cut = {k \in rest : a.more => Rank[k] <= a.token}
  <2>1. CASE cut = rest
    <3> HIDE DEF cut, rest, next, a, objects, folders
    <3> QED
      BY <2>1, <1>9, <1>10
  <2>2. CASE cut # rest
    <3> HIDE DEF cut, rest, next, a, objects, folders
    <3> QED
      BY <2>2, <1>8, <1>10
  <2> QED
    BY <2>1, <2>2
<1>12. a.more => a.token >= token
  <2> HIDE DEF cut, rest, next, a, objects, folders
  <2> QED
    BY <1>8, <1>10
<1>13. a.objects = {k \in cut : k[1] = p} /\ a.folders = {k[1] : k \in cut} \ {p}
  BY <1>10
<1> HIDE DEF cut, next, folders, objects, a
<1>14. IsListed(a, p, token)
  BY <1>10, <1>11, <1>12, <1>13 DEF IsListed
<1> QED
  BY <1>7, <1>14 DEF a

-----------------------------------------------------------------------------
(* Files in parts *)

LEMMA Quotient ==
    ASSUME NEW m \in Nat, NEW d \in Nat \ {0}
    PROVE  /\ m \div d \in Nat
           /\ (m \div d) * d <= m /\ m < (m \div d + 1) * d
  OBVIOUS

(* The parts of a file are the whole file, whether or not its size is a    *)
(* multiple of PART_SIZE.                                                  *)
LEMMA PartsAreWhole ==
    ASSUME NEW n \in Names, NEW acked \in Nat, acked >= TotalParts(n)
    PROVE  UNION {Slice(n, i) : i \in 0..(acked - 1)} = Body(n)
<1>1. SizeOf[n] \in Nat \ {0} /\ PartSize \in Nat \ {0}
  BY PageAssumption
<1>2. ASSUME NEW m \in Body(n)
      PROVE  \E i \in 0..(acked - 1) : m \in Slice(n, i)
  <2> DEFINE i == m \div PartSize
             t == TotalParts(n)
  <2>1. m \in Nat /\ m <= SizeOf[n] - 1
    BY <1>1 DEF Body
  <2>2. i \in Nat /\ i * PartSize <= m /\ m < (i + 1) * PartSize
    BY <1>1, <2>1, Quotient
  <2>3. SizeOf[n] + PartSize - 1 \in Nat
    BY <1>1
  <2>4. t \in Nat /\ SizeOf[n] + PartSize - 1 < (t + 1) * PartSize
    BY <1>1, <2>3, Quotient DEF TotalParts
  <2> HIDE DEF i, t
  <2>5. i * PartSize < t * PartSize
    <3>1. (t + 1) * PartSize = t * PartSize + PartSize
      BY <1>1, <2>4
    <3>2. i * PartSize \in Nat /\ t * PartSize \in Nat
      BY <1>1, <2>2, <2>4
    <3> QED
      BY <1>1, <2>1, <2>2, <2>4, <3>1, <3>2
  <2>6. i < t
    <3> SUFFICES ASSUME i >= t PROVE FALSE
      BY <2>2, <2>4
    <3>1. PICK x \in Nat : i = t + x
      <4>1. i - t \in Nat
        BY <2>2, <2>4
      <4>2. i = t + (i - t)
        BY <2>2, <2>4
      <4> QED
        BY <4>1, <4>2
    <3>2. i * PartSize = t * PartSize + x * PartSize
      BY <3>1, <1>1, <2>4
    <3>3. x * PartSize \in Nat /\ t * PartSize \in Nat
      BY <1>1, <2>4
    <3> QED
      BY <3>2, <3>3, <2>5
  <2>7. m \in Slice(n, i)
    BY <2>2 DEF Slice
  <2>8. i \in 0..(acked - 1)
    BY <2>2, <2>4, <2>6 DEF t
  <2> QED
    BY <2>7, <2>8
<1>3. \A i : Slice(n, i) \subseteq Body(n)
  BY DEF Slice
<1> QED
  BY <1>2, <1>3

-----------------------------------------------------------------------------
(* The page of a bucket: types *)

File == [name : Names, pc : FileStates, acked : Nat]
BatchRow == [pc : {"new", "up", "load", "over"}, p : Prefixes, timer : BOOLEAN,
             files : Seq(File)]
Task == [key : Keys, state : {"busy", "done", "error"}]
DeletionRow == [pc : {"new", "sent", "deleted", "refused", "lost", "load", "over"},
                p : Prefixes, key : Keys \cup {None}]

PageTypeInv ==
    /\ naming \in Namings
    /\ store = [k \in Keys |-> store[k]]
    /\ prefix \in Prefixes
    /\ result \in Answer \cup {None}
    /\ loading \in BOOLEAN
    /\ tasks \in Seq(Task)
    /\ deletingKey \in Keys \cup {None}
    /\ lists \in [Lists -> List \cup {None}]
    /\ \A s \in InFlight : lists[s].pc = "ok" => lists[s].answer \in Answer
    /\ older \subseteq InFlight
    /\ batch \in [Batches -> BatchRow]
    /\ deletion \in [Deletions -> DeletionRow]
    /\ \A d \in Deletions : deletion[d].pc # "new" => deletion[d].key \in Keys
    /\ clicks \in 0..MaxClicks
    /\ stored \subseteq Keys
    /\ {raced, mixed} \subseteq BOOLEAN

LEMMA TypesMean == PageTypeInv => PageTypeOK
<1> SUFFICES ASSUME PageTypeInv PROVE PageTypeOK
  OBVIOUS
<1>1. DOMAIN store = Keys
  BY DEF PageTypeInv
<1>2. \A i \in DOMAIN tasks : tasks[i] \in Task
  BY DEF PageTypeInv
<1>3. \A b \in Batches :
        /\ batch[b].pc \in {"new", "up", "load", "over"}
        /\ \A i \in DOMAIN batch[b].files : batch[b].files[i] \in File
  BY DEF PageTypeInv, BatchRow
<1>4. older \subseteq Lists
  BY DEF PageTypeInv, InFlight
<1> QED
  BY <1>1, <1>2, <1>3, <1>4 DEF PageTypeInv, PageTypeOK, Task, File, DeletionRow

(* What a batch is, field by field.                                        *)
LEMMA BatchFields ==
    ASSUME PageTypeInv, NEW b \in Batches
    PROVE  /\ batch[b] \in BatchRow
           /\ batch[b] = [pc |-> batch[b].pc, p |-> batch[b].p,
                          timer |-> batch[b].timer, files |-> batch[b].files]
           /\ batch[b].pc \in {"new", "up", "load", "over"}
           /\ batch[b].p \in Prefixes
           /\ batch[b].files \in Seq(File)
           /\ \A i \in DOMAIN batch[b].files :
                /\ batch[b].files[i] \in File
                /\ batch[b].files[i].name \in Names
                /\ batch[b].files[i].pc \in FileStates
                /\ batch[b].files[i].acked \in Nat
                /\ Key(b, i) \in Keys
<1>1. batch[b] \in BatchRow
  BY DEF PageTypeInv
<1>2. /\ batch[b].p \in Prefixes
      /\ batch[b].files \in Seq(File)
      /\ batch[b].pc \in {"new", "up", "load", "over"}
      /\ batch[b] = [pc |-> batch[b].pc, p |-> batch[b].p,
                     timer |-> batch[b].timer, files |-> batch[b].files]
  BY <1>1 DEF BatchRow
<1>3. ASSUME NEW i \in DOMAIN batch[b].files
      PROVE  /\ batch[b].files[i] \in File
             /\ batch[b].files[i].name \in Names
             /\ batch[b].files[i].pc \in FileStates
             /\ batch[b].files[i].acked \in Nat
             /\ Key(b, i) \in Keys
  <2>1. batch[b].files[i] \in File
    BY <1>2
  <2> QED
    BY <2>1, <1>2 DEF File, Key, Keys
<1> QED
  BY <1>1, <1>2, <1>3

(* One file of a batch goes on, and nothing else of any batch.             *)
Moved(b, i, f) ==
    /\ batch' \in [Batches -> BatchRow]
    /\ \A c \in Batches :
        /\ batch'[c].pc = batch[c].pc
        /\ batch'[c].p = batch[c].p
        /\ batch'[c].timer = batch[c].timer
        /\ DOMAIN batch'[c].files = DOMAIN batch[c].files
        /\ \A j \in DOMAIN batch[c].files :
            batch'[c].files[j] =
                IF c = b /\ j = i THEN f ELSE batch[c].files[j]

LEMMA FileMoves ==
    ASSUME PageTypeInv, NEW b \in Batches, NEW i \in DOMAIN batch[b].files,
           NEW f \in File, batch' = [batch EXCEPT ![b].files[i] = f]
    PROVE  Moved(b, i, f)
<1> DEFINE files == [batch[b].files EXCEPT ![i] = f]
<1>1. batch' = [batch EXCEPT ![b] = [batch[b] EXCEPT !.files = files]]
  BY DEF PageTypeInv
<1>2. batch[b] \in BatchRow /\ batch[b].files \in Seq(File)
  BY BatchFields
<1>3. /\ files \in Seq(File)
      /\ DOMAIN files = DOMAIN batch[b].files
      /\ \A j \in DOMAIN batch[b].files :
            files[j] = IF j = i THEN f ELSE batch[b].files[j]
  BY <1>2
<1> DEFINE row == [batch[b] EXCEPT !.files = files]
<1>4. /\ row \in BatchRow
      /\ row.pc = batch[b].pc /\ row.p = batch[b].p /\ row.timer = batch[b].timer
      /\ row.files = files
  <2> HIDE DEF files
  <2> QED
    BY <1>2, <1>3 DEF BatchRow
<1> HIDE DEF row, files
<1>5. batch' = [batch EXCEPT ![b] = row]
  BY <1>1 DEF row
<1>6. batch \in [Batches -> BatchRow]
  BY DEF PageTypeInv
<1>7. \A c \in Batches : batch'[c] = IF c = b THEN row ELSE batch[c]
  BY <1>5, <1>6
<1>8. batch' \in [Batches -> BatchRow]
  BY <1>4, <1>5, <1>6
<1> QED
  BY <1>3, <1>4, <1>7, <1>8 DEF Moved

LEMMA FileGoes ==
    ASSUME PageTypeInv, NEW b \in Batches, NEW i \in DOMAIN batch[b].files,
           NEW pc \in FileStates, FileTo(b, i, pc)
    PROVE  Moved(b, i, [batch[b].files[i] EXCEPT !.pc = pc])
<1> DEFINE f == [batch[b].files[i] EXCEPT !.pc = pc]
<1>1. batch[b].files[i] \in File /\ batch[b].files \in Seq(File) /\ batch[b] \in BatchRow
  BY BatchFields
<1>2. f \in File
  BY <1>1 DEF File
<1>3. batch' = [batch EXCEPT ![b].files[i] = f]
  BY <1>1 DEF FileTo, PageTypeInv, BatchRow
<1> QED
  BY <1>2, <1>3, FileMoves

(* A list request takes a slot that is free.                               *)
Added(s, l) ==
    /\ s \in Lists \ InFlight
    /\ lists' \in [Lists -> List \cup {None}]
    /\ lists'[s] = l
    /\ \A t \in Lists \ {s} : lists'[t] = lists[t]
    /\ InFlight' = InFlight \cup {s}

LEMMA SendAdds ==
    ASSUME PageTypeInv, NEW l \in List, Send(l)
    PROVE  \E s \in Lists : Added(s, l)
<1> DEFINE free == Lists \ InFlight
           slot == CHOOSE s \in free : \A t \in free : s <= t
<1>1. free \in SUBSET Nat /\ free # {}
  BY PageAssumption DEF Send, Lists
<1>2. slot \in free
  <2>1. \E s \in free : \A t \in free : s <= t
    <3> HIDE DEF free
    <3> QED
      BY <1>1, LeastNat
  <2> HIDE DEF free
  <2> QED
    BY <2>1
<1>3. lists' = [lists EXCEPT ![slot] = l]
  BY DEF Send
<1> HIDE DEF slot
<1>4. l # None
  BY PageSentinelAssumption
<1>5. lists \in [Lists -> List \cup {None}]
  BY DEF PageTypeInv
<1>6. slot \in Lists \ InFlight
  BY <1>2
<1>7. /\ lists' \in [Lists -> List \cup {None}]
      /\ lists'[slot] = l
      /\ \A t \in Lists \ {slot} : lists'[t] = lists[t]
  BY <1>3, <1>5, <1>6
<1>8. InFlight' = InFlight \cup {slot}
  BY <1>4, <1>6, <1>7 DEF InFlight
<1>9. Added(slot, l)
  BY <1>6, <1>7, <1>8 DEF Added
<1> QED
  BY <1>6, <1>9

(* ... and gives it back with its answer.                                  *)
LEMMA ArrivalTakes ==
    ASSUME PageTypeInv, NEW s \in Lists, lists' = [lists EXCEPT ![s] = None]
    PROVE  /\ lists' \in [Lists -> List \cup {None}]
           /\ InFlight' = InFlight \ {s}
           /\ \A t \in InFlight' : lists'[t] = lists[t]
  BY DEF PageTypeInv, InFlight

LoadRow(p, owner) == [p |-> p, kind |-> "load", token |-> 0, owner |-> owner,
                      pc |-> "sent", answer |-> None]

LEMMA LoadAdds ==
    ASSUME PageTypeInv, NEW p \in Prefixes,
           NEW owner \in Batches \cup Deletions \cup {None}, Load(p, owner)
    PROVE  \E s \in Lists : Added(s, LoadRow(p, owner))
<1>1. LoadRow(p, owner) \in List
  BY DEF LoadRow, List, Tokens
<1> QED
  BY <1>1, SendAdds DEF Load, LoadRow

LEMMA ListFields ==
    ASSUME PageTypeInv, NEW s \in InFlight
    PROVE  /\ lists[s] \in List
           /\ lists[s].p \in Prefixes
           /\ lists[s].kind \in {"load", "more"}
           /\ lists[s].token \in Tokens
           /\ lists[s].pc \in {"sent", "ok", "error"}
           /\ lists[s].owner \in Batches \cup Deletions \cup {None}
           /\ lists[s].pc = "ok" => lists[s].answer \in Answer
<1>1. lists[s] \in List
  BY DEF PageTypeInv, InFlight
<1>2. lists[s].pc = "ok" => lists[s].answer \in Answer
  BY DEF PageTypeInv
<1> QED
  BY <1>1, <1>2 DEF List

LEMMA InitPageTypes == PageInit => PageTypeInv
<1> SUFFICES ASSUME PageInit PROVE PageTypeInv
  OBVIOUS
<1> DEFINE first == LoadRow(Root, None)
<1>1. first \in List
  BY PageAssumption DEF LoadRow, List, Tokens
<1>2. lists = [s \in Lists |-> IF s # 1 THEN None ELSE first]
  BY DEF PageInit, LoadRow
<1>3. lists \in [Lists -> List \cup {None}]
  <2> HIDE DEF first
  <2> QED
    BY <1>1, <1>2
<1>4. \A s \in InFlight : lists[s].pc = "sent"
  BY <1>2 DEF InFlight, LoadRow
<1>5. batch \in [Batches -> BatchRow]
  <2>1. <<>> \in Seq(File)
    OBVIOUS
  <2>2. [pc |-> "new", p |-> Root, timer |-> FALSE, files |-> <<>>] \in BatchRow
    BY <2>1, PageAssumption DEF BatchRow
  <2> QED
    BY <2>2 DEF PageInit
<1>6. /\ deletion \in [Deletions -> DeletionRow]
      /\ \A d \in Deletions : deletion[d].pc = "new"
  BY PageAssumption DEF PageInit, DeletionRow
<1>7. tasks \in Seq(Task) /\ stored \subseteq Keys
  BY DEF PageInit
<1>8. clicks \in 0..MaxClicks /\ older \subseteq InFlight
  BY PageAssumption DEF PageInit
<1> QED
  BY <1>3, <1>4, <1>5, <1>6, <1>7, <1>8, PageAssumption DEF PageInit, PageTypeInv

(* Sending a list request only adds one.                                   *)
LEMMA AddedTypes ==
    ASSUME PageTypeInv, NEW s \in Lists, NEW l \in List, Added(s, l), l.pc = "sent"
    PROVE  \A t \in InFlight' : lists'[t].pc = "ok" => lists'[t].answer \in Answer
<1> SUFFICES ASSUME NEW t \in InFlight', lists'[t].pc = "ok"
             PROVE  lists'[t].answer \in Answer
  OBVIOUS
<1>1. t # s /\ t \in InFlight
  BY DEF Added
<1>2. lists'[t] = lists[t]
  BY <1>1 DEF Added, InFlight
<1> QED
  BY <1>1, <1>2 DEF PageTypeInv

LEMMA LoadTypes ==
    ASSUME PageTypeInv, NEW p \in Prefixes,
           NEW owner \in Batches \cup Deletions \cup {None}, Load(p, owner)
    PROVE  /\ lists' \in [Lists -> List \cup {None}]
           /\ \A t \in InFlight' : lists'[t].pc = "ok" => lists'[t].answer \in Answer
           /\ older' \subseteq InFlight'
           /\ loading' \in BOOLEAN /\ raced' \in BOOLEAN
<1>1. PICK s \in Lists : Added(s, LoadRow(p, owner))
  BY LoadAdds
<1>2. LoadRow(p, owner) \in List /\ LoadRow(p, owner).pc = "sent"
  BY DEF LoadRow, List, Tokens
<1>3. \A t \in InFlight' : lists'[t].pc = "ok" => lists'[t].answer \in Answer
  BY <1>1, <1>2, AddedTypes
<1>4. lists' \in [Lists -> List \cup {None}] /\ older' \subseteq InFlight'
  BY <1>1 DEF Added, Load
<1> QED
  BY <1>3, <1>4 DEF Load

LEMMA ShownAreKeys == PageTypeInv => Shown \subseteq Keys
  BY DEF PageTypeInv, Shown, Answer

LEMMA RefreshTypes == PageTypeInv /\ Refresh => PageTypeInv'
<1> SUFFICES ASSUME PageTypeInv, Refresh PROVE PageTypeInv'
  OBVIOUS
<1>1. /\ lists' \in [Lists -> List \cup {None}]
      /\ \A t \in InFlight' : lists'[t].pc = "ok" => lists'[t].answer \in Answer
      /\ older' \subseteq InFlight'
      /\ loading' \in BOOLEAN /\ raced' \in BOOLEAN
  BY LoadTypes DEF Refresh, PageTypeInv
<1> QED
  BY <1>1, PageAssumption DEF Refresh, Click, PageTypeInv

LEMMA NavigateTypes ==
    ASSUME PageTypeInv, NEW p \in Prefixes, Navigate(p)
    PROVE  PageTypeInv'
<1>1. /\ lists' \in [Lists -> List \cup {None}]
      /\ \A t \in InFlight' : lists'[t].pc = "ok" => lists'[t].answer \in Answer
      /\ older' \subseteq InFlight'
      /\ loading' \in BOOLEAN /\ raced' \in BOOLEAN
  BY LoadTypes DEF Navigate, PageTypeInv
<1> QED
  BY <1>1, PageAssumption DEF Navigate, Click, PageTypeInv

MoreRow == [p |-> prefix, kind |-> "more", token |-> result.token, owner |-> None,
            pc |-> "sent", answer |-> None]

LEMMA MoreAdds ==
    ASSUME PageTypeInv, LoadMore
    PROVE  /\ result # None /\ result \in Answer /\ result.more
           /\ MoreRow \in List
           /\ \E s \in Lists : Added(s, MoreRow)
<1>1. result # None /\ result \in Answer /\ result.more
  BY DEF LoadMore, OffersMore, PageTypeInv
<1>2. MoreRow \in List
  BY <1>1 DEF MoreRow, List, Answer, PageTypeInv
<1>3. Send(MoreRow)
  BY DEF LoadMore, MoreRow
<1> QED
  BY <1>1, <1>2, <1>3, SendAdds

LEMMA LoadMoreTypes == PageTypeInv /\ LoadMore => PageTypeInv'
<1> SUFFICES ASSUME PageTypeInv, LoadMore PROVE PageTypeInv'
  OBVIOUS
<1>1. PICK s \in Lists : Added(s, MoreRow)
  BY MoreAdds
<1>2. MoreRow \in List /\ MoreRow.pc = "sent"
  BY MoreAdds DEF MoreRow
<1>3. /\ lists' \in [Lists -> List \cup {None}]
      /\ \A t \in InFlight' : lists'[t].pc = "ok" => lists'[t].answer \in Answer
  BY <1>1, <1>2, AddedTypes DEF Added
<1>4. /\ raced' \in BOOLEAN /\ clicks' \in 0..MaxClicks
      /\ older' \subseteq InFlight'
  BY <1>1, PageAssumption DEF LoadMore, Click, PageTypeInv, Added
<1> QED
  BY <1>3, <1>4 DEF LoadMore, PageTypeInv

(* The server's part in a list request. *)
LEMMA ServeListShape ==
    ASSUME PageTypeInv, NEW s \in Lists, ServeList(s)
    PROVE  /\ s \in InFlight /\ lists[s].pc = "sent"
           /\ lists' \in [Lists -> List \cup {None}]
           /\ InFlight' = InFlight
           /\ \A t \in Lists \ {s} : lists'[t] = lists[t]
           /\ lists'[s].p = lists[s].p
           /\ lists'[s].kind = lists[s].kind
           /\ lists'[s].token = lists[s].token
           /\ lists'[s].owner = lists[s].owner
           /\ \/ lists'[s].pc = "error"
              \/ /\ lists'[s].pc = "ok"
                 /\ lists'[s].answer = Listing(lists[s].p, lists[s].token)
                 /\ lists'[s].answer \in Answer
<1>1. s \in InFlight /\ lists[s].pc = "sent" /\ lists[s] # None
  BY DEF ServeList, InFlight
<1>2. lists[s] \in List /\ lists \in [Lists -> List \cup {None}]
  BY <1>1, ListFields DEF PageTypeInv
<1> DEFINE a == Listing(lists[s].p, lists[s].token)
<1>3. a \in Answer
  BY <1>2, ListingIsInitial DEF List
<1> HIDE DEF a
<1>4. PICK l \in {[lists[s] EXCEPT !.pc = "error"],
                  [lists[s] EXCEPT !.pc = "ok", !.answer = a]} :
        lists' = [lists EXCEPT ![s] = l]
  BY <1>2 DEF ServeList, a
<1>5. /\ l \in List /\ l.p = lists[s].p /\ l.kind = lists[s].kind
      /\ l.token = lists[s].token /\ l.owner = lists[s].owner
      /\ l.pc = "error" \/ (l.pc = "ok" /\ l.answer = a)
  BY <1>2, <1>3 DEF List
<1>6. l # None
  BY <1>5, PageSentinelAssumption
<1>7. /\ lists' \in [Lists -> List \cup {None}]
      /\ lists'[s] = l
      /\ \A t \in Lists \ {s} : lists'[t] = lists[t]
  BY <1>2, <1>4, <1>5
<1>8. InFlight' = InFlight
  BY <1>1, <1>6, <1>7 DEF InFlight
<1> QED
  BY <1>1, <1>3, <1>5, <1>7, <1>8 DEF a

LEMMA ServeListTypes ==
    ASSUME PageTypeInv, NEW s \in Lists, ServeList(s)
    PROVE  PageTypeInv'
<1>1. /\ lists' \in [Lists -> List \cup {None}]
      /\ InFlight' = InFlight
      /\ \A t \in Lists \ {s} : lists'[t] = lists[t]
      /\ lists'[s].pc = "ok" => lists'[s].answer \in Answer
  BY ServeListShape
<1>2. \A t \in InFlight' : lists'[t].pc = "ok" => lists'[t].answer \in Answer
  BY <1>1 DEF PageTypeInv, InFlight
<1> QED
  BY <1>1, <1>2 DEF ServeList, PageTypeInv

(* A load that a batch or a deletion awaits finds it waiting.              *)
OwnerInv ==
    \A s \in InFlight :
        /\ lists[s].owner \in Batches =>
                batch[lists[s].owner].pc \in {"load", "over"}
        /\ lists[s].owner \in Deletions =>
                deletion[lists[s].owner].pc \in {"load", "over"}

LEMMA LoadArrivesTypes ==
    ASSUME PageTypeInv, OwnerInv, NEW s \in Lists, LoadArrives(s)
    PROVE  /\ PageTypeInv'
           /\ \A b \in Batches :
                /\ batch'[b].files = batch[b].files
                /\ batch'[b].p = batch[b].p
                /\ batch'[b].pc = IF b = lists[s].owner THEN "over"
                                  ELSE batch[b].pc
           /\ \A d \in Deletions :
                deletion'[d].pc = IF d = lists[s].owner THEN "over"
                                  ELSE deletion[d].pc
<1> DEFINE l == lists[s]
<1>1. s \in InFlight /\ l.kind = "load" /\ l.pc \in {"ok", "error"}
  BY ListFields DEF LoadArrives, InFlight
<1>2. l.pc = "ok" => l.answer \in Answer
  BY <1>1 DEF PageTypeInv
<1>3. result' \in Answer \cup {None}
  BY <1>1, <1>2 DEF LoadArrives, PageTypeInv
<1>4. /\ lists' \in [Lists -> List \cup {None}]
      /\ \A t \in InFlight' : lists'[t].pc = "ok" => lists'[t].answer \in Answer
  BY ArrivalTakes DEF LoadArrives, PageTypeInv
<1>5. batch \in [Batches -> BatchRow] /\ deletion \in [Deletions -> DeletionRow]
  BY DEF PageTypeInv
<1>6. /\ batch' \in [Batches -> BatchRow]
      /\ \A b \in Batches :
            /\ batch'[b].files = batch[b].files
            /\ batch'[b].p = batch[b].p
            /\ batch'[b].pc = IF b = l.owner THEN "over" ELSE batch[b].pc
  <2>1. CASE l.owner \in Batches
    <3>1. batch[l.owner] \in BatchRow
      BY <1>5, <2>1
    <3>2. batch' = [batch EXCEPT ![l.owner] = [batch[l.owner] EXCEPT !.pc = "over"]]
      BY <1>5, <2>1 DEF LoadArrives
    <3> HIDE DEF l
    <3> QED
      BY <2>1, <3>1, <3>2, <1>5 DEF BatchRow
  <2>2. CASE l.owner \notin Batches
    BY <2>2, <1>5 DEF LoadArrives
  <2> QED
    BY <2>1, <2>2
<1>7. /\ deletion' \in [Deletions -> DeletionRow]
      /\ \A d \in Deletions :
            /\ deletion'[d].key = deletion[d].key
            /\ deletion'[d].pc = IF d = l.owner THEN "over" ELSE deletion[d].pc
  <2>1. CASE l.owner \in Deletions
    <3>1. deletion[l.owner] \in DeletionRow
      BY <1>5, <2>1
    <3>2. deletion' =
            [deletion EXCEPT ![l.owner] = [deletion[l.owner] EXCEPT !.pc = "over"]]
      BY <1>5, <2>1 DEF LoadArrives
    <3> HIDE DEF l
    <3> QED
      BY <2>1, <3>1, <3>2, <1>5 DEF DeletionRow
  <2>2. CASE l.owner \notin Deletions
    BY <2>2, <1>5 DEF LoadArrives
  <2> QED
    BY <2>1, <2>2
<1>8. /\ older' \subseteq InFlight'
      /\ loading' \in BOOLEAN /\ raced' \in BOOLEAN /\ deletingKey' \in Keys \cup {None}
      /\ UNCHANGED <<naming, store, prefix, tasks, clicks, stored, mixed>>
  BY ArrivalTakes DEF LoadArrives, PageTypeInv
<1>9. \A d \in Deletions : deletion'[d].pc # "new" => deletion'[d].key \in Keys
  <2>1. l.owner \in Deletions => deletion[l.owner].pc # "new"
    BY <1>1 DEF OwnerInv
  <2> QED
    BY <2>1, <1>7 DEF PageTypeInv
<1> HIDE DEF l
<1>10. PageTypeInv'
  BY <1>3, <1>4, <1>6, <1>7, <1>8, <1>9 DEF PageTypeInv
<1> QED
  BY <1>6, <1>7, <1>10 DEF l

LEMMA MoreArrivesTypes ==
    ASSUME PageTypeInv, NEW s \in Lists, MoreArrives(s)
    PROVE  PageTypeInv'
<1>1. s \in InFlight /\ lists[s].pc \in {"ok", "error"}
  BY ListFields DEF MoreArrives, InFlight
<1>2. lists[s].pc = "ok" => lists[s].answer \in Answer
  BY <1>1 DEF PageTypeInv
<1>3. result' \in Answer \cup {None}
  <2>1. CASE lists[s].pc = "error"
    BY <2>1 DEF MoreArrives, PageTypeInv
  <2>2. CASE lists[s].pc = "ok"
    <3>1. result' = [lists[s].answer EXCEPT !.objects = @ \cup Shown]
      BY <2>2 DEF MoreArrives, Joined
    <3> QED
      BY <3>1, <2>2, <1>2, ShownAreKeys DEF Answer
  <2> QED
    BY <1>1, <2>1, <2>2
<1>4. /\ lists' \in [Lists -> List \cup {None}]
      /\ \A t \in InFlight' : lists'[t].pc = "ok" => lists'[t].answer \in Answer
  BY ArrivalTakes DEF MoreArrives, PageTypeInv
<1>5. older' \subseteq InFlight' /\ raced' \in BOOLEAN
  BY ArrivalTakes DEF MoreArrives, PageTypeInv
<1> QED
  BY <1>3, <1>4, <1>5 DEF MoreArrives, PageTypeInv

(* A batch begins with the files the user has chosen. *)
LEMMA UploadFilesShape ==
    ASSUME PageTypeInv, NEW b \in Batches, NEW files \in Selections,
           UploadFiles(b, files)
    PROVE  /\ PageTypeInv'
           /\ batch[b].pc = "new"
           /\ batch'[b].pc = "up" /\ batch'[b].p = prefix
           /\ DOMAIN batch'[b].files = DOMAIN files
           /\ \A i \in DOMAIN files : batch'[b].files[i] = NewFile(files[i])
           /\ \A c \in Batches \ {b} : batch'[c] = batch[c]
           /\ DOMAIN tasks' = DOMAIN files
           /\ \A i \in DOMAIN files :
                tasks'[i] = [key |-> <<prefix, files[i]>>, state |-> "busy"]
<1>1. PICK n \in 1..Cardinality(Names) : files \in [1..n -> Names]
  BY DEF Selections
<1>2. n \in Nat /\ DOMAIN files = 1..n /\ \A i \in 1..n : files[i] \in Names
  BY <1>1, PageAssumption, FS_CardinalityType
<1> DEFINE new == [i \in DOMAIN files |-> NewFile(files[i])]
           row == [pc |-> "up", p |-> prefix, timer |-> FALSE, files |-> new]
<1>3. \A m \in Names : NewFile(m) \in File
  BY DEF NewFile, File, FileStates
<1>4. new \in Seq(File)
  <2>1. new \in [1..n -> File]
    BY <1>2, <1>3
  <2> HIDE DEF new
  <2> QED
    BY <2>1, <1>2
<1>5. row \in BatchRow
  <2> HIDE DEF new
  <2> QED
    BY <1>4 DEF BatchRow, PageTypeInv
<1>6. batch' = [batch EXCEPT ![b] = row]
  BY DEF UploadFiles
<1>7. batch \in [Batches -> BatchRow]
  BY DEF PageTypeInv
<1>8. /\ batch' \in [Batches -> BatchRow]
      /\ batch'[b] = row
      /\ \A c \in Batches \ {b} : batch'[c] = batch[c]
  <2> HIDE DEF row
  <2> QED
    BY <1>5, <1>6, <1>7
<1>9. tasks' = [i \in 1..n |-> [key |-> <<prefix, files[i]>>, state |-> "busy"]]
  BY <1>2 DEF UploadFiles
<1>10. tasks' \in Seq(Task)
  <2>1. \A i \in 1..n : [key |-> <<prefix, files[i]>>, state |-> "busy"] \in Task
    BY <1>2 DEF Task, Keys, PageTypeInv
  <2>2. tasks' \in [1..n -> Task]
    BY <1>9, <2>1
  <2> QED
    BY <2>2, <1>2
<1>11. /\ clicks' \in 0..MaxClicks
       /\ mixed' \in BOOLEAN
       /\ UNCHANGED <<naming, store, prefix, result, loading, deletingKey, lists, older,
                      deletion, stored, raced>>
  BY PageAssumption DEF UploadFiles, Click, PageTypeInv
<1>12. InFlight' = InFlight
  BY <1>11 DEF InFlight
<1>13. PageTypeInv'
  BY <1>8, <1>10, <1>11, <1>12 DEF PageTypeInv
<1> QED
  BY <1>2, <1>8, <1>9, <1>13 DEF UploadFiles

(* A step of a file and what it does to the file. *)
LEMMA PartAckedShape ==
    ASSUME PageTypeInv, NEW b \in Batches, NEW i \in DOMAIN batch[b].files,
           PartAcked(b, i)
    PROVE  LET f == batch[b].files[i] IN
           /\ f.pc = "parts"
           /\ Moved(b, i, [f EXCEPT !.acked = @ + 1,
                                    !.pc = IF f.acked + 1 < TotalParts(f.name)
                                           THEN "parts" ELSE "complete"])
<1> DEFINE f == batch[b].files[i]
           pc == IF f.acked + 1 < TotalParts(f.name) THEN "parts" ELSE "complete"
           g == [f EXCEPT !.acked = @ + 1, !.pc = pc]
<1>1. f \in File
  BY BatchFields
<1>2. g \in File
  <2>1. pc \in FileStates
    BY DEF FileStates
  <2>2. f.acked + 1 \in Nat
    BY <1>1 DEF File
  <2> HIDE DEF pc, f
  <2> QED
    BY <2>1, <2>2, <1>1 DEF File
<1>3. f.pc = "parts" /\ batch' = [batch EXCEPT ![b].files[i] = g]
  BY DEF PartAcked
<1> HIDE DEF g
<1>4. Moved(b, i, g)
  BY <1>2, <1>3, FileMoves
<1> QED
  BY <1>3, <1>4 DEF g

LEMMA MovedTypes ==
    ASSUME PageTypeInv, NEW b, NEW i, NEW f, Moved(b, i, f),
           UNCHANGED <<naming, prefix, result, loading, deletingKey,
                       lists, older, deletion, clicks, raced, mixed>>,
           store' = [k \in Keys |-> store'[k]],
           tasks' \in Seq(Task), stored' \subseteq Keys
    PROVE  PageTypeInv'
<1>1. InFlight' = InFlight
  BY DEF InFlight
<1> QED
  BY <1>1 DEF Moved, PageTypeInv

LEMMA FileArrivesTasks ==
    ASSUME PageTypeInv, NEW b \in Batches, NEW i \in DOMAIN batch[b].files,
           FileArrives(b, i)
    PROVE  /\ batch[b].files[i].pc \in {"stored", "refused", "lost"}
           /\ Moved(b, i, [batch[b].files[i] EXCEPT !.pc = "over"])
           /\ tasks' \in Seq(Task)
           /\ DOMAIN tasks' = DOMAIN tasks
           /\ \A j \in DOMAIN tasks :
                /\ tasks'[j].key = tasks[j].key
                /\ tasks'[j].state = "done" =>
                    \/ tasks[j].state = "done"
                    \/ j = i /\ batch[b].files[i].pc = "stored"
<1>1. batch[b].files[i].pc \in {"stored", "refused", "lost"}
  BY DEF FileArrives
<1>2. Moved(b, i, [batch[b].files[i] EXCEPT !.pc = "over"])
  BY FileGoes DEF FileArrives, FileStates
<1> DEFINE state == IF batch[b].files[i].pc = "stored" THEN "done" ELSE "error"
<1>3. tasks' = [j \in DOMAIN tasks |->
                    IF j = i THEN [tasks[j] EXCEPT !.state = state] ELSE tasks[j]]
  BY DEF FileArrives, Marked, Resolves
<1>4. tasks \in Seq(Task) /\ \A j \in DOMAIN tasks : tasks[j] \in Task
  BY DEF PageTypeInv
<1>5. PICK n \in Nat : DOMAIN tasks = 1..n
  BY <1>4
<1>6. \A j \in DOMAIN tasks :
        /\ tasks'[j] \in Task
        /\ tasks'[j].key = tasks[j].key
        /\ tasks'[j].state = IF j = i THEN state ELSE tasks[j].state
  <2> SUFFICES ASSUME NEW j \in DOMAIN tasks
               PROVE  /\ tasks'[j] \in Task
                      /\ tasks'[j].key = tasks[j].key
                      /\ tasks'[j].state = IF j = i THEN state ELSE tasks[j].state
    OBVIOUS
  <2>1. tasks[j] \in Task
    BY <1>4
  <2> QED
    BY <2>1, <1>3 DEF Task
<1>7. tasks' \in [1..n -> Task]
  BY <1>3, <1>5, <1>6
<1>8. tasks' \in Seq(Task)
  BY <1>7
<1> QED
  BY <1>1, <1>2, <1>3, <1>6, <1>8

(* What the server stores for a file. *)
LEMMA ServeFileShape ==
    ASSUME PageTypeInv, NEW b \in Batches, NEW i \in DOMAIN batch[b].files,
           ServeFile(b, i)
    PROVE  LET f == batch[b].files[i] IN
           /\ f.pc \in {"put", "complete"}
           /\ \E pc \in {"stored", "refused", "lost"} :
                /\ Moved(b, i, [f EXCEPT !.pc = pc])
                /\ pc = "refused" => UNCHANGED <<store, stored>>
                /\ pc # "refused" =>
                    /\ store' = [store EXCEPT ![Key(b, i)] = Sent(f)]
                    /\ stored' = stored \cup {Key(b, i)}
<1> DEFINE f == batch[b].files[i]
<1>1. PICK pc \in {"stored", "refused", "lost"} :
        /\ FileTo(b, i, pc)
        /\ IF pc = "refused" THEN UNCHANGED <<store, stored>>
           ELSE /\ store' = [store EXCEPT ![Key(b, i)] = Sent(f)]
                /\ stored' = stored \cup {Key(b, i)}
  BY DEF ServeFile
<1>2. pc \in FileStates
  BY DEF FileStates
<1>3. Moved(b, i, [f EXCEPT !.pc = pc])
  BY <1>1, <1>2, FileGoes
<1>4. f.pc \in {"put", "complete"}
  BY DEF ServeFile
<1> QED
  BY <1>1, <1>3, <1>4

(* A batch as a whole goes on. *)
LEMMA BatchGoes ==
    ASSUME PageTypeInv, NEW b \in Batches, NEW pc \in {"up", "load", "over"},
           NEW t \in BOOLEAN,
           batch' = [batch EXCEPT ![b] = [batch[b] EXCEPT !.pc = pc, !.timer = t]]
    PROVE  /\ batch' \in [Batches -> BatchRow]
           /\ \A c \in Batches :
                /\ batch'[c].files = batch[c].files
                /\ batch'[c].p = batch[c].p
                /\ batch'[c].pc = IF c = b THEN pc ELSE batch[c].pc
<1> DEFINE row == [batch[b] EXCEPT !.pc = pc, !.timer = t]
<1>1. batch \in [Batches -> BatchRow] /\ batch[b] \in BatchRow
  BY DEF PageTypeInv
<1>2. /\ row \in BatchRow /\ row.files = batch[b].files /\ row.p = batch[b].p
      /\ row.pc = pc
  BY <1>1 DEF BatchRow
<1> HIDE DEF row
<1>3. batch' = [batch EXCEPT ![b] = row]
  BY DEF row
<1> QED
  BY <1>1, <1>2, <1>3

LEMMA UploadsSettledShape ==
    ASSUME PageTypeInv, NEW b \in Batches, UploadsSettled(b)
    PROVE  /\ PageTypeInv'
           /\ \A c \in Batches :
                /\ batch'[c].files = batch[c].files
                /\ batch'[c].p = batch[c].p
                /\ batch'[c].pc = IF c = b THEN "load" ELSE batch[c].pc
           /\ \A i \in DOMAIN batch[b].files : batch[b].files[i].pc = "over"
<1>1. batch[b].p \in Prefixes
  BY BatchFields
<1>2. /\ lists' \in [Lists -> List \cup {None}]
      /\ \A t \in InFlight' : lists'[t].pc = "ok" => lists'[t].answer \in Answer
      /\ older' \subseteq InFlight'
      /\ loading' \in BOOLEAN /\ raced' \in BOOLEAN
  BY <1>1, LoadTypes DEF UploadsSettled
<1>3. batch' = [batch EXCEPT ![b] = [batch[b] EXCEPT !.pc = "load", !.timer = TRUE]]
  BY DEF UploadsSettled, PageTypeInv
<1>4. /\ batch' \in [Batches -> BatchRow]
      /\ \A c \in Batches :
            /\ batch'[c].files = batch[c].files
            /\ batch'[c].p = batch[c].p
            /\ batch'[c].pc = IF c = b THEN "load" ELSE batch[c].pc
  BY <1>3, BatchGoes
<1>5. PageTypeInv'
  BY <1>2, <1>4 DEF UploadsSettled, PageTypeInv
<1> QED
  BY <1>4, <1>5 DEF UploadsSettled, Settled

LEMMA TimerShape ==
    ASSUME PageTypeInv, NEW b \in Batches, Timer(b)
    PROVE  /\ PageTypeInv'
           /\ \A c \in Batches :
                /\ batch'[c].files = batch[c].files
                /\ batch'[c].p = batch[c].p
                /\ batch'[c].pc = batch[c].pc
<1> DEFINE row == [batch[b] EXCEPT !.timer = FALSE]
<1>1. batch \in [Batches -> BatchRow] /\ batch[b] \in BatchRow
  BY DEF PageTypeInv
<1>2. /\ row \in BatchRow /\ row.files = batch[b].files /\ row.p = batch[b].p
      /\ row.pc = batch[b].pc
  BY <1>1 DEF BatchRow
<1>3. batch' = [batch EXCEPT ![b] = row]
  BY <1>1 DEF Timer
<1> HIDE DEF row
<1>4. /\ batch' \in [Batches -> BatchRow]
      /\ \A c \in Batches :
            /\ batch'[c].files = batch[c].files
            /\ batch'[c].p = batch[c].p
            /\ batch'[c].pc = batch[c].pc
  BY <1>1, <1>2, <1>3
<1>5. tasks' \in Seq(Task)
  BY DEF Timer
<1>6. InFlight' = InFlight
  BY DEF Timer, InFlight
<1>7. PageTypeInv'
  BY <1>4, <1>5, <1>6 DEF Timer, PageTypeInv
<1> QED
  BY <1>4, <1>7

(* The answer of a deletion and the end of one. *)
LEMMA DeletionGoes ==
    ASSUME PageTypeInv, NEW d \in Deletions, deletion[d].pc # "new",
           NEW pc \in {"deleted", "refused", "lost", "load", "over"},
           deletion' = [deletion EXCEPT ![d].pc = pc]
    PROVE  /\ deletion' \in [Deletions -> DeletionRow]
           /\ \A e \in Deletions : deletion'[e].pc # "new" => deletion'[e].key \in Keys
           /\ \A e \in Deletions :
                deletion'[e].pc = IF e = d THEN pc ELSE deletion[e].pc
<1> DEFINE row == [deletion[d] EXCEPT !.pc = pc]
<1>1. deletion \in [Deletions -> DeletionRow] /\ deletion[d] \in DeletionRow
      /\ deletion[d].key \in Keys
  BY DEF PageTypeInv
<1>2. row \in DeletionRow /\ row.key \in Keys /\ row.pc = pc
  BY <1>1 DEF DeletionRow
<1>3. deletion' = [deletion EXCEPT ![d] = row]
  BY <1>1
<1> HIDE DEF row
<1>4. /\ deletion' \in [Deletions -> DeletionRow]
      /\ \A e \in Deletions : deletion'[e] = IF e = d THEN row ELSE deletion[e]
  BY <1>1, <1>2, <1>3
<1> QED
  BY <1>2, <1>4 DEF PageTypeInv

LEMMA HandleDeleteShape ==
    ASSUME PageTypeInv, NEW d \in Deletions, NEW key \in Keys, HandleDelete(d, key)
    PROVE  /\ PageTypeInv'
           /\ \A e \in Deletions :
                deletion'[e].pc = IF e = d THEN "sent" ELSE deletion[e].pc
           /\ deletion[d].pc = "new"
<1> DEFINE row == [pc |-> "sent", p |-> prefix, key |-> key]
<1>1. row \in DeletionRow
  BY DEF DeletionRow, PageTypeInv
<1>2. deletion' = [deletion EXCEPT ![d] = row]
  BY DEF HandleDelete
<1>3. deletion \in [Deletions -> DeletionRow]
  BY DEF PageTypeInv
<1>4. row.pc = "sent" /\ row.key = key
  OBVIOUS
<1> HIDE DEF row
<1>5. /\ deletion' \in [Deletions -> DeletionRow]
      /\ \A e \in Deletions : deletion'[e] = IF e = d THEN row ELSE deletion[e]
  BY <1>1, <1>2, <1>3
<1>6. \A e \in Deletions : deletion'[e].pc # "new" => deletion'[e].key \in Keys
  BY <1>4, <1>5 DEF PageTypeInv
<1>7. clicks' \in 0..MaxClicks /\ deletingKey' \in Keys
  BY PageAssumption DEF HandleDelete, Click, PageTypeInv
<1>8. InFlight' = InFlight
  BY DEF HandleDelete, InFlight
<1>9. PageTypeInv'
  BY <1>5, <1>6, <1>7, <1>8 DEF HandleDelete, PageTypeInv
<1> QED
  BY <1>4, <1>5, <1>9 DEF HandleDelete

LEMMA ServeDeleteShape ==
    ASSUME PageTypeInv, NEW d \in Deletions, ServeDelete(d)
    PROVE  /\ PageTypeInv'
           /\ deletion[d].pc = "sent" /\ deletion[d].key \in Keys
           /\ \E pc \in {"deleted", "refused", "lost"} :
                /\ \A e \in Deletions :
                    deletion'[e].pc = IF e = d THEN pc ELSE deletion[e].pc
                /\ store' = IF pc = "refused" THEN store
                            ELSE [store EXCEPT ![deletion[d].key] = None]
<1>1. deletion[d].pc = "sent" /\ deletion[d].key \in Keys
  BY DEF ServeDelete, PageTypeInv
<1>2. PICK pc \in {"deleted", "refused", "lost"} :
        /\ deletion' = [deletion EXCEPT ![d].pc = pc]
        /\ store' = IF pc = "refused" THEN store
                    ELSE [store EXCEPT ![deletion[d].key] = None]
  BY DEF ServeDelete
<1>3. /\ deletion' \in [Deletions -> DeletionRow]
      /\ \A e \in Deletions : deletion'[e].pc # "new" => deletion'[e].key \in Keys
      /\ \A e \in Deletions :
            deletion'[e].pc = IF e = d THEN pc ELSE deletion[e].pc
  BY <1>1, <1>2, DeletionGoes
<1>4. store' = [k \in Keys |-> store'[k]]
  BY <1>2 DEF PageTypeInv
<1>5. InFlight' = InFlight
  BY DEF ServeDelete, InFlight
<1>6. PageTypeInv'
  BY <1>3, <1>4, <1>5 DEF ServeDelete, PageTypeInv
<1> QED
  BY <1>1, <1>2, <1>3, <1>6

LEMMA DeleteArrivesShape ==
    ASSUME PageTypeInv, NEW d \in Deletions, DeleteArrives(d)
    PROVE  /\ PageTypeInv'
           /\ \A e \in Deletions :
                deletion'[e].pc = IF e = d THEN "load" ELSE deletion[e].pc
<1>1. deletion[d].p \in Prefixes /\ deletion[d].pc = "deleted"
  BY DEF DeleteArrives, PageTypeInv, DeletionRow
<1>2. /\ lists' \in [Lists -> List \cup {None}]
      /\ \A t \in InFlight' : lists'[t].pc = "ok" => lists'[t].answer \in Answer
      /\ older' \subseteq InFlight'
      /\ loading' \in BOOLEAN /\ raced' \in BOOLEAN
  BY <1>1, LoadTypes DEF DeleteArrives
<1>3. /\ deletion' \in [Deletions -> DeletionRow]
      /\ \A e \in Deletions : deletion'[e].pc # "new" => deletion'[e].key \in Keys
      /\ \A e \in Deletions :
            deletion'[e].pc = IF e = d THEN "load" ELSE deletion[e].pc
  BY <1>1, DeletionGoes DEF DeleteArrives
<1>4. PageTypeInv'
  BY <1>2, <1>3 DEF DeleteArrives, PageTypeInv
<1> QED
  BY <1>3, <1>4

LEMMA DeleteFailsShape ==
    ASSUME PageTypeInv, NEW d \in Deletions, DeleteFails(d)
    PROVE  /\ PageTypeInv'
           /\ deletion[d].pc \in {"refused", "lost"}
           /\ \A e \in Deletions :
                deletion'[e].pc = IF e = d THEN "over" ELSE deletion[e].pc
<1>1. deletion[d].pc \in {"refused", "lost"}
  BY DEF DeleteFails
<1>2. /\ deletion' \in [Deletions -> DeletionRow]
      /\ \A e \in Deletions : deletion'[e].pc # "new" => deletion'[e].key \in Keys
      /\ \A e \in Deletions :
            deletion'[e].pc = IF e = d THEN "over" ELSE deletion[e].pc
  BY <1>1, DeletionGoes DEF DeleteFails
<1>3. InFlight' = InFlight
  BY DEF DeleteFails, InFlight
<1>4. raced' \in BOOLEAN
  BY DEF DeleteFails, PageTypeInv
<1>5. PageTypeInv'
  BY <1>2, <1>3, <1>4 DEF DeleteFails, PageTypeInv
<1> QED
  BY <1>1, <1>2, <1>5

-----------------------------------------------------------------------------
(* The page of a bucket: the invariant *)

(* A batch goes on once its last file is over. *)
FilesInv ==
    \A b \in Batches : batch[b].pc # "up" =>
        \A i \in DOMAIN batch[b].files : batch[b].files[i].pc = "over"

(* What the server has may differ from what was listed last, and will be   *)
(* listed again.                                                           *)
Unloaded ==
    \/ \E b \in Batches : batch[b].pc = "up"
    \/ \E d \in Deletions : deletion[d].pc \in {"deleted", "lost"}

(* The files as the server has them, up to the last page, and the folders  *)
(* of that page.                                                           *)
Fresh(a) ==
    /\ a.p = prefix
    /\ a.objects = {k \in UpTo(a) : k[1] = prefix}
    /\ a.folders = {k[1] : k \in {j \in UpTo(a) : Rank[j] > a.from}} \ {prefix}

(* What the page may rely on about a request after which no load was sent. *)
AloneInv(s) ==
    /\ lists[s].p = prefix
    /\ lists[s].kind = "load" => lists[s].token = 0
    /\ lists[s].kind = "more" => /\ result # None /\ result.more
                                 /\ lists[s].token = result.token
    /\ ~Unloaded =>
        /\ lists[s].kind = "more" => Fresh(result)
        /\ lists[s].pc = "ok" =>
            IsListed(lists[s].answer, prefix, lists[s].token)

(* Of the requests after which no load was sent there is one at most; the  *)
(* page shows what its answer brings, or, when it has come, has brought.   *)
Newest == InFlight \ older

ShownInv ==
    ~raced =>
        /\ \A s, t \in Newest : s = t
        /\ \A s \in Newest : /\ AloneInv(s)
                             /\ lists[s].kind = "more" => InFlight = {s}
        /\ Newest = {} => /\ result # None
                          /\ ~Unloaded => Fresh(result)

WholeInv ==
    /\ \A k \in Keys : store[k] \in {None, Body(k[2])}
    /\ \A b \in Batches : \A i \in DOMAIN batch[b].files :
        LET f == batch[b].files[i] IN
        f.pc = "complete" => f.acked >= TotalParts(f.name)

(* With one batch at a time, the panel is that batch's.                    *)
TickInv ==
    /\ \A b \in Batches : \A i \in DOMAIN batch[b].files :
        batch[b].files[i].pc = "stored" => Key(b, i) \in stored
    /\ ~mixed => \A b \in Uploading :
        /\ \A c \in Uploading : c = b
        /\ \A i \in DOMAIN tasks : /\ i \in DOMAIN batch[b].files
                                   /\ tasks[i].key = Key(b, i)
    /\ TicksAreStored

PageInv ==
    PageTypeInv /\ FilesInv /\ OwnerInv /\ ShownInv /\ WholeInv /\ TickInv

LEMMA InitPage == PageInit => PageInv
<1> SUFFICES ASSUME PageInit PROVE PageInv
  OBVIOUS
<1>1. PageTypeInv
  BY InitPageTypes
<1>2. FilesInv /\ TickInv
  BY DEF PageInit, FilesInv, TickInv, Uploading, TicksAreStored
<1>3. InFlight = {1} /\ lists[1] = LoadRow(Root, None)
  <2>1. 1 \in Lists
    BY PageAssumption DEF Lists
  <2>2. LoadRow(Root, None) \in List
    BY PageAssumption DEF LoadRow, List, Tokens
  <2>3. LoadRow(Root, None) # None
    BY <2>2, PageSentinelAssumption
  <2>4. lists = [s \in Lists |-> IF s # 1 THEN None ELSE LoadRow(Root, None)]
    BY DEF PageInit, LoadRow
  <2> QED
    BY <2>1, <2>3, <2>4 DEF InFlight
<1>4. OwnerInv
  BY <1>3, PageAssumption DEF OwnerInv, LoadRow
<1>5. ShownInv
  BY <1>3 DEF PageInit, ShownInv, Newest, AloneInv, LoadRow
<1>6. WholeInv
  BY DEF PageInit, WholeInv
<1> QED
  BY <1>1, <1>2, <1>4, <1>5, <1>6 DEF PageInv

(* A load that is sent: unless it is for the folder shown now, the history *)
(* remembers.                                                              *)
LEMMA LoadShown ==
    ASSUME PageTypeInv, NEW p \in Prefixes,
           NEW owner \in Batches \cup Deletions \cup {None}, Load(p, owner)
    PROVE  ShownInv'
<1> SUFFICES ASSUME ~raced' PROVE ShownInv'
  BY DEF ShownInv
<1>1. older' = InFlight /\ p = prefix'
  BY DEF Load
<1>2. PICK s \in Lists : Added(s, LoadRow(p, owner))
  BY LoadAdds
<1>3. Newest' = {s} /\ lists'[s] = LoadRow(p, owner)
  BY <1>1, <1>2 DEF Added, Newest
<1> QED
  BY <1>1, <1>3 DEF ShownInv, AloneInv, LoadRow

LEMMA LoadOwner ==
    ASSUME PageTypeInv, OwnerInv, NEW p \in Prefixes,
           NEW owner \in Batches \cup Deletions \cup {None}, Load(p, owner),
           owner \in Batches => batch'[owner].pc = "load",
           owner \in Deletions => deletion'[owner].pc = "load",
           \A b \in Batches : batch[b].pc \in {"load", "over"}
                                => batch'[b].pc \in {"load", "over"},
           \A d \in Deletions : deletion[d].pc \in {"load", "over"}
                                => deletion'[d].pc \in {"load", "over"}
    PROVE  OwnerInv'
<1>1. PICK s \in Lists : Added(s, LoadRow(p, owner))
  BY LoadAdds
<1>2. \A t \in InFlight' : t = s \/ (t \in InFlight /\ lists'[t] = lists[t])
  BY <1>1 DEF Added, InFlight
<1>3. lists'[s].owner = owner
  BY <1>1 DEF Added, LoadRow
<1> QED
  BY <1>2, <1>3 DEF OwnerInv

(* Steps that send nothing, take no answer and change nothing listed.      *)
LEMMA ShownStays ==
    ASSUME ShownInv, UNCHANGED <<lists, older, result, prefix, raced>>,
           Unloaded' \/ (store' = store /\ ~Unloaded)
    PROVE  ShownInv'
<1> SUFFICES ASSUME ~raced PROVE ShownInv'
  BY DEF ShownInv
<1>1. InFlight' = InFlight /\ Newest' = Newest
  BY DEF InFlight, Newest
<1>2. CASE Unloaded'
  <2>1. \A s \in Newest : AloneInv(s)'
    BY <1>2 DEF ShownInv, AloneInv
  <2> QED
    BY <1>1, <1>2, <2>1 DEF ShownInv
<1>3. CASE store' = store /\ ~Unloaded
  <2>1. \A a : Fresh(a)' <=> Fresh(a)
    BY <1>3 DEF Held, Under, UpTo, Fresh
  <2>2. \A a, p, t : IsListed(a, p, t)' <=> IsListed(a, p, t)
    BY <1>3 DEF Held, Under, Rest, IsListed
  <2>3. \A s \in Newest : AloneInv(s)'
    BY <1>3, <2>1, <2>2 DEF ShownInv, AloneInv
  <2>4. Fresh(result)' <=> Fresh(result)
    BY <1>3 DEF Held, Under, UpTo, Fresh
  <2> QED
    BY <1>1, <1>3, <2>3, <2>4 DEF ShownInv
<1> QED
  BY <1>2, <1>3

LEMMA OwnerStays ==
    ASSUME OwnerInv, UNCHANGED lists,
           \A b \in Batches : batch[b].pc \in {"load", "over"}
                                => batch'[b].pc \in {"load", "over"},
           \A d \in Deletions : deletion[d].pc \in {"load", "over"}
                                => deletion'[d].pc \in {"load", "over"}
    PROVE  OwnerInv'
  BY DEF OwnerInv, InFlight

LEMMA RefreshKeeps == PageInv /\ Refresh => PageInv'
<1> SUFFICES ASSUME PageInv, Refresh PROVE PageInv'
  OBVIOUS
<1> USE DEF PageInv
<1>1. PageTypeInv'
  BY RefreshTypes
<1>2. prefix \in Prefixes /\ Load(prefix, None)
  BY DEF Refresh, PageTypeInv
<1>3. ShownInv'
  BY <1>2, LoadShown
<1>4. UNCHANGED <<batch, deletion, store, stored, mixed, tasks>>
  BY DEF Refresh
<1>5. OwnerInv'
  BY <1>2, <1>4, LoadOwner, PageAssumption
<1>6. FilesInv' /\ WholeInv' /\ TickInv'
  BY <1>4 DEF FilesInv, WholeInv, TickInv, Uploading, Key, TicksAreStored
<1> QED
  BY <1>1, <1>3, <1>5, <1>6

LEMMA NavigateKeeps ==
    ASSUME PageInv, NEW p \in Prefixes, Navigate(p)
    PROVE  PageInv'
<1> USE DEF PageInv
<1>1. PageTypeInv'
  BY NavigateTypes
<1>2. Load(p, None)
  BY DEF Navigate
<1>3. ShownInv'
  BY <1>2, LoadShown
<1>4. UNCHANGED <<batch, deletion, store, stored, mixed, tasks>>
  BY DEF Navigate
<1>5. OwnerInv'
  BY <1>2, <1>4, LoadOwner, PageAssumption
<1>6. FilesInv' /\ WholeInv' /\ TickInv'
  BY <1>4 DEF FilesInv, WholeInv, TickInv, Uploading, Key, TicksAreStored
<1> QED
  BY <1>1, <1>3, <1>5, <1>6

LEMMA LoadMoreKeeps == PageInv /\ LoadMore => PageInv'
<1> SUFFICES ASSUME PageInv, LoadMore PROVE PageInv'
  OBVIOUS
<1> USE DEF PageInv
<1>1. PageTypeInv'
  BY LoadMoreTypes
<1>2. PICK s \in Lists : Added(s, MoreRow)
  BY MoreAdds
<1>3. result # None /\ result.more
  BY MoreAdds
<1>4. UNCHANGED <<batch, deletion, store, stored, mixed, tasks, prefix, result>>
  BY DEF LoadMore
<1>5. OwnerInv'
  <2>1. \A t \in InFlight' : t = s \/ (t \in InFlight /\ lists'[t] = lists[t])
    BY <1>2 DEF Added, InFlight
  <2>2. lists'[s].owner = None
    BY <1>2 DEF Added, MoreRow
  <2> QED
    BY <1>4, <2>1, <2>2, PageAssumption DEF OwnerInv
<1>6. ShownInv'
  <2> SUFFICES ASSUME ~raced' PROVE ShownInv'
    BY DEF ShownInv
  <2>1. InFlight = {} /\ ~raced /\ older' = {}
    BY DEF LoadMore, PageTypeInv
  <2>2. InFlight' = {s} /\ Newest' = {s} /\ lists'[s] = MoreRow
    BY <1>2, <2>1 DEF Added, Newest
  <2>3. ~Unloaded => Fresh(result)
    BY <2>1 DEF ShownInv, Newest
  <2>4. (Unloaded' <=> Unloaded) /\ (Fresh(result)' <=> Fresh(result))
    BY <1>4 DEF Unloaded, Fresh, UpTo, Under, Held
  <2>5. AloneInv(s)'
    BY <1>3, <1>4, <2>2, <2>3, <2>4 DEF AloneInv, MoreRow
  <2> QED
    BY <2>2, <2>5 DEF ShownInv
<1>7. FilesInv' /\ WholeInv' /\ TickInv'
  BY <1>4 DEF FilesInv, WholeInv, TickInv, Uploading, Key, TicksAreStored
<1> QED
  BY <1>1, <1>5, <1>6, <1>7

LEMMA ServeListKeeps ==
    ASSUME PageInv, NEW s \in Lists, ServeList(s)
    PROVE  PageInv'
<1> USE DEF PageInv
<1>1. PageTypeInv'
  BY ServeListTypes
<1>2. /\ s \in InFlight /\ lists[s].pc = "sent"
      /\ InFlight' = InFlight
      /\ \A t \in Lists \ {s} : lists'[t] = lists[t]
      /\ lists'[s].p = lists[s].p
      /\ lists'[s].kind = lists[s].kind
      /\ lists'[s].token = lists[s].token
      /\ lists'[s].owner = lists[s].owner
      /\ \/ lists'[s].pc = "error"
         \/ /\ lists'[s].pc = "ok"
            /\ lists'[s].answer = Listing(lists[s].p, lists[s].token)
  BY ServeListShape
<1>3. UNCHANGED <<batch, deletion, store, stored, mixed, tasks, prefix, result,
                  older, raced>>
  BY DEF ServeList
<1>4. OwnerInv'
  BY <1>2, <1>3 DEF OwnerInv, InFlight
<1>5. ShownInv'
  <2> SUFFICES ASSUME ~raced PROVE ShownInv'
    BY <1>3 DEF ShownInv
  <2>1. Newest' = Newest
    BY <1>2, <1>3 DEF Newest
  <2>2. (Unloaded' <=> Unloaded) /\ (Fresh(result)' <=> Fresh(result))
    BY <1>3 DEF Unloaded, Fresh, UpTo, Under, Held
  <2>3. \A a, p, t : IsListed(a, p, t)' <=> IsListed(a, p, t)
    BY <1>3 DEF Held, Under, Rest, IsListed
  <2>4. \A t \in Newest : lists'[t].kind = lists[t].kind
    BY <1>2 DEF Newest, InFlight
  <2>5. ASSUME NEW t \in Newest, t # s PROVE AloneInv(t)'
    <3>1. AloneInv(t) /\ lists'[t] = lists[t]
      BY <1>2, <2>5 DEF ShownInv, Newest, InFlight
    <3> QED
      BY <1>3, <2>2, <2>3, <3>1 DEF AloneInv
  <2>6. ASSUME s \in Newest PROVE AloneInv(s)'
    <3>1. AloneInv(s)
      BY <2>6 DEF ShownInv
    <3> DEFINE a == Listing(lists[s].p, lists[s].token)
    <3>2. IsListed(a, prefix, lists[s].token)
      BY <1>2, <3>1, ListFields, ListingIsInitial DEF AloneInv
    <3>3. lists'[s].pc = "ok" => lists'[s].answer = a
      BY <1>2
    <3> HIDE DEF a
    <3>4. (lists[s].pc = "ok" =>
            IsListed(lists[s].answer, prefix, lists[s].token))'
      BY <1>2, <1>3, <3>2, <3>3 DEF Held, Under, Rest, IsListed
    <3> QED
      BY <1>2, <1>3, <2>2, <3>1, <3>4 DEF AloneInv
  <2> QED
    BY <1>2, <1>3, <2>1, <2>2, <2>4, <2>5, <2>6 DEF ShownInv
<1>6. FilesInv' /\ WholeInv' /\ TickInv'
  BY <1>3 DEF FilesInv, WholeInv, TickInv, Uploading, Key, TicksAreStored
<1> QED
  BY <1>1, <1>4, <1>5, <1>6

(* What an arrival does to the requests that are left. *)
LEMMA NewestLeft ==
    ASSUME PageTypeInv, NEW s \in InFlight, older' = older \ {s},
           InFlight' = InFlight \ {s}, \A t \in InFlight' : lists'[t] = lists[t]
    PROVE  /\ Newest' = Newest \ {s}
           /\ \A t \in Newest' : lists'[t] = lists[t]
  BY DEF Newest

(* An answer that is no news: of a request sent before a load that is      *)
(* still to be answered, or an error of any before a load.                 *)
LEMMA OldNews ==
    ASSUME PageInv, NEW s \in InFlight, s \in older, ~raced, ~Late(s),
           older' = older \ {s}, InFlight' = InFlight \ {s},
           \A t \in InFlight' : lists'[t] = lists[t],
           lists[s].pc = "ok" \/ result' = result,
           lists[s].pc \in {"ok", "error"},
           UNCHANGED <<store, prefix>>, Unloaded' <=> Unloaded
    PROVE  ShownInv'
<1> USE DEF PageInv
<1>1. Newest' = Newest /\ \A t \in Newest : lists'[t] = lists[t]
  BY NewestLeft DEF Newest
<1>2. \A t \in Newest : lists[t].kind = "load"
  <2> SUFFICES ASSUME NEW t \in Newest, lists[t].kind # "load" PROVE FALSE
    OBVIOUS
  <2>1. t \in InFlight /\ t # s
    BY DEF Newest
  <2>2. lists[t].kind = "more"
    BY <2>1, ListFields
  <2> QED
    BY <2>1, <2>2 DEF ShownInv
<1>3. \A a, p, t : IsListed(a, p, t)' <=> IsListed(a, p, t)
  BY DEF Held, Under, Rest, IsListed
<1>4. \A t \in Newest : AloneInv(t)'
  <2> SUFFICES ASSUME NEW t \in Newest PROVE AloneInv(t)'
    OBVIOUS
  <2>1. AloneInv(t) /\ lists[t].kind = "load" /\ lists'[t] = lists[t]
    BY <1>1, <1>2 DEF ShownInv
  <2> QED
    BY <1>3, <2>1 DEF AloneInv
<1>5. \A t \in Newest : lists'[t].kind # "more"
  BY <1>1, <1>2
<1>6. CASE lists[s].pc = "ok"
  <2>1. Newest # {}
    BY <1>6 DEF Late, Newest
  <2> QED
    BY <1>1, <1>4, <1>5, <2>1 DEF ShownInv
<1>7. CASE result' = result
  <2>1. Fresh(result)' <=> Fresh(result)
    BY <1>7 DEF Fresh, UpTo, Under, Held
  <2> QED
    BY <1>1, <1>4, <1>5, <1>7, <2>1 DEF ShownInv
<1> QED
  BY <1>6, <1>7

LEMMA LoadArrivesKeeps ==
    ASSUME PageInv, NEW s \in Lists, LoadArrives(s)
    PROVE  PageInv'
<1> USE DEF PageInv
<1> DEFINE l == lists[s]
<1>1. /\ PageTypeInv'
      /\ \A b \in Batches :
            /\ batch'[b].files = batch[b].files
            /\ batch'[b].p = batch[b].p
            /\ batch'[b].pc = IF b = l.owner THEN "over" ELSE batch[b].pc
      /\ \A d \in Deletions :
            deletion'[d].pc = IF d = l.owner THEN "over" ELSE deletion[d].pc
  BY LoadArrivesTypes
<1>2. s \in InFlight /\ l.kind = "load" /\ l.pc \in {"ok", "error"}
  BY ListFields DEF LoadArrives, InFlight
<1>3. /\ l.owner \in Batches => batch[l.owner].pc \in {"load", "over"}
      /\ l.owner \in Deletions => deletion[l.owner].pc \in {"load", "over"}
  BY <1>2 DEF OwnerInv
<1>4. UNCHANGED <<store, stored, mixed, tasks, prefix>>
  BY DEF LoadArrives
<1>5. InFlight' = InFlight \ {s} /\ \A t \in InFlight' : lists'[t] = lists[t]
  BY ArrivalTakes DEF LoadArrives
<1>6. OwnerInv'
  BY <1>1, <1>5 DEF OwnerInv
<1>7. ShownInv'
  <2> SUFFICES ASSUME ~raced' PROVE ShownInv'
    BY DEF ShownInv
  <2>1. ~raced /\ ~Late(s) /\ (s \in older \/ l.pc = "ok")
    BY <1>2 DEF LoadArrives
  <2>2. older' = older \ {s} /\ (l.pc = "error" => result' = result)
    BY DEF LoadArrives
  <2>3. Unloaded' <=> Unloaded
    BY <1>1, <1>3 DEF Unloaded
  <2>4. CASE s \in older
    <3> HIDE DEF PageInv
    <3> QED
      BY <1>2, <1>4, <1>5, <2>1, <2>2, <2>3, <2>4, OldNews
  <2>5. CASE s \notin older
    <3>1. s \in Newest /\ l.pc = "ok"
      BY <1>2, <2>1, <2>5 DEF Newest
    <3>2. AloneInv(s) /\ Newest' = {}
      <4>1. Newest' = Newest \ {s}
        BY <1>2, <1>5, <2>2, NewestLeft
      <4> QED
        BY <2>1, <3>1, <4>1 DEF ShownInv
    <3>3. result' = l.answer /\ l.answer \in Answer
      BY <1>2, <3>1, ListFields DEF LoadArrives
    <3>4. ASSUME ~Unloaded PROVE Fresh(result)'
      <4>1. IsListed(l.answer, prefix, 0)
        BY <1>2, <3>1, <3>2, <3>4 DEF AloneInv
      <4>2. Rest(prefix, 0) = Under(prefix)
        BY TokensAreNumbers DEF Rest, Under, Held
      <4>3. UpTo(l.answer) =
                {k \in Rest(prefix, 0) : l.answer.more => Rank[k] <= l.answer.token}
        BY <4>1, <4>2 DEF UpTo, IsListed
      <4>4. {j \in UpTo(l.answer) : Rank[j] > l.answer.from} = UpTo(l.answer)
        BY <4>1, TokensAreNumbers DEF UpTo, Under, Held, IsListed
      <4> HIDE DEF l
      <4>5. Fresh(l.answer)
        BY <4>1, <4>3, <4>4 DEF Fresh, IsListed
      <4> QED
        BY <1>4, <3>3, <4>5 DEF Fresh, UpTo, Under, Held
    <3>5. result' # None
      BY <3>3, PageSentinelAssumption
    <3> QED
      BY <2>3, <3>2, <3>4, <3>5 DEF ShownInv
  <2> QED
    BY <2>4, <2>5
<1>8. FilesInv' /\ WholeInv'
  BY <1>1, <1>3, <1>4 DEF FilesInv, WholeInv
<1>9. TickInv'
  <2>1. Uploading' = Uploading
    BY <1>1, <1>3 DEF Uploading
  <2> QED
    BY <1>1, <1>4, <2>1 DEF TickInv, Key, TicksAreStored, Uploading
<1> QED
  BY <1>1, <1>6, <1>7, <1>8, <1>9

LEMMA MoreArrivesKeeps ==
    ASSUME PageInv, NEW s \in Lists, MoreArrives(s)
    PROVE  PageInv'
<1> USE DEF PageInv
<1> DEFINE l == lists[s]
<1>1. PageTypeInv'
  BY MoreArrivesTypes
<1>2. s \in InFlight /\ l.kind = "more" /\ l.pc \in {"ok", "error"}
  BY ListFields DEF MoreArrives, InFlight
<1>3. UNCHANGED <<batch, deletion, store, stored, mixed, tasks, prefix>>
  BY DEF MoreArrives
<1>4. InFlight' = InFlight \ {s} /\ \A t \in InFlight' : lists'[t] = lists[t]
  BY ArrivalTakes DEF MoreArrives
<1>5. OwnerInv'
  BY <1>3, <1>4 DEF OwnerInv
<1>6. ShownInv'
  <2> SUFFICES ASSUME ~raced' PROVE ShownInv'
    BY DEF ShownInv
  <2>1. ~raced /\ ~Late(s) /\ older' = older \ {s}
    BY DEF MoreArrives
  <2>2. (Unloaded' <=> Unloaded) /\ Held' = Held
    BY <1>3 DEF Unloaded, Held
  <2>3. CASE s \in older
    <3>1. l.pc = "ok" \/ result' = result
      BY <1>2 DEF MoreArrives
    <3> HIDE DEF PageInv
    <3> QED
      BY <1>2, <1>3, <1>4, <2>1, <2>2, <2>3, <3>1, OldNews
  <2>4. CASE s \notin older
    <3>1. s \in Newest
      BY <1>2, <2>4 DEF Newest
    <3>2. AloneInv(s) /\ Newest' = {}
      <4>1. Newest' = Newest \ {s}
        BY <1>2, <1>4, <2>1, NewestLeft
      <4> QED
        BY <2>1, <3>1, <4>1 DEF ShownInv
    <3>3. /\ result # None /\ result.more /\ l.token = result.token
          /\ result \in Answer
      BY <1>2, <3>2 DEF AloneInv, PageTypeInv
    <3>4. CASE l.pc = "error"
      <4>1. result' = result
        BY <3>4 DEF MoreArrives
      <4>2. ~Unloaded => Fresh(result)
        BY <1>2, <3>2 DEF AloneInv
      <4>3. Fresh(result)' <=> Fresh(result)
        BY <1>3, <2>2, <4>1 DEF Fresh, UpTo, Under
      <4> QED
        BY <3>2, <3>3, <2>2, <4>1, <4>2, <4>3 DEF ShownInv
    <3>5. CASE l.pc = "ok"
      <4> DEFINE a == l.answer
      <4>1. a \in Answer
        BY <1>2, <3>5, ListFields
      <4>2. result' = [a EXCEPT !.objects = @ \cup result.objects]
        BY <3>3, <3>5 DEF MoreArrives, Joined, Shown
      <4>3. /\ result' \in Answer /\ result'.p = a.p /\ result'.from = a.from
            /\ result'.objects = a.objects \cup result.objects
            /\ result'.folders = a.folders
            /\ result'.more = a.more /\ result'.token = a.token
        BY <3>3, <4>1, <4>2 DEF Answer
      <4>4. result' # None
        BY <4>3, PageSentinelAssumption
      <4>5. ASSUME ~Unloaded PROVE Fresh(result)'
        <5>1. IsListed(a, prefix, result.token) /\ Fresh(result)
          BY <1>2, <3>2, <3>3, <3>5, <4>5 DEF AloneInv
        <5>2. \A k \in Under(prefix) : k \in Keys /\ Rank[k] \in Nat
          BY TokensAreNumbers DEF Under, Held
        <5>3. a.token \in Nat /\ result.token \in Nat
          BY <3>3, <4>1, TokensAreNumbers DEF Answer
        <5> HIDE DEF a
        <5>4. {j \in UpTo(a) : Rank[j] > a.from} =
                {k \in Rest(prefix, result.token) : a.more => Rank[k] <= a.token}
          BY <5>1 DEF UpTo, Rest, IsListed
        <5>5. a.objects \cup result.objects = {k \in UpTo(a) : k[1] = prefix}
          <6>1. a.objects = {k \in UpTo(a) : Rank[k] > result.token /\ k[1] = prefix}
            BY <5>1, <5>4 DEF IsListed
          <6>2. result.objects = {k \in Under(prefix) : /\ Rank[k] <= result.token
                                                       /\ k[1] = prefix}
            BY <3>3, <5>1 DEF Fresh, UpTo
          <6>3. UpTo(a) = {k \in Under(prefix) : a.more => Rank[k] <= a.token}
            BY <5>1 DEF UpTo, IsListed
          <6>4. a.more => a.token >= result.token
            BY <5>1 DEF IsListed
          <6> QED
            BY <6>1, <6>2, <6>3, <6>4, <5>2, <5>3
        <5>6. a.p = prefix /\ a.folders = {k[1] : k \in {j \in UpTo(a) :
                                                Rank[j] > a.from}} \ {prefix}
          BY <5>1, <5>4 DEF IsListed
        <5>7. UpTo(result)' = UpTo(a)
          BY <2>2, <4>3, <5>6 DEF UpTo, Under
        <5> QED
          BY <1>3, <4>3, <5>5, <5>6, <5>7 DEF Fresh
      <4> QED
        BY <3>2, <2>2, <4>4, <4>5 DEF ShownInv
    <3> QED
      BY <1>2, <3>4, <3>5
  <2> QED
    BY <2>3, <2>4
<1>7. FilesInv' /\ WholeInv' /\ TickInv'
  BY <1>3 DEF FilesInv, WholeInv, TickInv, Uploading, Key, TicksAreStored
<1> QED
  BY <1>1, <1>5, <1>6, <1>7

(* Uploads *)

LEMMA UploadFilesKeeps ==
    ASSUME PageInv, NEW b \in Batches, NEW files \in Selections,
           UploadFiles(b, files)
    PROVE  PageInv'
<1> USE DEF PageInv
<1>1. /\ PageTypeInv'
      /\ batch[b].pc = "new"
      /\ batch'[b].pc = "up" /\ batch'[b].p = prefix
      /\ DOMAIN batch'[b].files = DOMAIN files
      /\ \A i \in DOMAIN files : batch'[b].files[i] = NewFile(files[i])
      /\ \A c \in Batches \ {b} : batch'[c] = batch[c]
      /\ DOMAIN tasks' = DOMAIN files
      /\ \A i \in DOMAIN files :
            tasks'[i] = [key |-> <<prefix, files[i]>>, state |-> "busy"]
  BY UploadFilesShape
<1>2. /\ UNCHANGED <<store, prefix, result, lists, older, deletion, stored, raced>>
      /\ mixed' = (Uploading # {})
  BY DEF UploadFiles
<1>3. \A i \in DOMAIN files :
        /\ batch'[b].files[i].name = files[i]
        /\ batch'[b].files[i].pc \in {"put", "parts"}
  <2>1. \A n : NewFile(n).name = n /\ NewFile(n).pc \in {"put", "parts"}
    BY DEF NewFile
  <2> QED
    BY <1>1, <2>1
<1>4. FilesInv'
  BY <1>1 DEF FilesInv
<1>5. OwnerInv'
  BY <1>1, <1>2, OwnerStays
<1>6. ShownInv'
  <2>1. Unloaded'
    BY <1>1 DEF Unloaded
  <2> QED
    BY <1>2, <2>1, ShownStays
<1>7. WholeInv'
  BY <1>1, <1>2, <1>3 DEF WholeInv
<1>8. TickInv'
  <2>1. \A c \in Batches : \A i \in DOMAIN batch'[c].files :
            batch'[c].files[i].pc = "stored" => Key(c, i)' \in stored'
    BY <1>1, <1>2, <1>3 DEF TickInv, Key
  <2>2. \A i \in DOMAIN tasks' : tasks'[i].state = "busy"
    BY <1>1
  <2>3. ASSUME ~mixed', NEW c \in Uploading'
        PROVE  /\ \A e \in Uploading' : e = c
               /\ \A i \in DOMAIN tasks' : /\ i \in DOMAIN batch'[c].files
                                           /\ tasks'[i].key = Key(c, i)'
    <3>1. \A e \in Uploading' : e = b
      BY <1>1, <1>2, <2>3 DEF Uploading
    <3>2. \A i \in DOMAIN tasks' : /\ i \in DOMAIN batch'[b].files
                                   /\ tasks'[i].key = Key(b, i)'
      BY <1>1, <1>3 DEF Key
    <3> QED
      BY <2>3, <3>1, <3>2
  <2> QED
    BY <2>1, <2>2, <2>3 DEF TickInv, TicksAreStored
<1> QED
  BY <1>1, <1>4, <1>5, <1>6, <1>7, <1>8

(* What a step of one file of an uploading batch leaves as it is. *)
LEMMA MovedKeeps ==
    ASSUME FilesInv, OwnerInv, NEW b \in Batches, NEW i \in DOMAIN batch[b].files,
           NEW f, Moved(b, i, f), batch[b].files[i].pc # "over",
           UNCHANGED <<lists, older, deletion>>
    PROVE  /\ batch[b].pc = "up"
           /\ FilesInv' /\ OwnerInv'
           /\ Unloaded'
           /\ Uploading' = Uploading
<1>1. batch[b].pc = "up"
  BY DEF FilesInv
<1>2. FilesInv'
  BY <1>1 DEF FilesInv, Moved
<1>3. OwnerInv'
  BY OwnerStays DEF Moved
<1>4. Unloaded'
  BY <1>1 DEF Unloaded, Moved
<1>5. Uploading' = Uploading
  BY DEF Uploading, Moved
<1> QED
  BY <1>1, <1>2, <1>3, <1>4, <1>5

LEMMA MovedKeys ==
    ASSUME NEW b \in Batches, NEW i \in DOMAIN batch[b].files,
           NEW f, Moved(b, i, f), f.name = batch[b].files[i].name
    PROVE  \A c \in Batches : \A j \in DOMAIN batch[c].files : Key(c, j)' = Key(c, j)
  BY DEF Moved, Key

(* ... and of the panel, as long as nothing is ticked. *)
LEMMA MovedTicks ==
    ASSUME TickInv, NEW b \in Batches, NEW i \in DOMAIN batch[b].files,
           NEW f, Moved(b, i, f), f.name = batch[b].files[i].name,
           f.pc = "stored" => Key(b, i) \in stored',
           stored \subseteq stored', UNCHANGED <<tasks, mixed>>
    PROVE  TickInv'
<1>1. \A c \in Batches : \A j \in DOMAIN batch[c].files : Key(c, j)' = Key(c, j)
  BY MovedKeys
<1>2. Uploading' = Uploading
  BY DEF Uploading, Moved
<1>3. \A c \in Batches : /\ DOMAIN batch'[c].files = DOMAIN batch[c].files
                         /\ \A j \in DOMAIN batch[c].files :
                              batch'[c].files[j] =
                                IF c = b /\ j = i THEN f ELSE batch[c].files[j]
  BY DEF Moved
<1>4. \A c \in Batches : \A j \in DOMAIN batch'[c].files :
        batch'[c].files[j].pc = "stored" => Key(c, j)' \in stored'
  BY <1>1, <1>3 DEF TickInv
<1>5. ASSUME ~mixed', NEW c \in Uploading'
      PROVE  /\ \A e \in Uploading' : e = c
             /\ \A j \in DOMAIN tasks' : /\ j \in DOMAIN batch'[c].files
                                         /\ tasks'[j].key = Key(c, j)'
  BY <1>1, <1>2, <1>3, <1>5 DEF TickInv, Uploading
<1>6. TicksAreStored'
  BY DEF TickInv, TicksAreStored
<1> QED
  BY <1>4, <1>5, <1>6 DEF TickInv

LEMMA PartAckedKeeps ==
    ASSUME PageInv, NEW b \in Batches, NEW i \in DOMAIN batch[b].files,
           PartAcked(b, i)
    PROVE  PageInv'
<1> USE DEF PageInv
<1> DEFINE f == batch[b].files[i]
           pc == IF f.acked + 1 < TotalParts(f.name) THEN "parts" ELSE "complete"
           g == [f EXCEPT !.acked = @ + 1, !.pc = pc]
<1>1. f.pc = "parts" /\ Moved(b, i, g)
  BY PartAckedShape
<1>2. UNCHANGED <<naming, store, prefix, result, loading, tasks, deletingKey, lists, older,
                  deletion, clicks, stored, raced, mixed>>
  BY DEF PartAcked
<1>3. f \in File /\ f.name \in Names /\ f.acked \in Nat
  BY BatchFields
<1>4. g.name = f.name /\ g.acked = f.acked + 1 /\ g.pc = pc
  <2> HIDE DEF f, pc
  <2> QED
    BY <1>3 DEF File
<1>5. g.pc # "stored" /\ (g.pc = "complete" => g.acked >= TotalParts(g.name))
  <2>1. TotalParts(f.name) \in Nat
    <3> HIDE DEF f
    <3>1. SizeOf[f.name] \in Nat \ {0} /\ PartSize \in Nat \ {0}
      BY <1>3, PageAssumption
    <3>2. SizeOf[f.name] + PartSize - 1 \in Nat
      BY <3>1
    <3> QED
      BY <3>1, <3>2, Quotient DEF TotalParts
  <2> QED
    BY <1>3, <1>4, <2>1
<1> HIDE DEF g
<1>6. PageTypeInv'
  BY <1>1, <1>2, MovedTypes DEF PageTypeInv
<1>7. FilesInv' /\ OwnerInv' /\ Unloaded'
  BY <1>1, <1>2, MovedKeeps
<1>8. ShownInv'
  BY <1>2, <1>7, ShownStays
<1>9. WholeInv'
  BY <1>1, <1>2, <1>5 DEF WholeInv, Moved
<1>10. TickInv'
  BY <1>1, <1>2, <1>4, <1>5, MovedTicks
<1> QED
  BY <1>6, <1>7, <1>8, <1>9, <1>10

LEMMA PartFailsKeeps ==
    ASSUME PageInv, NEW b \in Batches, NEW i \in DOMAIN batch[b].files,
           PartFails(b, i)
    PROVE  PageInv'
<1> USE DEF PageInv
<1> DEFINE f == batch[b].files[i]
           g == [f EXCEPT !.pc = "refused"]
<1>1. f.pc = "parts" /\ Moved(b, i, g)
  BY FileGoes DEF PartFails, FileStates
<1>2. UNCHANGED <<naming, store, prefix, result, loading, tasks, deletingKey, lists, older,
                  deletion, clicks, stored, raced, mixed>>
  BY DEF PartFails
<1>3. f \in File
  BY BatchFields
<1>4. g.name = f.name /\ g.pc = "refused"
  BY <1>3 DEF File
<1> HIDE DEF g
<1>5. PageTypeInv'
  BY <1>1, <1>2, MovedTypes DEF PageTypeInv
<1>6. FilesInv' /\ OwnerInv' /\ Unloaded'
  BY <1>1, <1>2, MovedKeeps
<1>7. ShownInv'
  BY <1>2, <1>6, ShownStays
<1>8. WholeInv'
  BY <1>1, <1>2, <1>4 DEF WholeInv, Moved
<1>9. TickInv'
  BY <1>1, <1>2, <1>4, MovedTicks
<1> QED
  BY <1>5, <1>6, <1>7, <1>8, <1>9

LEMMA ServeFileKeeps ==
    ASSUME PageInv, NEW b \in Batches, NEW i \in DOMAIN batch[b].files,
           ServeFile(b, i)
    PROVE  PageInv'
<1> USE DEF PageInv
<1> DEFINE f == batch[b].files[i]
           key == Key(b, i)
<1>1. PICK pc \in {"stored", "refused", "lost"} :
        /\ Moved(b, i, [f EXCEPT !.pc = pc])
        /\ pc = "refused" => UNCHANGED <<store, stored>>
        /\ pc # "refused" => /\ store' = [store EXCEPT ![key] = Sent(f)]
                             /\ stored' = stored \cup {key}
  BY ServeFileShape
<1> DEFINE g == [f EXCEPT !.pc = pc]
<1>2. f.pc \in {"put", "complete"}
  BY ServeFileShape
<1>3. UNCHANGED <<naming, prefix, result, loading, tasks, deletingKey, lists, older,
                  deletion, clicks, raced, mixed>>
  BY DEF ServeFile
<1>4. f \in File /\ f.name \in Names /\ f.acked \in Nat /\ key \in Keys
  BY BatchFields
<1>5. g.name = f.name /\ g.pc = pc
  BY <1>4 DEF File
<1>6. Sent(f) = Body(f.name)
  <2>1. CASE f.pc = "put"
    BY <2>1 DEF Sent
  <2>2. CASE f.pc = "complete"
    <3>1. f.acked >= TotalParts(f.name)
      BY <2>2 DEF WholeInv
    <3> QED
      BY <2>2, <3>1, <1>4, PartsAreWhole DEF Sent
  <2> QED
    BY <1>2, <2>1, <2>2
<1>7. Moved(b, i, g)
  BY <1>1
<1> HIDE DEF g
<1>8. /\ store' = [k \in Keys |-> store'[k]]
      /\ \A k \in Keys : store'[k] = IF pc # "refused" /\ k = key THEN Sent(f)
                                     ELSE store[k]
      /\ stored \subseteq stored' /\ stored' \subseteq Keys
      /\ pc # "refused" => key \in stored'
  <2>1. CASE pc = "refused"
    BY <2>1, <1>1 DEF PageTypeInv
  <2>2. CASE pc # "refused"
    <3>1. store = [k \in Keys |-> store[k]] /\ stored \subseteq Keys
      BY DEF PageTypeInv
    <3> HIDE DEF key, f
    <3> QED
      BY <2>2, <3>1, <1>1, <1>4
  <2> QED
    BY <2>1, <2>2
<1>9. PageTypeInv'
  BY <1>3, <1>7, <1>8, MovedTypes DEF PageTypeInv
<1>10. FilesInv' /\ OwnerInv' /\ Unloaded'
  BY <1>2, <1>3, <1>7, MovedKeeps
<1>11. ShownInv'
  BY <1>3, <1>10, ShownStays
<1>12. WholeInv'
  <2>1. key[2] = f.name
    BY DEF Key
  <2>2. \A k \in Keys : store'[k] \in {None, Body(k[2])}
    BY <1>6, <1>8, <2>1 DEF WholeInv
  <2>3. \A c \in Batches : \A j \in DOMAIN batch'[c].files :
            LET h == batch'[c].files[j] IN
            h.pc = "complete" => h.acked >= TotalParts(h.name)
    BY <1>5, <1>7 DEF WholeInv, Moved
  <2> QED
    BY <2>2, <2>3 DEF WholeInv
<1>13. TickInv'
  BY <1>3, <1>5, <1>7, <1>8, MovedTicks
<1> QED
  BY <1>9, <1>10, <1>11, <1>12, <1>13

LEMMA FileArrivesKeeps ==
    ASSUME PageInv, NEW b \in Batches, NEW i \in DOMAIN batch[b].files,
           FileArrives(b, i)
    PROVE  PageInv'
<1> USE DEF PageInv
<1> DEFINE f == batch[b].files[i]
           g == [f EXCEPT !.pc = "over"]
<1>1. /\ f.pc \in {"stored", "refused", "lost"}
      /\ Moved(b, i, g)
      /\ tasks' \in Seq(Task)
      /\ DOMAIN tasks' = DOMAIN tasks
      /\ \A j \in DOMAIN tasks :
            /\ tasks'[j].key = tasks[j].key
            /\ tasks'[j].state = "done" =>
                \/ tasks[j].state = "done"
                \/ j = i /\ f.pc = "stored"
  BY FileArrivesTasks
<1>2. UNCHANGED <<naming, store, prefix, result, loading, deletingKey, lists, older,
                  deletion, clicks, stored, raced, mixed>>
  BY DEF FileArrives
<1>3. f \in File
  BY BatchFields
<1>4. g.name = f.name /\ g.pc = "over"
  BY <1>3 DEF File
<1> HIDE DEF g
<1>5. PageTypeInv'
  BY <1>1, <1>2, MovedTypes DEF PageTypeInv
<1>6. batch[b].pc = "up" /\ FilesInv' /\ OwnerInv' /\ Unloaded' /\ Uploading' = Uploading
  BY <1>1, <1>2, MovedKeeps
<1>7. ShownInv'
  BY <1>2, <1>6, ShownStays
<1>8. WholeInv'
  BY <1>1, <1>2, <1>4 DEF WholeInv, Moved
<1>9. TickInv'
  <2>1. \A c \in Batches : \A j \in DOMAIN batch[c].files : Key(c, j)' = Key(c, j)
    BY <1>1, <1>4, MovedKeys
  <2>2. \A c \in Batches : /\ DOMAIN batch'[c].files = DOMAIN batch[c].files
                           /\ \A j \in DOMAIN batch[c].files :
                                batch'[c].files[j] =
                                    IF c = b /\ j = i THEN g ELSE batch[c].files[j]
    BY <1>1 DEF Moved
  <2>3. \A c \in Batches : \A j \in DOMAIN batch'[c].files :
            batch'[c].files[j].pc = "stored" => Key(c, j)' \in stored'
    BY <1>2, <1>4, <2>1, <2>2 DEF TickInv
  <2>4. ASSUME ~mixed', NEW c \in Uploading'
        PROVE  /\ \A e \in Uploading' : e = c
               /\ \A j \in DOMAIN tasks' : /\ j \in DOMAIN batch'[c].files
                                           /\ tasks'[j].key = Key(c, j)'
    BY <1>1, <1>2, <1>6, <2>1, <2>2, <2>4 DEF TickInv, Uploading
  <2>5. ASSUME ~mixed', NEW j \in DOMAIN tasks', tasks'[j].state = "done"
        PROVE  tasks'[j].key \in stored'
    <3>1. j \in DOMAIN tasks /\ tasks'[j].key = tasks[j].key /\ ~mixed /\ stored' = stored
      BY <1>1, <1>2, <2>5
    <3>2. CASE tasks[j].state = "done"
      BY <3>1, <3>2 DEF TickInv, TicksAreStored
    <3>3. CASE j = i /\ f.pc = "stored"
      <4>1. b \in Uploading
        BY <1>6 DEF Uploading
      <4>2. tasks[i].key = Key(b, i) /\ Key(b, i) \in stored
        BY <3>1, <3>3, <4>1 DEF TickInv
      <4> QED
        BY <3>1, <3>3, <4>2
    <3> QED
      BY <1>1, <2>5, <3>1, <3>2, <3>3
  <2> QED
    BY <2>3, <2>4, <2>5 DEF TickInv, TicksAreStored
<1> QED
  BY <1>5, <1>6, <1>7, <1>8, <1>9

LEMMA UploadsSettledKeeps ==
    ASSUME PageInv, NEW b \in Batches, UploadsSettled(b)
    PROVE  PageInv'
<1> USE DEF PageInv
<1>1. /\ PageTypeInv'
      /\ \A c \in Batches :
            /\ batch'[c].files = batch[c].files
            /\ batch'[c].p = batch[c].p
            /\ batch'[c].pc = IF c = b THEN "load" ELSE batch[c].pc
      /\ \A i \in DOMAIN batch[b].files : batch[b].files[i].pc = "over"
  BY UploadsSettledShape
<1>2. batch[b].p \in Prefixes /\ Load(batch[b].p, b)
  BY BatchFields DEF UploadsSettled
<1>3. UNCHANGED <<store, tasks, deletion, stored, mixed>>
  BY DEF UploadsSettled
<1>4. ShownInv'
  BY <1>2, LoadShown
<1>5. OwnerInv'
  BY <1>1, <1>2, <1>3, LoadOwner, PageAssumption
<1>6. FilesInv' /\ WholeInv'
  BY <1>1, <1>3 DEF FilesInv, WholeInv
<1>7. TickInv'
  <2>1. Uploading' \subseteq Uploading
    BY <1>1 DEF Uploading
  <2>2. \A c \in Batches : \A i : Key(c, i)' = Key(c, i)
    BY <1>1 DEF Key
  <2> QED
    BY <1>1, <1>3, <2>1, <2>2 DEF TickInv, TicksAreStored, Uploading
<1> QED
  BY <1>1, <1>4, <1>5, <1>6, <1>7

LEMMA TimerKeeps ==
    ASSUME PageInv, NEW b \in Batches, Timer(b)
    PROVE  PageInv'
<1> USE DEF PageInv
<1>1. /\ PageTypeInv'
      /\ \A c \in Batches :
            /\ batch'[c].files = batch[c].files
            /\ batch'[c].p = batch[c].p
            /\ batch'[c].pc = batch[c].pc
  BY TimerShape
<1>2. /\ UNCHANGED <<store, prefix, result, lists, older, deletion, stored, raced, mixed>>
      /\ tasks' = <<>>
  BY DEF Timer
<1>3. OwnerInv'
  BY <1>1, <1>2, OwnerStays
<1>4. ShownInv'
  <2>1. Unloaded' <=> Unloaded
    BY <1>1, <1>2 DEF Unloaded
  <2> QED
    BY <1>2, <2>1, ShownStays
<1>5. FilesInv' /\ WholeInv'
  BY <1>1, <1>2 DEF FilesInv, WholeInv
<1>6. TickInv'
  <2>1. Uploading' = Uploading
    BY <1>1 DEF Uploading
  <2>2. \A c \in Batches : \A i : Key(c, i)' = Key(c, i)
    BY <1>1 DEF Key
  <2> QED
    BY <1>1, <1>2, <2>1, <2>2 DEF TickInv, TicksAreStored, Uploading
<1> QED
  BY <1>1, <1>3, <1>4, <1>5, <1>6

(* Deletions *)

LEMMA HandleDeleteKeeps ==
    ASSUME PageInv, NEW d \in Deletions, NEW key \in Keys, HandleDelete(d, key)
    PROVE  PageInv'
<1> USE DEF PageInv
<1>1. /\ PageTypeInv'
      /\ \A e \in Deletions :
            deletion'[e].pc = IF e = d THEN "sent" ELSE deletion[e].pc
      /\ deletion[d].pc = "new"
  BY HandleDeleteShape
<1>2. UNCHANGED <<store, prefix, result, tasks, lists, older, batch, stored, raced, mixed>>
  BY DEF HandleDelete
<1>3. OwnerInv'
  BY <1>1, <1>2, OwnerStays
<1>4. ShownInv'
  <2>1. Unloaded' <=> Unloaded
    BY <1>1, <1>2 DEF Unloaded
  <2> QED
    BY <1>2, <2>1, ShownStays
<1>5. FilesInv' /\ WholeInv' /\ TickInv'
  BY <1>2 DEF FilesInv, WholeInv, TickInv, Uploading, Key, TicksAreStored
<1> QED
  BY <1>1, <1>3, <1>4, <1>5

LEMMA ServeDeleteKeeps ==
    ASSUME PageInv, NEW d \in Deletions, ServeDelete(d)
    PROVE  PageInv'
<1> USE DEF PageInv
<1>1. PageTypeInv' /\ deletion[d].pc = "sent" /\ deletion[d].key \in Keys
  BY ServeDeleteShape
<1>2. PICK pc \in {"deleted", "refused", "lost"} :
        /\ \A e \in Deletions :
            deletion'[e].pc = IF e = d THEN pc ELSE deletion[e].pc
        /\ store' = IF pc = "refused" THEN store
                    ELSE [store EXCEPT ![deletion[d].key] = None]
  BY ServeDeleteShape
<1>3. UNCHANGED <<prefix, result, tasks, lists, older, batch, stored, raced, mixed>>
  BY DEF ServeDelete
<1>4. OwnerInv'
  BY <1>1, <1>2, <1>3, OwnerStays
<1>5. ShownInv'
  <2>1. CASE pc = "refused"
    <3>1. store' = store /\ (Unloaded' <=> Unloaded)
      BY <1>1, <1>2, <1>3, <2>1 DEF Unloaded
    <3> QED
      BY <1>3, <3>1, ShownStays
  <2>2. CASE pc # "refused"
    <3>1. Unloaded'
      BY <1>2, <2>2 DEF Unloaded
    <3> QED
      BY <1>3, <3>1, ShownStays
  <2> QED
    BY <2>1, <2>2
<1>6. WholeInv'
  <2>1. store = [k \in Keys |-> store[k]]
    BY DEF PageTypeInv
  <2>2. \A k \in Keys : store'[k] \in {store[k], None}
    BY <1>2, <2>1
  <2> QED
    BY <1>3, <2>2 DEF WholeInv
<1>7. FilesInv' /\ TickInv'
  BY <1>3 DEF FilesInv, TickInv, Uploading, Key, TicksAreStored
<1> QED
  BY <1>1, <1>4, <1>5, <1>6, <1>7

LEMMA DeleteArrivesKeeps ==
    ASSUME PageInv, NEW d \in Deletions, DeleteArrives(d)
    PROVE  PageInv'
<1> USE DEF PageInv
<1>1. /\ PageTypeInv'
      /\ \A e \in Deletions :
            deletion'[e].pc = IF e = d THEN "load" ELSE deletion[e].pc
  BY DeleteArrivesShape
<1>2. deletion[d].p \in Prefixes /\ Load(deletion[d].p, d)
  BY DEF DeleteArrives, PageTypeInv, DeletionRow
<1>3. UNCHANGED <<store, tasks, batch, stored, mixed>>
  BY DEF DeleteArrives
<1>4. ShownInv'
  BY <1>2, LoadShown
<1>5. OwnerInv'
  BY <1>1, <1>2, <1>3, LoadOwner, PageAssumption
<1>6. FilesInv' /\ WholeInv' /\ TickInv'
  BY <1>3 DEF FilesInv, WholeInv, TickInv, Uploading, Key, TicksAreStored
<1> QED
  BY <1>1, <1>4, <1>5, <1>6

LEMMA DeleteFailsKeeps ==
    ASSUME PageInv, NEW d \in Deletions, DeleteFails(d)
    PROVE  PageInv'
<1> USE DEF PageInv
<1>1. /\ PageTypeInv'
      /\ deletion[d].pc \in {"refused", "lost"}
      /\ \A e \in Deletions :
            deletion'[e].pc = IF e = d THEN "over" ELSE deletion[e].pc
  BY DeleteFailsShape
<1>2. /\ UNCHANGED <<store, prefix, result, tasks, lists, older, batch, stored, mixed>>
      /\ raced' = (raced \/ deletion[d].pc = "lost")
  BY DEF DeleteFails
<1>3. OwnerInv'
  BY <1>1, <1>2, OwnerStays
<1>4. ShownInv'
  <2>1. CASE raced'
    BY <2>1 DEF ShownInv
  <2>2. CASE ~raced'
    <3>1. raced' = raced /\ deletion[d].pc = "refused"
      BY <1>1, <1>2, <2>2 DEF PageTypeInv
    <3>2. Unloaded' <=> Unloaded
      BY <1>1, <1>2, <3>1 DEF Unloaded
    <3> QED
      BY <1>2, <3>1, <3>2, ShownStays
  <2> QED
    BY <2>1, <2>2
<1>5. FilesInv' /\ WholeInv' /\ TickInv'
  BY <1>2 DEF FilesInv, WholeInv, TickInv, Uploading, Key, TicksAreStored
<1> QED
  BY <1>1, <1>3, <1>4, <1>5

LEMMA PageStays == PageInv /\ UNCHANGED pageVars => PageInv'
<1> SUFFICES ASSUME PageInv, UNCHANGED pageVars PROVE PageInv'
  OBVIOUS
<1> USE DEF PageInv, pageVars
<1>1. InFlight' = InFlight
  BY DEF InFlight
<1>2. PageTypeInv'
  BY <1>1 DEF PageTypeInv
<1>3. OwnerInv'
  BY OwnerStays
<1>4. ShownInv'
  <2>1. Unloaded' <=> Unloaded
    BY DEF Unloaded
  <2> QED
    BY <2>1, ShownStays
<1>5. FilesInv' /\ WholeInv' /\ TickInv'
  BY DEF FilesInv, WholeInv, TickInv, Uploading, Key, TicksAreStored
<1> QED
  BY <1>2, <1>3, <1>4, <1>5

LEMMA PageKeeps ==
    ASSUME PageInv, PageNext
    PROVE  PageInv'
<1>1. CASE User
  BY <1>1, RefreshKeeps, LoadMoreKeeps, NavigateKeeps, UploadFilesKeeps,
     HandleDeleteKeeps DEF User
<1>2. CASE \E s \in Lists : ListStep(s)
  BY <1>2, ServeListKeeps, LoadArrivesKeeps, MoreArrivesKeeps DEF ListStep
<1>3. CASE \E b \in Batches : BatchStep(b)
  <2>1. PICK b \in Batches : FileStep(b) \/ UploadsSettled(b) \/ Timer(b)
    BY <1>3 DEF BatchStep
  <2>2. CASE FileStep(b)
    BY <2>2, PartAckedKeeps, PartFailsKeeps, ServeFileKeeps, FileArrivesKeeps
    DEF FileStep
  <2> QED
    BY <2>1, <2>2, UploadsSettledKeeps, TimerKeeps
<1>4. CASE \E d \in Deletions : DeletionStep(d)
  BY <1>4, ServeDeleteKeeps, DeleteArrivesKeeps, DeleteFailsKeeps DEF DeletionStep
<1> QED
  BY <1>1, <1>2, <1>3, <1>4 DEF PageNext, PageGoesOn

LEMMA PageInvariant == Spec => []PageInv
<1>1. Init => PageInv
  BY InitPage DEF Init
<1>2. PageInv /\ [Next]_vars => PageInv'
  BY PageKeeps, PageStays DEF Next, OnBucket, OnDashboard, vars
<1> QED
  BY <1>1, <1>2, PTL DEF Spec

-----------------------------------------------------------------------------
(* The page of a bucket: the theorems *)

(* Once nothing is in flight the page shows the files of its folder as the *)
(* server has them, up to the last page loaded, and the folders of that    *)
(* page, unless the history excuses it (load, uploadFiles, handleDelete,   *)
(* Load more).                                                             *)
THEOREM ShowsWhatIsStored == Spec => []ShownIsStored
<1>1. PageInv => ShownIsStored
  <2> SUFFICES ASSUME PageInv, Quiet, ~raced
               PROVE  /\ result.p = prefix
                      /\ Shown = {k \in UpTo(result) : k[1] = prefix}
                      /\ naming = "snake" =>
                          ShownFolders =
                            {k[1] : k \in {j \in UpTo(result) :
                                            Rank[j] > result.from}} \ {prefix}
    BY DEF ShownIsStored
  <2>1. ~Unloaded
    BY DEF Quiet, Unloaded
  <2>2. result # None /\ Fresh(result)
    BY <2>1 DEF PageInv, ShownInv, Newest, Quiet
  <2> QED
    BY <2>2 DEF Fresh, Shown, ShownFolders
<1> QED
  BY <1>1, PageInvariant, PTL

(* What the page stores is the whole file, in one request or in parts, of  *)
(* any size (uploadObject, uploadMultipart).                               *)
THEOREM StoresWholeFiles == Spec => []StoredIsWholeFile
<1>1. PageInv => StoredIsWholeFile
  BY DEF PageInv, WholeInv, StoredIsWholeFile, Held
<1> QED
  BY <1>1, PageInvariant, PTL

(* A file that is ticked off has been stored, unless two batches were      *)
(* uploading at once (uploadFiles).                                        *)
THEOREM TicksWhatIsStored == Spec => []TicksAreStored
<1>1. PageInv => TicksAreStored
  BY DEF PageInv, TickInv
<1> QED
  BY <1>1, PageInvariant, PTL

(* Every reachable state of both pages is well typed.                      *)
THEOREM WebUITypeCorrect == Spec => []TypeOK
<1> DEFINE OnPage == page \in {"bucket", "dashboard"}
<1>1. Init => DashboardInv /\ OnPage
  BY InitDashboard DEF Init
<1>2. DashboardInv /\ OnPage /\ [Next]_vars => (DashboardInv /\ OnPage)'
  BY DashboardKeeps, DashboardStays DEF Next, OnBucket, OnDashboard, vars
<1>3. PageInv /\ DashboardInv /\ OnPage => TypeOK
  BY TypesMean DEF PageInv, DashboardInv, TypeOK
<1> QED
  BY <1>1, <1>2, <1>3, PageInvariant, PTL DEF Spec
=============================================================================
