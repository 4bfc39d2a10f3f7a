---------------------------- MODULE ListingProofs ----------------------------
(***************************************************************************)
(* Proofs about Listing, for any number of keys, any grouping into common  *)
(* prefixes and any positive page size.                                    *)
(***************************************************************************)
EXTENDS Listing, FiniteSetTheorems, TLAPS

(* A finite set of integers has a greatest and a least element.            *)
LEMMA HasMax ==
    ASSUME NEW T \in SUBSET Int, IsFiniteSet(T), T # {}
    PROVE  \E x \in T : \A y \in T : y <= x
<1> DEFINE tail(k) == {x \in T : k <= x}
           tails == {tail(k) : k \in T}
           R == StrictSubsetOrdering(T)
<1>1. IsWellFoundedOn(R, FiniteSubsetsOf(T))
  BY FS_StrictSubsetOrderingWellFounded
<1>2. tails \subseteq FiniteSubsetsOf(T) /\ tails # {}
  <2>1. ASSUME NEW k \in T PROVE tail(k) \in SUBSET T /\ IsFiniteSet(tail(k))
    BY FS_Subset
  <2>. QED
    BY <2>1 DEF FiniteSubsetsOf
<1>3. PICK m \in tails : \A u \in tails : <<u, m>> \notin R
  <2> HIDE DEF R, tails
  <2>. QED
    BY <1>1, <1>2, WFMin
<1>4. PICK k \in T : m = tail(k)
  BY <1>3
<1>5. ASSUME NEW y \in T, y > k PROVE FALSE
  <2>1. tail(y) \subseteq tail(k) /\ tail(y) # tail(k)
    <3>1. k \in tail(k) /\ k \notin tail(y)
      BY <1>5
    <3>2. ASSUME NEW x \in tail(y) PROVE x \in tail(k)
      <4>. x \in Int /\ y \in Int /\ k \in Int
        OBVIOUS
      <4>. QED
        BY <1>5
    <3>. QED
      BY <3>1, <3>2
  <2>2. <<tail(y), tail(k)>> \in R
    BY <2>1 DEF StrictSubsetOrdering
  <2>. QED
    BY <2>2, <1>3, <1>4
<1>. QED
  BY <1>5

LEMMA HasMin ==
    ASSUME NEW T \in SUBSET Int, IsFiniteSet(T), T # {}
    PROVE  \E x \in T : \A y \in T : x <= y
<1> DEFINE head(k) == {x \in T : x <= k}
           heads == {head(k) : k \in T}
           R == StrictSubsetOrdering(T)
<1>1. IsWellFoundedOn(R, FiniteSubsetsOf(T))
  BY FS_StrictSubsetOrderingWellFounded
<1>2. heads \subseteq FiniteSubsetsOf(T) /\ heads # {}
  <2>1. ASSUME NEW k \in T PROVE head(k) \in SUBSET T /\ IsFiniteSet(head(k))
    BY FS_Subset
  <2>. QED
    BY <2>1 DEF FiniteSubsetsOf
<1>3. PICK m \in heads : \A u \in heads : <<u, m>> \notin R
  <2> HIDE DEF R, heads
  <2>. QED
    BY <1>1, <1>2, WFMin
<1>4. PICK k \in T : m = head(k)
  BY <1>3
<1>5. ASSUME NEW y \in T, y < k PROVE FALSE
  <2>1. head(y) \subseteq head(k) /\ head(y) # head(k)
    <3>1. k \in head(k) /\ k \notin head(y)
      BY <1>5
    <3>2. ASSUME NEW x \in head(y) PROVE x \in head(k)
      <4>. x \in Int /\ y \in Int /\ k \in Int
        OBVIOUS
      <4>. QED
        BY <1>5
    <3>. QED
      BY <3>1, <3>2
  <2>2. <<head(y), head(k)>> \in R
    BY <2>1 DEF StrictSubsetOrdering
  <2>. QED
    BY <2>2, <1>3, <1>4
<1>. QED
  BY <1>5

(* The rows a page can be made of. *)
LEMMA KeySets ==
    ASSUME NEW S \in SUBSET Keys
    PROVE  S \in SUBSET Int /\ IsFiniteSet(S) /\ Cardinality(S) \in Nat
<1>1. IsFiniteSet(Keys)
  BY ConstantsAssumption, FS_Interval DEF Keys
<1>2. Keys \subseteq Int
  BY ConstantsAssumption DEF Keys
<1>. QED
  BY <1>1, <1>2, FS_Subset, FS_CardinalityType

-----------------------------------------------------------------------------
(* ORDER BY and LIMIT *)

(* LIMIT cuts the rows at one place: it keeps none behind a row it drops. *)
LEMMA FirstIsInitial ==
    ASSUME NEW S \in SUBSET Keys, NEW n \in Nat,
           NEW k \in First(S, n), NEW j \in S, j < k
    PROVE  j \in First(S, n)
<1> DEFINE below(x) == {i \in S : i < x}
<1>1. below(j) \subseteq below(k) /\ below(k) \subseteq S
  <2>1. S \subseteq Int /\ k \in S
    BY KeySets DEF First
  <2>2. ASSUME NEW i \in below(j) PROVE i \in below(k)
    <3>. i \in Int /\ j \in Int /\ k \in Int /\ i < j
      BY <2>1
    <3>. QED
      OBVIOUS
  <2>. QED
    BY <2>2
<1>2. below(k) \in SUBSET Keys /\ below(j) \in SUBSET Keys
  BY <1>1
<1>3. Cardinality(below(j)) <= Cardinality(below(k))
  BY <1>1, <1>2, KeySets, FS_Subset
<1>4. Cardinality(below(j)) \in Nat /\ Cardinality(below(k)) \in Nat
  BY <1>2, KeySets
<1>5. Cardinality(below(k)) < n
  BY DEF First
<1>. QED
  BY <1>3, <1>4, <1>5 DEF First

(* A query that returns fewer rows than its LIMIT has returned them all. *)
LEMMA FirstOfFew ==
    ASSUME NEW S \in SUBSET Keys, NEW n \in Nat, Cardinality(First(S, n)) < n
    PROVE  First(S, n) = S
<1> DEFINE rest == S \ First(S, n)
<1>1. SUFFICES ASSUME rest # {} PROVE FALSE
  BY DEF First
<1>2. rest \in SUBSET Keys /\ rest \in SUBSET Int /\ IsFiniteSet(rest)
  BY KeySets
<1>3. PICK k \in rest : \A y \in rest : k <= y
  BY <1>1, <1>2, HasMin
<1> DEFINE below == {i \in S : i < k}
<1>4. below \subseteq First(S, n)
  <2>. SUFFICES ASSUME NEW i \in below, i \in rest PROVE FALSE
    OBVIOUS
  <2>. k \in Int /\ i \in Int /\ i < k /\ k <= i
    BY <1>2, <1>3
  <2>. QED
    OBVIOUS
<1>5. First(S, n) \in SUBSET Keys /\ below \in SUBSET Keys
  BY DEF First
<1>6. Cardinality(below) <= Cardinality(First(S, n))
  BY <1>4, <1>5, KeySets, FS_Subset
<1>7. Cardinality(below) \in Nat /\ Cardinality(First(S, n)) \in Nat
  BY <1>5, KeySets
<1>8. Cardinality(below) < n
  BY <1>6, <1>7
<1>. QED
  BY <1>3, <1>8 DEF First

(* LIMIT n drops nothing from n rows. *)
LEMMA FirstOfAll ==
    ASSUME NEW S \in SUBSET Keys, NEW n \in Nat, Cardinality(S) <= n
    PROVE  First(S, n) = S
<1>. SUFFICES ASSUME NEW k \in S PROVE Cardinality({j \in S : j < k}) < n
  BY DEF First
<1> DEFINE below == {j \in S : j < k}
<1>1. S \subseteq Int /\ IsFiniteSet(S) /\ Cardinality(S) \in Nat
  BY KeySets
<1>2. below \in SUBSET S /\ k \in S /\ k \notin below
  BY <1>1
<1>3. Cardinality(below) <= Cardinality(S) /\ Cardinality(below) # Cardinality(S)
  BY <1>1, <1>2, FS_Subset
<1>4. Cardinality(below) \in Nat
  BY <1>1, <1>2, FS_Subset, FS_CardinalityType
<1>. QED
  BY <1>1, <1>3, <1>4

(* LIMIT n with n > 0 keeps something of a set that is not empty. *)
LEMMA FirstOfSome ==
    ASSUME NEW S \in SUBSET Keys, NEW n \in Nat \ {0}, S # {}
    PROVE  First(S, n) # {}
<1>1. PICK k \in S : \A y \in S : k <= y
  BY KeySets, HasMin
<1>2. {j \in S : j < k} = {}
  <2>. SUFFICES ASSUME NEW j \in S, j < k PROVE FALSE
    OBVIOUS
  <2>. j \in Int /\ k \in Int /\ k <= j
    BY <1>1, KeySets
  <2>. QED
    OBVIOUS
<1>3. Cardinality({}) = 0
  BY FS_EmptySet
<1>. QED
  BY <1>1, <1>2, <1>3 DEF First

(* The token is the greatest key of the page. *)
LEMMA LastIsMax ==
    ASSUME NEW S \in SUBSET Keys, S # {}
    PROVE  Last(S) \in S /\ \A j \in S : j <= Last(S)
<1>1. \E x \in S : \A y \in S : y <= x
  BY KeySets, HasMax
<1>. QED
  BY <1>1 DEF Last

(* What one page returns of the rows behind the token: all of them, or all *)
(* up to the next token.                                                   *)
LEMMA PageOfRows ==
    ASSUME NEW R \in SUBSET Keys
    PROVE  LET rows == First(R, MaxKeys + 1)
               page == First(rows, MaxKeys) IN
           /\ page \subseteq R
           /\ Cardinality(rows) > MaxKeys =>
                /\ Last(page) \in page
                /\ \A j \in page : j <= Last(page)
                /\ \A k \in R : k <= Last(page) => k \in page
           /\ ~(Cardinality(rows) > MaxKeys) => page = R
<1> DEFINE rows == First(R, MaxKeys + 1)
           page == First(rows, MaxKeys)
<1>1. MaxKeys \in Nat \ {0}
  BY ConstantsAssumption
<1>2. rows \in SUBSET R /\ page \in SUBSET rows
  BY DEF First
<1>3. rows \in SUBSET Keys /\ page \in SUBSET Keys /\ page \in SUBSET Int
  BY <1>2, KeySets
<1>4. Cardinality(rows) \in Nat
  BY <1>3, KeySets
<1>5. ASSUME Cardinality(rows) > MaxKeys
      PROVE  /\ Last(page) \in page
             /\ \A j \in page : j <= Last(page)
             /\ \A k \in R : k <= Last(page) => k \in page
  <2>1. rows # {}
    BY <1>1, <1>5, FS_EmptySet
  <2>2. page # {}
    <3> HIDE DEF rows
    <3>. QED
      BY <2>1, <1>1, <1>3, FirstOfSome
  <2>3. Last(page) \in page /\ \A j \in page : j <= Last(page)
    <3> HIDE DEF page
    <3>. QED
      BY <2>2, <1>3, LastIsMax
  <2>4. ASSUME NEW k \in R, k <= Last(page) PROVE k \in page
    <3>1. CASE k = Last(page)
      BY <3>1, <2>3
    <3>2. CASE k # Last(page)
      <4>1. k < Last(page)
        <5>. k \in Int /\ Last(page) \in Int
          BY <1>3, <2>3, KeySets
        <5>. QED
          BY <2>4, <3>2
      <4>2. Last(page) \in rows
        BY <1>2, <2>3
      <4>3. k \in rows
        BY <4>1, <4>2, <1>1, FirstIsInitial
      <4> HIDE DEF rows
      <4>. QED
        BY <4>1, <4>3, <2>3, <1>1, <1>3, FirstIsInitial
    <3>. QED
      BY <3>1, <3>2
  <2>. QED
    BY <2>3, <2>4
<1>6. ASSUME ~(Cardinality(rows) > MaxKeys) PROVE page = R
  <2>1. Cardinality(rows) <= MaxKeys /\ Cardinality(rows) < MaxKeys + 1
    BY <1>1, <1>4, <1>6
  <2>2. rows = R
    BY <2>1, <1>1, FirstOfFew
  <2>3. page = rows
    <3> HIDE DEF rows
    <3>. QED
      BY <2>1, <1>1, <1>3, FirstOfAll
  <2>. QED
    BY <2>2, <2>3
<1>. QED
  BY <1>2, <1>5, <1>6

-----------------------------------------------------------------------------
(* Types *)

LEMMA InitType == Init => TypeOK
  BY DEF Init, TypeOK

LEMMA ListPageType == TypeOK /\ ListPage => TypeOK'
<1> SUFFICES ASSUME TypeOK, ListPage PROVE TypeOK'
  OBVIOUS
<1> DEFINE rows == First(RowsAfter(token), MaxKeys + 1)
           page == First(rows, MaxKeys)
<1>1. RowsAfter(token) \in SUBSET Keys
  BY DEF TypeOK, RowsAfter
<1>2. /\ page \subseteq Keys
      /\ Cardinality(rows) > MaxKeys => Last(page) \in Keys
  BY <1>1, PageOfRows
<1>3. Grouped(page) \in Page
  <2> HIDE DEF page
  <2>. QED
    BY <1>2 DEF Grouped, Page, Folders
<1>4. /\ pages' = Append(pages, Grouped(page))
      /\ IF Cardinality(rows) > MaxKeys
         THEN token' = Last(page) /\ UNCHANGED phase
         ELSE phase' = "done" /\ UNCHANGED token
      /\ UNCHANGED <<objects, steady>>
  BY DEF ListPage
<1> HIDE DEF rows, page
<1>5. pages' \in Seq(Page)
  BY <1>3, <1>4 DEF TypeOK
<1>6. token' \in Keys \cup {0} /\ phase' \in {"idle", "listing", "done"}
  BY <1>2, <1>4 DEF TypeOK
<1>. QED
  BY <1>4, <1>5, <1>6 DEF TypeOK, objects

LEMMA NextType == TypeOK /\ [Next]_vars => TypeOK'
<1> SUFFICES ASSUME TypeOK, [Next]_vars PROVE TypeOK'
  OBVIOUS
<1> USE DEF TypeOK, objects, listing
<1>1. ASSUME NEW k \in Keys, Put(k) PROVE TypeOK'
  BY <1>1 DEF Put
<1>2. ASSUME NEW k \in Keys, PutDemote(k) PROVE TypeOK'
  BY <1>2 DEF PutDemote
<1>3. ASSUME NEW k \in Keys, PutInsert(k) PROVE TypeOK'
  BY <1>3 DEF PutInsert
<1>4. ASSUME NEW k \in Keys, Delete(k) PROVE TypeOK'
  BY <1>4 DEF Delete
<1>5. CASE Begin
  BY <1>5 DEF Begin
<1>6. CASE ListPage
  BY <1>6, ListPageType
<1>7. CASE UNCHANGED vars
  BY <1>7 DEF vars
<1>. QED
  BY <1>1, <1>2, <1>3, <1>4, <1>5, <1>6, <1>7 DEF Next

(* Every reachable state is well typed.                                    *)
THEOREM ListingTypeCorrect == Spec => []TypeOK
  BY InitType, NextType, PTL DEF Spec

-----------------------------------------------------------------------------
(* No object twice *)

(* The pages returned so far lie before the token. *)
TokenBound ==
    phase # "done" =>
        \A i \in DOMAIN pages : \A k \in pages[i].objects : k <= token

OnceInv == TypeOK /\ TokenBound /\ ListedOnce

LEMMA OnceListPage == OnceInv /\ ListPage => OnceInv'
<1> SUFFICES ASSUME OnceInv, ListPage PROVE OnceInv'
  OBVIOUS
<1> DEFINE rows == First(RowsAfter(token), MaxKeys + 1)
           page == First(rows, MaxKeys)
           new == Grouped(page)
<1>1. RowsAfter(token) \in SUBSET Keys
  BY DEF OnceInv, TypeOK, RowsAfter
<1>2. /\ page \subseteq RowsAfter(token)
      /\ Cardinality(rows) > MaxKeys =>
           Last(page) \in page /\ \A j \in page : j <= Last(page)
  BY <1>1, PageOfRows
<1>3. /\ phase = "listing"
      /\ pages' = Append(pages, new)
      /\ IF Cardinality(rows) > MaxKeys
         THEN token' = Last(page) /\ UNCHANGED phase
         ELSE phase' = "done" /\ UNCHANGED token
  BY DEF ListPage
<1>4. new.objects \subseteq page
  <2> HIDE DEF page
  <2>. QED
    BY DEF Grouped
<1> HIDE DEF rows, page, new
<1>5. TypeOK'
  BY ListPageType DEF OnceInv
<1>6. pages \in Seq(Page) /\ token \in Int /\ token' \in Int
  <2>1. Keys \subseteq Int
    BY ConstantsAssumption DEF Keys
  <2>. QED
    BY <2>1, <1>5 DEF OnceInv, TypeOK
<1>7. \A k \in new.objects : k \in Int /\ token < k
  BY <1>1, <1>2, <1>4, <1>6, KeySets DEF RowsAfter
<1>8. \A i \in DOMAIN pages : \A k \in pages[i].objects : k <= token
  BY <1>3 DEF OnceInv, TokenBound
<1>9. \A i \in DOMAIN pages : pages[i].objects \subseteq Int
  <2>1. \A i \in DOMAIN pages : pages[i] \in Page
    BY <1>6
  <2>2. \A p \in Page : p.objects \subseteq Keys
    BY DEF Page
  <2>3. Keys \subseteq Int
    BY ConstantsAssumption DEF Keys
  <2>. QED
    BY <2>1, <2>2, <2>3
<1>10. /\ DOMAIN pages' = DOMAIN pages \cup {Len(pages) + 1}
       /\ \A i \in DOMAIN pages : pages'[i] = pages[i]
       /\ pages'[Len(pages) + 1] = new
       /\ Len(pages) + 1 \notin DOMAIN pages
  BY <1>3, <1>6
<1>11. TokenBound'
  <2>. SUFFICES ASSUME phase' # "done", NEW i \in DOMAIN pages',
                       NEW k \in pages'[i].objects
                PROVE  k <= token'
    BY DEF TokenBound
  <2>1. token' = Last(page) /\ Last(page) \in page
        /\ \A j \in page : j <= Last(page)
    BY <1>2, <1>3
  <2>2. CASE i \in DOMAIN pages
    <3>1. k <= token /\ k \in Int
      BY <2>2, <1>8, <1>9, <1>10
    <3>2. token < token'
      BY <2>1, <1>2 DEF RowsAfter
    <3>. QED
      BY <3>1, <3>2, <1>6
  <2>3. CASE i = Len(pages) + 1
    BY <2>1, <2>3, <1>4, <1>10
  <2>. QED
    BY <2>2, <2>3, <1>10
<1>12. ListedOnce'
  <2>. SUFFICES ASSUME NEW i \in DOMAIN pages', NEW j \in DOMAIN pages', i # j,
                       NEW k \in pages'[i].objects, k \in pages'[j].objects
                PROVE  FALSE
    BY DEF ListedOnce
  <2>1. CASE i \in DOMAIN pages /\ j \in DOMAIN pages
    BY <2>1, <1>10 DEF OnceInv, ListedOnce
  <2>2. CASE i = Len(pages) + 1 /\ j \in DOMAIN pages
    BY <2>2, <1>6, <1>7, <1>8, <1>9, <1>10
  <2>3. CASE j = Len(pages) + 1 /\ i \in DOMAIN pages
    BY <2>3, <1>6, <1>7, <1>8, <1>9, <1>10
  <2>. QED
    BY <2>1, <2>2, <2>3, <1>10
<1>. QED
  BY <1>5, <1>11, <1>12 DEF OnceInv

LEMMA OnceNext == OnceInv /\ [Next]_vars => OnceInv'
<1> SUFFICES ASSUME OnceInv, [Next]_vars PROVE OnceInv'
  OBVIOUS
<1>1. TypeOK'
  BY NextType DEF OnceInv
<1>2. ASSUME UNCHANGED listing PROVE OnceInv'
  BY <1>1, <1>2 DEF OnceInv, TokenBound, ListedOnce, listing
<1>3. CASE Begin
  BY <1>1, <1>3 DEF Begin, OnceInv, TokenBound, ListedOnce
<1>4. CASE ListPage
  BY <1>4, OnceListPage
<1>5. ASSUME NEW k \in Keys, Put(k) \/ PutDemote(k) \/ PutInsert(k) \/ Delete(k)
      PROVE  UNCHANGED listing
  BY <1>5 DEF Put, PutDemote, PutInsert, Delete
<1>6. CASE UNCHANGED vars
  BY <1>2, <1>6 DEF vars, listing
<1>. QED
  BY <1>2, <1>3, <1>4, <1>5, <1>6 DEF Next

(* No object is returned by two pages of one listing, whatever is put     *)
(* and deleted meanwhile (ObjectRepository.list).                          *)
THEOREM ListsOnce == Spec => []ListedOnce
<1>1. Init => OnceInv
  BY InitType DEF Init, OnceInv, TokenBound, ListedOnce
<1>2. OnceInv => ListedOnce
  BY DEF OnceInv
<1>. QED
  BY <1>1, <1>2, OnceNext, PTL DEF Spec

-----------------------------------------------------------------------------
(* No steady key missed *)

(* The pages returned so far show the steady keys up to the token. *)
SteadyInv ==
    /\ TypeOK
    /\ phase = "listing" => \A k \in steady : k <= token => Shown(k)
    /\ SteadyKeysListed

LEMMA SteadyListPage == SteadyInv /\ ListPage => SteadyInv'
<1> SUFFICES ASSUME SteadyInv, ListPage PROVE SteadyInv'
  OBVIOUS
<1> DEFINE rows == First(RowsAfter(token), MaxKeys + 1)
           page == First(rows, MaxKeys)
           new == Grouped(page)
<1>1. RowsAfter(token) \in SUBSET Keys
  BY DEF SteadyInv, TypeOK, RowsAfter
<1>2. /\ Cardinality(rows) > MaxKeys =>
           \A k \in RowsAfter(token) : k <= Last(page) => k \in page
      /\ ~(Cardinality(rows) > MaxKeys) => page = RowsAfter(token)
  BY <1>1, PageOfRows
<1>3. /\ phase = "listing"
      /\ pages' = Append(pages, new)
      /\ IF Cardinality(rows) > MaxKeys
         THEN token' = Last(page) /\ UNCHANGED phase
         ELSE phase' = "done" /\ UNCHANGED token
      /\ UNCHANGED <<objects, steady>>
  BY DEF ListPage
<1>4. \A k \in page : k \in new.objects \/ Folder[k] \in new.commonPrefixes
  <2> HIDE DEF page
  <2>. QED
    BY DEF Grouped
<1> HIDE DEF rows, page, new
<1>5. TypeOK'
  BY ListPageType DEF SteadyInv
<1>6. pages \in Seq(Page) /\ token \in Int /\ steady \subseteq Int
  <2>1. Keys \subseteq Int
    BY ConstantsAssumption DEF Keys
  <2>. QED
    BY <2>1 DEF SteadyInv, TypeOK
<1>7. /\ DOMAIN pages' = DOMAIN pages \cup {Len(pages) + 1}
      /\ \A i \in DOMAIN pages : pages'[i] = pages[i]
      /\ pages'[Len(pages) + 1] = new
  BY <1>3, <1>6
<1>8. ASSUME NEW k, Shown(k) PROVE Shown(k)'
  BY <1>7, <1>8 DEF Shown
<1>9. ASSUME NEW k \in page PROVE Shown(k)'
  BY <1>4, <1>7, <1>9 DEF Shown
<1>10. ASSUME NEW k \in steady,
              Cardinality(rows) > MaxKeys => k <= Last(page)
       PROVE  Shown(k)'
  <2>1. CASE k <= token
    BY <2>1, <1>3, <1>8 DEF SteadyInv
  <2>2. CASE token < k
    <3>1. k \in RowsAfter(token)
      BY <2>2 DEF SteadyInv, TypeOK, RowsAfter
    <3>. QED
      BY <3>1, <1>2, <1>9, <1>10
  <2>. QED
    BY <2>1, <2>2, <1>6
<1>11. phase' = "listing" => \A k \in steady' : k <= token' => Shown(k)'
  BY <1>3, <1>10
<1>12. SteadyKeysListed'
  BY <1>3, <1>10 DEF SteadyKeysListed
<1>. QED
  BY <1>3, <1>5, <1>11, <1>12 DEF SteadyInv, objects

LEMMA SteadyNext == SteadyInv /\ [Next]_vars => SteadyInv'
<1> SUFFICES ASSUME SteadyInv, [Next]_vars PROVE SteadyInv'
  OBVIOUS
<1>1. TypeOK'
  BY NextType DEF SteadyInv
<1>2. ASSUME UNCHANGED listing, steady' \subseteq steady PROVE SteadyInv'
  <2>1. \A k : Shown(k)' = Shown(k)
    BY <1>2 DEF Shown, listing
  <2>. QED
    BY <1>1, <1>2, <2>1 DEF SteadyInv, SteadyKeysListed, listing
<1>3. ASSUME NEW k \in Keys, Put(k) \/ PutDemote(k) \/ PutInsert(k) \/ Delete(k)
      PROVE  UNCHANGED listing /\ steady' \subseteq steady
  BY <1>3 DEF Put, PutDemote, PutInsert, Delete
<1>4. CASE Begin
  <2>1. \A k \in steady' : k \in Int /\ ~(k <= token')
    BY <1>4, ConstantsAssumption DEF Begin, SteadyInv, TypeOK, Keys
  <2>. QED
    BY <1>1, <1>4, <2>1 DEF Begin, SteadyInv, SteadyKeysListed, objects
<1>5. CASE ListPage
  BY <1>5, SteadyListPage
<1>6. CASE UNCHANGED vars
  BY <1>2, <1>6 DEF vars, listing
<1>. QED
  BY <1>2, <1>3, <1>4, <1>5, <1>6 DEF Next

(* A key that is current throughout a listing is returned by it            *)
(* (ObjectRepository.list).                                                *)
THEOREM ListsSteadyKeys == Spec => []SteadyKeysListed
<1>1. Init => SteadyInv
  BY InitType DEF Init, SteadyInv, SteadyKeysListed
<1>2. SteadyInv => SteadyKeysListed
  BY DEF SteadyInv
<1>. QED
  BY <1>1, <1>2, SteadyNext, PTL DEF Spec
=============================================================================
