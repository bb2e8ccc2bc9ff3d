-------------------------- MODULE PaginationProofs --------------------------
(***************************************************************************)
(* Proofs about the pages of a list (module Pagination), for any table,    *)
(* limits and number of changes, when cursors carry their order.           *)
(* PaginationInv is inductive.                                             *)
(***************************************************************************)
EXTENDS Pagination, FiniteSetTheorems, WellFoundedInduction, TLAPS

\* The time the provers may take for a step.
USE SMTT(60)

-----------------------------------------------------------------------------
(* The pages of a list: rows can be put in order.                          *)

\* Induction on the natural numbers, for a set.
LEMMA NatSetInduction ==
    ASSUME NEW T \in SUBSET Nat, 0 \in T, \A n \in T : n + 1 \in T
    PROVE  T = Nat
  <1> SUFFICES ASSUME Nat \ T # {} PROVE FALSE
    BY ZenonT(60)
  <1> DEFINE R == OpToRel(<, Nat)
  <1>1. IsWellFoundedOn(R, Nat)
    BY NatLessThanWellFounded, ZenonT(60)
  <1>2. \A x, y \in Nat : y < x => <<y, x>> \in R
    BY DEF OpToRel
  <1> HIDE DEF R
  <1>3. PICK x \in Nat \ T : \A y \in Nat \ T : ~ (<<y, x>> \in R)
    <2>1. Nat \ T \subseteq Nat
      OBVIOUS
    <2> QED BY <1>1, <2>1, WFMin, ZenonT(60)
  <1>4. x # 0 /\ x - 1 \in Nat
    BY <1>3
  <1>5. <<x - 1, x>> \in R
    <2>1. x \in Nat /\ x - 1 < x
      BY <1>3, <1>4
    <2> QED BY <1>2, <1>4, <2>1, ZenonT(60)
  <1>6. x - 1 \in T
    BY <1>3, <1>4, <1>5
  <1> QED BY <1>3, <1>4, <1>6

\* f lists rows in order o.
Sorted(f, o) == \A j, k \in DOMAIN f : j < k => Beyond(Place(f[k]), Place(f[j]), o)

\* The places of rows: pairs of numbers, different for different rows.
LEMMA Places ==
    ASSUME WalkTypeOK
    PROVE  /\ \A i \in DOMAIN rows : /\ Place(i) \in Nat \X Nat /\ Place(i) \in Value \X RowID
                                     /\ Place(i)[1] = rows[i].value /\ Place(i)[2] = i
           /\ \A i, j \in DOMAIN rows : Place(i) = Place(j) => i = j
  <1>1. \A i \in DOMAIN rows : rows[i].value \in Value /\ rows[i].value \in Nat /\ i \in RowID /\ i \in Nat
    BY PaginationAssumption, ZenonT(60) DEF WalkTypeOK
  <1> QED BY <1>1 DEF Place

\* Beyond is a strict total order of places.
LEMMA BeyondOrders ==
    ASSUME NEW o \in Order, NEW a \in Nat \X Nat, NEW b \in Nat \X Nat
    PROVE  /\ ~ Beyond(a, a, o)
           /\ a = b \/ Beyond(a, b, o) \/ Beyond(b, a, o)
           /\ ~ (Beyond(a, b, o) /\ Beyond(b, a, o))
           /\ \A c \in Nat \X Nat : Beyond(a, b, o) /\ Beyond(b, c, o) => Beyond(a, c, o)
  <1>1. a[1] \in Nat /\ a[2] \in Nat /\ b[1] \in Nat /\ b[2] \in Nat /\ a = <<a[1], a[2]>> /\ b = <<b[1], b[2]>>
    OBVIOUS
  <1>2. \A c \in Nat \X Nat : c[1] \in Nat /\ c[2] \in Nat
    OBVIOUS
  <1>3. a = b \/ Beyond(a, b, o) \/ Beyond(b, a, o)
    <2>1. a[1] = b[1] /\ a[2] = b[2] => a = b
      BY <1>1
    <2> QED BY <1>1, <2>1 DEF Beyond, Before
  <1> QED BY <1>1, <1>2, <1>3 DEF Beyond, Before

\* A sorted sequence of as many rows as the set has holds all of them.
LEMMA SortedIsOnto ==
    ASSUME WalkTypeOK, NEW o \in Order, NEW S \in SUBSET DOMAIN rows, IsFiniteSet(S),
           NEW n \in Nat, n = Cardinality(S), NEW f \in [1..n -> S], Sorted(f, o)
    PROVE  \A i \in S : \E k \in 1..n : f[k] = i
  <1>1. \A j, k \in 1..n : j < k => f[j] # f[k]
    BY Places, BeyondOrders DEF Sorted
  <1>2. f \in Injection(1..n, S)
    BY <1>1 DEF Injection, IsInjective
  <1>3. IsFiniteSet(1..n) /\ Cardinality(1..n) = n
    BY FS_Interval
  <1>4. f \in Surjection(1..n, S)
    BY <1>2, <1>3, FS_Injection
  <1> QED BY <1>4 DEF Surjection

\* Rows can be put in order.
LEMMA OrderExists ==
    ASSUME WalkTypeOK, NEW o \in Order
    PROVE  \A n \in Nat : \A S \in SUBSET DOMAIN rows :
               IsFiniteSet(S) /\ Cardinality(S) = n => \E f \in [1..n -> S] : Sorted(f, o)
  <1> DEFINE Sortable(n) == \A S \in SUBSET DOMAIN rows :
                 IsFiniteSet(S) /\ Cardinality(S) = n => \E f \in [1..n -> S] : Sorted(f, o)
             T == {n \in Nat : Sortable(n)}
  <1>1. 0 \in T
    <2>1. ASSUME NEW S PROVE [k \in 1..0 |-> 0] \in [1..0 -> S] /\ Sorted([k \in 1..0 |-> 0], o)
      BY DEF Sorted
    <2> QED BY <2>1, ZenonT(60)
  <1>2. ASSUME NEW n \in T PROVE n + 1 \in T
    <2> SUFFICES ASSUME NEW S \in SUBSET DOMAIN rows, IsFiniteSet(S), Cardinality(S) = n + 1
                 PROVE  \E f \in [1..(n + 1) -> S] : Sorted(f, o)
      BY <1>2
    <2>0. n \in Nat
      OBVIOUS
    <2>1. ASSUME NEW x \in S
          PROVE  /\ IsFiniteSet(S \ {x}) /\ Cardinality(S \ {x}) = n /\ S \ {x} \in SUBSET DOMAIN rows
                 /\ \E f \in [1..n -> S \ {x}] : Sorted(f, o)
      <3>1. IsFiniteSet(S \ {x}) /\ Cardinality(S \ {x}) = Cardinality(S) - 1
        BY <2>1, FS_RemoveElement, ZenonT(60)
      <3>2. Cardinality(S \ {x}) = n /\ S \ {x} \in SUBSET DOMAIN rows
        BY <2>0, <3>1
      <3> QED BY <3>1, <3>2, ZenonT(60)
    <2> HIDE DEF Sortable
    \* The last of the rows.
    <2>2. PICK m \in S : \A i \in S \ {m} : Beyond(Place(m), Place(i), o)
      <3>1. PICK x : x \in S
        BY <2>0, FS_EmptySet
      <3>2. PICK f \in [1..n -> S \ {x}] : Sorted(f, o)
        BY <2>1, <3>1, ZenonT(60)
      <3>3. \A i \in S \ {x} : \E k \in 1..n : f[k] = i
        <4> DEFINE R == S \ {x}
        <4>1. IsFiniteSet(R) /\ n = Cardinality(R) /\ R \in SUBSET DOMAIN rows /\ f \in [1..n -> R]
          BY <2>1, <3>1, <3>2, ZenonT(60)
        <4> HIDE DEF R
        <4>2. \A i \in R : \E k \in 1..n : f[k] = i
          BY <2>0, <3>2, <4>1, SortedIsOnto
        <4> QED BY <4>2 DEF R
      <3>4. CASE n = 0
        BY <3>1, <3>3, <3>4
      <3>5. CASE n # 0
        <4>1. n \in 1..n /\ f[n] \in S /\ f[n] # x
          BY <2>0, <3>2, <3>5
        <4>2. \A i \in S \ {x} : i = f[n] \/ Beyond(Place(f[n]), Place(i), o)
          BY <2>0, <3>2, <3>3, <4>1 DEF Sorted
        <4>3. CASE Beyond(Place(x), Place(f[n]), o)
          <5>1. \A i \in S \ {x} : Beyond(Place(x), Place(i), o)
            BY <3>1, <4>1, <4>2, <4>3, Places, BeyondOrders
          <5> QED BY <3>1, <5>1
        <4>4. CASE Beyond(Place(f[n]), Place(x), o)
          <5>1. \A i \in S \ {f[n]} : Beyond(Place(f[n]), Place(i), o)
            BY <4>2, <4>4
          <5> QED BY <4>1, <5>1
        <4>5. Place(x) \in Nat \X Nat /\ Place(f[n]) \in Nat \X Nat /\ Place(x) # Place(f[n])
          BY <3>1, <4>1, Places
        <4> QED BY <4>3, <4>4, <4>5, BeyondOrders
      <3> QED BY <3>4, <3>5
    <2>3. PICK g \in [1..n -> S \ {m}] : Sorted(g, o)
      BY <2>1, <2>2, ZenonT(60)
    <2> DEFINE f == [k \in 1..(n + 1) |-> IF k = n + 1 THEN m ELSE g[k]]
    <2>4. \A k \in 1..(n + 1) : k = n + 1 \/ (k \in 1..n /\ g[k] \in S \ {m})
      BY <2>0, <2>3
    <2>5. f \in [1..(n + 1) -> S]
      BY <2>2, <2>4
    <2>6. ASSUME NEW j \in 1..(n + 1), NEW k \in 1..(n + 1), j < k
          PROVE  Beyond(Place(f[k]), Place(f[j]), o)
      <3>1. j \in 1..n /\ f[j] = g[j] /\ g[j] \in S \ {m}
        BY <2>0, <2>4, <2>6
      <3>2. CASE k = n + 1
        <4>1. f[k] = m
          BY <3>2
        <4> QED BY <2>2, <3>1, <4>1
      <3>3. CASE k # n + 1
        <4>1. k \in 1..n /\ f[k] = g[k]
          BY <2>4, <3>3
        <4> QED BY <2>3, <2>6, <3>1, <4>1 DEF Sorted
      <3> QED BY <3>2, <3>3
    <2>7. Sorted(f, o)
      BY <2>5, <2>6 DEF Sorted
    <2> QED BY <2>5, <2>7
  <1>3. T = Nat
    <2>1. T \in SUBSET Nat
      OBVIOUS
    <2> HIDE DEF T
    <2> QED BY <1>1, <1>2, <2>1, NatSetInduction
  <1> QED BY <1>3

\* ORDER BY returns every selected row once, in order.
LEMMA OrderByOrders ==
    ASSUME WalkTypeOK, NEW o \in Order, NEW S \in SUBSET DOMAIN rows
    PROVE  /\ OrderBy(S, o) \in Seq(S) /\ Sorted(OrderBy(S, o), o)
           /\ \A i \in S : \E k \in 1..Len(OrderBy(S, o)) : OrderBy(S, o)[k] = i
  <1> DEFINE n == Cardinality(S)
             f == OrderBy(S, o)
  <1>1. IsFiniteSet(S) /\ n \in Nat
    <2>1. S \subseteq RowID
      BY DEF WalkTypeOK
    <2> QED BY <2>1, PaginationAssumption, FS_Subset, FS_CardinalityType
  <1>2. \E g \in [1..n -> S] : Sorted(g, o)
    BY <1>1, OrderExists
  <1>3. f \in [1..n -> S] /\ Sorted(f, o)
    BY <1>2, ZenonT(60) DEF OrderBy, Sorted
  <1> HIDE DEF f
  <1>4. \A i \in S : \E k \in 1..n : f[k] = i
    BY <1>1, <1>3, SortedIsOnto
  <1>5. f \in Seq(S) /\ Len(f) = n
    BY <1>1, <1>3
  <1> QED BY <1>3, <1>4, <1>5 DEF f

\* The places a cursor can hold.
Bound == Value \X RowID

\* A page is in order and made of selected rows.  Without a next cursor it holds them all;
\* with one, the cursor is the place of its last row and the other rows are beyond it.
LEMMA PageOfList ==
    ASSUME WalkTypeOK, NEW o \in Order, NEW from, NEW n \in Nat \ {0}
    PROVE  LET r == List(o, from, n)
               S == Remaining(o, from)
           IN  /\ r.page \in Seq(S) /\ Sorted(r.page, o)
               /\ r.next = <<>> => S \subseteq Range(r.page)
               /\ r.next # <<>> =>
                    /\ r.next \in Bound /\ \E k \in DOMAIN r.page : Place(r.page[k]) = r.next
                    /\ \A k \in DOMAIN r.page :
                         Place(r.page[k]) = r.next \/ Beyond(r.next, Place(r.page[k]), o)
                    /\ \A i \in S \ Range(r.page) : Beyond(Place(i), r.next, o)
  <1> DEFINE S == Remaining(o, from)
             f == OrderBy(S, o)
             size == Smaller(Len(f), n)
             page == SubSeq(f, 1, size)
             next == IF Len(f) > n THEN Place(f[n]) ELSE <<>>
  <1>1. List(o, from, n).page = page /\ List(o, from, n).next = next
    BY ZenonT(60) DEF List
  <1>2. S \in SUBSET DOMAIN rows
    BY DEF Remaining
  <1>3. /\ f \in Seq(S) /\ Sorted(f, o)
        /\ \A i \in S : \E k \in 1..Len(f) : f[k] = i
    BY <1>2, OrderByOrders
  <1> HIDE DEF f, S
  <1>4. /\ Len(f) \in Nat
        /\ \A j, k \in 1..Len(f) : j < k => Beyond(Place(f[k]), Place(f[j]), o)
    <2>1. Len(f) \in Nat /\ DOMAIN f = 1..Len(f)
      BY <1>3
    <2> QED BY <1>3, <2>1 DEF Sorted
  <1>5. size \in 0..Len(f) /\ size = IF Len(f) > n THEN n ELSE Len(f)
    BY <1>3 DEF Smaller
  <1> HIDE DEF size
  <1>6. /\ page \in Seq(S) /\ Len(page) = size /\ DOMAIN page = 1..size
        /\ \A k \in 1..size : page[k] = f[k]
    BY <1>3, <1>5
  <1> HIDE DEF page
  <1>7. Sorted(page, o)
    <2>1. \A k \in 1..size : k \in 1..Len(f)
      BY <1>4, <1>5
    <2> QED BY <1>4, <1>6, <2>1 DEF Sorted
  <1>8. \A k \in 1..size : f[k] \in Range(page)
    BY <1>6 DEF Range
  <1>9. CASE Len(f) > n
    <2>1. size = n /\ n \in 1..size /\ n \in 1..Len(f) /\ f[n] \in S
      BY <1>3, <1>5, <1>9
    <2>2. next = Place(f[n]) /\ next \in Bound /\ next # <<>>
      BY <1>2, <1>9, <2>1, Places DEF Place, Bound
    <2>3. \A k \in DOMAIN page : Place(page[k]) = next \/ Beyond(next, Place(page[k]), o)
      <3> SUFFICES ASSUME NEW k \in 1..n
                   PROVE  Place(f[k]) = Place(f[n]) \/ Beyond(Place(f[n]), Place(f[k]), o)
        BY <1>6, <2>1, <2>2
      <3>1. k = n \/ k < n
        OBVIOUS
      <3>2. k \in 1..Len(f)
        BY <1>4, <2>1
      <3> QED BY <1>4, <2>1, <3>1, <3>2
    <2>4. \E k \in DOMAIN page : Place(page[k]) = next
      BY <1>6, <2>1, <2>2
    <2>5. ASSUME NEW i \in S \ Range(page) PROVE Beyond(Place(i), next, o)
      <3>1. PICK k \in 1..Len(f) : f[k] = i
        BY <1>3
      <3>2. n < k
        BY <1>8, <2>1, <3>1
      <3> QED BY <1>4, <2>1, <2>2, <3>1, <3>2
    <2> HIDE DEF next
    <2> QED BY <1>1, <1>6, <1>7, <2>2, <2>3, <2>4, <2>5 DEF S
  <1>10. CASE ~ (Len(f) > n)
    <2>1. next = <<>> /\ size = Len(f)
      BY <1>5, <1>10
    <2>2. S \subseteq Range(page)
      BY <1>3, <1>8, <2>1
    <2> HIDE DEF next
    <2> QED BY <1>1, <1>6, <1>7, <2>1, <2>2 DEF S
  <1> QED BY <1>9, <1>10, ZenonT(60)

\* The limit a page is read with is positive.
LEMMA PositiveLimit ==
    ASSUME NEW n \in Limits, Parses(n)
    PROVE  EffectiveLimit(n) \in Nat \ {0}
  BY PaginationAssumption DEF Parses, EffectiveLimit

\* A change to the table leaves every row that was there in its place.
LEMMA ChangeKeepsWalk ==
    ASSUME PaginationInv, UNCHANGED <<walk, order, cursor, listed>>,
           DOMAIN rows \subseteq DOMAIN rows', DOMAIN rows' \subseteq RowID,
           \A i \in DOMAIN rows' : rows'[i] \in [value : Value, match : BOOLEAN],
           \A i \in DOMAIN rows : rows'[i].value = rows[i].value,
           steady' \subseteq steady, \A i \in steady' : rows'[i].match
    PROVE  PaginationInv'
  <1>1. \A i \in DOMAIN rows : Place(i)' = Place(i)
    BY DEF Place
  <1>2. listed \in Seq(DOMAIN rows) /\ listed \in Seq(DOMAIN rows')
    BY DEF PaginationInv, WalkTypeOK
  <1>3. \A k \in DOMAIN listed : listed[k] \in DOMAIN rows /\ Place(listed[k])' = Place(listed[k])
    BY <1>1, <1>2
  <1>4. WalkTypeOK'
    BY <1>2 DEF PaginationInv, WalkTypeOK
  <1>5. SteadyMatches'
    BY DEF PaginationInv, SteadyMatches
  <1>6. \A i \in steady' : i \in steady /\ i \in DOMAIN rows /\ Place(i)' = Place(i)
    BY <1>1 DEF PaginationInv, SteadyMatches
  <1>7. CursorDivides'
    BY <1>3, <1>6 DEF PaginationInv, CursorDivides, Range, Beyond
  <1>8. PagesInOrder'
    BY <1>3 DEF PaginationInv, PagesInOrder, Beyond
  <1>9. NothingSkipped'
    BY DEF PaginationInv, NothingSkipped, Range
  <1> QED BY <1>4, <1>5, <1>7, <1>8, <1>9 DEF PaginationInv

\* The first page begins a walk.
LEMMA FirstPageKeepsWalk ==
    ASSUME PaginationInv, NEW o \in Order, NEW n \in Limits, FirstPage(o, n)
    PROVE  PaginationInv'
  <1> DEFINE m == EffectiveLimit(n)
             r == List(o, <<>>, m)
             S == Remaining(o, <<>>)
  <1>1. m \in Nat \ {0}
    BY PositiveLimit DEF FirstPage
  <1> HIDE DEF m
  <1>2. /\ r.page \in Seq(S) /\ Sorted(r.page, o)
        /\ r.next = <<>> => S \subseteq Range(r.page)
        /\ r.next # <<>> =>
             /\ r.next \in Bound
             /\ \A k \in DOMAIN r.page :
                  Place(r.page[k]) = r.next \/ Beyond(r.next, Place(r.page[k]), o)
             /\ \A i \in S \ Range(r.page) : Beyond(Place(i), r.next, o)
    BY <1>1, PageOfList DEF PaginationInv
  <1>3. /\ listed' = r.page /\ cursor' = r.next /\ walk' = (IF r.next = <<>> THEN "done" ELSE "more")
        /\ order' = o /\ rows' = rows /\ steady' = {i \in DOMAIN rows : rows[i].match}
    BY DEF FirstPage, m
  <1>4. S = {i \in DOMAIN rows : rows[i].match}
    BY DEF Remaining
  <1> HIDE DEF r, S
  <1>5. WalkTypeOK'
    <2>1. S \subseteq DOMAIN rows
      BY <1>4
    <2>2. listed' \in Seq(DOMAIN rows)
      BY <1>2, <1>3, <2>1
    <2> QED BY <1>2, <1>3, <2>2 DEF PaginationInv, WalkTypeOK, Bound
  <1>6. SteadyMatches'
    BY <1>3 DEF SteadyMatches
  <1>7. \A i : Place(i)' = Place(i)
    BY <1>3 DEF Place
  <1>8. CursorDivides'
    BY <1>2, <1>3, <1>4, <1>7 DEF CursorDivides
  <1>9. PagesInOrder'
    BY <1>2, <1>3, <1>7 DEF PagesInOrder, Sorted
  <1>10. NothingSkipped'
    BY <1>2, <1>3, <1>4 DEF NothingSkipped
  <1> QED BY <1>5, <1>6, <1>8, <1>9, <1>10 DEF PaginationInv

\* The next page goes on beyond the cursor, in the order the walk began with.
LEMMA NextPageKeepsWalk ==
    ASSUME PaginationInv, ChecksOrder, NEW o \in Order, NEW n \in Limits, NextPage(o, n)
    PROVE  PaginationInv'
  <1> DEFINE m == EffectiveLimit(n)
             r == List(o, cursor, m)
             page == r.page
             next == r.next
             S == Remaining(o, cursor)
  <1>1. m \in Nat \ {0}
    BY PositiveLimit DEF NextPage
  <1> HIDE DEF m
  <1>2. /\ page \in Seq(S) /\ Sorted(page, o)
        /\ next = <<>> => S \subseteq Range(page)
        /\ next # <<>> =>
             /\ next \in Bound /\ \E k \in DOMAIN page : Place(page[k]) = next
             /\ \A k \in DOMAIN page : Place(page[k]) = next \/ Beyond(next, Place(page[k]), o)
             /\ \A i \in S \ Range(page) : Beyond(Place(i), next, o)
    BY <1>1, PageOfList DEF PaginationInv
  <1>3. /\ listed' = listed \o page /\ cursor' = next /\ walk' = (IF next = <<>> THEN "done" ELSE "more")
        /\ order' = order /\ rows' = rows /\ steady' = steady /\ o = order /\ walk = "more"
    BY DEF NextPage, Decodes, m
  <1>4. /\ cursor # <<>> /\ cursor \in Nat \X Nat
        /\ \A k \in DOMAIN listed : Place(listed[k]) = cursor \/ Beyond(cursor, Place(listed[k]), o)
        /\ \A i \in steady \ Range(listed) : Beyond(Place(i), cursor, o)
    <2>1. cursor # <<>>
      BY <1>3 DEF PaginationInv, CursorDivides
    <2>2. cursor \in Value \X RowID
      BY <2>1 DEF PaginationInv, WalkTypeOK
    <2>3. cursor \in Nat \X Nat
      BY <2>2, PaginationAssumption, ZenonT(60)
    <2> QED BY <1>3, <2>1, <2>3 DEF PaginationInv, CursorDivides
  <1>5. S = {i \in DOMAIN rows : rows[i].match /\ Beyond(Place(i), cursor, o)}
    BY <1>4 DEF Remaining
  <1> HIDE DEF r, page, next, S
  <1>6. /\ listed \in Seq(DOMAIN rows) /\ page \in Seq(DOMAIN rows)
        /\ \A k \in DOMAIN page : page[k] \in S
    <2>1. S \subseteq DOMAIN rows
      BY <1>5
    <2> QED BY <1>2, <2>1 DEF PaginationInv, WalkTypeOK
  <1>7. /\ listed' \in Seq(DOMAIN rows) /\ Len(listed) \in Nat /\ Len(page) \in Nat
        /\ DOMAIN listed = 1..Len(listed) /\ DOMAIN page = 1..Len(page)
        /\ DOMAIN listed' = 1..(Len(listed) + Len(page))
        /\ \A k \in 1..Len(listed) : listed'[k] = listed[k]
        /\ \A k \in 1..Len(page) : listed'[Len(listed) + k] = page[k]
    BY <1>3, <1>6
  <1>8. \A k \in DOMAIN listed' : \/ k \in DOMAIN listed /\ listed'[k] = listed[k]
                                  \/ /\ k - Len(listed) \in DOMAIN page /\ k > Len(listed)
                                     /\ listed'[k] = page[k - Len(listed)]
    BY <1>7
  <1>9. Range(listed') = Range(listed) \cup Range(page)
    <2>1. \A k \in DOMAIN page : Len(listed) + k \in DOMAIN listed' /\ listed'[Len(listed) + k] = page[k]
      BY <1>7
    <2>2. \A k \in DOMAIN listed : k \in DOMAIN listed' /\ listed'[k] = listed[k]
      BY <1>7
    <2> QED BY <1>8, <2>1, <2>2 DEF Range
  <1>10. \A i : Place(i)' = Place(i)
    BY <1>3 DEF Place
  <1>11. ASSUME NEW j \in DOMAIN listed, NEW k \in DOMAIN page
         PROVE  Beyond(Place(page[k]), Place(listed[j]), o)
    <2>1. listed[j] \in DOMAIN rows /\ page[k] \in DOMAIN rows /\ Beyond(Place(page[k]), cursor, o)
      BY <1>5, <1>6
    <2>2. Place(listed[j]) \in Nat \X Nat /\ Place(page[k]) \in Nat \X Nat
      BY <2>1, Places DEF PaginationInv
    <2>3. Place(listed[j]) = cursor \/ Beyond(cursor, Place(listed[j]), o)
      BY <1>4
    <2> QED BY <1>4, <2>1, <2>2, <2>3, BeyondOrders
  <1>12. WalkTypeOK'
    BY <1>2, <1>3, <1>7 DEF PaginationInv, WalkTypeOK, Bound
  <1>13. SteadyMatches'
    BY <1>3 DEF PaginationInv, SteadyMatches
  <1>14. \A i \in steady \ Range(listed) : i \in S
    BY <1>4, <1>5 DEF PaginationInv, SteadyMatches
  <1>15. NothingSkipped'
    BY <1>2, <1>3, <1>9, <1>14 DEF NothingSkipped
  <1>16. ASSUME NEW j \in DOMAIN listed', NEW k \in DOMAIN listed', j < k
         PROVE  Beyond(Place(listed'[k]), Place(listed'[j]), o)
    <2>1. CASE k \in DOMAIN listed
      <3>1. j \in DOMAIN listed /\ listed'[j] = listed[j] /\ listed'[k] = listed[k]
        BY <1>7, <1>16, <2>1
      <3> QED BY <1>3, <1>16, <2>1, <3>1 DEF PaginationInv, PagesInOrder
    <2>2. CASE k \notin DOMAIN listed /\ j \in DOMAIN listed
      BY <1>7, <1>8, <1>11, <2>2
    <2>3. CASE k \notin DOMAIN listed /\ j \notin DOMAIN listed
      <3>1. /\ j - Len(listed) \in DOMAIN page /\ k - Len(listed) \in DOMAIN page
            /\ listed'[j] = page[j - Len(listed)] /\ listed'[k] = page[k - Len(listed)]
        BY <1>8, <2>3
      <3>2. j - Len(listed) < k - Len(listed)
        BY <1>7, <1>16
      <3> QED BY <1>2, <3>1, <3>2 DEF Sorted
    <2> QED BY <2>1, <2>2, <2>3
  <1>17. PagesInOrder'
    BY <1>3, <1>10, <1>16 DEF PagesInOrder
  <1>18. CursorDivides'
    <2> SUFFICES ASSUME next # <<>>
                 PROVE  /\ \A k \in DOMAIN listed' :
                             Place(listed'[k]) = next \/ Beyond(next, Place(listed'[k]), o)
                        /\ \A i \in steady \ Range(listed') : Beyond(Place(i), next, o)
      BY <1>3, <1>10, ZenonT(60) DEF CursorDivides
    <2>1. \A i \in steady \ Range(listed') : Beyond(Place(i), next, o)
      BY <1>2, <1>9, <1>14
    <2>2. \A k \in DOMAIN page : Place(page[k]) = next \/ Beyond(next, Place(page[k]), o)
      BY <1>2
    <2>3. PICK l \in DOMAIN page : Place(page[l]) = next
      BY <1>2
    <2>4. \A k \in DOMAIN listed : Beyond(next, Place(listed[k]), o)
      BY <1>11, <2>3
    <2> QED BY <1>8, <2>1, <2>2, <2>4
  <1> QED BY <1>12, <1>13, <1>15, <1>17, <1>18 DEF PaginationInv

\* PaginationInv is inductive when a cursor is refused in another order than its own, as
\* the catalog's decodeCursor does.
THEOREM WalkInductive ==
    ASSUME ChecksOrder
    PROVE  /\ WalkInit => PaginationInv
           /\ PaginationInv /\ [WalkNext]_walkVars => PaginationInv'
  <1>1. WalkInit => PaginationInv
    <2> SUFFICES ASSUME WalkInit PROVE PaginationInv
      OBVIOUS
    <2>1. PICK S \in SUBSET RowID : rows \in [S -> [value : Value, match : BOOLEAN]]
      BY DEF WalkInit
    <2>2. WalkTypeOK
      BY <2>1 DEF WalkInit, WalkTypeOK, Order
    <2> QED BY <2>2 DEF WalkInit, PaginationInv, SteadyMatches, CursorDivides, PagesInOrder, NothingSkipped
  <1>2. ASSUME PaginationInv, [WalkNext]_walkVars PROVE PaginationInv'
    <2>0. /\ DOMAIN rows \subseteq RowID
          /\ \A i \in DOMAIN rows : rows[i] \in [value : Value, match : BOOLEAN]
          /\ \A i \in steady : i \in DOMAIN rows /\ rows[i].match
      BY <1>2 DEF PaginationInv, WalkTypeOK, SteadyMatches
    <2>1. ASSUME NEW i \in RowID, NEW v \in Value, InsertRow(i, v) PROVE PaginationInv'
      <3> DEFINE x == [value |-> v, match |-> TRUE]
      <3>1. /\ i \notin DOMAIN rows /\ UNCHANGED <<walk, order, cursor, listed, steady>>
            /\ rows' = [j \in DOMAIN rows \cup {i} |-> IF j = i THEN x ELSE rows[j]]
        BY <2>1 DEF InsertRow
      <3>2. x \in [value : Value, match : BOOLEAN]
        OBVIOUS
      <3> HIDE DEF x
      <3>3. DOMAIN rows' = DOMAIN rows \cup {i} /\ rows'[i] = x /\ \A j \in DOMAIN rows : rows'[j] = rows[j]
        BY <3>1
      <3> QED BY <1>2, <2>0, <3>1, <3>2, <3>3, ChangeKeepsWalk
    <2>2. ASSUME NEW i \in RowID, Refilter(i) PROVE PaginationInv'
      <3> DEFINE x == [rows[i] EXCEPT !.match = ~ @]
      <3>1. /\ i \in DOMAIN rows /\ UNCHANGED <<walk, order, cursor, listed>> /\ steady' = steady \ {i}
            /\ rows' = [rows EXCEPT ![i].match = ~ @]
        BY <2>2 DEF Refilter
      <3>2. x \in [value : Value, match : BOOLEAN] /\ x.value = rows[i].value
        BY <2>0, <3>1, ZenonT(60)
      <3>3. DOMAIN rows' = DOMAIN rows /\ rows'[i] = x
        BY <3>1
      <3>4. \A j \in DOMAIN rows \ {i} : rows'[j] = rows[j]
        BY <3>1
      <3> HIDE DEF x
      <3> QED BY <1>2, <2>0, <3>1, <3>2, <3>3, <3>4, ChangeKeepsWalk
    <2>3. CASE UNCHANGED walkVars
      <3>1. UNCHANGED <<rows, walk, order, cursor, listed, steady>>
        BY <2>3 DEF walkVars
      <3> QED BY <1>2, <2>0, <3>1, ChangeKeepsWalk
    <2> QED BY <1>2, <2>1, <2>2, <2>3, FirstPageKeepsWalk, NextPageKeepsWalk DEF WalkNext
  <1> QED BY <1>1, <1>2

\* For any table, page limits and number of changes between pages: the pages of a walk,
\* put together, are in order and hold no row twice (Repository.List, decodeCursor).
THEOREM PagesAreOrdered ==
    ASSUME ChecksOrder
    PROVE  WalkSpec => []PagesInOrder
  BY WalkInductive, PTL DEF WalkSpec, PaginationInv

\* And a walk that ended has listed every row that matched throughout: the boundary
\* between two pages loses none.
THEOREM PagesAreComplete ==
    ASSUME ChecksOrder
    PROVE  WalkSpec => []NothingSkipped
  BY WalkInductive, PTL DEF WalkSpec, PaginationInv
=============================================================================

