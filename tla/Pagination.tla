----------------------------- MODULE Pagination -----------------------------
(***************************************************************************)
(* Keyset pagination: a client walks GET /services or GET /tenants page by *)
(* page while rows are inserted and leave or enter the filter              *)
(* (Repository.List, encodeCursor and decodeCursor of both modules).       *)
(*                                                                         *)
(* A row's place is its sort value, created_at or name, and its id; both   *)
(* are fixed when the row is inserted.  The catalog's cursor carries the   *)
(* order and decodeCursor compares it (ChecksOrder); the tenants' leaves   *)
(* it out and ignores the one asked for.  A walk keeps its sort field: the *)
(* tenants have only one, and the catalog refuses a cursor of the other.   *)
(* The cursor's text gives back the stored value exactly: names are kept   *)
(* as they are, and RFC3339Nano is finer than the column's microseconds.   *)
(***************************************************************************)
EXTENDS Integers, Sequences, FiniteSets, Functions

CONSTANTS
    RowID,         \* ids, numbers in the place of UUIDs
    Value,         \* sort values
    ChecksOrder,   \* TRUE for the catalog, FALSE for the tenants
    Limits,        \* limits a client asks for
    DefaultLimit,  \* 50 in the code
    MaxLimit,      \* 200 in the code
    MaxChanges     \* bound: changes during the walk

ASSUME PaginationAssumption ==
    /\ RowID \subseteq Nat /\ IsFiniteSet(RowID) /\ Value \subseteq Nat
    /\ ChecksOrder \in BOOLEAN
    /\ DefaultLimit \in 1..MaxLimit /\ MaxLimit \in Nat /\ Limits \subseteq Int
    /\ MaxChanges \in Nat

VARIABLES
    rows,      \* the table: [RowID -> [value, match]], match when the filter takes the row
    walk,      \* "first" page not read yet, "more" with a cursor, "done" without
    order,     \* the order the walk began with
    cursor,    \* the last nextCursor
    listed,    \* ids returned so far, in order
    steady,    \* rows that have matched since the walk began
    changes    \* the bound's counter

walkVars == <<rows, walk, order, cursor, listed, steady, changes>>

-----------------------------------------------------------------------------
Order == {"asc", "desc"}

Before(a, b) == a[1] < b[1] \/ (a[1] = b[1] /\ a[2] < b[2])

\* (sort_column, id) > or < the boundary.
Beyond(a, b, o) == IF o = "asc" THEN Before(b, a) ELSE Before(a, b)

Place(i) == <<rows[i].value, i>>

\* Fault: the boundary row is selected again.
Remaining_Inclusive(o, from) ==
    {i \in DOMAIN rows : rows[i].match /\
        (from = <<>> \/ Place(i) = from \/ Beyond(Place(i), from, o))}

\* The rows of the WHERE clause; an empty cursor selects from the start.
Remaining(o, from) ==
    {i \in DOMAIN rows : rows[i].match /\ (from = <<>> \/ Beyond(Place(i), from, o))}

\* parseListFilter refuses a limit below 1.
Parses(n) == n >= 1

\* ListServices and ListTenants replace a limit outside 1..MaxLimit by the default.
EffectiveLimit(n) == IF n <= 0 \/ n > MaxLimit THEN DefaultLimit ELSE n

\* ORDER BY sort_column, id: the rows of S one after the other.
OrderBy(S, o) == CHOOSE f \in [1..Cardinality(S) -> S] :
    \A j, k \in DOMAIN f : j < k => Beyond(Place(f[k]), Place(f[j]), o)

Smaller(m, n) == IF m < n THEN m ELSE n

\* Fault: the row fetched to see whether there are more is taken as the boundary.
List_BoundaryIsExtra(o, from, n) ==
    LET found == OrderBy(Remaining(o, from), o)
        size  == Smaller(Len(found), n)
    IN  [page |-> SubSeq(found, 1, size),
         next |-> IF Len(found) > n THEN Place(found[n + 1]) ELSE <<>>]

\* ORDER BY ... LIMIT n + 1, cut to n; the next cursor is there when row n + 1 was.
List(o, from, n) ==
    LET found == OrderBy(Remaining(o, from), o)
        size  == Smaller(Len(found), n)
    IN  [page |-> SubSeq(found, 1, size),
         next |-> IF Len(found) > n THEN Place(found[n]) ELSE <<>>]

\* decodeCursor accepts the cursor for a request in order o.
Decodes(o) == ChecksOrder => o = order

-----------------------------------------------------------------------------
WalkInit ==
    /\ rows \in UNION {[S -> [value : Value, match : BOOLEAN]] : S \in SUBSET RowID}
    /\ walk = "first" /\ order = "desc" /\ cursor = <<>> /\ listed = <<>>
    /\ steady = {i \in DOMAIN rows : rows[i].match}
    /\ changes = 0

FirstPage(o, n) ==
    /\ walk = "first"
    /\ Parses(n)
    /\ LET r == List(o, <<>>, EffectiveLimit(n)) IN
        /\ listed' = r.page
        /\ cursor' = r.next
        /\ walk' = IF r.next = <<>> THEN "done" ELSE "more"
    /\ order' = o
    /\ steady' = {i \in DOMAIN rows : rows[i].match}
    /\ UNCHANGED <<rows, changes>>

\* The client follows the cursor; a request that is refused changes nothing.
NextPage(o, n) ==
    /\ walk = "more"
    /\ Parses(n)
    /\ Decodes(o)
    /\ LET r == List(o, cursor, EffectiveLimit(n)) IN
        /\ listed' = listed \o r.page
        /\ cursor' = r.next
        /\ walk' = IF r.next = <<>> THEN "done" ELSE "more"
    /\ UNCHANGED <<rows, order, steady, changes>>

\* A row is committed, perhaps with a created_at before rows already listed.
InsertRow(i, v) ==
    /\ changes < MaxChanges /\ changes' = changes + 1
    /\ i \in RowID \ DOMAIN rows
    /\ rows' = [j \in DOMAIN rows \cup {i} |-> IF j = i THEN [value |-> v, match |-> TRUE] ELSE rows[j]]
    /\ UNCHANGED <<walk, order, cursor, listed, steady>>

\* A status or lifecycle changes: the row enters or leaves the filter.
Refilter(i) ==
    /\ changes < MaxChanges /\ changes' = changes + 1
    /\ i \in DOMAIN rows
    /\ rows' = [rows EXCEPT ![i].match = ~ @]
    /\ steady' = steady \ {i}
    /\ UNCHANGED <<walk, order, cursor, listed>>

WalkNext ==
    \/ \E o \in Order, n \in Limits : FirstPage(o, n) \/ NextPage(o, n)
    \/ \E i \in RowID : Refilter(i) \/ \E v \in Value : InsertRow(i, v)

WalkSpec == WalkInit /\ [][WalkNext]_walkVars

-----------------------------------------------------------------------------
(* Properties.                                                             *)

WalkTypeOK ==
    /\ DOMAIN rows \subseteq RowID
    /\ \A i \in DOMAIN rows : rows[i] \in [value : Value, match : BOOLEAN]
    /\ walk \in {"first", "more", "done"} /\ order \in Order
    /\ cursor = <<>> \/ cursor \in Value \X RowID
    /\ listed \in Seq(DOMAIN rows)

\* The pages of a walk, put together, are in the order asked for and hold no row twice,
\* whatever is inserted or changed between two pages.
PagesInOrder == \A j, k \in DOMAIN listed :
    j < k => Beyond(Place(listed[k]), Place(listed[j]), order)

\* A walk that ended has listed every row that matched from its first page to its last.
NothingSkipped == walk = "done" => steady \subseteq Range(listed)

-----------------------------------------------------------------------------
(* Why they hold.                                                          *)

\* The cursor divides the rows: what is listed is not beyond it, and a steady row is
\* listed or beyond it.
CursorDivides == walk = "more" =>
    /\ cursor # <<>>
    /\ \A k \in DOMAIN listed :
          Place(listed[k]) = cursor \/ Beyond(cursor, Place(listed[k]), order)
    /\ \A i \in steady \ Range(listed) : Beyond(Place(i), cursor, order)

SteadyMatches == \A i \in steady : i \in DOMAIN rows /\ rows[i].match

PaginationInv == WalkTypeOK /\ SteadyMatches /\ CursorDivides /\ PagesInOrder /\ NothingSkipped
=============================================================================
