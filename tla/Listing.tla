------------------------------- MODULE Listing -------------------------------
(***************************************************************************)
(* The two paginated lists: a user's orders (OrderRepository.list_for_user,*)
(* newest first, never deleted) and the events of a search                 *)
(* (EventRepository.search, by starts_at).  An answer takes a COUNT and a  *)
(* page query, two statements that see two states of the table.  A client  *)
(* walks through the pages while rows come and go.                         *)
(***************************************************************************)
EXTENDS Integers, FiniteSets

CONSTANTS
    Items,      \* rows that may match
    page_size   \* 1..100 in PaginationParams

ASSUME ListingAssumption == IsFiniteSet(Items) /\ page_size \in Nat \ {0}

VARIABLES
    listing,    \* "orders" or "events"
    pos,        \* the place of each row in the ordered result; 0: not yet in
                \* it, -1: it was and does not come back (a bound)
    len,        \* how many rows it has
    walk,       \* where the client's walk is
    page,       \* the page it asks for
    total,      \* the count in the answer being made
    seen,       \* the rows it was shown
    repeats,    \* history: how often it was shown a row again
    start,      \* history: the rows there were when it began
    gap,        \* history: rows inserted since the last COUNT
    inserts,    \* history: rows inserted since the first page
    disturbed   \* history: a row left or changed its place meanwhile

rowVars == <<listing, pos, len>>
walkVars == <<walk, page, total, seen, repeats, start, gap, inserts, disturbed>>
listingVars == <<rowVars, walkVars>>

ListingTypeOK ==
    /\ listing \in {"orders", "events"}
    /\ pos \in [Items -> Nat \cup {-1}] /\ len \in Nat
    /\ walk \in {"off", "ready", "counted", "done"}
    /\ page \in Nat \ {0} /\ total \in Nat
    /\ seen \subseteq Items /\ start \subseteq Items
    /\ repeats \in Nat /\ gap \in Nat /\ inserts \in Nat
    /\ disturbed \in BOOLEAN

ListingInit ==
    /\ listing \in {"orders", "events"}
    /\ pos = [i \in Items |-> 0] /\ len = 0
    /\ walk = "off" /\ page = 1 /\ total = 0
    /\ seen = {} /\ repeats = 0 /\ start = {}
    /\ gap = 0 /\ inserts = 0 /\ disturbed = FALSE

-----------------------------------------------------------------------------
(* The table *)

InsertAt(f, i, p) ==
    [j \in Items |-> IF j = i THEN p ELSE IF f[j] >= p THEN f[j] + 1 ELSE f[j]]

RemoveFrom(f, i) ==
    [j \in Items |-> IF j = i THEN -1 ELSE IF f[j] > f[i] THEN f[j] - 1 ELSE f[j]]

(* An event goes where its starts_at puts it.  So does an order: created_at
   is when its transaction began, and a later one may have committed before. *)
Insert(i) ==
    /\ pos[i] = 0
    /\ \E p \in 1..(len + 1) : pos' = InsertAt(pos, i, p)
    /\ len' = len + 1
    /\ gap' = IF walk = "counted" THEN gap + 1 ELSE gap
    /\ inserts' = IF page > 1 THEN inserts + 1 ELSE inserts
    /\ UNCHANGED <<listing, walk, page, total, seen, repeats, start, disturbed>>

(* An event is deleted, or an update takes it out of the filter. *)
Remove(i) ==
    /\ listing = "events" /\ pos[i] > 0
    /\ pos' = RemoveFrom(pos, i)
    /\ len' = len - 1
    /\ disturbed' = (disturbed \/ walk # "off")
    /\ UNCHANGED <<listing, walk, page, total, seen, repeats, start, gap, inserts>>

(* An update of starts_at moves an event; events with one starts_at have no
   order of their own and may change places between two queries.           *)
Move(i) ==
    /\ listing = "events" /\ pos[i] > 0
    /\ \E p \in 1..len : pos' = InsertAt(RemoveFrom(pos, i), i, p)
    /\ disturbed' = (disturbed \/ walk # "off")
    /\ UNCHANGED <<listing, len, walk, page, total, seen, repeats, start, gap, inserts>>

-----------------------------------------------------------------------------
(* PaginationParams and Page *)

offset(p) == (p - 1) * page_size

(* Mutant: a page that is not full is not counted. *)
full_pages(n) == n \div page_size

total_pages(n) == (n + page_size - 1) \div page_size

Begin ==
    /\ walk = "off"
    /\ walk' = "ready"
    /\ start' = {i \in Items : pos[i] > 0}
    /\ UNCHANGED <<rowVars, page, total, seen, repeats, gap, inserts, disturbed>>

(* Mutant: the number of the last row, from 0. *)
LastRow == len - 1

(* SELECT count( * ) *)
SelectCount == len

Count ==
    /\ walk = "ready"
    /\ walk' = "counted"
    /\ total' = SelectCount
    /\ gap' = 0
    /\ UNCHANGED <<rowVars, page, seen, repeats, start, inserts, disturbed>>

(* Mutant: rows counted from 0. *)
PageItemsFromZero ==
    {i \in Items : offset(page) <= pos[i] /\ pos[i] <= offset(page) + page_size}

(* SELECT ... LIMIT page_size OFFSET offset *)
PageItems == {i \in Items : offset(page) < pos[i] /\ pos[i] <= offset(page) + page_size}

(* The page query and the answer; the client goes on to the next page until
   it has had the last one the answer's total tells of.                    *)
Fetch ==
    /\ walk = "counted"
    /\ seen' = seen \cup PageItems
    /\ repeats' = repeats + Cardinality(seen \cap PageItems)
    /\ \/ page < total_pages(total) /\ page' = page + 1 /\ walk' = "ready"
       \/ page >= total_pages(total) /\ page' = page /\ walk' = "done"
    /\ UNCHANGED <<rowVars, total, start, gap, inserts, disturbed>>

ListingNext ==
    \/ \E i \in Items : Insert(i) \/ Remove(i) \/ Move(i)
    \/ Begin \/ Count \/ Fetch

ListingSpec == ListingInit /\ [][ListingNext]_listingVars

-----------------------------------------------------------------------------
(* A walk shows every row that was there from the start, although new rows
   push it from page to page; it can only miss as many as were inserted
   between the COUNT and the page query of its last answer.  (No row left
   or changed its place: always so for orders.)                            *)
WalkCovers ==
    walk = "done" /\ ~disturbed => Cardinality(start \ seen) <= gap

(* Each row that is shown again costs one insertion during the walk. *)
RepeatsCostInserts == ~disturbed => repeats <= inserts

=============================================================================
