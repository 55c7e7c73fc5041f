------------------------------ MODULE Pagination ------------------------------
(***************************************************************************)
(* A client walks through a list page by page, handing back the cursor of  *)
(* each page, while others insert, change and deactivate rows and pages    *)
(* come from the response cache.  Every list is ordered by a sort key and  *)
(* the id, and a cursor is the key and id of the last row of a page.       *)
(*                                                                         *)
(* How old a cached page may be is the subject of ReadCache and            *)
(* ListFilters; here a page may come from any version that has not expired *)
(* yet, whatever version the page before came from.                        *)
(***************************************************************************)
EXTENDS Naturals, FiniteSets

CONSTANTS
    K,             \* rows there may be; their ids are 1..K
    MaxKey,        \* bound: sort keys are 0..MaxKey
    PageSize,      \* page_size
    MaxChanges,    \* bound: changes by others
    Endpoints      \* the lists a client may ask for

AllEndpoints == {"search", "ranked", "nearby", "map", "classifications", "mappings"}

ASSUME PaginationAssumption ==
    /\ K \in Nat /\ MaxKey \in Nat /\ MaxChanges \in Nat
    /\ PageSize \in Nat \ {0}
    /\ Endpoints \subseteq AllEndpoints

Items == 1..K
Keys  == 0..MaxKey

\* there: the row exists, is active and passes the filters; sort: its name, its
\* rank, its distance or its category and value.
Row     == [there : BOOLEAN, sort : Keys]
Version == [Items -> Row]

VARIABLES
    rows,      \* the committed version
    past,      \* earlier versions that cached pages may show
    changes,   \* changes so far
    walk       \* the client

vars == <<rows, past, changes, walk>>

Position == [key : Keys, id : 0..K]
Origin == [key |-> 0, id |-> 0]     \* no cursor: in front of every row

\* seen: how often the client has been given a row (2: more than once); total:
\* what the first page said (ghosts: steady, rows that have not changed in any
\* version the client may have met; quiet, there was only one version)
Walk == [at : {"none", "asking", "over", "refused"}, endpoint : AllEndpoints,
         cursor : Position, first : BOOLEAN, total : 0..K,
         seen : [Items -> 0..2], steady : SUBSET Items, quiet : BOOLEAN]

Nobody == [at |-> "none", endpoint |-> "search", cursor |-> Origin, first |-> TRUE,
           total |-> 0, seen |-> [i \in Items |-> 0], steady |-> {}, quiet |-> FALSE]

Matching(v) == {i \in Items : v[i].there}

Init ==
    /\ rows \in Version
    /\ past = {}
    /\ changes = 0
    /\ walk = Nobody

------------------------------------------------------------------------------
(* One page *)

\* ORDER BY: the map and the mappings by id alone, ranks descending.
KeyOf(e, row) == IF e \in {"map", "mappings"} THEN 0
                 ELSE IF e = "ranked" THEN MaxKey - row.sort
                 ELSE row.sort
PositionOf(e, v, i) == [key |-> KeyOf(e, v[i]), id |-> i]

\* The cursor filter, and the order: key, then id.
Precedes(p, q) == \/ p.key < q.key
                  \/ p.key = q.key /\ p.id < q.id

\* Mutant of Rest: the cursor is decoded and its filter forgotten.
RestOfAll(e, v, c) == Matching(v)

\* What the cursor leaves.
Rest(e, v, c) == {i \in Matching(v) : Precedes(c, PositionOf(e, v, i))}

Earlier(e, v, some, i) == {j \in some : Precedes(PositionOf(e, v, j), PositionOf(e, v, i))}

\* LIMIT page_size + 1, of which the last one is only looked at.
Page(e, v, rest) == {i \in rest : Cardinality(Earlier(e, v, rest, i)) < PageSize}

\* Mutant of NextCursor: the cursor is the first row of the page.
NextCursorOfFirst(e, v, page, c) ==
    \E i \in page : /\ Earlier(e, v, page, i) = {}
                    /\ c = PositionOf(e, v, i)

\* encode_cursor of the last row.
NextCursor(e, v, page, c) ==
    \E i \in page : /\ \A j \in page \ {i} : Precedes(PositionOf(e, v, j), PositionOf(e, v, i))
                    /\ c = PositionOf(e, v, i)

Given(n) == IF n = 0 THEN 1 ELSE 2

\* The page of version v, with counted as its total; without more rows there is
\* no cursor and the walk is over.
Serve(e, v, counted) ==
    LET rest == Rest(e, v, walk.cursor)
        page == Page(e, v, rest)
        next == [walk EXCEPT
                   !.seen = [i \in Items |-> IF i \in page THEN Given(@[i]) ELSE @[i]],
                   !.first = FALSE,
                   !.total = IF walk.first THEN Cardinality(counted) ELSE @]
    IN
    /\ walk.at = "asking"
    /\ walk.endpoint = e
    /\ \/ /\ rest # page
          /\ \E c \in Position : /\ NextCursor(e, v, page, c)
                                 /\ walk' = [next EXCEPT !.cursor = c]
       \/ /\ rest = page
          /\ walk' = [next EXCEPT !.at = "over"]
    /\ UNCHANGED <<rows, past, changes>>

------------------------------------------------------------------------------
(* The lists.  COUNT( * ) OVER () stands beside the cursor filter and counts  *)
(* what the cursor leaves, or inside of it and counts everything.             *)

Cached == {rows} \union past

SearchPage == \E v \in Cached : Serve("search", v, Rest("search", v, walk.cursor))

\* With q: the rank is computed and counted in a subquery.
RankedPage == \E v \in Cached : Serve("ranked", v, Matching(v))

\* Mutant of NearbyPage: the total is the length of the page.
NearbyPageCounted == \E v \in Cached :
    Serve("nearby", v, Page("nearby", v, Rest("nearby", v, walk.cursor)))

NearbyPage == \E v \in Cached : Serve("nearby", v, Rest("nearby", v, walk.cursor))

MapPage == \E v \in Cached : Serve("map", v, Rest("map", v, walk.cursor))

ClassificationsPage == \E v \in Cached :
    Serve("classifications", v, Rest("classifications", v, walk.cursor))

\* The admin page: not cached, counted by a statement of its own.
MappingsPage == Serve("mappings", rows, Matching(rows))

NextPage == \/ SearchPage \/ RankedPage \/ NearbyPage \/ MapPage
            \/ ClassificationsPage \/ MappingsPage

------------------------------------------------------------------------------
(* The client and everybody else *)

\* Mutant of Begin: the cursor of the walk before is not thrown away.
BeginWithCursor(e) ==
    /\ walk.at # "asking"
    /\ walk' = [Nobody EXCEPT !.at = "asking", !.endpoint = e, !.cursor = walk.cursor,
                  !.steady = {i \in Matching(rows) : \A v \in past : v[i] = rows[i]},
                  !.quiet = (past = {})]
    /\ UNCHANGED <<rows, past, changes>>

\* A client asks for a first page.
Begin(e) ==
    /\ walk.at # "asking"
    /\ walk' = [Nobody EXCEPT !.at = "asking", !.endpoint = e,
                  !.steady = {i \in Matching(rows) : \A v \in past : v[i] = rows[i]},
                  !.quiet = (past = {})]
    /\ UNCHANGED <<rows, past, changes>>

\* decode_cursor, or the endpoint, refuses a cursor that is not one, or that was
\* made for another list.
BadCursor ==
    /\ walk.at = "asking" /\ ~walk.first
    /\ walk.endpoint # "mappings"
    /\ walk' = [walk EXCEPT !.at = "refused"]
    /\ UNCHANGED <<rows, past, changes>>

\* A row is inserted, deactivated, or gets another key.
Change(i, row) ==
    /\ changes < MaxChanges
    /\ row # rows[i]
    /\ rows' = [rows EXCEPT ![i] = row]
    /\ past' = past \union {rows}
    /\ changes' = changes + 1
    /\ walk' = [walk EXCEPT !.steady = @ \ {i}, !.quiet = FALSE]

\* The last page of an earlier version expires.
Expire(v) ==
    /\ past' = past \ {v}
    /\ UNCHANGED <<rows, changes, walk>>

Next == \/ NextPage \/ BadCursor
        \/ \E e \in Endpoints : Begin(e)
        \/ \E i \in Items, row \in Row : Change(i, row)
        \/ \E v \in past : Expire(v)

Spec == Init /\ [][Next]_vars

\* A client that has begun goes on; nobody has to change anything.
FairSpec == Spec /\ WF_vars(NextPage)

------------------------------------------------------------------------------
(* Properties *)

\* Every variable stays in its type, and from its second page on a walk has a
\* cursor.
TypeOK ==
    /\ rows \in Version
    /\ past \in SUBSET Version
    /\ changes \in 0..MaxChanges
    /\ walk \in Walk
    /\ walk.at = "asking" => (walk.first <=> walk.cursor = Origin)

\* A walk that ends has been given every row that was there all along, with the
\* same key, exactly once, whatever happened to the other rows and whichever
\* versions its pages came from; and no such row twice before.
SteadyOnce == \A i \in walk.steady :
    /\ walk.seen[i] <= 1
    /\ walk.at = "over" => walk.seen[i] = 1

\* If nothing changes, the total of the first page is the number of rows the
\* whole walk gives.
TotalIsRight ==
    walk.at = "over" /\ walk.quiet =>
      walk.total = Cardinality({i \in Items : walk.seen[i] = 1})

\* Every page moves the cursor on, a page from an old version too.
CursorAdvances ==
    [][NextPage /\ walk'.at = "asking" => Precedes(walk.cursor, walk'.cursor)]_vars

\* And so a walk ends, even if rows are inserted behind the cursor for ever or
\* keep moving.
EveryWalkEnds == (walk.at = "asking") ~> (walk.at # "asking")
==============================================================================
