--------------------------- MODULE PaginationProofs ---------------------------
(***************************************************************************)
(* Theorems about Pagination, for any number of rows, any sort keys, any   *)
(* page size and any number of changes.                                    *)
(***************************************************************************)
EXTENDS Pagination, FiniteSetTheorems, TLAPS

\* The row lies in front of what is still to come.
Reached(w, v, i) == ~Precedes(w.cursor, PositionOf(w.endpoint, v, i))

\* A steady row is the same in every version, and the client has been given it
\* once it is reached.
SteadyRow(w, v, old, i) ==
    /\ i \in Items
    /\ v[i].there
    /\ \A u \in old : u[i] = v[i]
    /\ w.at = "asking" => w.seen[i] = IF Reached(w, v, i) THEN 1 ELSE 0
    /\ w.at = "over" => w.seen[i] = 1
    /\ w.seen[i] <= 1

\* With one version all rows are steady, no other row is given, and the total of
\* the first page counts them.
QuietWalk(w, v, old) ==
    /\ old = {}
    /\ w.steady = Matching(v)
    /\ w.at \in {"asking", "over"} =>
         /\ \A i \in Items \ Matching(v) : w.seen[i] = 0
         /\ ~w.first => w.total = Cardinality(Matching(v))
         /\ w.at = "over" => ~w.first

GoodWalk(w, v, old) ==
    /\ w \in Walk
    /\ w.at = "asking" => (w.first <=> w.cursor = Origin)
    /\ \A i \in w.steady : SteadyRow(w, v, old, i)
    /\ w.quiet => QuietWalk(w, v, old)

PageInv ==
    /\ rows \in Version
    /\ past \in SUBSET Version
    /\ changes \in 0..MaxChanges
    /\ GoodWalk(walk, rows, past)

------------------------------------------------------------------------------
(* Positions *)

LEMMA PositionType ==
    ASSUME NEW e, NEW v \in Version, NEW i \in Items
    PROVE  /\ PositionOf(e, v, i) \in Position
           /\ PositionOf(e, v, i).id = i
           /\ Precedes(Origin, PositionOf(e, v, i))
  <1>1. v[i].sort \in Keys  BY DEF Version, Row
  <1>2. KeyOf(e, v[i]) \in Keys
    BY <1>1, PaginationAssumption DEF KeyOf, Keys
  <1>3. i \in 1..K /\ i \in 0..K  BY PaginationAssumption DEF Items
  <1> QED  BY <1>2, <1>3, PaginationAssumption DEF PositionOf, Position, Precedes, Origin, Keys

\* Positions are ordered totally.
LEMMA PrecedesOrder ==
    ASSUME NEW p \in Position, NEW q \in Position, NEW r \in Position
    PROVE  /\ ~Precedes(p, p)
           /\ Precedes(p, q) /\ Precedes(q, r) => Precedes(p, r)
           /\ Precedes(p, q) \/ Precedes(q, p) \/ p = q
           /\ ~(Precedes(p, q) /\ Precedes(q, p))
  BY PaginationAssumption DEF Precedes, Position, Keys

LEMMA SetsOfRows ==
    ASSUME NEW S \in SUBSET Items
    PROVE  /\ IsFiniteSet(S)
           /\ Cardinality(S) \in 0..K
  <1>1. IsFiniteSet(1..K) /\ Cardinality(1..K) = IF 1 > K THEN 0 ELSE K - 1 + 1
    BY FS_Interval, PaginationAssumption
  <1>2. IsFiniteSet(S) /\ Cardinality(S) <= Cardinality(1..K)
    BY <1>1, FS_Subset DEF Items
  <1>3. Cardinality(S) \in Nat  BY <1>2, FS_CardinalityType
  <1> QED  BY <1>1, <1>2, <1>3, PaginationAssumption

LEMMA PageOfRest ==
    ASSUME NEW e, NEW v \in Version, NEW c \in Position
    PROVE  /\ Rest(e, v, c) \subseteq Matching(v)
           /\ Matching(v) \subseteq Items
           /\ Page(e, v, Rest(e, v, c)) \subseteq Rest(e, v, c)
           /\ Rest(e, v, Origin) = Matching(v)
  BY PositionType DEF Rest, Matching, Page

\* A page is the beginning of what the cursor leaves.
LEMMA PageIsPrefix ==
    ASSUME NEW e, NEW v \in Version, NEW rest \in SUBSET Items,
           NEW i \in Page(e, v, rest), NEW j \in rest \ Page(e, v, rest)
    PROVE  Precedes(PositionOf(e, v, i), PositionOf(e, v, j))
  <1>1. i \in Items /\ j \in Items /\ i # j  BY DEF Page
  <1> DEFINE pi == PositionOf(e, v, i)
             pj == PositionOf(e, v, j)
  <1>2. pi \in Position /\ pj \in Position /\ pi.id = i /\ pj.id = j
    BY <1>1, PositionType
  <1>3. SUFFICES ASSUME Precedes(pj, pi) PROVE FALSE
    BY <1>1, <1>2, PrecedesOrder
  <1>4. Earlier(e, v, rest, j) \subseteq Earlier(e, v, rest, i)
    <2> SUFFICES ASSUME NEW k \in Earlier(e, v, rest, j)
                 PROVE  k \in Earlier(e, v, rest, i)
      OBVIOUS
    <2>1. k \in Items /\ k \in rest /\ Precedes(PositionOf(e, v, k), pj)  BY DEF Earlier
    <2>2. PositionOf(e, v, k) \in Position  BY <2>1, PositionType
    <2> QED  BY <2>1, <2>2, <1>2, <1>3, PrecedesOrder DEF Earlier
  <1>5. Earlier(e, v, rest, i) \in SUBSET Items /\ Earlier(e, v, rest, j) \in SUBSET Items
    BY DEF Earlier
  <1>6. /\ IsFiniteSet(Earlier(e, v, rest, i))
        /\ Cardinality(Earlier(e, v, rest, i)) \in Nat
        /\ Cardinality(Earlier(e, v, rest, j)) \in Nat
    BY <1>5, SetsOfRows, PaginationAssumption
  <1>7. Cardinality(Earlier(e, v, rest, j)) <= Cardinality(Earlier(e, v, rest, i))
    BY <1>4, <1>6, FS_Subset
  <1>8. Cardinality(Earlier(e, v, rest, i)) < PageSize
        /\ ~(Cardinality(Earlier(e, v, rest, j)) < PageSize)
    BY DEF Page
  <1> QED  BY <1>6, <1>7, <1>8, PaginationAssumption

------------------------------------------------------------------------------
(* A page that is served *)

\* What Serve makes of the walk w, without the rest of the action.
Served(w, w1, e, v, counted) ==
    LET rest == Rest(e, v, w.cursor)
        page == Page(e, v, rest)
        next == [w EXCEPT
                   !.seen = [i \in Items |-> IF i \in page THEN Given(@[i]) ELSE @[i]],
                   !.first = FALSE,
                   !.total = IF w.first THEN Cardinality(counted) ELSE @]
    IN
    \/ /\ rest # page
       /\ \E c \in Position : /\ NextCursor(e, v, page, c)
                              /\ w1 = [next EXCEPT !.cursor = c]
    \/ /\ rest = page
       /\ w1 = [next EXCEPT !.at = "over"]

LEMMA ServedWalk ==
    ASSUME NEW old \in SUBSET Version, NEW cur \in Version,
           NEW v \in {cur} \union old,
           NEW w \in Walk, GoodWalk(w, cur, old), w.at = "asking",
           NEW counted \in {Rest(w.endpoint, v, w.cursor), Matching(v)},
           NEW w1, Served(w, w1, w.endpoint, v, counted)
    PROVE  /\ GoodWalk(w1, cur, old)
           /\ w1.at = "asking" => Precedes(w.cursor, w1.cursor)
  <1> DEFINE e    == w.endpoint
             rest == Rest(e, v, w.cursor)
             page == Page(e, v, rest)
             pos(i) == PositionOf(e, v, i)
             now(i) == PositionOf(e, cur, i)
  <1>1. v \in Version /\ w.cursor \in Position  BY DEF Walk
  <1>2. page \subseteq rest /\ rest \subseteq Matching(v) /\ Matching(v) \subseteq Items
    BY <1>1, PageOfRest
  <1>3. Cardinality(counted) \in 0..K
    BY <1>2, SetsOfRows
  <1>4. PICK seen1 : seen1 = [i \in Items |-> IF i \in page THEN Given(w.seen[i]) ELSE w.seen[i]]
    OBVIOUS
  <1>5. seen1 \in [Items -> 0..2]
    BY <1>4 DEF Given, Walk
  <1>6. PICK total1 : total1 = IF w.first THEN Cardinality(counted) ELSE w.total
    OBVIOUS
  <1>7. total1 \in 0..K  BY <1>6, <1>3 DEF Walk
  <1>8. ASSUME NEW i \in w.steady
        PROVE  /\ i \in Items /\ cur[i].there /\ v[i] = cur[i]
               /\ \A u \in old : u[i] = cur[i]
               /\ pos(i) = now(i) /\ pos(i) \in Position
               /\ i \in rest <=> Precedes(w.cursor, pos(i))
               /\ w.seen[i] = IF i \in rest THEN 0 ELSE 1
               /\ seen1[i] = IF i \in page \/ i \notin rest THEN 1 ELSE 0
    <2>1. /\ i \in Items /\ cur[i].there /\ \A u \in old : u[i] = cur[i]
          /\ w.seen[i] = IF Reached(w, cur, i) THEN 1 ELSE 0
      BY DEF GoodWalk, SteadyRow
    <2>2. v[i] = cur[i]  BY <2>1
    <2>3. pos(i) = now(i)  BY <2>2 DEF PositionOf
    <2>4. pos(i) \in Position  BY <2>1, <1>1, PositionType
    <2>5. i \in rest <=> Precedes(w.cursor, pos(i))
      BY <2>1, <2>2 DEF Rest, Matching
    <2>6. w.seen[i] = IF i \in rest THEN 0 ELSE 1
      BY <2>1, <2>3, <2>5 DEF Reached
    <2>7. seen1[i] = IF i \in page \/ i \notin rest THEN 1 ELSE 0
      BY <2>1, <2>6, <1>4, <1>2 DEF Given
    <2> QED  BY <2>1, <2>2, <2>3, <2>4, <2>5, <2>6, <2>7
  <1>9. w.quiet =>
          /\ old = {} /\ w.steady = Matching(cur)
          /\ \A i \in Items \ Matching(cur) : seen1[i] = 0
          /\ total1 = Cardinality(Matching(cur))
    <2> SUFFICES ASSUME w.quiet
                 PROVE  /\ old = {} /\ w.steady = Matching(cur)
                        /\ \A i \in Items \ Matching(cur) : seen1[i] = 0
                        /\ total1 = Cardinality(Matching(cur))
      OBVIOUS
    <2>1. QuietWalk(w, cur, old)  BY DEF GoodWalk
    <2>2. old = {} /\ v = cur /\ w.steady = Matching(cur)  BY <2>1 DEF QuietWalk
    <2>3. \A i \in Items \ Matching(cur) : w.seen[i] = 0  BY <2>1 DEF QuietWalk
    <2>4. \A i \in Items \ Matching(cur) : seen1[i] = 0
      BY <2>2, <2>3, <1>2, <1>4
    <2>5. CASE w.first
      <3>1. w.cursor = Origin  BY <2>5 DEF GoodWalk
      <3>2. counted = Matching(cur)  BY <3>1, <2>2, <1>1, PageOfRest
      <3> QED  BY <2>2, <2>4, <2>5, <3>2, <1>6
    <2>6. CASE ~w.first
      BY <2>1, <2>2, <2>4, <2>6, <1>6 DEF QuietWalk
    <2> QED  BY <2>5, <2>6
  <1>10. CASE rest = page /\ w1 = [w EXCEPT !.seen = seen1, !.first = FALSE,
                                           !.total = total1, !.at = "over"]
    <2>1. w1 \in Walk  BY <1>10, <1>5, <1>7 DEF Walk
    <2>2. w1.at = "over" /\ w1.steady = w.steady /\ w1.seen = seen1 /\ ~w1.first
          /\ w1.total = total1 /\ w1.quiet = w.quiet
      BY <1>10 DEF Walk
    <2>3. \A i \in w1.steady : SteadyRow(w1, cur, old, i)
      BY <1>8, <1>10, <2>2 DEF SteadyRow
    <2>4. w1.quiet => QuietWalk(w1, cur, old)
      BY <1>9, <2>2 DEF QuietWalk
    <2> QED  BY <2>1, <2>2, <2>3, <2>4 DEF GoodWalk
  <1>11. ASSUME rest # page, NEW c \in Position, NextCursor(e, v, page, c),
                w1 = [w EXCEPT !.seen = seen1, !.first = FALSE, !.total = total1, !.cursor = c]
         PROVE  GoodWalk(w1, cur, old) /\ Precedes(w.cursor, w1.cursor)
    <2>1. PICK last \in page :
              /\ \A j \in page \ {last} : Precedes(pos(j), pos(last))
              /\ c = pos(last)
      BY <1>11 DEF NextCursor
    <2>2. Precedes(w.cursor, c)  BY <2>1, <1>2 DEF Rest
    <2>3. c # Origin
      BY <2>1, <1>1, <1>2, PositionType, PrecedesOrder
    <2>4. w1 \in Walk  BY <1>11, <1>5, <1>7 DEF Walk
    <2>5. w1.at = "asking" /\ w1.steady = w.steady /\ w1.seen = seen1 /\ ~w1.first
          /\ w1.total = total1 /\ w1.quiet = w.quiet /\ w1.cursor = c /\ w1.endpoint = e
      BY <1>11 DEF Walk
    <2>6. ASSUME NEW i \in w.steady  PROVE SteadyRow(w1, cur, old, i)
      <3>1. Precedes(c, pos(i)) <=> i \in rest \ page
        <4>1. CASE i \in page
          <5>1. i = last \/ Precedes(pos(i), c)  BY <4>1, <2>1
          <5> QED  BY <4>1, <5>1, <2>1, <1>8, PrecedesOrder
        <4>2. CASE i \in rest \ page
          BY <4>2, <2>1, <1>1, <1>2, PageIsPrefix
        <4>3. CASE i \notin rest
          BY <4>3, <2>2, <1>1, <1>2, <1>8, PrecedesOrder
        <4> QED  BY <4>1, <4>2, <4>3
      <3>2. Reached(w1, cur, i) <=> ~(i \in rest \ page)
        BY <3>1, <2>5, <1>8 DEF Reached
      <3> QED  BY <3>2, <2>5, <1>8, <1>2 DEF SteadyRow
    <2>7. w1.quiet => QuietWalk(w1, cur, old)
      BY <1>9, <2>5 DEF QuietWalk
    <2> QED  BY <2>2, <2>3, <2>4, <2>5, <2>6, <2>7 DEF GoodWalk
  <1>12. \/ rest = page /\ w1 = [w EXCEPT !.seen = seen1, !.first = FALSE,
                                           !.total = total1, !.at = "over"]
         \/ /\ rest # page
            /\ \E c \in Position : /\ NextCursor(e, v, page, c)
                                   /\ w1 = [w EXCEPT !.seen = seen1, !.first = FALSE,
                                                     !.total = total1, !.cursor = c]
    BY <1>4, <1>6 DEF Served, Walk
  <1>13. CASE rest = page /\ w1 = [w EXCEPT !.seen = seen1, !.first = FALSE,
                                           !.total = total1, !.at = "over"]
    BY <1>10, <1>13 DEF Walk
  <1> QED  BY <1>11, <1>12, <1>13

------------------------------------------------------------------------------
(* The invariant *)

LEMMA NobodyType == Nobody \in Walk
  BY PaginationAssumption DEF Nobody, Walk, Position, Origin, Keys, AllEndpoints

LEMMA InitWalk == Init => PageInv
  <1> SUFFICES ASSUME Init PROVE PageInv
    OBVIOUS
  <1>1. Nobody \in Walk  BY NobodyType
  <1> QED  BY <1>1, PaginationAssumption DEF Init, PageInv, GoodWalk, Nobody

\* Every list serves a page of some version, counted in one of two ways.
LEMMA PageIsServed ==
    ASSUME rows \in Version, past \in SUBSET Version, NextPage
    PROVE  /\ UNCHANGED <<rows, past, changes>>
           /\ walk.at = "asking"
           /\ \E v \in {rows} \union past :
                \E counted \in {Rest(walk.endpoint, v, walk.cursor), Matching(v)} :
                  Served(walk, walk', walk.endpoint, v, counted)
  <1> DEFINE Of(e, v) == Serve(e, v, Rest(e, v, walk.cursor)) \/ Serve(e, v, Matching(v))
  <1>1. \E e \in AllEndpoints : \E v \in {rows} \union past : Of(e, v)
    <2>1. CASE SearchPage  BY <2>1 DEF SearchPage, Cached, AllEndpoints
    <2>2. CASE RankedPage  BY <2>2 DEF RankedPage, Cached, AllEndpoints
    <2>3. CASE NearbyPage  BY <2>3 DEF NearbyPage, Cached, AllEndpoints
    <2>4. CASE MapPage  BY <2>4 DEF MapPage, Cached, AllEndpoints
    <2>5. CASE ClassificationsPage  BY <2>5 DEF ClassificationsPage, Cached, AllEndpoints
    <2>6. CASE MappingsPage  BY <2>6 DEF MappingsPage, AllEndpoints
    <2> QED  BY <2>1, <2>2, <2>3, <2>4, <2>5, <2>6 DEF NextPage
  <1>2. PICK e \in AllEndpoints : \E v \in {rows} \union past : Of(e, v)
    BY <1>1
  <1>3. PICK v \in {rows} \union past : Of(e, v)
    BY <1>2
  <1>4. PICK counted \in {Rest(e, v, walk.cursor), Matching(v)} : Serve(e, v, counted)
    BY <1>3
  <1>5. e = walk.endpoint /\ walk.at = "asking" /\ UNCHANGED <<rows, past, changes>>
    BY <1>4 DEF Serve
  <1>6. Served(walk, walk', e, v, counted)  BY <1>4 DEF Serve, Served
  <1> QED  BY <1>3, <1>4, <1>5, <1>6

LEMMA BeginStep ==
    ASSUME PageInv, NEW e \in Endpoints, Begin(e)  PROVE PageInv'
  <1> DEFINE w == walk'
  <1>a. PICK st \in SUBSET Items : st = {i \in Matching(rows) : \A v \in past : v[i] = rows[i]}
    BY DEF Matching
  <1>b. PICK q \in BOOLEAN : q = (past = {})
    OBVIOUS
  <1>c. w = [Nobody EXCEPT !.at = "asking", !.endpoint = e, !.steady = st, !.quiet = q]
    <2>1. w = [Nobody EXCEPT !.at = "asking", !.endpoint = e, !.steady = st,
                             !.quiet = (past = {})]
      BY <1>a, Zenon DEF Begin
    <2> QED  BY <2>1, <1>b, Zenon
  <1>1. /\ w.at = "asking" /\ w.endpoint = e /\ w.cursor = Origin /\ w.first
        /\ w.seen = [i \in Items |-> 0] /\ w.steady = st /\ w.quiet = q
    BY <1>c DEF Nobody
  <1>2. w \in Walk
    <2>1. Nobody \in Walk  BY NobodyType
    <2>2. e \in AllEndpoints  BY PaginationAssumption
    <2> QED  BY <1>c, <2>1, <2>2 DEF Walk
  <1>3. rows' = rows /\ past' = past /\ changes' = changes  BY DEF Begin
  <1>4. ASSUME NEW i \in w.steady  PROVE SteadyRow(w, rows, past, i)
    <2>1. i \in Items /\ rows[i].there /\ \A v \in past : v[i] = rows[i]
      BY <1>1, <1>a DEF Matching
    <2>2. Precedes(Origin, PositionOf(e, rows, i))  BY <2>1, PositionType DEF PageInv
    <2> QED  BY <1>1, <2>1, <2>2 DEF SteadyRow, Reached
  <1>5. w.quiet => QuietWalk(w, rows, past)
    <2> SUFFICES ASSUME w.quiet PROVE QuietWalk(w, rows, past)
      OBVIOUS
    <2>1. past = {}  BY <1>1, <1>b
    <2>2. w.steady = Matching(rows)  BY <2>1, <1>1, <1>a
    <2> QED  BY <2>1, <2>2, <1>1 DEF QuietWalk
  <1> QED  BY <1>1, <1>2, <1>3, <1>4, <1>5 DEF PageInv, GoodWalk

LEMMA ChangeStep ==
    ASSUME PageInv, NEW j \in Items, NEW row \in Row, Change(j, row)  PROVE PageInv'
  <1> DEFINE w == walk'
  <1>0. walk \in Walk  BY DEF PageInv, GoodWalk
  <1>1. w = [walk EXCEPT !.steady = walk.steady \ {j}, !.quiet = FALSE]
    BY DEF Change
  <1>2. /\ w \in Walk /\ ~w.quiet /\ w.steady = walk.steady \ {j}
        /\ w.at = walk.at /\ w.first = walk.first /\ w.cursor = walk.cursor
        /\ w.endpoint = walk.endpoint /\ w.seen = walk.seen
    BY <1>0, <1>1 DEF Walk
  <1>3. /\ rows' \in Version /\ past' \in SUBSET Version
        /\ changes' \in 0..MaxChanges
    BY PaginationAssumption DEF Change, PageInv, Version
  <1>4. ASSUME NEW i \in w.steady  PROVE SteadyRow(w, rows', past', i)
    <2>1. i \in walk.steady /\ i # j /\ SteadyRow(walk, rows, past, i)
      BY <1>2 DEF PageInv, GoodWalk
    <2>2. i \in Items /\ rows'[i] = rows[i]
      BY <2>1 DEF Change, PageInv, Version, SteadyRow
    <2>3. \A u \in past' : u[i] = rows'[i]
      BY <2>1, <2>2 DEF Change, SteadyRow
    <2>4. PositionOf(w.endpoint, rows', i) = PositionOf(walk.endpoint, rows, i)
      BY <2>2, <1>2 DEF PositionOf
    <2> QED  BY <2>1, <2>2, <2>3, <2>4, <1>2 DEF SteadyRow, Reached
  <1> QED  BY <1>2, <1>3, <1>4 DEF PageInv, GoodWalk

LEMMA RefusedStep == ASSUME PageInv, BadCursor  PROVE PageInv'
  <1>0. walk \in Walk  BY DEF PageInv, GoodWalk
  <1>1. /\ walk' \in Walk /\ walk'.at = "refused" /\ walk'.steady = walk.steady
        /\ walk'.quiet = walk.quiet /\ walk'.seen = walk.seen
    BY <1>0 DEF BadCursor, Walk
  <1>2. \A i \in walk'.steady : SteadyRow(walk', rows, past, i)
    BY <1>1 DEF PageInv, GoodWalk, SteadyRow
  <1>3. walk'.quiet => QuietWalk(walk', rows, past)
    BY <1>1 DEF PageInv, GoodWalk, QuietWalk
  <1> QED  BY <1>1, <1>2, <1>3 DEF BadCursor, PageInv, GoodWalk

LEMMA ExpireStep == ASSUME PageInv, NEW v \in past, Expire(v)  PROVE PageInv'
  <1>1. \A i \in walk.steady : SteadyRow(walk, rows, past', i)
    BY DEF Expire, PageInv, GoodWalk, SteadyRow
  <1>2. walk.quiet => QuietWalk(walk, rows, past')
    BY DEF Expire, PageInv, GoodWalk, QuietWalk
  <1> QED  BY <1>1, <1>2 DEF Expire, PageInv, GoodWalk

LEMMA PageStep == ASSUME PageInv, NextPage
                  PROVE  /\ PageInv'
                         /\ walk'.at = "asking" => Precedes(walk.cursor, walk'.cursor)
  <1>1. rows \in Version /\ past \in SUBSET Version /\ walk \in Walk
        /\ GoodWalk(walk, rows, past)
    BY DEF PageInv, GoodWalk
  <1>2. PICK v \in {rows} \union past :
          \E counted \in {Rest(walk.endpoint, v, walk.cursor), Matching(v)} :
             Served(walk, walk', walk.endpoint, v, counted)
    BY <1>1, PageIsServed
  <1>3. PICK counted \in {Rest(walk.endpoint, v, walk.cursor), Matching(v)} :
             Served(walk, walk', walk.endpoint, v, counted)
    BY <1>2
  <1>4. walk.at = "asking" /\ rows' = rows /\ past' = past /\ changes' = changes
    BY <1>1, PageIsServed
  <1>5. /\ GoodWalk(walk', rows, past)
        /\ walk'.at = "asking" => Precedes(walk.cursor, walk'.cursor)
    BY <1>1, <1>3, <1>4, ServedWalk
  <1> QED  BY <1>4, <1>5 DEF PageInv

LEMMA StepWalk == PageInv /\ [Next]_vars => PageInv'
  <1> SUFFICES ASSUME PageInv, [Next]_vars PROVE PageInv'
    OBVIOUS
  <1>1. CASE NextPage  BY <1>1, PageStep
  <1>2. CASE BadCursor  BY <1>2, RefusedStep
  <1>3. CASE \E e \in Endpoints : Begin(e)  BY <1>3, BeginStep
  <1>4. CASE \E i \in Items, row \in Row : Change(i, row)  BY <1>4, ChangeStep
  <1>5. CASE \E v \in past : Expire(v)  BY <1>5, ExpireStep
  <1>6. CASE UNCHANGED vars  BY <1>6 DEF vars, PageInv, GoodWalk
  <1> QED  BY <1>1, <1>2, <1>3, <1>4, <1>5, <1>6 DEF Next

\* Every walk that has begun is accounted for: what it has been given, what is
\* ahead of its cursor, what its total counts.
THEOREM WalkInvariant == Spec => []PageInv
  <1>1. Init => PageInv  BY InitWalk
  <1>2. PageInv /\ [Next]_vars => PageInv'  BY StepWalk
  <1> QED  BY <1>1, <1>2, PTL DEF Spec

------------------------------------------------------------------------------
(* The theorems *)

\* The variables stay in their types, and later pages have a cursor.
THEOREM PageTypes == Spec => []TypeOK
  <1>1. PageInv => TypeOK  BY DEF PageInv, GoodWalk, TypeOK
  <1> QED  BY <1>1, WalkInvariant, PTL

\* Rows that do not change are given once by every walk of every list that ends,
\* among rows that come, go and move, from pages of any age.
THEOREM EachRowOnce == Spec => []SteadyOnce
  <1>1. PageInv => SteadyOnce
    BY DEF PageInv, GoodWalk, SteadyRow, SteadyOnce
  <1> QED  BY <1>1, WalkInvariant, PTL

\* The total of a first page is what the walk gives, if nothing changes.
THEOREM TotalOfFirstPage == Spec => []TotalIsRight
  <1>1. PageInv => TotalIsRight
    <2> SUFFICES ASSUME PageInv, walk.at = "over", walk.quiet
                 PROVE  walk.total = Cardinality({i \in Items : walk.seen[i] = 1})
      BY DEF TotalIsRight
    <2>1. QuietWalk(walk, rows, past)  BY DEF PageInv, GoodWalk
    <2>2. \A i \in Matching(rows) : i \in Items /\ walk.seen[i] = 1
      BY <2>1 DEF QuietWalk, PageInv, GoodWalk, SteadyRow
    <2>3. \A i \in Items \ Matching(rows) : walk.seen[i] # 1
      BY <2>1 DEF QuietWalk
    <2>4. {i \in Items : walk.seen[i] = 1} = Matching(rows)
      BY <2>2, <2>3
    <2> QED  BY <2>1, <2>4 DEF QuietWalk
  <1> QED  BY <1>1, WalkInvariant, PTL

\* Cursors only move on.
THEOREM CursorsAdvance == Spec => CursorAdvances
  <1>1. PageInv /\ [Next]_vars
          => [NextPage /\ walk'.at = "asking" => Precedes(walk.cursor, walk'.cursor)]_vars
    BY PageStep
  <1> QED  BY <1>1, WalkInvariant, PTL DEF Spec, CursorAdvances
==============================================================================
