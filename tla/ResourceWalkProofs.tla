------------------------ MODULE ResourceWalkProofs ------------------------
(***************************************************************************)
(* WalkDeliversOnce for every set of replicas, requests and ids, and every *)
(* table and limit.  First what a page by name says of a row (PageServes): *)
(* the rows of a table are ordered, so a page is those up to its last row  *)
(* and its cursor stands between them and the rest.  Then ViewInv: every   *)
(* page that a walk may still be given, cached or about to be, gives its   *)
(* due to each row the walk counts on.  Then WalkInv: what the walk has    *)
(* seen is what its cursor has passed.                                     *)
(***************************************************************************)
EXTENDS ResourceServiceProofs, SumTheorems

(***************************************************************************)
(* Rows in order.                                                          *)
(***************************************************************************)

\* Some rows, and an order that tells any two of them apart.
Ordered(rows, config) ==
    /\ IsFiniteSet(rows)
    /\ \A x \in rows : ~Precedes(x, x, config)
    /\ \A x, y, z \in rows : Precedes(x, y, config) /\ Precedes(y, z, config)
                                 => Precedes(x, z, config)
    /\ \A x, y \in rows : x = y \/ Precedes(x, y, config) \/ Precedes(y, x, config)

IsLast(row, rows, config) == row \in rows /\ \A x \in rows : ~Precedes(row, x, config)

LEMMA NameConfig ==
    ASSUME NEW sort \in NameSorts
    PROVE  SortConfigFor(sort).column = "name" /\ SortConfigFor(sort).desc \in BOOLEAN
BY DEF NameSorts, TimestampSorts, SortConfigFor

LEMMA NamesOrder ==
    ASSUME NEW rows, IsTable(rows), NEW sort \in NameSorts
    PROVE  Ordered(rows, SortConfigFor(sort))
<1> DEFINE config == SortConfigFor(sort)
<1>1. config.column = "name" /\ config.desc \in BOOLEAN
  BY NameConfig
<1> HIDE DEF config
<1>2. \A x \in rows : x.name \in Nat /\ x.id \in Nat /\ x["name"] = x.name
  BY DEF IsTable, IsRow
<1>3. \A x, y \in rows : Precedes(x, y, config) <=>
          \/ Less(config.desc, x.name, y.name)
          \/ x.name = y.name /\ Less(config.desc, x.id, y.id)
  BY <1>1 DEF Precedes
<1>4. \A m, n \in Nat : Less(config.desc, m, n) <=> IF config.desc THEN m > n ELSE m < n
  BY DEF Less
<1>5. \A x \in rows : ~Precedes(x, x, config)
  BY <1>2, <1>3, <1>4
<1>6. \A x, y, z \in rows : Precedes(x, y, config) /\ Precedes(y, z, config)
                                => Precedes(x, z, config)
  BY <1>1, <1>2, <1>3, <1>4
<1>7. \A x, y \in rows : x = y \/ Precedes(x, y, config) \/ Precedes(y, x, config)
  BY <1>1, <1>2, <1>3, <1>4 DEF IsTable
<1> QED BY <1>5, <1>6, <1>7 DEF Ordered, IsTable, config

LEMMA OrderedSubset ==
    ASSUME NEW rows, NEW config, Ordered(rows, config), NEW some \in SUBSET rows
    PROVE  Ordered(some, config)
BY FS_Subset DEF Ordered

LEMMA LastExists ==
    ASSUME NEW rows, NEW config, Ordered(rows, config), rows # {}
    PROVE  \E row : IsLast(row, rows, config)
<1> DEFINE C == {s \in SUBSET rows : s # {} /\ ~\E row : IsLast(row, s, config)}
<1>1. SUFFICES ASSUME C # {} PROVE FALSE
  <2>1. rows \notin C => \E row : IsLast(row, rows, config)
    OBVIOUS
  <2> QED BY <2>1
<1>2. IsFiniteSet(rows) /\ C \in SUBSET SUBSET rows
  BY DEF Ordered
<1> HIDE DEF C
<1>3. PICK s \in C : \A t \in SUBSET s : t # s => t \notin C
  BY <1>1, <1>2, SmallestCounterexample
<1> USE DEF C
<1>4. PICK x \in s : TRUE
  BY <1>3
<1>5. CASE s \ {x} = {}
  <2>1. IsLast(x, s, config)
    BY <1>3, <1>5 DEF IsLast, Ordered
  <2> QED BY <1>3, <2>1
<1>6. CASE s \ {x} # {}
  <2>1. PICK y : IsLast(y, s \ {x}, config)
    BY <1>3, <1>4, <1>6
  <2>2. y \in s /\ x \in s /\ s \in SUBSET rows
    BY <1>3, <2>1 DEF IsLast
  <2>3. CASE Precedes(y, x, config)
    <3>1. IsLast(x, s, config)
      BY <2>1, <2>2, <2>3 DEF IsLast, Ordered
    <3> QED BY <1>3, <3>1
  <2>4. CASE ~Precedes(y, x, config)
    <3>1. IsLast(y, s, config)
      BY <2>1, <2>2, <2>4 DEF IsLast
    <3> QED BY <1>3, <3>1
  <2> QED BY <2>3, <2>4
<1> QED BY <1>5, <1>6

\* The last of the reversed order.
LEMMA FirstExists ==
    ASSUME NEW rows, NEW config, config.desc \in BOOLEAN, Ordered(rows, config), rows # {}
    PROVE  \E row \in rows : \A x \in rows : ~Precedes(x, row, config)
<1> DEFINE reversed == [column |-> config.column, desc |-> ~config.desc]
<1>1. reversed.column = config.column /\ reversed.desc = ~config.desc
  OBVIOUS
<1> HIDE DEF reversed
<1>2. \A x, y : Precedes(x, y, reversed) <=> Precedes(y, x, config)
  <2> SUFFICES ASSUME NEW x, NEW y PROVE Precedes(x, y, reversed) <=> Precedes(y, x, config)
    OBVIOUS
  <2>1. \A m, n : Less(reversed.desc, m, n) <=> Less(config.desc, n, m)
    BY <1>1 DEF Less
  <2> QED BY <1>1, <2>1 DEF Precedes
<1>3. Ordered(rows, reversed)
  BY <1>2 DEF Ordered
<1>4. PICK row : IsLast(row, rows, reversed)
  BY <1>3, LastExists
<1> QED BY <1>2, <1>4 DEF IsLast

Before(row, rows, config) == {x \in rows : Precedes(x, row, config)}

LEMMA FirstRowsAre ==
    ASSUME NEW rows, NEW config, Ordered(rows, config), NEW n
    PROVE  /\ FirstRows(rows, n, config)
                 = {row \in rows : Cardinality(Before(row, rows, config)) < n}
           /\ \A row \in rows : /\ IsFiniteSet(Before(row, rows, config))
                                /\ Cardinality(Before(row, rows, config)) \in Nat
<1>1. \A row \in rows : IsFiniteSet(Before(row, rows, config))
  BY FS_Subset DEF Before, Ordered
<1>2. \A row \in rows : Cardinality(Before(row, rows, config)) \in Nat
  BY <1>1, FS_CardinalityType
<1> QED BY <1>1, <1>2 DEF FirstRows, Before

\* The first rows of an order are followed by the others.
LEMMA FirstRowsFirst ==
    ASSUME NEW rows, NEW config, Ordered(rows, config), NEW n \in Nat,
           NEW row \in FirstRows(rows, n, config), NEW x \in rows, Precedes(x, row, config)
    PROVE  x \in FirstRows(rows, n, config)
<1> DEFINE before == Before(row, rows, config)
           beforeX == Before(x, rows, config)
<1>1. /\ row \in rows /\ IsFiniteSet(before)
      /\ Cardinality(before) \in Nat /\ Cardinality(before) < n
      /\ x \in FirstRows(rows, n, config) <=> Cardinality(beforeX) < n
      /\ Cardinality(beforeX) \in Nat
  BY FirstRowsAre
<1>2. beforeX \subseteq before
  BY <1>1 DEF Before, Ordered
<1> HIDE DEF before, beforeX
<1>3. Cardinality(beforeX) <= Cardinality(before)
  BY <1>1, <1>2, FS_Subset
<1> QED BY <1>1, <1>3

\* They are at most n, and fewer only if they are all.
LEMMA FirstRowsMany ==
    ASSUME NEW rows, NEW config, config.desc \in BOOLEAN, Ordered(rows, config), NEW n \in Nat
    PROVE  LET first == FirstRows(rows, n, config) IN
           /\ first \subseteq rows /\ IsFiniteSet(first)
           /\ Cardinality(first) \in Nat /\ Cardinality(first) <= n
           /\ first # rows => Cardinality(first) >= n
<1> DEFINE first == FirstRows(rows, n, config)
<1>1. first \subseteq rows /\ IsFiniteSet(first)
  BY FirstRowsAre, FS_Subset DEF Ordered
<1>2. Cardinality(first) \in Nat
  BY <1>1, FS_CardinalityType
<1>3. Cardinality(first) <= n
  <2>1. CASE first = {}
    <3>1. Cardinality(first) = 0
      BY <2>1, FS_EmptySet
    <3> QED BY <3>1
  <2>2. CASE first # {}
    <3>1. Ordered(first, config)
      BY <1>1, OrderedSubset
    <3> HIDE DEF first
    <3>2. PICK last : IsLast(last, first, config)
      BY <2>2, <3>1, LastExists
    <3> DEFINE before == Before(last, rows, config)
    <3>3. last \in first /\ first \ {last} \subseteq before
      BY <1>1, <3>1, <3>2 DEF IsLast, Before, Ordered
    <3>4. IsFiniteSet(before) /\ Cardinality(before) \in Nat /\ Cardinality(before) < n
      BY <1>1, <3>3, FirstRowsAre DEF first
    <3> HIDE DEF before
    <3>5. Cardinality(first \ {last}) <= Cardinality(before)
      BY <3>3, <3>4, FS_Subset
    <3>6. Cardinality(first \ {last}) = Cardinality(first) - 1
      BY <1>1, <3>3, FS_RemoveElement
    <3> QED BY <1>2, <3>4, <3>5, <3>6
  <2> QED BY <2>1, <2>2
<1>4. ASSUME first # rows PROVE Cardinality(first) >= n
  <2> DEFINE rest == rows \ first
  <2>1. rest # {} /\ rest \subseteq rows
    BY <1>1, <1>4
  <2> HIDE DEF first
  <2>2. Ordered(rest, config)
    BY <2>1, OrderedSubset
  <2>3. PICK row \in rest : \A x \in rest : ~Precedes(x, row, config)
    <3> HIDE DEF rest
    <3> QED BY <2>1, <2>2, FirstExists
  <2> DEFINE before == Before(row, rows, config)
  <2>4. before \subseteq first
    BY <2>3 DEF Before
  <2>5. Cardinality(before) >= n /\ Cardinality(before) \in Nat
    BY <2>3, FirstRowsAre DEF first
  <2> HIDE DEF before
  <2>6. Cardinality(before) <= Cardinality(first)
    BY <1>1, <2>4, FS_Subset
  <2> QED BY <1>2, <2>5, <2>6
<1> QED BY <1>1, <1>2, <1>3, <1>4

-----------------------------------------------------------------------------
(* Pages.                                                                  *)

\* The rows of a page are all candidates, or those up to the one its cursor
\* is made of.
Cuts(candidates, limit, sort, data, cursor) ==
    /\ data \in SUBSET candidates
    /\ PageOf(candidates, limit, sort)
         = [data |-> {Fetched(row) : row \in data}, nextCursor |-> cursor]
    /\ \/ cursor = Absent /\ data = candidates
       \/ \E last \in candidates :
              /\ cursor = EncodeCursor(Fetched(last), sort)
              /\ \A x \in candidates :
                     x \in data <=> ~Precedes(last, x, SortConfigFor(sort))

\* A page cuts its candidates, whose order is total, at its cursor.
LEMMA PageOfOrdered ==
    ASSUME NEW candidates, NEW sort \in NameSorts,
           Ordered(candidates, SortConfigFor(sort)), NEW limit \in Nat \ {0}
    PROVE  \E data, cursor : Cuts(candidates, limit, sort, data, cursor)
<1> DEFINE config == SortConfigFor(sort)
           rows   == FirstRows(candidates, limit + 1, config)
           data   == IF Cardinality(rows) > limit THEN FirstRows(rows, limit, config) ELSE rows
           Last   == CHOOSE row \in data : \A x \in data : ~Precedes(row, x, config)
           cursor == IF rows # data /\ data # {} THEN EncodeCursor(Fetched(Last), sort)
                     ELSE Absent
<1>1. PageOf(candidates, limit, sort)
        = [data |-> {Fetched(row) : row \in data}, nextCursor |-> cursor]
  BY DEF PageOf
<1>2. config.desc \in BOOLEAN
  BY NameConfig
<1>3. Ordered(candidates, config)
  OBVIOUS
<1> HIDE DEF config
<1>4. /\ rows \subseteq candidates /\ Cardinality(rows) \in Nat
      /\ rows # candidates => Cardinality(rows) >= limit + 1
  BY <1>2, <1>3, FirstRowsMany
<1>5. Ordered(rows, config)
  BY <1>3, <1>4, OrderedSubset
<1>6. CASE Cardinality(rows) <= limit
  <2>1. rows = candidates /\ data = rows /\ cursor = Absent
    BY <1>4, <1>6
  <2>2. Cuts(candidates, limit, sort, data, cursor)
    BY <1>1, <2>1 DEF Cuts
  <2> QED BY <2>2
<1>7. CASE Cardinality(rows) > limit
  <2>1. data = FirstRows(rows, limit, config)
    BY <1>7
  <2> HIDE DEF rows
  <2>2. /\ data \subseteq rows /\ Cardinality(data) \in Nat /\ Cardinality(data) <= limit
        /\ data # rows => Cardinality(data) >= limit
    BY <1>2, <1>5, <2>1, FirstRowsMany
  <2>3. data # rows
    BY <1>4, <1>7, <2>2
  <2>4. data # {}
    <3>1. data = {} => Cardinality(data) = 0
      BY FS_EmptySet, Zenon
    <3> QED BY <2>2, <2>3, <3>1
  <2>5. Ordered(data, config)
    BY <1>5, <2>2, OrderedSubset
  <2>6. \A row \in data, x \in rows : Precedes(x, row, config) => x \in data
    BY <1>5, <2>1, FirstRowsFirst
  <2> HIDE DEF data
  <2>7. \E row \in data : \A x \in data : ~Precedes(row, x, config)
    BY <2>4, <2>5, LastExists DEF IsLast
  <2>8. Last \in data /\ \A x \in data : ~Precedes(Last, x, config)
    BY <2>7
  <2>9. cursor = EncodeCursor(Fetched(Last), sort)
    BY <2>3, <2>4
  <2> HIDE DEF Last
  <2>10. ASSUME NEW x \in candidates PROVE x \in data <=> ~Precedes(Last, x, config)
    <3> SUFFICES ASSUME ~Precedes(Last, x, config) PROVE x \in data
      BY <2>8
    <3>1. Last \in rows
      BY <2>2, <2>8
    <3>2. x = Last \/ Precedes(x, Last, config)
      BY <1>3, <1>4, <3>1 DEF Ordered
    <3>3. x = Last \/ x \in rows
      BY <1>3, <3>1, <3>2, FirstRowsFirst DEF rows
    <3> QED BY <2>6, <2>8, <3>1, <3>2, <3>3
  <2>11. Cuts(candidates, limit, sort, data, cursor)
    BY <1>1, <1>4, <2>2, <2>8, <2>9, <2>10 DEF config, Cuts
  <2> QED BY <2>11
<1> QED BY <1>4, <1>6, <1>7

\* Absent is unlike a cursor and unlike a page.
AbsentIsNoPage ==
    /\ \A kind, value, id, sort :
           Absent # [kind |-> kind, value |-> value, id |-> id, sort |-> sort]
    /\ \A data, nextCursor : Absent # [data |-> data, nextCursor |-> nextCursor]

\* A cursor of the sort by name that the codec made.
IsToken(token) == token.value \in Nat /\ token.id \in Nat

\* A row that the token's page, or one before it, has had.
Passed(row, token, query) ==
    token # Absent /\ ~PastCursor(row, token, SortConfigFor(query.sort))

\* What a page says of a row to those who sent a query: it has the row unless
\* the row has passed, and all that its own cursor has left behind.
PageServes(page, row, query) ==
    /\ page # Absent /\ "data" \in DOMAIN page
    /\ page.nextCursor # Absent => IsToken(page.nextCursor)
    /\ Matches(row, query) =>
        LET got == row.id \in IdsOf(page) IN
        /\ got => ~Passed(row, query.cursor, query)
        /\ page.nextCursor = Absent => Passed(row, query.cursor, query) \/ got
        /\ page.nextCursor # Absent /\ (query.cursor = Absent \/ IsToken(query.cursor)) =>
               (Passed(row, page.nextCursor, query) <=> Passed(row, query.cursor, query) \/ got)

\* Past the cursor of a row is what the row precedes.
LEMMA PastIsPreceded ==
    ASSUME NEW sort \in NameSorts, NEW last, IsRow(last), NEW row,
           NEW token, token = EncodeCursor(Fetched(last), sort)
    PROVE  /\ IsToken(token)
           /\ PastCursor(row, token, SortConfigFor(sort))
                 <=> Precedes(last, row, SortConfigFor(sort))
<1> DEFINE config == SortConfigFor(sort)
<1>1. config.column = "name" /\ config.desc \in BOOLEAN
  BY NameConfig
<1>2. /\ Fetched(last)["name"] = last["name"] /\ Fetched(last).id = last.id
      /\ last["name"] \in Nat /\ last.id \in Nat
  BY DEF Fetched, IsRow
<1> HIDE DEF config
<1>3. token.value = last["name"] /\ token.id = last.id
  BY <1>1, <1>2 DEF EncodeCursor, config
<1>4. PastCursor(row, token, config) <=> Precedes(last, row, config)
  BY <1>1, <1>3 DEF PastCursor, Precedes
<1> QED BY <1>2, <1>3, <1>4 DEF IsToken, config

\* What precedes a row past a cursor the codec made does not take it back.
LEMMA PastGoesOn ==
    ASSUME NEW sort \in NameSorts, NEW token, IsToken(token), NEW row, IsRow(row),
           NEW other, IsRow(other), PastCursor(row, token, SortConfigFor(sort)),
           Precedes(row, other, SortConfigFor(sort))
    PROVE  PastCursor(other, token, SortConfigFor(sort))
<1> DEFINE config == SortConfigFor(sort)
<1>1. config.column = "name" /\ config.desc \in BOOLEAN
  BY NameConfig
<1>2. /\ row["name"] \in Nat /\ row.id \in Nat /\ other["name"] \in Nat /\ other.id \in Nat
      /\ token.value \in Nat /\ token.id \in Nat
  BY DEF IsRow, IsToken
<1> HIDE DEF config
<1>3. \A m, n \in Nat : Less(config.desc, m, n) <=> IF config.desc THEN m > n ELSE m < n
  BY DEF Less
<1>4. /\ PastCursor(row, token, config) /\ Precedes(row, other, config)
  BY DEF config
<1>5. PastCursor(other, token, config)
  BY <1>1, <1>2, <1>3, <1>4 DEF PastCursor, Precedes
<1> QED BY <1>5 DEF config

\* The page a query by name gets says so of every row of the table.
LEMMA PagesServe ==
    ASSUME AbsentIsNoPage, IsTable(table), NEW query, IsQuery(query), query.sort \in NameSorts,
           NEW row \in table
    PROVE  PageServes(Page(table, query), row, query)
<1> DEFINE sort   == query.sort
           config == SortConfigFor(sort)
           C      == Candidates(table, query)
           page   == Page(table, query)
           before == Passed(row, query.cursor, query)
<1>1. C \subseteq table /\ Ordered(C, config)
  <2>1. C \subseteq table
    BY DEF Candidates
  <2>2. Ordered(table, config)
    BY NamesOrder
  <2> HIDE DEF C
  <2> QED BY <2>1, <2>2, OrderedSubset
<1>2. \A x \in table : x \in C <=> Matches(x, query) /\ ~Passed(x, query.cursor, query)
  BY DEF Candidates, Passed
<1>3. page = PageOf(C, query.limit, sort) /\ query.limit \in Nat \ {0}
  BY DEF Page, IsQuery
<1>4. /\ IsRow(row)
      /\ \A x \in table : IsRow(x)
      /\ \A x, y \in table : x.id = y.id => x = y
  BY DEF IsTable
<1> HIDE DEF C, config, page
<1>5. PICK data, cursor :
          /\ data \in SUBSET C
          /\ page = [data |-> {Fetched(x) : x \in data}, nextCursor |-> cursor]
          /\ \/ cursor = Absent /\ data = C
             \/ \E last \in C : /\ cursor = EncodeCursor(Fetched(last), sort)
                                /\ \A x \in C : x \in data <=> ~Precedes(last, x, config)
  <2> HIDE DEF sort
  <2>1. sort \in NameSorts /\ Ordered(C, SortConfigFor(sort))
    BY <1>1 DEF sort, config
  <2>2. PICK data, cursor : Cuts(C, query.limit, sort, data, cursor)
    BY <1>3, <2>1, PageOfOrdered
  <2>3. /\ page = [data |-> {Fetched(x) : x \in data}, nextCursor |-> cursor]
        /\ \/ cursor = Absent /\ data = C
           \/ \E last \in C : /\ cursor = EncodeCursor(Fetched(last), sort)
                              /\ \A x \in C : x \in data <=> ~Precedes(last, x, config)
    BY <1>3, <2>2, Zenon DEF config, Cuts
  <2>4. data \in SUBSET C
    BY <2>2 DEF Cuts
  <2> QED BY <2>3, <2>4
<1>6. /\ page # Absent /\ "data" \in DOMAIN page /\ page.nextCursor = cursor
      /\ page.data = {Fetched(x) : x \in data}
  BY <1>5 DEF AbsentIsNoPage
<1>7. row.id \in IdsOf(page) <=> row \in data
  <2>1. \A x \in data : Fetched(x).id = x.id
    BY <1>1, <1>4 DEF Fetched, IsRow
  <2>2. row.id \in IdsOf(page) <=> \E x \in data : row.id = Fetched(x).id
    BY <1>6 DEF IdsOf
  <2> QED BY <1>1, <1>4, <1>5, <2>1, <2>2
<1>8. ASSUME cursor = Absent, data = C PROVE PageServes(page, row, query)
  <2>1. row \in data <=> Matches(row, query) /\ ~before
    BY <1>2, <1>8
  <2>2. page.nextCursor = Absent
    BY <1>6, <1>8
  <2> HIDE DEF before
  <2> QED BY <1>6, <1>7, <2>1, <2>2 DEF PageServes, before
<1>9. ASSUME NEW last \in C, cursor = EncodeCursor(Fetched(last), sort),
             \A x \in C : x \in data <=> ~Precedes(last, x, config)
      PROVE  PageServes(page, row, query)
  <2>1. /\ cursor # Absent
    BY <1>9 DEF EncodeCursor, AbsentIsNoPage
  <2>2. IsToken(cursor) /\ (PastCursor(row, cursor, config) <=> Precedes(last, row, config))
    BY <1>1, <1>4, <1>9, PastIsPreceded DEF config
  <2>3. Passed(row, cursor, query) <=> ~Precedes(last, row, config)
    BY <2>1, <2>2 DEF Passed, config
  <2>4. ASSUME Matches(row, query), query.cursor = Absent \/ IsToken(query.cursor)
        PROVE  Passed(row, cursor, query) <=> before \/ row \in data
    <3>1. CASE row \in C
      BY <1>2, <1>9, <2>3, <3>1
    <3>2. CASE row \notin C
      <4>1. before /\ query.cursor # Absent /\ ~PastCursor(row, query.cursor, config)
        BY <1>2, <2>4, <3>2 DEF Passed, config
      <4>2. PastCursor(last, query.cursor, config)
        BY <1>1, <1>2, <4>1 DEF Passed, config
      <4>3. ~Precedes(last, row, config)
        BY <1>1, <1>4, <2>4, <4>1, <4>2, PastGoesOn DEF config
      <4> QED BY <2>3, <4>1, <4>3
    <3> QED BY <3>1, <3>2
  <2>5. row \in data => ~before
    BY <1>2, <1>5
  <2> HIDE DEF before
  <2> QED BY <1>6, <1>7, <2>1, <2>2, <2>4, <2>5 DEF PageServes, before
<1>10. PageServes(page, row, query)
  BY <1>5, <1>8, <1>9
<1> QED BY <1>10 DEF page

-----------------------------------------------------------------------------
(* What readers may find.  A row whose writes are all counted is given its *)
(* due by every page that can still be read under the current version, and *)
(* by every page that a request may still get whose walk counts on the row.*)

\* A page cached under a key gives a row its due, whoever asks.
AgreesOn(key, page, row) ==
    \A c : Asks(c, key) /\ c.op = "list" /\ c.query.sort \in NameSorts
               => ReadErrors(c) = {} /\ PageServes(page, row, c.query)

Agrees(key, page, id) == \A row \in Row(id) : AgreesOn(key, page, row)

\* The rows the walk of a request counts on; none, if it was misled.
Relied(q) == IF q \in misled THEN {} ELSE steady[q]

SettledId(id) == \A q \in Req : at[q] \in {"del", "bump"} => call[q].id # id

\* A flight that has read a page and is about to cache it.
Filling(f) == flight[f] # Absent /\ call[f].op = "list" /\ flight[f].step = "fill"

AgreesFrom(v, id) ==
    /\ \A e \in lists : e.key.version >= v => Agrees(e.key, e.page, id)
    /\ \A f \in Req : Filling(f) /\ flight[f].key.version >= v
                          => Agrees(flight[f].key, flight[f].value, id)

ViewInv == intact =>
    /\ \A id : SettledId(id) => AgreesFrom(version, id)
    /\ \A r \in Req : \A id \in Relied(r) : SettledId(id)
    /\ \A r \in Req : at[r] = "listGet" => \A id \in Relied(r) : AgreesFrom(listVersion[r], id)
    /\ \A f \in Req : Filling(f) => \A w \in flight[f].waiters : \A id \in Relied(w) :
                          Agrees(flight[f].key, flight[f].value, id)

LEMMA ViewInit == Init => ViewInv
BY DEF Init, ViewInv, AgreesFrom, Filling, Relied

\* What a read gives agrees with every row.
LEMMA PagesAgree ==
    ASSUME AbsentIsNoPage, IsTable(table), NEW c, c.op = "list", ReadErrors(c) = {},
           NEW key, Asks(c, key), NEW row \in table
    PROVE  AgreesOn(key, Page(table, c.query), row)
<1> SUFFICES ASSUME NEW d, Asks(d, key), d.op = "list", d.query.sort \in NameSorts
             PROVE  ReadErrors(d) = {} /\ PageServes(Page(table, c.query), row, d.query)
  BY DEF AgreesOn
<1>1. ReadErrors(d) = {}
  BY KeyDeterminesRefusal
<1>2. /\ IsQuery(c.query) /\ IsQuery(d.query)
      /\ ListKey(c.query, key.version) = ListKey(d.query, key.version)
  BY DEF Asks
<1>3. Page(table, c.query) = Page(table, d.query)
  BY <1>2, KeyDeterminesPage
<1>4. PageServes(Page(table, d.query), row, d.query)
  BY <1>2, PagesServe
<1> QED BY <1>1, <1>3, <1>4

\* A flight that goes on as it was.
SameFlight(f) == /\ Filling(f) /\ flight'[f].key = flight[f].key
                 /\ flight'[f].value = flight[f].value

\* A step that writes no row whose writes are counted, caches what flights have
\* read, and reads what agrees.
LEMMA ViewKeeps ==
    ASSUME ViewInv, intact' => intact,
           intact' => \A id : SettledId(id)' => Row(id)' = Row(id),
           intact' => \/ version' = version /\ \A id : SettledId(id)' => SettledId(id)
                      \/ /\ \A e \in lists' : ~(e.key.version >= version')
                         /\ \A f \in Req : Filling(f)' => ~(flight'[f].key.version >= version'),
           \A e \in lists' :
               e \in lists \/ \E f \in Req : /\ Filling(f) /\ e.key = flight[f].key
                                             /\ e.page = flight[f].value,
           \A f \in Req : Filling(f)' =>
               SameFlight(f) \/ \A row \in table' : AgreesOn(flight'[f].key, flight'[f].value, row),
           \A f \in Req : Filling(f)' => \A w \in flight'[f].waiters :
               \/ /\ SameFlight(f) /\ Relied(w)' \subseteq Relied(w)
                  /\ \/ w \in flight[f].waiters
                     \/ /\ w \in Req /\ at[w] = "listGet"
                        /\ flight[f].key.version >= listVersion[w]
               \/ \A row \in table' : AgreesOn(flight'[f].key, flight'[f].value, row),
           \A f \in Req : Filling(f)' => \A w \in flight'[f].waiters : w \in Req,
           intact' => \A q \in Req : \A id \in Relied(q)' : SettledId(id)',
           intact' => \A q \in Req : at'[q] = "listGet" =>
               \/ Relied(q)' = {}
               \/ /\ Relied(q)' \subseteq Relied(q)
                  /\ \/ at[q] = "listGet" /\ listVersion'[q] = listVersion[q]
                     \/ listVersion'[q] = version
    PROVE  ViewInv'
<1> SUFFICES ASSUME intact' PROVE ViewInv'
  BY DEF ViewInv
<1>1. \A id : \A row \in Row(id)' : row \in table'
  BY DEF Row
<1>2. /\ \A id : SettledId(id) => AgreesFrom(version, id)
      /\ \A r \in Req : \A id \in Relied(r) : SettledId(id)
      /\ \A r \in Req : at[r] = "listGet" => \A id \in Relied(r) : AgreesFrom(listVersion[r], id)
      /\ \A f \in Req : Filling(f) => \A w \in flight[f].waiters : \A id \in Relied(w) :
                            Agrees(flight[f].key, flight[f].value, id)
  BY DEF ViewInv
<1>3. ASSUME NEW v, NEW id, AgreesFrom(v, id), Row(id)' = Row(id)
      PROVE  /\ \A e \in lists' : e.key.version >= v
                    => \A row \in Row(id)' : AgreesOn(e.key, e.page, row)
             /\ \A f \in Req : Filling(f)' /\ flight'[f].key.version >= v
                    => \A row \in Row(id)' : AgreesOn(flight'[f].key, flight'[f].value, row)
  BY <1>1, <1>3 DEF AgreesFrom, Agrees, SameFlight
<1>4. ASSUME NEW id, SettledId(id)' PROVE AgreesFrom(version, id)'
  <2>1. CASE version' = version /\ SettledId(id)
    <3>1. AgreesFrom(version, id) /\ Row(id)' = Row(id)
      BY <1>2, <1>4, <2>1
    <3> QED BY <1>3, <2>1, <3>1 DEF AgreesFrom, Agrees
  <2>2. CASE /\ \A e \in lists' : ~(e.key.version >= version')
             /\ \A f \in Req : Filling(f)' => ~(flight'[f].key.version >= version')
    BY <2>2 DEF AgreesFrom
  <2> QED BY <1>4, <2>1, <2>2
<1>5. ASSUME NEW r \in Req, at'[r] = "listGet", NEW id \in Relied(r)'
      PROVE  AgreesFrom(listVersion[r], id)'
  <2>1. id \in Relied(r) /\ SettledId(id) /\ SettledId(id)' /\ Row(id)' = Row(id)
    BY <1>2, <1>5
  <2>2. AgreesFrom(listVersion'[r], id)
    <3>1. CASE at[r] = "listGet" /\ listVersion'[r] = listVersion[r]
      BY <1>2, <2>1, <3>1
    <3>2. CASE listVersion'[r] = version
      BY <1>2, <2>1, <3>2
    <3> QED BY <1>5, <3>1, <3>2
  <2> QED BY <1>3, <2>1, <2>2 DEF AgreesFrom, Agrees
<1>6. ASSUME NEW f \in Req, Filling(f)', NEW w \in flight'[f].waiters, NEW id \in Relied(w)'
      PROVE  Agrees(flight[f].key, flight[f].value, id)'
  <2>1. CASE \A row \in table' : AgreesOn(flight'[f].key, flight'[f].value, row)
    BY <1>1, <2>1 DEF Agrees
  <2>2. CASE /\ SameFlight(f) /\ Relied(w)' \subseteq Relied(w)
             /\ \/ w \in flight[f].waiters
                \/ /\ w \in Req /\ at[w] = "listGet"
                   /\ flight[f].key.version >= listVersion[w]
    <3>1. Row(id)' = Row(id) /\ id \in Relied(w)
      BY <1>6, <2>2
    <3>2. Agrees(flight[f].key, flight[f].value, id)
      <4>1. CASE w \in flight[f].waiters BY <1>2, <2>2, <3>1, <4>1 DEF SameFlight
      <4>2. CASE w \in Req /\ at[w] = "listGet" /\ flight[f].key.version >= listVersion[w]
        BY <1>2, <2>2, <3>1, <4>2 DEF SameFlight, AgreesFrom
      <4> QED BY <2>2, <4>1, <4>2
    <3> QED BY <2>2, <3>1, <3>2 DEF SameFlight, Agrees
  <2> QED BY <1>6, <2>1, <2>2
<1> QED BY <1>4, <1>5, <1>6 DEF ViewInv

\* What steps do to the rows that walks count on: only one that begins counts
\* on more.
SteadyFits == DOMAIN steady = Req

LEMMA SteadySteps ==
    ASSUME SteadyFits, [Next]_vars
    PROVE  /\ SteadyFits'
           /\ \A q \in Req : Relied(q)' \subseteq Relied(q) \/ Send(q)
<1> USE DEF serverVars, processVars, requestVars, historyVars, vars, SteadyFits
<1> DEFINE Kept == steady' = steady /\ misled' = misled
<1>1. ASSUME UNCHANGED vars PROVE Kept BY <1>1
<1>2. ASSUME NEW i \in Replica, \/ Boot(i) \/ Connect(i) \/ ConnectFails(i)
                                \/ Terminate(i) \/ ExitCleanly(i) \/ ForceExit(i)
      PROVE  Kept
  BY <1>2 DEF Boot, Connect, ConnectFails, Terminate, ExitCleanly, ForceExit
<1>3. ASSUME NEW id \in Id, ExpireDetail(id) PROVE Kept BY <1>3 DEF ExpireDetail
<1>4. ASSUME NEW entry \in lists, ExpireList(entry) PROVE Kept BY <1>4 DEF ExpireList
<1>5. ASSUME WindowEnds \/ RedisLoss PROVE Kept BY <1>5 DEF WindowEnds, RedisLoss
<1>6. ASSUME NEW f \in Req, FlightStep(f) PROVE Kept
  BY <1>6 DEF FlightStep, FlightRead, FlightReadFails, FlightFill, FlightTimeout
<1>7. ASSUME NEW r \in Req, \/ NextPage(r) \/ Limit(r) \/ LimitFails(r) \/ Del(r)
                            \/ Bump(r) \/ StatementRefused(r) \/ Select(r) \/ SelectFails(r)
                            \/ DetailGet(r) \/ ListGet(r) \/ Probe(r)
      PROVE  Kept
  BY <1>7 DEF NextPage, Accept, Limit, LimitFails, Del, Bump, StatementRefused, Select,
              SelectFails, DetailGet, ListGet, Probe
<1>8. ASSUME NEW r \in Req, VersionGet(r)
      PROVE  steady' = steady /\ misled' \in {misled, misled \cup {r}}
  BY <1>8 DEF VersionGet
<1>9. ASSUME NEW r \in Req, Insert(r) \/ Write(r) \/ StatementFails(r)
      PROVE  misled' = misled /\ (steady' = steady \/ \E id : Disturb(id))
  BY <1>9 DEF Insert, Write, StatementFails, Committed
<1>10. ASSUME NEW r \in Req, Send(r)
       PROVE  misled' = misled /\ \E ids : steady' = [steady EXCEPT ![r] = ids]
  BY <1>10 DEF Send, Accept
<1>11. CASE Kept
  BY <1>11 DEF Relied
<1>12. ASSUME NEW r, steady' = steady, misled' \in {misled, misled \cup {r}}
       PROVE  SteadyFits' /\ \A q \in Req : Relied(q)' \subseteq Relied(q)
  BY <1>12 DEF Relied
<1>13. ASSUME NEW id, misled' = misled, Disturb(id)
       PROVE  SteadyFits' /\ \A q \in Req : Relied(q)' \subseteq Relied(q)
  BY <1>13 DEF Relied, Disturb
<1>14. ASSUME NEW r \in Req, Send(r)
       PROVE  SteadyFits' /\ \A q \in Req : Relied(q)' \subseteq Relied(q) \/ Send(q)
  <2>1. PICK ids : steady' = [steady EXCEPT ![r] = ids] /\ misled' = misled
    BY <1>10, <1>14
  <2>2. \A q \in Req : q # r => Relied(q)' = Relied(q)
    BY <2>1 DEF Relied
  <2> QED BY <1>14, <2>1, <2>2
<1> HIDE DEF Kept, SteadyFits
<1>15. \/ Kept \/ \E r \in Req : \/ VersionGet(r) \/ Send(r)
                               \/ Insert(r) \/ Write(r) \/ StatementFails(r)
  BY <1>1, <1>2, <1>3, <1>4, <1>5, <1>6, <1>7 DEF Next, RequestStep
<1> QED BY <1>8, <1>9, <1>11, <1>12, <1>13, <1>14, <1>15

\* Without the cache nobody is about to count a write, nor reads what another
\* has read.
LEMMA ViewUncached ==
    ASSUME ShapeInv', CacheInv', ~env'.cacheEnabled
    PROVE  ViewInv'
<1>1. /\ \A r \in Req : at'[r] \notin {"del", "bump", "listGet"}
      /\ \A f \in Req : flight'[f] = Absent
      /\ lists' = {}
  BY DEF ShapeInv, CallFits, FlightFits, CacheInv, VersionsPast
<1> QED BY <1>1 DEF ViewInv, SettledId, AgreesFrom, Filling

\* A request goes on that leaves cache and flights alone.
LEMMA ViewGoesOn ==
    ASSUME ShapeInv, ViewInv, NEW r \in Req, UNCHANGED <<lists, flight>>, intact' => intact,
           at[r] # "wait", at[r] = "done" => next[r] # Absent,
           \A q \in Req : q # r => /\ at'[q] = at[q] /\ call'[q] = call[q]
                                   /\ listVersion'[q] = listVersion[q]
                                   /\ Relied(q)' \subseteq Relied(q),
           intact' => \A id : SettledId(id)' => Row(id)' = Row(id),
           intact' => \/ version' = version /\ \A id : SettledId(id)' => SettledId(id)
                      \/ /\ \A e \in lists : ~(e.key.version >= version')
                         /\ \A f \in Req : Filling(f) => ~(flight[f].key.version >= version'),
           intact' => \A q \in Req : \A id \in Relied(q)' : SettledId(id)',
           intact' /\ at'[r] = "listGet" =>
               Relied(r)' = {} \/ (Relied(r)' \subseteq Relied(r) /\ listVersion'[r] = version)
    PROVE  ViewInv'
<1>1. \A f \in Req : flight[f] # Absent =>
          /\ f # r
          /\ \A w \in flight[f].waiters : w \in Req /\ w # r
  BY DEF ShapeInv, FlightFits
<1>2. \A f \in Req : Filling(f)' => /\ SameFlight(f)
                                    /\ \A w \in flight'[f].waiters :
                                           /\ w \in Req /\ w \in flight[f].waiters
                                           /\ Relied(w)' \subseteq Relied(w)
  BY <1>1 DEF Filling, SameFlight
<1>3. intact' => \A q \in Req : at'[q] = "listGet" =>
          \/ Relied(q)' = {}
          \/ /\ Relied(q)' \subseteq Relied(q)
             /\ \/ at[q] = "listGet" /\ listVersion'[q] = listVersion[q]
                \/ listVersion'[q] = version
  OBVIOUS
<1>4. intact' => \/ version' = version /\ \A id : SettledId(id)' => SettledId(id)
                 \/ /\ \A e \in lists' : ~(e.key.version >= version')
                    /\ \A f \in Req : Filling(f)' => ~(flight'[f].key.version >= version')
  BY <1>2 DEF SameFlight
<1> QED BY <1>2, <1>3, <1>4, ViewKeeps

\* One that writes nothing either.
LEMMA ViewQuiet ==
    ASSUME ShapeInv, ViewInv, NEW r \in Req,
           UNCHANGED <<lists, flight, table, version, intact, listVersion>>,
           at[r] # "wait", at[r] = "done" => next[r] # Absent,
           \A q \in Req : q # r => /\ at'[q] = at[q] /\ call'[q] = call[q]
                                   /\ Relied(q)' = Relied(q),
           at'[r] # "listGet",
           at'[r] \in {"del", "bump"} => at[r] \in {"del", "bump"} /\ call'[r].id = call[r].id,
           at[r] \in {"del", "bump"} => at'[r] \in {"del", "bump"},
           intact => \A id \in Relied(r)' : SettledId(id)
    PROVE  ViewInv'
<1>1. \A id : SettledId(id)' <=> SettledId(id)
  BY DEF SettledId
<1>2. \A id : Row(id)' = Row(id)
  BY DEF Row
<1>3. intact' => \A q \in Req : \A id \in Relied(q)' : SettledId(id)'
  BY <1>1 DEF ViewInv
<1> QED BY <1>1, <1>2, <1>3, ViewGoesOn

LEMMA ArrivalsView ==
    ASSUME ShapeInv, SteadyFits, ViewInv, NEW r \in Req, Send(r) \/ NextPage(r) \/ Limit(r)
    PROVE  ViewInv'
<1>1. Arrives(r)
  BY RequestsArrive
<1>2. UNCHANGED <<table, version, lists, listVersion, flight, intact, misled>>
  BY DEF Send, NextPage, Limit, Accept, serverVars, processVars
<1>3. CASE NextPage(r) \/ Limit(r)
  <2>1. \A q \in Req : Relied(q)' = Relied(q)
    BY <1>2, <1>3 DEF NextPage, Limit, Relied
  <2> QED BY <1>1, <1>2, <2>1, ViewQuiet DEF Arrives, ViewInv
<1>4. CASE Send(r)
  <2>1. /\ Relied(r)' \subseteq {row.id : row \in table} \ Unsettled
        /\ \A q \in Req : q # r => Relied(q)' = Relied(q)
    BY <1>2, <1>4 DEF Send, SteadyFits, Relied
  <2> QED BY <1>1, <1>2, <2>1, ViewQuiet DEF Arrives, Unsettled, SettledId
<1> QED BY <1>3, <1>4

\* A statement changes the rows of one id.
LEMMA OtherRowsStay ==
    ASSUME NEW id,
           \/ \E row : row.id = id /\ table' = table \cup {row}
           \/ Rewrites(table', id)
    PROVE  \A x : x # id => Row(x)' = Row(x)
<1>1. CASE \E row : row.id = id /\ table' = table \cup {row}
  BY <1>1 DEF Row
<1>2. CASE Rewrites(table', id)
  <2>1. PICK new : new.id = id /\ table' \in {table \ Row(id), (table \ Row(id)) \cup {new}}
    BY <1>2 DEF Rewrites
  <2> QED BY <2>1 DEF Row
<1> QED BY <1>1, <1>2

\* A write whose statement has changed rows, with its INCR to come.
LEMMA CommitView ==
    ASSUME ShapeInv, ViewInv, NEW r \in Req, Moves(r), NEW id, Disturb(id),
           UNCHANGED <<version, lists, listVersion, intact, misled>>,
           at[r] \notin {"del", "bump"}, at'[r] \in {"del", "bump"}, call'[r].id = id,
           \A x : x # id => Row(x)' = Row(x)
    PROVE  ViewInv'
<1>1. \A q \in Req : Relied(q)' = Relied(q) \ {id}
  BY DEF Disturb, Relied
<1>2. \A x : SettledId(x)' <=> x # id /\ SettledId(x)
  BY DEF SettledId, Moves
<1>3. intact' => \A q \in Req : \A x \in Relied(q)' : SettledId(x)'
  BY <1>1, <1>2 DEF ViewInv
<1> QED BY <1>1, <1>2, <1>3, ViewGoesOn DEF Moves

LEMMA GoesView ==
    ASSUME ShapeInv, WritesInv, TableInv, CacheInv, SteadyFits, ViewInv, env.cacheEnabled,
           NEW r \in Req, Goes(r)
    PROVE  ViewInv'
<1>1. Moves(r) /\ FieldTypes /\ CallFits(r) /\ WritesFit(r)
  BY GoesMoves DEF ShapeInv, WritesInv
<1>0. UNCHANGED <<steady, misled>> => \A q \in Req : Relied(q)' = Relied(q)
  BY DEF Relied
<1>2. ASSUME UNCHANGED <<table, version, lists, listVersion, intact, steady, misled, call>>,
             at[r] \notin {"del", "bump"}, at'[r] = "done"
      PROVE  ViewInv'
  BY <1>0, <1>1, <1>2, ViewQuiet DEF Moves, ViewInv
<1> USE DEF serverVars, processVars
<1>3. ASSUME NEW response, NEW content, Answer(r, response, content)
      PROVE  at'[r] = "done"
  BY <1>1, <1>3, Answered DEF Answer
<1>4. CASE LimitFails(r) BY <1>2, <1>3, <1>4 DEF LimitFails
<1>5. CASE Insert(r)
  <2>1. PICK id \in Id \ used :
            /\ at[r] = "insert" /\ used' = used \cup {id}
            /\ table' = table \cup {NewRow(id, call[r].body, clock)} /\ Disturb(id)
            /\ call' = [call EXCEPT ![r].id = id] /\ AfterWrite(r, "bump")
            /\ UNCHANGED <<version, lists, listVersion, intact, misled>>
    BY <1>5 DEF Insert, Committed
  <2>2. at'[r] = "bump"
    BY <1>1, <2>1 DEF AfterWrite, GoTo, FieldTypes
  <2>3. call'[r].id = id
    BY <1>1, <2>1 DEF FieldTypes, CallFits, IsCall
  <2>4. \A x : x # id => Row(x)' = Row(x)
    BY <2>1, OtherRowsStay DEF NewRow
  <2> QED BY <1>1, <2>1, <2>2, <2>3, <2>4, CommitView
<1>6. CASE Write(r)
  <2>1. /\ at[r] \in {"update", "delete"} /\ used' = used
        /\ UNCHANGED <<version, lists, listVersion, intact, misled, call>>
        /\ ValueErrors(call[r]) = {}
    BY <1>6 DEF Write
  <2>2. CASE /\ Row(call[r].id) # {} /\ table' = Rewritten(call[r]) /\ Disturb(call[r].id)
             /\ AfterWrite(r, "del")
    <3>1. at'[r] = "del"
      BY <1>1, <2>2 DEF AfterWrite, GoTo, FieldTypes
    <3>2. Rewrites(table', call[r].id)
      BY <2>1, <2>2, WriteRewrites
    <3>3. \A x : x # call[r].id => Row(x)' = Row(x)
      BY <3>2, OtherRowsStay
    <3> QED BY <1>1, <2>1, <2>2, <3>1, <3>3, CommitView
  <2>3. CASE UNCHANGED <<table, steady>> /\ \E response : Answer(r, response, Absent)
    BY <1>2, <1>3, <2>1, <2>3
  <2> QED BY <1>6, <2>2, <2>3 DEF Write, Committed
<1>7. CASE StatementFails(r)
  <2>1. /\ at[r] \in {"insert", "update", "delete"}
        /\ UNCHANGED <<version, lists, listVersion, misled, call>>
        /\ (UNCHANGED <<table, intact, steady>>) \/ ~intact'
        /\ \E response : Answer(r, response, Absent)
    BY <1>7 DEF StatementFails
  <2>2. CASE ~intact' BY <2>2 DEF ViewInv
  <2> QED BY <1>2, <1>3, <2>1, <2>2
<1>8. CASE Del(r)
  <2>1. /\ at[r] = "del" /\ at' = [at EXCEPT ![r] = "bump"]
        /\ UNCHANGED <<table, version, lists, listVersion, intact, steady, misled, call>>
    BY <1>8 DEF Del, GoTo
  <2>2. at'[r] = "bump"
    BY <1>1, <2>1 DEF FieldTypes
  <2> QED BY <1>0, <1>1, <2>1, <2>2, ViewQuiet DEF Moves, ViewInv
<1>9. CASE Bump(r)
  <2>1. /\ at[r] = "bump" /\ UNCHANGED <<table, lists, listVersion, steady, misled, call>>
        /\ ~intact' \/ (intact' = intact /\ version' = Incremented(version))
        /\ at'[r] = "done"
    BY <1>3, <1>9 DEF Bump
  <2>2. CASE ~intact' BY <2>2 DEF ViewInv
  <2>3. CASE intact' /\ intact' = intact /\ version' = Incremented(version)
    <3>1. version \in Nat \ {0} /\ version' = version + 1
      BY <2>3, ServiceAssumption DEF CacheInv, VersionsPast, Incremented
    <3>2. \A e \in lists : ~(e.key.version >= version')
      BY <2>3, <3>1 DEF CacheInv, VersionsPast
    <3>3. \A f \in Req : Filling(f) => ~(flight[f].key.version >= version')
      BY <2>3, <3>1 DEF CacheInv, VersionsPast, ShapeInv, FlightFits, Filling
    <3>4. \A id : SettledId(id) => SettledId(id)'
      BY <1>1, <2>1 DEF SettledId, Moves
    <3>5. \A id : Row(id)' = Row(id)
      BY <2>1 DEF Row
    <3>6. intact' => \A q \in Req : \A id \in Relied(q)' : SettledId(id)'
      BY <1>0, <2>1, <2>3, <3>4 DEF ViewInv
    <3> QED BY <1>0, <1>1, <2>1, <2>3, <3>2, <3>3, <3>5, <3>6, ViewGoesOn DEF Moves
  <2> QED BY <2>1, <2>2, <2>3
<1>10. CASE Select(r)
  BY <1>2, <1>3, <1>10 DEF Select
<1>11. CASE SelectFails(r)
  BY <1>2, <1>3, <1>11 DEF SelectFails
<1>12. CASE VersionGet(r)
  <2>1. /\ at[r] = "versionGet" /\ UNCHANGED <<table, version, lists, intact, steady, call>>
        /\ at' = [at EXCEPT ![r] = "listGet"]
        /\ \/ /\ listVersion' = [listVersion EXCEPT ![r] = CurrentVersion]
              /\ misled' = misled
           \/ /\ listVersion' = [listVersion EXCEPT ![r] = 1]
              /\ misled' = IF CurrentVersion = 1 THEN misled ELSE misled \cup {r}
    BY <1>12 DEF VersionGet, GoTo
  <2>2. at'[r] = "listGet" /\ \A q \in Req : q # r => listVersion'[q] = listVersion[q]
    BY <1>1, <2>1 DEF FieldTypes
  <2>3. \A id : SettledId(id)' <=> SettledId(id)
    BY <1>1, <2>1, <2>2 DEF SettledId, Moves
  <2>4. \A id : Row(id)' = Row(id)
    BY <2>1 DEF Row
  <2>5. \A q \in Req : Relied(q)' \subseteq Relied(q)
    BY <2>1 DEF Relied
  <2>6. intact' => \A q \in Req : \A id \in Relied(q)' : SettledId(id)'
    BY <2>1, <2>3, <2>5 DEF ViewInv
  <2>7. intact' => Relied(r)' = {} \/ listVersion'[r] = version
    <3> SUFFICES ASSUME intact' PROVE Relied(r)' = {} \/ listVersion'[r] = version
      OBVIOUS
    <3>1. version # Absent
      BY <2>1, ServiceAssumption DEF CacheInv, VersionsPast
    <3>2. CurrentVersion = version
      BY <3>1 DEF CurrentVersion
    <3>3. listVersion'[r] = version \/ r \in misled'
      BY <1>1, <2>1, <3>2 DEF FieldTypes
    <3> QED BY <3>3 DEF Relied
  <2>8. \A q \in Req : q # r => /\ at'[q] = at[q] /\ call'[q] = call[q]
                                 /\ listVersion'[q] = listVersion[q]
    BY <1>1, <2>2 DEF Moves
  <2> QED BY <1>1, <2>1, <2>3, <2>4, <2>5, <2>6, <2>7, <2>8, ViewGoesOn DEF Moves
<1>13. CASE Probe(r)
  BY <1>2, <1>3, <1>13 DEF Probe
<1>14. CASE StatementRefused(r)
  BY <1>2, <1>3, <1>14 DEF StatementRefused
<1> QED BY <1>4, <1>5, <1>6, <1>7, <1>8, <1>9, <1>10, <1>11, <1>12, <1>13, <1>14 DEF Goes

LEMMA LooksView ==
    ASSUME ShapeInv, WaitersAsk, ViewInv, NEW r \in Req, DetailGet(r) \/ ListGet(r)
    PROVE  ViewInv'
<1>1. PICK key : /\ Looks(r, key) /\ Asks(call[r], key)
                 /\ at[r] = "listGet" => key = KeyOf(r)
  BY ReadersAsk
<1>2. /\ UNCHANGED <<table, version, lists, intact, call>>
      /\ at[r] \in {"detailGet", "listGet"}
      /\ \A q \in Req : q # r => listVersion'[q] = listVersion[q]
      /\ \A q \in Req : Relied(q)' = Relied(q)
  BY DEF DetailGet, ListGet, serverVars, processVars, ShapeInv, FieldTypes, Relied
<1>3. /\ FieldTypes /\ CallFits(r)
      /\ \A f \in Req : flight[f] # Absent => FlightFits(f)
  BY DEF ShapeInv
<1>4. /\ \A q \in Req : q # r => at'[q] = at[q]
      /\ at'[r] \in {"done", "wait"}
  <2>1. CASE \E response, content : AnswerAll({r}, response, content)
    BY <1>3, <2>1, Answered
  <2>2. CASE JoinOrLead(r, key)
    BY <1>3, <2>2, JoinsOrLeads DEF FieldTypes
  <2> QED BY <1>1, <2>1, <2>2 DEF Looks
<1>5. \A id : SettledId(id)' <=> SettledId(id)
  BY <1>2, <1>4 DEF SettledId
<1>6. \A id : Row(id)' = Row(id)
  BY <1>2 DEF Row
<1>7. \A q \in Req : at'[q] = "listGet" => at[q] = "listGet" /\ listVersion'[q] = listVersion[q]
  BY <1>2, <1>4
<1>8. intact' => \A q \in Req : \A id \in Relied(q)' : SettledId(id)'
  BY <1>2, <1>5 DEF ViewInv
<1>9. ASSUME \A f \in Req : Filling(f)' => SameFlight(f),
             \A f \in Req : Filling(f)' => \A w \in flight'[f].waiters :
                 \/ w \in flight[f].waiters
                 \/ w \in Req /\ at[w] = "listGet" /\ flight[f].key.version >= listVersion[w]
      PROVE  ViewInv'
  <2>1. \A f \in Req : Filling(f)' => \A w \in flight'[f].waiters : w \in Req
    BY <1>3, <1>9 DEF FlightFits, SameFlight, Filling
  <2> QED BY <1>2, <1>5, <1>6, <1>7, <1>8, <1>9, <2>1, ViewKeeps
<1>10. CASE UNCHANGED flight
  BY <1>2, <1>9, <1>10 DEF Filling, SameFlight
<1>11. ASSUME NEW f \in Req, Joins(r, f), flight[f].key = key PROVE ViewInv'
  <2>1. /\ flight[f] # Absent /\ FlightFits(f) /\ Asks(call[f], key)
        /\ flight'[f] = [flight[f] EXCEPT !.waiters = @ \cup {r}]
        /\ \A h \in Req : h # f => flight'[h] = flight[h]
    BY <1>3, <1>11 DEF Joins, FieldTypes, WaitersAsk
  <2>2. /\ flight'[f].key = flight[f].key /\ flight'[f].step = flight[f].step
        /\ flight'[f].value = flight[f].value
        /\ flight'[f].waiters = flight[f].waiters \cup {r}
    BY <2>1 DEF FlightFits
  <2>3. ASSUME call[f].op = "list"
        PROVE  at[r] = "listGet" /\ flight[f].key.version >= listVersion[r]
    <3>1. call[r].op = "list"
      BY <1>1, <2>1, <2>3, KeyDeterminesRefusal
    <3>2. at[r] = "listGet"
      BY <1>2, <1>3, <3>1 DEF CallFits
    <3>3. flight[f].key.version = listVersion[r] /\ listVersion[r] \in Nat
      BY <1>1, <1>3, <1>11, <3>2 DEF KeyOf, ListKey, FieldTypes
    <3> QED BY <3>2, <3>3
  <2>4. \A g \in Req : Filling(g)' => SameFlight(g)
    BY <1>2, <2>1, <2>2 DEF Filling, SameFlight
  <2>5. \A g \in Req : Filling(g)' => \A w \in flight'[g].waiters :
            \/ w \in flight[g].waiters
            \/ w \in Req /\ at[w] = "listGet" /\ flight[g].key.version >= listVersion[w]
    BY <1>2, <2>1, <2>2, <2>3 DEF Filling
  <2> QED BY <1>9, <2>4, <2>5
<1>12. CASE Leads(r, key)
  <2>1. /\ flight'[r] = [key |-> key, step |-> "read", value |-> Absent,
                         shared |-> TRUE, waiters |-> {r}]
        /\ \A q \in Req : q # r => flight'[q] = flight[q]
    BY <1>3, <1>12 DEF Leads, FieldTypes
  <2>2. \A f \in Req : Filling(f)' => SameFlight(f) /\ flight'[f].waiters = flight[f].waiters
    BY <1>2, <2>1 DEF Filling, SameFlight
  <2> QED BY <1>9, <2>2
<1> QED BY <1>1, <1>10, <1>11, <1>12, JoinsItsKey DEF Looks

LEMMA TurnsView ==
    ASSUME AbsentIsNoPage, ShapeInv, TableInv, WaitersAsk, ViewInv, NEW f \in Req,
           FlightRead(f) \/ FlightReadFails(f) \/ FlightFill(f) \/ FlightTimeout(f)
    PROVE  ViewInv'
<1> USE DEF serverVars, processVars
<1>1. /\ FieldTypes /\ FlightFits(f) /\ flight[f] # Absent
      /\ \A g \in Req : flight[g] # Absent => FlightFits(g)
      /\ Turns(f) /\ UNCHANGED <<env, call, host>>
  BY FlightsTurn DEF ShapeInv, Turns
<1>2. \A q \in Req : at'[q] = at[q] \/ (at'[q] = "done" /\ at[q] = "wait")
  BY <1>1, TurnsWait
<1>3. /\ UNCHANGED <<table, version, listVersion, intact>>
      /\ \A q \in Req : Relied(q)' = Relied(q)
  BY DEF FlightRead, FlightReadFails, FlightFill, FlightTimeout, Relied
<1>4. \A g \in Req : g # f => flight'[g] = flight[g]
  BY <1>1 DEF Turns, ReadDone, Ends, TimesOut, FieldTypes
<1>5. \A id : SettledId(id)' <=> SettledId(id)
  BY <1>1, <1>2 DEF SettledId
<1>6. \A id : Row(id)' = Row(id)
  BY <1>3 DEF Row
<1>7. intact' => \A q \in Req : \A id \in Relied(q)' : SettledId(id)'
  BY <1>3, <1>5 DEF ViewInv
<1>8. \A q \in Req : at'[q] = "listGet" => at[q] = "listGet" /\ listVersion'[q] = listVersion[q]
  BY <1>2, <1>3
<1> DEFINE Good == \/ SameFlight(f) /\ flight'[f].waiters \subseteq flight[f].waiters
                   \/ /\ \A row \in table' : AgreesOn(flight'[f].key, flight'[f].value, row)
                      /\ flight'[f].waiters \subseteq flight[f].waiters
<1>9. ASSUME \A e \in lists' : e \in lists \/ \E g \in Req : /\ Filling(g) /\ e.key = flight[g].key
                                                            /\ e.page = flight[g].value,
             Filling(f)' => Good
      PROVE  ViewInv'
  <2>1. \A g \in Req : g # f /\ Filling(g)' =>
            SameFlight(g) /\ flight'[g].waiters = flight[g].waiters
    BY <1>1, <1>4 DEF Filling, SameFlight
  <2>2. \A g \in Req : Filling(g)' =>
            SameFlight(g) \/ \A row \in table' : AgreesOn(flight'[g].key, flight'[g].value, row)
    BY <1>9, <2>1
  <2>3. \A g \in Req : Filling(g)' => \A w \in flight'[g].waiters : w \in flight[g].waiters
    BY <1>9, <2>1
  <2>4. \A g \in Req : Filling(g)' => \A w \in flight'[g].waiters : w \in Req
    <3>1. \A g \in Req : Filling(g)' => flight[g] # Absent
      BY <1>1, <1>4 DEF Filling
    <3> QED BY <1>1, <2>3, <3>1 DEF FlightFits
  <2> QED BY <1>3, <1>5, <1>6, <1>7, <1>8, <1>9, <2>2, <2>3, <2>4, ViewKeeps
<1>10. CASE FlightTimeout(f)
  <2>1. /\ flight'[f] = [flight[f] EXCEPT !.shared = FALSE, !.waiters = {}] /\ lists' = lists
    BY <1>1, <1>10 DEF FlightTimeout, FieldTypes
  <2>2. Filling(f)' => Good
    BY <1>1, <2>1 DEF FlightFits, Filling, SameFlight
  <2> QED BY <1>9, <2>1, <2>2
<1>11. CASE FlightReadFails(f)
  BY <1>1, <1>9, <1>11 DEF FlightReadFails, Land, FieldTypes, Filling
<1>12. CASE FlightRead(f)
  <2>1. lists' = lists
    BY <1>12 DEF FlightRead
  <2>2. CASE Land(f) BY <1>1, <1>9, <2>1, <2>2 DEF Land, FieldTypes, Filling
  <2>3. CASE /\ ReadErrors(call[f]) = {}
             /\ flight' = [flight EXCEPT ![f].step = "fill", ![f].value = Read(call[f])]
    <3> DEFINE value == Read(call[f])
    <3>0. flight' = [flight EXCEPT ![f].step = "fill", ![f].value = value]
      BY <2>3
    <3> HIDE DEF value
    <3>1. flight'[f] = [flight[f] EXCEPT !.step = "fill", !.value = value]
      BY <1>1, <3>0 DEF FieldTypes
    <3>2. /\ flight'[f].key = flight[f].key /\ flight'[f].value = value
          /\ flight'[f].waiters = flight[f].waiters
      BY <1>1, <3>1 DEF FlightFits
    <3>3. ASSUME call[f].op = "list", NEW row \in table
          PROVE  AgreesOn(flight[f].key, Page(table, call[f].query), row)
      BY <1>1, <2>3, <3>3, PagesAgree DEF WaitersAsk, TableInv
    <3>4. call[f].op = "list" => value = Page(table, call[f].query)
      BY DEF Read, value
    <3>5. Filling(f)' => Good
      BY <1>1, <1>3, <3>2, <3>3, <3>4 DEF Filling
    <3> QED BY <1>9, <2>1, <3>5
  <2> QED BY <1>12, <2>2, <2>3 DEF FlightRead
<1>13. CASE FlightFill(f)
  <2>1. flight'[f] = Absent /\ flight[f].step = "fill"
    BY <1>1, <1>13 DEF FlightFill, Land, Flying, FieldTypes
  <2>2. call[f].op \in {"get", "list"}
    BY <1>1 DEF FlightFits
  <2>3. \/ lists' = lists
        \/ /\ call[f].op # "get"
           /\ lists' \subseteq lists \cup {[key |-> flight[f].key, page |-> flight[f].value]}
    BY <1>13 DEF FlightFill
  <2>4. \A e \in lists' : e \in lists \/ \E g \in Req : /\ Filling(g) /\ e.key = flight[g].key
                                                       /\ e.page = flight[g].value
    BY <1>1, <2>1, <2>2, <2>3 DEF Filling
  <2>5. ~Filling(f)'
    BY <2>1 DEF Filling
  <2> QED BY <1>9, <2>4, <2>5
<1> QED BY <1>10, <1>11, <1>12, <1>13

\* Steps that no request takes: they end requests and flights, and take cached
\* pages away.
Aside == /\ UNCHANGED <<env, table, call, listVersion, reply, next, steady, misled,
                         seen, twice>>
         /\ lists' \subseteq lists
         /\ \A f \in Req : flight'[f] = flight[f] \/ flight'[f] = Absent
         /\ \A q \in Req : at'[q] \in {at[q], "lost"}
         /\ intact' => /\ intact /\ version' = version
                       /\ \A q \in Req : at[q] \in {"del", "bump"} => at'[q] = at[q]

LEMMA StepsOrAside ==
    ASSUME [Next]_vars
    PROVE  \/ \E r \in Req : \/ Send(r) \/ NextPage(r) \/ Limit(r) \/ Goes(r)
                             \/ DetailGet(r) \/ ListGet(r)
                             \/ FlightRead(r) \/ FlightReadFails(r) \/ FlightFill(r)
                             \/ FlightTimeout(r)
           \/ Aside
<1> USE DEF serverVars, processVars, requestVars, historyVars, Aside
<1>1. ASSUME NEW i \in Replica, Boot(i) \/ Connect(i) \/ ConnectFails(i) \/ Terminate(i)
      PROVE  Aside
  BY <1>1 DEF Boot, Connect, ConnectFails, Terminate
<1>2. ASSUME NEW i \in Replica, ExitCleanly(i) PROVE Aside BY <1>2 DEF ExitCleanly
<1>3. ASSUME NEW i \in Replica, ForceExit(i) PROVE Aside
  <2>1. intact' = (intact /\ ~\E r \in Req : host[r] = i /\ at[r] \in {"del", "bump"})
    BY <1>3 DEF ForceExit
  <2>2. intact' => intact /\ ~\E r \in Req : host[r] = i /\ at[r] \in {"del", "bump"}
    BY <2>1, Zenon
  <2>3. \A q \in Req : at'[q] = at[q] \/ (at'[q] = "lost" /\ host[q] = i)
    BY <1>3 DEF ForceExit
  <2> QED BY <1>3, <2>2, <2>3 DEF ForceExit
<1>4. ASSUME NEW id \in Id, ExpireDetail(id) PROVE Aside BY <1>4 DEF ExpireDetail
<1>5. ASSUME NEW entry \in lists, ExpireList(entry) PROVE Aside BY <1>5 DEF ExpireList
<1>6. CASE WindowEnds BY <1>6 DEF WindowEnds
<1>7. CASE RedisLoss BY <1>7 DEF RedisLoss
<1>8. CASE UNCHANGED vars BY <1>8 DEF vars
<1> QED BY <1>1, <1>2, <1>3, <1>4, <1>5, <1>6, <1>7, <1>8
        DEF Next, RequestStep, FlightStep, Goes

LEMMA AsideView ==
    ASSUME ShapeInv, ViewInv, Aside
    PROVE  ViewInv'
<1> USE DEF Aside
<1>0. \A q : Relied(q)' = Relied(q)
  BY DEF Relied
<1>1. intact' => \A id : SettledId(id)' <=> SettledId(id)
  BY DEF SettledId
<1>2. \A id : Row(id)' = Row(id)
  BY DEF Row
<1>3. intact' => \A q \in Req : \A id \in Relied(q)' : SettledId(id)'
  BY <1>0, <1>1 DEF ViewInv
<1>4. \A f \in Req : Filling(f)' => SameFlight(f) /\ \A w \in flight'[f].waiters :
                                                      w \in flight[f].waiters /\ w \in Req
  BY DEF Filling, SameFlight, ShapeInv, FlightFits
<1>5. intact' => \A q \in Req : at'[q] = "listGet" => at[q] = "listGet"
  OBVIOUS
<1> QED BY <1>0, <1>1, <1>2, <1>3, <1>4, <1>5, ViewKeeps

LEMMA ViewStep ==
    ASSUME AbsentIsNoPage, ShapeInv, WritesInv, TableInv, WaitersAsk, CacheInv, SteadyFits,
           ViewInv, [Next]_vars
    PROVE  ViewInv'
<1>1. CASE ~env'.cacheEnabled
  BY <1>1, ShapeStep, CacheStep, ViewUncached
<1>2. CASE env'.cacheEnabled
  <2>1. ASSUME NEW r \in Req, Goes(r) PROVE ViewInv'
    BY <1>2, <2>1, GoesView, GoesMoves DEF Moves
  <2> QED BY <2>1, StepsOrAside, ArrivalsView, LooksView, TurnsView, AsideView
<1> QED BY <1>1, <1>2

-----------------------------------------------------------------------------
(* The walk: what is asked for next is what has not been delivered.        *)

\* A list by name that the schema takes.
NameList(c) == c.op = "list" /\ IsQuery(c.query) /\ c.query.sort \in NameSorts

\* A client that lists by name begins with the first page.
WalksBegin == \A r \in Req : \A c \in CallsOf[r] :
                  NameList(c) => c.query.cursor = Absent \/ ReadErrors(c) # {}

\* The matching rows that the walk counts on.
Staying(r) == {row \in table : row.id \in Relied(r) /\ Matches(row, call[r].query)}

\* While a page is asked for, the walk has had the rows its cursor has passed.
Asked(row, r) ==
    /\ row.id \notin twice[r]
    /\ call[r].query.cursor = Absent \/ IsToken(call[r].query.cursor)
    /\ row.id \in seen[r] <=> Passed(row, call[r].query.cursor, call[r].query)

\* Once it is there, it has had those the next cursor has passed, or all.
Delivered(row, r) ==
    /\ row.id \notin twice[r]
    /\ next[r] = Absent => row.id \in seen[r]
    /\ next[r] # Absent => /\ IsToken(next[r])
                           /\ row.id \in seen[r] <=> Passed(row, next[r], call[r].query)

WalkFits(r) ==
    /\ at[r] = "idle" => seen[r] = {} /\ twice[r] = {}
    /\ at[r] \notin {"idle", "done", "lost"} /\ NameList(call[r]) /\ ReadErrors(call[r]) = {}
           => \A row \in Staying(r) : Asked(row, r)
    /\ at[r] = "done" /\ call[r].op = "list" /\ call[r].query.sort \in NameSorts =>
           /\ reply[r].status = 200 => /\ IsQuery(call[r].query)
                                       /\ \A row \in Staying(r) : Delivered(row, r)
           /\ next[r] # Absent => reply[r].status = 200

WalkInv == intact => \A r \in Req : WalkFits(r)

LEMMA WalkInit == Init => WalkInv
BY DEF Init, WalkInv, WalkFits

LEMMA WalkIsEnough == WalkInv => WalkDeliversOnce
<1> SUFFICES ASSUME WalkInv, intact, NEW r \in Req \ misled, at[r] = "done", reply[r].status = 200,
                    call[r].op = "list", call[r].query.sort \in NameSorts,
                    NEW id \in steady[r], NEW row \in Row(id), Matches(row, call[r].query)
             PROVE  id \notin twice[r] /\ (next[r] = Absent => id \in seen[r])
  BY DEF WalkDeliversOnce
<1>1. row \in Staying(r) /\ row.id = id
  BY DEF Row, Staying, Relied
<1> QED BY <1>1 DEF WalkInv, WalkFits, Delivered

\* A request the step leaves alone.
Untouched(q) == /\ at'[q] \in {at[q], "lost"} /\ call'[q] = call[q] /\ reply'[q] = reply[q]
                /\ next'[q] = next[q] /\ seen'[q] = seen[q] /\ twice'[q] = twice[q]

\* No row comes to a walk that is under way.
NoneComes(q) == \A row \in table' : row.id \in Relied(q)' => row \in table /\ row.id \in Relied(q)

LEMMA UntouchedFits ==
    ASSUME NEW q \in Req, WalkFits(q), Untouched(q), NoneComes(q)
    PROVE  WalkFits(q)'
<1>1. Staying(q)' \subseteq Staying(q)
  BY DEF Staying, NoneComes, Untouched
<1>2. /\ \A row \in Staying(q)' : Asked(row, q) => Asked(row, q)'
      /\ \A row \in Staying(q)' : Delivered(row, q) => Delivered(row, q)'
  BY DEF Asked, Delivered, Untouched
<1> QED BY <1>1, <1>2 DEF WalkFits, Untouched

LEMMA WalkKeeps ==
    ASSUME WalkInv, intact' => intact, NEW rs,
           \A q \in Req : q \notin rs => Untouched(q) /\ NoneComes(q),
           intact' => \A q \in Req : q \in rs => WalkFits(q)'
    PROVE  WalkInv'
BY UntouchedFits DEF WalkInv

\* One request goes on to a call, with its walk as it was.
LEMMA GoingOnFits ==
    ASSUME NEW q \in Req, WalkFits(q), at[q] \notin {"idle", "done", "lost"},
           at'[q] \notin {"idle", "done"}, call'[q] = call[q],
           seen'[q] = seen[q], twice'[q] = twice[q], NoneComes(q)
    PROVE  WalkFits(q)'
<1>1. Staying(q)' \subseteq Staying(q)
  BY DEF Staying, NoneComes
<1>2. \A row \in Staying(q)' : Asked(row, q) => Asked(row, q)'
  BY DEF Asked
<1> QED BY <1>1, <1>2 DEF WalkFits

LEMMA NoListFits ==
    ASSUME NEW q \in Req, call'[q].op # "list", at'[q] # "idle"
    PROVE  WalkFits(q)'
BY DEF WalkFits, NameList

LEMMA FailedFits ==
    ASSUME NEW q \in Req, at'[q] = "done", reply'[q].status # 200, next'[q] = Absent
    PROVE  WalkFits(q)'
BY DEF WalkFits

\* A page that gives the rows their due.
LEMMA ServedFits ==
    ASSUME NEW q \in Req, WalkFits(q), at[q] \notin {"idle", "done", "lost"},
           NEW page, call[q].op = "list", IsQuery(call[q].query),
           \A row \in Staying(q) : call[q].query.sort \in NameSorts =>
               ReadErrors(call[q]) = {} /\ PageServes(page, row, call[q].query),
           call'[q] = call[q], at'[q] = "done", reply'[q].status = 200,
           page # Absent /\ "data" \in DOMAIN page =>
               /\ next'[q] = page.nextCursor
               /\ twice'[q] = twice[q] \cup (seen[q] \cap IdsOf(page))
               /\ seen'[q] = seen[q] \cup IdsOf(page),
           NoneComes(q)
    PROVE  WalkFits(q)'
<1> SUFFICES ASSUME call[q].query.sort \in NameSorts, NEW row \in Staying(q)'
             PROVE  Delivered(row, q)'
  BY DEF WalkFits
<1>1. row \in Staying(q)
  BY DEF Staying, NoneComes
<1>2. /\ PageServes(page, row, call[q].query) /\ Asked(row, q)
      /\ Matches(row, call[q].query)
  BY <1>1 DEF WalkFits, NameList, Staying
<1> QED BY <1>2 DEF PageServes, Asked, Delivered

\* What an answer does to a walk.
LEMMA AnsweredWalk ==
    ASSUME NEW rs, NEW response, NEW content, AnswerAll(rs, response, content), NEW q \in Req
    PROVE  /\ q \in rs => /\ at'[q] = "done" /\ reply'[q] = response
                          /\ content = Absent => next'[q] = Absent
                          /\ content # Absent /\ "data" \in DOMAIN content =>
                                 /\ next'[q] = content.nextCursor
                                 /\ twice'[q] = twice[q] \cup (seen[q] \cap IdsOf(content))
                                 /\ seen'[q] = seen[q] \cup IdsOf(content)
           /\ q \notin rs => /\ at'[q] = at[q] /\ reply'[q] = reply[q] /\ next'[q] = next[q]
                             /\ seen'[q] = seen[q] /\ twice'[q] = twice[q]
<1>1. CASE content # Absent /\ "data" \in DOMAIN content
  BY <1>1 DEF AnswerAll
<1>2. CASE ~(content # Absent /\ "data" \in DOMAIN content)
  BY <1>2 DEF AnswerAll
<1> QED BY <1>1, <1>2

\* No error is a 200.
LEMMA ErrorsFail ==
    ASSUME NEW mark
    PROVE  /\ ErrorResponse(Unknown, mark).status # 200
           /\ ErrorResponse(AppError("NOT_FOUND"), mark).status # 200
           /\ ErrorResponse(AppError("RATE_LIMIT"), mark).status # 200
           /\ \A sqlstate : ErrorResponse(mapDbError(sqlstate), mark).status # 200
           /\ \A c : Refusal(c) # Absent => ErrorResponse(Refusal(c), mark).status # 200
           /\ \A c : \A error \in ReadErrors(c) : ErrorResponse(error, mark).status # 200
<1>1. /\ ErrorResponse(Unknown, mark).status # 200
      /\ ErrorResponse(AppError("NOT_FOUND"), mark).status # 200
      /\ ErrorResponse(AppError("RATE_LIMIT"), mark).status # 200
  BY Statuses
<1>2. /\ ErrorResponse(ValidationError(TRUE), mark).status # 200
      /\ ErrorResponse(ValidationError(FALSE), mark).status # 200
  BY DEF StatusFor, ErrorResponse, PublicResponse, wrapUnknown, normalizeBodyParserError,
         ValidationError
<1>3. \A code \in {"CONFLICT", "DEPENDENCY_UNAVAILABLE", "INTERNAL_ERROR"} :
          ErrorResponse(AppError(code), mark).status # 200
  BY AppErrorStatus DEF ErrorCodes, StatusFor
<1>4. ASSUME NEW sqlstate PROVE ErrorResponse(mapDbError(sqlstate), mark).status # 200
  <2>1. mapDbError(sqlstate) \in {AppError("CONFLICT"), AppError("DEPENDENCY_UNAVAILABLE"),
                                  AppError("INTERNAL_ERROR"), ValidationError(TRUE),
                                  ValidationError(FALSE)}
    BY Zenon DEF mapDbError
  <2>2. /\ ErrorResponse(AppError("CONFLICT"), mark).status # 200
        /\ ErrorResponse(AppError("DEPENDENCY_UNAVAILABLE"), mark).status # 200
        /\ ErrorResponse(AppError("INTERNAL_ERROR"), mark).status # 200
    BY <1>3
  <2> QED BY <1>2, <2>1, <2>2, Zenon
<1>5. ASSUME NEW c, Refusal(c) # Absent PROVE ErrorResponse(Refusal(c), mark).status # 200
  <2>1. CASE c.body \in ParserErrors
    <3>1. PICK type \in ParserTypes : Refusal(c) = BodyParserError(type)
      BY <2>1 DEF Refusal, ParserErrors
    <3>2. ErrorResponse(BodyParserError(type), mark).status \in {400, 500}
      <4>1. CASE type = "entity.parse.failed"
        <5>1. ErrorResponse(BodyParserError("entity.parse.failed"), mark).status = 400
          BY RefusalStatuses
        <5> QED BY <4>1, <5>1, Zenon
      <4>2. CASE type = "entity.too.large"
        <5>1. ErrorResponse(BodyParserError("entity.too.large"), mark).status = 400
          BY RefusalStatuses
        <5> QED BY <4>2, <5>1, Zenon
      <4>3. CASE type \notin {"entity.parse.failed", "entity.too.large"}
        BY <4>3, UnknownParserErrors
      <4> QED BY <4>1, <4>2, <4>3
    <3>3. ErrorResponse(BodyParserError(type), mark).status # 200
      BY <3>2
    <3> QED BY <3>1, <3>3, Zenon
  <2>2. CASE c.body \notin ParserErrors
    <3>1. Refusal(c) \in {Unknown, ValidationError(FALSE), ValidationError(TRUE)}
      BY <1>5, <2>2 DEF Refusal
    <3> QED BY <1>1, <1>2, <3>1, Zenon
  <2> QED BY <2>1, <2>2
<1>6. ASSUME NEW c, NEW error \in ReadErrors(c) PROVE ErrorResponse(error, mark).status # 200
  <2>1. error = ValidationError(FALSE) \/ \E sqlstate : error = mapDbError(sqlstate)
    BY <1>6, Zenon DEF ReadErrors
  <2>2. CASE error = ValidationError(FALSE)
    BY <1>2, <2>2, Zenon
  <2>3. ASSUME NEW sqlstate, error = mapDbError(sqlstate)
        PROVE  ErrorResponse(error, mark).status # 200
    <3>1. ErrorResponse(mapDbError(sqlstate), mark).status # 200
      BY <1>4
    <3> QED BY <2>3, <3>1, Zenon
  <2> QED BY <2>1, <2>2, <2>3
<1> QED BY <1>1, <1>4, <1>5, <1>6

\* A statement that writes takes its row from the walks.
LEMMA CommitsDisturb ==
    ASSUME ShapeInv, WritesInv, TableInv, NEW r \in Req, Goes(r)
    PROVE  table' = table \/ \E id : Disturb(id) /\ \A x \in table' : x.id # id => x \in table
<1> USE DEF serverVars
<1>0. \A id, body, now : NewRow(id, body, now).id = id
  BY DEF NewRow
<1>1. CASE Insert(r)
  BY <1>0, <1>1 DEF Insert, Committed
<1>2. ASSUME at[r] \in {"update", "delete"}, ValueErrors(call[r]) = {}, used' = used,
             Row(call[r].id) # {}, table' = Rewritten(call[r])
      PROVE  \A x \in table' : x.id # call[r].id => x \in table
  <2>1. Rewrites(table', call[r].id)
    BY <1>2, WriteRewrites
  <2> QED BY <2>1 DEF Rewrites, Row
<1>3. CASE Write(r)
  BY <1>2, <1>3 DEF Write, Committed
<1>4. CASE StatementFails(r)
  <2>1. \/ table' = table
        \/ /\ at[r] \in {"update", "delete"} /\ used' = used /\ Row(call[r].id) # {}
           /\ ValueErrors(call[r]) = {}
           /\ table' = Rewritten(call[r]) /\ Disturb(call[r].id)
        \/ \E id : table' = table \cup {NewRow(id, call[r].body, clock)} /\ Disturb(id)
    BY <1>4 DEF StatementFails, Committed
  <2> QED BY <1>0, <1>2, <2>1
<1>5. CASE LimitFails(r) \/ StatementRefused(r) \/ Del(r) \/ Bump(r) \/ Select(r)
           \/ SelectFails(r) \/ VersionGet(r) \/ Probe(r)
  BY <1>5 DEF LimitFails, StatementRefused, Del, Bump, Select, SelectFails, VersionGet, Probe
<1> QED BY <1>1, <1>3, <1>4, <1>5 DEF Goes

LEMMA NobodyComes ==
    ASSUME ShapeInv, WritesInv, TableInv, SteadyFits, [Next]_vars
    PROVE  \A q \in Req : NoneComes(q) \/ (at[q] = "idle" /\ at'[q] # "idle")
<1>0. \A q \in Req : Send(q) => at[q] = "idle" /\ at'[q] # "idle"
  <2>1. \A q \in Req : Send(q) => Arrives(q) /\ at[q] = "idle"
    BY RequestsArrive DEF Send
  <2> QED BY <2>1 DEF Arrives
<1>1. CASE table' = table
  BY <1>0, <1>1, SteadySteps DEF NoneComes
<1>2. CASE table' # table
  <2>1. PICK r \in Req : Goes(r)
    BY <1>2, StepsOrAside
       DEF Aside, Send, NextPage, Accept, Limit, DetailGet, ListGet, FlightRead,
           FlightReadFails, FlightFill, FlightTimeout, serverVars
  <2>2. PICK id : Disturb(id) /\ \A x \in table' : x.id # id => x \in table
    BY <1>2, <2>1, CommitsDisturb
  <2>3. \A q \in Req : ~Send(q)
    BY <1>2 DEF Send, Accept, serverVars
  <2>4. \A q \in Req : Relied(q)' \subseteq Relied(q)
    BY <2>3, SteadySteps
  <2>5. \A q \in Req : id \notin Relied(q)'
    BY <2>2 DEF Disturb, Relied
  <2> QED BY <2>2, <2>4, <2>5 DEF NoneComes
<1> QED BY <1>1, <1>2

\* A request that is about to ask, or has been refused.
LEMMA HandleFits ==
    ASSUME ShapeInv, NEW r \in Req, NEW c, IsCall(c), call'[r] = c, Handle(r, c),
           NameList(c) /\ ReadErrors(c) = {} /\ seen'[r] = seen[r] /\ twice'[r] = twice[r]
               => \A row \in Staying(r)' : Asked(row, r)'
    PROVE  WalkFits(r)'
<1>1. CASE c.op = "liveness" /\ Answer(r, Ok(200, Absent), Absent)
  BY <1>1, AnsweredWalk, NoListFits DEF Answer
<1>2. CASE Refusal(c) # Absent /\ Answer(r, ErrorResponse(Refusal(c), Absent), Absent)
  BY <1>2, AnsweredWalk, ErrorsFail, FailedFits DEF Answer
<1>3. CASE Refusal(c) = Absent /\ c.op # "liveness" /\ GoTo(r, FirstStep(c))
  <2>1. FirstStep(c) \in {"insert", "update", "delete", "health", "detailGet",
                          "versionGet", "select"}
    BY <1>3, FirstStepFits
  <2>2. at'[r] = FirstStep(c) /\ seen' = seen /\ twice' = twice
    BY <1>3 DEF GoTo, ShapeInv, FieldTypes
  <2> QED BY <2>1, <2>2 DEF WalkFits
<1> QED BY <1>1, <1>2, <1>3 DEF Handle

LEMMA OthersUntouched ==
    ASSUME NEW r \in Req, \A q \in Req : q # r => call'[q] = call[q],
           \/ \E step : GoTo(r, step)
           \/ \E response, content : Answer(r, response, content)
           \/ \E c : Handle(r, c),
           FieldTypes
    PROVE  \A q \in Req : q # r => Untouched(q)
<1>1. CASE \E step : GoTo(r, step)
  BY <1>1 DEF GoTo, FieldTypes, Untouched
<1>2. ASSUME NEW response, NEW content, Answer(r, response, content)
      PROVE  \A q \in Req : q # r => Untouched(q)
  BY <1>2, AnsweredWalk DEF Answer, Untouched
<1>3. ASSUME NEW c, Handle(r, c)
      PROVE  \/ \E step : GoTo(r, step)
             \/ \E response, content : Answer(r, response, content)
  BY <1>3 DEF Handle
<1> QED BY <1>1, <1>2, <1>3

LEMMA AcceptFits ==
    ASSUME ShapeInv, NEW r \in Req, NEW c, NEW i, IsCall(c), Accept(r, c, i),
           NameList(c) /\ ReadErrors(c) = {} /\ call'[r] = c
                   /\ seen'[r] = seen[r] /\ twice'[r] = twice[r]
               => \A row \in Staying(r)' : Asked(row, r)'
    PROVE  WalkFits(r)' /\ \A q \in Req : q # r => Untouched(q)
<1>1. /\ call' = [call EXCEPT ![r] = c] /\ FieldTypes
      /\ GoTo(r, "limit") \/ Handle(r, c)
  BY DEF Accept, ShapeInv
<1>2. call'[r] = c /\ \A q \in Req : q # r => call'[q] = call[q]
  BY <1>1 DEF FieldTypes
<1>3. \A q \in Req : q # r => Untouched(q)
  BY <1>1, <1>2, OthersUntouched
<1>4. CASE GoTo(r, "limit")
  <2>1. at'[r] = "limit" /\ seen' = seen /\ twice' = twice
    BY <1>1, <1>4 DEF GoTo, FieldTypes
  <2> QED BY <1>2, <1>3, <2>1 DEF WalkFits
<1>5. CASE Handle(r, c)
  BY <1>2, <1>3, <1>5, HandleFits
<1> QED BY <1>1, <1>4, <1>5

LEMMA ArrivalsWalk ==
    ASSUME WalksBegin, ShapeInv, SteadyFits, WalkInv, NEW r \in Req,
           Send(r) \/ NextPage(r) \/ Limit(r)
    PROVE  WalkInv'
<1>1. /\ UNCHANGED <<table, intact>> /\ FieldTypes /\ CallFits(r)
      /\ \A q \in Req : q # r => Relied(q)' = Relied(q)
  BY DEF Send, NextPage, Limit, Accept, serverVars, ShapeInv, SteadyFits, Relied
<1>2. \A q \in Req : q # r => NoneComes(q)
  BY <1>1 DEF NoneComes
<1> SUFFICES ASSUME intact'
             PROVE  WalkFits(r)' /\ \A q \in Req : q # r => Untouched(q)
  <2>1. (intact' => WalkFits(r)' /\ \A q \in Req : q # r => Untouched(q)) => WalkInv'
    <3>1. CASE ~intact' BY <3>1 DEF WalkInv
    <3>2. CASE intact' BY <1>1, <1>2, <3>2, UntouchedFits DEF WalkInv
    <3> QED BY <3>1, <3>2
  <2> QED BY <2>1
<1>3. WalkFits(r)
  BY <1>1 DEF WalkInv
<1>4. CASE Send(r)
  <2>1. PICK c \in CallsOf[r], i \in Replica : at[r] = "idle" /\ Accept(r, c, i)
    BY <1>4 DEF Send
  <2>2. IsCall(c)
    BY <2>1, ServiceAssumption
  <2>3. seen[r] = {} /\ twice[r] = {}
    BY <1>3, <2>1 DEF WalkFits
  <2>4. NameList(c) /\ ReadErrors(c) = {} => c.query.cursor = Absent
    BY DEF WalksBegin
  <2>5. NameList(c) /\ ReadErrors(c) = {} /\ call'[r] = c
              /\ seen'[r] = seen[r] /\ twice'[r] = twice[r]
            => \A row \in Staying(r)' : Asked(row, r)'
    BY <2>3, <2>4 DEF Asked, Passed
  <2> QED BY <2>1, <2>2, <2>5, AcceptFits
<1>5. CASE NextPage(r)
  <2> DEFINE c == [call[r] EXCEPT !.query.cursor = next[r]]
  <2>1. PICK i \in Replica : /\ at[r] = "done" /\ next[r] # Absent /\ call[r].op = "list"
                             /\ Accept(r, c, i) /\ Relied(r)' = Relied(r)
    BY <1>5 DEF NextPage, Accept, Relied
  <2>2. IsCall(call[r]) /\ IsQuery(call[r].query)
    BY <1>1, <2>1 DEF CallFits
  <2>3. /\ DOMAIN c = {"op", "ip", "id", "body", "query"} /\ c.op = "list"
        /\ c.query = [call[r].query EXCEPT !.cursor = next[r]]
    BY <2>1, <2>2 DEF IsCall
  <2>4. IsQuery(c.query) /\ c.query.cursor = next[r] /\ c.query.sort = call[r].query.sort
    <3>1. c.query.cursor = next[r] /\ c.query.sort = call[r].query.sort
      BY <2>2, <2>3 DEF IsQuery
    <3> QED BY <2>2, <2>3, <3>1, QueryWithCursor
  <2>5. IsCall(c)
    <3>1. c.body = call[r].body /\ c.id = call[r].id
      BY <2>2 DEF IsCall
    <3> QED BY <2>1, <2>2, <2>3, <2>4, <3>1 DEF IsCall
  <2>6. \A row : /\ Matches(row, c.query) <=> Matches(row, call[r].query)
                 /\ \A token : Passed(row, token, c.query) <=> Passed(row, token, call[r].query)
    BY <2>2, <2>3, <2>4 DEF Matches, Passed, IsQuery
  <2> HIDE DEF c
  <2>7. ASSUME NameList(c), call'[r] = c, seen'[r] = seen[r], twice'[r] = twice[r],
               NEW row \in Staying(r)'
        PROVE  Asked(row, r)'
    <3>1. row \in Staying(r)
      BY <1>1, <2>1, <2>6, <2>7 DEF Staying
    <3>2. Delivered(row, r)
      BY <1>3, <2>1, <2>4, <2>7, <3>1 DEF WalkFits, NameList
    <3> QED BY <2>1, <2>4, <2>6, <2>7, <3>2 DEF Delivered, Asked
  <2> QED BY <2>1, <2>5, <2>7, AcceptFits
<1>6. CASE Limit(r)
  <2>1. /\ at[r] = "limit" /\ call' = call /\ Relied(r)' = Relied(r)
        /\ \/ Handle(r, call[r])
           \/ Answer(r, ErrorResponse(AppError("RATE_LIMIT"), Absent), Absent)
    BY <1>6 DEF Limit, Relied
  <2>2. \A q \in Req : q # r => Untouched(q)
    BY <1>1, <2>1, OthersUntouched
  <2>3. IsCall(call[r])
    BY <1>1, <2>1 DEF CallFits
  <2>4. ASSUME NameList(call[r]), ReadErrors(call[r]) = {},
               seen'[r] = seen[r], twice'[r] = twice[r], NEW row \in Staying(r)'
        PROVE  Asked(row, r)'
    <3>1. row \in Staying(r)
      BY <1>1, <2>1, <2>4 DEF Staying
    <3>2. Asked(row, r)
      BY <1>3, <2>1, <2>4, <3>1 DEF WalkFits
    <3> QED BY <2>1, <2>4, <3>2 DEF Asked
  <2>5. CASE Handle(r, call[r])
    BY <2>1, <2>2, <2>3, <2>4, <2>5, HandleFits
  <2>6. CASE Answer(r, ErrorResponse(AppError("RATE_LIMIT"), Absent), Absent)
    BY <2>2, <2>6, AnsweredWalk, ErrorsFail, FailedFits DEF Answer
  <2> QED BY <2>1, <2>5, <2>6
<1> QED BY <1>4, <1>5, <1>6

LEMMA GoesAnswer ==
    ASSUME NEW r \in Req, Goes(r)
    PROVE  (\E step : GoTo(r, step)) \/ (\E response, content : Answer(r, response, content))
BY DEF Goes, LimitFails, Insert, Write, StatementFails, StatementRefused, Del, Bump, Select,
       SelectFails, VersionGet, Probe, AfterWrite

LEMMA GoesWalk ==
    ASSUME AbsentIsNoPage, ShapeInv, WritesInv, TableInv, WalkInv, NEW r \in Req, Goes(r),
           \A q \in Req : NoneComes(q), intact' => intact
    PROVE  WalkInv'
<1>1. Moves(r) /\ FieldTypes /\ CallFits(r) /\ WritesFit(r)
  BY GoesMoves DEF ShapeInv, WritesInv
<1>2. \A q \in Req : q # r => Untouched(q)
  <2>1. \A q \in Req : q # r => call'[q] = call[q]
    BY <1>1 DEF Moves
  <2> QED BY <1>1, <2>1, GoesAnswer, OthersUntouched
<1> SUFFICES ASSUME intact' PROVE WalkFits(r)'
  <2>1. (intact' => WalkFits(r)') => WalkInv'
    <3>1. CASE ~intact' BY <3>1 DEF WalkInv
    <3>2. CASE intact' BY <1>2, <3>2, UntouchedFits DEF WalkInv
    <3> QED BY <3>1, <3>2
  <2> QED BY <2>1
<1>3. WalkFits(r)
  BY DEF WalkInv
<1>4. CASE call[r].op # "list"
  <2>1. call'[r].op # "list" /\ at'[r] # "idle"
    BY <1>1, <1>4 DEF Moves
  <2> QED BY <2>1, NoListFits
<1>5. ASSUME NEW response, response.status # 200, Answer(r, response, Absent)
      PROVE  WalkFits(r)'
  BY <1>5, AnsweredWalk, FailedFits DEF Answer
<1>6. CASE LimitFails(r) BY <1>5, <1>6, ErrorsFail DEF LimitFails
<1>7. CASE \/ Insert(r) \/ Write(r) \/ StatementFails(r) \/ StatementRefused(r)
           \/ Del(r) \/ Bump(r) \/ Probe(r)
  <2>1. at[r] \in {"insert", "update", "delete", "del", "bump", "health"}
    BY <1>7 DEF Insert, Write, StatementFails, StatementRefused, Del, Bump, Probe
  <2>2. call[r].op # "list"
    BY <1>1, <2>1 DEF WritesFit
  <2> QED BY <1>4, <2>2
<1>8. CASE SelectFails(r) BY <1>5, <1>8, ErrorsFail DEF SelectFails
<1>9. CASE Select(r)
  <2>1. at[r] = "select" /\ call' = call
    BY <1>9 DEF Select
  <2>2. ASSUME NEW error \in ReadErrors(call[r]),
               Answer(r, ErrorResponse(error, MarkOnError(call[r])), Absent)
        PROVE  WalkFits(r)'
    BY <1>5, <2>2, ErrorsFail
  <2> DEFINE value == Read(call[r])
  <2>3. CASE /\ ReadErrors(call[r]) = {} /\ call[r].op = "list"
             /\ Answer(r, ReadResponse(call[r], value, "BYPASS"), value)
    <3>1. IsQuery(call[r].query)
      BY <1>1, <2>1, <2>3 DEF CallFits, Active
    <3>2. value = Page(table, call[r].query)
      BY <2>3 DEF Read
    <3>3. \A row \in Staying(r) : call[r].query.sort \in NameSorts =>
              PageServes(value, row, call[r].query)
      BY <3>1, <3>2, PagesServe DEF Staying, TableInv
    <3> HIDE DEF value
    <3>4. CASE value = Absent
      <4>1. ReadResponse(call[r], value, "BYPASS").status # 200
        BY <3>4, ErrorsFail DEF ReadResponse
      <4> QED BY <1>5, <2>3, <3>4, <4>1
    <3>5. CASE value # Absent
      <4>1. ReadResponse(call[r], value, "BYPASS").status = 200
        BY <3>5, Statuses DEF ReadResponse
      <4>2. /\ at'[r] = "done" /\ reply'[r] = ReadResponse(call[r], value, "BYPASS")
            /\ value # Absent /\ "data" \in DOMAIN value =>
                   /\ next'[r] = value.nextCursor
                   /\ twice'[r] = twice[r] \cup (seen[r] \cap IdsOf(value))
                   /\ seen'[r] = seen[r] \cup IdsOf(value)
        BY <2>3, AnsweredWalk DEF Answer
      <4> QED BY <1>3, <2>1, <2>3, <3>1, <3>3, <4>1, <4>2, ServedFits
    <3> QED BY <3>4, <3>5
  <2> QED BY <1>4, <1>9, <2>2, <2>3 DEF Select
<1>10. CASE VersionGet(r)
  <2>1. at[r] = "versionGet" /\ call' = call /\ GoTo(r, "listGet")
    BY <1>10 DEF VersionGet
  <2>2. at'[r] = "listGet" /\ seen' = seen /\ twice' = twice
    BY <1>1, <2>1 DEF GoTo, FieldTypes
  <2> QED BY <1>3, <2>1, <2>2, GoingOnFits
<1> QED BY <1>6, <1>7, <1>8, <1>9, <1>10 DEF Goes

\* A page that gives its due to every row a reader's walk counts on.
LEMMA AgreedFits ==
    ASSUME NEW q \in Req, WalkFits(q), at[q] \notin {"idle", "done", "lost"},
           NEW key, NEW page, call[q].op = "list", Asks(call[q], key),
           \A id \in Relied(q) : Agrees(key, page, id),
           NEW response, response.status = 200, call'[q] = call[q],
           NEW rs, q \in rs, AnswerAll(rs, response, page), NoneComes(q)
    PROVE  WalkFits(q)'
<1>1. IsQuery(call[q].query)
  BY DEF Asks
<1>2. \A row \in Staying(q) : call[q].query.sort \in NameSorts =>
          ReadErrors(call[q]) = {} /\ PageServes(page, row, call[q].query)
  BY DEF Staying, Row, Agrees, AgreesOn
<1>3. /\ at'[q] = "done" /\ reply'[q].status = 200
      /\ page # Absent /\ "data" \in DOMAIN page =>
             /\ next'[q] = page.nextCursor
             /\ twice'[q] = twice[q] \cup (seen[q] \cap IdsOf(page))
             /\ seen'[q] = seen[q] \cup IdsOf(page)
  BY AnsweredWalk
<1> QED BY <1>1, <1>2, <1>3, ServedFits

LEMMA LooksWalk ==
    ASSUME ShapeInv, ViewInv, WalkInv, NEW r \in Req, DetailGet(r) \/ ListGet(r),
           \A q \in Req : NoneComes(q)
    PROVE  WalkInv'
<1>1. /\ FieldTypes /\ CallFits(r)
      /\ UNCHANGED <<table, lists, intact, call>>
      /\ at[r] \in {"detailGet", "listGet"}
  BY DEF DetailGet, ListGet, serverVars, processVars, ShapeInv
<1>2. \/ GoTo(r, "wait")
      \/ \E response, content : Answer(r, response, content)
  BY DEF DetailGet, ListGet, JoinOrLead
<1>3. \A q \in Req : q # r => Untouched(q)
  BY <1>1, <1>2, OthersUntouched
<1> SUFFICES ASSUME intact' PROVE WalkFits(r)'
  <2>1. (intact' => WalkFits(r)') => WalkInv'
    <3>1. CASE ~intact' BY <3>1 DEF WalkInv
    <3>2. CASE intact' BY <1>1, <1>3, <3>2, UntouchedFits DEF WalkInv
    <3> QED BY <3>1, <3>2
  <2> QED BY <2>1
<1>4. WalkFits(r)
  BY <1>1 DEF WalkInv
<1>5. CASE GoTo(r, "wait")
  <2>1. at'[r] = "wait" /\ seen' = seen /\ twice' = twice
    BY <1>1, <1>5 DEF GoTo, FieldTypes
  <2> QED BY <1>1, <1>4, <2>1, GoingOnFits
<1>6. CASE DetailGet(r)
  <2>1. at'[r] \in {"done", "wait"}
    <3>1. CASE GoTo(r, "wait") BY <1>1, <3>1 DEF GoTo, FieldTypes
    <3>2. CASE \E response, content : Answer(r, response, content)
      BY <3>2, AnsweredWalk DEF Answer
    <3> QED BY <1>2, <3>1, <3>2
  <2>2. call'[r].op # "list"
    BY <1>1, <1>6 DEF DetailGet, CallFits
  <2> QED BY <2>1, <2>2, NoListFits
<1>7. CASE ListGet(r) /\ ~GoTo(r, "wait")
  <2>1. PICK page \in CachedUnder(KeyOf(r)) : Answer(r, Ok(200, "HIT"), page)
    BY <1>7 DEF ListGet, JoinOrLead
  <2>2. PICK e \in lists : e.key = KeyOf(r) /\ page = e.page
    BY DEF CachedUnder
  <2>3. /\ at[r] = "listGet" /\ call[r].op = "list" /\ IsQuery(call[r].query)
        /\ KeyOf(r).version = listVersion[r] /\ listVersion[r] \in Nat
    BY <1>1, <1>7 DEF ListGet, CallFits, Active, KeyOf, ListKey, FieldTypes
  <2>4. Asks(call[r], KeyOf(r))
    BY <2>3 DEF Asks, KeyOf
  <2>5. \A id \in Relied(r) : Agrees(KeyOf(r), page, id)
    BY <1>1, <2>2, <2>3 DEF ViewInv, AgreesFrom
  <2>6. Ok(200, "HIT").status = 200 /\ AnswerAll({r}, Ok(200, "HIT"), page)
    BY <2>1, Statuses DEF Answer
  <2> QED BY <1>1, <1>4, <2>3, <2>4, <2>5, <2>6, AgreedFits
<1> QED BY <1>5, <1>6, <1>7

LEMMA TurnsWalk ==
    ASSUME ShapeInv, WaitersAsk, ViewInv, WalkInv, NEW f \in Req,
           FlightRead(f) \/ FlightReadFails(f) \/ FlightFill(f) \/ FlightTimeout(f),
           \A q \in Req : NoneComes(q)
    PROVE  WalkInv'
<1> USE DEF serverVars, processVars
<1>1. /\ FieldTypes /\ FlightFits(f) /\ flight[f] # Absent /\ call' = call
      /\ Asks(call[f], flight[f].key)
      /\ \A w \in flight[f].waiters : Asks(call[w], flight[f].key)
  BY FlightsTurn DEF ShapeInv, Turns, WaitersAsk
<1>2. UNCHANGED <<table, intact>>
  BY DEF FlightRead, FlightReadFails, FlightFill, FlightTimeout
<1>3. \A w \in flight[f].waiters : w \in Req /\ at[w] = "wait"
  BY <1>1 DEF FlightFits
<1>4. CASE UNCHANGED <<at, reply, next, seen, twice>>
  <2>1. \A q \in Req : Untouched(q)
    BY <1>1, <1>4 DEF Untouched
  <2> QED BY <1>2, <2>1, UntouchedFits DEF WalkInv
<1>5. ASSUME NEW response, NEW content, AnswerAll(flight[f].waiters, response, content),
             intact' => \A w \in flight[f].waiters : WalkFits(w) => WalkFits(w)'
      PROVE  WalkInv'
  <2>1. \A q \in Req : q \notin flight[f].waiters => Untouched(q)
    BY <1>1, <1>5, AnsweredWalk DEF Untouched
  <2>2. intact' => \A q \in Req : q \in flight[f].waiters => WalkFits(q)'
    BY <1>2, <1>5 DEF WalkInv
  <2> QED BY <1>2, <2>1, <2>2, WalkKeeps
<1>6. ASSUME NEW response, AnswerAll(flight[f].waiters, response, Absent), response.status # 200
      PROVE  WalkInv'
  <2>1. \A w \in flight[f].waiters : WalkFits(w)'
    BY <1>3, <1>6, AnsweredWalk, FailedFits
  <2> QED BY <1>5, <1>6, <2>1
<1>7. CASE FlightTimeout(f)
  BY <1>6, <1>7, ErrorsFail DEF FlightTimeout, Reject
<1>8. CASE FlightReadFails(f)
  BY <1>6, <1>8, ErrorsFail DEF FlightReadFails, Reject
<1>9. CASE FlightRead(f)
  <2>1. ASSUME NEW error \in ReadErrors(call[f]), Reject(f, error) PROVE WalkInv'
    BY <1>6, <2>1, ErrorsFail DEF Reject
  <2>2. CASE AnswerAll(flight[f].waiters, ReadResponse(call[f], Absent, "MISS"), Absent)
    <3>1. ReadResponse(call[f], Absent, "MISS").status # 200
      BY ErrorsFail DEF ReadResponse
    <3> QED BY <1>6, <2>2, <3>1
  <2> QED BY <1>4, <1>9, <2>1, <2>2 DEF FlightRead
<1>10. CASE FlightFill(f)
  <2> DEFINE value == flight[f].value
  <2>1. AnswerAll(flight[f].waiters, Ok(200, "MISS"), value) /\ flight[f].step = "fill"
    BY <1>10 DEF FlightFill, Flying
  <2>2. Ok(200, "MISS").status = 200
    BY Statuses
  <2>3. ASSUME intact', NEW w \in flight[f].waiters, WalkFits(w) PROVE WalkFits(w)'
    <3>1. w \in Req /\ at[w] = "wait" /\ Asks(call[w], flight[f].key)
      BY <1>1, <1>3
    <3>2. CASE call[w].op = "list"
      <4>1. call[f].op = "list"
        BY <1>1, <3>1, <3>2, KeyDeterminesRefusal
      <4>2. \A id \in Relied(w) : Agrees(flight[f].key, value, id)
        BY <1>1, <1>2, <2>1, <2>3, <4>1 DEF ViewInv, Filling
      <4> DEFINE key      == flight[f].key
                 waiters  == flight[f].waiters
                 response == Ok(200, "MISS")
      <4>3. /\ response.status = 200 /\ AnswerAll(waiters, response, value)
            /\ Asks(call[w], key) /\ w \in waiters /\ w \in Req
            /\ \A id \in Relied(w) : Agrees(key, value, id)
            /\ call'[w] = call[w] /\ NoneComes(w)
        BY <1>1, <2>1, <2>2, <2>3, <3>1, <4>2
      <4> HIDE DEF key, waiters, response, value
      <4> QED BY <2>3, <3>1, <3>2, <4>3, AgreedFits
    <3>3. CASE call[w].op # "list"
      <4>1. at'[w] = "done"
        BY <2>1, <3>1, AnsweredWalk
      <4> QED BY <1>1, <3>1, <3>3, <4>1, NoListFits
    <3> QED BY <3>2, <3>3
  <2> HIDE DEF value
  <2> QED BY <1>5, <2>1, <2>3
<1> QED BY <1>7, <1>8, <1>9, <1>10

LEMMA WalkStep ==
    ASSUME AbsentIsNoPage, WalksBegin, ShapeInv, WritesInv, TableInv, WaitersAsk, SteadyFits,
           ViewInv, WalkInv, [Next]_vars
    PROVE  WalkInv'
<1>1. \A q \in Req : NoneComes(q) \/ (at[q] = "idle" /\ at'[q] # "idle")
  BY NobodyComes
<1>2. ASSUME NEW r \in Req, Goes(r) PROVE WalkInv'
  <2>1. \A q \in Req : at[q] = "idle" => at'[q] = "idle"
    BY <1>2, GoesMoves DEF Moves
  <2>2. intact' => intact
    BY <1>2 DEF Goes, LimitFails, Insert, Write, StatementFails, StatementRefused, Del, Bump,
                Select, SelectFails, VersionGet, Probe
  <2>3. \A q \in Req : NoneComes(q)
    BY <1>1, <2>1
  <2> QED BY <1>2, <2>2, <2>3, GoesWalk
<1>3. ASSUME NEW r \in Req, DetailGet(r) \/ ListGet(r) PROVE WalkInv'
  <2>1. table' = table /\ \A q \in Req : Relied(q)' = Relied(q)
    BY <1>3 DEF DetailGet, ListGet, serverVars, Relied
  <2>2. \A q \in Req : NoneComes(q)
    BY <2>1 DEF NoneComes
  <2> QED BY <1>3, <2>2, LooksWalk
<1>4. ASSUME NEW r \in Req, FlightRead(r) \/ FlightReadFails(r) \/ FlightFill(r) \/ FlightTimeout(r)
      PROVE  WalkInv'
  <2>1. table' = table /\ \A q \in Req : Relied(q)' = Relied(q)
    BY <1>4 DEF FlightRead, FlightReadFails, FlightFill, FlightTimeout, serverVars, Relied
  <2>2. \A q \in Req : NoneComes(q)
    BY <2>1 DEF NoneComes
  <2> QED BY <1>4, <2>2, TurnsWalk
<1>5. CASE Aside
  <2>1. \A q \in Req : NoneComes(q) /\ Untouched(q)
    BY <1>5 DEF Aside, NoneComes, Untouched, Relied
  <2>2. intact' => intact
    BY <1>5 DEF Aside
  <2> QED BY <2>1, <2>2, UntouchedFits DEF WalkInv
<1> QED BY <1>2, <1>3, <1>4, <1>5, StepsOrAside, ArrivalsWalk

-----------------------------------------------------------------------------
(* WalkDeliversOnce: a client that has followed the cursors to the end has *)
(* got every matching row that was there all the time, once.  Proved for   *)
(* clients that begin with the first page.                                 *)
THEOREM WalksDeliverOnce ==
    ASSUME InitVersion \in Nat \ {0}, AbsentIsNoPage, WalksBegin
    PROVE  Spec => []WalkDeliversOnce
<1> DEFINE Inv == /\ ShapeInv /\ WritesInv /\ TableInv /\ CacheInv /\ WaitersAsk
                  /\ SteadyFits /\ ViewInv /\ WalkInv
<1>1. Init => Inv
  <2>1. Init => WaitersAsk /\ SteadyFits
    BY DEF Init, WaitersAsk, SteadyFits
  <2> QED BY <2>1, ShapeInit, WritesInit, TableInit, CacheInit, ViewInit, WalkInit
<1>2. Inv /\ [Next]_vars => Inv'
  BY ShapeStep, WritesStep, TableStep, CacheStep, WaitersAskStep, SteadySteps, ViewStep,
     WalkStep
<1>3. Inv => WalkDeliversOnce
  BY WalkIsEnough
<1> QED BY <1>1, <1>2, <1>3, PTL DEF Spec
=============================================================================
