--------------------------- MODULE ResourcePages ---------------------------
(***************************************************************************)
(* What a list request of the resource service (problem5) asks, and the    *)
(* page it gets: filters, keyset predicate, order, LIMIT limit + 1, the    *)
(* cursor of the next page, and the keys under which pages and rows are    *)
(* cached.  These are functions of the table and the query; when they are  *)
(* evaluated is ResourceService's business.                                *)
(*                                                                         *)
(* Ids, names and times are naturals: only their order matters.  Postgres  *)
(* keeps microseconds (timestamptz, now()); a Date keeps milliseconds, and *)
(* every row passes through one on its way out.                            *)
(***************************************************************************)
EXTENDS Naturals, FiniteSets, Sequences

CONSTANTS Absent,   \* an optional field that is not given; SQL NULL; no row
          Null,     \* null, given in a body
          Bad,      \* a value the schema refuses: too long, empty, not a uuid
          Unfit,    \* a value that schemas and codecs take and Postgres refuses:
                    \* U+0000 in a string or in metadata, half a surrogate
                    \* pair in metadata, a cursor's id that is no uuid, a
                    \* cursor's time before 4713 BC
          UsPerMs   \* microseconds in a millisecond (1000; smaller here)

ASSUME PagesAssumption == UsPerMs \in Nat \ {0}

TimestampSorts == {"-createdAt", "createdAt", "-updatedAt", "updatedAt"}
NameSorts      == {"name", "-name"}
SortValues     == TimestampSorts \cup NameSorts

\* new Date(t), or a timestamptz read by the driver.
JsDate(t) == t - (t % UsPerMs)

\* The columns of a row; those that order it are never NULL.
IsRow(row) ==
    /\ DOMAIN row = {"id", "name", "type", "status", "tags", "owner", "metadata",
                     "created", "updated"}
    /\ row.id \in Nat /\ row.name \in Nat

\* The primary key tells the rows apart.
IsTable(rows) == /\ IsFiniteSet(rows)
                 /\ \A row \in rows : IsRow(row)
                 /\ \A row, other \in rows : row.id = other.id => row = other

\* A row as the program sees it.
Fetched(row) == [row EXCEPT !.created = JsDate(@), !.updated = JsDate(@)]

---------------------------------------------------------------------------
(* Sorting *)

SortConfigFor(sort) ==
    [column |-> IF sort \in {"-createdAt", "createdAt"} THEN "created"
                ELSE IF sort \in TimestampSorts THEN "updated" ELSE "name",
     desc   |-> sort \in {"-createdAt", "-updatedAt", "-name"}]

Less(desc, a, b) == IF desc THEN a > b ELSE a < b

\* ORDER BY column, id, both in the sort's direction.
Precedes(row, other, config) ==
    \/ Less(config.desc, row[config.column], other[config.column])
    \/ /\ row[config.column] = other[config.column]
       /\ Less(config.desc, row.id, other.id)

---------------------------------------------------------------------------
(* Cursors.  A token is what base64url JSON may hold: a field that is      *)
(* absent or of another type than the codec wants is Absent.               *)

EncodeCursor(row, sort) ==
    [kind  |-> IF sort \in TimestampSorts THEN "timestamp" ELSE "name",
     value |-> row[SortConfigFor(sort).column],
     id    |-> row.id,
     sort  |-> sort]

\* The codec of the request's sort accepts the token.
CursorAccepted(token, sort) ==
    /\ token.kind = IF sort \in TimestampSorts THEN "timestamp" ELSE "name"
    /\ token.value # Absent
    /\ token.id # Absent
    /\ token.sort = sort

\* Mutant: the predicate leaves out the tie on the column.
PastCursorColumn(row, token, config) ==
    Less(config.desc, token.value, row[config.column])

\* (column, id) past the cursor's, in the direction of the sort.
PastCursor(row, token, config) ==
    \/ Less(config.desc, token.value, row[config.column])
    \/ /\ row[config.column] = token.value
       /\ Less(config.desc, token.id, row.id)

---------------------------------------------------------------------------
(* Pages *)

\* An array parameter may name a value twice, in any order.
Named(array) == {array[k] : k \in DOMAIN array}

\* What ListResourcesQuerySchema gives; an array that is not given is empty.
IsQuery(query) ==
    /\ DOMAIN query = {"type", "status", "tag", "ownerId", "createdAfter",
                       "createdBefore", "limit", "cursor", "sort"}
    /\ query.status \in Seq(Named(query.status))
    /\ query.tag \in Seq(Named(query.tag))
    /\ query.limit \in Nat \ {0}
    /\ query.sort \in SortValues

Matches(row, query) ==
    /\ query.type # Absent => row.type = query.type
    /\ query.status # <<>> => row.status \in Named(query.status)
    /\ Named(query.tag) \subseteq row.tags
    /\ query.ownerId # Absent => row.owner = query.ownerId
    /\ query.createdAfter # Absent => row.created >= JsDate(query.createdAfter)
    /\ query.createdBefore # Absent => row.created < JsDate(query.createdBefore)

Candidates(table, query) ==
    {row \in table : /\ Matches(row, query)
                     /\ query.cursor # Absent =>
                            PastCursor(row, query.cursor, SortConfigFor(query.sort))}

\* The first n of some rows.
FirstRows(rows, n, config) ==
    {row \in rows : Cardinality({x \in rows : Precedes(x, row, config)}) < n}

\* One row more than the page is read, to know whether there is a next one.
PageOf(candidates, limit, sort) ==
    LET config == SortConfigFor(sort)
        rows   == FirstRows(candidates, limit + 1, config)
        data   == IF Cardinality(rows) > limit
                  THEN FirstRows(rows, limit, config) ELSE rows
        Last   == CHOOSE row \in data : \A x \in data : ~Precedes(row, x, config)
    IN  [data       |-> {Fetched(row) : row \in data},
         nextCursor |-> IF rows # data /\ data # {}
                        THEN EncodeCursor(Fetched(Last), sort) ELSE Absent]

Page(table, query) == PageOf(Candidates(table, query), query.limit, query.sort)

\* The SQLSTATEs Postgres may refuse a list's parameters with.
QueryErrors(query) ==
    LET texts == {query.type} \cup Named(query.status) \cup Named(query.tag)
        named == query.sort \in NameSorts
        InCursor(field) == query.cursor # Absent /\ query.cursor[field] = Unfit
    IN  {sqlstate \in {"22021", "22008", "22P02"} :
             \/ sqlstate = "22021" /\ (Unfit \in texts \/ (named /\ InCursor("value")))
             \/ sqlstate = "22008" /\ ~named /\ InCursor("value")
             \/ sqlstate = "22P02" /\ InCursor("id")}

---------------------------------------------------------------------------
(* Cache keys *)

\* A sorted array is known by how often each value is in it.
SortedArray(array) ==
    [v \in Named(array) |-> Cardinality({k \in DOMAIN array : array[k] = v})]

NormalizeFilters(query) ==
    [query EXCEPT !.status = SortedArray(@), !.tag = SortedArray(@)]

ListKey(query, version) == [version |-> version, filters |-> NormalizeFilters(query)]

DetailKey(id) == [id |-> id]

---------------------------------------------------------------------------
(* Bodies and rows *)

Fields == {"name", "type", "status", "tags", "owner", "metadata"}

\* A body that is a JSON object.  A name of null is a Bad one.
IsBody(body) == /\ DOMAIN body = Fields \cup {"unknownKey"}
                /\ body.name \in Nat \cup {Absent, Bad, Unfit}

\* CreateResourceSchema: name and type are required, nothing else is known.
ValidCreate(body) ==
    /\ \A f \in Fields : body[f] # Bad
    /\ body.name # Absent /\ body.type # Absent
    /\ ~body.unknownKey

\* UpdateResourceSchema: every field is optional.
ValidUpdate(body) ==
    /\ \A f \in Fields : body[f] # Bad
    /\ ~body.unknownKey

\* The SQLSTATEs Postgres may refuse a body's values with.
BodyErrors(body) ==
    LET tags == IF body.tags \in {Absent, Bad} THEN {} ELSE body.tags
    IN  {sqlstate \in {"22021", "22P05", "22P02"} :
             \/ sqlstate = "22021" /\ \/ body.name = Unfit
                                      \/ Unfit \in {body.type, body.status} \cup tags
             \/ sqlstate # "22021" /\ body.metadata = Unfit}

OrDefault(value, default) == IF value = Absent THEN default ELSE value

\* INSERT of a parsed body: defaults of the schema and of the table.
NewRow(id, body, now) ==
    [id      |-> id,
     name    |-> body.name,
     type    |-> body.type,
     status  |-> OrDefault(body.status, "active"),
     tags    |-> OrDefault(body.tags, {}),
     owner   |-> IF body.owner = Null THEN Absent ELSE body.owner,
     metadata |-> OrDefault(body.metadata, "{}"),
     created |-> now,
     updated |-> now]

\* UPDATE: the given fields, and updated_at always, from the process's clock.
\* An owner of null is given, and is stored as NULL.
Updated(row, body, now) ==
    [row EXCEPT !.name    = OrDefault(body.name, @),
                !.type    = OrDefault(body.type, @),
                !.status  = OrDefault(body.status, @),
                !.tags    = OrDefault(body.tags, @),
                !.owner   = IF body.owner = Absent THEN @
                            ELSE IF body.owner = Null THEN Absent ELSE body.owner,
                !.metadata = OrDefault(body.metadata, @),
                !.updated = JsDate(now)]
============================================================================
