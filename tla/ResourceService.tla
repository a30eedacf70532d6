-------------------------- MODULE ResourceService --------------------------
(***************************************************************************)
(* The resource service (problem5): replicas that share one Postgres and   *)
(* one Redis.  Each replica boots, serves requests and is told to stop.  A *)
(* request passes the rate limiter and the schema, then the service and,   *)
(* when caching is enabled, CachedResourceRepository: rows under a detail  *)
(* key, pages under a key that holds a version number, which every write   *)
(* increments.  One action is the code from one call's answer to the next  *)
(* call; Node runs nothing else in between.                                *)
(*                                                                         *)
(* Reads that miss share a flight per key and replica.  A flight is named  *)
(* after the request that started it; it goes on after its timeout.        *)
(*                                                                         *)
(* A client that lists follows nextCursor page by page, at any replica:    *)
(* one process r is the whole walk.                                        *)
(***************************************************************************)
EXTENDS ResourcePages, ResourceErrors, RateLimit

CONSTANTS Replica, Req,
          Garbled,      \* an id whose percent-escapes cannot be decoded
          Id,           \* ids of resources, 1 .. n
          InitialTable, \* rows at the start
          InitVersion,  \* the list version at the start, or Absent
          Environment,  \* environments a deployment may have
          Traffic,      \* bound: environments under which requests are sent
          CallsOf,      \* the calls each request may be
          Alone,        \* bound: calls that no other request is sent beside
          Walkers,      \* bound: requests whose client follows the cursors
          RateLimitMax,
          DbErrors,     \* SQLSTATEs, or others, a failing statement may give
          MaxFault      \* bound: failures, calls that take too long, stops

\* A request to a route that exists.
IsCall(c) == /\ DOMAIN c = {"op", "ip", "id", "body", "query"}
             /\ c.op \in {"create", "get", "list", "update", "delete", "health", "liveness"}
             /\ c.op = "list" => c.query = Bad \/ IsQuery(c.query)
             /\ c.body \in ParserErrors \cup {Absent} \/ IsBody(c.body)
             /\ c.op \in {"create", "list", "health", "liveness"} => c.id \notin {Bad, Garbled}

ASSUME ServiceAssumption ==
    /\ \A r \in Req : \A c \in CallsOf[r] : IsCall(c)
    /\ \A e \in Environment : \A entry \in e.entries : IsEntry(entry)
    /\ InitVersion \in Nat \cup {Absent}
    /\ Id \subseteq Nat
    /\ IsTable(InitialTable) /\ \A row \in InitialTable : row.id \in Id
    /\ MaxFault \in Nat
    /\ {Absent, Bad, Unfit, Garbled} \cap Nat = {}
    /\ Absent \notin ParserErrors \cup {Unknown, ValidationError(FALSE), ValidationError(TRUE)}
    \* A failing statement is not one that a constraint refuses: there is no
    \* foreign key, every column that is not null is given, the widths of the
    \* columns are those of the schemas, and ids are Postgres's own.
    /\ \A sqlstate \in DbErrors : mapDbError(sqlstate).code \notin {"CONFLICT", "VALIDATION"}

VARIABLES
    env,         \* the deployment's environment
    phase,       \* of each replica
    table, used, \* rows; ids ever given
    clock,       \* microseconds
    version,     \* Redis: list version, or Absent
    detail,      \* Redis: detail entries
    lists,       \* Redis: list entries
    count,       \* Redis: requests counted in the limiter's window
    at,          \* where each request is
    call, host,  \* what it asks, and the replica that serves it
    listVersion, \* its readListVersion, till its key is made of it
    flight,      \* the flight it started, with those that wait for it, or Absent
    reply,       \* its response
    next,        \* the nextCursor it got, or Absent
    severed,     \* requests whose next call was issued on closed clients
    faults,
    intact,      \* history: no invalidation of lists has been lost
    hurt,        \* history: kinds of trouble so far
    steady,      \* history: rows settled before the walk and not written since
    misled,      \* history: walks that took a version for 1 which was not 1
    seen, twice  \* history: ids delivered to the walk, and more than once

serverVars  == <<table, used, clock, version, detail, lists, count>>
processVars == <<env, phase>>
requestVars == <<at, call, host, listVersion, flight, reply, next, severed>>
historyVars == <<faults, intact, hurt, steady, misled, seen, twice>>
vars        == <<serverVars, processVars, requestVars, historyVars>>

Init == /\ env \in Environment
        /\ phase = [i \in Replica |-> "down"]
        /\ table = InitialTable
        /\ used = {row.id : row \in InitialTable}
        /\ clock = 10
        /\ version = InitVersion
        /\ detail = [id \in Id |-> Absent]
        /\ lists = {}
        /\ count = 0
        /\ at = [r \in Req |-> "idle"]
        /\ call = [r \in Req |-> Absent]
        /\ host = [r \in Req |-> Absent]
        /\ listVersion = [r \in Req |-> 0]
        /\ flight = [r \in Req |-> Absent]
        /\ reply = [r \in Req |-> Absent]
        /\ next = [r \in Req |-> Absent]
        /\ severed = {}
        /\ faults = 0
        /\ intact = TRUE
        /\ hurt = {}
        /\ steady = [r \in Req |-> {}]
        /\ misled = {}
        /\ seen = [r \in Req |-> {}]
        /\ twice = [r \in Req |-> {}]

Cidrs   == ParseCidrList(env.entries)
Row(id) == {row \in table : row.id = id}

---------------------------------------------------------------------------
(* Boot *)

\* loadConfig; then the wait for Redis.
Boot(i) == /\ phase[i] = "down"
           /\ phase' = [phase EXCEPT ![i] = IF ConfigAccepted(env)
                                            THEN "connect" ELSE "exit1"]
           /\ UNCHANGED <<env, serverVars, requestVars, historyVars>>

\* Redis is ready: the server listens, the signals are heard.
Connect(i) == /\ phase[i] = "connect"
              /\ phase' = [phase EXCEPT ![i] = "serving"]
              /\ UNCHANGED <<env, serverVars, requestVars, historyVars>>

\* The client's first error rejects main.  Bound: where no requests are sent.
ConnectFails(i) == /\ phase[i] = "connect"
                   /\ faults < MaxFault /\ env \notin Traffic
                   /\ faults' = faults + 1
                   /\ phase' = [phase EXCEPT ![i] = "exit1"]
                   /\ UNCHANGED <<env, serverVars, requestVars, intact, hurt,
                                  steady, misled, seen, twice>>

---------------------------------------------------------------------------
(* Failures and responses *)

\* The next call of r, or of r's flight, is made now: on clients that a stop
\* has closed it will fail.
Issue(r) == severed' = IF phase[host[r]] = "stopping" THEN severed \cup {r} ELSE severed

\* A pending call may succeed.
Succeeds(r) == /\ r \notin severed
               /\ UNCHANGED <<faults, hurt>>

\* A pending call of a kind ("redis", "db") may fail.
Fails(r, kind) ==
    \/ /\ r \in severed
       /\ hurt' = hurt \cup {"stop"}
       /\ UNCHANGED faults
    \/ /\ r \notin severed
       /\ faults < MaxFault
       /\ faults' = faults + 1
       /\ hurt' = hurt \cup {kind}

\* The error of a failing statement; a closed pool's is not a pg error.
ErrorOf(r) == IF r \in severed THEN {"closed"} ELSE DbErrors

\* X-Cache is not sent in production.
XCache(mark) == IF env.nodeEnv = "production" THEN Absent ELSE mark

\* What was marked before an operation that fails.
MarkOnError(c) == IF ~env.cacheEnabled /\ c.op \in {"get", "list"}
                  THEN XCache("BYPASS") ELSE Absent

Ok(status, mark) == [status |-> status, code |-> "OK", details |-> FALSE,
                     errorId |-> FALSE, xcache |-> XCache(mark)]

IdsOf(page) == {row.id : row \in page.data}

\* The requests rs are answered; a list's rows reach the client.
AnswerAll(rs, response, content) ==
    LET isPage == content # Absent /\ "data" \in DOMAIN content
        Got(r) == IF r \in rs /\ isPage THEN IdsOf(content) ELSE {}
    IN  /\ at' = [r \in Req |-> IF r \in rs THEN "done" ELSE at[r]]
        /\ reply' = [r \in Req |-> IF r \in rs THEN response ELSE reply[r]]
        /\ next' = [r \in Req |-> IF r \notin rs THEN next[r]
                                ELSE IF isPage THEN content.nextCursor ELSE Absent]
        /\ twice' = [r \in Req |-> twice[r] \cup (seen[r] \cap Got(r))]
        /\ seen' = [r \in Req |-> seen[r] \cup Got(r)]

Answer(r, response, content) == AnswerAll({r}, response, content)

GoTo(r, step) == /\ at' = [at EXCEPT ![r] = step]
                 /\ UNCHANGED <<reply, next, seen, twice>>

---------------------------------------------------------------------------
(* Arrival: the limiter, the parsers and schemas, the handler up to its    *)
(* first call                                                              *)

Bodied == {"create", "update"}

SchemaRefuses(c) ==
    \/ c.op = "create" /\ (c.body = Absent \/ ~ValidCreate(c.body))
    \/ c.op = "update" /\ (c.body = Absent \/ ~ValidUpdate(c.body))
    \/ c.op = "list" /\ c.query = Bad

\* What the request is refused with before any call, or Absent: by the body
\* parser, the router, the controller or a schema.
Refusal(c) ==
    IF c.body \in ParserErrors THEN c.body
    ELSE IF c.id = Garbled THEN Unknown
    ELSE IF c.id = Bad THEN ValidationError(FALSE)
    ELSE IF SchemaRefuses(c) THEN ValidationError(TRUE)
    ELSE Absent

\* The SQLSTATEs Postgres may refuse the call's values with.
ValueErrors(c) == CASE c.op \in Bodied -> BodyErrors(c.body)
                    [] c.op = "list"   -> QueryErrors(c.query)
                    [] OTHER           -> {}

FirstStep(c) ==
    CASE c.op = "create" -> "insert"
      [] c.op \in {"update", "delete", "health"} -> c.op
      [] c.op = "get" -> IF env.cacheEnabled THEN "detailGet" ELSE "select"
      [] c.op = "list" -> IF env.cacheEnabled THEN "versionGet" ELSE "select"

\* The request is handled up to its first call; a liveness probe makes none.
Handle(r, c) ==
    IF Refusal(c) # Absent THEN Answer(r, ErrorResponse(Refusal(c), Absent), Absent)
    ELSE IF c.op = "liveness" THEN Answer(r, Ok(200, Absent), Absent)
    ELSE GoTo(r, FirstStep(c))

Counted(c) ==
    /\ env.rateLimitEnabled
    /\ ~Skip(c.ip, IF c.op \in {"health", "liveness"} THEN "health" ELSE "resources", Cidrs)

\* The rows of committed writes whose INCR has not been answered.
Unsettled == {call[r].id : r \in {q \in Req : at[q] \in {"del", "bump"}}}

\* Bound: requests are sent when no replica is still booting.
Serving(i) == /\ phase[i] = "serving"
              /\ \A j \in Replica : phase[j] \notin {"down", "connect"}
              /\ env \in Traffic

Accept(r, c, i) ==
    /\ call' = [call EXCEPT ![r] = c]
    /\ host' = [host EXCEPT ![r] = i]
    /\ severed' = severed \ {r}
    /\ IF Counted(c) THEN GoTo(r, "limit") ELSE Handle(r, c)
    /\ UNCHANGED <<processVars, serverVars, listVersion, flight,
                   faults, intact, hurt, misled>>

Send(r) == \E c \in CallsOf[r], i \in Replica :
    /\ at[r] = "idle"
    /\ Serving(i)
    /\ \A q \in Req \ {r} : {c, call[q]} \cap Alone # {} => at[q] = "idle"
    /\ steady' = [steady EXCEPT ![r] = {row.id : row \in table} \ Unsettled]
    /\ Accept(r, c, i)

\* The client asks for the page after the one it got.
NextPage(r) == \E i \in Replica :
    /\ r \in Walkers /\ at[r] = "done" /\ next[r] # Absent
    /\ call[r].op = "list"
    /\ Serving(i)
    /\ UNCHANGED steady
    /\ Accept(r, [call[r] EXCEPT !.query.cursor = next[r]], i)

\* The store's INCR; above the limit the request is refused.
Limit(r) ==
    /\ at[r] = "limit"
    /\ Succeeds(r)
    /\ count' = count + 1
    /\ IF count' > RateLimitMax
       THEN Answer(r, ErrorResponse(AppError("RATE_LIMIT"), Absent), Absent)
       ELSE Handle(r, call[r])
    /\ Issue(r)
    /\ UNCHANGED <<processVars, table, used, clock, version, detail, lists, call, host,
                   listVersion, flight, intact, steady, misled>>

\* The store fails, and the limiter passes the error on.
LimitFails(r) ==
    /\ at[r] = "limit"
    /\ Fails(r, "redis")
    /\ Answer(r, ErrorResponse(Unknown, Absent), Absent)
    /\ UNCHANGED <<processVars, serverVars, call, host, listVersion, flight,
                   severed, intact, steady, misled>>
---------------------------------------------------------------------------
(* Writes: the statement, then DEL of the detail key (not after an insert) *)
(* and INCR of the list version, whose failures are swallowed              *)

\* A row is written: no walk may count on it any more.
Disturb(id) == steady' = [r \in Req |-> steady[r] \ {id}]

\* The statement of r made the table what it is now.
Committed(r, rows, id) ==
    /\ table' = rows
    /\ clock' = clock + 1
    /\ Disturb(id)

StatusOf(op) == CASE op = "create" -> 201 [] op = "update" -> 200 [] op = "delete" -> 204

\* What follows a statement that changed a row.
AfterWrite(r, step) ==
    IF env.cacheEnabled THEN GoTo(r, step)
    ELSE Answer(r, Ok(StatusOf(call[r].op), Absent), Absent)

Insert(r) == \E id \in Id \ used :
    /\ at[r] = "insert" /\ ValueErrors(call[r]) = {}
    /\ Succeeds(r)
    /\ Committed(r, table \cup {NewRow(id, call[r].body, clock)}, id)
    /\ used' = used \cup {id}
    /\ call' = [call EXCEPT ![r].id = id]
    /\ AfterWrite(r, "bump")
    /\ Issue(r)
    /\ UNCHANGED <<processVars, version, detail, lists, count, host, listVersion,
                   flight, intact, misled>>

\* The table after an UPDATE or a DELETE of an id.
Rewritten(c) ==
    IF c.op = "update"
    THEN {IF row.id = c.id THEN Updated(row, c.body, clock) ELSE row : row \in table}
    ELSE table \ Row(c.id)

\* Mutant: the version is not incremented after a delete.
WriteUncounted(r) ==
    /\ at[r] \in {"update", "delete"} /\ ValueErrors(call[r]) = {}
    /\ Succeeds(r)
    /\ IF Row(call[r].id) = {}
       THEN /\ Answer(r, ErrorResponse(AppError("NOT_FOUND"), Absent), Absent)
            /\ UNCHANGED <<table, clock, steady>>
       ELSE /\ Committed(r, Rewritten(call[r]), call[r].id)
            /\ IF at[r] = "delete" THEN Answer(r, Ok(204, Absent), Absent)
               ELSE AfterWrite(r, "del")
    /\ Issue(r)
    /\ UNCHANGED <<processVars, used, version, detail, lists, count, call, host,
                   listVersion, flight, intact, misled>>

\* UPDATE or DELETE ... RETURNING.
Write(r) ==
    /\ at[r] \in {"update", "delete"} /\ ValueErrors(call[r]) = {}
    /\ Succeeds(r)
    /\ IF Row(call[r].id) = {}
       THEN /\ Answer(r, ErrorResponse(AppError("NOT_FOUND"), Absent), Absent)
            /\ UNCHANGED <<table, clock, steady>>
       ELSE /\ Committed(r, Rewritten(call[r]), call[r].id)
            /\ AfterWrite(r, "del")
    /\ Issue(r)
    /\ UNCHANGED <<processVars, used, version, detail, lists, count, call, host,
                   listVersion, flight, intact, misled>>

\* The statement fails, or only its answer is lost: then the row has changed
\* and no cache entry is touched.
StatementFails(r) == \E sqlstate \in ErrorOf(r) :
    /\ at[r] \in {"insert", "update", "delete"}
    /\ Fails(r, "db")
    /\ Answer(r, ErrorResponse(mapDbError(sqlstate), Absent), Absent)
    /\ \/ UNCHANGED <<table, used, clock, intact, steady>>
       \/ /\ sqlstate = "lost" /\ ValueErrors(call[r]) = {}
          /\ intact' = FALSE
          /\ \/ /\ at[r] # "insert" /\ Row(call[r].id) # {}
                /\ Committed(r, Rewritten(call[r]), call[r].id)
                /\ UNCHANGED used
             \/ /\ at[r] = "insert"
                /\ \E id \in Id \ used :
                       /\ Committed(r, table \cup {NewRow(id, call[r].body, clock)}, id)
                       /\ used' = used \cup {id}
    /\ UNCHANGED <<processVars, version, detail, lists, count, call, host,
                   listVersion, flight, severed, misled>>

\* Postgres refuses a value that the schema took.
StatementRefused(r) ==
    /\ at[r] \in {"insert", "update"}
    /\ Succeeds(r)
    /\ \E sqlstate \in ValueErrors(call[r]) :
           Answer(r, ErrorResponse(mapDbError(sqlstate), Absent), Absent)
    /\ UNCHANGED <<processVars, serverVars, call, host, listVersion, flight,
                   severed, intact, steady, misled>>

Del(r) ==
    /\ at[r] = "del"
    /\ \/ Succeeds(r) /\ detail' = [detail EXCEPT ![call[r].id] = Absent]
       \/ Fails(r, "redis") /\ UNCHANGED detail
    /\ GoTo(r, "bump")
    /\ Issue(r)
    /\ UNCHANGED <<processVars, table, used, clock, version, lists, count, call, host,
                   listVersion, flight, intact, steady, misled>>

\* INCR of a key that is missing makes it 1.
Incremented(v) == IF v = Absent THEN 1 ELSE v + 1

Bump(r) ==
    /\ at[r] = "bump"
    /\ \/ Succeeds(r) /\ version' = Incremented(version) /\ UNCHANGED intact
       \/ Fails(r, "redis") /\ UNCHANGED version /\ intact' = FALSE
    /\ Answer(r, Ok(StatusOf(call[r].op), Absent), Absent)
    /\ UNCHANGED <<processVars, table, used, clock, detail, lists, count, call, host,
                   listVersion, flight, severed, steady, misled>>

---------------------------------------------------------------------------
(* Reads without the cache *)

\* The codec refuses the cursor.
BadCursor(c) == c.op = "list" /\ c.query.cursor # Absent
                              /\ ~CursorAccepted(c.query.cursor, c.query.sort)

\* What a read may be refused with: by the codec, before any SQL is sent, or
\* by Postgres.
ReadErrors(c) == IF BadCursor(c) THEN {ValidationError(FALSE)}
                 ELSE {mapDbError(sqlstate) : sqlstate \in ValueErrors(c)}

\* The statement of a read succeeds, or is never sent.
ReadSucceeds(r) == /\ r \notin severed \/ BadCursor(call[r])
                   /\ UNCHANGED <<faults, hurt>>

\* The statement of a get or a list: a row, no row, or a page.
Read(c) == IF c.op = "list" THEN Page(table, c.query)
           ELSE IF Row(c.id) = {} THEN Absent
           ELSE Fetched(CHOOSE row \in Row(c.id) : TRUE)

\* The response to a read's value.
ReadResponse(c, value, mark) ==
    IF value = Absent
    THEN ErrorResponse(AppError("NOT_FOUND"), IF mark = "BYPASS" THEN XCache(mark) ELSE Absent)
    ELSE Ok(200, mark)

Select(r) ==
    /\ at[r] = "select"
    /\ ReadSucceeds(r)
    /\ \/ \E error \in ReadErrors(call[r]) :
              Answer(r, ErrorResponse(error, MarkOnError(call[r])), Absent)
       \/ /\ ReadErrors(call[r]) = {}
          /\ LET value == Read(call[r])
             IN  Answer(r, ReadResponse(call[r], value, "BYPASS"), value)
    /\ UNCHANGED <<processVars, serverVars, call, host, listVersion, flight,
                   severed, intact, steady, misled>>

SelectFails(r) == \E sqlstate \in ErrorOf(r) :
    /\ at[r] = "select" /\ ~BadCursor(call[r])
    /\ Fails(r, "db")
    /\ Answer(r, ErrorResponse(mapDbError(sqlstate), MarkOnError(call[r])), Absent)
    /\ UNCHANGED <<processVars, serverVars, call, host, listVersion, flight,
                   severed, intact, steady, misled>>

---------------------------------------------------------------------------
(* Reads through the cache *)

\* Mutant: a flight that has timed out is still in the map.
InFlightStale(r, key) == {f \in Req : /\ flight[f] # Absent /\ host[f] = host[r]
                                      /\ flight[f].key = key}

\* The singleflight's entry of a key in the process of r.
InFlight(r, key) == {f \in Req : /\ flight[f] # Absent /\ host[f] = host[r]
                                 /\ flight[f].shared /\ flight[f].key = key}

\* r waits for the flight of its key, or starts one.
JoinOrLead(r, key) ==
    /\ GoTo(r, "wait")
    /\ IF InFlight(r, key) # {}
       THEN \E f \in InFlight(r, key) :
                flight' = [flight EXCEPT ![f].waiters = @ \cup {r}]
       ELSE flight' = [flight EXCEPT ![r] =
                           [key |-> key, step |-> "read", value |-> Absent,
                            shared |-> TRUE, waiters |-> {r}]]

\* Mutant: a GET that fails is passed on.
DetailGetStrict(r) ==
    /\ at[r] = "detailGet"
    /\ LET entry == detail[call[r].id] IN
       \/ /\ Succeeds(r)
          /\ IF entry = Absent THEN JoinOrLead(r, DetailKey(call[r].id))
             ELSE Answer(r, Ok(200, "HIT"), entry) /\ UNCHANGED flight
       \/ /\ Fails(r, "redis")
          /\ Answer(r, ErrorResponse(Unknown, Absent), Absent)
          /\ UNCHANGED flight
    /\ Issue(r)
    /\ UNCHANGED <<processVars, serverVars, call, host, listVersion,
                   intact, steady, misled>>

\* The answer of a GET: a hit is the response, a miss or a failure a read.
DetailGet(r) ==
    /\ at[r] = "detailGet"
    /\ LET entry == detail[call[r].id]
           Miss  == JoinOrLead(r, DetailKey(call[r].id))
       IN  \/ /\ Succeeds(r)
              /\ IF entry = Absent THEN Miss
                 ELSE Answer(r, Ok(200, "HIT"), entry) /\ UNCHANGED flight
           \/ Fails(r, "redis") /\ Miss
    /\ Issue(r)
    /\ UNCHANGED <<processVars, serverVars, call, host, listVersion,
                   intact, steady, misled>>

\* The version under which a list is cached now.
CurrentVersion == IF version = Absent THEN 1 ELSE version

\* A version that is missing, or cannot be read, is 1.
VersionGet(r) ==
    /\ at[r] = "versionGet"
    /\ \/ /\ Succeeds(r)
          /\ listVersion' = [listVersion EXCEPT ![r] = CurrentVersion]
          /\ UNCHANGED misled
       \/ /\ Fails(r, "redis")
          /\ listVersion' = [listVersion EXCEPT ![r] = 1]
          /\ misled' = IF CurrentVersion = 1 THEN misled ELSE misled \cup {r}
    /\ GoTo(r, "listGet")
    /\ Issue(r)
    /\ UNCHANGED <<processVars, serverVars, call, host, flight, intact, steady>>

KeyOf(r) == ListKey(call[r].query, listVersion[r])

\* The pages cached under a key: one or none.
CachedUnder(key) == {entry.page : entry \in {e \in lists : e.key = key}}

ListGet(r) ==
    /\ at[r] = "listGet"
    /\ LET pages == CachedUnder(KeyOf(r))
           Miss  == JoinOrLead(r, KeyOf(r))
       IN  \/ /\ Succeeds(r)
              /\ IF pages = {} THEN Miss
                 ELSE \E page \in pages : /\ Answer(r, Ok(200, "HIT"), page)
                                          /\ UNCHANGED flight
           \/ Fails(r, "redis") /\ Miss
    /\ listVersion' = [listVersion EXCEPT ![r] = 0]
    /\ Issue(r)
    /\ UNCHANGED <<processVars, serverVars, call, host, intact, steady, misled>>

---------------------------------------------------------------------------
(* Flights *)

Flying(f, step) == flight[f] # Absent /\ flight[f].step = step

\* The function of f is over, and so is its entry.
Land(f) == flight' = [flight EXCEPT ![f] = Absent]

Reject(f, error) == AnswerAll(flight[f].waiters, ErrorResponse(error, Absent), Absent)

\* Mutant: a row that is not there is cached like one that is.
FlightReadAll(f) ==
    /\ Flying(f, "read")
    /\ ReadSucceeds(f)
    /\ \/ \E error \in ReadErrors(call[f]) : Land(f) /\ Reject(f, error)
       \/ /\ ReadErrors(call[f]) = {}
          /\ flight' = [flight EXCEPT ![f].step = "fill", ![f].value = Read(call[f])]
          /\ UNCHANGED <<at, reply, next, seen, twice>>
    /\ Issue(f)
    /\ UNCHANGED <<processVars, serverVars, call, host, listVersion,
                   intact, steady, misled>>

FlightRead(f) ==
    /\ Flying(f, "read")
    /\ ReadSucceeds(f)
    /\ \/ \E error \in ReadErrors(call[f]) : Land(f) /\ Reject(f, error)
       \/ /\ ReadErrors(call[f]) = {} /\ Read(call[f]) = Absent
          /\ Land(f)
          /\ AnswerAll(flight[f].waiters, ReadResponse(call[f], Absent, "MISS"), Absent)
       \/ /\ ReadErrors(call[f]) = {} /\ Read(call[f]) # Absent
          /\ flight' = [flight EXCEPT ![f].step = "fill", ![f].value = Read(call[f])]
          /\ UNCHANGED <<at, reply, next, seen, twice>>
    /\ Issue(f)
    /\ UNCHANGED <<processVars, serverVars, call, host, listVersion,
                   intact, steady, misled>>

FlightReadFails(f) == \E sqlstate \in ErrorOf(f) :
    /\ Flying(f, "read") /\ ~BadCursor(call[f])
    /\ Fails(f, "db")
    /\ Land(f)
    /\ Reject(f, mapDbError(sqlstate))
    /\ UNCHANGED <<processVars, serverVars, call, host, listVersion, severed,
                   intact, steady, misled>>

\* SET EX; a failure is swallowed, and the value returned all the same.
FlightFill(f) ==
    /\ Flying(f, "fill")
    /\ LET key == flight[f].key  value == flight[f].value IN
       /\ \/ /\ Succeeds(f)
             /\ IF call[f].op = "get"
                THEN detail' = [detail EXCEPT ![key.id] = value] /\ UNCHANGED lists
                ELSE /\ lists' = {e \in lists : e.key # key}
                                     \cup {[key |-> key, page |-> value]}
                     /\ UNCHANGED detail
          \/ Fails(f, "redis") /\ UNCHANGED <<detail, lists>>
       /\ AnswerAll(flight[f].waiters, Ok(200, "MISS"), value)
    /\ Land(f)
    /\ UNCHANGED <<processVars, table, used, clock, version, count, call, host,
                   listVersion, severed, intact, steady, misled>>

\* 3 s have passed: the promise rejects and the next caller starts anew; the
\* function goes on.
FlightTimeout(f) ==
    /\ flight[f] # Absent /\ flight[f].shared
    /\ faults < MaxFault
    /\ faults' = faults + 1
    /\ flight' = [flight EXCEPT ![f].shared = FALSE, ![f].waiters = {}]
    /\ Reject(f, Unknown)
    /\ hurt' = hurt \cup {"timeout"}
    /\ UNCHANGED <<processVars, serverVars, call, host, listVersion, severed,
                   intact, steady, misled>>

---------------------------------------------------------------------------
(* Health *)

\* Both checks, in parallel and each with a timeout: 503 if one is down.
Probe(r) ==
    /\ at[r] = "health"
    /\ \/ Succeeds(r) /\ Answer(r, Ok(200, Absent), Absent)
       \/ /\ \E kind \in {"db", "redis"} : Fails(r, kind)
          /\ Answer(r, Ok(503, Absent), Absent)
    /\ UNCHANGED <<processVars, serverVars, call, host, listVersion, flight,
                   severed, intact, steady, misled>>

---------------------------------------------------------------------------
(* Redis and time *)

ExpireDetail(id) == /\ detail[id] # Absent
                    /\ detail' = [detail EXCEPT ![id] = Absent]
                    /\ UNCHANGED <<processVars, table, used, clock, version, lists, count,
                                   requestVars, historyVars>>

ExpireList(entry) == /\ lists' = lists \ {entry}
                     /\ UNCHANGED <<processVars, table, used, clock, version, detail, count,
                                    requestVars, historyVars>>

\* The limiter's window ends.
WindowEnds == /\ count > 0
              /\ count' = 0
              /\ UNCHANGED <<processVars, table, used, clock, version, detail, lists,
                             requestVars, historyVars>>

\* Redis loses its data.
RedisLoss == /\ faults < MaxFault
             /\ faults' = faults + 1
             /\ version' = Absent /\ count' = 0 /\ lists' = {}
             /\ detail' = [id \in Id |-> Absent]
             /\ intact' = FALSE
             /\ hurt' = hurt \cup {"redis"}
             /\ UNCHANGED <<processVars, table, used, clock, requestVars, steady, misled,
                            seen, twice>>

---------------------------------------------------------------------------
(* Shutdown *)

Busy(r) == at[r] \notin {"idle", "done", "lost"}

\* SIGTERM: every hook is called at once.  The server accepts no more; calls
\* made from now on to Redis and the pool fail.
Terminate(i) == /\ phase[i] = "serving" /\ env \in Traffic
                /\ faults < MaxFault
                /\ faults' = faults + 1
                /\ phase' = [phase EXCEPT ![i] = "stopping"]
                /\ UNCHANGED <<env, serverVars, requestVars, intact, hurt,
                               steady, misled, seen, twice>>

\* All hooks are done: no connection is open and no client of the pool is out.
ExitCleanly(i) ==
    /\ phase[i] = "stopping"
    /\ \A r \in Req : host[r] = i => ~Busy(r) /\ (flight[r] # Absent => r \in severed)
    /\ phase' = [phase EXCEPT ![i] = "exit0"]
    /\ flight' = [f \in Req |-> IF host[f] = i THEN Absent ELSE flight[f]]
    /\ UNCHANGED <<env, serverVars, at, call, host, listVersion, reply, next,
                   severed, historyVars>>

\* The timeout of the shutdown: what is open is cut off.
ForceExit(i) ==
    /\ phase[i] = "stopping"
    /\ phase' = [phase EXCEPT ![i] = "exit1"]
    /\ flight' = [f \in Req |-> IF host[f] = i THEN Absent ELSE flight[f]]
    /\ at' = [r \in Req |-> IF host[r] = i /\ Busy(r) THEN "lost" ELSE at[r]]
    /\ intact' = (intact /\ ~\E r \in Req : host[r] = i /\ at[r] \in {"del", "bump"})
    /\ UNCHANGED <<env, serverVars, call, host, listVersion, reply, next,
                   severed, faults, hurt, steady, misled, seen, twice>>

---------------------------------------------------------------------------
RequestStep(r) ==
    \/ NextPage(r) \/ Limit(r) \/ LimitFails(r)
    \/ Insert(r) \/ Write(r) \/ StatementFails(r) \/ StatementRefused(r) \/ Del(r) \/ Bump(r)
    \/ Select(r) \/ SelectFails(r) \/ DetailGet(r) \/ VersionGet(r) \/ ListGet(r)
    \/ Probe(r)

FlightStep(f) == FlightRead(f) \/ FlightReadFails(f) \/ FlightFill(f) \/ FlightTimeout(f)

Next == \/ \E i \in Replica : \/ Boot(i) \/ Connect(i) \/ ConnectFails(i)
                              \/ Terminate(i) \/ ExitCleanly(i) \/ ForceExit(i)
        \/ \E r \in Req : Send(r) \/ RequestStep(r) \/ FlightStep(r)
        \/ \E id \in Id : ExpireDetail(id)
        \/ \E entry \in lists : ExpireList(entry)
        \/ WindowEnds \/ RedisLoss

Spec == Init /\ [][Next]_vars

---------------------------------------------------------------------------
(* Properties *)

Steps == {"idle", "limit", "insert", "update", "delete", "del", "bump", "select",
          "detailGet", "versionGet", "listGet", "wait", "health", "done", "lost"}

\* The types; what the columns' constraints promise: no id twice, no row under
\* an id that was never given; and that what a flight is about to cache is a
\* row or a page that was found.
TypeOK ==
    /\ env \in Environment
    /\ phase \in [Replica -> {"down", "connect", "serving", "stopping", "exit0", "exit1"}]
    /\ IsTable(table)
    /\ {row.id : row \in table} \subseteq used /\ used \subseteq Id
    /\ clock \in Nat /\ count \in Nat /\ faults \in 0 .. MaxFault
    /\ version \in Nat \cup {Absent}
    /\ at \in [Req -> Steps]
    /\ host \in [Req -> Replica \cup {Absent}]
    /\ listVersion \in [Req -> Nat]
    /\ severed \subseteq Req
    /\ \A f \in Req : flight[f] # Absent =>
           /\ flight[f].step \in {"read", "fill"}
           /\ flight[f].step = "fill" => flight[f].value # Absent
           /\ flight[f].shared \in BOOLEAN
           /\ flight[f].waiters \subseteq Req

\* The queries of the clients, with any cursor.
ListQueries == {c.query : c \in {d \in UNION {CallsOf[r] : r \in Req} :
                                     d.op = "list" /\ d.query # Bad}}

\* Once every committed write has been counted, and as long as no increment
\* was lost, a page cached under the current version is the page the table
\* gives: what was cached before, or is being cached by a read that began
\* before, is under a version nobody asks for any more.
CurrentPagesAreFresh ==
    intact /\ Unsettled = {} =>
        \A entry \in lists : entry.key.version = CurrentVersion =>
            \A query \in ListQueries :
                LET q == [query EXCEPT !.cursor = entry.key.filters.cursor] IN
                entry.key = ListKey(q, CurrentVersion) => entry.page = Page(table, q)

\* A reader that waits for a flight waits for one of its own replica whose
\* timer still runs, so that it is answered whatever becomes of the read.
WaitersHaveATimer ==
    \A r \in Req : at[r] = "wait" =>
        \E f \in Req : /\ flight[f] # Absent /\ flight[f].shared
                       /\ host[f] = host[r] /\ r \in flight[f].waiters

\* A client that has followed the cursors to the end, at whatever replicas,
\* through whatever cached pages, and whatever was written between two pages,
\* has got every matching row that was there all the time, and got it once.
\* Not so if an increment was lost, or if a GET of the version failed and the
\* version was no longer 1: the code then looks among the pages of version 1.
\* By name only: of a time a cursor keeps the milliseconds.
WalkDeliversOnce ==
    intact => \A r \in Req \ misled :
        (/\ at[r] = "done" /\ reply[r].status = 200
         /\ call[r].op = "list" /\ call[r].query.sort \in NameSorts)
        => LET stayed == {id \in steady[r] : \E row \in Row(id) : Matches(row, call[r].query)}
           IN  /\ twice[r] \cap stayed = {}
               /\ next[r] = Absent => stayed \subseteq seen[r]

\* Inputs that no layer of the program has an error for: a body the parser
\* refuses for its encoding, charset or length, an id whose escapes cannot be
\* decoded, and a value that only Postgres refuses.
Unforeseen(c) ==
    \/ \E type \in ParserTypes \ {"entity.parse.failed", "entity.too.large"} :
           c.body = BodyParserError(type)
    \/ c.body \notin ParserErrors /\ c.id = Garbled
    \/ Refusal(c) = Absent /\ ~BadCursor(c) /\ ValueErrors(c) # {}

\* No request is blamed for what went wrong behind it, nor the service for
\* the request: a 400 means that the parser, the schemas or the cursor's codec
\* refuse it, a 500 or 503 that Postgres failed, a read took too long, the
\* replica was stopping, or Redis failed and the request had to be counted.
\* Redis alone fails no other request.  The exceptions are the unforeseen
\* inputs: their fault is the client's, their status 500.
RepliesHaveCauses ==
    \A r \in Req : at[r] = "done" /\ call[r].op # "health" =>
        /\ reply[r].status = 400 =>
               /\ Refusal(call[r]) # Absent \/ BadCursor(call[r])
               /\ ~Unforeseen(call[r])
        /\ reply[r].status >= 500 =>
               \/ hurt \cap {"db", "timeout", "stop"} # {}
               \/ "redis" \in hurt /\ Counted(call[r])
               \/ Unforeseen(call[r])

\* The addresses of a CIDR entry, by division and not by masks.
Block(entry) ==
    LET host_ == 2 ^ (AddrBits - PrefixOf(entry, AddrBits))
    IN  {addr \in Words : addr \div host_ = entry.addr \div host_}

\* A replica that got past its configuration exempts exactly the addresses
\* of the configured blocks, and in production no block with more than a
\* quarter of all addresses.
LimiterMatchesConfig ==
    (\E i \in Replica : phase[i] = "connect") =>
        LET blocks == {Block(e) : e \in {d \in env.entries : d.family = "v4"}} IN
        /\ {addr \in Words : InAllowlist([form |-> "v4", addr |-> addr], Cidrs)} = UNION blocks
        /\ env.nodeEnv = "production" =>
               \A block \in blocks : 4 * Cardinality(block) <= 2 ^ AddrBits
============================================================================
