----------------------- MODULE ResourceServiceProofs ------------------------
(***************************************************************************)
(* ResourceService for every set of replicas, requests and ids, and every  *)
(* number of failures: readers that wait for a flight have one with a      *)
(* timer, pages cached under the current version are fresh when the        *)
(* version's key existed at the start, the variables keep their types and  *)
(* the table its key, and replies have their causes.                       *)
(***************************************************************************)
EXTENDS ResourceService, FiniteSetTheorems, TLAPS

\* A request between its first call and its answer.
Active(r) == at[r] \notin {"idle", "limit", "done", "lost"}

FieldTypes == /\ at \in [Req -> Steps]
              /\ host \in [Req -> Replica \cup {Absent}]
              /\ listVersion \in [Req -> Nat]
              /\ version \in Nat \cup {Absent}
              /\ DOMAIN flight = Req /\ DOMAIN call = Req /\ DOMAIN next = Req

\* A request's steps are those of its call, and a cursor is followed by lists
\* only that the schema took.
CallFits(r) ==
    /\ at[r] = "idle" => next[r] = Absent
    /\ at[r] # "idle" => IsCall(call[r])
    /\ call[r].op = "list" /\ (Active(r) \/ next[r] # Absent) => IsQuery(call[r].query)
    /\ at[r] = "detailGet" => call[r].op = "get"
    /\ at[r] \in {"versionGet", "listGet"} => call[r].op = "list"
    /\ at[r] \in {"del", "bump", "detailGet", "versionGet", "listGet"} => env.cacheEnabled

\* The request that started a flight does not go on before the flight is over;
\* those that wait for it are of its replica, and wait for no other.
FlightFits(f) ==
    /\ DOMAIN flight[f] = {"key", "step", "value", "shared", "waiters"}
    /\ env.cacheEnabled
    /\ call[f].op \in {"get", "list"}
    /\ call[f].op = "list" =>
           /\ IsQuery(call[f].query)
           /\ flight[f].key = ListKey(call[f].query, flight[f].key.version)
           /\ flight[f].key.version \in Nat
    /\ at[f] = "wait" \/ (at[f] = "done" /\ next[f] = Absent)
    /\ \A w \in flight[f].waiters :
           /\ w \in Req /\ at[w] = "wait" /\ host[w] = host[f]
           /\ flight[w] # Absent => w = f
           /\ \A g \in Req : flight[g] # Absent /\ w \in flight[g].waiters => g = f

ShapeInv == /\ FieldTypes
            /\ \A r \in Req : CallFits(r)
            /\ \A f \in Req : flight[f] # Absent => FlightFits(f)

-----------------------------------------------------------------------------
(* Steps, by what they change.                                             *)

\* Nothing but cached entries that go, and what no invariant here is about.
Elsewhere == /\ UNCHANGED <<env, table, version, at, call, host, listVersion, flight,
                            next, intact>>
             /\ lists' \subseteq lists

\* A request goes on by itself.
Goes(r) == \/ LimitFails(r) \/ Insert(r) \/ Write(r) \/ StatementFails(r)
           \/ StatementRefused(r) \/ Del(r) \/ Bump(r) \/ Select(r) \/ SelectFails(r)
           \/ VersionGet(r) \/ Probe(r)

LEMMA StepShape ==
    ASSUME [Next]_vars
    PROVE  \/ Elsewhere \/ RedisLoss
           \/ \E r \in Req : \/ Send(r) \/ NextPage(r) \/ Limit(r) \/ Goes(r)
                             \/ DetailGet(r) \/ ListGet(r)
                             \/ FlightRead(r) \/ FlightReadFails(r) \/ FlightFill(r)
                             \/ FlightTimeout(r)
           \/ \E i \in Replica : ExitCleanly(i) \/ ForceExit(i)
<1> USE DEF serverVars, processVars, requestVars, historyVars
<1>1. ASSUME NEW i \in Replica, Boot(i) \/ Connect(i) \/ ConnectFails(i) \/ Terminate(i)
      PROVE  Elsewhere
  BY <1>1 DEF Boot, Connect, ConnectFails, Terminate, Elsewhere
<1>2. ASSUME NEW id \in Id, ExpireDetail(id) PROVE Elsewhere
  BY <1>2 DEF ExpireDetail, Elsewhere
<1>3. ASSUME NEW entry \in lists, ExpireList(entry) PROVE Elsewhere
  BY <1>3 DEF ExpireList, Elsewhere
<1>4. CASE WindowEnds BY <1>4 DEF WindowEnds, Elsewhere
<1>5. CASE UNCHANGED vars BY <1>5 DEF vars, Elsewhere
<1> QED BY <1>1, <1>2, <1>3, <1>4, <1>5 DEF Next, RequestStep, FlightStep, Goes

\* What an answer does to those who get it, and to the others.
LEMMA Answered ==
    ASSUME FieldTypes, NEW rs, NEW response, NEW content, AnswerAll(rs, response, content)
    PROVE  /\ at' \in [Req -> Steps] /\ DOMAIN next' = Req
           /\ \A r \in Req : at'[r] = IF r \in rs THEN "done" ELSE at[r]
           /\ \A r \in Req : r \notin rs => next'[r] = next[r]
           /\ content = Absent => \A r \in rs : r \in Req => next'[r] = Absent
BY DEF AnswerAll, FieldTypes, Steps

-----------------------------------------------------------------------------
(* Shape.                                                                  *)

LEMMA ShapeInit == Init => ShapeInv
BY ServiceAssumption DEF Init, ShapeInv, FieldTypes, CallFits, Active, Steps

\* A request that goes on by itself, and is not waited for.
Moves(r) ==
    /\ at' \in [Req -> Steps] /\ DOMAIN next' = Req /\ DOMAIN call' = Req
    /\ at[r] \notin {"idle", "wait", "done", "lost"}
    /\ at'[r] \in {"done", "del", "bump", "listGet"}
    /\ at'[r] \in {"del", "bump"} => env.cacheEnabled
    /\ at'[r] = "listGet" => at[r] = "versionGet"
    /\ at[r] = "limit" => at'[r] = "done" /\ next'[r] = Absent
    /\ \A q \in Req : q # r => at'[q] = at[q] /\ next'[q] = next[q] /\ call'[q] = call[q]
    /\ IsCall(call'[r]) /\ call'[r].op = call[r].op /\ call'[r].query = call[r].query
    /\ Refusal(call[r]) = Absent => Refusal(call'[r]) = Absent
    /\ UNCHANGED <<env, host, flight>>

\* A call that gets the id its row was given.
LEMMA CallGetsItsId ==
    ASSUME FieldTypes, NEW r \in Req, IsCall(call[r]), NEW id \in Id,
           call' = [call EXCEPT ![r].id = id]
    PROVE  /\ DOMAIN call' = Req /\ \A q \in Req : q # r => call'[q] = call[q]
           /\ IsCall(call'[r]) /\ call'[r].op = call[r].op /\ call'[r].query = call[r].query
           /\ Refusal(call[r]) = Absent => Refusal(call'[r]) = Absent
<1>1. id \notin {Bad, Garbled}
  BY ServiceAssumption
<1>2. call'[r] = [call[r] EXCEPT !.id = id]
  BY DEF FieldTypes
<1>3. /\ DOMAIN call'[r] = {"op", "ip", "id", "body", "query"} /\ call'[r].id = id
      /\ call'[r].op = call[r].op /\ call'[r].body = call[r].body
      /\ call'[r].query = call[r].query
  BY <1>2 DEF IsCall
<1>4. IsCall(call'[r])
  BY <1>1, <1>3 DEF IsCall
<1>5. ASSUME Refusal(call[r]) = Absent PROVE Refusal(call'[r]) = Absent
  BY <1>1, <1>3, <1>5, ServiceAssumption DEF Refusal, SchemaRefuses
<1> QED BY <1>3, <1>4, <1>5 DEF FieldTypes

LEMMA GoesMoves ==
    ASSUME ShapeInv, NEW r \in Req, Goes(r)
    PROVE  Moves(r)
<1>1. FieldTypes /\ CallFits(r)
  BY DEF ShapeInv
<1>2. at[r] # "idle" => IsCall(call[r])
  BY <1>1 DEF CallFits
<1> DEFINE Ends == \E response, content :
              /\ Answer(r, response, content)
              /\ at[r] = "limit" => content = Absent
<1>3. ASSUME Ends, at[r] \notin {"idle", "wait", "done", "lost"},
             call' = call \/ \E id \in Id : call' = [call EXCEPT ![r].id = id],
             UNCHANGED <<env, host, flight>>
      PROVE  Moves(r)
  <2>1. PICK response, content : /\ AnswerAll({r}, response, content)
                                 /\ at[r] = "limit" => content = Absent
    BY <1>3 DEF Answer
  <2>2. /\ at' \in [Req -> Steps] /\ DOMAIN next' = Req
        /\ at'[r] = "done" /\ (at[r] = "limit" => next'[r] = Absent)
        /\ \A q \in Req : q # r => at'[q] = at[q] /\ next'[q] = next[q]
    BY <1>1, <2>1, Answered
  <2>3. /\ DOMAIN call' = Req /\ \A q \in Req : q # r => call'[q] = call[q]
        /\ IsCall(call'[r]) /\ call'[r].op = call[r].op /\ call'[r].query = call[r].query
        /\ Refusal(call[r]) = Absent => Refusal(call'[r]) = Absent
    BY <1>1, <1>2, <1>3, CallGetsItsId DEF FieldTypes
  <2> QED BY <1>3, <2>2, <2>3 DEF Moves
<1>4. ASSUME NEW s \in {"del", "bump", "listGet"}, GoTo(r, s),
             at[r] \notin {"idle", "limit", "wait", "done", "lost"},
             call' = call \/ \E id \in Id : call' = [call EXCEPT ![r].id = id],
             s \in {"del", "bump"} => env.cacheEnabled, s = "listGet" => at[r] = "versionGet",
             UNCHANGED <<env, host, flight>>
      PROVE  Moves(r)
  <2>1. /\ at' \in [Req -> Steps] /\ DOMAIN next' = Req
        /\ at'[r] = s /\ \A q \in Req : q # r => at'[q] = at[q] /\ next'[q] = next[q]
    BY <1>1, <1>4 DEF GoTo, FieldTypes, Steps
  <2>3. /\ DOMAIN call' = Req /\ \A q \in Req : q # r => call'[q] = call[q]
        /\ IsCall(call'[r]) /\ call'[r].op = call[r].op /\ call'[r].query = call[r].query
        /\ Refusal(call[r]) = Absent => Refusal(call'[r]) = Absent
    BY <1>1, <1>2, <1>4, CallGetsItsId DEF FieldTypes
  <2> QED BY <1>4, <2>1, <2>3 DEF Moves
<1> USE DEF processVars, serverVars
<1> HIDE DEF Ends
<1>5. CASE LimitFails(r) BY <1>3, <1>5 DEF LimitFails, Ends
<1>6. CASE Insert(r) BY <1>3, <1>4, <1>6 DEF Insert, AfterWrite, Ends
<1>7. CASE Write(r) BY <1>3, <1>4, <1>7 DEF Write, AfterWrite, Ends
<1>8. CASE StatementFails(r) BY <1>3, <1>8 DEF StatementFails, Ends
<1>9. CASE Del(r) BY <1>1, <1>4, <1>9 DEF Del, CallFits
<1>10. CASE Bump(r) BY <1>3, <1>10 DEF Bump, Ends
<1>11. CASE Select(r) BY <1>3, <1>11 DEF Select, Ends
<1>12. CASE SelectFails(r) BY <1>3, <1>12 DEF SelectFails, Ends
<1>13. CASE VersionGet(r) BY <1>4, <1>13 DEF VersionGet
<1>14. CASE Probe(r) BY <1>3, <1>14 DEF Probe, Ends
<1>15. CASE StatementRefused(r) BY <1>3, <1>15 DEF StatementRefused, Ends
<1> QED BY <1>5, <1>6, <1>7, <1>8, <1>9, <1>10, <1>11, <1>12, <1>13, <1>14, <1>15 DEF Goes

\* A request that arrives, or passes the limiter.
Arrives(r) ==
    /\ at' \in [Req -> Steps] /\ DOMAIN next' = Req /\ DOMAIN call' = Req
    /\ host' \in [Req -> Replica \cup {Absent}]
    /\ at[r] \in {"idle", "limit"} \/ (at[r] = "done" /\ next[r] # Absent)
    /\ IsCall(call'[r])
    /\ at'[r] # "idle"
    /\ call'[r].op = "list" /\ (Active(r)' \/ next'[r] # Absent) => IsQuery(call'[r].query)
    /\ at'[r] \notin {"listGet", "del", "bump", "wait"}
    /\ at'[r] = "detailGet" => call'[r].op = "get" /\ env.cacheEnabled
    /\ at'[r] = "versionGet" => call'[r].op = "list" /\ env.cacheEnabled
    /\ \A q \in Req : q # r => /\ at'[q] = at[q] /\ next'[q] = next[q]
                               /\ call'[q] = call[q] /\ host'[q] = host[q]
    /\ UNCHANGED <<env, flight>>

\* A call that is not refused has a first step that fits it.
LEMMA FirstStepFits ==
    ASSUME NEW c, IsCall(c), Refusal(c) = Absent, c.op # "liveness"
    PROVE  /\ FirstStep(c) \in {"insert", "update", "delete", "health", "detailGet",
                                "versionGet", "select"}
           /\ FirstStep(c) = "detailGet" => c.op = "get" /\ env.cacheEnabled
           /\ FirstStep(c) = "versionGet" => c.op = "list" /\ env.cacheEnabled
           /\ c.op = "list" => IsQuery(c.query)
<1>1. c.op \in {"create", "get", "list", "update", "delete", "health"}
  BY DEF IsCall
<1>2. c.op = "list" => IsQuery(c.query)
  <2> SUFFICES ASSUME c.op = "list", c.query = Bad PROVE FALSE
    BY DEF IsCall
  <2>1. SchemaRefuses(c)
    BY DEF SchemaRefuses
  <2> QED BY <2>1, ServiceAssumption DEF Refusal
<1> QED BY <1>1, <1>2 DEF FirstStep

LEMMA HandleArrives ==
    ASSUME FieldTypes, NEW r \in Req, NEW c, IsCall(c), Handle(r, c),
           c.op = "list" /\ next[r] # Absent => IsQuery(c.query)
    PROVE  /\ at' \in [Req -> Steps] /\ DOMAIN next' = Req
           /\ at'[r] # "idle"
           /\ c.op = "list" /\ (at'[r] # "done" \/ next'[r] # Absent) => IsQuery(c.query)
           /\ at'[r] \notin {"listGet", "del", "bump", "wait"}
           /\ at'[r] = "detailGet" => c.op = "get" /\ env.cacheEnabled
           /\ at'[r] = "versionGet" => c.op = "list" /\ env.cacheEnabled
           /\ \A q \in Req : q # r => at'[q] = at[q] /\ next'[q] = next[q]
<1>1. CASE \E response : AnswerAll({r}, response, Absent)
  <2>1. PICK response : AnswerAll({r}, response, Absent)
    BY <1>1
  <2>2. /\ at' \in [Req -> Steps] /\ DOMAIN next' = Req
        /\ at'[r] = "done" /\ next'[r] = Absent
        /\ \A q \in Req : q # r => at'[q] = at[q] /\ next'[q] = next[q]
    BY <2>1, Answered
  <2> QED BY <2>2
<1>2. CASE GoTo(r, FirstStep(c)) /\ Refusal(c) = Absent /\ c.op # "liveness"
  <2>1. /\ FirstStep(c) \in {"insert", "update", "delete", "health", "detailGet",
                             "versionGet", "select"}
        /\ FirstStep(c) = "detailGet" => c.op = "get" /\ env.cacheEnabled
        /\ FirstStep(c) = "versionGet" => c.op = "list" /\ env.cacheEnabled
        /\ c.op = "list" => IsQuery(c.query)
    BY <1>2, FirstStepFits
  <2>2. at' = [at EXCEPT ![r] = FirstStep(c)] /\ next' = next
    BY <1>2 DEF GoTo
  <2> QED BY <2>1, <2>2 DEF FieldTypes, Steps
<1> QED BY <1>1, <1>2 DEF Handle, Answer

LEMMA AcceptArrives ==
    ASSUME ShapeInv, NEW r \in Req, NEW c, NEW i \in Replica, IsCall(c), Accept(r, c, i),
           at[r] = "idle" \/ (at[r] = "done" /\ next[r] # Absent),
           c.op = "list" /\ next[r] # Absent => IsQuery(c.query)
    PROVE  Arrives(r)
<1>1. FieldTypes
  BY DEF ShapeInv
<1>2. /\ call' = [call EXCEPT ![r] = c] /\ host' = [host EXCEPT ![r] = i]
      /\ UNCHANGED <<env, flight>>
  BY DEF Accept, processVars
<1>3. /\ DOMAIN call' = Req /\ call'[r] = c
      /\ host' \in [Req -> Replica \cup {Absent}]
      /\ \A q \in Req : q # r => call'[q] = call[q] /\ host'[q] = host[q]
  BY <1>1, <1>2 DEF FieldTypes
<1>4. CASE GoTo(r, "limit")
  <2>1. at' = [at EXCEPT ![r] = "limit"] /\ next' = next
    BY <1>4 DEF GoTo
  <2>2. /\ at' \in [Req -> Steps] /\ at'[r] = "limit"
        /\ \A q \in Req : q # r => at'[q] = at[q]
    BY <1>1, <2>1 DEF FieldTypes, Steps
  <2> QED BY <1>1, <1>2, <1>3, <2>1, <2>2 DEF Arrives, Active, FieldTypes
<1>5. CASE Handle(r, c)
  BY <1>1, <1>2, <1>3, <1>5, HandleArrives DEF Arrives, Active
<1> QED BY <1>4, <1>5 DEF Accept

LEMMA QueryWithCursor ==
    ASSUME NEW query, NEW token, IsQuery(query)
    PROVE  IsQuery([query EXCEPT !.cursor = token])
BY DEF IsQuery

LEMMA RequestsArrive ==
    ASSUME ShapeInv, NEW r \in Req, Send(r) \/ NextPage(r) \/ Limit(r)
    PROVE  Arrives(r)
<1>1. FieldTypes /\ CallFits(r)
  BY DEF ShapeInv
<1>2. CASE Send(r)
  <2>1. PICK c \in CallsOf[r], i \in Replica : at[r] = "idle" /\ Accept(r, c, i)
    BY <1>2 DEF Send
  <2>2. IsCall(c)
    BY <2>1, ServiceAssumption
  <2> QED BY <1>1, <2>1, <2>2, AcceptArrives DEF CallFits
<1>3. CASE NextPage(r)
  <2> DEFINE c == [call[r] EXCEPT !.query.cursor = next[r]]
  <2>1. PICK i \in Replica : /\ at[r] = "done" /\ next[r] # Absent /\ call[r].op = "list"
                             /\ Accept(r, c, i)
    BY <1>3 DEF NextPage
  <2>2. IsCall(call[r]) /\ IsQuery(call[r].query)
    BY <1>1, <2>1 DEF CallFits
  <2>3. /\ DOMAIN c = {"op", "ip", "id", "body", "query"} /\ c.op = "list"
        /\ c.query = [call[r].query EXCEPT !.cursor = next[r]]
    BY <2>1, <2>2 DEF IsCall
  <2>4. IsQuery(c.query)
    BY <2>2, <2>3, QueryWithCursor
  <2>5. c.body = call[r].body /\ c.id = call[r].id
    BY <2>2 DEF IsCall
  <2>6. IsCall(c)
    BY <2>1, <2>2, <2>3, <2>4, <2>5 DEF IsCall
  <2> HIDE DEF c
  <2> QED BY <2>1, <2>4, <2>6, AcceptArrives
<1>4. CASE Limit(r)
  <2>1. /\ at[r] = "limit" /\ UNCHANGED <<env, call, host, flight>>
        /\ (\E response : AnswerAll({r}, response, Absent)) \/ Handle(r, call[r])
    BY <1>4 DEF Limit, Answer, processVars
  <2>2. IsCall(call[r]) /\ (call[r].op = "list" /\ next[r] # Absent => IsQuery(call[r].query))
    BY <1>1, <2>1 DEF CallFits
  <2>3. CASE Handle(r, call[r])
    BY <1>1, <2>1, <2>2, <2>3, HandleArrives DEF Arrives, Active, FieldTypes
  <2>4. CASE \E response : AnswerAll({r}, response, Absent)
    <3>1. PICK response : AnswerAll({r}, response, Absent)
      BY <2>4
    <3>2. /\ at' \in [Req -> Steps] /\ DOMAIN next' = Req
          /\ at'[r] = "done" /\ next'[r] = Absent
          /\ \A q \in Req : q # r => at'[q] = at[q] /\ next'[q] = next[q]
      BY <1>1, <3>1, Answered
    <3> QED BY <1>1, <2>1, <2>2, <3>2 DEF Arrives, Active, FieldTypes
  <2> QED BY <2>1, <2>3, <2>4
<1> QED BY <1>2, <1>3, <1>4

\* A request that goes on while nobody waits through it leaves the flights
\* as they are.
LEMMA FlightsKeep ==
    ASSUME ShapeInv, NEW r \in Req, UNCHANGED <<env, flight>>,
           at[r] # "wait", at[r] = "done" => next[r] # Absent,
           \A q \in Req : q # r => /\ at'[q] = at[q] /\ next'[q] = next[q]
                                   /\ call'[q] = call[q] /\ host'[q] = host[q]
    PROVE  \A f \in Req : flight'[f] # Absent => FlightFits(f)'
<1> SUFFICES ASSUME NEW f \in Req, flight'[f] # Absent PROVE FlightFits(f)'
  OBVIOUS
<1>1. FlightFits(f) /\ flight[f] # Absent
  BY DEF ShapeInv
<1>2. f # r /\ r \notin flight[f].waiters
  BY <1>1 DEF FlightFits
<1> QED BY <1>1, <1>2 DEF FlightFits

LEMMA MovesShape ==
    ASSUME ShapeInv, NEW r \in Req, Moves(r), FieldTypes'
    PROVE  ShapeInv'
<1>1. \A f \in Req : flight'[f] # Absent => FlightFits(f)'
  BY FlightsKeep DEF Moves
<1>2. ASSUME NEW q \in Req PROVE CallFits(q)'
  <2>1. CallFits(q)
    BY DEF ShapeInv
  <2>2. CASE q # r BY <2>1, <2>2 DEF CallFits, Active, Moves
  <2>3. CASE q = r BY <2>1, <2>3 DEF CallFits, Active, Moves
  <2> QED BY <2>2, <2>3
<1> QED BY <1>1, <1>2 DEF ShapeInv

LEMMA ArrivesShape ==
    ASSUME ShapeInv, NEW r \in Req, Arrives(r), FieldTypes'
    PROVE  ShapeInv'
<1>1. \A f \in Req : flight'[f] # Absent => FlightFits(f)'
  BY FlightsKeep DEF Arrives, ShapeInv, CallFits
<1>2. ASSUME NEW q \in Req PROVE CallFits(q)'
  <2>1. CallFits(q)
    BY DEF ShapeInv
  <2>2. CASE q # r BY <2>1, <2>2 DEF CallFits, Active, Arrives
  <2>3. CASE q = r BY <2>1, <2>3 DEF CallFits, Active, Arrives
  <2> QED BY <2>2, <2>3
<1> QED BY <1>1, <1>2 DEF ShapeInv

\* A reader that looks into the cache: a hit, or a flight.
Looks(r, key) ==
    /\ at[r] \in {"detailGet", "listGet"}
    /\ UNCHANGED <<env, call, host>>
    /\ \/ UNCHANGED flight /\ \E response, content : AnswerAll({r}, response, content)
       \/ JoinOrLead(r, key)

LEMMA ReadersLook ==
    ASSUME NEW r \in Req
    PROVE  /\ DetailGet(r) => Looks(r, DetailKey(call[r].id))
           /\ ListGet(r) => Looks(r, KeyOf(r))
BY DEF DetailGet, ListGet, Looks, Answer, processVars

\* A reader that joins a flight, or leads a new one.
Joins(r, f) == /\ flight[f] # Absent /\ flight[f].shared /\ host[f] = host[r]
               /\ flight' = [flight EXCEPT ![f].waiters = @ \cup {r}]

Leads(r, key) == flight' = [flight EXCEPT ![r] =
                              [key |-> key, step |-> "read", value |-> Absent,
                               shared |-> TRUE, waiters |-> {r}]]

LEMMA JoinsOrLeads ==
    ASSUME NEW r \in Req, NEW key, JoinOrLead(r, key)
    PROVE  /\ at' = [at EXCEPT ![r] = "wait"] /\ next' = next
           /\ (\E f \in Req : Joins(r, f)) \/ Leads(r, key)
BY DEF JoinOrLead, GoTo, InFlight, Joins, Leads

LEMMA LooksShape ==
    ASSUME ShapeInv, NEW r \in Req, NEW key, Looks(r, key), FieldTypes',
           call[r].op = "list" => /\ key = ListKey(call[r].query, key.version)
                                  /\ key.version \in Nat
    PROVE  ShapeInv'
<1>1. /\ at[r] \in {"detailGet", "listGet"} /\ UNCHANGED <<env, call, host>>
      /\ FieldTypes /\ CallFits(r)
      /\ \A f \in Req : flight[f] # Absent => FlightFits(f)
  BY DEF Looks, ShapeInv
<1>2. CASE UNCHANGED flight /\ \E response, content : AnswerAll({r}, response, content)
  <2>1. PICK response, content : AnswerAll({r}, response, content)
    BY <1>2
  <2>2. /\ at' \in [Req -> Steps] /\ DOMAIN next' = Req /\ at'[r] = "done"
        /\ \A q \in Req : q # r => at'[q] = at[q] /\ next'[q] = next[q]
    BY <1>1, <2>1, Answered
  <2>3. Moves(r)
    BY <1>1, <1>2, <2>2 DEF Moves, FieldTypes, CallFits
  <2> QED BY <2>3, MovesShape
<1>3. CASE JoinOrLead(r, key)
  <2>1. /\ at' = [at EXCEPT ![r] = "wait"] /\ next' = next
        /\ (\E f \in Req : Joins(r, f)) \/ Leads(r, key)
    BY <1>3, JoinsOrLeads
  <2>2. /\ at'[r] = "wait" /\ \A q \in Req : q # r => at'[q] = at[q]
    BY <1>1, <2>1 DEF FieldTypes
  <2>3. ASSUME NEW q \in Req PROVE CallFits(q)'
    BY <1>1, <2>1, <2>2 DEF ShapeInv, CallFits, Active
  <2>4. flight[r] = Absent /\ \A f \in Req : flight[f] # Absent => r \notin flight[f].waiters
    BY <1>1 DEF FlightFits
  <2>5. ASSUME NEW f \in Req, Joins(r, f), NEW g \in Req, flight'[g] # Absent
        PROVE  FlightFits(g)'
    <3>1. FlightFits(f) /\ f # r /\ flight[f] # Absent
      BY <1>1, <2>4, <2>5 DEF Joins
    <3>2. flight'[f] = [flight[f] EXCEPT !.waiters = @ \cup {r}]
      BY <1>1, <2>5 DEF Joins, FieldTypes
    <3>3. /\ DOMAIN flight'[f] = {"key", "step", "value", "shared", "waiters"}
          /\ flight'[f].key = flight[f].key /\ flight'[f].waiters = flight[f].waiters \cup {r}
      BY <3>1, <3>2 DEF FlightFits
    <3>4. /\ \A q \in Req : q # f => flight'[q] = flight[q]
          /\ flight'[r] = Absent /\ g # r
      BY <1>1, <2>4, <2>5, <3>1 DEF Joins, FieldTypes
    <3>5. FlightFits(g) /\ flight[g] # Absent
      BY <1>1, <2>5, <3>1, <3>4
    <3>6. /\ DOMAIN flight'[g] = {"key", "step", "value", "shared", "waiters"}
          /\ flight'[g].key = flight[g].key
          /\ flight'[g].waiters \subseteq flight[g].waiters \cup IF g = f THEN {r} ELSE {}
      BY <3>3, <3>4, <3>5 DEF FlightFits
    <3>7. at'[g] = "wait" \/ (at'[g] = "done" /\ next'[g] = Absent)
      BY <2>1, <2>2, <3>4, <3>5 DEF FlightFits
    <3>8. ASSUME NEW w \in flight'[g].waiters
          PROVE  /\ w \in Req /\ at'[w] = "wait" /\ host'[w] = host'[g]
                 /\ flight'[w] # Absent => w = g
                 /\ \A h \in Req : flight'[h] # Absent /\ w \in flight'[h].waiters => h = g
      <4>1. CASE w = r
        BY <1>1, <2>2, <2>4, <2>5, <3>3, <3>4, <3>6, <4>1 DEF Joins
      <4>2. CASE w # r
        <5>1. w \in flight[g].waiters
          BY <3>6, <4>2
        <5>2. ASSUME NEW h \in Req, flight'[h] # Absent, w \in flight'[h].waiters
              PROVE  h = g
          BY <3>1, <3>3, <3>4, <3>5, <4>2, <5>1, <5>2 DEF FlightFits
        <5>3. flight'[w] # Absent => w = g
          BY <3>1, <3>4, <3>5, <5>1 DEF FlightFits
        <5> QED BY <1>1, <2>2, <3>5, <4>2, <5>1, <5>2, <5>3 DEF FlightFits
      <4> QED BY <4>1, <4>2
    <3> QED BY <1>1, <3>5, <3>6, <3>7, <3>8 DEF FlightFits
  <2>6. ASSUME Leads(r, key), NEW g \in Req, flight'[g] # Absent
        PROVE  FlightFits(g)'
    <3>1. /\ flight'[r] = [key |-> key, step |-> "read", value |-> Absent,
                           shared |-> TRUE, waiters |-> {r}]
          /\ \A q \in Req : q # r => flight'[q] = flight[q]
      BY <1>1, <2>6 DEF Leads, FieldTypes
    <3>2. CASE g = r
      <4>1. call[r].op \in {"get", "list"} /\ env.cacheEnabled
        BY <1>1 DEF CallFits
      <4>2. call[r].op = "list" => IsQuery(call[r].query)
        BY <1>1 DEF CallFits, Active
      <4>3. \A h \in Req : flight'[h] # Absent /\ r \in flight'[h].waiters => h = r
        BY <2>4, <3>1
      <4> QED BY <1>1, <2>2, <3>1, <3>2, <4>1, <4>2, <4>3 DEF FlightFits
    <3>3. CASE g # r
      <4>1. FlightFits(g) /\ flight'[g] = flight[g] /\ flight[g] # Absent
        BY <1>1, <2>6, <3>1, <3>3
      <4>2. \A w \in flight[g].waiters : w # r
        BY <2>4, <4>1
      <4> QED BY <1>1, <2>1, <2>2, <3>1, <3>3, <4>1, <4>2 DEF FlightFits
    <3> QED BY <3>2, <3>3
  <2> QED BY <2>1, <2>3, <2>5, <2>6 DEF ShapeInv
<1> QED BY <1>2, <1>3 DEF Looks

\* What happens to a flight: it is read and goes on to fill, it ends, or its
\* timer fires.
ReadDone(f) == /\ \E value : /\ value # Absent
                             /\ flight' = [flight EXCEPT ![f].step = "fill", ![f].value = value]
               /\ UNCHANGED <<at, next>>

Ends(f) == /\ \E response, content : AnswerAll(flight[f].waiters, response, content)
           /\ flight' = [flight EXCEPT ![f] = Absent]

TimesOut(f) == /\ \E response : AnswerAll(flight[f].waiters, response, Absent)
               /\ flight' = [flight EXCEPT ![f].shared = FALSE, ![f].waiters = {}]

Turns(f) == /\ flight[f] # Absent
            /\ UNCHANGED <<env, call, host>>
            /\ ReadDone(f) \/ Ends(f) \/ TimesOut(f)

LEMMA FlightsTurn ==
    ASSUME NEW f \in Req, FlightRead(f) \/ FlightReadFails(f) \/ FlightFill(f) \/ FlightTimeout(f)
    PROVE  Turns(f)
<1> USE DEF Turns, ReadDone, Ends, TimesOut, Flying, Land, Reject, processVars
<1>1. CASE FlightRead(f) BY <1>1 DEF FlightRead
<1>2. CASE FlightReadFails(f) BY <1>2 DEF FlightReadFails
<1>3. CASE FlightFill(f) BY <1>3 DEF FlightFill
<1>4. CASE FlightTimeout(f) BY <1>4 DEF FlightTimeout
<1> QED BY <1>1, <1>2, <1>3, <1>4

\* Answering those that wait for a flight touches no other flight.
LEMMA AnsweredWaiters ==
    ASSUME ShapeInv, NEW f \in Req, flight[f] # Absent, UNCHANGED <<env, call, host>>,
           NEW response, NEW content, AnswerAll(flight[f].waiters, response, content),
           DOMAIN flight' = Req, \A g \in Req : g # f => flight'[g] = flight[g]
    PROVE  /\ \A q \in Req : CallFits(q)'
           /\ \A g \in Req : g # f /\ flight'[g] # Absent
                  /\ (flight'[f] # Absent => flight'[f].waiters = {}) => FlightFits(g)'
<1>1. /\ FieldTypes /\ FlightFits(f)
      /\ \A q \in Req : CallFits(q)
      /\ \A g \in Req : flight[g] # Absent => FlightFits(g)
  BY DEF ShapeInv
<1>2. /\ \A q \in Req : at'[q] = IF q \in flight[f].waiters THEN "done" ELSE at[q]
      /\ \A q \in Req : q \notin flight[f].waiters => next'[q] = next[q]
  BY <1>1, Answered
<1>3. \A q \in flight[f].waiters : at[q] = "wait"
  BY <1>1 DEF FlightFits
<1>4. ASSUME NEW q \in Req PROVE CallFits(q)'
  <2>1. CASE q \in flight[f].waiters BY <1>1, <1>2, <1>3, <2>1 DEF CallFits, Active
  <2>2. CASE q \notin flight[f].waiters BY <1>1, <1>2, <2>2 DEF CallFits, Active
  <2> QED BY <2>1, <2>2
<1>5. ASSUME NEW g \in Req, g # f, flight'[g] # Absent,
             flight'[f] # Absent => flight'[f].waiters = {}
      PROVE  FlightFits(g)'
  <2>1. FlightFits(g) /\ flight'[g] = flight[g] /\ flight[g] # Absent
    BY <1>1, <1>5
  <2>2. g \notin flight[f].waiters
    BY <1>1, <1>5, <2>1 DEF FlightFits
  <2>3. at'[g] = at[g] /\ next'[g] = next[g]
    BY <1>2, <2>2
  <2>4. ASSUME NEW w \in flight'[g].waiters
        PROVE  /\ w \in Req /\ at'[w] = "wait" /\ host'[w] = host'[g]
               /\ flight'[w] # Absent => w = g
               /\ \A h \in Req : flight'[h] # Absent /\ w \in flight'[h].waiters => h = g
    <3>1. w \in Req /\ at[w] = "wait" /\ host[w] = host[g] /\ w \notin flight[f].waiters
      BY <1>5, <2>1, <2>4 DEF FlightFits
    <3>2. flight'[w] # Absent => w = g
      <4>1. CASE w = f
        <5>1. f = g
          BY <2>1, <2>4, <4>1 DEF FlightFits
        <5> QED BY <1>5, <5>1
      <4>2. CASE w # f BY <2>1, <2>4, <3>1, <4>2 DEF FlightFits
      <4> QED BY <4>1, <4>2
    <3>3. ASSUME NEW h \in Req, flight'[h] # Absent, w \in flight'[h].waiters
          PROVE  h = g
      <4>1. h # f
        BY <1>5, <3>3
      <4> QED BY <2>1, <2>4, <3>3, <4>1 DEF FlightFits
    <3> QED BY <1>2, <3>1, <3>2, <3>3
  <2> QED BY <2>1, <2>3, <2>4 DEF FlightFits
<1> QED BY <1>4, <1>5

LEMMA TurnsShape ==
    ASSUME ShapeInv, NEW f \in Req, Turns(f), FieldTypes'
    PROVE  ShapeInv'
<1>1. /\ FieldTypes /\ FlightFits(f) /\ flight[f] # Absent
      /\ UNCHANGED <<env, call, host>>
      /\ \A q \in Req : CallFits(q)
      /\ \A g \in Req : flight[g] # Absent => FlightFits(g)
  BY DEF ShapeInv, Turns
<1>2. CASE ReadDone(f)
  <2>1. /\ \A g \in Req : g # f => flight'[g] = flight[g]
        /\ DOMAIN flight'[f] = DOMAIN flight[f]
        /\ flight'[f].key = flight[f].key /\ flight'[f].waiters = flight[f].waiters
    BY <1>1, <1>2 DEF ReadDone, FieldTypes, FlightFits
  <2>2. UNCHANGED <<at, next>>
    BY <1>2 DEF ReadDone
  <2>3. ASSUME NEW g \in Req, flight'[g] # Absent PROVE FlightFits(g)'
    <3>1. FlightFits(g) /\ flight[g] # Absent
      BY <1>1, <2>1, <2>3
    <3>2. /\ DOMAIN flight'[g] = DOMAIN flight[g]
          /\ flight'[g].key = flight[g].key /\ flight'[g].waiters = flight[g].waiters
      BY <2>1
    <3>3. ASSUME NEW w \in flight[g].waiters
          PROVE  /\ flight'[w] # Absent => w = g
                 /\ \A h \in Req : flight'[h] # Absent /\ w \in flight'[h].waiters => h = g
      <4>1. \A h \in Req : flight'[h] # Absent => flight[h] # Absent
        BY <1>1, <2>1
      <4>2. \A h \in Req : flight'[h].waiters = flight[h].waiters
        BY <2>1
      <4> QED BY <3>1, <3>3, <4>1, <4>2 DEF FlightFits
    <3> QED BY <1>1, <2>2, <3>1, <3>2, <3>3 DEF FlightFits
  <2>4. \A q \in Req : CallFits(q)'
    BY <1>1, <2>2 DEF CallFits, Active
  <2> QED BY <2>3, <2>4 DEF ShapeInv
<1>3. CASE Ends(f)
  <2>1. PICK response, content : AnswerAll(flight[f].waiters, response, content)
    BY <1>3 DEF Ends
  <2>2. /\ DOMAIN flight' = Req /\ flight'[f] = Absent
        /\ \A g \in Req : g # f => flight'[g] = flight[g]
    BY <1>1, <1>3 DEF Ends, FieldTypes
  <2>3. /\ \A q \in Req : CallFits(q)'
        /\ \A g \in Req : g # f /\ flight'[g] # Absent => FlightFits(g)'
    BY <1>1, <2>1, <2>2, AnsweredWaiters
  <2> QED BY <2>2, <2>3 DEF ShapeInv
<1>4. CASE TimesOut(f)
  <2>1. PICK response : AnswerAll(flight[f].waiters, response, Absent)
    BY <1>4 DEF TimesOut
  <2>2. /\ DOMAIN flight' = Req
        /\ DOMAIN flight'[f] = DOMAIN flight[f]
        /\ flight'[f].key = flight[f].key /\ flight'[f].waiters = {}
        /\ \A g \in Req : g # f => flight'[g] = flight[g]
    BY <1>1, <1>4 DEF TimesOut, FieldTypes, FlightFits
  <2>3. /\ \A q \in Req : CallFits(q)'
        /\ \A g \in Req : g # f /\ flight'[g] # Absent => FlightFits(g)'
    BY <1>1, <2>1, <2>2, AnsweredWaiters
  <2>4. at'[f] = "wait" \/ (at'[f] = "done" /\ next'[f] = Absent)
    BY <1>1, <2>1, Answered DEF FlightFits
  <2>5. FlightFits(f)'
    BY <1>1, <2>2, <2>4 DEF FlightFits
  <2> QED BY <2>3, <2>5 DEF ShapeInv
<1> QED BY <1>2, <1>3, <1>4 DEF Turns

\* A replica that exits: its flights are gone, and nobody else waited for them.
LEMMA ExitsShape ==
    ASSUME ShapeInv, NEW i \in Replica, ExitCleanly(i) \/ ForceExit(i)
    PROVE  ShapeInv'
<1>1. /\ FieldTypes
      /\ \A q \in Req : CallFits(q)
      /\ \A g \in Req : flight[g] # Absent => FlightFits(g)
  BY DEF ShapeInv
<1>2. /\ flight' = [f \in Req |-> IF host[f] = i THEN Absent ELSE flight[f]]
      /\ UNCHANGED <<env, version, call, host, listVersion, next>>
      /\ \/ at' = at
         \/ at' = [r \in Req |-> IF host[r] = i /\ Busy(r) THEN "lost" ELSE at[r]]
  BY DEF ExitCleanly, ForceExit, serverVars
<1>3. /\ at' \in [Req -> Steps]
      /\ \A q \in Req : at'[q] = at[q] \/ (at'[q] = "lost" /\ at[q] # "idle" /\ host[q] = i)
  BY <1>1, <1>2 DEF FieldTypes, Steps, Busy
<1>4. FieldTypes'
  BY <1>1, <1>2, <1>3 DEF FieldTypes
<1>5. ASSUME NEW q \in Req PROVE CallFits(q)'
  BY <1>1, <1>2, <1>3 DEF CallFits, Active
<1>6. ASSUME NEW g \in Req, flight'[g] # Absent PROVE FlightFits(g)'
  <2>1. host[g] # i /\ flight'[g] = flight[g] /\ FlightFits(g) /\ flight[g] # Absent
    BY <1>1, <1>2, <1>6
  <2>2. \A h \in Req : flight'[h] # Absent => flight'[h] = flight[h]
    BY <1>2
  <2>3. \A w \in flight[g].waiters : w \in Req /\ host[w] # i /\ at'[w] = at[w]
    BY <1>3, <2>1 DEF FlightFits
  <2> QED BY <1>2, <1>3, <2>1, <2>2, <2>3 DEF FlightFits
<1> QED BY <1>4, <1>5, <1>6 DEF ShapeInv

LEMMA FieldTypesStep ==
    ASSUME ShapeInv, NEW r \in Req,
           \/ Arrives(r) \/ Moves(r) \/ (\E key : Looks(r, key)) \/ Turns(r),
           version' \in Nat \cup {Absent}, listVersion' \in [Req -> Nat]
    PROVE  FieldTypes'
<1>1. FieldTypes
  BY DEF ShapeInv
<1>2. CASE Arrives(r) \/ Moves(r) BY <1>1, <1>2 DEF FieldTypes, Arrives, Moves
<1>3. ASSUME NEW key, Looks(r, key) PROVE FieldTypes'
  <2>1. CASE UNCHANGED flight /\ \E response, content : AnswerAll({r}, response, content)
    <3>1. at' \in [Req -> Steps] /\ DOMAIN next' = Req
      BY <1>1, <2>1, Answered
    <3> QED BY <1>1, <1>3, <2>1, <3>1 DEF FieldTypes, Looks
  <2>2. CASE JoinOrLead(r, key)
    <3>1. /\ at' = [at EXCEPT ![r] = "wait"] /\ next' = next
          /\ (\E f \in Req : Joins(r, f)) \/ Leads(r, key)
      BY <2>2, JoinsOrLeads
    <3> QED BY <1>1, <1>3, <3>1 DEF FieldTypes, Looks, Joins, Leads, Steps
  <2> QED BY <1>3, <2>1, <2>2 DEF Looks
<1>4. CASE Turns(r)
  <2>1. DOMAIN flight' = Req
    BY <1>1, <1>4 DEF Turns, ReadDone, Ends, TimesOut, FieldTypes
  <2>2. at' \in [Req -> Steps] /\ DOMAIN next' = Req
    BY <1>1, <1>4, Answered DEF Turns, ReadDone, Ends, TimesOut, FieldTypes
  <2> QED BY <1>1, <1>4, <2>1, <2>2 DEF FieldTypes, Turns
<1> QED BY <1>2, <1>3, <1>4

\* The numbers keep their types.
LEMMA VersionTypes ==
    ASSUME ShapeInv, NEW r \in Req,
           \/ Send(r) \/ NextPage(r) \/ Limit(r) \/ Goes(r) \/ DetailGet(r) \/ ListGet(r)
           \/ FlightRead(r) \/ FlightReadFails(r) \/ FlightFill(r) \/ FlightTimeout(r)
    PROVE  version' \in Nat \cup {Absent} /\ listVersion' \in [Req -> Nat]
<1>1. version \in Nat \cup {Absent} /\ listVersion \in [Req -> Nat]
  BY DEF ShapeInv, FieldTypes
<1> USE DEF serverVars
<1>2. CASE Bump(r)
  BY <1>1, <1>2 DEF Bump, Incremented
<1>3. CASE VersionGet(r)
  BY <1>1, <1>3 DEF VersionGet, CurrentVersion
<1>4. CASE ListGet(r)
  BY <1>1, <1>4 DEF ListGet
<1>5. CASE Send(r) \/ NextPage(r)
  BY <1>1, <1>5 DEF Send, NextPage, Accept
<1>6. CASE \/ Limit(r) \/ LimitFails(r) \/ Insert(r) \/ Write(r) \/ StatementFails(r)
           \/ StatementRefused(r) \/ Del(r)
  BY <1>1, <1>6
     DEF Limit, LimitFails, Insert, Write, StatementFails, StatementRefused, Del
<1>7. CASE Select(r) \/ SelectFails(r) \/ Probe(r) \/ DetailGet(r)
  BY <1>1, <1>7 DEF Select, SelectFails, Probe, DetailGet
<1>8. CASE FlightRead(r) \/ FlightReadFails(r) \/ FlightFill(r) \/ FlightTimeout(r)
  BY <1>1, <1>8 DEF FlightRead, FlightReadFails, FlightFill, FlightTimeout
<1> QED BY <1>2, <1>3, <1>4, <1>5, <1>6, <1>7, <1>8 DEF Goes

\* The key of a reader that looks into the cache is that of its call.
LEMMA LooksAtItsKey ==
    ASSUME ShapeInv, NEW r \in Req, DetailGet(r) \/ ListGet(r)
    PROVE  \E key : /\ Looks(r, key)
                    /\ call[r].op = "list" => /\ at[r] = "listGet"
                                              /\ key = ListKey(call[r].query, listVersion[r])
                                              /\ key.version = listVersion[r]
<1>1. CASE DetailGet(r)
  <2>1. call[r].op = "get"
    BY <1>1 DEF DetailGet, ShapeInv, CallFits
  <2> QED BY <1>1, <2>1, ReadersLook
<1>2. CASE ListGet(r)
  <2>1. at[r] = "listGet" /\ KeyOf(r) = ListKey(call[r].query, listVersion[r])
    BY <1>2 DEF ListGet, KeyOf
  <2>2. KeyOf(r).version = listVersion[r]
    BY <2>1 DEF ListKey
  <2> QED BY <1>2, <2>1, <2>2, ReadersLook
<1> QED BY <1>1, <1>2

LEMMA ShapeStep == ShapeInv /\ [Next]_vars => ShapeInv'
<1> SUFFICES ASSUME ShapeInv, [Next]_vars PROVE ShapeInv'
  OBVIOUS
<1>1. CASE Elsewhere \/ RedisLoss
  <2>1. UNCHANGED <<env, at, call, host, listVersion, flight, next>>
    BY <1>1 DEF Elsewhere, RedisLoss, processVars, requestVars
  <2>2. version' \in Nat \cup {Absent}
    BY <1>1 DEF Elsewhere, RedisLoss, ShapeInv, FieldTypes
  <2> QED BY <2>1, <2>2 DEF ShapeInv, FieldTypes, CallFits, Active, FlightFits
<1>2. ASSUME NEW r \in Req, Send(r) \/ NextPage(r) \/ Limit(r) PROVE ShapeInv'
  BY <1>2, RequestsArrive, VersionTypes, FieldTypesStep, ArrivesShape
<1>3. ASSUME NEW r \in Req, Goes(r) PROVE ShapeInv'
  BY <1>3, GoesMoves, VersionTypes, FieldTypesStep, MovesShape
<1>4. ASSUME NEW r \in Req, DetailGet(r) \/ ListGet(r) PROVE ShapeInv'
  <2>1. PICK key : /\ Looks(r, key)
                   /\ call[r].op = "list" => /\ key = ListKey(call[r].query, listVersion[r])
                                             /\ key.version = listVersion[r]
    BY <1>4, LooksAtItsKey
  <2>2. listVersion[r] \in Nat
    BY DEF ShapeInv, FieldTypes
  <2>3. FieldTypes'
    BY <1>4, <2>1, VersionTypes, FieldTypesStep
  <2> QED BY <2>1, <2>2, <2>3, LooksShape
<1>5. ASSUME NEW f \in Req,
             FlightRead(f) \/ FlightReadFails(f) \/ FlightFill(f) \/ FlightTimeout(f)
      PROVE  ShapeInv'
  BY <1>5, FlightsTurn, VersionTypes, FieldTypesStep, TurnsShape
<1>6. ASSUME NEW i \in Replica, ExitCleanly(i) \/ ForceExit(i) PROVE ShapeInv'
  BY <1>6, ExitsShape
<1> QED BY <1>1, <1>2, <1>3, <1>4, <1>5, <1>6, StepShape

-----------------------------------------------------------------------------
(* Those that wait.                                                        *)

\* Absent is unlike the record of a flight.
AbsentIsNoFlight ==
    \A key, step, value, shared, waiters :
        Absent # [key |-> key, step |-> step, value |-> value, shared |-> shared,
                  waiters |-> waiters]

LEMMA FlightsAreNotAbsent ==
    ASSUME AbsentIsNoFlight, NEW g,
           DOMAIN g = {"key", "step", "value", "shared", "waiters"}
    PROVE  /\ \A waiters : [g EXCEPT !.waiters = waiters] # Absent
           /\ \A step, value : [g EXCEPT !.step = step, !.value = value] # Absent
<1>1. ASSUME NEW waiters PROVE [g EXCEPT !.waiters = waiters] # Absent
  <2>1. [g EXCEPT !.waiters = waiters] = [key |-> g.key, step |-> g.step, value |-> g.value,
                                          shared |-> g.shared, waiters |-> waiters]
    OBVIOUS
  <2> QED BY <2>1 DEF AbsentIsNoFlight
<1>2. ASSUME NEW step, NEW value PROVE [g EXCEPT !.step = step, !.value = value] # Absent
  <2> DEFINE h == [g EXCEPT !.step = step, !.value = value]
  <2>1. h = [x \in {"key", "step", "value", "shared", "waiters"} |-> h[x]]
    OBVIOUS
  <2> HIDE DEF h
  <2>2. h = [key |-> h.key, step |-> h.step, value |-> h.value, shared |-> h.shared,
             waiters |-> h.waiters]
    BY <2>1
  <2> QED BY <2>2 DEF AbsentIsNoFlight, h
<1> QED BY <1>1, <1>2

\* A flight that answers r, should it come to that.
Serves(f, r) == /\ flight[f] # Absent /\ flight[f].shared
                /\ host[f] = host[r] /\ r \in flight[f].waiters

LEMMA WaitersStep ==
    ASSUME AbsentIsNoFlight, ShapeInv, WaitersHaveATimer, [Next]_vars
    PROVE  WaitersHaveATimer'
<1>1. /\ FieldTypes
      /\ \A g \in Req : flight[g] # Absent => FlightFits(g)
  BY DEF ShapeInv
<1>2. SUFFICES ASSUME NEW r \in Req, at'[r] = "wait"
               PROVE  \E f \in Req : Serves(f, r)'
  BY DEF WaitersHaveATimer, Serves
<1>3. at[r] = "wait" => \E f \in Req : Serves(f, r)
  BY DEF WaitersHaveATimer, Serves
<1>4. CASE Elsewhere \/ RedisLoss
  <2>1. UNCHANGED <<at, host, flight>>
    BY <1>4 DEF Elsewhere, RedisLoss, requestVars
  <2> QED BY <1>2, <1>3, <2>1 DEF Serves
<1>5. ASSUME NEW q \in Req, Arrives(q) \/ Moves(q) PROVE \E f \in Req : Serves(f, r)'
  <2>1. flight' = flight /\ r # q /\ at[r] = "wait" /\ host'[r] = host[r]
    BY <1>2, <1>5 DEF Arrives, Moves
  <2>2. PICK f \in Req : Serves(f, r)
    BY <1>3, <2>1
  <2>3. f # q
    BY <1>1, <1>5, <2>2 DEF FlightFits, Serves, Arrives, Moves
  <2>4. host'[f] = host[f]
    BY <1>5, <2>3 DEF Arrives, Moves
  <2> QED BY <2>1, <2>2, <2>4 DEF Serves
<1>6. ASSUME NEW q \in Req, NEW key, Looks(q, key) PROVE \E f \in Req : Serves(f, r)'
  <2>1. at[q] \in {"detailGet", "listGet"} /\ host' = host
    BY <1>6 DEF Looks
  <2>2. CASE UNCHANGED flight /\ \E response, content : AnswerAll({q}, response, content)
    <3>1. at[r] = "wait"
      BY <1>1, <1>2, <2>2, Answered
    <3> QED BY <1>3, <2>1, <2>2, <3>1 DEF Serves
  <2>3. CASE JoinOrLead(q, key)
    <3>1. /\ at' = [at EXCEPT ![q] = "wait"]
          /\ (\E f \in Req : Joins(q, f)) \/ Leads(q, key)
      BY <2>3, JoinsOrLeads
    <3>2. r = q \/ at[r] = "wait"
      BY <1>1, <1>2, <3>1 DEF FieldTypes
    <3>3. flight[q] = Absent
      BY <1>1, <2>1 DEF FlightFits
    <3>4. ASSUME NEW f \in Req, Joins(q, f) PROVE \E g \in Req : Serves(g, r)'
      <4>1. /\ flight[f] # Absent /\ FlightFits(f) /\ flight[f].shared /\ host[f] = host[q]
            /\ flight'[f] = [flight[f] EXCEPT !.waiters = @ \cup {q}]
            /\ \A g \in Req : g # f => flight'[g] = flight[g]
        BY <1>1, <3>4 DEF Joins, FieldTypes
      <4>2. /\ flight'[f] # Absent /\ flight'[f].shared
            /\ flight'[f].waiters = flight[f].waiters \cup {q}
        <5>1. DOMAIN flight[f] = {"key", "step", "value", "shared", "waiters"}
          BY <4>1 DEF FlightFits
        <5>2. [flight[f] EXCEPT !.waiters = flight[f].waiters \cup {q}] # Absent
          BY <5>1, FlightsAreNotAbsent
        <5> QED BY <4>1, <5>1, <5>2
      <4>3. CASE r = q BY <2>1, <4>1, <4>2, <4>3 DEF Serves
      <4>4. CASE r # q
        <5>1. PICK g \in Req : Serves(g, r)
          BY <1>3, <3>2, <4>4
        <5> QED BY <2>1, <4>1, <4>2, <5>1 DEF Serves
      <4> QED BY <4>3, <4>4
    <3>5. CASE Leads(q, key)
      <4>1. /\ flight'[q] = [key |-> key, step |-> "read", value |-> Absent,
                             shared |-> TRUE, waiters |-> {q}]
            /\ \A g \in Req : g # q => flight'[g] = flight[g]
        BY <1>1, <3>5 DEF Leads, FieldTypes
      <4>2. flight'[q] # Absent
        BY <4>1 DEF AbsentIsNoFlight
      <4>3. CASE r = q BY <2>1, <4>1, <4>2, <4>3 DEF Serves
      <4>4. CASE r # q
        <5>1. PICK g \in Req : Serves(g, r)
          BY <1>3, <3>2, <4>4
        <5> QED BY <2>1, <3>3, <4>1, <5>1 DEF Serves
      <4> QED BY <4>3, <4>4
    <3> QED BY <3>1, <3>4, <3>5
  <2> QED BY <1>6, <2>2, <2>3 DEF Looks
<1>7. ASSUME NEW f \in Req, Turns(f) PROVE \E g \in Req : Serves(g, r)'
  <2>1. flight[f] # Absent /\ host' = host /\ FlightFits(f)
    BY <1>1, <1>7 DEF Turns
  <2>2. CASE ReadDone(f)
    <3>1. at[r] = "wait"
      BY <1>2, <2>2 DEF ReadDone
    <3>2. PICK g \in Req : Serves(g, r)
      BY <1>3, <3>1
    <3>3. PICK value : flight' = [flight EXCEPT ![f].step = "fill", ![f].value = value]
      BY <2>2 DEF ReadDone
    <3>4. /\ flight'[f] = [flight[f] EXCEPT !.step = "fill", !.value = value]
          /\ \A h \in Req : h # f => flight'[h] = flight[h]
      BY <1>1, <3>3 DEF FieldTypes
    <3>5. /\ flight'[f] # Absent /\ flight'[f].shared = flight[f].shared
          /\ flight'[f].waiters = flight[f].waiters
      <4>1. DOMAIN flight[f] = {"key", "step", "value", "shared", "waiters"}
        BY <2>1 DEF FlightFits
      <4>2. [flight[f] EXCEPT !.step = "fill", !.value = value] # Absent
        BY <4>1, FlightsAreNotAbsent, Zenon
      <4>3. flight'[f] # Absent
        BY <3>4, <4>2, Zenon
      <4> QED BY <3>4, <4>1, <4>3
    <3> QED BY <2>1, <3>2, <3>4, <3>5 DEF Serves
  <2>3. CASE Ends(f) \/ TimesOut(f)
    <3>1. at[r] = "wait" /\ r \notin flight[f].waiters
      BY <1>1, <1>2, <2>3, Answered DEF Ends, TimesOut
    <3>2. PICK g \in Req : Serves(g, r)
      BY <1>3, <3>1
    <3>3. g # f
      BY <3>1, <3>2 DEF Serves
    <3>4. flight'[g] = flight[g]
      BY <1>1, <2>3, <3>3 DEF Ends, TimesOut, FieldTypes
    <3> QED BY <2>1, <3>2, <3>4 DEF Serves
  <2> QED BY <1>7, <2>2, <2>3 DEF Turns
<1>8. ASSUME NEW i \in Replica, ExitCleanly(i) \/ ForceExit(i)
      PROVE  \E g \in Req : Serves(g, r)'
  <2>1. /\ flight' = [f \in Req |-> IF host[f] = i THEN Absent ELSE flight[f]]
        /\ host' = host /\ at[r] = "wait" /\ host[r] # i
    BY <1>1, <1>2, <1>8 DEF ExitCleanly, ForceExit, Busy
  <2>2. PICK g \in Req : Serves(g, r)
    BY <1>3, <2>1
  <2> QED BY <2>1, <2>2 DEF Serves
<1>9. ASSUME NEW q \in Req, DetailGet(q) \/ ListGet(q) PROVE \E f \in Req : Serves(f, r)'
  BY <1>6, <1>9, ReadersLook
<1> QED BY <1>4, <1>5, <1>7, <1>8, <1>9, StepShape, RequestsArrive, GoesMoves, FlightsTurn

\* A reader that waits for a flight waits for one of its own replica whose
\* timer still runs.
THEOREM WaitersAreAnswered ==
    ASSUME AbsentIsNoFlight
    PROVE  Spec => []WaitersHaveATimer
<1>1. Init => WaitersHaveATimer
  BY DEF Init, WaitersHaveATimer
<1>2. ShapeInv /\ WaitersHaveATimer /\ [Next]_vars => WaitersHaveATimer'
  BY WaitersStep
<1> QED BY <1>1, <1>2, ShapeInit, ShapeStep, PTL DEF Spec

-----------------------------------------------------------------------------
(* Fresh pages.                                                            *)

\* No committed write is still to be counted.
Settled == \A q \in Req : at[q] \notin {"del", "bump"}

\* A page is what the table gives to every query its key stands for.
Fresh(key, page) ==
    \A query : IsQuery(query) /\ key = ListKey(query, key.version) => page = Page(table, query)

\* Until an increment is lost, nobody caches under a version to come.
VersionsPast ==
    /\ ~env.cacheEnabled => lists = {}
    /\ intact =>
        /\ version \in Nat \ {0}
        /\ \A e \in lists : e.key.version \in Nat /\ e.key.version <= version
        /\ \A r \in Req : at[r] = "listGet" => listVersion[r] <= version
        /\ \A f \in Req : flight[f] # Absent /\ call[f].op = "list"
                              => flight[f].key.version <= version

\* What is cached, or about to be, under the current version is fresh.
PagesFresh ==
    intact /\ Settled =>
        /\ \A e \in lists : e.key.version = version => Fresh(e.key, e.page)
        /\ \A f \in Req :
            flight[f] # Absent /\ call[f].op = "list" /\ flight[f].step = "fill"
                /\ flight[f].key.version = version => Fresh(flight[f].key, flight[f].value)

CacheInv == VersionsPast /\ PagesFresh

\* A sequence names nothing only when it is empty.
LEMMA NamedNothing ==
    ASSUME NEW s, s \in Seq(Named(s))
    PROVE  Named(s) = {} <=> s = <<>>
<1>1. ASSUME Named(s) = {} PROVE s = <<>>
  <2>1. s \in Seq({})
    BY <1>1
  <2> QED BY <2>1
<1>2. ASSUME s = <<>> PROVE Named(s) = {}
  BY <1>2 DEF Named
<1> QED BY <1>1, <1>2

\* Queries with one key have one page.
LEMMA KeyDeterminesPage ==
    ASSUME NEW p, NEW q, IsQuery(p), IsQuery(q), NEW v, ListKey(p, v) = ListKey(q, v)
    PROVE  Page(table, p) = Page(table, q)
<1>1. NormalizeFilters(p) = NormalizeFilters(q)
  BY DEF ListKey
<1>2. /\ p.type = q.type /\ p.ownerId = q.ownerId /\ p.createdAfter = q.createdAfter
      /\ p.createdBefore = q.createdBefore /\ p.limit = q.limit /\ p.cursor = q.cursor
      /\ p.sort = q.sort
      /\ SortedArray(p.status) = SortedArray(q.status) /\ SortedArray(p.tag) = SortedArray(q.tag)
  BY <1>1 DEF NormalizeFilters, IsQuery
<1>3. Named(p.status) = Named(q.status) /\ Named(p.tag) = Named(q.tag)
  <2>1. \A array : DOMAIN SortedArray(array) = Named(array)
    BY DEF SortedArray
  <2> QED BY <1>2, <2>1
<1>4. p.status = <<>> <=> q.status = <<>>
  BY <1>3, NamedNothing DEF IsQuery
<1>5. \A row : Matches(row, p) <=> Matches(row, q)
  BY <1>2, <1>3, <1>4 DEF Matches
<1>6. Candidates(table, p) = Candidates(table, q)
  BY <1>2, <1>5 DEF Candidates
<1> QED BY <1>2, <1>6 DEF Page

\* The page a query gets is fresh under its key.
LEMMA PageIsFresh ==
    ASSUME NEW query, IsQuery(query), NEW v
    PROVE  Fresh(ListKey(query, v), Page(table, query))
<1> SUFFICES ASSUME NEW q, IsQuery(q),
                    ListKey(query, v) = ListKey(q, ListKey(query, v).version)
             PROVE  Page(table, query) = Page(table, q)
  BY DEF Fresh
<1>1. ListKey(query, v).version = v
  BY DEF ListKey
<1> QED BY <1>1, KeyDeterminesPage

LEMMA CacheInit ==
    ASSUME InitVersion \in Nat \ {0}, Init
    PROVE  CacheInv
BY DEF Init, CacheInv, VersionsPast, PagesFresh

\* A step that leaves the table and the version, takes entries away only, and
\* starts or ends flights.
LEMMA Keeps ==
    ASSUME CacheInv, UNCHANGED <<env, table, version>>, lists' \subseteq lists,
           intact' => intact, intact' /\ Settled' => Settled,
           \A q \in Req : intact' /\ at'[q] = "listGet" => listVersion'[q] <= version,
           \A f \in Req : flight'[f] # Absent =>
               \/ /\ flight[f] # Absent /\ call'[f] = call[f]
                  /\ flight'[f].key = flight[f].key /\ flight'[f].step = flight[f].step
                  /\ flight'[f].value = flight[f].value
               \/ /\ flight'[f].step = "read"
                  /\ intact' /\ call'[f].op = "list" => flight'[f].key.version <= version
    PROVE  CacheInv'
<1>1. VersionsPast'
  BY DEF CacheInv, VersionsPast
<1>2. PagesFresh'
  <2>1. \A key, page : Fresh(key, page)' <=> Fresh(key, page)
    BY DEF Fresh
  <2> QED BY <2>1 DEF CacheInv, PagesFresh, Fresh
<1> QED BY <1>1, <1>2 DEF CacheInv

LEMMA ArrivalsKeep ==
    ASSUME ShapeInv, CacheInv, NEW r \in Req, Send(r) \/ NextPage(r) \/ Limit(r)
    PROVE  CacheInv'
<1>1. Arrives(r)
  BY RequestsArrive
<1>2. UNCHANGED <<env, table, version, lists, listVersion, flight, intact>>
  BY DEF Send, NextPage, Limit, Accept, serverVars, processVars
<1>3. Settled' => Settled
  BY <1>1 DEF Settled, Arrives
<1>4. \A q \in Req : intact' /\ at'[q] = "listGet" => listVersion'[q] <= version
  BY <1>1, <1>2 DEF Arrives, CacheInv, VersionsPast
<1>5. \A f \in Req : flight'[f] # Absent => flight[f] # Absent /\ call'[f] = call[f]
  BY <1>1, <1>2 DEF Arrives, ShapeInv, FlightFits
<1> QED BY <1>2, <1>3, <1>4, <1>5, Keeps

\* The table changes: the write is to be counted, or nothing is ever cached.
LEMMA CommitKeeps ==
    ASSUME ShapeInv, CacheInv, NEW r \in Req, Moves(r),
           UNCHANGED <<version, lists, listVersion, intact>>,
           env.cacheEnabled => at'[r] \in {"del", "bump"}
    PROVE  CacheInv'
<1>1. UNCHANGED <<env, flight>>
  BY DEF Moves
<1>2. \A f \in Req : flight[f] # Absent => call'[f] = call[f] /\ env.cacheEnabled
  BY DEF Moves, ShapeInv, FlightFits
<1>3. \A q \in Req : at'[q] = "listGet" => at[q] = "listGet"
  <2>1. at'[r] # "listGet" \/ at[r] = "versionGet"
    BY DEF Moves
  <2>2. at[r] = "versionGet" => env.cacheEnabled
    BY DEF ShapeInv, CallFits
  <2> QED BY <2>1, <2>2 DEF Moves
<1>4. VersionsPast'
  BY <1>1, <1>2, <1>3 DEF CacheInv, VersionsPast
<1>5. CASE env.cacheEnabled
  <2>1. ~Settled'
    BY <1>5 DEF Settled
  <2> QED BY <1>4, <2>1 DEF CacheInv, PagesFresh
<1>6. CASE ~env.cacheEnabled
  BY <1>1, <1>2, <1>4, <1>6 DEF CacheInv, VersionsPast, PagesFresh
<1> QED BY <1>5, <1>6

LEMMA GoesKeep ==
    ASSUME ShapeInv, CacheInv, NEW r \in Req, Goes(r)
    PROVE  CacheInv'
<1>1. Moves(r)
  BY GoesMoves
<1>2. \A f \in Req : flight'[f] # Absent =>
          /\ flight'[f] = flight[f] /\ flight[f] # Absent /\ call'[f] = call[f]
  BY <1>1 DEF Moves, ShapeInv, FlightFits
<1>3. ASSUME UNCHANGED <<table, version, lists, listVersion>>, intact' => intact,
             at[r] \notin {"del", "bump"}, at'[r] # "listGet"
      PROVE  CacheInv'
  <2>1. Settled' => Settled
    BY <1>1, <1>3 DEF Settled, Moves
  <2>2. \A q \in Req : intact' /\ at'[q] = "listGet" => listVersion'[q] <= version
    BY <1>1, <1>3 DEF Moves, CacheInv, VersionsPast
  <2> QED BY <1>1, <1>2, <1>3, <2>1, <2>2, Keeps DEF Moves
<1>4. ASSUME ~intact', lists' = lists PROVE CacheInv'
  BY <1>1, <1>4 DEF CacheInv, VersionsPast, PagesFresh, Moves
<1> USE DEF serverVars, processVars
<1>5. CASE LimitFails(r)
  BY <1>1, <1>3, <1>5 DEF LimitFails, Moves
<1>6. CASE Insert(r)
  <2>1. UNCHANGED <<version, lists, listVersion, intact>>
    BY <1>6 DEF Insert
  <2>2. env.cacheEnabled => at'[r] = "bump"
    BY <1>6 DEF Insert, AfterWrite, GoTo, ShapeInv, FieldTypes
  <2> QED BY <1>1, <2>1, <2>2, CommitKeeps
<1>7. CASE Write(r)
  <2>1. UNCHANGED <<version, lists, listVersion, intact>>
    BY <1>7 DEF Write
  <2>2. CASE AfterWrite(r, "del")
    <3>1. env.cacheEnabled => at'[r] = "del"
      BY <2>2 DEF AfterWrite, GoTo, ShapeInv, FieldTypes
    <3> QED BY <1>1, <2>1, <3>1, CommitKeeps
  <2>3. CASE UNCHANGED table /\ \E response : Answer(r, response, Absent)
    <3>1. at'[r] = "done" /\ at[r] \in {"update", "delete"}
      BY <1>7, <2>3, Answered DEF Write, Answer, ShapeInv
    <3> QED BY <1>3, <2>1, <2>3, <3>1
  <2> QED BY <1>7, <2>2, <2>3 DEF Write
<1>8. CASE StatementFails(r)
  <2>1. at[r] \in {"insert", "update", "delete"} /\ UNCHANGED <<version, lists, listVersion>>
    BY <1>8 DEF StatementFails
  <2>2. (UNCHANGED <<table, intact>>) \/ ~intact'
    BY <1>8 DEF StatementFails
  <2>3. at'[r] # "listGet"
    BY <1>1, <2>1 DEF Moves
  <2> QED BY <1>3, <1>4, <2>1, <2>2, <2>3
<1>9. CASE Del(r)
  <2>1. /\ UNCHANGED <<table, version, lists, listVersion, intact>>
        /\ at' = [at EXCEPT ![r] = "bump"] /\ at[r] = "del"
    BY <1>9 DEF Del, GoTo
  <2>2. at'[r] = "bump"
    BY <2>1 DEF ShapeInv, FieldTypes
  <2> QED BY <1>1, <2>1, <2>2, CommitKeeps
<1>10. CASE Bump(r)
  <2>1. CASE ~intact' BY <1>4, <1>10, <2>1 DEF Bump
  <2>2. CASE version' = Incremented(version) /\ intact' = intact /\ intact
    <3>1. version \in Nat \ {0} /\ version' = version + 1
      BY <2>2, ServiceAssumption DEF CacheInv, VersionsPast, Incremented
    <3>2. UNCHANGED <<lists, listVersion>>
      BY <1>10 DEF Bump
    <3>3. \A q \in Req : at'[q] = "listGet" => at[q] = "listGet" /\ listVersion[q] \in Nat
      BY <1>1, <1>10 DEF Bump, Moves, ShapeInv, FieldTypes
    <3>4. \A f \in Req : flight[f] # Absent /\ call[f].op = "list"
                            => flight[f].key.version \in Nat
      BY DEF ShapeInv, FlightFits
    <3>5. VersionsPast'
      BY <1>1, <1>2, <2>2, <3>1, <3>2, <3>3, <3>4 DEF CacheInv, VersionsPast, Moves
    <3>6. \A e \in lists : e.key.version # version'
      BY <2>2, <3>1 DEF CacheInv, VersionsPast
    <3>7. \A f \in Req : flight[f] # Absent /\ call[f].op = "list"
                            => flight[f].key.version # version'
      BY <2>2, <3>1, <3>4 DEF CacheInv, VersionsPast
    <3>8. PagesFresh'
      BY <1>2, <3>2, <3>6, <3>7 DEF PagesFresh
    <3> QED BY <3>5, <3>8 DEF CacheInv
  <2> QED BY <1>10, <2>1, <2>2 DEF Bump
<1>11. CASE Select(r) BY <1>1, <1>3, <1>11 DEF Select, Moves
<1>12. CASE SelectFails(r) BY <1>1, <1>3, <1>12 DEF SelectFails, Moves
<1>13. CASE VersionGet(r)
  <2>1. /\ UNCHANGED <<table, version, lists, intact>> /\ at[r] = "versionGet"
        /\ listVersion' = [listVersion EXCEPT ![r] = IF version = Absent THEN 1 ELSE version]
             \/ listVersion' = [listVersion EXCEPT ![r] = 1]
    BY <1>13 DEF VersionGet, CurrentVersion
  <2>2. Settled' => Settled
    BY <1>1, <2>1 DEF Settled, Moves
  <2>3. ASSUME NEW q \in Req, intact', at'[q] = "listGet" PROVE listVersion'[q] <= version
    <3>1. version \in Nat \ {0} /\ version # Absent /\ 1 <= version
      BY <2>1, <2>3, ServiceAssumption DEF CacheInv, VersionsPast
    <3>2. CASE q = r BY <2>1, <3>1, <3>2 DEF ShapeInv, FieldTypes
    <3>3. CASE q # r
      BY <1>1, <2>1, <2>3, <3>3 DEF Moves, CacheInv, VersionsPast, ShapeInv, FieldTypes
    <3> QED BY <3>2, <3>3
  <2> QED BY <1>1, <1>2, <2>1, <2>2, <2>3, Keeps DEF Moves
<1>14. CASE Probe(r) BY <1>1, <1>3, <1>14 DEF Probe, Moves
<1>15. CASE StatementRefused(r) BY <1>1, <1>3, <1>15 DEF StatementRefused, Moves
<1> QED BY <1>5, <1>6, <1>7, <1>8, <1>9, <1>10, <1>11, <1>12, <1>13, <1>14, <1>15 DEF Goes

LEMMA LooksKeep ==
    ASSUME ShapeInv, CacheInv, NEW r \in Req, DetailGet(r) \/ ListGet(r)
    PROVE  CacheInv'
<1>1. PICK key : /\ Looks(r, key)
                 /\ call[r].op = "list" => at[r] = "listGet" /\ key.version = listVersion[r]
  BY LooksAtItsKey
<1>2. UNCHANGED <<env, call, table, version, lists, intact>>
  BY DEF DetailGet, ListGet, serverVars, processVars
<1>3. /\ FieldTypes /\ CallFits(r)
      /\ \A f \in Req : flight[f] # Absent => FlightFits(f)
  BY DEF ShapeInv
<1>4. /\ \A q \in Req : q # r => at'[q] = at[q]
      /\ at'[r] \in {"done", "wait"}
  <2>1. CASE \E response, content : AnswerAll({r}, response, content)
    BY <1>3, <2>1, Answered
  <2>2. CASE JoinOrLead(r, key)
    BY <1>3, <2>2, JoinsOrLeads DEF FieldTypes
  <2> QED BY <1>1, <2>1, <2>2 DEF Looks
<1>5. Settled' => Settled
  BY <1>1, <1>4 DEF Settled, Looks
<1>6. ASSUME NEW q \in Req, intact', at'[q] = "listGet" PROVE listVersion'[q] <= version
  <2>1. q # r /\ at[q] = "listGet"
    BY <1>4, <1>6
  <2>2. listVersion'[q] = listVersion[q]
    BY <1>3, <2>1 DEF DetailGet, ListGet, FieldTypes
  <2> QED BY <1>2, <1>6, <2>1, <2>2 DEF CacheInv, VersionsPast
<1>7. ASSUME NEW f \in Req, flight'[f] # Absent
      PROVE  \/ /\ flight[f] # Absent /\ call'[f] = call[f]
                /\ flight'[f].key = flight[f].key /\ flight'[f].step = flight[f].step
                /\ flight'[f].value = flight[f].value
             \/ /\ flight'[f].step = "read"
                /\ intact' /\ call'[f].op = "list" => flight'[f].key.version <= version
  <2>1. CASE UNCHANGED flight BY <1>2, <1>7, <2>1
  <2>2. ASSUME NEW g \in Req, Joins(r, g)
        PROVE  /\ flight[f] # Absent
               /\ flight'[f].key = flight[f].key /\ flight'[f].step = flight[f].step
               /\ flight'[f].value = flight[f].value
    <3>1. /\ flight[g] # Absent /\ FlightFits(g)
          /\ flight'[g] = [flight[g] EXCEPT !.waiters = @ \cup {r}]
          /\ \A h \in Req : h # g => flight'[h] = flight[h]
      BY <1>3, <2>2 DEF Joins, FieldTypes
    <3> QED BY <1>7, <3>1 DEF FlightFits
  <2>3. CASE Leads(r, key)
    <3>1. /\ flight'[r] = [key |-> key, step |-> "read", value |-> Absent,
                           shared |-> TRUE, waiters |-> {r}]
          /\ \A q \in Req : q # r => flight'[q] = flight[q]
      BY <1>3, <2>3 DEF Leads, FieldTypes
    <3>2. intact /\ call[r].op = "list" => key.version <= version
      BY <1>1 DEF CacheInv, VersionsPast
    <3> QED BY <1>2, <1>7, <3>1, <3>2
  <2> QED BY <1>1, <1>2, <2>1, <2>2, <2>3, JoinsOrLeads DEF Looks
<1> QED BY <1>2, <1>5, <1>6, <1>7, Keeps DEF Looks, DetailGet, ListGet

\* The waiters a flight answers were not about to do anything else.
LEMMA TurnsWait ==
    ASSUME ShapeInv, NEW f \in Req, Turns(f)
    PROVE  /\ Settled' => Settled
           /\ \A q \in Req : at'[q] = "listGet" => at[q] = "listGet"
           /\ \A q \in Req : at'[q] = at[q] \/ (at'[q] = "done" /\ at[q] = "wait")
<1>1. FieldTypes /\ FlightFits(f)
  BY DEF ShapeInv, Turns
<1>2. \A q \in Req : at'[q] = at[q] \/ (at'[q] = "done" /\ at[q] = "wait")
  <2>1. CASE ReadDone(f) BY <2>1 DEF ReadDone
  <2>2. CASE Ends(f) \/ TimesOut(f)
    <3>1. \A q \in Req : at'[q] = IF q \in flight[f].waiters THEN "done" ELSE at[q]
      BY <1>1, <2>2, Answered DEF Ends, TimesOut
    <3> QED BY <1>1, <3>1 DEF FlightFits
  <2> QED BY <2>1, <2>2 DEF Turns
<1> QED BY <1>2 DEF Settled

LEMMA TurnsKeep ==
    ASSUME ShapeInv, CacheInv, NEW f \in Req,
           FlightRead(f) \/ FlightReadFails(f) \/ FlightFill(f) \/ FlightTimeout(f)
    PROVE  CacheInv'
<1> USE DEF serverVars, processVars
<1>1. /\ FieldTypes /\ FlightFits(f) /\ flight[f] # Absent
      /\ Turns(f) /\ UNCHANGED <<env, call, host>>
  BY FlightsTurn DEF ShapeInv, Turns
<1>2. /\ Settled' => Settled
      /\ \A q \in Req : at'[q] = "listGet" => at[q] = "listGet"
  BY <1>1, TurnsWait
<1>3. UNCHANGED <<table, version, listVersion, intact>>
  BY DEF FlightRead, FlightReadFails, FlightFill, FlightTimeout
<1>4. \A g \in Req : g # f => flight'[g] = flight[g]
  BY <1>1 DEF Turns, ReadDone, Ends, TimesOut, FieldTypes
<1>5. \A q \in Req : intact' /\ at'[q] = "listGet" => listVersion'[q] <= version
  BY <1>2, <1>3 DEF CacheInv, VersionsPast
<1>6. ASSUME lists' = lists,
             \/ flight'[f] = Absent
             \/ /\ flight'[f].key = flight[f].key /\ flight'[f].step = flight[f].step
                /\ flight'[f].value = flight[f].value
      PROVE  CacheInv'
  BY <1>1, <1>2, <1>3, <1>4, <1>5, <1>6, Keeps
<1>7. CASE FlightTimeout(f)
  <2>1. /\ flight'[f] = [flight[f] EXCEPT !.shared = FALSE, !.waiters = {}] /\ lists' = lists
    BY <1>1, <1>7 DEF FlightTimeout, FieldTypes
  <2> QED BY <1>1, <1>6, <2>1 DEF FlightFits
<1>8. CASE FlightReadFails(f)
  BY <1>1, <1>6, <1>8 DEF FlightReadFails, Land, FieldTypes
<1>9. CASE FlightRead(f)
  <2>1. lists' = lists
    BY <1>9 DEF FlightRead
  <2>2. CASE Land(f) BY <1>1, <1>6, <2>1, <2>2 DEF Land, FieldTypes
  <2>3. CASE flight' = [flight EXCEPT ![f].step = "fill", ![f].value = Read(call[f])]
    <3>1. /\ flight'[f].key = flight[f].key /\ flight'[f].value = Read(call[f])
      BY <1>1, <2>3 DEF FieldTypes, FlightFits
    <3>2. call[f].op = "list" => Fresh(flight'[f].key, flight'[f].value)
      <4> SUFFICES ASSUME call[f].op = "list" PROVE Fresh(flight'[f].key, flight'[f].value)
        OBVIOUS
      <4>1. /\ IsQuery(call[f].query)
            /\ flight[f].key = ListKey(call[f].query, flight[f].key.version)
        BY <1>1 DEF FlightFits
      <4>2. Fresh(ListKey(call[f].query, flight[f].key.version), Page(table, call[f].query))
        BY <4>1, PageIsFresh
      <4> QED BY <3>1, <4>1, <4>2 DEF Read
    <3>3. \A key, page : Fresh(key, page)' <=> Fresh(key, page)
      BY <1>3 DEF Fresh
    <3>4. VersionsPast'
      BY <1>1, <1>2, <1>3, <1>4, <1>5, <2>1, <3>1 DEF CacheInv, VersionsPast
    <3>5. PagesFresh'
      <4>1. ASSUME intact', Settled', NEW g \in Req, flight'[g] # Absent, call'[g].op = "list",
                   flight'[g].step = "fill", flight'[g].key.version = version'
            PROVE  Fresh(flight'[g].key, flight'[g].value)
        <5>1. CASE g = f BY <1>1, <3>2, <4>1, <5>1
        <5>2. CASE g # f
          BY <1>1, <1>2, <1>3, <1>4, <4>1, <5>2 DEF CacheInv, PagesFresh
        <5> QED BY <5>1, <5>2
      <4>2. ASSUME intact', Settled', NEW e \in lists, e.key.version = version
            PROVE  Fresh(e.key, e.page)
        BY <1>2, <1>3, <4>2 DEF CacheInv, PagesFresh
      <4> QED BY <1>3, <2>1, <3>3, <4>1, <4>2 DEF PagesFresh, Fresh
    <3> QED BY <3>4, <3>5 DEF CacheInv
  <2> QED BY <1>9, <2>2, <2>3 DEF FlightRead
<1>10. CASE FlightFill(f)
  <2> DEFINE entry == [key |-> flight[f].key, page |-> flight[f].value]
  <2>1. flight'[f] = Absent /\ flight[f].step = "fill"
    BY <1>1, <1>10 DEF FlightFill, Land, Flying, FieldTypes
  <2>2. CASE lists' = lists BY <1>6, <2>1, <2>2
  <2>3. CASE call[f].op = "list" /\ lists' \subseteq lists \cup {entry}
    <3>1. env.cacheEnabled /\ flight[f].key.version \in Nat
      BY <1>1, <2>3 DEF FlightFits
    <3>2. intact => flight[f].key.version <= version
      BY <1>1, <2>3 DEF CacheInv, VersionsPast
    <3>3. intact /\ Settled /\ flight[f].key.version = version
             => Fresh(flight[f].key, flight[f].value)
      BY <1>1, <2>1, <2>3 DEF CacheInv, PagesFresh
    <3>4. \A key, page : Fresh(key, page)' <=> Fresh(key, page)
      BY <1>3 DEF Fresh
    <3>5. VersionsPast'
      BY <1>1, <1>3, <1>4, <1>5, <2>1, <2>3, <3>1, <3>2 DEF CacheInv, VersionsPast
    <3>6. PagesFresh'
      <4>1. ASSUME intact', Settled', NEW e \in lists', e.key.version = version
            PROVE  Fresh(e.key, e.page)
        <5>1. CASE e = entry BY <1>2, <1>3, <3>3, <4>1, <5>1
        <5>2. CASE e \in lists BY <1>2, <1>3, <4>1, <5>2 DEF CacheInv, PagesFresh
        <5> QED BY <2>3, <4>1, <5>1, <5>2
      <4>2. ASSUME intact', Settled', NEW g \in Req, flight'[g] # Absent, call'[g].op = "list",
                   flight'[g].step = "fill", flight'[g].key.version = version'
            PROVE  Fresh(flight'[g].key, flight'[g].value)
        BY <1>1, <1>2, <1>3, <1>4, <2>1, <4>2 DEF CacheInv, PagesFresh
      <4> QED BY <1>3, <3>4, <4>1, <4>2 DEF PagesFresh, Fresh
    <3> QED BY <3>5, <3>6 DEF CacheInv
  <2>4. call[f].op \in {"get", "list"}
    BY <1>1 DEF FlightFits
  <2>5. lists' = lists \/ (call[f].op # "get" /\ lists' \subseteq lists \cup {entry})
    BY <1>10 DEF FlightFill
  <2> QED BY <2>2, <2>3, <2>4, <2>5
<1> QED BY <1>7, <1>8, <1>9, <1>10

LEMMA ExitsKeep ==
    ASSUME ShapeInv, CacheInv, NEW i \in Replica, ExitCleanly(i) \/ ForceExit(i)
    PROVE  CacheInv'
<1>1. /\ flight' = [f \in Req |-> IF host[f] = i THEN Absent ELSE flight[f]]
      /\ UNCHANGED <<env, table, version, lists, call, listVersion>>
  BY DEF ExitCleanly, ForceExit, serverVars
<1>2. \A q \in Req : at'[q] \in {at[q], "lost"}
  BY DEF ExitCleanly, ForceExit
<1>3. (intact' => intact) /\ (intact' /\ Settled' => Settled)
  <2>1. CASE ExitCleanly(i) BY <2>1 DEF ExitCleanly, Settled, historyVars
  <2>2. CASE ForceExit(i)
    <3>1. intact' = (intact /\ ~\E r \in Req : host[r] = i /\ at[r] \in {"del", "bump"})
      BY <2>2 DEF ForceExit
    <3>2. intact' => intact /\ ~\E r \in Req : host[r] = i /\ at[r] \in {"del", "bump"}
      BY <3>1, Zenon
    <3>3. \A q \in Req : at'[q] = at[q] \/ host[q] = i
      BY <2>2 DEF ForceExit
    <3> QED BY <3>2, <3>3 DEF Settled
  <2> QED BY <2>1, <2>2
<1>4. \A q \in Req : intact' /\ at'[q] = "listGet" => listVersion'[q] <= version
  BY <1>1, <1>2, <1>3 DEF CacheInv, VersionsPast
<1>5. \A f \in Req : flight'[f] # Absent => flight'[f] = flight[f] /\ call'[f] = call[f]
  BY <1>1
<1> QED BY <1>1, <1>3, <1>4, <1>5, Keeps

LEMMA CacheStep == ShapeInv /\ CacheInv /\ [Next]_vars => CacheInv'
<1> SUFFICES ASSUME ShapeInv, CacheInv, [Next]_vars PROVE CacheInv'
  OBVIOUS
<1>1. CASE Elsewhere
  <2>1. Settled' => Settled
    BY <1>1 DEF Settled, Elsewhere
  <2>2. \A q \in Req : intact' /\ at'[q] = "listGet" => listVersion'[q] <= version
    BY <1>1 DEF Elsewhere, CacheInv, VersionsPast
  <2> QED BY <1>1, <2>1, <2>2, Keeps DEF Elsewhere
<1>2. CASE RedisLoss
  BY <1>2 DEF RedisLoss, CacheInv, VersionsPast, PagesFresh
<1>3. ASSUME NEW r \in Req, Send(r) \/ NextPage(r) \/ Limit(r) PROVE CacheInv'
  BY <1>3, ArrivalsKeep
<1>4. ASSUME NEW r \in Req, Goes(r) PROVE CacheInv'
  BY <1>4, GoesKeep
<1>5. ASSUME NEW r \in Req, DetailGet(r) \/ ListGet(r) PROVE CacheInv'
  BY <1>5, LooksKeep
<1>6. ASSUME NEW f \in Req,
             FlightRead(f) \/ FlightReadFails(f) \/ FlightFill(f) \/ FlightTimeout(f)
      PROVE  CacheInv'
  BY <1>6, TurnsKeep
<1>7. ASSUME NEW i \in Replica, ExitCleanly(i) \/ ForceExit(i) PROVE CacheInv'
  BY <1>7, ExitsKeep
<1> QED BY <1>1, <1>2, <1>3, <1>4, <1>5, <1>6, <1>7, StepShape

LEMMA CacheInvIsEnough == CacheInv => CurrentPagesAreFresh
<1> SUFFICES ASSUME CacheInv, intact, Unsettled = {}, NEW entry \in lists,
                    entry.key.version = CurrentVersion, NEW query \in ListQueries
             PROVE  LET q == [query EXCEPT !.cursor = entry.key.filters.cursor] IN
                    entry.key = ListKey(q, CurrentVersion) => entry.page = Page(table, q)
  BY DEF CurrentPagesAreFresh
<1>1. CurrentVersion = version
  BY ServiceAssumption DEF CacheInv, VersionsPast, CurrentVersion
<1>2. Settled
  BY DEF Unsettled, Settled
<1>3. Fresh(entry.key, entry.page)
  BY <1>1, <1>2 DEF CacheInv, PagesFresh
<1>4. IsQuery(query)
  BY ServiceAssumption DEF ListQueries, IsCall
<1>5. IsQuery([query EXCEPT !.cursor = entry.key.filters.cursor])
  BY <1>4, QueryWithCursor
<1> QED BY <1>1, <1>3, <1>5 DEF Fresh

\* When the version's key exists at the start: once every committed write has
\* been counted, and as long as no increment was lost, a page cached under the
\* current version is the page the table gives.
THEOREM CachedPagesAreFresh ==
    ASSUME InitVersion \in Nat \ {0}
    PROVE  Spec => []CurrentPagesAreFresh
<1>1. Init => CacheInv
  BY CacheInit
<1> QED BY <1>1, ShapeInit, ShapeStep, CacheStep, CacheInvIsEnough, PTL DEF Spec

-----------------------------------------------------------------------------
(* Types.                                                                  *)

\* How a request gets to its first step: it is counted first, refused, done,
\* or at the first step of a call that is not refused.
Enters(r) ==
    \/ at'[r] = "limit" /\ Counted(call'[r])
    \/ at'[r] = "done"
    \/ /\ at'[r] = FirstStep(call'[r])
       /\ Refusal(call'[r]) = Absent /\ call'[r].op # "liveness"

LEMMA HandleEnters ==
    ASSUME FieldTypes, NEW r \in Req, Handle(r, call'[r])
    PROVE  Enters(r)
<1>1. CASE \E response : AnswerAll({r}, response, Absent)
  BY <1>1, Answered DEF Enters
<1>2. CASE GoTo(r, FirstStep(call'[r])) /\ Refusal(call'[r]) = Absent /\ call'[r].op # "liveness"
  BY <1>2 DEF Enters, GoTo, FieldTypes
<1> QED BY <1>1, <1>2 DEF Handle, Answer

LEMMA RequestsEnter ==
    ASSUME ShapeInv, NEW r \in Req, Send(r) \/ NextPage(r) \/ Limit(r)
    PROVE  Enters(r)
<1>1. FieldTypes
  BY DEF ShapeInv
<1>2. ASSUME NEW c, NEW i, Accept(r, c, i) PROVE Enters(r)
  <2>1. call'[r] = c
    BY <1>1, <1>2 DEF Accept, FieldTypes
  <2>2. CASE Handle(r, c) BY <1>1, <2>1, <2>2, HandleEnters
  <2>3. CASE Counted(c) /\ GoTo(r, "limit")
    BY <1>1, <2>1, <2>3 DEF Enters, GoTo, FieldTypes
  <2> QED BY <1>2, <2>2, <2>3 DEF Accept
<1>3. CASE Send(r) \/ NextPage(r) BY <1>2, <1>3 DEF Send, NextPage
<1>4. CASE Limit(r)
  <2>1. \/ \E response : AnswerAll({r}, response, Absent)
        \/ Handle(r, call'[r])
    BY <1>4 DEF Limit, Answer
  <2>2. CASE \E response : AnswerAll({r}, response, Absent)
    BY <1>1, <2>2, Answered DEF Enters
  <2> QED BY <1>1, <2>1, <2>2, HandleEnters
<1> QED BY <1>3, <1>4

\* Who has passed the schemas was not refused; a write's steps are those of
\* its call.
WritesFit(r) ==
    /\ Active(r) => Refusal(call[r]) = Absent
    /\ at[r] = "insert" => call[r].op = "create"
    /\ at[r] \in {"update", "delete", "health"} => call[r].op = at[r]
    /\ at[r] \in {"del", "bump"} => call[r].op \in {"create", "update", "delete"}

WritesInv == \A r \in Req : WritesFit(r)

LEMMA WritesInit == Init => WritesInv
BY DEF Init, WritesInv, WritesFit, Active

LEMMA WritesStep == ShapeInv /\ WritesInv /\ [Next]_vars => WritesInv'
<1> SUFFICES ASSUME ShapeInv, WritesInv, [Next]_vars, NEW q \in Req
             PROVE  WritesFit(q)'
  BY DEF WritesInv
<1>1. FieldTypes /\ WritesFit(q)
  BY DEF ShapeInv, WritesInv
<1>0. \A c : Refusal(c)' = Refusal(c)
  BY DEF Refusal, SchemaRefuses
<1>2. ASSUME at'[q] = at[q], call'[q] = call[q] PROVE WritesFit(q)'
  BY <1>0, <1>1, <1>2 DEF WritesFit, Active
<1>3. ASSUME at'[q] \in {"limit", "done", "lost"} PROVE WritesFit(q)'
  BY <1>3 DEF WritesFit, Active
<1>10. ASSUME at'[q] \in {"listGet", "wait"}, Refusal(call'[q]) = Absent PROVE WritesFit(q)'
  BY <1>0, <1>10 DEF WritesFit
<1>4. CASE Elsewhere \/ RedisLoss
  BY <1>2, <1>4 DEF Elsewhere, RedisLoss, requestVars
<1>5. ASSUME NEW r \in Req, Send(r) \/ NextPage(r) \/ Limit(r) PROVE WritesFit(q)'
  <2>1. Arrives(r) /\ Enters(r)
    BY <1>5, RequestsArrive, RequestsEnter
  <2>2. CASE q # r BY <1>2, <2>1, <2>2 DEF Arrives
  <2>3. CASE q = r
    <3>1. CASE at'[r] \in {"limit", "done"} BY <1>3, <2>3, <3>1
    <3>2. CASE at'[r] = FirstStep(call'[r]) /\ Refusal(call'[r]) = Absent /\ call'[r].op # "liveness"
      <4>1. call'[r].op \in {"create", "get", "list", "update", "delete", "health"}
        BY <2>1, <3>2 DEF Arrives, IsCall
      <4>2. Refusal(call[r])' = Absent
        BY <1>0, <3>2
      <4> QED BY <2>3, <3>2, <4>1, <4>2 DEF FirstStep, WritesFit
    <3> QED BY <2>1, <3>1, <3>2 DEF Enters
  <2> QED BY <2>2, <2>3
<1>6. ASSUME NEW r \in Req, Goes(r) PROVE WritesFit(q)'
  <2>1. Moves(r)
    BY <1>6, GoesMoves
  <2>2. CASE q # r BY <1>2, <2>1, <2>2 DEF Moves
  <2>3. CASE q = r
    <3>0. at'[r] # "done" => Refusal(call'[r]) = Absent
      BY <1>1, <2>1, <2>3 DEF Moves, WritesFit, Active
    <3>1. CASE at'[r] \in {"del", "bump"}
      <4>1. call[r].op \in {"create", "update", "delete"}
        <5>1. CASE at[r] \in {"insert", "update", "delete", "del", "bump"}
          BY <1>1, <2>3, <5>1 DEF WritesFit
        <5>2. CASE at[r] \notin {"insert", "update", "delete", "del", "bump"}
          <6>1. at'[r] \in {"done", "listGet"}
            <7>1. CASE VersionGet(r)
              BY <1>1, <7>1 DEF VersionGet, GoTo, FieldTypes
            <7>2. CASE LimitFails(r) \/ Select(r) \/ SelectFails(r) \/ Probe(r)
              BY <1>1, <7>2, Answered DEF LimitFails, Select, SelectFails, Probe, Answer
            <7> QED BY <1>6, <5>2, <7>1, <7>2
                    DEF Goes, Insert, Write, StatementFails, StatementRefused, Del, Bump
          <6> QED BY <3>1, <6>1
        <5> QED BY <5>1, <5>2
      <4>2. Refusal(call[r])' = Absent
        BY <1>0, <3>0, <3>1
      <4> QED BY <2>1, <2>3, <3>1, <4>1, <4>2 DEF Moves, WritesFit
    <3>2. CASE at'[r] = "done" BY <1>3, <2>3, <3>2
    <3>3. CASE at'[r] = "listGet" BY <1>10, <2>3, <3>0, <3>3
    <3> QED BY <2>1, <3>1, <3>2, <3>3 DEF Moves
  <2> QED BY <2>2, <2>3
<1>7. ASSUME NEW r \in Req, NEW key, Looks(r, key) PROVE WritesFit(q)'
  <2>1. call' = call /\ (at'[q] \in {at[q], "done"} \/ (at'[q] = "wait" /\ Active(q)))
    <3>1. CASE \E response, content : AnswerAll({r}, response, content)
      BY <1>1, <1>7, <3>1, Answered DEF Looks
    <3>2. CASE JoinOrLead(r, key)
      BY <1>1, <1>7, <3>2, JoinsOrLeads DEF FieldTypes, Looks, Active
    <3> QED BY <1>7, <3>1, <3>2 DEF Looks
  <2> QED BY <1>1, <1>2, <1>3, <1>10, <2>1 DEF WritesFit
<1>8. ASSUME NEW f \in Req, Turns(f) PROVE WritesFit(q)'
  <2>1. call' = call /\ at'[q] \in {at[q], "done"}
    BY <1>1, <1>8, Answered DEF Turns, ReadDone, Ends, TimesOut
  <2> QED BY <1>2, <1>3, <2>1
<1>9. ASSUME NEW i \in Replica, ExitCleanly(i) \/ ForceExit(i) PROVE WritesFit(q)'
  <2>1. call' = call /\ at'[q] \in {at[q], "lost"}
    BY <1>1, <1>9 DEF ExitCleanly, ForceExit
  <2> QED BY <1>2, <1>3, <2>1
<1> QED BY <1>4, <1>5, <1>6, <1>7, <1>8, <1>9, StepShape, ReadersLook, FlightsTurn


\* The rows under an id that the table knows: one or none.
LEMMA RowIsOne ==
    ASSUME IsTable(table), NEW row \in table
    PROVE  Row(row.id) = {row}
BY DEF IsTable, Row

\* A name that Postgres does not refuse is not one it would.
LEMMA NamesAreFit ==
    ASSUME NEW body, BodyErrors(body) = {}
    PROVE  body.name # Unfit
<1> SUFFICES ASSUME body.name = Unfit PROVE FALSE
  OBVIOUS
<1>1. "22021" \in BodyErrors(body)
  BY DEF BodyErrors
<1> QED BY <1>1

LEMMA NewRowFits ==
    ASSUME NEW id \in Nat, NEW body, IsBody(body), ValidCreate(body), BodyErrors(body) = {},
           NEW now
    PROVE  IsRow(NewRow(id, body, now)) /\ NewRow(id, body, now).id = id
<1>1. body.name \in Nat
  BY NamesAreFit DEF IsBody, ValidCreate, Fields
<1> QED BY <1>1 DEF IsRow, NewRow

LEMMA UpdatedFits ==
    ASSUME NEW row, IsRow(row), NEW body, IsBody(body), ValidUpdate(body),
           BodyErrors(body) = {}, NEW now
    PROVE  IsRow(Updated(row, body, now)) /\ Updated(row, body, now).id = row.id
<1>1. body.name \in Nat \cup {Absent}
  BY NamesAreFit DEF IsBody, ValidUpdate, Fields
<1> QED BY <1>1 DEF IsRow, Updated, OrDefault

\* What a write's call is, once it is to be executed.
LEMMA WriteCalls ==
    ASSUME ShapeInv, WritesInv, NEW r \in Req
    PROVE  /\ at[r] = "insert" =>
                  /\ call[r].op = "create" /\ ValueErrors(call[r]) = BodyErrors(call[r].body)
                  /\ IsBody(call[r].body) /\ ValidCreate(call[r].body)
           /\ at[r] \in {"update", "delete"} => call[r].op = at[r]
           /\ at[r] = "update" =>
                  /\ ValueErrors(call[r]) = BodyErrors(call[r].body)
                  /\ IsBody(call[r].body) /\ ValidUpdate(call[r].body)
<1>1. CallFits(r) /\ WritesFit(r)
  BY DEF ShapeInv, WritesInv
<1>2. at[r] # "idle" => IsCall(call[r])
  BY <1>1 DEF CallFits
<1>3. Active(r) => call[r].body \notin ParserErrors /\ ~SchemaRefuses(call[r])
  BY <1>1, ServiceAssumption DEF WritesFit, Refusal
<1>4. at[r] \in {"insert", "update", "delete"} => Active(r)
  BY DEF Active
<1>5. at[r] = "insert" => call[r].op = "create" /\ call[r].body # Absent /\ ValidCreate(call[r].body)
  BY <1>1, <1>3, <1>4 DEF WritesFit, SchemaRefuses
<1>6. at[r] \in {"update", "delete"} => call[r].op = at[r]
  BY <1>1 DEF WritesFit
<1>7. at[r] = "update" => call[r].body # Absent /\ ValidUpdate(call[r].body)
  BY <1>3, <1>4, <1>6 DEF SchemaRefuses
<1>8. call[r].op \in Bodied => ValueErrors(call[r]) = BodyErrors(call[r].body)
  BY DEF ValueErrors, Bodied
<1> QED BY <1>2, <1>3, <1>4, <1>5, <1>6, <1>7, <1>8 DEF IsCall, Bodied

\* The ids in use, and the rows under them.
TableInv == /\ IsTable(table)
            /\ \A row \in table : row.id \in used
            /\ used \subseteq Id

\* A statement adds a row under an id never given, or replaces or takes away
\* the one row of its id.
Inserts(rows) == \E row : /\ IsRow(row) /\ row.id \in Id \ used
                          /\ rows = table \cup {row} /\ used' = used \cup {row.id}

Rewrites(rows, id) == /\ used' = used
                      /\ \E row \in table : row.id = id
                      /\ \E new : /\ IsRow(new) /\ new.id = id
                                  /\ rows \in {table \ Row(id), (table \ Row(id)) \cup {new}}

LEMMA InsertInserts ==
    ASSUME ShapeInv, WritesInv, NEW r \in Req, at[r] = "insert", ValueErrors(call[r]) = {},
           NEW id \in Id \ used, used' = used \cup {id}
    PROVE  Inserts(table \cup {NewRow(id, call[r].body, clock)})
<1>1. id \in Nat
  BY ServiceAssumption
<1> QED BY <1>1, WriteCalls, NewRowFits DEF Inserts

LEMMA WriteRewrites ==
    ASSUME ShapeInv, WritesInv, TableInv, NEW r \in Req, at[r] \in {"update", "delete"},
           ValueErrors(call[r]) = {}, Row(call[r].id) # {}, used' = used
    PROVE  Rewrites(Rewritten(call[r]), call[r].id)
<1> DEFINE id == call[r].id
<1>1. PICK row \in table : row.id = id
  BY DEF Row
<1>2. IsRow(row) /\ Row(id) = {row}
  BY <1>1, RowIsOne DEF TableInv, IsTable
<1>3. CASE at[r] = "delete"
  BY <1>1, <1>2, <1>3, WriteCalls DEF Rewrites, Rewritten
<1>4. CASE at[r] = "update"
  <2> DEFINE new == Updated(row, call[r].body, clock)
  <2>1. IsRow(new) /\ new.id = id /\ call[r].op = "update"
    BY <1>1, <1>2, <1>4, WriteCalls, UpdatedFits
  <2>2. Rewritten(call[r]) = {IF x.id = id THEN Updated(x, call[r].body, clock) ELSE x : x \in table}
    BY <2>1 DEF Rewritten
  <2>3. Rewritten(call[r]) = (table \ Row(id)) \cup {new}
    <3>1. \A x \in table : x.id = id <=> x = row
      BY <1>1, <1>2 DEF Row
    <3> HIDE DEF new
    <3>2. \A x \in table : (IF x.id = id THEN Updated(x, call[r].body, clock) ELSE x)
                             = IF x = row THEN new ELSE x
      BY <3>1 DEF new
    <3>3. Rewritten(call[r]) = {IF x = row THEN new ELSE x : x \in table}
      BY <2>2, <3>2
    <3> QED BY <1>1, <1>2, <3>3
  <2> QED BY <1>1, <2>1, <2>3 DEF Rewrites
<1> QED BY <1>3, <1>4

LEMMA TableKeeps ==
    ASSUME TableInv, Inserts(table') \/ \E id : Rewrites(table', id)
    PROVE  TableInv'
<1>1. CASE Inserts(table')
  <2>1. PICK row : /\ IsRow(row) /\ row.id \in Id \ used
                   /\ table' = table \cup {row} /\ used' = used \cup {row.id}
    BY <1>1 DEF Inserts
  <2>2. IsFiniteSet(table')
    BY <2>1, FS_AddElement DEF TableInv, IsTable
  <2>3. \A x, y \in table' : x.id = y.id => x = y
    BY <2>1 DEF TableInv, IsTable
  <2> QED BY <2>1, <2>2, <2>3 DEF TableInv, IsTable
<1>2. ASSUME NEW id, Rewrites(table', id) PROVE TableInv'
  <2>1. PICK new : /\ IsRow(new) /\ new.id = id
                   /\ table' \in {table \ Row(id), (table \ Row(id)) \cup {new}}
    BY <1>2 DEF Rewrites
  <2>2. IsFiniteSet(table \ Row(id))
    BY FS_Subset DEF TableInv, IsTable
  <2>3. IsFiniteSet((table \ Row(id)) \cup {new})
    BY <2>2, FS_AddElement
  <2>4. \A x \in table \ Row(id) : x.id # id
    BY DEF Row
  <2>5. \A x, y \in table' : x.id = y.id => x = y
    BY <2>1, <2>4 DEF TableInv, IsTable
  <2>6. \A x \in table' : IsRow(x) /\ x.id \in used
    BY <1>2, <2>1 DEF TableInv, IsTable, Rewrites
  <2> QED BY <1>2, <2>1, <2>2, <2>3, <2>5, <2>6 DEF TableInv, IsTable, Rewrites
<1> QED BY <1>1, <1>2

\* Which steps change the table, and how.
LEMMA TableSteps ==
    ASSUME ShapeInv, WritesInv, TableInv, [Next]_vars
    PROVE  \/ UNCHANGED <<table, used>>
           \/ Inserts(table')
           \/ \E r \in Req : Rewrites(table', call[r].id)
<1> USE DEF serverVars, vars
<1>1. CASE UNCHANGED vars BY <1>1
<1>2. ASSUME NEW i \in Replica, \/ Boot(i) \/ Connect(i) \/ ConnectFails(i)
                                \/ Terminate(i) \/ ExitCleanly(i) \/ ForceExit(i)
      PROVE  UNCHANGED <<table, used>>
  BY <1>2 DEF Boot, Connect, ConnectFails, Terminate, ExitCleanly, ForceExit
<1>3. ASSUME NEW id \in Id, ExpireDetail(id) PROVE UNCHANGED <<table, used>>
  BY <1>3 DEF ExpireDetail
<1>4. ASSUME NEW entry \in lists, ExpireList(entry) PROVE UNCHANGED <<table, used>>
  BY <1>4 DEF ExpireList
<1>5. CASE WindowEnds \/ RedisLoss BY <1>5 DEF WindowEnds, RedisLoss
<1>6. ASSUME NEW f \in Req, FlightStep(f) PROVE UNCHANGED <<table, used>>
  BY <1>6 DEF FlightStep, FlightRead, FlightReadFails, FlightFill, FlightTimeout
<1>7. ASSUME NEW r \in Req, \/ Send(r) \/ NextPage(r) \/ Limit(r) \/ LimitFails(r) \/ Del(r)
                            \/ Bump(r) \/ Select(r) \/ SelectFails(r)
      PROVE  UNCHANGED <<table, used>>
  BY <1>7 DEF Send, NextPage, Accept, Limit, LimitFails, Del, Bump, Select, SelectFails
<1>8. ASSUME NEW r \in Req, \/ DetailGet(r) \/ VersionGet(r) \/ ListGet(r) \/ Probe(r)
                            \/ StatementRefused(r)
      PROVE  UNCHANGED <<table, used>>
  BY <1>8 DEF DetailGet, VersionGet, ListGet, Probe, StatementRefused
<1>9. ASSUME NEW r \in Req, Insert(r) PROVE Inserts(table')
  BY <1>9, InsertInserts DEF Insert, Committed
<1>10. ASSUME NEW r \in Req, Write(r)
       PROVE  UNCHANGED <<table, used>> \/ Rewrites(table', call[r].id)
  BY <1>10, WriteRewrites DEF Write, Committed
<1>11. ASSUME NEW r \in Req, StatementFails(r)
       PROVE  UNCHANGED <<table, used>> \/ Inserts(table') \/ Rewrites(table', call[r].id)
  <2>1. \/ UNCHANGED <<table, used>>
        \/ /\ at[r] \in {"update", "delete"} /\ Row(call[r].id) # {}
           /\ ValueErrors(call[r]) = {}
           /\ table' = Rewritten(call[r]) /\ used' = used
        \/ /\ at[r] = "insert" /\ ValueErrors(call[r]) = {}
           /\ \E id \in Id \ used : /\ table' = table \cup {NewRow(id, call[r].body, clock)}
                                    /\ used' = used \cup {id}
    BY <1>11 DEF StatementFails, Committed
  <2> QED BY <2>1, InsertInserts, WriteRewrites
<1> QED BY <1>1, <1>2, <1>3, <1>4, <1>5, <1>6, <1>7, <1>8, <1>9, <1>10, <1>11
        DEF Next, RequestStep

LEMMA TableInit == Init => TableInv
BY ServiceAssumption DEF Init, TableInv

LEMMA TableStep == ShapeInv /\ WritesInv /\ TableInv /\ [Next]_vars => TableInv'
<1> SUFFICES ASSUME ShapeInv, WritesInv, TableInv, [Next]_vars PROVE TableInv'
  OBVIOUS
<1>1. CASE UNCHANGED <<table, used>> BY <1>1 DEF TableInv
<1> QED BY <1>1, TableSteps, TableKeeps


\* The other fields.
ScalarTypes ==
    /\ env \in Environment
    /\ phase \in [Replica -> {"down", "connect", "serving", "stopping", "exit0", "exit1"}]
    /\ clock \in Nat /\ count \in Nat /\ faults \in 0 .. MaxFault
    /\ severed \subseteq Req

LEMMA ScalarInit == Init => ScalarTypes
BY ServiceAssumption DEF Init, ScalarTypes

LEMMA FailureCounts ==
    ASSUME faults \in 0 .. MaxFault, NEW r,
           Succeeds(r) \/ ReadSucceeds(r) \/ \E kind : Fails(r, kind)
    PROVE  faults' \in 0 .. MaxFault
BY ServiceAssumption DEF Succeeds, ReadSucceeds, Fails

LEMMA ScalarStep == ScalarTypes /\ [Next]_vars => ScalarTypes'
<1> SUFFICES ASSUME ScalarTypes, [Next]_vars PROVE ScalarTypes'
  OBVIOUS
<1> USE DEF ScalarTypes, serverVars, processVars, requestVars, historyVars
<1>1. CASE UNCHANGED vars BY <1>1 DEF vars
<1>2. ASSUME NEW i \in Replica, Boot(i) \/ Connect(i) PROVE ScalarTypes'
  BY <1>2 DEF Boot, Connect
<1>3. ASSUME NEW i \in Replica, ConnectFails(i) \/ Terminate(i) PROVE ScalarTypes'
  BY <1>3, ServiceAssumption DEF ConnectFails, Terminate
<1>4. ASSUME NEW i \in Replica, ExitCleanly(i) \/ ForceExit(i) PROVE ScalarTypes'
  BY <1>4 DEF ExitCleanly, ForceExit
<1>5. ASSUME NEW id \in Id, ExpireDetail(id) PROVE ScalarTypes'
  BY <1>5 DEF ExpireDetail
<1>6. ASSUME NEW entry \in lists, ExpireList(entry) PROVE ScalarTypes'
  BY <1>6 DEF ExpireList
<1>7. CASE WindowEnds BY <1>7 DEF WindowEnds
<1>8. CASE RedisLoss BY <1>8, ServiceAssumption DEF RedisLoss
<1>9. ASSUME NEW r \in Req, Send(r) \/ NextPage(r) PROVE ScalarTypes'
  BY <1>9 DEF Send, NextPage, Accept
<1>10. ASSUME NEW r \in Req, Limit(r) PROVE ScalarTypes'
  BY <1>10, FailureCounts DEF Limit, Issue
<1>11. ASSUME NEW r \in Req, LimitFails(r) \/ StatementRefused(r) \/ Probe(r)
       PROVE  ScalarTypes'
  BY <1>11, FailureCounts DEF LimitFails, StatementRefused, Probe
<1>12. ASSUME NEW r \in Req, Insert(r) \/ Write(r) PROVE ScalarTypes'
  BY <1>12, FailureCounts DEF Insert, Write, Issue, Committed
<1>13. ASSUME NEW r \in Req, StatementFails(r) PROVE ScalarTypes'
  BY <1>13, FailureCounts DEF StatementFails, Committed
<1>14. ASSUME NEW r \in Req, Del(r) \/ Bump(r) PROVE ScalarTypes'
  BY <1>14, FailureCounts DEF Del, Bump, Issue
<1>15. ASSUME NEW r \in Req, Select(r) \/ SelectFails(r) PROVE ScalarTypes'
  BY <1>15, FailureCounts DEF Select, SelectFails
<1>16. ASSUME NEW r \in Req, DetailGet(r) \/ VersionGet(r) \/ ListGet(r) PROVE ScalarTypes'
  BY <1>16, FailureCounts DEF DetailGet, VersionGet, ListGet, Issue
<1>17. ASSUME NEW f \in Req, FlightRead(f) \/ FlightFill(f) PROVE ScalarTypes'
  BY <1>17, FailureCounts DEF FlightRead, FlightFill, Issue
<1>18. ASSUME NEW f \in Req, FlightReadFails(f) PROVE ScalarTypes'
  BY <1>18, FailureCounts DEF FlightReadFails
<1>19. ASSUME NEW f \in Req, FlightTimeout(f) PROVE ScalarTypes'
  BY <1>19, ServiceAssumption DEF FlightTimeout
<1> QED BY <1>1, <1>2, <1>3, <1>4, <1>5, <1>6, <1>7, <1>8, <1>9, <1>10, <1>11, <1>12,
           <1>13, <1>14, <1>15, <1>16, <1>17, <1>18, <1>19
        DEF Next, RequestStep, FlightStep

\* A flight is read; what it found, if it found something, is put into the cache.
Typed(g) == /\ g.step \in {"read", "fill"} /\ g.shared \in BOOLEAN
            /\ g.step = "fill" => g.value # Absent

FlightTypes == \A f \in Req : flight[f] # Absent => Typed(flight[f])

LEMMA FlightTypesStep == ShapeInv /\ FlightTypes /\ [Next]_vars => FlightTypes'
<1> SUFFICES ASSUME ShapeInv, FlightTypes, [Next]_vars, NEW g \in Req, flight'[g] # Absent
             PROVE  Typed(flight'[g])
  BY DEF FlightTypes, Typed
<1>1. /\ FieldTypes
      /\ flight[g] # Absent => /\ DOMAIN flight[g] = {"key", "step", "value", "shared", "waiters"}
                               /\ Typed(flight[g])
  BY DEF ShapeInv, FlightTypes, FlightFits
<1>2. CASE flight'[g] = flight[g] BY <1>1, <1>2
<1>3. CASE Elsewhere \/ RedisLoss
  BY <1>2, <1>3 DEF Elsewhere, RedisLoss, requestVars
<1>4. ASSUME NEW r \in Req, Arrives(r) \/ Moves(r) PROVE flight' = flight
  BY <1>4 DEF Arrives, Moves
<1>5. ASSUME NEW r \in Req, NEW key, Looks(r, key)
      PROVE  Typed(flight'[g])
  <2>1. ASSUME NEW f \in Req, Joins(r, f)
        PROVE  Typed(flight'[g])
    <3>1. CASE g # f BY <1>1, <1>2, <2>1, <3>1 DEF Joins, FieldTypes
    <3>2. CASE g = f BY <1>1, <2>1, <3>2 DEF Joins, FieldTypes, Typed
    <3> QED BY <3>1, <3>2
  <2>2. CASE Leads(r, key)
    BY <1>1, <2>2 DEF Leads, FieldTypes, Typed
  <2> QED BY <1>2, <1>5, <2>1, <2>2, JoinsOrLeads DEF Looks
<1>6. ASSUME NEW f \in Req, Turns(f)
      PROVE  Typed(flight'[g])
  <2>1. CASE g # f
    BY <1>1, <1>2, <1>6, <2>1 DEF Turns, ReadDone, Ends, TimesOut, FieldTypes
  <2>2. CASE g = f
    <3>1. flight[f] # Absent
      BY <1>6 DEF Turns
    <3>2. CASE ReadDone(f)
      <4>1. PICK value : /\ value # Absent
                         /\ flight' = [flight EXCEPT ![f].step = "fill", ![f].value = value]
        BY <3>2 DEF ReadDone
      <4>2. flight'[f] = [flight[f] EXCEPT !.step = "fill", !.value = value]
        BY <1>1, <4>1 DEF FieldTypes
      <4>3. /\ flight'[f].step = "fill" /\ flight'[f].value = value
            /\ flight'[f].shared = flight[f].shared
        BY <1>1, <2>2, <3>1, <4>2
      <4>4. flight[f].shared \in BOOLEAN
        BY <1>1, <2>2, <3>1 DEF Typed
      <4> QED BY <2>2, <4>1, <4>3, <4>4 DEF Typed
    <3>3. CASE Ends(f)
      BY <1>1, <2>2, <3>3 DEF Ends, FieldTypes
    <3>4. CASE TimesOut(f)
      BY <1>1, <2>2, <3>1, <3>4 DEF TimesOut, FieldTypes, Typed
    <3> QED BY <1>6, <3>2, <3>3, <3>4 DEF Turns
  <2> QED BY <2>1, <2>2
<1>7. ASSUME NEW i \in Replica, ExitCleanly(i) \/ ForceExit(i) PROVE flight'[g] = flight[g]
  BY <1>7 DEF ExitCleanly, ForceExit
<1> QED BY <1>2, <1>3, <1>4, <1>5, <1>6, <1>7, StepShape, RequestsArrive, GoesMoves,
           ReadersLook, FlightsTurn

LEMMA TypesAreEnough == ShapeInv /\ TableInv /\ ScalarTypes /\ FlightTypes => TypeOK
BY DEF ShapeInv, FieldTypes, FlightFits, TableInv, ScalarTypes, FlightTypes, Typed, TypeOK

\* Every variable keeps its type; the table keeps its key and its columns, and
\* no row is under an id that was never given, whatever statements fail.
THEOREM ServiceTypeCorrect == Spec => []TypeOK
<1>1. Init => FlightTypes
  BY DEF Init, FlightTypes
<1> QED BY <1>1, ShapeInit, ShapeStep, WritesInit, WritesStep, TableInit, TableStep,
           ScalarInit, ScalarStep, FlightTypesStep, TypesAreEnough, PTL DEF Spec

-----------------------------------------------------------------------------
(* Replies.                                                                *)

\* A call that asks for what a key stands for.
Asks(c, key) ==
    \/ c.op = "get" /\ key = DetailKey(c.id)
    \/ c.op = "list" /\ IsQuery(c.query) /\ key = ListKey(c.query, key.version)

\* Those that wait for a flight asked for what it reads.
WaitersAsk == \A f \in Req : flight[f] # Absent =>
                  /\ Asks(call[f], flight[f].key)
                  /\ \A w \in flight[f].waiters : Asks(call[w], flight[f].key)

\* A reader that looks into the cache under the key of its call.
LEMMA ReadersAsk ==
    ASSUME ShapeInv, NEW r \in Req, DetailGet(r) \/ ListGet(r)
    PROVE  \E key : /\ Looks(r, key) /\ Asks(call[r], key)
                    /\ at[r] = "listGet" => key = KeyOf(r)
<1>1. CallFits(r)
  BY DEF ShapeInv
<1>2. CASE DetailGet(r)
  BY <1>1, <1>2, ReadersLook DEF DetailGet, CallFits, Asks
<1>3. CASE ListGet(r)
  <2>1. call[r].op = "list" /\ IsQuery(call[r].query)
    BY <1>1, <1>3 DEF ListGet, CallFits, Active
  <2>2. KeyOf(r) = ListKey(call[r].query, KeyOf(r).version)
    BY DEF KeyOf, ListKey
  <2> QED BY <1>3, <2>1, <2>2, ReadersLook DEF Asks
<1> QED BY <1>2, <1>3

LEMMA JoinsItsKey ==
    ASSUME NEW r \in Req, NEW key, JoinOrLead(r, key)
    PROVE  (\E f \in Req : Joins(r, f) /\ flight[f].key = key) \/ Leads(r, key)
BY DEF JoinOrLead, InFlight, Joins, Leads

LEMMA WaitersAskStep == ShapeInv /\ WaitersAsk /\ [Next]_vars => WaitersAsk'
<1> SUFFICES ASSUME ShapeInv, WaitersAsk, [Next]_vars, NEW g \in Req, flight'[g] # Absent
             PROVE  /\ Asks(call'[g], flight'[g].key)
                    /\ \A w \in flight'[g].waiters : Asks(call'[w], flight'[g].key)
  BY DEF WaitersAsk, Asks
<1>1. /\ FieldTypes
      /\ flight[g] # Absent => /\ FlightFits(g) /\ Asks(call[g], flight[g].key)
                               /\ \A w \in flight[g].waiters : Asks(call[w], flight[g].key)
  BY DEF ShapeInv, WaitersAsk
<1>2. ASSUME flight[g] # Absent, call' = call, flight'[g].key = flight[g].key,
             flight'[g].waiters \subseteq flight[g].waiters
      PROVE  /\ Asks(call'[g], flight'[g].key)
             /\ \A w \in flight'[g].waiters : Asks(call'[w], flight'[g].key)
  BY <1>1, <1>2
<1>3. CASE Elsewhere \/ RedisLoss
  <2>1. UNCHANGED <<call, flight>>
    BY <1>3 DEF Elsewhere, RedisLoss, requestVars
  <2> QED BY <1>1, <2>1
<1>4. ASSUME NEW r \in Req, Arrives(r) \/ Moves(r)
      PROVE  /\ Asks(call'[g], flight'[g].key)
             /\ \A w \in flight'[g].waiters : Asks(call'[w], flight'[g].key)
  <2>1. flight' = flight /\ \A q \in Req : q # r => call'[q] = call[q]
    BY <1>4 DEF Arrives, Moves
  <2>2. g # r /\ \A w \in flight[g].waiters : w \in Req /\ w # r
    BY <1>1, <1>4, <2>1 DEF FlightFits, Arrives, Moves
  <2> QED BY <1>1, <2>1, <2>2
<1>5. ASSUME NEW r \in Req, NEW key, Looks(r, key), Asks(call[r], key)
      PROVE  /\ Asks(call'[g], flight'[g].key)
             /\ \A w \in flight'[g].waiters : Asks(call'[w], flight'[g].key)
  <2>1. call' = call
    BY <1>5 DEF Looks
  <2>2. CASE UNCHANGED flight BY <1>1, <2>1, <2>2
  <2>3. ASSUME NEW f \in Req, Joins(r, f), flight[f].key = key
        PROVE  /\ Asks(call'[g], flight'[g].key)
               /\ \A w \in flight'[g].waiters : Asks(call'[w], flight'[g].key)
    <3>1. CASE g # f BY <1>1, <2>1, <2>3, <3>1 DEF Joins, FieldTypes
    <3>2. CASE g = f
      <4>1. /\ flight[g] # Absent
            /\ flight'[g] = [flight[g] EXCEPT !.waiters = @ \cup {r}]
        BY <1>1, <2>3, <3>2 DEF Joins, FieldTypes
      <4>2. flight'[g].key = key /\ flight'[g].waiters = flight[g].waiters \cup {r}
        BY <1>1, <2>3, <3>2, <4>1 DEF FlightFits
      <4> QED BY <1>1, <1>5, <2>1, <2>3, <3>2, <4>1, <4>2
    <3> QED BY <3>1, <3>2
  <2>4. CASE Leads(r, key)
    <3>1. CASE g # r BY <1>1, <2>1, <2>4, <3>1 DEF Leads, FieldTypes
    <3>2. CASE g = r BY <1>1, <1>5, <2>1, <2>4, <3>2 DEF Leads, FieldTypes
    <3> QED BY <3>1, <3>2
  <2> QED BY <1>5, <2>2, <2>3, <2>4, JoinsItsKey DEF Looks
<1>6. ASSUME NEW f \in Req, Turns(f)
      PROVE  /\ Asks(call'[g], flight'[g].key)
             /\ \A w \in flight'[g].waiters : Asks(call'[w], flight'[g].key)
  <2>1. call' = call /\ flight[f] # Absent
    BY <1>6 DEF Turns
  <2>2. CASE g # f
    <3>1. flight'[g] = flight[g]
      BY <1>1, <1>6, <2>2 DEF Turns, ReadDone, Ends, TimesOut, FieldTypes
    <3> QED BY <1>1, <2>1, <3>1
  <2>3. CASE g = f
    <3>1. CASE ReadDone(f)
      <4>1. PICK value : flight' = [flight EXCEPT ![f].step = "fill", ![f].value = value]
        BY <3>1 DEF ReadDone
      <4>2. flight'[f] = [flight[f] EXCEPT !.step = "fill", !.value = value]
        BY <1>1, <4>1 DEF FieldTypes
      <4>3. flight'[f].key = flight[f].key /\ flight'[f].waiters = flight[f].waiters
        BY <1>1, <2>1, <2>3, <4>2 DEF FlightFits
      <4> QED BY <1>2, <2>1, <2>3, <4>3
    <3>2. CASE Ends(f) BY <1>1, <2>3, <3>2 DEF Ends, FieldTypes
    <3>3. CASE TimesOut(f)
      <4>1. flight'[f].key = flight[f].key /\ flight'[f].waiters = {}
        BY <1>1, <2>1, <2>3, <3>3 DEF TimesOut, FieldTypes, FlightFits
      <4> QED BY <1>2, <2>1, <2>3, <4>1
    <3> QED BY <1>6, <3>1, <3>2, <3>3 DEF Turns
  <2> QED BY <2>2, <2>3
<1>7. ASSUME NEW i \in Replica, ExitCleanly(i) \/ ForceExit(i)
      PROVE  /\ Asks(call'[g], flight'[g].key)
             /\ \A w \in flight'[g].waiters : Asks(call'[w], flight'[g].key)
  <2>1. flight'[g] = flight[g] /\ call' = call
    BY <1>7 DEF ExitCleanly, ForceExit
  <2> QED BY <1>1, <2>1
<1> QED BY <1>3, <1>4, <1>5, <1>6, <1>7, StepShape, RequestsArrive, GoesMoves,
           ReadersAsk, FlightsTurn

\* Calls with one key are refused by the codec, or by Postgres, alike.
LEMMA KeyDeterminesRefusal ==
    ASSUME NEW c, NEW d, NEW key, Asks(c, key), Asks(d, key)
    PROVE  ReadErrors(c) = ReadErrors(d) /\ c.op = d.op
<1>1. \A id, q, v : DetailKey(id) # ListKey(q, v)
  <2> SUFFICES ASSUME NEW id, NEW q, NEW v, DetailKey(id) = ListKey(q, v) PROVE FALSE
    OBVIOUS
  <2>1. DOMAIN DetailKey(id) = {"id"} /\ DOMAIN ListKey(q, v) = {"version", "filters"}
    BY DEF DetailKey, ListKey
  <2> QED BY <2>1
<1>2. c.op \in {"get", "list"} /\ c.op = d.op
  BY <1>1 DEF Asks
<1>3. CASE c.op = "get"
  BY <1>2, <1>3 DEF ReadErrors, BadCursor, ValueErrors, Bodied
<1>4. CASE c.op = "list"
  <2>1. /\ IsQuery(c.query) /\ IsQuery(d.query)
        /\ NormalizeFilters(c.query) = NormalizeFilters(d.query)
    BY <1>2, <1>4 DEF Asks, ListKey
  <2>2. /\ c.query.type = d.query.type
        /\ c.query.cursor = d.query.cursor /\ c.query.sort = d.query.sort
        /\ SortedArray(c.query.status) = SortedArray(d.query.status)
        /\ SortedArray(c.query.tag) = SortedArray(d.query.tag)
    BY <2>1 DEF NormalizeFilters, IsQuery
  <2>3. /\ Named(c.query.status) = Named(d.query.status)
        /\ Named(c.query.tag) = Named(d.query.tag)
    <3>1. \A array : DOMAIN SortedArray(array) = Named(array)
      BY DEF SortedArray
    <3> QED BY <2>2, <3>1
  <2>4. QueryErrors(c.query) = QueryErrors(d.query)
    BY <2>2, <2>3 DEF QueryErrors
  <2>5. BadCursor(c) <=> BadCursor(d)
    BY <1>2, <2>2 DEF BadCursor
  <2>6. ValueErrors(c) = ValueErrors(d)
    BY <1>2, <1>4, <2>4 DEF ValueErrors, Bodied
  <2> QED BY <1>2, <2>5, <2>6 DEF ReadErrors
<1> QED BY <1>2, <1>3, <1>4

\* What a reply of this status says is true of the call and of what happened.
Accounts(c, status, troubles) ==
    /\ status = 400 => (Refusal(c) # Absent \/ BadCursor(c)) /\ ~Unforeseen(c)
    /\ status >= 500 =>
           \/ troubles \cap {"db", "timeout", "stop"} # {}
           \/ "redis" \in troubles /\ Counted(c)
           \/ Unforeseen(c)

\* Who is counted passes the limiter's store; replies have their causes.
RepliesInv ==
    \A r \in Req :
        /\ at[r] = "limit" => Counted(call[r])
        /\ at[r] = "done" /\ call[r].op # "health" => Accounts(call[r], reply[r].status, hurt)

LEMMA RepliesAreEnough == RepliesInv => RepliesHaveCauses
BY DEF RepliesInv, RepliesHaveCauses, Accounts

LEMMA RepliesInit == Init => RepliesInv
BY DEF Init, RepliesInv

LEMMA AppErrorStatus ==
    ASSUME NEW code \in ErrorCodes, NEW mark
    PROVE  ErrorResponse(AppError(code), mark).status = StatusFor[code]
<1>1. AppError(code).class = "app" /\ AppError(code).code = code
  BY DEF AppError
<1> HIDE DEF AppError
<1>2. wrapUnknown(normalizeBodyParserError(AppError(code))) = AppError(code)
  BY <1>1 DEF wrapUnknown, normalizeBodyParserError
<1>3. PublicResponse(AppError(code), mark).status = StatusFor[code]
  BY <1>1 DEF PublicResponse
<1> QED BY <1>2, <1>3 DEF ErrorResponse

\* The statuses of errors, and of what went well.
LEMMA Statuses ==
    ASSUME NEW mark
    PROVE  /\ ErrorResponse(Unknown, mark).status = 500
           /\ ErrorResponse(AppError("NOT_FOUND"), mark).status = 404
           /\ ErrorResponse(AppError("RATE_LIMIT"), mark).status = 429
           /\ \A status, m : Ok(status, m).status = status
<1> USE DEF StatusFor
<1>1. ErrorResponse(Unknown, mark).status = 500
  <2>1. wrapUnknown(normalizeBodyParserError(Unknown)) = AppError("INTERNAL_ERROR")
    BY DEF wrapUnknown, normalizeBodyParserError, Unknown
  <2>2. PublicResponse(AppError("INTERNAL_ERROR"), mark).status = 500
    BY DEF PublicResponse, AppError
  <2> QED BY <2>1, <2>2 DEF ErrorResponse
<1>2. /\ ErrorResponse(AppError("NOT_FOUND"), mark).status = 404
      /\ ErrorResponse(AppError("RATE_LIMIT"), mark).status = 429
  BY AppErrorStatus DEF ErrorCodes
<1>3. \A status, m : Ok(status, m).status = status
  BY DEF Ok
<1> QED BY <1>1, <1>2, <1>3

LEMMA RefusalStatuses ==
    ASSUME NEW mark
    PROVE  /\ ErrorResponse(ValidationError(TRUE), mark).status = 400
           /\ ErrorResponse(ValidationError(FALSE), mark).status = 400
           /\ ErrorResponse(BodyParserError("entity.parse.failed"), mark).status = 400
           /\ ErrorResponse(BodyParserError("entity.too.large"), mark).status = 400
BY DEF StatusFor, ErrorResponse, PublicResponse, wrapUnknown, normalizeBodyParserError,
       ValidationError, BodyParserError

\* The errors of the body parser that the program does not know.
LEMMA UnknownParserErrors ==
    ASSUME NEW type, type \notin {"entity.parse.failed", "entity.too.large"}, NEW mark
    PROVE  ErrorResponse(BodyParserError(type), mark).status = 500
<1>1. wrapUnknown(normalizeBodyParserError(BodyParserError(type))) = AppError("INTERNAL_ERROR")
  BY DEF wrapUnknown, normalizeBodyParserError, BodyParserError
<1>2. PublicResponse(AppError("INTERNAL_ERROR"), mark).status = 500
  BY DEF PublicResponse, AppError, StatusFor
<1> QED BY <1>1, <1>2 DEF ErrorResponse

\* A statement that fails is not one that a constraint refuses.
LEMMA DbStatuses ==
    ASSUME NEW r, NEW sqlstate \in ErrorOf(r), NEW mark
    PROVE  ErrorResponse(mapDbError(sqlstate), mark).status \in {500, 503}
<1>1. mapDbError(sqlstate).code \notin {"CONFLICT", "VALIDATION"}
  <2>1. CASE sqlstate = "closed"
    BY <2>1 DEF mapDbError, AppError
  <2>2. CASE sqlstate \in DbErrors
    BY <2>2, ServiceAssumption
  <2> QED BY <2>1, <2>2 DEF ErrorOf
<1>2. mapDbError(sqlstate) \in {AppError("DEPENDENCY_UNAVAILABLE"), AppError("INTERNAL_ERROR")}
  <2>1. /\ AppError("CONFLICT").code = "CONFLICT"
        /\ ValidationError(TRUE).code = "VALIDATION"
        /\ ValidationError(FALSE).code = "VALIDATION"
    BY DEF AppError, ValidationError
  <2> QED BY <1>1, <2>1 DEF mapDbError
<1>3. \A code \in {"DEPENDENCY_UNAVAILABLE", "INTERNAL_ERROR"} :
          ErrorResponse(AppError(code), mark).status \in {500, 503}
  BY AppErrorStatus DEF ErrorCodes, StatusFor
<1> QED BY <1>2, <1>3

\* A value that Postgres refuses.
LEMMA ValueStatuses ==
    ASSUME NEW c, NEW sqlstate \in ValueErrors(c), NEW mark
    PROVE  ErrorResponse(mapDbError(sqlstate), mark).status = 500
<1>1. sqlstate \in {"22021", "22008", "22P02", "22P05"}
  BY DEF ValueErrors, BodyErrors, QueryErrors
<1>2. mapDbError(sqlstate) = AppError("INTERNAL_ERROR")
  BY <1>1 DEF mapDbError
<1>3. ErrorResponse(AppError("INTERNAL_ERROR"), mark).status = 500
  BY AppErrorStatus DEF ErrorCodes, StatusFor
<1> QED BY <1>2, <1>3

\* A call that is refused before any statement gets a 400, or a 500 if it is
\* one of those nobody has an error for.
LEMMA RefusalAccounts ==
    ASSUME NEW c, Refusal(c) # Absent, NEW mark, NEW troubles
    PROVE  Accounts(c, ErrorResponse(Refusal(c), mark).status, troubles)
<1>1. CASE c.body \in ParserErrors
  <2>1. PICK type \in ParserTypes : c.body = BodyParserError(type)
    BY <1>1 DEF ParserErrors
  <2>2. Refusal(c) = BodyParserError(type)
    BY <1>1, <2>1 DEF Refusal
  <2>3. CASE type \notin {"entity.parse.failed", "entity.too.large"}
    <3>1. Unforeseen(c)
      BY <2>1, <2>3 DEF Unforeseen
    <3>2. ErrorResponse(Refusal(c), mark).status = 500
      BY <2>2, <2>3, UnknownParserErrors
    <3> QED BY <3>1, <3>2 DEF Accounts
  <2>4. CASE type \in {"entity.parse.failed", "entity.too.large"}
    <3>1. \A other : c.body = BodyParserError(other) => other = type
      BY <2>1 DEF BodyParserError
    <3>2. ~Unforeseen(c)
      BY <1>1, <2>4, <3>1 DEF Unforeseen
    <3>3. ErrorResponse(Refusal(c), mark).status = 400
      <4>1. /\ ErrorResponse(BodyParserError("entity.parse.failed"), mark).status = 400
            /\ ErrorResponse(BodyParserError("entity.too.large"), mark).status = 400
        BY RefusalStatuses
      <4>2. CASE type = "entity.parse.failed"
        <5>1. Refusal(c) = BodyParserError("entity.parse.failed")
          BY <2>2, <4>2
        <5> QED BY <4>1, <5>1, Zenon
      <4>3. CASE type = "entity.too.large"
        <5>1. Refusal(c) = BodyParserError("entity.too.large")
          BY <2>2, <4>3
        <5> QED BY <4>1, <5>1, Zenon
      <4> QED BY <2>4, <4>2, <4>3
    <3>4. Refusal(c) # Absent
      OBVIOUS
    <3> QED BY <3>2, <3>3, <3>4 DEF Accounts
  <2> QED BY <2>3, <2>4
<1>2. CASE c.body \notin ParserErrors /\ c.id = Garbled
  <2>1. Unforeseen(c) /\ Refusal(c) = Unknown
    BY <1>2 DEF Unforeseen, Refusal
  <2>2. ErrorResponse(Refusal(c), mark).status = 500
    BY <2>1, Statuses
  <2> QED BY <2>1, <2>2 DEF Accounts
<1>3. CASE c.body \notin ParserErrors /\ c.id # Garbled
  <2>1. \A type \in ParserTypes : c.body # BodyParserError(type)
    BY <1>3 DEF ParserErrors
  <2>2. ~Unforeseen(c)
    BY <1>3, <2>1 DEF Unforeseen
  <2>3. Refusal(c) \in {ValidationError(FALSE), ValidationError(TRUE)}
    BY <1>3 DEF Refusal
  <2>4. ErrorResponse(Refusal(c), mark).status = 400
    <3>1. /\ ErrorResponse(ValidationError(TRUE), mark).status = 400
          /\ ErrorResponse(ValidationError(FALSE), mark).status = 400
      BY RefusalStatuses
    <3> QED BY <2>3, <3>1, Zenon
  <2> QED BY <2>2, <2>4 DEF Accounts
<1> QED BY <1>1, <1>2, <1>3

\* A value that Postgres refuses in a call that nothing before it refused.
LEMMA ValueAccounts ==
    ASSUME NEW c, Refusal(c) = Absent, ~BadCursor(c), NEW sqlstate \in ValueErrors(c),
           NEW mark, NEW troubles
    PROVE  Accounts(c, ErrorResponse(mapDbError(sqlstate), mark).status, troubles)
<1>1. Unforeseen(c)
  BY DEF Unforeseen
<1>2. ErrorResponse(mapDbError(sqlstate), mark).status = 500
  BY ValueStatuses
<1> QED BY <1>1, <1>2 DEF Accounts

\* A read that the codec, or Postgres, refuses gets a 400, or a 500.
LEMMA ReadErrorAccounts ==
    ASSUME NEW c, Refusal(c) = Absent, NEW error \in ReadErrors(c), NEW mark, NEW troubles
    PROVE  Accounts(c, ErrorResponse(error, mark).status, troubles)
<1>1. CASE BadCursor(c)
  <2>1. error = ValidationError(FALSE)
    BY <1>1 DEF ReadErrors
  <2>2. ErrorResponse(error, mark).status = 400
    BY <2>1, RefusalStatuses
  <2>3. c.body \notin ParserErrors /\ c.id # Garbled
    BY ServiceAssumption DEF Refusal
  <2>4. \A type \in ParserTypes : c.body # BodyParserError(type)
    BY <2>3 DEF ParserErrors
  <2>5. ~Unforeseen(c)
    BY <1>1, <2>3, <2>4 DEF Unforeseen
  <2> QED BY <1>1, <2>2, <2>5 DEF Accounts
<1>2. CASE ~BadCursor(c)
  <2>1. PICK sqlstate \in ValueErrors(c) : error = mapDbError(sqlstate)
    BY <1>2 DEF ReadErrors
  <2> QED BY <1>2, <2>1, ValueAccounts
<1> QED BY <1>1, <1>2

\* What an answer does to the replies.
LEMMA Replied ==
    ASSUME FieldTypes, NEW rs, NEW response, NEW content, AnswerAll(rs, response, content)
    PROVE  \A r \in Req : /\ at'[r] = IF r \in rs THEN "done" ELSE at[r]
                          /\ reply'[r] = IF r \in rs THEN response ELSE reply[r]
BY DEF AnswerAll

\* A step that only some requests take.
LEMMA RepliesKeep ==
    ASSUME RepliesInv, env' = env, hurt \subseteq hurt', NEW rs,
           \A q \in Req : q \notin rs =>
               \/ at'[q] \notin {"limit", "done"}
               \/ at'[q] = at[q] /\ call'[q] = call[q] /\ reply'[q] = reply[q],
           \A q \in Req : q \in rs =>
               /\ at'[q] = "limit" => Counted(call'[q])
               /\ at'[q] = "done" /\ call'[q].op # "health"
                      => Accounts(call'[q], reply'[q].status, hurt')
    PROVE  RepliesInv'
<1>1. \A c : /\ Counted(c)' <=> Counted(c)
             /\ \A status : Accounts(c, status, hurt)' <=> Accounts(c, status, hurt')
  BY DEF Counted, Cidrs, Accounts, Unforeseen, Refusal, SchemaRefuses, BadCursor, ValueErrors
<1>2. \A c, status : Accounts(c, status, hurt) => Accounts(c, status, hurt')
  BY DEF Accounts
<1> SUFFICES ASSUME NEW q \in Req
             PROVE  /\ at'[q] = "limit" => Counted(call[q])'
                    /\ at'[q] = "done" /\ call'[q].op # "health"
                           => Accounts(call[q], reply[q].status, hurt)'
  BY DEF RepliesInv
<1>3. /\ at[q] = "limit" => Counted(call[q])
      /\ at[q] = "done" /\ call[q].op # "health" => Accounts(call[q], reply[q].status, hurt)
  BY DEF RepliesInv
<1>4. /\ at'[q] = "limit" => Counted(call'[q])
      /\ at'[q] = "done" /\ call'[q].op # "health"
             => Accounts(call'[q], reply'[q].status, hurt')
  BY <1>2, <1>3
<1>5. /\ Counted(call[q])' <=> Counted(call'[q])
      /\ Accounts(call[q], reply[q].status, hurt)'
             <=> Accounts(call'[q], reply'[q].status, hurt')
  BY DEF Counted, Cidrs, Accounts, Unforeseen, Refusal, SchemaRefuses, BadCursor, ValueErrors
<1> QED BY <1>4, <1>5


\* A step that nobody takes.
LEMMA KeptByNobody ==
    ASSUME RepliesInv, env' = env, hurt \subseteq hurt',
           \A q \in Req :
               \/ at'[q] \notin {"limit", "done"}
               \/ at'[q] = at[q] /\ call'[q] = call[q] /\ reply'[q] = reply[q]
    PROVE  RepliesInv'
<1> DEFINE nobody == {}
<1>1. \A q \in Req : q \notin nobody
  OBVIOUS
<1> HIDE DEF nobody
<1> QED BY <1>1, RepliesKeep

\* A failure leaves its mark, and none goes away.
LEMMA TroubleStays ==
    ASSUME NEW r
    PROVE  /\ Succeeds(r) \/ ReadSucceeds(r) => hurt' = hurt
           /\ \A kind : Fails(r, kind) =>
                  hurt \subseteq hurt' /\ ("stop" \in hurt' \/ kind \in hurt')
BY DEF Succeeds, ReadSucceeds, Fails

\* A request is answered, and the answer accounts for itself.
LEMMA AnswerAccounts ==
    ASSUME ShapeInv, RepliesInv, env' = env, hurt \subseteq hurt', NEW r \in Req,
           \A q \in Req : q # r => call'[q] = call[q],
           NEW response, NEW content, Answer(r, response, content),
           call'[r].op # "health" => Accounts(call'[r], response.status, hurt')
    PROVE  RepliesInv'
<1>1. \A q \in Req : /\ at'[q] = IF q = r THEN "done" ELSE at[q]
                     /\ reply'[q] = IF q = r THEN response ELSE reply[q]
  BY Replied DEF Answer, ShapeInv
<1>2. \A q \in Req : q \notin {r} => at'[q] = at[q] /\ call'[q] = call[q] /\ reply'[q] = reply[q]
  BY <1>1
<1>3. \A q \in Req : q \in {r} =>
          /\ at'[q] = "limit" => Counted(call'[q])
          /\ at'[q] = "done" /\ call'[q].op # "health"
                 => Accounts(call'[q], reply'[q].status, hurt')
  BY <1>1
<1> QED BY <1>2, <1>3, RepliesKeep

\* A request goes on.
LEMMA GoingOnAccounts ==
    ASSUME ShapeInv, RepliesInv, env' = env, hurt \subseteq hurt', NEW r \in Req,
           \A q \in Req : q # r => call'[q] = call[q],
           NEW step, GoTo(r, step), step # "done", step = "limit" => Counted(call'[r])
    PROVE  RepliesInv'
<1>1. /\ at'[r] = step /\ reply' = reply
      /\ \A q \in Req : q # r => at'[q] = at[q]
  BY DEF GoTo, ShapeInv, FieldTypes
<1>2. \A q \in Req : q \notin {r} => at'[q] = at[q] /\ call'[q] = call[q] /\ reply'[q] = reply[q]
  BY <1>1
<1>3. \A q \in Req : q \in {r} =>
          /\ at'[q] = "limit" => Counted(call'[q])
          /\ at'[q] = "done" /\ call'[q].op # "health"
                 => Accounts(call'[q], reply'[q].status, hurt')
  BY <1>1
<1> QED BY <1>2, <1>3, RepliesKeep

\* Those that wait for a flight are answered.
LEMMA WaitersAccounts ==
    ASSUME ShapeInv, RepliesInv, UNCHANGED <<env, call>>, hurt \subseteq hurt',
           NEW f \in Req, NEW response, NEW content,
           AnswerAll(flight[f].waiters, response, content),
           \A w \in flight[f].waiters : Accounts(call[w], response.status, hurt')
    PROVE  RepliesInv'
<1>1. \A q \in Req : /\ at'[q] = IF q \in flight[f].waiters THEN "done" ELSE at[q]
                     /\ reply'[q] = IF q \in flight[f].waiters THEN response ELSE reply[q]
  BY Replied DEF ShapeInv
<1>2. \A q \in Req : q \notin flight[f].waiters =>
          at'[q] = at[q] /\ call'[q] = call[q] /\ reply'[q] = reply[q]
  BY <1>1
<1>3. \A q \in Req : q \in flight[f].waiters =>
          /\ at'[q] = "limit" => Counted(call'[q])
          /\ at'[q] = "done" /\ call'[q].op # "health"
                 => Accounts(call'[q], reply'[q].status, hurt')
  BY <1>1
<1> QED BY <1>2, <1>3, RepliesKeep

\* Answers that blame nobody.
LEMMA HarmlessAccounts ==
    ASSUME NEW c, NEW status \in {200, 201, 204, 404, 429}, NEW troubles
    PROVE  Accounts(c, status, troubles)
BY DEF Accounts

LEMMA TroubleAccounts ==
    ASSUME NEW c, NEW status \in {500, 503}, NEW troubles,
           troubles \cap {"db", "timeout", "stop"} # {}
    PROVE  Accounts(c, status, troubles)
BY DEF Accounts

LEMMA HandleAccounts ==
    ASSUME ShapeInv, RepliesInv, env' = env, hurt \subseteq hurt', NEW r \in Req,
           \A q \in Req : q # r => call'[q] = call[q],
           IsCall(call'[r]), Handle(r, call'[r])
    PROVE  RepliesInv'
<1> DEFINE c == call'[r]
<1>1. CASE Answer(r, Ok(200, Absent), Absent)
  <2>1. Ok(200, Absent).status = 200
    BY DEF Ok
  <2> QED BY <1>1, <2>1, HarmlessAccounts, AnswerAccounts
<1>2. CASE Refusal(c) # Absent /\ Answer(r, ErrorResponse(Refusal(c), Absent), Absent)
  <2>1. Accounts(c, ErrorResponse(Refusal(c), Absent).status, hurt')
    BY <1>2, RefusalAccounts
  <2> QED BY <1>2, <2>1, AnswerAccounts
<1>3. CASE Refusal(c) = Absent /\ c.op # "liveness" /\ GoTo(r, FirstStep(c))
  <2>1. FirstStep(c) \in {"insert", "update", "delete", "health", "detailGet",
                          "versionGet", "select"}
    BY <1>3, FirstStepFits
  <2>2. FirstStep(c) # "done" /\ FirstStep(c) # "limit"
    BY <2>1
  <2> QED BY <1>3, <2>2, GoingOnAccounts
<1> QED BY <1>1, <1>2, <1>3 DEF Handle


LEMMA ArrivalsAccount ==
    ASSUME ShapeInv, RepliesInv, NEW r \in Req, Send(r) \/ NextPage(r) \/ Limit(r)
    PROVE  RepliesInv'
<1>1. /\ env' = env /\ IsCall(call'[r])
      /\ \A q \in Req : q # r => call'[q] = call[q]
  BY RequestsArrive DEF Arrives
<1>2. ASSUME NEW c, NEW i, Accept(r, c, i) PROVE RepliesInv'
  <2>1. call'[r] = c /\ hurt' = hurt
    BY <1>2 DEF Accept, ShapeInv, FieldTypes
  <2>2. CASE Counted(c) /\ GoTo(r, "limit")
    BY <1>1, <2>1, <2>2, GoingOnAccounts
  <2>3. CASE Handle(r, c) BY <1>1, <2>1, <2>3, HandleAccounts
  <2> QED BY <1>2, <2>2, <2>3 DEF Accept
<1>3. CASE Send(r) \/ NextPage(r) BY <1>2, <1>3 DEF Send, NextPage
<1>4. CASE Limit(r)
  <2>1. hurt \subseteq hurt' /\ call' = call
    BY <1>4, TroubleStays DEF Limit
  <2>2. CASE Handle(r, call[r]) BY <1>1, <2>1, <2>2, HandleAccounts
  <2>3. CASE Answer(r, ErrorResponse(AppError("RATE_LIMIT"), Absent), Absent)
    BY <1>1, <2>1, <2>3, Statuses, HarmlessAccounts, AnswerAccounts
  <2> QED BY <1>4, <2>2, <2>3 DEF Limit
<1> QED BY <1>3, <1>4

LEMMA GoesAccount ==
    ASSUME ShapeInv, WritesInv, RepliesInv, NEW r \in Req, Goes(r)
    PROVE  RepliesInv'
<1>1. env' = env /\ \A q \in Req : q # r => call'[q] = call[q]
  BY GoesMoves DEF Moves
<1>2. CallFits(r) /\ WritesFit(r) /\ FieldTypes
  BY DEF ShapeInv, WritesInv
<1>3. CASE LimitFails(r)
  <2>1. /\ at[r] = "limit" /\ call' = call /\ Fails(r, "redis")
        /\ Answer(r, ErrorResponse(Unknown, Absent), Absent)
    BY <1>3 DEF LimitFails
  <2>2. Counted(call[r])
    BY <2>1 DEF RepliesInv
  <2>3. hurt \subseteq hurt' /\ ("stop" \in hurt' \/ "redis" \in hurt')
    BY <2>1, TroubleStays
  <2>4. Accounts(call'[r], ErrorResponse(Unknown, Absent).status, hurt')
    BY <2>1, <2>2, <2>3, Statuses DEF Accounts
  <2> QED BY <1>1, <2>1, <2>3, <2>4, AnswerAccounts
<1>4. ASSUME NEW step \in {"del", "bump"}, AfterWrite(r, step), hurt' = hurt,
             call[r].op \in {"create", "update", "delete"}
      PROVE  RepliesInv'
  <2>1. CASE GoTo(r, step) BY <1>1, <1>4, <2>1, GoingOnAccounts
  <2>2. CASE Answer(r, Ok(StatusOf(call[r].op), Absent), Absent)
    <3>1. Ok(StatusOf(call[r].op), Absent).status \in {200, 201, 204}
      BY <1>4, Statuses DEF StatusOf
    <3> QED BY <1>1, <1>4, <2>2, <3>1, HarmlessAccounts, AnswerAccounts
  <2> QED BY <1>4, <2>1, <2>2 DEF AfterWrite
<1>5. CASE Insert(r)
  BY <1>2, <1>4, <1>5, TroubleStays DEF Insert, WritesFit
<1>6. CASE Write(r)
  <2>1. hurt' = hurt /\ call[r].op \in {"update", "delete"}
    BY <1>2, <1>6, TroubleStays DEF Write, WritesFit
  <2>2. CASE AfterWrite(r, "del") BY <1>4, <2>1, <2>2
  <2>3. CASE Answer(r, ErrorResponse(AppError("NOT_FOUND"), Absent), Absent)
    BY <1>1, <2>1, <2>3, Statuses, HarmlessAccounts, AnswerAccounts
  <2> QED BY <1>6, <2>2, <2>3 DEF Write
<1>7. ASSUME NEW sqlstate \in ErrorOf(r), NEW mark, Fails(r, "db"),
             Answer(r, ErrorResponse(mapDbError(sqlstate), mark), Absent)
      PROVE  RepliesInv'
  <2>1. ErrorResponse(mapDbError(sqlstate), mark).status \in {500, 503}
    BY DbStatuses
  <2>2. hurt \subseteq hurt' /\ ("stop" \in hurt' \/ "db" \in hurt')
    BY <1>7, TroubleStays
  <2> QED BY <1>1, <1>7, <2>1, <2>2, TroubleAccounts, AnswerAccounts
<1>8. CASE StatementFails(r) BY <1>7, <1>8 DEF StatementFails
<1>9. CASE SelectFails(r) BY <1>7, <1>9 DEF SelectFails
<1>10. CASE Del(r)
  <2>1. hurt \subseteq hurt'
    BY <1>10, TroubleStays DEF Del
  <2> QED BY <1>1, <1>10, <2>1, GoingOnAccounts DEF Del
<1>11. CASE Bump(r)
  <2>1. /\ hurt \subseteq hurt' /\ call[r].op \in {"create", "update", "delete"}
        /\ Answer(r, Ok(StatusOf(call[r].op), Absent), Absent)
    BY <1>2, <1>11, TroubleStays DEF Bump, WritesFit
  <2>2. Ok(StatusOf(call[r].op), Absent).status \in {200, 201, 204}
    BY <2>1, Statuses DEF StatusOf
  <2> QED BY <1>1, <2>1, <2>2, HarmlessAccounts, AnswerAccounts
<1>12. CASE Select(r)
  <2>1. hurt \subseteq hurt' /\ call' = call
    BY <1>12, TroubleStays DEF Select
  <2>2. ASSUME NEW error \in ReadErrors(call[r]),
               Answer(r, ErrorResponse(error, MarkOnError(call[r])), Absent)
        PROVE  RepliesInv'
    <3>1. Refusal(call[r]) = Absent
      BY <1>2, <1>12 DEF Select, WritesFit, Active
    <3> QED BY <1>1, <2>1, <2>2, <3>1, ReadErrorAccounts, AnswerAccounts
  <2>3. ASSUME NEW value, Answer(r, ReadResponse(call[r], value, "BYPASS"), value)
        PROVE  RepliesInv'
    <3>1. ReadResponse(call[r], value, "BYPASS").status \in {200, 404}
      BY Statuses DEF ReadResponse
    <3> QED BY <1>1, <2>1, <2>3, <3>1, HarmlessAccounts, AnswerAccounts
  <2> QED BY <1>12, <2>2, <2>3 DEF Select
<1>13. CASE VersionGet(r)
  <2>1. hurt \subseteq hurt'
    BY <1>13, TroubleStays DEF VersionGet
  <2> QED BY <1>1, <1>13, <2>1, GoingOnAccounts DEF VersionGet
<1>14. CASE Probe(r)
  <2>1. /\ hurt \subseteq hurt' /\ call' = call /\ call[r].op = "health"
        /\ \E status : Answer(r, Ok(status, Absent), Absent)
    BY <1>2, <1>14, TroubleStays DEF Probe, WritesFit
  <2> QED BY <1>1, <2>1, AnswerAccounts
<1>15. CASE StatementRefused(r)
  <2>1. /\ call' = call /\ hurt' = hurt /\ at[r] \in {"insert", "update"}
        /\ \E sqlstate \in ValueErrors(call[r]) :
               Answer(r, ErrorResponse(mapDbError(sqlstate), Absent), Absent)
    BY <1>15, TroubleStays DEF StatementRefused
  <2>2. Refusal(call[r]) = Absent /\ ~BadCursor(call[r])
    BY <1>2, <2>1 DEF WritesFit, Active, BadCursor
  <2> QED BY <1>1, <2>1, <2>2, ValueAccounts, AnswerAccounts
<1> QED BY <1>3, <1>5, <1>6, <1>8, <1>9, <1>10, <1>11, <1>12, <1>13, <1>14, <1>15 DEF Goes

LEMMA LooksAccount ==
    ASSUME ShapeInv, RepliesInv, NEW r \in Req, DetailGet(r) \/ ListGet(r)
    PROVE  RepliesInv'
<1>1. env' = env /\ call' = call /\ hurt \subseteq hurt'
  BY TroubleStays DEF DetailGet, ListGet, processVars
<1>2. ASSUME NEW content, Answer(r, Ok(200, "HIT"), content) PROVE RepliesInv'
  BY <1>1, <1>2, Statuses, HarmlessAccounts, AnswerAccounts
<1>3. ASSUME NEW key, JoinOrLead(r, key) PROVE RepliesInv'
  BY <1>1, <1>3, GoingOnAccounts DEF JoinOrLead
<1> QED BY <1>2, <1>3 DEF DetailGet, ListGet

LEMMA TurnsAccount ==
    ASSUME ShapeInv, WritesInv, WaitersAsk, RepliesInv, NEW f \in Req,
           FlightRead(f) \/ FlightReadFails(f) \/ FlightFill(f) \/ FlightTimeout(f)
    PROVE  RepliesInv'
<1>1. /\ UNCHANGED <<env, call>> /\ flight[f] # Absent /\ FieldTypes
      /\ hurt \subseteq hurt'
  BY FlightsTurn, TroubleStays
     DEF Turns, FlightRead, FlightReadFails, FlightFill, FlightTimeout, ShapeInv
<1>2. ASSUME NEW status \in {200, 404}, NEW response, NEW content, response.status = status,
             AnswerAll(flight[f].waiters, response, content)
      PROVE  RepliesInv'
  BY <1>1, <1>2, HarmlessAccounts, WaitersAccounts
<1>3. CASE FlightRead(f)
  <2>1. ASSUME NEW error \in ReadErrors(call[f]), Reject(f, error) PROVE RepliesInv'
    <3>1. \A w \in flight[f].waiters :
              Refusal(call[w]) = Absent /\ ReadErrors(call[w]) = ReadErrors(call[f])
      BY <1>1, KeyDeterminesRefusal
         DEF WaitersAsk, ShapeInv, FlightFits, WritesInv, WritesFit, Active
    <3>2. \A w \in flight[f].waiters :
              Accounts(call[w], ErrorResponse(error, Absent).status, hurt')
      BY <2>1, <3>1, ReadErrorAccounts
    <3> QED BY <1>1, <2>1, <3>2, WaitersAccounts DEF Reject
  <2>2. CASE AnswerAll(flight[f].waiters, ReadResponse(call[f], Absent, "MISS"), Absent)
    <3>1. ReadResponse(call[f], Absent, "MISS").status = 404
      BY Statuses DEF ReadResponse
    <3> QED BY <1>2, <2>2, <3>1
  <2>3. CASE UNCHANGED <<at, reply>>
    <3>1. \A q \in Req :
              at'[q] = at[q] /\ call'[q] = call[q] /\ reply'[q] = reply[q]
      BY <1>1, <2>3
    <3> QED BY <1>1, <3>1, KeptByNobody
  <2> QED BY <1>3, <2>1, <2>2, <2>3 DEF FlightRead
<1>4. CASE FlightReadFails(f)
  <2>1. PICK sqlstate \in ErrorOf(f) : /\ Fails(f, "db")
                                       /\ Reject(f, mapDbError(sqlstate))
    BY <1>4 DEF FlightReadFails
  <2>2. "stop" \in hurt' \/ "db" \in hurt'
    BY <2>1, TroubleStays
  <2>3. ErrorResponse(mapDbError(sqlstate), Absent).status \in {500, 503}
    BY DbStatuses
  <2>4. \A w \in flight[f].waiters :
            Accounts(call[w], ErrorResponse(mapDbError(sqlstate), Absent).status, hurt')
    BY <2>2, <2>3, TroubleAccounts
  <2> QED BY <1>1, <2>1, <2>4, WaitersAccounts DEF Reject
<1>5. CASE FlightFill(f)
  <2>1. \E value : AnswerAll(flight[f].waiters, Ok(200, "MISS"), value)
    BY <1>5 DEF FlightFill
  <2>2. Ok(200, "MISS").status = 200
    BY Statuses
  <2> QED BY <1>2, <2>1, <2>2
<1>6. CASE FlightTimeout(f)
  <2>1. "timeout" \in hurt' /\ Reject(f, Unknown)
    BY <1>6 DEF FlightTimeout
  <2>2. ErrorResponse(Unknown, Absent).status = 500
    BY Statuses
  <2>3. \A w \in flight[f].waiters :
            Accounts(call[w], ErrorResponse(Unknown, Absent).status, hurt')
    BY <2>1, <2>2, TroubleAccounts
  <2> QED BY <1>1, <2>1, <2>3, WaitersAccounts DEF Reject
<1> QED BY <1>3, <1>4, <1>5, <1>6

\* The steps that answer nobody change no reply.
LEMMA OthersKeepReplies ==
    ASSUME [Next]_vars
    PROVE  \/ \E r \in Req : \/ Send(r) \/ NextPage(r) \/ Limit(r) \/ Goes(r)
                             \/ DetailGet(r) \/ ListGet(r)
                             \/ FlightRead(r) \/ FlightReadFails(r) \/ FlightFill(r)
                             \/ FlightTimeout(r)
           \/ /\ UNCHANGED <<env, call, reply>> /\ hurt \subseteq hurt'
              /\ \A q \in Req : at'[q] \in {at[q], "lost"}
<1> USE DEF serverVars, processVars, requestVars, historyVars
<1>1. ASSUME NEW i \in Replica, Boot(i) \/ Connect(i) \/ ConnectFails(i) \/ Terminate(i)
      PROVE  UNCHANGED <<env, at, call, reply, hurt>>
  BY <1>1 DEF Boot, Connect, ConnectFails, Terminate
<1>2. ASSUME NEW i \in Replica, ExitCleanly(i) \/ ForceExit(i)
      PROVE  /\ UNCHANGED <<env, call, reply, hurt>>
             /\ \A q \in Req : at'[q] \in {at[q], "lost"}
  BY <1>2 DEF ExitCleanly, ForceExit
<1>3. ASSUME NEW id \in Id, ExpireDetail(id) PROVE UNCHANGED <<env, at, call, reply, hurt>>
  BY <1>3 DEF ExpireDetail
<1>4. ASSUME NEW entry \in lists, ExpireList(entry) PROVE UNCHANGED <<env, at, call, reply, hurt>>
  BY <1>4 DEF ExpireList
<1>5. CASE WindowEnds BY <1>5 DEF WindowEnds
<1>6. CASE RedisLoss BY <1>6 DEF RedisLoss
<1>7. CASE UNCHANGED vars BY <1>7 DEF vars
<1> QED BY <1>1, <1>2, <1>3, <1>4, <1>5, <1>6, <1>7 DEF Next, RequestStep, FlightStep, Goes

LEMMA RepliesStep ==
    ASSUME ShapeInv, WritesInv, WaitersAsk, RepliesInv, [Next]_vars
    PROVE  RepliesInv'
<1>1. CASE /\ UNCHANGED <<env, call, reply>> /\ hurt \subseteq hurt'
           /\ \A q \in Req : at'[q] \in {at[q], "lost"}
  <2>1. \A q \in Req :
            \/ at'[q] \notin {"limit", "done"}
            \/ at'[q] = at[q] /\ call'[q] = call[q] /\ reply'[q] = reply[q]
    BY <1>1
  <2> QED BY <1>1, <2>1, KeptByNobody
<1> QED BY <1>1, OthersKeepReplies, ArrivalsAccount, GoesAccount, LooksAccount, TurnsAccount

\* A 400 means that the parser, the schemas or the cursor's codec refuse the
\* request, a 500 or 503 that something else than the request went wrong, Redis
\* alone only if the request was to be counted; but for the inputs that no
\* layer of the program has an error for.
THEOREM RepliesAreCaused == Spec => []RepliesHaveCauses
<1>1. Init => WaitersAsk
  BY DEF Init, WaitersAsk
<1>2. ShapeInv /\ WritesInv /\ WaitersAsk /\ RepliesInv /\ [Next]_vars => RepliesInv'
  BY RepliesStep
<1> QED BY <1>1, <1>2, ShapeInit, ShapeStep, WritesInit, WritesStep, WaitersAskStep,
           RepliesInit, RepliesAreEnough, PTL DEF Spec

=============================================================================
