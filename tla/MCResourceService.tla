------------------------- MODULE MCResourceService -------------------------
EXTENDS ResourceService, TLC

CONSTANTS a, b,      \* replicas
          w, l, x    \* requests: a writer, two others

Row2(id, name, status, time) ==
    [id |-> id, name |-> name, type |-> "t", status |-> status, tags |-> {},
     owner |-> Absent, metadata |-> "{}", created |-> time, updated |-> time]

\* Three rows of one name: only their ids order them.
MCTable == {Row2(1, 1, "active", 5), Row2(2, 1, "old", 5), Row2(3, 1, "old", 5)}

V4(addr, prefix) == [family |-> "v4", addr |-> addr, prefix |-> prefix,
                     wellFormed |-> TRUE, unspecified |-> FALSE]
V6(unspecified, prefix) == [family |-> "v6", addr |-> 0, prefix |-> prefix,
                            wellFormed |-> TRUE, unspecified |-> unspecified]
NotAnAddress == [V4(0, NoPrefix) EXCEPT !.family = "none"]

Env(nodeEnv, entries, cached, limited) ==
    [schemaOk |-> TRUE, nodeEnv |-> nodeEnv, entries |-> entries,
     cacheEnabled |-> cached, rateLimitEnabled |-> limited]

Production == Env("production", {V4(4, 3)}, TRUE, TRUE)
Plain      == Env("test", {}, FALSE, FALSE)
MCTraffic  == {Production, Plain}

MCEnvironment ==
    MCTraffic
    \cup {Env(n, {V4(addr, prefix)}, TRUE, TRUE) :
              n \in {"production", "development"}, addr \in {5, 12},
              prefix \in 0 .. 5 \cup {NoPrefix, NotANumber}}
    \cup {Env("production", {e}, TRUE, TRUE) :
              e \in {V6(TRUE, 0), V6(TRUE, 1), V6(FALSE, 0), V6(TRUE, 64),
                     V6(FALSE, NoPrefix), NotAnAddress,
                     [V6(FALSE, 3) EXCEPT !.wellFormed = FALSE]}}
    \cup {[Plain EXCEPT !.schemaOk = FALSE]}

Local   == [form |-> "v4", addr |-> 15, loopback |-> FALSE]
Allowed == [form |-> "mapped", addr |-> 5, loopback |-> FALSE]
Public  == [form |-> "v4", addr |-> 9, loopback |-> FALSE]
Six     == [form |-> "v6", addr |-> 0, loopback |-> FALSE]

Call(op, ip, id, body_, query) ==
    [op |-> op, ip |-> ip, id |-> id, body |-> body_, query |-> query]

NoBody == [name |-> Absent, type |-> Absent, status |-> Absent, tags |-> Absent,
           owner |-> Absent, metadata |-> Absent, unknownKey |-> FALSE]
NewBody == [NoBody EXCEPT !.name = 1, !.type = "t"]

Query(sort, status) ==
    [type |-> Absent, status |-> status, tag |-> <<>>, ownerId |-> Absent,
     createdAfter |-> Absent, createdBefore |-> Absent, limit |-> 2,
     cursor |-> Absent, sort |-> sort]

List(ip, query) == Call("list", ip, Absent, Absent, query)

\* A cursor of another sort, and those Postgres refuses.
Stray     == [kind |-> "timestamp", value |-> 5, id |-> 1, sort |-> "createdAt"]
NameToken(value, id) == [kind |-> "name", value |-> value, id |-> id, sort |-> "name"]
TimeToken(value) == [kind |-> "timestamp", value |-> value, id |-> 1, sort |-> "createdAt"]

\* Requests that are refused, and by whom.
MCRefused ==
    {Call("create", Allowed, Absent, BodyParserError(type), Absent) :
         type \in {"entity.parse.failed", "charset.unsupported"}}
    \cup {Call("create", Allowed, Absent, body_, Absent) :
              body_ \in {Absent, NoBody, [NewBody EXCEPT !.tags = {"g", Unfit}]}}
    \cup {Call("update", Allowed, id, [NoBody EXCEPT !.metadata = Unfit], Absent) :
              id \in {1, Bad, Garbled}}
    \cup {List(Local, [Query("name", <<>>) EXCEPT !.cursor = token]) :
              token \in {Stray, NameToken(1, Unfit), NameToken(Unfit, 1)}}
    \cup {List(Local, [Query("createdAt", <<>>) EXCEPT !.cursor = TimeToken(Unfit)]),
          List(Local, Query("name", <<Unfit>>)),
          List(Local, Bad)}

\* Two of the three requests are alike: they walk through the rows, two a page,
\* read one of them or probe.  The writer moves a row back, deletes one or adds
\* one.
MCReaders == {l, x}
MCRead ==
    {List(Allowed, Query("name", <<"old", "active">>)),
     Call("get", Local, 2, Absent, Absent),
     Call("health", Public, Absent, Absent, Absent)}
MCAlone ==
    MCRefused \cup {Call("get", Public, Bad, Absent, Absent),
                    Call("delete", Public, 4, Absent, Absent),
                    Call("liveness", Public, Absent, Absent, Absent)}
MCCallsOf ==
    w :> {Call("create", Allowed, Absent, NewBody, Absent),
          Call("update", Allowed, 3, [NoBody EXCEPT !.name = 0], Absent),
          Call("delete", Allowed, 2, Absent, Absent)}
 @@ [r \in MCReaders |-> MCRead \cup MCAlone]

MCInitVersion == 1

MCOneEnvironment == {Production}
MCFirstCalls ==
    w :> {Call("update", Allowed, 1, [NoBody EXCEPT !.name = 0], Absent)}
 @@ l :> {List(Allowed, Query("name", <<>>))}

MCSymmetry == Permutations(Replica) \cup Permutations(MCReaders)
MCFirstSymmetry == Permutations(Replica)
=============================================================================
