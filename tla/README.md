# Verification of the scoreboard and the resource service

TLA+ models of the programs in this repository, model-checked with TLC and, where
it matters most, proved with TLAPS. The repository holds three of them:
`problem6`, a live scoreboard (NestJS, Postgres, Redis, NATS JetStream);
`problem5`, a resource CRUD service whose replicas share a Redis cache in front of
Postgres; and `problem-4`, three ways to sum integers. Modelled are the write path of
the scoreboard, the outbox publisher that announces its writes, the boot that
rebuilds the leaderboard, the streams that show it, and the resource service from
its configuration to its shutdown.

Paths below are under `src/`; `S/` stands for `src/problem6/src/scoreboard/`, `R/`
for `src/problem5/src/`.

## 1. Inventory

| Component | Code | State | Operations | Status |
|---|---|---|---|---|
| Score write path | `S/application/commands`, `S/domain`, `S/infrastructure/persistence/kysely`, migrations | tables `score_events`, `user_scores`, `outbox_events` | `POST /v1/scores:increment` | modelled |
| Action tokens, guards | `S/infrastructure/auth` | Redis `idempotency:action:<id>` | issue, verify, consume | in the write path |
| Write rate limiter | `S/infrastructure/rate-limit` | Redis `rate:user:<id>`, a per-process counter | consume | outcome only |
| Leaderboard cache | `S/infrastructure/persistence/redis` | Redis ZSET `leaderboard:global` | upsert, getTop, getRank | in the write path and the publisher |
| Outbox leader election | `S/infrastructure/outbox` | Redis `outbox:lock`, `running`, `isLeader`, the heartbeat timer | acquire, renew, relinquish, release | modelled |
| Outbox publisher | `S/infrastructure/outbox`, `S/infrastructure/messaging/nats/jetstream.event-publisher.ts` | `published_at`, the coalescing buffer, the last published top, the stream and its duplicate window | poll, publish, mark, drain | modelled |
| Leaderboard rebuild, readiness | `S/infrastructure/persistence/redis/leaderboard-rebuilder*.ts`, `shared/readiness` | Redis `leaderboard:rebuild:lock`, `leaderboardReady` | boot hook: ZCARD, lock, SELECT, ZADD batches, DEL | modelled |
| JetStream subscriber, stream bootstrap | `S/infrastructure/messaging/nats` | stream, consumer of each instance | boot hooks, consume loop, shutdown | modelled |
| SSE stream | `S/interface/http/controllers/leaderboard-stream.controller.ts` | `currentConnections`, `openStreams`, `pendingMessages`, `bufferFullSince` | connect, snapshot, subscribe, write, cleanup, slow-client timer | modelled |
| Leaderboard query, health | rest of `S/interface`, `S/application/queries` | none | reads | `/ready` only |
| Errors, metrics, logging, configuration of problem6 | rest of `problem6/src` | none of interest | | outcomes only |
| Cached repository | `R/modules/resources/infrastructure/cached-repository.ts`, `R/infrastructure/cache/singleflight.ts` | Redis detail and list entries, list version; flights of each replica | get, list, create, update, delete | modelled |
| Repository, cursors | `R/modules/resources` | table `resources` | CRUD, keyset pagination | modelled |
| Rate limit, configuration | `R/middleware/rate-limit.ts`, `R/config/env.ts` | a counter in Redis | parse, check, skip, count | mostly |
| Errors, responses | `R/shared`, `R/middleware`, `R/infrastructure/db/error-mapper.ts` | none | map, wrap, answer | mostly |
| Boot, shutdown, health | `R/index.ts`, `R/shared/shutdown.ts`, `R/shared/health.ts` | phase of each replica | boot, connect, SIGTERM, exit, probe | mostly |
| `sum_to_n` | `problem-4/solution.ts` | none | | not modelled |
| Scripts, benchmarks, load tests | `problem6/scripts`, `problem5/benchmarks` | | | not modelled |

How they interact. A request passes the JWT guard, the action-token guard (which
spends the token in Redis), the rate limiter and the body schema; the handler reads
the user's row, computes a total, runs the transaction, then writes the ZSET and
answers. The transaction leaves two rows in `outbox_events`. Of all instances, the
one that holds `outbox:lock` polls that table: it publishes each
`score.credited` row, and coalesces the `leaderboard.updated` rows of a window into
one message that carries the top 10 it reads from the ZSET. Every instance consumes
that subject and pushes it to its SSE clients. Before an instance serves, its boot
hooks create the stream and its consumer and, when the ZSET is empty, rebuild it from
`user_scores` under a lock with a TTL.

A request to the resource service passes the rate limiter (a counter in Redis), the
body parser and the schemas; then, when caching is enabled, the cached repository
looks in Redis. Rows are cached under their id; pages under a key made of the list
version and the normalised query. A read that misses runs in a flight that later
readers of the same key and replica join. A write runs its statement, deletes the
row's entry and increments the list version.

What is hard. Requests interleave at every await, and share only Postgres and Redis.
Redis may fail, lose its data or expire a key; Postgres may fail, before or after
the commit. Instances crash, stall and shut down in the middle of a batch. The lock
is a lease whose renewal and release are two calls each. The stream drops what it
takes for a duplicate and acknowledges it. A rebuild runs beside handlers and other
rebuilds, and its lock may expire under it. A stream is released by whichever of a
write error, a close and a timer comes first. In the resource service every call of a
read or a write to Redis may fail and is swallowed, writes at one replica race reads
at another between the version, the page and its storing, and a client's walk over
pages sees pages cached at different times. `PROJECT.json` lists each hazard at its
line, with the properties that would notice it going wrong.

## 2. Modules

| Module | What it is |
|---|---|
| `CreditLedger` | abstract specification of the write path: credit once, acknowledge once |
| `IncrementScore` | the write path, from the action-token guard to the response |
| `OutboxLease` | leader election: lock, loops, heartbeat, shutdown, restarts |
| `OutboxPublisher` | the batches, on top of `OutboxLease`, with outbox, ZSET and stream |
| `LeaderboardBoot` | boot hooks: stream, consumer, the rebuild under its lock; the handlers' credits beside it |
| `LeaderboardStream` | extends `LeaderboardBoot` with the consume loops and the SSE streams |
| `ResourcePages` | filters, order, cursors, pages, cache keys, schemas and rows: functions of table and query |
| `ResourceErrors` | error classes, the mapping of SQLSTATEs, the response an error becomes |
| `RateLimit` | CIDR parsing, masks, the checks at boot, which requests are not counted |
| `ResourceService` | replicas, requests, flights, Redis and Postgres, on top of the three above |
| `IncrementScoreProofs`, `OutboxLeaseProofs`, `OutboxPublisherProofs`, `LeaderboardProofs`, `ResourceServiceProofs` | theorems about the module each is named after |
| `ResourceWalkProofs` | the theorem about walks over pages, on top of `ResourceServiceProofs` |
| `RateLimitProofs` | masks and blocks of addresses, and the theorem about the limiter's configuration |
| `SumTheorems` | lemmas about the sum of the deltas of a finite set |
| `MCIncrementScore`, `MCOutboxPublisher`, `MCLeaderboard`, `MCResourceService` | values of constants and symmetry for TLC |

Definitions whose comment begins with *Mutant* are not used by the specifications.
They are plausible bugs: put in the place of the definition that follows them, each
makes TLC report a violated property. They show that the property can fail.

### IncrementScore

One action is the code between two awaits. `pc[r]` is where request `r` is:

| `pc` | next step of the code |
|---|---|
| `verify` | `HmacActionTokenVerifier.verify` (`VerifyToken`) |
| `consume` | `SET idempotency:action:<id> NX` (`ConsumeKey`, `ConsumeKeyFails`) |
| `limit` | rate limiter and body schema (`Admit`, `Limit`) |
| `find` | `findByUserId` and `aggregate.credit` (`FindUser`) |
| `begin` | the statements of the transaction, which wait for open transactions that hold the same user row or action id (`TxWrite`) |
| `commit` | `COMMIT` (`TxCommit`, or `TxCommitAckLost` when only its answer is lost) |
| `replay` | the answer to a repeated action (`Replay`) |
| `upsert` | `ZADD` of the total computed at `find` (`CacheUpsert`, `CacheUpsertFails`) |
| `answer` | reads of rank and top, the response (`Answer`) |

A request fixes its user, action and delta at the start: a client's retry is another
request with the same body, sent at any time. Requests are processes, whichever
instance serves them; `Crash(r)` ends one of them anywhere, which includes what the
crash of an instance does to all of its requests. A transaction's statements are one
step: it holds the row and the index entry from then to its end, and what it wrote
is not visible before the commit. The uncommitted writes are therefore not kept but
applied at the commit; the delta is added to the row as it is then, which is what the
upsert under the row lock does. `creditTotal` and nothing else is a history variable.

### OutboxLease

Each instance has its outer and inner loop (`loop`), its heartbeat timer and the
ticks that are between their GET and their SET (`timer`, `tick`), and its shutdown
hook (`stop`). There is no clock. The lock may expire in any state in which
nobody renews it (`Expire`). Somebody does (`Renewed`) while the owner's heartbeat runs
and none of its ticks has failed since the key was last set: ticks are ttl/2 apart, so
one that fails (`HeartbeatFails`, which the code only logs) leaves the key `overdue`, and
it may run out under a leader that goes on. That it goes away under an owner that does
renew it is a fault (`Lapse`), as when the event loop stalls for more than the TTL or Redis
loses the key. Three history variables are kept of the key: `overdue`; `lapsed`, that it
vanished while its owner relied on it or that a drain gave up; and `unseen[i]`, that it went
from `i`, however that came about, and no tick of `i` has read so yet. An instance's id is a new UUID in each process, so a lock left by a process
that ended belongs to nobody (`Dead`).

All commands of one process go through one Redis connection, which answers in the
order of the commands; that is why the DEL of the shutdown cannot overtake the SET of
a tick that has already read the key (`ReleaseDel` waits for it).

### OutboxPublisher

`at[i]` is the call that instance `i`'s batch makes next: `fetch` (SELECT),
`publish` and `mark` for each credited row, `readTop`, `publishTop` and `markTop`
for the drain of a window. Every call may fail, with or without its effect. Rows
have the ids the sequence gives them, and become visible in any order. The
`leaderboard.updated` rows join `buffer`; `Hold` and `Drain` are the two outcomes
of the window check. The stream keeps the ids of the duplicate window (`dedup`),
which `Forget` empties when it passes.

The top 10 is a version number: what the properties ask is whether the top that was
published is the last one, or older than one published before. `getTop` is shared
by concurrent callers, so a drain may be given the result of a read that began
earlier (`flight`, `OtherRead`). Only reads begun in the same batch are kept. Those
begun earlier in the same leadership saw at least what the instance published last,
and those begun before it are over: the process has one connection to Redis, which
answers them before the SET NX of the acquisition.

The refinement of the lease is by construction of names, but not of behaviour: that
every step of the publisher is a step of `OutboxLease` or leaves it unchanged is
theorem `PublisherImplementsLease`.

### LeaderboardBoot and LeaderboardStream

`phase[i]` is where instance `i` is in its boot: `nats` while the hooks of the
messaging module run (`hooks`, both at once and in either order), then `zcard`, `lock`,
`select`, `zadd` and `unlock`, the awaits of the rebuild, and `up` when it listens.
`work` are the rows a rebuild has read and not yet written; each batch takes the first
`BatchSize` of them. A handler of an instance that is up commits a credit (`Commit`)
and does its ZADD later (`Upsert`). The lock may expire at any time (`LockExpires`), Redis
may lose its data, every call may fail, and an instance may go down at any step.

`LeaderboardStream` numbers the messages; a frame carries the number of the last
message whose top it shows. `read[i]` is the read of the top that streams starting
together share. `stage[c]` is a request's way: `wait` for the snapshot, `open`,
`closed`. `wire` is what was written to the socket and not flushed, `pending` is
`pendingMessages`, which drops its oldest member at the cap although the socket still
holds the frame. `full` keeps of `bufferFullSince` whether it is recent or long ago. A
client may leave, stop reading and read on (`ClientMoves`); that it left is one step,
that the server hears of it another (`CloseEvent`), which only a stream that has
registered its listener does.

`focus` splits the behaviours in two: those about boots, and those about the streams of
one instance that is up. The stores and processes are the same; of what a
stream's behaviour does, the boot's state knows only a consume loop that ends and an
instance that stops.

### ResourceService

`at[r]` is the call request `r` makes next: `limit`, `insert`, `update`, `delete`,
`del`, `bump`, `select`, `detailGet`, `versionGet`, `listGet`, `health`, or `wait` for a
flight. A flight is named after the request that started it (`flight[f]`): its key,
whether it still reads or stores what it read, whether it is still shared (a timeout
frees the key and answers the waiters, and the read goes on), and who waits. One
action is the code from the answer of one call to the next call. `Walkers` are clients
that follow `nextCursor` to the end, at whatever replica.

A deployment has one environment (`env`), read by every replica. SIGTERM calls all
hooks at once, as `ShutdownManager` does: calls issued from then on fail (`severed`),
requests under way are answered or cut off at the timeout (`ForceExit`).

What a layer may refuse is kept apart by who refuses it: the body parser
(`ParserErrors`, of which `error-handler.ts` knows two), the router, which cannot decode an
id with a bad %-escape (`Garbled`), the schemas (`Bad`), the cursor's codec
(`CursorAccepted`) and Postgres. `Unfit` stands for the values that all layers take and
Postgres does not: U+0000 in a text, in a filter or in metadata, half a surrogate pair in
metadata, a cursor's time out of range, a cursor's id that is no uuid. `BodyErrors` and
`QueryErrors` give the SQLSTATEs; the statement is then refused (`StatementRefused`, or
`ReadErrors` for a read) and changes nothing. `misled` is a history variable: the requests
whose GET of the list version failed while the version was no longer 1, which is what
`readListVersion` then returns.

`ResourcePages` keeps two clocks: Postgres counts microseconds, a `Date` and so a cursor
milliseconds (`UsPerMs`). Names and times are numbers, other columns members of small
sets; `metadata`, an opaque JSON column, is one value. `RateLimit` has addresses of
`AddrBits` bits; shifts and masks are those of words of that width, a shift by the width
being a shift by nothing, as in JavaScript.

## 3. Properties and runs

| Run | Instance | Properties |
|---|---|---|
| `IncrementScore` | 2 users, 2 actions, 3 requests, all faults, 1 loss of Redis, deltas 0 and 1 | `TypeOK`, `ScoreIsSumOfEvents`, `OutboxMatchesEvents`, `CacheNeverAhead`, `AnswersAreDurable`, `CreditsAuthorised`, `OneRequestPerToken` |
| `IncrementScoreLive` | 1 user, 2 actions, 2 requests, all faults | `LedgerSpec` (refinement), `EveryRequestAnswered` |
| `IncrementScoreStaleCache` | 1 user, 2 requests, no fault | violates `CacheCatchesUp` |
| `IncrementScoreSnapshot` | the same | violates `OutboxCarriesNewScore` |
| `OutboxLease` | 2 instances, each restarted once, 2 faults, 2 ticks in flight | `LeaseTypeOK`, `ExclusiveUnlessLapsed`, `LossEndsBatches`, `SplitBrainHeals`, `SomeoneLeads` |
| `OutboxLeaseSteal` | 2 instances, 1 fault | violates `HeartbeatExtendsOwnLock` |
| `OutboxPublisher` | 2 instances, 2 credits, 1 error | `PubTypeOK`, `MarkedIsDelivered`, `TopNeverRegresses` |
| `OutboxPublisherLive` | 1 instance restarted once, 2 credits, 1 error, a batch of 3 rows for 4 | `EveryCreditAnnounced` |
| `OutboxPublisherTop` | 1 instance, 1 credit, no error | violates `TopReachesStream` |
| `Leaderboard` | 2 instances, 3 users, 1 credit, 1 fault; 2 clients on 1 slot or 2, 2 pending frames, 2 messages | `BootTypeOK`, `RebuildsExclusive`, `ReadyMeansCovered`, `SlotsAreAccounted`, `BootEnds`, `SlotsComeBack`, `StalledClientsAreCutOff`, `ClientsSeeLastTop` |
| `ResourceService` | 2 replicas, 3 rows of one name, pages of 2, a writer, 2 other requests, 42 environments, 1 fault | `TypeOK`, `CurrentPagesAreFresh`, `WaitersHaveATimer`, `WalkDeliversOnce`, `RepliesHaveCauses`, `LimiterMatchesConfig` |
| `ResourceServiceFirstWrite` | 2 replicas, an update and a list, no list version at the start, no fault | violates `CurrentPagesAreFresh` |

Why these bounds are enough to mean something. Three requests over two actions give
a first attempt, its retry and an unrelated request of the same or another user;
`ScoreMax` and `MaxSafe` are so small that the second and third credit cross them.
A body with delta 0 reaches the schema and one with delta 2 exceeds the token's cap.
Two instances suffice for every race on a lock; two credits give rows that commit
in the wrong order, two windows and two tops. A batch of three of four rows makes the
LIMIT bite. The safety run of the publisher has no lease fault, so that its leaders
take turns; batches that run at the same time, as those of a leader that has lost its key
and of its successor do, are covered by the proofs below, which hold for any constants, and
the loss of exclusion itself by `OutboxLease`.

`Leaderboard`: three users with `TopN` 2 and `BatchSize` 1 give a rebuild of two batches
that leaves one user out; the ZSET is empty at the start or holds what a rebuild that
died after its first batch left. Two instances race for the lock, and one fault is a
failing call, a crash or a loss of Redis at any step. One slot (`MaxConn`) and two
clients make the cap bite; two messages and `MaxPending` 2 fill the bookkeeping of a
client that stops reading. The clients of a behaviour connect to one instance (`focus`, one
of `Streamers`; the other adds nothing to a stream but its own copy of it), and the two
instances are configured differently: one has a slot, the other two, so that both clients
may share one read of the top, which may be older than what is emitted before the second
one subscribes. `Restless` names the client that may leave or stall.

`ResourceService`: three rows of one name and pages of two, so that every walk has a second
page and its boundary is a tie that only the ids break. Between the pages the writer moves
the last row to the front, deletes the row the cursor stands on or inserts one. The other two
requests are alike (`MCReaders`): each walks the list, reads a row or probes, so that the
pages of one walk, second page included, come from the cache, from a read shared with the
other, or from the table, at either replica. A request that some layer refuses
(`MCRefused`) or that touches nothing is the only one of its behaviour (`Alone`): bodies the
parser refuses with an error the program knows and with one it does not, bodies the schema
refuses, bad and garbled ids, cursors of another sort, and for every SQLSTATE a body, a
cursor or a filter that Postgres refuses. Requests are sent only under two of the
42 environments (`Traffic`): a production one with cache and limiter, and a plain one
without; the others only boot, and there `ConnectFails` may happen. They are chosen
around the edges of the masks: prefixes 0 to `AddrBits` + 1, none and not a number, for
two addresses, in production and not, and IPv6 entries. Requests are sent when no
replica is still booting (`Serving`): what a replica that has not booted changes of
another is nothing. One fault is a failing call, a timeout or a SIGTERM anywhere;
`RateLimitMax` 1 refuses the second counted request of a window. `DbErrors` is a lost
answer, whose statement may or may not have had its effect.

Deadlock is not checked in any run: requests end, credits are bounded, and instances
may all be down.

Symmetry is used in safety runs only (`IncrementScore`, `OutboxPublisher` and the two of
`ResourceService`), over sets whose members no
definition distinguishes.

Fairness. `IncrementScore`: a request that can go on does (the event loop and the
servers answer; failing is never forced). `OutboxLease`: keys expire, loops, timers
and hooks of a live process run, and batches end because every call has a timeout;
nothing obliges a process to start, stop or fail. `OutboxPublisher` adds that a batch
goes on, that a handler goes on from its commit to its upsert, and strong fairness of
`Drain`: coalescing windows end, so a batch that keeps reaching the window check finds
a new window now and then. The liveness properties of the publisher and the lease
assume that some instance stays up from some time on. `SplitBrainHeals` also assumes
that ticks do not overlap for ever: the code starts one each TTL/2, and a tick is two
calls to Redis. `LeaderboardStream`: a boot that goes on does, the answer of a read
arrives, a live loop gets its messages, and the socket's events and timers are handled
(`setInterval`, `close` and write callbacks are run by the event loop); a client is never
obliged to read, to stay or to leave, and nothing is assumed of the TTL of the rebuild
lock, so that `BootEnds` cannot lean on it. `ResourceService` states no fairness: its
properties are safety properties, and `WaitersHaveATimer` is the safety half of "every
reader is answered".

### What the code does not do

Five runs end in a counterexample to something the documentation or a comment says.

* `CacheCatchesUp`. The README (6.3) describes the ZSET as eventually consistent with
  Postgres. The handler writes a total computed before its transaction, with no
  guard against an older value, and nothing repairs it until the user's next credit:
  two concurrent credits leave the leaderboard too low for good. It is never too high
  (`CacheNeverAhead`).
* `OutboxCarriesNewScore`. For the same reason two concurrent credits announce the
  same `newTotal`.
* `HeartbeatExtendsOwnLock`. The check-then-SET of the heartbeat does not protect
  against the race its comment names. The damage is bounded: an instance that lost its key
  begins no batch once a tick has read the loss (`LossEndsBatches`), and a split brain ends
  (`SplitBrainHeals`).
* `TopReachesStream`. The drain may read the ZSET before the handler's ZADD, and
  marks the row that would have announced it. A second way to the same end is a retry
  whose first attempt did reach the stream: the message id is that of the row, so the
  newer top is dropped as a duplicate (`outbox.publisher.service.ts:254`).
* `ResourceServiceFirstWrite`. `cache-invalidation.md` says that after an increment no
  request asks for an old key again. While the version's key does not exist readers
  assume 1, and the first INCR makes it 1: a read that began before that write stores
  its old page under the key every later reader asks for, until the entry expires. With
  the key present from the start (`InitVersion` 1 in the `ResourceService` run, and the
  premise of theorem `CachedPagesAreFresh`) it does not happen. A loss of Redis brings
  the same state back; the property speaks of states in which no increment was lost
  (`intact`).

Behaviours met while modelling that no property forbids, because the code has them and
its documentation, where it speaks of them, says otherwise or nothing:

* A rebuild writes totals it read earlier, so that it may overwrite a newer ZADD with an
  older total; a rebuild that died half-way leaves a ZSET that the next boot finds
  populated; an instance that does not get the lock reports ready at once, before the
  other has finished (`problem6/openspec/specs/scoreboard-leaderboard/spec.md:95-99`).
  `ReadyMeansCovered` says what remains.
* A consume loop whose iterator ends is not restarted (`jetstream.subscriber.ts:90`), and
  `/ready` does not ask whether there is one; a consumer added before the stream exists
  fails for good. `ClientsSeeLastTop` excepts the instances it happens to.
* A message emitted between the read of a snapshot and the subscription does not reach the
  client, and a client that joins a read that began before the message is shown the old top
  even if it asked later. `ClientsSeeLastTop` excepts such clients until their next message.
* One failed heartbeat tick is only logged (`outbox.publisher.service.ts:146-150`), yet the
  key then runs out under a leader that goes on: two instances publish, though Redis was
  away for a single call. `ExclusiveUnlessLapsed` counts it as a lapse; `LossEndsBatches` and
  `SplitBrainHeals` say what remains.
* A message given again shows an older top until the next one.
* `pendingMessages` drops its oldest entry but the socket keeps the frame: the "drop" is
  one of bookkeeping only.
* Cursors carry milliseconds, the table microseconds: rows within a millisecond can be
  repeated or skipped when sorted by time (`problem5/openspec/specs/resources-management/spec.md:187`
  promises cursor stability). `WalkDeliversOnce` is about sorts by name.
* Some inputs no layer has an error for get a 500, though the fault is the client's:
  U+0000 in a text or a filter (SQLSTATE 22021), U+0000 or half a surrogate pair in
  `metadata` (22P05, 22P02), a cursor whose time is out of Postgres's range (22008) or whose
  id is no uuid (22P02; `spec.md:181-185` of the same directory says that an invalid cursor
  gets a 400), what the body parser refuses for its charset, encoding or length
  (`error-handler.ts:16-25`), and an id with a bad %-escape. `RepliesHaveCauses` names them
  (`Unforeseen`) and holds every other request to its cause.
* A read of one row that missed before an update's DEL may store the old row after it
  (`cached-repository.ts:116`); its TTL bounds that.
* A write whose statement was applied but whose answer was lost invalidates nothing.
* A failed GET of the list version reads as version 1 (`cached-repository.ts:242`), under
  which pages of long ago may still be stored: a walk that asks for its second page so may
  skip or repeat rows. `WalkDeliversOnce` excepts the walks this happened to (`misled`), and
  no others.
* `ShutdownManager` calls all hooks at once, so a planned restart fails requests whose
  next call comes after the pool or Redis was closed.

## 4. Proofs

All theorems hold for every value of the constants that satisfies the named
assumptions (`ConstantsAssumption`, `LeaseAssumption`, `PublisherAssumption`,
`BootAssumption`, `StreamAssumption`, `RateLimitAssumption`, `ServiceAssumption`), which only
say that bounds are naturals, that tables, calls and CIDR entries are well formed and that
special values differ; `ServiceAssumption` also says that Postgres, when a statement fails, does
not blame a constraint of the table for it. Three theorems have a premise of their own, which the
table names.

| Theorem | Statement |
|---|---|
| `IncrementScoreProofs!TypeCorrect` | `Spec => []TypeOK` |
| `IncrementScoreProofs!CreditsAreAuthorised` | `Spec => []CreditsAuthorised` |
| `IncrementScoreProofs!CacheAndAnswersFollowPostgres` | `Spec => [](CacheNeverAhead /\ AnswersAreDurable)` |
| `IncrementScoreProofs!AnswersAreKept` | `Spec => []AnswersAreDurable` |
| `IncrementScoreProofs!TokensAreSpentOnce` | `Spec => []OneRequestPerToken` |
| `IncrementScoreProofs!TotalsAddUp` | `Spec => []ScoreIsSumOfEvents` |
| `IncrementScoreProofs!OutboxIsExact` | `Spec => []OutboxMatchesEvents` |
| `IncrementScoreProofs!ImplementsLedger` | `Spec => LedgerSpec` |
| `OutboxLeaseProofs!LeaseTypeCorrect` | `LeaseSpec => []LeaseTypeOK` |
| `OutboxLeaseProofs!PublishersExclude` | `LeaseSpec => []ExclusiveUnlessLapsed` |
| `OutboxLeaseProofs!LossIsFinal` | `LeaseSpec => LossEndsBatches` |
| `OutboxPublisherProofs!PublisherImplementsLease` | `Spec => LeaseSpec` |
| `OutboxPublisherProofs!PublisherTypeCorrect` | `Spec => []PubTypeOK` |
| `OutboxPublisherProofs!NoCreditLost` | `Spec => []MarkedIsDelivered` |
| `OutboxPublisherProofs!LeaderboardInOrder` | `Spec => TopNeverRegresses` |
| `LeaderboardProofs!BootTypeCorrect` | `Spec => []BootTypeOK` |
| `LeaderboardProofs!RebuildsAreExclusive` | `Spec => []RebuildsExclusive` |
| `LeaderboardProofs!ReadyIsCovered` | `Spec => []ReadyMeansCovered` |
| `LeaderboardProofs!SlotsAddUp` | `Spec => []SlotsAreAccounted` |
| `ResourceServiceProofs!WaitersAreAnswered` | `Spec => []WaitersHaveATimer`, if `Absent` is not the record of a flight |
| `ResourceServiceProofs!ServiceTypeCorrect` | `Spec => []TypeOK` |
| `ResourceServiceProofs!CachedPagesAreFresh` | `Spec => []CurrentPagesAreFresh`, if `InitVersion` is a positive number |
| `ResourceServiceProofs!RepliesAreCaused` | `Spec => []RepliesHaveCauses` |
| `ResourceWalkProofs!WalksDeliverOnce` | `Spec => []WalkDeliversOnce`, if `InitVersion` is a positive number, `AbsentIsNoPage` and `WalksBegin` |
| `RateLimitProofs!LimiterFitsConfig` | `Spec => []LimiterMatchesConfig` |

*IncrementScore.* The types need `CmdValid` (past the schema, a delta is in range) and
`ReplayKnown` (a request in `replay` has met a recorded action). Authorisation is
carried from the guard to the commit by `RequestsAuthorised`; tokens keep their claims
(`TokenKeepsClaims`). That a token is spent once needs `GuardInv`: whoever is past the
guard left a key that is still there while the token lives and Redis keeps its data,
and `PastTheGuard` says that the only way in is to write a key that was not there. For
the cache, the invariant is `TotalsInv`: before its commit
a request's `total` is at most its user's row plus its delta, from the commit on at
most the row, because the row only grows. `OnceInv` says that of the requests with
one action id at most one has an open or a committed transaction, that open
transactions are of different users, and that an action with an open transaction is
not recorded yet; it gives the exact outbox (`OutboxInv`) and, with the other parts,
that every step is a step of the ledger or a stutter.
`TotalsAddUp` needs that the sum over a set with one more event is the sum plus its delta
(`SumOfOneMore`). The sum is a fold, a recursive function over subsets, and no induction
theorem can be used; `SumTheorems` takes a smallest subset that contradicts the claim
instead, which exists because cardinalities are well-founded. The invariant (`SumInv`) is
that the events are a finite set and that each user's row is the sum of the user's events.

*OutboxLease.* `ExclusiveUnlessLapsed` is not inductive: nothing in it says why the
second instance has no batch. `OwnsUnlessLapsed` does: until the first lapse, an
instance that publishes or may start to, that has just acquired the lock, has a tick
in flight or is about to delete the key is the value of the lock, and its hook is not
past its wait while it has a batch. `LeaseShape` adds that a process that is down has
no hook and one that shuts down does not poll; with both, each action preserves the
whole. `LossIsFinal` has an invariant of its own (`LossUnseen`): an instance that leads and
is not the lock's value has not been told, which every way the key may go (`PutKeyUnseen`)
and every answer of a tick keeps.

*OutboxPublisher.* The lease's invariant is inherited through
`PublisherImplementsLease`. `NoCreditLost` rests on `DedupInv`: an id of a credited row
in the duplicate window is an id in the stream. It holds because the leaderboard
messages take their ids from the buffer, which never holds a credited row.
`LeaderboardInOrder` uses that what a leader has read and may still publish is at
least as new as what is published (`ReadsAreFresh`) and not newer than the cache
(`ReadsAreOld`); another leader could break it only if both had a batch. That a finite set of ids has a smallest and a largest element, which
the id arithmetic needs, is derived from the well-foundedness of the naturals.

*LeaderboardProofs.* `NextShape` folds a step of the whole into what the boot sees of it:
an instance's own step, a handler's write, the lock's expiry, a loss of Redis, or
something aside. `BootTypes` adds to `BootTypeOK` what rows and scores are. For exclusion
the missing fact is `RebuilderHoldsLock`: until the lock goes under a rebuild, whoever
rebuilds is the lock's value; `RebuildsExclusive` follows since one value cannot be two
instances. For `ReadyMeansCovered` the invariant is `Covers`, one clause per phase: the
users a rebuild has selected are on the leaderboard or among the rows it still holds,
and from the last batch on they are on it. It is kept because the ZSET only gains members
while Redis keeps its data (`HoldersGrow`), whoever else writes, and because a batch moves
users from the rows in hand to the ZSET (`BatchIsKept`). The slots need that the slots
held at an instance are a finite set and that a stream that waits or is open has a host
(`SlotInv`).

*ResourceServiceProofs.* `ShapeInv` is the common ground: field types, that a request at
a step has a call that fits it (`CallFits`), and that a flight that is shared or reads
belongs to a request it fits (`FlightFits`). `StepShape` sorts the steps into a few
kinds (a request arrives, goes on, looks into the cache; a flight takes a turn; a replica
exits), and each kind has a lemma that says what it leaves alone; the proofs about steps
then go through kinds instead of thirty actions. `WaitersAreAnswered` is inductive given
the shape. For `CachedPagesAreFresh` two facts are added (`CacheInv`). `VersionsPast`:
until an increment is lost, no entry, no reader and no flight has a version above the
current one. `PagesFresh`: when every committed write has been counted, entries and
flights about to be stored under the current version hold the page the table gives. A
commit makes the second one void until its increment, and the increment leaves
everything under an older version by the first. That two queries with one key have one
page is `KeyDeterminesPage`. The premise on `InitVersion` is needed: the run
`ResourceServiceFirstWrite` is the counterexample without it.

`ServiceTypeCorrect` has one substantial conjunct, the table: no two rows have one id, and no
row has an id that was never given, which an insert keeps because it takes an unused id and
a lost answer because the statement had its effect or had none. `RepliesAreCaused` keeps for
every request that its reply is accounted for (`Accounts`) by its call and by what has
happened to it (`RepliesInv`); the case that needs care is a reply that a flight gives to
those who wait for it, which may only be laid at their door because they asked the same
question (`WaitersAsk`), so that the same cursor is bad for all of them. A reply to
what was refused before any call, or by Postgres for its values, is accounted for by the
call alone (`RefusalAccounts`, `ValueAccounts`): it is a 400 of the layer that has one, or
the 500 of an unforeseen input; and two queries with one key are refused with the same
(`KeyDeterminesRefusal`). A statement that fails is another matter, and there the theorem
uses `ServiceAssumption`'s clause on `DbErrors`: no constraint refuses what the schemas took,
because the columns that are not null are given, the widths of the columns are those of the
schemas (`0001_create_resources.ts`), ids are Postgres's own, and there is no foreign key.

*ResourceWalkProofs.* Three layers. `PageServes` is what one page says of one row to those
who asked for it: the page has the row unless the row is behind the cursor, and the page's
own cursor is past exactly the rows that were passed before or are on it. It follows
(`PagesServe`) from the order of the rows being total, which the ids guarantee, and
from a finite set of rows having a last one, again by a smallest counterexample. `ViewInv`
carries it through the cache: every page stored or about to be stored under a version that
a walk may still ask for serves each row the walk counts on, although the table has
changed since; a write that touches such a row takes it out of `steady` at the same time.
The rows counted on are `Relied`: those of `steady`, and none for a walk that was misled.
`WalkInv` says that the walk has seen what its cursor has passed, once, and that the page it
is about to be given extends this. The premises: `InitVersion` is positive, as for
`CachedPagesAreFresh`; `AbsentIsNoPage`, that the value for "nothing" is no cursor and no page;
`WalksBegin`, that a client that lists by name begins with the first page (a request with a
cursor of its own may skip whatever that cursor is past) unless the cursor is refused. The
calls of the `ResourceService` run satisfy it.

*RateLimitProofs.* The state's part is short: only `Boot` lets a replica past its
configuration, and only if the configuration is accepted (`Configured`). The rest is
arithmetic, for every `AddrBits`, and so for 32. A mask is `2^AddrBits - 2^k`
(`MaskOfPrefix`), its bits are known (`MaskBits`), hence a word under it is the word
less its remainder by `2^k` (`AndWithMask`), and two words are equal under it if and only if
they have the same quotient (`MaskedIsBlock`). `And` is a recursive function over bits: the
function that the lemma claims is shown to satisfy its definition and to be the only one
that does. The provers know nothing of exponents; the recurrence of the powers of two
comes from the number of subsets of an interval (`PowersOfTwo`).

Only model-checked: the liveness properties (`EveryRequestAnswered`, `SplitBrainHeals`,
`SomeoneLeads`, `EveryCreditAnnounced`, `BootEnds`, `SlotsComeBack`, `StalledClientsAreCutOff`,
`ClientsSeeLastTop`), since fairness and ENABLED are out of reach of the prover. Every
invariant of a passing run and its safety action properties are also theorems, and so are
both refinements (`LedgerSpec`, `LeaseSpec`).

## 5. What is not modelled, and what could follow

Abstracted in what is modelled: payloads, wording, metrics and logs; the limits of the
stream other than its duplicate window; heartbeats of SSE streams; the drift check of the
stream bootstrap, which only logs; the Retry-After numbers of the resource service.

Not modelled:

* The Lua token bucket and the per-process circuit of `problem6`'s write limiter: its two
  outcomes are steps of a request, its arithmetic is not.
* The float encoding of (score, time) in the ZSET: 53-bit floats are beyond small
  instances of TLC, and smaller floats would be another encoding.
* JWT signatures and the rotation of token keys, which are libraries' work.
* The leaderboard query handler: a stateless read of what is modelled where it is
  written. Metrics, logging, tracing and dependency wiring have no state a property is
  about.
* `sum_to_n`: three pure functions that nothing depends on.
* Scripts, benchmarks, seeds, load tests and migration tooling: not part of the running
  system.

What could follow: the Lua bucket against a reference bucket; a refinement of
`ResourceService` from a cache that may only forget; sorts by time in `WalkDeliversOnce`
with the repetitions a millisecond allows stated exactly.
