# Nudity detection service: a TLA+ verification project

The service answers HTTP requests with a verdict on an image. Around a
prebuilt classifier it consists of an HTTP route, image download and decoding,
a Kafka producer that reports every request, a configuration client for
Apollo, a client that keeps the service registered with Eureka, and a common
library with pools of MySQL and Redis connections and of threads and a
distributed lock. These modules model that code; paths below are relative to
`src/src/` of the repository.

## 1. Inventory

| Part | State | Operations | Interacts with |
|---|---|---|---|
| MySQL pool `common/mysql_conn_pool.*` | queue `conn_pool_`, counter `curr_pool_size_`, `version_`, `conn_properties_`, `monitor_flag_`; per connection its version and `auto_commit_` | construct, `GetConnection`, `ReleaseConnection`, `UpdateConfig`, `MonitorConnPool`/`KeepConnection`, destroy | callers, its own monitor thread, MySQL |
| MySQL operations `common/mysql_operation.*` | the transaction open in a session | `ExecuteUpdate(s)`, `ExecuteInsert(s)`, `ExecuteDelete(s)`, `ExecuteQuery` | the pool, MySQL |
| Redis pool `common/redis_conn_pool.*` | queue, `curr_size_` | construct, `GetRedisConn`, `ReleaseRedisConn`, destroy; `RedisClient` as RAII user | callers, Redis |
| Distributed lock `common/distribute_lock.*`, `common/redlock.*` | the key in Redis, `m_val`, `m_validityTime` | `Lock`, `Unlock`, the handle `RedisLock` | Redis pool, Redis, time |
| Apollo client `common/apollo_client.*` | `_notification_map`, `_stopping`, the Listener thread | `Start`, `LongPoll`, `UNCachedHTTPGet`, `Stop` | Apollo, the callback in `init_server.cpp` |
| Configuration table `common/conf_param.*` | `params_` | `SetValue`, `GetValue` | written by the Listener, read by every thread, no lock |
| Kafka client `common/kafka_client.*` | the producer, `m_topic_` | `Init`, `SetTopic`, `SendMsg` | main thread, Listener, workers |
| Request handling `image_interface.*`, `tal_interface.*`, `image_operation.*`, `common/file_download.*`, `microservice_demo.cpp`, `ai_model.cpp` | per request its image and code; shared `g_model_lock`, the classifier, `trim_count_` | one request from body to response | workers of the HTTP server, URL translation, image hosts, Kafka |
| Eureka client `3rdParty/eureka/eureka_client.*` (the service's own) | `m_thread_running`, `try_count`; at the registry an entry with a lease | `run`, `heartBeatTimer` with `registerEureka` and `sendHeartBeat`, `stop`, `stop_register` | main thread, Eureka, time |
| Service start and stop `service_main.cpp`, `init_server.cpp` | what is initialised, which signals end the process | `InitService`, `Listen` with `ConnectEureka`, `ReleaseService` | everything above, the HTTP server |
| Thread pool `Paas/ThreadPool.*` | `m_tasks` by level, `m_threads`, `m_isStarted`, two mutexes, three condition variables | `start`, two forms of `addTask`, `threadloop` with `take` and `eraseCurrentThread`, `stop` | producers; not started by the service |
| OSS client `common/ali_oss_client.*` | the SDK's global state | uploads | initialised and released by the service, otherwise unused |

What is hard here, and where it is listed as a hazard in `PROJECT.json`:

* **Counting by hand on error paths.** Both pools keep a counter of open
  connections that every failing step has to correct.
* **Unlocked parts.** `ReleaseConnection` compares versions and reopens
  before it takes the lock; the Apollo Listener and the main thread share the
  table and the Kafka client without any lock.
* **Condition variables.** `UpdateConfig` refills the MySQL pool without
  notifying; the Redis pool notifies one waiter only, who may be timing out.
* **Failure between two steps.** A fetch fails between a notification and its
  acknowledgement; a connection is lost inside a transaction; the reply to
  `SET` is lost; a download breaks off and is retried.
* **Sessions with a memory.** A pooled MySQL session carries its mode and its
  open transaction to the next user.
* **Waiting.** Destructors, `Stop` and `stop` join threads; `Unlock` needs a
  connection that competing `Lock` calls may have; all requests queue for one
  classifier; the thread pool joins with a mutex in its hands.
* **Two views of one fact.** The registry has its own opinion on whether the
  service is there: leases run out, requests that were given up arrive late,
  a restarted process has the same `instanceId` as the one before.

## 2. Modules

| Module | Models | Lines up with |
|---|---|---|
| `MySQLConnPool` | the MySQL pool | Everything under `lock_` is one step. `ReleaseCheck`, `ReleaseReopen`, `ReleaseStamp`, `ReleasePush` are the four parts of `ReleaseConnection`; `UpdateBegin/Write/Swap/End` those of `UpdateConfig`, so that unlocked readers see the states between. `Wake`/`Timeout` are the two ends of `cond_.wait_for`. |
| `MySQLOperation` | `ExecuteUpdates` on pooled sessions | one action per call on the connection: `GetConnection`, `SetSavepoint`, `ExecuteUpdate`, `Rollback`/`Commit`, `ReleaseConnection`. `Rollback` and `Commit` may return, raise on a connection that is kept, or lose it. The server is a set of committed effects; the client library's silent reconnect and its own view of the mode are part of a session. |
| `RedisConnPool` | the Redis pool | `GetRedisConn` with its three kinds of `timeout`, `ReleaseRedisConn` with `notify_one` |
| `BoundedPool` | what a pool promises: at most `Size` users at a time | abstract specification, implemented by both pools and used by `DistributeLock` |
| `DistributeLock` | `RedisLock` and `CRedLock` on one server | each command to Redis is a step; a thread keeps a pool connection for the whole call; a connection that cannot be reopened costs the pool a slot |
| `ApolloConfig` | Apollo client, callback, table, `InitKafka` | each access to state shared without lock is a step; two threads writing one string leave the value `Torn` |
| `ImageRequest` | one request from body to response | one step per stage of the route; `job` holds the locals; what an image is turns out when it is decoded; a body may make the JSON reader raise, in `ParseRequestBody` and again when the report is composed; a message to Kafka is its request, the source of its image, its code and whether the producer took it |
| `EurekaClient` | the registration thread, the network and the registry | one step per beginning and end of a transfer or sleep; `wait` and `lease` count seconds down together; `late` holds requests the client gave up; `url` says that the client was made with Apollo's settings, without which no request reaches the registry |
| `ServiceLifecycle` | the process from `main` to its end, composed with `EurekaClient` | one step per component of `InitService` and `ReleaseService`; `Terminate` is SIGTERM, before, during and after the server's life; `Restart` is the next life |
| `ThreadPool` | `Paas/ThreadPool` | what `m_taskmutex` covers is one step, except that `addTask` keeps it (`"grow"`) while it waits for `m_threadmutex`; sizes read without a lock are steps of their own |
| `*Proofs` | theorems about the module of that name, one for each module that is run; `ServiceLifecycleProofs` covers `EurekaClient` too, the pools' that they implement `BoundedPool` | section 5 |
| `MC*` | instances for TLC | constants, fault sets, symmetry |

`Faults` is a constant of every module: the set of external failures that may
happen. A run whose property depends on the absence of a failure says so in
its configuration. Definitions named `Mut_...` are deliberately wrong variants
of the definition they precede; nothing uses them in the specifications. They
document, through the `mutants` of `PROJECT.json`, which slip each property
would notice.

External parts are modelled from their use: MySQL and its connector, Redis,
Apollo, Kafka's producer, the URL translation, the classifier.

## 3. Runs

| Run | Result | Question |
|---|---|---|
| `mysql_pool` | holds | Is `curr_pool_size_` exact and bounded, does nobody sleep beside an idle connection, does `auto_commit_` tell the truth, is the pool a `BoundedPool`, and does its destructor return? |
| `mysql_idle_config` | **violated** | After `UpdateConfig`, are idle connections on the new settings? A release that tested the version before it still queues an old one. |
| `mysql_updates` | holds | With refused statements, rollbacks and commits, deadlock victims, lost connections and commits of unknown outcome: is success durable, is what was answered with -3 (rolled back) undone for good, is nothing committed after its call? |
| `redis_pool` | holds | Whatever dies: is no connection handed out twice, are never more in use than the size, and is `notify_one` enough for clients that wait without limit? |
| `redis_sleeper` | **violated** | Does `timeout < 0` wait only until a connection is there? A notification can be eaten by a client that times out. |
| `lock` | holds | Is a holder's unexpired key its own, does only the writer or expiry remove a key, is the reported validity wrong by less than a second, and does `Unlock` return when the last pool connection is with a retrying `Lock`? |
| `apollo_config` | holds | Is what is acknowledged also applied, unless its fetch failed; does the table converge; does `Stop` return? |
| `apollo_lost_update` | **violated** | Is a release never lost? One failed fetch is acknowledged anyway. |
| `request` | holds | Do labels belong to their request, does `E_OK` mean an accepted image, is the trim counter not skipped, is Kafka given what the client is told (nothing, when an exception ends in 500), and is every request answered? |
| `request_retry` | **violated** | Does a decoding error mean a bad image? Retries append to the leavings of a broken download. |
| `service` | holds | Does the lease outlast two slow heartbeats, is the entry taken back before anything else is released, does a serving process that knows the registry get a lost entry back, and does SIGTERM end the process? |
| `thread_pool` | holds | Is one notification per push enough although workers leave on stale sizes, are the bounds on workers kept, does everything that waits get in and get taken, and does `stop` return except for three named reasons? |

The findings in `PROJECT.json` quote the line of the repository each violated
property comes from.

### Further departures in the models

These behaviours are in the modules and, with the two exceptions named, the runs
reach them; no run is devoted to them. The definition in brackets is where to
look.

* The monitor thread of the MySQL pool starts before `monitor_flag_` is set and
  may end at once (`MonitorLoop`); a waiter that slept because the pool was
  full is not told when a slot is given up, only when a connection is queued.
* `ReleaseConnection` reads `version_` again after it has opened the
  connection, so a connection may carry the newest number and older settings,
  and no later release replaces it (`ReleaseStamp`). The runs do not reach it: it
  takes a second `UpdateConfig` between the two, so `MaxVersion = 3`, where they
  have 2.
* A `rollback(savepoint)` that is refused on a connection that is kept, for
  instance because a statement has ended the transaction, is answered with -2
  and not tried again; the release then goes back to autocommit mode, which
  commits the statements that were executed (`Rollback`, `Restore`). A commit
  that is refused is answered with -2 too, and the release may commit the whole
  transaction all the same (`Commit`). So the header's promise, `< 0` with
  `trans_ctrl` is rolled back, does not hold: `FailureRolledBack` states it, and
  with the faults `{"stmt", "end"}` TLC has a counterexample of seven states.
* A session whose return to autocommit was refused is pooled in manual mode;
  the updates of the next caller are not committed until a later release gets
  `setAutoCommit(true)` through (`Restore` with the fault `"setac"`, which
  `mysql_updates` leaves out).
* A connection lost between `setSavepoint` and the first statement is silently
  replaced by one in autocommit mode, so a failed transaction stays
  (`Reached`). It is answered with -2 and not with -3, as its savepoint is gone
  too, which `RolledBackIsUndone` checks; `FailureRolledBack` leaves calls that
  lost their connection out.
* When `setSavepoint` raises, `rollback` gets a null savepoint (`crashed`).
* A Redis connection that cannot be reopened is lost to the pool while
  `curr_size_` still counts it (`Pop`).
* The validity `Lock` reports may end after the key has expired, by less than
  a second (`ValidityTime`).
* `InitKafka` and the Listener may leave the topic at a value the table no
  longer has, and a release without the key empties it (`UpdateKafka`). A new
  broker list never reaches the producer, which is created once.
* Outside `LOCAL` a body that makes the JSON reader raise is answered with 500
  and not reported: `TransDataToJson` reads it again outside any `try`. In
  `LOCAL`, or when only what stands behind a NUL makes it raise, the answer is
  `E_UNKNOWN_REQ` (`SendDataFlow`).
* A translated URL without `innerUrl` ends in `E_REQ_IMAGE_NULL` for a request
  that names an image (`TransSingleURL`).
* A registration that was given up may reach Eureka after the deregistration;
  its entry stays until its lease is over (`ServeLate`).
* The service registers before it binds its port, and until the server exists
  SIGTERM ends the process without deregistration (`Terminate`). A crash never
  deregisters: the breakpad handler is a local variable of `InitDumpFile`.
* When Apollo's first poll fails, `InitService` skips all components for good,
  and when the settings arrive in the middle it may set up the lock without
  the Redis pool (`Listener`, `InitComponent`). Likewise `ConnectEureka` makes
  the client with an empty address and application name, which it keeps: every
  request fails, and the process serves without ever being registered, also
  when the table is complete a moment later (`run`, `Perform`).
* `ThreadPool::stop` may wait for ever: nobody waits on the condition variable
  it notifies, and it joins with `m_threadmutex` in its hands, which a leaving
  worker or a producer inside `addTask` may be waiting for (`Hung`).
* After `stop` a worker processes an empty task (`Take`), and tasks with a
  level ignore the reserved part of the queue (`MustWait`).

### Bounds

* *MySQL pool*: two callers, one of them untimed, and the monitor make three
  contenders for at most two connections, so a waiter, an owner and a release
  in progress exist at once. Two versions allow one `UpdateConfig` at any
  point. That the counter stays exact and bounded with any number of updates, a reopen
  that overlaps a second one included, is left to the theorems.
* *MySQL operations*: one session, so that both callers inherit from each
  other; two calls each, two statements, so that a transaction can fail half
  way; `affect_rows` is -1 or the number of statements. `mysql_updates` leaves
  the fault `"setac"` out (see above).
* *Redis pool*: five clients on two connections, with two ways of passing
  timeouts: all kinds mixed, or without limit except for one that does not
  wait. `EnoughNotified` speaks of the second. `redis_pool` does not look for
  deadlock: when every connection is lost, clients that wait without limit
  wait for ever.
* *Lock*: two threads, two calls each, two attempts. Time runs past the
  lifetime of a key, so that keys expire and are retaken during a call; a
  second is longer than a key's life, so that truncation can hide all of it.
  The pool has two connections and may lose one, after which a waiting
  `Unlock` depends on `Lock`; with none left everybody would wait for ever.
* *Apollo*: two releases per namespace, so that one can overtake a fetch; the
  topic has the two values that tell old from new.
* *Requests*: two workers and two requests; `TrimPeriod` stands for 1000 and
  is 2, as the code only compares with it. `Init` lets `trim_count_` have what
  earlier requests may have left, so that one worker increments while another
  is about to reset. Three attempts at a download are the code's number and
  that of `request_retry`; two show a retry where two workers make the state
  space large.
* *Service*: two lives of the process, one worker. Interval, timeout and lease
  are 1, 1 and 4 for the code's 3, 3 and 10: as in the code, the lease exceeds
  the interval and two timeouts by exactly one second, so that a second more
  anywhere breaks `LeaseKept`. `MaxTry` is 1 for 6 and `StopTries` 2 for 3,
  which only shortens the way to the same tests. Apollo has settings for all
  components but one.
* *Thread pool*: two to three workers of four identities, so that two can
  sleep, two can leave at once and one can come back; a queue of three with
  one place reserved; five tasks by two producers fill it with both producers
  waiting. One level beside that of `addTask` without level is enough, as the
  code compares levels only to order the queue. `thread_pool` does not look
  for deadlock: `stop` may hang, which `StopReturns` is about.

Symmetry is used only under permutations of callers or workers that the
configuration treats alike, and in no run with a liveness property.

### Fairness

Only weak fairness of threads that are inside a call: the code has no point
where it gives up on its own except waits, which are modelled. No action that
starts something (a call, a request, a release in Apollo, `Stop`, a
destructor) is fair. No order of handing over a mutex or a connection is
assumed; liveness of the lock and of the classifier's queue rests on the
finite number of competing calls. `ApolloConfig` also assumes strong fairness
of `PollAnswered`: of infinitely many polls sent while Apollo has news, not
all fail; `ServiceLifecycle` likewise of `Serve`, an answer of the registry,
and weak fairness of time. `predict` and transfers are assumed to return, which timeouts
justify for the transfers.

## 4. Properties by component

* **MySQL pool**: `Accounting` (the counter is the number of idle plus taken
  connections, mid-update too), `Bounded`, `NoLostWakeup`, `FlagHonest`,
  `ImplementsBoundedPool`, `ShutdownCompletes`; violated: `IdleConfigCurrent`.
* **MySQL operations**: `SuccessIsDurable`, `RolledBackIsUndone`,
  `DurableOnlyDuringCall`; proved under a hypothesis only: `FailureRolledBack`.
* **Redis pool**: `QueuedOnce`, `EnoughNotified`, `ImplementsBoundedPool`;
  violated: `BlockedUntilAvailable`.
* **Lock**: `HolderOwnsKey`, `OnlyOwnKeyDeleted`, `ValidityWithinSecond`,
  `UnlockReturns`.
* **Configuration**: `AckedIsApplied`, `TableConverges`, `StopReturns`;
  violated: `UpdateNotLost`. The variable `missed` is there for these
  properties only.
* **Registration and lifecycle**: `LeaseKept`, `DeregisteredFirst`, `Rejoins`,
  `ShutdownCompletes`.
* **Thread pool**: `EnoughNotified`, `ThreadsBounded`, `PoolDrains`,
  `StopReturns`.
* **Requests**: `LabelIsOwn`, `OkMeansAccepted`, `TrimNotSkipped`,
  `ReportedAsAnswered`, `EveryRequestAnswered`; violated:
  `DecodeErrorMeansJunk`.

## 5. Proofs

Every safety invariant, every action property and every refinement that a
passing run checks is also a theorem, for all values of the constants that
satisfy the named `ASSUME`s of its module: any finite set of threads, any sizes
and limits, any set of failures. Each module has a `TypeCorrect`
(`Spec => []TypeOK`); the others are

| Module | Theorem | Property |
|---|---|---|
| `MySQLConnPoolProofs` | `PoolAccounting` | `Accounting` |
| | `PoolBounded` | `Bounded` |
| | `WakeupsNotLost` | `NoLostWakeup` |
| | `FlagIsHonest` | `FlagHonest` |
| | `RefinesBoundedPool` | `ImplementsBoundedPool` |
| `MySQLOperationProofs` | `SuccessDurable` * | `SuccessIsDurable` |
| | `RolledBackUndone` | `RolledBackIsUndone` |
| | `FailureUndone` ** | `FailureRolledBack` |
| | `DurableDuringCall` * | `DurableOnlyDuringCall` |
| `RedisConnPoolProofs` | `ConnectionsQueuedOnce` | `QueuedOnce` |
| | `NotifyOneIsEnough` | `EnoughNotified` |
| | `RefinesBoundedPool` | `ImplementsBoundedPool` |
| `DistributeLockProofs` | `HolderKeepsKey` | `HolderOwnsKey` |
| | `ValidityError` | `ValidityWithinSecond` |
| | `OwnKeyOnly` | `OnlyOwnKeyDeleted` |
| `ApolloConfigProofs` | `StoredIsApplied` | `AckedIsApplied` |
| `ImageRequestProofs` | `OwnLabel` | `LabelIsOwn` |
| | `OkIsEarned` | `OkMeansAccepted` |
| | `TrimHappens` | `TrimNotSkipped` |
| | `ReportsAgree` | `ReportedAsAnswered` |
| `ServiceLifecycleProofs` | `LeaseIsKept` | `LeaseKept` |
| | `DeregistersFirst` | `DeregisteredFirst` |
| `ThreadPoolProofs` | `NotifyOneIsEnough` | `EnoughNotified` |
| | `SizesRespected` | `ThreadsBounded` |

The theorems with a * have the hypothesis `"setac" \notin Faults`, which is
also the choice of the run `mysql_updates`: where `setAutoCommit`
itself is refused, the pool lends and takes back sessions in a mode nobody asked
for, and TLC has counterexamples to both with that fault added to
the run's. The hypothesis is therefore needed. `FailureUndone` (**) has in
addition `"end" \notin Faults`: it says that a refused `rollback` or `commit` on
a connection that is kept (section 3) and a refused `setAutoCommit` are the only
ways to its violation. No run checks `FailureRolledBack`, as the faults of
`mysql_updates` violate it. `RolledBackUndone` and the
types hold without any such hypothesis.

The assumptions that are more than types: the MySQL monitor is not a caller;
no two kinds of configuration value coincide with the empty, the torn or the
fixed one (`ValuesAssumption`); fewer slots of the Redis pool are lost than it
has (`LostAssumption`); two timeouts and an interval fit into the lease, as the
numbers in `eureka_client.cpp` do (`LeaseAssumption`); the thread pool's
minimum does not exceed its maximum and the reserved part of the queue is not
all of it.

In each module the proof has the same shape. The property is strengthened to an
inductive invariant; `Init` implies it; one lemma for each action shows that
the action keeps it, with one step for each conjunct it can disturb; the last
step is temporal. The inductive invariants were checked with TLC before they
were proved.

**MySQL pool.** The counter alone is not inductive. A step that lowers `curr`
needs its owner to be among the counted ones, the bound needs the counter to be
exact, and the types of `config`, `version` and `mi` need the phases of
`UpdateConfig` and of the monitor's loop. The inductive invariant is therefore

    IInv == TypeOK /\ Aux /\ Accounting /\ curr <= PoolSize

where `Aux` says that `config` runs ahead of `version` only inside an update,
that an update in progress has a version left and a living pool, that the
monitor's index is in range while it gets or has a connection, and that no
caller is inside once destruction begins. The lemmas `HoldersGrow`,
`HoldersShrink` and `HoldersSame` say how the number of owners changes when one
thread moves, which leaves only arithmetic for `Accounting`. `NoLostWakeup` is
inductive beside `TypeOK`. The interesting step is `UpdateSwap`, which refills
without notifying: it opens at most as many connections as it closed, so an
empty queue, the only one beside which anybody sleeps, stays empty.
`FlagHonest` is strengthened to `FlagInv`, which speaks of every thread's last
connection and not only of owners.

**Both pools implement `BoundedPool`.** The refinement maps the abstract users
to the threads that own a connection. In every step at most one thread joins or
leaves them, and the abstract bound is what the inductive invariant says of the
state after the step.

**MySQL operations.** The promises are about `acked`, `denied` and `db`; what
makes them true is the state of the sessions. `TypesInv` says that every call
in progress has a session to itself and that the rows counted are no more than
the statements executed. `SafeInv` says that an idle session is clean (no open
transaction, autocommit mode), that what a transaction has open is its own, lies
behind its savepoint and is gone before its session is released (`OpenOK`), that
a transaction that has kept its connection is out of autocommit mode, so that
nothing of it is in the database (`KeptOK`), that what a call has done is durable
or open in a session that can still commit it (`DoneOK`), and that nothing of a
later call is in the database or denied (`History`). `RolledBackUndone` rests on
an invariant of its own, `UndoInv`, that does without clean sessions: what has
been denied is neither in the database nor open in any session (`UndoHistory`),
a call writes to its own session only, and as long as the savepoint it has set
is there, that session is out of autocommit mode and nothing of the call is in
the database, so that a rollback that returns removes all of it (`UndoCall`).

**Redis pool.** Beside its two properties the invariant needs only that who is
in `waiting` is inside a wait and that a pool that is gone has no clients.

**Lock.** `KeyKept` adds the time to the value: while a thread claims the lock,
the key's expiry is the lease that thread computed, so the key cannot go before.
It also covers the check of the reply, where the claim begins. `Validity`
carries the bound from `startTime`, read before the key was set, to the use of
the lock. `WholeSecondsBounds` is the fact about `time(NULL)` that both rest on.

**Configuration.** LongPoll stores the number it was notified of, which says
nothing about what the callback has put into the table. The invariant follows a
round: each namespace is in it once, with a number above the stored one and not
above Apollo's; unless Apollo has published again since (`Fresh`), what was
fetched is its newest release; the callback has stored the keys it is past.

**Requests.** `JobOK` says what the stages before have established at each
place of the route. `ModelInv` is the reason for `OwnLabel`: whoever is in
`predict` has the lock and finds its own image in the classifier. `IdsInv` and
`SentInv` make a message and an answer with one number belong to one request.

**Registration and lifecycle.** `Renewed` bounds the time since the registry
last renewed the lease by what is left of the sleep or transfer in `wait`; this
turns `LeaseKept` into the arithmetic of `LeaseAssumption`. `Deregistered` and
`MainInv` say what an answered DELETE leaves behind and that the main thread is
past `join` only when the registration thread is done.

**Thread pool.** `addTask` reads the number of workers without `m_threadmutex`
and makes one when it has it. `RoomInv` is why this is safe: it keeps
`m_taskmutex` meanwhile, so no other producer can add a worker.
`EnoughNotified` is inductive beside the types and the bound of the whole queue.

Checked by TLC only, as the prover has no liveness: `ShutdownCompletes` of the
MySQL pool and of the process, `UnlockReturns`, `TableConverges`, `StopReturns`
of the Apollo client and of the thread pool, `EveryRequestAnswered`, `Rejoins`,
`PoolDrains`. The four violated properties are shown by TLC's
counterexamples.

## 6. Not modelled

* `crow_all.h` except for the life of its server, `base/`, `breakpad/`,
  `third_party/`, `3rdParty/` except for the Eureka client, `testing/`:
  vendored code; the classifier: a prebuilt library. They are far more than
  nine tenths of the repository's lines; what is modelled is the service's own
  code, some five thousand lines.
* The OSS client's uploads: nothing calls them. `Paas/` other than the thread
  pool: signing and single transfers of an earlier version, not called.
* SHA-1, HMAC, base64, signature strings: byte algorithms without control.
* Redis commands that only talk to the server; `CRedLock::ContinueLock`, which
  iterates over a list nothing fills and has no caller.
* JSON layout, log texts, the numbers of error codes.
* Copies of a `RedisClient`, which would queue a connection twice, and a
  `RedisLock` that outlives `ReleaseInstance`: no code makes either.
* The Apollo Listener, which `ReleaseService` does not stop, on static objects
  that are being destroyed: undefined behaviour after the last modelled step.
* A `close()` that raises in `ReleaseConnection` (`mysql_conn_pool.cpp:195`) or
  in the middle of `UpdateConfig`'s swap (261): the connector's `close` is taken
  to raise only on a connection that was closed before, and both places forget a
  connection once they have closed it. Should it raise after all, the former
  leaves a destructor and ends the process, the latter leaves `UpdateConfig`
  with the settings changed, the rest of the queue old and `version_` as it was.
* The size of `m_tasks` that `eraseCurrentThread` (`ThreadPool.cpp:77`) reads
  without `m_taskmutex` as a step apart from the removal of the thread. A task
  that is pushed between the two finds the thread as good as gone, like one that
  is pushed right after the one step of the model: its push has notified a
  sleeping worker, if there is one, and the thread that leaves was none.
* Memory: leaks such as the contexts of failed Redis connects.

## 7. Plan

Done: the modules above, in the order MySQL pool and its proofs, Redis pool
and abstract pool, lock, configuration, requests, MySQL operations,
registration and lifecycle, thread pool; then the proofs of section 5.
`BoundedPool` is the one abstract specification.

Left: shorter proofs where one lemma can serve two actions. The abstract
specifications and the safety properties have their proofs; liveness stays with
TLC.
