# Service Courier: a TLA+ verification project

This directory specifies, model-checks and proves properties of the courier
service of this repository. It is written for a reader who has the source at
hand; paths are relative to the repository.

## 1. The system

Two processes share one PostgreSQL database.

* `service-courier` (`cmd/service-courier`) serves HTTP: CRUD of couriers,
  `POST /delivery/assign`, `POST /delivery/unassign`. A goroutine, the
  *auto-release loop*, frees couriers whose delivery is overdue.
* `service-courier-worker` (`cmd/worker`) consumes the Kafka topic of order
  events. Each partition has a goroutine that asks the orders service (gRPC)
  for the order's current status and then assigns, unassigns or completes.

### Inventory

| Component | Source | State | Operations | Interacts with | Hard behaviour | Correct when |
|---|---|---|---|---|---|---|
| Delivery use cases | `internal/service/delivery`, `internal/repository/delivery.go`, `internal/service/orders/processor.go` | tables `couriers` (status) and `delivery`, row locks, transactions | Assign, Unassign, onCompleted, ReleaseExpired | called by handlers, partitions, loop | interleaved READ COMMITTED transactions, lock waits, deadlocks, failed and unanswered commits | no double booking, one delivery per order, no courier lost, overdue couriers freed |
| Couriers | `internal/service/courier`, `internal/repository/courier.go` | table `couriers` | Create, Get, List, UpdatePartial | same table as deliveries | requests, deliveries and lost answers on one row, duplicate phone, pages of a moving table | every row legal, phone unique, no lost update, true codes |
| Kafka consumer | `internal/transport/kafka` | offset marks of a session, its claims | Run, consumeOnce, ConsumeClaim, Close | calls the order handler | redelivery, rebalance, one claim's error ending all claims, permanent errors | an event is acknowledged only when handled or unusable; only the signal ends it |
| Event pipeline | `internal/app/kafka_orders.go`, processor | none | makeOrdersKafka, Handle | consumer, gateway, use cases | repeated, collapsed and reordered events | the tables converge to the order's status |
| Orders gateway | `internal/gateway/orders` | none (per call: attempt, delay) | GetByID, ListFrom | gRPC service | retries racing a context | bounded attempts, growing pauses, in time, last error kept |
| Rate limiter | `internal/http/middleware/ratelimit` | buckets by key, clock | Allow, clean-up | HTTP middleware | concurrent look-up and clean-up, limit of buckets | rate bounded per key |
| Life cycle | `internal/app/runner.go`, `worker_runner.go`, `helpers.go` | servers, pool, goroutines | start, wait, shut down, close | everything | order of closing, connect with retry, a goroutine that panics | no transaction cut off, nothing closed in use, stops when and only when asked |
| Container | `internal/app/container.go`, `container_ratelimit.go` | constructors, values built | Provide, Invoke | start of both processes | a type nobody provides, found only when it is its turn | every Invoke can be resolved |
| Configuration | `internal/config` | settings of the process | Load | constructors | environment, `.env`, flag and defaults that are checked one by one | accepted settings are those the parts are made for |
| Router, handlers, JSON | `internal/http` | none | parse, dispatch, map errors | use cases | a wrapped error that is no longer recognised | sentinel errors reach their status code |
| Logging, metrics, pprof, generated code | `logx`, `prometrics`, `http/pprofserver`, `proto`, `docs` | none read by the services | | | | |

## 2. Modules

| Module | Contents |
|---|---|
| `Delivery` | the delivery use cases and their SQL as concurrent transactions |
| `CourierBoard` | abstract specification: every operation one atomic step |
| `MCDelivery` | instances for TLC |
| `OrderEvents` | a partition of order events: consumer, look-up, processor, acting on the board |
| `MCOrderEvents` | its instances for TLC |
| `RateLimiter` | the token buckets of the HTTP rate limiter, their locks and clean-up |
| `MCRateLimiter` | its instance for TLC |
| `Couriers` | the HTTP operations on couriers, from the request to the code of its answer |
| `CourierDirectory` | abstract specification: every request served at one moment |
| `MCCouriers` | its instance for TLC |
| `Gateway` | a call of the orders gateway with its retries |
| `Worker` | process `service-courier-worker`: `Consumer.Run`, sessions, claims that call the gateway, signal, `closeWorker` |
| `MCWorker` | its instance for TLC |
| `Config` | `config.Load`: from the environment to settings or a refusal |
| `Container` | the constructors of both processes and their resolution by dig |
| `Lifecycle` | process `service-courier` from its configuration to its exit |
| `Process` | `Container`, `Config` and `Lifecycle` composed: a process from its start |
| `MCProcess` | its instances for TLC |
| `Delivery_proofs` | type correctness, uniqueness, no double booking, who can be in a deadlock, for all instances |
| `DeliveryBoard_proofs` | no lost courier and refinement of `CourierBoard`, one canceller per order |
| `OrderEvents_proofs` | nothing acknowledged unhandled, the board agrees with what was read, for all instances |
| `RateLimiter_proofs` | bounded table, shared buckets, the rate of a client from above and from below, for all instances |
| `Couriers_proofs` | a sound table, true codes, no lost update, complete walks and refinement of `CourierDirectory`, for any requests |
| `Gateway_proofs` | what the steps of a call keep: attempts, the last error, the context, the pauses |
| `Worker_proofs` | the same of all calls of the worker, acknowledgements, and what is closed when |
| `Lifecycle_proofs` | `Process` implements `Lifecycle`; a clean exit, a graceful shutdown, a service that finds its constructors, accepted settings, for any requests and environments |

`OrderEvents` instantiates `CourierBoard` (`Board`) and uses its operations as
atomic steps; `Delivery` implements that board under `OneCanceller`: the caller
who unassigns an order, a partition, shares it with none but callers who assign it.
`Couriers` implements `CourierDirectory`. `Worker` extends `Gateway` with the claim
that calls it; `Process` extends `Lifecycle`, `Container` and `Config` and
implements `Lifecycle`.

### Delivery

A *caller* (`Procs`) is a goroutine that runs one call at a time: an HTTP
handler, the goroutine of a partition, the auto-release loop. `May` and
`Serves` say which operations it issues and for which orders. `pc` names the
SQL statement it is about to run:

    assign    find -> pick -> insert -> busy -> commit -> done
    unassign  read -> delete -> free -> commit -> done
    complete  read -> free -> commit -> done
    release   scan -> release -> commit -> done

The database state is `status` (column `couriers.status`) and `delivery`
(rows: courier, order, deadline); `lock` gives the transaction that holds a
courier's row. `ins`, `del` and `touch` are what a transaction has written and
not committed. What the model takes from the code, and from PostgreSQL as the
code uses it (`pgx.TxOptions{}`: READ COMMITTED, the server's default):

* `Find` takes the snapshot of `SELECT ... ORDER BY count, id FOR UPDATE LIMIT 1`;
  `PickCourier` and `SkipCourier` walk it in that order, wait for each row
  lock, look again at the latest committed status, and keep the lock of a
  courier they pass over. The load is not evaluated again, so the order may be
  stale; that is why the abstract `Assign` takes any available courier.
* The deadline is computed when the courier's lock is granted. The code reads
  the clock in the following statement; no action of another caller can tell.
* `InsertDelivery` waits while another transaction has an unfinished insert or
  delete of the same order id (unique index), and fails if the row is there.
  The violation is not mapped to a sentinel error.
* `GetByOrderID` does not lock. `DeleteByOrderID` waits for an unfinished
  delete of the row and reports an error if nothing is left to delete. The
  `UPDATE couriers` that follows uses the courier of the row that was *read*.
* `ScanExpired` takes `now` from the beginning of the call and the couriers
  from the statement's snapshot; `ReleaseCourier` visits them one by one in any
  order, waits for the lock and evaluates only the status again.
* `Commit` applies and answers `ok`, or applies and answers `error` (the answer
  is lost). `Fail` ends a call at any statement, COMMIT included, with an error
  and without effect: the three-second operation timeout, the HTTP timeout, the
  end of a Kafka session, a broken connection, the crash of a process.
* `DeadlockVictim` is PostgreSQL's deadlock detector: `WaitsFor` are the transactions
  a statement waits for, `Deadlocked` says that it is in a cycle of waits.

A waiting statement is an action that is not enabled. Evaluating a statement
when its lock is granted instead of when it began is the same set of
behaviours: a DELETE that waited for a transaction which removed the row
reports nothing deleted even if the row is inserted again meanwhile, and so
does the model when the grant comes before the insert.

Abstractions: order ids are trimmed and non-empty, or `NoOrder`; names, phones
and `assigned_at` are left out; table `couriers` has a fixed set of rows; a
failed transaction releases its locks in the step that ends the call (the
server may take longer, which lengthens waits of others); the transport type of
a courier does not change during the run; time is in units of five minutes
(car 1, scooter 3, on foot 6) and moves between any two statements.

### CourierBoard

The promise to the callers when each order has one canceller: a board of
(courier, order) pairs, and atomic Assign, Unassign, Complete and Release.
The refinement mapping drops deadlines and everything uncommitted: whom a deadline
frees, and when, is not on the board but the question of `ReleaseOnlyExpired` and
`ExpiredIsFreed`.

### OrderEvents

One partition of the topic and the worker that reads it. `log` is the
partition, `truth` the status each order has in the orders service, whose
changes are published in order (`Change`); `Garbage` is a message that is not
JSON or has no order id. `committed` is the group's offset, `pos` how far the
claim has read, `mark` how far it has marked, `phase` the point of
`Consumer.Run`:

    down -> join -> claim -> lookup -> handle -> claim ...

* `Join` starts at the committed offset, `Skip` marks an unusable message,
  `Take` calls the handler of `makeOrdersKafka`, which asks the gateway first if
  there is one (`gateway`); `LookupFound` takes the order's *present* status in
  place of the event's; `LookupMissing` acknowledges the event of an order the
  orders service does not know.
* `Handle` is the processor returning nil: the operation of the event's status
  takes effect on the board, or has nothing to do (`Nothing`: no courier is
  available, no delivery, a status the factory does not know).
* `Duplicate`, `Fail` and `Lost` are the ways it returns an error: the unique
  index, a failure without effect (time-outs, a broken connection), an effect
  whose COMMIT was not answered. `ConsumeClaim` then returns, which ends the
  session (`EndClaim`): its marks are flushed, or not.
* `Revoke` is a rebalance between two messages, `Crash` and `Start` the process.
  Sessions do not overlap: the calls of a revoked claim are cancelled, and are
  bounded by time-outs (two and three seconds) shorter than the session's.
* `AutoRelease` is the loop of the other process.

The branch of `ConsumeClaim` for a `PermanentError` is left out, as no handler
of the program returns one. `settled` is a history variable: offsets whose
handling returned nil or that cannot be used.

What the model says of the code besides its properties: an event of a deleted
order that the gateway does not know is acknowledged without `Unassign`, so the
row stays and the courier is busy until the deadline (hence the exception in
`BusyWithOpenOrder`); an order created while nobody is available is acknowledged
and never assigned; a refused duplicate blocks its partition until the order
changes its status and, without the gateway, for as long as somebody is
available (hence the hypothesis `gateway` of `EveryMessageAcknowledged`).

### RateLimiter

`Procs` are requests inside `TokenBucketLimiter.Allow`, one step for every lock
they take:

    idle -> cleanup -> (sweep ...) -> lookup -> (create) -> allow -> idle

`now` is the time read on entry, which the request keeps using while the clock
goes on. `mu` is the holder of the table's lock during a clean-up, whose visits
of single buckets (`Sweep`) interleave with requests that hold a bucket already;
the other critical sections are single steps. A visit reads `lastSeen` and
deletes in one step: the table is locked, so nobody can tell. `table` maps keys
to bucket objects; a bucket that was removed (`orphans`) may still be used by a
request that found it before. Refused requests (`Refuse`) and denied ones
(`Allow`) end alike.

Tokens are whole parts: a request costs `Cost`, `Rate` come back in a unit of
time, so fractions of tokens are there and float rounding is not. `Burst`,
`Rate`, `TTL`, `MaxBuckets` are as `NewTokenBucketLimiter` leaves them. `Minute`
is the least interval of clean-ups. `Lag` bounds the time a call takes: without
a bound a request could set `lastSeen` back by any amount and have a bucket in
use removed. The code gives none: it is an assumption on the scheduler. `grants` is a history of the requests that
passed, by the clock; a request that passes by a bucket removed after it had found
it is not in it, so each request under way during a clean-up may be one more.

`KeyRate` bounds from above what a client gets; `DeniedOverRate` bounds it from below.
A request that pays in its client's bucket and is denied comes from a client who,
since one of the requests that passed, has asked for more than burst and rate. Tokens
cannot get lost between clients, in clean-ups, or through times that arrive out of
order. It needs no `TTLEnough`: removing a bucket only gives tokens away.

`KeyRate` needs `TTLEnough`: an idle bucket is kept until it is full again, with
twice `Lag` to spare. The configuration does not check that (`RATE_LIMIT_TTL` is
any duration): with a rate of one token in ten minutes, a burst of 5 and a TTL of
one minute, a client that waits a minute has five requests again. The defaults
(5 per second, burst 5, ten minutes) satisfy it by far.

### Couriers

`Procs` are requests, each between the handler's reading of it and its answer:

    get     idle -> select -> answer -> idle
    create  idle -> nextval -> insert -> answer -> idle
    update  idle -> find -> update -> answer -> idle

`Refuse` is a request that ends before any statement: its body cannot be decoded
(400), is too large (413), or the service refuses it (`Refused`: `idFromURL`,
`validateCreate`, the five rules of `validateUpdate`). Texts are told apart by what
the checks tell: names and phones that pass, `Empty`, `Malformed`, and `Absent` for
a null pointer of an update. Every statement is a transaction of its own.
An INSERT draws its id (`NextVal`, which a failure does not give back) before the
unique index lets the row in or not. An UPDATE finds its row in a snapshot
(`Find`, `FindNothing`) and evaluates COALESCE on the row as it is when its lock
is granted (`Update`). A statement's answer may be lost (`Written`), or it fails
without effect (`Fail`). `UpdateCourierStatus` stands for the deliveries. No code
deletes a courier.

`promised` is a history: the codes that the description of the handlers gives to
the request, evaluated on the table at every moment of the request (`Promised`), and
500 once a statement has failed. 413 is from the code (`decodeJSON`): no description
lists it. The update is `PUT /courier` as in the router, though its description says
POST. A client that walks through the pages
(`StartWalk`, `NextPage`, `EndWalk`) makes `List` observable.

### CourierDirectory

The promise to the clients: a request is refused as it stands, or waits and is served
at one moment (`Serve`), the whole of it on the table as it is then, with the code of
what it met. A 500 stands for all of it or nothing (`Break`). The refinement mapping
takes the code from the moment a request's last statement has run (`AnswerCodes`) and
drops what lies between: checks, drawn ids and rows found in a snapshot are steps
that a client cannot tell. That the moment is the last statement, not the first, is
what is to be shown: in between the row may be changed and the phone be taken.

What follows for clients: a POST whose answer was lost has created the courier,
and its repetition is a 409; ids have gaps; a client that walks by pages misses
nobody who was there when it began, because rows are ordered by an id that never
changes and nothing is deleted, but it may miss those who come meanwhile.

### Gateway

A call of `RetryingGateway` (`GetByID`; `ListFrom` has the same loop), with the
configuration that `parseOrdersGateway` lets through (`Accepted`) and the context
of `makeOrdersKafka`, which ends by its two seconds (`deadline`) or with the
session (`Cancel`). `Begin` is the next call, whose context may have ended already:

    call -> (sleep -> call)* -> returned

`GiveUp` and `Retry` are the branches after a failed attempt, `Wake` and `Abandon`
those of the select in `sleepWithContext`; both are enabled when timer and context
are ready together, and Go takes either. Errors are `transient` (the three codes
of `isRetryable`) or `permanent`. Durations wrap around at `Limit`, as the shift
in `backoff` does in 64 bits. Time passes only while the call waits; an attempt
ends with its context, which is what gRPC does. `heard` and `late` are histories:
what the service said last, and attempts begun after the context's end.

### Worker

`run` is the main goroutine, in `Consumer.Run` and then in `closeWorker`:

    loop -> consume -> pause -> loop        loop, pause, consume -> group -> conn -> pool -> exited

`session` is the session of the consumer group. It ends by the signal, a rebalance
or a broker that is lost (`Rebalance`), or the first claim that returns
(`EndSession`), and with it the context of all its claims; `Consume` returns when
they have (`ConsumeReturns`), which sarama promises and `ClosedWhenIdle` rests on:
what the code adds is that `Run`, and so `closeWorker`, waits for `Consume`. `claim` is the partition that is looked at closely,

    read -> lookup (a call of Gateway) -> handle -> read

and `other` the remaining ones, whose errors end its session. `LookupFails` is the
handler's return of the gateway's error, `LookupMissing` its `return nil` for an
order that is not known, after which the event is marked. `LookedUp` tells when the
call is over; the calls made when the session is already over begin with an ended
context, since the select of `ConsumeClaim` takes a message and the end of the
session in any order. `HandleFails` covers every error of the processor, the
operation's own time-out among them. What an event does to the tables is in
`OrderEvents`.

### Config

An environment gives each variable a text, told apart by what the parsers make of
it: unset, blank, a number, or something else. Durations are in milliseconds,
Booleans are 1 and 0, `KAFKA_BROKERS` is the number of names in it. `Accepts` is the
conjunction of the parsers (their order decides only which error is logged), `Load`
the settings. Whatever the parsers look at but never refuse (hosts, users,
passwords, topics, addresses) is left out; `ORDER_SERVICE_HOST` has a default, so
that `gateway = FALSE` in `OrderEvents` (no gateway) needs a `Config` that `Load`
did not make, as tests do.

### Container

A constructor is the set of values it gives and the sequence of parameters it
needs. `stack` holds the functions whose parameters are being built, the function
invoked at the bottom, `built` the values there are. `Resolve` goes down to the
next parameter that is missing, `Construct` returns, `Unresolved` is dig's check,
before any parameter of a function is built, that each has a provider. dig knows
types, not what implements what: an interface needs a constructor of its own.
`Fallible` are the constructors that may return an error besides `config.Load` and
the connection.

### Lifecycle and Process

`Process` resolves the parameters of `appRun` or `workerRun`. When it is the turn of
`config.Load`, some environment of `Environments` is accepted or refused; when it is
the pool's, `connectDbWithRetry` runs; any failure ends the process
(`InvocationFails`, `LoadRefuses`, `PoolFails`) without closing what was built.
When all parameters are there the service goes on with `Lifecycle`, whose `pc` is the
main goroutine:

    config -> connect -> (backoff -> connect)* -> start -> wait
           -> shutdown -> drain -> pprof -> close -> pool -> exited

with the goroutines of the two servers and their channels, of the requests (`req`:
reading, in a transaction, writing), and of the auto-release loop, which nobody
waits for. `pool` is closed by `CloseResources`, which gives out no connection
afterwards, and the process exits when those that are out have come back
(`PoolClosed`: `pgxpool.Pool.Close` blocks until then). A pprof server that is
configured may stop at any time; `main` then waits for the other two events
(`watching`).

`ticks` says whether the release interval is positive. The configuration accepts
any, and `time.NewTicker` panics on the others (`TickerPanics`), which ends the
process from a goroutine while requests are under way: `NoTransactionCut` and
`AcceptedIsAnswered` hold only with `ticks`. That panic breaks them is no finding of a
run: no document says which intervals are meant to be legal.

## 3. Runs

| Run | Instance | Question |
|---|---|---|
| `delivery_shared` | HTTP handler and partition on the same 2 orders, 2 couriers, administrator, one tick | double booking, duplicate deliveries, stale choice, who can be in a deadlock |
| `delivery_partitioned` | two partitions with one order each, auto-release, 2 couriers (also paused), 3 instants | refinement of the board, no courier lost |
| `delivery_live` | handler, partition and auto-release on 1 courier and 1 order, 3 instants, fairness | every call returns; overdue couriers are freed |
| `events_safety` | 2 orders, 2 couriers, any number of crashes, rebalances, failures and lost answers, with and without gateway | nothing acknowledged unhandled; cancelled orders have no delivery; busy couriers have an open order |
| `events_live` | 1 order, 1 courier, 2 unusable messages, fairness | every message is acknowledged |
| `rate_limiter` | 2 requests, 2 clients, a table of 1 bucket, half tokens, 9 instants | limit of buckets; one bucket for a client; a client's rate through clean-ups, and that nobody below it is denied |
| `couriers` | 2 requests, 2 couriers, 2 phones, each kind of illegal field, a client with pages of 1 | refinement of the directory; legal table, unique phones, true codes, complete walks |
| `worker` | a partition and another one, up to 4 attempts, delays that fit into a context of 9 instants and one that overflows when doubled; some configurations are refused | attempts, pauses, the context, the errors of each look-up; nothing closed in use; ends on the signal, and only then |
| `process` | both processes, over seventy environments, 2 attempts to connect, 2 requests, a pool of 2 | all constructors of the service resolved, accepted settings fit; clean exit, graceful shutdown, reason to stop; the process stops when asked |
| `worker_start` | violation | the worker's constructors cannot be resolved |
| `release_busy` | violation | auto-release frees a courier whose delivery is not overdue |
| `unassign_race` | violation | Unassign frees the wrong courier |

Bounds. Two couriers are the least on which one call can skip a courier, take
the other, and free the wrong one; two orders the least on which a courier can
have an old delivery and a current one; two callers of Assign and Unassign give
every pairwise interleaving of statements, and the third is the auto-release.
`MaxTime = 2` lets a car's delivery, made at 0 or later, become overdue, stay
so, and meet deliveries made afterwards. A caller may make any number of calls
and fail any number of times. In the shared runs the order ids are symmetric;
symmetry is not used with liveness. The proofs do not depend on these bounds.

In `events_safety` two orders and two couriers are the least on which a
redelivered event meets a courier who works on another order by then; logs have
up to six messages, so a claim may be set back over the end of one order into
the beginning of the other. Unusable messages are in `events_live`, where two of
them stand anywhere among the three events of an order. Orders and couriers are
symmetric in the first run only.

In `rate_limiter` the TTL (5) is the least that satisfies `TTLEnough` for a burst
of two requests at half a token a unit; with a shorter one TLC finds `KeyRate` violated. Nine
instants let a bucket be removed, created again and used up. Two requests
under way are the least that meet in a creation or find a bucket that the other
removes.

In `couriers` two requests are the least that compete for a phone, a row or an
id, and two couriers the least whose ranks can change; longer runs of requests
follow one another in the same behaviours, as a request that has answered takes
up another. The requests break each rule of the checks at least once
(`BadCreations`, `BadChanges`). The changes of courier 1 overlap in no field, so that
each shows if the other is lost; the one of courier 2 takes the phone the first may
have, and sets three fields at once. `OnlyAskedFields` (no lost update) follows from
`ImplementsDirectory` and is proved, not run.

In `worker` four attempts reach the cap and stay there. Nine instants are enough for
all pauses of some configurations and too few for those of others. `Limit` is the least
that the time-out doubled nine times fits into (`TimeoutAssumption`; two seconds are
far from it in 64 bits). With the largest base delay, 4000, the second shift would
overflow and give no pause; it is never made, as the context ends before.

One other partition is enough to end the session under the first in each of its
states, and to be ended by it; the proofs are for any number.

In `process` two requests and the loop are one user more than the pool has
connections; the proofs are for any number. The environments change one variable
at a time to a blank, a text that is no number, and numbers on both sides of each
limit, and combine those that are read together: environment and `.env`, base and
maximal delay, a limiter that is off and its rate, `PORT` and the flag, the
password's file. `AcceptedSettingsFit` is proved for all environments.

Deadlock is not checked in `worker` and `process`: a process exits, and nothing
follows.

Fairness (`Fairness` in `Worker` and `Process`). Goroutines run, a timer fires,
and a call of the orders service returns once its context has ended; that it
answers before is not assumed. Transactions end (by their time-out if by nothing
else) and a request that has its data is answered; main goroutines go on whenever
they can. Neither a signal nor the end of a server is bound to come, nor is a
broker that lets the worker join. A claim whose session has ended is strongly fair
in seeing it: sarama closes its channel of messages then, and what the channel
still holds is finite, while Go's select may take a message each time both are
ready.

Fairness (`Fairness` in `OrderEvents`). The worker's own steps are weakly fair
(its goroutines run; the process is restarted), sarama flushes the marks every
second, and no order stays created for ever: the gateway's answer then ends the
repetition of a refused duplicate. `Calm` assumes that failures and rebalances
cease in the end, without which nothing need ever be acknowledged.

Fairness (`Fairness` in `Delivery`). Statements are strongly fair: PostgreSQL
executes what it accepted and queues the waiters of a row lock, so a lock that
is granted again and again is in the end granted to each waiter. The deadlock
detector and the return of a call are weakly fair. Only the ticker of
`startAutoReleaseLoop` is bound to call; HTTP requests and events are not.
`ExpiredIsFreed` also assumes that failures other than deadlocks cease (`Calm`):
if every call of the loop times out, nothing is freed. It needs one courier and
one order because a deadlock (Assign holds the courier and waits for the
pending delete of its order, whose Unassign waits for the courier) and
contention for the lock exist there already.

## 4. Findings

1. *The worker cannot start.* Its container provides `*delivery.Service` and
   `*orders.Processor`, but nothing of type `orders.DeliveryPort`
   (`internal/app/container.go:191`) or `ordersHandler` (`internal/app/kafka_orders.go:20`).
   `registerHTTP` has constructors for such conversions (`handlers.NewCourierUsecase`),
   `registerWorker` has none. The process reads its configuration, connects the pool
   and then panics, and no event is consumed. `Worker` and `OrderEvents` model the
   worker as its parts are meant to be joined.
2. *Early release.* The subquery of `ReleaseCouriers` takes any delivery of
   the courier. Completed deliveries keep their rows, so from the moment their
   deadline passes every later delivery of the courier is cut short at the next
   tick of the loop.
3. *Unassign race.* Two callers of one order: the courier that was read is
   freed, the courier of the deleted row stays busy with no delivery, and no
   operation but the administrator's can free it.

Not findings, since nothing clearly documents the contrary, but worth knowing:

* A repeated completion frees a courier who works on another order. With the gateway
  it takes no redelivery: the event before the completion is handled as the completion
  if the order is complete by then (`LookupFound`), the courier takes an order, and the
  completion's own event frees him again. Completing or
  unassigning makes a paused courier available; a courier who is not busy may
  still have deliveries (`CourierBoard`).
* `InsertDelivery` does not map the unique violation (`InsertDuplicate`), as
  `CourierRepo` does: a repeated assignment is a plain error, HTTP 500, and on the
  Kafka path an event that stays unacknowledged until the order's status changes.
  `apperr.ErrConflict` is described as the conflict of uniqueness.
* A release interval of zero or less passes the configuration and ends the process
  with a panic at its start (`TickerPanics`).
* `Runner.MustRun` logs an error and returns, so that `service-courier` exits with
  status 0 even if it never reached the database; the worker panics.
* `RATE_LIMIT_TTL` may be too short for `TTLEnough`, see *RateLimiter*.
* `ORDER_GATEWAY_BASE_DELAY` above 200 ms alone is refused, because the default of
  the maximal delay is below it; a `PORT` that is no number is ignored silently.

## 5. Proofs

`Delivery_proofs`, from the assumptions on the constants only (any sets of
callers, couriers and orders, any assignment of operations): `Invariance`
establishes `IInv`, of which `TypeCorrect`, `NoOrderTwice`, `ChoiceIsStable`
are corollaries and which gives `NoDoubleBooking`. `OneDeliveryPerOrder` alone is not
inductive: a commit could add a second row. It needs `Unique` (a pending insert
clashes neither with a row nor with another pending insert), which rests on the
guards of `InsertDelivery`. `ChosenStaysAvailable` needs `InHand` and `Locked`:
the courier of the delivery in hand is locked by its transaction, and only
holders of the lock change a status. `Finite` is there because the load of a
courier is a cardinality. Each action has a lemma; a refused, failed or aborted
call is one lemma for all (`RollbackInv`).

`DeadlocksExplained` says which calls can be victims of PostgreSQL's deadlock
detector, whatever runs together. `Holding` lists what a transaction keeps from
others at each statement: locks of couriers, or the delete of its order. A completion
keeps nothing until its last statement has run, so a cycle of waits has no way into
it. An Unassign does wait for its courier with its delete pending; who waits for that
delete is an Assign of the same order, or another Unassign, which keeps nothing at
that point and so is waited for by nobody (`WhatIsHeld`). With one canceller per order
who also is the only one to assign it, as in a partition, deadlocks are therefore among assignments and the auto-release only.

`DeliveryBoard_proofs` adds the hypothesis `OneCanceller` and `OInv`: who may
unassign an order shares it only with callers who assign it (the handler of
`POST /delivery/assign`, for instance), and no courier is hired busy or set busy by
an administrator, who may pause couriers and make them available again at any moment
(step `SetStatus` of the board too). Run `delivery_partitioned` has the stricter form
of it that partitions give by themselves, where nobody shares an order, and no
administrator, whose steps would double its states; `delivery_shared` has one. The key
part is `Fresh`: the row that Unassign or onCompleted read without a lock is still
committed when they commit. Nobody else deletes it; and while it is there the unique
index lets no other in, so that callers who assign do no harm. From it follow `NoLostCourier`,
`UnassignIsExact` and `Refinement`; run `unassign_race` shows that the
hypothesis cannot be dropped. (No passing run checks `UnassignFreesItsCourier`, as
`ImplementsBoard` says more.)

`OrderEvents_proofs` proves the three safety properties of `events_safety` for
any orders, couriers and number of unusable messages, so for logs of any length. None of them is
inductive, as they speak of a claim that has read everything. `IInv` says them of
each order that has been read to its end (`Passed`): `CancelHandled` and
`BusyExplained`, where a busy courier may also be explained by an order whose
end is still to be read, which is what a crash, a lost answer or a redelivery
leaves. The step that reads an order's last message needs that it is handled
with the order's status (`LastIsSeen`, from `LastIsTruth`), whichever of the event
or the gateway gave it, and that an order has one courier (`OneCourier`).
Steps that read no further are one lemma (`Quiet`), steps that read on share
`AckFrame`, and `Published` is what a new message changes.

`RateLimiter_proofs` proves `BucketLimit` and `OneBucketPerKey` from the
ownership of buckets, locks and times (`IInv`), and `KeyRate` from `TTLEnough`.
The key is `Debt`: what a client's last grants cost, with the tokens left, is no
more than a full bucket and what came back up to the bucket's time; while the
client has no bucket it is no more than what came back until now. Removing a
bucket leads from the first to the second because an expired bucket could have
been full, creating one leads back because a new bucket's time is at most `Lag`
old.

`NoUndueDenial` is the converse, an action property without hypotheses. Its invariant
`Credit` says that a bucket is full, or that for some grant `i` of its client what is
left in it, and what the grants from `i` on have cost, are together at least a full
bucket and what came back between the time of `i` and the bucket's own (`Left`).
A refill keeps it or fills the bucket, a payment adds a grant, and a time that is older
than the bucket's changes nothing. A denial then turns `Credit` into the bound.

`Couriers_proofs` proves the table, the codes and the updates for any number of
requests. `TableIsSound` needs that a request whose statement runs has passed its
checks (`Checked`), and that a row's id is its own (`FreshId`); `AnswersTruthful`
needs that the promise for the present table is among those noted (`Checked`
again), which each step that changes the table renews for all requests under way
(`OthersChecked`). `NoLostUpdate` is an action property: each step is shown to
change only what it was asked to (`FieldsAsAsked`). `WalksAreComplete` has an
invariant of its own, `Ahead`: whom the client has still to see has a rank of at least
the offset. Ranks only grow, as rows are only added; and since the ranks of a finite
set are all the numbers below its size (`RankOnto`), a page after which somebody is
still to come is full (`PageIsFull`).

`ServedOneByOne` is the refinement of `CourierDirectory`. Each step of `Couriers` is
mapped to one of the directory or to none: a refusal to `Reject`, an accepted request
to `Ask`, the last statement to `Serve`, a failed one to `Break`, the answer to
`Reply`, a delivery's status to `SetStatus`; the draw of an id, a row found and the
walk of a client are hidden (`HiddenSteps`). The mapping needs `ChecksAreRight` (the
service refuses exactly what is not legitimate), `Asked` (who waits has a request that
passed), and of the table's invariant that a drawn id is not in use and that nothing is
deleted, so that the row an UPDATE has found is still there.

`Gateway_proofs` and `Worker_proofs`: to the variables of the gateway every step of
the worker is a step of a call or none (`StepOfCall`), so the invariant of a call,
which relates the pause under way to the attempt it follows, holds of all calls, one
after the other. `PausesAreSound` is for every accepted configuration, those with a base
delay of 300 days and ten attempts included, whose last shift would overflow: a retry
but the first comes after the base delay and before the context has ended (`Waited`),
so the base delay is below the time-out and the shift fits (`ShiftFits`). `NothingClosedInUse` needs that claims belong to a session
(`ClaimInSession`) and a session to a call of `Consume` (`InConsume`). `NoErrorIsLost`
is an action property: of all steps only `LookupMissing` leads from a look-up to the
next event, and then the last thing heard was `missing` (`FailureIsReported`).

`Lifecycle_proofs`: nobody holds a connection before `start` (`NotStarted`), no
request is accepted after `Shutdown` (`Closed`), so those that were waited for stay
away (`Quiet`); the pool's own wait gives `NoTransactionCut`. `ProcessLives` shows
that `Process` implements `Lifecycle` (a step of the resolution is a stutter, a
constructor's return or failure a step of its start-up), which carries these results
over to the process. `AcceptedSettingsFit` is for every environment, also for
the combinations that TLC does not try; `AcceptedFits` is its core.
`ServiceFindsAll` follows the resolution: the stack holds `appRun` and constructors of
the service's container only (`Resolving`), their parameters are types of `Needed`
(`ServiceNeeds`), each of which has a constructor (`NeededIsGiven`), so no function on
top of the stack lacks a provider (`NothingLacks`), whatever failed before.

Only model-checked: `CallReturns`, `ExpiredIsFreed`, `EveryMessageAcknowledged`,
`Returns`, `StopsOnSignal` and `StopsWhenAsked`: liveness under fairness is outside
the prover's reach. Every other property of a passing run has a theorem. The three
runs that end in a violation have none, of course; `WorkerResolves` fails in the
deployment as it is, the other two without the hypotheses of the theorems.

## 6. Plan and what is left out

All parts of the plan are done: `Delivery` and `CourierBoard`, `OrderEvents`,
`RateLimiter`, `Couriers`, `Gateway`, `Worker`, `Config`, `Container`, `Lifecycle`
and `Process`, and their proofs. What could follow is a refinement of `RateLimiter`
to one atomic bucket for each client, and several partitions in `OrderEvents`.

### Not modelled

* Logging, metrics and the handlers of the pprof server: output that no part of the
  program reads. That the metric of retries counts what it should is in
  `AttemptsBounded`.
* Generated code (`internal/proto`, `docs`).
* Router, middleware for observation, bodies and headers: no state. The codes of
  the delivery handlers are the replies of `Delivery` one for one. When `Rollback`
  fails too, `WithTx` puts the sentinel error into text (`internal/repository/delivery.go:47`);
  the caller then sees what `Fail` does: an error and no effect. No property is about
  the refusal that turns into an error: liveness assumes that failures end.
* The branch of `ConsumeClaim` for a `PermanentError`: no handler returns one.
* Migrations, except for the constraints that the statements rely on.
* Several workers and a database that loses what was committed: the group
  coordinator and PostgreSQL are taken at their word.
