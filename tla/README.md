# Verification of the CQRS kernel

This directory holds TLA+ models of `turkelk/nestjs-cqrs-kernel` (the `QuanticModule` for
NestJS), TLC configurations that check them on small instances, and TLAPS proofs of theorems
that hold for every value of the constants. The models are translated from the TypeScript
under `src/src/`; paths below are relative to that directory. `PROJECT.json` maps every
definition to the lines it models and lists runs, mutants, hazards, findings and theorems.

Contents: 1 the system, 2 modules and code, 3 runs, 4 fairness, 5 proofs, 6 findings,
7 what is only model-checked or not modelled, 8 plan.

## 1. The system: inventory

A service that imports `QuanticModule` sends every command and query through
`PipelineExecutor`, which nests *behaviors* around the handler:

    command:  Log > Performance > FeatureFlag > Validate > Workflow > Cache
                  > DistributedLock > Transactional > handler
    query:    Log > Performance > FeatureFlag > Validate > Cache > handler

Handlers store rows, and outbox events among them, in the transaction of the command. A timer
in every replica publishes outbox events to Redis streams; consumer groups read the streams
and call handlers again. Around all that stand HTTP middleware, guards, an interceptor and an
exception filter.

| Component | State it keeps | Operations | Interacts with | What makes it correct |
|---|---|---|---|---|
| TransactionalBehavior, TransactionContext, getTransactionalRepo | the QueryRunner in an AsyncLocalStorage; its connection and transaction | join, or create, connect, begin, commit or roll back, release | pool and database; nested commands inherit the store | a unit of work is atomic at any nesting depth; success means durable, failure means nothing; each handler uses the runner of its unit; connections go back; every call settles |
| DistributedLockBehavior | a Redis key with a TTL and the execution's uuid | SET NX EX with retries until a deadline, next(), release by script | Redis; encloses the transaction | one holder while leases run; nobody releases another's key; a Conflict only after contention; the key never outlives its command by more than a TTL |
| PipelineExecutor | two arrays of behaviors | executeCommand, executeQuery | all behaviors, both buses | order of the chain; every call is answered with a Result |
| Log-, Performance-, FeatureFlag-, Validation-, Workflow-, CacheBehavior | a histogram; a cache entry with TTL; processes in the engine | around next() | Unleash, validators, a WorkflowEngine, Redis | nothing refused has an effect or gets a value; a reply tells what was stored; a workflow command is handed over or run, not both; metrics agree with replies; bounded staleness |
| OutboxPublisherService, OutboxEvent, RedisStreamPublisher | the table; `timer`, `processing`; entities of the current cycle | poll, publish, save, route to the dead-letter stream, destroy | database, Redis streams; other replicas | at-least-once delivery; an event is settled once, and in the end; duplicates have a cause; first attempts keep their order |
| RedisStreamConsumer | `running`; Redis' group and pending lists | init, recovery, read, handle, XACK, back off, destroy | Redis streams; `handleMessage` | nothing is acknowledged unhandled; duplicates and pending entries have a cause; order; the loop never dies |
| GracefulShutdownService | none | drain with time-out, close database, quit Redis | commands in flight | drained commands keep their connection; what is cut off stores and claims nothing; it always ends |
| HTTP edge: middleware, guards, ResultInterceptor, GlobalExceptionFilter | correlation and tenant stores in the async scope of a request | per request | LogBehavior, TenantSubscriber | one response per request, whose status tells what happened, with the request's correlation id |
| TenantSubscriber, entities | a session variable of a connection | before insert, update, remove | QueryRunner of the unit of work, tenant store | statements run under the organization they belong to; nothing is inherited with a connection |
| LogBehavior's masking | none | maskPayload | every command | no secret in a log entry |
| Result, CircuitBreakerFactory, MetricsService, modules, bootstrap, testing helpers | none of their own | | | pure functions, wiring |

What is hard: every `await` is a point where other requests go on; a call to Redis or the
database can fail before or after it took effect, and the code cannot tell; leases run out and
processes end between two steps; several replicas work on one table, one key, one consumer
group; commands nest, with and without `await`, isolated or not; two layers catch exceptions,
and the framework raises one of its own after every EMPTY stream. `PROJECT.json` lists these
hazards line by line under "hazards".

## 2. Modules and code

| Module | Models | Composes or extends |
|---|---|---|
| `UnitOfWork` | TransactionalBehavior, TransactionContext, getTransactionalRepo | implements UnitPromise |
| `UnitPromise` | what a unit of work promises, without how | |
| `DistributedLock` | DistributedLockBehavior and the Redis commands it sends | |
| `LockedUnitOfWork` | lock and transaction as runPipeline nests them, with read-modify-write handlers | extends UnitOfWork, instance of DistributedLock |
| `Shutdown` | GracefulShutdownService against the units of work under way | extends UnitOfWork, and an instance of it on a closed pool |
| `OutboxPublisher` | OutboxPublisherService with RedisStreamPublisher, replicas | implements OutboxPromise |
| `OutboxPromise` | what an outbox promises, without how | |
| `StreamConsumer` | RedisStreamConsumer, group and pending lists | implements GroupPromise |
| `GroupPromise` | what a consumer group promises of each entry, without how | |
| `Pipeline` | PipelineExecutor and the six behaviors outside of lock and transaction | extends LogMasking |
| `LogMasking` | maskPayload and sanitize of LogBehavior | |
| `HttpExchange` | middleware, guards, ResultInterceptor, GlobalExceptionFilter | |
| `TenantScope` | TenantSubscriber on the connection of a unit of work | |
| `Edge` | both, over one tenant store | extends HttpExchange, instance of TenantScope |
| `MCEdge` | headers and saves of the run's requests | Edge |
| `UnitOfWork_proofs`, `DistributedLock_proofs`, `OutboxPublisher_proofs`, `StreamConsumer_proofs`, `Pipeline_proofs`, `Edge_proofs` | theorems about the module they are named after | that module and TLAPS |
| `LockedUnitOfWork_proofs`, `Shutdown_proofs` | theorems about the two modules built on UnitOfWork | that module and UnitOfWork_proofs; the first has an instance of DistributedLock_proofs |

Conventions. A variable `pc` names the `await` (or the synchronous stretch behind it) at which
an execution stands; one action is one such stretch, so that actions interleave exactly where
JavaScript lets other work in. A `...Fails` action is a rejected promise; where a call may fail
after it took effect there is a second action or disjunct for it (`CommitReplyLost`, `Resend`,
"ackReply"). Which calls may fail is the constant `Faults`. Variables marked *history* are
written and never read by actions; properties use them. Definitions called *Faulty variant*
are not part of any specification: each is a plausible bug of the definition that follows it, and
`PROJECT.json` ("mutants") names the property that finds it.

**UnitOfWork.** `Dispatch(c, p)` is a call of execute() by a controller or by the handler of
`p`; what `c` takes over from the async scope of `p` is `Inherit`, and `ambient[c]` is what
`TransactionContext.get()` returns to `c`. `Joins` is the test of L32, `Create` to `Begin`
are L37-39, `Write` a statement through getTransactionalRepo, `HandlerReturns` the settling of
next(), then `Commit`, `Rollback` (in the try and in the catch block) and `Release` (finally).
The database is external: a failed statement aborts the transaction, and a COMMIT of an
aborted one rolls back silently. A command writes one row. Row locks are not modelled.

**UnitPromise.** The abstract unit of work has no runners, connections or statements: rows are
written in it, it ends once, and at that moment all of its rows are stored or none; its creator is
told once, and honestly. There are two excuses, each a thing the code cannot see: a unit *spoiled* by
a failed statement (its COMMIT stores nothing and succeeds) and one *in doubt* (the answer of its
COMMIT was lost). The mapping stands in UnitOfWork (`Promise`): units that a command joined
without being awaited are not bound, and the excuses are the history variable `mishap`. Without a
DataSource there is no unit to promise anything (`NothingWithoutDataSource`), so the refinement is
claimed with one.

**DistributedLock.** Time is kept as what is left: of the TTL in Redis (`store`), of the
holder's lease, of the deadline, of the sleep. `Tick` lets a unit pass for all of them, so
nothing bounds how long the system runs. `SetNX` is the effect in Redis and `Answer` the
arrival of its answer, with `Resend` (ioredis repeats unfulfilled commands) and `SetFails` in
between; the lease already runs meanwhile. `Release` runs the script (`Delete`).

**LockedUnitOfWork.** next() of the lock is execute() of the transaction: `Enter` starts in
UnitOfWork what DistributedLock let through, `Leave` hands its reply back. Between the call
and `Enter` lies the wait for the lock. A command that its caller does not await may come
through it when the caller's handler has returned; it still enters in the async scope it was
called in, so `Enter` takes `Inherit` without Dispatch's condition on the caller's handler.
Handlers read the committed rows (and their unit's) before they write.

**Shutdown.** `phase` walks through onModuleDestroy: `Signal`, then the drain, which ends
by itself (`Drain`, `DrainFails`) or by the timer of withTimeout, `CloseDatabase` or its failure,
`QuitRedis`, `Exit`. drainWork is empty in the base class; its overrides are covered by the constant
`Drained`, the commands it waits for, and by the timer that may always fire first. Closing the
database ends every session (`EndSessions`); from then on each command takes the steps that
need no database or fails at the next one that does (`OnClosedPool`, UnitOfWork with those
faults). Commands keep arriving until the process ends, because NestJS runs the hook before it
closes the server.

**OutboxPublisher.** An event is its `createdAt`. `Insert` makes events visible in any order,
because transactions commit in any order. `Poll` reads the table into the entities of an
instance; `Publish`, `Save`, `CatchError`, `RouteToDlq`, `SaveError` follow the loop, each with its
failure, `EndCycle` is the finally block that resets `processing`. `Save` writes the entity
over the row as it is *then*, which is how replicas overwrite each other.

**StreamConsumer.** `ReadPending` is readMessages('0'), `ReadNew` readMessages('>'), `batch`
the entries of the answer not yet dealt with. `Abandon` is the outer catch block, `HandleFails`
and `AckFails` the inner one; `SkipFails` is the XACK of a skipped entry, which stands outside
the inner one. `Stop` is onModuleDestroy, `End` the end of the process at any
moment, `Start` the next one under the same consumerName. `Trim` is the publisher's MAXLEN:
an entry trimmed while pending comes back with nil fields (`MeetEmpty`).

**GroupPromise.** The abstract group has no loop, reads or answers: an entry is given to one member,
stays with it through failures and restarts until it is settled, and is settled only when it was
handled or shouldHandle refuses it (`Foreign`). One excuse is a lost entry (trimmed before anybody was
given it), the other a handling *in doubt*: an entry that was handled, and whose XACK met an error or
whose process ended before it, may be handled again, by the same member. `Promise` in StreamConsumer maps the pending lists to `holders`.

**Pipeline.** A run is one passage through a chain. `at` is its position; without a reply it goes
down (`Descend` is next()), with one it goes up (`Ascend`). Behaviors without metadata call
next() synchronously and take no step. The transaction and the lock appear as one step
for each way they may go, because the other modules open them up; the database is a version number
that a commit increments and a handler returns. COMMIT has all of its outcomes: it stores (`Commit`), it
resolves and stores nothing because an error that the handler caught had spoiled the transaction
(`CommitSpoiled`), it stores and its answer is lost (`CommitReplyLost`), or it fails (`Rollback`, which may
itself reject). A run is a command with its origin: `<<x, "client">>` is the call of a client, `<<x, d>>` a
callback of the engine, which executes a command it has accepted as often as it likes (retries,
`docs/specs/SPEC-kogito-workflow-behavior.md` L478; the handler runs each time, L481): once for each `d` in
`Dispatch`, and callbacks overlap with each other and with the call. `passed`, `mishap`, `committed` and
`lost` are history.

**LogMasking.** sanitize calls itself at most MAX_DEPTH = 2 levels down; `MaskPayload`,
`Nested` and `AtMaxDepth` are its three levels, `Sanitize` the one body they share.
`EveryPayloadIsMasked` looks at what is logged of every command of a set that has secrets at all
depths, one below the limit included, in objects and in arrays of 1, 5 and 6 items.

**HttpExchange, TenantScope, Edge.** The order of the stages is NestJS's with what
bootstrapService registers; both are in the header of the module. `raised` is the exception
or failed Result on its way to whoever catches it: `SendResultError` is sendResultError as
switchMap and catchError call it, `Filter` the global filter. After every EMPTY stream Nest raises
one more exception, so that `SendResultError` always leads to `Filter`, which has to find the headers
sent. `response.own` tells a response that the handler itself has written (@Res()) from the others.
`EnterTenant` is L12 of the middleware as it stands, the organization of `req.user` before the header;
`user` is set by `Authenticate`, one stage later. `TenantScope` is the subscriber: SET LOCAL on the connection of the unit of work, the
statement of the same save, COMMIT, and the connection's next user. `Edge` lets the
handlers of HttpExchange do the saves of TenantScope; both read the tenant store.

## 3. Runs

| Run | Instance | Question it answers |
|---|---|---|
| `uow` | 3 commands in all dispatch trees, one isolated, one not awaited, pool of 2, all six faults | refinement of UnitPromise; what creators report agrees with the database; runners; connections; nobody waits in a circle; every execute() settles |
| `uow_leak` (violation) | 2 commands, startTransaction may fail | a connection leaks |
| `lock` | 2 locked commands on one key and one without a lock, TTL 2, time-out 2, delay 1; SETs sent twice or failing, lost releases, crashes | exclusion, ownership, orphans, honest Conflict, every command settles |
| `locked_uow` | 2 locked commands that may call each other, one isolated and not awaited; lost releases, failed statements, lost answers of COMMIT | no lost update |
| `locked_nested` (violation) | an unlocked caller nests locked commands | the exclusion does not reach the commit of the caller |
| `shutdown` | 2 commands over one connection, one isolated (they can wait for each other), all database faults; a drain that waits for one of them, fails or hangs; destroy() that fails | drained commands are spared; cut-off ones leave nothing; the shutdown ends |
| `outbox` | 1 replica, 2 events, 3 attempts, batch 2, all faults, restarts | refinement of OutboxPromise, settlement, causes of duplicates |
| `consumer` | 2 instances, 2 entries of which one is foreign, all faults, trimming, restarts | refinement of GroupPromise, duplicates, pending entries, order, progress |
| `consumer_recovery` (violation) | 1 instance, 3 entries, answers of 2 | recovery reads one answer only |
| `pipeline` | 1 query and 1 locked workflow command with fallback skip, both flagged, validated and cached; the engine calls back twice; TTL 2; all faults; at most 3 runs begin (`MaxRuns`) | replies and effects, refusals, handed over or run here, staleness, metrics, masked logs, answers |
| `edge` | 2 requests of different tenants (one guarded, one public that may answer by itself), 4 saves, one connection | statuses, ids, organizations, every request comes to its end with a response |
| `http_pipes` (violation) | the same | what the ValidationPipe refuses is answered with 500 |

Why the bounds are enough. Three commands give every shape the unit of work tells apart: two
levels of nesting, siblings, an isolated one inside and outside a joined one; pool 2 is the
smallest in which one isolated command can wait for a connection inside another and still get
it. Two contenders let a key go from a holder whose lease ran out to a second one while the
first is still in next(), and back; TTL and time-out of 2 let a lease run out during next(),
during an answer and during a retry. Two events suffice for order, and three attempts for the
difference between "first", "again" and "last". Two entries and answers of two let an error in
the first leave the second pending. A cache TTL of 2 distinguishes a fresh entry from one about
to end. The query and the command have every decorator there is for them, so that each check stands before
each effect, in both chains; flags and the validator's verdict are free. Call and two callbacks are
three runs of the command: a value can be overtaken more than once, and two callbacks overlap. With the query
there are four runs, any three of which may begin (`MaxRuns`). Of the two requests at the edge one carries a correlation id and an
organization and saves first an entity of another organization and then one without any; the
other carries neither and lets its saves overlap; with one connection each can follow the other
on it. For every safety property the theorems of section 5 lift these bounds. Two replicas of the outbox and three contenders for a lock
have no run for that reason: the theorems cover any number.

Deadlock is checked except where a run really stops: leaked connections can empty the
pool (`uow`, `uow_leak`), and `locked_*` and `pipeline` end when every command has run.

Bounds that the models set by themselves: each command, run, request and event exists once;
`errors` and `failures` in the outbox saturate at MaxAttempts (the code never tells larger numbers
apart); `behind` in Pipeline stops counting beyond the TTL, and `MaxRuns` limits how many of the runs of a
behavior of Pipeline begin.

## 4. Fairness

- `UnitOfWork`: weak fairness of what an execution does by itself, because the event loop runs every
  ready continuation and a handler is assumed to return; strong fairness of `Connect`, because
  the pool serves its waiters in order. No failure is ever bound to happen.
  `EveryCommandSettles` is claimed unless a connection has leaked (section 6), after which waiters
  may wait for ever. It also needs a pool larger than the number of commands that
  may wait for a connection while their caller holds one; below that two isolated nested
  commands block each other for ever, which is a limit of the design a user has to know.
- `DistributedLock`: time passes, ready continuations run, and an answer that is sent again and
  again arrives in the end.
- `Shutdown`: only that the timer fires, destroy() and quit() settle and the process ends.
  Nothing is assumed of commands or of drainWork, which may hang; one weak fairness of all the steps
  of onModuleDestroy together is enough, because they form one sequence.
- `OutboxPublisher`: timers fire and calls are answered; a stopped process ends and its
  successor starts; processes do not crash for ever; of the saves in the catch block repeated
  for ever one succeeds. Without the last, an event whose row cannot be written stays Pending,
  rightly.
- `StreamConsumer`: the loop's steps are taken, a stopped process is ended and restarted,
  stops do not go on for ever, and a read that is possible again and again succeeds once.
- `Pipeline`: some run that can go on does. Every run is finite, so this is enough for all. Nothing is
  assumed of the engine, which may never call back.
- `Edge`: bodies arrive, guards and pipes settle (weak fairness per request); handlers come to an
  end and get a connection from the pool, which serves its waiters in order (strong fairness).

## 5. What is proved

TLAPS checks eight proof modules. Their theorems hold for every value of the constants, from the
named assumptions of the modules only, which TLC evaluates in the runs. Every safety
property a passing run checks, and each of the three refinements (UnitPromise, OutboxPromise,
GroupPromise), is stated by a theorem; `PROJECT.json` names it. The type invariants are proved as well
(`TypeCorrect`), and for that reason the runs do not list them.

**UnitOfWork_proofs.** `RunnerIsolation` (RunnerOfUnit), `Connections`
(ConnectionLifecycle), `Atomicity` (AtomicUnit), `Durability` (SuccessIsDurable), `NoResidue`
(FailureLeavesNothing), `Implements` (KeepsPromise), `DeadlockFreedom` (NeverStuck) and `Progress`. None of these is inductive alone: that a creator's COMMIT stores exactly
the rows of its unit depends on who may still be writing. The inductive invariant `IInv` is a
conjunction of

- `IdleInv`: what has not been called has no state;
- `TreeInv`: dispatching forms a forest ordered by `depth`, and a joined command has its parent's unit;
- `AwaitInv`: an awaited command that runs has a caller that is still in its handler;
- `RunnerInv`: the ambient runner is the unit's;
- `TxInv`: the state of a transaction at each step of its creator;
- `ReplyInv`: a reply exists if and only if it is settled;
- `RowsInv`: rows written are pending in the unit's open transaction, durable, or discarded;
- `OutcomeInv`: which of these, by the creator's reply;
- `MishapInv`: nothing befalls a transaction before it is aborted or over.

The step that needs an argument is COMMIT: lemma `OpenerWaits` shows that while any command of
a supervised unit is in its handler, so is the opener (by the command of smallest
depth that contradicts it, lemma `Smallest`), hence nothing is written behind the commit. The
lemmas are stated for `Moves`: a step of UnitOfWork, or the start of a command some time after
its call. Two further modules build on that.

`Implements` is the step simulation of UnitPromise, with a DataSource. Commands of different units
may touch the same variables, so it goes unit by unit: for each action and each bound unit the step
is a stutter (`Stays`), a `Write`, a `Spoil`, a `Finish` or a `Tell` of the abstract module. The
lemma `PromiseStep` asks for `Moves` only, for the sake of the two compositions.

`DeadlockFreedom` is the safety half of EveryCommandSettles: in every reachable state in which some
execution runs, some running execution can go on, if the pool is larger than the number of commands that
are awaited and isolated inside another one plus the connections that have leaked. `Movable` spells
out when an execution can go on, because the prover has no ENABLED. The argument: take the running command
of greatest depth (`Deepest`); nobody it awaits runs, so it can be kept only by Connect on an
empty pool (`DeepestWaits`). Then all other connections are out, and the holder of each of them is at a step
of its own, or is in its handler and awaits an isolated command (`HolderWaits`, from `NestInv`),
so that the holders can be counted against the callees they wait for (`Countable`, `StuckPool`). The bound is
sharp: with one connection fewer the two commands of section 4 block each other.
`Progress` adds that every step takes some execution or transaction further and none back, in at
most 12 steps for each command. What TLC contributes to liveness is thereby only the
fairness: that a command which can move is not passed over for ever.

**LockedUnitOfWork_proofs.** `Serial`: NoLostUpdate for any number of commands, keys and any
dispatch tree. `LockInv` says that a command whose lease runs owns its key in Redis;
`CallerInv` that a command which enters late finds its caller where `Moves` requires it,
so that `IInv` carries over (`TxPart`); `ReadInv` that a handler reads before it writes. `OrderInv`
is the heart: whoever is inside the lock and has read, has read what every contender that has
left the lock made durable. With two contenders never inside together (`OneInside`), and
rows made durable only by the commit of a command inside (`NewRows`), of two contenders whose
rows are durable one has read the other's. The composition keeps what its parts promise:
`LockedImplements` (UnitPromise) and `UnitsHold` (runners, connections, successes, failures) although nested
commands start late; `LocksImplement`: every step is a step of DistributedLock or leaves it alone; hence
`LocksHold`, the lock's theorems applied to locks around real transactions.

**Shutdown_proofs.** `Spared` (DrainedAreSpared) and `CutOff` (CutLeavesNothing). Until the pool is
closed `IInv` holds (`OpenInv`); at that moment it tells of each command that is cut off
where it stands and that nothing of its unit is durable; from then on (`ClosedInv`) such a command
only moves along the failing paths. `ShutdownImplements` extends the promise to the whole life of the
process: a unit that is cut off still ends as UnitPromise allows, and so does one that begins on the
closed pool (`AfterInv`).

**DistributedLock_proofs.** `LeaseHeld`, `MutualExclusion` (MutexWithinLease),
`ReleasedByOwner` (OnlyOwnerReleases), `NoOrphans` (NoOrphanLock) and `HonestConflict`
(ConflictOnlyAfterContention). The invariant relates Redis to the executions: whoever was
answered OK and whose lease has time left owns the key, with as much TTL left (`LeaseInv`), and
absent keys have no owner (`StoreInv`). Mutual exclusion follows because a key has one owner. `AskInv`
says where the owner of a key can be and what must have befallen one that is over.

**OutboxPublisher_proofs.** For any number of replicas: `PublishedIsDelivered`,
`SettledByCause`, `DeadLettered`, `OldestGoesFirst`. The invariant ties the row of each event to
its stream and history (`RowInv`), the entity each replica holds to the row it was read from
(`EntityInv`), although another replica may have overwritten the row since, and what a replica has
in hand to the order of creation (`OrderInv`). With one replica (`OneReplica`) an entity in hand
still agrees with its row (`SoloInv`): `Duplicates`, and with Redis `Implements`, the step
simulation of OutboxPromise. With two replicas neither would be true.

**StreamConsumer_proofs.** `Implements` (KeepsPromise, entry by entry: the pending lists are the holders),
`NothingAckedUnhandled`, `Duplicates`, `Pending`, `Order`, for any number of instances and entries and answers of any size. The invariant says of every pending
entry that it is in the answer in hand or has met with an error, and of every handled one that is still
pending that its acknowledgement is due or was lost.

**Pipeline_proofs.** `Effect` (ReplyTellsEffect), `Refused` (RefusedGetsNothing), `Handover`
(RunHereOrHandedOver), `Stale`, `Metrics`, `Masked`, `SecretsDoNotShow`, for any number of commands and
queries with any decorators, and for any number of callbacks, whenever they come. `RunOK` says at each position of the chain what the reply, the commit and
the observation can be; `CacheInv` bounds the age of an overtaken entry by what has passed of its TTL.
`Masked` is PayloadIsMasked, for the commands of the set `Commands` that TLC evaluates it on. That set
is bounded, so `SecretsDoNotShow` states the same for payloads of any shape and size, as
non-interference: two that differ in nothing but what is under PII fields, in excluded fields and below the
limit of depth are logged alike.

**Edge_proofs.** `EdgeIsExchange` shows that saves only add to the exchange, so that what is proved
of HttpExchange holds in Edge: `HonestStatus` (by stage, `StageInv`), `Correlated` and
`TokenComesTooLate` (`OwnInv`). `OneResponse` says that of the many parts that may write a response (interceptor, filter, handlers with
@Res()) none writes over what another has sent, and that no request ends without one.
`TokenComesTooLate` states what section 7 says of the tenant: whatever a token names, the header decides.
`OwnTenant` and `NoInheritance` rest on `TenantInv`: connections are not shared,
and their setting is one that a save of the open transaction asked for.

The proof modules use no recursion. Liveness, everything about ENABLED, and statements by
induction over data structures are beyond the prover and are left to TLC.

## 6. Findings

1. `uow_leak`: TransactionalBehavior.ts:39 stands outside the try block, so a startTransaction()
   that rejects leaves its connection unreleased. `ConnectionLifecycle` shows it is the only leak.
2. `locked_nested`: a locked command nested in another one releases its lock before the
   caller's commit; two requests can lose an update although both locked the key.
3. `consumer_recovery`: the recovery reads one answer of COUNT 10. Pending entries beyond
   that wait for the next restart; "before reading new ones" does not hold for them.
4. `http_pipes`: pipes run inside the interceptor, whose catchError answers their exceptions
   with 500 INTERNAL_ERROR. The branch of the filter that renders a refused body as 400
   VALIDATION_ERROR is reached only by the body parser.

## 7. Only model-checked, and not modelled

Only model-checked: liveness, because the prover handles neither fairness nor ENABLED in these proofs.
`DeadlockFreedom` and `Progress` are the parts of EveryCommandSettles that can be proved without them.

Noticed while modelling, and not turned into a run because no property of a run can state it or
the documentation does not commit the code to it:

- TenantContextMiddleware.ts:11 prefers the organization of the verified token, but guards run after
  middleware: `req.user` is not there yet, and the header decides. The model takes the code as it is
  (`EnterTenant`), the theorem `TokenComesTooLate` says that no request escapes this, and `UnderOwnTenant` is
  to be read with it: the organization a request came with is the header's.
- For the same reason the `userId` in the correlation store is always undefined.
- TenantSubscriber.ts:8-12 speaks of row-level security for every statement; no hook runs for SELECT.
- RedisStreamConsumer.ts:26 "finishes in-flight message": onModuleDestroy sets a flag and
  does not wait, so the process may end before (action `End`).
- `logExclude` is not handed down to nested objects (`Nested` in LogMasking).
- A COMMIT whose answer is lost (`CommitReplyLost`) is reported as a failure of rows that are stored, and
  COMMIT of a spoiled transaction as a success of rows that are not; the code cannot see either.
  `ReplyTellsEffect` names them as the only two.
- A handler with @Res() that never writes leaves its request open; fairness assumes handlers that do.

Not modelled:

- row locks of PostgreSQL: a nested isolated command that updates a row of its caller would wait for ever
  (hazard listed without a property);
- the interpolation of lock and cache keys, extractBuildId, Result.map and unwrap, the formatting of
  validation errors: pure functions of strings without interplay;
- the circuit breaker (one call of a library), the wiring of modules, options of the logger, mocks for tests;
- signalProcess and abortProcess of WorkflowEngine and the metrics that nothing in the repository
  updates: they have no caller.

## 8. Plan

Done, in this order: the unit of work first, since all writes pass it; the lock and the composition of
both; the outbox against its promise; the consumer; the pipeline; the HTTP edge with the tenant's
scope; the shutdown; the masking of logs; and the proofs of section 5.

What would come next:

1. `EventDelivery`, OutboxPublisher and StreamConsumer over one stream: an event whose command committed is
   handled at least once unless it was dead-lettered or trimmed. Both halves are proved apart, each
   against a promise (`OutboxPromise`, `GroupPromise`), so that the composition can be stated over the two
   promises first.
2. Row locks in UnitOfWork, with the deadlock of an isolated nested command as a run.
3. Deadlock freedom behind the lock and at the edge, by the argument of `DeadlockFreedom`: there a
   command also waits for a key, and the wait is bounded by the deadline.
