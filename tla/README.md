# Verification of txoutbox

txoutbox moves rows of an outbox table to a message broker. An application
inserts a message in the transaction that makes it necessary; one or more
*relays* claim batches of rows under a lease, publish them, and write the result
back. This directory holds TLA+ models of that machinery, the TLC runs that check
them on small instances, and TLAPS proofs that hold for every instance.

Paths below are those of the repository (`src/txoutbox/...`); `map` in
`PROJECT.json` gives the lines every definition stands for.

## 1. Inventory

| Component | State | Operations | Talks to |
|---|---|---|---|
| `Relay.run_once` (`relay.py`) | the claimed batch, the list `acked`, per-group progress, a semaphore | claim, `_group_by_key`, `_publish_group`, `_handle_failure`, `_block_rest`, `_report`, the shielded ack in `finally` | storage, publisher, hooks, backoff |
| `Relay.run` (`relay.py`) | `_stopping`, `_task`, signals seen, handlers to restore | `run`, `_loop_step`, `stop`, `wake`, `__aenter__`/`__aexit__` | `run_once`, poller |
| `RelayConfig` (`relay.py`) | numbers | validation, `worst_case_round`, warning against the lease | `Relay` |
| `AdaptivePoller` (`poller.py`) | current interval, wake-up event | `wait`, `wake`, `busy`, `idle` | `Relay.run`, listener |
| `Backoff` (`backoff.py`) | none | `delay(attempt)` | `_handle_failure` |
| Storage protocol, hooks (`protocols.py`) | none | the contract of an adapter | every storage |
| `SqliteStorage` (`adapters/sqlite.py`) | the outbox table | `add`, `claim`, `ack`, `nack`, `release`, `dead_letter`, `purge`, `stats` | sqlite |
| `MemoryStorage`, `MemoryPublisher` (`adapters/memory.py`) | the rows in a list | the same | tests |
| `PostgresStorage` (`adapters/postgres.py`) | the outbox table; transactions open at the same time | the same; claim under an advisory lock | postgres, `Relay.run_once` |
| `Listener` (`adapters/postgres.py`) | connection, deferred wake-up, reconnection task, a slot of the pool | start, notification, termination, reconnect, close | `Relay.wake`, the pool it shares with the claims |
| `message.py`, `testing.py`, Django example | none | encoding; test kit; example adapter | |

**What is hard here.** Several relays, possibly on several hosts, share one table
and only the lease and the `leased_by = worker_id` fence separate them. Every
`await` is a point where the lease may run out, another worker may claim, the
task may be cancelled or the process may die. A storage call may raise although
its statement is executed, now or later. A publish may time out although the
broker gets the message. Within all that the code wants: nothing lost, order per
key across retries and workers, an `attempts` counter that counts tries, dead
letters at exactly the configured attempt, no key held up for ever. The
`hazards` of `PROJECT.json` list the places, each with the properties that watch
it.

**What makes each part correct.**

* *Round and table*: a row is done or gone only after the broker accepted it;
  first deliveries of a key in insertion order; a running lease is ended only by
  its holder; a verdict is final; parked only after `max_attempts`; attempts
  count tries; every message is settled in the end.
* *RelayConfig*: `worst_case_round` bounds a round, because the lease is checked
  against it.
* *Run loop and poller*: no wake-up is lost, `stop` always ends `run`, cancelling
  `run` ends it.
* *Postgres claim*: the claim of the SQL, on a snapshot and with `SKIP LOCKED`,
  still hands a key out whole and in order, and `visibility_delay` keeps a lower
  id from being committed behind a claimed one.
* *Listener*: it is connected again after a loss, a notification wakes the relay,
  no slot of the pool leaks, and `close` ends and leaves nothing behind.
* *Backoff*: the delay lies within its bounds for every attempt.

## 2. Modules

| Module | What it is |
|---|---|
| `OutboxTable` | the table and its operations as operators, each one transaction |
| `OutboxRelay` | workers running rounds over the table, with faults and time; the properties |
| `DeliveryContract` | abstract specification: what an application is promised |
| `RoundSchedule` | how long one round lasts under semaphore and timeout |
| `RelayLifecycle` | `Relay.run`, its poller, signals, cancellation, the context manager |
| `MemoryClaim` | the scan of `MemoryStorage.claim`, record by record |
| `PostgresStorage` | producers, claims and write-backs as concurrent transactions |
| `Listener` | `LISTEN`/`NOTIFY` on a pooled connection, next to a claiming relay |
| `MCOutboxRelay`, `MCMemoryClaim`, `MCPostgresStorage` | symmetry, initial tables and constructor options for TLC |
| `OutboxRelayProofs` | lemmas about the operators of `OutboxTable`; type correctness, final verdicts |
| `OutboxOrderProofs` | the delivery invariant: order and no loss; `OutboxRelay` implements `DeliveryContract`; the fence; no early dead letter |
| `OutboxLeaseProofs` | nothing is overtaken; mutual exclusion and what rests on it |
| `PostgresProofs` | locks, the fence, order of a key, ids against commits |
| `RelayLifecycleProofs` | types, signals, cancellation; stop and wake for a call that is alone |
| `MemoryClaimProofs` | the scan selects what the query selects |
| `ListenerProofs` | slots, close, one reconnection |
| `RoundScheduleProofs` | the two bounds on the length of a round |

### OutboxTable

`rows[i]` is the row with id `i`: status, key, attempts, `retry_at`, `leased_by`,
`lease_until`, and whether an error is recorded. Ids are insertion order, as with
AUTOINCREMENT, and are not used again after a deletion. `ClaimSet` is the SELECT
of `SqliteStorage.claim` (pending, due, not under a running lease, not held back
by an earlier pending row of the key that is leased or waits, first `BatchSize`
by id); `Claim` is its UPDATE. `Ack`, `Nack`, `Release`, `DeadLetter` are the
four write-backs, all with the `leased_by = worker_id` condition and nothing
else: neither the status of the row nor the age of the lease is asked. `claim`
reads and writes in one `BEGIN IMMEDIATE` transaction and the write-backs are
single transactions, so one operator application is one step.

*Time is relative*: `retry_at` and `lease_until` hold the ticks left, and 0 means
NULL or past. The code only compares the columns with `now`, so nothing is lost
and no clock has to be bounded. Rates of different clocks, and the short time
between reading `now` and taking the lock, are not modelled.

### OutboxRelay

`task[w][i]` is what the current round of worker `w` does with message `i`:

| stage | in the code |
|---|---|
| `todo` | claimed, its turn in `_publish_group` has not come |
| `sending` | `publisher.publish` awaited under `publish_timeout` |
| `sent` | in `acked`; waits for the ack in `finally` |
| `failed` | publish raised; `nack` or `dead_letter` awaited |
| `held` | in the rest of the group; `_block_rest` releases it next |
| `none` | not in the round, or reported |

The actions follow the awaits: `ClaimBatch`, `StartPublish`, `PublishOk`,
`PublishRaises`, `Report` (one storage call of the round executed). The decision
between `nack` and `dead_letter` and the retry time are fixed when the publish
fails, from the attempts read at the claim; the write happens at a later step.
The rest of a group is released after the report of its failed message, whether
that report succeeded or was only logged; the ack comes when every group has
ended. The semaphore admits groups in the order `asyncio` queues them.

Faults, each counted against `MaxFaults`:

| action | what happens |
|---|---|
| `ClaimLost` | the claim is committed, `run_once` never sees the batch: the answer is lost, or the claim was cancelled and commits when its worker is in a later round or down |
| `PublishTimeout` | the publish ends in error, the message is still on its way (`wire`) and may `Arrive` at any later time |
| `PublishCancelled` | the publisher raises `CancelledError` itself: the TaskGroup drops that group and nothing is reported for the rest of it, the other groups go on |
| `ReportError` | a storage call raises; the statement may be executed later (`ExecuteLate`) or not at all (`LoseLate`). Executed *before* the error is the case where `ExecuteLate` follows at once |
| `CancelRound` | the round is cancelled: awaited publishes and storage calls go on by themselves, the ack of `finally` is still made |
| `Crash`, `Restart` | the process dies at any point and may come back under its old `worker_id` |

An ordinary failure of a publish is not a fault: it may happen at every try.

`Produce` inserts, `PurgeDone` deletes done rows of any age, `Tick` lets time
pass. An empty claim changes nothing and is a stuttering step. An idle worker may
claim at any time, which covers every pause `Relay.run` may make between rounds.

The constant `Timely` chooses between two worlds. With `FALSE`, leases run out
under working rounds at will. With `TRUE`, a lease does not run out on a worker
that still has the message in its round or in a call it issued: what the
configuration of the lease is there to ensure (see the finding in section 6 for
when the code's own check of it is not enough). Which properties need it is part
of the result: `RoundHoldsLease`, `AttemptsCountTries`, `AttemptsBounded` and
`NoDuplicates` do; the order of a key, `NoOvertaking` included, the fence, the
verdicts and the contract do not.

### DeliveryContract

Keys, verdicts and the set of accepted messages; no workers, leases or time.
`Submit`, `Deliver`, `Confirm`, `Park`. The refinement mapping takes `done` and
`deleted` to `delivered`.

### RoundSchedule

One batch with any assignment of keys, publishes that take any time up to the
timeout and succeed or fail, the semaphore, and a clock. Storage calls take no
time, as in the code's own estimate. Only one round, so the rest of `OutboxRelay`
is not needed; stages and admission are the same. A publisher that raises
`CancelledError` ends its group as a failed publish does, so it is no step of its own.

### RelayLifecycle

`loop[l]` is the call of `run` in task `l`: the await it is suspended at, whether
a cancellation is pending and whether it found a pause already woken, whether the
`finally` clause of `run_once` is running because of one, its signals, how it ended. Shared by the calls: `_stopping`, the
event and the interval of the poller, and whose `on_signal` is installed. Several
tasks may run one relay, as `test_stop_ends_every_loop_sharing_a_relay` does, and
a relay may be run again.

An action goes from one await to the next. A task that was cancelled sees
`CancelledError` when it is next resumed (`Notice`): in a pause it leaves through
the `finally` of `wait`, in a round through that of `run_once`, with an ack if a
message was accepted. `Event.set` wakes everybody who waits, also if the event is
cleared before they run (`Notify`). `__aexit__` cancels a task that has not begun,
passes a cancellation of its own on to the relay task and raises `CancelledError`
only if it was itself cancelled. What a pause lasts is left open, and no property
relies on its timeout.

A cancellation can be lost, which the history field `dropped` records:

| where | how | action |
|---|---|---|
| claim | leaving the transaction or the pool (`postgres.py:199`) raises while the cancelled claim unwinds, for one because the connection is gone; `relay.py:223` pauses | `Swallow` |
| hook | `on_claimed` or `on_round` is cancelled and raises another error, which `_hook` logs; the round goes on | `Swallow` |
| ack | the ack in `finally` raises while a cancelled round unwinds; `relay.py:223` pauses | `AckRaises` |
| pause | `wait_for` of Python 3.11 returns normally when the event was set before the cancellation; later versions raise, and `pyproject.toml:9` allows both | `Swallow` |

Nowhere else: the TaskGroup raises `CancelledError` whatever its children do with
theirs (an error of the publisher is a failed message), and `sleep(0)` and a pause
that was not woken have nothing to put in its place. So either version of Python
may be taken in every step.

### MemoryClaim

The loop of `MemoryStorage.claim` with its set of blocked keys; one record is one
step. In the program the loop is atomic; the steps are there to state its
invariant. `ScanIsQuery` compares its result with `Claim` of `OutboxTable`.

### PostgresStorage

On Postgres a claim is not one step, so it has a model of its own. Every storage
call is a READ COMMITTED transaction that others overlap:

| action | in the code |
|---|---|
| `Draw`, `Insert`, `CommitInsert`, `RollBack` | a producing transaction: `nextval`, the row with `created_at DEFAULT clock_timestamp()`, its end. Ids are drawn in order and committed in any order |
| `BeginClaim` | the transaction of `claim` starts; every `now()` in it is this instant |
| `StartStatement` | `pg_advisory_xact_lock` is got (strict ordering), the statement takes its snapshot; `left` is what its WHERE selects there, `NOT EXISTS` included |
| `TakeRow` | `FOR UPDATE SKIP LOCKED` in id order: a row somebody has locked is passed over; one that changed since the snapshot is looked at again, its own conditions (`Due`) but not `NOT EXISTS` |
| `CommitClaim` | the UPDATE becomes visible, the advisory lock is released, the round has the messages |
| `Abandon` | the claim fails, its answer is lost, the round is given up, the process dies |
| `Report`, `LockRow`, `CommitCall`, `LoseCall` | `ack`, `nack`, `release`, `dead_letter`: selects by `leased_by`, waits for the row's lock, looks at `leased_by` again, commits; or is lost |
| `PurgeDone`, `Tick` | `purge`; the server's clock |

Locks are those of Postgres: a row lock is kept to the end of its transaction, and
a row does not change while another transaction has it locked. A claim never
waits for a row, and a call waits with its rows locked in id order. The clock is
absolute here, since a claim compares with a `now()` read earlier; 0 stands for
NULL as well. It is the server's, except that `retry_at` is computed on the host of
the relay (`relay.py:343`, `352`): `Delays` are the delays plus what that host is
ahead of the server, any integers, and a `retry_at` may lie in the past. The proofs
are for all of them; TLC's runs take a delay of one tick. The constructor's options are chosen in `Init`. `Timely` has the
meaning it has in `OutboxRelay`, with one more part: a claim transaction ends
within one lease of its own `now()` (`InTime`). What a round does between claim
and report is `OutboxRelay`'s subject; here it may report anything it holds, in
any order. A row deleted is not distinguished from a row rolled back.

### Listener

`start` and the reconnection task run the same `_connect`, so one variable `task`
says where either is; `conn`, `timer`, `_closed` are the fields. An action goes
from one await to the next, or is a callback of the event loop: a termination
(`OnTerminated`) and a notification (`OnNotify`) are called some time after they
happened. `Lose` drops the connection at any point, also during `LISTEN` and in
the reset `close` makes. A cancellation is seen at the next await; a `release`
that raises in the `except` clause of `_connect` replaces it (`ReleaseRaises`),
and then the loop condition must end the task. The relay's claim takes part
because both use the same pool, and the application may close the pool first.

What asyncpg does is assumed, from how the code relies on it: a dropped
connection frees its slot, `release` frees it even if it raises, a cancelled
`acquire` gives it back. Losses of an idle pool connection, and a pool of other
users, change nothing here. A second `close` while the first is waiting is not
modelled.

## 3. Runs

All bounds are in the `.cfg` files. Deadlock is not checked where a drained
outbox, a finished round or a behaviour at its bounds may stop. In the Postgres and
the listener runs something can always happen (a transaction may fail, a pool be
closed), so it is checked and says little; that the listener and the claim do not
wait for each other for good is `SlotsAccounted` and `CloseEnds`.

| Run | Instance | Shows |
|---|---|---|
| `relay_any_timing` | 2 workers, 2 messages, lease of one tick, `Timely` off, rows kept | `FirstDeliveryOrder`, `NoOvertaking`, `NoneLost`, `LeaseFenced`, `VerdictFinal`, `DeadOnlyAfterMaxAttempts` and the refinement of `DeliveryContract`, with leases running out mid-round |
| `relay_timely` | 3 messages, batches of 2 published one at a time, delete on ack, `Timely` on; fair | `RoundHoldsLease`, `AttemptsCountTries`, `AttemptsBounded`, `NoDuplicates`, `EverySettled` |
| `round_bounds` | 4 messages, 2 keys, concurrency 2, timeout 2 | the bounds on a round and that it ends |
| `round_worst_case` | the same | expected violation, section 6 |
| `lifecycle_alone` | one task, two calls of `run`, three signals; fair | `WakeNotLost`, `StopCutsPauses`, `StopEnds`, `LeavingEnds`, `SecondSignalEnds` |
| `lifecycle_shared` | two tasks on one relay, one of them perhaps a context manager | `SecondSignalQuiet`, `HandlerAlive`, `CancelHonoured`, `LeaveHonoursCancel` |
| `lifecycle_cancel`, `lifecycle_stop_shared` | one task; two tasks | expected violations, section 6 |
| `memory_claim` | every table of 4 rows, 2 keys and NULL, batches of 2 | `ScanIsQuery` |
| `postgres_claim` | 2 workers, 2 messages of one key, lease 2, producers of one tick; strict with and without `visibility_delay`, and not strict; `Timely` on | `KeyTakenWhole`, `HoldsBack`, `NoneSlipsIn`, `LeaseFenced` |
| `postgres_late_write` | the same, `Timely` off | expected violation, section 6 |
| `listener` | a pool of 2; fair | `SlotsAccounted`, `CloseLeavesNothing`, `OneReconnection`, `QuietOnceClosed`, `NotifiedWakes`, `ConnectedAgain`, `CloseEnds` |

**Why the bounds are enough to be interesting.** Two workers are the least that
race, and every fencing argument is between the holder of a lease and one
former holder. Three messages with a batch of two leave a message of the key
outside the batch, so a second worker can claim behind the first, and give a
group with a failed head a follower within the batch and one outside; with two
messages the second is inserted before or after the first is claimed, which gives
one batch or two. One key and NULL give messages that are ordered and messages
that are not. `MaxAttempts` 2 has a retry and a last attempt. One fault is one
crash, lost answer, late write or late publish at every possible point; two
overlapping faults are what the proofs add, which have no bound on faults.
`MaxClaims` cuts behaviours where a row is claimed without end; in `relay_timely`
it lies above `MaxAttempts + MaxFaults`, so it does not make `AttemptsBounded` true.

In `RelayLifecycle` two calls of `run` give a second call that finds what the
first has left behind, and two signals are the most that `on_signal` tells apart.
In `MemoryClaim` four rows and a batch of two let the batch fill up before, at and
after a row that blocks a key.

In `PostgresStorage` two messages of one key are what order is about, two workers
two transactions that overlap in every way, and a lease of two ticks within a
clock of three leaves room for a lease that runs out, a claim with an old `now()`
and a retry that comes due. Producers of one tick against a `visibility_delay` of
two are the boundary case of `NoneSlipsIn`. In `Listener` a pool of two is the
least on which listener and claim can both be served. With one slot the listener
keeps it and the claims wait for ever, as the docstring of `listen` says; the
properties are about the other case.

**Fairness** (`FairSpec`): time passes; a running relay that may claim does (the
poller waits at most `poll_max`, and a round that raised is retried by
`_loop_step`); a round goes on, because `publish_timeout` ends every publish and a
storage call ends with a result or an error; a call nobody waits for is executed
or lost. No fairness is assumed of producers, of the broker accepting, of faults
or of a restart: with one fault and two workers a crashed worker may stay down and
the other one has to finish its messages when the lease runs out.

* `RoundSchedule`: the event loop goes on.
* `RelayLifecycle`: the event loop resumes a task that is ready and the storage
  answers or fails; a publish ends, by its timeout if need be, but for a call that
  got a second signal not even that is assumed (the publisher may swallow the
  timeout), so `SecondSignalEnds` is about a publisher that hangs. Only if the
  cancellation of the second signal was lost (`dropped`) is its publish expected to
  end, since nothing else would end that round (`PublishOwed`). A pause need never
  time out.
* `Listener`: coroutines and callbacks that are ready run, calls to the pool and
  the database end, be it with an error, every time. `ConnectedAgain` alone asks
  for more, and says so in its formula: a database that is tried again and again
  answers some day.

**Seeded bugs.** Operators commented "Seeded bug" are variants of the definition
below them with a plausible mistake (a dropped condition of the WHERE clause, an
off-by-one, a wrong slice of the group). They are used by no specification; each
property of a run is shown to fail when one of them takes the place of the
original (`mutants` in `PROJECT.json`).

## 4. What is proved

Of `OutboxRelay`, for every number of messages, workers, keys, batch size, lease,
delays, faults, and both values of `StrictOrdering`, `DeleteOnAck` and `Timely`.
The assumptions are `TableAssumption` and `RelayAssumption`: positive sizes,
natural delays, and a NULL that is neither a worker nor a key.

| Theorem | Statement |
|---|---|
| `TypeCorrect` | `Spec => []TypeOK` |
| `VerdictIsFinal` | `Spec => VerdictFinal` |
| `FirstDeliveryInOrder` | `Spec => []FirstDeliveryOrder` |
| `NothingLost` | `Spec => []NoneLost` |
| `NothingIsOvertaken` | `Spec => []NoOvertaking` |
| `LeaseIsFenced` | `Spec => LeaseFenced` |
| `DeadAfterMaxAttempts` | `Spec => []DeadOnlyAfterMaxAttempts` |
| `ContractKept` | `Spec => KeepsContract` |
| `RoundHoldsItsLease` | `Spec => []RoundHoldsLease` |
| `AttemptsAreTries`, `AttemptsAreBounded` | `Spec => []AttemptsCountTries`, `Spec => []AttemptsBounded` |
| `NothingIsRepeated` | `Spec => []NoDuplicates` |

Of `PostgresStorage`, for every number of messages and workers, all options and a
clock without bound, under `PostgresAssumption` (the same kind of assumption):

| Theorem | Statement |
|---|---|
| `PostgresTypes` | `Spec => [](TypeOK /\ SoundRows)`: a row with a lease is pending and has been claimed, one not committed yet is blank |
| `PostgresLeaseFenced` | `Spec => LeaseFenced` |
| `NothingSlipsIn` | `Spec => []NoneSlipsIn` |
| `KeyIsTakenWhole` | `Timely` implies `Spec => []KeyTakenWhole` |
| `ClaimHoldsBack` | `Timely` implies `Spec => HoldsBack` |
| `HandIsAlone` | `Timely` implies that no two workers have the same message in hand, and that it is leased to the one that has it |

Of `RelayLifecycle`, for any number of tasks unless it says otherwise
(`LifecycleAssumption`: a positive interval and factor), and of `MemoryClaim`, for
every set of tables (`TablesAssumption`):

| Theorem | Statement |
|---|---|
| `LifecycleTypes` | `Spec => []TypeOK` |
| `StopCutsPausesAlone`, `WakeNotLostAlone` | `Spec => []StopCutsPauses`, `Spec => []WakeNotLost`, for one task |
| `SecondSignalIsQuiet`, `HandlerIsAlive` | `Spec => []SecondSignalQuiet`, `Spec => []HandlerAlive` |
| `CancelIsHonoured`, `LeavingHonoursCancel` | `Spec => CancelHonoured`, `Spec => LeaveHonoursCancel` |
| `ScanSelectsClaimSet` | `Spec => []ScanIsQuery` |

Of `Listener`, for a pool of any size (`PoolAssumption`: at least one slot), and of
`RoundSchedule`, for every batch size, concurrency, timeout and set of keys
(`ScheduleAssumption`: positive numbers, and a NULL that is no key):

| Theorem | Statement |
|---|---|
| `ListenerTypes` | `Spec => []TypeOK` |
| `SlotsAreAccounted` | `Spec => []SlotsAccounted` |
| `NothingIsLeft` | `Spec => []CloseLeavesNothing` |
| `OneReconnectionAtATime` | `Spec => []OneReconnection` |
| `ClosedIsQuiet` | `Spec => QuietOnceClosed` |
| `HangingRoundIsBounded` | `Spec => []HangingRoundBounded` |
| `RoundIsBounded` | `Spec => []RoundBounded` |
| `SerialRoundIsBounded` | `Concurrency = 1` implies `Spec => []RoundWithinWorstCase` |

**Type correctness is not routine**: `attempts` is a natural number only because
a release is executed at most once per lease. `SoundTable` says that a leased row
is pending and has been claimed at least once, and that an absent row is blank.
It is preserved by each table operation for any arguments whatever (the
`...Effect` lemmas), so late, repeated and misdirected calls are covered without
an invariant about calls. A claim that does not count the attempt its release takes
back breaks it, on either storage (the mutants of `TypeOK`); a release without its
fence does not, because each release comes from a claim of its own, but it breaks
`LeaseFenced`. From it: a settled row has no
holder, so no write-back touches it, which is `VerdictFinal`.

**Order and no loss** need no lease at all, and this is why they survive leases
that run out. `DeliveryInv` has four parts: what is not inserted is in nobody's
hands (`Fresh`); whatever a round or a late call acks was accepted
(`AckedAccepted`); and whatever is being published, was abandoned on the wire, or
was accepted has every earlier message of its key accepted or dead (`Ordered`),
while what waits in a round has each of these either so (`Clear`) or ahead of it
in the same round, `todo`, `sending` or `sent` (`Queued`). The claim establishes
it because a claim set is a prefix: with strict ordering, an earlier pending
message of the key that is claimable is in the set too, and one that is not holds
the later one back. A failure takes the rest of the group out of the queue, and
"accepted or dead" is never revoked.

**Nothing is overtaken**, at any timing. `FirstDeliveryOrder` is about what the
broker has; this is about what is being published. `Ahead`: while a message waits
for its turn or is sent, every earlier message of its key that is still pending is
in the same round. A claim takes the pending ones before it along; afterwards no
row becomes pending again. `GroupShape` says which stages two messages of a key in
one round can have together, so what is ahead of a message being sent was `sent`
itself. Neither looks at a lease.

**One pair of hands** (`Timely`). `OneHand`: what a round works on, and what a late
call names, has a running lease of that worker; no late call names a message of
the round of its worker or of another late call. Time ends no such lease by
assumption, and nobody else can by the fence. `RoundHoldsLease` follows. The counters rest on
it: with one pair of hands the attempts a round has read are those of the row
(`BoundInv`: a message nobody has in hand is below the limit, each fault raising
it by one, since only a fault makes a round forget that the limit was reached).
`OnceInv`: without faults nothing is late or on the wire, and an accepted message
that is still pending is `sent` in some round, so no claim gets it before its ack.
`TriesInv`: a claim that has not been tried yet is one attempt ahead, and so is
every release that waits, which is the attempt it gives back.

**No early dead letter**: `Credit` relates the attempts of the row to the
attempts a round, or a late `dead_letter`, has read: as long as the worker owns
the row they are still there, since each release needs the lease that a further
claim, with a further attempt, must have provided.

**Refinement**: each action is mapped to a step of the contract or to stuttering,
from the invariants above; the guard of `Deliver` is `Ordered`, that of `Confirm`
is `AckedAccepted`, that of `Settle` is `SoundTable`.

**Postgres.** `LockInv` is what row locks give: a row is locked by one transaction,
and what that transaction saw when it locked it (a claim: the row is due; a call:
it is the worker's) is still so when it commits. The fence follows at any timing,
with or without the advisory lock, because the second look at a changed row is
under the lock, and a claim whose `now()` is old finds fewer rows due, not more.
Order needs more. `InLease` says that claims are younger than a lease and that what
is in hand is leased. `ScanInv`: under the advisory lock one statement scans alone;
the earlier pending rows of each row it selected are selected as well; and a row
that was not pending in its snapshot has no lease, so nothing it selected can be
locked, changed or freed by anybody in between. A write-back under an expired lease
breaks the last part, and that is the finding `HoldsBack` of section 6.
`OneHand` is the invariant of mutual exclusion: a message a round has is leased to that
worker, and a call under way stands for messages that neither its worker's round nor
any other call has. A claim keeps it because a message somebody has in hand is leased
(`InLease`), hence not due for any `now()` of a claim that holds its row: this needs
the row lock and the second look, not the advisory lock.
`SlipInv`: ids are drawn in order, so an open lower id began before a higher row
was inserted; with a delay longer than the slowest transaction it has ended when
the higher row becomes visible to a claim.

**The life of run.** `CallInv` says of each call: if a second signal cancelled it,
it has begun, and has returned if it is over; if somebody else cancelled it, that
is still pending, or is why its `finally` clause runs, or is how it ended, or was
lost in one of the ways listed in section 2 (`dropped`); and the installed handlers
belong to a call that is running and will remove them. `ManagerInv` adds that the relay task of a context manager
has no handlers, and was asked to end if the task that leaves was cancelled in
time. For a call that is alone, `Alert` adds that after a stop or a wake the event
is set, or the pause has been woken, until the call ends or claims: it covers the
round in between, which may fail and pause, and is false with two tasks.

**The scan.** `LoopInv`: the candidates seen so far are claimed and changed as the
query changes them, and the blocked keys are those of the rows seen that wait or
are leased. At the end `LimitIsPart` turns "full batch, or nothing left" into
LIMIT.

**The listener.** `ListenerInv` says who can be there at the same time. A task only
runs while there is no connection, and in an open listener it is not cancelled.
Once closed, the listener has no timer; a task that `close` waits for is cancelled,
or lost its cancellation to a `release` that raised, and then it sleeps and will
find the listener closed: so it never gets as far as a connection, which would be
left behind. Connection, task and the reset of `close` thus exclude each other, and
the slots can be counted.

**The length of a round.** Both proofs start from what is true when time passes
(`TickRunning`): every group inside the semaphore is publishing exactly then, and
while a group waits there are `Concurrency` of them, because the first message of
the first group that waits would otherwise be started. Cardinalities take the place
of sums, so no induction over the batch is needed.

* `WorkInv` counts ticks of publishing, the pairs of a message and a tick of its
  publish: never more than `Timeout` for a message. As long as a group waits, each
  tick of the clock adds `Concurrency` of them. Later it adds at least one, to a
  group that is running, and that group's own ticks counted `Concurrency - 1` times
  more make up for the rest; this group is no longer than the longest.
* `WaveInv` counts groups, for rounds in which a group publishes one message at most
  (`Single`). While a group waits, each stretch of `Timeout` ticks has `Concurrency`
  more groups behind it: `Past(r)` are those that have ended or whose publish is `r`
  ticks old, at tick `r` of the stretch. With `BatchSize` groups at most, the last
  one starts `Timeout` before `worst_case_round` at the latest.

## 5. What is only model-checked

`EverySettled`, `RoundEnds`, `StopEnds`, `LeavingEnds`, `SecondSignalEnds`,
`NotifiedWakes`, `ConnectedAgain` and `CloseEnds` are liveness under fairness,
which the prover does not reach. `StopCutsPauses` and `WakeNotLost` are proved for
one task that runs the relay; with two the first is false (section 6). Every other
property of a passing run is proved for all values of the constants.

## 6. Findings

`RoundWithinWorstCase` (run `round_worst_case`): the comment on
`RelayConfig.lease` (`relay.py:32-33`) and `README.md:41` say a round lasts at most
`ceil(batch_size / concurrency) * publish_timeout`. The messages of one key are
published one after another, each with a timeout of its own, so a batch that
shares a key and is published slowly but successfully lasts longer, up to
`batch_size * publish_timeout`, and no warning is given for a lease in between.
What does hold: the estimate, when no publish succeeds or no message has a key
(`HangingRoundBounded`), or with a concurrency of one; and for every batch the bound
with the longest group (`RoundBounded`). Both are proved. By the theorems above a
round that outlasts its lease costs duplicates, not order of first deliveries and not
messages.

`CancelEndsRun` (run `lifecycle_cancel`): the tests say that cancelling `run` ends
it with `CancelledError` (`tests/test_relay.py:311-319`), and `relay.py:258` that a
cancelled `__aexit__` must reach the relay task. If the round had accepted
messages and the ack in the `finally` clause of `run_once` raises, its error takes
the place of `CancelledError`; `_loop_step` (`relay.py:223`) pauses and the loop goes
on, until it is cancelled again. The same follows when the error is that of a
cancelled claim that cleans up (`postgres.py:199`), which is the shorter trace TLC
prints. These are not the only ways to lose a cancellation, see the table of
`RelayLifecycle` in section 2; `CancelHonoured` and `LeaveHonoursCancel` show that
nothing outside that table loses one.

`StopCutsPauses` with two tasks (run `lifecycle_stop_shared`): `relay.py:218` says
"Every pause is cut short by stop". The tasks share the event and the first whose
`wait` returns clears it. A task whose round fails after that sleeps for
`storage_error_delay`. With one task the property holds and is proved.

`HoldsBack` without `Timely` (run `postgres_late_write`): `postgres.py:68-71` says
strict ordering holds a message back while an earlier pending one of its key is
leased elsewhere or waits for its retry, and that the advisory lock makes this
correct across workers; `README.md:191-192` says it holds across workers. Write-backs
do not take that lock. A worker whose lease ran out may `nack` the head of a key
while another claims: the head was due in the claim's snapshot, so `NOT EXISTS`
does not object to its followers; then `SKIP LOCKED`, or the second look, drops the
head and keeps the followers, and the claim commits a message whose predecessor
waits. SQLite, whose claim and write-backs exclude each other, does not have this
(`NothingIsOvertaken`, at any timing). On Postgres it needs a write-back under an
expired lease: `ClaimHoldsBack`.

## 7. Not modelled

* Hooks: they change nothing in the system and their exceptions are swallowed. The
  one trace they leave, a hook that answers a cancellation with another error, is in
  `RelayLifecycle`.
* `stats`, DDL, payload encoding (`message.py`), logging: no state, or read-only.
* The formula of `Backoff` (`backoff.py`): a float power, a cap and a random factor,
  for which TLC has no numbers. The relay is checked and proved for any set of delays.
* The test kit (`testing.py`) exercises an adapter, it is not part of the system.
* The Django example: a third adapter with the claim and the write-backs of
  `PostgresStorage`, without `visibility_delay` and `delete_on_ack` and with the host's
  clock; it would be the same model with fewer options.
* A second `close` of the listener while the first is waiting.
* Which row a notification is about. Notifications that arrive during a deferred
  wake-up share it, so the relay may be woken before the row of the last one is
  old enough to be claimed; the next poll finds it. `tests/test_postgres.py:335-357`
  wants it so.
* A clock that runs backwards, and clocks that differ between workers in the rows of
  `OutboxTable`. On Postgres leases, `created_at` and the claim go by the server's
  clock; `retry_at` comes from the relay's, and `PostgresStorage` allows for the
  difference.
* `stop()` before the task of `run` has begun, outside a context manager: `run` resets
  the flag when it starts (`relay.py:174`), so the call is without effect by design.
  For the context manager, where it would matter, see `LeavingEnds`.
* `Relay` on `PostgresStorage` in one composition: the rounds of `OutboxRelay` and the
  transactions of `PostgresStorage` multiply beyond TLC's reach. `PostgresStorage` lets
  a round report anything at any time instead, which covers what `OutboxRelay` does.

## 8. Plan

Done, in this order: the table and the round with its properties and proofs, the
contract, the duration of a round, the life of `run`, the memory scan; the Postgres
transactions and their proofs, the listener, the properties that need the lease
and their proofs; the listener's and the round's safety for all values of the constants.
Every safety property is proved. What could follow is `Relay` on `PostgresStorage` in
one composition, by refinement instead of by TLC.
