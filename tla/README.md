# Orchestration V2: specifications and proofs

TLA+ specifications of the core of this repository: the server that runs coding
agents for many threads at once (`src/apps/server/src/orchestration-v2`), and
the clients that follow those threads live. The specifications are checked with
TLC on small instances; the safety of each of them is also proved with TLAPS for
every instance: the effect system, the event sink, the live stream of a thread,
the queue of its runs, delegated completion and provider sessions.

## 1. The system

A **thread** is a conversation with a provider (Claude, Codex, ...) in a
workspace. Everything that happens in a thread is a **domain event** in one
SQLite log; tables that read models are made from (**projections**) are updated
in the same transaction. Clients send **commands**. A command is planned under
its thread's lock into events, into **effects** (work for the outside world:
start a turn, detach a session, capture a checkpoint) and into cancellations of
effects, which one transaction commits together with the command's **receipt**.
Worker fibers execute the effects; their results come back as events. Each
client holds a cursor into the log and is brought up to date by a snapshot, by
a replay, or by live events.

```
 client --command--> dispatch --plan--> EventSink.commitCommand
   ^                 (thread lock)        | one transaction: receipt, events,
   |                                      | projections, effects, cancellations
   |                                      v
   |      subscribeThread <-- PubSub <-- commitThenPublish      effect outbox
   |        snapshot | replay | live                               |   ^
   +--------------------------------------                         v   | settle
              ^  pruning of old events                         worker fibers
              |                                                    | execute
        event store <------------- internal writes --------- provider sessions
```

### Inventory

| Component | State | Operations | What is hard | What makes it correct |
|---|---|---|---|---|
| **Effect outbox** `EffectOutbox.ts` | a table of effects (status, rowid, attempts, due time, lease); two maps of Deferreds in memory: cancellation signals and settle signals | enqueue, cancel, claim, succeed, retry, fail, reconcile after process loss, prune, await | statement and memory change at different moments; back-off; a lease named after the process, not the fiber | lanes are queues; a settled row stays settled |
| **Effect worker** `EffectWorker.ts` | per fiber: the claimed effect and how far it got | claim, arm, recheck, execute, settle, fall back | cancellation at any moment; statements that fail; crash in any step | no missed cancellation, bounded attempts, every effect settles, no replay of a turn |
| **Event sink** `EventSink.ts`, receipts | the log, receipts, publish lane, write connection | write, commitCommand, commitRejectedCommand, publish | three nested locks; interruption around COMMIT | ordered gapless channel; at most once; no deadlock |
| **Dispatch** `Orchestrator.ts` 13458-13730 | thread locks | read the receipt, plan, refuse, commit, answer | resent commands, receipts read before they are used | callers hear the truth |
| **Thread stream** `ws.ts`, `LiveStreamBudget.ts`, `ThreadLiveEventCoalescer.ts` | per subscription: phase, buffer, page, window, items in flight | resume or snapshot, catch up, drain, coalesce, send | joining history to a live tail; overflow; pruning at the same time | no event is skipped, order, convergence |
| **Pruning** `ProjectionMaintenance.ts` | mark, boundary | age, publish the boundary, delete page by page | replays read beside it | as above |
| **Client thread state** `client-runtime/state/threads.ts` | cursor, data | apply snapshot and events, load over HTTP, resubscribe | old snapshots, reconnects | never steps back |
| **Delegated tasks** `Orchestrator.ts`, `ProviderContinuationService.ts` | a run's row: status, checkpoint, cohort; the tasks' deliveries; wakes in the queue | delegate, finish, acknowledge, wake policy, offer, dispatch, deliver, Stop, cancel | one row, some writers under the thread's lock and some not; generations of deliveries | no claim is lost, nothing is told twice, what is reserved arrives, one active run |
| **Runs and their queue** `Orchestrator.ts`, `ProviderTurnStartService.ts`, `ProviderTurnControlService.ts`, `RunExecutionService.ts`, `CheckpointCaptureService.ts` | runs with their attempts and turns, queue order, holds, the thread's effects | send, queue, steer, restart, promote, withdraw, move, resume, Stop; start, interrupt, finalize, capture; react to the end of a run | commands commit what they have read; the writers of a run's status hold no lock | no message is lost but by a steer that fails for good; none is given again once a call has confirmed it; one active run; the queue moves |
| **Provider sessions** `ProviderSessionManager.ts` | the live entry of a session with its threads and busy turns, idle timer, event pump, process; the session's row and requests | open, join, start a turn, release when idle, detach, close, force stop, write the records of a release | opening, idling, dying and releasing race; records are written late and retried | no process is forgotten or doubled, no turn is cut off by idleness, every session ends |
| Ingestion, finalization | the stream of a provider's events | ingest, finalize | late events, terminal normalization | the writers of a run's status are modelled with the queue and with the delegated tasks |
| Runtime recovery, restart continuation | runs and sessions left by a dead process | terminalize, continue | a second crash in the middle | its outbox half is modelled |
| Projections, paging, wire shapes | folds of events into tables | apply, page | data only | not modelled |
| Shell stream | the list of threads | latest-wins buffer | as the thread stream | planned |
| Adapters, git, terminals, pull requests, gateway, web client | mostly I/O | | | not modelled |

`PROJECT.json` lists all components with their files and status, and under
"hazards" the places where this code can go wrong in ways that a test hardly
reaches.

## 2. Modules

| Module | Models | Builds on |
|---|---|---|
| `EffectOutbox` | the table and its SQL statements, one operator per statement | |
| `EffectWorker` | worker fibers, commands, waiters, recovery: the running system | `EffectOutbox` |
| `LaneQueue` | the abstract promise: one FIFO queue per lane | |
| `EffectRefinement` | the mapping of `EffectWorker` to `LaneQueue` | `MCEffectWorker` |
| `EffectWorker_proofs` | theorems about `EffectWorker` | `EffectWorker`, TLAPS |
| `EventSink` | dispatch, transactions, publication, receipts; its mapping to `EventLog` | `EventLog` |
| `EventSink_proofs` | theorems about `EventSink` | `EventSink`, TLAPS |
| `EventLog` | the abstract promise: a log announced in order, batch by batch | |
| `ThreadStream` | a log with pruning, subscriptions, clients | `EventLog`, `Subsequences` |
| `ThreadStream_proofs` | theorems about `ThreadStream` | `ThreadStream`, `Subsequences_proofs` |
| `DelegatedCompletion` | a run's row and its writers, the results of delegated tasks, wakes | |
| `DelegatedCompletion_proofs` | theorems about `DelegatedCompletion` | `DelegatedCompletion`, TLAPS |
| `ProviderSessions` | one session: its process, entry, timer, pump and release | |
| `ProviderSessions_proofs` | theorems about `ProviderSessions` | `ProviderSessions`, TLAPS |
| `RunQueue` | the messages of one thread on their way to the agent | `Subsequences` |
| `RunQueue_proofs` | a thread has one active run | `RunQueue`, TLAPS |
| `RunQueueMessages_proofs` | what becomes of the messages | `RunQueue_proofs`, `Subsequences_proofs` |
| `Subsequences` | filters of sequences, as operators that proofs can expand | |
| `Subsequences_proofs` | lemmas about filters and about sequences of rising numbers | `Subsequences`, TLAPS |
| `MC...` | instances for TLC | |

`EventLog` is the hinge of the second half: `EventSink` implements it, as
`LogRefinement` proves, and `ThreadStream` takes its log and channel from it. What
is shown of streams therefore rests only on what the sink was shown to provide.
Its constant `Batch` says what a transaction may store: the requests' plans in
`EventSink`, one or two events of a kind in the instance of `ThreadStream`, any
sequences but the empty one in the proofs.

`Subsequences` has one purpose. Where the code filters an array, a queue or a
buffer, the model takes the elements that stay by their rank (`Among`), for the
recursive `SelectSeq` is out of the provers' reach. `MCRunQueue` has TLC compare
the two on short sequences (its assumption `AmongFilters`).

### Effect system

*State.* A row of `orchestration_v2_effect_outbox` is `status`, `rowid`,
`attempts`, `due` (is `available_at` past?) and `lease`. "absent" and "pruned"
are effects without a row. A fiber is a program counter `pc` with its claimed
effect `cur`, the settlement `op` it is trying, and `fallback`, which says that
`op` is the last one `onError` tries. `signals` is the key set of
`cancellationSignals`; `fired[w]` says that the Deferred which *this fiber* armed
is done, so that a deleted map entry and a completed Deferred are different
things, as they are in the code. `toSignal` holds what a committed transaction
cancelled and has not signalled yet.

*Actions.* What a fiber does between two waits is one action: a claim
(`ClaimNext`), the registration of its Deferred (`Arm`), the durable reread
(`Execute`, `SkipCancelled`, `RecheckFails`), the race of execution and
cancellation (`ExecutionEnds`, `ExecutionCancelled`), the settlement statement
with the map updates that follow it (`Settle`) or its failure (`SettleFails`,
`SettleTooLate`). `CommitCommand` is the outbox part of any command's
transaction: an insertion and a cancellation by thread and types.
`SignalCancellation` is `signalCancellations` after the commit. `Crash` loses
everything in memory and may hand out the same pid again, which makes the
workers of the next process own the leases of the last.

*Abstraction.* The executor is its outcomes. The order of claims between lanes
is left open. Time is whether a row is due; back-off ends by `BackoffElapses`.
Retention (a week) is taken to outlast every step of a fiber but an execution.

*Preemptible.* The Effect scheduler may suspend a fiber between any two
operations, if it has run long enough; without that, code between two waits is
atomic. `Preemptible` adds the one place where such a suspension matters here:
between a settlement's statement and its map updates. Finding 1 and the run
`effect_lanes` take it as TRUE.

### Event sink and dispatch

A `Request` is one attempt to write: a dispatched command, an internal write, or
one execution of an effect that writes under a command id of its own. Requests
of one `Command` are resends. `pc` follows `dispatchWithReceipt` and
`commitThenPublish`; `locked`, `db` and `lane` hold the owners of the thread's
`KeyedLock`, SQLite's write connection and the publish lane. The effects of a
transaction become visible in `Commit`, after the lane was taken, as in the
code; `stored` are the sequences it will announce. `Abort` is an interruption or
a failing statement, wherever the code lets one in; from the wait for the lane on
interruption is masked, so only a failing COMMIT remains. Whether a plan is
accepted or refused is left open.

### Thread stream

`log`, `announced` and `channel` are `EventLog`'s. An event is its thread and,
if it is an update that replaces an entity, that entity (`key`); families of
entities are message updates and turn-item updates. A subscription goes through
`resuming` / `snapshot` / `initial` / `opening` / `subscribed` / `latest` /
`paging` / `live` in the order of the code; the live drain runs beside
the catch-up from `subscribed` on. `known` is the set of events that a client's
data reflect. Pruning publishes `prune.through` and then deletes one event per
step. A crash ends subscriptions and a pass, and begins a new channel.

The number `MaxItems` stands for both limits of the live buffer (items and
bytes); where a decision depends on bytes (`PreferSnapshot`) it is left open.
`MarkAges` has a guard the code states only as a length of time: no subscription
takes a day from its cursor to its live tail. The catch-up after a snapshot reads
the log without looking at the boundary, so it relies on this.

### Delegated completion

*State.* `row` is the run's projection row: its `status`, whether it has its
checkpoint, and its cohort (`disposition`, `next` generation, and the current
delivery: generation `gen`, 0 for none, and task ids `ids`). `turn` is the
provider's turn, `start` and `capture` are the two effects that write the
status, `task` the delegated tasks' rows. `wake[g]` is the run whose message
carries the delivery of generation g, and `carried[g]` what that message names.
`offers` are continuation requests, `ends` the terminal run updates in the order
of their commits, which `handleRunUpdate` takes one by one.

*Actions.* What holds the thread's lock is two steps: `Begin` takes the lock and
copies the row into `cmd`, the handler's own action commits what it planned from
that copy. Between the two, only writers without the lock can run, and
those are single actions: the start of the turn with its reread (`StartRead`,
`StartWrite`, `StartCheck`, `TurnOpens`), `Finalize`, and capture's read and
commit. How a handler commits decides what can be lost. The end of a task, an
acknowledgement and the wake policy merge their cohort into the current row
(`Merged`, `updateDelegatedCompletionOnly`); Stop and cancellation write the
whole copy (`WriteWhole`); the status writers leave the cohort out, and the
projection keeps the one it has (`SetStatus`).

*Abstraction.* One parent run, whose wakes are runs of the same thread. A wake's
own turn is one step, `WakeEnds`, since no task is delegated from it. The tool
calls and the other server that a task may run on are its two events, delegated
and ended. The thread is neither archived nor deleted. The queue holds no user
messages; a hold after a provider failure is kept, and so is its end by the user.
`releaseUnattendedHolds` has nothing to do here: it acts when a later run has
completed, and with one wake in the queue there is none.

### Provider sessions

*State.* One session id and its **runtimes**, numbered by opening. `live` is the
runtime of the entry in the manager's map, with its `attached` threads, its
`busy` turns and the idle periods (`pins`) for which background work has held
off a release; `proc`, `timer`, `pump` and `rel` are each runtime's process, idle
timer, event pump and release. `op[t]` follows a thread from the opening of the
session through `startTurn` to the end of its turn. `told` are terminal events
the pump has not handled, `req` a request to the user, `rec` the session's row.

*Actions.* The lock of openings (`LockIsFree`) is held from `OpenFresh` or
`OpenLive` to `Publish`, `Joined` or the end of an aborted opening. A removal of
the entry (`Remove`) is one update of the map under the pump's permit; everything
after it works from the removed copy and runs beside the next opening:
`CloseScope`, then `RecordRelease` without a lock, then `RetryRecords` with it. A
timer first looks (`TimerWakes`), asks for background work and looks again
(`StayPinned`, `ReleaseIdle`).

*Abstraction.* A timer that is replaced is interrupted at once, so the model has
no generation counter; the timer left over from a removed entry may match the
next one's generation by chance. The permit is held for less than an idle period.
A run that is retried comes back only after the pump has handled its former end
(the back-off of effects). The two writes of a release's records are one step
that may do either, both or none. `close` is called by tests only, but its effect
is that of the other unconditional releases.

### Run queue

*State.* A run is named by the message it was created for. `run[m]` has its
status, its active attempt and, per attempt, the message that is its text and the
row of its turn. `queue` and `held` are the queued runs in order and those with
`queueHeld`; `lane` is the thread's unsettled effects, of which the first is
executed; `exec` tells how far, which attempt it has read, and how many of its
tries have failed. `captured` are the runs whose capture effect id exists. `cmd`
holds the command that has the thread's lock, with the rows it has read. Five
variables keep the account of messages: `sent`; `delivered`, the number of copies
the agent got; `confirmed`, those of which a call has returned successfully;
`forgone`, those a user withdrew or saw fail; and `dropped`, those whose steer the
worker has given up.

*Actions.* A command is two steps, as in `DelegatedCompletion`: `Begin` reads,
an action of `Commit` commits what was planned from the read. `React` is
`handleRunUpdate`, which takes the lock for an event that is already in the log.
The effects are steps of their own between their reads and writes: a start reads
its run, opens the session, makes the run running if it still is that attempt's,
rereads and calls the provider (`BeginStart` to `CallSucceeds`); a restart first
interrupts the former turn and waits for its end; an interrupt asks, looks, and
settles the run under the lock; a capture reads and commits. A turn's row, its end
and its finalization (`TurnRow`, `TurnEnds`, `Finalize`) take no lock.

A steer first loads its target (`LoadSteer`): it goes on if the turn's row says
running, or if the run still is running with that attempt (`continuingRun`), unless
the session is gone. `steerTurn` then succeeds (`SteerSucceeds`), also when the turn
has ended since, or fails, before or after the provider has taken the text
(`SteerFails`). After any failure the turn is read again. If it has completed, the
message is sent as a new one (`FollowUp`, a command of its own, or
`FollowUpFails`); otherwise the execution fails, the worker repeats it, and after
the last of its `MaxTries` the effect fails with a warning in the log
(`FailedTry`). An opening that fails is repeated likewise, and its last try, or one
that asks for a sign-in, ends the run (`OpenFails`).

*Abstraction.* Stop interrupts an executing start at once. `StartNext` is atomic,
because only holders of the lock make a run active. The run executed last is the
one started last. A failing capture is retried in its lane until it has read and
committed; one such read stands for them. A restart that is refused is over for
its message: its command id has a rejection. Between the end of a run and the
reaction to it a new message starts ahead of the queue, as in the code.

## 3. What is checked

Each run finishes within about four minutes with two workers. Deadlock is
not checked because each model comes to rest when all its work is done and its
bounded faults are spent; that nobody waits for ever is stated as liveness
instead (`EveryRequestAnswered`, `EveryEffectSettles`, `WaitersReturn`,
`QueueMoves`, `EverySessionEnds`). Type invariants are checked with the runs:
`TypeOK` of `EffectWorker` by its name, the others as a conjunct of
`AnswersAreTrue`, `NothingSkipped`, `ClaimsAreCarried`, `ProcessIsOwned` and
`NothingLost`.

| Run | Instance | Shows |
|---|---|---|
| `effect_worker` | a turn start and a continuation in one lane, 2 fibers, 1 waiter, 2 failing statements, 1 crash, 2 attempts | no cancellation is missed; no process-bound effect is executed by a later process; executions of a lane overlap only around an interruption; attempts bounded; settled is final; every effect settles; every waiter returns |
| `effect_lanes` | 3 effects in 2 lanes, 2 fibers, retries with back-off, 1 crash, preemption | at most one running row per lane; nothing starts before all earlier effects of its lane are settled; the whole implements `LaneQueue` |
| `effect_preempt` | *violation* | finding 1 |
| `event_sink` | send, resend, a command that may be empty, an internal write, an effect executed twice; 1 crash | ordered, gapless channel; commands take effect at most once; answers are true; verdicts are final; the whole implements `EventLog`; every request is answered; what is committed is announced |
| `event_sink_conflict` | *violation* | finding 2 |
| `thread_stream` | events of the client's thread, of another, and updates of 2 items of one family; buffer of 3, page of 1, replay of 2; 3 events with 1 crash or lost connection and 2 pruning passes, 4 events with neither | no event below the cursor is missed; no item overtakes an earlier one of its family; no step back; the client catches up |
| `delegated_completion` | 2 delegated tasks, 2 Stops or cancellations | no claim on a result is lost; queued and held wakes are current; one active run; nothing is told twice; generations and statuses go forward; what is reserved reaches the parent |
| `completion_stale` | *violation*: 2 tasks, 1 Stop | finding 3 |
| `provider_sessions` | 2 threads that share a session or one that owns it, 2 runtimes, 2 starts, 2 upsets of any kind, 1 idle period held off | busy turns are exact; no process is forgotten or doubled; requests are settled with their release, and only they; idleness and other threads' stops spare turns; every session ends |
| `session_record` | *violation*, the same instance | finding 4 |
| `run_queue` | 2 messages of users and 1 of an agent, 2 attempts per run, 2 tries per effect, 1 intervention (Stop, pick, resume) | no message is lost, except by a steer that failed for good; none is given again once a call has confirmed it; one active run; a run completes by its own turn; the queue moves |
| `restart_stale` | *violation*: 2 messages | finding 5 |

*Why the bounds are enough.* A lane conflict, a lost cancellation and an order
violation each need two effects and two fibers; a third effect brings in the
second lane, or an effect behind two others. Two failing statements are what it
takes to fail a settlement and its fallback. One crash separates two processes,
and with a single pid it is also the case of a recycled pid. Three events and
pages of one row make a catch-up of several pages with an overlap at either end;
a fourth event makes the buffer overflow while updates of two items coalesce; a
second pass is what it takes to delete an event that a client with a cursor still
needs. The constraint of that instance (`Instance` in `MCThreadStream`) cuts off
what only repeats: more than one event that is no update, a pass over a log that
has nothing to prune, and the fourth event together with faults. Two delegated
tasks are what it takes for a result to join a delivery, to arrive during a wake
or to be reserved for a second generation, and two interventions put one Stop or
cancellation after another. Two openings of a session are a release and its
replacement, and every race of sessions here is between these or between the two
threads on one of them; two upsets let a retry of records follow a stop. Of three
messages one is active, one queued and one on its way, two attempts are a restart,
and one intervention meets every point of their ways; two tries are one that is
repeated and the last. The one failed run that `MCRunQueue` allows holds the queue,
and a resumption releases it; the one message that a failing call may give or the
worker may drop meets the others in the queue, in the lane and in the turn. The
constraints of these two instances remove a symmetry (which thread starts first,
which of the users' messages is called m1), further failures, and restarts by
agents. What a
constraint cuts off is always something that the environment may do and never
has to, so it takes no fair step away. Larger
instances repeat these situations. All properties are also violated by a
plausible mutation of the code's model, as listed under "mutants": the situations
they speak of occur.

*Fairness.* Every assumption names an actor that the code keeps running.
`EffectWorker`: workers poll as well as wait for wakeups (`runDaemonWithOptions`), the
steps between claim and settlement run on, an execution ends (the executor
bounds its own calls), time passes, recovery runs at startup. No fairness for
failures, crashes, commands or pruning. `EventSink`: a request that can go on
goes on. Weak fairness is enough, because every holder gives its lock up and
requests are finitely many; aborts have none. `ThreadStream`: the server's steps, the
delivery of what was sent, and a client that resubscribes after an error. A
client that lost its connection comes back; one that keeps overflowing does not
starve, because each attempt delivers something below the next cursor.
`DelegatedCompletion`: handlers that hold the lock finish, the reactions and
offers that wait are taken up in turn, effects run (that is what the effect
system's liveness says), and the provider ends every turn. The user owes
nothing, neither a Stop nor the resumption of a held queue, and neither do the
delegated tasks; `ResultsReachParent` therefore begins with a result and excepts
a queue that is held. An effect that fails for good is not in this model.
`ProviderSessions`: a start runs on, the provider ends its turns, pumps, timers
and releases run; nobody owes an opening, an activity or an answer, and the bound
on the idle time that background work can hold off (`maxIdlePinMs`) is the
code's; `EverySessionEnds` relies on it. `RunQueue`: commands that hold the lock
finish, the reaction to the end of a run gets the lock, the lane's first effect is
executed, and turns begin, end and are finalized. One weak fairness of all this
together (`System`) is enough: what users do is bounded, and so are the tries of an
effect and the turns, so that the system can put none of its steps off for ever. Its
liveness is
`QueueMoves`, which excepts what a user has to release; it and `NothingLost`
also except a run that finding 5 has taken from its end.

### Findings

1. **A settlement can delete the next claim's cancellation signal.** `retry`
   deletes `cancellationSignals[effect]` (`EffectOutbox.ts:626`) after its UPDATE
   has made the row claimable again. If the fiber is suspended between the two
   and another fiber claims the row and arms a new Deferred, the deletion removes
   that one; a cancellation that commits later finds none and the execution goes
   on. The comment at `EffectWorker.ts:746` wants the race between reading and
   registering closed. It takes a scheduler yield between two operations of one
   fiber; `nodeSqliteClient.ts:1233` shows that the authors reckon with those. With
   `Preemptible` FALSE the property holds, and is proved.
2. **A replayed answer may be about another thread.** `dispatchWithReceiptEffect`
   rejects a command id whose receipt is for another thread (`Orchestrator.ts:13489`),
   but only when the receipt was there before the command was planned. If two
   dispatches of one id on two threads run at once, the second finds the receipt
   in `commitCommand` and answers `replayed` from it (`13675`), without the
   comparison.
3. **Stop can take back a run's completion.** `disposeDelegatedCompletionCohort`
   commits the parent run as it read it (`Orchestrator.ts:2703`). Stop on the
   background work of a waiting run, and the cancellation of a queued wake, hold
   the thread's lock, which checkpoint capture does not take. If capture completes
   the run in between, the run is `waiting` again, without its checkpoint, and its
   capture is settled: nothing completes it before the recovery of the next start,
   and the thread's queue waits. `EventSink.ts:418` names this very race, for the
   cohort writers that merge. `StatusStepsForward` states what holds of the others.

4. **A release can record a live session as stopped.** `releaseEntry` takes the
   entry from the map, closes the process, which may take 30 seconds, and then
   writes the session's row without a lock and without looking
   (`ProviderSessionManager.ts:1056`). If the session has been opened again
   meanwhile, its row goes from ready to stopped, and readers that skip stopped
   sessions miss it: a deletion of the thread, a change of its provider, the
   restart continuation. Only the retries of those writes look (`874`); the test
   "release retries leave a replacement session alone" states the rule for them.
5. **A restart can revive a run that has ended its turn.** A steering restart finds
   its target running (`Orchestrator.ts:4768`) and commits the row it has read
   with the next attempt (`5237`). If finalization, which takes no lock, makes the
   run waiting in between, its capture is enqueued under an id derived from the
   run alone (`RunExecutionService.ts:746`) and fails, since the run is starting
   again. The capture of the new attempt has the same id and is ignored, so the
   run waits until the recovery of the next start, and its queue with it.
   `feature-lifecycles.md:116` has the final attempt complete the run and create
   its checkpoint.

Three observations about the same code have no run of their own. A message whose
steer fails to its last try, while the turn has not completed, is gone: the worker
writes a warning to the log (`EffectWorker.ts:797`) and nothing settles or requeues
the message, unlike that of a start that fails. It is the exception `dropped` of
`NothingLost`. If the provider had taken the text of a try that failed, the next
try, or the follow-up, gives it again; `DeliveredOnce` therefore speaks of confirmed
messages only. A steer that is
committed before Stop and executed after its turn has completed is sent again as a
user's message, and as such releases the queue that Stop has just held
(`feature-lifecycles.md:254-256` has Stop hold it). And a Stop that finds no row
of the turn ends the run at once, even if the provider is about to accept the
turn; the turn then runs on under a run that is over.

## 4. What is proved

`EffectWorker_proofs` proves, for any sets of effects, threads, workers, waiters
and pids and any bounds:

| Theorem | States |
|---|---|
| `TypeCorrect` | `Spec => []TypeOK` |
| `Invariance` | `Spec => []IInv`, the inductive invariant |
| `LaneMutex` | `Spec => []OneRunningPerLane` |
| `FirstInFirstStarted` | `Spec => []StartsInOrder` |
| `NoReplayOfProcessBound` | `Spec => []ProcessBoundStaysInProcess` |
| `NoRevival` | `Spec => SettledIsFinal` |
| `FewAttempts` | `Spec => []AttemptsBounded` |
| `NoMissedCancellation` | `Spec => []CancellationReaches`, assuming `~Preemptible` |
| `NoOverlap` | `Spec => []ExclusiveExecution`, assuming `~Preemptible` |

*Assumptions.* `OutboxAssumption` and `WorkerAssumption`: the constants have
their types, every effect has one of the types of the code, and NULL is no pid.
`~Preemptible` is the precondition of the last two; finding 1 shows that they
need it.

*Argument.* Two layers. `RowInv` speaks of the table alone: rowids are numbered
upwards, never-inserted effects have no attempts, a lane has one running row,
and an effect with an older unsettled one in its lane has never been attempted.
The last is what makes the claim's predicate enough: when a row is put back
(retry, requeue, reconciliation) it is still the oldest of its lane, because
nothing younger has been attempted. Each statement of `EffectOutbox` preserves
`RowInv` (one lemma each), and each step of `EffectWorker` is one statement or
leaves the table alone. `IInv` adds what a fiber knows: it owns the lease of its
effect until a command cancels it, two fibers hold different effects, and what an
earlier process drove is settled once the first statement of the reconciliation
ran. That last part carries `NoReplayOfProcessBound` across a crash between the
two statements and across recycled pids. `FewAttempts` needs `AttemptsLeft`: a row
that can be claimed has an attempt left, or one that a failed statement or the
loss of a process has granted it. `CancelInv` adds, without preemption,
that an armed fiber's Deferred is in the map; a cancellation therefore always
finds it. `NoOverlap` follows: two executions in one lane cannot both own their
rows, so one of them is cancelled, and has been or will be signalled.

`EventSink_proofs` proves, for any sets of threads, commands and requests, any
batch sizes and any number of crashes:

| Theorem | States |
|---|---|
| `LogInvariance` | `Spec => []LogInv`, the inductive invariant |
| `SinkTypeCorrect` | `Spec => []TypeOK` |
| `OrderedAnnouncements` | `Spec => []LiveOrder` |
| `EachCommandOnce` | `Spec => []AtMostOnce` |
| `VerdictsStand` | `Spec => VerdictIsFinal` |
| `TrueAnswers` | `Spec => []AnswersAreTrue`, assuming `OneSender` |
| `LogRefinement` | `Spec => ImplementsEventLog` |

*Assumptions.* `SinkAssumption`: the constants have their types. Order and
uniqueness do not rest on the thread locks; the truth of an answer does.
`TrueAnswers` assumes `OneSender`, that the requests with one command id are all
dispatched and all of one thread, as with clients that make a new id for each
command and resend it as it is. Finding 2 is about the other case.

*Argument.* `LocksHeld` ties the two locks to the place a request has reached:
the connection is held from BEGIN to COMMIT or abort, the lane from before
COMMIT until after the announcement. Because the lane is taken while the
connection is held, the requests that have committed and not announced are at
most one, and its batch is the end of the log (`BatchesNumbered`);
`ChannelKeepsUp` says that the channel ends where that batch begins. An
announcement therefore appends exactly the next sequences, which is `LiveOrder`.
`AtMostOnce` needs `OnceInv`: events that carry a command come with its receipt,
all from the request the receipt names. A transaction rereads the receipt while
it holds the connection, so between that read and its COMMIT nobody else can
write one. For `TrueAnswers`, `VerdictIsOpen` says that a request on its way to a
verdict finds none for its command that was left after it looked: the senders of
one id share a thread, and the one that has not answered holds its lock. For
`LogRefinement`, a batch counts as announced when its publishing step has run;
`LogInv` makes a commit the write of the abstract log, a publication its
announcement, and everything else a stutter.

`ThreadStream_proofs` proves, for any clients, threads, entities and batches, and
for any limits and numbers of faults:

| Theorem | States |
|---|---|
| `StreamInvariance` | `StreamSpec => []StreamInv`, the inductive invariant |
| `StreamTypes` | `StreamSpec => []TypeOK` |
| `SkipsNothing` | `StreamSpec => []NothingSkipped` |
| `KeepsEntitiesInOrder` | `StreamSpec => []EntitiesInOrder` |
| `NeverStepsBack` | `StreamSpec => NoStepBack` |

*Assumption.* `StreamAssumption`: the constants have their types, no transaction
stores an empty batch, and the limits are not zero.

*Argument.* What the server has still to read or to take from its channel is
`Ahead`, defined by the phase: everything above the start, then the page and what
lies behind it, then the retained events above the boundary. What it has read
and the client does not have is `InFlight`. In the phases in which events flow,
what the client has comes before what is in flight and this before what is ahead
(`FlowOrder`), and every event that is not ahead is `Accounted` for: held, in
flight or ahead itself, or replaced by one that is (`FlowComplete`). An event
replaces another if it is a later state of the same entity and between them there
was nothing but updates, none of another entity of the family; that is the
condition of `coalesceLiveUpdatedEvents`, read off the log instead of the window.
It is transitive, hence coalescing what was coalesced before loses nothing. The
window is not arbitrary: what is pending is a stretch of the thread's events
without gaps. A failed subscription loses its buffers but not what is sent, which
is therefore complete up to any of its events (`Remnant`); that is all a client
needs that goes on applying it and then resumes. `Retained` says that, while the
server reads, pruning has announced nothing above the start, and `ReplayShape`
that a replay which passes its second check of the boundary has missed nothing.
An `OfferAll` of many events goes item by item through one lemma
(`OfferOneKeeps`), so that the events move from ahead to in flight one at a time.

`ProviderSessions_proofs` proves, for any set of threads and any numbers of
openings, starts and failures:

| Theorem | States |
|---|---|
| `SessionInvariance` | `Spec => []IInv`, the inductive invariant |
| `ProcessesOwned` | `Spec => []ProcessIsOwned`, which includes `TypeOK` |
| `BusyTurnsExact` | `Spec => []BusyIsExact` |
| `StopsSpareTurns` | `Spec => TurnsAreSpared` |
| `RequestInvariance` | `Spec => []RInv`, the invariant of requests and records |
| `ReleasesSettleRequests` | `Spec => []RequestsSettled` |
| `ReleasesSpareRequests` | `Spec => OwnRequestsOnly` |

*Assumption.* `SessionAssumption`: the constants have their types, and no thread
is called as one of the two causes of a release that are no thread.

*Argument.* `OneOpening` is the lock of openings; by it a runtime that is being
opened is one thread's alone (`OpeningIsFresh`), so an opening that fails leaves
no process behind and one that succeeds is the entry's. `LiveIsUnreleased` says
that a removal is the only way to a release, which makes `ProcessOwned`
inductive. `BusyIsExact` is about a set that three parties write: starts, the
pump, and removals. It rests on `ToldHasEnded`, what waits for the pump is the
end of a turn that is over, so that the pump never takes away a busy turn that
still runs; and on the order in which a turn is told before its thread goes on.
`TurnsAreSpared` follows from it, because an idle release looks at the busy turns
in the same step. For requests, `OpenedInOrder` numbers runtimes by opening, so
that the records of a release speak of what came up to it; a request is pending on
the live runtime or on one that is released (`RequestPlaced`).

`RunQueue_proofs` proves, for any messages, attempts and interventions:

| Theorem | States |
|---|---|
| `QueueInvariance` | `Spec => []IInv`, the inductive invariant |
| `OneRunAtATime` | `Spec => []OneActiveRun` |

and `RunQueueMessages_proofs`, likewise:

| Theorem | States |
|---|---|
| `MessagesInvariance` | `Spec => []MessagesInv`, the inductive invariant |
| `QueueTypes` | `Spec => []TypeOK` |
| `SettledByOwnTurn` | `Spec => []SettledByItsOwnTurn` |
| `OneDelivery` | `Spec => DeliveredOnce` |
| `NoMessageLost` | `Spec => []NothingLost` |

*Assumptions.* `MessagesAssumption` and `BoundsAssumption`, for the second table:
`NoMsg` is no message, runs of agents are runs, a run has an attempt, and an effect
has a try.

*Argument.* A command commits what it has read, while starts, finalizations and
captures go on without the lock. They never make a run active that was not, so
the active runs stay among those that the holder of the lock has seen
(`CopyIsAhead`). It has seen one at most, and either starts a run because it has
seen none, or writes the one it has seen; a restart that finds its run over in the
meantime (finding 5) still makes active only that one.

`MessagesInv` says where a message may be that no call has confirmed: it has a
queued run, or one steer in the lane, or it is the text of the attempt that its
run is about to start, and it is at one of these places only (`MessageInv`). A
steer keeps its message through all its tries, whatever copies the failed ones have
given; only a call that succeeds confirms it, and takes it from its place in the
same step. A confirmed message is thus at none of the places a call takes its text
from, which is `OneDelivery`. Who reads and writes
later needs two facts. From the read of an effect that starts an attempt until
its call has returned, that attempt is its run's and has no turn (`StartHolds`):
Stop ends the effect, a restart waits behind it in the lane. And the holder of
the lock may rely on part of its copy (`Copied`): texts, the active attempt of a
run that is still active, and turns that have begun. By these, what makes a run
waiting or completed is the completed turn of its current attempt (`SettledInv`).
`NoMessageLost` needs `CarriedInv` too: unless a restart has met its run's end
(`late`, finding 5), the lane holds at most one effect that starts a run, its run
is the thread's active one, and every message that was taken has one of the
outcomes that `NothingLost` lists; an effect leaves the lane without having given
its message, or put it into a new run, only where `forgone` or `dropped` records it.

`DelegatedCompletion_proofs` proves, for any finite set of tasks and any number
of Stops and cancellations:

| Theorem | States |
|---|---|
| `CompletionInvariance` | `Spec => []IInv`, the inductive invariant |
| `ClaimsCarried` | `Spec => []ClaimsAreCarried`, which includes `TypeOK` |
| `QueuedWakesCurrent` | `Spec => []QueuedWakeIsCurrent` |
| `OneRunOfParent` | `Spec => []SingleActiveRun` |
| `ResultsToldOnce` | `Spec => []ToldOnce` |
| `CohortGoesForward` | `Spec => CohortStepsForward` |
| `StatusGoesForward` | `Spec => StatusStepsForward` |

*Assumption.* `CompletionAssumption`: finitely many tasks, and a number of
interventions.

*Argument.* Some handlers merge what they have read with the row and some write
it whole. Both are safe for the cohort because everyone who changes it holds the
lock: the holder's copy has the cohort of the row (`Locked`, `SameCohort`), and
only the status and the checkpoint may have gone on. `CohortShape` and
`TaskShape` tie a claimed task to the ids of the current delivery; `WakeShape`
ties a wake that waits or runs to the current generation and to its ids, unless
the cohort was disposed of. Two parts are less obvious. `ParentSettled` says that
once a wake has started, the parent has settled in the row and in any copy of it:
without it a wake policy that comes late, decided on a copy, could put off or take
back a result that has just been told. `GenerationsSpent` bounds the generations:
each one has decided a task or carries one now, and a decision is never undone, so
that there are no more generations than tasks and no wake is named twice.

`StatusGoesForward` needs to know how far behind a copy may be, since the handlers
that do not merge write the status they have read. `OneWay` says that, until a
Stop, the row and the copy have statuses on one way from the start of the run to
its end, and which part of the way by what turn and capture have done: nothing
but running before the turn has ended, then waiting and completed, or
interrupted, or failed. A commit may put the row back on that way, and only the
cancellation of a wake does.

`Subsequences_proofs` has no theorem about the system. Its `AmongRises` and
`AmongKeeps` say what a filter leaves, and in which order; the rest is about sets
of numbers and sequences in rising order, and serves streams and queues alike.

*Only model-checked.* Liveness, which the prover cannot reach (nor ENABLED):
`EveryEffectSettles`, `WaitersReturn`, `EveryRequestAnswered`,
`CommittedIsAnnounced`, `CatchesUp`, `ResultsReachParent`, `QueueMoves`,
`EverySessionEnds`. The refinement of `LaneQueue`, whose abstract queue is a
sequence made from the rowids with operators of the community modules. And what
the violation runs refute. Every other safety property that a run checks is the
statement of a theorem.

## 5. Not modelled

Most of the repository is the translation of provider protocols (the adapters,
generated schemas), user interface, and input and output (git, terminals, pull
requests, the gateway): large, without state that the server's correctness rests
on beyond what the models of the server already take from them as outcomes.
Projections and paging are folds of events and have no concurrency of their own.
The client's connection supervisor retries with back-off, but in this repository
its network is always online and its connection always wanted, so that it has one
reachable cycle; `ThreadStream` has it as a lost connection that comes back.

Inside the modelled components:

- *Event sink*: `writeIfProviderThreadOwner` and its relatives,
  `guardUserInputCancellations`, channels per event type.
- *Effects*: a claimed row whose payload does not decode.
- *Stream and client*: the persisted cache, byte limits, the shapes of snapshots.
- *Delegated completion*: delivery into a live turn (steering, notifications), the
  dispose variant of an acknowledgement, Stop with `holdQueue` or without a
  provider session, holds for usage limits and missing worktrees, archived
  threads, follow-ups to a task that has ended, recovery after a crash.
- *Provider sessions*: the server's shutdown, credentials, unloading of threads in
  the provider, the content of the roster of background tasks, the timeout of a
  close, the reasons given to users.
- *Run queue*: usage limits, worktrees and validation (`failQueuedRunStart`), wakes
  and goals, compaction, a change of model or provider, archive, edit, crashes and
  recovery; of the turn control, the delegated-cohort check of a steer and a target
  that another provider session has taken over, and interrupts and captures that
  fail, a provider that does not answer an interrupt included; of every effect,
  reads of the database that fail, and the statements that settle it (these are in
  `EffectWorker`).
- *Recovery*: terminalization of runs and the restart continuation; only its
  outbox half is modelled, in `EffectWorker`.

## 6. Plan

In this order; the first items are those whose failure would lose work.

1. The steps of the refinement of `LaneQueue`: each statement of the outbox is a
   step of one lane or a stutter, from `RowInv`, with the queue of a lane written
   with `InOrder`.
2. Crashes in `RunQueue`: the terminalization of runs by recovery and the restart
   continuation, composed with `EffectWorker`'s outbox.
3. `ShellStream` with its latest-wins buffer; channels per event type;
   `guardUserInputCancellations`.
4. `TurnItemPositions` and other pure algorithms, against reference
   definitions over bounded inputs.
5. `KeyedLock` as an implementation of the mutual exclusion `EventSink` assumes.
