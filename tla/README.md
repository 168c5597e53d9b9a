# Verification of the trading service

TLA+ models of the parts of `trading-service` whose correctness depends on the
order of things: the trade control plane (a request becomes a policy decision,
an intent, a reservation, an execution), the transactional outbox behind it, the
legacy paper book and its migration, the policy gate, the command queue that starts and stops the
research cycles, the limiter their language-model calls pass, the research questions
a cycle leaves for the next, and the durable training jobs; with the TLC runs that check them on small instances and the TLAPS
proofs that hold for every instance. Paths below are relative to `src/`.

## The system

The service is an autonomous paper-trading backend in Python over a MongoDB
replica set. `cycle_main.py` starts a health server, a poller for the command
queue `v3_system_commands`, and a set of background workers in one asyncio loop;
interactive tools and tests call the same code from other threads or processes.
What all of them share are the collections; the coroutines of one process also
share class attributes (`PipelineService`).

| Component | State | Operations | Hard behaviour |
|---|---|---|---|
| Trade facade `app/trading/facade.py` | none of its own; one call of `submit_trade` | replay check, policy, admission, execution, classification of errors | concurrent calls with one key, lost acknowledgements, a crash between two operations |
| Admission `app/trading/attribution/repository.py` | `execution_intents`, `risk_reservations`, `execution_slots` | admit, supersede, release, consume, expire | competition for the last cash, supersession against execution and expiry |
| Executor `app/trading/executor.py` | `bots`, `positions`, `position_lots`, `lot_closures`, `orders`, `trade_fills` | one transaction per BUY or SELL | all-or-nothing settlement, data read before the transaction |
| Outbox `app/trading/outbox/` | `execution_outbox`, `execution_reconciliations` | claim a batch, process, complete, fail, replay | leases, stale owners, retries, worker death |
| Policy `app/trading/policy/` | none (a function of a snapshot) | `build_policy_snapshot`, `evaluate` | thresholds, rounding, degraded data |
| Mode resolution `app/trading/control_plane.py` | configuration | OBSERVE, SHADOW or ENFORCE | precedence, failing closed |
| Legacy paper trader `app/trading/paper_trader.py` | the same account collections | buy, sell, stop-loss and take-profit sweeps | reads before the transaction, lots and position kept apart |
| Lot migration `app/trading/migration/lot_migrator.py` | `position_lots`, the mode of a bot | reconcile, verify, promote | an operator against trades under way |
| Order triggers `app/trading/order_triggers.py` | `price_triggers` | arm, fire, expire | firing against re-arming |
| Outcome worker `app/trading/attribution/worker.py` | `decision_outcomes`, checkpoints | expiry sweep, maturity evaluation | partial failure of an iteration |
| Command queue `cycle_main.py`, `app/services/cycle_queue.py` | `v3_system_commands` | enqueue, claim, complete, skip | crash while running |
| Cycle lifecycle `app/services/pipeline_service.py`, `pipeline_state.py` | class attributes, `pipeline_state` | start, stop, fast stop, force reset, orphan clearing, boot | stop racing start and end, state read before an await |
| Scheduler `app/services/cycle_scheduler.py` | `cycle_schedules` | arm, fire, defer, rearm | refresh lost in a crash |
| Durable training `app/services/durable_training_service.py` | `training_jobs`; the Jetson's model registry | submit, cancel, reconcile, admit, lease, train, evaluate, promote | leases, crashes, lost answers, a remote job that goes on |
| Adaptive concurrency `app/services/adaptive_concurrency.py` | counters of one process | acquire, release, re-evaluate | cancellation of waiters, limits that move |
| Research questions `app/services/research_queue_service.py`, `question_ledger.py`, `research_work.py`, `app/v3/dossier_sync.py` | `v3_research_queues`, `dossier_question_log` | ask, queue, claim, answer, hand back, deliver, reclaim | leases, an answer in several documents, desks that ask again while it arrives |
| Research governor `app/services/research_governor.py` | none | filters a worklist | none |
| Agent pipeline `app/v3`, `app/cognition`, collectors, scraper, autoresearch | documents | calls of language models, I/O | inputs of the facade |

Components interact through collections, and the poller, the trigger sweep and
the task of a cycle through `PipelineService` as well: the facade
calls admission and the executor; the executor's transaction inserts the outbox
event the outbox worker consumes; the outcome worker's sweep expires what the
facade left behind; the poller starts the cycles whose pipeline calls the facade.

What makes each correct:

* Control plane: a key trades at most once; reservations never promise more cash
  than there is; intent, reservation, slot, fill and event change together;
  reserved cash always comes back; a caller is never told of a trade that was
  not made.
* Outbox: only the lease's owner settles an event; COMPLETED means reconciled,
  for good; failures are counted exactly; every event settles.
* Command queue and cycles: a command starts at most one cycle, and its status
  tells whether it did; a process runs one cycle; the published status never
  invites a deploy while a cycle runs, never claims a cycle that is gone, and
  keeps a cycle's outcome; a stop does not reach into the next cycle.
* Legacy book: lots never exceed the position, no trade creates or destroys
  money, a promoted book balances, the policy is advisory in OBSERVE.
* Training: a job has one executor; outcomes and cancellations are final; a
  model reported as promoted is or was in service and was compared with the one
  it replaced; every job ends.
* Limiter: no slot leaks, no ceiling is passed, no waiter is forgotten.
* Research questions: a delivered answer is never erased; a claim ends, and a
  stored answer arrives; attempts are counted exactly.
* Not modelled yet: a trigger fires once.

## Modules

| Module | Models |
|---|---|
| `TradeLedger` | what a caller of the facade is promised: an at-most-once ledger over keys |
| `ExecutionControl` | the ENFORCE path: facade, admission, executor, expiry sweep |
| `PolicyGate` | the quote, the snapshot, the gates and the size of a policy decision, and the rollout mode, as functions of what is read |
| `MCExecutionControl` | the instances of `ExecutionControl` for TLC, and its comparison with `PolicyGate` |
| `SumTheorems` | facts about finite sums, which the proofs below use |
| `ExecutionControlProofs` | the theorems of `ExecutionControl` and of `PolicyGate` |
| `Outbox` | the outbox queue and its workers |
| `MCOutbox` | its instances for TLC |
| `OutboxProofs` | its theorems |
| `CycleCommands` | the command queue and the life of a cycle, in any number of processes |
| `MCCycleCommands` | its instances for TLC |
| `CycleCommandsProofs` | its theorems |
| `DurableTraining` | the training jobs, the worker loops and the Jetson, in any number of processes |
| `MCDurableTraining` | its instances for TLC |
| `DurableTrainingProofs` | its theorems |
| `AdaptiveConcurrency` | the limiter of one process |
| `MCAdaptiveConcurrency` | its instances for TLC |
| `AdaptiveConcurrencyProofs` | its theorems |
| `PaperLedger` | the legacy book of one bot in OBSERVE, and its migration |
| `MCPaperLedger` | its instances for TLC |
| `PaperLedgerProofs` | its theorems |
| `ResearchQuestions` | the questions of one ticker, from a desk to their answer, over any number of runs |
| `MCResearchQuestions` | its instances for TLC |
| `ResearchQuestionsProofs` | its theorems |

`TradeLedger` is the abstract specification `ExecutionControl` implements; `Outbox`
takes over the events its transactions insert. `CycleCommands` is upstream of
both: the cycles it starts are where requests come from. `PaperLedger` is what the
facade does in the control plane's default mode, up to the promotion that hands
the account to `ExecutionControl`; what it leaves (lots that match the position)
is what `ExecutionControl` starts from. `ResearchQuestions` runs inside the cycles of
`CycleCommands`, whose stops and resets are its `Crash`. `AdaptiveConcurrency` and
`DurableTraining` share nothing with the others but the process they run in.

### ExecutionControl

A request is one call of `submit_trade` for one account, in any process. `pc[r]`
is its next database operation; the requests interleave between operations, and
each can die (`Crash`).

| Action | Code |
|---|---|
| `Submit` | idempotency replay check, `facade.py:114-174` |
| `Evaluate` | quote, snapshot, `PolicyTranslator.evaluate`, `facade.py:176-259` |
| `AdmitNew`, `AdmitDuplicate`, `AdmitAborted` | `admit_execution_intent`, `repository.py:595-869`, and its answers in the facade |
| `Lookup` | lookup after a failed admission, `facade.py:351-375` |
| `Preflight` | checks before the transaction, `executor.py:57-180` |
| `ExecuteCommit`, `ExecuteReject`, `ExecuteAbort` | the transaction, `executor.py:343-669`, and the facade's handling of what it raises |
| `Confirm` | lookup after a failed execution, `facade.py:441-461` |
| `SweepIntents`, `SweepReservations`, `SweepSlots`, `SweepCrash` | `expire_stale_intents_and_reservations`, three updates outside a transaction |
| `Tick` | time |

**Transactions are one step.** This is sound although MongoDB gives snapshot
isolation and not serializability, because the documents a transaction relies
on are written by it or by whatever it could conflict with: a BUY's admission
writes the `bots` document (`$inc reservation_version`) and the slot; an
execution writes the intent, the reservation, the slot and `bots`; duplicates of
a key meet in the unique index on `idempotency_key`. A SELL's admission does not
write `bots`, but it reserves nothing. Two transactions that overlap therefore
conflict and one aborts, which is `AdmitAborted` or `ExecuteAbort`. The slot's
version check cannot fail inside one transaction; a concurrent change is a
write conflict, again `AdmitAborted`. A commit whose acknowledgement is lost is
modelled: `AdmitNew` may go to the lookup, `ExecuteCommit` to `confirm`.

**Time.** The intent, its reservation and its slot claim share one `expires_at`;
`ttl[i]` is the number of ticks left, and distinguishes `>` (consumption), `<`
(the sweep) and equality. The TTL of 900 seconds is `TTL` ticks.

**Money.** Amounts are natural numbers. `Evaluate` chooses any notional the
snapshot's cash covers (the gates and the sizing are abstracted to the choice).
A policy-approved SELL is always the whole position (`policy_translator.py:249`).
`Fee` is a parameter: the executor reads the cost keys `commission` and
`exchange_fee` (`executor.py:165,177`), which the cost model never supplies
(`app/quant/execution_costs.py:284-296`), so it is 0 in the shipped code, and
reservations do not include it. `ReservedWithinCash` therefore allows live
reservations to exceed the cash by the fees of the fills so far, and is exact
for the shipped fee of 0. Lots are followed by their total per
ticker, and may fall short of the position, as migrated accounts do.

**Abstractions.** A caller may pass a slot key of its own (`facade.py:86`, `335`); the model
ties the slot to the ticker, as the default does, and so `OneLivePerTicker` speaks of callers that
use the default. The status REVOKED, which nothing writes, is left out. The second
and third update of the sweep match by time and could also take what expires between them;
they are modelled on what the first one found, and the rest is left to the next sweep.
One account (nothing is shared between accounts); the `bots`
document exists and the policy decision is found; telemetry is left out. Statuses
POLICY_DENIED, SUPERSEDED, EXPIRED, RETRYABLE_ERROR and RECOVERY_REQUIRED are one
NOT_EXECUTED, since no property tells them apart.

### Outbox

`status`, `attempts`, `at` (`retry_after` or `locked_at`, relative to now) and
`owner` are the document; `step`, `batch`, `current`, `seen` and `drift` are a
worker's local state. A worker's token is fresh in each claim call, so the model
keeps only whether the token in the document is the worker's current one.
`drift` is the age of the `now` a claim call took when it started, which all its
updates use. `Fail` and `Record` are the read and the write of
`mark_outbox_event_failed`, which is not a transaction. The reconciliation's id
is a function of the intent (`reconciliation.py:54`) under a unique index, so
writing it twice is harmless. `Complete` may be applied and still raise, after
which the worker records a failure. `Crash` is the death of the process or a
database error outside the worker's own handler. Events are inserted by the
execution transaction, with PENDING and no `retry_after` (`executor.py:626-650`).

### CycleCommands

`command` and `kind` are the queue, `db` and `stale` the `pipeline_state` document;
`step`, `current`, `result` and `awaited` are a worker's poller, `mem`, `handle`,
`stopFlag` and `killed` the class attributes of its `PipelineService` and the kill
switch of the LLM shim; `phase[c]` is how far the task of cycle `c` is.
`pipeline_service.py` is meant where no file is named.

| Action | Code |
|---|---|
| `Enqueue`, `Claim`, `Settle` | `cycle_queue.py`; `find_one_and_update` and the final upsert, `cycle_main.py:149-160`, `216-242` |
| `StartCommand`, `FireTrigger` | the checks of `start_cycle`, `815-875`, called by the poller and by `check_triggers` (`order_triggers.py:580`) |
| `Launch`, `LaunchFails` | the rest of `start_cycle`, `876-1058`, and its exceptions after it has published "starting" |
| `FastStopCommand`, `StopNothing`, `StopLeftover`, `StopCommand`, `FinishStop` | `request_stop` and `stop_cycle`, `3358-3409` |
| `ResetCommand`, `FinishReset` | `force_reset`, `3411-3447`, before and after its wait |
| `Begin` ... `Finish`, `Fail`, `Interrupt` | `_run_all_v3`: pre-flight, discovery, the tickers, its three ends |
| `CancelEarly`, `LeaveTail` | a cancellation before the `try`; the `finally` |
| `Boot` | `_reset_app_state`, `boot_service.py:238-252`, with its two updates and what is left when one fails |
| `Crash`, `Age` | the death of a process; 15 minutes without a write of the state |

**Atomicity.** One process has one event loop, so code between two awaits is one
step for the other coroutines of the process (`LoopFree`). Processes share only the
database, so the claim, the checks, the launch and the settlement, which each
read or write it, are separate steps, between which other processes act and a
crash may fall.

**Waking up.** When an awaited task ends, the coroutine in `asyncio.wait_for` needs
some turns of the loop before it goes on (Python 3.11, `Dockerfile:12`). In between
the trigger sweep may run; the poller of that process cannot. A cycle started
then first awaits a network call, which takes longer than the wake-up, so
`Advance` lets a task that is past its first turn proceed only when no poller is
due (`ResumeDue`). The timeouts of the waits (5 s, 3 s) cancel the task again and
go on waiting, and are no steps. `request_stop` arms the shim's switch in a
task of its own, which the first-in-first-out ready queue runs before the
cancelled cycle can unwind: it is armed at once.

**Failing calls.** `save_state` catches every exception of the database, logs it and
returns (`pipeline_state.py:85`): the cycle goes on over a document that still says what
it said before. `get_state` answers "unknown" (281), and `start_cycle` then has nothing
but the task handle to go by (`PassChecks`). A start that raises after it published
"starting" leaves a cycle without a task, and its command ends in "error"
(`LaunchFails`). A failing update at boot skips the rest. Each such failure is a
`Fault` of the step, in any step, any number of times up to `MaxFaults`. The history
variable `lapse` says why the document may not tell the truth at the moment:

| `lapse` | since | until |
|---|---|---|
| lost | a write of the state failed | the next write that takes effect |
| launch | a start failed after it published its cycle | the next write |
| stop | `stop_cycle` published "stopped" over a cycle the sweep started while it waited | the next write |
| reset | `force_reset` forgot such a cycle, which runs on without a handle | the end of the behaviour |

`StatusMatchesCycle` is asked when none of these holds: after every other step, and again
after the write that heals. It does not ask what the code cannot give, a true document
after a write that was lost; it does ask that no such write does lasting harm, and that
nothing else makes the document lie. `StoppingEnds` waits for a lapse to end, too.
`AtMostOneLive`, `FreshCycleNotKilled` and `OutcomeKept` except nothing but "reset".
`OutcomeKept` is about cycles that ran: a STOP may well relabel a start that failed.

**Abstractions.** `admit` and the validation of the payload are the nondeterministic
second disjunct of `StartCommand`. `Age` needs every cycle to be over: a live one
writes its state at each event, and the age it measures is 15 minutes. Commands
without effect on the cycle, failures of the poller's own claim and settlement, the
drain of REFRESH_SCHEDULE, the rearm of deferred commands and the graceful
shutdown are left out. A cycle's end by `Finish` stands for every way out of the
`try` that sets "done".

### DurableTraining

`status`, `owner`, `live`, `jetson` and `candidate` are a job's document, `training`,
`active` and `served` the Jetson; `pc`, `cur`, `scan`, `read`, `seen`, `outcome` are a
worker's locals. All lines are of `durable_training_service.py`.

| Action | Code |
|---|---|
| `Submit`, `Cancel`, `CancelWrite` | `submit_job` 176-234; `cancel_job` 730-759, before and after the call to Jetson it awaits |
| `Reconcile`, `ReconcileWrite` | `reconcile_stale_leases` 636-728: the read of the list, then one write per job |
| `CountActive`, `Health`, `Take`, `PostCount`, `Revert` | `try_admit_next_job` 236-321 |
| `FindAndRead`, `Acquire` | the loop's query 775-789; the lease 353-392 |
| `SubmitRemote` ... `Settle` | `process_admitted_job` 394-634, one action for each call whose answer is used later |
| `ReplaceActive` | others who change the model in service: the decay monitor, `decay_monitor_service.py:183-212`, scheduled at `cycle_main.py:334`, and the routes that promote and roll back, `feature_training_router.py:301`, `330` |
| `RemoteEnds`, `RunsOut`, `Stall`, `Crash` | the Jetson, the clock, a worker that is held up, a process that dies |

**Time.** Timestamps are kept as what is compared: whether the lease is in the
future. A lease value read by `reconcile_stale_leases` and used as a filter later
matches until the next write of a lease to that job; `Renewed` clears such
pending writes, which is the filter not matching. The write to an ADMITTED job
filters on the status instead, and stays.

**Other writers.** The decay monitor and the routes share nothing with the worker but the
Jetson's model in service, and nothing tells the worker of them: `ReplaceActive` puts any
model the Jetson has into service, at any moment (`Replacements` says whether they are
about). The history variable `moved` is set by it and cleared by the next comparison, so
that `ComparedWithReplaced` can say exactly what is left of the promise: the worker's own
crashes, restarts, cancellations and lost leases never put a candidate in the place of a model
it was not compared with; a replacement by others between comparison and promotion
can, since the Jetson offers no compare-and-swap to close this window
(`docs/DEV1_LIFECYCLE_EXECUTION_AND_RECOVERY_2026-09-18.md:94-97`).

**Atomicity.** Two pairs of reads are one step: the loop's query and the read of the job it
found (778, 344), and the second count and the read of the oldest active job
(299, 305). The writes that follow are conditional on what the document says by then
(`Acquire`, `Revert`). The query has no order, and `FindAndRead` takes any job that
qualifies. A job has one remote job however often it is submitted: its idempotency key stays
(184, 403).

**Abstractions.** The jobs are of one task, so their candidates compete for one
place; a submission that deduplication refuses changes nothing and is left out.
Any call to the Jetson may fail (`Fault`), before or after it took effect; `get_health` then
answers with a report that has no load (`jetson_feature_client.py:330-341`), which
admission reads as none (262). A
promotion it accepts may be without effect, which is why the code reads back.
The metrics of a candidate are a choice: the gate passes or rejects.

### AdaptiveConcurrency

The condition's lock is never held across an await, so evaluating and taking a
slot is one step; a notified caller evaluates when the loop resumes it, after
others perhaps. Lines of `adaptive_concurrency.py`.

| Action | Code |
|---|---|
| `Call`, `Resume` | `track` 325-329 and the loop of `_acquire_slot` 89-120, with `_maybe_update_limit` 260-287, `_compute_limit` 221-258, `limit_for` 181-219 |
| `Finish` | the `finally` of `track` 331-340 and `_release_slot` 121-131 |
| `Leave` | a cancellation while waiting |
| `Poll` | `PrismLLMShim._poll_all_metrics`, `prism_agent_caller.py:1183-1206` |

The cache left is a percentage; `ADAPTIVE_REEVALUATE_INTERVAL` is the choice between
the old and the newly computed limit. `gather` admits the same way and is left out.

### PaperLedger

A call is two steps: its reads and checks (`Submit...`), and its transaction
(`Bought`, `Sold`, or `Refuse`). Nothing is awaited between the two in the process
that trades, so there is one `call` at a time; the operator's script is another
process and acts in between. Lines of `paper_trader.py` and `lot_migrator.py`.

| Action | Code |
|---|---|
| `SubmitBuy`, `SubmitSell` | the OBSERVE branch `facade.py:260-281`, `buy` 415-470, `sell` 866-968 |
| `SubmitExit` | `check_stop_losses` 1282-1337, and the take-profits alike |
| `Bought`, `Sold` | the transactions of `buy` 661-790 and `sell` 981-1156, with the FIFO walk over the lots |
| `Refuse` | the consumption of the intent, which is not stored, `sell` 971-979 and `buy` likewise |
| `Reconcile` | `reconcile_and_migrate_bot_positions` 82-229 |
| `Verify`, `Promote` | the two halves of `promote_bot_to_enforce` 345-378 |

**Money.** The average price is kept as `basis`, its product with the quantity, so
that buys add exactly; the instance counts in twelfths, so that the averages of up
to four shares are whole. Fill prices include the execution cost.
**Abstractions.** One bot; a BUY that the sanity gate, the breaker or a cap refuses
changes nothing and is left out; `update_position_exits` and snapshots touch
neither shares nor money. The migration's replay of fills reads `qty` and `price`,
which the legacy trader does not write, and yields nothing; its lots carry the time
of the migration (positions have `opened_at`, not the `created_at` it asks for) and
are therefore the newest.

### ResearchQuestions

A run is one pass of a cycle over the ticker; `pc[r]` is the next call of the database.
Runs overlap when two processes trade, or when an old cycle goes on after its leases
were reclaimed. Lines of `research_queue_service.py` unless said otherwise.

| Action | Code |
|---|---|
| `Start`, `Publish`, `Complete`, `Delivered`, `DeliveryFails` | `deliver_ready_answers` 328-355 with `_remove_answered_question`, at the start of `claim_for_ticker` and, for the run's own answer, in `finish_claim` |
| `Reclaim`, `Reclaimed` | `reclaim_stale` 177-215 |
| `Claim`, `Claimed` | `claim_for_ticker` 277-293 and its caller `pipeline_service.py:2622-2626` |
| `Heartbeat` | `renew_research_leases`, `pipeline_service.py:2628` |
| `Desk` | the questions of a desk, `collect_open_questions`, `dossier_sync.py` |
| `Record`, `InsertOpen`, `MarkReasked`, `RecordEnds` | `record_asked`, `question_ledger.py:100-168` |
| `Drop` | `mark_not_reasked`, `question_ledger.py:171-199` |
| `Enqueue`, `InsertItem`, `SyncEnds` | the loop of `sync_desk_to_dossier`, `dossier_sync.py:153-169`, over `enqueue_item` 25-78 |
| `Request` | the endpoint of the research firm, `research_firm_router.py:77` |
| `Answer`, `Defer`, `Finished` | `finish_questions`, `research_work.py:97-111`, over `finish_claim` 308-326 |
| `Release`, `Released` | the `finally` of the run, `pipeline_service.py:2647-2660` |
| `Crash`, `Expire`, `CoolOff` | death or teardown; 30 minutes without a heartbeat; the half day of `next_attempt_at` |

**Time.** An entry is `stale` or not, `cooling` or not; both are set by the passing of
time at any moment, so a lease can run out under a live run.
**Abstractions.** One ticker; the lease token is the run that holds it; entries are taken
and delivered in any order, which covers the order by priority and age. What counts as
evidence is a choice. `(ticker, question_hash)` identifies a row of the ledger, as the
upsert intends; no unique index enforces it, and two processes that insert at one
moment could make two rows. The look for a duplicate and the insertion of an entry are one
step in `Request`, and the look is over the whole queue, where the code looks at one
`queue_type` and a hundred entries (`research_queue_service.py:37-39`); a `Drop` takes all its rows at
once; deliveries for other
tickers, which share the limit of 20 to a call, are left out. The list
of open questions in the dossier is read by prompts only and left out, except that its
update can make a delivery fail. Anything can fail: an exception ends `record_asked` with
nothing, the synchronisation, a delivery, or the claim after it took its entries.

### PolicyGate

The gate keeps no state: its operators are functions of a book (balance, holdings,
stored prices and their ages) and a proposal.

| Operator | Code |
|---|---|
| `Quote` | the price the facade judges by, `facade.py:176-183` |
| `Mark`, `MarkIsFresh`, `PositionsValue`, `Snapshot` | `build_policy_snapshot`, `snapshot_service.py:77-250` |
| `Gate`, `Rejected`, `Blocked` | the gates of `PolicyTranslator.evaluate`, `policy_translator.py:151-377` |
| `Sizes`, `Capped`, `TooSmall`, `BuyVerdicts`, `Verdicts` | the size, the caps and the decision, `policy_translator.py:80-98`, `249-478` |
| `Chosen`, `ResolvedMode` | `resolve_control_plane_mode`, `control_plane.py:35-82` |

Arithmetic is exact where the code uses floats; a tie is rounded either way, so a
verdict is a set. Money is counted in grains, `Grain` of them to a cent, because a
balance need not be a whole number of cents. An age is a whole number of hours: the
thresholds are 12 and 24. `ExecutionControl!Evaluate` chooses among what this gate can
answer; `GateWithinEvaluate` in `MCExecutionControl`, which TLC evaluates when `control`
starts, compares the two on small books, and `GateIsExercised` says that those reach
every disposition; `GateWithinChoices` proves the inclusion for every book in whole cents.

## Runs

| Run | Asks | Bounds |
|---|---|---|
| `control` | `TypeOK`, `AnswersMatchTrades`, `SettledTogether`, `OneLivePerTicker`, `ReservedWithinCash`, `ImplementsLedger`, `TerminalIsFinal`, `ReservationDrains` | 2 requests, BUY keys on two tickers and a SELL key that does not supersede, two notionals, cash 4, fee 1, TTL 1, under fairness |
| `outbox_leases` | `TypeOK`, `RetryBudget`, `CompletedIsReconciled`, `OnlyOwnerSettles` | 2 events, 2 workers, batches of 2, 1 replay |
| `outbox_liveness` | `EventSettles` | 2 events, 1 worker, 1 replay, under fairness |
| `cycle_poller` | `AtMostOneLive`, `StatusMatchesCycle`, `FreshCycleNotKilled`, `OutcomeKept`, `CommandSettles`, `StoppingEnds` | 1 worker, 3 cycles, 2 commands of START, STOP, FORCE_RESET, the sweep, 1 crash, 1 fault, under fairness |
| `cycle_workers` | `TypeOK`, `CommandTruth` | 2 workers, 2 cycles, 2 commands of START, STOP, FAST_STOP, the sweep, 1 crash, 1 fault |
| `training_pair` | `TypeOK`, `ExclusiveExecution`, `OutcomeIsFinal` | 2 workers, 2 jobs, one of them cancellable, 1 crash, 1 lease that runs out under a live worker |
| `training_solo` | `SoloCapacity`, `ComparedWithReplaced`, `JobSettles` | the deployed single worker, 2 jobs, 1 cancellable, 1 crash, 1 such lease, 2 faults, other writers of the active model, under fairness |
| `training_champion` | violated: `ReplacementHasEvidence` | 1 worker, 1 job, 1 fault, no other writers |
| `limiter_calls` | `TypeOK`, `SlotsAccounted`, `WithinCeilings`, `HeavyWithinBudget`, `WaiterServed` | 5 callers of one call each: two on a box, two heavy, one heavy and urgent; limits 1 to 2, 1 for each box, under fairness |
| `paper_books` | `TypeOK`, `LotsWithinPosition`, `PromotedBooksMatch`, `WorthConserved` | a position of two shares older than its lots, two prices, two sizes, 4 trades |
| `paper_observe` | violated: `PolicyIsAdvisory` | 2 trades |
| `research_runs` | `TypeOK`, `CompletedIsAnswered`, `AttemptBudget`, `ClaimSettles` | 2 runs, 1 question, 1 entry, 3 attempts, under fairness |

Two requests are enough for the interference that matters: one competes with,
retries, or supersedes the other between any two of its steps, while the sweep runs;
the cash covers the larger notional once and the smaller one twice, each with its fee.
The safety properties are proved for any number of requests.
One tick of TTL separates an intent that can be consumed from one that is just
expired and from one the sweep takes. With two workers a
lease can be lost and reclaimed while the first worker is at any of its steps;
batches of two make an event wait behind another past its lease. `MaxAttempts`
is 2 (5 in the code): one failure that retries and one that gives up. `EventSettles`
is checked with a batch as large as there are events, so that no event waits for
a place in one. The sweep starts cycles at any moment, so that two
commands are a stop and a reset, or a start and what ends it, against any of
three cycles: one that is stopped, one started while its end is awaited, and one
after them. One fault is a lost write, a failed read, launch or boot at any step.
The fast stop is left to `cycle_workers` because the stop of the other properties is the
one that waits. The runs of
cycles do not check deadlock: the system stops when the bounds are used up. Two training jobs are one that runs and one that is wrongly admitted
next to it, two workers an owner and a rival, one crash and one expired lease at
any step of either; `training_pair`, without faults and other writers, leaves them to
`training_solo`, whose worker they all pass through, and to the proofs. Five callers on
two slots make three wait, among them both kinds that can be overtaken; every
tier of the limits is read. Two runs are the one that asks and the one that answers, or
an old one and the one that took over its claim, and each runs any number of times; a
second question or entry adds no interference, since nothing but the limits of a claim and
of a desk relates two of them, and the invariants are proved for any number. Four trades are a buy, a partial sell, a second sell
and an exit, with the migration between any two.

**Findings.** `training_champion`: when the lookup of the active model raises, the
gate goes on as if there were none (494), and the candidate replaces a champion it
was not compared with, which line 512 and `docs/DEV1_LIFECYCLE_EXECUTION_AND_RECOVERY_2026-09-18.md:28`
rule out. `paper_observe`: the OBSERVE branch passes on the id of an intent that it
never saves (`facade.py:279`), `buy` and `sell` first consume that intent, and refuse
when they do not find it (`paper_trader.py:652`, `972`): what the policy approves is
refused, and what it denies is executed, though `facade.py:13` and `control_plane.py:4`
call the policy advisory in this mode.

**Observations.** Met while modelling, described here and not checked by a run.

* Policy. The snapshot reports a drawdown of 25 % in `circuit_breaker_active`
  (`snapshot_service.py:244`), the gate reads `drawdown_breaker_active`
  (`policy_translator.py:342`), which nothing sets: the breaker stops no BUY
  (`DrawdownIsIgnored`). The health, consensus and data-quality gates read fields nobody
  sets either. A price of unknown age, and any price the caller passes, counts as new
  (`facade.py:181`), while the same price of another holding counts as 999 hours old.
  The size is judged by the cash without the reservations, which admission subtracts,
  and rounding can lift it half a cent above a balance that is not in whole cents, which
  admission refuses. A BUY whose entry mode is "watch_only" is approved like one to
  enter now, and a conditional SELL is recorded as a BUY (222). The second look at a degraded
  snapshot (322) cannot be reached.
* Facade. The policy is evaluated after the replay check, so the loser of a race
  on a key can be told POLICY_DENIED on the account the winner changed
  (`facade.py:248`). After a failed admission any intent under the key is reported as
  ALREADY_PROCESSED, a superseded or expired one too (`facade.py:356`). No trade is
  lost or doubled, and `trade_executed` is right (`AnswersMatchTrades`).
* Cycles. `request_stop` sets "stopping" without the check `stop_cycle` has, and
  relabels a cycle that is over (`pipeline_service.py:3361`); when there never was one, it
  leaves "stopping" behind. `stop_cycle` (3403) and
  `force_reset` (3435) go on after their wait as if nothing had happened, and publish an
  end over, or forget the handle of, a cycle the trigger sweep started while they
  were waking up. The windows are a few turns of the event loop. A write of the state that
  fails is logged and forgotten (`pipeline_state.py:85`): until the next one, an ended status
  can stand over a live cycle, which is what the docstring above it calls the direction that
  costs a cycle, or "running" or "stopping" over none; the last write of a cycle has no
  next one until the next start, stop, reset or boot.
* Training. With two workers and a crash two jobs can be active, despite the gate at
  297. `cancel_job` looks at no status and overwrites PROMOTED; nothing in the
  application calls it. The requeue of 701 filters on the lease alone: if a lease
  ran out under a worker that lives and then settles the job, the requeue brings
  it back; `OutcomeIsFinal` and `ExclusiveExecution` are stated for executions
  without such a lease. The heartbeat and the final write test the owner, not the
  expiry, unlike the promotion. The Jetson's promotion is no compare-and-swap. A
  promotion whose answer is lost is recorded FAILED while its model serves.
* Legacy book. The duplicate-order guard lacks the bot (903). In OBSERVE a SELL
  without a size sells a tenth (`facade.py:266`). While shares without a lot remain,
  a partial sell gives the position the average of the shares that have one.
  A reconciliation that reports PASS may be followed by a promotion that is refused
  for the cost basis. Promotion does not look at `provenance_complete`.
* Research. A question is queued only when it is asked for the first time. If the process
  dies, or the insertion fails, between `record_asked` and `enqueue_item`
  (`dossier_sync.py:128-156`), it is known and never queued, though the comment at 149 takes
  a question that is asked again to be in the queue; a `failed` entry is not queued again
  either. `record_asked` stops at MAX_QUESTIONS_PER_DESK, and `mark_not_reasked` then
  drops the sixth question although the desk did ask it; after an exception of `record_asked`
  it drops them all. An exception of `deliver_ready_answers` for one entry keeps the run
  from claiming any (271); one in the middle of the claims leaves those made to nobody for
  half an hour. A desk that saves an old dossier lists an answered question again.
  `AnswerIsFinal`, which is about the ledger, holds.
* Limiter. "Re-evaluates every 5 seconds" (29) is when somebody calls or releases; a
  sleeper does not look by itself. Heavy requests can be overtaken for ever. The
  tiers are not monotone: just above 40 % the limit starts from the minimum again.
  The kill switch is read before the wait and not after.

A process that dies during a stop leaves "stopping" behind: the boot resets
"running" and "starting" only. `StoppingEnds` therefore excepts it (`StopOrphaned`), and a
document whose last write was lost; the first START after 15 minutes clears the state.
A command claimed by a process that died stays "running" when the boot after it fails to
reset the queue: `CommandSettles` excepts it (`Abandoned`).

The processes of `cycle_workers` share one status document although the code
knows one process only: `StatusMatchesCycle` is checked and proved for one worker, since the boot of a second resets the status of the first.

**Fairness.** `control`: time passes, the outcome worker's loop keeps starting
sweeps (weak fairness), and the second and third update do not fail for ever
(strong fairness, for a sweep that fails starts over). Nothing is assumed of
requests: they may all crash. `outbox_liveness`: time passes, the worker's loop
iterates, and it does not die for ever at the same point of an iteration
(strong fairness of each step). Without that, an event that kills its worker
would be reclaimed for ever, because reclaiming does not count an attempt.
`cycle_poller`: the poller's loop goes on, a process boots, a start under way
launches its cycle, and a task whose cancellation is due unwinds (weak fairness
of each; `_run_all_v3` does not catch a cancellation and continue). No cycle is
assumed to end by itself. `training_solo`: the worker's loop goes on, the Jetson
ends what it trains, leases run out, and a cancellation under way is written
(weak fairness); the poll's timeout, like crashes and faults, need not come.
`limiter_calls`: the loop resumes whom it woke and a call of a model ends, by its
timeout if by nothing else. No caller is assumed to leave the queue.
`research_runs`: the ticker is run again and again and a run comes to its end or dies
(weak fairness), time passes, and the deliveries and the reclaiming of a given entry do
not fail for ever (strong fairness); a run is not assumed to survive.

## Proofs

`ExecutionControlProofs` proves, for every set of requests, keys and tickers and
every amount satisfying the assumptions, `TypeOK`, `NoOverdraft`,
`ReservedWithinCash`, `SettledTogether`, `OneLivePerTicker`, `AnswersMatchTrades`, `TerminalIsFinal` and that
`ExecutionControl` implements `TradeLedger`. (`NoOverdraft`, like `PromotedWasServed` and
`AnswerIsFinal` below, is in no run: it is an invariant of every instance.) The inductive invariant adds to the
properties what they silently rest on: a request that has not stored its intent
has no document anywhere (`NotYetStored`), stored intents have distinct keys
(`UniqueKey`), a request executes an intent under its own key (`TargetIsOwn`), a
live intent owns its ticker's slot (`LiveHoldsSlot`, from which
`OneLivePerTicker` follows), what the sweep holds as due is past its expiry
(`DueIsPast`), a BUY carries its approved amount (`BuyTerms`), the shares a request
means to sell are at least the position while its intent is live (`SellsWhole`,
without which a SELL need not be the ledger's), and COMMITTED is answered only
by the request that committed (`CommittedOnce`). `ReservedWithinCash` needs more
(`ReservedInv`): the stored intents are finitely many although the requests need not
be, so that there is a sum to speak of; a SELL reserves nothing (`SellTerms`); and the
fees are counted by the fills. An admission adds at most what the free cash covers, an
execution takes its own reservation out with the cash.

`OutboxProofs` proves the four safety properties of `Outbox`, from an invariant that
adds: a worker about to complete has written the reconciliation
(`CompletesReconciled`), an owned event is PROCESSING, in its owner's batch
(`OwnedIsClaimed`), the count a worker is about to write is current while it
owns the event (`CountIsCurrent`), and a replayed event has used its budget
(`ReplayedIsSpent`).

`CycleCommandsProofs` proves, for any number of processes, cycles, commands,
crashes and failing calls, with the sweep and every kind of command, `TypeOK`,
`AtMostOneLive`, `FreshCycleNotKilled` and `CommandTruth`. `AtMostOneLive` (`LiveInv`) rests on: a handle
points to a cycle of its process that exists (`HandleKnown`); a live cycle is its
process's handle, but for the one a reset forgets (`LiveIsHandle`); while a start is past its checks no cycle is
live there (`StartClear`); a poller that executes has a command of a known kind
(`ExecutesSome`). With these, `FreshCycleNotKilled` is inductive. `CommandTruth` (`CommandInv`) rests on: a command being executed is claimed, by
one worker (`ClaimHeld`); a command has no cycle before its launch, and one whose
launch failed has none (`NotYetCaused`);
and the outcome a poller is about to write is true (`OutcomeTrue`).

`StatusMatchesCycle` is proved for one process, the deployment (a second one resets the
document when it boots), with all the rest: any commands, the sweep, crashes, boots,
lost writes, failed reads and launches. The invariant (`StatusInv`)
says how the class attributes, the document and the tasks hang together between two
awaits: a process that is down has no status and no cycle (`DownEmpty`); cancellations are
for live tasks (`CancelledLive`); a live cycle is the one the process
knows (`LiveMem`), whatever the document says; a task in its `finally` has its last
status or a stop over it (`TailEnds`); a task cancelled before its `try` publishes nothing
itself, so that its cancellation shows in the document or a reset still waits for it
(`CancelShown`). What concerns the process alone holds through lapses; what
relates it to the document is asked when there is none. That is why one write is enough
to heal it.

`OutcomeKept` is proved for one process without sweep and fast stop, failing calls
included. A fast stop does relabel a cycle that is over; the sweep does not break the
property, but that is checked by `cycle_poller` only.
Its invariant (`OutcomeInv`) adds that document and process name cycles that were launched (`CyclesKnown`),
that a live cycle is not published as done or in error (`LiveNotEnded`), that over a
published outcome the process neither works nor stops (`EndKept`), and that while a stop waits nothing else can end the cycle (`StopWaits`).

`DurableTrainingProofs` proves, for any number of workers, jobs, crashes, faults and
expired leases, `TypeOK`, `ExclusiveExecution`, `PromotedWasServed` and
`OutcomeIsFinal`. The invariant adds: a model in service has been served, and a
worker about to report a promotion saw its candidate in service (`Served`); a job nobody
has leased yet and a cancelled one have no owner (`Unowned`), and no pending write of a
reconciling worker can change a cancelled job (`Filtered`); and, as long as no lease ran
out under a live worker: an active job of a live worker has a live lease
(`LiveLease`), no pending write can take a job from a live worker or change one that has
its outcome (`Harmless`), and who executes a job owns it unless it was cancelled (`Held`,
from which `ExclusiveExecution` follows).

For one worker loop, the deployment, it proves `SoloCapacity` and `ComparedWithReplaced`
too, with all the leases that run out, crashes, faults and replacements by others: no job is active while the
worker decides to admit one (`NoneAdmitted`), and a job it executes and owns is active
whatever became of the lease, so that a late write makes no second one active
(`HeldActive`); the champion it found is in service still when it promotes, unless others have replaced
it since (`moved`), and it
remembers none of an earlier job when the lookup fails (`Compared`; without its second
half the invariant is not inductive, for a lookup that raises keeps what was
remembered). `SoloCapacity` names its condition itself; its theorem assumes that the
worker loops are finitely many, for without that their number is not a number.

`AdaptiveConcurrencyProofs` proves, for any callers, boxes' readings and limits,
`TypeOK` (the tiers and bounds of the limit stay within 1 and the maximum),
`SlotsAccounted`, `WithinCeilings` and `HeavyWithinBudget`: the counters are the
cardinalities of the sets of callers that run, and a slot is only taken below
the limit, which is below the ceiling; the token counter is the sum over all callers that
run, which the heavy ones among them cannot exceed (`BudgetInv`).

`ResearchQuestionsProofs` proves, for any number of questions, entries and runs and any
limits, `TypeOK`, `CompletedIsAnswered`, `AttemptBudget` and `AnswerIsFinal`. The invariant
adds that a run about to write about a question has one and that what it has found exists
(`Known`), and that the entry it is about to complete has its answer in the ledger
(`Published`), which no step takes back.

`PaperLedgerProofs` proves, for any tickers, prices, sizes, holdings older than their
lots and number of trades, the four properties of `paper_books`: `TypeOK`,
`LotsWithinPosition`, `PromotedBooksMatch` and `WorthConserved`. First come the lemmas
about the FIFO walk: a sell closes the oldest lots whole, one in part and no later one
(`OldestFirst`), leaves lots with the shares that were not sold (`LotsLeft`), at a cost
that did not grow (`CostLeft`), and the position's new basis is what the lots left cost when
they cover it (`BasisIsCost`), where the division is exact (`DivExact`). The invariant
adds that a sell under way read the position as it still is and asks for no more than it
(`CallTracks`: it writes the position from what it read, and `LotsWithinPosition` would
not survive a stale one), and that the books match from the verification on, not only
after the promotion (`VerifiedBooksMatch`).

The theorems about `PolicyGate`, in `ExecutionControlProofs`, hold for every book, price, snapshot and proposal: an approved BUY
is a dollar or more and, to half a cent, within the cash and the concentration limit
(`BuyWithinLimits`, from the bounds of the two caps and of rounding); an intent is made
for an approval only, past its gates (`IntentPassedGates`); no BUY is approved while a
holding has a missing, undated or old price (`BuyOnFreshMarks`); `DrawdownIsIgnored`;
and the rollout mode fails closed (`ModeFailsClosed`). `SubmittedBuyWithinCash` goes from
the book to the verdict, and `GateWithinChoices` says that, in whole cents, every verdict
is one `ExecutionControl!Evaluate` chooses from: the two modules fit together.

**Sums.** Reservations, tokens, the value of the holdings, lots and their cost are sums
`SumFunctionOnSet` over finite sets. `SumTheorems` derives what they obey (an element
more or less, a changed value, a shorter interval, a shift) from the recursive
definition in the library. Its induction theorems take an operator as a parameter,
which the provers cannot instantiate; each induction is instead an argument about a minimal
member of the set of counterexamples, from the well-foundedness of strict inclusion
among finite sets and of the order of the naturals. Every sum is over a finite set: of `Symbols`, `Tickers` and `Callers` this is an assumption
(`SymbolAssumption`, `PaperAssumption`, `CallerAssumption`: a document for each holding, a
task for each caller), of the stored intents it is part of the invariant.

**Only model-checked.** The liveness properties (`ReservationDrains`, `EventSettles`,
`CommandSettles`, `StoppingEnds`, `JobSettles`, `WaiterServed`, `ClaimSettles`), which are
out of the prover's reach. Every other property that a passing run checks is proved, with
the conditions named above. The two disagreements (`ReplacementHasEvidence`,
`PolicyIsAdvisory`) are counterexamples of TLC.

## Plan

Done: `TradeLedger`, `ExecutionControl`, `PolicyGate`, `Outbox`, `CycleCommands`, `DurableTraining`,
`AdaptiveConcurrency`, `PaperLedger`, `ResearchQuestions`, their runs and proofs. Next, in order:

1. The composition of `ExecutionControl` and `Outbox`: every fill is reconciled.
2. Lots and closures of the executor: lots sum to the position, with the lemmas of
   `PaperLedgerProofs`; SHADOW.
3. The rest of `CycleCommands`: the scheduler's defer and rearm, the drain of
   schedule refreshes, the graceful shutdown.
4. Order triggers: a trigger fires once.

## Not modelled

What the agents decide, market data, the numeric analytics, the
agents' conversations, the collectors and scrapers, telemetry, and everything
that is I/O only: these are most of the repository's lines, and what they compute is
data to the components above. The caps that refuse a legacy BUY, the exits'
re-computation, and the SHADOW branch are left out as said above.
