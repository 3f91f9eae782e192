# Verification of the Niuu execution engine, compute pool and notification outbox

Niuu runs software work with groups of agents. Three parts of it must not go
wrong. The engine in Ting fans one *workflow execution* out into child agent
tasks, watches them over A2A, joins their results, waits for external conditions
and wakes the parent session again. The compute pool in Volundr gives sessions
their virtual machines, several to a machine, and must lose neither their data
nor a machine. The notification outbox of Forge (Volundr) must get every delivery settled,
sending it from one host at a time and only so many times. Several processes drive
each of them at the same time; all they
share is a handful of database rows. This directory holds TLA+ models of the three,
the TLC instances that check them, and proofs, checked by TLAPS, of the
properties that matter most.

Paths below are relative to `src/src` unless they start with `src/`.

## 1. Inventory

### The system

| Component | Where | State it keeps | Operations | Status |
|---|---|---|---|---|
| Execution ledger | `ting/adapters/postgres_workflow_executions.py` | rows of executions, generations, children, child events, child messages | transactions: reserve, claim, record, cancel, fail, retry, mark | modelled, except attaching the parent session and gate reports |
| Execution service | `ting/domain/services/workflow_execution.py` | none of its own: local variables between awaits | expand, launch_ready, reconcile, cancel, retry, message | modelled |
| Domain rules | `ting/domain/workflow_execution.py` | none | expansion checks, order, join, retry rules | the rules that decide a state |
| Execution worker | `ting/adapters/workflow_execution_worker.py` | a loop | reconcile, launch, waits | modelled |
| Child tasks (A2A) | `ravn/adapters/child_task_a2a.py` | the remote task | launch, get, reply, cancel | what the service sees of them |
| Parent continuation | `ting/adapters/parent_workflow_continuation.py` | what the parent session received | resume, notify, stop, tell of a wait | what the service sees of it |
| Code delivery | `ting/delivery/` | candidates, evidence, receipts | publish, verify, complete | `complete_execution` and `_past_children_join` |
| Workflow waits | `ting/domain/services/workflow_wait.py`, `ting/adapters/postgres_workflow_waits.py` | wait rows, the execution row | request, claim, poll, settle, notify | modelled, without the observers |
| A2A server, sagas, campaigns, authoring | `ting/` | tickets, sagas, documents | | not modelled |
| Compute leases and pool | `volundr/domain/services/compute_leases.py`, `compute_pool.py`, `volundr/adapters/outbound/postgres_compute_leases.py`, `vm_pod_manager.py` | rows of machines and slots, bootstrap secrets, the pool's policy; the provider and the guests | acquire, bind, start, poll, stop, recycle, retire, reconcile, maintain, quarantine, dispose | modelled, without plans, profiles and times |
| Notification outbox | `volundr/domain/services/notification_dispatcher.py`, `volundr/adapters/outbound/postgres_notifications.py` | delivery rows; in each host a batch and its rate windows | record, delete a rule, claim, gate, reserve, send, settle | modelled, without sinks, images and read state |
| Volundr sessions and runtimes | `volundr/` | sessions | | not modelled |
| Skuld, Ravn, Sleipnir, Bifrost, Mimir, Guild, Observatory, Yggdrasil, CLI and web | | | | not modelled |

`PROJECT.json` lists every component with the reason for what is left out.
Outside Ting most components are adapters to an external system (Kubernetes,
NATS, a language model) or request/response services whose state is one row per
request: their difficulty lies in I/O rather than in an interleaving.

### How the parts interact

A coordinator (the parent session, through the tools of
`ravn/adapters/tools/workflow_execution.py`) asks the API to *expand* its
execution: a dependency graph of children, with deadlines and a budget. The
service validates it against the execution row it read, and one transaction
seals the *generation* and reserves a row per child. Any worker *claims* reserved
children whose dependencies completed (a lease and a fencing number), launches a
task on the child's A2A server with a message id derived from the attempt, and
records the task's *handle*. Workers poll the tasks and record *observations*;
an event id, a digest of the report, drops repeats. After that a worker
*projects* the join onto the execution row: all completed resumes the parent, a
failed or blocked child blocks the execution and raises a *notice* to the
parent, a canceling execution whose children are all finished becomes canceled.
The owner may *cancel* at any moment, a coordinator may *retry* a child or
*reply* to its question, deadlines of children and of the execution pass, and
delivery *completes* the execution.

There are no locks beyond one transaction: every decision is made on rows read
earlier, and transactions re-check revisions, fences and states.

A coordinator may also suspend its execution on a *wait*: a row that names a
condition. Pollers lease due waits, ask an observer, and either put the wait off
or settle it in one transaction with the execution row, compared by revision;
then they tell the parent session and mark the wait as notified. The join's
projection and the waits move the same execution row.

The compute pool is separate. `VmPodManager` starts a session by taking up the
session's own claim, by binding a free slot of a warm machine, or by reserving a
new machine; `ComputePoolService.maintain` keeps `warm_min` slots free, takes up
stops that were not finished, and deletes what has failed or is no longer
needed. Here there is a lock: one *operation* per machine at a time, held by a
database connection. It does not make anything atomic. An operation is a sequence
of writes to the machine's row, the slot's row, the secret store, the provider
and the guest, and a controller may die between any two. What maintenance
decides, it decides from rows it read without the lock.

The notification outbox is separate again. A transaction records a notification
with a delivery for each *rule* that selects it. A dispatcher in each host claims
due deliveries for the time of a *lease* and counts the claim as an attempt; the
attempt number is the fence. It works on the rows of a batch side by side: a row
passes the gates of its rule (attempts left, enabled, not quiet, within the rate
limit), waits for one of a few send slots, is sent if enough of the lease is left
for that, and is settled if it still has the claim. A row whose host died is
claimed again when the lease ends.

### What is hard, and what makes each part correct

* **Ledger.** Transactions meet rows that changed since they were read. Correct
  when cancellation leaves nothing that could go on (`CancelStopsEverything`),
  finished attempts and executions stay finished (`FinishedAttemptIsFinal`,
  `FinishedExecutionIsFinal`), a superseded attempt never returns
  (`OnlyLatestAttemptLives`), the budget is spent once (`BudgetConserved`).
* **Launching.** A claim, a remote call and a handle are three steps; a crash or
  a lease running out separates them. Correct when active rows name a task
  (`ActiveChildHasTask`), nothing is launched before its dependencies completed
  (`LaunchedAfterDependencies`), and an abandoned claim is taken over
  (`AbandonedClaimIsTakenOver`).
* **Observing.** Answers arrive late, twice, or after a cancel. Correct when
  only an accepted completion counts (`CompletedIsAccepted`) and no running
  task is reported dead (`NoTaskReportedDead`), or only for a reason
  (`DeadIsExplained`).
* **Joining.** Reads, a remote call and a write, with a second generation or
  another worker in between. Correct when the parent is resumed only past a
  finished join (`ResumedPastJoin`), always when there is one
  (`JoinResumesParent`), and the row says so only of the generation it was resumed
  past (`JoinedIsTold`).
* **Waiting.** Two pollers may hold one wait, one after its lease; the execution
  expands, is canceled or joins meanwhile. Correct when the parent hears what was
  recorded before the wait counts as notified (`ToldWhatIsRecorded`), the execution's reason speaks of a wait in that state
  (`SuspensionNamesWait`) that no join takes it out of (`JoinKeepsWait`), and a
  wait settles (`WaitSettles`) and is delivered (`SettledWaitEnds`).
* **Blockers.** Correct when no blocker is marked as notified that the parent
  was not told of (`BlockersNotified`).
* **Retries.** Correct when two attempts of a child never work side by side
  (`SingleWriter`), and each attempt has one life, in whole steps
  (`AttemptsHaveOneLife`, the refinement of `AttemptLifecycle`).
* **Deadlines and stops.** Correct when a cancellation ends (`CancelConverges`),
  the parent of a canceled execution is stopped or given up on
  (`ParentStopSettles`), and something overdue ends (`OverdueChildFinishes`,
  which does not hold: see section 3).
* **Machines and sessions.** Correct when a session runs in one place
  (`OneGuestPerSession`), in a slot that holds nothing of another
  (`SlotHoldsItsSession`); when what it wrote is neither scrubbed nor deleted
  before it is archived (`DataPreserved`), and the secret the archive needs is
  there (`ClaimKeepsBootstrap`); when a machine is drained only after its
  sessions were asked to stop (`DrainsOnlyTheStopped`); when what runs is charged
  (`ChargedUntilGone`, `StrayIsQuarantined`); and when stops and disposals end
  (`StopSettles`, `FailedIsDisposed`).

* **Notifications.** The lease of a batch runs while its rows wait for each other;
  hosts die mid-send. Correct when a row is sent only by the one host that holds
  its claim (`SenderHoldsClaim`), not more often than allowed whatever dies
  (`TriesAreLimited`), never again once settled (`SettledIsFinal`); when a host
  keeps the rate limit of a rule though it counts once a poll (`WindowIsKept`);
  and when every delivery is settled in the end (`OutboxDrains`).

`PROJECT.json` lists the hazards one by one, with the line at which each bites.

## 2. Modules

```
Expansion            pure: dependency order of a proposal
   |    \
   |     MCExpansion                   every proposal, child by child; for TLC and
   |         |                         for the proofs
   |     ExpansionProofs               the order is sound and complete
   |
ExecutionLedger      rows and transactions (guards and effects, no Next)
   |        \
   |         LedgerProofs              every transaction keeps the row invariant
   |                 |
WorkflowExecution    processes, remote tasks, clock: Init, Next, Spec, FairSpec
   |   |   |    \    |
   |   |   |     WorkflowExecutionProofs   every action keeps the full invariant
   |   |   |         |
   |   |   |     LifecycleProofs           every action is a step of AttemptLifecycle
   |   |   |         |
   |   |   |     JoinProofs                joins, notices, writers and the budget
   |   |   AttemptLifecycle   what is promised of attempts (INSTANCE)
   |   |                             |
   |   WorkflowWait                  |  waits and their pollers, composed with
   |        |       \                |  all of the above
   |   MCWorkflowWait  WorkflowWaitProofs   every step keeps the promises of waits
MCWorkflowExecution  plans and constants for TLC

ComputeLeases        rows of machines and slots, secrets, provider, reconciliation
   |
ComputePool          start, stop, poll, maintain: Init, Next, Spec, FairSpec
   |      \
   |       ComputePoolProofs     every step keeps the invariant of the pool
   |
MCComputePool        model values for TLC

NotificationOutbox   rows and dispatchers: Init, Next, Spec, FairSpec
   |      \
   |       NotificationOutboxProofs  every step keeps claims and windows
   |
MCNotificationOutbox
```

**Expansion** is `_topological_order` and the checks before it. `PlacedAfter[n]`
is the set of keys placed after n rounds; a proposal is `Orderable` when all keys
are placed after as many rounds as there are keys.

**ExecutionLedger** has one operator per repository method, with its name. A
method that may refuse has a separate `...Accepted` operator, because the caller
goes on differently then. Its variables:

* `execution`: the row's state, reason, generation, reserved units, cancel
  request, revision, blocker revision and notified revision, parent stop state;
* `plan[g]`: the sealed generation (dependencies, deadlines, units);
* `child[a]`: the row of attempt `a = [gen, key, attempt]`: state, whether it has
  a handle, lease owner, whether the lease is live, fence, time of the last
  observation, failure count, open question, event ids seen;
* `now`: the clock.

A lease's expiry is the boolean `live`, which may turn false at any moment, so
nothing depends on lease lengths. The lease token is fresh with each fencing
number, so the number stands for both. Row data that no transition tests
(titles, prompts, schemas, artifacts) is absent.

**WorkflowExecution** gives each worker and each request a local state
`proc[p]`: a program counter and exactly the values the code holds in local
variables across awaits: the rows listed (`todo`), the claims of the batch, the
observation to record, the execution snapshot and the children read for the
join. Each action is the code between two awaits. So a process reads in one
action, calls in another and writes in a third, and anything may happen between
them.

| Code | Actions, in order |
|---|---|
| `expand` | `BeginExpand`, `ReserveGeneration`, then `launch_ready` |
| `launch_ready`, `_launch_claim` | `ClaimLaunches`, (`LaunchChild`, `RecordHandle`) per claim |
| `reconcile`: `_retry_parent_stops` | `StopParent`, `MarkParentStopped` |
| `_fail_expired_deadlines` | `ListExpired`, (`ExpireChild`, `RecordExpired`) per child, `ListExpiredExecution`, `FailExpiredExecution` |
| polling, `_reconcile_child` | `ListReconcilable`, (`PollChild`, `RecordPolled`) per child |
| `_project_join` | `ReadExecution`, `ReadChildren`, `ReadJoin`, `ResumeParent`, `UpdateState` |
| `_notify_changed_blockers` | `ReadBlockers`, `NotifyParent`, `MarkNotified` |
| `cancel` | `RequestCancel`, then `reconcile` |
| `retry` | `BeginRetry`, `PollBeforeRetry`, `CancelBeforeRetry`, `CreateRetry`, then `launch_ready`; refused: `RecordAnswer` |
| `message` | `ReserveMessage`, `ReplyChild`, `MarkMessageDelivered`, `RecordAnswer` |
| delivery's completion | `Complete` |
| the worker's loop | `BeginReconcile`, and `AfterReconcile` leads to `ClaimLaunches` |
| a process dies | `Crash` |

The environment: `task[a]` is the remote task (working, asking, finished with an
accepted or a refused result, failed, canceled) and moves by `TaskProgress`. A
launch is idempotent in the attempt's message id. A cancel request stops an
unfinished task or is only acknowledged, and is an error for a finished one, as
Ting's own A2A server does it. Calls may fail before or after the server acted.
`parent` is what the parent session received; it keeps the first event of an id
and drops repeats.

**AttemptLifecycle** is the abstract promise: an attempt is queued, works, ends
once or is replaced by a queued successor in the same step; calling the
execution off stops all attempts in one step, after which none is queued or
started. `WorkflowExecution` implements it: `PhaseOf` forgets leases, handles and
the states in which a task is reported, and `over` is the cancel request, which
`fail_execution` sets too. The claim is not that of a single row: a reservation
that commits half, a retry in two steps, or a canceling that leaves a claimed
child behind would each be a step of the implementation that is no step of the
abstraction.

**WorkflowWait** EXTENDS the engine and adds the rows `wait[w]`, the pollers'
local states and `told[w]`, what the parent heard. `WaitNext` is a step of the
engine or of the waits, so everything of the engine races with them over the one
execution row.

| Code | Actions, in order |
|---|---|
| `request_wait`, `reserve` | `BeginWait`, `ReserveWait` |
| `reconcile`: `claim_due` | `ClaimWaits` |
| `_reconcile_wait` | `ReadForWait`, `Observe`, then `RecordPending` or `RecordTerminal`, `Reread` |
| `_handle_wait_failure` | `HandleFailure`, then `RecordPending` or `Escalate`, `RecordTerminal` |
| `_notify_safely`, `mark_notified` | `NotifyObservation`, `MarkWaitNotified` |
| a lease runs out, a poller dies | `WaitLeaseRunsOut`, `PollerCrash` |

A claim carries what the row said when it was claimed: its outcome and its
number of attempts. The name of the holder stands for lease token and fence,
because a poller claims again only when it is through with its batch. The
number of attempts is kept up to the maximum it is compared with.

`DeliveryService` chooses between the two services the code runs: delivery's
`_past_children_join` knows the reasons of a wait, the generic one only its own.

**ComputeLeases** has the rows (`machine[m]`, `binding[r]`, named by the start
request that created it), the `secrets`, the pool's `admission`, the provider
(`vm`, `late`), what is in the guests (`guest[m][k]`: whose data, archived or
not), and `op[m]`, how far the holder of a machine's lock has got. Admission is a
transaction; reconciliation is one action per outcome of a lock section.
**ComputePool** adds the requests under way (`call`) and the decisions of
maintenance (`doomed`).

| Code | Actions, in order |
|---|---|
| `start` | `start`, then one of the next three |
| `_retry_failed_runtime` | `_retry_failed_runtime`, the session's own claim |
| `_claim_warm`, `_bind_when_free` | `_bind_when_free` (secret), `bind` (transaction, or the secret taken back) |
| `acquire` | `acquire` (transaction), `store_bootstrap` |
| `_start_runtime`, from a start or from `status` | `_start_runtime`, `RuntimeRuns`, `RuntimeStarted` or `RuntimeFails` |
| `status`, `mark_busy` | `mark_busy`, `MachineServes` |
| `stop`, `_finish_requested_stop`, `finish_stop` | `stop` or `_finish_requested_stop`; `Archive` or `ArchiveFails`; `recycle` or `retire_slot` |
| `release_slot` | `release_slot`, `EmptyMachine`, `ForgetSecret` |
| `retire_slot` | `retire_slot`, `DrainSlot` |
| `reconcile`, `_delete` | `ReconcileCreate`, `ReconcileCreateLost`, `ReconcileReady`, `ReconcileFail`, `ReconcileOverdue`, `DeleteRequest`, `DeleteConfirmed` |
| `maintain`, `_maintain_lease` | `Decide`, `dispose`, `warm`, `acquire_standby`, `quarantine` |
| the operator | `set_policy`, `Decide` of a quarantined machine |
| provider | `VmBoots`, `VmBreaks`, `VmDeleted`, `LateCreate` |
| a controller dies | `OperationDies`, `CallDies`, `GiveUp` |

**NotificationOutbox** has the delivery `row[d]` of each notification by each rule,
and for each dispatcher the rows it works on (`job[w][d]`: how far it is, the
fence, the send's time, whether it holds a reservation), what is left of its
lease as it believes (`left[w]`), and the rate windows of its poll (`recent[w]`,
`reserved[w]`). `tries[d]` counts the sends.

| Code | Actions, in order |
|---|---|
| `project`; `delete` of a rule | `project`; `delete_rule` |
| `run_once`, `claim_due` | `run_once` (the lease is measured from here), `claim_due` (transaction) |
| `_deliver` | `mark_failed` (attempts used up), `mark_suppressed` (disabled, quiet), or `reserve` |
| `_send` | `StartSend` or `SkipSend`, then `SendSucceeds` or `SendFails` |
| settles | `mark_delivered`, `mark_failed`, `mark_suppressed`, each with the end of the job (`Drop`) |
| a row fails, a settle fails or its answer is lost, a host dies | `SettleFails`, `Crash` |
| time | `Tick` |

Times are what is left of them, counted down together by `Tick`: the lease in the
row, what its holder believes of it, the sends, backoffs and windows. The steps
take no time by themselves, and any time may pass between two of them, except that
a send ends by its timeout, as `asyncio.wait_for` sees to. That the database's clock
and the host's monotonic clock run alike is an assumption of the code, and of the
model.

Abstractions that a reader should know of:

* One execution is modelled. Executions share no rows; batches of several
  executions only share a process, and a failing phase of a process is a fault
  of the model.
* A sweep lists all matching rows; the code's page sizes are not reached by so
  few rows. Row order within a sweep is left open, which is more than the code
  does.
* The clock ticks by itself and does not wait for anybody. `reconcile` reads it
  once for a deadline phase (`at`), as the code does.
* `max_child_reconcile_failures` and `max_parent_stop_failures` are constants;
  `MaxGeneration`, `MaxFence`, `MaxQuestions`, `MaxNow` and `MaxFaults` are bounds of
  the instance with no counterpart in the code. `max_attempts` and
  `max_active_children` are the policy's own. In `WorkflowWait`, `MaxWaits` is a
  bound; in `ComputeLeases`, the sets `Machines` (allocation ids) and `Requests`
  are, and `MaxFaults`. In `NotificationOutbox`, `MaxFaults` is one, too: it bounds
  crashes, failed settles, and leases that run out at work.
* Times of the compute pool (deadlines of provisioning and starting, idle
  time-outs, back-off) are absent: a deadline may pass at any moment, which is
  more than the clock allows. A failed call that changes nothing is a step not
  taken, and takes a fault only where liveness would notice.
* `next_poll_at` of a wait is absent for the same reason.

## 3. Runs

The engine's runs have one or two processes, one or two child keys, and at most
two generations or two attempts. This is enough to have, in one instance,
a stale reader against any writer: every hazard listed involves at most two
processes and one or two rows. A process may play several roles (a worker that
also serves an expand request), which gives races between requests with two
processes. `compute_pool` has two sessions, two requests to start them, and one
machine of two slots at a time, which a second one may replace. Two sessions are
needed for one to take what is left of the other, and a second machine for a
session that moves. `notification_outbox` has two hosts, two deliveries of one rule
with a limit of one, one send slot and two attempts: two hosts for one to overtake
the other, two deliveries for one to wait while the lease runs and to compete for
the limit. A lease of two and a send of one leave room for a send that starts in
time and one that does not. Deadlock checking is off where an instance really stops: once
the execution is finished, or all requests, machines and failures are used up,
nothing is left to do. Symmetry is not declared, since the processes play
different roles and some runs check liveness; in the compute pool fresh machines,
requests and sessions are taken in a fixed order instead, as one is as good as
another.

| Run | Setting | Shows |
|---|---|---|
| `expansion_order` | all proposals over three keys | the rounds of `_topological_order` succeed exactly on acyclic graphs; each key comes after its dependencies |
| `join_and_cancel` | two dependent children, one slot, leases that run out; a worker against a process that expands, reconciles, cancels, completes | joins, dependencies and what the rows say of their tasks hold in every interleaving |
| `retries_and_deadlines` | two attempts; retries, cancel, a completion, deadlines of the child and the execution | the engine implements `AttemptLifecycle`; a cancel or a deadline stops everything, and nothing undoes an end; a task is reported dead only for a reason |
| `questions` | a child that asks; replies, retries, notices, one failure | no two attempts work at once, the old attempt never returns, no blocker is marked as notified unseen |
| `joins` | fair; two processes expand from the same row and reconcile; a budget for two small generations or a large one | the budget is spent once per generation, each join resumes the parent, a row says so only of the generation the parent was told of |
| `cancellation` | fair; cancel at any moment, leases that run out, one failure | the execution and all attempts end, the parent's stop is settled, an abandoned claim is taken over |
| `waits` | fair; two pollers, an expansion, the execution's deadline, one failure (a call, a poller, a lease) | the parent hears the outcome that was recorded; a wait settles by the deadline at the latest and is delivered or retired |
| `waits_and_joins` | a wait, the join of a generation, projections on request, the deadline and a cancel | the row speaks of a wait of its own generation; no join takes it out of a wait |
| `notification_outbox` | fair; two hosts, two deliveries, a rule that may be deleted, one fault (a crash, a failed settle, a lease that runs out at work) | one sender at a time, who holds the claim; attempts and the limit of a rule are kept; settled is final; the outbox drains |
| `compute_pool` | fair; starts, stops, polls, maintenance and an operator, one failure (a call, a machine, an archive, a controller) | nine properties of machines and sessions, listed in section 1 |

The type invariants (`TypeOK` of the engine, the pool and the outbox, `WaitTypeOK`)
are not among the runs' properties: they are proved, for every instance.

Each property of a passing run has a mutant: a definition changed the way a
plausible bug would change it (a guard dropped, a reset forgotten), under which
TLC finds the property violated in the same run. The mutated forms stand before
the definitions they mutate, marked as mutants.

Some settings are conditions of the properties, not only bounds. `SingleWriter`
holds with one failure because two failed polls fail a running attempt.
`NoTaskReportedDead` and `CompletedIsAccepted` hold without deadlines, failures
and replies; `DeadIsExplained` is what is left of the first with deadlines.
`JoinResumesParent` holds without a failure. `JoinKeepsWait` is a property of
delivery's service. `CancelConverges` says so itself: as long as no call fails.
In `compute_pool`, `OneController = TRUE` (a process locks the starts and stops of
a session against each other) and `FailsInGuest = FALSE` (a start fails before
its runtime writes) are such conditions, and `StopSettles` and `FailedIsDisposed`
leave out a machine that broke with a session's data on it. What happens without
them is told next.

### Disagreements between the code and what is said of it

Two runs are expected to end in a counterexample. Each shows that a line of a
document or a comment does not hold of the code:

| Run | Said | What happens |
|---|---|---|
| `overdue_of_canceled` | a child past its deadline belongs to the deadline step | that step looks at open executions only: a child whose launch outlived the cancellation of its execution, and its own deadline, is never asked to stop |
| `data_of_failed_start` | failed guests are disposed "after preserving any session data" | starting again after a start that failed in the guest forgets that there is data; a stop before the runtime runs again deletes it |

More show in the model under other settings, without a run of their own. Of the
execution engine:

* *A lost projection.* A failed join projection "will retry next cycle"
  (`workflow_execution.py:361`), but the next cycle projects only executions whose
  children it polled. When the last child is finished there are none, and the
  parent waits until the execution's deadline. `joins` with `MaxFaults = 1`
  violates `JoinResumesParent`.
* *A retry of a completed child.* "Completed children are historical evidence,
  not retryable failed attempts" (`src/docs/operator/developer-workflows.md:209`).
  The child completes between `make_retry` and `create_retry`, which rechecks the
  attempt number only. `AttemptLifecycle` therefore lets a completed attempt be
  replaced.
* *Dead but running.* "Ting never reports dead a task that is still running"
  (`workflow_execution.py:556-557`). The answer to the cancel request of an overdue
  child is dropped, even when it says "working". `retries_and_deadlines` violates `NoTaskReportedDead`.
* *An unverified reply.* Acceptance checks persisted evidence
  (`developer-workflows.md:215-217`), but `message` records the answer to a reply
  without the checks of a poll. `questions` violates `CompletedIsAccepted`.
* *A second writer.* "Failed and canceled ledger attempts are already terminal"
  (`developer-workflows.md:71-72`). Repeated polling failures fail the row, not
  the task, and a retry starts beside it. `questions` with `MaxFaults = 2` violates
  `SingleWriter`.
* A child that is retried while its execution is blocked is not launched:
  `create_retry` leaves the execution blocked, `claim_launches` requires it to
  be running or waiting, and no cycle projects it unless another of its children
  is still polled.
* A continuation may lack a result: `_project_join` reads the children before
  the join, and another reconciler may record the last completion in between.
  `joins` violates `ResumedWithResults`, which stays in the module as a definition.

Of the waits:

* "A wait that keeps raising is durably recorded (attempt/error) and, past the
  configured maximum, terminally failed instead of retrying forever"
  (`workflow_wait.py:136-138`). The failure of a pending wait is written together
  with its execution row (`postgres_workflow_waits.py:230-254`), and a canceled row
  refuses: so does the escalation of the maximum, and the wait is claimed and
  refused for ever. `WaitSettles` leaves out the waits of executions that are over.
* The router that serves executions outside delivery (`ting/main.py:963`) uses the
  generic service, whose `_past_children_join` does not know waits, although its
  docstring speaks of later phases. `DeliveryService = FALSE` violates
  `JoinKeepsWait`: a reconcile request resumes the parent again and takes the
  row out of the wait.
* With delivery's service, a wait that is requested before the join of the
  current generation has finished makes the projection think the join is past:
  the parent is not resumed for that generation.
* `attempt_count` counts every poll (`workflow_wait.py:182`). After
  `max_consecutive_failures` ordinary polls the first failure fails the wait.

Of the compute pool:

* With `OneController = FALSE`, two controllers that start one session at once
  violate `ClaimKeepsBootstrap`: both store the secret under the same name, and the
  one whose bind is refused deletes it (`compute_leases.py:669-672`), though "a
  crash must never leave a bound session without the bootstrap" (:703-704).
* `_maintain_lease` takes up the stops of a machine in a loop, and an exception
  leaves it (`compute_pool.py:452-454`). A session whose archive fails for good
  keeps the stops of the sessions after it from being retried, although "the
  persisted stop intent is retried" (`src/docs/operator/vm-compute.md:1050-1051`).
* A crash between the two writes of `mark_busy` (`compute_leases.py:544-549`)
  leaves a ready machine with a busy slot, which counts against
  `max_provisioning` as long as the session runs.

Of the notification outbox:

* The limit of a rule is kept by each host for itself (`WindowIsKept`). The windows
  are counted once a poll, so that hosts which poll at the same time overshoot
  together, as `src/docs/operator/forge-notifications.md:507` says.
* A host whose `mark_delivered` was committed but not answered takes the delivery
  for unsent and gives the reservation back (`notification_dispatcher.py:437-441`):
  this poll may send one more than the limit. In the model such a delivery has no
  known deliverer, and `WindowIsKept` does not count it.
* A send that was accepted and not settled, because the host died or the settle
  failed, is sent again by the next claim: delivery is at least once.
  `TriesAreLimited` says how often at most.

In the liveness runs of the engine the clock stops before the execution's own
deadline, except in `waits`. Their claims are therefore claims about what happens
*before* that deadline. That is the point of them: the deadline would end every
wait, but with the failure of the whole execution.

### Fairness

`FairSpec` adds to `Spec`:

* `WF(Continue(p))`: a request or a cycle that has begun takes its next step. The
  code awaits one call after the other and every remote call has a timeout, which
  is the failing branch of its action. It is not assumed that a call succeeds;
  but failures are at most `MaxFaults`, so from some moment on they do.
* `WF(BeginReconcile(p))` for workers only: the loop sleeps and begins again, and
  isolates each phase, so that an exception in one skips neither the next one nor
  the next cycle. Nobody promises another request: expanding, canceling,
  retrying, replying, reconciling through the API are not fair.
* `WF(TaskProgress(a))`: a working task finishes or asks. A task that asks may
  wait for ever.
* `WF(Tick)` and `WF(LeaseRunsOut)`: time passes.

`WaitFairSpec` adds `WF(Poll(p))` for each poller, whose cycles begin again in the
worker's loop, `WF(WaitLeaseRunsOut(w))` and `WF(Tick)`. The engine owes the waits
nothing: no fairness is assumed of expansions or projections.

`FairSpec` of `ComputePool`: the holder of a machine's lock goes on, to success or
failure; maintenance reconciles, quarantines, and decides on and disposes of
failed machines, and takes up requested stops in every cycle (`run` catches every
exception and sleeps); the provider boots and deletes. A start under way
ends. A session on a failed machine is stopped, because the sweep
`reconcile_active_sessions` (`volundr/domain/services/session.py:2410-2420`) asks
for a stop of every failed session that still holds compute. Nobody
promises another start, another stop, or that an operator acts.

`FairSpec` of `NotificationOutbox`: `WF(Poll(w))`, as a dispatcher's loop catches
every exception and polls again, and the tasks of a batch go on; and `WF(Tick)`.
Nobody promises that a notification is recorded or a rule deleted, and a host that
died is one that starts again: its rows could as well be claimed by another.

## 4. Proofs

TLC says nothing about three children, four workers or ten machines. All parts of
the model are proved about: the engine and its waits, the order of an expansion,
the compute pool and the outbox.

### The engine

`LedgerProofs`, `WorkflowExecutionProofs` and `LifecycleProofs` prove, for every
value of the constants that satisfies `LedgerAssumption` and `ServiceAssumption`
(any plans, keys, processes, limits and bounds):

| Theorem | States |
|---|---|
| `TypeCorrect` | `Spec => []TypeOK`, with the reserved budget within the total |
| `CancellationStops` | `Spec => []CancelStopsEverything` |
| `RetriesSupersede` | `Spec => []OnlyLatestAttemptLives` |
| `ActiveChildrenAreLaunched` | `Spec => []ActiveChildHasTask` |
| `AttemptsFinish` | `Spec => FinishedAttemptIsFinal` |
| `ExecutionsFinish` | `Spec => FinishedExecutionIsFinal` |
| `ImplementsLifecycle` | `Spec => AttemptsHaveOneLife`, that is `Lifecycle!Spec` |

None of these is inductive alone. A late handle turns a canceled row to
canceling, which is harmless only because handles imply a launched task; an
observation applied to a row makes it running, which is harmless only because
the row was active, and rows are active only with a task. The invariant carried
through every step is `IInv`:

* `LedgerInv`, of the rows: their types; rows exist only in sealed generations
  (`RowsInGenerations`); absent rows are empty (`AbsentRowsEmpty`); a row
  with a successor is superseded (`RetriedIsSuperseded`); a canceled
  execution has only finished and canceling rows (`CancelQuiets`); an
  active row has a handle (`ActiveRowsHaveTask`);
* `RemoteTypeOK`, of tasks, parent and messages, and the type of every process;
* `HandlesNameTasks`: a row with a handle names a task that was launched;
* `LocalOK`, one clause for each thing a process remembers: what it has at hand
  when it is about to record (the attempt is present, is launched where the step
  needs it, the observed state is one that may be written, a retry's attempt has
  a successor to create). It is what makes stale local state harmless: every
  clause speaks of facts no other process can take back (`RowsStay`, `HandlesStay`).

The argument has two layers. In `LedgerProofs` one lemma per transaction shows
that it keeps `LedgerInv` and is a `LedgerStep`: it takes no row or handle away,
adds handles only where the caller says (`HandlesOnlyIn`), and keeps finished
attempts and executions finished. In `WorkflowExecutionProofs` one lemma per
action shows that the acting process's new local state is `LocalOK`, and cites the
transaction's lemma; the others' clauses survive because a `LedgerStep` keeps
the facts they speak of. The two action properties follow from the same lemmas.

`LifecycleProofs` shows the refinement in the same shape: the initial states map,
and for each action one lemma says which step of `AttemptLifecycle`, or which
stutter, it is seen as. It needs `IInv` and two more invariants. `LifeInv` is of
the rows: a canceling row belongs to an execution that was called off
(`CancelingIsRequested`), a queued row has no task (`QueuedHaveNoTask`), a superseded
one has a successor (`SupersededIsReplaced`). `LifeOK` is of the processes: what one
is about to record, or to retry, still agrees with the row it read. That a new
generation is queued where nothing was comes from `RowsInGenerations`; that calling
off stops every attempt from the definition of `StopChildren`, and that none is
started afterwards from `CancelQuiets`.

`JoinProofs` proves what the engine promises about joins, notices, side-by-side
attempts and the budget:

| Theorem | States | Provided that |
|---|---|---|
| `CompletionsAreAccepted` | `Spec => []CompletedIsAccepted` | `Repliers = {}` |
| `ResumesPastAcceptedJoins` | `Spec => []ResumedPastJoin` | `Repliers = {}` |
| `LaunchesFollowDependencies` | `Spec => []LaunchedAfterDependencies` | `Repliers = {}` |
| `BlockersAreNotified` | `Spec => []BlockersNotified` | |
| `DeathsAreExplained` | `Spec => []DeadIsExplained` | |
| `OneWriterPerChild` | `Spec => [](NobodyGivesUp => SingleWriter)` | |
| `ClaimsAreFenced` | `Spec => []ClaimsFenced` | |
| `JoinedAreTold` | `Spec => []JoinedIsTold` | |
| `BudgetIsConserved` | `Spec => []BudgetConserved` | |

The proviso is a condition of section 3: `Repliers = {}` stands for executions
whose coordinator answers no questions, as an answer may be recorded with a result
that the evidence policy refuses. The others need none. `DeathsAreExplained` says
what the engine can promise where `NoTaskReportedDead` fails: a row ends before its
task only past a deadline, after as many failed calls as give a child up, or if it
was canceled before a handle named the task. `NobodyGivesUp` is said of a state,
not of a behaviour: no task runs past its deadline, and fewer calls have failed
than give a child up. In any such state, whatever led there, no child has two
attempts at work. `ClaimsFenced` is what holds several
workers with expiring leases apart: no two hold the same claim, none holds one newer
than its row, and the one a launching row accepts is its owner's.

Each of them adds to `IInv` and `LifeInv` (together `SInv`) an invariant of its own:

* `CompletionsInv`: a completed row, and a report or an answer in hand that
  would complete one, belongs to a task in state `accepted`, which is final.
  What a cancel or a poll brings back was true when it was read;
* `JoinsInv`: a process that resumes the parent, and a parent that was resumed,
  stand on a generation that was joined (`JoinAccepted`). The join a process read
  may be old, and children may have been retried since; what it stands on is
  the tasks, and those stay accepted;
* `BlockersInv`: the blocker revision grows with every new set of blockers, so
  that a notice of a revision names all of them (`Bad`); a process about to mark a
  revision has sent that notice. A child stops being blocked only with a new revision or
  as a retry, and what is marked later than it was read is refused by number;
* `DeathsInv`: an attempt whose row ended has a task that ended, or one of the
  reasons (`EndedInv`); a row has counted no more failures than there were
  (`FailuresInv`); a task has a row (`TasksHaveRows`); and a report in hand that
  says of a task that it ended, or an expiry that is about to, is right or has the
  same reason (`ReportsInv`);
* `ClaimsFenced` is inductive itself: claiming adds one to the row's fence, so the
  new claim is in nobody's hands, and every claim in hand (`Flights`) stays no newer
  than the row;
* `ToldInv`: besides `JoinedIsTold`, a process between the resume and the write of a
  projection (`Joining`) has told the parent of the generation it read, and as long
  as the row has the revision it read, the row is of that generation: an expansion in
  between takes the revision away, and the write is refused;
* `BudgetInv`: what is reserved is `GrantedIn(plan)[MaxGeneration]`, where
  `GrantedIn` sums the sealed generations by a recursive function.

The proofs share one description of a step, `LedgerChange` and `RemoteChange`: which
rows, tasks and parts of the execution a step may change and how
(`RowChange`, `ExecutionChange`, `Arrives`), proved once per action. Each invariant
is then kept by what such a change is, not by which action made it.

### The order of an expansion

`ExpansionProofs` proves, over the states of `MCExpansion`, which build every
proposal child by child over any set of names, finite or not:

| Theorem | States |
|---|---|
| `AcyclicAreOrdered` | `Spec => []OrderableIsAcyclic` |
| `OrderRespectsDependencies` | `Spec => []DependenciesComeFirst` |

`PlacedAfter` is a recursive function on the numbers of rounds. Induction with a
predicate is out of reach of the provers, so each induction is over a least
counterexample: a non-empty set of numbers has a least one (`FirstOf`, from the
well-foundedness of `<`). That gives what is placed after a round is what was placed
before it and those whose dependencies were (`Rounds`), that nothing is taken
back (`PlacedStay`), and that a round that leaves children over and places none has
found a set of them each of which depends on another of them: a cycle
(`StuckIsCyclic`). Each other round places at least one, and a finite proposal has
as many rounds as children (`RoundsPlaceOne`). The same two devices carry the sum
of `BudgetIsConserved`.

### The waits

`WorkflowWaitProofs` proves all safety properties of `WorkflowWait`, for any waits,
pollers and limits:

| Theorem | States | Provided that |
|---|---|---|
| `WaitsKeepLifecycle` | `WaitSpec => AttemptsHaveOneLife` | |
| `WaitTypeCorrect` | `WaitSpec => []WaitTypeOK` | |
| `ToldIsRecorded` | `WaitSpec => []ToldWhatIsRecorded` | |
| `SuspensionsNameWaits` | `WaitSpec => []SuspensionNamesWait` | |
| `JoinsKeepWaits` | `WaitSpec => JoinKeepsWait` | `DeliveryService` |

A step of the composition is one of the engine, which leaves the waits alone, or one
of the waits, which writes nothing of the engine but the state, reason and revision of the
execution (`WaitWrites`). So the invariant of the engine survives
(`EngineSteps`), and the theorems about attempts with it. `WaitInv` says of each
poller that what it read of a wait, or is about to tell or to mark, is what the row
says or a row that it no longer holds; a settled outcome never changes. `SharedInv`
is of the row both sides write: a reason that names a wait stands for a wait of that generation
in that state. `SnapshotsInv` is of a projection under way: as long as the revision it read is
the current one, and it takes the join for unfinished, the row speaks of no wait.

### The compute pool

`ComputePoolProofs` proves, for every value of the constants that satisfies
`ComputeAssumption` (any machines, slots, sessions, limits and policies, and any
finite set of requests):

| Theorem | States | Provided that |
|---|---|---|
| `TypeCorrect` | `Spec => []TypeOK` | |
| `Charges` | `Spec => []ChargedUntilGone` | |
| `SlotsAreClean` | `Spec => []SlotHoldsItsSession` | |
| `DrainsChecked` | `Spec => DrainsOnlyTheStopped` | |
| `BootstrapsKept` | `Spec => []ClaimKeepsBootstrap` | `OneController` |
| `SingleGuest` | `Spec => []OneGuestPerSession` | `~FailsInGuest` |
| `DataKept` | `Spec => DataPreserved` | `~FailsInGuest` |

The provisos are the conditions of section 3, where it is told what happens
without them; they stand in the statements of the theorems. The other four hold
with several controllers and starts that fail anywhere.

The invariant `IInv` is `TypeOK`, and

* `CallsOK`, across machines: a session has at most one claim (`OneClaim`), no two
  bindings share a slot (`SlotsApart`), a request has a binding exactly when it got
  that far (`CallsMatch`), one request at a time starts a session, and finds no
  claim of it unless it resumes that (`OneStart`), and binds at one machine
  (`BindingsApart`);
* `MachineOK(m)` for each machine: what the holder of its lock relies on between
  two of its writes (`LockOK`, one clause for each step an operation can be at);
  that whatever refers to a machine finds a row, charged as long as the provider
  has something (`RowOK`); the secrets (`BootstrapOK`); whose data is in a slot,
  that what is not archived belongs to a claim which says so, and that nothing
  is left to archive where a slot or a machine is to be given back (`GuestOK`).

None of the promises is inductive alone. That a scrub loses nothing, for example,
needs that the operation which scrubs has archived or never wrote; that in turn
needs that a start may be opened again only when it failed before it wrote; and
that its slot is the one it archived needs that no two bindings share a slot,
which is where the numbers of slots and bindings come in: a machine with room has
a slot that is not taken, by the pigeonhole principle (`UsableIsFree`), and the
least such slot exists (`NextIsFree`).

The argument is local. Every step but two is at one machine (`Local`) and creates no
binding, so `MachineOK` of the other machines goes on to hold (`OthersKeep`), and what is said
across machines survives because bindings only give up their claim and their slot (`RowsShrink`) and
requests only go on (`CallsGoOn`). One lemma per action shows that. The two that
create a binding, `bind` and `acquire`, are treated apart (`Created`, `Housed`).
The two action properties follow from what every such step guarantees (`Good`).

### The notification outbox

`NotificationOutboxProofs` proves all safety properties of `NotificationOutbox`,
for every value of the constants that satisfies `OutboxAssumption`: any hosts,
rules and notifications, any batch sizes, limits, backoffs and faults, any window,
and any lease that is longer than a send.

| Theorem | States |
|---|---|
| `TypeCorrect` | `Spec => []TypeOK` |
| `SendersHoldClaims` | `Spec => []SenderHoldsClaim` |
| `TriesLimited` | `Spec => []TriesAreLimited` |
| `WindowKept` | `Spec => []WindowIsKept` |
| `SettledFinal` | `Spec => SettledIsFinal` |

Two invariants carry them. `ClaimsOK` is about who may rely on what: a job's fence
is no newer than its row (`ClaimOK`); while its holder believes that the lease
lasts, the row is claimed under that fence for at least as long; a send ends
within the lease; a row that was not sent yet under this claim has been sent less
often than it was claimed; and no two hosts have one fence of a row
(`FencesApart`). A row can be claimed again only when its lease is over, by which
time no host believes in it (`ClaimStep`), and time runs alike for all of them
(`TickStep`). `WindowsOK` is about one host and one rule: deliveries in the window
and reservations together, without counting a row twice, are no more than the
poll's count and its reservations, which are within the limit. A delivery moves a
row from one to the other; a release takes one row out of the reservations, and
never one that was delivered (`WindowDrop`); the end of a poll forgets the count,
which the next one takes anew, from rows that include all that this host knows it
delivered (`WindowReserve`).

### Only model-checked

* `NoTaskReportedDead`, for the instance of `join_and_cancel` only: it is no theorem.
  A process whose handle is refused ends its cycle and drops the rest of its batch;
  with several slots one of those claims may be the second on a task that an older
  claim has launched, and a cancellation then reports that task dead, without any
  failure or deadline. `join_and_cancel` with two workers, two independent children,
  `MaxActiveChildren = 2` and `MaxFence = 3` violates it;
* liveness, which the prover does not treat (fairness and `ENABLED`): of the engine
  (`JoinResumesParent`, `CancelConverges`, `AbandonedClaimIsTakenOver`,
  `ParentStopSettles`), the waits (`WaitSettles`, `SettledWaitEnds`), the outbox
  (`OutboxDrains`) and the pool (`StopSettles`, `FailedIsDisposed`, `StrayIsQuarantined`).

## 5. Not modelled, and why

* Data: prompts, schemas, digests, artifacts, gate reports. No transition tests them,
  apart from the acceptance of a result, which is the difference between
  `accepted` and `refused`.
* Row locks: a transaction is one step. `record_reconcile_error` locks the child
  and then the execution, other transactions the other way round, so Postgres
  may abort one; an aborted transaction is a failed call of the model.
* The parent's launch (`reserve_parent_launch`, `attach_parent_session`): the
  model starts with a running execution, whose parent session exists.
* Of the waits, what an observer makes of a condition. A timer given in seconds
  is resolved to a new instant by each request, so that a repeated request asks for
  another wait; in the model a request names its wait.
* Of the compute pool: plans, profiles and fingerprints (an incompatible machine is
  disposed of like one without free slots), `attach_session_bootstrap` (only a claim
  placed by an execution plan lacks its secret when it is made), the bootstrap of the host, fixed
  inventories, machine lifetimes, and the session rows, whose effect is that
  starts, polls and stops come in any order. The provider's inventory and the
  rows are compared in one step. An adapter that offers both several slots and
  reuse does not exist yet; the domain code and its tests treat both, and so does
  the instance.
* Of the notifications: sinks and what they send, images, read state and
  resolutions (applied after the transaction that records a notification, and
  skipped if the process dies in between), the push gateway, which rules select a
  notification (any may), and rules without a limit. A transaction that records
  several notifications is several steps.
* The components marked `not_modelled` in `PROJECT.json`.

## 6. Plan

1. Done: `Expansion`, `ExecutionLedger`, `WorkflowExecution`, `AttemptLifecycle`,
   `WorkflowWait`, `ComputeLeases`, `ComputePool`, `NotificationOutbox`, their runs and
   the theorems of section 4.
2. `RowLocks`: lock order of the ledger's transactions, to show which pairs can
   deadlock and that a retried call ends.
3. The inventory and the rows of the compute pool compared in two steps, and an
   abstract pool that `ComputePool` implements.
4. `LaunchReservation` (A2A server) and Skuld's delivery claims: the same questions
   as for waits and claims, over their own rows.
