--------------------------- MODULE WorkflowExecution ---------------------------
(***************************************************************************)
(* WorkflowExecutionService: background workers and API requests that      *)
(* drive one execution's ledger, each a process that reads rows, calls the *)
(* child tasks' A2A server or the parent session, and writes back what it  *)
(* learned in a later transaction.  Everything may happen between a        *)
(* process's read and its write: another process, a remote step, a clock   *)
(* tick, a lease running out, or the process's own crash.                  *)
(***************************************************************************)
EXTENDS ExecutionLedger

CONSTANTS
    Workers,      \* processes that run WorkflowExecutionWorker's loop
    Expanders,    \* processes that serve the API's expand requests
    Cancelers,    \* ... cancel requests
    Retriers,     \* ... retry requests
    Repliers,     \* ... message requests
    Reconcilers,  \* ... reconcile requests
    Completers,   \* ... delivery completion requests
    MessageIds,   \* message ids a caller uses
    DeliveryService, \* whether DeliveryExecutionService serves it, not the generic one
    NoAttempt,    \* "no attempt at hand"
    MaxNow,       \* bound: last instant of the clock
    MaxFaults,    \* bound: failed calls and process crashes
    LeasesExpire  \* whether launch leases may run out

VARIABLES
    task,     \* task[a]: the remote A2A task launched for attempt a
    parent,   \* what the parent session has received
    message,  \* the workflow_child_messages rows
    proc,     \* the processes' local states
    faults    \* failures so far

vars == <<execution, plan, child, now, task, parent, message, proc, faults>>

ASSUME ServiceAssumption ==
    /\ Workers \cup Expanders \cup Cancelers \cup Retriers
         \cup Repliers \cup Reconcilers \cup Completers \subseteq Processes
    /\ MaxNow \in Nat \ {0} /\ MaxFaults \in Nat
    /\ LeasesExpire \in BOOLEAN /\ DeliveryService \in BOOLEAN
    /\ NoAttempt \notin Attempts
    /\ MessageIds \subseteq Nat \ {0}

Items == [id : Attempts, flag : BOOLEAN]
Claims == [id : Attempts, fence : Nat]

NoObservation == [state |-> "running", event |-> [kind |-> "none", ask |-> 0], at |-> 0]
NoSnapshot == [rev |-> 0, blockers |-> 0, cancel |-> FALSE, joined |-> FALSE]
NoView == [gen |-> 0, done |-> {}, bad |-> {}]
NoTarget == [state |-> "running", reason |-> ""]

\* A process between two requests or two cycles.
Idle ==
    [pc |-> "idle", todo |-> {}, claims |-> {}, cur |-> NoAttempt, fence |-> 0,
     at |-> 0, obs |-> NoObservation, touched |-> FALSE, snap |-> NoSnapshot,
     view |-> NoView, target |-> NoTarget, plan |-> NoPlan, msg |-> 0]

Init ==
    /\ LedgerInit
    /\ now = 1
    /\ task = [a \in Attempts |-> [state |-> "none", ask |-> 0]]
    /\ parent = [joined |-> {}, hollow |-> {}, notices |-> {}, stopped |-> FALSE]
    /\ message = [m \in MessageIds |-> [state |-> "none", to |-> NoAttempt, ask |-> 0]]
    /\ proc = [p \in Processes |-> Idle]
    /\ faults = 0

--------------------------------------------------------------------------------
(* The remote side: child tasks, the clock, failures.                      *)

TaskTerminal(t) == t.state \in {"accepted", "refused", "failed", "canceled"}
Unfinished(t) == t.state \in {"working", "input"}

\* What a working task may do next of its own accord.
Successors(t) ==
    {[t EXCEPT !.state = s] : s \in {"accepted", "refused", "failed"}}
        \cup IF t.ask < MaxQuestions THEN {[state |-> "input", ask |-> t.ask + 1]} ELSE {}

TaskProgress(a) ==
    /\ task[a].state = "working"
    /\ \E t \in Successors(task[a]) : task' = [task EXCEPT ![a] = t]
    /\ UNCHANGED <<execution, plan, child, now, parent, message, proc, faults>>

\* Launching is idempotent in the attempt's message id.
Launched(a) == IF task[a].state = "none" THEN [state |-> "working", ask |-> 0] ELSE task[a]

\* A cancel request stops an unfinished task, or is only acknowledged.
CancelOutcomes(a) ==
    IF Unfinished(task[a]) THEN {task[a], [task[a] EXCEPT !.state = "canceled"]} ELSE {}

Tick ==
    /\ now < MaxNow
    /\ now' = now + 1
    /\ UNCHANGED <<execution, plan, child, task, parent, message, proc, faults>>

LeaseRunsOut ==
    /\ LeasesExpire
    /\ \E a \in Attempts : LeaseExpires(a)
    /\ UNCHANGED <<now, task, parent, message, proc, faults>>

Fault ==
    /\ faults < MaxFaults
    /\ faults' = faults + 1

\* Canceling a finished task is an error; so is a call that does not get
\* through, whether or not the server saw it.
CancelFails(a) ==
    \/ /\ TaskTerminal(task[a])
       /\ UNCHANGED <<task, faults>>
    \/ /\ Fault
       /\ \E t \in CancelOutcomes(a) : task' = [task EXCEPT ![a] = t]

PollFails ==
    /\ Fault
    /\ UNCHANGED task

(***************************************************************************)
(* Observations.  The question of an earlier turn is no part of what a     *)
(* working or finished task reports, so a task that works again after a    *)
(* reply reports what it reported before the question.                     *)
(***************************************************************************)
EventOf(t) == [kind |-> t.state, ask |-> IF t.state = "input" THEN t.ask ELSE 0]

\* _normalize_observation: the ledger state of a reported task state.
NormalizedState(t) ==
    CASE t.state = "working" -> "running"
      [] t.state = "input" -> "blocked"
      [] t.state \in {"accepted", "refused"} -> "completed"
      [] OTHER -> t.state

Report(t, state) == [state |-> state, event |-> EventOf(t), at |-> now]

\* Mutant of PolledState: a poll believes what the task reports.
UnverifiedState(t) == NormalizedState(t)

\* A poll validates a completed result and its evidence; a refused one blocks.
PolledState(t) == IF t.state = "refused" THEN "blocked" ELSE NormalizedState(t)

\* The answer to a cancel request records no other progress.
CanceledState(t) == IF t.state = "canceled" THEN "canceled" ELSE "canceling"

DeadlineReport(at) == [state |-> "failed", event |-> [kind |-> "deadline", ask |-> 0], at |-> at]

--------------------------------------------------------------------------------
(* Process bookkeeping.                                                    *)

At(p, pc) == proc[p].pc = pc
Become(p, local) == proc' = [proc EXCEPT ![p] = local]
Goto(p, pc) == [proc[p] EXCEPT !.pc = pc]

\* The worker launches after it has reconciled; a request just returns.
AfterReconcile(p) == IF p \in Workers THEN [Idle EXCEPT !.pc = "claim"] ELSE Idle

Crash(p) ==
    /\ ~At(p, "idle")
    /\ Fault
    /\ Become(p, Idle)
    /\ UNCHANGED <<execution, plan, child, now, task, parent, message>>

--------------------------------------------------------------------------------
(* expand                                                                  *)

BeginExpand(p) ==
    /\ p \in Expanders
    /\ At(p, "idle")
    /\ \E pl \in Plans :
          /\ validate_expansion(execution, pl)
          /\ Become(p, [Idle EXCEPT !.pc = "reserve", !.plan = pl, !.snap.rev = execution.rev])
    /\ UNCHANGED <<execution, plan, child, now, task, parent, message, faults>>

ReserveGeneration(p) ==
    /\ At(p, "reserve")
    /\ \/ /\ ReservationAccepted(proc[p].snap.rev, proc[p].plan)
          /\ reserve_generation(proc[p].plan)
          /\ Become(p, [Idle EXCEPT !.pc = "claim"])
       \/ /\ ~ReservationAccepted(proc[p].snap.rev, proc[p].plan)
          /\ UNCHANGED ledger
          /\ Become(p, Idle)
    /\ UNCHANGED <<now, task, parent, message, faults>>

--------------------------------------------------------------------------------
(* launch_ready                                                            *)

ClaimLaunches(p) ==
    /\ At(p, "claim")
    /\ \E S \in ClaimableBatches :
          /\ claim_launches(p, S)
          /\ Become(p, IF S = {} THEN Idle
                       ELSE [Idle EXCEPT
                               !.pc = "launch",
                               !.claims = {[id |-> a, fence |-> child[a].fence + 1] : a \in S}])
    /\ UNCHANGED <<now, task, parent, message, faults>>

\* A failed launch ends the batch; the request may have reached the server.
LaunchChild(p) ==
    /\ At(p, "launch")
    /\ \E c \in proc[p].claims :
          \/ /\ task' = [task EXCEPT ![c.id] = Launched(c.id)]
             /\ Become(p, [proc[p] EXCEPT !.pc = "handle", !.cur = c.id, !.fence = c.fence,
                                          !.claims = @ \ {c}])
             /\ UNCHANGED faults
          \/ /\ Fault
             /\ task' \in {task, [task EXCEPT ![c.id] = Launched(c.id)]}
             /\ Become(p, Idle)
    /\ UNCHANGED <<execution, plan, child, now, parent, message>>

RecordHandle(p) ==
    LET a == proc[p].cur
        fence == proc[p].fence
    IN  /\ At(p, "handle")
        /\ \/ /\ record_handle(p, a, fence)
              /\ Become(p, IF proc[p].claims = {} THEN Idle
                           ELSE [Idle EXCEPT !.pc = "launch", !.claims = proc[p].claims])
           \/ /\ ~HandleAttaches(p, a, fence) /\ ~HandleArrivesCanceled(a, fence)
              /\ UNCHANGED ledger
              /\ Become(p, Idle)
        /\ UNCHANGED <<now, task, parent, message, faults>>

--------------------------------------------------------------------------------
(* reconcile: stop the parent, fail what is overdue, poll, project.        *)

ReconcileFrom == [Idle EXCEPT !.pc = "stop"]

BeginReconcile(p) ==
    /\ p \in Workers \cup Reconcilers
    /\ At(p, "idle")
    /\ Become(p, ReconcileFrom)
    /\ UNCHANGED <<execution, plan, child, now, task, parent, message, faults>>

RequestCancel(p) ==
    /\ p \in Cancelers
    /\ At(p, "idle")
    /\ request_cancel
    /\ Become(p, ReconcileFrom)
    /\ UNCHANGED <<now, task, parent, message, faults>>

\* Mutant of ParentStopPending: a finished execution's parent is forgotten.
ParentStopPendingWhileOpen == execution.stop = "requested" /\ ~ExecutionTerminal

\* list_parent_stop_pending
ParentStopPending == execution.stop = "requested"

StopParent(p) ==
    /\ At(p, "stop")
    /\ \/ /\ ~ParentStopPending
          /\ Become(p, Goto(p, "expire"))
          /\ UNCHANGED <<execution, plan, child, parent, faults>>
       \/ /\ ParentStopPending
          /\ parent' = [parent EXCEPT !.stopped = TRUE]
          /\ Become(p, Goto(p, "stopped"))
          /\ UNCHANGED <<execution, plan, child, faults>>
       \/ /\ ParentStopPending
          /\ Fault
          /\ parent' \in {parent, [parent EXCEPT !.stopped = TRUE]}
          /\ record_parent_stop_error
          /\ Become(p, Goto(p, "expire"))
    /\ UNCHANGED <<now, task, message>>

MarkParentStopped(p) ==
    /\ At(p, "stopped")
    /\ mark_parent_stopped
    /\ Become(p, Goto(p, "expire"))
    /\ UNCHANGED <<now, task, parent, message, faults>>

\* Mutant of ExpiredChildren: a child fails at its deadline, not after it.
ChildrenAtDeadline ==
    {a \in Attempts : /\ Present(a) /\ ~Terminal(a) /\ ~ExecutionTerminal
                      /\ DeadlineOf(a) <= now}

\* list_deadline_expired_children
ExpiredChildren ==
    {a \in Attempts : /\ Present(a) /\ ~Terminal(a) /\ ~ExecutionTerminal
                      /\ DeadlineOf(a) < now}

ListExpired(p) ==
    /\ At(p, "expire")
    /\ Become(p, [proc[p] EXCEPT
                    !.pc = "expiring", !.at = now,
                    !.todo = {[id |-> a, flag |-> child[a].task] : a \in ExpiredChildren}])
    /\ UNCHANGED <<execution, plan, child, now, task, parent, message, faults>>

\* _fail_expired_child, up to the remote cancel where the row read has a task.
ExpireChild(p) ==
    /\ At(p, "expiring")
    /\ \E e \in proc[p].todo :
          LET rest == [proc[p] EXCEPT !.todo = @ \ {e}, !.touched = TRUE]
          IN  \/ /\ e.flag
                 /\ \E t \in CancelOutcomes(e.id) : task' = [task EXCEPT ![e.id] = t]
                 /\ Become(p, [rest EXCEPT !.pc = "expired", !.cur = e.id])
                 /\ UNCHANGED <<execution, plan, child, faults>>
              \/ /\ e.flag
                 /\ CancelFails(e.id)
                 /\ record_reconcile_error(e.id)
                 /\ Become(p, rest)
              \/ /\ ~e.flag
                 /\ record_observation(e.id, DeadlineReport(proc[p].at))
                 /\ Become(p, rest)
                 /\ UNCHANGED <<task, faults>>
    /\ UNCHANGED <<now, parent, message>>

RecordExpired(p) ==
    /\ At(p, "expired")
    /\ record_observation(proc[p].cur, DeadlineReport(proc[p].at))
    /\ Become(p, [proc[p] EXCEPT !.pc = "expiring", !.cur = NoAttempt])
    /\ UNCHANGED <<now, task, parent, message, faults>>

\* list_deadline_expired_executions: the execution's own deadline.
ListExpiredExecution(p) ==
    /\ At(p, "expiring")
    /\ proc[p].todo = {}
    /\ Become(p, IF ExecutionDeadline < proc[p].at /\ ~ExecutionTerminal
                 THEN [proc[p] EXCEPT !.pc = "failing", !.at = 0, !.touched = TRUE,
                                      !.snap.rev = execution.rev]
                 ELSE [proc[p] EXCEPT !.pc = "list", !.at = 0])
    /\ UNCHANGED <<execution, plan, child, now, task, parent, message, faults>>

\* An execution that changed since, or is canceling, refuses the failure.
FailExpiredExecution(p) ==
    LET rev == proc[p].snap.rev
    IN  /\ At(p, "failing")
        /\ \/ fail_execution(rev)
           \/ ~FailureAccepted(rev) /\ UNCHANGED ledger
        /\ Become(p, [proc[p] EXCEPT !.pc = "list", !.snap = NoSnapshot])
        /\ UNCHANGED <<now, task, parent, message, faults>>

\* Mutant of Reconcilable: nothing is reconciled once the execution is finished.
ReconcilableWhileOpen(a) ==
    /\ child[a].task
    /\ child[a].state \in ActiveChildStates
    /\ ~ExecutionTerminal

\* list_reconcilable, and reconcile's own filter on the child deadline.
Reconcilable(a) ==
    /\ child[a].task
    /\ child[a].state \in ActiveChildStates
    /\ \/ ~ExecutionTerminal
       \/ /\ execution.state \in {"canceled", "failed"}
          /\ execution.cancel
          /\ child[a].state = "canceling"

SelectedChildren == {a \in Attempts : Reconcilable(a) /\ DeadlineOf(a) > now}

ListReconcilable(p) ==
    /\ At(p, "list")
    /\ Become(p, [proc[p] EXCEPT
                    !.pc = "poll",
                    !.todo = {[id |-> a, flag |-> child[a].state = "canceling"] :
                                a \in SelectedChildren}])
    /\ UNCHANGED <<execution, plan, child, now, task, parent, message, faults>>

\* _reconcile_child up to its observation; flag: the row read was canceling.
PollChild(p) ==
    /\ At(p, "poll")
    /\ \E e \in proc[p].todo :
          LET rest == [proc[p] EXCEPT !.todo = @ \ {e}, !.touched = TRUE]
          IN  \/ /\ e.flag
                 /\ \E t \in CancelOutcomes(e.id) :
                       /\ task' = [task EXCEPT ![e.id] = t]
                       /\ Become(p, [rest EXCEPT !.pc = "record", !.cur = e.id,
                                                 !.obs = Report(t, CanceledState(t))])
                 /\ UNCHANGED <<execution, plan, child, faults>>
              \/ /\ ~e.flag
                 /\ Become(p, [rest EXCEPT !.pc = "record", !.cur = e.id,
                                 !.obs = Report(task[e.id], PolledState(task[e.id]))])
                 /\ UNCHANGED <<execution, plan, child, task, faults>>
              \/ /\ \/ e.flag /\ CancelFails(e.id)
                    \/ ~e.flag /\ PollFails
                 /\ record_reconcile_error(e.id)
                 /\ Become(p, rest)
    /\ UNCHANGED <<now, parent, message>>

RecordPolled(p) ==
    /\ At(p, "record")
    /\ record_observation(proc[p].cur, proc[p].obs)
    /\ Become(p, [proc[p] EXCEPT !.pc = "poll", !.cur = NoAttempt, !.obs = NoObservation])
    /\ UNCHANGED <<now, task, parent, message, faults>>

--------------------------------------------------------------------------------
(* _project_join                                                           *)

\* Mutant of past_children_join: the override is forgotten.
past_children_join_generic(reason) == reason = "children_contract_valid"

\* The parent was resumed past the join; delivery's override knows waits too.
past_children_join(reason) ==
    \/ reason = "children_contract_valid"
    \/ DeliveryService /\ reason \in WaitReasons

\* A worker projects the executions it touched, a request its own.
ReadExecution(p) ==
    /\ At(p, "poll")
    /\ proc[p].todo = {}
    /\ Become(p, IF ExecutionTerminal \/ (p \in Workers /\ ~proc[p].touched)
                 THEN AfterReconcile(p)
                 ELSE [Idle EXCEPT
                         !.pc = "children",
                         !.snap = [rev |-> execution.rev, blockers |-> execution.blockers,
                                   cancel |-> execution.cancel,
                                   joined |-> past_children_join(execution.reason)]])
    /\ UNCHANGED <<execution, plan, child, now, task, parent, message, faults>>

Canceled == [state |-> "canceled", reason |-> "canceled"]

\* list_children: the results and blockers a continuation will carry.
ReadChildren(p) ==
    LET g == execution.gen
    IN  /\ At(p, "children")
        /\ Become(p,
             IF g # 0
             THEN [proc[p] EXCEPT
                     !.pc = "join",
                     !.view = [gen |-> g,
                               done |-> {a \in CurrentAttempts(g) : child[a].state = "completed"},
                               bad |-> {a \in CurrentAttempts(g) :
                                           child[a].state \in {"blocked", "failed"}}]]
             ELSE IF proc[p].snap.cancel
             THEN [proc[p] EXCEPT !.pc = "update", !.target = Canceled]
             ELSE AfterReconcile(p))
        /\ UNCHANGED <<execution, plan, child, now, task, parent, message, faults>>

\* join_status, read again, decides what the execution becomes.
ReadJoin(p) ==
    LET g == proc[p].view.gen
        settle(s, r) == [proc[p] EXCEPT !.pc = "update", !.target = [state |-> s, reason |-> r]]
    IN  /\ At(p, "join")
        /\ Become(p,
             CASE proc[p].snap.cancel /\ JoinPending(g) = {} /\ JoinBlocked(g) = {}
                    -> settle("canceled", "canceled")
               [] proc[p].snap.cancel /\ JoinPending(g) \cup JoinBlocked(g) # {}
                    -> AfterReconcile(p)
               [] ~proc[p].snap.cancel /\ JoinReady(g)
                    -> IF proc[p].snap.joined THEN AfterReconcile(p) ELSE Goto(p, "resume")
               [] ~proc[p].snap.cancel /\ JoinFailed(g) # {}
                    -> settle("blocked", "child_failed")
               [] ~proc[p].snap.cancel /\ JoinFailed(g) = {} /\ JoinBlocked(g) # {}
                    -> settle("blocked", "child_blocked")
               [] OTHER -> settle("waiting", "awaiting_children"))
        /\ UNCHANGED <<execution, plan, child, now, task, parent, message, faults>>

\* The parent takes the first continuation of a generation and drops repeats.
Resumed(p) ==
    IF proc[p].view.gen \in parent.joined THEN parent
    ELSE [parent EXCEPT
            !.joined = @ \cup {proc[p].view.gen},
            !.hollow = @ \cup (CurrentAttempts(proc[p].view.gen) \ proc[p].view.done)]

ResumeParent(p) ==
    /\ At(p, "resume")
    /\ \/ /\ parent' = Resumed(p)
          /\ Become(p, [proc[p] EXCEPT
                          !.pc = "update",
                          !.target = [state |-> "running", reason |-> "children_contract_valid"]])
          /\ UNCHANGED faults
       \/ /\ Fault
          /\ parent' \in {parent, Resumed(p)}
          /\ Become(p, AfterReconcile(p))
    /\ UNCHANGED <<execution, plan, child, now, task, message>>

UpdateState(p) ==
    LET to == proc[p].target
        rev == proc[p].snap.rev
    IN  /\ At(p, "update")
        /\ \/ /\ update_execution_state(to.state, to.reason, rev)
              /\ Become(p, IF to.state = "blocked" THEN Goto(p, "notify") ELSE AfterReconcile(p))
           \/ /\ ~UpdateAccepted(to.state, to.reason, rev)
              /\ UNCHANGED ledger
              /\ Become(p, AfterReconcile(p))
        /\ UNCHANGED <<now, task, parent, message, faults>>

\* _notify_changed_blockers: only when no blocker changed since the snapshot.
BlockersToNotify(p) ==
    /\ execution.blockers = proc[p].snap.blockers
    /\ execution.blockers > execution.notified

Notified(p) ==
    LET g == proc[p].view.gen
        r == proc[p].snap.blockers
    IN  IF \E n \in parent.notices : n.gen = g /\ n.rev = r THEN parent
        ELSE [parent EXCEPT !.notices = @ \cup {[gen |-> g, rev |-> r, kids |-> proc[p].view.bad]}]

\* The execution is read once more, after the projection.
ReadBlockers(p) ==
    /\ At(p, "notify")
    /\ Become(p, IF BlockersToNotify(p) THEN Goto(p, "send") ELSE AfterReconcile(p))
    /\ UNCHANGED <<execution, plan, child, now, task, parent, message, faults>>

NotifyParent(p) ==
    /\ At(p, "send")
    /\ \/ /\ parent' = Notified(p)
          /\ Become(p, Goto(p, "notified"))
          /\ UNCHANGED faults
       \/ /\ Fault
          /\ parent' \in {parent, Notified(p)}
          /\ Become(p, AfterReconcile(p))
    /\ UNCHANGED <<execution, plan, child, now, task, message>>

MarkNotified(p) ==
    /\ At(p, "notified")
    /\ mark_blocker_notification(proc[p].snap.blockers)
    /\ Become(p, AfterReconcile(p))
    /\ UNCHANGED <<now, task, parent, message, faults>>

--------------------------------------------------------------------------------
(* retry                                                                   *)

BeginRetry(p) ==
    /\ p \in Retriers
    /\ At(p, "idle")
    /\ \E a \in Attempts :
          /\ Retryable(a)
          /\ child[a].state = "blocked" => child[a].task
          /\ Become(p, [Idle EXCEPT !.cur = a,
                          !.pc = IF child[a].state = "blocked" THEN "retryPoll" ELSE "retryCreate"])
    /\ UNCHANGED <<execution, plan, child, now, task, parent, message, faults>>

\* A blocked child's task must be finished, or stop when asked to.
PollBeforeRetry(p) ==
    LET a == proc[p].cur
    IN  /\ At(p, "retryPoll")
        /\ \/ /\ Become(p, Goto(p, IF TaskTerminal(task[a]) THEN "retryCreate" ELSE "retryCancel"))
              /\ UNCHANGED faults
           \/ /\ Fault
              /\ Become(p, Idle)
        /\ UNCHANGED <<execution, plan, child, now, task, parent, message>>

\* Mutant of StoppedForRetry: an acknowledged cancel request is enough.
AcknowledgedForRetry(t) == TRUE

\* Only a terminal answer proves that the previous attempt no longer writes.
StoppedForRetry(t) == TaskTerminal(t)

CancelBeforeRetry(p) ==
    LET a == proc[p].cur
    IN  /\ At(p, "retryCancel")
        /\ \/ /\ \E t \in CancelOutcomes(a) :
                    /\ task' = [task EXCEPT ![a] = t]
                    /\ Become(p, IF StoppedForRetry(t) THEN Goto(p, "retryCreate")
                                 ELSE [proc[p] EXCEPT
                                         !.pc = "answered", !.obs = Report(t, NormalizedState(t))])
              /\ UNCHANGED faults
           \/ /\ CancelFails(a)
              /\ Become(p, Idle)
        /\ UNCHANGED <<execution, plan, child, now, parent, message>>

CreateRetry(p) ==
    LET a == proc[p].cur
    IN  /\ At(p, "retryCreate")
        /\ \/ /\ create_retry(a)
              /\ Become(p, [Idle EXCEPT !.pc = "claim"])
           \/ /\ ~RetryAccepted(a)
              /\ UNCHANGED ledger
              /\ Become(p, Idle)
        /\ UNCHANGED <<now, task, parent, message, faults>>

--------------------------------------------------------------------------------
(* message: a coordinator's reply to the question a child waits on.        *)

\* reserve_message, then the checks on the child row read before it.
ReserveMessage(p) ==
    /\ p \in Repliers
    /\ At(p, "idle")
    /\ \E m \in MessageIds, a \in CurrentAttempts(execution.gen), q \in 1..MaxQuestions :
          /\ message[m].state = "none" \/ (message[m].to = a /\ message[m].ask = q)
          /\ message[m].state # "delivered"
          /\ message' = [message EXCEPT ![m] = [state |-> "reserved", to |-> a, ask |-> q]]
          /\ Become(p, IF child[a].state = "blocked" /\ child[a].task /\ child[a].ask = q
                       THEN [Idle EXCEPT !.pc = "reply", !.cur = a, !.msg = m]
                       ELSE Idle)
    /\ UNCHANGED <<execution, plan, child, now, task, parent, faults>>

\* The reply wakes the task; its answer may report how far the task then got.
ReplyChild(p) ==
    LET a == proc[p].cur
        awaited == task[a] = [state |-> "input", ask |-> message[proc[p].msg].ask]
        woken == [task[a] EXCEPT !.state = "working"]
        report(t) == [proc[p] EXCEPT !.pc = "replied", !.obs = Report(t, NormalizedState(t))]
    IN  /\ At(p, "reply")
        /\ \/ /\ awaited
              /\ \E t \in {woken} \cup Successors(woken) :
                    /\ task' = [task EXCEPT ![a] = t]
                    /\ Become(p, report(t))
              /\ UNCHANGED faults
           \/ /\ ~awaited
              /\ Become(p, IF TaskTerminal(task[a]) THEN Idle ELSE report(task[a]))
              /\ UNCHANGED <<task, faults>>
           \/ /\ Fault
              /\ task' \in {task, IF awaited THEN [task EXCEPT ![a] = woken] ELSE task}
              /\ Become(p, Idle)
        /\ UNCHANGED <<execution, plan, child, now, parent, message>>

MarkMessageDelivered(p) ==
    /\ At(p, "replied")
    /\ message' = [message EXCEPT ![proc[p].msg].state = "delivered"]
    /\ Become(p, [proc[p] EXCEPT !.pc = "answered", !.msg = 0])
    /\ UNCHANGED <<execution, plan, child, now, task, parent, faults>>

\* What a reply, or the cancel request of a refused retry, was answered.
RecordAnswer(p) ==
    /\ At(p, "answered")
    /\ record_observation(proc[p].cur, proc[p].obs)
    /\ Become(p, Idle)
    /\ UNCHANGED <<now, task, parent, message, faults>>

--------------------------------------------------------------------------------
Complete(p) ==
    /\ p \in Completers
    /\ At(p, "idle")
    /\ complete
    /\ UNCHANGED <<now, task, parent, message, proc, faults>>

WorkerStep(p) ==
    \/ BeginReconcile(p) \/ StopParent(p) \/ MarkParentStopped(p)
    \/ ListExpired(p) \/ ExpireChild(p) \/ RecordExpired(p)
    \/ ListExpiredExecution(p) \/ FailExpiredExecution(p)
    \/ ListReconcilable(p) \/ PollChild(p) \/ RecordPolled(p)
    \/ ReadExecution(p) \/ ReadChildren(p) \/ ReadJoin(p)
    \/ ResumeParent(p) \/ UpdateState(p) \/ ReadBlockers(p) \/ NotifyParent(p) \/ MarkNotified(p)
    \/ ClaimLaunches(p) \/ LaunchChild(p) \/ RecordHandle(p)

RequestStep(p) ==
    \/ BeginExpand(p) \/ ReserveGeneration(p)
    \/ RequestCancel(p)
    \/ BeginRetry(p) \/ PollBeforeRetry(p) \/ CancelBeforeRetry(p) \/ CreateRetry(p)
    \/ ReserveMessage(p) \/ ReplyChild(p) \/ MarkMessageDelivered(p) \/ RecordAnswer(p)
    \/ Complete(p)

Next ==
    \/ \E p \in Processes : WorkerStep(p) \/ RequestStep(p) \/ Crash(p)
    \/ \E a \in Attempts : TaskProgress(a)
    \/ LeaseRunsOut
    \/ Tick

Spec == Init /\ [][Next]_vars

\* A request or a cycle that has begun goes on to its end.
Continue(p) == ~At(p, "idle") /\ (WorkerStep(p) \/ RequestStep(p))

\* The worker's loop never ends and isolates its phases, so it begins another
\* cycle; a child task that works gets somewhere; time passes, and with it leases.
Fairness ==
    /\ \A p \in Processes : WF_vars(Continue(p))
    /\ \A p \in Workers : WF_vars(BeginReconcile(p))
    /\ \A a \in Attempts : WF_vars(TaskProgress(a))
    /\ WF_vars(Tick)
    /\ WF_vars(LeaseRunsOut)

FairSpec == Spec /\ Fairness

--------------------------------------------------------------------------------
(* Properties.                                                             *)

PCs == {"idle", "reserve", "claim", "launch", "handle", "stop", "stopped", "expire",
        "expiring", "expired", "failing", "list", "poll", "record", "children", "join", "resume",
        "update", "notify", "send", "notified", "retryPoll", "retryCancel", "retryCreate", "reply", "replied",
        "answered"}

ProcessType ==
    [pc : PCs, todo : SUBSET Items, claims : SUBSET Claims, cur : Attempts \cup {NoAttempt},
     fence : Nat, at : Nat, obs : Observations, touched : BOOLEAN,
     snap : [rev : Nat, blockers : Nat, cancel : BOOLEAN, joined : BOOLEAN],
     view : [gen : 0..MaxGeneration, done : SUBSET Attempts, bad : SUBSET Attempts],
     target : [state : ExecutionStates, reason : StatusReasons], plan : Plans \cup {NoPlan},
     msg : MessageIds \cup {0}]

\* Every row and every process keeps its type, and the reserved budget never
\* exceeds the total the owner granted.
TypeOK ==
    /\ LedgerTypeOK
    /\ task \in [Attempts -> [state : TaskStates, ask : 0..MaxQuestions]]
    /\ parent \in [joined : SUBSET Generations, hollow : SUBSET Attempts,
                   notices : SUBSET [gen : 0..MaxGeneration, rev : Nat, kids : SUBSET Attempts],
                   stopped : BOOLEAN]
    /\ message \in [MessageIds -> [state : {"none", "reserved", "delivered"},
                                   to : Attempts \cup {NoAttempt}, ask : 0..MaxQuestions]]
    /\ proc \in [Processes -> ProcessType]
    /\ faults \in Nat

\* A row the ledger polls, cancels or joins on always names an existing task.
ActiveChildHasTask ==
    \A a \in Attempts :
        child[a].state \in ActiveChildStates \cup {"completed"} =>
            child[a].task /\ task[a].state # "none"

\* Some process holds the attempt's current claim and is to record its handle.
HandleInFlight(a) ==
    \E p \in Processes :
        \/ At(p, "handle") /\ proc[p].cur = a /\ proc[p].fence = child[a].fence
        \/ [id |-> a, fence |-> child[a].fence] \in proc[p].claims

\* The ledger reports no attempt dead whose task is still running, unless the
\* task's handle is just arriving (and will turn the row to canceling).
NoTaskReportedDead ==
    \A a \in Attempts : Terminal(a) /\ Unfinished(task[a]) => HandleInFlight(a)

\* At most one attempt of a child works at a time: a retry starts only after
\* its predecessor's task has stopped writing to the shared checkout.
SingleWriter ==
    \A a, b \in Attempts :
        (a.gen = b.gen /\ a.key = b.key /\ Unfinished(task[a]) /\ Unfinished(task[b])) => a = b

\* When the notified revision has caught up with the blocker revision, the
\* notice of that revision named every child of the current generation that
\* is blocked or failed now: no blocker is marked as notified unseen.
BlockersNotified ==
    (execution.notified = execution.blockers /\ execution.gen # 0) =>
        \A a \in CurrentAttempts(execution.gen) :
            child[a].state \in {"blocked", "failed"} =>
                \E n \in parent.notices : n.rev = execution.notified /\ a \in n.kids

\* Only a completion the evidence policy accepts satisfies the join.
CompletedIsAccepted ==
    \A a \in Attempts : child[a].state = "completed" => task[a].state = "accepted"

\* The parent was resumed only past an expansion whose every child has an
\* attempt that really finished with an accepted result.
ResumedPastJoin ==
    \A g \in parent.joined : \A k \in KeysOf(g) :
        \E a \in Attempts : a.gen = g /\ a.key = k /\ task[a].state = "accepted"

\* What the first n generations of some sealed plans were granted together.
GrantedIn(plans) ==
    LET granted[n \in 0..MaxGeneration] ==
          IF n = 0
          THEN 0
          ELSE granted[n - 1] + IF plans[n] = NoPlan THEN 0 ELSE plans[n].units
    IN  granted

\* The reserved budget is what the sealed generations were granted and never
\* more than the owner's total, however many expansions of the execution were
\* prepared concurrently.
BudgetConserved ==
    /\ execution.reserved = GrantedIn(plan)[MaxGeneration]
    /\ execution.reserved <= TotalUnits

\* A row says that its join is over only when the parent was told of the row's own
\* generation: a projection that resumed the parent while an expansion sealed the
\* next generation does not make the row say so of that one, which would keep the
\* parent from ever being resumed past it.
JoinedIsTold ==
    execution.reason = "children_contract_valid" => execution.gen \in parent.joined

\* The continuation carried the result of every child it joined.  The results are
\* read before the join is, and with two processes that reconcile, as in the run
\* `joins`, this fails: no run asks for it.
ResumedWithResults == parent.hollow = {}

\* The ledger gives up an attempt whose task still works only for a reason: the
\* child was overdue, as many calls have failed as make its row fail, or it was
\* canceled, with its execution, before any handle told the row of the task.
DeadIsExplained ==
    \A a \in Attempts : Terminal(a) /\ Unfinished(task[a]) =>
        \/ /\ child[a].state \in {"failed", "superseded"}
           /\ DeadlineOf(a) < now \/ faults >= MaxReconcileFailures
        \/ child[a].state = "canceled" /\ ~child[a].task /\ execution.cancel

\* An attempt was claimed for launch only after the tasks of all the children
\* it depends on had finished with accepted results.
LaunchedAfterDependencies ==
    \A a \in Attempts : child[a].fence > 0 =>
        \A k \in plan[a.gen].deps[a.key] :
            \E b \in Attempts : b.gen = a.gen /\ b.key = k /\ task[b].state = "accepted"

\* A finished attempt is final: it is only ever replaced by a retry, or, when
\* it was canceled before its handle arrived, reopened to cancel its task.
FinishedAttemptIsFinal == [][AttemptsStayFinished]_vars

\* A finished execution stays as it is: no process that read it before it
\* finished changes its outcome, reserves children, or launches one.
FinishedExecutionIsFinal == [][ExecutionStaysFinished]_vars

--------------------------------------------------------------------------------
(* What the owner is promised, and that this module keeps it.              *)

\* The phase of an attempt, as AttemptLifecycle knows it.
PhaseOf(a) ==
    LET s == child[a].state
    IN  IF s = "none" THEN "absent"
        ELSE IF s \in {"reserved", "launching"} THEN "queued"
        ELSE IF s \in {"submitted", "running", "blocked"} THEN "working"
        ELSE IF s = "canceling" THEN "stopping"
        ELSE IF s = "canceled" THEN "stopped"
        ELSE s

Lifecycle ==
    INSTANCE AttemptLifecycle
    WITH phase <- [a \in Attempts |-> PhaseOf(a)], over <- execution.cancel

\* Behind claims, handles, polls and transactions of several processes, every
\* attempt goes through its life in whole steps: a generation is queued at
\* once, a retry replaces its predecessor at once, cancellation or the
\* execution's deadline stops all attempts at once, and afterwards none starts.
AttemptsHaveOneLife == Lifecycle!Spec

--------------------------------------------------------------------------------
(* Liveness, under FairSpec.                                               *)

\* A requested cancellation ends: the execution and every attempt finish, as
\* long as no call fails.
CancelConverges ==
    execution.cancel ~>
        \/ ExecutionTerminal /\ \A a \in Attempts : Present(a) => Terminal(a)
        \/ faults > 0

\* The parent of a canceled execution is stopped, or given up on visibly.
ParentStopSettles == (execution.stop = "requested") ~> (execution.stop = "stopped")

\* Children that have all completed resume their parent, unless the execution
\* ends or expands again before.
JoinResumesParent ==
    \A g \in Generations :
        (execution.gen = g /\ JoinReady(g))
            ~> (g \in parent.joined \/ ExecutionTerminal \/ execution.gen # g)

\* A child past its deadline is not left pending.
OverdueChildFinishes ==
    \A a \in Attempts :
        (Present(a) /\ ~Terminal(a) /\ DeadlineOf(a) < now) ~> Terminal(a)

\* A claim whose holder is gone is taken over, or its attempt moves on.
AbandonedClaimIsTakenOver ==
    \A a \in Attempts, n \in 1..(MaxFence - 1) :
        (child[a].state = "launching" /\ child[a].fence = n)
            ~> (child[a].state # "launching" \/ child[a].fence > n)
================================================================================
