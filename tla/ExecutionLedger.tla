---------------------------- MODULE ExecutionLedger ----------------------------
(***************************************************************************)
(* The durable ledger of one workflow execution: the execution row, its    *)
(* sealed generations, and one row per child attempt, together with every  *)
(* transaction the Postgres repository runs on them.                       *)
(*                                                                         *)
(* Each operator named after a repository method is that method's          *)
(* transaction on the current rows.  Guards that raise in the code are     *)
(* separate *Accepts operators, so that the service can model what it does *)
(* when the transaction is refused.                                        *)
(***************************************************************************)
EXTENDS Expansion

CONSTANTS
    Keys,                 \* child keys a plan may use
    Plans,                \* the expansions coordinators propose
    NoPlan,               \* a generation that is not reserved
    MaxGeneration,        \* bound: generations the instance may reserve
    MaxChildren,          \* policy.max_children
    MaxAttempts,          \* policy.max_attempts
    MaxActiveChildren,    \* policy.max_active_children
    TotalUnits,           \* budget.total_units
    ExecutionDeadline,    \* execution.deadline, an instant
    MaxReconcileFailures, \* max_child_reconcile_failures
    MaxStopFailures,      \* max_parent_stop_failures
    Processes,            \* workers and API requests
    Nobody,               \* lease_owner of a row that is not leased
    MaxFence,             \* bound: claims of one attempt
    MaxQuestions          \* bound: questions one child task asks

VARIABLES
    execution,   \* the workflow_executions row
    plan,        \* plan[g]: the sealed generation g, or NoPlan
    child,       \* child[a]: the workflow_execution_children row of attempt a
    now          \* the database clock

ledger == <<execution, plan, child>>

Generations == 1..MaxGeneration
Attempts == [gen : Generations, key : Keys, attempt : 1..MaxAttempts]

ExecutionStates ==
    {"running", "waiting", "blocked", "canceling", "canceled", "completed", "failed"}

\* The reasons a workflow wait leaves: "awaiting:<condition>", observed, failed.
WaitReasons == {"awaiting_condition", "wait_observed", "wait_failed"}
StatusReasons ==
    {"", "awaiting_children", "children_contract_valid", "child_failed", "child_blocked",
     "canceling_children", "canceled", "deadline_exceeded", "delivery_merged"} \cup WaitReasons
TERMINAL_EXECUTION_STATES == {"canceled", "completed", "failed"}

ChildStates ==
    {"none", "reserved", "launching", "submitted", "running", "blocked",
     "canceling", "canceled", "completed", "failed", "superseded"}
TERMINAL_CHILD_STATES == {"canceled", "completed", "failed", "superseded"}
RETRYABLE_CHILD_STATES == {"blocked", "failed", "canceled"}

\* The states of a remote task that is bound to a row and not finished.
ActiveChildStates == {"submitted", "running", "blocked", "canceling"}

(***************************************************************************)
(* A child task as its A2A server reports it.  "accepted" and "refused"    *)
(* are completions that pass, respectively fail, the result contract and   *)
(* the evidence policy.  The event id of an observation is a digest of the *)
(* reported content, so equal reports have equal event ids.                *)
(***************************************************************************)
TaskStates == {"none", "working", "input", "accepted", "refused", "failed", "canceled"}
Events == [kind : TaskStates \cup {"deadline"}, ask : 0..MaxQuestions]

ObservedStates == {"running", "blocked", "canceling", "canceled", "completed", "failed"}
Observations ==
    [state : ObservedStates, event : Events, at : Nat]

ASSUME LedgerAssumption ==
    /\ MaxGeneration \in Nat /\ MaxAttempts \in Nat \ {0}
    /\ MaxChildren \in Nat /\ MaxActiveChildren \in Nat
    /\ TotalUnits \in Nat /\ ExecutionDeadline \in Nat
    /\ MaxReconcileFailures \in Nat \ {0} /\ MaxStopFailures \in Nat \ {0}
    /\ MaxFence \in Nat /\ MaxQuestions \in Nat
    /\ Nobody \notin Processes
    /\ NoPlan \notin Plans
    /\ \A p \in Plans :
          /\ p = [deps |-> p.deps, deadline |-> p.deadline, units |-> p.units]
          /\ p.deps \in [DOMAIN p.deps -> SUBSET Keys]
          /\ DOMAIN p.deps \subseteq Keys
          /\ p.deadline \in [DOMAIN p.deps -> Nat]
          /\ p.units \in Nat

--------------------------------------------------------------------------------
(* Rows.                                                                   *)

NoRow ==
    [state |-> "none", task |-> FALSE, owner |-> Nobody, live |-> FALSE,
     fence |-> 0, seen |-> 0, fails |-> 0, ask |-> 0, events |-> {}]

\* A fresh attempt: no handle, no lease, nothing observed.
ReservedRow == [NoRow EXCEPT !.state = "reserved"]

LedgerInit ==
    /\ execution = [state |-> "running", reason |-> "", gen |-> 0, reserved |-> 0,
                    cancel |-> FALSE, rev |-> 0, blockers |-> 0, notified |-> 0,
                    stop |-> "no", stopTries |-> 0]
    /\ plan = [g \in Generations |-> NoPlan]
    /\ child = [a \in Attempts |-> NoRow]

Present(a) == child[a].state # "none"
KeysOf(g) == IF plan[g] = NoPlan THEN {} ELSE DOMAIN plan[g].deps
DeadlineOf(a) == plan[a.gen].deadline[a.key]
Terminal(a) == child[a].state \in TERMINAL_CHILD_STATES
ExecutionTerminal == execution.state \in TERMINAL_EXECUTION_STATES

\* a is the attempt MAX(attempt) selects for its generation and key.
Latest(a) ==
    /\ Present(a)
    /\ \A n \in 1..MaxAttempts :
          n > a.attempt => ~Present([a EXCEPT !.attempt = n])

CurrentAttempts(g) == {a \in Attempts : a.gen = g /\ Latest(a)}

--------------------------------------------------------------------------------
(* calculate_join over the latest attempts of generation g.  A reserved    *)
(* generation is always sealed and never empty.                            *)

JoinPending(g) ==
    {a \in CurrentAttempts(g) : ~Terminal(a) /\ child[a].state # "blocked"}
JoinBlocked(g) == {a \in CurrentAttempts(g) : child[a].state = "blocked"}
JoinFailed(g) == {a \in CurrentAttempts(g) : child[a].state \in {"failed", "canceled"}}
\* Mutant of JoinReady: every child is done, however it ended.
JoinSettled(g) ==
    /\ CurrentAttempts(g) # {}
    /\ \A a \in CurrentAttempts(g) : Terminal(a)

JoinReady(g) ==
    /\ CurrentAttempts(g) # {}
    /\ \A a \in CurrentAttempts(g) : child[a].state = "completed"

--------------------------------------------------------------------------------
(* Expansion.                                                              *)

\* What both validate_expansion and the reservation transaction require.
validate_expansion(e, p) ==
    /\ e.state \notin TERMINAL_EXECUTION_STATES
    /\ ~e.cancel
    /\ e.gen + 1 \in Generations
    /\ DOMAIN p.deps # {}
    /\ Cardinality(DOMAIN p.deps) <= MaxChildren
    /\ DependenciesKnown(p.deps)
    /\ \A k \in DOMAIN p.deps : p.deadline[k] <= ExecutionDeadline
    /\ p.units <= TotalUnits - e.reserved
    /\ Orderable(p.deps)

\* Mutant of ReservationAccepted: the transaction trusts the caller's checks.
ReservationUnchecked(rev, p) ==
    /\ ~execution.cancel
    /\ ~ExecutionTerminal
    /\ execution.gen + 1 \in Generations

\* rev is the revision of the row the caller read before it prepared p.
ReservationAccepted(rev, p) ==
    /\ execution.rev = rev
    /\ ~execution.cancel
    /\ ~ExecutionTerminal
    /\ execution.gen + 1 \in Generations
    /\ p.units <= TotalUnits - execution.reserved

\* Mutant of reserve_generation: the reason of the previous join is kept.
reserve_generation_keeping_reason(p) ==
    LET g == execution.gen + 1
    IN  /\ plan' = [plan EXCEPT ![g] = p]
        /\ child' = [a \in Attempts |->
                        IF a.gen = g /\ a.key \in DOMAIN p.deps /\ a.attempt = 1
                        THEN ReservedRow
                        ELSE child[a]]
        /\ execution' = [execution EXCEPT
                            !.gen = g, !.reserved = @ + p.units, !.state = "waiting",
                            !.rev = @ + 1]

reserve_generation(p) ==
    LET g == execution.gen + 1
    IN  /\ plan' = [plan EXCEPT ![g] = p]
        /\ child' = [a \in Attempts |->
                        IF a.gen = g /\ a.key \in DOMAIN p.deps /\ a.attempt = 1
                        THEN ReservedRow
                        ELSE child[a]]
        /\ execution' = [execution EXCEPT
                            !.gen = g, !.reserved = @ + p.units, !.state = "waiting",
                            !.reason = "awaiting_children", !.rev = @ + 1]

--------------------------------------------------------------------------------
(* Launch claims.  `live` is lease_expires_at >= NOW().                    *)

CountsAgainstLimit(a) ==
    \/ child[a].state \in ActiveChildStates
    \/ child[a].state = "launching" /\ child[a].live

FreeSlots ==
    LET active == Cardinality({a \in Attempts : CountsAgainstLimit(a)})
    IN  IF active < MaxActiveChildren THEN MaxActiveChildren - active ELSE 0

\* Mutant of DependenciesCompleted: the dependencies are done, however they ended.
DependenciesDone(a) ==
    \A k \in plan[a.gen].deps[a.key] :
        \E b \in CurrentAttempts(a.gen) : b.key = k /\ Terminal(b)

\* The latest attempt of every dependency, in the same generation, completed.
DependenciesCompleted(a) ==
    \A k \in plan[a.gen].deps[a.key] :
        \E b \in CurrentAttempts(a.gen) : b.key = k /\ child[b].state = "completed"

\* Mutant of Claimable: an expired claim is not claimed again.
ClaimableOnce(a) ==
    /\ child[a].state = "reserved"
    /\ DeadlineOf(a) > now
    /\ DependenciesCompleted(a)
    /\ child[a].fence < MaxFence

Claimable(a) ==
    /\ \/ child[a].state = "reserved"
       \/ child[a].state = "launching" /\ ~child[a].live
    /\ DeadlineOf(a) > now
    /\ DependenciesCompleted(a)
    /\ child[a].fence < MaxFence

ExecutionClaims ==
    /\ ExecutionDeadline > now
    /\ ~execution.cancel
    /\ execution.state \in {"running", "waiting"}

\* The sets one claim may take.  It fills the free slots; which rows fill them
\* is left open (rows of one generation share their creation time).
ClaimableBatches ==
    LET claimable == IF ExecutionClaims THEN {a \in Attempts : Claimable(a)} ELSE {}
        size == IF Cardinality(claimable) < FreeSlots THEN Cardinality(claimable) ELSE FreeSlots
    IN  {S \in SUBSET claimable : Cardinality(S) = size}

claim_launches(p, S) ==
    /\ child' = [a \in Attempts |->
                    IF a \in S
                    THEN [child[a] EXCEPT !.state = "launching", !.owner = p,
                                          !.live = TRUE, !.fence = @ + 1]
                    ELSE child[a]]
    /\ UNCHANGED <<execution, plan>>

\* The lease of a launching row runs out before its handle is recorded.
LeaseExpires(a) ==
    /\ child[a].state = "launching"
    /\ child[a].live
    /\ child' = [child EXCEPT ![a].live = FALSE]
    /\ UNCHANGED <<execution, plan>>

--------------------------------------------------------------------------------
(* record_handle: the lease holder attaches the task, or a launch whose    *)
(* row was canceled meanwhile comes back to be canceled remotely.  The     *)
(* lease token is fresh per claim, as the fencing generation is.           *)

HandleAttaches(p, a, fence) ==
    /\ child[a].state = "launching"
    /\ child[a].owner = p
    /\ child[a].fence = fence

\* Mutant of HandleArrivesCanceled: the handle of a canceled launch is dropped.
LateHandleDropped(a, fence) == FALSE

HandleArrivesCanceled(a, fence) ==
    /\ child[a].state = "canceled"
    /\ ~child[a].task
    /\ child[a].fence = fence
    /\ execution.cancel
    /\ execution.state \in {"canceling", "canceled", "failed"}

record_handle(p, a, fence) ==
    /\ HandleAttaches(p, a, fence) \/ HandleArrivesCanceled(a, fence)
    /\ child' = [child EXCEPT
                    ![a].state = IF HandleAttaches(p, a, fence) THEN "submitted" ELSE "canceling",
                    ![a].task = TRUE, ![a].owner = Nobody, ![a].live = FALSE]
    /\ UNCHANGED <<execution, plan>>

--------------------------------------------------------------------------------
(* Observations.                                                           *)

\* Mutant of ObservationIgnored: a finished row accepts a newer observation.
ObservationRepeated(a, obs) ==
    \/ obs.event \in child[a].events
    \/ obs.at < child[a].seen

\* A repeated event, a terminal row, or an older observation: only the
\* failure count is reset, but the event id is spent either way.
ObservationIgnored(a, obs) ==
    \/ obs.event \in child[a].events
    \/ Terminal(a)
    \/ obs.at < child[a].seen

\* Mutant of ProjectedState: a poll that was under way undoes the cancel request.
ReportedState(a, obs) == obs.state

ProjectedState(a, obs) ==
    IF execution.cancel /\ child[a].state = "canceling" /\ obs.state \notin TERMINAL_CHILD_STATES
    THEN "canceling"
    ELSE obs.state

\* Two distinct events differ in state, questions or error, so an observation
\* that is not a repeat changes a blocker whenever either side is one.
BlockerChanged(a, obs) ==
    {child[a].state, ProjectedState(a, obs)} \cap {"blocked", "failed"} # {}

ApplyObservation(a, obs) ==
    /\ child' = [child EXCEPT ![a].state = ProjectedState(a, obs), ![a].seen = obs.at,
                              ![a].ask = obs.event.ask, ![a].fails = 0,
                              ![a].events = @ \cup {obs.event}]
    /\ execution' = IF BlockerChanged(a, obs)
                    THEN [execution EXCEPT !.blockers = @ + 1]
                    ELSE execution

record_observation(a, obs) ==
    /\ \/ /\ ObservationIgnored(a, obs)
          /\ child' = [child EXCEPT ![a].fails = 0, ![a].events = @ \cup {obs.event}]
          /\ UNCHANGED execution
       \/ /\ ~ObservationIgnored(a, obs)
          /\ ApplyObservation(a, obs)
    /\ UNCHANGED plan

\* Repeated failures to observe a child fail it; a terminal row is left alone.
record_reconcile_error(a) ==
    /\ \/ /\ Terminal(a)
          /\ UNCHANGED <<child, execution>>
       \/ /\ ~Terminal(a)
          /\ child[a].fails + 1 < MaxReconcileFailures
          /\ child' = [child EXCEPT ![a].fails = @ + 1]
          /\ UNCHANGED execution
       \/ /\ ~Terminal(a)
          /\ child[a].fails + 1 >= MaxReconcileFailures
          /\ child' = [child EXCEPT ![a].fails = @ + 1, ![a].state = "failed"]
          /\ execution' = [execution EXCEPT !.blockers = @ + 1]
    /\ UNCHANGED plan

--------------------------------------------------------------------------------
(* Cancellation, failure, completion.                                      *)

\* Mutant of StopChildren: every attempt waits for a remote cancel.
CancelAllRemotely ==
    child' = [a \in Attempts |->
        IF ~Present(a) \/ Terminal(a) THEN child[a]
        ELSE [child[a] EXCEPT !.state = "canceling", !.owner = Nobody, !.live = FALSE]]

\* Mutant of StopChildren: superseded attempts are canceled too.
StopSupersededToo ==
    child' = [a \in Attempts |->
        IF ~Present(a) \/ child[a].state \in {"canceled", "completed", "failed"} THEN child[a]
        ELSE [child[a] EXCEPT
                !.state = IF @ \in {"reserved", "launching"} THEN "canceled" ELSE "canceling",
                !.owner = Nobody, !.live = FALSE]]

\* request_cancel and a FAILED projection stop the children the same way:
\* unlaunched attempts are canceled, launched ones wait for a remote cancel.
StopChildren ==
    child' = [a \in Attempts |->
        IF ~Present(a) \/ Terminal(a) THEN child[a]
        ELSE [child[a] EXCEPT
                !.state = IF @ \in {"reserved", "launching"} THEN "canceled" ELSE "canceling",
                !.owner = Nobody, !.live = FALSE]]

\* Mutant of request_cancel: a failed or canceled execution is canceling again.
request_cancel_again ==
    \/ /\ execution.state = "completed"
       /\ UNCHANGED ledger
    \/ /\ execution.state # "completed"
       /\ execution' = [execution EXCEPT
                           !.cancel = TRUE,
                           !.stop = IF @ = "no" THEN "requested" ELSE @,
                           !.state = "canceling", !.reason = "canceling_children",
                           !.rev = IF execution.cancel THEN @ ELSE @ + 1]
       /\ StopChildren
       /\ UNCHANGED plan

request_cancel ==
    \/ /\ execution.state = "completed"
       /\ UNCHANGED ledger
    \/ /\ execution.state # "completed"
       /\ execution' = [execution EXCEPT
                           !.cancel = TRUE,
                           !.stop = IF @ = "no" THEN "requested" ELSE @,
                           !.state = IF @ \in {"failed", "canceled"} THEN @ ELSE "canceling",
                           !.reason = IF execution.state \in {"failed", "canceled"}
                                      THEN @ ELSE "canceling_children",
                           !.rev = IF execution.cancel THEN @ ELSE @ + 1]
       /\ StopChildren
       /\ UNCHANGED plan

\* Mutant of UpdateAccepted: a projection overwrites what happened since its read.
UpdateOfAnyRevision(state, reason, rev) ==
    \/ ~ExecutionTerminal
    \/ execution.state = state /\ execution.reason = reason

\* The projection lands, or is the replay of one that already has.
UpdateAccepted(state, reason, rev) ==
    /\ execution.rev = rev
    /\ \/ ~ExecutionTerminal
       \/ execution.state = state /\ execution.reason = reason

update_execution_state(state, reason, rev) ==
    /\ UpdateAccepted(state, reason, rev)
    /\ execution' = IF execution.state = state /\ execution.reason = reason
                    THEN execution
                    ELSE [execution EXCEPT !.state = state, !.reason = reason, !.rev = @ + 1]
    /\ UNCHANGED <<plan, child>>

FailureAccepted(rev) == execution.rev = rev /\ ~execution.cancel /\ ~ExecutionTerminal

\* update_execution_state for FAILED, whose transaction also stops the children.
fail_execution(rev) ==
    /\ FailureAccepted(rev)
    /\ execution' = [execution EXCEPT !.state = "failed", !.reason = "deadline_exceeded",
                                      !.cancel = TRUE, !.rev = @ + 1]
    /\ StopChildren
    /\ UNCHANGED plan

\* complete_execution rechecks all it needs of the row it locks; the revision it
\* also expects only refuses more of the same completions.
complete ==
    /\ ~execution.cancel
    /\ execution.state \in {"running", "waiting", "blocked"}
    /\ execution.gen \in Generations
    /\ JoinReady(execution.gen)
    /\ execution' = [execution EXCEPT !.state = "completed", !.reason = "delivery_merged",
                                      !.rev = @ + 1]
    /\ UNCHANGED <<plan, child>>

\* Mutant of mark_blocker_notification: blockers raised meanwhile are marked too.
mark_all_blockers_notified(revision) ==
    /\ execution' = [execution EXCEPT !.notified = execution.blockers]
    /\ UNCHANGED <<plan, child>>

mark_blocker_notification(revision) ==
    /\ execution' = IF execution.blockers = revision /\ execution.notified < revision
                    THEN [execution EXCEPT !.notified = revision]
                    ELSE execution
    /\ UNCHANGED <<plan, child>>

mark_parent_stopped ==
    /\ execution' = IF execution.stop = "no" THEN execution ELSE [execution EXCEPT !.stop = "stopped"]
    /\ UNCHANGED <<plan, child>>

record_parent_stop_error ==
    /\ execution' = IF execution.stop = "requested"
                    THEN [execution EXCEPT
                            !.stopTries = @ + 1,
                            !.stop = IF execution.stopTries + 1 >= MaxStopFailures
                                     THEN "stopped" ELSE @]
                    ELSE execution
    /\ UNCHANGED <<plan, child>>

--------------------------------------------------------------------------------
(* Retry.                                                                  *)

\* make_retry: read before the transaction, on the caller's snapshot.
Retryable(a) ==
    /\ a.gen = execution.gen
    /\ Latest(a)
    /\ a.attempt < MaxAttempts
    /\ child[a].state \in RETRYABLE_CHILD_STATES

RetryAccepted(a) == ~execution.cancel /\ Latest(a)

create_retry(a) ==
    /\ RetryAccepted(a)
    /\ child' = [child EXCEPT ![a].state = "superseded",
                              ![[a EXCEPT !.attempt = @ + 1]] = ReservedRow]
    /\ UNCHANGED <<execution, plan>>

--------------------------------------------------------------------------------
(* Properties of the rows.                                                 *)

\* Once cancellation is requested, by the owner or by the execution's own
\* deadline, no child attempt is left that could still be launched or go on:
\* whatever claim, handle, observation or retry was under way at that moment.
CancelStopsEverything ==
    execution.cancel =>
        \A a \in Attempts :
            Present(a) => child[a].state \in TERMINAL_CHILD_STATES \cup {"canceling"}

\* An attempt that was retried stays superseded: no late handle, observation,
\* error or cancellation brings it back beside its successor.
OnlyLatestAttemptLives ==
    \A a \in Attempts : Present(a) /\ ~Latest(a) => child[a].state = "superseded"

\* A step of the ledger leaves a finished attempt as it is, except to replace
\* it by a retry, or to cancel the task of a canceled launch whose handle is late.
AttemptsStayFinished ==
    \A a \in Attempts :
        Terminal(a) =>
            \/ child'[a].state = child[a].state
            \/ child'[a].state = "superseded" /\ ~Latest(a)'
            \/ child[a].state = "canceled" /\ child'[a].state = "canceling" /\ execution.cancel

\* A step of the ledger leaves a finished execution finished as it was, without
\* another expansion and without another claim.
ExecutionStaysFinished ==
    ExecutionTerminal =>
        /\ execution'.state = execution.state
        /\ execution'.gen = execution.gen
        /\ \A a \in Attempts : child'[a].fence = child[a].fence

ExecutionType ==
    [state : ExecutionStates, reason : StatusReasons, gen : 0..MaxGeneration,
     reserved : 0..TotalUnits, cancel : BOOLEAN, rev : Nat, blockers : Nat, notified : Nat,
     stop : {"no", "requested", "stopped"}, stopTries : Nat]

RowType ==
    [state : ChildStates, task : BOOLEAN, owner : Processes \cup {Nobody}, live : BOOLEAN,
     fence : Nat, seen : Nat, fails : Nat, ask : 0..MaxQuestions, events : SUBSET Events]

\* Every row keeps its type, and the reserved budget stays within the total
\* the owner granted.
LedgerTypeOK ==
    /\ execution \in ExecutionType
    /\ plan \in [Generations -> Plans \cup {NoPlan}]
    /\ child \in [Attempts -> RowType]
    /\ now \in Nat
================================================================================
