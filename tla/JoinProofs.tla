------------------------------- MODULE JoinProofs -------------------------------
(***************************************************************************)
(* Theorems of WorkflowExecution about its joins, its blocker notices and  *)
(* the tasks behind its rows, for every value of the constants.            *)
(*                                                                         *)
(* What these properties relate (rows, remote tasks, what a process read   *)
(* and what the parent was told) is changed by different steps.  The first *)
(* part says once what any step may do to each: to a row (RowChange), the  *)
(* execution (ExecutionChange), a task (TaskChange), the parent            *)
(* (ParentChange), and by which action a process gets where it is          *)
(* (Arrives).  Each invariant then only looks at the few changes it names. *)
(***************************************************************************)
EXTENDS LifecycleProofs, WellFoundedInduction

\* An attempt that exists and was not retried.
Live(a) == child[a].state \notin {"none", "superseded"}

--------------------------------------------------------------------------------
(* What a step may do to one row.                                          *)

RowStays(a) ==
    /\ child'[a].state = child[a].state
    /\ child'[a].task = child[a].task
    /\ child'[a].fence = child[a].fence
    /\ child'[a].owner = child[a].owner
    /\ child'[a].live = child[a].live \/ LeasesExpire

\* The other changes keep the handle and the fence unless they say otherwise.
Kept(a) == child'[a].task = child[a].task /\ child'[a].fence = child[a].fence

Added(a) ==
    /\ child[a] = NoRow
    /\ child'[a] = ReservedRow
    /\ \/ a.gen = execution.gen + 1 /\ plan'[a.gen] \in Plans /\ a.key \in DOMAIN plan'[a.gen].deps
       \/ /\ \E p \in Processes : At(p, "retryCreate")
          /\ \E b \in Attempts : b.gen = a.gen /\ b.key = a.key /\ Live(b)

Claimed(a) ==
    \E p \in Processes :
        /\ At(p, "claim")
        /\ Claimable(a) /\ ExecutionClaims
        /\ child'[a].state = "launching" /\ child'[a].task = child[a].task
        /\ child'[a].fence = child[a].fence + 1
        /\ child'[a].owner = p /\ child'[a].live
        /\ proc'[p].pc = "launch"
        /\ [id |-> a, fence |-> child[a].fence + 1] \in proc'[p].claims

Attached(a) ==
    \E p \in Processes :
        /\ RecordHandle(p) /\ At(p, "handle") /\ proc[p].cur = a
        /\ \/ HandleAttaches(p, a, proc[p].fence) /\ child'[a].state = "submitted"
           \/ HandleArrivesCanceled(a, proc[p].fence) /\ child'[a].state = "canceling"
        /\ child'[a].task /\ child'[a].fence = child[a].fence

\* An attempt that becomes a blocker raises the blocker revision.
RaisesBlockers(a) ==
    child'[a].state \in {"blocked", "failed"} => execution'.blockers = execution.blockers + 1

Observed(a) ==
    \E p \in Processes :
        /\ proc[p].pc \in {"record", "answered"} /\ proc[p].cur = a
        /\ Present(a) /\ ~Terminal(a) /\ child[a].task
        /\ child'[a].state = ProjectedState(a, proc[p].obs)
        /\ Kept(a) /\ RaisesBlockers(a)

Overdue(a) ==
    \E p \in Processes :
        /\ \/ At(p, "expired") /\ proc[p].cur = a
           \/ At(p, "expiring") /\ \E e \in proc[p].todo : e.id = a
        /\ Present(a) /\ ~Terminal(a)
        /\ child'[a].state = "failed"
        /\ Kept(a) /\ RaisesBlockers(a)

\* A poll or a cancel request that fails is a fault, unless the task is finished.
Excused(a) == TaskTerminal(task[a]) \/ faults' = faults + 1

GivenUp(a) ==
    /\ Present(a) /\ ~Terminal(a)
    /\ child[a].fails + 1 >= MaxReconcileFailures
    /\ Excused(a)
    /\ child[a].task
    /\ child'[a].state = "failed"
    /\ Kept(a) /\ RaisesBlockers(a)

CalledOff(a) ==
    /\ Present(a) /\ ~Terminal(a)
    /\ execution'.cancel
    /\ child'[a].state = IF child[a].state \in {"reserved", "launching"}
                         THEN "canceled" ELSE "canceling"
    /\ Kept(a)

Replaced(a) ==
    /\ \E p \in Processes : At(p, "retryCreate") /\ proc[p].cur = a
    /\ ~execution.cancel
    /\ Live(a) /\ child[a].state \notin QueuedStates
    /\ child'[a].state = "superseded"
    /\ Kept(a)
    /\ \E b \in Attempts : b.gen = a.gen /\ b.key = a.key /\ Live(b)'

RowChange(a) ==
    \/ RowStays(a) \/ Added(a) \/ Claimed(a) \/ Attached(a) \/ Observed(a)
    \/ Overdue(a) \/ GivenUp(a) \/ CalledOff(a) \/ Replaced(a)

\* A failure count grows by one with a fault, or when the task is finished.
FailsChange(a) ==
    \/ child'[a].fails <= child[a].fails
    \/ child'[a].fails = child[a].fails + 1 /\ Excused(a)

--------------------------------------------------------------------------------
(* What a step may do to the execution.                                    *)

\* A process at "update" writes its target, if the row is the one it read.
Projects(p) ==
    /\ At(p, "update")
    /\ execution.rev = proc[p].snap.rev
    /\ execution'.state = proc[p].target.state
    /\ execution'.reason = proc[p].target.reason
    /\ execution'.cancel = execution.cancel

\* The next generation is reserved, or the generations stay.
GenerationChange ==
    \/ execution'.gen = execution.gen /\ execution'.reserved = execution.reserved /\ plan' = plan
    \/ \E pl \in Plans :
          /\ execution.gen + 1 \in Generations
          /\ ~execution.cancel
          /\ execution'.gen = execution.gen + 1
          /\ execution'.reserved = execution.reserved + pl.units
          /\ execution'.reserved <= TotalUnits
          /\ execution'.rev > execution.rev
          /\ execution'.reason = "awaiting_children"
          /\ plan' = [plan EXCEPT ![execution.gen + 1] = pl]
          /\ \A a \in Attempts :
                a.gen = execution.gen + 1 /\ a.key \in DOMAIN pl.deps /\ a.attempt = 1
                    => child'[a] = ReservedRow

RevisionChange ==
    /\ execution'.rev >= execution.rev
    /\ execution.cancel => execution'.cancel
    /\ execution'.rev = execution.rev => execution'.cancel = execution.cancel

StateChange ==
    \/ execution'.state = execution.state /\ execution'.cancel = execution.cancel
    \/ execution'.cancel /\ execution'.state \in {"canceling", "canceled", "failed"}
    \/ ~execution.cancel /\ ~execution'.cancel
    \/ \E p \in Processes : Projects(p)

\* Only a projection writes a reason that speaks of a wait or of a join, and an
\* open execution keeps its reason only as long as it keeps its state.
ReasonChange ==
    \/ /\ execution'.reason = execution.reason
       /\ \/ ExecutionTerminal
          \/ execution'.state = execution.state /\ execution'.cancel = execution.cancel
    \/ execution'.reason \notin WaitReasons \cup {"children_contract_valid"}
    \/ \E p \in Processes : Projects(p)

BlockersChange ==
    /\ execution'.blockers \in {execution.blockers, execution.blockers + 1}
    /\ \/ execution'.notified = execution.notified
       \/ \E p \in Processes :
             /\ At(p, "notified")
             /\ execution.blockers = proc[p].snap.blockers
             /\ execution'.blockers = execution.blockers
             /\ execution'.notified = proc[p].snap.blockers

ExecutionChange ==
    GenerationChange /\ RevisionChange /\ StateChange /\ ReasonChange /\ BlockersChange

LedgerChange ==
    /\ \A a \in Attempts : RowChange(a) /\ FailsChange(a)
    /\ ExecutionChange

--------------------------------------------------------------------------------
(* What a step may do to the remote side.                                  *)

TaskChange(a) ==
    \/ task'[a] = task[a]
    \/ /\ task[a].state = "none" /\ task'[a].state = "working"
       /\ \E p \in Processes : At(p, "launch") /\ \E c \in proc[p].claims : c.id = a
    \/ Unfinished(task[a]) /\ task'[a].state # "none"

ParentChange ==
    \/ /\ parent'.joined = parent.joined
       /\ parent'.hollow = parent.hollow
       /\ parent'.notices = parent.notices
    \/ \E p \in Processes : At(p, "resume") /\ parent' = Resumed(p)
    \/ \E p \in Processes : At(p, "send") /\ parent' = Notified(p)

RemoteChange ==
    /\ \A a \in Attempts : TaskChange(a)
    /\ ParentChange
    /\ faults' = faults \/ (faults < MaxFaults /\ faults' = faults + 1)
    /\ now' = now \/ (now < MaxNow /\ now' = now + 1)

--------------------------------------------------------------------------------
(* The transactions, as changes of the ledger.                             *)

\* A row that is left alone stays, and so does its failure count.
LEMMA SameRow ==
  ASSUME LedgerInv, NEW a \in Attempts, child'[a] = child[a]
  PROVE  RowChange(a) /\ FailsChange(a)
<1>1. child[a].fails \in Nat
  BY DEF LedgerInv, LedgerTypeOK, RowType
<1> QED
  BY <1>1 DEF RowChange, RowStays, FailsChange

\* The execution row is left alone.
LEMMA SameExecution ==
  ASSUME LedgerInv, execution' = execution, plan' = plan
  PROVE  ExecutionChange
<1>1. execution.rev \in Nat
  BY ExecutionFields DEF LedgerInv, LedgerTypeOK
<1> QED
  BY <1>1 DEF ExecutionChange, GenerationChange, RevisionChange, StateChange, ReasonChange,
     BlockersChange

\* A step without a transaction changes nothing.
LEMMA NoLedgerChange ==
  ASSUME LedgerInv, UNCHANGED ledger
  PROVE  LedgerChange
<1>1. ExecutionChange
  BY SameExecution DEF ledger
<1>2. \A a \in Attempts : RowChange(a) /\ FailsChange(a)
  BY SameRow DEF ledger
<1> QED
  BY <1>1, <1>2 DEF LedgerChange

\* A claim launches attempts whose dependencies completed, and its process
\* holds what it claimed.
LEMMA ClaimLaunchesChanges ==
  ASSUME SInv, NEW p \in Processes, ClaimLaunches(p)
  PROVE  LedgerChange
<1>1. PICK S \in ClaimableBatches :
         /\ claim_launches(p, S)
         /\ Become(p, IF S = {} THEN Idle
                      ELSE [Idle EXCEPT
                              !.pc = "launch",
                              !.claims = {[id |-> a, fence |-> child[a].fence + 1] : a \in S}])
  BY DEF ClaimLaunches
<1>2. LedgerInv /\ At(p, "claim")
  BY DEF SInv, IInv, ClaimLaunches
<1>3. S \subseteq Attempts /\ \A a \in S : ExecutionClaims /\ Claimable(a)
  BY DEF ClaimableBatches
<1>4. ASSUME NEW a \in S
      PROVE  RowChange(a) /\ FailsChange(a)
  <2>1. child[a] \in RowType
    BY <1>2, <1>3 DEF LedgerInv, LedgerTypeOK
  <2>2. child'[a] = [child[a] EXCEPT !.state = "launching", !.owner = p,
                                     !.live = TRUE, !.fence = @ + 1]
    BY <1>1, <1>3 DEF claim_launches
  <2>3. /\ child'[a].state = "launching" /\ child'[a].task = child[a].task
        /\ child'[a].fence = child[a].fence + 1 /\ child'[a].owner = p /\ child'[a].live
        /\ child'[a].fails = child[a].fails /\ child[a].fails \in Nat
    BY <2>1, <2>2 DEF RowType
  <2>4. /\ proc'[p].pc = "launch"
        /\ [id |-> a, fence |-> child[a].fence + 1] \in proc'[p].claims
    <3> DEFINE claims == {[id |-> b, fence |-> child[b].fence + 1] : b \in S}
    <3>1. [id |-> a, fence |-> child[a].fence + 1] \in claims
      OBVIOUS
    <3>2. Become(p, [Idle EXCEPT !.pc = "launch", !.claims = claims])
      BY <1>1
    <3> HIDE DEF claims
    <3>3. proc'[p].claims = claims /\ proc'[p].pc = "launch"
      BY <3>2 DEF Become, Idle, SInv, IInv
    <3> QED
      BY <3>1, <3>3
  <2>5. Claimed(a)
    BY <1>2, <1>3, <2>3, <2>4 DEF Claimed
  <2> QED
    BY <2>3, <2>5 DEF RowChange, FailsChange
<1>5. ASSUME NEW a \in Attempts, a \notin S
      PROVE  child'[a] = child[a]
  BY <1>1, <1>5 DEF claim_launches
<1>6. ExecutionChange
  BY <1>1, <1>2, SameExecution DEF claim_launches
<1> QED
  BY <1>2, <1>4, <1>5, <1>6, SameRow DEF LedgerChange

\* A lease runs out only where leases expire.
LEMMA LeaseChanges ==
  ASSUME SInv, LeaseRunsOut
  PROVE  LedgerChange
<1>1. PICK a \in Attempts : LeaseExpires(a)
  BY DEF LeaseRunsOut
<1>2. LedgerInv
  BY DEF SInv, IInv
<1>3. ASSUME NEW b \in Attempts
      PROVE  RowChange(b) /\ FailsChange(b)
  <2>1. CASE b # a
    <3>1. child'[b] = child[b]
      BY <1>1, <1>2, <2>1 DEF LeaseExpires, LedgerInv, LedgerTypeOK
    <3> QED
      BY <1>2, <3>1, SameRow
  <2>2. CASE b = a
    <3>1. child[a] \in RowType
      BY <1>2 DEF LedgerInv, LedgerTypeOK
    <3>2. child'[a] = [child[a] EXCEPT !.live = FALSE]
      BY <1>1, <1>2 DEF LeaseExpires, LedgerInv, LedgerTypeOK
    <3>3. /\ child'[a].state = child[a].state /\ child'[a].task = child[a].task
          /\ child'[a].fence = child[a].fence /\ child'[a].owner = child[a].owner
          /\ child'[a].fails = child[a].fails /\ child[a].fails \in Nat
      BY <3>1, <3>2 DEF RowType
    <3> QED
      BY <2>2, <3>3 DEF RowChange, RowStays, FailsChange, LeaseRunsOut
  <2> QED
    BY <2>1, <2>2
<1>4. ExecutionChange
  BY <1>1, <1>2, SameExecution DEF LeaseExpires
<1> QED
  BY <1>3, <1>4 DEF LedgerChange

\* A handle attaches, or arrives at a canceled row, or is refused.
LEMMA RecordHandleChanges ==
  ASSUME SInv, NEW p \in Processes, RecordHandle(p)
  PROVE  LedgerChange
<1> DEFINE a == proc[p].cur
<1> DEFINE s == IF HandleAttaches(p, a, proc[p].fence) THEN "submitted" ELSE "canceling"
<1>1. LedgerInv /\ At(p, "handle") /\ LocalOK(proc[p], child, task)
  BY DEF SInv, IInv, RecordHandle
<1>2. a \in Attempts
  BY <1>1 DEF LocalOK, WithAttempt, At
<1>3. CASE UNCHANGED ledger
  BY <1>1, <1>3, NoLedgerChange
<1>4. CASE record_handle(p, a, proc[p].fence)
  <2>1. \A b \in Attempts : child[b] \in RowType
    BY <1>1 DEF LedgerInv, LedgerTypeOK
  <2>2. child' = [child EXCEPT ![a] = [child[a] EXCEPT !.state = s, !.task = TRUE,
                                                       !.owner = Nobody, !.live = FALSE]]
    BY <1>1, <1>2, <1>4 DEF record_handle, LedgerInv, LedgerTypeOK
  <2>3. child'[a] = [child[a] EXCEPT !.state = s, !.task = TRUE, !.owner = Nobody, !.live = FALSE]
    BY <1>1, <1>2, <2>2 DEF LedgerInv, LedgerTypeOK
  <2>4. /\ child'[a].state = s /\ child'[a].task /\ child'[a].fence = child[a].fence
        /\ child'[a].fails = child[a].fails /\ child[a].fails \in Nat
    <3> HIDE DEF s
    <3> QED
      BY <1>2, <2>1, <2>3 DEF RowType
  <2>5. Attached(a)
    BY <1>1, <1>4, <2>4 DEF Attached, record_handle
  <2>6. ASSUME NEW b \in Attempts, b # a
        PROVE  child'[b] = child[b]
    BY <1>1, <2>2, <2>6 DEF LedgerInv, LedgerTypeOK
  <2>7. ExecutionChange
    BY <1>1, <1>4, SameExecution DEF record_handle
  <2>8. RowChange(a) /\ FailsChange(a)
    BY <2>4, <2>5 DEF RowChange, FailsChange
  <2> QED
    BY <1>1, <2>6, <2>7, <2>8, SameRow DEF LedgerChange
<1> QED
  BY <1>3, <1>4 DEF RecordHandle

\* An execution of which only the blocker revision moves up, by one at most.
LEMMA BlockersOnly ==
  ASSUME LedgerInv, plan' = plan,
         execution' \in {execution, [execution EXCEPT !.blockers = @ + 1]}
  PROVE  ExecutionChange
<1>1. execution \in ExecutionType /\ execution.rev \in Nat
  BY ExecutionFields DEF LedgerInv, LedgerTypeOK
<1>2. /\ execution'.gen = execution.gen /\ execution'.reserved = execution.reserved
      /\ execution'.rev = execution.rev /\ execution'.cancel = execution.cancel
      /\ execution'.state = execution.state /\ execution'.reason = execution.reason
      /\ execution'.blockers \in {execution.blockers, execution.blockers + 1}
      /\ execution'.notified = execution.notified
  BY <1>1 DEF ExecutionType
<1> QED
  BY <1>1, <1>2 DEF ExecutionChange, GenerationChange, RevisionChange, StateChange, ReasonChange,
     BlockersChange

\* An observation is ignored, or projects its state on a row that is not finished.
LEMMA ObservationMoves ==
  ASSUME LedgerInv, NEW a \in Attempts, NEW obs \in Observations, record_observation(a, obs)
  PROVE  /\ ExecutionChange
         /\ \A b \in Attempts : b # a => child'[b] = child[b]
         /\ child'[a].fails = 0
         /\ \/ RowStays(a)
            \/ /\ ~Terminal(a)
               /\ child'[a].state = ProjectedState(a, obs)
               /\ Kept(a) /\ RaisesBlockers(a)
<1>1. child[a] \in RowType /\ execution \in ExecutionType /\ plan' = plan
  BY DEF LedgerInv, LedgerTypeOK, record_observation
<1>2. ExecutionChange
  BY BlockersOnly DEF record_observation, ApplyObservation
<1>3. \A b \in Attempts : b # a => child'[b] = child[b]
  BY DEF record_observation, ApplyObservation, LedgerInv, LedgerTypeOK
<1>4. CASE child' = [child EXCEPT ![a].fails = 0, ![a].events = @ \cup {obs.event}]
  <2>1. child'[a] = [child[a] EXCEPT !.fails = 0, !.events = @ \cup {obs.event}]
    BY <1>4 DEF LedgerInv, LedgerTypeOK
  <2>2. /\ child'[a].state = child[a].state /\ child'[a].task = child[a].task
        /\ child'[a].fence = child[a].fence /\ child'[a].owner = child[a].owner
        /\ child'[a].live = child[a].live /\ child'[a].fails = 0
    BY <1>1, <2>1 DEF RowType
  <2> QED
    BY <1>2, <1>3, <2>2 DEF RowStays
<1>5. CASE ~ObservationIgnored(a, obs) /\ ApplyObservation(a, obs)
  <2> DEFINE s == ProjectedState(a, obs)
  <2>1. child'[a] = [child[a] EXCEPT !.state = s, !.seen = obs.at, !.ask = obs.event.ask,
                                     !.fails = 0, !.events = @ \cup {obs.event}]
    BY <1>5 DEF ApplyObservation, LedgerInv, LedgerTypeOK
  <2>2. /\ child'[a].state = s /\ child'[a].task = child[a].task
        /\ child'[a].fence = child[a].fence /\ child'[a].fails = 0
    BY <1>1, <2>1 DEF RowType
  <2>3. s \in {"blocked", "failed"} => execution'.blockers = execution.blockers + 1
    BY <1>1, <1>5 DEF ApplyObservation, BlockerChanged, ExecutionType
  <2>4. ~Terminal(a)
    BY <1>5 DEF ObservationIgnored
  <2> QED
    BY <1>2, <1>3, <2>2, <2>3, <2>4 DEF Kept, RaisesBlockers
<1> QED
  BY <1>4, <1>5 DEF record_observation

\* What a poll, a reply or the cancel request of a retry was answered.
LEMMA RecordChanges ==
  ASSUME SInv, NEW p \in Processes, RecordPolled(p) \/ RecordAnswer(p)
  PROVE  LedgerChange
<1> DEFINE a == proc[p].cur
<1>1. /\ LedgerInv /\ proc[p].pc \in {"record", "answered"} /\ LocalOK(proc[p], child, task)
      /\ proc[p].obs \in Observations
      /\ record_observation(a, proc[p].obs)
  BY LocalFields DEF SInv, IInv, RecordPolled, RecordAnswer, At
<1>2. a \in Attempts /\ Present(a) /\ child[a].task
  BY <1>1 DEF LocalOK, WithAttempt, WithHandle, Present
<1>3. child[a].fails \in Nat
  BY <1>1, <1>2 DEF LedgerInv, LedgerTypeOK, RowType
<1>4. /\ ExecutionChange
      /\ \A b \in Attempts : b # a => child'[b] = child[b]
      /\ child'[a].fails = 0
      /\ \/ RowStays(a)
         \/ /\ ~Terminal(a)
            /\ child'[a].state = ProjectedState(a, proc[p].obs)
            /\ Kept(a) /\ RaisesBlockers(a)
  BY <1>1, <1>2, ObservationMoves
<1>5. RowChange(a) /\ FailsChange(a)
  BY <1>1, <1>2, <1>3, <1>4 DEF RowChange, FailsChange, Observed
<1> QED
  BY <1>1, <1>4, <1>5, SameRow DEF LedgerChange

\* The report of an overdue attempt fails it, if anything.
LEMMA DeadlineMoves ==
  ASSUME LedgerInv, NEW a \in Attempts, Present(a), NEW at \in Nat,
         record_observation(a, DeadlineReport(at)),
         NEW p \in Processes,
         \/ At(p, "expired") /\ proc[p].cur = a
         \/ At(p, "expiring") /\ \E e \in proc[p].todo : e.id = a
  PROVE  LedgerChange
<1>1. DeadlineReport(at) \in Observations /\ ProjectedState(a, DeadlineReport(at)) = "failed"
  BY DeadlineReportTyped DEF ProjectedState, TERMINAL_CHILD_STATES
<1>2. child[a].fails \in Nat
  BY DEF LedgerInv, LedgerTypeOK, RowType
<1>3. /\ ExecutionChange
      /\ \A b \in Attempts : b # a => child'[b] = child[b]
      /\ child'[a].fails = 0
      /\ \/ RowStays(a)
         \/ ~Terminal(a) /\ child'[a].state = "failed" /\ Kept(a) /\ RaisesBlockers(a)
  BY <1>1, ObservationMoves
<1>4. RowChange(a) /\ FailsChange(a)
  BY <1>2, <1>3 DEF RowChange, FailsChange, Overdue
<1> QED
  BY <1>3, <1>4, SameRow DEF LedgerChange

\* A failed poll or cancel request counts, and in the end gives the child up.
LEMMA ReconcileErrorMoves ==
  ASSUME LedgerInv, NEW a \in Attempts, Present(a), child[a].task, Excused(a),
         record_reconcile_error(a)
  PROVE  LedgerChange
<1>1. child[a] \in RowType /\ execution \in ExecutionType /\ plan' = plan
  BY DEF LedgerInv, LedgerTypeOK, record_reconcile_error
<1>2. ExecutionChange
  BY BlockersOnly DEF record_reconcile_error
<1>3. \A b \in Attempts : b # a => child'[b] = child[b]
  BY DEF record_reconcile_error, LedgerInv, LedgerTypeOK
<1>4. CASE child' = child
  BY <1>2, <1>4, SameRow DEF LedgerChange
<1>5. CASE child' = [child EXCEPT ![a].fails = @ + 1]
  <2>1. child'[a] = [child[a] EXCEPT !.fails = @ + 1]
    BY <1>5 DEF LedgerInv, LedgerTypeOK
  <2>2. /\ child'[a].state = child[a].state /\ child'[a].task = child[a].task
        /\ child'[a].fence = child[a].fence /\ child'[a].owner = child[a].owner
        /\ child'[a].live = child[a].live /\ child'[a].fails = child[a].fails + 1
    BY <1>1, <2>1 DEF RowType
  <2>3. RowChange(a) /\ FailsChange(a)
    BY <2>2 DEF RowChange, RowStays, FailsChange
  <2> QED
    BY <1>2, <1>3, <2>3, SameRow DEF LedgerChange
<1>6. CASE /\ ~Terminal(a)
           /\ child[a].fails + 1 >= MaxReconcileFailures
           /\ child' = [child EXCEPT ![a].fails = @ + 1, ![a].state = "failed"]
           /\ execution' = [execution EXCEPT !.blockers = @ + 1]
  <2> DEFINE n == child[a].fails + 1
  <2>1. child'[a] = [child[a] EXCEPT !.fails = n, !.state = "failed"]
    BY <1>6 DEF LedgerInv, LedgerTypeOK
  <2>2. /\ child'[a].state = "failed" /\ child'[a].task = child[a].task
        /\ child'[a].fence = child[a].fence /\ child'[a].fails = n
    <3> HIDE DEF n
    <3> QED
      BY <1>1, <2>1 DEF RowType
  <2>3. execution'.blockers = execution.blockers + 1
    BY <1>1, <1>6 DEF ExecutionType
  <2>4. RowChange(a) /\ FailsChange(a)
    BY <1>6, <2>2, <2>3 DEF RowChange, GivenUp, Kept, RaisesBlockers, FailsChange
  <2> QED
    BY <1>2, <1>3, <2>4, SameRow DEF LedgerChange
<1> QED
  BY <1>4, <1>5, <1>6 DEF record_reconcile_error

\* A call that fails is a fault, or names a finished task.
LEMMA CallsExcused ==
  ASSUME NEW a, CancelFails(a) \/ PollFails
  PROVE  Excused(a)
  BY DEF CancelFails, PollFails, Fault, Excused

\* An overdue child is failed, or asked to stop first.
LEMMA ExpireChildChanges ==
  ASSUME SInv, NEW p \in Processes, ExpireChild(p)
  PROVE  LedgerChange
<1>1. PICK e \in proc[p].todo :
         \/ UNCHANGED <<execution, plan, child>>
         \/ e.flag /\ CancelFails(e.id) /\ record_reconcile_error(e.id)
         \/ record_observation(e.id, DeadlineReport(proc[p].at))
  BY DEF ExpireChild
<1>2. /\ proc[p] \in ProcessType /\ At(p, "expiring") /\ LocalOK(proc[p], child, task)
      /\ LifeOK(proc[p], child, execution.cancel) /\ LedgerInv
  BY DEF ExpireChild, SInv, IInv
<1>3. /\ e.id \in Attempts /\ Present(e.id) /\ proc[p].at \in Nat
      /\ e.flag => child[e.id].task
  BY <1>2, LocalFields DEF Items, LocalOK, LifeOK, Present, At
<1>4. CASE UNCHANGED <<execution, plan, child>>
  BY <1>2, <1>4, NoLedgerChange DEF ledger
<1>5. CASE e.flag /\ CancelFails(e.id) /\ record_reconcile_error(e.id)
  BY <1>2, <1>3, <1>5, CallsExcused, ReconcileErrorMoves
<1>6. CASE record_observation(e.id, DeadlineReport(proc[p].at))
  BY <1>1, <1>2, <1>3, <1>6, DeadlineMoves
<1> QED
  BY <1>1, <1>4, <1>5, <1>6

\* The one asked to stop is failed when its answer came.
LEMMA RecordExpiredChanges ==
  ASSUME SInv, NEW p \in Processes, RecordExpired(p)
  PROVE  LedgerChange
<1>1. /\ proc[p] \in ProcessType /\ At(p, "expired") /\ LocalOK(proc[p], child, task) /\ LedgerInv
  BY DEF RecordExpired, SInv, IInv
<1>2. proc[p].cur \in Attempts /\ Present(proc[p].cur) /\ proc[p].at \in Nat
  BY <1>1, LocalFields DEF LocalOK, WithAttempt, Present, At
<1> QED
  BY <1>1, <1>2, DeadlineMoves DEF RecordExpired

\* A poll that fails is counted on a row that has a handle.
LEMMA PollChildChanges ==
  ASSUME SInv, NEW p \in Processes, PollChild(p)
  PROVE  LedgerChange
<1>1. PICK e \in proc[p].todo :
         \/ UNCHANGED <<execution, plan, child>>
         \/ (CancelFails(e.id) \/ PollFails) /\ record_reconcile_error(e.id)
  BY DEF PollChild
<1>2. /\ proc[p] \in ProcessType /\ At(p, "poll") /\ LocalOK(proc[p], child, task) /\ LedgerInv
  BY DEF PollChild, SInv, IInv
<1>3. e.id \in Attempts /\ Present(e.id) /\ child[e.id].task
  BY <1>2, LocalFields DEF Items, LocalOK, Present, At
<1>4. CASE UNCHANGED <<execution, plan, child>>
  BY <1>2, <1>4, NoLedgerChange DEF ledger
<1>5. CASE (CancelFails(e.id) \/ PollFails) /\ record_reconcile_error(e.id)
  BY <1>2, <1>3, <1>5, CallsExcused, ReconcileErrorMoves
<1> QED
  BY <1>1, <1>4, <1>5

\* Stopping the children calls off each that is not finished.
LEMMA StopMoves ==
  ASSUME LedgerInv, StopChildren, execution'.cancel, NEW a \in Attempts
  PROVE  RowChange(a) /\ FailsChange(a)
<1>1. CASE ~Present(a) \/ Terminal(a)
  <2>1. child'[a] = child[a]
    BY <1>1 DEF StopChildren
  <2> QED
    BY <2>1, SameRow
<1>2. CASE Present(a) /\ ~Terminal(a)
  <2> DEFINE s == IF child[a].state \in {"reserved", "launching"} THEN "canceled" ELSE "canceling"
  <2>1. child'[a] = [child[a] EXCEPT !.state = s, !.owner = Nobody, !.live = FALSE]
    BY <1>2 DEF StopChildren
  <2>2. child[a] \in RowType
    BY DEF LedgerInv, LedgerTypeOK
  <2>3. /\ child'[a].state = s /\ child'[a].task = child[a].task
        /\ child'[a].fence = child[a].fence
        /\ child'[a].fails = child[a].fails /\ child[a].fails \in Nat
    <3> HIDE DEF s
    <3> QED
      BY <2>1, <2>2 DEF RowType
  <2> QED
    BY <1>2, <2>3 DEF RowChange, CalledOff, Kept, FailsChange
<1> QED
  BY <1>1, <1>2

\* A cancel request bumps the revision unless the row already says so.
LEMMA RequestCancelChanges ==
  ASSUME SInv, NEW p \in Processes, RequestCancel(p)
  PROVE  LedgerChange
<1>1. LedgerInv /\ execution \in ExecutionType /\ execution.rev \in Nat /\ execution.cancel \in BOOLEAN
  BY ExecutionFields DEF SInv, IInv, LedgerInv, LedgerTypeOK
<1>2. CASE UNCHANGED ledger
  BY <1>1, <1>2, NoLedgerChange
<1>3. CASE ~UNCHANGED ledger
  <2> DEFINE stop == IF execution.stop = "no" THEN "requested" ELSE execution.stop
  <2> DEFINE state == IF execution.state \in {"failed", "canceled"}
                      THEN execution.state ELSE "canceling"
  <2> DEFINE reason == IF execution.state \in {"failed", "canceled"}
                       THEN execution.reason ELSE "canceling_children"
  <2> DEFINE rev == IF execution.cancel THEN execution.rev ELSE execution.rev + 1
  <2>1. /\ execution' = [execution EXCEPT !.cancel = TRUE, !.stop = stop, !.state = state,
                                          !.reason = reason, !.rev = rev]
        /\ plan' = plan
        /\ StopChildren
    BY <1>1, <1>3 DEF RequestCancel, request_cancel, ExecutionType
  <2>2. /\ execution'.gen = execution.gen /\ execution'.reserved = execution.reserved
        /\ execution'.cancel /\ execution'.state = state /\ execution'.reason = reason
        /\ execution'.rev = rev
        /\ execution'.blockers = execution.blockers /\ execution'.notified = execution.notified
    <3> HIDE DEF stop, state, reason, rev
    <3> QED
      BY <1>1, <2>1 DEF ExecutionType
  <2>3. GenerationChange /\ BlockersChange
    BY <2>1, <2>2 DEF GenerationChange, BlockersChange
  <2>4. RevisionChange
    <3>1. rev \in Nat /\ rev >= execution.rev
      BY <1>1
    <3>2. rev = execution.rev => execution.cancel
      BY <1>1
    <3> HIDE DEF rev
    <3>3. execution'.cancel \in BOOLEAN
      BY <1>1, <2>1, ExecutionUpdate DEF ExecutionType
    <3> QED
      BY <1>1, <2>2, <3>1, <3>2, <3>3 DEF RevisionChange
  <2>5. StateChange
    BY <2>2 DEF StateChange
  <2>6. ReasonChange
    BY <2>2 DEF ReasonChange, WaitReasons, ExecutionTerminal, TERMINAL_EXECUTION_STATES
  <2>7. \A a \in Attempts : RowChange(a) /\ FailsChange(a)
    BY <1>1, <2>1, <2>2, StopMoves
  <2> QED
    BY <2>3, <2>4, <2>5, <2>6, <2>7 DEF LedgerChange, ExecutionChange
<1> QED
  BY <1>2, <1>3

\* An execution that fails is canceled, and its revision goes up.
LEMMA FailExpiredExecutionChanges ==
  ASSUME SInv, NEW p \in Processes, FailExpiredExecution(p)
  PROVE  LedgerChange
<1>1. LedgerInv /\ execution \in ExecutionType /\ execution.rev \in Nat
  BY ExecutionFields DEF SInv, IInv, LedgerInv, LedgerTypeOK
<1>2. CASE UNCHANGED ledger
  BY <1>1, <1>2, NoLedgerChange
<1>3. CASE fail_execution(proc[p].snap.rev)
  <2>1. /\ execution'.gen = execution.gen /\ execution'.reserved = execution.reserved
        /\ execution'.cancel /\ execution'.state = "failed"
        /\ execution'.reason = "deadline_exceeded"
        /\ execution'.rev = execution.rev + 1
        /\ execution'.blockers = execution.blockers /\ execution'.notified = execution.notified
    BY <1>1, <1>3 DEF fail_execution, ExecutionType
  <2>2. ~execution.cancel /\ plan' = plan
    BY <1>3 DEF fail_execution, FailureAccepted
  <2>3. GenerationChange /\ BlockersChange
    BY <2>1, <2>2 DEF GenerationChange, BlockersChange
  <2>4. RevisionChange
    <3>1. execution'.rev >= execution.rev /\ execution'.rev # execution.rev
      BY <1>1, <2>1
    <3> QED
      BY <2>1, <3>1 DEF RevisionChange
  <2>5. StateChange /\ ReasonChange
    BY <2>1 DEF StateChange, ReasonChange, WaitReasons
  <2>6. \A a \in Attempts : RowChange(a) /\ FailsChange(a)
    BY <1>1, <1>3, <2>1, StopMoves DEF fail_execution
  <2> QED
    BY <2>3, <2>4, <2>5, <2>6 DEF LedgerChange, ExecutionChange
<1> QED
  BY <1>2, <1>3 DEF FailExpiredExecution

\* The writes of the execution row alone.
LEMMA ExecutionWritesChange ==
  ASSUME SInv, NEW p \in Processes,
         StopParent(p) \/ MarkParentStopped(p) \/ UpdateState(p) \/ MarkNotified(p) \/ Complete(p)
  PROVE  LedgerChange
<1>1. /\ LedgerInv /\ execution \in ExecutionType /\ execution.rev \in Nat
      /\ execution.cancel \in BOOLEAN /\ execution.stop \in {"no", "requested", "stopped"}
  BY ExecutionFields DEF SInv, IInv, LedgerInv, LedgerTypeOK
<1>2. plan' = plan /\ child' = child
  BY DEF StopParent, MarkParentStopped, UpdateState, MarkNotified, Complete, ledger,
     record_parent_stop_error, mark_parent_stopped, update_execution_state,
     mark_blocker_notification, complete
<1>3. CASE execution' = execution
  BY <1>1, <1>2, <1>3, NoLedgerChange DEF ledger
<1>4. ASSUME StopParent(p) \/ MarkParentStopped(p), execution' # execution
      PROVE  ExecutionChange
  <2> DEFINE stop == IF execution.stopTries + 1 >= MaxStopFailures THEN "stopped" ELSE execution.stop
  <2>1. \/ execution' = [execution EXCEPT !.stop = "stopped"]
        \/ execution' = [execution EXCEPT !.stopTries = @ + 1, !.stop = stop]
    BY <1>1, <1>4 DEF StopParent, MarkParentStopped, record_parent_stop_error, mark_parent_stopped,
       ExecutionType
  <2> HIDE DEF stop
  <2>2. /\ execution'.gen = execution.gen /\ execution'.reserved = execution.reserved
        /\ execution'.rev = execution.rev /\ execution'.cancel = execution.cancel
        /\ execution'.state = execution.state /\ execution'.reason = execution.reason
        /\ execution'.blockers = execution.blockers /\ execution'.notified = execution.notified
    BY <1>1, <2>1 DEF ExecutionType
  <2> QED
    BY <1>1, <1>2, <2>2 DEF ExecutionChange, GenerationChange, RevisionChange, StateChange,
       ReasonChange, BlockersChange
<1>5. ASSUME UpdateState(p), execution' # execution
      PROVE  ExecutionChange
  <2>1. /\ At(p, "update") /\ execution.rev = proc[p].snap.rev
        /\ execution' = [execution EXCEPT !.state = proc[p].target.state,
                                          !.reason = proc[p].target.reason, !.rev = @ + 1]
    BY <1>5 DEF UpdateState, update_execution_state, UpdateAccepted, ledger
  <2>2. /\ execution'.gen = execution.gen /\ execution'.reserved = execution.reserved
        /\ execution'.rev = execution.rev + 1 /\ execution'.cancel = execution.cancel
        /\ execution'.state = proc[p].target.state /\ execution'.reason = proc[p].target.reason
        /\ execution'.blockers = execution.blockers /\ execution'.notified = execution.notified
    BY <1>1, <2>1 DEF ExecutionType
  <2>3. Projects(p)
    BY <2>1, <2>2 DEF Projects
  <2> QED
    BY <1>1, <1>2, <2>2, <2>3 DEF ExecutionChange, GenerationChange, RevisionChange, StateChange,
       ReasonChange, BlockersChange
<1>6. ASSUME MarkNotified(p), execution' # execution
      PROVE  ExecutionChange
  <2>1. /\ At(p, "notified") /\ execution.blockers = proc[p].snap.blockers
        /\ execution' = [execution EXCEPT !.notified = proc[p].snap.blockers]
    BY <1>6 DEF MarkNotified, mark_blocker_notification
  <2>2. /\ execution'.gen = execution.gen /\ execution'.reserved = execution.reserved
        /\ execution'.rev = execution.rev /\ execution'.cancel = execution.cancel
        /\ execution'.state = execution.state /\ execution'.reason = execution.reason
        /\ execution'.blockers = execution.blockers
        /\ execution'.notified = proc[p].snap.blockers
    BY <1>1, <2>1 DEF ExecutionType
  <2> QED
    BY <1>1, <1>2, <2>1, <2>2 DEF ExecutionChange, GenerationChange, RevisionChange, StateChange,
       ReasonChange, BlockersChange
<1>7. ASSUME Complete(p)
      PROVE  ExecutionChange
  <2>1. /\ execution'.gen = execution.gen /\ execution'.reserved = execution.reserved
        /\ execution'.rev = execution.rev + 1 /\ execution'.cancel = execution.cancel
        /\ ~execution.cancel /\ execution'.reason = "delivery_merged"
        /\ execution'.blockers = execution.blockers /\ execution'.notified = execution.notified
    BY <1>1, <1>7 DEF Complete, complete, ExecutionType
  <2> QED
    BY <1>1, <1>2, <2>1 DEF ExecutionChange, GenerationChange, RevisionChange, StateChange,
       ReasonChange, BlockersChange, WaitReasons
<1>8. \A a \in Attempts : RowChange(a) /\ FailsChange(a)
  BY <1>1, <1>2, SameRow
<1> QED
  BY <1>3, <1>4, <1>5, <1>6, <1>7, <1>8 DEF LedgerChange

\* A reservation adds rows of the next generation, and grants its units.
LEMMA ReserveGenerationChanges ==
  ASSUME SInv, NEW p \in Processes, ReserveGeneration(p)
  PROVE  LedgerChange
<1>1. /\ LedgerInv /\ execution \in ExecutionType /\ execution.rev \in Nat
      /\ execution.reserved \in 0..TotalUnits /\ execution.gen \in 0..MaxGeneration
  BY ExecutionFields DEF SInv, IInv, LedgerInv, LedgerTypeOK
<1>2. CASE UNCHANGED ledger
  BY <1>1, <1>2, NoLedgerChange
<1>3. CASE /\ ReservationAccepted(proc[p].snap.rev, proc[p].plan)
           /\ reserve_generation(proc[p].plan)
  <2> DEFINE pl == proc[p].plan
  <2> DEFINE g == execution.gen + 1
  <2>1. pl \in Plans /\ pl.units \in Nat
    BY LedgerAssumption DEF ReserveGeneration, At, SInv, IInv, LocalOK
  <2>2. /\ execution' = [execution EXCEPT
                            !.gen = g, !.reserved = @ + pl.units, !.state = "waiting",
                            !.reason = "awaiting_children", !.rev = @ + 1]
        /\ plan' = [plan EXCEPT ![g] = pl]
        /\ child' = [a \in Attempts |->
                        IF a.gen = g /\ a.key \in DOMAIN pl.deps /\ a.attempt = 1
                        THEN ReservedRow ELSE child[a]]
    BY <1>3 DEF reserve_generation
  <2>3. /\ g \in Generations /\ ~execution.cancel /\ ~ExecutionTerminal
        /\ pl.units <= TotalUnits - execution.reserved
    BY <1>3 DEF ReservationAccepted
  <2> HIDE DEF pl, g
  <2>4. /\ execution'.gen = g /\ execution'.reserved = execution.reserved + pl.units
        /\ execution'.rev = execution.rev + 1 /\ execution'.cancel = execution.cancel
        /\ execution'.reason = "awaiting_children"
        /\ execution'.blockers = execution.blockers /\ execution'.notified = execution.notified
    BY <1>1, <2>2 DEF ExecutionType
  <2>5. execution'.reserved <= TotalUnits
    BY <1>1, <2>1, <2>3, <2>4, LedgerAssumption
  <2>6. GenerationChange
    <3>1. \A a \in Attempts :
             a.gen = g /\ a.key \in DOMAIN pl.deps /\ a.attempt = 1 => child'[a] = ReservedRow
      BY <2>2
    <3>2. execution'.rev > execution.rev
      BY <1>1, <2>4
    <3>3. /\ execution'.gen = execution.gen + 1
          /\ plan' = [plan EXCEPT ![execution.gen + 1] = pl]
          /\ execution.gen + 1 \in Generations
          /\ \A a \in Attempts :
                a.gen = execution.gen + 1 /\ a.key \in DOMAIN pl.deps /\ a.attempt = 1
                    => child'[a] = ReservedRow
      BY <2>2, <2>3, <2>4, <3>1 DEF g
    <3> QED
      BY <2>1, <2>3, <2>4, <2>5, <3>2, <3>3 DEF GenerationChange
  <2>7. ExecutionChange
    BY <1>1, <2>3, <2>4, <2>6 DEF ExecutionChange, RevisionChange, StateChange, ReasonChange,
       BlockersChange, WaitReasons
  <2>8. ASSUME NEW a \in Attempts
        PROVE  RowChange(a) /\ FailsChange(a)
    <3>1. CASE a.gen = g /\ a.key \in DOMAIN pl.deps /\ a.attempt = 1
      <4>1. ~Present(a) /\ child[a] = NoRow
        BY <1>1, <3>1, AttemptVersions DEF g, LedgerInv, RowsInGenerations, AbsentRowsEmpty, Generations
      <4>2. child'[a] = ReservedRow
        BY <2>2, <3>1
      <4>3. plan'[g] = pl
        BY <1>1, <2>2, <2>3 DEF LedgerInv, LedgerTypeOK
      <4>4. Added(a)
        BY <2>1, <3>1, <4>1, <4>2, <4>3 DEF Added, g
      <4>5. NoRow.fails = 0 /\ ReservedRow.fails = 0
        BY DEF NoRow, ReservedRow
      <4> QED
        BY <4>1, <4>2, <4>4, <4>5 DEF RowChange, FailsChange
    <3>2. CASE ~(a.gen = g /\ a.key \in DOMAIN pl.deps /\ a.attempt = 1)
      <4>1. child'[a] = child[a]
        BY <2>2, <3>2
      <4> QED
        BY <1>1, <4>1, SameRow
    <3> QED
      BY <3>1, <3>2
  <2> QED
    BY <2>7, <2>8 DEF LedgerChange
<1> QED
  BY <1>2, <1>3 DEF ReserveGeneration

\* A retry replaces an attempt by the next one of its child.
LEMMA CreateRetryChanges ==
  ASSUME SInv, NEW p \in Processes, CreateRetry(p)
  PROVE  LedgerChange
<1> DEFINE a == proc[p].cur
<1> DEFINE next == [a EXCEPT !.attempt = @ + 1]
<1>1. LedgerInv /\ LifeInv /\ LocalOK(proc[p], child, task) /\ At(p, "retryCreate")
  BY DEF SInv, IInv, CreateRetry
<1>2. a \in Attempts /\ a.attempt < MaxAttempts
  BY <1>1 DEF LocalOK, WithAttempt, ToRetry, At
<1>3. CASE UNCHANGED ledger
  BY <1>1, <1>3, NoLedgerChange
<1>4. CASE create_retry(a)
  <2>1. a.attempt \in 1..MaxAttempts /\ a.attempt + 1 \in 1..MaxAttempts
    BY <1>2, AttemptVersions, LedgerAssumption
  <2>2. /\ next \in Attempts /\ next.gen = a.gen /\ next.key = a.key
        /\ next.attempt = a.attempt + 1
        /\ next = [a EXCEPT !.attempt = next.attempt]
    BY <1>2, <2>1, AttemptVersions DEF Attempts
  <2>3. child' = [child EXCEPT ![a] = [child[a] EXCEPT !.state = "superseded"],
                               ![next] = ReservedRow]
    BY <1>1, <1>4 DEF create_retry, LedgerInv, LedgerTypeOK
  <2>4. execution' = execution /\ plan' = plan /\ ~execution.cancel /\ Latest(a)
    BY <1>4 DEF create_retry, RetryAccepted
  <2> HIDE DEF next
  <2>5. next # a
    BY <2>1, <2>2
  <2>6. /\ child'[a] = [child[a] EXCEPT !.state = "superseded"] /\ child'[next] = ReservedRow
        /\ \A b \in Attempts : b # a /\ b # next => child'[b] = child[b]
    BY <1>1, <1>2, <2>2, <2>3, <2>5 DEF LedgerInv, LedgerTypeOK
  <2>7. Live(a)
    BY <1>1, <1>2, <2>4 DEF Live, LifeInv, SupersededIsReplaced, Latest, Present
  <2>8. ~Present(next)
    BY <2>1, <2>2, <2>4 DEF Latest
  <2>9. child[next] = NoRow
    BY <1>1, <2>2, <2>8 DEF LedgerInv, AbsentRowsEmpty
  <2>10. child[a] \in RowType
    BY <1>1, <1>2 DEF LedgerInv, LedgerTypeOK
  <2>11. /\ child'[a].state = "superseded" /\ child'[a].task = child[a].task
         /\ child'[a].fence = child[a].fence
         /\ child'[a].fails = child[a].fails /\ child[a].fails \in Nat
    BY <2>6, <2>10 DEF RowType
  <2>12. \E b \in Attempts : b.gen = a.gen /\ b.key = a.key /\ Live(b)'
    BY <2>2, <2>6, RowsTyped DEF Live
  <2>13. RowChange(a) /\ FailsChange(a)
    <3>1. child[a].state \notin QueuedStates
      BY <1>1 DEF SInv, LifeOK, ToRetry, At
    <3>2. Replaced(a)
      BY <1>1, <1>2, <2>4, <2>7, <2>11, <2>12, <3>1 DEF Replaced, Kept
    <3> QED
      BY <2>11, <3>2 DEF RowChange, FailsChange
  <2>14. RowChange(next) /\ FailsChange(next)
    <3>1. NoRow.fails = 0 /\ ReservedRow.fails = 0
      BY DEF NoRow, ReservedRow
    <3> QED
      BY <1>1, <1>2, <2>2, <2>6, <2>7, <2>9, <3>1 DEF RowChange, Added, FailsChange
  <2>15. ExecutionChange
    BY <1>1, <2>4, SameExecution
  <2> QED
    BY <1>1, <2>6, <2>13, <2>14, <2>15, SameRow DEF LedgerChange
<1> QED
  BY <1>3, <1>4 DEF CreateRetry

\* The steps that run no transaction.
LEMMA LocalSteps ==
  ASSUME NEW p \in Processes,
         \/ BeginExpand(p) \/ LaunchChild(p) \/ BeginReconcile(p) \/ ListExpired(p)
         \/ ListExpiredExecution(p) \/ ListReconcilable(p)
         \/ ReadExecution(p) \/ ReadChildren(p) \/ ReadJoin(p)
         \/ ResumeParent(p) \/ ReadBlockers(p) \/ NotifyParent(p)
         \/ BeginRetry(p) \/ PollBeforeRetry(p) \/ CancelBeforeRetry(p)
         \/ ReserveMessage(p) \/ ReplyChild(p) \/ MarkMessageDelivered(p) \/ Crash(p)
  PROVE  UNCHANGED ledger
<1>1. CASE \/ BeginExpand(p) \/ LaunchChild(p) \/ BeginReconcile(p) \/ ListExpired(p)
           \/ ListExpiredExecution(p) \/ ListReconcilable(p)
  BY <1>1 DEF ledger, BeginExpand, LaunchChild, BeginReconcile, ListExpired,
     ListExpiredExecution, ListReconcilable
<1>2. CASE \/ ReadExecution(p) \/ ReadChildren(p) \/ ReadJoin(p)
           \/ ResumeParent(p) \/ ReadBlockers(p) \/ NotifyParent(p)
  BY <1>2 DEF ledger, ReadExecution, ReadChildren, ReadJoin, ResumeParent, ReadBlockers,
     NotifyParent
<1>3. CASE \/ BeginRetry(p) \/ PollBeforeRetry(p) \/ CancelBeforeRetry(p)
           \/ ReserveMessage(p) \/ ReplyChild(p) \/ MarkMessageDelivered(p) \/ Crash(p)
  BY <1>3 DEF ledger, BeginRetry, PollBeforeRetry, CancelBeforeRetry, ReserveMessage,
     ReplyChild, MarkMessageDelivered, Crash
<1> QED
  BY <1>1, <1>2, <1>3

\* What any step of the service does to the ledger.
LEMMA LedgerSteps ==
  ASSUME SInv, [Next]_vars
  PROVE  LedgerChange
<1>1. LedgerInv
  BY DEF SInv, IInv
<1>2. ASSUME NEW p \in Processes, WorkerStep(p) \/ RequestStep(p) \/ Crash(p)
      PROVE  LedgerChange
  <2>1. CASE \/ BeginExpand(p) \/ LaunchChild(p) \/ BeginReconcile(p) \/ ListExpired(p)
             \/ ListExpiredExecution(p) \/ ListReconcilable(p)
             \/ ReadExecution(p) \/ ReadChildren(p) \/ ReadJoin(p)
             \/ ResumeParent(p) \/ ReadBlockers(p) \/ NotifyParent(p)
             \/ BeginRetry(p) \/ PollBeforeRetry(p) \/ CancelBeforeRetry(p)
             \/ ReserveMessage(p) \/ ReplyChild(p) \/ MarkMessageDelivered(p) \/ Crash(p)
    BY <1>1, <2>1, LocalSteps, NoLedgerChange
  <2>2. CASE \/ StopParent(p) \/ MarkParentStopped(p) \/ UpdateState(p) \/ MarkNotified(p)
             \/ Complete(p)
    BY <2>2, ExecutionWritesChange
  <2>3. CASE \/ ExpireChild(p) \/ RecordExpired(p) \/ FailExpiredExecution(p) \/ PollChild(p)
             \/ RecordPolled(p) \/ RecordAnswer(p)
    BY <2>3, ExpireChildChanges, RecordExpiredChanges, FailExpiredExecutionChanges,
       PollChildChanges, RecordChanges
  <2>4. CASE \/ ClaimLaunches(p) \/ RecordHandle(p) \/ ReserveGeneration(p) \/ RequestCancel(p)
             \/ CreateRetry(p)
    BY <2>4, ClaimLaunchesChanges, RecordHandleChanges, ReserveGenerationChanges,
       RequestCancelChanges, CreateRetryChanges
  <2> QED
    BY <1>2, <2>1, <2>2, <2>3, <2>4 DEF WorkerStep, RequestStep
<1>3. ASSUME \/ \E a \in Attempts : TaskProgress(a)
             \/ Tick
             \/ UNCHANGED vars
      PROVE  LedgerChange
  BY <1>1, <1>3, NoLedgerChange DEF TaskProgress, Tick, vars, ledger
<1> QED
  BY <1>2, <1>3, LeaseChanges DEF Next

--------------------------------------------------------------------------------
(* How a process gets where it is.                                         *)

\* A step of p leaves the other processes where they are.
LEMMA BecomesOnly ==
  ASSUME SInv, NEW p \in Processes, NEW l, Become(p, l)
  PROVE  proc'[p] = l /\ \A q \in Processes : q # p => proc'[q] = proc[q]
  BY DEF SInv, IInv, Become

\* The program counters of the local states the service often goes to.
LEMMA CountersOf ==
  ASSUME SInv, NEW p \in Processes
  PROVE  /\ Idle.pc = "idle" /\ ReconcileFrom.pc = "stop"
         /\ AfterReconcile(p).pc \in {"idle", "claim"}
         /\ \A x : Goto(p, x).pc = x
         /\ \A t : [proc[p] EXCEPT !.pc = "update", !.target = t].pc = "update"
<1>1. proc[p] \in ProcessType
  BY DEF SInv, IInv
<1> QED
  BY <1>1, NothingObserved DEF Goto, ProcessType

\* Where a process is that went to one of them.
LEMMA Goes ==
  ASSUME SInv, NEW p \in Processes
  PROVE  /\ Become(p, Idle) => proc'[p].pc = "idle"
         /\ Become(p, AfterReconcile(p)) => proc'[p].pc \in {"idle", "claim"}
         /\ \A x : Become(p, Goto(p, x)) => proc'[p].pc = x
         /\ \A t : Become(p, [proc[p] EXCEPT !.pc = "update", !.target = t])
                    => proc'[p].pc = "update"
<1>1. Become(p, AfterReconcile(p)) => proc'[p] = AfterReconcile(p)
  BY BecomesOnly
<1>2. \A x : Become(p, Goto(p, x)) => proc'[p] = Goto(p, x)
  BY BecomesOnly
<1>3. Become(p, Idle) => proc'[p] = Idle
  BY BecomesOnly
<1>4. ASSUME NEW t, Become(p, [proc[p] EXCEPT !.pc = "update", !.target = t])
      PROVE  proc'[p].pc = "update"
  <2>1. [proc[p] EXCEPT !.pc = "update", !.target = t].pc = "update"
    BY CountersOf
  <2> QED
    BY <1>4, <2>1, BecomesOnly
<1> QED
  BY <1>1, <1>2, <1>3, <1>4, CountersOf

\* Expanding, launching.
LEMMA LaunchCounters ==
  ASSUME SInv, NEW p \in Processes
  PROVE  /\ BeginExpand(p) => proc'[p].pc = "reserve"
         /\ ReserveGeneration(p) => proc'[p].pc \in {"claim", "idle"}
         /\ ClaimLaunches(p) => proc'[p].pc \in {"launch", "idle"}
         /\ LaunchChild(p) => proc'[p].pc \in {"handle", "idle"}
         /\ RecordHandle(p) => proc'[p].pc \in {"launch", "idle"}
<1>1. proc[p] \in ProcessType
  BY DEF SInv, IInv
<1>2. ASSUME BeginExpand(p)
      PROVE  proc'[p].pc = "reserve"
  <2>1. PICK pl : Become(p, [Idle EXCEPT !.pc = "reserve", !.plan = pl, !.snap.rev = execution.rev])
    BY <1>2 DEF BeginExpand
  <2>2. [Idle EXCEPT !.pc = "reserve", !.plan = pl, !.snap.rev = execution.rev].pc = "reserve"
    BY DEF Idle
  <2> QED
    BY <2>1, <2>2, BecomesOnly
<1>3. ASSUME ReserveGeneration(p)
      PROVE  proc'[p].pc \in {"claim", "idle"}
  <2>1. Become(p, [Idle EXCEPT !.pc = "claim"]) \/ Become(p, Idle)
    BY <1>3 DEF ReserveGeneration
  <2>2. [Idle EXCEPT !.pc = "claim"].pc = "claim"
    BY DEF Idle
  <2> QED
    BY <2>1, <2>2, BecomesOnly, CountersOf
<1>4. ASSUME ClaimLaunches(p)
      PROVE  proc'[p].pc \in {"launch", "idle"}
  <2>1. PICK cs : Become(p, Idle) \/ Become(p, [Idle EXCEPT !.pc = "launch", !.claims = cs])
    BY <1>4, Zenon DEF ClaimLaunches
  <2>2. [Idle EXCEPT !.pc = "launch", !.claims = cs].pc = "launch"
    BY DEF Idle
  <2> QED
    BY <2>1, <2>2, BecomesOnly, CountersOf
<1>5. ASSUME LaunchChild(p)
      PROVE  proc'[p].pc \in {"handle", "idle"}
  <2>1. PICK c : \/ Become(p, [proc[p] EXCEPT !.pc = "handle", !.cur = c.id, !.fence = c.fence,
                                              !.claims = @ \ {c}])
                 \/ Become(p, Idle)
    BY <1>5 DEF LaunchChild
  <2>2. [proc[p] EXCEPT !.pc = "handle", !.cur = c.id, !.fence = c.fence,
                        !.claims = @ \ {c}].pc = "handle"
    BY <1>1 DEF ProcessType
  <2> QED
    BY <2>1, <2>2, BecomesOnly, CountersOf
<1>6. ASSUME RecordHandle(p)
      PROVE  proc'[p].pc \in {"launch", "idle"}
  <2>1. \/ Become(p, Idle) \/ Become(p, [Idle EXCEPT !.pc = "launch", !.claims = proc[p].claims])
    BY <1>6 DEF RecordHandle
  <2>2. [Idle EXCEPT !.pc = "launch", !.claims = proc[p].claims].pc = "launch"
    BY DEF Idle
  <2> QED
    BY <2>1, <2>2, BecomesOnly, CountersOf
<1> QED
  BY <1>2, <1>3, <1>4, <1>5, <1>6

\* Reconciling: stopping, expiring, polling.
LEMMA ReconcileCounters ==
  ASSUME SInv, NEW p \in Processes
  PROVE  /\ BeginReconcile(p) \/ RequestCancel(p) => proc'[p].pc = "stop"
         /\ StopParent(p) => proc'[p].pc \in {"expire", "stopped"}
         /\ MarkParentStopped(p) => proc'[p].pc = "expire"
         /\ ListExpired(p) => proc'[p].pc = "expiring"
         /\ ExpireChild(p) => proc'[p].pc \in {"expiring", "expired"}
         /\ RecordExpired(p) => proc'[p].pc = "expiring"
         /\ ListExpiredExecution(p) => proc'[p].pc \in {"failing", "list"}
         /\ FailExpiredExecution(p) => proc'[p].pc = "list"
         /\ ListReconcilable(p) => proc'[p].pc = "poll"
         /\ PollChild(p) => proc'[p].pc \in {"poll", "record"}
         /\ RecordPolled(p) => proc'[p].pc = "poll"
<1>1. proc[p] \in ProcessType
  BY DEF SInv, IInv
<1>2. ASSUME BeginReconcile(p) \/ RequestCancel(p)
      PROVE  proc'[p].pc = "stop"
  BY <1>2, BecomesOnly, CountersOf DEF BeginReconcile, RequestCancel
<1>3. /\ StopParent(p) => proc'[p].pc \in {"expire", "stopped"}
      /\ MarkParentStopped(p) => proc'[p].pc = "expire"
  BY BecomesOnly, CountersOf DEF StopParent, MarkParentStopped
<1>4. ASSUME ListExpired(p)
      PROVE  proc'[p].pc = "expiring"
  <2> DEFINE es == {[id |-> a, flag |-> child[a].task] : a \in ExpiredChildren}
  <2>1. Become(p, [proc[p] EXCEPT !.pc = "expiring", !.at = now, !.todo = es])
    BY <1>4 DEF ListExpired
  <2> HIDE DEF es
  <2>2. [proc[p] EXCEPT !.pc = "expiring", !.at = now, !.todo = es].pc = "expiring"
    BY <1>1 DEF ProcessType
  <2> QED
    BY <2>1, <2>2, BecomesOnly
<1>5. ASSUME ExpireChild(p)
      PROVE  proc'[p].pc \in {"expiring", "expired"}
  <2>1. PICK e : \/ Become(p, [[proc[p] EXCEPT !.todo = @ \ {e}, !.touched = TRUE]
                                  EXCEPT !.pc = "expired", !.cur = e.id])
                 \/ Become(p, [proc[p] EXCEPT !.todo = @ \ {e}, !.touched = TRUE])
    BY <1>5 DEF ExpireChild
  <2> DEFINE rest == [proc[p] EXCEPT !.todo = @ \ {e}, !.touched = TRUE]
  <2>2. rest.pc = "expiring" /\ [rest EXCEPT !.pc = "expired", !.cur = e.id].pc = "expired"
    BY <1>1, <1>5 DEF ProcessType, ExpireChild, At
  <2> QED
    BY <2>1, <2>2, BecomesOnly
<1>6. ASSUME RecordExpired(p)
      PROVE  proc'[p].pc = "expiring"
  <2>1. [proc[p] EXCEPT !.pc = "expiring", !.cur = NoAttempt].pc = "expiring"
    BY <1>1 DEF ProcessType
  <2> QED
    BY <1>6, <2>1, BecomesOnly DEF RecordExpired
<1>7. ASSUME ListExpiredExecution(p)
      PROVE  proc'[p].pc \in {"failing", "list"}
  <2>1. \/ Become(p, [proc[p] EXCEPT !.pc = "failing", !.at = 0, !.touched = TRUE, !.snap.rev = execution.rev])
        \/ Become(p, [proc[p] EXCEPT !.pc = "list", !.at = 0])
    BY <1>7 DEF ListExpiredExecution
  <2>2. /\ [proc[p] EXCEPT !.pc = "failing", !.at = 0, !.touched = TRUE,
                           !.snap.rev = execution.rev].pc = "failing"
        /\ [proc[p] EXCEPT !.pc = "list", !.at = 0].pc = "list"
    BY <1>1 DEF ProcessType
  <2> QED
    BY <2>1, <2>2, BecomesOnly
<1>8. ASSUME FailExpiredExecution(p)
      PROVE  proc'[p].pc = "list"
  <2>1. [proc[p] EXCEPT !.pc = "list", !.snap = NoSnapshot].pc = "list"
    BY <1>1 DEF ProcessType
  <2> QED
    BY <1>8, <2>1, BecomesOnly DEF FailExpiredExecution
<1>9. ASSUME ListReconcilable(p)
      PROVE  proc'[p].pc = "poll"
  <2> DEFINE es == {[id |-> a, flag |-> child[a].state = "canceling"] : a \in SelectedChildren}
  <2>1. Become(p, [proc[p] EXCEPT !.pc = "poll", !.todo = es])
    BY <1>9 DEF ListReconcilable
  <2> HIDE DEF es
  <2>2. [proc[p] EXCEPT !.pc = "poll", !.todo = es].pc = "poll"
    BY <1>1 DEF ProcessType
  <2> QED
    BY <2>1, <2>2, BecomesOnly
<1>10. ASSUME PollChild(p)
       PROVE  proc'[p].pc \in {"poll", "record"}
  <2>1. PICK e, o : \/ Become(p, [[proc[p] EXCEPT !.todo = @ \ {e}, !.touched = TRUE]
                                     EXCEPT !.pc = "record", !.cur = e.id, !.obs = o])
                    \/ Become(p, [proc[p] EXCEPT !.todo = @ \ {e}, !.touched = TRUE])
    BY <1>10, Zenon DEF PollChild
  <2> DEFINE rest == [proc[p] EXCEPT !.todo = @ \ {e}, !.touched = TRUE]
  <2>2. rest.pc = "poll" /\ [rest EXCEPT !.pc = "record", !.cur = e.id, !.obs = o].pc = "record"
    BY <1>1, <1>10 DEF ProcessType, PollChild, At
  <2> QED
    BY <2>1, <2>2, BecomesOnly
<1>11. ASSUME RecordPolled(p)
       PROVE  proc'[p].pc = "poll"
  <2>1. [proc[p] EXCEPT !.pc = "poll", !.cur = NoAttempt, !.obs = NoObservation].pc = "poll"
    BY <1>1 DEF ProcessType
  <2> QED
    BY <1>11, <2>1, BecomesOnly DEF RecordPolled
<1> QED
  BY <1>2, <1>3, <1>4, <1>5, <1>6, <1>7, <1>8, <1>9, <1>10, <1>11

\* A step of q is a step of one process.
LEMMA StepIsOfOne ==
  ASSUME NEW q \in Processes, WorkerStep(q) \/ RequestStep(q) \/ Crash(q)
  PROVE  proc' = proc \/ \E l : Become(q, l)
<1>1. CASE \/ BeginReconcile(q) \/ StopParent(q) \/ MarkParentStopped(q)
           \/ ListExpired(q) \/ ExpireChild(q) \/ RecordExpired(q)
           \/ ListExpiredExecution(q) \/ FailExpiredExecution(q)
  BY <1>1, Zenon DEF BeginReconcile, StopParent, MarkParentStopped, ListExpired, ExpireChild,
     RecordExpired, ListExpiredExecution, FailExpiredExecution
<1>2. CASE ListReconcilable(q) \/ PollChild(q) \/ RecordPolled(q)
  BY <1>2, Zenon DEF ListReconcilable, PollChild, RecordPolled
<1>3. CASE \/ ReadExecution(q) \/ ReadChildren(q) \/ ReadJoin(q)
           \/ ResumeParent(q) \/ UpdateState(q) \/ ReadBlockers(q) \/ NotifyParent(q)
           \/ MarkNotified(q)
  BY <1>3, Zenon DEF ReadExecution, ReadChildren, ReadJoin, ResumeParent, UpdateState,
     ReadBlockers, NotifyParent, MarkNotified
<1>4. CASE \/ ClaimLaunches(q) \/ LaunchChild(q) \/ RecordHandle(q)
           \/ BeginExpand(q) \/ ReserveGeneration(q) \/ RequestCancel(q)
  BY <1>4, Zenon DEF ClaimLaunches, LaunchChild, RecordHandle, BeginExpand, ReserveGeneration,
     RequestCancel
<1>5. CASE \/ BeginRetry(q) \/ PollBeforeRetry(q) \/ CancelBeforeRetry(q) \/ CreateRetry(q)
           \/ ReserveMessage(q) \/ MarkMessageDelivered(q) \/ RecordAnswer(q)
           \/ Complete(q) \/ Crash(q)
  BY <1>5, Zenon DEF BeginRetry, PollBeforeRetry, CancelBeforeRetry, CreateRetry,
     ReserveMessage, MarkMessageDelivered, RecordAnswer, Complete, Crash
<1>6. CASE ReplyChild(q)
  BY <1>6, Zenon DEF ReplyChild
<1> QED
  BY <1>1, <1>2, <1>3, <1>4, <1>5, <1>6 DEF WorkerStep, RequestStep

\* Projecting the join.
LEMMA JoinCounters ==
  ASSUME SInv, NEW p \in Processes
  PROVE  /\ ReadExecution(p) => proc'[p].pc \in {"children", "idle", "claim"}
         /\ ReadChildren(p) => proc'[p].pc \in {"join", "update", "idle", "claim"}
         /\ ReadJoin(p) => proc'[p].pc \in {"update", "resume", "idle", "claim"}
         /\ ResumeParent(p) => proc'[p].pc \in {"update", "idle", "claim"}
         /\ UpdateState(p) => proc'[p].pc \in {"notify", "idle", "claim"}
         /\ ReadBlockers(p) => proc'[p].pc \in {"send", "idle", "claim"}
         /\ NotifyParent(p) => proc'[p].pc \in {"notified", "idle", "claim"}
         /\ MarkNotified(p) => proc'[p].pc \in {"idle", "claim"}
<1>1. proc[p] \in ProcessType
  BY DEF SInv, IInv
<1>2. ASSUME ReadExecution(p)
      PROVE  proc'[p].pc \in {"children", "idle", "claim"}
  <2> DEFINE snap == [rev |-> execution.rev, blockers |-> execution.blockers,
                      cancel |-> execution.cancel, joined |-> past_children_join(execution.reason)]
  <2>1. Become(p, AfterReconcile(p)) \/ Become(p, [Idle EXCEPT !.pc = "children", !.snap = snap])
    BY <1>2 DEF ReadExecution
  <2> HIDE DEF snap
  <2>2. [Idle EXCEPT !.pc = "children", !.snap = snap].pc = "children"
    BY DEF Idle
  <2> QED
    BY <2>1, <2>2, BecomesOnly, Goes
<1>3. ASSUME ReadChildren(p)
      PROVE  proc'[p].pc \in {"join", "update", "idle", "claim"}
  <2>1. \/ Become(p, AfterReconcile(p))
        \/ \E t : Become(p, [proc[p] EXCEPT !.pc = "update", !.target = t])
        \/ \E v : Become(p, [proc[p] EXCEPT !.pc = "join", !.view = v])
    BY <1>3, Zenon DEF ReadChildren
  <2>2. ASSUME NEW x, Become(p, [proc[p] EXCEPT !.pc = "join", !.view = x])
        PROVE  proc'[p].pc = "join"
    <3>1. [proc[p] EXCEPT !.pc = "join", !.view = x].pc = "join"
      BY <1>1 DEF ProcessType
    <3> QED
      BY <2>2, <3>1, BecomesOnly
  <2> QED
    BY <2>1, <2>2, Goes
<1>4. ASSUME ReadJoin(p)
      PROVE  proc'[p].pc \in {"update", "resume", "idle", "claim"}
  BY <1>4, ReadJoinTargets, Goes
<1>5. ASSUME ResumeParent(p)
      PROVE  proc'[p].pc \in {"update", "idle", "claim"}
  BY <1>5, Goes DEF ResumeParent
<1>6. ASSUME UpdateState(p)
      PROVE  proc'[p].pc \in {"notify", "idle", "claim"}
  BY <1>6, Goes DEF UpdateState
<1>7. /\ ReadBlockers(p) => proc'[p].pc \in {"send", "idle", "claim"}
      /\ NotifyParent(p) => proc'[p].pc \in {"notified", "idle", "claim"}
      /\ MarkNotified(p) => proc'[p].pc \in {"idle", "claim"}
  BY Goes DEF ReadBlockers, NotifyParent, MarkNotified
<1> QED
  BY <1>2, <1>3, <1>4, <1>5, <1>6, <1>7

\* The requests.
LEMMA RequestCounters ==
  ASSUME SInv, NEW p \in Processes
  PROVE  /\ BeginRetry(p) => proc'[p].pc \in {"retryPoll", "retryCreate"}
         /\ PollBeforeRetry(p) => proc'[p].pc \in {"retryCreate", "retryCancel", "idle"}
         /\ CancelBeforeRetry(p) => proc'[p].pc \in {"retryCreate", "answered", "idle"}
         /\ CreateRetry(p) => proc'[p].pc \in {"claim", "idle"}
         /\ ReserveMessage(p) => proc'[p].pc \in {"reply", "idle"}
         /\ ReplyChild(p) => proc'[p].pc \in {"replied", "idle"}
         /\ MarkMessageDelivered(p) => proc'[p].pc = "answered"
         /\ RecordAnswer(p) \/ Crash(p) => proc'[p].pc = "idle"
         /\ Complete(p) => proc' = proc
<1>1. proc[p] \in ProcessType
  BY DEF SInv, IInv
<1>2. ASSUME BeginRetry(p)
      PROVE  proc'[p].pc \in {"retryPoll", "retryCreate"}
  <2>1. PICK a, x : /\ x \in {"retryPoll", "retryCreate"}
                    /\ Become(p, [Idle EXCEPT !.cur = a, !.pc = x])
    BY <1>2, Zenon DEF BeginRetry
  <2>2. [Idle EXCEPT !.cur = a, !.pc = x].pc = x
    BY DEF Idle
  <2> QED
    BY <2>1, <2>2, BecomesOnly
<1>3. PollBeforeRetry(p) => proc'[p].pc \in {"retryCreate", "retryCancel", "idle"}
  BY Goes DEF PollBeforeRetry
<1>4. ASSUME CancelBeforeRetry(p)
      PROVE  proc'[p].pc \in {"retryCreate", "answered", "idle"}
  <2>1. \/ Become(p, Goto(p, "retryCreate")) \/ Become(p, Idle)
        \/ \E o : Become(p, [proc[p] EXCEPT !.pc = "answered", !.obs = o])
    BY <1>4, Zenon DEF CancelBeforeRetry
  <2>2. ASSUME NEW x, Become(p, [proc[p] EXCEPT !.pc = "answered", !.obs = x])
        PROVE  proc'[p].pc = "answered"
    <3>1. [proc[p] EXCEPT !.pc = "answered", !.obs = x].pc = "answered"
      BY <1>1 DEF ProcessType
    <3> QED
      BY <2>2, <3>1, BecomesOnly
  <2> QED
    BY <2>1, <2>2, Goes
<1>5. CreateRetry(p) => proc'[p].pc \in {"claim", "idle"}
  <2>1. [Idle EXCEPT !.pc = "claim"].pc = "claim"
    BY DEF Idle
  <2> QED
    BY <2>1, BecomesOnly, CountersOf DEF CreateRetry
<1>6. ASSUME ReserveMessage(p)
      PROVE  proc'[p].pc \in {"reply", "idle"}
  <2>1. PICK a, m : Become(p, Idle) \/ Become(p, [Idle EXCEPT !.pc = "reply", !.cur = a, !.msg = m])
    BY <1>6 DEF ReserveMessage
  <2>2. [Idle EXCEPT !.pc = "reply", !.cur = a, !.msg = m].pc = "reply"
    BY DEF Idle
  <2> QED
    BY <2>1, <2>2, BecomesOnly, CountersOf
<1>7. ASSUME ReplyChild(p)
      PROVE  proc'[p].pc \in {"replied", "idle"}
  <2>1. \/ Become(p, Idle)
        \/ \E o : Become(p, [proc[p] EXCEPT !.pc = "replied", !.obs = o])
    BY <1>7, ReplyReports DEF SInv
  <2>2. ASSUME NEW x, Become(p, [proc[p] EXCEPT !.pc = "replied", !.obs = x])
        PROVE  proc'[p].pc = "replied"
    <3>1. [proc[p] EXCEPT !.pc = "replied", !.obs = x].pc = "replied"
      BY <1>1 DEF ProcessType
    <3> QED
      BY <2>2, <3>1, BecomesOnly
  <2> QED
    BY <2>1, <2>2, Goes
<1>8. ASSUME MarkMessageDelivered(p)
      PROVE  proc'[p].pc = "answered"
  <2>1. [proc[p] EXCEPT !.pc = "answered", !.msg = 0].pc = "answered"
    BY <1>1 DEF ProcessType
  <2> QED
    BY <1>8, <2>1, BecomesOnly DEF MarkMessageDelivered
<1>9. RecordAnswer(p) \/ Crash(p) => proc'[p].pc = "idle"
  BY BecomesOnly, CountersOf DEF RecordAnswer, Crash
<1>10. Complete(p) => proc' = proc
  BY DEF Complete
<1> QED
  BY <1>2, <1>3, <1>4, <1>5, <1>6, <1>7, <1>8, <1>9, <1>10

\* The only actions that lead to each program counter at which a process has
\* read or been told something it will act upon.
Arrives(p) ==
    /\ proc'[p].pc = "reserve" => BeginExpand(p)
    /\ proc'[p].pc = "launch" => ClaimLaunches(p) \/ RecordHandle(p)
    /\ proc'[p].pc = "handle" => LaunchChild(p)
    /\ proc'[p].pc = "stopped" => StopParent(p)
    /\ proc'[p].pc = "expiring" => ListExpired(p) \/ ExpireChild(p) \/ RecordExpired(p)
    /\ proc'[p].pc = "expired" => ExpireChild(p)
    /\ proc'[p].pc = "record" => PollChild(p)
    /\ proc'[p].pc = "children" => ReadExecution(p)
    /\ proc'[p].pc = "join" => ReadChildren(p)
    /\ proc'[p].pc = "resume" => ReadJoin(p)
    /\ proc'[p].pc = "update" => ReadChildren(p) \/ ReadJoin(p) \/ ResumeParent(p)
    /\ proc'[p].pc = "notify" => UpdateState(p)
    /\ proc'[p].pc = "send" => ReadBlockers(p)
    /\ proc'[p].pc = "notified" => NotifyParent(p)
    /\ proc'[p].pc \in {"retryPoll", "retryCancel", "retryCreate"} =>
          BeginRetry(p) \/ PollBeforeRetry(p) \/ CancelBeforeRetry(p)
    /\ proc'[p].pc = "reply" => ReserveMessage(p)
    /\ proc'[p].pc = "replied" => ReplyChild(p)
    /\ proc'[p].pc = "answered" => CancelBeforeRetry(p) \/ MarkMessageDelivered(p)

\* In any step a process stays as it is or arrives in one of these ways.
LEMMA ProcessArrives ==
  ASSUME SInv, [Next]_vars, NEW p \in Processes
  PROVE  proc'[p] = proc[p] \/ Arrives(p)
<1>1. ASSUME WorkerStep(p)
      PROVE  Arrives(p)
  <2>1. CASE \/ BeginReconcile(p) \/ StopParent(p) \/ MarkParentStopped(p)
             \/ ListExpired(p) \/ ExpireChild(p) \/ RecordExpired(p)
             \/ ListExpiredExecution(p) \/ FailExpiredExecution(p)
             \/ ListReconcilable(p) \/ PollChild(p) \/ RecordPolled(p)
    BY <2>1, ReconcileCounters DEF Arrives
  <2>2. CASE \/ ReadExecution(p) \/ ReadChildren(p) \/ ReadJoin(p)
             \/ ResumeParent(p) \/ UpdateState(p) \/ ReadBlockers(p) \/ NotifyParent(p)
             \/ MarkNotified(p)
    BY <2>2, JoinCounters DEF Arrives
  <2>3. CASE ClaimLaunches(p) \/ LaunchChild(p) \/ RecordHandle(p)
    BY <2>3, LaunchCounters DEF Arrives
  <2> QED
    BY <1>1, <2>1, <2>2, <2>3 DEF WorkerStep
<1>2. ASSUME RequestStep(p) \/ Crash(p)
      PROVE  proc'[p] = proc[p] \/ Arrives(p)
  <2>1. CASE BeginExpand(p) \/ ReserveGeneration(p)
    BY <2>1, LaunchCounters DEF Arrives
  <2>2. CASE RequestCancel(p)
    BY <2>2, ReconcileCounters DEF Arrives
  <2>3. CASE \/ BeginRetry(p) \/ PollBeforeRetry(p) \/ CancelBeforeRetry(p) \/ CreateRetry(p)
             \/ ReserveMessage(p) \/ ReplyChild(p) \/ MarkMessageDelivered(p) \/ RecordAnswer(p)
             \/ Complete(p) \/ Crash(p)
    BY <2>3, RequestCounters DEF Arrives
  <2> QED
    BY <1>2, <2>1, <2>2, <2>3 DEF RequestStep
<1>3. ASSUME NEW q \in Processes, q # p, WorkerStep(q) \/ RequestStep(q) \/ Crash(q)
      PROVE  proc'[p] = proc[p]
  <2>1. proc' = proc \/ \E l : Become(q, l)
    BY <1>3, StepIsOfOne
  <2> QED
    BY <1>3, <2>1, BecomesOnly
<1>4. ASSUME \/ \E a \in Attempts : TaskProgress(a)
             \/ LeaseRunsOut \/ Tick
             \/ UNCHANGED vars
      PROVE  proc'[p] = proc[p]
  BY <1>4 DEF TaskProgress, LeaseRunsOut, Tick, vars
<1> QED
  BY <1>1, <1>2, <1>3, <1>4 DEF Next

--------------------------------------------------------------------------------
(* The remote side, step by step.                                          *)

\* What is not written stays.
LEMMA TasksUntouched ==
  ASSUME UNCHANGED task
  PROVE  \A a \in Attempts : TaskChange(a)
  BY DEF TaskChange

\* Nor does the parent move unless it is told something.
LEMMA ParentUntouched ==
  ASSUME UNCHANGED parent
  PROVE  ParentChange
  BY DEF ParentChange

\* The step of a process that changes a task changes only that of its attempt.
LEMMA TaskAlone ==
  ASSUME IInv, NEW a \in Attempts, NEW t, task' = [task EXCEPT ![a] = t], t.state # "none",
         t = task[a] \/ Unfinished(task[a])
  PROVE  \A b \in Attempts : TaskChange(b)
  BY DEF IInv, RemoteTypeOK, TaskChange

\* A cancel request, answered or not, stops an unfinished task or does nothing.
LEMMA CancelChangesTask ==
  ASSUME IInv, NEW a \in Attempts,
         \/ \E t \in CancelOutcomes(a) : task' = [task EXCEPT ![a] = t]
         \/ CancelFails(a)
  PROVE  \A b \in Attempts : TaskChange(b)
<1>1. CASE \E t \in CancelOutcomes(a) : task' = [task EXCEPT ![a] = t]
  <2>1. PICK t \in CancelOutcomes(a) : task' = [task EXCEPT ![a] = t]
    BY <1>1
  <2>2. t.state # "none"
    BY CancelOutcomeTyped
  <2>3. Unfinished(task[a])
    BY DEF CancelOutcomes
  <2> QED
    BY <2>1, <2>2, <2>3, TaskAlone
<1>2. CASE UNCHANGED task
  BY <1>2, TasksUntouched
<1> QED
  BY <1>1, <1>2 DEF CancelFails

\* A task gets somewhere of its own accord, or with the reply it waited for.
LEMMA ProgressChangesTask ==
  ASSUME IInv, NEW a \in Attempts, Unfinished(task[a]),
         NEW woken, woken = [task[a] EXCEPT !.state = "working"],
         \E t \in {woken} \cup Successors(woken) : task' = [task EXCEPT ![a] = t]
  PROVE  \A b \in Attempts : TaskChange(b)
<1>1. PICK t \in {woken} \cup Successors(woken) : task' = [task EXCEPT ![a] = t]
  OBVIOUS
<1>2. woken \in TaskType /\ woken.state # "none"
  BY DEF IInv, RemoteTypeOK, TaskType, TaskStates
<1>3. t.state # "none"
  BY <1>2, SuccessorsTyped
<1> QED
  BY <1>1, <1>3, TaskAlone

\* A child's launch starts its task, unless it had already been started.
LEMMA LaunchChangesTask ==
  ASSUME SInv, NEW p \in Processes, LaunchChild(p)
  PROVE  \A b \in Attempts : TaskChange(b)
<1>1. PICK c \in proc[p].claims :
         \/ UNCHANGED task
         \/ task' = [task EXCEPT ![c.id] = Launched(c.id)]
  BY DEF LaunchChild
<1>2. c.id \in Attempts /\ At(p, "launch")
  BY LocalFields DEF SInv, IInv, Claims, LaunchChild
<1>3. CASE task[c.id].state = "none" /\ task' = [task EXCEPT ![c.id] = Launched(c.id)]
  <2>1. Launched(c.id).state = "working"
    BY <1>3 DEF Launched
  <2> QED
    BY <1>1, <1>2, <1>3, <2>1 DEF TaskChange, SInv, IInv, RemoteTypeOK
<1>4. CASE task[c.id].state # "none" /\ task' = [task EXCEPT ![c.id] = Launched(c.id)]
  <2>1. task' = task
    BY <1>2, <1>4 DEF Launched, SInv, IInv, RemoteTypeOK
  <2> QED
    BY <2>1, TasksUntouched
<1>5. CASE UNCHANGED task
  BY <1>5, TasksUntouched
<1> QED
  BY <1>1, <1>3, <1>4, <1>5

\* What any step of the service, of a task or of the clock does to the tasks.
LEMMA TaskSteps ==
  ASSUME SInv, [Next]_vars
  PROVE  \A a \in Attempts : TaskChange(a)
<1>1. IInv
  BY DEF SInv
<1>2. ASSUME NEW p \in Processes, LaunchChild(p)
      PROVE  \A a \in Attempts : TaskChange(a)
  BY <1>2, LaunchChangesTask
<1>3. ASSUME NEW p \in Processes, ExpireChild(p)
      PROVE  \A a \in Attempts : TaskChange(a)
  <2>1. PICK e \in proc[p].todo :
           \/ \E t \in CancelOutcomes(e.id) : task' = [task EXCEPT ![e.id] = t]
           \/ CancelFails(e.id)
           \/ UNCHANGED task
    BY <1>3 DEF ExpireChild
  <2>2. e.id \in Attempts
    BY <1>1, LocalFields DEF IInv, Items
  <2> QED
    BY <1>1, <2>1, <2>2, CancelChangesTask, TasksUntouched
<1>4. ASSUME NEW p \in Processes, PollChild(p)
      PROVE  \A a \in Attempts : TaskChange(a)
  <2>1. PICK e \in proc[p].todo :
           \/ \E t \in CancelOutcomes(e.id) : task' = [task EXCEPT ![e.id] = t]
           \/ CancelFails(e.id)
           \/ UNCHANGED task
    BY <1>4 DEF PollChild, PollFails
  <2>2. e.id \in Attempts
    BY <1>1, LocalFields DEF IInv, Items
  <2> QED
    BY <1>1, <2>1, <2>2, CancelChangesTask, TasksUntouched
<1>5. ASSUME NEW p \in Processes, CancelBeforeRetry(p)
      PROVE  \A a \in Attempts : TaskChange(a)
  <2>1. proc[p].cur \in Attempts
    BY <1>1, <1>5 DEF CancelBeforeRetry, At, IInv, LocalOK, WithAttempt
  <2> QED
    BY <1>1, <1>5, <2>1, CancelChangesTask DEF CancelBeforeRetry
<1>6. ASSUME NEW p \in Processes, ReplyChild(p)
      PROVE  \A a \in Attempts : TaskChange(a)
  <2> DEFINE a == proc[p].cur
  <2> DEFINE woken == [task[a] EXCEPT !.state = "working"]
  <2>1. a \in Attempts
    BY <1>1, <1>6 DEF ReplyChild, At, IInv, LocalOK, WithAttempt
  <2>2. \/ /\ Unfinished(task[a])
           /\ \E t \in {woken} \cup Successors(woken) : task' = [task EXCEPT ![a] = t]
        \/ UNCHANGED task
    <3> DEFINE awaited == task[a] = [state |-> "input", ask |-> message[proc[p].msg].ask]
    <3>1. awaited => Unfinished(task[a])
      BY DEF Unfinished
    <3>2. \/ awaited /\ \E t \in {woken} \cup Successors(woken) : task' = [task EXCEPT ![a] = t]
          \/ UNCHANGED task
          \/ task' \in {task, IF awaited THEN [task EXCEPT ![a] = woken] ELSE task}
      BY <1>6 DEF ReplyChild
    <3> HIDE DEF awaited, woken, a
    <3> QED
      BY <3>1, <3>2
  <2> HIDE DEF a
  <2> QED
    BY <1>1, <2>1, <2>2, ProgressChangesTask, TasksUntouched
<1>7. ASSUME NEW a \in Attempts, TaskProgress(a)
      PROVE  \A b \in Attempts : TaskChange(b)
  <2>1. task[a] \in TaskType /\ task[a].state = "working" /\ Unfinished(task[a])
    BY <1>1, <1>7 DEF TaskProgress, IInv, RemoteTypeOK, Unfinished
  <2>2. [task[a] EXCEPT !.state = "working"] = task[a]
    BY <2>1 DEF TaskType
  <2> QED
    BY <1>1, <1>7, <2>1, <2>2, ProgressChangesTask DEF TaskProgress
<1>8. ASSUME NEW p \in Processes, WorkerStep(p) \/ RequestStep(p) \/ Crash(p),
             ~LaunchChild(p), ~ExpireChild(p), ~PollChild(p), ~CancelBeforeRetry(p), ~ReplyChild(p)
      PROVE  UNCHANGED task
  <2>1. CASE WorkerStep(p)
    BY <1>8, <2>1 DEF WorkerStep, BeginReconcile, StopParent, MarkParentStopped, ListExpired,
       RecordExpired, ListExpiredExecution, FailExpiredExecution, ListReconcilable, RecordPolled,
       ReadExecution, ReadChildren, ReadJoin, ResumeParent, UpdateState, ReadBlockers,
       NotifyParent, MarkNotified, ClaimLaunches, RecordHandle
  <2>2. CASE RequestStep(p) \/ Crash(p)
    BY <1>8, <2>2 DEF RequestStep, BeginExpand, ReserveGeneration, RequestCancel, BeginRetry,
       PollBeforeRetry, CreateRetry, ReserveMessage, MarkMessageDelivered, RecordAnswer,
       Complete, Crash
  <2> QED
    BY <1>8, <2>1, <2>2
<1>9. ASSUME LeaseRunsOut \/ Tick \/ UNCHANGED vars
      PROVE  UNCHANGED task
  BY <1>9 DEF LeaseRunsOut, Tick, vars
<1> QED
  BY <1>2, <1>3, <1>4, <1>5, <1>6, <1>7, <1>8, <1>9, TasksUntouched DEF Next

\* What any step does to the parent session.
LEMMA ParentSteps ==
  ASSUME SInv, [Next]_vars
  PROVE  ParentChange
<1>1. parent \in ParentType
  BY DEF SInv, IInv, RemoteTypeOK
<1>2. ASSUME NEW p \in Processes, StopParent(p)
      PROVE  ParentChange
  <2>1. parent' = parent \/ parent' = [parent EXCEPT !.stopped = TRUE]
    BY <1>2 DEF StopParent
  <2> QED
    BY <1>1, <2>1 DEF ParentChange, ParentType
<1>3. ASSUME NEW p \in Processes, ResumeParent(p) \/ NotifyParent(p)
      PROVE  ParentChange
  BY <1>3, ParentUntouched DEF ParentChange, ResumeParent, NotifyParent
<1>4. ASSUME NEW p \in Processes, WorkerStep(p), ~StopParent(p), ~ResumeParent(p), ~NotifyParent(p)
      PROVE  UNCHANGED parent
  BY <1>4 DEF WorkerStep, BeginReconcile, MarkParentStopped, ListExpired, ExpireChild,
     RecordExpired, ListExpiredExecution, FailExpiredExecution, ListReconcilable, PollChild,
     RecordPolled, ReadExecution, ReadChildren, ReadJoin, UpdateState, ReadBlockers,
     MarkNotified, ClaimLaunches, LaunchChild, RecordHandle
<1>5. ASSUME NEW p \in Processes, RequestStep(p) \/ Crash(p)
      PROVE  UNCHANGED parent
  BY <1>5 DEF RequestStep, BeginExpand, ReserveGeneration, RequestCancel, BeginRetry,
     PollBeforeRetry, CancelBeforeRetry, CreateRetry, ReserveMessage, ReplyChild,
     MarkMessageDelivered, RecordAnswer, Complete, Crash
<1>6. ASSUME (\E a \in Attempts : TaskProgress(a)) \/ LeaseRunsOut \/ Tick \/ UNCHANGED vars
      PROVE  UNCHANGED parent
  BY <1>6 DEF TaskProgress, LeaseRunsOut, Tick, vars
<1> QED
  BY <1>2, <1>3, <1>4, <1>5, <1>6, ParentUntouched DEF Next

\* The clock and the faults.
LEMMA ClockSteps ==
  ASSUME [Next]_vars
  PROVE  /\ faults' = faults \/ (faults < MaxFaults /\ faults' = faults + 1)
         /\ now' = now \/ (now < MaxNow /\ now' = now + 1)
<1> DEFINE Counts == /\ now' = now
                     /\ faults' = faults \/ (faults < MaxFaults /\ faults' = faults + 1)
<1>1. ASSUME NEW p \in Processes,
             \/ BeginReconcile(p) \/ StopParent(p) \/ MarkParentStopped(p)
             \/ ListExpired(p) \/ ExpireChild(p) \/ RecordExpired(p)
             \/ ListExpiredExecution(p) \/ FailExpiredExecution(p)
             \/ ListReconcilable(p) \/ PollChild(p) \/ RecordPolled(p)
      PROVE  Counts
  BY <1>1, Zenon DEF BeginReconcile, StopParent, MarkParentStopped, ListExpired, ExpireChild,
     RecordExpired, ListExpiredExecution, FailExpiredExecution, ListReconcilable, PollChild,
     RecordPolled, Fault, CancelFails, PollFails
<1>2. ASSUME NEW p \in Processes,
             \/ ReadExecution(p) \/ ReadChildren(p) \/ ReadJoin(p)
             \/ ResumeParent(p) \/ UpdateState(p) \/ ReadBlockers(p) \/ NotifyParent(p)
             \/ MarkNotified(p)
             \/ ClaimLaunches(p) \/ LaunchChild(p) \/ RecordHandle(p)
      PROVE  Counts
  BY <1>2, Zenon DEF ReadExecution, ReadChildren, ReadJoin, ResumeParent, UpdateState,
     ReadBlockers, NotifyParent, MarkNotified, ClaimLaunches, LaunchChild, RecordHandle, Fault
<1>3. ASSUME NEW p \in Processes, RequestStep(p) \/ Crash(p)
      PROVE  Counts
  BY <1>3, Zenon DEF RequestStep, BeginExpand, ReserveGeneration, RequestCancel, BeginRetry,
     PollBeforeRetry, CancelBeforeRetry, CreateRetry, ReserveMessage, ReplyChild,
     MarkMessageDelivered, RecordAnswer, Complete, Crash, Fault, CancelFails
<1>4. ASSUME (\E a \in Attempts : TaskProgress(a)) \/ LeaseRunsOut \/ UNCHANGED vars
      PROVE  Counts
  BY <1>4 DEF TaskProgress, LeaseRunsOut, vars
<1>5. ASSUME Tick
      PROVE  now < MaxNow /\ now' = now + 1 /\ faults' = faults
  BY <1>5 DEF Tick
<1> QED
  BY <1>1, <1>2, <1>3, <1>4, <1>5 DEF Next, WorkerStep

\* What any step does to the remote side.
LEMMA RemoteSteps ==
  ASSUME SInv, [Next]_vars
  PROVE  RemoteChange
  BY TaskSteps, ParentSteps, ClockSteps DEF RemoteChange

--------------------------------------------------------------------------------
(* What a process brings to where it arrives.                              *)

\* Another program counter, and nothing else.
LEMMA GotoKeeps ==
  ASSUME SInv, NEW p \in Processes, NEW x, Become(p, Goto(p, x))
  PROVE  /\ proc'[p].pc = x /\ proc'[p].cur = proc[p].cur /\ proc'[p].obs = proc[p].obs
         /\ proc'[p].snap = proc[p].snap /\ proc'[p].view = proc[p].view
         /\ proc'[p].target = proc[p].target /\ proc'[p].claims = proc[p].claims
         /\ proc'[p].fence = proc[p].fence
<1>1. proc[p] \in ProcessType /\ proc'[p] = Goto(p, x)
  BY BecomesOnly DEF SInv, IInv
<1> QED
  BY <1>1 DEF Goto, ProcessType

\* A target, and nothing else.
LEMMA SettleKeeps ==
  ASSUME SInv, NEW p \in Processes, NEW t,
         Become(p, [proc[p] EXCEPT !.pc = "update", !.target = t])
  PROVE  /\ proc'[p].pc = "update" /\ proc'[p].target = t
         /\ proc'[p].snap = proc[p].snap /\ proc'[p].view = proc[p].view
<1> DEFINE l == [proc[p] EXCEPT !.pc = "update", !.target = t]
<1>1. proc[p] \in ProcessType /\ proc'[p] = l
  BY BecomesOnly DEF SInv, IInv
<1>2. l.pc = "update" /\ l.target = t /\ l.snap = proc[p].snap /\ l.view = proc[p].view
  BY <1>1 DEF ProcessType
<1> QED
  BY <1>1, <1>2

\* A process begins to project a join with the execution as it is.
LEMMA ReadExecutionBrings ==
  ASSUME SInv, NEW p \in Processes, ReadExecution(p), proc'[p].pc = "children"
  PROVE  /\ proc'[p].snap = [rev |-> execution.rev, blockers |-> execution.blockers,
                             cancel |-> execution.cancel,
                             joined |-> past_children_join(execution.reason)]
         /\ ~ExecutionTerminal
<1> DEFINE snap == [rev |-> execution.rev, blockers |-> execution.blockers,
                    cancel |-> execution.cancel, joined |-> past_children_join(execution.reason)]
<1> DEFINE l == [Idle EXCEPT !.pc = "children", !.snap = snap]
<1>1. Become(p, AfterReconcile(p)) \/ (Become(p, l) /\ ~ExecutionTerminal)
  BY DEF ReadExecution
<1> HIDE DEF snap
<1>2. Become(p, l) /\ ~ExecutionTerminal
  BY <1>1, Goes
<1>3. l.snap = snap
  BY DEF Idle
<1> HIDE DEF l
<1>4. proc'[p].snap = snap
  BY <1>2, <1>3, BecomesOnly
<1> QED
  BY <1>2, <1>4 DEF snap

\* It goes on with the children of the current generation.
LEMMA ReadChildrenBrings ==
  ASSUME SInv, NEW p \in Processes, ReadChildren(p)
  PROVE  /\ proc'[p].pc = "join" =>
               /\ proc'[p].snap = proc[p].snap
               /\ proc'[p].view.gen = execution.gen
               /\ proc'[p].view.done =
                     {a \in CurrentAttempts(execution.gen) : child[a].state = "completed"}
               /\ proc'[p].view.bad =
                     {a \in CurrentAttempts(execution.gen) : child[a].state \in {"blocked", "failed"}}
               /\ execution.gen # 0
         /\ proc'[p].pc = "update" =>
               /\ proc'[p].snap = proc[p].snap /\ proc'[p].target = Canceled
               /\ execution.gen = 0 /\ proc[p].snap.cancel
<1> DEFINE g == execution.gen
<1> DEFINE done == {a \in CurrentAttempts(g) : child[a].state = "completed"}
<1> DEFINE bad == {a \in CurrentAttempts(g) : child[a].state \in {"blocked", "failed"}}
<1> DEFINE l == [proc[p] EXCEPT !.pc = "join", !.view = [gen |-> g, done |-> done, bad |-> bad]]
<1>1. \/ Become(p, AfterReconcile(p))
      \/ g = 0 /\ proc[p].snap.cancel /\ Become(p, [proc[p] EXCEPT !.pc = "update", !.target = Canceled])
      \/ g # 0 /\ Become(p, l)
  BY DEF ReadChildren
<1>2. proc[p] \in ProcessType
  BY DEF SInv, IInv
<1> HIDE DEF done, bad, g
<1>3. CASE Become(p, AfterReconcile(p))
  BY <1>3, Goes
<1>4. CASE g = 0 /\ proc[p].snap.cancel
           /\ Become(p, [proc[p] EXCEPT !.pc = "update", !.target = Canceled])
  BY <1>4, SettleKeeps DEF g
<1>5. CASE g # 0 /\ Become(p, l)
  <2>1. /\ l.pc = "join" /\ l.snap = proc[p].snap
        /\ l.view = [gen |-> g, done |-> done, bad |-> bad]
    BY <1>2 DEF ProcessType
  <2> HIDE DEF l
  <2>2. proc'[p] = l
    BY <1>5, BecomesOnly
  <2>3. /\ proc'[p].pc = "join" /\ proc'[p].snap = proc[p].snap
        /\ proc'[p].view.gen = g /\ proc'[p].view.done = done /\ proc'[p].view.bad = bad
    BY <2>1, <2>2
  <2> QED
    BY <1>5, <2>3 DEF done, bad, g
<1> QED
  BY <1>1, <1>3, <1>4, <1>5

\* The join it reads decides where it goes.
LEMMA ReadJoinBrings ==
  ASSUME SInv, NEW p \in Processes, ReadJoin(p)
  PROVE  /\ proc'[p].pc = "resume" =>
               /\ proc'[p].snap = proc[p].snap /\ proc'[p].view = proc[p].view
               /\ ~proc[p].snap.cancel /\ ~proc[p].snap.joined
               /\ JoinReady(proc[p].view.gen)
         /\ proc'[p].pc = "update" =>
               /\ proc'[p].snap = proc[p].snap /\ proc'[p].view = proc[p].view
               /\ IF proc[p].snap.cancel THEN proc'[p].target = Canceled
                  ELSE proc'[p].target \in {[state |-> "blocked", reason |-> "child_failed"],
                                            [state |-> "blocked", reason |-> "child_blocked"],
                                            [state |-> "waiting", reason |-> "awaiting_children"]}
<1> DEFINE settle(s, r) == [proc[p] EXCEPT !.pc = "update", !.target = [state |-> s, reason |-> r]]
<1> DEFINE ready == JoinReady(proc[p].view.gen)
<1>1. proc[p].snap.cancel \in BOOLEAN
  BY LocalFields DEF SInv, IInv, SnapType
<1>2. \/ Become(p, AfterReconcile(p))
      \/ proc[p].snap.cancel /\ Become(p, settle("canceled", "canceled"))
      \/ /\ ~proc[p].snap.cancel /\ ready /\ ~proc[p].snap.joined
         /\ Become(p, Goto(p, "resume"))
      \/ ~proc[p].snap.cancel /\ Become(p, settle("blocked", "child_failed"))
      \/ ~proc[p].snap.cancel /\ Become(p, settle("blocked", "child_blocked"))
      \/ ~proc[p].snap.cancel /\ Become(p, settle("waiting", "awaiting_children"))
  <2> DEFINE g == proc[p].view.gen
  <2> DEFINE c == proc[p].snap.cancel
  <2> DEFINE A == JoinPending(g) = {} /\ JoinBlocked(g) = {}
  <2> DEFINE B == JoinPending(g) \cup JoinBlocked(g) # {}
  <2> DEFINE F == JoinFailed(g) # {}
  <2> DEFINE K == JoinBlocked(g) # {}
  <2> DEFINE after == AfterReconcile(p)
  <2> DEFINE res == Goto(p, "resume")
  <2> DEFINE l ==
         CASE c /\ A -> settle("canceled", "canceled")
           [] c /\ B -> after
           [] ~c /\ ready -> IF proc[p].snap.joined THEN after ELSE res
           [] ~c /\ F -> settle("blocked", "child_failed")
           [] ~c /\ ~F /\ K -> settle("blocked", "child_blocked")
           [] OTHER -> settle("waiting", "awaiting_children")
  <2>1. Become(p, l)
    BY DEF ReadJoin
  <2>2. A \/ B
    OBVIOUS
  <2>3. c \in BOOLEAN
    BY <1>1
  <2> HIDE DEF A, B, F, K, after, res, settle, ready, c
  <2>4. \/ l = after
        \/ c /\ l = settle("canceled", "canceled")
        \/ ~c /\ ready /\ ~proc[p].snap.joined /\ l = res
        \/ ~c /\ l = settle("blocked", "child_failed")
        \/ ~c /\ l = settle("blocked", "child_blocked")
        \/ ~c /\ l = settle("waiting", "awaiting_children")
    BY <2>2, <2>3
  <2> HIDE DEF l
  <2> QED
    BY <2>1, <2>4 DEF after, res, c
<1> HIDE DEF ready
<1>3. CASE Become(p, AfterReconcile(p))
  BY <1>3, Goes
<1>4. CASE proc[p].snap.cancel /\ Become(p, settle("canceled", "canceled"))
  BY <1>4, SettleKeeps DEF Canceled
<1>5. CASE /\ ~proc[p].snap.cancel /\ ready /\ ~proc[p].snap.joined
           /\ Become(p, Goto(p, "resume"))
  BY <1>5, GotoKeeps DEF ready
<1>6. CASE ~proc[p].snap.cancel /\ Become(p, settle("blocked", "child_failed"))
  BY <1>6, SettleKeeps
<1>7. CASE ~proc[p].snap.cancel /\ Become(p, settle("blocked", "child_blocked"))
  BY <1>7, SettleKeeps
<1>8. CASE ~proc[p].snap.cancel /\ Become(p, settle("waiting", "awaiting_children"))
  BY <1>8, SettleKeeps
<1> QED
  BY <1>2, <1>3, <1>4, <1>5, <1>6, <1>7, <1>8

\* A parent that took the continuation is to be recorded as running.
LEMMA ResumeParentBrings ==
  ASSUME SInv, NEW p \in Processes, ResumeParent(p), proc'[p].pc = "update"
  PROVE  /\ proc'[p].snap = proc[p].snap /\ proc'[p].view = proc[p].view
         /\ proc'[p].target = [state |-> "running", reason |-> "children_contract_valid"]
         /\ parent' = Resumed(p)
<1> DEFINE t == [state |-> "running", reason |-> "children_contract_valid"]
<1>1. \/ Become(p, AfterReconcile(p))
      \/ Become(p, [proc[p] EXCEPT !.pc = "update", !.target = t]) /\ parent' = Resumed(p)
  BY DEF ResumeParent
<1> HIDE DEF t
<1>2. Become(p, [proc[p] EXCEPT !.pc = "update", !.target = t]) /\ parent' = Resumed(p)
  BY <1>1, Goes
<1>3. /\ proc'[p].snap = proc[p].snap /\ proc'[p].view = proc[p].view /\ proc'[p].target = t
  BY <1>2, SettleKeeps
<1> QED
  BY <1>2, <1>3 DEF t

\* The steps of a notification carry what was read.
LEMMA NotificationBrings ==
  ASSUME SInv, NEW p \in Processes
  PROVE  /\ UpdateState(p) /\ proc'[p].pc = "notify" =>
               proc'[p].snap = proc[p].snap /\ proc'[p].view = proc[p].view
         /\ ReadBlockers(p) /\ proc'[p].pc = "send" =>
               proc'[p].snap = proc[p].snap /\ proc'[p].view = proc[p].view
         /\ NotifyParent(p) /\ proc'[p].pc = "notified" =>
               /\ proc'[p].snap = proc[p].snap /\ proc'[p].view = proc[p].view
               /\ parent' = Notified(p)
<1>1. ASSUME UpdateState(p), proc'[p].pc = "notify"
      PROVE  proc'[p].snap = proc[p].snap /\ proc'[p].view = proc[p].view
  <2>1. Become(p, Goto(p, "notify")) \/ Become(p, AfterReconcile(p))
    BY <1>1 DEF UpdateState
  <2> QED
    BY <1>1, <2>1, Goes, GotoKeeps
<1>2. ASSUME ReadBlockers(p), proc'[p].pc = "send"
      PROVE  proc'[p].snap = proc[p].snap /\ proc'[p].view = proc[p].view
  <2>1. Become(p, Goto(p, "send")) \/ Become(p, AfterReconcile(p))
    BY <1>2 DEF ReadBlockers
  <2> QED
    BY <1>2, <2>1, Goes, GotoKeeps
<1>3. ASSUME NotifyParent(p), proc'[p].pc = "notified"
      PROVE  /\ proc'[p].snap = proc[p].snap /\ proc'[p].view = proc[p].view
             /\ parent' = Notified(p)
  <2>1. (Become(p, Goto(p, "notified")) /\ parent' = Notified(p)) \/ Become(p, AfterReconcile(p))
    BY <1>3 DEF NotifyParent
  <2> QED
    BY <1>3, <2>1, Goes, GotoKeeps
<1> QED
  BY <1>1, <1>2, <1>3

\* What a poll leaves to be recorded.
LEMMA PollBrings ==
  ASSUME SInv, NEW p \in Processes, PollChild(p), proc'[p].pc = "record"
  PROVE  \E e \in proc[p].todo :
            /\ e.id \in Attempts /\ proc'[p].cur = e.id
            /\ \/ /\ ~e.flag /\ task' = task
                  /\ proc'[p].obs = Report(task[e.id], PolledState(task[e.id]))
               \/ \E t \in CancelOutcomes(e.id) :
                     /\ e.flag
                     /\ task' = [task EXCEPT ![e.id] = t]
                     /\ proc'[p].obs = Report(t, CanceledState(t))
<1>1. proc[p] \in ProcessType /\ At(p, "poll")
  BY DEF SInv, IInv, PollChild
<1> DEFINE rest(e) == [proc[p] EXCEPT !.todo = @ \ {e}, !.touched = TRUE]
<1>2. PICK e \in proc[p].todo :
         \/ \E t \in CancelOutcomes(e.id) :
               /\ e.flag
               /\ task' = [task EXCEPT ![e.id] = t]
               /\ Become(p, [rest(e) EXCEPT !.pc = "record", !.cur = e.id,
                                            !.obs = Report(t, CanceledState(t))])
         \/ /\ ~e.flag /\ task' = task
            /\ Become(p, [rest(e) EXCEPT !.pc = "record", !.cur = e.id,
                             !.obs = Report(task[e.id], PolledState(task[e.id]))])
         \/ Become(p, rest(e))
  BY DEF PollChild
<1>3. e.id \in Attempts
  BY <1>1, LocalFields DEF Items
<1>4. ASSUME NEW o, Become(p, [rest(e) EXCEPT !.pc = "record", !.cur = e.id, !.obs = o])
      PROVE  proc'[p].cur = e.id /\ proc'[p].obs = o
  <2> DEFINE l == [rest(e) EXCEPT !.pc = "record", !.cur = e.id, !.obs = o]
  <2>1. l.cur = e.id /\ l.obs = o
    BY <1>1 DEF ProcessType
  <2> HIDE DEF l
  <2> QED
    BY <1>4, <2>1, BecomesOnly DEF l
<1>5. ~Become(p, rest(e))
  <2>1. rest(e).pc = "poll"
    BY <1>1 DEF ProcessType, At
  <2> HIDE DEF rest
  <2> QED
    BY <2>1, BecomesOnly
<1> HIDE DEF rest
<1> QED
  BY <1>2, <1>3, <1>4, <1>5

\* What the cancel request of a retry leaves to be recorded is no end.
LEMMA CancelAnswerBrings ==
  ASSUME SInv, NEW p \in Processes, CancelBeforeRetry(p), proc'[p].pc = "answered"
  PROVE  proc'[p].cur = proc[p].cur /\ proc'[p].obs.state \in {"running", "blocked"}
<1> DEFINE a == proc[p].cur
<1>1. proc[p] \in ProcessType /\ At(p, "retryCancel") /\ LocalOK(proc[p], child, task) /\ IInv
  BY DEF SInv, IInv, CancelBeforeRetry
<1>2. a \in Attempts
  BY <1>1 DEF At, LocalOK, WithAttempt
<1> DEFINE l(t) == [proc[p] EXCEPT !.pc = "answered", !.obs = Report(t, NormalizedState(t))]
<1>3. \/ \E t \in CancelOutcomes(a) : ~StoppedForRetry(t) /\ Become(p, l(t))
      \/ Become(p, Goto(p, "retryCreate")) \/ Become(p, Idle)
  BY DEF CancelBeforeRetry
<1>4. PICK t \in CancelOutcomes(a) : ~StoppedForRetry(t) /\ Become(p, l(t))
  BY <1>3, Goes
<1>5. t.state \in {"working", "input"}
  BY <1>1, <1>2, <1>4, CancelOutcomeTyped DEF StoppedForRetry, TaskTerminal
<1>6. Report(t, NormalizedState(t)).state \in {"running", "blocked"}
  BY <1>5 DEF Report, NormalizedState
<1>7. l(t).cur = a /\ l(t).obs = Report(t, NormalizedState(t))
  BY <1>1 DEF ProcessType
<1> HIDE DEF l
<1>8. proc'[p] = l(t)
  BY <1>4, BecomesOnly
<1> QED
  BY <1>6, <1>7, <1>8

\* A reply reports the task as it is then.
LEMMA ReplyBrings ==
  ASSUME SInv, NEW p \in Processes, ReplyChild(p), proc'[p].pc = "replied"
  PROVE  /\ proc'[p].cur = proc[p].cur
         /\ proc'[p].obs.state = NormalizedState(task'[proc[p].cur])
<1> DEFINE a == proc[p].cur
<1> DEFINE woken == [task[a] EXCEPT !.state = "working"]
<1> DEFINE l(t) == [proc[p] EXCEPT !.pc = "replied", !.obs = Report(t, NormalizedState(t))]
<1>1. proc[p] \in ProcessType /\ At(p, "reply") /\ LocalOK(proc[p], child, task) /\ IInv
  BY DEF SInv, IInv, ReplyChild
<1>2. a \in Attempts
  BY <1>1 DEF At, LocalOK, WithAttempt
<1>3. \/ \E t \in {woken} \cup Successors(woken) : task' = [task EXCEPT ![a] = t] /\ Become(p, l(t))
      \/ Become(p, Idle)
      \/ UNCHANGED task /\ Become(p, l(task[a]))
  BY DEF ReplyChild
<1>4. PICK t : task'[a] = t /\ Become(p, l(t))
  BY <1>1, <1>2, <1>3, Goes DEF IInv, RemoteTypeOK
<1>5. l(t).cur = a /\ l(t).obs = Report(t, NormalizedState(t))
  BY <1>1 DEF ProcessType
<1>6. Report(t, NormalizedState(t)).state = NormalizedState(t)
  BY DEF Report
<1> HIDE DEF l
<1>7. proc'[p] = l(t)
  BY <1>4, BecomesOnly
<1> QED
  BY <1>4, <1>5, <1>6, <1>7

\* A delivered reply is then recorded as it was answered.
LEMMA DeliveryBrings ==
  ASSUME SInv, NEW p \in Processes, MarkMessageDelivered(p)
  PROVE  At(p, "replied") /\ proc'[p].cur = proc[p].cur /\ proc'[p].obs = proc[p].obs
<1> DEFINE l == [proc[p] EXCEPT !.pc = "answered", !.msg = 0]
<1>1. proc[p] \in ProcessType /\ Become(p, l) /\ At(p, "replied")
  BY DEF SInv, IInv, MarkMessageDelivered
<1>2. l.cur = proc[p].cur /\ l.obs = proc[p].obs
  BY <1>1 DEF ProcessType
<1> HIDE DEF l
<1> QED
  BY <1>1, <1>2, BecomesOnly

--------------------------------------------------------------------------------
(* Plans and rows.                                                         *)

\* The sealed generations are those reserved so far; every row belongs to one,
\* and every child of one keeps an attempt that was not retried.
PlansInv ==
    /\ \A g \in Generations : plan[g] # NoPlan <=> g <= execution.gen
    /\ \A a \in Attempts : Present(a) => a.key \in KeysOf(a.gen)
    /\ \A g \in Generations : \A k \in KeysOf(g) :
          \E a \in Attempts : a.gen = g /\ a.key = k /\ Live(a)

\* The attempt that is not retried is the latest of its child.
LEMMA LiveIsLatest ==
  ASSUME SInv, NEW a \in Attempts
  PROVE  Live(a) <=> Latest(a)
<1>1. LedgerInv /\ LifeInv
  BY DEF SInv, IInv
<1>2. ASSUME Live(a), NEW n \in 1..MaxAttempts, n > a.attempt
      PROVE  ~Present([a EXCEPT !.attempt = n])
  <2> DEFINE b == [a EXCEPT !.attempt = n]
  <2>1. b \in Attempts /\ b.gen = a.gen /\ b.key = a.key /\ b.attempt = n
    BY AttemptVersions
  <2> HIDE DEF b
  <2>2. ~Present(b)
    BY <1>1, <1>2, <2>1, AttemptVersions DEF LedgerInv, RetriedIsSuperseded, Live, Present
  <2> QED
    BY <2>2 DEF b
<1>3. Live(a) => Present(a)
  BY DEF Live, Present
<1>4. Latest(a) => Live(a)
  BY <1>1 DEF LifeInv, SupersededIsReplaced, Live, Latest, Present
<1> QED
  BY <1>2, <1>3, <1>4 DEF Latest

\* A sealed generation is never sealed again.
LEMMA SealedStays ==
  ASSUME SInv, PlansInv, GenerationChange, NEW g \in Generations, g <= execution.gen
  PROVE  plan'[g] = plan[g]
<1>1. execution.gen \in 0..MaxGeneration /\ plan \in [Generations -> Plans \cup {NoPlan}]
  BY ExecutionFields DEF SInv, IInv, LedgerInv, LedgerTypeOK
<1>2. g # execution.gen + 1
  BY <1>1 DEF Generations
<1> QED
  BY <1>1, <1>2 DEF GenerationChange

\* Every child of a sealed generation keeps an attempt that is not retried.
LEMMA LiveStays ==
  ASSUME SInv, LedgerChange, NEW a \in Attempts, Live(a)
  PROVE  \E b \in Attempts : b.gen = a.gen /\ b.key = a.key /\ Live(b)'
<1>1. RowChange(a)
  BY DEF LedgerChange
<1>2. child[a] # NoRow
  BY RowsTyped DEF Live
<1>3. ASSUME NEW p \in Processes
      PROVE  ProjectedState(a, proc[p].obs) \in ObservedStates
  BY LocalFields DEF SInv, IInv, ProjectedState, Observations, ObservedStates
<1>4. CASE Replaced(a)
  BY <1>4 DEF Replaced
<1>5. CASE ~Replaced(a)
  <2>1. RowStays(a) => Live(a)'
    BY DEF RowStays, Live
  <2>2. Claimed(a) \/ Attached(a) => Live(a)'
    BY DEF Claimed, Attached, Live
  <2>3. Observed(a) => Live(a)'
    BY <1>3 DEF Observed, Live, ObservedStates
  <2>4. Overdue(a) \/ GivenUp(a) \/ CalledOff(a) => Live(a)'
    BY DEF Overdue, GivenUp, CalledOff, Live
  <2> QED
    BY <1>1, <1>2, <1>5, <2>1, <2>2, <2>3, <2>4 DEF RowChange, Added
<1> QED
  BY <1>4, <1>5

\* A row appears only in a plan that knows its child.
LEMMA RowAppears ==
  ASSUME SInv, LedgerChange, NEW a \in Attempts, ~Present(a), Present(a)'
  PROVE  Added(a)
<1>1. RowChange(a)
  BY DEF LedgerChange
<1>2. ~RowStays(a)
  BY DEF RowStays, Present
<1>3. ~Claimed(a) /\ ~Attached(a)
  BY DEF Claimed, Claimable, Attached, HandleAttaches, HandleArrivesCanceled, Present
<1>4. ~Observed(a) /\ ~Overdue(a) /\ ~GivenUp(a) /\ ~CalledOff(a)
  BY DEF Observed, Overdue, GivenUp, CalledOff
<1>5. ~Replaced(a)
  BY DEF Replaced, Live, Present
<1> QED
  BY <1>1, <1>2, <1>3, <1>4, <1>5 DEF RowChange

\* Nothing is sealed to begin with.
LEMMA PlansInit == Init => PlansInv
<1> SUFFICES ASSUME Init
             PROVE  PlansInv
  OBVIOUS
<1>1. execution.gen = 0
  BY DEF Init, LedgerInit
<1>2. \A g \in Generations : plan[g] = NoPlan
  BY DEF Init, LedgerInit
<1>3. \A g \in Generations : ~(g <= 0)
  BY DEF Generations
<1>4. \A a \in Attempts : ~Present(a)
  BY DEF Init, LedgerInit, Present, NoRow
<1> QED
  BY <1>1, <1>2, <1>3, <1>4 DEF PlansInv, KeysOf

\* A reservation seals the next generation with rows for all its children, and
\* a retry replaces a row of a child by another.
LEMMA PlansStep ==
  ASSUME SInv, PlansInv, LedgerChange
  PROVE  PlansInv'
<1>1. /\ execution.gen \in 0..MaxGeneration /\ plan \in [Generations -> Plans \cup {NoPlan}]
      /\ RowsInGenerations /\ LedgerInv
  BY ExecutionFields DEF SInv, IInv, LedgerInv, LedgerTypeOK
<1>2. GenerationChange
  BY DEF LedgerChange, ExecutionChange
<1>3. \A g \in Generations : g <= execution.gen => plan'[g] = plan[g] /\ KeysOf(g)' = KeysOf(g)
  BY <1>2, SealedStays DEF KeysOf
<1>4. \A g \in Generations : plan'[g] # NoPlan <=> g <= execution'.gen
  <2>1. CASE execution'.gen = execution.gen /\ plan' = plan
    BY <2>1 DEF PlansInv
  <2>2. ASSUME NEW pl \in Plans, execution'.gen = execution.gen + 1,
               execution.gen + 1 \in Generations,
               plan' = [plan EXCEPT ![execution.gen + 1] = pl]
        PROVE  \A g \in Generations : plan'[g] # NoPlan <=> g <= execution'.gen
    <3> TAKE g \in Generations
    <3>1. CASE g = execution.gen + 1
      BY <1>1, <2>2, <3>1, LedgerAssumption DEF Generations
    <3>2. CASE g # execution.gen + 1
      <4>1. plan'[g] = plan[g]
        BY <1>1, <2>2, <3>2
      <4>2. g <= execution.gen <=> g <= execution.gen + 1
        BY <1>1, <3>2 DEF Generations
      <4> QED
        BY <2>2, <4>1, <4>2 DEF PlansInv
    <3> QED
      BY <3>1, <3>2
  <2> QED
    BY <1>2, <2>1, <2>2 DEF GenerationChange
<1>5. \A a \in Attempts : Present(a) => a.gen \in Generations /\ a.gen <= execution.gen
  BY <1>1, AttemptVersions DEF RowsInGenerations
<1>6. ASSUME NEW a \in Attempts, Present(a)'
      PROVE  a.key \in KeysOf(a.gen)'
  <2>1. CASE Present(a)
    BY <1>3, <1>5, <2>1 DEF PlansInv
  <2>2. CASE ~Present(a)
    <3>1. Added(a)
      BY <1>6, <2>2, RowAppears
    <3>2. CASE plan'[a.gen] \in Plans /\ a.key \in DOMAIN plan'[a.gen].deps
      BY <3>2, LedgerAssumption DEF KeysOf
    <3>3. ASSUME NEW b \in Attempts, b.gen = a.gen, b.key = a.key, Live(b)
          PROVE  a.key \in KeysOf(a.gen)'
      <4>1. Present(b)
        BY <3>3 DEF Live, Present
      <4> QED
        BY <1>3, <1>5, <3>3, <4>1 DEF PlansInv
    <3> QED
      BY <3>1, <3>2, <3>3 DEF Added
  <2> QED
    BY <2>1, <2>2
<1>7. ASSUME NEW g \in Generations, NEW k \in KeysOf(g)'
      PROVE  \E a \in Attempts : a.gen = g /\ a.key = k /\ Live(a)'
  <2>1. CASE g <= execution.gen
    <3>1. PICK a \in Attempts : a.gen = g /\ a.key = k /\ Live(a)
      BY <1>3, <1>7, <2>1 DEF PlansInv
    <3> QED
      BY <3>1, LiveStays
  <2>2. CASE ~(g <= execution.gen)
    <3>1. plan[g] = NoPlan /\ plan'[g] # NoPlan
      BY <1>7, <2>2 DEF PlansInv, KeysOf
    <3>2. PICK pl \in Plans :
             /\ execution.gen + 1 \in Generations
             /\ plan' = [plan EXCEPT ![execution.gen + 1] = pl]
             /\ \A a \in Attempts :
                   a.gen = execution.gen + 1 /\ a.key \in DOMAIN pl.deps /\ a.attempt = 1
                       => child'[a] = ReservedRow
      BY <1>2, <3>1 DEF GenerationChange
    <3>3. g = execution.gen + 1 /\ plan'[g] = pl /\ pl # NoPlan
      BY <1>1, <3>1, <3>2
    <3>4. k \in DOMAIN pl.deps /\ k \in Keys
      BY <1>7, <3>3, LedgerAssumption DEF KeysOf
    <3> DEFINE a == [gen |-> g, key |-> k, attempt |-> 1]
    <3>5. a \in Attempts /\ a.gen = g /\ a.key = k /\ a.attempt = 1
      BY <3>4, LedgerAssumption DEF Attempts
    <3> HIDE DEF a
    <3>6. child'[a].state = "reserved"
      BY <3>2, <3>3, <3>4, <3>5, RowsTyped
    <3> QED
      BY <3>5, <3>6 DEF Live
  <2> QED
    BY <2>1, <2>2
<1> QED
  BY <1>4, <1>6, <1>7 DEF PlansInv

\* A child's plan is fixed as long as it has a row.
LEMMA RowPlanStays ==
  ASSUME SInv, PlansInv, LedgerChange, NEW a \in Attempts, Present(a)
  PROVE  plan'[a.gen] = plan[a.gen]
<1>1. a.gen \in Generations /\ a.gen <= execution.gen
  BY AttemptVersions DEF SInv, IInv, LedgerInv, RowsInGenerations
<1> QED
  BY <1>1, SealedStays DEF LedgerChange, ExecutionChange

\* Plans and rows fit together in every reachable state.
LEMMA PlansHold == Spec => [](SInv /\ PlansInv)
<1>1. Init => SInv /\ PlansInv
  BY LifeInit, PlansInit
<1>2. SInv /\ PlansInv /\ [Next]_vars => (SInv /\ PlansInv)'
  BY LifeSteps, LedgerSteps, PlansStep
<1> QED
  BY <1>1, <1>2, PTL DEF Spec

--------------------------------------------------------------------------------
(* Completions.  A reply's answer may report a completion whose evidence   *)
(* nobody has checked (a finding of its own), so all that rests on         *)
(* completions holds where no coordinator replies.                         *)

Accepted(a) == task[a].state = "accepted"

NoReplies == Repliers = {}

\* A completion in the ledger, or on its way there, is one the evidence policy
\* accepted.
CompletionsInv ==
    /\ \A a \in Attempts : child[a].state = "completed" => Accepted(a)
    /\ \A p \in Processes : proc[p].pc \notin {"reply", "replied"}
    /\ \A p \in Processes, a \in Attempts :
          /\ proc[p].pc \in {"record", "answered"} /\ proc[p].cur = a
          /\ proc[p].obs.state = "completed"
          => Accepted(a)

\* A finished task stays as it is.
LEMMA FinishedTasksStay ==
  ASSUME RemoteChange, NEW a \in Attempts, TaskTerminal(task[a])
  PROVE  task'[a] = task[a]
  BY DEF RemoteChange, TaskChange, TaskTerminal, Unfinished

\* So does an accepted one.
LEMMA AcceptedStays ==
  ASSUME RemoteChange, NEW a \in Attempts, Accepted(a)
  PROVE  Accepted(a)'
  BY FinishedTasksStay DEF Accepted, TaskTerminal

\* Nothing is completed to begin with.
LEMMA CompletionsInit == Init => CompletionsInv
<1> SUFFICES ASSUME Init
             PROVE  CompletionsInv
  OBVIOUS
<1>1. \A a \in Attempts : child[a].state = "none"
  BY DEF Init, LedgerInit, NoRow
<1>2. \A p \in Processes : proc[p].pc = "idle"
  BY DEF Init, Idle
<1> QED
  BY <1>1, <1>2 DEF CompletionsInv


\* A poll reports the completion of a task only once it is accepted.
LEMMA CompletionsStep ==
  ASSUME NoReplies, SInv, SInv', CompletionsInv, [Next]_vars
  PROVE  CompletionsInv'
<1>1. LedgerChange /\ RemoteChange
  BY LedgerSteps, RemoteSteps
<1>2. ASSUME NEW p \in Processes
      PROVE  proc'[p].pc \notin {"reply", "replied"}
  <2>1. proc'[p] = proc[p] \/ Arrives(p)
    BY ProcessArrives
  <2>2. ~ReserveMessage(p)
    BY DEF ReserveMessage, NoReplies
  <2>3. ~ReplyChild(p)
    BY DEF ReplyChild, At, CompletionsInv
  <2> QED
    BY <2>1, <2>2, <2>3 DEF Arrives, CompletionsInv
<1>3. ASSUME NEW a \in Attempts, child'[a].state = "completed"
      PROVE  Accepted(a)'
  <2>1. CASE child[a].state = "completed"
    BY <1>1, <2>1, AcceptedStays DEF CompletionsInv
  <2>2. CASE child[a].state # "completed"
    <3>1. RowChange(a)
      BY <1>1 DEF LedgerChange
    <3>2. Observed(a)
      BY <1>3, <2>2, <3>1, RowsTyped DEF RowChange, RowStays, Added, Claimed, Attached, Overdue,
         GivenUp, CalledOff, Replaced
    <3>3. PICK p \in Processes :
             /\ proc[p].pc \in {"record", "answered"} /\ proc[p].cur = a
             /\ child'[a].state = ProjectedState(a, proc[p].obs)
      BY <3>2 DEF Observed
    <3>4. proc[p].obs.state = "completed"
      BY <1>3, <3>3 DEF ProjectedState
    <3> QED
      BY <1>1, <3>3, <3>4, AcceptedStays DEF CompletionsInv
  <2> QED
    BY <2>1, <2>2
<1>4. ASSUME NEW p \in Processes, NEW a \in Attempts,
             proc'[p].pc \in {"record", "answered"}, proc'[p].cur = a,
             proc'[p].obs.state = "completed"
      PROVE  Accepted(a)'
  <2>1. CASE proc'[p] = proc[p]
    <3>1. Accepted(a)
      BY <1>4, <2>1 DEF CompletionsInv
    <3> QED
      BY <1>1, <3>1, AcceptedStays
  <2>2. CASE Arrives(p) /\ proc'[p].pc = "record"
    <3>1. PollChild(p)
      BY <2>2 DEF Arrives
    <3>2. PICK e \in proc[p].todo :
            /\ e.id = a
            /\ \/ /\ ~e.flag /\ task' = task
                  /\ proc'[p].obs = Report(task[e.id], PolledState(task[e.id]))
               \/ \E t \in CancelOutcomes(e.id) :
                     /\ e.flag
                     /\ task' = [task EXCEPT ![e.id] = t]
                     /\ proc'[p].obs = Report(t, CanceledState(t))
      BY <1>4, <2>2, <3>1, PollBrings
    <3>3. \A t : CanceledState(t) # "completed"
      BY DEF CanceledState
    <3>4. \A t, s : Report(t, s).state = s
      BY DEF Report
    <3>5. task' = task /\ PolledState(task[a]) = "completed"
      BY <1>4, <3>2, <3>3, <3>4
    <3>6. task[a] \in TaskType /\ task[a].state # "refused"
      BY <3>5 DEF PolledState, SInv, IInv, RemoteTypeOK
    <3>7. task[a].state = "accepted"
      BY <3>5, <3>6 DEF PolledState, NormalizedState, TaskType, TaskStates
    <3> QED
      BY <3>2, <3>5, <3>7 DEF Accepted
  <2>3. CASE Arrives(p) /\ proc'[p].pc = "answered"
    <3>1. ~MarkMessageDelivered(p)
      BY DEF MarkMessageDelivered, At, CompletionsInv
    <3>2. CancelBeforeRetry(p)
      BY <2>3, <3>1 DEF Arrives
    <3> QED
      BY <1>4, <2>3, <3>2, CancelAnswerBrings
  <2> QED
    BY <1>4, <2>1, <2>2, <2>3, ProcessArrives
<1> QED
  BY <1>2, <1>3, <1>4 DEF CompletionsInv

\* Where no coordinator replies, only a completion the evidence policy accepts
\* satisfies the join, and so lets the parent go on (record_observation,
\* _reconcile_child): whatever polls, crashes and cancel requests race.
THEOREM CompletionsAreAccepted ==
  ASSUME Repliers = {}
  PROVE  Spec => []CompletedIsAccepted
<1>1. NoReplies
  BY DEF NoReplies
<1>2. Init => SInv /\ CompletionsInv
  BY LifeInit, CompletionsInit
<1>3. SInv /\ CompletionsInv /\ [Next]_vars => (SInv /\ CompletionsInv)'
  BY <1>1, LifeSteps, CompletionsStep
<1>4. CompletionsInv => CompletedIsAccepted
  BY DEF CompletionsInv, CompletedIsAccepted, Accepted
<1> QED
  BY <1>2, <1>3, <1>4, PTL DEF Spec

--------------------------------------------------------------------------------
(* Dependencies and joins.                                                 *)

\* A dependency that completed did so with an accepted result, for good.
LEMMA DependenciesStep ==
  ASSUME SInv, PlansInv, CompletionsInv, LaunchedAfterDependencies, LedgerChange, RemoteChange
  PROVE  LaunchedAfterDependencies'
<1> SUFFICES ASSUME NEW a \in Attempts, child'[a].fence > 0
             PROVE  \A k \in plan'[a.gen].deps[a.key] :
                       \E b \in Attempts : b.gen = a.gen /\ b.key = k /\ Accepted(b)'
  BY DEF LaunchedAfterDependencies, Accepted
<1>1. RowChange(a) /\ child[a].fence \in Nat
  BY DEF LedgerChange, SInv, IInv, LedgerInv, LedgerTypeOK, RowType
<1>2. Present(a)
  <2>1. CASE ~Present(a)' /\ ~Present(a)
    <3>1. RowStays(a)
      BY <1>1, <2>1, RowsTyped DEF RowChange, Added, Claimed, Attached, Observed, Overdue,
         GivenUp, CalledOff, Replaced, Claimable, Present, Live, HandleAttaches,
         HandleArrivesCanceled
    <3>2. child[a] = NoRow
      BY <2>1 DEF SInv, IInv, LedgerInv, AbsentRowsEmpty
    <3> QED
      BY <3>1, <3>2, RowsTyped DEF RowStays
  <2>2. CASE Present(a)' /\ ~Present(a)
    BY <2>2, RowAppears, RowsTyped DEF Added
  <2>3. CASE ~Present(a)' /\ Present(a)
    <3>1. \A p \in Processes : ProjectedState(a, proc[p].obs) # "none"
      BY LocalFields DEF SInv, IInv, ProjectedState, Observations, ObservedStates
    <3> QED
      BY <1>1, <2>3, <3>1, RowsTyped DEF RowChange, RowStays, Added, Claimed, Attached, Observed,
         Overdue, GivenUp, CalledOff, Replaced, Present
  <2> QED
    BY <2>1, <2>2, <2>3
<1>3. plan'[a.gen] = plan[a.gen]
  BY <1>2, RowPlanStays
<1>4. CASE child[a].fence > 0
  BY <1>3, <1>4, AcceptedStays DEF LaunchedAfterDependencies, Accepted
<1>5. CASE ~(child[a].fence > 0)
  <2>1. child'[a].fence # child[a].fence
    BY <1>1, <1>5
  <2>2. Claimed(a)
    BY <1>1, <1>2, <2>1, RowsTyped DEF RowChange, RowStays, Added, Attached, Observed, Overdue,
       GivenUp, CalledOff, Replaced, Kept, Present
  <2>3. DependenciesCompleted(a)
    BY <2>2 DEF Claimed, Claimable
  <2>4. ASSUME NEW k \in plan'[a.gen].deps[a.key]
        PROVE  \E b \in Attempts : b.gen = a.gen /\ b.key = k /\ Accepted(b)'
    <3>1. PICK b \in CurrentAttempts(a.gen) : b.key = k /\ child[b].state = "completed"
      BY <1>3, <2>3, <2>4 DEF DependenciesCompleted
    <3>2. b \in Attempts /\ b.gen = a.gen /\ Accepted(b)
      BY <3>1 DEF CurrentAttempts, CompletionsInv
    <3> QED
      BY <3>1, <3>2, AcceptedStays
  <2> QED
    BY <2>4
<1> QED
  BY <1>4, <1>5

\* Every child of generation g has an attempt that finished with an accepted result.
JoinAccepted(g) == \A k \in KeysOf(g) : \E a \in Attempts : a.gen = g /\ a.key = k /\ Accepted(a)

\* A generation a process joins is sealed; one it resumes the parent past, and
\* one the parent went past, is accepted.
JoinsInv ==
    /\ \A p \in Processes, g \in Generations :
          proc[p].pc \in {"join", "resume"} /\ proc[p].view.gen = g =>
              g <= execution.gen /\ (proc[p].pc = "resume" => JoinAccepted(g))
    /\ \A g \in parent.joined : g <= execution.gen /\ JoinAccepted(g)

\* A join of a sealed generation that is ready is accepted.
LEMMA ReadyIsAccepted ==
  ASSUME SInv, PlansInv, CompletionsInv, NEW g \in Generations, JoinReady(g)
  PROVE  JoinAccepted(g)
<1> SUFFICES ASSUME NEW k \in KeysOf(g)
             PROVE  \E a \in Attempts : a.gen = g /\ a.key = k /\ Accepted(a)
  BY DEF JoinAccepted
<1>1. PICK a \in Attempts : a.gen = g /\ a.key = k /\ Live(a)
  BY DEF PlansInv
<1>2. a \in CurrentAttempts(g)
  BY <1>1, LiveIsLatest DEF CurrentAttempts
<1> QED
  BY <1>1, <1>2 DEF JoinReady, CompletionsInv

\* It stays so.
LEMMA JoinAcceptedStays ==
  ASSUME SInv, PlansInv, LedgerChange, RemoteChange, NEW g \in Generations,
         g <= execution.gen, JoinAccepted(g)
  PROVE  JoinAccepted(g)' /\ g <= execution'.gen
<1>1. GenerationChange
  BY DEF LedgerChange, ExecutionChange
<1>2. plan'[g] = plan[g]
  BY <1>1, SealedStays
<1>3. execution.gen \in 0..MaxGeneration
  BY ExecutionFields DEF SInv, IInv, LedgerInv, LedgerTypeOK
<1>4. g <= execution'.gen
  BY <1>1, <1>3 DEF GenerationChange, Generations
<1>5. JoinAccepted(g)'
  BY <1>2, AcceptedStays DEF JoinAccepted, KeysOf
<1> QED
  BY <1>4, <1>5

\* A join that is read ready was accepted.
LEMMA JoinsStep ==
  ASSUME SInv, SInv', PlansInv, CompletionsInv, JoinsInv, [Next]_vars
  PROVE  JoinsInv'
<1>1. LedgerChange /\ RemoteChange
  BY LedgerSteps, RemoteSteps
<1>2. /\ execution.gen \in 0..MaxGeneration
      /\ execution'.gen = execution.gen \/ execution'.gen = execution.gen + 1
  BY <1>1, ExecutionFields DEF SInv, IInv, LedgerInv, LedgerTypeOK, LedgerChange, ExecutionChange,
     GenerationChange
<1>3. \A p \in Processes :
         proc[p].pc \in {"join", "resume"} => proc[p].view.gen \in Generations
  BY DEF SInv, IInv, LocalOK
<1>4. ASSUME NEW p \in Processes, NEW g \in Generations,
             proc'[p].pc \in {"join", "resume"}, proc'[p].view.gen = g
      PROVE  g <= execution.gen /\ (proc'[p].pc = "resume" => JoinAccepted(g))
  <2>1. CASE proc'[p] = proc[p]
    BY <1>4, <2>1 DEF JoinsInv
  <2>2. CASE Arrives(p) /\ proc'[p].pc = "join"
    <3>1. proc'[p].view.gen = execution.gen
      BY <2>2, ReadChildrenBrings DEF Arrives
    <3> QED
      BY <1>2, <1>4, <2>2, <3>1
  <2>3. CASE Arrives(p) /\ proc'[p].pc = "resume"
    <3>1. ReadJoin(p) /\ proc[p].pc = "join"
      BY <2>3 DEF Arrives, ReadJoin, At
    <3>2. proc'[p].view = proc[p].view /\ JoinReady(proc[p].view.gen)
      BY <2>3, <3>1, ReadJoinBrings
    <3> QED
      BY <1>4, <3>1, <3>2, ReadyIsAccepted DEF JoinsInv
  <2> QED
    BY <1>4, <2>1, <2>2, <2>3, ProcessArrives
<1>5. ASSUME NEW p \in Processes, NEW g \in Generations,
             proc'[p].pc \in {"join", "resume"}, proc'[p].view.gen = g
      PROVE  g <= execution'.gen /\ (proc'[p].pc = "resume" => JoinAccepted(g)')
  <2>1. g <= execution.gen /\ (proc'[p].pc = "resume" => JoinAccepted(g))
    BY <1>4, <1>5
  <2>2. g <= execution'.gen
    BY <1>2, <2>1 DEF Generations
  <2> QED
    BY <1>1, <2>1, <2>2, JoinAcceptedStays
<1>6. ASSUME NEW g \in parent'.joined
      PROVE  g <= execution'.gen /\ JoinAccepted(g)'
  <2>1. parent \in ParentType
    BY DEF SInv, IInv, RemoteTypeOK
  <2>2. g \in Generations
    BY DEF SInv, IInv, RemoteTypeOK, ParentType
  <2>3. \/ g \in parent.joined
        \/ \E p \in Processes : At(p, "resume") /\ g = proc[p].view.gen
    <3>1. CASE parent'.joined = parent.joined
      BY <1>6, <3>1
    <3>2. ASSUME NEW p \in Processes, At(p, "resume"), parent' = Resumed(p)
          PROVE  g \in parent.joined \/ g = proc[p].view.gen
      <4>1. parent'.joined \subseteq parent.joined \cup {proc[p].view.gen}
        BY <2>1, <3>2 DEF Resumed, ParentType
      <4> QED
        BY <1>6, <4>1
    <3>3. ASSUME NEW p \in Processes, parent' = Notified(p)
          PROVE  parent'.joined = parent.joined
      BY <2>1, <3>3 DEF Notified, ParentType
    <3> QED
      BY <1>1, <1>6, <3>1, <3>2, <3>3 DEF RemoteChange, ParentChange
  <2>4. g <= execution.gen /\ JoinAccepted(g)
    BY <2>2, <2>3 DEF JoinsInv, At
  <2> QED
    BY <1>1, <2>2, <2>4, JoinAcceptedStays
<1> QED
  BY <1>5, <1>6 DEF JoinsInv

\* Where no coordinator replies, the parent is resumed only past an expansion
\* whose every child has an attempt that finished with an accepted result
\* (calculate_join, _project_join), although it resumes on a join read before.
THEOREM ResumesPastAcceptedJoins ==
  ASSUME Repliers = {}
  PROVE  Spec => []ResumedPastJoin
<1> DEFINE Inv == SInv /\ PlansInv /\ CompletionsInv /\ JoinsInv
<1>1. NoReplies
  BY DEF NoReplies
<1>2. Init => JoinsInv
  BY DEF Init, JoinsInv, Idle
<1>3. Init => Inv
  BY <1>2, LifeInit, PlansInit, CompletionsInit
<1>4. Inv /\ [Next]_vars => Inv'
  BY <1>1, LifeSteps, LedgerSteps, PlansStep, CompletionsStep, JoinsStep
<1>5. Inv => ResumedPastJoin
  BY DEF JoinsInv, ResumedPastJoin, JoinAccepted, Accepted
<1> HIDE DEF Inv
<1> QED
  BY <1>3, <1>4, <1>5, PTL DEF Spec

\* Where no coordinator replies, an attempt is claimed only after the tasks of
\* all the children it depends on finished with accepted results, and no later
\* retry takes that back (claim_launches).
THEOREM LaunchesFollowDependencies ==
  ASSUME Repliers = {}
  PROVE  Spec => []LaunchedAfterDependencies
<1> DEFINE Inv == SInv /\ PlansInv /\ CompletionsInv /\ LaunchedAfterDependencies
<1>1. NoReplies
  BY DEF NoReplies
<1>2. Init => LaunchedAfterDependencies
  <2> SUFFICES ASSUME Init, NEW a \in Attempts
               PROVE  ~(child[a].fence > 0)
    BY DEF LaunchedAfterDependencies
  <2>1. child[a] = NoRow
    BY DEF Init, LedgerInit
  <2> QED
    BY <2>1, RowsTyped
<1>3. Init => Inv
  BY <1>2, LifeInit, PlansInit, CompletionsInit
<1>4. Inv /\ [Next]_vars => Inv'
  BY <1>1, LifeSteps, LedgerSteps, RemoteSteps, PlansStep, CompletionsStep, DependenciesStep
<1> HIDE DEF Inv
<1>5. Inv => LaunchedAfterDependencies
  BY DEF Inv
<1> QED
  BY <1>3, <1>4, <1>5, PTL DEF Spec

--------------------------------------------------------------------------------
(* Blockers.                                                               *)

\* A child of the current generation that is blocked or failed.
Bad(a) == a.gen = execution.gen /\ child[a].state \in {"blocked", "failed"}

\* Where a process holds a blocker revision, and where also the blockers it names.
HoldsRevision == {"children", "join", "resume", "update", "notify", "send", "notified"}
HoldsBlockers == {"join", "resume", "update", "notify", "send"}

\* As long as the blocker revision a process holds, or a notice carries, is the
\* current one, it names every blocker there is.
BlockersInv ==
    /\ \A p \in Processes : proc[p].pc \in HoldsRevision => proc[p].snap.blockers <= execution.blockers
    /\ \A p \in Processes :
          proc[p].pc \in HoldsBlockers /\ proc[p].snap.blockers = execution.blockers
              => \A a \in Attempts : Bad(a) => a \in proc[p].view.bad
    /\ \A n \in parent.notices :
          /\ n.rev <= execution.blockers
          /\ n.rev = execution.blockers => \A a \in Attempts : Bad(a) => a \in n.kids
    /\ \A p \in Processes :
          proc[p].pc = "notified" => \E n \in parent.notices : n.rev = proc[p].snap.blockers
    /\ execution.notified <= execution.blockers
    /\ execution.notified > 0 => \E n \in parent.notices : n.rev = execution.notified
    /\ execution.blockers = 0 => \A a \in Attempts : ~Bad(a)

\* A new blocker raises the revision.
LEMMA NewBlockersRaise ==
  ASSUME SInv, LedgerChange, execution'.blockers = execution.blockers,
         NEW a \in Attempts, Bad(a)'
  PROVE  Bad(a)
<1>1. LedgerInv /\ RowChange(a) /\ GenerationChange
  BY DEF SInv, IInv, LedgerChange, ExecutionChange
<1>2. /\ execution.blockers \in Nat /\ execution.gen \in 0..MaxGeneration
  BY <1>1, ExecutionFields DEF LedgerInv, LedgerTypeOK
<1>3. child'[a].state = child[a].state
  <2>1. ~RaisesBlockers(a)
    BY <1>2 DEF RaisesBlockers, Bad
  <2> QED
    BY <1>1, <2>1, RowsTyped DEF RowChange, RowStays, Added, Claimed, Attached, Observed, Overdue,
       GivenUp, CalledOff, Replaced, Bad
<1>4. a.gen <= execution.gen
  BY <1>1, <1>3 DEF LedgerInv, RowsInGenerations, Present, Bad
<1>5. execution'.gen = execution.gen
  <2>1. execution'.gen = execution.gen \/ execution'.gen = execution.gen + 1
    BY <1>1 DEF GenerationChange
  <2>2. a.gen = execution'.gen
    BY DEF Bad
  <2> QED
    BY <1>2, <1>4, <2>1, <2>2
<1> QED
  BY <1>3, <1>5 DEF Bad

\* There are no blockers to begin with.
LEMMA BlockersInit == Init => BlockersInv
<1> SUFFICES ASSUME Init
             PROVE  BlockersInv
  OBVIOUS
<1>1. \A a \in Attempts : child[a].state = "none"
  BY DEF Init, LedgerInit, NoRow
<1>2. \A p \in Processes : proc[p].pc = "idle"
  BY DEF Init, Idle
<1>3. execution.notified = 0 /\ execution.blockers = 0
  BY DEF Init, LedgerInit
<1>4. parent.notices = {}
  BY DEF Init
<1> QED
  BY <1>1, <1>2, <1>3, <1>4 DEF BlockersInv, Bad, HoldsRevision, HoldsBlockers

\* The revision a process holds: it is the one it read.
LEMMA HeldRevision ==
  ASSUME SInv, [Next]_vars, NEW p \in Processes, proc'[p].pc \in HoldsRevision
  PROVE  \/ proc'[p].snap = proc[p].snap /\ proc[p].pc \in HoldsRevision
         \/ proc'[p].snap.blockers = execution.blockers /\ proc'[p].pc = "children"
<1>1. proc'[p] = proc[p] \/ Arrives(p)
  BY ProcessArrives
<1>2. CASE Arrives(p) /\ proc'[p].pc = "children"
  BY <1>2, ReadExecutionBrings DEF Arrives
<1>3. CASE Arrives(p) /\ proc'[p].pc = "join"
  BY <1>3, ReadChildrenBrings DEF Arrives, ReadChildren, At, HoldsRevision
<1>4. CASE Arrives(p) /\ proc'[p].pc = "resume"
  BY <1>4, ReadJoinBrings DEF Arrives, ReadJoin, At, HoldsRevision
<1>5. CASE Arrives(p) /\ proc'[p].pc = "update"
  <2>1. CASE ReadChildren(p)
    BY <1>5, <2>1, ReadChildrenBrings DEF ReadChildren, At, HoldsRevision
  <2>2. CASE ReadJoin(p)
    BY <1>5, <2>2, ReadJoinBrings DEF ReadJoin, At, HoldsRevision
  <2>3. CASE ResumeParent(p)
    BY <1>5, <2>3, ResumeParentBrings DEF ResumeParent, At, HoldsRevision
  <2> QED
    BY <1>5, <2>1, <2>2, <2>3 DEF Arrives
<1>6. CASE Arrives(p) /\ proc'[p].pc \in {"notify", "send", "notified"}
  BY <1>6, NotificationBrings DEF Arrives, UpdateState, ReadBlockers, NotifyParent, At, HoldsRevision
<1> QED
  BY <1>1, <1>2, <1>3, <1>4, <1>5, <1>6 DEF HoldsRevision

\* The blockers a process holds: those it held, or all there are.
LEMMA HeldBlockers ==
  ASSUME SInv, BlockersInv, [Next]_vars, NEW p \in Processes, proc'[p].pc \in HoldsBlockers
  PROVE  \/ /\ proc'[p].snap = proc[p].snap /\ proc'[p].view = proc[p].view
            /\ proc[p].pc \in HoldsBlockers
         \/ \A a \in Attempts : Bad(a) => a \in proc'[p].view.bad
<1>1. proc'[p] = proc[p] \/ Arrives(p)
  BY ProcessArrives
<1>2. CASE Arrives(p) /\ proc'[p].pc = "join"
  <2>1. proc'[p].view.bad =
           {a \in CurrentAttempts(execution.gen) : child[a].state \in {"blocked", "failed"}}
    BY <1>2, ReadChildrenBrings DEF Arrives
  <2>2. \A a \in Attempts : Bad(a) => a \in CurrentAttempts(execution.gen)
    BY LiveIsLatest DEF Bad, Live, CurrentAttempts
  <2> QED
    BY <2>1, <2>2 DEF Bad
<1>3. CASE Arrives(p) /\ proc'[p].pc = "resume"
  BY <1>3, ReadJoinBrings DEF Arrives, ReadJoin, At, HoldsBlockers
<1>4. CASE Arrives(p) /\ proc'[p].pc = "update"
  <2>1. CASE ReadChildren(p)
    <3>1. execution.gen = 0
      BY <1>4, <2>1, ReadChildrenBrings
    <3>2. \A a \in Attempts : a.gen # 0
      BY AttemptVersions DEF Generations
    <3> QED
      BY <3>1, <3>2 DEF Bad
  <2>2. CASE ReadJoin(p)
    BY <1>4, <2>2, ReadJoinBrings DEF ReadJoin, At, HoldsBlockers
  <2>3. CASE ResumeParent(p)
    BY <1>4, <2>3, ResumeParentBrings DEF ResumeParent, At, HoldsBlockers
  <2> QED
    BY <1>4, <2>1, <2>2, <2>3 DEF Arrives
<1>5. CASE Arrives(p) /\ proc'[p].pc \in {"notify", "send"}
  BY <1>5, NotificationBrings DEF Arrives, UpdateState, ReadBlockers, At, HoldsBlockers
<1> QED
  BY <1>1, <1>2, <1>3, <1>4, <1>5 DEF HoldsBlockers

\* The notices the parent has: those it had, and perhaps that of one process.
LEMMA NoticesGrow ==
  ASSUME SInv, ParentChange
  PROVE  /\ \A n \in parent.notices : n \in parent'.notices
         /\ \A n \in parent'.notices :
               \/ n \in parent.notices
               \/ \E p \in Processes :
                     /\ At(p, "send")
                     /\ n.rev = proc[p].snap.blockers /\ n.kids = proc[p].view.bad
<1>1. parent \in ParentType
  BY DEF SInv, IInv, RemoteTypeOK
<1>2. CASE parent'.notices = parent.notices
  BY <1>2
<1>3. ASSUME NEW p \in Processes, parent' = Resumed(p)
      PROVE  parent'.notices = parent.notices
  BY <1>1, <1>3 DEF Resumed, ParentType
<1>4. ASSUME NEW p \in Processes, At(p, "send"), parent' = Notified(p)
      PROVE  /\ \A n \in parent.notices : n \in parent'.notices
             /\ \A n \in parent'.notices :
                   \/ n \in parent.notices
                   \/ n.rev = proc[p].snap.blockers /\ n.kids = proc[p].view.bad
  <2> DEFINE m == [gen |-> proc[p].view.gen, rev |-> proc[p].snap.blockers, kids |-> proc[p].view.bad]
  <2>1. parent'.notices = parent.notices \/ parent'.notices = parent.notices \cup {m}
    BY <1>1, <1>4 DEF Notified, ParentType
  <2> QED
    BY <2>1
<1> QED
  BY <1>2, <1>3, <1>4 DEF ParentChange

\* What a process is about to mark as notified, the parent was told.
LEMMA NotifiedWasTold ==
  ASSUME SInv, NEW p \in Processes, NotifyParent(p), proc'[p].pc = "notified"
  PROVE  \E n \in parent'.notices : n.rev = proc[p].snap.blockers
<1>1. parent' = Notified(p) /\ parent \in ParentType
  BY NotificationBrings DEF SInv, IInv, RemoteTypeOK
<1> DEFINE m == [gen |-> proc[p].view.gen, rev |-> proc[p].snap.blockers, kids |-> proc[p].view.bad]
<1>2. CASE \E n \in parent.notices : n.gen = proc[p].view.gen /\ n.rev = proc[p].snap.blockers
  BY <1>1, <1>2 DEF Notified
<1>3. CASE ~\E n \in parent.notices : n.gen = proc[p].view.gen /\ n.rev = proc[p].snap.blockers
  <2>1. parent'.notices = parent.notices \cup {m}
    BY <1>1, <1>3 DEF Notified, ParentType
  <2>2. m.rev = proc[p].snap.blockers
    OBVIOUS
  <2> QED
    BY <2>1, <2>2
<1> QED
  BY <1>2, <1>3

\* No step lets a revision pass for one that names blockers it does not.
LEMMA BlockersStep ==
  ASSUME SInv, SInv', BlockersInv, [Next]_vars
  PROVE  BlockersInv'
<1>1. LedgerChange /\ BlockersChange /\ ParentChange
  BY LedgerSteps, RemoteSteps DEF LedgerChange, ExecutionChange, RemoteChange
<1>2. /\ execution.blockers \in Nat /\ execution.notified \in Nat
      /\ execution'.blockers \in Nat /\ execution'.notified \in Nat
      /\ execution.blockers <= execution'.blockers
  BY <1>1, ExecutionFields DEF SInv, IInv, LedgerInv, LedgerTypeOK, BlockersChange
<1>3. \A p \in Processes : proc[p].snap.blockers \in Nat
  BY LocalFields DEF SInv, IInv
<1>4. execution'.blockers = execution.blockers => \A a \in Attempts : Bad(a)' => Bad(a)
  BY <1>1, NewBlockersRaise
<1>5. ASSUME NEW p \in Processes, proc'[p].pc \in HoldsRevision
      PROVE  proc'[p].snap.blockers <= execution'.blockers
  BY <1>2, <1>3, <1>5, HeldRevision DEF BlockersInv
<1>6. ASSUME NEW p \in Processes, proc'[p].pc \in HoldsBlockers,
             proc'[p].snap.blockers = execution'.blockers,
             NEW a \in Attempts, Bad(a)'
      PROVE  a \in proc'[p].view.bad
  <2>1. CASE /\ proc'[p].snap = proc[p].snap /\ proc'[p].view = proc[p].view
             /\ proc[p].pc \in HoldsBlockers
    <3>1. proc[p].snap.blockers <= execution.blockers
      BY <2>1 DEF BlockersInv, HoldsBlockers, HoldsRevision
    <3>2. execution'.blockers = execution.blockers
      BY <1>2, <1>3, <1>6, <2>1, <3>1
    <3> QED
      BY <1>4, <1>6, <2>1, <3>2 DEF BlockersInv
  <2>2. CASE \A b \in Attempts : Bad(b) => b \in proc'[p].view.bad
    <3>1. CASE execution'.blockers = execution.blockers
      BY <1>4, <1>6, <2>2, <3>1
    <3>2. CASE execution'.blockers # execution.blockers
      <4>1. \/ proc'[p].snap = proc[p].snap /\ proc[p].pc \in HoldsRevision
            \/ proc'[p].pc = "children"
        BY <1>6, HeldRevision DEF HoldsRevision, HoldsBlockers
      <4>2. proc[p].snap.blockers = execution'.blockers /\ proc[p].snap.blockers <= execution.blockers
        BY <1>6, <4>1 DEF BlockersInv, HoldsBlockers
      <4> QED
        BY <1>2, <1>3, <3>2, <4>2
    <3> QED
      BY <3>1, <3>2
  <2> QED
    BY <1>6, <2>1, <2>2, HeldBlockers
<1>7. ASSUME NEW n \in parent'.notices
      PROVE  /\ n.rev <= execution'.blockers
             /\ n.rev = execution'.blockers => \A a \in Attempts : Bad(a)' => a \in n.kids
  <2>1. n.rev \in Nat
    BY DEF SInv, IInv, RemoteTypeOK, ParentType
  <2>2. /\ n.rev <= execution.blockers
        /\ n.rev = execution.blockers => \A a \in Attempts : Bad(a) => a \in n.kids
    <3>1. CASE n \in parent.notices
      BY <3>1 DEF BlockersInv
    <3>2. ASSUME NEW p \in Processes, At(p, "send"),
                 n.rev = proc[p].snap.blockers, n.kids = proc[p].view.bad
          PROVE  /\ n.rev <= execution.blockers
                 /\ n.rev = execution.blockers => \A a \in Attempts : Bad(a) => a \in n.kids
      BY <3>2 DEF BlockersInv, At, HoldsRevision, HoldsBlockers
    <3> QED
      BY <1>1, <3>1, <3>2, NoticesGrow
  <2>3. n.rev <= execution'.blockers
    BY <1>2, <2>1, <2>2
  <2>4. ASSUME n.rev = execution'.blockers, NEW a \in Attempts, Bad(a)'
        PROVE  a \in n.kids
    <3>1. execution'.blockers = execution.blockers
      BY <1>2, <2>1, <2>2, <2>4
    <3> QED
      BY <1>4, <2>2, <2>4, <3>1
  <2> QED
    BY <2>3, <2>4
<1>8. ASSUME NEW p \in Processes, proc'[p].pc = "notified"
      PROVE  \E n \in parent'.notices : n.rev = proc'[p].snap.blockers
  <2>1. CASE proc'[p] = proc[p]
    BY <1>1, <1>8, <2>1, NoticesGrow DEF BlockersInv
  <2>2. CASE Arrives(p)
    <3>1. NotifyParent(p) /\ proc'[p].snap = proc[p].snap
      BY <1>8, <2>2, NotificationBrings DEF Arrives
    <3> QED
      BY <1>8, <3>1, NotifiedWasTold
  <2> QED
    BY <2>1, <2>2, ProcessArrives
<1>9. execution'.notified <= execution'.blockers
  BY <1>1, <1>2 DEF BlockersChange, BlockersInv
<1>10. ASSUME execution'.notified > 0
       PROVE  \E n \in parent'.notices : n.rev = execution'.notified
  <2>1. CASE execution'.notified = execution.notified
    BY <1>1, <1>10, <2>1, NoticesGrow DEF BlockersInv
  <2>2. ASSUME NEW p \in Processes, At(p, "notified"), execution'.notified = proc[p].snap.blockers
        PROVE  \E n \in parent'.notices : n.rev = execution'.notified
    BY <1>1, <2>2, NoticesGrow DEF BlockersInv, At
  <2> QED
    BY <1>1, <2>1, <2>2 DEF BlockersChange
<1>11. execution'.blockers = 0 => \A a \in Attempts : ~Bad(a)'
  BY <1>2, <1>4 DEF BlockersInv
<1> QED
  BY <1>5, <1>6, <1>7, <1>8, <1>9, <1>10, <1>11 DEF BlockersInv

\* No blocker is marked as notified unseen: when the notified revision has
\* caught up, the parent was sent a notice of that revision that names every
\* child blocked or failed now (_notify_changed_blockers, mark_blocker_notification),
\* with any number of workers that read, notify and mark at once.
THEOREM BlockersAreNotified == Spec => []BlockersNotified
<1>1. Init => SInv /\ BlockersInv
  BY LifeInit, BlockersInit
<1>2. SInv /\ BlockersInv /\ [Next]_vars => (SInv /\ BlockersInv)'
  BY LifeSteps, BlockersStep
<1>3. SInv /\ BlockersInv => BlockersNotified
  <2> SUFFICES ASSUME SInv, BlockersInv, execution.notified = execution.blockers,
                      NEW a \in CurrentAttempts(execution.gen),
                      child[a].state \in {"blocked", "failed"}
               PROVE  \E n \in parent.notices : n.rev = execution.notified /\ a \in n.kids
    BY DEF BlockersNotified
  <2>1. a \in Attempts /\ Bad(a)
    BY DEF CurrentAttempts, Bad
  <2>2. execution.notified > 0
    BY <2>1, ExecutionFields DEF BlockersInv, SInv, IInv, LedgerInv, LedgerTypeOK
  <2> QED
    BY <2>1, <2>2 DEF BlockersInv
<1> QED
  BY <1>1, <1>2, <1>3, PTL DEF Spec

--------------------------------------------------------------------------------
(* What the ledger reports dead.  A row ends because its task was observed  *)
(* to end, because the child is overdue or was given up after failures, or  *)
(* because its execution was canceled before the task's handle came; so     *)
(* this follows the reports that processes carry to the rows.               *)

\* What excuses an end that was not observed.
Overrun(a) == DeadlineOf(a) < now \/ faults >= MaxReconcileFailures

\* An observation that ends an attempt.
Ending == {"canceled", "completed", "failed"}

\* What ended in the ledger ended remotely, is overrun, or is canceled with no
\* handle.
EndedInv ==
    \A a \in Attempts :
        /\ child[a].state = "completed" => TaskTerminal(task[a])
        /\ child[a].state \in {"failed", "superseded"} => TaskTerminal(task[a]) \/ Overrun(a)
        /\ child[a].state = "canceled" =>
              TaskTerminal(task[a]) \/ (execution.cancel /\ ~child[a].task)

\* Failed observations of an unfinished task are failed calls.
FailuresInv == \A a \in Attempts : ~TaskTerminal(task[a]) => child[a].fails <= faults

\* A task has a row.
TasksHaveRows == \A a \in Attempts : task[a].state # "none" => Present(a)

\* An end a process has observed took place; what it is to fail for its deadline
\* is overdue; and before a retry it has seen the attempt end.
ReportsInv ==
    \A p \in Processes :
        /\ \A a \in Attempts :
              proc[p].cur = a /\ proc[p].pc \in {"record", "replied", "answered"}
                  /\ proc[p].obs.state \in Ending
              => TaskTerminal(task[a])
        /\ \A a \in Attempts :
              proc[p].cur = a /\ proc[p].pc = "retryCreate"
              => TaskTerminal(task[a]) \/ execution.cancel \/ Overrun(a)
        /\ \A a \in Attempts :
              /\ proc[p].pc \in {"expiring", "expired"}
              /\ \/ \E e \in proc[p].todo : e.id = a
                 \/ proc[p].pc = "expired" /\ proc[p].cur = a
              => DeadlineOf(a) < now

DeathsInv == EndedInv /\ FailuresInv /\ TasksHaveRows /\ ReportsInv

\* Nothing runs to begin with.
LEMMA DeathsInit == Init => DeathsInv
<1> SUFFICES ASSUME Init
             PROVE  DeathsInv
  OBVIOUS
<1>1. \A a \in Attempts : child[a].state = "none" /\ child[a].fails = 0
  BY DEF Init, LedgerInit, NoRow
<1>2. \A a \in Attempts : task[a].state = "none"
  BY DEF Init
<1>3. \A p \in Processes : proc[p].pc = "idle"
  BY DEF Init, Idle
<1>4. faults = 0
  BY DEF Init
<1> QED
  BY <1>1, <1>2, <1>3, <1>4 DEF DeathsInv, EndedInv, FailuresInv, TasksHaveRows, ReportsInv

\* What is reported to have ended has ended.
LEMMA EndsAreReal ==
  ASSUME NEW t \in TaskType
  PROVE  /\ NormalizedState(t) \in Ending => TaskTerminal(t)
         /\ PolledState(t) \in Ending => TaskTerminal(t)
         /\ CanceledState(t) \in Ending => TaskTerminal(t)
  BY DEF NormalizedState, PolledState, CanceledState, Ending, TaskTerminal, TaskType, TaskStates

\* No row goes away.
LEMMA RowStaysPresent ==
  ASSUME SInv, LedgerChange, NEW a \in Attempts, Present(a)
  PROVE  Present(a)'
<1>1. RowChange(a)
  BY DEF LedgerChange
<1>2. \A p \in Processes : ProjectedState(a, proc[p].obs) # "none"
  BY LocalFields DEF SInv, IInv, ProjectedState, Observations, ObservedStates
<1> QED
  BY <1>1, <1>2, RowsTyped DEF RowChange, RowStays, Added, Claimed, Attached, Observed,
     Overdue, GivenUp, CalledOff, Replaced, Present

\* A child that is overdue stays so: its deadline was sealed with its plan.
LEMMA OverdueStays ==
  ASSUME SInv, PlansInv, LedgerChange, RemoteChange, NEW a \in Attempts, Present(a),
         DeadlineOf(a) < now
  PROVE  (DeadlineOf(a) < now)'
<1>1. DeadlineOf(a)' = DeadlineOf(a)
  BY RowPlanStays DEF DeadlineOf
<1>2. DeadlineOf(a) \in Nat
  <2>1. plan[a.gen] \in Plans /\ a.key \in DOMAIN plan[a.gen].deps
    BY AttemptVersions DEF PlansInv, KeysOf, SInv, IInv, LedgerInv, LedgerTypeOK
  <2> QED
    BY <2>1, LedgerAssumption DEF DeadlineOf
<1>3. now \in Nat /\ (now' = now \/ now' = now + 1)
  BY DEF RemoteChange, SInv, IInv, LedgerInv, LedgerTypeOK
<1> QED
  BY <1>1, <1>2, <1>3

\* So does one that overran.
LEMMA OverrunStays ==
  ASSUME SInv, PlansInv, LedgerChange, RemoteChange, NEW a \in Attempts, Present(a), Overrun(a)
  PROVE  Overrun(a)'
<1>1. faults \in Nat /\ MaxReconcileFailures \in Nat /\ (faults' = faults \/ faults' = faults + 1)
  BY LedgerAssumption DEF RemoteChange, SInv, IInv, RemoteTypeOK
<1> QED
  BY <1>1, OverdueStays DEF Overrun

\* A row ends by an observation, by a deadline, by failures, by a cancellation,
\* or by a retry that waited.
LEMMA EndedStep ==
  ASSUME SInv, SInv', PlansInv, DeathsInv, LedgerChange, RemoteChange
  PROVE  EndedInv'
<1> SUFFICES ASSUME NEW a \in Attempts,
                    child'[a].state \in {"completed", "failed", "superseded", "canceled"},
                    ~TaskTerminal(task'[a])
             PROVE  /\ child'[a].state # "completed"
                    /\ child'[a].state \in {"failed", "superseded"} => Overrun(a)'
                    /\ child'[a].state = "canceled" => execution'.cancel /\ ~child'[a].task
  BY DEF EndedInv
<1>1. RowChange(a) /\ ~TaskTerminal(task[a])
  BY FinishedTasksStay DEF LedgerChange
<1>2. execution.cancel => execution'.cancel
  BY DEF LedgerChange, ExecutionChange, RevisionChange
<1>3. CASE RowStays(a)
  <2>1. child[a].state = child'[a].state /\ child[a].task = child'[a].task /\ Present(a)
    BY <1>3 DEF RowStays, Present
  <2> QED
    BY <1>1, <1>2, <2>1, OverrunStays DEF DeathsInv, EndedInv
<1>4. ~Added(a) /\ ~Claimed(a) /\ ~Attached(a)
  BY RowsTyped DEF Added, Claimed, Attached
<1>5. ~Observed(a)
  <2> SUFFICES ASSUME Observed(a)
               PROVE  FALSE
    OBVIOUS
  <2>1. PICK p \in Processes :
           /\ proc[p].pc \in {"record", "answered"} /\ proc[p].cur = a
           /\ child'[a].state = ProjectedState(a, proc[p].obs)
    BY DEF Observed
  <2>2. proc[p].obs.state \in ObservedStates
    BY LocalFields DEF SInv, IInv, Observations
  <2>3. proc[p].obs.state \in Ending
    BY <2>1, <2>2 DEF ProjectedState, Ending, ObservedStates
  <2> QED
    BY <1>1, <2>1, <2>3 DEF DeathsInv, ReportsInv
<1>6. CASE Overdue(a)
  <2>1. DeadlineOf(a) < now
    BY <1>6 DEF Overdue, DeathsInv, ReportsInv, At
  <2> QED
    BY <1>6, <2>1, OverdueStays DEF Overdue, Overrun
<1>7. CASE GivenUp(a)
  <2>1. /\ child[a].fails + 1 >= MaxReconcileFailures /\ faults' = faults + 1
        /\ child[a].fails <= faults
    BY <1>1, <1>7 DEF GivenUp, Excused, DeathsInv, FailuresInv
  <2>2. child[a].fails \in Nat /\ faults \in Nat /\ MaxReconcileFailures \in Nat
    BY LedgerAssumption DEF SInv, IInv, LedgerInv, LedgerTypeOK, RowType, RemoteTypeOK
  <2>3. faults' >= MaxReconcileFailures
    BY <2>1, <2>2
  <2> QED
    BY <1>7, <2>3 DEF GivenUp, Overrun
<1>8. CASE CalledOff(a)
  <2>1. /\ execution'.cancel
        /\ child'[a].state \in {"canceled", "canceling"}
        /\ child'[a].state = "canceled" => child[a].state \in QueuedStates
    BY <1>8 DEF CalledOff, QueuedStates
  <2> QED
    BY <1>8, <2>1 DEF CalledOff, Kept, SInv, LifeInv, QueuedHaveNoTask
<1>9. CASE Replaced(a)
  <2>1. Overrun(a) /\ Present(a) /\ child'[a].state = "superseded"
    BY <1>1, <1>9 DEF Replaced, DeathsInv, ReportsInv, At, Live, Present
  <2> QED
    BY <2>1, OverrunStays
<1> QED
  BY <1>1, <1>3, <1>4, <1>5, <1>6, <1>7, <1>8, <1>9 DEF RowChange

\* A failure to observe an unfinished task counts on both sides.
LEMMA FailuresStep ==
  ASSUME SInv, SInv', DeathsInv, LedgerChange, RemoteChange
  PROVE  FailuresInv'
<1> SUFFICES ASSUME NEW a \in Attempts, ~TaskTerminal(task'[a])
             PROVE  child'[a].fails <= faults'
  BY DEF FailuresInv
<1>1. FailsChange(a) /\ ~TaskTerminal(task[a])
  BY FinishedTasksStay DEF LedgerChange
<1>2. child[a].fails <= faults
  BY <1>1 DEF DeathsInv, FailuresInv
<1>3. /\ child[a].fails \in Nat /\ child'[a].fails \in Nat
      /\ faults \in Nat /\ faults' \in Nat
  BY DEF SInv, IInv, LedgerInv, LedgerTypeOK, RowType, RemoteTypeOK
<1>4. faults' = faults \/ faults' = faults + 1
  BY DEF RemoteChange
<1> QED
  BY <1>1, <1>2, <1>3, <1>4 DEF FailsChange, Excused

\* Only what a row was claimed for is launched, and rows stay.
LEMMA TaskRowsStep ==
  ASSUME SInv, DeathsInv, LedgerChange, RemoteChange
  PROVE  TasksHaveRows'
<1> SUFFICES ASSUME NEW a \in Attempts, task'[a].state # "none"
             PROVE  Present(a)'
  BY DEF TasksHaveRows
<1>1. Present(a)
  <2>1. CASE task[a].state # "none"
    BY <2>1 DEF DeathsInv, TasksHaveRows
  <2>2. CASE task[a].state = "none"
    <3>1. TaskChange(a) /\ ~Unfinished(task[a])
      BY <2>2 DEF RemoteChange, Unfinished
    <3>2. PICK p \in Processes : \E c \in proc[p].claims : c.id = a
      BY <2>2, <3>1 DEF TaskChange
    <3> QED
      BY <3>2 DEF SInv, IInv, LocalOK, Present
  <2> QED
    BY <2>1, <2>2
<1> QED
  BY <1>1, RowStaysPresent

\* A retry is created once the attempt ended, or its task is known to have.
LEMMA RetryBrings ==
  ASSUME SInv, EndedInv, NEW p \in Processes,
         BeginRetry(p) \/ PollBeforeRetry(p) \/ CancelBeforeRetry(p),
         NEW a \in Attempts, proc'[p].pc = "retryCreate", proc'[p].cur = a
  PROVE  TaskTerminal(task'[a]) \/ TaskTerminal(task[a]) \/ execution.cancel \/ Overrun(a)
<1>1. proc[p] \in ProcessType /\ LocalOK(proc[p], child, task) /\ IInv
  BY DEF SInv, IInv
<1>2. CASE BeginRetry(p)
  <2> DEFINE l(b) == [Idle EXCEPT !.cur = b,
                        !.pc = IF child[b].state = "blocked" THEN "retryPoll" ELSE "retryCreate"]
  <2>1. PICK b \in Attempts : Retryable(b) /\ Become(p, l(b))
    BY <1>2 DEF BeginRetry
  <2>2. /\ l(b).cur = b
        /\ l(b).pc = IF child[b].state = "blocked" THEN "retryPoll" ELSE "retryCreate"
    BY DEF Idle
  <2> HIDE DEF l
  <2>3. proc'[p] = l(b)
    BY <2>1, BecomesOnly
  <2>4. b = a /\ child[a].state # "blocked"
    BY <2>2, <2>3
  <2>5. child[a].state \in {"failed", "canceled"}
    BY <2>1, <2>4 DEF Retryable, RETRYABLE_CHILD_STATES
  <2> QED
    BY <2>5 DEF EndedInv
<1>3. CASE PollBeforeRetry(p)
  <2> DEFINE b == proc[p].cur
  <2> DEFINE x == IF TaskTerminal(task[b]) THEN "retryCreate" ELSE "retryCancel"
  <2>1. Become(p, Goto(p, x)) \/ Become(p, Idle)
    BY <1>3 DEF PollBeforeRetry
  <2> HIDE DEF x
  <2>2. Become(p, Goto(p, x))
    BY <2>1, Goes
  <2>3. x = "retryCreate" /\ b = a
    BY <2>2, GotoKeeps
  <2> QED
    BY <2>3 DEF x
<1>4. CASE CancelBeforeRetry(p)
  <2> DEFINE b == proc[p].cur
  <2> DEFINE l(t) == [proc[p] EXCEPT !.pc = "answered", !.obs = Report(t, NormalizedState(t))]
  <2>1. \/ \E t \in CancelOutcomes(b) :
              /\ task' = [task EXCEPT ![b] = t]
              /\ \/ StoppedForRetry(t) /\ Become(p, Goto(p, "retryCreate"))
                 \/ Become(p, l(t))
        \/ Become(p, Idle)
    BY <1>4 DEF CancelBeforeRetry
  <2>2. ASSUME NEW t
        PROVE  ~Become(p, l(t))
    <3>1. l(t).pc = "answered"
      BY <1>1 DEF ProcessType
    <3> HIDE DEF l
    <3> QED
      BY <3>1, BecomesOnly
  <2> HIDE DEF l
  <2>3. PICK t \in CancelOutcomes(b) :
           /\ task' = [task EXCEPT ![b] = t]
           /\ StoppedForRetry(t) /\ Become(p, Goto(p, "retryCreate"))
    BY <2>1, <2>2, Goes
  <2>4. b = a
    BY <2>3, GotoKeeps
  <2>5. task'[a] = t
    BY <1>1, <2>3, <2>4 DEF IInv, RemoteTypeOK
  <2> QED
    BY <2>3, <2>5 DEF StoppedForRetry
<1> QED
  BY <1>2, <1>3, <1>4

\* What a process is to fail for its deadline is what it listed as overdue.
LEMMA ExpiringBrings ==
  ASSUME SInv, NEW p \in Processes
  PROVE  /\ ListExpired(p) =>
               proc'[p].pc # "expired" /\ \A e \in proc'[p].todo : e.id \in ExpiredChildren
         /\ ExpireChild(p) =>
               /\ proc[p].pc = "expiring"
               /\ proc'[p].todo \subseteq proc[p].todo
               /\ proc'[p].pc = "expired" => \E e \in proc[p].todo : proc'[p].cur = e.id
         /\ RecordExpired(p) =>
               proc[p].pc = "expired" /\ proc'[p].pc # "expired" /\ proc'[p].todo = proc[p].todo
<1>1. proc[p] \in ProcessType
  BY DEF SInv, IInv
<1>2. ASSUME ListExpired(p)
      PROVE  proc'[p].pc # "expired" /\ \A e \in proc'[p].todo : e.id \in ExpiredChildren
  <2> DEFINE todo == {[id |-> a, flag |-> child[a].task] : a \in ExpiredChildren}
  <2> DEFINE l == [proc[p] EXCEPT !.pc = "expiring", !.at = now, !.todo = todo]
  <2>1. Become(p, l)
    BY <1>2 DEF ListExpired
  <2>2. \A e \in todo : e.id \in ExpiredChildren
    OBVIOUS
  <2> HIDE DEF todo
  <2>3. l.todo = todo /\ l.pc = "expiring"
    BY <1>1 DEF ProcessType
  <2> HIDE DEF l
  <2> QED
    BY <2>1, <2>2, <2>3, BecomesOnly
<1>3. ASSUME ExpireChild(p)
      PROVE  /\ proc[p].pc = "expiring"
             /\ proc'[p].todo \subseteq proc[p].todo
             /\ proc'[p].pc = "expired" => \E e \in proc[p].todo : proc'[p].cur = e.id
  <2> DEFINE rest(e) == [proc[p] EXCEPT !.todo = @ \ {e}, !.touched = TRUE]
  <2> DEFINE asked(e) == [rest(e) EXCEPT !.pc = "expired", !.cur = e.id]
  <2>1. PICK e \in proc[p].todo : Become(p, asked(e)) \/ Become(p, rest(e))
    BY <1>3 DEF ExpireChild
  <2>2. proc[p].pc = "expiring"
    BY <1>3 DEF ExpireChild, At
  <2>3. /\ rest(e).todo = proc[p].todo \ {e} /\ rest(e).pc = "expiring"
        /\ asked(e).todo = proc[p].todo \ {e} /\ asked(e).cur = e.id
    BY <1>1, <2>2 DEF ProcessType
  <2> HIDE DEF rest, asked
  <2> QED
    BY <2>1, <2>2, <2>3, BecomesOnly
<1>4. ASSUME RecordExpired(p)
      PROVE  proc[p].pc = "expired" /\ proc'[p].pc # "expired" /\ proc'[p].todo = proc[p].todo
  <2> DEFINE l == [proc[p] EXCEPT !.pc = "expiring", !.cur = NoAttempt]
  <2>1. Become(p, l) /\ proc[p].pc = "expired"
    BY <1>4 DEF RecordExpired, At
  <2>2. l.pc = "expiring" /\ l.todo = proc[p].todo
    BY <1>1 DEF ProcessType
  <2> HIDE DEF l
  <2> QED
    BY <2>1, <2>2, BecomesOnly
<1> QED
  BY <1>2, <1>3, <1>4

\* What a process is to fail for its deadline is overdue.
LEMMA ExpiringStep ==
  ASSUME SInv, PlansInv, DeathsInv, [Next]_vars, NEW p \in Processes, NEW a \in Attempts,
         proc'[p].pc \in {"expiring", "expired"},
         \/ \E e \in proc'[p].todo : e.id = a
         \/ proc'[p].pc = "expired" /\ proc'[p].cur = a
  PROVE  (DeadlineOf(a) < now)'
<1>1. LedgerChange /\ RemoteChange /\ LocalOK(proc[p], child, task)
  BY LedgerSteps, RemoteSteps DEF SInv, IInv
<1>2. CASE ListExpired(p)
  <2>1. a \in ExpiredChildren
    BY <1>2, ExpiringBrings
  <2> QED
    BY <1>1, <2>1, OverdueStays DEF ExpiredChildren
<1>3. ASSUME proc[p].pc \in {"expiring", "expired"},
             \/ \E e \in proc[p].todo : e.id = a
             \/ proc[p].pc = "expired" /\ proc[p].cur = a
      PROVE  (DeadlineOf(a) < now)'
  <2>1. Present(a)
    BY <1>1, <1>3 DEF LocalOK, WithAttempt, Present
  <2>2. DeadlineOf(a) < now
    BY <1>3 DEF DeathsInv, ReportsInv
  <2> QED
    BY <1>1, <2>1, <2>2, OverdueStays
<1>4. CASE proc'[p] = proc[p]
  BY <1>3, <1>4
<1>5. CASE ExpireChild(p) \/ RecordExpired(p)
  BY <1>3, <1>5, ExpiringBrings
<1> QED
  BY <1>2, <1>4, <1>5, ProcessArrives DEF Arrives

\* A process that observed an end, or waited for one, did so on the task.
LEMMA ReportsStep ==
  ASSUME SInv, SInv', PlansInv, DeathsInv, [Next]_vars
  PROVE  ReportsInv'
<1>1. LedgerChange /\ RemoteChange
  BY LedgerSteps, RemoteSteps
<1>2. execution.cancel => execution'.cancel
  BY <1>1 DEF LedgerChange, ExecutionChange, RevisionChange
<1>3. IInv /\ \A a \in Attempts : task[a] \in TaskType /\ task'[a] \in TaskType
  BY DEF SInv, IInv, RemoteTypeOK
<1>4. \A t, s : Report(t, s).state = s
  BY DEF Report
<1>5. ASSUME NEW p \in Processes
      PROVE  proc'[p] = proc[p] \/ Arrives(p)
  BY <1>5, ProcessArrives
<1>6. ASSUME NEW p \in Processes, NEW a \in Attempts,
             proc'[p].cur = a, proc'[p].pc \in {"record", "replied", "answered"},
             proc'[p].obs.state \in Ending
      PROVE  TaskTerminal(task'[a])
  <2>1. CASE proc'[p] = proc[p]
    <3>1. TaskTerminal(task[a])
      BY <1>6, <2>1 DEF DeathsInv, ReportsInv
    <3> QED
      BY <1>1, <3>1, FinishedTasksStay
  <2>2. CASE PollChild(p) /\ proc'[p].pc = "record"
    <3>1. PICK e \in proc[p].todo :
            /\ e.id = a
            /\ \/ /\ ~e.flag /\ task' = task
                  /\ proc'[p].obs = Report(task[e.id], PolledState(task[e.id]))
               \/ \E t \in CancelOutcomes(e.id) :
                     /\ e.flag
                     /\ task' = [task EXCEPT ![e.id] = t]
                     /\ proc'[p].obs = Report(t, CanceledState(t))
      BY <1>6, <2>2, PollBrings
    <3>2. CASE task' = task /\ proc'[p].obs = Report(task[e.id], PolledState(task[e.id]))
      <4>1. PolledState(task[a]) \in Ending
        BY <1>4, <1>6, <3>1, <3>2
      <4> QED
        BY <1>3, <3>2, <4>1, EndsAreReal
    <3>3. ASSUME NEW t \in CancelOutcomes(e.id), task' = [task EXCEPT ![e.id] = t],
                 proc'[p].obs = Report(t, CanceledState(t))
          PROVE  TaskTerminal(task'[a])
      <4>1. CanceledState(t) \in Ending /\ t \in TaskType
        BY <1>3, <1>4, <1>6, <3>1, <3>3, CancelOutcomeTyped
      <4>2. task'[a] = t
        BY <3>1, <3>3 DEF SInv, IInv, RemoteTypeOK
      <4> QED
        BY <4>1, <4>2, EndsAreReal
    <3> QED
      BY <3>1, <3>2, <3>3
  <2>3. CASE ReplyChild(p) /\ proc'[p].pc = "replied"
    <3>1. NormalizedState(task'[a]) \in Ending
      BY <1>6, <2>3, ReplyBrings
    <3> QED
      BY <1>3, <3>1, EndsAreReal
  <2>4. CASE MarkMessageDelivered(p)
    <3>1. At(p, "replied") /\ proc[p].cur = a /\ proc[p].obs.state \in Ending
      BY <1>6, <2>4, DeliveryBrings
    <3>2. TaskTerminal(task[a])
      BY <3>1 DEF DeathsInv, ReportsInv, At
    <3> QED
      BY <1>1, <3>2, FinishedTasksStay
  <2>5. CASE CancelBeforeRetry(p) /\ proc'[p].pc = "answered"
    BY <1>6, <2>5, CancelAnswerBrings DEF Ending
  <2> QED
    BY <1>5, <1>6, <2>1, <2>2, <2>3, <2>4, <2>5 DEF Arrives
<1>7. ASSUME NEW p \in Processes, NEW a \in Attempts, proc'[p].cur = a, proc'[p].pc = "retryCreate"
      PROVE  TaskTerminal(task'[a]) \/ execution'.cancel \/ Overrun(a)'
  <2>1. TaskTerminal(task'[a]) \/ TaskTerminal(task[a]) \/ execution.cancel \/ Overrun(a)
    <3>1. CASE proc'[p] = proc[p]
      BY <1>7, <3>1 DEF DeathsInv, ReportsInv
    <3>2. CASE BeginRetry(p) \/ PollBeforeRetry(p) \/ CancelBeforeRetry(p)
      BY <1>7, <3>2, RetryBrings DEF DeathsInv
    <3> QED
      BY <1>5, <1>7, <3>1, <3>2 DEF Arrives
  <2>2. Overrun(a) => Present(a)
    <3>1. CASE proc'[p] = proc[p]
      BY <1>3, <1>7, <3>1 DEF IInv, LocalOK, WithAttempt, Present
    <3>2. CASE BeginRetry(p) \/ PollBeforeRetry(p) \/ CancelBeforeRetry(p)
      <4>1. child' = child
        BY <3>2 DEF BeginRetry, PollBeforeRetry, CancelBeforeRetry
      <4>2. LocalOK(proc'[p], child', task')
        BY DEF SInv, IInv
      <4> QED
        BY <1>7, <4>1, <4>2 DEF LocalOK, WithAttempt, Present
    <3> QED
      BY <1>5, <1>7, <3>1, <3>2 DEF Arrives
  <2> QED
    BY <1>1, <1>2, <2>1, <2>2, FinishedTasksStay, OverrunStays
<1> QED
  BY <1>6, <1>7, ExpiringStep DEF ReportsInv

\* In every reachable state.
LEMMA DeathsHold == Spec => [](SInv /\ PlansInv /\ DeathsInv)
<1> DEFINE Inv == SInv /\ PlansInv /\ DeathsInv
<1>1. Init => Inv
  BY LifeInit, PlansInit, DeathsInit
<1>2. Inv /\ [Next]_vars => Inv'
  <2> SUFFICES ASSUME Inv, [Next]_vars
               PROVE  Inv'
    OBVIOUS
  <2>1. SInv' /\ LedgerChange /\ RemoteChange
    BY LifeSteps, LedgerSteps, RemoteSteps
  <2> QED
    BY <2>1, PlansStep, EndedStep, FailuresStep, TaskRowsStep, ReportsStep DEF DeathsInv
<1> QED
  BY <1>1, <1>2, PTL DEF Spec

\* A task that works although its attempt is reported finished is one of an
\* overdue child, of one given up after as many failed calls as that takes, or
\* of one canceled with its execution before its handle came: no poll, reply,
\* retry, crash or late handle makes any other (record_observation,
\* record_reconcile_error, create_retry, record_handle).
THEOREM DeathsAreExplained == Spec => []DeadIsExplained
<1>1. SInv /\ PlansInv /\ DeathsInv => DeadIsExplained
  BY DEF DeathsInv, EndedInv, Overrun, DeadIsExplained, Terminal, TERMINAL_CHILD_STATES,
     Unfinished, TaskTerminal
<1> QED
  BY <1>1, DeathsHold, PTL

\* No task runs past the deadline of its child, and fewer calls have failed than
\* give a child up.
NobodyGivesUp ==
    /\ \A a \in Attempts : Unfinished(task[a]) => ~(DeadlineOf(a) < now)
    /\ ~(faults >= MaxReconcileFailures)

\* Unless a task runs past its deadline or as many calls have failed as give a
\* child up, at most one attempt of a child works: a retry waits until the task
\* before it has stopped (create_retry, _ensure_retryable), whichever polls,
\* replies, crashes and cancel requests race with it.
THEOREM OneWriterPerChild == Spec => [](NobodyGivesUp => SingleWriter)
<1>1. SInv /\ PlansInv /\ DeathsInv /\ NobodyGivesUp => SingleWriter
  <2> SUFFICES ASSUME SInv, DeathsInv, NobodyGivesUp, NEW a \in Attempts, NEW b \in Attempts,
                      a.gen = b.gen, a.key = b.key, Unfinished(task[a]), Unfinished(task[b])
               PROVE  a = b
    BY DEF SingleWriter
  <2>1. \A x \in Attempts : Unfinished(task[x]) => Live(x)
    BY DEF DeathsInv, EndedInv, TasksHaveRows, Unfinished, TaskTerminal, Live, Present, Overrun,
       NobodyGivesUp
  <2>2. Latest(a) /\ Latest(b)
    BY <2>1, LiveIsLatest
  <2>3. /\ a.attempt \in 1..MaxAttempts /\ b.attempt \in 1..MaxAttempts
        /\ a = [b EXCEPT !.attempt = a.attempt] /\ b = [a EXCEPT !.attempt = b.attempt]
    BY AttemptVersions
  <2>4. ~(a.attempt > b.attempt) /\ ~(b.attempt > a.attempt)
    BY <2>2, <2>3 DEF Latest
  <2>5. a.attempt = b.attempt
    BY <2>3, <2>4
  <2> QED
    BY <2>5 DEF Attempts
<1> QED
  BY <1>1, DeathsHold, PTL

--------------------------------------------------------------------------------
(* The budget.                                                             *)

UnitsOf(p) == IF p = NoPlan THEN 0 ELSE p.units

\* The sums of the first n generations, as a function that is to be found.
SumsUpTo(plans, n, f) ==
    f = [i \in 0..n |-> IF i = 0 THEN 0 ELSE f[i - 1] + UnitsOf(plans[i])]

\* A set of natural numbers that is not empty has a least one.
LEMMA FirstOf ==
  ASSUME NEW T \in SUBSET Nat, T # {}
  PROVE  \E n \in T : \A m \in T : n =< m
<1> DEFINE R == OpToRel(<, Nat)
<1>1. IsWellFoundedOn(R, Nat)
  BY NatLessThanWellFounded
<1>2. \A x, y \in Nat : <<y, x>> \in R <=> y < x
  BY DEF OpToRel
<1> HIDE DEF R
<1>3. PICK n \in T : \A m \in T : <<m, n>> \notin R
  BY <1>1, WFMin
<1>4. \A m \in T : ~(m < n)
  BY <1>2, <1>3
<1>5. \A m \in T : n =< m
  BY <1>4, SMT
<1> QED
  BY <1>5

\* Sums up to a number can go on to the next.
LEMMA OneMoreSum ==
  ASSUME NEW plans, NEW n \in Nat, NEW f, SumsUpTo(plans, n, f)
  PROVE  \E g : SumsUpTo(plans, n + 1, g)
<1> DEFINE g == [i \in 0..(n + 1) |-> IF i \in 0..n THEN f[i] ELSE f[n] + UnitsOf(plans[i])]
<1>1. /\ \A i \in 0..n : g[i] = f[i]
      /\ g[n + 1] = f[n] + UnitsOf(plans[n + 1])
  OBVIOUS
<1>2. ASSUME NEW i \in 0..n
      PROVE  f[i] = IF i = 0 THEN 0 ELSE f[i - 1] + UnitsOf(plans[i])
  BY Zenon DEF SumsUpTo
<1>3. ASSUME NEW i \in 0..(n + 1)
      PROVE  g[i] = IF i = 0 THEN 0 ELSE g[i - 1] + UnitsOf(plans[i])
  <2>1. CASE i = n + 1
    <3>1. i - 1 = n /\ i # 0 /\ n \in 0..n
      BY <2>1
    <3>2. g[i - 1] = f[n] /\ g[i] = f[n] + UnitsOf(plans[i])
      BY <1>1, <2>1, <3>1, Zenon
    <3> QED
      BY <3>1, <3>2, Zenon
  <2>2. CASE i \in 0..n
    <3>1. i # 0 => i - 1 \in 0..n
      BY <2>2
    <3>2. g[i] = f[i] /\ (i # 0 => g[i - 1] = f[i - 1])
      BY <1>1, <2>2, <3>1, Zenon
    <3> QED
      BY <1>2, <2>2, <3>2, Zenon
  <2> QED
    BY <2>1, <2>2
<1>4. g = [i \in 0..(n + 1) |-> g[i]]
  OBVIOUS
<1> HIDE DEF g
<1>5. g = [i \in 0..(n + 1) |-> IF i = 0 THEN 0 ELSE g[i - 1] + UnitsOf(plans[i])]
  BY <1>3, <1>4, Zenon
<1> QED
  BY <1>5, Zenon DEF SumsUpTo

\* The sums exist up to any number: otherwise there is a first up to which they do not.
LEMMA SumsExist ==
  ASSUME NEW plans, NEW N \in Nat
  PROVE  \E f : SumsUpTo(plans, N, f)
<1> DEFINE T == {n \in Nat : ~\E f : SumsUpTo(plans, n, f)}
<1>1. SUFFICES ASSUME T # {} PROVE FALSE
  OBVIOUS
<1>2. PICK n \in T : \A m \in T : n =< m
  BY <1>1, FirstOf
<1>3. n # 0
  <2> DEFINE f == [i \in 0..0 |-> 0]
  <2>1. \A i \in 0..0 : i = 0
    OBVIOUS
  <2>2. f = [i \in 0..0 |-> IF i = 0 THEN 0 ELSE f[i - 1] + UnitsOf(plans[i])]
    BY <2>1, Zenon
  <2>3. SumsUpTo(plans, 0, f)
    BY <2>2, Zenon DEF SumsUpTo
  <2> QED
    BY <2>3
<1>4. n - 1 \in Nat /\ ~(n =< n - 1) /\ (n - 1) + 1 = n
  BY <1>3
<1>5. n - 1 \notin T
  BY <1>2, <1>4
<1>6. PICK f : SumsUpTo(plans, n - 1, f)
  BY <1>4, <1>5
<1>7. \E g : SumsUpTo(plans, (n - 1) + 1, g)
  BY <1>4, <1>6, OneMoreSum
<1> QED
  BY <1>2, <1>4, <1>7

\* What GrantedIn is: nothing before the first generation, and each adds its units.
LEMMA Grants ==
  ASSUME NEW plans
  PROVE  /\ GrantedIn(plans)[0] = 0
         /\ \A n \in 1..MaxGeneration :
               GrantedIn(plans)[n] = GrantedIn(plans)[n - 1] + UnitsOf(plans[n])
<1> DEFINE granted == GrantedIn(plans)
<1>1. MaxGeneration \in Nat
  BY LedgerAssumption
<1>2. granted = CHOOSE f : SumsUpTo(plans, MaxGeneration, f)
  BY DEF GrantedIn, SumsUpTo, UnitsOf
<1> HIDE DEF granted
<1>3. SumsUpTo(plans, MaxGeneration, granted)
  BY <1>1, <1>2, SumsExist
<1>4. ASSUME NEW i \in 0..MaxGeneration
      PROVE  granted[i] = IF i = 0 THEN 0 ELSE granted[i - 1] + UnitsOf(plans[i])
  BY <1>3, Zenon DEF SumsUpTo
<1>5. 0 \in 0..MaxGeneration /\ \A n \in 1..MaxGeneration : n \in 0..MaxGeneration /\ n # 0
  BY <1>1
<1> QED
  BY <1>4, <1>5, Zenon DEF granted

\* A grant is a number of units.
LEMMA GrantsAreUnits ==
  ASSUME NEW plans \in [Generations -> Plans \cup {NoPlan}], NEW n \in 0..MaxGeneration
  PROVE  GrantedIn(plans)[n] \in Nat
<1> DEFINE granted == GrantedIn(plans)
<1> DEFINE T == {i \in 0..MaxGeneration : granted[i] \notin Nat}
<1>1. MaxGeneration \in Nat
  BY LedgerAssumption
<1>2. granted[0] = 0 /\ \A i \in 1..MaxGeneration : granted[i] = granted[i - 1] + UnitsOf(plans[i])
  BY Grants
<1>3. \A i \in 1..MaxGeneration : UnitsOf(plans[i]) \in Nat
  BY LedgerAssumption DEF UnitsOf, Generations
<1> HIDE DEF granted
<1>4. SUFFICES ASSUME T # {} PROVE FALSE
  BY DEF granted
<1>5. PICK i \in T : \A j \in T : i =< j
  <2>1. T \in SUBSET Nat
    BY <1>1
  <2> QED
    BY <1>4, <2>1, FirstOf
<1>6. i # 0
  BY <1>2, <1>5
<1>7. i \in 1..MaxGeneration /\ i - 1 \in 0..MaxGeneration /\ ~(i =< i - 1)
  BY <1>1, <1>5, <1>6
<1>8. granted[i - 1] \in Nat
  BY <1>5, <1>7
<1> QED
  BY <1>2, <1>3, <1>5, <1>7, <1>8

\* To seal a generation that was not adds its units to that sum and all later ones.
LEMMA SealingGrants ==
  ASSUME NEW plans \in [Generations -> Plans \cup {NoPlan}], NEW g \in Generations,
         plans[g] = NoPlan, NEW p \in Plans, NEW n \in 0..MaxGeneration
  PROVE  GrantedIn([plans EXCEPT ![g] = p])[n] = GrantedIn(plans)[n] + IF n < g THEN 0 ELSE p.units
<1> DEFINE more == [plans EXCEPT ![g] = p]
<1> DEFINE before == GrantedIn(plans)
<1> DEFINE after == GrantedIn(more)
<1> DEFINE T == {i \in 0..MaxGeneration : after[i] # before[i] + IF i < g THEN 0 ELSE p.units}
<1>1. MaxGeneration \in Nat /\ p.units \in Nat /\ g \in 1..MaxGeneration
  BY LedgerAssumption DEF Generations
<1>2. more \in [Generations -> Plans \cup {NoPlan}] /\ \A i \in Generations : i # g => more[i] = plans[i]
  OBVIOUS
<1>3. UnitsOf(plans[g]) = 0 /\ UnitsOf(more[g]) = p.units
  BY LedgerAssumption DEF UnitsOf
<1>4. \A i \in 1..MaxGeneration : UnitsOf(plans[i]) \in Nat
  BY LedgerAssumption DEF UnitsOf, Generations
<1> HIDE DEF more
<1>5. /\ before[0] = 0
      /\ \A i \in 1..MaxGeneration : before[i] = before[i - 1] + UnitsOf(plans[i])
      /\ after[0] = 0
      /\ \A i \in 1..MaxGeneration : after[i] = after[i - 1] + UnitsOf(more[i])
  BY Grants
<1>6. \A i \in 0..MaxGeneration : before[i] \in Nat /\ after[i] \in Nat
  BY <1>2, GrantsAreUnits
<1> HIDE DEF before, after
<1>7. SUFFICES ASSUME T # {} PROVE FALSE
  BY DEF before, after, more
<1>8. PICK i \in T : \A j \in T : i =< j
  <2>1. T \in SUBSET Nat
    BY <1>1
  <2> QED
    BY <1>7, <2>1, FirstOf
<1>9. i # 0
  BY <1>1, <1>5, <1>8
<1>10. i \in 1..MaxGeneration /\ i - 1 \in 0..MaxGeneration /\ ~(i =< i - 1)
  BY <1>1, <1>8, <1>9
<1>11. after[i - 1] = before[i - 1] + IF i - 1 < g THEN 0 ELSE p.units
  BY <1>8, <1>10
<1>12. /\ after[i] = after[i - 1] + UnitsOf(more[i])
       /\ before[i] = before[i - 1] + UnitsOf(plans[i])
       /\ before[i - 1] \in Nat /\ UnitsOf(plans[i]) \in Nat
  BY <1>4, <1>5, <1>6, <1>10
<1>13. after[i] # before[i] + IF i < g THEN 0 ELSE p.units
  BY <1>8
<1>14. CASE i = g
  <2>1. UnitsOf(more[i]) = p.units /\ UnitsOf(plans[i]) = 0
    BY <1>3, <1>14
  <2> QED
    BY <1>1, <1>10, <1>11, <1>12, <1>13, <1>14, <2>1, SMT
<1>15. CASE i # g
  <2>1. UnitsOf(more[i]) = UnitsOf(plans[i])
    BY <1>2, <1>10, <1>15 DEF Generations
  <2>2. i - 1 < g <=> i < g
    BY <1>1, <1>10, <1>15
  <2> QED
    BY <1>1, <1>10, <1>11, <1>12, <1>13, <2>1, <2>2, SMT
<1> QED
  BY <1>14, <1>15

\* Nothing is granted as long as nothing is sealed.
LEMMA NothingGranted ==
  ASSUME NEW plans \in [Generations -> {NoPlan}], NEW n \in 0..MaxGeneration
  PROVE  GrantedIn(plans)[n] = 0
<1> DEFINE granted == GrantedIn(plans)
<1> DEFINE T == {i \in 0..MaxGeneration : granted[i] # 0}
<1>1. MaxGeneration \in Nat
  BY LedgerAssumption
<1>2. granted[0] = 0 /\ \A i \in 1..MaxGeneration : granted[i] = granted[i - 1] + UnitsOf(plans[i])
  BY Grants
<1>3. \A i \in 1..MaxGeneration : UnitsOf(plans[i]) = 0
  BY DEF UnitsOf, Generations
<1> HIDE DEF granted
<1>4. SUFFICES ASSUME T # {} PROVE FALSE
  BY DEF granted
<1>5. PICK i \in T : \A j \in T : i =< j
  <2>1. T \in SUBSET Nat
    BY <1>1
  <2> QED
    BY <1>4, <2>1, FirstOf
<1>6. i # 0
  BY <1>2, <1>5
<1>7. i \in 1..MaxGeneration /\ i - 1 \in 0..MaxGeneration /\ ~(i =< i - 1)
  BY <1>1, <1>5, <1>6
<1>8. granted[i - 1] = 0
  BY <1>5, <1>7
<1> QED
  BY <1>2, <1>3, <1>5, <1>7, <1>8

BudgetInv == execution.reserved = GrantedIn(plan)[MaxGeneration]

\* A reservation spends the units of the generation it seals, and nothing else does.
LEMMA BudgetStep ==
  ASSUME SInv, PlansInv, LedgerChange, BudgetInv
  PROVE  BudgetInv'
<1>1. /\ execution.gen \in 0..MaxGeneration /\ plan \in [Generations -> Plans \cup {NoPlan}]
      /\ MaxGeneration \in Nat
  BY ExecutionFields, LedgerAssumption DEF SInv, IInv, LedgerInv, LedgerTypeOK
<1>2. GenerationChange
  BY DEF LedgerChange, ExecutionChange
<1>3. CASE execution'.reserved = execution.reserved /\ plan' = plan
  BY <1>3 DEF BudgetInv
<1>4. ASSUME NEW pl \in Plans, execution.gen + 1 \in Generations,
             execution'.reserved = execution.reserved + pl.units,
             plan' = [plan EXCEPT ![execution.gen + 1] = pl]
      PROVE  BudgetInv'
  <2> DEFINE g == execution.gen + 1
  <2>1. g \in Generations /\ plan[g] = NoPlan
    BY <1>1, <1>4 DEF PlansInv
  <2>2. MaxGeneration \in 0..MaxGeneration /\ ~(MaxGeneration < g)
    BY <1>1, <1>4 DEF Generations
  <2>3. GrantedIn(plan')[MaxGeneration] = GrantedIn(plan)[MaxGeneration] + pl.units
    BY <1>1, <1>4, <2>1, <2>2, SealingGrants
  <2> QED
    BY <1>4, <2>3 DEF BudgetInv
<1> QED
  BY <1>2, <1>3, <1>4 DEF GenerationChange

\* The execution has reserved exactly what its sealed generations were granted,
\* within the owner's total (reserve_generation), however many expansions were
\* prepared from the same row.
THEOREM BudgetIsConserved == Spec => []BudgetConserved
<1>1. Init => BudgetInv
  <2> SUFFICES ASSUME Init PROVE BudgetInv
    OBVIOUS
  <2>1. execution.reserved = 0 /\ plan \in [Generations -> {NoPlan}]
    BY DEF Init, LedgerInit
  <2>2. MaxGeneration \in 0..MaxGeneration
    BY LedgerAssumption
  <2> QED
    BY <2>1, <2>2, NothingGranted DEF BudgetInv
<1>2. SInv /\ PlansInv /\ BudgetInv /\ [Next]_vars => BudgetInv'
  BY LedgerSteps, BudgetStep
<1>3. SInv /\ BudgetInv => BudgetConserved
  <2> SUFFICES ASSUME SInv, BudgetInv PROVE BudgetConserved
    OBVIOUS
  <2>1. execution.reserved \in 0..TotalUnits
    BY ExecutionFields DEF SInv, IInv, LedgerInv, LedgerTypeOK
  <2>2. execution.reserved <= TotalUnits
    BY <2>1, LedgerAssumption
  <2> QED
    BY <2>2 DEF BudgetInv, BudgetConserved
<1> QED
  BY <1>1, <1>2, <1>3, PlansHold, PTL DEF Spec

--------------------------------------------------------------------------------
(* Who holds the claims.  A lease may run out while its holder is still at  *)
(* work, and the next claim is made beside it; what tells them apart is the *)
(* fence, so this is about the claims in the hands of processes.            *)

\* The claims process state l is to launch or to record the handle of.
Flights(l) ==
    (IF l.pc \in {"launch", "handle"} THEN l.claims ELSE {})
        \cup IF l.pc = "handle" THEN {[id |-> l.cur, fence |-> l.fence]} ELSE {}

\* The claim on attempt a under its row's fence.
CurrentClaim(a) == [id |-> a, fence |-> child[a].fence]

\* A claim in hand is no newer than the row, and nobody else's; the current one
\* of a launching row is its owner's; and a row never claimed has no task.
ClaimsFenced ==
    /\ \A p \in Processes : \A c \in Flights(proc[p]) : 1 <= c.fence /\ c.fence <= child[c.id].fence
    /\ \A p, q \in Processes : \A c \in Flights(proc[p]) : c \in Flights(proc[q]) => p = q
    /\ \A a \in Attempts, p \in Processes :
          child[a].state = "launching" /\ CurrentClaim(a) \in Flights(proc[p]) => child[a].owner = p
    /\ \A a \in Attempts : child[a].fence = 0 => task[a].state = "none"

\* A claim in hand names an attempt, and is determined by it and its fence.
LEMMA FlightsTyped ==
  ASSUME SInv, NEW p \in Processes, NEW c \in Flights(proc[p])
  PROVE  c \in Claims /\ c.id \in Attempts /\ c.fence \in Nat /\ c = [id |-> c.id, fence |-> c.fence]
<1>1. proc[p] \in ProcessType /\ (proc[p].pc = "handle" => proc[p].cur \in Attempts)
  BY DEF SInv, IInv, LocalOK, WithAttempt
<1>2. proc[p].claims \in SUBSET Claims /\ proc[p].fence \in Nat
  BY <1>1 DEF ProcessType
<1> QED
  BY <1>1, <1>2 DEF Flights, Claims

\* Local states with claims, and those without.
LEMMA FlightsOf ==
  /\ \A l : l.pc \notin {"launch", "handle"} => Flights(l) = {}
  /\ \A l : l.pc = "launch" => Flights(l) = l.claims
  /\ \A l : l.pc = "handle" => Flights(l) = l.claims \cup {[id |-> l.cur, fence |-> l.fence]}
  BY DEF Flights

\* A launch holds the claim it took from the batch, or drops the batch.
LEMMA LaunchFlights ==
  ASSUME SInv, NEW p \in Processes, LaunchChild(p)
  PROVE  Flights(proc'[p]) \subseteq Flights(proc[p])
<1>1. /\ proc[p] \in ProcessType /\ proc[p].pc = "launch"
      /\ proc[p].claims \in SUBSET Claims
  BY DEF SInv, IInv, LaunchChild, At, ProcessType
<1> DEFINE l(c) == [proc[p] EXCEPT !.pc = "handle", !.cur = c.id, !.fence = c.fence,
                                   !.claims = @ \ {c}]
<1>2. PICK c \in proc[p].claims : Become(p, l(c)) \/ Become(p, Idle)
  BY DEF LaunchChild
<1>3. /\ l(c).pc = "handle" /\ l(c).cur = c.id /\ l(c).fence = c.fence
      /\ l(c).claims = proc[p].claims \ {c}
  BY <1>1 DEF ProcessType
<1>4. c = [id |-> c.id, fence |-> c.fence]
  BY <1>1 DEF Claims
<1> HIDE DEF l
<1>5. Flights(l(c)) = (proc[p].claims \ {c}) \cup {c} /\ Flights(proc[p]) = proc[p].claims
  BY <1>1, <1>3, <1>4, FlightsOf
<1>6. Idle.pc = "idle"
  BY DEF Idle
<1>7. Flights(Idle) = {}
  BY <1>6, FlightsOf
<1>8. proc'[p] = l(c) \/ proc'[p] = Idle
  BY <1>2, BecomesOnly
<1> QED
  BY <1>5, <1>7, <1>8

\* New claims are those of the rows they launch, under new fences.
LEMMA ClaimFlights ==
  ASSUME SInv, NEW p \in Processes, ClaimLaunches(p)
  PROVE  /\ Flights(proc[p]) = {}
         /\ proc'[p].pc # "handle"
         /\ \A c \in Flights(proc'[p]) :
               /\ c.id \in Attempts /\ Claimable(c.id)
               /\ c.fence = child[c.id].fence + 1 /\ child'[c.id].fence = c.fence
               /\ child'[c.id].state = "launching" /\ child'[c.id].owner = p
<1>1. PICK S \in ClaimableBatches :
         /\ claim_launches(p, S)
         /\ Become(p, IF S = {} THEN Idle
                      ELSE [Idle EXCEPT
                              !.pc = "launch",
                              !.claims = {[id |-> a, fence |-> child[a].fence + 1] : a \in S}])
  BY DEF ClaimLaunches
<1> DEFINE claims == {[id |-> a, fence |-> child[a].fence + 1] : a \in S}
<1> DEFINE l == [Idle EXCEPT !.pc = "launch", !.claims = claims]
<1>2. Flights(proc[p]) = {}
  BY FlightsOf DEF ClaimLaunches, At
<1>3. S \subseteq Attempts /\ \A a \in S : Claimable(a)
  BY DEF ClaimableBatches
<1>4. ASSUME NEW a \in S
      PROVE  /\ child'[a].fence = child[a].fence + 1
             /\ child'[a].state = "launching" /\ child'[a].owner = p
  <2>1. child[a] \in RowType
    BY <1>3 DEF SInv, IInv, LedgerInv, LedgerTypeOK
  <2>2. child'[a] = [child[a] EXCEPT !.state = "launching", !.owner = p,
                                     !.live = TRUE, !.fence = @ + 1]
    BY <1>1, <1>3 DEF claim_launches
  <2> QED
    BY <2>1, <2>2 DEF RowType
<1>5. ASSUME NEW c \in claims
      PROVE  /\ c.id \in Attempts /\ Claimable(c.id)
             /\ c.fence = child[c.id].fence + 1 /\ child'[c.id].fence = c.fence
             /\ child'[c.id].state = "launching" /\ child'[c.id].owner = p
  <2>1. PICK a \in S : c = [id |-> a, fence |-> child[a].fence + 1]
    OBVIOUS
  <2> QED
    BY <1>3, <1>4, <2>1
<1>6. \/ proc'[p] = Idle
      \/ proc'[p] = l
  <2>1. Become(p, Idle) \/ Become(p, l)
    BY <1>1
  <2> HIDE DEF l
  <2> QED
    BY <2>1, BecomesOnly
<1>7. l.pc = "launch" /\ l.claims = claims /\ Idle.pc = "idle"
  BY DEF Idle
<1>8. Flights(l) = claims /\ Flights(Idle) = {}
  BY <1>7, FlightsOf
<1> HIDE DEF claims, l
<1> QED
  BY <1>2, <1>5, <1>6, <1>7, <1>8

\* A handle that is recorded takes its claim out of the hand, one that is refused
\* the whole batch.
LEMMA HandleFlights ==
  ASSUME SInv, NEW p \in Processes, RecordHandle(p)
  PROVE  Flights(proc'[p]) \subseteq Flights(proc[p])
<1> DEFINE l == [Idle EXCEPT !.pc = "launch", !.claims = proc[p].claims]
<1>1. proc[p].claims \subseteq Flights(proc[p])
  BY FlightsOf DEF RecordHandle, At
<1>2. /\ l.pc = "launch" /\ l.claims = proc[p].claims /\ Idle.pc = "idle"
  BY DEF Idle
<1>3. Flights(l) = proc[p].claims /\ Flights(Idle) = {}
  BY <1>2, FlightsOf
<1>4. Become(p, l) \/ Become(p, Idle)
  BY DEF RecordHandle
<1> HIDE DEF l
<1>5. proc'[p] = l \/ proc'[p] = Idle
  BY <1>4, BecomesOnly
<1> QED
  BY <1>1, <1>3, <1>5

\* What is in hand was in hand before, or is claimed in this step.
LEMMA NewFlights ==
  ASSUME SInv, [Next]_vars, NEW p \in Processes, NEW c \in Flights(proc'[p])
  PROVE  \/ c \in Flights(proc[p])
         \/ /\ c.id \in Attempts /\ Claimable(c.id)
            /\ c.fence = child[c.id].fence + 1 /\ child'[c.id].fence = c.fence
            /\ child'[c.id].state = "launching" /\ child'[c.id].owner = p
<1>1. CASE proc'[p] = proc[p]
  BY <1>1
<1>2. CASE Arrives(p)
  <2>1. proc'[p].pc \in {"launch", "handle"}
    BY FlightsOf
  <2>2. ClaimLaunches(p) \/ RecordHandle(p) \/ LaunchChild(p)
    BY <1>2, <2>1 DEF Arrives
  <2> QED
    BY <2>2, ClaimFlights, HandleFlights, LaunchFlights
<1> QED
  BY <1>1, <1>2, ProcessArrives

\* Fences only grow, and only by claims.
LEMMA FencesGrow ==
  ASSUME SInv, LedgerChange, NEW a \in Attempts
  PROVE  /\ child[a].fence \in Nat /\ child'[a].fence \in Nat
         /\ child[a].fence <= child'[a].fence
         /\ Claimed(a) \/ child'[a].fence = child[a].fence
<1>1. RowChange(a) /\ child[a].fence \in Nat
  BY DEF LedgerChange, SInv, IInv, LedgerInv, LedgerTypeOK, RowType
<1>2. NoRow.fence = 0 /\ ReservedRow.fence = 0
  BY DEF NoRow, ReservedRow
<1>3. Claimed(a) => child'[a].fence = child[a].fence + 1
  BY DEF Claimed
<1>4. ~Claimed(a) => child'[a].fence = child[a].fence
  BY <1>1, <1>2 DEF RowChange, RowStays, Added, Attached, Observed, Overdue, GivenUp, CalledOff,
     Replaced, Kept
<1> QED
  BY <1>1, <1>3, <1>4

\* A row comes to be launching by a claim only.
LEMMA LaunchingRows ==
  ASSUME SInv, LedgerChange, NEW a \in Attempts, child'[a].state = "launching"
  PROVE  Claimed(a) \/ RowStays(a)
<1>1. RowChange(a)
  BY DEF LedgerChange
<1>2. \A p \in Processes : ProjectedState(a, proc[p].obs) # "launching"
  BY LocalFields DEF SInv, IInv, ProjectedState, Observations, ObservedStates
<1>3. ReservedRow.state = "reserved"
  BY DEF NoRow, ReservedRow
<1> QED
  BY <1>1, <1>2, <1>3 DEF RowChange, Added, Attached, Observed, Overdue, GivenUp, CalledOff, Replaced

\* A claim in hand is no newer than its row.
LEMMA FencesStep ==
  ASSUME SInv, ClaimsFenced, [Next]_vars, LedgerChange,
         NEW p \in Processes, NEW c \in Flights(proc'[p])
  PROVE  1 <= c.fence /\ c.fence <= child'[c.id].fence
<1>1. CASE c \in Flights(proc[p])
  <2>1. /\ 1 <= c.fence /\ c.fence <= child[c.id].fence
        /\ c.id \in Attempts /\ c.fence \in Nat
    BY <1>1, FlightsTyped DEF ClaimsFenced
  <2> QED
    BY <2>1, FencesGrow
<1>2. CASE /\ c.id \in Attempts
           /\ c.fence = child[c.id].fence + 1 /\ child'[c.id].fence = c.fence
  BY <1>2, FencesGrow
<1> QED
  BY <1>1, <1>2, NewFlights

\* A new claim has a new fence, so it is in nobody else's hands.
LEMMA HoldersStep ==
  ASSUME SInv, ClaimsFenced, [Next]_vars, LedgerChange,
         NEW p \in Processes, NEW q \in Processes,
         NEW c \in Flights(proc'[p]), c \in Flights(proc'[q])
  PROVE  p = q
<1> DEFINE New(r) == /\ c.id \in Attempts
                     /\ c.fence = child[c.id].fence + 1
                     /\ child'[c.id].owner = r
<1>1. \A r \in {p, q} : c \in Flights(proc[r]) \/ New(r)
  BY NewFlights
<1>2. ASSUME NEW r \in Processes, NEW s \in Processes, c \in Flights(proc[r]), New(s)
      PROVE  FALSE
  <2>1. c.fence <= child[c.id].fence /\ c.id \in Attempts /\ c.fence \in Nat
    BY <1>2, FlightsTyped DEF ClaimsFenced
  <2> QED
    BY <1>2, <2>1, FencesGrow
<1>3. CASE c \in Flights(proc[p]) /\ c \in Flights(proc[q])
  BY <1>3 DEF ClaimsFenced
<1>4. CASE New(p) /\ New(q)
  BY <1>4
<1> QED
  BY <1>1, <1>2, <1>3, <1>4

\* The current claim of a launching row is its owner's.
LEMMA OwnersStep ==
  ASSUME SInv, ClaimsFenced, [Next]_vars, LedgerChange,
         NEW a \in Attempts, NEW p \in Processes,
         child'[a].state = "launching", CurrentClaim(a)' \in Flights(proc'[p])
  PROVE  child'[a].owner = p
<1> DEFINE c == CurrentClaim(a)'
<1>1. c.id = a /\ c.fence = child'[a].fence
  BY DEF CurrentClaim
<1>2. \/ c \in Flights(proc[p])
      \/ child'[a].owner = p
  BY <1>1, NewFlights
<1>3. ASSUME c \in Flights(proc[p])
      PROVE  child'[a].owner = p
  <2>1. c.fence <= child[a].fence
    BY <1>1, <1>3 DEF ClaimsFenced
  <2>2. ~Claimed(a)
    BY <1>1, <2>1, FencesGrow DEF Claimed
  <2>3. RowStays(a)
    BY <2>2, LaunchingRows
  <2>4. c = CurrentClaim(a)
    BY <2>3 DEF RowStays, CurrentClaim
  <2> QED
    BY <1>3, <2>3, <2>4 DEF ClaimsFenced, RowStays
<1> QED
  BY <1>2, <1>3

\* A task is launched under a claim.
LEMMA UnclaimedStep ==
  ASSUME SInv, ClaimsFenced, LedgerChange, RemoteChange, NEW a \in Attempts, child'[a].fence = 0
  PROVE  task'[a].state = "none"
<1>1. child[a].fence = 0 /\ task[a].state = "none"
  BY FencesGrow DEF ClaimsFenced
<1>2. ASSUME NEW p \in Processes, At(p, "launch"), NEW c \in proc[p].claims, c.id = a
      PROVE  FALSE
  <2>1. c \in Flights(proc[p])
    BY <1>2, FlightsOf DEF At
  <2>2. 1 <= c.fence /\ c.fence <= child[a].fence /\ c.fence \in Nat
    BY <1>2, <2>1, FlightsTyped DEF ClaimsFenced
  <2> QED
    BY <1>1, <2>2
<1> QED
  BY <1>1, <1>2 DEF RemoteChange, TaskChange, Unfinished

\* Nobody holds a claim to begin with.
LEMMA ClaimsInit == Init => ClaimsFenced
<1> SUFFICES ASSUME Init
             PROVE  ClaimsFenced
  OBVIOUS
<1>1. \A p \in Processes : proc[p] = Idle
  BY DEF Init
<1>2. Idle.pc = "idle"
  BY DEF Idle
<1>3. \A p \in Processes : Flights(proc[p]) = {}
  BY <1>1, <1>2, FlightsOf
<1>4. \A a \in Attempts : child[a].state = "none" /\ task[a].state = "none"
  BY DEF Init, LedgerInit, NoRow
<1> QED
  BY <1>3, <1>4 DEF ClaimsFenced

\* Although leases run out under their holders, and calls and processes fail, no
\* two processes hold the same claim on an attempt, none holds one newer than
\* the row, the row's own fence is in the hands of its owner if in anyone's, and
\* what was never claimed was never launched (claim_launches, record_handle).
THEOREM ClaimsAreFenced == Spec => []ClaimsFenced
<1>1. Init => SInv /\ ClaimsFenced
  BY LifeInit, ClaimsInit
<1>2. SInv /\ ClaimsFenced /\ [Next]_vars => (SInv /\ ClaimsFenced)'
  <2> SUFFICES ASSUME SInv, ClaimsFenced, [Next]_vars
               PROVE  (SInv /\ ClaimsFenced)'
    OBVIOUS
  <2>1. SInv' /\ LedgerChange /\ RemoteChange
    BY LifeSteps, LedgerSteps, RemoteSteps
  <2>2. \A p \in Processes : \A c \in Flights(proc'[p]) : 1 <= c.fence /\ c.fence <= child'[c.id].fence
    BY <2>1, FencesStep
  <2>3. \A p, q \in Processes : \A c \in Flights(proc'[p]) : c \in Flights(proc'[q]) => p = q
    BY <2>1, HoldersStep
  <2>4. \A a \in Attempts, p \in Processes :
           child'[a].state = "launching" /\ CurrentClaim(a)' \in Flights(proc'[p])
              => child'[a].owner = p
    BY <2>1, OwnersStep
  <2>5. \A a \in Attempts : child'[a].fence = 0 => task'[a].state = "none"
    BY <2>1, UnclaimedStep
  <2> QED
    BY <2>1, <2>2, <2>3, <2>4, <2>5 DEF ClaimsFenced
<1> QED
  BY <1>1, <1>2, PTL DEF Spec


--------------------------------------------------------------------------------
(* Told of the joined generation.  The parent is resumed in one step and the *)
(* row projected in a later one, by a process that read both the row and the *)
(* children before; what holds the two together is the row's revision.       *)

\* A process that has the results of a generation in hand, or is to write that
\* the parent was told of them.
Joining(p) ==
    \/ proc[p].pc \in {"join", "resume"}
    \/ proc[p].pc = "update" /\ proc[p].target.reason = "children_contract_valid"

\* As long as a row is of the revision a process read, it is of the generation
\* whose results the process has; and before it writes so, the parent is told.
ToldInv ==
    /\ JoinedIsTold
    /\ \A p \in Processes :
          proc[p].pc \in HoldsRevision => proc[p].snap.rev <= execution.rev
    /\ \A p \in Processes :
          Joining(p) /\ proc[p].snap.rev = execution.rev => proc[p].view.gen = execution.gen
    /\ \A p \in Processes :
          Joining(p) /\ proc[p].pc = "update" => proc[p].view.gen \in parent.joined

\* The snapshot a process holds is the one it held, or the execution as it is.
LEMMA HeldSnapshot ==
  ASSUME SInv, [Next]_vars, NEW p \in Processes, proc'[p].pc \in HoldsRevision
  PROVE  \/ proc'[p].snap = proc[p].snap /\ proc[p].pc \in HoldsRevision
         \/ proc'[p].snap.rev = execution.rev
<1>1. \/ proc'[p].snap = proc[p].snap /\ proc[p].pc \in HoldsRevision
      \/ proc'[p].pc = "children"
  BY HeldRevision
<1>2. proc'[p] = proc[p] \/ Arrives(p)
  BY ProcessArrives
<1>3. CASE Arrives(p) /\ proc'[p].pc = "children"
  BY <1>3, ReadExecutionBrings DEF Arrives
<1> QED
  BY <1>1, <1>2, <1>3

\* What the parent was told of it stays told of.
LEMMA JoinedGrows ==
  ASSUME SInv, RemoteChange
  PROVE  parent.joined \subseteq parent'.joined
<1>1. parent \in ParentType
  BY DEF SInv, IInv, RemoteTypeOK
<1>2. ASSUME NEW p \in Processes, parent' = Resumed(p) \/ parent' = Notified(p)
      PROVE  parent.joined \subseteq parent'.joined
  BY <1>1, <1>2 DEF Resumed, Notified, ParentType
<1> QED
  BY <1>2 DEF RemoteChange, ParentChange

\* Without a new revision there is no new generation, and a new generation has
\* another reason.
LEMMA GenerationKept ==
  ASSUME SInv, LedgerChange,
         execution'.rev = execution.rev \/ execution'.reason = "children_contract_valid"
  PROVE  execution'.gen = execution.gen
<1>1. execution.rev \in Nat
  BY ExecutionFields DEF SInv, IInv, LedgerInv, LedgerTypeOK
<1> QED
  BY <1>1 DEF LedgerChange, ExecutionChange, GenerationChange, RevisionChange

\* The results a process has in hand are those it had, those of the generation
\* it reads, or those the parent is just told of.
LEMMA JoiningBrings ==
  ASSUME SInv, [Next]_vars, NEW p \in Processes, Joining(p)'
  PROVE  \/ /\ Joining(p)
            /\ proc'[p].snap = proc[p].snap /\ proc'[p].view = proc[p].view
            /\ proc'[p].pc = "update" => proc[p].pc = "update" \/ parent' = Resumed(p)
         \/ proc'[p].pc = "join" /\ proc'[p].view.gen = execution.gen /\ execution' = execution
<1>1. proc'[p] = proc[p] \/ Arrives(p)
  BY ProcessArrives
<1>2. CASE proc'[p] = proc[p]
  BY <1>2 DEF Joining
<1>3. CASE Arrives(p) /\ proc'[p].pc = "join"
  BY <1>3, ReadChildrenBrings DEF Arrives, ReadChildren
<1>4. CASE Arrives(p) /\ proc'[p].pc = "resume"
  BY <1>4, ReadJoinBrings DEF Arrives, ReadJoin, At, Joining
<1>5. CASE Arrives(p) /\ proc'[p].pc = "update"
  <2>1. proc'[p].target.reason = "children_contract_valid"
    BY <1>5 DEF Joining
  <2>2. ~ReadChildren(p)
    BY <1>5, <2>1, ReadChildrenBrings DEF Canceled
  <2>3. ~ReadJoin(p)
    <3>1. SUFFICES ASSUME ReadJoin(p)
                   PROVE  proc'[p].target.reason # "children_contract_valid"
      BY <2>1
    <3>2. proc'[p].target \in {Canceled, [state |-> "blocked", reason |-> "child_failed"],
                               [state |-> "blocked", reason |-> "child_blocked"],
                               [state |-> "waiting", reason |-> "awaiting_children"]}
      BY <1>5, <3>1, ReadJoinBrings
    <3> QED
      BY <3>2 DEF Canceled
  <2>4. ResumeParent(p)
    BY <1>5, <2>2, <2>3 DEF Arrives
  <2> QED
    BY <1>5, <2>4, ResumeParentBrings DEF ResumeParent, At, Joining
<1> QED
  BY <1>1, <1>2, <1>3, <1>4, <1>5 DEF Joining

\* Nobody joins to begin with.
LEMMA ToldInit == Init => ToldInv
<1> SUFFICES ASSUME Init
             PROVE  ToldInv
  OBVIOUS
<1>1. execution.reason = ""
  BY DEF Init, LedgerInit
<1>2. \A p \in Processes : proc[p].pc = "idle"
  BY DEF Init, Idle
<1> QED
  BY <1>1, <1>2 DEF ToldInv, JoinedIsTold, Joining, HoldsRevision

\* The row changes its generation only with its revision.
LEMMA ToldStep ==
  ASSUME SInv, SInv', ToldInv, [Next]_vars
  PROVE  ToldInv'
<1>1. LedgerChange /\ RemoteChange
  BY LedgerSteps, RemoteSteps
<1>2. /\ execution.rev \in Nat /\ execution'.rev \in Nat
      /\ execution'.rev >= execution.rev
  BY <1>1, ExecutionFields DEF SInv, IInv, LedgerInv, LedgerTypeOK, LedgerChange, ExecutionChange,
     RevisionChange
<1>3. ASSUME NEW p \in Processes, proc'[p].pc \in HoldsRevision
      PROVE  proc'[p].snap.rev <= execution'.rev
  <2>1. \/ proc'[p].snap = proc[p].snap /\ proc[p].pc \in HoldsRevision
        \/ proc'[p].snap.rev = execution.rev
    BY <1>3, HeldSnapshot
  <2>2. proc'[p].snap.rev <= execution.rev
    BY <1>2, <2>1 DEF ToldInv
  <2>3. proc'[p].snap.rev \in Nat
    BY LocalFields DEF SInv, IInv
  <2> QED
    BY <1>2, <2>2, <2>3
<1>4. ASSUME NEW p \in Processes, Joining(p)', proc'[p].snap.rev = execution'.rev
      PROVE  proc'[p].view.gen = execution'.gen
  <2>1. CASE execution' = execution /\ proc'[p].view.gen = execution.gen
    BY <2>1
  <2>2. CASE /\ Joining(p)
             /\ proc'[p].snap = proc[p].snap /\ proc'[p].view = proc[p].view
    <3>1. proc[p].snap.rev <= execution.rev /\ proc[p].snap.rev \in Nat
      BY <2>2, LocalFields DEF ToldInv, Joining, HoldsRevision, SInv, IInv
    <3>2. execution'.rev = execution.rev
      BY <1>2, <1>4, <2>2, <3>1
    <3>3. execution'.gen = execution.gen
      BY <1>1, <3>2, GenerationKept
    <3> QED
      BY <1>4, <2>2, <3>2, <3>3 DEF ToldInv
  <2> QED
    BY <1>4, <2>1, <2>2, JoiningBrings
<1>5. ASSUME NEW p \in Processes, Joining(p)', proc'[p].pc = "update"
      PROVE  proc'[p].view.gen \in parent'.joined
  <2>1. /\ Joining(p) /\ proc'[p].view = proc[p].view
        /\ proc[p].pc = "update" \/ parent' = Resumed(p)
    BY <1>5, JoiningBrings
  <2>2. CASE proc[p].pc = "update"
    BY <1>1, <2>1, <2>2, JoinedGrows DEF ToldInv
  <2>3. CASE parent' = Resumed(p)
    <3>1. parent \in ParentType
      BY DEF SInv, IInv, RemoteTypeOK
    <3>2. proc[p].view.gen \in parent'.joined
      BY <2>3, <3>1 DEF Resumed, ParentType
    <3> QED
      BY <2>1, <3>2
  <2> QED
    BY <2>1, <2>2, <2>3
<1>6. JoinedIsTold'
  <2> SUFFICES ASSUME execution'.reason = "children_contract_valid"
               PROVE  execution'.gen \in parent'.joined
    BY DEF JoinedIsTold
  <2>1. execution'.gen = execution.gen
    BY <1>1, GenerationKept
  <2>2. CASE execution'.reason = execution.reason
    BY <1>1, <2>1, <2>2, JoinedGrows DEF ToldInv, JoinedIsTold
  <2>3. ASSUME NEW p \in Processes, Projects(p)
        PROVE  execution.gen \in parent.joined
    <3>1. /\ proc[p].pc = "update" /\ proc[p].target.reason = "children_contract_valid"
          /\ proc[p].snap.rev = execution.rev
      BY <2>3 DEF Projects, At
    <3> QED
      BY <3>1 DEF ToldInv, Joining
  <2> QED
    BY <1>1, <2>1, <2>2, <2>3, JoinedGrows DEF LedgerChange, ExecutionChange, ReasonChange
<1> QED
  BY <1>3, <1>4, <1>5, <1>6 DEF ToldInv

\* However many processes reconcile and expand one execution, and whichever of
\* them crash or fail, a row says that its join is over only when the parent was
\* told of the row's own generation (_project_join, _past_children_join,
\* update_execution_state, reserve_generation).
THEOREM JoinedAreTold == Spec => []JoinedIsTold
<1>1. Init => SInv /\ ToldInv
  BY LifeInit, ToldInit
<1>2. SInv /\ ToldInv /\ [Next]_vars => (SInv /\ ToldInv)'
  BY LifeSteps, ToldStep
<1>3. SInv /\ ToldInv => JoinedIsTold
  BY DEF ToldInv
<1> QED
  BY <1>1, <1>2, <1>3, PTL DEF Spec

================================================================================
