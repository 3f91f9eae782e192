----------------------------- MODULE LifecycleProofs -----------------------------
(***************************************************************************)
(* WorkflowExecution implements AttemptLifecycle, for every value of the   *)
(* constants.                                                              *)
(*                                                                         *)
(* Each ledger transaction is one step of the abstract life, or none       *)
(* (LifeStep); a step of the service that runs no transaction is none.     *)
(* Beyond IInv this needs to know that an attempt is being canceled only   *)
(* once that was requested, and that whatever a process is about to record *)
(* or to retry agrees with it (LifeOK).                                    *)
(***************************************************************************)
EXTENDS WorkflowExecutionProofs

QueuedStates == {"reserved", "launching"}
WorkingStates == {"submitted", "running", "blocked"}
EndedStates == {"canceled", "completed", "failed"}

CancelingIsRequested == \A a \in Attempts : child[a].state = "canceling" => execution.cancel
QueuedHaveNoTask == \A a \in Attempts : child[a].state \in QueuedStates => ~child[a].task
SupersededIsReplaced == \A a \in Attempts : child[a].state = "superseded" => ~Latest(a)

LifeInv == CancelingIsRequested /\ QueuedHaveNoTask /\ SupersededIsReplaced

Begun(a) == child[a].state \notin {"none"} \cup QueuedStates

Phase == [a \in Attempts |-> PhaseOf(a)]

\* What a transaction does to the attempts' lives.
LifeStep ==
    /\ LifeInv'
    /\ execution.cancel => execution'.cancel
    /\ \A a \in Attempts : Begun(a) => Begun(a)'
    /\ [Lifecycle!Next]_(Lifecycle!vars)

--------------------------------------------------------------------------------
(* Steps that leave all phases alone, and steps of one attempt.            *)

\* Both modules speak of the same attempts.
LEMMA SameAttempts == Lifecycle!Attempts = Attempts /\ Lifecycle!Generations = Generations
  BY DEF Lifecycle!Attempts, Attempts, Lifecycle!Generations, Generations

\* A phase determines the states it stands for.
LEMMA PhaseStates ==
  ASSUME NEW a, child[a].state \in ChildStates
  PROVE  /\ PhaseOf(a) = "absent" <=> child[a].state = "none"
         /\ PhaseOf(a) = "queued" <=> child[a].state \in QueuedStates
         /\ PhaseOf(a) = "working" <=> child[a].state \in WorkingStates
         /\ PhaseOf(a) = "stopping" <=> child[a].state = "canceling"
         /\ PhaseOf(a) = "stopped" <=> child[a].state = "canceled"
         /\ PhaseOf(a) = "completed" <=> child[a].state = "completed"
         /\ PhaseOf(a) = "failed" <=> child[a].state = "failed"
         /\ PhaseOf(a) = "superseded" <=> child[a].state = "superseded"
  BY DEF PhaseOf, ChildStates, QueuedStates, WorkingStates

\* Rows have states.
LEMMA StatesTyped ==
  ASSUME LedgerInv
  PROVE  \A a \in Attempts : child[a] \in RowType /\ child[a].state \in ChildStates
  BY DEF LedgerInv, LedgerTypeOK, RowType

\* A step that changes no phase, no cancellation and no queued row's task is
\* no step of the life.
LEMMA PhasesStay ==
  ASSUME LedgerInv, LedgerInv', LifeInv, execution'.cancel = execution.cancel,
         \A a \in Attempts : PhaseOf(a)' = PhaseOf(a),
         \A a \in Attempts : child'[a].state \in QueuedStates => ~child'[a].task
  PROVE  LifeStep
<1>1. \A a \in Attempts : child[a].state \in ChildStates /\ child'[a].state \in ChildStates
  BY DEF LedgerInv, LedgerTypeOK, RowType
<1>2. ASSUME NEW a \in Attempts
      PROVE  /\ Present(a)' <=> Present(a)
             /\ child'[a].state = "canceling" <=> child[a].state = "canceling"
             /\ child'[a].state = "superseded" <=> child[a].state = "superseded"
             /\ Begun(a)' <=> Begun(a)
  <2>1. child[a].state \in ChildStates /\ child'[a].state \in ChildStates /\ PhaseOf(a)' = PhaseOf(a)
    BY <1>1
  <2> QED
    BY <2>1 DEF Present, Begun, PhaseOf, ChildStates, QueuedStates
<1>3. \A a \in Attempts : Latest(a)' <=> Latest(a)
  BY <1>2, AttemptVersions DEF Latest
<1>4. LifeInv'
  BY <1>2, <1>3 DEF LifeInv, CancelingIsRequested, QueuedHaveNoTask, SupersededIsReplaced
<1>5. UNCHANGED Lifecycle!vars
  BY DEF Lifecycle!vars
<1> QED
  BY <1>2, <1>4, <1>5 DEF LifeStep

\* One attempt moves on: within its phase, to a start, to an end, or back to be
\* stopped.
RowLives(a) ==
    LET s == child[a].state
        t == child'[a].state
    IN  \/ PhaseOf(a)' = PhaseOf(a) /\ (t \in QueuedStates => ~child'[a].task)
        \/ s \in QueuedStates /\ t \in WorkingStates /\ ~execution.cancel
        \/ s \in WorkingStates \cup {"canceling"} /\ t \in EndedStates
        \/ s \in QueuedStates /\ t = "failed"
        \/ s = "canceled" /\ t = "canceling" /\ execution.cancel

\* Such a step of one row is a step of the life.
LEMMA RowStep ==
  ASSUME LedgerInv, LedgerInv', LifeInv, execution'.cancel = execution.cancel,
         NEW a \in Attempts, RowLives(a),
         \A b \in Attempts : b # a => child'[b] = child[b]
  PROVE  LifeStep
<1> DEFINE s == child[a].state
<1> DEFINE t == child'[a].state
<1>1. \A b \in Attempts : child[b].state \in ChildStates /\ child'[b].state \in ChildStates
  BY DEF LedgerInv, LedgerTypeOK, RowType
<1>2. \A b \in Attempts : b # a => PhaseOf(b)' = PhaseOf(b)
  BY DEF PhaseOf
<1>3. CASE PhaseOf(a)' = PhaseOf(a) /\ (child'[a].state \in QueuedStates => ~child'[a].task)
  BY <1>2, <1>3, PhasesStay DEF LifeInv, QueuedHaveNoTask
<1>4. CASE \/ s \in QueuedStates /\ t \in WorkingStates /\ ~execution.cancel
           \/ s \in WorkingStates \cup {"canceling"} /\ t \in EndedStates
           \/ s \in QueuedStates /\ t = "failed"
           \/ s = "canceled" /\ t = "canceling" /\ execution.cancel
  <2>1. \/ s \in QueuedStates /\ t \in WorkingStates /\ ~execution.cancel
        \/ s \in WorkingStates \cup {"canceling"} /\ t \in EndedStates
        \/ s \in QueuedStates /\ t = "failed"
        \/ s = "canceled" /\ t = "canceling" /\ execution.cancel
    BY <1>4
  <2>2. t \notin QueuedStates \cup {"none", "superseded"} /\ s \notin {"none", "superseded"}
    BY <2>1 DEF QueuedStates, WorkingStates, EndedStates
  <2>3. \A b \in Attempts : Present(b)' <=> Present(b)
    BY <2>2 DEF Present
  <2>4. \A b \in Attempts : Latest(b)' <=> Latest(b)
    BY <2>3, AttemptVersions DEF Latest
  <2>5. LifeInv'
    <3>1. CancelingIsRequested'
      BY <2>1 DEF LifeInv, CancelingIsRequested, QueuedStates, WorkingStates, EndedStates
    <3>2. QueuedHaveNoTask'
      BY <2>2 DEF LifeInv, QueuedHaveNoTask
    <3>3. SupersededIsReplaced'
      BY <2>2, <2>4 DEF LifeInv, SupersededIsReplaced
    <3> QED
      BY <3>1, <3>2, <3>3 DEF LifeInv
  <2>6. \A b \in Attempts : Begun(b) => Begun(b)'
    BY <2>2 DEF Begun
  <2>7. Phase' = [Phase EXCEPT ![a] = PhaseOf(a)']
    BY <1>2 DEF Phase
  <2>8. Phase[a] = PhaseOf(a)
    BY DEF Phase
  <2>9. Lifecycle!Start(a) \/ Lifecycle!Finish(a) \/ Lifecycle!StopLate(a)
    <3>1. CASE s \in QueuedStates /\ t \in WorkingStates /\ ~execution.cancel
      <4>1. PhaseOf(a) = "queued" /\ PhaseOf(a)' = "working"
        BY <3>1 DEF PhaseOf, QueuedStates, WorkingStates
      <4> QED
        BY <2>7, <2>8, <3>1, <4>1 DEF Lifecycle!Start, Phase
    <3>2. CASE s \in WorkingStates \cup {"canceling"} /\ t \in EndedStates
      <4>1. PhaseOf(a) \in {"working", "stopping"} /\ PhaseOf(a)' \in {"stopped", "completed", "failed"}
        BY <3>2 DEF PhaseOf, WorkingStates, EndedStates
      <4> QED
        BY <2>7, <2>8, <4>1 DEF Lifecycle!Finish, Lifecycle!Ended, Phase
    <3>3. CASE s \in QueuedStates /\ t = "failed"
      <4>1. PhaseOf(a) = "queued" /\ PhaseOf(a)' = "failed"
        BY <3>3 DEF PhaseOf, QueuedStates
      <4> QED
        BY <2>7, <2>8, <4>1 DEF Lifecycle!Finish, Phase
    <3>4. CASE s = "canceled" /\ t = "canceling" /\ execution.cancel
      <4>1. PhaseOf(a) = "stopped" /\ PhaseOf(a)' = "stopping"
        BY <3>4 DEF PhaseOf
      <4> QED
        BY <2>7, <2>8, <3>4, <4>1 DEF Lifecycle!StopLate, Phase
    <3> QED
      BY <2>1, <3>1, <3>2, <3>3, <3>4
  <2>10. Lifecycle!Next
    BY <2>9, SameAttempts DEF Lifecycle!Next
  <2> QED
    BY <2>5, <2>6, <2>10 DEF LifeStep
<1> QED
  BY <1>3, <1>4 DEF RowLives

--------------------------------------------------------------------------------
(* The transactions.                                                       *)

\* A transaction of the execution row alone, or none, is no step of the life.
LEMMA RowsUntouched ==
  ASSUME LedgerInv, LedgerInv', LifeInv, child' = child, execution'.cancel = execution.cancel
  PROVE  LifeStep
<1>1. \A a \in Attempts : PhaseOf(a)' = PhaseOf(a)
  BY DEF PhaseOf
<1> QED
  BY <1>1, PhasesStay DEF LifeInv, QueuedHaveNoTask

\* A claimed attempt stays queued.
LEMMA ClaimLives ==
  ASSUME LedgerInv, LedgerInv', LifeInv, NEW p, NEW S \in ClaimableBatches, claim_launches(p, S)
  PROVE  LifeStep
<1>1. S \subseteq Attempts /\ \A a \in S : child[a].state \in QueuedStates
  BY DEF ClaimableBatches, Claimable, QueuedStates
<1>2. ASSUME NEW a \in S
      PROVE  child'[a].state = "launching" /\ child'[a].task = child[a].task
  <2>1. child'[a] = [child[a] EXCEPT !.state = "launching", !.owner = p,
                                     !.live = TRUE, !.fence = @ + 1]
    BY <1>1 DEF claim_launches
  <2> QED
    BY <1>1, <2>1, StatesTyped DEF RowType
<1>3. \A a \in Attempts : a \notin S => child'[a] = child[a]
  BY DEF claim_launches
<1>4. \A a \in Attempts : PhaseOf(a)' = PhaseOf(a)
  BY <1>1, <1>2, <1>3 DEF PhaseOf, QueuedStates
<1>5. \A a \in Attempts : child'[a].state \in QueuedStates => ~child'[a].task
  BY <1>1, <1>2, <1>3 DEF LifeInv, QueuedHaveNoTask
<1> QED
  BY <1>4, <1>5, PhasesStay DEF claim_launches

\* A lease that runs out leaves the attempt queued.
LEMMA LeaseLives ==
  ASSUME LedgerInv, LedgerInv', LifeInv, NEW a \in Attempts, LeaseExpires(a)
  PROVE  LifeStep
<1>1. \A b \in Attempts : child'[b].state = child[b].state /\ child'[b].task = child[b].task
  BY StatesTyped DEF LeaseExpires, LedgerInv, LedgerTypeOK, RowType
<1>2. \A b \in Attempts : PhaseOf(b)' = PhaseOf(b)
  BY <1>1 DEF PhaseOf
<1> QED
  BY <1>1, <1>2, PhasesStay DEF LeaseExpires, LifeInv, QueuedHaveNoTask

\* A handle starts the attempt, or reopens a canceled one to stop it.
LEMMA HandleLives ==
  ASSUME LedgerInv, LedgerInv', LifeInv, NEW p, NEW fence, NEW a \in Attempts,
         record_handle(p, a, fence)
  PROVE  LifeStep
<1> DEFINE s == IF HandleAttaches(p, a, fence) THEN "submitted" ELSE "canceling"
<1>1. child'[a].state = s /\ \A b \in Attempts : b # a => child'[b] = child[b]
  <2>1. child' = [child EXCEPT ![a] = [child[a] EXCEPT !.state = s, !.task = TRUE,
                                                       !.owner = Nobody, !.live = FALSE]]
    BY StatesTyped DEF record_handle, LedgerInv, LedgerTypeOK
  <2>2. child'[a] = [child[a] EXCEPT !.state = s, !.task = TRUE, !.owner = Nobody, !.live = FALSE]
    BY <2>1 DEF LedgerInv, LedgerTypeOK
  <2> HIDE DEF s
  <2> QED
    BY <2>1, <2>2, StatesTyped DEF LedgerInv, LedgerTypeOK, RowType
<1>2. RowLives(a)
  <2>1. CASE HandleAttaches(p, a, fence)
    <3>1. child[a].state = "launching" /\ ~execution.cancel
      BY <2>1 DEF HandleAttaches, LedgerInv, CancelQuiets, Quiet, TERMINAL_CHILD_STATES
    <3> QED
      BY <1>1, <2>1, <3>1 DEF RowLives, QueuedStates, WorkingStates
  <2>2. CASE ~HandleAttaches(p, a, fence)
    BY <1>1, <2>2 DEF RowLives, record_handle, HandleArrivesCanceled
  <2> QED
    BY <2>1, <2>2
<1> QED
  BY <1>1, <1>2, RowStep DEF record_handle

\* An observation moves a working attempt along or ends it, and ends an overdue
\* one that never started.
LEMMA ObservationLives ==
  ASSUME LedgerInv, LedgerInv', LifeInv, NEW a \in Attempts, NEW obs \in Observations, Present(a),
         child[a].task \/ obs.state = "failed",
         obs.state = "canceling" => execution.cancel,
         record_observation(a, obs)
  PROVE  LifeStep
<1>1. child[a] \in RowType /\ child[a].state \in ChildStates /\ obs.state \in ObservedStates
  BY StatesTyped DEF Observations
<1>2. execution'.cancel = execution.cancel
  BY DEF record_observation, ApplyObservation, LedgerInv, LedgerTypeOK, ExecutionType
<1>3. CASE ObservationIgnored(a, obs) /\ child' = [child EXCEPT ![a].fails = 0,
                                                               ![a].events = @ \cup {obs.event}]
  <2>1. child'[a] = [child[a] EXCEPT !.fails = 0, !.events = @ \cup {obs.event}]
    BY <1>3 DEF LedgerInv, LedgerTypeOK
  <2>2. /\ child'[a].state = child[a].state /\ child'[a].task = child[a].task
        /\ \A b \in Attempts : b # a => child'[b] = child[b]
    BY <1>1, <1>3, <2>1 DEF LedgerInv, LedgerTypeOK, RowType
  <2>3. RowLives(a)
    BY <2>2 DEF RowLives, PhaseOf, LifeInv, QueuedHaveNoTask
  <2> QED
    BY <1>2, <2>2, <2>3, RowStep
<1>4. CASE ~ObservationIgnored(a, obs) /\ ApplyObservation(a, obs)
  <2> DEFINE t == ProjectedState(a, obs)
  <2>1. child'[a] = [child[a] EXCEPT !.state = t, !.seen = obs.at, !.ask = obs.event.ask,
                                     !.fails = 0, !.events = @ \cup {obs.event}]
    BY <1>4 DEF ApplyObservation, LedgerInv, LedgerTypeOK
  <2>2. \A b \in Attempts : b # a => child'[b] = child[b]
    BY <1>4 DEF ApplyObservation, LedgerInv, LedgerTypeOK
  <2>3. child'[a].state = t /\ child'[a].task = child[a].task
    BY <1>1, <2>1 DEF RowType
  <2>4. child[a].state \in QueuedStates \cup WorkingStates \cup {"canceling"}
    BY <1>1, <1>4 DEF ObservationIgnored, Terminal, TERMINAL_CHILD_STATES, ChildStates, Present,
       QueuedStates, WorkingStates
  <2>5. CASE child[a].state \in QueuedStates
    <3>1. t = "failed"
      BY <2>5 DEF LifeInv, QueuedHaveNoTask, ProjectedState, QueuedStates
    <3> QED
      BY <1>2, <2>2, <2>3, <2>5, <3>1, RowStep DEF RowLives
  <2>6. CASE child[a].state \in WorkingStates
    <3>1. ~execution.cancel
      BY <2>6 DEF LedgerInv, CancelQuiets, Quiet, TERMINAL_CHILD_STATES, WorkingStates
    <3>2. t = obs.state /\ t \in WorkingStates \cup EndedStates
      BY <1>1, <3>1 DEF ProjectedState, ObservedStates, WorkingStates, EndedStates
    <3>3. RowLives(a)
      <4>1. CASE t \in WorkingStates
        BY <2>3, <2>6, <4>1 DEF RowLives, PhaseOf, WorkingStates, QueuedStates
      <4>2. CASE t \in EndedStates
        BY <2>3, <2>6, <4>2 DEF RowLives
      <4> QED
        BY <3>2, <4>1, <4>2
    <3> QED
      BY <1>2, <2>2, <3>3, RowStep
  <2>7. CASE child[a].state = "canceling"
    <3>1. execution.cancel
      BY <2>7 DEF LifeInv, CancelingIsRequested
    <3>2. t \in EndedStates \cup {"canceling"}
      BY <1>1, <2>7, <3>1 DEF ProjectedState, ObservedStates, TERMINAL_CHILD_STATES, EndedStates
    <3>3. RowLives(a)
      BY <2>3, <2>7, <3>2 DEF RowLives, PhaseOf, QueuedStates
    <3> QED
      BY <1>2, <2>2, <3>3, RowStep
  <2> QED
    BY <2>4, <2>5, <2>6, <2>7
<1> QED
  BY <1>3, <1>4 DEF record_observation

\* Failed polls, or failed cancel requests, end a working or stopping attempt.
LEMMA ReconcileErrorLives ==
  ASSUME LedgerInv, LedgerInv', LifeInv, NEW a \in Attempts, child[a].task, Present(a),
         record_reconcile_error(a)
  PROVE  LifeStep
<1>1. child[a] \in RowType /\ child[a].state \in ChildStates
  BY StatesTyped
<1>2. execution'.cancel = execution.cancel
  BY DEF record_reconcile_error, LedgerInv, LedgerTypeOK, ExecutionType
<1>3. \A b \in Attempts : b # a => child'[b] = child[b]
  BY DEF record_reconcile_error, LedgerInv, LedgerTypeOK
<1>4. CASE child' = child
  BY <1>2, <1>4, RowsUntouched
<1>5. CASE child' = [child EXCEPT ![a].fails = @ + 1]
  <2>1. child'[a].state = child[a].state /\ child'[a].task = child[a].task
    BY <1>1, <1>5 DEF LedgerInv, LedgerTypeOK, RowType
  <2>2. RowLives(a)
    BY <2>1 DEF RowLives, PhaseOf, LifeInv, QueuedHaveNoTask
  <2> QED
    BY <1>2, <1>3, <2>2, RowStep
<1>6. CASE ~Terminal(a) /\ child' = [child EXCEPT ![a].fails = @ + 1, ![a].state = "failed"]
  <2>1. child'[a].state = "failed"
    BY <1>1, <1>6 DEF LedgerInv, LedgerTypeOK, RowType
  <2>2. child[a].state \in WorkingStates \cup {"canceling"}
    BY <1>1, <1>6 DEF LifeInv, QueuedHaveNoTask, QueuedStates, WorkingStates, Present, Terminal,
       TERMINAL_CHILD_STATES, ChildStates
  <2>3. RowLives(a)
    BY <2>1, <2>2 DEF RowLives, EndedStates
  <2> QED
    BY <1>2, <1>3, <2>3, RowStep
<1> QED
  BY <1>4, <1>5, <1>6 DEF record_reconcile_error

\* Stopping all children calls the execution off.
LEMMA StopChildrenLives ==
  ASSUME LedgerInv, LedgerInv', LifeInv, StopChildren, execution'.cancel = TRUE
  PROVE  LifeStep
<1> DEFINE to(s) == IF s \in QueuedStates THEN "canceled" ELSE "canceling"
<1>1. ASSUME NEW a \in Attempts
      PROVE  /\ child[a].state \in {"none"} \cup TERMINAL_CHILD_STATES => child'[a].state = child[a].state
             /\ child[a].state \notin {"none"} \cup TERMINAL_CHILD_STATES
                  => child'[a].state = to(child[a].state)
             /\ child[a].state \in ChildStates
  <2>1. CASE child[a].state \in {"none"} \cup TERMINAL_CHILD_STATES
    BY <2>1, StatesTyped DEF StopChildren, Present, Terminal
  <2>2. CASE child[a].state \notin {"none"} \cup TERMINAL_CHILD_STATES
    <3> DEFINE s == IF child[a].state \in {"reserved", "launching"} THEN "canceled" ELSE "canceling"
    <3>1. child'[a] = [child[a] EXCEPT !.state = s, !.owner = Nobody, !.live = FALSE]
      BY <2>2 DEF StopChildren, Present, Terminal
    <3>2. child'[a].state = s
      BY <3>1, StatesTyped DEF RowType
    <3> QED
      BY <2>2, <3>2, StatesTyped DEF QueuedStates
  <2> QED
    BY <2>1, <2>2
<1>2. ASSUME NEW a \in Attempts
      PROVE  PhaseOf(a)' = Lifecycle!CalledOff(PhaseOf(a))
  <2> DEFINE s == child[a].state
  <2>1. CASE s \in {"none"} \cup TERMINAL_CHILD_STATES
    BY <1>1, <2>1 DEF PhaseOf, Lifecycle!CalledOff, TERMINAL_CHILD_STATES
  <2>2. CASE s \in QueuedStates
    BY <1>1, <2>2 DEF PhaseOf, Lifecycle!CalledOff, TERMINAL_CHILD_STATES, QueuedStates
  <2>3. CASE s \in WorkingStates \cup {"canceling"}
    BY <1>1, <2>3 DEF PhaseOf, Lifecycle!CalledOff, TERMINAL_CHILD_STATES, QueuedStates, WorkingStates
  <2> QED
    BY <1>1, <2>1, <2>2, <2>3 DEF ChildStates, TERMINAL_CHILD_STATES, QueuedStates, WorkingStates
<1>3. Lifecycle!Next
  <2>1. Phase' = [a \in Attempts |-> Lifecycle!CalledOff(Phase[a])]
    BY <1>2 DEF Phase
  <2> QED
    BY <2>1, SameAttempts DEF Lifecycle!Next, Lifecycle!CallOff, Phase
<1>4. \A a \in Attempts : /\ Present(a)' <=> Present(a)
                          /\ child'[a].state = "superseded" <=> child[a].state = "superseded"
                          /\ Begun(a) => Begun(a)'
                          /\ child'[a].state \notin QueuedStates
  BY <1>1 DEF Present, Begun, QueuedStates, TERMINAL_CHILD_STATES
<1>5. \A a \in Attempts : Latest(a)' <=> Latest(a)
  BY <1>4, AttemptVersions DEF Latest
<1>6. LifeInv'
  BY <1>4, <1>5 DEF LifeInv, CancelingIsRequested, QueuedHaveNoTask, SupersededIsReplaced
<1> QED
  BY <1>3, <1>4, <1>6 DEF LifeStep

\* So a cancel request is one step of the life, or none for a completed execution.
LEMMA RequestCancelLives ==
  ASSUME LedgerInv, LedgerInv', LifeInv, request_cancel
  PROVE  LifeStep
<1>1. CASE UNCHANGED ledger
  BY <1>1, RowsUntouched DEF ledger
<1>2. CASE ~UNCHANGED ledger
  BY <1>2, StopChildrenLives DEF request_cancel, LedgerInv, LedgerTypeOK, ExecutionType
<1> QED
  BY <1>1, <1>2

\* And so is the failure of an overdue execution.
LEMMA FailExecutionLives ==
  ASSUME LedgerInv, LedgerInv', LifeInv, NEW rev, fail_execution(rev)
  PROVE  LifeStep
  BY StopChildrenLives DEF fail_execution, LedgerInv, LedgerTypeOK, ExecutionType

\* A reservation queues a generation that no attempt belongs to yet.
LEMMA ReserveLives ==
  ASSUME LedgerInv, LedgerInv', LifeInv, NEW p \in Plans, NEW rev,
         ReservationAccepted(rev, p), reserve_generation(p)
  PROVE  LifeStep
<1> DEFINE g == execution.gen + 1
<1> DEFINE new(a) == a.gen = g /\ a.key \in DOMAIN p.deps /\ a.attempt = 1
<1>1. execution \in ExecutionType /\ execution.gen \in 0..MaxGeneration
  BY ExecutionFields DEF LedgerInv, LedgerTypeOK
<1>2. g \in Generations /\ DOMAIN p.deps \subseteq Keys /\ ~execution.cancel
  BY LedgerAssumption DEF ReservationAccepted
<1>3. child' = [a \in Attempts |-> IF new(a) THEN ReservedRow ELSE child[a]]
      /\ execution'.cancel = execution.cancel
  BY <1>1 DEF reserve_generation, ExecutionType
<1>4. \A a \in Attempts : a.gen = g => child[a] = NoRow /\ child[a].state = "none"
  BY <1>1, AttemptVersions DEF LedgerInv, RowsInGenerations, AbsentRowsEmpty, Generations, Present
<1> HIDE DEF g
<1>5. \A a \in Attempts : a.gen = g => PhaseOf(a) = "absent"
  BY <1>4 DEF PhaseOf
<1>6. \A a \in Attempts : PhaseOf(a)' = IF new(a) THEN "queued" ELSE PhaseOf(a)
  BY <1>3, RowsTyped DEF PhaseOf
<1>7. Lifecycle!Expand
  <2>1. Phase' = [a \in Attempts |-> IF new(a) THEN "queued" ELSE Phase[a]]
    BY <1>6 DEF Phase
  <2>2. \A a \in Attempts : a.gen = g => Phase[a] = "absent"
    BY <1>5 DEF Phase
  <2> QED
    BY <1>2, <1>3, <2>1, <2>2, SameAttempts DEF Lifecycle!Expand, Phase
<1>8. \A a \in Attempts : Present(a) => child'[a] = child[a]
  BY <1>3, <1>4 DEF Present
<1>9. \A a \in Attempts : child'[a] = child[a] \/ child'[a] = ReservedRow
  BY <1>3
<1>10. \A a \in Attempts : Begun(a) => Begun(a)'
  BY <1>8 DEF Begun, Present, QueuedStates
<1>11. CancelingIsRequested' /\ QueuedHaveNoTask'
  BY <1>3, <1>9, RowsTyped DEF LifeInv, CancelingIsRequested, QueuedHaveNoTask
<1>12. SupersededIsReplaced'
  <2> SUFFICES ASSUME NEW a \in Attempts, child'[a].state = "superseded"
               PROVE  ~Latest(a)'
    BY DEF SupersededIsReplaced
  <2>1. child[a].state = "superseded" /\ ~Latest(a)
    BY <1>9, RowsTyped DEF LifeInv, SupersededIsReplaced
  <2>2. PICK n \in 1..MaxAttempts : n > a.attempt /\ Present([a EXCEPT !.attempt = n])
    BY <2>1 DEF Latest, Present
  <2>3. Present([a EXCEPT !.attempt = n])'
    BY <1>8, <2>2, AttemptVersions DEF Present
  <2> QED
    BY <2>2, <2>3 DEF Latest
<1> QED
  BY <1>3, <1>7, <1>10, <1>11, <1>12 DEF LifeStep, LifeInv, Lifecycle!Next

\* A retry replaces an attempt that began, and was not asked to stop, by the next.
LEMMA CreateRetryLives ==
  ASSUME LedgerInv, LedgerInv', LifeInv, NEW a \in Attempts, a.attempt < MaxAttempts, Begun(a),
         create_retry(a)
  PROVE  LifeStep
<1> DEFINE next == [a EXCEPT !.attempt = @ + 1]
<1>1. a.attempt \in 1..MaxAttempts /\ a.attempt + 1 \in 1..MaxAttempts
  BY AttemptVersions, LedgerAssumption
<1>2. next \in Attempts /\ next.attempt = a.attempt + 1 /\ next = [a EXCEPT !.attempt = next.attempt]
  BY <1>1, AttemptVersions DEF Attempts
<1>3. child' = [child EXCEPT ![a] = [child[a] EXCEPT !.state = "superseded"],
                             ![next] = ReservedRow]
  BY DEF create_retry, LedgerInv, LedgerTypeOK
<1>4. execution' = execution /\ ~execution.cancel /\ Latest(a)
  BY DEF create_retry, RetryAccepted
<1>5. next.attempt > a.attempt
  BY <1>1, <1>2
<1>6. ~Present(next) /\ child[next] = NoRow
  BY <1>1, <1>2, <1>4, <1>5 DEF Latest, LedgerInv, AbsentRowsEmpty
<1>7. Lifecycle!Attempts = Attempts /\ a.attempt < MaxAttempts
  BY SameAttempts
<1> HIDE DEF next
<1>8. next # a
  BY <1>1, <1>5
<1>9. /\ child'[a].state = "superseded" /\ child'[next] = ReservedRow
      /\ \A b \in Attempts : b # a /\ b # next => child'[b] = child[b]
  BY <1>2, <1>3, <1>8, StatesTyped DEF LedgerInv, LedgerTypeOK, RowType
<1>10. child[a].state \in WorkingStates \cup EndedStates
  BY <1>4, StatesTyped DEF Begun, LifeInv, CancelingIsRequested, SupersededIsReplaced, ChildStates,
     WorkingStates, EndedStates, QueuedStates
<1>11. /\ PhaseOf(a) \in {"working", "stopped", "completed", "failed"} /\ PhaseOf(a)' = "superseded"
       /\ PhaseOf(next) = "absent" /\ PhaseOf(next)' = "queued"
       /\ \A b \in Attempts : b # a /\ b # next => PhaseOf(b)' = PhaseOf(b)
  <2>1. PhaseOf(a) \in {"working", "stopped", "completed", "failed"}
    BY <1>10 DEF PhaseOf, WorkingStates, EndedStates
  <2>2. PhaseOf(a)' = "superseded"
    BY <1>9 DEF PhaseOf
  <2>3. PhaseOf(next) = "absent" /\ PhaseOf(next)' = "queued"
    BY <1>6, <1>9, RowsTyped DEF PhaseOf
  <2>4. \A b \in Attempts : b # a /\ b # next => PhaseOf(b)' = PhaseOf(b)
    BY <1>9 DEF PhaseOf
  <2> QED
    BY <2>1, <2>2, <2>3, <2>4
<1>12. Lifecycle!Retry(a)
  <2>1. Phase' = [Phase EXCEPT ![a] = "superseded", ![next] = "queued"]
    BY <1>2, <1>8, <1>11 DEF Phase
  <2>2. Phase[a] = PhaseOf(a) /\ Phase[next] = PhaseOf(next)
    BY <1>2 DEF Phase
  <2> QED
    BY <1>4, <1>11, <2>1, <2>2 DEF Lifecycle!Retry, Lifecycle!Ended, Phase, next
<1>13. \A b \in Attempts : Present(b) => Present(b)'
  BY <1>9, RowsTyped DEF Present
<1>14. \A b \in Attempts : Begun(b) => Begun(b)'
  BY <1>6, <1>9, RowsTyped DEF Begun, QueuedStates
<1>15. CancelingIsRequested' /\ QueuedHaveNoTask'
  BY <1>4, <1>9, RowsTyped DEF LifeInv, CancelingIsRequested, QueuedHaveNoTask, QueuedStates
<1>16. SupersededIsReplaced'
  <2> SUFFICES ASSUME NEW b \in Attempts, child'[b].state = "superseded"
               PROVE  ~Latest(b)'
    BY DEF SupersededIsReplaced
  <2>1. CASE b = a
    <3>1. Present([a EXCEPT !.attempt = next.attempt])'
      BY <1>2, <1>9, RowsTyped DEF Present
    <3> QED
      BY <1>1, <1>2, <1>5, <2>1, <3>1 DEF Latest
  <2>2. CASE b # a
    <3>1. child[b].state = "superseded" /\ ~Latest(b)
      BY <1>9, <2>2, RowsTyped DEF LifeInv, SupersededIsReplaced
    <3>2. PICK n \in 1..MaxAttempts : n > b.attempt /\ Present([b EXCEPT !.attempt = n])
      BY <3>1 DEF Latest, Present
    <3>3. Present([b EXCEPT !.attempt = n])'
      BY <1>13, <3>2, AttemptVersions
    <3> QED
      BY <3>2, <3>3 DEF Latest
  <2> QED
    BY <2>1, <2>2
<1> QED
  BY <1>4, <1>7, <1>12, <1>14, <1>15, <1>16 DEF LifeStep, LifeInv, Lifecycle!Next

--------------------------------------------------------------------------------
(* The processes.                                                          *)

\* What a local state l takes for granted of the lives of the attempts it names.
LifeOK(l, rows, cancel) ==
    /\ l.obs.state = "canceling" => cancel
    /\ l.pc \in {"poll", "record"} => \A e \in l.todo : e.flag => cancel
    /\ l.pc = "expiring" => \A e \in l.todo : e.flag => rows[e.id].task
    /\ l.pc = "expired" => \A e \in l.todo : e.flag => rows[e.id].task
    /\ l.pc \in ToRetry => rows[l.cur].state \notin {"none"} \cup QueuedStates

SInv ==
    /\ IInv
    /\ LifeInv
    /\ \A p \in Processes : LifeOK(proc[p], child, execution.cancel)

\* The program counters whose local states LifeOK speaks of.
Bound == {"poll", "record", "expiring", "expired"} \cup ToRetry

\* Process p moves to a local state that takes nothing new for granted.
FreeMove(p) ==
    /\ \/ proc'[p].obs = proc[p].obs
       \/ proc'[p].obs.state # "canceling"
    /\ proc'[p].pc \notin Bound
    /\ \A q \in Processes : q # p => proc'[q] = proc[q]

\* What one process takes for granted, no step disturbs.
LEMMA LifeOKStays ==
  ASSUME SInv, LifeStep, NEW H, LedgerStep(H), NEW l \in ProcessType,
         LocalOK(l, child, task), LifeOK(l, child, execution.cancel)
  PROVE  LifeOK(l, child', execution'.cancel)
<1>1. \A e \in l.todo : e.id \in Attempts
  BY LocalFields DEF Items
<1>2. l.pc \in ToRetry => l.cur \in Attempts
  BY DEF LocalOK, WithAttempt, ToRetry
<1>3. /\ \A a \in Attempts : child[a].task => child'[a].task
      /\ \A a \in Attempts : child[a].state \notin {"none"} \cup QueuedStates =>
            child'[a].state \notin {"none"} \cup QueuedStates
      /\ execution.cancel => execution'.cancel
  BY DEF LedgerStep, HandlesStay, LifeStep, Begun
<1> QED
  BY <1>1, <1>2, <1>3 DEF LifeOK

\* A step of process p that leaves it with a local state that is right.
LEMMA LifeProcess ==
  ASSUME SInv, IInv', LifeStep, NEW H, LedgerStep(H), NEW p \in Processes,
         LifeOK(proc'[p], child', execution'.cancel),
         \A q \in Processes : q # p => proc'[q] = proc[q]
  PROVE  SInv'
<1>1. ASSUME NEW q \in Processes, q # p
      PROVE  LifeOK(proc'[q], child', execution'.cancel)
  BY <1>1, LifeOKStays DEF SInv, IInv
<1> QED
  BY <1>1 DEF SInv, LifeStep

\* A step of process p after which nothing new is taken for granted.
LEMMA FreeProcess ==
  ASSUME SInv, IInv', LifeStep, NEW H, LedgerStep(H), NEW p \in Processes, FreeMove(p)
  PROVE  SInv'
<1>1. LifeOK(proc'[p], child', execution'.cancel)
  BY DEF FreeMove, LifeOK, Bound, ToRetry, SInv, LifeStep
<1> QED
  BY <1>1, LifeProcess DEF FreeMove

\* A step that leaves every process where it is.
LEMMA LifeOther ==
  ASSUME SInv, IInv', LifeStep, NEW H, LedgerStep(H), UNCHANGED proc
  PROVE  SInv'
<1>1. ASSUME NEW q \in Processes
      PROVE  LifeOK(proc'[q], child', execution'.cancel)
  BY LifeOKStays DEF SInv, IInv
<1> QED
  BY <1>1 DEF SInv, LifeStep

\* A step of the service is no step of the life when it runs no transaction.
LEMMA NoTransaction ==
  ASSUME SInv, IInv', UNCHANGED <<execution, child>>
  PROVE  LifeStep
  BY RowsUntouched DEF SInv, IInv

\* Idle and its variants have observed nothing.
LEMMA NothingObserved ==
  /\ Idle.obs.state = "running" /\ NoObservation.state = "running"
  /\ ReconcileFrom.obs.state = "running" /\ ReconcileFrom.pc = "stop" /\ Idle.pc = "idle"
  /\ \A p : AfterReconcile(p).obs.state = "running" /\ AfterReconcile(p).pc \in {"idle", "claim"}
  BY DEF Idle, NoObservation, ReconcileFrom, AfterReconcile

--------------------------------------------------------------------------------
(* The steps that take nothing new for granted.                            *)

\* Where a join leads.
LEMMA ReadJoinTargets ==
  ASSUME NEW p, ReadJoin(p)
  PROVE  \/ Become(p, AfterReconcile(p)) \/ Become(p, Goto(p, "resume"))
         \/ \E t : Become(p, [proc[p] EXCEPT !.pc = "update", !.target = t])
  BY Zenon DEF ReadJoin

\* A reply ends the request, or reports a task that exists.
LEMMA ReplyReports ==
  ASSUME IInv, NEW p \in Processes, ReplyChild(p)
  PROVE  \/ Become(p, Idle)
         \/ \E t \in TaskType : /\ t.state # "none"
                               /\ Become(p, [proc[p] EXCEPT !.pc = "replied",
                                               !.obs = Report(t, NormalizedState(t))])
<1> DEFINE a == proc[p].cur
<1> DEFINE woken == [task[a] EXCEPT !.state = "working"]
<1> DEFINE hand(t) == [proc[p] EXCEPT !.pc = "replied", !.obs = Report(t, NormalizedState(t))]
<1>1. LocalOK(proc[p], child, task) /\ proc[p].pc = "reply"
  BY DEF ReplyChild, At, IInv
<1>2. task[a] \in TaskType /\ task[a].state # "none"
  BY <1>1 DEF LocalOK, WithAttempt, WithHandle, IInv, HandlesNameTasks, RemoteTypeOK
<1>3. woken \in TaskType /\ woken.state # "none"
  BY <1>2 DEF TaskType, TaskStates
<1>4. \A t \in {woken} \cup Successors(woken) : t \in TaskType /\ t.state # "none"
  BY <1>3, SuccessorsTyped
<1>5. \/ \E t \in {woken} \cup Successors(woken) : Become(p, hand(t))
      \/ Become(p, Idle) \/ Become(p, hand(task[a]))
  BY DEF ReplyChild
<1> QED
  BY <1>2, <1>4, <1>5

\* Such a local state, and such a step.
Free(p, l) == l.pc \notin Bound /\ (l.obs = proc[p].obs \/ l.obs.state # "canceling")

LEMMA FreeBecome ==
  ASSUME SInv, NEW p \in Processes, NEW l, Become(p, l), Free(p, l)
  PROVE  FreeMove(p)
  BY DEF SInv, IInv, Become, Free, FreeMove

\* Idle states, and those that only go to another program counter, are free.
LEMMA FreeStates ==
  ASSUME SInv, NEW p \in Processes
  PROVE  /\ Free(p, Idle) /\ Free(p, ReconcileFrom) /\ Free(p, AfterReconcile(p))
         /\ \A x : x \notin Bound => Free(p, Goto(p, x))
         /\ Free(p, [Idle EXCEPT !.pc = "claim"])
<1>1. proc[p] \in ProcessType
  BY DEF SInv, IInv
<1>2. \A x : Goto(p, x).pc = x /\ Goto(p, x).obs = proc[p].obs
  BY <1>1 DEF Goto, ProcessType
<1>3. [Idle EXCEPT !.pc = "claim"].pc = "claim" /\ [Idle EXCEPT !.pc = "claim"].obs = NoObservation
  BY DEF Idle
<1> QED
  BY <1>2, <1>3, NothingObserved DEF Free, Bound, ToRetry

\* Steps without a transaction.
LEMMA FreeLocalSteps ==
  ASSUME SInv, NEW p \in Processes,
         \/ BeginExpand(p) \/ LaunchChild(p) \/ BeginReconcile(p)
         \/ ReadExecution(p) \/ ReadChildren(p) \/ ReadJoin(p)
         \/ ResumeParent(p) \/ ReadBlockers(p) \/ NotifyParent(p)
         \/ ListExpiredExecution(p)
         \/ ReserveMessage(p) \/ ReplyChild(p) \/ MarkMessageDelivered(p) \/ Crash(p)
  PROVE  FreeMove(p) /\ UNCHANGED <<execution, child>>
<1>1. proc[p] \in ProcessType
  BY DEF SInv, IInv
<1>2. CASE BeginExpand(p)
  <2>1. PICK pl : Become(p, [Idle EXCEPT !.pc = "reserve", !.plan = pl, !.snap.rev = execution.rev])
    BY <1>2 DEF BeginExpand
  <2> DEFINE l == [Idle EXCEPT !.pc = "reserve", !.plan = pl, !.snap.rev = execution.rev]
  <2>2. Free(p, l)
    BY DEF Free, Bound, ToRetry, Idle, NoObservation
  <2> QED
    BY <1>2, <2>1, <2>2, FreeBecome DEF BeginExpand
<1>3. CASE LaunchChild(p)
  <2>1. PICK c : \/ Become(p, [proc[p] EXCEPT !.pc = "handle", !.cur = c.id, !.fence = c.fence,
                                              !.claims = @ \ {c}])
                 \/ Become(p, Idle)
    BY <1>3 DEF LaunchChild
  <2> DEFINE l == [proc[p] EXCEPT !.pc = "handle", !.cur = c.id, !.fence = c.fence, !.claims = @ \ {c}]
  <2>2. Free(p, l)
    BY <1>1 DEF Free, Bound, ToRetry, ProcessType
  <2> QED
    BY <1>3, <2>1, <2>2, FreeBecome, FreeStates DEF LaunchChild
<1>4. CASE BeginReconcile(p)
  BY <1>4, FreeBecome, FreeStates DEF BeginReconcile
<1>5. CASE ReadExecution(p)
  <2> DEFINE snap == [rev |-> execution.rev, blockers |-> execution.blockers,
                      cancel |-> execution.cancel, joined |-> past_children_join(execution.reason)]
  <2> DEFINE l == [Idle EXCEPT !.pc = "children", !.snap = snap]
  <2>1. Become(p, AfterReconcile(p)) \/ Become(p, l)
    BY <1>5 DEF ReadExecution
  <2> HIDE DEF snap
  <2>2. Free(p, l)
    BY DEF Free, Bound, ToRetry, Idle, NoObservation
  <2> QED
    BY <1>5, <2>1, <2>2, FreeBecome, FreeStates DEF ReadExecution
<1>6. CASE ReadChildren(p)
  <2>1. \/ Become(p, AfterReconcile(p))
        \/ \E t : Become(p, [proc[p] EXCEPT !.pc = "update", !.target = t])
        \/ \E v : Become(p, [proc[p] EXCEPT !.pc = "join", !.view = v])
    BY <1>6, Zenon DEF ReadChildren
  <2>2. \A t : Free(p, [proc[p] EXCEPT !.pc = "update", !.target = t])
    BY <1>1 DEF Free, Bound, ToRetry, ProcessType
  <2>3. \A v : Free(p, [proc[p] EXCEPT !.pc = "join", !.view = v])
    BY <1>1 DEF Free, Bound, ToRetry, ProcessType
  <2> QED
    BY <1>6, <2>1, <2>2, <2>3, FreeBecome, FreeStates DEF ReadChildren
<1>7. CASE ReadJoin(p)
  <2>1. \/ Become(p, AfterReconcile(p)) \/ Become(p, Goto(p, "resume"))
        \/ \E t : Become(p, [proc[p] EXCEPT !.pc = "update", !.target = t])
    BY <1>7, ReadJoinTargets
  <2>2. \A t : Free(p, [proc[p] EXCEPT !.pc = "update", !.target = t])
    BY <1>1 DEF Free, Bound, ToRetry, ProcessType
  <2>3. Free(p, Goto(p, "resume"))
    BY FreeStates DEF Bound, ToRetry
  <2> QED
    BY <1>7, <2>1, <2>2, <2>3, FreeBecome, FreeStates DEF ReadJoin
<1>8. CASE ResumeParent(p)
  <2>1. \/ Become(p, AfterReconcile(p))
        \/ Become(p, [proc[p] EXCEPT !.pc = "update",
                         !.target = [state |-> "running", reason |-> "children_contract_valid"]])
    BY <1>8 DEF ResumeParent
  <2>2. \A t : Free(p, [proc[p] EXCEPT !.pc = "update", !.target = t])
    BY <1>1 DEF Free, Bound, ToRetry, ProcessType
  <2> QED
    BY <1>8, <2>1, <2>2, FreeBecome, FreeStates DEF ResumeParent
<1>9. CASE ReadBlockers(p)
  <2>1. Free(p, Goto(p, "send"))
    BY FreeStates DEF Bound, ToRetry
  <2> QED
    BY <1>9, <2>1, FreeBecome, FreeStates DEF ReadBlockers
<1>10. CASE NotifyParent(p)
  <2>1. Free(p, Goto(p, "notified"))
    BY FreeStates DEF Bound, ToRetry
  <2> QED
    BY <1>10, <2>1, FreeBecome, FreeStates DEF NotifyParent
<1>11. CASE ListExpiredExecution(p)
  <2> DEFINE snap == [proc[p].snap EXCEPT !.rev = execution.rev]
  <2>1. \/ Become(p, [proc[p] EXCEPT !.pc = "failing", !.at = 0, !.touched = TRUE, !.snap.rev = execution.rev])
        \/ Become(p, [proc[p] EXCEPT !.pc = "list", !.at = 0])
    BY <1>11 DEF ListExpiredExecution
  <2>2. Free(p, [proc[p] EXCEPT !.pc = "failing", !.at = 0, !.touched = TRUE, !.snap.rev = execution.rev])
    BY <1>1 DEF Free, Bound, ToRetry, ProcessType
  <2>3. Free(p, [proc[p] EXCEPT !.pc = "list", !.at = 0])
    BY <1>1 DEF Free, Bound, ToRetry, ProcessType
  <2> QED
    BY <1>11, <2>1, <2>2, <2>3, FreeBecome DEF ListExpiredExecution
<1>12. CASE ReserveMessage(p)
  <2>1. PICK a, m : Become(p, Idle) \/ Become(p, [Idle EXCEPT !.pc = "reply", !.cur = a, !.msg = m])
    BY <1>12 DEF ReserveMessage
  <2>2. Free(p, [Idle EXCEPT !.pc = "reply", !.cur = a, !.msg = m])
    BY DEF Free, Bound, ToRetry, Idle, NoObservation
  <2> QED
    BY <1>12, <2>1, <2>2, FreeBecome, FreeStates DEF ReserveMessage
<1>13. CASE ReplyChild(p)
  <2> DEFINE hand(t) == [proc[p] EXCEPT !.pc = "replied", !.obs = Report(t, NormalizedState(t))]
  <2>1. \/ Become(p, Idle)
        \/ \E t \in TaskType : t.state # "none" /\ Become(p, hand(t))
    BY <1>13, ReplyReports DEF SInv
  <2>2. ASSUME NEW t \in TaskType, t.state # "none"
        PROVE  Free(p, hand(t))
    <3>1. Report(t, NormalizedState(t)).state = NormalizedState(t)
      BY DEF Report
    <3>2. NormalizedState(t) # "canceling"
      BY <2>2 DEF NormalizedState, TaskType, TaskStates
    <3>3. hand(t).pc = "replied" /\ hand(t).obs = Report(t, NormalizedState(t))
      BY <1>1 DEF ProcessType
    <3> HIDE DEF hand
    <3> QED
      BY <3>1, <3>2, <3>3 DEF Free, Bound, ToRetry
  <2> HIDE DEF hand
  <2> QED
    BY <1>13, <2>1, <2>2, FreeBecome, FreeStates DEF ReplyChild
<1>14. CASE MarkMessageDelivered(p)
  <2>1. Free(p, [proc[p] EXCEPT !.pc = "answered", !.msg = 0])
    BY <1>1 DEF Free, Bound, ToRetry, ProcessType
  <2> QED
    BY <1>14, <2>1, FreeBecome DEF MarkMessageDelivered
<1>15. CASE Crash(p)
  BY <1>15, FreeBecome, FreeStates DEF Crash
<1> QED
  BY <1>2, <1>3, <1>4, <1>5, <1>6, <1>7, <1>8, <1>9, <1>10, <1>11, <1>12, <1>13, <1>14, <1>15

--------------------------------------------------------------------------------
(* The transactions that take nothing new for granted.                     *)

\* Expansion: a reservation, or nothing.
LEMMA ReserveGenerationLives ==
  ASSUME SInv, NEW p \in Processes, ReserveGeneration(p)
  PROVE  SInv' /\ LifeStep
<1>1. IInv' /\ LedgerStep({})
  BY ReserveGenerationStep DEF SInv
<1>2. LifeStep
  <2>1. proc[p].plan \in Plans
    BY DEF ReserveGeneration, At, SInv, IInv, LocalOK
  <2> QED
    BY <1>1, <2>1, ReserveLives, RowsUntouched DEF ReserveGeneration, SInv, IInv, ledger
<1>3. FreeMove(p)
  BY FreeBecome, FreeStates DEF ReserveGeneration
<1> QED
  BY <1>1, <1>2, <1>3, FreeProcess

\* A claim.
LEMMA ClaimLaunchesLives ==
  ASSUME SInv, NEW p \in Processes, ClaimLaunches(p)
  PROVE  SInv' /\ LifeStep
<1>1. IInv' /\ LedgerStep({})
  BY ClaimLaunchesStep DEF SInv
<1>2. PICK S \in ClaimableBatches :
         /\ claim_launches(p, S)
         /\ \/ Become(p, Idle)
            \/ Become(p, [Idle EXCEPT
                            !.pc = "launch",
                            !.claims = {[id |-> a, fence |-> child[a].fence + 1] : a \in S}])
  BY DEF ClaimLaunches
<1>3. LifeStep
  BY <1>1, <1>2, ClaimLives DEF SInv, IInv
<1>4. FreeMove(p)
  <2> DEFINE claims == {[id |-> a, fence |-> child[a].fence + 1] : a \in S}
  <2> HIDE DEF claims
  <2>1. Free(p, [Idle EXCEPT !.pc = "launch", !.claims = claims])
    BY DEF Free, Bound, ToRetry, Idle, NoObservation
  <2> QED
    BY <1>2, <2>1, FreeBecome, FreeStates DEF claims
<1> QED
  BY <1>1, <1>3, <1>4, FreeProcess

\* A handle that is recorded, or refused.
LEMMA RecordHandleLives ==
  ASSUME SInv, NEW p \in Processes, RecordHandle(p)
  PROVE  SInv' /\ LifeStep
<1>1. IInv' /\ \E H : LedgerStep(H)
  BY RecordHandleStep DEF SInv
<1>2. proc[p].cur \in Attempts
  BY DEF RecordHandle, At, SInv, IInv, LocalOK, WithAttempt
<1>3. LifeStep
  <2>1. CASE record_handle(p, proc[p].cur, proc[p].fence)
    BY <1>1, <1>2, <2>1, HandleLives DEF SInv, IInv
  <2>2. CASE UNCHANGED ledger
    BY <1>1, <2>2, RowsUntouched DEF SInv, IInv, ledger
  <2> QED
    BY <2>1, <2>2 DEF RecordHandle
<1>4. FreeMove(p)
  <2>1. Become(p, Idle) \/ Become(p, [Idle EXCEPT !.pc = "launch", !.claims = proc[p].claims])
    BY DEF RecordHandle
  <2>2. Free(p, [Idle EXCEPT !.pc = "launch", !.claims = proc[p].claims])
    BY DEF Free, Bound, ToRetry, Idle, NoObservation
  <2> QED
    BY <2>1, <2>2, FreeBecome, FreeStates
<1> QED
  BY <1>1, <1>3, <1>4, FreeProcess

\* The owner's cancel.
LEMMA RequestCancelIsCallOff ==
  ASSUME SInv, NEW p \in Processes, RequestCancel(p)
  PROVE  SInv' /\ LifeStep
<1>1. IInv' /\ LedgerStep({})
  BY RequestCancelStep DEF SInv
<1>2. LifeStep
  BY <1>1, RequestCancelLives DEF RequestCancel, SInv, IInv
<1>3. FreeMove(p)
  BY FreeBecome, FreeStates DEF RequestCancel
<1> QED
  BY <1>1, <1>2, <1>3, FreeProcess

\* The execution's own deadline.
LEMMA FailExpiredExecutionLives ==
  ASSUME SInv, NEW p \in Processes, FailExpiredExecution(p)
  PROVE  SInv' /\ LifeStep
<1>1. IInv' /\ LedgerStep({})
  BY FailExpiredExecutionStep DEF SInv
<1>2. LifeStep
  BY <1>1, FailExecutionLives, RowsUntouched DEF FailExpiredExecution, SInv, IInv, ledger
<1>3. proc[p] \in ProcessType
  BY DEF SInv, IInv
<1>4. Free(p, [proc[p] EXCEPT !.pc = "list", !.snap = NoSnapshot])
  BY <1>3 DEF Free, Bound, ToRetry, ProcessType
<1>5. FreeMove(p)
  BY <1>4, FreeBecome DEF FailExpiredExecution
<1> QED
  BY <1>1, <1>2, <1>5, FreeProcess

\* The parent's stop and notices, and the projections of the execution's state.
LEMMA ExecutionWritesLive ==
  ASSUME SInv, NEW p \in Processes,
         StopParent(p) \/ MarkParentStopped(p) \/ UpdateState(p) \/ MarkNotified(p)
  PROVE  SInv' /\ LifeStep
<1>1. IInv' /\ LedgerStep({})
  BY StopParentStep, MarkParentStoppedStep, UpdateStateStep, MarkNotifiedStep DEF SInv
<1>2. child' = child /\ execution'.cancel = execution.cancel
  <2>1. execution \in ExecutionType
    BY DEF SInv, IInv, LedgerInv, LedgerTypeOK
  <2>2. CASE StopParent(p)
    BY <2>1, <2>2 DEF StopParent, record_parent_stop_error, ExecutionType
  <2>3. CASE MarkParentStopped(p)
    BY <2>1, <2>3 DEF MarkParentStopped, mark_parent_stopped, ExecutionType
  <2>4. CASE UpdateState(p)
    BY <2>1, <2>4 DEF UpdateState, update_execution_state, ledger, ExecutionType
  <2>5. CASE MarkNotified(p)
    BY <2>1, <2>5 DEF MarkNotified, mark_blocker_notification, ExecutionType
  <2> QED
    BY <2>2, <2>3, <2>4, <2>5
<1>3. LifeStep
  BY <1>1, <1>2, RowsUntouched DEF SInv, IInv
<1>4. FreeMove(p)
  <2>1. Free(p, Goto(p, "expire")) /\ Free(p, Goto(p, "stopped")) /\ Free(p, Goto(p, "notify"))
    BY FreeStates DEF Bound, ToRetry
  <2>2. \/ Become(p, Goto(p, "expire")) \/ Become(p, Goto(p, "stopped"))
        \/ Become(p, Goto(p, "notify")) \/ Become(p, AfterReconcile(p))
    BY DEF StopParent, MarkParentStopped, UpdateState, MarkNotified
  <2> QED
    BY <2>1, <2>2, FreeBecome, FreeStates
<1> QED
  BY <1>1, <1>3, <1>4, FreeProcess

\* A retry that is created, or refused.
LEMMA CreateRetryIsRetry ==
  ASSUME SInv, NEW p \in Processes, CreateRetry(p)
  PROVE  SInv' /\ LifeStep
<1> DEFINE a == proc[p].cur
<1>1. IInv' /\ LedgerStep({})
  BY CreateRetryStep DEF SInv
<1>2. a \in Attempts /\ a.attempt < MaxAttempts /\ Begun(a)
  BY DEF CreateRetry, At, SInv, IInv, LocalOK, LifeOK, WithAttempt, ToRetry, Begun
<1>3. LifeStep
  <2>1. CASE create_retry(a)
    BY <1>1, <1>2, <2>1, CreateRetryLives DEF SInv, IInv
  <2>2. CASE UNCHANGED ledger
    BY <1>1, <2>2, RowsUntouched DEF SInv, IInv, ledger
  <2> QED
    BY <2>1, <2>2 DEF CreateRetry
<1>4. FreeMove(p)
  BY FreeBecome, FreeStates DEF CreateRetry
<1> QED
  BY <1>1, <1>3, <1>4, FreeProcess

\* What a reply or a refused retry was answered.
LEMMA RecordAnswerLives ==
  ASSUME SInv, NEW p \in Processes, RecordAnswer(p)
  PROVE  SInv' /\ LifeStep
<1> DEFINE a == proc[p].cur
<1>1. IInv' /\ LedgerStep({})
  BY RecordAnswerStep DEF SInv
<1>2. /\ a \in Attempts /\ Present(a) /\ child[a].task /\ proc[p].obs \in Observations
      /\ proc[p].obs.state = "canceling" => execution.cancel
  BY LocalFields DEF RecordAnswer, At, SInv, IInv, LocalOK, LifeOK, WithAttempt, WithHandle, Present
<1>3. LifeStep
  BY <1>1, <1>2, ObservationLives DEF RecordAnswer, SInv, IInv
<1>4. FreeMove(p)
  BY FreeBecome, FreeStates DEF RecordAnswer
<1> QED
  BY <1>1, <1>3, <1>4, FreeProcess

\* Completion, and what happens outside the processes.
LEMMA OthersLive ==
  ASSUME SInv,
         \/ \E p \in Processes : Complete(p)
         \/ \E a \in Attempts : TaskProgress(a)
         \/ LeaseRunsOut \/ Tick
  PROVE  SInv' /\ LifeStep
<1>1. IInv' /\ LedgerStep({})
  BY CompleteStep, TaskProgressStep, LeaseStep, TickStep DEF SInv
<1>2. UNCHANGED proc
  BY DEF Complete, TaskProgress, LeaseRunsOut, Tick
<1>3. LifeStep
  <2>1. CASE \E p \in Processes : Complete(p)
    <3>1. child' = child /\ execution'.cancel = execution.cancel
      BY <2>1 DEF Complete, complete, SInv, IInv, LedgerInv, LedgerTypeOK, ExecutionType
    <3> QED
      BY <1>1, <3>1, RowsUntouched DEF SInv, IInv
  <2>2. CASE LeaseRunsOut
    BY <1>1, <2>2, LeaseLives DEF LeaseRunsOut, SInv, IInv
  <2>3. CASE Tick \/ \E a \in Attempts : TaskProgress(a)
    BY <1>1, <2>3, NoTransaction DEF Tick, TaskProgress
  <2> QED
    BY <2>1, <2>2, <2>3
<1> QED
  BY <1>1, <1>2, <1>3, LifeOther

--------------------------------------------------------------------------------
(* The steps between a read and the transaction it prepares.               *)

\* A step of process p to the local state l, right as LifeOK asks.
LEMMA BoundBecome ==
  ASSUME SInv, IInv', LifeStep, NEW H, LedgerStep(H), NEW p \in Processes, NEW l, Become(p, l),
         LifeOK(l, child', execution'.cancel)
  PROVE  SInv'
<1>1. proc'[p] = l /\ \A q \in Processes : q # p => proc'[q] = proc[q]
  BY DEF SInv, IInv, Become
<1> QED
  BY <1>1, LifeProcess

\* The overdue children are listed with whether they have a task.
LEMMA ListExpiredLives ==
  ASSUME SInv, NEW p \in Processes, ListExpired(p)
  PROVE  SInv' /\ LifeStep
<1> DEFINE todo == {[id |-> a, flag |-> child[a].task] : a \in ExpiredChildren}
<1> DEFINE l == [proc[p] EXCEPT !.pc = "expiring", !.at = now, !.todo = todo]
<1>1. IInv' /\ LedgerStep({}) /\ UNCHANGED <<execution, child>>
  BY ListExpiredStep DEF SInv, ListExpired
<1>2. LifeStep
  BY <1>1, NoTransaction
<1>3. \A e \in todo : e.flag => child[e.id].task
  OBVIOUS
<1>4. Become(p, l)
  BY DEF ListExpired
<1> HIDE DEF todo
<1>5. l.pc = "expiring" /\ l.todo = todo /\ l.obs = proc[p].obs
  BY DEF SInv, IInv, ProcessType
<1> HIDE DEF l
<1>6. LifeOK(l, child', execution'.cancel)
  BY <1>1, <1>3, <1>5 DEF LifeOK, ToRetry, SInv
<1> QED
  BY <1>1, <1>2, <1>4, <1>6, BoundBecome

\* One overdue child less: asked to stop, failed, or not reached.
LEMMA ExpireChildLives ==
  ASSUME SInv, NEW p \in Processes, ExpireChild(p)
  PROVE  SInv' /\ LifeStep
<1>1. IInv' /\ LedgerStep({})
  BY ExpireChildStep DEF SInv
<1>2. /\ proc[p] \in ProcessType /\ proc[p].pc = "expiring" /\ LocalOK(proc[p], child, task)
      /\ LifeOK(proc[p], child, execution.cancel)
  BY DEF ExpireChild, At, SInv, IInv
<1>3. PICK e \in proc[p].todo :
        LET rest == [proc[p] EXCEPT !.todo = @ \ {e}, !.touched = TRUE]
        IN  \/ /\ Become(p, [rest EXCEPT !.pc = "expired", !.cur = e.id])
               /\ UNCHANGED <<execution, child>>
            \/ e.flag /\ record_reconcile_error(e.id) /\ Become(p, rest)
            \/ record_observation(e.id, DeadlineReport(proc[p].at)) /\ Become(p, rest)
  BY DEF ExpireChild
<1> DEFINE rest == [proc[p] EXCEPT !.todo = @ \ {e}, !.touched = TRUE]
<1>4. /\ e.id \in Attempts
      /\ Present(e.id)
      /\ e.flag => child[e.id].task
      /\ proc[p].at \in Nat
  BY <1>2, LocalFields DEF Items, LocalOK, LifeOK, Present
<1>5. DeadlineReport(proc[p].at) \in Observations /\ DeadlineReport(proc[p].at).state = "failed"
  BY <1>4, DeadlineReportTyped
<1>6. LifeStep
  <2>1. CASE UNCHANGED <<execution, child>>
    BY <1>1, <2>1, NoTransaction
  <2>2. CASE e.flag /\ record_reconcile_error(e.id)
    BY <1>1, <1>4, <2>2, ReconcileErrorLives DEF SInv, IInv
  <2>3. CASE record_observation(e.id, DeadlineReport(proc[p].at))
    BY <1>1, <1>4, <1>5, <2>3, ObservationLives DEF SInv, IInv
  <2> QED
    BY <1>3, <2>1, <2>2, <2>3
<1>7. /\ \A d \in proc[p].todo : d.flag => child'[d.id].task
      /\ execution.cancel => execution'.cancel
  BY <1>1, <1>2, <1>6, LocalFields DEF LifeOK, LedgerStep, HandlesStay, LifeStep, Items
<1>8. rest.pc = "expiring" /\ rest.todo = proc[p].todo \ {e} /\ rest.obs = proc[p].obs
  BY <1>2 DEF ProcessType
<1> DEFINE l == [rest EXCEPT !.pc = "expired", !.cur = e.id]
<1>9. l.pc = "expired" /\ l.todo = proc[p].todo \ {e} /\ l.obs = proc[p].obs
  BY <1>2 DEF ProcessType
<1>10. Become(p, rest) \/ Become(p, l)
  BY <1>3
<1> HIDE DEF rest, l
<1>11. LifeOK(rest, child', execution'.cancel) /\ LifeOK(l, child', execution'.cancel)
  BY <1>2, <1>7, <1>8, <1>9 DEF LifeOK, ToRetry
<1> QED
  BY <1>1, <1>6, <1>10, <1>11, BoundBecome

\* The overdue child that was asked to stop is recorded as failed.
LEMMA RecordExpiredLives ==
  ASSUME SInv, NEW p \in Processes, RecordExpired(p)
  PROVE  SInv' /\ LifeStep
<1> DEFINE l == [proc[p] EXCEPT !.pc = "expiring", !.cur = NoAttempt]
<1>1. IInv' /\ LedgerStep({})
  BY RecordExpiredStep DEF SInv
<1>2. /\ proc[p] \in ProcessType /\ proc[p].pc = "expired" /\ LocalOK(proc[p], child, task)
      /\ LifeOK(proc[p], child, execution.cancel)
  BY DEF RecordExpired, At, SInv, IInv
<1>3. proc[p].cur \in Attempts /\ Present(proc[p].cur) /\ proc[p].at \in Nat
  BY <1>2, LocalFields DEF LocalOK, WithAttempt, Present
<1>4. LifeStep
  BY <1>1, <1>3, DeadlineReportTyped, ObservationLives DEF RecordExpired, SInv, IInv
<1>5. /\ \A d \in proc[p].todo : d.flag => child'[d.id].task
      /\ execution.cancel => execution'.cancel
  BY <1>1, <1>2, <1>4, LocalFields DEF LifeOK, LedgerStep, HandlesStay, LifeStep, Items
<1>6. l.pc = "expiring" /\ l.todo = proc[p].todo /\ l.obs = proc[p].obs
  BY <1>2 DEF ProcessType
<1>7. Become(p, l)
  BY DEF RecordExpired
<1> HIDE DEF l
<1>8. LifeOK(l, child', execution'.cancel)
  BY <1>2, <1>5, <1>6 DEF LifeOK, ToRetry
<1> QED
  BY <1>1, <1>4, <1>7, <1>8, BoundBecome

\* A child is listed as canceling only when that was requested.
LEMMA ListReconcilableLives ==
  ASSUME SInv, NEW p \in Processes, ListReconcilable(p)
  PROVE  SInv' /\ LifeStep
<1> DEFINE todo == {[id |-> a, flag |-> child[a].state = "canceling"] : a \in SelectedChildren}
<1> DEFINE l == [proc[p] EXCEPT !.pc = "poll", !.todo = todo]
<1>1. IInv' /\ LedgerStep({}) /\ UNCHANGED <<execution, child>>
  BY ListReconcilableStep DEF SInv, ListReconcilable
<1>2. LifeStep
  BY <1>1, NoTransaction
<1>3. \A e \in todo : e.flag => execution.cancel
  <2> SUFFICES ASSUME NEW e \in todo, e.flag
               PROVE  execution.cancel
    OBVIOUS
  <2>1. PICK a \in SelectedChildren : e = [id |-> a, flag |-> child[a].state = "canceling"]
    OBVIOUS
  <2>2. e.flag = (child[a].state = "canceling")
    BY <2>1, Zenon
  <2>3. child[a].state = "canceling"
    BY <2>2, Zenon
  <2> QED
    BY <2>3 DEF SelectedChildren, SInv, LifeInv, CancelingIsRequested
<1>4. Become(p, l)
  BY DEF ListReconcilable
<1> HIDE DEF todo
<1>5. l.pc = "poll" /\ l.todo = todo /\ l.obs = proc[p].obs
  BY DEF SInv, IInv, ProcessType
<1> HIDE DEF l
<1>6. LifeOK(l, child', execution'.cancel)
  BY <1>1, <1>3, <1>5 DEF LifeOK, ToRetry, SInv
<1> QED
  BY <1>1, <1>2, <1>4, <1>6, BoundBecome

\* Only a child read as canceling is reported as canceling.
LEMMA PollChildLives ==
  ASSUME SInv, NEW p \in Processes, PollChild(p)
  PROVE  SInv' /\ LifeStep
<1>1. IInv' /\ LedgerStep({})
  BY PollChildStep DEF SInv
<1>2. /\ proc[p] \in ProcessType /\ proc[p].pc = "poll" /\ LocalOK(proc[p], child, task)
      /\ LifeOK(proc[p], child, execution.cancel)
  BY DEF PollChild, At, SInv, IInv
<1>3. PICK e \in proc[p].todo :
        LET rest == [proc[p] EXCEPT !.todo = @ \ {e}, !.touched = TRUE]
        IN  \/ /\ e.flag
               /\ \E o : Become(p, [rest EXCEPT !.pc = "record", !.cur = e.id, !.obs = o])
               /\ UNCHANGED <<execution, child>>
            \/ /\ Become(p, [rest EXCEPT !.pc = "record", !.cur = e.id,
                                 !.obs = Report(task[e.id], PolledState(task[e.id]))])
               /\ UNCHANGED <<execution, child>>
            \/ record_reconcile_error(e.id) /\ Become(p, rest)
  BY DEF PollChild
<1> DEFINE rest == [proc[p] EXCEPT !.todo = @ \ {e}, !.touched = TRUE]
<1> DEFINE hand(o) == [rest EXCEPT !.pc = "record", !.cur = e.id, !.obs = o]
<1> DEFINE polled == Report(task[e.id], PolledState(task[e.id]))
<1>4. e.id \in Attempts /\ Present(e.id) /\ child[e.id].task
  BY <1>2, LocalFields DEF Items, LocalOK, Present
<1>5. polled.state # "canceling"
  <2>1. task[e.id] \in TaskType
    BY <1>4 DEF SInv, IInv, RemoteTypeOK
  <2>2. PolledState(task[e.id]) # "canceling"
    BY <2>1 DEF PolledState, NormalizedState, TaskType, TaskStates
  <2> QED
    BY <2>2 DEF Report
<1>6. LifeStep
  <2>1. CASE UNCHANGED <<execution, child>>
    BY <1>1, <2>1, NoTransaction
  <2>2. CASE record_reconcile_error(e.id)
    BY <1>1, <1>4, <2>2, ReconcileErrorLives DEF SInv, IInv
  <2> QED
    BY <1>3, <2>1, <2>2
<1>7. /\ \A d \in proc[p].todo : d.flag => execution'.cancel
      /\ execution.cancel => execution'.cancel
  BY <1>2, <1>6 DEF LifeOK, LifeStep
<1>8. rest.pc = "poll" /\ rest.todo = proc[p].todo \ {e} /\ rest.obs = proc[p].obs
  BY <1>2 DEF ProcessType
<1>9. ASSUME NEW o
      PROVE  hand(o).pc = "record" /\ hand(o).todo = proc[p].todo \ {e} /\ hand(o).obs = o
  BY <1>2 DEF ProcessType
<1>10. \/ e.flag /\ \E o : Become(p, hand(o))
       \/ Become(p, hand(polled))
       \/ Become(p, rest)
  BY <1>3
<1> HIDE DEF rest, hand, polled
<1>11. LifeOK(rest, child', execution'.cancel)
  BY <1>2, <1>7, <1>8 DEF LifeOK, ToRetry
<1>12. ASSUME NEW o, e.flag \/ o.state # "canceling"
       PROVE  LifeOK(hand(o), child', execution'.cancel)
  BY <1>2, <1>7, <1>9, <1>12 DEF LifeOK, ToRetry
<1> QED
  BY <1>1, <1>5, <1>6, <1>10, <1>11, <1>12, BoundBecome

\* The polled child is recorded.
LEMMA RecordPolledLives ==
  ASSUME SInv, NEW p \in Processes, RecordPolled(p)
  PROVE  SInv' /\ LifeStep
<1> DEFINE l == [proc[p] EXCEPT !.pc = "poll", !.cur = NoAttempt, !.obs = NoObservation]
<1> DEFINE a == proc[p].cur
<1>1. IInv' /\ LedgerStep({})
  BY RecordPolledStep DEF SInv
<1>2. /\ proc[p] \in ProcessType /\ proc[p].pc = "record" /\ LocalOK(proc[p], child, task)
      /\ LifeOK(proc[p], child, execution.cancel)
  BY DEF RecordPolled, At, SInv, IInv
<1>3. /\ a \in Attempts /\ Present(a) /\ child[a].task /\ proc[p].obs \in Observations
      /\ proc[p].obs.state = "canceling" => execution.cancel
  BY <1>2, LocalFields DEF LocalOK, LifeOK, WithAttempt, WithHandle, Present
<1>4. LifeStep
  BY <1>1, <1>3, ObservationLives DEF RecordPolled, SInv, IInv
<1>5. \A d \in proc[p].todo : d.flag => execution'.cancel
  BY <1>2, <1>4 DEF LifeOK, LifeStep
<1>6. l.pc = "poll" /\ l.todo = proc[p].todo /\ l.obs.state = "running"
  BY <1>2, NothingObserved DEF ProcessType
<1>7. Become(p, l)
  BY DEF RecordPolled
<1> HIDE DEF l
<1>8. LifeOK(l, child', execution'.cancel)
  BY <1>5, <1>6 DEF LifeOK, ToRetry
<1> QED
  BY <1>1, <1>4, <1>7, <1>8, BoundBecome

\* A retry is prepared for an attempt that began.
LEMMA BeginRetryLives ==
  ASSUME SInv, NEW p \in Processes, BeginRetry(p)
  PROVE  SInv' /\ LifeStep
<1>1. IInv' /\ LedgerStep({}) /\ UNCHANGED <<execution, child>>
  BY BeginRetryStep DEF SInv, BeginRetry
<1>2. LifeStep
  BY <1>1, NoTransaction
<1>3. PICK a \in Attempts, x \in {"retryPoll", "retryCreate"} :
         Retryable(a) /\ Become(p, [Idle EXCEPT !.cur = a, !.pc = x])
  BY DEF BeginRetry
<1> DEFINE l == [Idle EXCEPT !.cur = a, !.pc = x]
<1>4. l.pc = x /\ l.cur = a /\ l.obs = NoObservation
  BY DEF Idle
<1>5. child[a].state \notin {"none"} \cup QueuedStates
  BY <1>3 DEF Retryable, RETRYABLE_CHILD_STATES, QueuedStates
<1> HIDE DEF l
<1>6. LifeOK(l, child', execution'.cancel)
  BY <1>1, <1>3, <1>4, <1>5, NothingObserved DEF LifeOK
<1> QED
  BY <1>1, <1>2, <1>3, <1>6, BoundBecome DEF l

\* It goes on while the attempt's task is polled and asked to stop.
LEMMA RetryGoesOnLives ==
  ASSUME SInv, NEW p \in Processes, PollBeforeRetry(p) \/ CancelBeforeRetry(p)
  PROVE  SInv' /\ LifeStep
<1> DEFINE a == proc[p].cur
<1>1. IInv' /\ LedgerStep({}) /\ UNCHANGED <<execution, child>>
  BY PollBeforeRetryStep, CancelBeforeRetryStep DEF SInv, PollBeforeRetry, CancelBeforeRetry
<1>2. LifeStep
  BY <1>1, NoTransaction
<1>3. /\ proc[p] \in ProcessType /\ proc[p].pc \in {"retryPoll", "retryCancel"}
      /\ LocalOK(proc[p], child, task) /\ LifeOK(proc[p], child, execution.cancel)
  BY DEF PollBeforeRetry, CancelBeforeRetry, At, SInv, IInv
<1>4. a \in Attempts /\ task[a] \in TaskType /\ task[a].state # "none"
  BY <1>3 DEF LocalOK, WithAttempt, WithHandle, SInv, IInv, RemoteTypeOK, HandlesNameTasks
<1>5. \/ Become(p, Idle)
      \/ \E x \in {"retryCreate", "retryCancel"} : Become(p, Goto(p, x))
      \/ \E t \in CancelOutcomes(a) :
            Become(p, [proc[p] EXCEPT !.pc = "answered", !.obs = Report(t, NormalizedState(t))])
  BY DEF PollBeforeRetry, CancelBeforeRetry
<1>6. ASSUME NEW x \in {"retryCreate", "retryCancel"}, Become(p, Goto(p, x))
      PROVE  SInv'
  <2> DEFINE l == Goto(p, x)
  <2>1. l.pc = x /\ l.cur = a /\ l.obs = proc[p].obs
    BY <1>3 DEF Goto, ProcessType
  <2> HIDE DEF l
  <2>2. LifeOK(l, child', execution'.cancel)
    BY <1>1, <1>3, <2>1 DEF LifeOK, ToRetry
  <2> QED
    BY <1>1, <1>2, <1>6, <2>2, BoundBecome DEF l
<1>7. ASSUME NEW t \in CancelOutcomes(a),
             Become(p, [proc[p] EXCEPT !.pc = "answered", !.obs = Report(t, NormalizedState(t))])
      PROVE  SInv'
  <2> DEFINE obs == Report(t, NormalizedState(t))
  <2>1. t \in TaskType /\ t.state # "none"
    BY <1>4, CancelOutcomeTyped DEF SInv
  <2>2. obs.state # "canceling"
    <3>1. NormalizedState(t) # "canceling"
      BY <2>1 DEF NormalizedState, TaskType, TaskStates
    <3> QED
      BY <3>1 DEF Report
  <2> HIDE DEF obs
  <2>3. Free(p, [proc[p] EXCEPT !.pc = "answered", !.obs = obs])
    BY <1>3, <2>2 DEF Free, Bound, ToRetry, ProcessType
  <2>4. FreeMove(p)
    BY <1>7, <2>3, FreeBecome DEF obs
  <2> QED
    BY <1>1, <1>2, <2>4, FreeProcess
<1>8. CASE Become(p, Idle)
  BY <1>1, <1>2, <1>8, FreeBecome, FreeStates, FreeProcess
<1> QED
  BY <1>2, <1>5, <1>6, <1>7, <1>8

--------------------------------------------------------------------------------
(* The refinement.                                                         *)

\* The initial states are the life's initial states.
LEMMA LifeInit == Init => SInv /\ Lifecycle!Init
<1> SUFFICES ASSUME Init PROVE SInv /\ Lifecycle!Init
  OBVIOUS
<1>1. IInv
  BY InitHolds
<1>2. \A a \in Attempts : child[a] = NoRow /\ child[a].state = "none"
  BY RowsTyped DEF Init, LedgerInit
<1>3. LifeInv
  BY <1>2 DEF LifeInv, CancelingIsRequested, QueuedHaveNoTask, SupersededIsReplaced, QueuedStates
<1>4. \A p \in Processes : LifeOK(proc[p], child, execution.cancel)
  BY NothingObserved DEF Init, LifeOK, ToRetry
<1>5. Lifecycle!Init
  BY <1>2, SameAttempts DEF Lifecycle!Init, PhaseOf, Init, LedgerInit
<1> QED
  BY <1>1, <1>3, <1>4, <1>5 DEF SInv

\* Every step keeps the invariant, and is one step of the life or none.
LEMMA LifeSteps ==
  ASSUME SInv, [Next]_vars
  PROVE  SInv' /\ [Lifecycle!Next]_(Lifecycle!vars)
<1>1. ASSUME NEW p \in Processes, WorkerStep(p) \/ RequestStep(p) \/ Crash(p)
      PROVE  SInv' /\ LifeStep
  <2>1. IInv' /\ \E H : LedgerStep(H)
    BY <1>1, WorkerStepHolds, RequestStepHolds, CrashStep DEF SInv
  <2>2. CASE \/ BeginExpand(p) \/ LaunchChild(p) \/ BeginReconcile(p)
             \/ ReadExecution(p) \/ ReadChildren(p) \/ ReadJoin(p)
             \/ ResumeParent(p) \/ ReadBlockers(p) \/ NotifyParent(p)
             \/ ListExpiredExecution(p)
             \/ ReserveMessage(p) \/ ReplyChild(p) \/ MarkMessageDelivered(p) \/ Crash(p)
    <3>1. FreeMove(p) /\ UNCHANGED <<execution, child>>
      BY <2>2, FreeLocalSteps
    <3> QED
      BY <2>1, <3>1, NoTransaction, FreeProcess
  <2>3. CASE \/ ListExpired(p) \/ ExpireChild(p) \/ RecordExpired(p) \/ FailExpiredExecution(p)
             \/ ListReconcilable(p) \/ PollChild(p) \/ RecordPolled(p)
             \/ StopParent(p) \/ MarkParentStopped(p) \/ UpdateState(p) \/ MarkNotified(p)
             \/ ClaimLaunches(p) \/ RecordHandle(p)
    BY <2>3, ListExpiredLives, ExpireChildLives, RecordExpiredLives, FailExpiredExecutionLives,
       ListReconcilableLives, PollChildLives, RecordPolledLives, ExecutionWritesLive,
       ClaimLaunchesLives, RecordHandleLives
  <2>4. CASE \/ ReserveGeneration(p) \/ RequestCancel(p) \/ BeginRetry(p) \/ PollBeforeRetry(p)
             \/ CancelBeforeRetry(p) \/ CreateRetry(p) \/ RecordAnswer(p) \/ Complete(p)
    BY <2>4, ReserveGenerationLives, RequestCancelIsCallOff, BeginRetryLives, RetryGoesOnLives,
       CreateRetryIsRetry, RecordAnswerLives, OthersLive
  <2> QED
    BY <1>1, <2>2, <2>3, <2>4 DEF WorkerStep, RequestStep
<1>2. CASE Next
  BY <1>1, <1>2, OthersLive DEF Next, LifeStep
<1>3. CASE UNCHANGED vars
  <2>1. IInv' /\ SInv'
    <3>1. IInv'
      BY <1>3, StepHolds DEF SInv
    <3> QED
      BY <1>3, <3>1 DEF vars, SInv, LifeInv, CancelingIsRequested, QueuedHaveNoTask,
         SupersededIsReplaced, Latest, Present
  <2>2. UNCHANGED Lifecycle!vars
    BY <1>3 DEF vars, Lifecycle!vars, PhaseOf
  <2> QED
    BY <2>1, <2>2
<1> QED
  BY <1>2, <1>3

\* The service of leases, polls, handles and retries in several processes is an
\* implementation of AttemptLifecycle: to the owner every attempt goes through
\* its life in whole steps, and none starts once the execution is called off.
THEOREM ImplementsLifecycle == Spec => AttemptsHaveOneLife
  BY LifeInit, LifeSteps, PTL DEF Spec, AttemptsHaveOneLife, Lifecycle!Spec
================================================================================
