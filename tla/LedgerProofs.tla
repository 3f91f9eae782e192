------------------------------ MODULE LedgerProofs ------------------------------
(***************************************************************************)
(* What every transaction of the ledger preserves, for every value of the  *)
(* constants: one lemma per transaction, each concluding that LedgerInv is *)
(* kept and that the step is a LedgerStep.                                 *)
(***************************************************************************)
EXTENDS ExecutionLedger, TLAPS

Quiet(s) == s \in {"none", "canceling"} \cup TERMINAL_CHILD_STATES

RowsInGenerations == \A a \in Attempts : Present(a) => a.gen <= execution.gen

AbsentRowsEmpty == \A a \in Attempts : ~Present(a) => child[a] = NoRow

\* OnlyLatestAttemptLives, stated of two attempts of one child.
RetriedIsSuperseded ==
    \A a, b \in Attempts :
        /\ a.gen = b.gen
        /\ a.key = b.key
        /\ a.attempt < b.attempt
        /\ Present(a)
        /\ Present(b)
        => child[a].state = "superseded"

CancelQuiets == execution.cancel => \A a \in Attempts : Quiet(child[a].state)

ActiveRowsHaveTask ==
    \A a \in Attempts : child[a].state \in ActiveChildStates \cup {"completed"} => child[a].task

LedgerInv ==
    /\ LedgerTypeOK
    /\ RowsInGenerations
    /\ AbsentRowsEmpty
    /\ RetriedIsSuperseded
    /\ CancelQuiets
    /\ ActiveRowsHaveTask

\* What a step keeps: rows stay, handles stay, finished rows and executions
\* stay finished.
RowsStay == \A a \in Attempts : Present(a) => Present(a)'
HandlesStay == \A a \in Attempts : child[a].task => child'[a].task

\* Only attempts in H get a handle.
HandlesOnlyIn(H) == \A a \in Attempts : child'[a].task => child[a].task \/ a \in H

LedgerStep(H) ==
    /\ HandlesOnlyIn(H)
    /\ RowsStay
    /\ HandlesStay
    /\ AttemptsStayFinished
    /\ ExecutionStaysFinished

--------------------------------------------------------------------------------
(* Typed updates.                                                          *)

\* Replacing one field of a row by a value of its type gives a row.
LEMMA RowUpdate ==
  ASSUME NEW r \in RowType
  PROVE  /\ \A s \in ChildStates : [r EXCEPT !.state = s] \in RowType
         /\ \A b \in BOOLEAN : [r EXCEPT !.task = b] \in RowType
         /\ \A p \in Processes \cup {Nobody} : [r EXCEPT !.owner = p] \in RowType
         /\ \A b \in BOOLEAN : [r EXCEPT !.live = b] \in RowType
         /\ \A n \in Nat : [r EXCEPT !.fence = n] \in RowType
         /\ \A n \in Nat : [r EXCEPT !.seen = n] \in RowType
         /\ \A n \in Nat : [r EXCEPT !.fails = n] \in RowType
         /\ \A n \in 0..MaxQuestions : [r EXCEPT !.ask = n] \in RowType
         /\ \A E \in SUBSET Events : [r EXCEPT !.events = E] \in RowType
  BY DEF RowType

\* Replacing one field of the execution by a value of its type gives an execution.
LEMMA ExecutionUpdate ==
  ASSUME NEW e \in ExecutionType
  PROVE  /\ \A s \in ExecutionStates : [e EXCEPT !.state = s] \in ExecutionType
         /\ \A s \in StatusReasons : [e EXCEPT !.reason = s] \in ExecutionType
         /\ \A n \in 0..MaxGeneration : [e EXCEPT !.gen = n] \in ExecutionType
         /\ \A n \in 0..TotalUnits : [e EXCEPT !.reserved = n] \in ExecutionType
         /\ \A b \in BOOLEAN : [e EXCEPT !.cancel = b] \in ExecutionType
         /\ \A n \in Nat : [e EXCEPT !.rev = n] \in ExecutionType
         /\ \A n \in Nat : [e EXCEPT !.blockers = n] \in ExecutionType
         /\ \A n \in Nat : [e EXCEPT !.notified = n] \in ExecutionType
         /\ \A s \in {"no", "requested", "stopped"} : [e EXCEPT !.stop = s] \in ExecutionType
         /\ \A n \in Nat : [e EXCEPT !.stopTries = n] \in ExecutionType
  BY DEF ExecutionType

\* The fields of an execution have their types.
LEMMA ExecutionFields ==
  ASSUME NEW e \in ExecutionType
  PROVE  /\ e.state \in ExecutionStates /\ e.reason \in StatusReasons
         /\ e.gen \in 0..MaxGeneration /\ e.reserved \in 0..TotalUnits
         /\ e.cancel \in BOOLEAN
         /\ e.rev \in Nat /\ e.rev + 1 \in Nat
         /\ e.blockers \in Nat /\ e.blockers + 1 \in Nat
         /\ e.notified \in Nat
         /\ e.stop \in {"no", "requested", "stopped"}
         /\ e.stopTries \in Nat /\ e.stopTries + 1 \in Nat
  BY DEF ExecutionType

\* An absent row and a fresh reservation are rows.
LEMMA RowsTyped ==
  /\ NoRow \in RowType
  /\ ReservedRow \in RowType
  /\ NoRow.state = "none" /\ ReservedRow.state = "reserved"
  /\ ~NoRow.task /\ ~ReservedRow.task
  /\ NoRow.fence = 0 /\ ReservedRow.fence = 0
<1>1. NoRow \in RowType
  BY LedgerAssumption DEF NoRow, RowType, ChildStates
<1>2. ReservedRow \in RowType
  BY <1>1, RowUpdate DEF ReservedRow, ChildStates
<1>3. /\ NoRow.state = "none" /\ ~NoRow.task /\ NoRow.fence = 0
      /\ ReservedRow.state = "reserved" /\ ~ReservedRow.task /\ ReservedRow.fence = 0
  BY DEF NoRow, ReservedRow
<1> QED
  BY <1>1, <1>2, <1>3

\* The versions of an attempt: the attempts of its generation and key.
LEMMA AttemptVersions ==
  ASSUME NEW a \in Attempts
  PROVE  /\ a.attempt \in 1..MaxAttempts
         /\ a.gen \in Generations
         /\ \A n \in 1..MaxAttempts :
               /\ [a EXCEPT !.attempt = n] \in Attempts
               /\ [a EXCEPT !.attempt = n].gen = a.gen
               /\ [a EXCEPT !.attempt = n].key = a.key
               /\ [a EXCEPT !.attempt = n].attempt = n
         /\ \A b \in Attempts :
               b.gen = a.gen /\ b.key = a.key => b = [a EXCEPT !.attempt = b.attempt]
  BY LedgerAssumption DEF Attempts

--------------------------------------------------------------------------------
(* Transactions that move rows but neither add nor supersede one.          *)

RowMoves(a, H) ==
    /\ child'[a].state = "none" <=> child[a].state = "none"
    /\ child[a].state = "none" => child'[a] = child[a]
    /\ child[a].task => child'[a].task
    /\ child'[a].task => child[a].task \/ a \in H
    /\ child'[a].state \in ActiveChildStates \cup {"completed"} => child'[a].task
    /\ Terminal(a) =>
          \/ child'[a].state = child[a].state
          \/ child[a].state = "canceled" /\ child'[a].state = "canceling" /\ execution.cancel
    /\ execution'.cancel => Quiet(child'[a].state)
    /\ ExecutionTerminal => child'[a].fence = child[a].fence

\* A transaction all of whose row changes are moves keeps the invariant.
LEMMA MovesKeepInv ==
  ASSUME LedgerInv, LedgerTypeOK', NEW H,
         \A a \in Attempts : RowMoves(a, H),
         execution'.gen = execution.gen,
         ExecutionTerminal => execution'.state = execution.state
  PROVE  LedgerInv' /\ LedgerStep(H)
<1>1. RowsInGenerations'
  BY DEF LedgerInv, RowsInGenerations, RowMoves, Present
<1>2. AbsentRowsEmpty'
  BY DEF LedgerInv, AbsentRowsEmpty, RowMoves, Present
<1>3. RetriedIsSuperseded'
  BY DEF LedgerInv, RetriedIsSuperseded, RowMoves, Present, Terminal, TERMINAL_CHILD_STATES
<1>4. CancelQuiets' /\ ActiveRowsHaveTask'
  BY DEF CancelQuiets, ActiveRowsHaveTask, RowMoves
<1>5. LedgerStep(H)
  BY DEF LedgerStep, HandlesOnlyIn, RowsStay, HandlesStay, AttemptsStayFinished, ExecutionStaysFinished,
         RowMoves, Present
<1> QED
  BY <1>1, <1>2, <1>3, <1>4, <1>5 DEF LedgerInv

\* So does a step that changes no row.
LEMMA StutterKeepsInv ==
  ASSUME LedgerInv, UNCHANGED ledger, now' \in Nat
  PROVE  LedgerInv' /\ LedgerStep({})
<1>1. LedgerTypeOK'
  BY DEF ledger, LedgerInv, LedgerTypeOK
<1>2. \A a \in Attempts : RowMoves(a, {})
  BY DEF ledger, RowMoves, LedgerInv, CancelQuiets, ActiveRowsHaveTask
<1> QED
  BY <1>1, <1>2, MovesKeepInv DEF ledger

--------------------------------------------------------------------------------
(* The transactions.                                                       *)

\* A claim takes only rows that wait for a launch, of an execution that runs.
LEMMA ClaimKeepsInv ==
  ASSUME LedgerInv, now' = now, NEW p \in Processes, NEW S \in ClaimableBatches,
         claim_launches(p, S)
  PROVE  LedgerInv' /\ LedgerStep({})
<1>1. S \subseteq Attempts /\ \A a \in S : ExecutionClaims /\ Claimable(a)
  BY DEF ClaimableBatches
<1>2. \A a \in S : child[a].state \in {"reserved", "launching"} /\ ~execution.cancel
                  /\ ~ExecutionTerminal
  BY <1>1 DEF Claimable, ExecutionClaims, ExecutionTerminal, TERMINAL_EXECUTION_STATES
<1>3. \A a \in Attempts : child[a] \in RowType
  BY DEF LedgerInv, LedgerTypeOK
<1>4. child' \in [Attempts -> RowType]
  <2>1. ASSUME NEW a \in S
        PROVE  [child[a] EXCEPT !.state = "launching", !.owner = p,
                                !.live = TRUE, !.fence = @ + 1] \in RowType
    <3>1. child[a] \in RowType /\ child[a].fence + 1 \in Nat /\ "launching" \in ChildStates
      BY <1>1, <1>3 DEF RowType, ChildStates
    <3> QED
      BY <3>1, RowUpdate
  <2> QED
    BY <1>3, <2>1 DEF claim_launches
<1>5. LedgerTypeOK'
  BY <1>4 DEF claim_launches, LedgerInv, LedgerTypeOK
<1>6. ASSUME NEW a \in Attempts
      PROVE  RowMoves(a, {})
  <2>1. CASE a \in S
    <3>1. child'[a] = [child[a] EXCEPT !.state = "launching", !.owner = p,
                                       !.live = TRUE, !.fence = @ + 1]
      BY <2>1 DEF claim_launches
    <3>2. child'[a].state = "launching" /\ child'[a].task = child[a].task
      BY <1>3, <3>1 DEF RowType
    <3> QED
      BY <1>2, <2>1, <3>2 DEF RowMoves, Terminal, TERMINAL_CHILD_STATES, claim_launches,
                              ActiveChildStates
  <2>2. CASE a \notin S
    <3>1. child'[a] = child[a] /\ execution' = execution
      BY <2>2 DEF claim_launches
    <3> QED
      BY <3>1 DEF RowMoves, LedgerInv, CancelQuiets, ActiveRowsHaveTask
  <2> QED
    BY <2>1, <2>2
<1> QED
  BY <1>5, <1>6, MovesKeepInv DEF claim_launches

\* A lease that runs out changes no state.
LEMMA LeaseKeepsInv ==
  ASSUME LedgerInv, now' = now, NEW a \in Attempts, LeaseExpires(a)
  PROVE  LedgerInv' /\ LedgerStep({})
<1>1. \A b \in Attempts : child[b] \in RowType
  BY DEF LedgerInv, LedgerTypeOK
<1>2. child' \in [Attempts -> RowType]
  BY <1>1, RowUpdate DEF LeaseExpires, LedgerInv, LedgerTypeOK
<1>3. LedgerTypeOK'
  BY <1>2 DEF LeaseExpires, LedgerInv, LedgerTypeOK
<1>4. ASSUME NEW b \in Attempts
      PROVE  /\ child'[b].state = child[b].state
             /\ child'[b].task = child[b].task
             /\ child'[b].fence = child[b].fence
             /\ child[b].state = "none" => child'[b] = child[b]
  BY <1>1 DEF LeaseExpires, LedgerInv, LedgerTypeOK, RowType
<1>5. \A b \in Attempts : RowMoves(b, {})
  BY <1>4 DEF RowMoves, LedgerInv, CancelQuiets, ActiveRowsHaveTask, LeaseExpires
<1> QED
  BY <1>3, <1>5, MovesKeepInv DEF LeaseExpires

\* A handle turns a launching row to submitted, or a canceled one to canceling.
LEMMA HandleKeepsInv ==
  ASSUME LedgerInv, now' = now, NEW p, NEW fence, NEW a \in Attempts, record_handle(p, a, fence)
  PROVE  LedgerInv' /\ LedgerStep({a})
<1> DEFINE s == IF HandleAttaches(p, a, fence) THEN "submitted" ELSE "canceling"
<1>1. \A b \in Attempts : child[b] \in RowType
  BY DEF LedgerInv, LedgerTypeOK
<1>2. child' = [child EXCEPT ![a] = [child[a] EXCEPT !.state = s, !.task = TRUE,
                                                     !.owner = Nobody, !.live = FALSE]]
  BY <1>1 DEF record_handle, LedgerInv, LedgerTypeOK
<1>3. [child[a] EXCEPT !.state = s, !.task = TRUE, !.owner = Nobody, !.live = FALSE] \in RowType
  <2>1. s \in ChildStates
    BY DEF ChildStates
  <2> QED
    BY <1>1, <2>1, RowUpdate
<1>4. LedgerTypeOK'
  BY <1>2, <1>3 DEF record_handle, LedgerInv, LedgerTypeOK
<1>5. child'[a].state = s /\ child'[a].task /\ child'[a].fence = child[a].fence
  <2>1. child'[a] = [child[a] EXCEPT !.state = s, !.task = TRUE, !.owner = Nobody, !.live = FALSE]
    BY <1>2 DEF LedgerInv, LedgerTypeOK
  <2> QED
    BY <1>1, <2>1 DEF RowType
<1>6. RowMoves(a, {a})
  <2>1. CASE HandleAttaches(p, a, fence)
    <3>1. child[a].state = "launching" /\ ~execution.cancel
      BY <2>1 DEF HandleAttaches, LedgerInv, CancelQuiets, Quiet, TERMINAL_CHILD_STATES
    <3> QED
      BY <1>5, <2>1, <3>1 DEF RowMoves, record_handle, Terminal, TERMINAL_CHILD_STATES
  <2>2. CASE ~HandleAttaches(p, a, fence)
    <3>1. child[a].state = "canceled" /\ execution.cancel
      BY <2>2 DEF record_handle, HandleArrivesCanceled
    <3> QED
      BY <1>5, <2>2, <3>1 DEF RowMoves, record_handle, Quiet
  <2> QED
    BY <2>1, <2>2
<1>7. ASSUME NEW b \in Attempts, b # a
      PROVE  RowMoves(b, {a})
  <2>1. child'[b] = child[b] /\ execution' = execution
    BY <1>2, <1>7 DEF record_handle, LedgerInv, LedgerTypeOK
  <2> QED
    BY <2>1 DEF RowMoves, LedgerInv, CancelQuiets, ActiveRowsHaveTask
<1> QED
  BY <1>4, <1>6, <1>7, MovesKeepInv DEF record_handle

\* An observation moves the row of an attempt that exists; it reports progress
\* only of one that has a task.
LEMMA ObservationKeepsInv ==
  ASSUME LedgerInv, now' = now, NEW a \in Attempts, NEW obs \in Observations, Present(a),
         child[a].task \/ obs.state \in {"failed", "canceled"},
         record_observation(a, obs)
  PROVE  LedgerInv' /\ LedgerStep({})
<1>1. child[a] \in RowType /\ \A b \in Attempts : child[b] \in RowType
  BY DEF LedgerInv, LedgerTypeOK
<1>2. obs.state \in ObservedStates /\ obs.event \in Events /\ obs.at \in Nat
      /\ obs.event.ask \in 0..MaxQuestions
  BY DEF Observations, Events
<1> DEFINE s == ProjectedState(a, obs)
<1>3. s \in ChildStates /\ s # "none"
  BY <1>2 DEF ProjectedState, ObservedStates, ChildStates
<1> DEFINE seen == [child[a] EXCEPT !.fails = 0, !.events = @ \cup {obs.event}]
<1> DEFINE row == [child[a] EXCEPT !.state = s, !.seen = obs.at, !.ask = obs.event.ask,
                                   !.fails = 0, !.events = @ \cup {obs.event}]
<1>4. seen \in RowType /\ row \in RowType
  <2>1. child[a].events \cup {obs.event} \in SUBSET Events
    BY <1>1, <1>2 DEF RowType
  <2> QED
    BY <1>1, <1>2, <1>3, <2>1, RowUpdate
<1>5. /\ child' = [child EXCEPT ![a] = IF ObservationIgnored(a, obs) THEN seen ELSE row]
      /\ plan' = plan
      /\ execution' \in {execution, [execution EXCEPT !.blockers = @ + 1]}
  BY <1>1 DEF record_observation, ApplyObservation, LedgerInv, LedgerTypeOK
<1>6. /\ execution' \in ExecutionType
      /\ execution'.state = execution.state
      /\ execution'.gen = execution.gen
      /\ execution'.cancel = execution.cancel
  BY <1>5, ExecutionUpdate DEF LedgerInv, LedgerTypeOK, ExecutionType
<1>7. LedgerTypeOK'
  <2>1. child' \in [Attempts -> RowType]
    BY <1>4, <1>5 DEF LedgerInv, LedgerTypeOK
  <2> QED
    BY <1>5, <1>6, <2>1 DEF LedgerInv, LedgerTypeOK
<1>8. RowMoves(a, {})
  <2>1. CASE ObservationIgnored(a, obs)
    <3>1. child'[a] = seen
      BY <1>5, <2>1 DEF LedgerInv, LedgerTypeOK
    <3>2. child'[a].state = child[a].state /\ child'[a].task = child[a].task
          /\ child'[a].fence = child[a].fence
      BY <1>1, <3>1 DEF RowType
    <3> QED
      BY <1>6, <3>2 DEF RowMoves, LedgerInv, CancelQuiets, ActiveRowsHaveTask, Present
  <2>2. CASE ~ObservationIgnored(a, obs)
    <3>1. child'[a] = row
      BY <1>5, <2>2 DEF LedgerInv, LedgerTypeOK
    <3>2. child'[a].state = s /\ child'[a].task = child[a].task
          /\ child'[a].fence = child[a].fence
      BY <1>1, <3>1 DEF RowType
    <3>3. ~Terminal(a)
      BY <2>2 DEF ObservationIgnored
    <3>4. execution.cancel => child[a].state = "canceling" /\ Quiet(s)
      BY <3>3 DEF LedgerInv, CancelQuiets, Quiet, Terminal, Present, ProjectedState
    <3>5. s \in ActiveChildStates \cup {"completed"} => child[a].task
      BY DEF ProjectedState, LedgerInv, ActiveRowsHaveTask, ActiveChildStates
    <3> QED
      BY <1>3, <1>6, <3>2, <3>3, <3>4, <3>5 DEF RowMoves, Present
  <2> QED
    BY <2>1, <2>2
<1>9. ASSUME NEW b \in Attempts, b # a
      PROVE  RowMoves(b, {})
  <2>1. child'[b] = child[b]
    BY <1>5, <1>9 DEF LedgerInv, LedgerTypeOK
  <2> QED
    BY <1>6, <2>1 DEF RowMoves, LedgerInv, CancelQuiets, ActiveRowsHaveTask
<1> QED
  BY <1>6, <1>7, <1>8, <1>9, MovesKeepInv

\* A failed observation counts, and in the end fails the attempt.
LEMMA ReconcileErrorKeepsInv ==
  ASSUME LedgerInv, now' = now, NEW a \in Attempts, Present(a), record_reconcile_error(a)
  PROVE  LedgerInv' /\ LedgerStep({})
<1>1. child[a] \in RowType /\ \A b \in Attempts : child[b] \in RowType
  BY DEF LedgerInv, LedgerTypeOK
<1> DEFINE counted == [child[a] EXCEPT !.fails = @ + 1]
<1> DEFINE failed == [child[a] EXCEPT !.fails = @ + 1, !.state = "failed"]
<1>2. counted \in RowType /\ failed \in RowType
  <2>1. child[a].fails + 1 \in Nat /\ "failed" \in ChildStates
    BY <1>1 DEF RowType, ChildStates
  <2> QED
    BY <1>1, <2>1, RowUpdate
<1>3. /\ execution' \in ExecutionType
      /\ execution'.state = execution.state
      /\ execution'.gen = execution.gen
      /\ execution'.cancel = execution.cancel
  BY ExecutionUpdate DEF record_reconcile_error, LedgerInv, LedgerTypeOK, ExecutionType
<1>4. CASE child' = child
  <2>1. LedgerTypeOK'
    BY <1>3, <1>4 DEF record_reconcile_error, LedgerInv, LedgerTypeOK
  <2>2. \A b \in Attempts : RowMoves(b, {})
    BY <1>3, <1>4 DEF RowMoves, LedgerInv, CancelQuiets, ActiveRowsHaveTask
  <2> QED
    BY <1>3, <2>1, <2>2, MovesKeepInv
<1>5. CASE /\ ~Terminal(a)
           /\ \/ child' = [child EXCEPT ![a] = counted]
              \/ child' = [child EXCEPT ![a] = failed]
  <2>1. child' \in [Attempts -> RowType]
    BY <1>2, <1>5 DEF LedgerInv, LedgerTypeOK
  <2>2. LedgerTypeOK'
    BY <1>3, <2>1 DEF record_reconcile_error, LedgerInv, LedgerTypeOK
  <2>3. /\ child'[a].state \in {child[a].state, "failed"}
        /\ child'[a].task = child[a].task
        /\ child'[a].fence = child[a].fence
    <3>1. child'[a] \in {counted, failed}
      BY <1>5 DEF LedgerInv, LedgerTypeOK
    <3> QED
      BY <1>1, <3>1 DEF RowType
  <2>4. RowMoves(a, {})
    BY <1>3, <1>5, <2>3 DEF RowMoves, LedgerInv, CancelQuiets, ActiveRowsHaveTask, Present,
       Quiet, TERMINAL_CHILD_STATES, ActiveChildStates
  <2>5. ASSUME NEW b \in Attempts, b # a
        PROVE  RowMoves(b, {})
    <3>1. child'[b] = child[b]
      BY <1>5, <2>5 DEF LedgerInv, LedgerTypeOK
    <3> QED
      BY <1>3, <3>1 DEF RowMoves, LedgerInv, CancelQuiets, ActiveRowsHaveTask
  <2> QED
    BY <1>3, <2>2, <2>4, <2>5, MovesKeepInv
<1> QED
  BY <1>4, <1>5 DEF record_reconcile_error, LedgerInv, LedgerTypeOK

\* Stopping the children leaves none that could be launched or go on.
LEMMA StopChildrenMoves ==
  ASSUME LedgerInv, StopChildren
  PROVE  /\ child' \in [Attempts -> RowType]
         /\ \A a \in Attempts : RowMoves(a, {})
<1>1. \A a \in Attempts : child[a] \in RowType
  BY DEF LedgerInv, LedgerTypeOK
<1>2. ASSUME NEW a \in Attempts
      PROVE  child'[a] \in RowType /\ RowMoves(a, {})
  <2>1. CASE ~Present(a) \/ Terminal(a)
    <3>1. child'[a] = child[a]
      BY <2>1 DEF StopChildren
    <3> QED
      BY <1>1, <2>1, <3>1 DEF RowMoves, LedgerInv, ActiveRowsHaveTask, Present, Terminal, Quiet
  <2>2. CASE Present(a) /\ ~Terminal(a)
    <3> DEFINE s == IF child[a].state \in {"reserved", "launching"} THEN "canceled" ELSE "canceling"
    <3>1. child'[a] = [child[a] EXCEPT !.state = s, !.owner = Nobody, !.live = FALSE]
      BY <2>2 DEF StopChildren
    <3>2. child'[a] \in RowType
      <4>1. s \in ChildStates
        BY DEF ChildStates
      <4> HIDE DEF s
      <4> QED
        BY <1>1, <3>1, <4>1, RowUpdate
    <3>3. child'[a].state = s /\ child'[a].task = child[a].task /\ child'[a].fence = child[a].fence
      BY <1>1, <3>1 DEF RowType
    <3>4. s = "canceling" => child[a].task
      BY <1>1, <2>2 DEF LedgerInv, ActiveRowsHaveTask, RowType, ChildStates, ActiveChildStates,
         Present, Terminal, TERMINAL_CHILD_STATES
    <3> QED
      BY <2>2, <3>2, <3>3, <3>4 DEF RowMoves, Present, Quiet, TERMINAL_CHILD_STATES,
         ActiveChildStates
  <2> QED
    BY <2>1, <2>2
<1>3. child' = [a \in Attempts |-> child'[a]]
  BY DEF StopChildren
<1> QED
  BY <1>2, <1>3

\* A cancel request keeps a finished execution as it is and stops the children.
LEMMA RequestCancelKeepsInv ==
  ASSUME LedgerInv, now' = now, request_cancel
  PROVE  LedgerInv' /\ LedgerStep({})
<1>1. execution \in ExecutionType
  BY DEF LedgerInv, LedgerTypeOK
<1>2. CASE UNCHANGED ledger
  BY <1>2, StutterKeepsInv DEF LedgerInv, LedgerTypeOK
<1>3. CASE ~UNCHANGED ledger
  <2> DEFINE stop == IF execution.stop = "no" THEN "requested" ELSE execution.stop
  <2> DEFINE state == IF execution.state \in {"failed", "canceled"}
                      THEN execution.state ELSE "canceling"
  <2> DEFINE reason == IF execution.state \in {"failed", "canceled"}
                       THEN execution.reason ELSE "canceling_children"
  <2> DEFINE rev == IF execution.cancel THEN execution.rev ELSE execution.rev + 1
  <2>1. /\ execution' = [execution EXCEPT !.cancel = TRUE, !.stop = stop, !.state = state,
                                          !.reason = reason, !.rev = rev]
        /\ plan' = plan
        /\ StopChildren
        /\ execution.state # "completed"
    BY <1>1, <1>3 DEF request_cancel, ExecutionType
  <2>2. execution' \in ExecutionType
    <3>1. /\ stop \in {"no", "requested", "stopped"}
          /\ state \in ExecutionStates
          /\ reason \in StatusReasons
          /\ rev \in Nat
      BY <1>1, ExecutionFields DEF ExecutionStates, StatusReasons
    <3> HIDE DEF stop, state, reason, rev
    <3> QED
      BY <1>1, <2>1, <3>1, ExecutionUpdate
  <2>3. execution'.state = state /\ execution'.gen = execution.gen
    BY <1>1, <2>1 DEF ExecutionType
  <2>4. ExecutionTerminal => execution'.state = execution.state
    BY <2>1, <2>3 DEF ExecutionTerminal, TERMINAL_EXECUTION_STATES
  <2>5. child' \in [Attempts -> RowType] /\ \A a \in Attempts : RowMoves(a, {})
    BY <2>1, StopChildrenMoves
  <2>6. LedgerTypeOK'
    BY <2>1, <2>2, <2>5 DEF LedgerInv, LedgerTypeOK
  <2> QED
    BY <2>3, <2>4, <2>5, <2>6, MovesKeepInv
<1> QED
  BY <1>2, <1>3 DEF request_cancel

\* A failed execution stops its children as a canceled one does.
LEMMA FailExecutionKeepsInv ==
  ASSUME LedgerInv, now' = now, NEW rev, fail_execution(rev)
  PROVE  LedgerInv' /\ LedgerStep({})
<1>1. execution \in ExecutionType
  BY DEF LedgerInv, LedgerTypeOK
<1>2. execution' \in ExecutionType
  <2>1. execution.rev + 1 \in Nat /\ "failed" \in ExecutionStates
        /\ "deadline_exceeded" \in StatusReasons
    BY <1>1, ExecutionFields DEF ExecutionStates, StatusReasons
  <2>2. execution' = [execution EXCEPT !.state = "failed", !.reason = "deadline_exceeded",
                                       !.cancel = TRUE, !.rev = @ + 1]
    BY DEF fail_execution
  <2> QED
    BY <1>1, <2>1, <2>2, ExecutionUpdate
<1>3. execution'.gen = execution.gen /\ ~ExecutionTerminal
  BY <1>1 DEF fail_execution, FailureAccepted, ExecutionType
<1>4. child' \in [Attempts -> RowType] /\ \A a \in Attempts : RowMoves(a, {})
  BY StopChildrenMoves DEF fail_execution
<1>5. LedgerTypeOK'
  BY <1>2, <1>4 DEF fail_execution, LedgerInv, LedgerTypeOK
<1> QED
  BY <1>3, <1>4, <1>5, MovesKeepInv

\* A transaction that writes the execution row alone, and neither expands nor
\* reopens nor cancels the execution, keeps the invariant.
LEMMA ExecutionWriteKeepsInv ==
  ASSUME LedgerInv, now' = now, UNCHANGED <<plan, child>>,
         execution' \in ExecutionType,
         execution'.gen = execution.gen,
         execution'.cancel = execution.cancel,
         ExecutionTerminal => execution'.state = execution.state
  PROVE  LedgerInv' /\ LedgerStep({})
<1>1. LedgerTypeOK'
  BY DEF LedgerInv, LedgerTypeOK
<1>2. \A a \in Attempts : RowMoves(a, {})
  BY DEF RowMoves, LedgerInv, CancelQuiets, ActiveRowsHaveTask
<1> QED
  BY <1>1, <1>2, MovesKeepInv

\* A projection changes the outcome of an open execution only.
LEMMA UpdateKeepsInv ==
  ASSUME LedgerInv, now' = now, NEW state \in ExecutionStates, NEW reason \in StatusReasons,
         NEW rev, update_execution_state(state, reason, rev)
  PROVE  LedgerInv' /\ LedgerStep({})
<1>1. execution \in ExecutionType /\ execution.rev + 1 \in Nat
  BY ExecutionFields DEF LedgerInv, LedgerTypeOK
<1> DEFINE e == [execution EXCEPT !.state = state, !.reason = reason, !.rev = @ + 1]
<1>2. e \in ExecutionType /\ e.gen = execution.gen /\ e.cancel = execution.cancel
  <2>1. e \in ExecutionType
    BY <1>1, ExecutionUpdate
  <2> QED
    BY <1>1, <2>1 DEF ExecutionType
<1>3. execution' \in {execution, e} /\ UNCHANGED <<plan, child>>
  BY DEF update_execution_state
<1>4. ExecutionTerminal => execution' = execution
  BY DEF update_execution_state, UpdateAccepted
<1> QED
  BY <1>1, <1>2, <1>3, <1>4, ExecutionWriteKeepsInv

\* Only an execution that is open completes.
LEMMA CompleteKeepsInv ==
  ASSUME LedgerInv, now' = now, complete
  PROVE  LedgerInv' /\ LedgerStep({})
<1>1. execution \in ExecutionType /\ execution.rev + 1 \in Nat
  BY ExecutionFields DEF LedgerInv, LedgerTypeOK
<1>2. execution' = [execution EXCEPT !.state = "completed", !.reason = "delivery_merged",
                                     !.rev = @ + 1]
  BY DEF complete
<1>3. execution' \in ExecutionType
  <2>1. "completed" \in ExecutionStates /\ "delivery_merged" \in StatusReasons
    BY DEF ExecutionStates, StatusReasons
  <2> QED
    BY <1>1, <1>2, <2>1, ExecutionUpdate
<1>4. execution'.gen = execution.gen /\ execution'.cancel = execution.cancel
  BY <1>1, <1>2 DEF ExecutionType
<1>5. ~ExecutionTerminal /\ UNCHANGED <<plan, child>>
  BY DEF complete, ExecutionTerminal, TERMINAL_EXECUTION_STATES
<1> QED
  BY <1>3, <1>4, <1>5, ExecutionWriteKeepsInv

\* Marking a notification touches nothing the invariant speaks of.
LEMMA MarkNotificationKeepsInv ==
  ASSUME LedgerInv, now' = now, NEW revision \in Nat, mark_blocker_notification(revision)
  PROVE  LedgerInv' /\ LedgerStep({})
<1>1. execution \in ExecutionType
  BY DEF LedgerInv, LedgerTypeOK
<1>2. execution' \in {execution, [execution EXCEPT !.notified = revision]}
  BY DEF mark_blocker_notification
<1>3. /\ execution' \in ExecutionType
      /\ execution'.gen = execution.gen
      /\ execution'.cancel = execution.cancel
      /\ execution'.state = execution.state
  BY <1>1, <1>2, ExecutionUpdate DEF ExecutionType
<1> QED
  BY <1>3, ExecutionWriteKeepsInv DEF mark_blocker_notification

\* Nor does marking the parent as stopped.
LEMMA ParentStoppedKeepsInv ==
  ASSUME LedgerInv, now' = now, mark_parent_stopped
  PROVE  LedgerInv' /\ LedgerStep({})
<1>1. execution \in ExecutionType
  BY DEF LedgerInv, LedgerTypeOK
<1>2. execution' \in {execution, [execution EXCEPT !.stop = "stopped"]}
  BY DEF mark_parent_stopped
<1>3. /\ execution' \in ExecutionType
      /\ execution'.gen = execution.gen
      /\ execution'.cancel = execution.cancel
      /\ execution'.state = execution.state
  BY <1>1, <1>2, ExecutionUpdate DEF ExecutionType
<1> QED
  BY <1>3, ExecutionWriteKeepsInv DEF mark_parent_stopped

\* Nor does a failure to stop it.
LEMMA StopErrorKeepsInv ==
  ASSUME LedgerInv, now' = now, record_parent_stop_error
  PROVE  LedgerInv' /\ LedgerStep({})
<1>1. execution \in ExecutionType /\ execution.stopTries + 1 \in Nat
      /\ execution.stop \in {"no", "requested", "stopped"}
  BY ExecutionFields DEF LedgerInv, LedgerTypeOK
<1> DEFINE stop == IF execution.stopTries + 1 >= MaxStopFailures THEN "stopped" ELSE execution.stop
<1> DEFINE e == [execution EXCEPT !.stopTries = @ + 1, !.stop = stop]
<1>2. execution' \in {execution, e}
  BY <1>1 DEF record_parent_stop_error, ExecutionType
<1>3. stop \in {"no", "requested", "stopped"}
  BY <1>1
<1> HIDE DEF stop
<1>4. /\ e \in ExecutionType
      /\ e.gen = execution.gen
      /\ e.cancel = execution.cancel
      /\ e.state = execution.state
  <2>1. e \in ExecutionType
    BY <1>1, <1>3, ExecutionUpdate
  <2> QED
    BY <1>1, <2>1 DEF ExecutionType
<1> QED
  BY <1>1, <1>2, <1>4, ExecutionWriteKeepsInv DEF record_parent_stop_error

--------------------------------------------------------------------------------
(* The transactions that add rows.                                         *)

\* A reservation adds the rows of the next generation, none of which exists.
LEMMA ReserveKeepsInv ==
  ASSUME LedgerInv, now' = now, NEW p \in Plans, NEW rev,
         ReservationAccepted(rev, p), reserve_generation(p)
  PROVE  LedgerInv' /\ LedgerStep({})
<1> DEFINE g == execution.gen + 1
<1>1. execution \in ExecutionType /\ execution.rev + 1 \in Nat
      /\ execution.gen \in 0..MaxGeneration /\ execution.reserved \in 0..TotalUnits
  BY ExecutionFields DEF LedgerInv, LedgerTypeOK
<1>2. g \in Generations /\ g \in 0..MaxGeneration /\ execution.reserved + p.units \in 0..TotalUnits
  BY <1>1, LedgerAssumption DEF ReservationAccepted, Generations
<1>3. /\ execution' = [execution EXCEPT
                          !.gen = g, !.reserved = @ + p.units, !.state = "waiting",
                          !.reason = "awaiting_children", !.rev = @ + 1]
      /\ plan' = [plan EXCEPT ![g] = p]
      /\ child' = [a \in Attempts |->
                      IF a.gen = g /\ a.key \in DOMAIN p.deps /\ a.attempt = 1
                      THEN ReservedRow ELSE child[a]]
  BY DEF reserve_generation
<1> HIDE DEF g
<1>4. execution' \in ExecutionType
  <2>1. "waiting" \in ExecutionStates /\ "awaiting_children" \in StatusReasons
    BY DEF ExecutionStates, StatusReasons
  <2> QED
    BY <1>1, <1>2, <1>3, <2>1, ExecutionUpdate
<1>5. LedgerTypeOK'
  BY <1>2, <1>3, <1>4, RowsTyped DEF LedgerInv, LedgerTypeOK
<1>6. execution'.gen = g /\ execution'.cancel = execution.cancel
  BY <1>1, <1>3 DEF ExecutionType
<1>7. ~execution.cancel /\ ~ExecutionTerminal
  BY DEF ReservationAccepted
<1>8. \A a \in Attempts : a.gen = g => ~Present(a)
  BY <1>1, AttemptVersions DEF g, LedgerInv, RowsInGenerations, Generations
<1>9. ASSUME NEW a \in Attempts
      PROVE  \/ child'[a] = child[a]
             \/ /\ child'[a] = ReservedRow
                /\ a.gen = g
                /\ a.attempt = 1
  BY <1>3
<1>10. RowsInGenerations'
  BY <1>1, <1>6, <1>9, AttemptVersions DEF g, LedgerInv, RowsInGenerations, Present, Generations
<1>11. AbsentRowsEmpty'
  BY <1>9, RowsTyped DEF LedgerInv, AbsentRowsEmpty, Present
<1>12. RetriedIsSuperseded'
  <2> SUFFICES ASSUME NEW a \in Attempts, NEW b \in Attempts,
                      a.gen = b.gen, a.key = b.key, a.attempt < b.attempt,
                      Present(a)', Present(b)'
               PROVE  child'[a].state = "superseded"
    BY DEF RetriedIsSuperseded
  <2>1. b.attempt # 1
    BY AttemptVersions
  <2>2. child'[b] = child[b] /\ Present(b)
    BY <1>9, <2>1 DEF Present
  <2>3. a.gen # g
    BY <1>8, <2>2
  <2>4. child'[a] = child[a]
    BY <1>9, <2>3
  <2> QED
    BY <2>2, <2>4 DEF LedgerInv, RetriedIsSuperseded, Present
<1>13. CancelQuiets' /\ ActiveRowsHaveTask'
  BY <1>6, <1>7, <1>9, RowsTyped DEF CancelQuiets, LedgerInv, ActiveRowsHaveTask, ActiveChildStates
<1>14. \A a \in Attempts : Present(a) => child'[a] = child[a]
  BY <1>8, <1>9
<1>15. LedgerStep({})
  <2>1. RowsStay
    BY <1>14 DEF RowsStay, Present
  <2>2. HandlesStay
    BY <1>14, RowsTyped DEF HandlesStay, LedgerInv, AbsentRowsEmpty
  <2>3. AttemptsStayFinished
    BY <1>14 DEF AttemptsStayFinished, Present, Terminal, TERMINAL_CHILD_STATES
  <2>4. HandlesOnlyIn({})
    BY <1>9, RowsTyped DEF HandlesOnlyIn
  <2> QED
    BY <1>7, <2>1, <2>2, <2>3, <2>4 DEF LedgerStep, ExecutionStaysFinished
<1> QED
  BY <1>5, <1>10, <1>11, <1>12, <1>13, <1>15 DEF LedgerInv

\* A retry supersedes the latest attempt and adds the one after it.
LEMMA CreateRetryKeepsInv ==
  ASSUME LedgerInv, now' = now, NEW a \in Attempts, a.attempt < MaxAttempts, create_retry(a)
  PROVE  LedgerInv' /\ LedgerStep({})
<1> DEFINE next == [a EXCEPT !.attempt = @ + 1]
<1>1. a.attempt \in 1..MaxAttempts /\ a.attempt + 1 \in 1..MaxAttempts
  BY AttemptVersions, LedgerAssumption
<1>2. next \in Attempts /\ next.gen = a.gen /\ next.key = a.key /\ next.attempt = a.attempt + 1
  BY <1>1, AttemptVersions DEF Attempts
<1>3. child' = [child EXCEPT ![a] = [child[a] EXCEPT !.state = "superseded"],
                             ![next] = ReservedRow]
  BY DEF create_retry, LedgerInv, LedgerTypeOK
<1>4. execution' = execution /\ plan' = plan /\ ~execution.cancel /\ Latest(a)
  BY DEF create_retry, RetryAccepted
<1> HIDE DEF next
<1>5. next # a
  BY <1>1, <1>2
<1> DEFINE old == [child[a] EXCEPT !.state = "superseded"]
<1>6. old \in RowType /\ old.state = "superseded" /\ old.task = child[a].task
      /\ old.fence = child[a].fence
  <2>1. child[a] \in RowType /\ "superseded" \in ChildStates
    BY DEF LedgerInv, LedgerTypeOK, ChildStates
  <2>2. old \in RowType
    BY <2>1, RowUpdate
  <2> QED
    BY <2>1, <2>2 DEF RowType
<1>7. child'[a] = old /\ child'[next] = ReservedRow
  BY <1>2, <1>3, <1>5 DEF LedgerInv, LedgerTypeOK
<1>8. \A b \in Attempts : b # a /\ b # next => child'[b] = child[b]
  BY <1>2, <1>3 DEF LedgerInv, LedgerTypeOK
<1>9. child' \in [Attempts -> RowType]
  BY <1>2, <1>3, <1>6, RowsTyped DEF LedgerInv, LedgerTypeOK
<1> HIDE DEF old
<1>10. LedgerTypeOK'
  BY <1>4, <1>9 DEF LedgerInv, LedgerTypeOK
<1>11. Present(a) /\ \A b \in Attempts :
          b.gen = a.gen /\ b.key = a.key /\ b.attempt > a.attempt => ~Present(b)
  <2>1. ASSUME NEW b \in Attempts, b.gen = a.gen, b.key = a.key, b.attempt > a.attempt
        PROVE  ~Present(b)
    <3>1. b = [a EXCEPT !.attempt = b.attempt] /\ b.attempt \in 1..MaxAttempts
      BY <2>1, AttemptVersions
    <3> QED
      BY <1>4, <2>1, <3>1 DEF Latest
  <2> QED
    BY <1>4, <2>1 DEF Latest
<1>12. ~Present(next) /\ child[next] = NoRow
  BY <1>1, <1>2, <1>11 DEF LedgerInv, AbsentRowsEmpty
<1>13. Present(a)' /\ Present(next)'
  BY <1>6, <1>7, RowsTyped DEF Present
<1>14. RowsInGenerations' /\ AbsentRowsEmpty'
  BY <1>2, <1>4, <1>6, <1>7, <1>8, <1>11, <1>13
  DEF LedgerInv, RowsInGenerations, AbsentRowsEmpty, Present
<1>15. RetriedIsSuperseded'
  <2> SUFFICES ASSUME NEW b \in Attempts, NEW c \in Attempts,
                      b.gen = c.gen, b.key = c.key, b.attempt < c.attempt,
                      Present(b)', Present(c)'
               PROVE  child'[b].state = "superseded"
    BY DEF RetriedIsSuperseded
  <2>1. CASE b = a
    BY <1>6, <1>7, <2>1
  <2>2. CASE b = next
    <3>1. c # a /\ c # next /\ c.attempt > a.attempt
      BY <1>1, <1>2, <2>2, AttemptVersions
    <3>2. ~Present(c) /\ child'[c] = child[c]
      BY <1>2, <1>8, <1>11, <2>2, <3>1
    <3> QED
      BY <3>2 DEF Present
  <2>3. CASE b # a /\ b # next
    <3>1. child'[b] = child[b] /\ Present(b)
      BY <1>8, <2>3 DEF Present
    <3>2. CASE c = next
      <4>1. b.attempt < a.attempt
        <5>1. b.attempt \in 1..MaxAttempts /\ b.attempt <= a.attempt
          BY <1>1, <1>2, <3>2, AttemptVersions
        <5>2. b.attempt # a.attempt
          BY <1>1, <1>2, <2>3, <3>2, AttemptVersions DEF Attempts
        <5> QED
          BY <1>1, <5>1, <5>2
      <4> QED
        BY <1>2, <1>11, <3>1, <3>2, <4>1 DEF LedgerInv, RetriedIsSuperseded
    <3>3. CASE c # next
      <4>1. Present(c)
        BY <1>8, <1>11, <3>3 DEF Present
      <4> QED
        BY <3>1, <4>1 DEF LedgerInv, RetriedIsSuperseded
    <3> QED
      BY <3>2, <3>3
  <2> QED
    BY <2>1, <2>2, <2>3
<1>16. CancelQuiets' /\ ActiveRowsHaveTask'
  BY <1>4, <1>6, <1>7, <1>8, RowsTyped DEF CancelQuiets, LedgerInv, ActiveRowsHaveTask,
     ActiveChildStates
<1>17. RowsStay /\ HandlesStay /\ HandlesOnlyIn({})
  BY <1>6, <1>7, <1>8, <1>12, <1>13, RowsTyped DEF RowsStay, HandlesStay, HandlesOnlyIn, Present
<1>18. AttemptsStayFinished
  <2>1. ~Latest(a)'
    <3>1. next = [a EXCEPT !.attempt = next.attempt] /\ next.attempt \in 1..MaxAttempts
          /\ next.attempt > a.attempt
      BY <1>1, <1>2, AttemptVersions
    <3> QED
      BY <1>13, <3>1 DEF Latest
  <2>2. ~Terminal(next)
    BY <1>12, RowsTyped DEF Terminal, TERMINAL_CHILD_STATES
  <2> QED
    BY <1>6, <1>7, <1>8, <2>1, <2>2 DEF AttemptsStayFinished
<1>19. ExecutionStaysFinished
  BY <1>4, <1>6, <1>7, <1>8, <1>12, RowsTyped DEF ExecutionStaysFinished
<1> QED
  BY <1>10, <1>14, <1>15, <1>16, <1>17, <1>18, <1>19 DEF LedgerInv, LedgerStep
================================================================================
