------------------------ MODULE WorkflowExecutionProofs ------------------------
(***************************************************************************)
(* Theorems of WorkflowExecution, for every value of its constants.        *)
(*                                                                         *)
(* A step of the service is a ledger transaction whose arguments some      *)
(* process prepared earlier.  IInv adds to the ledger's own invariant what *)
(* a process may rely on between the two: LocalOK says that the rows and   *)
(* tasks its local state names still exist.  They do because no            *)
(* transaction removes a row or a handle (LedgerStep) and no step forgets  *)
(* a task (TasksStay), so only the moving process is to be looked at.      *)
(***************************************************************************)
EXTENDS WorkflowExecution, LedgerProofs

\* The program counters at which a process has an attempt at hand, and one
\* that has a handle, and one that is to be retried.
WithAttempt ==
    {"handle", "record", "expired", "retryPoll", "retryCancel", "retryCreate",
     "reply", "replied", "answered"}
WithHandle == {"record", "retryPoll", "retryCancel", "reply", "replied", "answered"}
ToRetry == {"retryPoll", "retryCancel", "retryCreate"}

\* What a local state l takes for granted of the rows and of the tasks.
LocalOK(l, rows, tasks) ==
    /\ l.pc = "reserve" => l.plan \in Plans
    /\ l.pc \in {"join", "resume"} => l.view.gen \in Generations
    /\ \A c \in l.claims : rows[c.id].state # "none"
    /\ \A e \in l.todo : rows[e.id].state # "none"
    /\ l.pc \in {"poll", "record"} => \A e \in l.todo : rows[e.id].task
    /\ l.pc \in WithAttempt => l.cur \in Attempts /\ rows[l.cur].state # "none"
    /\ l.pc \in WithHandle => rows[l.cur].task
    /\ l.pc \in ToRetry => l.cur.attempt < MaxAttempts
    /\ l.pc = "handle" => tasks[l.cur].state # "none"

TaskType == [state : TaskStates, ask : 0..MaxQuestions]
ParentType ==
    [joined : SUBSET Generations, hollow : SUBSET Attempts,
     notices : SUBSET [gen : 0..MaxGeneration, rev : Nat, kids : SUBSET Attempts],
     stopped : BOOLEAN]
MessageType ==
    [state : {"none", "reserved", "delivered"}, to : Attempts \cup {NoAttempt},
     ask : 0..MaxQuestions]
SnapType == [rev : Nat, blockers : Nat, cancel : BOOLEAN, joined : BOOLEAN]
ViewType == [gen : 0..MaxGeneration, done : SUBSET Attempts, bad : SUBSET Attempts]
TargetType == [state : ExecutionStates, reason : StatusReasons]

RemoteTypeOK ==
    /\ task \in [Attempts -> TaskType]
    /\ parent \in ParentType
    /\ message \in [MessageIds -> MessageType]
    /\ faults \in Nat

HandlesNameTasks == \A a \in Attempts : child[a].task => task[a].state # "none"
TasksStay == \A a \in Attempts : task[a].state # "none" => task'[a].state # "none"

IInv ==
    /\ LedgerInv
    /\ RemoteTypeOK
    /\ proc \in [Processes -> ProcessType]
    /\ HandlesNameTasks
    /\ \A p \in Processes : LocalOK(proc[p], child, task)

--------------------------------------------------------------------------------
(* Typed updates of local states.                                          *)

\* Replacing one field of a local state by a value of its type gives one.
LEMMA LocalUpdate ==
  ASSUME NEW l \in ProcessType
  PROVE  /\ \A x \in PCs : [l EXCEPT !.pc = x] \in ProcessType
         /\ \A x \in SUBSET Items : [l EXCEPT !.todo = x] \in ProcessType
         /\ \A x \in SUBSET Claims : [l EXCEPT !.claims = x] \in ProcessType
         /\ \A x \in Attempts \cup {NoAttempt} : [l EXCEPT !.cur = x] \in ProcessType
         /\ \A x \in Nat : [l EXCEPT !.fence = x] \in ProcessType
         /\ \A x \in Nat : [l EXCEPT !.at = x] \in ProcessType
         /\ \A x \in Observations : [l EXCEPT !.obs = x] \in ProcessType
         /\ \A x \in BOOLEAN : [l EXCEPT !.touched = x] \in ProcessType
         /\ \A x \in SnapType : [l EXCEPT !.snap = x] \in ProcessType
         /\ \A x \in ViewType : [l EXCEPT !.view = x] \in ProcessType
         /\ \A x \in TargetType : [l EXCEPT !.target = x] \in ProcessType
         /\ \A x \in Plans \cup {NoPlan} : [l EXCEPT !.plan = x] \in ProcessType
         /\ \A x \in MessageIds \cup {0} : [l EXCEPT !.msg = x] \in ProcessType
  BY DEF ProcessType, SnapType, ViewType, TargetType

\* The fields of a local state have their types.
LEMMA LocalFields ==
  ASSUME NEW l \in ProcessType
  PROVE  /\ l.pc \in PCs /\ l.todo \in SUBSET Items /\ l.claims \in SUBSET Claims
         /\ l.cur \in Attempts \cup {NoAttempt}
         /\ l.fence \in Nat /\ l.at \in Nat /\ l.obs \in Observations
         /\ l.touched \in BOOLEAN
         /\ l.snap \in SnapType /\ l.view \in ViewType /\ l.target \in TargetType
         /\ l.plan \in Plans \cup {NoPlan} /\ l.msg \in MessageIds \cup {0}
         /\ l.snap.rev \in Nat /\ l.snap.blockers \in Nat /\ l.view.gen \in 0..MaxGeneration
         /\ l.view.done \in SUBSET Attempts /\ l.view.bad \in SUBSET Attempts
         /\ l.target.state \in ExecutionStates /\ l.target.reason \in StatusReasons
  BY DEF ProcessType, SnapType, ViewType, TargetType

\* An idle process, one that begins to reconcile and one that goes on to claim
\* have their type and take nothing for granted.
LEMMA IdleTyped ==
  /\ Idle \in ProcessType
  /\ ReconcileFrom \in ProcessType
  /\ [Idle EXCEPT !.pc = "claim"] \in ProcessType
  /\ \A p : AfterReconcile(p) \in ProcessType
<1>1. NoObservation \in Observations
  BY LedgerAssumption DEF NoObservation, Observations, ObservedStates, Events, TaskStates
<1>2. NoSnapshot \in SnapType /\ NoView \in ViewType /\ NoTarget \in TargetType
  BY LedgerAssumption DEF NoSnapshot, NoView, NoTarget, SnapType, ViewType, TargetType,
     ExecutionStates, StatusReasons
<1>3. "idle" \in PCs /\ "stop" \in PCs /\ "claim" \in PCs
  BY DEF PCs
<1>4. Idle \in ProcessType
  BY <1>1, <1>2, <1>3 DEF Idle, ProcessType, SnapType, ViewType, TargetType
<1> QED
  BY <1>3, <1>4, LocalUpdate DEF ReconcileFrom, AfterReconcile

\* An idle local state, and one about to claim or to reconcile, takes nothing
\* for granted.
LEMMA IdleOK ==
  /\ \A rows, tasks : LocalOK(Idle, rows, tasks)
  /\ \A rows, tasks : LocalOK(ReconcileFrom, rows, tasks)
  /\ \A rows, tasks : LocalOK([Idle EXCEPT !.pc = "claim"], rows, tasks)
  /\ \A p, rows, tasks : LocalOK(AfterReconcile(p), rows, tasks)
  BY DEF LocalOK, Idle, ReconcileFrom, AfterReconcile, WithAttempt, WithHandle, ToRetry

--------------------------------------------------------------------------------
(* Frames: what a process takes for granted, others do not disturb.        *)

\* Ledger transactions and remote steps keep what any local state relies on.
LEMMA LocalOKStays ==
  ASSUME NEW l \in ProcessType, LocalOK(l, child, task), NEW H, LedgerStep(H), TasksStay
  PROVE  LocalOK(l, child', task')
<1>1. /\ \A a \in Attempts : child[a].state # "none" => child'[a].state # "none"
      /\ \A a \in Attempts : child[a].task => child'[a].task
      /\ \A a \in Attempts : task[a].state # "none" => task'[a].state # "none"
  BY DEF LedgerStep, RowsStay, HandlesStay, TasksStay, Present
<1>2. /\ \A c \in l.claims : c.id \in Attempts
      /\ \A e \in l.todo : e.id \in Attempts
  BY LocalFields DEF Claims, Items
<1>3. l.pc \in WithHandle \/ l.pc = "handle" => l.pc \in WithAttempt
  BY DEF WithHandle, WithAttempt
<1> QED
  BY <1>1, <1>2, <1>3 DEF LocalOK

\* A step of process p that leaves it in the local state l.
LEMMA ProcessStep ==
  ASSUME IInv, LedgerInv', NEW H, LedgerStep(H), RemoteTypeOK', TasksStay,
         \A a \in H : task'[a].state # "none",
         NEW p \in Processes, NEW l \in ProcessType,
         Become(p, l),
         LocalOK(l, child', task')
  PROVE  IInv'
<1>1. proc' \in [Processes -> ProcessType]
  BY DEF IInv, Become
<1>2. HandlesNameTasks'
  BY DEF IInv, HandlesNameTasks, LedgerStep, HandlesOnlyIn, TasksStay
<1>3. ASSUME NEW q \in Processes
      PROVE  LocalOK(proc'[q], child', task')
  <2>1. CASE q = p
    BY <2>1 DEF Become, IInv
  <2>2. CASE q # p
    <3>1. proc'[q] = proc[q] /\ proc[q] \in ProcessType /\ LocalOK(proc[q], child, task)
      BY <2>2 DEF Become, IInv
    <3> QED
      BY <3>1, LocalOKStays
  <2> QED
    BY <2>1, <2>2
<1> QED
  BY <1>1, <1>2, <1>3 DEF IInv

\* A step that leaves every process where it is.
LEMMA OtherStep ==
  ASSUME IInv, LedgerInv', LedgerStep({}), RemoteTypeOK', TasksStay, UNCHANGED proc
  PROVE  IInv'
<1>1. HandlesNameTasks'
  BY DEF IInv, HandlesNameTasks, LedgerStep, HandlesOnlyIn, TasksStay
<1>2. ASSUME NEW q \in Processes
      PROVE  LocalOK(proc'[q], child', task')
  BY LocalOKStays DEF IInv
<1> QED
  BY <1>1, <1>2 DEF IInv

\* Steps that touch neither the rows nor the remote side.
LEMMA LocalStep ==
  ASSUME IInv, UNCHANGED <<execution, plan, child, now>>,
         UNCHANGED <<task, parent, message>>, faults' \in Nat,
         NEW p \in Processes, NEW l \in ProcessType,
         Become(p, l),
         LocalOK(l, child, task)
  PROVE  IInv' /\ LedgerStep({})
<1>1. now \in Nat
  BY DEF IInv, LedgerInv, LedgerTypeOK
<1>2. LedgerInv' /\ LedgerStep({})
  BY <1>1, StutterKeepsInv DEF IInv, ledger
<1>3. RemoteTypeOK' /\ TasksStay
  BY DEF IInv, RemoteTypeOK, TasksStay
<1> QED
  BY <1>2, <1>3, ProcessStep

\* Steps that run one transaction and touch nothing remote.
LEMMA TransactionStep ==
  ASSUME IInv, LedgerInv', LedgerStep({}), UNCHANGED <<now, task, parent, message, faults>>,
         NEW p \in Processes, NEW l \in ProcessType,
         Become(p, l),
         LocalOK(l, child', task)
  PROVE  IInv'
<1>1. RemoteTypeOK' /\ TasksStay
  BY DEF IInv, RemoteTypeOK, TasksStay
<1> QED
  BY <1>1, ProcessStep

--------------------------------------------------------------------------------
(* expand and launch                                                       *)

\* A failure is counted, and the count stays a number.
LEMMA FaultCounts ==
  ASSUME IInv, Fault \/ UNCHANGED faults
  PROVE  faults' \in Nat
  BY DEF Fault, IInv, RemoteTypeOK

\* An accepted proposal leaves the process with a plan to reserve.
LEMMA BeginExpandStep ==
  ASSUME IInv, NEW p \in Processes, BeginExpand(p)
  PROVE  IInv' /\ LedgerStep({})
<1>1. PICK pl \in Plans :
         Become(p, [Idle EXCEPT !.pc = "reserve", !.plan = pl, !.snap.rev = execution.rev])
  BY DEF BeginExpand
<1> DEFINE l == [Idle EXCEPT !.pc = "reserve", !.plan = pl, !.snap.rev = execution.rev]
<1> DEFINE snap == [Idle.snap EXCEPT !.rev = execution.rev]
<1>2. snap \in SnapType
  BY IdleTyped, LocalFields, ExecutionFields DEF SnapType, IInv, LedgerInv, LedgerTypeOK
<1>3. l = [Idle EXCEPT !.pc = "reserve", !.plan = pl, !.snap = snap]
  OBVIOUS
<1>4. l \in ProcessType
  <2>1. "reserve" \in PCs
    BY DEF PCs
  <2> HIDE DEF snap, l
  <2> QED
    BY <1>2, <1>3, <2>1, IdleTyped, LocalUpdate
<1>5. l.pc = "reserve" /\ l.plan = pl /\ l.claims = {} /\ l.todo = {}
  BY DEF Idle
<1>6. LocalOK(l, child, task)
  BY <1>5 DEF LocalOK, WithAttempt, WithHandle, ToRetry
<1> QED
  BY <1>1, <1>4, <1>6, LocalStep DEF BeginExpand, IInv, RemoteTypeOK

\* The plan at hand is one of the plans, so the reservation is typed.
LEMMA ReserveGenerationStep ==
  ASSUME IInv, NEW p \in Processes, ReserveGeneration(p)
  PROVE  IInv' /\ LedgerStep({})
<1>1. proc[p].plan \in Plans
  BY DEF ReserveGeneration, At, IInv, LocalOK
<1>2. LedgerInv' /\ LedgerStep({})
  BY <1>1, ReserveKeepsInv, StutterKeepsInv DEF ReserveGeneration, IInv, LedgerInv, LedgerTypeOK
<1>3. Become(p, [Idle EXCEPT !.pc = "claim"]) \/ Become(p, Idle)
  BY DEF ReserveGeneration
<1> QED
  BY <1>2, <1>3, IdleTyped, IdleOK, TransactionStep DEF ReserveGeneration

\* A claim hands the process rows that exist.
LEMMA ClaimLaunchesStep ==
  ASSUME IInv, NEW p \in Processes, ClaimLaunches(p)
  PROVE  IInv' /\ LedgerStep({})
<1>1. PICK S \in ClaimableBatches :
         /\ claim_launches(p, S)
         /\ Become(p, IF S = {} THEN Idle
                      ELSE [Idle EXCEPT
                              !.pc = "launch",
                              !.claims = {[id |-> a, fence |-> child[a].fence + 1] : a \in S}])
  BY DEF ClaimLaunches
<1>2. LedgerInv' /\ LedgerStep({})
  BY <1>1, ClaimKeepsInv DEF IInv, ClaimLaunches
<1>3. CASE S = {}
  BY <1>1, <1>2, <1>3, IdleTyped, IdleOK, TransactionStep DEF ClaimLaunches
<1>4. CASE S # {}
  <2> DEFINE claims == {[id |-> a, fence |-> child[a].fence + 1] : a \in S}
  <2> DEFINE l == [Idle EXCEPT !.pc = "launch", !.claims = claims]
  <2>1. S \subseteq Attempts /\ \A a \in S : Present(a)
    BY DEF ClaimableBatches, Claimable, Present
  <2>2. \A a \in S : child[a].fence + 1 \in Nat
    BY <2>1 DEF IInv, LedgerInv, LedgerTypeOK, RowType
  <2>3. claims \in SUBSET Claims
    BY <2>1, <2>2 DEF Claims
  <2>4. l.pc = "launch" /\ l.todo = {} /\ l.claims = claims
    BY DEF Idle
  <2>5. \A c \in claims : child'[c.id].state # "none"
    BY <1>2, <2>1 DEF LedgerStep, RowsStay, Present
  <2>6. LocalOK(l, child', task)
    <3> HIDE DEF l, claims
    <3> QED
      BY <2>4, <2>5 DEF LocalOK, WithAttempt, WithHandle, ToRetry
  <2>7. l \in ProcessType
    <3>1. "launch" \in PCs
      BY DEF PCs
    <3> HIDE DEF claims
    <3> QED
      BY <2>3, <3>1, IdleTyped, LocalUpdate
  <2> QED
    BY <1>1, <1>2, <1>4, <2>6, <2>7, TransactionStep DEF ClaimLaunches
<1> QED
  BY <1>3, <1>4

\* Writing a task that exists keeps the tasks that exist.
LEMMA TaskWrite ==
  ASSUME IInv, NEW a \in Attempts, NEW t \in TaskType, t.state # "none",
         task' = [task EXCEPT ![a] = t]
  PROVE  task' \in [Attempts -> TaskType] /\ TasksStay /\ task'[a] = t
  BY DEF IInv, RemoteTypeOK, TasksStay

\* A launched task exists.
LEMMA LaunchedTyped ==
  ASSUME IInv, NEW a \in Attempts
  PROVE  Launched(a) \in TaskType /\ Launched(a).state # "none"
<1>1. task[a] \in TaskType
  BY DEF IInv, RemoteTypeOK
<1>2. CASE task[a].state = "none"
  BY <1>2, LedgerAssumption DEF Launched, TaskType, TaskStates
<1>3. CASE task[a].state # "none"
  BY <1>1, <1>3 DEF Launched
<1> QED
  BY <1>2, <1>3

\* The process that launched a task has it at hand.
LEMMA LaunchChildStep ==
  ASSUME IInv, NEW p \in Processes, LaunchChild(p)
  PROVE  IInv' /\ LedgerStep({})
<1>1. PICK c \in proc[p].claims :
         \/ /\ task' = [task EXCEPT ![c.id] = Launched(c.id)]
            /\ Become(p, [proc[p] EXCEPT !.pc = "handle", !.cur = c.id, !.fence = c.fence,
                                         !.claims = @ \ {c}])
            /\ UNCHANGED faults
         \/ /\ Fault
            /\ task' \in {task, [task EXCEPT ![c.id] = Launched(c.id)]}
            /\ Become(p, Idle)
  BY DEF LaunchChild
<1>2. proc[p] \in ProcessType /\ LocalOK(proc[p], child, task)
  BY DEF IInv
<1>3. c.id \in Attempts /\ c.fence \in Nat /\ child[c.id].state # "none"
  BY <1>2, LocalFields DEF Claims, LocalOK
<1>4. LedgerInv' /\ LedgerStep({})
  BY StutterKeepsInv DEF LaunchChild, ledger, IInv, LedgerInv, LedgerTypeOK
<1>5. faults' \in Nat
  BY <1>1, FaultCounts
<1>6. /\ RemoteTypeOK' /\ TasksStay
      /\ task' # task => task'[c.id] = Launched(c.id)
  <2>1. CASE task' = task
    BY <1>5, <2>1 DEF LaunchChild, IInv, RemoteTypeOK, TasksStay
  <2>2. CASE task' = [task EXCEPT ![c.id] = Launched(c.id)]
    BY <1>3, <1>5, <2>2, LaunchedTyped, TaskWrite DEF LaunchChild, IInv, RemoteTypeOK
  <2> QED
    BY <1>1, <2>1, <2>2
<1>7. CASE Become(p, Idle)
  BY <1>4, <1>6, <1>7, IdleTyped, IdleOK, ProcessStep
<1>8. CASE /\ task' = [task EXCEPT ![c.id] = Launched(c.id)]
           /\ Become(p, [proc[p] EXCEPT !.pc = "handle", !.cur = c.id, !.fence = c.fence,
                                        !.claims = @ \ {c}])
  <2> DEFINE l == [proc[p] EXCEPT !.pc = "handle", !.cur = c.id, !.fence = c.fence,
                                  !.claims = @ \ {c}]
  <2>1. l \in ProcessType
    <3>1. "handle" \in PCs /\ proc[p].claims \ {c} \in SUBSET Claims
      BY <1>2, LocalFields DEF PCs
    <3> QED
      BY <1>2, <1>3, <3>1, LocalUpdate
  <2>2. /\ l.pc = "handle" /\ l.cur = c.id
        /\ l.claims = proc[p].claims \ {c} /\ l.todo = proc[p].todo
    BY <1>2 DEF ProcessType
  <2>3. task'[c.id].state # "none"
    BY <1>3, <1>8, LaunchedTyped, TaskWrite
  <2>4. child' = child
    BY DEF LaunchChild
  <2>5. LocalOK(l, child', task')
    <3> HIDE DEF l
    <3> QED
      BY <1>2, <1>3, <2>2, <2>3, <2>4 DEF LocalOK, WithAttempt, WithHandle, ToRetry
  <2> QED
    BY <1>4, <1>6, <1>8, <2>1, <2>5, ProcessStep
<1> QED
  BY <1>1, <1>7, <1>8

\* A handle is recorded for a task that exists.
LEMMA RecordHandleStep ==
  ASSUME IInv, NEW p \in Processes, RecordHandle(p)
  PROVE  IInv' /\ \E H : LedgerStep(H)
<1> DEFINE a == proc[p].cur
<1>1. proc[p] \in ProcessType /\ LocalOK(proc[p], child, task) /\ proc[p].pc = "handle"
  BY DEF IInv, RecordHandle, At
<1>2. a \in Attempts /\ task[a].state # "none"
  BY <1>1 DEF LocalOK, WithAttempt
<1>3. LedgerInv' /\ LedgerStep({a})
  <2>1. CASE record_handle(p, a, proc[p].fence)
    BY <1>2, <2>1, HandleKeepsInv DEF IInv, RecordHandle
  <2>2. CASE UNCHANGED ledger
    BY <2>2, StutterKeepsInv DEF IInv, RecordHandle, LedgerStep, HandlesOnlyIn, LedgerInv, LedgerTypeOK
  <2> QED
    BY <2>1, <2>2 DEF RecordHandle
<1>4. RemoteTypeOK' /\ TasksStay /\ \A b \in {a} : task'[b].state # "none"
  BY <1>2 DEF RecordHandle, IInv, RemoteTypeOK, TasksStay
<1> DEFINE l == [Idle EXCEPT !.pc = "launch", !.claims = proc[p].claims]
<1>5. Become(p, Idle) \/ Become(p, l)
  BY DEF RecordHandle
<1>6. CASE Become(p, Idle)
  BY <1>3, <1>4, <1>6, IdleTyped, IdleOK, ProcessStep
<1>7. CASE Become(p, l)
  <2>1. l \in ProcessType
    <3>1. "launch" \in PCs
      BY DEF PCs
    <3> QED
      BY <1>1, <3>1, IdleTyped, LocalFields, LocalUpdate
  <2>2. l.pc = "launch" /\ l.todo = {} /\ l.claims = proc[p].claims
    BY DEF Idle
  <2>3. LocalOK(l, child, task)
    <3> HIDE DEF l
    <3> QED
      BY <1>1, <2>2 DEF LocalOK, WithAttempt, WithHandle, ToRetry
  <2>4. LocalOK(l, child', task')
    <3> HIDE DEF l
    <3> QED
      BY <1>3, <1>4, <2>1, <2>3, LocalOKStays
  <2> QED
    BY <1>3, <1>4, <1>7, <2>1, <2>4, ProcessStep
<1> QED
  BY <1>3, <1>5, <1>6, <1>7

--------------------------------------------------------------------------------
(* reconcile                                                               *)

\* A cycle begins with nothing at hand.
LEMMA BeginReconcileStep ==
  ASSUME IInv, NEW p \in Processes, BeginReconcile(p)
  PROVE  IInv' /\ LedgerStep({})
  BY IdleTyped, IdleOK, LocalStep DEF BeginReconcile, IInv, RemoteTypeOK

\* A cancel request goes on to reconcile with nothing at hand.
LEMMA RequestCancelStep ==
  ASSUME IInv, NEW p \in Processes, RequestCancel(p)
  PROVE  IInv' /\ LedgerStep({})
<1>1. LedgerInv' /\ LedgerStep({})
  BY RequestCancelKeepsInv DEF RequestCancel, IInv
<1> QED
  BY <1>1, IdleTyped, IdleOK, TransactionStep DEF RequestCancel

\* Moving on to a program counter at which nothing is at hand.
LEMMA GotoTyped ==
  ASSUME NEW p \in Processes, proc[p] \in ProcessType, NEW rows, NEW tasks,
         LocalOK(proc[p], rows, tasks),
         NEW pc \in PCs \ (WithAttempt \cup {"reserve", "join", "resume", "poll"})
  PROVE  Goto(p, pc) \in ProcessType /\ LocalOK(Goto(p, pc), rows, tasks)
<1>1. Goto(p, pc) \in ProcessType
  BY LocalUpdate DEF Goto
<1>2. /\ Goto(p, pc).pc = pc
      /\ Goto(p, pc).claims = proc[p].claims
      /\ Goto(p, pc).todo = proc[p].todo
  BY DEF Goto, ProcessType
<1> QED
  BY <1>1, <1>2 DEF LocalOK, WithAttempt, WithHandle, ToRetry

\* Stopping the parent leaves the local state as it is.
LEMMA StopParentStep ==
  ASSUME IInv, NEW p \in Processes, StopParent(p)
  PROVE  IInv' /\ LedgerStep({})
<1>1. LedgerInv' /\ LedgerStep({})
  <2>1. CASE UNCHANGED <<execution, plan, child>>
    BY <2>1, StutterKeepsInv DEF StopParent, ledger, IInv, LedgerInv, LedgerTypeOK
  <2>2. CASE record_parent_stop_error
    BY <2>2, StopErrorKeepsInv DEF StopParent, IInv
  <2> QED
    BY <2>1, <2>2 DEF StopParent
<1>2. faults' \in Nat
  BY FaultCounts DEF StopParent
<1>3. parent' \in ParentType
  <2>1. parent \in ParentType /\ [parent EXCEPT !.stopped = TRUE] \in ParentType
    BY DEF IInv, RemoteTypeOK, ParentType
  <2> QED
    BY <2>1 DEF StopParent
<1>4. RemoteTypeOK' /\ TasksStay
  BY <1>2, <1>3 DEF StopParent, IInv, RemoteTypeOK, TasksStay
<1>5. proc[p] \in ProcessType /\ LocalOK(proc[p], child', task')
  BY <1>1, <1>4, LocalOKStays DEF IInv
<1>6. PICK pc \in {"expire", "stopped"} : Become(p, Goto(p, pc))
  BY DEF StopParent
<1>7. Goto(p, pc) \in ProcessType /\ LocalOK(Goto(p, pc), child', task')
  BY <1>5, <1>6, GotoTyped DEF PCs, WithAttempt
<1> QED
  BY <1>1, <1>4, <1>6, <1>7, ProcessStep

\* So does recording that it stopped.
LEMMA MarkParentStoppedStep ==
  ASSUME IInv, NEW p \in Processes, MarkParentStopped(p)
  PROVE  IInv' /\ LedgerStep({})
<1>1. LedgerInv' /\ LedgerStep({})
  BY ParentStoppedKeepsInv DEF MarkParentStopped, IInv
<1>2. TasksStay /\ task' = task
  BY DEF MarkParentStopped, TasksStay
<1>3. proc[p] \in ProcessType /\ LocalOK(proc[p], child', task)
  BY <1>1, <1>2, LocalOKStays DEF IInv
<1>4. Goto(p, "expire") \in ProcessType /\ LocalOK(Goto(p, "expire"), child', task)
  BY <1>3, GotoTyped DEF PCs, WithAttempt
<1> QED
  BY <1>1, <1>4, TransactionStep DEF MarkParentStopped

\* The children listed for expiry exist.
LEMMA ListExpiredStep ==
  ASSUME IInv, NEW p \in Processes, ListExpired(p)
  PROVE  IInv' /\ LedgerStep({})
<1> DEFINE todo == {[id |-> a, flag |-> child[a].task] : a \in ExpiredChildren}
<1> DEFINE l == [proc[p] EXCEPT !.pc = "expiring", !.at = now, !.todo = todo]
<1>1. proc[p] \in ProcessType /\ LocalOK(proc[p], child, task) /\ now \in Nat
  BY DEF IInv, LedgerInv, LedgerTypeOK
<1>2. \A a \in ExpiredChildren : a \in Attempts /\ child[a].state # "none" /\ child[a].task \in BOOLEAN
  BY DEF ExpiredChildren, Present, IInv, LedgerInv, LedgerTypeOK, RowType
<1>3. todo \in SUBSET Items /\ \A e \in todo : child[e.id].state # "none"
  BY <1>2 DEF Items
<1> HIDE DEF todo
<1>4. l \in ProcessType
  <2>1. "expiring" \in PCs
    BY DEF PCs
  <2> QED
    BY <1>1, <1>3, <2>1, LocalUpdate
<1>5. l.pc = "expiring" /\ l.todo = todo /\ l.claims = proc[p].claims
  BY <1>1 DEF ProcessType
<1>6. LocalOK(l, child, task)
  <2> HIDE DEF l
  <2> QED
    BY <1>1, <1>3, <1>5 DEF LocalOK, WithAttempt, WithHandle, ToRetry
<1> QED
  BY <1>4, <1>6, LocalStep DEF ListExpired, IInv, RemoteTypeOK, todo

\* A cancel request leaves a task of the same kind; a failed one, a fault.
LEMMA CancelOutcomeTyped ==
  ASSUME IInv, NEW a \in Attempts, NEW t \in CancelOutcomes(a)
  PROVE  t \in TaskType /\ t.state \in {"working", "input", "canceled"}
<1>1. task[a] \in TaskType /\ Unfinished(task[a]) /\ t \in {task[a], [task[a] EXCEPT !.state = "canceled"]}
  BY DEF IInv, RemoteTypeOK, CancelOutcomes
<1> QED
  BY <1>1 DEF Unfinished, TaskType, TaskStates

\* A cancel request that gets through keeps every task.
LEMMA CancelOutcomeWritten ==
  ASSUME IInv, NEW a \in Attempts,
         \E t \in CancelOutcomes(a) : task' = [task EXCEPT ![a] = t]
  PROVE  task' \in [Attempts -> TaskType] /\ TasksStay
  BY CancelOutcomeTyped, TaskWrite

\* So does one that fails, and the failure is counted.
LEMMA CancelFailsTyped ==
  ASSUME IInv, NEW a \in Attempts, CancelFails(a)
  PROVE  task' \in [Attempts -> TaskType] /\ TasksStay /\ faults' \in Nat
<1>1. faults' \in Nat
  BY FaultCounts DEF CancelFails
<1>2. CASE UNCHANGED task
  BY <1>1, <1>2 DEF IInv, RemoteTypeOK, TasksStay
<1>3. CASE \E t \in CancelOutcomes(a) : task' = [task EXCEPT ![a] = t]
  BY <1>1, <1>3, CancelOutcomeWritten
<1> QED
  BY <1>2, <1>3 DEF CancelFails

\* What is recorded is an observation.
LEMMA ReportTyped ==
  ASSUME NEW t \in TaskType, NEW s \in ObservedStates, now \in Nat
  PROVE  Report(t, s) \in Observations /\ Report(t, s).state = s
  BY LedgerAssumption DEF Report, EventOf, Observations, Events, TaskType, TaskStates

\* The report of an overdue child is an observation of a failure.
LEMMA DeadlineReportTyped ==
  ASSUME NEW at \in Nat
  PROVE  DeadlineReport(at) \in Observations /\ DeadlineReport(at).state = "failed"
  BY LedgerAssumption DEF DeadlineReport, Observations, Events, ObservedStates

\* A task that exists is reported in an observed state.
LEMMA NormalizedTyped ==
  ASSUME NEW t \in TaskType, t.state # "none"
  PROVE  /\ NormalizedState(t) \in ObservedStates
         /\ PolledState(t) \in ObservedStates
         /\ CanceledState(t) \in ObservedStates
  BY DEF NormalizedState, PolledState, CanceledState, ObservedStates, TaskType, TaskStates

\* One overdue child less to look at; a canceled one is at hand until recorded.
LEMMA ExpireChildStep ==
  ASSUME IInv, NEW p \in Processes, ExpireChild(p)
  PROVE  IInv' /\ LedgerStep({})
<1>1. PICK e \in proc[p].todo :
        LET rest == [proc[p] EXCEPT !.todo = @ \ {e}, !.touched = TRUE]
        IN  \/ /\ e.flag
               /\ \E t \in CancelOutcomes(e.id) : task' = [task EXCEPT ![e.id] = t]
               /\ Become(p, [rest EXCEPT !.pc = "expired", !.cur = e.id])
               /\ UNCHANGED <<execution, plan, child, faults>>
            \/ /\ e.flag
               /\ CancelFails(e.id)
               /\ record_reconcile_error(e.id)
               /\ Become(p, rest)
            \/ /\ ~e.flag
               /\ record_observation(e.id, DeadlineReport(proc[p].at))
               /\ Become(p, rest)
               /\ UNCHANGED <<task, faults>>
  BY DEF ExpireChild
<1> DEFINE rest == [proc[p] EXCEPT !.todo = @ \ {e}, !.touched = TRUE]
<1> DEFINE hand == [rest EXCEPT !.pc = "expired", !.cur = e.id]
<1>2. /\ proc[p] \in ProcessType /\ LocalOK(proc[p], child, task) /\ proc[p].pc = "expiring"
      /\ now \in Nat /\ LedgerInv
  BY DEF ExpireChild, At, IInv, LedgerInv, LedgerTypeOK
<1>3. e.id \in Attempts /\ child[e.id].state # "none"
  BY <1>2, LocalFields DEF Items, LocalOK
<1>4. rest \in ProcessType
  <2>1. proc[p].todo \ {e} \in SUBSET Items
    BY <1>2, LocalFields
  <2> QED
    BY <1>2, <2>1, LocalUpdate
<1>5. rest.pc = "expiring" /\ rest.todo = proc[p].todo \ {e} /\ rest.claims = proc[p].claims
  BY <1>2 DEF ProcessType
<1> HIDE DEF rest
<1>6. LocalOK(rest, child, task)
  BY <1>2, <1>5 DEF LocalOK, WithAttempt, WithHandle, ToRetry
<1>7. hand \in ProcessType
  <2>1. "expired" \in PCs
    BY DEF PCs
  <2> QED
    BY <1>3, <1>4, <2>1, LocalUpdate
<1>8. hand.pc = "expired" /\ hand.todo = rest.todo /\ hand.claims = rest.claims /\ hand.cur = e.id
  BY <1>4 DEF ProcessType
<1> HIDE DEF hand
<1>9. LocalOK(hand, child, task)
  BY <1>3, <1>6, <1>8 DEF LocalOK, WithAttempt, WithHandle, ToRetry
<1>10. CASE /\ \E t \in CancelOutcomes(e.id) : task' = [task EXCEPT ![e.id] = t]
            /\ Become(p, hand)
            /\ UNCHANGED <<execution, plan, child, faults>>
  <2>1. LedgerInv' /\ LedgerStep({})
    BY <1>2, <1>10, StutterKeepsInv DEF ExpireChild, ledger
  <2>2. RemoteTypeOK' /\ TasksStay
    BY <1>3, <1>10, CancelOutcomeWritten DEF ExpireChild, IInv, RemoteTypeOK
  <2> QED
    BY <1>7, <1>9, <1>10, <2>1, <2>2, LocalOKStays, ProcessStep
<1>11. CASE CancelFails(e.id) /\ record_reconcile_error(e.id) /\ Become(p, rest)
  <2>1. LedgerInv' /\ LedgerStep({})
    BY <1>2, <1>3, <1>11, ReconcileErrorKeepsInv DEF ExpireChild, Present
  <2>2. RemoteTypeOK' /\ TasksStay
    BY <1>3, <1>11, CancelFailsTyped DEF ExpireChild, IInv, RemoteTypeOK
  <2> QED
    BY <1>4, <1>6, <1>11, <2>1, <2>2, LocalOKStays, ProcessStep
<1>12. CASE /\ record_observation(e.id, DeadlineReport(proc[p].at))
            /\ Become(p, rest)
            /\ UNCHANGED <<task, faults>>
  <2>1. LedgerInv' /\ LedgerStep({})
    <3>1. proc[p].at \in Nat
      BY <1>2, LocalFields
    <3> QED
      BY <1>2, <1>3, <1>12, <3>1, DeadlineReportTyped, ObservationKeepsInv DEF ExpireChild, Present
  <2>2. RemoteTypeOK' /\ TasksStay
    BY <1>12 DEF ExpireChild, IInv, RemoteTypeOK, TasksStay
  <2> QED
    BY <1>4, <1>6, <1>12, <2>1, <2>2, LocalOKStays, ProcessStep
<1> QED
  BY <1>1, <1>10, <1>11, <1>12 DEF rest, hand

\* The overdue child at hand still exists when it is failed.
LEMMA RecordExpiredStep ==
  ASSUME IInv, NEW p \in Processes, RecordExpired(p)
  PROVE  IInv' /\ LedgerStep({})
<1> DEFINE l == [proc[p] EXCEPT !.pc = "expiring", !.cur = NoAttempt]
<1>1. /\ proc[p] \in ProcessType /\ LocalOK(proc[p], child, task) /\ proc[p].pc = "expired"
      /\ LedgerInv
  BY DEF RecordExpired, At, IInv
<1>2. proc[p].cur \in Attempts /\ Present(proc[p].cur) /\ proc[p].at \in Nat
  BY <1>1, LocalFields DEF LocalOK, WithAttempt, Present
<1>3. LedgerInv' /\ LedgerStep({})
  BY <1>1, <1>2, DeadlineReportTyped, ObservationKeepsInv DEF RecordExpired
<1>4. l \in ProcessType
  <2>1. "expiring" \in PCs
    BY DEF PCs
  <2> QED
    BY <1>1, <2>1, LocalUpdate
<1>5. l.pc = "expiring" /\ l.todo = proc[p].todo /\ l.claims = proc[p].claims
  BY <1>1 DEF ProcessType
<1> HIDE DEF l
<1>6. LocalOK(l, child, task)
  BY <1>1, <1>5 DEF LocalOK, WithAttempt, WithHandle, ToRetry
<1>7. TasksStay /\ task' = task
  BY DEF RecordExpired, TasksStay
<1>8. LocalOK(l, child', task)
  BY <1>3, <1>4, <1>6, <1>7, LocalOKStays
<1> QED
  BY <1>3, <1>4, <1>8, TransactionStep DEF RecordExpired, l

\* An overdue execution is remembered by its revision.
LEMMA ListExpiredExecutionStep ==
  ASSUME IInv, NEW p \in Processes, ListExpiredExecution(p)
  PROVE  IInv' /\ LedgerStep({})
<1>1. proc[p] \in ProcessType /\ proc[p].todo = {} /\ LocalOK(proc[p], child, task)
  BY DEF ListExpiredExecution, IInv
<1> DEFINE snap == [proc[p].snap EXCEPT !.rev = execution.rev]
<1> DEFINE due == [proc[p] EXCEPT !.pc = "failing", !.at = 0, !.touched = TRUE, !.snap = snap]
<1> DEFINE else == [proc[p] EXCEPT !.pc = "list", !.at = 0]
<1>2. snap \in SnapType
  BY <1>1, LocalFields, ExecutionFields DEF SnapType, IInv, LedgerInv, LedgerTypeOK
<1>3. Become(p, due) \/ Become(p, else)
  BY <1>1 DEF ListExpiredExecution, ProcessType
<1>4. due \in ProcessType /\ else \in ProcessType
  <2>1. "failing" \in PCs /\ "list" \in PCs
    BY DEF PCs
  <2> HIDE DEF snap
  <2> QED
    BY <1>1, <1>2, <2>1, LocalUpdate
<1> HIDE DEF snap
<1>5. /\ due.pc = "failing" /\ due.todo = {} /\ due.claims = proc[p].claims
      /\ else.pc = "list" /\ else.todo = {} /\ else.claims = proc[p].claims
  BY <1>1 DEF ProcessType
<1> HIDE DEF due, else
<1>6. LocalOK(due, child, task) /\ LocalOK(else, child, task)
  BY <1>1, <1>5 DEF LocalOK, WithAttempt, WithHandle, ToRetry
<1> QED
  BY <1>3, <1>4, <1>6, LocalStep DEF ListExpiredExecution, IInv, RemoteTypeOK

\* Failing the execution disturbs no local state.
LEMMA FailExpiredExecutionStep ==
  ASSUME IInv, NEW p \in Processes, FailExpiredExecution(p)
  PROVE  IInv' /\ LedgerStep({})
<1> DEFINE l == [proc[p] EXCEPT !.pc = "list", !.snap = NoSnapshot]
<1>1. proc[p] \in ProcessType /\ LocalOK(proc[p], child, task)
  BY DEF IInv
<1>2. LedgerInv' /\ LedgerStep({})
  BY FailExecutionKeepsInv, StutterKeepsInv DEF FailExpiredExecution, IInv, LedgerInv, LedgerTypeOK
<1>3. l \in ProcessType
  <2>1. "list" \in PCs /\ NoSnapshot \in SnapType
    BY DEF PCs, NoSnapshot, SnapType
  <2> QED
    BY <1>1, <2>1, LocalUpdate
<1>4. l.pc = "list" /\ l.todo = proc[p].todo /\ l.claims = proc[p].claims
  BY <1>1 DEF ProcessType
<1> HIDE DEF l
<1>5. LocalOK(l, child, task)
  BY <1>1, <1>4 DEF LocalOK, WithAttempt, WithHandle, ToRetry
<1>6. TasksStay /\ task' = task
  BY DEF FailExpiredExecution, TasksStay
<1>7. LocalOK(l, child', task)
  BY <1>2, <1>3, <1>5, <1>6, LocalOKStays
<1> QED
  BY <1>2, <1>3, <1>7, TransactionStep DEF FailExpiredExecution, l

\* The children listed for a poll exist and have handles.
LEMMA ListReconcilableStep ==
  ASSUME IInv, NEW p \in Processes, ListReconcilable(p)
  PROVE  IInv' /\ LedgerStep({})
<1> DEFINE todo == {[id |-> a, flag |-> child[a].state = "canceling"] : a \in SelectedChildren}
<1> DEFINE l == [proc[p] EXCEPT !.pc = "poll", !.todo = todo]
<1>1. proc[p] \in ProcessType /\ LocalOK(proc[p], child, task)
  BY DEF IInv
<1>2. \A a \in SelectedChildren : a \in Attempts /\ child[a].state # "none" /\ child[a].task
  BY DEF SelectedChildren, Reconcilable, ActiveChildStates
<1>3. /\ todo \in SUBSET Items
      /\ \A e \in todo : child[e.id].state # "none" /\ child[e.id].task
  <2>1. \A x \in Attempts : \A b \in BOOLEAN : [id |-> x, flag |-> b] \in Items
    BY DEF Items
  <2>2. \A a \in SelectedChildren : (child[a].state = "canceling") \in BOOLEAN
    OBVIOUS
  <2>3. todo \in SUBSET Items
    BY <1>2, <2>1, <2>2, Zenon
  <2>4. ASSUME NEW e \in todo
        PROVE  child[e.id].state # "none" /\ child[e.id].task
    <3>1. PICK a \in SelectedChildren : e = [id |-> a, flag |-> child[a].state = "canceling"]
      BY Zenon
    <3>2. e.id = a
      BY <3>1
    <3> QED
      BY <1>2, <3>2
  <2> QED
    BY <2>3, <2>4
<1> HIDE DEF todo
<1>4. l \in ProcessType
  <2>1. "poll" \in PCs
    BY DEF PCs
  <2> QED
    BY <1>1, <1>3, <2>1, LocalUpdate
<1>5. l.pc = "poll" /\ l.todo = todo /\ l.claims = proc[p].claims
  BY <1>1 DEF ProcessType
<1>6. LocalOK(l, child, task)
  <2> HIDE DEF l
  <2> QED
    BY <1>1, <1>3, <1>5 DEF LocalOK, WithAttempt, WithHandle, ToRetry
<1> QED
  BY <1>4, <1>6, LocalStep DEF ListReconcilable, IInv, RemoteTypeOK, todo

\* One child less to poll; its observation is at hand until recorded.
LEMMA PollChildStep ==
  ASSUME IInv, NEW p \in Processes, PollChild(p)
  PROVE  IInv' /\ LedgerStep({})
<1>1. PICK e \in proc[p].todo :
        LET rest == [proc[p] EXCEPT !.todo = @ \ {e}, !.touched = TRUE]
        IN  \/ /\ \E t \in CancelOutcomes(e.id) :
                     /\ task' = [task EXCEPT ![e.id] = t]
                     /\ Become(p, [rest EXCEPT !.pc = "record", !.cur = e.id,
                                               !.obs = Report(t, CanceledState(t))])
               /\ UNCHANGED <<execution, plan, child, faults>>
            \/ /\ Become(p, [rest EXCEPT !.pc = "record", !.cur = e.id,
                                 !.obs = Report(task[e.id], PolledState(task[e.id]))])
               /\ UNCHANGED <<execution, plan, child, task, faults>>
            \/ /\ CancelFails(e.id) \/ PollFails
               /\ record_reconcile_error(e.id)
               /\ Become(p, rest)
  BY DEF PollChild
<1> DEFINE rest == [proc[p] EXCEPT !.todo = @ \ {e}, !.touched = TRUE]
<1> DEFINE hand(obs) == [rest EXCEPT !.pc = "record", !.cur = e.id, !.obs = obs]
<1>2. /\ proc[p] \in ProcessType /\ LocalOK(proc[p], child, task) /\ proc[p].pc = "poll"
      /\ now \in Nat /\ LedgerInv
  BY DEF PollChild, At, IInv, LedgerInv, LedgerTypeOK
<1>3. e.id \in Attempts /\ child[e.id].state # "none" /\ child[e.id].task
  BY <1>2, LocalFields DEF Items, LocalOK
<1>4. task[e.id] \in TaskType /\ task[e.id].state # "none"
  BY <1>3 DEF IInv, RemoteTypeOK, HandlesNameTasks
<1>5. rest \in ProcessType
  <2>1. proc[p].todo \ {e} \in SUBSET Items
    BY <1>2, LocalFields
  <2> QED
    BY <1>2, <2>1, LocalUpdate
<1>6. rest.pc = "poll" /\ rest.todo = proc[p].todo \ {e} /\ rest.claims = proc[p].claims
  BY <1>2 DEF ProcessType
<1> HIDE DEF rest
<1>7. LocalOK(rest, child, task)
  BY <1>2, <1>6 DEF LocalOK, WithAttempt, WithHandle, ToRetry
<1>8. ASSUME NEW obs \in Observations
      PROVE  hand(obs) \in ProcessType /\ LocalOK(hand(obs), child, task)
  <2>1. hand(obs) \in ProcessType
    <3>1. "record" \in PCs
      BY DEF PCs
    <3> QED
      BY <1>3, <1>5, <3>1, LocalUpdate
  <2>2. /\ hand(obs).pc = "record" /\ hand(obs).todo = rest.todo
        /\ hand(obs).claims = rest.claims /\ hand(obs).cur = e.id
    BY <1>5 DEF ProcessType
  <2> HIDE DEF hand
  <2> QED
    BY <1>3, <1>6, <1>7, <2>1, <2>2 DEF LocalOK, WithAttempt, WithHandle, ToRetry
<1> HIDE DEF hand
<1>9. CASE /\ \E t \in CancelOutcomes(e.id) :
                /\ task' = [task EXCEPT ![e.id] = t]
                /\ Become(p, hand(Report(t, CanceledState(t))))
           /\ UNCHANGED <<execution, plan, child, faults>>
  <2>1. PICK t \in CancelOutcomes(e.id) :
           task' = [task EXCEPT ![e.id] = t] /\ Become(p, hand(Report(t, CanceledState(t))))
    BY <1>9
  <2>2. t \in TaskType /\ t.state # "none"
    BY <1>3, CancelOutcomeTyped
  <2>3. Report(t, CanceledState(t)) \in Observations
    BY <1>2, <2>2, NormalizedTyped, ReportTyped
  <2>4. LedgerInv' /\ LedgerStep({})
    BY <1>2, <1>9, StutterKeepsInv DEF PollChild, ledger
  <2>5. RemoteTypeOK' /\ TasksStay
    BY <1>3, <1>9, <2>1, <2>2, TaskWrite DEF PollChild, IInv, RemoteTypeOK
  <2> QED
    BY <1>8, <2>1, <2>3, <2>4, <2>5, LocalOKStays, ProcessStep
<1>10. CASE /\ Become(p, hand(Report(task[e.id], PolledState(task[e.id]))))
            /\ UNCHANGED <<execution, plan, child, task, faults>>
  <2>1. Report(task[e.id], PolledState(task[e.id])) \in Observations
    BY <1>2, <1>4, NormalizedTyped, ReportTyped
  <2> QED
    BY <1>8, <1>10, <2>1, LocalStep DEF PollChild, IInv, RemoteTypeOK
<1>11. CASE /\ CancelFails(e.id) \/ PollFails
            /\ record_reconcile_error(e.id)
            /\ Become(p, rest)
  <2>1. LedgerInv' /\ LedgerStep({})
    BY <1>2, <1>3, <1>11, ReconcileErrorKeepsInv DEF PollChild, Present
  <2>2. RemoteTypeOK' /\ TasksStay
    <3>1. CASE CancelFails(e.id)
      BY <1>3, <3>1, CancelFailsTyped DEF PollChild, IInv, RemoteTypeOK
    <3>2. CASE PollFails
      BY <3>2, FaultCounts DEF PollChild, PollFails, IInv, RemoteTypeOK, TasksStay
    <3> QED
      BY <1>11, <3>1, <3>2
  <2> QED
    BY <1>5, <1>7, <1>11, <2>1, <2>2, LocalOKStays, ProcessStep
<1> QED
  BY <1>1, <1>9, <1>10, <1>11 DEF rest, hand

\* The polled child still exists and still has its handle when it is recorded.
LEMMA RecordPolledStep ==
  ASSUME IInv, NEW p \in Processes, RecordPolled(p)
  PROVE  IInv' /\ LedgerStep({})
<1> DEFINE l == [proc[p] EXCEPT !.pc = "poll", !.cur = NoAttempt, !.obs = NoObservation]
<1>1. /\ proc[p] \in ProcessType /\ LocalOK(proc[p], child, task) /\ proc[p].pc = "record"
      /\ LedgerInv
  BY DEF RecordPolled, At, IInv
<1>2. /\ proc[p].cur \in Attempts /\ Present(proc[p].cur) /\ child[proc[p].cur].task
      /\ proc[p].obs \in Observations
  BY <1>1, LocalFields DEF LocalOK, WithAttempt, WithHandle, Present
<1>3. LedgerInv' /\ LedgerStep({})
  BY <1>1, <1>2, ObservationKeepsInv DEF RecordPolled
<1>4. l \in ProcessType
  <2>1. "poll" \in PCs /\ NoObservation \in Observations
    BY IdleTyped, LocalFields DEF PCs, Idle
  <2> QED
    BY <1>1, <2>1, LocalUpdate
<1>5. l.pc = "poll" /\ l.todo = proc[p].todo /\ l.claims = proc[p].claims
  BY <1>1 DEF ProcessType
<1> HIDE DEF l
<1>6. LocalOK(l, child, task)
  BY <1>1, <1>5 DEF LocalOK, WithAttempt, WithHandle, ToRetry
<1>7. TasksStay /\ task' = task
  BY DEF RecordPolled, TasksStay
<1>8. LocalOK(l, child', task)
  BY <1>3, <1>4, <1>6, <1>7, LocalOKStays
<1> QED
  BY <1>3, <1>4, <1>8, TransactionStep DEF RecordPolled, l

--------------------------------------------------------------------------------
(* project the join                                                        *)

\* The snapshot of the execution is typed.
LEMMA ReadExecutionStep ==
  ASSUME IInv, NEW p \in Processes, ReadExecution(p)
  PROVE  IInv' /\ LedgerStep({})
<1> DEFINE joined == past_children_join(execution.reason)
<1> DEFINE snap == [rev |-> execution.rev, blockers |-> execution.blockers,
                    cancel |-> execution.cancel, joined |-> joined]
<1> DEFINE l == [Idle EXCEPT !.pc = "children", !.snap = snap]
<1>1. Become(p, AfterReconcile(p)) \/ Become(p, l)
  BY DEF ReadExecution
<1>2. joined \in BOOLEAN
  BY DEF past_children_join
<1> HIDE DEF joined
<1>3. snap \in SnapType
  <2>1. execution.rev \in Nat /\ execution.blockers \in Nat /\ execution.cancel \in BOOLEAN
    BY ExecutionFields DEF IInv, LedgerInv, LedgerTypeOK
  <2> QED
    BY <1>2, <2>1 DEF SnapType
<1> HIDE DEF snap
<1>4. l \in ProcessType
  <2>1. "children" \in PCs
    BY DEF PCs
  <2> QED
    BY <1>3, <2>1, IdleTyped, LocalUpdate
<1>5. l.pc = "children" /\ l.todo = {} /\ l.claims = {}
  BY DEF Idle
<1> HIDE DEF l
<1>6. LocalOK(l, child, task)
  BY <1>5 DEF LocalOK, WithAttempt, WithHandle, ToRetry
<1> QED
  BY <1>1, <1>4, <1>6, IdleTyped, IdleOK, LocalStep DEF ReadExecution, IInv, RemoteTypeOK

\* A process about to write a projection has it typed.
LEMMA TargetTyped ==
  ASSUME NEW p \in Processes, proc[p] \in ProcessType, NEW rows, NEW tasks,
         LocalOK(proc[p], rows, tasks), NEW t \in TargetType
  PROVE  LET l == [proc[p] EXCEPT !.pc = "update", !.target = t]
         IN  l \in ProcessType /\ LocalOK(l, rows, tasks)
<1> DEFINE l == [proc[p] EXCEPT !.pc = "update", !.target = t]
<1>1. l \in ProcessType
  <2>1. "update" \in PCs
    BY DEF PCs
  <2> QED
    BY <2>1, LocalUpdate
<1>2. l.pc = "update" /\ l.todo = proc[p].todo /\ l.claims = proc[p].claims
  BY DEF ProcessType
<1> HIDE DEF l
<1>3. LocalOK(l, rows, tasks)
  BY <1>2 DEF LocalOK, WithAttempt, WithHandle, ToRetry
<1> QED
  BY <1>1, <1>3 DEF l

\* The view a projection carries is of a reserved generation.
LEMMA ReadChildrenStep ==
  ASSUME IInv, NEW p \in Processes, ReadChildren(p)
  PROVE  IInv' /\ LedgerStep({})
<1> DEFINE g == execution.gen
<1> DEFINE done == {a \in CurrentAttempts(g) : child[a].state = "completed"}
<1> DEFINE bad == {a \in CurrentAttempts(g) : child[a].state \in {"blocked", "failed"}}
<1> DEFINE view == [gen |-> g, done |-> done, bad |-> bad]
<1> DEFINE l == [proc[p] EXCEPT !.pc = "join", !.view = view]
<1> DEFINE upd == [proc[p] EXCEPT !.pc = "update", !.target = Canceled]
<1>1. proc[p] \in ProcessType /\ LocalOK(proc[p], child, task)
  BY DEF IInv
<1>2. \/ g # 0 /\ Become(p, l)
      \/ Become(p, upd)
      \/ Become(p, AfterReconcile(p))
  BY DEF ReadChildren
<1>3. g \in 0..MaxGeneration
  BY ExecutionFields DEF IInv, LedgerInv, LedgerTypeOK
<1>4. done \in SUBSET Attempts /\ bad \in SUBSET Attempts
  BY DEF CurrentAttempts
<1> HIDE DEF g, done, bad
<1>5. view \in ViewType /\ view.gen = g
  BY <1>3, <1>4 DEF ViewType
<1> HIDE DEF view
<1>6. CASE g # 0 /\ Become(p, l)
  <2>1. l \in ProcessType
    <3>1. "join" \in PCs
      BY DEF PCs
    <3> QED
      BY <1>1, <1>5, <3>1, LocalUpdate
  <2>2. /\ l.pc = "join" /\ l.todo = proc[p].todo /\ l.claims = proc[p].claims
        /\ l.view = view
    BY <1>1 DEF ProcessType
  <2>3. view.gen \in Generations
    BY <1>3, <1>5, <1>6, LedgerAssumption DEF Generations
  <2>4. LocalOK(l, child, task)
    <3> HIDE DEF l
    <3> QED
      BY <1>1, <2>2, <2>3 DEF LocalOK, WithAttempt, WithHandle, ToRetry
  <2> QED
    BY <1>6, <2>1, <2>4, LocalStep DEF ReadChildren, IInv, RemoteTypeOK
<1>7. CASE Become(p, upd)
  <2>1. Canceled \in TargetType
    BY DEF Canceled, TargetType, ExecutionStates, StatusReasons
  <2>2. upd \in ProcessType /\ LocalOK(upd, child, task)
    BY <1>1, <2>1, TargetTyped
  <2> QED
    BY <1>7, <2>2, LocalStep DEF ReadChildren, IInv, RemoteTypeOK
<1>8. CASE Become(p, AfterReconcile(p))
  BY <1>8, IdleTyped, IdleOK, LocalStep DEF ReadChildren, IInv, RemoteTypeOK
<1> QED
  BY <1>2, <1>6, <1>7, <1>8

\* Whatever the join says, the projection is typed.
LEMMA ReadJoinStep ==
  ASSUME IInv, NEW p \in Processes, ReadJoin(p)
  PROVE  IInv' /\ LedgerStep({})
<1> DEFINE settled(t) == [proc[p] EXCEPT !.pc = "update", !.target = t]
<1>1. proc[p] \in ProcessType /\ LocalOK(proc[p], child, task) /\ proc[p].pc = "join"
  BY DEF ReadJoin, At, IInv
<1>2. \/ \E t \in TargetType : Become(p, settled(t))
      \/ Become(p, Goto(p, "resume"))
      \/ Become(p, AfterReconcile(p))
  <2>1. \A s \in ExecutionStates, r \in StatusReasons : [state |-> s, reason |-> r] \in TargetType
    BY DEF TargetType
  <2>2. /\ {"canceled", "blocked", "waiting"} \subseteq ExecutionStates
        /\ {"canceled", "child_failed", "child_blocked", "awaiting_children"} \subseteq StatusReasons
    BY DEF ExecutionStates, StatusReasons
  <2>3. /\ [state |-> "canceled", reason |-> "canceled"] \in TargetType
        /\ [state |-> "blocked", reason |-> "child_failed"] \in TargetType
        /\ [state |-> "blocked", reason |-> "child_blocked"] \in TargetType
        /\ [state |-> "waiting", reason |-> "awaiting_children"] \in TargetType
    BY <2>1, <2>2
  <2> QED
    BY <2>3 DEF ReadJoin
<1>3. CASE \E t \in TargetType : Become(p, settled(t))
  <2>1. PICK t \in TargetType : Become(p, settled(t))
    BY <1>3
  <2>2. settled(t) \in ProcessType /\ LocalOK(settled(t), child, task)
    BY <1>1, TargetTyped
  <2> QED
    BY <2>1, <2>2, LocalStep DEF ReadJoin, IInv, RemoteTypeOK
<1>4. CASE Become(p, Goto(p, "resume"))
  <2> DEFINE l == Goto(p, "resume")
  <2>1. l \in ProcessType
    BY <1>1, LocalUpdate DEF Goto, PCs
  <2>2. /\ l.pc = "resume" /\ l.todo = proc[p].todo /\ l.claims = proc[p].claims
        /\ l.view = proc[p].view
    BY <1>1 DEF Goto, ProcessType
  <2> HIDE DEF l
  <2>3. LocalOK(l, child, task)
    BY <1>1, <2>2 DEF LocalOK, WithAttempt, WithHandle, ToRetry
  <2> QED
    BY <1>4, <2>1, <2>3, LocalStep DEF ReadJoin, IInv, RemoteTypeOK, l
<1>5. CASE Become(p, AfterReconcile(p))
  BY <1>5, IdleTyped, IdleOK, LocalStep DEF ReadJoin, IInv, RemoteTypeOK
<1> QED
  BY <1>2, <1>3, <1>4, <1>5

\* Steps that write to the parent session alone.
LEMMA ParentStep ==
  ASSUME IInv, UNCHANGED <<execution, plan, child, now, task, message>>, faults' \in Nat,
         parent' \in ParentType, NEW p \in Processes, NEW l \in ProcessType,
         Become(p, l),
         LocalOK(l, child, task)
  PROVE  IInv' /\ LedgerStep({})
<1>1. LedgerInv' /\ LedgerStep({})
  BY StutterKeepsInv DEF IInv, ledger, LedgerInv, LedgerTypeOK
<1>2. RemoteTypeOK' /\ TasksStay
  BY DEF IInv, RemoteTypeOK, TasksStay
<1> QED
  BY <1>1, <1>2, ProcessStep

\* The continuation names a reserved generation and its attempts.
LEMMA ResumeParentStep ==
  ASSUME IInv, NEW p \in Processes, ResumeParent(p)
  PROVE  IInv' /\ LedgerStep({})
<1> DEFINE t == [state |-> "running", reason |-> "children_contract_valid"]
<1> DEFINE l == [proc[p] EXCEPT !.pc = "update", !.target = t]
<1>1. proc[p] \in ProcessType /\ LocalOK(proc[p], child, task) /\ proc[p].pc = "resume"
  BY DEF ResumeParent, At, IInv
<1>2. Resumed(p) \in ParentType /\ parent \in ParentType
  <2>1. parent \in ParentType
    BY DEF IInv, RemoteTypeOK
  <2> DEFINE joined == parent.joined \cup {proc[p].view.gen}
  <2> DEFINE hollow == parent.hollow \cup (CurrentAttempts(proc[p].view.gen) \ proc[p].view.done)
  <2>2. joined \in SUBSET Generations /\ hollow \in SUBSET Attempts
    BY <1>1, <2>1 DEF LocalOK, ParentType, CurrentAttempts
  <2>3. \A x \in ParentType, j \in SUBSET Generations : [x EXCEPT !.joined = j] \in ParentType
    BY DEF ParentType
  <2>4. \A x \in ParentType, h \in SUBSET Attempts : [x EXCEPT !.hollow = h] \in ParentType
    BY DEF ParentType
  <2>5. [parent EXCEPT !.joined = joined, !.hollow = hollow] \in ParentType
    <3> HIDE DEF joined, hollow
    <3> QED
      BY <2>1, <2>2, <2>3, <2>4
  <2> QED
    BY <2>1, <2>5 DEF Resumed
<1>3. parent' \in ParentType /\ faults' \in Nat
  BY <1>2, FaultCounts DEF ResumeParent
<1>4. Become(p, l) \/ Become(p, AfterReconcile(p))
  BY DEF ResumeParent
<1>5. t \in TargetType
  BY DEF TargetType, ExecutionStates, StatusReasons
<1> HIDE DEF t
<1>6. l \in ProcessType /\ LocalOK(l, child, task)
  BY <1>1, <1>5, TargetTyped
<1> QED
  BY <1>3, <1>4, <1>6, IdleTyped, IdleOK, ParentStep DEF ResumeParent

\* A projection, accepted or refused, disturbs no local state.
LEMMA UpdateStateStep ==
  ASSUME IInv, NEW p \in Processes, UpdateState(p)
  PROVE  IInv' /\ LedgerStep({})
<1>1. proc[p] \in ProcessType /\ LocalOK(proc[p], child, task)
  BY DEF IInv
<1>2. LedgerInv' /\ LedgerStep({})
  <2>1. proc[p].target.state \in ExecutionStates /\ proc[p].target.reason \in StatusReasons
    BY <1>1, LocalFields
  <2> QED
    BY <2>1, UpdateKeepsInv, StutterKeepsInv DEF UpdateState, IInv, LedgerInv, LedgerTypeOK
<1>3. TasksStay /\ task' = task
  BY DEF UpdateState, TasksStay
<1>4. LocalOK(proc[p], child', task)
  BY <1>1, <1>2, <1>3, LocalOKStays
<1>5. Goto(p, "notify") \in ProcessType /\ LocalOK(Goto(p, "notify"), child', task)
  BY <1>1, <1>4, GotoTyped DEF PCs, WithAttempt
<1>6. Become(p, Goto(p, "notify")) \/ Become(p, AfterReconcile(p))
  BY DEF UpdateState
<1> QED
  BY <1>2, <1>5, <1>6, IdleTyped, IdleOK, TransactionStep DEF UpdateState

\* Reading the blockers again leaves the projection at hand.
LEMMA ReadBlockersStep ==
  ASSUME IInv, NEW p \in Processes, ReadBlockers(p)
  PROVE  IInv' /\ LedgerStep({})
<1>1. proc[p] \in ProcessType /\ LocalOK(proc[p], child, task)
  BY DEF IInv
<1>2. Become(p, Goto(p, "send")) \/ Become(p, AfterReconcile(p))
  BY DEF ReadBlockers
<1>3. Goto(p, "send") \in ProcessType /\ LocalOK(Goto(p, "send"), child, task)
  BY <1>1, GotoTyped DEF PCs, WithAttempt
<1> QED
  BY <1>2, <1>3, IdleTyped, IdleOK, LocalStep DEF ReadBlockers, IInv, RemoteTypeOK

\* A notice is typed.
LEMMA NotifyParentStep ==
  ASSUME IInv, NEW p \in Processes, NotifyParent(p)
  PROVE  IInv' /\ LedgerStep({})
<1>1. proc[p] \in ProcessType /\ LocalOK(proc[p], child, task)
  BY DEF IInv
<1>2. Notified(p) \in ParentType /\ parent \in ParentType
  <2>1. parent \in ParentType
    BY DEF IInv, RemoteTypeOK
  <2> DEFINE n == [gen |-> proc[p].view.gen, rev |-> proc[p].snap.blockers,
                   kids |-> proc[p].view.bad]
  <2>2. n \in [gen : 0..MaxGeneration, rev : Nat, kids : SUBSET Attempts]
    BY <1>1, LocalFields
  <2> HIDE DEF n
  <2>3. [parent EXCEPT !.notices = @ \cup {n}] \in ParentType
    BY <2>1, <2>2 DEF ParentType
  <2> QED
    BY <2>1, <2>3 DEF Notified, n
<1>3. parent' \in ParentType /\ faults' \in Nat
  BY <1>2, FaultCounts DEF NotifyParent
<1>4. Become(p, Goto(p, "notified")) \/ Become(p, AfterReconcile(p))
  BY DEF NotifyParent
<1>5. Goto(p, "notified") \in ProcessType /\ LocalOK(Goto(p, "notified"), child, task)
  BY <1>1, GotoTyped DEF PCs, WithAttempt
<1> QED
  BY <1>3, <1>4, <1>5, IdleTyped, IdleOK, ParentStep DEF NotifyParent

\* Marking the notice disturbs no local state.
LEMMA MarkNotifiedStep ==
  ASSUME IInv, NEW p \in Processes, MarkNotified(p)
  PROVE  IInv' /\ LedgerStep({})
<1>1. LedgerInv' /\ LedgerStep({})
  <2>1. proc[p].snap.blockers \in Nat
    BY LocalFields DEF IInv
  <2> QED
    BY <2>1, MarkNotificationKeepsInv DEF MarkNotified, IInv
<1> QED
  BY <1>1, IdleTyped, IdleOK, TransactionStep DEF MarkNotified

--------------------------------------------------------------------------------
(* retry                                                                   *)

\* The attempt to retry exists and is not the last one allowed.
LEMMA BeginRetryStep ==
  ASSUME IInv, NEW p \in Processes, BeginRetry(p)
  PROVE  IInv' /\ LedgerStep({})
<1>1. PICK a \in Attempts :
         /\ Retryable(a)
         /\ child[a].state = "blocked" => child[a].task
         /\ Become(p, [Idle EXCEPT !.cur = a,
                         !.pc = IF child[a].state = "blocked" THEN "retryPoll" ELSE "retryCreate"])
  BY DEF BeginRetry
<1> DEFINE pc == IF child[a].state = "blocked" THEN "retryPoll" ELSE "retryCreate"
<1> DEFINE l == [Idle EXCEPT !.cur = a, !.pc = pc]
<1>2. pc \in PCs /\ pc \in ToRetry /\ (pc = "retryPoll" => child[a].task) /\ pc # "retryCancel"
  BY <1>1 DEF PCs, ToRetry
<1>3. child[a].state # "none" /\ a.attempt < MaxAttempts
  BY <1>1 DEF Retryable, Latest, Present
<1> HIDE DEF pc
<1>4. l \in ProcessType
  BY <1>2, IdleTyped, LocalUpdate
<1>5. l.pc = pc /\ l.cur = a /\ l.todo = {} /\ l.claims = {}
  BY DEF Idle
<1> HIDE DEF l
<1>6. LocalOK(l, child, task)
  BY <1>2, <1>3, <1>5 DEF LocalOK, WithHandle, ToRetry
<1> QED
  BY <1>1, <1>4, <1>6, LocalStep DEF BeginRetry, IInv, RemoteTypeOK, l, pc

\* A process that goes on with a retry keeps its attempt at hand.
LEMMA RetryGoesOn ==
  ASSUME NEW p \in Processes, proc[p] \in ProcessType, NEW rows, NEW tasks,
         LocalOK(proc[p], rows, tasks), proc[p].pc \in {"retryPoll", "retryCancel"},
         NEW pc \in {"retryCancel", "retryCreate"}
  PROVE  Goto(p, pc) \in ProcessType /\ LocalOK(Goto(p, pc), rows, tasks)
<1>1. Goto(p, pc) \in ProcessType
  BY LocalUpdate DEF Goto, PCs
<1>2. /\ Goto(p, pc).pc = pc /\ Goto(p, pc).cur = proc[p].cur
      /\ Goto(p, pc).claims = proc[p].claims /\ Goto(p, pc).todo = proc[p].todo
  BY DEF Goto, ProcessType
<1> QED
  BY <1>1, <1>2 DEF LocalOK, WithAttempt, WithHandle, ToRetry

\* It is still at hand after its task was polled.
LEMMA PollBeforeRetryStep ==
  ASSUME IInv, NEW p \in Processes, PollBeforeRetry(p)
  PROVE  IInv' /\ LedgerStep({})
<1>1. proc[p] \in ProcessType /\ LocalOK(proc[p], child, task) /\ proc[p].pc = "retryPoll"
  BY DEF PollBeforeRetry, At, IInv
<1>2. \/ Become(p, Idle)
      \/ \E pc \in {"retryCancel", "retryCreate"} : Become(p, Goto(p, pc))
  BY DEF PollBeforeRetry
<1>3. faults' \in Nat
  BY FaultCounts DEF PollBeforeRetry
<1> QED
  BY <1>1, <1>2, <1>3, RetryGoesOn, IdleTyped, IdleOK, LocalStep DEF PollBeforeRetry

\* It is still at hand after its task was asked to stop.
LEMMA CancelBeforeRetryStep ==
  ASSUME IInv, NEW p \in Processes, CancelBeforeRetry(p)
  PROVE  IInv' /\ LedgerStep({})
<1> DEFINE a == proc[p].cur
           answer(t) == Report(t, NormalizedState(t))
           hand(obs) == [proc[p] EXCEPT !.pc = "answered", !.obs = obs]
<1>1. /\ proc[p] \in ProcessType /\ LocalOK(proc[p], child, task) /\ proc[p].pc = "retryCancel"
      /\ now \in Nat
  BY DEF CancelBeforeRetry, At, IInv, LedgerInv, LedgerTypeOK
<1>2. a \in Attempts /\ child[a].task
  BY <1>1 DEF LocalOK, WithAttempt, WithHandle
<1>3. /\ UNCHANGED <<execution, plan, child, now, parent, message>>
      /\ \/ /\ \E t \in CancelOutcomes(a) :
               /\ task' = [task EXCEPT ![a] = t]
               /\ Become(p, Goto(p, "retryCreate")) \/ Become(p, hand(answer(t)))
            /\ faults' = faults
         \/ CancelFails(a) /\ Become(p, Idle)
  BY DEF CancelBeforeRetry
<1>4. ASSUME NEW t \in TaskType, t.state # "none"
      PROVE  hand(answer(t)) \in ProcessType /\ LocalOK(hand(answer(t)), child, task)
  <2>1. answer(t) \in Observations
    BY <1>1, <1>4, NormalizedTyped, ReportTyped
  <2> DEFINE l == hand(answer(t))
  <2> HIDE DEF answer
  <2>2. l \in ProcessType
    <3>1. "answered" \in PCs
      BY DEF PCs
    <3> QED
      BY <1>1, <2>1, <3>1, LocalUpdate
  <2>3. /\ l.pc = "answered" /\ l.cur = a
        /\ l.todo = proc[p].todo /\ l.claims = proc[p].claims
    BY <1>1 DEF ProcessType
  <2> HIDE DEF l
  <2>4. LocalOK(l, child, task)
    BY <1>1, <1>2, <2>3 DEF LocalOK, WithAttempt, WithHandle, ToRetry
  <2> QED
    BY <2>2, <2>4 DEF l
<1> HIDE DEF hand, answer
<1>5. LedgerInv' /\ LedgerStep({})
  BY <1>3, StutterKeepsInv DEF IInv, ledger, LedgerInv, LedgerTypeOK
<1>6. RemoteTypeOK' /\ TasksStay
  <2>1. CASE CancelFails(a)
    BY <1>2, <1>3, <2>1, CancelFailsTyped DEF IInv, RemoteTypeOK
  <2>2. CASE faults' = faults /\ \E t \in CancelOutcomes(a) : task' = [task EXCEPT ![a] = t]
    BY <1>2, <1>3, <2>2, CancelOutcomeWritten DEF IInv, RemoteTypeOK
  <2> QED
    BY <1>3, <2>1, <2>2
<1>7. CASE CancelFails(a) /\ Become(p, Idle)
  BY <1>5, <1>6, <1>7, IdleTyped, IdleOK, ProcessStep
<1>8. CASE \E t \in CancelOutcomes(a) :
             Become(p, Goto(p, "retryCreate")) \/ Become(p, hand(answer(t)))
  <2>1. PICK t \in CancelOutcomes(a) :
               Become(p, Goto(p, "retryCreate")) \/ Become(p, hand(answer(t)))
    BY <1>8
  <2>2. t \in TaskType /\ t.state # "none"
    BY <1>2, <2>1, CancelOutcomeTyped
  <2>3. Goto(p, "retryCreate") \in ProcessType /\ LocalOK(Goto(p, "retryCreate"), child, task)
    BY <1>1, RetryGoesOn
  <2> QED
    BY <1>4, <1>5, <1>6, <2>1, <2>2, <2>3, LocalOKStays, ProcessStep
<1> QED
  BY <1>3, <1>7, <1>8

\* The attempt at hand has a next one, so the retry adds its row.
LEMMA CreateRetryStep ==
  ASSUME IInv, NEW p \in Processes, CreateRetry(p)
  PROVE  IInv' /\ LedgerStep({})
<1>1. proc[p].cur \in Attempts /\ proc[p].cur.attempt < MaxAttempts
  BY DEF CreateRetry, At, IInv, LocalOK, WithAttempt, ToRetry
<1>2. LedgerInv' /\ LedgerStep({})
  <2>1. CASE create_retry(proc[p].cur)
    BY <1>1, <2>1, CreateRetryKeepsInv DEF CreateRetry, IInv
  <2>2. CASE UNCHANGED ledger
    BY <2>2, StutterKeepsInv DEF CreateRetry, IInv, LedgerInv, LedgerTypeOK
  <2> QED
    BY <2>1, <2>2 DEF CreateRetry
<1>3. Become(p, [Idle EXCEPT !.pc = "claim"]) \/ Become(p, Idle)
  BY DEF CreateRetry
<1> QED
  BY <1>2, <1>3, IdleTyped, IdleOK, TransactionStep DEF CreateRetry

--------------------------------------------------------------------------------
(* message                                                                 *)

\* A reply is prepared for a child that has a handle.
LEMMA ReserveMessageStep ==
  ASSUME IInv, NEW p \in Processes, ReserveMessage(p)
  PROVE  IInv' /\ LedgerStep({})
<1>1. PICK m \in MessageIds, a \in CurrentAttempts(execution.gen), q \in 1..MaxQuestions :
        /\ message' = [message EXCEPT ![m] = [state |-> "reserved", to |-> a, ask |-> q]]
        /\ Become(p, IF child[a].state = "blocked" /\ child[a].task /\ child[a].ask = q
                     THEN [Idle EXCEPT !.pc = "reply", !.cur = a, !.msg = m]
                     ELSE Idle)
  BY DEF ReserveMessage
<1>2. a \in Attempts /\ child[a].state # "none"
  BY DEF CurrentAttempts, Latest, Present
<1>3. LedgerInv' /\ LedgerStep({})
  BY StutterKeepsInv DEF ReserveMessage, IInv, ledger, LedgerInv, LedgerTypeOK
<1>4. [state |-> "reserved", to |-> a, ask |-> q] \in MessageType
  BY <1>2, LedgerAssumption DEF MessageType
<1>5. RemoteTypeOK' /\ TasksStay
  BY <1>1, <1>4 DEF ReserveMessage, IInv, RemoteTypeOK, TasksStay
<1> DEFINE l == [Idle EXCEPT !.pc = "reply", !.cur = a, !.msg = m]
<1>6. CASE Become(p, Idle)
  BY <1>3, <1>5, <1>6, IdleTyped, IdleOK, ProcessStep
<1>7. CASE child[a].task /\ Become(p, l)
  <2>1. l \in ProcessType
    <3>1. "reply" \in PCs
      BY DEF PCs
    <3> QED
      BY <1>2, <3>1, IdleTyped, LocalUpdate
  <2>2. l.pc = "reply" /\ l.cur = a /\ l.todo = {} /\ l.claims = {}
    BY DEF Idle
  <2>3. child' = child /\ task' = task
    BY DEF ReserveMessage
  <2> HIDE DEF l
  <2>4. LocalOK(l, child', task')
    BY <1>2, <1>7, <2>2, <2>3 DEF LocalOK, WithAttempt, WithHandle, ToRetry
  <2> QED
    BY <1>3, <1>5, <1>7, <2>1, <2>4, ProcessStep
<1> QED
  BY <1>1, <1>6, <1>7

\* A task that is woken, and what it may do at once.
LEMMA SuccessorsTyped ==
  ASSUME NEW t \in TaskType, NEW u \in Successors(t)
  PROVE  u \in TaskType /\ u.state # "none"
<1>1. CASE u \in {[t EXCEPT !.state = s] : s \in {"accepted", "refused", "failed"}}
  BY <1>1 DEF TaskType, TaskStates
<1>2. CASE t.ask < MaxQuestions /\ u = [state |-> "input", ask |-> t.ask + 1]
  BY <1>2, LedgerAssumption DEF TaskType, TaskStates
<1> QED
  BY <1>1, <1>2 DEF Successors

\* What the replied task reports is an observation of the child at hand.
LEMMA ReplyChildStep ==
  ASSUME IInv, NEW p \in Processes, ReplyChild(p)
  PROVE  IInv' /\ LedgerStep({})
<1> DEFINE a == proc[p].cur
<1> DEFINE woken == [task[a] EXCEPT !.state = "working"]
<1> DEFINE hand(obs) == [proc[p] EXCEPT !.pc = "replied", !.obs = obs]
<1> DEFINE answer(t) == Report(t, NormalizedState(t))
<1>1. /\ proc[p] \in ProcessType /\ LocalOK(proc[p], child, task) /\ proc[p].pc = "reply"
      /\ now \in Nat
  BY DEF ReplyChild, At, IInv, LedgerInv, LedgerTypeOK
<1>2. a \in Attempts /\ child[a].task /\ task[a] \in TaskType /\ task[a].state # "none"
  BY <1>1 DEF LocalOK, WithAttempt, WithHandle, IInv, HandlesNameTasks, RemoteTypeOK
<1>3. woken \in TaskType /\ woken.state # "none"
  BY <1>2 DEF TaskType, TaskStates
<1>4. \/ \E t \in {woken} \cup Successors(woken) :
            /\ task' = [task EXCEPT ![a] = t]
            /\ Become(p, hand(answer(t)))
            /\ faults' = faults
      \/ /\ Become(p, Idle) \/ Become(p, hand(answer(task[a])))
         /\ UNCHANGED <<task, faults>>
      \/ /\ Fault
         /\ task' \in {task, [task EXCEPT ![a] = woken]}
         /\ Become(p, Idle)
  BY DEF ReplyChild
<1>5. UNCHANGED <<execution, plan, child, now, parent, message>>
  BY DEF ReplyChild
<1>6. ASSUME NEW t \in TaskType, t.state # "none"
      PROVE  hand(answer(t)) \in ProcessType /\ LocalOK(hand(answer(t)), child, task)
  <2>1. answer(t) \in Observations
    BY <1>1, <1>6, NormalizedTyped, ReportTyped
  <2> DEFINE l == hand(answer(t))
  <2> HIDE DEF answer
  <2>2. l \in ProcessType
    <3>1. "replied" \in PCs
      BY DEF PCs
    <3> QED
      BY <1>1, <2>1, <3>1, LocalUpdate
  <2>3. /\ l.pc = "replied" /\ l.cur = a
        /\ l.todo = proc[p].todo /\ l.claims = proc[p].claims
    BY <1>1 DEF ProcessType
  <2> HIDE DEF l
  <2>4. LocalOK(l, child, task)
    BY <1>1, <1>2, <2>3 DEF LocalOK, WithAttempt, WithHandle, ToRetry
  <2> QED
    BY <2>2, <2>4 DEF l
<1> HIDE DEF hand, answer, woken
<1>7. LedgerInv' /\ LedgerStep({})
  BY <1>5, StutterKeepsInv DEF IInv, ledger, LedgerInv, LedgerTypeOK
<1>8. ASSUME NEW t \in TaskType, t.state # "none", task' = [task EXCEPT ![a] = t], faults' \in Nat
      PROVE  RemoteTypeOK' /\ TasksStay
  BY <1>2, <1>5, <1>8, TaskWrite DEF IInv, RemoteTypeOK
<1>9. CASE \E t \in {woken} \cup Successors(woken) :
            /\ task' = [task EXCEPT ![a] = t]
            /\ Become(p, hand(answer(t)))
            /\ faults' = faults
  <2>1. PICK t \in {woken} \cup Successors(woken) :
            /\ task' = [task EXCEPT ![a] = t]
            /\ Become(p, hand(answer(t)))
            /\ faults' = faults
    BY <1>9
  <2>2. t \in TaskType /\ t.state # "none"
    BY <1>3, SuccessorsTyped
  <2>3. RemoteTypeOK' /\ TasksStay
    BY <1>8, <2>1, <2>2 DEF IInv, RemoteTypeOK
  <2> QED
    BY <1>6, <1>7, <2>1, <2>2, <2>3, LocalOKStays, ProcessStep
<1>10. CASE /\ Become(p, Idle) \/ Become(p, hand(answer(task[a])))
            /\ UNCHANGED <<task, faults>>
  BY <1>2, <1>5, <1>6, <1>10, IdleTyped, IdleOK, LocalStep DEF IInv, RemoteTypeOK
<1>11. CASE /\ Fault
            /\ task' \in {task, [task EXCEPT ![a] = woken]}
            /\ Become(p, Idle)
  <2>1. RemoteTypeOK' /\ TasksStay
    <3>1. faults' \in Nat
      BY <1>11, FaultCounts
    <3>2. CASE task' = task
      BY <1>5, <3>1, <3>2 DEF IInv, RemoteTypeOK, TasksStay
    <3>3. CASE task' = [task EXCEPT ![a] = woken]
      BY <1>3, <1>8, <3>1, <3>3
    <3> QED
      BY <1>11, <3>2, <3>3
  <2> QED
    BY <1>7, <1>11, <2>1, IdleTyped, IdleOK, ProcessStep
<1> QED
  BY <1>4, <1>9, <1>10, <1>11

\* Marking the message keeps the child and its observation at hand.
LEMMA MarkMessageDeliveredStep ==
  ASSUME IInv, NEW p \in Processes, MarkMessageDelivered(p)
  PROVE  IInv' /\ LedgerStep({})
<1> DEFINE l == [proc[p] EXCEPT !.pc = "answered", !.msg = 0]
<1>1. proc[p] \in ProcessType /\ LocalOK(proc[p], child, task) /\ proc[p].pc = "replied"
  BY DEF MarkMessageDelivered, At, IInv
<1>2. LedgerInv' /\ LedgerStep({})
  BY StutterKeepsInv DEF MarkMessageDelivered, IInv, ledger, LedgerInv, LedgerTypeOK
<1>3. message' \in [MessageIds -> MessageType]
  <2>1. message \in [MessageIds -> MessageType]
    BY DEF IInv, RemoteTypeOK
  <2>2. \A x \in MessageType : [x EXCEPT !.state = "delivered"] \in MessageType
    BY DEF MessageType
  <2> QED
    BY <2>1, <2>2 DEF MarkMessageDelivered
<1>4. RemoteTypeOK' /\ TasksStay
  BY <1>3 DEF MarkMessageDelivered, IInv, RemoteTypeOK, TasksStay
<1>5. l \in ProcessType
  <2>1. "answered" \in PCs
    BY DEF PCs
  <2> QED
    BY <1>1, <2>1, LocalUpdate
<1>6. /\ l.pc = "answered" /\ l.cur = proc[p].cur
      /\ l.todo = proc[p].todo /\ l.claims = proc[p].claims
  BY <1>1 DEF ProcessType
<1> HIDE DEF l
<1>7. LocalOK(l, child, task)
  BY <1>1, <1>6 DEF LocalOK, WithAttempt, WithHandle, ToRetry
<1>8. LocalOK(l, child', task')
  BY <1>2, <1>4, <1>5, <1>7, LocalOKStays
<1> QED
  BY <1>2, <1>4, <1>5, <1>8, ProcessStep DEF MarkMessageDelivered, l

\* The child that answered still exists and still has its handle.
LEMMA RecordAnswerStep ==
  ASSUME IInv, NEW p \in Processes, RecordAnswer(p)
  PROVE  IInv' /\ LedgerStep({})
<1>1. /\ proc[p] \in ProcessType /\ LocalOK(proc[p], child, task) /\ proc[p].pc = "answered"
      /\ LedgerInv
  BY DEF RecordAnswer, At, IInv
<1>2. /\ proc[p].cur \in Attempts /\ Present(proc[p].cur) /\ child[proc[p].cur].task
      /\ proc[p].obs \in Observations
  BY <1>1, LocalFields DEF LocalOK, WithAttempt, WithHandle, Present
<1>3. LedgerInv' /\ LedgerStep({})
  BY <1>1, <1>2, ObservationKeepsInv DEF RecordAnswer
<1> QED
  BY <1>3, IdleTyped, IdleOK, TransactionStep DEF RecordAnswer

--------------------------------------------------------------------------------
(* The other steps.                                                        *)

\* Completion leaves every process where it is.
LEMMA CompleteStep ==
  ASSUME IInv, NEW p \in Processes, Complete(p)
  PROVE  IInv' /\ LedgerStep({})
<1>1. LedgerInv' /\ LedgerStep({})
  BY CompleteKeepsInv DEF Complete, IInv
<1>2. RemoteTypeOK' /\ TasksStay
  BY DEF Complete, IInv, RemoteTypeOK, TasksStay
<1> QED
  BY <1>1, <1>2, OtherStep DEF Complete

\* A crash leaves a process with nothing at hand.
LEMMA CrashStep ==
  ASSUME IInv, NEW p \in Processes, Crash(p)
  PROVE  IInv' /\ LedgerStep({})
  BY FaultCounts, IdleTyped, IdleOK, LocalStep DEF Crash

\* A task that goes on still exists.
LEMMA TaskProgressStep ==
  ASSUME IInv, NEW a \in Attempts, TaskProgress(a)
  PROVE  IInv' /\ LedgerStep({})
<1>1. PICK t \in Successors(task[a]) : task' = [task EXCEPT ![a] = t]
  BY DEF TaskProgress
<1>2. t \in TaskType /\ t.state # "none"
  BY SuccessorsTyped DEF IInv, RemoteTypeOK
<1>3. RemoteTypeOK' /\ TasksStay
  BY <1>1, <1>2, TaskWrite DEF TaskProgress, IInv, RemoteTypeOK
<1>4. LedgerInv' /\ LedgerStep({})
  BY StutterKeepsInv DEF TaskProgress, IInv, ledger, LedgerInv, LedgerTypeOK
<1> QED
  BY <1>3, <1>4, OtherStep DEF TaskProgress

\* A lease that runs out leaves every process where it is.
LEMMA LeaseStep ==
  ASSUME IInv, LeaseRunsOut
  PROVE  IInv' /\ LedgerStep({})
<1>1. LedgerInv' /\ LedgerStep({})
  BY LeaseKeepsInv DEF LeaseRunsOut, IInv
<1>2. RemoteTypeOK' /\ TasksStay
  BY DEF LeaseRunsOut, IInv, RemoteTypeOK, TasksStay
<1> QED
  BY <1>1, <1>2, OtherStep DEF LeaseRunsOut

\* So does the clock.
LEMMA TickStep ==
  ASSUME IInv, Tick
  PROVE  IInv' /\ LedgerStep({})
<1>1. now' \in Nat
  BY DEF Tick, IInv, LedgerInv, LedgerTypeOK
<1>2. LedgerInv' /\ LedgerStep({})
  BY <1>1, StutterKeepsInv DEF Tick, IInv, ledger
<1>3. RemoteTypeOK' /\ TasksStay
  BY DEF Tick, IInv, RemoteTypeOK, TasksStay
<1> QED
  BY <1>2, <1>3, OtherStep DEF Tick

--------------------------------------------------------------------------------
(* The invariant.                                                          *)

\* The initial state satisfies IInv.
LEMMA InitHolds == Init => IInv
<1> SUFFICES ASSUME Init PROVE IInv
  OBVIOUS
<1>1. execution \in ExecutionType
  <2>1. /\ "running" \in ExecutionStates /\ "" \in StatusReasons
        /\ 0 \in 0..MaxGeneration /\ 0 \in 0..TotalUnits
    BY LedgerAssumption DEF ExecutionStates, StatusReasons
  <2> QED
    BY <2>1 DEF Init, LedgerInit, ExecutionType
<1>2. LedgerTypeOK
  BY <1>1, RowsTyped DEF Init, LedgerInit, LedgerTypeOK
<1>3. \A a \in Attempts : child[a] = NoRow /\ ~Present(a) /\ ~child[a].task
  BY RowsTyped DEF Init, LedgerInit, Present
<1>4. LedgerInv
  BY <1>2, <1>3, RowsTyped DEF LedgerInv, RowsInGenerations, AbsentRowsEmpty, RetriedIsSuperseded,
     CancelQuiets, Quiet, ActiveRowsHaveTask, ActiveChildStates
<1>5. RemoteTypeOK
  BY LedgerAssumption DEF Init, RemoteTypeOK, TaskType, TaskStates, ParentType, MessageType
<1>6. proc \in [Processes -> ProcessType] /\ \A p \in Processes : LocalOK(proc[p], child, task)
  BY IdleTyped, IdleOK DEF Init
<1> QED
  BY <1>3, <1>4, <1>5, <1>6 DEF IInv, HandlesNameTasks

\* Every step of the worker loop keeps IInv and is a ledger step.
LEMMA WorkerStepHolds ==
  ASSUME IInv, NEW p \in Processes, WorkerStep(p)
  PROVE  IInv' /\ \E H : LedgerStep(H)
  BY BeginReconcileStep, StopParentStep, MarkParentStoppedStep, ListExpiredStep, ExpireChildStep,
     RecordExpiredStep, ListExpiredExecutionStep, FailExpiredExecutionStep, ListReconcilableStep,
     PollChildStep, RecordPolledStep, ReadExecutionStep, ReadChildrenStep, ReadJoinStep,
     ResumeParentStep, UpdateStateStep, ReadBlockersStep, NotifyParentStep, MarkNotifiedStep,
     ClaimLaunchesStep, LaunchChildStep, RecordHandleStep
  DEF WorkerStep

\* So is every step of a request.
LEMMA RequestStepHolds ==
  ASSUME IInv, NEW p \in Processes, RequestStep(p)
  PROVE  IInv' /\ \E H : LedgerStep(H)
  BY BeginExpandStep, ReserveGenerationStep, RequestCancelStep, BeginRetryStep, PollBeforeRetryStep,
     CancelBeforeRetryStep, CreateRetryStep, ReserveMessageStep, ReplyChildStep,
     MarkMessageDeliveredStep, RecordAnswerStep, CompleteStep
  DEF RequestStep

\* Every step keeps IInv and leaves finished attempts and executions finished.
LEMMA StepHolds ==
  ASSUME IInv, [Next]_vars
  PROVE  /\ IInv'
         /\ [AttemptsStayFinished]_vars
         /\ [ExecutionStaysFinished]_vars
<1>1. CASE Next
  <2>1. IInv' /\ \E H : LedgerStep(H)
    BY <1>1, WorkerStepHolds, RequestStepHolds, CrashStep, TaskProgressStep, LeaseStep, TickStep
    DEF Next
  <2> QED
    BY <2>1 DEF LedgerStep
<1>2. CASE UNCHANGED vars
  <2>1. UNCHANGED ledger /\ now' \in Nat
    BY <1>2 DEF vars, ledger, IInv, LedgerInv, LedgerTypeOK
  <2>2. LedgerInv' /\ LedgerStep({})
    BY <2>1, StutterKeepsInv DEF IInv
  <2>3. RemoteTypeOK' /\ TasksStay /\ proc' = proc
    BY <1>2 DEF vars, IInv, RemoteTypeOK, TasksStay
  <2> QED
    BY <1>2, <2>2, <2>3, OtherStep
<1> QED
  BY <1>1, <1>2

\* IInv is an invariant.
LEMMA Invariance == Spec => []IInv
  BY InitHolds, StepHolds, PTL DEF Spec

\* IInv implies the type invariant.
LEMMA InvImpliesType == IInv => TypeOK
  BY DEF IInv, LedgerInv, RemoteTypeOK, TypeOK, TaskType, ParentType, MessageType

\* So do the safety properties.
LEMMA InvImpliesSafety ==
  IInv => CancelStopsEverything /\ OnlyLatestAttemptLives /\ ActiveChildHasTask
<1> SUFFICES ASSUME IInv
             PROVE  CancelStopsEverything /\ OnlyLatestAttemptLives /\ ActiveChildHasTask
  OBVIOUS
<1>1. CancelStopsEverything
  BY DEF IInv, LedgerInv, CancelQuiets, Quiet, CancelStopsEverything, Present
<1>2. OnlyLatestAttemptLives
  <2> SUFFICES ASSUME NEW a \in Attempts, Present(a), ~Latest(a)
               PROVE  child[a].state = "superseded"
    BY DEF OnlyLatestAttemptLives
  <2>1. PICK n \in 1..MaxAttempts : n > a.attempt /\ Present([a EXCEPT !.attempt = n])
    BY DEF Latest
  <2> DEFINE b == [a EXCEPT !.attempt = n]
  <2>2. b \in Attempts /\ b.gen = a.gen /\ b.key = a.key /\ b.attempt = n /\ a.attempt < n
    BY <2>1, AttemptVersions
  <2> HIDE DEF b
  <2>3. Present(b)
    BY <2>1 DEF b
  <2> QED
    BY <2>2, <2>3 DEF IInv, LedgerInv, RetriedIsSuperseded
<1>3. ActiveChildHasTask
  BY DEF IInv, LedgerInv, ActiveRowsHaveTask, HandlesNameTasks, ActiveChildHasTask
<1> QED
  BY <1>1, <1>2, <1>3

--------------------------------------------------------------------------------
(* The theorems.                                                           *)

\* In every reachable state every row, process, task and message has its type,
\* and the reserved budget is within the owner's total.
THEOREM TypeCorrect == Spec => []TypeOK
  BY Invariance, InvImpliesType, PTL

\* Once request_cancel or the execution's own deadline has asked for it, every
\* attempt is finished or being canceled, whatever was under way.
THEOREM CancellationStops == Spec => []CancelStopsEverything
  BY Invariance, InvImpliesSafety, PTL

\* An attempt that create_retry superseded stays superseded.
THEOREM RetriesSupersede == Spec => []OnlyLatestAttemptLives
  BY Invariance, InvImpliesSafety, PTL

\* A row that is polled, canceled or joined on names a task that was launched.
THEOREM ActiveChildrenAreLaunched == Spec => []ActiveChildHasTask
  BY Invariance, InvImpliesSafety, PTL

\* No step revives a finished attempt; one canceled before its handle arrived
\* is only reopened to cancel its task.
THEOREM AttemptsFinish == Spec => FinishedAttemptIsFinal
  BY Invariance, StepHolds, PTL DEF Spec, FinishedAttemptIsFinal

\* No step changes the outcome of a finished execution, expands it, or claims
\* one of its children for launch.
THEOREM ExecutionsFinish == Spec => FinishedExecutionIsFinal
  BY Invariance, StepHolds, PTL DEF Spec, FinishedExecutionIsFinal
================================================================================
