--------------------------- MODULE WorkflowWaitProofs ---------------------------
(***************************************************************************)
(* Theorems of WorkflowWait, for every value of its constants.             *)
(*                                                                         *)
(* The pollers and requesters share only the execution row with the        *)
(* engine: their steps keep the engine's own invariant, and the engine's   *)
(* steps reach the waits only through the generation, the reason and the   *)
(* end of the execution (LedgerChange).  What a poller took from a wait    *)
(* stays true until it writes it back (PollerOK), because a row's outcome  *)
(* is written once and what is over stays over (WaitsGoOn).                *)
(***************************************************************************)
EXTENDS WorkflowWait, JoinProofs

Over(e) == e.state \in TERMINAL_EXECUTION_STATES \/ e.cancel

\* The program counters of a poller that has taken a wait from its batch.
AtWork == {"observe", "pend", "fail", "escalate", "settle", "reread", "notify", "mark", "retire"}

\* A row has an outcome once it is settled, and is of a reserved generation.
RowsInv ==
    /\ \A w \in Waits : wait[w].seen = "none" <=> wait[w].state \in {"none", "pending"}
    /\ \A w \in Waits : wait[w].state # "none" => w.gen <= execution.gen

\* What a poller's local state l takes for granted of the waits' rows, of what
\* the parent heard and of the execution e.
PollerOK(l, rows, heard, e) ==
    /\ \A c \in l.batch : rows[c.id].state # "none" /\ (c.seen # "none" => c.seen = rows[c.id].seen)
    /\ l.pc \in AtWork => l.cur \in Claim /\ rows[l.cur.id].state # "none"
    /\ l.pc \in {"observe", "settle"} => l.cur.id.gen <= l.read.gen /\ l.read.gen <= e.gen
    /\ l.pc = "settle" => l.outcome # "none"
    /\ l.pc \in {"reread", "notify", "mark"} =>
          l.outcome # "none" /\ l.outcome = rows[l.cur.id].seen
    /\ l.pc = "mark" => heard[l.cur.id] # "none"
    /\ l.pc = "retire" => Over(e) \/ e.gen # l.cur.id.gen

PollersInv == \A p \in Pollers : PollerOK(poller[p], wait, told, execution)

WaitInv == WaitTypeOK /\ RowsInv /\ PollersInv /\ ToldWhatIsRecorded

\* What no step takes back: a row, an outcome, a delivery, the end of the execution.
WaitsGoOn ==
    /\ \A w \in Waits :
          /\ wait[w].state # "none" => wait'[w].state # "none"
          /\ wait[w].seen # "none" => wait'[w].seen = wait[w].seen
          /\ told[w] # "none" => told'[w] = told[w]
    /\ execution.gen <= execution'.gen
    /\ Over(execution) => Over(execution')

--------------------------------------------------------------------------------
(* The waits leave the engine's rows and processes alone.                  *)

\* A step of the waits writes the execution row at most, and that only while
\* the execution is open: a suspension reason and the next revision.
WaitWrites ==
    /\ ~ExecutionOver
    /\ execution' \in ExecutionType
    /\ execution'.state \in {execution.state, "waiting"}
    /\ execution'.reason \in WaitReasons
    /\ execution'.rev = execution.rev + 1
    /\ execution'.gen = execution.gen
    /\ execution'.cancel = execution.cancel
    /\ execution'.reserved = execution.reserved
    /\ execution'.blockers = execution.blockers
    /\ execution'.notified = execution.notified

\* A state, a reason and the next revision make an execution row.
LEMMA SuspendedRow ==
  ASSUME LedgerInv, ~ExecutionOver, NEW s \in {execution.state, "waiting"},
         NEW r \in WaitReasons,
         execution' = [execution EXCEPT !.state = s, !.reason = r, !.rev = @ + 1]
  PROVE  WaitWrites
<1>1. execution \in ExecutionType /\ execution.rev + 1 \in Nat
  BY ExecutionFields DEF LedgerInv, LedgerTypeOK
<1>2. s \in ExecutionStates /\ r \in StatusReasons
  BY <1>1, ExecutionFields DEF ExecutionStates, StatusReasons
<1>3. execution' \in ExecutionType
  BY <1>1, <1>2, ExecutionUpdate
<1>4. /\ execution'.state = s /\ execution'.reason = r /\ execution'.rev = execution.rev + 1
      /\ execution'.gen = execution.gen /\ execution'.cancel = execution.cancel
      /\ execution'.reserved = execution.reserved /\ execution'.blockers = execution.blockers
      /\ execution'.notified = execution.notified
  BY <1>1 DEF ExecutionType
<1> QED
  BY <1>3, <1>4 DEF WaitWrites

\* An accepted request suspends the execution.
LEMMA ReserveWrites ==
  ASSUME LedgerInv, NEW w, NEW rev, WaitAccepted(w, rev), reserve(w)
  PROVE  WaitWrites
<1> DEFINE r == "awaiting_condition"
<1>1. r \in WaitReasons
  BY DEF WaitReasons
<1>2. execution' = [execution EXCEPT !.state = "waiting", !.reason = r, !.rev = @ + 1]
  BY DEF reserve
<1>3. ~ExecutionOver
  BY DEF WaitAccepted
<1> HIDE DEF r
<1> QED
  BY <1>1, <1>2, <1>3, SuspendedRow

\* A recorded outcome moves the reason of its own generation's execution.
LEMMA RecordWrites ==
  ASSUME LedgerInv, NEW p, NEW w, NEW outcome, NEW reading, TerminalAccepted(p, w, reading),
         record_terminal(w, outcome, reading)
  PROVE  /\ reading.gen = w.gen => WaitWrites
         /\ reading.gen # w.gen => execution' = execution
<1> DEFINE r == IF outcome = "satisfied" THEN "wait_observed" ELSE "wait_failed"
<1>1. ASSUME reading.gen = w.gen
      PROVE  WaitWrites
  <2>1. r \in WaitReasons
    BY DEF WaitReasons
  <2>2. execution \in ExecutionType
    BY DEF LedgerInv, LedgerTypeOK
  <2>3. execution' = [execution EXCEPT !.reason = r, !.rev = @ + 1]
    BY <1>1 DEF record_terminal
  <2> HIDE DEF r
  <2> DEFINE s == execution.state
  <2>4. execution' = [execution EXCEPT !.state = s, !.reason = r, !.rev = @ + 1]
    BY <2>2, <2>3 DEF ExecutionType
  <2>5. ~ExecutionOver
    BY <1>1 DEF TerminalAccepted
  <2> QED
    BY <2>1, <2>4, <2>5, SuspendedRow
<1>2. reading.gen # w.gen => execution' = execution
  BY DEF record_terminal
<1> QED
  BY <1>1, <1>2

\* Nothing else of the engine is touched, and failures are counted.
LEMMA WaitsLeaveEngine ==
  ASSUME IInv, WaitStep
  PROVE  /\ UNCHANGED <<plan, child, now, task, parent, message, proc>>
         /\ faults' \in Nat
         /\ execution' = execution \/ WaitWrites
<1>1. LedgerInv /\ faults \in Nat /\ faults + 1 \in Nat
  BY DEF IInv, RemoteTypeOK
<1>2. ASSUME NEW r \in Requesters, BeginWait(r) \/ ReserveWait(r)
      PROVE  /\ UNCHANGED <<plan, child, now, task, parent, message, proc, faults>>
             /\ execution' = execution \/ WaitWrites
  <2>1. CASE BeginWait(r)
    BY <2>1 DEF BeginWait, vars
  <2>2. CASE ReserveWait(r)
    BY <1>1, <2>2, ReserveWrites DEF ReserveWait
  <2> QED
    BY <1>2, <2>1, <2>2
<1>3. ASSUME NEW p \in Pollers, Poll(p) \/ PollerCrash(p)
      PROVE  /\ UNCHANGED <<plan, child, now, task, parent, message, proc>>
             /\ faults' \in {faults, faults + 1}
             /\ execution' = execution \/ WaitWrites
  <2>1. CASE ClaimWaits(p) \/ Observe(p) \/ RecordPending(p) \/ HandleFailure(p) \/ Reread(p)
             \/ MarkWaitNotified(p)
    BY <2>1 DEF ClaimWaits, Observe, RecordPending, HandleFailure, Reread, MarkWaitNotified, vars
  <2>2. CASE ReadForWait(p) \/ Escalate(p) \/ NotifyObservation(p) \/ PollerCrash(p)
    BY <2>2 DEF ReadForWait, Escalate, NotifyObservation, PollerCrash, Fault
  <2>3. CASE RecordTerminal(p)
    <3> DEFINE w == Current(p)
    <3> DEFINE l == poller[p]
    <3>1. /\ UNCHANGED <<plan, child, now, task, parent, message, proc>>
          /\ faults' \in {faults, faults + 1}
          /\ \/ TerminalAccepted(p, w, l.read) /\ record_terminal(w, l.outcome, l.read)
             \/ execution' = execution
      BY <2>3 DEF RecordTerminal, Fault
    <3> QED
      BY <1>1, <3>1, RecordWrites
  <2> QED
    BY <1>3, <2>1, <2>2, <2>3 DEF Poll
<1>4. ASSUME NEW w \in Waits, WaitLeaseRunsOut(w)
      PROVE  /\ UNCHANGED <<plan, child, now, task, parent, message, proc>>
             /\ faults' \in {faults, faults + 1}
             /\ execution' = execution
  BY <1>4 DEF WaitLeaseRunsOut, Fault
<1> QED
  BY <1>1, <1>2, <1>3, <1>4 DEF WaitStep

\* So the waits keep the engine's invariant, and no attempt notices them.
LEMMA WaitsKeepEngine ==
  ASSUME SInv, WaitStep
  PROVE  SInv' /\ UNCHANGED Lifecycle!vars
<1>1. IInv /\ LedgerInv
  BY DEF SInv, IInv
<1>2. /\ UNCHANGED <<plan, child, now, task, parent, message, proc>>
      /\ faults' \in Nat
      /\ execution' = execution \/ WaitWrites
  BY <1>1, WaitsLeaveEngine
<1>3. /\ execution' \in ExecutionType
      /\ execution'.gen = execution.gen /\ execution'.cancel = execution.cancel
      /\ ExecutionTerminal => execution'.state = execution.state
  BY <1>1, <1>2 DEF WaitWrites, ExecutionOver, LedgerInv, LedgerTypeOK
<1>4. LedgerInv' /\ LedgerStep({})
  BY <1>1, <1>2, <1>3, ExecutionWriteKeepsInv
<1>5. RemoteTypeOK' /\ TasksStay
  BY <1>1, <1>2 DEF IInv, RemoteTypeOK, TasksStay
<1>6. IInv'
  BY <1>1, <1>2, <1>4, <1>5, OtherStep
<1>7. LifeStep
  BY <1>1, <1>2, <1>3, <1>4, RowsUntouched DEF SInv
<1>8. SInv'
  BY <1>2, <1>4, <1>6, <1>7, LifeOther
<1>9. UNCHANGED Lifecycle!vars
  BY <1>2, <1>3 DEF Lifecycle!vars, PhaseOf
<1> QED
  BY <1>8, <1>9

\* A step of the whole system keeps the engine's invariant.
LEMMA EngineSteps ==
  ASSUME SInv, [WaitNext]_waitVars
  PROVE  /\ SInv' /\ [Lifecycle!Next]_(Lifecycle!vars)
         /\ WaitStep \/ ([Next]_vars /\ UNCHANGED waitState)
<1>1. CASE WaitStep
  BY <1>1, WaitsKeepEngine
<1>2. CASE [Next]_vars /\ UNCHANGED waitState
  BY <1>2, LifeSteps
<1> QED
  BY <1>1, <1>2 DEF WaitNext, waitVars

\* The waits disturb no promise about the attempts: beside pollers and requests
\* for waits, the engine still implements AttemptLifecycle.
THEOREM WaitsKeepLifecycle == WaitSpec => AttemptsHaveOneLife
<1>1. WaitInit => SInv /\ Lifecycle!Init
  BY LifeInit DEF WaitInit
<1> QED
  BY <1>1, EngineSteps, PTL DEF WaitSpec, AttemptsHaveOneLife, Lifecycle!Spec

--------------------------------------------------------------------------------
(* Typed updates.                                                          *)

\* The fields of a poller have their types.
LEMMA PollerFields ==
  ASSUME NEW l \in PollerType
  PROVE  /\ l.batch \in SUBSET Claim /\ l.cur \in Claim \cup {NoClaim} /\ l.at \in Nat
         /\ l.read.gen \in 0..MaxGeneration /\ l.read.rev \in Nat
         /\ l.outcome \in Outcomes
  BY DEF PollerType

\* The fields of a claim have their types, and its wait's generation is a number.
LEMMA ClaimFields ==
  ASSUME NEW c \in Claim
  PROVE  /\ c.id \in Waits /\ c.seen \in Outcomes /\ c.tries \in 0..MaxWaitFailures
         /\ c.id.gen \in Nat
<1>1. c.id \in Waits /\ c.seen \in Outcomes /\ c.tries \in 0..MaxWaitFailures
  BY DEF Claim
<1>2. \A w \in Waits : w.gen \in Nat
  BY DEF Waits
<1> QED
  BY <1>1, <1>2

\* The generation of a wait is a number.
LEMMA WaitGenerations == \A w \in Waits : w.gen \in 0..MaxGeneration /\ w.gen \in Nat
  BY DEF Waits

\* An idle poller has nothing in hand.
LEMMA IdlePollerTyped ==
  /\ IdlePoller \in PollerType
  /\ IdlePoller.pc = "idle" /\ IdlePoller.batch = {}
<1>1. /\ 0 \in 0..MaxGeneration /\ 0 \in Nat /\ "none" \in Outcomes
  BY LedgerAssumption DEF Outcomes
<1>2. NoReading \in [gen : 0..MaxGeneration, rev : Nat]
  BY <1>1 DEF NoReading
<1> QED
  BY <1>1, <1>2 DEF IdlePoller, PollerType

\* A poller with a rest of its batch at hand.
LEMMA NextTyped ==
  ASSUME NEW B \in SUBSET Claim, NEW n \in Nat
  PROVE  LET l == [IdlePoller EXCEPT !.pc = "next", !.batch = B, !.at = n]
         IN  l \in PollerType /\ l.pc = "next" /\ l.batch = B
<1>1. IdlePoller \in PollerType
  BY IdlePollerTyped
<1>2. "next" \in {"idle", "next", "observe", "pend", "fail", "escalate", "settle", "reread",
                  "notify", "mark", "retire"}
  OBVIOUS
<1> QED
  BY <1>1, <1>2 DEF PollerType

\* Where a poller goes on with the rest of its batch.
LEMMA RestTyped ==
  ASSUME NEW p, poller[p] \in PollerType, NEW B \in SUBSET poller[p].batch
  PROVE  /\ GoOnWith(p, B) \in PollerType
         /\ GoOnWith(p, B).pc \in {"idle", "next"}
         /\ GoOnWith(p, B).batch = B
<1>1. poller[p].at \in Nat /\ B \in SUBSET Claim
  BY PollerFields
<1>2. CASE B = {}
  BY <1>2, IdlePollerTyped DEF GoOnWith
<1>3. CASE B # {}
  <2> DEFINE l == [IdlePoller EXCEPT !.pc = "next", !.batch = B, !.at = poller[p].at]
  <2>1. GoOnWith(p, B) = l
    BY <1>3 DEF GoOnWith
  <2>2. l \in PollerType /\ l.pc = "next" /\ l.batch = B
    BY <1>1, NextTyped
  <2> HIDE DEF l
  <2> QED
    BY <2>1, <2>2
<1> QED
  BY <1>2, <1>3

PollerPCs == {"idle", "next"} \cup AtWork

\* A poller with another program counter.
LEMMA MoveTyped ==
  ASSUME NEW p, poller[p] \in PollerType, NEW x \in PollerPCs
  PROVE  /\ Move(p, x) \in PollerType /\ Move(p, x).pc = x
         /\ Move(p, x).batch = poller[p].batch /\ Move(p, x).cur = poller[p].cur
         /\ Move(p, x).outcome = poller[p].outcome /\ Move(p, x).read = poller[p].read
<1>1. x \in {"idle", "next", "observe", "pend", "fail", "escalate", "settle", "reread",
             "notify", "mark", "retire"}
  BY DEF PollerPCs, AtWork
<1>2. Move(p, x) = [poller[p] EXCEPT !.pc = x]
  BY DEF Move
<1>3. Move(p, x) \in PollerType
  BY <1>1, <1>2 DEF PollerType
<1>4. /\ Move(p, x).pc = x
      /\ Move(p, x).batch = poller[p].batch /\ Move(p, x).cur = poller[p].cur
      /\ Move(p, x).outcome = poller[p].outcome /\ Move(p, x).read = poller[p].read
  BY <1>2 DEF PollerType
<1> QED
  BY <1>3, <1>4

\* A poller that forgets what it read, and one that forgets the outcome too.
LEMMA DropTyped ==
  ASSUME NEW p, poller[p] \in PollerType, NEW x \in PollerPCs
  PROVE  /\ Drop(p, x) \in PollerType /\ Drop(p, x).pc = x
         /\ Drop(p, x).batch = poller[p].batch /\ Drop(p, x).cur = poller[p].cur
         /\ Drop(p, x).outcome = poller[p].outcome
         /\ LET l == [Drop(p, x) EXCEPT !.outcome = "none"]
            IN  l \in PollerType /\ l.pc = x /\ l.batch = poller[p].batch /\ l.cur = poller[p].cur
<1>1. x \in {"idle", "next", "observe", "pend", "fail", "escalate", "settle", "reread",
             "notify", "mark", "retire"}
  BY DEF PollerPCs, AtWork
<1>2. NoReading \in [gen : 0..MaxGeneration, rev : Nat] /\ "none" \in Outcomes
  BY LedgerAssumption DEF NoReading, Outcomes
<1>3. Drop(p, x) = [poller[p] EXCEPT !.pc = x, !.read = NoReading]
  BY DEF Drop
<1> DEFINE none == NoReading
<1> HIDE DEF none
<1>4. Drop(p, x) = [poller[p] EXCEPT !.pc = x, !.read = none]
  BY <1>3 DEF none
<1>5. none \in [gen : 0..MaxGeneration, rev : Nat]
  BY <1>2 DEF none
<1>6. Drop(p, x) \in PollerType
  BY <1>1, <1>4, <1>5 DEF PollerType
<1>7. /\ Drop(p, x).pc = x
      /\ Drop(p, x).batch = poller[p].batch /\ Drop(p, x).cur = poller[p].cur
      /\ Drop(p, x).outcome = poller[p].outcome
  BY <1>4 DEF PollerType
<1> DEFINE d == Drop(p, x)
<1> DEFINE l == [d EXCEPT !.outcome = "none"]
<1>8. d \in PollerType /\ d.pc = x /\ d.batch = poller[p].batch /\ d.cur = poller[p].cur
  BY <1>6, <1>7
<1> HIDE DEF d
<1>9. l \in PollerType /\ l.pc = d.pc /\ l.batch = d.batch /\ l.cur = d.cur
  BY <1>2, <1>8 DEF PollerType
<1> QED
  BY <1>6, <1>7, <1>8, <1>9 DEF d

\* The fields of a wait's row have their types.
LEMMA WaitRowFields ==
  ASSUME NEW r \in WaitRowType
  PROVE  /\ r.state \in WaitStates /\ r.seen \in Outcomes
         /\ r.holder \in Pollers \cup {Nobody} /\ r.live \in BOOLEAN
         /\ r.tries \in 0..MaxWaitFailures
  BY DEF WaitRowType

\* One failure more stays within the maximum.
LEMMA OneMoreTyped == \A n \in 0..MaxWaitFailures : OneMore(n) \in 0..MaxWaitFailures
  BY WaitAssumption DEF OneMore

--------------------------------------------------------------------------------
(* What carries over from one state to the next.                           *)

\* The generation of the execution is a number, before and after a step.
LEMMA GenerationTyped ==
  ASSUME LedgerInv, LedgerInv'
  PROVE  /\ execution.gen \in 0..MaxGeneration /\ execution.gen \in Nat
         /\ execution'.gen \in 0..MaxGeneration /\ execution'.gen \in Nat
  BY ExecutionFields DEF LedgerInv, LedgerTypeOK

\* A step that changes no state, no outcome and no delivery, and takes neither
\* the generation nor the end of the execution back, keeps what is known of rows.
LEMMA RowsUndisturbed ==
  ASSUME LedgerInv, LedgerInv', RowsInv, ToldWhatIsRecorded, told' = told,
         \A w \in Waits : wait'[w].state = wait[w].state /\ wait'[w].seen = wait[w].seen,
         execution.gen <= execution'.gen, Over(execution) => Over(execution')
  PROVE  WaitsGoOn /\ RowsInv' /\ ToldWhatIsRecorded'
<1>1. execution.gen \in Nat /\ execution'.gen \in Nat
  BY GenerationTyped
<1>2. WaitsGoOn
  BY DEF WaitsGoOn
<1>3. RowsInv'
  BY <1>1, WaitGenerations DEF RowsInv
<1>4. ToldWhatIsRecorded'
  <2> SUFFICES ASSUME NEW w \in Waits
               PROVE  /\ told'[w] # "none" => told'[w] = wait'[w].seen
                      /\ wait'[w].state = "notified" =>
                            told'[w] # "none" \/ ExecutionOver' \/ ~BindingIsCurrent(w)'
    BY DEF ToldWhatIsRecorded
  <2>1. told'[w] # "none" => told'[w] = wait'[w].seen
    BY DEF ToldWhatIsRecorded
  <2>2. ASSUME wait'[w].state = "notified"
        PROVE  told'[w] # "none" \/ ExecutionOver' \/ ~BindingIsCurrent(w)'
    <3>1. told[w] # "none" \/ ExecutionOver \/ ~BindingIsCurrent(w)
      BY <2>2 DEF ToldWhatIsRecorded
    <3>2. ExecutionOver => ExecutionOver'
      BY DEF ExecutionOver, Over, ExecutionTerminal
    <3>3. ~BindingIsCurrent(w) => ~BindingIsCurrent(w)'
      BY <1>1, <2>2, WaitGenerations DEF BindingIsCurrent, RowsInv
    <3> QED
      BY <3>1, <3>2, <3>3
  <2> QED
    BY <2>1, <2>2
<1> QED
  BY <1>2, <1>3, <1>4

\* What a poller took for granted stays so.
LEMMA PollerOKStays ==
  ASSUME LedgerInv, LedgerInv', RowsInv, WaitsGoOn, NEW l \in PollerType,
         PollerOK(l, wait, told, execution)
  PROVE  PollerOK(l, wait', told', execution')
<1> DEFINE w == l.cur.id
<1>1. execution.gen \in Nat /\ execution'.gen \in Nat /\ l.read.gen \in Nat
  BY GenerationTyped, PollerFields
<1>2. \A c \in l.batch : wait'[c.id].state # "none" /\ (c.seen # "none" => c.seen = wait'[c.id].seen)
  <2> SUFFICES ASSUME NEW c \in l.batch
               PROVE  /\ wait'[c.id].state # "none"
                      /\ c.seen # "none" => c.seen = wait'[c.id].seen
    OBVIOUS
  <2>1. c.id \in Waits
    BY PollerFields, ClaimFields
  <2> QED
    BY <2>1 DEF PollerOK, WaitsGoOn
<1>3. l.pc \in AtWork => l.cur \in Claim /\ w \in Waits /\ w.gen \in Nat /\ wait'[w].state # "none"
  BY ClaimFields DEF PollerOK, WaitsGoOn
<1>4. l.pc \in {"observe", "settle"} => w.gen <= l.read.gen /\ l.read.gen <= execution'.gen
  <2> SUFFICES ASSUME l.pc \in {"observe", "settle"}
               PROVE  w.gen <= l.read.gen /\ l.read.gen <= execution'.gen
    OBVIOUS
  <2>1. w.gen <= l.read.gen /\ l.read.gen <= execution.gen /\ execution.gen <= execution'.gen
    BY DEF PollerOK, WaitsGoOn
  <2> QED
    BY <1>1, <2>1
<1>5. l.pc \in {"reread", "notify", "mark"} => l.outcome # "none" /\ l.outcome = wait'[w].seen
  <2> SUFFICES ASSUME l.pc \in {"reread", "notify", "mark"}
               PROVE  l.outcome # "none" /\ l.outcome = wait'[w].seen
    OBVIOUS
  <2>1. w \in Waits /\ l.outcome # "none" /\ l.outcome = wait[w].seen
    BY <1>3 DEF AtWork, PollerOK
  <2> QED
    BY <2>1 DEF WaitsGoOn
<1>6. l.pc = "mark" => told'[w] # "none"
  <2> SUFFICES ASSUME l.pc = "mark"
               PROVE  told'[w] # "none"
    OBVIOUS
  <2>1. w \in Waits /\ told[w] # "none"
    BY <1>3 DEF AtWork, PollerOK
  <2> QED
    BY <2>1 DEF WaitsGoOn
<1>7. l.pc = "retire" => Over(execution') \/ execution'.gen # w.gen
  <2> SUFFICES ASSUME l.pc = "retire"
               PROVE  Over(execution') \/ execution'.gen # w.gen
    OBVIOUS
  <2>1. w \in Waits /\ w.gen \in Nat /\ wait[w].state # "none"
    BY <1>3 DEF AtWork, PollerOK
  <2>2. w.gen <= execution.gen
    BY <2>1 DEF RowsInv
  <2>3. Over(execution) \/ execution.gen # w.gen
    BY DEF PollerOK
  <2> QED
    BY <1>1, <2>1, <2>2, <2>3 DEF WaitsGoOn
<1>8. l.pc = "settle" => l.outcome # "none"
  BY DEF PollerOK
<1> QED
  BY <1>2, <1>3, <1>4, <1>5, <1>6, <1>7, <1>8 DEF PollerOK

\* A step in which no poller moves.
LEMMA PollersStay ==
  ASSUME LedgerInv, LedgerInv', WaitTypeOK, RowsInv, PollersInv, WaitsGoOn, poller' = poller
  PROVE  PollersInv' /\ poller' \in [Pollers -> PollerType]
<1>1. poller \in [Pollers -> PollerType]
  BY DEF WaitTypeOK
<1>2. ASSUME NEW p \in Pollers
      PROVE  PollerOK(poller'[p], wait', told', execution')
  <2>1. poller[p] \in PollerType /\ PollerOK(poller[p], wait, told, execution)
    BY <1>1 DEF PollersInv
  <2> QED
    BY <2>1, PollerOKStays
<1> QED
  BY <1>1, <1>2 DEF PollersInv

\* A step of one poller that leaves it with a local state that is right.
LEMMA PollerMoves ==
  ASSUME LedgerInv, LedgerInv', WaitTypeOK, RowsInv, PollersInv, WaitsGoOn,
         NEW p \in Pollers, NEW l \in PollerType, Step(p, l),
         PollerOK(l, wait', told', execution')
  PROVE  PollersInv' /\ poller' \in [Pollers -> PollerType] /\ poller'[p] = l
<1>1. poller \in [Pollers -> PollerType] /\ poller' = [poller EXCEPT ![p] = l]
  BY DEF WaitTypeOK, Step
<1>2. ASSUME NEW q \in Pollers
      PROVE  PollerOK(poller'[q], wait', told', execution')
  <2>1. CASE q = p
    BY <1>1, <2>1
  <2>2. CASE q # p
    <3>1. poller'[q] = poller[q]
      BY <1>1, <2>2
    <3>2. poller[q] \in PollerType /\ PollerOK(poller[q], wait, told, execution)
      BY <1>1 DEF PollersInv
    <3> QED
      BY <3>1, <3>2, PollerOKStays
  <2> QED
    BY <2>1, <2>2
<1> QED
  BY <1>1, <1>2 DEF PollersInv

\* A step of one poller that writes at most leases and failure counts.
LEMMA QuietStep ==
  ASSUME LedgerInv, LedgerInv', WaitInv, UNCHANGED <<execution, asker, told>>,
         wait' \in [Waits -> WaitRowType],
         \A w \in Waits : wait'[w].state = wait[w].state /\ wait'[w].seen = wait[w].seen,
         NEW p \in Pollers, NEW l \in PollerType, Step(p, l),
         PollerOK(l, wait, told, execution)
  PROVE  WaitInv'
<1>1. WaitTypeOK /\ RowsInv /\ PollersInv /\ ToldWhatIsRecorded
  BY DEF WaitInv
<1>2. execution.gen <= execution'.gen /\ (Over(execution) => Over(execution'))
  BY GenerationTyped
<1>3. WaitsGoOn /\ RowsInv' /\ ToldWhatIsRecorded'
  BY <1>1, <1>2, RowsUndisturbed
<1>4. PollerOK(l, wait', told', execution')
  BY <1>1, <1>3, PollerOKStays
<1>5. PollersInv' /\ poller' \in [Pollers -> PollerType]
  BY <1>1, <1>3, <1>4, PollerMoves
<1>6. WaitTypeOK'
  BY <1>1, <1>5 DEF WaitTypeOK
<1> QED
  BY <1>3, <1>5, <1>6 DEF WaitInv

--------------------------------------------------------------------------------
(* The pollers' steps that settle nothing.                                 *)

\* A poller between two waits only answers for its batch.
LEMMA AtRest ==
  ASSUME NEW l, l.pc \in {"idle", "next"}, NEW rows, NEW heard, NEW e,
         \A c \in l.batch : rows[c.id].state # "none" /\ (c.seen # "none" => c.seen = rows[c.id].seen)
  PROVE  PollerOK(l, rows, heard, e)
  BY DEF PollerOK, AtWork

\* A poller that goes on with its batch, or stops, takes nothing new for granted.
LEMMA RestOK ==
  ASSUME WaitInv, NEW p \in Pollers, NEW B \in SUBSET poller[p].batch
  PROVE  /\ GoOnWith(p, B) \in PollerType /\ PollerOK(GoOnWith(p, B), wait, told, execution)
         /\ IdlePoller \in PollerType /\ PollerOK(IdlePoller, wait, told, execution)
<1>1. poller[p] \in PollerType /\ PollerOK(poller[p], wait, told, execution)
  BY DEF WaitInv, WaitTypeOK, PollersInv
<1>2. \A c \in poller[p].batch :
         wait[c.id].state # "none" /\ (c.seen # "none" => c.seen = wait[c.id].seen)
  BY <1>1 DEF PollerOK
<1>3. /\ GoOnWith(p, B) \in PollerType
      /\ GoOnWith(p, B).pc \in {"idle", "next"}
      /\ GoOnWith(p, B).batch = B
  BY <1>1, RestTyped
<1>4. PollerOK(GoOnWith(p, B), wait, told, execution)
  BY <1>2, <1>3, AtRest
<1>5. PollerOK(IdlePoller, wait, told, execution)
  BY IdlePollerTyped, AtRest
<1> QED
  BY <1>3, <1>4, <1>5, IdlePollerTyped

\* A poller that keeps its batch and its wait, without an outcome of it at hand.
LEMMA AtHand ==
  ASSUME NEW old, NEW l, NEW rows, NEW heard, NEW e, PollerOK(old, rows, heard, e),
         old.pc \in AtWork, l.pc \in {"pend", "fail", "escalate"},
         l.batch = old.batch, l.cur = old.cur
  PROVE  PollerOK(l, rows, heard, e)
  BY DEF PollerOK, AtWork

\* A cycle claims what is due, with the outcomes the rows have.
LEMMA ClaimWaitsKeeps ==
  ASSUME LedgerInv, LedgerInv', WaitInv, NEW p \in Pollers, ClaimWaits(p)
  PROVE  WaitInv'
<1> DEFINE due == {w \in Waits : Pollable(w)}
<1> DEFINE batch == {[id |-> w, seen |-> wait[w].seen, tries |-> wait[w].tries] : w \in due}
<1> DEFINE l == [IdlePoller EXCEPT !.pc = "next", !.batch = batch, !.at = now]
<1>1. wait \in [Waits -> WaitRowType] /\ now \in Nat
  BY DEF WaitInv, WaitTypeOK, LedgerInv, LedgerTypeOK
<1>2. ASSUME NEW w \in Waits
      PROVE  /\ wait'[w] \in WaitRowType
             /\ wait'[w].state = wait[w].state /\ wait'[w].seen = wait[w].seen
  <2>1. wait'[w] = IF w \in due THEN [wait[w] EXCEPT !.holder = p, !.live = TRUE] ELSE wait[w]
    BY DEF ClaimWaits, claim_due
  <2>2. wait[w] \in WaitRowType
    BY <1>1
  <2> QED
    BY <2>1, <2>2 DEF WaitRowType
<1>3. wait' \in [Waits -> WaitRowType]
  <2>1. wait' = [w \in Waits |->
                   IF w \in due THEN [wait[w] EXCEPT !.holder = p, !.live = TRUE] ELSE wait[w]]
    BY DEF ClaimWaits, claim_due
  <2> QED
    BY <1>2, <2>1
<1>4. batch \in SUBSET Claim
  BY <1>1, WaitRowFields DEF Claim
<1>5. /\ Step(p, l) /\ UNCHANGED <<execution, asker, told>>
  BY DEF ClaimWaits, vars
<1>6. \A w \in due : wait[w].state # "none"
  BY DEF Pollable, Settled
<1>7. \A c \in batch : wait[c.id].state # "none" /\ (c.seen # "none" => c.seen = wait[c.id].seen)
  BY <1>6
<1> HIDE DEF batch
<1>8. l \in PollerType /\ l.pc = "next" /\ l.batch = batch
  BY <1>1, <1>4, NextTyped
<1> HIDE DEF l
<1>9. PollerOK(l, wait, told, execution)
  BY <1>7, <1>8, AtRest
<1> QED
  BY <1>2, <1>3, <1>5, <1>8, <1>9, QuietStep

\* Where a claimed wait goes.
LEMMA NextSteps ==
  ASSUME NEW c, NEW at
  PROVE  \/ /\ NextStep(c, at) = "retire" /\ c.seen # "none"
            /\ ExecutionOver \/ ~BindingIsCurrent(c.id)
         \/ NextStep(c, at) = "notify" /\ c.seen # "none"
         \/ NextStep(c, at) = "settle" /\ c.seen = "none"
         \/ NextStep(c, at) = "observe" /\ c.seen = "none"
<1> DEFINE over == ExecutionOver
<1> DEFINE binding == BindingIsCurrent(c.id)
<1> DEFINE late == at >= ExecutionDeadline
<1> DEFINE to ==
      CASE c.seen # "none" /\ (over \/ ~binding) -> "retire"
        [] c.seen # "none" /\ ~over /\ binding -> "notify"
        [] c.seen = "none" /\ (~binding \/ late \/ over) -> "settle"
        [] OTHER -> "observe"
<1>1. NextStep(c, at) = to
  BY DEF NextStep
<1> HIDE DEF over, binding, late
<1>2. \/ to = "retire" /\ c.seen # "none" /\ (over \/ ~binding)
      \/ to = "notify" /\ c.seen # "none"
      \/ to = "settle" /\ c.seen = "none"
      \/ to = "observe" /\ c.seen = "none"
  OBVIOUS
<1> QED
  BY <1>1, <1>2 DEF over, binding

\* A poller that read the execution knows where its wait goes.
LEMMA ReadForWaitKeeps ==
  ASSUME LedgerInv, LedgerInv', WaitInv, NEW p \in Pollers, ReadForWait(p)
  PROVE  WaitInv'
<1>1. /\ poller[p] \in PollerType /\ PollerOK(poller[p], wait, told, execution)
      /\ wait \in [Waits -> WaitRowType] /\ RowsInv
  BY DEF WaitInv, WaitTypeOK, PollersInv
<1>2. UNCHANGED <<execution, asker, told, wait>>
  BY DEF ReadForWait
<1> DEFINE rest(c) == poller[p].batch \ {c}
<1> DEFINE taken(c) == [poller[p] EXCEPT !.batch = rest(c), !.cur = c]
<1> DEFINE to(c) == NextStep(c, poller[p].at)
<1> DEFINE read(c) == IF c.seen = "none" THEN Reading ELSE NoReading
<1> DEFINE outcome(c) == IF to(c) = "settle" THEN "failed" ELSE c.seen
<1>3. PICK c \in poller[p].batch :
         \/ Step(p, [taken(c) EXCEPT !.pc = to(c), !.read = read(c), !.outcome = outcome(c)])
         \/ Step(p, [taken(c) EXCEPT !.pc = "fail"])
         \/ Step(p, GoOnWith(p, rest(c)))
  BY DEF ReadForWait
<1>4. /\ c \in Claim /\ c.id \in Waits /\ c.id.gen \in Nat /\ c.seen \in Outcomes
      /\ rest(c) \in SUBSET Claim
  BY <1>1, PollerFields, ClaimFields
<1>5. wait[c.id].state # "none" /\ (c.seen # "none" => c.seen = wait[c.id].seen)
  BY <1>1 DEF PollerOK
<1>6. \A d \in rest(c) :
         wait[d.id].state # "none" /\ (d.seen # "none" => d.seen = wait[d.id].seen)
  BY <1>1 DEF PollerOK
<1>7. taken(c) \in PollerType /\ taken(c).batch = rest(c) /\ taken(c).cur = c
  <2> DEFINE B == rest(c)
  <2>1. B \in SUBSET Claim
    BY <1>4
  <2> HIDE DEF B
  <2>2. LET t == [poller[p] EXCEPT !.batch = B, !.cur = c]
        IN  t \in PollerType /\ t.batch = B /\ t.cur = c
    BY <1>1, <1>4, <2>1 DEF PollerType
  <2> QED
    BY <2>2 DEF B
<1>8. read(c) \in [gen : 0..MaxGeneration, rev : Nat] /\ outcome(c) \in Outcomes
  <2>1. Reading \in [gen : 0..MaxGeneration, rev : Nat]
    BY ExecutionFields DEF Reading, LedgerInv, LedgerTypeOK
  <2>2. NoReading \in [gen : 0..MaxGeneration, rev : Nat]
    BY LedgerAssumption DEF NoReading
  <2> QED
    BY <1>4, <2>1, <2>2 DEF Outcomes
<1>9. ASSUME Step(p, [taken(c) EXCEPT !.pc = to(c), !.read = read(c), !.outcome = outcome(c)])
      PROVE  WaitInv'
  <2> DEFINE t == taken(c)
  <2> DEFINE x == to(c)
  <2> DEFINE r == read(c)
  <2> DEFINE o == outcome(c)
  <2> DEFINE l == [t EXCEPT !.pc = x, !.read = r, !.outcome = o]
  <2>1. /\ \/ x = "retire" /\ c.seen # "none" /\ (ExecutionOver \/ ~BindingIsCurrent(c.id))
           \/ x = "notify" /\ c.seen # "none"
           \/ x = "settle" /\ c.seen = "none"
           \/ x = "observe" /\ c.seen = "none"
    BY NextSteps
  <2>2. c.seen = "none" => r.gen = execution.gen
    BY DEF Reading
  <2>3. o = IF x = "settle" THEN "failed" ELSE c.seen
    OBVIOUS
  <2>4. t \in PollerType /\ t.batch = rest(c) /\ t.cur = c
    BY <1>7
  <2>5. r \in [gen : 0..MaxGeneration, rev : Nat] /\ o \in Outcomes
    BY <1>8
  <2>6. Step(p, l)
    BY <1>9
  <2> HIDE DEF t, x, r, o
  <2>7. l \in PollerType
    BY <2>1, <2>4, <2>5 DEF PollerType
  <2>8. l.pc = x /\ l.batch = rest(c) /\ l.cur = c /\ l.read = r /\ l.outcome = o
    BY <2>4 DEF PollerType
  <2> HIDE DEF l
  <2>9. PollerOK(l, wait, told, execution)
    <3>1. l.pc \in AtWork => l.cur \in Claim /\ wait[l.cur.id].state # "none"
      BY <1>4, <1>5, <2>8
    <3>2. l.pc \in {"observe", "settle"} =>
             l.cur.id.gen <= l.read.gen /\ l.read.gen <= execution.gen
      BY <1>1, <1>4, <1>5, <2>1, <2>2, <2>8, GenerationTyped DEF RowsInv
    <3>3. l.pc = "settle" => l.outcome # "none"
      BY <2>3, <2>8
    <3>4. l.pc \in {"reread", "notify", "mark"} =>
             l.outcome # "none" /\ l.outcome = wait[l.cur.id].seen
      BY <1>5, <2>1, <2>3, <2>8
    <3>5. l.pc = "retire" => Over(execution) \/ execution.gen # l.cur.id.gen
      BY <2>1, <2>8 DEF ExecutionOver, ExecutionTerminal, Over, BindingIsCurrent
    <3>6. l.pc # "mark"
      BY <2>1, <2>8
    <3> QED
      BY <1>6, <2>8, <3>1, <3>2, <3>3, <3>4, <3>5, <3>6 DEF PollerOK
  <2> QED
    BY <1>1, <1>2, <2>6, <2>7, <2>9, QuietStep
<1>10. ASSUME Step(p, [taken(c) EXCEPT !.pc = "fail"])
       PROVE  WaitInv'
  <2> DEFINE t == taken(c)
  <2> DEFINE l == [t EXCEPT !.pc = "fail"]
  <2>1. t \in PollerType /\ t.batch = rest(c) /\ t.cur = c
    BY <1>7
  <2>2. Step(p, l)
    BY <1>10
  <2> HIDE DEF t
  <2>3. l \in PollerType
    BY <2>1 DEF PollerType
  <2>4. l.pc = "fail" /\ l.batch = rest(c) /\ l.cur = c
    BY <2>1 DEF PollerType
  <2> HIDE DEF l
  <2>5. PollerOK(l, wait, told, execution)
    BY <1>4, <1>5, <1>6, <2>4 DEF PollerOK
  <2> QED
    BY <1>1, <1>2, <2>2, <2>3, <2>5, QuietStep
<1>11. ASSUME Step(p, GoOnWith(p, rest(c)))
       PROVE  WaitInv'
  BY <1>1, <1>2, <1>11, RestOK, QuietStep
<1> QED
  BY <1>3, <1>9, <1>10, <1>11

\* What a poller at work has at hand.
LEMMA InHand ==
  ASSUME WaitInv, NEW p \in Pollers
  PROVE  /\ poller[p] \in PollerType /\ PollerOK(poller[p], wait, told, execution)
         /\ wait \in [Waits -> WaitRowType] /\ RowsInv /\ ToldWhatIsRecorded
         /\ told \in [Waits -> Outcomes]
         /\ poller[p].pc \in AtWork =>
               /\ poller[p].cur \in Claim /\ Current(p) \in Waits /\ Current(p).gen \in Nat
               /\ Current(p) = poller[p].cur.id
               /\ wait[Current(p)].state # "none" /\ Current(p).gen <= execution.gen
<1>1. /\ poller[p] \in PollerType /\ PollerOK(poller[p], wait, told, execution)
      /\ wait \in [Waits -> WaitRowType] /\ RowsInv /\ ToldWhatIsRecorded
      /\ told \in [Waits -> Outcomes]
  BY DEF WaitInv, WaitTypeOK, PollersInv
<1>2. ASSUME poller[p].pc \in AtWork
      PROVE  /\ poller[p].cur \in Claim /\ Current(p) \in Waits /\ Current(p).gen \in Nat
             /\ Current(p) = poller[p].cur.id
             /\ wait[Current(p)].state # "none" /\ Current(p).gen <= execution.gen
  <2>1. poller[p].cur \in Claim /\ wait[poller[p].cur.id].state # "none"
    BY <1>1, <1>2 DEF PollerOK
  <2>2. poller[p].cur.id \in Waits /\ poller[p].cur.id.gen \in Nat
    BY <2>1, ClaimFields
  <2> QED
    BY <1>1, <2>1, <2>2 DEF Current, RowsInv
<1> QED
  BY <1>1, <1>2

\* An observed condition is undecided, decided or unreadable.
LEMMA ObserveKeeps ==
  ASSUME LedgerInv, LedgerInv', WaitInv, NEW p \in Pollers, Observe(p)
  PROVE  WaitInv'
<1>1. /\ poller[p] \in PollerType /\ PollerOK(poller[p], wait, told, execution)
      /\ wait \in [Waits -> WaitRowType]
      /\ poller[p].pc = "observe" /\ "observe" \in AtWork
  BY InHand DEF Observe, Is, AtWork
<1>2. UNCHANGED <<execution, asker, told, wait>>
  BY DEF Observe, vars
<1>3. ASSUME NEW x \in {"pend", "fail"}, Step(p, Drop(p, x))
      PROVE  WaitInv'
  <2> x \in PollerPCs
    BY DEF PollerPCs, AtWork
  <2>1. /\ Drop(p, x) \in PollerType /\ Drop(p, x).pc = x
        /\ Drop(p, x).batch = poller[p].batch /\ Drop(p, x).cur = poller[p].cur
    BY <1>1, DropTyped
  <2>2. PollerOK(Drop(p, x), wait, told, execution)
    BY <1>1, <2>1, AtHand
  <2> QED
    BY <1>1, <1>2, <1>3, <2>1, <2>2, QuietStep
<1>4. ASSUME NEW o \in {"satisfied", "failed"},
             Step(p, [poller[p] EXCEPT !.pc = "settle", !.outcome = o])
      PROVE  WaitInv'
  <2> DEFINE l == [poller[p] EXCEPT !.pc = "settle", !.outcome = o]
  <2>1. o \in Outcomes /\ o # "none"
    BY <1>4 DEF Outcomes
  <2>2. l \in PollerType
    BY <1>1, <2>1 DEF PollerType
  <2>3. /\ l.pc = "settle" /\ l.outcome = o /\ l.batch = poller[p].batch
        /\ l.cur = poller[p].cur /\ l.read = poller[p].read
    BY <1>1 DEF PollerType
  <2>4. Step(p, l)
    BY <1>4
  <2> HIDE DEF l
  <2>5. PollerOK(l, wait, told, execution)
    BY <1>1, <2>1, <2>3 DEF PollerOK, AtWork
  <2> QED
    BY <1>1, <1>2, <2>2, <2>4, <2>5, QuietStep
<1> QED
  BY <1>3, <1>4 DEF Observe

\* A pending record gives the lease back and counts the attempt.
LEMMA RecordPendingKeeps ==
  ASSUME LedgerInv, LedgerInv', WaitInv, NEW p \in Pollers, RecordPending(p)
  PROVE  WaitInv'
<1> DEFINE w == Current(p)
<1>1. /\ poller[p] \in PollerType /\ wait \in [Waits -> WaitRowType] /\ w \in Waits
  BY InHand DEF RecordPending, Is, AtWork
<1>2. UNCHANGED <<execution, asker, told>>
  BY DEF RecordPending, vars
<1>3. \/ record_pending(w) /\ Step(p, Done(p))
      \/ wait' = wait /\ Step(p, IdlePoller)
  BY DEF RecordPending
<1>4. CASE record_pending(w) /\ Step(p, Done(p))
  <2> DEFINE n == OneMore(wait[w].tries)
  <2> DEFINE r == [wait[w] EXCEPT !.tries = n, !.holder = Nobody, !.live = FALSE]
  <2>1. wait[w] \in WaitRowType /\ n \in 0..MaxWaitFailures
    BY <1>1, WaitRowFields, OneMoreTyped
  <2>2. wait' = [wait EXCEPT ![w] = r]
    BY <1>1, <1>4 DEF record_pending
  <2> HIDE DEF n
  <2>3. r \in WaitRowType /\ r.state = wait[w].state /\ r.seen = wait[w].seen
    BY <2>1 DEF WaitRowType
  <2> HIDE DEF r
  <2>4. /\ wait' \in [Waits -> WaitRowType]
        /\ \A v \in Waits : wait'[v].state = wait[v].state /\ wait'[v].seen = wait[v].seen
    BY <1>1, <2>2, <2>3
  <2>5. Done(p) \in PollerType /\ PollerOK(Done(p), wait, told, execution)
    BY RestOK DEF Done
  <2> QED
    BY <1>2, <1>4, <2>4, <2>5, QuietStep
<1>5. CASE wait' = wait /\ Step(p, IdlePoller)
  BY <1>1, <1>2, <1>5, RestOK, QuietStep
<1> QED
  BY <1>3, <1>4, <1>5

\* A failure is to be counted, or to be recorded as the outcome.
LEMMA HandleFailureKeeps ==
  ASSUME LedgerInv, LedgerInv', WaitInv, NEW p \in Pollers, HandleFailure(p)
  PROVE  WaitInv'
<1>1. /\ poller[p] \in PollerType /\ PollerOK(poller[p], wait, told, execution)
      /\ wait \in [Waits -> WaitRowType]
      /\ poller[p].pc \in AtWork
  BY InHand DEF HandleFailure, Is, AtWork
<1>2. PICK x \in {"pend", "escalate"} : Step(p, Move(p, x))
  BY DEF HandleFailure
<1>3. /\ Move(p, x) \in PollerType /\ Move(p, x).pc = x
      /\ Move(p, x).batch = poller[p].batch /\ Move(p, x).cur = poller[p].cur
  BY <1>1, MoveTyped DEF PollerPCs, AtWork
<1>4. PollerOK(Move(p, x), wait, told, execution)
  BY <1>1, <1>3, AtHand
<1>5. UNCHANGED <<execution, asker, told, wait>>
  BY DEF HandleFailure, vars
<1> QED
  BY <1>1, <1>2, <1>3, <1>4, <1>5, QuietStep

\* The last failure is to be settled with the execution as it is now.
LEMMA EscalateKeeps ==
  ASSUME LedgerInv, LedgerInv', WaitInv, NEW p \in Pollers, Escalate(p)
  PROVE  WaitInv'
<1>1. /\ poller[p] \in PollerType /\ PollerOK(poller[p], wait, told, execution)
      /\ wait \in [Waits -> WaitRowType]
      /\ poller[p].pc = "escalate" /\ "escalate" \in AtWork
      /\ poller[p].cur \in Claim /\ wait[poller[p].cur.id].state # "none"
      /\ poller[p].cur.id.gen <= execution.gen
  BY InHand DEF Escalate, Is, AtWork
<1>2. UNCHANGED <<execution, asker, told, wait>>
  BY DEF Escalate
<1> DEFINE l == [poller[p] EXCEPT !.pc = "settle", !.outcome = "failed", !.escalated = TRUE,
                                  !.read = Reading]
<1>3. Step(p, l) \/ Step(p, Move(p, "pend"))
  BY DEF Escalate
<1>4. ASSUME Step(p, l)
      PROVE  WaitInv'
  <2> DEFINE read == Reading
  <2>1. /\ read \in [gen : 0..MaxGeneration, rev : Nat] /\ read.gen = execution.gen
        /\ execution.gen \in Nat
    BY ExecutionFields, GenerationTyped DEF Reading, LedgerInv, LedgerTypeOK
  <2> HIDE DEF read
  <2>2. l = [poller[p] EXCEPT !.pc = "settle", !.outcome = "failed", !.escalated = TRUE,
                              !.read = read]
    BY DEF read
  <2>3. l \in PollerType
    BY <1>1, <2>1, <2>2 DEF PollerType, Outcomes
  <2>4. /\ l.pc = "settle" /\ l.outcome = "failed" /\ l.batch = poller[p].batch
        /\ l.cur = poller[p].cur /\ l.read = read
    BY <1>1, <2>2 DEF PollerType
  <2>5. Step(p, l)
    BY <1>4
  <2> HIDE DEF l
  <2>6. PollerOK(l, wait, told, execution)
    BY <1>1, <2>1, <2>4 DEF PollerOK, AtWork
  <2> QED
    BY <1>1, <1>2, <2>3, <2>5, <2>6, QuietStep
<1>5. ASSUME Step(p, Move(p, "pend"))
      PROVE  WaitInv'
  <2>1. /\ Move(p, "pend") \in PollerType /\ Move(p, "pend").pc = "pend"
        /\ Move(p, "pend").batch = poller[p].batch /\ Move(p, "pend").cur = poller[p].cur
    BY <1>1, MoveTyped DEF PollerPCs, AtWork
  <2>2. PollerOK(Move(p, "pend"), wait, told, execution)
    BY <1>1, <2>1, AtHand
  <2> QED
    BY <1>1, <1>2, <1>5, <2>1, <2>2, QuietStep
<1> QED
  BY <1>3, <1>4, <1>5

\* Whom nobody is to be told any more is retired.
LEMMA RereadKeeps ==
  ASSUME LedgerInv, LedgerInv', WaitInv, NEW p \in Pollers, Reread(p)
  PROVE  WaitInv'
<1>1. /\ poller[p] \in PollerType /\ PollerOK(poller[p], wait, told, execution)
      /\ wait \in [Waits -> WaitRowType]
      /\ poller[p].pc = "reread" /\ "reread" \in AtWork /\ Current(p) = poller[p].cur.id
  BY InHand DEF Reread, Is, AtWork
<1>2. UNCHANGED <<execution, asker, told, wait>>
  BY DEF Reread, vars
<1>3. PICK x \in {"retire", "notify"} :
         /\ Step(p, Move(p, x))
         /\ x = "retire" => ExecutionOver \/ ~BindingIsCurrent(Current(p))
  BY DEF Reread
<1>4. /\ Move(p, x) \in PollerType /\ Move(p, x).pc = x
      /\ Move(p, x).batch = poller[p].batch /\ Move(p, x).cur = poller[p].cur
      /\ Move(p, x).outcome = poller[p].outcome
  BY <1>1, MoveTyped DEF PollerPCs, AtWork
<1>5. x = "retire" => Over(execution) \/ execution.gen # poller[p].cur.id.gen
  BY <1>1, <1>3 DEF ExecutionOver, ExecutionTerminal, Over, BindingIsCurrent
<1>6. PollerOK(Move(p, x), wait, told, execution)
  BY <1>1, <1>4, <1>5 DEF PollerOK, AtWork
<1> QED
  BY <1>1, <1>2, <1>3, <1>4, <1>6, QuietStep

--------------------------------------------------------------------------------
(* The steps that reserve, settle, deliver and retire.                     *)

\* A request reserves its wait, or is refused.
LEMMA RequestsKeep ==
  ASSUME LedgerInv, LedgerInv', WaitInv, NEW r \in Requesters, BeginWait(r) \/ ReserveWait(r)
  PROVE  WaitInv'
<1>1. /\ WaitTypeOK /\ RowsInv /\ PollersInv /\ ToldWhatIsRecorded
      /\ wait \in [Waits -> WaitRowType]
      /\ asker \in [Requesters -> [id : Waits \cup {NoWait}, rev : Nat]]
  BY DEF WaitInv, WaitTypeOK
<1>2. execution.rev \in Nat /\ execution.gen \in 0..MaxGeneration
  BY ExecutionFields DEF LedgerInv, LedgerTypeOK
<1>3. poller' = poller /\ told' = told
  BY DEF BeginWait, ReserveWait
<1>4. asker' \in [Requesters -> [id : Waits \cup {NoWait}, rev : Nat]]
  <2>1. CASE BeginWait(r)
    <3>1. PICK n \in Nodes, q \in Requests :
             asker' = [asker EXCEPT ![r] = [id |-> [gen |-> execution.gen, node |-> n, request |-> q],
                                            rev |-> execution.rev]]
      BY <2>1 DEF BeginWait
    <3>2. [gen |-> execution.gen, node |-> n, request |-> q] \in Waits
      BY <1>2 DEF Waits
    <3> QED
      BY <1>1, <1>2, <3>1, <3>2
  <2>2. CASE ReserveWait(r)
    <3>1. NoAsk \in [id : Waits \cup {NoWait}, rev : Nat]
      BY DEF NoAsk
    <3>2. asker' = [asker EXCEPT ![r] = NoAsk]
      BY <2>2 DEF ReserveWait
    <3> QED
      BY <1>1, <3>1, <3>2
  <2> QED
    BY <2>1, <2>2
<1>5. CASE wait' = wait /\ execution' = execution
  <2>1. execution.gen <= execution'.gen
    BY <1>5, GenerationTyped
  <2>2. WaitsGoOn /\ RowsInv' /\ ToldWhatIsRecorded'
    BY <1>1, <1>3, <1>5, <2>1, RowsUndisturbed
  <2>3. PollersInv' /\ poller' \in [Pollers -> PollerType]
    BY <1>1, <1>3, <2>2, PollersStay
  <2>4. WaitTypeOK'
    BY <1>1, <1>3, <1>4, <1>5, <2>3 DEF WaitTypeOK
  <2> QED
    BY <2>2, <2>3, <2>4 DEF WaitInv
<1>6. CASE \E rev : WaitAccepted(asker[r].id, rev) /\ reserve(asker[r].id) /\ asker[r] # NoAsk
  <2> DEFINE w == asker[r].id
  <2>1. PICK rev : WaitAccepted(w, rev) /\ reserve(w)
    BY <1>6
  <2>2. WaitWrites
    BY <2>1, ReserveWrites
  <2>3. wait' = [wait EXCEPT ![w] = [wait[w] EXCEPT !.state = "pending"]]
    BY <1>1, <2>1 DEF reserve
  <2>4. /\ execution'.gen = execution.gen /\ execution.gen <= execution'.gen
        /\ ~Over(execution) /\ execution.gen \in Nat
    BY <2>2, GenerationTyped DEF WaitWrites, ExecutionOver, ExecutionTerminal, Over
  <2>5. wait[w].state = "none" /\ w.gen = execution.gen
    BY <2>1 DEF WaitAccepted, BindingIsCurrent
  <2>6. ASSUME NEW v \in Waits
        PROVE  /\ wait'[v] \in WaitRowType
               /\ wait'[v].seen = wait[v].seen
               /\ wait'[v].state = IF v = w THEN "pending" ELSE wait[v].state
    <3>1. wait[v] \in WaitRowType
      BY <1>1
    <3>2. CASE v = w
      <4>1. wait'[v] = [wait[v] EXCEPT !.state = "pending"]
        BY <1>1, <2>3, <3>2
      <4> QED
        BY <3>1, <3>2, <4>1 DEF WaitRowType, WaitStates
    <3>3. CASE v # w
      BY <1>1, <2>3, <3>1, <3>3
    <3> QED
      BY <3>2, <3>3
  <2>7. WaitsGoOn
    BY <1>3, <2>4, <2>6 DEF WaitsGoOn
  <2>8. RowsInv'
    BY <1>1, <2>4, <2>5, <2>6 DEF RowsInv
  <2>9. ToldWhatIsRecorded'
    <3> SUFFICES ASSUME NEW v \in Waits
                 PROVE  /\ told'[v] # "none" => told'[v] = wait'[v].seen
                        /\ wait'[v].state = "notified" =>
                              told'[v] # "none" \/ ExecutionOver' \/ ~BindingIsCurrent(v)'
      BY DEF ToldWhatIsRecorded
    <3>1. told'[v] # "none" => told'[v] = wait'[v].seen
      BY <1>1, <1>3, <2>6 DEF ToldWhatIsRecorded
    <3>2. ASSUME wait'[v].state = "notified"
          PROVE  told'[v] # "none" \/ ExecutionOver' \/ ~BindingIsCurrent(v)'
      <4>1. wait[v].state = "notified"
        BY <2>6, <3>2
      <4>2. told[v] # "none" \/ ExecutionOver \/ ~BindingIsCurrent(v)
        BY <1>1, <4>1 DEF ToldWhatIsRecorded
      <4> QED
        BY <1>3, <2>4, <4>2 DEF ExecutionOver, ExecutionTerminal, Over, BindingIsCurrent
    <3> QED
      BY <3>1, <3>2
  <2>10. wait' \in [Waits -> WaitRowType]
    BY <1>1, <2>3, <2>6
  <2>11. PollersInv' /\ poller' \in [Pollers -> PollerType]
    BY <1>1, <1>3, <2>7, PollersStay
  <2>12. WaitTypeOK'
    BY <1>1, <1>3, <1>4, <2>10, <2>11 DEF WaitTypeOK
  <2> QED
    BY <2>8, <2>9, <2>11, <2>12 DEF WaitInv
<1> QED
  BY <1>5, <1>6 DEF BeginWait, ReserveWait, vars

\* An outcome is recorded once, and the poller that recorded it holds it.
LEMMA RecordTerminalKeeps ==
  ASSUME LedgerInv, LedgerInv', WaitInv, NEW p \in Pollers, RecordTerminal(p)
  PROVE  WaitInv'
<1> DEFINE w == Current(p)
<1> DEFINE o == poller[p].outcome
<1>1. /\ poller[p] \in PollerType /\ PollerOK(poller[p], wait, told, execution)
      /\ wait \in [Waits -> WaitRowType] /\ RowsInv /\ ToldWhatIsRecorded
      /\ poller[p].pc = "settle" /\ "settle" \in AtWork /\ poller[p].pc \in AtWork
      /\ w \in Waits /\ w = poller[p].cur.id /\ wait[w].state # "none"
  BY InHand DEF RecordTerminal, Is, AtWork
<1>2. UNCHANGED <<asker, told>>
  BY DEF RecordTerminal
<1>3. o \in Outcomes /\ o # "none"
  BY <1>1, PollerFields DEF PollerOK
<1>4. \/ /\ TerminalAccepted(p, w, poller[p].read)
         /\ record_terminal(w, o, poller[p].read)
         /\ Step(p, Drop(p, "reread"))
      \/ /\ \E x \in {"pend", "fail"} : Step(p, [Drop(p, x) EXCEPT !.outcome = "none"])
         /\ UNCHANGED <<wait, execution>>
  BY DEF RecordTerminal
<1>5. ASSUME TerminalAccepted(p, w, poller[p].read), record_terminal(w, o, poller[p].read),
             Step(p, Drop(p, "reread"))
      PROVE  WaitInv'
  <2> DEFINE s == IF o = "satisfied" THEN "ready" ELSE "failed"
  <2> DEFINE n == OneMore(wait[w].tries)
  <2> DEFINE row == [wait[w] EXCEPT !.state = s, !.seen = o, !.tries = n]
  <2>1. wait' = [wait EXCEPT ![w] = row]
    BY <1>1, <1>5 DEF record_terminal
  <2>2. wait[w] \in WaitRowType /\ n \in 0..MaxWaitFailures /\ s \in WaitStates
    BY <1>1, WaitRowFields, OneMoreTyped DEF WaitStates
  <2>3. s \in {"ready", "failed"}
    OBVIOUS
  <2> HIDE DEF n, s
  <2>4. row \in WaitRowType
    BY <1>3, <2>2 DEF WaitRowType
  <2>5. row.state = s /\ row.seen = o
    BY <2>2 DEF WaitRowType
  <2> HIDE DEF row
  <2>6. wait'[w] = row /\ \A v \in Waits : v # w => wait'[v] = wait[v]
    BY <1>1, <2>1
  <2>7. wait' \in [Waits -> WaitRowType]
    BY <1>1, <2>1, <2>4
  <2>8. wait[w].state = "pending" /\ wait[w].seen = "none" /\ told[w] = "none"
    BY <1>1, <1>5 DEF TerminalAccepted, PendingAccepted, RowsInv, ToldWhatIsRecorded
  <2>9. execution'.gen = execution.gen /\ (Over(execution) => Over(execution'))
    BY <1>5, RecordWrites DEF WaitWrites, ExecutionOver, ExecutionTerminal, Over
  <2>10. execution.gen <= execution'.gen
    BY <2>9, GenerationTyped
  <2>11. WaitsGoOn
    BY <1>2, <1>3, <2>3, <2>5, <2>6, <2>8, <2>9, <2>10 DEF WaitsGoOn
  <2>12. RowsInv'
    BY <1>1, <1>3, <2>3, <2>5, <2>6, <2>8, <2>9 DEF RowsInv
  <2>13. ToldWhatIsRecorded'
    <3> SUFFICES ASSUME NEW v \in Waits
                 PROVE  /\ told'[v] # "none" => told'[v] = wait'[v].seen
                        /\ wait'[v].state = "notified" =>
                              told'[v] # "none" \/ ExecutionOver' \/ ~BindingIsCurrent(v)'
      BY DEF ToldWhatIsRecorded
    <3>1. told'[v] # "none" => told'[v] = wait'[v].seen
      BY <1>1, <1>2, <2>6, <2>8 DEF ToldWhatIsRecorded
    <3>2. ASSUME wait'[v].state = "notified"
          PROVE  told'[v] # "none" \/ ExecutionOver' \/ ~BindingIsCurrent(v)'
      <4>1. wait[v].state = "notified"
        BY <2>3, <2>5, <2>6, <3>2
      <4>2. told[v] # "none" \/ ExecutionOver \/ ~BindingIsCurrent(v)
        BY <1>1, <4>1 DEF ToldWhatIsRecorded
      <4> QED
        BY <1>2, <2>9, <4>2 DEF ExecutionOver, ExecutionTerminal, Over, BindingIsCurrent
    <3> QED
      BY <3>1, <3>2
  <2> "reread" \in PollerPCs
    BY DEF PollerPCs, AtWork
  <2>14. /\ Drop(p, "reread") \in PollerType /\ Drop(p, "reread").pc = "reread"
         /\ Drop(p, "reread").batch = poller[p].batch /\ Drop(p, "reread").cur = poller[p].cur
         /\ Drop(p, "reread").outcome = o
    BY <1>1, DropTyped
  <2>15. PollerOK(Drop(p, "reread"), wait', told', execution')
    <3> DEFINE l == Drop(p, "reread")
    <3>1. \A c \in l.batch : wait'[c.id].state # "none" /\ (c.seen # "none" => c.seen = wait'[c.id].seen)
      <4> SUFFICES ASSUME NEW c \in poller[p].batch
                   PROVE  /\ wait'[c.id].state # "none"
                          /\ c.seen # "none" => c.seen = wait'[c.id].seen
        BY <2>14
      <4>1. c.id \in Waits
        BY <1>1, PollerFields, ClaimFields
      <4> QED
        BY <1>1, <2>11, <4>1 DEF PollerOK, WaitsGoOn
    <3>2. l.cur \in Claim /\ wait'[l.cur.id].state # "none" /\ l.outcome = wait'[l.cur.id].seen
      BY <1>1, <2>3, <2>5, <2>6, <2>14, InHand
    <3>3. l.pc = "reread" /\ l.outcome # "none"
      BY <1>3, <2>14
    <3> HIDE DEF l
    <3> QED
      BY <3>1, <3>2, <3>3 DEF PollerOK, l
  <2>16. PollersInv' /\ poller' \in [Pollers -> PollerType]
    BY <1>5, <2>11, <2>14, <2>15, PollerMoves DEF WaitInv
  <2>17. WaitTypeOK'
    BY <1>2, <2>7, <2>16 DEF WaitInv, WaitTypeOK
  <2> QED
    BY <2>12, <2>13, <2>16, <2>17 DEF WaitInv
<1>6. ASSUME NEW x \in {"pend", "fail"}, Step(p, [Drop(p, x) EXCEPT !.outcome = "none"]),
             UNCHANGED <<wait, execution>>
      PROVE  WaitInv'
  <2> DEFINE l == [Drop(p, x) EXCEPT !.outcome = "none"]
  <2>1. x \in PollerPCs
    BY DEF PollerPCs, AtWork
  <2>2. l \in PollerType /\ l.pc = x /\ l.batch = poller[p].batch /\ l.cur = poller[p].cur
    BY <1>1, <2>1, DropTyped
  <2>3. Step(p, l)
    BY <1>6
  <2> HIDE DEF l
  <2>4. PollerOK(l, wait, told, execution)
    BY <1>1, <2>2, AtHand
  <2> QED
    BY <1>1, <1>2, <1>6, <2>2, <2>3, <2>4, QuietStep
<1> QED
  BY <1>4, <1>5, <1>6

\* The parent is told the outcome the row has, and keeps the first it was told.
LEMMA NotifyObservationKeeps ==
  ASSUME LedgerInv, LedgerInv', WaitInv, NEW p \in Pollers, NotifyObservation(p)
  PROVE  WaitInv'
<1> DEFINE w == Current(p)
<1> DEFINE o == poller[p].outcome
<1>1. /\ poller[p] \in PollerType /\ PollerOK(poller[p], wait, told, execution)
      /\ wait \in [Waits -> WaitRowType] /\ RowsInv /\ ToldWhatIsRecorded
      /\ told \in [Waits -> Outcomes]
      /\ poller[p].pc = "notify" /\ poller[p].pc \in AtWork
      /\ w \in Waits /\ w = poller[p].cur.id /\ wait[w].state # "none"
  BY InHand DEF NotifyObservation, Is, AtWork
<1>2. UNCHANGED <<execution, wait, asker>>
  BY DEF NotifyObservation
<1>3. o \in Outcomes /\ o # "none" /\ o = wait[w].seen
  BY <1>1, PollerFields DEF PollerOK
<1>4. /\ \/ told' = Delivered(p) /\ Step(p, Move(p, "mark"))
         \/ told' \in {told, Delivered(p)} /\ Step(p, Done(p))
  BY DEF NotifyObservation
<1>5. CASE told' = told
  <2>1. Done(p) \in PollerType /\ PollerOK(Done(p), wait, told, execution)
    BY RestOK DEF Done
  <2>2. CASE Step(p, Done(p))
    BY <1>1, <1>2, <1>5, <2>1, <2>2, QuietStep
  <2>3. CASE Step(p, Move(p, "mark")) /\ told' = Delivered(p)
    <3>1. told[w] # "none"
      BY <1>1, <1>3, <1>5, <2>3 DEF Delivered
    <3>2. /\ Move(p, "mark") \in PollerType /\ Move(p, "mark").pc = "mark"
          /\ Move(p, "mark").batch = poller[p].batch /\ Move(p, "mark").cur = poller[p].cur
          /\ Move(p, "mark").outcome = o
      BY <1>1, MoveTyped DEF PollerPCs, AtWork
    <3>3. PollerOK(Move(p, "mark"), wait, told, execution)
      BY <1>1, <1>3, <3>1, <3>2, InHand DEF PollerOK, AtWork
    <3> QED
      BY <1>1, <1>2, <1>5, <2>3, <3>2, <3>3, QuietStep
  <2> QED
    BY <1>4, <2>2, <2>3
<1>6. CASE told' = Delivered(p)
  <2>1. told' = [told EXCEPT ![w] = IF told[w] = "none" THEN o ELSE told[w]]
    BY <1>1, <1>6 DEF Delivered
  <2>2. /\ told' \in [Waits -> Outcomes] /\ told'[w] = wait[w].seen /\ told'[w] # "none"
        /\ \A v \in Waits : v # w => told'[v] = told[v]
    BY <1>1, <1>3, <2>1 DEF ToldWhatIsRecorded
  <2>3. \A v \in Waits : told[v] # "none" => told'[v] = told[v]
    BY <1>1, <2>1
  <2>4. execution.gen <= execution'.gen
    BY <1>2, GenerationTyped
  <2>5. WaitsGoOn
    BY <1>2, <2>3, <2>4 DEF WaitsGoOn
  <2>6. RowsInv'
    BY <1>1, <1>2 DEF RowsInv
  <2>7. ToldWhatIsRecorded'
    <3> SUFFICES ASSUME NEW v \in Waits
                 PROVE  /\ told'[v] # "none" => told'[v] = wait'[v].seen
                        /\ wait'[v].state = "notified" =>
                              told'[v] # "none" \/ ExecutionOver' \/ ~BindingIsCurrent(v)'
      BY DEF ToldWhatIsRecorded
    <3>1. CASE v = w
      BY <1>2, <2>2, <3>1
    <3>2. CASE v # w
      BY <1>1, <1>2, <2>2, <3>2
         DEF ToldWhatIsRecorded, ExecutionOver, ExecutionTerminal, BindingIsCurrent
    <3> QED
      BY <3>1, <3>2
  <2>8. /\ Move(p, "mark") \in PollerType /\ Move(p, "mark").pc = "mark"
        /\ Move(p, "mark").batch = poller[p].batch /\ Move(p, "mark").cur = poller[p].cur
        /\ Move(p, "mark").outcome = o
    BY <1>1, MoveTyped DEF PollerPCs, AtWork
  <2>9. PollerOK(Move(p, "mark"), wait', told', execution')
    <3> DEFINE l == Move(p, "mark")
    <3>1. /\ \A c \in l.batch : wait[c.id].state # "none" /\ (c.seen # "none" => c.seen = wait[c.id].seen)
          /\ l.cur \in Claim /\ wait[l.cur.id].state # "none"
      BY <1>1, <2>8, InHand DEF PollerOK
    <3>2. l.outcome # "none" /\ l.outcome = wait[l.cur.id].seen /\ told'[l.cur.id] # "none"
      BY <1>1, <1>3, <2>2, <2>8
    <3>3. l.pc = "mark"
      BY <2>8
    <3> HIDE DEF l
    <3>4. PollerOK(l, wait, told', execution)
      BY <3>1, <3>2, <3>3 DEF PollerOK
    <3> QED
      BY <1>2, <3>4 DEF l
  <2>10. Done(p) \in PollerType /\ PollerOK(Done(p), wait', told', execution')
    <3>1. Done(p) \in PollerType /\ PollerOK(Done(p), wait, told, execution)
      BY RestOK DEF Done
    <3> QED
      BY <1>1, <2>5, <3>1, PollerOKStays
  <2>11. PollersInv' /\ poller' \in [Pollers -> PollerType]
    <3>1. CASE Step(p, Move(p, "mark"))
      BY <2>5, <2>8, <2>9, <3>1, PollerMoves DEF WaitInv
    <3>2. CASE Step(p, Done(p))
      BY <2>5, <2>10, <3>2, PollerMoves DEF WaitInv
    <3> QED
      BY <1>4, <3>1, <3>2
  <2>12. WaitTypeOK'
    BY <1>2, <2>2, <2>11 DEF WaitInv, WaitTypeOK
  <2> QED
    BY <2>6, <2>7, <2>11, <2>12 DEF WaitInv
<1> QED
  BY <1>4, <1>5, <1>6

\* A wait is marked notified once its parent was told, or nobody is to be told.
LEMMA MarkWaitNotifiedKeeps ==
  ASSUME LedgerInv, LedgerInv', WaitInv, NEW p \in Pollers, MarkWaitNotified(p)
  PROVE  WaitInv'
<1> DEFINE w == Current(p)
<1>1. /\ poller[p] \in PollerType /\ PollerOK(poller[p], wait, told, execution)
      /\ wait \in [Waits -> WaitRowType] /\ RowsInv /\ ToldWhatIsRecorded
      /\ poller[p].pc \in {"mark", "retire"} /\ poller[p].pc \in AtWork
      /\ w \in Waits /\ w = poller[p].cur.id
  BY InHand DEF MarkWaitNotified, Is, AtWork
<1>2. UNCHANGED <<execution, asker, told>>
  BY DEF MarkWaitNotified, vars
<1>3. Step(p, Done(p)) \/ Step(p, IdlePoller)
  BY DEF MarkWaitNotified
<1>4. /\ Done(p) \in PollerType /\ PollerOK(Done(p), wait, told, execution)
      /\ IdlePoller \in PollerType /\ PollerOK(IdlePoller, wait, told, execution)
  BY RestOK DEF Done
<1>5. CASE wait' = wait
  BY <1>1, <1>2, <1>3, <1>4, <1>5, QuietStep
<1>6. CASE Settled(w) /\ mark_notified(w)
  <2> DEFINE row == [wait[w] EXCEPT !.state = "notified", !.holder = Nobody, !.live = FALSE]
  <2>1. wait' = [wait EXCEPT ![w] = row]
    BY <1>1, <1>6 DEF mark_notified
  <2>2. wait[w] \in WaitRowType
    BY <1>1
  <2>3. row \in WaitRowType /\ row.state = "notified" /\ row.seen = wait[w].seen
    BY <2>2 DEF WaitRowType, WaitStates
  <2> HIDE DEF row
  <2>4. wait'[w] = row /\ \A v \in Waits : v # w => wait'[v] = wait[v]
    BY <1>1, <2>1
  <2>5. wait' \in [Waits -> WaitRowType]
    BY <1>1, <2>1, <2>3
  <2>6. execution.gen <= execution'.gen
    BY <1>2, GenerationTyped
  <2>7. wait[w].state \in {"ready", "failed"}
    BY <1>6 DEF Settled
  <2>8. WaitsGoOn
    BY <1>2, <2>3, <2>4, <2>6 DEF WaitsGoOn
  <2>9. RowsInv'
    BY <1>1, <1>2, <2>3, <2>4, <2>7 DEF RowsInv
  <2>10. told[w] # "none" \/ Over(execution) \/ execution.gen # w.gen
    BY <1>1 DEF PollerOK
  <2>11. ToldWhatIsRecorded'
    <3> SUFFICES ASSUME NEW v \in Waits
                 PROVE  /\ told'[v] # "none" => told'[v] = wait'[v].seen
                        /\ wait'[v].state = "notified" =>
                              told'[v] # "none" \/ ExecutionOver' \/ ~BindingIsCurrent(v)'
      BY DEF ToldWhatIsRecorded
    <3>1. CASE v = w
      BY <1>1, <1>2, <2>3, <2>4, <2>10, <3>1
         DEF ToldWhatIsRecorded, Over, ExecutionOver, ExecutionTerminal, BindingIsCurrent
    <3>2. CASE v # w
      BY <1>1, <1>2, <2>4, <3>2
         DEF ToldWhatIsRecorded, ExecutionOver, ExecutionTerminal, BindingIsCurrent
    <3> QED
      BY <3>1, <3>2
  <2>12. /\ PollerOK(Done(p), wait', told', execution')
         /\ PollerOK(IdlePoller, wait', told', execution')
    BY <1>1, <1>4, <2>8, PollerOKStays
  <2>13. PollersInv' /\ poller' \in [Pollers -> PollerType]
    BY <1>3, <1>4, <2>8, <2>12, PollerMoves DEF WaitInv
  <2>14. WaitTypeOK'
    BY <1>2, <2>5, <2>13 DEF WaitInv, WaitTypeOK
  <2> QED
    BY <2>9, <2>11, <2>13, <2>14 DEF WaitInv
<1> QED
  BY <1>5, <1>6 DEF MarkWaitNotified, MarkAccepted

\* A poller that dies forgets its batch.
LEMMA PollerCrashKeeps ==
  ASSUME LedgerInv, LedgerInv', WaitInv, NEW p \in Pollers, PollerCrash(p)
  PROVE  WaitInv'
<1>1. wait \in [Waits -> WaitRowType] /\ UNCHANGED <<execution, asker, told, wait>>
  BY DEF PollerCrash, WaitInv, WaitTypeOK
<1>2. Step(p, IdlePoller)
  BY DEF PollerCrash
<1>3. IdlePoller \in PollerType /\ PollerOK(IdlePoller, wait, told, execution)
  BY RestOK
<1> QED
  BY <1>1, <1>2, <1>3, QuietStep

\* A lease that runs out changes nothing else.
LEMMA WaitLeaseKeeps ==
  ASSUME LedgerInv, LedgerInv', WaitInv, NEW w \in Waits, WaitLeaseRunsOut(w)
  PROVE  WaitInv'
<1>1. /\ WaitTypeOK /\ RowsInv /\ PollersInv /\ ToldWhatIsRecorded
      /\ wait \in [Waits -> WaitRowType]
      /\ UNCHANGED <<execution, asker, told, poller>>
  BY DEF WaitLeaseRunsOut, WaitInv, WaitTypeOK
<1> DEFINE row == [wait[w] EXCEPT !.live = FALSE]
<1>2. wait' = [wait EXCEPT ![w] = row]
  BY <1>1 DEF WaitLeaseRunsOut
<1>3. row \in WaitRowType /\ row.state = wait[w].state /\ row.seen = wait[w].seen
  <2>1. wait[w] \in WaitRowType
    BY <1>1
  <2> QED
    BY <2>1 DEF WaitRowType
<1> HIDE DEF row
<1>4. /\ wait' \in [Waits -> WaitRowType]
      /\ \A v \in Waits : wait'[v].state = wait[v].state /\ wait'[v].seen = wait[v].seen
  BY <1>1, <1>2, <1>3
<1>5. execution.gen <= execution'.gen
  BY <1>1, GenerationTyped
<1>6. WaitsGoOn /\ RowsInv' /\ ToldWhatIsRecorded'
  BY <1>1, <1>4, <1>5, RowsUndisturbed
<1>7. PollersInv'
  BY <1>1, <1>6, PollersStay
<1>8. WaitTypeOK'
  BY <1>1, <1>4 DEF WaitTypeOK
<1> QED
  BY <1>6, <1>7, <1>8 DEF WaitInv

--------------------------------------------------------------------------------
(* The engine's steps, and the invariant.                                  *)

\* The generation of the execution never goes back, and a finished or canceled
\* execution stays so.
LEMMA EngineGoesOn ==
  ASSUME SInv, [Next]_vars
  PROVE  execution.gen <= execution'.gen /\ (Over(execution) => Over(execution'))
<1>1. LedgerChange /\ SInv'
  BY LedgerSteps, LifeSteps
<1>2. execution.gen \in Nat /\ execution'.gen \in Nat
  BY <1>1, GenerationTyped DEF SInv, IInv
<1>3. execution.gen <= execution'.gen
  BY <1>1, <1>2 DEF LedgerChange, ExecutionChange, GenerationChange
<1>4. execution.cancel => execution'.cancel
  BY <1>1 DEF LedgerChange, ExecutionChange, RevisionChange
<1>5. ExecutionStaysFinished \/ execution' = execution
  BY StepHolds DEF SInv, vars
<1>6. ExecutionTerminal => execution'.state \in TERMINAL_EXECUTION_STATES
  BY <1>5 DEF ExecutionStaysFinished, ExecutionTerminal
<1> QED
  BY <1>3, <1>4, <1>6 DEF Over, ExecutionTerminal

\* Every step of the system keeps what is known of the waits.
LEMMA WaitInvSteps ==
  ASSUME SInv, WaitInv, [WaitNext]_waitVars
  PROVE  WaitInv'
<1>1. LedgerInv /\ LedgerInv' /\ (WaitStep \/ ([Next]_vars /\ UNCHANGED waitState))
  BY EngineSteps DEF SInv, IInv
<1>2. CASE WaitStep
  <2>1. ASSUME NEW p \in Pollers, Poll(p)
        PROVE  WaitInv'
    BY <1>1, <2>1, ClaimWaitsKeeps, ReadForWaitKeeps, ObserveKeeps, RecordPendingKeeps,
       HandleFailureKeeps, EscalateKeeps, RecordTerminalKeeps, RereadKeeps,
       NotifyObservationKeeps, MarkWaitNotifiedKeeps DEF Poll
  <2> QED
    BY <1>1, <1>2, <2>1, RequestsKeep, PollerCrashKeeps, WaitLeaseKeeps DEF WaitStep
<1>3. CASE [Next]_vars /\ UNCHANGED waitState
  <2>1. /\ WaitTypeOK /\ RowsInv /\ PollersInv /\ ToldWhatIsRecorded
        /\ UNCHANGED <<wait, poller, asker, told>>
    BY <1>3 DEF WaitInv, waitState
  <2>2. WaitsGoOn /\ RowsInv' /\ ToldWhatIsRecorded'
    BY <1>1, <1>3, <2>1, EngineGoesOn, RowsUndisturbed
  <2>3. PollersInv'
    BY <1>1, <2>1, <2>2, PollersStay
  <2>4. WaitTypeOK'
    BY <2>1 DEF WaitTypeOK
  <2> QED
    BY <2>2, <2>3, <2>4 DEF WaitInv
<1> QED
  BY <1>1, <1>2, <1>3

\* At first there is no wait, and nobody is at work.
LEMMA WaitInitHolds == WaitInit => SInv /\ WaitInv
<1> SUFFICES ASSUME WaitInit PROVE SInv /\ WaitInv
  OBVIOUS
<1>1. SInv
  BY LifeInit DEF WaitInit
<1>2. /\ wait = [w \in Waits |-> NoWaitRow] /\ poller = [p \in Pollers |-> IdlePoller]
      /\ asker = [r \in Requesters |-> NoAsk] /\ told = [w \in Waits |-> "none"]
  BY DEF WaitInit
<1>3. NoWaitRow \in WaitRowType /\ NoWaitRow.state = "none" /\ NoWaitRow.seen = "none"
  BY WaitAssumption DEF NoWaitRow, WaitRowType, WaitStates, Outcomes
<1>4. WaitTypeOK
  BY <1>2, <1>3, IdlePollerTyped DEF WaitTypeOK, NoAsk, Outcomes
<1>5. RowsInv
  BY <1>2, <1>3 DEF RowsInv
<1>6. PollersInv
  BY <1>2, IdlePollerTyped, AtRest DEF PollersInv
<1>7. ToldWhatIsRecorded
  BY <1>2, <1>3 DEF ToldWhatIsRecorded
<1> QED
  BY <1>1, <1>4, <1>5, <1>6, <1>7 DEF WaitInv

\* What is known of the engine and of the waits holds in every reachable state.
LEMMA WaitsHold == WaitSpec => [](SInv /\ WaitInv)
<1>1. SInv /\ WaitInv /\ [WaitNext]_waitVars => (SInv /\ WaitInv)'
  BY EngineSteps, WaitInvSteps
<1> QED
  BY WaitInitHolds, <1>1, PTL DEF WaitSpec

\* In every reachable state every wait, poller, request and delivery has its type.
THEOREM WaitTypeCorrect == WaitSpec => []WaitTypeOK
<1>1. SInv /\ WaitInv => WaitTypeOK
  BY DEF WaitInv
<1> QED
  BY <1>1, WaitsHold, PTL

\* Whoever polls, loses its lease, fails or crashes: the parent only ever hears
\* the one outcome the row recorded, and a wait is not closed before it did,
\* unless its execution was over or had expanded again.
THEOREM ToldIsRecorded == WaitSpec => []ToldWhatIsRecorded
<1>1. SInv /\ WaitInv => ToldWhatIsRecorded
  BY DEF WaitInv
<1> QED
  BY <1>1, WaitsHold, PTL

--------------------------------------------------------------------------------
(* The suspension reason speaks of a wait of its own generation.           *)

\* SuspensionNamesWait, spelled out.
SuspensionInv ==
    /\ execution.reason = "awaiting_condition" =>
          \E w \in Waits : w.gen = execution.gen /\ wait[w].state = "pending"
    /\ execution.reason = "wait_observed" =>
          \E w \in Waits : w.gen = execution.gen /\ wait[w].seen = "satisfied"
    /\ execution.reason = "wait_failed" =>
          \E w \in Waits : w.gen = execution.gen /\ wait[w].seen = "failed"
    /\ execution.reason \in WaitReasons => ~ExecutionOver

\* The engine projects no reason that speaks of a wait.
TargetsInv == \A p \in Processes : proc[p].pc = "update" => proc[p].target.reason \notin WaitReasons

\* A request names a wait.
AsksInv == \A r \in Requesters : asker[r] = NoAsk \/ asker[r].id \in Waits

\* It is the property.
LEMMA SuspensionStated == SuspensionInv => SuspensionNamesWait
  BY DEF SuspensionInv, SuspensionNamesWait, BindingIsCurrent

\* A step of the waits leaves the current generation's pending waits pending and
\* its outcomes alone, or suspends the execution with a reason that is true.
WaitSuspends ==
    \/ /\ execution' = execution
       /\ \A w \in Waits : w.gen = execution.gen =>
             /\ wait[w].state = "pending" => wait'[w].state = "pending"
             /\ wait[w].seen # "none" => wait'[w].seen = wait[w].seen
    \/ /\ WaitWrites
       /\ execution'.reason = "awaiting_condition"
       /\ \E w \in Waits : w.gen = execution.gen /\ wait'[w].state = "pending"
    \/ /\ WaitWrites
       /\ execution'.reason = "wait_observed"
       /\ \E w \in Waits : w.gen = execution.gen /\ wait'[w].seen = "satisfied"
    \/ /\ WaitWrites
       /\ execution'.reason = "wait_failed"
       /\ \E w \in Waits : w.gen = execution.gen /\ wait'[w].seen = "failed"

\* An accepted request suspends on its wait.
LEMMA ReserveSuspends ==
  ASSUME LedgerInv, WaitInv, AsksInv, NEW r \in Requesters, ReserveWait(r)
  PROVE  WaitSuspends
<1> DEFINE w == asker[r].id
<1>1. wait \in [Waits -> WaitRowType] /\ w \in Waits
  BY DEF WaitInv, WaitTypeOK, AsksInv, ReserveWait
<1>2. CASE UNCHANGED <<wait, execution>>
  BY <1>2 DEF WaitSuspends
<1>3. CASE WaitAccepted(w, asker[r].rev) /\ reserve(w)
  <2>1. WaitWrites
    BY <1>3, ReserveWrites
  <2>2. execution'.reason = "awaiting_condition"
    <3>1. execution \in ExecutionType
      BY DEF LedgerInv, LedgerTypeOK
    <3> QED
      BY <1>3, <3>1 DEF reserve, ExecutionType
  <2>3. w.gen = execution.gen /\ wait[w].state = "none"
    BY <1>3 DEF WaitAccepted, BindingIsCurrent
  <2>4. wait'[w] = [wait[w] EXCEPT !.state = "pending"]
    BY <1>1, <1>3 DEF reserve
  <2>5. wait'[w].state = "pending"
    BY <1>1, <2>4 DEF WaitRowType
  <2> QED
    BY <1>1, <2>1, <2>2, <2>3, <2>5 DEF WaitSuspends
<1> QED
  BY <1>2, <1>3 DEF ReserveWait

\* A recorded outcome suspends with its reason, or is that of an older wait.
LEMMA RecordSuspends ==
  ASSUME LedgerInv, LedgerInv', WaitInv, NEW p \in Pollers, RecordTerminal(p)
  PROVE  WaitSuspends
<1> DEFINE w == Current(p)
<1> DEFINE o == poller[p].outcome
<1> DEFINE read == poller[p].read
<1>1. /\ poller[p] \in PollerType /\ PollerOK(poller[p], wait, told, execution)
      /\ wait \in [Waits -> WaitRowType] /\ RowsInv
      /\ poller[p].pc = "settle" /\ poller[p].pc \in AtWork
      /\ w \in Waits /\ w = poller[p].cur.id /\ w.gen \in Nat
  BY InHand DEF RecordTerminal, Is, AtWork
<1>2. /\ o \in {"satisfied", "failed"}
      /\ w.gen <= read.gen /\ read.gen <= execution.gen
      /\ read.gen \in Nat /\ execution.gen \in Nat
  BY <1>1, PollerFields, GenerationTyped DEF PollerOK, Outcomes
<1>3. CASE UNCHANGED <<wait, execution>>
  BY <1>3 DEF WaitSuspends
<1>4. CASE TerminalAccepted(p, w, read) /\ record_terminal(w, o, read)
  <2> DEFINE s == IF o = "satisfied" THEN "ready" ELSE "failed"
  <2> DEFINE n == OneMore(wait[w].tries)
  <2> DEFINE row == [wait[w] EXCEPT !.state = s, !.seen = o, !.tries = n]
  <2>1. wait' = [wait EXCEPT ![w] = row]
    BY <1>1, <1>4 DEF record_terminal
  <2>2. wait[w] \in WaitRowType
    BY <1>1
  <2> HIDE DEF n, s
  <2>3. row.seen = o
    BY <2>2 DEF WaitRowType
  <2> HIDE DEF row
  <2>4. wait'[w].seen = o /\ \A v \in Waits : v # w => wait'[v] = wait[v]
    BY <1>1, <2>1, <2>3
  <2>5. CASE read.gen = w.gen
    <3>1. w.gen = execution.gen
      BY <1>4, <2>5 DEF TerminalAccepted, BindingIsCurrent
    <3>2. WaitWrites
      BY <1>4, <2>5, RecordWrites
    <3>3. execution'.reason = IF o = "satisfied" THEN "wait_observed" ELSE "wait_failed"
      <4> DEFINE r == IF o = "satisfied" THEN "wait_observed" ELSE "wait_failed"
      <4>1. execution \in ExecutionType
        BY DEF LedgerInv, LedgerTypeOK
      <4>2. execution' = [execution EXCEPT !.reason = r, !.rev = @ + 1]
        BY <1>4, <2>5 DEF record_terminal
      <4> HIDE DEF r
      <4>3. execution'.reason = r
        BY <4>1, <4>2 DEF ExecutionType
      <4> QED
        BY <4>3 DEF r
    <3>4. CASE o = "satisfied"
      BY <1>1, <2>4, <3>1, <3>2, <3>3, <3>4 DEF WaitSuspends
    <3>5. CASE o = "failed"
      BY <1>1, <2>4, <3>1, <3>2, <3>3, <3>5 DEF WaitSuspends
    <3> QED
      BY <1>2, <3>4, <3>5
  <2>6. CASE read.gen # w.gen
    <3>1. w.gen # execution.gen
      BY <1>1, <1>2, <2>6
    <3>2. execution' = execution
      BY <1>4, <2>6, RecordWrites
    <3> QED
      BY <2>4, <3>1, <3>2 DEF WaitSuspends
  <2> QED
    BY <2>5, <2>6
<1> QED
  BY <1>3, <1>4 DEF RecordTerminal

\* A notified wait was settled, and keeps its outcome.
LEMMA MarkSuspends ==
  ASSUME WaitInv, NEW p \in Pollers, MarkWaitNotified(p)
  PROVE  WaitSuspends
<1> DEFINE w == Current(p)
<1>1. wait \in [Waits -> WaitRowType] /\ w \in Waits /\ execution' = execution
  BY InHand DEF MarkWaitNotified, Is, AtWork, vars
<1>2. CASE wait' = wait
  BY <1>1, <1>2 DEF WaitSuspends
<1>3. CASE Settled(w) /\ mark_notified(w)
  <2> DEFINE row == [wait[w] EXCEPT !.state = "notified", !.holder = Nobody, !.live = FALSE]
  <2>1. wait' = [wait EXCEPT ![w] = row]
    BY <1>1, <1>3 DEF mark_notified
  <2>2. wait[w] \in WaitRowType
    BY <1>1
  <2>3. row.seen = wait[w].seen
    BY <2>2 DEF WaitRowType
  <2> HIDE DEF row
  <2>4. wait'[w].seen = wait[w].seen /\ \A v \in Waits : v # w => wait'[v] = wait[v]
    BY <1>1, <2>1, <2>3
  <2>5. wait[w].state # "pending"
    BY <1>3 DEF Settled
  <2> QED
    BY <1>1, <2>4, <2>5 DEF WaitSuspends
<1> QED
  BY <1>2, <1>3 DEF MarkWaitNotified, MarkAccepted

\* Leases, claims and failure counts change neither state nor outcome.
LEMMA LeasesSuspendNothing ==
  ASSUME WaitInv,
         \/ \E p \in Pollers : ClaimWaits(p) \/ RecordPending(p)
         \/ \E w \in Waits : WaitLeaseRunsOut(w)
  PROVE  WaitSuspends
<1>1. \A w \in Waits : wait[w] \in WaitRowType
  BY DEF WaitInv, WaitTypeOK
<1>2. execution' = execution
  BY DEF ClaimWaits, RecordPending, WaitLeaseRunsOut, vars
<1>3. ASSUME NEW v \in Waits
      PROVE  wait'[v].state = wait[v].state /\ wait'[v].seen = wait[v].seen
  <2>1. ASSUME NEW p \in Pollers, ClaimWaits(p)
        PROVE  wait'[v].state = wait[v].state /\ wait'[v].seen = wait[v].seen
    <3>1. wait'[v] = wait[v] \/ wait'[v] = [wait[v] EXCEPT !.holder = p, !.live = TRUE]
      BY <2>1 DEF ClaimWaits, claim_due
    <3> QED
      BY <1>1, <3>1 DEF WaitRowType
  <2>2. ASSUME NEW p \in Pollers, RecordPending(p)
        PROVE  wait'[v].state = wait[v].state /\ wait'[v].seen = wait[v].seen
    <3> DEFINE n == OneMore(wait[v].tries)
    <3>1. \/ wait'[v] = wait[v]
          \/ wait'[v] = [wait[v] EXCEPT !.tries = n, !.holder = Nobody, !.live = FALSE]
      BY <1>1, <2>2 DEF RecordPending, record_pending, WaitInv, WaitTypeOK
    <3> HIDE DEF n
    <3> QED
      BY <1>1, <3>1 DEF WaitRowType
  <2>3. ASSUME NEW w \in Waits, WaitLeaseRunsOut(w)
        PROVE  wait'[v].state = wait[v].state /\ wait'[v].seen = wait[v].seen
    <3>1. wait'[v] = wait[v] \/ wait'[v] = [wait[v] EXCEPT !.live = FALSE]
      BY <1>1, <2>3 DEF WaitLeaseRunsOut, WaitInv, WaitTypeOK
    <3> QED
      BY <1>1, <3>1 DEF WaitRowType
  <2> QED
    BY <2>1, <2>2, <2>3
<1> QED
  BY <1>2, <1>3 DEF WaitSuspends

\* Every step of the waits suspends truly, or not at all.
LEMMA WaitsSuspend ==
  ASSUME LedgerInv, LedgerInv', WaitInv, AsksInv, WaitStep
  PROVE  WaitSuspends
<1>1. ASSUME NEW r \in Requesters, BeginWait(r) \/ ReserveWait(r)
      PROVE  WaitSuspends
  <2>1. CASE BeginWait(r)
    BY <2>1 DEF BeginWait, vars, WaitSuspends
  <2> QED
    BY <1>1, <2>1, ReserveSuspends
<1>2. ASSUME NEW p \in Pollers, Poll(p) \/ PollerCrash(p)
      PROVE  WaitSuspends
  <2>1. CASE \/ ReadForWait(p) \/ Observe(p) \/ HandleFailure(p) \/ Escalate(p) \/ Reread(p)
             \/ NotifyObservation(p) \/ PollerCrash(p)
    <3>1. wait' = wait /\ execution' = execution
      BY <2>1 DEF ReadForWait, Observe, HandleFailure, Escalate, Reread, NotifyObservation,
         PollerCrash, vars
    <3> QED
      BY <3>1 DEF WaitSuspends
  <2> QED
    BY <1>2, <2>1, RecordSuspends, MarkSuspends, LeasesSuspendNothing DEF Poll
<1> QED
  BY <1>1, <1>2, LeasesSuspendNothing DEF WaitStep

\* Only BeginWait makes a request, and it names a wait.
LEMMA AsksStep ==
  ASSUME LedgerInv, WaitTypeOK, AsksInv, WaitStep \/ UNCHANGED waitState
  PROVE  AsksInv'
<1>1. /\ asker \in [Requesters -> [id : Waits \cup {NoWait}, rev : Nat]]
      /\ execution.gen \in 0..MaxGeneration
  BY ExecutionFields DEF WaitTypeOK, LedgerInv, LedgerTypeOK
<1>2. CASE asker' = asker
  BY <1>2 DEF AsksInv
<1>3. ASSUME NEW r \in Requesters, BeginWait(r)
      PROVE  AsksInv'
  <2>1. PICK n \in Nodes, q \in Requests :
           asker' = [asker EXCEPT ![r] = [id |-> [gen |-> execution.gen, node |-> n, request |-> q],
                                          rev |-> execution.rev]]
    BY <1>3 DEF BeginWait
  <2>2. asker'[r].id \in Waits /\ \A s \in Requesters : s # r => asker'[s] = asker[s]
    BY <1>1, <2>1 DEF Waits
  <2> QED
    BY <2>2 DEF AsksInv
<1>4. ASSUME NEW r \in Requesters, ReserveWait(r)
      PROVE  AsksInv'
  <2>1. asker' = [asker EXCEPT ![r] = NoAsk]
    BY <1>4 DEF ReserveWait
  <2> QED
    BY <1>1, <2>1 DEF AsksInv
<1>5. ASSUME NEW p \in Pollers, Poll(p) \/ PollerCrash(p)
      PROVE  asker' = asker
  BY <1>5 DEF Poll, ClaimWaits, ReadForWait, Observe, RecordPending, HandleFailure, Escalate,
     RecordTerminal, Reread, NotifyObservation, MarkWaitNotified, PollerCrash
<1>6. ASSUME NEW w \in Waits, WaitLeaseRunsOut(w)
      PROVE  asker' = asker
  BY <1>6 DEF WaitLeaseRunsOut
<1> QED
  BY <1>2, <1>3, <1>4, <1>5, <1>6 DEF WaitStep, waitState

\* What _project_join would write is the end of a cancellation, the state of a
\* join that is not ready, or the parent's continuation.
LEMMA TargetsStep ==
  ASSUME SInv, TargetsInv, [Next]_vars \/ proc' = proc
  PROVE  TargetsInv'
<1> SUFFICES ASSUME NEW p \in Processes, proc'[p].pc = "update"
             PROVE  proc'[p].target.reason \notin WaitReasons
  BY DEF TargetsInv
<1>1. proc'[p] = proc[p] \/ Arrives(p)
  BY ProcessArrives
<1>2. CASE proc'[p] = proc[p]
  BY <1>2 DEF TargetsInv
<1>3. Canceled.reason \notin WaitReasons
  BY DEF Canceled, WaitReasons
<1>4. CASE ReadChildren(p)
  BY <1>3, <1>4, ReadChildrenBrings
<1>5. CASE ReadJoin(p)
  <2> DEFINE Unready == {[state |-> "blocked", reason |-> "child_failed"],
                         [state |-> "blocked", reason |-> "child_blocked"],
                         [state |-> "waiting", reason |-> "awaiting_children"]}
  <2>1. proc'[p].target = Canceled \/ proc'[p].target \in Unready
    BY <1>5, ReadJoinBrings
  <2>2. \A t \in Unready : t.reason \notin WaitReasons
    BY DEF WaitReasons
  <2> QED
    BY <1>3, <2>1, <2>2
<1>6. CASE ResumeParent(p)
  <2>1. proc'[p].target = [state |-> "running", reason |-> "children_contract_valid"]
    BY <1>6, ResumeParentBrings
  <2> QED
    BY <2>1 DEF WaitReasons
<1> QED
  BY <1>1, <1>2, <1>4, <1>5, <1>6 DEF Arrives

\* A step of the engine that leaves a reason of a wait found it there, in an
\* open execution, and leaves the execution open.
LEMMA EngineKeepsReason ==
  ASSUME SInv, LedgerChange, TargetsInv, execution'.reason \in WaitReasons
  PROVE  /\ execution'.reason = execution.reason
         /\ execution'.gen = execution.gen
         /\ ~ExecutionOver => ~ExecutionOver'
<1>1. ReasonChange /\ GenerationChange
  BY DEF LedgerChange, ExecutionChange
<1>2. ASSUME NEW p \in Processes, Projects(p)
      PROVE  FALSE
  BY <1>2 DEF Projects, At, TargetsInv
<1>3. /\ execution'.reason = execution.reason
      /\ ExecutionTerminal \/ (execution'.state = execution.state /\ execution'.cancel = execution.cancel)
  BY <1>1, <1>2 DEF ReasonChange
<1>4. execution'.reason # "awaiting_children"
  BY DEF WaitReasons
<1>5. execution'.gen = execution.gen
  BY <1>1, <1>4 DEF GenerationChange
<1> QED
  BY <1>3, <1>5 DEF ExecutionOver, ExecutionTerminal

\* No step makes the suspension reason untrue.
LEMMA SuspensionStep ==
  ASSUME SInv, WaitInv, TargetsInv, AsksInv, SuspensionInv, [WaitNext]_waitVars
  PROVE  SuspensionInv'
<1>1. LedgerInv /\ LedgerInv' /\ (WaitStep \/ ([Next]_vars /\ UNCHANGED waitState))
  BY EngineSteps DEF SInv, IInv
<1>2. CASE WaitStep
  <2>1. WaitSuspends
    BY <1>1, <1>2, WaitsSuspend
  <2>2. CASE /\ execution' = execution
             /\ \A w \in Waits : w.gen = execution.gen =>
                   /\ wait[w].state = "pending" => wait'[w].state = "pending"
                   /\ wait[w].seen # "none" => wait'[w].seen = wait[w].seen
    BY <2>2 DEF SuspensionInv, ExecutionOver, ExecutionTerminal
  <2>3. CASE WaitWrites
    <3>1. execution'.gen = execution.gen /\ ~ExecutionOver'
      BY <2>3 DEF WaitWrites, ExecutionOver, ExecutionTerminal, TERMINAL_EXECUTION_STATES
    <3>2. \/ /\ execution'.reason = "awaiting_condition"
             /\ \E w \in Waits : w.gen = execution'.gen /\ wait'[w].state = "pending"
          \/ /\ execution'.reason = "wait_observed"
             /\ \E w \in Waits : w.gen = execution'.gen /\ wait'[w].seen = "satisfied"
          \/ /\ execution'.reason = "wait_failed"
             /\ \E w \in Waits : w.gen = execution'.gen /\ wait'[w].seen = "failed"
          \/ execution' = execution
      BY <2>1, <3>1 DEF WaitSuspends
    <3>3. execution' # execution
      <4>1. execution.rev \in Nat /\ execution'.rev = execution.rev + 1
        BY <1>1, <2>3, ExecutionFields DEF WaitWrites, LedgerInv, LedgerTypeOK
      <4> QED
        BY <4>1
    <3> QED
      BY <3>1, <3>2, <3>3 DEF SuspensionInv
  <2> QED
    BY <2>1, <2>2, <2>3 DEF WaitSuspends
<1>3. CASE [Next]_vars /\ UNCHANGED waitState
  <2>1. LedgerChange /\ wait' = wait
    BY <1>3, LedgerSteps DEF waitState
  <2>2. ASSUME execution'.reason \in WaitReasons
        PROVE  /\ execution'.reason = execution.reason
               /\ execution'.gen = execution.gen
               /\ ~ExecutionOver => ~ExecutionOver'
    BY <2>1, <2>2, EngineKeepsReason
  <2> QED
    BY <2>1, <2>2 DEF SuspensionInv, WaitReasons
<1> QED
  BY <1>1, <1>2, <1>3

\* What the waits and the engine know of each other.
SharedInv == TargetsInv /\ AsksInv /\ SuspensionInv

\* It holds at first, and every step keeps it.
LEMMA SharedHolds == WaitSpec => [](SInv /\ WaitInv /\ SharedInv)
<1>1. WaitInit => SharedInv
  <2> SUFFICES ASSUME WaitInit PROVE SharedInv
    OBVIOUS
  <2>1. execution.reason = ""
    BY DEF WaitInit, Init, LedgerInit
  <2>2. \A p \in Processes : proc[p].pc = "idle"
    BY DEF WaitInit, Init, Idle
  <2>3. \A r \in Requesters : asker[r] = NoAsk
    BY DEF WaitInit
  <2>4. SuspensionInv
    BY <2>1 DEF SuspensionInv, WaitReasons
  <2> QED
    BY <2>2, <2>3, <2>4 DEF SharedInv, TargetsInv, AsksInv
<1>2. SInv /\ WaitInv /\ SharedInv /\ [WaitNext]_waitVars => SharedInv'
  <2> SUFFICES ASSUME SInv, WaitInv, SharedInv, [WaitNext]_waitVars
               PROVE  SharedInv'
    OBVIOUS
  <2>1. WaitStep \/ ([Next]_vars /\ UNCHANGED waitState)
    BY EngineSteps
  <2>2. LedgerInv /\ IInv /\ WaitTypeOK
    BY DEF SInv, IInv, WaitInv
  <2>3. AsksInv'
    BY <2>1, <2>2, AsksStep DEF SharedInv
  <2>4. [Next]_vars \/ proc' = proc
    BY <2>1, <2>2, WaitsLeaveEngine
  <2>5. TargetsInv'
    BY <2>4, TargetsStep DEF SharedInv
  <2>6. SuspensionInv'
    BY SuspensionStep DEF SharedInv
  <2> QED
    BY <2>3, <2>5, <2>6 DEF SharedInv
<1>3. SInv /\ WaitInv /\ SharedInv /\ [WaitNext]_waitVars => (SInv /\ WaitInv /\ SharedInv)'
  BY <1>2, EngineSteps, WaitInvSteps
<1> QED
  BY <1>1, <1>3, WaitInitHolds, PTL DEF WaitSpec

\* Whatever is projected, canceled or expanded beside the waits, a suspension
\* reason speaks of a wait of the current generation, in the state it says, and
\* of an execution that is not over (reserve, record_terminal, _project_join).
THEOREM SuspensionsNameWaits == WaitSpec => []SuspensionNamesWait
<1>1. SInv /\ WaitInv /\ SharedInv => SuspensionNamesWait
  BY SuspensionStated DEF SharedInv
<1> QED
  BY <1>1, SharedHolds, PTL

--------------------------------------------------------------------------------
(* A join that was read does not end a wait.                               *)

\* A process between its read of the execution and its projection.
Projecting == {"children", "join", "resume", "update"}

\* A process with local state l resumes the parent past its join, or records it.
Resumes(l) ==
    l.pc = "resume" \/ (l.pc = "update" /\ l.target.reason = "children_contract_valid")

\* What a process read of the execution: a revision that is not ahead, and as
\* long as it is the current one, no wait behind a join it takes for unfinished.
SnapshotsInv ==
    \A p \in Processes :
        /\ proc[p].pc \in Projecting =>
              /\ proc[p].snap.rev <= execution.rev
              /\ proc[p].snap.rev = execution.rev /\ ~proc[p].snap.joined
                    => execution.reason \notin WaitReasons
        /\ Resumes(proc[p]) => ~proc[p].snap.joined

\* The reason of a wait appears with a new revision only.
LEMMA WaitsRaiseRevision ==
  ASSUME SInv, SInv', TargetsInv, WaitInv, [WaitNext]_waitVars
  PROVE  /\ execution.rev \in Nat /\ execution'.rev \in Nat
         /\ execution'.rev >= execution.rev
         /\ execution'.reason \in WaitReasons /\ execution'.rev = execution.rev
               => execution'.reason = execution.reason
<1>1. execution.rev \in Nat /\ execution'.rev \in Nat /\ IInv
  BY ExecutionFields DEF SInv, IInv, LedgerInv, LedgerTypeOK
<1>2. CASE WaitStep
  <2>1. execution' = execution \/ execution'.rev = execution.rev + 1
    BY <1>1, <1>2, WaitsLeaveEngine DEF WaitWrites
  <2> QED
    BY <1>1, <2>1
<1>3. CASE [Next]_vars
  <2>1. LedgerChange
    BY <1>3, LedgerSteps
  <2>2. execution'.rev >= execution.rev
    BY <2>1 DEF LedgerChange, ExecutionChange, RevisionChange
  <2> QED
    BY <1>1, <2>1, <2>2, EngineKeepsReason
<1> QED
  BY <1>2, <1>3, EngineSteps

\* What a process that stays where it is has read stays true.
LEMMA SnapshotStays ==
  ASSUME SInv, SInv', TargetsInv, WaitInv, SnapshotsInv, [WaitNext]_waitVars,
         NEW p \in Processes, proc[p].pc \in Projecting
  PROVE  /\ proc[p].snap.rev <= execution'.rev
         /\ proc[p].snap.rev = execution'.rev /\ ~proc[p].snap.joined
               => execution'.reason \notin WaitReasons
<1>1. /\ execution.rev \in Nat /\ execution'.rev \in Nat
      /\ execution'.rev >= execution.rev
      /\ execution'.reason \in WaitReasons /\ execution'.rev = execution.rev
            => execution'.reason = execution.reason
  BY WaitsRaiseRevision
<1>2. proc[p].snap.rev \in Nat
  BY LocalFields DEF SInv, IInv, SnapType
<1>3. /\ proc[p].snap.rev <= execution.rev
      /\ proc[p].snap.rev = execution.rev /\ ~proc[p].snap.joined
            => execution.reason \notin WaitReasons
  BY DEF SnapshotsInv
<1> QED
  BY <1>1, <1>2, <1>3

\* With delivery's past_children_join, no process takes a join for unfinished
\* when it reads an execution that waits.
LEMMA SnapshotsStep ==
  ASSUME DeliveryService, SInv, SInv', TargetsInv, WaitInv, SnapshotsInv, [WaitNext]_waitVars
  PROVE  SnapshotsInv'
<1>1. IInv /\ (WaitStep \/ [Next]_vars)
  BY EngineSteps DEF SInv
<1> SUFFICES ASSUME NEW p \in Processes
             PROVE  /\ proc'[p].pc \in Projecting =>
                          /\ proc'[p].snap.rev <= execution'.rev
                          /\ proc'[p].snap.rev = execution'.rev /\ ~proc'[p].snap.joined
                                => execution'.reason \notin WaitReasons
                    /\ Resumes(proc'[p]) => ~proc'[p].snap.joined
  BY DEF SnapshotsInv
<1>2. CASE proc'[p] = proc[p]
  BY <1>2, SnapshotStays DEF SnapshotsInv
<1>3. CASE Arrives(p) /\ ReadExecution(p) /\ proc'[p].pc = "children"
  <2>1. /\ proc'[p].snap.rev = execution.rev
        /\ proc'[p].snap.joined = past_children_join(execution.reason)
    BY <1>3, ReadExecutionBrings
  <2>2. execution' = execution /\ execution.rev \in Nat
    BY <1>1, <1>3, ExecutionFields DEF ReadExecution, IInv, LedgerInv, LedgerTypeOK
  <2>3. execution.reason \in WaitReasons => past_children_join(execution.reason)
    BY DEF past_children_join
  <2> QED
    BY <1>3, <2>1, <2>2, <2>3 DEF Resumes
<1>4. CASE ReadChildren(p) /\ proc'[p].pc \in {"join", "update"}
  <2>1. proc[p].pc = "children" /\ proc'[p].snap = proc[p].snap
    BY <1>4, ReadChildrenBrings DEF ReadChildren, At
  <2>2. proc'[p].pc = "update" => proc'[p].target.reason # "children_contract_valid"
    BY <1>4, ReadChildrenBrings DEF Canceled
  <2> QED
    BY <1>4, <2>1, <2>2, SnapshotStays DEF Projecting, Resumes
<1>5. CASE ReadJoin(p) /\ proc'[p].pc \in {"resume", "update"}
  <2>1. proc[p].pc = "join" /\ proc'[p].snap = proc[p].snap
    BY <1>5, ReadJoinBrings DEF ReadJoin, At
  <2>2. proc'[p].pc = "resume" => ~proc'[p].snap.joined
    BY <1>5, ReadJoinBrings
  <2>3. proc'[p].pc = "update" => proc'[p].target.reason # "children_contract_valid"
    <3> DEFINE Unready == {[state |-> "blocked", reason |-> "child_failed"],
                           [state |-> "blocked", reason |-> "child_blocked"],
                           [state |-> "waiting", reason |-> "awaiting_children"]}
    <3>1. proc'[p].pc = "update" => proc'[p].target = Canceled \/ proc'[p].target \in Unready
      BY <1>5, ReadJoinBrings
    <3>2. \A t \in Unready : t.reason # "children_contract_valid"
      OBVIOUS
    <3>3. Canceled.reason # "children_contract_valid"
      BY DEF Canceled
    <3> QED
      BY <3>1, <3>2, <3>3
  <2> QED
    BY <1>5, <2>1, <2>2, <2>3, SnapshotStays DEF Projecting, Resumes
<1>6. CASE ResumeParent(p) /\ proc'[p].pc = "update"
  <2>1. proc[p].pc = "resume" /\ proc'[p].snap = proc[p].snap
    BY <1>6, ResumeParentBrings DEF ResumeParent, At
  <2>2. ~proc[p].snap.joined
    BY <2>1 DEF SnapshotsInv, Resumes
  <2> QED
    BY <1>6, <2>1, <2>2, SnapshotStays DEF Projecting
<1>7. proc'[p] = proc[p] \/ Arrives(p)
  <2>1. CASE WaitStep
    BY <1>1, <2>1, WaitsLeaveEngine
  <2> QED
    BY <1>1, <2>1, ProcessArrives
<1>8. proc'[p].pc \in Projecting /\ Arrives(p) =>
         \/ ReadExecution(p) /\ proc'[p].pc = "children"
         \/ ReadChildren(p) /\ proc'[p].pc \in {"join", "update"}
         \/ ReadJoin(p) /\ proc'[p].pc \in {"resume", "update"}
         \/ ResumeParent(p) /\ proc'[p].pc = "update"
  BY DEF Arrives, Projecting
<1> QED
  BY <1>2, <1>3, <1>4, <1>5, <1>6, <1>7, <1>8 DEF Projecting, Resumes

\* Under delivery's service no join, however stale, takes an execution out of a
\* wait: past_children_join knows the wait's reasons, and the revision refuses a
\* projection that did not see the wait (DeliveryExecutionService, _project_join).
THEOREM JoinsKeepWaits ==
  ASSUME DeliveryService
  PROVE  WaitSpec => JoinKeepsWait
<1> DEFINE Inv == SInv /\ WaitInv /\ SharedInv
<1>1. WaitInit => SnapshotsInv
  BY DEF WaitInit, Init, Idle, SnapshotsInv, Projecting, Resumes
<1>2. Inv /\ SnapshotsInv /\ [WaitNext]_waitVars => SnapshotsInv'
  BY EngineSteps, SnapshotsStep DEF SharedInv
<1>3. Inv /\ SnapshotsInv /\ [WaitNext]_waitVars =>
         [\A g \in parent.joined :
             (execution.gen = g /\ execution.reason \in WaitReasons)
                 => execution'.reason # "children_contract_valid"]_waitVars
  <2> SUFFICES ASSUME Inv, SnapshotsInv, [WaitNext]_waitVars,
                      execution.reason \in WaitReasons,
                      execution'.reason = "children_contract_valid"
               PROVE  FALSE
    OBVIOUS
  <2>1. "children_contract_valid" \notin WaitReasons
    BY DEF WaitReasons
  <2>2. CASE WaitStep
    <3>1. execution' = execution \/ execution'.reason \in WaitReasons
      BY <2>2, WaitsLeaveEngine DEF WaitWrites, SInv
    <3> QED
      BY <2>1, <3>1
  <2>3. CASE [Next]_vars
    <3>1. ReasonChange
      BY <2>3, LedgerSteps DEF LedgerChange, ExecutionChange
    <3>2. PICK p \in Processes : Projects(p)
      BY <2>1, <3>1 DEF ReasonChange
    <3>3. /\ proc[p].pc = "update" /\ proc[p].target.reason = "children_contract_valid"
          /\ execution.rev = proc[p].snap.rev
      BY <3>2 DEF Projects, At
    <3> QED
      BY <3>3 DEF SnapshotsInv, Projecting, Resumes
  <2> QED
    BY <2>2, <2>3, EngineSteps
<1> HIDE DEF Inv
<1>4. WaitSpec => []Inv
  BY SharedHolds DEF Inv
<1> QED
  BY <1>1, <1>2, <1>3, <1>4, PTL DEF WaitSpec, JoinKeepsWait

================================================================================
