------------------------------ MODULE WorkflowWait ------------------------------
(***************************************************************************)
(* Workflow waits: a coordinator suspends its execution on an external     *)
(* condition, pollers lease the wait, observe the condition, record what   *)
(* they saw and tell the parent session.  The waits share the execution    *)
(* row with the engine of WorkflowExecution, which goes on beside them.    *)
(***************************************************************************)
EXTENDS WorkflowExecution

CONSTANTS
    Nodes,           \* wait nodes of the workflow graph
    Requests,        \* what a wait may be requested for
    Requesters,      \* processes that serve the API's wait requests
    Pollers,         \* WorkflowWaitService.reconcile loops
    MaxWaitFailures, \* max_consecutive_failures
    NoWait,          \* "no wait at hand"
    MaxWaits         \* bound: waits the instance may reserve

VARIABLES
    wait,    \* wait[w]: the workflow_waits row
    poller,  \* the pollers' local states
    asker,   \* the request each requester has checked and not yet reserved
    told     \* told[w]: the outcome the parent session received

waitState == <<wait, poller, asker, told>>
waitVars == <<vars, waitState>>

ASSUME WaitAssumption ==
    /\ MaxWaitFailures \in Nat \ {0} /\ MaxWaits \in Nat
    /\ Nobody \notin Pollers

\* The id of a wait is a digest of all that tells it from another one.
Waits == [gen : 0..MaxGeneration, node : Nodes, request : Requests]

WaitStates == {"none", "pending", "ready", "failed", "notified"}
Outcomes == {"none", "satisfied", "failed"}

(***************************************************************************)
(* Rows.  `holder` is the poller whose claim drew the row's lease token,   *)
(* `live` is lease_expires_at > now.  A poller claims again only when it   *)
(* has done with its batch, so the name stands for the token and the       *)
(* fencing generation.  attempt_count is only compared with the maximum.   *)
(***************************************************************************)
NoWaitRow == [state |-> "none", seen |-> "none", holder |-> Nobody, live |-> FALSE, tries |-> 0]

Claim == [id : Waits, seen : Outcomes, tries : 0..MaxWaitFailures]
NoClaim == [id |-> NoWait, seen |-> "none", tries |-> 0]
NoReading == [gen |-> 0, rev |-> 0]

IdlePoller ==
    [pc |-> "idle", batch |-> {}, cur |-> NoClaim, at |-> 0, read |-> NoReading,
     outcome |-> "none", escalated |-> FALSE]

NoAsk == [id |-> NoWait, rev |-> 0]

WaitInit ==
    /\ Init
    /\ wait = [w \in Waits |-> NoWaitRow]
    /\ poller = [p \in Pollers |-> IdlePoller]
    /\ asker = [r \in Requesters |-> NoAsk]
    /\ told = [w \in Waits |-> "none"]

Settled(w) == wait[w].state \in {"ready", "failed"}
ExecutionOver == ExecutionTerminal \/ execution.cancel
BindingIsCurrent(w) == execution.gen = w.gen

--------------------------------------------------------------------------------
(* Requests.                                                               *)

\* request_wait, on the row the API read; what names no declared condition or
\* no observer is refused there and changes nothing.
BeginWait(r) ==
    /\ asker[r] = NoAsk
    /\ ~ExecutionOver
    /\ Cardinality({w \in Waits : wait[w].state # "none"}) < MaxWaits
    /\ \E n \in Nodes, q \in Requests :
          asker' = [asker EXCEPT ![r] =
                      [id |-> [gen |-> execution.gen, node |-> n, request |-> q],
                       rev |-> execution.rev]]
    /\ UNCHANGED <<vars, wait, poller, told>>

ActiveWaits(w) ==
    {v \in Waits : v.gen = w.gen /\ v.node = w.node /\ (wait[v].state = "pending" \/ Settled(v))}

\* A repeated request finds its wait, a different one on a busy node is refused.
WaitAccepted(w, rev) ==
    /\ execution.rev = rev
    /\ BindingIsCurrent(w)
    /\ ~ExecutionOver
    /\ ActiveWaits(w) = {}
    /\ wait[w].state = "none"

reserve(w) ==
    /\ wait' = [wait EXCEPT ![w].state = "pending"]
    /\ execution' = [execution EXCEPT !.state = "waiting", !.reason = "awaiting_condition",
                                      !.rev = @ + 1]

ReserveWait(r) ==
    LET w == asker[r].id
        rev == asker[r].rev
    IN  /\ asker[r] # NoAsk
        /\ asker' = [asker EXCEPT ![r] = NoAsk]
        /\ \/ WaitAccepted(w, rev) /\ reserve(w)
           \/ ~WaitAccepted(w, rev) /\ UNCHANGED <<wait, execution>>
        /\ UNCHANGED <<plan, child, now, task, parent, message, proc, faults, poller, told>>

--------------------------------------------------------------------------------
(* Transactions on a wait under its lease.                                 *)

Holds(p, w) == wait[w].holder = p

\* Mutant of Pollable: a settled wait is not claimed again.
PollableWhilePending(w) == wait[w].state = "pending" /\ ~wait[w].live

\* claim_due; next_poll_at only delays a poll.
Pollable(w) == (wait[w].state = "pending" \/ Settled(w)) /\ ~wait[w].live

claim_due(p, W) ==
    wait' = [w \in Waits |->
                IF w \in W THEN [wait[w] EXCEPT !.holder = p, !.live = TRUE] ELSE wait[w]]

PendingAccepted(p, w) == wait[w].state = "pending" /\ Holds(p, w)

OneMore(n) == IF n < MaxWaitFailures THEN n + 1 ELSE n

record_pending(w) ==
    wait' = [wait EXCEPT ![w].tries = OneMore(@), ![w].holder = Nobody, ![w].live = FALSE]

\* Mutant of TerminalAccepted: the lease is not compared.
TerminalUnfenced(p, w, reading) ==
    /\ wait[w].state \in {"pending", "ready", "failed"}
    /\ reading.gen = w.gen => BindingIsCurrent(w) /\ execution.rev = reading.rev /\ ~ExecutionOver

\* A wait of the execution's generation settles only together with its
\* execution, which must be as it was read and not over.
TerminalAccepted(p, w, reading) ==
    /\ PendingAccepted(p, w)
    /\ reading.gen = w.gen => BindingIsCurrent(w) /\ execution.rev = reading.rev /\ ~ExecutionOver

\* Mutant of record_terminal: a superseded wait moves its execution too.
record_terminal_always(w, outcome, reading) ==
    /\ wait' = [wait EXCEPT ![w].state = IF outcome = "satisfied" THEN "ready" ELSE "failed",
                            ![w].seen = outcome,
                            ![w].tries = OneMore(@)]
    /\ execution' = [execution EXCEPT
                        !.reason = IF outcome = "satisfied" THEN "wait_observed"
                                   ELSE "wait_failed",
                        !.rev = @ + 1]

record_terminal(w, outcome, reading) ==
    /\ wait' = [wait EXCEPT ![w].state = IF outcome = "satisfied" THEN "ready" ELSE "failed",
                            ![w].seen = outcome,
                            ![w].tries = OneMore(@)]
    /\ execution' = IF reading.gen = w.gen
                    THEN [execution EXCEPT
                            !.reason = IF outcome = "satisfied" THEN "wait_observed"
                                       ELSE "wait_failed",
                            !.rev = @ + 1]
                    ELSE execution

MarkAccepted(p, w) == Settled(w) /\ Holds(p, w)

mark_notified(w) ==
    wait' = [wait EXCEPT ![w].state = "notified", ![w].holder = Nobody, ![w].live = FALSE]

--------------------------------------------------------------------------------
(* WorkflowWaitService.reconcile.                                          *)

Step(p, local) == poller' = [poller EXCEPT ![p] = local]
Move(p, pc) == [poller[p] EXCEPT !.pc = pc]

\* What was read of the execution is not used any more.
Drop(p, pc) == [poller[p] EXCEPT !.pc = pc, !.read = NoReading]
Is(p, pc) == poller[p].pc = pc
Current(p) == poller[p].cur.id

\* The cycle goes on with the rest of its batch, or ends.
GoOnWith(p, rest) ==
    IF rest = {} THEN IdlePoller
    ELSE [IdlePoller EXCEPT !.pc = "next", !.batch = rest, !.at = poller[p].at]

Done(p) == GoOnWith(p, poller[p].batch)

ClaimWaits(p) ==
    LET due == {w \in Waits : Pollable(w)}
    IN  /\ Is(p, "idle")
        /\ due # {}
        /\ claim_due(p, due)
        /\ Step(p, [IdlePoller EXCEPT
                      !.pc = "next", !.at = now,
                      !.batch = {[id |-> w, seen |-> wait[w].seen, tries |-> wait[w].tries] :
                                   w \in due}])
        /\ UNCHANGED <<vars, asker, told>>

\* Mutant of NextStep: the execution's deadline is not looked at.
NextStepEndless(c, at) ==
    CASE c.seen # "none" /\ (ExecutionOver \/ ~BindingIsCurrent(c.id)) -> "retire"
      [] c.seen # "none" /\ ~ExecutionOver /\ BindingIsCurrent(c.id) -> "notify"
      [] c.seen = "none" /\ (~BindingIsCurrent(c.id) \/ ExecutionOver) -> "settle"
      [] OTHER -> "observe"

\* What _reconcile_wait does with a claimed wait and the execution it read.
NextStep(c, at) ==
    CASE c.seen # "none" /\ (ExecutionOver \/ ~BindingIsCurrent(c.id)) -> "retire"
      [] c.seen # "none" /\ ~ExecutionOver /\ BindingIsCurrent(c.id) -> "notify"
      [] c.seen = "none" /\ (~BindingIsCurrent(c.id) \/ at >= ExecutionDeadline \/ ExecutionOver)
            -> "settle"
      [] OTHER -> "observe"

Reading == [gen |-> execution.gen, rev |-> execution.rev]

\* _reconcile_wait reads the execution.  A settled wait whose execution cannot
\* be read is left to its lease.
ReadForWait(p) ==
    /\ Is(p, "next")
    /\ \E c \in poller[p].batch :
          LET rest == poller[p].batch \ {c}
              to == NextStep(c, poller[p].at)
              taken == [poller[p] EXCEPT !.batch = rest, !.cur = c]
          IN  \/ /\ Step(p, [taken EXCEPT
                               !.pc = to,
                               !.read = IF c.seen = "none" THEN Reading ELSE NoReading,
                               !.outcome = IF to = "settle" THEN "failed" ELSE c.seen])
                 /\ UNCHANGED faults
              \/ /\ Fault
                 /\ Step(p, IF c.seen = "none" THEN [taken EXCEPT !.pc = "fail"]
                            ELSE GoOnWith(p, rest))
    /\ UNCHANGED <<execution, plan, child, now, task, parent, message, proc, wait, asker, told>>

\* The condition is not yet decided, decided, or cannot be read.
Observe(p) ==
    /\ Is(p, "observe")
    /\ \/ Step(p, Drop(p, "pend"))
       \/ \E o \in {"satisfied", "failed"} :
             Step(p, [poller[p] EXCEPT !.pc = "settle", !.outcome = o])
       \/ Step(p, Drop(p, "fail"))
    /\ UNCHANGED <<vars, wait, asker, told>>

\* A poller that lost its lease is refused; the error escapes the loop, and the
\* rest of the batch stays leased.
RecordPending(p) ==
    /\ Is(p, "pend")
    /\ \/ /\ PendingAccepted(p, Current(p))
          /\ record_pending(Current(p))
          /\ Step(p, Done(p))
       \/ /\ ~PendingAccepted(p, Current(p))
          /\ Step(p, IdlePoller)
          /\ UNCHANGED wait
    /\ UNCHANGED <<vars, asker, told>>

\* _handle_wait_failure: one failure more, or the last one.
HandleFailure(p) ==
    /\ Is(p, "fail")
    /\ Step(p, Move(p, IF poller[p].cur.tries + 1 < MaxWaitFailures THEN "pend" ELSE "escalate"))
    /\ UNCHANGED <<vars, wait, asker, told>>

Escalate(p) ==
    /\ Is(p, "escalate")
    /\ \/ /\ Step(p, [poller[p] EXCEPT
                        !.pc = "settle", !.outcome = "failed", !.escalated = TRUE,
                        !.read = Reading])
          /\ UNCHANGED faults
       \/ /\ Fault
          /\ Step(p, Move(p, "pend"))
    /\ UNCHANGED <<execution, plan, child, now, task, parent, message, proc, wait, asker, told>>

RecordTerminal(p) ==
    LET w == Current(p)
        l == poller[p]
    IN  /\ Is(p, "settle")
        /\ \/ /\ TerminalAccepted(p, w, l.read)
              /\ record_terminal(w, l.outcome, l.read)
              /\ Step(p, Drop(p, "reread"))
              /\ UNCHANGED faults
           \/ /\ IF TerminalAccepted(p, w, l.read) THEN Fault ELSE UNCHANGED faults
              /\ Step(p, [Drop(p, IF l.escalated THEN "pend" ELSE "fail") EXCEPT !.outcome = "none"])
              /\ UNCHANGED <<wait, execution>>
        /\ UNCHANGED <<plan, child, now, task, parent, message, proc, asker, told>>

\* The execution is read again before anybody is told.
Reread(p) ==
    /\ Is(p, "reread")
    /\ Step(p, Move(p, IF ExecutionOver \/ ~BindingIsCurrent(Current(p)) THEN "retire"
                       ELSE "notify"))
    /\ UNCHANGED <<vars, wait, asker, told>>

\* The parent keeps the first event of a wait's id.
Delivered(p) == [told EXCEPT ![Current(p)] = IF @ = "none" THEN poller[p].outcome ELSE @]

\* _notify_safely: a failure is swallowed, and the lease runs out.
NotifyObservation(p) ==
    /\ Is(p, "notify")
    /\ \/ /\ told' = Delivered(p)
          /\ Step(p, Move(p, "mark"))
          /\ UNCHANGED faults
       \/ /\ Fault
          /\ told' \in {told, Delivered(p)}
          /\ Step(p, Done(p))
    /\ UNCHANGED <<execution, plan, child, now, task, parent, message, proc, wait, asker>>

\* A refusal after the notice is swallowed, one without a notice escapes unless
\* the wait was claimed settled.
MarkWaitNotified(p) ==
    /\ Is(p, "mark") \/ Is(p, "retire")
    /\ \/ /\ MarkAccepted(p, Current(p))
          /\ mark_notified(Current(p))
          /\ Step(p, Done(p))
       \/ /\ ~MarkAccepted(p, Current(p))
          /\ Step(p, IF Is(p, "mark") \/ poller[p].cur.seen # "none" THEN Done(p) ELSE IdlePoller)
          /\ UNCHANGED wait
    /\ UNCHANGED <<vars, asker, told>>

--------------------------------------------------------------------------------
(* Failures, and the specification.                                        *)

\* The process dies, or a call fails where the error escapes the loop.
PollerCrash(p) ==
    /\ ~Is(p, "idle")
    /\ Fault
    /\ Step(p, IdlePoller)
    /\ UNCHANGED <<execution, plan, child, now, task, parent, message, proc, wait, asker, told>>

WorksOn(p, w) == w = Current(p) \/ \E c \in poller[p].batch : c.id = w

\* A lease nobody uses runs out; that it does so under a poller at work is a fault.
WaitLeaseRunsOut(w) ==
    /\ wait[w].live
    /\ wait' = [wait EXCEPT ![w].live = FALSE]
    /\ IF WorksOn(wait[w].holder, w) THEN Fault ELSE UNCHANGED faults
    /\ UNCHANGED <<execution, plan, child, now, task, parent, message, proc, poller, asker, told>>

Poll(p) ==
    \/ ClaimWaits(p) \/ ReadForWait(p) \/ Observe(p) \/ RecordPending(p) \/ HandleFailure(p)
    \/ Escalate(p) \/ RecordTerminal(p) \/ Reread(p) \/ NotifyObservation(p)
    \/ MarkWaitNotified(p)

WaitStep ==
    \/ \E r \in Requesters : BeginWait(r) \/ ReserveWait(r)
    \/ \E p \in Pollers : Poll(p) \/ PollerCrash(p)
    \/ \E w \in Waits : WaitLeaseRunsOut(w)

WaitNext ==
    \/ Next /\ UNCHANGED waitState
    \/ WaitStep

WaitSpec == WaitInit /\ [][WaitNext]_waitVars

\* The worker's loop polls in every cycle, time passes, and leases run out; the
\* engine owes the waits nothing.
WaitFairSpec ==
    /\ WaitSpec
    /\ WF_vars(Tick)
    /\ \A p \in Pollers : WF_waitVars(Poll(p))
    /\ \A w \in Waits : WF_waitVars(WaitLeaseRunsOut(w))

--------------------------------------------------------------------------------
(* Properties.                                                             *)

WaitRowType ==
    [state : WaitStates, seen : Outcomes, holder : Pollers \cup {Nobody}, live : BOOLEAN,
     tries : 0..MaxWaitFailures]

PollerType ==
    [pc : {"idle", "next", "observe", "pend", "fail", "escalate", "settle", "reread", "notify",
           "mark", "retire"},
     batch : SUBSET Claim, cur : Claim \cup {NoClaim}, at : Nat,
     read : [gen : 0..MaxGeneration, rev : Nat], outcome : Outcomes, escalated : BOOLEAN]

\* Every wait, poller and request keeps its type.
WaitTypeOK ==
    /\ wait \in [Waits -> WaitRowType]
    /\ poller \in [Pollers -> PollerType]
    /\ asker \in [Requesters -> [id : Waits \cup {NoWait}, rev : Nat]]
    /\ told \in [Waits -> Outcomes]

\* The parent hears the outcome that was recorded, and only after it was
\* recorded, however many pollers observed the condition at the same time; and a
\* wait counts as notified only when its parent was told, or the execution was
\* over or expanded again before.
ToldWhatIsRecorded ==
    \A w \in Waits :
        /\ told[w] # "none" => told[w] = wait[w].seen
        /\ wait[w].state = "notified" => told[w] # "none" \/ ExecutionOver \/ ~BindingIsCurrent(w)

\* The execution's suspension reason speaks of a wait of its own generation in
\* that state: an older wait never moves the row, nor does one that another
\* writer overtook.
SuspensionNamesWait ==
    LET suspendedBy(P(_)) == \E w \in Waits : BindingIsCurrent(w) /\ P(wait[w])
    IN  /\ execution.reason = "awaiting_condition" => suspendedBy(LAMBDA x : x.state = "pending")
        /\ execution.reason = "wait_observed" => suspendedBy(LAMBDA x : x.seen = "satisfied")
        /\ execution.reason = "wait_failed" => suspendedBy(LAMBDA x : x.seen = "failed")
        /\ execution.reason \in WaitReasons => ~ExecutionOver

\* Once the parent was resumed past the join of a generation, no projection of
\* that join takes the execution out of a wait.
JoinKeepsWait ==
    [][\A g \in parent.joined :
          (execution.gen = g /\ execution.reason \in WaitReasons)
              => execution'.reason # "children_contract_valid"]_waitVars

\* A wait settles while its execution is open, at the latest at the deadline.
WaitSettles ==
    \A w \in Waits :
        (wait[w].state = "pending") ~> (wait[w].state # "pending" \/ ExecutionOver)

\* A settled wait is delivered or retired, whoever crashes or loses a lease.
SettledWaitEnds == \A w \in Waits : Settled(w) ~> (wait[w].state = "notified")
================================================================================
