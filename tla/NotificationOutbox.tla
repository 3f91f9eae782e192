------------------------- MODULE NotificationOutbox -------------------------
(***************************************************************************)
(* Forge's notifications on their way out: the outbox of deliveries that   *)
(* the dispatchers of any number of hosts share.  A notification is        *)
(* recorded in one transaction with a delivery for each rule that selects  *)
(* it; a dispatcher leases due deliveries, passes each through the rule's  *)
(* gates, sends it, and settles it if the lease is still its own.          *)
(*                                                                         *)
(* Times are what is left of them: Tick counts every lease, backoff, send  *)
(* and rate window down.  A send ends before its time is up, everything    *)
(* else a dispatcher does may take any time.                               *)
(***************************************************************************)
EXTENDS Integers, FiniteSets

CONSTANTS
    Notifications, Rules, Dispatchers,
    Lease,         \* lease_seconds of a claim
    SendTimeout,   \* send_timeout_seconds of one send
    Backoffs,      \* the delays a retry may be given
    BatchSize, MaxSends, MaxAttempts,
    RateLimit,     \* max_count deliveries of a rule in a window,
    Window,        \* window_seconds
    NoDispatcher,
    MaxFaults      \* crashes, lost settles, leases that run out at work

ASSUME OutboxAssumption ==
    /\ Lease \in Nat /\ SendTimeout \in Nat \ {0} /\ SendTimeout < Lease
    /\ Backoffs \subseteq Nat /\ Backoffs # {}
    /\ BatchSize \in Nat \ {0} /\ MaxSends \in Nat \ {0} /\ MaxAttempts \in Nat \ {0}
    /\ RateLimit \in Nat \ {0} /\ Window \in Nat \ {0} /\ MaxFaults \in Nat
    /\ IsFiniteSet(Notifications) /\ IsFiniteSet(Rules)
    /\ NoDispatcher \notin Dispatchers

VARIABLES
    recorded,   \* the notifications in the feed
    rules,      \* the rules there are; whether one is enabled is left open
    row,        \* the delivery of each notification by each rule; "by" is who made it and
                \* knows it, for as long as it counts in the window
    begun,      \* the dispatchers that are claiming
    left,       \* what a dispatcher believes is left of its lease
    job,        \* what it does with each delivery of its batch
    recent,     \* deliveries in each rule's window, counted once a poll
    reserved,   \* sends of this poll that count against it
    tries,      \* sends of each delivery
    faults

workVars == <<begun, left, job, recent, reserved>>
vars == <<recorded, rules, row, workVars, tries, faults>>

Deliveries == Notifications \X Rules
RuleOf(d) == d[2]
Statuses == {"none", "pending", "claimed", "failed", "delivered", "suppressed", "dead", "deleted"}
Settled == {"delivered", "suppressed", "dead"}

NoRow == [status |-> "none", attempts |-> 0, due |-> 0, fresh |-> 0, by |-> NoDispatcher]
NewRow == [NoRow EXCEPT !.status = "pending"]
NoJob == [at |-> "none", fence |-> 0, timer |-> 0, reserved |-> FALSE]
Jobs == {"none", "gate", "slot", "send", "deliver", "retry", "dead", "suppress"}
Unknown == -1
NoWindows == [r \in Rules |-> Unknown]
NoReservations == [r \in Rules |-> 0]

TypeOK ==
    /\ recorded \subseteq Notifications
    /\ rules \subseteq Rules
    /\ row \in [Deliveries -> [status : Statuses, attempts : Nat, due : Nat, fresh : 0 .. Window,
                               by : Dispatchers \cup {NoDispatcher}]]
    /\ begun \subseteq Dispatchers
    /\ left \in [Dispatchers -> 0 .. Lease]
    /\ job \in [Dispatchers -> [Deliveries ->
                  [at : Jobs, fence : Nat, timer : 0 .. SendTimeout, reserved : BOOLEAN]]]
    /\ recent \in [Dispatchers -> [Rules -> Nat \cup {Unknown}]]
    /\ reserved \in [Dispatchers -> [Rules -> Nat]]
    /\ tries \in [Deliveries -> Nat]
    /\ faults \in 0 .. MaxFaults

Init ==
    /\ recorded = {}
    /\ rules = Rules
    /\ row = [d \in Deliveries |-> NoRow]
    /\ begun = {} /\ left = [w \in Dispatchers |-> 0]
    /\ job = [w \in Dispatchers |-> [d \in Deliveries |-> NoJob]]
    /\ recent = [w \in Dispatchers |-> NoWindows]
    /\ reserved = [w \in Dispatchers |-> NoReservations]
    /\ tries = [d \in Deliveries |-> 0]
    /\ faults = 0

Fault == faults < MaxFaults /\ faults' = faults + 1

-----------------------------------------------------------------------------
(***************************************************************************)
(* The transaction that records a notification schedules its deliveries    *)
(* too; it locks the rules it reads against updates (FOR SHARE).           *)
(***************************************************************************)
project(n) ==
    /\ n \notin recorded
    /\ recorded' = recorded \cup {n}
    /\ \E selecting \in SUBSET rules :
          row' = [d \in Deliveries |->
                     IF d[1] = n /\ RuleOf(d) \in selecting THEN NewRow ELSE row[d]]
    /\ UNCHANGED <<rules, workVars, tries, faults>>

\* Its deliveries go with it (ON DELETE CASCADE).
delete_rule(r) ==
    /\ r \in rules
    /\ rules' = rules \ {r}
    /\ row' = [d \in Deliveries |->
                  IF RuleOf(d) = r /\ row[d].status # "none"
                  THEN [row[d] EXCEPT !.status = "deleted", !.due = 0, !.fresh = 0, !.by = NoDispatcher]
                  ELSE row[d]]
    /\ UNCHANGED <<recorded, workVars, tries, faults>>

-----------------------------------------------------------------------------
(***************************************************************************)
(* A poll: run_once claims a batch and processes its rows side by side.    *)
(***************************************************************************)
Idle(w) == w \notin begun /\ \A d \in Deliveries : job[w][d] = NoJob

\* mutant: what a dead host claimed is not due
ClaimableUnclaimed(d) == row[d].status \in {"pending", "failed"} /\ row[d].due = 0

Claimable(d) == row[d].status \in {"pending", "failed", "claimed"} /\ row[d].due = 0

\* mutant: a claim that was left behind is claimed again as the same attempt
SameAttempt(d) == row[d].attempts + (IF row[d].status = "claimed" THEN 0 ELSE 1)

NextAttempt(d) == row[d].attempts + 1
Sending(w, d) == job[w][d].at = "send"

\* The lease is measured from before the claim.
run_once(w) ==
    /\ Idle(w)
    /\ begun' = begun \cup {w}
    /\ left' = [left EXCEPT ![w] = Lease]
    /\ UNCHANGED <<recorded, rules, row, job, recent, reserved, tries, faults>>

claim_due(w) ==
    /\ w \in begun
    /\ begun' = begun \ {w}
    /\ \E B \in SUBSET {d \in Deliveries : Claimable(d)} :
          /\ Cardinality(B) <= BatchSize
          /\ B = {} => \A d \in Deliveries : ~Claimable(d)
          /\ row' = [d \in Deliveries |->
                        IF d \in B
                        THEN [row[d] EXCEPT !.status = "claimed", !.attempts = NextAttempt(d), !.due = Lease]
                        ELSE row[d]]
          /\ job' = [job EXCEPT ![w] = [d \in Deliveries |->
                        IF d \in B
                        THEN [NoJob EXCEPT !.at = "gate", !.fence = NextAttempt(d)]
                        ELSE NoJob]]
          /\ left' = IF B = {} THEN [left EXCEPT ![w] = 0] ELSE left
    /\ UNCHANGED <<recorded, rules, recent, reserved, tries, faults>>

\* _deliver: a row whose attempts are used up dies; the rest may be suppressed (the rule is
\* disabled, or quiet) or go on to the limit.
OutOfAttempts(w, d) == job[w][d].at = "gate" /\ job[w][d].fence > MaxAttempts
AtGate(w, d) == job[w][d].at = "gate" /\ job[w][d].fence <= MaxAttempts

\* The rule's deliveries in its window, as they were when this poll first asked.
Counted(w, r) ==
    IF recent[w][r] = Unknown
    THEN Cardinality({d \in Deliveries :
            RuleOf(d) = r /\ row[d].status = "delivered" /\ row[d].fresh > 0})
    ELSE recent[w][r]

\* mutant: the sends of this poll do not count
HasRoomBefore(w, r) == Counted(w, r) < RateLimit

HasRoom(w, r) == Counted(w, r) + reserved[w][r] < RateLimit

reserve(w, d) ==
    LET r == RuleOf(d)
        room == HasRoom(w, r)
    IN
    /\ AtGate(w, d)
    /\ recent' = [recent EXCEPT ![w][r] = Counted(w, r)]
    /\ job' = [job EXCEPT ![w][d].at = IF room THEN "slot" ELSE "suppress",
                          ![w][d].reserved = room]
    /\ reserved' = [reserved EXCEPT ![w][r] = IF room THEN @ + 1 ELSE @]
    /\ UNCHANGED <<recorded, rules, row, begun, left, tries, faults>>

SlotFree(w) ==
    Cardinality({d \in Deliveries : job[w][d].at \in {"send", "retry", "dead"}}) < MaxSends

\* mutant: a send starts however little is left
AnyLease(w) == TRUE

EnoughLease(w) == SendTimeout <= left[w]

StartSend(w, d) ==
    /\ job[w][d].at = "slot" /\ SlotFree(w) /\ EnoughLease(w)
    /\ job' = [job EXCEPT ![w][d].at = "send", ![w][d].timer = SendTimeout]
    /\ tries' = [tries EXCEPT ![d] = @ + 1]
    /\ UNCHANGED <<recorded, rules, row, begun, left, recent, reserved, faults>>

SendSucceeds(w, d) ==
    /\ Sending(w, d)
    /\ job' = [job EXCEPT ![w][d].at = "deliver", ![w][d].timer = 0]
    /\ UNCHANGED <<recorded, rules, row, begun, left, recent, reserved, tries, faults>>

\* refused for good, or refused for now, or unanswered
SendFails(w, d) ==
    /\ Sending(w, d)
    /\ \E at \in {"retry", "dead"} :
          job' = [job EXCEPT ![w][d].at = at, ![w][d].timer = 0]
    /\ UNCHANGED <<recorded, rules, row, begun, left, recent, reserved, tries, faults>>

-----------------------------------------------------------------------------
(***************************************************************************)
(* The end of a job.  A row is settled if its fence says that no one has   *)
(* claimed it since; a reservation is given back unless the message was    *)
(* sent; with the last job the poll is over, and what it knew is gone.     *)
(***************************************************************************)
\* mutant: a row is settled by whoever once claimed it
HeldOnce(w, d) == row[d].status = "claimed"

Holds(w, d) == row[d].status = "claimed" /\ row[d].attempts = job[w][d].fence

Settle(w, d, new) == row' = IF Holds(w, d) THEN [row EXCEPT ![d] = new] ELSE row

Released(w, r) ==
    [reserved[w] EXCEPT ![r] = IF reserved[w][r] > 0 THEN reserved[w][r] - 1 ELSE 0]

Drop(w, d, sent) ==
    LET lastOne == \A e \in Deliveries \ {d} : job[w][e] = NoJob
    IN
    /\ job' = [job EXCEPT ![w][d] = NoJob]
    /\ left' = [left EXCEPT ![w] = IF lastOne THEN 0 ELSE @]
    /\ recent' = [recent EXCEPT ![w] = IF lastOne THEN NoWindows ELSE @]
    /\ reserved' =
          [reserved EXCEPT ![w] =
             IF lastOne THEN NoReservations
             ELSE IF job[w][d].reserved /\ ~sent THEN Released(w, RuleOf(d)) ELSE @]
    /\ UNCHANGED <<recorded, rules, begun, tries>>

mark_delivered(w, d) ==
    /\ job[w][d].at = "deliver"
    /\ Settle(w, d, [row[d] EXCEPT !.status = "delivered", !.due = 0, !.fresh = Window, !.by = w])
    /\ Drop(w, d, TRUE) /\ UNCHANGED faults

\* _settle_failure: after a send, or when its sink cannot be found
MayRetry(w, d) == job[w][d].fence < MaxAttempts /\ job[w][d].at \in {"slot", "retry"}
MayDie(w, d) ==
    \/ OutOfAttempts(w, d)
    \/ job[w][d].at \in {"slot", "dead"}
    \/ job[w][d].at = "retry" /\ job[w][d].fence >= MaxAttempts

mark_failed(w, d) ==
    /\ \/ /\ MayRetry(w, d)
          /\ \E delay \in Backoffs :
                Settle(w, d, [row[d] EXCEPT !.status = "failed", !.due = delay])
       \/ /\ MayDie(w, d)
          /\ Settle(w, d, [row[d] EXCEPT !.status = "dead", !.due = 0])
    /\ Drop(w, d, FALSE) /\ UNCHANGED faults

\* at the gate, or by the sink's skip_reason
mark_suppressed(w, d) ==
    /\ AtGate(w, d) \/ job[w][d].at \in {"slot", "suppress"}
    /\ Settle(w, d, [row[d] EXCEPT !.status = "suppressed", !.due = 0])
    /\ Drop(w, d, FALSE) /\ UNCHANGED faults

\* Too little of the lease is left to send: the row stays claimed.
SkipSend(w, d) ==
    /\ job[w][d].at = "slot" /\ SlotFree(w) /\ ~EnoughLease(w)
    /\ Drop(w, d, FALSE) /\ UNCHANGED <<row, faults>>

\* The store fails while a row is settled: _process takes it to be claimed still, though a
\* delivery may be recorded whose answer was lost.
SettleFails(w, d) ==
    /\ job[w][d].at \notin {"none", "send"} /\ Fault
    /\ \/ UNCHANGED row
       \/ /\ job[w][d].at = "deliver"
          /\ Settle(w, d, [row[d] EXCEPT !.status = "delivered", !.due = 0, !.fresh = Window,
                                         !.by = NoDispatcher])
    /\ Drop(w, d, FALSE)

\* The process dies, and what it was sending is not settled.
Crash(w) ==
    /\ ~Idle(w) /\ Fault
    /\ begun' = begun \ {w}
    /\ left' = [left EXCEPT ![w] = 0]
    /\ job' = [job EXCEPT ![w] = [d \in Deliveries |-> NoJob]]
    /\ recent' = [recent EXCEPT ![w] = NoWindows]
    /\ reserved' = [reserved EXCEPT ![w] = NoReservations]
    /\ UNCHANGED <<recorded, rules, row, tries>>

\* A dispatcher that is at work when its lease runs out is one of the faults.
Tick ==
    /\ \A w \in Dispatchers, d \in Deliveries : Sending(w, d) => job[w][d].timer > 1
    /\ IF \E w \in Dispatchers : left[w] = 1 THEN Fault ELSE UNCHANGED faults
    /\ left' = [w \in Dispatchers |-> IF left[w] > 0 THEN left[w] - 1 ELSE 0]
    /\ job' = [w \in Dispatchers |-> [d \in Deliveries |->
                  IF Sending(w, d) THEN [job[w][d] EXCEPT !.timer = @ - 1] ELSE job[w][d]]]
    /\ row' = [d \in Deliveries |->
                  [row[d] EXCEPT !.due = IF @ > 0 THEN @ - 1 ELSE 0,
                                 !.fresh = IF @ > 0 THEN @ - 1 ELSE 0,
                                 !.by = IF row[d].fresh > 1 THEN @ ELSE NoDispatcher]]
    /\ UNCHANGED <<recorded, rules, begun, recent, reserved, tries>>

-----------------------------------------------------------------------------
Work(w, d) ==
    \/ reserve(w, d) \/ StartSend(w, d) \/ SkipSend(w, d) \/ SendSucceeds(w, d) \/ SendFails(w, d)
    \/ mark_delivered(w, d) \/ mark_failed(w, d) \/ mark_suppressed(w, d)

Poll(w) == run_once(w) \/ claim_due(w) \/ \E d \in Deliveries : Work(w, d)

Next ==
    \/ \E n \in Notifications : project(n)
    \/ \E r \in Rules : delete_rule(r)
    \/ \E w \in Dispatchers : Poll(w) \/ Crash(w) \/ \E d \in Deliveries : SettleFails(w, d)
    \/ Tick

Spec == Init /\ [][Next]_vars
FairSpec == Spec /\ WF_vars(Tick) /\ \A w \in Dispatchers : WF_vars(Poll(w))

-----------------------------------------------------------------------------
(* What is promised.                                                       *)

\* Whoever sends a delivery holds its claim: a slow batch never overlaps a re-claim
\* (StartSend's lease check), so that no two hosts send one row at the same time.
SenderHoldsClaim ==
    \A w \in Dispatchers, d \in Deliveries :
        Sending(w, d) => \/ row[d].status = "deleted"
                         \/ Holds(w, d) /\ \A v \in Dispatchers \ {w} : ~Sending(v, d)

\* Crashes, lost settles and expired leases do not make for more sends than max_attempts.
TriesAreLimited == \A d \in Deliveries : tries[d] <= MaxAttempts

\* No host by itself delivers more for a rule in a window than its limit, however its
\* sends of one poll overlap and whatever became of the earlier ones, apart from deliveries
\* it was never told of.
WindowIsKept ==
    \A w \in Dispatchers, r \in Rules :
        Cardinality({d \in Deliveries : RuleOf(d) = r /\ row[d].by = w /\ row[d].fresh > 0})
            <= RateLimit

\* A settled delivery stays as it is and is never sent again, by no host that claimed it
\* before (settles are fenced, sends need enough of the lease).
SettledIsFinal ==
    [][\A d \in Deliveries : row[d].status \in Settled =>
          row'[d].status \in {row[d].status, "deleted"} /\ tries'[d] = tries[d]]_vars

\* The outbox drains: once nothing more is recorded, every delivery is settled in the end
\* or goes with its rule (claims that are left behind are taken over when their lease ends).
OutboxDrains ==
    <>[](\A d \in Deliveries : row[d].status \in {"none", "deleted"} \cup Settled)
=============================================================================
