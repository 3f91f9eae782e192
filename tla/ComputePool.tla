---------------------------- MODULE ComputePool ----------------------------
(***************************************************************************)
(* The controllers of a compute pool: they start and stop sessions on its  *)
(* machines, poll them, and keep its warm capacity.  What a controller     *)
(* holds in memory is the start requests under way (call) and the machines *)
(* its maintenance has decided, from an earlier read, to dispose of        *)
(* (doomed); everything else it reads again under the machine's lock.      *)
(***************************************************************************)
EXTENDS ComputeLeases

CONSTANTS
    Reuses,         \* runtime.supports_reuse: a slot can be scrubbed and used again
    OneController,  \* the starts and stops of a session exclude each other in one process
    FailsInGuest    \* a start that fails may have got as far as running in the guest

VARIABLES call, doomed

vars == <<machine, binding, secrets, admission, vm, late, guest, op, faults, call, doomed>>

Calls == {"new", "claim", "bind", "store", "resume", "launch", "done"}

TypeOK ==
    /\ LedgerTypeOK
    /\ call \in [Requests -> [at : Calls, session : Sessions \cup {NoSession}]]
    /\ doomed \subseteq Machines

Init ==
    /\ LedgerInit
    /\ call = [r \in Requests |-> [at |-> "new", session |-> NoSession]]
    /\ doomed = {}

\* a session not seen yet is as good as another
Known == {call[r].session : r \in Requests} \cap Sessions
Callers == Known \cup (IF Known = Sessions THEN {} ELSE {CHOOSE s \in Sessions : s \notin Known})

Active(s) == \E r \in Requests : call[r].session = s /\ call[r].at \notin {"new", "done"}
Goto(r, at) == call' = [call EXCEPT ![r].at = at]

-----------------------------------------------------------------------------
(***************************************************************************)
(* start: the session's own claim, else a warm slot, else a new machine.   *)
(***************************************************************************)
start(r, s) ==
    /\ call[r].at = "new" /\ r = CHOOSE q \in Requests : call[q].at = "new"
    /\ s \in Callers
    /\ OneController => ~Active(s)
    /\ call' = [call EXCEPT ![r] = [at |-> IF ClaimsOf(s) = {} THEN "claim" ELSE "resume",
                                    session |-> s]]
    /\ UNCHANGED <<ledgerVars, doomed>>

\* _bind_when_free: under the machine's lock, the secret is stored before the binding
_bind_when_free(r, m) ==
    /\ call[r].at = "claim"
    /\ op[m] = Free /\ machine[m] = "idle" /\ usable_slots(m) > 0
    /\ secrets' = secrets \cup {<<m, call[r].session>>}
    /\ Enter(m, "binding", r)
    /\ Goto(r, "bind")
    /\ UNCHANGED <<machine, binding, admission, vm, late, guest, faults, doomed>>

bind(m) ==
    /\ op[m].at = "binding"
    /\ LET r == op[m].for
           s == call[r].session
       IN /\ Leave(m)
          /\ \/ /\ admission = "open" /\ ClaimsOf(s) = {}
                /\ SaveSlot(r, NewBinding(m, s, next_free_slot(m)))
                /\ Goto(r, "done")
                /\ UNCHANGED secrets
             \/ /\ admission # "open" \/ ClaimsOf(s) # {}
                /\ secrets' = secrets \ {<<m, s>>}
                /\ Goto(r, IF admission # "open" THEN "done" ELSE "claim")
                /\ UNCHANGED binding
    /\ UNCHANGED <<machine, admission, vm, late, guest, faults, doomed>>

\* acquire: the reservation commits; the secrets are stored under the lock, later
acquire(r, m) ==
    /\ call[r].at = "claim"
    /\ IF ClaimsOf(call[r].session) # {}
       THEN Goto(r, "done") /\ UNCHANGED <<machine, binding>>
       ELSE /\ Fresh(m) /\ HasRoom /\ CanProvision
            /\ SaveMachine(m, "provisioning")
            /\ SaveSlot(r, NewBinding(m, call[r].session, 0))
            /\ Goto(r, "store")
    /\ UNCHANGED <<secrets, admission, vm, late, guest, op, faults, doomed>>

store_bootstrap(r) ==
    /\ call[r].at = "store" /\ op[binding[r].machine] = Free
    /\ secrets' = IF machine[binding[r].machine] = "provisioning"
                  THEN secrets \cup {<<binding[r].machine, binding[r].session>>} ELSE secrets
    /\ Goto(r, "done")
    /\ UNCHANGED <<machine, binding, admission, vm, late, guest, op, faults, doomed>>

\* the session's own claim: a failed start is opened again, a started runtime is run again
_retry_failed_runtime(r) ==
    /\ call[r].at = "resume"
    /\ \/ \E c \in ClaimsOf(call[r].session) :
            /\ op[binding[c].machine] = Free /\ HasBootstrap(c)
            /\ IF /\ binding[c].state = "failed" /\ binding[c].retryable
                  /\ InService(binding[c].machine)
               THEN /\ SaveSlot(c, [binding[c] EXCEPT !.state = "starting", !.retryable = FALSE,
                                                      !.data = FALSE, !.started = FALSE])
                    /\ Goto(r, "done")
               ELSE /\ UNCHANGED binding
                    /\ Goto(r, IF binding[c].state \in {"starting", "busy"} THEN "launch" ELSE "done")
       \/ /\ \A c \in ClaimsOf(call[r].session) : ~HasBootstrap(c)
          /\ UNCHANGED binding
          /\ Goto(r, "done")
    /\ UNCHANGED <<machine, secrets, admission, vm, late, guest, op, faults, doomed>>

\* a start times out, is refused for good, or its process dies
GiveUp(r) ==
    /\ call[r].at \in {"claim", "resume", "launch"}
    /\ Goto(r, "done")
    /\ UNCHANGED <<ledgerVars, doomed>>

CallDies(r) ==
    /\ call[r].at = "store"
    /\ Fault
    /\ Goto(r, "done")
    /\ UNCHANGED <<machine, binding, secrets, admission, vm, late, guest, op, doomed>>

-----------------------------------------------------------------------------
(***************************************************************************)
(* _start_runtime, by the start or by a status poll that recovers it.      *)
(***************************************************************************)
_start_runtime(r) ==
    LET b == binding[r]
        m == b.machine
        again == {q \in Requests : call[q].at = "launch" /\ call[q].session = b.session}
    IN /\ b.state \in {"starting", "busy"}
       /\ op[m] = Free /\ InService(m) /\ vm[m] = "running" /\ HasBootstrap(r)
       /\ ~b.started \/ again # {}
       /\ SaveSlot(r, [b EXCEPT !.data = TRUE])
       /\ Enter(m, "starting", r)
       /\ call' = [q \in Requests |-> IF q \in again THEN [call[q] EXCEPT !.at = "done"] ELSE call[q]]
       /\ UNCHANGED <<machine, secrets, admission, vm, late, guest, faults, doomed>>

RuntimeRuns(m) ==
    /\ op[m].at = "starting" /\ vm[m] = "running"
    /\ guest' = [guest EXCEPT ![m][binding[op[m].for].slot] =
                    [of |-> binding[op[m].for].session, saved |-> FALSE]]
    /\ Enter(m, "running", op[m].for)
    /\ UNCHANGED <<machine, binding, secrets, admission, vm, late, faults, call, doomed>>

RuntimeStarted(m) ==
    /\ op[m].at = "running"
    /\ SaveSlot(op[m].for, [binding[op[m].for] EXCEPT !.started = TRUE])
    /\ Leave(m)
    /\ UNCHANGED <<machine, secrets, admission, vm, late, guest, faults, call, doomed>>

\* any other failure than an unavailable guest fails the slot
RuntimeFails(m) ==
    /\ op[m].at \in {"starting", "running"}
    /\ FailsInGuest \/ guest[m][binding[op[m].for].slot] = NoData
    /\ Fault
    /\ \E retryable \in BOOLEAN :
        SaveSlot(op[m].for, [binding[op[m].for] EXCEPT !.state = "failed", !.retryable = retryable])
    /\ Leave(m)
    /\ UNCHANGED <<machine, secrets, admission, vm, late, guest, call, doomed>>

\* status: the runtime answers; the slot is busy, and its machine in service
mark_busy(r) ==
    LET m == binding[r].machine
    IN /\ binding[r].state = "starting" /\ binding[r].started
       /\ op[m] = Free /\ InService(m) /\ vm[m] = "running"
       /\ SaveSlot(r, [binding[r] EXCEPT !.state = "busy"])
       /\ IF machine[m] = "ready" THEN Enter(m, "serving", r) ELSE UNCHANGED op
       /\ UNCHANGED <<machine, secrets, admission, vm, late, guest, faults, call, doomed>>

MachineServes(m) ==
    /\ op[m].at = "serving"
    /\ SaveMachine(m, "idle")
    /\ Leave(m)
    /\ UNCHANGED <<binding, secrets, admission, vm, late, guest, faults, call, doomed>>

-----------------------------------------------------------------------------
(***************************************************************************)
(* stop, and finish_stop: the intent, the archive, then the slot is        *)
(* scrubbed for reuse or retired, and the last one drains its machine.     *)
(***************************************************************************)
CanStop(r) ==
    /\ binding[r].state \in LiveStates \ {"draining"}
    /\ op[binding[r].machine] = Free
    /\ machine[binding[r].machine] \notin {"released", "draining"}

stop(r) ==
    /\ CanStop(r) /\ ~binding[r].stop
    /\ OneController => ~Active(binding[r].session)
    /\ SaveSlot(r, [binding[r] EXCEPT !.stop = TRUE])
    /\ Enter(binding[r].machine, "stopping", r)
    /\ UNCHANGED <<machine, secrets, admission, vm, late, guest, faults, call, doomed>>

\* mutant: only the slots that still work are stopped
_finish_stop_of_working(r) ==
    /\ CanStop(r) /\ binding[r].stop /\ binding[r].state # "failed"
    /\ Enter(binding[r].machine, "stopping", r)
    /\ UNCHANGED <<machine, binding, secrets, admission, vm, late, guest, faults, call, doomed>>

\* maintenance takes up what an earlier attempt did not finish
_finish_requested_stop(r) ==
    /\ CanStop(r) /\ binding[r].stop
    /\ Enter(binding[r].machine, "stopping", r)
    /\ UNCHANGED <<machine, binding, secrets, admission, vm, late, guest, faults, call, doomed>>

Archive(m) ==
    /\ op[m].at = "stopping"
    /\ LET r == op[m].for
           k == binding[r].slot
       IN IF binding[r].data
          THEN /\ vm[m] = "running" /\ HasBootstrap(r)
               /\ guest' = [guest EXCEPT ![m][k].saved = TRUE]
          ELSE UNCHANGED guest
    /\ Enter(m, "archived", op[m].for)
    /\ UNCHANGED <<machine, binding, secrets, admission, vm, late, faults, call, doomed>>

\* mutant: a stop goes on without its archive
ArchiveSkipped(m) ==
    /\ op[m].at = "stopping" /\ binding[op[m].for].data
    /\ IF vm[m] = "running" /\ HasBootstrap(op[m].for) THEN Fault ELSE UNCHANGED faults
    /\ Enter(m, "archived", op[m].for)
    /\ UNCHANGED <<machine, binding, secrets, admission, vm, late, guest, call, doomed>>

\* a failed archive leaves the machine intact
ArchiveFails(m) ==
    /\ op[m].at = "stopping" /\ binding[op[m].for].data
    /\ IF vm[m] = "running" /\ HasBootstrap(op[m].for) THEN Fault ELSE UNCHANGED faults
    /\ Leave(m)
    /\ UNCHANGED <<machine, binding, secrets, admission, vm, late, guest, call, doomed>>

Reusable(r) ==
    /\ Reuses /\ admission # "drain"
    /\ InService(binding[r].machine)
    /\ binding[r].started /\ binding[r].state \in {"starting", "busy"}
    /\ Cardinality(On(binding[r].machine)) < SessionLimit

\* mutant: the slot is given back as it is
recycle_as_is(m) ==
    /\ op[m].at = "archived" /\ Reusable(op[m].for) /\ vm[m] = "running"
    /\ Enter(m, "recycled", op[m].for)
    /\ UNCHANGED <<machine, binding, secrets, admission, vm, late, guest, faults, call, doomed>>

\* mutant: the secret goes with the scrub, before the binding has ended
recycle_with_secret(m) ==
    /\ op[m].at = "archived" /\ Reusable(op[m].for) /\ vm[m] = "running"
    /\ guest' = [guest EXCEPT ![m][binding[op[m].for].slot] = NoData]
    /\ secrets' = secrets \ {<<m, binding[op[m].for].session>>}
    /\ Enter(m, "recycled", op[m].for)
    /\ UNCHANGED <<machine, binding, admission, vm, late, faults, call, doomed>>

recycle(m) ==
    /\ op[m].at = "archived" /\ Reusable(op[m].for) /\ vm[m] = "running"
    /\ guest' = [guest EXCEPT ![m][binding[op[m].for].slot] = NoData]
    /\ Enter(m, "recycled", op[m].for)
    /\ UNCHANGED <<machine, binding, secrets, admission, vm, late, faults, call, doomed>>

release_slot(m) ==
    /\ op[m].at = "recycled"
    /\ SaveSlot(op[m].for, [binding[op[m].for] EXCEPT !.state = "released", !.data = FALSE,
                                                      !.started = FALSE, !.stop = FALSE])
    /\ Enter(m, "freed", op[m].for)
    /\ UNCHANGED <<machine, secrets, admission, vm, late, guest, faults, call, doomed>>

EmptyMachine(m) ==
    /\ op[m].at = "freed"
    /\ machine' = IF Live(m) = {} THEN [machine EXCEPT ![m] = "idle"] ELSE machine
    /\ Enter(m, "emptied", op[m].for)
    /\ UNCHANGED <<binding, secrets, admission, vm, late, guest, faults, call, doomed>>

ForgetSecret(m) ==
    /\ op[m].at = "emptied"
    /\ secrets' = secrets \ {<<m, binding[op[m].for].session>>}
    /\ Leave(m)
    /\ UNCHANGED <<machine, binding, admission, vm, late, guest, faults, call, doomed>>

retire_slot(m) ==
    /\ op[m].at = "archived" /\ ~Reusable(op[m].for)
    /\ IF Live(m) = {op[m].for}
       THEN SaveMachine(m, "draining") /\ Enter(m, "draining", op[m].for) /\ UNCHANGED binding
       ELSE /\ SaveSlot(op[m].for, [binding[op[m].for] EXCEPT !.state = "retired"])
            /\ Leave(m) /\ UNCHANGED machine
    /\ UNCHANGED <<secrets, admission, vm, late, guest, faults, call, doomed>>

DrainSlot(m) ==
    /\ op[m].at = "draining"
    /\ SaveSlot(op[m].for, [binding[op[m].for] EXCEPT !.state = "draining"])
    /\ Leave(m)
    /\ UNCHANGED <<machine, secrets, admission, vm, late, guest, faults, call, doomed>>

\* the process or its connection dies, or the guest does: the lock is released where it was
OperationDies(m) ==
    /\ op[m] # Free
    /\ IF vm[m] # "running" /\ (op[m].at = "starting" \/ (op[m].at = "archived" /\ Reusable(op[m].for)))
       THEN UNCHANGED faults ELSE Fault
    /\ Leave(m)
    /\ IF op[m].at = "binding" THEN Goto(op[m].for, "done") ELSE UNCHANGED call
    /\ UNCHANGED <<machine, binding, secrets, admission, vm, late, guest, doomed>>

-----------------------------------------------------------------------------
(***************************************************************************)
(* maintain: what it decides from a read, it does later under the lock.    *)
(***************************************************************************)
Decide(m) ==
    /\ m \notin doomed /\ Live(m) = {}
    /\ \/ machine[m] = "failed"
       \/ machine[m] \in {"provisioning", "ready", "idle"} /\ (admission = "drain" \/ usable_slots(m) = 0)
       \/ machine[m] = "idle" /\ FreeSlots - usable_slots(m) >= WarmMin
       \/ machine[m] = "idle" /\ Cardinality(Charged) > MaxMachines
       \/ machine[m] = "quarantined"    \* by an operator, not by maintain
    /\ doomed' = doomed \cup {m}
    /\ UNCHANGED <<ledgerVars, call>>

\* mutant: the decision is not checked again under the lock
dispose_decided(m) ==
    /\ m \in doomed
    /\ doomed' = doomed \ {m}
    /\ IF op[m] = Free THEN SaveMachine(m, "draining") ELSE UNCHANGED machine
    /\ UNCHANGED <<binding, secrets, admission, vm, late, guest, op, faults, call>>

dispose(m) ==
    /\ m \in doomed
    /\ doomed' = doomed \ {m}
    /\ IF op[m] = Free /\ Live(m) = {}
       THEN SaveMachine(m, "draining") ELSE UNCHANGED machine
    /\ UNCHANGED <<binding, secrets, admission, vm, late, guest, op, faults, call>>

\* a prepared machine nobody waits for becomes a spare
warm(m) ==
    /\ op[m] = Free /\ machine[m] = "ready" /\ Live(m) = {} /\ vm[m] = "running"
    /\ SaveMachine(m, "idle")
    /\ UNCHANGED <<binding, secrets, admission, vm, late, guest, op, faults, call, doomed>>

Ledger ==
    /\ \/ set_policy
       \/ \E m \in Machines : acquire_standby(m) \/ quarantine(m) \/ Reconcile(m) \/ Provider(m)
    /\ UNCHANGED <<call, doomed>>

Operation(m) ==
    \/ bind(m) \/ RuntimeRuns(m) \/ RuntimeStarted(m) \/ MachineServes(m)
    \/ Archive(m) \/ recycle(m) \/ release_slot(m) \/ EmptyMachine(m) \/ ForgetSecret(m)
    \/ retire_slot(m) \/ DrainSlot(m)

Next ==
    \/ Ledger
    \/ \E r \in Requests :
        \/ \E s \in Sessions : start(r, s)
        \/ \E m \in Machines : _bind_when_free(r, m) \/ acquire(r, m)
        \/ store_bootstrap(r) \/ _retry_failed_runtime(r) \/ GiveUp(r) \/ CallDies(r)
        \/ _start_runtime(r) \/ mark_busy(r) \/ stop(r) \/ _finish_requested_stop(r)
    \/ \E m \in Machines :
        \/ Operation(m) \/ RuntimeFails(m) \/ ArchiveFails(m) \/ OperationDies(m)
        \/ Decide(m) \/ dispose(m) \/ warm(m)

Spec == Init /\ [][Next]_vars

\* Locks, the provider and the maintenance loop answer; a claim that failed is stopped by
\* the sweep over active sessions.  Nothing makes an operator or a user act.
Fairness ==
    /\ \A m \in Machines :
        /\ WF_vars((Operation(m) \/ ArchiveFails(m) \/ OperationDies(m)) /\ faults' = faults)
        /\ WF_vars((ReconcileFail(m) \/ DeleteRequest(m) \/ DeleteConfirmed(m)) /\ UNCHANGED <<call, doomed>>)
        /\ WF_vars(quarantine(m) /\ UNCHANGED <<call, doomed>>)
        /\ WF_vars((VmBoots(m) \/ VmDeleted(m)) /\ UNCHANGED <<call, doomed>>)
        /\ WF_vars(machine[m] = "failed" /\ Decide(m)) /\ WF_vars(dispose(m))
    /\ \A r \in Requests :
        /\ WF_vars(store_bootstrap(r) \/ _retry_failed_runtime(r) \/ GiveUp(r))
        /\ WF_vars(_finish_requested_stop(r))
        /\ WF_vars(stop(r) /\ machine[binding[r].machine] = "failed")

FairSpec == Spec /\ Fairness

-----------------------------------------------------------------------------
(***************************************************************************)
(* What the pool promises.                                                 *)
(***************************************************************************)
Unsaved(m, k) == guest[m][k].of # NoSession /\ ~guest[m][k].saved

\* A session never runs in two places: whatever fails and is started again, at most one slot
\* of one machine holds data of it that is not archived.
OneGuestPerSession ==
    \A m1, m2 \in Machines, k1, k2 \in Slots :
        Unsaved(m1, k1) /\ Unsaved(m2, k2) /\ guest[m1][k1].of = guest[m2][k2].of
            => m1 = m2 /\ k1 = k2

\* A slot that is given to a session holds nothing of the session before it (finish_stop:
\* scrubbed, then released), through every crash between the scrub and the release.
SlotHoldsItsSession ==
    \A m \in Machines, k \in Slots :
        guest[m][k].of # NoSession
            => {binding[r].session : r \in {q \in Occupying(m) : binding[q].slot = k}} = {guest[m][k].of}

\* What runs at the provider counts against max_machines until its deletion is confirmed;
\* only a create that lands after its allocation was released does not, until it is found.
ChargedUntilGone ==
    \A m \in Machines : vm[m] \notin {"absent", "stray"} => m \in Charged

\* A session bound to a machine in service has the bootstrap its start, archive and scrub
\* need, at every point a controller may die at (release_slot, bind).
ClaimKeepsBootstrap ==
    \A m \in Machines : InService(m)
        => \A r \in Live(m) : HasBootstrap(r)

\* What a session has in a guest and not in the archive is neither scrubbed, overwritten by
\* another session's start, nor deleted with the machine.
DataPreserved ==
    [][\A m \in Machines, k \in Slots : Unsaved(m, k) => guest'[m][k].of = guest[m][k].of]_vars

\* A machine is drained only once every session on it was asked to stop: a decision to dispose
\* of an idle machine loses against a session bound to it since (dispose).
DrainsOnlyTheStopped ==
    [][\A m \in Machines : machine[m] # "draining" /\ machine'[m] = "draining"
        => \A r \in Live(m) : binding[r].stop]_vars

\* a machine with a session whose data cannot be reached any more, to archive it
Stuck(m) == \E r \in Live(m) : binding[r].data /\ vm[m] = "broken"

\* A stop that was asked for is finished, whichever step of it failed before, unless a machine
\* that broke holds data of one of its sessions.
StopSettles ==
    \A r \in Requests :
        (binding[r].stop /\ binding[r].state \in LiveStates) ~>
            \/ binding[r].state \in {"retired", "released"}
            \/ Stuck(binding[r].machine)

\* A machine that failed or drains is deleted and released, unless it broke with the data of
\* a session on it.
FailedIsDisposed ==
    \A m \in Machines :
        machine[m] \in {"failed", "draining"} ~> machine[m] = "released" \/ Stuck(m)

\* A machine nobody asked for any more is found and charged, or deleted.
StrayIsQuarantined ==
    \A m \in Machines : vm[m] = "stray" ~> machine[m] \in {"quarantined", "draining"}
=============================================================================
