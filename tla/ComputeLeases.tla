--------------------------- MODULE ComputeLeases ---------------------------
(***************************************************************************)
(* The ledger of a compute pool: the rows of compute_leases (machines) and *)
(* compute_slots (the sessions bound to their slots), the credential store *)
(* that holds a bootstrap secret per bound session, the machine provider,  *)
(* and the reconciliation of a machine's row with it.  A row changes only  *)
(* under the machine's operation lock, which a process loses when it or    *)
(* its connection dies, or in a transaction under the pool's lock.         *)
(*                                                                         *)
(* A start request creates at most one binding, so a binding is named by   *)
(* its request.  An allocation id is never used twice.                     *)
(***************************************************************************)
EXTENDS Integers, FiniteSets, FiniteSetsExt

CONSTANTS
    Machines,         \* the allocation ids there are to use
    Sessions,
    Requests,         \* the requests to start a session, one binding each
    NoMachine, NoSession, NoRequest,
    SlotsPerMachine,  \* policy.slots_per_machine
    SessionLimit,     \* session_limit: sessions a machine serves before it drains
    MaxMachines,      \* policy.max_machines
    MaxProvisioning,  \* policy.max_provisioning
    WarmMin,          \* policy.warm_min, in free slots
    Policies,         \* the admission the operator may set
    MaxFaults         \* crashes, lost calls, failed archives and broken machines

ASSUME ComputeAssumption ==
    /\ SlotsPerMachine \in Nat \ {0} /\ MaxMachines \in Nat \ {0}
    /\ SessionLimit \in Nat /\ SessionLimit >= SlotsPerMachine
    /\ MaxProvisioning \in Nat \ {0} /\ WarmMin \in Nat /\ MaxFaults \in Nat
    /\ Policies \subseteq {"open", "paused", "drain"}
    /\ IsFiniteSet(Requests)
    /\ NoMachine \notin Machines /\ NoSession \notin Sessions /\ NoRequest \notin Requests

VARIABLES
    machine,    \* the state of each machine's row, "none" before it is reserved
    binding,    \* the row each request's start created
    secrets,    \* the <<machine, session>> pairs whose bootstrap is stored
    admission,  \* the pool's policy: "open", "paused" or "drain"
    vm,         \* what the provider has for each allocation id
    late,       \* allocations with a create whose answer was lost and that may still land
    guest,      \* what each slot of each machine holds: a session's data, saved or not
    op,         \* what the holder of each machine's operation lock has got to
    faults

ledgerVars == <<machine, binding, secrets, admission, vm, late, guest, op, faults>>

Slots == 0 .. SlotsPerMachine - 1
LiveStates == {"starting", "busy", "failed", "draining"}
SlotStates == LiveStates \cup {"retired", "released"}
LeaseStates == {"provisioning", "ready", "idle", "draining", "released", "failed", "quarantined"}

Steps == {"binding", "starting", "running", "serving", "stopping", "archived",
          "recycled", "freed", "emptied", "draining"}
Free == [at |-> "free", for |-> NoRequest]
NoData == [of |-> NoSession, saved |-> TRUE]
NoBinding == [state |-> "none", machine |-> NoMachine, session |-> NoSession, slot |-> 0,
              data |-> FALSE, started |-> FALSE, stop |-> FALSE, retryable |-> FALSE]

Bindings == [state : SlotStates, machine : Machines, session : Sessions, slot : Slots,
             data : BOOLEAN, started : BOOLEAN, stop : BOOLEAN, retryable : BOOLEAN]

LedgerTypeOK ==
    /\ machine \in [Machines -> LeaseStates \cup {"none"}]
    /\ binding \in [Requests -> Bindings \cup {NoBinding}]
    /\ secrets \subseteq Machines \X Sessions
    /\ admission \in {"open", "paused", "drain"}
    /\ vm \in [Machines -> {"absent", "booting", "running", "broken", "deleting", "stray"}]
    /\ late \subseteq Machines
    /\ guest \in [Machines -> [Slots -> [of : Sessions \cup {NoSession}, saved : BOOLEAN]]]
    /\ op \in [Machines -> [at : Steps, for : Requests] \cup {Free}]
    /\ faults \in 0 .. MaxFaults

LedgerInit ==
    /\ machine = [m \in Machines |-> "none"]
    /\ binding = [r \in Requests |-> NoBinding]
    /\ secrets = {}
    /\ admission = "open"
    /\ vm = [m \in Machines |-> "absent"]
    /\ late = {}
    /\ guest = [m \in Machines |-> [k \in Slots |-> NoData]]
    /\ op = [m \in Machines |-> Free]
    /\ faults = 0

Fault == faults < MaxFaults /\ faults' = faults + 1

-----------------------------------------------------------------------------
(***************************************************************************)
(* What the rows say.                                                      *)
(***************************************************************************)
On(m) == {r \in Requests : binding[r].machine = m}
Live(m) == {r \in On(m) : binding[r].state \in LiveStates}
\* mutant: a session whose start failed counts as having no claim
WorkingClaimsOf(s) == {r \in Requests : binding[r].session = s /\ binding[r].state \in {"starting", "busy"}}

ClaimsOf(s) == {r \in Requests : binding[r].session = s /\ binding[r].state \in LiveStates}
Occupying(m) == {r \in On(m) : binding[r].state # "released"}

InService(m) == machine[m] \in {"ready", "idle"}

usable_slots(m) ==
    IF machine[m] \notin {"provisioning", "ready", "idle"} \/ \E r \in Live(m) : binding[r].stop
    THEN 0
    ELSE Max({0, Min({SlotsPerMachine - Cardinality(Occupying(m)),
                      SessionLimit - Cardinality(On(m))})})

FreeSlots == MapThenSumSet(usable_slots, Machines)

next_free_slot(m) == Min(Slots \ {binding[r].slot : r \in Occupying(m)})

Charged == {m \in Machines : machine[m] \notin {"none", "released"}}
Provisioning ==
    {m \in Machines : \/ machine[m] = "provisioning"
                      \/ machine[m] = "ready" /\ \A r \in On(m) : binding[r].state # "failed"}

HasBootstrap(r) == <<binding[r].machine, binding[r].session>> \in secrets

NewBinding(m, s, k) ==
    [NoBinding EXCEPT !.state = "starting", !.machine = m, !.session = s, !.slot = k]

Enter(m, step, r) == op' = [op EXCEPT ![m] = [at |-> step, for |-> r]]
Leave(m) == op' = [op EXCEPT ![m] = Free]
SaveSlot(r, f) == binding' = [binding EXCEPT ![r] = f]
SaveMachine(m, state) == machine' = [machine EXCEPT ![m] = state]

-----------------------------------------------------------------------------
(***************************************************************************)
(* Admission: one transaction under the pool's lock.                       *)
(***************************************************************************)
\* uuid4: one id nothing refers to is as good as another
Fresh(m) == machine[m] = "none" /\ m = CHOOSE x \in Machines : machine[x] = "none"

HasRoom == admission = "open" /\ Cardinality(Charged) < MaxMachines
CanProvision == Cardinality(Provisioning) < MaxProvisioning

\* reserve without a binding: the pool's standby
acquire_standby(m) ==
    /\ Fresh(m)
    /\ HasRoom /\ CanProvision /\ FreeSlots < WarmMin
    /\ SaveMachine(m, "provisioning")
    /\ UNCHANGED <<binding, secrets, admission, vm, late, guest, op, faults>>

\* the operator's policy
set_policy ==
    /\ \E to \in Policies \ {admission} : admission' = to
    /\ UNCHANGED <<machine, binding, secrets, vm, late, guest, op, faults>>

\* mutant: a row that is there, be it released, is left alone
quarantine_unknown(m) ==
    /\ vm[m] = "stray"
    /\ machine[m] = "none"
    /\ SaveMachine(m, "quarantined")
    /\ UNCHANGED <<binding, secrets, admission, vm, late, guest, op, faults>>

\* the owned machine no row knows of is recorded, over a released row
quarantine(m) ==
    /\ vm[m] = "stray"
    /\ machine[m] = "released"
    /\ SaveMachine(m, "quarantined")
    /\ UNCHANGED <<binding, secrets, admission, vm, late, guest, op, faults>>

-----------------------------------------------------------------------------
(***************************************************************************)
(* Reconciliation, one lock section each: it reads the row again under the *)
(* lock.  What a crash inside it leaves is what the next one starts from.  *)
(***************************************************************************)
ReconcileCreate(m) ==
    /\ machine[m] = "provisioning" /\ op[m] = Free
    /\ \A r \in Live(m) : HasBootstrap(r)
    /\ vm[m] = "absent"
    /\ vm' = [vm EXCEPT ![m] = "booting"]
    /\ UNCHANGED <<machine, binding, secrets, admission, late, guest, op, faults>>

\* the call is lost: the row stays, and the create may still arrive
ReconcileCreateLost(m) ==
    /\ machine[m] = "provisioning" /\ op[m] = Free
    /\ \A r \in Live(m) : HasBootstrap(r)
    /\ vm[m] = "absent" /\ m \notin late
    /\ Fault
    /\ late' = late \cup {m}
    /\ UNCHANGED <<machine, binding, secrets, admission, vm, guest, op>>

ReconcileReady(m) ==
    /\ machine[m] = "provisioning" /\ op[m] = Free
    /\ \A r \in Live(m) : HasBootstrap(r)
    /\ vm[m] = "running"
    /\ SaveMachine(m, "ready")
    /\ UNCHANGED <<binding, secrets, admission, vm, late, guest, op, faults>>

\* the machine failed or is gone, or its provisioning took too long
ReconcileFail(m) ==
    /\ op[m] = Free
    /\ \/ InService(m) /\ vm[m] \notin {"booting", "running"}
       \/ machine[m] = "provisioning"
       \/ machine[m] = "ready" /\ Live(m) = {}
    /\ SaveMachine(m, "failed")
    /\ UNCHANGED <<binding, secrets, admission, vm, late, guest, op, faults>>

\* the start of a session took too long: its slot fails, for good
ReconcileOverdue(m) ==
    /\ InService(m) /\ op[m] = Free
    /\ \E r \in Live(m) :
        /\ binding[r].state = "starting"
        /\ SaveSlot(r, [binding[r] EXCEPT !.state = "failed", !.retryable = FALSE])
    /\ UNCHANGED <<machine, secrets, admission, vm, late, guest, op, faults>>

\* mutant: maintenance looks at what a machine's sessions ask for before it deletes it
DeleteRequestOfEmpty(m) ==
    /\ machine[m] = "draining" /\ op[m] = Free /\ Live(m) = {}
    /\ vm[m] \notin {"absent", "deleting"}
    /\ vm' = [vm EXCEPT ![m] = "deleting"]
    /\ guest' = [guest EXCEPT ![m] = [k \in Slots |-> NoData]]
    /\ UNCHANGED <<machine, binding, secrets, admission, late, op, faults>>

\* _delete, not yet confirmed: whatever the machine holds goes with it
DeleteRequest(m) ==
    /\ machine[m] = "draining" /\ op[m] = Free
    /\ vm[m] \notin {"absent", "deleting"}
    /\ vm' = [vm EXCEPT ![m] = "deleting"]
    /\ guest' = [guest EXCEPT ![m] = [k \in Slots |-> NoData]]
    /\ UNCHANGED <<machine, binding, secrets, admission, late, op, faults>>

\* mutant: a machine counts as deleted once the provider took the request
DeleteUnconfirmed(m) ==
    /\ machine[m] = "draining" /\ op[m] = Free
    /\ vm[m] \in {"absent", "deleting"}
    /\ secrets' = {x \in secrets : x[1] # m}
    /\ SaveMachine(m, "released")
    /\ binding' = [r \in Requests |-> IF r \in Live(m) THEN [binding[r] EXCEPT !.state = "retired"]
                                      ELSE binding[r]]
    /\ UNCHANGED <<admission, vm, late, guest, op, faults>>

\* _delete, confirmed: the secrets go, then the row is released with its bindings
DeleteConfirmed(m) ==
    /\ machine[m] = "draining" /\ op[m] = Free
    /\ vm[m] = "absent"
    /\ secrets' = {x \in secrets : x[1] # m}
    /\ SaveMachine(m, "released")
    /\ binding' = [r \in Requests |-> IF r \in Live(m) THEN [binding[r] EXCEPT !.state = "retired"]
                                      ELSE binding[r]]
    /\ UNCHANGED <<admission, vm, late, guest, op, faults>>

Reconcile(m) ==
    \/ ReconcileCreate(m) \/ ReconcileCreateLost(m) \/ ReconcileReady(m)
    \/ ReconcileFail(m) \/ ReconcileOverdue(m) \/ DeleteRequest(m) \/ DeleteConfirmed(m)

-----------------------------------------------------------------------------
(***************************************************************************)
(* The provider.                                                           *)
(***************************************************************************)
VmBoots(m) ==
    /\ vm[m] = "booting"
    /\ vm' = [vm EXCEPT ![m] = "running"]
    /\ UNCHANGED <<machine, binding, secrets, admission, late, guest, op, faults>>

VmBreaks(m) ==
    /\ vm[m] \in {"booting", "running"}
    /\ Fault
    /\ vm' = [vm EXCEPT ![m] = "broken"]
    /\ UNCHANGED <<machine, binding, secrets, admission, late, guest, op>>

VmDeleted(m) ==
    /\ vm[m] = "deleting"
    /\ vm' = [vm EXCEPT ![m] = "absent"]
    /\ UNCHANGED <<machine, binding, secrets, admission, late, guest, op, faults>>

\* a create whose answer was lost lands: on a released allocation, nobody asked for it
LateCreate(m) ==
    /\ m \in late
    /\ late' = late \ {m}
    /\ vm' = [vm EXCEPT ![m] = IF @ # "absent" THEN @
                               ELSE IF machine[m] = "released" THEN "stray" ELSE "booting"]
    /\ UNCHANGED <<machine, binding, secrets, admission, guest, op, faults>>

Provider(m) == VmBoots(m) \/ VmBreaks(m) \/ VmDeleted(m) \/ LateCreate(m)
=============================================================================
