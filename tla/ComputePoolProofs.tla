--------------------------- MODULE ComputePoolProofs ---------------------------
(***************************************************************************)
(* The safety of the compute pool, for any numbers of machines, slots,     *)
(* sessions and requests, and any policy.                                  *)
(*                                                                         *)
(* Every step of the pool is a step at one machine (Local): what the       *)
(* invariant says of the others (MachineOK) goes on to hold, and an        *)
(* action is answerable for its own machine only.  Across machines there   *)
(* are the claims of a session and the requests under way, which only the  *)
(* two steps that create a binding can upset (RowsShrink, CallsGoOn).      *)
(***************************************************************************)
EXTENDS ComputePool, FiniteSetTheorems, WellFoundedInduction, TLAPS

\* Rows as the arguments below speak of them.
Bound(r) == binding[r].state \in SlotStates
Holding(r) == binding[r].state \in LiveStates
Kept(r) == binding[r].state \in SlotStates \ {"released"}
Doing(m, S) == op[m].at \in S
For(m) == op[m].for
Empty(m, k) == guest[m][k].of = NoSession

--------------------------------------------------------------------------------
(* Claims and requests.                                                    *)

\* A session has at most one claim.
OneClaim ==
    \A r, q \in Requests :
        Holding(r) /\ Holding(q) /\ binding[r].session = binding[q].session => r = q

\* No two bindings share a slot of a machine.
SlotsApart ==
    \A r, q \in Requests :
        /\ Kept(r) /\ Kept(q)
        /\ binding[r].machine = binding[q].machine /\ binding[r].slot = binding[q].slot
        => r = q

\* A request that has not created its binding has none, one that is to store its secret has.
CallsMatch ==
    \A r \in Requests :
        /\ call[r].at \in {"new", "claim", "bind"} => binding[r] = NoBinding
        /\ call[r].at = "store" => Bound(r)
        /\ call[r].at # "new" => call[r].session \in Sessions

\* A session is started by one request at a time, which finds no claim unless it resumes one.
OneStart ==
    OneController =>
        /\ \A r, q \in Requests :
              /\ call[r].at \notin {"new", "done"} /\ call[q].at \notin {"new", "done"}
              /\ call[r].session = call[q].session
              => r = q
        /\ \A r, q \in Requests :
              call[r].at \in {"claim", "bind"} /\ Holding(q)
                => binding[q].session # call[r].session

\* A request binds at one machine at a time.
BindingsApart ==
    \A m, n \in Machines :
        Doing(m, {"binding"}) /\ Doing(n, {"binding"}) /\ For(m) = For(n) => m = n

--------------------------------------------------------------------------------
(* One machine.                                                            *)

\* What the holder of the lock may rely on while it works through its steps.
BindingOp(m) ==
    Doing(m, {"binding"}) =>
        /\ call[For(m)].at = "bind" /\ machine[m] = "idle"
        /\ <<m, call[For(m)].session>> \in secrets
        /\ \E k \in Slots : \A r \in Requests : Kept(r) /\ binding[r].machine = m => binding[r].slot # k

SlotOp(m) ==
    Doing(m, Steps \ {"binding"}) =>
        /\ Bound(For(m)) /\ binding[For(m)].machine = m
        /\ Doing(m, {"starting", "running"}) =>
              /\ InService(m) /\ binding[For(m)].state \in {"starting", "busy"}
              /\ binding[For(m)].data
        /\ Doing(m, {"serving"}) => InService(m)
        /\ Doing(m, {"stopping", "archived"}) =>
              /\ Holding(For(m)) /\ binding[For(m)].stop
              /\ machine[m] \notin {"none", "released", "draining"}
        /\ Doing(m, {"recycled"}) => Holding(For(m)) /\ InService(m)
        /\ Doing(m, {"freed", "emptied"}) =>
              /\ InService(m) /\ binding[For(m)].state = "released"
              /\ \A q \in Requests :
                    Holding(q) /\ binding[q].machine = m
                        => binding[q].session # binding[For(m)].session
        /\ Doing(m, {"draining"}) => machine[m] = "draining" /\ Holding(For(m))

\* A machine that anything refers to has a row, and one that runs is charged.
RowOK(m) ==
    /\ m \in late => machine[m] # "none"
    /\ \A r \in Requests : Bound(r) /\ binding[r].machine = m => machine[m] # "none"
    /\ vm[m] \notin {"absent", "stray"} => machine[m] \notin {"none", "released"}

BootstrapOK(m) ==
    OneController /\ InService(m) =>
        \A r \in Requests :
            Holding(r) /\ binding[r].machine = m => <<m, binding[r].session>> \in secrets

\* Whose the data in a slot is, and that what is not archived belongs to a claim.
DataOwned(m) ==
    \A k \in Slots : ~Empty(m, k) =>
        \E r \in Requests :
            /\ Kept(r) /\ binding[r].machine = m /\ binding[r].slot = k
            /\ binding[r].session = guest[m][k].of

UnsavedClaimed(m) ==
    ~FailsInGuest =>
        \A k \in Slots : Unsaved(m, k) =>
            \E r \in Requests :
                /\ Holding(r) /\ binding[r].machine = m /\ binding[r].slot = k
                /\ binding[r].session = guest[m][k].of /\ binding[r].data

\* Where a machine is to be deleted or a slot to be given back, nothing is left to archive;
\* and a start that may be opened again failed before it wrote to the guest.
NothingLeft(m) ==
    /\ vm[m] \in {"absent", "deleting"} => \A k \in Slots : Empty(m, k)
    /\ Doing(m, {"recycled"}) => Empty(m, binding[For(m)].slot)
    /\ ~FailsInGuest =>
          /\ machine[m] = "draining" => \A k \in Slots : ~Unsaved(m, k)
          /\ Doing(m, {"archived"}) => ~Unsaved(m, binding[For(m)].slot)
          /\ \A r \in Requests :
                binding[r].state = "failed" /\ binding[r].retryable /\ binding[r].machine = m
                    => Empty(m, binding[r].slot)

LockOK(m) == BindingOp(m) /\ SlotOp(m)
GuestOK(m) == DataOwned(m) /\ UnsavedClaimed(m) /\ NothingLeft(m)
MachineOK(m) == LockOK(m) /\ RowOK(m) /\ BootstrapOK(m) /\ GuestOK(m)

CallsOK == OneClaim /\ SlotsApart /\ CallsMatch /\ OneStart /\ BindingsApart

IInv == TypeOK /\ CallsOK /\ \A m \in Machines : MachineOK(m)

--------------------------------------------------------------------------------
(* Steps.                                                                  *)

\* A request that binds is at its machine.
BindsGoOn(m) ==
    \A q \in Requests :
        call[q].at = "bind" =>
            \/ call'[q] = call[q]
            \/ Doing(m, {"binding"}) /\ For(m) = q

\* What a step at machine m leaves alone.
Local(m) ==
    /\ \A n \in Machines \ {m} :
          /\ op'[n] = op[n] /\ machine'[n] = machine[n] /\ vm'[n] = vm[n] /\ guest'[n] = guest[n]
          /\ n \in late' => n \in late
          /\ \A s \in Sessions : <<n, s>> \in secrets' <=> <<n, s>> \in secrets
    /\ \A q \in Requests :
          \/ binding'[q] = binding[q]
          \/ binding'[q].machine = m /\ binding[q].machine \in {m, NoMachine}
    /\ BindsGoOn(m)

RowsShrink ==
    \A q \in Requests :
        /\ binding[q] = NoBinding => binding'[q] = NoBinding
        /\ binding'[q].machine = binding[q].machine /\ binding'[q].session = binding[q].session
        /\ binding'[q].slot = binding[q].slot
        /\ Bound(q) => Bound(q)'
        /\ Holding(q)' => Holding(q)
        /\ Kept(q)' => Kept(q)

CallsGoOn ==
    \A q \in Requests :
        /\ call'[q].session = call[q].session
        /\ \/ call'[q].at = call[q].at
           \/ call[q].at # "new" /\ call'[q].at = "done"
           \/ <<call[q].at, call'[q].at>> \in
                 {<<"resume", "launch">>, <<"claim", "bind">>, <<"bind", "claim">>}

\* What the two action properties ask of a machine.
KeepsData(m) ==
    ~FailsInGuest => \A k \in Slots : Unsaved(m, k) => guest'[m][k].of = guest[m][k].of
DrainsStopped(m) ==
    machine[m] # "draining" /\ machine'[m] = "draining"
        => \A r \in Requests : Holding(r) /\ binding[r].machine = m => binding[r].stop

\* What an action shows for its machine.
StepOK(m) == TypeOK' /\ CallsOK' /\ Local(m) /\ MachineOK(m)' /\ KeepsData(m) /\ DrainsStopped(m)

Good ==
    /\ IInv'
    /\ \A m \in Machines : KeepsData(m) /\ DrainsStopped(m)

--------------------------------------------------------------------------------
(* Rows, and steps elsewhere.                                              *)

LEMMA Rows ==
  ASSUME TypeOK, NEW r \in Requests
  PROVE  /\ Bound(r) => binding[r] \in Bindings /\ binding[r].machine \in Machines
                          /\ binding[r].session \in Sessions /\ binding[r].slot \in Slots
         /\ ~Bound(r) => binding[r] = NoBinding
         /\ binding[r] = NoBinding => ~Bound(r) /\ ~Holding(r) /\ ~Kept(r) /\ binding[r].machine = NoMachine
         /\ Holding(r) => Bound(r) /\ Kept(r)
         /\ Kept(r) => Bound(r)
  BY DEF TypeOK, LedgerTypeOK, Bindings, NoBinding, Bound, Holding, Kept, SlotStates, LiveStates

LEMMA Ops ==
  ASSUME TypeOK, NEW m \in Machines
  PROVE  op[m] # Free => op[m].at \in Steps /\ op[m].for \in Requests
  BY DEF TypeOK, LedgerTypeOK, Free

\* Claims and requests, where no binding is created.
LEMMA CallsKeep ==
  ASSUME TypeOK, TypeOK', CallsOK, RowsShrink, CallsGoOn, BindingsApart'
  PROVE  CallsOK'
<1>1. OneClaim'
  BY DEF CallsOK, OneClaim, RowsShrink
<1>2. SlotsApart'
  BY DEF CallsOK, SlotsApart, RowsShrink
<1>3. CallsMatch'
  BY DEF CallsOK, CallsMatch, RowsShrink, CallsGoOn
<1>4. OneStart'
  BY DEF CallsOK, OneStart, RowsShrink, CallsGoOn
<1> QED
  BY <1>1, <1>2, <1>3, <1>4 DEF CallsOK

\* A step at one machine keeps what is said of the others.
LEMMA OthersKeep ==
  ASSUME IInv, NEW m \in Machines, StepOK(m)
  PROVE  Good
<1>1. ASSUME NEW n \in Machines, n # m
      PROVE  MachineOK(n)' /\ KeepsData(n) /\ DrainsStopped(n)
  <2>1. /\ op'[n] = op[n] /\ machine'[n] = machine[n] /\ vm'[n] = vm[n] /\ guest'[n] = guest[n]
        /\ n \in late' => n \in late
        /\ \A s \in Sessions : <<n, s>> \in secrets' <=> <<n, s>> \in secrets
    BY <1>1 DEF StepOK, Local
  <2>2. \A q \in Requests : binding'[q].machine = n \/ binding[q].machine = n => binding'[q] = binding[q]
    BY <1>1, ComputeAssumption DEF StepOK, Local
  <2>3. MachineOK(n)
    BY DEF IInv
  <2>4. op[n] # Free => op[n].for \in Requests
    BY Ops DEF IInv
  <2>5. BindingOp(n)'
    <3> SUFFICES ASSUME Doing(n, {"binding"})'
                 PROVE  BindingOp(n)'
      BY DEF BindingOp
    <3>1. Doing(n, {"binding"}) /\ For(n)' = For(n) /\ BindingOp(n) /\ For(n) \in Requests
      BY <2>1, <2>3, <2>4 DEF Doing, For, MachineOK, LockOK, Free
    <3>2. call'[For(n)] = call[For(n)] /\ call[For(n)].session \in Sessions
      BY <1>1, <3>1 DEF StepOK, Local, BindsGoOn, IInv, CallsOK, BindingsApart, CallsMatch, BindingOp
    <3>3. \A q \in Requests : binding'[q].machine = n /\ Kept(q)' => binding[q].machine = n /\ Kept(q)
      BY <2>2 DEF Kept
    <3> QED
      BY <2>1, <2>2, <3>1, <3>2, <3>3 DEF BindingOp
  <2>6. SlotOp(n)'
    <3> SUFFICES ASSUME Doing(n, Steps \ {"binding"})'
                 PROVE  SlotOp(n)'
      BY DEF SlotOp
    <3>1. Doing(n, Steps \ {"binding"}) /\ For(n)' = For(n) /\ SlotOp(n) /\ For(n) \in Requests
      BY <2>1, <2>3, <2>4 DEF Doing, For, MachineOK, LockOK, Free, Steps
    <3>2. binding'[For(n)] = binding[For(n)] /\ binding[For(n)].machine = n
      BY <2>2, <3>1 DEF SlotOp
    <3>3. InService(n)' <=> InService(n)
      BY <2>1 DEF InService
    <3>4. \A S : Doing(n, S)' <=> Doing(n, S)
      BY <2>1 DEF Doing
    <3>5. \A q \in Requests : Holding(q)' /\ binding'[q].machine = n => Holding(q) /\ binding'[q] = binding[q]
      BY <2>2 DEF Holding
    <3> QED
      BY <2>1, <3>1, <3>2, <3>3, <3>4, <3>5 DEF SlotOp, Bound, Holding
  <2>7. RowOK(n)'
    BY <2>1, <2>2, <2>3 DEF MachineOK, RowOK, Bound
  <2>8. BootstrapOK(n)'
    <3> SUFFICES ASSUME OneController, InService(n)', NEW r \in Requests, Holding(r)', binding'[r].machine = n
                 PROVE  <<n, binding'[r].session>> \in secrets'
      BY DEF BootstrapOK
    <3>1. binding'[r] = binding[r] /\ Holding(r) /\ InService(n)
      BY <2>1, <2>2 DEF Holding, InService
    <3>2. binding[r].session \in Sessions
      BY <3>1, Rows DEF IInv
    <3> QED
      BY <2>1, <2>3, <3>1, <3>2 DEF MachineOK, BootstrapOK
  <2>9. DataOwned(n)' /\ UnsavedClaimed(n)'
    BY <2>1, <2>2, <2>3 DEF MachineOK, GuestOK, DataOwned, UnsavedClaimed, Empty, Unsaved, Kept, Holding
  <2>10. NothingLeft(n)'
    <3>1. Doing(n, {"recycled", "archived"}) =>
             binding'[For(n)] = binding[For(n)] /\ For(n)' = For(n)
      BY <2>1, <2>2, <2>3, <2>4 DEF MachineOK, LockOK, SlotOp, Doing, For, Steps, Free
    <3>2. Doing(n, {"recycled"})' => Empty(n, binding[For(n)].slot)'
      BY <2>1, <2>3, <3>1 DEF MachineOK, GuestOK, NothingLeft, Empty, Doing
    <3>3. ~FailsInGuest /\ Doing(n, {"archived"})' => ~Unsaved(n, binding[For(n)].slot)'
      BY <2>1, <2>3, <3>1 DEF MachineOK, GuestOK, NothingLeft, Unsaved, Doing
    <3>4. (vm[n] \in {"absent", "deleting"} => \A k \in Slots : Empty(n, k))'
      BY <2>1, <2>3 DEF MachineOK, GuestOK, NothingLeft, Empty
    <3>5. ~FailsInGuest => (machine[n] = "draining" => \A k \in Slots : ~Unsaved(n, k))'
      BY <2>1, <2>3 DEF MachineOK, GuestOK, NothingLeft, Unsaved
    <3>6. ASSUME ~FailsInGuest, NEW r \in Requests, binding'[r].state = "failed", binding'[r].retryable,
                 binding'[r].machine = n
          PROVE  Empty(n, binding[r].slot)'
      BY <2>1, <2>2, <2>3, <3>6 DEF MachineOK, GuestOK, NothingLeft, Empty
    <3> QED
      BY <3>2, <3>3, <3>4, <3>5, <3>6 DEF NothingLeft
  <2>11. KeepsData(n) /\ DrainsStopped(n)
    BY <2>1 DEF KeepsData, DrainsStopped
  <2> QED
    BY <2>5, <2>6, <2>7, <2>8, <2>9, <2>10, <2>11 DEF MachineOK, LockOK, GuestOK
<1> QED
  BY <1>1 DEF Good, StepOK, IInv

--------------------------------------------------------------------------------
(* What an action leaves alone at its own machine.                         *)

LEMMA LockFree ==
  ASSUME NEW m \in Machines, op'[m] = Free
  PROVE  LockOK(m)'
  BY DEF LockOK, BindingOp, SlotOp, Doing, Free, Steps

LEMMA OneBinder ==
  ASSUME CallsOK,
         \A n \in Machines : Doing(n, {"binding"})' => Doing(n, {"binding"}) /\ For(n)' = For(n)
  PROVE  BindingsApart'
  BY DEF CallsOK, BindingsApart

\* No row, no request.
LEMMA CallsStay ==
  ASSUME TypeOK, TypeOK', CallsOK, binding' = binding, call' = call, BindingsApart'
  PROVE  CallsOK'
<1>1. RowsShrink /\ CallsGoOn
  BY DEF RowsShrink, CallsGoOn, Bound, Holding, Kept
<1> QED
  BY <1>1, CallsKeep

\* The rows and secrets of the machine.
LEMMA RowKeep ==
  ASSUME NEW m \in Machines, RowOK(m),
         machine'[m] = "none" => machine[m] = "none",
         m \in late' => m \in late,
         \A r \in Requests : Bound(r)' /\ binding'[r].machine = m => Bound(r) /\ binding[r].machine = m,
         vm'[m] \notin {"absent", "stray"} => machine'[m] \notin {"none", "released"}
  PROVE  RowOK(m)'
  BY DEF RowOK

LEMMA BootstrapKeep ==
  ASSUME TypeOK, NEW m \in Machines, BootstrapOK(m),
         InService(m)' => InService(m),
         \A r \in Requests : Holding(r)' /\ binding'[r].machine = m =>
            Holding(r) /\ binding[r].machine = m /\ binding'[r].session = binding[r].session,
         \A s \in Sessions : <<m, s>> \in secrets => <<m, s>> \in secrets'
  PROVE  BootstrapOK(m)'
<1> SUFFICES ASSUME OneController, InService(m)', NEW r \in Requests, Holding(r)', binding'[r].machine = m
             PROVE  <<m, binding'[r].session>> \in secrets'
  BY DEF BootstrapOK
<1>1. Holding(r) /\ binding[r].machine = m /\ binding'[r].session = binding[r].session /\ InService(m)
  OBVIOUS
<1> QED
  BY <1>1, Rows DEF BootstrapOK

\* The data in the machine's slots.
LEMMA OwnersKeep ==
  ASSUME NEW m \in Machines, DataOwned(m), UnsavedClaimed(m), guest'[m] = guest[m],
         \A r \in Requests : Kept(r) /\ binding[r].machine = m =>
            /\ Kept(r)' \/ Empty(m, binding[r].slot)
            /\ binding'[r].machine = m /\ binding'[r].slot = binding[r].slot
            /\ binding'[r].session = binding[r].session,
         ~FailsInGuest =>
            \A r \in Requests : Holding(r) /\ binding[r].machine = m /\ binding[r].data =>
                \/ Holding(r)' /\ binding'[r].data
                \/ ~Unsaved(m, binding[r].slot)
  PROVE  DataOwned(m)' /\ UnsavedClaimed(m)'
<1>1. \A k \in Slots : (Empty(m, k)' <=> Empty(m, k)) /\ (Unsaved(m, k)' <=> Unsaved(m, k))
  BY DEF Empty, Unsaved
<1>2. DataOwned(m)'
  BY <1>1 DEF DataOwned
<1>3. ASSUME ~FailsInGuest, NEW k \in Slots, Unsaved(m, k)
      PROVE  \E r \in Requests :
                /\ Holding(r)' /\ binding'[r].machine = m /\ binding'[r].slot = k
                /\ binding'[r].session = guest[m][k].of /\ binding'[r].data
  <2>1. PICK r \in Requests :
            /\ Holding(r) /\ binding[r].machine = m /\ binding[r].slot = k
            /\ binding[r].session = guest[m][k].of /\ binding[r].data
    BY <1>3 DEF UnsavedClaimed
  <2>2. Kept(r)
    BY <2>1 DEF Holding, Kept, LiveStates, SlotStates
  <2> QED
    BY <1>3, <2>1, <2>2
<1> QED
  BY <1>1, <1>2, <1>3 DEF UnsavedClaimed

\* A step that changes neither rows nor requests nor the data in a guest, and keeps the lock:
\* what is left to show is what the state of the machine says.
LEMMA MachineSteps ==
  ASSUME IInv, TypeOK', NEW m \in Machines, op'[m] = Free, UNCHANGED <<binding, secrets, call, guest>>,
         \A n \in Machines \ {m} :
            op'[n] = op[n] /\ machine'[n] = machine[n] /\ vm'[n] = vm[n] /\ (n \in late' => n \in late),
         RowOK(m)',
         InService(m)' => InService(m) \/ (OneController => \A r \in Live(m) : HasBootstrap(r)),
         vm'[m] \in {"absent", "deleting"} => \A k \in Slots : Empty(m, k),
         ~FailsInGuest /\ machine'[m] = "draining" => \A k \in Slots : ~Unsaved(m, k),
         DrainsStopped(m)
  PROVE  Good
<1>1. CallsOK'
  <2>1. \A n \in Machines : Doing(n, {"binding"})' => Doing(n, {"binding"}) /\ For(n)' = For(n)
    BY DEF Doing, For, Free
  <2> QED
    BY <2>1, OneBinder, CallsStay DEF IInv
<1>2. Local(m)
  BY DEF Local, BindsGoOn
<1>3. LockOK(m)'
  BY LockFree
<1>4. BootstrapOK(m)'
  <2>1. CASE InService(m)' => InService(m)
    BY <2>1, BootstrapKeep DEF IInv, MachineOK, Holding
  <2>2. CASE OneController => \A r \in Live(m) : HasBootstrap(r)
    BY <2>2 DEF BootstrapOK, Live, On, HasBootstrap, Holding
  <2> QED
    BY <2>1, <2>2
<1>5. DataOwned(m)' /\ UnsavedClaimed(m)'
  BY OwnersKeep DEF IInv, MachineOK, GuestOK, Kept, Holding
<1>6. NothingLeft(m)'
  BY DEF IInv, MachineOK, GuestOK, NothingLeft, Empty, Unsaved, Doing, Free
<1>7. KeepsData(m)
  BY DEF KeepsData
<1> QED
  BY <1>1, <1>2, <1>3, <1>4, <1>5, <1>6, <1>7, OthersKeep DEF StepOK, MachineOK, GuestOK

\* A step that changes what the requests are at, or the policy, or what maintenance decided.
LEMMA CallSteps ==
  ASSUME IInv, TypeOK', CallsOK', UNCHANGED <<machine, binding, secrets, vm, late, guest, op>>,
         \A q \in Requests : call[q].at = "bind" => call'[q] = call[q]
  PROVE  Good
<1>1. ASSUME NEW m \in Machines
      PROVE  MachineOK(m)' /\ KeepsData(m) /\ DrainsStopped(m)
  <2>1. MachineOK(m)
    BY DEF IInv
  <2>2. BindingOp(m)'
    BY <2>1, Ops DEF IInv, MachineOK, LockOK, BindingOp, Doing, For, Kept, Free
  <2>3. SlotOp(m)'
    BY <2>1 DEF MachineOK, LockOK, SlotOp, Doing, For, Bound, Holding, InService
  <2>4. RowOK(m)' /\ BootstrapOK(m)'
    BY <2>1 DEF MachineOK, RowOK, BootstrapOK, Bound, Holding, InService
  <2>5. GuestOK(m)'
    BY <2>1 DEF MachineOK, GuestOK, DataOwned, UnsavedClaimed, NothingLeft, Empty, Unsaved, Kept, Holding,
                Doing, For
  <2>6. KeepsData(m) /\ DrainsStopped(m)
    BY DEF KeepsData, DrainsStopped
  <2> QED
    BY <2>2, <2>3, <2>4, <2>5, <2>6 DEF MachineOK, LockOK
<1> QED
  BY <1>1 DEF Good, IInv

--------------------------------------------------------------------------------
(* The ledger, the provider and maintenance.                               *)

LEMMA PolicySteps ==
  ASSUME IInv, \/ set_policy /\ UNCHANGED <<call, doomed>>
               \/ \E m \in Machines : Decide(m)
               \/ UNCHANGED vars
  PROVE  Good
<1>1. TypeOK'
  BY ComputeAssumption DEF IInv, TypeOK, LedgerTypeOK, set_policy, Decide, vars, ledgerVars
<1>2. UNCHANGED <<machine, binding, secrets, vm, late, guest, op, call>>
  BY DEF set_policy, Decide, vars, ledgerVars
<1>3. CallsOK'
  <2>1. BindingsApart'
    BY <1>2, OneBinder DEF IInv, Doing, For
  <2> QED
    BY <1>1, <1>2, <2>1, CallsStay DEF IInv
<1> QED
  BY <1>1, <1>2, <1>3, CallSteps

\* Nobody works on a machine without a row, or one that is released.
LEMMA Unknown ==
  ASSUME IInv, NEW m \in Machines, machine[m] \in {"none", "released"}
  PROVE  op[m] = Free
  BY Ops DEF IInv, MachineOK, LockOK, BindingOp, SlotOp, Doing, Steps, InService, For

LEMMA AdmissionSteps ==
  ASSUME IInv, NEW m \in Machines, acquire_standby(m), UNCHANGED <<call, doomed>>
  PROVE  Good
<1>1. machine[m] = "none" /\ machine' = [machine EXCEPT ![m] = "provisioning"]
      /\ UNCHANGED <<binding, secrets, admission, vm, late, guest, op, faults>>
  BY DEF acquire_standby, Fresh, SaveMachine
<1>2. TypeOK'
  BY <1>1 DEF IInv, TypeOK, LedgerTypeOK, LeaseStates
<1>3. machine'[m] = "provisioning" /\ op[m] = Free
  BY <1>1, Unknown DEF IInv, TypeOK, LedgerTypeOK
<1>4. RowOK(m)'
  BY <1>1, <1>3, RowKeep DEF IInv, MachineOK, RowOK, Bound
<1> QED
  BY <1>1, <1>2, <1>3, <1>4, MachineSteps
     DEF IInv, TypeOK, LedgerTypeOK, MachineOK, GuestOK, NothingLeft, InService, DrainsStopped, Empty

LEMMA QuarantineSteps ==
  ASSUME IInv, NEW m \in Machines, quarantine(m), UNCHANGED <<call, doomed>>
  PROVE  Good
<1>1. machine[m] = "released" /\ machine' = [machine EXCEPT ![m] = "quarantined"] /\ vm[m] = "stray"
      /\ UNCHANGED <<binding, secrets, admission, vm, late, guest, op, faults>>
  BY DEF quarantine, SaveMachine
<1>2. TypeOK'
  BY <1>1 DEF IInv, TypeOK, LedgerTypeOK, LeaseStates
<1>3. machine'[m] = "quarantined" /\ op[m] = Free
  BY <1>1, Unknown DEF IInv, TypeOK, LedgerTypeOK
<1>4. RowOK(m)'
  BY <1>1, <1>3, RowKeep DEF IInv, MachineOK, RowOK, Bound
<1> QED
  BY <1>1, <1>2, <1>3, <1>4, MachineSteps
     DEF IInv, TypeOK, LedgerTypeOK, InService, DrainsStopped

LEMMA CreateSteps ==
  ASSUME IInv, NEW m \in Machines, ReconcileCreate(m) \/ ReconcileCreateLost(m), UNCHANGED <<call, doomed>>
  PROVE  Good
<1>1. /\ machine[m] = "provisioning" /\ op[m] = Free
      /\ UNCHANGED <<machine, binding, secrets, admission, guest, op>>
      /\ \/ vm' = [vm EXCEPT ![m] = "booting"] /\ late' = late /\ faults' = faults
         \/ vm' = vm /\ late' = late \cup {m} /\ Fault
  BY DEF ReconcileCreate, ReconcileCreateLost
<1>2. TypeOK'
  BY <1>1, ComputeAssumption DEF IInv, TypeOK, LedgerTypeOK, Fault
<1>3. vm'[m] \in {vm[m], "booting"} /\ \A n \in Machines \ {m} : vm'[n] = vm[n] /\ (n \in late' => n \in late)
  BY <1>1 DEF IInv, TypeOK, LedgerTypeOK
<1>4. RowOK(m)'
  BY <1>1, <1>3 DEF IInv, MachineOK, RowOK, Bound
<1> QED
  BY <1>1, <1>2, <1>3, <1>4, MachineSteps
     DEF IInv, MachineOK, GuestOK, NothingLeft, InService, DrainsStopped

LEMMA ReadySteps ==
  ASSUME IInv, NEW m \in Machines, ReconcileReady(m) \/ ReconcileFail(m), UNCHANGED <<call, doomed>>
  PROVE  Good
<1>1. /\ op[m] = Free /\ machine[m] \in {"provisioning", "ready", "idle"}
      /\ UNCHANGED <<binding, secrets, admission, vm, late, guest, op, faults>>
      /\ \/ machine' = [machine EXCEPT ![m] = "ready"] /\ \A r \in Live(m) : HasBootstrap(r)
         \/ machine' = [machine EXCEPT ![m] = "failed"]
  BY DEF ReconcileReady, ReconcileFail, SaveMachine, InService
<1>2. TypeOK'
  BY <1>1 DEF IInv, TypeOK, LedgerTypeOK, LeaseStates
<1>3. /\ \A n \in Machines \ {m} : machine'[n] = machine[n]
      /\ machine'[m] \in {"ready", "failed"}
      /\ machine'[m] = "ready" => \A r \in Live(m) : HasBootstrap(r)
  BY <1>1 DEF IInv, TypeOK, LedgerTypeOK
<1>4. RowOK(m)'
  BY <1>1, <1>3 DEF IInv, MachineOK, RowOK, Bound
<1> QED
  BY <1>1, <1>2, <1>3, <1>4, MachineSteps
     DEF IInv, MachineOK, GuestOK, NothingLeft, InService, DrainsStopped

LEMMA ProviderSteps ==
  ASSUME IInv, NEW m \in Machines, Provider(m), UNCHANGED <<call, doomed>>
  PROVE  Good
<1>1. /\ UNCHANGED <<machine, binding, secrets, admission, guest, op>>
      /\ \E x : vm' = [vm EXCEPT ![m] = x]
      /\ \A n \in late' : n \in late
  BY DEF Provider, VmBoots, VmBreaks, VmDeleted, LateCreate
<1>2. TypeOK'
  <2>1. CASE VmBoots(m) \/ VmDeleted(m)
    BY <2>1 DEF IInv, TypeOK, LedgerTypeOK, VmBoots, VmDeleted
  <2>2. CASE VmBreaks(m)
    BY <2>2, ComputeAssumption DEF IInv, TypeOK, LedgerTypeOK, VmBreaks, Fault
  <2>3. CASE LateCreate(m)
    BY <2>3 DEF IInv, TypeOK, LedgerTypeOK, LateCreate
  <2> QED
    BY <2>1, <2>2, <2>3 DEF Provider
<1>3. \A n \in Machines \ {m} : vm'[n] = vm[n]
  BY <1>1 DEF IInv, TypeOK, LedgerTypeOK
<1>4. /\ vm'[m] \notin {"absent", "stray"} => machine[m] \notin {"none", "released"}
      /\ vm'[m] \in {"absent", "deleting"} => vm[m] \in {"absent", "deleting"}
  <2>1. RowOK(m)
    BY DEF IInv, MachineOK
  <2>2. CASE VmBoots(m) \/ VmDeleted(m)
    BY <2>1, <2>2 DEF IInv, TypeOK, LedgerTypeOK, VmBoots, VmDeleted, RowOK
  <2>3. CASE VmBreaks(m)
    BY <2>1, <2>3 DEF IInv, TypeOK, LedgerTypeOK, VmBreaks, RowOK
  <2>4. CASE LateCreate(m)
    BY <2>1, <2>4 DEF IInv, TypeOK, LedgerTypeOK, LateCreate, RowOK
  <2> QED
    BY <2>2, <2>3, <2>4 DEF Provider
<1>5. RowOK(m)'
  BY <1>1, <1>4 DEF IInv, MachineOK, RowOK, Bound
<1>6. MachineOK(m)
  BY DEF IInv
<1>7. CallsOK'
  BY <1>1, <1>2, OneBinder, CallsStay DEF IInv, Doing, For
<1>8. Local(m)
  BY <1>1, <1>3 DEF Local, BindsGoOn
<1>9. LockOK(m)'
  BY <1>1, <1>6 DEF MachineOK, LockOK, BindingOp, SlotOp, Doing, For, Bound, Kept, Holding, InService
<1>10. BootstrapOK(m)'
  BY <1>1, <1>6 DEF MachineOK, BootstrapOK, Holding, InService
<1>11. GuestOK(m)'
  BY <1>1, <1>4, <1>6
     DEF MachineOK, GuestOK, DataOwned, UnsavedClaimed, NothingLeft, Empty, Unsaved, Kept, Holding, Doing, For
<1>12. KeepsData(m) /\ DrainsStopped(m)
  BY <1>1 DEF KeepsData, DrainsStopped
<1> QED
  BY <1>2, <1>5, <1>7, <1>8, <1>9, <1>10, <1>11, <1>12, OthersKeep DEF StepOK, MachineOK

LEMMA DisposeSteps ==
  ASSUME IInv, NEW m \in Machines, dispose(m)
  PROVE  Good
<1>1. UNCHANGED <<binding, secrets, admission, vm, late, guest, op, faults, call>> /\ doomed' \subseteq doomed
  BY DEF dispose
<1>2. CASE machine' = machine
  <2>1. TypeOK'
    BY <1>1, <1>2 DEF IInv, TypeOK, LedgerTypeOK
  <2>2. CallsOK'
    BY <1>1, <2>1, OneBinder, CallsStay DEF IInv, Doing, For
  <2> QED
    BY <1>1, <1>2, <2>1, <2>2, CallSteps
<1>3. CASE op[m] = Free /\ Live(m) = {} /\ machine' = [machine EXCEPT ![m] = "draining"]
  <2>1. TypeOK'
    BY <1>1, <1>3 DEF IInv, TypeOK, LedgerTypeOK, LeaseStates
  <2>2. machine'[m] = "draining" /\ \A n \in Machines \ {m} : machine'[n] = machine[n]
    BY <1>3 DEF IInv, TypeOK, LedgerTypeOK
  <2>3. \A r \in Requests : ~(Holding(r) /\ binding[r].machine = m)
    BY <1>3 DEF Live, On, Holding
  <2>4. RowOK(m)'
    BY <1>1, <2>2 DEF IInv, MachineOK, RowOK, Bound
  <2>5. ~FailsInGuest => \A k \in Slots : ~Unsaved(m, k)
    BY <2>3 DEF IInv, MachineOK, GuestOK, UnsavedClaimed
  <2> QED
    BY <1>1, <1>3, <2>1, <2>2, <2>3, <2>4, <2>5, MachineSteps
       DEF IInv, MachineOK, GuestOK, NothingLeft, InService, DrainsStopped
<1> QED
  BY <1>2, <1>3 DEF dispose, SaveMachine

LEMMA WarmSteps ==
  ASSUME IInv, NEW m \in Machines, warm(m)
  PROVE  Good
<1>1. /\ op[m] = Free /\ machine[m] = "ready" /\ machine' = [machine EXCEPT ![m] = "idle"]
      /\ UNCHANGED <<binding, secrets, admission, vm, late, guest, op, faults, call, doomed>>
  BY DEF warm, SaveMachine
<1>2. TypeOK'
  BY <1>1 DEF IInv, TypeOK, LedgerTypeOK, LeaseStates
<1>3. machine'[m] = "idle" /\ \A n \in Machines \ {m} : machine'[n] = machine[n]
  BY <1>1 DEF IInv, TypeOK, LedgerTypeOK
<1>4. RowOK(m)'
  BY <1>1, <1>3 DEF IInv, MachineOK, RowOK, Bound
<1> QED
  BY <1>1, <1>2, <1>3, <1>4, MachineSteps
     DEF IInv, MachineOK, GuestOK, NothingLeft, InService, DrainsStopped

LEMMA ServeSteps ==
  ASSUME IInv, NEW m \in Machines, MachineServes(m)
  PROVE  Good
<1>1. /\ op[m].at = "serving" /\ machine' = [machine EXCEPT ![m] = "idle"]
      /\ op' = [op EXCEPT ![m] = Free]
      /\ UNCHANGED <<binding, secrets, admission, vm, late, guest, faults, call, doomed>>
  BY DEF MachineServes, SaveMachine, Leave
<1>2. TypeOK'
  BY <1>1 DEF IInv, TypeOK, LedgerTypeOK, LeaseStates
<1>3. /\ machine'[m] = "idle" /\ op'[m] = Free
      /\ \A n \in Machines \ {m} : machine'[n] = machine[n] /\ op'[n] = op[n]
  BY <1>1 DEF IInv, TypeOK, LedgerTypeOK
<1>4. InService(m)
  BY <1>1 DEF IInv, MachineOK, LockOK, SlotOp, Doing, Steps
<1>5. RowOK(m)'
  BY <1>1, <1>3 DEF IInv, MachineOK, RowOK, Bound
<1> QED
  BY <1>1, <1>2, <1>3, <1>4, <1>5, MachineSteps
     DEF IInv, MachineOK, GuestOK, NothingLeft, InService, DrainsStopped

--------------------------------------------------------------------------------
(* Deletion.                                                               *)

LEMMA NobodysGuest ==
  ASSUME TypeOK', NEW m \in Machines, op'[m] = Free, \A k \in Slots : Empty(m, k)' /\ ~Unsaved(m, k)'
  PROVE  GuestOK(m)'
<1>1. DataOwned(m)' /\ UnsavedClaimed(m)'
  BY DEF DataOwned, UnsavedClaimed
<1>2. ~Doing(m, {"recycled"})' /\ ~Doing(m, {"archived"})'
  BY DEF Doing, Free
<1>3. \A r \in Requests : binding'[r].state = "failed" => binding'[r].slot \in Slots
  BY DEF TypeOK, LedgerTypeOK, Bindings, NoBinding
<1>4. NothingLeft(m)'
  BY <1>2, <1>3 DEF NothingLeft
<1> QED
  BY <1>1, <1>4 DEF GuestOK

LEMMA DeleteRequestSteps ==
  ASSUME IInv, NEW m \in Machines, DeleteRequest(m), UNCHANGED <<call, doomed>>
  PROVE  Good
<1>1. /\ machine[m] = "draining" /\ op[m] = Free
      /\ vm' = [vm EXCEPT ![m] = "deleting"]
      /\ guest' = [guest EXCEPT ![m] = [k \in Slots |-> NoData]]
      /\ UNCHANGED <<machine, binding, secrets, admission, late, op, faults, call, doomed>>
  BY DEF DeleteRequest
<1>2. TypeOK'
  <2>1. [k \in Slots |-> NoData] \in [Slots -> [of : Sessions \cup {NoSession}, saved : BOOLEAN]]
    BY DEF NoData
  <2> QED
    BY <1>1, <2>1 DEF IInv, TypeOK, LedgerTypeOK
<1>3. /\ vm'[m] = "deleting" /\ guest'[m] = [k \in Slots |-> NoData]
      /\ \A n \in Machines \ {m} : vm'[n] = vm[n] /\ guest'[n] = guest[n]
  BY <1>1 DEF IInv, TypeOK, LedgerTypeOK
<1>4. \A k \in Slots : Empty(m, k)' /\ ~Unsaved(m, k)'
  BY <1>3 DEF Empty, Unsaved, NoData
<1>5. CallsOK'
  BY <1>1, <1>2, OneBinder, CallsStay DEF IInv, Doing, For
<1>6. Local(m)
  BY <1>1, <1>3 DEF Local, BindsGoOn
<1>7. RowOK(m)'
  BY <1>1, RowKeep DEF IInv, MachineOK, Bound
<1>8. BootstrapOK(m)'
  BY <1>1, BootstrapKeep DEF IInv, MachineOK, InService, Holding
<1>9. GuestOK(m)'
  BY <1>1, <1>2, <1>4, NobodysGuest
<1>10. KeepsData(m) /\ DrainsStopped(m)
  BY <1>1 DEF IInv, MachineOK, GuestOK, NothingLeft, KeepsData, DrainsStopped
<1> QED
  BY <1>1, <1>2, <1>5, <1>6, <1>7, <1>8, <1>9, <1>10, LockFree, OthersKeep DEF StepOK, MachineOK

LEMMA DeleteConfirmedSteps ==
  ASSUME IInv, NEW m \in Machines, DeleteConfirmed(m), UNCHANGED <<call, doomed>>
  PROVE  Good
<1>1. /\ machine[m] = "draining" /\ op[m] = Free /\ vm[m] = "absent"
      /\ machine' = [machine EXCEPT ![m] = "released"]
      /\ secrets' = {x \in secrets : x[1] # m}
      /\ binding' = [r \in Requests |-> IF r \in Live(m) THEN [binding[r] EXCEPT !.state = "retired"]
                                        ELSE binding[r]]
      /\ UNCHANGED <<admission, vm, late, guest, op, faults, call, doomed>>
  BY DEF DeleteConfirmed, SaveMachine
<1>2. \A r \in Requests :
         /\ ~(Holding(r) /\ binding[r].machine = m) => binding'[r] = binding[r]
         /\ Holding(r) /\ binding[r].machine = m => binding'[r] = [binding[r] EXCEPT !.state = "retired"]
  BY <1>1 DEF Live, On, Holding
<1>3. \A r \in Requests : Holding(r) =>
         LET b == [binding[r] EXCEPT !.state = "retired"]
         IN /\ b \in Bindings /\ b.state = "retired" /\ b.machine = binding[r].machine
            /\ b.session = binding[r].session /\ b.slot = binding[r].slot
  BY Rows DEF IInv, Bindings, SlotStates
<1>4. TypeOK'
  BY <1>1, <1>2, <1>3 DEF IInv, TypeOK, LedgerTypeOK, LeaseStates
<1>5. RowsShrink
  BY <1>2, <1>3, Rows DEF IInv, RowsShrink, Bound, Holding, Kept, SlotStates, LiveStates
<1>6. CallsOK'
  BY <1>1, <1>4, <1>5, OneBinder, CallsKeep DEF IInv, Doing, For, CallsGoOn
<1>7. Local(m)
  BY <1>1, <1>2, <1>3 DEF IInv, TypeOK, LedgerTypeOK, Local, BindsGoOn
<1>8. /\ machine'[m] = "released" /\ ~InService(m)'
      /\ \A k \in Slots : Empty(m, k)' /\ ~Unsaved(m, k)' /\ ~Unsaved(m, k)
  BY <1>1 DEF IInv, TypeOK, LedgerTypeOK, InService, MachineOK, GuestOK, NothingLeft, Empty, Unsaved
<1>9. RowOK(m)'
  BY <1>1, <1>5, <1>8, RowKeep, Rows DEF IInv, MachineOK, RowsShrink, Bound
<1>10. GuestOK(m)'
  BY <1>1, <1>4, <1>8, NobodysGuest
<1>11. KeepsData(m) /\ DrainsStopped(m)
  BY <1>8 DEF KeepsData, DrainsStopped
<1> QED
  BY <1>1, <1>4, <1>6, <1>7, <1>8, <1>9, <1>10, <1>11, LockFree, OthersKeep DEF StepOK, MachineOK, BootstrapOK

--------------------------------------------------------------------------------
(* Steps of a slot.                                                        *)

\* What may become of a row: it keeps its place, and what its slot holds keeps an owner.
RowGoesOn(m, q) ==
    \/ binding'[q] = binding[q]
    \/ /\ Bound(q) /\ Bound(q)' /\ binding[q].machine = m
       /\ binding'[q].machine = m /\ binding'[q].session = binding[q].session
       /\ binding'[q].slot = binding[q].slot
       /\ Holding(q)' => Holding(q)
       /\ Kept(q)' => Kept(q)
       /\ Kept(q) => Kept(q)' \/ Empty(m, binding[q].slot)
       /\ ~FailsInGuest =>
             /\ Holding(q) /\ binding[q].data => (Holding(q)' /\ binding'[q].data) \/ ~Unsaved(m, binding[q].slot)
             /\ binding'[q].state = "failed" /\ binding'[q].retryable => Empty(m, binding[q].slot)

\* The lock where it is free, or held for a slot.
SlotLockOK(m) ==
    /\ op[m].at # "binding"
    /\ SlotOp(m)
    /\ op[m].at = "recycled" => Empty(m, binding[For(m)].slot)
    /\ ~FailsInGuest /\ op[m].at = "archived" => ~Unsaved(m, binding[For(m)].slot)

\* A step that changes rows of the machine, requests past their start, and the lock.
LEMMA SlotSteps ==
  ASSUME IInv, TypeOK', NEW m \in Machines, UNCHANGED <<machine, secrets, vm, late, guest>>,
         \A n \in Machines \ {m} : op'[n] = op[n],
         \A q \in Requests : RowGoesOn(m, q),
         CallsGoOn,
         BindsGoOn(m),
         SlotLockOK(m)'
  PROVE  Good
<1>1. MachineOK(m)
  BY DEF IInv
<1>2. RowsShrink
  BY Rows DEF IInv, RowsShrink, RowGoesOn, Bound, Holding, Kept
<1>3. CallsOK'
  <2>1. \A n \in Machines : Doing(n, {"binding"})' => Doing(n, {"binding"}) /\ For(n)' = For(n)
    BY DEF SlotLockOK, Doing, For
  <2> QED
    BY <1>2, <2>1, OneBinder, CallsKeep DEF IInv
<1>4. Local(m)
  BY DEF Local, RowGoesOn
<1>5. LockOK(m)'
  BY DEF LockOK, BindingOp, SlotLockOK, Doing
<1>6. RowOK(m)'
  BY <1>1, RowKeep DEF MachineOK, RowOK, RowGoesOn, Bound
<1>7. BootstrapOK(m)'
  BY <1>1, BootstrapKeep DEF IInv, MachineOK, RowGoesOn, InService, Holding
<1>8. DataOwned(m)' /\ UnsavedClaimed(m)'
  <2>1. \A r \in Requests : Kept(r) /\ binding[r].machine = m =>
            /\ Kept(r)' \/ Empty(m, binding[r].slot)
            /\ binding'[r].machine = m /\ binding'[r].slot = binding[r].slot
            /\ binding'[r].session = binding[r].session
    BY DEF RowGoesOn, Kept
  <2>2. ~FailsInGuest =>
            \A r \in Requests : Holding(r) /\ binding[r].machine = m /\ binding[r].data =>
                \/ Holding(r)' /\ binding'[r].data
                \/ ~Unsaved(m, binding[r].slot)
    BY DEF RowGoesOn, Holding
  <2> QED
    BY <1>1, <2>1, <2>2, OwnersKeep DEF MachineOK, GuestOK
<1>9. NothingLeft(m)'
  <2>1. ASSUME ~FailsInGuest, NEW q \in Requests, binding'[q].state = "failed", binding'[q].retryable,
               binding'[q].machine = m
        PROVE  Empty(m, binding[q].slot)'
    BY <1>1, <2>1 DEF MachineOK, GuestOK, NothingLeft, RowGoesOn, Empty
  <2> QED
    BY <1>1, <2>1 DEF MachineOK, GuestOK, NothingLeft, SlotLockOK, Doing, Empty, Unsaved
<1>10. KeepsData(m) /\ DrainsStopped(m)
  BY DEF KeepsData, DrainsStopped
<1> QED
  BY <1>3, <1>4, <1>5, <1>6, <1>7, <1>8, <1>9, <1>10, OthersKeep DEF StepOK, MachineOK, GuestOK

LEMMA LockReleased ==
  ASSUME NEW m \in Machines, op'[m] = Free
  PROVE  SlotLockOK(m)'
  BY DEF SlotLockOK, SlotOp, Doing, Free, Steps

\* A row saved and a lock entered or left.
LEMMA RowSaved ==
  ASSUME IInv, NEW m \in Machines, NEW r \in Requests, NEW b \in Bindings, Bound(r),
         binding' = [binding EXCEPT ![r] = b],
         b.machine = m, binding[r].machine = m, b.session = binding[r].session, b.slot = binding[r].slot,
         b.state \in LiveStates => Holding(r),
         b.state # "released" => Kept(r),
         b.state # "released" \/ Empty(m, b.slot),
         ~FailsInGuest =>
            /\ Holding(r) /\ binding[r].data => (b.state \in LiveStates /\ b.data) \/ ~Unsaved(m, b.slot)
            /\ b.state = "failed" /\ b.retryable => Empty(m, b.slot)
  PROVE  /\ \A q \in Requests : RowGoesOn(m, q)
         /\ binding'[r] = b /\ binding' \in [Requests -> Bindings \cup {NoBinding}]
<1>1. binding'[r] = b /\ \A q \in Requests \ {r} : binding'[q] = binding[q]
  BY DEF IInv, TypeOK, LedgerTypeOK
<1>2. Bound(r)' /\ (Holding(r)' <=> b.state \in LiveStates) /\ (Kept(r)' <=> b.state # "released")
  BY <1>1 DEF Bound, Holding, Kept, Bindings
<1>3. RowGoesOn(m, r)
  BY <1>1, <1>2 DEF RowGoesOn
<1>4. \A q \in Requests \ {r} : RowGoesOn(m, q)
  BY <1>1 DEF RowGoesOn
<1>5. binding' \in [Requests -> Bindings \cup {NoBinding}]
  BY DEF IInv, TypeOK, LedgerTypeOK
<1> QED
  BY <1>1, <1>3, <1>4, <1>5

LEMMA LockTaken ==
  ASSUME IInv, NEW m \in Machines, NEW r \in Requests, NEW step \in Steps, op' = [op EXCEPT ![m] = [at |-> step, for |-> r]]
  PROVE  /\ op'[m] = [at |-> step, for |-> r]
         /\ op'[m].at = step /\ For(m)' = r /\ \A S : Doing(m, S)' <=> step \in S
         /\ \A n \in Machines \ {m} : op'[n] = op[n]
         /\ op' \in [Machines -> [at : Steps, for : Requests] \cup {Free}]
<1>1. op \in [Machines -> [at : Steps, for : Requests] \cup {Free}]
  BY DEF IInv, TypeOK, LedgerTypeOK
<1>2. op'[m] = [at |-> step, for |-> r]
  BY <1>1
<1> QED
  BY <1>1, <1>2 DEF For, Doing

LEMMA LockLeft ==
  ASSUME IInv, NEW m \in Machines, op' = [op EXCEPT ![m] = Free]
  PROVE  /\ op'[m] = Free
         /\ \A n \in Machines \ {m} : op'[n] = op[n]
         /\ op' \in [Machines -> [at : Steps, for : Requests] \cup {Free}]
  BY DEF IInv, TypeOK, LedgerTypeOK

LEMMA OverdueSteps ==
  ASSUME IInv, NEW m \in Machines, ReconcileOverdue(m), UNCHANGED <<call, doomed>>
  PROVE  Good
<1>1. PICK r \in Requests :
         /\ binding[r].machine = m /\ binding[r].state = "starting" /\ op[m] = Free
         /\ binding' = [binding EXCEPT ![r] = [binding[r] EXCEPT !.state = "failed", !.retryable = FALSE]]
         /\ UNCHANGED <<machine, secrets, admission, vm, late, guest, op, faults, call, doomed>>
  BY DEF ReconcileOverdue, Live, On, SaveSlot
<1> DEFINE b == [binding[r] EXCEPT !.state = "failed", !.retryable = FALSE]
<1>2. /\ b \in Bindings /\ b.state = "failed" /\ ~b.retryable /\ b.machine = m
      /\ b.session = binding[r].session /\ b.slot = binding[r].slot /\ b.data = binding[r].data
  BY <1>1, Rows DEF IInv, Bindings, Bound, SlotStates, LiveStates
<1> HIDE DEF b
<1>3. Bound(r) /\ Holding(r) /\ Kept(r)
  BY <1>1 DEF Bound, Holding, Kept, SlotStates, LiveStates
<1>4. (\A q \in Requests : RowGoesOn(m, q)) /\ binding' \in [Requests -> Bindings \cup {NoBinding}]
  BY <1>1, <1>2, <1>3, RowSaved DEF LiveStates, b
<1>5. TypeOK'
  BY <1>1, <1>4 DEF IInv, TypeOK, LedgerTypeOK
<1>6. CallsGoOn /\ BindsGoOn(m)
  BY <1>1 DEF CallsGoOn, BindsGoOn
<1> QED
  BY <1>1, <1>4, <1>5, <1>6, LockReleased, SlotSteps

LEMMA StopSteps ==
  ASSUME IInv, NEW m \in Machines, NEW r \in Requests, binding[r].machine = m,
         stop(r) \/ _finish_requested_stop(r)
  PROVE  Good
<1>1. /\ Holding(r) /\ op[m] = Free /\ machine[m] \notin {"released", "draining"}
      /\ op' = [op EXCEPT ![m] = [at |-> "stopping", for |-> r]]
      /\ UNCHANGED <<machine, secrets, admission, vm, late, guest, faults, call, doomed>>
  BY DEF stop, _finish_requested_stop, CanStop, Enter, Holding
<1>2. Bound(r) /\ Kept(r) /\ binding[r] \in Bindings /\ machine[m] # "none"
  BY <1>1, Rows DEF IInv, MachineOK, RowOK
<1>3. /\ (\A q \in Requests : RowGoesOn(m, q)) /\ binding' \in [Requests -> Bindings \cup {NoBinding}]
      /\ binding'[r].machine = m /\ binding'[r].stop /\ Bound(r)' /\ Holding(r)'
  <2>1. CASE stop(r)
    <3> DEFINE b == [binding[r] EXCEPT !.stop = TRUE]
    <3>1. /\ b \in Bindings /\ b.state = binding[r].state /\ b.machine = m /\ b.session = binding[r].session
          /\ b.slot = binding[r].slot /\ b.data = binding[r].data /\ b.retryable = binding[r].retryable
          /\ b.stop
      BY <1>2 DEF Bindings
    <3>2. binding' = [binding EXCEPT ![r] = b]
      BY <2>1 DEF stop, SaveSlot
    <3> HIDE DEF b
    <3>3. ~FailsInGuest /\ b.state = "failed" /\ b.retryable => Empty(m, b.slot)
      BY <3>1 DEF IInv, MachineOK, GuestOK, NothingLeft
    <3>4. b.state # "released"
      BY <1>1, <3>1 DEF Holding, LiveStates
    <3>5. /\ (\A q \in Requests : RowGoesOn(m, q)) /\ binding' \in [Requests -> Bindings \cup {NoBinding}]
          /\ binding'[r] = b
      BY <1>1, <1>2, <3>1, <3>2, <3>3, <3>4, RowSaved DEF Holding
    <3> QED
      BY <1>1, <1>2, <3>1, <3>5 DEF Bound, Holding
  <2>2. CASE _finish_requested_stop(r)
    BY <1>1, <1>2, <2>2 DEF IInv, TypeOK, LedgerTypeOK, _finish_requested_stop, RowGoesOn, Bound, Holding
  <2> QED
    BY <2>1, <2>2
<1>4. /\ op'[m].at = "stopping" /\ For(m)' = r /\ (\A S : Doing(m, S)' <=> "stopping" \in S)
      /\ (\A n \in Machines \ {m} : op'[n] = op[n]) /\ op' \in [Machines -> [at : Steps, for : Requests] \cup {Free}]
  BY <1>1, LockTaken DEF Steps
<1>5. TypeOK'
  BY <1>1, <1>3, <1>4 DEF IInv, TypeOK, LedgerTypeOK
<1>6. SlotLockOK(m)'
  BY <1>1, <1>2, <1>3, <1>4 DEF SlotLockOK, SlotOp
<1>7. CallsGoOn /\ BindsGoOn(m)
  BY <1>1 DEF CallsGoOn, BindsGoOn
<1> QED
  BY <1>1, <1>3, <1>4, <1>5, <1>6, <1>7, SlotSteps

\* What the lock's holder knows of its slot.
LEMMA Held ==
  ASSUME IInv, NEW m \in Machines, op[m].at \in Steps \ {"binding"}
  PROVE  /\ For(m) \in Requests /\ op[m].for = For(m)
         /\ Bound(For(m)) /\ binding[For(m)] \in Bindings /\ binding[For(m)].machine = m
         /\ SlotOp(m) /\ \A S : Doing(m, S) <=> op[m].at \in S
<1>1. op[m] # Free
  BY DEF Free, Steps
<1>2. For(m) \in Requests
  BY <1>1, Ops DEF IInv, For
<1>3. SlotOp(m)
  BY DEF IInv, MachineOK, LockOK
<1>4. Bound(For(m)) /\ binding[For(m)].machine = m
  BY <1>3 DEF SlotOp, Doing
<1> QED
  BY <1>2, <1>3, <1>4, Rows DEF IInv, For, Doing

LEMMA StartRuntimeSteps ==
  ASSUME IInv, NEW m \in Machines, NEW r \in Requests, binding[r].machine = m, _start_runtime(r)
  PROVE  Good
<1>1. /\ binding[r].state \in {"starting", "busy"} /\ op[m] = Free /\ InService(m)
      /\ binding' = [binding EXCEPT ![r] = [binding[r] EXCEPT !.data = TRUE]]
      /\ op' = [op EXCEPT ![m] = [at |-> "starting", for |-> r]]
      /\ UNCHANGED <<machine, secrets, admission, vm, late, guest, faults, doomed>>
  BY DEF _start_runtime, SaveSlot, Enter
<1>2. \E again \in SUBSET {q \in Requests : call[q].at = "launch"} :
         call' = [q \in Requests |-> IF q \in again THEN [call[q] EXCEPT !.at = "done"] ELSE call[q]]
  BY DEF _start_runtime
<1>3. Bound(r) /\ Holding(r) /\ Kept(r) /\ binding[r] \in Bindings
  BY <1>1, Rows DEF IInv, Bound, Holding, Kept, SlotStates, LiveStates
<1> DEFINE b == [binding[r] EXCEPT !.data = TRUE]
<1>4. /\ b \in Bindings /\ b.state = binding[r].state /\ b.machine = m /\ b.session = binding[r].session
      /\ b.slot = binding[r].slot /\ b.data
  BY <1>3 DEF Bindings
<1> HIDE DEF b
<1>5. /\ (\A q \in Requests : RowGoesOn(m, q)) /\ binding' \in [Requests -> Bindings \cup {NoBinding}]
      /\ binding'[r] = b
  BY <1>1, <1>3, <1>4, RowSaved DEF b, LiveStates
<1>6. /\ op'[m].at = "starting" /\ For(m)' = r /\ (\A S : Doing(m, S)' <=> "starting" \in S)
      /\ (\A n \in Machines \ {m} : op'[n] = op[n]) /\ op' \in [Machines -> [at : Steps, for : Requests] \cup {Free}]
  BY <1>1, LockTaken DEF Steps
<1>7. call' \in [Requests -> [at : Calls, session : Sessions \cup {NoSession}]] /\ CallsGoOn /\ BindsGoOn(m)
  <2>1. PICK again \in SUBSET {q \in Requests : call[q].at = "launch"} :
           call' = [q \in Requests |-> IF q \in again THEN [call[q] EXCEPT !.at = "done"] ELSE call[q]]
    BY <1>2
  <2>2. \A q \in Requests : /\ call[q] \in [at : Calls, session : Sessions \cup {NoSession}]
                            /\ [call[q] EXCEPT !.at = "done"] \in [at : Calls, session : Sessions \cup {NoSession}]
                            /\ [call[q] EXCEPT !.at = "done"].at = "done"
                            /\ [call[q] EXCEPT !.at = "done"].session = call[q].session
    BY DEF IInv, TypeOK, Calls
  <2> QED
    BY <2>1, <2>2 DEF CallsGoOn, BindsGoOn
<1>8. TypeOK'
  BY <1>1, <1>5, <1>6, <1>7 DEF IInv, TypeOK, LedgerTypeOK
<1>9. SlotLockOK(m)'
  BY <1>1, <1>3, <1>4, <1>5, <1>6 DEF SlotLockOK, SlotOp, InService, Bound
<1> QED
  BY <1>1, <1>5, <1>6, <1>7, <1>8, <1>9, SlotSteps

LEMMA StartedSteps ==
  ASSUME IInv, NEW m \in Machines, RuntimeStarted(m)
  PROVE  Good
<1> DEFINE r == For(m)
           b == [binding[r] EXCEPT !.started = TRUE]
<1>1. /\ binding' = [binding EXCEPT ![r] = b]
      /\ op' = [op EXCEPT ![m] = Free]
      /\ UNCHANGED <<machine, secrets, admission, vm, late, guest, faults, call, doomed>>
  BY DEF RuntimeStarted, SaveSlot, Leave, For
<1>2. /\ r \in Requests /\ Bound(r) /\ binding[r] \in Bindings /\ binding[r].machine = m
      /\ binding[r].state \in {"starting", "busy"} /\ binding[r].data
  BY Held DEF RuntimeStarted, SlotOp, Steps
<1>3. /\ b \in Bindings /\ b.state = binding[r].state /\ b.machine = m /\ b.session = binding[r].session
      /\ b.slot = binding[r].slot /\ b.data = binding[r].data
  BY <1>2 DEF Bindings
<1>4. Holding(r) /\ Kept(r)
  BY <1>2 DEF Holding, Kept, LiveStates, SlotStates
<1> HIDE DEF b, r
<1>5. (\A q \in Requests : RowGoesOn(m, q)) /\ binding' \in [Requests -> Bindings \cup {NoBinding}]
  BY <1>1, <1>2, <1>3, <1>4, RowSaved DEF Holding
<1>6. /\ op'[m] = Free
      /\ (\A n \in Machines \ {m} : op'[n] = op[n]) /\ op' \in [Machines -> [at : Steps, for : Requests] \cup {Free}]
  BY <1>1, LockLeft
<1>7. TypeOK'
  BY <1>1, <1>5, <1>6 DEF IInv, TypeOK, LedgerTypeOK
<1>8. CallsGoOn /\ BindsGoOn(m)
  BY <1>1 DEF CallsGoOn, BindsGoOn
<1> QED
  BY <1>1, <1>5, <1>6, <1>7, <1>8, LockReleased, SlotSteps

LEMMA FailsSteps ==
  ASSUME IInv, NEW m \in Machines, RuntimeFails(m)
  PROVE  Good
<1> DEFINE r == For(m)
<1>1. PICK retryable \in BOOLEAN :
         /\ binding' = [binding EXCEPT ![r] = [binding[r] EXCEPT !.state = "failed", !.retryable = retryable]]
         /\ op' = [op EXCEPT ![m] = Free] /\ op[m].at \in {"starting", "running"}
         /\ FailsInGuest \/ guest[m][binding[r].slot] = NoData
         /\ Fault
         /\ UNCHANGED <<machine, secrets, admission, vm, late, guest, call, doomed>>
  BY DEF RuntimeFails, SaveSlot, Leave, For
<1> DEFINE b == [binding[r] EXCEPT !.state = "failed", !.retryable = retryable]
<1>2. /\ r \in Requests /\ Bound(r) /\ binding[r] \in Bindings /\ binding[r].machine = m
      /\ binding[r].state \in {"starting", "busy"}
  BY <1>1, Held DEF SlotOp, Steps
<1>3. /\ b \in Bindings /\ b.state = "failed" /\ b.machine = m /\ b.session = binding[r].session
      /\ b.slot = binding[r].slot /\ b.data = binding[r].data
  BY <1>1, <1>2 DEF Bindings, SlotStates, LiveStates
<1>4. Holding(r) /\ Kept(r)
  BY <1>2 DEF Holding, Kept, LiveStates, SlotStates
<1>5. ~FailsInGuest => Empty(m, b.slot)
  BY <1>1, <1>3 DEF Empty, NoData
<1> HIDE DEF b, r
<1>6. (\A q \in Requests : RowGoesOn(m, q)) /\ binding' \in [Requests -> Bindings \cup {NoBinding}]
  BY <1>1, <1>2, <1>3, <1>4, <1>5, RowSaved DEF LiveStates, b
<1>7. /\ op'[m] = Free
      /\ (\A n \in Machines \ {m} : op'[n] = op[n]) /\ op' \in [Machines -> [at : Steps, for : Requests] \cup {Free}]
  BY <1>1, LockLeft
<1>8. faults' \in 0 .. MaxFaults
  BY <1>1, ComputeAssumption DEF Fault, IInv, TypeOK, LedgerTypeOK
<1>9. TypeOK'
  BY <1>1, <1>6, <1>7, <1>8 DEF IInv, TypeOK, LedgerTypeOK
<1>10. CallsGoOn /\ BindsGoOn(m)
  BY <1>1 DEF CallsGoOn, BindsGoOn
<1> QED
  BY <1>1, <1>6, <1>7, <1>9, <1>10, LockReleased, SlotSteps

LEMMA BusySteps ==
  ASSUME IInv, NEW m \in Machines, NEW r \in Requests, binding[r].machine = m, mark_busy(r)
  PROVE  Good
<1> DEFINE b == [binding[r] EXCEPT !.state = "busy"]
<1>1. /\ binding[r].state = "starting" /\ op[m] = Free /\ InService(m)
      /\ binding' = [binding EXCEPT ![r] = b]
      /\ op' = [op EXCEPT ![m] = [at |-> "serving", for |-> r]] \/ op' = op
      /\ UNCHANGED <<machine, secrets, admission, vm, late, guest, faults, call, doomed>>
  BY DEF mark_busy, SaveSlot, Enter
<1>2. Bound(r) /\ Holding(r) /\ Kept(r) /\ binding[r] \in Bindings
  BY <1>1, Rows DEF IInv, Bound, Holding, Kept, SlotStates, LiveStates
<1>3. /\ b \in Bindings /\ b.state = "busy" /\ b.machine = m /\ b.session = binding[r].session
      /\ b.slot = binding[r].slot /\ b.data = binding[r].data
  BY <1>2 DEF Bindings, SlotStates, LiveStates
<1> HIDE DEF b
<1>4. /\ (\A q \in Requests : RowGoesOn(m, q)) /\ binding' \in [Requests -> Bindings \cup {NoBinding}]
      /\ binding'[r] = b
  BY <1>1, <1>2, <1>3, RowSaved DEF LiveStates
<1>5. /\ SlotLockOK(m)'
      /\ (\A n \in Machines \ {m} : op'[n] = op[n]) /\ op' \in [Machines -> [at : Steps, for : Requests] \cup {Free}]
  <2>1. CASE op' = op
    BY <1>1, <2>1, LockReleased DEF IInv, TypeOK, LedgerTypeOK
  <2>2. CASE op' = [op EXCEPT ![m] = [at |-> "serving", for |-> r]]
    <3>1. /\ op'[m].at = "serving" /\ For(m)' = r /\ (\A S : Doing(m, S)' <=> "serving" \in S)
          /\ (\A n \in Machines \ {m} : op'[n] = op[n]) /\ op' \in [Machines -> [at : Steps, for : Requests] \cup {Free}]
      BY <2>2, LockTaken DEF Steps
    <3> QED
      BY <1>1, <1>3, <1>4, <3>1 DEF SlotLockOK, SlotOp, InService, Bound, SlotStates, LiveStates
  <2> QED
    BY <1>1, <2>1, <2>2
<1>6. TypeOK'
  BY <1>1, <1>4, <1>5 DEF IInv, TypeOK, LedgerTypeOK
<1>7. CallsGoOn /\ BindsGoOn(m)
  BY <1>1 DEF CallsGoOn, BindsGoOn
<1> QED
  BY <1>1, <1>4, <1>5, <1>6, <1>7, SlotSteps

LEMMA ReleaseSteps ==
  ASSUME IInv, NEW m \in Machines, release_slot(m)
  PROVE  Good
<1> DEFINE r == For(m)
           b == [binding[r] EXCEPT !.state = "released", !.data = FALSE, !.started = FALSE, !.stop = FALSE]
<1>1. /\ op[m].at = "recycled"
      /\ binding' = [binding EXCEPT ![r] = b]
      /\ op' = [op EXCEPT ![m] = [at |-> "freed", for |-> r]]
      /\ UNCHANGED <<machine, secrets, admission, vm, late, guest, faults, call, doomed>>
  BY DEF release_slot, SaveSlot, Enter, For
<1>2. /\ r \in Requests /\ Bound(r) /\ binding[r] \in Bindings /\ binding[r].machine = m
      /\ Holding(r) /\ InService(m) /\ Empty(m, binding[r].slot)
  BY <1>1, Held DEF SlotOp, Steps, IInv, MachineOK, GuestOK, NothingLeft
<1>3. /\ b \in Bindings /\ b.state = "released" /\ b.machine = m /\ b.session = binding[r].session
      /\ b.slot = binding[r].slot
  BY <1>2 DEF Bindings, SlotStates
<1>4. ~Unsaved(m, b.slot)
  BY <1>2, <1>3 DEF Unsaved, Empty
<1> HIDE DEF b, r
<1>5. /\ (\A q \in Requests : RowGoesOn(m, q)) /\ binding' \in [Requests -> Bindings \cup {NoBinding}]
      /\ binding'[r] = b
  BY <1>1, <1>2, <1>3, <1>4, RowSaved DEF LiveStates
<1>6. /\ op'[m].at = "freed" /\ For(m)' = r /\ (\A S : Doing(m, S)' <=> "freed" \in S)
      /\ (\A n \in Machines \ {m} : op'[n] = op[n]) /\ op' \in [Machines -> [at : Steps, for : Requests] \cup {Free}]
  BY <1>1, <1>2, LockTaken DEF Steps
<1>7. \A q \in Requests : Holding(q)' => q # r /\ Holding(q) /\ binding'[q].session = binding[q].session
  BY <1>3, <1>5 DEF RowGoesOn, Holding, LiveStates
<1>8. \A q \in Requests : Holding(q)' => binding'[q].session # binding'[r].session
  BY <1>2, <1>3, <1>5, <1>7 DEF IInv, CallsOK, OneClaim
<1>9. SlotLockOK(m)'
  BY <1>1, <1>2, <1>3, <1>5, <1>6, <1>8 DEF SlotLockOK, SlotOp, InService, Bound, SlotStates
<1>10. TypeOK'
  BY <1>1, <1>5, <1>6 DEF IInv, TypeOK, LedgerTypeOK
<1>11. CallsGoOn /\ BindsGoOn(m)
  BY <1>1 DEF CallsGoOn, BindsGoOn
<1> QED
  BY <1>1, <1>5, <1>6, <1>9, <1>10, <1>11, SlotSteps

LEMMA DrainSlotSteps ==
  ASSUME IInv, NEW m \in Machines, DrainSlot(m)
  PROVE  Good
<1> DEFINE r == For(m)
           b == [binding[r] EXCEPT !.state = "draining"]
<1>1. /\ op[m].at = "draining"
      /\ binding' = [binding EXCEPT ![r] = b]
      /\ op' = [op EXCEPT ![m] = Free]
      /\ UNCHANGED <<machine, secrets, admission, vm, late, guest, faults, call, doomed>>
  BY DEF DrainSlot, SaveSlot, Leave, For
<1>2. /\ r \in Requests /\ Bound(r) /\ binding[r] \in Bindings /\ binding[r].machine = m /\ Holding(r)
  BY <1>1, Held DEF SlotOp, Steps
<1>3. /\ b \in Bindings /\ b.state = "draining" /\ b.machine = m /\ b.session = binding[r].session
      /\ b.slot = binding[r].slot /\ b.data = binding[r].data
  BY <1>2 DEF Bindings, SlotStates, LiveStates
<1>4. Kept(r)
  BY <1>2, Rows DEF IInv
<1> HIDE DEF b, r
<1>5. (\A q \in Requests : RowGoesOn(m, q)) /\ binding' \in [Requests -> Bindings \cup {NoBinding}]
  BY <1>1, <1>2, <1>3, <1>4, RowSaved DEF LiveStates
<1>6. /\ op'[m] = Free
      /\ (\A n \in Machines \ {m} : op'[n] = op[n]) /\ op' \in [Machines -> [at : Steps, for : Requests] \cup {Free}]
  BY <1>1, LockLeft
<1>7. TypeOK'
  BY <1>1, <1>5, <1>6 DEF IInv, TypeOK, LedgerTypeOK
<1>8. CallsGoOn /\ BindsGoOn(m)
  BY <1>1 DEF CallsGoOn, BindsGoOn
<1> QED
  BY <1>1, <1>5, <1>6, <1>7, <1>8, LockReleased, SlotSteps

\* A lock left, with every row as it is.
LEMMA LeaveSteps ==
  ASSUME IInv, NEW m \in Machines, ArchiveFails(m) \/ OperationDies(m)
  PROVE  Good
<1>1. /\ op' = [op EXCEPT ![m] = Free] /\ op[m] # Free
      /\ \/ call' = call
         \/ op[m].at = "binding" /\ call' = [call EXCEPT ![For(m)].at = "done"]
      /\ UNCHANGED <<machine, binding, secrets, admission, vm, late, guest, doomed>>
      /\ UNCHANGED faults \/ Fault
  BY DEF ArchiveFails, OperationDies, Leave, Goto, For, Free
<1>2. For(m) \in Requests
  BY <1>1, Ops DEF IInv, For
<1>3. /\ op'[m] = Free
      /\ (\A n \in Machines \ {m} : op'[n] = op[n]) /\ op' \in [Machines -> [at : Steps, for : Requests] \cup {Free}]
  BY <1>1, LockLeft
<1>4. call' \in [Requests -> [at : Calls, session : Sessions \cup {NoSession}]] /\ CallsGoOn /\ BindsGoOn(m)
  <2>1. CASE call' = call
    BY <2>1 DEF IInv, TypeOK, CallsGoOn, BindsGoOn
  <2>2. CASE op[m].at = "binding" /\ call' = [call EXCEPT ![For(m)].at = "done"]
    <3>1. Doing(m, {"binding"}) /\ call[For(m)].at = "bind"
      BY <2>2 DEF IInv, MachineOK, LockOK, BindingOp, Doing
    <3> QED
      BY <1>2, <2>2, <3>1 DEF IInv, TypeOK, Calls, CallsGoOn, BindsGoOn
  <2> QED
    BY <1>1, <2>1, <2>2
<1>5. faults' \in 0 .. MaxFaults
  BY <1>1, ComputeAssumption DEF Fault, IInv, TypeOK, LedgerTypeOK
<1>6. TypeOK'
  BY <1>1, <1>3, <1>4, <1>5 DEF IInv, TypeOK, LedgerTypeOK
<1>7. \A q \in Requests : RowGoesOn(m, q)
  BY <1>1 DEF RowGoesOn
<1> QED
  BY <1>1, <1>3, <1>4, <1>6, <1>7, LockReleased, SlotSteps

\* A step of the lock's holder that leaves the rows as they are.
LEMMA HolderSteps ==
  ASSUME IInv, TypeOK', NEW m \in Machines, UNCHANGED <<binding, vm, late, call>>,
         \A n \in Machines \ {m} :
            /\ op'[n] = op[n] /\ machine'[n] = machine[n] /\ guest'[n] = guest[n]
            /\ \A s \in Sessions : <<n, s>> \in secrets' <=> <<n, s>> \in secrets,
         op'[m].at # "binding", SlotOp(m)',
         machine'[m] = machine[m] \/ machine'[m] \notin {"none", "released"},
         BootstrapOK(m)', GuestOK(m)', KeepsData(m), DrainsStopped(m)
  PROVE  Good
<1>1. CallsOK'
  BY OneBinder, CallsStay DEF IInv, Doing, For
<1>2. Local(m)
  BY DEF Local, BindsGoOn
<1>3. LockOK(m)'
  BY DEF LockOK, BindingOp, Doing
<1>4. RowOK(m)'
  BY DEF IInv, MachineOK, RowOK, Bound
<1> QED
  BY <1>1, <1>2, <1>3, <1>4, OthersKeep DEF StepOK, MachineOK

\* What a slot holds is of the session that keeps it.
LEMMA Owner ==
  ASSUME IInv, NEW m \in Machines, NEW r \in Requests, Kept(r), binding[r].machine = m
  PROVE  /\ \A q \in Requests : Kept(q) /\ binding[q].machine = m /\ binding[q].slot = binding[r].slot => q = r
         /\ ~Empty(m, binding[r].slot) => guest[m][binding[r].slot].of = binding[r].session
         /\ ~FailsInGuest /\ Unsaved(m, binding[r].slot) => Holding(r) /\ binding[r].data
<1> DEFINE k == binding[r].slot
<1>1. k \in Slots
  BY Rows DEF IInv
<1>2. \A q \in Requests : Kept(q) /\ binding[q].machine = m /\ binding[q].slot = k => q = r
  BY DEF IInv, CallsOK, SlotsApart
<1>3. ASSUME ~Empty(m, k)
      PROVE  guest[m][k].of = binding[r].session
  BY <1>1, <1>2, <1>3 DEF IInv, MachineOK, GuestOK, DataOwned
<1>4. ASSUME ~FailsInGuest, Unsaved(m, k)
      PROVE  Holding(r) /\ binding[r].data
  <2>1. PICK q \in Requests : Holding(q) /\ binding[q].machine = m /\ binding[q].slot = k /\ binding[q].data
    BY <1>1, <1>4 DEF IInv, MachineOK, GuestOK, UnsavedClaimed
  <2>2. q = r
    BY <1>2, <2>1, Rows DEF IInv
  <2> QED
    BY <2>1, <2>2
<1> QED
  BY <1>2, <1>3, <1>4

\* A slot's content, written by the lock's holder.
LEMMA Written ==
  ASSUME IInv, NEW m \in Machines, NEW k \in Slots,
         NEW d \in [of : Sessions \cup {NoSession}, saved : BOOLEAN],
         guest' = [guest EXCEPT ![m][k] = d]
  PROVE  /\ guest' \in [Machines -> [Slots -> [of : Sessions \cup {NoSession}, saved : BOOLEAN]]]
         /\ guest'[m][k] = d
         /\ \A j \in Slots \ {k} : guest'[m][j] = guest[m][j]
         /\ \A n \in Machines \ {m} : guest'[n] = guest[n]
<1>1. guest \in [Machines -> [Slots -> [of : Sessions \cup {NoSession}, saved : BOOLEAN]]]
  BY DEF IInv, TypeOK, LedgerTypeOK
<1> QED
  BY <1>1

LEMMA RunsSteps ==
  ASSUME IInv, NEW m \in Machines, RuntimeRuns(m)
  PROVE  Good
<1> DEFINE r == For(m)
           k == binding[r].slot
           d == [of |-> binding[r].session, saved |-> FALSE]
<1>1. /\ op[m].at = "starting" /\ vm[m] = "running"
      /\ guest' = [guest EXCEPT ![m][k] = d]
      /\ op' = [op EXCEPT ![m] = [at |-> "running", for |-> r]]
      /\ UNCHANGED <<machine, binding, secrets, admission, vm, late, faults, call, doomed>>
  BY DEF RuntimeRuns, Enter, For
<1>2. /\ r \in Requests /\ Bound(r) /\ binding[r] \in Bindings /\ binding[r].machine = m
      /\ InService(m) /\ binding[r].state \in {"starting", "busy"} /\ binding[r].data
  BY <1>1, Held DEF SlotOp, Steps
<1>3. /\ Holding(r) /\ Kept(r) /\ k \in Slots /\ binding[r].session \in Sessions
      /\ d \in [of : Sessions \cup {NoSession}, saved : BOOLEAN] /\ d.of = binding[r].session /\ ~d.saved
  BY <1>2 DEF Bindings, Holding, Kept, SlotStates, LiveStates
<1>4. /\ \A q \in Requests : Kept(q) /\ binding[q].machine = m /\ binding[q].slot = k => q = r
      /\ ~Empty(m, k) => guest[m][k].of = binding[r].session
  BY <1>2, <1>3, Owner
<1> HIDE DEF d, k, r
<1>5. /\ guest' \in [Machines -> [Slots -> [of : Sessions \cup {NoSession}, saved : BOOLEAN]]]
      /\ guest'[m][k] = d /\ \A j \in Slots \ {k} : guest'[m][j] = guest[m][j]
      /\ \A n \in Machines \ {m} : guest'[n] = guest[n]
  <2>1. guest' = [guest EXCEPT ![m][k] = d] /\ k \in Slots
        /\ d \in [of : Sessions \cup {NoSession}, saved : BOOLEAN]
    BY <1>1, <1>3
  <2> QED
    BY <2>1, Written
<1>6. /\ op'[m].at = "running" /\ For(m)' = r /\ (\A S : Doing(m, S)' <=> "running" \in S)
      /\ (\A n \in Machines \ {m} : op'[n] = op[n]) /\ op' \in [Machines -> [at : Steps, for : Requests] \cup {Free}]
  BY <1>1, <1>2, LockTaken DEF Steps
<1>7. TypeOK'
  BY <1>1, <1>5, <1>6 DEF IInv, TypeOK, LedgerTypeOK
<1>8. SlotOp(m)'
  BY <1>1, <1>2, <1>3, <1>6 DEF SlotOp, InService, Bound
<1>9. BootstrapOK(m)'
  BY <1>1, BootstrapKeep DEF IInv, MachineOK, InService, Holding
<1>10. \A j \in Slots \ {k} : (Empty(m, j)' <=> Empty(m, j)) /\ (Unsaved(m, j)' <=> Unsaved(m, j))
  BY <1>5 DEF Empty, Unsaved
<1>11. GuestOK(m)'
  <2>1. DataOwned(m)'
    <3> SUFFICES ASSUME NEW j \in Slots, ~Empty(m, j)'
                 PROVE  \E q \in Requests :
                           /\ Kept(q)' /\ binding'[q].machine = m /\ binding'[q].slot = j
                           /\ binding'[q].session = guest'[m][j].of
      BY DEF DataOwned
    <3>1. CASE j = k
      BY <1>1, <1>2, <1>3, <1>5, <3>1 DEF Kept, k
    <3>2. CASE j # k
      BY <1>1, <1>5, <1>10, <3>2 DEF IInv, MachineOK, GuestOK, DataOwned, Kept
    <3> QED
      BY <3>1, <3>2
  <2>2. UnsavedClaimed(m)'
    <3> SUFFICES ASSUME ~FailsInGuest, NEW j \in Slots, Unsaved(m, j)'
                 PROVE  \E q \in Requests :
                           /\ Holding(q)' /\ binding'[q].machine = m /\ binding'[q].slot = j
                           /\ binding'[q].session = guest'[m][j].of /\ binding'[q].data
      BY DEF UnsavedClaimed
    <3>1. CASE j = k
      BY <1>1, <1>2, <1>3, <1>5, <3>1 DEF Holding, k
    <3>2. CASE j # k
      BY <1>1, <1>5, <1>10, <3>2 DEF IInv, MachineOK, GuestOK, UnsavedClaimed, Holding
    <3> QED
      BY <3>1, <3>2
  <2>3. NothingLeft(m)'
    <3>1. \A q \in Requests : binding[q].state = "failed" /\ binding[q].machine = m
                                  => binding[q].slot \in Slots \ {k}
      BY <1>2, <1>4, Rows DEF IInv, Kept, Bound, SlotStates, LiveStates
    <3> QED
      BY <1>1, <1>2, <1>6, <1>10, <3>1 DEF IInv, MachineOK, GuestOK, NothingLeft, InService
  <2> QED
    BY <2>1, <2>2, <2>3 DEF GuestOK
<1>12. KeepsData(m) /\ DrainsStopped(m)
  BY <1>1, <1>3, <1>4, <1>5 DEF KeepsData, DrainsStopped, Unsaved, Empty
<1> QED
  BY <1>1, <1>5, <1>6, <1>7, <1>8, <1>9, <1>11, <1>12, HolderSteps

\* What a slot held may be archived or scrubbed, and nothing else.
LEMMA Saved ==
  ASSUME IInv, NEW m \in Machines, UNCHANGED <<machine, binding, vm>>,
         \A j \in Slots : /\ Empty(m, j) => Empty(m, j)'
                          /\ Unsaved(m, j)' => Unsaved(m, j)
                          /\ ~Empty(m, j)' => guest'[m][j].of = guest[m][j].of,
         op'[m].at = "recycled" => Empty(m, binding[For(m)].slot)',
         ~FailsInGuest /\ op'[m].at = "archived" => ~Unsaved(m, binding[For(m)].slot)'
  PROVE  GuestOK(m)'
<1>1. MachineOK(m)
  BY DEF IInv
<1>2. DataOwned(m)'
  BY <1>1 DEF MachineOK, GuestOK, DataOwned, Kept
<1>3. UnsavedClaimed(m)'
  <2> SUFFICES ASSUME ~FailsInGuest, NEW j \in Slots, Unsaved(m, j)'
               PROVE  \E q \in Requests :
                         /\ Holding(q)' /\ binding'[q].machine = m /\ binding'[q].slot = j
                         /\ binding'[q].session = guest'[m][j].of /\ binding'[q].data
    BY DEF UnsavedClaimed
  <2>1. Unsaved(m, j) /\ guest'[m][j].of = guest[m][j].of
    BY DEF Unsaved, Empty
  <2> QED
    BY <1>1, <2>1 DEF MachineOK, GuestOK, UnsavedClaimed, Holding
<1>4. NothingLeft(m)'
  <2>1. \A q \in Requests : binding[q].state = "failed" => binding[q].slot \in Slots
    BY Rows DEF IInv, Bound, SlotStates, LiveStates
  <2> QED
    BY <1>1, <2>1 DEF MachineOK, GuestOK, NothingLeft, Doing
<1> QED
  BY <1>2, <1>3, <1>4 DEF GuestOK

LEMMA ArchiveSteps ==
  ASSUME IInv, NEW m \in Machines, Archive(m)
  PROVE  Good
<1>1. PICK r \in Requests :
         /\ r = For(m) /\ Bound(r) /\ binding[r] \in Bindings /\ binding[r].machine = m /\ Holding(r)
         /\ binding[r].stop /\ machine[m] \notin {"none", "released", "draining"}
  BY Held DEF Archive, SlotOp, Steps
<1>2. Kept(r) /\ binding[r].slot \in Slots
  BY <1>1, Rows DEF IInv
<1>3. PICK k \in Slots : k = binding[r].slot
  BY <1>2
<1>4. guest[m][k] \in [of : Sessions \cup {NoSession}, saved : BOOLEAN]
  BY DEF IInv, TypeOK, LedgerTypeOK
<1>5. PICK d \in [of : Sessions \cup {NoSession}, saved : BOOLEAN] :
         d = [guest[m][k] EXCEPT !.saved = TRUE] /\ d.of = guest[m][k].of /\ d.saved
  <2> DEFINE e == [guest[m][k] EXCEPT !.saved = TRUE]
  <2>1. e \in [of : Sessions \cup {NoSession}, saved : BOOLEAN] /\ e.of = guest[m][k].of /\ e.saved
    BY <1>4
  <2> HIDE DEF e
  <2>2. \E x \in [of : Sessions \cup {NoSession}, saved : BOOLEAN] : x = e /\ x.of = guest[m][k].of /\ x.saved
    BY <2>1
  <2> QED
    BY <2>2 DEF e
<1>6. /\ op[m].at = "stopping"
      /\ guest' = [guest EXCEPT ![m][k] = d] \/ (~binding[r].data /\ guest' = guest)
      /\ op' = [op EXCEPT ![m] = [at |-> "archived", for |-> r]]
      /\ UNCHANGED <<machine, binding, secrets, admission, vm, late, faults, call, doomed>>
  <2>1. /\ op[m].at = "stopping"
        /\ guest' = [guest EXCEPT ![m][k].saved = TRUE] \/ (~binding[r].data /\ guest' = guest)
        /\ op' = [op EXCEPT ![m] = [at |-> "archived", for |-> r]]
        /\ UNCHANGED <<machine, binding, secrets, admission, vm, late, faults, call, doomed>>
    <3>1. op[m].for = r
      BY <1>1 DEF For
    <3>2. CASE binding[r].data
      BY <1>3, <3>1, <3>2 DEF Archive, Enter
    <3>3. CASE ~binding[r].data
      BY <1>3, <3>1, <3>3 DEF Archive, Enter
    <3> QED
      BY <3>2, <3>3
  <2> QED
    BY <1>5, <2>1
<1>7. /\ guest' \in [Machines -> [Slots -> [of : Sessions \cup {NoSession}, saved : BOOLEAN]]]
      /\ \A n \in Machines \ {m} : guest'[n] = guest[n]
      /\ \A j \in Slots : /\ Empty(m, j)' <=> Empty(m, j)
                          /\ Unsaved(m, j)' => Unsaved(m, j)
                          /\ guest'[m][j].of = guest[m][j].of
      /\ ~FailsInGuest => ~Unsaved(m, k)'
  <2>1. CASE guest' = guest /\ ~binding[r].data
    <3>1. guest' \in [Machines -> [Slots -> [of : Sessions \cup {NoSession}, saved : BOOLEAN]]]
      BY <2>1 DEF IInv, TypeOK, LedgerTypeOK
    <3>2. \A j \in Slots : (Empty(m, j)' <=> Empty(m, j)) /\ (Unsaved(m, j)' <=> Unsaved(m, j))
      BY <2>1 DEF Empty, Unsaved
    <3>3. ~FailsInGuest => ~Unsaved(m, k)
      BY <1>1, <1>2, <1>3, <2>1, Owner
    <3> QED
      BY <2>1, <3>1, <3>2, <3>3
  <2>2. CASE guest' = [guest EXCEPT ![m][k] = d]
    <3>1. /\ guest' \in [Machines -> [Slots -> [of : Sessions \cup {NoSession}, saved : BOOLEAN]]]
          /\ guest'[m][k] = d /\ \A j \in Slots \ {k} : guest'[m][j] = guest[m][j]
          /\ \A n \in Machines \ {m} : guest'[n] = guest[n]
      BY <2>2, Written
    <3>2. Empty(m, k)' <=> Empty(m, k)
      BY <1>5, <3>1 DEF Empty
    <3>3. ~Unsaved(m, k)'
      BY <1>5, <3>1 DEF Unsaved
    <3>4. \A j \in Slots \ {k} : (Empty(m, j)' <=> Empty(m, j)) /\ (Unsaved(m, j)' <=> Unsaved(m, j))
      BY <3>1 DEF Empty, Unsaved
    <3> QED
      BY <1>5, <3>1, <3>2, <3>3, <3>4
  <2> QED
    BY <1>6, <2>1, <2>2
<1>8. /\ op'[m].at = "archived" /\ For(m)' = r /\ (\A S : Doing(m, S)' <=> "archived" \in S)
      /\ (\A n \in Machines \ {m} : op'[n] = op[n]) /\ op' \in [Machines -> [at : Steps, for : Requests] \cup {Free}]
  BY <1>6, LockTaken DEF Steps
<1>9. TypeOK'
  BY <1>6, <1>7, <1>8 DEF IInv, TypeOK, LedgerTypeOK
<1>10. SlotOp(m)'
  BY <1>1, <1>6, <1>8 DEF SlotOp, InService, Bound, Holding
<1>11. BootstrapOK(m)'
  BY <1>6, BootstrapKeep DEF IInv, MachineOK, InService, Holding
<1>12. ~FailsInGuest /\ op'[m].at = "archived" => ~Unsaved(m, binding[For(m)].slot)'
  <2>1. binding'[For(m)'].slot = k
    BY <1>3, <1>6, <1>8
  <2> QED
    BY <1>7, <2>1 DEF Unsaved
<1>13. GuestOK(m)'
  BY <1>6, <1>7, <1>8, <1>12, Saved
<1>14. KeepsData(m) /\ DrainsStopped(m)
  BY <1>6, <1>7 DEF KeepsData, DrainsStopped
<1> QED
  BY <1>6, <1>7, <1>8, <1>9, <1>10, <1>11, <1>13, <1>14, HolderSteps

LEMMA RecycleSteps ==
  ASSUME IInv, NEW m \in Machines, recycle(m)
  PROVE  Good
<1>1. PICK r \in Requests :
         /\ r = For(m) /\ Bound(r) /\ binding[r] \in Bindings /\ binding[r].machine = m /\ Holding(r)
  BY Held DEF recycle, SlotOp, Steps
<1>2. binding[r].slot \in Slots /\ (~FailsInGuest => ~Unsaved(m, binding[r].slot))
  BY <1>1, Rows, Held DEF recycle, IInv, MachineOK, GuestOK, NothingLeft, Steps
<1>3. PICK k \in Slots : k = binding[r].slot /\ (~FailsInGuest => ~Unsaved(m, k))
  BY <1>2
<1>4. /\ op[m].at = "archived" /\ InService(m)
      /\ guest' = [guest EXCEPT ![m][k] = NoData]
      /\ op' = [op EXCEPT ![m] = [at |-> "recycled", for |-> r]]
      /\ UNCHANGED <<machine, binding, secrets, admission, vm, late, faults, call, doomed>>
  BY <1>1, <1>3 DEF recycle, Reusable, Enter, For
<1>5. /\ guest' \in [Machines -> [Slots -> [of : Sessions \cup {NoSession}, saved : BOOLEAN]]]
      /\ guest'[m][k] = NoData /\ \A j \in Slots \ {k} : guest'[m][j] = guest[m][j]
      /\ \A n \in Machines \ {m} : guest'[n] = guest[n]
  <2>1. NoData \in [of : Sessions \cup {NoSession}, saved : BOOLEAN]
    BY DEF NoData
  <2> QED
    BY <1>4, <2>1, Written
<1>6. /\ op'[m].at = "recycled" /\ For(m)' = r /\ (\A S : Doing(m, S)' <=> "recycled" \in S)
      /\ (\A n \in Machines \ {m} : op'[n] = op[n]) /\ op' \in [Machines -> [at : Steps, for : Requests] \cup {Free}]
  BY <1>4, LockTaken DEF Steps
<1>7. TypeOK'
  BY <1>4, <1>5, <1>6 DEF IInv, TypeOK, LedgerTypeOK
<1>8. SlotOp(m)'
  BY <1>1, <1>4, <1>6 DEF SlotOp, InService, Bound, Holding
<1>9. BootstrapOK(m)'
  BY <1>4, BootstrapKeep DEF IInv, MachineOK, InService, Holding
<1>10. Empty(m, k)' /\ ~Unsaved(m, k)'
  BY <1>5 DEF Empty, Unsaved, NoData
<1>11. \A j \in Slots \ {k} : (Empty(m, j)' <=> Empty(m, j)) /\ (Unsaved(m, j)' <=> Unsaved(m, j))
  BY <1>5 DEF Empty, Unsaved
<1>12. GuestOK(m)'
  <2>1. binding'[For(m)'].slot = k
    BY <1>3, <1>4, <1>6
  <2>2. op'[m].at = "recycled" => Empty(m, binding[For(m)].slot)'
    BY <1>10, <2>1 DEF Empty
  <2>3. \A j \in Slots : /\ Empty(m, j) => Empty(m, j)'
                         /\ Unsaved(m, j)' => Unsaved(m, j)
                         /\ ~Empty(m, j)' => guest'[m][j].of = guest[m][j].of
    BY <1>5, <1>10, <1>11
  <2> QED
    BY <1>4, <1>6, <2>2, <2>3, Saved
<1>13. KeepsData(m) /\ DrainsStopped(m)
  BY <1>3, <1>4, <1>5 DEF KeepsData, DrainsStopped
<1> QED
  BY <1>4, <1>5, <1>6, <1>7, <1>8, <1>9, <1>12, <1>13, HolderSteps

LEMMA EmptySteps ==
  ASSUME IInv, NEW m \in Machines, EmptyMachine(m)
  PROVE  Good
<1> DEFINE r == For(m)
<1>1. /\ op[m].at = "freed"
      /\ machine' = [machine EXCEPT ![m] = "idle"] \/ machine' = machine
      /\ op' = [op EXCEPT ![m] = [at |-> "emptied", for |-> r]]
      /\ UNCHANGED <<binding, secrets, admission, vm, late, guest, faults, call, doomed>>
  BY DEF EmptyMachine, Enter, For
<1>2. /\ r \in Requests /\ Bound(r) /\ binding[r].machine = m
      /\ InService(m) /\ binding[r].state = "released"
      /\ \A q \in Requests : Holding(q) /\ binding[q].machine = m => binding[q].session # binding[r].session
  BY <1>1, Held DEF SlotOp, Steps
<1> HIDE DEF r
<1>3. /\ op'[m].at = "emptied" /\ For(m)' = r /\ (\A S : Doing(m, S)' <=> "emptied" \in S)
      /\ (\A n \in Machines \ {m} : op'[n] = op[n]) /\ op' \in [Machines -> [at : Steps, for : Requests] \cup {Free}]
  BY <1>1, <1>2, LockTaken DEF Steps
<1>4. /\ machine' \in [Machines -> LeaseStates \cup {"none"}]
      /\ machine'[m] \in {"ready", "idle"} /\ \A n \in Machines \ {m} : machine'[n] = machine[n]
  BY <1>1, <1>2 DEF IInv, TypeOK, LedgerTypeOK, InService, LeaseStates
<1>5. TypeOK'
  BY <1>1, <1>3, <1>4 DEF IInv, TypeOK, LedgerTypeOK
<1>6. SlotOp(m)'
  BY <1>1, <1>2, <1>3, <1>4 DEF SlotOp, InService, Bound, Holding
<1>7. BootstrapOK(m)'
  BY <1>1, <1>2, BootstrapKeep DEF IInv, MachineOK, InService, Holding
<1>8. GuestOK(m)'
  BY <1>1, <1>3, <1>4 DEF IInv, MachineOK, GuestOK, DataOwned, UnsavedClaimed, NothingLeft, Empty, Unsaved, Kept, Holding
<1>9. KeepsData(m) /\ DrainsStopped(m)
  BY <1>1, <1>4 DEF KeepsData, DrainsStopped
<1> QED
  BY <1>1, <1>3, <1>4, <1>5, <1>6, <1>7, <1>8, <1>9, HolderSteps

LEMMA ForgetSteps ==
  ASSUME IInv, NEW m \in Machines, ForgetSecret(m)
  PROVE  Good
<1> DEFINE r == For(m)
<1>1. /\ op[m].at = "emptied"
      /\ secrets' = secrets \ {<<m, binding[r].session>>}
      /\ op' = [op EXCEPT ![m] = Free]
      /\ UNCHANGED <<machine, binding, admission, vm, late, guest, faults, call, doomed>>
  BY DEF ForgetSecret, Leave, For
<1>2. \A q \in Requests : Holding(q) /\ binding[q].machine = m => binding[q].session # binding[r].session
  BY <1>1, Held DEF SlotOp, Steps
<1> HIDE DEF r
<1>3. /\ op'[m] = Free
      /\ (\A n \in Machines \ {m} : op'[n] = op[n]) /\ op' \in [Machines -> [at : Steps, for : Requests] \cup {Free}]
  BY <1>1, LockLeft
<1>4. TypeOK'
  BY <1>1, <1>3 DEF IInv, TypeOK, LedgerTypeOK
<1>5. op'[m].at # "binding" /\ SlotOp(m)'
  BY <1>3, LockReleased DEF SlotLockOK
<1>6. BootstrapOK(m)'
  BY <1>1, <1>2 DEF IInv, MachineOK, BootstrapOK, InService, Holding
<1>7. GuestOK(m)'
  BY <1>1, <1>3 DEF IInv, MachineOK, GuestOK, DataOwned, UnsavedClaimed, NothingLeft, Empty, Unsaved, Kept, Holding,
                    Doing, Free
<1>8. KeepsData(m) /\ DrainsStopped(m)
  BY <1>1 DEF KeepsData, DrainsStopped
<1>9. \A n \in Machines \ {m} : \A s \in Sessions : <<n, s>> \in secrets' <=> <<n, s>> \in secrets
  BY <1>1
<1> QED
  BY <1>1, <1>3, <1>4, <1>5, <1>6, <1>7, <1>8, <1>9, HolderSteps

LEMMA RetireSteps ==
  ASSUME IInv, NEW m \in Machines, retire_slot(m)
  PROVE  Good
<1>1. PICK r \in Requests :
         /\ r = For(m) /\ Bound(r) /\ binding[r] \in Bindings /\ binding[r].machine = m /\ Holding(r)
         /\ binding[r].stop /\ op[m].at = "archived" /\ machine[m] \notin {"none", "released", "draining"}
  BY Held DEF retire_slot, SlotOp, Steps
<1>2. binding[r].slot \in Slots /\ (~FailsInGuest => ~Unsaved(m, binding[r].slot))
  BY <1>1, Rows, Held DEF IInv, MachineOK, GuestOK, NothingLeft, Steps
<1>3. UNCHANGED <<secrets, admission, vm, late, guest, faults, call, doomed>> /\ r = op[m].for
  BY <1>1 DEF retire_slot, For
<1>4. CASE Live(m) = {r}
  <2>1. /\ machine' = [machine EXCEPT ![m] = "draining"] /\ binding' = binding
        /\ op' = [op EXCEPT ![m] = [at |-> "draining", for |-> r]]
    BY <1>3, <1>4 DEF retire_slot, SaveMachine, Enter
  <2>2. /\ op'[m].at = "draining" /\ For(m)' = r /\ (\A S : Doing(m, S)' <=> "draining" \in S)
        /\ (\A n \in Machines \ {m} : op'[n] = op[n]) /\ op' \in [Machines -> [at : Steps, for : Requests] \cup {Free}]
    BY <2>1, LockTaken DEF Steps
  <2>3. /\ machine' \in [Machines -> LeaseStates \cup {"none"}]
        /\ machine'[m] = "draining" /\ \A n \in Machines \ {m} : machine'[n] = machine[n]
    BY <2>1 DEF IInv, TypeOK, LedgerTypeOK, LeaseStates
  <2>4. TypeOK'
    BY <1>3, <2>1, <2>2, <2>3 DEF IInv, TypeOK, LedgerTypeOK
  <2>5. SlotOp(m)'
    BY <1>1, <2>1, <2>2, <2>3 DEF SlotOp, Bound, Holding
  <2>6. BootstrapOK(m)'
    BY <2>3 DEF BootstrapOK, InService
  <2>7. \A q \in Requests : Holding(q) /\ binding[q].machine = m => q = r
    BY <1>4 DEF Live, On, Holding
  <2>8. ~FailsInGuest => \A k \in Slots : ~Unsaved(m, k)
    BY <1>2, <2>7 DEF IInv, MachineOK, GuestOK, UnsavedClaimed
  <2>9. GuestOK(m)'
    BY <1>3, <2>1, <2>2, <2>8 DEF IInv, MachineOK, GuestOK, DataOwned, UnsavedClaimed, NothingLeft, Empty, Unsaved, Kept, Holding
  <2>10. KeepsData(m) /\ DrainsStopped(m)
    BY <1>1, <1>3, <2>7 DEF KeepsData, DrainsStopped
  <2> QED
    BY <1>3, <2>1, <2>2, <2>3, <2>4, <2>5, <2>6, <2>9, <2>10, HolderSteps
<1>5. CASE Live(m) # {r}
  <2> DEFINE b == [binding[r] EXCEPT !.state = "retired"]
  <2>1. /\ binding' = [binding EXCEPT ![r] = b] /\ machine' = machine
        /\ op' = [op EXCEPT ![m] = Free]
    BY <1>3, <1>5 DEF retire_slot, SaveSlot, Leave
  <2>2. /\ b \in Bindings /\ b.state = "retired" /\ b.machine = m /\ b.session = binding[r].session
        /\ b.slot = binding[r].slot
    BY <1>1 DEF Bindings, SlotStates
  <2> HIDE DEF b
  <2>3. Kept(r)
    BY <1>1, Rows DEF IInv
  <2>4. (\A q \in Requests : RowGoesOn(m, q)) /\ binding' \in [Requests -> Bindings \cup {NoBinding}]
    BY <1>1, <1>2, <2>1, <2>2, <2>3, RowSaved DEF LiveStates
  <2>5. /\ op'[m] = Free
        /\ (\A n \in Machines \ {m} : op'[n] = op[n]) /\ op' \in [Machines -> [at : Steps, for : Requests] \cup {Free}]
    BY <2>1, LockLeft
  <2>6. TypeOK'
    BY <1>3, <2>1, <2>4, <2>5 DEF IInv, TypeOK, LedgerTypeOK
  <2>7. CallsGoOn /\ BindsGoOn(m)
    BY <1>3 DEF CallsGoOn, BindsGoOn
  <2> QED
    BY <1>3, <2>1, <2>4, <2>5, <2>6, <2>7, LockReleased, SlotSteps
<1> QED
  BY <1>4, <1>5

--------------------------------------------------------------------------------
(* Steps of a request.                                                     *)

\* A request that goes on, and nothing else.
LEMMA Goes ==
  ASSUME IInv, NEW r \in Requests, NEW at \in Calls, call' = [call EXCEPT ![r].at = at]
  PROVE  /\ call' \in [Requests -> [at : Calls, session : Sessions \cup {NoSession}]]
         /\ call'[r].at = at /\ call'[r].session = call[r].session
         /\ \A q \in Requests \ {r} : call'[q] = call[q]
<1>1. call \in [Requests -> [at : Calls, session : Sessions \cup {NoSession}]]
  BY DEF IInv, TypeOK
<1> QED
  BY <1>1

LEMMA CallOnly ==
  ASSUME IInv, NEW r \in Requests,
         call[r].at \in {"claim", "store", "resume", "launch"},
         \/ call' = [call EXCEPT ![r].at = "done"]
         \/ call[r].at = "resume" /\ call' = [call EXCEPT ![r].at = "launch"],
         UNCHANGED <<machine, binding, secrets, admission, vm, late, guest, op, doomed>>,
         faults' = faults \/ Fault
  PROVE  Good
<1>1. /\ call' \in [Requests -> [at : Calls, session : Sessions \cup {NoSession}]]
      /\ CallsGoOn /\ \A q \in Requests : call[q].at = "bind" => call'[q] = call[q]
  BY Goes DEF Calls, CallsGoOn
<1>2. faults' \in 0 .. MaxFaults
  BY ComputeAssumption DEF Fault, IInv, TypeOK, LedgerTypeOK
<1>3. TypeOK'
  BY <1>1, <1>2 DEF IInv, TypeOK, LedgerTypeOK
<1>4. RowsShrink
  BY DEF RowsShrink, Bound, Holding, Kept
<1>5. CallsOK'
  BY <1>1, <1>3, <1>4, OneBinder, CallsKeep DEF IInv, Doing, For
<1> QED
  BY <1>1, <1>3, <1>5, CallSteps

LEMMA GiveUpSteps ==
  ASSUME IInv, NEW r \in Requests, GiveUp(r) \/ CallDies(r)
  PROVE  Good
  BY CallOnly DEF GiveUp, CallDies, Goto, ledgerVars

LEMMA RequestSteps ==
  ASSUME IInv, NEW r \in Requests, NEW s \in Sessions, start(r, s)
  PROVE  Good
<1>1. /\ call[r].at = "new" /\ (OneController => ~Active(s))
      /\ call' = [call EXCEPT ![r] = [at |-> IF ClaimsOf(s) = {} THEN "claim" ELSE "resume", session |-> s]]
      /\ UNCHANGED <<machine, binding, secrets, admission, vm, late, guest, op, faults, doomed>>
  BY DEF start, ledgerVars
<1>2. /\ call' \in [Requests -> [at : Calls, session : Sessions \cup {NoSession}]]
      /\ call'[r].session = s /\ call'[r].at \in {"claim", "resume"}
      /\ call'[r].at = "claim" => ClaimsOf(s) = {}
      /\ \A q \in Requests \ {r} : call'[q] = call[q]
  BY <1>1 DEF IInv, TypeOK, Calls
<1>3. TypeOK'
  BY <1>1, <1>2 DEF IInv, TypeOK, LedgerTypeOK
<1>4. OneClaim' /\ SlotsApart'
  BY <1>1 DEF IInv, CallsOK, OneClaim, SlotsApart, Kept, Holding
<1>5. CallsMatch'
  BY <1>1, <1>2 DEF IInv, CallsOK, CallsMatch, Bound
<1>6. OneStart'
  <2> SUFFICES ASSUME OneController
               PROVE  /\ \A p, q \in Requests :
                            /\ call'[p].at \notin {"new", "done"} /\ call'[q].at \notin {"new", "done"}
                            /\ call'[p].session = call'[q].session
                            => p = q
                      /\ \A p, q \in Requests :
                            call'[p].at \in {"claim", "bind"} /\ Holding(q)'
                              => binding'[q].session # call'[p].session
    BY DEF OneStart
  <2>1. \A q \in Requests : call[q].session = s => call[q].at \in {"new", "done"}
    BY <1>1 DEF Active
  <2>2. call'[r].at = "claim" => \A q \in Requests : Holding(q) => binding[q].session # s
    BY <1>2 DEF ClaimsOf, Holding
  <2>3. \A p, q \in Requests :
           /\ call'[p].at \notin {"new", "done"} /\ call'[q].at \notin {"new", "done"}
           /\ call'[p].session = call'[q].session
           => p = q
    BY <1>2, <2>1 DEF IInv, CallsOK, OneStart
  <2>4. \A p, q \in Requests :
           call'[p].at \in {"claim", "bind"} /\ Holding(q)' => binding'[q].session # call'[p].session
    BY <1>1, <1>2, <2>2 DEF IInv, CallsOK, OneStart, Holding
  <2> QED
    BY <2>3, <2>4
<1>7. BindingsApart'
  BY <1>1, OneBinder DEF IInv, Doing, For
<1>8. \A q \in Requests : call[q].at = "bind" => call'[q] = call[q]
  BY <1>1, <1>2
<1> QED
  BY <1>1, <1>3, <1>4, <1>5, <1>6, <1>7, <1>8, CallSteps DEF CallsOK

LEMMA RetrySteps ==
  ASSUME IInv, NEW r \in Requests, _retry_failed_runtime(r)
  PROVE  Good
<1>1. /\ call[r].at = "resume"
      /\ UNCHANGED <<machine, secrets, admission, vm, late, guest, op, faults, doomed>>
  BY DEF _retry_failed_runtime
<1>2. CASE /\ binding' = binding
           /\ call' = [call EXCEPT ![r].at = "done"] \/ call' = [call EXCEPT ![r].at = "launch"]
  BY <1>1, <1>2, CallOnly
<1>3. ASSUME NEW c \in Requests, NEW m \in Machines, Holding(c), binding[c].machine = m, op[m] = Free,
             binding[c].state = "failed", binding[c].retryable,
             binding' = [binding EXCEPT ![c] = [binding[c] EXCEPT !.state = "starting", !.retryable = FALSE,
                                                                  !.data = FALSE, !.started = FALSE]],
             call' = [call EXCEPT ![r].at = "done"]
      PROVE  Good
  <2> DEFINE b == [binding[c] EXCEPT !.state = "starting", !.retryable = FALSE, !.data = FALSE, !.started = FALSE]
  <2>1. Bound(c) /\ Kept(c) /\ binding[c] \in Bindings /\ binding[c].slot \in Slots
    BY <1>3, Rows DEF IInv
  <2>2. /\ b \in Bindings /\ b.state = "starting" /\ b.machine = m /\ b.session = binding[c].session
        /\ b.slot = binding[c].slot
    BY <1>3, <2>1 DEF Bindings, SlotStates, LiveStates
  <2>3. ~FailsInGuest => ~Unsaved(m, b.slot)
    BY <1>3, <2>2 DEF IInv, MachineOK, GuestOK, NothingLeft, Unsaved, Empty
  <2>4. binding' = [binding EXCEPT ![c] = b]
    BY <1>3
  <2> HIDE DEF b
  <2>5. (\A q \in Requests : RowGoesOn(m, q)) /\ binding' \in [Requests -> Bindings \cup {NoBinding}]
    BY <1>3, <2>1, <2>2, <2>3, <2>4, RowSaved DEF LiveStates
  <2>6. /\ call' \in [Requests -> [at : Calls, session : Sessions \cup {NoSession}]]
        /\ CallsGoOn /\ BindsGoOn(m)
    BY <1>1, <1>3, Goes DEF Calls, CallsGoOn, BindsGoOn
  <2>7. TypeOK'
    BY <1>1, <2>5, <2>6 DEF IInv, TypeOK, LedgerTypeOK
  <2> QED
    BY <1>1, <1>3, <2>5, <2>6, <2>7, LockReleased, SlotSteps
<1>4. \A c \in ClaimsOf(call[r].session) : c \in Requests /\ Holding(c) /\ binding[c].machine \in Machines
  BY Rows DEF IInv, ClaimsOf, Holding
<1> QED
  BY <1>2, <1>3, <1>4 DEF _retry_failed_runtime, SaveSlot, Goto

--------------------------------------------------------------------------------
(* Slots that are free.                                                    *)

LEMMA TwoOf ==
  ASSUME NEW a \in Int, NEW b \in Int
  PROVE  Max({0, Min({a, b})}) > 0 => a > 0
<1>1. \E x \in {a, b} : \A y \in {a, b} : x =< y
  BY SMT
<1>2. Min({a, b}) \in {a, b} /\ Min({a, b}) <= a
  BY <1>1 DEF Min
<1> DEFINE lo == Min({a, b})
<1>3. lo \in Int /\ lo <= a
  BY <1>2
<1> HIDE DEF lo
<1>4. \E x \in {0, lo} : \A y \in {0, lo} : x >= y
  BY <1>3, SMT
<1>5. Max({0, lo}) \in {0, lo}
  BY <1>4 DEF Max
<1>6. Max({0, lo}) > 0 => a > 0
  BY <1>3, <1>5, SMT
<1> QED
  BY <1>6 DEF lo

\* A set of natural numbers has a least one, which Min finds.
LEMMA Least ==
  ASSUME NEW T \in SUBSET Nat, T # {}
  PROVE  Min(T) \in T
<1> DEFINE R == OpToRel(<, Nat)
<1>1. IsWellFoundedOn(R, Nat)
  BY NatLessThanWellFounded
<1>2. \A x, y \in Nat : <<y, x>> \in R <=> y < x
  BY DEF OpToRel
<1> HIDE DEF R
<1>3. PICK x \in T : \A y \in T : <<y, x>> \notin R
  BY <1>1, WFMin
<1>4. ASSUME NEW y \in T
      PROVE  x =< y
  <2>1. x \in Nat /\ y \in Nat
    OBVIOUS
  <2>2. ~(y < x)
    BY <1>2, <1>3, <2>1
  <2> QED
    BY <2>1, <2>2, SMT
<1> QED
  BY <1>3, <1>4 DEF Min

\* A machine with a usable slot has one that no binding keeps.
LEMMA UsableIsFree ==
  ASSUME IInv, NEW m \in Machines, usable_slots(m) > 0
  PROVE  \E k \in Slots : \A r \in Requests : Kept(r) /\ binding[r].machine = m => binding[r].slot # k
<1>1. /\ IsFiniteSet(Occupying(m)) /\ Cardinality(Occupying(m)) \in Nat
      /\ IsFiniteSet(On(m)) /\ Cardinality(On(m)) \in Nat
  <2>1. On(m) \in SUBSET Requests /\ Occupying(m) \in SUBSET Requests
    BY DEF On, Occupying
  <2> QED
    BY <2>1, ComputeAssumption, FS_Subset, FS_CardinalityType
<1>2. Max({0, Min({SlotsPerMachine - Cardinality(Occupying(m)), SessionLimit - Cardinality(On(m))})}) > 0
  BY DEF usable_slots
<1>3. Cardinality(Occupying(m)) < SlotsPerMachine
  <2>1. /\ SlotsPerMachine - Cardinality(Occupying(m)) \in Int
        /\ SessionLimit - Cardinality(On(m)) \in Int
    BY <1>1, ComputeAssumption
  <2>2. SlotsPerMachine - Cardinality(Occupying(m)) > 0
    BY <1>2, <2>1, TwoOf
  <2> QED
    BY <1>1, <2>2, ComputeAssumption
<1>4. IsFiniteSet(Slots) /\ Cardinality(Slots) = SlotsPerMachine
  BY ComputeAssumption, FS_Interval DEF Slots
<1> SUFFICES ASSUME \A k \in Slots : \E r \in Requests : Kept(r) /\ binding[r].machine = m /\ binding[r].slot = k
             PROVE  FALSE
  OBVIOUS
<1> DEFINE f == [k \in Slots |-> CHOOSE r \in Requests : Kept(r) /\ binding[r].machine = m /\ binding[r].slot = k]
<1>5. \A k \in Slots : f[k] \in Requests /\ Kept(f[k]) /\ binding[f[k]].machine = m /\ binding[f[k]].slot = k
  OBVIOUS
<1>6. f \in [Slots -> Occupying(m)]
  <2>1. \A k \in Slots : f[k] \in Occupying(m)
    BY <1>5 DEF Occupying, On, Kept
  <2> QED
    BY <2>1
<1> HIDE DEF f
<1>7. PICK x, y \in Slots : x # y /\ f[x] = f[y]
  BY <1>1, <1>3, <1>4, <1>6, FS_PigeonHole
<1> QED
  BY <1>5, <1>7

LEMMA NextIsFree ==
  ASSUME IInv, NEW m \in Machines,
         \E k \in Slots : \A r \in Requests : Kept(r) /\ binding[r].machine = m => binding[r].slot # k
  PROVE  /\ next_free_slot(m) \in Slots
         /\ \A r \in Requests : Kept(r) /\ binding[r].machine = m => binding[r].slot # next_free_slot(m)
<1> DEFINE T == Slots \ {binding[r].slot : r \in Occupying(m)}
<1>1. \A r \in Occupying(m) : r \in Requests /\ binding[r].machine = m /\ Kept(r)
  BY Rows, ComputeAssumption DEF IInv, Occupying, On, Kept, Bound
<1>2. \A r \in Requests : Kept(r) /\ binding[r].machine = m => r \in Occupying(m)
  BY DEF Occupying, On, Kept
<1>3. T \in SUBSET Nat /\ T # {}
  BY <1>1, ComputeAssumption DEF Slots
<1>4. Min(T) \in T
  BY <1>3, Least
<1>5. next_free_slot(m) = Min(T)
  BY DEF next_free_slot
<1> QED
  BY <1>2, <1>4, <1>5

--------------------------------------------------------------------------------
(* Bootstrap secrets, and the two steps that create a binding.             *)

LEMMA StoreSteps ==
  ASSUME IInv, NEW r \in Requests, store_bootstrap(r)
  PROVE  Good
<1>1. call[r].at = "store" /\ Bound(r)
  BY DEF store_bootstrap, IInv, CallsOK, CallsMatch
<1>2. PICK m \in Machines : binding[r].machine = m /\ binding[r].session \in Sessions
  BY <1>1, Rows DEF IInv
<1>3. /\ op[m] = Free /\ (secrets' = secrets \/ secrets' = secrets \cup {<<m, binding[r].session>>})
      /\ call' = [call EXCEPT ![r].at = "done"]
      /\ UNCHANGED <<machine, binding, admission, vm, late, guest, op, faults, doomed>>
  BY <1>2 DEF store_bootstrap, Goto
<1>4. /\ call' \in [Requests -> [at : Calls, session : Sessions \cup {NoSession}]]
      /\ CallsGoOn /\ BindsGoOn(m)
  BY <1>1, <1>3, Goes DEF Calls, CallsGoOn, BindsGoOn
<1>5. TypeOK'
  BY <1>2, <1>3, <1>4 DEF IInv, TypeOK, LedgerTypeOK
<1>6. RowsShrink
  BY <1>3 DEF RowsShrink, Bound, Holding, Kept
<1>7. CallsOK'
  BY <1>3, <1>4, <1>5, <1>6, OneBinder, CallsKeep DEF IInv, Doing, For
<1>8. Local(m)
  BY <1>3, <1>4 DEF Local
<1>9. RowOK(m)'
  BY <1>3 DEF IInv, MachineOK, RowOK, Bound
<1>10. BootstrapOK(m)'
  BY <1>3, BootstrapKeep DEF IInv, MachineOK, InService, Holding
<1>11. GuestOK(m)'
  BY <1>3 DEF IInv, MachineOK, GuestOK, DataOwned, UnsavedClaimed, NothingLeft, Empty, Unsaved, Kept, Holding, Doing, For
<1>12. KeepsData(m) /\ DrainsStopped(m)
  BY <1>3 DEF KeepsData, DrainsStopped
<1> QED
  BY <1>3, <1>5, <1>7, <1>8, <1>9, <1>10, <1>11, <1>12, LockFree, OthersKeep DEF StepOK, MachineOK

LEMMA BindBeginSteps ==
  ASSUME IInv, NEW m \in Machines, NEW r \in Requests, _bind_when_free(r, m)
  PROVE  Good
<1> DEFINE s == call[r].session
<1>1. /\ call[r].at = "claim" /\ op[m] = Free /\ machine[m] = "idle" /\ usable_slots(m) > 0
      /\ secrets' = secrets \cup {<<m, s>>}
      /\ op' = [op EXCEPT ![m] = [at |-> "binding", for |-> r]]
      /\ call' = [call EXCEPT ![r].at = "bind"]
      /\ UNCHANGED <<machine, binding, admission, vm, late, guest, faults, doomed>>
  BY DEF _bind_when_free, Enter, Goto
<1>2. s \in Sessions
  BY <1>1 DEF IInv, CallsOK, CallsMatch
<1>3. /\ op'[m] = [at |-> "binding", for |-> r] /\ op'[m].at = "binding" /\ For(m)' = r
      /\ (\A S : Doing(m, S)' <=> "binding" \in S)
      /\ (\A n \in Machines \ {m} : op'[n] = op[n]) /\ op' \in [Machines -> [at : Steps, for : Requests] \cup {Free}]
  BY <1>1, LockTaken DEF Steps
<1>4. /\ call' \in [Requests -> [at : Calls, session : Sessions \cup {NoSession}]]
      /\ call'[r].at = "bind" /\ call'[r].session = s
      /\ \A q \in Requests \ {r} : call'[q] = call[q]
  BY <1>1, Goes DEF Calls
<1>5. CallsGoOn /\ BindsGoOn(m)
  BY <1>1, <1>4 DEF CallsGoOn, BindsGoOn
<1>6. TypeOK'
  BY <1>1, <1>2, <1>3, <1>4 DEF IInv, TypeOK, LedgerTypeOK
<1>7. RowsShrink
  BY <1>1 DEF RowsShrink, Bound, Holding, Kept
<1>8. BindingsApart'
  <2>1. \A n \in Machines : Doing(n, {"binding"}) => call[For(n)].at = "bind"
    BY DEF IInv, MachineOK, LockOK, BindingOp
  <2>2. \A n \in Machines \ {m} : (Doing(n, {"binding"})' <=> Doing(n, {"binding"})) /\ For(n)' = For(n)
    BY <1>3 DEF Doing, For
  <2> QED
    BY <1>1, <1>3, <2>1, <2>2 DEF IInv, CallsOK, BindingsApart
<1>9. CallsOK'
  BY <1>5, <1>6, <1>7, <1>8, CallsKeep DEF IInv
<1>10. Local(m)
  BY <1>1, <1>3, <1>5 DEF Local
<1>11. LockOK(m)'
  <2>1. \E k \in Slots : \A q \in Requests : Kept(q) /\ binding[q].machine = m => binding[q].slot # k
    BY <1>1, UsableIsFree
  <2>2. BindingOp(m)'
    BY <1>1, <1>3, <1>4, <2>1 DEF BindingOp, Kept
  <2>3. SlotOp(m)'
    BY <1>3 DEF SlotOp
  <2> QED
    BY <2>2, <2>3 DEF LockOK
<1>12. RowOK(m)'
  BY <1>1 DEF IInv, MachineOK, RowOK, Bound
<1>13. BootstrapOK(m)'
  BY <1>1, BootstrapKeep DEF IInv, MachineOK, InService, Holding
<1>14. GuestOK(m)'
  BY <1>1, <1>3 DEF IInv, MachineOK, GuestOK, DataOwned, UnsavedClaimed, NothingLeft, Empty, Unsaved, Kept, Holding
<1>15. KeepsData(m) /\ DrainsStopped(m)
  BY <1>1 DEF KeepsData, DrainsStopped
<1> QED
  BY <1>6, <1>9, <1>10, <1>11, <1>12, <1>13, <1>14, <1>15, OthersKeep DEF StepOK, MachineOK

LEMMA NewRow ==
  ASSUME NEW m \in Machines, NEW s \in Sessions, NEW k \in Slots
  PROVE  \E b \in Bindings : /\ b = NewBinding(m, s, k)
                             /\ b.state = "starting" /\ b.machine = m /\ b.session = s /\ b.slot = k
<1> DEFINE b == NewBinding(m, s, k)
<1>1. b \in Bindings /\ b.state = "starting" /\ b.machine = m /\ b.session = s /\ b.slot = k
  BY DEF NewBinding, NoBinding, Bindings, SlotStates, LiveStates
<1> HIDE DEF b
<1>2. \E x \in Bindings : x = b /\ x.state = "starting" /\ x.machine = m /\ x.session = s /\ x.slot = k
  BY <1>1
<1> QED
  BY <1>2 DEF b

\* A binding is created for a session that had no claim, in a slot that was free.
LEMMA Created ==
  ASSUME IInv, NEW r \in Requests, NEW b \in Bindings,
         call[r].at \in {"claim", "bind"}, call[r].session = b.session, ClaimsOf(b.session) = {},
         \A q \in Requests : Kept(q) /\ binding[q].machine = b.machine => binding[q].slot # b.slot,
         b.state = "starting",
         binding' = [binding EXCEPT ![r] = b],
         call' = [call EXCEPT ![r].at = "done"] \/ call' = [call EXCEPT ![r].at = "store"],
         BindingsApart'
  PROVE  /\ CallsOK'
         /\ binding' \in [Requests -> Bindings \cup {NoBinding}]
         /\ call' \in [Requests -> [at : Calls, session : Sessions \cup {NoSession}]]
         /\ \A q \in Requests \ {r} : binding'[q] = binding[q] /\ call'[q] = call[q]
         /\ binding[r] = NoBinding /\ binding'[r] = b
<1>1. b.session \in Sessions /\ b.machine \in Machines /\ b.slot \in Slots
  BY DEF Bindings
<1>2. /\ binding'[r] = b /\ \A q \in Requests \ {r} : binding'[q] = binding[q]
      /\ binding' \in [Requests -> Bindings \cup {NoBinding}]
  BY DEF IInv, TypeOK, LedgerTypeOK
<1>3. /\ call' \in [Requests -> [at : Calls, session : Sessions \cup {NoSession}]]
      /\ call'[r].at \in {"done", "store"} /\ call'[r].session = b.session
      /\ \A q \in Requests \ {r} : call'[q] = call[q]
  BY Goes DEF Calls
<1>4. binding[r] = NoBinding
  BY DEF IInv, CallsOK, CallsMatch
<1>5. /\ Holding(r)' /\ Kept(r)' /\ Bound(r)'
      /\ \A q \in Requests \ {r} : (Holding(q)' <=> Holding(q)) /\ (Kept(q)' <=> Kept(q)) /\ (Bound(q)' <=> Bound(q))
  BY <1>2 DEF Holding, Kept, Bound, SlotStates, LiveStates
<1>6. \A q \in Requests : Holding(q) => binding[q].session # b.session
  BY DEF ClaimsOf, Holding
<1>7. OneClaim'
  BY <1>2, <1>5, <1>6 DEF IInv, CallsOK, OneClaim
<1>8. SlotsApart'
  BY <1>2, <1>5 DEF IInv, CallsOK, SlotsApart
<1>9. CallsMatch'
  BY <1>1, <1>2, <1>3, <1>5 DEF IInv, CallsOK, CallsMatch
<1>10. OneStart'
  <2> SUFFICES ASSUME OneController
               PROVE  /\ \A p, q \in Requests :
                            /\ call'[p].at \notin {"new", "done"} /\ call'[q].at \notin {"new", "done"}
                            /\ call'[p].session = call'[q].session
                            => p = q
                      /\ \A p, q \in Requests :
                            call'[p].at \in {"claim", "bind"} /\ Holding(q)'
                              => binding'[q].session # call'[p].session
    BY DEF OneStart
  <2>1. \A q \in Requests \ {r} : call[q].session = b.session => call[q].at \in {"new", "done"}
    BY DEF IInv, CallsOK, OneStart
  <2> QED
    BY <1>2, <1>3, <1>5, <2>1 DEF IInv, CallsOK, OneStart
<1> QED
  BY <1>2, <1>3, <1>4, <1>7, <1>8, <1>9, <1>10 DEF CallsOK

\* What its machine is left with.
LEMMA Housed ==
  ASSUME IInv, TypeOK', NEW m \in Machines, NEW r \in Requests, NEW s \in Sessions,
         binding[r] = NoBinding, binding'[r].machine = m, binding'[r].session = s, binding'[r].state = "starting",
         \A q \in Requests \ {r} : binding'[q] = binding[q],
         UNCHANGED <<vm, late, guest, secrets>>, op'[m] = Free,
         machine'[m] \in {"idle", "provisioning"},
         machine'[m] = "idle" => machine[m] = "idle" /\ <<m, s>> \in secrets
  PROVE  MachineOK(m)' /\ KeepsData(m) /\ DrainsStopped(m)
<1>1. MachineOK(m)
  BY DEF IInv
<1>2. LockOK(m)'
  BY LockFree
<1>3. RowOK(m)'
  BY DEF RowOK
<1>4. BootstrapOK(m)'
  BY <1>1 DEF MachineOK, BootstrapOK, InService, Holding
<1>5. ~Kept(r) /\ ~Holding(r)
  BY Rows DEF IInv
<1>6. DataOwned(m)' /\ UnsavedClaimed(m)'
  BY <1>1, <1>5, OwnersKeep DEF MachineOK, GuestOK, Kept, Holding
<1>7. NothingLeft(m)'
  <2>1. \A k \in Slots : Empty(m, k)' <=> Empty(m, k)
    BY DEF Empty
  <2>2. \A q \in Requests : binding'[q].state = "failed" => binding'[q] = binding[q] /\ binding[q].slot \in Slots
    BY Rows DEF IInv, Bound, SlotStates, LiveStates
  <2> QED
    BY <1>1, <2>1, <2>2 DEF MachineOK, GuestOK, NothingLeft, Doing, Free
<1>8. KeepsData(m) /\ DrainsStopped(m)
  BY DEF KeepsData, DrainsStopped
<1> QED
  BY <1>2, <1>3, <1>4, <1>6, <1>7, <1>8 DEF MachineOK, GuestOK

LEMMA AcquireSteps ==
  ASSUME IInv, NEW m \in Machines, NEW r \in Requests, acquire(r, m)
  PROVE  Good
<1>1. call[r].at = "claim" /\ UNCHANGED <<secrets, admission, vm, late, guest, op, faults, doomed>>
  BY DEF acquire
<1>2. CASE ClaimsOf(call[r].session) # {}
  <2>1. call' = [call EXCEPT ![r].at = "done"] /\ UNCHANGED <<machine, binding>>
    BY <1>2 DEF acquire, Goto
  <2> QED
    BY <1>1, <2>1, CallOnly
<1>3. CASE ClaimsOf(call[r].session) = {}
  <2> DEFINE s == call[r].session
  <2>1. /\ machine[m] = "none" /\ machine' = [machine EXCEPT ![m] = "provisioning"]
        /\ binding' = [binding EXCEPT ![r] = NewBinding(m, s, 0)]
        /\ call' = [call EXCEPT ![r].at = "store"]
    BY <1>3 DEF acquire, Fresh, SaveMachine, SaveSlot, Goto
  <2>2. s \in Sessions /\ 0 \in Slots
    BY <1>1, ComputeAssumption DEF IInv, CallsOK, CallsMatch, Slots
  <2>3. \A q \in Requests : ~(Kept(q) /\ binding[q].machine = m)
    BY <2>1, Rows DEF IInv, MachineOK, RowOK
  <2>4. \A n \in Machines : Doing(n, {"binding"})' => Doing(n, {"binding"}) /\ For(n)' = For(n)
    BY <1>1 DEF Doing, For
  <2>5. PICK t \in Sessions : t = s
    BY <2>2
  <2>6. /\ CallsOK'
        /\ binding' \in [Requests -> Bindings \cup {NoBinding}]
        /\ call' \in [Requests -> [at : Calls, session : Sessions \cup {NoSession}]]
        /\ \A q \in Requests \ {r} : binding'[q] = binding[q] /\ call'[q] = call[q]
        /\ binding[r] = NoBinding
        /\ binding'[r].machine = m /\ binding'[r].session = t /\ binding'[r].slot = 0
        /\ binding'[r].state = "starting"
    <3>1. PICK k \in Slots : k = 0
      BY <2>2
    <3>2. PICK b \in Bindings : /\ b = NewBinding(m, t, k)
                                /\ b.state = "starting" /\ b.machine = m /\ b.session = t /\ b.slot = k
      BY NewRow
    <3>3. /\ call[r].at \in {"claim", "bind"} /\ call[r].session = t /\ ClaimsOf(t) = {}
          /\ binding' = [binding EXCEPT ![r] = b]
          /\ call' = [call EXCEPT ![r].at = "store"]
          /\ \A q \in Requests : Kept(q) /\ binding[q].machine = m => binding[q].slot # k
      BY <1>1, <1>3, <2>1, <2>3, <2>5, <3>1, <3>2
    <3>4. BindingsApart'
      BY <2>4, OneBinder DEF IInv
    <3>5. /\ call[r].session = b.session /\ ClaimsOf(b.session) = {}
          /\ \A q \in Requests : Kept(q) /\ binding[q].machine = b.machine => binding[q].slot # b.slot
      BY <3>2, <3>3
    <3>6. b.state = "starting" /\ binding' = [binding EXCEPT ![r] = b] /\ call[r].at \in {"claim", "bind"}
          /\ call' = [call EXCEPT ![r].at = "store"]
      BY <3>2, <3>3
    <3>7. /\ CallsOK'
          /\ binding' \in [Requests -> Bindings \cup {NoBinding}]
          /\ call' \in [Requests -> [at : Calls, session : Sessions \cup {NoSession}]]
          /\ \A q \in Requests \ {r} : binding'[q] = binding[q] /\ call'[q] = call[q]
          /\ binding[r] = NoBinding /\ binding'[r] = b
      BY <3>4, <3>5, <3>6, Created
    <3> QED
      BY <3>1, <3>2, <3>7
  <2>7. /\ machine' \in [Machines -> LeaseStates \cup {"none"}]
        /\ machine'[m] = "provisioning" /\ \A n \in Machines \ {m} : machine'[n] = machine[n]
    BY <2>1 DEF IInv, TypeOK, LedgerTypeOK, LeaseStates
  <2>8. TypeOK'
    BY <1>1, <2>6, <2>7 DEF IInv, TypeOK, LedgerTypeOK
  <2>9. op'[m] = Free
    BY <1>1, <2>1, Unknown
  <2>10. MachineOK(m)' /\ KeepsData(m) /\ DrainsStopped(m)
    BY <1>1, <2>6, <2>7, <2>8, <2>9, Housed
  <2>11. Local(m)
    BY <1>1, <2>6, <2>7 DEF Local, BindsGoOn, NoBinding
  <2> QED
    BY <2>6, <2>8, <2>10, <2>11, OthersKeep DEF StepOK
<1> QED
  BY <1>2, <1>3

LEMMA BindSteps ==
  ASSUME IInv, NEW m \in Machines, bind(m)
  PROVE  Good
<1>1. PICK r \in Requests :
         /\ r = For(m) /\ r = op[m].for /\ call[r].at = "bind" /\ machine[m] = "idle"
         /\ <<m, call[r].session>> \in secrets
         /\ \E k \in Slots : \A q \in Requests : Kept(q) /\ binding[q].machine = m => binding[q].slot # k
  BY Ops DEF bind, IInv, MachineOK, LockOK, BindingOp, Doing, For, Free
<1>2. call[r].session \in Sessions
  BY <1>1 DEF IInv, CallsOK, CallsMatch
<1>3. PICK s \in Sessions : s = call[r].session
  BY <1>2
<1>4. op' = [op EXCEPT ![m] = Free] /\ UNCHANGED <<machine, admission, vm, late, guest, faults, doomed>>
  BY DEF bind, Leave
<1>5. /\ op'[m] = Free
      /\ (\A n \in Machines \ {m} : op'[n] = op[n]) /\ op' \in [Machines -> [at : Steps, for : Requests] \cup {Free}]
  BY <1>4, LockLeft
<1>6. \A n \in Machines : Doing(n, {"binding"})' => Doing(n, {"binding"}) /\ For(n)' = For(n)
  BY <1>5 DEF Doing, For, Free
<1>7. Doing(m, {"binding"}) /\ For(m) = r
  BY <1>1 DEF bind, Doing
<1>8. ASSUME ClaimsOf(s) = {}, NEW k \in Slots, k = next_free_slot(m), secrets' = secrets,
             binding' = [binding EXCEPT ![r] = NewBinding(m, s, k)], call' = [call EXCEPT ![r].at = "done"]
      PROVE  Good
  <2>1. \A q \in Requests : Kept(q) /\ binding[q].machine = m => binding[q].slot # k
    BY <1>1, <1>8, NextIsFree
  <2>2. /\ CallsOK'
        /\ binding' \in [Requests -> Bindings \cup {NoBinding}]
        /\ call' \in [Requests -> [at : Calls, session : Sessions \cup {NoSession}]]
        /\ \A q \in Requests \ {r} : binding'[q] = binding[q] /\ call'[q] = call[q]
        /\ binding[r] = NoBinding
        /\ binding'[r].machine = m /\ binding'[r].session = s /\ binding'[r].slot = k
        /\ binding'[r].state = "starting"
    <3>1. PICK b \in Bindings : /\ b = NewBinding(m, s, k)
                                /\ b.state = "starting" /\ b.machine = m /\ b.session = s /\ b.slot = k
      BY NewRow
    <3>2. /\ call[r].at \in {"claim", "bind"} /\ call[r].session = s /\ ClaimsOf(s) = {}
          /\ binding' = [binding EXCEPT ![r] = b]
          /\ call' = [call EXCEPT ![r].at = "done"]
      BY <1>1, <1>3, <1>8, <3>1
    <3>3. BindingsApart'
      BY <1>6, OneBinder DEF IInv
    <3>4. \A q \in Requests : Kept(q) /\ binding[q].machine = b.machine => binding[q].slot # b.slot
      BY <2>1, <3>1
    <3> QED
      BY <3>1, <3>2, <3>3, <3>4, Created
  <2>3. TypeOK'
    BY <1>4, <1>5, <1>8, <2>2 DEF IInv, TypeOK, LedgerTypeOK
  <2>4. MachineOK(m)' /\ KeepsData(m) /\ DrainsStopped(m)
    BY <1>1, <1>3, <1>4, <1>5, <1>8, <2>2, <2>3, Housed
  <2>5. Local(m)
    BY <1>4, <1>5, <1>7, <1>8, <2>2 DEF Local, BindsGoOn, NoBinding
  <2> QED
    BY <2>2, <2>3, <2>4, <2>5, OthersKeep DEF StepOK
<1>9. ASSUME binding' = binding, secrets' = secrets \ {<<m, s>>}, NEW at \in {"done", "claim"},
             call' = [call EXCEPT ![r].at = at]
      PROVE  Good
  <2>1. /\ call' \in [Requests -> [at : Calls, session : Sessions \cup {NoSession}]]
        /\ CallsGoOn /\ BindsGoOn(m)
    BY <1>1, <1>7, <1>9, Goes DEF Calls, CallsGoOn, BindsGoOn
  <2>2. TypeOK'
    BY <1>4, <1>5, <1>9, <2>1 DEF IInv, TypeOK, LedgerTypeOK
  <2>3. RowsShrink
    BY <1>9 DEF RowsShrink, Bound, Holding, Kept
  <2>4. CallsOK'
    BY <1>6, <2>1, <2>2, <2>3, OneBinder, CallsKeep DEF IInv
  <2>5. Local(m)
    BY <1>4, <1>5, <1>9, <2>1 DEF Local
  <2>6. LockOK(m)' /\ RowOK(m)'
    BY <1>4, <1>5, <1>9, LockFree DEF IInv, MachineOK, RowOK, Bound
  <2>7. OneController => \A q \in Requests : Holding(q) => binding[q].session # s
    BY <1>1, <1>3 DEF IInv, CallsOK, OneStart
  <2>8. BootstrapOK(m)'
    BY <1>4, <1>9, <2>7 DEF IInv, MachineOK, BootstrapOK, InService, Holding
  <2>9. GuestOK(m)'
    BY <1>4, <1>5, <1>9 DEF IInv, MachineOK, GuestOK, DataOwned, UnsavedClaimed, NothingLeft, Empty, Unsaved, Kept,
                            Holding, Doing, Free
  <2>10. KeepsData(m) /\ DrainsStopped(m)
    BY <1>4 DEF KeepsData, DrainsStopped
  <2> QED
    BY <2>2, <2>4, <2>5, <2>6, <2>8, <2>9, <2>10, OthersKeep DEF StepOK, MachineOK
<1>10. next_free_slot(m) \in Slots
  BY <1>1, NextIsFree
<1> QED
  BY <1>1, <1>3, <1>8, <1>9, <1>10 DEF bind, SaveSlot, Goto

--------------------------------------------------------------------------------
(* Every step.                                                             *)

LEMMA InitOK == Init => IInv
<1> SUFFICES ASSUME Init
             PROVE  IInv
  OBVIOUS
<1>1. TypeOK
  BY ComputeAssumption DEF Init, LedgerInit, TypeOK, LedgerTypeOK, NoData, Calls
<1>2. \A r \in Requests : binding[r] = NoBinding /\ ~Bound(r) /\ ~Holding(r) /\ ~Kept(r) /\ binding[r].state = "none"
  BY DEF Init, LedgerInit, NoBinding, Bound, Holding, Kept, SlotStates, LiveStates
<1>3. CallsOK
  BY <1>2 DEF Init, LedgerInit, CallsOK, OneClaim, SlotsApart, CallsMatch, OneStart, BindingsApart, Doing, Free
<1>4. ASSUME NEW m \in Machines
      PROVE  MachineOK(m)
  <2>1. LockOK(m) /\ ~Doing(m, {"recycled"}) /\ ~Doing(m, {"archived"})
    BY DEF Init, LedgerInit, LockOK, BindingOp, SlotOp, Doing, Free, Steps
  <2>2. RowOK(m) /\ BootstrapOK(m)
    BY <1>2 DEF Init, LedgerInit, RowOK, BootstrapOK
  <2>3. \A k \in Slots : Empty(m, k) /\ ~Unsaved(m, k)
    BY DEF Init, LedgerInit, Empty, Unsaved, NoData
  <2>4. GuestOK(m)
    BY <1>2, <2>1, <2>3 DEF GuestOK, DataOwned, UnsavedClaimed, NothingLeft
  <2> QED
    BY <2>1, <2>2, <2>4 DEF MachineOK
<1> QED
  BY <1>1, <1>3, <1>4 DEF IInv

LEMMA StepsOK == IInv /\ [Next]_vars => Good
<1> SUFFICES ASSUME IInv, [Next]_vars
             PROVE  Good
  OBVIOUS
<1>1. CASE UNCHANGED vars
  BY <1>1, PolicySteps
<1>2. CASE Ledger
  <2> USE <1>2 DEF Ledger
  <2>1. CASE set_policy
    BY <2>1, PolicySteps
  <2>2. ASSUME NEW m \in Machines, acquire_standby(m) \/ quarantine(m) \/ Provider(m)
        PROVE  Good
    BY <2>2, AdmissionSteps, QuarantineSteps, ProviderSteps
  <2>3. ASSUME NEW m \in Machines, Reconcile(m)
        PROVE  Good
    BY <2>3, CreateSteps, ReadySteps, OverdueSteps, DeleteRequestSteps, DeleteConfirmedSteps DEF Reconcile
  <2> QED
    BY <2>1, <2>2, <2>3
<1>3. ASSUME NEW r \in Requests, NEW s \in Sessions, start(r, s)
      PROVE  Good
  BY <1>3, RequestSteps
<1>4. ASSUME NEW r \in Requests, NEW m \in Machines, _bind_when_free(r, m) \/ acquire(r, m)
      PROVE  Good
  BY <1>4, BindBeginSteps, AcquireSteps
<1>5. ASSUME NEW r \in Requests, store_bootstrap(r) \/ _retry_failed_runtime(r) \/ GiveUp(r) \/ CallDies(r)
      PROVE  Good
  BY <1>5, StoreSteps, RetrySteps, GiveUpSteps
<1>6. ASSUME NEW r \in Requests, _start_runtime(r) \/ mark_busy(r) \/ stop(r) \/ _finish_requested_stop(r)
      PROVE  Good
  <2>1. Bound(r)
    BY <1>6 DEF _start_runtime, mark_busy, stop, _finish_requested_stop, CanStop, Bound, SlotStates, LiveStates
  <2>2. PICK m \in Machines : binding[r].machine = m
    BY <2>1, Rows DEF IInv
  <2> QED
    BY <1>6, <2>2, StartRuntimeSteps, BusySteps, StopSteps
<1>7. ASSUME NEW m \in Machines, Operation(m)
      PROVE  Good
  BY <1>7, BindSteps, RunsSteps, StartedSteps, ServeSteps, ArchiveSteps, RecycleSteps, ReleaseSteps, EmptySteps,
     ForgetSteps, RetireSteps, DrainSlotSteps DEF Operation
<1>8. ASSUME NEW m \in Machines, RuntimeFails(m) \/ ArchiveFails(m) \/ OperationDies(m)
      PROVE  Good
  BY <1>8, FailsSteps, LeaveSteps
<1>9. ASSUME NEW m \in Machines, Decide(m) \/ dispose(m) \/ warm(m)
      PROVE  Good
  BY <1>9, PolicySteps, DisposeSteps, WarmSteps
<1> QED
  BY <1>1, <1>2, <1>3, <1>4, <1>5, <1>6, <1>7, <1>8, <1>9 DEF Next

LEMMA Invariant == Spec => []IInv
<1>1. IInv /\ [Next]_vars => IInv'
  BY StepsOK DEF Good
<1> QED
  BY InitOK, <1>1, PTL DEF Spec

--------------------------------------------------------------------------------
(* What the invariant says of the pool's promises.                         *)

LEMMA ChargedHolds == IInv => ChargedUntilGone
  BY DEF IInv, MachineOK, RowOK, ChargedUntilGone, Charged

LEMMA SlotsHold == IInv => SlotHoldsItsSession
<1> SUFFICES ASSUME IInv, NEW m \in Machines, NEW k \in Slots, guest[m][k].of # NoSession
             PROVE  {binding[r].session : r \in {q \in Occupying(m) : binding[q].slot = k}} = {guest[m][k].of}
  BY DEF SlotHoldsItsSession
<1>1. PICK r \in Requests :
          /\ Kept(r) /\ binding[r].machine = m /\ binding[r].slot = k
          /\ binding[r].session = guest[m][k].of
  BY DEF IInv, MachineOK, GuestOK, DataOwned, Empty
<1>2. r \in Occupying(m)
  BY <1>1 DEF Occupying, On, Kept
<1>3. \A q \in Occupying(m) : q \in Requests /\ Kept(q) /\ binding[q].machine = m
  BY Rows, ComputeAssumption DEF IInv, Occupying, On, Kept, Bound
<1>4. \A q \in Occupying(m) : binding[q].slot = k => q = r
  BY <1>1, <1>3, Owner
<1> QED
  BY <1>1, <1>2, <1>4

LEMMA BootstrapsHold ==
  ASSUME OneController
  PROVE  IInv => ClaimKeepsBootstrap
  BY DEF IInv, MachineOK, BootstrapOK, ClaimKeepsBootstrap, HasBootstrap, Live, On, Holding

LEMMA GuestsHold ==
  ASSUME ~FailsInGuest
  PROVE  IInv => OneGuestPerSession
<1> SUFFICES ASSUME IInv, NEW m1 \in Machines, NEW m2 \in Machines, NEW k1 \in Slots, NEW k2 \in Slots,
                    Unsaved(m1, k1), Unsaved(m2, k2), guest[m1][k1].of = guest[m2][k2].of
             PROVE  m1 = m2 /\ k1 = k2
  BY DEF OneGuestPerSession
<1>1. PICK r \in Requests :
         /\ Holding(r) /\ binding[r].machine = m1 /\ binding[r].slot = k1 /\ binding[r].session = guest[m1][k1].of
  BY DEF IInv, MachineOK, GuestOK, UnsavedClaimed
<1>2. PICK q \in Requests :
         /\ Holding(q) /\ binding[q].machine = m2 /\ binding[q].slot = k2 /\ binding[q].session = guest[m2][k2].of
  BY DEF IInv, MachineOK, GuestOK, UnsavedClaimed
<1>3. r = q
  BY <1>1, <1>2 DEF IInv, CallsOK, OneClaim
<1> QED
  BY <1>1, <1>2, <1>3

--------------------------------------------------------------------------------

\* The rows, secrets, locks and guests of the pool keep their types, and its faults their
\* bound, whichever step of a start, stop or reconciliation is next.
THEOREM TypeCorrect == Spec => []TypeOK
<1>1. IInv => TypeOK
  BY DEF IInv
<1> QED
  BY Invariant, <1>1, PTL

\* Whatever the provider runs, breaks, or is slow to delete counts against max_machines
\* (_delete confirms before it releases the row).
THEOREM Charges == Spec => []ChargedUntilGone
  BY Invariant, ChargedHolds, PTL

\* A slot is never given to a session while it holds what another one left (finish_stop
\* scrubs before it releases the slot), with any number of slots, sessions and crashes.
THEOREM SlotsAreClean == Spec => []SlotHoldsItsSession
  BY Invariant, SlotsHold, PTL

\* When the starts and stops of a session exclude each other, a session bound to a machine
\* in service has its bootstrap: bind and release_slot may lose their process anywhere.
THEOREM BootstrapsKept ==
  ASSUME OneController
  PROVE  Spec => []ClaimKeepsBootstrap
  BY Invariant, BootstrapsHold, PTL

\* When a start that fails did not get as far as the guest, a session's unarchived data is in
\* one slot of one machine, whatever is started again, stopped or deleted.
THEOREM SingleGuest ==
  ASSUME ~FailsInGuest
  PROVE  Spec => []OneGuestPerSession
  BY Invariant, GuestsHold, PTL

\* Under the same condition nothing but its archive ends a session's data in a guest: no
\* scrub, no other start and no deletion of its machine (finish_stop, _delete).
THEOREM DataKept ==
  ASSUME ~FailsInGuest
  PROVE  Spec => DataPreserved
<1>1. IInv /\ [Next]_vars =>
         [\A m \in Machines, k \in Slots : Unsaved(m, k) => guest'[m][k].of = guest[m][k].of]_vars
  BY StepsOK DEF Good, KeepsData
<1> QED
  BY Invariant, <1>1, PTL DEF Spec, DataPreserved

\* A machine is drained only when every session on it was asked to stop: what maintenance
\* decided from an earlier read loses against a binding made since (dispose).
THEOREM DrainsChecked == Spec => DrainsOnlyTheStopped
<1>1. IInv /\ [Next]_vars =>
         [\A m \in Machines : machine[m] # "draining" /\ machine'[m] = "draining"
             => \A r \in Live(m) : binding[r].stop]_vars
  BY StepsOK DEF Good, DrainsStopped, Live, On, Holding
<1> QED
  BY Invariant, <1>1, PTL DEF Spec, DrainsOnlyTheStopped
================================================================================
