----------------------- MODULE NotificationOutboxProofs -----------------------
(***************************************************************************)
(* The safety of the notification outbox, for any numbers of hosts, rules  *)
(* and notifications, any leases, delays and faults.                       *)
(*                                                                         *)
(* While a dispatcher believes that its lease lasts, the claim is its own  *)
(* (ClaimOK): that is what its sends rest on.  Once the lease is over, its *)
(* fence is its own still (FencesApart): that is what its settles rest on. *)
(***************************************************************************)
EXTENDS NotificationOutbox, FiniteSetTheorems, TLAPS

JobRecord == [at : Jobs, fence : Nat, timer : 0 .. SendTimeout, reserved : BOOLEAN]
RowRecord == [status : Statuses, attempts : Nat, due : Nat, fresh : 0 .. Window,
              by : Dispatchers \cup {NoDispatcher}]

LEMMA DeliveriesType ==
    /\ IsFiniteSet(Deliveries)
    /\ \A d \in Deliveries : RuleOf(d) \in Rules
BY FS_Product, OutboxAssumption DEF Deliveries, RuleOf

SetsJob(w, d, j) == job' = [job EXCEPT ![w][d] = j]

\* What a new entry for one job does to the jobs.
LEMMA JobSet ==
    ASSUME TypeOK, NEW w \in Dispatchers, NEW d \in Deliveries, NEW j \in JobRecord,
           SetsJob(w, d, j)
    PROVE  /\ job' \in [Dispatchers -> [Deliveries -> JobRecord]]
           /\ job'[w][d] = j
           /\ \A v \in Dispatchers, e \in Deliveries : v # w \/ e # d => job'[v][e] = job[v][e]
BY DEF SetsJob, TypeOK, JobRecord

LEMMA RowSet ==
    ASSUME TypeOK, NEW d \in Deliveries, NEW new \in RowRecord,
           row' = [row EXCEPT ![d] = new]
    PROVE  /\ row' \in [Deliveries -> RowRecord]
           /\ row'[d] = new
           /\ \A e \in Deliveries : e # d => row'[e] = row[e]
BY DEF TypeOK, RowRecord

LEMMA DropType ==
    ASSUME TypeOK, NEW w \in Dispatchers, NEW d \in Deliveries, NEW sent \in BOOLEAN,
           Drop(w, d, sent)
    PROVE  /\ job' \in [Dispatchers -> [Deliveries -> JobRecord]]
           /\ left' \in [Dispatchers -> 0 .. Lease]
           /\ recent' \in [Dispatchers -> [Rules -> Nat \cup {Unknown}]]
           /\ reserved' \in [Dispatchers -> [Rules -> Nat]]
<1>1. NoJob \in JobRecord
  BY OutboxAssumption DEF NoJob, JobRecord, Jobs
<1>2. job' \in [Dispatchers -> [Deliveries -> JobRecord]]
  <2>1. SetsJob(w, d, NoJob)
    BY DEF Drop, SetsJob
  <2> QED BY <1>1, <2>1, JobSet
<1>3. left' \in [Dispatchers -> 0 .. Lease]
  BY OutboxAssumption DEF Drop, TypeOK
<1>4. recent' \in [Dispatchers -> [Rules -> Nat \cup {Unknown}]]
  BY DEF Drop, TypeOK, NoWindows
<1>5. reserved' \in [Dispatchers -> [Rules -> Nat]]
  <2>1. Released(w, RuleOf(d)) \in [Rules -> Nat]
    BY DeliveriesType DEF TypeOK, Released
  <2>2. reserved'[w] \in [Rules -> Nat]
    BY <2>1 DEF Drop, TypeOK, NoReservations
  <2> QED BY <2>2 DEF Drop, TypeOK
<1> QED BY <1>2, <1>3, <1>4, <1>5

LEMMA SettleType ==
    ASSUME TypeOK, NEW w \in Dispatchers, NEW d \in Deliveries, NEW new \in RowRecord,
           Settle(w, d, new)
    PROVE  row' \in [Deliveries -> RowRecord]
BY RowSet DEF Settle, TypeOK, RowRecord

\* TypeOK with its records named.
Types ==
    /\ recorded \subseteq Notifications /\ rules \subseteq Rules
    /\ row \in [Deliveries -> RowRecord]
    /\ begun \subseteq Dispatchers
    /\ left \in [Dispatchers -> 0 .. Lease]
    /\ job \in [Dispatchers -> [Deliveries -> JobRecord]]
    /\ recent \in [Dispatchers -> [Rules -> Nat \cup {Unknown}]]
    /\ reserved \in [Dispatchers -> [Rules -> Nat]]
    /\ tries \in [Deliveries -> Nat]
    /\ faults \in 0 .. MaxFaults

LEMMA RowEdits ==
    ASSUME NEW x \in RowRecord, NEW s \in Statuses, NEW a \in Nat, NEW u \in Nat,
           NEW f \in 0 .. Window, NEW b \in Dispatchers \cup {NoDispatcher}
    PROVE  /\ [x EXCEPT !.status = s, !.due = u] \in RowRecord
           /\ [x EXCEPT !.status = s, !.attempts = a, !.due = u] \in RowRecord
           /\ [x EXCEPT !.status = s, !.due = u, !.fresh = f, !.by = b] \in RowRecord
BY DEF RowRecord

LEMMA RowAges ==
    ASSUME NEW x \in RowRecord, NEW u \in Nat, NEW f \in 0 .. Window,
           NEW b \in Dispatchers \cup {NoDispatcher}
    PROVE  [x EXCEPT !.due = u, !.fresh = f, !.by = b] \in RowRecord
BY DEF RowRecord

LEMMA JobEdits ==
    ASSUME NEW x \in JobRecord, NEW p \in Jobs, NEW n \in Nat, NEW t \in 0 .. SendTimeout,
           NEW b \in BOOLEAN
    PROVE  /\ [x EXCEPT !.at = p, !.fence = n] \in JobRecord
           /\ [x EXCEPT !.at = p, !.reserved = b] \in JobRecord
           /\ [x EXCEPT !.at = p, !.timer = t] \in JobRecord
BY DEF JobRecord

LEMMA JobAges ==
    ASSUME NEW x \in JobRecord, NEW t \in 0 .. SendTimeout
    PROVE  [x EXCEPT !.timer = t] \in JobRecord
BY DEF JobRecord

LEMMA Bounds ==
    /\ {0, Lease} \subseteq Nat /\ 0 \in 0 .. Lease
    /\ {0, Window} \subseteq 0 .. Window /\ {0, SendTimeout} \subseteq 0 .. SendTimeout
    /\ Backoffs \subseteq Nat
    /\ NoJob \in JobRecord /\ NewRow \in RowRecord
BY OutboxAssumption DEF NoJob, JobRecord, Jobs, NewRow, NoRow, RowRecord, Statuses

\* No step changes the type of anything.
LEMMA TypeStep ==
    ASSUME TypeOK, [Next]_vars
    PROVE  TypeOK'
<1>u. Types
  BY DEF TypeOK, Types, RowRecord, JobRecord
<1>r. /\ \A d \in Deliveries : row[d] \in RowRecord
      /\ \A w \in Dispatchers, d \in Deliveries : job[w][d] \in JobRecord
  BY <1>u DEF Types
<1> SUFFICES Types'
  BY DEF TypeOK, Types, RowRecord, JobRecord
<1>1. ASSUME NEW n \in Notifications, project(n) PROVE Types'
  <2>1. row' \in [Deliveries -> RowRecord]
    BY <1>1, <1>r, Bounds DEF project
  <2> QED BY <1>1, <1>u, <2>1 DEF project, Types, workVars
<1>2. ASSUME NEW r \in Rules, delete_rule(r) PROVE Types'
  <2>1. "deleted" \in Statuses
    BY DEF Statuses
  <2>2. \A d \in Deliveries :
          [row[d] EXCEPT !.status = "deleted", !.due = 0, !.fresh = 0, !.by = NoDispatcher]
             \in RowRecord
    BY <1>r, <2>1, RowEdits, Bounds
  <2>3. row' \in [Deliveries -> RowRecord]
    BY <1>2, <1>r, <2>2 DEF delete_rule
  <2> QED BY <1>2, <1>u, <2>3 DEF delete_rule, Types, workVars
<1>3. ASSUME NEW w \in Dispatchers, run_once(w) PROVE Types'
  BY <1>3, <1>u, OutboxAssumption DEF run_once, Types
<1>4. ASSUME NEW w \in Dispatchers, claim_due(w) PROVE Types'
  <2>1. PICK B \in SUBSET Deliveries :
          /\ row' = [d \in Deliveries |->
                        IF d \in B
                        THEN [row[d] EXCEPT !.status = "claimed", !.attempts = NextAttempt(d), !.due = Lease]
                        ELSE row[d]]
          /\ job' = [job EXCEPT ![w] = [d \in Deliveries |->
                        IF d \in B
                        THEN [NoJob EXCEPT !.at = "gate", !.fence = NextAttempt(d)]
                        ELSE NoJob]]
          /\ left' = IF B = {} THEN [left EXCEPT ![w] = 0] ELSE left
    BY <1>4 DEF claim_due
  <2>2. "claimed" \in Statuses /\ "gate" \in Jobs
    BY DEF Statuses, Jobs
  <2>3. \A d \in Deliveries : NextAttempt(d) \in Nat
    BY <1>r DEF NextAttempt, RowRecord
  <2>4. \A d \in Deliveries :
          /\ [row[d] EXCEPT !.status = "claimed", !.attempts = NextAttempt(d), !.due = Lease]
                \in RowRecord
          /\ [NoJob EXCEPT !.at = "gate", !.fence = NextAttempt(d)] \in JobRecord
    BY <1>r, <2>2, <2>3, RowEdits, JobEdits, Bounds
  <2>5. row' \in [Deliveries -> RowRecord]
    BY <1>r, <2>1, <2>4
  <2>6. job' \in [Dispatchers -> [Deliveries -> JobRecord]]
    <3> DEFINE batch == [d \in Deliveries |->
                           IF d \in B
                           THEN [NoJob EXCEPT !.at = "gate", !.fence = NextAttempt(d)]
                           ELSE NoJob]
    <3>1. batch \in [Deliveries -> JobRecord]
      BY <2>4, Bounds
    <3>2. job' = [job EXCEPT ![w] = batch]
      BY <2>1
    <3> HIDE DEF batch
    <3> QED BY <1>u, <3>1, <3>2 DEF Types
  <2>7. left' \in [Dispatchers -> 0 .. Lease]
    BY <1>u, <2>1, Bounds DEF Types
  <2> QED BY <1>4, <1>u, <2>5, <2>6, <2>7 DEF claim_due, Types
<1>5. ASSUME NEW w \in Dispatchers, NEW d \in Deliveries, reserve(w, d) PROVE Types'
  <2>1. Counted(w, RuleOf(d)) \in Nat
    <3>1. recent[w][RuleOf(d)] \in Nat \cup {Unknown}
      BY <1>u, DeliveriesType DEF Types
    <3>2. Cardinality({e \in Deliveries : RuleOf(e) = RuleOf(d) /\ row[e].status = "delivered"
                                            /\ row[e].fresh > 0}) \in Nat
      BY DeliveriesType, FS_Subset, FS_CardinalityType
    <3> QED BY <3>1, <3>2 DEF Counted
  <2>2. job' \in [Dispatchers -> [Deliveries -> JobRecord]]
    <3> DEFINE j == [job[w][d] EXCEPT !.at = IF HasRoom(w, RuleOf(d)) THEN "slot" ELSE "suppress",
                                      !.reserved = HasRoom(w, RuleOf(d))]
    <3>1. {"slot", "suppress"} \subseteq Jobs /\ HasRoom(w, RuleOf(d)) \in BOOLEAN
      BY DEF Jobs, HasRoom
    <3>2. j \in JobRecord
      BY <1>r, <3>1, JobEdits, Bounds
    <3>3. SetsJob(w, d, j)
      BY <1>5, <1>u DEF reserve, Types, JobRecord, SetsJob
    <3> HIDE DEF j
    <3> QED BY <3>2, <3>3, JobSet
  <2>3. recent' \in [Dispatchers -> [Rules -> Nat \cup {Unknown}]]
    BY <1>5, <1>u, <2>1, DeliveriesType DEF reserve, Types
  <2>4. reserved' \in [Dispatchers -> [Rules -> Nat]]
    BY <1>5, <1>u, DeliveriesType DEF reserve, Types
  <2> QED BY <1>5, <1>u, <2>2, <2>3, <2>4 DEF reserve, Types
<1>6. ASSUME NEW w \in Dispatchers, NEW d \in Deliveries, StartSend(w, d) PROVE Types'
  <2>1. "send" \in Jobs
    BY DEF Jobs
  <2>2. [job[w][d] EXCEPT !.at = "send", !.timer = SendTimeout] \in JobRecord
    BY <1>r, <2>1, JobEdits, Bounds
  <2>3. SetsJob(w, d, [job[w][d] EXCEPT !.at = "send", !.timer = SendTimeout])
    BY <1>6, <1>u DEF StartSend, Types, SetsJob
  <2>4. job' \in [Dispatchers -> [Deliveries -> JobRecord]]
    BY <2>2, <2>3, JobSet
  <2> QED BY <1>6, <1>u, <2>4 DEF StartSend, Types
<1>7. ASSUME NEW w \in Dispatchers, NEW d \in Deliveries,
             SendSucceeds(w, d) \/ SendFails(w, d)
      PROVE  Types'
  <2>1. PICK at \in Jobs : job' = [job EXCEPT ![w][d].at = at, ![w][d].timer = 0]
    BY <1>7 DEF SendSucceeds, SendFails, Jobs
  <2>2. [job[w][d] EXCEPT !.at = at, !.timer = 0] \in JobRecord
    BY <1>r, JobEdits, Bounds
  <2>3. SetsJob(w, d, [job[w][d] EXCEPT !.at = at, !.timer = 0])
    BY <2>1, <1>u DEF Types, SetsJob
  <2>4. job' \in [Dispatchers -> [Deliveries -> JobRecord]]
    BY <2>2, <2>3, JobSet
  <2> QED BY <1>7, <1>u, <2>4 DEF SendSucceeds, SendFails, Types
<1>8. ASSUME NEW w \in Dispatchers, NEW d \in Deliveries,
             mark_delivered(w, d) \/ mark_failed(w, d) \/ mark_suppressed(w, d)
               \/ SkipSend(w, d) \/ SettleFails(w, d)
      PROVE  Types'
  <2>1. PICK sent \in BOOLEAN : Drop(w, d, sent)
    BY <1>8 DEF mark_delivered, mark_failed, mark_suppressed, SkipSend, SettleFails
  <2>2. row' = row \/ \E new \in RowRecord : Settle(w, d, new)
    <3>1. {"delivered", "failed", "dead", "suppressed"} \subseteq Statuses
      BY DEF Statuses
    <3>2. /\ \A b \in {w, NoDispatcher} :
                [row[d] EXCEPT !.status = "delivered", !.due = 0, !.fresh = Window, !.by = b]
                   \in RowRecord
          /\ \A delay \in Backoffs : [row[d] EXCEPT !.status = "failed", !.due = delay] \in RowRecord
          /\ [row[d] EXCEPT !.status = "dead", !.due = 0] \in RowRecord
          /\ [row[d] EXCEPT !.status = "suppressed", !.due = 0] \in RowRecord
      BY <1>r, <3>1, RowEdits, Bounds
    <3> QED BY <1>8, <3>2 DEF mark_delivered, mark_failed, mark_suppressed, SkipSend, SettleFails
  <2>3. row' \in [Deliveries -> RowRecord]
    BY <1>u, <2>2, SettleType DEF Types
  <2>4. UNCHANGED faults \/ Fault
    BY <1>8 DEF mark_delivered, mark_failed, mark_suppressed, SkipSend, SettleFails
  <2>5. faults' \in 0 .. MaxFaults
    BY <2>4, <1>u, OutboxAssumption DEF Fault, Types
  <2> QED BY <1>u, <2>1, <2>3, <2>5, DropType DEF Drop, Types
<1>9. ASSUME NEW w \in Dispatchers, Crash(w) PROVE Types'
  <2>1. /\ NoWindows \in [Rules -> Nat \cup {Unknown}]
        /\ NoReservations \in [Rules -> Nat]
    BY DEF NoWindows, NoReservations
  <2>2. [d \in Deliveries |-> NoJob] \in [Deliveries -> JobRecord]
    BY Bounds
  <2> QED BY <1>9, <1>u, <2>1, <2>2, OutboxAssumption DEF Crash, Fault, Types
<1>10. ASSUME Tick PROVE Types'
  <2>1. ASSUME NEW d \in Deliveries PROVE row'[d] \in RowRecord
    <3> DEFINE u == IF row[d].due > 0 THEN row[d].due - 1 ELSE 0
               f == IF row[d].fresh > 0 THEN row[d].fresh - 1 ELSE 0
               b == IF row[d].fresh > 1 THEN row[d].by ELSE NoDispatcher
    <3>1. u \in Nat /\ f \in 0 .. Window /\ b \in Dispatchers \cup {NoDispatcher}
      BY <1>r, OutboxAssumption DEF RowRecord
    <3>2. row'[d] = [row[d] EXCEPT !.due = u, !.fresh = f, !.by = b]
      BY <1>10 DEF Tick
    <3> HIDE DEF u, f, b
    <3>3. row[d] \in RowRecord
      BY <1>r
    <3>4. [row[d] EXCEPT !.due = u, !.fresh = f, !.by = b] \in RowRecord
      BY <3>1, <3>3, RowAges
    <3> QED BY <3>2, <3>4
  <2>2. row' \in [Deliveries -> RowRecord]
    BY <1>10, <2>1 DEF Tick
  <2>3. ASSUME NEW w \in Dispatchers, NEW d \in Deliveries, Sending(w, d)
        PROVE  [job[w][d] EXCEPT !.timer = job[w][d].timer - 1] \in JobRecord
    <3>1. job[w][d].timer \in 0 .. SendTimeout /\ job[w][d].timer > 1
      BY <1>10, <1>r, <2>3 DEF Tick, JobRecord
    <3>2. job[w][d].timer - 1 \in 0 .. SendTimeout
      BY <3>1, OutboxAssumption
    <3> QED BY <1>r, <3>2, JobAges
  <2>4. job' \in [Dispatchers -> [Deliveries -> JobRecord]]
    BY <1>10, <1>r, <2>3 DEF Tick
  <2>5. UNCHANGED faults \/ Fault
    BY <1>10 DEF Tick
  <2>6. faults' \in 0 .. MaxFaults
    BY <2>5, <1>u, OutboxAssumption DEF Fault, Types
  <2>7. left' \in [Dispatchers -> 0 .. Lease]
    <3>1. \A w \in Dispatchers : (IF left[w] > 0 THEN left[w] - 1 ELSE 0) \in 0 .. Lease
      BY <1>u, OutboxAssumption DEF Types
    <3> QED BY <1>10, <3>1 DEF Tick
  <2> QED BY <1>10, <1>u, <2>2, <2>4, <2>6, <2>7 DEF Tick, Types
<1>11. CASE UNCHANGED vars
  BY <1>11, <1>u DEF vars, workVars, Types
<1> QED
  BY <1>1, <1>2, <1>3, <1>4, <1>5, <1>6, <1>7, <1>8, <1>9, <1>10, <1>11
     DEF Next, Poll, Work

-------------------------------------------------------------------------------
(* Claims.                                                                 *)

Live(w, d) == job[w][d].at # "none"
Leased(w, d) == Live(w, d) /\ left[w] > 0

\* What a dispatcher may rely on while it works on a delivery.
ClaimOK(w, d) ==
    /\ Live(w, d) => job[w][d].fence \in 1 .. row[d].attempts
    /\ Leased(w, d) =>
          /\ row[d].attempts = job[w][d].fence
          /\ row[d].status \in {"claimed", "deleted"}
          /\ row[d].status = "claimed" => left[w] <= row[d].due
    /\ Sending(w, d) => 1 <= job[w][d].timer /\ job[w][d].timer <= left[w]
    /\ job[w][d].at \in {"slot", "send"} => job[w][d].fence <= MaxAttempts
    /\ Leased(w, d) /\ job[w][d].at \in {"gate", "slot"} => tries[d] < job[w][d].fence

\* No two dispatchers have the same claim.
FencesApart ==
    \A v, w \in Dispatchers, d \in Deliveries :
        Live(v, d) /\ Live(w, d) /\ job[v][d].fence = job[w][d].fence => v = w

SendsLimited == \A d \in Deliveries : tries[d] <= row[d].attempts /\ tries[d] <= MaxAttempts

NotYetScheduled == \A d \in Deliveries : d[1] \notin recorded => row[d] = NoRow

ClaimsOK ==
    /\ \A w \in Dispatchers, d \in Deliveries : ClaimOK(w, d)
    /\ FencesApart /\ SendsLimited /\ NotYetScheduled

\* What the end of a job leaves of the claims: its own row alone is written, if the job
\* holds it, and no one else's lease or job changes.
LEMMA DropStep ==
    ASSUME TypeOK, TypeOK', ClaimsOK,
           NEW w \in Dispatchers, NEW d \in Deliveries, NEW sent \in BOOLEAN,
           Drop(w, d, sent), Live(w, d),
           \A e \in Deliveries : e # d => row'[e] = row[e],
           row'[d].attempts = row[d].attempts,
           row'[d] = row[d] \/ Holds(w, d)
    PROVE  ClaimsOK'
<1>1. /\ job'[w][d] = NoJob
      /\ \A v \in Dispatchers, e \in Deliveries : v # w \/ e # d => job'[v][e] = job[v][e]
  <2>1. NoJob \in JobRecord /\ SetsJob(w, d, NoJob)
    BY Bounds DEF Drop, SetsJob
  <2> QED BY <2>1, JobSet
<1>2. /\ recorded' = recorded /\ tries' = tries
      /\ \A v \in Dispatchers : v # w => left'[v] = left[v]
      /\ \/ left'[w] = left[w]
         \/ left'[w] = 0 /\ \A e \in Deliveries : e # d => ~Live(w, e)
  <2>1. left \in [Dispatchers -> 0 .. Lease]
    BY DEF TypeOK
  <2>2. ASSUME \A e \in Deliveries \ {d} : job[w][e] = NoJob
        PROVE  \A e \in Deliveries : e # d => ~Live(w, e)
    BY <2>2 DEF Live, NoJob
  <2> QED BY <2>1, <2>2 DEF Drop
<1>3. \A v \in Dispatchers : left[v] \in Nat /\ left'[v] \in Nat
  BY OutboxAssumption DEF TypeOK
<1>4. ASSUME NEW v \in Dispatchers, NEW e \in Deliveries PROVE ClaimOK(v, e)'
  <2>1. CASE v = w /\ e = d
    BY <1>1, <2>1 DEF ClaimOK, Live, Leased, Sending, NoJob
  <2>2. CASE e # d
    <3>1. row'[e] = row[e] /\ job'[v][e] = job[v][e] /\ tries'[e] = tries[e]
      BY <1>1, <1>2, <2>2
    <3>2. left'[v] = left[v] \/ (left'[v] = 0 /\ ~Live(v, e))
      <4>1. CASE v = w
        BY <1>2, <2>2, <4>1
      <4>2. CASE v # w
        BY <1>2, <4>2
      <4> QED BY <4>1, <4>2
    <3> QED BY <3>1, <3>2, <1>3 DEF ClaimsOK, ClaimOK, Live, Leased, Sending
  <2>3. CASE e = d /\ v # w
    <3>1. job'[v][e] = job[v][e] /\ tries'[e] = tries[e] /\ left'[v] = left[v]
          /\ row'[e].attempts = row[e].attempts
      BY <1>1, <1>2, <2>3
    <3>2. CASE row'[e] = row[e]
      BY <3>1, <3>2 DEF ClaimsOK, ClaimOK, Live, Leased, Sending
    <3>3. CASE Holds(w, d)
      <4>1. ~Leased(v, e)
        BY <2>3, <3>3 DEF ClaimsOK, ClaimOK, FencesApart, Holds, Leased
      <4>2. ~Sending(v, e)
        BY <4>1, <1>3, Bounds DEF ClaimsOK, ClaimOK, Leased, Sending, Live, TypeOK
      <4> QED BY <3>1, <4>1, <4>2 DEF ClaimsOK, ClaimOK, Live, Leased, Sending
    <3> QED BY <2>3, <3>2, <3>3
  <2> QED BY <2>1, <2>2, <2>3
<1>5. FencesApart'
  <2>1. ASSUME NEW v \in Dispatchers, NEW e \in Deliveries, Live(v, e)'
        PROVE  Live(v, e) /\ job'[v][e] = job[v][e]
    BY <1>1, <2>1 DEF Live, NoJob
  <2> QED BY <2>1 DEF ClaimsOK, FencesApart
<1>6. SendsLimited'
  BY <1>2 DEF ClaimsOK, SendsLimited
<1>7. NotYetScheduled'
  <2>1. ASSUME NEW e \in Deliveries, e[1] \notin recorded' PROVE row'[e] = NoRow
    <3>1. row[e] = NoRow
      BY <1>2, <2>1 DEF ClaimsOK, NotYetScheduled
    <3>2. e = d => ~Holds(w, d)
      BY <3>1 DEF Holds, NoRow
    <3> QED BY <3>1, <3>2
  <2> QED BY <2>1 DEF NotYetScheduled
<1> QED BY <1>4, <1>5, <1>6, <1>7 DEF ClaimsOK

LEMMA ClaimsInit == Init => TypeOK /\ ClaimsOK
<1> SUFFICES ASSUME Init PROVE TypeOK /\ ClaimsOK
  OBVIOUS
<1>1. TypeOK
  <2>1. NoRow \in RowRecord
    BY OutboxAssumption DEF NoRow, RowRecord, Statuses
  <2>2. Types
    BY <2>1, Bounds, OutboxAssumption DEF Init, Types, NoWindows, NoReservations
  <2> QED BY <2>2 DEF TypeOK, Types, RowRecord, JobRecord
<1>2. ClaimsOK
  <2>1. \A w \in Dispatchers, d \in Deliveries : job[w][d].at = "none"
    BY DEF Init, NoJob
  <2>2. \A w \in Dispatchers, d \in Deliveries : ClaimOK(w, d)
    BY <2>1 DEF ClaimOK, Live, Leased, Sending
  <2>3. FencesApart
    BY <2>1 DEF FencesApart, Live
  <2>4. SendsLimited /\ NotYetScheduled
    BY OutboxAssumption DEF Init, SendsLimited, NotYetScheduled, NoRow
  <2> QED BY <2>2, <2>3, <2>4 DEF ClaimsOK
<1> QED BY <1>1, <1>2

\* A step that leaves the jobs, the leases and the sends alone keeps the claims if a row
\* that is claimed keeps its claim or is deleted.
LEMMA RowsMove ==
    ASSUME TypeOK, ClaimsOK, UNCHANGED <<job, left, tries>>,
           \A d \in Deliveries :
              /\ row'[d].attempts = row[d].attempts
              /\ row[d].status \in {"claimed", "deleted"} =>
                    row'[d] = row[d] \/ row'[d].status = "deleted"
              /\ d[1] \notin recorded' => row'[d] = NoRow
    PROVE  ClaimsOK'
<1>1. \A w \in Dispatchers, d \in Deliveries : ClaimOK(w, d)'
  BY DEF ClaimsOK, ClaimOK, Live, Leased, Sending
<1>2. FencesApart' /\ SendsLimited' /\ NotYetScheduled'
  BY DEF ClaimsOK, FencesApart, SendsLimited, NotYetScheduled, Live
<1> QED BY <1>1, <1>2 DEF ClaimsOK

\* So does a step of one job that is not a send, and keeps the job's fence.
LEMMA JobMoves ==
    ASSUME TypeOK, ClaimsOK, NEW w \in Dispatchers, NEW d \in Deliveries, NEW j \in JobRecord,
           UNCHANGED <<recorded, row, left>>, SetsJob(w, d, j),
           Live(w, d), j.fence = job[w][d].fence,
           j.at \notin {"none", "gate", "send"},
           j.at = "slot" => job[w][d].at = "gate" /\ j.fence <= MaxAttempts,
           UNCHANGED tries
    PROVE  ClaimsOK'
<1>1. /\ job'[w][d] = j
      /\ \A v \in Dispatchers, e \in Deliveries : v # w \/ e # d => job'[v][e] = job[v][e]
  <2>1. SetsJob(w, d, j) /\ TypeOK
    OBVIOUS
  <2> QED BY ONLY <2>1, JobSet
<1>2. ASSUME NEW v \in Dispatchers, NEW e \in Deliveries PROVE ClaimOK(v, e)'
  <2>1. CASE v = w /\ e = d
    BY <1>1, <2>1 DEF ClaimsOK, ClaimOK, Live, Leased, Sending
  <2>2. CASE v # w \/ e # d
    BY <1>1, <2>2 DEF ClaimsOK, ClaimOK, Live, Leased, Sending
  <2> QED BY <2>1, <2>2
<1>3. FencesApart'
  <2>1. ASSUME NEW v \in Dispatchers, NEW e \in Deliveries, Live(v, e)'
        PROVE  Live(v, e) /\ job'[v][e].fence = job[v][e].fence
    BY <1>1, <2>1 DEF Live
  <2> QED BY <2>1 DEF ClaimsOK, FencesApart
<1>4. SendsLimited' /\ NotYetScheduled'
  BY DEF ClaimsOK, SendsLimited, NotYetScheduled
<1> QED BY <1>2, <1>3, <1>4 DEF ClaimsOK

\* The claim of a batch: its fences are new, and no one with a lease works on its rows.
LEMMA ClaimStep ==
    ASSUME TypeOK, TypeOK', ClaimsOK, NEW w \in Dispatchers, claim_due(w)
    PROVE  ClaimsOK'
<1>0. /\ \A d \in Deliveries : row[d] \in RowRecord
      /\ \A v \in Dispatchers, d \in Deliveries : job[v][d] \in JobRecord
      /\ \A v \in Dispatchers : left[v] \in 0 .. Lease
      /\ \A d \in Deliveries : tries[d] \in Nat
      /\ Lease \in Nat
  BY OutboxAssumption DEF TypeOK, RowRecord, JobRecord
<1>1. PICK B \in SUBSET {d \in Deliveries : Claimable(d)} :
        /\ row' = [d \in Deliveries |->
                      IF d \in B
                      THEN [row[d] EXCEPT !.status = "claimed", !.attempts = NextAttempt(d), !.due = Lease]
                      ELSE row[d]]
        /\ job' = [job EXCEPT ![w] = [d \in Deliveries |->
                      IF d \in B
                      THEN [NoJob EXCEPT !.at = "gate", !.fence = NextAttempt(d)]
                      ELSE NoJob]]
        /\ left' = IF B = {} THEN [left EXCEPT ![w] = 0] ELSE left
  BY DEF claim_due
<1>2. /\ tries' = tries /\ recorded' = recorded
      /\ \A v \in Dispatchers : left'[v] = left[v] \/ (left'[v] = 0 /\ B = {} /\ v = w)
  BY <1>1 DEF claim_due, TypeOK
<1>3. \A d \in Deliveries :
        IF d \in B
        THEN /\ row'[d].status = "claimed" /\ row'[d].due = Lease
             /\ row'[d].attempts = row[d].attempts + 1
             /\ job'[w][d].at = "gate" /\ job'[w][d].fence = row[d].attempts + 1
        ELSE row'[d] = row[d] /\ job'[w][d].at = "none"
  <2>1. ASSUME NEW d \in Deliveries
        PROVE  /\ row'[d] = IF d \in B
                            THEN [row[d] EXCEPT !.status = "claimed", !.attempts = NextAttempt(d), !.due = Lease]
                            ELSE row[d]
               /\ job'[w][d] = IF d \in B
                               THEN [NoJob EXCEPT !.at = "gate", !.fence = NextAttempt(d)]
                               ELSE NoJob
    BY <1>1 DEF TypeOK
  <2>2. ASSUME NEW d \in Deliveries, d \in B
        PROVE  /\ row'[d].status = "claimed" /\ row'[d].due = Lease
               /\ row'[d].attempts = row[d].attempts + 1
    BY <1>0, <2>1, <2>2 DEF NextAttempt, RowRecord
  <2>3. ASSUME NEW d \in Deliveries, d \in B
        PROVE  job'[w][d].at = "gate" /\ job'[w][d].fence = row[d].attempts + 1
    BY <2>1, <2>3 DEF NextAttempt, NoJob
  <2>4. ASSUME NEW d \in Deliveries, d \notin B
        PROVE  row'[d] = row[d] /\ job'[w][d].at = "none"
    <3>1. row'[d] = row[d] /\ job'[w][d] = NoJob
      BY <2>1, <2>4, Zenon
    <3> QED BY <3>1 DEF NoJob
  <2> QED BY <2>2, <2>3, <2>4
<1>4. \A v \in Dispatchers, d \in Deliveries : v # w => job'[v][d] = job[v][d]
  BY <1>1 DEF TypeOK
<1>5. ASSUME NEW v \in Dispatchers, NEW d \in B PROVE ~Leased(v, d) /\ ~Sending(v, d)
  <2>1. d \in Deliveries /\ row[d].status # "deleted" /\ row[d].due = 0
    BY <1>1 DEF Claimable
  <2>2. ClaimOK(v, d) /\ left[v] \in Nat /\ job[v][d].timer \in Nat
    BY <1>0, <2>1, OutboxAssumption DEF ClaimsOK, JobRecord
  <2>3. ~Leased(v, d)
    BY <2>1, <2>2 DEF ClaimOK, Leased
  <2>4. ~Sending(v, d)
    BY <2>2, <2>3 DEF ClaimOK, Sending, Leased, Live
  <2> QED BY <2>3, <2>4
<1>6. ASSUME NEW v \in Dispatchers, NEW d \in Deliveries PROVE ClaimOK(v, d)'
  <2>1. CASE v = w /\ d \in B
    <3>1. left'[w] = left[w] /\ tries[d] <= row[d].attempts /\ row[d].attempts \in Nat
      BY <1>0, <1>2, <2>1 DEF ClaimsOK, SendsLimited, RowRecord
    <3> QED BY <1>0, <1>2, <1>3, <2>1, <3>1 DEF ClaimOK, Live, Leased, Sending
  <2>2. CASE v = w /\ d \notin B
    BY <1>3, <2>2 DEF ClaimOK, Live, Leased, Sending
  <2>3. CASE v # w /\ d \in B
    <3>1. left'[v] = left[v] /\ job'[v][d] = job[v][d] /\ row[d].attempts \in Nat
      BY <1>0, <1>2, <1>4, <2>3 DEF RowRecord
    <3> QED BY <1>0, <1>3, <1>5, <2>3, <3>1 DEF ClaimsOK, ClaimOK, Live, Leased, Sending, JobRecord
  <2>4. CASE v # w /\ d \notin B
    <3>1. left'[v] = left[v] /\ job'[v][d] = job[v][d] /\ row'[d] = row[d]
      BY <1>2, <1>3, <1>4, <2>4
    <3> QED BY <1>2, <3>1 DEF ClaimsOK, ClaimOK, Live, Leased, Sending
  <2> QED BY <2>1, <2>2, <2>3, <2>4
<1>7. FencesApart'
  <2>1. ASSUME NEW v \in Dispatchers, NEW d \in Deliveries, Live(v, d)', v # w
        PROVE  /\ Live(v, d) /\ job'[v][d].fence = job[v][d].fence
               /\ job[v][d].fence # row[d].attempts + 1
    BY <1>0, <1>4, <2>1 DEF ClaimsOK, ClaimOK, Live, RowRecord, JobRecord
  <2>2. ASSUME NEW d \in Deliveries, Live(w, d)' PROVE job'[w][d].fence = row[d].attempts + 1
    BY <1>3, <2>2 DEF Live
  <2> QED BY <2>1, <2>2 DEF ClaimsOK, FencesApart
<1>8. SendsLimited' /\ NotYetScheduled'
  <2>1. \A d \in B : row[d].status # "none"
    BY <1>1 DEF Claimable
  <2>2. \A d \in B : row[d] # NoRow
    BY <2>1 DEF NoRow
  <2> QED BY <1>0, <1>2, <1>3, <2>2 DEF ClaimsOK, SendsLimited, NotYetScheduled, RowRecord
<1> QED BY <1>6, <1>7, <1>8 DEF ClaimsOK

LEMMA SendStep ==
    ASSUME TypeOK, TypeOK', ClaimsOK, NEW w \in Dispatchers, NEW d \in Deliveries, StartSend(w, d)
    PROVE  ClaimsOK'
<1>0. /\ \A e \in Deliveries : row[e] \in RowRecord /\ tries[e] \in Nat
      /\ \A v \in Dispatchers, e \in Deliveries : job[v][e] \in JobRecord
      /\ \A v \in Dispatchers : left[v] \in 0 .. Lease
      /\ SendTimeout \in Nat \ {0} /\ MaxAttempts \in Nat
  BY OutboxAssumption DEF TypeOK, RowRecord, JobRecord
<1>1. /\ job'[w][d] = [job[w][d] EXCEPT !.at = "send", !.timer = SendTimeout]
      /\ \A v \in Dispatchers, e \in Deliveries : v # w \/ e # d => job'[v][e] = job[v][e]
      /\ tries'[d] = tries[d] + 1
      /\ \A e \in Deliveries : e # d => tries'[e] = tries[e]
      /\ row' = row /\ left' = left /\ recorded' = recorded
  BY DEF StartSend, TypeOK
<1>2. /\ job'[w][d].at = "send" /\ job'[w][d].timer = SendTimeout
      /\ job'[w][d].fence = job[w][d].fence
  BY <1>0, <1>1 DEF JobRecord
<1>3. /\ Leased(w, d) /\ tries[d] < job[w][d].fence /\ job[w][d].fence <= MaxAttempts
      /\ job[w][d].fence = row[d].attempts /\ SendTimeout <= left[w]
  BY <1>0 DEF StartSend, EnoughLease, Leased, Live, ClaimsOK, ClaimOK
<1>4. ASSUME NEW v \in Dispatchers, NEW e \in Deliveries PROVE ClaimOK(v, e)'
  <2>1. CASE v = w /\ e = d
    <3>1. /\ job[w][d].fence \in 1 .. row[d].attempts
          /\ row[d].status \in {"claimed", "deleted"}
          /\ row[d].status = "claimed" => left[w] <= row[d].due
      BY <1>3 DEF ClaimsOK, ClaimOK, Leased
    <3>2. row'[d] = row[d] /\ left'[w] = left[w]
      BY <1>1
    <3> QED BY <1>0, <1>2, <1>3, <2>1, <3>1, <3>2 DEF ClaimOK, Live, Leased, Sending
  <2>2. CASE v # w /\ e = d
    <3>1. ~Leased(v, e)
      BY <1>3, <2>2 DEF ClaimsOK, ClaimOK, FencesApart, Leased
    <3> QED BY <1>1, <2>2, <3>1 DEF ClaimsOK, ClaimOK, Live, Leased, Sending
  <2>3. CASE e # d
    BY <1>1, <2>3 DEF ClaimsOK, ClaimOK, Live, Leased, Sending
  <2> QED BY <2>1, <2>2, <2>3
<1>5. FencesApart'
  <2>1. ASSUME NEW v \in Dispatchers, NEW e \in Deliveries, Live(v, e)'
        PROVE  Live(v, e) /\ job'[v][e].fence = job[v][e].fence
    BY <1>1, <1>2, <1>3, <2>1 DEF Live, Leased
  <2> QED BY <2>1 DEF ClaimsOK, FencesApart
<1>6. SendsLimited'
  BY <1>0, <1>1, <1>3 DEF ClaimsOK, SendsLimited, JobRecord, RowRecord
<1>7. NotYetScheduled'
  BY <1>1 DEF ClaimsOK, NotYetScheduled
<1> QED BY <1>4, <1>5, <1>6, <1>7 DEF ClaimsOK

\* Time runs alike for a lease, for what its holder believes of it, and for the sends.
LEMMA TickStep ==
    ASSUME TypeOK, TypeOK', ClaimsOK, Tick
    PROVE  ClaimsOK'
<1>0. /\ \A e \in Deliveries : row[e] \in RowRecord
      /\ \A v \in Dispatchers, e \in Deliveries : job[v][e] \in JobRecord
      /\ \A v \in Dispatchers : left[v] \in Nat
  BY OutboxAssumption DEF TypeOK, RowRecord, JobRecord
<1>1. \A e \in Deliveries :
        /\ row'[e].status = row[e].status /\ row'[e].attempts = row[e].attempts
        /\ row'[e].due = IF row[e].due > 0 THEN row[e].due - 1 ELSE 0
  BY <1>0 DEF Tick, RowRecord
<1>2. \A v \in Dispatchers, e \in Deliveries :
        /\ job'[v][e].at = job[v][e].at /\ job'[v][e].fence = job[v][e].fence
        /\ Sending(v, e) => job'[v][e].timer = job[v][e].timer - 1 /\ job[v][e].timer > 1
  BY <1>0 DEF Tick, JobRecord
<1>3. \A v \in Dispatchers : left'[v] = IF left[v] > 0 THEN left[v] - 1 ELSE 0
  BY DEF Tick
<1>4. tries' = tries /\ recorded' = recorded
  BY DEF Tick
<1>5. ASSUME NEW v \in Dispatchers, NEW e \in Deliveries PROVE ClaimOK(v, e)'
  <2>1. ClaimOK(v, e) /\ left[v] \in Nat /\ row[e].due \in Nat /\ job[v][e].timer \in Nat
    BY <1>0, OutboxAssumption DEF ClaimsOK, RowRecord, JobRecord
  <2>2. /\ row'[e].status = row[e].status /\ row'[e].attempts = row[e].attempts
        /\ row'[e].due = IF row[e].due > 0 THEN row[e].due - 1 ELSE 0
        /\ job'[v][e].at = job[v][e].at /\ job'[v][e].fence = job[v][e].fence
        /\ left'[v] = IF left[v] > 0 THEN left[v] - 1 ELSE 0
        /\ tries'[e] = tries[e]
    BY <1>1, <1>2, <1>3, <1>4
  <2>3. Sending(v, e)' => 1 <= job'[v][e].timer /\ job'[v][e].timer <= left'[v]
    BY <1>2, <2>1, <2>2 DEF ClaimOK, Sending
  <2> QED BY <2>1, <2>2, <2>3 DEF ClaimOK, Live, Leased, Sending
<1>6. FencesApart' /\ SendsLimited'
  BY <1>1, <1>2, <1>4 DEF ClaimsOK, FencesApart, SendsLimited, Live
<1>7. NotYetScheduled'
  <2>1. ASSUME NEW e \in Deliveries, row[e] = NoRow PROVE row'[e] = NoRow
    <3>1. row'[e] = [row[e] EXCEPT !.due = IF row[e].due > 0 THEN row[e].due - 1 ELSE 0,
                                   !.fresh = IF row[e].fresh > 0 THEN row[e].fresh - 1 ELSE 0,
                                   !.by = IF row[e].fresh > 1 THEN row[e].by ELSE NoDispatcher]
      BY DEF Tick
    <3>2. row[e].due = 0 /\ row[e].fresh = 0
      BY <2>1 DEF NoRow
    <3>3. row'[e] = [NoRow EXCEPT !.due = 0, !.fresh = 0, !.by = NoDispatcher]
      BY <2>1, <3>1, <3>2
    <3> QED BY <3>3 DEF NoRow
  <2> QED BY <1>4, <2>1 DEF ClaimsOK, NotYetScheduled
<1> QED BY <1>5, <1>6, <1>7 DEF ClaimsOK

LEMMA ClaimsStep ==
    ASSUME TypeOK, ClaimsOK, [Next]_vars
    PROVE  ClaimsOK'
<1>0. /\ TypeOK'
      /\ \A e \in Deliveries : row[e] \in RowRecord
      /\ \A v \in Dispatchers, e \in Deliveries : job[v][e] \in JobRecord
  BY TypeStep DEF TypeOK, RowRecord, JobRecord
<1>1. ASSUME NEW n \in Notifications, project(n) PROVE ClaimsOK'
  <2>1. UNCHANGED <<job, left, tries>>
    BY <1>1 DEF project, workVars
  <2>2. ASSUME NEW d \in Deliveries
        PROVE  /\ row'[d] = row[d] \/ (row[d] = NoRow /\ row'[d] = NewRow)
               /\ d[1] \notin recorded' => row'[d] = NoRow
    BY <1>1, <2>2 DEF project, ClaimsOK, NotYetScheduled
  <2> QED BY <2>1, <2>2, RowsMove DEF NoRow, NewRow
<1>2. ASSUME NEW r \in Rules, delete_rule(r) PROVE ClaimsOK'
  <2>1. UNCHANGED <<job, left, tries, recorded>>
    BY <1>2 DEF delete_rule, workVars
  <2>2. ASSUME NEW d \in Deliveries
        PROVE  /\ row'[d].attempts = row[d].attempts
               /\ row'[d] = row[d] \/ (row'[d].status = "deleted" /\ row[d].status # "none")
    BY <1>0, <1>2, <2>2 DEF delete_rule, RowRecord
  <2>3. \A d \in Deliveries : d[1] \notin recorded' => row'[d] = NoRow
    BY <2>1, <2>2 DEF ClaimsOK, NotYetScheduled, NoRow
  <2> QED BY <2>1, <2>2, <2>3, RowsMove
<1>3. ASSUME NEW w \in Dispatchers, run_once(w) PROVE ClaimsOK'
  <2>1. /\ UNCHANGED <<row, job, tries, recorded>>
        /\ \A v \in Dispatchers : left'[v] = left[v] \/ \A d \in Deliveries : ~Live(v, d)
    <3>1. \A d \in Deliveries : ~Live(w, d)
      BY <1>3 DEF run_once, Idle, Live, NoJob
    <3> QED BY <1>3, <3>1 DEF run_once, TypeOK
  <2>2. \A v \in Dispatchers, d \in Deliveries : ClaimOK(v, d)'
    BY <2>1 DEF ClaimsOK, ClaimOK, Live, Leased, Sending
  <2> QED BY <2>1, <2>2 DEF ClaimsOK, FencesApart, SendsLimited, NotYetScheduled, Live
<1>4. ASSUME NEW w \in Dispatchers, claim_due(w) PROVE ClaimsOK'
  BY <1>0, <1>4, ClaimStep
<1>5. ASSUME NEW w \in Dispatchers, NEW d \in Deliveries, reserve(w, d) PROVE ClaimsOK'
  <2> DEFINE at == IF HasRoom(w, RuleOf(d)) THEN "slot" ELSE "suppress"
             j == [job[w][d] EXCEPT !.at = at, !.reserved = HasRoom(w, RuleOf(d))]
  <2>1. at \in {"slot", "suppress"} /\ at \in Jobs /\ HasRoom(w, RuleOf(d)) \in BOOLEAN
    BY DEF Jobs, HasRoom
  <2>2. SetsJob(w, d, j)
    BY <1>5 DEF reserve, TypeOK, SetsJob
  <2>3. UNCHANGED <<recorded, row, left>> /\ UNCHANGED tries
    BY <1>5 DEF reserve
  <2>4. job[w][d].at = "gate" /\ job[w][d].fence <= MaxAttempts
    BY <1>5 DEF reserve, AtGate
  <2> HIDE DEF at
  <2>5. j \in JobRecord /\ j.at = at /\ j.fence = job[w][d].fence
    <3>1. job[w][d] \in JobRecord
      BY <1>0
    <3>2. j \in JobRecord
      BY <2>1, <3>1, JobEdits, Bounds
    <3>3. j.at = at /\ j.fence = job[w][d].fence
      BY <3>1 DEF JobRecord
    <3> QED BY <3>2, <3>3
  <2> HIDE DEF j
  <2> QED BY <2>1, <2>2, <2>3, <2>4, <2>5, JobMoves DEF Live
<1>6. ASSUME NEW w \in Dispatchers, NEW d \in Deliveries, StartSend(w, d) PROVE ClaimsOK'
  BY <1>0, <1>6, SendStep
<1>7. ASSUME NEW w \in Dispatchers, NEW d \in Deliveries,
             SendSucceeds(w, d) \/ SendFails(w, d)
      PROVE  ClaimsOK'
  <2>1. PICK at \in {"deliver", "retry", "dead"} :
          job' = [job EXCEPT ![w][d].at = at, ![w][d].timer = 0]
    BY <1>7 DEF SendSucceeds, SendFails
  <2> DEFINE j == [job[w][d] EXCEPT !.at = at, !.timer = 0]
  <2>2. SetsJob(w, d, j)
    BY <2>1 DEF TypeOK, SetsJob
  <2>3. at \in Jobs
    BY DEF Jobs
  <2>4. j \in JobRecord /\ j.at = at /\ j.fence = job[w][d].fence
    <3>1. job[w][d] \in JobRecord
      BY <1>0
    <3>2. j \in JobRecord
      BY <2>3, <3>1, JobEdits, Bounds
    <3>3. j.at = at /\ j.fence = job[w][d].fence
      BY <3>1 DEF JobRecord
    <3> QED BY <3>2, <3>3
  <2>5. UNCHANGED <<recorded, row, left>> /\ UNCHANGED tries /\ Live(w, d)
    BY <1>7 DEF SendSucceeds, SendFails, Sending, Live
  <2> HIDE DEF j
  <2> QED BY <2>2, <2>4, <2>5, JobMoves
<1>8. ASSUME NEW w \in Dispatchers, NEW d \in Deliveries,
             mark_delivered(w, d) \/ mark_failed(w, d) \/ mark_suppressed(w, d)
               \/ SkipSend(w, d) \/ SettleFails(w, d)
      PROVE  ClaimsOK'
  <2>1. PICK sent \in BOOLEAN : Drop(w, d, sent)
    BY <1>8 DEF mark_delivered, mark_failed, mark_suppressed, SkipSend, SettleFails
  <2>2. Live(w, d)
    BY <1>8 DEF mark_delivered, mark_failed, mark_suppressed, SkipSend, SettleFails,
                Live, AtGate, MayRetry, MayDie, OutOfAttempts
  <2>3. \/ row' = row
        \/ \E new : Settle(w, d, new) /\ new.attempts = row[d].attempts
    <3>1. /\ \A b \in {w, NoDispatcher} :
                [row[d] EXCEPT !.status = "delivered", !.due = 0, !.fresh = Window, !.by = b].attempts
                   = row[d].attempts
          /\ \A delay \in Backoffs :
                [row[d] EXCEPT !.status = "failed", !.due = delay].attempts = row[d].attempts
          /\ [row[d] EXCEPT !.status = "dead", !.due = 0].attempts = row[d].attempts
          /\ [row[d] EXCEPT !.status = "suppressed", !.due = 0].attempts = row[d].attempts
      BY <1>0 DEF RowRecord
    <3> QED BY <1>8, <3>1 DEF mark_delivered, mark_failed, mark_suppressed, SkipSend, SettleFails
  <2>4. /\ \A e \in Deliveries : e # d => row'[e] = row[e]
        /\ row'[d].attempts = row[d].attempts
        /\ row'[d] = row[d] \/ Holds(w, d)
    BY <2>3 DEF Settle, TypeOK
  <2> QED BY <1>0, <2>1, <2>2, <2>4, DropStep
<1>9. ASSUME NEW w \in Dispatchers, Crash(w) PROVE ClaimsOK'
  <2>1. /\ UNCHANGED <<row, tries, recorded>>
        /\ \A v \in Dispatchers, d \in Deliveries :
              \/ job'[v][d] = job[v][d] /\ left'[v] = left[v]
              \/ job'[v][d].at = "none"
    BY <1>9 DEF Crash, TypeOK, NoJob
  <2>2. \A v \in Dispatchers, d \in Deliveries : ClaimOK(v, d)'
    BY <2>1 DEF ClaimsOK, ClaimOK, Live, Leased, Sending
  <2>3. FencesApart'
    BY <2>1 DEF ClaimsOK, FencesApart, Live
  <2> QED BY <2>1, <2>2, <2>3 DEF ClaimsOK, SendsLimited, NotYetScheduled
<1>10. CASE Tick
  BY <1>0, <1>10, TickStep
<1>11. CASE UNCHANGED vars
  BY <1>11 DEF vars, workVars, ClaimsOK, ClaimOK, FencesApart, SendsLimited, NotYetScheduled,
               Live, Leased, Sending
<1> QED
  BY <1>1, <1>2, <1>3, <1>4, <1>5, <1>6, <1>7, <1>8, <1>9, <1>10, <1>11
     DEF Next, Poll, Work

\* A step leaves a settled delivery as it is, unless its rule is deleted, and starts no
\* send of it: a claim is not of a settled row, and who sends holds a claim.
LEMMA SettledStep ==
    ASSUME TypeOK, ClaimsOK, [Next]_vars, NEW d \in Deliveries, row[d].status \in Settled
    PROVE  row'[d].status \in {row[d].status, "deleted"} /\ tries'[d] = tries[d]
<1>0. /\ \A e \in Deliveries : row[e] \in RowRecord
      /\ \A v \in Dispatchers : left[v] \in Nat
      /\ row[d].status \notin {"none", "pending", "claimed", "failed", "deleted"}
  BY OutboxAssumption DEF TypeOK, RowRecord, Settled
<1>1. ASSUME NEW n \in Notifications, project(n)
      PROVE  row'[d].status \in {row[d].status, "deleted"} /\ tries'[d] = tries[d]
  <2>1. d[1] # n
    BY <1>0, <1>1 DEF project, ClaimsOK, NotYetScheduled, NoRow
  <2> QED BY <1>1, <2>1 DEF project
<1>2. ASSUME NEW r \in Rules, delete_rule(r)
      PROVE  row'[d].status \in {row[d].status, "deleted"} /\ tries'[d] = tries[d]
  <2>1. \/ row'[d] = row[d]
        \/ row'[d] = [row[d] EXCEPT !.status = "deleted", !.due = 0, !.fresh = 0, !.by = NoDispatcher]
    BY <1>2 DEF delete_rule
  <2> QED BY <1>0, <1>2, <2>1 DEF delete_rule, RowRecord
<1>3. ASSUME NEW w \in Dispatchers, claim_due(w)
      PROVE  row'[d].status \in {row[d].status, "deleted"} /\ tries'[d] = tries[d]
  <2>1. ~Claimable(d)
    BY <1>0 DEF Claimable
  <2> QED BY <1>3, <2>1 DEF claim_due
<1>4. ASSUME NEW w \in Dispatchers, NEW e \in Deliveries, StartSend(w, e)
      PROVE  row'[d].status \in {row[d].status, "deleted"} /\ tries'[d] = tries[d]
  <2>1. Leased(w, e)
    BY <1>0, <1>4, OutboxAssumption DEF StartSend, EnoughLease, Leased, Live
  <2>2. e # d
    BY <1>0, <2>1 DEF ClaimsOK, ClaimOK
  <2> QED BY <1>4, <2>2 DEF StartSend, TypeOK
<1>5. ASSUME NEW w \in Dispatchers, NEW e \in Deliveries,
             mark_delivered(w, e) \/ mark_failed(w, e) \/ mark_suppressed(w, e)
               \/ SkipSend(w, e) \/ SettleFails(w, e)
      PROVE  row'[d].status \in {row[d].status, "deleted"} /\ tries'[d] = tries[d]
  <2>1. row' = row \/ \E new : Settle(w, e, new)
    BY <1>5 DEF mark_delivered, mark_failed, mark_suppressed, SkipSend, SettleFails
  <2>2. row'[d] = row[d]
    BY <1>0, <2>1 DEF Settle, Holds, TypeOK
  <2> QED BY <1>5, <2>2 DEF mark_delivered, mark_failed, mark_suppressed, SkipSend, SettleFails, Drop
<1>6. CASE Tick
  <2>1. row'[d].status = row[d].status
    BY <1>0, <1>6 DEF Tick, RowRecord
  <2> QED BY <1>6, <2>1 DEF Tick
<1>7. CASE UNCHANGED <<row, tries>>
  BY <1>7
<1>8. ASSUME NEW w \in Dispatchers, NEW e \in Deliveries,
             run_once(w) \/ reserve(w, e) \/ SendSucceeds(w, e) \/ SendFails(w, e) \/ Crash(w)
      PROVE  UNCHANGED <<row, tries>>
  BY <1>8 DEF run_once, reserve, SendSucceeds, SendFails, Crash
<1>9. ASSUME UNCHANGED vars PROVE UNCHANGED <<row, tries>>
  BY <1>9 DEF vars
<1> QED
  BY <1>1, <1>2, <1>3, <1>4, <1>5, <1>6, <1>7, <1>8, <1>9 DEF Next, Poll, Work

-------------------------------------------------------------------------------
(* The rate limit.                                                         *)
(*                                                                         *)
(* A poll's first count of a window is no less than what its host has in   *)
(* it; from then on every delivery it adds was reserved before.            *)

Passed == {"slot", "send", "deliver", "retry", "dead"}
Reserving(w, r) == {d \in Deliveries : RuleOf(d) = r /\ job[w][d].reserved}
Own(w, r) == {d \in Deliveries : RuleOf(d) = r /\ row[d].by = w /\ row[d].fresh > 0}

\* Delivered rows alone have a deliverer; no one works on what it delivered; the jobs that
\* have passed the limit, and no others, hold a reservation, but for rows that die at the gate.
JobsOK ==
    /\ \A d \in Deliveries : row[d].by # NoDispatcher => row[d].status = "delivered"
    /\ \A w \in Dispatchers, d \in Deliveries :
          /\ Live(w, d) => row[d].by # w
          /\ job[w][d].reserved <=> job[w][d].at \in Passed

WindowOK(w, r) ==
    /\ recent[w][r] = Unknown => Reserving(w, r) = {} /\ reserved[w][r] = 0
    /\ Cardinality(Reserving(w, r)) <= reserved[w][r]
    /\ recent[w][r] # Unknown =>
          /\ Cardinality(Own(w, r) \cup Reserving(w, r)) <= recent[w][r] + reserved[w][r]
          /\ reserved[w][r] = 0 \/ recent[w][r] + reserved[w][r] <= RateLimit
    /\ Cardinality(Own(w, r)) <= RateLimit

WindowsOK == \A w \in Dispatchers, r \in Rules : WindowOK(w, r)

LEMMA Sizes ==
    /\ Cardinality({}) = 0
    /\ \A S \in SUBSET Deliveries :
          /\ Cardinality(S) \in Nat
          /\ Cardinality(S) = 0 <=> S = {}
          /\ \A T \in SUBSET S : Cardinality(T) <= Cardinality(S)
          /\ \A x \in Deliveries : Cardinality(S \cup {x}) <= Cardinality(S) + 1
          /\ \A x \in S : Cardinality(S \ {x}) = Cardinality(S) - 1
<1>1. ASSUME NEW S \in SUBSET Deliveries
      PROVE  /\ IsFiniteSet(S) /\ Cardinality(S) \in Nat
             /\ Cardinality(S) = 0 <=> S = {}
  BY DeliveriesType, FS_Subset, FS_CardinalityType, FS_EmptySet
<1>2. ASSUME NEW S \in SUBSET Deliveries, NEW T \in SUBSET S
      PROVE  Cardinality(T) <= Cardinality(S)
  BY <1>1, FS_Subset
<1>3. ASSUME NEW S \in SUBSET Deliveries, NEW x \in Deliveries
      PROVE  Cardinality(S \cup {x}) <= Cardinality(S) + 1
  BY <1>1, FS_AddElement
<1>4. ASSUME NEW S \in SUBSET Deliveries, NEW x \in S
      PROVE  Cardinality(S \ {x}) = Cardinality(S) - 1
  BY <1>1, FS_RemoveElement
<1> QED BY <1>1, <1>2, <1>3, <1>4, FS_EmptySet

LEMMA WindowsInit == Init => JobsOK /\ WindowsOK
<1> SUFFICES ASSUME Init PROVE JobsOK /\ WindowsOK
  OBVIOUS
<1>1. /\ \A d \in Deliveries : row[d] = NoRow
      /\ \A w \in Dispatchers, d \in Deliveries : job[w][d] = NoJob
      /\ \A w \in Dispatchers, r \in Rules : recent[w][r] = Unknown /\ reserved[w][r] = 0
  BY DEF Init, NoWindows, NoReservations
<1>2. JobsOK
  BY <1>1 DEF JobsOK, NoRow, NoJob, Live, Passed
<1>3. ASSUME NEW w \in Dispatchers, NEW r \in Rules
      PROVE  Reserving(w, r) = {} /\ Own(w, r) = {}
  BY <1>1 DEF Reserving, Own, NoJob, NoRow
<1> QED BY <1>1, <1>2, <1>3, Sizes, OutboxAssumption DEF WindowsOK, WindowOK

\* Reservations that end unsent and deliveries that leave the window do no harm.
LEMMA WindowShrinks ==
    ASSUME TypeOK, NEW w \in Dispatchers, NEW r \in Rules, WindowOK(w, r),
           recent'[w][r] = recent[w][r] /\ reserved'[w][r] = reserved[w][r],
           Reserving(w, r)' \subseteq Reserving(w, r), Own(w, r)' \subseteq Own(w, r)
    PROVE  WindowOK(w, r)'
<1> DEFINE R == Reserving(w, r)
           D == Own(w, r)
           R2 == Reserving(w, r)'
           D2 == Own(w, r)'
<1>1. R \in SUBSET Deliveries /\ D \in SUBSET Deliveries /\ D \cup R \in SUBSET Deliveries
  BY DEF Reserving, Own
<1>2. /\ Cardinality(R2) <= Cardinality(R) /\ Cardinality(D2) <= Cardinality(D)
      /\ Cardinality(D2 \cup R2) <= Cardinality(D \cup R)
  BY <1>1, Sizes
<1>3. /\ Cardinality(R) \in Nat /\ Cardinality(D) \in Nat /\ Cardinality(D \cup R) \in Nat
      /\ Cardinality(R2) \in Nat /\ Cardinality(D2) \in Nat /\ Cardinality(D2 \cup R2) \in Nat
  BY <1>1, Sizes
<1>4. recent[w][r] \in Nat \cup {Unknown} /\ reserved[w][r] \in Nat /\ RateLimit \in Nat
  BY OutboxAssumption DEF TypeOK
<1>5. WindowOK(w, r)
  OBVIOUS
<1>6. R = {} => R2 = {}
  OBVIOUS
<1> HIDE DEF R, D, R2, D2
<1>7. /\ recent[w][r] = Unknown => R = {} /\ reserved[w][r] = 0
      /\ Cardinality(R) <= reserved[w][r]
      /\ recent[w][r] # Unknown =>
            /\ Cardinality(D \cup R) <= recent[w][r] + reserved[w][r]
            /\ reserved[w][r] = 0 \/ recent[w][r] + reserved[w][r] <= RateLimit
      /\ Cardinality(D) <= RateLimit
  BY <1>5 DEF WindowOK, R, D
<1>8. /\ recent[w][r] = Unknown => R2 = {} /\ reserved[w][r] = 0
      /\ Cardinality(R2) <= reserved[w][r]
      /\ recent[w][r] # Unknown =>
            /\ Cardinality(D2 \cup R2) <= recent[w][r] + reserved[w][r]
            /\ reserved[w][r] = 0 \/ recent[w][r] + reserved[w][r] <= RateLimit
      /\ Cardinality(D2) <= RateLimit
  BY <1>2, <1>3, <1>4, <1>6, <1>7 DEF Unknown
<1> QED BY <1>8 DEF WindowOK, R2, D2

\* A poll that is over leaves the window with what was delivered.
LEMMA WindowEnds ==
    ASSUME TypeOK, NEW w \in Dispatchers, NEW r \in Rules,
           recent'[w][r] = Unknown /\ reserved'[w][r] = 0,
           Reserving(w, r)' = {}, Cardinality(Own(w, r)') <= RateLimit
    PROVE  WindowOK(w, r)'
BY Sizes DEF WindowOK

\* What the steps of one dispatcher may do to a window of another, or of another rule.
LEMMA OthersWindows ==
    ASSUME TypeOK, WindowsOK, NEW w \in Dispatchers, NEW r \in Rules,
           recent'[w][r] = recent[w][r], reserved'[w][r] = reserved[w][r],
           \A e \in Deliveries :
              /\ RuleOf(e) = r /\ job'[w][e].reserved => job[w][e].reserved
              /\ RuleOf(e) = r /\ row'[e].by = w /\ row'[e].fresh > 0 =>
                    row[e].by = w /\ row[e].fresh > 0
    PROVE  WindowOK(w, r)'
<1>1. Reserving(w, r)' \subseteq Reserving(w, r) /\ Own(w, r)' \subseteq Own(w, r)
  BY DEF Reserving, Own
<1> QED BY <1>1, WindowShrinks DEF WindowsOK

\* A job that passes the limit is counted before it is sent.
LEMMA WindowReserve ==
    ASSUME TypeOK, JobsOK, WindowsOK, NEW w \in Dispatchers, NEW d \in Deliveries, reserve(w, d)
    PROVE  JobsOK' /\ WindowsOK'
<1> DEFINE r == RuleOf(d)
           room == HasRoom(w, r)
           at == IF room THEN "slot" ELSE "suppress"
           rc == Counted(w, r)
           rs == IF room THEN reserved[w][r] + 1 ELSE reserved[w][r]
           j == [job[w][d] EXCEPT !.at = at, !.reserved = room]
<1>0. /\ job[w][d] \in JobRecord /\ r \in Rules /\ room \in BOOLEAN
      /\ reserved[w][r] \in Nat /\ recent[w][r] \in Nat \cup {Unknown} /\ RateLimit \in Nat
  BY DeliveriesType, OutboxAssumption DEF TypeOK, JobRecord, HasRoom
<1>1. job[w][d].at = "gate" /\ ~job[w][d].reserved
  BY DEF reserve, AtGate, JobsOK, Passed
<1>2. SetsJob(w, d, j)
  BY DEF reserve, TypeOK, SetsJob
<1>3. j \in JobRecord /\ j.at = at /\ j.reserved = room
  <2>1. at \in Jobs
    BY DEF Jobs
  <2>2. j \in JobRecord
    BY <1>0, <2>1, JobEdits, Bounds
  <2> QED BY <1>0, <2>2 DEF JobRecord
<1>4. /\ recent' = [recent EXCEPT ![w][r] = rc]
      /\ reserved' = [reserved EXCEPT ![w][r] = rs]
      /\ row' = row
  BY DEF reserve
<1>5. /\ recent'[w][r] = rc /\ reserved'[w][r] = rs
      /\ \A v \in Dispatchers, q \in Rules : v # w \/ q # r =>
            recent'[v][q] = recent[v][q] /\ reserved'[v][q] = reserved[v][q]
  BY <1>0, <1>4 DEF TypeOK
<1>6. room <=> rc + reserved[w][r] < RateLimit
  BY DEF HasRoom
<1>7. /\ room => at = "slot"
      /\ ~room => at = "suppress"
      /\ room => rs = reserved[w][r] + 1
      /\ ~room => rs = reserved[w][r]
  OBVIOUS
<1>8. rc \in Nat /\ (recent[w][r] # Unknown => rc = recent[w][r])
  <2>1. Cardinality({e \in Deliveries : RuleOf(e) = r /\ row[e].status = "delivered"
                                          /\ row[e].fresh > 0}) \in Nat
    BY Sizes
  <2> QED BY <1>0, <2>1 DEF Counted
<1>9. recent[w][r] = Unknown => Cardinality(Own(w, r)) <= rc
  <2> DEFINE In == {e \in Deliveries : RuleOf(e) = r /\ row[e].status = "delivered"
                                         /\ row[e].fresh > 0}
  <2>1. Own(w, r) \subseteq In
    BY OutboxAssumption DEF Own, JobsOK
  <2>2. In \in SUBSET Deliveries
    OBVIOUS
  <2>3. Cardinality(Own(w, r)) <= Cardinality(In)
    BY <2>1, <2>2, Sizes
  <2>4. recent[w][r] = Unknown => rc = Cardinality(In)
    BY DEF Counted
  <2> QED BY <2>3, <2>4
<1> HIDE DEF room, at, rc, rs, j
<1>10. /\ job'[w][d] = j
       /\ \A v \in Dispatchers, e \in Deliveries : v # w \/ e # d => job'[v][e] = job[v][e]
  BY <1>2, <1>3, JobSet
<1>11. JobsOK'
  BY <1>1, <1>3, <1>4, <1>7, <1>10 DEF JobsOK, Live, Passed
<1>12. ASSUME NEW v \in Dispatchers, NEW q \in Rules, v # w \/ q # r PROVE WindowOK(v, q)'
  BY <1>4, <1>5, <1>10, <1>12, OthersWindows
<1>13. WindowOK(w, r)'
  <2> DEFINE R == Reserving(w, r)
             D == Own(w, r)
  <2>1. R \in SUBSET Deliveries /\ D \in SUBSET Deliveries /\ D \cup R \in SUBSET Deliveries
    BY DEF Reserving, Own
  <2>2. Own(w, r)' = D
    BY <1>4 DEF Own
  <2>3. Reserving(w, r)' = IF room THEN R \cup {d} ELSE R
    BY <1>0, <1>1, <1>3, <1>10 DEF Reserving
  <2>4. /\ Cardinality(R \cup {d}) <= Cardinality(R) + 1
        /\ Cardinality(D \cup R \cup {d}) <= Cardinality(D \cup R) + 1
        /\ Cardinality(R) \in Nat /\ Cardinality(D) \in Nat /\ Cardinality(D \cup R) \in Nat
        /\ Cardinality(R \cup {d}) \in Nat /\ Cardinality(D \cup R \cup {d}) \in Nat
    BY <2>1, Sizes
  <2>5. /\ recent[w][r] = Unknown => R = {} /\ reserved[w][r] = 0
        /\ Cardinality(R) <= reserved[w][r]
        /\ recent[w][r] # Unknown =>
              /\ Cardinality(D \cup R) <= recent[w][r] + reserved[w][r]
              /\ reserved[w][r] = 0 \/ recent[w][r] + reserved[w][r] <= RateLimit
        /\ Cardinality(D) <= RateLimit
    BY <1>0 DEF WindowsOK, WindowOK
  <2>6. R = {} => D \cup R = D
    OBVIOUS
  <2> HIDE DEF R, D, r
  <2>7. /\ Cardinality(D \cup R) <= rc + reserved[w][r]
        /\ reserved[w][r] = 0 \/ rc + reserved[w][r] <= RateLimit
    <3>1. CASE recent[w][r] = Unknown
      <4>1. R = {} /\ reserved[w][r] = 0
        BY <2>5, <3>1
      <4>2. Cardinality(D \cup R) <= rc
        BY <1>9, <2>6, <3>1, <4>1 DEF D
      <4> QED BY <1>8, <4>1, <4>2
    <3>2. CASE recent[w][r] # Unknown
      BY <1>8, <2>5, <3>2
    <3> QED BY <3>1, <3>2
  <2>8. rc # Unknown
    BY <1>8 DEF Unknown
  <2>9. CASE room
    <3>1. Reserving(w, r)' = R \cup {d} /\ Own(w, r)' = D
      BY <2>2, <2>3, <2>9
    <3>2. rs = reserved[w][r] + 1 /\ rc + reserved[w][r] < RateLimit
      BY <1>6, <1>7, <2>9
    <3>3. D \cup (R \cup {d}) = D \cup R \cup {d}
      OBVIOUS
    <3>4. Cardinality(D \cup (R \cup {d})) <= rc + rs
      <4>1. Cardinality(D \cup R \cup {d}) <= Cardinality(D \cup R) + 1
        BY <2>4
      <4>2. Cardinality(D \cup R) <= rc + reserved[w][r]
        BY <2>7
      <4>3. Cardinality(D \cup R \cup {d}) <= rc + rs
        BY ONLY <1>0, <1>8, <2>4, <3>2, <4>1, <4>2
      <4> QED BY <3>3, <4>3
    <3>6. rc + rs <= RateLimit
      BY <1>0, <1>8, <3>2
    <3>5. Cardinality(R \cup {d}) <= rs
      BY <1>0, <2>4, <2>5, <3>2
    <3> QED BY <1>5, <2>5, <2>8, <3>1, <3>4, <3>5, <3>6 DEF WindowOK
  <2>10. CASE ~room
    BY <1>5, <1>7, <2>2, <2>3, <2>5, <2>7, <2>8, <2>10 DEF WindowOK
  <2> QED BY <2>9, <2>10
<1> QED BY <1>11, <1>12, <1>13 DEF WindowsOK

\* The end of a job: what was sent moves from the reserved to the delivered, what was not
\* gives its reservation back, and the last job takes the poll's count with it.
LEMMA WindowDrop ==
    ASSUME TypeOK, JobsOK, WindowsOK,
           NEW w \in Dispatchers, NEW d \in Deliveries, NEW sent \in BOOLEAN,
           Drop(w, d, sent), sent => job[w][d].reserved,
           \A e \in Deliveries : e # d => row'[e] = row[e],
           row'[d].by # NoDispatcher => row'[d].status = "delivered",
           \/ row'[d].by = row[d].by /\ row'[d].fresh = row[d].fresh
           \/ row'[d].by = NoDispatcher /\ row[d].by = NoDispatcher
           \/ sent /\ row[d].by = NoDispatcher /\ row'[d].by = w
    PROVE  JobsOK' /\ WindowsOK'
<1> DEFINE r == RuleOf(d)
           R == Reserving(w, r)
           D == Own(w, r)
           rc == recent[w][r]
           rs == reserved[w][r]
           lastOne == \A e \in Deliveries \ {d} : job[w][e] = NoJob
<1>0. /\ r \in Rules
      /\ rs \in Nat /\ rc \in Nat \cup {Unknown} /\ RateLimit \in Nat
  BY DeliveriesType, OutboxAssumption DEF TypeOK
<1>1. /\ job'[w][d] = NoJob
      /\ \A v \in Dispatchers, e \in Deliveries : v # w \/ e # d => job'[v][e] = job[v][e]
  <2>1. NoJob \in JobRecord /\ SetsJob(w, d, NoJob)
    BY Bounds DEF Drop, SetsJob
  <2> QED BY <2>1, JobSet
<1>2. \A v \in Dispatchers, q \in Rules : v # w =>
         recent'[v][q] = recent[v][q] /\ reserved'[v][q] = reserved[v][q]
  BY DEF Drop, TypeOK
<1>3. ASSUME lastOne, NEW q \in Rules
      PROVE  recent'[w][q] = Unknown /\ reserved'[w][q] = 0 /\ Reserving(w, q)' = {}
  <2>1. recent'[w] = NoWindows /\ reserved'[w] = NoReservations
    BY <1>3 DEF Drop, TypeOK
  <2>2. \A e \in Deliveries : job'[w][e] = NoJob
    BY <1>1, <1>3
  <2> QED BY <2>1, <2>2 DEF NoWindows, NoReservations, Reserving, NoJob
<1>4. ASSUME ~lastOne, NEW q \in Rules
      PROVE  /\ recent'[w][q] = recent[w][q]
             /\ q # r \/ sent \/ ~job[w][d].reserved => reserved'[w][q] = reserved[w][q]
             /\ job[w][d].reserved /\ ~sent /\ rs > 0 => reserved'[w][r] = rs - 1
  <2>1. /\ recent'[w] = recent[w]
        /\ reserved'[w] = IF job[w][d].reserved /\ ~sent THEN Released(w, r) ELSE reserved[w]
    BY <1>4 DEF Drop, TypeOK
  <2> QED BY <1>0, <2>1 DEF Released, TypeOK
<1>5. JobsOK'
  BY <1>1 DEF JobsOK, Live, NoJob, Passed
<1>6. ASSUME NEW v \in Dispatchers, NEW q \in Rules, v # w PROVE WindowOK(v, q)'
  <2>1. \A e \in Deliveries :
          /\ job'[v][e].reserved => job[v][e].reserved
          /\ row'[e].by = v /\ row'[e].fresh > 0 => row[e].by = v /\ row[e].fresh > 0
    BY <1>1, <1>6, OutboxAssumption
  <2> QED BY <1>2, <1>6, <2>1, OthersWindows
<1>7. R \in SUBSET Deliveries /\ D \in SUBSET Deliveries /\ D \cup R \in SUBSET Deliveries
  BY DEF Reserving, Own
<1>8. /\ Cardinality(R) \in Nat /\ Cardinality(D) \in Nat /\ Cardinality(D \cup R) \in Nat
      /\ \A S \in SUBSET (D \cup R) :
            Cardinality(S) \in Nat /\ Cardinality(S) <= Cardinality(D \cup R)
      /\ \A S \in SUBSET R : Cardinality(S) \in Nat /\ Cardinality(S) <= Cardinality(R)
      /\ R # {} => Cardinality(R) # 0
      /\ d \in R => Cardinality(R \ {d}) = Cardinality(R) - 1
      /\ d \in R => Cardinality((D \cup R) \ {d}) = Cardinality(D \cup R) - 1
  BY <1>7, Sizes
<1>9. /\ rc = Unknown => R = {} /\ rs = 0
      /\ Cardinality(R) <= rs
      /\ rc # Unknown =>
            /\ Cardinality(D \cup R) <= rc + rs
            /\ rs = 0 \/ rc + rs <= RateLimit
      /\ Cardinality(D) <= RateLimit
  BY <1>0 DEF WindowsOK, WindowOK
<1>10. /\ job[w][d].reserved => d \in R
       /\ Reserving(w, r)' = R \ {d}
       /\ job[w][d].reserved => d \notin D
       /\ sent => d \in R
  BY <1>1 DEF Reserving, Own, NoJob, JobsOK, Live, Passed
<1>11. /\ Own(w, r)' \subseteq D \cup {d}
       /\ sent \/ Own(w, r)' = D
  BY OutboxAssumption DEF Own
<1>12. \A q \in Rules : q # r => Own(w, q)' = Own(w, q) /\ Reserving(w, q)' = Reserving(w, q)
  BY <1>1 DEF Own, Reserving
<1> HIDE DEF R, D, rc, rs, r, lastOne
<1>13. sent => Cardinality(D \cup R) <= RateLimit
  BY <1>0, <1>8, <1>9, <1>10
<1>14. Cardinality(Own(w, r)') <= RateLimit
  <2>1. CASE sent
    <3>1. Own(w, r)' \in SUBSET (D \cup R)
      BY <1>10, <1>11, <2>1
    <3>2. /\ Cardinality(Own(w, r)') \in Nat
          /\ Cardinality(Own(w, r)') <= Cardinality(D \cup R)
      BY <1>8, <3>1
    <3>3. Cardinality(D \cup R) \in Nat /\ Cardinality(D \cup R) <= RateLimit
      BY <1>8, <1>13, <2>1
    <3> QED BY <1>0, <3>2, <3>3
  <2>2. CASE ~sent
    BY <1>9, <1>11, <2>2
  <2> QED BY <2>1, <2>2
<1>15. ASSUME NEW q \in Rules, q # r PROVE WindowOK(w, q)'
  <2>1. CASE lastOne
    <3>1. Cardinality(Own(w, q)') <= RateLimit
      BY <1>12, <1>15 DEF WindowsOK, WindowOK
    <3> QED BY <1>3, <2>1, <3>1, WindowEnds
  <2>2. CASE ~lastOne
    <3>1. recent'[w][q] = recent[w][q] /\ reserved'[w][q] = reserved[w][q]
      BY <1>4, <1>15, <2>2
    <3> QED BY <1>12, <1>15, <3>1, WindowShrinks DEF WindowsOK
  <2> QED BY <2>1, <2>2
<1>16. WindowOK(w, r)'
  <2>1. CASE lastOne
    BY <1>0, <1>3, <1>14, <2>1, WindowEnds
  <2>2. CASE ~lastOne /\ sent
    <3>1. recent'[w][r] = rc /\ reserved'[w][r] = rs
      BY <1>0, <1>4, <2>2 DEF rc, rs
    <3>2. Own(w, r)' \cup Reserving(w, r)' \in SUBSET (D \cup R) /\ Reserving(w, r)' \in SUBSET R
      BY <1>10, <1>11, <2>2
    <3>3. /\ Cardinality(Own(w, r)' \cup Reserving(w, r)') \in Nat
          /\ Cardinality(Own(w, r)' \cup Reserving(w, r)') <= Cardinality(D \cup R)
          /\ Cardinality(Reserving(w, r)') \in Nat
          /\ Cardinality(Reserving(w, r)') <= Cardinality(R)
      BY <1>8, <3>2
    <3>4. rc # Unknown
      BY <1>9, <1>10, <2>2
    <3>5. /\ Cardinality(Own(w, r)' \cup Reserving(w, r)') <= rc + rs
          /\ Cardinality(Reserving(w, r)') <= rs
          /\ rs = 0 \/ rc + rs <= RateLimit
      BY <1>0, <1>8, <1>9, <3>3, <3>4
    <3> QED BY <1>14, <3>1, <3>4, <3>5 DEF WindowOK
  <2>3. CASE ~lastOne /\ ~sent /\ job[w][d].reserved
    <3>1. d \in R /\ d \notin D /\ Own(w, r)' = D /\ Reserving(w, r)' = R \ {d}
      BY <1>10, <1>11, <2>3
    <3>2. D \cup (R \ {d}) = (D \cup R) \ {d}
      BY <3>1
    <3>3. /\ Cardinality(R \ {d}) = Cardinality(R) - 1
          /\ Cardinality(D \cup (R \ {d})) = Cardinality(D \cup R) - 1
      BY <1>8, <3>1, <3>2
    <3>4. rc # Unknown /\ Cardinality(R) # 0 /\ Cardinality(R) <= rs
      BY <1>8, <1>9, <3>1
    <3>5. rs > 0
      BY <1>0, <1>8, <3>4
    <3>6. recent'[w][r] = rc /\ reserved'[w][r] = rs - 1
      BY <1>0, <1>4, <2>3, <3>5 DEF rc, rs
    <3>7. /\ Cardinality(R \ {d}) <= rs - 1
          /\ Cardinality(D \cup (R \ {d})) <= rc + (rs - 1)
          /\ rc + (rs - 1) <= RateLimit
      BY <1>0, <1>8, <1>9, <3>3, <3>4, <3>5
    <3> QED BY <1>14, <3>1, <3>4, <3>6, <3>7 DEF WindowOK
  <2>4. CASE ~lastOne /\ ~sent /\ ~job[w][d].reserved
    <3>1. recent'[w][r] = recent[w][r] /\ reserved'[w][r] = reserved[w][r]
      BY <1>0, <1>4, <2>4
    <3>2. Own(w, r)' \subseteq Own(w, r) /\ Reserving(w, r)' \subseteq Reserving(w, r)
      BY <1>10, <1>11, <2>4 DEF D, R
    <3> QED BY <1>0, <3>1, <3>2, WindowShrinks DEF WindowsOK
  <2> QED BY <2>1, <2>2, <2>3, <2>4
<1> QED BY <1>5, <1>6, <1>15, <1>16 DEF WindowsOK

LEMMA WindowsStep ==
    ASSUME TypeOK, ClaimsOK, JobsOK, WindowsOK, [Next]_vars
    PROVE  JobsOK' /\ WindowsOK'
<1>0. /\ \A e \in Deliveries : row[e] \in RowRecord
      /\ \A v \in Dispatchers, e \in Deliveries : job[v][e] \in JobRecord
      /\ NoDispatcher \notin Dispatchers
  BY OutboxAssumption DEF TypeOK, RowRecord, JobRecord
\* the steps that neither count nor reserve: no job gains a reservation, no row a deliverer
<1>s. ASSUME UNCHANGED <<recent, reserved>>,
             \A v \in Dispatchers, e \in Deliveries :
                /\ job'[v][e].reserved => job[v][e].reserved
                /\ job'[v][e].reserved <=> job'[v][e].at \in Passed
                /\ Live(v, e)' => Live(v, e) \/ row'[e].by = NoDispatcher,
             \A e \in Deliveries :
                \/ row'[e].by = NoDispatcher
                \/ /\ row'[e].by = row[e].by /\ row'[e].status = row[e].status
                   /\ row'[e].fresh > 0 => row[e].fresh > 0
      PROVE  JobsOK' /\ WindowsOK'
  <2>1. JobsOK'
    BY <1>0, <1>s DEF JobsOK
  <2>2. ASSUME NEW w \in Dispatchers, NEW r \in Rules PROVE WindowOK(w, r)'
    BY <1>0, <1>s, OthersWindows
  <2> QED BY <2>1, <2>2 DEF WindowsOK
<1>1. ASSUME NEW n \in Notifications, project(n) PROVE JobsOK' /\ WindowsOK'
  <2>1. UNCHANGED <<job, recent, reserved>>
    BY <1>1 DEF project, workVars
  <2>2. \A e \in Deliveries : row'[e] = row[e] \/ row'[e].by = NoDispatcher
    BY <1>1 DEF project, NewRow, NoRow
  <2> QED BY <1>s, <2>1, <2>2 DEF JobsOK, Live
<1>2. ASSUME NEW r \in Rules, delete_rule(r) PROVE JobsOK' /\ WindowsOK'
  <2>1. UNCHANGED <<job, recent, reserved>>
    BY <1>2 DEF delete_rule, workVars
  <2>2. \A e \in Deliveries : row'[e] = row[e] \/ row'[e].by = NoDispatcher
    BY <1>0, <1>2 DEF delete_rule, RowRecord
  <2> QED BY <1>s, <2>1, <2>2 DEF JobsOK, Live
<1>3. ASSUME NEW w \in Dispatchers, claim_due(w) PROVE JobsOK' /\ WindowsOK'
  <2>1. PICK B \in SUBSET {d \in Deliveries : Claimable(d)} :
          /\ row' = [d \in Deliveries |->
                        IF d \in B
                        THEN [row[d] EXCEPT !.status = "claimed", !.attempts = NextAttempt(d), !.due = Lease]
                        ELSE row[d]]
          /\ job' = [job EXCEPT ![w] = [d \in Deliveries |->
                        IF d \in B
                        THEN [NoJob EXCEPT !.at = "gate", !.fence = NextAttempt(d)]
                        ELSE NoJob]]
    BY <1>3 DEF claim_due
  <2>2. ASSUME NEW e \in B PROVE row'[e].by = NoDispatcher
    <3>1. e \in Deliveries /\ row[e].status # "delivered"
      BY DEF Claimable
    <3>2. row'[e].by = row[e].by
      BY <1>0, <2>1, <3>1 DEF RowRecord
    <3> QED BY <3>1, <3>2 DEF JobsOK
  <2>3. \A e \in Deliveries : e \notin B => row'[e] = row[e]
    BY <2>1
  <2>4. ASSUME NEW e \in Deliveries
        PROVE  /\ ~job'[w][e].reserved /\ job'[w][e].at \notin Passed
               /\ e \notin B => ~Live(w, e)'
    <3>1. \/ e \in B /\ job'[w][e] = [NoJob EXCEPT !.at = "gate", !.fence = NextAttempt(e)]
          \/ e \notin B /\ job'[w][e] = NoJob
      BY <2>1 DEF TypeOK
    <3>2. CASE e \in B
      <4>1. job'[w][e] = [NoJob EXCEPT !.at = "gate", !.fence = NextAttempt(e)]
        BY <3>1, <3>2
      <4>2. job'[w][e].at = "gate" /\ job'[w][e].reserved = FALSE
        BY <4>1 DEF NoJob
      <4> QED BY <3>2, <4>2 DEF Passed
    <3>3. CASE e \notin B
      <4>1. job'[w][e].at = "none" /\ job'[w][e].reserved = FALSE
        BY <3>1, <3>3 DEF NoJob
      <4> QED BY <4>1 DEF Passed, Live
    <3> QED BY <3>2, <3>3
  <2>5. \A v \in Dispatchers, e \in Deliveries : v # w => job'[v][e] = job[v][e]
    BY <2>1 DEF TypeOK
  <2>6. UNCHANGED <<recent, reserved>>
    BY <1>3 DEF claim_due
  <2> QED BY <1>s, <2>2, <2>3, <2>4, <2>5, <2>6 DEF JobsOK, Live
<1>4. ASSUME NEW w \in Dispatchers, NEW d \in Deliveries, reserve(w, d) PROVE JobsOK' /\ WindowsOK'
  BY <1>4, WindowReserve
<1>5. ASSUME NEW w \in Dispatchers, NEW d \in Deliveries,
             StartSend(w, d) \/ SendSucceeds(w, d) \/ SendFails(w, d)
      PROVE  JobsOK' /\ WindowsOK'
  <2>1. PICK at \in Passed, t \in 0 .. SendTimeout :
          job' = [job EXCEPT ![w][d].at = at, ![w][d].timer = t]
    BY <1>5, Bounds DEF StartSend, SendSucceeds, SendFails, Passed
  <2>2. job[w][d].at \in Passed
    BY <1>5 DEF StartSend, SendSucceeds, SendFails, Sending, Passed
  <2> DEFINE j == [job[w][d] EXCEPT !.at = at, !.timer = t]
  <2>3. SetsJob(w, d, j)
    BY <2>1 DEF TypeOK, SetsJob
  <2>4. j \in JobRecord /\ j.at = at /\ j.reserved = job[w][d].reserved
    <3>1. job[w][d] \in JobRecord /\ at \in Jobs
      BY <1>0 DEF Passed, Jobs
    <3>2. j \in JobRecord
      BY <3>1, JobEdits
    <3> QED BY <3>1, <3>2 DEF JobRecord
  <2> HIDE DEF j
  <2>5. /\ job'[w][d] = j
        /\ \A v \in Dispatchers, e \in Deliveries : v # w \/ e # d => job'[v][e] = job[v][e]
    <3>1. TypeOK /\ j \in JobRecord /\ SetsJob(w, d, j)
      BY <2>3, <2>4
    <3> QED BY ONLY <3>1, JobSet
  <2>6. UNCHANGED <<row, recent, reserved>>
    BY <1>5 DEF StartSend, SendSucceeds, SendFails
  <2> QED BY <1>s, <2>2, <2>4, <2>5, <2>6 DEF JobsOK, Live, Passed
<1>6. ASSUME NEW w \in Dispatchers, NEW d \in Deliveries,
             mark_failed(w, d) \/ mark_suppressed(w, d) \/ SkipSend(w, d) \/ SettleFails(w, d)
      PROVE  JobsOK' /\ WindowsOK'
  <2>1. Drop(w, d, FALSE)
    BY <1>6 DEF mark_failed, mark_suppressed, SkipSend, SettleFails
  <2>2. \/ row' = row
        \/ \E new :
              /\ Settle(w, d, new)
              /\ \/ new.by = row[d].by /\ new.fresh = row[d].fresh
                 \/ new.by = NoDispatcher
    <3>1. /\ [row[d] EXCEPT !.status = "delivered", !.due = 0, !.fresh = Window,
                            !.by = NoDispatcher].by = NoDispatcher
          /\ \A delay \in Backoffs :
                LET new == [row[d] EXCEPT !.status = "failed", !.due = delay]
                IN  new.by = row[d].by /\ new.fresh = row[d].fresh
          /\ LET new == [row[d] EXCEPT !.status = "dead", !.due = 0]
             IN  new.by = row[d].by /\ new.fresh = row[d].fresh
          /\ LET new == [row[d] EXCEPT !.status = "suppressed", !.due = 0]
             IN  new.by = row[d].by /\ new.fresh = row[d].fresh
      BY <1>0 DEF RowRecord
    <3> QED BY <1>6, <3>1 DEF mark_failed, mark_suppressed, SkipSend, SettleFails
  <2>3. /\ \A e \in Deliveries : e # d => row'[e] = row[e]
        /\ \/ row'[d].by = row[d].by /\ row'[d].fresh = row[d].fresh
           \/ row'[d].by = NoDispatcher
        /\ row'[d] = row[d] \/ row[d].status = "claimed"
    BY <2>2 DEF Settle, Holds, TypeOK
  <2>4. /\ row'[d].by # NoDispatcher => row'[d].status = "delivered"
        /\ \/ row'[d].by = row[d].by /\ row'[d].fresh = row[d].fresh
           \/ row'[d].by = NoDispatcher /\ row[d].by = NoDispatcher
    BY <2>3 DEF JobsOK
  <2> QED BY <2>1, <2>3, <2>4, WindowDrop
<1>7. ASSUME NEW w \in Dispatchers, NEW d \in Deliveries, mark_delivered(w, d)
      PROVE  JobsOK' /\ WindowsOK'
  <2>1. Drop(w, d, TRUE) /\ job[w][d].reserved
    BY <1>7 DEF mark_delivered, JobsOK, Passed
  <2> DEFINE new == [row[d] EXCEPT !.status = "delivered", !.due = 0, !.fresh = Window, !.by = w]
  <2>2. new.by = w /\ new.status = "delivered"
    BY <1>0 DEF RowRecord
  <2>3. Settle(w, d, new)
    BY <1>7 DEF mark_delivered
  <2> HIDE DEF new
  <2>4. /\ \A e \in Deliveries : e # d => row'[e] = row[e]
        /\ row'[d] = row[d] \/ (row[d].status = "claimed" /\ row'[d] = new)
    BY <2>3 DEF Settle, Holds, TypeOK
  <2>5. row[d].status = "claimed" => row[d].by = NoDispatcher
    BY DEF JobsOK
  <2>6. row'[d].by # NoDispatcher => row'[d].status = "delivered"
    BY <2>2, <2>4 DEF JobsOK
  <2> QED BY <2>1, <2>2, <2>4, <2>5, <2>6, WindowDrop
<1>8. ASSUME NEW w \in Dispatchers, Crash(w) PROVE JobsOK' /\ WindowsOK'
  <2>1. /\ \A e \in Deliveries : job'[w][e] = NoJob /\ row'[e] = row[e]
        /\ \A v \in Dispatchers, e \in Deliveries : v # w => job'[v][e] = job[v][e]
        /\ \A r \in Rules : recent'[w][r] = Unknown /\ reserved'[w][r] = 0
        /\ \A v \in Dispatchers, r \in Rules : v # w =>
              recent'[v][r] = recent[v][r] /\ reserved'[v][r] = reserved[v][r]
    BY <1>8 DEF Crash, TypeOK, NoWindows, NoReservations
  <2>2. JobsOK'
    BY <2>1 DEF JobsOK, Live, NoJob, Passed
  <2>3. ASSUME NEW r \in Rules PROVE WindowOK(w, r)'
    <3>1. Reserving(w, r)' = {} /\ Own(w, r)' = Own(w, r)
      BY <2>1 DEF Reserving, Own, NoJob
    <3> QED BY <2>1, <3>1, WindowEnds DEF WindowsOK, WindowOK
  <2>4. ASSUME NEW v \in Dispatchers, NEW r \in Rules, v # w PROVE WindowOK(v, r)'
    BY <2>1, <2>4, OthersWindows
  <2> QED BY <2>2, <2>3, <2>4 DEF WindowsOK
<1>9. CASE Tick
  <2>1. \A v \in Dispatchers, e \in Deliveries :
          job'[v][e].at = job[v][e].at /\ job'[v][e].reserved = job[v][e].reserved
    BY <1>0, <1>9 DEF Tick, JobRecord
  <2>2. ASSUME NEW e \in Deliveries
        PROVE  \/ row'[e].by = NoDispatcher
               \/ /\ row'[e].by = row[e].by /\ row'[e].status = row[e].status
                  /\ row'[e].fresh > 0 => row[e].fresh > 0
    <3>1. /\ row'[e].status = row[e].status
          /\ row'[e].fresh = IF row[e].fresh > 0 THEN row[e].fresh - 1 ELSE 0
          /\ row'[e].by = IF row[e].fresh > 1 THEN row[e].by ELSE NoDispatcher
      BY <1>0, <1>9 DEF Tick, RowRecord
    <3> QED BY <3>1
  <2>3. UNCHANGED <<recent, reserved>>
    BY <1>9 DEF Tick
  <2> QED BY <1>s, <2>1, <2>2, <2>3 DEF JobsOK, Live
<1>10. ASSUME UNCHANGED <<row, job, recent, reserved>> PROVE JobsOK' /\ WindowsOK'
  BY <1>s, <1>10 DEF JobsOK, Live
<1>11. ASSUME NEW w \in Dispatchers, run_once(w) PROVE UNCHANGED <<row, job, recent, reserved>>
  BY <1>11 DEF run_once
<1>12. ASSUME UNCHANGED vars PROVE UNCHANGED <<row, job, recent, reserved>>
  BY <1>12 DEF vars, workVars
<1> QED
  BY <1>1, <1>2, <1>3, <1>4, <1>5, <1>6, <1>7, <1>8, <1>9, <1>10, <1>11, <1>12
     DEF Next, Poll, Work

-------------------------------------------------------------------------------
(* The promises.                                                           *)

\* The claims are in order in every reachable state.
LEMMA ClaimsHold == Spec => [](TypeOK /\ ClaimsOK)
<1>1. TypeOK /\ ClaimsOK /\ [Next]_vars => (TypeOK /\ ClaimsOK)'
  BY TypeStep, ClaimsStep
<1> QED BY <1>1, ClaimsInit, PTL DEF Spec

\* The model is typed: rows, jobs, windows and counters stay in their ranges.
THEOREM TypeCorrect == Spec => []TypeOK
<1>1. TypeOK /\ ClaimsOK => TypeOK
  OBVIOUS
<1> QED BY <1>1, ClaimsHold, PTL

\* Whoever sends a delivery holds its claim, alone, or its rule was deleted while it sent
\* (the lease check before each send, with the batch's lease measured from before the claim).
THEOREM SendersHoldClaims == Spec => []SenderHoldsClaim
<1>1. ASSUME TypeOK, ClaimsOK, NEW w \in Dispatchers, NEW d \in Deliveries, Sending(w, d),
             row[d].status # "deleted"
      PROVE  Holds(w, d) /\ \A v \in Dispatchers \ {w} : ~Sending(v, d)
  <2>1. ASSUME NEW v \in Dispatchers, Sending(v, d)
        PROVE  row[d].attempts = job[v][d].fence /\ row[d].status = "claimed" /\ Live(v, d)
    <3>1. /\ ClaimOK(v, d) /\ left[v] \in Nat /\ job[v][d].timer \in Nat
      BY <1>1, OutboxAssumption DEF ClaimsOK, TypeOK
    <3>2. Leased(v, d)
      BY <2>1, <3>1 DEF ClaimOK, Leased, Live, Sending
    <3> QED BY <1>1, <3>1, <3>2 DEF ClaimOK, Leased
  <2>2. Holds(w, d)
    BY <1>1, <2>1 DEF Holds
  <2>3. ASSUME NEW v \in Dispatchers, Sending(v, d) PROVE v = w
    BY <1>1, <2>1, <2>3 DEF ClaimsOK, FencesApart
  <2> QED BY <2>2, <2>3
<1>2. TypeOK /\ ClaimsOK => SenderHoldsClaim
  BY <1>1 DEF SenderHoldsClaim
<1> QED BY <1>2, ClaimsHold, PTL

\* No delivery is sent more than max_attempts times, whatever crashes, lost settles and
\* expired leases come between (each claim counts as an attempt).
THEOREM TriesLimited == Spec => []TriesAreLimited
<1>1. TypeOK /\ ClaimsOK => TriesAreLimited
  BY DEF ClaimsOK, SendsLimited, TriesAreLimited
<1> QED BY <1>1, ClaimsHold, PTL

\* A settled delivery stays settled and is never sent again (fenced settles, leased sends).
THEOREM SettledFinal == Spec => SettledIsFinal
<1> DEFINE Final == \A d \in Deliveries : row[d].status \in Settled =>
                       row'[d].status \in {row[d].status, "deleted"} /\ tries'[d] = tries[d]
<1>1. TypeOK /\ ClaimsOK /\ [Next]_vars => [Final]_vars
  BY SettledStep
<1>2. Spec => [][Final]_vars
  BY <1>1, ClaimsHold, PTL DEF Spec
<1> QED BY <1>2 DEF SettledIsFinal

\* No host delivers more for a rule in a window than its limit, however the sends of a poll
\* overlap (the reservations, with the window counted once a poll).
THEOREM WindowKept == Spec => []WindowIsKept
<1>1. Init => TypeOK /\ ClaimsOK /\ JobsOK /\ WindowsOK
  BY ClaimsInit, WindowsInit
<1>2. TypeOK /\ ClaimsOK /\ JobsOK /\ WindowsOK /\ [Next]_vars
        => (TypeOK /\ ClaimsOK /\ JobsOK /\ WindowsOK)'
  BY TypeStep, ClaimsStep, WindowsStep
<1>3. TypeOK /\ ClaimsOK /\ JobsOK /\ WindowsOK => WindowIsKept
  BY DEF WindowsOK, WindowOK, WindowIsKept, Own
<1> QED BY <1>1, <1>2, <1>3, PTL DEF Spec
===============================================================================
