---------------------------- MODULE AttemptLifecycle ----------------------------
(***************************************************************************)
(* What one execution promises its owner about the attempts at its         *)
(* children, without leases, handles, polls, revisions or processes.       *)
(*                                                                         *)
(* An attempt is queued until it has a task, works until it ends, and is   *)
(* replaced whole: its successor is queued in the step that supersedes it. *)
(* Calling the execution off is one step for all attempts, and from then   *)
(* on nothing is queued or started: a task that turns up late is only      *)
(* stopped.                                                                *)
(***************************************************************************)
EXTENDS Naturals

CONSTANTS Keys, MaxGeneration, MaxAttempts

VARIABLES
    phase,   \* phase[a]: how far attempt a is
    over     \* the execution was called off: canceled, or past its deadline

vars == <<phase, over>>

Generations == 1..MaxGeneration
Attempts == [gen : Generations, key : Keys, attempt : 1..MaxAttempts]

Phases == {"absent", "queued", "working", "stopping",
           "stopped", "completed", "failed", "superseded"}
Ended == {"stopped", "completed", "failed"}

Init ==
    /\ phase = [a \in Attempts |-> "absent"]
    /\ over = FALSE

\* A new generation is queued as a whole.
Expand ==
    /\ ~over
    /\ \E g \in Generations, K \in SUBSET Keys :
          /\ \A a \in Attempts : a.gen = g => phase[a] = "absent"
          /\ phase' = [a \in Attempts |->
                          IF a.gen = g /\ a.key \in K /\ a.attempt = 1 THEN "queued" ELSE phase[a]]
    /\ UNCHANGED over

Start(a) ==
    /\ ~over
    /\ phase[a] = "queued"
    /\ phase' = [phase EXCEPT ![a] = "working"]
    /\ UNCHANGED over

\* An attempt that never started can only fail, overdue.
Finish(a) ==
    /\ \/ /\ phase[a] \in {"working", "stopping"}
          /\ \E s \in Ended : phase' = [phase EXCEPT ![a] = s]
       \/ /\ phase[a] = "queued"
          /\ phase' = [phase EXCEPT ![a] = "failed"]
    /\ UNCHANGED over

Retry(a) ==
    LET next == [a EXCEPT !.attempt = @ + 1]
    IN  /\ ~over
        /\ a.attempt < MaxAttempts
        /\ phase[a] \in {"working"} \cup Ended
        /\ phase[next] = "absent"
        /\ phase' = [phase EXCEPT ![a] = "superseded", ![next] = "queued"]
        /\ UNCHANGED over

\* What calling off does to an attempt.
CalledOff(s) == IF s = "queued" THEN "stopped" ELSE IF s = "working" THEN "stopping" ELSE s

CallOff ==
    /\ over' = TRUE
    /\ phase' = [a \in Attempts |-> CalledOff(phase[a])]

\* The task of an attempt that was stopped while it was being launched turns up.
StopLate(a) ==
    /\ over
    /\ phase[a] = "stopped"
    /\ phase' = [phase EXCEPT ![a] = "stopping"]
    /\ UNCHANGED over

Next ==
    \/ Expand
    \/ CallOff
    \/ \E a \in Attempts : Start(a) \/ Finish(a) \/ Retry(a) \/ StopLate(a)

Spec == Init /\ [][Next]_vars
================================================================================
