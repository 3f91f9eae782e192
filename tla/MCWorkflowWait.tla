----------------------------- MODULE MCWorkflowWait -----------------------------
(***************************************************************************)
(* Instances of WorkflowWait for TLC.                                      *)
(***************************************************************************)
EXTENDS MCWorkflowExecution, WorkflowWait

CONSTANTS n1, r1, p1, p2
================================================================================
