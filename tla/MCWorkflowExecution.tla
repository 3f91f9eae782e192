-------------------------- MODULE MCWorkflowExecution --------------------------
(***************************************************************************)
(* Instances of WorkflowExecution for TLC.                                 *)
(***************************************************************************)
EXTENDS WorkflowExecution, TLC

CONSTANTS ka, kb, w1, w2, c1, c2

\* The deadline of a child in the instances where time does not matter.
Far == 9

Plan(deps, deadline, units) ==
    [deps |-> deps, deadline |-> [k \in DOMAIN deps |-> deadline], units |-> units]

Single == ka :> {}
Chain == ka :> {} @@ kb :> {ka}
Fork == ka :> {} @@ kb :> {}

SinglePlan == {Plan(Single, Far, 1)}
ChainPlan == {Plan(Chain, Far, 2)}
ForkPlan == {Plan(Fork, Far, 2)}
SingleDuePlan == {Plan(Single, 2, 1)}
SingleOrDouble == {Plan(Single, Far, 1), Plan(Single, Far, 2)}

================================================================================
