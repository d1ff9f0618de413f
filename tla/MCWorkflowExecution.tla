------------------------ MODULE MCWorkflowExecution ------------------------
EXTENDS WorkflowExecution
CONSTANTS a, b, c
(* Two roots and a join; a cycle behind a node, which proposeWorkflow lets *)
(* through.                                                                *)
MCNode == {a, b, c}
MCGraphs ==
    {[n \in MCNode |-> IF n = c THEN {a, b} ELSE {}],
     [n \in MCNode |-> IF n = b THEN {a, c} ELSE IF n = c THEN {b} ELSE {}]}
=============================================================================
