------------------------- MODULE MCWorkflowRuntime -------------------------
(* Model-checking instances of WorkflowRuntime.                            *)
EXTENDS WorkflowRuntime, TLC

\* An action, a branch that may skip the delay, and a last action.
BranchKind == <<"action", "branch", "delay", "action">>
BranchFollows == <<{2}, {3, 4}, {4}, {0}>>

\* A workflow that pauses itself, and completes itself before its last action.
PauseKind == <<"action", "pause", "complete", "action">>
PauseFollows == <<{2}, {3}, {4}, {0}>>

\* One action.
OneKind == <<"action">>
OneFollows == <<{0}>>

\* Workers are interchangeable; used by the safety runs only.
Symmetry == Permutations(Workers)
=============================================================================
