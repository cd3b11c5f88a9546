-------------------------- MODULE MCWorkflowManager --------------------------
(* Small instances of WorkflowManager for TLC: job 1 runs on this node. *)
EXTENDS WorkflowManager, TLC

CONSTANTS h1, h2

OneHandler  == {h1}
TwoHandlers == {h1, h2}
FirstLocal  == {1}

HandlerSymmetry == Permutations(Handlers)
=============================================================================
