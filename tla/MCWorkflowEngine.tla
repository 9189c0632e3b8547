-------------------------- MODULE MCWorkflowEngine --------------------------
(***************************************************************************)
(* Small instances of WorkflowEngine for TLC.                              *)
(***************************************************************************)
EXTENDS WorkflowEngine, TLC

CONSTANTS ja, jb, w1, w2, r1

\* A run of two jobs, the second waiting for the first (dispatch_intent gives
\* the planner job such dependencies).
ChainDeps == (ja :> {}) @@ (jb :> {ja})
OneRun == (ja :> r1) @@ (jb :> r1)
NoRuns == (ja :> NoRun) @@ (jb :> NoRun)
SameType == (ja :> "bill.lifecycle") @@ (jb :> "bill.lifecycle")
SamePriority == (ja :> 8) @@ (jb :> 8)

WorkerSymmetry == Permutations({w1, w2})
=============================================================================
