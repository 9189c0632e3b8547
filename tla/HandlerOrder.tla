---------------------------- MODULE HandlerOrder ----------------------------
(***************************************************************************)
(* What the workflow engine promises about the handlers of its jobs, with  *)
(* leases, retries, crashes and rows left out: a job's handler runs at     *)
(* least once when it runs at all, perhaps several times and on several    *)
(* workers at once, but only for work that was admitted and only after a   *)
(* handler of everything it depends on has returned successfully.          *)
(***************************************************************************)
CONSTANTS Jobs, Deps

VARIABLES
  admitted,   \* jobs that have been enqueued
  executing,  \* jobs with a handler in flight
  finished    \* jobs of which a handler has returned successfully

orderVars == <<admitted, executing, finished>>

Init ==
  /\ admitted = {}
  /\ executing = {}
  /\ finished = {}

Admit(j) ==
  /\ j \notin admitted
  /\ admitted' = admitted \cup {j}
  /\ UNCHANGED <<executing, finished>>

Start(j) ==
  /\ j \in admitted
  /\ Deps[j] \subseteq finished
  /\ executing' = executing \cup {j}
  /\ UNCHANGED <<admitted, finished>>

\* Another worker may still be running a handler of the same job.
Return(j) ==
  /\ j \in executing
  /\ finished' = finished \cup {j}
  /\ executing' \in {executing, executing \ {j}}
  /\ UNCHANGED admitted

Stop(j) ==
  /\ j \in executing
  /\ executing' = executing \ {j}
  /\ UNCHANGED <<admitted, finished>>

Next == \E j \in Jobs : Admit(j) \/ Start(j) \/ Return(j) \/ Stop(j)

Spec == Init /\ [][Next]_orderVars
=============================================================================
