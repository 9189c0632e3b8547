---------------------------- MODULE SystemRecovery ----------------------------
(***************************************************************************)
(* What the core and the engine do about their own work: the run that the  *)
(* owner starts by hand becomes an objective with one step, which puts a   *)
(* run of jobs to the engine and watches it. Jobs that are dead letters    *)
(* are requeued by the core, by the engine and by the owner, superseded    *)
(* when they are duplicates, and taken back by migrations.                 *)
(* (autonomous_core.py, autopilot_service.py, workflow_engine.py)          *)
(*                                                                         *)
(* The cycle of the core is a job and also part of several routes, so that *)
(* its stages run in any order; each of them is one step, but for the      *)
(* dispatch, which commits as it goes and may die anywhere.                *)
(*                                                                         *)
(* Simplifications                                                         *)
(*  - Leases, attempts and claims are those of WorkflowEngine: a job that  *)
(*    is due completes or becomes a dead letter, and "pending" is also a   *)
(*    job that retries or runs.                                            *)
(*  - One job of run_va stands for the five that its planner depends on.   *)
(*  - Errors are told apart by their class, and those of one class have    *)
(*    one signature. The provider may be connected at any moment.          *)
(*  - One of the three migrations is outstanding.                          *)
(***************************************************************************)
EXTENDS Naturals, FiniteSets

CONSTANTS
  Sync, Planner,   \* the jobs of run_va
  Syncs, Plans,    \* jobs of the scheduler, of the types of these
  RecoveryLimit    \* max_automatic_recoveries

Parts == {Sync, Planner}
Cadence == Syncs \cup Plans
Work == Parts \cup Cadence

RecoveryAssumption ==
  /\ Sync # Planner /\ Parts \cap Cadence = {} /\ Syncs \cap Plans = {}
  /\ RecoveryLimit \in Nat

VARIABLES
  work,     \* workflow_jobs: status, the class of a dead letter's error, by (the job that
            \* replaced it); recovered: rows of the audit log
  run,      \* status of the workflow run
  step,     \* status of the objective's step
  manual,   \* status of the objective
  repaired, \* the row of the audit log that marks the migration
  early     \* history: the run was settled before all of its jobs were enqueued

recoveryVars == <<work, run, step, manual, repaired, early>>

\* failure_recovery_class
Classes == {"user_required", "transient", "unknown"}
Type(j) == IF j \in Plans \cup {Planner} THEN Planner ELSE Sync
Queued == [status |-> "pending", error |-> "none", by |-> {}, recovered |-> 0]
DeadLetters == {j \in Work : work[j].status = "dead_letter"}
UserLetters == {j \in DeadLetters : work[j].error = "user_required"}
RunJobs(jobs) == {j \in Parts : jobs[j].status # "absent"}

RecoveryInit ==
  /\ work = [j \in Work |-> IF j \in Cadence THEN Queued
                            ELSE [Queued EXCEPT !.status = "absent"]]
  /\ run = "none" /\ step = "none" /\ manual = "none"
  /\ repaired = FALSE /\ early = FALSE

-----------------------------------------------------------------------------
\* refresh_workflow_status, after a change of one of its jobs
Refreshed(jobs) ==
  LET statuses == {jobs[j].status : j \in RunJobs(jobs)} IN
  CASE statuses = {} -> run
    [] "dead_letter" \in statuses -> "failed"
    [] statuses = {"completed"} -> "completed"
    [] statuses \in {{"superseded"}, {"completed", "superseded"}} -> "superseded"
    [] OTHER -> "running"

RefreshFor(changed) ==
  run' = IF changed \cap RunJobs(work) = {} THEN run ELSE Refreshed(work')

\* The engine works a job off. A job that depends on another waits for its completion:
\* that of one that is superseded never comes.
JobEnds(j) ==
  /\ work[j].status = "pending"
  /\ j = Planner => work[Sync].status = "completed"
  /\ \/ work' = [work EXCEPT ![j].status = "completed"]
     \/ \E class \in Classes :
          work' = [work EXCEPT ![j].status = "dead_letter", ![j].error = class]
  /\ RefreshFor({j})
  /\ UNCHANGED <<step, manual, repaired, early>>

-----------------------------------------------------------------------------
\* create_manual_run_event, and its objective with one step
RequestRun ==
  /\ manual = "none"
  /\ manual' = "planned" /\ step' = "pending"
  /\ UNCHANGED <<work, run, repaired, early>>

\* execute_ready_steps and the first commit of _execute_step, unless the core is disabled
StartRun ==
  /\ step \in {"pending", "retry"} /\ manual # "needs_user"
  /\ \/ step' = "running" /\ manual' = "executing"
     \/ step' = "blocked_capability" /\ manual' = "blocked_system"
  /\ UNCHANGED <<work, run, repaired, early>>

\* dispatch_intent: create_workflow, then one commit for each job. A step that is tried
\* again finds the run and adds nothing to it.
Enqueue(j) ==
  /\ step = "running" /\ work[j].status = "absent"
  /\ \/ j = Sync /\ run = "none"
     \/ j = Planner /\ work[Sync].status # "absent"
  /\ work' = [work EXCEPT ![j] = Queued]
  /\ run' = IF run = "none" THEN "running" ELSE run
  /\ early' = (early \/ run \in {"completed", "superseded"})
  /\ UNCHANGED <<step, manual, repaired>>

\* It returned. A step that a crash leaves "running" stays so.
Dispatched ==
  /\ step = "running" /\ run # "none"
  /\ step' = "verifying" /\ manual' = "verifying"
  /\ early' = (early \/ work[Planner].status = "absent")
  /\ UNCHANGED <<work, run, repaired>>

\* It raised, with what it had committed.
DispatchFails ==
  /\ step = "running"
  /\ \/ step' = "retry" /\ manual' = "waiting"
     \/ step' = "failed" /\ manual' = "blocked_system"
  /\ UNCHANGED <<work, run, repaired, early>>

\* Whether a job was done, by itself or by the one that replaced it
\* Mutant: a job that another replaces counts as done.
IsReplaced(j) == work[j].status = "completed" \/ work[j].by # {}
DoneElsewhere(j) ==
  \/ work[j].status = "completed"
  \/ work[j].status = "superseded" /\ \E k \in work[j].by : work[k].status = "completed"

\* verify_ready_steps
VerifyRun ==
  LET dead == {work[j].error : j \in DeadLetters \cap Parts}
      settle(s, o) == step' = s /\ manual' = o IN
  /\ step = "verifying"
  /\ CASE run = "completed" -> settle("completed", "completed")
       [] run = "superseded" ->
            IF \A j \in RunJobs(work) : DoneElsewhere(j)
            THEN settle("completed", "completed")
            ELSE settle(step, "waiting_external")
       [] run = "failed" ->
            IF "user_required" \in dead THEN settle("blocked_user", "needs_user")
            ELSE IF "transient" \in dead THEN settle(step, "waiting_external")
            ELSE settle("failed", "blocked_system")
       [] OTHER -> settle(step, "verifying")
  /\ UNCHANGED <<work, run, repaired, early>>

-----------------------------------------------------------------------------
\* Dead letters that are due again, and their run
Again(row) == [row EXCEPT !.status = "pending", !.error = "none"]
Requeue(jobs) ==
  /\ work' = [j \in Work |-> IF j \in jobs THEN Again(work[j]) ELSE work[j]]
  /\ run' = IF jobs \cap Parts = {} THEN run ELSE "running"

\* requeue_dead_letter, of the owner's route, or of recover_resolved_user_blockers for the
\* objective that the dead letter has itself: SourceObjectives
RequeueLetter(j) ==
  /\ j \in DeadLetters /\ Requeue({j})
  /\ UNCHANGED <<step, manual, repaired, early>>

\* recover_resolved_user_blockers for the run: the connection works again, and its dead
\* letters have not been requeued before.
ResumeRun ==
  LET letters == UserLetters \cap Parts IN
  /\ manual = "needs_user" /\ step = "blocked_user" /\ letters # {}
  /\ Requeue(letters)
  /\ step' = "verifying" /\ manual' = "waiting_external"
  /\ UNCHANGED <<repaired, early>>

-----------------------------------------------------------------------------
Signature(j) == <<Type(j), work[j].error>>
Alike(j, jobs) == {k \in jobs : Signature(k) = Signature(j)}
NoDuplicates == \A j \in DeadLetters : Alike(j, DeadLetters) = {j}

\* compact_duplicate_dead_letters keeps the latest of each signature, whichever it is.
Compact ==
  /\ \E keep \in SUBSET DeadLetters :
       /\ \A j \in DeadLetters : Cardinality(Alike(j, keep)) = 1
       /\ work' = [j \in Work |->
            IF j \in DeadLetters \ keep
            THEN [work[j] EXCEPT !.status = "superseded", !.by = Alike(j, keep)]
            ELSE work[j]]
       /\ RefreshFor(DeadLetters \ keep)
  /\ UNCHANGED <<step, manual, repaired, early>>

\* auto_recover_transient_failures, after its compaction
AutoRecover(j) ==
  /\ NoDuplicates /\ j \in DeadLetters /\ work[j].error = "transient"
  /\ work[j].recovered < RecoveryLimit
  /\ work' = [work EXCEPT ![j] = [Again(work[j]) EXCEPT !.recovered = work[j].recovered + 1]]
  /\ run' = IF j \in Parts THEN "running" ELSE run
  /\ UNCHANGED <<step, manual, repaired, early>>

\* recover_autopilot_exceptions of the owner's route, after its compaction
RecoverAll ==
  /\ NoDuplicates /\ DeadLetters # {}
  /\ Requeue(DeadLetters)
  /\ UNCHANGED <<step, manual, repaired, early>>

\* The migrations of main.py take back jobs that no other replaces: those that met a
\* conflict, or whatever a connector's job met.
ConflictBacklog == {j \in Work : work[j].status = "pending" \/ work[j].error = "transient"}
ConnectorBacklog == {j \in Work : work[j].status \in {"pending", "dead_letter"}}

Migrate ==
  /\ ~repaired /\ repaired' = TRUE
  /\ \E jobs \in (SUBSET ConflictBacklog) \cup {ConnectorBacklog} :
       LET backlog == {j \in jobs : Type(j) = Sync} IN
       /\ work' = [j \in Work |-> IF j \in backlog
                                 THEN [work[j] EXCEPT !.status = "superseded"] ELSE work[j]]
       /\ RefreshFor(backlog)
  /\ UNCHANGED <<step, manual, early>>

RecoveryNext ==
  \/ RequestRun \/ StartRun \/ Dispatched \/ DispatchFails \/ VerifyRun
  \/ ResumeRun \/ Compact \/ RecoverAll \/ Migrate
  \/ \E j \in Work : JobEnds(j) \/ Enqueue(j) \/ RequeueLetter(j) \/ AutoRecover(j)

RecoverySpec == RecoveryInit /\ [][RecoveryNext]_recoveryVars

-----------------------------------------------------------------------------
RecoveryTypeOK ==
  /\ \A j \in Work :
       /\ work[j].status \in {"absent", "pending", "completed", "dead_letter",
                              "superseded"}
       /\ work[j].error \in Classes \cup {"none"} /\ work[j].by \subseteq Work
       /\ work[j].recovered \in 0..RecoveryLimit
  /\ run \in {"none", "running", "completed", "superseded", "failed"}

\* What is called done was done, however its jobs were requeued, replaced and taken back
\* meanwhile: each job of a completed manual run completed, or the job that replaced it
\* did, unless the run was cut short.
DoneMeansDone ==
  manual = "completed" /\ ~early =>
    \A j \in RunJobs(work) :
      \E k \in {j} \cup work[j].by : work[k].status = "completed"
===============================================================================
