--------------------------- MODULE WorkflowEngine ---------------------------
(***************************************************************************)
(* The durable workflow engine, backend/app/services/workflow_engine.py:   *)
(* rows of workflow_jobs that workers lease, run, complete, retry or       *)
(* dead-letter, while maintenance sessions (the watchdog, the provider     *)
(* health recovery and the owner's requeue buttons) rewrite the same rows. *)
(*                                                                         *)
(* What is kept: every status change with its guard, who owns a lease and  *)
(* what a session still believes about a row it loaded earlier.            *)
(*                                                                         *)
(* Simplifications                                                         *)
(*  - Time is two flags per row: "due" (run_after has passed) and          *)
(*    "expired" (lease_expires_at has passed).                             *)
(*  - last_error is kept while a row is a dead letter, the only status     *)
(*    whose last_error is read; every path into it writes the column.      *)
(*  - A session that reads and writes with no work in between (lease,      *)
(*    heartbeat) is one step.  A handler's session, open while the handler *)
(*    runs, and a maintenance session, which reads a set of rows and       *)
(*    updates them by primary key later, are two steps: complete_job and   *)
(*    fail_job may decide on the row as it was loaded before the handler.  *)
(*  - The autonomous core requeues a user_required dead letter when the     *)
(*    capability is available; here at any time, for a job outside a run   *)
(*    more often than once.                                                *)
(*  - A run's status is refreshed with the write it follows: the           *)
(*    transaction reads no row another one has changed and not committed.  *)
(***************************************************************************)
EXTENDS Naturals, FiniteSets

CONSTANTS
  Jobs,         \* logical jobs, one per idempotency key
  Workers,      \* worker ids; a restarted process has the id it had before
  Sessions,     \* maintenance sessions that may be open at once
  Runs,         \* workflow runs
  Errors,       \* messages a handler can fail with
  Transient,    \* the messages failure_recovery_class calls transient
  UserRequired, \* and those it calls user_required
  LeaseExpired, \* the message the watchdog writes
  NoError, NoWorker, NoJob, NoRun,
  Deps,         \* Deps[j]: jobs that j depends on
  RunOf,        \* RunOf[j]: workflow_run_id or NoRun
  TypeOf,       \* TypeOf[j]: job_type
  Priority,     \* Priority[j]: lower is leased first
  MaxAttempts,  \* max_attempts
  BatchLimit,   \* limit of lease_due_jobs
  MaxAuto       \* max_automatic_recoveries

(***************************************************************************)
(* enqueue_job makes max_attempts at least 1, lease_due_jobs its limit.    *)
(***************************************************************************)
ASSUME EngineAssumption ==
  /\ MaxAttempts \in Nat \ {0}
  /\ BatchLimit \in Nat \ {0}
  /\ MaxAuto \in Nat
  /\ Deps \in [Jobs -> SUBSET Jobs]
  /\ RunOf \in [Jobs -> Runs \cup {NoRun}]
  /\ Priority \in [Jobs -> Nat]
  /\ TypeOf \in [Jobs -> STRING]
  /\ NoJob \notin Jobs /\ NoWorker \notin Workers /\ NoRun \notin Runs
  /\ LeaseExpired \notin Errors /\ NoError \notin Errors \cup {LeaseExpired}
  /\ Transient \subseteq Errors \cup {LeaseExpired}
  /\ UserRequired \subseteq Errors

VARIABLES
  (* columns of workflow_jobs; "absent" is a row not inserted yet *)
  status, attempts, owner, expired, due, lastError,
  autoRecoveries,   \* AuditLog rows workflow_job_auto_recovered of the job
  runStatus,        \* workflow_runs.status
  (* memory of a worker process *)
  batch,            \* leased jobs worker_tick has still to execute
  session,          \* the job whose handler runs, or NoJob
  loadedOwner,      \* lease_owner of that job as the handler's session loaded it
  loadedAttempts,   \* and its attempts
  (* memory of a maintenance session *)
  stage,            \* the query it is about to make
  plan,             \* the updates it has decided on and not committed
  (* history *)
  done,             \* done[j]: a handler of j has returned successfully
  starts            \* starts[j]: handler starts since attempts was last zeroed

row == <<status, attempts, owner, expired, due, lastError, autoRecoveries>>
memory == <<batch, session, loadedOwner, loadedAttempts>>
maintenance == <<stage, plan>>
history == <<done, starts>>
vars == <<row, runStatus, memory, maintenance, history>>

Statuses == {"absent", "pending", "running", "retry", "completed",
             "dead_letter", "superseded"}
Settled == {"completed", "dead_letter", "superseded"}
RunStatuses == {"absent", "running", "completed", "failed", "superseded"}
Stages == {"idle", "recover", "compact", "auto_compact", "auto",
           "all_compact", "all", "one", "resume"}
Updates == {"keep", "retry", "dead_letter", "superseded", "requeue", "auto"}

TypeOK ==
  /\ status \in [Jobs -> Statuses]
  /\ attempts \in [Jobs -> Nat]
  /\ owner \in [Jobs -> Workers \cup {NoWorker}]
  /\ expired \in [Jobs -> BOOLEAN]
  /\ due \in [Jobs -> BOOLEAN]
  /\ lastError \in [Jobs -> Errors \cup {LeaseExpired, NoError}]
  /\ autoRecoveries \in [Jobs -> Nat]
  /\ runStatus \in [Runs -> RunStatuses]
  /\ batch \in [Workers -> SUBSET Jobs]
  /\ session \in [Workers -> Jobs \cup {NoJob}]
  /\ loadedOwner \in [Workers -> Workers \cup {NoWorker}]
  /\ loadedAttempts \in [Workers -> Nat]
  /\ stage \in [Sessions -> Stages]
  /\ plan \in [Sessions -> [Jobs -> Updates]]
  /\ done \in [Jobs -> BOOLEAN]
  /\ starts \in [Jobs -> Nat]

NoChange == [j \in Jobs |-> "keep"]

Init ==
  /\ status = [j \in Jobs |-> "absent"]
  /\ attempts = [j \in Jobs |-> 0]
  /\ owner = [j \in Jobs |-> NoWorker]
  /\ expired = [j \in Jobs |-> FALSE]
  /\ due = [j \in Jobs |-> FALSE]
  /\ lastError = [j \in Jobs |-> NoError]
  /\ autoRecoveries = [j \in Jobs |-> 0]
  /\ runStatus = [r \in Runs |-> "absent"]
  /\ batch = [w \in Workers |-> {}]
  /\ session = [w \in Workers |-> NoJob]
  /\ loadedOwner = [w \in Workers |-> NoWorker]
  /\ loadedAttempts = [w \in Workers |-> 0]
  /\ stage = [m \in Sessions |-> "idle"]
  /\ plan = [m \in Sessions |-> NoChange]
  /\ done = [j \in Jobs |-> FALSE]
  /\ starts = [j \in Jobs |-> 0]

-----------------------------------------------------------------------------
(***************************************************************************)
(* Workflow runs                                                           *)
(***************************************************************************)
Members(r) == {j \in Jobs : RunOf[j] = r}
MemberStatuses(r, st) == {st[j] : j \in Members(r)} \ {"absent"}

\* Mutant: the run takes over the status of one of its jobs.
StatusOfSomeMember(r, st) ==
  IF MemberStatuses(r, st) = {} THEN runStatus[r]
  ELSE CHOOSE s \in MemberStatuses(r, st) : TRUE

\* The status refresh_workflow_status gives run r when the rows have status st.
RefreshedStatus(r, st) ==
  LET S == MemberStatuses(r, st) IN
  IF S = {} THEN runStatus[r]
  ELSE IF "dead_letter" \in S THEN "failed"
  ELSE IF S \subseteq {"completed"} THEN "completed"
  ELSE IF S \subseteq {"completed", "superseded"} THEN "superseded"
  ELSE "running"

\* Mutant: the refresh reads the rows before the pending update is flushed.
RefreshBeforeFlush(affected) ==
  runStatus' = [r \in Runs |-> IF r \in affected
                               THEN RefreshedStatus(r, status)
                               ELSE runStatus[r]]

Refresh(affected) ==
  runStatus' = [r \in Runs |-> IF r \in affected
                               THEN RefreshedStatus(r, status')
                               ELSE runStatus[r]]

CreateWorkflow(r) ==
  /\ runStatus[r] = "absent"
  /\ runStatus' = [runStatus EXCEPT ![r] = "running"]
  /\ UNCHANGED <<row, memory, maintenance, history>>

\* A key already used returns the existing row and changes nothing.
EnqueueJob(j) ==
  /\ status[j] = "absent"
  /\ RunOf[j] # NoRun => runStatus[RunOf[j]] # "absent"
  /\ \A d \in Deps[j] : status[d] # "absent"
  /\ status' = [status EXCEPT ![j] = "pending"]
  /\ \E b \in BOOLEAN : due' = [due EXCEPT ![j] = b]
  /\ UNCHANGED <<attempts, owner, expired, lastError, autoRecoveries,
                 runStatus, memory, maintenance, history>>

-----------------------------------------------------------------------------
(***************************************************************************)
(* Workers                                                                 *)
(***************************************************************************)
\* Mutant of the has_blocker clause: only a dependency that is still live blocks.
UnblockedUnlessLive(j) == \A d \in Deps[j] : status[d] \notin {"pending", "running", "retry"}

Unblocked(j) == \A d \in Deps[j] : status[d] = "completed"
Leasable == {j \in Jobs : status[j] \in {"pending", "retry"} /\ due[j] /\ Unblocked(j)}

\* ORDER BY priority LIMIT BatchLimit; ties are broken arbitrarily.
IsBatch(S) ==
  /\ S \subseteq Leasable
  /\ S # {}
  /\ \/ S = Leasable /\ Cardinality(S) <= BatchLimit
     \/ Cardinality(S) = BatchLimit
  /\ \A j \in S, k \in Leasable \ S : Priority[j] <= Priority[k]

IdleWorker(w) == batch[w] = {} /\ session[w] = NoJob

LeaseDueJobs(w) ==
  /\ IdleWorker(w)
  /\ \E S \in SUBSET Jobs :
       /\ IsBatch(S)
       /\ status' = [j \in Jobs |-> IF j \in S THEN "running" ELSE status[j]]
       /\ attempts' = [j \in Jobs |-> IF j \in S THEN attempts[j] + 1 ELSE attempts[j]]
       /\ owner' = [j \in Jobs |-> IF j \in S THEN w ELSE owner[j]]
       /\ expired' = [j \in Jobs |-> IF j \in S THEN FALSE ELSE expired[j]]
       /\ batch' = [batch EXCEPT ![w] = S]
  /\ UNCHANGED <<due, lastError, autoRecoveries, runStatus, session, loadedOwner,
                 loadedAttempts, maintenance, history>>

\* Mutant: the worker checks that the row runs, not that it still owns it.
RunningForAnyone(w, j) == status[j] = "running"

HoldsLease(w, j) == status[j] = "running" /\ owner[j] = w

\* execute_one_job loads the row; its handler starts only under the lease.
StartHandler(w, j) ==
  /\ session[w] = NoJob /\ j \in batch[w]
  /\ HoldsLease(w, j)
  /\ batch' = [batch EXCEPT ![w] = @ \ {j}]
  /\ session' = [session EXCEPT ![w] = j]
  /\ loadedOwner' = [loadedOwner EXCEPT ![w] = owner[j]]
  /\ loadedAttempts' = [loadedAttempts EXCEPT ![w] = attempts[j]]
  /\ starts' = [starts EXCEPT ![j] = @ + 1]
  /\ UNCHANGED <<row, runStatus, maintenance, done>>

SkipLostLease(w, j) ==
  /\ session[w] = NoJob /\ j \in batch[w]
  /\ ~ HoldsLease(w, j)
  /\ batch' = [batch EXCEPT ![w] = @ \ {j}]
  /\ UNCHANGED <<row, runStatus, session, loadedOwner, loadedAttempts,
                 maintenance, history>>

\* Only the executing job has a heartbeat, not the rest of the batch.
HeartbeatJob(w) ==
  /\ session[w] # NoJob
  /\ HoldsLease(w, session[w])
  /\ expired[session[w]]
  /\ expired' = [expired EXCEPT ![session[w]] = FALSE]
  /\ UNCHANGED <<status, attempts, owner, due, lastError, autoRecoveries,
                 runStatus, memory, maintenance, history>>

EndSession(w) ==
  /\ session' = [session EXCEPT ![w] = NoJob]
  /\ loadedOwner' = [loadedOwner EXCEPT ![w] = NoWorker]
  /\ loadedAttempts' = [loadedAttempts EXCEPT ![w] = 0]

\* The ownership check reads the attribute loaded before the handler ran:
\* sessions do not expire on commit, and the UPDATE names only the row's id.
CompleteJob(w) ==
  LET j == session[w] IN
  /\ j # NoJob
  /\ loadedOwner[w] = w
  /\ status' = [status EXCEPT ![j] = "completed"]
  /\ owner' = [owner EXCEPT ![j] = NoWorker]
  /\ expired' = [expired EXCEPT ![j] = FALSE]
  /\ lastError' = [lastError EXCEPT ![j] = NoError]
  /\ Refresh({RunOf[j]})
  /\ done' = [done EXCEPT ![j] = TRUE]
  /\ EndSession(w)
  /\ UNCHANGED <<attempts, due, autoRecoveries, batch, maintenance, starts>>

\* What the session knows of the row after db.rollback and db.get: the row as it
\* is when the rollback ended an open transaction and so expired the session's
\* copy, else (the handler's last statement was a commit) the copy loaded before
\* the handler ran.
RowAsSeen(w) ==
  {[owner |-> owner[session[w]], attempts |-> attempts[session[w]]],
   [owner |-> loadedOwner[w], attempts |-> loadedAttempts[w]]}

\* The handler raised.  fail_job checks and counts on the row as seen and writes
\* by primary key whatever the row has become, another worker's lease included.
FailJob(w, e) ==
  LET j == session[w] IN
  /\ j # NoJob
  /\ \E seen \in RowAsSeen(w) :
       /\ seen.owner = w
       /\ IF seen.attempts >= MaxAttempts
          THEN /\ status' = [status EXCEPT ![j] = "dead_letter"]
               /\ lastError' = [lastError EXCEPT ![j] = e]
               /\ UNCHANGED due
          ELSE /\ status' = [status EXCEPT ![j] = "retry"]
               /\ lastError' = [lastError EXCEPT ![j] = NoError]
               /\ due' = [due EXCEPT ![j] = FALSE]
  /\ owner' = [owner EXCEPT ![j] = NoWorker]
  /\ expired' = [expired EXCEPT ![j] = FALSE]
  /\ Refresh({RunOf[j]})
  /\ EndSession(w)
  /\ UNCHANGED <<attempts, autoRecoveries, batch, maintenance, history>>

\* fail_job raises: nothing in worker_tick catches it, the batch is abandoned.
FailRefused(w) ==
  /\ session[w] # NoJob
  /\ \E seen \in RowAsSeen(w) : seen.owner # w
  /\ EndSession(w)
  /\ batch' = [batch EXCEPT ![w] = {}]
  /\ UNCHANGED <<row, runStatus, maintenance, history>>

\* The process dies and comes back under the same hostname:pid.
CrashWorker(w) ==
  /\ ~ IdleWorker(w)
  /\ EndSession(w)
  /\ batch' = [batch EXCEPT ![w] = {}]
  /\ UNCHANGED <<row, runStatus, maintenance, history>>

-----------------------------------------------------------------------------
(***************************************************************************)
(* Maintenance: each session runs a short program of queries, and commits  *)
(* the updates of one query before it makes the next.                      *)
(***************************************************************************)
Following == [s \in Stages |->
  CASE s = "recover" -> "compact"
    [] s = "auto_compact" -> "auto"
    [] s = "all_compact" -> "all"
    [] OTHER -> "idle"]

\* watchdog job and startup: recover_expired_leases, compact_duplicate_dead_letters
\* provider health: auto_recover_transient_failures
\* the owner's buttons: recover_autopilot_exceptions, requeue_dead_letter
\* the core's cycle: recover_resolved_user_blockers, again requeue_dead_letter
Programs == {"recover", "auto_compact", "all_compact", "one", "resume"}

StartMaintenance(m, p) ==
  /\ stage[m] = "idle"
  /\ stage' = [stage EXCEPT ![m] = p]
  /\ UNCHANGED <<row, runStatus, memory, plan, history>>

DeadLetters == {j \in Jobs : status[j] = "dead_letter"}
Overdue == {j \in Jobs : status[j] = "running" /\ expired[j]}

\* Mutants: the watchdog never dead-letters; it recovers only rows with budget.
RecoverAlways == [j \in Jobs |-> IF j \notin Overdue THEN "keep" ELSE "retry"]
RecoverWithBudget ==
  [j \in Jobs |-> IF j \in Overdue /\ attempts[j] < MaxAttempts THEN "retry" ELSE "keep"]

RecoverPlan ==
  [j \in Jobs |-> IF j \notin Overdue THEN "keep"
                  ELSE IF attempts[j] >= MaxAttempts THEN "dead_letter" ELSE "retry"]

FailureSignature(j) == <<TypeOf[j], lastError[j]>>

\* One keeper per signature (the newest; which row that is, is left open).
Keepers == {K \in SUBSET DeadLetters :
              \A j \in DeadLetters :
                Cardinality({k \in K : FailureSignature(k) = FailureSignature(j)}) = 1}

Mark(S, update) == [j \in Jobs |-> IF j \in S THEN update ELSE "keep"]

AutoRecoverable == {j \in DeadLetters : lastError[j] \in Transient /\ autoRecoveries[j] < MaxAuto}

UserBlocked == {j \in DeadLetters : lastError[j] \in UserRequired}

\* The updates each query can decide on.  A cooldown may hold rows back.
PlansAt(s) ==
  CASE s = "recover" -> {RecoverPlan}
    [] s \in {"compact", "auto_compact", "all_compact"} ->
         {Mark(DeadLetters \ K, "superseded") : K \in Keepers}
    [] s = "auto" -> {Mark(S, "auto") : S \in SUBSET AutoRecoverable}
    [] s = "all" -> {Mark(DeadLetters, "requeue")}
    [] s = "one" -> {NoChange} \cup {Mark({j}, "requeue") : j \in DeadLetters}
    [] s = "resume" -> {NoChange} \cup {Mark({j}, "requeue") : j \in UserBlocked}
    [] OTHER -> {}

ReadRows(m) ==
  /\ stage[m] # "idle" /\ plan[m] = NoChange
  /\ \E p \in PlansAt(stage[m]) :
       IF p = NoChange
       THEN stage' = [stage EXCEPT ![m] = Following[@]] /\ UNCHANGED plan
       ELSE plan' = [plan EXCEPT ![m] = p] /\ UNCHANGED stage
  /\ UNCHANGED <<row, runStatus, memory, history>>

\* Mutant: the recovery leaves no audit row, so its budget is never used up.
Unaudited(p) == autoRecoveries

\* The AuditLog rows, which are also the count of automatic recoveries.
Audited(p) == [j \in Jobs |-> IF p[j] = "auto" THEN autoRecoveries[j] + 1 ELSE autoRecoveries[j]]

Resumed == {"retry", "requeue", "auto"}
Reset == {"requeue", "auto"}

\* The commit: UPDATE ... WHERE id, whatever the row has become.  An attribute
\* set to the value it was loaded with is not written: the lease columns of a
\* row loaded as a dead letter stay as they are.
WriteRows(m) ==
  LET p == plan[m]
      touched == {j \in Jobs : p[j] # "keep"}
      restarted == {RunOf[j] : j \in {k \in touched : p[k] \in Reset}}
      refreshed == {RunOf[j] : j \in {k \in touched : p[k] \notin Reset}}
  IN
  /\ touched # {}
  /\ status' = [j \in Jobs |-> IF j \notin touched THEN status[j]
                               ELSE IF p[j] \in Resumed THEN "retry" ELSE p[j]]
  /\ attempts' = [j \in Jobs |-> IF p[j] \in Reset THEN 0 ELSE attempts[j]]
  /\ starts' = [j \in Jobs |-> IF p[j] \in Reset THEN 0 ELSE starts[j]]
  /\ owner' = [j \in Jobs |-> IF p[j] \in {"retry", "dead_letter"} THEN NoWorker ELSE owner[j]]
  /\ expired' = [j \in Jobs |-> IF p[j] \in {"retry", "dead_letter"} THEN FALSE ELSE expired[j]]
  /\ due' = [j \in Jobs |-> IF p[j] \in Resumed THEN TRUE ELSE due[j]]
  /\ lastError' = [j \in Jobs |-> IF p[j] = "dead_letter" THEN LeaseExpired
                                  ELSE IF p[j] = "keep" THEN lastError[j] ELSE NoError]
  /\ autoRecoveries' = Audited(p)
  /\ runStatus' = [r \in Runs |-> IF r \in restarted THEN "running"
                                  ELSE IF r \in refreshed THEN RefreshedStatus(r, status')
                                  ELSE runStatus[r]]
  /\ plan' = [plan EXCEPT ![m] = NoChange]
  /\ stage' = [stage EXCEPT ![m] = Following[@]]
  /\ UNCHANGED <<memory, done>>

AbortMaintenance(m) ==
  /\ stage[m] # "idle"
  /\ stage' = [stage EXCEPT ![m] = "idle"]
  /\ plan' = [plan EXCEPT ![m] = NoChange]
  /\ UNCHANGED <<row, runStatus, memory, history>>

-----------------------------------------------------------------------------
(***************************************************************************)
(* Time                                                                    *)
(***************************************************************************)
RunAfterPasses(j) ==
  /\ status[j] \in {"pending", "retry"} /\ ~ due[j]
  /\ due' = [due EXCEPT ![j] = TRUE]
  /\ UNCHANGED <<status, attempts, owner, expired, lastError, autoRecoveries,
                 runStatus, memory, maintenance, history>>

LeaseExpires(j) ==
  /\ status[j] = "running" /\ ~ expired[j]
  /\ expired' = [expired EXCEPT ![j] = TRUE]
  /\ UNCHANGED <<status, attempts, owner, due, lastError, autoRecoveries,
                 runStatus, memory, maintenance, history>>

WorkerStep(w) ==
  \/ LeaseDueJobs(w)
  \/ \E j \in Jobs : StartHandler(w, j) \/ SkipLostLease(w, j)
  \/ HeartbeatJob(w)
  \/ CompleteJob(w)
  \/ \E e \in Errors : FailJob(w, e)
  \/ FailRefused(w)
  \/ CrashWorker(w)

MaintenanceStep(m) ==
  \/ \E p \in Programs : StartMaintenance(m, p)
  \/ ReadRows(m)
  \/ WriteRows(m)
  \/ AbortMaintenance(m)

Next ==
  \/ \E r \in Runs : CreateWorkflow(r)
  \/ \E j \in Jobs : EnqueueJob(j) \/ RunAfterPasses(j) \/ LeaseExpires(j)
  \/ \E w \in Workers : WorkerStep(w)
  \/ \E m \in Sessions : MaintenanceStep(m)

Spec == Init /\ [][Next]_vars

-----------------------------------------------------------------------------
(***************************************************************************)
(* Fairness.  APScheduler fires the worker every 5 s and the watchdog      *)
(* every 60 s for as long as the process lives, handlers return or raise,  *)
(* clocks advance.  A maintenance session that another program keeps       *)
(* taking still reaches the watchdog, and the process is not killed in     *)
(* every single watchdog pass (strong fairness: the scheduler opens a      *)
(* session of its own each time).  Nothing makes the owner press a button, *)
(* and nothing forces a crash, a heartbeat or the enqueueing of a job.     *)
(***************************************************************************)
Fairness ==
  /\ \A w \in Workers :
       /\ WF_vars(LeaseDueJobs(w))
       /\ WF_vars(\E j \in Jobs : StartHandler(w, j) \/ SkipLostLease(w, j))
       /\ WF_vars(CompleteJob(w) \/ FailRefused(w) \/ \E e \in Errors : FailJob(w, e))
  /\ \A m \in Sessions :
       /\ WF_vars(ReadRows(m))
       /\ WF_vars(WriteRows(m))
       /\ SF_vars(StartMaintenance(m, "recover"))
       /\ SF_vars(stage[m] = "recover" /\ ReadRows(m))
       /\ SF_vars(stage[m] = "recover" /\ WriteRows(m))
  /\ \A j \in Jobs : WF_vars(RunAfterPasses(j)) /\ WF_vars(LeaseExpires(j))

FairSpec == Spec /\ Fairness

-----------------------------------------------------------------------------
(***************************************************************************)
(* Properties                                                              *)
(***************************************************************************)

\* No handler runs before a handler of every dependency has returned
\* successfully, whatever leases expire, processes crash and sessions
\* overwrite rows in between (the has_blocker clause of lease_due_jobs).
DependenciesHonoured ==
  \A w \in Workers : session[w] # NoJob => \A d \in Deps[session[w]] : done[d]

\* Every start of a handler was paid for with an attempt: a job that keeps
\* killing its process, or is passed from worker to worker, still runs out
\* of max_attempts (attempts is charged by the lease, before the handler).
StartsAreCharged == \A j \in Jobs : starts[j] <= attempts[j]

\* attempts exceeds max_attempts only by leases given back on a decision about
\* the row as it was before the attempts were used up: one for each maintenance
\* session that can be open, and one for each worker but the one that took the
\* last attempt, whose handler may still fail under a lease it lost.
AttemptOverrun ==
  \A j \in Jobs :
    attempts[j] <= MaxAttempts + Cardinality(Sessions) + Cardinality(Workers) - 1

\* Once every job of a run has settled the run shows the outcome: failed if
\* one is dead, completed only if all completed, superseded otherwise (the
\* refresh with which every settling transition ends).
SettledRunReported ==
  \A r \in Runs :
    LET S == MemberStatuses(r, status) IN
    S # {} /\ S \subseteq Settled =>
      /\ runStatus[r] = "failed" <=> "dead_letter" \in S
      /\ runStatus[r] = "completed" <=> S = {"completed"}
      /\ runStatus[r] # "running"

\* Every job that was enqueued settles, or waits for a dependency that settled
\* without completing: no lease, retry or crash leaves it in between for ever.
Abandoned(j) == \E d \in Deps[j] : status[d] \in {"dead_letter", "superseded"}
EveryJobSettles ==
  \A j \in Jobs : status[j] # "absent" ~> status[j] \in Settled \/ Abandoned(j)

\* Without the owner's buttons the engine comes to rest: retries, watchdog
\* recoveries and automatic recoveries together are bounded
\* (docs/V0.6.1_VALIDATION.md:33, "Automatic dead-letter recovery is restricted to
\* classified transient failures and has a bounded recovery budget").
ButtonPressed == \E m \in Sessions : stage[m] \in {"all_compact", "all", "one"}
QuietWithoutOwner ==
  <>[](~ ButtonPressed) => <>[](\A j \in Jobs : status[j] # "running")

\* The engine implements HandlerOrder: handlers run in dependency order, at
\* least once, and only for work that was enqueued.
Order == INSTANCE HandlerOrder WITH
  admitted <- {j \in Jobs : status[j] # "absent"},
  executing <- {session[w] : w \in Workers} \ {NoJob},
  finished <- {j \in Jobs : done[j]}
ImplementsHandlerOrder == Order!Spec

=============================================================================
