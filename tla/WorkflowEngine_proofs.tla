------------------------ MODULE WorkflowEngine_proofs ------------------------
(***************************************************************************)
(* Theorems about WorkflowEngine for every value of its constants.         *)
(***************************************************************************)
EXTENDS WorkflowEngine, FiniteSetTheorems, TLAPS

-----------------------------------------------------------------------------
(***************************************************************************)
(* Type correctness                                                        *)
(***************************************************************************)

\* The refresh of a run gives it one of the statuses a run can have.
LEMMA RefreshType ==
  ASSUME runStatus \in [Runs -> RunStatuses], NEW r \in Runs, NEW st
  PROVE  RefreshedStatus(r, st) \in RunStatuses
BY DEF RefreshedStatus, RunStatuses

\* Every update a maintenance query can decide on is one WriteRows knows.
LEMMA PlanType ==
  ASSUME NEW s \in Stages, NEW p \in PlansAt(s)
  PROVE  p \in [Jobs -> Updates]
<1>1. NoChange \in [Jobs -> Updates]
  BY DEF NoChange, Updates
<1>2. RecoverPlan \in [Jobs -> Updates]
  BY DEF RecoverPlan, Updates
<1>3. \A S, u : u \in Updates => Mark(S, u) \in [Jobs -> Updates]
  BY DEF Mark, Updates
<1>4. CASE s = "recover"
  BY <1>2, <1>4 DEF PlansAt
<1>5. CASE s \in {"compact", "auto_compact", "all_compact"}
  <2>1. PICK K : p = Mark(DeadLetters \ K, "superseded")
    BY <1>5 DEF PlansAt
  <2> QED BY <1>3, <2>1 DEF Updates
<1>6. CASE s = "auto"
  BY <1>3, <1>6 DEF PlansAt, Updates
<1>7. CASE s = "all"
  BY <1>3, <1>7 DEF PlansAt, Updates
<1>8. CASE s \in {"one", "resume"}
  <2>1. p = NoChange \/ \E k : p = Mark({k}, "requeue")
    BY <1>8 DEF PlansAt
  <2> QED BY <1>1, <1>3, <2>1 DEF Updates
<1>9. CASE s = "idle"
  BY <1>9 DEF PlansAt
<1> QED
  BY <1>4, <1>5, <1>6, <1>7, <1>8, <1>9 DEF Stages

\* A maintenance program moves from one of its stages to another.
LEMMA FollowingType == Following \in [Stages -> Stages]
BY DEF Following, Stages

LEMMA InitTypeOK == Init => TypeOK
BY DEF Init, TypeOK, Statuses, RunStatuses, Stages, Updates, NoChange

\* Whichever copy of the row fail_job decides on, it makes the row a dead letter
\* or hands it back for a retry.
LEMMA FailWrites ==
  ASSUME TypeOK, NEW w \in Workers, NEW e \in Errors, FailJob(w, e)
  PROVE  /\ session[w] \in Jobs
         /\ \/ /\ status' = [status EXCEPT ![session[w]] = "dead_letter"]
               /\ lastError' = [lastError EXCEPT ![session[w]] = e]
               /\ due' = due
            \/ /\ status' = [status EXCEPT ![session[w]] = "retry"]
               /\ lastError' = [lastError EXCEPT ![session[w]] = NoError]
               /\ due' = [due EXCEPT ![session[w]] = FALSE]
BY DEF FailJob, TypeOK

\* Workers keep every variable in its type.
LEMMA WorkerTypeOK ==
  ASSUME TypeOK, NEW w \in Workers, WorkerStep(w)
  PROVE  TypeOK'
<1> USE EngineAssumption DEF TypeOK, vars, row, memory, maintenance, history
<1>1. CASE LeaseDueJobs(w)
  <2>1. PICK S \in SUBSET Jobs :
          /\ status' = [j \in Jobs |-> IF j \in S THEN "running" ELSE status[j]]
          /\ attempts' = [j \in Jobs |-> IF j \in S THEN attempts[j] + 1 ELSE attempts[j]]
          /\ owner' = [j \in Jobs |-> IF j \in S THEN w ELSE owner[j]]
          /\ expired' = [j \in Jobs |-> IF j \in S THEN FALSE ELSE expired[j]]
          /\ batch' = [batch EXCEPT ![w] = S]
    BY <1>1 DEF LeaseDueJobs
  <2>2. status' \in [Jobs -> Statuses] /\ attempts' \in [Jobs -> Nat]
    BY <2>1 DEF Statuses
  <2>3. /\ owner' \in [Jobs -> Workers \cup {NoWorker}]
        /\ expired' \in [Jobs -> BOOLEAN]
        /\ batch' \in [Workers -> SUBSET Jobs]
    BY <2>1
  <2> QED BY <1>1, <2>2, <2>3 DEF LeaseDueJobs
<1>2. ASSUME NEW j \in Jobs, StartHandler(w, j) PROVE TypeOK'
  BY <1>2 DEF StartHandler
<1>3. ASSUME NEW j \in Jobs, SkipLostLease(w, j) PROVE TypeOK'
  BY <1>3 DEF SkipLostLease
<1>4. CASE HeartbeatJob(w)
  BY <1>4 DEF HeartbeatJob
<1>5. CASE CompleteJob(w)
  <2>1. session[w] \in Jobs
    BY <1>5 DEF CompleteJob
  <2>2. runStatus' \in [Runs -> RunStatuses]
    BY <1>5, RefreshType DEF CompleteJob, Refresh
  <2> QED BY <1>5, <2>1, <2>2 DEF CompleteJob, EndSession, Statuses
<1>6. ASSUME NEW e \in Errors, FailJob(w, e) PROVE TypeOK'
  <2>1. session[w] \in Jobs
    BY <1>6, FailWrites
  <2>2. runStatus' \in [Runs -> RunStatuses]
    BY <1>6, RefreshType DEF FailJob, Refresh
  <2>3. status' \in [Jobs -> Statuses]
    <3>1. \/ status' = [status EXCEPT ![session[w]] = "dead_letter"]
          \/ status' = [status EXCEPT ![session[w]] = "retry"]
      BY <1>6, FailWrites
    <3> QED BY <3>1 DEF Statuses
  <2>4. lastError' \in [Jobs -> Errors \cup {LeaseExpired, NoError}]
    BY <1>6, <2>1, FailWrites
  <2>5. due' \in [Jobs -> BOOLEAN]
    BY <1>6, <2>1, FailWrites
  <2> QED BY <1>6, <2>1, <2>2, <2>3, <2>4, <2>5 DEF FailJob, EndSession
<1>7. CASE FailRefused(w)
  BY <1>7 DEF FailRefused, EndSession
<1>8. CASE CrashWorker(w)
  BY <1>8 DEF CrashWorker, EndSession
<1> QED
  BY <1>1, <1>2, <1>3, <1>4, <1>5, <1>6, <1>7, <1>8 DEF WorkerStep

\* So do maintenance sessions.
LEMMA MaintenanceTypeOK ==
  ASSUME TypeOK, NEW m \in Sessions, MaintenanceStep(m)
  PROVE  TypeOK'
<1> USE DEF TypeOK, vars, row, memory, maintenance, history
<1>1. ASSUME NEW p \in Programs, StartMaintenance(m, p) PROVE TypeOK'
  BY <1>1 DEF StartMaintenance, Programs, Stages
<1>2. CASE ReadRows(m)
  <2>1. PICK p \in PlansAt(stage[m]) :
          IF p = NoChange
          THEN stage' = [stage EXCEPT ![m] = Following[@]] /\ UNCHANGED plan
          ELSE plan' = [plan EXCEPT ![m] = p] /\ UNCHANGED stage
    BY <1>2 DEF ReadRows
  <2>2. p \in [Jobs -> Updates] /\ Following[stage[m]] \in Stages
    BY PlanType, FollowingType
  <2>3. stage' \in [Sessions -> Stages] /\ plan' \in [Sessions -> [Jobs -> Updates]]
    BY <2>1, <2>2
  <2> QED BY <1>2, <2>3 DEF ReadRows
<1>3. CASE WriteRows(m)
  <2>1. NoChange \in [Jobs -> Updates] /\ Following[stage[m]] \in Stages
    BY FollowingType DEF NoChange, Updates
  <2>2. stage' \in [Sessions -> Stages] /\ plan' \in [Sessions -> [Jobs -> Updates]]
    BY <1>3, <2>1 DEF WriteRows
  <2>3. plan[m] \in [Jobs -> Updates]
    OBVIOUS
  <2>4. status' \in [Jobs -> Statuses]
    BY <1>3, <2>3 DEF WriteRows, Updates, Statuses, Resumed
  <2>5. attempts' \in [Jobs -> Nat] /\ starts' \in [Jobs -> Nat]
    BY <1>3 DEF WriteRows
  <2>6. owner' \in [Jobs -> Workers \cup {NoWorker}]
    BY <1>3 DEF WriteRows
  <2>7. expired' \in [Jobs -> BOOLEAN] /\ due' \in [Jobs -> BOOLEAN]
    BY <1>3 DEF WriteRows
  <2>8. lastError' \in [Jobs -> Errors \cup {LeaseExpired, NoError}]
    BY <1>3 DEF WriteRows
  <2>9. autoRecoveries' \in [Jobs -> Nat]
    BY <1>3 DEF WriteRows, Audited
  <2>10. runStatus' \in [Runs -> RunStatuses]
    BY <1>3, RefreshType DEF WriteRows, RunStatuses
  <2> QED
    BY <1>3, <2>2, <2>4, <2>5, <2>6, <2>7, <2>8, <2>9, <2>10 DEF WriteRows
<1>4. CASE AbortMaintenance(m)
  BY <1>4 DEF AbortMaintenance, NoChange, Updates, Stages
<1> QED
  BY <1>1, <1>2, <1>3, <1>4 DEF MaintenanceStep

\* So does every step.
LEMMA NextTypeOK == TypeOK /\ [Next]_vars => TypeOK'
<1> SUFFICES ASSUME TypeOK, [Next]_vars PROVE TypeOK'
  OBVIOUS
<1> USE DEF TypeOK, vars, row, memory, maintenance, history
<1>1. ASSUME NEW r \in Runs, CreateWorkflow(r) PROVE TypeOK'
  BY <1>1 DEF CreateWorkflow, RunStatuses
<1>2. ASSUME NEW j \in Jobs, EnqueueJob(j) PROVE TypeOK'
  <2>1. PICK b \in BOOLEAN : due' = [due EXCEPT ![j] = b]
    BY <1>2 DEF EnqueueJob
  <2> QED BY <1>2, <2>1 DEF EnqueueJob, Statuses
<1>3. ASSUME NEW j \in Jobs, RunAfterPasses(j) PROVE TypeOK'
  BY <1>3 DEF RunAfterPasses
<1>4. ASSUME NEW j \in Jobs, LeaseExpires(j) PROVE TypeOK'
  BY <1>4 DEF LeaseExpires
<1>5. ASSUME NEW w \in Workers, WorkerStep(w) PROVE TypeOK'
  BY <1>5, WorkerTypeOK
<1>6. ASSUME NEW m \in Sessions, MaintenanceStep(m) PROVE TypeOK'
  BY <1>6, MaintenanceTypeOK
<1>7. CASE UNCHANGED vars
  BY <1>7
<1> QED
  BY <1>1, <1>2, <1>3, <1>4, <1>5, <1>6, <1>7 DEF Next

\* Every variable of the engine keeps its type.
THEOREM TypeCorrect == Spec => []TypeOK
BY InitTypeOK, NextTypeOK, PTL DEF Spec

-----------------------------------------------------------------------------
(***************************************************************************)
(* Handler order and the retry budget                                      *)
(*                                                                         *)
(* DependenciesHonoured is not inductive: the reason a worker may start a  *)
(* handler is that the row was leased, perhaps long ago, when every        *)
(* dependency was completed.  OrderInv carries that through the batch.     *)
(* StartsAreCharged needs that a lease not yet used has an attempt of its  *)
(* own (ChargeInv).  RowInv says that a maintenance session only holds     *)
(* updates of rows that exist, and that a running handler has its row.     *)
(***************************************************************************)
OrderInv ==
  /\ \A j \in Jobs : status[j] = "completed" => done[j]
  /\ \A w \in Workers : \A j \in batch[w] : \A d \in Deps[j] : done[d]
  /\ DependenciesHonoured

ChargeInv ==
  /\ StartsAreCharged
  /\ \A w \in Workers : \A j \in batch[w] : HoldsLease(w, j) => starts[j] < attempts[j]

RowInv ==
  /\ \A m \in Sessions : \A j \in Jobs : plan[m][j] # "keep" => status[j] # "absent"
  /\ \A w \in Workers : session[w] # NoJob => status[session[w]] # "absent"

\* A maintenance commit completes no row, starts none and revives only what it
\* has an update for: a row that runs afterwards ran before and is untouched.
LEMMA WriteStatus ==
  ASSUME TypeOK, NEW m \in Sessions, WriteRows(m), NEW j \in Jobs
  PROVE  \/ plan[m][j] = "keep" /\ status'[j] = status[j]
         \/ plan[m][j] # "keep" /\ status'[j] \in {"retry", "dead_letter", "superseded"}
<1>1. plan[m] \in [Jobs -> Updates]
  BY DEF TypeOK
<1>2. plan[m][j] \in Updates
  BY <1>1
<1>3. status'[j] = IF plan[m][j] = "keep" THEN status[j]
                   ELSE IF plan[m][j] \in Resumed THEN "retry" ELSE plan[m][j]
  BY DEF WriteRows
<1> QED
  BY <1>2, <1>3 DEF Updates, Resumed

\* A completed row has a successful handler behind it, whatever else happened.
LEMMA OrderStep == TypeOK /\ OrderInv /\ [Next]_vars => OrderInv'
<1> SUFFICES ASSUME TypeOK, OrderInv, [Next]_vars PROVE OrderInv'
  OBVIOUS
<1> USE EngineAssumption
    DEF TypeOK, OrderInv, DependenciesHonoured, vars, row, memory, maintenance, history
<1>1. ASSUME NEW r \in Runs, CreateWorkflow(r) PROVE OrderInv'
  BY <1>1 DEF CreateWorkflow
<1>2. ASSUME NEW j \in Jobs, EnqueueJob(j) PROVE OrderInv'
  BY <1>2 DEF EnqueueJob
<1>3. ASSUME NEW j \in Jobs, RunAfterPasses(j) \/ LeaseExpires(j) PROVE OrderInv'
  BY <1>3 DEF RunAfterPasses, LeaseExpires
<1>4. ASSUME NEW w \in Workers, LeaseDueJobs(w) PROVE OrderInv'
  <2>1. PICK S \in SUBSET Jobs :
          /\ IsBatch(S)
          /\ status' = [j \in Jobs |-> IF j \in S THEN "running" ELSE status[j]]
          /\ batch' = [batch EXCEPT ![w] = S]
    BY <1>4 DEF LeaseDueJobs
  <2>2. \A j \in S : \A d \in Deps[j] : done[d]
    BY <2>1 DEF IsBatch, Leasable, Unblocked
  <2>3. UNCHANGED <<session, done>>
    BY <1>4 DEF LeaseDueJobs
  <2> QED BY <2>1, <2>2, <2>3
<1>5. ASSUME NEW w \in Workers, NEW j \in Jobs, StartHandler(w, j) PROVE OrderInv'
  <2>1. j \in batch[w] /\ UNCHANGED <<status, done>>
    BY <1>5 DEF StartHandler
  <2>2. batch' = [batch EXCEPT ![w] = @ \ {j}] /\ session' = [session EXCEPT ![w] = j]
    BY <1>5 DEF StartHandler
  <2>3. \A v \in Workers : \A k \in batch'[v] : \A d \in Deps[k] : done'[d]
    BY <2>1, <2>2
  <2>4. \A v \in Workers :
          session'[v] # NoJob => \A d \in Deps[session'[v]] : done'[d]
    BY <2>1, <2>2
  <2> QED BY <2>1, <2>3, <2>4
<1>6. ASSUME NEW w \in Workers, NEW j \in Jobs, SkipLostLease(w, j) PROVE OrderInv'
  BY <1>6 DEF SkipLostLease
<1>7. ASSUME NEW w \in Workers, HeartbeatJob(w) PROVE OrderInv'
  BY <1>7 DEF HeartbeatJob
<1>8. ASSUME NEW w \in Workers, CompleteJob(w) PROVE OrderInv'
  <2>1. session[w] \in Jobs /\ UNCHANGED batch
    BY <1>8 DEF CompleteJob
  <2>2. session' = [session EXCEPT ![w] = NoJob]
    BY <1>8 DEF CompleteJob, EndSession
  <2>3. /\ status' = [status EXCEPT ![session[w]] = "completed"]
        /\ done' = [done EXCEPT ![session[w]] = TRUE]
    BY <1>8 DEF CompleteJob
  <2>4. \A k \in Jobs : done[k] => done'[k]
    BY <2>1, <2>3
  <2>5. \A k \in Jobs : status'[k] = "completed" => done'[k]
    BY <2>1, <2>3
  <2>6. \A v \in Workers : \A k \in batch'[v] : \A d \in Deps[k] : done'[d]
    BY <2>1, <2>4
  <2>7. \A v \in Workers :
          session'[v] # NoJob => \A d \in Deps[session'[v]] : done'[d]
    BY <2>2, <2>4
  <2> QED BY <2>5, <2>6, <2>7
<1>9. ASSUME NEW w \in Workers, NEW e \in Errors, FailJob(w, e) PROVE OrderInv'
  <2>1. session[w] \in Jobs /\ UNCHANGED <<batch, done>>
    BY <1>9 DEF FailJob
  <2>2. session' = [session EXCEPT ![w] = NoJob]
    BY <1>9 DEF FailJob, EndSession
  <2>3. \A j \in Jobs : status'[j] = "completed" => status[j] = "completed"
    BY <1>9, FailWrites
  <2> QED BY <2>1, <2>2, <2>3
<1>10. ASSUME NEW w \in Workers, FailRefused(w) \/ CrashWorker(w) PROVE OrderInv'
  <2>1. /\ batch' = [batch EXCEPT ![w] = {}]
        /\ session' = [session EXCEPT ![w] = NoJob]
        /\ UNCHANGED <<status, done>>
    BY <1>10 DEF FailRefused, CrashWorker, EndSession
  <2>2. \A v \in Workers : batch'[v] \subseteq batch[v]
    BY <2>1
  <2>3. \A v \in Workers : session'[v] \in {session[v], NoJob}
    BY <2>1
  <2> QED BY <2>1, <2>2, <2>3
<1>11. ASSUME NEW m \in Sessions, WriteRows(m) PROVE OrderInv'
  <2>1. \A j \in Jobs : status'[j] = "completed" => status[j] = "completed"
    BY <1>11, WriteStatus
  <2>2. UNCHANGED <<batch, session, done>>
    BY <1>11 DEF WriteRows
  <2> QED BY <2>1, <2>2
<1>12. ASSUME NEW m \in Sessions,
              ReadRows(m) \/ AbortMaintenance(m) \/ \E p \in Programs : StartMaintenance(m, p)
       PROVE  OrderInv'
  BY <1>12 DEF ReadRows, AbortMaintenance, StartMaintenance
<1>13. CASE UNCHANGED vars
  BY <1>13
<1> QED
  BY <1>1, <1>2, <1>3, <1>4, <1>5, <1>6, <1>7, <1>8, <1>9, <1>10, <1>11, <1>12, <1>13
  DEF Next, WorkerStep, MaintenanceStep

\* A lease that has not been used yet has not been counted as a start.
LEMMA ChargeStep == TypeOK /\ ChargeInv /\ [Next]_vars => ChargeInv'
<1> SUFFICES ASSUME TypeOK, ChargeInv, [Next]_vars PROVE ChargeInv'
  OBVIOUS
<1> USE EngineAssumption
    DEF TypeOK, ChargeInv, StartsAreCharged, HoldsLease, vars, row, memory, maintenance, history
<1>1. ASSUME NEW r \in Runs, CreateWorkflow(r) PROVE ChargeInv'
  BY <1>1 DEF CreateWorkflow
<1>2. ASSUME NEW j \in Jobs, EnqueueJob(j) PROVE ChargeInv'
  BY <1>2 DEF EnqueueJob
<1>3. ASSUME NEW j \in Jobs, RunAfterPasses(j) \/ LeaseExpires(j) PROVE ChargeInv'
  BY <1>3 DEF RunAfterPasses, LeaseExpires
<1>4. ASSUME NEW w \in Workers, LeaseDueJobs(w) PROVE ChargeInv'
  <2>1. PICK S \in SUBSET Jobs :
          /\ status' = [j \in Jobs |-> IF j \in S THEN "running" ELSE status[j]]
          /\ attempts' = [j \in Jobs |-> IF j \in S THEN attempts[j] + 1 ELSE attempts[j]]
          /\ owner' = [j \in Jobs |-> IF j \in S THEN w ELSE owner[j]]
          /\ batch' = [batch EXCEPT ![w] = S]
    BY <1>4 DEF LeaseDueJobs
  <2>2. starts' = starts
    BY <1>4 DEF LeaseDueJobs
  <2>3. \A j \in Jobs : starts'[j] <= attempts'[j] /\ (j \in S => starts'[j] < attempts'[j])
    BY <2>1, <2>2
  <2> QED BY <2>1, <2>2, <2>3
<1>5. ASSUME NEW w \in Workers, NEW j \in Jobs, StartHandler(w, j) PROVE ChargeInv'
  BY <1>5 DEF StartHandler
<1>6. ASSUME NEW w \in Workers, NEW j \in Jobs, SkipLostLease(w, j) PROVE ChargeInv'
  BY <1>6 DEF SkipLostLease
<1>7. ASSUME NEW w \in Workers, HeartbeatJob(w) PROVE ChargeInv'
  BY <1>7 DEF HeartbeatJob
<1>8. ASSUME NEW w \in Workers, CompleteJob(w) PROVE ChargeInv'
  <2>1. session[w] \in Jobs /\ UNCHANGED <<attempts, batch, starts>>
    BY <1>8 DEF CompleteJob
  <2>2. \A k \in Jobs : status'[k] = "running" => status[k] = "running" /\ owner'[k] = owner[k]
    BY <1>8, <2>1 DEF CompleteJob
  <2> QED BY <2>1, <2>2
<1>9. ASSUME NEW w \in Workers, NEW e \in Errors, FailJob(w, e) PROVE ChargeInv'
  <2>1. session[w] \in Jobs /\ UNCHANGED <<attempts, batch, starts>>
    BY <1>9 DEF FailJob
  <2>2. \A j \in Jobs : status'[j] = "running" => status[j] = "running" /\ owner'[j] = owner[j]
    BY <1>9, <2>1, FailWrites DEF FailJob
  <2> QED BY <2>1, <2>2
<1>10. ASSUME NEW w \in Workers, FailRefused(w) \/ CrashWorker(w) PROVE ChargeInv'
  <2>1. /\ batch' = [batch EXCEPT ![w] = {}]
        /\ session' = [session EXCEPT ![w] = NoJob]
        /\ UNCHANGED <<status, owner, attempts, starts>>
    BY <1>10 DEF FailRefused, CrashWorker, EndSession
  <2>2. \A v \in Workers : batch'[v] \subseteq batch[v]
    BY <2>1
  <2> QED BY <2>1, <2>2
<1>11. ASSUME NEW m \in Sessions, WriteRows(m) PROVE ChargeInv'
  <2>1. \A j \in Jobs : status'[j] = "running" => plan[m][j] = "keep" /\ status[j] = "running"
    BY <1>11, WriteStatus
  <2>2. \A j \in Jobs : plan[m][j] = "keep" =>
          owner'[j] = owner[j] /\ attempts'[j] = attempts[j] /\ starts'[j] = starts[j]
    BY <1>11 DEF WriteRows, Reset
  <2>3. \A j \in Jobs : starts'[j] <= attempts'[j]
    BY <1>11 DEF WriteRows
  <2>4. batch' = batch
    BY <1>11 DEF WriteRows
  <2> QED BY <2>1, <2>2, <2>3, <2>4
<1>12. ASSUME NEW m \in Sessions,
              ReadRows(m) \/ AbortMaintenance(m) \/ \E p \in Programs : StartMaintenance(m, p)
       PROVE  ChargeInv'
  BY <1>12 DEF ReadRows, AbortMaintenance, StartMaintenance
<1>13. CASE UNCHANGED vars
  BY <1>13
<1> QED
  BY <1>1, <1>2, <1>3, <1>4, <1>5, <1>6, <1>7, <1>8, <1>9, <1>10, <1>11, <1>12, <1>13
  DEF Next, WorkerStep, MaintenanceStep

\* Both invariants hold in every reachable state.
THEOREM EngineInvariants == Spec => [](TypeOK /\ OrderInv /\ ChargeInv)
<1>1. Init => OrderInv /\ ChargeInv
  BY DEF Init, OrderInv, DependenciesHonoured, ChargeInv, StartsAreCharged
<1> QED
  BY <1>1, InitTypeOK, NextTypeOK, OrderStep, ChargeStep, PTL DEF Spec

\* No handler ever runs before its dependencies have succeeded.
THEOREM DependenciesHonouredHolds == Spec => []DependenciesHonoured
BY EngineInvariants, PTL DEF OrderInv

\* No handler ever starts without an attempt to pay for it.
THEOREM StartsAreChargedHolds == Spec => []StartsAreCharged
BY EngineInvariants, PTL DEF ChargeInv

-----------------------------------------------------------------------------
(***************************************************************************)
(* The overrun of max_attempts                                             *)
(*                                                                         *)
(* A lease is charged without a look at max_attempts, so what bounds the   *)
(* attempts is who makes a row leasable again: fail_job and the watchdog's *)
(* query do so below the maximum only.  A maintenance session that decided *)
(* below the maximum may commit above it, once, and so may a worker whose  *)
(* session loaded the row below the maximum and never read it again.  From *)
(* the lease that uses the last attempt on, the attempts, the next lease   *)
(* and the decisions still to be written stay within the bound together;   *)
(* the worker that takes that lease has no session open.                   *)
(***************************************************************************)
Waiting(j) == status[j] \in {"pending", "retry"}
NextLease(j) == IF Waiting(j) THEN 1 ELSE 0
Retrying(j) == {m \in Sessions : plan[m][j] = "retry"}
Stale(j) == {w \in Workers : session[w] = j /\ loadedAttempts[w] < MaxAttempts}
Bounded(j) ==
  attempts[j] >= MaxAttempts =>
    attempts[j] + NextLease(j) + Cardinality(Retrying(j)) + Cardinality(Stale(j))
      <= MaxAttempts + Cardinality(Sessions) + Cardinality(Workers) - 1

OverrunInv ==
  \A j \in Jobs : Bounded(j) /\ (status[j] = "absent" => attempts[j] = 0)

\* Each session counts at most once, whatever it has decided, and each worker.
LEMMA DecisionBound ==
  ASSUME IsFiniteSet(Sessions), IsFiniteSet(Workers),
         NEW R \in SUBSET Sessions, NEW S \in SUBSET Workers
  PROVE  /\ IsFiniteSet(R) /\ Cardinality(R) \in Nat /\ Cardinality(Sessions) \in Nat
         /\ Cardinality(R) <= Cardinality(Sessions)
         /\ IsFiniteSet(S) /\ Cardinality(S) \in Nat /\ Cardinality(Workers) \in Nat
         /\ Cardinality(S) <= Cardinality(Workers)
BY FS_Subset, FS_CardinalityType

\* A worker without a session is not among those that may fail late.
LEMMA OneWorkerLess ==
  ASSUME IsFiniteSet(Workers), NEW S \in SUBSET Workers, NEW w \in Workers, w \notin S
  PROVE  Cardinality(S) <= Cardinality(Workers) - 1
<1>1. /\ IsFiniteSet(Workers \ {w})
      /\ Cardinality(Workers \ {w}) = Cardinality(Workers) - 1
  BY FS_RemoveElement
<1>2. S \subseteq Workers \ {w}
  OBVIOUS
<1> QED BY <1>1, <1>2, FS_Subset

\* A row below its maximum is within the bound.
LEMMA BelowMaximum ==
  ASSUME TypeOK', NEW j \in Jobs, attempts'[j] < MaxAttempts
  PROVE  Bounded(j)'
<1>1. attempts'[j] \in Nat
  BY DEF TypeOK
<1> QED BY <1>1, EngineAssumption DEF Bounded

\* So is one that is neither charged nor made leasable, for which nobody comes
\* to decide on another retry.
LEMMA NothingAdded ==
  ASSUME IsFiniteSet(Sessions), IsFiniteSet(Workers), TypeOK, NEW j \in Jobs, Bounded(j),
         attempts'[j] = attempts[j], Waiting(j)' => Waiting(j),
         Retrying(j)' \subseteq Retrying(j), Stale(j)' \subseteq Stale(j)
  PROVE  Bounded(j)'
<1>1. Retrying(j) \in SUBSET Sessions /\ Stale(j) \in SUBSET Workers
  BY DEF Retrying, Stale
<1>2. /\ IsFiniteSet(Retrying(j)) /\ Cardinality(Retrying(j)) \in Nat
      /\ IsFiniteSet(Stale(j)) /\ Cardinality(Stale(j)) \in Nat
      /\ Cardinality(Sessions) \in Nat /\ Cardinality(Workers) \in Nat
  BY <1>1, DecisionBound
<1>3. /\ Cardinality(Retrying(j)') <= Cardinality(Retrying(j))
      /\ Cardinality(Stale(j)') <= Cardinality(Stale(j))
      /\ IsFiniteSet(Retrying(j)') /\ IsFiniteSet(Stale(j)')
  BY <1>2, FS_Subset
<1>4. Cardinality(Retrying(j)') \in Nat /\ Cardinality(Stale(j)') \in Nat
  BY <1>3, FS_CardinalityType
<1>5. NextLease(j)' <= NextLease(j) /\ NextLease(j)' \in {0, 1} /\ NextLease(j) \in {0, 1}
  BY DEF NextLease
<1>6. attempts[j] \in Nat
  BY DEF TypeOK
<1> QED
  BY <1>2, <1>3, <1>4, <1>5, <1>6, EngineAssumption DEF Bounded

\* A lease takes the place it had; the one that uses the last attempt is taken
\* by a worker that is none of the stale ones.
LEMMA LeaseBounded ==
  ASSUME IsFiniteSet(Sessions), IsFiniteSet(Workers), TypeOK, NEW j \in Jobs, Bounded(j),
         attempts'[j] = attempts[j] + 1, Waiting(j), ~ Waiting(j)', UNCHANGED plan,
         NEW w \in Workers, session[w] = NoJob, UNCHANGED <<session, loadedAttempts>>
  PROVE  Bounded(j)'
<1>1. /\ Retrying(j)' = Retrying(j) /\ Retrying(j) \in SUBSET Sessions
      /\ Stale(j)' = Stale(j) /\ Stale(j) \in SUBSET Workers /\ w \notin Stale(j)
  BY EngineAssumption DEF Retrying, Stale
<1>2. /\ Cardinality(Retrying(j)) \in Nat /\ Cardinality(Sessions) \in Nat
      /\ Cardinality(Retrying(j)) <= Cardinality(Sessions)
      /\ Cardinality(Stale(j)) \in Nat /\ Cardinality(Workers) \in Nat
      /\ Cardinality(Stale(j)) <= Cardinality(Workers) - 1
  BY <1>1, DecisionBound, OneWorkerLess
<1>3. NextLease(j) = 1 /\ NextLease(j)' = 0
  BY DEF NextLease
<1>4. attempts[j] \in Nat
  BY DEF TypeOK
<1> QED
  BY <1>1, <1>2, <1>3, <1>4, EngineAssumption DEF Bounded

\* A late write turns a decision into a lease to come.
LEMMA CommitBounded ==
  ASSUME IsFiniteSet(Sessions), IsFiniteSet(Workers), TypeOK, NEW j \in Jobs, Bounded(j),
         attempts'[j] = attempts[j],
         \/ Stale(j)' = Stale(j) /\ \E m \in Retrying(j) : Retrying(j)' = Retrying(j) \ {m}
         \/ Retrying(j)' = Retrying(j) /\ \E w \in Stale(j) : Stale(j)' = Stale(j) \ {w}
  PROVE  Bounded(j)'
<1>1. Retrying(j) \in SUBSET Sessions /\ Stale(j) \in SUBSET Workers
  BY DEF Retrying, Stale
<1>2. /\ IsFiniteSet(Retrying(j)) /\ Cardinality(Retrying(j)) \in Nat
      /\ IsFiniteSet(Stale(j)) /\ Cardinality(Stale(j)) \in Nat
      /\ Cardinality(Sessions) \in Nat /\ Cardinality(Workers) \in Nat
  BY <1>1, DecisionBound
<1>3. Cardinality(Retrying(j)') + Cardinality(Stale(j)')
        = Cardinality(Retrying(j)) + Cardinality(Stale(j)) - 1
  <2>1. CASE /\ Stale(j)' = Stale(j)
             /\ \E m \in Retrying(j) : Retrying(j)' = Retrying(j) \ {m}
    <3>1. Cardinality(Retrying(j)') = Cardinality(Retrying(j)) - 1
      BY <1>2, <2>1, FS_RemoveElement
    <3> QED BY <1>2, <2>1, <3>1
  <2>2. CASE /\ Retrying(j)' = Retrying(j)
             /\ \E w \in Stale(j) : Stale(j)' = Stale(j) \ {w}
    <3>1. Cardinality(Stale(j)') = Cardinality(Stale(j)) - 1
      BY <1>2, <2>2, FS_RemoveElement
    <3> QED BY <1>2, <2>2, <3>1
  <2> QED BY <2>1, <2>2
<1>4. Cardinality(Retrying(j)') \in Nat /\ Cardinality(Stale(j)') \in Nat
  <2>1. Retrying(j)' \subseteq Retrying(j) /\ Stale(j)' \subseteq Stale(j)
    OBVIOUS
  <2> QED BY <1>2, <2>1, FS_Subset, FS_CardinalityType
<1>5. NextLease(j)' \in {0, 1} /\ NextLease(j) \in {0, 1}
  BY DEF NextLease
<1>6. attempts[j] \in Nat
  BY DEF TypeOK
<1> QED
  BY <1>2, <1>3, <1>4, <1>5, <1>6, EngineAssumption DEF Bounded

\* The watchdog alone decides on a retry, and below the maximum.
LEMMA RetryDecided ==
  ASSUME TypeOK, NEW s \in Stages, NEW p \in PlansAt(s), NEW j \in Jobs, p[j] = "retry"
  PROVE  attempts[j] < MaxAttempts
<1>1. CASE s = "recover"
  <2>1. p = RecoverPlan
    BY <1>1 DEF PlansAt
  <2>2. ~ (attempts[j] >= MaxAttempts)
    BY <2>1 DEF RecoverPlan
  <2> QED BY <2>2, EngineAssumption DEF TypeOK
<1>2. CASE s \in {"compact", "auto_compact", "all_compact"}
  BY <1>2 DEF PlansAt, Mark
<1>3. CASE s = "auto"
  BY <1>3 DEF PlansAt, Mark
<1>4. CASE s = "all"
  BY <1>4 DEF PlansAt, Mark
<1>5. CASE s \in {"one", "resume"}
  BY <1>5 DEF PlansAt, Mark, NoChange
<1>6. CASE s = "idle"
  BY <1>6 DEF PlansAt
<1> QED
  BY <1>1, <1>2, <1>3, <1>4, <1>5, <1>6 DEF Stages

\* Every step keeps every row within the bound.
LEMMA OverrunStep ==
  ASSUME IsFiniteSet(Sessions), IsFiniteSet(Workers), TypeOK, TypeOK', OverrunInv, [Next]_vars
  PROVE  OverrunInv'
<1> SUFFICES ASSUME NEW j \in Jobs
             PROVE  Bounded(j)' /\ (status'[j] = "absent" => attempts'[j] = 0)
  BY DEF OverrunInv
<1> USE EngineAssumption DEF TypeOK, vars, row, memory, maintenance, history
<1> DEFINE Goal == Bounded(j)' /\ (status'[j] = "absent" => attempts'[j] = 0)
<1>1. Bounded(j) /\ (status[j] = "absent" => attempts[j] = 0)
  BY DEF OverrunInv
<1>2. ASSUME attempts'[j] = attempts[j], UNCHANGED plan,
             status'[j] \in {status[j], "running", "completed", "dead_letter", "superseded"},
             Stale(j)' \subseteq Stale(j)
      PROVE  Goal
  <2>1. Waiting(j)' => Waiting(j)
    BY <1>2 DEF Waiting
  <2>2. Retrying(j)' \subseteq Retrying(j)
    BY <1>2 DEF Retrying
  <2> QED BY <1>1, <1>2, <2>1, <2>2, NothingAdded
<1>3. ASSUME NEW k \in Jobs, EnqueueJob(k) PROVE Goal
  <2>1. /\ status[k] = "absent" /\ status' = [status EXCEPT ![k] = "pending"]
        /\ UNCHANGED <<attempts, plan, session, loadedAttempts>>
    BY <1>3 DEF EnqueueJob
  <2>2. CASE k = j
    BY <1>1, <2>1, <2>2, BelowMaximum
  <2>3. CASE k # j
    BY <1>2, <2>1, <2>3 DEF Stale
  <2> QED BY <2>2, <2>3
<1>4. ASSUME NEW w \in Workers, LeaseDueJobs(w) PROVE Goal
  <2>1. PICK S \in SUBSET Jobs :
          /\ IsBatch(S)
          /\ status' = [k \in Jobs |-> IF k \in S THEN "running" ELSE status[k]]
          /\ attempts' = [k \in Jobs |-> IF k \in S THEN attempts[k] + 1 ELSE attempts[k]]
    BY <1>4 DEF LeaseDueJobs
  <2>2. UNCHANGED plan /\ UNCHANGED <<session, loadedAttempts>> /\ session[w] = NoJob
    BY <1>4 DEF LeaseDueJobs, IdleWorker
  <2>3. CASE j \in S
    <3>1. Waiting(j) /\ ~ Waiting(j)'
      BY <2>1, <2>3 DEF IsBatch, Leasable, Waiting
    <3>2. attempts'[j] = attempts[j] + 1 /\ status'[j] = "running"
      BY <2>1, <2>3
    <3> QED BY <1>1, <2>2, <3>1, <3>2, LeaseBounded
  <2>4. CASE j \notin S
    BY <1>2, <2>1, <2>2, <2>4 DEF Stale
  <2> QED BY <2>3, <2>4
<1>5. ASSUME NEW w \in Workers, CompleteJob(w) PROVE Goal
  <2>1. status'[j] \in {status[j], "completed"} /\ UNCHANGED <<attempts, plan>>
    BY <1>5 DEF CompleteJob
  <2>2. Stale(j)' \subseteq Stale(j)
    BY <1>5 DEF CompleteJob, EndSession, Stale
  <2> QED BY <1>2, <2>1, <2>2
<1>6. ASSUME NEW w \in Workers, NEW e \in Errors, FailJob(w, e) PROVE Goal
  <2>1. UNCHANGED <<attempts, plan>> /\ session[w] \in Jobs
    BY <1>6 DEF FailJob
  <2>2. Stale(j)' = Stale(j) \ {w}
    BY <1>6, <2>1 DEF FailJob, EndSession, Stale
  <2>3. CASE status'[j] \in {status[j], "dead_letter"}
    BY <1>2, <2>1, <2>2, <2>3
  <2>4. CASE status'[j] \notin {status[j], "dead_letter"}
    <3>1. j = session[w] /\ status'[j] = "retry"
      BY <1>6, <2>4, FailWrites
    <3>2. PICK seen \in RowAsSeen(w) :
            IF seen.attempts >= MaxAttempts
            THEN status' = [status EXCEPT ![j] = "dead_letter"]
            ELSE status' = [status EXCEPT ![j] = "retry"]
      BY <1>6, <3>1 DEF FailJob
    <3>3. ~ (seen.attempts >= MaxAttempts)
      BY <3>1, <3>2
    <3>4. CASE seen.attempts = attempts[j]
      BY <2>1, <3>1, <3>3, <3>4, BelowMaximum
    <3>5. CASE seen.attempts = loadedAttempts[w]
      <4>1. w \in Stale(j)
        BY <3>1, <3>3, <3>5 DEF Stale
      <4>2. Retrying(j)' = Retrying(j)
        BY <2>1 DEF Retrying
      <4> QED BY <1>1, <2>1, <2>2, <3>1, <4>1, <4>2, CommitBounded
    <3> QED BY <3>1, <3>4, <3>5 DEF RowAsSeen
  <2> QED BY <2>3, <2>4
<1>7. ASSUME NEW w \in Workers,
             \/ \E k \in Jobs : SkipLostLease(w, k)
             \/ HeartbeatJob(w) \/ FailRefused(w) \/ CrashWorker(w)
      PROVE  Goal
  <2>1. UNCHANGED <<status, attempts, plan>>
    BY <1>7 DEF SkipLostLease, HeartbeatJob, FailRefused, CrashWorker
  <2>2. \/ UNCHANGED <<session, loadedAttempts>>
        \/ /\ session' = [session EXCEPT ![w] = NoJob]
           /\ loadedAttempts' = [loadedAttempts EXCEPT ![w] = 0]
    BY <1>7 DEF SkipLostLease, HeartbeatJob, FailRefused, CrashWorker, EndSession
  <2>3. Stale(j)' \subseteq Stale(j)
    BY <2>2 DEF Stale
  <2> QED BY <1>2, <2>1, <2>3
<1>12. ASSUME NEW w \in Workers, NEW k \in Jobs, StartHandler(w, k) PROVE Goal
  <2>1. UNCHANGED <<status, attempts, plan>>
    BY <1>12 DEF StartHandler
  <2>2. /\ session' = [session EXCEPT ![w] = k]
        /\ loadedAttempts' = [loadedAttempts EXCEPT ![w] = attempts[k]]
    BY <1>12 DEF StartHandler
  <2>3. CASE attempts[j] < MaxAttempts
    BY <1>1, <2>1, <2>3, BelowMaximum
  <2>4. CASE ~ (attempts[j] < MaxAttempts)
    <3>1. Stale(j)' \subseteq Stale(j)
      BY <2>2, <2>4 DEF Stale
    <3> QED BY <1>2, <2>1, <3>1
  <2> QED BY <2>3, <2>4
<1>8. ASSUME NEW m \in Sessions, ReadRows(m) PROVE Goal
  <2>1. PICK p \in PlansAt(stage[m]) :
          IF p = NoChange THEN UNCHANGED plan ELSE plan' = [plan EXCEPT ![m] = p]
    BY <1>8 DEF ReadRows
  <2>2. UNCHANGED <<status, attempts, session, loadedAttempts>> /\ plan[m] = NoChange
    BY <1>8 DEF ReadRows
  <2>3. CASE p[j] = "retry" /\ attempts[j] < MaxAttempts
    BY <1>1, <2>2, <2>3, BelowMaximum
  <2>4. CASE p[j] # "retry"
    <3>1. Retrying(j)' \subseteq Retrying(j) /\ Stale(j)' \subseteq Stale(j)
      BY <2>1, <2>2, <2>4 DEF Retrying, Stale
    <3>2. Waiting(j)' => Waiting(j)
      BY <2>2 DEF Waiting
    <3> QED BY <1>1, <2>2, <3>1, <3>2, NothingAdded
  <2>5. p[j] = "retry" => attempts[j] < MaxAttempts
    BY RetryDecided
  <2> QED BY <2>3, <2>4, <2>5
<1>9. ASSUME NEW m \in Sessions, WriteRows(m) PROVE Goal
  <2>1. /\ plan' = [plan EXCEPT ![m] = NoChange]
        /\ attempts'[j] = IF plan[m][j] \in Reset THEN 0 ELSE attempts[j]
        /\ Stale(j)' = Stale(j)
    BY <1>9 DEF WriteRows, Stale
  <2>2. \/ plan[m][j] = "keep" /\ status'[j] = status[j]
        \/ plan[m][j] # "keep" /\ status'[j] \in {"retry", "dead_letter", "superseded"}
    BY <1>9, WriteStatus
  <2>3. status'[j] = "absent" => attempts'[j] = 0
    BY <1>1, <2>1, <2>2
  <2>4. CASE plan[m][j] \in Reset
    BY <2>1, <2>3, <2>4, BelowMaximum
  <2>5. CASE plan[m][j] = "retry"
    <3>1. m \in Retrying(j) /\ Retrying(j)' = Retrying(j) \ {m}
      BY <2>1, <2>5 DEF Retrying, NoChange
    <3>2. attempts'[j] = attempts[j]
      BY <2>1, <2>5 DEF Reset
    <3> QED BY <1>1, <2>1, <2>3, <3>1, <3>2, CommitBounded
  <2>6. CASE plan[m][j] \notin Reset \cup {"retry"}
    <3>1. status'[j] \in {status[j], "dead_letter", "superseded"}
      <4>1. plan[m][j] \in Updates
        OBVIOUS
      <4> QED BY <1>9, <2>6, <4>1 DEF WriteRows, Updates, Resumed, Reset
    <3>2. Waiting(j)' => Waiting(j)
      BY <3>1 DEF Waiting
    <3>3. Retrying(j)' \subseteq Retrying(j)
      BY <2>1 DEF Retrying, NoChange
    <3> QED BY <1>1, <2>1, <2>3, <2>6, <3>2, <3>3, NothingAdded
  <2> QED BY <2>4, <2>5, <2>6
<1>10. ASSUME NEW m \in Sessions,
              AbortMaintenance(m) \/ \E p \in Programs : StartMaintenance(m, p)
       PROVE  Goal
  <2>1. /\ UNCHANGED <<status, attempts>> /\ Stale(j)' = Stale(j)
        /\ UNCHANGED plan \/ plan' = [plan EXCEPT ![m] = NoChange]
    BY <1>10 DEF AbortMaintenance, StartMaintenance, Stale
  <2>2. Retrying(j)' \subseteq Retrying(j)
    <3>1. CASE UNCHANGED plan
      BY <3>1 DEF Retrying
    <3>2. CASE plan' = [plan EXCEPT ![m] = NoChange]
      BY <3>2 DEF Retrying, NoChange
    <3> QED BY <2>1, <3>1, <3>2
  <2>3. Waiting(j)' => Waiting(j)
    BY <2>1 DEF Waiting
  <2> QED BY <1>1, <2>1, <2>2, <2>3, NothingAdded
<1>11. CASE \/ \E r \in Runs : CreateWorkflow(r)
            \/ \E k \in Jobs : RunAfterPasses(k) \/ LeaseExpires(k)
            \/ UNCHANGED vars
  <2>1. UNCHANGED <<status, attempts, plan>> /\ Stale(j)' = Stale(j)
    BY <1>11 DEF CreateWorkflow, RunAfterPasses, LeaseExpires, Stale
  <2> QED BY <1>2, <2>1
<1> QED
  BY <1>3, <1>4, <1>5, <1>6, <1>7, <1>8, <1>9, <1>10, <1>11, <1>12
  DEF Next, WorkerStep, MaintenanceStep

\* attempts never exceeds max_attempts by more than one lease for each session
\* that can be open and one for each other worker whose handler runs under a
\* lease it lost, for any number of sessions, workers and jobs.
THEOREM AttemptOverrunHolds ==
  ASSUME IsFiniteSet(Sessions), IsFiniteSet(Workers)
  PROVE  Spec => []AttemptOverrun
<1>1. IsFiniteSet(Sessions) /\ IsFiniteSet(Workers)
  OBVIOUS
<1>2. Init => OverrunInv
  BY EngineAssumption DEF Init, OverrunInv, Bounded
<1>3. TypeOK /\ TypeOK' /\ OverrunInv /\ [Next]_vars => OverrunInv'
  BY <1>1, OverrunStep
<1>4. TypeOK /\ OverrunInv => AttemptOverrun
  <2> SUFFICES ASSUME TypeOK, OverrunInv, NEW j \in Jobs
               PROVE  attempts[j] <= MaxAttempts + Cardinality(Sessions) + Cardinality(Workers) - 1
    BY DEF AttemptOverrun
  <2>1. Retrying(j) \in SUBSET Sessions /\ Stale(j) \in SUBSET Workers
    BY DEF Retrying, Stale
  <2>2. /\ Cardinality(Retrying(j)) \in Nat /\ Cardinality(Sessions) \in Nat
        /\ Cardinality(Stale(j)) \in Nat /\ Cardinality(Workers) \in Nat
    BY <1>1, <2>1, DecisionBound
  <2>3. NextLease(j) \in {0, 1} /\ attempts[j] \in Nat
    BY DEF NextLease, TypeOK
  <2> QED BY <2>2, <2>3, EngineAssumption DEF OverrunInv, Bounded
<1> QED
  BY <1>2, <1>3, <1>4, TypeCorrect, PTL DEF Spec

-----------------------------------------------------------------------------
(***************************************************************************)
(* The engine implements HandlerOrder                                      *)
(***************************************************************************)
Admitted == {j \in Jobs : status[j] # "absent"}
Executing == {session[w] : w \in Workers} \ {NoJob}
Finished == {j \in Jobs : done[j]}

\* A query decides only on updates of rows that it has read.
LEMMA PlanTouchesRows ==
  ASSUME NEW s \in Stages, NEW p \in PlansAt(s), NEW j \in Jobs, p[j] # "keep"
  PROVE  status[j] # "absent"
<1>1. CASE s = "recover"
  BY <1>1 DEF PlansAt, RecoverPlan, Overdue
<1>2. CASE s \in {"compact", "auto_compact", "all_compact"}
  <2>1. PICK K \in Keepers : p = Mark(DeadLetters \ K, "superseded")
    BY <1>2 DEF PlansAt
  <2> QED BY <2>1 DEF Mark, DeadLetters
<1>3. CASE s = "auto"
  <2>1. PICK S \in SUBSET AutoRecoverable : p = Mark(S, "auto")
    BY <1>3 DEF PlansAt
  <2> QED BY <2>1 DEF Mark, AutoRecoverable, DeadLetters
<1>4. CASE s = "all"
  BY <1>4 DEF PlansAt, Mark, DeadLetters
<1>5. CASE s \in {"one", "resume"}
  <2>1. CASE p = NoChange
    BY <2>1 DEF NoChange
  <2>2. CASE p # NoChange
    <3>1. PICK k \in DeadLetters : p = Mark({k}, "requeue")
      BY <1>5, <2>2 DEF PlansAt, UserBlocked
    <3> QED BY <3>1 DEF Mark, DeadLetters
  <2> QED BY <2>1, <2>2
<1>6. CASE s = "idle"
  BY <1>6 DEF PlansAt
<1> QED
  BY <1>1, <1>2, <1>3, <1>4, <1>5, <1>6 DEF Stages

\* No step of a worker removes or inserts a row.
LEMMA WorkerAdmits ==
  ASSUME TypeOK, RowInv, NEW w \in Workers, WorkerStep(w), NEW j \in Jobs
  PROVE  (status'[j] # "absent") <=> (status[j] # "absent")
<1> USE DEF TypeOK, RowInv, row
<1>1. CASE LeaseDueJobs(w)
  <2>1. PICK S \in SUBSET Jobs :
          /\ IsBatch(S)
          /\ status' = [k \in Jobs |-> IF k \in S THEN "running" ELSE status[k]]
    BY <1>1 DEF LeaseDueJobs
  <2>2. \A k \in S : status[k] # "absent"
    BY <2>1 DEF IsBatch, Leasable
  <2> QED BY <2>1, <2>2
<1>2. CASE \E k \in Jobs : StartHandler(w, k) \/ SkipLostLease(w, k)
  BY <1>2 DEF StartHandler, SkipLostLease
<1>3. CASE HeartbeatJob(w) \/ FailRefused(w) \/ CrashWorker(w)
  BY <1>3 DEF HeartbeatJob, FailRefused, CrashWorker
<1>4. CASE CompleteJob(w)
  BY <1>4 DEF CompleteJob
<1>5. ASSUME NEW e \in Errors, FailJob(w, e)
      PROVE  (status'[j] # "absent") <=> (status[j] # "absent")
  <2>1. \/ status' = [status EXCEPT ![session[w]] = "dead_letter"]
        \/ status' = [status EXCEPT ![session[w]] = "retry"]
    BY <1>5 DEF FailJob
  <2>2. session[w] # NoJob /\ status[session[w]] # "absent"
    BY <1>5 DEF FailJob
  <2> QED BY <2>1, <2>2
<1> QED
  BY <1>1, <1>2, <1>3, <1>4, <1>5 DEF WorkerStep

\* Nor does a step of a maintenance session.
LEMMA MaintenanceAdmits ==
  ASSUME TypeOK, RowInv, NEW m \in Sessions, MaintenanceStep(m), NEW j \in Jobs
  PROVE  (status'[j] # "absent") <=> (status[j] # "absent")
<1>1. CASE WriteRows(m)
  BY <1>1, WriteStatus DEF RowInv
<1>2. CASE ~ WriteRows(m)
  BY <1>2 DEF MaintenanceStep, StartMaintenance, ReadRows, AbortMaintenance, row
<1> QED BY <1>1, <1>2

\* Rows that a session has in memory exist.
LEMMA RowStep == TypeOK /\ RowInv /\ [Next]_vars => RowInv'
<1> SUFFICES ASSUME TypeOK, RowInv, [Next]_vars PROVE RowInv'
  OBVIOUS
<1> USE DEF TypeOK, RowInv, row, memory, maintenance, history
<1>1. ASSUME NEW j \in Jobs, EnqueueJob(j) PROVE RowInv'
  <2>1. UNCHANGED <<plan, session>> /\ status' = [status EXCEPT ![j] = "pending"]
    BY <1>1 DEF EnqueueJob
  <2> QED BY <2>1
<1>2. ASSUME NEW w \in Workers, WorkerStep(w) PROVE RowInv'
  <2>1. plan' = plan
    BY <1>2 DEF WorkerStep, LeaseDueJobs, StartHandler, SkipLostLease, HeartbeatJob,
                CompleteJob, FailJob, FailRefused, CrashWorker
  <2>2. \A v \in Workers :
          \/ session'[v] \in {session[v], NoJob}
          \/ session'[v] \in Jobs /\ status[session'[v]] # "absent"
    <3>1. CASE \E j \in Jobs : StartHandler(w, j)
      <4>1. PICK j \in Jobs : StartHandler(w, j)
        BY <3>1
      <4>2. session' = [session EXCEPT ![w] = j] /\ status[j] = "running"
        BY <4>1 DEF StartHandler, HoldsLease
      <4> QED BY <4>2
    <3>2. CASE ~ \E j \in Jobs : StartHandler(w, j)
      <4>1. session' = [session EXCEPT ![w] = NoJob] \/ session' = session
        BY <1>2, <3>2 DEF WorkerStep, LeaseDueJobs, SkipLostLease, HeartbeatJob,
                CompleteJob, FailJob, FailRefused, CrashWorker, EndSession
      <4> QED BY <4>1
    <3> QED BY <3>1, <3>2
  <2>3. \A j \in Jobs : (status'[j] # "absent") <=> (status[j] # "absent")
    BY <1>2, WorkerAdmits
  <2> QED BY <2>1, <2>2, <2>3
<1>3. ASSUME NEW m \in Sessions, MaintenanceStep(m) PROVE RowInv'
  <2>1. session' = session
    BY <1>3 DEF MaintenanceStep, StartMaintenance, ReadRows, WriteRows, AbortMaintenance
  <2>2. \A k \in Sessions : \A j \in Jobs : plan'[k][j] # "keep" => status[j] # "absent"
    <3>1. CASE ReadRows(m)
      <4>1. PICK p \in PlansAt(stage[m]) : plan' = plan \/ plan' = [plan EXCEPT ![m] = p]
        BY <3>1 DEF ReadRows
      <4>2. \A j \in Jobs : p[j] # "keep" => status[j] # "absent"
        BY PlanTouchesRows
      <4> QED BY <4>1, <4>2
    <3>2. CASE ~ ReadRows(m)
      <4>1. UNCHANGED plan \/ plan' = [plan EXCEPT ![m] = NoChange]
        BY <1>3, <3>2 DEF MaintenanceStep, StartMaintenance, WriteRows, AbortMaintenance
      <4> QED BY <4>1 DEF NoChange
    <3> QED BY <3>1, <3>2
  <2>3. \A j \in Jobs : (status'[j] # "absent") <=> (status[j] # "absent")
    BY <1>3, MaintenanceAdmits
  <2> QED BY <2>1, <2>2, <2>3
<1>4. ASSUME NEW r \in Runs, CreateWorkflow(r) PROVE RowInv'
  BY <1>4 DEF CreateWorkflow
<1>5. ASSUME NEW j \in Jobs, RunAfterPasses(j) \/ LeaseExpires(j) PROVE RowInv'
  BY <1>5 DEF RunAfterPasses, LeaseExpires
<1>6. CASE UNCHANGED vars
  BY <1>6 DEF vars
<1> QED
  BY <1>1, <1>2, <1>3, <1>4, <1>5, <1>6 DEF Next

\* A step that changes no session and no done flag admits nothing but a job
\* that was enqueued: the others are invisible to HandlerOrder.
LEMMA OrderStutter ==
  ASSUME UNCHANGED <<session, done>>,
         \A j \in Jobs : (status'[j] # "absent") <=> (status[j] # "absent")
  PROVE  UNCHANGED Order!orderVars
<1>1. Admitted' = Admitted
  BY DEF Admitted
<1>2. Executing' = Executing /\ Finished' = Finished
  BY DEF Executing, Finished
<1> QED BY <1>1, <1>2 DEF Order!orderVars, Admitted, Executing, Finished

\* When a handler ends, its job is no longer executing unless another worker
\* runs a handler of the same job.
LEMMA HandlerEnds ==
  ASSUME TypeOK, NEW w \in Workers, session[w] # NoJob,
         session' = [session EXCEPT ![w] = NoJob]
  PROVE  Executing' \in {Executing, Executing \ {session[w]}}
<1>1. \A v \in Workers : session'[v] = IF v = w THEN NoJob ELSE session[v]
  BY DEF TypeOK
<1>2. CASE \E v \in Workers : v # w /\ session[v] = session[w]
  <2>1. Executing' = Executing
    BY <1>1, <1>2 DEF Executing
  <2> QED BY <2>1
<1>3. CASE ~ \E v \in Workers : v # w /\ session[v] = session[w]
  <2>1. Executing' = Executing \ {session[w]}
    BY <1>1, <1>3 DEF Executing
  <2> QED BY <2>1
<1> QED BY <1>2, <1>3

\* A worker's step starts, finishes or stops a handler, or is invisible.
LEMMA WorkerRefines ==
  ASSUME TypeOK, OrderInv, RowInv, NEW w \in Workers, WorkerStep(w)
  PROVE  [Order!Next]_Order!orderVars
<1> USE EngineAssumption DEF TypeOK
<1>a. \A j \in Jobs : (status'[j] # "absent") <=> (status[j] # "absent")
  BY WorkerAdmits
<1>b. Admitted' = Admitted
  BY <1>a DEF Admitted
<1>1. ASSUME NEW j \in Jobs, StartHandler(w, j) PROVE Order!Start(j)
  <2>1. /\ session' = [session EXCEPT ![w] = j]
        /\ session[w] = NoJob
        /\ done' = done
        /\ j \in batch[w]
        /\ status[j] = "running"
    BY <1>1 DEF StartHandler, HoldsLease
  <2>2. j \in Admitted /\ Deps[j] \subseteq Finished
    BY <2>1 DEF Admitted, Finished, OrderInv
  <2>3. Executing' = Executing \cup {j}
    <3>1. \A v \in Workers : session'[v] = IF v = w THEN j ELSE session[v]
      BY <2>1
    <3> QED BY <2>1, <3>1 DEF Executing
  <2>4. Finished' = Finished
    BY <2>1 DEF Finished
  <2> QED BY <1>b, <2>2, <2>3, <2>4 DEF Order!Start, Admitted, Executing, Finished
<1>2. ASSUME NEW j \in Jobs, j = session[w], CompleteJob(w) PROVE Order!Return(j)
  <2>1. /\ session[w] # NoJob
        /\ session' = [session EXCEPT ![w] = NoJob]
        /\ done' = [done EXCEPT ![j] = TRUE]
    BY <1>2 DEF CompleteJob, EndSession
  <2>2. j \in Executing
    BY <1>2, <2>1 DEF Executing
  <2>3. Executing' \in {Executing, Executing \ {j}}
    BY <1>2, <2>1, HandlerEnds
  <2>4. Finished' = Finished \cup {j}
    BY <2>1 DEF Finished
  <2> QED
    BY <1>b, <2>2, <2>3, <2>4 DEF Order!Return, Admitted, Executing, Finished
<1>3. ASSUME NEW j \in Jobs, j = session[w],
             FailRefused(w) \/ CrashWorker(w) \/ \E e \in Errors : FailJob(w, e)
      PROVE  Order!Stop(j) \/ UNCHANGED Order!orderVars
  <2>1. session[w] # NoJob
    BY <1>3
  <2>2. session' = [session EXCEPT ![w] = NoJob] /\ done' = done
    BY <1>3 DEF FailRefused, CrashWorker, FailJob, EndSession, history
  <2>3. j \in Executing
    BY <1>3, <2>1 DEF Executing
  <2>4. Executing' \in {Executing, Executing \ {j}}
    BY <1>3, <2>1, <2>2, HandlerEnds
  <2>5. Finished' = Finished
    BY <2>2 DEF Finished
  <2>6. CASE Executing' = Executing
    BY <1>b, <2>5, <2>6 DEF Order!orderVars, Admitted, Executing, Finished
  <2>7. CASE Executing' = Executing \ {j}
    BY <1>b, <2>3, <2>5, <2>7 DEF Order!Stop, Admitted, Executing, Finished
  <2> QED BY <2>4, <2>6, <2>7
<1>4. ASSUME \/ LeaseDueJobs(w) \/ HeartbeatJob(w)
             \/ \E j \in Jobs : SkipLostLease(w, j)
      PROVE  UNCHANGED Order!orderVars
  <2>1. UNCHANGED <<session, done>>
    BY <1>4 DEF LeaseDueJobs, HeartbeatJob, SkipLostLease, memory, history
  <2> QED BY <1>a, <2>1, OrderStutter
<1>5. ASSUME session[w] = NoJob, CrashWorker(w)
      PROVE  UNCHANGED Order!orderVars
  <2>1. session' = session /\ done' = done
    BY <1>5 DEF CrashWorker, EndSession, history
  <2> QED BY <1>a, <2>1, OrderStutter
<1>6. session[w] # NoJob => \E j \in Jobs : j = session[w]
  OBVIOUS
<1>7. CASE session[w] = NoJob
  BY <1>1, <1>4, <1>5, <1>7 DEF WorkerStep, Order!Next, CompleteJob, FailJob, FailRefused
<1>8. CASE session[w] # NoJob
  <2>1. PICK j \in Jobs : j = session[w]
    BY <1>6, <1>8
  <2>2. \/ Order!Return(j) \/ Order!Stop(j) \/ UNCHANGED Order!orderVars
        \/ \E k \in Jobs : Order!Start(k)
    BY <1>1, <1>2, <1>3, <1>4, <2>1 DEF WorkerStep
  <2> QED BY <2>2 DEF Order!Next
<1> QED BY <1>7, <1>8

\* Every step of the engine is a step of HandlerOrder or invisible to it.
LEMMA NextRefines ==
  TypeOK /\ OrderInv /\ RowInv /\ [Next]_vars => [Order!Next]_Order!orderVars
<1> SUFFICES ASSUME TypeOK, OrderInv, RowInv, [Next]_vars
             PROVE  [Order!Next]_Order!orderVars
  OBVIOUS
<1>1. ASSUME NEW j \in Jobs, EnqueueJob(j) PROVE [Order!Next]_Order!orderVars
  <2>1. /\ status[j] = "absent" /\ status' = [status EXCEPT ![j] = "pending"]
        /\ UNCHANGED <<session, done>>
    BY <1>1 DEF EnqueueJob, memory, history
  <2>2. j \notin Admitted /\ Admitted' = Admitted \cup {j}
    BY <2>1 DEF Admitted, TypeOK
  <2>3. UNCHANGED <<Executing, Finished>>
    BY <2>1 DEF Executing, Finished
  <2>4. Order!Admit(j)
    BY <2>2, <2>3 DEF Order!Admit, Admitted, Executing, Finished
  <2> QED BY <2>4 DEF Order!Next
<1>2. ASSUME NEW w \in Workers, WorkerStep(w) PROVE [Order!Next]_Order!orderVars
  BY <1>2, WorkerRefines
<1>3. ASSUME NEW m \in Sessions, MaintenanceStep(m) PROVE [Order!Next]_Order!orderVars
  <2>1. UNCHANGED <<session, done>>
    BY <1>3 DEF MaintenanceStep, StartMaintenance, ReadRows, WriteRows, AbortMaintenance,
                memory, history
  <2> QED BY <1>3, <2>1, MaintenanceAdmits, OrderStutter
<1>4. CASE \/ UNCHANGED vars
           \/ \E r \in Runs : CreateWorkflow(r)
           \/ \E j \in Jobs : RunAfterPasses(j) \/ LeaseExpires(j)
  <2>1. UNCHANGED <<status, session, done>>
    BY <1>4 DEF vars, row, memory, history, CreateWorkflow, RunAfterPasses, LeaseExpires
  <2> QED BY <2>1, OrderStutter
<1> QED
  BY <1>1, <1>2, <1>3, <1>4 DEF Next

\* The engine implements HandlerOrder.
THEOREM EngineImplementsHandlerOrder == Spec => ImplementsHandlerOrder
<1>1. Init => Order!Init
  BY DEF Init, Order!Init
<1>2. Init => RowInv
  BY DEF Init, RowInv, NoChange
<1>3. Spec => [](TypeOK /\ OrderInv /\ RowInv)
  BY <1>2, EngineInvariants, RowStep, PTL DEF Spec
<1> QED
  BY <1>1, <1>3, NextRefines, PTL DEF Spec, ImplementsHandlerOrder, Order!Spec

-----------------------------------------------------------------------------
(***************************************************************************)
(* The status of a settled run                                             *)
(*                                                                         *)
(* A step that gives a row of the run a settled status refreshes the run   *)
(* after it; any other leaves the settled rows alone or unsettles one.     *)
(* RunInv excludes that a run is created when its jobs have settled.       *)
(***************************************************************************)
RunInv == \A r \in Runs : runStatus[r] = "absent" => \A j \in Members(r) : status[j] = "absent"

SettledIn(S) == S # {} /\ S \subseteq Settled
Shows(s, S) == /\ s = "failed" <=> "dead_letter" \in S
               /\ s = "completed" <=> S = {"completed"}
               /\ s # "running"
Reported(r) ==
  SettledIn(MemberStatuses(r, status)) => Shows(runStatus[r], MemberStatuses(r, status))

LEMMA ReportedAll == SettledRunReported <=> \A r \in Runs : Reported(r)
BY DEF SettledRunReported, Reported, SettledIn, Shows

\* The refresh shows what its rows show.
LEMMA RefreshShows ==
  ASSUME NEW r \in Runs, NEW st, SettledIn(MemberStatuses(r, st))
  PROVE  Shows(RefreshedStatus(r, st), MemberStatuses(r, st))
<1> DEFINE S == MemberStatuses(r, st)
<1>1. S # {} /\ S \subseteq {"completed", "dead_letter", "superseded"}
  BY DEF SettledIn, Settled
<1>2. CASE "dead_letter" \in S
  BY <1>1, <1>2 DEF RefreshedStatus, Shows
<1>3. CASE "dead_letter" \notin S /\ S \subseteq {"completed"}
  BY <1>1, <1>3 DEF RefreshedStatus, Shows
<1>4. CASE "dead_letter" \notin S /\ ~ (S \subseteq {"completed"})
  <2>1. RefreshedStatus(r, st) = "superseded"
    BY <1>1, <1>4 DEF RefreshedStatus
  <2>2. S # {"completed"}
    BY <1>4
  <2> QED BY <1>4, <2>1, <2>2 DEF Shows
<1> QED
  BY <1>2, <1>3, <1>4

\* A run that a step refreshes shows its new rows.
LEMMA RefreshReports ==
  ASSUME NEW r \in Runs, runStatus'[r] = RefreshedStatus(r, status')
  PROVE  Reported(r)'
<1> SUFFICES ASSUME SettledIn(MemberStatuses(r, status'))
             PROVE  Shows(runStatus'[r], MemberStatuses(r, status'))
  BY DEF Reported, MemberStatuses
<1> QED
  BY RefreshShows

\* A row that is not settled keeps a run from being so.
LEMMA UnsettledReported ==
  ASSUME NEW r \in Runs, NEW j \in Members(r), status'[j] \in {"pending", "running", "retry"}
  PROVE  Reported(r)'
<1>1. status'[j] \in MemberStatuses(r, status')
  BY DEF MemberStatuses
<1>2. status'[j] \notin Settled
  BY DEF Settled
<1>3. ~ SettledIn(MemberStatuses(r, status'))
  BY <1>1, <1>2 DEF SettledIn
<1> QED
  BY <1>3 DEF Reported, MemberStatuses

\* A run whose status stays shows what it showed, as long as no row settles.
LEMMA NoneSettles ==
  ASSUME NEW r \in Runs, Reported(r), runStatus'[r] = runStatus[r],
         \A j \in Members(r) : status'[j] = status[j] \/ status'[j] \in {"pending", "running", "retry"}
  PROVE  Reported(r)'
<1>1. CASE \E j \in Members(r) : status'[j] \in {"pending", "running", "retry"}
  BY <1>1, UnsettledReported
<1>2. CASE \A j \in Members(r) : status'[j] = status[j]
  <2>1. MemberStatuses(r, status') = MemberStatuses(r, status)
    BY <1>2 DEF MemberStatuses
  <2> QED BY <2>1 DEF Reported, MemberStatuses
<1> QED
  BY <1>1, <1>2

\* A run that the engine refreshes or not after an update of one row.
LEMMA OneRowReported ==
  ASSUME TypeOK, NEW r \in Runs, Reported(r), NEW j \in Jobs, Refresh({RunOf[j]}),
         \A k \in Jobs \ {j} : status'[k] = status[k]
  PROVE  Reported(r)'
<1>1. CASE RunOf[j] = r
  <2>1. runStatus'[r] = RefreshedStatus(r, status')
    BY <1>1 DEF Refresh
  <2> QED BY <2>1, RefreshReports
<1>2. CASE RunOf[j] # r
  <2>1. runStatus'[r] = runStatus[r]
    BY <1>2 DEF Refresh
  <2>2. \A k \in Members(r) : status'[k] = status[k]
    BY <1>2 DEF Members
  <2> QED BY <2>1, <2>2, NoneSettles
<1> QED
  BY <1>1, <1>2

\* A maintenance commit reports the runs of all the rows it wrote.
LEMMA WriteReports ==
  ASSUME TypeOK, NEW r \in Runs, Reported(r), NEW m \in Sessions, WriteRows(m)
  PROVE  Reported(r)'
<1> DEFINE p == plan[m]
<1> DEFINE touched == {j \in Jobs : p[j] # "keep"}
<1> DEFINE restarted == {RunOf[j] : j \in {k \in touched : p[k] \in Reset}}
<1> DEFINE refreshed == {RunOf[j] : j \in {k \in touched : p[k] \notin Reset}}
<1>1. runStatus'[r] = IF r \in restarted THEN "running"
                      ELSE IF r \in refreshed THEN RefreshedStatus(r, status')
                      ELSE runStatus[r]
  BY DEF WriteRows
<1>2. CASE r \in restarted
  <2>1. PICK j \in Jobs : p[j] \in Reset /\ RunOf[j] = r
    BY <1>2
  <2>2. status'[j] = "retry"
    BY <2>1 DEF WriteRows, Reset, Resumed
  <2> QED BY <2>1, <2>2, UnsettledReported DEF Members
<1>3. CASE r \notin restarted /\ r \in refreshed
  BY <1>1, <1>3, RefreshReports
<1>4. CASE r \notin restarted /\ r \notin refreshed
  <2>1. \A j \in Members(r) : p[j] = "keep"
    BY <1>4 DEF Members
  <2>2. \A j \in Members(r) : status'[j] = status[j]
    BY <2>1 DEF WriteRows, Members
  <2> QED BY <1>1, <1>4, <2>2, NoneSettles
<1> QED
  BY <1>2, <1>3, <1>4

\* Jobs enter runs that exist.
LEMMA RunStep == TypeOK /\ RowInv /\ RunInv /\ [Next]_vars => RunInv'
<1> SUFFICES ASSUME TypeOK, RowInv, RunInv, [Next]_vars,
                    NEW r \in Runs, runStatus'[r] = "absent", NEW j \in Members(r)
             PROVE  status'[j] = "absent"
  BY DEF RunInv, Members
<1> USE DEF row, memory, maintenance, history
<1>1. j \in Jobs /\ RunOf[j] = r /\ (runStatus[r] = "absent" => status[j] = "absent")
  BY DEF Members, RunInv
<1>2. \A st : RefreshedStatus(r, st) = "absent" => runStatus[r] = "absent"
  BY DEF RefreshedStatus
<1>3. ASSUME NEW q \in Runs, CreateWorkflow(q) PROVE status'[j] = "absent"
  BY <1>1, <1>3 DEF CreateWorkflow, TypeOK
<1>4. ASSUME NEW k \in Jobs, EnqueueJob(k) PROVE status'[j] = "absent"
  <2>1. runStatus[r] = "absent"
    BY <1>4 DEF EnqueueJob
  <2>2. k # j
    BY <1>1, <1>4, <2>1, EngineAssumption DEF EnqueueJob
  <2> QED BY <1>1, <1>4, <2>1, <2>2 DEF EnqueueJob, TypeOK
<1>5. ASSUME NEW w \in Workers, WorkerStep(w) PROVE status'[j] = "absent"
  <2>1. runStatus[r] = "absent"
    <3>1. CASE \/ LeaseDueJobs(w) \/ HeartbeatJob(w) \/ FailRefused(w) \/ CrashWorker(w)
               \/ \E k \in Jobs : StartHandler(w, k) \/ SkipLostLease(w, k)
      <4>1. UNCHANGED runStatus
        BY <3>1 DEF LeaseDueJobs, StartHandler, SkipLostLease, HeartbeatJob, FailRefused,
                    CrashWorker
      <4> QED BY <4>1
    <3>2. CASE CompleteJob(w) \/ \E e \in Errors : FailJob(w, e)
      <4>1. PICK S : Refresh(S)
        BY <3>2 DEF CompleteJob, FailJob
      <4>2. runStatus'[r] \in {RefreshedStatus(r, status'), runStatus[r]}
        BY <4>1 DEF Refresh
      <4> QED BY <1>2, <4>2
    <3> QED BY <1>5, <3>1, <3>2 DEF WorkerStep
  <2> QED BY <1>1, <1>5, <2>1, WorkerAdmits
<1>6. ASSUME NEW m \in Sessions, MaintenanceStep(m) PROVE status'[j] = "absent"
  <2>1. runStatus[r] = "absent"
    <3>1. CASE WriteRows(m)
      <4>1. runStatus'[r] \in {"running", RefreshedStatus(r, status'), runStatus[r]}
        BY <3>1 DEF WriteRows
      <4> QED BY <1>2, <4>1
    <3>2. CASE ~ WriteRows(m)
      BY <1>6, <3>2 DEF MaintenanceStep, StartMaintenance, ReadRows, AbortMaintenance
    <3> QED BY <3>1, <3>2
  <2> QED BY <1>1, <1>6, <2>1, MaintenanceAdmits
<1>7. ASSUME NEW k \in Jobs, RunAfterPasses(k) \/ LeaseExpires(k) PROVE status'[j] = "absent"
  BY <1>1, <1>7 DEF RunAfterPasses, LeaseExpires
<1>8. CASE UNCHANGED vars
  BY <1>1, <1>8 DEF vars
<1> QED
  BY <1>3, <1>4, <1>5, <1>6, <1>7, <1>8 DEF Next

\* Every step reports the runs it settles.
LEMMA ReportStep ==
  ASSUME TypeOK, RunInv, NEW r \in Runs, Reported(r), [Next]_vars
  PROVE  Reported(r)'
<1> USE DEF row, memory, maintenance, history
<1>1. ASSUME NEW q \in Runs, CreateWorkflow(q) PROVE Reported(r)'
  <2>1. CASE q = r
    <3>1. MemberStatuses(r, status') = {}
      BY <1>1, <2>1 DEF CreateWorkflow, RunInv, MemberStatuses
    <3> QED BY <3>1 DEF Reported, MemberStatuses, SettledIn
  <2>2. CASE q # r
    BY <1>1, <2>2, NoneSettles DEF CreateWorkflow, TypeOK
  <2> QED BY <2>1, <2>2
<1>2. ASSUME NEW k \in Jobs, EnqueueJob(k) PROVE Reported(r)'
  <2>1. \A j \in Members(r) : status'[j] \in {status[j], "pending"}
    BY <1>2 DEF EnqueueJob, Members, TypeOK
  <2> QED BY <1>2, <2>1, NoneSettles DEF EnqueueJob
<1>3. ASSUME NEW w \in Workers, LeaseDueJobs(w) PROVE Reported(r)'
  <2>1. \A j \in Members(r) : status'[j] \in {status[j], "running"}
    BY <1>3 DEF LeaseDueJobs, Members
  <2> QED BY <1>3, <2>1, NoneSettles DEF LeaseDueJobs
<1>4. ASSUME NEW w \in Workers, CompleteJob(w) PROVE Reported(r)'
  <2>1. /\ session[w] \in Jobs /\ Refresh({RunOf[session[w]]})
        /\ \A k \in Jobs \ {session[w]} : status'[k] = status[k]
    BY <1>4 DEF CompleteJob, TypeOK
  <2> QED BY <2>1, OneRowReported
<1>5. ASSUME NEW w \in Workers, NEW e \in Errors, FailJob(w, e) PROVE Reported(r)'
  <2>1. /\ session[w] \in Jobs /\ Refresh({RunOf[session[w]]})
        /\ \A k \in Jobs \ {session[w]} : status'[k] = status[k]
    BY <1>5 DEF FailJob, TypeOK
  <2> QED BY <2>1, OneRowReported
<1>6. ASSUME NEW w \in Workers,
             \/ \E k \in Jobs : StartHandler(w, k) \/ SkipLostLease(w, k)
             \/ HeartbeatJob(w) \/ FailRefused(w) \/ CrashWorker(w)
      PROVE  Reported(r)'
  <2>1. UNCHANGED <<status, runStatus>>
    BY <1>6 DEF StartHandler, SkipLostLease, HeartbeatJob, FailRefused, CrashWorker
  <2> QED BY <2>1, NoneSettles
<1>7. ASSUME NEW m \in Sessions, WriteRows(m) PROVE Reported(r)'
  BY <1>7, WriteReports
<1>8. ASSUME NEW m \in Sessions,
             \/ ReadRows(m) \/ AbortMaintenance(m) \/ \E p \in Programs : StartMaintenance(m, p)
      PROVE  Reported(r)'
  <2>1. UNCHANGED <<status, runStatus>>
    BY <1>8 DEF ReadRows, AbortMaintenance, StartMaintenance
  <2> QED BY <2>1, NoneSettles
<1>9. CASE (\E k \in Jobs : RunAfterPasses(k) \/ LeaseExpires(k)) \/ UNCHANGED vars
  <2>1. UNCHANGED <<status, runStatus>>
    BY <1>9 DEF RunAfterPasses, LeaseExpires, vars
  <2> QED BY <2>1, NoneSettles
<1> QED
  BY <1>1, <1>2, <1>3, <1>4, <1>5, <1>6, <1>7, <1>8, <1>9
  DEF Next, WorkerStep, MaintenanceStep

\* A run whose jobs have all settled shows their outcome, for any runs and jobs.
THEOREM SettledRunReportedHolds == Spec => []SettledRunReported
<1>1. Init => RowInv /\ RunInv
  BY DEF Init, RowInv, NoChange, RunInv, Members
<1>2. Init => SettledRunReported
  BY DEF Init, SettledRunReported, MemberStatuses, Members
<1>3. TypeOK /\ RunInv /\ SettledRunReported /\ [Next]_vars => SettledRunReported'
  <2> SUFFICES ASSUME TypeOK, RunInv, SettledRunReported, [Next]_vars, NEW r \in Runs
               PROVE  Reported(r)'
    BY DEF SettledRunReported, Reported, SettledIn, Shows
  <2> QED BY ReportedAll, ReportStep
<1> QED
  BY <1>1, <1>2, <1>3, TypeCorrect, RowStep, RunStep, PTL DEF Spec
=============================================================================
