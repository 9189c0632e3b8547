----------------------------- MODULE OwnerPrompts -----------------------------
(***************************************************************************)
(* What the owner is asked to do. A row of another part of the system asks *)
(* for the owner: a payment or a transfer to be authorized, a task, a dead *)
(* letter, an authorization of a provider that runs out. For the first     *)
(* three the core seeds an event, makes an objective of it and reconciles  *)
(* the objective with its row (autonomous_core.py); for authorizations the *)
(* guardian keeps the objectives itself (operational_guardian.py).         *)
(*                                                                         *)
(* The cycle of the core is a job and part of three routes, so that two of *)
(* them overlap; each may die between its commits.                         *)
(*                                                                         *)
(* Simplifications                                                         *)
(*  - One row. Rows do not meet: each has objectives of its own.           *)
(*  - What changes the row is external here: BillPayment, OwnTransfer,     *)
(*    SystemRecovery and ActionQueue model it. A row asks anew after it    *)
(*    has stopped asking only where they let it.                           *)
(*  - An authorization has one period after another, MaxPeriods at most.   *)
(*  - "blocked" stands for blocked_system and blocked_capability.          *)
(***************************************************************************)
EXTENDS Naturals, FiniteSets

CONSTANTS
  Cycles,     \* sessions that run the cycle of the core
  MaxPeriods  \* periods of an authorization, each with its fingerprint

PromptAssumption == MaxPeriods \in Nat \ {0}

VARIABLES
  row,     \* kind, status, asks: the periods for which it needs the owner; of these the latest
  event,   \* va_events: status, and its type, told by the objective that it leads to
  prompt,  \* va_objectives, by period: status
  cycle,   \* each session: the stage that comes next, what it has read and is to write
  shown,   \* history: "yes" when the row, in its first need, has been through a whole
           \* cycle that began when it asked; "past" after that need
  current  \* history: nothing has changed since the last reconciliation, which ran alone

promptVars == <<row, event, prompt, cycle, shown, current>>

Periods == 1..MaxPeriods
Sourced == {"payment", "task", "letter"}
Guarded == {"bank", "oauth"}
CycleStages == {"idle", "process", "read", "write", "recover", "resume"}
Closed == {"completed", "cancelled"}
Idle == [stage |-> "idle", want |-> "none", last |-> FALSE, whole |-> FALSE, alone |-> FALSE]

PromptInit ==
  /\ row \in {[kind |-> k, status |-> "open", asks |-> a, latest |-> 1] :
                 k \in {"payment", "task"}, a \in {{}, {1}}}
         \cup {[kind |-> "letter", status |-> "pending", asks |-> {}, latest |-> 1]}
         \cup {[kind |-> k, status |-> "open", asks |-> {}, latest |-> 1] : k \in Guarded}
  /\ event = [status |-> "none", as |-> "none"]
  /\ prompt = [p \in Periods |-> "none"]
  /\ cycle = [s \in Cycles |-> Idle]
  /\ shown = "no" /\ current = FALSE

Needs == row.asks # {}
Crossed(s) == [t \in Cycles |-> [cycle[t] EXCEPT !.alone = @ /\ t = s]]
Disturbed == [t \in Cycles |-> [cycle[t] EXCEPT !.alone = FALSE]]

\* The rows that seed_system_events selects
Actionable ==
  \/ row.kind = "payment" /\ row.status = "open" /\ Needs
  \/ row.kind = "task" /\ row.status \in {"open", "waiting"}
  \/ row.kind = "letter" /\ row.status = "dead_letter"

-----------------------------------------------------------------------------
(***************************************************************************)
(* The rows                                                                *)
(***************************************************************************)
Changes(new) ==
  /\ new # row /\ row' = new
  /\ shown' = CASE Actionable /\ ~Actionable' -> "past"
                [] row.kind \in Guarded -> "no"
                [] OTHER -> shown
  /\ current' = FALSE
  /\ cycle' = [t \in Cycles |-> [cycle[t] EXCEPT !.alone = FALSE, !.whole = FALSE]]
  /\ UNCHANGED <<event, prompt>>
Becomes(status, asks) == Changes([row EXCEPT !.status = status, !.asks = asks])

\* The bank asks for an authorization of a new order, or answers refresh_payment
PaymentMoves ==
  /\ row.kind = "payment" /\ row.status = "open"
  /\ \/ event.status = "none" /\ Becomes("open", {1})
     \/ \E status \in {"completed", "failed"} : Becomes(status, {})

\* complete_payment_authorization: the owner comes back from the bank.
AuthorizePayment ==
  /\ row.kind = "payment" /\ Needs
  /\ \E status \in {row.status, "completed", "failed"} : Becomes(status, {})

\* set_task_status of the owner, and what ends or waits with a task that is executed; it
\* asks for approval as long as it has not become the plan of an event.
TaskMoves ==
  /\ row.kind = "task"
  /\ \/ \E status \in {"open", "waiting", "completed", "cancelled"} :
          Becomes(status, row.asks)
     \/ row.status \in {"open", "waiting"} /\ Becomes("waiting", {})

\* A job fails for the owner or for the system, is queued again, completes, is replaced.
LetterMoves ==
  /\ row.kind = "letter"
  /\ \/ row.status = "pending" /\ \E asks \in {{}, {1}} : Becomes("dead_letter", asks)
     \/ row.status = "pending" /\ Becomes("completed", {})
     \/ row.status = "dead_letter" /\ Becomes("pending", {})
     \/ row.status = "dead_letter" /\ Becomes("superseded", {})

\* An authorization that the code cannot renew alone runs out within the warning. Rows
\* of banks are as many as consents.
RunsOut ==
  /\ row.kind \in Guarded
  /\ \E p \in 1..row.latest :
       /\ row.kind = "oauth" => p = row.latest
       /\ Becomes(row.status, row.asks \cup {p})

NextPeriod(asks) ==
  /\ row.latest < MaxPeriods
  /\ Changes([row EXCEPT !.latest = row.latest + 1, !.asks = asks])

\* complete_bank_connection adds a connection and leaves the earlier one as it is.
ReconnectBank == row.kind = "bank" /\ NextPeriod(row.asks)

\* complete_google_authorization: a token of one hour, with or without one to refresh it
ReconnectGoogle ==
  /\ row.kind = "oauth"
  /\ \E refreshable \in BOOLEAN : NextPeriod(IF refreshable THEN {} ELSE {row.latest + 1})

-----------------------------------------------------------------------------
(***************************************************************************)
(* The guardian: one job of the scheduler, which never overlaps itself.    *)
(***************************************************************************)
\* _ensure_user_objective
Ensured(p) == IF prompt[p] \in Closed THEN prompt[p] ELSE "needs_user"

\* _complete_verified_objectives
Verified(p) == IF prompt[p] = "none" THEN "none" ELSE "completed"

\* _bank_consent_state by connection; _oauth_state by connection, of any period
\* Mutant: the objective of the present fingerprint alone is looked for.
SettledLatest(p) == p = row.latest /\ p \notin row.asks
Settled(p) == IF row.kind = "bank" THEN p \notin row.asks ELSE ~Needs

RunGuardian ==
  /\ row.kind \in Guarded
  /\ prompt' = [p \in Periods |->
       IF p \in row.asks THEN Ensured(p) ELSE IF Settled(p) THEN Verified(p) ELSE prompt[p]]
  /\ shown' = (IF Needs THEN "yes" ELSE "no") /\ current' = TRUE
  /\ UNCHANGED <<row, event, cycle>>

-----------------------------------------------------------------------------
(***************************************************************************)
(* The cycle of the core                                                   *)
(***************************************************************************)
At(s, stage) == cycle[s].stage = stage

\* The objective that the type of the event leads to: objective_from_event
LeadsTo == IF Needs THEN "needs_user" ELSE "blocked"

\* seed_system_events; record_event finds the key of an earlier event.
Seed(s) ==
  /\ row.kind \in Sourced /\ At(s, "idle")
  /\ LET new == Actionable /\ event.status = "none" IN
     event' = IF new THEN [status |-> "new", as |-> LeadsTo] ELSE event
  /\ cycle' = [cycle EXCEPT ![s] = [Idle EXCEPT !.stage = "process", !.whole = Needs]]
  /\ UNCHANGED <<row, prompt, shown, current>>

\* process_pending_events takes all the events that are new, whoever recorded them.
Process(s) ==
  /\ At(s, "process")
  /\ IF event.status = "new"
     THEN /\ prompt' = [prompt EXCEPT ![1] = IF @ = "none" THEN event.as ELSE @]
          /\ event' = [event EXCEPT !.status = "processed"]
          /\ current' = FALSE
     ELSE UNCHANGED <<prompt, event, current>>
  /\ cycle' = [(IF event.status = "new" THEN Disturbed ELSE cycle) EXCEPT ![s].stage = "read"]
  /\ UNCHANGED <<row, shown>>

\* reconcile_source_objectives reads the objectives that are open and their rows.
Waits ==
  \/ row.kind = "payment" /\ ~Needs /\ prompt[1] = "needs_user"
  \/ row.kind = "letter" /\ row.status = "pending" /\ prompt[1] \in {"needs_user", "blocked"}
Reconciled ==
  IF prompt[1] \in Closed \cup {"none"} THEN "none"
  ELSE IF row.status \in Closed THEN row.status
  ELSE IF Waits THEN "waiting_external" ELSE "none"

ReconcileReads(s) ==
  /\ At(s, "read")
  /\ cycle' = [cycle EXCEPT ![s].stage = "write", ![s].want = Reconciled, ![s].alone = TRUE]
  /\ UNCHANGED <<row, event, prompt, shown, current>>

\* It commits. A cancellation is not counted among its results, and alone not committed.
ReconcileWrites(s) ==
  LET c == cycle[s] IN
  /\ At(s, "write")
  /\ \E written \in {c.want} \cup (IF c.want = "cancelled" THEN {"none"} ELSE {}) :
       LET changes == written # "none" IN
       /\ prompt' = IF changes THEN [prompt EXCEPT ![1] = written] ELSE prompt
       /\ current' = (c.alone \/ (current /\ ~changes))
       /\ cycle' = [(IF changes THEN Crossed(s) ELSE cycle) EXCEPT ![s] =
            IF c.last THEN Idle ELSE [c EXCEPT !.stage = "recover", !.want = "none"]]
  /\ shown' = IF shown = "no" /\ c.whole /\ Needs THEN "yes" ELSE shown
  /\ UNCHANGED <<row, event>>

\* recover_resolved_user_blockers: the provider works again, and the job is requeued with a
\* commit of its own; then the objective waits, whatever it has become.
RecoverLetter(s) ==
  /\ At(s, "recover") /\ row.kind = "letter" /\ Needs /\ prompt[1] = "needs_user"
  /\ row' = [row EXCEPT !.status = "pending", !.asks = {}]
  /\ shown' = "past" /\ current' = FALSE
  /\ cycle' = [t \in Cycles |-> [cycle[t] EXCEPT
       !.alone = FALSE, !.whole = FALSE, !.stage = IF t = s THEN "resume" ELSE @]]
  /\ UNCHANGED <<event, prompt>>

LetterResumes(s) ==
  /\ At(s, "resume")
  /\ prompt' = [prompt EXCEPT ![1] = "waiting_external"]
  /\ cycle' = [Disturbed EXCEPT ![s].stage = "recover"]
  /\ current' = FALSE
  /\ UNCHANGED <<row, event, shown>>

\* The second reconciliation of the cycle
SecondPass(s) ==
  /\ At(s, "recover")
  /\ cycle' = [cycle EXCEPT ![s].stage = "read", ![s].last = TRUE]
  /\ UNCHANGED <<row, event, prompt, shown, current>>

CycleDies(s) ==
  /\ ~At(s, "idle")
  /\ cycle' = [cycle EXCEPT ![s] = Idle]
  /\ UNCHANGED <<row, event, prompt, shown, current>>

PromptNext ==
  \/ PaymentMoves \/ AuthorizePayment \/ TaskMoves \/ LetterMoves
  \/ RunsOut \/ ReconnectBank \/ ReconnectGoogle \/ RunGuardian
  \/ \E s \in Cycles :
       \/ Seed(s) \/ Process(s) \/ ReconcileReads(s) \/ ReconcileWrites(s)
       \/ RecoverLetter(s) \/ LetterResumes(s) \/ SecondPass(s) \/ CycleDies(s)

PromptSpec == PromptInit /\ [][PromptNext]_promptVars

-----------------------------------------------------------------------------
PromptTypeOK ==
  /\ row.kind \in Sourced \cup Guarded /\ row.asks \subseteq Periods /\ row.latest \in Periods
  /\ event.status \in {"none", "new", "processed"}
  /\ \A p \in Periods : prompt[p] \in Closed \cup {"none", "needs_user", "blocked",
                                                   "waiting_external"}
  /\ \A s \in Cycles : cycle[s].stage \in CycleStages

\* A row still has something for the owner to do, or the code has no way to tell: a task
\* that became a plan or was cancelled, a dead letter that another replaces, a bank whose
\* consent another connection took over.
MayAsk(p) ==
  CASE row.kind = "task" -> row.status # "completed"
    [] row.kind = "letter" -> row.status \in {"dead_letter", "superseded"}
    [] row.kind = "oauth" -> Needs
    [] OTHER -> p \in row.asks

\* The owner is asked in time and not longer than needed, however cycles overlap, die and
\* write what they decided before: when a row has asked through a whole cycle its objective
\* asks the owner, and when a reconciliation ran alone and nothing changed since, what is
\* completed is so in its objective too and what does not need the owner does not ask.
PromptsAreCurrent ==
  /\ shown = "yes" /\ (Actionable \/ row.kind \in Guarded) =>
       \A p \in row.asks : prompt[p] = "needs_user"
  /\ current =>
       /\ row.status = "completed" => prompt[1] \in Closed \cup {"none"}
       /\ \A p \in Periods : prompt[p] = "needs_user" => MayAsk(p)
===============================================================================
