----------------------------- MODULE Objectives ------------------------------
(***************************************************************************)
(* An objective of autonomous_core.py that owns an e-mail conversation:    *)
(* the reply, the wait for an answer, the chases of communication_         *)
(* ownership.py and the answers that arrive. The cycle of the core is one  *)
(* job, which may die between two commits; the mailbox is read by sessions *)
(* of its own meanwhile.                                                   *)
(*                                                                         *)
(* Simplifications                                                         *)
(*  - The reply expects an answer, and its thread is its own. Delivery is  *)
(*    the subject of GmailDelivery; here a message is sent and verified,   *)
(*    or not.                                                              *)
(*  - run_after and due_at are delays only: a stage may leave a step or a  *)
(*    follow-up for a later cycle. The blocked statuses are one.           *)
(*  - The event key of a chase is fresh, because the attempt it names is   *)
(*    counted in the same commit.                                          *)
(***************************************************************************)
EXTENDS Naturals, Sequences

CONSTANTS
  ChaseLimit,   \* max_attempts of the follow-up
  StepTries,    \* max_attempts of a step
  ReplyLimit    \* bound on the answers that arrive

ObjectiveAssumption == {ChaseLimit, StepTries} \subseteq Nat \ {0} /\ ReplyLimit \in Nat

VARIABLES
  objective,  \* va_objectives.status
  plan,       \* va_objective_steps by position: kind, status, attempts, chase
  chaser,     \* va_follow_ups: status and attempts
  thread,     \* the thread waits for the counterparty of this objective
  events,     \* va_events that are new
  answers,    \* number of answers so far
  stage,      \* where the cycle is
  batch       \* events the stage has loaded

objectiveVars == <<objective, plan, chaser, thread, events, answers, stage, batch>>

StepStates == {"pending", "running", "retry", "verifying", "waiting", "blocked", "failed",
               "completed"}
Stages == {"idle", "events", "followups", "due", "chases", "execute", "executing",
           "verify"}
Ongoing == {"planned", "executing", "verifying", "waiting", "waiting_external", "blocked"}

NewStep(kind, chase) == [kind |-> kind, status |-> "pending", tries |-> 0, chase |-> chase]
Sends == {p \in DOMAIN plan : plan[p].kind = "send"}

\* objective_from_event on email_reply_planned
ObjectiveInit ==
  /\ objective = "planned"
  /\ plan = <<NewStep("send", 0), NewStep("wait", 0)>>
  /\ chaser = [status |-> "none", tries |-> 0]
  /\ thread = FALSE
  /\ events = {} /\ answers = 0
  /\ stage = "idle" /\ batch = {}

-----------------------------------------------------------------------------
\* run_core_cycle. An event is new until the commit that handled it.
EnterStage ==
  /\ batch = {}
  /\ \/ stage = "idle" /\ stage' = "events" /\ batch' = events
     \/ stage = "events" /\ stage' = "followups" /\ UNCHANGED batch
     \/ stage = "followups" /\ stage' = "chases" /\ batch' = events
     \/ stage = "chases" /\ stage' = "execute" /\ UNCHANGED batch
     \/ stage = "execute" /\ stage' = "verify" /\ UNCHANGED batch
     \/ stage = "verify" /\ stage' = "idle" /\ UNCHANGED batch
  /\ UNCHANGED <<objective, plan, chaser, thread, events, answers>>

CoreDies ==
  /\ stage # "idle"
  /\ stage' = "idle" /\ batch' = {}
  /\ UNCHANGED <<objective, plan, chaser, thread, events, answers>>

Handled(e) == batch' = batch \ {e} /\ events' = events \ {e}

Cancelled == IF chaser.status \in {"pending", "due"}
             THEN [chaser EXCEPT !.status = "cancelled"] ELSE chaser

\* The steps that wait in one of these statuses have got what they waited for.
WaitsOver(statuses) ==
  [p \in DOMAIN plan |-> IF plan[p].kind = "wait" /\ plan[p].status \in statuses
                         THEN [plan[p] EXCEPT !.status = "completed"] ELSE plan[p]]

\* The status an answer leaves: completed only with every message verified.
\* Mutant: the answer completes the objective.
Answered(steps) == "completed"
AfterAnswer(steps) ==
  IF \A p \in DOMAIN steps : steps[p].kind = "send" => steps[p].status = "completed"
  THEN "completed" ELSE "verifying"

HandleAnswer ==
  /\ \E e \in batch : e[1] = "answer" /\ Handled(e)
  /\ chaser' = Cancelled
  /\ plan' = WaitsOver({"pending", "waiting", "retry"})
  /\ objective' = AfterAnswer(plan')
  /\ thread' = FALSE
  /\ UNCHANGED <<answers, stage>>

\* Neither the follow-up's status nor the objective's is looked at.
HandleChase ==
  /\ \E e \in batch : e[1] = "due" /\ Handled(e)
  /\ plan' = WaitsOver({"pending", "waiting"})
               \o <<NewStep("send", chaser.tries), NewStep("wait", chaser.tries)>>
  /\ chaser' = [chaser EXCEPT !.status = "dispatching"]
  /\ objective' = "planned"
  /\ UNCHANGED <<thread, answers, stage>>

\* process_due_followups reads, and commits from what it read.
ReadDue ==
  /\ stage = "followups" /\ chaser.status = "pending"
  /\ stage' = "due"
  /\ UNCHANGED <<objective, plan, chaser, thread, events, answers, batch>>

RecordDue ==
  /\ stage = "due"
  /\ chaser' = [status |-> "due", tries |-> chaser.tries + 1]
  /\ events' = events \cup {<<"due", chaser.tries + 1>>}
  /\ stage' = "chases" /\ batch' = events'
  /\ UNCHANGED <<objective, plan, thread, answers>>

-----------------------------------------------------------------------------
Ready(p) ==
  /\ plan[p].status \in {"pending", "retry"}
  /\ objective \in Ongoing
  /\ \A q \in 1..(p - 1) : plan[q].status = "completed"

\* _execute_step, up to its first commit: authorized, or given to the owner.
StartStep(p) ==
  /\ stage = "execute" /\ Ready(p)
  /\ \/ /\ plan' = [plan EXCEPT ![p].status = "running", ![p].tries = @ + 1]
        /\ objective' = "executing"
        /\ stage' = "executing"
     \/ /\ plan' = [plan EXCEPT ![p].status = "blocked"]
        /\ objective' \in {"blocked", "needs_user"}
        /\ UNCHANGED stage
  /\ UNCHANGED <<chaser, thread, events, answers, batch>>

\* And its end: a step that its cycle left running stays so.
EndStep(p) ==
  LET step(status) == plan' = [plan EXCEPT ![p].status = status] IN
  /\ stage = "executing" /\ stage' = "execute"
  /\ plan[p].status = "running"
  /\ \/ /\ plan[p].kind = "wait"
        /\ step("waiting") /\ objective' = "waiting_external"
     \/ /\ plan[p].kind = "send"
        /\ \/ step("verifying") /\ objective' = "verifying"
           \/ step("failed") /\ objective' = "blocked"
           \/ step("blocked") /\ objective' = "needs_user"
           \/ plan[p].tries < StepTries /\ step("retry") /\ objective' = "waiting"
           \/ plan[p].tries >= StepTries /\ step("failed") /\ objective' = "blocked"
  /\ UNCHANGED <<chaser, thread, events, answers, batch>>

\* Whether the message just verified is chased again.
ChaseNext(n) == n = 0 \/ n < ChaseLimit

\* mark_thread_waiting_for_counterparty: the row of an open follow-up is reused.
\* Mutant: its status is left as it is.
Untouched == IF chaser.status = "none" THEN [chaser EXCEPT !.status = "pending"] ELSE chaser
Rescheduled == [chaser EXCEPT !.status = "pending"]

VerifyMessage(p) ==
  /\ stage = "verify" /\ plan[p].kind = "send" /\ plan[p].status = "verifying"
  /\ \/ /\ plan' = [plan EXCEPT ![p].status = "completed"]
        /\ chaser' = IF ChaseNext(plan[p].chase) THEN Rescheduled
                     ELSE [chaser EXCEPT !.status = "exhausted"]
        /\ thread' = TRUE
        /\ objective' = "waiting_external"
     \/ /\ objective' = "verifying"
        /\ UNCHANGED <<plan, chaser, thread>>
     \/ /\ \/ plan' = [plan EXCEPT ![p].status = "failed"] /\ objective' = "blocked"
           \/ plan' = [plan EXCEPT ![p].status = "blocked"] /\ objective' = "needs_user"
        /\ UNCHANGED <<chaser, thread>>
  /\ UNCHANGED <<events, answers, stage, batch>>

\* register_email_inbound
AnswerArrives ==
  /\ thread /\ answers < ReplyLimit
  /\ answers' = answers + 1
  /\ events' = events \cup {<<"answer", answers + 1>>}
  /\ chaser' = Cancelled
  /\ thread' = FALSE
  /\ UNCHANGED <<objective, plan, stage, batch>>

ObjectiveNext ==
  \/ EnterStage \/ CoreDies \/ HandleAnswer \/ HandleChase \/ ReadDue \/ RecordDue
  \/ \E p \in DOMAIN plan : StartStep(p) \/ EndStep(p) \/ VerifyMessage(p)
  \/ AnswerArrives

ObjectiveSpec == ObjectiveInit /\ [][ObjectiveNext]_objectiveVars

-----------------------------------------------------------------------------
ObjectiveStates == Ongoing \cup {"needs_user", "completed"}
PlanSteps == [kind : {"send", "wait"}, status : StepStates, tries : Nat, chase : Nat]
Chasers == [status : {"none", "pending", "due", "dispatching", "cancelled", "exhausted"},
            tries : Nat]
CoreEvents == ({"answer"} \X (1..ReplyLimit)) \cup ({"due"} \X (1..ChaseLimit))

ObjectiveTypeOK ==
  /\ objective \in ObjectiveStates /\ plan \in Seq(PlanSteps) /\ chaser \in Chasers
  /\ thread \in BOOLEAN
  /\ batch \subseteq events /\ events \subseteq CoreEvents
  /\ answers \in 0..ReplyLimit
  /\ stage \in Stages

\* The status of an objective is true whichever of its answers, chases and retries
\* came first. A completed one has no message that is not verified. One that waits
\* for its counterparty is waited for: it is going to be chased, the chase or an
\* answer is on its way to the core, or all chases are used up; a cancelled or
\* forgotten follow-up would leave it waiting forever. And every attempt is chased at
\* most once, within the follow-up's limit, although a cycle may die at any commit and
\* a chase that was due is planned even when the answer cancelled it.
ChasedUntilAnswered ==
  /\ objective = "completed" => \A p \in Sends : plan[p].status = "completed"
  /\ objective = "waiting_external" =>
       chaser.status \in {"pending", "exhausted"} \/ events # {}
  /\ \A p, q \in Sends : plan[p].chase = plan[q].chase => p = q
  /\ \A p \in Sends : plan[p].chase <= ChaseLimit
==============================================================================
