-------------------------- MODULE PortalOperation ---------------------------
(***************************************************************************)
(* One operation on a web portal: browser_operator.py, run by jobs of the  *)
(* workflow engine, resumed by the owner's routes and by the objective     *)
(* that observes it. A click may have been received although it failed;    *)
(* what it did can only be told from the portal's page, which may lag.     *)
(*                                                                         *)
(* Simplifications                                                         *)
(*  - A session writes the columns it changed since it loaded the row and  *)
(*    leaves the others as they are, whatever others wrote to them.        *)
(*  - The steps of a login are not business steps and are left out, as are *)
(*    plans that cannot be read, disabled portals and a missing browser.   *)
(*  - The engine runs a job again when it raised or its process died, or   *)
(*    gives it up; a job is named by the resume_sequence in its key.       *)
(***************************************************************************)
EXTENDS Naturals

CONSTANTS
  PlanLength,    \* number of steps
  EffectSteps,   \* steps with a side effect that must not be replayed
  BrowserRuns,   \* sessions that may run a job
  RunTries,      \* max_attempts
  ResumeLimit,   \* bound on resume_sequence
  RunLimit       \* bound on attempts

OperationAssumption ==
  /\ PlanLength \in Nat /\ EffectSteps \subseteq 0..(PlanLength - 1)
  /\ RunTries \in Nat \ {0} /\ ResumeLimit \in Nat /\ RunLimit \in Nat

VARIABLES
  operation,   \* browser_operations: status, current_step, side_effect_step, attempts
  sequence,    \* browser_operations.resume_sequence
  runnable,    \* jobs that the engine may start
  browser,     \* the sessions, each with the row as it holds it
  clicked,     \* times the portal carried out each side effect
  overlapped   \* history: two jobs were at work on the operation at once

operationVars == <<operation, sequence, runnable, browser, clicked, overlapped>>

NoMarker == PlanLength
OperationStates == {"pending", "running", "dispatching", "retry", "failed", "needs_user_auth",
                    "creation_uncertain", "verified"}
BrowserPlaces == {"idle", "walking", "dispatched", "acted", "doubtful", "reconciling"}
NewOperation == [status |-> "pending", at |-> 0, marker |-> NoMarker, tries |-> 0]
Closed == [pc |-> "idle", job |-> 0, row |-> NewOperation]

OperationInit ==
  /\ operation = NewOperation
  /\ sequence = 0 /\ runnable = {0}
  /\ browser = [s \in BrowserRuns |-> Closed]
  /\ clicked = [i \in EffectSteps |-> 0]
  /\ overlapped = FALSE

-----------------------------------------------------------------------------
\* Mutant: off by one, a step that was started and not recorded is not in doubt.
DoubtfulPast(row) == row.marker # NoMarker /\ row.at > row.marker

\* operation_requires_postcondition_reconciliation
Doubtful(row) == row.marker # NoMarker /\ row.at >= row.marker

\* A commit of session s whose row becomes row, and where it goes.
Commit(s, row, pc) ==
  /\ operation' = [c \in DOMAIN row |-> IF row[c] # browser[s].row[c] THEN row[c]
                                        ELSE operation[c]]
  /\ browser' = [browser EXCEPT ![s] = IF pc = "idle" THEN Closed
                                       ELSE [browser[s] EXCEPT !.pc = pc, !.row = row]]

Settle(s, status) ==
  Commit(s, [browser[s].row EXCEPT
               !.status = status, !.marker = IF status = "verified" THEN NoMarker ELSE @], "idle")

\* execute_browser_operation up to the page that it starts from.
StartRun(s) ==
  /\ browser[s].pc = "idle" /\ operation.tries < RunLimit
  /\ \E n \in runnable :
       LET row == [operation EXCEPT !.status = "running", !.tries = @ + 1] IN
       /\ runnable' = runnable \ {n}
       /\ IF operation.status = "verified" THEN UNCHANGED <<operation, browser, overlapped>>
          ELSE /\ operation' = row
               /\ browser' = [browser EXCEPT ![s] =
                    [pc |-> IF Doubtful(row) THEN "reconciling" ELSE "walking",
                     job |-> n, row |-> row]]
               /\ overlapped' = (overlapped \/ \E o \in BrowserRuns : browser[o].pc # "idle")
  /\ UNCHANGED <<sequence, clicked>>

\* Before a side effect its marker is committed.
NextPlanStep(s) ==
  LET row == browser[s].row IN
  /\ browser[s].pc = "walking" /\ row.at < PlanLength
  /\ IF row.at \in EffectSteps
       THEN Commit(s, [row EXCEPT !.status = "dispatching", !.marker = row.at], "dispatched")
       ELSE /\ browser' = [browser EXCEPT ![s].pc = "acted"]
            /\ UNCHANGED operation
  /\ UNCHANGED <<sequence, runnable, clicked, overlapped>>

\* The portal may have carried out what the page did not confirm.
PerformEffect(s) ==
  /\ browser[s].pc = "dispatched"
  /\ \/ /\ clicked' = [clicked EXCEPT ![browser[s].row.at] = @ + 1]
        /\ \E pc \in {"acted", "doubtful"} : browser' = [browser EXCEPT ![s].pc = pc]
     \/ /\ browser' = [browser EXCEPT ![s].pc = "doubtful"]
        /\ UNCHANGED clicked
  /\ UNCHANGED <<operation, sequence, runnable, overlapped>>

RecordUncertainty(s) ==
  /\ browser[s].pc = "doubtful"
  /\ Settle(s, "creation_uncertain")
  /\ UNCHANGED <<sequence, runnable, clicked, overlapped>>

\* The marker stays until the portal shows the result.
RecordPlanStep(s) ==
  /\ browser[s].pc = "acted"
  /\ Commit(s, [browser[s].row EXCEPT !.at = @ + 1, !.status = "running"], "walking")
  /\ UNCHANGED <<sequence, runnable, clicked, overlapped>>

\* A login that needs the owner, at the start or after any step.
Challenged(s) ==
  /\ browser[s].pc \in {"walking", "reconciling"}
  /\ Settle(s, "needs_user_auth")
  /\ UNCHANGED <<sequence, runnable, clicked, overlapped>>

\* verify_page: true only when the portal has done everything.
Shown == \A i \in EffectSteps : clicked[i] > 0

CheckPostcondition(s) ==
  LET row == browser[s].row IN
  /\ \/ browser[s].pc = "reconciling"
     \/ browser[s].pc = "walking" /\ row.at = PlanLength
  /\ \/ Shown /\ Settle(s, "verified")
     \/ row.marker # NoMarker /\ Settle(s, "creation_uncertain")
     \/ row.marker = NoMarker /\ Settle(s, "failed")
  /\ UNCHANGED <<sequence, runnable, clicked, overlapped>>

\* Any other error: a timeout, a page that cannot be reached, a field not found.
\* An operation without doubt is retried by the engine. A navigation out of the
\* allowlist fails the operation whatever was done before.
RunFails(s) ==
  LET row == browser[s].row IN
  /\ browser[s].pc \in {"walking", "reconciling"}
  /\ \/ /\ Doubtful(row)
        /\ \/ Settle(s, "creation_uncertain")
           \/ browser[s].pc = "walking" /\ Settle(s, "failed")
        /\ UNCHANGED runnable
     \/ /\ ~Doubtful(row) /\ row.tries < RunTries
        /\ Settle(s, "retry")
        /\ runnable' \in {runnable, runnable \cup {browser[s].job}}
     \/ /\ ~Doubtful(row)
        /\ Settle(s, "failed")
        /\ UNCHANGED runnable
  /\ UNCHANGED <<sequence, clicked, overlapped>>

RunDies(s) ==
  /\ browser[s].pc # "idle"
  /\ browser' = [browser EXCEPT ![s] = Closed]
  /\ runnable' \in {runnable, runnable \cup {browser[s].job}}
  /\ UNCHANGED <<operation, sequence, clicked, overlapped>>

\* resume_browser_operation, submit_auth_code and _resume_browser_reconciliation.
\* The job is enqueued after the commit, or never.
ResumeOperation ==
  /\ sequence < ResumeLimit
  /\ \/ operation.status \in {"needs_user_auth", "retry"}
     \/ operation.status = "failed" /\ operation.marker = NoMarker
     \/ operation.status = "creation_uncertain" /\ operation.marker # NoMarker
  /\ operation' = [operation EXCEPT !.status = "pending"]
  /\ sequence' = sequence + 1
  /\ runnable' \in {runnable, runnable \cup {sequence + 1}}
  /\ UNCHANGED <<browser, clicked, overlapped>>

OperationNext ==
  \/ \E s \in BrowserRuns :
       \/ StartRun(s) \/ NextPlanStep(s) \/ PerformEffect(s) \/ RecordUncertainty(s)
       \/ RecordPlanStep(s) \/ Challenged(s) \/ CheckPostcondition(s) \/ RunFails(s)
       \/ RunDies(s)
  \/ ResumeOperation

OperationSpec == OperationInit /\ [][OperationNext]_operationVars

-----------------------------------------------------------------------------
OperationRows == [status : OperationStates, at : 0..PlanLength, marker : 0..PlanLength,
                  tries : Nat]

OperationTypeOK ==
  /\ operation \in OperationRows
  /\ sequence \in 0..ResumeLimit /\ runnable \subseteq 0..sequence
  /\ browser \in [BrowserRuns -> [pc : BrowserPlaces, job : 0..ResumeLimit, row : OperationRows]]
  /\ clicked \in [EffectSteps -> Nat]
  /\ overlapped \in BOOLEAN

\* A side effect on a portal happens once, however often its operation times out,
\* dies, is challenged, found in doubt and resumed. It is repeated only when two
\* jobs worked on the operation at once: nothing claims it, and the owner may
\* resume an operation that the engine is about to retry.
EffectsAreNotReplayed ==
  (\E i \in EffectSteps : clicked[i] > 1) => overlapped
=============================================================================
