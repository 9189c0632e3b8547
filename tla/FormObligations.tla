--------------------------- MODULE FormObligations ---------------------------
(***************************************************************************)
(* A form that a document asks for: document_ownership.py reads the        *)
(* document, keeps an obligation, fills the form with the owner's profile  *)
(* and files it as an operation on the form's portal. Jobs, ingestions and *)
(* the owner's routes, also those that only list, do this at once.         *)
(*                                                                         *)
(* Simplifications                                                         *)
(*  - One document with one form. Every reading finds the same deadline:   *)
(*    the deadline is part of the obligation's key, another one would make *)
(*    a second obligation with operations of its own.                      *)
(*  - Google is connected, so that listing the profile commits what the    *)
(*    session has written.                                                 *)
(*  - An operation is what PortalOperation makes of it: it submits at most *)
(*    once, and afterwards it only looks for the result.                   *)
(*  - An obligation without an operation is "open" when it is detected or  *)
(*    the portal or the data are missing; with one, the two kinds of       *)
(*    "blocked" and of "needs_user" lead to the same.                      *)
(***************************************************************************)
EXTENDS Naturals, FiniteSets

CONSTANTS
  Profiles,     \* fingerprints of the verified profile facts
  Sufficient,   \* those that fill in every required field
  NoProfile,
  Clerks,       \* sessions
  ProfileLimit  \* bound on changes of the profile

FormAssumption ==
  Sufficient \subseteq Profiles /\ NoProfile \notin Profiles /\ ProfileLimit \in Nat

VARIABLES
  profile,     \* the verified facts, and how often they changed
  hosted,      \* an enabled portal matches the form's host
  reading,     \* document_intelligence.status
  duty,        \* document_obligations: status, and whose fields its operation has
  filings,     \* form_submissions, each with its event for the core
  formOp,      \* browser_operations.status
  clerk,       \* what each session does: the operation and the fields as it holds them
  delivered,   \* history: forms that the portal received
  retaken      \* history: an obligation with a form was read again, or got another
               \* one from two sessions

formVars == <<profile, hosted, reading, duty, filings, formOp, clerk, delivered, retaken>>

DutyStates == {"absent", "open", "in_progress", "blocked", "needs_user", "overdue",
               "completed"}
FormOpStates == {"none", "pending", "needs_input", "needs_login", "creation_uncertain",
                 "failed", "verified"}
ClerkPlaces == {"idle", "taken", "retaken", "reading", "syncing", "replacing", "filing"}
Away == [pc |-> "idle", form |-> NoProfile, fields |-> NoProfile]

FormInit ==
  /\ profile \in [facts : Profiles, changes : {0}]
  /\ hosted = FALSE /\ reading = "none"
  /\ duty = [status |-> "absent", form |-> NoProfile]
  /\ filings = {} /\ formOp = [f \in Profiles |-> "none"]
  /\ clerk = [s \in Clerks |-> Away]
  /\ delivered = {} /\ retaken = FALSE

Clerk(s, as) == clerk' = [clerk EXCEPT ![s] = as]
Stamp(status) == duty' = [duty EXCEPT !.status = status]

-----------------------------------------------------------------------------
\* analyze_document_record finds no analysis of the document, or a failed one.
TakeDocument(s) ==
  /\ clerk[s].pc = "idle" /\ reading # "analyzed"
  /\ Clerk(s, [Away EXCEPT !.pc = IF reading = "none" THEN "taken" ELSE "retaken"])
  /\ UNCHANGED <<profile, hosted, reading, duty, filings, formOp, delivered, retaken>>

\* From the flush that locks the analysis to the first commit. A second insert of the
\* analysis is refused; a second update waits, and then reads the document again.
ReadDocument(s) ==
  LET status == IF duty.status = "absent" THEN "open" ELSE duty.status IN
  /\ clerk[s].pc \in {"taken", "retaken"}
  /\ \/ /\ clerk[s].pc = "taken" /\ reading # "none"
        /\ Clerk(s, Away) /\ UNCHANGED <<reading, duty, retaken>>
     \/ reading' = "failed" /\ Clerk(s, Away) /\ UNCHANGED <<duty, retaken>>
     \/ /\ clerk[s].pc = "retaken" \/ reading = "none"
        /\ reading' = "analyzed"
        /\ IF status = "completed" \/ hosted THEN Stamp(status)
           ELSE Stamp(IF duty.form = NoProfile THEN "open" ELSE "blocked")
        /\ Clerk(s, IF status = "completed" \/ ~hosted THEN Away
                    ELSE [Away EXCEPT !.pc = "reading", !.form = duty.form])
        /\ retaken' = (retaken \/ duty.form # NoProfile)
  /\ UNCHANGED <<profile, hosted, filings, formOp, delivered>>

\* _prepare_form_submission: a form with the same fields is taken over, for another
\* one the operation is committed first.
FillForm(s) ==
  LET at == clerk[s]
      facts == profile.facts IN
  /\ at.pc \in {"reading", "replacing"} \/ (at.pc = "syncing" /\ at.form = NoProfile)
  /\ IF facts \in filings
       THEN /\ duty' = [form |-> facts,
                        status |-> IF at.pc # "replacing" THEN duty.status
                                   ELSE IF facts = at.form THEN "needs_user"
                                   ELSE "in_progress"]
            /\ retaken' = (retaken \/ duty.form \notin {at.form, facts})
            /\ Clerk(s, Away) /\ UNCHANGED formOp
       ELSE /\ formOp' = [formOp EXCEPT ![facts] = IF @ = "none" THEN "pending" ELSE @]
            /\ Clerk(s, [at EXCEPT !.pc = "filing", !.fields = facts])
            /\ UNCHANGED <<duty, retaken>>
  /\ UNCHANGED <<profile, hosted, reading, filings, delivered>>

\* The submission, its link and its event; its key lets one session commit.
FileForm(s) ==
  LET at == clerk[s] IN
  /\ at.pc = "filing"
  /\ IF at.fields \in filings THEN UNCHANGED <<filings, duty, retaken>>
     ELSE /\ filings' = filings \cup {at.fields}
          /\ duty' = [status |-> "in_progress", form |-> at.fields]
          /\ retaken' = (retaken \/ duty.form # at.form)
  /\ Clerk(s, Away)
  /\ UNCHANGED <<profile, hosted, reading, formOp, delivered>>

\* The portal or the plan is refused, or the session dies. A refusal while the document
\* is read makes the reading a failed one.
GiveFormUp(s) ==
  /\ clerk[s].pc # "idle"
  /\ Clerk(s, Away)
  /\ reading' \in {reading} \cup (IF clerk[s].pc = "reading" THEN {"failed"} ELSE {})
  /\ UNCHANGED <<profile, hosted, duty, filings, formOp, delivered, retaken>>

-----------------------------------------------------------------------------
\* _sync_obligation_statuses, also for the routes that list the obligations. One
\* without an operation is prepared while it is open, and may become overdue.
LoadDuty(s) ==
  /\ clerk[s].pc = "idle" /\ duty.status \notin {"absent", "completed"}
  /\ \/ /\ duty.form # NoProfile \/ (hosted /\ duty.status = "open")
        /\ Clerk(s, [Away EXCEPT !.pc = "syncing", !.form = duty.form])
        /\ UNCHANGED duty
     \/ /\ duty.form = NoProfile /\ ~(hosted /\ duty.status = "open")
        /\ Stamp("overdue") /\ UNCHANGED clerk
  /\ UNCHANGED <<profile, hosted, reading, filings, formOp, delivered, retaken>>

\* Mutant: an operation in doubt is taken for one that lacks data.
LacksDataOrProof(op) == op \in {"needs_input", "creation_uncertain"}

\* The operation stopped before the submission for want of data.
LacksData(op) == op = "needs_input"

\* What the obligation of an operation becomes.
Outcome(op) ==
  CASE op = "verified" -> "completed"
    [] op \in {"needs_input", "needs_login"} -> "needs_user"
    [] op = "failed" -> "blocked"
    [] OTHER -> "in_progress"

SyncFiled(s) ==
  LET at == clerk[s] IN
  /\ at.pc = "syncing" /\ at.form # NoProfile
  /\ IF LacksData(formOp[at.form]) /\ hosted
       THEN Clerk(s, [at EXCEPT !.pc = "replacing"]) /\ UNCHANGED duty
       ELSE Stamp(Outcome(formOp[at.form])) /\ Clerk(s, Away)
  /\ UNCHANGED <<profile, hosted, reading, filings, formOp, delivered, retaken>>

-----------------------------------------------------------------------------
\* The core runs an operation that an event told it of. The form is submitted only
\* with all required fields, and what became of it may not be known.
RunFiling ==
  \E f \in filings :
    /\ formOp[f] = "pending"
    /\ \/ /\ f \notin delivered
          /\ \E to \in {"needs_login", "failed"} \cup
                       (IF f \in Sufficient THEN {"creation_uncertain"} ELSE {"needs_input"}) :
               formOp' = [formOp EXCEPT ![f] = to]
          /\ UNCHANGED delivered
       \/ /\ f \in Sufficient
          /\ \E to \in {"verified", "creation_uncertain", "needs_login", "failed"} :
               formOp' = [formOp EXCEPT ![f] = to]
          /\ delivered' = delivered \cup {f}
  /\ UNCHANGED <<profile, hosted, reading, duty, filings, clerk, retaken>>

\* The owner resumes an operation, or the core finds the result of one in doubt.
ResumeFiling ==
  \E f \in filings :
    /\ \/ /\ \/ formOp[f] \in {"needs_input", "needs_login"}
             \/ formOp[f] = "failed" /\ f \notin delivered
          /\ formOp' = [formOp EXCEPT ![f] = "pending"]
       \/ /\ formOp[f] = "creation_uncertain" /\ f \in delivered
          /\ formOp' = [formOp EXCEPT ![f] = "verified"]
    /\ UNCHANGED <<profile, hosted, reading, duty, filings, clerk, delivered, retaken>>

\* set_user_profile_fact, or the Google account changes a fact that is not explicit.
ChangeProfile ==
  /\ profile.changes < ProfileLimit
  /\ \E f \in Profiles \ {profile.facts} :
       profile' = [facts |-> f, changes |-> profile.changes + 1]
  /\ UNCHANGED <<hosted, reading, duty, filings, formOp, clerk, delivered, retaken>>

\* The owner adds the portal.
AddPortal ==
  /\ ~hosted /\ hosted' = TRUE
  /\ UNCHANGED <<profile, reading, duty, filings, formOp, clerk, delivered, retaken>>

FormNext ==
  \/ \E s \in Clerks :
       \/ TakeDocument(s) \/ ReadDocument(s) \/ FillForm(s) \/ FileForm(s) \/ GiveFormUp(s)
       \/ LoadDuty(s) \/ SyncFiled(s)
  \/ RunFiling \/ ResumeFiling \/ ChangeProfile \/ AddPortal

FormSpec == FormInit /\ [][FormNext]_formVars

-----------------------------------------------------------------------------
ProfileRows == [facts : Profiles, changes : 0..ProfileLimit]
Readings == {"none", "analyzed", "failed"}
Duties == [status : DutyStates, form : Profiles \cup {NoProfile}]

FormTypeOK ==
  /\ profile \in ProfileRows /\ hosted \in BOOLEAN /\ reading \in Readings
  /\ duty \in Duties
  /\ filings \subseteq Profiles /\ formOp \in [Profiles -> FormOpStates]
  /\ clerk \in [Clerks -> [pc : ClerkPlaces, form : Profiles \cup {NoProfile},
                           fields : Profiles \cup {NoProfile}]]
  /\ delivered \subseteq filings /\ retaken \in BOOLEAN

\* The portal receives the form once, also when the owner completes his profile while
\* an operation waits, runs or is in doubt: only one that could not submit is replaced.
\* It receives it again only if two sessions prepared the obligation or it was read
\* again. And what is called completed was received.
FormFiledOnce ==
  /\ Cardinality(delivered) <= 1 \/ retaken
  /\ duty.status = "completed" => delivered # {}
==============================================================================
