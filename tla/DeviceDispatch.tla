--------------------------- MODULE DeviceDispatch ---------------------------
(***************************************************************************)
(* One SMS that a paired Android phone sends for the backend: the claim    *)
(* and the results of communications_service.py, the step that owns the    *)
(* action in autonomous_core.py, and on the phones the background worker,  *)
(* the receiver of incoming messages and the carrier's answer.             *)
(*                                                                         *)
(* Simplifications                                                         *)
(*  - Actions are independent of each other; this is any one of them. Only *)
(*    SMS is modelled: RemoteInput is dispatched after the same claim.     *)
(*  - Delivery receipts are left out.                                      *)
(*  - A request loads the action, without a lock, and is committed later   *)
(*    in one step. The three tries of a claim are one.                     *)
(*  - A phone has one background worker, and reads and sets its marker in  *)
(*    one step. Two messages of one phone in the air share their callback, *)
(*    as their PendingIntents do.                                          *)
(***************************************************************************)
EXTENDS Naturals, FiniteSets

CONSTANTS
  Phones,       \* paired devices
  NoPhone,
  DeviceTries,  \* max_attempts of the objective's step
  RequestLimit  \* bound on the requests that the backend works on at once

DeviceAssumption ==
  NoPhone \notin Phones /\ DeviceTries \in Nat \ {0} /\ RequestLimit \in Nat

VARIABLES
  multipart,  \* the text is longer than one SMS
  (* backend *)
  action,     \* communication_actions.status
  claimant,   \* communication_dispatch_claims.device_id
  proof,      \* there is evidence of type sms_sent
  uplink,     \* the requests at work
  step,       \* the objective's step: status, attempts, failure in hand
  (* phones *)
  phone,      \* preferences, the worker, and whether the carrier owes an answer
  reply,      \* the phone that was answered the action when it ingested the message
  (* history *)
  handed,     \* times the carrier took the whole message
  causes      \* what happened that can make it more than once

deviceVars ==
  <<multipart, action, claimant, proof, uplink, step, phone, reply, handed, causes>>
backend == <<action, claimant, proof>>

ActionStates == {"pending", "dispatching", "creation_uncertain", "sent", "failed"}
Listed == {"pending", "dispatching", "creation_uncertain"}
NewPhone == [worker |-> "idle", done |-> FALSE, sent |-> FALSE, reported |-> FALSE,
             stored |-> "none", air |-> FALSE]
Causes == {"unclaimed dispatch", "stale failure", "stale retry"}

\* A request: what it asks, the status of the action as it loaded it, what its phone
\* does with the answer, and whether the worker waits for it.
Asked == {"claim", "sent", "failed", "creation_uncertain"}
Uses == {"dispatch", "note", "forget", "keep", "none"}
Uplinks == [by : Phones, asks : Asked, seen : ActionStates, use : Uses, worker : BOOLEAN]

DeviceInit ==
  /\ multipart \in BOOLEAN
  /\ action = "pending" /\ claimant = NoPhone /\ proof = FALSE
  /\ uplink = {}
  /\ step = [status |-> "pending", tries |-> 0, failed |-> FALSE]
  /\ phone = [d \in Phones |-> NewPhone]
  /\ reply = NoPhone
  /\ handed = 0
  /\ causes = {}

-----------------------------------------------------------------------------
\* What the phone q makes of an answer; ok is the answer to a result, or the grant.
\* postOrStoreActionResult keeps a result that was not answered.
Continued(q, r, ok) ==
  [q EXCEPT !.worker = IF r.use = "dispatch" /\ ok THEN "claimed"
                       ELSE IF r.worker THEN "idle" ELSE @,
            !.reported = @ \/ (r.use = "note" /\ ok),
            !.stored = IF r.use = "forget" /\ ok THEN "none"
                       ELSE IF r.use = "keep" /\ ~ok THEN r.asks ELSE @]

Answered(r, ok) == phone' = [phone EXCEPT ![r.by] = Continued(@, r, ok)]
GivenUp(r) == [r EXCEPT !.use = "none", !.worker = FALSE]
Request(d, asks, use, worker) ==
  [by |-> d, asks |-> asks, seen |-> action, use |-> use, worker |-> worker]

\* The phone is q when it posts r: the backend loads the action, or is not reached.
Post(r, q) ==
  \/ /\ Cardinality(uplink) < RequestLimit
     /\ uplink' = uplink \cup {r}
     /\ phone' = [phone EXCEPT ![r.by] = [q EXCEPT !.worker = IF r.worker THEN "waiting" ELSE @]]
  \/ /\ phone' = [phone EXCEPT ![r.by] = Continued(q, r, FALSE)]
     /\ UNCHANGED uplink

\* The answer is lost, or late: the backend may still be at work.
LoseAnswer(r) ==
  /\ r \in uplink /\ r # GivenUp(r)
  /\ uplink' = (uplink \ {r}) \cup {GivenUp(r)}
  /\ Answered(r, FALSE)
  /\ UNCHANGED <<multipart, backend, step, reply, handed, causes>>

\* The backend dies, or fails, before it commits.
DropRequest(r) ==
  /\ r \in uplink /\ r = GivenUp(r)
  /\ uplink' = uplink \ {r}
  /\ UNCHANGED <<multipart, backend, step, phone, reply, handed, causes>>

\* complete_communication_action, from the action it loaded: a failure does not undo
\* what that row proves, and gives the claim back otherwise. A status that is the
\* loaded one is not written.
Underway == handed > 0 \/ \E e \in Phones : phone[e].air

ApplyResult(r) ==
  LET effective == IF r.asks = "failed" /\ r.seen = "sent" THEN r.seen ELSE r.asks IN
  /\ r \in uplink /\ r.asks # "claim"
  /\ uplink' = uplink \ {r}
  /\ action' = IF effective = r.seen THEN action ELSE effective
  /\ claimant' = IF effective = "failed" THEN NoPhone ELSE claimant
  /\ proof' = (proof \/ r.asks = "sent")
  /\ causes' = IF effective = "failed" /\ Underway
               THEN causes \cup {"stale failure"} ELSE causes
  /\ Answered(r, TRUE)
  /\ UNCHANGED <<multipart, step, reply, handed>>

\* claim_communication_action: the phone that holds the claim is granted it again. The
\* unique key makes a request that finds the claim taken read both again.
\* Mutant: the claim of another phone is not looked at.
GrantedToAnyone(r) == r.seen \in {"pending", "dispatching"}

Granted(r) ==
  \/ claimant = NoPhone /\ r.seen = "pending"
  \/ claimant = r.by /\ (r.seen = "dispatching" \/ action = "dispatching")

ApplyClaim(r) ==
  /\ r \in uplink /\ r.asks = "claim"
  /\ uplink' = uplink \ {r}
  /\ \/ /\ Granted(r)
        /\ claimant' = r.by
        /\ action' = IF claimant = NoPhone THEN "dispatching" ELSE action
        /\ Answered(r, TRUE)
     \/ /\ ~Granted(r) \/ claimant = r.by
        /\ Answered(r, FALSE)
        /\ UNCHANGED <<action, claimant>>
  /\ UNCHANGED <<multipart, proof, step, reply, handed, causes>>

-----------------------------------------------------------------------------
\* execute_ready_steps: a step observes its action until the phone reports.
ExecuteStep ==
  /\ step.status \in {"pending", "retry"}
  /\ LET tries == step.tries + 1 IN
     step' = [tries |-> tries, failed |-> FALSE,
              status |-> IF action # "failed" THEN "verifying"
                         ELSE IF tries < DeviceTries THEN "retry" ELSE "failed"]
  /\ UNCHANGED <<multipart, backend, uplink, phone, reply, handed, causes>>

\* verify_ready_steps loads the action, then its evidence: a failed one is put back.
FindFailed ==
  /\ step.status = "verifying" /\ action = "failed"
  /\ step' = [step EXCEPT !.failed = TRUE]
  /\ UNCHANGED <<multipart, backend, uplink, phone, reply, handed, causes>>

RetryFailedAction ==
  /\ step.failed /\ step.tries < DeviceTries
  /\ action' = "pending"
  /\ step' = [step EXCEPT !.status = "retry", !.failed = FALSE]
  /\ causes' = IF action = "failed" THEN causes ELSE causes \cup {"stale retry"}
  /\ UNCHANGED <<multipart, claimant, proof, uplink, phone, reply, handed>>

\* Mutant: an action that has not failed is taken for done.
CloseUnproven ==
  /\ step.status = "verifying" /\ ~step.failed /\ action # "failed"
  /\ step' = [step EXCEPT !.status = "completed"]
  /\ UNCHANGED <<multipart, backend, uplink, phone, reply, handed, causes>>

CloseStep ==
  /\ step.status = "verifying"
  /\ \/ /\ step.failed /\ step.tries >= DeviceTries
        /\ step' = [step EXCEPT !.status = "failed", !.failed = FALSE]
     \/ /\ ~step.failed /\ action # "failed" /\ proof
        /\ step' = [step EXCEPT !.status = "completed"]
  /\ UNCHANGED <<multipart, backend, uplink, phone, reply, handed, causes>>

-----------------------------------------------------------------------------
\* The worker sends what is listed, unless it has the carrier's answer or a stored
\* result for it: those are reported, by the same worker or by the callback.
FetchAction(d) ==
  /\ phone[d].worker = "idle"
  /\ action \in {"pending", "dispatching"}
  /\ ~phone[d].sent /\ phone[d].stored = "none"
  /\ phone' = [phone EXCEPT ![d].worker = "fetched"]
  /\ UNCHANGED <<multipart, backend, uplink, step, reply, handed, causes>>

\* repostEvidenceIfAvailable
RepostSent(d) ==
  /\ phone[d].worker = "idle" /\ action \in Listed
  /\ phone[d].sent /\ ~phone[d].reported
  /\ Post(Request(d, "sent", "note", TRUE), phone[d])
  /\ UNCHANGED <<multipart, backend, step, reply, handed, causes>>

\* repostStoredActionEvidence, after what the carrier took
RepostStored(d) ==
  /\ phone[d].worker = "idle" /\ action \in Listed
  /\ phone[d].stored # "none"
  /\ phone[d].sent => phone[d].reported
  /\ Post(Request(d, phone[d].stored, "forget", TRUE), phone[d])
  /\ UNCHANGED <<multipart, backend, step, reply, handed, causes>>

\* claimCommunicationAction: a worker that is not answered leaves the action alone.
ClaimAction(d) ==
  /\ phone[d].worker = "fetched"
  /\ Post(Request(d, "claim", "dispatch", TRUE), phone[d])
  /\ UNCHANGED <<multipart, backend, step, reply, handed, causes>>

\* markActionExecuted
MarkExecuted(d) ==
  /\ phone[d].worker = "claimed"
  /\ phone' = [phone EXCEPT ![d].worker = IF phone[d].done THEN "idle" ELSE "marked",
                            ![d].done = TRUE]
  /\ UNCHANGED <<multipart, backend, uplink, step, reply, handed, causes>>

\* VaSms.send; an exception is raised before the carrier has the message.
InTheAir(q) == [q EXCEPT !.air = TRUE, !.reported = FALSE]

SendSms(d) ==
  LET q == [phone[d] EXCEPT !.worker = "idle"] IN
  /\ phone[d].worker = "marked"
  /\ \/ /\ phone' = [phone EXCEPT ![d] = InTheAir(q)]
        /\ causes' = IF claimant = d THEN causes ELSE causes \cup {"unclaimed dispatch"}
        /\ UNCHANGED uplink
     \/ /\ Post(Request(d, "failed", "keep", TRUE), [q EXCEPT !.done = FALSE])
        /\ UNCHANGED causes
  /\ UNCHANGED <<multipart, backend, step, reply, handed>>

\* SmsReceiver sends the reply that one phone is answered when it ingests the message.
\* It marks the action and does not claim it.
ReceiverReplies(d) ==
  /\ reply = NoPhone /\ reply' = d
  /\ ~phone[d].done
  /\ phone' = [phone EXCEPT ![d] = InTheAir([phone[d] EXCEPT !.done = TRUE])]
  /\ causes' = causes \cup {"unclaimed dispatch"}
  /\ UNCHANGED <<multipart, backend, uplink, step, handed>>

\* Its failure is posted and not stored: it may release a claim it never had.
ReceiverFails(d) ==
  /\ reply = NoPhone /\ reply' = d
  /\ ~phone[d].done
  /\ Post(Request(d, "failed", "none", FALSE), phone[d])
  /\ causes' = causes \cup {"unclaimed dispatch"}
  /\ UNCHANGED <<multipart, backend, step, handed>>

\* SmsStatusReceiver. A part of a longer message that failed says nothing of the
\* others: the marker stays.
CarrierTakes(d) ==
  /\ phone[d].air
  /\ handed' = handed + 1
  /\ Post(Request(d, "sent", "note", FALSE), [phone[d] EXCEPT !.sent = TRUE, !.air = FALSE])
  /\ UNCHANGED <<multipart, backend, step, reply, causes>>

CarrierRefuses(d) ==
  /\ phone[d].air
  /\ Post(Request(d, IF multipart THEN "creation_uncertain" ELSE "failed", "keep", FALSE),
          [phone[d] EXCEPT !.air = FALSE, !.sent = FALSE, !.done = multipart])
  /\ UNCHANGED <<multipart, backend, step, reply, handed, causes>>

\* The phone stops: its threads are gone and so is the callback; its preferences stay.
PhoneStops(d) ==
  /\ phone[d].worker # "idle" \/ phone[d].air \/ \E r \in uplink : r.by = d /\ r # GivenUp(r)
  /\ phone' = [phone EXCEPT ![d].worker = "idle", ![d].air = FALSE]
  /\ uplink' = {IF r.by = d THEN GivenUp(r) ELSE r : r \in uplink}
  /\ handed' \in IF phone[d].air THEN {handed, handed + 1} ELSE {handed}
  /\ UNCHANGED <<multipart, backend, step, reply, causes>>

DeviceNext ==
  \/ ExecuteStep \/ FindFailed \/ RetryFailedAction \/ CloseStep
  \/ \E r \in uplink : LoseAnswer(r) \/ DropRequest(r) \/ ApplyResult(r) \/ ApplyClaim(r)
  \/ \E d \in Phones :
       \/ FetchAction(d) \/ ClaimAction(d) \/ MarkExecuted(d) \/ SendSms(d)
       \/ RepostSent(d) \/ RepostStored(d) \/ ReceiverReplies(d) \/ ReceiverFails(d)
       \/ CarrierTakes(d) \/ CarrierRefuses(d) \/ PhoneStops(d)

DeviceSpec == DeviceInit /\ [][DeviceNext]_deviceVars

-----------------------------------------------------------------------------
DeviceTypeOK ==
  /\ multipart \in BOOLEAN
  /\ action \in ActionStates /\ claimant \in Phones \cup {NoPhone} /\ proof \in BOOLEAN
  /\ uplink \subseteq Uplinks
  /\ step \in [status : {"pending", "retry", "verifying", "completed", "failed"},
               tries : Nat, failed : BOOLEAN]
  /\ phone \in [Phones -> [worker : {"idle", "fetched", "waiting", "claimed", "marked"},
                           done : BOOLEAN, sent : BOOLEAN, reported : BOOLEAN,
                           stored : {"none", "failed", "creation_uncertain"}, air : BOOLEAN]]
  /\ reply \in Phones \cup {NoPhone}
  /\ handed \in Nat /\ causes \subseteq Causes

\* The step of the objective is completed only when the carrier took all of the message;
\* it takes it again only for a cause on record.
SentOnce ==
  /\ handed > 1 => causes # {}
  /\ step.status = "completed" => handed > 0

\* What is known to be sent never becomes retryable again, unless a cause is on record.
StaysSent == action = "sent" => action' \in {"sent", "creation_uncertain"} \/ causes' # {}

\* The backend's claim and the phone's marker keep the message from going out twice,
\* whatever requests, answers, callbacks and phones are lost or late, with exactly these
\* exceptions on record: a phone sent it, or gave it up, without holding the claim at
\* that moment; a failure was applied, from a row loaded before, while the message was
\* under way; the step put the action back from such a row. Without them what the
\* carrier is known to have taken is never retried.
SmsRepeatsAreCaused == []SentOnce /\ [][StaysSent]_deviceVars

\* "Android must atomically claim a backend action before SMS carrier or supported
\* RemoteInput dispatch" (docs V1.0.16_DEVICE_DISPATCH_CLAIM.md): the phone that puts
\* the message in the air holds the claim. The receiver of messages does not claim.
ClaimedBeforeDispatch ==
  [][\A d \in Phones : ~phone[d].air /\ phone'[d].air => claimant = d]_deviceVars
=============================================================================
