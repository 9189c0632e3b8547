------------------------------ MODULE ActionQueue -------------------------------
(***************************************************************************)
(* What an e-mail asks for and the tasks that stand for it. The queue is   *)
(* reconciled after every sync, by routes, by jobs and by the planner      *)
(* (action_reconciler.py): an action whose execution is on record closes   *)
(* its task, one that has neither a record nor a task gets a task, and the *)
(* e-mail's flag is dropped when nothing is left. The owner executes and   *)
(* closes tasks (routes.py), the planner hands a reply over to an          *)
(* objective (autopilot_planner.py), the core's cycle cancels duplicates   *)
(* (communication_backlog_repair.py).                                      *)
(*                                                                         *)
(* Nothing locks the e-mail or makes a task unique: reconciliations and    *)
(* executions overlap with each other and with all the rest.               *)
(*                                                                         *)
(* Simplifications                                                         *)
(*  - One e-mail, analysed once. "todo" is a task that only the owner      *)
(*    closes: of a support case, of an event (nothing writes the record of *)
(*    an event that reconcile_action_queue looks for), or of the decision. *)
(*  - The steps of the objective that sends the reply are those of         *)
(*    Objectives and GmailDelivery: it is sent, and verified later.        *)
(*  - The planner and the repair commit once, without a call outside, and  *)
(*    are one step each.                                                   *)
(***************************************************************************)
EXTENDS Naturals, FiniteSets

CONSTANTS
  Hands,      \* sessions that reconcile or execute
  WishLists,  \* the actions that the e-mail may ask for: sets of kinds
  TaskLimit   \* tasks of one kind for one e-mail

Kinds == {"reply", "bill", "todo"}
ActionAssumption == WishLists \subseteq SUBSET Kinds /\ TaskLimit \in Nat \ {0}

VARIABLES
  letter,   \* email_messages: action_required, and what its decision asks for
  queue,    \* tasks of the e-mail, by kind, in their order: status
  proof,    \* kinds that have a record of their execution: audit_logs, bills
  plan,     \* the reply's objective: "none", "queued", "sent" or "verified"
  hand,     \* each session: what it has read and is to write, or the task that it executes
  sent,     \* external: replies that Gmail has accepted
  crossed,  \* history: the reply was in two hands at once, or a hand died after it sent
  dropped,  \* history: kinds that the owner cancelled as a task, or as an approval
  settled   \* history: nothing has changed since a reconciliation that ran alone

actionVars == <<letter, queue, proof, plan, hand, sent, crossed, dropped, settled>>

Slots == 1..TaskLimit
Free == [pc |-> "idle", close |-> {}, create |-> {}, slot |-> 0, alone |-> FALSE]
Pending == {"open", "waiting"}
OpenSlots(k) == {i \in Slots : queue[k][i] \in Pending}
IsOpen(k) == OpenSlots(k) # {}
IsCompleted(k) == \E i \in Slots : queue[k][i] = "completed"
Vacant(k) == {i \in Slots : queue[k][i] = "none"}
First(S) == CHOOSE i \in S : \A j \in S : i <= j

ActionInit ==
  /\ \E wanted \in WishLists, planned \in {"none", "queued"} :
       /\ letter = [flag |-> TRUE, wants |-> wanted]
       /\ plan = IF "reply" \in wanted THEN planned ELSE "none"
  /\ queue = [k \in Kinds |-> [i \in Slots |-> "none"]]
  /\ proof = {} /\ sent = 0 /\ crossed = FALSE /\ dropped = {} /\ settled = FALSE
  /\ hand = [h \in Hands |-> Free]

\* What a session writes disturbs the others.
Hand(h, as) == hand' = [g \in Hands |-> IF g = h THEN as ELSE [hand[g] EXCEPT !.alone = FALSE]]
Disturb ==
  /\ hand' = [g \in Hands |-> [hand[g] EXCEPT !.alone = FALSE]]
  /\ settled' = FALSE
Sending == {h \in Hands : hand[h].pc \in {"sending", "sent"}}

-----------------------------------------------------------------------------
(***************************************************************************)
(* reconcile_action_queue                                                  *)
(***************************************************************************)
\* _audit_exists for a reply or an event; a bill that is no longer to be reviewed
OnRecord(k) == k \in proof

\* Tasks that are open though their action is on record
Stale(k) == IF OnRecord(k) THEN OpenSlots(k) ELSE {}

\* An action without a record gets a task, unless one is open, or was completed; a bill
\* that is still to be reviewed gets one all the same.
Lacking ==
  {k \in letter.wants : ~OnRecord(k) /\ ~IsOpen(k) /\ (k # "bill" => ~IsCompleted(k))}

NewTask(k) == First(Vacant(k))

Reconcile(h) ==
  /\ hand[h].pc = "idle" /\ letter.flag
  /\ hand' = [hand EXCEPT ![h] = [pc |-> "reconciling", slot |-> 0, create |-> Lacking,
       close |-> {t \in Kinds \X Slots : t[2] \in Stale(t[1])}, alone |-> TRUE]]
  /\ UNCHANGED <<letter, queue, proof, plan, sent, crossed, dropped, settled>>

\* The flush, the query for what remains, and the commit. A bill that was to be reviewed
\* when it was read keeps the flag.
Settle(h) ==
  LET c == hand[h]
      after == [k \in Kinds |-> [i \in Slots |->
        IF <<k, i>> \in c.close THEN "completed"
        ELSE IF k \in c.create /\ i = NewTask(k) THEN "open" ELSE queue[k][i]]]
      unresolved == \E k \in Kinds, i \in Slots : after[k][i] \in Pending IN
  /\ c.pc = "reconciling" /\ \A k \in c.create : Vacant(k) # {}
  /\ queue' = after
  /\ letter' = [letter EXCEPT !.flag = @ /\ (unresolved \/ "bill" \in c.create)]
  /\ settled' = c.alone
  /\ Hand(h, Free)
  /\ UNCHANGED <<proof, plan, sent, crossed, dropped>>

-----------------------------------------------------------------------------
(***************************************************************************)
(* The owner                                                               *)
(***************************************************************************)
\* set_task_status
SetStatus(k, i) ==
  /\ queue[k][i] # "none"
  /\ \E status \in Pending \cup {"completed", "cancelled"} :
       /\ status # queue[k][i]
       /\ queue' = [queue EXCEPT ![k][i] = status]
       /\ dropped' = IF status = "cancelled" THEN dropped \cup {k} ELSE dropped
  /\ Disturb
  /\ UNCHANGED <<letter, proof, plan, sent, crossed>>

\* Whether execute_task_action finds the reply on record
\* Mutant: a task that was completed is the record.
ReplyTaskDone == IsCompleted("reply")
AlreadySent == OnRecord("reply")

\* execute_task_action, of a task that is open
Execute(h, i) ==
  /\ hand[h].pc = "idle" /\ i \in OpenSlots("reply")
  /\ IF AlreadySent
     THEN /\ queue' = [queue EXCEPT !["reply"][i] = "completed"]
          /\ Disturb /\ UNCHANGED crossed
     ELSE /\ hand' = [hand EXCEPT ![h] = [Free EXCEPT !.pc = "sending", !.slot = i]]
          /\ crossed' = (crossed \/ Sending # {} \/ plan \in {"queued", "sent"})
          /\ UNCHANGED <<queue, settled>>
  /\ UNCHANGED <<letter, proof, plan, sent, dropped>>

Send(h) ==
  /\ hand[h].pc = "sending" /\ sent < 2
  /\ sent' = sent + 1
  /\ hand' = [hand EXCEPT ![h].pc = "sent"]
  /\ UNCHANGED <<letter, queue, proof, plan, crossed, dropped, settled>>

RecordSent(h) ==
  /\ hand[h].pc = "sent"
  /\ queue' = [queue EXCEPT !["reply"][hand[h].slot] = "completed"]
  /\ proof' = proof \cup {"reply"}
  /\ Hand(h, Free) /\ settled' = FALSE
  /\ UNCHANGED <<letter, plan, sent, crossed, dropped>>

\* A session dies, or Gmail's answer is lost.
HandDies(h) ==
  /\ hand[h].pc # "idle"
  /\ hand' = [hand EXCEPT ![h] = Free]
  /\ crossed' = (crossed \/ hand[h].pc = "sent")
  /\ UNCHANGED <<letter, queue, proof, plan, sent, dropped, settled>>

\* upsert_creditor: the owner lets the creditor's bills be paid, or takes that back, which
\* does not raise the flag again.
ReviewBill ==
  /\ "bill" \in letter.wants
  /\ \/ "bill" \notin proof /\ proof' = proof \cup {"bill"} /\ UNCHANGED dropped
     \/ "bill" \in proof /\ proof' = proof \ {"bill"} /\ dropped' = dropped \cup {"bill"}
  /\ Disturb
  /\ UNCHANGED <<letter, queue, plan, sent, crossed>>

-----------------------------------------------------------------------------
(***************************************************************************)
(* The planner, the objective and the repair                               *)
(***************************************************************************)
ReplyAlreadySent == "reply" \in proof \/ plan = "verified"

\* _execute_safe_queued_replies: a reply on record closes its task; one that the policy
\* allows is handed over, once for the e-mail, and its task waits.
PlanReply(i) ==
  /\ i \in OpenSlots("reply")
  /\ IF ReplyAlreadySent
     THEN queue' = [queue EXCEPT !["reply"][i] = "completed"] /\ UNCHANGED <<plan, crossed>>
     ELSE /\ queue' = [queue EXCEPT !["reply"][i] = "waiting"]
          /\ plan' = IF plan = "none" THEN "queued" ELSE plan
          /\ crossed' = (crossed \/ (plan = "none" /\ (Sending # {} \/ sent > 0)))
  /\ Disturb
  /\ UNCHANGED <<letter, proof, sent, dropped>>

SendPlanned ==
  /\ plan = "queued" /\ sent < 2
  /\ plan' = "sent" /\ sent' = sent + 1
  /\ UNCHANGED <<letter, queue, proof, hand, crossed, dropped, settled>>

\* verify_ready_steps completes one of the reply's tasks along with its step.
VerifyPlanned ==
  /\ plan = "sent"
  /\ plan' = "verified" /\ proof' = proof \cup {"reply"}
  /\ IF IsOpen("reply")
     THEN \E i \in OpenSlots("reply") : queue' = [queue EXCEPT !["reply"][i] = "completed"]
     ELSE UNCHANGED queue
  /\ Disturb
  /\ UNCHANGED <<letter, sent, crossed, dropped>>

\* repair_communication_backlog keeps the latest of the tasks that are open, and none for a
\* reply that the objective has sent.
Superfluous(k) == {i \in OpenSlots(k) :
  (\E j \in OpenSlots(k) : j > i) \/ (k = "reply" /\ plan = "verified")}

Repair ==
  /\ \E k \in Kinds : Superfluous(k) # {}
  /\ queue' = [k \in Kinds |-> [i \in Slots |->
       IF i \in Superfluous(k) THEN "cancelled" ELSE queue[k][i]]]
  /\ Disturb
  /\ UNCHANGED <<letter, proof, plan, sent, crossed, dropped>>

ActionNext ==
  \/ ReviewBill \/ SendPlanned \/ VerifyPlanned \/ Repair
  \/ \E k \in Kinds, i \in Slots : SetStatus(k, i)
  \/ \E i \in Slots : PlanReply(i)
  \/ \E h \in Hands :
       \/ Reconcile(h) \/ Settle(h) \/ Send(h) \/ RecordSent(h) \/ HandDies(h)
       \/ \E i \in Slots : Execute(h, i)

ActionSpec == ActionInit /\ [][ActionNext]_actionVars

-----------------------------------------------------------------------------
ActionTypeOK ==
  /\ letter.wants \subseteq Kinds /\ proof \subseteq Kinds /\ sent \in 0..2
  /\ plan \in {"none", "queued", "sent", "verified"}
  /\ \A k \in Kinds, i \in Slots :
       queue[k][i] \in {"none", "open", "waiting", "completed", "cancelled"}
  /\ \A h \in Hands : hand[h].pc \in {"idle", "reconciling", "sending", "sent"}

\* What an e-mail asks for is done once and never forgotten, however the queue is
\* reconciled, planned, repaired and executed at once: the reply goes out once, unless two
\* hands had it at the same time or one died after it sent it; the flag is dropped only
\* when each action is on record, was completed as a task or cancelled by the owner (who
\* may open the task again); and after a reconciliation that ran alone a task is open exactly for what is left.
ActionsEndOnce ==
  /\ sent > 1 => crossed
  /\ ~letter.flag => \A k \in letter.wants :
       k \in proof \cup dropped \/ IsCompleted(k) \/ IsOpen(k)
  /\ settled => \A k \in letter.wants :
       /\ k \in proof => ~IsOpen(k)
       /\ ~IsOpen(k) => k \in proof \/ IsCompleted(k)
===============================================================================
