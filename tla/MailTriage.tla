----------------------------- MODULE MailTriage ------------------------------
(***************************************************************************)
(* One message on its way through process_single_message of                *)
(* email_processor.py: it is decided on by a cached decision, a rule or    *)
(* the AI, or by a fallback that is repeated later, filed, billed and      *)
(* closed. The history sync, the recovery scan and the owner's sync run    *)
(* it at once; a session commits up to three times and may die in between. *)
(*                                                                         *)
(* Simplifications                                                         *)
(*  - A decision is the creditor whom it bills (the amount is the same) or *)
(*    NoBill. Gmail's labels, the trash and the rows that repeat the       *)
(*    select-then-insert of the task (order, case, subscription, record)   *)
(*    are left out; replies are the subject of Objectives and              *)
(*    Authorization.                                                       *)
(*  - The intent bill_lifecycle, dispatched after the last commit, changes *)
(*    none of these rows and is left out.                                  *)
(*  - The fingerprint of the message does not change between two passes.   *)
(***************************************************************************)
EXTENDS Naturals

CONSTANTS
  Creditors,     \* names under which the message may be billed
  NoBill, NoDecision,
  Readers,       \* sessions
  NoReader,
  BillLimit      \* bound on the bills and tasks of the message

TriageAssumption ==
  /\ NoBill \notin Creditors /\ NoDecision \notin Creditors \cup {NoBill}
  /\ NoReader \notin Readers /\ BillLimit \in Nat \ {0}

VARIABLES
  message,     \* email_messages.status, "none" before the row is inserted
  fingerprint, \* message_fingerprints: the decision a retry takes again
  bills,       \* bills by creditor name; the table has no key on them
  chores,      \* tasks of the message
  triager,     \* the sessions, with what they have not committed
  messageLock, \* holder of the row lock on email_messages
  torn         \* history: a session began while another was at work without the lock

triageVars == <<message, fingerprint, bills, chores, triager, messageLock, torn>>

Decisions == Creditors \cup {NoBill}
MessageStates == {"none", "processing", "deferred_ai", "processed"}
Unread == [pc |-> "idle", status |-> "none", decision |-> NoDecision, deferred |-> FALSE,
           chore |-> FALSE, bill |-> FALSE]

TriageInit ==
  /\ message = "none" /\ fingerprint = NoDecision
  /\ bills = [n \in Creditors |-> 0] /\ chores = 0
  /\ triager = [s \in Readers |-> Unread] /\ messageLock = NoReader /\ torn = FALSE

-----------------------------------------------------------------------------
Reads(s, places) == triager[s].pc \in places
ReadOn(s, to) == triager' = [triager EXCEPT ![s] = to]
FreeLock(s) == messageLock' = IF messageLock = s THEN NoReader ELSE messageLock
OthersWork(s) == \E o \in Readers \ {s} : ~Reads(o, {"idle", "loaded"})
Add(n) == IF n < BillLimit THEN n + 1 ELSE n

\* A commit before the last one: the row shows "processing" if the session has
\* changed it to that, and its lock is gone.
CommitHalf(s) ==
  /\ message' = IF triager[s].status = "processing" THEN message ELSE "processing"
  /\ messageLock \in {s, NoReader}
  /\ FreeLock(s)

\* The callers skip what they see processed; process_single_message looks again.
LoadMessage(s) ==
  /\ Reads(s, {"idle"}) /\ message # "processed"
  /\ ReadOn(s, [Unread EXCEPT !.pc = "loaded", !.status = message])
  /\ UNCHANGED <<message, fingerprint, bills, chores, messageLock, torn>>

\* The flush of "processing": an insert that the unique key lets through, or an
\* update that waits for the row; a row already in "processing" is not touched. What
\* the row became while the session waited is not looked at.
BeginMessage(s) ==
  /\ Reads(s, {"loaded"})
  /\ triager[s].status = "none" => message = "none"
  /\ IF triager[s].status = "processing"
       THEN UNCHANGED messageLock ELSE messageLock = NoReader /\ messageLock' = s
  /\ torn' = (torn \/ OthersWork(s))
  /\ ReadOn(s, [triager[s] EXCEPT !.pc = "deciding"])
  /\ UNCHANGED <<message, fingerprint, bills, chores>>

Decide(s, decision, deferred) ==
  ReadOn(s, [triager[s] EXCEPT !.pc = "filing", !.decision = decision, !.deferred = deferred])

\* The cached decision, a rule's or shortcut's (which never bills), or the fallback
\* when the AI fails or its quota is used up: it bills under the sender's name.
DecideWithoutAI(s) ==
  /\ Reads(s, {"deciding"})
  /\ \/ fingerprint # NoDecision /\ Decide(s, fingerprint, FALSE)
     \/ fingerprint = NoDecision /\ Decide(s, NoBill, FALSE)
     \/ fingerprint = NoDecision /\ \E d \in Decisions : Decide(s, d, TRUE)
  /\ UNCHANGED <<message, fingerprint, bills, chores, messageLock, torn>>

\* The paid decision is cached and committed at once.
DecideByAI(s) ==
  /\ Reads(s, {"deciding"}) /\ fingerprint = NoDecision
  /\ CommitHalf(s)
  /\ \E d \in Decisions :
       /\ fingerprint' = d
       /\ ReadOn(s, [triager[s] EXCEPT !.pc = "filing", !.decision = d,
                                      !.status = "processing"])
  /\ UNCHANGED <<bills, chores, torn>>

\* The task is added unless one is there; the attachments, if there are any, are
\* archived next.
FileMessage(s) ==
  /\ Reads(s, {"filing"})
  /\ \E task \in BOOLEAN, pc \in {"archiving", "billing"} :
       ReadOn(s, [triager[s] EXCEPT !.pc = pc, !.chore = task /\ chores = 0])
  /\ UNCHANGED <<message, fingerprint, bills, chores, messageLock, torn>>

\* archive_email_attachments commits: the task, and half of the message with it.
ArchiveFiles(s) ==
  /\ Reads(s, {"archiving"})
  /\ CommitHalf(s)
  /\ chores' = IF triager[s].chore THEN Add(chores) ELSE chores
  /\ ReadOn(s, [triager[s] EXCEPT !.pc = "billing", !.chore = FALSE,
                                 !.status = "processing"])
  /\ UNCHANGED <<fingerprint, bills, torn>>

\* Mutant: only bills of messages that were closed count as duplicates.
BilledAndClosed(name) == bills[name] > 0 /\ message = "processed"

\* The duplicate query of _upsert_bill: by creditor, amount and invoice number.
Billed(name) == bills[name] > 0

BillMessage(s) ==
  LET d == triager[s].decision IN
  /\ Reads(s, {"billing"})
  /\ ReadOn(s, [triager[s] EXCEPT !.pc = "closing",
                                 !.bill = IF d = NoBill THEN FALSE ELSE ~Billed(d)])
  /\ UNCHANGED <<message, fingerprint, bills, chores, messageLock, torn>>

\* The last commit: bill, task and status together.
CloseMessage(s) ==
  LET at == triager[s] IN
  /\ Reads(s, {"closing"}) /\ messageLock \in {s, NoReader}
  /\ message' = IF at.deferred THEN "deferred_ai" ELSE "processed"
  /\ fingerprint' = IF at.deferred THEN fingerprint ELSE at.decision
  /\ bills' = IF at.bill THEN [bills EXCEPT ![at.decision] = Add(@)] ELSE bills
  /\ chores' = IF at.chore THEN Add(chores) ELSE chores
  /\ FreeLock(s)
  /\ ReadOn(s, Unread)
  /\ UNCHANGED torn

\* The process dies, or a call to Gmail, Drive or the database raises: what the
\* session has not committed is gone.
CrashReader(s) ==
  /\ ~Reads(s, {"idle"})
  /\ ReadOn(s, Unread)
  /\ FreeLock(s)
  /\ UNCHANGED <<message, fingerprint, bills, chores, torn>>

TriageNext ==
  \E s \in Readers :
    \/ LoadMessage(s) \/ BeginMessage(s) \/ DecideWithoutAI(s) \/ DecideByAI(s)
    \/ FileMessage(s) \/ ArchiveFiles(s) \/ BillMessage(s) \/ CloseMessage(s)
    \/ CrashReader(s)

TriageSpec == TriageInit /\ [][TriageNext]_triageVars

-----------------------------------------------------------------------------
TriageTypeOK ==
  /\ message \in MessageStates
  /\ fingerprint \in Decisions \cup {NoDecision}
  /\ bills \in [Creditors -> 0 .. BillLimit] /\ chores \in 0 .. BillLimit
  /\ triager \in [Readers ->
       [pc : {"idle", "loaded", "deciding", "filing", "archiving", "billing", "closing"},
        status : MessageStates, decision : Decisions \cup {NoDecision},
        deferred : BOOLEAN, chore : BOOLEAN, bill : BOOLEAN]]
  /\ messageLock \in Readers \cup {NoReader} /\ torn \in BOOLEAN

\* Passes that end at any of the commits, are deferred and are repeated bill the
\* message once under a name and give the owner one task, and a processed message has
\* the bill that was decided on; a second session waits for the row lock and finds it.
\* When another one was at work and had released the lock half-way, or had never taken
\* it, the message may be billed twice, as the table has no key; and a bill of the
\* fallback is not found again when the AI names the creditor differently.
BilledOnce ==
  torn \/ /\ chores <= 1
          /\ \A n \in Creditors : bills[n] <= 1
          /\ message = "processed" /\ fingerprint \in Creditors => bills[fingerprint] = 1
==============================================================================
