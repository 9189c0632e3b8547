----------------------------- MODULE GmailCursor -----------------------------
(***************************************************************************)
(* Reading the mailbox: gmail_sync_service.py, sync_gmail of               *)
(* email_processor.py and the history listing of google_api.py. Jobs,      *)
(* push notifications and two routes run these in sessions of their own,   *)
(* one cursor is shared by all of them, and mail keeps arriving.           *)
(*                                                                         *)
(* Simplifications                                                         *)
(*  - A message is its position in Gmail's history; every message is added *)
(*    to the INBOX and may leave it later, and none comes back to it.      *)
(*  - A listing is one step, whatever its number of pages; a listing that  *)
(*    fails is the end of its session.                                     *)
(*  - What is derived from a message is left out: process_single_message   *)
(*    stores it as processed, as deferred_ai when no analysis could be had *)
(*    (key, quota or provider), or fails. The commit in between, which     *)
(*    keeps an analysis that was paid for and leaves the row in            *)
(*    processing, is left out; replied rows count as processed.            *)
(*  - A message's row is read afresh when its turn comes.                  *)
(***************************************************************************)
EXTENDS Naturals, FiniteSets

CONSTANTS
  MailLimit,      \* bound on the messages that arrive
  SyncSessions,   \* sessions that may synchronise
  ScanLimit       \* max_messages of a recovery scan

CursorAssumption == MailLimit \in Nat \ {0} /\ ScanLimit \in Nat \ {0}

Messages == 1..MailLimit
Unset == MailLimit + 1    \* an empty history_id

VARIABLES
  arrived,      \* number of messages so far: Gmail's current history id
  inInbox,      \* messages that carry the INBOX label
  forgotten,    \* Gmail answers 404 to a cursor before this one
  mail,         \* status of each message's row in email_messages
  cursor,       \* gmail_mailbox_states.history_id
  watching,     \* watch_expiration_at lies far enough ahead
  passedOver,   \* messages that a recovery scan was too short to list
  sync          \* what each session does

cursorVars == <<arrived, inInbox, forgotten, mail, cursor, watching, passedOver, sync>>

SyncPlaces == {"idle", "listing", "profile", "scan", "scanning", "reading", "looking"}
MailStatuses == {"none", "deferred_ai", "processed"}
\* A session has the message at in hand, and found its row or not.
NoSync == [pc |-> "idle", todo |-> {}, upto |-> Unset, at |-> 0, found |-> FALSE]

CursorInit ==
  /\ arrived = 0 /\ forgotten = 0
  /\ inInbox = {} /\ passedOver = {}
  /\ mail = [m \in Messages |-> "none"]
  /\ cursor = Unset /\ watching = FALSE
  /\ sync = [s \in SyncSessions |-> NoSync]

Proceed(s, changes) == sync' = [sync EXCEPT ![s] = changes]
mailboxVars == <<arrived, inInbox, forgotten>>

-----------------------------------------------------------------------------
\* history_sync up to the choice between the two ways to synchronise.
OpenMailbox(s) ==
  /\ sync[s].pc = "idle"
  /\ Proceed(s, [NoSync EXCEPT !.pc = IF cursor = Unset THEN "profile" ELSE "listing",
                               !.upto = cursor])
  /\ UNCHANGED <<mailboxVars, mail, cursor, watching, passedOver>>

\* A cursor that Gmail no longer knows leads to full_recovery_sync.
ListHistory(s) ==
  /\ sync[s].pc = "listing"
  /\ IF sync[s].upto >= forgotten
       THEN Proceed(s, [NoSync EXCEPT !.pc = "reading", !.upto = arrived,
                                      !.todo = (sync[s].upto + 1)..arrived])
       ELSE Proceed(s, [NoSync EXCEPT !.pc = "profile"])
  /\ UNCHANGED <<mailboxVars, mail, cursor, watching, passedOver>>

\* full_recovery_sync takes Gmail's current position before it scans.
CapturePosition(s) ==
  /\ sync[s].pc = "profile"
  /\ Proceed(s, [NoSync EXCEPT !.pc = "scan", !.upto = arrived])
  /\ UNCHANGED <<mailboxVars, mail, cursor, watching, passedOver>>

\* The newest messages, as many as the request allows.
Newest == {m \in 1..arrived : m + ScanLimit > arrived}

ListScan(s) ==
  /\ sync[s].pc = "scan"
  /\ Proceed(s, [sync[s] EXCEPT !.pc = "scanning", !.todo = Newest])
  /\ passedOver' = passedOver \cup ((1..arrived) \ Newest)
  /\ UNCHANGED <<mailboxVars, mail, cursor, watching>>

\* The routes call sync_gmail alone.
LookAtMail(s) ==
  /\ sync[s].pc = "idle"
  /\ Proceed(s, [NoSync EXCEPT !.pc = "looking", !.todo = Newest])
  /\ UNCHANGED <<mailboxVars, mail, cursor, watching, passedOver>>

AtMail(s) == sync[s].pc \in {"reading", "scanning", "looking"}

\* The next message. history_sync skips what has left the INBOX; a row that says
\* processed ends both ways to read it.
TakeMail(s) ==
  /\ AtMail(s) /\ sync[s].at = 0
  /\ \E m \in sync[s].todo :
       IF (sync[s].pc = "reading" /\ m \notin inInbox) \/ mail[m] = "processed"
         THEN Proceed(s, [sync[s] EXCEPT !.todo = @ \ {m}])
         ELSE Proceed(s, [sync[s] EXCEPT !.at = m, !.found = mail[m] # "none"])
  /\ UNCHANGED <<mailboxVars, mail, cursor, watching, passedOver>>

\* The end of process_single_message writes over whatever the row says now; a row that
\* was not there cannot be inserted when another session has done so.
ReadMail(s) ==
  /\ sync[s].at # 0
  /\ ~sync[s].found => mail[sync[s].at] = "none"
  /\ \E status \in {"processed", "deferred_ai"} :
       mail' = [mail EXCEPT ![sync[s].at] = status]
  /\ Proceed(s, [sync[s] EXCEPT !.at = 0, !.found = FALSE, !.todo = @ \ {sync[s].at}])
  /\ UNCHANGED <<mailboxVars, cursor, watching, passedOver>>

\* The checkpoint of the recovery, then history_sync from there.
Checkpoint(s) ==
  /\ sync[s].pc = "scanning" /\ sync[s].todo = {}
  /\ cursor' = sync[s].upto
  /\ Proceed(s, [sync[s] EXCEPT !.pc = "listing"])
  /\ UNCHANGED <<mailboxVars, mail, watching, passedOver>>

\* history_sync stores the position of its listing whatever the row now holds.
AdvanceCursor(s) ==
  /\ sync[s].pc = "reading" /\ sync[s].todo = {}
  /\ cursor' = sync[s].upto
  /\ Proceed(s, NoSync)
  /\ UNCHANGED <<mailboxVars, mail, watching, passedOver>>

EndLook(s) ==
  /\ sync[s].pc = "looking" /\ sync[s].todo = {}
  /\ Proceed(s, NoSync)
  /\ UNCHANGED <<mailboxVars, mail, cursor, watching, passedOver>>

\* A message that cannot be processed, a failed request, or the process dies.
AbandonSync(s) ==
  /\ sync[s].pc # "idle"
  /\ Proceed(s, NoSync)
  /\ UNCHANGED <<mailboxVars, mail, cursor, watching, passedOver>>

\* ensure_gmail_watch: the position in the answer is not a checkpoint.
\* Mutant: the position in the answer becomes the cursor.
RenewAtPosition ==
  /\ ~watching
  /\ watching' = TRUE
  /\ cursor' = arrived
  /\ UNCHANGED <<mailboxVars, mail, passedOver, sync>>

RenewWatch ==
  /\ ~watching
  /\ watching' = TRUE
  /\ UNCHANGED <<mailboxVars, mail, cursor, passedOver, sync>>

ExpireWatch ==
  /\ watching
  /\ watching' = FALSE
  /\ UNCHANGED <<mailboxVars, mail, cursor, passedOver, sync>>

-----------------------------------------------------------------------------
Arrive ==
  /\ arrived < MailLimit
  /\ arrived' = arrived + 1
  /\ inInbox' = inInbox \cup {arrived + 1}
  /\ UNCHANGED <<forgotten, mail, cursor, watching, passedOver, sync>>

LeaveInbox ==
  /\ \E m \in inInbox : inInbox' = inInbox \ {m}
  /\ UNCHANGED <<arrived, forgotten, mail, cursor, watching, passedOver, sync>>

ForgetHistory ==
  /\ forgotten < arrived
  /\ forgotten' = arrived
  /\ UNCHANGED <<arrived, inInbox, mail, cursor, watching, passedOver, sync>>

CursorNext ==
  \/ \E s \in SyncSessions :
       \/ OpenMailbox(s) \/ ListHistory(s) \/ CapturePosition(s) \/ ListScan(s)
       \/ LookAtMail(s) \/ TakeMail(s) \/ ReadMail(s) \/ Checkpoint(s)
       \/ AdvanceCursor(s) \/ EndLook(s) \/ AbandonSync(s)
  \/ RenewWatch \/ ExpireWatch
  \/ Arrive \/ LeaveInbox \/ ForgetHistory

CursorSpec == CursorInit /\ [][CursorNext]_cursorVars

-----------------------------------------------------------------------------
CursorTypeOK ==
  /\ arrived \in 0..MailLimit /\ forgotten \in 0..arrived
  /\ inInbox \subseteq 1..arrived /\ mail \in [Messages -> MailStatuses]
  /\ passedOver \subseteq 1..arrived
  /\ cursor \in 0..arrived \cup {Unset}
  /\ watching \in BOOLEAN
  /\ sync \in [SyncSessions ->
       [pc : SyncPlaces, todo : SUBSET Messages, upto : 0..MailLimit \cup {Unset},
        at : Messages \cup {0}, found : BOOLEAN]]

\* No mail is lost silently: a message the stored cursor has passed was stored as
\* processed or as deferred, has left the INBOX, or was older than a recovery scan
\* reaches, however renewals, recoveries, notifications and crashes overlap. A deferred
\* message is on record only: history_sync does not come back to it, sync_gmail does.
CursorPassesNoUnreadMail ==
  cursor # Unset =>
    \A m \in 1..cursor : mail[m] # "none" \/ m \in passedOver \/ m \notin inInbox
=============================================================================
