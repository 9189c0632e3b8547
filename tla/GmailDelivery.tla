---------------------------- MODULE GmailDelivery ----------------------------
(***************************************************************************)
(* Sending an e-mail once: gmail_delivery.py, as the objective engine      *)
(* calls it. One session prepares and sends a message, another verifies    *)
(* it; either may die between two awaits or run twice at once. The row is  *)
(* loaded when the session starts and is not read again: every write is    *)
(* made from the loaded row.                                               *)
(*                                                                         *)
(* Simplifications                                                         *)
(*  - verify_after is a delay only: a message may be verified at any time. *)
(*  - Recipient and body are not empty; max_attempts has its default of 1. *)
(*  - failed_uncertain is left out: no code of this version writes it.     *)
(***************************************************************************)
EXTENDS Naturals

CONSTANTS
  Mails,         \* idempotency keys, one for each send step of an objective
  MailSessions,  \* sessions of the objective engine
  NoMail,
  MaxPosts       \* bound on the copies Gmail may be handed

MailAssumption == NoMail \notin Mails /\ MaxPosts \in Nat

VARIABLES
  outbound,   \* gmail_outbound_messages: status and attempts
  mailbox,    \* copies Gmail accepted, and whether a search of SENT finds one
  mailer,     \* the sessions
  posts,      \* history: times the message was handed to Gmail
  early       \* history: sessions at work on the message when its first
              \* submission was recorded

mailVars == <<outbound, mailbox, mailer, posts, early>>

MailStates == {"none", "prepared", "sending", "sent_unverified", "creation_uncertain",
               "failed", "failed_user", "verified"}
MailPlaces == {"idle", "inserting", "checking", "searching", "found", "absent",
               "posting", "accepted", "rejected", "lost", "confirming"}
Ambiguous == {"sent_unverified", "creation_uncertain"}

\* pc, the message, and its row as the session holds it.
AtRest == [pc |-> "idle", mail |-> NoMail, status |-> "none", tries |-> 0]

MailInit ==
  /\ outbound = [m \in Mails |-> [status |-> "none", tries |-> 0]]
  /\ mailbox = [m \in Mails |-> [copies |-> 0, seen |-> FALSE]]
  /\ mailer = [s \in MailSessions |-> AtRest]
  /\ posts = [m \in Mails |-> 0]
  /\ early = [m \in Mails |-> {}]

-----------------------------------------------------------------------------
Hold(s, m, pc) ==
  mailer' = [mailer EXCEPT ![s] = [pc |-> pc, mail |-> m, status |-> outbound[m].status,
                                   tries |-> outbound[m].tries]]
Move(s, pc) == mailer' = [mailer EXCEPT ![s].pc = pc]
Finish(s) ==
  /\ mailer' = [mailer EXCEPT ![s] = AtRest]
  /\ early' = [m \in Mails |-> early[m] \ {s}]
Write(m, status) == outbound' = [outbound EXCEPT ![m].status = status]
Quiet == UNCHANGED <<mailbox, posts>>

\* The SELECT of prepare_gmail_outbound; a row that is verified is returned.
PrepareMail(s, m) ==
  /\ mailer[s].pc = "idle"
  /\ outbound[m].status # "verified"
  /\ Hold(s, m, IF outbound[m].status = "none" THEN "inserting" ELSE "searching")
  /\ UNCHANGED <<outbound, early>> /\ Quiet

\* The unique key refuses a second row: the step of the loser is retried.
InsertMail(s) ==
  LET m == mailer[s].mail IN
  /\ mailer[s].pc = "inserting"
  /\ \/ /\ outbound[m].status = "none"
        /\ Write(m, "prepared")
        /\ mailer' = [mailer EXCEPT ![s].pc = "searching", ![s].status = "prepared"]
        /\ UNCHANGED early
     \/ /\ outbound[m].status # "none"
        /\ Finish(s)
        /\ UNCHANGED outbound
  /\ Quiet

\* verify_ready_steps asks ensure_gmail_outbound_verified about a message that
\* has not failed.
VerifyMail(s, m) ==
  /\ mailer[s].pc = "idle"
  /\ outbound[m].status \notin {"none", "verified", "failed", "failed_user"}
  /\ Hold(s, m, "checking")
  /\ UNCHANGED <<outbound, early>> /\ Quiet

\* reconcile_gmail_outbound: an outage of the search ends every path without a
\* submission. The verifier submits only what it holds as prepared, and searches
\* again before it does.
SearchSent(s) ==
  LET m == mailer[s].mail IN
  /\ mailer[s].pc \in {"checking", "searching", "confirming"}
  /\ \/ /\ mailbox[m].seen
        /\ Move(s, "found") /\ UNCHANGED early
     \/ /\ ~mailbox[m].seen
        /\ \/ mailer[s].pc = "checking" /\ mailer[s].status = "prepared" /\ Move(s, "searching")
           \/ mailer[s].pc = "searching" /\ Move(s, "absent")
        /\ UNCHANGED early
     \/ Finish(s)
  /\ UNCHANGED outbound /\ Quiet

ConfirmMail(s) ==
  /\ mailer[s].pc = "found"
  /\ Write(mailer[s].mail, "verified")
  /\ Finish(s) /\ Quiet

\* A message whose submission may have reached Gmail is left to the verifier.
LeaveAmbiguous(s) ==
  /\ mailer[s].pc = "absent"
  /\ mailer[s].status \in Ambiguous
  /\ Finish(s)
  /\ UNCHANGED outbound /\ Quiet

\* Its one attempt is used, by a session that died or was refused.
GiveUpMail(s) ==
  /\ mailer[s].pc = "absent"
  /\ mailer[s].status \notin Ambiguous /\ mailer[s].tries >= 1
  /\ Write(mailer[s].mail, "failed")
  /\ Finish(s) /\ Quiet

\* Mutant: off by one, a second attempt is allowed.
RecordOneMore(s) ==
  LET m == mailer[s].mail IN
  /\ mailer[s].pc = "absent"
  /\ mailer[s].status \notin Ambiguous /\ mailer[s].tries <= 1
  /\ outbound' = [outbound EXCEPT ![m] = [status |-> "sending", tries |-> mailer[s].tries + 1]]
  /\ Move(s, "posting")
  /\ early' = IF outbound[m].tries > 0 THEN early
              ELSE [early EXCEPT ![m] = {x \in MailSessions : mailer[x].mail = m}]
  /\ Quiet

RecordSubmission(s) ==
  LET m == mailer[s].mail IN
  /\ mailer[s].pc = "absent"
  /\ mailer[s].status \notin Ambiguous /\ mailer[s].tries = 0
  /\ outbound' = [outbound EXCEPT ![m] = [status |-> "sending", tries |-> mailer[s].tries + 1]]
  /\ Move(s, "posting")
  /\ early' = IF outbound[m].tries > 0 THEN early
              ELSE [early EXCEPT ![m] = {x \in MailSessions : mailer[x].mail = m}]
  /\ Quiet

\* users.messages.send has no idempotency key: what is accepted is one more copy.
SubmitMail(s) ==
  LET m == mailer[s].mail IN
  /\ mailer[s].pc = "posting"
  /\ posts[m] < MaxPosts
  /\ posts' = [posts EXCEPT ![m] = @ + 1]
  /\ \/ /\ mailbox' = [mailbox EXCEPT ![m].copies = @ + 1]
        /\ \E pc \in {"accepted", "lost"} : Move(s, pc)
     \/ /\ \E pc \in {"rejected", "lost"} : Move(s, pc)
        /\ UNCHANGED mailbox
  /\ UNCHANGED <<outbound, early>>

\* An accepted message becomes visible to searches later.
SentAppears(m) ==
  /\ mailbox[m].copies > 0 /\ ~mailbox[m].seen
  /\ mailbox' = [mailbox EXCEPT ![m].seen = TRUE]
  /\ UNCHANGED <<outbound, mailer, posts, early>>

RecordSent(s) ==
  /\ mailer[s].pc = "accepted"
  /\ Write(mailer[s].mail, "sent_unverified")
  /\ Move(s, "confirming")
  /\ UNCHANGED early /\ Quiet

\* A definitive refusal (4xx, missing authorization).
RecordRejected(s) ==
  /\ mailer[s].pc = "rejected"
  /\ \E status \in {"failed", "failed_user"} : Write(mailer[s].mail, status)
  /\ Finish(s) /\ Quiet

RecordAmbiguity(s) ==
  /\ mailer[s].pc = "lost"
  /\ Write(mailer[s].mail, "creation_uncertain")
  /\ Finish(s) /\ Quiet

CrashMailer(s) ==
  /\ mailer[s].pc # "idle"
  /\ Finish(s)
  /\ UNCHANGED outbound /\ Quiet

MailNext ==
  \/ \E s \in MailSessions :
       \/ \E m \in Mails : PrepareMail(s, m) \/ VerifyMail(s, m)
       \/ InsertMail(s) \/ SearchSent(s) \/ ConfirmMail(s) \/ LeaveAmbiguous(s)
       \/ GiveUpMail(s) \/ RecordSubmission(s) \/ SubmitMail(s)
       \/ RecordSent(s) \/ RecordRejected(s) \/ RecordAmbiguity(s) \/ CrashMailer(s)
  \/ \E m \in Mails : SentAppears(m)

MailSpec == MailInit /\ [][MailNext]_mailVars

-----------------------------------------------------------------------------
MailTypeOK ==
  /\ outbound \in [Mails -> [status : MailStates, tries : Nat]]
  /\ mailbox \in [Mails -> [copies : Nat, seen : BOOLEAN]]
  /\ mailer \in [MailSessions -> [pc : MailPlaces, mail : Mails \cup {NoMail},
                                  status : MailStates, tries : Nat]]
  /\ posts \in [Mails -> Nat]
  /\ early \in [Mails -> SUBSET MailSessions]

\* No message is handed to Gmail before the row that accounts for it says so, and none is
\* reported as verified, or as sent, that Gmail did not accept.
ReportsWereSent ==
  \A m \in Mails :
    /\ posts[m] > 0 => outbound[m].tries > 0
    /\ outbound[m].status \in {"verified", "sent_unverified"} => mailbox[m].copies > 0

\* Whoever submits a message again was at work on it when its submission was recorded.
ResubmittedEarly ==
  \A m \in Mails : posts'[m] > posts[m] /\ posts[m] > 0 =>
    \E s \in early[m] : mailer[s].pc = "posting" /\ mailer[s].mail = m

\* A crash, a lost answer or a slow session leaves at most a message that is not
\* reported, never a report without the message. And once a submission is on record, a
\* session that starts later finds the attempt used, whatever the search answers and
\* however the first session ended: what is submitted again, is so by a session that held
\* the row from before.
LateSessionsDoNotSend == []ReportsWereSent /\ [][ResubmittedEarly]_mailVars

\* "Never submit this external intent a second time" (gmail_delivery.py), "It does not
\* create a second Gmail provider submission" (docs V1.0.13): two sessions may hold the
\* row as prepared, and the commit of an attempt does not look at the row again.
SubmittedOnce == \A m \in Mails : posts[m] <= 1
=============================================================================
