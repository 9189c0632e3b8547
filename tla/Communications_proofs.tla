------------------------ MODULE Communications_proofs ------------------------
(***************************************************************************)
(* Proofs about what the services send to other people: e-mail through     *)
(* Gmail (GmailDelivery), SMS through a paired phone (DeviceDispatch),     *)
(* calls (OutboundCall), events in a calendar (CalendarBooking), and the   *)
(* requests whose fulfilment is followed up (FulfilmentCases). In each     *)
(* case the sessions, workers and phones that act on one thing hold stale  *)
(* copies of its row; the invariant says what such a copy can still be     *)
(* relied on for.                                                          *)
(***************************************************************************)
EXTENDS GmailDelivery, DeviceDispatch, OutboundCall, CalendarBooking, FulfilmentCases,
        FiniteSetTheorems, SequenceTheorems, TLAPS

-----------------------------------------------------------------------------
(***************************************************************************)
(* E-mail                                                                  *)
(***************************************************************************)

\* What a session's copy of a row is good for: one that has no attempt on it though the
\* row has one was taken before the first submission was recorded; what was found or
\* accepted exists.
MailPlaced(s, at) ==
  /\ at.pc # "idle" =>
       /\ at.mail \in Mails
       /\ outbound[at.mail].tries > 0 /\ at.tries = 0 => s \in early[at.mail]
  /\ at.pc = "posting" => at.tries = 0 /\ outbound[at.mail].tries > 0
  /\ at.pc \in {"accepted", "confirming", "found"} => mailbox[at.mail].copies > 0

MailInv ==
  /\ MailTypeOK
  /\ \A s \in MailSessions : MailPlaced(s, mailer[s])
  /\ \A m \in Mails : mailbox[m].seen => mailbox[m].copies > 0
  /\ ReportsWereSent

MailCopy == [pc : MailPlaces, mail : Mails \cup {NoMail}, status : MailStates, tries : Nat]

LEMMA AtRestType == AtRest \in MailCopy
BY DEF AtRest, MailCopy, MailPlaces, MailStates

LEMMA MailInitInv == MailInit => MailInv
<1> SUFFICES ASSUME MailInit PROVE MailInv
  OBVIOUS
<1>1. MailTypeOK
  BY AtRestType DEF MailInit, MailTypeOK, MailCopy, MailStates
<1> QED BY <1>1 DEF MailInit, MailInv, MailPlaced, ReportsWereSent, AtRest

\* A session that goes to a place where it can rely on its copy, while the rows, the
\* mailbox and the other sessions stay as they are, disturbs nobody.
LEMMA MailerMoves ==
  ASSUME MailInv, NEW s \in MailSessions, NEW a \in MailCopy,
         mailer' = [mailer EXCEPT ![s] = a], UNCHANGED <<outbound, mailbox, posts>>,
         early' \in [Mails -> SUBSET MailSessions],
         \A m \in Mails : early[m] \ {s} \subseteq early'[m],
         a.pc = "idle" \/ UNCHANGED early, MailPlaced(s, a)
  PROVE  MailInv'
<1>1. mailer' \in [MailSessions -> MailCopy] /\ mailer'[s] = a
  BY DEF MailInv, MailTypeOK, MailCopy
<1>2. \A t \in MailSessions \ {s} : mailer'[t] = mailer[t]
  BY DEF MailInv, MailTypeOK
<1>3. MailTypeOK'
  BY <1>1 DEF MailInv, MailTypeOK, MailCopy
<1>4. ASSUME NEW t \in MailSessions PROVE MailPlaced(t, mailer[t])'
  <2>1. CASE t = s
    BY <1>1, <2>1 DEF MailPlaced
  <2>2. CASE t # s
    BY <1>2, <2>2 DEF MailPlaced, MailInv
  <2> QED BY <2>1, <2>2
<1> QED BY <1>3, <1>4 DEF MailInv, ReportsWereSent

\* A session writes a status, with all it has to be right about, and goes.
LEMMA MailerWrites ==
  ASSUME MailInv, NEW s \in MailSessions, NEW a \in MailCopy, NEW m \in Mails,
         NEW st \in MailStates, Write(m, st), Quiet,
         mailer' = [mailer EXCEPT ![s] = a],
         early' \in [Mails -> SUBSET MailSessions],
         \A n \in Mails : early[n] \ {s} \subseteq early'[n],
         a.pc = "idle" \/ UNCHANGED early, MailPlaced(s, a), a.pc # "posting",
         st \in {"verified", "sent_unverified"} => mailbox[m].copies > 0
  PROVE  MailInv'
<1>0. /\ outbound \in [Mails -> [status : MailStates, tries : Nat]]
      /\ mailer \in [MailSessions -> MailCopy]
  BY DEF MailInv, MailTypeOK, MailCopy
<1>1. mailer' \in [MailSessions -> MailCopy] /\ mailer'[s] = a
  BY <1>0
<1>2. \A t \in MailSessions \ {s} : mailer'[t] = mailer[t]
  BY <1>0
<1>3. /\ outbound' \in [Mails -> [status : MailStates, tries : Nat]]
      /\ outbound'[m].status = st
      /\ \A n \in Mails : outbound'[n].tries = outbound[n].tries
      /\ \A n \in Mails \ {m} : outbound'[n] = outbound[n]
  BY <1>0 DEF Write
<1>4. MailTypeOK'
  BY <1>1, <1>3 DEF MailInv, MailTypeOK, MailCopy, Quiet
<1>5. ASSUME NEW t \in MailSessions PROVE MailPlaced(t, mailer[t])'
  <2>1. CASE t = s
    BY <1>1, <1>3, <2>1 DEF MailPlaced, Quiet
  <2>2. CASE t # s
    <3>1. MailPlaced(t, mailer[t]) /\ mailer'[t] = mailer[t]
      BY <1>2, <2>2 DEF MailInv
    <3> QED BY <1>3, <2>2, <3>1 DEF MailPlaced, Quiet
  <2> QED BY <2>1, <2>2
<1>6. ReportsWereSent'
  BY <1>3 DEF MailInv, ReportsWereSent, Quiet
<1> QED BY <1>4, <1>5, <1>6 DEF MailInv, Quiet

\* The session that finishes is at work on nothing, and no longer an early one.
LEMMA FinishFacts ==
  ASSUME MailInv, NEW s \in MailSessions, Finish(s)
  PROVE  /\ mailer' = [mailer EXCEPT ![s] = AtRest]
         /\ early' \in [Mails -> SUBSET MailSessions]
         /\ \A m \in Mails : early[m] \ {s} \subseteq early'[m]
         /\ AtRest.pc = "idle" /\ MailPlaced(s, AtRest)
BY DEF Finish, MailInv, MailTypeOK, MailPlaced, AtRest

\* Each step of a session keeps the invariant.
LEMMA MailerStep ==
  ASSUME MailInv, MailNext
  PROVE  MailInv'
<1>0. /\ MailTypeOK /\ outbound \in [Mails -> [status : MailStates, tries : Nat]]
      /\ mailer \in [MailSessions -> MailCopy] /\ early \in [Mails -> SUBSET MailSessions]
      /\ \A s \in MailSessions : MailPlaced(s, mailer[s])
  BY DEF MailInv, MailTypeOK, MailCopy
<1>1. ASSUME NEW s \in MailSessions, Finish(s), UNCHANGED outbound, Quiet PROVE MailInv'
  BY <1>1, FinishFacts, AtRestType, MailerMoves DEF Quiet
<1>2. ASSUME NEW s \in MailSessions, mailer[s].pc # "idle", Finish(s), Quiet,
             NEW st \in MailStates, Write(mailer[s].mail, st),
             st \in {"verified", "sent_unverified"} => mailbox[mailer[s].mail].copies > 0
      PROVE  MailInv'
  <2>1. mailer[s].mail \in Mails
    BY <1>0, <1>2 DEF MailPlaced
  <2> QED BY <1>2, <2>1, FinishFacts, AtRestType, MailerWrites
<1>3. ASSUME NEW s \in MailSessions, NEW pc \in MailPlaces \ {"idle", "posting"},
             mailer[s].pc # "idle", Move(s, pc), UNCHANGED <<outbound, early>>, Quiet,
             pc \in {"accepted", "confirming", "found"} => mailbox[mailer[s].mail].copies > 0
      PROVE  MailInv'
  <2> DEFINE a == [mailer[s] EXCEPT !.pc = pc]
  <2>1. a \in MailCopy /\ mailer' = [mailer EXCEPT ![s] = a]
    BY <1>0, <1>3 DEF Move, MailCopy
  <2>2. a.pc = pc /\ a.mail = mailer[s].mail /\ a.tries = mailer[s].tries
    BY <1>0 DEF MailCopy
  <2>3. MailPlaced(s, mailer[s])
    BY <1>0
  <2> HIDE DEF a
  <2>4. MailPlaced(s, a)
    BY <1>3, <2>2, <2>3 DEF MailPlaced
  <2> QED BY <1>0, <1>3, <2>1, <2>4, MailerMoves DEF Quiet
<1>4. ASSUME NEW s \in MailSessions, NEW m \in Mails, PrepareMail(s, m) \/ VerifyMail(s, m)
      PROVE  MailInv'
  <2>1. PICK pc \in {"inserting", "searching", "checking"} :
          /\ Hold(s, m, pc) /\ UNCHANGED <<outbound, early>> /\ Quiet
    BY <1>4 DEF PrepareMail, VerifyMail
  <2> DEFINE a == [pc |-> pc, mail |-> m, status |-> outbound[m].status,
                   tries |-> outbound[m].tries]
  <2>2. a \in MailCopy /\ mailer' = [mailer EXCEPT ![s] = a]
    BY <1>0, <2>1 DEF Hold, MailCopy, MailPlaces
  <2>3. MailPlaced(s, a)
    BY <2>1 DEF MailPlaced
  <2> HIDE DEF a
  <2> QED BY <1>0, <2>1, <2>2, <2>3, MailerMoves DEF Quiet
<1>5. ASSUME NEW s \in MailSessions, InsertMail(s) PROVE MailInv'
  <2>1. CASE Finish(s) /\ UNCHANGED outbound /\ Quiet
    BY <1>1, <2>1
  <2>2. CASE /\ Write(mailer[s].mail, "prepared") /\ UNCHANGED early /\ Quiet
             /\ mailer' = [mailer EXCEPT ![s].pc = "searching", ![s].status = "prepared"]
    <3> DEFINE a == [mailer[s] EXCEPT !.pc = "searching", !.status = "prepared"]
    <3>1. a \in MailCopy /\ mailer' = [mailer EXCEPT ![s] = a]
      BY <1>0, <2>2 DEF MailCopy, MailPlaces, MailStates
    <3>2. a.pc = "searching" /\ a.mail = mailer[s].mail /\ a.tries = mailer[s].tries
      BY <1>0 DEF MailCopy
    <3>3. MailPlaced(s, mailer[s]) /\ mailer[s].pc # "idle"
      BY <1>0, <1>5 DEF InsertMail
    <3> HIDE DEF a
    <3>4. MailPlaced(s, a) /\ mailer[s].mail \in Mails
      BY <3>2, <3>3 DEF MailPlaced
    <3> QED BY <1>0, <2>2, <3>1, <3>2, <3>4, MailerWrites DEF MailStates
  <2> QED BY <1>5, <2>1, <2>2 DEF InsertMail
<1>6. ASSUME NEW s \in MailSessions, SearchSent(s) PROVE MailInv'
  <2>1. mailer[s].pc # "idle" /\ mailer[s].mail \in Mails
    BY <1>0, <1>6 DEF SearchSent, MailPlaced
  <2>2. CASE Finish(s)
    BY <1>1, <1>6, <2>2 DEF SearchSent
  <2>3. CASE mailbox[mailer[s].mail].seen /\ Move(s, "found") /\ UNCHANGED early
    <3>1. mailbox[mailer[s].mail].copies > 0
      BY <2>1, <2>3 DEF MailInv
    <3> QED BY <1>3, <1>6, <2>1, <2>3, <3>1 DEF SearchSent, MailPlaces
  <2>4. CASE (Move(s, "searching") \/ Move(s, "absent")) /\ UNCHANGED early
    BY <1>3, <1>6, <2>1, <2>4 DEF SearchSent, MailPlaces
  <2> QED BY <1>6, <2>2, <2>3, <2>4 DEF SearchSent
<1>7. ASSUME NEW s \in MailSessions, ConfirmMail(s) PROVE MailInv'
  BY <1>0, <1>2, <1>7 DEF ConfirmMail, MailPlaced, MailStates
<1>8. ASSUME NEW s \in MailSessions, LeaveAmbiguous(s) \/ CrashMailer(s) PROVE MailInv'
  BY <1>1, <1>8 DEF LeaveAmbiguous, CrashMailer
<1>9. ASSUME NEW s \in MailSessions, GiveUpMail(s) \/ RecordRejected(s) \/ RecordAmbiguity(s)
      PROVE  MailInv'
  BY <1>2, <1>9 DEF GiveUpMail, RecordRejected, RecordAmbiguity, MailStates
<1>10. ASSUME NEW s \in MailSessions, RecordSubmission(s) PROVE MailInv'
  <2> DEFINE a == [mailer[s] EXCEPT !.pc = "posting"]
             m == mailer[s].mail
  <2>1. m \in Mails /\ mailer[s].tries = 0
    BY <1>0, <1>10 DEF RecordSubmission, MailPlaced
  <2>2. a \in MailCopy /\ mailer' = [mailer EXCEPT ![s] = a]
    BY <1>0, <1>10 DEF RecordSubmission, Move, MailCopy, MailPlaces
  <2>3. a.pc = "posting" /\ a.mail = m /\ a.tries = 0
    BY <1>0, <2>1 DEF MailCopy
  <2>4. mailer' \in [MailSessions -> MailCopy] /\ mailer'[s] = a
    BY <1>0, <2>2
  <2>5. \A t \in MailSessions \ {s} : mailer'[t] = mailer[t]
    BY <1>0, <2>2
  <2>6. /\ outbound' \in [Mails -> [status : MailStates, tries : Nat]]
        /\ outbound'[m].tries = 1 /\ outbound'[m].status = "sending"
        /\ \A n \in Mails \ {m} : outbound'[n] = outbound[n]
    BY <1>0, <1>10, <2>1 DEF RecordSubmission, MailStates
  <2>7. /\ early' \in [Mails -> SUBSET MailSessions]
        /\ \A n \in Mails \ {m} : early'[n] = early[n]
    BY <1>0, <1>10 DEF RecordSubmission
  <2>8. \A t \in MailSessions : mailer[t].pc # "idle" /\ mailer[t].mail = m /\ mailer[t].tries = 0
                                 => t \in early'[m]
    <3>1. CASE outbound[m].tries > 0
      BY <1>0, <1>10, <3>1 DEF RecordSubmission, MailPlaced
    <3>2. CASE ~(outbound[m].tries > 0)
      BY <1>0, <1>10, <2>1, <3>2 DEF RecordSubmission
    <3> QED BY <3>1, <3>2
  <2>9. mailer[s].pc # "idle"
    BY <1>10 DEF RecordSubmission
  <2>10. UNCHANGED <<mailbox, posts>>
    BY <1>10 DEF RecordSubmission, Quiet
  <2>11. MailTypeOK'
    BY <1>0, <2>4, <2>6, <2>7, <2>10 DEF MailTypeOK, MailCopy
  <2>12. mailer[s].mail = m
    OBVIOUS
  <2> HIDE DEF a, m
  <2>13. ASSUME NEW t \in MailSessions PROVE MailPlaced(t, mailer[t])'
    <3>1. CASE t = s
      BY <2>1, <2>3, <2>4, <2>6, <2>8, <2>9, <2>12, <3>1 DEF MailPlaced
    <3>2. CASE t # s
      <4>1. mailer'[t] = mailer[t] /\ MailPlaced(t, mailer[t])
        BY <1>0, <2>5, <3>2
      <4>2. CASE mailer[t].mail = m
        BY <2>1, <2>6, <2>8, <2>10, <4>1, <4>2 DEF MailPlaced
      <4>3. CASE mailer[t].mail # m
        BY <2>6, <2>7, <2>10, <4>1, <4>3 DEF MailPlaced
      <4> QED BY <4>2, <4>3
    <3> QED BY <3>1, <3>2
  <2>14. ReportsWereSent'
    BY <2>6, <2>10 DEF ReportsWereSent, MailInv
  <2> QED BY <2>10, <2>11, <2>13, <2>14 DEF MailInv
<1>11. ASSUME NEW s \in MailSessions, SubmitMail(s) PROVE MailInv'
  <2>1. PICK m \in Mails : m = mailer[s].mail /\ outbound[m].tries > 0
    BY <1>0, <1>11 DEF SubmitMail, MailPlaced
  <2>2. PICK pc \in {"accepted", "rejected", "lost"} :
          /\ Move(s, pc) /\ UNCHANGED <<outbound, early>>
          /\ posts' = [posts EXCEPT ![m] = @ + 1]
          /\ \/ mailbox' = [mailbox EXCEPT ![m].copies = @ + 1]
             \/ UNCHANGED mailbox /\ pc # "accepted"
    BY <1>11, <2>1 DEF SubmitMail
  <2>3. /\ mailbox' \in [Mails -> [copies : Nat, seen : BOOLEAN]]
        /\ \A n \in Mails : /\ mailbox'[n].seen = mailbox[n].seen
                            /\ mailbox[n].copies > 0 => mailbox'[n].copies > 0
        /\ pc = "accepted" => mailbox'[m].copies > 0
    <3>0. mailbox \in [Mails -> [copies : Nat, seen : BOOLEAN]]
      BY <1>0 DEF MailTypeOK
    <3>1. CASE UNCHANGED mailbox /\ pc # "accepted"
      BY <3>0, <3>1
    <3>2. CASE mailbox' = [mailbox EXCEPT ![m].copies = @ + 1]
      <4> DEFINE b == [mailbox[m] EXCEPT !.copies = @ + 1]
      <4>1. b \in [copies : Nat, seen : BOOLEAN]
        BY <3>0
      <4>2. b.seen = mailbox[m].seen /\ b.copies > 0
        BY <3>0
      <4>3. mailbox' = [mailbox EXCEPT ![m] = b]
        BY <3>0, <3>2
      <4> HIDE DEF b
      <4> QED BY <3>0, <4>1, <4>2, <4>3
    <3> QED BY <2>2, <3>1, <3>2
  <2>4. /\ posts' \in [Mails -> Nat] /\ \A n \in Mails \ {m} : posts'[n] = posts[n]
    BY <1>0, <2>2 DEF MailTypeOK
  <2>5. mailer' \in [MailSessions -> MailCopy] /\ mailer'[s] = [mailer[s] EXCEPT !.pc = pc]
    BY <1>0, <2>2 DEF Move, MailCopy, MailPlaces
  <2>6. \A t \in MailSessions \ {s} : mailer'[t] = mailer[t]
    BY <1>0, <2>2 DEF Move
  <2>7. mailer'[s].pc = pc /\ mailer'[s].mail = m /\ mailer'[s].tries = mailer[s].tries
    BY <1>0, <2>1, <2>5 DEF MailCopy
  <2>8. MailTypeOK'
    BY <1>0, <2>2, <2>3, <2>4, <2>5 DEF MailTypeOK, MailCopy
  <2>9. ASSUME NEW t \in MailSessions PROVE MailPlaced(t, mailer[t])'
    <3>1. CASE t = s
      <4>1. MailPlaced(s, mailer[s]) /\ mailer[s].pc # "idle"
        BY <1>0, <1>11 DEF SubmitMail
      <4> QED BY <2>1, <2>2, <2>3, <2>7, <3>1, <4>1 DEF MailPlaced
    <3>2. CASE t # s
      <4>1. MailPlaced(t, mailer[t]) /\ mailer'[t] = mailer[t]
        BY <1>0, <2>6, <3>2
      <4> QED BY <2>2, <2>3, <4>1 DEF MailPlaced
    <3> QED BY <3>1, <3>2
  <2>10. ReportsWereSent'
    BY <2>1, <2>2, <2>3, <2>4 DEF ReportsWereSent, MailInv
  <2> QED BY <2>3, <2>8, <2>9, <2>10 DEF MailInv
<1>12. ASSUME NEW s \in MailSessions, RecordSent(s) PROVE MailInv'
  <2> DEFINE a == [mailer[s] EXCEPT !.pc = "confirming"]
  <2>1. a \in MailCopy /\ mailer' = [mailer EXCEPT ![s] = a]
    BY <1>0, <1>12 DEF RecordSent, Move, MailCopy, MailPlaces
  <2>2. a.pc = "confirming" /\ a.mail = mailer[s].mail /\ a.tries = mailer[s].tries
    BY <1>0 DEF MailCopy
  <2>3. MailPlaced(s, mailer[s]) /\ mailer[s].pc = "accepted"
    BY <1>0, <1>12 DEF RecordSent
  <2> HIDE DEF a
  <2>4. MailPlaced(s, a) /\ mailer[s].mail \in Mails /\ mailbox[mailer[s].mail].copies > 0
    BY <2>2, <2>3 DEF MailPlaced
  <2> QED BY <1>0, <1>12, <2>1, <2>2, <2>4, MailerWrites DEF RecordSent, MailStates
<1>13. ASSUME NEW m \in Mails, SentAppears(m) PROVE MailInv'
  <2>1. /\ mailbox' \in [Mails -> [copies : Nat, seen : BOOLEAN]]
        /\ \A n \in Mails : mailbox'[n].copies = mailbox[n].copies
        /\ \A n \in Mails : mailbox'[n].seen => mailbox'[n].copies > 0
    BY <1>0, <1>13 DEF SentAppears, MailInv, MailTypeOK
  <2>2. UNCHANGED <<outbound, mailer, posts, early>>
    BY <1>13 DEF SentAppears
  <2>3. MailTypeOK'
    BY <1>0, <2>1, <2>2 DEF MailTypeOK
  <2>4. \A t \in MailSessions : MailPlaced(t, mailer[t])'
    BY <1>0, <2>1, <2>2 DEF MailPlaced
  <2> QED BY <2>1, <2>2, <2>3, <2>4 DEF MailInv, ReportsWereSent
<1> QED
  BY <1>4, <1>5, <1>6, <1>7, <1>8, <1>9, <1>10, <1>11, <1>12, <1>13 DEF MailNext

LEMMA MailInvariant == MailSpec => []MailInv
<1>1. MailInv /\ UNCHANGED mailVars => MailInv'
  BY DEF MailInv, MailTypeOK, MailPlaced, ReportsWereSent, mailVars
<1> QED BY <1>1, MailInitInv, MailerStep, PTL DEF MailSpec

\* The rows of outgoing messages, the mailbox and the sessions' copies keep their types.
THEOREM MailTypes == MailSpec => []MailTypeOK
BY MailInvariant, PTL DEF MailInv

\* No message is handed to Gmail before its row says so, none is reported as sent that
\* Gmail did not accept, and after the first submission only a session that was already
\* at work on the message can submit it again: for all messages and sessions.
THEOREM LateSessionsNeverSend == MailSpec => LateSessionsDoNotSend
<1>1. MailInv => ReportsWereSent
  BY DEF MailInv
<1>2. ASSUME MailInv, [MailNext]_mailVars PROVE [ResubmittedEarly]_mailVars
  <2> SUFFICES ASSUME NEW m \in Mails, posts'[m] > posts[m], posts[m] > 0
               PROVE  \E s \in early[m] : mailer[s].pc = "posting" /\ mailer[s].mail = m
    BY DEF ResubmittedEarly
  <2>1. posts \in [Mails -> Nat]
    BY <1>2 DEF MailInv, MailTypeOK
  <2>2. PICK s \in MailSessions : SubmitMail(s)
    <3>1. UNCHANGED posts \/ \E s \in MailSessions : SubmitMail(s)
      BY <1>2
      DEF MailNext, mailVars, PrepareMail, VerifyMail, InsertMail, SearchSent, ConfirmMail,
          LeaveAmbiguous, GiveUpMail, RecordSubmission, RecordSent, RecordRejected,
          RecordAmbiguity, CrashMailer, SentAppears, Quiet
    <3> QED BY <2>1, <3>1
  <2>3. mailer[s].pc = "posting" /\ mailer[s].mail = m
    BY <2>1, <2>2 DEF SubmitMail
  <2>4. s \in early[m]
    BY <1>2, <2>3 DEF MailInv, MailPlaced
  <2> QED BY <2>3, <2>4
<1> QED BY <1>1, <1>2, MailInvariant, PTL DEF MailSpec, LateSessionsDoNotSend

-----------------------------------------------------------------------------
(***************************************************************************)
(* SMS                                                                     *)
(***************************************************************************)

PhoneRows == [worker : {"idle", "fetched", "waiting", "claimed", "marked"}, done : BOOLEAN,
              sent : BOOLEAN, reported : BOOLEAN,
              stored : {"none", "failed", "creation_uncertain"}, air : BOOLEAN]
Steps == [status : {"pending", "retry", "verifying", "completed", "failed"},
          tries : Nat, failed : BOOLEAN]

\* A request that reports the message as sent, or that found it sent, came after the
\* carrier took it; only a failure or a doubt is kept for later.
Honest(r) ==
  /\ r.asks = "sent" \/ r.seen = "sent" => handed > 0
  /\ r.use = "keep" => r.asks \in {"failed", "creation_uncertain"}

\* The phone's marker covers a message in the air and one about to be sent; what is
\* known as sent was taken by the carrier. While no cause of a second dispatch is on
\* record, the phone whose message is or was in the air holds the claim, no other
\* message is in the air, and it does not send again.
DeviceInv ==
  /\ DeviceTypeOK
  /\ \A d \in Phones :
       /\ phone[d].air => phone[d].done
       /\ phone[d].worker = "marked" => phone[d].done /\ ~phone[d].air
       /\ phone[d].sent => handed > 0
  /\ proof \/ action = "sent" => handed > 0
  /\ step.status = "completed" => handed > 0
  /\ \A r \in uplink : Honest(r)
  /\ causes = {} =>
       /\ handed <= 1
       /\ \A d \in Phones : phone[d].air => claimant = d /\ handed = 0
       /\ handed > 0 => /\ claimant \in Phones
                        /\ phone[claimant].done /\ phone[claimant].worker # "marked"

LEMMA DeviceInitInv == ASSUME DeviceAssumption PROVE DeviceInit => DeviceInv
<1> SUFFICES ASSUME DeviceInit PROVE DeviceInv
  OBVIOUS
<1>1. DeviceTypeOK
  BY DEF DeviceInit, DeviceTypeOK, NewPhone, ActionStates, Causes
<1> QED BY <1>1 DEF DeviceInit, DeviceInv, NewPhone

\* From the row p of a phone to q: no message is put in the air, a marker is set only
\* where there was none and cleared only for a message that was not to be sent again.
Calm(p, q) ==
  /\ q.air => p.air /\ q.done
  /\ q.worker = "marked" => /\ q.done /\ ~q.air
                            /\ p.worker = "marked" \/ ~p.done
  /\ q.sent => p.sent
  /\ p.done => q.done \/ p.worker = "marked" \/ p.air

\* A step that hands nothing over and keeps every phone calm keeps the invariant,
\* if the claim moves only while no message is or was in the air.
LEMMA PhonesCalm ==
  ASSUME DeviceInv, multipart' = multipart, handed' = handed,
         action' \in ActionStates, claimant' \in Phones \cup {NoPhone}, proof' \in BOOLEAN,
         uplink' \subseteq Uplinks, step' \in Steps, causes' \subseteq Causes,
         reply' \in Phones \cup {NoPhone}, phone' \in [Phones -> PhoneRows],
         \A r \in uplink' : Honest(r),
         proof' \/ action' = "sent" => handed > 0,
         step'.status = "completed" => handed > 0,
         causes' = {} => /\ causes = {}
                         /\ \/ claimant' = claimant
                            \/ handed = 0 /\ \A e \in Phones : ~phone[e].air,
         \A e \in Phones : Calm(phone[e], phone'[e])
  PROVE  DeviceInv'
<1>1. DeviceTypeOK'
  BY DEF DeviceInv, DeviceTypeOK, PhoneRows, Steps
<1>2. \A r \in uplink' : Honest(r)'
  BY DEF Honest
<1>3. \A e \in Phones : /\ phone'[e].air => phone'[e].done /\ phone[e].air
                        /\ phone'[e].worker = "marked" => phone'[e].done /\ ~phone'[e].air
                        /\ phone'[e].sent => handed > 0
  BY DEF Calm, DeviceInv
<1>4. ASSUME causes' = {}
      PROVE  /\ handed <= 1
             /\ \A e \in Phones : phone'[e].air => claimant' = e /\ handed = 0
             /\ handed > 0 => /\ claimant' \in Phones
                              /\ phone'[claimant'].done
                              /\ phone'[claimant'].worker # "marked"
  <2>1. causes = {} /\ handed <= 1
        /\ \A e \in Phones : phone[e].air => claimant = e /\ handed = 0
    BY <1>4 DEF DeviceInv
  <2>2. \A e \in Phones : phone'[e].air => claimant' = e /\ handed = 0
    BY <1>3, <1>4, <2>1
  <2>3. ASSUME handed > 0
        PROVE  claimant' \in Phones /\ phone'[claimant'].done
               /\ phone'[claimant'].worker # "marked"
    <3>1. /\ claimant' = claimant /\ claimant \in Phones
          /\ phone[claimant].done /\ phone[claimant].worker # "marked"
          /\ ~phone[claimant].air
      BY <1>4, <2>1, <2>3 DEF DeviceInv, DeviceTypeOK
    <3> QED BY <3>1 DEF Calm
  <2> QED BY <2>1, <2>2, <2>3
<1> QED BY <1>1, <1>2, <1>3, <1>4 DEF DeviceInv

LEMMA OnePhoneCalm ==
  ASSUME DeviceInv, NEW d \in Phones, NEW q \in PhoneRows, Calm(phone[d], q),
         phone' = [phone EXCEPT ![d] = q]
  PROVE  phone' \in [Phones -> PhoneRows] /\ \A e \in Phones : Calm(phone[e], phone'[e])
<1>1. phone' \in [Phones -> PhoneRows] /\ phone'[d] = q
  BY DEF DeviceInv, DeviceTypeOK, PhoneRows
<1>2. \A e \in Phones \ {d} : phone'[e] = phone[e]
  BY DEF DeviceInv, DeviceTypeOK
<1>3. \A e \in Phones : Calm(phone[e], phone[e])
  BY DEF Calm, DeviceInv
<1> QED BY <1>1, <1>2, <1>3

\* Whatever a phone makes of an answer, it touches no message and no marker.
LEMMA ContinuedFacts ==
  ASSUME NEW q \in PhoneRows, NEW r \in Uplinks, NEW ok \in BOOLEAN,
         r.use = "keep" => r.asks \in {"failed", "creation_uncertain"}
  PROVE  /\ Continued(q, r, ok) \in PhoneRows
         /\ Continued(q, r, ok).worker \in {"claimed", "idle", q.worker}
         /\ Continued(q, r, ok).air = q.air /\ Continued(q, r, ok).done = q.done
         /\ Continued(q, r, ok).sent = q.sent
<1>1. /\ q.worker \in {"idle", "fetched", "waiting", "claimed", "marked"}
      /\ q.reported \in BOOLEAN /\ q.stored \in {"none", "failed", "creation_uncertain"}
      /\ q.air \in BOOLEAN /\ q.done \in BOOLEAN /\ q.sent \in BOOLEAN
      /\ r.use = "keep" => r.asks \in {"failed", "creation_uncertain"}
  BY DEF PhoneRows
<1>2. PICK w, n, t :
        /\ Continued(q, r, ok) = [q EXCEPT !.worker = w, !.reported = n, !.stored = t]
        /\ w = (IF r.use = "dispatch" /\ ok THEN "claimed"
                ELSE IF r.worker THEN "idle" ELSE q.worker)
        /\ n = (q.reported \/ (r.use = "note" /\ ok))
        /\ t = (IF r.use = "forget" /\ ok THEN "none"
                ELSE IF r.use = "keep" /\ ~ok THEN r.asks ELSE q.stored)
  BY DEF Continued
<1>3. w \in {"claimed", "idle", q.worker} /\ n \in BOOLEAN
      /\ t \in {"none", "failed", "creation_uncertain"}
  BY <1>1, <1>2
<1> QED BY <1>1, <1>2, <1>3 DEF PhoneRows

\* A post leaves its phone as it was, or waiting, or as one that was not answered, and
\* the backend at work on at most that request more.
LEMMA PostFacts ==
  ASSUME DeviceInv, NEW d \in Phones, NEW q \in PhoneRows, NEW r \in Uplinks, r.by = d,
         r.use = "keep" => r.asks \in {"failed", "creation_uncertain"}, Post(r, q)
  PROVE  /\ \E p \in PhoneRows :
              /\ phone' = [phone EXCEPT ![d] = p]
              /\ p.air = q.air /\ p.done = q.done /\ p.sent = q.sent
              /\ p.worker \in {"waiting", "claimed", "idle", q.worker}
         /\ uplink' \subseteq Uplinks
         /\ \A x \in uplink' : x \in uplink \/ x = r
<1>1. CASE /\ uplink' = uplink \cup {r}
           /\ phone' = [phone EXCEPT ![d] = [q EXCEPT !.worker = IF r.worker THEN "waiting" ELSE @]]
  <2>1. PICK p \in PhoneRows : p = [q EXCEPT !.worker = IF r.worker THEN "waiting" ELSE @]
    BY DEF PhoneRows
  <2>2. /\ p.air = q.air /\ p.done = q.done /\ p.sent = q.sent
        /\ p.worker \in {"waiting", q.worker}
    BY <2>1 DEF PhoneRows
  <2> QED BY <1>1, <2>1, <2>2 DEF DeviceInv, DeviceTypeOK
<1>2. CASE phone' = [phone EXCEPT ![d] = Continued(q, r, FALSE)] /\ uplink' = uplink
  <2>1. PICK p : p = Continued(q, r, FALSE)
    OBVIOUS
  <2>2. /\ p \in PhoneRows /\ p.air = q.air /\ p.done = q.done /\ p.sent = q.sent
        /\ p.worker \in {"waiting", "claimed", "idle", q.worker}
    BY <2>1, ContinuedFacts
  <2>3. phone' = [phone EXCEPT ![d] = p]
    BY <1>2, <2>1
  <2> QED BY <1>2, <2>2, <2>3 DEF DeviceInv, DeviceTypeOK
<1> QED BY <1>1, <1>2 DEF Post

\* A step of one phone that posts, and hands nothing over.
LEMMA PostQuiet ==
  ASSUME DeviceInv, NEW d \in Phones, NEW q \in PhoneRows, Calm(phone[d], q),
         NEW asks \in Asked, NEW use \in Uses, NEW worker \in BOOLEAN,
         asks = "sent" => handed > 0,
         use = "keep" => asks \in {"failed", "creation_uncertain"},
         Post(Request(d, asks, use, worker), q),
         UNCHANGED <<multipart, backend, step, handed>>, reply' \in Phones \cup {NoPhone},
         causes' \subseteq Causes, causes' = {} => causes = {}
  PROVE  DeviceInv'
<1>1. PICK r : r = Request(d, asks, use, worker)
  OBVIOUS
<1>2. r \in Uplinks /\ r.by = d /\ r.asks = asks /\ r.use = use /\ r.seen = action
  BY <1>1 DEF Request, Uplinks, DeviceInv, DeviceTypeOK
<1>3. Honest(r)
  BY <1>2 DEF Honest, DeviceInv
<1>4. Post(r, q)
  BY <1>1
<1>5. /\ \E p \in PhoneRows :
              /\ phone' = [phone EXCEPT ![d] = p]
              /\ p.air = q.air /\ p.done = q.done /\ p.sent = q.sent
              /\ p.worker \in {"waiting", "claimed", "idle", q.worker}
      /\ uplink' \subseteq Uplinks
      /\ \A x \in uplink' : x \in uplink \/ x = r
  BY <1>2, <1>4, PostFacts
<1>6. PICK p \in PhoneRows :
         /\ phone' = [phone EXCEPT ![d] = p]
         /\ p.air = q.air /\ p.done = q.done /\ p.sent = q.sent
         /\ p.worker \in {"waiting", "claimed", "idle", q.worker}
  BY <1>5
<1>7. Calm(phone[d], p)
  BY <1>6 DEF Calm
<1>8. phone' \in [Phones -> PhoneRows] /\ \A e \in Phones : Calm(phone[e], phone'[e])
  BY <1>6, <1>7, OnePhoneCalm
<1>9. \A x \in uplink' : Honest(x)
  BY <1>3, <1>5 DEF DeviceInv
<1>10. /\ action' \in ActionStates /\ claimant' \in Phones \cup {NoPhone} /\ proof' \in BOOLEAN
       /\ step' \in Steps /\ handed' = handed /\ claimant' = claimant /\ multipart' = multipart
       /\ proof' \/ action' = "sent" => handed > 0
       /\ step'.status = "completed" => handed > 0
  BY DEF backend, DeviceInv, DeviceTypeOK, Steps
<1> QED BY <1>5, <1>8, <1>9, <1>10, PhonesCalm

\* A step in which the carrier takes a message that was in the air.
LEMMA HandedOver ==
  ASSUME DeviceInv, NEW d \in Phones, NEW q \in PhoneRows,
         phone[d].air, ~q.air, q.done, q.worker # "marked", handed' = handed + 1,
         phone' = [phone EXCEPT ![d] = q], UNCHANGED <<multipart, backend, step, reply, causes>>,
         uplink' \subseteq Uplinks, \A r \in uplink' : Honest(r)'
  PROVE  DeviceInv'
<1>0. handed \in Nat /\ handed' > 0
  BY DEF DeviceInv, DeviceTypeOK
<1>1. phone' \in [Phones -> PhoneRows] /\ phone'[d] = q
  BY DEF DeviceInv, DeviceTypeOK, PhoneRows
<1>2. \A e \in Phones \ {d} : phone'[e] = phone[e]
  BY DEF DeviceInv, DeviceTypeOK
<1>3. DeviceTypeOK'
  BY <1>0, <1>1 DEF DeviceInv, DeviceTypeOK, PhoneRows, backend
<1>4. \A e \in Phones : /\ phone'[e].air => phone'[e].done /\ phone[e].air /\ e # d
                        /\ phone'[e].worker = "marked" => phone'[e].done /\ ~phone'[e].air
  BY <1>1, <1>2 DEF DeviceInv
<1>5. ASSUME causes' = {}
      PROVE  /\ handed' <= 1 /\ \A e \in Phones : ~phone'[e].air
             /\ claimant' = d /\ phone'[d].done /\ phone'[d].worker # "marked"
  <2>1. causes = {} /\ claimant = d /\ handed = 0
    BY <1>5 DEF DeviceInv
  <2>2. \A e \in Phones : phone[e].air => e = d
    BY <2>1 DEF DeviceInv
  <2> QED BY <1>0, <1>1, <1>4, <2>1, <2>2 DEF backend
<1> QED BY <1>0, <1>3, <1>4, <1>5 DEF DeviceInv

\* The backend commits a request from the row that it loaded.
LEMMA Committed ==
  ASSUME DeviceAssumption, DeviceInv, NEW r \in uplink, ApplyResult(r) \/ ApplyClaim(r)
  PROVE  DeviceInv'
<1>0. /\ phone \in [Phones -> PhoneRows] /\ handed \in Nat /\ causes \subseteq Causes
      /\ action \in ActionStates /\ claimant \in Phones \cup {NoPhone} /\ proof \in BOOLEAN
      /\ uplink \subseteq Uplinks /\ reply \in Phones \cup {NoPhone} /\ step \in Steps
      /\ r \in Uplinks /\ r.by \in Phones /\ r.asks \in Asked /\ r.seen \in ActionStates
      /\ Honest(r)
  BY DEF DeviceInv, DeviceTypeOK, PhoneRows, Uplinks, Steps
<1>1. \A ok \in BOOLEAN : Answered(r, ok) =>
        phone' \in [Phones -> PhoneRows] /\ \A e \in Phones : Calm(phone[e], phone'[e])
  <2> SUFFICES ASSUME NEW ok \in BOOLEAN, Answered(r, ok)
               PROVE  /\ phone' \in [Phones -> PhoneRows]
                      /\ \A e \in Phones : Calm(phone[e], phone'[e])
    OBVIOUS
  <2>1. PICK q : q = Continued(phone[r.by], r, ok)
    OBVIOUS
  <2>2. /\ q \in PhoneRows /\ q.worker \in {"claimed", "idle", phone[r.by].worker}
        /\ q.air = phone[r.by].air /\ q.done = phone[r.by].done /\ q.sent = phone[r.by].sent
    BY <1>0, <2>1, ContinuedFacts DEF Honest
  <2>3. phone' = [phone EXCEPT ![r.by] = q]
    BY <1>0, <2>1 DEF Answered
  <2>4. Calm(phone[r.by], q)
    BY <1>0, <2>2 DEF Calm, DeviceInv
  <2> QED BY <1>0, <2>2, <2>3, <2>4, OnePhoneCalm
<1>2. /\ phone' \in [Phones -> PhoneRows] /\ \A e \in Phones : Calm(phone[e], phone'[e])
      /\ uplink' = uplink \ {r} /\ UNCHANGED <<multipart, step, reply, handed>>
  BY <1>1 DEF ApplyResult, ApplyClaim
<1>3. uplink' \subseteq Uplinks /\ \A x \in uplink' : Honest(x)
  BY <1>0, <1>2 DEF DeviceInv
<1>4. CASE ApplyResult(r)
  <2>1. /\ action' \in ActionStates /\ claimant' \in {claimant, NoPhone} /\ proof' \in BOOLEAN
        /\ causes' \subseteq Causes
        /\ causes' = {} => causes = {} /\ (claimant' = claimant \/ ~Underway)
    BY <1>0, <1>4 DEF ApplyResult, ActionStates, Asked, Causes
  <2>2. action' = "sent" \/ proof' => handed > 0
    BY <1>0, <1>4 DEF ApplyResult, Honest, DeviceInv
  <2>3. causes' = {} => /\ causes = {}
                        /\ \/ claimant' = claimant
                           \/ handed = 0 /\ \A e \in Phones : ~phone[e].air
    BY <1>0, <2>1 DEF Underway
  <2> QED BY <1>0, <1>2, <1>3, <2>1, <2>2, <2>3, PhonesCalm DEF DeviceInv
<1>5. CASE ApplyClaim(r)
  <2>1. /\ claimant' = claimant \/ (claimant = NoPhone /\ claimant' = r.by)
        /\ action' \in {"dispatching", action} /\ UNCHANGED <<proof, causes>>
    BY <1>5 DEF ApplyClaim, Granted
  <2>2. causes = {} /\ claimant = NoPhone /\ NoPhone \notin Phones =>
           handed = 0 /\ \A e \in Phones : ~phone[e].air
    BY <1>0 DEF DeviceInv
  <2>3. NoPhone \notin Phones
    BY DEF DeviceAssumption
  <2>4. action' \in ActionStates /\ (proof' \/ action' = "sent" => handed > 0)
        /\ (step'.status = "completed" => handed > 0)
    BY <1>0, <1>2, <2>1 DEF ActionStates, DeviceInv
  <2> QED BY <1>0, <1>2, <1>3, <2>1, <2>2, <2>3, <2>4, PhonesCalm
<1> QED BY <1>4, <1>5

LEMMA DeviceStep == ASSUME DeviceAssumption, DeviceInv, DeviceNext PROVE DeviceInv'
<1>0. /\ phone \in [Phones -> PhoneRows] /\ handed \in Nat /\ causes \subseteq Causes
      /\ action \in ActionStates /\ claimant \in Phones \cup {NoPhone} /\ proof \in BOOLEAN
      /\ uplink \subseteq Uplinks /\ reply \in Phones \cup {NoPhone} /\ step \in Steps
      /\ multipart \in BOOLEAN
      /\ "failed" \in Asked /\ "sent" \in Asked /\ "claim" \in Asked
      /\ "creation_uncertain" \in Asked /\ Uses = {"dispatch", "note", "forget", "keep", "none"}
  BY DEF DeviceInv, DeviceTypeOK, PhoneRows, Steps, Asked, Uses
<1>1. \A e \in Phones : Calm(phone[e], phone[e])
  BY DEF Calm, DeviceInv
<1>2. CASE ExecuteStep \/ FindFailed \/ RetryFailedAction \/ CloseStep
  <2>1. /\ phone' = phone /\ UNCHANGED <<multipart, reply, handed, uplink, claimant, proof>>
        /\ action' \in {action, "pending"}
        /\ causes' \in {causes, causes \cup {"stale retry"}}
    BY <1>2 DEF ExecuteStep, FindFailed, RetryFailedAction, CloseStep, backend
  <2>2. step' \in Steps /\ (step'.status = "completed" => handed > 0)
    <3>1. CASE ExecuteStep
      BY <1>0, <3>1 DEF ExecuteStep, Steps
    <3>2. CASE FindFailed
      BY <1>0, <3>2 DEF FindFailed, Steps
    <3>3. CASE RetryFailedAction
      BY <1>0, <3>3 DEF RetryFailedAction, Steps
    <3>4. CASE CloseStep
      BY <1>0, <3>4 DEF CloseStep, Steps, DeviceInv
    <3> QED BY <1>2, <3>1, <3>2, <3>3, <3>4
  <2>3. action' \in ActionStates /\ causes' \subseteq Causes /\ (causes' = {} => causes = {})
    BY <1>0, <2>1 DEF ActionStates, Causes
  <2>4. (proof' \/ action' = "sent" => handed > 0) /\ \A r \in uplink' : Honest(r)
    BY <2>1 DEF DeviceInv
  <2> QED BY <1>0, <1>1, <2>1, <2>2, <2>3, <2>4, PhonesCalm
<1>3. ASSUME NEW r \in uplink, LoseAnswer(r) \/ DropRequest(r) PROVE DeviceInv'
  <2>1. /\ r \in Uplinks /\ r.by \in Phones /\ Honest(r)
        /\ UNCHANGED <<multipart, backend, step, reply, handed, causes>>
    BY <1>0, <1>3 DEF LoseAnswer, DropRequest, Uplinks, DeviceInv
  <2>2. GivenUp(r) \in Uplinks /\ Honest(GivenUp(r))
    BY <1>0, <2>1 DEF GivenUp, Uplinks, Honest
  <2>3. uplink' \subseteq Uplinks /\ \A x \in uplink' : Honest(x)
    BY <1>0, <1>3, <2>2 DEF LoseAnswer, DropRequest, DeviceInv
  <2>4. phone' \in [Phones -> PhoneRows] /\ \A e \in Phones : Calm(phone[e], phone'[e])
    <3>1. CASE DropRequest(r)
      BY <1>0, <1>1, <3>1 DEF DropRequest
    <3>2. CASE LoseAnswer(r)
      <4>1. PICK q : q = Continued(phone[r.by], r, FALSE)
        OBVIOUS
      <4>2. /\ q \in PhoneRows /\ q.worker \in {"claimed", "idle", phone[r.by].worker}
            /\ q.air = phone[r.by].air /\ q.done = phone[r.by].done /\ q.sent = phone[r.by].sent
        BY <1>0, <2>1, <4>1, ContinuedFacts DEF Honest
      <4>3. phone' = [phone EXCEPT ![r.by] = q]
        BY <1>0, <2>1, <3>2, <4>1 DEF LoseAnswer, Answered
      <4>4. Calm(phone[r.by], q)
        BY <1>0, <2>1, <4>2 DEF Calm, DeviceInv
      <4> QED BY <2>1, <4>2, <4>3, <4>4, OnePhoneCalm
    <3> QED BY <1>3, <3>1, <3>2
  <2>5. /\ (proof' \/ action' = "sent" => handed > 0) /\ (step'.status = "completed" => handed > 0)
        /\ UNCHANGED <<action, claimant, proof, step, multipart, reply, handed, causes>>
    BY <2>1 DEF DeviceInv, backend
  <2> QED BY <1>0, <2>3, <2>4, <2>5, PhonesCalm
<1>4. ASSUME NEW d \in Phones, NEW q \in PhoneRows, Calm(phone[d], q),
             phone' = [phone EXCEPT ![d] = q],
             UNCHANGED <<multipart, backend, uplink, step, reply, handed, causes>>
      PROVE  DeviceInv'
  <2>1. phone' \in [Phones -> PhoneRows] /\ \A e \in Phones : Calm(phone[e], phone'[e])
    BY <1>4, OnePhoneCalm
  <2>2. /\ (proof' \/ action' = "sent" => handed > 0) /\ (step'.status = "completed" => handed > 0)
        /\ UNCHANGED <<action, claimant, proof>> /\ \A r \in uplink' : Honest(r)
    BY <1>4 DEF DeviceInv, backend
  <2> QED BY <1>0, <1>4, <2>1, <2>2, PhonesCalm
<1>5. ASSUME NEW d \in Phones, FetchAction(d) PROVE DeviceInv'
  <2>1. PICK q \in PhoneRows : q = [phone[d] EXCEPT !.worker = "fetched"]
    BY <1>0 DEF PhoneRows
  <2>2. Calm(phone[d], q)
    BY <1>0, <2>1 DEF Calm, PhoneRows, DeviceInv
  <2> QED BY <1>0, <1>4, <1>5, <2>1, <2>2 DEF FetchAction
<1>6. ASSUME NEW d \in Phones, MarkExecuted(d) PROVE DeviceInv'
  <2>1. PICK q \in PhoneRows :
          q = [phone[d] EXCEPT !.worker = IF phone[d].done THEN "idle" ELSE "marked",
                               !.done = TRUE]
    BY <1>0 DEF PhoneRows
  <2>2. Calm(phone[d], q)
    BY <1>0, <2>1 DEF Calm, PhoneRows, DeviceInv
  <2> QED BY <1>0, <1>4, <1>6, <2>1, <2>2 DEF MarkExecuted
<1>7. ASSUME NEW d \in Phones, ClaimAction(d) \/ RepostSent(d) \/ RepostStored(d)
      PROVE  DeviceInv'
  <2>1. /\ phone[d] \in PhoneRows /\ Calm(phone[d], phone[d])
        /\ phone[d].stored \in {"none", "failed", "creation_uncertain"}
        /\ UNCHANGED <<multipart, backend, step, handed, causes>> /\ reply' \in Phones \cup {NoPhone}
    BY <1>0, <1>1, <1>7 DEF ClaimAction, RepostSent, RepostStored, PhoneRows
  <2>2. CASE ClaimAction(d)
    BY <1>0, <2>1, <2>2, PostQuiet DEF ClaimAction
  <2>3. CASE RepostSent(d)
    <3>1. handed > 0
      BY <2>3 DEF RepostSent, DeviceInv
    <3> QED BY <1>0, <2>1, <2>3, <3>1, PostQuiet DEF RepostSent
  <2>4. CASE RepostStored(d)
    <3>1. phone[d].stored \in {"failed", "creation_uncertain"} /\ phone[d].stored \in Asked
      BY <1>0, <2>1, <2>4 DEF RepostStored
    <3> QED BY <1>0, <2>1, <2>4, <3>1, PostQuiet DEF RepostStored
  <2> QED BY <1>7, <2>2, <2>3, <2>4
<1>8. ASSUME NEW d \in Phones, SendSms(d) PROVE DeviceInv'
  <2>1. /\ phone[d].worker = "marked" /\ phone[d].done /\ ~phone[d].air
        /\ UNCHANGED <<multipart, backend, step, reply, handed>>
    BY <1>8 DEF SendSms, DeviceInv
  <2>2. PICK q \in PhoneRows : q = [phone[d] EXCEPT !.worker = "idle"]
    BY <1>0 DEF PhoneRows
  <2>3. ~q.air /\ (q.sent <=> phone[d].sent) /\ q.worker = "idle"
    BY <1>0, <2>1, <2>2 DEF PhoneRows
  <2>4. CASE Post(Request(d, "failed", "keep", TRUE), [q EXCEPT !.done = FALSE]) /\ causes' = causes
    <3>1. PICK r \in PhoneRows : r = [q EXCEPT !.done = FALSE]
      BY DEF PhoneRows
    <3>2. ~r.air /\ (r.sent <=> phone[d].sent) /\ r.worker = "idle"
      BY <2>3, <3>1 DEF PhoneRows
    <3>3. Calm(phone[d], r)
      BY <2>1, <3>2 DEF Calm
    <3> QED BY <1>0, <2>1, <2>4, <3>1, <3>3, PostQuiet
  <2>5. CASE /\ phone' = [phone EXCEPT ![d] = InTheAir(q)]
             /\ causes' = IF claimant = d THEN causes ELSE causes \cup {"unclaimed dispatch"}
             /\ UNCHANGED uplink
    <3>1. PICK r \in PhoneRows : r = InTheAir(q)
      BY <1>0 DEF PhoneRows, InTheAir
    <3>2. r.air /\ r.done /\ r.worker = "idle" /\ (r.sent <=> phone[d].sent)
      BY <1>0, <2>1, <2>2, <3>1 DEF PhoneRows, InTheAir
    <3>3. phone' \in [Phones -> PhoneRows] /\ phone'[d] = r
      BY <1>0, <2>5, <3>1
    <3>4. \A e \in Phones \ {d} : phone'[e] = phone[e]
      BY <1>0, <2>5, <3>1
    <3>5. causes' \subseteq Causes /\ (causes' = {} => causes = {} /\ claimant = d)
      BY <1>0, <2>5 DEF Causes
    <3>6. DeviceTypeOK'
      BY <2>1, <2>5, <3>3, <3>5 DEF DeviceInv, DeviceTypeOK, PhoneRows, backend
    <3>7. ASSUME causes' = {} PROVE handed = 0 /\ \A e \in Phones : phone'[e].air => e = d
      <4>1. causes = {} /\ claimant = d
        BY <3>5, <3>7
      <4>2. handed = 0
        BY <1>0, <2>1, <4>1 DEF DeviceInv
      <4>3. \A e \in Phones : phone[e].air => e = d
        BY <4>1 DEF DeviceInv
      <4> QED BY <3>4, <4>2, <4>3
    <3>8. \A e \in Phones :
            /\ phone'[e].air => phone'[e].done
            /\ phone'[e].worker = "marked" => phone'[e].done /\ ~phone'[e].air
            /\ phone'[e].sent => handed > 0
      BY <3>2, <3>3, <3>4 DEF DeviceInv
    <3>9. \A r1 \in uplink' : Honest(r1)'
      BY <2>1, <2>5 DEF Honest, DeviceInv
    <3> QED BY <1>0, <2>1, <2>5, <3>5, <3>6, <3>7, <3>8, <3>9 DEF DeviceInv, backend
  <2> QED BY <1>8, <2>2, <2>4, <2>5 DEF SendSms
<1>9. ASSUME NEW d \in Phones, ReceiverReplies(d) PROVE DeviceInv'
  <2>1. PICK r \in PhoneRows : r = InTheAir([phone[d] EXCEPT !.done = TRUE])
    BY <1>0 DEF PhoneRows, InTheAir
  <2>2. r.air /\ r.done /\ (r.sent <=> phone[d].sent) /\ r.worker = phone[d].worker
    BY <1>0, <2>1 DEF PhoneRows, InTheAir
  <2>3. r.worker # "marked"
    BY <1>9, <2>2 DEF ReceiverReplies, DeviceInv
  <2>4. phone' \in [Phones -> PhoneRows] /\ phone'[d] = r
    BY <1>0, <1>9, <2>1 DEF ReceiverReplies
  <2>5. \A e \in Phones \ {d} : phone'[e] = phone[e]
    BY <1>0, <1>9, <2>1 DEF ReceiverReplies
  <2>6. /\ causes' \subseteq Causes /\ causes' # {} /\ reply' \in Phones \cup {NoPhone}
        /\ UNCHANGED <<multipart, backend, uplink, step, handed>>
    BY <1>0, <1>9 DEF ReceiverReplies, Causes
  <2>7. DeviceTypeOK'
    BY <2>4, <2>6 DEF DeviceInv, DeviceTypeOK, PhoneRows, backend
  <2>8. \A r1 \in uplink' : Honest(r1)'
    BY <2>6 DEF Honest, DeviceInv
  <2> QED BY <2>2, <2>3, <2>4, <2>5, <2>6, <2>7, <2>8 DEF DeviceInv, backend
<1>10. ASSUME NEW d \in Phones, ReceiverFails(d) PROVE DeviceInv'
  <2>1. /\ Post(Request(d, "failed", "none", FALSE), phone[d])
        /\ UNCHANGED <<multipart, backend, step, handed>> /\ reply' \in Phones \cup {NoPhone}
        /\ causes' \subseteq Causes /\ causes' # {}
    BY <1>0, <1>10 DEF ReceiverFails, Causes
  <2> QED BY <1>0, <1>1, <2>1, PostQuiet
<1>11. ASSUME NEW d \in Phones, CarrierTakes(d) PROVE DeviceInv'
  <2>1. PICK q \in PhoneRows : q = [phone[d] EXCEPT !.sent = TRUE, !.air = FALSE]
    BY <1>0 DEF PhoneRows
  <2>2. /\ phone[d].air /\ phone[d].done /\ phone[d].worker # "marked"
        /\ q.worker = phone[d].worker /\ ~q.air /\ q.sent /\ q.done
    BY <1>0, <1>11, <2>1 DEF CarrierTakes, DeviceInv, PhoneRows
  <2>3. PICK r : r = Request(d, "sent", "note", FALSE)
    OBVIOUS
  <2>4. r \in Uplinks /\ r.by = d /\ r.use = "note"
    BY <1>0, <2>3 DEF Request, Uplinks
  <2>5. /\ handed' = handed + 1 /\ Post(r, q)
        /\ UNCHANGED <<multipart, backend, step, reply, causes>>
    BY <1>11, <2>1, <2>3 DEF CarrierTakes
  <2>6. handed' > 0 /\ (r.use = "keep" => r.asks \in {"failed", "creation_uncertain"})
    BY <1>0, <2>4, <2>5
  <2>7. /\ \E p \in PhoneRows :
              /\ phone' = [phone EXCEPT ![d] = p]
              /\ p.air = q.air /\ p.done = q.done /\ p.sent = q.sent
              /\ p.worker \in {"waiting", "claimed", "idle", q.worker}
        /\ uplink' \subseteq Uplinks
        /\ \A x \in uplink' : x \in uplink \/ x = r
    BY <2>4, <2>5, <2>6, PostFacts
  <2>8. \A x \in uplink' : Honest(x)'
    BY <1>0, <2>5, <2>6, <2>7 DEF Honest, DeviceInv
  <2> QED BY <2>2, <2>5, <2>7, <2>8, HandedOver
<1>12. ASSUME NEW d \in Phones, CarrierRefuses(d) PROVE DeviceInv'
  <2>1. PICK q \in PhoneRows :
          q = [phone[d] EXCEPT !.air = FALSE, !.sent = FALSE, !.done = multipart]
    BY <1>0 DEF PhoneRows
  <2>2. /\ phone[d].air /\ phone[d].worker # "marked"
        /\ q.worker = phone[d].worker /\ ~q.air /\ ~q.sent
    BY <1>0, <1>12, <2>1 DEF CarrierRefuses, DeviceInv, PhoneRows
  <2>3. Calm(phone[d], q)
    BY <2>2 DEF Calm
  <2>4. PICK st \in {"creation_uncertain", "failed"} : Post(Request(d, st, "keep", FALSE), q)
    BY <1>12, <2>1 DEF CarrierRefuses
  <2>5. UNCHANGED <<multipart, backend, step, reply, handed, causes>>
    BY <1>12 DEF CarrierRefuses
  <2> QED BY <1>0, <2>3, <2>4, <2>5, PostQuiet
<1>13. ASSUME NEW d \in Phones, PhoneStops(d) PROVE DeviceInv'
  <2>1. PICK q \in PhoneRows : q = [phone[d] EXCEPT !.worker = "idle", !.air = FALSE]
    BY <1>0 DEF PhoneRows
  <2>2. /\ q.worker = "idle" /\ ~q.air /\ (q.sent <=> phone[d].sent) /\ (q.done <=> phone[d].done)
        /\ phone[d].air => phone[d].done
    BY <1>0, <2>1 DEF DeviceInv, PhoneRows
  <2>3. /\ phone' = [phone EXCEPT ![d] = q]
        /\ UNCHANGED <<multipart, backend, step, reply, causes>>
        /\ handed' = handed \/ (phone[d].air /\ handed' = handed + 1)
        /\ uplink' = {IF r.by = d THEN GivenUp(r) ELSE r : r \in uplink}
    BY <1>0, <1>13, <2>1 DEF PhoneStops
  <2>4. \A r \in uplink : /\ GivenUp(r) \in Uplinks /\ GivenUp(r).use = "none"
                           /\ GivenUp(r).asks = r.asks /\ GivenUp(r).seen = r.seen
    BY <1>0 DEF GivenUp, Uplinks, Uses
  <2>5. /\ uplink' \subseteq Uplinks
        /\ \A x \in uplink' : \E r \in uplink : x = r \/ x = GivenUp(r)
    BY <1>0, <2>3, <2>4
  <2>6. \A x \in uplink' : Honest(x) /\ Honest(x)'
    BY <1>0, <2>3, <2>4, <2>5 DEF Honest, DeviceInv
  <2>7. CASE handed' = handed
    <3>1. Calm(phone[d], q)
      BY <2>2 DEF Calm
    <3>2. phone' \in [Phones -> PhoneRows] /\ \A e \in Phones : Calm(phone[e], phone'[e])
      BY <2>3, <3>1, OnePhoneCalm
    <3>3. /\ (proof' \/ action' = "sent" => handed > 0) /\ (step'.status = "completed" => handed > 0)
          /\ UNCHANGED <<action, claimant, proof>>
      BY <2>3 DEF DeviceInv, backend
    <3> QED BY <1>0, <2>3, <2>5, <2>6, <2>7, <3>2, <3>3, PhonesCalm
  <2>8. CASE phone[d].air /\ handed' = handed + 1
    BY <2>2, <2>3, <2>5, <2>6, <2>8, HandedOver
  <2> QED BY <2>3, <2>7, <2>8
<1> QED
  BY <1>2, <1>3, <1>5, <1>6, <1>7, <1>8, <1>9, <1>10, <1>11, <1>12, <1>13, Committed
  DEF DeviceNext

LEMMA DeviceInvariant == ASSUME DeviceAssumption PROVE DeviceSpec => []DeviceInv
<1>1. DeviceInv /\ UNCHANGED deviceVars => DeviceInv'
  BY DEF DeviceInv, DeviceTypeOK, Honest, deviceVars
<1> QED BY <1>1, DeviceInitInv, DeviceStep, PTL DEF DeviceSpec

\* The action, its claim, the requests and the phones' preferences keep their types.
THEOREM DeviceTypes == ASSUME DeviceAssumption PROVE DeviceSpec => []DeviceTypeOK
BY DeviceInvariant, PTL DEF DeviceInv

\* What is known to be sent becomes retryable only with a cause on record.
LEMMA SentStays ==
  ASSUME DeviceAssumption, DeviceInv, DeviceNext
  PROVE  StaysSent
<1> SUFFICES ASSUME action = "sent", causes' = {}
             PROVE  action' \in {"sent", "creation_uncertain"}
  BY DEF StaysSent
<1>0. handed > 0 /\ causes \subseteq causes' /\ NoPhone \notin Phones
  BY DEF DeviceInv, DeviceAssumption, DeviceNext, ExecuteStep, FindFailed, RetryFailedAction,
         CloseStep, LoseAnswer, DropRequest, ApplyResult, ApplyClaim, FetchAction, ClaimAction,
         MarkExecuted, SendSms, RepostSent, RepostStored, ReceiverReplies, ReceiverFails,
         CarrierTakes, CarrierRefuses, PhoneStops, backend
<1>1. claimant \in Phones /\ causes = {}
  BY <1>0 DEF DeviceInv
<1>2. ASSUME NEW r \in uplink, ApplyResult(r)
      PROVE  action' \in {"sent", "creation_uncertain"}
  <2>1. r.asks \in {"sent", "failed", "creation_uncertain"}
    BY <1>2 DEF ApplyResult, DeviceInv, DeviceTypeOK, Uplinks, Asked
  <2>2. r.asks = "failed" => r.seen = "sent"
    BY <1>0, <1>2 DEF ApplyResult, Underway
  <2> QED BY <1>2, <2>1, <2>2 DEF ApplyResult
<1>3. ASSUME NEW r \in uplink, ApplyClaim(r) PROVE action' = "sent"
  BY <1>0, <1>1, <1>3 DEF ApplyClaim
<1>4. RetryFailedAction => FALSE
  BY DEF RetryFailedAction
<1>5. ExecuteStep \/ FindFailed \/ CloseStep => action' = "sent"
  BY DEF ExecuteStep, FindFailed, CloseStep, backend
<1>6. ASSUME NEW r \in uplink, LoseAnswer(r) \/ DropRequest(r) PROVE action' = "sent"
  BY <1>6 DEF LoseAnswer, DropRequest, backend
<1>7. ASSUME NEW d \in Phones,
             FetchAction(d) \/ ClaimAction(d) \/ MarkExecuted(d) \/ SendSms(d) \/ RepostSent(d)
             \/ RepostStored(d) \/ ReceiverReplies(d) \/ ReceiverFails(d)
             \/ CarrierTakes(d) \/ CarrierRefuses(d) \/ PhoneStops(d)
      PROVE  action' = "sent"
  BY <1>7 DEF FetchAction, ClaimAction, MarkExecuted, SendSms, RepostSent, RepostStored,
              ReceiverReplies, ReceiverFails, CarrierTakes, CarrierRefuses, PhoneStops, backend
<1> QED BY <1>2, <1>3, <1>4, <1>5, <1>6, <1>7 DEF DeviceNext

\* With requests that are lost, late and committed from stale rows, an SMS goes out
\* again, and what was taken is retried, only after one of the causes on record; its step
\* is completed only when the carrier took it: for any number of phones and tries.
THEOREM SmsRepeatsHaveACause == ASSUME DeviceAssumption PROVE DeviceSpec => SmsRepeatsAreCaused
<1>1. DeviceInv => SentOnce
  BY DEF DeviceInv, DeviceTypeOK, SentOnce
<1>2. DeviceInv /\ [DeviceNext]_deviceVars => [StaysSent]_deviceVars
  BY SentStays
<1> QED BY <1>1, <1>2, DeviceInvariant, PTL DEF DeviceSpec, SmsRepeatsAreCaused

-----------------------------------------------------------------------------
(***************************************************************************)
(* Telephone calls                                                         *)
(***************************************************************************)

\* A verdict "verified", wherever a row is held, was confirmed by the counterparty; the
\* next attempt exists only when the call is over and no turn is being decided; and a
\* call is dialed by the one request of the session that created its row.
CallInv ==
  /\ CallTypeOK
  /\ dialer \in {"creating", "dispatching"} => dialed = 0
  /\ dialed <= 1
  /\ dialed > 0 <=> line # "none"
  /\ call.verdict = "verified" \/ reader.verdict = "verified" => confirmed
  /\ \A h \in Turns : turn[h].verdict = "verified" => confirmed
  /\ redialed => /\ call.verdict = "unverified" /\ line \in Endings
                 /\ \A h \in Turns : turn[h] = NoCall
  /\ errand = "completed" => confirmed

CallLines == {"none", "ringing", "in-progress"} \cup Endings

\* A session that saves a row it has loaded writes the columns that it changed.
LEMMA SaveCallFacts ==
  ASSUME NEW old \in CallRows, NEW new \in CallRows, call \in CallRows, SaveCall(old, new)
  PROVE  /\ call' \in CallRows
         /\ call'.verdict \in {call.verdict, new.verdict}
         /\ old.verdict = new.verdict => call'.verdict = call.verdict
<1>1. DOMAIN new = {"status", "bound", "ended", "retry", "seq", "verdict"}
  BY DEF CallRows
<1>2. call' = [c \in {"status", "bound", "ended", "retry", "seq", "verdict"} |->
                 IF new[c] # old[c] THEN new[c] ELSE call[c]]
  BY <1>1 DEF SaveCall
<1>3. call'.verdict = IF new.verdict # old.verdict THEN new.verdict ELSE call.verdict
  BY <1>2
<1>4. call' = [status |-> call'.status, bound |-> call'.bound, ended |-> call'.ended,
               retry |-> call'.retry, seq |-> call'.seq, verdict |-> call'.verdict]
  BY <1>2
<1>5. /\ call'.status = IF new.status # old.status THEN new.status ELSE call.status
      /\ call'.bound = IF new.bound # old.bound THEN new.bound ELSE call.bound
      /\ call'.ended = IF new.ended # old.ended THEN new.ended ELSE call.ended
      /\ call'.retry = IF new.retry # old.retry THEN new.retry ELSE call.retry
      /\ call'.seq = IF new.seq # old.seq THEN new.seq ELSE call.seq
  BY <1>2
<1>6. call' \in CallRows
  BY <1>3, <1>4, <1>5 DEF CallRows
<1> QED BY <1>3, <1>6

\* Binding an id and applying a status of the provider say nothing about the verdict.
LEMMA BoundFacts ==
  ASSUME NEW row \in CallRows
  PROVE  Bound(row) \in CallRows /\ Bound(row).verdict = row.verdict
BY DEF Bound, CallRows

LEMMA ReportedFacts ==
  ASSUME NEW row \in CallRows, NEW report, mayRetry \in BOOLEAN
  PROVE  Reported(row, report) \in CallRows /\ Reported(row, report).verdict = row.verdict
<1> DEFINE again == IF row.verdict = "needs_user" THEN row.retry
                    ELSE (row.retry \/ (report = "busy" /\ mayRetry)) /\ report # "failed"
           over == report \in Endings
<1>0. row.retry \in BOOLEAN
  BY DEF CallRows
<1>1. again \in BOOLEAN /\ over \in BOOLEAN
  <2>1. CASE row.verdict = "needs_user"
    BY <1>0, <2>1
  <2>2. CASE row.verdict # "needs_user"
    BY <2>2
  <2> QED BY <2>1, <2>2
<1>2. Reported(row, report) =
        [row EXCEPT !.status = "later", !.ended = over, !.retry = again]
  BY DEF Reported, CallRows
<1> HIDE DEF again, over
<1> QED BY <1>1, <1>2 DEF CallRows

LEMMA ErrandFacts ==
  ASSUME NEW row \in CallRows, NEW report, errand \in Errands
  PROVE  /\ ErrandAfter(row, report) \in Errands
         /\ ErrandAfter(row, report) = "completed" =>
              errand = "completed" \/ row.verdict = "verified"
BY DEF ErrandAfter, Errands

LEMMA CallInitInv == CallInit => CallInv
<1> SUFFICES ASSUME CallInit PROVE CallInv
  OBVIOUS
<1>1. NoCall \in CallRows /\ NoCall.verdict = "unverified"
  BY DEF NoCall, CallRows
<1>2. call \in CallRows /\ call.verdict = "unverified"
  BY <1>1 DEF CallInit, NoCall, CallRows
<1>3. CallTypeOK
  BY <1>1, <1>2 DEF CallInit, CallTypeOK, Errands
<1> QED BY <1>1, <1>2, <1>3 DEF CallInit, CallInv

\* A step that writes the row and the errand as the rows in hand allow, and takes no
\* turn, moves no line and dials nothing.
LEMMA RowWritten ==
  ASSUME CallInv, call' \in CallRows, call'.verdict = call.verdict,
         errand' \in Errands, errand' = "completed" => confirmed,
         reader' \in CallRows, reader'.verdict = "verified" => confirmed,
         UNCHANGED <<mayRetry, turn, line, dialed, redialed, confirmed>>,
         dialer' \in {"idle", "creating", "dispatching", "placed", "refused"},
         dialer' \in {"creating", "dispatching"} => dialer \in {"creating", "dispatching"}
  PROVE  CallInv'
<1>1. CallTypeOK'
  BY DEF CallInv, CallTypeOK
<1> QED BY <1>1 DEF CallInv

LEMMA CallStep ==
  ASSUME CallInv, CallNext
  PROVE  CallInv'
<1>0. /\ call \in CallRows /\ reader \in CallRows /\ turn \in [Turns -> CallRows]
      /\ {mayRetry, redialed, confirmed} \subseteq BOOLEAN /\ mayRetry \in BOOLEAN
      /\ errand \in Errands /\ dialed \in Nat /\ line \in CallLines
      /\ dialer \in {"idle", "creating", "dispatching", "placed", "refused"}
      /\ reader.verdict = "verified" => confirmed
      /\ call.verdict = "verified" => confirmed
      /\ errand = "completed" => confirmed
      /\ \A h \in Turns : turn[h].verdict = "verified" => confirmed
  BY DEF CallInv, CallTypeOK, CallLines
<1>1. CASE Dispatch
  <2>1. PICK st \in {"dispatching", "later"} : call' = [call EXCEPT !.status = st]
    BY <1>1 DEF Dispatch
  <2>2. call' \in CallRows /\ call'.verdict = call.verdict
    BY <1>0, <2>1 DEF CallRows
  <2> QED BY <1>0, <1>1, <2>2, RowWritten DEF Dispatch, Errands
<1>2. CASE PlaceCall
  BY <1>0, <1>2 DEF PlaceCall, CallInv, CallTypeOK, CallLines, Endings
<1>3. CASE EndDispatch
  <2>1. call' \in CallRows /\ call'.verdict = call.verdict
    BY <1>0, <1>3 DEF EndDispatch, CallRows
  <2> QED BY <1>0, <1>3, <2>1, RowWritten DEF EndDispatch, Errands
<1>4. CASE DialerDies
  BY <1>0, <1>4, RowWritten DEF DialerDies
<1>5. CASE LineMoves
  BY <1>0, <1>5 DEF LineMoves, CallInv, CallTypeOK, CallLines, Endings
<1>6. CASE StatusCallback
  <2>1. PICK r \in Reports :
          LET row == Bound(call) IN
          IF r[1] < row.seq THEN call' = row /\ UNCHANGED errand
          ELSE /\ call' = [Reported(row, r[2]) EXCEPT !.seq = r[1]]
               /\ errand' = ErrandAfter(row, r[2])
    BY <1>6 DEF StatusCallback
  <2>2. PICK row \in CallRows : row = Bound(call) /\ row.verdict = call.verdict
    BY <1>0, BoundFacts
  <2>3. PICK new \in CallRows : new = Reported(row, r[2]) /\ new.verdict = call.verdict
    BY <1>0, <2>2, ReportedFacts
  <2>4. r[1] \in 0..2
    BY DEF Reports
  <2>5. [new EXCEPT !.seq = r[1]] \in CallRows
        /\ [new EXCEPT !.seq = r[1]].verdict = call.verdict
    BY <2>3, <2>4 DEF CallRows
  <2>6. call' \in CallRows /\ call'.verdict = call.verdict
    BY <2>1, <2>2, <2>3, <2>5
  <2>7. errand' \in Errands /\ (errand' = "completed" => confirmed)
    BY <1>0, <2>1, <2>2, ErrandFacts
  <2> QED BY <1>0, <1>6, <2>6, <2>7, RowWritten DEF StatusCallback
<1>7. CASE VoiceWebhook
  <2>1. PICK row \in CallRows : row = Bound(call) /\ row.verdict = call.verdict
    BY <1>0, BoundFacts
  <2>2. call' \in CallRows /\ call'.verdict = call.verdict
    BY <1>7, <2>1 DEF VoiceWebhook, CallRows
  <2> QED BY <1>0, <1>7, <2>2, RowWritten DEF VoiceWebhook
<1>8. ASSUME NEW h \in Turns, TakeTurn(h) PROVE CallInv'
  <2>1. PICK row \in CallRows : row = Bound(call) /\ row.verdict = call.verdict
    BY <1>0, BoundFacts
  <2>2. PICK mine \in CallRows :
          /\ mine = [row EXCEPT !.seq = 0, !.ended = FALSE] /\ mine.verdict = call.verdict
    <3>1. ASSUME NEW n \in 0..2
          PROVE  /\ [row EXCEPT !.seq = n, !.ended = FALSE] \in CallRows
                 /\ [row EXCEPT !.seq = n, !.ended = FALSE].verdict = row.verdict
      BY DEF CallRows
    <3>2. 0 \in 0..2
      OBVIOUS
    <3>3. /\ [row EXCEPT !.seq = 0, !.ended = FALSE] \in CallRows
          /\ [row EXCEPT !.seq = 0, !.ended = FALSE].verdict = row.verdict
      BY <3>1, <3>2
    <3> QED BY <2>1, <3>3
  <2>3. call' = row /\ turn' = [turn EXCEPT ![h] = mine] /\ line = "in-progress"
        /\ UNCHANGED <<mayRetry, errand, dialer, reader, line, dialed, redialed, confirmed>>
    BY <1>8, <2>1, <2>2 DEF TakeTurn
  <2>4. /\ turn' \in [Turns -> CallRows] /\ turn'[h] = mine
        /\ \A g \in Turns \ {h} : turn'[g] = turn[g]
    BY <1>0, <2>3
  <2>5. CallTypeOK'
    BY <2>3, <2>4 DEF CallInv, CallTypeOK
  <2>6. ~redialed
    BY <2>3 DEF CallInv, Endings
  <2> QED BY <1>0, <2>1, <2>2, <2>3, <2>4, <2>5, <2>6 DEF CallInv
<1>9. ASSUME NEW h \in Turns, DecideTurn(h) PROVE CallInv'
  <2>0. PICK old \in CallRows : old = turn[h]
    BY <1>0
  <2>1. /\ old # NoCall /\ turn' = [turn EXCEPT ![h] = NoCall]
        /\ UNCHANGED <<mayRetry, dialer, reader, line, dialed, redialed>>
    BY <1>9, <2>0 DEF DecideTurn
  <2>2. PICK row \in CallRows :
          /\ row = [old EXCEPT !.status = "later"] /\ row.verdict = old.verdict
    <3>1. /\ [old EXCEPT !.status = "later"] \in CallRows
          /\ [old EXCEPT !.status = "later"].verdict = old.verdict
      BY DEF CallRows
    <3> QED BY <3>1
  <2>3. NoCall \in CallRows /\ NoCall.verdict = "unverified"
    BY DEF NoCall, CallRows
  <2>4. /\ turn' \in [Turns -> CallRows]
        /\ \A g \in Turns : turn'[g] \in {turn[g], NoCall}
    BY <1>0, <2>1, <2>3
  <2>5. ~redialed
    BY <2>0, <2>1 DEF CallInv
  <2>6. /\ call' \in CallRows /\ (confirmed => confirmed') /\ confirmed' \in BOOLEAN
        /\ call'.verdict = "verified" => confirmed'
        /\ errand' \in Errands /\ (errand' = "completed" => confirmed')
    <3>1. CASE /\ SaveCall(old, [row EXCEPT !.verdict = "needs_user", !.retry = FALSE])
               /\ errand' = "needs_user" /\ UNCHANGED confirmed
      <4>1. PICK new \in CallRows :
              /\ new = [row EXCEPT !.verdict = "needs_user", !.retry = FALSE]
              /\ new.verdict = "needs_user"
        <5>1. /\ [row EXCEPT !.verdict = "needs_user", !.retry = FALSE] \in CallRows
              /\ [row EXCEPT !.verdict = "needs_user", !.retry = FALSE].verdict = "needs_user"
          BY DEF CallRows
        <5> QED BY <5>1
      <4> QED BY <1>0, <3>1, <4>1, SaveCallFacts DEF Errands
    <3>2. CASE /\ SaveCall(old, [row EXCEPT !.verdict = "verified", !.retry = FALSE])
               /\ errand' = "completed" /\ confirmed' = TRUE
      <4>1. PICK new \in CallRows :
              new = [row EXCEPT !.verdict = "verified", !.retry = FALSE]
        BY DEF CallRows
      <4> QED BY <1>0, <3>2, <4>1, SaveCallFacts DEF Errands
    <3>3. ASSUME NEW again \in {row.retry, mayRetry},
                 SaveCall(old, [row EXCEPT !.retry = again]),
                 errand' \in {errand, "open", "stopped"}, UNCHANGED confirmed
          PROVE  <2>6
      <4>1. again \in BOOLEAN
        BY <1>0 DEF CallRows
      <4>2. PICK new \in CallRows :
              new = [row EXCEPT !.retry = again] /\ new.verdict = old.verdict
        <5>1. /\ [row EXCEPT !.retry = again] \in CallRows
              /\ [row EXCEPT !.retry = again].verdict = row.verdict
          BY <4>1 DEF CallRows
        <5> QED BY <2>2, <5>1
      <4> QED BY <1>0, <3>3, <4>2, SaveCallFacts DEF Errands
    <3> QED BY <1>9, <2>0, <2>2, <3>1, <3>2, <3>3 DEF DecideTurn
  <2>7. CallTypeOK'
    BY <2>1, <2>4, <2>6 DEF CallInv, CallTypeOK
  <2> QED BY <1>0, <2>1, <2>3, <2>4, <2>5, <2>6, <2>7 DEF CallInv
<1>10. ASSUME NEW h \in Turns, TurnDies(h) PROVE CallInv'
  <2>1. NoCall \in CallRows /\ NoCall.verdict = "unverified"
    BY DEF NoCall, CallRows
  <2>2. /\ turn' \in [Turns -> CallRows]
        /\ \A g \in Turns : turn'[g] \in {turn[g], NoCall}
    BY <1>0, <1>10, <2>1 DEF TurnDies
  <2>3. UNCHANGED <<call, mayRetry, errand, dialer, reader, line, dialed, redialed, confirmed>>
    BY <1>10 DEF TurnDies
  <2>4. CallTypeOK'
    BY <2>2, <2>3 DEF CallInv, CallTypeOK
  <2> QED BY <1>0, <2>1, <2>2, <2>3, <2>4 DEF CallInv
<1>11. CASE MarkInterrupted
  <2>1. call' \in CallRows /\ call'.verdict = call.verdict
    BY <1>0, <1>11 DEF MarkInterrupted, CallRows
  <2> QED BY <1>0, <1>11, <2>1, RowWritten DEF MarkInterrupted, Errands
<1>12. CASE ReadCall
  <2>1. reader' \in CallRows /\ reader'.verdict = call.verdict
    BY <1>0, <1>12 DEF ReadCall, CallRows
  <2> QED BY <1>0, <1>12, <2>1, RowWritten DEF ReadCall
<1>13. CASE ReconcileCall
  <2>0. NoCall \in CallRows /\ NoCall.verdict = "unverified"
    BY DEF NoCall, CallRows
  <2>1. PICK row \in CallRows : row = Bound(reader) /\ row.verdict = reader.verdict
    BY <1>0, BoundFacts
  <2>2. PICK new \in CallRows : new = Reported(row, line) /\ new.verdict = reader.verdict
    BY <1>0, <2>1, ReportedFacts
  <2>3. \/ SaveCall(reader, new) /\ errand' = ErrandAfter(reader, line)
        \/ UNCHANGED call /\ errand' \in {errand, "open"}
    BY <1>13, <2>1, <2>2 DEF ReconcileCall
  <2>4. call' \in CallRows /\ call'.verdict = call.verdict
    BY <1>0, <2>2, <2>3, SaveCallFacts
  <2>5. errand' \in Errands /\ (errand' = "completed" => confirmed)
    BY <1>0, <2>3, ErrandFacts DEF Errands
  <2> QED BY <1>0, <1>13, <2>0, <2>4, <2>5, RowWritten DEF ReconcileCall
<1>14. CASE RetryCall
  <2>1. call' \in CallRows /\ call'.verdict = "unverified" /\ call.verdict = "unverified"
    BY <1>0, <1>14 DEF RetryCall, RetryDue, CallRows
  <2>2. /\ redialed' = TRUE /\ line \in Endings /\ \A h \in Turns : turn[h] = NoCall
        /\ UNCHANGED <<mayRetry, errand, dialer, turn, reader, line, dialed, confirmed>>
    BY <1>14 DEF RetryCall
  <2>3. CallTypeOK'
    BY <2>1, <2>2 DEF CallInv, CallTypeOK
  <2> QED BY <1>0, <2>1, <2>2, <2>3 DEF CallInv
<1> QED
  BY <1>1, <1>2, <1>3, <1>4, <1>5, <1>6, <1>7, <1>8, <1>9, <1>10, <1>11, <1>12, <1>13, <1>14
  DEF CallNext

LEMMA CallInvariant == CallSpec => []CallInv
<1>1. CallInv /\ UNCHANGED callVars => CallInv'
  BY DEF CallInv, CallTypeOK, callVars
<1> QED BY <1>1, CallInitInv, CallStep, PTL DEF CallSpec

\* The rows that the sessions hold of a call, the errand and the line keep their types.
THEOREM CallTypes == CallSpec => []CallTypeOK
BY CallInvariant, PTL DEF CallInv

\* No attempt is dialed twice, an errand that its call has settled is not dialed again,
\* and one is completed only when the counterparty confirmed it: for any number of
\* turns decided at once, in whatever order callbacks, answers and reconciliations write.
THEOREM CallIsNotRedialed == CallSpec => []NoRedialAfterOutcome
<1>1. CallInv => NoRedialAfterOutcome
  BY DEF CallInv, NoRedialAfterOutcome
<1> QED BY <1>1, CallInvariant, PTL

-----------------------------------------------------------------------------
(***************************************************************************)
(* Calendar bookings                                                       *)
(***************************************************************************)

Events == [is : {"absent", "wanted", "other", "cancelled"}, etag : Nat, answered : BOOLEAN]
BookStates == {"none", "pending", "submitting", "submitted", "verified",
               "creation_uncertain", "failed", "failed_user", "needs_user_conflict"}
Couriers == [pc : {"idle", "looking", "relooking", "resending", "submitting", "calling"},
             verifying : BOOLEAN, seen : Events,
             answer : {"none", "done", "exists", "gone", "refused"}]
BookingRows == [status : BookStates, tries : Nat, etag : Nat]
Requests == [try : Nat, etag : Nat]

\* Versions only grow on their way from the event over a look at it and the row to a
\* request; who looks at an event that was not to be created, or writes to it, knows
\* a version; what was found as wanted, or gone, was so; and an event that the VA
\* created is its own wherever it is mirrored.
BookingInv ==
  /\ kind \in Operations /\ event \in Events /\ booking \in BookingRows
  /\ courier \in Couriers /\ requests \subseteq Requests /\ mirror \in Mirrors
  /\ fetched \in Events /\ inserts \in Nat
  /\ booking.etag <= event.etag
  /\ courier.pc \in {"looking", "resending"} =>
       booking.etag <= courier.seen.etag /\ courier.seen.etag <= event.etag
  /\ \A r \in requests : r.etag <= booking.etag
  /\ kind # "create" =>
       /\ event.etag > 0 /\ event.is # "absent"
       /\ courier.pc \in {"looking", "resending"} =>
            courier.seen.etag > 0 /\ courier.seen.is # "absent"
       /\ courier.pc = "submitting" => booking.etag > 0
       /\ \A r \in requests : r.etag > 0
  /\ AsWanted(event) => held
  /\ courier.pc \in {"looking", "resending"} /\ AsWanted(courier.seen) => held
  /\ courier.answer = "gone" => held
  /\ booking.status = "verified" => held
  /\ inserts > 0 => event.is # "absent"
  /\ inserts <= 1 /\ ~blind
  /\ requests = {} \/ booking.status # "none"
  /\ courier.pc # "idle" => booking.status # "none"
  /\ kind = "create" =>
       /\ event = Absent \/ booking.status # "none"
       /\ fetched = Absent \/ booking.status # "none"
       /\ mirror.known => mirror.owned
       /\ mirror.answered => mirror.known
       /\ mirror.owned /\ mirror.answered => recorded # {}

\* Mirroring an event as the VA's own records its attendees' answer.
LEMMA UpsertFacts ==
  ASSUME NEW item \in Events, NEW owned \in BOOLEAN, mirror \in Mirrors,
         Upsert(item, owned)
  PROVE  /\ mirror' \in Mirrors
         /\ mirror'.known /\ (mirror'.owned <=> mirror.owned \/ owned)
         /\ mirror'.answered <=> item.answered
         /\ recorded \subseteq recorded'
         /\ mirror'.owned /\ mirror'.answered /\ ~(mirror.known /\ mirror.answered) =>
              recorded' # {}
<1> DEFINE newly == item.answered /\ ~(mirror.known /\ mirror.answered)
<1>1. mirror' = [known |-> TRUE, owned |-> mirror.owned \/ owned, answered |-> item.answered]
  BY DEF Upsert
<1>2. item.answered \in BOOLEAN /\ mirror.owned \in BOOLEAN
  BY DEF Events, Mirrors
<1>3. mirror' \in Mirrors /\ mirror'.known /\ (mirror'.owned <=> mirror.owned \/ owned)
      /\ (mirror'.answered <=> item.answered)
  BY <1>1, <1>2 DEF Mirrors
<1>4. recorded' = IF mirror'.owned /\ newly THEN recorded \cup {item.etag} ELSE recorded
  BY DEF Upsert
<1> QED BY <1>3, <1>4

LEMMA RestIsCourier == CourierAtRest \in Couriers /\ Absent \in Events
BY DEF CourierAtRest, Couriers, Absent, Events

LEMMA BookingInitInv == ASSUME BookingInit PROVE BookingInv
<1>1. event \in Events /\ ~AsWanted(event)
  BY DEF BookingInit, Events, Absent, AsWanted, Operations
<1>2. booking \in BookingRows /\ mirror \in Mirrors
  BY DEF BookingInit, BookingRows, BookStates, Mirrors
<1>3. booking.etag = 0 /\ booking.status = "none" /\ ~mirror.known /\ ~mirror.answered
  BY DEF BookingInit
<1>4. courier.pc = "idle" /\ courier.answer = "none" /\ courier \in Couriers
      /\ fetched \in Events
  BY RestIsCourier DEF BookingInit, CourierAtRest
<1>5. CASE kind = "create"
  BY <1>1, <1>2, <1>3, <1>4, <1>5 DEF BookingInit, BookingInv, Absent
<1>6. CASE kind # "create"
  BY <1>1, <1>2, <1>3, <1>4, <1>6 DEF BookingInit, BookingInv
<1> QED BY <1>5, <1>6

\* The core's own steps leave the event and its history alone. They keep the invariant
\* when the courier, the row and the mirror that they leave behind fit together.
LEMMA CourierQuiet ==
  ASSUME BookingInv, booking' \in BookingRows, courier' \in Couriers,
         UNCHANGED <<kind, event, fetched, inserts, held, blind>>,
         requests' \subseteq requests,
         booking.etag <= booking'.etag, booking'.etag <= event.etag,
         courier'.pc \in {"looking", "resending"} =>
           /\ booking'.etag <= courier'.seen.etag /\ courier'.seen.etag <= event.etag
           /\ kind # "create" => courier'.seen.etag > 0 /\ courier'.seen.is # "absent"
           /\ AsWanted(courier'.seen) => held,
         kind # "create" /\ courier'.pc = "submitting" => booking'.etag > 0,
         courier'.answer = "gone" => held,
         booking'.status = "verified" => held,
         booking'.status = "none" => booking.status = "none" /\ courier'.pc = "idle",
         \/ UNCHANGED <<mirror, recorded>>
         \/ \E item \in Events : Upsert(item, TRUE)
  PROVE  BookingInv'
<1>0. /\ booking \in BookingRows /\ courier \in Couriers /\ event \in Events
      /\ requests \subseteq Requests /\ mirror \in Mirrors
      /\ booking.etag \in Nat /\ booking'.etag \in Nat /\ event.etag \in Nat
      /\ \A r \in requests : r.etag \in Nat /\ r.etag <= booking.etag
  BY DEF BookingInv, BookingRows, Events, Requests
<1>1. \A r \in requests' : r.etag <= booking'.etag
  BY <1>0
<1>2. /\ mirror' \in Mirrors
      /\ kind = "create" => /\ mirror'.known => mirror'.owned
                            /\ mirror'.answered => mirror'.known
                            /\ mirror'.owned /\ mirror'.answered => recorded' # {}
  <2>1. CASE UNCHANGED <<mirror, recorded>>
    BY <2>1 DEF BookingInv
  <2>2. ASSUME NEW item \in Events, Upsert(item, TRUE) PROVE <1>2
    BY <1>0, <2>2, UpsertFacts DEF BookingInv
  <2> QED BY <2>1, <2>2
<1>3. AsWanted(event)' = AsWanted(event) /\ AsWanted(courier.seen)' = AsWanted(courier'.seen)
  BY DEF AsWanted
<1>4. /\ requests' = {} \/ booking'.status # "none"
      /\ courier'.pc # "idle" => booking'.status # "none"
      /\ kind' = "create" =>
           /\ event' = Absent \/ booking'.status # "none"
           /\ fetched' = Absent \/ booking'.status # "none"
  BY DEF BookingInv
<1>5. /\ kind' # "create" =>
           /\ event'.etag > 0 /\ event'.is # "absent"
           /\ \A r \in requests' : r.etag > 0
  BY DEF BookingInv
<1> QED BY <1>0, <1>1, <1>2, <1>3, <1>4, <1>5 DEF BookingInv

\* What is left of a session that has ended, and of one that goes on.
LEMMA CourierFacts ==
  ASSUME courier \in Couriers,
         NEW pc \in {"idle", "looking", "relooking", "resending", "submitting", "calling"},
         courier' = [courier EXCEPT !.pc = pc]
  PROVE  /\ courier' \in Couriers /\ courier'.pc = pc
         /\ courier'.seen = courier.seen /\ courier'.answer = courier.answer
BY DEF Couriers

LEMMA RestFacts ==
  ASSUME courier' = CourierAtRest
  PROVE  courier' \in Couriers /\ courier'.pc = "idle" /\ courier'.answer = "none"
BY RestIsCourier DEF CourierAtRest

\* The row after its status, its version or both have been written.
LEMMA RowStatus ==
  ASSUME booking \in BookingRows, NEW st \in BookStates,
         booking' = [booking EXCEPT !.status = st]
  PROVE  booking' \in BookingRows /\ booking'.etag = booking.etag /\ booking'.status = st
BY DEF BookingRows

LEMMA RowVersion ==
  ASSUME booking \in BookingRows, NEW e \in Nat, booking' = [booking EXCEPT !.etag = e]
  PROVE  booking' \in BookingRows /\ booking'.etag = e /\ booking'.status = booking.status
BY DEF BookingRows

LEMMA RowVerified ==
  ASSUME booking \in BookingRows, NEW e \in Nat,
         booking' = [booking EXCEPT !.status = "verified", !.etag = e]
  PROVE  booking' \in BookingRows /\ booking'.etag = e /\ booking'.status = "verified"
BY DEF BookingRows, BookStates

LEMMA CourierStep ==
  ASSUME BookingInv,
         \/ \E verifying \in BOOLEAN : LookAtEvent(verifying)
         \/ FindBooked \/ FindUnbooked \/ LookAgain \/ EndLookAgain \/ FailToLook
         \/ FindConflict \/ Reject \/ EndCall \/ CourierDies
  PROVE  BookingInv'
<1>0. /\ booking \in BookingRows /\ courier \in Couriers /\ event \in Events
      /\ courier.seen \in Events /\ mirror \in Mirrors /\ courier.seen.etag \in Nat
      /\ booking.etag \in Nat /\ event.etag \in Nat /\ booking.etag <= event.etag
      /\ booking.status \in BookStates
      /\ booking.status = "verified" => held
      /\ courier.answer = "gone" => held
      /\ courier.pc # "idle" => booking.status # "none"
      /\ kind # "create" => event.etag > 0 /\ event.is # "absent"
      /\ AsWanted(event) => held
  BY DEF BookingInv, BookingRows, Couriers, Events
<1>00. courier.pc \in {"looking", "resending"} =>
         /\ booking.etag <= courier.seen.etag /\ courier.seen.etag <= event.etag
         /\ kind # "create" => courier.seen.etag > 0 /\ courier.seen.is # "absent"
         /\ AsWanted(courier.seen) => held
  BY DEF BookingInv
<1>1. ASSUME NEW verifying \in BOOLEAN, LookAtEvent(verifying) PROVE BookingInv'
  <2>1. /\ booking' \in BookingRows /\ booking'.etag = booking.etag
        /\ booking'.status # "none" /\ (booking'.status = "verified" => held)
    <3>1. CASE booking.status = "none"
      <4>1. booking' = [booking EXCEPT !.status = "pending"] /\ "pending" \in BookStates
        BY <1>1, <3>1 DEF LookAtEvent, BookStates
      <4> QED BY <1>0, <4>1, RowStatus
    <3>2. CASE booking.status # "none"
      BY <1>0, <1>1, <3>2 DEF LookAtEvent
    <3> QED BY <3>1, <3>2
  <2>2. /\ courier' \in Couriers /\ courier'.pc = "looking" /\ courier'.seen = event
        /\ courier'.answer = "none"
    BY <1>0, <1>1 DEF LookAtEvent, Couriers
  <2> QED BY <1>0, <1>1, <2>1, <2>2, CourierQuiet DEF LookAtEvent
<1>2. CASE FindBooked
  <2>1. PICK e \in {booking.etag, courier.seen.etag} :
          booking' = [booking EXCEPT !.status = "verified", !.etag = e]
    BY <1>2 DEF FindBooked
  <2>2. /\ booking' \in BookingRows /\ booking'.etag = e /\ booking'.status = "verified"
        /\ booking.etag <= e /\ e <= event.etag
    <3>1. courier.pc = "looking" /\ e \in Nat
      BY <1>0, <1>2, <2>1 DEF FindBooked
    <3>2. booking' \in BookingRows /\ booking'.etag = e /\ booking'.status = "verified"
      BY <1>0, <2>1, <3>1, RowVerified
    <3>3. booking.etag <= e /\ e <= event.etag
      BY <1>0, <1>00, <3>1
    <3> QED BY <3>2, <3>3
  <2>3. courier' = CourierAtRest /\ held
    BY <1>0, <1>00, <1>2 DEF FindBooked, EndStepAs
  <2> QED BY <1>0, <1>2, <2>2, <2>3, RestFacts, CourierQuiet DEF FindBooked
<1>3. CASE FindUnbooked
  <2>1. /\ courier.pc = "looking" /\ booking.status # "verified"
        /\ UNCHANGED <<kind, event, requests, mirror, fetched, recorded, inserts, held, blind>>
        /\ \/ courier.seen = Absent /\ booking' = booking
           \/ courier.seen # Absent /\ booking' = [booking EXCEPT !.etag = courier.seen.etag]
        /\ \/ courier' = CourierAtRest
           \/ courier' = [courier EXCEPT !.pc = "relooking"]
           \/ courier' = [courier EXCEPT !.pc = "submitting"]
    BY <1>3 DEF FindUnbooked
  <2>2. /\ booking' \in BookingRows /\ booking'.status = booking.status
        /\ booking.etag <= booking'.etag /\ booking'.etag <= event.etag
    BY <1>0, <1>00, <2>1, RowVersion
  <2>3. kind # "create" => booking'.etag > 0
    BY <1>0, <1>00, <2>1, RowVersion DEF Absent
  <2>4. /\ courier' \in Couriers /\ courier'.pc \in {"idle", "relooking", "submitting"}
        /\ courier'.answer = "gone" => held
    BY <1>0, <2>1, CourierFacts, RestFacts
  <2> QED BY <1>0, <2>1, <2>2, <2>3, <2>4, CourierQuiet
<1>4. CASE LookAgain
  <2>1. /\ courier' \in Couriers /\ courier'.pc = "resending" /\ courier'.seen = event
        /\ courier'.answer = courier.answer /\ courier.pc # "idle"
    BY <1>0, <1>4 DEF LookAgain, Couriers
  <2> QED BY <1>0, <1>4, <2>1, CourierQuiet DEF LookAgain
<1>5. CASE EndLookAgain
  <2>1. CASE AsWanted(courier.seen)
    <3>1. booking' = [booking EXCEPT !.status = "verified", !.etag = courier.seen.etag]
          /\ courier' = CourierAtRest /\ held /\ courier.pc = "resending"
      BY <1>00, <1>5, <2>1 DEF EndLookAgain, EndStepAs
    <3>2. /\ booking' \in BookingRows /\ booking'.etag = courier.seen.etag
          /\ booking'.status = "verified"
      BY <1>0, <3>1, RowVerified
    <3> QED BY <1>0, <1>00, <1>5, <2>1, <3>1, <3>2, RestFacts, CourierQuiet
            DEF EndLookAgain
  <2>2. CASE ~AsWanted(courier.seen)
    <3>1. /\ courier.pc = "resending"
          /\ UNCHANGED <<kind, event, requests, mirror, fetched, recorded, inserts, held, blind>>
          /\ \/ courier.seen = Absent /\ booking' = booking
             \/ courier.seen # Absent /\ booking' = [booking EXCEPT !.etag = courier.seen.etag]
          /\ courier' = [courier EXCEPT !.pc = "submitting"]
      BY <1>5, <2>2 DEF EndLookAgain
    <3>2. /\ booking' \in BookingRows /\ booking'.status = booking.status
          /\ booking.etag <= booking'.etag /\ booking'.etag <= event.etag
      BY <1>0, <1>00, <3>1, RowVersion
    <3>3. kind # "create" => booking'.etag > 0
      BY <1>0, <1>00, <3>1, RowVersion DEF Absent
    <3>4. /\ courier' \in Couriers /\ courier'.pc = "submitting"
          /\ courier'.answer = "gone" => held
      BY <1>0, <3>1, CourierFacts
    <3> QED BY <1>0, <3>1, <3>2, <3>3, <3>4, CourierQuiet
  <2> QED BY <2>1, <2>2
<1>6. CASE FailToLook
  <2>1. /\ courier.pc # "idle"
        /\ UNCHANGED <<kind, event, requests, mirror, fetched, recorded, inserts, held, blind>>
        /\ \/ /\ \/ UNCHANGED booking
                 \/ \E st \in {"failed_user", "failed"} :
                      booking' = [booking EXCEPT !.status = st]
              /\ courier' = CourierAtRest
           \/ UNCHANGED booking /\ courier' = [courier EXCEPT !.pc = "relooking"]
    BY <1>6 DEF FailToLook, ToOwner, GiveUp, EndStepAs
  <2>2. /\ booking' \in BookingRows /\ booking'.etag = booking.etag
        /\ booking'.status = "verified" => held
        /\ booking'.status # "none"
    BY <1>0, <2>1, RowStatus DEF BookStates
  <2>3. /\ courier' \in Couriers /\ courier'.pc \in {"idle", "relooking"}
        /\ courier'.answer = "gone" => held
    BY <1>0, <2>1, CourierFacts, RestFacts
  <2> QED BY <1>0, <2>1, <2>2, <2>3, CourierQuiet
<1>7. CASE FindConflict \/ CourierDies
  <2>1. /\ UNCHANGED <<kind, event, requests, mirror, fetched, recorded, inserts, held, blind>>
        /\ \/ UNCHANGED booking
           \/ booking' = [booking EXCEPT !.status = "needs_user_conflict"]
        /\ courier' = CourierAtRest
    BY <1>7 DEF FindConflict, CourierDies, ToOwner, EndStepAs
  <2>2. /\ booking' \in BookingRows /\ booking'.etag = booking.etag
        /\ booking'.status = "verified" => held
        /\ booking'.status = "none" => booking.status = "none"
    BY <1>0, <2>1, RowStatus DEF BookStates
  <2> QED BY <1>0, <2>1, <2>2, RestFacts, CourierQuiet
<1>8. CASE Reject
  <2>1. requests' \subseteq requests /\ courier.pc = "calling"
    BY <1>8 DEF Reject
  <2> QED BY <1>0, <1>8, <2>1, CourierQuiet DEF Reject
<1>9. CASE EndCall
  <2>1. PICK st \in {"submitted", "verified", "failed", "creation_uncertain", "failed_user"} :
          booking' = [booking EXCEPT !.status = st] /\ (st = "verified" => held)
    BY <1>0, <1>9 DEF EndCall, ToOwner
  <2>2. courier' = CourierAtRest
    BY <1>9 DEF EndCall, EndStepAs, ToOwner
  <2>3. /\ booking' \in BookingRows /\ booking'.etag = booking.etag /\ booking'.status = st
    BY <1>0, <2>1, RowStatus DEF BookStates
  <2> QED BY <1>0, <1>9, <2>1, <2>2, <2>3, RestFacts, CourierQuiet DEF EndCall
<1> QED
  BY <1>1, <1>2, <1>3, <1>4, <1>5, <1>6, <1>7, <1>8, <1>9

\* So do the request that is sent and served, the event's other changes, and the sync.
LEMMA EventStep ==
  ASSUME BookingInv, Submit \/ Serve \/ OthersChange \/ FetchEvents \/ MirrorEvents
  PROVE  BookingInv'
<1>0. /\ booking \in BookingRows /\ courier \in Couriers /\ event \in Events
      /\ fetched \in Events /\ requests \subseteq Requests
      /\ courier.seen \in Events /\ mirror \in Mirrors /\ courier.seen.etag \in Nat
      /\ booking.etag \in Nat /\ booking.tries \in Nat /\ event.etag \in Nat
      /\ \A r \in requests : r.etag \in Nat /\ r.etag <= booking.etag
      /\ booking.etag <= event.etag /\ kind \in Operations
  BY DEF BookingInv, BookingRows, Couriers, Events, Requests
<1>1. CASE Submit
  <2>1. booking' \in BookingRows /\ booking'.etag = booking.etag
        /\ booking'.status = "submitting"
    <3>1. PICK n \in Nat : n = booking.tries + 1
      BY <1>0
    <3>2. booking' = [booking EXCEPT !.status = "submitting", !.tries = n]
      BY <1>1, <3>1 DEF Submit
    <3> QED BY <1>0, <3>1, <3>2 DEF BookingRows, BookStates
  <2>2. courier' \in Couriers /\ courier'.pc = "calling" /\ courier'.answer = courier.answer
    BY <1>0, <1>1 DEF Submit, Couriers
  <2>3. PICK n \in Nat : requests' = requests \cup {[try |-> n, etag |-> booking.etag]}
    BY <1>0, <1>1 DEF Submit, IfMatch
  <2>4. /\ requests' \subseteq Requests /\ \A r \in requests' : r.etag <= booking.etag
        /\ kind # "create" => \A r \in requests' : r.etag > 0
    BY <1>0, <1>1, <2>3 DEF Submit, Requests, BookingInv
  <2>5. /\ UNCHANGED <<kind, event, bookStep, mirror, fetched, recorded, inserts, held, blind>>
    BY <1>1 DEF Submit
  <2> QED BY <2>1, <2>2, <2>4, <2>5 DEF BookingInv, AsWanted
<1>2. CASE FetchEvents
  BY <1>0, <1>2 DEF FetchEvents, BookingInv, AsWanted
<1>3. CASE MirrorEvents
  <2>1. /\ fetched' = Absent /\ fetched # Absent
        /\ UNCHANGED <<kind, event, booking, bookStep, courier, requests, inserts, held, blind>>
    BY <1>3 DEF MirrorEvents
  <2>2. PICK owned \in BOOLEAN : owned = (booking.status # "none") /\ Upsert(fetched, owned)
    BY <1>3 DEF MirrorEvents
  <2>3. kind = "create" => owned
    BY <2>1, <2>2 DEF BookingInv
  <2>4. /\ mirror' \in Mirrors
        /\ kind = "create" => /\ mirror'.known => mirror'.owned
                              /\ mirror'.answered => mirror'.known
                              /\ mirror'.owned /\ mirror'.answered => recorded' # {}
    BY <1>0, <2>2, <2>3, UpsertFacts DEF BookingInv
  <2> QED BY <2>1, <2>4, RestIsCourier DEF BookingInv, AsWanted
<1>4. CASE OthersChange
  <2>1. /\ event' \in Events /\ event'.etag = event.etag + 1 /\ event'.is # "absent"
        /\ event.is # "absent"
    <3>1. PICK n \in Nat : n = event.etag + 1
      BY <1>0
    <3>2. \/ \E is \in {"other", "cancelled"} :
               event' = [event EXCEPT !.is = is, !.etag = n]
          \/ event' = [event EXCEPT !.answered = TRUE, !.etag = n]
      BY <1>4, <3>1 DEF OthersChange
    <3>3. event.is \in {"wanted", "other"}
      BY <1>4 DEF OthersChange
    <3> QED BY <1>0, <3>1, <3>2, <3>3 DEF Events
  <2>2. /\ held => held'
        /\ UNCHANGED <<kind, booking, bookStep, courier, requests, mirror, fetched, recorded,
                        inserts, blind>>
    BY <1>4 DEF OthersChange
  <2>3. AsWanted(event)' => held'
    BY <1>4 DEF OthersChange, AsWanted
  <2>4. event # Absent
    BY <2>1 DEF Absent
  <2> QED BY <1>0, <2>1, <2>2, <2>3, <2>4 DEF BookingInv, AsWanted
<1>5. CASE Serve
  <2>1. PICK r \in requests :
          LET found == event.is # "absent"
              matches == r.etag \in {0, event.etag}
              answer(a) == IF courier.pc = "calling" /\ booking.tries = r.try
                           THEN courier' = [courier EXCEPT !.answer = a] ELSE UNCHANGED courier
              change(is) ==
                /\ event' = [is |-> is, etag |-> event.etag + 1, answered |-> event.answered]
                /\ held' = TRUE /\ answer("done")
                /\ blind' = (blind \/ (found /\ booking.etag # event.etag)) IN
          /\ requests' = requests \ {r}
          /\ CASE kind = "create" /\ ~found ->
                    change("wanted") /\ inserts' = inserts + 1
               [] kind = "create" /\ found ->
                    answer("exists") /\ UNCHANGED <<event, inserts, held, blind>>
               [] kind # "create" /\ (event.is = "cancelled" \/ ~matches) ->
                    /\ answer(IF event.is = "cancelled" /\ kind = "cancel" THEN "gone"
                              ELSE "refused")
                    /\ UNCHANGED <<event, inserts, held, blind>>
               [] OTHER ->
                    /\ change(IF kind = "update" THEN "wanted" ELSE "cancelled")
                    /\ UNCHANGED inserts
    BY <1>5 DEF Serve
  <2>2. /\ UNCHANGED <<kind, booking, bookStep, mirror, fetched, recorded>>
        /\ booking.status # "none"
    BY <1>5, <2>1 DEF Serve, BookingInv
  <2>3. ASSUME NEW a \in {"done", "exists", "gone", "refused"},
               courier' = [courier EXCEPT !.answer = a] \/ UNCHANGED courier
        PROVE  /\ courier' \in Couriers /\ courier'.pc = courier.pc
               /\ courier'.seen = courier.seen /\ courier'.answer \in {a, courier.answer}
    BY <1>0, <2>3 DEF Couriers
  <2>4. requests' \subseteq requests
    BY <2>1
  <2>5. \A e : AsWanted(e)' = AsWanted(e)
    BY <2>2 DEF AsWanted
  <2>6. ASSUME UNCHANGED <<event, inserts, held, blind>>, courier' \in Couriers,
               courier'.pc = courier.pc, courier'.seen = courier.seen,
               courier'.answer = "gone" => held
        PROVE  BookingInv'
    BY <1>0, <2>2, <2>4, <2>6 DEF BookingInv, AsWanted
  <2>7. ASSUME NEW is \in {"wanted", "cancelled"},
               event' = [is |-> is, etag |-> event.etag + 1, answered |-> event.answered],
               held' = TRUE, courier' \in Couriers,
               courier'.pc = courier.pc, courier'.seen = courier.seen,
               event.is = "absent" \/ booking.etag = event.etag,
               blind' = (blind \/ (event.is # "absent" /\ booking.etag # event.etag)),
               \/ UNCHANGED inserts
               \/ event.is = "absent" /\ inserts' = inserts + 1
        PROVE  BookingInv'
    <3>1. event' \in Events /\ event'.etag = event.etag + 1 /\ event'.is # "absent"
      BY <1>0, <2>7 DEF Events
    <3>2. ~blind'
      BY <2>7 DEF BookingInv
    <3>3. inserts' \in Nat /\ inserts' <= 1
      BY <2>7 DEF BookingInv
    <3> QED BY <1>0, <2>2, <2>4, <2>7, <3>1, <3>2, <3>3 DEF BookingInv, AsWanted
  <2>8. CASE kind = "create" /\ event.is = "absent"
    BY <2>1, <2>3, <2>7, <2>8
  <2>9. CASE kind = "create" /\ event.is # "absent"
    BY <2>1, <2>3, <2>6, <2>9 DEF BookingInv
  <2>10. CASE kind # "create" /\ (event.is = "cancelled" \/ r.etag \notin {0, event.etag})
    <3>1. PICK a \in {"gone", "refused"} :
            /\ a = "gone" => event.is = "cancelled" /\ kind = "cancel"
            /\ courier' = [courier EXCEPT !.answer = a] \/ UNCHANGED courier
            /\ UNCHANGED <<event, inserts, held, blind>>
      BY <2>1, <2>10
    <3>2. a = "gone" => held
      BY <3>1 DEF BookingInv, AsWanted
    <3> QED BY <2>3, <2>6, <3>1, <3>2 DEF BookingInv
  <2>11. CASE kind # "create" /\ event.is # "cancelled" /\ r.etag \in {0, event.etag}
    <3>1. r.etag > 0
      BY <2>11 DEF BookingInv
    <3>2. booking.etag = event.etag
      BY <1>0, <2>11, <3>1
    <3>3. PICK is \in {"wanted", "cancelled"} :
            /\ event' = [is |-> is, etag |-> event.etag + 1, answered |-> event.answered]
            /\ held' = TRUE
            /\ courier' = [courier EXCEPT !.answer = "done"] \/ UNCHANGED courier
            /\ blind' = (blind \/ (event.is # "absent" /\ booking.etag # event.etag))
            /\ UNCHANGED inserts
      BY <2>1, <2>11
    <3> QED BY <2>3, <2>7, <3>2, <3>3
  <2> QED BY <2>8, <2>9, <2>10, <2>11
<1> QED BY <1>1, <1>2, <1>3, <1>4, <1>5

\* One event is created for a mutation, it is changed only in a version that was looked
\* at, what is verified was in the calendar, and the attendees' answer is recorded:
\* whatever answers are lost and whoever edits, for any number of attempts and edits.
THEOREM BookingIsAsSeen == BookingSpec => []BookedAsSeen
<1>1. BookingInv /\ UNCHANGED bookingVars => BookingInv'
  BY DEF BookingInv, bookingVars, AsWanted
<1>2. BookingInv /\ [BookingNext]_bookingVars => BookingInv'
  BY <1>1, CourierStep, EventStep DEF BookingNext
<1>3. BookingInv => BookedAsSeen
  BY DEF BookingInv, BookedAsSeen
<1> QED BY <1>2, <1>3, BookingInitInv, PTL DEF BookingSpec

\* The event grows by the edits of others, up to their limit, and once for each request
\* that was served. A request is sent by a step that starts afresh, or by a
\* verification that has tries left.
BookingBounds ==
  /\ IsFiniteSet(requests) /\ requests \subseteq [try : 1..MutationTries, etag : Nat]
  /\ Cardinality(requests) <= booking.tries /\ booking.tries <= MutationTries
  /\ event.etag + Cardinality(requests) <= EditLimit + booking.tries
  /\ courier.pc \in {"relooking", "resending", "submitting"} => booking.tries < MutationTries
  /\ courier.pc \in {"relooking", "resending"} => courier.verifying
  /\ courier.pc = "looking" /\ ~courier.verifying => booking.tries = 0
  /\ bookStep \in {"ready", "running", "verifying", "completed", "blocked"}
  /\ bookStep = "ready" => courier.pc = "idle" /\ booking.tries = 0
  /\ courier.seen.etag <= event.etag /\ fetched.etag <= event.etag
  /\ recorded \subseteq 0..event.etag
  /\ held \in BOOLEAN /\ blind \in BOOLEAN

LEMMA BookingTyped == ASSUME BookingAssumption, BookingInv, BookingBounds PROVE BookingTypeOK
<1>1. /\ MutationTries \in Nat /\ EditLimit \in Nat /\ Cardinality(requests) \in Nat
      /\ event.etag \in Nat /\ booking.etag \in Nat /\ booking.tries \in Nat
      /\ courier.seen \in Events /\ fetched \in Events /\ event \in Events
      /\ courier.seen.etag \in Nat /\ fetched.etag \in Nat
  BY FS_CardinalityType DEF BookingAssumption, BookingInv, BookingBounds, Events, BookingRows,
     Couriers
<1>2. \A n \in Nat : n <= event.etag => n \in Versions
  BY <1>1 DEF BookingBounds, Versions
<1>3. event \in EventStates /\ fetched \in EventStates /\ courier.seen \in EventStates
  BY <1>1, <1>2 DEF BookingBounds, Events, EventStates
<1>4. booking \in Bookings
  <2>1. booking \in BookingRows /\ booking.etag \in Versions /\ booking.tries \in 0..MutationTries
    BY <1>1, <1>2 DEF BookingBounds, BookingInv
  <2> QED BY <2>1 DEF BookingRows, Bookings, BookStates
<1>5. requests \subseteq [try : 1..MutationTries, etag : Versions]
  <2> SUFFICES ASSUME NEW r \in requests PROVE r \in [try : 1..MutationTries, etag : Versions]
    OBVIOUS
  <2>1. r \in [try : 1..MutationTries, etag : Nat] /\ r.etag <= event.etag
    BY <1>1 DEF BookingBounds, BookingInv
  <2> QED BY <1>2, <2>1
<1>6. courier \in [pc : {"idle", "looking", "relooking", "resending", "submitting", "calling"},
                   verifying : BOOLEAN, seen : EventStates,
                   answer : {"none", "done", "exists", "gone", "refused"}]
  BY <1>3 DEF BookingInv, Couriers
<1>7. recorded \subseteq Versions
  BY <1>1, <1>2 DEF BookingBounds
<1> QED BY <1>3, <1>4, <1>5, <1>6, <1>7 DEF BookingTypeOK, BookingInv, BookingBounds

LEMMA BoundsInitially == ASSUME BookingAssumption, BookingInit PROVE BookingBounds
<1>1. Cardinality(requests) = 0 /\ IsFiniteSet(requests)
  BY FS_EmptySet DEF BookingInit
<1>2. event.etag \in {0, 1} /\ booking.tries = 0 /\ fetched.etag = 0 /\ courier.seen.etag = 0
  BY DEF BookingInit, Absent, CourierAtRest
<1>3. courier.pc = "idle" /\ bookStep = "ready" /\ ~held /\ ~blind /\ recorded = {} /\ requests = {}
      /\ held \in BOOLEAN /\ blind \in BOOLEAN
  BY DEF BookingInit, CourierAtRest
<1> QED BY <1>1, <1>2, <1>3 DEF BookingBounds, BookingAssumption

\* A step of the core that sends nothing keeps them when it counts no try.
LEMMA BoundsQuiet ==
  ASSUME BookingInv, BookingBounds, BookingInv',
         UNCHANGED <<event, requests, fetched, held, blind>>,
         booking'.tries = booking.tries,
         courier'.pc \in {"relooking", "resending", "submitting"} =>
           booking.tries < MutationTries,
         courier'.pc \in {"relooking", "resending"} => courier'.verifying,
         courier'.pc = "looking" /\ ~courier'.verifying => booking.tries = 0,
         bookStep' \in {"ready", "running", "verifying", "completed", "blocked"},
         bookStep' = "ready" => courier'.pc = "idle" /\ booking.tries = 0,
         courier'.seen.etag <= event.etag,
         \/ recorded' = recorded
         \/ recorded' = recorded \cup {courier.seen.etag}
  PROVE  BookingBounds'
<1>1. courier.seen.etag \in 0..event.etag
  BY DEF BookingInv, BookingBounds, Couriers, Events
<1> QED BY <1>1 DEF BookingBounds

LEMMA UpsertRecords ==
  ASSUME NEW item, NEW owned, Upsert(item, owned)
  PROVE  recorded' = recorded \/ recorded' = recorded \cup {item.etag}
BY DEF Upsert

LEMMA CourierBounds ==
  ASSUME BookingAssumption, BookingInv, BookingBounds, BookingInv',
         \/ \E verifying \in BOOLEAN : LookAtEvent(verifying)
         \/ FindBooked \/ FindUnbooked \/ LookAgain \/ EndLookAgain \/ FailToLook
         \/ FindConflict \/ EndCall \/ CourierDies
  PROVE  BookingBounds'
<1>0. /\ booking \in BookingRows /\ courier \in Couriers /\ event \in Events
      /\ courier.seen \in Events /\ courier.seen.etag \in Nat /\ event.etag \in Nat
      /\ booking.tries \in Nat /\ 0 < MutationTries /\ MutationTries \in Nat
      /\ courier.seen.etag <= event.etag /\ courier.verifying \in BOOLEAN
      /\ bookStep \in {"ready", "running", "verifying", "completed", "blocked"}
      /\ bookStep = "ready" => courier.pc = "idle" /\ booking.tries = 0
      /\ courier.pc \in {"relooking", "resending", "submitting"} => booking.tries < MutationTries
      /\ courier.pc \in {"relooking", "resending"} => courier.verifying
      /\ courier.pc = "looking" /\ ~courier.verifying => booking.tries = 0
  BY DEF BookingAssumption, BookingInv, BookingBounds, BookingRows, Couriers, Events
<1>00. /\ CourierAtRest.pc = "idle" /\ CourierAtRest.seen.etag = 0
  BY DEF CourierAtRest, Absent
<1>1. ASSUME NEW verifying \in BOOLEAN, LookAtEvent(verifying) PROVE BookingBounds'
  <2>1. /\ courier'.pc = "looking" /\ courier'.verifying = verifying /\ courier'.seen = event
        /\ ~verifying => booking.tries = 0
        /\ bookStep' = "running" \/ (verifying /\ bookStep' = "verifying")
        /\ UNCHANGED <<event, requests, fetched, held, blind, recorded>>
    BY <1>0, <1>1 DEF LookAtEvent
  <2>2. booking'.tries = booking.tries
    BY <1>0, <1>1 DEF LookAtEvent, BookingRows
  <2> QED BY <1>0, <2>1, <2>2, BoundsQuiet
<1>2. CASE FindBooked
  <2>1. booking'.tries = booking.tries
    BY <1>0, <1>2 DEF FindBooked, BookingRows
  <2>2. /\ courier' = CourierAtRest /\ bookStep' \in {"completed", "verifying"}
        /\ UNCHANGED <<event, requests, fetched, held, blind>>
    BY <1>2 DEF FindBooked, EndStepAs
  <2>3. recorded' = recorded \/ recorded' = recorded \cup {courier.seen.etag}
    BY <1>2, UpsertRecords DEF FindBooked
  <2> QED BY <1>0, <1>00, <2>1, <2>2, <2>3, BoundsQuiet
<1>3. CASE FindUnbooked
  <2>1. booking'.tries = booking.tries
    BY <1>0, <1>3 DEF FindUnbooked, BookingRows
  <2>2. /\ \/ courier' = CourierAtRest
           \/ /\ courier' = [courier EXCEPT !.pc = "relooking"]
              /\ courier.verifying /\ booking.tries < MutationTries
           \/ courier' = [courier EXCEPT !.pc = "submitting"] /\ ~courier.verifying
        /\ courier.pc = "looking"
        /\ UNCHANGED <<event, bookStep, requests, fetched, held, blind, recorded>>
    BY <1>3 DEF FindUnbooked
  <2>3. /\ courier'.pc \in {"relooking", "resending", "submitting"} => booking.tries < MutationTries
        /\ courier'.pc \in {"relooking", "resending"} => courier'.verifying
        /\ courier'.pc # "looking" /\ courier'.seen.etag <= event.etag
    BY <1>0, <1>00, <2>2 DEF Couriers
  <2> QED BY <1>0, <2>1, <2>2, <2>3, BoundsQuiet
<1>4. CASE LookAgain
  <2>1. /\ courier'.pc = "resending" /\ courier'.verifying = courier.verifying
        /\ courier'.seen = event /\ courier.pc = "relooking"
        /\ UNCHANGED <<event, booking, bookStep, requests, fetched, held, blind, recorded>>
    BY <1>0, <1>4 DEF LookAgain, Couriers
  <2> QED BY <1>0, <2>1, BoundsQuiet
<1>5. CASE EndLookAgain
  <2>1. booking'.tries = booking.tries
    BY <1>0, <1>5 DEF EndLookAgain, BookingRows
  <2>2. /\ \/ courier' = CourierAtRest /\ bookStep' = "completed"
           \/ courier' = [courier EXCEPT !.pc = "submitting"] /\ bookStep' = bookStep
        /\ courier.pc = "resending"
        /\ UNCHANGED <<event, requests, fetched, held, blind>>
    BY <1>5 DEF EndLookAgain, EndStepAs
  <2>3. recorded' = recorded \/ recorded' = recorded \cup {courier.seen.etag}
    BY <1>5, UpsertRecords DEF EndLookAgain
  <2>4. /\ courier'.pc \in {"idle", "submitting"} /\ courier'.seen.etag <= event.etag
    BY <1>0, <1>00, <2>2 DEF Couriers
  <2> QED BY <1>0, <2>1, <2>2, <2>3, <2>4, BoundsQuiet
<1>6. CASE FailToLook
  <2>1. booking'.tries = booking.tries
    BY <1>0, <1>6 DEF FailToLook, ToOwner, GiveUp, BookingRows
  <2>2. /\ \/ /\ courier' = CourierAtRest
              /\ \/ bookStep' \in {"blocked", "verifying"}
                 \/ bookStep' = "ready" /\ courier.pc = "looking" /\ ~courier.verifying
           \/ /\ courier' = [courier EXCEPT !.pc = "relooking"] /\ bookStep' = bookStep
              /\ courier.verifying /\ booking.tries < MutationTries
        /\ courier.pc # "idle"
        /\ UNCHANGED <<event, requests, fetched, held, blind, recorded>>
    BY <1>0, <1>6 DEF FailToLook, ToOwner, GiveUp, EndStepAs
  <2>3. /\ courier'.pc \in {"relooking", "resending", "submitting"} => booking.tries < MutationTries
        /\ courier'.pc \in {"relooking", "resending"} => courier'.verifying
        /\ courier'.pc # "looking" /\ courier'.seen.etag <= event.etag
        /\ courier' = CourierAtRest => courier'.pc = "idle"
    BY <1>0, <1>00, <2>2 DEF Couriers
  <2>4. /\ bookStep' \in {"ready", "running", "verifying", "completed", "blocked"}
        /\ bookStep' = "ready" => courier'.pc = "idle" /\ booking.tries = 0
    BY <1>0, <2>2, <2>3
  <2> QED BY <1>0, <2>1, <2>2, <2>3, <2>4, BoundsQuiet
<1>7. CASE FindConflict \/ EndCall \/ CourierDies
  <2>1. booking'.tries = booking.tries
    BY <1>0, <1>7 DEF FindConflict, EndCall, CourierDies, ToOwner, BookingRows
  <2>2. /\ courier' = CourierAtRest
        /\ bookStep' = bookStep \/ bookStep' \in {"blocked", "verifying"}
        /\ UNCHANGED <<event, requests, fetched, held, blind, recorded>>
    BY <1>7 DEF FindConflict, EndCall, CourierDies, ToOwner, EndStepAs
  <2> QED BY <1>0, <1>00, <2>1, <2>2, BoundsQuiet
<1> QED BY <1>1, <1>2, <1>3, <1>4, <1>5, <1>6, <1>7

LEMMA EventBounds ==
  ASSUME BookingAssumption, BookingInv, BookingBounds, BookingInv',
         Submit \/ Serve \/ Reject \/ OthersChange \/ FetchEvents \/ MirrorEvents
  PROVE  BookingBounds'
<1>0. /\ booking \in BookingRows /\ courier \in Couriers /\ event \in Events
      /\ courier.seen.etag \in Nat /\ event.etag \in Nat /\ fetched.etag \in Nat
      /\ booking.tries \in Nat /\ booking.etag \in Nat
      /\ MutationTries \in Nat /\ EditLimit \in Nat /\ Cardinality(requests) \in Nat
      /\ IsFiniteSet(requests)
  BY FS_CardinalityType
     DEF BookingAssumption, BookingInv, BookingBounds, BookingRows, Couriers, Events
<1>1. CASE Submit
  <2>1. /\ courier.pc = "submitting" /\ booking.tries < MutationTries
        /\ UNCHANGED <<event, bookStep, fetched, recorded, held, blind>>
    BY <1>1 DEF Submit, BookingBounds
  <2>2. booking'.tries = booking.tries + 1
    BY <1>0, <1>1 DEF Submit, BookingRows
  <2>3. courier'.pc = "calling" /\ courier'.seen = courier.seen
    BY <1>0, <1>1 DEF Submit, Couriers
  <2>4. PICK r : /\ requests' = requests \cup {r}
                 /\ r \in [try : 1..MutationTries, etag : Nat]
    <3>1. booking.tries + 1 \in 1..MutationTries
      BY <1>0, <2>1
    <3>2. requests' = requests \cup {[try |-> booking.tries + 1, etag |-> booking.etag]}
      BY <1>1 DEF Submit, IfMatch
    <3> DEFINE new == [try |-> booking.tries + 1, etag |-> booking.etag]
    <3>3. new \in [try : 1..MutationTries, etag : Nat]
      BY <1>0, <3>1
    <3> QED BY <3>2, <3>3
  <2>5. /\ IsFiniteSet(requests') /\ Cardinality(requests') \in Nat
        /\ Cardinality(requests') <= Cardinality(requests) + 1
    BY <1>0, <2>4, FS_AddElement
  <2>6. bookStep # "ready"
    BY <2>1 DEF BookingBounds
  <2> QED BY <1>0, <2>1, <2>2, <2>3, <2>4, <2>5, <2>6 DEF BookingBounds
<1>2. CASE Serve \/ Reject
  <2>1. PICK r \in requests : requests' = requests \ {r}
    BY <1>2 DEF Serve, Reject
  <2>2. /\ IsFiniteSet(requests') /\ Cardinality(requests') = Cardinality(requests) - 1
        /\ Cardinality(requests') \in Nat
    BY <1>0, <2>1, FS_RemoveElement, FS_CardinalityType
  <2>3. UNCHANGED <<booking, bookStep, fetched, recorded>>
    BY <1>2 DEF Serve, Reject
  <2>4. /\ courier'.pc = courier.pc /\ courier'.seen = courier.seen
        /\ courier'.verifying = courier.verifying
    BY <1>0, <1>2 DEF Serve, Reject, Couriers
  <2>5. /\ event'.etag = event.etag \/ event'.etag = event.etag + 1
        /\ held' \in BOOLEAN /\ blind' \in BOOLEAN
    <3>1. CASE Serve
      <4>1. CASE UNCHANGED <<event, held, blind>>
        BY <4>1 DEF BookingBounds
      <4>2. CASE /\ event'.etag = event.etag + 1 /\ held' = TRUE
                 /\ blind' = (blind \/ (event.is # "absent" /\ booking.etag # event.etag))
        BY <4>2 DEF BookingBounds
      <4>3. ASSUME ~UNCHANGED <<event, held, blind>>
            PROVE  /\ \E is \in {"wanted", "cancelled"} :
                        event' = [is |-> is, etag |-> event.etag + 1, answered |-> event.answered]
                   /\ held' = TRUE
                   /\ blind' = (blind \/ (event.is # "absent" /\ booking.etag # event.etag))
        <5>1. CASE kind = "create"
          BY <3>1, <4>3, <5>1 DEF Serve
        <5>2. CASE kind # "create"
          BY <3>1, <4>3, <5>2 DEF Serve
        <5> QED BY <5>1, <5>2
      <4>4. CASE ~UNCHANGED <<event, held, blind>>
        BY <4>2, <4>3, <4>4
      <4> QED BY <4>1, <4>4
    <3>2. CASE Reject
      BY <3>2 DEF Reject, BookingBounds
    <3> QED BY <1>2, <3>1, <3>2
  <2> QED BY <1>0, <2>1, <2>2, <2>3, <2>4, <2>5 DEF BookingBounds
<1>3. CASE OthersChange
  <2>1. event.etag < EditLimit /\ event'.etag = event.etag + 1
    BY <1>0, <1>3 DEF OthersChange, Events
  <2>2. /\ held' \in BOOLEAN
        /\ UNCHANGED <<booking, bookStep, courier, requests, fetched, recorded, blind>>
    BY <1>3 DEF OthersChange, BookingBounds, AsWanted
  <2> QED BY <1>0, <2>1, <2>2 DEF BookingBounds
<1>4. CASE FetchEvents
  BY <1>0, <1>4 DEF FetchEvents, BookingBounds
<1>5. CASE MirrorEvents
  <2>1. /\ recorded' = recorded \/ recorded' = recorded \cup {fetched.etag}
        /\ fetched'.etag = 0
        /\ UNCHANGED <<event, booking, bookStep, courier, requests, held, blind>>
    BY <1>5, UpsertRecords DEF MirrorEvents, Absent
  <2>2. fetched.etag \in 0..event.etag /\ 0 <= event.etag
    BY <1>0 DEF BookingBounds
  <2> QED BY <2>1, <2>2 DEF BookingBounds
<1> QED BY <1>1, <1>2, <1>3, <1>4, <1>5

\* The tables of a booking hold what they may, and its versions and tries stay within
\* their bounds: for any number of attempts and edits.
THEOREM BookingTypes == ASSUME BookingAssumption PROVE BookingSpec => []BookingTypeOK
<1>1. BookingInit => BookingInv /\ BookingBounds
  BY BookingInitInv, BoundsInitially
<1>2. BookingInv /\ BookingBounds /\ [BookingNext]_bookingVars => (BookingInv /\ BookingBounds)'
  <2>1. ASSUME BookingInv, BookingBounds, UNCHANGED bookingVars
        PROVE  BookingInv' /\ BookingBounds'
    BY <2>1 DEF BookingInv, BookingBounds, bookingVars, AsWanted
  <2>2. ASSUME BookingInv, BookingBounds, BookingNext PROVE BookingInv' /\ BookingBounds'
    <3>1. BookingInv'
      BY <2>2, CourierStep, EventStep DEF BookingNext
    <3> QED BY <2>2, <3>1, CourierBounds, EventBounds DEF BookingNext
  <2> QED BY <2>1, <2>2
<1>3. BookingInv /\ BookingBounds => BookingTypeOK
  BY BookingTyped
<1> QED BY <1>1, <1>2, <1>3, PTL DEF BookingSpec

(***************************************************************************)
(* Cases                                                                   *)
(***************************************************************************)

CheckRows == [status : Closed \cup {"planned", "waiting", "needs_user", "blocked"},
              job : {"none", "running", "verified", "failed", "needs_user", "uncertain"}, shows : Pages]
Runs == [pc : {"idle", "loaded", "planned"}, row : CaseStates, at : 0..CheckLimit]

CaseTypes ==
  /\ ledger \in [kind : {"order", "case"}, status : Ledgers, evident : BOOLEAN]
  /\ request \in [status : CaseStates, provider : BOOLEAN]
  /\ objective \in CaseStates \ {"dismissed"}
  /\ checks \in Seq(CheckRows) /\ Len(checks) <= CheckLimit
  /\ agent \in [Agents -> Runs]
  /\ able \in BOOLEAN /\ news \in 0..NewsLimit
  /\ told \in BOOLEAN /\ refused \in BOOLEAN /\ overtaken \in BOOLEAN

\* Only an action that is complete shows what a page said, and what a session is about to
\* dispatch is its own and was not dispatched before.
ChecksFine ==
  /\ \A n \in DOMAIN checks : checks[n].shows # "unknown" => checks[n].status = "completed"
  /\ \A s \in Agents : agent[s].pc # "idle" => agent[s].row \notin Settled \cup {"none"}
  /\ \A s \in Agents : agent[s].pc = "planned" =>
       /\ agent[s].at \in DOMAIN checks
       /\ checks[agent[s].at].job = "none" /\ checks[agent[s].at].shows = "unknown"
       /\ \A o \in Agents : agent[o].pc = "planned" /\ agent[o].at = agent[s].at => o = s

Proven(n) == checks[n].job = "verified" /\ (ledger.kind = "order" => checks[n].shows = "delivered")
Evidence == told \/ \E n \in DOMAIN checks : Proven(n)
EndsByEvidence == request.status = "completed" \/ ledger.status = "over" => Evidence

RefusalHolds ==
  refused => /\ request.status # "none"
             /\ ~overtaken => request.status \in {"dismissed", "cancelled"}
SaysTheSame ==
  ~overtaken => \/ objective = Mapped(request.status)
                \/ objective = "blocked" /\ request.status = "planned" /\ request.provider

CaseInv == CaseTypes /\ ChecksFine /\ EndsByEvidence /\ RefusalHolds /\ SaysTheSame

LEMMA LimitsAre == ASSUME CaseAssumption PROVE CheckLimit \in Nat /\ NewsLimit \in Nat
BY DEF CaseAssumption

LEMMA CaseInitInv == ASSUME CaseAssumption, CaseInit PROVE CaseInv
<1>1. ledger \in [kind : {"order", "case"}, status : Ledgers, evident : BOOLEAN]
        /\ ledger.status = "open"
  <2>1. PICK what \in CaseKinds, evident \in BOOLEAN :
          ledger = [kind |-> what, status |-> "open", evident |-> (evident /\ what = "order")]
    BY DEF CaseInit
  <2>2. what \in {"order", "case"} /\ (evident /\ what = "order") \in BOOLEAN
    BY DEF CaseAssumption
  <2> QED BY <2>1, <2>2 DEF Ledgers
<1>2. Resting \in Runs /\ Resting.pc = "idle"
  BY DEF CaseAssumption, Resting, Runs, CaseStates
<1>3. request \in [status : CaseStates, provider : BOOLEAN] /\ request.status = "none"
  BY DEF CaseInit, CaseStates
<1>4. objective = "none" /\ checks = <<>> /\ agent = [s \in Agents |-> Resting] /\ news = 0
  BY DEF CaseInit
<1>5. able \in BOOLEAN /\ told = FALSE /\ refused = FALSE /\ overtaken = FALSE
  BY DEF CaseInit
<1>6. told \in BOOLEAN /\ refused \in BOOLEAN /\ overtaken \in BOOLEAN
  BY <1>5, Zenon
<1>7. CheckLimit \in Nat /\ NewsLimit \in Nat
  BY DEF CaseAssumption
<1>8. checks \in Seq(CheckRows) /\ Len(checks) <= CheckLimit /\ DOMAIN checks = {}
  BY <1>4, <1>7
<1>9. CaseTypes
  BY <1>1, <1>2, <1>3, <1>4, <1>5, <1>6, <1>7, <1>8 DEF CaseTypes, CaseStates
<1>10. ~refused /\ objective = Mapped(request.status)
  BY <1>3, <1>4, <1>5 DEF Mapped
<1> QED BY <1>1, <1>2, <1>3, <1>4, <1>8, <1>9, <1>10
     DEF CaseInv, ChecksFine, EndsByEvidence, RefusalHolds, SaysTheSame

-----
LEMMA CheckRowsAre ==
  ASSUME CaseInv
  PROVE  /\ Len(checks) \in Nat /\ DOMAIN checks = 1..Len(checks)
         /\ \A n \in DOMAIN checks : checks[n] \in CheckRows
BY DEF CaseInv, CaseTypes

\* What was proved stays so: an action that is verified, with what it shows, is left alone.
LEMMA EvidenceStays ==
  ASSUME told => told', ledger'.kind = ledger.kind, DOMAIN checks \subseteq DOMAIN checks',
         \A n \in DOMAIN checks :
           /\ checks[n].job = "verified" => checks'[n].job = "verified"
           /\ checks[n].shows = "delivered" => checks'[n].shows = "delivered",
         Evidence
  PROVE  Evidence'
BY DEF Evidence, Proven

\* A run saves what it makes of the request: it disturbs neither a refusal nor the objective,
\* unless the request has changed since it was loaded.
LEMMA SaveStep ==
  ASSUME CaseInv, NEW s \in Agents, agent[s].pc # "idle",
         NEW status \in {"completed", "waiting", "needs_user", "blocked"}, SaveRequest(s, status),
         UNCHANGED refused
  PROVE  /\ request' \in [status : CaseStates, provider : BOOLEAN]
         /\ objective' \in CaseStates \ {"dismissed"} /\ overtaken' \in BOOLEAN
         /\ RefusalHolds' /\ SaysTheSame'
         /\ request'.status = "completed" => status = "completed" \/ request.status = "completed"
<1> DEFINE row == agent[s].row
<1>1. row \in CaseStates /\ row \notin Settled \cup {"none"}
  BY DEF CaseInv, CaseTypes, ChecksFine, Runs
<1>2. /\ request' = IF status # row THEN [request EXCEPT !.status = status] ELSE request
      /\ objective' = Mapped(status) /\ overtaken' = (overtaken \/ request.status # row)
  BY DEF SaveRequest
<1>3. request \in [status : CaseStates, provider : BOOLEAN] /\ overtaken \in BOOLEAN
  BY DEF CaseInv, CaseTypes
<1>4. /\ request' \in [status : CaseStates, provider : BOOLEAN]
      /\ request'.status = IF status # row THEN status ELSE request.status
  BY <1>2, <1>3 DEF CaseStates, Settled
<1>5. Mapped(status) = status
  BY DEF Mapped
<1>6. ~overtaken' => ~overtaken /\ request.status = row
  BY <1>2, <1>3
<1>7. RefusalHolds'
  BY <1>1, <1>4, <1>6 DEF CaseInv, RefusalHolds, Settled
<1>8. SaysTheSame'
  BY <1>2, <1>4, <1>5, <1>6 DEF SaysTheSame
<1> QED BY <1>1, <1>2, <1>3, <1>4, <1>5, <1>7, <1>8 DEF CaseStates, Settled

\* The request and the ledger of a step that changes neither
LEMMA RequestLeft ==
  ASSUME CaseInv, UNCHANGED <<request, objective, overtaken, refused>>
  PROVE  RefusalHolds' /\ SaysTheSame'
BY DEF CaseInv, RefusalHolds, SaysTheSame

LEMMA ChecksLeft ==
  ASSUME CaseInv, UNCHANGED <<checks, told>>, ledger'.kind = ledger.kind, Evidence PROVE Evidence'
BY EvidenceStays

\* A session that rests again, or has only loaded the request
LEMMA RestStep ==
  ASSUME CaseAssumption, CaseInv, NEW s \in Agents, Rest(s)
  PROVE  /\ agent' \in [Agents -> Runs]
         /\ \A o \in Agents : agent'[o].pc # "idle" => o # s /\ agent'[o] = agent[o]
<1>1. Resting \in Runs /\ Resting.pc = "idle"
  BY DEF CaseAssumption, Resting, Runs, CaseStates
<1> QED BY <1>1 DEF CaseInv, CaseTypes, Rest

\* One action changes, and only to what its page or its call has shown.
LEMMA CheckChanges ==
  ASSUME CaseInv, NEW n \in DOMAIN checks, NEW row \in CheckRows, checks' = [checks EXCEPT ![n] = row],
         row.shows # "unknown" => row.status = "completed",
         checks[n].job = "verified" => row.job = "verified",
         checks[n].shows = "delivered" => row.shows = "delivered",
         told => told', ledger'.kind = ledger.kind
  PROVE  /\ checks' \in Seq(CheckRows) /\ Len(checks') = Len(checks) /\ DOMAIN checks' = DOMAIN checks
         /\ \A k \in DOMAIN checks : checks'[k] = IF k = n THEN row ELSE checks[k]
         /\ \A k \in DOMAIN checks' : checks'[k].shows # "unknown" => checks'[k].status = "completed"
         /\ Evidence => Evidence'
<1>1. /\ checks' \in Seq(CheckRows) /\ Len(checks') = Len(checks) /\ DOMAIN checks' = DOMAIN checks
      /\ \A k \in DOMAIN checks : checks'[k] = IF k = n THEN row ELSE checks[k]
  BY DEF CaseInv, CaseTypes
<1>2. \A k \in DOMAIN checks' : checks'[k].shows # "unknown" => checks'[k].status = "completed"
  BY <1>1 DEF CaseInv, ChecksFine
<1>3. Evidence => Evidence'
  BY <1>1, EvidenceStays
<1> QED BY <1>1, <1>2, <1>3

-----
\* Steps of a run

LEMMA LoadCaseStep == ASSUME CaseAssumption, CaseInv, NEW s \in Agents, LoadCase(s) PROVE CaseInv'
<1> DEFINE new == [Resting EXCEPT !.pc = "loaded", !.row = request.status]
<1>1. /\ request.status \notin Settled \cup {"none"} /\ agent' = [agent EXCEPT ![s] = new]
      /\ UNCHANGED <<ledger, request, objective, checks, overtaken, able, news, told, refused>>
  BY DEF LoadCase, World
<1>2. new \in Runs /\ new.pc = "loaded" /\ new.row = request.status
  <2>1. request.status \in CaseStates /\ 0 \in 0..CheckLimit
    BY LimitsAre DEF CaseInv, CaseTypes
  <2> QED BY <2>1 DEF Resting, Runs
<1> HIDE DEF new
<1>3. agent' \in [Agents -> Runs] /\ \A o \in Agents : agent'[o] = IF o = s THEN new ELSE agent[o]
  BY <1>1, <1>2 DEF CaseInv, CaseTypes
<1>4. CaseTypes'
  BY <1>1, <1>3 DEF CaseInv, CaseTypes
<1>5. ChecksFine'
  BY <1>1, <1>2, <1>3 DEF CaseInv, ChecksFine
<1> QED BY <1>1, <1>4, <1>5, RequestLeft, ChecksLeft DEF CaseInv, EndsByEvidence

LEMMA SavesAndRests ==
  ASSUME CaseAssumption, CaseInv, NEW s \in Agents, agent[s].pc # "idle",
         NEW status \in {"completed", "waiting", "needs_user", "blocked"}, SaveRequest(s, status),
         Rest(s), UNCHANGED <<ledger, checks, World>>, status = "completed" => Evidence
  PROVE  CaseInv'
<1>1. UNCHANGED <<ledger, checks, able, news, told, refused>>
  BY DEF World
<1>2. CaseTypes'
  BY <1>1, SaveStep, RestStep DEF CaseInv, CaseTypes
<1>3. ChecksFine'
  BY <1>1, RestStep DEF CaseInv, ChecksFine
<1>4. EndsByEvidence'
  BY <1>1, SaveStep, ChecksLeft DEF CaseInv, EndsByEvidence
<1> QED BY <1>1, <1>2, <1>3, <1>4, SaveStep DEF CaseInv

LEMMA SaveOnlySteps ==
  ASSUME CaseAssumption, CaseInv, NEW s \in Agents, CompleteByLedger(s) \/ BlockCase(s) PROVE CaseInv'
<1>1. CASE CompleteByLedger(s)
  <2>1. Evidence
    BY <1>1 DEF CompleteByLedger, Over, CaseInv, EndsByEvidence
  <2> QED BY <1>1, <2>1, SavesAndRests DEF CompleteByLedger, Pc
<1>2. CASE BlockCase(s)
  BY <1>2, SavesAndRests DEF BlockCase, Pc
<1> QED BY <1>1, <1>2

LEMMA ObserveCheckStep ==
  ASSUME CaseAssumption, CaseInv, NEW s \in Agents, ObserveCheck(s) PROVE CaseInv'
<1> DEFINE job == checks[Last].job
<1>1. /\ agent[s].pc = "loaded" /\ ~Over /\ Open /\ Rest(s) /\ UNCHANGED <<able, news, told, refused>>
  BY DEF ObserveCheck, Pc, World
<1>2. /\ Last \in DOMAIN checks /\ checks[Last] \in CheckRows /\ checks[Last].shows = "unknown"
  BY <1>1, CheckRowsAre DEF Open, Last, CaseInv, ChecksFine, Closed
<1>3. CASE UNCHANGED <<ledger, request, objective, checks, overtaken>>
  <2>1. CaseTypes'
    BY <1>1, <1>3, RestStep DEF CaseInv, CaseTypes
  <2>2. ChecksFine'
    BY <1>1, <1>3, RestStep DEF CaseInv, ChecksFine
  <2> QED BY <1>1, <1>3, <2>1, <2>2, RequestLeft, ChecksLeft DEF CaseInv, EndsByEvidence
\* An action that was dispatched changes, and with it the request.
<1>4. ASSUME NEW row \in CheckRows, NEW to \in {"completed", "waiting", "needs_user", "blocked"},
             SaveRequest(s, to), job # "none", checks' = [checks EXCEPT ![Last] = row],
             row.job = checks[Last].job, row.shows # "unknown" => row.status = "completed",
             ledger' \in [kind : {"order", "case"}, status : Ledgers, evident : BOOLEAN],
             ledger'.kind = ledger.kind,
             to = "completed" \/ ledger'.status = "over" =>
               row.job = "verified" /\ (ledger.kind = "order" => row.shows = "delivered")
      PROVE  CaseInv'
  <2>1. /\ checks' \in Seq(CheckRows) /\ Len(checks') = Len(checks) /\ DOMAIN checks' = DOMAIN checks
        /\ \A k \in DOMAIN checks : checks'[k] = IF k = Last THEN row ELSE checks[k]
        /\ \A k \in DOMAIN checks' : checks'[k].shows # "unknown" => checks'[k].status = "completed"
        /\ Evidence => Evidence'
    BY <1>1, <1>2, <1>4, CheckChanges
  <2>2. CaseTypes'
    BY <1>1, <1>4, <2>1, SaveStep, RestStep DEF CaseInv, CaseTypes
  <2>3. ChecksFine'
    <3>1. \A o \in Agents : agent'[o].pc = "planned" => agent'[o] = agent[o] /\ agent[o].at # Last
      BY <1>1, <1>4, RestStep DEF CaseInv, ChecksFine
    <3> QED BY <1>1, <2>1, <3>1, RestStep DEF CaseInv, ChecksFine
  <2>4. EndsByEvidence'
    <3>1. CASE to = "completed" \/ ledger'.status = "over"
      <4>1. PICK n \in DOMAIN checks : n = Last
        BY <1>2
      <4>2. checks'[n] = row /\ row.job = "verified"
              /\ (ledger'.kind = "order" => row.shows = "delivered")
        BY <1>4, <2>1, <3>1, <4>1
      <4> QED BY <2>1, <4>2 DEF EndsByEvidence, Evidence, Proven
    <3>2. CASE to # "completed" /\ ledger'.status # "over"
      BY <1>1, <1>4, <2>1, <3>2, SaveStep DEF CaseInv, EndsByEvidence
    <3> QED BY <3>1, <3>2
  <2> QED BY <1>1, <1>4, <2>2, <2>3, <2>4, SaveStep DEF CaseInv
<1>5. CASE ledger.kind = "order" /\ job = "verified" /\ \E seen \in Pages : ObservePage(s, seen)
  <2>1. PICK seen \in Pages : ObservePage(s, seen)
    BY <1>5
  <2>2. CASE /\ SaveRequest(s, "blocked") /\ checks' = [checks EXCEPT ![Last].status = "blocked"]
             /\ UNCHANGED ledger
    <3> DEFINE row == [checks[Last] EXCEPT !.status = "blocked"]
    <3>1. row \in CheckRows /\ row.job = checks[Last].job /\ row.shows = "unknown"
      BY <1>2 DEF CheckRows
    <3>2. checks' = [checks EXCEPT ![Last] = row]
      BY <2>2
    <3> HIDE DEF row
    <3> QED BY <1>1, <1>4, <1>5, <2>2, <3>1, <3>2 DEF Over, CaseInv, CaseTypes
  <2>3. CASE /\ SaveRequest(s, CASE seen = "delivered" -> "completed"
                                 [] seen = "available_for_pickup" -> "needs_user"
                                 [] OTHER -> "waiting")
             /\ checks' = [checks EXCEPT ![Last] = Recorded(checks[Last], seen)]
             /\ ledger' = [ledger EXCEPT !.status = NotedAs(seen)]
    <3> DEFINE row == Recorded(checks[Last], seen)
               to == CASE seen = "delivered" -> "completed"
                       [] seen = "available_for_pickup" -> "needs_user" [] OTHER -> "waiting"
               noted == NotedAs(seen)
    <3>1. /\ row \in CheckRows /\ row.job = "verified" /\ row.shows = seen /\ row.status = "completed"
      BY <1>2, <1>5 DEF CheckRows, Recorded, Closed
    <3>2. to \in {"completed", "waiting", "needs_user", "blocked"}
            /\ (to = "completed" => seen = "delivered")
      BY DEF Pages, ParcelStates
    <3>3. noted \in Ledgers /\ (noted = "over" => seen = "delivered")
      BY <1>1 DEF NotedAs, Over, Ledgers, CaseInv, CaseTypes, Pages, ParcelStates
    <3>4. checks' = [checks EXCEPT ![Last] = row] /\ SaveRequest(s, to)
            /\ ledger' = [ledger EXCEPT !.status = noted]
      BY <2>3
    <3> HIDE DEF row, to, noted
    <3>5. /\ ledger' \in [kind : {"order", "case"}, status : Ledgers, evident : BOOLEAN]
          /\ ledger'.kind = ledger.kind /\ ledger'.status = noted
      BY <3>3, <3>4 DEF CaseInv, CaseTypes
    <3> QED BY <1>4, <1>5, <3>1, <3>2, <3>3, <3>4, <3>5
  <2> QED BY <2>1, <2>2, <2>3 DEF ObservePage
<1>6. CASE ledger.kind = "order" /\ job = "failed" /\ ObserveFailure(s)
  <2> DEFINE row == [checks[Last] EXCEPT !.status = "failed"]
  <2>1. row \in CheckRows /\ row.job = checks[Last].job /\ row.shows = "unknown"
    BY <1>2 DEF CheckRows, Closed
  <2>2. checks' = [checks EXCEPT ![Last] = row] /\ SaveRequest(s, "waiting") /\ UNCHANGED ledger
    BY <1>6 DEF ObserveFailure
  <2> HIDE DEF row
  <2> QED BY <1>1, <1>4, <1>6, <2>1, <2>2 DEF Over, CaseInv, CaseTypes
<1>7. CASE /\ job \in IF ledger.kind = "order" THEN {"running", "needs_user", "uncertain"}
                      ELSE {"running", "needs_user", "failed", "verified"}
           /\ ObserveOther(s, job)
  <2> DEFINE to == CASE job = "verified" -> "completed" [] job = "uncertain" -> "blocked"
                     [] job = "needs_user" -> "needs_user" [] OTHER -> "waiting"
             row == [checks[Last] EXCEPT !.status = to]
  <2>1. to \in {"completed", "waiting", "needs_user", "blocked"}
          /\ (to = "completed" => job = "verified")
    BY <1>7
  <2>2. checks' = [checks EXCEPT ![Last] = row] /\ SaveRequest(s, to) /\ UNCHANGED ledger
    BY <1>7 DEF ObserveOther
  <2> HIDE DEF to
  <2>3. row \in CheckRows /\ row.job = job /\ row.shows = "unknown"
    BY <1>2, <2>1 DEF CheckRows, Closed
  <2>4. job # "none" /\ (ledger.kind = "order" => to # "completed")
    BY <1>7, <2>1
  <2> HIDE DEF row
  <2> QED BY <1>1, <1>4, <2>1, <2>2, <2>3, <2>4 DEF Over, CaseInv, CaseTypes
<1> QED BY <1>3, <1>5, <1>6, <1>7 DEF ObserveCheck

LEMMA EnsureCheckStep ==
  ASSUME CaseAssumption, CaseInv, NEW s \in Agents, EnsureCheck(s) PROVE CaseInv'
<1> DEFINE row == [status |-> "planned", job |-> "none", shows |-> "unknown"]
           new == [agent[s] EXCEPT !.pc = "planned", !.at = Len(checks) + 1]
<1>1. /\ agent[s].pc = "loaded" /\ Len(checks) < CheckLimit
      /\ checks' = Append(checks, row) /\ agent' = [agent EXCEPT ![s] = new]
      /\ UNCHANGED <<ledger, request, objective, overtaken, able, news, told, refused>>
  BY DEF EnsureCheck, Pc, Last, World
<1>2. Len(checks) \in Nat /\ CheckLimit \in Nat /\ checks \in Seq(CheckRows) /\ agent[s] \in Runs
  BY CheckRowsAre DEF CaseInv, CaseTypes, CaseAssumption
<1>3. row \in CheckRows /\ row.job = "none" /\ row.shows = "unknown"
  BY DEF CheckRows, Pages
<1>4. new \in Runs /\ new.pc = "planned" /\ new.at = Len(checks) + 1 /\ new.row = agent[s].row
  <2>1. Len(checks) + 1 \in 0..CheckLimit
    BY <1>1, <1>2
  <2> QED BY <1>2, <2>1 DEF Runs
<1> HIDE DEF row, new
<1>5. /\ checks' \in Seq(CheckRows) /\ Len(checks') = Len(checks) + 1
      /\ DOMAIN checks' = 1..(Len(checks) + 1) /\ DOMAIN checks = 1..Len(checks)
      /\ checks'[Len(checks) + 1] = row /\ \A n \in DOMAIN checks : checks'[n] = checks[n]
  BY <1>1, <1>2, <1>3
<1>6. agent' \in [Agents -> Runs] /\ \A o \in Agents : agent'[o] = IF o = s THEN new ELSE agent[o]
  BY <1>1, <1>4 DEF CaseInv, CaseTypes
<1>7. CaseTypes'
  BY <1>1, <1>2, <1>5, <1>6 DEF CaseInv, CaseTypes
<1>8. ChecksFine'
  <2>1. \A n \in DOMAIN checks' : checks'[n].shows # "unknown" => checks'[n].status = "completed"
    <3>1. \A n \in DOMAIN checks' : n \in DOMAIN checks \/ n = Len(checks) + 1
      BY <1>2, <1>5
    <3> QED BY <1>3, <1>5, <3>1 DEF CaseInv, ChecksFine
  <2>2. \A o \in Agents : agent'[o].pc # "idle" => agent'[o].row \notin Settled \cup {"none"}
    BY <1>1, <1>4, <1>6 DEF CaseInv, ChecksFine
  <2>3. \A o \in Agents : o # s /\ agent'[o].pc = "planned" =>
          /\ agent'[o] = agent[o] /\ agent[o].at \in DOMAIN checks /\ agent[o].at # Len(checks) + 1
    BY <1>2, <1>5, <1>6 DEF CaseInv, ChecksFine
  <2>4. Len(checks) + 1 \in DOMAIN checks' /\ DOMAIN checks \subseteq DOMAIN checks'
    BY <1>2, <1>5
  <2>5. ASSUME NEW o \in Agents, agent'[o].pc = "planned"
        PROVE  /\ agent'[o].at \in DOMAIN checks'
               /\ checks'[agent'[o].at].job = "none" /\ checks'[agent'[o].at].shows = "unknown"
               /\ \A q \in Agents : agent'[q].pc = "planned" /\ agent'[q].at = agent'[o].at => q = o
    <3>1. CASE o = s
      BY <1>3, <1>4, <1>5, <1>6, <2>3, <2>4, <3>1
    <3>2. CASE o # s
      BY <1>4, <1>5, <1>6, <2>3, <2>4, <2>5, <3>2 DEF CaseInv, ChecksFine
    <3> QED BY <3>1, <3>2
  <2> QED BY <2>1, <2>2, <2>5 DEF ChecksFine
<1>9. Evidence => Evidence'
  <2>1. DOMAIN checks \subseteq DOMAIN checks'
    BY <1>2, <1>5
  <2> QED BY <1>1, <1>5, <2>1, EvidenceStays
<1> QED BY <1>1, <1>7, <1>8, <1>9, RequestLeft DEF CaseInv, EndsByEvidence

LEMMA DispatchStep ==
  ASSUME CaseAssumption, CaseInv, NEW s \in Agents, DispatchCheck(s) \/ DispatchCheckFails(s)
  PROVE  CaseInv'
<1> DEFINE n == agent[s].at
<1>1. agent[s].pc = "planned" /\ Rest(s) /\ UNCHANGED <<ledger, able, news, told, refused>>
  BY DEF DispatchCheck, DispatchCheckFails, Pc, World
<1>2. n \in DOMAIN checks /\ checks[n].job = "none" /\ checks[n].shows = "unknown"
        /\ checks[n] \in CheckRows
  BY <1>1, CheckRowsAre DEF CaseInv, ChecksFine
<1>3. PICK row \in CheckRows, to \in {"waiting", "blocked"} :
        SaveRequest(s, to) /\ checks' = [checks EXCEPT ![n] = row] /\ row.shows = "unknown"
  <2>1. CASE DispatchCheck(s)
    <3> DEFINE row == [checks[n] EXCEPT !.status = "waiting", !.job = "running"]
    <3>1. row \in CheckRows /\ row.shows = "unknown"
      BY <1>2 DEF CheckRows
    <3>2. checks' = [checks EXCEPT ![n] = row] /\ SaveRequest(s, "waiting")
      BY <1>2, <2>1 DEF DispatchCheck, CaseInv, CaseTypes
    <3> HIDE DEF row
    <3> QED BY <3>1, <3>2
  <2>2. CASE DispatchCheckFails(s)
    <3> DEFINE row == [checks[n] EXCEPT !.status = "blocked"]
    <3>1. row \in CheckRows /\ row.shows = "unknown"
      BY <1>2 DEF CheckRows
    <3>2. checks' = [checks EXCEPT ![n] = row] /\ SaveRequest(s, "blocked")
      BY <2>2 DEF DispatchCheckFails
    <3> HIDE DEF row
    <3> QED BY <3>1, <3>2
  <2> QED BY <2>1, <2>2
<1>4. /\ checks' \in Seq(CheckRows) /\ Len(checks') = Len(checks) /\ DOMAIN checks' = DOMAIN checks
      /\ \A k \in DOMAIN checks : checks'[k] = IF k = n THEN row ELSE checks[k]
      /\ \A k \in DOMAIN checks' : checks'[k].shows # "unknown" => checks'[k].status = "completed"
      /\ Evidence => Evidence'
  BY <1>1, <1>2, <1>3, CheckChanges
<1>5. CaseTypes'
  BY <1>1, <1>3, <1>4, SaveStep, RestStep DEF CaseInv, CaseTypes
<1>6. ChecksFine'
  <2>1. \A o \in Agents : agent'[o].pc = "planned" => agent'[o] = agent[o] /\ agent[o].at # n
    BY <1>1, RestStep DEF CaseInv, ChecksFine
  <2> QED BY <1>1, <1>4, <2>1, RestStep DEF CaseInv, ChecksFine
<1>7. EndsByEvidence'
  BY <1>1, <1>3, <1>4, SaveStep DEF CaseInv, EndsByEvidence
<1> QED BY <1>1, <1>3, <1>5, <1>6, <1>7, SaveStep DEF CaseInv

LEMMA BreaksOrDies ==
  ASSUME CaseAssumption, CaseInv, NEW s \in Agents, CaseRunBreaks(s) \/ AgentDies(s) PROVE CaseInv'
<1>1. Rest(s) /\ agent[s].pc # "idle" /\ UNCHANGED <<ledger, checks, able, news, told, refused>>
  BY DEF CaseRunBreaks, AgentDies, Pc, World
<1>2. ChecksFine'
  BY <1>1, RestStep DEF CaseInv, ChecksFine
<1>3. CASE UNCHANGED <<request, objective, overtaken>>
  <2>1. CaseTypes'
    BY <1>1, <1>3, RestStep DEF CaseInv, CaseTypes
  <2> QED BY <1>1, <1>2, <1>3, <2>1, RequestLeft, ChecksLeft DEF CaseInv, EndsByEvidence
<1>4. CASE /\ request' = [request EXCEPT !.status = "blocked"] /\ objective' = "blocked"
           /\ overtaken' = (overtaken \/ request.status # agent[s].row)
  <2>1. /\ request' \in [status : CaseStates, provider : BOOLEAN] /\ request'.status = "blocked"
        /\ objective' \in CaseStates \ {"dismissed"} /\ overtaken' \in BOOLEAN
    BY <1>4 DEF CaseInv, CaseTypes, CaseStates, Settled
  <2>2. CaseTypes'
    BY <1>1, <2>1, RestStep DEF CaseInv, CaseTypes
  <2>3. ~overtaken' => ~overtaken /\ request.status \notin Settled
    BY <1>1, <1>4 DEF CaseInv, CaseTypes, ChecksFine
  <2>4. RefusalHolds'
    BY <1>1, <2>1, <2>3 DEF CaseInv, RefusalHolds, Settled
  <2>5. SaysTheSame'
    BY <1>4, <2>1 DEF SaysTheSame, Mapped
  <2>6. EndsByEvidence'
    BY <1>1, <2>1, ChecksLeft DEF CaseInv, EndsByEvidence
  <2> QED BY <1>2, <2>2, <2>4, <2>5, <2>6 DEF CaseInv
<1> QED BY <1>1, <1>3, <1>4 DEF CaseRunBreaks, AgentDies

-----
\* Steps of the mail, the owner and the world, which leave the sessions alone

LEMMA DismissStep ==
  ASSUME CaseInv, Dismiss, UNCHANGED <<agent, overtaken>>, told' = told
  PROVE  /\ ledger' \in [kind : {"order", "case"}, status : Ledgers, evident : BOOLEAN]
         /\ request' \in [status : CaseStates, provider : BOOLEAN]
         /\ objective' \in CaseStates \ {"dismissed"}
         /\ checks' \in Seq(CheckRows) /\ Len(checks') <= CheckLimit
         /\ ChecksFine' /\ EndsByEvidence' /\ SaysTheSame'
         /\ request'.status = IF request.status = "none" THEN "none" ELSE "dismissed"
<1>1. ledger' = [ledger EXCEPT !.status = "not_order"]
  BY DEF Dismiss
<1>2. /\ ledger' \in [kind : {"order", "case"}, status : Ledgers, evident : BOOLEAN]
      /\ ledger'.kind = ledger.kind /\ ledger'.status = "not_order"
  BY <1>1 DEF CaseInv, CaseTypes, Ledgers
<1>3. CASE request.status = "none"
  <2>1. UNCHANGED <<request, objective, checks>>
    BY <1>3 DEF Dismiss
  <2>2. ChecksFine'
    BY <2>1 DEF CaseInv, ChecksFine
  <2>3. EndsByEvidence'
    BY <1>2, <1>3, <2>1 DEF EndsByEvidence
  <2> QED BY <1>2, <1>3, <2>1, <2>2, <2>3 DEF CaseInv, CaseTypes, SaysTheSame
<1>4. CASE request.status # "none"
  <2>1. /\ request' = [request EXCEPT !.status = "dismissed"] /\ objective' = "cancelled"
        /\ checks' = [n \in DOMAIN checks |-> IF checks[n].status \in Closed THEN checks[n]
                                              ELSE [checks[n] EXCEPT !.status = "cancelled"]]
    BY <1>4 DEF Dismiss
  <2>2. /\ request' \in [status : CaseStates, provider : BOOLEAN] /\ request'.status = "dismissed"
        /\ objective' \in CaseStates \ {"dismissed"}
    BY <2>1 DEF CaseInv, CaseTypes, CaseStates, Settled
  <2>3. ASSUME NEW n \in DOMAIN checks
        PROVE  /\ checks'[n] \in CheckRows /\ checks'[n].job = checks[n].job
                  /\ checks'[n].shows = checks[n].shows
               /\ checks'[n].shows # "unknown" => checks'[n].status = "completed"
    <3>1. checks[n] \in CheckRows /\ (checks[n].shows # "unknown" => checks[n].status = "completed")
      BY CheckRowsAre DEF CaseInv, ChecksFine
    <3>2. CASE checks[n].status \in Closed
      BY <2>1, <3>1, <3>2
    <3>3. CASE checks[n].status \notin Closed
      <4>1. checks'[n] = [checks[n] EXCEPT !.status = "cancelled"] /\ checks[n].shows = "unknown"
        BY <2>1, <3>1, <3>3 DEF Closed
      <4> QED BY <3>1, <4>1 DEF CheckRows, Closed
    <3> QED BY <3>2, <3>3
  <2>4. DOMAIN checks' = DOMAIN checks /\ DOMAIN checks = 1..Len(checks) /\ Len(checks) \in Nat
    BY <2>1, CheckRowsAre
  <2>5. checks' \in Seq(CheckRows) /\ Len(checks') = Len(checks)
    <3>1. checks' = [n \in 1..Len(checks) |-> checks'[n]]
      BY <2>1, <2>4
    <3>2. checks' \in [1..Len(checks) -> CheckRows]
      BY <2>3, <2>4, <3>1
    <3> QED BY <2>4, <3>2
  <2>6. ChecksFine'
    BY <2>3, <2>4 DEF CaseInv, ChecksFine
  <2>7. EndsByEvidence' /\ SaysTheSame'
    BY <1>2, <2>1, <2>2 DEF EndsByEvidence, SaysTheSame, Mapped
  <2> QED BY <1>2, <1>4, <2>2, <2>5, <2>6, <2>7 DEF CaseInv, CaseTypes
<1> QED BY <1>3, <1>4

LEMMA IngestStep == ASSUME CaseAssumption, CaseInv, Ingest PROVE CaseInv'
<1>1. UNCHANGED <<agent, overtaken, able, news, told, refused>>
  BY DEF Ingest, World
<1>2. CASE Dismiss
  <2>1. CaseTypes'
    BY <1>1, <1>2, DismissStep DEF CaseInv, CaseTypes
  <2>2. RefusalHolds'
    BY <1>1, <1>2, DismissStep DEF CaseInv, RefusalHolds
  <2> QED BY <1>1, <1>2, <2>1, <2>2, DismissStep DEF CaseInv
<1>3. CASE /\ request.status = "none"
           /\ request' = [status |-> IF Over THEN "completed" ELSE "planned", provider |-> ProviderFound]
           /\ EnsureObjective(request'.status)
           /\ UNCHANGED <<ledger, checks>>
  <2>1. /\ request'.status = IF Over THEN "completed" ELSE "planned"
        /\ request' \in [status : CaseStates, provider : BOOLEAN]
    BY <1>3 DEF CaseInv, CaseTypes, CaseStates, Settled, ProviderFound
  <2>2. /\ objective' = IF objective = "none" THEN request'.status ELSE objective
        /\ ~overtaken => objective = "none"
    BY <1>3 DEF EnsureObjective, CaseInv, SaysTheSame, Mapped
  <2>3. CaseTypes'
    BY <1>1, <1>3, <2>1, <2>2 DEF CaseInv, CaseTypes, CaseStates, Settled
  <2>4. ChecksFine'
    BY <1>1, <1>3 DEF CaseInv, ChecksFine
  <2>5. EndsByEvidence'
    BY <1>1, <1>3, <2>1, ChecksLeft DEF CaseInv, EndsByEvidence, Over
  <2>6. RefusalHolds' /\ SaysTheSame'
    BY <1>1, <1>3, <2>1, <2>2 DEF CaseInv, RefusalHolds, SaysTheSame, Mapped
  <2> QED BY <2>3, <2>4, <2>5, <2>6 DEF CaseInv
<1>4. CASE /\ request.status # "none" /\ ~request.provider /\ ProviderFound
           /\ request' = [status |-> IF request.status = "blocked" THEN "planned" ELSE request.status,
                          provider |-> TRUE]
           /\ UNCHANGED <<ledger, objective, checks>>
  <2>1. /\ request'.status = (IF request.status = "blocked" THEN "planned" ELSE request.status)
        /\ request'.provider /\ request' \in [status : CaseStates, provider : BOOLEAN]
    BY <1>4 DEF CaseInv, CaseTypes, CaseStates
  <2>2. CaseTypes'
    BY <1>1, <1>4, <2>1 DEF CaseInv, CaseTypes
  <2>3. ChecksFine'
    BY <1>1, <1>4 DEF CaseInv, ChecksFine
  <2>4. EndsByEvidence'
    BY <1>1, <1>4, <2>1, ChecksLeft DEF CaseInv, EndsByEvidence
  <2>5. RefusalHolds' /\ SaysTheSame'
    BY <1>1, <1>4, <2>1 DEF CaseInv, RefusalHolds, SaysTheSame, Mapped
  <2> QED BY <2>2, <2>3, <2>4, <2>5 DEF CaseInv
<1> QED BY <1>2, <1>3, <1>4 DEF Ingest

LEMMA JobRunsStep == ASSUME CaseInv, NEW n \in DOMAIN checks, JobRuns(n) PROVE CaseInv'
<1>1. PICK job \in {"verified", "failed", "needs_user", "uncertain"} :
        checks' = [checks EXCEPT ![n].job = job]
  BY DEF JobRuns
<1>2. /\ checks[n].job \in {"running", "needs_user"}
      /\ UNCHANGED <<ledger, request, objective, agent, overtaken, able, news, told, refused>>
  BY DEF JobRuns, World
<1> DEFINE row == [checks[n] EXCEPT !.job = job]
<1>3. row \in CheckRows /\ row.shows = checks[n].shows /\ row.status = checks[n].status
  BY CheckRowsAre DEF CheckRows
<1>4. checks' = [checks EXCEPT ![n] = row]
  BY <1>1
<1> HIDE DEF row
<1>5. /\ checks' \in Seq(CheckRows) /\ Len(checks') = Len(checks) /\ DOMAIN checks' = DOMAIN checks
      /\ \A k \in DOMAIN checks : checks'[k] = IF k = n THEN row ELSE checks[k]
      /\ \A k \in DOMAIN checks' : checks'[k].shows # "unknown" => checks'[k].status = "completed"
      /\ Evidence => Evidence'
  BY <1>2, <1>3, <1>4, CheckChanges DEF CaseInv, ChecksFine
<1>6. CaseTypes'
  BY <1>2, <1>5 DEF CaseInv, CaseTypes
<1>7. ChecksFine'
  <2>1. \A s \in Agents : agent[s].pc = "planned" => agent[s].at # n
    BY <1>2 DEF CaseInv, ChecksFine
  <2> QED BY <1>2, <1>5, <2>1 DEF CaseInv, ChecksFine
<1> QED BY <1>2, <1>5, <1>6, <1>7, RequestLeft DEF CaseInv, EndsByEvidence

LEMMA MailStep == ASSUME CaseAssumption, CaseInv, OrderMail \/ CaseMail PROVE CaseInv'
<1>1. /\ news' \in 0..NewsLimit
      /\ UNCHANGED <<request, objective, checks, agent, able, refused, overtaken>>
  <2>1. news \in 0..NewsLimit /\ news' = news + 1 /\ news < NewsLimit
    BY DEF OrderMail, CaseMail, Happens, CaseInv, CaseTypes
  <2>2. news' \in 0..NewsLimit
    BY <2>1, LimitsAre
  <2>3. UNCHANGED <<request, objective, checks, agent, able, refused, overtaken>>
    BY Zenon DEF OrderMail, CaseMail
  <2> QED BY <2>2, <2>3
<1>2. PICK status \in {"open", "moving", "over"} :
        /\ \/ \E evident \in BOOLEAN : ledger' = [ledger EXCEPT !.status = status, !.evident = evident]
           \/ ledger' = [ledger EXCEPT !.status = status]
        /\ told' = (told \/ status = "over")
  BY DEF OrderMail, CaseMail
<1>3. /\ ledger' \in [kind : {"order", "case"}, status : Ledgers, evident : BOOLEAN]
      /\ ledger'.kind = ledger.kind /\ ledger'.status = status
  BY <1>2 DEF CaseInv, CaseTypes, Ledgers
<1>4. told' \in BOOLEAN /\ (told => told') /\ (status = "over" => told')
  BY <1>2 DEF CaseInv, CaseTypes
<1>5. CaseTypes'
  BY <1>1, <1>3, <1>4 DEF CaseInv, CaseTypes
<1>6. ChecksFine'
  BY <1>1 DEF CaseInv, ChecksFine
<1>7. Evidence => Evidence'
  BY <1>1, <1>3, <1>4, EvidenceStays
<1>8. EndsByEvidence'
  BY <1>1, <1>3, <1>4, <1>7 DEF CaseInv, EndsByEvidence, Evidence
<1> QED BY <1>1, <1>5, <1>6, <1>8, RequestLeft DEF CaseInv

LEMMA OwnerStep ==
  ASSUME CaseAssumption, CaseInv, OwnerDismisses \/ OwnerRestores \/ CancelCase \/ ProviderChanges
  PROVE  CaseInv'
<1>1. news' \in 0..NewsLimit /\ UNCHANGED <<agent, told, overtaken>>
  BY DEF OwnerDismisses, OwnerRestores, CancelCase, ProviderChanges, Happens, CaseInv, CaseTypes,
     CaseAssumption
<1>2. CASE OwnerDismisses
  <2>1. Dismiss /\ refused' = (request.status # "none") /\ UNCHANGED able
    BY <1>2 DEF OwnerDismisses
  <2>2. CaseTypes'
    BY <1>1, <2>1, DismissStep DEF CaseInv, CaseTypes
  <2>3. RefusalHolds'
    BY <1>1, <2>1, DismissStep DEF CaseInv, RefusalHolds
  <2> QED BY <1>1, <2>1, <2>2, <2>3, DismissStep DEF CaseInv
<1>3. CASE OwnerRestores
  <2>1. /\ ledger' = [ledger EXCEPT !.status = "confirmed"] /\ UNCHANGED <<checks, able>>
        /\ refused' = FALSE
    BY <1>3 DEF OwnerRestores
  <2>2. \/ request' = [request EXCEPT !.status = "planned"] /\ objective' = "planned"
        \/ UNCHANGED <<request, objective>>
    BY <1>3 DEF OwnerRestores
  <2>3. /\ ledger' \in [kind : {"order", "case"}, status : Ledgers, evident : BOOLEAN]
        /\ ledger'.kind = ledger.kind /\ ledger'.status = "confirmed"
    BY <2>1 DEF CaseInv, CaseTypes, Ledgers
  <2>4. refused' \in BOOLEAN /\ ~refused'
    BY <2>1, Zenon
  <2>5. /\ request' \in [status : CaseStates, provider : BOOLEAN]
        /\ objective' \in CaseStates \ {"dismissed"}
        /\ request'.status = "completed" => request.status = "completed"
    BY <2>2 DEF CaseInv, CaseTypes, CaseStates
  <2>6. CaseTypes'
    BY <1>1, <2>1, <2>3, <2>4, <2>5 DEF CaseInv, CaseTypes
  <2>7. ChecksFine'
    BY <1>1, <2>1 DEF CaseInv, ChecksFine
  <2>8. EndsByEvidence'
    BY <1>1, <2>1, <2>3, <2>5, ChecksLeft DEF CaseInv, EndsByEvidence
  <2>9. SaysTheSame'
    BY <1>1, <2>2 DEF CaseInv, CaseTypes, SaysTheSame, Mapped
  <2> QED BY <2>4, <2>6, <2>7, <2>8, <2>9 DEF CaseInv, RefusalHolds
<1>4. CASE CancelCase
  <2>1. /\ request.status # "none" /\ request' = [request EXCEPT !.status = "cancelled"]
        /\ objective' = "cancelled" /\ UNCHANGED <<ledger, checks, able, refused>>
    BY <1>4 DEF CancelCase
  <2>2. /\ request' \in [status : CaseStates, provider : BOOLEAN] /\ request'.status = "cancelled"
        /\ objective' \in CaseStates \ {"dismissed"}
    BY <2>1 DEF CaseInv, CaseTypes, CaseStates, Settled
  <2>3. CaseTypes'
    BY <1>1, <2>1, <2>2 DEF CaseInv, CaseTypes
  <2>4. ChecksFine'
    BY <1>1, <2>1 DEF CaseInv, ChecksFine
  <2>5. EndsByEvidence'
    BY <1>1, <2>1, <2>2, ChecksLeft DEF CaseInv, EndsByEvidence
  <2>6. RefusalHolds' /\ SaysTheSame'
    BY <2>1, <2>2 DEF RefusalHolds, SaysTheSame, Mapped
  <2> QED BY <2>3, <2>4, <2>5, <2>6 DEF CaseInv
<1>5. CASE ProviderChanges
  <2>1. able' \in BOOLEAN /\ UNCHANGED <<ledger, request, objective, checks, refused>>
    BY <1>5 DEF ProviderChanges
  <2>2. CaseTypes' /\ ChecksFine'
    BY <1>1, <2>1 DEF CaseInv, CaseTypes, ChecksFine
  <2> QED BY <1>1, <2>1, <2>2, RequestLeft, ChecksLeft DEF CaseInv, EndsByEvidence
<1> QED BY <1>2, <1>3, <1>4, <1>5

LEMMA CaseNextInv == ASSUME CaseAssumption, CaseInv, [CaseNext]_caseVars PROVE CaseInv'
<1>1. CASE UNCHANGED caseVars
  BY <1>1 DEF caseVars, CaseInv, CaseTypes, ChecksFine, EndsByEvidence, Evidence, Proven,
              RefusalHolds, SaysTheSame
<1>2. CASE \E s \in Agents : LoadCase(s) \/ CompleteByLedger(s) \/ BlockCase(s)
  BY <1>2, LoadCaseStep, SaveOnlySteps
<1>3. CASE \E s \in Agents : ObserveCheck(s) \/ EnsureCheck(s)
  BY <1>3, ObserveCheckStep, EnsureCheckStep
<1>4. CASE \E s \in Agents :
        DispatchCheck(s) \/ DispatchCheckFails(s) \/ CaseRunBreaks(s) \/ AgentDies(s)
  BY <1>4, DispatchStep, BreaksOrDies
<1>5. CASE Ingest \/ \E n \in DOMAIN checks : JobRuns(n)
  BY <1>5, IngestStep, JobRunsStep
<1>6. CASE OrderMail \/ CaseMail
  BY <1>6, MailStep
<1>7. CASE OwnerDismisses \/ OwnerRestores \/ CancelCase \/ ProviderChanges
  BY <1>7, OwnerStep
<1> QED BY <1>1, <1>2, <1>3, <1>4, <1>5, <1>6, <1>7 DEF CaseNext

LEMMA CaseAlways == ASSUME CaseAssumption PROVE CaseSpec => []CaseInv
BY CaseInitInv, CaseNextInv, PTL DEF CaseSpec

LEMMA CaseInvKeeps == ASSUME CaseInv PROVE CaseTypeOK /\ CasesEndByEvidence
<1>1. CaseTypeOK
  <2>1. \A n \in DOMAIN checks : checks[n] \in CheckRows
    BY CheckRowsAre
  <2> QED BY <2>1 DEF CaseInv, CaseTypes, CheckRows, Runs, CaseTypeOK
<1> QED BY <1>1 DEF CaseInv, EndsByEvidence, Evidence, Proven, RefusalHolds, SaysTheSame,
      CasesEndByEvidence

\* Ledger, request, checks and sessions keep their types.
THEOREM CaseTypesHold == ASSUME CaseAssumption PROVE CaseSpec => []CaseTypeOK
BY CaseAlways, CaseInvKeeps, PTL

\* A case ends only when a check that was verified proves it, or the owner or the mail
\* said so, and what the owner refused stays refused: for any agents, checks and news.
THEOREM CasesEnd == ASSUME CaseAssumption PROVE CaseSpec => []CasesEndByEvidence
BY CaseAlways, CaseInvKeeps, PTL

=============================================================================
